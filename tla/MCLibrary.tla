----------------------------- MODULE MCLibrary ------------------------------
(* The independent parts on small instances.                               *)
EXTENDS Library, TLC

CONSTANTS t1, t2

MCThreads  == {t1, t2}
MCHashes   == {"sha1", "sha256", "sha512", "md5", "sm3"}
MCMhKinds  == {"mh_sha1", "mh_sha256", "mh_sha1_murmur3"}
MCTriggers == {{}, {<<1>>, <<1, 1>>, <<0, 1, 1>>}, {<<0, 0>>, <<1, 1, 0>>, <<0, 0, 0>>}}

(* Features that come one after the other, to keep the machines few; the   *)
(* extensions are found with zmm state and without, with all of AVX512_G1, *)
(* with parts of it and without.                                           *)
MCImplied ==
    Implied \cup
    { <<"OSXSAVE", "SSE4_2">>, <<"XMM_YMM", "OSXSAVE">>, <<"AVX", "SSE4_2">>, <<"AVX2", "AVX">>,
      <<"ZMM_OPM", "XMM_YMM">>, <<"ZMM_OPM", "AVX2">>, <<"SHA", "SSE4_1">>,
      <<"SHA512NI", "AVX2">>, <<"SM3NI", "AVX2">>, <<"AVX512F", "ZMM_OPM">>,
      <<"HWCAP2_SVE2", "HWCAP_SVE">>, <<"8_LANES", "HWCAP_SVE">> }
Consistent(features) == \A p \in MCImplied : p[1] \in features => p[2] \in features

MCX86 ==
    {F \in {S \cup NI \cup G : S \in SUBSET {"SSE4_1", "SSE4_2", "OSXSAVE", "XMM_YMM", "AVX",
                                               "AVX2", "ZMM_OPM", "SHA"},
                                 NI \in {{}, {"SHA512NI", "SM3NI"}},
                                 G \in {{}, {"AVX512F", "AVX512CD"}, AVX512_G1}} : Consistent(F)}
MCArm ==
    {F \in {S \cup T : S \in SUBSET {"HWCAP_ASIMD", "HWCAP_SVE", "HWCAP2_SVE2", "8_LANES"},
                        T \in {{}, {"HWCAP_SHA1", "HWCAP_SHA2"},
                               {"HWCAP_SHA1", "HWCAP_SHA2", "HWCAP_SHA512", "HWCAP_SHA3",
                                "HWCAP_SM3"}}} : Consistent(F)}

(* Cores of one kind, and of two.                                          *)
MCMachines ==
    {[arch |-> "x86", features |-> F, parts |-> {"x86"}] : F \in MCX86}
        \cup {[arch |-> "aarch64", features |-> F, parts |-> P] :
                F \in MCArm, P \in {{"CORTEX_A72"}, {"CORTEX_A53"}, {"CORTEX_A72", "CORTEX_A53"}}}

(* What the first thread calls: all of one algorithm.  The second calls    *)
(* the self tests and the function without them.                           *)
MCFamilies ==
    { aes_gcm_pre \cup aes_gcm_init \cup aes_gcm_update \cup aes_gcm_finalize,
      aes_gcm_pre \cup aes_gcm_whole \cup aes_gcm_whole_nt,
      aes_gcm_init \cup aes_gcm_update_nt,
      aes_keyexp \cup aes_cbc_enc \cup aes_cbc_dec, aes_xts_128 \cup aes_xts_256,
      sha1_ctx_mgr \cup md5_ctx_mgr, sha256_ctx_mgr \cup sm3_ctx_mgr,
      sha512_ctx_mgr \cup rolling_hash2, mh_sha1 \cup mh_sha256, mh_sha1_murmur3_x64_128 }
MCPrograms ==
    {(t1 :> {f.fn : f \in F}) @@ (t2 :> {"isal_self_tests", "aes_gcm_dec_256_update"}) :
        F \in MCFamilies}

(* Output below the input, in place, and apart; forward and overlapping.   *)
MCShifts      == {-24, -4, -1, 0, 24}
\* What the header allows: in place, inside the input, and apart.
MCShiftsAbove == {0, 1, 4, 24}
MCBlockShifts == {-12, -1, 0, 1, 12}
=============================================================================
