----------------------------- MODULE CheckedApi -----------------------------
(***************************************************************************)
(* The checked entry points isal_<function> of every algorithm, in a build *)
(* with SAFE_PARAM: in FIPS mode a refusal of the algorithms that are not  *)
(* approved; tests of the parameters, here good or bad; in FIPS mode a     *)
(* call of isal_self_tests(); then the work.  Several threads call; the    *)
(* self tests are their promise, SelfTestGate, which the modules of the    *)
(* self tests are shown to keep.  A caller goes on only after success, but *)
(* may have made its keys and contexts with the deprecated functions,      *)
(* which test nothing.                                                     *)
(***************************************************************************)
EXTENDS Integers, Sequences

CONSTANTS
    ApiThreads,     \* threads that call
    NoThread,       \* not a thread
    NoFunction,     \* not a function
    NoWork,         \* not a piece of work
    ApiPrograms     \* bound of the model: functions each thread calls, one way or another

ASSUME ApiAssumption == NoThread \notin ApiThreads

VARIABLES
    apiFips,        \* built with FIPS_MODE
    apiPass,        \* do the known-answer suites pass
    apiUses,        \* the functions each thread calls
    apiCall,        \* each thread's call: pc, function, result
    apiHas,         \* the object each thread holds, and who made it
    apiWorked,      \* the work of each thread's last call (ghost)
    gateRunner, gateVerdict, gateAnswer     \* see SelfTestGate

gate == <<gateRunner, gateVerdict, gateAnswer>>
apiVars == <<apiFips, apiPass, apiUses, apiCall, apiHas, apiWorked, gate>>

Gate == INSTANCE SelfTestGate WITH
            Threads <- ApiThreads, NONE <- NoThread,
            runner <- gateRunner, verdict <- gateVerdict, answer <- gateAnswer

-----------------------------------------------------------------------------
(* A function: whether its algorithm is approved, whether it calls         *)
(* isal_self_tests(), the errors it finds in its parameters (PARAM for     *)
(* every one but the one that only FIPS mode has), what object it needs    *)
(* and leaves.                                                             *)
Function(fn, approved, tests, errors, takes, gives) ==
    [fn |-> fn, approved |-> approved, tests |-> tests, errors |-> errors,
     takes |-> takes, gives |-> gives]

Approved(fn, takes, gives)    == Function(fn, TRUE, TRUE, {"PARAM"}, takes, gives)
NotApproved(fn, takes, gives) == Function(fn, FALSE, FALSE, {"PARAM"}, takes, gives)

isal_self_tests == {Function("isal_self_tests", TRUE, TRUE, {}, "any", "same")}

aes_gcm_pre_Untested ==         \* fault: no self tests
    {Function(fn, TRUE, FALSE, {"PARAM"}, "any", "gcm_key") :
        fn \in {"aes_gcm_pre_128", "aes_gcm_pre_256"}}

aes_gcm_pre ==
    {Approved(fn, "any", "gcm_key") : fn \in {"aes_gcm_pre_128", "aes_gcm_pre_256"}}

aes_gcm_whole ==
    {Approved(fn, "gcm_key", "same") :
        fn \in {"aes_gcm_enc_128", "aes_gcm_enc_256", "aes_gcm_dec_128", "aes_gcm_dec_256"}}

aes_gcm_init ==
    {Approved(fn, "gcm_key", "gcm_ctx") : fn \in {"aes_gcm_init_128", "aes_gcm_init_256"}}

(* One of the four does not call isal_self_tests().                        *)
aes_gcm_update ==
    {Approved(fn, "gcm_ctx", "same") :
        fn \in {"aes_gcm_enc_128_update", "aes_gcm_enc_256_update", "aes_gcm_dec_128_update"}}
    \cup {Function("aes_gcm_dec_256_update", TRUE, FALSE, {"PARAM"}, "gcm_ctx", "same")}

aes_gcm_finalize ==
    {Approved(fn, "gcm_ctx", "gcm_key") :
        fn \in {"aes_gcm_enc_128_finalize", "aes_gcm_enc_256_finalize",
                "aes_gcm_dec_128_finalize", "aes_gcm_dec_256_finalize"}}

aes_gcm_whole_nt ==
    {Approved(fn, "gcm_key", "same") :
        fn \in {"aes_gcm_enc_128_nt", "aes_gcm_enc_256_nt",
                "aes_gcm_dec_128_nt", "aes_gcm_dec_256_nt"}}

aes_gcm_update_nt ==
    {Approved(fn, "gcm_ctx", "same") :
        fn \in {"aes_gcm_enc_128_update_nt", "aes_gcm_enc_256_update_nt",
                "aes_gcm_dec_128_update_nt", "aes_gcm_dec_256_update_nt"}}

aes_keyexp ==
    {Approved(fn, "any", "aes_key") :
        fn \in {"aes_keyexp_128", "aes_keyexp_192", "aes_keyexp_256"}}

aes_cbc_enc ==
    {Approved(fn, "aes_key", "same") :
        fn \in {"aes_cbc_enc_128", "aes_cbc_enc_192", "aes_cbc_enc_256"}}

aes_cbc_dec ==
    {Approved(fn, "aes_key", "same") :
        fn \in {"aes_cbc_dec_128", "aes_cbc_dec_192", "aes_cbc_dec_256"}}

(* In FIPS mode equal keys are refused before the self tests.              *)
Xts(fn, takes) == Function(fn, TRUE, TRUE, {"PARAM", "XTS_SAME_KEYS"}, takes, "same")

aes_xts_128 ==
    {Xts("aes_xts_enc_128", "any"), Xts("aes_xts_dec_128", "any"),
     Xts("aes_xts_enc_128_expanded_key", "aes_key"),
     Xts("aes_xts_dec_128_expanded_key", "aes_key")}

aes_xts_256 ==
    {Xts("aes_xts_enc_256", "any"), Xts("aes_xts_dec_256", "any"),
     Xts("aes_xts_enc_256_expanded_key", "aes_key"),
     Xts("aes_xts_dec_256_expanded_key", "aes_key")}

sha1_ctx_mgr ==
    {Approved("sha1_ctx_mgr_init", "any", "sha1_mgr"),
     Approved("sha1_ctx_mgr_submit", "sha1_mgr", "same"),
     Approved("sha1_ctx_mgr_flush", "sha1_mgr", "same")}

sha256_ctx_mgr ==
    {Approved("sha256_ctx_mgr_init", "any", "sha256_mgr"),
     Approved("sha256_ctx_mgr_submit", "sha256_mgr", "same"),
     Approved("sha256_ctx_mgr_flush", "sha256_mgr", "same")}

sha512_ctx_mgr ==
    {Approved("sha512_ctx_mgr_init", "any", "sha512_mgr"),
     Approved("sha512_ctx_mgr_submit", "sha512_mgr", "same"),
     Approved("sha512_ctx_mgr_flush", "sha512_mgr", "same")}

md5_ctx_mgr ==
    {NotApproved("md5_ctx_mgr_init", "any", "md5_mgr"),
     NotApproved("md5_ctx_mgr_submit", "md5_mgr", "same"),
     NotApproved("md5_ctx_mgr_flush", "md5_mgr", "same")}

sm3_ctx_mgr ==
    {NotApproved("sm3_ctx_mgr_init", "any", "sm3_mgr"),
     NotApproved("sm3_ctx_mgr_submit", "sm3_mgr", "same"),
     NotApproved("sm3_ctx_mgr_flush", "sm3_mgr", "same")}

mh_sha1 ==
    {NotApproved("mh_sha1_init", "any", "mh_sha1"),
     NotApproved("mh_sha1_update", "mh_sha1", "same"),
     NotApproved("mh_sha1_finalize", "mh_sha1", "same")}

mh_sha256 ==
    {NotApproved("mh_sha256_init", "any", "mh_sha256"),
     NotApproved("mh_sha256_update", "mh_sha256", "same"),
     NotApproved("mh_sha256_finalize", "mh_sha256", "same")}

mh_sha1_murmur3_x64_128 ==
    {NotApproved("murmur_init", "any", "murmur"),
     NotApproved("murmur_update", "murmur", "same"),
     NotApproved("murmur_finalize", "murmur", "same")}

rolling_hash2 ==
    {NotApproved("rolling_hash2_init", "any", "rolling"),
     NotApproved("rolling_hash2_reset", "rolling", "same"),
     NotApproved("rolling_hash2_run", "rolling", "same"),
     NotApproved("rolling_hashx_mask_gen", "any", "same")}

ApiFunctions ==
    UNION {isal_self_tests, aes_gcm_pre, aes_gcm_whole, aes_gcm_init, aes_gcm_update,
           aes_gcm_finalize, aes_gcm_whole_nt, aes_gcm_update_nt, aes_keyexp,
           aes_cbc_enc, aes_cbc_dec, aes_xts_128, aes_xts_256,
           sha1_ctx_mgr, sha256_ctx_mgr, sha512_ctx_mgr, md5_ctx_mgr, sm3_ctx_mgr,
           mh_sha1, mh_sha256, mh_sha1_murmur3_x64_128, rolling_hash2}

Nothing == [kind |-> "nothing", by |-> "isal"]

(* The objects some function of a thread needs.                            *)
Objects(t) == {f.takes : f \in {g \in ApiFunctions : g.fn \in apiUses[t]}} \ {"any"}

-----------------------------------------------------------------------------
Outside(ret) == [pc |-> "out", f |-> NoFunction, ret |-> ret]
Inside(f, pc) == [pc |-> pc, f |-> f, ret |-> "0"]

ApiInit ==
    /\ apiFips \in BOOLEAN
    /\ apiPass \in BOOLEAN
    /\ apiUses \in ApiPrograms
    /\ apiCall = [t \in ApiThreads |-> Outside("0")]
    /\ apiHas = [t \in ApiThreads |-> Nothing]
    /\ apiWorked = [t \in ApiThreads |-> NoWork]
    /\ Gate!Init

Calls(t, f) ==
    /\ apiCall[t].pc = "out"
    /\ f.fn \in apiUses[t]
    /\ f.takes \in {"any", apiHas[t].kind}
    /\ apiWorked' = [apiWorked EXCEPT ![t] = NoWork]
    /\ UNCHANGED <<apiFips, apiPass, apiUses, apiHas>>

(* What the build has; the tests of the parameters it makes.               *)
Available(f) == IF apiFips THEN f.approved ELSE f.fn # "isal_self_tests"
Errors(f) ==
    IF Available(f) THEN {e \in f.errors : apiFips \/ e # "XTS_SAME_KEYS"}
    ELSE {IF apiFips THEN "FIPS_INVALID_ALGO" ELSE "FIPS_DISABLED"}

(* A call that is refused: its algorithm, or a parameter found bad.        *)
ApiRefuse(t, f) ==
    /\ Calls(t, f)
    /\ \E ret \in Errors(f) : apiCall' = [apiCall EXCEPT ![t] = Outside(ret)]
    /\ UNCHANGED gate

(* A call with good parameters.                                            *)
ApiEnter(t, f) ==
    /\ Calls(t, f)
    /\ Available(f)
    /\ IF apiFips /\ f.tests
       THEN Gate!Call(t) /\ apiCall' = [apiCall EXCEPT ![t] = Inside(f, "test")]
       ELSE UNCHANGED gate /\ apiCall' = [apiCall EXCEPT ![t] = Inside(f, "in")]

(* Inside isal_self_tests().                                               *)
ApiSelfTests(t) ==
    /\ apiCall[t].pc = "test"
    /\ Gate!Begin(t) \/ Gate!Answer(t) \/ Gate!Conclude(t, IF apiPass THEN "ok" ELSE "fail")
    /\ UNCHANGED <<apiFips, apiPass, apiUses, apiCall, apiHas, apiWorked>>

(* isal_self_tests() has answered.                                         *)
ApiTested(t) ==
    /\ apiCall[t].pc = "test"
    /\ gateAnswer[t] # "pending"
    /\ apiCall' = [apiCall EXCEPT ![t] = IF gateAnswer[t] = "ok" THEN Inside(@.f, "in")
                                         ELSE Outside("SELF_TEST")]
    /\ UNCHANGED <<apiFips, apiPass, apiUses, apiHas, apiWorked, gate>>

(* The work.  An object made from a deprecated one counts as such.         *)
ApiWork(t) ==
    /\ apiCall[t].pc = "in"
    /\ \E f \in {apiCall[t].f} :
       \E by \in {IF f.takes = "any" THEN "isal" ELSE apiHas[t].by} :
          /\ apiWorked' = [apiWorked EXCEPT ![t] = [f |-> f, by |-> by, after |-> gateVerdict]]
          /\ apiHas' = [apiHas EXCEPT ![t] = IF f.gives = "same" THEN @
                                             ELSE [kind |-> f.gives, by |-> by]]
    /\ apiCall' = [apiCall EXCEPT ![t] = Outside("0")]
    /\ UNCHANGED <<apiFips, apiPass, apiUses, gate>>

(* The caller makes an object with deprecated functions, without isal_.    *)
ApiDeprecated(t, kind) ==
    /\ apiCall[t].pc = "out"
    /\ apiHas' = [apiHas EXCEPT ![t] = [kind |-> kind, by |-> "deprecated"]]
    /\ UNCHANGED <<apiFips, apiPass, apiUses, apiCall, apiWorked, gate>>

ApiNext ==
    \E t \in ApiThreads :
        \/ \E f \in ApiFunctions : ApiRefuse(t, f) \/ ApiEnter(t, f)
        \/ ApiSelfTests(t)
        \/ ApiTested(t)
        \/ ApiWork(t)
        \/ \E kind \in Objects(t) : ApiDeprecated(t, kind)

ApiSpec == ApiInit /\ [][ApiNext]_apiVars

-----------------------------------------------------------------------------
ApiTypeOK ==
    /\ apiUses \in ApiPrograms
    /\ \A t \in ApiThreads : /\ apiCall[t].pc \in {"out", "test", "in"}
                             /\ apiHas[t].by \in {"isal", "deprecated"}
    /\ gateRunner \in ApiThreads \cup {NoThread}

(* FIPS.md, "Covered API": in FIPS mode the checked functions work only    *)
(* with approved algorithms and only after the self tests have passed,     *)
(* whichever thread ran them.  aes_gcm_dec_256_update does not test, but   *)
(* has nothing to work on unless the deprecated functions made its context.*)
ApiWorkIsCovered ==
    apiFips => \A t \in ApiThreads : apiWorked[t] # NoWork =>
        /\ apiWorked[t].f.approved
        /\ \/ apiWorked[t].after = "ok"
           \/ apiWorked[t].f.fn = "aes_gcm_dec_256_update" /\ apiWorked[t].by = "deprecated"

(* isal_crypto_api.h:100: "If the self tests fail, no crypto processing    *)
(* will be done."                                                          *)
NoCryptoIfFailed ==
    apiFips => \A t \in ApiThreads : apiWorked[t] # NoWork => apiWorked[t].after # "fail"
=============================================================================
