------------------------------ MODULE Dispatch ------------------------------
(***************************************************************************)
(* How a call of init, submit or flush of a hash manager finds its         *)
(* implementation (include/multibinary.asm and the *_multibinary.asm on    *)
(* x86, include/internal/aarch64_multibinary.h and the *_dispatcher.c on   *)
(* aarch64).  Every function has a pointer of its own, which holds mbinit  *)
(* until a first call has asked the processor what it can do and stored an *)
(* implementation.  There is no lock: first calls of several threads may   *)
(* run the dispatcher at once.                                             *)
(***************************************************************************)
CONSTANTS
    DispThreads,    \* threads that call
    Machines,       \* records of arch, features of the process, parts: kinds of cores
    Families,       \* "sha1", "sha256", "sha512", "md5", "sm3"
    NoImpl          \* not an implementation

ASSUME DispAssumption ==
    /\ Families \subseteq {"sha1", "sha256", "sha512", "md5", "sm3"}
    /\ \A m \in Machines : m.arch \in {"x86", "aarch64"} /\ m.parts # {}

(* What the architectures promise, and no more: a processor that has the   *)
(* first has the second.                                                   *)
Implied ==
    {<<"SSE4_2", "SSE4_1">>, <<"HWCAP_SHA3", "HWCAP_SHA512">>}
        \cup ({"HWCAP_SHA1", "HWCAP_SHA2", "HWCAP_SHA512", "HWCAP_SM3", "HWCAP_SVE"}
                \X {"HWCAP_ASIMD"})

ASSUME ArchitectureAssumption ==
    \A m \in Machines, p \in Implied : p[1] \in m.features => p[2] \in m.features

VARIABLES
    machine,        \* the machine the process runs on
    family,         \* the hash
    dispatched,     \* <function>_dispatched, <function>_dispatcher_info
    caller          \* each thread's call: in the dispatcher, then in what it chose

dispVars == <<machine, family, dispatched, caller>>

Functions == {"init", "submit", "flush"}
Resting   == [pc |-> "idle", fn |-> "init", chosen |-> NoImpl]

-----------------------------------------------------------------------------
(* FLAGS_CPUID7_EBX_AVX512_G1, and the parts of it the code makes use of.  *)
AVX512_G1 == {"AVX512F", "AVX512VL", "AVX512BW", "AVX512CD", "AVX512DQ"}
Zmm(hash) == {"ZMM_OPM", "AVX512F"} \cup IF hash = "md5" THEN {} ELSE {"AVX512BW"}

AvxState == {"OSXSAVE", "XMM_YMM", "AVX"}
Ymm(cpu) == AvxState \subseteq cpu

(* What the instructions of submit and flush ask of an x86 processor:      *)
(* pextrd and pinsrd, sha1rnds4 and sha256rnds2, the integers of ymm       *)
(* (vpminud, vperm2i128), vprold and the byte shuffle of zmm (all but      *)
(* MD5), vsha512rnds2, vsm3rnds2.  The AVX512 manager with SHA extensions  *)
(* submits with the AVX512 one and flushes with either.                    *)
X86Executes(hash, impl) ==
    CASE impl = "sse"           -> {"SSE4_1"}
      [] impl = "sse_ni"        -> {"SSE4_1", "SHA"}
      [] impl = "avx"           -> AvxState
      [] impl = "avx2"          -> AvxState \cup {"AVX2"}
      [] impl = "avx512"        -> AvxState \cup {"AVX2"} \cup Zmm(hash)
      [] impl = "avx512_ni"     -> AvxState \cup {"AVX2", "SHA"} \cup Zmm(hash)
      [] impl = "avx2_sha512ni" -> AvxState \cup {"AVX2", "SHA512NI"}
      [] impl = "avx2_sm3ni"    -> AvxState \cup {"AVX2", "SM3NI"}

(* Those of an aarch64 processor: the SHA512 manager executes sha512h and  *)
(* its like, nothing of SHA3.                                              *)
Aarch64Executes(impl) ==
    CASE impl = "asimd"     -> {"HWCAP_ASIMD"}
      [] impl = "sve"       -> {"HWCAP_ASIMD", "HWCAP_SVE"}
      [] impl = "sve2"      -> {"HWCAP_ASIMD", "HWCAP_SVE", "HWCAP2_SVE2"}
      [] impl = "sha1_ce"   -> {"HWCAP_ASIMD", "HWCAP_SHA1"}
      [] impl = "sha256_ce" -> {"HWCAP_ASIMD", "HWCAP_SHA2"}
      [] impl = "sha512_ce" -> {"HWCAP_ASIMD", "HWCAP_SHA512"}
      [] impl = "sm"        -> {"HWCAP_ASIMD", "HWCAP_SM3"}

(* The base and every init are portable C.                                 *)
Executes(hash, fn, impl) ==
    IF fn = "init" \/ impl = "base" THEN {}
    ELSE IF machine.arch = "x86" THEN X86Executes(hash, impl)
    ELSE Aarch64Executes(impl)

-----------------------------------------------------------------------------
mbin_dispatch_init6(cpu) ==
    IF "SSE4_1" \notin cpu THEN "base"
    ELSE IF ~Ymm(cpu) THEN "sse"
    ELSE IF "AVX2" \notin cpu THEN "avx"
    ELSE IF {"ZMM_OPM"} \cup AVX512_G1 \subseteq cpu THEN "avx512"
    ELSE "avx2"

mbin_dispatch_init6_ni(cpu, ni, impl_ni) ==
    IF "SSE4_1" \in cpu /\ Ymm(cpu) /\ "AVX2" \in cpu /\ ni \in cpu THEN impl_ni
    ELSE mbin_dispatch_init6(cpu)

mbin_dispatch_init6_sha512ni(cpu) == mbin_dispatch_init6_ni(cpu, "SHA512NI", "avx2_sha512ni")

(* There is no SM3 for SSE and AVX: the base stands in.                    *)
mbin_dispatch_init6_sm3ni(cpu) ==
    LET found == mbin_dispatch_init6_ni(cpu, "SM3NI", "avx2_sm3ni")
    IN  IF found \in {"sse", "avx"} THEN "base" ELSE found

ShaniWide_AnyYmm(cpu) == "SHA" \in cpu      \* fault: the state of ZMM is not asked for

(* The zmm state decides; the answer of the test for AVX512_G1 before this *)
(* one is stored over.                                                     *)
ShaniWide(cpu) == {"SHA", "ZMM_OPM"} \subseteq cpu

(* Without AVX512 the SHA extensions are used from the SSE manager, with   *)
(* it from the AVX512 one; AVX without AVX2 does not ask for them.         *)
mbin_dispatch_base_to_avx512_shani(cpu) ==
    IF "SSE4_2" \notin cpu THEN "base"
    ELSE IF Ymm(cpu) /\ "AVX2" \notin cpu THEN "avx"
    ELSE IF Ymm(cpu) /\ ShaniWide(cpu) THEN "avx512_ni"
    ELSE IF "SHA" \in cpu THEN "sse_ni"
    ELSE IF ~Ymm(cpu) THEN "sse"
    ELSE IF {"ZMM_OPM"} \cup AVX512_G1 \subseteq cpu THEN "avx512"
    ELSE "avx2"

X86(hash, cpu) ==
    CASE hash \in {"sha1", "sha256"} -> mbin_dispatch_base_to_avx512_shani(cpu)
      [] hash = "sha512"             -> mbin_dispatch_init6_sha512ni(cpu)
      [] hash = "md5"                -> mbin_dispatch_init6(cpu)
      [] hash = "sm3"                -> mbin_dispatch_init6_sm3ni(cpu)

(* The capabilities are those of the process, the part that of the core    *)
(* the dispatcher happens to run on.                                       *)
sha1_dispatcher(hwcap, part) ==
    IF "HWCAP_SHA1" \in hwcap THEN "sha1_ce"
    ELSE IF "HWCAP_ASIMD" \in hwcap /\ part \in {"NEOVERSE_N1", "CORTEX_A57", "CORTEX_A72"}
         THEN "asimd"
    ELSE "base"

sha256_dispatcher(hwcap) == IF "HWCAP_SHA2" \in hwcap THEN "sha256_ce" ELSE "base"
sha512_dispatcher(hwcap) == IF "HWCAP_SHA3" \in hwcap THEN "sha512_ce" ELSE "base"

md5_dispatcher(hwcap) ==
    IF {"HWCAP_SVE", "HWCAP2_SVE2"} \subseteq hwcap THEN "sve2"
    ELSE IF "HWCAP_SVE" \in hwcap THEN "sve"
    ELSE IF "HWCAP_ASIMD" \in hwcap THEN "asimd"
    ELSE "base"

(* SVE alone is used from eight lanes on.                                  *)
sm3_dispatcher(hwcap) ==
    IF "HWCAP_SM3" \in hwcap THEN "sm"
    ELSE IF {"HWCAP_SVE", "HWCAP2_SVE2"} \subseteq hwcap THEN "sve2"
    ELSE IF {"HWCAP_SVE", "8_LANES"} \subseteq hwcap THEN "sve"
    ELSE IF "HWCAP_ASIMD" \in hwcap THEN "asimd"
    ELSE "base"

Aarch64(hash, hwcap, part) ==
    CASE hash = "sha1"   -> sha1_dispatcher(hwcap, part)
      [] hash = "sha256" -> sha256_dispatcher(hwcap)
      [] hash = "sha512" -> sha512_dispatcher(hwcap)
      [] hash = "md5"    -> md5_dispatcher(hwcap)
      [] hash = "sm3"    -> sm3_dispatcher(hwcap)

(* The three functions of a manager ask by the same macro on x86, and by   *)
(* the same text, written three times, on aarch64.                         *)
Dispatcher(part) ==
    IF machine.arch = "x86" THEN X86(family, machine.features)
    ELSE Aarch64(family, machine.features, part)

-----------------------------------------------------------------------------
DispInit ==
    /\ machine \in Machines
    /\ family \in Families
    /\ dispatched = [fn \in Functions |-> "mbinit"]
    /\ caller = [t \in DispThreads |-> Resting]

(* jmp [dispatched]: the pointer is read once more after it was stored.    *)
JumpTo(t, fn, impl) ==
    /\ caller' = [caller EXCEPT ![t] = [pc |-> "run", fn |-> fn, chosen |-> impl]]
    /\ UNCHANGED <<machine, family, dispatched>>

CallKnown(t, fn) ==
    /\ caller[t].pc = "idle"
    /\ dispatched[fn] # "mbinit"
    /\ JumpTo(t, fn, dispatched[fn])

FirstCall(t, fn) ==
    /\ caller[t].pc = "idle"
    /\ dispatched[fn] = "mbinit"
    /\ caller' = [caller EXCEPT ![t] = [pc |-> "choose", fn |-> fn, chosen |-> NoImpl]]
    /\ UNCHANGED <<machine, family, dispatched>>

(* A thread may be on any core when it asks.                               *)
Choose(t) ==
    /\ caller[t].pc = "choose"
    /\ \E part \in machine.parts :
          caller' = [caller EXCEPT ![t] = [pc |-> "store", fn |-> caller[t].fn,
                                           chosen |-> Dispatcher(part)]]
    /\ UNCHANGED <<machine, family, dispatched>>

Store(t) ==
    /\ caller[t].pc = "store"
    /\ dispatched' = [dispatched EXCEPT ![caller[t].fn] = caller[t].chosen]
    /\ caller' = [caller EXCEPT ![t] = [pc |-> "jump", fn |-> caller[t].fn, chosen |-> NoImpl]]
    /\ UNCHANGED <<machine, family>>

Jump(t) ==
    /\ caller[t].pc = "jump"
    /\ JumpTo(t, caller[t].fn, dispatched[caller[t].fn])

Return(t) ==
    /\ caller[t].pc = "run"
    /\ caller' = [caller EXCEPT ![t] = Resting]
    /\ UNCHANGED <<machine, family, dispatched>>

DispNext ==
    \E t \in DispThreads :
        \/ Choose(t) \/ Store(t) \/ Jump(t) \/ Return(t)
        \/ \E fn \in Functions : CallKnown(t, fn) \/ FirstCall(t, fn)

DispSpec == DispInit /\ [][DispNext]_dispVars

-----------------------------------------------------------------------------
DispTypeOK ==
    /\ machine \in Machines /\ family \in Families
    /\ DOMAIN dispatched = Functions
    /\ \A t \in DispThreads : caller[t].pc \in {"idle", "choose", "store", "jump", "run"}

(* What an implementation executes and the machine lacks.                  *)
Lacks(fn, impl) == Executes(family, fn, impl) \ machine.features

(* multibinary.asm takes the AVX512 manager with SHA extensions wherever   *)
(* there is zmm state, "AVX512 being supported too": there its code may    *)
(* find parts of AVX512_G1 missing.                                        *)
Unconfirmed(impl) == IF impl = "avx512_ni" THEN AVX512_G1 ELSE {}

(* Whatever threads race through the dispatchers and on whichever cores,   *)
(* an implementation is only entered on a processor that has all it        *)
(* executes; only AVX512_G1 is taken for granted, and only by the AVX512   *)
(* manager with SHA extensions.                                            *)
RunsHere ==
    \A t \in DispThreads :
        caller[t].pc = "run" =>
            Lacks(caller[t].fn, caller[t].chosen) \subseteq Unconfirmed(caller[t].chosen)
=============================================================================
