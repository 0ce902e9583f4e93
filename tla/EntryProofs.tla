---------------------------- MODULE EntryProofs -----------------------------
(***************************************************************************)
(* The entry points of the library: what a call enters (Dispatch) and what *)
(* a checked function does before its work (CheckedApi).  The two share no *)
(* state and no lemma.                                                     *)
(***************************************************************************)
EXTENDS Dispatch, CheckedApi, TLAPS

(***************************************************************************)
(* RunsHere for any number of threads and any machines.  It follows from   *)
(* one fact: everything stored in a pointer, chosen by a thread or entered *)
(* is a choice of the dispatcher on some core of this machine (DispInv),   *)
(* whichever thread made it.                                               *)
(***************************************************************************)
Choices == {Dispatcher(part) : part \in machine.parts}

DispShape ==
    /\ machine \in Machines
    /\ family \in Families
    /\ DOMAIN dispatched = Functions
    /\ DOMAIN caller = DispThreads
    /\ \A t \in DispThreads : caller[t].fn \in Functions

DispPointers == \A fn \in Functions : dispatched[fn] \in Choices \cup {"mbinit"}

DispChosen ==
    \A t \in DispThreads :
        /\ caller[t].pc \in {"store", "run"} => caller[t].chosen \in Choices
        /\ caller[t].pc = "jump" => dispatched[caller[t].fn] # "mbinit"

DispInv == DispShape /\ DispPointers /\ DispChosen

-----------------------------------------------------------------------------
(* What the architectures promise of the features a processor has.         *)
Promised(cpu) == \A p \in Implied : p[1] \in cpu => p[2] \in cpu

LEMMA PromiseIs ==
    ASSUME NEW cpu, Promised(cpu)
    PROVE  /\ "SSE4_2" \in cpu => "SSE4_1" \in cpu
           /\ "HWCAP_SHA3" \in cpu => "HWCAP_SHA512" \in cpu
           /\ "HWCAP_SHA1" \in cpu => "HWCAP_ASIMD" \in cpu
           /\ "HWCAP_SHA2" \in cpu => "HWCAP_ASIMD" \in cpu
           /\ "HWCAP_SHA512" \in cpu => "HWCAP_ASIMD" \in cpu
           /\ "HWCAP_SM3" \in cpu => "HWCAP_ASIMD" \in cpu
           /\ "HWCAP_SVE" \in cpu => "HWCAP_ASIMD" \in cpu
<1>1. ASSUME NEW x, NEW y, <<x, y>> \in Implied
      PROVE  x \in cpu => y \in cpu
  <2>1. <<x, y>>[1] \in cpu => <<x, y>>[2] \in cpu
    BY ONLY <1>1, Promised(cpu) DEF Promised
  <2> QED BY <2>1
<1>2. /\ <<"SSE4_2", "SSE4_1">> \in Implied
      /\ <<"HWCAP_SHA3", "HWCAP_SHA512">> \in Implied
      /\ <<"HWCAP_SHA1", "HWCAP_ASIMD">> \in Implied
      /\ <<"HWCAP_SHA2", "HWCAP_ASIMD">> \in Implied
      /\ <<"HWCAP_SHA512", "HWCAP_ASIMD">> \in Implied
      /\ <<"HWCAP_SM3", "HWCAP_ASIMD">> \in Implied
      /\ <<"HWCAP_SVE", "HWCAP_ASIMD">> \in Implied
  BY DEF Implied
<1> QED BY ONLY <1>1, <1>2

(* The dispatchers of x86 answer an implementation, never mbinit, and one  *)
(* whose instructions this processor has, up to what is unconfirmed.       *)
Fits(hash, cpu, impl) ==
    /\ impl # "mbinit"
    /\ impl # "base" => X86Executes(hash, impl) \ cpu \subseteq Unconfirmed(impl)

LEMMA X86Runs ==
    ASSUME NEW hash \in {"sha1", "sha256", "sha512", "md5", "sm3"}, NEW cpu,
           "SSE4_2" \in cpu => "SSE4_1" \in cpu
    PROVE  Fits(hash, cpu, X86(hash, cpu))
<1> USE DEF Fits, Ymm, AvxState, Zmm, AVX512_G1, X86Executes, Unconfirmed
<1>1. Fits(hash, cpu, mbin_dispatch_init6(cpu))
  BY DEF mbin_dispatch_init6
<1>2. CASE hash \in {"sha1", "sha256"}
  BY <1>2 DEF X86, mbin_dispatch_base_to_avx512_shani, ShaniWide
<1>3. CASE hash = "sha512"
  BY <1>1, <1>3 DEF X86, mbin_dispatch_init6_sha512ni, mbin_dispatch_init6_ni
<1>4. CASE hash = "md5"
  BY <1>1, <1>4 DEF X86
<1>5. CASE hash = "sm3"
  BY <1>1, <1>5 DEF X86, mbin_dispatch_init6_sm3ni, mbin_dispatch_init6_ni
<1> QED BY <1>2, <1>3, <1>4, <1>5

(* Those of aarch64 answer one whose instructions every core has.          *)
LEMMA Aarch64Runs ==
    ASSUME NEW hash \in {"sha1", "sha256", "sha512", "md5", "sm3"}, NEW cpu, NEW part,
           Promised(cpu),
           Aarch64(hash, cpu, part) # "base"
    PROVE  Aarch64Executes(Aarch64(hash, cpu, part)) \subseteq cpu
<1>1. /\ "HWCAP_SHA3" \in cpu => "HWCAP_SHA512" \in cpu
      /\ "HWCAP_SHA1" \in cpu => "HWCAP_ASIMD" \in cpu
      /\ "HWCAP_SHA2" \in cpu => "HWCAP_ASIMD" \in cpu
      /\ "HWCAP_SHA512" \in cpu => "HWCAP_ASIMD" \in cpu
      /\ "HWCAP_SM3" \in cpu => "HWCAP_ASIMD" \in cpu
      /\ "HWCAP_SVE" \in cpu => "HWCAP_ASIMD" \in cpu
  BY PromiseIs
<1>2. CASE hash = "sha1"
  BY <1>1, <1>2 DEF Aarch64, sha1_dispatcher, Aarch64Executes
<1>3. CASE hash = "sha256"
  BY <1>1, <1>3 DEF Aarch64, sha256_dispatcher, Aarch64Executes
<1>4. CASE hash = "sha512"
  BY <1>1, <1>4 DEF Aarch64, sha512_dispatcher, Aarch64Executes
<1>5. CASE hash = "md5"
  BY <1>1, <1>5 DEF Aarch64, md5_dispatcher, Aarch64Executes
<1>6. CASE hash = "sm3"
  BY <1>1, <1>6 DEF Aarch64, sm3_dispatcher, Aarch64Executes
<1> QED BY <1>2, <1>3, <1>4, <1>5, <1>6

LEMMA ChoiceRuns ==
    ASSUME DispShape, NEW impl \in Choices, NEW fn
    PROVE  impl # "mbinit" /\ Lacks(fn, impl) \subseteq Unconfirmed(impl)
<1> DEFINE cpu == machine.features
<1>1. PICK part \in machine.parts : impl = Dispatcher(part)
  BY DEF Choices
<1>2. /\ family \in {"sha1", "sha256", "sha512", "md5", "sm3"}
      /\ Promised(cpu)
  BY DispAssumption, ArchitectureAssumption DEF DispShape, Promised
<1>3. CASE machine.arch = "x86"
  <2>1. "SSE4_2" \in cpu => "SSE4_1" \in cpu
    BY <1>2, PromiseIs
  <2>2. Fits(family, cpu, impl)
    BY <1>1, <1>2, <1>3, <2>1, X86Runs DEF Dispatcher
  <2> QED BY <1>3, <2>2 DEF Fits, Lacks, Executes
<1>4. CASE machine.arch # "x86"
  <2>1. impl = Aarch64(family, cpu, part)
    BY <1>1, <1>4 DEF Dispatcher
  <2>2. impl # "mbinit"
    BY <2>1, <1>2 DEF Aarch64, sha1_dispatcher, sha256_dispatcher, sha512_dispatcher,
                      md5_dispatcher, sm3_dispatcher
  <2>3. impl # "base" => Aarch64Executes(impl) \subseteq cpu
    BY <1>2, <2>1, Aarch64Runs
  <2> QED BY <1>4, <2>2, <2>3 DEF Lacks, Executes
<1> QED BY <1>3, <1>4

LEMMA SameChoices ==
    ASSUME UNCHANGED <<machine, family>>
    PROVE  Choices' = Choices
  BY DEF Choices, Dispatcher

-----------------------------------------------------------------------------
LEMMA DispInitInv == DispInit => DispInv
  BY DEF DispInit, DispInv, DispShape, DispPointers, DispChosen, Resting, Functions

(* A call that enters an implementation that was chosen.                   *)
LEMMA JumpStep ==
    ASSUME DispInv, NEW t \in DispThreads, NEW fn \in Functions,
           dispatched[fn] # "mbinit", JumpTo(t, fn, dispatched[fn])
    PROVE  DispInv'
<1>1. dispatched[fn] \in Choices
  BY DEF DispInv, DispPointers
<1>2. Choices' = Choices
  BY SameChoices DEF JumpTo
<1>3. DispShape'
  BY DEF DispInv, DispShape, JumpTo
<1>4. DispPointers'
  BY <1>2 DEF DispInv, DispPointers, JumpTo
<1>5. DispChosen'
  BY <1>1, <1>2 DEF DispInv, DispShape, DispChosen, JumpTo
<1> QED BY <1>3, <1>4, <1>5 DEF DispInv

LEMMA DispNextInv == DispInv /\ [DispNext]_dispVars => DispInv'
<1> SUFFICES ASSUME DispInv, [DispNext]_dispVars PROVE DispInv'
  OBVIOUS
<1>1. ASSUME NEW t \in DispThreads, Choose(t) PROVE DispInv'
  <2>1. Choices' = Choices
    BY <1>1, SameChoices DEF Choose
  <2>2. PICK part \in machine.parts :
            caller' = [caller EXCEPT ![t] = [pc |-> "store", fn |-> caller[t].fn,
                                             chosen |-> Dispatcher(part)]]
    BY <1>1 DEF Choose
  <2>3. Dispatcher(part) \in Choices
    BY DEF Choices
  <2>4. DispShape' /\ DispPointers'
    BY <1>1, <2>1, <2>2 DEF DispInv, DispShape, DispPointers, Choose
  <2>5. DispChosen'
    BY <1>1, <2>1, <2>2, <2>3 DEF DispInv, DispShape, DispChosen, Choose
  <2> QED BY <2>4, <2>5 DEF DispInv
<1>2. ASSUME NEW t \in DispThreads, Store(t) PROVE DispInv'
  <2>1. Choices' = Choices
    BY <1>2, SameChoices DEF Store
  <2>2. caller[t].chosen \in Choices /\ caller[t].chosen # "mbinit"
    BY <1>2, ChoiceRuns DEF DispInv, DispChosen, Store
  <2>3. DispShape' /\ DispPointers'
    BY <1>2, <2>1, <2>2 DEF DispInv, DispShape, DispPointers, Store
  <2>4. DispChosen'
    BY <1>2, <2>1, <2>2 DEF DispInv, DispShape, DispChosen, Store
  <2> QED BY <2>3, <2>4 DEF DispInv
<1>3. ASSUME NEW t \in DispThreads, Jump(t) PROVE DispInv'
  BY <1>3, JumpStep DEF Jump, DispInv, DispShape, DispChosen
<1>4. ASSUME NEW t \in DispThreads, NEW fn \in Functions, CallKnown(t, fn) PROVE DispInv'
  BY <1>4, JumpStep DEF CallKnown
<1>5. ASSUME NEW t \in DispThreads, NEW fn \in Functions, FirstCall(t, fn) PROVE DispInv'
  <2>1. Choices' = Choices
    BY <1>5, SameChoices DEF FirstCall
  <2> QED BY <1>5, <2>1 DEF FirstCall, DispInv, DispShape, DispPointers, DispChosen
<1>6. ASSUME NEW t \in DispThreads, Return(t) PROVE DispInv'
  <2>1. Choices' = Choices
    BY <1>6, SameChoices DEF Return
  <2> QED BY <1>6, <2>1 DEF Return, Resting, Functions, DispInv, DispShape, DispPointers,
                            DispChosen
<1>7. CASE UNCHANGED dispVars
  <2>1. Choices' = Choices
    BY <1>7, SameChoices DEF dispVars
  <2> QED BY <1>7, <2>1 DEF dispVars, DispInv, DispShape, DispPointers, DispChosen
<1> QED BY <1>1, <1>2, <1>3, <1>4, <1>5, <1>6, <1>7 DEF DispNext

LEMMA DispInvariance == DispSpec => []DispInv
  BY DispInitInv, DispNextInv, PTL DEF DispSpec

-----------------------------------------------------------------------------
(* However many threads race through the dispatchers, whatever the         *)
(* processor has and whichever core a thread is on, no call enters an      *)
(* implementation (the pointer of multibinary.asm) that executes an        *)
(* instruction the processor lacks; only the AVX512 manager with SHA       *)
(* extensions may find parts of AVX512_G1 missing.                         *)
THEOREM RunsHereHolds == DispSpec => []RunsHere
<1>1. DispInv => RunsHere
  BY ChoiceRuns DEF DispInv, DispChosen, RunsHere
<1> QED BY <1>1, DispInvariance, PTL

-----------------------------------------------------------------------------
(***************************************************************************)
(* ApiWorkIsCovered for any number of threads and whatever they call.  It  *)
(* is not inductive: that a function works only after the tests passed     *)
(* needs that the gate's answers are true and its verdict is final         *)
(* (TrueAnswers), that a call is where its function's tests put it         *)
(* (Entered), and that the objects the checked functions made were made    *)
(* after the tests passed (Made).                                          *)
(***************************************************************************)
ApiShape ==
    /\ DOMAIN apiCall = ApiThreads
    /\ DOMAIN apiHas = ApiThreads
    /\ DOMAIN apiWorked = ApiThreads
    /\ DOMAIN gateAnswer = ApiThreads
    /\ \A t \in ApiThreads : apiHas[t].by \in {"isal", "deprecated"}

TrueAnswers ==
    /\ gateRunner # NoThread => gateVerdict = "unknown"
    /\ \A t \in ApiThreads : gateAnswer[t] = "ok" => gateVerdict = "ok"

(* What holds of thread t's call.                                          *)
EnteredBy(t) ==
    apiCall[t].pc # "out" =>
        /\ apiCall[t].f \in ApiFunctions
        /\ apiFips => apiCall[t].f.approved
        /\ apiCall[t].f.takes \in {"any", apiHas[t].kind}
        /\ apiFips /\ apiCall[t].pc = "in" /\ apiCall[t].f.tests => gateVerdict = "ok"

Entered == \A t \in ApiThreads : EnteredBy(t)

MadeBy(t) ==
    apiFips /\ apiHas[t].kind # "nothing" /\ apiHas[t].by = "isal" => gateVerdict = "ok"

Made == \A t \in ApiThreads : MadeBy(t)

ApiInv == ApiShape /\ TrueAnswers /\ Entered /\ Made /\ ApiWorkIsCovered

-----------------------------------------------------------------------------
(* Of the approved functions only isal_aes_gcm_dec_256_update does not     *)
(* call isal_self_tests(), and it needs a context and makes nothing.       *)
LEMMA OnlyOneUntested ==
    ASSUME NEW f \in ApiFunctions, f.approved, ~f.tests
    PROVE  f.fn = "aes_gcm_dec_256_update" /\ f.takes = "gcm_ctx" /\ f.gives = "same"
<1> USE DEF Function, Approved, NotApproved
<1>1. CASE f \in aes_gcm_update
      BY <1>1 DEF aes_gcm_update
<1>2. CASE f \in isal_self_tests \cup aes_gcm_pre \cup aes_gcm_whole \cup aes_gcm_init
                    \cup aes_gcm_finalize \cup aes_gcm_whole_nt \cup aes_gcm_update_nt
      BY <1>2 DEF isal_self_tests, aes_gcm_pre, aes_gcm_whole, aes_gcm_init,
                  aes_gcm_finalize, aes_gcm_whole_nt, aes_gcm_update_nt
<1>3. CASE f \in aes_keyexp \cup aes_cbc_enc \cup aes_cbc_dec \cup aes_xts_128 \cup aes_xts_256
      BY <1>3 DEF aes_keyexp, aes_cbc_enc, aes_cbc_dec, aes_xts_128, aes_xts_256, Xts
<1>4. CASE f \in sha1_ctx_mgr \cup sha256_ctx_mgr \cup sha512_ctx_mgr
                    \cup md5_ctx_mgr \cup sm3_ctx_mgr
      BY <1>4 DEF sha1_ctx_mgr, sha256_ctx_mgr, sha512_ctx_mgr, md5_ctx_mgr, sm3_ctx_mgr
<1>5. CASE f \in mh_sha1 \cup mh_sha256 \cup mh_sha1_murmur3_x64_128 \cup rolling_hash2
      BY <1>5 DEF mh_sha1, mh_sha256, mh_sha1_murmur3_x64_128, rolling_hash2
<1> QED BY <1>1, <1>2, <1>3, <1>4, <1>5 DEF ApiFunctions

-----------------------------------------------------------------------------
(* The gate keeps its answers true, and a verdict of success is final.     *)
LEMMA GateKeeps ==
    ASSUME ApiShape, TrueAnswers, NEW t \in ApiThreads,
           \/ Gate!Call(t) \/ Gate!Begin(t) \/ Gate!Answer(t)
           \/ \E v \in {"ok", "fail"} : Gate!Conclude(t, v)
           \/ UNCHANGED gate
    PROVE  /\ DOMAIN gateAnswer' = ApiThreads
           /\ TrueAnswers'
           /\ gateVerdict = "ok" => gateVerdict' = "ok"
<1> USE ApiAssumption DEF ApiShape, TrueAnswers
<1>1. CASE Gate!Call(t)
  BY <1>1 DEF Gate!Call
<1>2. CASE Gate!Begin(t)
  BY <1>2 DEF Gate!Begin
<1>3. CASE Gate!Answer(t)
  BY <1>3 DEF Gate!Answer
<1>4. ASSUME NEW v \in {"ok", "fail"}, Gate!Conclude(t, v)
      PROVE  /\ DOMAIN gateAnswer' = ApiThreads
             /\ TrueAnswers'
             /\ gateVerdict = "ok" => gateVerdict' = "ok"
  BY <1>4 DEF Gate!Conclude
<1>5. CASE UNCHANGED gate
  BY <1>5 DEF gate
<1> QED BY <1>1, <1>2, <1>3, <1>4, <1>5

LEMMA ApiInitInv == ApiInit => ApiInv
  BY ApiAssumption DEF ApiInit, Gate!Init, ApiInv, ApiShape, TrueAnswers, Entered, EnteredBy, Made,
     MadeBy, ApiWorkIsCovered, Outside, Nothing

(* A step that keeps the objects and enters no function keeps the rest, if *)
(* success stays final.                                                    *)
LEMMA QuietStep ==
    ASSUME ApiInv, NEW t \in ApiThreads, UNCHANGED <<apiFips, apiHas>>,
           gateVerdict = "ok" => gateVerdict' = "ok",
           \A u \in ApiThreads : apiWorked'[u] \in {apiWorked[u], NoWork}
    PROVE  Made' /\ ApiWorkIsCovered'
  BY DEF ApiInv, Made, MadeBy, ApiWorkIsCovered

(* A call that begins or is refused.                                       *)
LEMMA EnterStep ==
    ASSUME ApiInv, NEW t \in ApiThreads, NEW f \in ApiFunctions,
           ApiRefuse(t, f) \/ ApiEnter(t, f)
    PROVE  ApiInv'
<1>1. /\ Calls(t, f)
      /\ Gate!Call(t) \/ UNCHANGED gate
  BY DEF ApiRefuse, ApiEnter
<1>2. /\ DOMAIN gateAnswer' = ApiThreads
      /\ TrueAnswers'
      /\ gateVerdict = "ok" => gateVerdict' = "ok"
  BY <1>1, GateKeeps DEF ApiInv
<1>3. \A u \in ApiThreads : apiWorked'[u] \in {apiWorked[u], NoWork}
  BY <1>1 DEF Calls, ApiInv, ApiShape
<1>4. Made' /\ ApiWorkIsCovered'
  BY <1>1, <1>2, <1>3, QuietStep DEF Calls
<1>5. ApiShape'
  BY <1>1, <1>2 DEF Calls, ApiInv, ApiShape, ApiRefuse, ApiEnter
<1>6. Entered'
  <2>1. CASE ApiRefuse(t, f)
    BY <1>1, <1>2, <2>1 DEF ApiInv, ApiShape, Entered, EnteredBy, Calls, ApiRefuse, Outside
  <2>2. CASE ApiEnter(t, f)
    <3>1. /\ f.takes \in {"any", apiHas[t].kind}
          /\ apiFips => f.approved
      BY <1>1, <2>2 DEF Calls, ApiEnter, Available
    <3>2. \/ apiCall' = [apiCall EXCEPT ![t] = [pc |-> "test", f |-> f, ret |-> "0"]]
          \/ /\ apiCall' = [apiCall EXCEPT ![t] = [pc |-> "in", f |-> f, ret |-> "0"]]
             /\ ~(apiFips /\ f.tests)
      BY <2>2 DEF ApiEnter, Inside
    <3> QED BY <1>1, <1>2, <3>1, <3>2 DEF ApiInv, ApiShape, Entered, EnteredBy, Calls
  <2> QED BY <2>1, <2>2
<1> QED BY <1>2, <1>4, <1>5, <1>6 DEF ApiInv

(* A call inside the self tests, and its way out of them.                  *)
LEMMA TestStep ==
    ASSUME ApiInv, NEW t \in ApiThreads, ApiSelfTests(t) \/ ApiTested(t)
    PROVE  ApiInv'
<1>1. /\ UNCHANGED <<apiFips, apiHas, apiWorked>>
      /\ \/ Gate!Begin(t) \/ Gate!Answer(t)
         \/ \E v \in {"ok", "fail"} : Gate!Conclude(t, v)
         \/ UNCHANGED gate
  BY DEF ApiSelfTests, ApiTested
<1>2. /\ DOMAIN gateAnswer' = ApiThreads
      /\ TrueAnswers'
      /\ gateVerdict = "ok" => gateVerdict' = "ok"
  BY <1>1, GateKeeps DEF ApiInv
<1>3. Made' /\ ApiWorkIsCovered'
  BY <1>1, <1>2, QuietStep
<1>4. ApiShape'
  BY <1>1, <1>2 DEF ApiInv, ApiShape, ApiSelfTests, ApiTested
<1>5. Entered'
  <2>1. CASE ApiSelfTests(t)
    BY <1>1, <1>2, <2>1 DEF ApiInv, Entered, EnteredBy, ApiSelfTests
  <2>2. CASE ApiTested(t)
    <3>1. gateVerdict' = gateVerdict
      BY <2>2 DEF ApiTested, gate
    <3>2. CASE gateAnswer[t] = "ok"
      <4>1. gateVerdict = "ok"
        BY <3>2 DEF ApiInv, TrueAnswers
      <4>2. apiCall' = [apiCall EXCEPT ![t] = [pc |-> "in", f |-> apiCall[t].f, ret |-> "0"]]
        BY <2>2, <3>2 DEF ApiTested, Inside, ApiInv, ApiShape
      <4> QED BY <1>1, <2>2, <3>1, <4>1, <4>2 DEF ApiInv, ApiShape, Entered, EnteredBy, ApiTested
    <3>3. CASE gateAnswer[t] # "ok"
      <4>1. apiCall' = [apiCall EXCEPT ![t] = [pc |-> "out", f |-> NoFunction,
                                               ret |-> "SELF_TEST"]]
        BY <2>2, <3>3 DEF ApiTested, Outside, ApiInv, ApiShape
      <4> QED BY <1>1, <3>1, <4>1 DEF ApiInv, ApiShape, Entered, EnteredBy
    <3> QED BY <3>2, <3>3
  <2> QED BY <2>1, <2>2
<1> QED BY <1>2, <1>3, <1>4, <1>5 DEF ApiInv

(* The work: either the tests have passed, or it is the untested update of *)
(* a context the deprecated functions made.                                *)
LEMMA WorkStep ==
    ASSUME ApiInv, NEW t \in ApiThreads, ApiWork(t)
    PROVE  ApiInv'
<1> DEFINE f == apiCall[t].f
           by == IF f.takes = "any" THEN "isal" ELSE apiHas[t].by
<1>1. /\ UNCHANGED <<apiFips, gateRunner, gateVerdict, gateAnswer>>
      /\ apiWorked' = [apiWorked EXCEPT ![t] = [f |-> f, by |-> by, after |-> gateVerdict]]
      /\ apiHas' = [apiHas EXCEPT ![t] = IF f.gives = "same" THEN apiHas[t]
                                         ELSE [kind |-> f.gives, by |-> by]]
      /\ apiCall' = [apiCall EXCEPT ![t] = [pc |-> "out", f |-> NoFunction, ret |-> "0"]]
  BY DEF ApiWork, Outside, gate, ApiInv, ApiShape
<1>2. /\ f \in ApiFunctions
      /\ apiFips => f.approved
      /\ f.takes \in {"any", apiHas[t].kind}
      /\ apiFips /\ f.tests => gateVerdict = "ok"
  BY DEF ApiInv, Entered, EnteredBy, ApiWork
<1>3. ASSUME apiFips, ~f.tests
      PROVE  f.fn = "aes_gcm_dec_256_update" /\ f.takes = "gcm_ctx" /\ f.gives = "same"
  BY <1>2, <1>3, OnlyOneUntested
<1>4. by \in {"isal", "deprecated"}
  BY DEF ApiInv, ApiShape
<1>5. ApiShape' /\ TrueAnswers'
  BY <1>1, <1>4 DEF ApiInv, ApiShape, TrueAnswers
<1>6. Entered'
  <2> SUFFICES ASSUME NEW u \in ApiThreads PROVE EnteredBy(u)'
    BY DEF Entered
  <2>1. CASE u = t
    BY <1>1, <2>1 DEF ApiInv, ApiShape, EnteredBy
  <2>2. CASE u # t
    BY <1>1, <2>2 DEF ApiInv, ApiShape, Entered, EnteredBy
  <2> QED BY <2>1, <2>2
<1>7. Made'
  <2> SUFFICES ASSUME NEW u \in ApiThreads PROVE MadeBy(u)'
    BY DEF Made
  <2>1. CASE u # t \/ f.gives = "same"
    BY <1>1, <2>1 DEF ApiInv, ApiShape, Made, MadeBy
  <2>2. CASE u = t /\ f.gives # "same"
    BY <1>1, <1>2, <1>3, <2>2 DEF MadeBy
  <2> QED BY <2>1, <2>2
<1>8. ApiWorkIsCovered'
  <2> SUFFICES ASSUME apiFips, NEW u \in ApiThreads, apiWorked'[u] # NoWork
               PROVE  /\ apiWorked'[u].f.approved
                      /\ \/ apiWorked'[u].after = "ok"
                         \/ /\ apiWorked'[u].f.fn = "aes_gcm_dec_256_update"
                            /\ apiWorked'[u].by = "deprecated"
    BY <1>1 DEF ApiWorkIsCovered
  <2>1. CASE u # t
    BY <1>1, <2>1 DEF ApiInv, ApiShape, ApiWorkIsCovered
  <2>2. CASE u = t
    <3>1. apiWorked'[u] = [f |-> f, by |-> by, after |-> gateVerdict]
      BY <1>1, <2>2 DEF ApiInv, ApiShape
    <3>2. CASE f.tests
      BY <1>2, <3>1, <3>2
    <3>3. CASE ~f.tests
      <4>1. f.fn = "aes_gcm_dec_256_update" /\ f.takes = "gcm_ctx"
        BY <1>3, <3>3
      <4>2. apiHas[t].kind = "gcm_ctx" /\ by = apiHas[t].by
        BY <1>2, <4>1
      <4>3. by = "isal" => gateVerdict = "ok"
        BY <4>2 DEF ApiInv, Made, MadeBy
      <4> QED BY <1>2, <1>4, <3>1, <4>1, <4>3
    <3> QED BY <3>2, <3>3
  <2> QED BY <2>1, <2>2
<1> QED BY <1>5, <1>6, <1>7, <1>8 DEF ApiInv

(* An object the deprecated functions make.                                *)
LEMMA DeprecatedStep ==
    ASSUME ApiInv, NEW t \in ApiThreads, NEW kind, ApiDeprecated(t, kind)
    PROVE  ApiInv'
<1> USE DEF ApiInv, ApiDeprecated, gate
<1>1. ApiShape' /\ TrueAnswers' /\ ApiWorkIsCovered'
  BY DEF ApiShape, TrueAnswers, ApiWorkIsCovered
<1>2. Entered'
  BY DEF ApiShape, Entered, EnteredBy
<1>3. Made'
  BY DEF ApiShape, Made, MadeBy
<1> QED BY <1>1, <1>2, <1>3

LEMMA ApiNextInv == ApiInv /\ [ApiNext]_apiVars => ApiInv'
<1> SUFFICES ASSUME ApiInv, [ApiNext]_apiVars PROVE ApiInv'
  OBVIOUS
<1>1. CASE UNCHANGED apiVars
  BY <1>1 DEF apiVars, gate, ApiInv, ApiShape, TrueAnswers, Entered, EnteredBy, Made, MadeBy,
              ApiWorkIsCovered
<1>2. CASE ApiNext
  BY <1>2, EnterStep, TestStep, WorkStep, DeprecatedStep DEF ApiNext
<1> QED BY <1>1, <1>2

(* However many threads call whatever functions, and whichever of them     *)
(* runs the self tests: in FIPS mode the isal_ functions work only with    *)
(* approved algorithms, and only after the tests have passed; the one      *)
(* exception is isal_aes_gcm_dec_256_update on a context the deprecated    *)
(* functions made.                                                         *)
THEOREM ApiWorkIsCoveredHolds == ApiSpec => []ApiWorkIsCovered
<1>1. ApiInv => ApiWorkIsCovered
  BY DEF ApiInv
<1> QED BY <1>1, ApiInitInv, ApiNextInv, PTL DEF ApiSpec
=============================================================================
