----------------------- MODULE SelfTestsGenericProofs -----------------------
(***************************************************************************)
(* The portable self-test gate, proved for any set of threads.             *)
(***************************************************************************)
EXTENDS SelfTestsGeneric, TLAPS

Suites  == {"aes", "sha"}
Passing == passes["aes"] /\ passes["sha"]

Places == {"out", "load_ok", "load_fail", "compare_exchange", "aes", "sha",
           "wait", "load_verdict"}

Typing ==
    /\ self_tests_status \in {DONE_AND_OK, DONE_AND_FAIL, NOT_DONE, RUNNING}
    /\ passes \in [Suites -> BOOLEAN]
    /\ pc \in [Threads -> Places]
    /\ answer \in [Threads -> {"none", "pending", "ok", "fail"}]

(* The status, once final, tells the truth.                                *)
HonestStatus ==
    /\ self_tests_status = DONE_AND_OK => Passing
    /\ self_tests_status = DONE_AND_FAIL => ~Passing

(* What a thread's place says: the SHA suite runs after an AES suite that  *)
(* passed, a thread waits only after some exchange, and reads the verdict  *)
(* only once there is one.                                                 *)
Placed ==
    \A t \in Threads :
        /\ pc[t] = "sha" => passes["aes"]
        /\ pc[t] = "wait" => self_tests_status # NOT_DONE
        /\ pc[t] = "load_verdict" => self_tests_status \in {DONE_AND_OK, DONE_AND_FAIL}
        /\ answer[t] = "pending" <=> pc[t] # "out"

IInv == Typing /\ OneRunner /\ HonestStatus /\ Placed /\ HonestAnswer

-----------------------------------------------------------------------------
(* The status word starts as NOT_DONE and no thread is inside a call.      *)
LEMMA InitIInv == Init => IInv
  BY DEF Init, IInv, Typing, OneRunner, HonestStatus, Placed, HonestAnswer, Running,
         Passing, Suites, Places, DONE_AND_OK, DONE_AND_FAIL, NOT_DONE, RUNNING

USE DEF Return, Goto, Store, Running, Passing, Suites, Places,
        DONE_AND_OK, DONE_AND_FAIL, NOT_DONE, RUNNING

(* Each step, by any thread, keeps the invariant.                          *)
LEMMA StepIInv ==
  ASSUME IInv, [Next]_vars
  PROVE  IInv'
<1> USE DEF IInv, Typing, OneRunner, HonestStatus, Placed, HonestAnswer
<1>1. ASSUME NEW t \in Threads, Call(t)
      PROVE  IInv'
  BY <1>1 DEF Call
<1>2. ASSUME NEW t \in Threads, LoadOk(t)
      PROVE  IInv'
  BY <1>2 DEF LoadOk
<1>3. ASSUME NEW t \in Threads, LoadFail(t)
      PROVE  IInv'
  BY <1>3 DEF LoadFail
<1>4. ASSUME NEW t \in Threads, CompareExchange(t)
      PROVE  IInv'
  BY <1>4 DEF CompareExchange
<1>5. ASSUME NEW t \in Threads, AesTests(t)
      PROVE  IInv'
  BY <1>5 DEF AesTests
<1>6. ASSUME NEW t \in Threads, ShaTests(t)
      PROVE  IInv'
  BY <1>6 DEF ShaTests
<1>7. ASSUME NEW t \in Threads, Wait(t)
      PROVE  IInv'
  BY <1>7 DEF Wait
<1>8. ASSUME NEW t \in Threads, LoadVerdict(t)
      PROVE  IInv'
  BY <1>8 DEF LoadVerdict
<1>9. CASE UNCHANGED vars
  BY <1>9 DEF vars
<1>10. QED
  BY <1>1, <1>2, <1>3, <1>4, <1>5, <1>6, <1>7, <1>8, <1>9 DEF Next, Step

(* The invariant holds at every point of every execution.                  *)
LEMMA Invariance == Spec => []IInv
<1>1. IInv /\ [Next]_vars => IInv'
  BY StepIInv
<1>2. QED
  BY InitIInv, <1>1, PTL DEF Spec

(* However many threads call at once, one of them at most runs the suites, *)
(* and the status is RUNNING for exactly that time.                        *)
THEOREM OneRunnerHolds == Spec => []OneRunner
<1>1. IInv => OneRunner
  BY DEF IInv
<1>2. QED
  BY Invariance, <1>1, PTL

(* No path through the routine, by any thread, answers anything but the    *)
(* result of the suites on this machine.                                   *)
THEOREM HonestAnswerHolds == Spec => []HonestAnswer
<1>1. IInv => HonestAnswer
  BY DEF IInv
<1>2. QED
  BY Invariance, <1>1, PTL

-----------------------------------------------------------------------------
(* The routine implements the gate.  The refinement mapping names a runner *)
(* with CHOOSE; OneRunner makes it the thread that is Running.             *)
LEMMA RunnerIs ==
  ASSUME OneRunner
  PROVE  /\ \A t \in Threads : Running(t) => Runner = t
         /\ (\A t \in Threads : ~Running(t)) => Runner = NONE
         /\ self_tests_status # RUNNING => Runner = NONE
  BY DEF OneRunner, Runner

(* The same in the next state: primed terms are not instances of RunnerIs. *)
LEMMA RunnerIsNext ==
  ASSUME OneRunner'
  PROVE  /\ \A t \in Threads : Running(t)' => Runner' = t
         /\ (\A t \in Threads : ~Running(t)') => Runner' = NONE
         /\ self_tests_status' # RUNNING => Runner' = NONE
  BY DEF OneRunner, Runner

(* The routine starts where the gate does: nobody runs, nothing is known.  *)
LEMMA GateInit == Init => Gate!Init
  BY DEF Init, Gate!Init, Runner, Verdict

(* Every step of a thread is a step of the gate, or changes nothing of it. *)
LEMMA GateStep ==
  ASSUME IInv, IInv', [Next]_vars
  PROVE  [Gate!Next]_(Gate!gateVars)
<1> USE DEF IInv, Typing, OneRunner, HonestStatus, Placed, Verdict
<1> USE RunnerIs, RunnerIsNext
<1>1. ASSUME NEW t \in Threads, Call(t)
      PROVE  Gate!Call(t)
  <2>1. \A u \in Threads : Running(u)' <=> Running(u)
    BY <1>1 DEF Call
  <2>2. Runner' = Runner
    BY <2>1, <1>1 DEF Call
  <2>3. QED
    BY <1>1, <2>2 DEF Call, Gate!Call
<1>2. ASSUME NEW t \in Threads, LoadOk(t)
      PROVE  Gate!Answer(t) \/ UNCHANGED Gate!gateVars
  <2>1. \A u \in Threads : Running(u)' <=> Running(u)
    BY <1>2 DEF LoadOk
  <2>2. Runner' = Runner
    BY <2>1, <1>2 DEF LoadOk
  <2>3. QED
    BY <1>2, <2>2 DEF LoadOk, Gate!Answer, Gate!gateVars
<1>3. ASSUME NEW t \in Threads, LoadFail(t)
      PROVE  Gate!Answer(t) \/ UNCHANGED Gate!gateVars
  <2>1. \A u \in Threads : Running(u)' <=> Running(u)
    BY <1>3 DEF LoadFail
  <2>2. Runner' = Runner
    BY <2>1, <1>3 DEF LoadFail
  <2>3. QED
    BY <1>3, <2>2 DEF LoadFail, Gate!Answer, Gate!gateVars
<1>4. ASSUME NEW t \in Threads, CompareExchange(t)
      PROVE  Gate!Begin(t) \/ UNCHANGED Gate!gateVars
  <2>1. CASE self_tests_status = NOT_DONE
    <3>1. Runner = NONE /\ Runner' = t
      BY <1>4, <2>1 DEF CompareExchange
    <3>2. QED
      BY <1>4, <2>1, <3>1 DEF CompareExchange, Gate!Begin
  <2>2. CASE self_tests_status # NOT_DONE
    <3>1. \A u \in Threads : Running(u)' <=> Running(u)
      BY <1>4, <2>2 DEF CompareExchange
    <3>2. Runner' = Runner
      BY <3>1, <1>4, <2>2 DEF CompareExchange
    <3>3. QED
      BY <1>4, <2>2, <3>2 DEF CompareExchange, Gate!gateVars
  <2>3. QED
    BY <2>1, <2>2
<1>5. ASSUME NEW t \in Threads, AesTests(t)
      PROVE  Gate!Conclude(t, "fail") \/ UNCHANGED Gate!gateVars
  <2>1. Runner = t
    BY <1>5 DEF AesTests
  <2>2. CASE passes["aes"]
    <3>1. Runner' = t
      BY <1>5, <2>2 DEF AesTests
    <3>2. QED
      BY <1>5, <2>1, <2>2, <3>1 DEF AesTests, Gate!gateVars
  <2>3. CASE ~passes["aes"]
    <3>1. Runner' = NONE
      BY <1>5, <2>3 DEF AesTests
    <3>2. QED
      BY <1>5, <2>1, <2>3, <3>1 DEF AesTests, Gate!Conclude
  <2>4. QED
    BY <2>2, <2>3
<1>6. ASSUME NEW t \in Threads, ShaTests(t)
      PROVE  \E v \in {"ok", "fail"} : Gate!Conclude(t, v)
  <2>1. Runner = t
    BY <1>6 DEF ShaTests
  <2>2. Runner' = NONE
    BY <1>6 DEF ShaTests
  <2>3. QED
    BY <1>6, <2>1, <2>2 DEF ShaTests, Gate!Conclude
<1>7. ASSUME NEW t \in Threads, Wait(t)
      PROVE  UNCHANGED Gate!gateVars
  <2>1. \A u \in Threads : Running(u)' <=> Running(u)
    BY <1>7 DEF Wait
  <2>2. Runner' = Runner
    BY <2>1, <1>7 DEF Wait
  <2>3. QED
    BY <1>7, <2>2 DEF Wait, Gate!gateVars
<1>8. ASSUME NEW t \in Threads, LoadVerdict(t)
      PROVE  Gate!Answer(t)
  <2>1. \A u \in Threads : Running(u)' <=> Running(u)
    BY <1>8 DEF LoadVerdict
  <2>2. Runner' = Runner
    BY <2>1, <1>8 DEF LoadVerdict
  <2>3. QED
    BY <1>8, <2>2 DEF LoadVerdict, Gate!Answer
<1>9. CASE UNCHANGED vars
  BY <1>9 DEF vars, Gate!gateVars, Runner
<1>10. QED
  BY <1>1, <1>2, <1>3, <1>4, <1>5, <1>6, <1>7, <1>8, <1>9 DEF Next, Step, Gate!Next

(* The tests run once, one thread runs them, the verdict is final and is   *)
(* every thread's answer: the promise of isal_crypto_api.h, for any number *)
(* of threads.                                                             *)
THEOREM GateSpecHolds == Spec => GateSpec
<1>1. IInv /\ IInv' /\ [Next]_vars => [Gate!Next]_(Gate!gateVars)
  BY GateStep
<1>2. QED
  BY GateInit, Invariance, <1>1, PTL DEF Spec, GateSpec, Gate!Spec
=============================================================================
