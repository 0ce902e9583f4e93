------------------------- MODULE SelfTestsAsmProofs -------------------------
(***************************************************************************)
(* The x86 self-test gate, proved for any set of threads.                  *)
(***************************************************************************)
EXTENDS SelfTestsAsm, FiniteSetTheorems, TLAPS

Places == {"out", "check", "cmpxchg", "spin", "reread", "aes", "sha", "publish"}

Typing ==
    /\ self_test_status \in {-1, DONE_AND_OK, DONE_AND_FAIL, NOT_DONE, RUNNING}
    /\ outcome \in {0, 1} \X {0, -1}
    /\ pc \in [Threads -> Places]
    /\ eax \in [Threads -> Int]
    /\ answer \in [Threads -> {"none", "pending", "ok", "fail"}]

Passing == outcome = <<0, 0>>

(* The status, where a caller takes it for a verdict, tells the truth.     *)
HonestStatus ==
    /\ self_test_status = DONE_AND_OK => Passing
    /\ self_test_status \in {-1, DONE_AND_FAIL} => ~Passing

(* What a runner has gathered so far is in its register.                   *)
Gathered ==
    \A t \in Threads :
        /\ pc[t] = "sha" => eax[t] = outcome[1]
        /\ pc[t] = "publish" => eax[t] = Or(outcome[1], outcome[2])
        /\ answer[t] = "pending" <=> pc[t] # "out"

(* Where the SHA suite passes: the status is RUNNING while a thread runs   *)
(* the tests, one thread does, and a thread leaves the loop only when      *)
(* there is a verdict.                                                     *)
Exclusive ==
    /\ self_test_status # -1
    /\ \A t, u \in Runners : t = u
    /\ self_test_status = RUNNING <=> Runners # {}
    /\ \A t \in Threads :
        /\ pc[t] = "spin" => self_test_status # NOT_DONE
        /\ pc[t] = "reread" => self_test_status \in {DONE_AND_OK, DONE_AND_FAIL}

IInv ==
    /\ Typing /\ HonestStatus /\ Gathered /\ HonestAnswer
    /\ outcome[2] = 0 => Exclusive

-----------------------------------------------------------------------------
(* Bit 1 of the words the status takes.                                    *)
LEMMA StatusBit ==
  \A w \in {-1, 0, 1, 2, 3} : TestBit2(w) <=> w \in {-1, 2, 3}
  BY DEF TestBit2

(* The results of the two suites together are one of three words.          *)
LEMMA OrResult ==
  ASSUME NEW o \in {0, 1} \X {0, -1}
  PROVE  /\ Or(o[1], o[2]) \in {-1, 0, 1}
         /\ Or(o[1], o[2]) = 0 <=> o = <<0, 0>>
         /\ o[2] = 0 => Or(o[1], o[2]) = o[1]
         /\ Or(o[1], o[2]) = -1 => o[2] # 0
<1>1. o = <<o[1], o[2]>> /\ o[1] \in {0, 1} /\ o[2] \in {0, -1}
  OBVIOUS
<1>2. QED
  BY <1>1 DEF Or

(* The status word starts as NOT_DONE and no thread is inside a call.      *)
LEMMA InitIInv == Init => IInv
  BY OutcomesAssumption
     DEF Init, IInv, Typing, HonestStatus, Gathered, HonestAnswer, Exclusive, Runners,
         Places, DONE_AND_OK, DONE_AND_FAIL, NOT_DONE, RUNNING

USE DEF Goto, Answered, Checked, Places, Passing, DONE_AND_OK, DONE_AND_FAIL, NOT_DONE, RUNNING

(* Each step, by any thread, keeps the answers and the status honest.      *)
LEMMA StepHonest ==
  ASSUME IInv, [Next]_vars
  PROVE  (Typing /\ HonestStatus /\ Gathered /\ HonestAnswer)'
<1> USE DEF IInv, Typing, HonestStatus, Gathered, HonestAnswer
<1> DEFINE Kept == (Typing /\ HonestStatus /\ Gathered /\ HonestAnswer)'
<1>1. ASSUME NEW t \in Threads, Call(t)
      PROVE  Kept
  BY <1>1 DEF Call
<1>2. ASSUME NEW t \in Threads, Check(t)
      PROVE  Kept
  BY <1>2, StatusBit DEF Check
<1>3. ASSUME NEW t \in Threads, Cmpxchg(t)
      PROVE  Kept
  BY <1>3 DEF Cmpxchg
<1>4. ASSUME NEW t \in Threads, Spin(t)
      PROVE  Kept
  BY <1>4 DEF Spin
<1>5. ASSUME NEW t \in Threads, Reread(t)
      PROVE  Kept
  BY <1>5 DEF Reread
<1>6. ASSUME NEW t \in Threads, AesTests(t)
      PROVE  Kept
  BY <1>6 DEF AesTests
<1>7. ASSUME NEW t \in Threads, ShaTests(t)
      PROVE  Kept
  BY <1>7, OrResult DEF ShaTests
<1>8. ASSUME NEW t \in Threads, Publish(t)
      PROVE  Kept
  BY <1>8, OrResult DEF Publish
<1>9. CASE UNCHANGED vars
  BY <1>9 DEF vars
<1>10. QED
  BY <1>1, <1>2, <1>3, <1>4, <1>5, <1>6, <1>7, <1>8, <1>9 DEF Next, Step

(* Each step keeps the tests to one thread where the SHA suite passes.     *)
LEMMA StepExclusive ==
  ASSUME IInv, [Next]_vars, outcome'[2] = 0
  PROVE  Exclusive'
<1> USE DEF IInv, Typing, HonestStatus, Gathered, Exclusive, Runners
<1>1. ASSUME NEW t \in Threads, Call(t)
      PROVE  Exclusive'
  BY <1>1 DEF Call
<1>2. ASSUME NEW t \in Threads, Check(t)
      PROVE  Exclusive'
  BY <1>2, StatusBit DEF Check
<1>3. ASSUME NEW t \in Threads, Cmpxchg(t)
      PROVE  Exclusive'
  BY <1>3 DEF Cmpxchg
<1>4. ASSUME NEW t \in Threads, Spin(t)
      PROVE  Exclusive'
  BY <1>4 DEF Spin
<1>5. ASSUME NEW t \in Threads, Reread(t)
      PROVE  Exclusive'
  BY <1>5 DEF Reread
<1>6. ASSUME NEW t \in Threads, AesTests(t)
      PROVE  Exclusive'
  BY <1>6 DEF AesTests
<1>7. ASSUME NEW t \in Threads, ShaTests(t)
      PROVE  Exclusive'
  BY <1>7 DEF ShaTests
<1>8. ASSUME NEW t \in Threads, Publish(t)
      PROVE  Exclusive'
  BY <1>8, OrResult DEF Publish
<1>9. CASE UNCHANGED vars
  BY <1>9 DEF vars
<1>10. QED
  BY <1>1, <1>2, <1>3, <1>4, <1>5, <1>6, <1>7, <1>8, <1>9 DEF Next, Step

(* The invariant holds at every point of every execution.                  *)
LEMMA Invariance == Spec => []IInv
<1>1. IInv /\ [Next]_vars => IInv'
  BY StepHonest, StepExclusive DEF IInv
<1>2. QED
  BY InitIInv, <1>1, PTL DEF Spec

(* No path through the routine, by any thread, answers anything but the    *)
(* result of the suites on this machine, even where several threads run    *)
(* the tests.                                                              *)
THEOREM AsmHonestAnswerHolds == Spec => []HonestAnswer
<1>1. IInv => HonestAnswer
  BY DEF IInv
<1>2. QED
  BY Invariance, <1>1, PTL

(* However many threads call at once, one of them at most runs the suites  *)
(* where the SHA suite passes.                                             *)
THEOREM OneRunnerIfShaPassesHolds == Spec => []OneRunnerIfShaPasses
<1>1. ASSUME IInv
      PROVE  OneRunnerIfShaPasses
  <2>1. SUFFICES ASSUME outcome[2] = 0
                 PROVE  Cardinality(Runners) <= 1
    BY DEF OneRunnerIfShaPasses, OneRunner
  <2>2. Runners = {} \/ \E t \in Runners : Runners = {t}
    BY <1>1, <2>1 DEF IInv, Exclusive
  <2>3. CASE Runners = {}
    <3>1. Cardinality(Runners) = 0
      BY <2>3, FS_EmptySet
    <3>2. QED
      BY <3>1
  <2>4. CASE \E t \in Runners : Runners = {t}
    <3>1. Cardinality(Runners) = 1
      BY <2>4, FS_Singleton
    <3>2. QED
      BY <3>1
  <2>5. QED
    BY <2>2, <2>3, <2>4
<1>2. QED
  BY Invariance, <1>1, PTL

-----------------------------------------------------------------------------
(* The runner and the verdict of the gate, as the refinement names them.   *)
Runner == IF Runners = {} THEN NONE ELSE CHOOSE t \in Runners : TRUE
Verdict == CASE self_test_status = DONE_AND_OK -> "ok"
             [] self_test_status \in {NOT_DONE, RUNNING} -> "unknown"
             [] OTHER -> "fail"

(* With one runner at most, CHOOSE names it.                               *)
LEMMA RunnerIs ==
  ASSUME Exclusive
  PROVE  /\ \A t \in Runners : Runner = t
         /\ Runners = {} => Runner = NONE
  BY DEF Exclusive, Runner

(* The same in the next state.                                             *)
LEMMA RunnerIsNext ==
  ASSUME Exclusive'
  PROVE  /\ \A t \in Runners' : Runner' = t
         /\ Runners' = {} => Runner' = NONE
  BY DEF Exclusive, Runner

(* Where the SHA suite passes, every step of a thread is a step of the     *)
(* gate, or changes nothing of it.                                         *)
LEMMA GateStep ==
  ASSUME IInv, IInv', [Next]_vars, outcome[2] = 0
  PROVE  Gate!Next \/ UNCHANGED Gate!gateVars
<1> USE DEF IInv, Typing, HonestStatus, Gathered, Verdict
<1>0. outcome' = outcome /\ Exclusive /\ Exclusive'
  BY DEF Next, Step, Call, Check, Cmpxchg, Spin, Reread, AesTests, ShaTests, Publish, vars
<1>1. ASSUME Runners' = Runners
      PROVE  Runner' = Runner
  BY <1>1 DEF Runner
<1> USE <1>0 DEF Exclusive
<1>2. ASSUME NEW t \in Threads, Call(t)
      PROVE  Gate!Call(t)
  <2>1. Runner' = Runner
    BY <1>2, <1>1 DEF Call, Runners
  <2>2. QED
    BY <1>2, <2>1 DEF Call, Gate!Call, Runner
<1>3. ASSUME NEW t \in Threads, Check(t)
      PROVE  Gate!Answer(t) \/ UNCHANGED Gate!gateVars
  <2>1. Runner' = Runner
    BY <1>3, <1>1, StatusBit DEF Check, Runners
  <2>2. QED
    BY <1>3, <2>1, StatusBit DEF Check, Gate!Answer, Gate!gateVars, Runner
<1>4. ASSUME NEW t \in Threads, Cmpxchg(t)
      PROVE  Gate!Begin(t) \/ UNCHANGED Gate!gateVars
  <2>1. CASE self_test_status = NOT_DONE
    <3>1. Runners = {} /\ t \in Runners'
      BY <1>4, <2>1 DEF Cmpxchg, Runners
    <3>2. Runner = NONE /\ Runner' = t
      BY <3>1, RunnerIs, RunnerIsNext
    <3>3. QED
      BY <1>4, <2>1, <3>2 DEF Cmpxchg, Gate!Begin, Runner
  <2>2. CASE self_test_status # NOT_DONE
    <3>1. Runner' = Runner
      BY <1>4, <2>2, <1>1 DEF Cmpxchg, Runners
    <3>2. QED
      BY <1>4, <2>2, <3>1 DEF Cmpxchg, Gate!gateVars, Runner
  <2>3. QED
    BY <2>1, <2>2
<1>5. ASSUME NEW t \in Threads, Spin(t)
      PROVE  UNCHANGED Gate!gateVars
  <2>1. Runner' = Runner
    BY <1>5, <1>1 DEF Spin, Runners
  <2>2. QED
    BY <1>5, <2>1 DEF Spin, Gate!gateVars, Runner
<1>6. ASSUME NEW t \in Threads, Reread(t)
      PROVE  Gate!Answer(t)
  <2>1. Runner' = Runner
    BY <1>6, <1>1 DEF Reread, Runners
  <2>2. QED
    BY <1>6, <2>1 DEF Reread, Gate!Answer, Runner
<1>7. ASSUME NEW t \in Threads, AesTests(t)
      PROVE  UNCHANGED Gate!gateVars
  <2>1. Runner' = Runner
    BY <1>7, <1>1 DEF AesTests, Runners
  <2>2. QED
    BY <1>7, <2>1 DEF AesTests, Gate!gateVars, Runner
<1>8. ASSUME NEW t \in Threads, ShaTests(t)
      PROVE  UNCHANGED Gate!gateVars
  <2>1. Runner' = Runner
    BY <1>8, <1>1 DEF ShaTests, Runners
  <2>2. QED
    BY <1>8, <2>1 DEF ShaTests, Gate!gateVars, Runner
<1>9. ASSUME NEW t \in Threads, Publish(t)
      PROVE  \E v \in {"ok", "fail"} : Gate!Conclude(t, v)
  <2>1. t \in Runners /\ Runners' = {}
    BY <1>9, OrResult DEF Publish, Runners
  <2>2. Runner = t /\ Runner' = NONE
    BY <2>1, RunnerIs, RunnerIsNext
  <2>3. eax[t] \in {-1, 0, 1} /\ eax[t] # -1
    BY <1>9, OrResult DEF Publish
  <2>4. CASE eax[t] = 0
    <3>1. Gate!Conclude(t, "ok")
      BY <1>9, <2>2, <2>4 DEF Publish, Gate!Conclude, Runner
    <3>2. QED
      BY <3>1
  <2>5. CASE eax[t] # 0
    <3>1. Gate!Conclude(t, "fail")
      BY <1>9, <2>2, <2>3, <2>5 DEF Publish, Gate!Conclude, Runner
    <3>2. QED
      BY <3>1
  <2>6. QED
    BY <2>4, <2>5
<1>10. CASE UNCHANGED vars
  BY <1>10 DEF vars, Gate!gateVars, Runners
<1>11. QED
  BY <1>2, <1>3, <1>4, <1>5, <1>6, <1>7, <1>8, <1>9, <1>10 DEF Next, Step, Gate!Next

(* Where the SHA suite passes, the tests run once, one thread runs them,   *)
(* the verdict is final and is every thread's answer, for any number of    *)
(* threads.                                                                *)
THEOREM GateIfShaPassesHolds == Spec => GateIfShaPasses
<1>1. Init => (outcome[2] = 0 => Gate!Init)
  BY DEF Init, Gate!Init, Runners
<1>2. IInv /\ IInv' /\ [Next]_vars => [outcome[2] = 0 => Gate!Next \/ UNCHANGED Gate!gateVars]_vars
  BY GateStep
<1>3. QED
  BY <1>1, <1>2, Invariance, PTL DEF Spec, GateIfShaPasses
=============================================================================
