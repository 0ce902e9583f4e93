---------------------------- MODULE SelfTestsAsm ----------------------------
(***************************************************************************)
(* isal_self_tests() on x86: fips/self_tests.c over the routines of        *)
(* fips/asm_self_tests.asm.  One step per access to the shared status word *)
(* and one per test suite.  The result of a suite is the same every time   *)
(* it runs, and is what the functions return: 0 or 1 for the AES suite,    *)
(* 0 or -1 for the SHA suite.                                              *)
(***************************************************************************)
EXTENDS Integers, FiniteSets

CONSTANTS
    Threads,
    Outcomes,       \* <<AES result, SHA result>> pairs of the machine considered
    NONE

ASSUME OutcomesAssumption == Outcomes \subseteq {0, 1} \X {0, -1}

DONE_AND_OK   == 0
DONE_AND_FAIL == 1
NOT_DONE      == 2
RUNNING       == 3

VARIABLES
    self_test_status,   \* the shared word
    outcome,            \* what the suites return here
    pc, eax,            \* where each thread is, and its register or ret
    answer              \* what its last call returned; "pending" inside a call

vars == <<self_test_status, outcome, pc, eax, answer>>

Init ==
    /\ self_test_status = NOT_DONE
    /\ outcome \in Outcomes
    /\ pc = [t \in Threads |-> "out"]
    /\ eax = [t \in Threads |-> 0]
    /\ answer = [t \in Threads |-> "none"]

(* Bit 1 of a two's complement word.                                       *)
TestBit2(w) == (w \div 2) % 2 = 1

(* A definition marked "fault" is the one after it with a plausible bug.    *)
Or_Sum(x, y) == x + y                   \* fault: ret += x

(* ret |= x, for the values the suites return.                             *)
Or(x, y) == IF -1 \in {x, y} THEN -1 ELSE IF 1 \in {x, y} THEN 1 ELSE 0

Goto(t, where) == pc' = [pc EXCEPT ![t] = where]

(* self_tests.c:47-50 and 59-62: the caller's view of a result.            *)
Answered(t, value) ==
    /\ answer' = [answer EXCEPT ![t] = IF value = 0 THEN "ok" ELSE "fail"]
    /\ Goto(t, "out")

Call(t) ==
    /\ pc[t] = "out"
    /\ Goto(t, "check")
    /\ answer' = [answer EXCEPT ![t] = "pending"]
    /\ UNCHANGED <<self_test_status, outcome, eax>>

(* What asm_check_self_tests_status returned decides: 0 and 1 are final,   *)
(* anything else means that the tests are to be run.                       *)
Checked(t, value) ==
    /\ eax' = [eax EXCEPT ![t] = value]
    /\ IF value \in {DONE_AND_OK, DONE_AND_FAIL}
       THEN Answered(t, value)
       ELSE Goto(t, "aes") /\ UNCHANGED answer

Check(t) ==
    /\ pc[t] = "check"
    /\ IF TestBit2(self_test_status)
       THEN Goto(t, "cmpxchg") /\ UNCHANGED <<eax, answer>>
       ELSE Checked(t, self_test_status)
    /\ UNCHANGED <<self_test_status, outcome>>

Cmpxchg_Blind(t) ==                     \* fault: plain store for lock cmpxchg
    /\ pc[t] = "cmpxchg"
    /\ self_test_status' = RUNNING
    /\ Checked(t, NOT_DONE)
    /\ UNCHANGED outcome

Cmpxchg(t) ==
    /\ pc[t] = "cmpxchg"
    /\ IF self_test_status = NOT_DONE
       THEN self_test_status' = RUNNING /\ Checked(t, NOT_DONE)
       ELSE Goto(t, "spin") /\ UNCHANGED <<self_test_status, eax, answer>>
    /\ UNCHANGED outcome

Spin(t) ==
    /\ pc[t] = "spin"
    /\ self_test_status # RUNNING
    /\ Goto(t, "reread")
    /\ UNCHANGED <<self_test_status, outcome, eax, answer>>

Reread(t) ==
    /\ pc[t] = "reread"
    /\ Checked(t, self_test_status)
    /\ UNCHANGED <<self_test_status, outcome>>

AesTests_Publishes(t) ==                \* fault: status set after the first suite
    /\ pc[t] = "aes"
    /\ eax' = [eax EXCEPT ![t] = outcome[1]]
    /\ self_test_status' = outcome[1]
    /\ Goto(t, "sha")
    /\ UNCHANGED <<outcome, answer>>

AesTests(t) ==
    /\ pc[t] = "aes"
    /\ eax' = [eax EXCEPT ![t] = outcome[1]]
    /\ Goto(t, "sha")
    /\ UNCHANGED <<self_test_status, outcome, answer>>

ShaTests(t) ==
    /\ pc[t] = "sha"
    /\ eax' = [eax EXCEPT ![t] = Or(@, outcome[2])]
    /\ Goto(t, "publish")
    /\ UNCHANGED <<self_test_status, outcome, answer>>

Publish_Success(t) ==                   \* fault: status left at RUNNING on failure
    /\ pc[t] = "publish"
    /\ self_test_status' = IF eax[t] = 0 THEN 0 ELSE self_test_status
    /\ Answered(t, eax[t])
    /\ UNCHANGED <<outcome, eax>>

Publish(t) ==
    /\ pc[t] = "publish"
    /\ self_test_status' = eax[t]
    /\ Answered(t, eax[t])
    /\ UNCHANGED <<outcome, eax>>

Step(t) ==
    \/ Check(t) \/ Cmpxchg(t) \/ Spin(t) \/ Reread(t)
    \/ AesTests(t) \/ ShaTests(t) \/ Publish(t)

Next == \E t \in Threads : Call(t) \/ Step(t)

Spec == Init /\ [][Next]_vars

(* Every thread inside a call is scheduled again.                          *)
FairSpec == Spec /\ \A t \in Threads : WF_vars(Step(t))

-----------------------------------------------------------------------------
Runners == {t \in Threads : pc[t] \in {"aes", "sha", "publish"}}

(* isal_crypto_api.h:102: only one thread will run the tests and the rest  *)
(* of the threads will wait until the tests are finished.                  *)
OneRunner == Cardinality(Runners) <= 1

(* A call answers "ok" only where both suites pass, at any time, through   *)
(* any of the paths that lead to an answer, and "fail" only where one does *)
(* not: no thread may start work on a verdict that is not there yet.       *)
HonestAnswer ==
    \A t \in Threads : answer[t] \in {"ok", "fail"} =>
        (answer[t] = "ok" <=> outcome = <<0, 0>>)

(* What does hold of it: where the SHA suite passes, one thread runs the   *)
(* tests, whether the AES suite passes or not.                             *)
OneRunnerIfShaPasses == outcome[2] = 0 => OneRunner

(* Where the SHA suite passes, the routine implements the gate: the tests  *)
(* run once, by one thread, and their verdict is final.                    *)
Gate == INSTANCE SelfTestGate WITH
    runner  <- IF Runners = {} THEN NONE ELSE CHOOSE t \in Runners : TRUE,
    verdict <- CASE self_test_status = DONE_AND_OK -> "ok"
                 [] self_test_status \in {NOT_DONE, RUNNING} -> "unknown"
                 [] OTHER -> "fail"
GateIfShaPasses ==
    /\ outcome[2] = 0 => Gate!Init
    /\ [][outcome[2] = 0 => Gate!Next \/ UNCHANGED Gate!gateVars]_vars

(* Every call returns: the waiting threads are released.                   *)
CallReturns == \A t \in Threads : (pc[t] # "out") ~> (pc[t] = "out")
=============================================================================
