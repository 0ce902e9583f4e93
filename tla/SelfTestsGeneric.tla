-------------------------- MODULE SelfTestsGeneric --------------------------
(***************************************************************************)
(* isal_self_tests() on other machines: fips/self_tests_generic.c.  One    *)
(* step per access to the shared atomic and one per test suite.  It stops  *)
(* at the first suite that fails and stores a verdict of its own, so the   *)
(* value a suite fails with does not matter: a suite passes or it does not.*)
(***************************************************************************)
EXTENDS Integers, FiniteSets

CONSTANTS
    Threads,
    NONE

ASSUME NoneAssumption == NONE \notin Threads

DONE_AND_OK   == 0
DONE_AND_FAIL == 1
NOT_DONE      == 2
RUNNING       == 3

VARIABLES
    self_tests_status,  \* the shared atomic
    passes,             \* whether the AES and the SHA suite pass on this machine
    pc,                 \* where each thread is
    answer              \* what its last call returned; "pending" inside a call

vars == <<self_tests_status, passes, pc, answer>>

Init ==
    /\ self_tests_status = NOT_DONE
    /\ passes \in [{"aes", "sha"} -> BOOLEAN]
    /\ pc = [t \in Threads |-> "out"]
    /\ answer = [t \in Threads |-> "none"]

Goto(t, where) == pc' = [pc EXCEPT ![t] = where] /\ UNCHANGED answer

Return(t, a) ==
    /\ pc' = [pc EXCEPT ![t] = "out"]
    /\ answer' = [answer EXCEPT ![t] = a]

Call(t) ==
    /\ pc[t] = "out"
    /\ pc' = [pc EXCEPT ![t] = "load_ok"]
    /\ answer' = [answer EXCEPT ![t] = "pending"]
    /\ UNCHANGED <<self_tests_status, passes>>

LoadOk(t) ==
    /\ pc[t] = "load_ok"
    /\ IF self_tests_status = DONE_AND_OK THEN Return(t, "ok") ELSE Goto(t, "load_fail")
    /\ UNCHANGED <<self_tests_status, passes>>

LoadFail(t) ==
    /\ pc[t] = "load_fail"
    /\ IF self_tests_status = DONE_AND_FAIL THEN Return(t, "fail")
       ELSE Goto(t, "compare_exchange")
    /\ UNCHANGED <<self_tests_status, passes>>

(* A definition marked "fault" is the one after it with a plausible bug.    *)
CompareExchange_Blind(t) ==     \* fault: a store for the exchange
    /\ pc[t] = "compare_exchange"
    /\ self_tests_status' = RUNNING
    /\ Goto(t, "aes")
    /\ UNCHANGED passes

(* A verdict may have been stored since the loads: that is "wait" as well. *)
CompareExchange(t) ==
    /\ pc[t] = "compare_exchange"
    /\ IF self_tests_status = NOT_DONE
       THEN self_tests_status' = RUNNING /\ Goto(t, "aes")
       ELSE Goto(t, "wait") /\ UNCHANGED self_tests_status
    /\ UNCHANGED passes

Store(t, value, a) == self_tests_status' = value /\ Return(t, a)

AesTests_Forgets(t) ==          \* fault: no verdict stored before the early return
    /\ pc[t] = "aes"
    /\ IF passes["aes"] THEN Goto(t, "sha") ELSE Return(t, "fail")
    /\ UNCHANGED <<self_tests_status, passes>>

AesTests(t) ==
    /\ pc[t] = "aes"
    /\ IF passes["aes"]
       THEN Goto(t, "sha") /\ UNCHANGED self_tests_status
       ELSE Store(t, DONE_AND_FAIL, "fail")
    /\ UNCHANGED passes

ShaTests_Reopens(t) ==          \* fault: NOT_DONE stored after a failure
    /\ pc[t] = "sha"
    /\ IF passes["sha"]
       THEN Store(t, DONE_AND_OK, "ok")
       ELSE Store(t, NOT_DONE, "fail")
    /\ UNCHANGED passes

ShaTests(t) ==
    /\ pc[t] = "sha"
    /\ IF passes["sha"]
       THEN Store(t, DONE_AND_OK, "ok")
       ELSE Store(t, DONE_AND_FAIL, "fail")
    /\ UNCHANGED passes

Wait_Once(t) ==                 \* fault: if for while at 71
    /\ pc[t] = "wait"
    /\ Goto(t, "load_verdict")
    /\ UNCHANGED <<self_tests_status, passes>>

Wait(t) ==
    /\ pc[t] = "wait"
    /\ self_tests_status # RUNNING
    /\ Goto(t, "load_verdict")
    /\ UNCHANGED <<self_tests_status, passes>>

LoadVerdict(t) ==
    /\ pc[t] = "load_verdict"
    /\ Return(t, IF self_tests_status = DONE_AND_OK THEN "ok" ELSE "fail")
    /\ UNCHANGED <<self_tests_status, passes>>

Step(t) ==
    \/ LoadOk(t) \/ LoadFail(t) \/ CompareExchange(t)
    \/ AesTests(t) \/ ShaTests(t) \/ Wait(t) \/ LoadVerdict(t)

Next == \E t \in Threads : Call(t) \/ Step(t)

Spec == Init /\ [][Next]_vars

(* Every thread inside a call is scheduled again.                          *)
FairSpec == Spec /\ \A t \in Threads : WF_vars(Step(t))

-----------------------------------------------------------------------------
Running(t) == pc[t] \in {"aes", "sha"}

(* At most one thread runs the tests, whoever races it to the exchange,    *)
(* and exactly while the status says so.                                   *)
OneRunner ==
    /\ \A t, u \in Threads : Running(t) /\ Running(u) => t = u
    /\ self_tests_status = RUNNING <=> \E t \in Threads : Running(t)

(* A call answers "ok" only where both suites pass and "fail" only where   *)
(* one does not, on every path to an answer.                               *)
HonestAnswer ==
    \A t \in Threads : answer[t] \in {"ok", "fail"} =>
        (answer[t] = "ok" <=> passes["aes"] /\ passes["sha"])

Runner == IF \E t \in Threads : Running(t) THEN CHOOSE t \in Threads : Running(t)
          ELSE NONE

Verdict == IF self_tests_status = DONE_AND_OK THEN "ok"
           ELSE IF self_tests_status = DONE_AND_FAIL THEN "fail" ELSE "unknown"

(* The routine implements the gate: the tests run once, their verdict is   *)
(* final, and every answer is that verdict.                                *)
Gate == INSTANCE SelfTestGate WITH runner <- Runner, verdict <- Verdict
GateSpec == Gate!Spec

(* Every call returns: the waiting threads are released by every path of   *)
(* the thread that runs the tests.                                         *)
CallReturns == \A t \in Threads : (pc[t] # "out") ~> (pc[t] = "out")
=============================================================================
