---------------------------- MODULE SelfTestGate ----------------------------
(***************************************************************************)
(* What isal_self_tests() promises in FIPS mode (FIPS.md, "Covered API";   *)
(* include/isa-l_crypto/isal_crypto_api.h:89): the tests run once, in the  *)
(* thread that comes first; every other thread waits; their verdict is     *)
(* final and every call answers with it.                                   *)
(***************************************************************************)
CONSTANTS Threads, NONE

VARIABLES
    runner,     \* the thread running the tests, or NONE
    verdict,    \* "unknown", "ok" or "fail"
    answer      \* each thread's answer; "pending" inside a call

gateVars == <<runner, verdict, answer>>

Init ==
    /\ runner = NONE
    /\ verdict = "unknown"
    /\ answer = [t \in Threads |-> "none"]

Call(t) ==
    /\ answer[t] # "pending"
    /\ answer' = [answer EXCEPT ![t] = "pending"]
    /\ UNCHANGED <<runner, verdict>>

Begin(t) ==
    /\ answer[t] = "pending"
    /\ verdict = "unknown"
    /\ runner = NONE
    /\ runner' = t
    /\ UNCHANGED <<verdict, answer>>

Conclude(t, v) ==
    /\ runner = t
    /\ runner' = NONE
    /\ verdict' = v
    /\ answer' = [answer EXCEPT ![t] = v]

Answer(t) ==
    /\ answer[t] = "pending"
    /\ verdict # "unknown"
    /\ answer' = [answer EXCEPT ![t] = verdict]
    /\ UNCHANGED <<runner, verdict>>

Next == \E t \in Threads :
    Call(t) \/ Begin(t) \/ Answer(t) \/ \E v \in {"ok", "fail"} : Conclude(t, v)

Spec == Init /\ [][Next]_gateVars
=============================================================================
