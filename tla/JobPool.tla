------------------------------- MODULE JobPool -------------------------------
(***************************************************************************)
(* What the multi-buffer schedulers promise, without lanes, lengths or     *)
(* kernels: a pool that holds fewer than FILL jobs between calls.  Submit  *)
(* puts a job in and, when that fills the pool, hands back one finished    *)
(* job, any of them; an EAGER pool may hand one back before it is full.    *)
(* Flush hands back one finished job as long as there is one.              *)
(***************************************************************************)
EXTENDS Naturals, FiniteSets

CONSTANTS Jobs, FILL, EAGER, NULL

VARIABLES
    active,     \* the jobs in the pool
    returned    \* the job the last call handed back, or NULL

poolVars == <<active, returned>>

Init == active = {} /\ returned = NULL

HandBack(j, pool) ==
    /\ j \in pool
    /\ active' = pool \ {j}
    /\ returned' = j

Keep(pool) ==
    /\ active' = pool
    /\ returned' = NULL

Submit(j) ==
    /\ j \notin active
    /\ \/ /\ Cardinality(active) + 1 < FILL
          /\ Keep(active \cup {j})
       \/ /\ EAGER \/ Cardinality(active) + 1 >= FILL
          /\ \E k \in Jobs : HandBack(k, active \cup {j})

Flush ==
    IF active = {} THEN Keep(active) ELSE \E k \in Jobs : HandBack(k, active)

Next == Flush \/ \E j \in Jobs : Submit(j)

Spec == Init /\ [][Next]_poolVars
=============================================================================
