------------------------------ MODULE MBJobMgr ------------------------------
(***************************************************************************)
(* The multi-buffer job manager on its own: a caller that submits jobs it  *)
(* has prepared and flushes, one call at a time (the manager is not shared *)
(* between threads).  The handlers are those of MBLanes.                   *)
(***************************************************************************)
EXTENDS MBLanes

CONSTANT MaxBlocks      \* bound of the model: blocks in a job

(* len is a 32-bit byte count shifted down by the block size.  It is below *)
(* the length of an empty lane by a wide margin, except in the AVX512 MD5  *)
(* manager, which shifts by 6 for its 32 lanes: there both may be 2^26 - 1 *)
(* and the lane field of the empty word, 63, decides.                      *)
ASSUME LengthAssumption ==
    /\ MaxBlocks \in Nat \ {0}
    /\ Fits(MaxBlocks)

(* Every job hashes a buffer of its own, whose cells are all distinct.     *)
BufferOf(j) == j
Message(j)  == [i \in 1 .. MaxBlocks * BLOCK_SIZE |-> <<j, i>>]
Memory      == [b \in Buffers |-> Message(b)]

ASSUME MemoryAssumption ==
    /\ Jobs \subseteq Buffers
    /\ \A b \in Buffers : \A i \in 1 .. MaxBlocks * BLOCK_SIZE : <<b, i>> \in Byte

VARIABLES
    mgr,        \* ISAL_<HASH>_MB_JOB_MGR
    job,        \* the job structures, owned by the caller when not in a lane
    ret,        \* the pointer the last call returned
    fault       \* the last calls touched memory they may not touch

vars == <<mgr, job, ret, fault>>

(* The caller fills in a job: a fresh digest, a pointer and a block count. *)
Prepared(n, j) == [ buffer        |-> [buf |-> BufferOf(j), off |-> 0],
                    len           |-> n,
                    status        |-> "UNKNOWN",
                    result_digest |-> << >> ]

Init ==
    /\ mgr = InitManager
    /\ job = [j \in Jobs |-> Prepared(1, j)]
    /\ ret = NULL
    /\ fault = FALSE

Returns(result) ==
    \E r \in {result} :      \* so that TLC evaluates the handler once
        /\ mgr' = r.mgr
        /\ job' = r.job
        /\ ret' = r.ret
        /\ fault' = (fault \/ r.fault)

Submit(j, n) ==
    /\ job[j].status # "BEING_PROCESSED"
    /\ Returns(SubmitJob(mgr, Memory, [job EXCEPT ![j] = Prepared(n, j)], j))

Flush == Returns(FlushJob(mgr, Memory, job))

SubmitAny == \E j \in Jobs, n \in 1 .. MaxBlocks : Submit(j, n)

Next == SubmitAny \/ Flush

Spec == Init /\ [][Next]_vars

(* A caller that does not stop calling (WF_vars(Next): there is always a   *)
(* call that changes something), and does not keep so few jobs in flight   *)
(* for ever that flush only serves the shortest.  For managers with a      *)
(* threshold of one the last conjunct says nothing more: the next call     *)
(* finishes a single job or adds another.                                  *)
FairSpec ==
    /\ Spec
    /\ []<><<TRUE>>_vars
    /\ []<>(mgr.num_lanes_inuse \notin 1 .. SB_THRESHOLD)

-----------------------------------------------------------------------------
TypeOK ==
    /\ mgr \in Manager
    /\ job \in [Jobs -> Job]
    /\ ret \in Jobs \cup {NULL}
    /\ fault \in BOOLEAN

Processing == {j \in Jobs : job[j].status = "BEING_PROCESSED"}

(* No call pops an exhausted lane stack, retires an empty lane, or lets a  *)
(* kernel read through a dead pointer or past the end of a buffer.         *)
NoFault == ~fault

(* Every lane is either on the stack, once, or holds a job; the separate   *)
(* counter agrees with the stack; the lanes submit never fills stay below. *)
LaneAccounting ==
    /\ \A i, k \in 1 .. Len(mgr.unused_lanes) :
            mgr.unused_lanes[i] = mgr.unused_lanes[k] => i = k
    /\ \A l \in Lanes : mgr.job_in_lane[l] = NULL <=>
            \E i \in 1 .. Len(mgr.unused_lanes) : mgr.unused_lanes[i] = l
    /\ mgr.num_lanes_inuse + Len(mgr.unused_lanes) = NLANES
    /\ mgr.num_lanes_inuse < FILL
    /\ \A i \in 1 .. NLANES - FILL :
            mgr.unused_lanes[Len(mgr.unused_lanes) - (NLANES - FILL) + i] = NeverFilled[i]

(* A job that is being processed is in exactly one lane, and no other is.  *)
JobsInLanes ==
    /\ \A l \in Lanes : mgr.job_in_lane[l] # NULL => mgr.job_in_lane[l] \in Processing
    /\ \A j \in Processing : \E l \in Lanes : mgr.job_in_lane[l] = j
    /\ \A k, l \in Lanes : mgr.job_in_lane[k] # NULL /\ mgr.job_in_lane[k] = mgr.job_in_lane[l]
            => k = l

(* The lane of a job has absorbed a prefix of its message, its pointer is  *)
(* at the end of that prefix, and its length word counts the rest.         *)
LaneProgress ==
    \A l \in BusyLanes(mgr) :
        LET j == mgr.job_in_lane[l]
            p == mgr.data_ptr[l]
            w == mgr.lens[l]
        IN  /\ w.tag = l
            /\ p.buf = BufferOf(j)
            /\ p.off + w.blocks * BLOCK_SIZE = job[j].len * BLOCK_SIZE
            /\ mgr.digest[l] = SubSeq(Message(j), 1, p.off)

(* A completed job has exactly the digest of its own message, whatever     *)
(* jobs of other lengths ran beside it and in whatever order they ended.   *)
CompletedDigest ==
    \A j \in Jobs : job[j].status = "COMPLETED" =>
        job[j].result_digest = SubSeq(Message(j), 1, job[j].len * BLOCK_SIZE)

(* The lanes, the packed lengths and the kernels implement the pool: every *)
(* call hands back at most one job, that job alone stops being processed,  *)
(* submit answers NULL only while there is room, and flush answers NULL    *)
(* only when no job is in flight.                                          *)
Pool == INSTANCE JobPool WITH active <- Processing, returned <- ret, EAGER <- FALSE
PoolSpec == Pool!Spec

(* Every job accepted is finished as long as the caller keeps calling and  *)
(* now and then has more jobs in flight than SB_THRESHOLD, even if it      *)
(* always brings new shorter jobs: each compression of all lanes serves    *)
(* the longest.                                                            *)
EveryJobFinishes ==
    \A j \in Jobs : (job[j].status = "BEING_PROCESSED") ~> (job[j].status = "COMPLETED")
=============================================================================
