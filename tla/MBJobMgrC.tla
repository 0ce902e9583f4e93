----------------------------- MODULE MBJobMgrC ------------------------------
(***************************************************************************)
(* The job managers of the aarch64 machines, which are written in C:       *)
(*   <hash>_mb/aarch64/<hash>_mb_mgr_<arch>.c                              *)
(* They answer the calls MBLanes answers with another algorithm.  A run of *)
(* the kernels may finish several jobs; each stays in its lane until a     *)
(* later call finds it there and hands it back, one job per call.          *)
(*                                                                         *)
(* A digest is the sequence of the blocks absorbed.  job->len is written   *)
(* back too, and read by nobody after the job is in its lane: left out.    *)
(***************************************************************************)
EXTENDS Integers, Sequences, FiniteSets

CONSTANTS
    Jobs,           \* the job structures of the caller
    NLANES,         \* <HASH>_MB_<ARCH>_MAX_LANES
    Variants,       \* the managers to consider
    LEN_MOD,        \* values of the blocks field of a 32-bit length word
    MaxBlocks,      \* bound of the model: blocks in a job
    NULL

(***************************************************************************)
(* A manager: the lanes of one stack (8 of the 32 for MD5 SVE, all of them *)
(* for the others), the lanes in use at which submit compresses (fewer     *)
(* than there are where the SVE vector is short), and whether a run with   *)
(* lanes unused serves all jobs (whole) or the first job alone, to its end *)
(* (the ASIMD managers of SM3 and MD5).  The length word is len << 4, so   *)
(* LEN_MOD is 2^28, or len << 8 for MD5 SVE and SVE2, where it is 2^24.    *)
(***************************************************************************)
ASSUME VariantAssumption ==
    /\ NLANES \in Nat \ {0}
    /\ LEN_MOD \in Nat \ {0, 1}
    /\ MaxBlocks \in Nat \ {0}
    /\ NULL \notin Jobs
    /\ \A v \in Variants :
            /\ v.group \in 1 .. NLANES
            /\ v.fill \in 1 .. NLANES
            /\ v.whole \in BOOLEAN
            /\ ~v.whole => v.fill = NLANES

Lanes   == 0 .. NLANES - 1
Block   == Jobs \X (1 .. MaxBlocks)

VARIABLES
    variant,    \* the manager the dispatcher chose
    mgr,        \* ISAL_<HASH>_MB_JOB_MGR
    job,        \* the job structures
    asked,      \* the blocks each job had when it was submitted (ghost)
    ret,        \* the pointer the last call returned
    fault       \* an assertion of the code failed, or a lane was overwritten

vars == <<variant, mgr, job, asked, ret, fault>>

GroupOf(i) == i \div variant.group
Groups     == {GroupOf(i) : i \in Lanes}

Message(j, n) == [i \in 1 .. n |-> <<j, i>>]

Finished(m)   == {i \in Lanes : m.lens[i] = 0 /\ m.job_in_lane[i] # NULL}
Unfinished(m) == {i \in Lanes : m.lens[i] # 0 /\ m.job_in_lane[i] # NULL}
Free(m)       == {i \in Lanes : m.lens[i] = 0 /\ m.job_in_lane[i] = NULL}
Lowest(K)     == CHOOSE i \in K : \A k \in K : i <= k

-----------------------------------------------------------------------------
(* What a handler leaves behind: the manager, the jobs, the job returned,  *)
(* and whether it failed an assertion.                                     *)
Outcome(m, jobs, r, f) == [mgr |-> m, job |-> jobs, ret |-> r, fault |-> f]

(* mb_mgr_init: the lowest lane of each group on top of its stack, lengths *)
(* zero, no jobs.                                                          *)
InitManager(v) ==
    LET first(g) == g * v.group
        size(g)  == IF first(g) + v.group <= NLANES THEN v.group ELSE NLANES - first(g)
    IN  [ unused_lanes    |-> [g \in {i \div v.group : i \in Lanes} |->
                                  [k \in 1 .. size(g) |-> first(g) + k - 1]],
          num_lanes_inuse |-> 0,
          lens            |-> [i \in Lanes |-> 0],
          job_in_lane     |-> [i \in Lanes |-> NULL] ]

insert_job_FirstGroup(m, jobs, j) ==        \* fault: always the stack of group 0
    LET lane == Head(m.unused_lanes[0])
    IN  IF m.unused_lanes[0] = << >> THEN Outcome(m, jobs, NULL, TRUE)
        ELSE Outcome([ unused_lanes    |-> [m.unused_lanes EXCEPT ![0] = Tail(@)],
                       num_lanes_inuse |-> m.num_lanes_inuse + 1,
                       lens            |-> [m.lens EXCEPT ![lane] = jobs[j].len % LEN_MOD],
                       job_in_lane     |-> [m.job_in_lane EXCEPT ![lane] = j] ],
                     jobs, NULL, FALSE)

(* Pop the stack of the group in which the first free lane is.  status is  *)
(* not written.                                                            *)
insert_job(m, jobs, j) ==
    LET grp  == IF Free(m) = {} THEN 0 ELSE GroupOf(Lowest(Free(m)))
        lane == Head(m.unused_lanes[grp])
    IN  IF m.unused_lanes[grp] = << >> THEN Outcome(m, jobs, NULL, TRUE)
        ELSE Outcome([ unused_lanes    |-> [m.unused_lanes EXCEPT ![grp] = Tail(@)],
                       num_lanes_inuse |-> m.num_lanes_inuse + 1,
                       lens            |-> [m.lens EXCEPT ![lane] = jobs[j].len % LEN_MOD],
                       job_in_lane     |-> [m.job_in_lane EXCEPT ![lane] = j] ],
                     jobs, NULL, m.job_in_lane[lane] # NULL)

JobDone(jb) ==
    [buffer |-> jb.buffer, len |-> jb.len, digest |-> jb.digest, status |-> "COMPLETED"]

free_lane_KeepsJob(m, jobs) ==      \* fault: job_in_lane not cleared
    LET i == Lowest(Finished(m))
        j == m.job_in_lane[i]
    IN  IF Finished(m) = {} THEN Outcome(m, jobs, NULL, FALSE)
        ELSE Outcome([ m EXCEPT !.unused_lanes = [@ EXCEPT ![GroupOf(i)] = <<i>> \o @],
                                !.num_lanes_inuse = @ - 1 ],
                     [jobs EXCEPT ![j] = JobDone(@)], j, FALSE)

free_lane_WrongGroup(m, jobs) ==    \* fault: pushed on the first stack
    LET i == Lowest(Finished(m))
        j == m.job_in_lane[i]
    IN  IF Finished(m) = {} THEN Outcome(m, jobs, NULL, FALSE)
        ELSE Outcome([ m EXCEPT !.unused_lanes = [@ EXCEPT ![0] = <<i>> \o @],
                                !.num_lanes_inuse = @ - 1,
                                !.job_in_lane = [@ EXCEPT ![i] = NULL] ],
                     [jobs EXCEPT ![j] = JobDone(@)], j, FALSE)

(* Hand back the first job that has no blocks left.                        *)
free_lane(m, jobs) ==
    LET i == Lowest(Finished(m))
        j == m.job_in_lane[i]
    IN  IF Finished(m) = {} THEN Outcome(m, jobs, NULL, FALSE)
        ELSE Outcome([ unused_lanes    |-> [m.unused_lanes EXCEPT ![GroupOf(i)] = <<i>> \o @],
                       num_lanes_inuse |-> m.num_lanes_inuse - 1,
                       lens            |-> m.lens,
                       job_in_lane     |-> [m.job_in_lane EXCEPT ![i] = NULL] ],
                     [jobs EXCEPT ![j] = JobDone(@)], j, FALSE)

(* The kernels take the block count as a signed int and do nothing with a  *)
(* count that is not positive.  (md5_mb_sve, for four jobs and more, would *)
(* not stop: an instance where lengths reach LEN_MOD \div 2 has fewer.)     *)
Absorbed(jb, n) ==
    IF n < LEN_MOD \div 2
    THEN jb.digest \o [i \in 1 .. n |-> <<jb.buffer.of, jb.buffer.at + i>>]
    ELSE jb.digest

Signed(n) == IF n < LEN_MOD \div 2 THEN n ELSE n - LEN_MOD

(* The job after n blocks: its digest and its pointer.                     *)
JobRun_KeepsPointer(jb, n) ==       \* fault: job->buffer not advanced
    [buffer |-> jb.buffer, len |-> jb.len, digest |-> Absorbed(jb, n), status |-> jb.status]

JobRun(jb, n) ==
    [ buffer |-> [of |-> jb.buffer.of, at |-> jb.buffer.at + Signed(n)],
      len    |-> jb.len,
      digest |-> Absorbed(jb, n),
      status |-> jb.status ]

(* Run n blocks of the jobs in the lanes K and move on.                    *)
RunLanes(m, jobs, K, n) ==
    LET running == {m.job_in_lane[i] : i \in K}
    IN  Outcome([ unused_lanes    |-> m.unused_lanes,
                  num_lanes_inuse |-> m.num_lanes_inuse,
                  lens            |-> [i \in Lanes |-> IF i \in K THEN m.lens[i] - n
                                                       ELSE m.lens[i]],
                  job_in_lane     |-> m.job_in_lane ],
                [j \in Jobs |-> IF j \in running THEN JobRun(jobs[j], n) ELSE jobs[j]],
                NULL, FALSE)

do_jobs_AlwaysFirst(m, jobs) ==     \* fault: the first unfinished job alone in every manager
    IF Unfinished(m) = {} THEN Outcome(m, jobs, NULL, FALSE)
    ELSE RunLanes(m, jobs, {Lowest(Unfinished(m))}, m.lens[Lowest(Unfinished(m))])

(* The shortest length of all jobs that are not finished, on all of them.  *)
do_jobs(m, jobs) ==
    LET K == Unfinished(m)
        n == Lowest({m.lens[i] : i \in K})
        i == Lowest(K)
    IN  IF K = {} THEN Outcome(m, jobs, NULL, FALSE)
        ELSE IF variant.whole \/ m.num_lanes_inuse = NLANES THEN RunLanes(m, jobs, K, n)
        ELSE RunLanes(m, jobs, {i}, m.lens[i])

-----------------------------------------------------------------------------
Prepared(n, j) == [ buffer |-> [of |-> j, at |-> 0],
                    len    |-> n,
                    digest |-> << >>,
                    status |-> "UNKNOWN" ]

Init ==
    /\ variant \in Variants
    /\ mgr = InitManager(variant)
    /\ job = [j \in Jobs |-> Prepared(1, j)]
    /\ asked = [j \in Jobs |-> 0]
    /\ ret = NULL
    /\ fault = FALSE

InFlight == {mgr.job_in_lane[i] : i \in Lanes} \ {NULL}

Returns(s) ==
    /\ mgr' = s.mgr
    /\ job' = s.job
    /\ ret' = s.ret
    /\ fault' = s.fault
    /\ UNCHANGED variant

(* A lone value bound by \E is one TLC evaluates once.                     *)
RunAndReturn(m, jobs, failed) ==
    \E run \in {do_jobs(m, jobs)} :
    \E last \in {free_lane(run.mgr, run.job)} :
        Returns(Outcome(last.mgr, last.job, last.ret, failed))

(* The caller fills in a job and calls <hash>_mb_mgr_submit_<arch>.  When  *)
(* the lanes are full do_jobs must find work: the assertion of the code.   *)
Submit(j, n) ==
    /\ ~fault
    /\ j \notin InFlight
    /\ asked' = [asked EXCEPT ![j] = n]
    /\ \E s \in {insert_job(mgr, [job EXCEPT ![j] = Prepared(n, j)], j)} :
       \E first \in {free_lane(s.mgr, s.job)} :
          \/ s.fault /\ Returns(s)
          \/ ~s.fault /\ first.ret # NULL /\ Returns(first)
          \/ /\ ~s.fault /\ first.ret = NULL
             /\ s.mgr.num_lanes_inuse < variant.fill
             /\ Returns(s)
          \/ /\ ~s.fault /\ first.ret = NULL
             /\ s.mgr.num_lanes_inuse >= variant.fill
             /\ RunAndReturn(s.mgr, s.job, Unfinished(s.mgr) = {})

Flush_NoSecondLook ==            \* fault: nothing handed back after the run
    /\ ~fault
    /\ UNCHANGED asked
    /\ \E first \in {free_lane(mgr, job)} :
          Returns(IF first.ret # NULL THEN first ELSE do_jobs(mgr, job))

(* <hash>_mb_mgr_flush_<arch>                                              *)
Flush ==
    /\ ~fault
    /\ UNCHANGED asked
    /\ \E first \in {free_lane(mgr, job)} :
          IF first.ret # NULL THEN Returns(first) ELSE RunAndReturn(mgr, job, FALSE)

Next ==
    \/ \E j \in Jobs, n \in 1 .. MaxBlocks : Submit(j, n)
    \/ Flush

Spec == Init /\ [][Next]_vars

(* A caller that does not stop calling.                                    *)
FairSpec == Spec /\ WF_vars(Next)

-----------------------------------------------------------------------------
TypeOK ==
    /\ variant \in Variants
    /\ mgr.num_lanes_inuse \in 0 .. NLANES
    /\ mgr.lens \in [Lanes -> 0 .. LEN_MOD - 1]
    /\ mgr.job_in_lane \in [Lanes -> Jobs \cup {NULL}]
    /\ mgr.unused_lanes \in [Groups -> Seq(Lanes)]
    /\ \A j \in Jobs : job[j].digest \in Seq(Block)
    /\ asked \in [Jobs -> 0 .. MaxBlocks]
    /\ ret \in Jobs \cup {NULL}
    /\ fault \in BOOLEAN

(* Submit always finds a free lane on the stack it looks at and always     *)
(* finds work when the lanes are full: the assertions of the code hold,    *)
(* and no job in a lane is overwritten.                                    *)
NoFault == ~fault

(* Each stack holds exactly the free lanes of its group, each once; the    *)
(* counter is the number of the others; a free lane has no length left     *)
(* over, else insert_job would not see it as free.                         *)
LaneAccounting ==
    LET OnStack(i) == {k \in 1 .. Len(mgr.unused_lanes[GroupOf(i)]) :
                            mgr.unused_lanes[GroupOf(i)][k] = i}
    IN  /\ \A g \in Groups : \A k \in 1 .. Len(mgr.unused_lanes[g]) :
                GroupOf(mgr.unused_lanes[g][k]) = g
        /\ \A i \in Lanes : Cardinality(OnStack(i)) =
                IF mgr.job_in_lane[i] = NULL THEN 1 ELSE 0
        /\ mgr.num_lanes_inuse = Cardinality({i \in Lanes : mgr.job_in_lane[i] # NULL})
        /\ mgr.num_lanes_inuse < variant.fill
        /\ \A i \in Lanes : mgr.job_in_lane[i] = NULL => mgr.lens[i] = 0

(* A job handed back has the digest of its own message, however many calls *)
(* it waited in its lane after it was finished, and whatever ran beside it.*)
CompletedDigest ==
    \A j \in Jobs : job[j].status = "COMPLETED" =>
        job[j].digest = Message(j, asked[j])

(* The lanes implement the pool: a call hands back one job that was in it, *)
(* submit answers NULL only while there is room, flush only when nothing   *)
(* is in flight.                                                           *)
Pool == INSTANCE JobPool WITH active <- InFlight, returned <- ret, FILL <- NLANES, EAGER <- TRUE
PoolSpec == Pool!Spec

(* In the managers that serve all lanes in a run, every job accepted is    *)
(* handed back as long as the caller keeps calling: finished jobs leave    *)
(* before another run.  The ASIMD managers of SM3 and MD5 let a caller who *)
(* keeps refilling a low lane starve a higher one, as the flush of MBLanes *)
(* with a threshold above one does.                                        *)
EveryJobFinishes ==
    \A j \in Jobs : (variant.whole /\ j \in InFlight) ~> (j \notin InFlight)
=============================================================================
