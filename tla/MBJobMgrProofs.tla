--------------------------- MODULE MBJobMgrProofs ---------------------------
(***************************************************************************)
(* The safety invariants of the job manager, for any number of lanes, any  *)
(* fill level, any jobs and any block counts.  What a call does to the     *)
(* lanes is in MBLanesProofs; here it is said of the jobs of this caller,  *)
(* whose goals are the digests of their own messages.                      *)
(***************************************************************************)
EXTENDS MBJobMgr, MBLanesProofs

(* Every job is on its way to the digest of its own message.               *)
Targets(jobs) == [j \in Jobs |-> GoalOf(Memory, Prepared(jobs[j].len, j))]

Digests(jobs) ==
    \A j \in Jobs : jobs[j].status = "COMPLETED" =>
        jobs[j].result_digest = SubSeq(Message(j), 1, jobs[j].len * BLOCK_SIZE)

Lengths(jobs) == \A j \in Jobs : jobs[j].len \in 1 .. MaxBlocks

IInv ==
    /\ Sane(mgr, Memory, job, Targets(job))
    /\ Lengths(job)
    /\ Digests(job)
    /\ mgr.num_lanes_inuse < FILL
    /\ ret \in Jobs \cup {NULL}
    /\ fault = FALSE

-----------------------------------------------------------------------------
(* The message of a buffer, and the memory.                                *)
LEMMA MessageIsSeq ==
  ASSUME NEW b \in Buffers
  PROVE  /\ Message(b) \in Seq(Byte)
         /\ Len(Message(b)) = MaxBlocks * BLOCK_SIZE
         /\ Memory[b] = Message(b)
<1>1. MaxBlocks * BLOCK_SIZE \in Nat
  BY LaneAssumption, LengthAssumption
<1>2. Message(b) \in [1 .. MaxBlocks * BLOCK_SIZE -> Byte]
  BY MemoryAssumption DEF Message
<1>3. QED
  <2> DEFINE n == MaxBlocks * BLOCK_SIZE
  <2> HIDE DEF n
  <2>1. Message(b) \in [1 .. n -> Byte] /\ n \in Nat
    BY <1>1, <1>2 DEF n
  <2>2. Message(b) \in Seq(Byte)
    BY <2>1, SeqDef
  <2>3. Len(Message(b)) = n
    BY <2>1, <2>2, LenProperties
  <2>4. QED
    BY <2>2, <2>3 DEF n, Memory

LEMMA MemoryIs ==
  Memory \in [Buffers -> Seq(Byte)]
BY MessageIsSeq DEF Memory

(* A job as the caller prepares it may be submitted, and is on its way to  *)
(* the digest of its message.                                              *)
LEMMA PreparedIs ==
  ASSUME NEW j \in Jobs, NEW n \in 1 .. MaxBlocks
  PROVE  /\ Prepared(n, j) \in Job
         /\ Legal(Memory, Prepared(n, j))
         /\ GoalOf(Memory, Prepared(n, j)) \in Goal
         /\ GoalOf(Memory, Prepared(n, j)).buf = BufferOf(j)
         /\ GoalOf(Memory, Prepared(n, j)).end = n * BLOCK_SIZE
         /\ GoalOf(Memory, Prepared(n, j)).text = SubSeq(Message(j), 1, n * BLOCK_SIZE)
<1> DEFINE x == Prepared(n, j)
           s == Message(j)
           k == n * BLOCK_SIZE
           N == MaxBlocks * BLOCK_SIZE
<1>1. /\ j \in Buffers /\ n \in Nat /\ n <= MaxBlocks /\ MaxBlocks \in Nat
      /\ BLOCK_SIZE \in Nat
  BY MemoryAssumption, LengthAssumption, LaneAssumption
<1>2. /\ x.buffer = [buf |-> j, off |-> 0] /\ x.len = n /\ x.status = "UNKNOWN"
      /\ x.result_digest = << >>
      /\ x \in Job
  BY <1>1, EmptySeq DEF Prepared, BufferOf, Job, Pointer, JobSts
<1>3. s \in Seq(Byte) /\ Len(s) = N /\ Memory[j] = s
  BY <1>1, MessageIsSeq
<1>4. k \in Nat /\ N \in Nat /\ k <= N
  <2>1. PICK d \in Nat : MaxBlocks = n + d
    <3>1. MaxBlocks - n \in Nat /\ MaxBlocks = n + (MaxBlocks - n)
      BY <1>1
    <3>2. QED
      BY <3>1
  <2>2. n * BLOCK_SIZE \in Nat /\ d * BLOCK_SIZE \in Nat
    BY <1>1, Product
  <2>3. MaxBlocks * BLOCK_SIZE = n * BLOCK_SIZE + d * BLOCK_SIZE
    BY <1>1, <2>1
  <2>4. QED
    BY <2>2, <2>3
<1>5. Fits(n)
  BY <1>1, LengthAssumption, LaneAssumption DEF Fits
<1> HIDE DEF x, k, s, N
<1>6. Legal(Memory, x)
  BY <1>2, <1>3, <1>4, <1>5 DEF Legal, k
<1>7. GoalOf(Memory, x).buf = j /\ GoalOf(Memory, x).end = 0 + k
  BY <1>2 DEF GoalOf, k
<1>8. GoalOf(Memory, x).text = SubSeq(s, 1, k)
  <2>1. BlocksAt(Memory, x.buffer, x.len) = SubSeq(s, 0 + 1, 0 + k)
    <3>1. x.buffer.buf = j /\ x.buffer.off = 0 /\ x.len * BLOCK_SIZE = k
      BY <1>2 DEF k
    <3>2. BlocksAt(Memory, x.buffer, x.len)
            = SubSeq(Memory[x.buffer.buf], x.buffer.off + 1, x.buffer.off + x.len * BLOCK_SIZE)
      BY DEF BlocksAt
    <3>3. QED
      BY <1>3, <3>1, <3>2
  <2>2. 0 + 1 = 1 /\ 0 + k = k
    BY <1>4
  <2>3. BlocksAt(Memory, x.buffer, x.len) = SubSeq(s, 1, k)
    BY <2>1, <2>2
  <2>4. SubSeq(s, 1, k) \in Seq(Byte)
    <3>1. \A i \in 1 .. k : s[i] \in Byte
      BY <1>3, <1>4, ElementOfSeq
    <3>2. QED
      BY <1>4, <3>1, SubSeqProperties
  <2>5. << >> \o SubSeq(s, 1, k) = SubSeq(s, 1, k)
    BY <2>4, ConcatEmptySeq
  <2>6. GoalOf(Memory, x).text = Ahead(Memory, x)
    BY DEF GoalOf
  <2>7. QED
    BY <1>2, <2>3, <2>5, <2>6 DEF Ahead
<1>9. GoalOf(Memory, x) \in Goal
  BY <1>2, <1>6, MemoryIs, GoalIsGoal
<1>10. QED
  BY <1>2, <1>4, <1>6, <1>7, <1>8, <1>9 DEF x, s, k, BufferOf

LEMMA TargetsAre ==
  ASSUME NEW jobs, Lengths(jobs)
  PROVE  /\ Targets(jobs) \in [Jobs -> Goal]
         /\ \A j \in Jobs :
                /\ Targets(jobs)[j].buf = BufferOf(j)
                /\ Targets(jobs)[j].end = jobs[j].len * BLOCK_SIZE
                /\ Targets(jobs)[j].text = SubSeq(Message(j), 1, jobs[j].len * BLOCK_SIZE)
<1>1. ASSUME NEW j \in Jobs
      PROVE  /\ Targets(jobs)[j] = GoalOf(Memory, Prepared(jobs[j].len, j))
             /\ jobs[j].len \in 1 .. MaxBlocks
  BY DEF Targets, Lengths
<1>2. QED
  BY <1>1, PreparedIs DEF Targets

-----------------------------------------------------------------------------
(* What the invariant says is what the properties say.                     *)
LEMMA InvariantImplies ==
  ASSUME IInv
  PROVE  TypeOK /\ NoFault /\ LaneAccounting /\ JobsInLanes /\ LaneProgress /\ CompletedDigest
<1> USE DEF IInv, Sane
<1>1. TypeOK
  BY DEF TypeOK
<1>2. NoFault
  BY DEF NoFault
<1>3. LaneAccounting
  BY DEF LaneAccounting, Stack, NeverUsed
<1>4. JobsInLanes
  BY DEF JobsInLanes, Owners, BusyLanes, Processing, Manager
<1>5. LaneProgress
  <2> SUFFICES ASSUME NEW l \in BusyLanes(mgr)
               PROVE  LET j == mgr.job_in_lane[l]
                          p == mgr.data_ptr[l]
                          w == mgr.lens[l]
                      IN  /\ w.tag = l
                          /\ p.buf = BufferOf(j)
                          /\ p.off + w.blocks * BLOCK_SIZE = job[j].len * BLOCK_SIZE
                          /\ mgr.digest[l] = SubSeq(Message(j), 1, p.off)
    BY DEF LaneProgress
  <2> DEFINE j   == mgr.job_in_lane[l]
             p   == mgr.data_ptr[l]
             w   == mgr.lens[l]
             g   == Targets(job)[j]
             s   == Message(j)
             off == p.off
             end == job[j].len * BLOCK_SIZE
  <2>1. /\ l \in Lanes /\ j \in Jobs /\ p \in Pointer /\ w \in PackedLen
        /\ mgr.digest[l] \in Seq(Byte)
        /\ Midway(mgr, Memory, l, g)
    BY BusyLaneIs
  <2>2. g.buf = BufferOf(j) /\ g.end = end /\ g.text = SubSeq(s, 1, end)
    BY <2>1, TargetsAre
  <2>3. /\ s \in Seq(Byte)
        /\ Memory[BufferOf(j)] = s
    BY <2>1, MessageIsSeq, MemoryAssumption DEF BufferOf
  <2>4. /\ w.tag = l
        /\ p.buf = BufferOf(j)
        /\ off + w.blocks * BLOCK_SIZE = end
        /\ end <= Len(s)
        /\ mgr.digest[l] \o SubSeq(s, off + 1, end) = SubSeq(s, 1, end)
    BY <2>1, <2>2, <2>3 DEF Midway
  <2>5. off \in Nat /\ end \in Nat /\ off <= end /\ Len(s) \in Nat
    <3>1. w.blocks * BLOCK_SIZE \in Nat
      BY <2>1, LaneAssumption, Product DEF PackedLen
    <3>2. off \in Nat
      BY <2>1 DEF Pointer
    <3>3. Len(s) \in Nat
      BY <2>3, LenProperties
    <3> DEFINE k == w.blocks * BLOCK_SIZE
    <3>4. k \in Nat /\ off + k = end
      BY <2>4, <3>1
    <3> HIDE DEF k, off, end, s
    <3>5. QED
      BY <3>2, <3>3, <3>4
  <2> HIDE DEF j, p, w, g, s, off, end
  <2>6. SubSeq(s, 1, off) \o SubSeq(s, off + 1, end) = SubSeq(s, 1, end)
    <3>1. 1 \in 1 .. Len(s) + 1 /\ off \in 1 - 1 .. Len(s) /\ end \in off .. Len(s)
      BY <2>4, <2>5
    <3>2. QED
      BY <2>3, <3>1, ConcatAdjacentSubSeq
  <2>7. SubSeq(s, 1, off) \in Seq(Byte) /\ SubSeq(s, off + 1, end) \in Seq(Byte)
    <3>1. /\ \A i \in 1 .. off : s[i] \in Byte
          /\ \A i \in off + 1 .. end : s[i] \in Byte
      BY <2>3, <2>4, <2>5, ElementOfSeq
    <3>2. SubSeq(s, 1, off) \in Seq(Byte)
      BY <2>5, <3>1, SubSeqProperties
    <3>3. SubSeq(s, off + 1, end) \in Seq(Byte)
      BY <2>5, <3>1, SubSeqProperties
    <3>4. QED
      BY <3>2, <3>3
  <2>8. mgr.digest[l] = SubSeq(s, 1, off)
    <3> DEFINE d == mgr.digest[l]
               u == SubSeq(s, 1, off)
               v == SubSeq(s, off + 1, end)
    <3>1. d \in Seq(Byte) /\ u \in Seq(Byte) /\ v \in Seq(Byte) /\ d \o v = u \o v
      BY <2>1, <2>4, <2>6, <2>7
    <3> HIDE DEF d, u, v
    <3>2. d = u
      BY <3>1, ConcatSimplifications
    <3>3. QED
      BY <3>2 DEF d, u
  <2>9. QED
    BY <2>4, <2>8 DEF j, p, w, s, off, end
<1>6. CompletedDigest
  BY DEF CompletedDigest, Digests
<1>7. QED
  BY <1>1, <1>2, <1>3, <1>4, <1>5, <1>6

-----------------------------------------------------------------------------
(* A manager that mb_mgr_init has set up is sane, with no job in a lane.   *)
LEMMA InitIInv ==
  ASSUME Init
  PROVE  IInv
<1>1. 1 \in 1 .. MaxBlocks
  BY LengthAssumption
<1>2. /\ job \in [Jobs -> Job]
      /\ \A j \in Jobs : job[j].len = 1 /\ job[j].status = "UNKNOWN"
  BY <1>1, PreparedIs DEF Init, Prepared
<1>3. Lengths(job) /\ Digests(job) /\ InPool(job) = {}
  BY <1>1, <1>2 DEF Lengths, Digests, InPool
<1>4. /\ Sane(mgr, Memory, job, Targets(job))
      /\ mgr.num_lanes_inuse < FILL
  BY <1>2, <1>3, MemoryIs, TargetsAre, InitSane DEF Init
<1>5. QED
  BY <1>3, <1>4 DEF IInv, Init

(* The pool counts its jobs as the manager's specification does.           *)
LEMMA PoolCounts ==
  ASSUME NEW S
  PROVE  Pool!Cardinality(S) = Cardinality(S)
BY DEF Pool!Cardinality, Cardinality

(* The same lengths make the same goals.                                   *)
LEMMA SameTargets ==
  ASSUME NEW jobs, NEW after, \A j \in Jobs : after[j].len = jobs[j].len
  PROVE  Targets(after) = Targets(jobs)
BY DEF Targets

(* Submit loads a lane and compresses only when the lanes are full: as the *)
(* pool's Submit.                                                          *)
LEMMA SubmitStep ==
  ASSUME IInv, NEW j \in Jobs, NEW n \in 1 .. MaxBlocks, Submit(j, n)
  PROVE  IInv' /\ Pool!Submit(j)
<1> DEFINE given  == [job EXCEPT ![j] = Prepared(n, j)]
           marked == Marked(given, j)
           goal   == Targets(given)
           r      == SubmitJob(mgr, Memory, given, j)
<1>1. /\ Sane(mgr, Memory, job, Targets(job)) /\ Lengths(job) /\ Digests(job)
      /\ mgr.num_lanes_inuse < FILL
      /\ job \in [Jobs -> Job]
      /\ job[j].status # "BEING_PROCESSED"
      /\ fault = FALSE
  BY DEF IInv, Sane, Submit
<1>2. /\ given \in [Jobs -> Job]
      /\ given[j] = Prepared(n, j)
      /\ \A i \in Jobs \ {j} : given[i] = job[i]
      /\ given[j].status # "BEING_PROCESSED"
      /\ given[j].len = n
  BY <1>1, PreparedIs DEF Prepared
<1>3. mgr' = r.mgr /\ job' = r.job /\ ret' = r.ret /\ fault' = (fault \/ r.fault)
  BY DEF Submit, Returns
<1> HIDE DEF given, r
<1>4. InPool(given) = InPool(job) /\ Lengths(given)
  BY <1>1, <1>2 DEF InPool, Lengths
<1>5. /\ goal \in [Jobs -> Goal]
      /\ Targets(job) \in [Jobs -> Goal]
      /\ goal[j] = GoalOf(Memory, given[j])
      /\ \A i \in Jobs \ {j} : goal[i] = Targets(job)[i]
  BY <1>1, <1>2, <1>4, TargetsAre DEF Targets
<1>6. \A i \in Jobs : goal[i].text = SubSeq(Message(i), 1, given[i].len * BLOCK_SIZE)
  BY <1>4, TargetsAre
<1> HIDE DEF goal
<1>7. Sane(mgr, Memory, given, Targets(job))
  BY <1>1, <1>2, <1>4, <1>5, MemoryIs, SaneElsewhere
<1>8. Aimed(Targets(job), goal, j, GoalOf(Memory, given[j]))
  BY <1>5 DEF Aimed
<1>9. Submitted(mgr, Memory, given, goal, j, r)
  BY <1>1, <1>2, <1>7, <1>8, PreparedIs, SubmitSane DEF r
<1>10. /\ Sane(r.mgr, Memory, r.job, goal)
       /\ r.mgr.num_lanes_inuse < FILL
       /\ r.fault = FALSE
       /\ r.job \in [Jobs -> Job]
  BY <1>9 DEF Submitted, Sane
<1>11. /\ marked \in [Jobs -> Job]
       /\ InPool(marked) = InPool(job) \cup {j}
       /\ \A i \in Jobs \ {j} : marked[i] = given[i]
       /\ marked[j].len = given[j].len
       /\ marked[j].status = "BEING_PROCESSED"
  BY <1>2, <1>4, MarkedIs
<1> HIDE DEF marked
<1>12. CASE r.ret = NULL /\ r.job = marked /\ mgr.num_lanes_inuse + 1 < FILL
  <2>1. /\ \A i \in Jobs : r.job[i].len = given[i].len
        /\ \A i \in Jobs \ {j} : r.job[i] = job[i]
        /\ r.job[j].status = "BEING_PROCESSED"
    BY <1>2, <1>11, <1>12
  <2>2. Digests(r.job)
    BY <1>1, <2>1 DEF Digests
  <2>3. Lengths(r.job) /\ Targets(r.job) = goal
    BY <1>4, <2>1, SameTargets DEF Lengths, goal
  <2>4. IInv'
    BY <1>1, <1>3, <1>10, <1>12, <2>2, <2>3 DEF IInv
  <2>5. Pool!Submit(j)
    <3>1. InPool(job') = InPool(job) \cup {j}
      BY <1>3, <1>11, <1>12
    <3>2. Cardinality(InPool(job)) = mgr.num_lanes_inuse
      BY <1>1, PoolSize
    <3>3. Processing = InPool(job) /\ Processing' = InPool(job')
      BY DEF Processing, InPool
    <3>4. j \notin Processing /\ ret' = NULL
      BY <1>1, <1>3, <1>12 DEF Processing
    <3>5. QED
      BY <1>12, <3>1, <3>2, <3>3, <3>4, PoolCounts DEF Pool!Submit, Pool!Keep
  <2>6. QED
    BY <2>4, <2>5
<1>13. CASE /\ r.ret \in Jobs
            /\ Leaves(r.ret, marked, r.job, goal)
            /\ mgr.num_lanes_inuse + 1 >= FILL
  <2>1. /\ InPool(r.job) = InPool(marked) \ {r.ret}
        /\ r.ret \in InPool(marked)
        /\ \A i \in Jobs : r.job[i].len = marked[i].len
        /\ \A i \in Jobs \ {r.ret} : r.job[i] = marked[i]
        /\ r.job[r.ret].result_digest = goal[r.ret].text
    <3>1. goal \in [Jobs -> Goal]
      BY <1>5
    <3>2. /\ InPool(r.job) = InPool(marked) \ {r.ret}
          /\ \A i \in Jobs : r.job[i].len = marked[i].len
      BY <1>10, <1>11, <1>13, <3>1, LeavesIs
    <3>3. QED
      BY <1>13, <3>2 DEF Leaves, JobWith
  <2>2. \A i \in Jobs : r.job[i].len = given[i].len
    BY <1>11, <2>1
  <2>3. Lengths(r.job) /\ Targets(r.job) = goal
    BY <1>4, <2>2, SameTargets DEF Lengths, goal
  <2>4. Digests(r.job)
    <3> SUFFICES ASSUME NEW i \in Jobs, r.job[i].status = "COMPLETED"
                 PROVE  r.job[i].result_digest
                            = SubSeq(Message(i), 1, r.job[i].len * BLOCK_SIZE)
      BY DEF Digests
    <3>1. CASE i = r.ret
      BY <1>6, <2>1, <2>2, <3>1
    <3>2. CASE i # r.ret
      <4>1. r.job[i] = job[i]
        BY <1>2, <1>11, <2>1, <3>2
      <4>2. QED
        BY <1>1, <4>1 DEF Digests
    <3>3. QED
      BY <3>1, <3>2
  <2>5. IInv'
    BY <1>1, <1>3, <1>10, <1>13, <2>3, <2>4 DEF IInv
  <2>6. Pool!Submit(j)
    <3>1. InPool(job') = (InPool(job) \cup {j}) \ {r.ret} /\ r.ret \in InPool(job) \cup {j}
      BY <1>3, <1>11, <2>1
    <3>2. Cardinality(InPool(job)) = mgr.num_lanes_inuse
      BY <1>1, PoolSize
    <3>3. Processing = InPool(job) /\ Processing' = InPool(job')
      BY DEF Processing, InPool
    <3>4. j \notin Processing /\ ret' \in Jobs /\ ret' = r.ret
      BY <1>1, <1>3, <1>13 DEF Processing
    <3>5. QED
      BY <1>13, <3>1, <3>2, <3>3, <3>4, PoolCounts DEF Pool!Submit, Pool!HandBack
  <2>7. QED
    BY <2>5, <2>6
<1>14. QED
  BY <1>9, <1>12, <1>13 DEF Submitted, marked

(* Flush hands back a job whenever one is in a lane: as the pool's Flush.  *)
LEMMA FlushStep ==
  ASSUME IInv, Flush
  PROVE  IInv' /\ Pool!Flush
<1> DEFINE r    == FlushJob(mgr, Memory, job)
           goal == Targets(job)
<1>1. /\ Sane(mgr, Memory, job, goal) /\ Lengths(job) /\ Digests(job)
      /\ mgr.num_lanes_inuse < FILL
      /\ job \in [Jobs -> Job]
      /\ goal \in [Jobs -> Goal]
      /\ fault = FALSE
  BY DEF IInv, Sane
<1>2. mgr' = r.mgr /\ job' = r.job /\ ret' = r.ret /\ fault' = (fault \/ r.fault)
  BY DEF Flush, Returns
<1>3. Flushed(mgr, Memory, job, goal, r)
  BY <1>1, FlushSane
<1>4. \A i \in Jobs : goal[i].text = SubSeq(Message(i), 1, job[i].len * BLOCK_SIZE)
  BY <1>1, TargetsAre
<1> HIDE DEF r, goal
<1>5. /\ Sane(r.mgr, Memory, r.job, goal)
      /\ r.mgr.num_lanes_inuse < FILL
      /\ r.fault = FALSE
      /\ r.job \in [Jobs -> Job]
  BY <1>3 DEF Flushed, Sane
<1>6. /\ IsFiniteSet(Processing) /\ Cardinality(Processing) = mgr.num_lanes_inuse
      /\ Processing = InPool(job) /\ Processing' = InPool(job')
  BY <1>1, PoolSize DEF Processing, InPool
<1>7. CASE r.ret = NULL /\ r.job = job /\ mgr.num_lanes_inuse = 0
  <2>1. IInv'
    BY <1>1, <1>2, <1>5, <1>7 DEF IInv, goal
  <2>2. Processing = {}
    BY <1>6, <1>7, FS_EmptySet
  <2>3. Processing' = Processing /\ ret' = NULL
    BY <1>2, <1>6, <1>7
  <2>4. QED
    BY <2>1, <2>2, <2>3 DEF Pool!Flush, Pool!Keep
<1>8. CASE r.ret \in Jobs /\ Leaves(r.ret, job, r.job, goal)
  <2>1. /\ InPool(r.job) = InPool(job) \ {r.ret}
        /\ \A i \in Jobs : r.job[i].len = job[i].len
    BY <1>1, <1>5, <1>8, LeavesIs
  <2>2. /\ r.ret \in InPool(job)
        /\ \A i \in Jobs \ {r.ret} : r.job[i] = job[i]
        /\ r.job[r.ret].result_digest = goal[r.ret].text
    BY <1>8 DEF Leaves, JobWith
  <2>3. Lengths(r.job) /\ Targets(r.job) = goal
    BY <1>1, <2>1, SameTargets DEF Lengths, goal
  <2>4. Digests(r.job)
    <3> SUFFICES ASSUME NEW i \in Jobs, r.job[i].status = "COMPLETED"
                 PROVE  r.job[i].result_digest
                            = SubSeq(Message(i), 1, r.job[i].len * BLOCK_SIZE)
      BY DEF Digests
    <3>1. CASE i = r.ret
      BY <1>4, <2>1, <2>2, <3>1
    <3>2. CASE i # r.ret
      BY <1>1, <2>2, <3>2 DEF Digests
    <3>3. QED
      BY <3>1, <3>2
  <2>5. IInv'
    BY <1>1, <1>2, <1>5, <1>8, <2>3, <2>4 DEF IInv
  <2>6. ret' \in Jobs /\ ret' \in Processing /\ Processing' = Processing \ {ret'}
    BY <1>2, <1>6, <1>8, <2>1, <2>2
  <2>7. QED
    BY <2>5, <2>6 DEF Pool!Flush, Pool!HandBack
<1>9. QED
  BY <1>3, <1>7, <1>8 DEF Flushed

(* Every call keeps the invariant.                                         *)
LEMMA NextIInv ==
  ASSUME IInv, [Next]_vars
  PROVE  IInv'
<1>1. CASE SubmitAny
  BY <1>1, SubmitStep DEF SubmitAny
<1>2. CASE Flush
  BY <1>2, FlushStep
<1>3. CASE UNCHANGED vars
  BY <1>3 DEF vars, IInv
<1>4. QED
  BY <1>1, <1>2, <1>3 DEF Next

(* The inductive invariant holds in every reachable state.                 *)
LEMMA Invariance ==
  Spec => []IInv
<1>1. Init => IInv
  BY InitIInv
<1>2. IInv /\ [Next]_vars => IInv'
  BY NextIInv
<1>3. QED
  BY <1>1, <1>2, PTL DEF Spec

-----------------------------------------------------------------------------
(* The structures of the manager and of the jobs keep their types through  *)
(* every sequence of submit and flush calls.                               *)
THEOREM JobTypesHold ==
  Spec => []TypeOK
<1>1. IInv => TypeOK
  BY InvariantImplies
<1>2. QED
  BY <1>1, Invariance, PTL

(* No submit or flush pops an exhausted lane stack, retires a lane without *)
(* a job, or has a kernel read a dead pointer or past the end of a buffer. *)
THEOREM NoFaultHolds ==
  Spec => []NoFault
<1>1. IInv => NoFault
  BY InvariantImplies
<1>2. QED
  BY <1>1, Invariance, PTL

(* The stack of unused lanes, the lanes' job pointers and num_lanes_inuse  *)
(* always tell the same story, and submit never returns with the lanes full. *)
THEOREM LaneAccountingHolds ==
  Spec => []LaneAccounting
<1>1. IInv => LaneAccounting
  BY InvariantImplies
<1>2. QED
  BY <1>1, Invariance, PTL

(* A job that submit accepted and that has not been handed back is in      *)
(* exactly one lane.                                                       *)
THEOREM JobsInLanesHolds ==
  Spec => []JobsInLanes
<1>1. IInv => JobsInLanes
  BY InvariantImplies
<1>2. QED
  BY <1>1, Invariance, PTL

(* Compressing lanes of different lengths together leaves every job exactly *)
(* where its length word says, with the digest of what it has read so far. *)
THEOREM LaneProgressHolds ==
  Spec => []LaneProgress
<1>1. IInv => LaneProgress
  BY InvariantImplies
<1>2. QED
  BY <1>1, Invariance, PTL

(* The digest of a job that submit or flush hands back is that of its own  *)
(* message, whatever ran beside it.                                        *)
THEOREM CompletedDigestHolds ==
  Spec => []CompletedDigest
<1>1. IInv => CompletedDigest
  BY InvariantImplies
<1>2. QED
  BY <1>1, Invariance, PTL

(* The lanes, the packed lengths and the kernels implement the pool: submit *)
(* keeps its job only while there is room, every call hands back at most   *)
(* one job and stops processing that one alone, and flush answers NULL     *)
(* only when nothing is in flight.                                         *)
THEOREM PoolSpecHolds ==
  Spec => PoolSpec
<1>1. Init => Pool!Init
  <2> SUFFICES ASSUME Init
               PROVE  Pool!Init
    OBVIOUS
  <2>1. \A j \in Jobs : job[j].status = "UNKNOWN"
    BY DEF Init, Prepared
  <2>2. QED
    BY <2>1 DEF Init, Pool!Init, Processing
<1>2. IInv /\ [Next]_vars => [Pool!Next]_(Pool!poolVars)
  <2> SUFFICES ASSUME IInv, [Next]_vars
               PROVE  [Pool!Next]_(Pool!poolVars)
    OBVIOUS
  <2>1. CASE SubmitAny
    BY <2>1, SubmitStep DEF SubmitAny, Pool!Next
  <2>2. CASE Flush
    BY <2>2, FlushStep DEF Pool!Next
  <2>3. CASE UNCHANGED vars
    BY <2>3 DEF vars, Pool!poolVars, Processing
  <2>4. QED
    BY <2>1, <2>2, <2>3 DEF Next
<1>3. QED
  BY <1>1, <1>2, Invariance, PTL DEF Spec, PoolSpec, Pool!Spec
=============================================================================
