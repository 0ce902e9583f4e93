---------------------------- MODULE MBLanesProofs ----------------------------
(***************************************************************************)
(* What one submit or one flush of the lane scheduler does, for any number *)
(* of lanes, any fill level, any memory and any jobs.  Nothing here is     *)
(* about a state: the lemmas follow a manager and its jobs through the     *)
(* stages of a call (loading a lane, letting the empty lanes follow a busy *)
(* one, compressing, retiring), so that the job manager (MBJobMgrProofs)   *)
(* and the context layer (HashCtxMgrProofs) rest on the same argument.     *)
(***************************************************************************)
EXTENDS MBLanes, FiniteSetTheorems, SequenceTheorems, TLAPS

(* The minimum search always has an answer: lanes are finitely many and    *)
(* packed words are totally ordered.                                       *)
LEMMA ShortestExists ==
  ASSUME NEW lens \in [Lanes -> PackedLen], NEW K \in SUBSET Lanes, K # {}
  PROVE  \E l \in K : \A k \in K : ~Below(lens[k], lens[l])
<1> DEFINE D(l) == {k \in K : Below(lens[k], lens[l])}
           T == {D(l) : l \in K}
<1>1. IsFiniteSet(K)
  <2>1. IsFiniteSet(Lanes)
    BY FS_Interval, LaneAssumption DEF Lanes
  <2>2. QED
    BY <2>1, FS_Subset
<1>2. IsWellFoundedOn(StrictSubsetOrdering(K), SUBSET K)
  BY <1>1, FS_StrictSubsetOrderingWellFounded, FS_FiniteSubsetsOfFinite
<1>3. T \subseteq SUBSET K /\ T # {}
  OBVIOUS
<1>4. \E x \in T : \A y \in T : ~ (<<y, x>> \in StrictSubsetOrdering(K))
  <2> HIDE DEF T
  <2>1. QED BY <1>2, <1>3, WFMin
<1>5. PICK l \in K : \A y \in T : ~ (<<y, D(l)>> \in StrictSubsetOrdering(K))
  BY <1>4
<1>6. ASSUME NEW k \in K, Below(lens[k], lens[l])
      PROVE  FALSE
  <2>1. D(k) \subseteq D(l)
    BY <1>6 DEF Below, PackedLen
  <2>2. k \in D(l) /\ k \notin D(k)
    BY <1>6 DEF Below, PackedLen
  <2>3. <<D(k), D(l)>> \in StrictSubsetOrdering(K)
    BY <2>1, <2>2 DEF StrictSubsetOrdering
  <2>4. QED
    BY <1>5, <2>3
<1>7. QED
  BY <1>6

-----------------------------------------------------------------------------
(* What a job in a lane is on its way to: the buffer it reads, the byte it *)
(* reads up to, and all the bytes it will have absorbed then.              *)
Goal == [buf : Buffers, end : Nat, text : Seq(Byte)]

Ahead(memory, jb) == jb.result_digest \o BlocksAt(memory, jb.buffer, jb.len)

GoalOf(memory, jb) ==
    [ buf  |-> jb.buffer.buf,
      end  |-> jb.buffer.off + jb.len * BLOCK_SIZE,
      text |-> Ahead(memory, jb) ]

(* A job that may be submitted reads inside its buffer, and is no longer   *)
(* than the word of an empty lane allows.                                  *)
Legal(memory, jb) ==
    /\ jb.buffer.off + jb.len * BLOCK_SIZE <= Len(memory[jb.buffer.buf])
    /\ Fits(jb.len)

(* The goals once the job j has goal g.                                    *)
Aimed(goal, goal2, j, g) ==
    /\ goal2 \in [Jobs -> Goal]
    /\ goal2[j] = g
    /\ \A i \in Jobs \ {j} : goal2[i] = goal[i]

-----------------------------------------------------------------------------
(* The invariant, stated of a manager, a memory and jobs that need not be  *)
(* those of a state, so that it can be carried through the stages of a     *)
(* call.                                                                   *)
NeverUsed == NLANES - FILL

Stack(m) ==
    /\ \A i, k \in 1 .. Len(m.unused_lanes) :
            m.unused_lanes[i] = m.unused_lanes[k] => i = k
    /\ \A l \in Lanes : m.job_in_lane[l] = NULL <=>
            \E i \in 1 .. Len(m.unused_lanes) : m.unused_lanes[i] = l
    /\ m.num_lanes_inuse + Len(m.unused_lanes) = NLANES
    /\ m.num_lanes_inuse <= FILL
    /\ \A i \in 1 .. NeverUsed :
            m.unused_lanes[Len(m.unused_lanes) - NeverUsed + i] = NeverFilled[i]

Owners(m, jobs) ==
    /\ \A l \in BusyLanes(m) : jobs[m.job_in_lane[l]].status = "BEING_PROCESSED"
    /\ \A j \in Jobs : jobs[j].status = "BEING_PROCESSED" =>
            \E l \in Lanes : m.job_in_lane[l] = j
    /\ \A k, l \in BusyLanes(m) : m.job_in_lane[k] = m.job_in_lane[l] => k = l

(* The lane l is somewhere on the way to the goal g: its pointer and its   *)
(* length word lead to the end, what it absorbed and what is left to read  *)
(* make up the text.                                                       *)
Midway(m, memory, l, g) ==
    /\ m.lens[l].tag = l
    /\ Fits(m.lens[l].blocks)
    /\ m.data_ptr[l].buf = g.buf
    /\ m.data_ptr[l].off + m.lens[l].blocks * BLOCK_SIZE = g.end
    /\ g.end <= Len(memory[g.buf])
    /\ m.digest[l] \o SubSeq(memory[g.buf], m.data_ptr[l].off + 1, g.end) = g.text

Contents(m, memory, goal) ==
    \A l \in BusyLanes(m) : Midway(m, memory, l, goal[m.job_in_lane[l]])

Sane(m, memory, jobs, goal) ==
    /\ m \in Manager
    /\ memory \in [Buffers -> Seq(Byte)]
    /\ jobs \in [Jobs -> Job]
    /\ goal \in [Jobs -> Goal]
    /\ Stack(m)
    /\ Owners(m, jobs)
    /\ Contents(m, memory, goal)

-----------------------------------------------------------------------------
(* The jobs being processed.                                               *)
InPool(jobs) == {j \in Jobs : jobs[j].status = "BEING_PROCESSED"}

(* Submit marks the job it takes.                                          *)
Marked(jobs, j) == [jobs EXCEPT ![j] = JobWith(@, "BEING_PROCESSED", @.result_digest)]

(* One job is handed back, with all its bytes absorbed, and no other job   *)
(* is touched.                                                             *)
Leaves(j, jobs, after, goal) ==
    /\ j \in InPool(jobs)
    /\ \A i \in Jobs \ {j} : after[i] = jobs[i]
    /\ after[j] = JobWith(jobs[j], "COMPLETED", goal[j].text)

(* The bytes a job has absorbed, or will have when it leaves its lane.     *)
Text(jobs, goal, j) ==
    IF jobs[j].status = "BEING_PROCESSED" THEN goal[j].text ELSE jobs[j].result_digest

-----------------------------------------------------------------------------
(* Whole blocks, in bytes.                                                 *)
LEMMA Product ==
  ASSUME NEW a \in Nat, NEW b \in Nat
  PROVE  a * b \in Nat
  OBVIOUS

(* The bytes a kernel reads inside a buffer.                               *)
LEMMA BlocksAre ==
  ASSUME NEW memory \in [Buffers -> Seq(Byte)], NEW p \in Pointer, NEW n \in Nat,
         p.off + n * BLOCK_SIZE <= Len(memory[p.buf])
  PROVE  /\ BlocksAt(memory, p, n) \in Seq(Byte)
         /\ Len(BlocksAt(memory, p, n)) = n * BLOCK_SIZE
<1> DEFINE k == n * BLOCK_SIZE
           s == memory[p.buf]
<1>1. k \in Nat /\ p.off \in Nat /\ s \in Seq(Byte) /\ p.off + k <= Len(s)
  BY LaneAssumption DEF Pointer
<1>2. BlocksAt(memory, p, n) = SubSeq(s, p.off + 1, p.off + k)
  BY DEF BlocksAt
<1> HIDE DEF k, s
<1>3. \A i \in p.off + 1 .. p.off + k : s[i] \in Byte
  BY <1>1, ElementOfSeq
<1>4. /\ SubSeq(s, p.off + 1, p.off + k) \in Seq(Byte)
      /\ Len(SubSeq(s, p.off + 1, p.off + k)) = IF p.off + 1 <= p.off + k
                                               THEN p.off + k - (p.off + 1) + 1 ELSE 0
  BY <1>1, <1>3, SubSeqProperties
<1>5. (IF p.off + 1 <= p.off + k THEN p.off + k - (p.off + 1) + 1 ELSE 0) = k
  BY <1>1
<1>6. QED
  BY <1>2, <1>4, <1>5 DEF k

(* The pointer of a busy lane is live.                                     *)
LEMMA BusyLaneIs ==
  ASSUME NEW m, NEW memory, NEW jobs, NEW goal, Sane(m, memory, jobs, goal),
         NEW l \in BusyLanes(m)
  PROVE  /\ l \in Lanes
         /\ m.job_in_lane[l] \in Jobs
         /\ m.lens[l] \in PackedLen
         /\ m.data_ptr[l] \in Pointer
         /\ m.digest[l] \in Seq(Byte)
         /\ goal[m.job_in_lane[l]] \in Goal
         /\ Midway(m, memory, l, goal[m.job_in_lane[l]])
<1>1. l \in Lanes /\ m.job_in_lane[l] \in Jobs
  BY DEF Sane, BusyLanes, Manager
<1>2. /\ Midway(m, memory, l, goal[m.job_in_lane[l]])
      /\ goal[m.job_in_lane[l]] \in Goal
  BY <1>1 DEF Sane, Contents
<1>3. m.data_ptr[l].buf # STALE
  BY <1>2, LaneAssumption DEF Midway, Goal
<1>4. m.data_ptr[l] \in Pointer
  BY <1>1, <1>3 DEF Sane, Manager, StalePtr
<1>5. QED
  BY <1>1, <1>2, <1>4 DEF Sane, Manager

(* What no lane works on may change: the fields of a job that stays out of *)
(* the lanes, the buffers that no job in a lane reads.                     *)
LEMMA SaneElsewhere ==
  ASSUME NEW m, NEW memory, NEW jobs, NEW goal, Sane(m, memory, jobs, goal),
         NEW memory2 \in [Buffers -> Seq(Byte)], NEW jobs2 \in [Jobs -> Job],
         NEW goal2 \in [Jobs -> Goal],
         InPool(jobs2) = InPool(jobs),
         \A j \in InPool(jobs) :
            goal2[j] = goal[j] /\ memory2[goal[j].buf] = memory[goal[j].buf]
  PROVE  Sane(m, memory2, jobs2, goal2)
<1>1. Owners(m, jobs2)
  BY DEF Sane, Owners, InPool, BusyLanes, Manager
<1>2. ASSUME NEW l \in BusyLanes(m)
      PROVE  Midway(m, memory2, l, goal2[m.job_in_lane[l]])
  <2>1. m.job_in_lane[l] \in InPool(jobs) /\ Midway(m, memory, l, goal[m.job_in_lane[l]])
    BY BusyLaneIs DEF Sane, Owners, InPool
  <2>2. QED
    BY <2>1 DEF Midway
<1>3. QED
  BY <1>1, <1>2 DEF Sane, Contents

-----------------------------------------------------------------------------
(* The manager x is m with the job j popped into the lane on top.          *)
Loaded(m, x, j, jb) ==
    LET lane == Head(m.unused_lanes)
    IN  /\ lane \in Lanes
        /\ x \in Manager
        /\ x.unused_lanes = Tail(m.unused_lanes)
        /\ x.num_lanes_inuse = m.num_lanes_inuse + 1
        /\ x.lens = [m.lens EXCEPT ![lane] = [blocks |-> jb.len, tag |-> lane]]
        /\ x.job_in_lane = [m.job_in_lane EXCEPT ![lane] = j]
        /\ x.data_ptr = [m.data_ptr EXCEPT ![lane] = jb.buffer]
        /\ x.digest = [m.digest EXCEPT ![lane] = jb.result_digest]

(* A lane is popped and loaded.                                            *)
LEMMA AdmitFields ==
  ASSUME NEW m \in Manager, NEW jobs \in [Jobs -> Job], NEW j \in Jobs,
         m.unused_lanes # << >>
  PROVE  Loaded(m, Admit(m, jobs, j), j, jobs[j])
<1> DEFINE a    == Admit(m, jobs, j)
           lane == Head(m.unused_lanes)
<1>1. m.unused_lanes \in Seq(Lanes)
  BY DEF Manager
<1>2. lane \in Lanes /\ Tail(m.unused_lanes) \in Seq(Lanes)
  BY <1>1, HeadTailProperties
<1>3. lane \in Nat
  BY <1>2, LaneAssumption DEF Lanes
<1> HIDE DEF lane
<1>4. a = [ unused_lanes    |-> Tail(m.unused_lanes),
            num_lanes_inuse |-> m.num_lanes_inuse + 1,
            lens            |-> [m.lens EXCEPT ![lane] = [blocks |-> jobs[j].len, tag |-> lane]],
            job_in_lane     |-> [m.job_in_lane EXCEPT ![lane] = j],
            data_ptr        |-> [m.data_ptr EXCEPT ![lane] = jobs[j].buffer],
            digest          |-> [m.digest EXCEPT ![lane] = jobs[j].result_digest] ]
  BY DEF Admit, lane
<1>5. a \in Manager
  <2>1. [m.lens EXCEPT ![lane] = [blocks |-> jobs[j].len, tag |-> lane]] \in [Lanes -> PackedLen]
    BY <1>3 DEF Manager, PackedLen, Job
  <2>2. [m.job_in_lane EXCEPT ![lane] = j] \in [Lanes -> Jobs \cup {NULL}]
    BY DEF Manager
  <2>3. [m.data_ptr EXCEPT ![lane] = jobs[j].buffer] \in [Lanes -> Pointer \cup {StalePtr}]
    BY DEF Manager, Job
  <2>4. [m.digest EXCEPT ![lane] = jobs[j].result_digest] \in [Lanes -> Seq(Byte)]
    BY DEF Manager, Job
  <2>5. m.num_lanes_inuse + 1 \in Nat
    BY DEF Manager
  <2>6. QED
    BY <1>2, <1>4, <2>1, <2>2, <2>3, <2>4, <2>5 DEF Manager
<1>6. QED
  BY <1>2, <1>4, <1>5 DEF lane, Loaded

(* A job that is not in a lane already is loaded into one of its own, and  *)
(* everything the invariant says holds of the manager that has it.         *)
LEMMA AdmitSane ==
  ASSUME NEW m, NEW memory, NEW jobs, NEW goal, Sane(m, memory, jobs, goal),
         m.num_lanes_inuse < FILL,
         NEW j \in Jobs, jobs[j].status # "BEING_PROCESSED", Legal(memory, jobs[j]),
         NEW goal2, Aimed(goal, goal2, j, GoalOf(memory, jobs[j]))
  PROVE  LET a == Admit(m, jobs, j)
         IN  /\ m.unused_lanes # << >>
             /\ a.num_lanes_inuse = m.num_lanes_inuse + 1
             /\ Sane(a, memory, Marked(jobs, j), goal2)
<1> DEFINE marked == Marked(jobs, j)
           a      == Admit(m, jobs, j)
           lane   == Head(m.unused_lanes)
           stack  == m.unused_lanes
<1>1. /\ m \in Manager
      /\ memory \in [Buffers -> Seq(Byte)]
      /\ jobs \in [Jobs -> Job]
      /\ goal \in [Jobs -> Goal]
      /\ Stack(m) /\ Owners(m, jobs) /\ Contents(m, memory, goal)
  BY DEF Sane
<1>2. /\ stack \in Seq(Lanes)
      /\ m.num_lanes_inuse \in Nat
      /\ NLANES \in Nat /\ FILL \in 1 .. NLANES
      /\ NeverUsed \in Nat
      /\ Len(stack) \in Nat
      /\ Len(stack) > NeverUsed
  BY <1>1, LaneAssumption, LenProperties DEF Manager, Stack, NeverUsed
<1>3. stack # << >>
  BY <1>2, EmptySeq
<1>6. /\ marked \in [Jobs -> Job]
      /\ \A i \in Jobs : i # j => marked[i] = jobs[i]
      /\ marked[j].status = "BEING_PROCESSED"
  BY <1>1 DEF Job, JobSts, JobWith, Marked
<1>7. /\ lane \in Lanes
      /\ a \in Manager
      /\ a.unused_lanes = Tail(stack)
      /\ a.num_lanes_inuse = m.num_lanes_inuse + 1
      /\ a.lens = [m.lens EXCEPT ![lane] = [blocks |-> jobs[j].len, tag |-> lane]]
      /\ a.job_in_lane = [m.job_in_lane EXCEPT ![lane] = j]
      /\ a.data_ptr = [m.data_ptr EXCEPT ![lane] = jobs[j].buffer]
      /\ a.digest = [m.digest EXCEPT ![lane] = jobs[j].result_digest]
  <2>1. Loaded(m, a, j, jobs[j])
    BY <1>1, <1>3, AdmitFields
  <2>2. QED
    BY <2>1 DEF Loaded
<1>8. /\ Len(Tail(stack)) = Len(stack) - 1
      /\ \A i \in 1 .. Len(stack) - 1 : Tail(stack)[i] = stack[i + 1]
      /\ lane = stack[1]
  BY <1>2, <1>3, HeadTailProperties
<1>9. m.job_in_lane[lane] = NULL
  BY <1>1, <1>2, <1>7, <1>8 DEF Stack
<1>10. BusyLanes(a) = BusyLanes(m) \cup {lane} /\ lane \notin BusyLanes(m)
  BY <1>1, <1>7, <1>9, LaneAssumption DEF BusyLanes, Manager
<1> HIDE DEF marked, a, lane, stack
<1>11. Stack(a)
  <2>1. \A i, k \in 1 .. Len(a.unused_lanes) :
            a.unused_lanes[i] = a.unused_lanes[k] => i = k
    BY <1>1, <1>2, <1>7, <1>8 DEF Stack, stack
  <2>2. ASSUME NEW l \in Lanes
        PROVE  a.job_in_lane[l] = NULL <=>
                   \E i \in 1 .. Len(a.unused_lanes) : a.unused_lanes[i] = l
    <3>1. m.job_in_lane[l] = NULL <=> \E i \in 1 .. Len(stack) : stack[i] = l
      BY <1>1 DEF Stack, stack
    <3>2. \A i, k \in 1 .. Len(stack) : stack[i] = stack[k] => i = k
      BY <1>1 DEF Stack, stack
    <3>3. CASE l = lane
      <4>1. a.job_in_lane[l] # NULL
        BY <1>1, <1>7, <3>3, LaneAssumption DEF Manager
      <4>2. \A i \in 1 .. Len(a.unused_lanes) : a.unused_lanes[i] # l
        BY <1>2, <1>7, <1>8, <3>2, <3>3
      <4>3. QED
        BY <4>1, <4>2
    <3>4. CASE l # lane
      <4>1. a.job_in_lane[l] = m.job_in_lane[l]
        BY <1>1, <1>7, <3>4 DEF Manager
      <4>2. (\E i \in 1 .. Len(stack) : stack[i] = l)
                <=> \E i \in 1 .. Len(stack) - 1 : stack[i + 1] = l
        <5>1. ASSUME NEW i \in 1 .. Len(stack), stack[i] = l
              PROVE  i - 1 \in 1 .. Len(stack) - 1 /\ stack[(i - 1) + 1] = l
          BY <1>2, <1>8, <3>4, <5>1
        <5>2. \A i \in 1 .. Len(stack) - 1 : i + 1 \in 1 .. Len(stack)
          BY <1>2
        <5>3. QED
          BY <5>1, <5>2
      <4>3. QED
        BY <1>7, <1>8, <3>1, <4>1, <4>2
    <3>5. QED
      BY <3>3, <3>4
  <2>3. a.num_lanes_inuse + Len(a.unused_lanes) = NLANES /\ a.num_lanes_inuse <= FILL
    <3>1. m.num_lanes_inuse + Len(stack) = NLANES
      BY <1>1 DEF Stack, stack
    <3>2. a.num_lanes_inuse = m.num_lanes_inuse + 1 /\ Len(a.unused_lanes) = Len(stack) - 1
      BY <1>7, <1>8
    <3>3. /\ m.num_lanes_inuse \in Nat /\ Len(stack) \in Nat /\ FILL \in Int
          /\ m.num_lanes_inuse < FILL
      BY <1>2
    <3>4. QED
      BY <3>1, <3>2, <3>3
  <2>4. ASSUME NEW i \in 1 .. NeverUsed
        PROVE  a.unused_lanes[Len(a.unused_lanes) - NeverUsed + i] = NeverFilled[i]
    <3> DEFINE n0 == Len(stack)
               k  == (n0 - 1) - NeverUsed + i
    <3>1. n0 \in Nat /\ NeverUsed \in Nat /\ n0 > NeverUsed
      BY <1>2
    <3>2. k \in 1 .. n0 - 1 /\ k + 1 = n0 - NeverUsed + i
      BY <3>1
    <3>3. a.unused_lanes[k] = stack[k + 1]
      BY <1>7, <1>8, <3>2
    <3>4. stack[n0 - NeverUsed + i] = NeverFilled[i]
      BY <1>1 DEF Stack, stack
    <3>5. Len(a.unused_lanes) = n0 - 1
      BY <1>7, <1>8
    <3>6. QED
      BY <3>2, <3>3, <3>4, <3>5
  <2>5. QED
    BY <2>1, <2>2, <2>3, <2>4 DEF Stack
<1>12. Owners(a, marked)
  <2>1. \A l \in BusyLanes(m) : /\ a.job_in_lane[l] = m.job_in_lane[l]
                                /\ m.job_in_lane[l] \in Jobs
                                /\ m.job_in_lane[l] # j
    BY <1>1, <1>7, <1>10 DEF Owners, BusyLanes, Manager
  <2>2. a.job_in_lane[lane] = j
    BY <1>1, <1>7 DEF Manager
  <2>3. \A l \in BusyLanes(a) : marked[a.job_in_lane[l]].status = "BEING_PROCESSED"
    BY <1>1, <1>6, <1>10, <2>1, <2>2 DEF Owners
  <2>4. ASSUME NEW i \in Jobs, marked[i].status = "BEING_PROCESSED"
        PROVE  \E l \in Lanes : a.job_in_lane[l] = i
    <3>1. CASE i = j
      BY <1>7, <2>2, <3>1
    <3>2. CASE i # j
      <4>1. PICK l \in Lanes : m.job_in_lane[l] = i
        BY <1>1, <1>6, <2>4, <3>2 DEF Owners
      <4>2. l \in BusyLanes(m)
        BY <4>1, LaneAssumption DEF BusyLanes
      <4>3. QED
        BY <2>1, <4>1, <4>2
    <3>3. QED
      BY <3>1, <3>2
  <2>5. \A k, l \in BusyLanes(a) : a.job_in_lane[k] = a.job_in_lane[l] => k = l
    BY <1>1, <1>10, <2>1, <2>2 DEF Owners
  <2>6. QED
    BY <2>3, <2>4, <2>5 DEF Owners
<1>13. Contents(a, memory, goal2)
  <2>1. ASSUME NEW l \in BusyLanes(m)
        PROVE  Midway(a, memory, l, goal2[a.job_in_lane[l]])
    <3>1. l # lane /\ l \in Lanes
      BY <1>10 DEF BusyLanes
    <3>2. /\ a.job_in_lane[l] = m.job_in_lane[l]
          /\ a.lens[l] = m.lens[l] /\ a.data_ptr[l] = m.data_ptr[l]
          /\ a.digest[l] = m.digest[l]
      BY <1>1, <1>7, <3>1 DEF Manager
    <3>3. m.job_in_lane[l] \in Jobs /\ m.job_in_lane[l] # j
      BY <1>1 DEF Owners, BusyLanes, Manager
    <3>4. Midway(m, memory, l, goal[m.job_in_lane[l]])
      BY <1>1 DEF Contents
    <3>5. goal2[a.job_in_lane[l]] = goal[m.job_in_lane[l]]
      BY <3>2, <3>3 DEF Aimed
    <3>6. QED
      BY <3>2, <3>4, <3>5 DEF Midway
  <2>2. Midway(a, memory, lane, goal2[a.job_in_lane[lane]])
    <3>1. /\ a.job_in_lane[lane] = j
          /\ a.lens[lane] = [blocks |-> jobs[j].len, tag |-> lane]
          /\ a.data_ptr[lane] = jobs[j].buffer
          /\ a.digest[lane] = jobs[j].result_digest
      BY <1>1, <1>7 DEF Manager
    <3>2. goal2[j] = GoalOf(memory, jobs[j])
      BY DEF Aimed
    <3>3. /\ goal2[j].buf = jobs[j].buffer.buf
          /\ goal2[j].end = jobs[j].buffer.off + jobs[j].len * BLOCK_SIZE
          /\ goal2[j].text = Ahead(memory, jobs[j])
      BY <3>2 DEF GoalOf
    <3>4. QED
      BY <3>1, <3>3 DEF Midway, Legal, BlocksAt, Ahead
  <2>3. QED
    BY <1>10, <2>1, <2>2 DEF Contents
<1>16. Sane(a, memory, marked, goal2)
  BY <1>1, <1>6, <1>7, <1>11, <1>12, <1>13 DEF Sane, Aimed
<1>18. QED
  BY <1>3, <1>7, <1>16 DEF a, marked, stack

(* The goal of a legal job is one.                                         *)
LEMMA GoalIsGoal ==
  ASSUME NEW memory \in [Buffers -> Seq(Byte)], NEW jb \in Job, Legal(memory, jb)
  PROVE  GoalOf(memory, jb) \in Goal
<1>1. jb.buffer \in Pointer /\ jb.len \in Nat /\ jb.result_digest \in Seq(Byte)
  BY DEF Job
<1>2. BlocksAt(memory, jb.buffer, jb.len) \in Seq(Byte)
  BY <1>1, BlocksAre DEF Legal
<1>3. jb.result_digest \o BlocksAt(memory, jb.buffer, jb.len) \in Seq(Byte)
  BY <1>1, <1>2, ConcatProperties
<1>4. jb.buffer.off + jb.len * BLOCK_SIZE \in Nat
  <2>1. jb.len * BLOCK_SIZE \in Nat
    BY <1>1, LaneAssumption, Product
  <2>2. QED
    BY <1>1, <2>1 DEF Pointer
<1>5. QED
  BY <1>1, <1>3, <1>4 DEF GoalOf, Goal, Pointer, Ahead

-----------------------------------------------------------------------------
(* What is left of n blocks after some of them still fits.                 *)
LEMMA FitsLess ==
  ASSUME NEW b \in Nat, NEW n \in Nat, n <= b, Fits(b)
  PROVE  b - n \in Nat /\ Fits(b - n)
  BY LaneAssumption DEF Fits

ReadsOn(memory, p, b, n, end, digest) ==
    /\ p.off + n * BLOCK_SIZE <= Len(memory[p.buf])
    /\ (p.off + n * BLOCK_SIZE) + (b - n) * BLOCK_SIZE = end
    /\ BlocksAt(memory, p, n) \in Seq(Byte)
    /\ (digest \o BlocksAt(memory, p, n))
            \o SubSeq(memory[p.buf], (p.off + n * BLOCK_SIZE) + 1, end)
         = digest \o SubSeq(memory[p.buf], p.off + 1, end)

(* A kernel run over n of a lane's blocks stays before its end, and what   *)
(* the lane absorbs then and what it has left are the text they were.      *)
LEMMA ReadOn ==
  ASSUME NEW memory \in [Buffers -> Seq(Byte)], NEW p \in Pointer, NEW b \in Nat,
         NEW n \in Nat, n <= b, NEW end \in Nat,
         p.off + b * BLOCK_SIZE = end, end <= Len(memory[p.buf]),
         NEW digest \in Seq(Byte)
  PROVE  ReadsOn(memory, p, b, n, end, digest)
<1> DEFINE s   == memory[p.buf]
           off == p.off
           k   == n * BLOCK_SIZE
           h   == (b - n) * BLOCK_SIZE
<1>1. /\ s \in Seq(Byte) /\ Len(s) \in Nat /\ off \in Nat
      /\ BLOCK_SIZE \in Nat /\ b - n \in Nat
  BY LaneAssumption, LenProperties DEF Pointer
<1>2. k \in Nat /\ h \in Nat
  BY <1>1, Product
<1>3. b * BLOCK_SIZE = k + h
  <2>1. PICK d \in Nat : b = n + d
    <3>1. b = n + (b - n)
      BY <1>1
    <3>2. QED
      BY <1>1, <3>1
  <2>2. b - n = d
    BY <2>1
  <2>3. b * BLOCK_SIZE = n * BLOCK_SIZE + d * BLOCK_SIZE
    BY <1>1, <2>1
  <2>4. QED
    BY <2>2, <2>3
<1>4. BlocksAt(memory, p, n) = SubSeq(s, off + 1, off + k)
  BY DEF BlocksAt
<1>5. off + (k + h) = end /\ end <= Len(s)
  BY <1>3
<1>6. p.off + n * BLOCK_SIZE <= Len(memory[p.buf])
  <2>1. off + k <= Len(s)
    <3> HIDE DEF k, h, s, off
    <3>1. QED
      BY <1>1, <1>2, <1>5
  <2>2. QED
    BY <2>1
<1>7. BlocksAt(memory, p, n) \in Seq(Byte)
  BY <1>6, BlocksAre
<1> HIDE DEF k, h, s, off
<1>8. SubSeq(s, off + 1, off + k) \o SubSeq(s, (off + k) + 1, end) = SubSeq(s, off + 1, end)
  <2>1. /\ off + 1 \in 1 .. Len(s) + 1
        /\ off + k \in (off + 1) - 1 .. Len(s)
        /\ end \in off + k .. Len(s)
    BY <1>1, <1>2, <1>5
  <2>2. QED
    BY <1>1, <2>1, ConcatAdjacentSubSeq
<1>9. SubSeq(s, (off + k) + 1, end) \in Seq(Byte)
  <2>1. \A i \in (off + k) + 1 .. end : s[i] \in Byte
    BY <1>1, <1>2, <1>5, ElementOfSeq
  <2>2. QED
    BY <1>1, <1>2, <2>1, SubSeqProperties
<1>10. (digest \o SubSeq(s, off + 1, off + k)) \o SubSeq(s, (off + k) + 1, end)
          = digest \o SubSeq(s, off + 1, end)
  <2> DEFINE u == SubSeq(s, off + 1, off + k)
             v == SubSeq(s, (off + k) + 1, end)
  <2>1. u \in Seq(Byte) /\ v \in Seq(Byte)
    BY <1>4, <1>7, <1>9
  <2> HIDE DEF u, v
  <2>2. (digest \o u) \o v = digest \o (u \o v)
    BY <2>1, ConcatAssociative
  <2>3. QED
    BY <1>8, <2>2 DEF u, v
<1>11. (off + k) + h = end
  BY <1>1, <1>2, <1>5
<1>12. QED
  BY <1>4, <1>6, <1>7, <1>10, <1>11 DEF s, off, k, h, ReadsOn

(* The lanes A have n blocks, and read what a busy lane that has n reads.  *)
HaveBlocks(m, A, n) ==
    /\ \A k \in A : n <= m.lens[k].blocks
    /\ \A k \in A : \E d \in BusyLanes(m) :
            m.data_ptr[k] = m.data_ptr[d] /\ n <= m.lens[d].blocks

(* The kernel may run over them, and c is what it leaves.                  *)
Ran(m, memory, jobs, goal, A, n, c) ==
    /\ Readable(m, memory, A, n)
    /\ Sane(c, memory, jobs, goal)
    /\ BusyLanes(c) = BusyLanes(m)
    /\ c.job_in_lane = m.job_in_lane
    /\ c.num_lanes_inuse = m.num_lanes_inuse
    /\ \A k \in A : c.lens[k] = Shortened(m.lens[k], n)

(* A kernel run over n blocks of lanes that have as many left, and read    *)
(* what a busy lane reads, stays inside the buffers and keeps the          *)
(* invariant.                                                              *)
LEMMA CompressSane ==
  ASSUME NEW m, NEW memory, NEW jobs, NEW goal, Sane(m, memory, jobs, goal),
         NEW A \in SUBSET Lanes, NEW n \in Nat, HaveBlocks(m, A, n)
  PROVE  Ran(m, memory, jobs, goal, A, n, Compress(m, memory, A, n))
<1> DEFINE c == Compress(m, memory, A, n)
<1>1. /\ m \in Manager
      /\ memory \in [Buffers -> Seq(Byte)]
      /\ jobs \in [Jobs -> Job]
      /\ goal \in [Jobs -> Goal]
      /\ Stack(m) /\ Owners(m, jobs) /\ Contents(m, memory, goal)
      /\ BLOCK_SIZE \in Nat
  BY LaneAssumption DEF Sane
<1>2. ASSUME NEW d \in BusyLanes(m), n <= m.lens[d].blocks
      PROVE  /\ d \in Lanes
             /\ m.data_ptr[d] \in Pointer
             /\ m.data_ptr[d].off + n * BLOCK_SIZE <= Len(memory[m.data_ptr[d].buf])
             /\ BlocksAt(memory, m.data_ptr[d], n) \in Seq(Byte)
             /\ Midway(c, memory, d, goal[m.job_in_lane[d]])
  <2> DEFINE g == goal[m.job_in_lane[d]]
             p == m.data_ptr[d]
             b == m.lens[d].blocks
  <2>1. /\ d \in Lanes
        /\ p \in Pointer
        /\ m.lens[d] \in PackedLen
        /\ m.digest[d] \in Seq(Byte)
        /\ g \in Goal
        /\ Midway(m, memory, d, g)
    BY BusyLaneIs
  <2>2. b \in Nat /\ n <= b /\ g.end \in Nat
    BY <1>2, <2>1 DEF PackedLen, Goal
  <2>3. /\ m.lens[d].tag = d
        /\ Fits(b)
        /\ p.buf = g.buf
        /\ p.off + b * BLOCK_SIZE = g.end
        /\ g.end <= Len(memory[p.buf])
        /\ m.digest[d] \o SubSeq(memory[p.buf], p.off + 1, g.end) = g.text
    BY <2>1 DEF Midway
  <2> HIDE DEF c, g, p, b
  <2>4. /\ p.off + n * BLOCK_SIZE <= Len(memory[p.buf])
        /\ (p.off + n * BLOCK_SIZE) + (b - n) * BLOCK_SIZE = g.end
        /\ BlocksAt(memory, p, n) \in Seq(Byte)
        /\ (m.digest[d] \o BlocksAt(memory, p, n))
                \o SubSeq(memory[p.buf], (p.off + n * BLOCK_SIZE) + 1, g.end)
              = m.digest[d] \o SubSeq(memory[p.buf], p.off + 1, g.end)
    <3>1. ReadsOn(memory, p, b, n, g.end, m.digest[d])
      BY <1>1, <2>1, <2>2, <2>3, ReadOn
    <3>2. QED
      BY <3>1 DEF ReadsOn
  <2>5. Midway(c, memory, d, g)
    <3>1. CASE d \notin A
      <4>1. c.lens[d] = m.lens[d] /\ c.data_ptr[d] = m.data_ptr[d] /\ c.digest[d] = m.digest[d]
        BY <2>1, <3>1 DEF Compress, c
      <4>2. QED
        BY <2>1, <4>1 DEF Midway
    <3>2. CASE d \in A
      <4>1. /\ c.lens[d] = Shortened(m.lens[d], n)
            /\ c.data_ptr[d] = Advanced(p, n)
            /\ c.digest[d] = m.digest[d] \o BlocksAt(memory, p, n)
        BY <2>1, <3>2 DEF Compress, c, p
      <4>2. /\ c.lens[d].tag = d
            /\ c.lens[d].blocks = b - n
            /\ c.data_ptr[d].buf = g.buf
            /\ c.data_ptr[d].off = p.off + n * BLOCK_SIZE
        BY <2>3, <4>1 DEF Shortened, Advanced, b
      <4>3. Fits(b - n)
        BY <2>2, <2>3, FitsLess
      <4>4. c.digest[d] \o SubSeq(memory[g.buf], c.data_ptr[d].off + 1, g.end) = g.text
        BY <2>3, <2>4, <4>1, <4>2
      <4>5. QED
        BY <2>3, <2>4, <4>2, <4>3, <4>4 DEF Midway
    <3>3. QED
      BY <3>1, <3>2
  <2>6. QED
    BY <2>1, <2>4, <2>5 DEF g, p, b
<1> HIDE DEF c
<1>4. ASSUME NEW k \in A
      PROVE  /\ m.data_ptr[k] \in Pointer
             /\ m.data_ptr[k].off + n * BLOCK_SIZE <= Len(memory[m.data_ptr[k].buf])
             /\ BlocksAt(memory, m.data_ptr[k], n) \in Seq(Byte)
  <2>1. PICK d \in BusyLanes(m) : m.data_ptr[k] = m.data_ptr[d] /\ n <= m.lens[d].blocks
    BY DEF HaveBlocks
  <2>2. QED
    BY <2>1, <1>2
<1>5. Readable(m, memory, A, n)
  <2>1. ASSUME NEW k \in A
        PROVE  m.data_ptr[k].buf # STALE
    BY <1>4, LaneAssumption DEF Pointer
  <2>2. QED
    BY <1>4, <2>1 DEF Readable
<1>6. c.lens \in [Lanes -> PackedLen]
  <2>1. ASSUME NEW k \in A
        PROVE  Shortened(m.lens[k], n) \in PackedLen
    <3>1. k \in Lanes /\ m.lens[k] \in PackedLen
      BY <1>1 DEF Manager
    <3>2. n <= m.lens[k].blocks
      BY DEF HaveBlocks
    <3>3. QED
      BY <3>1, <3>2 DEF Shortened, PackedLen
  <2>2. QED
    BY <1>1, <2>1 DEF Manager, Compress, c
<1>7. c.data_ptr \in [Lanes -> Pointer \cup {StalePtr}]
  <2>1. ASSUME NEW k \in A
        PROVE  Advanced(m.data_ptr[k], n) \in Pointer
    <3>1. n * BLOCK_SIZE \in Nat
      BY <1>1, Product
    <3>2. QED
      BY <1>4, <3>1 DEF Advanced, Pointer
  <2>2. QED
    BY <1>1, <2>1 DEF Manager, Compress, c
<1>8. c.digest \in [Lanes -> Seq(Byte)]
  <2>1. ASSUME NEW k \in A
        PROVE  m.digest[k] \o BlocksAt(memory, m.data_ptr[k], n) \in Seq(Byte)
    <3>1. m.digest[k] \in Seq(Byte)
      BY <1>1 DEF Manager
    <3>2. QED
      BY <1>4, <3>1, ConcatProperties
  <2>2. QED
    BY <1>1, <2>1 DEF Manager, Compress, c
<1>9. /\ c.job_in_lane = m.job_in_lane
      /\ c.unused_lanes = m.unused_lanes
      /\ c.num_lanes_inuse = m.num_lanes_inuse
  BY DEF Compress, c
<1>10. c \in Manager
  BY <1>1, <1>6, <1>7, <1>8 DEF Manager, Compress, c
<1>11. BusyLanes(c) = BusyLanes(m)
  BY <1>9 DEF BusyLanes
<1>12. Stack(c) /\ Owners(c, jobs)
  BY <1>1, <1>9, <1>11 DEF Stack, Owners
<1>13. Contents(c, memory, goal)
  <2> SUFFICES ASSUME NEW l \in BusyLanes(m)
               PROVE  Midway(c, memory, l, goal[m.job_in_lane[l]])
    BY <1>9, <1>11 DEF Contents
  <2>1. Midway(m, memory, l, goal[m.job_in_lane[l]]) /\ l \in Lanes
    BY BusyLaneIs
  <2>2. CASE l \notin A
    <3>1. c.lens[l] = m.lens[l] /\ c.data_ptr[l] = m.data_ptr[l] /\ c.digest[l] = m.digest[l]
      BY <2>1, <2>2 DEF Compress, c
    <3>2. QED
      BY <2>1, <3>1 DEF Midway
  <2>3. CASE l \in A
    BY <1>2, <2>3 DEF HaveBlocks
  <2>4. QED
    BY <2>2, <2>3
<1>14. \A k \in A : c.lens[k] = Shortened(m.lens[k], n)
  BY DEF Compress, c
<1>15. Sane(c, memory, jobs, goal)
  BY <1>1, <1>10, <1>12, <1>13 DEF Sane
<1>16. QED
  BY <1>5, <1>9, <1>11, <1>14, <1>15 DEF c, Ran

-----------------------------------------------------------------------------
(* The job of a lane with no blocks left leaves it with its digest.        *)
LEMMA RetireSane ==
  ASSUME NEW m, NEW memory, NEW jobs, NEW goal, Sane(m, memory, jobs, goal),
         NEW idx \in BusyLanes(m), m.lens[idx].blocks = 0
  PROVE  LET j == m.job_in_lane[idx]
             x == Retire(m, idx)
         IN  /\ j \in Jobs
             /\ x.num_lanes_inuse = m.num_lanes_inuse - 1
             /\ Sane(x, memory, [jobs EXCEPT ![j] = JobWith(@, "COMPLETED", m.digest[idx])], goal)
             /\ Leaves(j, jobs, [jobs EXCEPT ![j] = JobWith(@, "COMPLETED", m.digest[idx])], goal)
<1> DEFINE j     == m.job_in_lane[idx]
           x     == Retire(m, idx)
           after == [jobs EXCEPT ![j] = JobWith(@, "COMPLETED", m.digest[idx])]
           stack == m.unused_lanes
           busy  == BusyLanes(m) \ {idx}
<1>1. /\ m \in Manager
      /\ memory \in [Buffers -> Seq(Byte)]
      /\ jobs \in [Jobs -> Job]
      /\ goal \in [Jobs -> Goal]
      /\ Stack(m) /\ Owners(m, jobs) /\ Contents(m, memory, goal)
      /\ idx \in Lanes /\ j # NULL
  BY DEF Sane, BusyLanes
<1>2. j \in Jobs
  BY <1>1 DEF Manager
<1>3. /\ x.unused_lanes = <<idx>> \o stack
      /\ x.num_lanes_inuse = m.num_lanes_inuse - 1
      /\ x.lens = m.lens
      /\ x.job_in_lane = [m.job_in_lane EXCEPT ![idx] = NULL]
      /\ x.data_ptr = [l \in Lanes |-> IF l \in busy THEN m.data_ptr[l] ELSE StalePtr]
      /\ x.digest = [l \in Lanes |-> IF l \in busy THEN m.digest[l] ELSE << >>]
      /\ x = [ unused_lanes    |-> <<idx>> \o stack,
               num_lanes_inuse |-> m.num_lanes_inuse - 1,
               lens            |-> m.lens,
               job_in_lane     |-> [m.job_in_lane EXCEPT ![idx] = NULL],
               data_ptr        |-> [l \in Lanes |-> IF l \in busy THEN m.data_ptr[l] ELSE StalePtr],
               digest          |-> [l \in Lanes |-> IF l \in busy THEN m.digest[l] ELSE << >>] ]
  BY DEF Retire
<1>4. /\ after \in [Jobs -> Job]
      /\ \A i \in Jobs : i # j => after[i] = jobs[i]
      /\ after[j] = JobWith(jobs[j], "COMPLETED", m.digest[idx])
      /\ after[j].status = "COMPLETED"
  BY <1>1, <1>2 DEF Job, JobSts, JobWith, Manager
<1> HIDE DEF j, x, after, busy
<1>5. /\ stack \in Seq(Lanes) /\ Len(stack) \in Nat
      /\ NLANES \in Nat /\ FILL \in Nat /\ FILL <= NLANES
      /\ NeverUsed \in Nat
      /\ m.num_lanes_inuse \in Nat
      /\ m.num_lanes_inuse + Len(stack) = NLANES
      /\ m.num_lanes_inuse <= FILL
  BY <1>1, LaneAssumption, LenProperties DEF Manager, Stack, NeverUsed
<1>6. /\ <<idx>> \o stack \in Seq(Lanes)
      /\ Len(<<idx>> \o stack) = Len(stack) + 1
      /\ (<<idx>> \o stack)[1] = idx
      /\ \A i \in 2 .. Len(stack) + 1 : (<<idx>> \o stack)[i] = stack[i - 1]
  <2>1. <<idx>> \in Seq(Lanes) /\ Len(<<idx>>) = 1 /\ <<idx>>[1] = idx
    BY <1>1
  <2>2. QED
    BY <1>5, <2>1, ConcatProperties
<1> HIDE DEF stack
<1>7. \A i \in 1 .. Len(stack) : stack[i] # idx
  BY <1>1 DEF Stack, stack, j
<1>8. \A i, k \in 1 .. Len(stack) : stack[i] = stack[k] => i = k
  BY <1>1 DEF Stack, stack
<1>9. m.num_lanes_inuse # 0
  <2> SUFFICES ASSUME m.num_lanes_inuse = 0
               PROVE  FALSE
    OBVIOUS
  <2>1. Len(stack) = NLANES
    BY <1>5
  <2>2. stack \in Injection(1 .. NLANES, Lanes)
    BY <1>5, <1>8, <2>1, LenProperties DEF Injection, IsInjective
  <2>3. IsFiniteSet(Lanes) /\ Cardinality(Lanes) = NLANES
    BY <1>5, FS_Interval DEF Lanes
  <2>4. IsFiniteSet(1 .. NLANES) /\ Cardinality(1 .. NLANES) = NLANES
    BY <1>5, FS_Interval
  <2>5. stack \in Surjection(1 .. NLANES, Lanes)
    BY <2>2, <2>3, <2>4, FS_Injection
  <2>6. \E i \in 1 .. NLANES : stack[i] = idx
    BY <1>1, <2>5 DEF Surjection
  <2>7. QED
    BY <1>7, <2>1, <2>6
<1>10. x \in Manager
  <2>1. m.num_lanes_inuse - 1 \in Nat
    BY <1>5, <1>9
  <2>2. [m.job_in_lane EXCEPT ![idx] = NULL] \in [Lanes -> Jobs \cup {NULL}]
    BY <1>1 DEF Manager
  <2>3. [l \in Lanes |-> IF l \in busy THEN m.data_ptr[l] ELSE StalePtr]
            \in [Lanes -> Pointer \cup {StalePtr}]
    BY <1>1 DEF Manager
  <2>4. [l \in Lanes |-> IF l \in busy THEN m.digest[l] ELSE << >>] \in [Lanes -> Seq(Byte)]
    BY <1>1, EmptySeq DEF Manager
  <2>5. m.lens \in [Lanes -> PackedLen]
    BY <1>1 DEF Manager
  <2>6. QED
    BY <1>3, <1>6, <2>1, <2>2, <2>3, <2>4, <2>5 DEF Manager
<1>11. Stack(x)
  <2>1. ASSUME NEW i \in 1 .. Len(stack) + 1, NEW k \in 1 .. Len(stack) + 1,
               (<<idx>> \o stack)[i] = (<<idx>> \o stack)[k]
        PROVE  i = k
    <3>1. CASE i = 1 /\ k = 1
      BY <3>1
    <3>2. CASE i = 1 /\ k # 1
      <4>1. k \in 2 .. Len(stack) + 1 /\ k - 1 \in 1 .. Len(stack)
        BY <1>5, <3>2
      <4>2. QED
        BY <1>6, <1>7, <2>1, <3>2, <4>1
    <3>3. CASE i # 1 /\ k = 1
      <4>1. i \in 2 .. Len(stack) + 1 /\ i - 1 \in 1 .. Len(stack)
        BY <1>5, <3>3
      <4>2. QED
        BY <1>6, <1>7, <2>1, <3>3, <4>1
    <3>4. CASE i # 1 /\ k # 1
      <4>1. /\ i \in 2 .. Len(stack) + 1 /\ i - 1 \in 1 .. Len(stack)
            /\ k \in 2 .. Len(stack) + 1 /\ k - 1 \in 1 .. Len(stack)
        BY <1>5, <3>4
      <4>2. stack[i - 1] = stack[k - 1]
        BY <1>6, <2>1, <4>1
      <4>3. i - 1 = k - 1
        BY <1>8, <4>1, <4>2
      <4>4. QED
        BY <4>3
    <3>5. QED
      BY <3>1, <3>2, <3>3, <3>4
  <2>2. ASSUME NEW l \in Lanes
        PROVE  x.job_in_lane[l] = NULL <=>
                   \E i \in 1 .. Len(stack) + 1 : (<<idx>> \o stack)[i] = l
    <3>1. CASE l = idx
      <4>1. x.job_in_lane[l] = NULL
        BY <1>1, <1>3, <3>1 DEF Manager
      <4>2. 1 \in 1 .. Len(stack) + 1
        BY <1>5
      <4>3. QED
        BY <1>6, <3>1, <4>1, <4>2
    <3>2. CASE l # idx
      <4>1. x.job_in_lane[l] = m.job_in_lane[l]
        BY <1>1, <1>3, <3>2 DEF Manager
      <4>2. m.job_in_lane[l] = NULL <=> \E i \in 1 .. Len(stack) : stack[i] = l
        BY <1>1 DEF Stack, stack
      <4>3. ASSUME NEW i \in 1 .. Len(stack), stack[i] = l
            PROVE  i + 1 \in 1 .. Len(stack) + 1 /\ (<<idx>> \o stack)[i + 1] = l
        <5>1. i + 1 \in 2 .. Len(stack) + 1 /\ (i + 1) - 1 = i
          BY <1>5
        <5>2. QED
          BY <1>5, <1>6, <4>3, <5>1
      <4>4. ASSUME NEW i \in 1 .. Len(stack) + 1, (<<idx>> \o stack)[i] = l
            PROVE  i - 1 \in 1 .. Len(stack) /\ stack[i - 1] = l
        <5>1. i \in 2 .. Len(stack) + 1
          BY <1>5, <1>6, <3>2, <4>4
        <5>2. QED
          BY <1>5, <1>6, <4>4, <5>1
      <4>5. QED
        BY <4>1, <4>2, <4>3, <4>4
    <3>3. QED
      BY <3>1, <3>2
  <2>3. x.num_lanes_inuse + Len(x.unused_lanes) = NLANES /\ x.num_lanes_inuse <= FILL
    BY <1>3, <1>5, <1>6
  <2>4. ASSUME NEW i \in 1 .. NeverUsed
        PROVE  x.unused_lanes[Len(x.unused_lanes) - NeverUsed + i] = NeverFilled[i]
    <3>1. stack[Len(stack) - NeverUsed + i] = NeverFilled[i]
      BY <1>1 DEF Stack, stack
    <3>2. Len(stack) >= NeverUsed
      BY <1>5, LaneAssumption DEF NeverUsed
    <3>3. /\ (Len(stack) + 1) - NeverUsed + i \in 2 .. Len(stack) + 1
          /\ ((Len(stack) + 1) - NeverUsed + i) - 1 = Len(stack) - NeverUsed + i
      BY <1>5, <3>2
    <3>4. (<<idx>> \o stack)[(Len(stack) + 1) - NeverUsed + i] = NeverFilled[i]
      BY <1>6, <3>1, <3>3
    <3>5. x.unused_lanes = <<idx>> \o stack /\ Len(x.unused_lanes) = Len(stack) + 1
      BY <1>3, <1>6
    <3>6. x.unused_lanes[(Len(stack) + 1) - NeverUsed + i] = NeverFilled[i]
      BY <3>4, <3>5
    <3>7. QED
      BY <3>5, <3>6, Zenon
  <2>5. x.unused_lanes = <<idx>> \o stack /\ Len(x.unused_lanes) = Len(stack) + 1
    BY <1>3, <1>6
  <2>6. \A i, k \in 1 .. Len(x.unused_lanes) : x.unused_lanes[i] = x.unused_lanes[k] => i = k
    BY <2>1, <2>5
  <2>7. \A l \in Lanes : x.job_in_lane[l] = NULL <=>
            \E i \in 1 .. Len(x.unused_lanes) : x.unused_lanes[i] = l
    BY <2>2, <2>5
  <2>8. QED
    BY <2>3, <2>4, <2>6, <2>7 DEF Stack
<1>12. /\ BusyLanes(x) = busy
       /\ \A l \in busy : /\ l \in Lanes
                           /\ x.job_in_lane[l] = m.job_in_lane[l]
                           /\ m.job_in_lane[l] \in Jobs
                           /\ m.job_in_lane[l] # j
  <2>1. \A l \in Lanes : x.job_in_lane[l] = IF l = idx THEN NULL ELSE m.job_in_lane[l]
    BY <1>1, <1>3 DEF Manager
  <2>2. BusyLanes(x) = busy
    BY <2>1 DEF BusyLanes, busy
  <2>3. ASSUME NEW l \in busy
        PROVE  m.job_in_lane[l] \in Jobs /\ m.job_in_lane[l] # j
    BY <1>1 DEF Owners, Manager, BusyLanes, busy, j
  <2>4. QED
    BY <2>1, <2>2, <2>3 DEF BusyLanes, busy
<1>13. Owners(x, after)
  <2>1. \A l \in BusyLanes(x) : after[x.job_in_lane[l]].status = "BEING_PROCESSED"
    BY <1>1, <1>4, <1>12 DEF Owners, busy
  <2>2. ASSUME NEW i \in Jobs, after[i].status = "BEING_PROCESSED"
        PROVE  \E l \in Lanes : x.job_in_lane[l] = i
    <3>1. i # j /\ jobs[i].status = "BEING_PROCESSED"
      BY <1>4, <2>2
    <3>2. PICK l \in Lanes : m.job_in_lane[l] = i
      BY <1>1, <3>1 DEF Owners
    <3>3. l \in busy
      BY <3>1, <3>2, LaneAssumption DEF BusyLanes, busy, j
    <3>4. QED
      BY <1>12, <3>2, <3>3
  <2>3. \A k, l \in BusyLanes(x) : x.job_in_lane[k] = x.job_in_lane[l] => k = l
    BY <1>1, <1>12 DEF Owners, busy
  <2>4. QED
    BY <2>1, <2>2, <2>3 DEF Owners
<1>14. Contents(x, memory, goal)
  <2> SUFFICES ASSUME NEW l \in busy
               PROVE  Midway(x, memory, l, goal[m.job_in_lane[l]])
    BY <1>12 DEF Contents
  <2>1. x.lens[l] = m.lens[l] /\ x.data_ptr[l] = m.data_ptr[l] /\ x.digest[l] = m.digest[l]
    BY <1>3, <1>12
  <2>2. Midway(m, memory, l, goal[m.job_in_lane[l]])
    BY <1>1 DEF Contents, busy
  <2>3. QED
    BY <2>1, <2>2 DEF Midway
<1>15. m.digest[idx] = goal[j].text
  <2> DEFINE g   == goal[j]
             off == m.data_ptr[idx].off
  <2>1. /\ m.data_ptr[idx] \in Pointer
        /\ m.digest[idx] \in Seq(Byte)
        /\ Midway(m, memory, idx, g)
    BY BusyLaneIs DEF j
  <2>2. off \in Nat /\ off + 0 * BLOCK_SIZE = g.end
    BY <2>1 DEF Midway, Pointer
  <2>3. 0 * BLOCK_SIZE = 0
    BY LaneAssumption
  <2>4. g.end = off
    BY <2>2, <2>3
  <2>5. SubSeq(memory[g.buf], off + 1, off) = << >>
    BY <2>2, SubSeqEmpty
  <2>6. m.digest[idx] \o << >> = g.text
    BY <2>1, <2>4, <2>5 DEF Midway
  <2>7. QED
    BY <2>1, <2>6, ConcatEmptySeq
<1>16. Leaves(j, jobs, after, goal)
  <2>1. jobs[j].status = "BEING_PROCESSED"
    BY <1>1 DEF Owners, j
  <2>2. QED
    BY <1>2, <1>4, <1>15, <2>1 DEF Leaves, InPool
<1>17. Sane(x, memory, after, goal)
  BY <1>1, <1>4, <1>10, <1>11, <1>13, <1>14 DEF Sane
<1>18. QED
  BY <1>2, <1>3, <1>16, <1>17 DEF x, after, j

-----------------------------------------------------------------------------
(* What the search over the lanes K needs to find: the shortest word is    *)
(* that of a busy lane, no lane has fewer blocks, and every lane reads     *)
(* what a busy lane of K reads.                                            *)
Runnable(m, K) ==
    /\ \E b \in BusyLanes(m) \cap K : m.lens[b] = Shortest(m, K)
    /\ \A k \in K : Shortest(m, K).blocks <= m.lens[k].blocks
    /\ \A k \in K : \E d \in BusyLanes(m) \cap K : m.data_ptr[k] = m.data_ptr[d]

(* The search finds a shortest word.                                       *)
LEMMA ShortestIs ==
  ASSUME NEW m \in Manager, NEW K \in SUBSET Lanes, K # {}
  PROVE  \E l \in K : /\ Shortest(m, K) = m.lens[l]
                      /\ \A k \in K : /\ ~Below(m.lens[k], m.lens[l])
                                      /\ m.lens[l].blocks <= m.lens[k].blocks
<1>1. m.lens \in [Lanes -> PackedLen]
  BY DEF Manager
<1>2. PICK l \in K : /\ Shortest(m, K) = m.lens[l]
                     /\ \A k \in K : ~Below(m.lens[k], m.lens[l])
  BY <1>1, ShortestExists DEF Shortest
<1>3. ASSUME NEW k \in K
      PROVE  m.lens[l].blocks <= m.lens[k].blocks
  <2>1. /\ m.lens[l].blocks \in Nat /\ m.lens[k].blocks \in Nat
        /\ ~(m.lens[k].blocks < m.lens[l].blocks)
    BY <1>1, <1>2 DEF Below, PackedLen
  <2>2. QED
    BY <2>1
<1>4. QED
  BY <1>2, <1>3

(* Compressing up to the shortest lane and retiring it touches nothing it  *)
(* may not touch, keeps the invariant and hands back one job.              *)
LEMMA ProcessSane ==
  ASSUME NEW m, NEW memory, NEW jobs, NEW goal, Sane(m, memory, jobs, goal), NEW K \in SUBSET Lanes, Runnable(m, K),
         NEW single \in BOOLEAN
  PROVE  LET r == Process(m, memory, jobs, K, single)
         IN  /\ Sane(r.mgr, memory, r.job, goal)
             /\ r.mgr.num_lanes_inuse = m.num_lanes_inuse - 1
             /\ r.ret \in Jobs
             /\ r.fault = FALSE
             /\ Leaves(r.ret, jobs, r.job, goal)
<1> DEFINE word   == Shortest(m, K)
           idx    == word.tag
           n      == word.blocks
           active == IF single THEN {idx} ELSE K
           done   == IF n = 0 THEN m ELSE Compress(m, memory, active, n)
           j      == m.job_in_lane[idx]
           after  == [jobs EXCEPT ![j] = JobWith(@, "COMPLETED", done.digest[idx])]
<1>1. PICK b \in BusyLanes(m) \cap K : m.lens[b] = word
  BY DEF Runnable
<1>2. m.lens[b].tag = b /\ m.lens[b] \in PackedLen
  BY <1>1 DEF Sane, Contents, Midway, Manager
<1>3. idx = b /\ idx \in Lanes /\ idx \in BusyLanes(m) /\ idx \in K
  BY <1>1, <1>2
<1>4. n \in Nat /\ n = m.lens[idx].blocks
  BY <1>1, <1>2, <1>3 DEF PackedLen
<1>5. /\ active \in SUBSET Lanes
      /\ idx \in active
      /\ HaveBlocks(m, active, n)
  BY <1>3 DEF Runnable, HaveBlocks
<1> HIDE DEF word, idx, n, active
<1>6. Ran(m, memory, jobs, goal, active, n, Compress(m, memory, active, n))
  BY <1>4, <1>5, CompressSane
<1>7. /\ Sane(done, memory, jobs, goal)
      /\ idx \in BusyLanes(done)
      /\ done.job_in_lane = m.job_in_lane
      /\ done.num_lanes_inuse = m.num_lanes_inuse
      /\ done.lens[idx].blocks = 0
  <2>1. CASE n = 0
    BY <1>3, <1>4, <2>1
  <2>2. CASE n # 0
    <3>1. done = Compress(m, memory, active, n)
      BY <2>2
    <3>2. Shortened(m.lens[idx], n).blocks = 0
      BY <1>4 DEF Shortened
    <3>3. QED
      BY <1>3, <1>5, <1>6, <3>1, <3>2 DEF Ran
  <2>3. QED
    BY <2>1, <2>2
<1>8. m.job_in_lane[idx] # NULL
  BY <1>3 DEF BusyLanes
<1>9. Process(m, memory, jobs, K, single) = Result(Retire(done, idx), after, j)
  BY <1>3, <1>6, <1>8 DEF Process, Ran, word, idx, n, active
<1> HIDE DEF done
<1>10. /\ j \in Jobs
       /\ Retire(done, idx).num_lanes_inuse = m.num_lanes_inuse - 1
       /\ Sane(Retire(done, idx), memory, after, goal)
       /\ Leaves(j, jobs, after, goal)
  BY <1>7, RetireSane
<1> HIDE DEF after, j
<1>13. /\ Result(Retire(done, idx), after, j).mgr = Retire(done, idx)
       /\ Result(Retire(done, idx), after, j).job = after
       /\ Result(Retire(done, idx), after, j).ret = j
       /\ Result(Retire(done, idx), after, j).fault = FALSE
  BY DEF Result
<1>14. QED
  BY <1>9, <1>10, <1>13

(* When submit finds only the lanes it never fills on the stack, every     *)
(* lane it compresses is busy; when it finds others, there is room.        *)
LEMMA FullRunnable ==
  ASSUME NEW m, NEW memory, NEW jobs, NEW goal, Sane(m, memory, jobs, goal)
  PROVE  /\ m.unused_lanes = NeverFilled => Runnable(m, 0 .. FILL - 1)
         /\ m.unused_lanes = NeverFilled => m.num_lanes_inuse = FILL
         /\ m.unused_lanes # NeverFilled => m.num_lanes_inuse < FILL
<1> DEFINE stack == m.unused_lanes
<1>1. m \in Manager /\ Stack(m)
  BY DEF Sane
<1>2. /\ stack \in Seq(Lanes) /\ Len(stack) \in Nat
      /\ NLANES \in Nat /\ FILL \in Nat /\ 1 <= FILL /\ FILL <= NLANES
      /\ NeverUsed \in Nat /\ NeverUsed = NLANES - FILL
      /\ m.num_lanes_inuse \in Nat
      /\ m.num_lanes_inuse + Len(stack) = NLANES
      /\ m.num_lanes_inuse <= FILL
  BY <1>1, LaneAssumption, LenProperties DEF Manager, Stack, NeverUsed
<1>3. /\ NeverFilled \in Seq(Lanes)
      /\ Len(NeverFilled) = NeverUsed
      /\ \A i \in 1 .. NeverUsed : NeverFilled[i] = FILL - 1 + i
  <2>1. NeverFilled \in [1 .. NeverUsed -> Lanes]
    BY <1>2 DEF NeverFilled, Lanes
  <2>2. NeverFilled \in Seq(Lanes)
    BY <1>2, <2>1, SeqDef
  <2>3. Len(NeverFilled) = NeverUsed
    BY <1>2, <2>1, <2>2, LenProperties
  <2>4. QED
    BY <1>2, <2>2, <2>3 DEF NeverFilled
<1>4. ASSUME m.unused_lanes = NeverFilled
      PROVE  Runnable(m, 0 .. FILL - 1)
  <2>1. 0 .. FILL - 1 \in SUBSET Lanes /\ 0 .. FILL - 1 # {}
    BY <1>2 DEF Lanes
  <2>2. ASSUME NEW l \in 0 .. FILL - 1
        PROVE  l \in BusyLanes(m)
    <3>1. l \in Lanes
      BY <2>1
    <3>2. \A i \in 1 .. Len(stack) : stack[i] # l
      BY <1>2, <1>3, <1>4
    <3>3. m.job_in_lane[l] # NULL
      BY <1>1, <3>1, <3>2 DEF Stack
    <3>4. QED
      BY <3>1, <3>3 DEF BusyLanes
  <2>3. QED
    BY <1>1, <2>1, <2>2, ShortestIs DEF Runnable
<1>5. ASSUME m.num_lanes_inuse >= FILL
      PROVE  m.unused_lanes = NeverFilled
  <2>1. Len(stack) = NeverUsed
    BY <1>2, <1>5
  <2>2. ASSUME NEW i \in 1 .. NeverUsed
        PROVE  stack[i] = NeverFilled[i]
    <3>1. stack[Len(stack) - NeverUsed + i] = NeverFilled[i]
      BY <1>1 DEF Stack
    <3>2. Len(stack) - NeverUsed + i = i
      BY <1>2, <2>1
    <3>3. QED
      BY <3>1, <3>2
  <2>3. QED
    BY <1>2, <1>3, <2>1, <2>2, SeqEqual
<1>6. ASSUME m.unused_lanes = NeverFilled
      PROVE  m.num_lanes_inuse = FILL
  BY <1>2, <1>3, <1>6
<1>7. QED
  BY <1>2, <1>4, <1>5, <1>6

(* A set of lanes that is not empty has a last one.                        *)
LEMMA LastLane ==
  ASSUME NEW S \in SUBSET Lanes, S # {}
  PROVE  \E l \in S : \A k \in S : k <= l
<1> DEFINE lens == [l \in Lanes |-> [blocks |-> NLANES - l, tag |-> 0]]
<1>1. NLANES \in Nat /\ Lanes = 0 .. NLANES - 1
  BY LaneAssumption DEF Lanes
<1>2. lens \in [Lanes -> PackedLen]
  BY <1>1 DEF PackedLen
<1>3. PICK l \in S : \A k \in S : ~Below(lens[k], lens[l])
  BY <1>2, ShortestExists
<1>4. ASSUME NEW k \in S
      PROVE  k <= l
  <2>1. ~(NLANES - k < NLANES - l)
    BY <1>3 DEF Below
  <2>2. QED
    BY <1>1, <2>1
<1>5. QED
  BY <1>4

(* The word of an empty lane sorts after that of any job, except for the   *)
(* longest job in the last lane, whose word may be the same.               *)
LEMMA EmptyWordLast ==
  ASSUME NEW w \in PackedLen, Fits(w.blocks), w.tag <= NLANES - 1,
         ~Below(w, [blocks |-> EMPTY_LEN, tag |-> EMPTY_TAG])
  PROVE  w = [blocks |-> EMPTY_LEN, tag |-> EMPTY_TAG]
<1>1. w.blocks \in Nat /\ w.tag \in Nat
  BY DEF PackedLen
<1>2. EMPTY_LEN \in Nat /\ EMPTY_TAG \in Nat /\ NLANES \in Nat
  BY LaneAssumption
<1>3. ~(w.blocks < EMPTY_LEN) /\ ~(w.blocks = EMPTY_LEN /\ w.tag < EMPTY_TAG)
  BY DEF Below
<1>4. w.blocks = EMPTY_LEN
  BY <1>1, <1>2, <1>3 DEF Fits
<1>5. w.tag = EMPTY_TAG
  BY <1>1, <1>2, <1>3, <1>4 DEF Fits
<1>6. QED
  BY <1>4, <1>5 DEF PackedLen

(* The empty lanes follow a busy one: its data is readable for as many     *)
(* blocks as the shortest job has, and no empty lane is found shortest.    *)
LEMMA CopyRunnable ==
  ASSUME NEW m, NEW memory, NEW jobs, NEW goal, Sane(m, memory, jobs, goal), m.num_lanes_inuse # 0
  PROVE  LET c == CopyToEmptyLanes(m)
         IN  /\ Sane(c, memory, jobs, goal)
             /\ Runnable(c, Lanes)
             /\ c.num_lanes_inuse = m.num_lanes_inuse
<1> DEFINE c     == CopyToEmptyLanes(m)
           stack == m.unused_lanes
<1>1. /\ m \in Manager
      /\ memory \in [Buffers -> Seq(Byte)]
      /\ jobs \in [Jobs -> Job]
      /\ goal \in [Jobs -> Goal]
      /\ Stack(m) /\ Owners(m, jobs) /\ Contents(m, memory, goal)
  BY DEF Sane
<1>2. /\ stack \in Seq(Lanes) /\ Len(stack) \in Nat
      /\ NLANES \in Nat
      /\ m.num_lanes_inuse \in Nat
      /\ m.num_lanes_inuse + Len(stack) = NLANES
  BY <1>1, LaneAssumption, LenProperties DEF Manager, Stack
<1>3. BusyLanes(m) # {}
  <2> SUFFICES ASSUME BusyLanes(m) = {}
               PROVE  FALSE
    OBVIOUS
  <2>1. \A l \in Lanes : \E i \in 1 .. Len(stack) : stack[i] = l
    BY <1>1 DEF Stack, BusyLanes
  <2>2. stack \in Surjection(1 .. Len(stack), Lanes)
    BY <1>2, <2>1, LenProperties DEF Surjection
  <2>3. Cardinality(Lanes) <= Len(stack)
    BY <1>2, <2>2, FS_SurjCardinalityBound DEF ExistsSurjection
  <2>4. Cardinality(Lanes) = NLANES
    BY <1>2, FS_Interval DEF Lanes
  <2>5. QED
    BY <1>2, <2>3, <2>4
<1>4. PICK d \in BusyLanes(m) : d = Donor(m)
  <2>1. BusyLanes(m) \subseteq Lanes
    BY DEF BusyLanes
  <2>2. \E l \in BusyLanes(m) : \A k \in BusyLanes(m) : k <= l
    BY <1>2, <1>3, <2>1, LastLane
  <2>3. QED
    BY <1>3, <2>2 DEF Donor
<1>5. d \in Lanes /\ m.job_in_lane[d] # NULL
  BY DEF BusyLanes
<1>6. /\ c.unused_lanes = m.unused_lanes
      /\ c.num_lanes_inuse = m.num_lanes_inuse
      /\ c.job_in_lane = m.job_in_lane
      /\ c.digest = m.digest
      /\ c.lens = [l \in Lanes |-> IF m.job_in_lane[l] = NULL THEN EmptyWord ELSE m.lens[l]]
      /\ c.data_ptr = [l \in Lanes |-> IF m.job_in_lane[l] = NULL
                                       THEN m.data_ptr[d] ELSE m.data_ptr[l]]
  BY <1>4 DEF CopyToEmptyLanes
<1>7. c \in Manager
  <2>1. EmptyWord \in PackedLen
    BY LaneAssumption DEF EmptyWord, PackedLen
  <2>2. c.lens \in [Lanes -> PackedLen]
    BY <1>1, <1>6, <2>1 DEF Manager
  <2>3. c.data_ptr \in [Lanes -> Pointer \cup {StalePtr}]
    BY <1>1, <1>5, <1>6 DEF Manager
  <2>4. QED
    BY <1>1, <1>6, <2>2, <2>3 DEF Manager, CopyToEmptyLanes
<1> HIDE DEF c
<1>8. BusyLanes(c) = BusyLanes(m)
  BY <1>6 DEF BusyLanes
<1>9. \A l \in BusyLanes(m) : c.lens[l] = m.lens[l] /\ c.data_ptr[l] = m.data_ptr[l]
  BY <1>6 DEF BusyLanes
<1>10. Stack(c) /\ Owners(c, jobs)
  BY <1>1, <1>6, <1>8 DEF Stack, Owners
<1>11. Contents(c, memory, goal)
  <2> SUFFICES ASSUME NEW l \in BusyLanes(m)
               PROVE  Midway(c, memory, l, goal[m.job_in_lane[l]])
    BY <1>6, <1>8 DEF Contents
  <2>1. Midway(m, memory, l, goal[m.job_in_lane[l]])
    BY <1>1 DEF Contents
  <2>2. c.lens[l] = m.lens[l] /\ c.data_ptr[l] = m.data_ptr[l] /\ c.digest[l] = m.digest[l]
    BY <1>6, <1>9
  <2>3. QED
    BY <2>1, <2>2 DEF Midway
<1>12. Sane(c, memory, jobs, goal)
  BY <1>1, <1>7, <1>10, <1>11 DEF Sane
<1>13. ASSUME NEW l \in BusyLanes(m)
       PROVE  /\ l \in Lanes
              /\ c.lens[l] \in PackedLen
              /\ c.lens[l].tag = l
              /\ Fits(c.lens[l].blocks)
  <2>1. l \in Lanes /\ m.job_in_lane[l] \in Jobs
    BY <1>1 DEF BusyLanes, Manager
  <2>2. Midway(m, memory, l, goal[m.job_in_lane[l]])
    BY <1>1 DEF Contents
  <2>3. c.lens[l] \in PackedLen
    BY <1>7, <2>1 DEF Manager
  <2>4. QED
    BY <1>9, <2>1, <2>2, <2>3 DEF Midway
<1>14. PICK s \in Lanes : /\ Shortest(c, Lanes) = c.lens[s]
                          /\ \A k \in Lanes : /\ ~Below(c.lens[k], c.lens[s])
                                             /\ c.lens[s].blocks <= c.lens[k].blocks
  BY <1>5, <1>7, ShortestIs
<1>15. \E b \in BusyLanes(c) : c.lens[b] = Shortest(c, Lanes)
  <2>1. CASE s \in BusyLanes(m)
    BY <1>8, <1>14, <2>1
  <2>2. CASE s \notin BusyLanes(m)
    <3>1. c.lens[s] = [blocks |-> EMPTY_LEN, tag |-> EMPTY_TAG]
      BY <1>6, <2>2 DEF BusyLanes, EmptyWord
    <3>2. ~Below(c.lens[d], [blocks |-> EMPTY_LEN, tag |-> EMPTY_TAG])
      BY <1>5, <1>14, <3>1
    <3>3. c.lens[d] \in PackedLen /\ Fits(c.lens[d].blocks) /\ c.lens[d].tag <= NLANES - 1
      BY <1>2, <1>5, <1>13 DEF Lanes
    <3>4. c.lens[d] = [blocks |-> EMPTY_LEN, tag |-> EMPTY_TAG]
      BY <3>2, <3>3, EmptyWordLast
    <3>5. QED
      BY <1>8, <1>14, <3>1, <3>4
  <2>3. QED
    BY <2>1, <2>2
<1>16. \A k \in Lanes : \E b \in BusyLanes(c) : c.data_ptr[k] = c.data_ptr[b]
  <2> SUFFICES ASSUME NEW k \in Lanes
               PROVE  \E b \in BusyLanes(c) : c.data_ptr[k] = c.data_ptr[b]
    OBVIOUS
  <2>1. CASE m.job_in_lane[k] = NULL
    BY <1>4, <1>5, <1>6, <1>8, <2>1
  <2>2. CASE m.job_in_lane[k] # NULL
    BY <1>8, <2>2 DEF BusyLanes
  <2>3. QED
    BY <2>1, <2>2
<1>17. Runnable(c, Lanes)
  BY <1>14, <1>15, <1>16 DEF Runnable, BusyLanes
<1>18. QED
  BY <1>6, <1>12, <1>17 DEF c

-----------------------------------------------------------------------------
(* What a call of submit or flush leaves behind.                           *)
Submitted(m, memory, jobs, goal, j, r) ==
    /\ Sane(r.mgr, memory, r.job, goal)
    /\ r.mgr.num_lanes_inuse < FILL
    /\ r.fault = FALSE
    /\ \/ /\ r.ret = NULL
          /\ r.job = Marked(jobs, j)
          /\ m.num_lanes_inuse + 1 < FILL
       \/ /\ r.ret \in Jobs
          /\ Leaves(r.ret, Marked(jobs, j), r.job, goal)
          /\ m.num_lanes_inuse + 1 >= FILL

Flushed(m, memory, jobs, goal, r) ==
    /\ Sane(r.mgr, memory, r.job, goal)
    /\ r.mgr.num_lanes_inuse < FILL
    /\ r.fault = FALSE
    /\ \/ /\ r.ret = NULL
          /\ r.job = jobs
          /\ m.num_lanes_inuse = 0
       \/ /\ r.ret \in Jobs
          /\ Leaves(r.ret, jobs, r.job, goal)

(* Submit loads a lane, and compresses and hands a job back when that was  *)
(* the last one it fills.                                                  *)
LEMMA SubmitSane ==
  ASSUME NEW m, NEW memory, NEW jobs, NEW goal, Sane(m, memory, jobs, goal),
         m.num_lanes_inuse < FILL,
         NEW j \in Jobs, jobs[j].status # "BEING_PROCESSED", Legal(memory, jobs[j]),
         NEW goal2, Aimed(goal, goal2, j, GoalOf(memory, jobs[j]))
  PROVE  Submitted(m, memory, jobs, goal2, j, SubmitJob(m, memory, jobs, j))
<1> DEFINE marked == Marked(jobs, j)
           a      == Admit(m, jobs, j)
           p      == Process(a, memory, marked, 0 .. FILL - 1, FALSE)
<1>1. /\ m.unused_lanes # << >>
      /\ a.num_lanes_inuse = m.num_lanes_inuse + 1
      /\ Sane(a, memory, marked, goal2)
  BY AdmitSane
<1>2. /\ FILL \in Nat /\ 0 .. FILL - 1 \in SUBSET Lanes
      /\ m.num_lanes_inuse \in Nat /\ m.num_lanes_inuse < FILL
  BY LaneAssumption DEF Lanes, Sane, Manager
<1>3. SubmitJob(m, memory, jobs, j) =
        IF a.unused_lanes # NeverFilled THEN Result(a, marked, NULL) ELSE p
  BY <1>1 DEF SubmitJob, Marked
<1> HIDE DEF marked, a, p
<1>4. CASE a.unused_lanes # NeverFilled
  <2>1. SubmitJob(m, memory, jobs, j) = Result(a, marked, NULL)
    BY <1>3, <1>4
  <2>2. a.num_lanes_inuse < FILL
    BY <1>1, <1>4, FullRunnable
  <2>3. m.num_lanes_inuse + 1 < FILL
    BY <1>1, <2>2
  <2>4. QED
    BY <1>1, <2>1, <2>2, <2>3 DEF Submitted, Result, marked
<1>5. CASE a.unused_lanes = NeverFilled
  <2>1. Runnable(a, 0 .. FILL - 1) /\ a.num_lanes_inuse = FILL
    BY <1>1, <1>5, FullRunnable
  <2>2. /\ Sane(p.mgr, memory, p.job, goal2)
        /\ p.mgr.num_lanes_inuse = a.num_lanes_inuse - 1
        /\ p.ret \in Jobs
        /\ p.fault = FALSE
        /\ Leaves(p.ret, marked, p.job, goal2)
    BY <1>1, <1>2, <2>1, ProcessSane DEF p
  <2>3. SubmitJob(m, memory, jobs, j) = p
    BY <1>3, <1>5
  <2>4. p.mgr.num_lanes_inuse < FILL
    BY <1>1, <1>2, <2>2
  <2>5. m.num_lanes_inuse + 1 >= FILL
    BY <1>1, <1>2, <2>1
  <2>6. QED
    BY <2>2, <2>3, <2>4, <2>5 DEF Submitted, marked
<1>6. QED
  BY <1>4, <1>5

(* Flush hands a job back whenever one is in a lane.                       *)
LEMMA FlushSane ==
  ASSUME NEW m, NEW memory, NEW jobs, NEW goal, Sane(m, memory, jobs, goal),
         m.num_lanes_inuse < FILL
  PROVE  Flushed(m, memory, jobs, goal, FlushJob(m, memory, jobs))
<1> DEFINE c == CopyToEmptyLanes(m)
           p == Process(c, memory, jobs, Lanes, m.num_lanes_inuse <= SB_THRESHOLD)
<1>1. FlushJob(m, memory, jobs) =
        IF m.num_lanes_inuse = 0 THEN Result(m, jobs, NULL) ELSE p
  BY DEF FlushJob
<1> HIDE DEF p
<1>2. CASE m.num_lanes_inuse = 0
  <2>1. FlushJob(m, memory, jobs) = Result(m, jobs, NULL)
    BY <1>1, <1>2
  <2>2. QED
    BY <1>2, <2>1 DEF Flushed, Result
<1>3. CASE m.num_lanes_inuse # 0
  <2>1. /\ Sane(c, memory, jobs, goal)
        /\ Runnable(c, Lanes)
        /\ c.num_lanes_inuse = m.num_lanes_inuse
    BY <1>3, CopyRunnable
  <2> HIDE DEF c
  <2>2. /\ Sane(p.mgr, memory, p.job, goal)
        /\ p.mgr.num_lanes_inuse = c.num_lanes_inuse - 1
        /\ p.ret \in Jobs
        /\ p.fault = FALSE
        /\ Leaves(p.ret, jobs, p.job, goal)
    <3>1. (m.num_lanes_inuse <= SB_THRESHOLD) \in BOOLEAN
      OBVIOUS
    <3>2. QED
      BY <2>1, <3>1, ProcessSane DEF p
  <2>3. FlushJob(m, memory, jobs) = p
    BY <1>1, <1>3
  <2>4. p.mgr.num_lanes_inuse < FILL
    <3>1. m.num_lanes_inuse \in Nat /\ FILL \in Nat
      BY LaneAssumption DEF Sane, Manager
    <3>2. QED
      BY <2>1, <2>2, <3>1
  <2>5. QED
    BY <2>2, <2>3, <2>4 DEF Flushed
<1>4. QED
  BY <1>2, <1>3

(* A job handed back is the only one that leaves the pool, and what every  *)
(* job has absorbed or will is what it was.                                *)
LEMMA LeavesIs ==
  ASSUME NEW jobs \in [Jobs -> Job], NEW after \in [Jobs -> Job],
         NEW goal \in [Jobs -> Goal], NEW j \in Jobs, Leaves(j, jobs, after, goal)
  PROVE  /\ InPool(after) = InPool(jobs) \ {j}
         /\ \A i \in Jobs : /\ Text(after, goal, i) = Text(jobs, goal, i)
                            /\ after[i].buffer = jobs[i].buffer
                            /\ after[i].len = jobs[i].len
         /\ after[j].status = "COMPLETED"
<1>1. \A i \in Jobs : i # j => after[i] = jobs[i]
  BY DEF Leaves
<1>2. /\ after[j].buffer = jobs[j].buffer
      /\ after[j].len = jobs[j].len
      /\ after[j].status = "COMPLETED"
      /\ after[j].result_digest = goal[j].text
  BY DEF Leaves, JobWith
<1>3. jobs[j].status = "BEING_PROCESSED"
  BY DEF Leaves, InPool
<1>4. QED
  BY <1>1, <1>2, <1>3 DEF InPool, Text

(* The same of the job that submit takes.                                  *)
LEMMA MarkedIs ==
  ASSUME NEW jobs \in [Jobs -> Job], NEW j \in Jobs
  PROVE  /\ Marked(jobs, j) \in [Jobs -> Job]
         /\ InPool(Marked(jobs, j)) = InPool(jobs) \cup {j}
         /\ \A i \in Jobs \ {j} : Marked(jobs, j)[i] = jobs[i]
         /\ Marked(jobs, j)[j].buffer = jobs[j].buffer
         /\ Marked(jobs, j)[j].len = jobs[j].len
         /\ Marked(jobs, j)[j].status = "BEING_PROCESSED"
<1>1. /\ JobWith(jobs[j], "BEING_PROCESSED", jobs[j].result_digest) \in Job
      /\ JobWith(jobs[j], "BEING_PROCESSED", jobs[j].result_digest).status = "BEING_PROCESSED"
      /\ JobWith(jobs[j], "BEING_PROCESSED", jobs[j].result_digest).buffer = jobs[j].buffer
      /\ JobWith(jobs[j], "BEING_PROCESSED", jobs[j].result_digest).len = jobs[j].len
  BY DEF JobWith, Job, JobSts
<1>2. /\ Marked(jobs, j) \in [Jobs -> Job]
      /\ Marked(jobs, j)[j] = JobWith(jobs[j], "BEING_PROCESSED", jobs[j].result_digest)
      /\ \A i \in Jobs \ {j} : Marked(jobs, j)[i] = jobs[i]
  BY <1>1 DEF Marked
<1>3. QED
  BY <1>1, <1>2 DEF InPool

-----------------------------------------------------------------------------
(* A manager that mb_mgr_init has set up is sane, with no job in a lane.   *)
LEMMA InitSane ==
  ASSUME NEW memory \in [Buffers -> Seq(Byte)], NEW jobs \in [Jobs -> Job],
         NEW goal \in [Jobs -> Goal], InPool(jobs) = {}
  PROVE  /\ Sane(InitManager, memory, jobs, goal)
         /\ InitManager.num_lanes_inuse = 0
         /\ InitManager.num_lanes_inuse < FILL
<1> DEFINE m == InitManager
<1>1. /\ NLANES \in Nat /\ FILL \in Nat /\ 1 <= FILL /\ FILL <= NLANES
      /\ NULL \notin Jobs
  BY LaneAssumption
<1>2. /\ m.unused_lanes \in Seq(Lanes)
      /\ Len(m.unused_lanes) = NLANES
      /\ \A i \in 1 .. NLANES : m.unused_lanes[i] = i - 1
  <2> DEFINE stack == [i \in 1 .. NLANES |-> i - 1]
  <2>1. stack \in [1 .. NLANES -> Lanes]
    BY <1>1 DEF Lanes
  <2>2. stack \in Seq(Lanes)
    BY <1>1, <2>1, SeqDef
  <2>3. Len(stack) = NLANES
    BY <1>1, <2>1, <2>2, LenProperties
  <2>4. QED
    BY <2>2, <2>3 DEF InitManager
<1>3. /\ m.num_lanes_inuse = 0
      /\ \A l \in Lanes : m.job_in_lane[l] = NULL
      /\ BusyLanes(m) = {}
  BY DEF InitManager, BusyLanes
<1>4. m \in Manager
  <2>1. m.lens \in [Lanes -> PackedLen]
    BY DEF InitManager, PackedLen
  <2>2. m.job_in_lane \in [Lanes -> Jobs \cup {NULL}]
    BY DEF InitManager
  <2>3. m.data_ptr \in [Lanes -> Pointer \cup {StalePtr}]
    BY DEF InitManager
  <2>4. m.digest \in [Lanes -> Seq(Byte)]
    BY EmptySeq DEF InitManager
  <2>5. QED
    BY <1>2, <1>3, <2>1, <2>2, <2>3, <2>4 DEF Manager, InitManager
<1>5. Stack(m)
  <2> HIDE DEF m
  <2>1. \A i, k \in 1 .. NLANES : m.unused_lanes[i] = m.unused_lanes[k] => i = k
    BY <1>1, <1>2
  <2>2. ASSUME NEW l \in Lanes
        PROVE  \E i \in 1 .. NLANES : m.unused_lanes[i] = l
    <3>1. l + 1 \in 1 .. NLANES /\ (l + 1) - 1 = l
      BY <1>1 DEF Lanes
    <3>2. QED
      BY <1>2, <3>1
  <2>3. ASSUME NEW i \in 1 .. NeverUsed
        PROVE  m.unused_lanes[NLANES - NeverUsed + i] = NeverFilled[i]
    <3>1. NLANES - NeverUsed + i = FILL + i /\ FILL + i \in 1 .. NLANES
      BY <1>1 DEF NeverUsed
    <3>2. m.unused_lanes[FILL + i] = (FILL + i) - 1
      BY <1>2, <3>1
    <3>3. NeverFilled[i] = FILL - 1 + i
      BY DEF NeverFilled, NeverUsed
    <3>4. QED
      BY <1>1, <3>1, <3>2, <3>3
  <2>4. 0 + NLANES = NLANES /\ 0 <= FILL
    BY <1>1
  <2>5. QED
    BY <1>2, <1>3, <2>1, <2>2, <2>3, <2>4 DEF Stack
<1> HIDE DEF m
<1>6. Owners(m, jobs) /\ Contents(m, memory, goal)
  BY <1>3 DEF Owners, Contents, InPool
<1>7. QED
  BY <1>1, <1>3, <1>4, <1>5, <1>6 DEF Sane, m

(* num_lanes_inuse counts the jobs being processed.                        *)
LEMMA PoolSize ==
  ASSUME NEW m, NEW memory, NEW jobs, NEW goal, Sane(m, memory, jobs, goal)
  PROVE  IsFiniteSet(InPool(jobs)) /\ Cardinality(InPool(jobs)) = m.num_lanes_inuse
<1> DEFINE stack == m.unused_lanes
           Free  == Lanes \ BusyLanes(m)
<1>1. m \in Manager /\ jobs \in [Jobs -> Job] /\ Stack(m) /\ Owners(m, jobs)
  BY DEF Sane
<1>2. /\ stack \in Seq(Lanes) /\ Len(stack) \in Nat
      /\ NLANES \in Nat
      /\ m.num_lanes_inuse \in Nat
      /\ m.num_lanes_inuse + Len(stack) = NLANES
  BY <1>1, LaneAssumption, LenProperties DEF Manager, Stack
<1>3. IsFiniteSet(Lanes) /\ Cardinality(Lanes) = NLANES
  BY <1>2, FS_Interval DEF Lanes
<1>4. BusyLanes(m) \subseteq Lanes
  BY DEF BusyLanes
<1>5. Cardinality(Free) = Len(stack)
  <2>1. IsFiniteSet(1 .. Len(stack)) /\ Cardinality(1 .. Len(stack)) = Len(stack)
    <3> DEFINE n == Len(stack)
    <3> HIDE DEF n
    <3>1. n \in Nat
      BY <1>2 DEF n
    <3>2. IsFiniteSet(1 .. n) /\ Cardinality(1 .. n) = n
      BY <3>1, FS_Interval
    <3>3. QED
      BY <3>2 DEF n
  <2>2. \A l \in Lanes : l \in Free <=> \E i \in 1 .. Len(stack) : stack[i] = l
    BY <1>1 DEF Stack, BusyLanes
  <2>3. stack \in Bijection(1 .. Len(stack), Free)
    <3>1. stack \in [1 .. Len(stack) -> Free]
      BY <1>2, <2>2, LenProperties, ElementOfSeq
    <3>2. \A i, k \in 1 .. Len(stack) : stack[i] = stack[k] => i = k
      BY <1>1 DEF Stack
    <3>3. \A l \in Free : \E i \in 1 .. Len(stack) : stack[i] = l
      BY <2>2
    <3>4. QED
      BY <3>1, <3>2, <3>3 DEF Bijection, Injection, IsInjective, Surjection
  <2>4. QED
    BY <2>1, <2>3, FS_Bijection DEF ExistsBijection
<1>6. IsFiniteSet(BusyLanes(m)) /\ Cardinality(BusyLanes(m)) = m.num_lanes_inuse
  <2>1. /\ IsFiniteSet(BusyLanes(m)) /\ Cardinality(BusyLanes(m)) \in Nat
    BY <1>3, <1>4, FS_Subset, FS_CardinalityType
  <2>2. Cardinality(Free) = Cardinality(Lanes) - Cardinality(Lanes \cap BusyLanes(m))
    BY <1>3, FS_Difference
  <2>3. Lanes \cap BusyLanes(m) = BusyLanes(m)
    BY <1>4
  <2>4. Len(stack) = NLANES - Cardinality(BusyLanes(m))
    BY <1>3, <1>5, <2>2, <2>3
  <2>5. QED
    BY <1>2, <2>1, <2>4
<1>7. [l \in BusyLanes(m) |-> m.job_in_lane[l]] \in Bijection(BusyLanes(m), InPool(jobs))
  <2> DEFINE f == [l \in BusyLanes(m) |-> m.job_in_lane[l]]
  <2>1. \A l \in BusyLanes(m) : m.job_in_lane[l] \in Jobs
    BY <1>1 DEF BusyLanes, Manager
  <2>2. f \in [BusyLanes(m) -> InPool(jobs)]
    BY <1>1, <2>1 DEF Owners, InPool
  <2>3. \A k, l \in BusyLanes(m) : f[k] = f[l] => k = l
    BY <1>1 DEF Owners
  <2>4. \A j \in InPool(jobs) : \E l \in BusyLanes(m) : f[l] = j
    BY <1>1, LaneAssumption DEF Owners, InPool, BusyLanes
  <2>5. QED
    BY <2>2, <2>3, <2>4 DEF Bijection, Injection, IsInjective, Surjection
<1>8. QED
  BY <1>6, <1>7, FS_Bijection DEF ExistsBijection
=============================================================================
