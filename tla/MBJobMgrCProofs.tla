-------------------------- MODULE MBJobMgrCProofs --------------------------
(***************************************************************************)
(* The safety invariants of the aarch64 managers, for any manager of the   *)
(* family, any number of lanes and stacks and any jobs.  The lanes (stacks,*)
(* counter, owners) are sound whatever the lengths; the digests are right  *)
(* as long as a length stays below half of what the length word holds, the *)
(* count the kernels take as positive.                                     *)
(***************************************************************************)
EXTENDS MBJobMgrC, FiniteSetTheorems, SequenceTheorems, TLAPS

(* A set of numbers has a least one: the smaller ones of each form a chain *)
(* of subsets of a finite set.                                             *)
LEMMA LeastExists ==
  ASSUME NEW K \in SUBSET Nat, K # {}
  PROVE  \E i \in K : \A k \in K : i <= k
<1>1. PICK n \in K : TRUE
  OBVIOUS
<1> DEFINE F    == 0 .. n
           D(i) == {k \in K : k < i}
           T    == {D(i) : i \in K \cap F}
<1>2. IsFiniteSet(F)
  BY <1>1, FS_Interval
<1>3. IsWellFoundedOn(StrictSubsetOrdering(F), SUBSET F)
  <2> HIDE DEF F
  <2>1. QED BY <1>2, FS_StrictSubsetOrderingWellFounded, FS_FiniteSubsetsOfFinite
<1>4. T \subseteq SUBSET F /\ T # {}
  <2>1. ASSUME NEW i \in K \cap F
        PROVE  D(i) \subseteq F
    <3>1. i \in 0 .. n /\ n \in Nat
      BY <1>1
    <3>2. \A k \in Nat : k < i => k \in 0 .. n
      BY <3>1
    <3>3. QED
      BY <3>2
  <2>2. n \in K \cap F
    BY <1>1
  <2> HIDE DEF F, D
  <2>3. QED
    BY <2>1, <2>2
<1>5. \E x \in T : \A y \in T : ~ (<<y, x>> \in StrictSubsetOrdering(F))
  <2> HIDE DEF T, F
  <2>1. QED BY <1>3, <1>4, WFMin
<1>6. PICK i \in K \cap F : \A y \in T : ~ (<<y, D(i)>> \in StrictSubsetOrdering(F))
  BY <1>5
<1>7. ASSUME NEW k \in K, k < i
      PROVE  FALSE
  <2>1. k \in K \cap F /\ i \in Nat /\ k \in Nat
    BY <1>1, <1>7
  <2>2. k \in D(i) /\ k \notin D(k) /\ D(k) \subseteq D(i) /\ D(i) \subseteq F
    <3>1. k \in D(i)
      BY <1>7, <2>1
    <3>2. k \notin D(k)
      BY <2>1
    <3>3. \A x \in K : x < k => x < i
      BY <1>7, <2>1
    <3>4. D(k) \subseteq D(i)
      BY <3>3
    <3>5. D(i) \subseteq F
      <4> HIDE DEF D, F
      <4>1. QED BY <1>4
    <3>6. QED
      BY <3>1, <3>2, <3>4, <3>5
  <2>3. <<D(k), D(i)>> \in StrictSubsetOrdering(F)
    BY <2>2 DEF StrictSubsetOrdering
  <2>4. QED
    BY <1>6, <2>1, <2>3
<1>8. QED
  BY <1>7

LEMMA LowestIs ==
  ASSUME NEW K \in SUBSET Nat, K # {}
  PROVE  Lowest(K) \in K /\ \A k \in K : Lowest(K) <= k
  BY LeastExists DEF Lowest

LEMMA DivisionIs ==
  ASSUME NEW b \in Nat \ {0}, NEW q \in Nat, NEW r \in 0 .. b - 1
  PROVE  (q * b + r) \div b = q
  OBVIOUS

LEMMA DivisionOf ==
  ASSUME NEW b \in Nat \ {0}, NEW a \in Nat
  PROVE  /\ a \div b \in Nat
         /\ a % b \in 0 .. b - 1
         /\ a = (a \div b) * b + (a % b)
  OBVIOUS

-----------------------------------------------------------------------------
(* The invariant of the lanes, of a manager that need not be that of a     *)
(* state.                                                                  *)
BusyLanes(m) == {i \in Lanes : m.job_in_lane[i] # NULL}
Owned(m)     == {m.job_in_lane[i] : i \in BusyLanes(m)}

Manager == [ unused_lanes    : [Groups -> Seq(Lanes)],
             num_lanes_inuse : Nat,
             lens            : [Lanes -> 0 .. LEN_MOD - 1],
             job_in_lane     : [Lanes -> Jobs \cup {NULL}] ]

JobRec == [ buffer : [of : Jobs, at : Int],
            len    : Nat,
            digest : Seq(Jobs \X Int),
            status : {"UNKNOWN", "COMPLETED"} ]

OnStackOf(m, i) ==
    \E k \in 1 .. Len(m.unused_lanes[GroupOf(i)]) : m.unused_lanes[GroupOf(i)][k] = i

Stacks(m) ==
    /\ \A g \in Groups : \A i, k \in 1 .. Len(m.unused_lanes[g]) :
            m.unused_lanes[g][i] = m.unused_lanes[g][k] => i = k
    /\ \A g \in Groups : \A k \in 1 .. Len(m.unused_lanes[g]) :
            GroupOf(m.unused_lanes[g][k]) = g
    /\ \A i \in Lanes : m.job_in_lane[i] = NULL <=> OnStackOf(m, i)

Sane(m) ==
    /\ m \in Manager
    /\ Stacks(m)
    /\ m.num_lanes_inuse = Cardinality(BusyLanes(m))
    /\ \A i, k \in BusyLanes(m) : m.job_in_lane[i] = m.job_in_lane[k] => i = k
    /\ \A i \in Lanes : m.job_in_lane[i] = NULL => m.lens[i] = 0

(* The kernels take every length of a job for a positive number.           *)
ShortJobs == MaxBlocks < LEN_MOD \div 2

(* The invariant of the jobs: one in a lane has absorbed the first blocks  *)
(* of its message, points behind them, and its lane counts the rest.       *)
Midway(jb, j, n) ==
    /\ jb.status = "UNKNOWN"
    /\ jb.buffer = [of |-> j, at |-> n]
    /\ jb.digest = Message(j, n)

Prefixes(m, jobs, ask) ==
    /\ \A i \in BusyLanes(m) :
            /\ m.lens[i] <= ask[m.job_in_lane[i]]
            /\ Midway(jobs[m.job_in_lane[i]], m.job_in_lane[i],
                      ask[m.job_in_lane[i]] - m.lens[i])
    /\ \A j \in Jobs : jobs[j].status = "COMPLETED" => jobs[j].digest = Message(j, ask[j])
    /\ \A j \in Jobs : \E n \in 0 .. MaxBlocks : jobs[j].digest = Message(j, n)

Good(m, jobs, ask) ==
    /\ Sane(m)
    /\ jobs \in [Jobs -> JobRec]
    /\ ask \in [Jobs -> 0 .. MaxBlocks]
    /\ ShortJobs => Prefixes(m, jobs, ask)

IInv ==
    /\ variant \in Variants
    /\ Good(mgr, job, asked)
    /\ mgr.num_lanes_inuse < variant.fill
    /\ ret \in Jobs \cup {NULL}
    /\ fault = FALSE

-----------------------------------------------------------------------------
(* Every lane is one of its group, and groups are numbers.                 *)
LEMMA LanesAndGroups ==
  ASSUME variant \in Variants
  PROVE  /\ NLANES \in Nat \ {0} /\ LEN_MOD \in Nat /\ LEN_MOD > 1
         /\ IsFiniteSet(Lanes) /\ Cardinality(Lanes) = NLANES
         /\ Lanes \subseteq Nat
         /\ \A i \in Lanes : GroupOf(i) \in Groups
         /\ variant.fill \in 1 .. NLANES
<1>1. NLANES \in Nat \ {0} /\ LEN_MOD \in Nat /\ LEN_MOD > 1 /\ variant.fill \in 1 .. NLANES
  BY VariantAssumption
<1>2. IsFiniteSet(Lanes) /\ Cardinality(Lanes) = NLANES
  BY <1>1, FS_Interval DEF Lanes
<1>3. QED
  BY <1>1, <1>2 DEF Lanes, Groups

(* The lanes with jobs are finitely many, and fewer than all of them leave *)
(* one without.                                                            *)
LEMMA BusyLanesCount ==
  ASSUME NEW m, variant \in Variants, Sane(m)
  PROVE  /\ IsFiniteSet(BusyLanes(m))
         /\ m.num_lanes_inuse \in 0 .. NLANES
         /\ m.num_lanes_inuse < NLANES => \E i \in Lanes : m.job_in_lane[i] = NULL
         /\ m.num_lanes_inuse = NLANES => BusyLanes(m) = Lanes
         /\ m.num_lanes_inuse = 0 <=> BusyLanes(m) = {}
<1>1. /\ IsFiniteSet(Lanes) /\ Cardinality(Lanes) = NLANES /\ NLANES \in Nat
      /\ BusyLanes(m) \in SUBSET Lanes
  BY LanesAndGroups DEF BusyLanes
<1>2. /\ IsFiniteSet(BusyLanes(m))
      /\ Cardinality(BusyLanes(m)) <= NLANES
      /\ Cardinality(BusyLanes(m)) = NLANES => BusyLanes(m) = Lanes
  BY <1>1, FS_Subset
<1>3. /\ m.num_lanes_inuse = Cardinality(BusyLanes(m))
      /\ m.num_lanes_inuse \in Nat
  BY DEF Sane, Manager
<1>4. m.num_lanes_inuse < NLANES => \E i \in Lanes : m.job_in_lane[i] = NULL
  <2>1. m.num_lanes_inuse < NLANES => BusyLanes(m) # Lanes
    BY <1>1, <1>3
  <2>2. QED
    BY <2>1 DEF BusyLanes
<1>5. m.num_lanes_inuse = 0 <=> BusyLanes(m) = {}
  BY <1>2, <1>3, FS_EmptySet
<1>6. QED
  BY <1>1, <1>2, <1>3, <1>4, <1>5

(* x is m with a job of len blocks in a lane that was free.                *)
Loaded(x, m, j, len) ==
    /\ x.num_lanes_inuse = m.num_lanes_inuse + 1
    /\ \E lane \in Lanes :
            /\ m.job_in_lane[lane] = NULL
            /\ x.lens = [m.lens EXCEPT ![lane] = len % LEN_MOD]
            /\ x.job_in_lane = [m.job_in_lane EXCEPT ![lane] = j]

(* The stack of the first free lane's group has a lane on it, a free one,  *)
(* and the job that is loaded into it finds the rest as it was.            *)
LEMMA InsertSane ==
  ASSUME NEW m, NEW jobs, NEW j \in Jobs, variant \in Variants,
         Sane(m), jobs[j].len \in Nat, m.num_lanes_inuse < NLANES, j \notin Owned(m)
  PROVE  LET s == insert_job(m, jobs, j)
         IN  /\ s.fault = FALSE /\ s.ret = NULL /\ s.job = jobs
             /\ Sane(s.mgr)
             /\ Loaded(s.mgr, m, j, jobs[j].len)
<1> DEFINE grp   == IF Free(m) = {} THEN 0 ELSE GroupOf(Lowest(Free(m)))
           stack == m.unused_lanes[grp]
           lane  == Head(stack)
           len   == jobs[j].len % LEN_MOD
           a     == [ unused_lanes    |-> [m.unused_lanes EXCEPT ![grp] = Tail(@)],
                      num_lanes_inuse |-> m.num_lanes_inuse + 1,
                      lens            |-> [m.lens EXCEPT ![lane] = len],
                      job_in_lane     |-> [m.job_in_lane EXCEPT ![lane] = j] ]
<1>1. /\ m \in Manager /\ Stacks(m)
      /\ m.num_lanes_inuse = Cardinality(BusyLanes(m))
      /\ \A i, k \in BusyLanes(m) : m.job_in_lane[i] = m.job_in_lane[k] => i = k
      /\ \A i \in Lanes : m.job_in_lane[i] = NULL => m.lens[i] = 0
  BY DEF Sane
<1>2. PICK i0 \in Lanes : m.job_in_lane[i0] = NULL
  BY BusyLanesCount
<1>3. /\ Free(m) # {} /\ Free(m) \in SUBSET Nat
      /\ \A i \in Free(m) : i \in Lanes /\ m.job_in_lane[i] = NULL
  BY <1>1, <1>2, LanesAndGroups DEF Free
<1>4. /\ Lowest(Free(m)) \in Lanes
      /\ m.job_in_lane[Lowest(Free(m))] = NULL
      /\ grp = GroupOf(Lowest(Free(m)))
  BY <1>3, LowestIs
<1>5. grp \in Groups /\ stack \in Seq(Lanes) /\ Len(stack) \in Nat /\ Len(stack) # 0
  <2>1. grp \in Groups
    BY <1>4, LanesAndGroups
  <2>2. stack \in Seq(Lanes)
    BY <1>1, <2>1 DEF Manager
  <2>3. OnStackOf(m, Lowest(Free(m)))
    BY <1>1, <1>4 DEF Stacks
  <2>4. \E k \in 1 .. Len(stack) : stack[k] = Lowest(Free(m))
    BY <1>4, <2>3 DEF OnStackOf
  <2>5. QED
    BY <2>1, <2>2, <2>4, LenProperties
<1>6. stack # << >>
  BY <1>5, EmptySeq
<1>7. /\ lane \in Lanes /\ lane = stack[1]
      /\ Tail(stack) \in Seq(Lanes)
      /\ Len(Tail(stack)) = Len(stack) - 1
      /\ \A k \in 1 .. Len(stack) - 1 : Tail(stack)[k] = stack[k + 1]
  BY <1>5, <1>6, HeadTailProperties
<1> HIDE DEF grp, stack, lane, len, a
<1>8. GroupOf(lane) = grp /\ m.job_in_lane[lane] = NULL
  <2>1. GroupOf(lane) = grp
    BY <1>1, <1>5, <1>7 DEF Stacks, stack
  <2>2. OnStackOf(m, lane)
    BY <1>5, <1>7, <2>1 DEF OnStackOf, stack
  <2>3. QED
    BY <1>1, <1>7, <2>1, <2>2 DEF Stacks
<1>9. insert_job(m, jobs, j) = [mgr |-> a, job |-> jobs, ret |-> NULL, fault |-> FALSE]
  BY <1>6, <1>8 DEF insert_job, Outcome, grp, stack, lane, len, a
<1>10. len \in 0 .. LEN_MOD - 1
  <2>1. LEN_MOD \in Nat \ {0}
    BY LanesAndGroups
  <2>2. QED
    BY <2>1, DivisionOf DEF len
<1>11. /\ a.unused_lanes = [m.unused_lanes EXCEPT ![grp] = Tail(stack)]
       /\ a.num_lanes_inuse = m.num_lanes_inuse + 1
       /\ a.lens = [m.lens EXCEPT ![lane] = len]
       /\ a.job_in_lane = [m.job_in_lane EXCEPT ![lane] = j]
  BY DEF a, stack
<1>12. a \in Manager
  <2>1. [m.unused_lanes EXCEPT ![grp] = Tail(stack)] \in [Groups -> Seq(Lanes)]
    BY <1>1, <1>5, <1>7 DEF Manager
  <2>2. [m.lens EXCEPT ![lane] = len] \in [Lanes -> 0 .. LEN_MOD - 1]
    BY <1>1, <1>7, <1>10 DEF Manager
  <2>3. [m.job_in_lane EXCEPT ![lane] = j] \in [Lanes -> Jobs \cup {NULL}]
    BY <1>1, <1>7 DEF Manager
  <2>4. m.num_lanes_inuse + 1 \in Nat
    BY <1>1 DEF Manager
  <2>5. QED
    BY <2>1, <2>2, <2>3, <2>4 DEF Manager, a, stack
<1>13. BusyLanes(a) = BusyLanes(m) \cup {lane} /\ lane \notin BusyLanes(m)
  BY <1>1, <1>7, <1>8, <1>11, VariantAssumption DEF BusyLanes, Manager
<1>14. Stacks(a)
  <2>1. \A g \in Groups : g # grp => a.unused_lanes[g] = m.unused_lanes[g]
    BY <1>1, <1>11 DEF Manager
  <2>2. a.unused_lanes[grp] = Tail(stack)
    BY <1>1, <1>5, <1>11 DEF Manager
  <2>3. \A i, k \in 1 .. Len(stack) : stack[i] = stack[k] => i = k
    BY <1>1, <1>5 DEF Stacks, stack
  <2>4. ASSUME NEW g \in Groups
        PROVE  /\ \A i, k \in 1 .. Len(a.unused_lanes[g]) :
                      a.unused_lanes[g][i] = a.unused_lanes[g][k] => i = k
               /\ \A k \in 1 .. Len(a.unused_lanes[g]) : GroupOf(a.unused_lanes[g][k]) = g
    <3>1. CASE g # grp
      BY <1>1, <2>1, <3>1 DEF Stacks
    <3>2. CASE g = grp
      <4>1. \A k \in 1 .. Len(stack) - 1 : k + 1 \in 1 .. Len(stack)
        BY <1>5
      <4>2. \A k \in 1 .. Len(stack) : GroupOf(stack[k]) = grp
        BY <1>1, <1>5 DEF Stacks, stack
      <4>3. \A i, k \in 1 .. Len(stack) - 1 : stack[i + 1] = stack[k + 1] => i = k
        BY <1>5, <2>3, <4>1
      <4>4. Len(a.unused_lanes[g]) = Len(stack) - 1
        BY <1>7, <2>2, <3>2
      <4>5. \A k \in 1 .. Len(stack) - 1 : a.unused_lanes[g][k] = stack[k + 1]
        BY <1>7, <2>2, <3>2
      <4>6. QED
        BY <3>2, <4>1, <4>2, <4>3, <4>4, <4>5
    <3>3. QED
      BY <3>1, <3>2
  <2>5. ASSUME NEW l \in Lanes
        PROVE  a.job_in_lane[l] = NULL <=> OnStackOf(a, l)
    <3>1. m.job_in_lane[l] = NULL <=> OnStackOf(m, l)
      BY <1>1 DEF Stacks
    <3>2. CASE l = lane
      <4>1. a.job_in_lane[l] # NULL
        BY <1>1, <1>11, <3>2, VariantAssumption DEF Manager
      <4>2. \A k \in 1 .. Len(stack) - 1 : stack[k + 1] # lane
        BY <1>5, <1>7, <2>3
      <4>3. ~OnStackOf(a, l)
        BY <1>7, <1>8, <2>2, <3>2, <4>2 DEF OnStackOf
      <4>4. QED
        BY <4>1, <4>3
    <3>3. CASE l # lane /\ GroupOf(l) # grp
      <4>1. a.job_in_lane[l] = m.job_in_lane[l]
        BY <1>1, <1>11, <3>3 DEF Manager
      <4>2. OnStackOf(a, l) <=> OnStackOf(m, l)
        BY <2>1, <3>3, LanesAndGroups DEF OnStackOf
      <4>3. QED
        BY <3>1, <4>1, <4>2
    <3>4. CASE l # lane /\ GroupOf(l) = grp
      <4>1. a.job_in_lane[l] = m.job_in_lane[l]
        BY <1>1, <1>11, <3>4 DEF Manager
      <4>2. (\E k \in 1 .. Len(stack) : stack[k] = l)
                <=> \E k \in 1 .. Len(stack) - 1 : stack[k + 1] = l
        <5>1. ASSUME NEW k \in 1 .. Len(stack), stack[k] = l
              PROVE  k - 1 \in 1 .. Len(stack) - 1 /\ stack[(k - 1) + 1] = l
          BY <1>5, <1>7, <3>4, <5>1
        <5>2. \A k \in 1 .. Len(stack) - 1 : k + 1 \in 1 .. Len(stack)
          BY <1>5
        <5>3. QED
          BY <5>1, <5>2
      <4>3. OnStackOf(m, l) <=> \E k \in 1 .. Len(stack) : stack[k] = l
        BY <3>4 DEF OnStackOf, stack
      <4>4. OnStackOf(a, l) <=> \E k \in 1 .. Len(stack) - 1 : stack[k + 1] = l
        BY <1>7, <2>2, <3>4 DEF OnStackOf
      <4>5. QED
        BY <3>1, <4>1, <4>2, <4>3, <4>4
    <3>5. QED
      BY <3>2, <3>3, <3>4
  <2>6. QED
    BY <2>4, <2>5 DEF Stacks
<1>15. a.num_lanes_inuse = Cardinality(BusyLanes(a))
  <2>1. IsFiniteSet(BusyLanes(m))
    BY BusyLanesCount
  <2>2. Cardinality(BusyLanes(m) \cup {lane}) = Cardinality(BusyLanes(m)) + 1
    BY <1>13, <2>1, FS_AddElement
  <2>3. m.num_lanes_inuse = Cardinality(BusyLanes(m))
    BY <1>1
  <2>4. QED
    BY <1>11, <1>13, <2>2, <2>3
<1>16. \A i, k \in BusyLanes(a) : a.job_in_lane[i] = a.job_in_lane[k] => i = k
  <2>1. \A i \in BusyLanes(m) : a.job_in_lane[i] = m.job_in_lane[i] /\ m.job_in_lane[i] # j
    BY <1>1, <1>11, <1>13 DEF BusyLanes, Manager, Owned
  <2>2. a.job_in_lane[lane] = j
    BY <1>1, <1>7, <1>11 DEF Manager
  <2>3. QED
    BY <1>1, <1>13, <2>1, <2>2
<1>17. \A i \in Lanes : a.job_in_lane[i] = NULL => a.lens[i] = 0
  BY <1>1, <1>7, <1>11, VariantAssumption DEF Manager
<1>18. Sane(a)
  BY <1>12, <1>14, <1>15, <1>16, <1>17 DEF Sane
<1>19. QED
  <2>1. /\ insert_job(m, jobs, j).mgr = a /\ insert_job(m, jobs, j).job = jobs
        /\ insert_job(m, jobs, j).ret = NULL /\ insert_job(m, jobs, j).fault = FALSE
    BY <1>9
  <2>2. /\ m.job_in_lane[lane] = NULL
        /\ a.lens = [m.lens EXCEPT ![lane] = jobs[j].len % LEN_MOD]
        /\ a.job_in_lane = [m.job_in_lane EXCEPT ![lane] = j]
    BY <1>8, <1>11 DEF len
  <2>3. Loaded(a, m, j, jobs[j].len)
    BY <1>7, <1>11, <2>2 DEF Loaded
  <2>4. QED
    BY <1>18, <2>1, <2>3

-----------------------------------------------------------------------------
(* A finished job leaves its lane, which goes back on its group's stack.   *)
LEMMA FreeLaneSane ==
  ASSUME NEW m, NEW jobs, variant \in Variants, Sane(m), Finished(m) # {}
  PROVE  LET s == free_lane(m, jobs)
         IN  /\ s.fault = FALSE
             /\ Sane(s.mgr)
             /\ s.mgr.num_lanes_inuse = m.num_lanes_inuse - 1
             /\ s.mgr.lens = m.lens
             /\ \E i \in BusyLanes(m) :
                    /\ m.lens[i] = 0
                    /\ s.ret = m.job_in_lane[i] /\ s.ret \in Jobs
                    /\ s.mgr.job_in_lane = [m.job_in_lane EXCEPT ![i] = NULL]
                    /\ s.job = [jobs EXCEPT ![s.ret] = JobDone(@)]
<1> DEFINE i     == Lowest(Finished(m))
           j     == m.job_in_lane[i]
           stack == m.unused_lanes[GroupOf(i)]
           x     == [ unused_lanes    |-> [m.unused_lanes EXCEPT ![GroupOf(i)] = <<i>> \o @],
                      num_lanes_inuse |-> m.num_lanes_inuse - 1,
                      lens            |-> m.lens,
                      job_in_lane     |-> [m.job_in_lane EXCEPT ![i] = NULL] ]
<1>1. /\ m \in Manager /\ Stacks(m)
      /\ m.num_lanes_inuse = Cardinality(BusyLanes(m))
      /\ \A h, k \in BusyLanes(m) : m.job_in_lane[h] = m.job_in_lane[k] => h = k
      /\ \A k \in Lanes : m.job_in_lane[k] = NULL => m.lens[k] = 0
  BY DEF Sane
<1>2. i \in Lanes /\ m.lens[i] = 0 /\ j # NULL /\ i \in BusyLanes(m)
  <2>1. Finished(m) \in SUBSET Nat
    BY LanesAndGroups DEF Finished
  <2>2. i \in Finished(m)
    BY <2>1, LowestIs
  <2>3. QED
    BY <2>2 DEF Finished, BusyLanes
<1>3. free_lane(m, jobs)
        = [mgr |-> x, job |-> [jobs EXCEPT ![j] = JobDone(@)], ret |-> j, fault |-> FALSE]
  BY DEF free_lane, Outcome
<1> HIDE DEF i, j, stack, x
<1>4. /\ j \in Jobs
      /\ GroupOf(i) \in Groups
      /\ stack \in Seq(Lanes) /\ Len(stack) \in Nat
  BY <1>1, <1>2, LanesAndGroups, LenProperties DEF Manager, j, stack
<1>5. /\ x.unused_lanes = [m.unused_lanes EXCEPT ![GroupOf(i)] = <<i>> \o stack]
      /\ x.num_lanes_inuse = m.num_lanes_inuse - 1
      /\ x.lens = m.lens
      /\ x.job_in_lane = [m.job_in_lane EXCEPT ![i] = NULL]
  BY DEF x, stack
<1>6. /\ <<i>> \o stack \in Seq(Lanes)
      /\ Len(<<i>> \o stack) = Len(stack) + 1
      /\ (<<i>> \o stack)[1] = i
      /\ \A k \in 1 .. Len(stack) : (<<i>> \o stack)[k + 1] = stack[k]
  <2>1. <<i>> \in Seq(Lanes) /\ Len(<<i>>) = 1 /\ <<i>>[1] = i
    BY <1>2
  <2>2. QED
    BY <1>4, <2>1, ConcatProperties
<1>7. /\ \A k \in 1 .. Len(stack) : stack[k] # i
      /\ \A h, k \in 1 .. Len(stack) : stack[h] = stack[k] => h = k
      /\ \A k \in 1 .. Len(stack) : GroupOf(stack[k]) = GroupOf(i)
  <2>1. ~OnStackOf(m, i)
    BY <1>1, <1>2 DEF Stacks, j
  <2>2. QED
    BY <1>1, <1>4, <2>1 DEF Stacks, OnStackOf, stack
<1>8. /\ IsFiniteSet(BusyLanes(m)) /\ m.num_lanes_inuse \in Nat
      /\ m.num_lanes_inuse # 0
      /\ BusyLanes(x) = BusyLanes(m) \ {i}
  <2>1. m.num_lanes_inuse \in Nat
    BY <1>1 DEF Manager
  <2>2. BusyLanes(x) = BusyLanes(m) \ {i}
    BY <1>1, <1>2, <1>5 DEF BusyLanes, Manager
  <2>3. QED
    BY <1>2, <2>1, <2>2, BusyLanesCount
<1>9. x \in Manager
  <2>1. [m.unused_lanes EXCEPT ![GroupOf(i)] = <<i>> \o stack] \in [Groups -> Seq(Lanes)]
    BY <1>1, <1>4, <1>6 DEF Manager
  <2>2. [m.job_in_lane EXCEPT ![i] = NULL] \in [Lanes -> Jobs \cup {NULL}]
    BY <1>1 DEF Manager
  <2>3. m.num_lanes_inuse - 1 \in Nat
    BY <1>8
  <2>4. m.lens \in [Lanes -> 0 .. LEN_MOD - 1]
    BY <1>1 DEF Manager
  <2>5. QED
    BY <2>1, <2>2, <2>3, <2>4 DEF Manager, x, stack
<1>10. Stacks(x)
  <2>1. \A g \in Groups : g # GroupOf(i) => x.unused_lanes[g] = m.unused_lanes[g]
    BY <1>1, <1>5 DEF Manager
  <2>2. x.unused_lanes[GroupOf(i)] = <<i>> \o stack
    BY <1>1, <1>4, <1>5 DEF Manager
  <2> DEFINE top == <<i>> \o stack
             n   == Len(stack)
  <2>3. /\ Len(top) = n + 1 /\ n \in Nat
        /\ \A k \in 1 .. n + 1 : top[k] = IF k = 1 THEN i ELSE stack[k - 1]
    <3>1. \A k \in 1 .. n + 1 : k # 1 => k - 1 \in 1 .. n /\ (k - 1) + 1 = k
      BY <1>4
    <3>2. QED
      BY <1>4, <1>6, <3>1
  <2> HIDE DEF top, n
  <2>4. \A k \in 1 .. n + 1 : k # 1 => k - 1 \in 1 .. n
    BY <2>3
  <2>5. /\ \A k \in 1 .. n : stack[k] # i
        /\ \A h, k \in 1 .. n : stack[h] = stack[k] => h = k
        /\ \A k \in 1 .. n : GroupOf(stack[k]) = GroupOf(i)
    BY <1>7 DEF n
  <2>6. ASSUME NEW g \in Groups
        PROVE  /\ \A h, k \in 1 .. Len(x.unused_lanes[g]) :
                      x.unused_lanes[g][h] = x.unused_lanes[g][k] => h = k
               /\ \A k \in 1 .. Len(x.unused_lanes[g]) : GroupOf(x.unused_lanes[g][k]) = g
    <3>1. CASE g # GroupOf(i)
      BY <1>1, <2>1, <3>1 DEF Stacks
    <3>2. CASE g = GroupOf(i)
      <4>1. x.unused_lanes[g] = top
        BY <2>2, <3>2 DEF top
      <4>2. \A h, k \in 1 .. n + 1 : top[h] = top[k] => h = k
        <5>1. \A h, k \in 1 .. n + 1 : h # 1 /\ k # 1 /\ h - 1 = k - 1 => h = k
          OBVIOUS
        <5>2. QED
          BY <2>3, <2>4, <2>5, <5>1
      <4>3. \A k \in 1 .. n + 1 : GroupOf(top[k]) = g
        BY <2>3, <2>4, <2>5, <3>2
      <4>4. QED
        BY <2>3, <4>1, <4>2, <4>3
    <3>3. QED
      BY <3>1, <3>2
  <2>7. ASSUME NEW l \in Lanes
        PROVE  x.job_in_lane[l] = NULL <=> OnStackOf(x, l)
    <3>1. m.job_in_lane[l] = NULL <=> OnStackOf(m, l)
      BY <1>1 DEF Stacks
    <3>2. CASE GroupOf(l) # GroupOf(i)
      <4>1. x.job_in_lane[l] = m.job_in_lane[l]
        BY <1>1, <1>5, <3>2 DEF Manager
      <4>2. OnStackOf(x, l) <=> OnStackOf(m, l)
        BY <2>1, <3>2, LanesAndGroups DEF OnStackOf
      <4>3. QED
        BY <3>1, <4>1, <4>2
    <3>3. CASE GroupOf(l) = GroupOf(i)
      <4>1. OnStackOf(x, l) <=> \E k \in 1 .. n + 1 : top[k] = l
        BY <2>2, <2>3, <3>3 DEF OnStackOf, top
      <4>2. OnStackOf(m, l) <=> \E k \in 1 .. n : stack[k] = l
        BY <3>3 DEF OnStackOf, stack, n
      <4>3. (\E k \in 1 .. n + 1 : top[k] = l) <=> (l = i \/ \E k \in 1 .. n : stack[k] = l)
        <5>1. ASSUME NEW k \in 1 .. n
              PROVE  k + 1 \in 1 .. n + 1 /\ top[k + 1] = stack[k]
          <6>1. k + 1 \in 1 .. n + 1 /\ k + 1 # 1 /\ (k + 1) - 1 = k
            BY <2>3
          <6>2. QED
            BY <2>3, <6>1
        <5>2. 1 \in 1 .. n + 1 /\ top[1] = i
          BY <2>3
        <5>3. QED
          BY <2>3, <2>4, <5>1, <5>2
      <4>4. x.job_in_lane[l] = IF l = i THEN NULL ELSE m.job_in_lane[l]
        BY <1>1, <1>5 DEF Manager
      <4>5. QED
        BY <3>1, <4>1, <4>2, <4>3, <4>4
    <3>4. QED
      BY <3>2, <3>3
  <2>8. QED
    BY <2>6, <2>7 DEF Stacks
<1>11. x.num_lanes_inuse = Cardinality(BusyLanes(x))
  BY <1>1, <1>2, <1>5, <1>8, FS_RemoveElement
<1>12. /\ \A h, k \in BusyLanes(x) : x.job_in_lane[h] = x.job_in_lane[k] => h = k
       /\ \A k \in Lanes : x.job_in_lane[k] = NULL => x.lens[k] = 0
  BY <1>1, <1>2, <1>5 DEF BusyLanes, Manager
<1>13. Sane(x)
  BY <1>9, <1>10, <1>11, <1>12 DEF Sane
<1>14. QED
  <2>1. /\ free_lane(m, jobs).mgr = x
        /\ free_lane(m, jobs).job = [jobs EXCEPT ![j] = JobDone(@)]
        /\ free_lane(m, jobs).ret = j /\ free_lane(m, jobs).fault = FALSE
    BY <1>3
  <2>2. QED
    BY <1>2, <1>4, <1>5, <1>13, <2>1 DEF j

(* With no job finished the lanes stay as they are.                        *)
LEMMA NothingToFree ==
  ASSUME NEW m, NEW jobs, Finished(m) = {}
  PROVE  free_lane(m, jobs) = [mgr |-> m, job |-> jobs, ret |-> NULL, fault |-> FALSE]
  BY DEF free_lane, Outcome

-----------------------------------------------------------------------------
(* A run takes from the lanes what they have, and the owners stay.         *)
LEMMA RunSane ==
  ASSUME NEW m, NEW jobs, variant \in Variants, Sane(m),
         NEW K \in SUBSET BusyLanes(m), NEW n \in Nat, \A k \in K : n <= m.lens[k]
  PROVE  LET s == RunLanes(m, jobs, K, n)
         IN  /\ s.mgr.num_lanes_inuse = m.num_lanes_inuse
             /\ s.mgr.job_in_lane = m.job_in_lane
             /\ s.mgr.lens = [i \in Lanes |-> IF i \in K THEN m.lens[i] - n ELSE m.lens[i]]
             /\ Sane(s.mgr)
<1> DEFINE lens == [i \in Lanes |-> IF i \in K THEN m.lens[i] - n ELSE m.lens[i]]
           x    == [ unused_lanes    |-> m.unused_lanes,
                     num_lanes_inuse |-> m.num_lanes_inuse,
                     lens            |-> lens,
                     job_in_lane     |-> m.job_in_lane ]
<1>1. RunLanes(m, jobs, K, n).mgr = x
  BY DEF RunLanes, Outcome
<1>2. lens \in [Lanes -> 0 .. LEN_MOD - 1]
  <2>1. m.lens \in [Lanes -> 0 .. LEN_MOD - 1]
    BY DEF Sane, Manager
  <2>2. QED
    BY <2>1, LanesAndGroups
<1>3. \A i \in Lanes : m.job_in_lane[i] = NULL => lens[i] = 0
  BY DEF Sane, BusyLanes
<1> HIDE DEF lens
<1>4. /\ x.unused_lanes = m.unused_lanes /\ x.num_lanes_inuse = m.num_lanes_inuse
      /\ x.lens = lens /\ x.job_in_lane = m.job_in_lane
  OBVIOUS
<1>5. x \in Manager
  BY <1>2 DEF Sane, Manager
<1> HIDE DEF x
<1>6. Stacks(x)
  BY <1>4 DEF Sane, Stacks, OnStackOf
<1>7. BusyLanes(x) = BusyLanes(m)
  BY <1>4 DEF BusyLanes
<1>8. Sane(x)
  BY <1>3, <1>4, <1>5, <1>6, <1>7 DEF Sane
<1>9. QED
  BY <1>1, <1>4, <1>8 DEF lens

(* What do_jobs runs: the lanes K for n blocks, one of them to its end.    *)
Runs(m, K, n) ==
    /\ K \in SUBSET BusyLanes(m)
    /\ n \in 1 .. LEN_MOD - 1
    /\ \A k \in K : n <= m.lens[k]
    /\ \E k \in K : m.lens[k] = n

LEMMA DoJobsRuns ==
  ASSUME NEW m, NEW jobs, variant \in Variants, Sane(m), Unfinished(m) # {}
  PROVE  \E K, n : Runs(m, K, n) /\ do_jobs(m, jobs) = RunLanes(m, jobs, K, n)
<1> DEFINE U == Unfinished(m)
           L == {m.lens[i] : i \in U}
           i == Lowest(U)
           n == Lowest(L)
<1>1. m.lens \in [Lanes -> 0 .. LEN_MOD - 1] /\ LEN_MOD \in Nat
  BY LanesAndGroups DEF Sane, Manager
<1>2. U \in SUBSET BusyLanes(m) /\ U \in SUBSET Nat /\ \A k \in U : k \in Lanes /\ m.lens[k] # 0
  BY LanesAndGroups DEF Unfinished, BusyLanes
<1>3. L \in SUBSET Nat /\ L # {} /\ \A k \in U : m.lens[k] \in 1 .. LEN_MOD - 1
  BY <1>1, <1>2
<1>4. i \in U
  <2> HIDE DEF U
  <2>1. QED BY <1>2, LowestIs DEF U
<1>5. n \in L /\ \A b \in L : n <= b
  <2> HIDE DEF L
  <2>1. QED BY <1>3, LowestIs
<1>6. Runs(m, U, n)
  BY <1>2, <1>3, <1>5 DEF Runs
<1>7. Runs(m, {i}, m.lens[i])
  <2>1. {i} \in SUBSET BusyLanes(m)
    BY <1>2, <1>4
  <2>2. m.lens[i] \in 1 .. LEN_MOD - 1 /\ m.lens[i] <= m.lens[i]
    BY <1>3, <1>4
  <2> HIDE DEF i
  <2>3. QED
    BY <2>1, <2>2 DEF Runs
<1>8. do_jobs(m, jobs) = RunLanes(m, jobs, U, n) \/ do_jobs(m, jobs) = RunLanes(m, jobs, {i}, m.lens[i])
  BY DEF do_jobs
<1>9. QED
  BY <1>6, <1>7, <1>8

-----------------------------------------------------------------------------
(* The jobs: what a kernel appends to the first blocks of a message are    *)
(* the next ones.                                                          *)
LEMMA TupleIsSeq ==
  ASSUME NEW S, NEW n \in Nat, NEW f \in [1 .. n -> S]
  PROVE  f \in Seq(S) /\ Len(f) = n
<1>1. f \in Seq(S)
  BY SeqDef
<1>2. QED
  BY <1>1, LenProperties

LEMMA MessageIsSeq ==
  ASSUME NEW j \in Jobs, NEW n \in Nat
  PROVE  /\ Message(j, n) \in Seq(Jobs \X Int)
         /\ Len(Message(j, n)) = n
         /\ \A i \in 1 .. n : Message(j, n)[i] = <<j, i>>
<1>1. Message(j, n) \in [1 .. n -> Jobs \X Int]
  BY DEF Message
<1>2. QED
  BY <1>1, TupleIsSeq DEF Message

LEMMA NextBlocks ==
  ASSUME NEW j \in Jobs, NEW a \in Int, NEW n \in Nat
  PROVE  LET b == [i \in 1 .. n |-> <<j, a + i>>]
         IN  b \in Seq(Jobs \X Int) /\ Len(b) = n /\ \A i \in 1 .. n : b[i] = <<j, a + i>>
<1> DEFINE b == [i \in 1 .. n |-> <<j, a + i>>]
<1>1. b \in [1 .. n -> Jobs \X Int]
  OBVIOUS
<1>2. \A i \in 1 .. n : b[i] = <<j, a + i>>
  OBVIOUS
<1> HIDE DEF b
<1>3. b \in Seq(Jobs \X Int) /\ Len(b) = n
  BY <1>1, TupleIsSeq
<1>4. QED
  BY <1>2, <1>3 DEF b

LEMMA ReadOn ==
  ASSUME NEW j \in Jobs, NEW a \in Nat, NEW n \in Nat
  PROVE  Message(j, a) \o [i \in 1 .. n |-> <<j, a + i>>] = Message(j, a + n)
<1> DEFINE b == [i \in 1 .. n |-> <<j, a + i>>]
           p == Message(j, a)
           t == Message(j, a + n)
<1>1. b \in Seq(Jobs \X Int) /\ Len(b) = n /\ \A i \in 1 .. n : b[i] = <<j, a + i>>
  BY NextBlocks
<1>2. p \in Seq(Jobs \X Int) /\ Len(p) = a /\ \A i \in 1 .. a : p[i] = <<j, i>>
  BY MessageIsSeq
<1>3. a + n \in Nat
  OBVIOUS
<1>4. t \in Seq(Jobs \X Int) /\ Len(t) = a + n /\ \A i \in 1 .. a + n : t[i] = <<j, i>>
  BY <1>3, MessageIsSeq
<1> HIDE DEF b, p, t
<1>5. /\ p \o b \in Seq(Jobs \X Int) /\ Len(p \o b) = a + n
      /\ \A i \in 1 .. a + n : (p \o b)[i] = IF i <= a THEN p[i] ELSE b[i - a]
  BY <1>1, <1>2, ConcatProperties
<1>6. ASSUME NEW i \in 1 .. a + n
      PROVE  (p \o b)[i] = t[i]
  <2>1. CASE i <= a
    <3>1. i \in 1 .. a
      BY <2>1
    <3>2. QED
      BY <1>2, <1>4, <1>5, <2>1, <3>1
  <2>2. CASE ~(i <= a)
    <3>1. i - a \in 1 .. n /\ a + (i - a) = i
      BY <2>2
    <3>2. QED
      BY <1>1, <1>4, <1>5, <2>2, <3>1
  <2>3. QED
    BY <2>1, <2>2
<1>7. p \o b = t
  BY <1>4, <1>5, <1>6, SeqEqual
<1>8. QED
  BY <1>7 DEF p, t, b

(* A run leaves the jobs of the lanes it runs further on.                  *)
LEMMA JobRunIs ==
  ASSUME NEW jb \in JobRec, NEW n \in 1 .. LEN_MOD - 1, LEN_MOD \in Nat
  PROVE  /\ JobRun(jb, n) \in JobRec
         /\ JobRun(jb, n).status = jb.status
         /\ \A j \in Jobs, a \in Nat : Midway(jb, j, a) /\ n < LEN_MOD \div 2
                => Midway(JobRun(jb, n), j, a + n)
<1>1. /\ jb.buffer.of \in Jobs /\ jb.buffer.at \in Int
      /\ jb.digest \in Seq(Jobs \X Int) /\ jb.len \in Nat
      /\ jb.status \in {"UNKNOWN", "COMPLETED"}
  BY DEF JobRec
<1>2. LEN_MOD \div 2 \in Int
  OBVIOUS
<1>3. Signed(n) \in Int /\ (n < LEN_MOD \div 2 => Signed(n) = n)
  BY <1>2 DEF Signed
<1>4. Absorbed(jb, n) \in Seq(Jobs \X Int)
  <2> DEFINE b == [i \in 1 .. n |-> <<jb.buffer.of, jb.buffer.at + i>>]
  <2>1. b \in Seq(Jobs \X Int)
    BY <1>1, NextBlocks
  <2> HIDE DEF b
  <2>2. jb.digest \o b \in Seq(Jobs \X Int)
    BY <1>1, <2>1, ConcatProperties
  <2>3. QED
    BY <1>1, <2>2 DEF Absorbed, b
<1>5. /\ JobRun(jb, n).buffer = [of |-> jb.buffer.of, at |-> jb.buffer.at + Signed(n)]
      /\ JobRun(jb, n).len = jb.len
      /\ JobRun(jb, n).digest = Absorbed(jb, n)
      /\ JobRun(jb, n).status = jb.status
  BY DEF JobRun
<1>6. JobRun(jb, n) \in JobRec
  <2>1. [of |-> jb.buffer.of, at |-> jb.buffer.at + Signed(n)] \in [of : Jobs, at : Int]
    BY <1>1, <1>3
  <2>2. QED
    BY <1>1, <1>4, <2>1 DEF JobRun, JobRec
<1>7. ASSUME NEW j \in Jobs, NEW a \in Nat, Midway(jb, j, a), n < LEN_MOD \div 2
      PROVE  Midway(JobRun(jb, n), j, a + n)
  <2>1. jb.buffer.of = j /\ jb.buffer.at = a /\ jb.digest = Message(j, a)
    BY <1>7 DEF Midway
  <2>2. Absorbed(jb, n) = Message(j, a + n)
    <3>1. Absorbed(jb, n) = Message(j, a) \o [i \in 1 .. n |-> <<j, a + i>>]
      BY <1>7, <2>1 DEF Absorbed
    <3>2. n \in Nat
      OBVIOUS
    <3>3. QED
      BY <3>1, <3>2, ReadOn, Zenon
  <2>3. QED
    BY <1>3, <1>5, <1>7, <2>1, <2>2 DEF Midway
<1>8. QED
  BY <1>5, <1>6, <1>7
-----------------------------------------------------------------------------
(* What the caller writes for job j of n blocks.                           *)
FilledIn(given, jobs, j, n) == given = [jobs EXCEPT ![j] = Prepared(n, j)]
AsksFor(after, ask, j, n)   == after = [ask EXCEPT ![j] = n]

Accepted(s, m, j, after) ==
    /\ s.fault = FALSE /\ s.ret = NULL
    /\ Good(s.mgr, s.job, after)
    /\ s.mgr.num_lanes_inuse = m.num_lanes_inuse + 1
    /\ Owned(s.mgr) = Owned(m) \cup {j}

(* The three things a call does, on lanes and jobs together.               *)
LEMMA InsertGood ==
  ASSUME NEW m, NEW jobs, NEW ask, variant \in Variants, Good(m, jobs, ask),
         NEW j \in Jobs, NEW n, n \in 1 .. MaxBlocks,
         m.num_lanes_inuse < NLANES, j \notin Owned(m),
         NEW given, FilledIn(given, jobs, j, n),
         NEW after, AsksFor(after, ask, j, n)
  PROVE  Accepted(insert_job(m, given, j), m, j, after)
<1> DEFINE s == insert_job(m, given, j)
<1>1. /\ Sane(m) /\ jobs \in [Jobs -> JobRec] /\ ask \in [Jobs -> 0 .. MaxBlocks]
      /\ MaxBlocks \in Nat /\ n \in Nat /\ NULL \notin Jobs
      /\ m.job_in_lane \in [Lanes -> Jobs \cup {NULL}]
      /\ m.lens \in [Lanes -> 0 .. LEN_MOD - 1]
  BY VariantAssumption DEF Good, Sane, Manager
<1>2. Prepared(n, j) \in JobRec /\ Midway(Prepared(n, j), j, 0)
  <2>1. Message(j, 0) = << >>
    BY DEF Message
  <2>2. << >> \in Seq(Jobs \X Int)
    BY EmptySeq
  <2>3. QED
    BY <1>1, <2>1, <2>2 DEF Prepared, JobRec, Midway
<1>3. /\ given \in [Jobs -> JobRec] /\ given[j] = Prepared(n, j) /\ given[j].len = n
      /\ \A k \in Jobs : k # j => given[k] = jobs[k]
  BY <1>1, <1>2 DEF Prepared, FilledIn
<1>4. /\ after \in [Jobs -> 0 .. MaxBlocks] /\ after[j] = n
      /\ \A k \in Jobs : k # j => after[k] = ask[k]
  BY <1>1 DEF AsksFor
<1>0. given[j].len \in Nat
  BY <1>1, <1>3
<1>5. /\ s.fault = FALSE /\ s.ret = NULL /\ s.job = given
      /\ Sane(s.mgr)
      /\ Loaded(s.mgr, m, j, given[j].len)
  BY <1>1, <1>0, InsertSane
<1> HIDE DEF s
<1>6. PICK lane \in Lanes :
          /\ m.job_in_lane[lane] = NULL
          /\ s.mgr.lens = [m.lens EXCEPT ![lane] = given[j].len % LEN_MOD]
          /\ s.mgr.job_in_lane = [m.job_in_lane EXCEPT ![lane] = j]
  BY <1>5 DEF Loaded
<1>7. /\ BusyLanes(s.mgr) = BusyLanes(m) \cup {lane} /\ lane \notin BusyLanes(m)
      /\ s.mgr.job_in_lane[lane] = j
      /\ \A l \in BusyLanes(m) : /\ s.mgr.job_in_lane[l] = m.job_in_lane[l]
                                /\ s.mgr.lens[l] = m.lens[l]
                                /\ m.job_in_lane[l] \in Jobs
                                /\ m.job_in_lane[l] # j
  BY <1>1, <1>6 DEF BusyLanes, Owned
<1>8. Owned(s.mgr) = Owned(m) \cup {j}
  BY <1>7 DEF Owned
<1>9. ASSUME ShortJobs
      PROVE  Prefixes(s.mgr, given, after)
  <2>1. Prefixes(m, jobs, ask)
    BY <1>9 DEF Good
  <2>2. s.mgr.lens[lane] = n
    <3>1. LEN_MOD \in Nat \ {0} /\ n < LEN_MOD
      BY <1>1, <1>9, LanesAndGroups DEF ShortJobs
    <3>2. n % LEN_MOD = n
      BY <1>1, <3>1
    <3>3. QED
      BY <1>1, <1>3, <1>6, <3>2
  <2>3. \A l \in BusyLanes(s.mgr) :
            /\ s.mgr.lens[l] <= after[s.mgr.job_in_lane[l]]
            /\ Midway(given[s.mgr.job_in_lane[l]], s.mgr.job_in_lane[l],
                      after[s.mgr.job_in_lane[l]] - s.mgr.lens[l])
    <3>1. ASSUME NEW l \in BusyLanes(m)
          PROVE  /\ s.mgr.lens[l] <= after[s.mgr.job_in_lane[l]]
                 /\ Midway(given[s.mgr.job_in_lane[l]], s.mgr.job_in_lane[l],
                           after[s.mgr.job_in_lane[l]] - s.mgr.lens[l])
      BY <1>3, <1>4, <1>7, <2>1 DEF Prefixes
    <3>2. n <= after[j] /\ after[j] - n = 0
      BY <1>1, <1>4
    <3>3. QED
      BY <1>2, <1>3, <1>7, <2>2, <3>1, <3>2
  <2>4. \A k \in Jobs : given[k].status = "COMPLETED" => given[k].digest = Message(k, after[k])
    BY <1>3, <1>4, <2>1 DEF Prefixes, Prepared
  <2>5. \A k \in Jobs : \E b \in 0 .. MaxBlocks : given[k].digest = Message(k, b)
    <3>1. 0 \in 0 .. MaxBlocks /\ given[j].digest = Message(j, 0)
      BY <1>1, <1>2, <1>3 DEF Midway
    <3>2. QED
      BY <1>3, <2>1, <3>1 DEF Prefixes
  <2>6. QED
    BY <2>3, <2>4, <2>5 DEF Prefixes
<1>10. Good(s.mgr, s.job, after)
  BY <1>3, <1>4, <1>5, <1>9 DEF Good, s
<1>11. QED
  BY <1>5, <1>8, <1>10 DEF s, Loaded, Accepted

LEMMA FreeLaneGood ==
  ASSUME NEW m, NEW jobs, NEW ask, variant \in Variants, Good(m, jobs, ask),
         Finished(m) # {}
  PROVE  LET s == free_lane(m, jobs)
         IN  /\ s.fault = FALSE
             /\ Good(s.mgr, s.job, ask)
             /\ s.mgr.num_lanes_inuse = m.num_lanes_inuse - 1
             /\ s.ret \in Jobs /\ s.ret \in Owned(m)
             /\ Owned(s.mgr) = Owned(m) \ {s.ret}
<1> DEFINE s == free_lane(m, jobs)
           j == s.ret
<1>1. /\ Sane(m) /\ jobs \in [Jobs -> JobRec] /\ ask \in [Jobs -> 0 .. MaxBlocks]
      /\ m.job_in_lane \in [Lanes -> Jobs \cup {NULL}]
      /\ \A i, k \in BusyLanes(m) : m.job_in_lane[i] = m.job_in_lane[k] => i = k
  BY DEF Good, Sane, Manager
<1>2. /\ s.fault = FALSE /\ Sane(s.mgr)
      /\ s.mgr.num_lanes_inuse = m.num_lanes_inuse - 1
      /\ s.mgr.lens = m.lens
  BY <1>1, FreeLaneSane
<1>3. PICK i \in BusyLanes(m) :
          /\ m.lens[i] = 0
          /\ s.ret = m.job_in_lane[i] /\ s.ret \in Jobs
          /\ s.mgr.job_in_lane = [m.job_in_lane EXCEPT ![i] = NULL]
          /\ s.job = [jobs EXCEPT ![s.ret] = JobDone(@)]
  BY <1>1, FreeLaneSane
<1> HIDE DEF s
<1>4. /\ BusyLanes(s.mgr) = BusyLanes(m) \ {i}
      /\ \A l \in BusyLanes(s.mgr) : /\ s.mgr.job_in_lane[l] = m.job_in_lane[l]
                                    /\ m.job_in_lane[l] \in Jobs
                                    /\ m.job_in_lane[l] # j
  BY <1>1, <1>3 DEF BusyLanes
<1>5. j \in Owned(m) /\ Owned(s.mgr) = Owned(m) \ {j}
  BY <1>1, <1>3, <1>4 DEF Owned
<1>6. JobDone(jobs[j]) \in JobRec
  BY <1>1, <1>3 DEF JobDone, JobRec
<1>7. /\ s.job \in [Jobs -> JobRec] /\ s.job[j] = JobDone(jobs[j])
      /\ \A k \in Jobs : k # j => s.job[k] = jobs[k]
  BY <1>1, <1>3, <1>6
<1>8. ASSUME ShortJobs
      PROVE  Prefixes(s.mgr, s.job, ask)
  <2>1. Prefixes(m, jobs, ask)
    BY <1>8 DEF Good
  <2>2. jobs[j].digest = Message(j, ask[j])
    <3>1. Midway(jobs[j], j, ask[j] - 0)
      BY <1>3, <2>1 DEF Prefixes
    <3>2. ask[j] - 0 = ask[j]
      BY <1>1, <1>3
    <3>3. QED
      BY <3>1, <3>2 DEF Midway
  <2>3. \A k \in Jobs : s.job[k].digest = jobs[k].digest
    BY <1>7 DEF JobDone
  <2>4. \A l \in BusyLanes(s.mgr) :
            /\ s.mgr.lens[l] <= ask[s.mgr.job_in_lane[l]]
            /\ Midway(s.job[s.mgr.job_in_lane[l]], s.mgr.job_in_lane[l],
                      ask[s.mgr.job_in_lane[l]] - s.mgr.lens[l])
    BY <1>2, <1>4, <1>7, <2>1 DEF Prefixes
  <2>5. \A k \in Jobs : s.job[k].status = "COMPLETED" => s.job[k].digest = Message(k, ask[k])
    BY <1>7, <2>1, <2>2, <2>3 DEF Prefixes
  <2>6. \A k \in Jobs : \E b \in 0 .. MaxBlocks : s.job[k].digest = Message(k, b)
    BY <2>1, <2>3 DEF Prefixes
  <2>7. QED
    BY <2>4, <2>5, <2>6 DEF Prefixes
<1>9. Good(s.mgr, s.job, ask)
  BY <1>1, <1>2, <1>7, <1>8 DEF Good
<1>10. QED
  BY <1>2, <1>3, <1>5, <1>9 DEF s

LEMMA RunGood ==
  ASSUME NEW m, NEW jobs, NEW ask, variant \in Variants, Good(m, jobs, ask),
         NEW K, NEW n, Runs(m, K, n)
  PROVE  LET s == RunLanes(m, jobs, K, n)
         IN  /\ Good(s.mgr, s.job, ask)
             /\ s.mgr.num_lanes_inuse = m.num_lanes_inuse
             /\ Owned(s.mgr) = Owned(m)
             /\ Finished(s.mgr) # {}
<1> DEFINE s       == RunLanes(m, jobs, K, n)
           running == {m.job_in_lane[i] : i \in K}
<1>1. /\ Sane(m) /\ jobs \in [Jobs -> JobRec] /\ ask \in [Jobs -> 0 .. MaxBlocks]
      /\ m.job_in_lane \in [Lanes -> Jobs \cup {NULL}]
      /\ m.lens \in [Lanes -> 0 .. LEN_MOD - 1]
      /\ \A i, k \in BusyLanes(m) : m.job_in_lane[i] = m.job_in_lane[k] => i = k
      /\ LEN_MOD \in Nat
  BY LanesAndGroups DEF Good, Sane, Manager
<1>2. /\ K \in SUBSET BusyLanes(m) /\ n \in 1 .. LEN_MOD - 1 /\ n \in Nat
      /\ \A k \in K : n <= m.lens[k]
  BY <1>1 DEF Runs
<1>3. PICK last \in K : m.lens[last] = n
  BY DEF Runs
<1>4. /\ s.mgr.num_lanes_inuse = m.num_lanes_inuse
      /\ s.mgr.job_in_lane = m.job_in_lane
      /\ s.mgr.lens = [i \in Lanes |-> IF i \in K THEN m.lens[i] - n ELSE m.lens[i]]
      /\ Sane(s.mgr)
  BY <1>1, <1>2, RunSane
<1>5. s.job = [j \in Jobs |-> IF j \in running THEN JobRun(jobs[j], n) ELSE jobs[j]]
  BY DEF RunLanes, Outcome
<1> HIDE DEF s
<1>6. /\ BusyLanes(s.mgr) = BusyLanes(m)
      /\ Owned(s.mgr) = Owned(m)
      /\ \A l \in BusyLanes(m) : l \in Lanes /\ m.job_in_lane[l] \in Jobs
  BY <1>1, <1>4 DEF BusyLanes, Owned
<1>7. \A l \in BusyLanes(m) : m.job_in_lane[l] \in running <=> l \in K
  BY <1>1, <1>2
<1>8. Finished(s.mgr) # {}
  <2>1. last \in Lanes /\ m.job_in_lane[last] # NULL
    BY <1>2, <1>3 DEF BusyLanes
  <2>2. s.mgr.lens[last] = 0
    BY <1>2, <1>3, <1>4, <2>1
  <2>3. QED
    BY <1>4, <2>1, <2>2 DEF Finished
<1> HIDE DEF running
<1>9. \A j \in Jobs : JobRun(jobs[j], n) \in JobRec
  BY <1>1, <1>2, JobRunIs
<1>10. /\ s.job \in [Jobs -> JobRec]
       /\ \A j \in Jobs : s.job[j] = IF j \in running THEN JobRun(jobs[j], n) ELSE jobs[j]
  BY <1>1, <1>5, <1>9
<1>11. ASSUME ShortJobs
       PROVE  Prefixes(s.mgr, s.job, ask)
  <2>1. Prefixes(m, jobs, ask)
    BY <1>11 DEF Good
  <2>2. n < LEN_MOD \div 2
    <3>1. m.job_in_lane[last] \in Jobs /\ n <= ask[m.job_in_lane[last]]
      BY <1>2, <1>3, <1>6, <2>1 DEF Prefixes
    <3>2. n <= MaxBlocks /\ MaxBlocks \in Nat /\ LEN_MOD \div 2 \in Int
      BY <1>1, <1>2, <3>1, VariantAssumption
    <3>3. QED
      BY <1>2, <1>11, <3>2 DEF ShortJobs
  <2>3. ASSUME NEW l \in BusyLanes(m)
        PROVE  /\ s.mgr.lens[l] <= ask[m.job_in_lane[l]]
               /\ Midway(s.job[m.job_in_lane[l]], m.job_in_lane[l],
                         ask[m.job_in_lane[l]] - s.mgr.lens[l])
    <3> DEFINE j == m.job_in_lane[l]
               a == ask[j] - m.lens[l]
    <3>1. /\ j \in Jobs /\ m.lens[l] \in Nat /\ ask[j] \in Nat
          /\ m.lens[l] <= ask[j] /\ Midway(jobs[j], j, a)
      BY <1>1, <1>6, <2>1 DEF Prefixes
    <3>2. a \in Nat
      BY <3>1
    <3>3. CASE l \in K
      <4>1. s.mgr.lens[l] = m.lens[l] - n /\ n <= m.lens[l]
        BY <1>2, <1>4, <1>6, <3>3
      <4>2. s.job[j] = JobRun(jobs[j], n)
        BY <1>7, <1>10, <3>1, <3>3
      <4>3. ask[j] - s.mgr.lens[l] = a + n
        BY <1>2, <3>1, <4>1
      <4>4. jobs[j] \in JobRec
        BY <1>1, <3>1
      <4> HIDE DEF j, a
      <4>5. Midway(JobRun(jobs[j], n), j, a + n)
        BY <1>1, <1>2, <2>2, <3>1, <3>2, <4>4, JobRunIs
      <4>6. s.mgr.lens[l] <= ask[j]
        BY <1>2, <3>1, <4>1
      <4>7. QED
        BY <4>2, <4>3, <4>5, <4>6 DEF j
    <3>4. CASE l \notin K
      <4>1. s.mgr.lens[l] = m.lens[l] /\ s.job[j] = jobs[j]
        BY <1>4, <1>6, <1>7, <1>10, <3>1, <3>4
      <4>2. QED
        BY <3>1, <4>1
    <3>5. QED
      BY <3>3, <3>4
  <2>4. ASSUME NEW j \in Jobs
        PROVE  s.job[j].status = "COMPLETED" => s.job[j].digest = Message(j, ask[j])
    <3>1. CASE j \in running
      <4>1. PICK l \in K : j = m.job_in_lane[l]
        BY <3>1 DEF running
      <4>2. s.job[j].status = "UNKNOWN"
        BY <1>2, <1>6, <2>3, <4>1 DEF Midway
      <4>3. QED
        BY <4>2
    <3>2. CASE j \notin running
      BY <1>10, <2>1, <3>2 DEF Prefixes
    <3>3. QED
      BY <3>1, <3>2
  <2>5. ASSUME NEW j \in Jobs
        PROVE  \E b \in 0 .. MaxBlocks : s.job[j].digest = Message(j, b)
    <3>1. CASE j \in running
      <4>1. PICK l \in K : j = m.job_in_lane[l]
        BY <3>1 DEF running
      <4>2. s.job[j].digest = Message(j, ask[j] - s.mgr.lens[l]) /\ s.mgr.lens[l] <= ask[j]
        BY <1>2, <2>3, <4>1 DEF Midway
      <4>3. s.mgr.lens[l] \in Nat
        BY <1>2, <1>4, <1>6, <4>1 DEF Sane, Manager
      <4>4. ask[j] - s.mgr.lens[l] \in 0 .. MaxBlocks
        BY <1>1, <4>2, <4>3, VariantAssumption
      <4>5. QED
        BY <4>2, <4>4
    <3>2. CASE j \notin running
      BY <1>10, <2>1, <3>2 DEF Prefixes
    <3>3. QED
      BY <3>1, <3>2
  <2>6. QED
    BY <1>4, <1>6, <2>3, <2>4, <2>5 DEF Prefixes
<1>12. Good(s.mgr, s.job, ask)
  BY <1>1, <1>4, <1>10, <1>11 DEF Good
<1>13. QED
  BY <1>4, <1>6, <1>8, <1>12 DEF s

(* A run of lanes that are not all finished, and the look for a finished   *)
(* job after it, hand back one of the jobs in them.                        *)
LEMMA RunThenFree ==
  ASSUME NEW m, NEW jobs, NEW ask, variant \in Variants, Good(m, jobs, ask),
         Finished(m) = {}, m.num_lanes_inuse # 0
  PROVE  LET run == do_jobs(m, jobs)
             s   == free_lane(run.mgr, run.job)
         IN  /\ Unfinished(m) # {}
             /\ Good(s.mgr, s.job, ask)
             /\ s.mgr.num_lanes_inuse = m.num_lanes_inuse - 1
             /\ s.ret \in Jobs /\ s.ret \in Owned(m)
             /\ Owned(s.mgr) = Owned(m) \ {s.ret}
<1>1. Sane(m)
  BY DEF Good
<1>2. BusyLanes(m) # {}
  BY <1>1, BusyLanesCount
<1>3. Unfinished(m) # {}
  BY <1>2 DEF BusyLanes, Finished, Unfinished
<1>4. PICK K, n : Runs(m, K, n) /\ do_jobs(m, jobs) = RunLanes(m, jobs, K, n)
  BY <1>1, <1>3, DoJobsRuns
<1> DEFINE run == RunLanes(m, jobs, K, n)
<1>5. /\ Good(run.mgr, run.job, ask)
      /\ run.mgr.num_lanes_inuse = m.num_lanes_inuse
      /\ Owned(run.mgr) = Owned(m)
      /\ Finished(run.mgr) # {}
  BY <1>4, RunGood
<1> HIDE DEF run
<1>6. LET s == free_lane(run.mgr, run.job)
      IN  /\ Good(s.mgr, s.job, ask)
          /\ s.mgr.num_lanes_inuse = run.mgr.num_lanes_inuse - 1
          /\ s.ret \in Jobs /\ s.ret \in Owned(run.mgr)
          /\ Owned(s.mgr) = Owned(run.mgr) \ {s.ret}
  BY <1>5, FreeLaneGood
<1>7. QED
  BY <1>3, <1>4, <1>5, <1>6 DEF run

-----------------------------------------------------------------------------
(* The stacks mb_mgr_init builds hold every lane, each on that of its      *)
(* group.                                                                  *)
LEMMA InitSane ==
  ASSUME variant \in Variants
  PROVE  /\ Sane(InitManager(variant))
         /\ BusyLanes(InitManager(variant)) = {}
         /\ InitManager(variant).num_lanes_inuse = 0
<1> DEFINE b        == variant.group
           first(g) == g * b
           size(g)  == IF first(g) + b <= NLANES THEN b ELSE NLANES - first(g)
           stack(g) == [k \in 1 .. size(g) |-> first(g) + k - 1]
           m        == InitManager(variant)
<1>1. b \in 1 .. NLANES /\ NLANES \in Nat \ {0} /\ b \in Nat \ {0}
  BY VariantAssumption
<1>2. /\ m.unused_lanes = [g \in Groups |-> stack(g)]
      /\ m.num_lanes_inuse = 0
      /\ m.lens = [i \in Lanes |-> 0]
      /\ m.job_in_lane = [i \in Lanes |-> NULL]
      /\ m = [unused_lanes |-> m.unused_lanes, num_lanes_inuse |-> m.num_lanes_inuse,
              lens |-> m.lens, job_in_lane |-> m.job_in_lane]
  BY DEF InitManager, Groups, GroupOf
<1> HIDE DEF m
<1>3. ASSUME NEW i \in Lanes
      PROVE  /\ GroupOf(i) \in Nat /\ first(GroupOf(i)) \in Nat
             /\ i % b \in 0 .. b - 1
             /\ i = first(GroupOf(i)) + (i % b)
  <2>1. i \in Nat /\ GroupOf(i) = i \div b
    BY <1>1 DEF Lanes, GroupOf
  <2> HIDE DEF b
  <2>2. (i \div b) \in Nat /\ i % b \in 0 .. b - 1 /\ i = (i \div b) * b + (i % b)
    BY <1>1, <2>1, DivisionOf
  <2>3. (i \div b) * b \in Nat
    BY <1>1, <2>2
  <2>4. QED
    BY <2>1, <2>2, <2>3
<1>4. ASSUME NEW g \in Groups
      PROVE  /\ g \in Nat /\ first(g) \in Nat /\ size(g) \in 1 .. b
             /\ first(g) + size(g) <= NLANES
             /\ \A r \in 0 .. b - 1 : first(g) + r < NLANES => r + 1 \in 1 .. size(g)
  <2>1. PICK i \in Lanes : g = GroupOf(i)
    BY DEF Groups
  <2>2. i < NLANES /\ i \in Nat
    BY <1>1 DEF Lanes
  <2>3. g \in Nat /\ first(g) \in Nat /\ first(g) < NLANES
    BY <1>1, <1>3, <2>1, <2>2
  <2> HIDE DEF first, b
  <2>4. QED
    BY <1>1, <2>3
<1>5. ASSUME NEW g \in Groups
      PROVE  /\ stack(g) \in Seq(Lanes) /\ Len(stack(g)) = size(g)
             /\ \A k \in 1 .. size(g) : stack(g)[k] = first(g) + k - 1
             /\ \A k \in 1 .. size(g) : GroupOf(stack(g)[k]) = g
  <2>1. \A k \in 1 .. size(g) : stack(g)[k] = first(g) + k - 1
    OBVIOUS
  <2>2. \A k \in 1 .. size(g) : /\ first(g) + k - 1 \in Lanes
                                 /\ k - 1 \in 0 .. b - 1
                                 /\ first(g) + k - 1 = first(g) + (k - 1)
    <3> HIDE DEF first, size
    <3>1. QED
      BY <1>1, <1>4 DEF Lanes
  <2>3. stack(g) \in [1 .. size(g) -> Lanes]
    <3> HIDE DEF first, size
    <3>1. QED
      BY <2>2
  <2>4. size(g) \in Nat
    BY <1>1, <1>4
  <2>5. stack(g) \in Seq(Lanes) /\ Len(stack(g)) = size(g)
    <3> HIDE DEF stack, size
    <3>1. QED
      BY <2>3, <2>4, TupleIsSeq
  <2>6. ASSUME NEW k \in 1 .. size(g)
        PROVE  GroupOf(first(g) + k - 1) = g
    <3>1. k - 1 \in 0 .. b - 1 /\ first(g) + k - 1 = g * b + (k - 1)
      BY <2>2
    <3>2. (g * b + (k - 1)) \div b = g
      <4> HIDE DEF b
      <4>1. QED
        BY <1>1, <1>4, <3>1, DivisionIs
    <3>3. QED
      BY <3>1, <3>2 DEF GroupOf
  <2>7. QED
    <3> HIDE DEF stack, size, first
    <3>1. QED
      BY <2>1, <2>5, <2>6
<1>6. /\ m.unused_lanes \in [Groups -> Seq(Lanes)]
      /\ \A g \in Groups : m.unused_lanes[g] = stack(g)
  <2> HIDE DEF stack
  <2>1. QED
    BY <1>2, <1>5
<1> HIDE DEF stack, size, first, b
<1>7. m \in Manager
  <2>1. m.lens \in [Lanes -> 0 .. LEN_MOD - 1]
    BY <1>2, LanesAndGroups
  <2>2. m.job_in_lane \in [Lanes -> Jobs \cup {NULL}]
    BY <1>2
  <2>3. QED
    BY <1>2, <1>6, <2>1, <2>2 DEF Manager
<1>8. Stacks(m)
  <2>1. ASSUME NEW g \in Groups, NEW i \in 1 .. size(g), NEW k \in 1 .. size(g),
               stack(g)[i] = stack(g)[k]
        PROVE  i = k
    <3>1. first(g) + i - 1 = first(g) + k - 1 /\ first(g) \in Nat
      BY <1>4, <1>5, <2>1
    <3>2. QED
      BY <3>1
  <2>2. ASSUME NEW i \in Lanes
        PROVE  OnStackOf(m, i)
    <3>1. GroupOf(i) \in Groups
      BY LanesAndGroups
    <3>2. /\ i % b \in 0 .. b - 1 /\ i < NLANES /\ i = first(GroupOf(i)) + (i % b)
          /\ first(GroupOf(i)) \in Nat
      BY <1>1, <1>3 DEF Lanes
    <3>3. (i % b) + 1 \in 1 .. size(GroupOf(i))
      BY <1>4, <3>1, <3>2
    <3>4. stack(GroupOf(i))[(i % b) + 1] = i
      <4>1. stack(GroupOf(i))[(i % b) + 1] = first(GroupOf(i)) + ((i % b) + 1) - 1
        BY <1>5, <3>1, <3>3
      <4>2. i % b \in Int
        BY <1>1, <3>2
      <4>3. QED
        BY <3>2, <4>1, <4>2
    <3>5. QED
      BY <1>5, <1>6, <3>1, <3>3, <3>4 DEF OnStackOf
  <2>3. \A i \in Lanes : m.job_in_lane[i] = NULL
    BY <1>2
  <2>4. QED
    BY <1>5, <1>6, <2>1, <2>2, <2>3 DEF Stacks
<1>9. BusyLanes(m) = {}
  BY <1>2 DEF BusyLanes
<1>10. Sane(m)
  BY <1>2, <1>7, <1>8, <1>9, FS_EmptySet DEF Sane
<1>11. QED
  BY <1>2, <1>9, <1>10 DEF m

-----------------------------------------------------------------------------
(* As many jobs are in flight as lanes are in use.                         *)
LEMMA OwnedCount ==
  ASSUME NEW m, variant \in Variants, Sane(m)
  PROVE  IsFiniteSet(Owned(m)) /\ Cardinality(Owned(m)) = m.num_lanes_inuse
<1> DEFINE f == [i \in BusyLanes(m) |-> m.job_in_lane[i]]
<1>1. /\ IsFiniteSet(BusyLanes(m)) /\ m.num_lanes_inuse = Cardinality(BusyLanes(m))
      /\ \A i, k \in BusyLanes(m) : m.job_in_lane[i] = m.job_in_lane[k] => i = k
  BY BusyLanesCount DEF Sane
<1>2. f \in Bijection(BusyLanes(m), Owned(m))
  <2>1. f \in [BusyLanes(m) -> Owned(m)]
    BY DEF Owned
  <2>2. \A i, k \in BusyLanes(m) : f[i] = f[k] => i = k
    BY <1>1
  <2>3. \A j \in Owned(m) : \E i \in BusyLanes(m) : f[i] = j
    BY DEF Owned
  <2>4. QED
    BY <2>1, <2>2, <2>3 DEF Bijection, Injection, IsInjective, Surjection
<1>3. QED
  BY <1>1, <1>2, FS_Bijection DEF ExistsBijection

(* The pool counts with the same operator.                                 *)
LEMMA PoolCounts ==
  ASSUME NEW S
  PROVE  Pool!Cardinality(S) = Cardinality(S)
  BY DEF Pool!Cardinality, Cardinality

LEMMA InFlightIsOwned ==
  InFlight = Owned(mgr)
  BY DEF InFlight, Owned, BusyLanes

(* The manager chosen stays, and with it the groups of the lanes.          *)
LEMMA StillGood ==
  ASSUME variant' = variant, Good(mgr', job', asked')
  PROVE  Good(mgr, job, asked)' /\ Owned(mgr)' = Owned(mgr')
<1>1. Groups' = Groups /\ \A i \in Lanes : GroupOf(i)' = GroupOf(i)
  BY DEF Groups, GroupOf
<1>2. \A i \in Lanes : OnStackOf(mgr, i)' <=> OnStackOf(mgr', i)
  BY <1>1 DEF OnStackOf
<1>3. mgr' \in Manager /\ Stacks(mgr')
  BY DEF Good, Sane
<1>4. (mgr \in Manager)'
  BY <1>1, <1>3 DEF Manager
<1>5. Stacks(mgr)'
  <2>1. \A g \in Groups : \A k \in 1 .. Len(mgr'.unused_lanes[g]) :
            mgr'.unused_lanes[g][k] \in Lanes
    BY <1>3, LenProperties DEF Manager
  <2>2. QED
    BY <1>1, <1>2, <1>3, <2>1 DEF Stacks
<1>6. BusyLanes(mgr)' = BusyLanes(mgr') /\ Owned(mgr)' = Owned(mgr')
  BY DEF BusyLanes, Owned
<1>7. Sane(mgr)'
  BY <1>4, <1>5, <1>6 DEF Good, Sane
<1>8. ShortJobs => Prefixes(mgr, job, asked)'
  BY <1>6 DEF Good, Prefixes, Midway
<1>9. QED
  BY <1>6, <1>7, <1>8 DEF Good

LEMMA InitIInv ==
  ASSUME Init
  PROVE  IInv /\ Pool!Init
<1>1. variant \in Variants /\ mgr = InitManager(variant)
  BY DEF Init
<1>2. Sane(mgr) /\ BusyLanes(mgr) = {} /\ mgr.num_lanes_inuse = 0
  BY <1>1, InitSane
<1>3. MaxBlocks \in Nat /\ \A j \in Jobs : Message(j, 0) = << >>
  BY VariantAssumption DEF Message
<1>4. /\ job = [j \in Jobs |-> Prepared(1, j)]
      /\ asked = [j \in Jobs |-> 0]
      /\ ret = NULL /\ fault = FALSE
  BY DEF Init
<1>5. \A j \in Jobs : /\ Prepared(1, j) \in JobRec
                       /\ Prepared(1, j).status = "UNKNOWN"
                       /\ Prepared(1, j).digest = << >>
  <2>1. << >> \in Seq(Jobs \X Int)
    BY EmptySeq
  <2>2. QED
    BY <2>1 DEF Prepared, JobRec
<1>6. Prefixes(mgr, job, asked)
  <2>1. 0 \in 0 .. MaxBlocks
    BY <1>3
  <2>2. \A j \in Jobs : job[j].status = "UNKNOWN" /\ job[j].digest = Message(j, 0)
    BY <1>3, <1>4, <1>5
  <2>3. QED
    BY <1>2, <2>1, <2>2 DEF Prefixes
<1>7. Good(mgr, job, asked)
  BY <1>2, <1>3, <1>4, <1>5, <1>6 DEF Good
<1>8. mgr.num_lanes_inuse < variant.fill
  BY <1>1, <1>2, LanesAndGroups
<1>9. IInv
  BY <1>1, <1>4, <1>7, <1>8 DEF IInv
<1>10. InFlight = {}
  BY <1>2, InFlightIsOwned DEF Owned
<1>11. QED
  BY <1>4, <1>9, <1>10 DEF Pool!Init

(* A call that ends with good lanes and jobs keeps the invariant.          *)
LEMMA CallEnds ==
  ASSUME variant \in Variants, NEW s, Returns(s), Good(s.mgr, s.job, asked'),
         s.mgr.num_lanes_inuse < variant.fill, s.ret \in Jobs \cup {NULL},
         s.fault = FALSE
  PROVE  IInv' /\ InFlight' = Owned(s.mgr) /\ ret' = s.ret
<1>1. /\ mgr' = s.mgr /\ job' = s.job /\ ret' = s.ret /\ fault' = s.fault
      /\ variant' = variant
  BY DEF Returns
<1>2. Good(mgr, job, asked)' /\ Owned(mgr)' = Owned(mgr')
  BY <1>1, StillGood
<1>3. variant' \in Variants
  BY <1>1
<1>4. InFlight' = Owned(s.mgr)
  BY <1>1 DEF InFlight, Owned, BusyLanes
<1>5. (mgr.num_lanes_inuse < variant.fill)'
  BY <1>1
<1>6. QED
  BY <1>1, <1>2, <1>3, <1>4, <1>5 DEF IInv

(* Submit loads a lane and keeps the job or hands one back: as the pool's. *)
LEMMA SubmitStep ==
  ASSUME IInv, NEW j \in Jobs, NEW n \in 1 .. MaxBlocks, Submit(j, n)
  PROVE  IInv' /\ Pool!Submit(j)
<1> DEFINE given == [job EXCEPT ![j] = Prepared(n, j)]
           s     == insert_job(mgr, given, j)
           first == free_lane(s.mgr, s.job)
           run   == do_jobs(s.mgr, s.job)
           last  == free_lane(run.mgr, run.job)
<1>1. /\ variant \in Variants /\ Good(mgr, job, asked) /\ Sane(mgr)
      /\ mgr.num_lanes_inuse \in Nat /\ mgr.num_lanes_inuse < variant.fill
      /\ variant.fill \in Nat /\ variant.fill <= NLANES /\ NLANES \in Nat
      /\ j \notin Owned(mgr) /\ asked' = [asked EXCEPT ![j] = n] /\ NULL \notin Jobs
  <2>1. variant \in Variants /\ Good(mgr, job, asked) /\ mgr.num_lanes_inuse < variant.fill
    BY DEF IInv
  <2>2. Sane(mgr) /\ mgr.num_lanes_inuse \in Nat
    BY <2>1 DEF Good, Sane, Manager
  <2>3. variant.fill \in Nat /\ variant.fill <= NLANES /\ NLANES \in Nat
    BY <2>1, LanesAndGroups
  <2>4. j \notin Owned(mgr) /\ asked' = [asked EXCEPT ![j] = n]
    BY InFlightIsOwned DEF Submit
  <2>5. QED
    BY <2>1, <2>2, <2>3, <2>4, VariantAssumption
<1>2. /\ s.fault = FALSE /\ s.ret = NULL
      /\ Good(s.mgr, s.job, asked')
      /\ s.mgr.num_lanes_inuse = mgr.num_lanes_inuse + 1
      /\ Owned(s.mgr) = Owned(mgr) \cup {j}
  <2>1. /\ variant \in Variants /\ Good(mgr, job, asked) /\ j \notin Owned(mgr)
        /\ mgr.num_lanes_inuse < NLANES
    BY <1>1
  <2>2. FilledIn(given, job, j, n) /\ AsksFor(asked', asked, j, n)
    BY <1>1 DEF FilledIn, AsksFor
  <2> HIDE DEF given
  <2>3. Accepted(insert_job(mgr, given, j), mgr, j, asked')
    BY <2>1, <2>2, InsertGood
  <2>4. QED
    BY <2>3 DEF Accepted
<1>3. \/ first.ret # NULL /\ Returns(first)
      \/ first.ret = NULL /\ s.mgr.num_lanes_inuse < variant.fill /\ Returns(s)
      \/ first.ret = NULL /\ Returns(Outcome(last.mgr, last.job, last.ret, Unfinished(s.mgr) = {}))
  BY <1>2 DEF Submit, RunAndReturn
<1>4. Cardinality(InFlight) = mgr.num_lanes_inuse
  BY <1>1, OwnedCount, InFlightIsOwned
<1> HIDE DEF s
<1>5. CASE first.ret # NULL /\ Returns(first)
  <2>1. Finished(s.mgr) # {}
    BY <1>5, NothingToFree
  <2>2. /\ first.fault = FALSE /\ Good(first.mgr, first.job, asked')
        /\ first.mgr.num_lanes_inuse = s.mgr.num_lanes_inuse - 1
        /\ first.ret \in Jobs /\ first.ret \in Owned(s.mgr)
        /\ Owned(first.mgr) = Owned(s.mgr) \ {first.ret}
    BY <1>1, <1>2, <2>1, FreeLaneGood
  <2> HIDE DEF first
  <2>3. first.mgr.num_lanes_inuse < variant.fill
    BY <1>1, <1>2, <2>2
  <2>4. IInv' /\ InFlight' = Owned(first.mgr) /\ ret' = first.ret
    BY <1>1, <1>5, <2>2, <2>3, CallEnds
  <2>5. Pool!HandBack(first.ret, InFlight \cup {j})
    BY <1>2, <2>2, <2>4, InFlightIsOwned DEF Pool!HandBack
  <2>6. QED
    BY <1>1, <2>2, <2>4, <2>5, InFlightIsOwned DEF Pool!Submit
<1>6. CASE first.ret = NULL /\ s.mgr.num_lanes_inuse < variant.fill /\ Returns(s)
  <2>1. IInv' /\ InFlight' = Owned(s.mgr) /\ ret' = s.ret
    BY <1>1, <1>2, <1>6, CallEnds
  <2>2. Pool!Keep(InFlight \cup {j})
    BY <1>2, <2>1, InFlightIsOwned DEF Pool!Keep
  <2>3. Cardinality(InFlight) + 1 < NLANES
    BY <1>1, <1>2, <1>4, <1>6
  <2>4. j \notin InFlight
    BY <1>1, InFlightIsOwned
  <2>5. Pool!Submit(j)
    BY <2>2, <2>3, <2>4, PoolCounts DEF Pool!Submit
  <2>6. QED
    BY <2>1, <2>5
<1>7. CASE first.ret = NULL /\ Returns(Outcome(last.mgr, last.job, last.ret, Unfinished(s.mgr) = {}))
  <2>1. Finished(s.mgr) = {}
    <3>1. Finished(s.mgr) # {} => first.ret \in Jobs
      BY <1>1, <1>2, FreeLaneGood
    <3>2. QED
      BY <1>1, <1>7, <3>1
  <2>2. s.mgr.num_lanes_inuse # 0
    BY <1>1, <1>2
  <2>3. /\ Unfinished(s.mgr) # {}
        /\ Good(last.mgr, last.job, asked')
        /\ last.mgr.num_lanes_inuse = s.mgr.num_lanes_inuse - 1
        /\ last.ret \in Jobs /\ last.ret \in Owned(s.mgr)
        /\ Owned(last.mgr) = Owned(s.mgr) \ {last.ret}
    BY <1>1, <1>2, <2>1, <2>2, RunThenFree
  <2> HIDE DEF last
  <2> DEFINE e == Outcome(last.mgr, last.job, last.ret, FALSE)
  <2>4. /\ Returns(e)
        /\ e.mgr = last.mgr /\ e.job = last.job /\ e.ret = last.ret /\ e.fault = FALSE
    <3>1. (Unfinished(s.mgr) = {}) = FALSE
      BY <2>3
    <3>2. QED
      BY <1>7, <3>1 DEF Outcome
  <2> HIDE DEF e
  <2>5. e.mgr.num_lanes_inuse < variant.fill
    BY <1>1, <1>2, <2>3, <2>4
  <2>6. IInv' /\ InFlight' = Owned(last.mgr) /\ ret' = last.ret
    BY <1>1, <2>3, <2>4, <2>5, CallEnds
  <2>7. Pool!HandBack(last.ret, InFlight \cup {j})
    BY <1>2, <2>3, <2>6, InFlightIsOwned DEF Pool!HandBack
  <2>8. QED
    BY <1>1, <2>3, <2>6, <2>7, InFlightIsOwned DEF Pool!Submit
<1>8. QED
  BY <1>3, <1>5, <1>6, <1>7

(* Flush hands a job back whenever one is in a lane: as the pool's.        *)
LEMMA FlushStep ==
  ASSUME IInv, Flush
  PROVE  IInv' /\ Pool!Flush
<1> DEFINE first == free_lane(mgr, job)
           run   == do_jobs(mgr, job)
           last  == free_lane(run.mgr, run.job)
           e     == Outcome(last.mgr, last.job, last.ret, FALSE)
<1>1. /\ variant \in Variants /\ Good(mgr, job, asked) /\ Sane(mgr)
      /\ mgr.num_lanes_inuse \in Nat /\ mgr.num_lanes_inuse < variant.fill
      /\ variant.fill \in Nat /\ asked' = asked /\ NULL \notin Jobs
  <2>1. variant \in Variants /\ Good(mgr, job, asked) /\ mgr.num_lanes_inuse < variant.fill
    BY DEF IInv
  <2>2. Sane(mgr) /\ mgr.num_lanes_inuse \in Nat
    BY <2>1 DEF Good, Sane, Manager
  <2>3. QED
    BY <2>1, <2>2, LanesAndGroups, VariantAssumption DEF Flush
<1>2. IF first.ret # NULL THEN Returns(first) ELSE Returns(e)
  BY DEF Flush, RunAndReturn
<1>3. Cardinality(InFlight) = mgr.num_lanes_inuse /\ InFlight = Owned(mgr)
  BY <1>1, OwnedCount, InFlightIsOwned
<1>4. CASE first.ret # NULL
  <2>1. Finished(mgr) # {}
    BY <1>4, NothingToFree
  <2>2. /\ first.fault = FALSE /\ Good(first.mgr, first.job, asked')
        /\ first.mgr.num_lanes_inuse = mgr.num_lanes_inuse - 1
        /\ first.ret \in Jobs /\ first.ret \in Owned(mgr)
        /\ Owned(first.mgr) = Owned(mgr) \ {first.ret}
    BY <1>1, <2>1, FreeLaneGood
  <2>3. Returns(first)
    BY <1>2, <1>4
  <2> HIDE DEF first
  <2>4. first.mgr.num_lanes_inuse < variant.fill
    BY <1>1, <2>2
  <2>5. IInv' /\ InFlight' = Owned(first.mgr) /\ ret' = first.ret
    BY <1>1, <2>2, <2>3, <2>4, CallEnds
  <2>6. QED
    BY <1>3, <2>2, <2>5 DEF Pool!Flush, Pool!HandBack
<1>5. CASE first.ret = NULL /\ mgr.num_lanes_inuse # 0
  <2>1. Finished(mgr) = {}
    BY <1>1, <1>5, FreeLaneGood
  <2>2. /\ Good(last.mgr, last.job, asked')
        /\ last.mgr.num_lanes_inuse = mgr.num_lanes_inuse - 1
        /\ last.ret \in Jobs /\ last.ret \in Owned(mgr)
        /\ Owned(last.mgr) = Owned(mgr) \ {last.ret}
    BY <1>1, <1>5, <2>1, RunThenFree
  <2> HIDE DEF last
  <2>3. /\ Returns(e)
        /\ e.mgr = last.mgr /\ e.job = last.job /\ e.ret = last.ret /\ e.fault = FALSE
    BY <1>2, <1>5 DEF Outcome
  <2> HIDE DEF e
  <2>4. e.mgr.num_lanes_inuse < variant.fill
    BY <1>1, <2>2, <2>3
  <2>5. IInv' /\ InFlight' = Owned(last.mgr) /\ ret' = last.ret
    BY <1>1, <2>2, <2>3, <2>4, CallEnds
  <2>6. QED
    BY <1>3, <2>2, <2>5 DEF Pool!Flush, Pool!HandBack
<1>6. CASE first.ret = NULL /\ mgr.num_lanes_inuse = 0
  <2>1. BusyLanes(mgr) = {}
    BY <1>1, <1>6, BusyLanesCount
  <2>2. Finished(mgr) = {} /\ Unfinished(mgr) = {} /\ Owned(mgr) = {}
    BY <2>1 DEF Finished, Unfinished, BusyLanes, Owned
  <2>3. e.mgr = mgr /\ e.job = job /\ e.ret = NULL /\ e.fault = FALSE
    BY <2>2, NothingToFree DEF do_jobs, Outcome
  <2>4. Returns(e)
    BY <1>2, <1>6
  <2> HIDE DEF e
  <2>5. IInv' /\ InFlight' = Owned(mgr) /\ ret' = NULL
    BY <1>1, <2>3, <2>4, CallEnds
  <2>6. QED
    BY <1>3, <2>2, <2>5 DEF Pool!Flush, Pool!Keep
<1>7. QED
  BY <1>4, <1>5, <1>6

(* Every call keeps the invariant.                                         *)
LEMMA NextIInv ==
  ASSUME IInv, [Next]_vars
  PROVE  IInv' /\ [Pool!Next]_(Pool!poolVars)
<1>1. CASE \E j \in Jobs, n \in 1 .. MaxBlocks : Submit(j, n)
  BY <1>1, SubmitStep DEF Pool!Next
<1>2. CASE Flush
  BY <1>2, FlushStep DEF Pool!Next
<1>3. CASE UNCHANGED vars
  <2>1. /\ variant' = variant /\ mgr' = mgr /\ job' = job /\ asked' = asked
        /\ ret' = ret /\ fault' = fault
    BY <1>3 DEF vars
  <2>2. Good(mgr, job, asked)'
    BY <2>1, StillGood DEF IInv
  <2>3. IInv'
    BY <2>1, <2>2 DEF IInv
  <2>4. QED
    BY <2>1, <2>3 DEF Pool!poolVars, InFlight
<1>4. QED
  BY <1>1, <1>2, <1>3 DEF Next

LEMMA Invariance ==
  Spec => []IInv
<1>1. Init => IInv
  BY InitIInv
<1>2. IInv /\ [Next]_vars => IInv'
  BY NextIInv
<1>3. QED
  BY <1>1, <1>2, PTL DEF Spec

-----------------------------------------------------------------------------
(* The stacks of the invariant, counted as LaneAccounting counts them.     *)
LEMMA StackCounts ==
  ASSUME IInv
  PROVE  LaneAccounting
<1> DEFINE stack(i)   == mgr.unused_lanes[GroupOf(i)]
           OnStack(i) == {k \in 1 .. Len(stack(i)) : stack(i)[k] = i}
<1>1. variant \in Variants /\ Sane(mgr) /\ Stacks(mgr) /\ mgr.num_lanes_inuse < variant.fill
  BY DEF IInv, Good, Sane
<1>2. ASSUME NEW i \in Lanes
      PROVE  Cardinality(OnStack(i)) = IF mgr.job_in_lane[i] = NULL THEN 1 ELSE 0
  <2>1. GroupOf(i) \in Groups
    BY <1>1, LanesAndGroups
  <2>2. CASE mgr.job_in_lane[i] = NULL
    <3>1. PICK k \in 1 .. Len(stack(i)) : stack(i)[k] = i
      BY <1>1, <2>2 DEF Stacks, OnStackOf
    <3>2. \A b \in 1 .. Len(stack(i)) : stack(i)[b] = i => b = k
      BY <1>1, <2>1, <3>1 DEF Stacks
    <3> HIDE DEF stack
    <3>3. OnStack(i) = {k}
      BY <3>1, <3>2
    <3> HIDE DEF OnStack
    <3>4. Cardinality(OnStack(i)) = 1
      BY <3>3, FS_Singleton
    <3>5. QED
      BY <2>2, <3>4
  <2>3. CASE mgr.job_in_lane[i] # NULL
    <3>1. OnStack(i) = {}
      BY <1>1, <2>3 DEF Stacks, OnStackOf
    <3> HIDE DEF OnStack
    <3>2. Cardinality(OnStack(i)) = 0
      BY <3>1, FS_EmptySet
    <3>3. QED
      BY <2>3, <3>2
  <2>4. QED
    BY <2>2, <2>3
<1>3. \A g \in Groups : \A k \in 1 .. Len(mgr.unused_lanes[g]) :
          GroupOf(mgr.unused_lanes[g][k]) = g
  BY <1>1 DEF Stacks
<1>4. /\ mgr.num_lanes_inuse = Cardinality({i \in Lanes : mgr.job_in_lane[i] # NULL})
      /\ \A i \in Lanes : mgr.job_in_lane[i] = NULL => mgr.lens[i] = 0
  BY <1>1 DEF Sane, BusyLanes
<1>5. QED
  BY <1>1, <1>2, <1>3, <1>4 DEF LaneAccounting

LEMMA TypesFollow ==
  ASSUME ShortJobs, IInv
  PROVE  TypeOK
<1>1. /\ variant \in Variants /\ Good(mgr, job, asked) /\ Sane(mgr) /\ mgr \in Manager
      /\ ret \in Jobs \cup {NULL} /\ fault \in BOOLEAN
  BY DEF IInv, Good, Sane
<1>2. mgr.num_lanes_inuse \in 0 .. NLANES
  BY <1>1, BusyLanesCount
<1>3. ASSUME NEW j \in Jobs
      PROVE  job[j].digest \in Seq(Block)
  <2>1. PICK n \in 0 .. MaxBlocks : job[j].digest = Message(j, n)
    BY <1>1 DEF Good, Prefixes
  <2>2. n \in Nat /\ \A i \in 1 .. n : i \in 1 .. MaxBlocks
    BY VariantAssumption
  <2>3. Message(j, n) \in [1 .. n -> Block]
    BY <2>2 DEF Message, Block
  <2>4. QED
    BY <2>1, <2>2, <2>3, TupleIsSeq
<1>4. QED
  BY <1>1, <1>2, <1>3 DEF TypeOK, Manager, Good

-----------------------------------------------------------------------------
(* With lengths the kernels take as positive, the structures keep their    *)
(* types: a digest is made of blocks of messages, of no others.            *)
THEOREM LaneTypesHold ==
  ASSUME ShortJobs
  PROVE  Spec => []TypeOK
<1>1. IInv => TypeOK
  BY TypesFollow
<1>2. QED
  BY <1>1, Invariance, PTL

(* Whatever the lengths: insert_job finds a lane on the stack it looks at, *)
(* no job in a lane is overwritten, and a submit that fills the lanes finds*)
(* work to run, as the assertions of the managers say.                     *)
THEOREM LanesNoFault ==
  Spec => []NoFault
<1>1. IInv => NoFault
  BY DEF IInv, NoFault
<1>2. QED
  BY <1>1, Invariance, PTL

(* Whatever the lengths, the number of lanes and of stacks: every free lane*)
(* is once on the stack of its group, and num_lanes_inuse counts the rest. *)
THEOREM LaneAccountingHolds ==
  Spec => []LaneAccounting
<1>1. IInv => LaneAccounting
  BY StackCounts
<1>2. QED
  BY <1>1, Invariance, PTL

(* With lengths the kernels take as positive, a job handed back has the    *)
(* digest of its whole message, in its order, and of nothing else, however *)
(* many runs of other jobs' lengths it took.  MBJobMgrC_md5 shows what a   *)
(* longer job gets.                                                        *)
THEOREM LanesDigestIsOwn ==
  ASSUME ShortJobs
  PROVE  Spec => []CompletedDigest
<1>1. IInv => CompletedDigest
  BY DEF IInv, Good, Prefixes, CompletedDigest
<1>2. QED
  BY <1>1, Invariance, PTL

(* The aarch64 managers implement the pool, whatever the lengths: a call   *)
(* hands back at most one job, one that was in a lane; submit keeps all    *)
(* only while there is room, flush only when there are none.               *)
THEOREM LanesImplementPool ==
  Spec => PoolSpec
<1>1. Init => Pool!Init
  BY InitIInv
<1>2. IInv /\ [Next]_vars => [Pool!Next]_(Pool!poolVars)
  BY NextIInv
<1>3. QED
  BY <1>1, <1>2, Invariance, PTL DEF Spec, PoolSpec, Pool!Spec
=============================================================================
