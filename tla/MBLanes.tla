------------------------------ MODULE MBLanes ------------------------------
(***************************************************************************)
(* The lane scheduler under every multi-buffer hash of the library (SHA1,  *)
(* SHA256, SHA512, MD5 and SM3): the x86 routines                          *)
(*   <hash>_mb/<hash>_mb_mgr_init_<arch>.c,                                *)
(*   <hash>_mb/<hash>_mb_mgr_submit_<arch>.asm and                         *)
(*   <hash>_mb/<hash>_mb_mgr_flush_<arch>.asm,                             *)
(* which share one algorithm and differ in the constants below.  The line  *)
(* numbers quoted in this project are those of the SHA1 files.             *)
(*                                                                         *)
(* This module holds no state.  It defines each handler as a function of   *)
(* the manager structure, the job structures and the memory, so that the   *)
(* job manager on its own (MBJobMgr) and the context layer above it        *)
(* (HashCtxMgr) run the very same scheduler.                               *)
(*                                                                         *)
(* The digest of a lane is represented by the sequence of bytes it has     *)
(* absorbed since the initial value: two digests are the same exactly when *)
(* the same bytes were compressed in the same order.                       *)
(*                                                                         *)
(* A definition marked "fault" is the one after it with a plausible bug:   *)
(* it is used only to see that the properties notice the bug.              *)
(***************************************************************************)
EXTENDS Integers, Sequences

CONSTANTS
    Jobs,           \* the ISAL_<HASH>_JOB structures of the caller
    Buffers,        \* the memory areas a job's buffer pointer points into
    Byte,           \* what a cell of memory holds
    NLANES,         \* lanes of the manager (4, 8, 16; 2..8 for SHA512; 32 for MD5)
    FILL,           \* lanes in use at which submit starts to compress
    SB_THRESHOLD,   \* lanes in use up to which flush compresses one lane alone
    BLOCK_SIZE,     \* bytes in a block
    EMPTY_LEN,      \* blocks field of the word 0xFFFFFFFF kept by an empty lane
    EMPTY_TAG,      \* lane field of that word
    NULL,           \* the null pointer
    STALE           \* a pointer the caller may have freed or reused since

(***************************************************************************)
(* FILL < NLANES is the SHA-NI manager of SSE machines, which pairs two of *)
(* its four lanes.  Above EMPTY_LEN blocks the packed word of a job would  *)
(* no longer sort below the word of an empty lane.                         *)
(***************************************************************************)
ASSUME LaneAssumption ==
    /\ NLANES \in Nat
    /\ FILL \in 1..NLANES
    /\ SB_THRESHOLD \in Nat
    /\ BLOCK_SIZE \in Nat \ {0}
    /\ EMPTY_LEN \in Nat
    /\ EMPTY_TAG \in Nat
    /\ NULL \notin Jobs
    /\ STALE \notin Buffers

Lanes == 0 .. NLANES - 1

(* unused_lanes is a stack of nibbles (bytes for SHA512) in one word; its  *)
(* end marker 0xF, and the idle lanes 2 and 3 of the SHA-NI manager below  *)
(* that marker (0xF32), are what submit compares it with.                  *)
NeverFilled == [i \in 1 .. NLANES - FILL |-> FILL - 1 + i]

Pointer   == [buf : Buffers, off : Nat]
StalePtr  == [buf |-> STALE, off |-> 0]
PackedLen == [blocks : Nat, tag : Nat]      \* lens[l] == (blocks << 4) | tag
EmptyWord_AsAtInit == [blocks |-> 0, tag |-> 0]         \* fault: reset forgotten
EmptyWord == [blocks |-> EMPTY_LEN, tag |-> EMPTY_TAG]

(* A job of n blocks sorts before an empty lane; only its word in the last *)
(* lane may be as large.                                                   *)
Fits(n) ==
    \/ n < EMPTY_LEN
    \/ n = EMPTY_LEN /\ EMPTY_TAG >= NLANES - 1

JobSts == {"UNKNOWN", "BEING_PROCESSED", "COMPLETED"}
Job    == [buffer : Pointer, len : Nat, status : JobSts, result_digest : Seq(Byte)]

Manager == [ unused_lanes    : Seq(Lanes),
             num_lanes_inuse : Nat,
             lens            : [Lanes -> PackedLen],
             job_in_lane     : [Lanes -> Jobs \cup {NULL}],
             data_ptr        : [Lanes -> Pointer \cup {StalePtr}],
             digest          : [Lanes -> Seq(Byte)] ]

InitManager_FromLane1 ==    \* fault: 0xF4321 for 0xF3210
    [ unused_lanes    |-> [i \in 1 .. NLANES |-> i],
      num_lanes_inuse |-> 0,
      lens            |-> [l \in Lanes |-> [blocks |-> 0, tag |-> 0]],
      job_in_lane     |-> [l \in Lanes |-> NULL],
      data_ptr        |-> [l \in Lanes |-> StalePtr],
      digest          |-> [l \in Lanes |-> << >>] ]

(* mb_mgr_init: memset, then every lane on the stack, lane 0 on top.       *)
InitManager ==
    [ unused_lanes    |-> [i \in 1 .. NLANES |-> i - 1],
      num_lanes_inuse |-> 0,
      lens            |-> [l \in Lanes |-> [blocks |-> 0, tag |-> 0]],
      job_in_lane     |-> [l \in Lanes |-> NULL],
      data_ptr        |-> [l \in Lanes |-> StalePtr],
      digest          |-> [l \in Lanes |-> << >>] ]

-----------------------------------------------------------------------------
(* Unsigned comparison of two packed length words.                         *)
Below(v, w) ==
    \/ v.blocks < w.blocks
    \/ v.blocks = w.blocks /\ v.tag < w.tag

(* The smallest packed word among the lanes in K: cmovb chain or vpminud.  *)
Shortest(m, K) ==
    m.lens[CHOOSE l \in K : \A k \in K : ~Below(m.lens[k], m.lens[l])]

(* Submit takes the top lane of the stack and loads the job into it.       *)
Admit(m, jobs, j) ==
    LET lane == Head(m.unused_lanes)
    IN  [ unused_lanes    |-> Tail(m.unused_lanes),
          num_lanes_inuse |-> m.num_lanes_inuse + 1,
          lens            |-> [m.lens EXCEPT ![lane] = [blocks |-> jobs[j].len, tag |-> lane]],
          job_in_lane     |-> [m.job_in_lane EXCEPT ![lane] = j],
          data_ptr        |-> [m.data_ptr EXCEPT ![lane] = jobs[j].buffer],
          digest          |-> [m.digest EXCEPT ![lane] = jobs[j].result_digest] ]

BusyLanes(m) == {l \in Lanes : m.job_in_lane[l] # NULL}

(* Flush looks for the last lane with a job (lane 0 when it finds none) ...*)
Donor(m) ==
    IF BusyLanes(m) = {} THEN 0
    ELSE CHOOSE l \in BusyLanes(m) : \A k \in BusyLanes(m) : k <= l

(* ... and lets the empty lanes follow it: they read the same data and are *)
(* longer than any job.                                                    *)
CopyToEmptyLanes(m) ==
    [ unused_lanes    |-> m.unused_lanes,
      num_lanes_inuse |-> m.num_lanes_inuse,
      lens            |-> [l \in Lanes |-> IF m.job_in_lane[l] = NULL THEN EmptyWord
                                           ELSE m.lens[l]],
      job_in_lane     |-> m.job_in_lane,
      data_ptr        |-> [l \in Lanes |-> IF m.job_in_lane[l] = NULL
                                           THEN m.data_ptr[Donor(m)] ELSE m.data_ptr[l]],
      digest          |-> m.digest ]

(* The bytes a kernel run over n blocks reads through a pointer.           *)
BlocksAt(memory, p, n) ==
    SubSeq(memory[p.buf], p.off + 1, p.off + n * BLOCK_SIZE)

(* A kernel run of n blocks on the lanes K stays inside the buffers.       *)
Readable(m, memory, K, n) ==
    \A l \in K : /\ m.data_ptr[l].buf # STALE
                 /\ m.data_ptr[l].off + n * BLOCK_SIZE <= Len(memory[m.data_ptr[l].buf])

Compress_AllLengths(m, memory, K, n) ==     \* fault: every length reduced, whatever ran
    [ m EXCEPT !.lens     = [l \in Lanes |-> [@[l] EXCEPT !.blocks = @ - n]],
               !.digest   = [l \in Lanes |-> IF l \in K
                                             THEN @[l] \o BlocksAt(memory, m.data_ptr[l], n)
                                             ELSE @[l]],
               !.data_ptr = [l \in Lanes |-> IF l \in K
                                             THEN [@[l] EXCEPT !.off = @ + n * BLOCK_SIZE]
                                             ELSE @[l]] ]

Shortened(w, n) == [blocks |-> w.blocks - n, tag |-> w.tag]
Advanced(p, n)  == [buf |-> p.buf, off |-> p.off + n * BLOCK_SIZE]

(* Subtract n blocks from the lanes K and run the kernel on them: <hash>_mb*)
(* _x<n>_<arch> on several lanes, <hash>_opt_x1 or _ni_x1 on one.          *)
Compress(m, memory, K, n) ==
    [ unused_lanes    |-> m.unused_lanes,
      num_lanes_inuse |-> m.num_lanes_inuse,
      lens            |-> [l \in Lanes |-> IF l \in K THEN Shortened(m.lens[l], n)
                                           ELSE m.lens[l]],
      job_in_lane     |-> m.job_in_lane,
      data_ptr        |-> [l \in Lanes |-> IF l \in K THEN Advanced(m.data_ptr[l], n)
                                           ELSE m.data_ptr[l]],
      digest          |-> [l \in Lanes |->
                              IF l \in K
                              THEN m.digest[l] \o BlocksAt(memory, m.data_ptr[l], n)
                              ELSE m.digest[l]] ]

Retire_KeepsCount(m, idx) ==     \* fault: num_lanes_inuse not decremented
    LET busy == BusyLanes(m) \ {idx}
    IN  [m EXCEPT !.unused_lanes     = <<idx>> \o @,
                  !.job_in_lane[idx] = NULL,
                  !.data_ptr         = [l \in Lanes |-> IF l \in busy THEN @[l] ELSE StalePtr],
                  !.digest           = [l \in Lanes |-> IF l \in busy THEN @[l] ELSE << >>]]

(* len_is_0: the job leaves its lane.  The pointers and digests that empty *)
(* lanes keep are dead: the pointers are modelled as STALE, for the caller *)
(* owns the job's buffer again, and the digests as the empty sequence.     *)
Retire(m, idx) ==
    LET busy == BusyLanes(m) \ {idx}
    IN  [ unused_lanes    |-> <<idx>> \o m.unused_lanes,
          num_lanes_inuse |-> m.num_lanes_inuse - 1,
          lens            |-> m.lens,
          job_in_lane     |-> [m.job_in_lane EXCEPT ![idx] = NULL],
          data_ptr        |-> [l \in Lanes |-> IF l \in busy THEN m.data_ptr[l] ELSE StalePtr],
          digest          |-> [l \in Lanes |-> IF l \in busy THEN m.digest[l] ELSE << >>] ]

-----------------------------------------------------------------------------
(* What a handler leaves behind: the manager, the jobs, the job returned.  *)
Result(m, jobs, r) == [mgr |-> m, job |-> jobs, ret |-> r, fault |-> FALSE]

(* The handler used a lane or a job that does not exist, or read outside a *)
(* buffer: undefined, so nothing more is said of the state.                *)
Crashed(m, jobs) == [mgr |-> m, job |-> jobs, ret |-> NULL, fault |-> TRUE]

JobWith(jb, sts, digest) ==
    [buffer |-> jb.buffer, len |-> jb.len, status |-> sts, result_digest |-> digest]

Process_SkipsKernel(m, memory, jobs, K, single) ==  \* fault: last blocks not compressed
    LET word   == Shortest(m, K)
        idx    == word.tag
        active == IF single THEN {idx} ELSE K
        done   == IF word.blocks <= 1 THEN m
                  ELSE Compress(m, memory, active, word.blocks)
        j      == m.job_in_lane[idx]
    IN  Result(Retire(done, idx),
               [jobs EXCEPT ![j] = JobWith(@, "COMPLETED", done.digest[idx])],
               j)

(* Find the shortest of the lanes K, compress that many blocks on all of K *)
(* (or, single, on the shortest lane only), and retire the shortest lane.  *)
Process(m, memory, jobs, K, single) ==
    LET word   == Shortest(m, K)
        idx    == word.tag
        n      == word.blocks
        active == IF single THEN {idx} ELSE K
        legal  == /\ idx \in Lanes
                  /\ m.job_in_lane[idx] # NULL
                  /\ n # 0 => Readable(m, memory, active, n)
        done   == IF n = 0 THEN m ELSE Compress(m, memory, active, n)
        j      == m.job_in_lane[idx]
    IN  IF legal
        THEN Result(Retire(done, idx),
                    [jobs EXCEPT ![j] = JobWith(@, "COMPLETED", done.digest[idx])],
                    j)
        ELSE Crashed(m, jobs)

SubmitJob_Unmarked(m, memory, jobs, j) ==   \* fault: BEING_PROCESSED not set
    LET loaded == Admit(m, jobs, j)
    IN  IF m.unused_lanes = << >> THEN Crashed(m, jobs)
        ELSE IF loaded.unused_lanes # NeverFilled THEN Result(loaded, jobs, NULL)
        ELSE Process(loaded, memory, jobs, 0 .. FILL - 1, FALSE)

(* <hash>_mb_mgr_submit                                                    *)
SubmitJob(m, memory, jobs, j) ==
    LET loaded == Admit(m, jobs, j)
        marked == [jobs EXCEPT ![j] = JobWith(@, "BEING_PROCESSED", @.result_digest)]
    IN  IF m.unused_lanes = << >> THEN Crashed(m, jobs)
        ELSE IF loaded.unused_lanes # NeverFilled THEN Result(loaded, marked, NULL)
        ELSE Process(loaded, memory, marked, 0 .. FILL - 1, FALSE)

FlushJob_LeavesOne(m, memory, jobs) ==      \* fault: <= 1 for = 0
    IF m.num_lanes_inuse <= 1 THEN Result(m, jobs, NULL)
    ELSE Process(CopyToEmptyLanes(m), memory, jobs, Lanes,
                 m.num_lanes_inuse <= SB_THRESHOLD)

FlushJob_AlwaysSingle(m, memory, jobs) ==   \* fault: threshold never exceeded
    IF m.num_lanes_inuse = 0 THEN Result(m, jobs, NULL)
    ELSE Process(CopyToEmptyLanes(m), memory, jobs, Lanes, TRUE)

(* <hash>_mb_mgr_flush                                                     *)
FlushJob(m, memory, jobs) ==
    IF m.num_lanes_inuse = 0 THEN Result(m, jobs, NULL)
    ELSE Process(CopyToEmptyLanes(m), memory, jobs, Lanes,
                 m.num_lanes_inuse <= SB_THRESHOLD)
=============================================================================
