---------------------------- MODULE RollingHash -----------------------------
(***************************************************************************)
(* rolling_hash/rolling_hash2.c: a hash of the last w bytes of a stream    *)
(* that the caller passes buffer after buffer.  A run stops at the first   *)
(* byte after which the hash has the trigger, or at the end of the buffer. *)
(* The first w bytes of a buffer drop bytes of the history the last run    *)
(* kept, the others drop bytes of the buffer itself.                       *)
(*                                                                         *)
(* The loop over a buffer's own bytes exists in C and in assembly for x86. *)
(* The two differ at the end of the buffer: the C loop counts in int, and  *)
(* the x86 loops take the bytes in pairs and, when the hit is an odd last  *)
(* byte, answer one byte too many.                                         *)
(*                                                                         *)
(* The hash is exact but symbolic: the set of the table entries it is the  *)
(* exclusive or of, each with the number of bits it has been rotated by.   *)
(***************************************************************************)
EXTENDS Integers, Sequences

CONSTANTS
    RhByte,         \* bytes
    RhWindows,      \* widths to consider
    RhTriggers,     \* sets of windows whose hash has the trigger, to consider
    RhLoops,        \* the loops the dispatcher may choose: "base", "x86"
    ROTATION,       \* bits of the hash (64)
    INT_LIMIT,      \* 2^31: a length from here on is a negative int
    RhMaxBuffer     \* bound of the model: bytes of one buffer

ASSUME RhAssumption ==
    /\ ROTATION \in Nat
    /\ RhWindows \subseteq 1 .. ROTATION - 1    \* 1 .. ISAL_FINGERPRINT_MAX_WINDOW
    /\ RhLoops \subseteq {"base", "x86"}
    /\ INT_LIMIT \in Nat /\ ROTATION <= INT_LIMIT
    /\ RhMaxBuffer \in 0 .. 2 * INT_LIMIT - 1           \* a uint32_t
    /\ RhTriggers \subseteq SUBSET UNION {[1 .. w -> RhByte] : w \in 1 .. ROTATION - 1}

VARIABLES
    rh,         \* struct isal_rh_state2: w, history, hash
    rhMask,     \* the windows the caller's mask and trigger select
    rhLoop,     \* _rolling_hash2_run_until, as dispatched
    rhRun       \* the last run: window before it, buffer, offset, answer (ghost)

rhVars == <<rh, rhMask, rhLoop, rhRun>>

Buffers(n) == UNION {[1 .. m -> RhByte] : m \in 0 .. n}
SymDiff(S, T) == (S \ T) \cup (T \ S)

(* The last w bytes of a window followed by n bytes of a buffer.           *)
Slide(window, buffer, n) ==
    SubSeq(window \o SubSeq(buffer, 1, n), n + 1, n + Len(window))

(* table1[b] rotated by r, and table2[b]: table1[b] rotated by w.          *)
Entry(b, r) == <<b, r % ROTATION>>

(* The hash of w bytes from scratch.                                       *)
HashOf(window) == {Entry(window[i], Len(window) - i) : i \in 1 .. Len(window)}

Hits(hash) == \E window \in rhMask : hash = HashOf(window)

-----------------------------------------------------------------------------
(* rolling_hash2_reset                                                     *)
Reset(w, init_bytes) == [w |-> w, history |-> init_bytes, hash |-> HashOf(init_bytes)]

(* hash_fn: rotate, take the new byte in and the old one out.              *)
hash_fn(w, h, new_char, old_char) ==
    SymDiff({Entry(t[1], t[2] + 1) : t \in h},
            SymDiff({Entry(new_char, 0)}, {Entry(old_char, w)}))

(* The byte that leaves the window with byte i of the buffer: from the     *)
(* history in the first loop, from buffer - w in run_until.                *)
Leaving(s, buffer, i) == IF i <= s.w THEN s.history[i] ELSE buffer[i - s.w]

(* The hash after each byte of the buffer, as far as a run may go.         *)
Hashes(s, buffer) ==
    LET h[i \in 0 .. Len(buffer)] ==
            IF i = 0 THEN s.hash
            ELSE hash_fn(s.w, h[i - 1], buffer[i], Leaving(s, buffer, i))
    IN  h

Kept_OneShort(s, buffer, n) ==      \* fault: history from one byte too early
    IF n < s.w THEN SubSeq(s.history, n + 1, s.w) \o SubSeq(buffer, 1, n)
    ELSE IF n > s.w THEN SubSeq(buffer, n - s.w, n - 1)
    ELSE buffer

(* The history kept after n bytes: memmove and memcpy while the window     *)
(* reaches back before the buffer, one memcpy after that.                  *)
Kept(s, buffer, n) ==
    IF n <= s.w THEN SubSeq(s.history, n + 1, s.w) \o SubSeq(buffer, 1, n)
    ELSE SubSeq(buffer, n - s.w + 1, n)

Signed(n) == IF n < INT_LIMIT THEN n ELSE n - 2 * INT_LIMIT     \* int max_idx

(* The bytes the loops look at: the first w in C, then those that          *)
(* run_until reaches.  The C loop compares with the int, the x86 loops     *)
(* with the register the unsigned length came in.                          *)
Reach(loop, w, len) ==
    IF len <= w \/ loop = "x86" THEN len
    ELSE IF Signed(len) < w THEN w ELSE Signed(len)

(* A hit at the odd last byte, which the pairs leave: the x86 loops fall   *)
(* through to the add of the second of a pair.                             *)
PastEnd(loop, w, len, n) == loop = "x86" /\ n = len /\ len > w /\ (len - w) % 2 = 1

(* rolling_hash2_run: the loop over the history, then run_until; both stop *)
(* at the first hit, and neither looks at the hash it starts from.  What   *)
(* lies behind the buffer is read into the history after a hit past it.    *)
Run(s, buffer, behind) ==
    LET h     == Hashes(s, buffer)
        reach == Reach(rhLoop, s.w, Len(buffer))
        found == {i \in 1 .. reach : Hits(h[i])}
        n     == IF found = {} THEN reach
                 ELSE CHOOSE i \in found : \A k \in found : i <= k
        past  == found # {} /\ PastEnd(rhLoop, s.w, Len(buffer), n)
    IN  [ state  |-> [ w       |-> s.w,
                       history |-> IF past THEN Kept(s, Append(buffer, behind), n + 1)
                                   ELSE Kept(s, buffer, n),
                       hash    |-> h[n] ],
          offset |-> IF past THEN n + 1 ELSE n,
          ret    |-> IF found = {} THEN "MAX" ELSE "HIT" ]

-----------------------------------------------------------------------------
NoRun(window) ==
    [before |-> window, buffer |-> << >>, offset |-> 0, ret |-> "MAX", lost |-> FALSE]

(* Once a run went past its buffer the history is not the window the hash  *)
(* is of.  Runs go on (a hash of no window is taken to hit nothing), but   *)
(* nothing is said or remembered of them until the next reset.             *)
Astray == rhRun.lost \/ rhRun.offset > Len(rhRun.buffer)

(* rolling_hash2_init and rolling_hash2_reset                              *)
RhInit ==
    /\ rhMask \in RhTriggers
    /\ rhLoop \in RhLoops
    /\ \E w \in RhWindows : \E init_bytes \in [1 .. w -> RhByte] :
          /\ rh = Reset(w, init_bytes)
          /\ rhRun = NoRun(init_bytes)

RhReset ==
    /\ \E init_bytes \in [1 .. rh.w -> RhByte] :
          /\ rh' = Reset(rh.w, init_bytes)
          /\ rhRun' = NoRun(init_bytes)
    /\ UNCHANGED <<rhMask, rhLoop>>

RhRunOn(buffer) ==
    /\ \E behind \in RhByte : \E r \in {Run(rh, buffer, behind)} :
          /\ rh' = r.state
          /\ rhRun' = IF Astray THEN [NoRun(<< >>) EXCEPT !.lost = TRUE]
                      ELSE [ before |-> Slide(rhRun.before, rhRun.buffer, rhRun.offset),
                             buffer |-> buffer, offset |-> r.offset, ret |-> r.ret,
                             lost   |-> FALSE ]
    /\ UNCHANGED <<rhMask, rhLoop>>

RhNext == RhReset \/ \E buffer \in Buffers(RhMaxBuffer) : RhRunOn(buffer)

-----------------------------------------------------------------------------
RhTypeOK ==
    /\ rh.w \in RhWindows
    /\ rh.history \in [1 .. rh.w -> RhByte]
    /\ rhLoop \in RhLoops
    /\ rhRun.offset \in 0 .. Len(rhRun.buffer) + 1
    /\ rhRun.ret \in {"HIT", "MAX"}

(* A run stops at the first window with the trigger and nowhere else: the  *)
(* boundaries it finds do not depend on how the stream is cut, and no byte *)
(* of an older buffer is left in the window and none dropped twice.  Two   *)
(* exceptions, both at the end of the buffer: the x86 loops answer one     *)
(* byte too many for a hit at an odd last byte, and the C loop leaves out  *)
(* all but the first w bytes of a buffer whose length is a negative int.   *)
RhFirstHit ==
    LET len        == Len(rhRun.buffer)
        Windows(n) == Slide(rhRun.before, rhRun.buffer, n)
        n          == IF rhRun.offset > len THEN len ELSE rhRun.offset
    IN  ~rhRun.lost =>
            /\ \A k \in 1 .. n - 1 : Windows(k) \notin rhMask
            /\ rhRun.ret = "HIT" => n > 0 /\ Windows(n) \in rhMask
            /\ rhRun.ret = "MAX" => /\ n > 0 => Windows(n) \notin rhMask
                                    /\ n = len \/ (rhLoop = "base" /\ len >= INT_LIMIT)
            /\ rhRun.offset > len => /\ rhRun.ret = "HIT" /\ rhLoop = "x86"
                                     /\ len > rh.w /\ (len - rh.w) % 2 = 1

(* The offset a run answers lies in its buffer (the test of the rolling    *)
(* hash calls anything else an error, "offset past remaining limit").      *)
RhOffsetInBuffer == rhRun.offset <= Len(rhRun.buffer)
=============================================================================
