-------------------------- MODULE HashCtxMgrProofs --------------------------
(***************************************************************************)
(* The safety invariants of the context layer, for any number of contexts, *)
(* lanes and bytes, and that it implements HashService.  What a call of    *)
(* the job manager does is in MBLanesProofs.  The rest of the argument is  *)
(* about bytes: at every step of a call, what a context has absorbed (or   *)
(* will when its job leaves the lane), its partial block and the rest of   *)
(* the user's buffer are together the message so far.                      *)
(***************************************************************************)
EXTENDS HashCtxMgr, MBLanesProofs

Phases == {{}, {"COMPLETE"}, {"PROCESSING"}, {"PROCESSING", "LAST"},
           {"PROCESSING", "COMPLETE"}}

(* The bytes of a context with fields x that wait in the buffers u and p.  *)
Waits(x, u, p) ==
    SubSeq(p, 1, x.partial_block_buffer_length)
        \o SubSeq(u, x.incoming_buffer + 1, x.incoming_buffer + x.incoming_buffer_length)

WholeBlocks(t) == \E q \in Nat : Len(t) = q * BLOCK_SIZE

(* The context c with fields x, a job of status sts, the user buffer u and *)
(* the partial block buffer p has lost no byte when it absorbed t.         *)
Fine(c, x, sts, t, u, p) ==
    /\ x \in Ctx
    /\ t \in Seq(Byte) /\ u \in Seq(Byte) /\ p \in Seq(Byte)
    /\ Len(p) = 2 * BLOCK_SIZE
    /\ x.status \in Phases
    /\ x.total_length <= MaxTotal
    /\ x.incoming_buffer_length <= MaxTotal
    /\ x.partial_block_buffer_length = 0 \/ x.incoming_buffer_length = 0
    /\ x.incoming_buffer + x.incoming_buffer_length <= Len(u)
    /\ x.status \in {{"PROCESSING"}, {"PROCESSING", "LAST"}} \/ x.incoming_buffer_length = 0
    /\ IF "COMPLETE" \in x.status
       THEN \/ t = Service!Padded(c, x.total_length)
            \/ x.status = {"COMPLETE"} /\ sts = "UNKNOWN" /\ x.total_length = 0
       ELSE /\ t \o Waits(x, u, p) = Service!Message(c, x.total_length)
            /\ WholeBlocks(t)

(* A context is in the hands of a lane or of the running call, or of none. *)
Owned(x, sts, inHand) ==
    /\ "PROCESSING" \in x.status <=> sts = "BEING_PROCESSED" \/ inHand
    /\ ~(sts = "BEING_PROCESSED" /\ inHand)

(* How a context c stands among the contexts, the jobs and the memory,     *)
(* when the jobs in the lanes have these goals.                            *)
Stands(goal, ctxs, jobs, memory, inHand, c) ==
    /\ Fine(c, ctxs[c], jobs[c].status, Text(jobs, goal, c), memory[User(c)], memory[Partial(c)])
    /\ Owned(ctxs[c], jobs[c].status, inHand)
    /\ jobs[c].status = "BEING_PROCESSED" => goal[c].buf \in {User(c), Partial(c)}

CallOK(cl) ==
    /\ cl \in [ pc  : {"idle", "resubmit", "flush"},
                in  : Ctxs \cup {NULL},
                cur : Ctxs \cup {NULL},
                out : Ctxs \cup {NULL, SUBMITTING, FLUSHING},
                rc  : Errors ]
    /\ cl.pc = "idle" <=> cl.out \in Ctxs \cup {NULL}
    /\ cl.pc = "flush" => cl.out = FLUSHING

Good(goal) ==
    /\ Sane(mgr, mem, job, goal)
    /\ mgr.num_lanes_inuse < FILL
    /\ fault = FALSE
    /\ ctx \in [Ctxs -> Ctx]
    /\ CallOK(call)
    /\ \A c \in Ctxs : Stands(goal, ctx, job, mem, Resubmitting(c), c)

IInv == \E goal : Good(goal)

-----------------------------------------------------------------------------
(* A part of a buffer.                                                     *)
LEMMA PartIs ==
  ASSUME NEW s \in Seq(Byte), NEW a \in Nat, NEW b \in Nat, a <= b, b <= Len(s)
  PROVE  /\ SubSeq(s, a + 1, b) \in Seq(Byte)
         /\ Len(SubSeq(s, a + 1, b)) = b - a
         /\ \A i \in 1 .. b - a : SubSeq(s, a + 1, b)[i] = s[a + i]
<1>1. Len(s) \in Nat
  BY LenProperties
<1>2. \A i \in a + 1 .. b : s[i] \in Byte
  BY <1>1, ElementOfSeq
<1>3. /\ SubSeq(s, a + 1, b) \in Seq(Byte)
      /\ Len(SubSeq(s, a + 1, b)) = IF a + 1 <= b THEN b - (a + 1) + 1 ELSE 0
      /\ \A i \in 1 .. b - (a + 1) + 1 : SubSeq(s, a + 1, b)[i] = s[a + 1 + i - 1]
  BY <1>2, SubSeqProperties
<1>4. (IF a + 1 <= b THEN b - (a + 1) + 1 ELSE 0) = b - a /\ b - (a + 1) + 1 = b - a
  OBVIOUS
<1>5. ASSUME NEW i \in 1 .. b - a PROVE SubSeq(s, a + 1, b)[i] = s[a + i]
  <2>1. a + 1 + i - 1 = a + i
    OBVIOUS
  <2>2. SubSeq(s, a + 1, b)[i] = s[a + 1 + i - 1]
    BY <1>3, <1>4
  <2>3. QED
    BY <2>1, <2>2
<1>6. QED
  BY <1>3, <1>4, <1>5

(* The start of one.                                                       *)
LEMMA StartIs ==
  ASSUME NEW s \in Seq(Byte), NEW b \in Nat, b <= Len(s)
  PROVE  /\ SubSeq(s, 1, b) \in Seq(Byte)
         /\ Len(SubSeq(s, 1, b)) = b
         /\ \A i \in 1 .. b : SubSeq(s, 1, b)[i] = s[i]
<1>1. Len(s) \in Nat
  BY LenProperties
<1>2. \A i \in 1 .. b : s[i] \in Byte
  BY <1>1, ElementOfSeq
<1>3. /\ SubSeq(s, 1, b) \in Seq(Byte)
      /\ Len(SubSeq(s, 1, b)) = IF 1 <= b THEN b - 1 + 1 ELSE 0
      /\ \A i \in 1 .. b - 1 + 1 : SubSeq(s, 1, b)[i] = s[1 + i - 1]
  BY <1>2, SubSeqProperties
<1>4. (IF 1 <= b THEN b - 1 + 1 ELSE 0) = b /\ b - 1 + 1 = b
  OBVIOUS
<1>5. ASSUME NEW i \in 1 .. b PROVE SubSeq(s, 1, b)[i] = s[i]
  <2>1. 1 + i - 1 = i
    OBVIOUS
  <2>2. SubSeq(s, 1, b)[i] = s[1 + i - 1]
    BY <1>3, <1>4
  <2>3. QED
    BY <2>1, <2>2
<1>6. QED
  BY <1>3, <1>4, <1>5

(* Two parts side by side are one.                                         *)
LEMMA PartsJoin ==
  ASSUME NEW s \in Seq(Byte), NEW a \in Nat, NEW b \in Nat, NEW d \in Nat,
         a <= b, b <= d, d <= Len(s)
  PROVE  SubSeq(s, a + 1, b) \o SubSeq(s, b + 1, d) = SubSeq(s, a + 1, d)
<1>1. Len(s) \in Nat
  BY LenProperties
<1>2. a + 1 \in 1 .. Len(s) + 1 /\ b \in (a + 1) - 1 .. Len(s) /\ d \in b .. Len(s)
  BY <1>1
<1>3. QED
  BY <1>2, ConcatAdjacentSubSeq

LEMMA Assoc ==
  ASSUME NEW s \in Seq(Byte), NEW t \in Seq(Byte), NEW u \in Seq(Byte)
  PROVE  (s \o t) \o u = s \o (t \o u)
  BY ConcatAssociative

(* What memcpy leaves in its destination.                                  *)
Patch(p, to, u, from, n) ==
    [i \in DOMAIN p |-> IF i \in to + 1 .. to + n THEN u[from + i - to] ELSE p[i]]

Patched(x, p, to, u, from, n) ==
    /\ x \in Seq(Byte)
    /\ Len(x) = Len(p)
    /\ SubSeq(x, 1, to + n) = SubSeq(p, 1, to) \o SubSeq(u, from + 1, from + n)

LEMMA PatchIs ==
  ASSUME NEW p \in Seq(Byte), NEW u \in Seq(Byte), NEW to \in Nat, NEW from \in Nat,
         NEW n \in Nat, to + n <= Len(p), from + n <= Len(u)
  PROVE  Patched(Patch(p, to, u, from, n), p, to, u, from, n)
<1> DEFINE x == Patch(p, to, u, from, n)
           v == SubSeq(p, 1, to)
           w == SubSeq(u, from + 1, from + n)
           y == SubSeq(x, 1, to + n)
<1>1. /\ Len(p) \in Nat /\ DOMAIN p = 1 .. Len(p) /\ Len(u) \in Nat
      /\ \A i \in 1 .. Len(p) : p[i] \in Byte
      /\ \A i \in 1 .. Len(u) : u[i] \in Byte
  BY LenProperties, ElementOfSeq
<1>2. \A i \in 1 .. Len(p) : x[i] = IF i \in to + 1 .. to + n THEN u[from + i - to] ELSE p[i]
  BY <1>1 DEF Patch
<1>3. x \in [1 .. Len(p) -> Byte]
  <2>1. ASSUME NEW i \in 1 .. Len(p)
        PROVE  (IF i \in to + 1 .. to + n THEN u[from + i - to] ELSE p[i]) \in Byte
    <3>1. CASE i \in to + 1 .. to + n
      <4>1. from + i - to \in 1 .. Len(u)
        BY <1>1, <3>1
      <4>2. QED
        BY <1>1, <3>1, <4>1
    <3>2. CASE i \notin to + 1 .. to + n
      BY <1>1, <3>2
    <3>3. QED
      BY <3>1, <3>2
  <2>2. QED
    BY <1>1, <2>1 DEF Patch
<1> HIDE DEF x
<1>4. x \in Seq(Byte) /\ Len(x) = Len(p)
  <2>1. x \in Seq(Byte)
    BY <1>1, <1>3, SeqDef
  <2>2. QED
    BY <1>1, <1>3, <2>1, LenProperties
<1>5. /\ v \in Seq(Byte) /\ Len(v) = to
      /\ \A i \in 1 .. to : v[i] = p[i]
  BY <1>1, StartIs
<1>6. /\ w \in Seq(Byte) /\ Len(w) = n
      /\ \A i \in 1 .. n : w[i] = u[from + i]
  <2>1. from + n - from = n
    OBVIOUS
  <2>2. /\ w \in Seq(Byte) /\ Len(w) = from + n - from
        /\ \A i \in 1 .. from + n - from : w[i] = u[from + i]
    BY <1>1, PartIs
  <2>3. QED
    BY <2>1, <2>2
<1>7. /\ y \in Seq(Byte) /\ Len(y) = to + n
      /\ \A i \in 1 .. to + n : y[i] = x[i]
  BY <1>1, <1>4, StartIs
<1> HIDE DEF v, w, y
<1>8. /\ v \o w \in Seq(Byte) /\ Len(v \o w) = to + n
      /\ \A i \in 1 .. to + n : (v \o w)[i] = IF i <= to THEN v[i] ELSE w[i - to]
  BY <1>5, <1>6, ConcatProperties
<1>9. ASSUME NEW i \in 1 .. to + n
      PROVE  y[i] = (v \o w)[i]
  <2>1. i \in 1 .. Len(p)
    BY <1>1
  <2>2. CASE i <= to
    <3>1. i \in 1 .. to /\ i \notin to + 1 .. to + n
      BY <2>2
    <3>2. QED
      BY <1>2, <1>5, <1>7, <1>8, <2>1, <2>2, <3>1
  <2>3. CASE ~(i <= to)
    <3>1. i - to \in 1 .. n /\ i \in to + 1 .. to + n /\ from + (i - to) = from + i - to
      BY <2>3
    <3>2. y[i] = u[from + i - to]
      BY <1>2, <1>7, <2>1, <3>1
    <3>3. (v \o w)[i] = u[from + (i - to)]
      BY <1>6, <1>8, <2>3, <3>1
    <3>4. QED
      BY <3>1, <3>2, <3>3
  <2>4. QED
    BY <2>2, <2>3
<1>10. y = v \o w
  BY <1>7, <1>8, <1>9, SeqEqual
<1>11. QED
  BY <1>4, <1>10 DEF x, y, v, w, Patched

Copied(x, memory, dst, to, src, from, n) ==
    /\ x \in [Buffers -> Seq(Byte)]
    /\ x[dst] = Patch(memory[dst], to, memory[src], from, n)
    /\ \A b \in Buffers \ {dst} : x[b] = memory[b]

LEMMA CopyIs ==
  ASSUME NEW memory \in [Buffers -> Seq(Byte)], NEW dst \in Buffers, NEW src \in Buffers,
         NEW to \in Nat, NEW from \in Nat, NEW n \in Nat,
         to + n <= Len(memory[dst]), from + n <= Len(memory[src])
  PROVE  Copied(Copy(memory, dst, to, src, from, n), memory, dst, to, src, from, n)
<1>1. Patch(memory[dst], to, memory[src], from, n) \in Seq(Byte)
  BY PatchIs DEF Patched
<1>2. Copy(memory, dst, to, src, from, n)
        = [memory EXCEPT ![dst] = Patch(memory[dst], to, memory[src], from, n)]
  BY DEF Copy, Patch
<1> HIDE DEF Patch
<1>3. QED
  BY <1>1, <1>2 DEF Copied

-----------------------------------------------------------------------------
(* Whole blocks and odd bytes.                                             *)
LEMMA DivisionIs ==
  ASSUME NEW n \in Int
  PROVE  /\ n \div BLOCK_SIZE \in Int
         /\ n % BLOCK_SIZE \in 0 .. BLOCK_SIZE - 1
         /\ n = (n \div BLOCK_SIZE) * BLOCK_SIZE + (n % BLOCK_SIZE)
  BY LaneAssumption

LEMMA DivisionOf ==
  ASSUME NEW q \in Int, NEW r \in 0 .. BLOCK_SIZE - 1
  PROVE  /\ (q * BLOCK_SIZE + r) \div BLOCK_SIZE = q
         /\ (q * BLOCK_SIZE + r) % BLOCK_SIZE = r
  BY LaneAssumption

(* Blocks of no more bytes are no more.                                    *)
LEMMA DivisionLess ==
  ASSUME NEW n \in Nat, NEW max \in Nat, n <= max
  PROVE  /\ n \div BLOCK_SIZE \in Nat /\ max \div BLOCK_SIZE \in Nat
         /\ n \div BLOCK_SIZE <= max \div BLOCK_SIZE
  BY LaneAssumption

(* Bytes of blocks, compared.                                              *)
LEMMA ProductLess ==
  ASSUME NEW a \in Int, NEW b \in Int, a * BLOCK_SIZE < b * BLOCK_SIZE
  PROVE  a < b
  BY LaneAssumption

(* The padding ends where the first or the second block does, and has as   *)
(* many zeros as the standard asks for.                                    *)
PadsTo(total, i, g, s) ==
    /\ total % BLOCK_SIZE = i
    /\ PadEnd(total) = i + g + 1 + PADLENGTHFIELD_SIZE
    /\ PadEnd(total) = s * BLOCK_SIZE
    /\ PadEnd(total) \div BLOCK_SIZE = s
    /\ (BLOCK_SIZE - ((total + 1 + PADLENGTHFIELD_SIZE) % BLOCK_SIZE)) % BLOCK_SIZE = g

LEMMA PadEndIs ==
  ASSUME NEW q \in Nat, NEW i \in 0 .. BLOCK_SIZE - 1
  PROVE  \E g \in 0 .. BLOCK_SIZE - 1, s \in 1 .. 2 : PadsTo(q * BLOCK_SIZE + i, i, g, s)
<1> DEFINE total == q * BLOCK_SIZE + i
           F     == PADLENGTHFIELD_SIZE
           back  == -(total + F + 1)
           room  == total + 1 + F
           g     == back % BLOCK_SIZE
           k     == back \div BLOCK_SIZE
           s     == -k - q
<1>1. /\ BLOCK_SIZE \in Nat \ {0} /\ F \in 1 .. BLOCK_SIZE - 1
  BY LaneAssumption, CtxAssumption
<1>2. q * BLOCK_SIZE \in Nat /\ total \in Nat /\ back \in Int /\ room \in Nat /\ back = -room
  BY <1>1, Product
<1> HIDE DEF total
<1>3. k \in Int /\ g \in 0 .. BLOCK_SIZE - 1 /\ back = k * BLOCK_SIZE + g
  BY <1>2, DivisionIs
<1>4. total % BLOCK_SIZE = i
  BY DivisionOf DEF total
<1>5. PadEnd(total) = i + g + 1 + F
  BY <1>4 DEF PadEnd
<1> HIDE DEF g, k
<1>6. s \in Int /\ s * BLOCK_SIZE = -(k * BLOCK_SIZE) - q * BLOCK_SIZE
  BY <1>1, <1>3
<1>7. i + g + 1 + F = s * BLOCK_SIZE
  <2> DEFINE a == k * BLOCK_SIZE
             b == q * BLOCK_SIZE
  <2>1. a \in Int /\ b \in Int /\ total = b + i /\ back = a + g /\ s * BLOCK_SIZE = -a - b
    BY <1>1, <1>2, <1>3, <1>6 DEF total
  <2> HIDE DEF a, b
  <2>2. back = -(total + F + 1)
    OBVIOUS
  <2> HIDE DEF s, back
  <2>3. QED
    BY <1>1, <1>3, <2>1, <2>2
<1>8. s \in 1 .. 2
  <2>1. 0 * BLOCK_SIZE < s * BLOCK_SIZE
    BY <1>1, <1>3, <1>7
  <2>2. s * BLOCK_SIZE < 3 * BLOCK_SIZE
    BY <1>1, <1>3, <1>7
  <2> HIDE DEF s
  <2>3. 0 < s /\ s < 3
    BY <1>6, <2>1, <2>2, ProductLess
  <2>4. QED
    BY <1>6, <2>3
<1>9. PadEnd(total) \div BLOCK_SIZE = s
  <2> HIDE DEF s
  <2>1. s * BLOCK_SIZE + 0 = PadEnd(total)
    BY <1>1, <1>5, <1>6, <1>7, <1>8
  <2>2. 0 \in 0 .. BLOCK_SIZE - 1
    BY <1>1
  <2>3. (s * BLOCK_SIZE + 0) \div BLOCK_SIZE = s
    BY <1>6, <2>2, DivisionOf
  <2>4. QED
    BY <2>1, <2>3
<1>10. (BLOCK_SIZE - (room % BLOCK_SIZE)) % BLOCK_SIZE = g
  <2> HIDE DEF s
  <2>1. CASE g = 0
    <3>1. (-k) * BLOCK_SIZE + 0 = room
      BY <1>1, <1>2, <1>3, <2>1
    <3>2. 0 \in 0 .. BLOCK_SIZE - 1 /\ -k \in Int
      BY <1>1, <1>3
    <3>3. room % BLOCK_SIZE = 0
      BY <3>1, <3>2, DivisionOf
    <3>4. 1 * BLOCK_SIZE + 0 = BLOCK_SIZE - (room % BLOCK_SIZE)
      BY <1>1, <3>3
    <3>5. (BLOCK_SIZE - (room % BLOCK_SIZE)) % BLOCK_SIZE = 0
      BY <3>2, <3>4, DivisionOf
    <3>6. QED
      BY <2>1, <3>5
  <2>2. CASE g # 0
    <3>1. (-k - 1) * BLOCK_SIZE = -(k * BLOCK_SIZE) - BLOCK_SIZE
      BY <1>1, <1>3
    <3>2. (-k - 1) * BLOCK_SIZE + (BLOCK_SIZE - g) = room
      <4> DEFINE a == k * BLOCK_SIZE
                 b == (-k - 1) * BLOCK_SIZE
      <4>1. a \in Int /\ b = -a - BLOCK_SIZE /\ back = a + g
        BY <1>1, <1>3, <3>1
      <4>2. back = -room
        BY <1>2
      <4> HIDE DEF a, b, back, room
      <4>3. b + (BLOCK_SIZE - g) = room
        BY <1>1, <1>2, <1>3, <4>1, <4>2
      <4>4. QED
        BY <4>3 DEF b
    <3>3. BLOCK_SIZE - g \in 0 .. BLOCK_SIZE - 1 /\ -k - 1 \in Int
      BY <1>1, <1>3, <2>2
    <3>4. room % BLOCK_SIZE = BLOCK_SIZE - g
      BY <3>2, <3>3, DivisionOf
    <3>5. 0 * BLOCK_SIZE + g = BLOCK_SIZE - (room % BLOCK_SIZE)
      BY <1>1, <1>3, <3>4
    <3>6. QED
      BY <1>3, <3>5, DivisionOf
  <2>3. QED
    BY <2>1, <2>2
<1>11. PadEnd(total) = s * BLOCK_SIZE
  BY <1>5, <1>7
<1>12. PadsTo(total, i, g, s)
  BY <1>4, <1>5, <1>9, <1>10, <1>11 DEF PadsTo
<1>13. QED
  BY <1>3, <1>8, <1>12 DEF total

-----------------------------------------------------------------------------
(* The message so far.                                                     *)
LEMMA MessageIs ==
  ASSUME NEW c \in Ctxs, NEW n \in Nat, n <= MaxTotal
  PROVE  /\ Service!Message(c, n) \in Seq(Byte)
         /\ Len(Service!Message(c, n)) = n
         /\ \A i \in 1 .. n : Service!Message(c, n)[i] = Service!DataByte(c, i)
<1>1. \A i \in 1 .. n : Service!DataByte(c, i) \in Byte
  BY CtxAssumption, CellAssumption
<1>2. Service!Message(c, n) = [i \in 1 .. n |-> Service!DataByte(c, i)]
  BY DEF Service!Message
<1> DEFINE x == Service!Message(c, n)
<1> HIDE DEF x
<1>3. x \in [1 .. n -> Byte] /\ \A i \in 1 .. n : x[i] = Service!DataByte(c, i)
  BY <1>1, <1>2 DEF x
<1>4. x \in Seq(Byte)
  BY <1>3, SeqDef
<1>5. Len(x) = n
  BY <1>3, <1>4, LenProperties
<1>6. QED
  BY <1>3, <1>4, <1>5 DEF x

(* The padding of the standard, behind i odd bytes of a block.             *)
Tail80(g, total) ==
    (<<Service!Hex80>> \o [k \in 1 .. g + PADLENGTHFIELD_SIZE - 1 |-> Service!Zero])
        \o <<Service!LengthByte(total)>>

LEMMA Tail80Is ==
  ASSUME NEW g \in Nat, NEW total \in Nat, total <= MaxTotal
  PROVE  /\ Tail80(g, total) \in Seq(Byte)
         /\ Len(Tail80(g, total)) = g + PADLENGTHFIELD_SIZE + 1
         /\ Tail80(g, total)[1] = Service!Hex80
         /\ \A k \in 2 .. g + PADLENGTHFIELD_SIZE : Tail80(g, total)[k] = Service!Zero
         /\ Tail80(g, total)[g + PADLENGTHFIELD_SIZE + 1] = Service!LengthByte(total)
<1> DEFINE z == g + PADLENGTHFIELD_SIZE - 1
           h == <<Service!Hex80>>
           Z == [k \in 1 .. z |-> Service!Zero]
           l == <<Service!LengthByte(total)>>
<1>1. /\ z \in Nat /\ PADLENGTHFIELD_SIZE \in Nat
      /\ Service!Hex80 \in Byte /\ Service!Zero \in Byte /\ Service!LengthByte(total) \in Byte
  BY CtxAssumption, CellAssumption, LaneAssumption
<1>2. /\ h \in Seq(Byte) /\ Len(h) = 1 /\ h[1] = Service!Hex80
      /\ l \in Seq(Byte) /\ Len(l) = 1 /\ l[1] = Service!LengthByte(total)
  BY <1>1
<1>3. Z \in [1 .. z -> Byte] /\ \A k \in 1 .. z : Z[k] = Service!Zero
  BY <1>1
<1>4. g + PADLENGTHFIELD_SIZE + 1 = z + 2 /\ g + PADLENGTHFIELD_SIZE = z + 1
  BY <1>1
<1>5. Tail80(g, total) = (h \o Z) \o l
  BY DEF Tail80
<1> HIDE DEF z, h, Z, l
<1>6. Z \in Seq(Byte)
  BY <1>1, <1>3, SeqDef
<1>7. Len(Z) = z
  BY <1>1, <1>3, <1>6, LenProperties
<1>8. /\ h \o Z \in Seq(Byte) /\ Len(h \o Z) = z + 1
      /\ \A k \in 1 .. z + 1 : (h \o Z)[k] = IF k <= 1 THEN h[k] ELSE Z[k - 1]
  <2>1. h \in Seq(Byte) /\ Z \in Seq(Byte)
    BY <1>2, <1>6
  <2>2. /\ h \o Z \in Seq(Byte) /\ Len(h \o Z) = Len(h) + Len(Z)
        /\ \A k \in 1 .. Len(h) + Len(Z) :
                (h \o Z)[k] = IF k <= Len(h) THEN h[k] ELSE Z[k - Len(h)]
    BY <2>1, ConcatProperties
  <2>3. Len(h) = 1 /\ Len(Z) = z /\ 1 + z = z + 1
    BY <1>1, <1>2, <1>7
  <2>4. QED
    BY <2>2, <2>3
<1> DEFINE y == h \o Z
           x == y \o l
<1> HIDE DEF y
<1>9. /\ y \in Seq(Byte) /\ Len(y) = z + 1
      /\ y[1] = Service!Hex80
      /\ \A k \in 2 .. z + 1 : y[k] = Service!Zero
  <2>1. 1 \in 1 .. z + 1 /\ 1 <= 1
    BY <1>1
  <2>2. y[1] = Service!Hex80
    BY <1>2, <1>8, <2>1 DEF y
  <2>3. ASSUME NEW k \in 2 .. z + 1 PROVE y[k] = Service!Zero
    <3>1. k \in 1 .. z + 1 /\ ~(k <= 1) /\ k - 1 \in 1 .. z
      BY <1>1
    <3>2. QED
      BY <1>3, <1>8, <3>1 DEF y
  <2>4. QED
    BY <1>8, <2>2, <2>3 DEF y
<1>10. /\ x \in Seq(Byte) /\ Len(x) = z + 2
       /\ \A k \in 1 .. z + 2 : x[k] = IF k <= z + 1 THEN y[k] ELSE l[k - (z + 1)]
  <2> DEFINE m == z + 1
  <2>1. m \in Nat /\ Len(y) = m /\ m + 1 = z + 2
    BY <1>1, <1>9
  <2> HIDE DEF m
  <2>2. y \in Seq(Byte) /\ l \in Seq(Byte)
    BY <1>2, <1>9
  <2>3. /\ x \in Seq(Byte) /\ Len(x) = Len(y) + Len(l)
        /\ \A k \in 1 .. Len(y) + Len(l) :
                x[k] = IF k <= Len(y) THEN y[k] ELSE l[k - Len(y)]
    BY <2>2, ConcatProperties
  <2>4. Len(l) = 1
    BY <1>2
  <2>5. QED
    BY <2>1, <2>3, <2>4 DEF m
<1> HIDE DEF x
<1>11. x[1] = Service!Hex80
  <2>1. 1 \in 1 .. z + 2 /\ 1 <= z + 1
    BY <1>1
  <2>2. QED
    BY <1>9, <1>10, <2>1
<1>12. \A k \in 2 .. z + 1 : x[k] = Service!Zero
  <2>1. ASSUME NEW k \in 2 .. z + 1 PROVE x[k] = Service!Zero
    <3>1. k \in 1 .. z + 2 /\ k <= z + 1
      BY <1>1
    <3>2. QED
      BY <1>9, <1>10, <3>1
  <2>2. QED
    BY <2>1
<1>13. x[z + 2] = Service!LengthByte(total)
  <2>1. z + 2 \in 1 .. z + 2 /\ ~(z + 2 <= z + 1) /\ (z + 2) - (z + 1) = 1
    BY <1>1
  <2>2. QED
    BY <1>2, <1>10, <2>1
<1>14. Tail80(g, total) = x
  BY <1>5 DEF x, y
<1>15. QED
  BY <1>4, <1>10, <1>11, <1>12, <1>13, <1>14

(* The padded message is the message and that.                             *)
LEMMA PaddedIs ==
  ASSUME NEW c \in Ctxs, NEW total \in Nat, total <= MaxTotal,
         NEW i, NEW g \in 0 .. BLOCK_SIZE - 1, NEW s, PadsTo(total, i, g, s)
  PROVE  Service!Padded(c, total) = Service!Message(c, total) \o Tail80(g, total)
<1> DEFINE M == Service!Message(c, total)
           h == <<Service!Hex80>>
           Z == [k \in 1 .. g + PADLENGTHFIELD_SIZE - 1 |-> Service!Zero]
           l == <<Service!LengthByte(total)>>
<1>1. (BLOCK_SIZE - ((total + 1 + PADLENGTHFIELD_SIZE) % BLOCK_SIZE)) % BLOCK_SIZE = g
  BY DEF PadsTo
<1>2. Service!Padded(c, total) = ((M \o h) \o Z) \o l
  BY <1>1 DEF Service!Padded
<1>3. /\ g \in Nat /\ g + PADLENGTHFIELD_SIZE - 1 \in Nat
      /\ Service!Hex80 \in Byte /\ Service!Zero \in Byte /\ Service!LengthByte(total) \in Byte
  BY CtxAssumption, CellAssumption, LaneAssumption
<1>4. Z \in Seq(Byte)
  <2> DEFINE z == g + PADLENGTHFIELD_SIZE - 1
  <2>1. z \in Nat /\ Z \in [1 .. z -> Byte]
    BY <1>3
  <2> HIDE DEF z, Z
  <2>2. QED
    BY <2>1, SeqDef
<1>5. h \in Seq(Byte) /\ l \in Seq(Byte) /\ M \in Seq(Byte)
  BY <1>3, MessageIs
<1>6. Tail80(g, total) = (h \o Z) \o l
  BY DEF Tail80
<1> HIDE DEF M, h, Z, l
<1>7. h \o Z \in Seq(Byte)
  BY <1>4, <1>5, ConcatProperties
<1>8. (M \o h) \o Z = M \o (h \o Z)
  BY <1>4, <1>5, Assoc
<1>9. (M \o (h \o Z)) \o l = M \o ((h \o Z) \o l)
  <2> DEFINE n == h \o Z
  <2> HIDE DEF n
  <2>1. n \in Seq(Byte)
    BY <1>7 DEF n
  <2>2. (M \o n) \o l = M \o (n \o l)
    BY <1>5, <2>1, Assoc
  <2>3. QED
    BY <2>2 DEF n
<1>10. QED
  BY <1>2, <1>6, <1>8, <1>9 DEF M

(* What hash_pad leaves in the partial block buffer.                       *)
PaddedBuffer(p, total) ==
    LET i == total % BLOCK_SIZE
        e == PadEnd(total)
        zeros == (i + 2 .. i + BLOCK_SIZE) \cup (e - PADLENGTHFIELD_SIZE + 1 .. e)
    IN  [k \in DOMAIN p |->
            CASE k = e              -> Service!LengthByte(total)
              [] k \in zeros \ {e} -> Service!Zero
              [] k = i + 1          -> Service!Hex80
              [] OTHER              -> p[k]]

(* It is the odd bytes of the message, and the padding to the end of a     *)
(* block.                                                                  *)
EndsPadded(p, x, total, i, g, s) ==
    /\ x \in Seq(Byte)
    /\ Len(x) = 2 * BLOCK_SIZE
    /\ SubSeq(x, 1, s * BLOCK_SIZE) = SubSeq(p, 1, i) \o Tail80(g, total)

LEMMA PaddedBufferIs ==
  ASSUME NEW p \in Seq(Byte), Len(p) = 2 * BLOCK_SIZE, NEW total \in Nat, total <= MaxTotal,
         NEW i \in 0 .. BLOCK_SIZE - 1, NEW g \in 0 .. BLOCK_SIZE - 1, NEW s \in 1 .. 2,
         PadsTo(total, i, g, s)
  PROVE  EndsPadded(p, PaddedBuffer(p, total), total, i, g, s)
<1> DEFINE x == PaddedBuffer(p, total)
           e == PadEnd(total)
           F == PADLENGTHFIELD_SIZE
           v == SubSeq(p, 1, i)
           w == Tail80(g, total)
           y == SubSeq(x, 1, e)
           zeros == (i + 2 .. i + BLOCK_SIZE) \cup (e - F + 1 .. e)
<1>1. /\ BLOCK_SIZE \in Nat \ {0} /\ F \in 1 .. BLOCK_SIZE - 1
      /\ Service!Hex80 \in Byte /\ Service!Zero \in Byte /\ Service!LengthByte(total) \in Byte
  BY LaneAssumption, CtxAssumption, CellAssumption
<1>2. /\ total % BLOCK_SIZE = i /\ e = i + g + 1 + F /\ e = s * BLOCK_SIZE
  BY DEF PadsTo
<1>3. e \in Nat /\ e <= 2 * BLOCK_SIZE
  BY <1>1, <1>2
<1>4. \A k \in 1 .. 2 * BLOCK_SIZE : p[k] \in Byte
  BY <1>1, ElementOfSeq
<1>5. DOMAIN p = 1 .. 2 * BLOCK_SIZE
  BY LenProperties
<1> HIDE DEF e
<1>6. x = [k \in 1 .. 2 * BLOCK_SIZE |->
            CASE k = e              -> Service!LengthByte(total)
              [] k \in zeros \ {e} -> Service!Zero
              [] k = i + 1          -> Service!Hex80
              [] OTHER              -> p[k]]
  BY <1>2, <1>5 DEF PaddedBuffer, e
<1> HIDE DEF x
<1>7. ASSUME NEW k \in 1 .. 2 * BLOCK_SIZE
      PROVE  /\ k <= i => x[k] = p[k]
             /\ k = i + 1 => x[k] = Service!Hex80
             /\ k \in i + 2 .. e - 1 => x[k] = Service!Zero
             /\ k = e => x[k] = Service!LengthByte(total)
             /\ k > e => x[k] \in {p[k], Service!Zero}
  <2>1. x[k] = CASE k = e              -> Service!LengthByte(total)
                 [] k \in zeros \ {e} -> Service!Zero
                 [] k = i + 1          -> Service!Hex80
                 [] OTHER              -> p[k]
    BY <1>6
  <2>2. CASE k <= i
    <3>1. /\ k # e /\ k \notin zeros /\ k # i + 1
          /\ k \notin i + 2 .. e - 1 /\ ~(k > e)
      BY <1>1, <1>2, <2>2
    <3>2. QED
      BY <2>1, <3>1
  <2>3. CASE k = i + 1
    <3>1. k # e /\ k \notin zeros /\ ~(k <= i) /\ k \notin i + 2 .. e - 1 /\ ~(k > e)
      BY <1>1, <1>2, <2>3
    <3>2. QED
      BY <2>1, <2>3, <3>1
  <2>4. CASE k \in i + 2 .. e - 1
    <3>1. k # e /\ k # i + 1 /\ ~(k <= i) /\ ~(k > e) /\ k \in zeros \ {e}
      BY <1>1, <1>2, <2>4
    <3>2. QED
      BY <2>1, <2>4, <3>1
  <2>5. CASE k = e
    <3>1. k # i + 1 /\ ~(k <= i) /\ ~(k > e) /\ k \notin i + 2 .. e - 1 /\ k \notin zeros \ {e}
      BY <1>1, <1>2, <2>5
    <3>2. x[k] = Service!LengthByte(total)
      BY <2>1, <2>5, <3>1
    <3>3. QED
      BY <3>1, <3>2
  <2>6. CASE k > e
    <3>1. k # e /\ k # i + 1 /\ ~(k <= i) /\ k \notin i + 2 .. e - 1
      BY <1>1, <1>2, <2>6
    <3>2. QED
      BY <2>1, <2>6, <3>1
  <2>7. QED
    <3>1. k <= i \/ k = i + 1 \/ k \in i + 2 .. e - 1 \/ k = e \/ k > e
      BY <1>1, <1>2
    <3>2. QED
      BY <2>2, <2>3, <2>4, <2>5, <2>6, <3>1
<1>8. \A k \in 1 .. 2 * BLOCK_SIZE : x[k] \in Byte
  <2>1. ASSUME NEW k \in 1 .. 2 * BLOCK_SIZE PROVE x[k] \in Byte
    <3>1. k <= i \/ k = i + 1 \/ k \in i + 2 .. e - 1 \/ k = e \/ k > e
      BY <1>1, <1>2
    <3>2. QED
      BY <1>1, <1>4, <1>7, <3>1
  <2>2. QED
    BY <2>1
<1>9. x \in Seq(Byte) /\ Len(x) = 2 * BLOCK_SIZE
  <2> DEFINE n == 2 * BLOCK_SIZE
  <2>1. n \in Nat /\ x = [k \in 1 .. n |-> x[k]] /\ \A k \in 1 .. n : x[k] \in Byte
    BY <1>1, <1>6, <1>8
  <2> HIDE DEF n
  <2>2. x \in [1 .. n -> Byte]
    BY <2>1
  <2>3. x \in Seq(Byte)
    BY <2>1, <2>2, SeqDef
  <2>4. QED
    BY <2>1, <2>2, <2>3, LenProperties DEF n
<1>10. /\ v \in Seq(Byte) /\ Len(v) = i
       /\ \A k \in 1 .. i : v[k] = p[k]
  <2>1. i \in Nat /\ i <= Len(p)
    BY <1>1
  <2>2. QED
    BY <2>1, StartIs
<1>11. /\ w \in Seq(Byte) /\ Len(w) = g + F + 1
       /\ w[1] = Service!Hex80
       /\ \A k \in 2 .. g + F : w[k] = Service!Zero
       /\ w[g + F + 1] = Service!LengthByte(total)
  <2>1. g \in Nat
    BY <1>1
  <2>2. QED
    BY <2>1, Tail80Is
<1>12. /\ y \in Seq(Byte) /\ Len(y) = e
       /\ \A k \in 1 .. e : y[k] = x[k]
  BY <1>3, <1>9, StartIs
<1> HIDE DEF v, w, y
<1>13. /\ v \o w \in Seq(Byte) /\ Len(v \o w) = Len(v) + Len(w)
       /\ \A k \in 1 .. Len(v) + Len(w) : (v \o w)[k] = IF k <= Len(v) THEN v[k] ELSE w[k - Len(v)]
  <2>1. v \in Seq(Byte) /\ w \in Seq(Byte)
    BY <1>10, <1>11
  <2>2. QED
    BY <2>1, ConcatProperties
<1>14. Len(v) + Len(w) = e
  BY <1>1, <1>2, <1>10, <1>11
<1>15. ASSUME NEW k \in 1 .. e
       PROVE  y[k] = (v \o w)[k]
  <2>1. k \in 1 .. 2 * BLOCK_SIZE /\ y[k] = x[k]
    BY <1>1, <1>3, <1>12
  <2>2. (v \o w)[k] = IF k <= i THEN v[k] ELSE w[k - i]
    BY <1>10, <1>13, <1>14
  <2>3. CASE k <= i
    <3>1. k \in 1 .. i
      BY <2>3
    <3>2. QED
      BY <1>7, <1>10, <2>1, <2>2, <2>3, <3>1
  <2>4. CASE k = i + 1
    <3>1. k - i = 1 /\ ~(k <= i)
      BY <2>4
    <3>2. QED
      BY <1>7, <1>11, <2>1, <2>2, <2>4, <3>1
  <2>5. CASE k \in i + 2 .. e - 1
    <3>1. k - i \in 2 .. g + F /\ ~(k <= i)
      BY <1>1, <1>2, <2>5
    <3>2. QED
      BY <1>7, <1>11, <2>1, <2>2, <2>5, <3>1
  <2>6. CASE k = e
    <3>1. k - i = g + F + 1 /\ ~(k <= i)
      BY <1>1, <1>2, <2>6
    <3>2. QED
      BY <1>7, <1>11, <2>1, <2>2, <2>6, <3>1
  <2>7. QED
    <3>1. k <= i \/ k = i + 1 \/ k \in i + 2 .. e - 1 \/ k = e
      BY <1>1, <1>2
    <3>2. QED
      BY <2>3, <2>4, <2>5, <2>6, <3>1
<1>16. y = v \o w
  BY <1>12, <1>13, <1>14, <1>15, SeqEqual
<1>17. QED
  BY <1>2, <1>9, <1>16 DEF x, y, v, w, EndsPadded

-----------------------------------------------------------------------------
(* What is left of the user's data is taken: w whole blocks where they     *)
(* are, the odd bytes into the partial block.                              *)
Took(c, x, sts, t, u, p, x2) ==
    LET w    == x.incoming_buffer_length \div BLOCK_SIZE
        odd  == x.incoming_buffer_length % BLOCK_SIZE
        from == x.incoming_buffer + w * BLOCK_SIZE
        t2   == t \o SubSeq(u, x.incoming_buffer + 1, from)
    IN  /\ w \in Nat /\ Fits(w)
        /\ odd \in Nat /\ from \in Nat
        /\ odd <= Len(p) /\ from <= Len(u) /\ from + odd <= Len(u)
        /\ Fine(c, x2, sts, t2, u, Patch(p, 0, u, from, odd))
        /\ w = 0 => t2 = t

LEMMA TakeFine ==
  ASSUME NEW c \in Ctxs, NEW x \in Ctx, NEW x2 \in Ctx, NEW sts, NEW t, NEW u, NEW p,
         Fine(c, x, sts, t, u, p), "COMPLETE" \notin x.status,
         x.partial_block_buffer_length = 0,
         x2.status = x.status, x2.total_length = x.total_length,
         x2.incoming_buffer = x.incoming_buffer, x2.incoming_buffer_length = 0,
         x2.partial_block_buffer_length = x.incoming_buffer_length % BLOCK_SIZE
  PROVE  Took(c, x, sts, t, u, p, x2)
<1> DEFINE inc  == x.incoming_buffer
           n    == x.incoming_buffer_length
           w    == n \div BLOCK_SIZE
           odd  == n % BLOCK_SIZE
           k    == w * BLOCK_SIZE
           from == inc + k
           a    == SubSeq(u, inc + 1, from)
           b    == SubSeq(u, from + 1, from + odd)
           p2   == Patch(p, 0, u, from, odd)
<1>1. /\ t \in Seq(Byte) /\ u \in Seq(Byte) /\ p \in Seq(Byte)
      /\ Len(p) = 2 * BLOCK_SIZE
      /\ n <= MaxTotal /\ inc + n <= Len(u)
      /\ t \o Waits(x, u, p) = Service!Message(c, x.total_length)
      /\ \E q \in Nat : Len(t) = q * BLOCK_SIZE
  BY DEF Fine, WholeBlocks
<1>2. /\ BLOCK_SIZE \in Nat \ {0} /\ MaxTotal \in Nat
      /\ inc \in Nat /\ n \in Nat /\ x.partial_block_buffer_length \in Nat
  BY LaneAssumption, CtxAssumption DEF Ctx
<1>3. Len(u) \in Nat
  BY <1>1, LenProperties
<1>4. w \in Nat /\ odd \in 0 .. BLOCK_SIZE - 1 /\ n = k + odd
  <2>1. w \in Nat
    BY <1>2, DivisionLess
  <2>2. n \in Int
    BY <1>2
  <2>3. QED
    BY <2>1, <2>2, DivisionIs
<1>5. Fits(w)
  <2>1. w <= MaxTotal \div BLOCK_SIZE /\ MaxTotal \div BLOCK_SIZE \in Nat
    BY <1>1, <1>2, DivisionLess
  <2> HIDE DEF w
  <2>2. QED
    BY <1>4, <2>1, JobAssumption, LaneAssumption DEF Fits
<1>6. k \in Nat
  BY <1>2, <1>4, Product
<1>7. /\ t \o (SubSeq(p, 1, 0) \o SubSeq(u, inc + 1, inc + n)) = Service!Message(c, x.total_length)
  BY <1>1 DEF Waits
<1>8. SubSeq(p, 1, 0) = << >>
  BY SubSeqEmpty
<1> HIDE DEF w, odd, k, inc, n
<1>9. /\ from \in Nat /\ from <= Len(u) /\ from + odd <= Len(u) /\ odd \in Nat
      /\ inc <= from /\ from <= from + odd /\ from + odd = inc + n
      /\ 0 + odd <= Len(p) /\ 0 + odd = odd
  BY <1>1, <1>2, <1>3, <1>4, <1>6
<1> HIDE DEF from
<1>10. /\ a \in Seq(Byte) /\ Len(a) = from - inc
       /\ b \in Seq(Byte)
       /\ a \o b = SubSeq(u, inc + 1, inc + n)
  <2>1. /\ u \in Seq(Byte) /\ inc \in Nat /\ from \in Nat /\ from + odd \in Nat
        /\ inc <= from /\ from <= Len(u) /\ from <= from + odd /\ from + odd <= Len(u)
    BY <1>1, <1>2, <1>9
  <2>2. a \in Seq(Byte) /\ Len(a) = from - inc
    BY <2>1, PartIs
  <2>3. b \in Seq(Byte)
    BY <2>1, PartIs
  <2>4. a \o b = SubSeq(u, inc + 1, from + odd)
    BY <2>1, PartsJoin
  <2>5. QED
    BY <1>9, <2>2, <2>3, <2>4
<1>11. Len(a) = k
  BY <1>2, <1>6, <1>10 DEF from
<1>12. /\ p2 \in Seq(Byte) /\ Len(p2) = 2 * BLOCK_SIZE
       /\ SubSeq(p2, 1, odd) = b
  <2>1. /\ p2 \in Seq(Byte) /\ Len(p2) = Len(p)
        /\ SubSeq(p2, 1, 0 + odd) = SubSeq(p, 1, 0) \o b
    <3> DEFINE z == 0
    <3>1. /\ p \in Seq(Byte) /\ u \in Seq(Byte) /\ z \in Nat /\ from \in Nat /\ odd \in Nat
          /\ z + odd <= Len(p) /\ from + odd <= Len(u)
      BY <1>1, <1>9
    <3> HIDE DEF z
    <3>2. /\ Patch(p, z, u, from, odd) \in Seq(Byte)
          /\ Len(Patch(p, z, u, from, odd)) = Len(p)
          /\ SubSeq(Patch(p, z, u, from, odd), 1, z + odd)
               = SubSeq(p, 1, z) \o SubSeq(u, from + 1, from + odd)
      <4>1. Patched(Patch(p, z, u, from, odd), p, z, u, from, odd)
        BY <3>1, PatchIs
      <4>2. QED
        BY <4>1 DEF Patched
    <3>3. QED
      BY <3>2 DEF z
  <2> HIDE DEF b, p2
  <2>2. << >> \o b = b
    BY <1>10, ConcatEmptySeq
  <2>3. QED
    BY <1>1, <1>8, <1>9, <2>1, <2>2
<1>13. Waits(x2, u, p2) = b
  <2>1. Waits(x2, u, p2) = SubSeq(p2, 1, odd) \o SubSeq(u, inc + 1, inc + 0)
    BY DEF Waits, odd, inc, n
  <2>2. SubSeq(u, inc + 1, inc + 0) = << >>
    BY <1>2, SubSeqEmpty
  <2> HIDE DEF b, p2
  <2>3. b \o << >> = b
    BY <1>10, ConcatEmptySeq
  <2>4. QED
    BY <1>12, <2>1, <2>2, <2>3
<1> HIDE DEF a, b, p2
<1>14. (t \o a) \o b = Service!Message(c, x.total_length)
  <2>1. << >> \o (a \o b) = a \o b
    <3> DEFINE y == a \o b
    <3>1. y \in Seq(Byte)
      BY <1>10, ConcatProperties
    <3> HIDE DEF y
    <3>2. << >> \o y = y
      BY <3>1, ConcatEmptySeq
    <3>3. QED
      BY <3>2 DEF y
  <2>2. (t \o a) \o b = t \o (a \o b)
    <3>1. t \in Seq(Byte) /\ a \in Seq(Byte) /\ b \in Seq(Byte)
      BY <1>1, <1>10
    <3>2. QED
      BY <3>1, Assoc
  <2>3. QED
    BY <1>7, <1>8, <1>10, <2>1, <2>2
<1>15. /\ t \o a \in Seq(Byte)
       /\ Len(t \o a) = Len(t) + Len(a)
  BY <1>1, <1>10, ConcatProperties
<1>16. \E q \in Nat : Len(t \o a) = q * BLOCK_SIZE
  <2>1. PICK q \in Nat : Len(t) = q * BLOCK_SIZE
    BY <1>1
  <2>2. q + w \in Nat /\ (q + w) * BLOCK_SIZE = q * BLOCK_SIZE + k
    BY <1>2, <1>4 DEF k
  <2>3. QED
    BY <1>11, <1>15, <2>1, <2>2
<1>17. w = 0 => t \o a = t
  <2>1. ASSUME w = 0 PROVE a = << >>
    <3>1. from = inc
      BY <1>2, <2>1 DEF from, k
    <3>2. from < inc + 1
      BY <1>2, <3>1
    <3>3. QED
      BY <1>2, <1>9, <3>2, SubSeqEmpty DEF a
  <2>2. t \o << >> = t
    BY <1>1, ConcatEmptySeq
  <2>3. QED
    BY <2>1, <2>2
<1>18. Fine(c, x2, sts, t \o a, u, p2)
  <2>1. /\ x2.status \in Phases /\ x2.total_length <= MaxTotal
        /\ x2.incoming_buffer_length = 0 /\ x2.incoming_buffer = inc
        /\ "COMPLETE" \notin x2.status
    BY DEF Fine, inc
  <2>2. x2.incoming_buffer_length <= MaxTotal /\ x2.incoming_buffer + x2.incoming_buffer_length <= Len(u)
    BY <1>1, <1>2, <1>3, <2>1
  <2>3. (t \o a) \o Waits(x2, u, p2) = Service!Message(c, x2.total_length)
    BY <1>13, <1>14
  <2>4. QED
    BY <1>1, <1>12, <1>15, <1>16, <2>1, <2>2, <2>3 DEF Fine, WholeBlocks
<1>19. QED
  BY <1>4, <1>5, <1>9, <1>17, <1>18 DEF Took, inc, n, w, odd, k, from, a, p2

(* The odd bytes of the last block are padded.                             *)
PaddedAs(c, x, sts, t, u, p, x2) ==
    LET s  == PadEnd(x.total_length) \div BLOCK_SIZE
        p2 == PaddedBuffer(p, x.total_length)
    IN  /\ s \in Nat /\ Fits(s)
        /\ 0 + s * BLOCK_SIZE <= Len(p2)
        /\ Fine(c, x2, sts, t \o SubSeq(p2, 0 + 1, 0 + s * BLOCK_SIZE), u, p2)

LEMMA PadFine ==
  ASSUME NEW c \in Ctxs, NEW x \in Ctx, NEW x2 \in Ctx, NEW sts, NEW t, NEW u, NEW p,
         Fine(c, x, sts, t, u, p), "COMPLETE" \notin x.status,
         x.incoming_buffer_length = 0,
         x2.status = {"PROCESSING", "COMPLETE"}, x2.total_length = x.total_length,
         x2.incoming_buffer = x.incoming_buffer, x2.incoming_buffer_length = 0
  PROVE  PaddedAs(c, x, sts, t, u, p, x2)
<1> DEFINE inc   == x.incoming_buffer
           i     == x.partial_block_buffer_length
           total == x.total_length
           M     == Service!Message(c, total)
           v     == SubSeq(p, 1, i)
           p2    == PaddedBuffer(p, total)
<1>1. /\ t \in Seq(Byte) /\ u \in Seq(Byte) /\ p \in Seq(Byte)
      /\ Len(p) = 2 * BLOCK_SIZE
      /\ inc + 0 <= Len(u) /\ total <= MaxTotal
      /\ t \o Waits(x, u, p) = M
      /\ \E q \in Nat : Len(t) = q * BLOCK_SIZE
  BY DEF Fine, WholeBlocks
<1>2. /\ BLOCK_SIZE \in Nat \ {0} /\ MaxTotal \in Nat
      /\ inc \in Nat /\ total \in Nat /\ i \in 0 .. BLOCK_SIZE - 1
  BY LaneAssumption, CtxAssumption DEF Ctx
<1>3. Waits(x, u, p) = v \o SubSeq(u, inc + 1, inc + 0)
  BY DEF Waits
<1> HIDE DEF inc, i, total
<1>4. v \in Seq(Byte) /\ Len(v) = i
  <2>1. i \in Nat /\ i <= Len(p)
    BY <1>1, <1>2
  <2>2. QED
    BY <1>1, <2>1, StartIs
<1> HIDE DEF v
<1>5. Waits(x, u, p) = v
  <2>1. SubSeq(u, inc + 1, inc + 0) = << >>
    BY <1>2, SubSeqEmpty
  <2>2. v \o << >> = v
    BY <1>4, ConcatEmptySeq
  <2>3. QED
    BY <1>3, <2>1, <2>2
<1>6. M \in Seq(Byte) /\ Len(M) = total
  BY <1>1, <1>2, MessageIs
<1> HIDE DEF M
<1>7. PICK q \in Nat : Len(t) = q * BLOCK_SIZE
  BY <1>1
<1>8. total = q * BLOCK_SIZE + i
  <2>1. t \in Seq(Byte) /\ v \in Seq(Byte)
    BY <1>1, <1>4
  <2>2. Len(t \o v) = Len(t) + Len(v)
    BY <2>1, ConcatProperties
  <2>3. Len(t \o v) = total
    BY <1>1, <1>5, <1>6
  <2>4. QED
    BY <1>4, <1>7, <2>2, <2>3
<1>9. PICK g \in 0 .. BLOCK_SIZE - 1, s \in 1 .. 2 : PadsTo(total, i, g, s)
  BY <1>2, <1>8, PadEndIs
<1>10. PadEnd(total) \div BLOCK_SIZE = s /\ s * BLOCK_SIZE \in Nat /\ s * BLOCK_SIZE <= 2 * BLOCK_SIZE
  BY <1>2, <1>9 DEF PadsTo
<1>11. Fits(s)
  BY <1>9, JobAssumption, LaneAssumption DEF Fits
<1> DEFINE w == Tail80(g, total)
           k == s * BLOCK_SIZE
<1>12. /\ p2 \in Seq(Byte) /\ Len(p2) = 2 * BLOCK_SIZE
       /\ SubSeq(p2, 1, k) = v \o w
  <2>1. p \in Seq(Byte) /\ Len(p) = 2 * BLOCK_SIZE /\ total \in Nat /\ total <= MaxTotal
        /\ i \in 0 .. BLOCK_SIZE - 1 /\ g \in 0 .. BLOCK_SIZE - 1 /\ s \in 1 .. 2
        /\ PadsTo(total, i, g, s)
    BY <1>1, <1>2, <1>9
  <2>2. EndsPadded(p, PaddedBuffer(p, total), total, i, g, s)
    BY <2>1, PaddedBufferIs
  <2>3. QED
    BY <2>2 DEF v, EndsPadded
<1>13. w \in Seq(Byte)
  BY <1>1, <1>2, <1>9, Tail80Is
<1>14. Service!Padded(c, total) = M \o w
  BY <1>1, <1>2, <1>9, PaddedIs DEF M
<1>15. 0 + 1 = 1 /\ 0 + k = k /\ k <= Len(p2)
  BY <1>10, <1>12
<1> HIDE DEF p2, w, k
<1>16. t \o SubSeq(p2, 0 + 1, 0 + k) = Service!Padded(c, total)
  <2>1. t \in Seq(Byte) /\ v \in Seq(Byte) /\ w \in Seq(Byte)
    BY <1>1, <1>4, <1>13
  <2>2. (t \o v) \o w = t \o (v \o w)
    BY <2>1, Assoc
  <2>3. t \o v = M
    BY <1>1, <1>5
  <2>4. QED
    BY <1>12, <1>14, <1>15, <2>2, <2>3
<1>17. t \o SubSeq(p2, 0 + 1, 0 + k) \in Seq(Byte)
  <2>1. M \in Seq(Byte) /\ w \in Seq(Byte)
    BY <1>6, <1>13
  <2>2. M \o w \in Seq(Byte)
    BY <2>1, ConcatProperties
  <2>3. QED
    BY <1>14, <1>16, <2>2
<1>18. Fine(c, x2, sts, t \o SubSeq(p2, 0 + 1, 0 + k), u, p2)
  <2>1. /\ x2.status \in Phases /\ "COMPLETE" \in x2.status /\ x2.total_length = total
        /\ x2.incoming_buffer_length = 0 /\ x2.incoming_buffer = inc
    BY DEF Phases, inc, total
  <2>2. x2.incoming_buffer_length <= MaxTotal /\ x2.incoming_buffer + x2.incoming_buffer_length <= Len(u)
    BY <1>1, <1>2, <2>1
  <2>3. QED
    BY <1>1, <1>12, <1>16, <1>17, <2>1, <2>2 DEF Fine
<1>19. s \in Nat /\ 0 + k <= Len(p2)
  BY <1>9, <1>15
<1>20. QED
  BY <1>10, <1>11, <1>18, <1>19 DEF PaddedAs, total, p2, k

(* The context goes back to its caller, who reuses the buffer at once.     *)
LEMMA FinishFine ==
  ASSUME NEW c \in Ctxs, NEW x \in Ctx, NEW x2 \in Ctx, NEW sts, NEW t, NEW u, NEW p, NEW p2,
         Fine(c, x, sts, t, u, p), "PROCESSING" \in x.status,
         x.incoming_buffer_length = 0,
         x2.status = IF "COMPLETE" \in x.status THEN {"COMPLETE"} ELSE {},
         x2.total_length = x.total_length,
         x2.incoming_buffer = 0, x2.incoming_buffer_length = 0,
         x2.partial_block_buffer_length = x.partial_block_buffer_length,
         p2 \in Seq(Byte), Len(p2) = 2 * BLOCK_SIZE,
         "COMPLETE" \notin x.status =>
            \A i \in 1 .. x.partial_block_buffer_length : p2[i] = p[i]
  PROVE  Fine(c, x2, sts, t, << >>, p2)
<1> DEFINE inc == x.incoming_buffer
           n   == x.partial_block_buffer_length
           v   == SubSeq(p, 1, n)
           w   == SubSeq(p2, 1, n)
<1>1. /\ t \in Seq(Byte) /\ u \in Seq(Byte) /\ p \in Seq(Byte)
      /\ Len(p) = 2 * BLOCK_SIZE /\ x.total_length <= MaxTotal
  BY DEF Fine
<1>2. /\ BLOCK_SIZE \in Nat \ {0} /\ inc \in Nat /\ n \in Nat /\ n <= BLOCK_SIZE
      /\ MaxTotal \in Nat
  BY LaneAssumption, CtxAssumption DEF Ctx
<1>3. /\ << >> \in Seq(Byte) /\ Len(<< >>) = 0
      /\ x2.status \in Phases /\ x2.total_length <= MaxTotal
      /\ x2.incoming_buffer_length <= MaxTotal
      /\ x2.incoming_buffer + x2.incoming_buffer_length <= Len(<< >>)
  BY <1>1, <1>2, EmptySeq DEF Phases
<1>4. CASE "COMPLETE" \in x.status
  <2>1. t = Service!Padded(c, x2.total_length) /\ "COMPLETE" \in x2.status
    BY <1>4 DEF Fine
  <2>2. QED
    BY <1>1, <1>3, <2>1 DEF Fine
<1>5. CASE "COMPLETE" \notin x.status
  <2>1. Waits(x, u, p) = v \o SubSeq(u, inc + 1, inc + 0)
    BY DEF Waits
  <2>2. Waits(x2, << >>, p2) = w \o SubSeq(<< >>, 0 + 1, 0 + 0)
    BY DEF Waits
  <2>3. SubSeq(u, inc + 1, inc + 0) = << >> /\ SubSeq(<< >>, 0 + 1, 0 + 0) = << >>
    BY <1>2, SubSeqEmpty
  <2>4. v = w
    <3>1. n <= Len(p) /\ n <= Len(p2)
      BY <1>1, <1>2
    <3>2. /\ v \in Seq(Byte) /\ Len(v) = n /\ \A i \in 1 .. n : v[i] = p[i]
      BY <1>1, <1>2, <3>1, StartIs
    <3>3. /\ w \in Seq(Byte) /\ Len(w) = n /\ \A i \in 1 .. n : w[i] = p2[i]
      BY <1>2, <3>1, StartIs
    <3>4. \A i \in 1 .. n : v[i] = w[i]
      BY <1>5, <3>2, <3>3
    <3> HIDE DEF v, w
    <3>5. QED
      BY <3>2, <3>3, <3>4, SeqEqual
  <2>5. Waits(x2, << >>, p2) = Waits(x, u, p)
    BY <2>1, <2>2, <2>3, <2>4
  <2>6. /\ t \o Waits(x2, << >>, p2) = Service!Message(c, x2.total_length)
        /\ WholeBlocks(t)
        /\ "COMPLETE" \notin x2.status
    BY <1>5, <2>5 DEF Fine
  <2>7. QED
    BY <1>1, <1>3, <2>6 DEF Fine
<1>6. QED
  BY <1>4, <1>5

(* The caller gives the next n bytes of the message: some of them fill the *)
(* partial block.  first says that the message starts over.                *)
Given(c, total, n) == [i \in 1 .. n |-> Service!DataByte(c, total - n + i)]

LEMMA GivenIs ==
  ASSUME NEW c \in Ctxs, NEW total \in Nat, NEW n \in Nat, n <= total, total <= MaxTotal
  PROVE  /\ Given(c, total, n) \in Seq(Byte)
         /\ Len(Given(c, total, n)) = n
         /\ Service!Message(c, total - n) \o Given(c, total, n) = Service!Message(c, total)
<1> DEFINE u == Given(c, total, n)
           d == total - n
           M == Service!Message(c, d)
           N == Service!Message(c, total)
<1>1. d \in Nat /\ d <= MaxTotal /\ total = d + n /\ MaxTotal \in Nat
  BY CtxAssumption
<1>2. \A i \in 1 .. n : Service!DataByte(c, d + i) \in Byte
  <2>1. ASSUME NEW i \in 1 .. n PROVE Service!DataByte(c, d + i) \in Byte
    <3>1. d + i \in 1 .. MaxTotal
      BY <1>1
    <3>2. QED
      BY <3>1, CtxAssumption, CellAssumption
  <2>2. QED
    BY <2>1
<1>3. /\ N \in Seq(Byte) /\ Len(N) = total
      /\ \A i \in 1 .. total : N[i] = Service!DataByte(c, i)
  BY MessageIs
<1>4. /\ M \in Seq(Byte) /\ Len(M) = d
      /\ \A i \in 1 .. d : M[i] = Service!DataByte(c, i)
  BY <1>1, MessageIs
<1>5. u = [i \in 1 .. n |-> Service!DataByte(c, d + i)]
  BY DEF Given
<1> HIDE DEF u, d, M, N
<1>6. u \in [1 .. n -> Byte] /\ \A i \in 1 .. n : u[i] = Service!DataByte(c, d + i)
  BY <1>2, <1>5
<1>7. u \in Seq(Byte)
  BY <1>6, SeqDef
<1>8. Len(u) = n
  BY <1>6, <1>7, LenProperties
<1>9. /\ M \o u \in Seq(Byte) /\ Len(M \o u) = Len(M) + Len(u)
      /\ \A i \in 1 .. Len(M) + Len(u) : (M \o u)[i] = IF i <= Len(M) THEN M[i] ELSE u[i - Len(M)]
  <2>1. M \in Seq(Byte) /\ u \in Seq(Byte)
    BY <1>4, <1>7
  <2>2. QED
    BY <2>1, ConcatProperties
<1>10. ASSUME NEW i \in 1 .. total
       PROVE  (M \o u)[i] = N[i]
  <2>1. (M \o u)[i] = IF i <= d THEN M[i] ELSE u[i - d]
    BY <1>1, <1>4, <1>8, <1>9
  <2>2. CASE i <= d
    <3>1. i \in 1 .. d
      BY <2>2
    <3>2. QED
      BY <1>3, <1>4, <2>1, <2>2, <3>1
  <2>3. CASE ~(i <= d)
    <3>1. i - d \in 1 .. n /\ d + (i - d) = i
      BY <1>1, <2>3
    <3>2. QED
      BY <1>3, <1>6, <2>1, <2>3, <3>1
  <2>4. QED
    BY <2>2, <2>3
<1>11. Len(M \o u) = Len(N)
  BY <1>1, <1>3, <1>4, <1>8, <1>9
<1>12. M \o u = N
  BY <1>3, <1>9, <1>10, <1>11, SeqEqual
<1>13. QED
  BY <1>7, <1>8, <1>12 DEF u, M, N, d

(* The bytes t and the first k of p are a message of n bytes.              *)
Holds(c, n, t, p, k) == t \o SubSeq(p, 1, k) = Service!Message(c, n)

(* With the bytes of u after the first copied ones they are one of n.      *)
Joins(c, n, t, p, k, u, copied) ==
    t \o (SubSeq(p, 1, k) \o SubSeq(u, copied + 1, Len(u))) = Service!Message(c, n)

(* The first of the new bytes are copied behind the kept ones.             *)
LEMMA CopiedJoins ==
  ASSUME NEW c \in Ctxs, NEW total \in Nat, NEW n \in Nat, n <= total, total <= MaxTotal,
         NEW t \in Seq(Byte), NEW p \in Seq(Byte), NEW plen \in Nat, NEW copied \in Nat,
         copied <= n, plen + copied <= Len(p),
         Holds(c, total - n, t, p, plen)
  PROVE  Joins(c, total, t, Patch(p, plen, Given(c, total, n), 0, copied), plen + copied,
               Given(c, total, n), copied)
<1> DEFINE u  == Given(c, total, n)
           p2 == Patch(p, plen, u, 0, copied)
           v  == SubSeq(p, 1, plen)
           a  == SubSeq(u, 1, copied)
           b  == SubSeq(u, copied + 1, n)
           M  == Service!Message(c, total - n)
<1>1. /\ u \in Seq(Byte) /\ Len(u) = n
      /\ M \o u = Service!Message(c, total)
  BY GivenIs
<1>2. Len(p) \in Nat
  BY LenProperties
<1>3. v \in Seq(Byte)
  <2>1. plen <= Len(p)
    BY <1>2
  <2>2. QED
    BY <2>1, StartIs
<1> HIDE DEF u, v, M
<1>4. a \in Seq(Byte) /\ b \in Seq(Byte)
  BY <1>1, StartIs, PartIs
<1>5. a \o b = u
  <2>1. /\ u \in Seq(Byte) /\ 0 \in Nat /\ copied \in Nat /\ n \in Nat
        /\ 0 <= copied /\ copied <= n /\ n <= Len(u)
    BY <1>1
  <2>2. SubSeq(u, 0 + 1, copied) \o SubSeq(u, copied + 1, n) = SubSeq(u, 0 + 1, n)
    BY <2>1, PartsJoin
  <2>3. SubSeq(u, 1, Len(u)) = u
    BY <1>1, SubSeqFull
  <2>4. QED
    BY <1>1, <2>2, <2>3
<1>6. SubSeq(p2, 1, plen + copied) = v \o a
  <2> DEFINE z == 0
  <2>1. /\ u \in Seq(Byte) /\ z \in Nat /\ z + copied <= Len(u) /\ plen + copied <= Len(p)
        /\ z + copied = copied /\ z + 1 = 1
    BY <1>1
  <2>2. p2 = Patch(p, plen, u, z, copied)
    OBVIOUS
  <2> HIDE DEF p2, z
  <2>3. SubSeq(p2, 1, plen + copied) = SubSeq(p, 1, plen) \o SubSeq(u, z + 1, z + copied)
    <3>1. Patched(Patch(p, plen, u, z, copied), p, plen, u, z, copied)
      BY <1>1, <2>1, PatchIs
    <3>2. QED
      BY <2>2, <3>1 DEF Patched
  <2>4. QED
    BY <2>1, <2>3 DEF v
<1> HIDE DEF p2, a, b
<1>7. t \o ((v \o a) \o b) = Service!Message(c, total)
  <2>1. (v \o a) \o b = v \o (a \o b)
    BY <1>3, <1>4, Assoc
  <2>2. (t \o v) \o u = t \o (v \o u)
    <3>1. u \in Seq(Byte) /\ v \in Seq(Byte)
      BY <1>1, <1>3
    <3>2. QED
      BY <3>1, Assoc
  <2>3. t \o v = M
    BY DEF v, M, Holds
  <2>4. QED
    BY <1>1, <1>5, <2>1, <2>2, <2>3
<1>8. QED
  BY <1>1, <1>6, <1>7 DEF Joins, b, u, p2

(* The partial block is not full: it keeps the bytes.                      *)
LEMMA KeepFine ==
  ASSUME NEW c \in Ctxs, NEW x \in Ctx, NEW sts, NEW t \in Seq(Byte), NEW u \in Seq(Byte),
         NEW p \in Seq(Byte), Len(p) = 2 * BLOCK_SIZE, WholeBlocks(t),
         Len(u) <= MaxTotal, NEW copied \in Nat, copied <= Len(u),
         x.status \in {{"PROCESSING"}, {"PROCESSING", "LAST"}}, x.total_length <= MaxTotal,
         x.incoming_buffer = copied, x.incoming_buffer_length = Len(u) - copied,
         x.partial_block_buffer_length = 0 \/ copied = Len(u),
         Joins(c, x.total_length, t, p, x.partial_block_buffer_length, u, copied)
  PROVE  Fine(c, x, sts, t, u, p)
<1>1. MaxTotal \in Nat /\ Len(u) \in Nat
  BY CtxAssumption, LenProperties
<1>2. copied + (Len(u) - copied) = Len(u) /\ Len(u) - copied <= MaxTotal
  BY <1>1
<1>3. Waits(x, u, p) = SubSeq(p, 1, x.partial_block_buffer_length) \o SubSeq(u, copied + 1, Len(u))
  BY <1>2 DEF Waits
<1>4. t \o Waits(x, u, p) = Service!Message(c, x.total_length)
  BY <1>3 DEF Joins
<1>5. /\ "COMPLETE" \notin x.status /\ x.status \in Phases
      /\ x.incoming_buffer + x.incoming_buffer_length <= Len(u)
      /\ x.incoming_buffer_length <= MaxTotal
      /\ x.partial_block_buffer_length = 0 \/ x.incoming_buffer_length = 0
  <2>1. "COMPLETE" \notin x.status /\ x.status \in Phases
    BY DEF Phases
  <2>2. x.incoming_buffer_length = 0 \/ x.partial_block_buffer_length = 0
    BY <1>1
  <2>3. x.incoming_buffer + x.incoming_buffer_length = copied + (Len(u) - copied)
    OBVIOUS
  <2>4. x.incoming_buffer + x.incoming_buffer_length <= Len(u)
    <3>1. x.incoming_buffer + x.incoming_buffer_length = Len(u)
      BY <1>2, <2>3, Zenon
    <3>2. Len(u) <= Len(u)
      BY <1>1
    <3>3. QED
      BY <3>1, <3>2, Zenon
  <2>5. x.incoming_buffer_length <= MaxTotal
    BY <1>2
  <2>6. QED
    BY <2>1, <2>2, <2>4, <2>5
<1>6. QED
  BY <1>4, <1>5 DEF Fine

(* The partial block is full: it goes to a lane.                           *)
LEMMA FullJoins ==
  ASSUME NEW c \in Ctxs, NEW total, NEW t \in Seq(Byte), NEW u \in Seq(Byte),
         NEW p \in Seq(Byte), Len(p) = 2 * BLOCK_SIZE, WholeBlocks(t),
         NEW copied \in Nat, copied <= Len(u),
         Joins(c, total, t, p, BLOCK_SIZE, u, copied)
  PROVE  LET t2 == t \o SubSeq(p, 0 + 1, 0 + 1 * BLOCK_SIZE)
         IN  /\ t2 \in Seq(Byte)
             /\ WholeBlocks(t2)
             /\ Joins(c, total, t2, p, 0, u, copied)
<1> DEFINE a == SubSeq(p, 1, BLOCK_SIZE)
           b == SubSeq(u, copied + 1, Len(u))
<1>1. /\ BLOCK_SIZE \in Nat \ {0} /\ BLOCK_SIZE <= Len(p) /\ 0 + 1 * BLOCK_SIZE = BLOCK_SIZE
      /\ Len(u) \in Nat
  BY LaneAssumption, LenProperties
<1>2. a \in Seq(Byte) /\ Len(a) = BLOCK_SIZE /\ b \in Seq(Byte)
  <2>1. BLOCK_SIZE \in Nat /\ p \in Seq(Byte) /\ BLOCK_SIZE <= Len(p)
    BY <1>1
  <2>2. a \in Seq(Byte) /\ Len(a) = BLOCK_SIZE
    BY <2>1, StartIs
  <2>3. Len(u) \in Nat /\ Len(u) <= Len(u)
    BY <1>1
  <2>4. b \in Seq(Byte)
    BY <2>3, PartIs
  <2>5. QED
    BY <2>2, <2>4
<1>3. t \o (a \o b) = Service!Message(c, total)
  BY DEF Joins
<1> HIDE DEF a, b
<1>4. t \o a \in Seq(Byte) /\ Len(t \o a) = Len(t) + Len(a)
  <2>1. t \in Seq(Byte) /\ a \in Seq(Byte)
    BY <1>2
  <2>2. QED
    BY <2>1, ConcatProperties
<1>5. (t \o a) \o b = Service!Message(c, total)
  <2>1. (t \o a) \o b = t \o (a \o b)
    <3>1. t \in Seq(Byte) /\ a \in Seq(Byte) /\ b \in Seq(Byte)
      BY <1>2
    <3>2. QED
      BY <3>1, Assoc
  <2>2. QED
    BY <1>3, <2>1
<1>6. << >> \o b = b
  BY <1>2, ConcatEmptySeq
<1>7. SubSeq(p, 1, 0) = << >>
  BY SubSeqEmpty
<1>8. WholeBlocks(t \o a)
  <2>1. PICK q \in Nat : Len(t) = q * BLOCK_SIZE
    BY DEF WholeBlocks
  <2>2. q + 1 \in Nat /\ (q + 1) * BLOCK_SIZE = q * BLOCK_SIZE + BLOCK_SIZE
    BY <1>1
  <2>3. QED
    BY <1>2, <1>4, <2>1, <2>2 DEF WholeBlocks
<1>9. Joins(c, total, t \o a, p, 0, u, copied)
  BY <1>5, <1>6, <1>7 DEF Joins, b
<1>10. a = SubSeq(p, 0 + 1, 0 + 1 * BLOCK_SIZE)
  BY <1>1 DEF a
<1>11. QED
  BY <1>4, <1>8, <1>9, <1>10

-----------------------------------------------------------------------------
(* A job handed back is in the hands of the running call.                  *)
LEMMA BackStands ==
  ASSUME NEW jobs \in [Jobs -> Job], NEW after \in [Jobs -> Job],
         NEW goal \in [Jobs -> Goal], NEW j \in Jobs, Leaves(j, jobs, after, goal),
         NEW ctxs, NEW memory, NEW i \in Ctxs, Stands(goal, ctxs, jobs, memory, FALSE, i)
  PROVE  Stands(goal, ctxs, after, memory, j = i, i)
<1>1. i \in Jobs /\ j \in InPool(jobs)
  BY CtxAssumption DEF Leaves
<1>2. Text(after, goal, i) = Text(jobs, goal, i)
  BY <1>1, LeavesIs
<1>3. CASE j = i
  <2>1. jobs[i].status = "BEING_PROCESSED" /\ after[i].status = "COMPLETED"
    BY <1>1, <1>3, LeavesIs DEF InPool
  <2>2. "PROCESSING" \in ctxs[i].status
    BY <2>1 DEF Stands, Owned
  <2>3. Fine(i, ctxs[i], after[i].status, Text(after, goal, i), memory[User(i)], memory[Partial(i)])
    BY <1>2, <2>2 DEF Stands, Fine
  <2>4. QED
    BY <1>3, <2>1, <2>2, <2>3 DEF Stands, Owned
<1>4. CASE j # i
  <2>1. after[i] = jobs[i]
    BY <1>1, <1>4 DEF Leaves
  <2>2. QED
    BY <1>2, <1>4, <2>1 DEF Stands, Owned
<1>5. QED
  BY <1>3, <1>4

(* Only the context c, its job and its buffers have changed.               *)
OnlyOf(c, jobs, jobs2, memory, memory2, ctxs, ctxs2) ==
    /\ jobs2 \in [Jobs -> Job]
    /\ memory2 \in [Buffers -> Seq(Byte)]
    /\ ctxs2 \in [Ctxs -> Ctx]
    /\ \A i \in Ctxs \ {c} : jobs2[i] = jobs[i] /\ ctxs2[i] = ctxs[i]
    /\ \A b \in Buffers \ {User(c), Partial(c)} : memory2[b] = memory[b]

Others(c, goal, ctxs, jobs, memory) ==
    \A i \in Ctxs \ {c} : Stands(goal, ctxs, jobs, memory, FALSE, i)

(* That does not touch another context, nor the lanes when c is in none.   *)
LEMMA OnlyOfOthers ==
  ASSUME NEW c \in Ctxs, NEW jobs, NEW jobs2, NEW memory, NEW memory2, NEW ctxs, NEW ctxs2,
         OnlyOf(c, jobs, jobs2, memory, memory2, ctxs, ctxs2),
         NEW goal, NEW goal2, NEW g, Aimed(goal, goal2, c, g),
         Others(c, goal, ctxs, jobs, memory)
  PROVE  Others(c, goal2, ctxs2, jobs2, memory2)
<1> SUFFICES ASSUME NEW i \in Ctxs \ {c}
             PROVE  Stands(goal2, ctxs2, jobs2, memory2, FALSE, i)
  BY DEF Others
<1>1. jobs2[i] = jobs[i] /\ ctxs2[i] = ctxs[i]
  BY DEF OnlyOf
<1>2. /\ User(i) \in Buffers \ {User(c), Partial(c)}
      /\ Partial(i) \in Buffers \ {User(c), Partial(c)}
  BY CtxAssumption DEF User, Partial
<1>3. memory2[User(i)] = memory[User(i)] /\ memory2[Partial(i)] = memory[Partial(i)]
  BY <1>2 DEF OnlyOf
<1>4. goal2[i] = goal[i]
  BY CtxAssumption DEF Aimed
<1>5. Stands(goal, ctxs, jobs, memory, FALSE, i)
  BY DEF Others
<1>6. QED
  BY <1>1, <1>3, <1>4, <1>5 DEF Stands, Text

LEMMA OnlyOfSane ==
  ASSUME NEW c \in Ctxs, NEW jobs, NEW jobs2, NEW memory, NEW memory2, NEW ctxs, NEW ctxs2,
         OnlyOf(c, jobs, jobs2, memory, memory2, ctxs, ctxs2),
         NEW m, NEW goal, Sane(m, memory, jobs, goal),
         Others(c, goal, ctxs, jobs, memory),
         jobs[c].status # "BEING_PROCESSED", jobs2[c].status # "BEING_PROCESSED"
  PROVE  Sane(m, memory2, jobs2, goal)
<1>1. Jobs = Ctxs /\ goal \in [Jobs -> Goal]
  BY CtxAssumption DEF Sane
<1>2. InPool(jobs2) = InPool(jobs)
  BY <1>1 DEF InPool, OnlyOf
<1>3. ASSUME NEW j \in InPool(jobs)
      PROVE  goal[j] = goal[j] /\ memory2[goal[j].buf] = memory[goal[j].buf]
  <2>1. j \in Ctxs \ {c} /\ jobs[j].status = "BEING_PROCESSED"
    BY <1>1 DEF InPool
  <2>2. goal[j].buf \in {User(j), Partial(j)}
    BY <2>1 DEF Others, Stands
  <2>3. goal[j].buf \in Buffers \ {User(c), Partial(c)}
    BY <2>1, <2>2, CtxAssumption DEF User, Partial
  <2>4. QED
    BY <2>3 DEF OnlyOf
<1>4. memory2 \in [Buffers -> Seq(Byte)] /\ jobs2 \in [Jobs -> Job]
  BY DEF OnlyOf
<1>5. /\ goal \in [Jobs -> Goal] /\ memory2 \in [Buffers -> Seq(Byte)]
      /\ jobs2 \in [Jobs -> Job] /\ InPool(jobs2) = InPool(jobs)
      /\ \A j \in InPool(jobs) :
            goal[j] = goal[j] /\ memory2[goal[j].buf] = memory[goal[j].buf]
  BY <1>1, <1>2, <1>3, <1>4
<1>6. QED
  BY <1>5, SaneElsewhere

(* What a call of the job manager leaves to the context layer.             *)
Returned(r, ctxs, memory, goal) ==
    /\ Sane(r.mgr, memory, r.job, goal)
    /\ r.mgr.num_lanes_inuse < FILL
    /\ r.fault = FALSE
    /\ r.ret \in Ctxs \cup {NULL}
    /\ \A i \in Ctxs : Stands(goal, ctxs, r.job, memory, r.ret = i, i)

(* Jobs other than that of c, which are in no lane, stay as they are.      *)
Idle(c, jobs, after) ==
    \A i \in Ctxs \ {c} : jobs[i].status # "BEING_PROCESSED" => after[i] = jobs[i]

(* The context c hands its job to a lane.                                  *)
LEMMA EnterStands ==
  ASSUME NEW c \in Ctxs, NEW jobs, NEW jobs2, NEW memory, NEW memory2, NEW ctxs, NEW ctxs2,
         OnlyOf(c, jobs, jobs2, memory, memory2, ctxs, ctxs2),
         NEW m, NEW goal, Sane(m, memory, jobs, goal), m.num_lanes_inuse < FILL,
         Others(c, goal, ctxs, jobs, memory),
         jobs[c].status # "BEING_PROCESSED", jobs2[c].status # "BEING_PROCESSED",
         Legal(memory2, jobs2[c]), jobs2[c].buffer.buf \in {User(c), Partial(c)},
         Fine(c, ctxs2[c], "BEING_PROCESSED", Ahead(memory2, jobs2[c]),
              memory2[User(c)], memory2[Partial(c)]),
         "PROCESSING" \in ctxs2[c].status
  PROVE  \E goal2 : /\ Returned(SubmitJob(m, memory2, jobs2, c), ctxs2, memory2, goal2)
                    /\ Idle(c, jobs2, SubmitJob(m, memory2, jobs2, c).job)
<1> DEFINE g     == GoalOf(memory2, jobs2[c])
           goal2 == [goal EXCEPT ![c] = g]
           r     == SubmitJob(m, memory2, jobs2, c)
           marked == Marked(jobs2, c)
<1>1. /\ Jobs = Ctxs /\ goal \in [Jobs -> Goal] /\ jobs2 \in [Jobs -> Job]
      /\ memory2 \in [Buffers -> Seq(Byte)]
      /\ NULL \notin Ctxs
  BY CtxAssumption DEF Sane, OnlyOf
<1>2. g \in Goal
  BY <1>1, GoalIsGoal
<1>3. g.buf = jobs2[c].buffer.buf /\ g.text = Ahead(memory2, jobs2[c])
  BY DEF GoalOf
<1> HIDE DEF g
<1>4. /\ goal2 \in [Jobs -> Goal] /\ goal2[c] = g
      /\ \A i \in Jobs \ {c} : goal2[i] = goal[i]
  BY <1>1, <1>2
<1> HIDE DEF goal2
<1>5. Sane(m, memory2, jobs2, goal)
  BY OnlyOfSane
<1>6. Aimed(goal, goal2, c, GoalOf(memory2, jobs2[c]))
  BY <1>4 DEF Aimed, g
<1>7. Submitted(m, memory2, jobs2, goal2, c, r)
  BY <1>1, <1>5, <1>6, SubmitSane
<1> HIDE DEF r
<1>8. /\ Sane(r.mgr, memory2, r.job, goal2) /\ r.mgr.num_lanes_inuse < FILL /\ r.fault = FALSE
      /\ r.job \in [Jobs -> Job]
  BY <1>7 DEF Submitted, Sane
<1>9. /\ marked \in [Jobs -> Job]
      /\ \A i \in Jobs \ {c} : marked[i] = jobs2[i]
      /\ marked[c].status = "BEING_PROCESSED"
  BY <1>1, MarkedIs
<1> HIDE DEF marked
<1>10. ASSUME NEW i \in Ctxs
       PROVE  Stands(goal2, ctxs2, marked, memory2, FALSE, i)
  <2>1. CASE i = c
    <3>1. Text(marked, goal2, c) = Ahead(memory2, jobs2[c])
      BY <1>3, <1>4, <1>9 DEF Text
    <3>2. QED
      BY <1>3, <1>4, <1>9, <2>1, <3>1 DEF Stands, Owned
  <2>2. CASE i # c
    <3>1. Others(c, goal2, ctxs2, jobs2, memory2)
      BY <1>6, OnlyOfOthers
    <3>2. i \in Ctxs \ {c} /\ marked[i] = jobs2[i]
      BY <1>1, <1>9, <2>2
    <3>3. Stands(goal2, ctxs2, jobs2, memory2, FALSE, i)
      BY <3>1, <3>2 DEF Others
    <3>4. QED
      BY <3>2, <3>3 DEF Stands, Text
  <2>3. QED
    BY <2>1, <2>2
<1>11. CASE r.ret = NULL /\ r.job = marked
  <2>1. ASSUME NEW i \in Ctxs PROVE Stands(goal2, ctxs2, r.job, memory2, r.ret = i, i)
    <3>1. (r.ret = i) = FALSE
      BY <1>1, <1>11
    <3>2. QED
      BY <1>10, <1>11, <3>1
  <2>2. Idle(c, jobs2, r.job)
    BY <1>1, <1>9, <1>11 DEF Idle
  <2>3. QED
    BY <1>8, <1>11, <2>1, <2>2 DEF Returned, r
<1>12. CASE r.ret \in Jobs /\ Leaves(r.ret, marked, r.job, goal2)
  <2>1. ASSUME NEW i \in Ctxs PROVE Stands(goal2, ctxs2, r.job, memory2, r.ret = i, i)
    BY <1>4, <1>8, <1>9, <1>10, <1>12, BackStands
  <2>2. Idle(c, jobs2, r.job)
    BY <1>1, <1>9, <1>12 DEF Idle, Leaves, InPool
  <2>3. QED
    BY <1>1, <1>8, <1>12, <2>1, <2>2 DEF Returned, r
<1>13. QED
  BY <1>7, <1>11, <1>12 DEF Submitted, marked

-----------------------------------------------------------------------------
(* What the invariant says of a context that the call does not, or does,   *)
(* have in hand.                                                           *)
LEMMA HandsFree ==
  ASSUME NEW goal, Good(goal), NEW i \in Ctxs, ~Resubmitting(i)
  PROVE  Stands(goal, ctx, job, mem, FALSE, i)
BY DEF Good, Stands, Owned

LEMMA InHand ==
  ASSUME NEW goal, Good(goal), NEW c \in Ctxs, Resubmitting(c)
  PROVE  /\ Stands(goal, ctx, job, mem, TRUE, c)
         /\ job[c].status # "BEING_PROCESSED"
         /\ "PROCESSING" \in ctx[c].status
         /\ Others(c, goal, ctx, job, mem)
<1>1. /\ Stands(goal, ctx, job, mem, TRUE, c)
      /\ job[c].status # "BEING_PROCESSED"
      /\ "PROCESSING" \in ctx[c].status
  BY DEF Good, Stands, Owned
<1>2. ASSUME NEW i \in Ctxs \ {c} PROVE Stands(goal, ctx, job, mem, FALSE, i)
  <2>1. ~Resubmitting(i)
    BY DEF Resubmitting
  <2>2. QED
    BY <2>1, HandsFree
<1>3. QED
  BY <1>1, <1>2 DEF Others

(* What a context that is not being processed has absorbed does not change *)
(* while a call works for c.                                               *)
Untouched(c) ==
    \A i \in Ctxs \ {c} : "PROCESSING" \notin ctx[i].status => job'[i] = job[i]

LEMMA IdleUntouched ==
  ASSUME NEW goal, Good(goal), NEW c \in Ctxs, NEW jobs, Idle(c, jobs, job'),
         \A i \in Ctxs \ {c} : jobs[i] = job[i]
  PROVE  Untouched(c)
BY DEF Good, Stands, Owned, Idle, Untouched

(* The state has the right shape.                                          *)
LEMMA GoodTypes ==
  ASSUME NEW goal, Good(goal)
  PROVE  /\ mgr \in Manager
         /\ mem \in [Buffers -> Seq(Byte)]
         /\ job \in [Ctxs -> Job] /\ job \in [Jobs -> Job]
         /\ goal \in [Jobs -> Goal]
         /\ ctx \in [Ctxs -> Ctx]
         /\ Sane(mgr, mem, job, goal)
         /\ mgr.num_lanes_inuse < FILL
         /\ fault = FALSE
         /\ CallOK(call)
BY CtxAssumption DEF Good, Sane

(* The buffers of a context.                                               *)
LEMMA BuffersOf ==
  ASSUME NEW c \in Ctxs
  PROVE  /\ User(c) \in Buffers /\ Partial(c) \in Buffers /\ User(c) # Partial(c)
         /\ At(User(c), 0).buf = User(c)
BY CtxAssumption DEF User, Partial, At

-----------------------------------------------------------------------------
(* A context as the checks of a submit leave it.                           *)
Accepted(c, n, x, t) ==
    LET plen == x.partial_block_buffer_length
    IN  /\ x \in Ctx
        /\ x.status \in {{"PROCESSING"}, {"PROCESSING", "LAST"}}
        /\ x.incoming_buffer_length = n
        /\ n <= x.total_length
        /\ CopyLen(x) \in Nat
        /\ CopyLen(x) <= n
        /\ plen + CopyLen(x) <= BLOCK_SIZE
        /\ Full(x) \/ plen + CopyLen(x) = 0 \/ CopyLen(x) = n
        /\ Full(x) <=> plen + CopyLen(x) = BLOCK_SIZE
        /\ t \in Seq(Byte)
        /\ WholeBlocks(t)
        /\ Holds(c, x.total_length - n, t, mem[Partial(c)], plen)

LEMMA OpenedIs ==
  ASSUME NEW goal, NEW c \in Ctxs, Stands(goal, ctx, job, mem, FALSE, c),
         ctx \in [Ctxs -> Ctx], NEW flags \in Flags, Rejection(c, flags) = "NONE",
         NEW n \in 0 .. MaxTotal
  PROVE  /\ Accepted(c, n, Opened(c, n, flags),
                     IF "FIRST" \in flags THEN << >> ELSE job[c].result_digest)
         /\ job[c].status # "BEING_PROCESSED"
<1> DEFINE x    == Opened(c, n, flags)
           y    == ctx[c]
           t    == IF "FIRST" \in flags THEN << >> ELSE job[c].result_digest
           plen == x.partial_block_buffer_length
           p    == mem[Partial(c)]
           u    == mem[User(c)]
<1>1. /\ BLOCK_SIZE \in Nat \ {0} /\ MaxTotal \in Nat /\ n \in Nat
      /\ y \in Ctx
  BY LaneAssumption, CtxAssumption
<1>2. /\ "PROCESSING" \notin y.status
      /\ "FIRST" \in flags \/ "COMPLETE" \notin y.status
  BY DEF Rejection
<1>3. job[c].status # "BEING_PROCESSED"
  BY <1>2 DEF Stands, Owned
<1>4. /\ y.total_length \in Nat /\ y.partial_block_buffer_length \in 0 .. BLOCK_SIZE - 1
      /\ y.incoming_buffer \in Nat
  BY <1>1 DEF Ctx
<1>5. /\ x.status = IF "LAST" \in flags THEN {"PROCESSING", "LAST"} ELSE {"PROCESSING"}
      /\ x.error = "NONE"
      /\ x.total_length = IF "FIRST" \in flags THEN n ELSE y.total_length + n
      /\ x.incoming_buffer = 0 /\ x.incoming_buffer_length = n
      /\ plen = IF "FIRST" \in flags THEN 0 ELSE y.partial_block_buffer_length
  BY DEF Opened
<1>6. x \in Ctx
  <2>1. x.status \in CtxSts /\ x.error \in Errors /\ x.total_length \in Nat
        /\ x.incoming_buffer \in Nat /\ x.incoming_buffer_length \in Nat
        /\ plen \in 0 .. BLOCK_SIZE - 1
    BY <1>1, <1>4, <1>5 DEF CtxSts, Errors
  <2>2. QED
    BY <2>1 DEF Opened, Ctx
<1>7. x.status \in {{"PROCESSING"}, {"PROCESSING", "LAST"}}
  BY <1>5
<1>8. n <= x.total_length
  BY <1>1, <1>4, <1>5
<1>9. plen \in 0 .. BLOCK_SIZE - 1
  BY <1>1, <1>4, <1>5
<1>10. CopyLen(x) = IF plen # 0 \/ n < BLOCK_SIZE
                    THEN IF n < BLOCK_SIZE - plen THEN n ELSE BLOCK_SIZE - plen
                    ELSE 0
  BY <1>5 DEF CopyLen
<1>11. Full(x) <=> plen + CopyLen(x) >= BLOCK_SIZE
  BY DEF Full
<1> HIDE DEF x, plen
<1>12. /\ CopyLen(x) \in Nat /\ CopyLen(x) <= n
       /\ plen + CopyLen(x) <= BLOCK_SIZE
       /\ plen + CopyLen(x) >= BLOCK_SIZE \/ plen + CopyLen(x) = 0 \/ CopyLen(x) = n
  BY <1>1, <1>9, <1>10
<1>13. t \in Seq(Byte) /\ WholeBlocks(t) /\ Holds(c, x.total_length - n, t, p, plen)
  <2>1. CASE "FIRST" \in flags
    <3>1. t = << >> /\ plen = 0 /\ x.total_length - n = 0
      BY <1>1, <1>5, <2>1
    <3>2. << >> \in Seq(Byte) /\ Len(<< >>) = 0 * BLOCK_SIZE /\ 0 \in Nat
      BY <1>1, EmptySeq
    <3>3. WholeBlocks(<< >>)
      BY <3>2 DEF WholeBlocks
    <3>4. Holds(c, 0, << >>, p, 0)
      <4>1. SubSeq(p, 1, 0) = << >>
        BY SubSeqEmpty
      <4>2. << >> \o << >> = << >>
        BY EmptySeq, ConcatEmptySeq
      <4>3. Service!Message(c, 0) = << >>
        <5>1. Service!Message(c, 0) \in Seq(Byte) /\ Len(Service!Message(c, 0)) = 0
          BY <1>1, MessageIs
        <5>2. QED
          BY <5>1, EmptySeq
      <4>4. QED
        BY <4>1, <4>2, <4>3 DEF Holds
    <3>5. QED
      BY <3>1, <3>2, <3>3, <3>4
  <2>2. CASE "FIRST" \notin flags
    <3>1. /\ t = job[c].result_digest /\ plen = y.partial_block_buffer_length
          /\ x.total_length - n = y.total_length
      BY <1>1, <1>4, <1>5, <2>2
    <3>2. Text(job, goal, c) = t
      BY <1>3, <3>1 DEF Text
    <3>3. Fine(c, y, job[c].status, t, u, p)
      BY <3>2 DEF Stands
    <3>4. "COMPLETE" \notin y.status
      BY <1>2, <2>2
    <3>5. /\ t \in Seq(Byte) /\ WholeBlocks(t) /\ y.incoming_buffer_length = 0
          /\ p \in Seq(Byte) /\ Len(p) = 2 * BLOCK_SIZE
          /\ t \o Waits(y, u, p) = Service!Message(c, y.total_length)
      BY <1>2, <3>3, <3>4 DEF Fine
    <3>6. Waits(y, u, p) = SubSeq(p, 1, plen)
      <4> DEFINE v == SubSeq(p, 1, plen)
      <4>1. Waits(y, u, p) = v \o SubSeq(u, y.incoming_buffer + 1, y.incoming_buffer + 0)
        BY <3>1, <3>5 DEF Waits
      <4>2. SubSeq(u, y.incoming_buffer + 1, y.incoming_buffer + 0) = << >>
        BY <1>4, SubSeqEmpty
      <4>3. v \in Seq(Byte)
        BY <1>1, <1>9, <3>5, StartIs
      <4> HIDE DEF v
      <4>4. v \o << >> = v
        BY <4>3, ConcatEmptySeq
      <4>5. QED
        BY <4>1, <4>2, <4>4 DEF v
    <3>7. QED
      BY <3>1, <3>5, <3>6 DEF Holds
  <2>3. QED
    BY <2>1, <2>2
<1>14. Full(x) <=> plen + CopyLen(x) = BLOCK_SIZE
  BY <1>1, <1>9, <1>11, <1>12
<1>15. x.incoming_buffer_length = n
  BY <1>5
<1>16. Accepted(c, n, x, t)
  BY <1>6, <1>7, <1>8, <1>11, <1>12, <1>13, <1>14, <1>15 DEF Accepted, plen
<1>17. QED
  BY <1>3, <1>16 DEF x

(* The memory once the caller's bytes are there and some of them copied.   *)
GivenMemory(c, n, x) ==
    Copy([mem EXCEPT ![User(c)] = Given(c, x.total_length, n)],
         Partial(c), x.partial_block_buffer_length, User(c), 0, CopyLen(x))

MemoryJoins(c, n, x, t, memory) ==
    /\ memory \in [Buffers -> Seq(Byte)]
    /\ \A b \in Buffers \ {User(c), Partial(c)} : memory[b] = mem[b]
    /\ Len(memory[User(c)]) = n
    /\ Len(memory[Partial(c)]) = 2 * BLOCK_SIZE
    /\ Joins(c, x.total_length, t, memory[Partial(c)],
             x.partial_block_buffer_length + CopyLen(x), memory[User(c)], CopyLen(x))

LEMMA GivenMemoryIs ==
  ASSUME NEW c \in Ctxs, NEW n \in Nat, NEW x, NEW t, Accepted(c, n, x, t),
         x.total_length <= MaxTotal, mem \in [Buffers -> Seq(Byte)],
         Len(mem[Partial(c)]) = 2 * BLOCK_SIZE
  PROVE  MemoryJoins(c, n, x, t, GivenMemory(c, n, x))
<1> DEFINE total  == x.total_length
           plen   == x.partial_block_buffer_length
           copied == CopyLen(x)
           u      == Given(c, total, n)
           given  == [mem EXCEPT ![User(c)] = u]
           p      == mem[Partial(c)]
           memory == GivenMemory(c, n, x)
<1>1. /\ BLOCK_SIZE \in Nat \ {0}
      /\ total \in Nat /\ plen \in Nat /\ copied \in Nat /\ n <= total /\ copied <= n
      /\ plen + copied <= BLOCK_SIZE
      /\ t \in Seq(Byte)
      /\ Holds(c, total - n, t, p, plen)
  BY LaneAssumption DEF Accepted, Ctx
<1>2. /\ User(c) \in Buffers /\ Partial(c) \in Buffers /\ User(c) # Partial(c)
  BY BuffersOf
<1>3. memory = Copy(given, Partial(c), plen, User(c), 0, copied)
  BY DEF GivenMemory
<1> HIDE DEF total, plen, copied, memory
<1>4. u \in Seq(Byte) /\ Len(u) = n
  BY <1>1, GivenIs DEF total
<1> HIDE DEF u
<1>5. /\ given \in [Buffers -> Seq(Byte)] /\ given[User(c)] = u
      /\ given[Partial(c)] = p
      /\ \A b \in Buffers \ {User(c)} : given[b] = mem[b]
  BY <1>2, <1>4
<1> HIDE DEF given
<1>6. plen + copied <= Len(p) /\ p \in Seq(Byte)
  BY <1>1, <1>2
<1> DEFINE z == 0
<1>7. z \in Nat /\ z + copied <= Len(u) /\ memory = Copy(given, Partial(c), plen, User(c), z, copied)
  BY <1>1, <1>3, <1>4
<1>8. z = 0
  OBVIOUS
<1> HIDE DEF z
<1>9. /\ memory \in [Buffers -> Seq(Byte)]
      /\ memory[Partial(c)] = Patch(p, plen, u, z, copied)
      /\ \A b \in Buffers \ {Partial(c)} : memory[b] = given[b]
  <2>1. /\ given \in [Buffers -> Seq(Byte)] /\ Partial(c) \in Buffers /\ User(c) \in Buffers
        /\ plen \in Nat /\ z \in Nat /\ copied \in Nat
        /\ plen + copied <= Len(given[Partial(c)]) /\ z + copied <= Len(given[User(c)])
    BY <1>1, <1>2, <1>4, <1>5, <1>6, <1>7
  <2> DEFINE copy == Copy(given, Partial(c), plen, User(c), z, copied)
  <2>2. Copied(copy, given, Partial(c), plen, User(c), z, copied)
    BY <2>1, CopyIs
  <2>3. memory = copy /\ given[User(c)] = u /\ given[Partial(c)] = p
    BY <1>5, <1>7
  <2> HIDE DEF copy
  <2>4. QED
    BY <2>2, <2>3 DEF Copied
<1>10. Len(Patch(p, plen, u, z, copied)) = 2 * BLOCK_SIZE
  <2>1. /\ p \in Seq(Byte) /\ u \in Seq(Byte) /\ plen \in Nat /\ z \in Nat /\ copied \in Nat
        /\ plen + copied <= Len(p) /\ z + copied <= Len(u)
    BY <1>1, <1>4, <1>6, <1>7
  <2> HIDE DEF p
  <2>2. Len(Patch(p, plen, u, z, copied)) = Len(p)
    BY <2>1, PatchIs DEF Patched
  <2>3. QED
    BY <2>2 DEF p
<1>11. Joins(c, total, t, Patch(p, plen, u, z, copied), plen + copied, u, copied)
  <2>1. Joins(c, total, t, Patch(p, plen, Given(c, total, n), 0, copied), plen + copied,
              Given(c, total, n), copied)
    BY <1>1, <1>6, CopiedJoins DEF total
  <2>2. QED
    BY <1>8, <2>1 DEF u
<1>12. /\ memory[User(c)] = u
       /\ \A b \in Buffers \ {User(c), Partial(c)} : memory[b] = mem[b]
  BY <1>2, <1>5, <1>9
<1>13. QED
  BY <1>4, <1>9, <1>10, <1>11, <1>12 DEF MemoryJoins, memory, total, plen, copied

(* The fields of the context after the copy.                               *)
AfterCopy(x, n) ==
    [x EXCEPT !.incoming_buffer = CopyLen(x),
              !.incoming_buffer_length = n - CopyLen(x),
              !.partial_block_buffer_length =
                    IF Full(x) THEN 0 ELSE x.partial_block_buffer_length + CopyLen(x)]

LEMMA AfterCopyIs ==
  ASSUME NEW c \in Ctxs, NEW n \in Nat, NEW x, NEW t, Accepted(c, n, x, t)
  PROVE  /\ AfterCopy(x, n) \in Ctx
         /\ AfterCopy(x, n).status = x.status
         /\ AfterCopy(x, n).total_length = x.total_length
         /\ AfterCopy(x, n).incoming_buffer = CopyLen(x)
         /\ AfterCopy(x, n).incoming_buffer_length = n - CopyLen(x)
         /\ AfterCopy(x, n).partial_block_buffer_length =
                IF Full(x) THEN 0 ELSE x.partial_block_buffer_length + CopyLen(x)
<1>1. /\ x \in Ctx /\ CopyLen(x) \in Nat /\ CopyLen(x) <= n
      /\ BLOCK_SIZE \in Nat \ {0}
      /\ Full(x) <=> x.partial_block_buffer_length + CopyLen(x) = BLOCK_SIZE
      /\ x.partial_block_buffer_length + CopyLen(x) <= BLOCK_SIZE
  BY LaneAssumption DEF Accepted
<1>2. n - CopyLen(x) \in Nat
  BY <1>1
<1>3. x.partial_block_buffer_length \in Nat
  BY <1>1 DEF Ctx
<1>4. (IF Full(x) THEN 0 ELSE x.partial_block_buffer_length + CopyLen(x)) \in 0 .. BLOCK_SIZE - 1
  BY <1>1, <1>3
<1> DEFINE k == CopyLen(x)
           l == n - CopyLen(x)
           d == IF Full(x) THEN 0 ELSE x.partial_block_buffer_length + CopyLen(x)
<1>5. AfterCopy(x, n) = [x EXCEPT !.incoming_buffer = k, !.incoming_buffer_length = l,
                                  !.partial_block_buffer_length = d]
  BY DEF AfterCopy
<1>6. k \in Nat /\ l \in Nat /\ d \in 0 .. BLOCK_SIZE - 1
  BY <1>1, <1>2, <1>4
<1> HIDE DEF k, l, d
<1>7. QED
  BY <1>1, <1>5, <1>6 DEF Ctx, k, l, d

(* Whether the partial block is full or not, no byte is lost.              *)
AcceptedAs(c, n, x, t, memory, sts) ==
    LET y == AfterCopy(x, n)
        u == memory[User(c)]
        p == memory[Partial(c)]
    IN  /\ ~Full(x) => Fine(c, y, sts, t, u, p)
        /\ Full(x) => Fine(c, y, sts, t \o SubSeq(p, 0 + 1, 0 + 1 * BLOCK_SIZE), u, p)

LEMMA AcceptedFine ==
  ASSUME NEW c \in Ctxs, NEW n \in Nat, n <= MaxTotal, NEW x, NEW t, Accepted(c, n, x, t),
         x.total_length <= MaxTotal, NEW memory, MemoryJoins(c, n, x, t, memory), NEW sts
  PROVE  AcceptedAs(c, n, x, t, memory, sts)
<1> DEFINE y      == AfterCopy(x, n)
           u      == memory[User(c)]
           p      == memory[Partial(c)]
           copied == CopyLen(x)
           filled == x.partial_block_buffer_length + copied
           t2     == t \o SubSeq(p, 0 + 1, 0 + 1 * BLOCK_SIZE)
<1>1. /\ y \in Ctx
      /\ y.status = x.status
      /\ y.total_length = x.total_length
      /\ y.incoming_buffer = copied
      /\ y.incoming_buffer_length = n - copied
      /\ y.partial_block_buffer_length = IF Full(x) THEN 0 ELSE filled
  BY AfterCopyIs
<1>2. /\ x.status \in {{"PROCESSING"}, {"PROCESSING", "LAST"}}
      /\ copied \in Nat /\ copied <= n
      /\ Full(x) \/ filled = 0 \/ copied = n
      /\ Full(x) <=> filled = BLOCK_SIZE
      /\ t \in Seq(Byte) /\ WholeBlocks(t)
  BY DEF Accepted
<1>3. /\ u \in Seq(Byte) /\ p \in Seq(Byte)
      /\ Len(u) = n /\ Len(p) = 2 * BLOCK_SIZE
      /\ Joins(c, x.total_length, t, p, filled, u, copied)
  BY BuffersOf DEF MemoryJoins
<1> HIDE DEF y, u, p, copied, filled
<1>4. ASSUME ~Full(x) PROVE Fine(c, y, sts, t, u, p)
  <2>1. y.partial_block_buffer_length = filled
    BY <1>1, <1>4
  <2>2. y.partial_block_buffer_length = 0 \/ copied = Len(u)
    BY <1>2, <1>3, <1>4, <2>1
  <2>3. Joins(c, y.total_length, t, p, y.partial_block_buffer_length, u, copied)
    BY <1>1, <1>3, <2>1
  <2>4. Len(u) <= MaxTotal /\ copied <= Len(u) /\ y.incoming_buffer_length = Len(u) - copied
    BY <1>1, <1>2, <1>3
  <2>5. y.status \in {{"PROCESSING"}, {"PROCESSING", "LAST"}} /\ y.total_length <= MaxTotal
    BY <1>1, <1>2
  <2>6. QED
    BY <1>1, <1>2, <1>3, <2>2, <2>3, <2>4, <2>5, KeepFine
<1>5. ASSUME Full(x) PROVE Fine(c, y, sts, t2, u, p)
  <2>1. y.partial_block_buffer_length = 0 /\ filled = BLOCK_SIZE
    BY <1>1, <1>2, <1>5
  <2>2. copied <= Len(u) /\ Joins(c, x.total_length, t, p, BLOCK_SIZE, u, copied)
    BY <1>2, <1>3, <2>1
  <2>3. /\ t2 \in Seq(Byte)
        /\ WholeBlocks(t2)
        /\ Joins(c, x.total_length, t2, p, 0, u, copied)
    BY <1>2, <1>3, <2>2, FullJoins
  <2> HIDE DEF t2
  <2>4. Joins(c, y.total_length, t2, p, y.partial_block_buffer_length, u, copied)
    BY <1>1, <2>1, <2>3
  <2>5. Len(u) <= MaxTotal /\ copied <= Len(u) /\ y.incoming_buffer_length = Len(u) - copied
    BY <1>1, <1>2, <1>3
  <2>6. y.status \in {{"PROCESSING"}, {"PROCESSING", "LAST"}} /\ y.total_length <= MaxTotal
    BY <1>1, <1>2
  <2>7. QED
    BY <1>1, <1>2, <1>3, <2>1, <2>3, <2>4, <2>5, <2>6, KeepFine
<1>6. QED
  BY <1>4, <1>5 DEF y, u, p, t2, AcceptedAs

-----------------------------------------------------------------------------
(* The call goes on with the context that the job manager handed back.     *)
LEMMA GoodReturned ==
  ASSUME NEW goal, NEW r, NEW ctxs \in [Ctxs -> Ctx], NEW memory,
         Returned(r, ctxs, memory, goal), fault = FALSE,
         mgr' = r.mgr, job' = r.job, fault' = (fault \/ r.fault),
         ctx' = ctxs, mem' = memory,
         call'.pc = "resubmit", call'.cur = r.ret, CallOK(call)'
  PROVE  IInv'
<1>1. ASSUME NEW i \in Ctxs
      PROVE  Stands(goal, ctx', job', mem', Resubmitting(i)', i)
  <2>1. Stands(goal, ctxs, r.job, memory, r.ret = i, i)
    BY DEF Returned
  <2>2. QED
    BY <2>1 DEF Stands, Owned, Resubmitting
<1>2. Good(goal)'
  BY <1>1 DEF Good, Returned
<1>3. QED
  BY <1>2 DEF IInv

(* The call, which leaves the lanes alone, has the context c in hand.      *)
LEMMA GoodInHand ==
  ASSUME NEW goal, Good(goal), NEW c \in Ctxs, NEW jobs, NEW memory, NEW ctxs,
         OnlyOf(c, job, jobs, mem, memory, ctx, ctxs),
         Others(c, goal, ctx, job, mem), job[c].status # "BEING_PROCESSED",
         jobs[c].status # "BEING_PROCESSED", NEW h \in BOOLEAN,
         Stands(goal, ctxs, jobs, memory, h, c),
         mgr' = mgr, job' = jobs, fault' = fault, ctx' = ctxs, mem' = memory,
         Resubmitting(c)' <=> h, \A i \in Ctxs \ {c} : ~Resubmitting(i)', CallOK(call)'
  PROVE  IInv'
<1>1. goal \in [Jobs -> Goal] /\ c \in Jobs
  BY GoodTypes, CtxAssumption
<1>2. Aimed(goal, goal, c, goal[c])
  BY <1>1 DEF Aimed
<1>3. Others(c, goal, ctxs, jobs, memory)
  BY <1>2, OnlyOfOthers
<1>4. Sane(mgr, memory, jobs, goal)
  BY GoodTypes, OnlyOfSane
<1>5. ASSUME NEW i \in Ctxs
      PROVE  Stands(goal, ctx', job', mem', Resubmitting(i)', i)
  <2>1. CASE i = c
    BY <2>1 DEF Stands, Owned
  <2>2. CASE i # c
    <3>1. Stands(goal, ctxs, jobs, memory, FALSE, i) /\ ~Resubmitting(i)'
      BY <1>3, <2>2 DEF Others
    <3>2. QED
      BY <3>1 DEF Stands, Owned
  <2>3. QED
    BY <2>1, <2>2
<1>6. Good(goal)'
  BY <1>4, <1>5, GoodTypes DEF Good, OnlyOf
<1>7. QED
  BY <1>6 DEF IInv

-----------------------------------------------------------------------------
(* The caller gives a context the next bytes of its message.               *)
LEMMA SubmitAcceptStep ==
  ASSUME NEW goal, Good(goal), NEW c \in Ctxs, NEW n \in 0 .. MaxTotal, NEW flags \in Flags,
         SubmitAccept(c, n, flags)
  PROVE  IInv' /\ Untouched(c)
<1> DEFINE x       == Opened(c, n, flags)
           t       == IF "FIRST" \in flags THEN << >> ELSE job[c].result_digest
           memory  == GivenMemory(c, n, x)
           y       == AfterCopy(x, n)
           ctxs    == [ctx EXCEPT ![c] = y]
           cleared == IF "FIRST" \in flags THEN [job EXCEPT ![c].result_digest = << >>] ELSE job
           started == [pc |-> "resubmit", in |-> c, cur |-> c, out |-> SUBMITTING, rc |-> "NONE"]
           loaded  == [cleared EXCEPT ![c].buffer = At(Partial(c), 0), ![c].len = 1]
           r       == SubmitJob(mgr, memory, loaded, c)
<1>1. /\ call.pc = "idle"
      /\ Rejection(c, flags) = "NONE"
      /\ x.total_length <= MaxTotal
      /\ IF Full(x)
         THEN /\ mgr' = r.mgr
              /\ job' = r.job
              /\ fault' = (fault \/ r.fault)
              /\ Resume(r.ret, started, ctxs, memory)
         ELSE /\ job' = cleared
              /\ UNCHANGED <<mgr, fault>>
              /\ Resume(c, started, ctxs, memory)
  BY DEF SubmitAccept, GivenMemory, Given, AfterCopy
<1>2. /\ ctx \in [Ctxs -> Ctx] /\ job \in [Jobs -> Job] /\ mem \in [Buffers -> Seq(Byte)]
      /\ fault = FALSE /\ mgr.num_lanes_inuse < FILL /\ Sane(mgr, mem, job, goal)
      /\ Jobs = Ctxs /\ n \in Nat /\ n <= MaxTotal
  <2>1. Jobs = Ctxs /\ n \in Nat /\ n <= MaxTotal
    BY CtxAssumption
  <2>2. QED
    BY <2>1, GoodTypes
<1>3. ASSUME NEW i \in Ctxs
      PROVE  Stands(goal, ctx, job, mem, FALSE, i)
  <2>1. ~Resubmitting(i)
    BY <1>1 DEF Resubmitting
  <2>2. QED
    BY <2>1, HandsFree
<1>4. Others(c, goal, ctx, job, mem)
  BY <1>3 DEF Others
<1>5. Accepted(c, n, x, t) /\ job[c].status # "BEING_PROCESSED"
  BY <1>1, <1>2, <1>3, OpenedIs
<1>6. Len(mem[Partial(c)]) = 2 * BLOCK_SIZE
  BY <1>3 DEF Stands, Fine
<1> HIDE DEF x
<1>7. MemoryJoins(c, n, x, t, memory)
  BY <1>1, <1>2, <1>5, <1>6, GivenMemoryIs
<1> HIDE DEF memory
<1>8. /\ ~Full(x) => Fine(c, y, "BEING_PROCESSED", t, memory[User(c)], memory[Partial(c)])
      /\ ~Full(x) => Fine(c, y, job[c].status, t, memory[User(c)], memory[Partial(c)])
      /\ Full(x) => Fine(c, y, "BEING_PROCESSED",
                         t \o SubSeq(memory[Partial(c)], 0 + 1, 0 + 1 * BLOCK_SIZE),
                         memory[User(c)], memory[Partial(c)])
  <2>1. /\ n \in Nat /\ n <= MaxTotal /\ Accepted(c, n, x, t)
        /\ x.total_length <= MaxTotal /\ MemoryJoins(c, n, x, t, memory)
    BY <1>1, <1>2, <1>5, <1>7
  <2>2. /\ AcceptedAs(c, n, x, t, memory, "BEING_PROCESSED")
        /\ AcceptedAs(c, n, x, t, memory, job[c].status)
    BY <2>1, AcceptedFine
  <2>3. QED
    BY <2>2 DEF AcceptedAs
<1>9. y \in Ctx /\ "PROCESSING" \in y.status
  <2>1. y \in Ctx /\ y.status = x.status
    BY <1>2, <1>5, AfterCopyIs
  <2>2. "PROCESSING" \in x.status
    BY <1>5 DEF Accepted
  <2>3. QED
    BY <2>1, <2>2
<1> HIDE DEF y
<1>10. ctxs \in [Ctxs -> Ctx] /\ ctxs[c] = y /\ \A i \in Ctxs \ {c} : ctxs[i] = ctx[i]
  BY <1>2, <1>9
<1>11. t \in Seq(Byte)
  BY <1>5 DEF Accepted
<1>12. /\ cleared \in [Jobs -> Job]
       /\ cleared[c].result_digest = t /\ cleared[c].status = job[c].status
       /\ \A i \in Ctxs \ {c} : cleared[i] = job[i]
  <2>1. CASE "FIRST" \in flags
    <3>1. job[c] \in Job /\ << >> \in Seq(Byte) /\ t = << >>
      BY <1>2, <2>1, EmptySeq
    <3>2. cleared = [job EXCEPT ![c].result_digest = << >>]
      BY <2>1
    <3>3. [job[c] EXCEPT !.result_digest = << >>] \in Job
      BY <3>1 DEF Job
    <3>4. cleared = [job EXCEPT ![c] = [job[c] EXCEPT !.result_digest = << >>]]
      BY <3>2
    <3>5. QED
      BY <1>2, <3>1, <3>3, <3>4 DEF Job
  <2>2. CASE "FIRST" \notin flags
    <3>1. cleared = job /\ t = job[c].result_digest
      BY <2>2
    <3>2. QED
      BY <1>2, <3>1
  <2>3. QED
    BY <2>1, <2>2
<1> HIDE DEF t, cleared, ctxs
<1>13. /\ User(c) \in Buffers /\ Partial(c) \in Buffers
  BY BuffersOf
<1>14. \A b \in Buffers \ {User(c), Partial(c)} : memory[b] = mem[b]
  BY <1>7 DEF MemoryJoins
<1>15. memory \in [Buffers -> Seq(Byte)] /\ Len(memory[Partial(c)]) = 2 * BLOCK_SIZE
  BY <1>7 DEF MemoryJoins
<1>16. CASE ~Full(x)
  <2>1. /\ mgr' = mgr /\ job' = cleared /\ fault' = fault /\ ctx' = ctxs /\ mem' = memory
        /\ call' = [pc |-> "resubmit", in |-> c, cur |-> c, out |-> SUBMITTING, rc |-> "NONE"]
    BY <1>1, <1>16 DEF Resume
  <2>2. OnlyOf(c, job, cleared, mem, memory, ctx, ctxs)
    BY <1>2, <1>10, <1>12, <1>14, <1>15 DEF OnlyOf
  <2>3. Text(cleared, goal, c) = t
    BY <1>5, <1>12 DEF Text
  <2>4. Stands(goal, ctxs, cleared, memory, TRUE, c)
    BY <1>5, <1>8, <1>9, <1>10, <1>12, <1>16, <2>3 DEF Stands, Owned
  <2>5. Resubmitting(c)' /\ \A i \in Ctxs \ {c} : ~Resubmitting(i)'
    BY <2>1 DEF Resubmitting
  <2>6. CallOK(call)'
    BY <2>1, CtxAssumption DEF CallOK, Errors
  <2>7. cleared[c].status # "BEING_PROCESSED" /\ TRUE \in BOOLEAN
    BY <1>5, <1>12
  <2>8. IInv'
    BY <1>4, <1>5, <2>1, <2>2, <2>4, <2>5, <2>6, <2>7, GoodInHand
  <2>9. QED
    BY <1>12, <2>1, <2>8 DEF Untouched
<1>17. CASE Full(x)
  <2>1. /\ mgr' = r.mgr /\ job' = r.job /\ fault' = (fault \/ r.fault) /\ ctx' = ctxs
        /\ mem' = memory
        /\ call' = [started EXCEPT !.pc = "resubmit", !.cur = r.ret]
    BY <1>1, <1>17 DEF Resume
  <2>2. /\ loaded \in [Jobs -> Job]
        /\ loaded[c].buffer = At(Partial(c), 0) /\ loaded[c].len = 1
        /\ loaded[c].result_digest = t /\ loaded[c].status = job[c].status
        /\ \A i \in Ctxs \ {c} : loaded[i] = job[i]
    <3> DEFINE b  == At(Partial(c), 0)
               jb == [cleared[c] EXCEPT !.buffer = b, !.len = 1]
    <3>1. b \in Pointer /\ 1 \in Nat
      BY <1>13 DEF At, Pointer
    <3>2. cleared[c] \in Job
      BY <1>2, <1>12
    <3>3. loaded = [cleared EXCEPT ![c] = jb]
      BY <1>2, <1>12
    <3> HIDE DEF b
    <3>4. jb \in Job /\ jb.buffer = b /\ jb.len = 1 /\ jb.result_digest = cleared[c].result_digest
          /\ jb.status = cleared[c].status
      BY <3>1, <3>2 DEF Job
    <3> HIDE DEF jb, loaded
    <3>5. QED
      BY <1>2, <1>12, <3>3, <3>4 DEF b
  <2> HIDE DEF loaded
  <2>3. OnlyOf(c, job, loaded, mem, memory, ctx, ctxs)
    BY <1>2, <1>10, <1>14, <1>15, <2>2 DEF OnlyOf
  <2>4. loaded[c].buffer.buf = Partial(c) /\ loaded[c].buffer.off = 0
    BY <2>2 DEF At
  <2>5. Ahead(memory, loaded[c])
          = t \o SubSeq(memory[Partial(c)], 0 + 1, 0 + 1 * BLOCK_SIZE)
    BY <2>2, <2>4 DEF Ahead, BlocksAt
  <2>6. Legal(memory, loaded[c])
    <3>1. Fits(1)
      BY JobAssumption, LaneAssumption DEF Fits
    <3>2. 0 + 1 * BLOCK_SIZE <= Len(memory[Partial(c)])
      BY <1>15, LaneAssumption
    <3>3. QED
      BY <2>2, <2>4, <3>1, <3>2 DEF Legal
  <2>7. Fine(c, ctxs[c], "BEING_PROCESSED", Ahead(memory, loaded[c]),
             memory[User(c)], memory[Partial(c)])
    BY <1>8, <1>10, <1>17, <2>5
  <2>8. /\ loaded[c].status # "BEING_PROCESSED" /\ loaded[c].buffer.buf \in {User(c), Partial(c)}
        /\ "PROCESSING" \in ctxs[c].status
    BY <1>5, <1>9, <1>10, <2>2, <2>4
  <2>9. PICK goal2 : Returned(r, ctxs, memory, goal2) /\ Idle(c, loaded, r.job)
    BY <1>2, <1>4, <1>5, <2>3, <2>6, <2>7, <2>8, EnterStands
  <2>10. r.ret \in Ctxs \cup {NULL}
    BY <2>9 DEF Returned
  <2> HIDE DEF r
  <2>11. call'.pc = "resubmit" /\ call'.cur = r.ret /\ CallOK(call)'
    BY <2>1, <2>10, CtxAssumption DEF CallOK, Errors
  <2>12. IInv'
    BY <1>2, <1>10, <2>1, <2>9, <2>11, GoodReturned
  <2>13. Untouched(c)
    BY <2>1, <2>2, <2>9, IdleUntouched
  <2>14. QED
    BY <2>12, <2>13
<1>18. QED
  BY <1>16, <1>17

-----------------------------------------------------------------------------
(* One pass of ctx_mgr_resubmit takes what is left of the user's data.     *)
TakenBytes(c) ==
    job[c].result_digest
        \o SubSeq(mem[User(c)], ctx[c].incoming_buffer + 1,
                  ctx[c].incoming_buffer + Whole(c) * BLOCK_SIZE)

TakenAll(c, sts) ==
    LET y == Taken(c)[c]
    IN  /\ Taken(c) \in [Ctxs -> Ctx]
        /\ \A i \in Ctxs \ {c} : Taken(c)[i] = ctx[i]
        /\ y.status = ctx[c].status /\ y.total_length = ctx[c].total_length
        /\ y.incoming_buffer_length = 0 /\ y.incoming_buffer = ctx[c].incoming_buffer
        /\ MemTaken(c) \in [Buffers -> Seq(Byte)]
        /\ \A b \in Buffers \ {Partial(c)} : MemTaken(c)[b] = mem[b]
        /\ Whole(c) \in Nat /\ Fits(Whole(c))
        /\ ctx[c].incoming_buffer + Whole(c) * BLOCK_SIZE <= Len(mem[User(c)])
        /\ Fine(c, y, sts, TakenBytes(c), MemTaken(c)[User(c)], MemTaken(c)[Partial(c)])
        /\ Whole(c) = 0 => TakenBytes(c) = job[c].result_digest

LEMMA TakenIs ==
  ASSUME NEW goal, Good(goal), NEW c \in Ctxs, Resubmitting(c), "COMPLETE" \notin ctx[c].status,
         NEW sts
  PROVE  TakenAll(c, sts)
<1> DEFINE x == ctx[c]
           t == job[c].result_digest
           u == mem[User(c)]
           p == mem[Partial(c)]
           w == x.incoming_buffer_length \div BLOCK_SIZE
           odd == x.incoming_buffer_length % BLOCK_SIZE
           from == x.incoming_buffer + w * BLOCK_SIZE
<1>1. /\ ctx \in [Ctxs -> Ctx] /\ mem \in [Buffers -> Seq(Byte)] /\ x \in Ctx
      /\ User(c) \in Buffers /\ Partial(c) \in Buffers /\ User(c) # Partial(c)
      /\ "PROCESSING" \in x.status
  BY GoodTypes, InHand, BuffersOf
<1>2. Fine(c, x, sts, t, u, p)
  <2>1. Text(job, goal, c) = t
    BY InHand DEF Text
  <2>2. Fine(c, x, job[c].status, t, u, p)
    BY <2>1, InHand DEF Stands
  <2>3. QED
    BY <2>2 DEF Fine
<1>3. /\ BLOCK_SIZE \in Nat \ {0} /\ x.incoming_buffer \in Nat /\ x.incoming_buffer_length \in Nat
      /\ x.partial_block_buffer_length \in Nat
  BY <1>1, LaneAssumption DEF Ctx
<1>4. CASE Takes(c)
  <2>1. x.partial_block_buffer_length = 0 /\ Whole(c) = w /\ Remainder(c) = odd
    BY <1>4 DEF Takes, Whole, Remainder
  <2>2. odd \in 0 .. BLOCK_SIZE - 1
    BY <1>3, DivisionIs
  <2> DEFINE y == [x EXCEPT !.partial_block_buffer_length = odd, !.incoming_buffer_length = 0]
  <2>3. Taken(c) = [ctx EXCEPT ![c] = y]
    BY <1>1, <1>4, <2>1 DEF Taken
  <2> HIDE DEF odd
  <2>4. /\ y \in Ctx /\ y.status = x.status /\ y.total_length = x.total_length
        /\ y.incoming_buffer_length = 0 /\ y.incoming_buffer = x.incoming_buffer
        /\ y.partial_block_buffer_length = odd
    BY <1>1, <2>2 DEF Ctx
  <2> HIDE DEF y
  <2>5. Took(c, x, sts, t, u, p, y)
    BY <1>1, <1>2, <2>1, <2>4, TakeFine DEF odd
  <2>6. /\ w \in Nat /\ Fits(w)
        /\ odd \in Nat /\ from \in Nat
        /\ odd <= Len(p) /\ from <= Len(u) /\ from + odd <= Len(u)
        /\ Fine(c, y, sts, t \o SubSeq(u, x.incoming_buffer + 1, from), u, Patch(p, 0, u, from, odd))
        /\ w = 0 => t \o SubSeq(u, x.incoming_buffer + 1, from) = t
    BY <2>5 DEF Took, odd
  <2>7. MemTaken(c) = Copy(mem, Partial(c), 0, User(c), from, odd)
    BY <1>4, <2>1 DEF MemTaken
  <2>8. TakenBytes(c) = t \o SubSeq(u, x.incoming_buffer + 1, from)
    BY <2>1 DEF TakenBytes
  <2> HIDE DEF from, w
  <2>9. Copied(MemTaken(c), mem, Partial(c), 0, User(c), from, odd)
    <3> DEFINE z == 0
    <3>1. z \in Nat /\ z + odd <= Len(p) /\ from + odd <= Len(u) /\ from \in Nat /\ odd \in Nat
      BY <2>6
    <3> HIDE DEF z
    <3>2. Copied(Copy(mem, Partial(c), z, User(c), from, odd), mem, Partial(c), z, User(c), from, odd)
      BY <1>1, <3>1, CopyIs
    <3>3. QED
      BY <2>7, <3>2 DEF z
  <2>10. /\ MemTaken(c) \in [Buffers -> Seq(Byte)]
         /\ MemTaken(c)[Partial(c)] = Patch(p, 0, u, from, odd)
         /\ \A b \in Buffers \ {Partial(c)} : MemTaken(c)[b] = mem[b]
    BY <2>9 DEF Copied
  <2>11. MemTaken(c)[User(c)] = u
    BY <1>1, <2>10
  <2>12. /\ Taken(c) \in [Ctxs -> Ctx] /\ Taken(c)[c] = y
         /\ \A i \in Ctxs \ {c} : Taken(c)[i] = ctx[i]
    BY <1>1, <2>3, <2>4
  <2>13. Fine(c, y, sts, TakenBytes(c), MemTaken(c)[User(c)], MemTaken(c)[Partial(c)])
    BY <2>6, <2>8, <2>10, <2>11
  <2>14. ctx[c].incoming_buffer + Whole(c) * BLOCK_SIZE <= Len(mem[User(c)])
    BY <2>1, <2>6 DEF from
  <2>15. QED
    BY <2>1, <2>4, <2>6, <2>8, <2>10, <2>12, <2>13, <2>14 DEF TakenAll
<1>5. CASE ~Takes(c)
  <2>1. Whole(c) = 0 /\ Taken(c) = ctx /\ MemTaken(c) = mem
    BY <1>5 DEF Whole, Taken, MemTaken
  <2>2. x.incoming_buffer_length = 0
    BY <1>2, <1>5 DEF Takes, Fine
  <2>3. x.incoming_buffer + Whole(c) * BLOCK_SIZE = x.incoming_buffer
    BY <1>3, <2>1
  <2>4. TakenBytes(c) = t
    <3>1. SubSeq(u, x.incoming_buffer + 1, x.incoming_buffer) = << >>
      BY <1>3, SubSeqEmpty
    <3>2. t \o << >> = t
      BY <1>2, ConcatEmptySeq DEF Fine
    <3>3. TakenBytes(c) = t \o SubSeq(u, x.incoming_buffer + 1,
                                      x.incoming_buffer + Whole(c) * BLOCK_SIZE)
      BY DEF TakenBytes
    <3>4. QED
      BY <2>3, <3>1, <3>2, <3>3
  <2>5. Whole(c) \in Nat /\ Fits(Whole(c))
    BY <2>1, JobAssumption, LaneAssumption DEF Fits
  <2>6. x.incoming_buffer + Whole(c) * BLOCK_SIZE <= Len(u)
    <3>1. x.incoming_buffer + x.incoming_buffer_length <= Len(u)
      BY <1>2 DEF Fine
    <3>2. x.incoming_buffer + 0 = x.incoming_buffer
      BY <1>3
    <3>3. QED
      BY <2>2, <2>3, <3>1, <3>2
  <2>7. QED
    BY <1>1, <1>2, <2>1, <2>2, <2>4, <2>5, <2>6 DEF TakenAll
<1>6. QED
  BY <1>4, <1>5

-----------------------------------------------------------------------------
(* One pass hands the job of the context to the job manager.               *)
Ready(c, b, n, ctxs, memory) ==
    /\ ctxs \in [Ctxs -> Ctx]
    /\ \A i \in Ctxs \ {c} : ctxs[i] = ctx[i]
    /\ memory \in [Buffers -> Seq(Byte)]
    /\ \A i \in Buffers \ {User(c), Partial(c)} : memory[i] = mem[i]
    /\ Fits(n)
    /\ b.off + n * BLOCK_SIZE <= Len(memory[b.buf])
    /\ Fine(c, ctxs[c], "BEING_PROCESSED",
            job[c].result_digest \o SubSeq(memory[b.buf], b.off + 1, b.off + n * BLOCK_SIZE),
            memory[User(c)], memory[Partial(c)])
    /\ "PROCESSING" \in ctxs[c].status

LEMMA MgrSubmitStep ==
  ASSUME NEW goal, Good(goal), NEW c \in Ctxs, Resubmitting(c),
         NEW b \in Pointer, b.buf \in {User(c), Partial(c)}, NEW n \in Nat,
         NEW ctxs, NEW memory, Ready(c, b, n, ctxs, memory),
         MgrSubmit(c, b, n, call, ctxs, memory)
  PROVE  IInv' /\ Untouched(c)
<1> DEFINE jb     == [job[c] EXCEPT !.buffer = b, !.len = n]
           loaded == [job EXCEPT ![c].buffer = b, ![c].len = n]
           r      == SubmitJob(mgr, memory, loaded, c)
<1>1. /\ ctx \in [Ctxs -> Ctx] /\ job \in [Ctxs -> Job] /\ mem \in [Buffers -> Seq(Byte)]
      /\ fault = FALSE /\ mgr.num_lanes_inuse < FILL /\ Sane(mgr, mem, job, goal)
      /\ CallOK(call)
  BY GoodTypes
<1>2. Jobs = Ctxs
  BY CtxAssumption
<1>3. /\ job[c].status # "BEING_PROCESSED"
      /\ Others(c, goal, ctx, job, mem)
  BY InHand
<1>4. /\ jb \in Job /\ jb.buffer = b /\ jb.len = n /\ jb.result_digest = job[c].result_digest
      /\ jb.status = job[c].status
  BY <1>1 DEF Job
<1>5. loaded = [job EXCEPT ![c] = jb]
  BY <1>1
<1>6. /\ mgr' = r.mgr /\ job' = r.job /\ fault' = (fault \/ r.fault)
      /\ ctx' = ctxs /\ mem' = memory
      /\ call' = [call EXCEPT !.pc = "resubmit", !.cur = r.ret]
  BY DEF MgrSubmit, Resume
<1> HIDE DEF jb, loaded
<1>7. /\ loaded \in [Jobs -> Job] /\ loaded[c] = jb
      /\ \A i \in Ctxs \ {c} : loaded[i] = job[i]
  BY <1>1, <1>2, <1>4, <1>5
<1>8. /\ ctxs \in [Ctxs -> Ctx]
      /\ OnlyOf(c, job, loaded, mem, memory, ctx, ctxs)
  BY <1>7 DEF OnlyOf, Ready
<1>9. Legal(memory, loaded[c])
  BY <1>4, <1>7 DEF Legal, Ready
<1>10. Ahead(memory, loaded[c])
         = job[c].result_digest \o SubSeq(memory[b.buf], b.off + 1, b.off + n * BLOCK_SIZE)
  BY <1>4, <1>7 DEF Ahead, BlocksAt
<1>11. /\ Fine(c, ctxs[c], "BEING_PROCESSED", Ahead(memory, loaded[c]),
               memory[User(c)], memory[Partial(c)])
       /\ "PROCESSING" \in ctxs[c].status
  BY <1>10 DEF Ready
<1>12. /\ loaded[c].status # "BEING_PROCESSED" /\ loaded[c].buffer.buf \in {User(c), Partial(c)}
  BY <1>3, <1>4, <1>7
<1>13. PICK goal2 : Returned(r, ctxs, memory, goal2) /\ Idle(c, loaded, r.job)
  BY <1>1, <1>3, <1>8, <1>9, <1>11, <1>12, EnterStands
<1>14. r.ret \in Ctxs \cup {NULL}
  BY <1>13 DEF Returned
<1> HIDE DEF r
<1>15. call.pc = "resubmit"
  BY DEF Resubmitting
<1>16. call'.pc = "resubmit" /\ call'.cur = r.ret /\ CallOK(call)'
  BY <1>1, <1>6, <1>14, <1>15 DEF CallOK
<1>17. IInv'
  BY <1>1, <1>6, <1>8, <1>13, <1>16, GoodReturned
<1>18. Untouched(c)
  BY <1>6, <1>7, <1>13, IdleUntouched
<1>19. QED
  BY <1>17, <1>18

(* The whole blocks of the user's data, where they are.                    *)
LEMMA ResubmitBlocksStep ==
  ASSUME NEW goal, Good(goal), NEW c \in Ctxs, ResubmitBlocks(c)
  PROVE  IInv' /\ Untouched(c)
<1> DEFINE b == At(User(c), ctx[c].incoming_buffer)
           n == Whole(c)
<1>1. /\ Resubmitting(c) /\ "COMPLETE" \notin ctx[c].status
      /\ MgrSubmit(c, b, n, call, Taken(c), MemTaken(c))
  BY DEF ResubmitBlocks
<1>2. TakenAll(c, "BEING_PROCESSED") /\ "PROCESSING" \in ctx[c].status
  BY <1>1, TakenIs, InHand
<1>3. User(c) \in Buffers \ {Partial(c)}
  BY BuffersOf
<1>4. ctx[c].incoming_buffer \in Nat
  BY GoodTypes DEF Ctx
<1>5. b \in Pointer /\ b.buf = User(c) /\ b.off = ctx[c].incoming_buffer
  BY <1>3, <1>4 DEF At, Pointer
<1>6. MemTaken(c)[User(c)] = mem[User(c)]
  BY <1>2, <1>3 DEF TakenAll
<1>7. n \in Nat
  BY <1>2 DEF TakenAll
<1>8. job[c].result_digest \o SubSeq(MemTaken(c)[b.buf], b.off + 1, b.off + n * BLOCK_SIZE)
        = TakenBytes(c)
  BY <1>5, <1>6 DEF TakenBytes
<1>9. /\ Taken(c) \in [Ctxs -> Ctx]
      /\ \A i \in Ctxs \ {c} : Taken(c)[i] = ctx[i]
      /\ MemTaken(c) \in [Buffers -> Seq(Byte)]
      /\ \A i \in Buffers \ {User(c), Partial(c)} : MemTaken(c)[i] = mem[i]
      /\ Fits(n)
      /\ b.off + n * BLOCK_SIZE <= Len(MemTaken(c)[b.buf])
      /\ "PROCESSING" \in Taken(c)[c].status
      /\ Fine(c, Taken(c)[c], "BEING_PROCESSED", TakenBytes(c),
              MemTaken(c)[User(c)], MemTaken(c)[Partial(c)])
  BY <1>2, <1>5, <1>6 DEF TakenAll
<1> HIDE DEF b, n
<1>10. Ready(c, b, n, Taken(c), MemTaken(c))
  BY <1>8, <1>9 DEF Ready
<1>11. QED
  BY <1>1, <1>5, <1>7, <1>10, MgrSubmitStep

(* What HashPad does to the partial block buffer.                          *)
LEMMA HashPadIs ==
  ASSUME NEW memory, NEW c, NEW total
  PROVE  HashPad(memory, c, total)
           = [memory EXCEPT ![Partial(c)] = PaddedBuffer(memory[Partial(c)], total)]
BY DEF HashPad, PaddedBuffer

(* The padding of the last block.                                          *)
LEMMA ResubmitPadStep ==
  ASSUME NEW goal, Good(goal), NEW c \in Ctxs, ResubmitPad(c)
  PROVE  IInv' /\ Untouched(c)
<1> DEFINE z      == 0
           b      == At(Partial(c), z)
           total  == ctx[c].total_length
           n      == PadEnd(total) \div BLOCK_SIZE
           x      == Taken(c)[c]
           y      == [x EXCEPT !.status = {"PROCESSING", "COMPLETE"}]
           ctxs   == [Taken(c) EXCEPT ![c].status = {"PROCESSING", "COMPLETE"}]
           memory == HashPad(MemTaken(c), c, total)
           u      == MemTaken(c)[User(c)]
           p      == MemTaken(c)[Partial(c)]
           t      == job[c].result_digest
<1>1. /\ Resubmitting(c) /\ "COMPLETE" \notin ctx[c].status
      /\ MgrSubmit(c, b, n, call, ctxs, memory)
      /\ Whole(c) = 0
  BY DEF ResubmitPad
<1>2. TakenAll(c, "BEING_PROCESSED")
  BY <1>1, TakenIs
<1>3. /\ Taken(c) \in [Ctxs -> Ctx]
      /\ \A i \in Ctxs \ {c} : Taken(c)[i] = ctx[i]
      /\ x.status = ctx[c].status /\ x.total_length = total
      /\ x.incoming_buffer_length = 0
      /\ MemTaken(c) \in [Buffers -> Seq(Byte)]
      /\ \A i \in Buffers \ {Partial(c)} : MemTaken(c)[i] = mem[i]
      /\ Fine(c, x, "BEING_PROCESSED", t, u, p)
  BY <1>1, <1>2 DEF TakenAll
<1>4. x \in Ctx
  BY <1>3
<1>5. ctxs = [Taken(c) EXCEPT ![c] = y]
  BY <1>3
<1>6. memory = [MemTaken(c) EXCEPT ![Partial(c)] = PaddedBuffer(p, total)]
  BY HashPadIs
<1> HIDE DEF x, memory, p, u, t, total, ctxs
<1>7. /\ y \in Ctx /\ y.status = {"PROCESSING", "COMPLETE"} /\ y.total_length = x.total_length
      /\ y.incoming_buffer = x.incoming_buffer /\ y.incoming_buffer_length = 0
  BY <1>3, <1>4 DEF Ctx, CtxSts
<1> HIDE DEF y
<1>8. PaddedAs(c, x, "BEING_PROCESSED", t, u, p, y)
  BY <1>1, <1>3, <1>4, <1>7, PadFine
<1>9. /\ n \in Nat /\ Fits(n)
      /\ z + n * BLOCK_SIZE <= Len(PaddedBuffer(p, total))
      /\ Fine(c, y, "BEING_PROCESSED",
              t \o SubSeq(PaddedBuffer(p, total), z + 1, z + n * BLOCK_SIZE),
              u, PaddedBuffer(p, total))
  BY <1>3, <1>8 DEF PaddedAs
<1> HIDE DEF n, z
<1>10. PaddedBuffer(p, total) \in Seq(Byte)
  BY <1>9 DEF Fine
<1>11. /\ User(c) \in Buffers /\ Partial(c) \in Buffers /\ User(c) # Partial(c)
  BY BuffersOf
<1>12. /\ memory \in [Buffers -> Seq(Byte)]
       /\ memory[Partial(c)] = PaddedBuffer(p, total)
       /\ memory[User(c)] = u
       /\ \A i \in Buffers \ {User(c), Partial(c)} : memory[i] = mem[i]
  BY <1>3, <1>6, <1>10, <1>11 DEF u
<1>13. /\ ctxs \in [Ctxs -> Ctx] /\ ctxs[c] = y
       /\ \A i \in Ctxs \ {c} : ctxs[i] = ctx[i]
  BY <1>3, <1>5, <1>7
<1>14. b \in Pointer /\ b.buf = Partial(c) /\ b.off = z
  BY <1>11 DEF At, Pointer, z
<1>15. "PROCESSING" \in ctxs[c].status
  BY <1>7, <1>13
<1> HIDE DEF b
<1>16. Ready(c, b, n, ctxs, memory)
  BY <1>9, <1>12, <1>13, <1>14, <1>15 DEF Ready, t
<1>17. QED
  BY <1>1, <1>9, <1>14, <1>16, MgrSubmitStep

-----------------------------------------------------------------------------
(* The call returns with the context c, which x described.                 *)
Done(c, x, ctxs, memory) ==
    /\ x \in Ctx
    /\ "PROCESSING" \in x.status
    /\ x.incoming_buffer_length = 0
    /\ ctxs = [ctx EXCEPT ![c] =
                  [x EXCEPT !.status = IF "COMPLETE" \in x.status THEN {"COMPLETE"} ELSE {}]]
    /\ memory \in [Buffers -> Seq(Byte)]
    /\ \A i \in Buffers \ {User(c), Partial(c)} : memory[i] = mem[i]
    /\ Fine(c, x, job[c].status, job[c].result_digest, memory[User(c)], memory[Partial(c)])

(* What of a partial block survives.                                       *)
Cleaned(p, used) == [i \in DOMAIN p |-> IF i <= used THEN p[i] ELSE Garbage]

LEMMA CleanedIs ==
  ASSUME NEW p \in Seq(Byte), NEW used \in Nat, used <= Len(p)
  PROVE  /\ Cleaned(p, used) \in Seq(Byte)
         /\ Len(Cleaned(p, used)) = Len(p)
         /\ \A i \in 1 .. used : Cleaned(p, used)[i] = p[i]
<1> DEFINE y == Cleaned(p, used)
<1>1. /\ Len(p) \in Nat /\ DOMAIN p = 1 .. Len(p)
      /\ \A i \in 1 .. Len(p) : p[i] \in Byte
  BY LenProperties, ElementOfSeq
<1>2. Garbage \in Byte
  BY CellAssumption
<1>3. \A i \in 1 .. Len(p) : y[i] = IF i <= used THEN p[i] ELSE Garbage
  BY <1>1 DEF Cleaned
<1>4. y \in [1 .. Len(p) -> Byte]
  BY <1>1, <1>2 DEF Cleaned
<1> HIDE DEF y
<1>5. y \in Seq(Byte)
  BY <1>1, <1>4, SeqDef
<1>6. Len(y) = Len(p)
  BY <1>1, <1>4, <1>5, LenProperties
<1>7. \A i \in 1 .. used : y[i] = p[i]
  BY <1>1, <1>3
<1>8. QED
  BY <1>5, <1>6, <1>7 DEF y

LEMMA FinishStep ==
  ASSUME NEW goal, Good(goal), NEW c \in Ctxs, Resubmitting(c), NEW x, NEW ctxs, NEW memory,
         Done(c, x, ctxs, memory), Finish(c, ctxs, memory), UNCHANGED <<mgr, fault>>
  PROVE  IInv'
<1> DEFINE z     == 0
           sts   == IF "COMPLETE" \in x.status THEN {"COMPLETE"} ELSE {}
           y     == [x EXCEPT !.status = sts]
           y2    == [y EXCEPT !.incoming_buffer = z]
           ctxs2 == [ctxs EXCEPT ![c].incoming_buffer = z]
           b     == At(Partial(c), z)
           jb    == [job[c] EXCEPT !.buffer = b, !.len = z]
           jobs  == [job EXCEPT ![c].buffer = b, ![c].len = z]
           used  == IF ctxs[c].status = {} THEN ctxs[c].partial_block_buffer_length ELSE 0
           p     == memory[Partial(c)]
           p2    == Cleaned(p, used)
           mem2  == [memory EXCEPT ![User(c)] = << >>, ![Partial(c)] = p2]
           t     == job[c].result_digest
<1>1. /\ ctx \in [Ctxs -> Ctx] /\ job \in [Ctxs -> Job] /\ mem \in [Buffers -> Seq(Byte)]
      /\ Jobs = Ctxs /\ NULL \notin Ctxs
      /\ CallOK(call)
  <2>1. Jobs = Ctxs /\ NULL \notin Ctxs
    BY CtxAssumption
  <2>2. QED
    BY <2>1, GoodTypes
<1>2. /\ job[c].status # "BEING_PROCESSED"
      /\ Others(c, goal, ctx, job, mem)
  BY InHand
<1>3. /\ User(c) \in Buffers /\ Partial(c) \in Buffers /\ User(c) # Partial(c)
  BY BuffersOf
<1>4. /\ call' = [call EXCEPT !.pc = "idle", !.cur = NULL, !.out = c,
                              !.rc = IF c = NULL \/ call.out = FLUSHING THEN "NONE"
                                     ELSE ctxs[c].error]
      /\ ctx' = ctxs2 /\ job' = jobs /\ mgr' = mgr /\ fault' = fault
  BY <1>1 DEF Finish
<1>5. mem' = mem2
  <2>1. mem' = [memory EXCEPT ![User(c)] = << >>,
                              ![Partial(c)] = [i \in DOMAIN @ |->
                                                IF i <= used THEN @[i] ELSE Garbage]]
    BY <1>1 DEF Finish
  <2>2. QED
    BY <1>3, <2>1 DEF Cleaned
<1>6. /\ x \in Ctx /\ "PROCESSING" \in x.status /\ x.incoming_buffer_length = 0
      /\ ctxs = [ctx EXCEPT ![c] = y]
      /\ memory \in [Buffers -> Seq(Byte)]
      /\ \A i \in Buffers \ {User(c), Partial(c)} : memory[i] = mem[i]
      /\ Fine(c, x, job[c].status, t, memory[User(c)], p)
  BY DEF Done
<1>7. /\ ctxs[c] = y /\ \A i \in Ctxs \ {c} : ctxs[i] = ctx[i]
  BY <1>1, <1>6
<1>8. ctxs2 = [ctx EXCEPT ![c] = y2]
  BY <1>1, <1>6
<1>9. z \in Nat /\ sts \in CtxSts
  BY DEF CtxSts
<1>10. b \in Pointer
  BY <1>3 DEF At, Pointer
<1>11. jobs = [job EXCEPT ![c] = jb]
  BY <1>1
<1> HIDE DEF sts, b, ctxs2, jobs
<1>12. /\ jb \in Job /\ jb.status = job[c].status /\ jb.result_digest = t
  BY <1>1, <1>9, <1>10 DEF Job
<1>13. /\ y \in Ctx /\ y.status = sts /\ y.error = x.error
       /\ y.partial_block_buffer_length = x.partial_block_buffer_length
  BY <1>6, <1>9 DEF Ctx
<1>14. /\ y2 \in Ctx /\ y2.status = sts /\ y2.total_length = x.total_length
       /\ y2.incoming_buffer = 0 /\ y2.incoming_buffer_length = 0
       /\ y2.partial_block_buffer_length = x.partial_block_buffer_length
  BY <1>6, <1>9 DEF Ctx
<1>15. /\ p \in Seq(Byte) /\ Len(p) = 2 * BLOCK_SIZE
       /\ x.partial_block_buffer_length \in 0 .. BLOCK_SIZE - 1
  BY <1>6 DEF Fine, Ctx
<1>16. used \in Nat /\ used <= Len(p)
  BY <1>7, <1>13, <1>15, LaneAssumption
<1>17. "COMPLETE" \notin x.status => used = x.partial_block_buffer_length
  BY <1>7, <1>13 DEF sts
<1> HIDE DEF jb, y, y2, z, used, p, t
<1>18. /\ p2 \in Seq(Byte) /\ Len(p2) = 2 * BLOCK_SIZE
       /\ \A i \in 1 .. used : p2[i] = p[i]
  BY <1>15, <1>16, CleanedIs
<1> HIDE DEF p2
<1>19. Fine(c, y2, job[c].status, t, << >>, p2)
  BY <1>6, <1>14, <1>17, <1>18, FinishFine DEF sts
<1>20. << >> \in Seq(Byte)
  BY EmptySeq
<1>21. /\ mem2 \in [Buffers -> Seq(Byte)] /\ mem2[User(c)] = << >> /\ mem2[Partial(c)] = p2
       /\ \A i \in Buffers \ {User(c), Partial(c)} : mem2[i] = mem[i]
  BY <1>3, <1>6, <1>18, <1>20
<1>22. /\ jobs \in [Jobs -> Job] /\ jobs[c] = jb /\ \A i \in Ctxs \ {c} : jobs[i] = job[i]
  BY <1>1, <1>11, <1>12
<1>23. /\ ctxs2 \in [Ctxs -> Ctx] /\ ctxs2[c] = y2 /\ \A i \in Ctxs \ {c} : ctxs2[i] = ctx[i]
  BY <1>1, <1>8, <1>14
<1> HIDE DEF mem2
<1>24. OnlyOf(c, job, jobs, mem, mem2, ctx, ctxs2)
  BY <1>21, <1>22, <1>23 DEF OnlyOf
<1>25. jobs[c].status # "BEING_PROCESSED" /\ Text(jobs, goal, c) = t
  BY <1>2, <1>12, <1>22 DEF Text
<1>26. "PROCESSING" \notin sts
  BY DEF sts
<1>27. Stands(goal, ctxs2, jobs, mem2, FALSE, c)
  BY <1>12, <1>14, <1>19, <1>21, <1>22, <1>23, <1>25, <1>26 DEF Stands, Owned
<1>28. \A i \in Ctxs : ~Resubmitting(i)'
  BY <1>1, <1>4 DEF Resubmitting, CallOK
<1>29. CallOK(call)'
  <2>1. ctxs[c].error \in Errors
    BY <1>7, <1>13 DEF Ctx
  <2>2. QED
    BY <1>1, <1>4, <2>1, CtxAssumption DEF CallOK, Errors
<1>30. FALSE \in BOOLEAN
  OBVIOUS
<1>31. QED
  BY <1>2, <1>4, <1>5, <1>24, <1>25, <1>27, <1>28, <1>29, <1>30, GoodInHand

LEMMA ResubmitCompleteStep ==
  ASSUME NEW goal, Good(goal), NEW c \in Ctxs, ResubmitComplete(c)
  PROVE  IInv'
<1> DEFINE x    == ctx[c]
           ctxs == [ctx EXCEPT ![c].status = {"COMPLETE"}]
<1>1. /\ Resubmitting(c) /\ "COMPLETE" \in x.status
      /\ Finish(c, ctxs, mem) /\ UNCHANGED <<mgr, fault>>
  BY DEF ResubmitComplete
<1>2. /\ ctx \in [Ctxs -> Ctx] /\ mem \in [Buffers -> Seq(Byte)]
  BY GoodTypes
<1>3. /\ Stands(goal, ctx, job, mem, TRUE, c) /\ job[c].status # "BEING_PROCESSED"
      /\ "PROCESSING" \in x.status
  BY <1>1, InHand
<1>4. Fine(c, x, job[c].status, job[c].result_digest, mem[User(c)], mem[Partial(c)])
  BY <1>3 DEF Stands, Text
<1>5. x.incoming_buffer_length = 0
  BY <1>1, <1>4 DEF Fine
<1>6. ctxs = [ctx EXCEPT ![c] = [x EXCEPT !.status = {"COMPLETE"}]]
  BY <1>2
<1> HIDE DEF ctxs
<1>7. Done(c, x, ctxs, mem)
  BY <1>1, <1>2, <1>3, <1>4, <1>5, <1>6 DEF Done
<1>8. QED
  BY <1>1, <1>7, FinishStep

LEMMA ResubmitIdleStep ==
  ASSUME NEW goal, Good(goal), NEW c \in Ctxs, ResubmitIdle(c)
  PROVE  IInv'
<1> DEFINE x    == Taken(c)[c]
           ctxs == [Taken(c) EXCEPT ![c].status = {}]
           memory == MemTaken(c)
<1>1. /\ Resubmitting(c) /\ "COMPLETE" \notin ctx[c].status /\ Whole(c) = 0
      /\ Finish(c, ctxs, memory) /\ UNCHANGED <<mgr, fault>>
  BY DEF ResubmitIdle
<1>2. ctx \in [Ctxs -> Ctx]
  BY GoodTypes
<1>3. "PROCESSING" \in ctx[c].status
  BY <1>1, InHand
<1>4. TakenAll(c, job[c].status)
  BY <1>1, TakenIs
<1>5. /\ Taken(c) \in [Ctxs -> Ctx]
      /\ \A i \in Ctxs \ {c} : Taken(c)[i] = ctx[i]
      /\ x.status = ctx[c].status /\ x.incoming_buffer_length = 0
      /\ memory \in [Buffers -> Seq(Byte)]
      /\ \A i \in Buffers \ {Partial(c)} : memory[i] = mem[i]
      /\ Fine(c, x, job[c].status, job[c].result_digest, memory[User(c)], memory[Partial(c)])
  BY <1>1, <1>4 DEF TakenAll
<1>6. x \in Ctx
  BY <1>5
<1> DEFINE y == [x EXCEPT !.status = {}]
<1>7. ctxs = [ctx EXCEPT ![c] = y]
  <2>1. ctxs = [Taken(c) EXCEPT ![c] = y]
    BY <1>5
  <2> HIDE DEF y, ctxs
  <2>2. QED
    BY <1>2, <1>5, <2>1
<1> HIDE DEF ctxs, x, memory
<1>8. Done(c, x, ctxs, memory)
  BY <1>1, <1>3, <1>5, <1>6, <1>7 DEF Done
<1>9. QED
  BY <1>1, <1>8, FinishStep

-----------------------------------------------------------------------------
(* A call that takes nothing up and hands nothing over.                    *)
LEMMA GoodSameHands ==
  ASSUME NEW goal, Good(goal), UNCHANGED <<mgr, job, fault, ctx, mem>>,
         \A i \in Ctxs : Resubmitting(i)' <=> Resubmitting(i), CallOK(call)'
  PROVE  IInv'
<1>1. ASSUME NEW i \in Ctxs
      PROVE  Stands(goal, ctx', job', mem', Resubmitting(i)', i)
  <2>1. Stands(goal, ctx, job, mem, Resubmitting(i), i)
    BY DEF Good
  <2>2. Resubmitting(i)' <=> Resubmitting(i)
    OBVIOUS
  <2>3. QED
    BY <2>1, <2>2 DEF Stands, Owned
<1>2. Good(goal)'
  BY <1>1 DEF Good
<1>3. QED
  BY <1>2 DEF IInv

LEMMA ResubmitNullStep ==
  ASSUME NEW goal, Good(goal), ResubmitNull
  PROVE  IInv'
<1>1. CallOK(call) /\ NULL \notin Ctxs
  BY GoodTypes, CtxAssumption
<1>2. Resubmitting(NULL) /\ UNCHANGED <<mgr, fault>>
  BY DEF ResubmitNull
<1>3. \A i \in Ctxs : ~Resubmitting(i)
  BY <1>1, <1>2 DEF Resubmitting
<1>4. CASE call.out = FLUSHING
  <2>1. call' = [call EXCEPT !.pc = "flush"] /\ UNCHANGED <<mgr, job, fault, ctx, mem>>
    BY <1>2, <1>4 DEF ResubmitNull
  <2>2. \A i \in Ctxs : ~Resubmitting(i)'
    BY <1>1, <2>1 DEF Resubmitting, CallOK
  <2>3. CallOK(call)'
    BY <1>1, <1>4, <2>1, CtxAssumption DEF CallOK
  <2>4. QED
    BY <1>3, <2>1, <2>2, <2>3, GoodSameHands
<1>5. CASE call.out # FLUSHING
  <2>1. /\ call' = [call EXCEPT !.pc = "idle", !.cur = NULL, !.out = NULL, !.rc = "NONE"]
        /\ UNCHANGED <<mgr, job, fault, ctx, mem>>
    BY <1>2, <1>5 DEF ResubmitNull, Finish
  <2>2. \A i \in Ctxs : ~Resubmitting(i)'
    BY <1>1, <2>1 DEF Resubmitting, CallOK
  <2>3. CallOK(call)'
    BY <1>1, <2>1, CtxAssumption DEF CallOK, Errors
  <2>4. QED
    BY <1>3, <2>1, <2>2, <2>3, GoodSameHands
<1>6. QED
  BY <1>4, <1>5

LEMMA FlushCallStep ==
  ASSUME NEW goal, Good(goal), FlushCall
  PROVE  IInv'
<1>1. /\ call.pc = "idle" /\ UNCHANGED <<mgr, job, fault, ctx, mem>>
      /\ call' = [pc |-> "flush", in |-> NULL, cur |-> NULL, out |-> FLUSHING, rc |-> "NONE"]
  BY DEF FlushCall
<1>2. \A i \in Ctxs : ~Resubmitting(i) /\ ~Resubmitting(i)'
  BY <1>1 DEF Resubmitting
<1>3. CallOK(call)'
  BY <1>1, CtxAssumption DEF CallOK, Errors
<1>4. QED
  BY <1>1, <1>2, <1>3, GoodSameHands

(* A submit that is refused leaves the lanes and the bytes alone, whatever *)
(* the context is doing.                                                   *)
LEMMA SubmitRejectStep ==
  ASSUME NEW goal, Good(goal), NEW c \in Ctxs, NEW flags, SubmitReject(c, flags)
  PROVE  IInv'
<1> DEFINE e == Rejection(c, flags)
           x == ctx[c]
           y == [x EXCEPT !.error = e]
<1>1. /\ call.pc = "idle"
      /\ ctx' = [ctx EXCEPT ![c].error = e]
      /\ call' = [pc |-> "idle", in |-> c, cur |-> NULL, out |-> c, rc |-> e]
      /\ UNCHANGED <<mgr, job, fault, mem>>
  BY DEF SubmitReject
<1>2. ctx \in [Ctxs -> Ctx] /\ x \in Ctx
  BY GoodTypes
<1>3. e \in Errors
  BY DEF Rejection, Errors
<1>4. ctx' = [ctx EXCEPT ![c] = y]
  BY <1>1, <1>2
<1> HIDE DEF e
<1>5. /\ y \in Ctx /\ y.status = x.status /\ y.total_length = x.total_length
      /\ y.incoming_buffer = x.incoming_buffer
      /\ y.incoming_buffer_length = x.incoming_buffer_length
      /\ y.partial_block_buffer_length = x.partial_block_buffer_length
  BY <1>2, <1>3 DEF Ctx
<1> HIDE DEF y
<1>6. /\ ctx' \in [Ctxs -> Ctx] /\ ctx'[c] = y /\ \A i \in Ctxs \ {c} : ctx'[i] = ctx[i]
  BY <1>2, <1>4, <1>5
<1>7. \A i \in Ctxs : ~Resubmitting(i) /\ ~Resubmitting(i)'
  BY <1>1 DEF Resubmitting
<1>8. CallOK(call)'
  BY <1>1, <1>3, CtxAssumption DEF CallOK
<1>9. ASSUME NEW i \in Ctxs
      PROVE  Stands(goal, ctx', job', mem', Resubmitting(i)', i)
  <2>1. Stands(goal, ctx, job, mem, FALSE, i)
    BY <1>7, HandsFree
  <2>2. Stands(goal, ctx', job, mem, FALSE, i)
    <3>1. CASE i # c
      BY <1>6, <2>1, <3>1 DEF Stands
    <3>2. CASE i = c
      <4>1. \A t, u, p : Waits(y, u, p) = Waits(x, u, p)
        BY <1>5 DEF Waits
      <4>2. ASSUME NEW sts, NEW t, NEW u, NEW p, Fine(c, x, sts, t, u, p)
            PROVE  Fine(c, y, sts, t, u, p)
        <5>1. Waits(y, u, p) = Waits(x, u, p)
          BY <4>1
        <5> HIDE DEF x
        <5>2. QED
          BY <1>5, <4>2, <5>1 DEF Fine
      <4>3. Fine(c, y, job[c].status, Text(job, goal, c), mem[User(c)], mem[Partial(c)])
        BY <2>1, <3>2, <4>2 DEF Stands
      <4>4. QED
        BY <1>5, <1>6, <2>1, <3>2, <4>3 DEF Stands, Owned
    <3>3. QED
      BY <3>1, <3>2
  <2>3. QED
    BY <1>1, <1>7, <2>2 DEF Stands, Owned
<1>10. Good(goal)'
  BY <1>1, <1>6, <1>8, <1>9 DEF Good
<1>11. QED
  BY <1>10 DEF IInv

LEMMA FlushPassStep ==
  ASSUME NEW goal, Good(goal), FlushPass
  PROVE  IInv'
<1> DEFINE r == FlushJob(mgr, mem, job)
<1>1. /\ call.pc = "flush" /\ mgr' = r.mgr /\ fault' = (fault \/ r.fault)
      /\ IF r.ret = NULL THEN Finish(NULL, ctx, mem)
         ELSE job' = r.job /\ Resume(r.ret, call, ctx, mem)
  BY DEF FlushPass
<1>2. /\ ctx \in [Ctxs -> Ctx] /\ mem \in [Buffers -> Seq(Byte)] /\ job \in [Jobs -> Job]
      /\ goal \in [Jobs -> Goal] /\ fault = FALSE /\ mgr.num_lanes_inuse < FILL
      /\ Sane(mgr, mem, job, goal) /\ CallOK(call)
  BY GoodTypes
<1>3. Jobs = Ctxs /\ NULL \notin Ctxs
  BY CtxAssumption
<1>4. Flushed(mgr, mem, job, goal, r)
  BY <1>2, FlushSane
<1> HIDE DEF r
<1>5. /\ Sane(r.mgr, mem, r.job, goal) /\ r.mgr.num_lanes_inuse < FILL /\ r.fault = FALSE
      /\ r.job \in [Jobs -> Job]
  BY <1>4 DEF Flushed, Sane
<1>6. ASSUME NEW i \in Ctxs
      PROVE  Stands(goal, ctx, job, mem, FALSE, i) /\ ~Resubmitting(i)
  <2>1. ~Resubmitting(i)
    BY <1>1 DEF Resubmitting
  <2>2. QED
    BY <2>1, HandsFree
<1>7. CASE r.ret = NULL /\ r.job = job
  <2>1. /\ call' = [call EXCEPT !.pc = "idle", !.cur = NULL, !.out = NULL, !.rc = "NONE"]
        /\ UNCHANGED <<job, ctx, mem>>
    BY <1>1, <1>7 DEF Finish
  <2>2. \A i \in Ctxs : ~Resubmitting(i)'
    BY <1>2, <2>1 DEF Resubmitting, CallOK
  <2>3. CallOK(call)'
    BY <1>2, <2>1, CtxAssumption DEF CallOK, Errors
  <2>4. ASSUME NEW i \in Ctxs
        PROVE  Stands(goal, ctx', job', mem', Resubmitting(i)', i)
    BY <1>6, <2>1, <2>2 DEF Stands, Owned
  <2>5. Good(goal)'
    BY <1>1, <1>2, <1>5, <1>7, <2>1, <2>3, <2>4 DEF Good
  <2>6. QED
    BY <2>5 DEF IInv
<1>8. CASE r.ret \in Jobs /\ Leaves(r.ret, job, r.job, goal)
  <2>1. /\ job' = r.job /\ ctx' = ctx /\ mem' = mem
        /\ call' = [call EXCEPT !.pc = "resubmit", !.cur = r.ret]
    BY <1>1, <1>3, <1>8 DEF Resume
  <2>2. ASSUME NEW i \in Ctxs PROVE Stands(goal, ctx, r.job, mem, r.ret = i, i)
    BY <1>2, <1>5, <1>6, <1>8, BackStands
  <2>3. Returned(r, ctx, mem, goal)
    BY <1>3, <1>5, <1>8, <2>2 DEF Returned
  <2>4. call'.pc = "resubmit" /\ call'.cur = r.ret /\ CallOK(call)'
    BY <1>1, <1>2, <1>3, <1>8, <2>1, CtxAssumption DEF CallOK
  <2>5. QED
    BY <1>1, <1>2, <2>1, <2>3, <2>4, GoodReturned
<1>9. QED
  BY <1>4, <1>7, <1>8 DEF Flushed

-----------------------------------------------------------------------------
(* Every context fresh from isal_hash_ctx_init.                            *)
LEMMA InitIInv == Init => IInv
<1> SUFFICES ASSUME Init PROVE IInv
  OBVIOUS
<1> DEFINE none == [buf |-> CHOOSE b \in Buffers : TRUE, end |-> 0, text |-> << >>]
           goal == [j \in Jobs |-> none]
           blank == [i \in 1 .. 2 * BLOCK_SIZE |-> Garbage]
<1>1. Jobs = Ctxs /\ Buffers = Ctxs \X {"user", "partial"} /\ Garbage \in Byte
      /\ MaxTotal \in Nat /\ BLOCK_SIZE \in Nat \ {0} /\ NULL \notin Ctxs
  BY CtxAssumption, CellAssumption, LaneAssumption
<1>2. << >> \in Seq(Byte) /\ Len(<< >>) = 0
  BY EmptySeq
<1>3. blank \in Seq(Byte) /\ Len(blank) = 2 * BLOCK_SIZE
  <2>1. 2 * BLOCK_SIZE \in Nat
    BY <1>1
  <2>2. blank \in [1 .. 2 * BLOCK_SIZE -> Byte]
    BY <1>1
  <2> HIDE DEF blank
  <2>3. blank \in Seq(Byte)
    BY <2>1, <2>2, SeqDef
  <2>4. QED
    BY <2>1, <2>2, <2>3, LenProperties
<1> HIDE DEF blank
<1>4. mem \in [Buffers -> Seq(Byte)]
      /\ \A c \in Ctxs : mem[User(c)] = << >> /\ mem[Partial(c)] = blank
  <2>1. mem = [b \in Buffers |-> IF b[2] = "user" THEN << >> ELSE blank]
    BY DEF Init, blank
  <2>2. \A c \in Ctxs : /\ User(c) \in Buffers /\ Partial(c) \in Buffers
                        /\ User(c)[2] = "user" /\ Partial(c)[2] # "user"
    BY <1>1 DEF User, Partial
  <2>3. QED
    BY <1>2, <1>3, <2>1, <2>2
<1>5. job \in [Jobs -> Job]
      /\ \A c \in Ctxs : job[c].status = "UNKNOWN" /\ job[c].result_digest = << >>
  <2>1. \A c \in Ctxs : At(Partial(c), 0) \in Pointer
    BY <1>1 DEF At, Partial, Pointer
  <2> DEFINE jb(c) == [ buffer |-> At(Partial(c), 0), len |-> 0,
                        status |-> "UNKNOWN", result_digest |-> << >> ]
  <2>2. ASSUME NEW c \in Ctxs
        PROVE  jb(c) \in Job /\ jb(c).status = "UNKNOWN" /\ jb(c).result_digest = << >>
    BY <1>2, <2>1 DEF Job, JobSts
  <2>3. job = [c \in Ctxs |-> jb(c)]
    BY DEF Init
  <2> HIDE DEF jb
  <2>4. QED
    BY <1>1, <2>2, <2>3
<1>6. ctx \in [Ctxs -> Ctx]
      /\ \A c \in Ctxs : /\ ctx[c].status = {"COMPLETE"} /\ ctx[c].total_length = 0
                         /\ ctx[c].incoming_buffer = 0 /\ ctx[c].incoming_buffer_length = 0
  BY <1>1 DEF Init, Ctx, CtxSts, Errors
<1>7. InPool(job) = {}
  BY <1>1, <1>5 DEF InPool
<1>8. goal \in [Jobs -> Goal]
  <2>1. CASE Ctxs = {}
    BY <1>1, <2>1
  <2>2. CASE Ctxs # {}
    <3>1. Buffers # {}
      <4>1. PICK c \in Ctxs : TRUE
        BY <2>2
      <4>2. QED
        BY <4>1, BuffersOf
    <3>2. none \in Goal
      BY <1>2, <3>1 DEF Goal
    <3>3. QED
      BY <3>2
  <2>3. QED
    BY <2>1, <2>2
<1> HIDE DEF goal
<1>9. mgr = InitManager /\ fault = FALSE
      /\ call = [pc |-> "idle", in |-> NULL, cur |-> NULL, out |-> NULL, rc |-> "NONE"]
  BY DEF Init
<1>10. Sane(mgr, mem, job, goal) /\ mgr.num_lanes_inuse < FILL
  BY <1>4, <1>5, <1>7, <1>8, <1>9, InitSane
<1>11. CallOK(call)
  BY <1>1, <1>9, CtxAssumption DEF CallOK, Errors
<1>12. ASSUME NEW c \in Ctxs
       PROVE  Stands(goal, ctx, job, mem, Resubmitting(c), c)
  <2>1. ~Resubmitting(c)
    BY <1>9 DEF Resubmitting
  <2>2. Text(job, goal, c) = << >>
    BY <1>5 DEF Text
  <2>3. Fine(c, ctx[c], job[c].status, << >>, << >>, blank)
    BY <1>1, <1>2, <1>3, <1>5, <1>6 DEF Fine, Phases
  <2>4. QED
    BY <1>4, <1>5, <1>6, <2>1, <2>2, <2>3 DEF Stands, Owned
<1>13. Good(goal)
  BY <1>6, <1>9, <1>10, <1>11, <1>12 DEF Good
<1>14. QED
  BY <1>13 DEF IInv

(* No step of a call, and no call, breaks the invariant.                   *)
LEMMA NextIInv == IInv /\ [Next]_vars => IInv'
<1> SUFFICES ASSUME IInv, [Next]_vars PROVE IInv'
  OBVIOUS
<1>1. PICK goal : Good(goal)
  BY DEF IInv
<1>2. CASE UNCHANGED vars
  <2>1. UNCHANGED <<mgr, job, fault, ctx, mem>> /\ call' = call
    BY <1>2 DEF vars
  <2>2. CallOK(call)'
    BY <1>1, <2>1, GoodTypes
  <2>3. \A i \in Ctxs : Resubmitting(i)' <=> Resubmitting(i)
    BY <2>1 DEF Resubmitting
  <2>4. QED
    BY <1>1, <2>1, <2>2, <2>3, GoodSameHands
<1>3. ASSUME NEW c \in Ctxs, NEW flags \in Flags, SubmitReject(c, flags) PROVE IInv'
  BY <1>1, <1>3, SubmitRejectStep
<1>4. ASSUME NEW c \in Ctxs, NEW flags \in Flags, NEW n \in 0 .. MaxTotal,
             SubmitAccept(c, n, flags)
      PROVE  IInv'
  BY <1>1, <1>4, SubmitAcceptStep
<1>5. CASE FlushCall
  BY <1>1, <1>5, FlushCallStep
<1>6. CASE FlushPass
  BY <1>1, <1>6, FlushPassStep
<1>7. CASE ResubmitNull
  BY <1>1, <1>7, ResubmitNullStep
<1>8. ASSUME NEW c \in Ctxs, ResubmitComplete(c) PROVE IInv'
  BY <1>1, <1>8, ResubmitCompleteStep
<1>9. ASSUME NEW c \in Ctxs, ResubmitBlocks(c) PROVE IInv'
  BY <1>1, <1>9, ResubmitBlocksStep
<1>10. ASSUME NEW c \in Ctxs, ResubmitPad(c) PROVE IInv'
  BY <1>1, <1>10, ResubmitPadStep
<1>11. ASSUME NEW c \in Ctxs, ResubmitIdle(c) PROVE IInv'
  BY <1>1, <1>11, ResubmitIdleStep
<1>12. QED
  BY <1>2, <1>3, <1>4, <1>5, <1>6, <1>7, <1>8, <1>9, <1>10, <1>11 DEF Next, Submits, Inside

-----------------------------------------------------------------------------
(* A context sits in the one lane that works for it, or in none.           *)
LEMMA LanesOfIs ==
  ASSUME NEW goal, Good(goal), NEW c \in Ctxs
  PROVE  /\ job[c].status # "BEING_PROCESSED" => LanesOf(c) = {}
         /\ job[c].status = "BEING_PROCESSED" =>
               \E l \in Lanes : LanesOf(c) = {l} /\ Midway(mgr, mem, l, goal[c])
<1>1. Sane(mgr, mem, job, goal) /\ c \in Jobs /\ c # NULL
  BY GoodTypes, CtxAssumption
<1>2. Owners(mgr, job) /\ Contents(mgr, mem, goal)
  BY <1>1 DEF Sane
<1>3. \A l \in LanesOf(c) : l \in BusyLanes(mgr) /\ mgr.job_in_lane[l] = c
  BY <1>1 DEF LanesOf, BusyLanes
<1>4. job[c].status # "BEING_PROCESSED" => LanesOf(c) = {}
  BY <1>2, <1>3 DEF Owners
<1>5. ASSUME job[c].status = "BEING_PROCESSED"
      PROVE  \E l \in Lanes : LanesOf(c) = {l} /\ Midway(mgr, mem, l, goal[c])
  <2>1. PICK l \in Lanes : mgr.job_in_lane[l] = c
    BY <1>1, <1>2, <1>5 DEF Owners
  <2>2. l \in LanesOf(c)
    BY <2>1 DEF LanesOf
  <2>3. \A k \in LanesOf(c) : k = l
    BY <1>2, <1>3, <2>2 DEF Owners
  <2>4. Midway(mgr, mem, l, goal[c])
    BY <1>2, <1>3, <2>2 DEF Contents
  <2>5. QED
    BY <2>2, <2>3, <2>4
<1>6. QED
  BY <1>4, <1>5

(* What a context absorbs by the end of its job is the goal of its job.    *)
LEMMA AbsorbedIs ==
  ASSUME NEW goal, Good(goal), NEW c \in Ctxs
  PROVE  Absorbed(c) = Text(job, goal, c)
<1>1. CASE job[c].status # "BEING_PROCESSED"
  <2>1. LanesOf(c) = {}
    BY <1>1, LanesOfIs
  <2>2. QED
    BY <1>1, <2>1 DEF Absorbed, Text
<1>2. CASE job[c].status = "BEING_PROCESSED"
  <2>1. PICK l \in Lanes : LanesOf(c) = {l} /\ Midway(mgr, mem, l, goal[c])
    BY <1>2, LanesOfIs
  <2>2. (CHOOSE k \in {l} : TRUE) = l
    OBVIOUS
  <2>3. Absorbed(c) = mgr.digest[l] \o BlocksAt(mem, mgr.data_ptr[l], mgr.lens[l].blocks)
    BY <2>1, <2>2 DEF Absorbed
  <2>4. mgr.digest[l] \o BlocksAt(mem, mgr.data_ptr[l], mgr.lens[l].blocks) = goal[c].text
    BY <2>1 DEF Midway, BlocksAt
  <2>5. QED
    BY <1>2, <2>3, <2>4 DEF Text
<1>3. QED
  BY <1>1, <1>2

LEMMA IInvTypeOK == IInv => TypeOK
<1> SUFFICES ASSUME IInv PROVE TypeOK
  OBVIOUS
<1>1. PICK goal : Good(goal)
  BY DEF IInv
<1>2. /\ mgr \in Manager /\ job \in [Ctxs -> Job] /\ fault \in BOOLEAN
      /\ ctx \in [Ctxs -> Ctx] /\ mem \in [Buffers -> Seq(Byte)] /\ CallOK(call)
  BY <1>1, GoodTypes
<1>3. ASSUME NEW c \in Ctxs
      PROVE  mem[User(c)] \in Seq(Byte) /\ DOMAIN mem[Partial(c)] = 1 .. 2 * BLOCK_SIZE
  <2>1. mem[User(c)] \in Seq(Byte) /\ mem[Partial(c)] \in Seq(Byte)
    BY <1>2, BuffersOf
  <2>2. Len(mem[Partial(c)]) = 2 * BLOCK_SIZE
    BY <1>1 DEF Good, Stands, Fine
  <2>3. DOMAIN mem[Partial(c)] = 1 .. Len(mem[Partial(c)])
    BY <2>1, LenProperties
  <2>4. QED
    BY <2>1, <2>2, <2>3
<1>4. QED
  BY <1>2, <1>3 DEF TypeOK, CallOK

LEMMA IInvOneOwner == IInv => OneOwner
<1> SUFFICES ASSUME IInv, NEW c \in Ctxs
             PROVE  Cardinality(LanesOf(c)) + (IF Resubmitting(c) THEN 1 ELSE 0)
                      = IF "PROCESSING" \in ctx[c].status THEN 1 ELSE 0
  BY DEF OneOwner
<1>1. PICK goal : Good(goal)
  BY DEF IInv
<1>2. Owned(ctx[c], job[c].status, Resubmitting(c))
  BY <1>1 DEF Good, Stands
<1>3. CASE job[c].status = "BEING_PROCESSED"
  <2>1. PICK l \in Lanes : LanesOf(c) = {l}
    BY <1>1, <1>3, LanesOfIs
  <2>2. Cardinality(LanesOf(c)) = 1
    BY <2>1, FS_Singleton
  <2>3. QED
    BY <1>2, <1>3, <2>2 DEF Owned
<1>4. CASE job[c].status # "BEING_PROCESSED"
  <2>1. Cardinality(LanesOf(c)) = 0
    BY <1>1, <1>4, LanesOfIs, FS_EmptySet
  <2>2. QED
    BY <1>2, <1>4, <2>1 DEF Owned
<1>5. QED
  BY <1>3, <1>4

LEMMA IInvNoByteLost == IInv => NoByteLost
<1> SUFFICES ASSUME IInv, NEW c \in Ctxs, job[c].status # "UNKNOWN" \/ ctx[c].total_length # 0
             PROVE  IF "COMPLETE" \in ctx[c].status
                    THEN Absorbed(c) = Service!Padded(c, ctx[c].total_length)
                    ELSE Absorbed(c) \o Kept(c) = Service!Message(c, ctx[c].total_length)
  BY DEF NoByteLost
<1>1. PICK goal : Good(goal)
  BY DEF IInv
<1>2. Fine(c, ctx[c], job[c].status, Text(job, goal, c), mem[User(c)], mem[Partial(c)])
  BY <1>1 DEF Good, Stands
<1>3. Absorbed(c) = Text(job, goal, c)
  BY <1>1, AbsorbedIs
<1>4. Kept(c) = Waits(ctx[c], mem[User(c)], mem[Partial(c)])
  BY DEF Kept, Waits
<1>5. QED
  BY <1>2, <1>3, <1>4 DEF Fine

LEMMA SpecIInv == Spec => []IInv
<1>1. Init => IInv
  BY InitIInv
<1>2. IInv /\ [Next]_vars => IInv'
  BY NextIInv
<1>3. QED
  BY <1>1, <1>2, PTL DEF Spec

(* Every step leaves well-formed states: in particular the partial block   *)
(* length, which ctx_mgr_resubmit asserts to be under a block, is.         *)
THEOREM CtxTypesHold == Spec => []TypeOK
  BY SpecIInv, IInvTypeOK, PTL

(* Whatever the order of submits and flushes, the scheduler keeps its      *)
(* bookkeeping and the kernels read only bytes the jobs may read: no lane  *)
(* reads past a user's buffer or through a pointer already handed back.    *)
THEOREM CtxNoFaultHolds == Spec => []NoFault
<1>1. IInv => NoFault
  BY DEF IInv, Good, NoFault
<1>2. QED
  BY SpecIInv, <1>1, PTL

(* A context marked as processing is in exactly one lane or in the hands   *)
(* of the running call: ctx_mgr_submit, ctx_mgr_resubmit and ctx_mgr_flush *)
(* neither forget a context nor hand back one a lane still works for.      *)
THEOREM OneOwnerHolds == Spec => []OneOwner
  BY SpecIInv, IInvOneOwner, PTL

(* The copies between user and partial block, the blocks hashed in place   *)
(* and the padding of hash_pad neither drop nor double nor reorder a byte  *)
(* of the message of any context, at any step of any call.                 *)
THEOREM NoByteLostHolds == Spec => []NoByteLost
  BY SpecIInv, IInvNoByteLost, PTL

-----------------------------------------------------------------------------
(* The state of HashService that the contexts stand for.                   *)
PhaseOf(status) ==
    CASE "PROCESSING" \notin status -> IF status = {} THEN "ready" ELSE "complete"
      [] status = {"PROCESSING"} -> "busy"
      [] OTHER -> "finishing"

DigestOf(status, t) == IF status = {"COMPLETE"} THEN t ELSE << >>

PhaseNow  == [c \in Ctxs |-> PhaseOf(ctx[c].status)]
LengthNow == [c \in Ctxs |-> ctx[c].total_length]
DigestNow == [c \in Ctxs |-> DigestOf(ctx[c].status, job[c].result_digest)]
WaitsNow  == call.out \in {SUBMITTING, FLUSHING}
FlightNow == {c \in Ctxs : PhaseNow[c] \in {"busy", "finishing"}}

(* The actions of HashService in those terms.                              *)
SameNow == PhaseNow' = PhaseNow /\ LengthNow' = LengthNow /\ DigestNow' = DigestNow

LEMMA ServiceStutter ==
  ASSUME SameNow, call'.out = call.out
  PROVE  UNCHANGED Service!serviceVars
BY DEF SameNow, PhaseNow, LengthNow, DigestNow, PhaseOf, DigestOf, Service!serviceVars

LEMMA ServiceReject ==
  ASSUME NEW c \in Ctxs, SameNow, ~WaitsNow, call'.out = c
  PROVE  Service!Reject(c)
BY DEF SameNow, PhaseNow, LengthNow, DigestNow, PhaseOf, DigestOf, WaitsNow,
       Service!Reject, Service!Waiting

LEMMA ServiceAskFlush ==
  ASSUME SameNow, ~WaitsNow, call'.out = FLUSHING
  PROVE  Service!AskFlush
BY DEF SameNow, PhaseNow, LengthNow, DigestNow, PhaseOf, DigestOf, WaitsNow,
       Service!AskFlush, Service!Waiting

LEMMA ServiceCounts ==
  ASSUME NEW S
  PROVE  Service!Cardinality(S) = Cardinality(S)
BY DEF Service!Cardinality, Cardinality

LEMMA ServiceNothing ==
  ASSUME SameNow, call'.out = NULL,
         \/ call.out = SUBMITTING /\ Cardinality(FlightNow) < FILL
         \/ call.out = FLUSHING /\ FlightNow = {}
  PROVE  Service!HandBackNothing
<1>1. FlightNow = Service!InFlight
  BY DEF FlightNow, PhaseNow, PhaseOf, Service!InFlight
<1>2. Service!Cardinality(FlightNow) = Cardinality(FlightNow)
  BY ServiceCounts
<1>3. \/ call.out = SUBMITTING /\ Service!Cardinality(Service!InFlight) < FILL
      \/ call.out = FLUSHING /\ Service!InFlight = {}
  BY <1>1, <1>2
<1>4. QED
  BY <1>3 DEF SameNow, PhaseNow, LengthNow, DigestNow, PhaseOf, DigestOf,
              Service!HandBackNothing

LEMMA ServiceAccept ==
  ASSUME NEW c \in Ctxs, NEW n \in 0 .. MaxTotal, NEW flags \in SUBSET {"FIRST", "LAST"},
         ~WaitsNow, PhaseNow[c] \in {"ready", "complete"},
         PhaseNow[c] = "complete" => "FIRST" \in flags,
         LengthNow' = [LengthNow EXCEPT ![c] = IF "FIRST" \in flags THEN n
                                               ELSE LengthNow[c] + n],
         PhaseNow' = [PhaseNow EXCEPT ![c] = IF "LAST" \in flags THEN "finishing" ELSE "busy"],
         DigestNow' = [DigestNow EXCEPT ![c] = << >>],
         call'.out = SUBMITTING
  PROVE  Service!Accept(c, n, flags)
BY DEF PhaseNow, LengthNow, DigestNow, PhaseOf, DigestOf, WaitsNow,
       Service!Accept, Service!Waiting

LEMMA ServiceHandBack ==
  ASSUME NEW c \in Ctxs, WaitsNow, call'.out = c, LengthNow' = LengthNow,
         \/ /\ PhaseNow[c] = "busy"
            /\ PhaseNow' = [PhaseNow EXCEPT ![c] = "ready"]
            /\ DigestNow' = DigestNow
         \/ /\ PhaseNow[c] = "finishing"
            /\ PhaseNow' = [PhaseNow EXCEPT ![c] = "complete"]
            /\ DigestNow' = [DigestNow EXCEPT ![c] = Service!Padded(c, LengthNow[c])]
  PROVE  Service!HandBack(c)
BY DEF PhaseNow, LengthNow, DigestNow, PhaseOf, DigestOf, WaitsNow,
       Service!HandBack, Service!Waiting

-----------------------------------------------------------------------------
(* A step that changes the context c only.                                 *)
Changes(c, status, total, t) ==
    /\ PhaseNow' = [PhaseNow EXCEPT ![c] = PhaseOf(status)]
    /\ LengthNow' = [LengthNow EXCEPT ![c] = total]
    /\ DigestNow' = [DigestNow EXCEPT ![c] = DigestOf(status, t)]

LEMMA ChangesOne ==
  ASSUME NEW c \in Ctxs, Untouched(c),
         \A i \in Ctxs \ {c} : /\ ctx'[i].status = ctx[i].status
                               /\ ctx'[i].total_length = ctx[i].total_length
  PROVE  Changes(c, ctx'[c].status, ctx'[c].total_length, job'[c].result_digest)
<1>1. ASSUME NEW i \in Ctxs, i # c
      PROVE  DigestOf(ctx'[i].status, job'[i].result_digest)
               = DigestOf(ctx[i].status, job[i].result_digest)
  <2>1. CASE "PROCESSING" \in ctx[i].status
    <3>1. ctx[i].status # {"COMPLETE"} /\ ctx'[i].status = ctx[i].status
      BY <1>1, <2>1
    <3>2. QED
      BY <3>1 DEF DigestOf
  <2>2. CASE "PROCESSING" \notin ctx[i].status
    <3>1. job'[i] = job[i] /\ ctx'[i].status = ctx[i].status
      BY <1>1, <2>2 DEF Untouched
    <3>2. QED
      BY <3>1
  <2>3. QED
    BY <2>1, <2>2
<1>2. DigestNow' = [DigestNow EXCEPT ![c] = DigestOf(ctx'[c].status, job'[c].result_digest)]
  BY <1>1 DEF DigestNow
<1>3. PhaseNow' = [PhaseNow EXCEPT ![c] = PhaseOf(ctx'[c].status)]
  BY DEF PhaseNow
<1>4. LengthNow' = [LengthNow EXCEPT ![c] = ctx'[c].total_length]
  BY DEF LengthNow
<1>5. QED
  BY <1>2, <1>3, <1>4 DEF Changes

(* No phase changes: nothing does, for the caller.                         *)
LEMMA ChangesNothing ==
  ASSUME NEW c \in Ctxs, NEW status, NEW total, NEW t, Changes(c, status, total, t),
         PhaseOf(status) = PhaseOf(ctx[c].status), total = ctx[c].total_length,
         DigestOf(status, t) = DigestOf(ctx[c].status, job[c].result_digest)
  PROVE  SameNow
<1>1. /\ PhaseNow' = [PhaseNow EXCEPT ![c] = PhaseNow[c]]
      /\ LengthNow' = [LengthNow EXCEPT ![c] = LengthNow[c]]
      /\ DigestNow' = [DigestNow EXCEPT ![c] = DigestNow[c]]
  BY DEF Changes, PhaseNow, LengthNow, DigestNow
<1>2. /\ [PhaseNow EXCEPT ![c] = PhaseNow[c]] = PhaseNow
      /\ [LengthNow EXCEPT ![c] = LengthNow[c]] = LengthNow
      /\ [DigestNow EXCEPT ![c] = DigestNow[c]] = DigestNow
  BY DEF PhaseNow, LengthNow, DigestNow
<1>3. QED
  BY <1>1, <1>2 DEF SameNow

(* The phases by the status.                                               *)
LEMMA PhaseIs ==
  /\ PhaseOf({}) = "ready"
  /\ PhaseOf({"COMPLETE"}) = "complete"
  /\ PhaseOf({"PROCESSING"}) = "busy"
  /\ PhaseOf({"PROCESSING", "LAST"}) = "finishing"
  /\ PhaseOf({"PROCESSING", "COMPLETE"}) = "finishing"
<1>1. /\ "PROCESSING" \notin {} /\ "PROCESSING" \notin {"COMPLETE"} /\ {"COMPLETE"} # {}
      /\ "PROCESSING" \in {"PROCESSING"}
      /\ "PROCESSING" \in {"PROCESSING", "LAST"} /\ {"PROCESSING", "LAST"} # {"PROCESSING"}
      /\ "PROCESSING" \in {"PROCESSING", "COMPLETE"}
      /\ {"PROCESSING", "COMPLETE"} # {"PROCESSING"}
  <2>1. "LAST" \in {"PROCESSING", "LAST"} /\ "LAST" \notin {"PROCESSING"}
    OBVIOUS
  <2>2. "COMPLETE" \in {"PROCESSING", "COMPLETE"} /\ "COMPLETE" \notin {"PROCESSING"}
    OBVIOUS
  <2>3. QED
    BY <2>1, <2>2
<1>2. QED
  BY <1>1 DEF PhaseOf

(* Unless the call has one in hand, the contexts in flight are those in a  *)
(* lane.                                                                   *)
LEMMA FlightIs ==
  ASSUME NEW goal, Good(goal), \A i \in Ctxs : ~Resubmitting(i)
  PROVE  FlightNow = InPool(job) /\ Cardinality(FlightNow) = mgr.num_lanes_inuse
<1>1. Jobs = Ctxs /\ Sane(mgr, mem, job, goal)
  BY GoodTypes, CtxAssumption
<1>2. ASSUME NEW i \in Ctxs
      PROVE  PhaseNow[i] \in {"busy", "finishing"} <=> job[i].status = "BEING_PROCESSED"
  <2>1. "PROCESSING" \in ctx[i].status <=> job[i].status = "BEING_PROCESSED"
    BY DEF Good, Stands, Owned
  <2>2. PhaseNow[i] = PhaseOf(ctx[i].status)
    BY DEF PhaseNow
  <2>3. QED
    BY <2>1, <2>2 DEF PhaseOf
<1>3. FlightNow = InPool(job)
  BY <1>1, <1>2 DEF FlightNow, InPool
<1>4. QED
  BY <1>1, <1>3, PoolSize

(* The call of the caller's that is in progress, or not.                   *)
LEMMA WaitsIs ==
  ASSUME CallOK(call)
  PROVE  WaitsNow <=> call.pc # "idle"
BY CtxAssumption DEF CallOK, WaitsNow

(* The status of the context in hand.                                      *)
LEMMA StatusInHand ==
  ASSUME NEW goal, Good(goal), NEW c \in Ctxs, Resubmitting(c)
  PROVE  /\ ctx[c].status \in {{"PROCESSING"}, {"PROCESSING", "LAST"}, {"PROCESSING", "COMPLETE"}}
         /\ WaitsNow
<1>1. /\ Stands(goal, ctx, job, mem, TRUE, c) /\ "PROCESSING" \in ctx[c].status
  BY InHand
<1>2. ctx[c].status \in Phases
  BY <1>1 DEF Stands, Fine
<1>3. WaitsNow
  BY GoodTypes, WaitsIs DEF Resubmitting
<1>4. QED
  BY <1>1, <1>2, <1>3 DEF Phases

-----------------------------------------------------------------------------
(* Each step is one of HashService's, or none.                             *)
LEMMA SubmitRejectService ==
  ASSUME NEW goal, Good(goal), NEW c \in Ctxs, NEW flags, SubmitReject(c, flags)
  PROVE  Service!Reject(c)
<1>1. /\ call.pc = "idle" /\ call'.out = c /\ job' = job
      /\ ctx' = [ctx EXCEPT ![c].error = Rejection(c, flags)]
  BY DEF SubmitReject
<1>2. ctx \in [Ctxs -> Ctx] /\ CallOK(call)
  BY GoodTypes
<1>3. ASSUME NEW i \in Ctxs
      PROVE  ctx'[i].status = ctx[i].status /\ ctx'[i].total_length = ctx[i].total_length
  BY <1>1, <1>2 DEF Ctx
<1>4. Untouched(c)
  BY <1>1 DEF Untouched
<1>5. Changes(c, ctx'[c].status, ctx'[c].total_length, job'[c].result_digest)
  BY <1>3, <1>4, ChangesOne
<1>6. SameNow
  BY <1>1, <1>3, <1>5, ChangesNothing
<1>7. ~WaitsNow
  BY <1>1, <1>2, WaitsIs
<1>8. QED
  BY <1>1, <1>6, <1>7, ServiceReject

LEMMA SubmitAcceptService ==
  ASSUME NEW goal, Good(goal), NEW c \in Ctxs, NEW n \in 0 .. MaxTotal, NEW flags \in Flags,
         SubmitAccept(c, n, flags)
  PROVE  flags \in SUBSET {"FIRST", "LAST"} /\ Service!Accept(c, n, flags)
<1> DEFINE x == Opened(c, n, flags)
           y == [x EXCEPT !.incoming_buffer = CopyLen(x),
                          !.incoming_buffer_length = n - CopyLen(x),
                          !.partial_block_buffer_length =
                                IF Full(x) THEN 0
                                ELSE x.partial_block_buffer_length + CopyLen(x)]
<1>1. /\ call.pc = "idle" /\ call'.out = SUBMITTING
      /\ Rejection(c, flags) = "NONE"
      /\ ctx' = [ctx EXCEPT ![c] = y]
  BY DEF SubmitAccept, Resume
<1>2. ctx \in [Ctxs -> Ctx] /\ CallOK(call)
  BY GoodTypes
<1>3. /\ y.status = IF "LAST" \in flags THEN {"PROCESSING", "LAST"} ELSE {"PROCESSING"}
      /\ y.total_length = IF "FIRST" \in flags THEN n ELSE ctx[c].total_length + n
  BY DEF Opened
<1> HIDE DEF y
<1>4. ctx'[c] = y /\ \A i \in Ctxs \ {c} : ctx'[i] = ctx[i]
  BY <1>1, <1>2
<1>5. Untouched(c)
  BY SubmitAcceptStep
<1>6. Changes(c, y.status, y.total_length, job'[c].result_digest)
  <2>1. Changes(c, ctx'[c].status, ctx'[c].total_length, job'[c].result_digest)
    BY <1>4, <1>5, ChangesOne
  <2>2. QED
    BY <1>4, <2>1
<1>7. /\ "OTHER" \notin flags /\ "PROCESSING" \notin ctx[c].status
      /\ "COMPLETE" \in ctx[c].status => "FIRST" \in flags
  BY <1>1 DEF Rejection
<1>8. flags \in SUBSET {"FIRST", "LAST"}
  BY <1>7 DEF Flags
<1>9. ctx[c].status \in {{}, {"COMPLETE"}}
  <2>1. ctx[c].status \in Phases
    BY DEF Good, Stands, Fine
  <2>2. QED
    BY <1>7, <2>1 DEF Phases
<1>10. /\ PhaseNow[c] \in {"ready", "complete"}
       /\ PhaseNow[c] = "complete" => "FIRST" \in flags
  <2>1. PhaseNow[c] = PhaseOf(ctx[c].status)
    BY DEF PhaseNow
  <2>2. CASE ctx[c].status = {}
    BY <2>1, <2>2, PhaseIs
  <2>3. CASE ctx[c].status = {"COMPLETE"}
    BY <1>7, <2>1, <2>3, PhaseIs
  <2>4. QED
    BY <1>9, <2>2, <2>3
<1>11. PhaseNow' = [PhaseNow EXCEPT ![c] = IF "LAST" \in flags THEN "finishing" ELSE "busy"]
  BY <1>3, <1>6, PhaseIs DEF Changes
<1>12. LengthNow' = [LengthNow EXCEPT ![c] = IF "FIRST" \in flags THEN n ELSE LengthNow[c] + n]
  BY <1>3, <1>6 DEF Changes, LengthNow
<1>13. DigestNow' = [DigestNow EXCEPT ![c] = << >>]
  <2>1. "PROCESSING" \in y.status
    BY <1>3
  <2>2. DigestOf(y.status, job'[c].result_digest) = << >>
    BY <2>1 DEF DigestOf
  <2>3. QED
    BY <1>6, <2>2 DEF Changes
<1>14. ~WaitsNow
  BY <1>1, <1>2, WaitsIs
<1>15. QED
  BY <1>1, <1>8, <1>10, <1>11, <1>12, <1>13, <1>14, ServiceAccept

LEMMA ResubmitNullService ==
  ASSUME NEW goal, Good(goal), ResubmitNull
  PROVE  Service!HandBackNothing \/ UNCHANGED Service!serviceVars
<1>1. /\ CallOK(call) /\ NULL \notin Ctxs /\ mgr.num_lanes_inuse < FILL
  BY GoodTypes, CtxAssumption
<1>2. Resubmitting(NULL) /\ UNCHANGED <<job, ctx>>
      /\ IF call.out = FLUSHING THEN call'.out = call.out ELSE call'.out = NULL
  BY <1>1 DEF ResubmitNull, Finish, CallOK
<1>3. SameNow
  BY <1>2 DEF SameNow, PhaseNow, LengthNow, DigestNow
<1>4. CASE call.out = FLUSHING
  BY <1>2, <1>3, <1>4, ServiceStutter
<1>5. CASE call.out # FLUSHING
  <2>1. \A i \in Ctxs : ~Resubmitting(i)
    BY <1>1, <1>2 DEF Resubmitting
  <2>2. Cardinality(FlightNow) < FILL
    BY <1>1, <2>1, FlightIs
  <2>3. call.out = SUBMITTING
    <3>1. WaitsNow
      BY <1>1, <1>2, WaitsIs DEF Resubmitting
    <3>2. QED
      BY <1>5, <3>1 DEF WaitsNow
  <2>4. QED
    BY <1>2, <1>3, <1>5, <2>2, <2>3, ServiceNothing
<1>6. QED
  BY <1>4, <1>5

LEMMA ResubmitCompleteService ==
  ASSUME NEW goal, Good(goal), NEW c \in Ctxs, ResubmitComplete(c)
  PROVE  Service!HandBack(c)
<1>1. /\ Resubmitting(c) /\ "COMPLETE" \in ctx[c].status
      /\ Finish(c, [ctx EXCEPT ![c].status = {"COMPLETE"}], mem)
  BY DEF ResubmitComplete
<1>2. /\ ctx \in [Ctxs -> Ctx] /\ job \in [Ctxs -> Job] /\ NULL \notin Ctxs /\ CallOK(call)
  <2>1. NULL \notin Ctxs
    BY CtxAssumption
  <2>2. QED
    BY <2>1, GoodTypes
<1>3. /\ call'.out = c
      /\ ctx' = [ctx EXCEPT ![c].status = {"COMPLETE"}, ![c].incoming_buffer = 0]
      /\ job' = [job EXCEPT ![c].buffer = At(Partial(c), 0), ![c].len = 0]
  BY <1>1, <1>2 DEF Finish, CallOK
<1>4. /\ ctx'[c].status = {"COMPLETE"} /\ ctx'[c].total_length = ctx[c].total_length
      /\ \A i \in Ctxs \ {c} : ctx'[i] = ctx[i] /\ job'[i] = job[i]
  BY <1>2, <1>3 DEF Ctx
<1>5. job'[c].result_digest = job[c].result_digest
  BY <1>2, <1>3 DEF Job
<1>6. ctx[c].status = {"PROCESSING", "COMPLETE"} /\ WaitsNow
  <2>1. /\ ctx[c].status \in {{"PROCESSING"}, {"PROCESSING", "LAST"}, {"PROCESSING", "COMPLETE"}}
        /\ WaitsNow
    BY <1>1, StatusInHand
  <2>2. QED
    BY <1>1, <2>1
<1>7. job[c].result_digest = Service!Padded(c, ctx[c].total_length)
  <2>1. /\ Stands(goal, ctx, job, mem, TRUE, c) /\ job[c].status # "BEING_PROCESSED"
    BY <1>1, InHand
  <2>2. Fine(c, ctx[c], job[c].status, job[c].result_digest, mem[User(c)], mem[Partial(c)])
    BY <2>1 DEF Stands, Text
  <2>3. ctx[c].status # {"COMPLETE"}
    BY <1>6
  <2>4. QED
    BY <1>1, <2>2, <2>3 DEF Fine
<1>8. Untouched(c)
  BY <1>4 DEF Untouched
<1>9. Changes(c, {"COMPLETE"}, ctx[c].total_length, job[c].result_digest)
  <2>1. Changes(c, ctx'[c].status, ctx'[c].total_length, job'[c].result_digest)
    BY <1>4, <1>8, ChangesOne
  <2>2. QED
    BY <1>4, <1>5, <2>1
<1>10. /\ PhaseNow[c] = "finishing"
       /\ PhaseNow' = [PhaseNow EXCEPT ![c] = "complete"]
  BY <1>6, <1>9, PhaseIs DEF PhaseNow, Changes
<1>11. LengthNow[c] = ctx[c].total_length /\ LengthNow' = LengthNow
  BY <1>9 DEF LengthNow, Changes
<1>12. DigestNow' = [DigestNow EXCEPT ![c] = Service!Padded(c, LengthNow[c])]
  BY <1>7, <1>9, <1>11 DEF Changes, DigestOf
<1>13. QED
  BY <1>3, <1>6, <1>10, <1>11, <1>12, ServiceHandBack

LEMMA ResubmitIdleService ==
  ASSUME NEW goal, Good(goal), NEW c \in Ctxs, ResubmitIdle(c)
  PROVE  Service!HandBack(c)
<1>1. /\ Resubmitting(c) /\ ctx[c].status \cap {"COMPLETE", "LAST"} = {}
      /\ Finish(c, [Taken(c) EXCEPT ![c].status = {}], MemTaken(c))
  BY DEF ResubmitIdle
<1>2. /\ job \in [Ctxs -> Job] /\ NULL \notin Ctxs /\ CallOK(call)
  <2>1. NULL \notin Ctxs
    BY CtxAssumption
  <2>2. QED
    BY <2>1, GoodTypes
<1>3. /\ Taken(c) \in [Ctxs -> Ctx]
      /\ \A i \in Ctxs \ {c} : Taken(c)[i] = ctx[i]
      /\ Taken(c)[c].total_length = ctx[c].total_length
  <2>1. TakenAll(c, "UNKNOWN")
    BY <1>1, TakenIs
  <2>2. QED
    BY <2>1 DEF TakenAll
<1>4. /\ call'.out = c
      /\ ctx' = [Taken(c) EXCEPT ![c].status = {}, ![c].incoming_buffer = 0]
      /\ job' = [job EXCEPT ![c].buffer = At(Partial(c), 0), ![c].len = 0]
  BY <1>1, <1>2, <1>3 DEF Finish, CallOK
<1>5. /\ ctx'[c].status = {} /\ ctx'[c].total_length = ctx[c].total_length
      /\ \A i \in Ctxs \ {c} : ctx'[i] = ctx[i] /\ job'[i] = job[i]
  BY <1>2, <1>3, <1>4 DEF Ctx
<1>6. ctx[c].status = {"PROCESSING"} /\ WaitsNow
  <2>1. /\ ctx[c].status \in {{"PROCESSING"}, {"PROCESSING", "LAST"}, {"PROCESSING", "COMPLETE"}}
        /\ WaitsNow
    BY <1>1, StatusInHand
  <2>2. QED
    BY <1>1, <2>1
<1>7. Untouched(c)
  BY <1>5 DEF Untouched
<1>8. Changes(c, {}, ctx[c].total_length, job'[c].result_digest)
  <2>1. Changes(c, ctx'[c].status, ctx'[c].total_length, job'[c].result_digest)
    BY <1>5, <1>7, ChangesOne
  <2>2. QED
    BY <1>5, <2>1
<1>9. /\ PhaseNow[c] = "busy"
      /\ PhaseNow' = [PhaseNow EXCEPT ![c] = "ready"]
  BY <1>6, <1>8, PhaseIs DEF PhaseNow, Changes
<1>10. LengthNow' = LengthNow
  BY <1>8 DEF LengthNow, Changes
<1>11. DigestNow' = DigestNow
  <2>1. {} # {"COMPLETE"} /\ ctx[c].status # {"COMPLETE"}
    BY <1>6
  <2>2. DigestNow[c] = << >> /\ DigestNow' = [DigestNow EXCEPT ![c] = << >>]
    BY <1>8, <2>1 DEF DigestNow, Changes, DigestOf
  <2>3. [DigestNow EXCEPT ![c] = << >>] = DigestNow
    BY <2>2 DEF DigestNow
  <2>4. QED
    BY <2>2, <2>3
<1>12. QED
  BY <1>4, <1>6, <1>9, <1>10, <1>11, ServiceHandBack

(* A job handed to the job manager is nothing the caller sees.             *)
LEMMA MgrSubmitService ==
  ASSUME NEW goal, Good(goal), NEW c \in Ctxs, Resubmitting(c), Untouched(c),
         NEW b, NEW n, NEW ctxs, NEW memory, MgrSubmit(c, b, n, call, ctxs, memory),
         \A i \in Ctxs \ {c} : ctxs[i] = ctx[i],
         ctxs[c].total_length = ctx[c].total_length,
         \/ ctxs[c].status = ctx[c].status
         \/ /\ ctx[c].status = {"PROCESSING", "LAST"}
            /\ ctxs[c].status = {"PROCESSING", "COMPLETE"}
  PROVE  UNCHANGED Service!serviceVars
<1>1. ctx' = ctxs /\ call'.out = call.out
  BY DEF MgrSubmit, Resume
<1>2. Changes(c, ctx'[c].status, ctx'[c].total_length, job'[c].result_digest)
  BY <1>1, ChangesOne
<1>3. PhaseOf(ctx'[c].status) = PhaseOf(ctx[c].status)
  BY <1>1, PhaseIs
<1>4. "PROCESSING" \in ctx[c].status /\ "PROCESSING" \in ctxs[c].status
  BY InHand
<1>5. DigestOf(ctx'[c].status, job'[c].result_digest) = DigestOf(ctx[c].status, job[c].result_digest)
  <2>1. ctx[c].status # {"COMPLETE"} /\ ctx'[c].status # {"COMPLETE"}
    BY <1>1, <1>4
  <2>2. QED
    BY <2>1 DEF DigestOf
<1>6. SameNow
  BY <1>1, <1>2, <1>3, <1>5, ChangesNothing
<1>7. QED
  BY <1>1, <1>6, ServiceStutter

LEMMA ResubmitBlocksService ==
  ASSUME NEW goal, Good(goal), NEW c \in Ctxs, ResubmitBlocks(c)
  PROVE  UNCHANGED Service!serviceVars
<1>1. /\ Resubmitting(c) /\ "COMPLETE" \notin ctx[c].status
      /\ MgrSubmit(c, At(User(c), ctx[c].incoming_buffer), Whole(c), call, Taken(c), MemTaken(c))
  BY DEF ResubmitBlocks
<1>2. TakenAll(c, "UNKNOWN")
  BY <1>1, TakenIs
<1>3. /\ \A i \in Ctxs \ {c} : Taken(c)[i] = ctx[i]
      /\ Taken(c)[c].total_length = ctx[c].total_length
      /\ Taken(c)[c].status = ctx[c].status
  BY <1>2 DEF TakenAll
<1>4. Untouched(c)
  BY ResubmitBlocksStep
<1>5. QED
  BY <1>1, <1>3, <1>4, MgrSubmitService

LEMMA ResubmitPadService ==
  ASSUME NEW goal, Good(goal), NEW c \in Ctxs, ResubmitPad(c)
  PROVE  UNCHANGED Service!serviceVars
<1> DEFINE ctxs == [Taken(c) EXCEPT ![c].status = {"PROCESSING", "COMPLETE"}]
<1>1. /\ Resubmitting(c) /\ "COMPLETE" \notin ctx[c].status /\ "LAST" \in ctx[c].status
      /\ MgrSubmit(c, At(Partial(c), 0), PadEnd(ctx[c].total_length) \div BLOCK_SIZE, call,
                   ctxs, HashPad(MemTaken(c), c, ctx[c].total_length))
  BY DEF ResubmitPad
<1>2. TakenAll(c, "UNKNOWN")
  BY <1>1, TakenIs
<1>3. /\ \A i \in Ctxs \ {c} : Taken(c)[i] = ctx[i]
      /\ Taken(c)[c].total_length = ctx[c].total_length
      /\ Taken(c) \in [Ctxs -> Ctx]
  BY <1>2 DEF TakenAll
<1>4. /\ ctxs[c].status = {"PROCESSING", "COMPLETE"}
      /\ ctxs[c].total_length = ctx[c].total_length
      /\ \A i \in Ctxs \ {c} : ctxs[i] = ctx[i]
  BY <1>3 DEF Ctx
<1> HIDE DEF ctxs
<1>5. ctx[c].status = {"PROCESSING", "LAST"}
  <2>1. ctx[c].status \in {{"PROCESSING"}, {"PROCESSING", "LAST"}, {"PROCESSING", "COMPLETE"}}
    BY <1>1, StatusInHand
  <2>2. QED
    BY <1>1, <2>1
<1>6. Untouched(c)
  BY ResubmitPadStep
<1>7. QED
  BY <1>1, <1>4, <1>5, <1>6, MgrSubmitService

LEMMA FlushCallService ==
  ASSUME NEW goal, Good(goal), FlushCall
  PROVE  Service!AskFlush
<1>1. call.pc = "idle" /\ call'.out = FLUSHING /\ UNCHANGED <<job, ctx>>
  BY DEF FlushCall
<1>2. SameNow
  BY <1>1 DEF SameNow, PhaseNow, LengthNow, DigestNow
<1>3. ~WaitsNow
  BY <1>1, GoodTypes, WaitsIs
<1>4. QED
  BY <1>1, <1>2, <1>3, ServiceAskFlush

LEMMA FlushPassService ==
  ASSUME NEW goal, Good(goal), FlushPass
  PROVE  Service!HandBackNothing \/ UNCHANGED Service!serviceVars
<1> DEFINE r == FlushJob(mgr, mem, job)
<1>1. /\ call.pc = "flush"
      /\ IF r.ret = NULL THEN Finish(NULL, ctx, mem)
         ELSE job' = r.job /\ Resume(r.ret, call, ctx, mem)
  BY DEF FlushPass
<1>2. /\ Sane(mgr, mem, job, goal) /\ mgr.num_lanes_inuse < FILL /\ CallOK(call)
      /\ Jobs = Ctxs /\ NULL \notin Ctxs
  <2>1. Jobs = Ctxs /\ NULL \notin Ctxs
    BY CtxAssumption
  <2>2. QED
    BY <2>1, GoodTypes
<1>3. Flushed(mgr, mem, job, goal, r)
  BY <1>2, FlushSane
<1> HIDE DEF r
<1>4. call.out = FLUSHING /\ \A i \in Ctxs : ~Resubmitting(i)
  BY <1>1, <1>2 DEF CallOK, Resubmitting
<1>5. CASE r.ret = NULL /\ mgr.num_lanes_inuse = 0
  <2>1. UNCHANGED <<job, ctx>> /\ call'.out = NULL
    BY <1>1, <1>2, <1>5 DEF Finish, CallOK
  <2>2. SameNow
    BY <2>1 DEF SameNow, PhaseNow, LengthNow, DigestNow
  <2>3. FlightNow = {}
    <3>1. FlightNow = InPool(job) /\ Cardinality(FlightNow) = 0
      BY <1>4, <1>5, FlightIs
    <3>2. IsFiniteSet(InPool(job))
      BY <1>2, PoolSize
    <3>3. QED
      BY <3>1, <3>2, FS_EmptySet
  <2>4. QED
    BY <1>4, <2>1, <2>2, <2>3, ServiceNothing
<1>6. CASE r.ret \in Jobs /\ Leaves(r.ret, job, r.job, goal)
  <2>1. job' = r.job /\ ctx' = ctx /\ call'.out = call.out
    BY <1>1, <1>2, <1>6 DEF Resume, CallOK
  <2>2. "PROCESSING" \in ctx[r.ret].status
    BY <1>2, <1>6 DEF Leaves, InPool, Good, Stands, Owned
  <2>3. Untouched(r.ret)
    BY <1>2, <1>6, <2>1 DEF Untouched, Leaves
  <2> DEFINE c == r.ret
  <2>4. c \in Ctxs /\ Changes(c, ctx'[c].status, ctx'[c].total_length, job'[c].result_digest)
    BY <1>2, <1>6, <2>1, <2>3, ChangesOne
  <2>5. DigestOf(ctx'[c].status, job'[c].result_digest)
          = DigestOf(ctx[c].status, job[c].result_digest)
    <3>1. ctx[c].status # {"COMPLETE"} /\ ctx'[c].status # {"COMPLETE"}
      BY <2>1, <2>2
    <3>2. QED
      BY <3>1 DEF DigestOf
  <2>6. SameNow
    BY <2>1, <2>4, <2>5, ChangesNothing
  <2>7. QED
    BY <2>1, <2>6, ServiceStutter
<1>7. QED
  BY <1>3, <1>5, <1>6 DEF Flushed

LEMMA InitService == Init => Service!Init
<1> SUFFICES ASSUME Init PROVE Service!Init
  OBVIOUS
<1>1. /\ \A c \in Ctxs : /\ ctx[c].status = {"COMPLETE"} /\ ctx[c].total_length = 0
                         /\ job[c].result_digest = << >>
      /\ call.out = NULL
  BY DEF Init
<1>2. \A c \in Ctxs : "PROCESSING" \notin ctx[c].status /\ ctx[c].status # {}
  BY <1>1
<1>3. QED
  BY <1>1, <1>2 DEF Service!Init

LEMMA NextService == IInv /\ [Next]_vars => [Service!Next]_(Service!serviceVars)
<1> SUFFICES ASSUME IInv, [Next]_vars PROVE Service!Next \/ UNCHANGED Service!serviceVars
  OBVIOUS
<1>1. PICK goal : Good(goal)
  BY DEF IInv
<1>2. CASE UNCHANGED vars
  <2>1. SameNow /\ call'.out = call.out
    BY <1>2 DEF vars, SameNow, PhaseNow, LengthNow, DigestNow
  <2>2. QED
    BY <2>1, ServiceStutter
<1>3. ASSUME NEW c \in Ctxs, NEW flags \in Flags, SubmitReject(c, flags) PROVE Service!Next
  <2>1. Service!Reject(c)
    BY <1>1, <1>3, SubmitRejectService
  <2>2. QED
    BY <2>1 DEF Service!Next
<1>4. ASSUME NEW c \in Ctxs, NEW flags \in Flags, NEW n \in 0 .. MaxTotal,
             SubmitAccept(c, n, flags)
      PROVE  Service!Next
  <2>1. flags \in SUBSET {"FIRST", "LAST"} /\ Service!Accept(c, n, flags)
    BY <1>1, <1>4, SubmitAcceptService
  <2>2. QED
    BY <2>1 DEF Service!Next
<1>5. CASE FlushCall
  <2>1. Service!AskFlush
    BY <1>1, <1>5, FlushCallService
  <2>2. QED
    BY <2>1 DEF Service!Next
<1>6. CASE FlushPass
  <2>1. Service!HandBackNothing \/ UNCHANGED Service!serviceVars
    BY <1>1, <1>6, FlushPassService
  <2>2. QED
    BY <2>1 DEF Service!Next
<1>7. CASE ResubmitNull
  <2>1. Service!HandBackNothing \/ UNCHANGED Service!serviceVars
    BY <1>1, <1>7, ResubmitNullService
  <2>2. QED
    BY <2>1 DEF Service!Next
<1>8. ASSUME NEW c \in Ctxs, ResubmitComplete(c) PROVE Service!Next
  <2>1. Service!HandBack(c)
    BY <1>1, <1>8, ResubmitCompleteService
  <2>2. QED
    BY <2>1 DEF Service!Next
<1>9. ASSUME NEW c \in Ctxs, ResubmitBlocks(c) PROVE UNCHANGED Service!serviceVars
  BY <1>1, <1>9, ResubmitBlocksService
<1>10. ASSUME NEW c \in Ctxs, ResubmitPad(c) PROVE UNCHANGED Service!serviceVars
  BY <1>1, <1>10, ResubmitPadService
<1>11. ASSUME NEW c \in Ctxs, ResubmitIdle(c) PROVE Service!Next
  <2>1. Service!HandBack(c)
    BY <1>1, <1>11, ResubmitIdleService
  <2>2. QED
    BY <2>1 DEF Service!Next
<1>12. QED
  BY <1>2, <1>3, <1>4, <1>5, <1>6, <1>7, <1>8, <1>9, <1>10, <1>11 DEF Next, Submits, Inside

(* The context layer is HashService: ctx_mgr_submit and ctx_mgr_flush hand *)
(* back a context only when the part of the message given is absorbed, a   *)
(* submit answers NULL only while fewer than FILL contexts are in flight,  *)
(* a flush only when none is, and a complete context carries the hash of   *)
(* the whole padded message.                                               *)
THEOREM ServiceSpecHolds == Spec => ServiceSpec
<1>1. Init => Service!Init
  BY InitService
<1>2. IInv /\ [Next]_vars => [Service!Next]_(Service!serviceVars)
  BY NextService
<1>3. QED
  BY <1>1, <1>2, SpecIInv, PTL DEF Spec, ServiceSpec, Service!Spec

=============================================================================
