--------------------------- MODULE LibraryProofs ----------------------------
(***************************************************************************)
(* The parts of Library compute what their standards define, for any       *)
(* sizes and however the caller cuts its data.  Each part has an invariant *)
(* of its own: what the context holds is a function of what the caller has *)
(* given so far.                                                           *)
(***************************************************************************)
EXTENDS Library, FiniteSetTheorems, SequenceTheorems, TLAPS

(* The steps of the whole are steps of the parts.                          *)
LEMMA RhPart ==
  /\ Init => RhInit
  /\ [Next]_vars => [RhNext]_rhVars
<1>1. Init => RhInit
  BY DEF Init
<1>2. [Next]_vars => [RhNext]_rhVars
  BY DEF Next, vars, BaseStep, MhStep, GcmStep, XtsStep, CbcStep, RollingStep, DispatchStep, ApiStep
<1>3. QED
  BY <1>1, <1>2

-----------------------------------------------------------------------------
(* Induction up to n, on a set.  Of a set that 0 is in and that is not     *)
(* left before n, the part without its numbers would have a least one.     *)
LEMMA UpTo ==
  ASSUME NEW n \in Nat, NEW S, 0 \in S, \A i \in 0 .. n - 1 : i \in S => i + 1 \in S
  PROVE  0 .. n \subseteq S
<1> DEFINE F    == 0 .. n
           B    == {i \in F : i \notin S}
           D(i) == {k \in B : k < i}
           T    == {D(i) : i \in B}
<1>1. SUFFICES ASSUME B # {} PROVE FALSE
  OBVIOUS
<1>2. IsFiniteSet(B)
  <2>1. IsFiniteSet(F)
    BY FS_Interval
  <2> HIDE DEF F
  <2>2. QED
    BY <2>1, FS_Subset
<1>3. IsWellFoundedOn(StrictSubsetOrdering(B), SUBSET B)
  <2> HIDE DEF B
  <2>1. QED BY <1>2, FS_StrictSubsetOrderingWellFounded, FS_FiniteSubsetsOfFinite
<1>4. T \subseteq SUBSET B /\ T # {}
  <2> HIDE DEF B
  <2>1. QED BY <1>1
<1>5. \E x \in T : \A y \in T : ~ (<<y, x>> \in StrictSubsetOrdering(B))
  <2> HIDE DEF T, B
  <2>1. QED BY <1>3, <1>4, WFMin
<1>6. PICK i \in B : \A y \in T : ~ (<<y, D(i)>> \in StrictSubsetOrdering(B))
  <2> HIDE DEF B
  <2>1. QED BY <1>5
<1>7. i - 1 \in B
  <2>1. i \in 1 .. n
    OBVIOUS
  <2>2. i - 1 \in 0 .. n - 1
    BY <2>1
  <2>3. QED
    BY <2>1, <2>2
<1>8. D(i - 1) \subseteq D(i)
  OBVIOUS
<1>9. i - 1 \in D(i) /\ i - 1 \notin D(i - 1)
  BY <1>7
<1>10. <<D(i - 1), D(i)>> \in StrictSubsetOrdering(B)
  <2>1. D(i - 1) \subseteq B /\ D(i) \subseteq B
    OBVIOUS
  <2> HIDE DEF D, B
  <2>2. QED BY <1>8, <1>9, <2>1 DEF StrictSubsetOrdering
<1>11. QED
  BY <1>6, <1>7, <1>10

(* Division: the only quotient and remainder.                              *)
LEMMA DivisionOf ==
  ASSUME NEW b \in Nat \ {0}, NEW a \in Nat
  PROVE  /\ a \div b \in Nat
         /\ a % b \in 0 .. b - 1
         /\ a = (a \div b) * b + (a % b)
  OBVIOUS

(* Parts of a sequence.                                                    *)
LEMMA PartIs ==
  ASSUME NEW S, NEW s \in Seq(S), NEW a \in Nat, NEW b \in Nat, a <= b, b <= Len(s)
  PROVE  /\ SubSeq(s, a + 1, b) \in Seq(S)
         /\ Len(SubSeq(s, a + 1, b)) = b - a
         /\ \A i \in 1 .. b - a : SubSeq(s, a + 1, b)[i] = s[a + i]
<1>1. Len(s) \in Nat
  BY LenProperties
<1>2. \A i \in a + 1 .. b : s[i] \in S
  BY <1>1, ElementOfSeq
<1>3. /\ SubSeq(s, a + 1, b) \in Seq(S)
      /\ Len(SubSeq(s, a + 1, b)) = IF a + 1 <= b THEN b - (a + 1) + 1 ELSE 0
      /\ \A i \in 1 .. b - (a + 1) + 1 : SubSeq(s, a + 1, b)[i] = s[a + 1 + i - 1]
  BY <1>2, SubSeqProperties
<1>4. (IF a + 1 <= b THEN b - (a + 1) + 1 ELSE 0) = b - a /\ b - (a + 1) + 1 = b - a
  OBVIOUS
<1>5. ASSUME NEW i \in 1 .. b - a PROVE SubSeq(s, a + 1, b)[i] = s[a + i]
  <2>1. a + 1 + i - 1 = a + i
    OBVIOUS
  <2>2. SubSeq(s, a + 1, b)[i] = s[a + 1 + i - 1]
    BY <1>3, <1>4
  <2>3. QED
    BY <2>1, <2>2
<1>6. QED
  BY <1>3, <1>4, <1>5

(* The start of one.                                                       *)
LEMMA StartIs ==
  ASSUME NEW S, NEW s \in Seq(S), NEW b \in Nat, b <= Len(s)
  PROVE  /\ SubSeq(s, 1, b) \in Seq(S)
         /\ Len(SubSeq(s, 1, b)) = b
         /\ \A i \in 1 .. b : SubSeq(s, 1, b)[i] = s[i]
<1>1. Len(s) \in Nat
  BY LenProperties
<1>2. \A i \in 1 .. b : s[i] \in S
  BY <1>1, ElementOfSeq
<1>3. /\ SubSeq(s, 1, b) \in Seq(S)
      /\ Len(SubSeq(s, 1, b)) = IF 1 <= b THEN b - 1 + 1 ELSE 0
      /\ \A i \in 1 .. b - 1 + 1 : SubSeq(s, 1, b)[i] = s[1 + i - 1]
  BY <1>2, SubSeqProperties
<1>4. (IF 1 <= b THEN b - 1 + 1 ELSE 0) = b /\ b - 1 + 1 = b
  OBVIOUS
<1>5. ASSUME NEW i \in 1 .. b PROVE SubSeq(s, 1, b)[i] = s[i]
  <2>1. 1 + i - 1 = i
    OBVIOUS
  <2>2. SubSeq(s, 1, b)[i] = s[1 + i - 1]
    BY <1>3, <1>4
  <2>3. QED
    BY <2>1, <2>2
<1>6. QED
  BY <1>3, <1>4, <1>5

(* Two parts side by side are one.                                         *)
LEMMA PartsJoin ==
  ASSUME NEW S, NEW s \in Seq(S), NEW a \in Nat, NEW b \in Nat, NEW d \in Nat,
         a <= b, b <= d, d <= Len(s)
  PROVE  SubSeq(s, a + 1, b) \o SubSeq(s, b + 1, d) = SubSeq(s, a + 1, d)
<1>1. Len(s) \in Nat
  BY LenProperties
<1>2. a + 1 \in 1 .. Len(s) + 1 /\ b \in (a + 1) - 1 .. Len(s) /\ d \in b .. Len(s)
  BY <1>1
<1>3. QED
  BY <1>2, ConcatAdjacentSubSeq

(* The sequence u is t after s.                                            *)
Joined(S, s, t, u) ==
    /\ u \in Seq(S)
    /\ Len(s) \in Nat /\ Len(t) \in Nat
    /\ Len(u) = Len(s) + Len(t)
    /\ \A i \in 1 .. Len(s) : u[i] = s[i]
    /\ \A i \in 1 .. Len(t) : u[Len(s) + i] = t[i]

LEMMA JoinIs ==
  ASSUME NEW S, NEW s \in Seq(S), NEW t \in Seq(S)
  PROVE  Joined(S, s, t, s \o t)
<1>1. Len(s) \in Nat /\ Len(t) \in Nat
  BY LenProperties
<1>2. /\ s \o t \in Seq(S) /\ Len(s \o t) = Len(s) + Len(t)
      /\ \A i \in 1 .. Len(s) + Len(t) :
             (s \o t)[i] = IF i <= Len(s) THEN s[i] ELSE t[i - Len(s)]
  BY ConcatProperties
<1>3. \A i \in 1 .. Len(s) : i \in 1 .. Len(s) + Len(t) /\ i <= Len(s)
  BY <1>1
<1>4. \A i \in 1 .. Len(t) :
          /\ Len(s) + i \in 1 .. Len(s) + Len(t)
          /\ ~ (Len(s) + i <= Len(s))
          /\ (Len(s) + i) - Len(s) = i
  BY <1>1
<1>5. \A i \in 1 .. Len(s) : (s \o t)[i] = s[i]
  BY <1>2, <1>3
<1>6. \A i \in 1 .. Len(t) : (s \o t)[Len(s) + i] = t[i]
  BY <1>2, <1>4
<1>7. QED
  BY <1>1, <1>2, <1>5, <1>6 DEF Joined

LEMMA OneIs ==
  ASSUME NEW S, NEW e \in S
  PROVE  <<e>> \in Seq(S) /\ Len(<<e>>) = 1 /\ <<e>>[1] = e
  OBVIOUS

-----------------------------------------------------------------------------
(* Rolling hash.  The hash in the state is that of the window, and the     *)
(* window is the last w bytes of what the runs have taken.                 *)
WindowsOf(w) == [1 .. w -> RhByte]

(* Byte k of the window after n bytes of the buffer.                       *)
SlideByte(window, w, buffer, n, k) == IF n + k <= w THEN window[n + k] ELSE buffer[n + k - w]

LEMMA SameWindow ==
  ASSUME NEW w \in Nat, NEW a \in WindowsOf(w), NEW b \in WindowsOf(w),
         \A k \in 1 .. w : a[k] = b[k]
  PROVE  a = b
  BY DEF WindowsOf

LEMMA SlideIs ==
  ASSUME NEW w \in Nat, NEW window \in WindowsOf(w), NEW buffer \in Seq(RhByte),
         NEW n \in 0 .. Len(buffer)
  PROVE  /\ Slide(window, buffer, n) \in WindowsOf(w)
         /\ \A k \in 1 .. w : Slide(window, buffer, n)[k] = SlideByte(window, w, buffer, n, k)
<1> DEFINE taken == SubSeq(buffer, 1, n)
           all   == window \o taken
<1>1. window \in Seq(RhByte) /\ Len(window) = w
  BY DEF WindowsOf
<1>2. taken \in Seq(RhByte) /\ Len(taken) = n /\ \A i \in 1 .. n : taken[i] = buffer[i]
  <2>1. n \in Nat /\ n <= Len(buffer)
    BY LenProperties
  <2>2. QED
    BY <2>1, StartIs
<1>3. /\ all \in Seq(RhByte) /\ Len(all) = w + n
      /\ \A i \in 1 .. w + n : all[i] = IF i <= w THEN window[i] ELSE taken[i - w]
  <2> HIDE DEF taken
  <2>1. QED BY <1>1, <1>2, ConcatProperties
<1>4. /\ SubSeq(all, n + 1, n + w) \in Seq(RhByte)
      /\ Len(SubSeq(all, n + 1, n + w)) = w
      /\ \A k \in 1 .. w : SubSeq(all, n + 1, n + w)[k] = all[n + k]
  <2> HIDE DEF all
  <2>1. n + w - n = w /\ n <= n + w /\ n + w <= Len(all) /\ n \in Nat /\ n + w \in Nat
    BY <1>3, <1>2, LenProperties
  <2>2. QED
    BY <1>3, <2>1, PartIs
<1>5. \A k \in 1 .. w : all[n + k] = SlideByte(window, w, buffer, n, k)
  <2> HIDE DEF all, taken
  <2>1. n \in Nat /\ n <= Len(buffer)
    BY LenProperties
  <2>2. ASSUME NEW k \in 1 .. w PROVE all[n + k] = SlideByte(window, w, buffer, n, k)
    <3>1. n + k \in 1 .. w + n
      BY <2>1
    <3>2. CASE n + k <= w
      BY <1>3, <3>1, <3>2 DEF SlideByte
    <3>3. CASE n + k > w
      <4>1. (n + k) - w \in 1 .. n /\ ~(n + k <= w)
        BY <2>1, <3>1, <3>3
      <4>2. all[n + k] = taken[(n + k) - w]
        BY <1>3, <3>1, <4>1
      <4>3. QED
        BY <1>2, <4>1, <4>2 DEF SlideByte
    <3>4. QED
      BY <2>1, <3>2, <3>3
  <2>3. QED
    BY <2>2
<1>6. Slide(window, buffer, n) = SubSeq(all, n + 1, n + w)
  BY <1>1 DEF Slide
<1> HIDE DEF all, taken
<1>7. Slide(window, buffer, n) \in WindowsOf(w)
  BY <1>4, <1>6, LenProperties DEF WindowsOf
<1>8. QED
  BY <1>4, <1>5, <1>6, <1>7

(* Windows of the allowed widths have different hashes: the entry rotated  *)
(* furthest tells the width, and each rotation its byte.                   *)
LEMMA HashEntries ==
  ASSUME NEW w \in 1 .. ROTATION - 1, NEW window \in WindowsOf(w)
  PROVE  /\ HashOf(window) = {<<window[i], w - i>> : i \in 1 .. w}
<1>1. Len(window) = w /\ ROTATION \in Nat
  BY RhAssumption DEF WindowsOf
<1>2. \A i \in 1 .. w : Entry(window[i], w - i) = <<window[i], w - i>>
  <2>1. ASSUME NEW i \in 1 .. w PROVE (w - i) % ROTATION = w - i
    BY <1>1
  <2>2. QED
    BY <2>1 DEF Entry
<1>3. QED
  BY <1>1, <1>2 DEF HashOf

LEMMA HashTells ==
  ASSUME NEW v \in 1 .. ROTATION - 1, NEW w \in 1 .. ROTATION - 1,
         NEW a \in WindowsOf(v), NEW b \in WindowsOf(w), HashOf(a) = HashOf(b)
  PROVE  a = b
<1>1. /\ {<<a[i], v - i>> : i \in 1 .. v} = {<<b[i], w - i>> : i \in 1 .. w}
      /\ v \in Int /\ w \in Int
  BY HashEntries, RhAssumption
<1>2. \A i \in 1 .. v : \E j \in 1 .. w : a[i] = b[j] /\ v - i = w - j
  <2>1. ASSUME NEW i \in 1 .. v PROVE \E j \in 1 .. w : <<a[i], v - i>> = <<b[j], w - j>>
    BY <1>1
  <2>2. QED
    BY <2>1
<1>3. \A i \in 1 .. w : \E j \in 1 .. v : b[i] = a[j] /\ w - i = v - j
  <2>1. ASSUME NEW i \in 1 .. w PROVE \E j \in 1 .. v : <<b[i], w - i>> = <<a[j], v - j>>
    BY <1>1
  <2>2. QED
    BY <2>1
<1>4. v = w
  <2>1. \E j \in 1 .. w : v - 1 = w - j
    BY <1>1, <1>2
  <2>2. \E j \in 1 .. v : w - 1 = v - j
    BY <1>1, <1>3
  <2>3. QED
    BY <1>1, <2>1, <2>2
<1>5. \A i \in 1 .. v : a[i] = b[i]
  <2>1. ASSUME NEW i \in 1 .. v PROVE a[i] = b[i]
    <3>1. PICK j \in 1 .. w : a[i] = b[j] /\ v - i = w - j
      BY <1>2
    <3>2. i = j
      BY <1>4, <1>1, <3>1
    <3>3. QED
      BY <3>1, <3>2
  <2>2. QED
    BY <2>1
<1>6. QED
  BY <1>4, <1>5 DEF WindowsOf

(* hash_fn moves the window on by a byte.                                  *)
LEMMA HashMoves ==
  ASSUME NEW w \in 1 .. ROTATION - 1, NEW window \in WindowsOf(w), NEW after \in WindowsOf(w),
         NEW new \in RhByte, after[w] = new,
         \A k \in 1 .. w - 1 : after[k] = window[k + 1]
  PROVE  hash_fn(w, HashOf(window), new, window[1]) = HashOf(after)
<1> DEFINE old   == window[1]
           moved == {<<window[i], w - i + 1>> : i \in 1 .. w}
<1>1. ROTATION \in Nat /\ w \in Nat /\ w >= 1 /\ w < ROTATION
  BY RhAssumption
<1>2. /\ HashOf(window) = {<<window[i], w - i>> : i \in 1 .. w}
      /\ HashOf(after) = {<<after[i], w - i>> : i \in 1 .. w}
  BY HashEntries
<1>3. {Entry(t[1], t[2] + 1) : t \in HashOf(window)} = moved
  <2>1. \A i \in 1 .. w : Entry(window[i], (w - i) + 1) = <<window[i], w - i + 1>>
    <3>1. ASSUME NEW i \in 1 .. w PROVE ((w - i) + 1) % ROTATION = w - i + 1
      BY <1>1
    <3>2. QED
      BY <3>1 DEF Entry
  <2>2. {Entry(t[1], t[2] + 1) : t \in HashOf(window)}
            = {Entry(window[i], (w - i) + 1) : i \in 1 .. w}
    <3>1. \A i \in 1 .. w : <<window[i], w - i>>[1] = window[i] /\ <<window[i], w - i>>[2] = w - i
      OBVIOUS
    <3>2. {Entry(t[1], t[2] + 1) : t \in {<<window[i], w - i>> : i \in 1 .. w}}
              = {Entry(window[i], (w - i) + 1) : i \in 1 .. w}
      <4> DEFINE F(t) == Entry(t[1], t[2] + 1)
                 P(i) == <<window[i], w - i>>
      <4>1. \A i \in 1 .. w : F(P(i)) = Entry(window[i], (w - i) + 1)
        BY <3>1
      <4> HIDE DEF F, P
      <4>2. {F(t) : t \in {P(i) : i \in 1 .. w}} = {F(P(i)) : i \in 1 .. w}
        OBVIOUS
      <4>3. {F(P(i)) : i \in 1 .. w} = {Entry(window[i], (w - i) + 1) : i \in 1 .. w}
        BY <4>1
      <4>4. QED
        BY <4>2, <4>3 DEF F, P
    <3>3. QED
      BY <1>2, <3>2
  <2>3. QED
    BY <2>1, <2>2
<1>4. Entry(new, 0) = <<new, 0>> /\ Entry(old, w) = <<old, w>>
  <2>1. 0 % ROTATION = 0 /\ w % ROTATION = w
    BY <1>1
  <2>2. QED
    BY <2>1 DEF Entry
<1>5. SymDiff({<<new, 0>>}, {<<old, w>>}) = {<<new, 0>>, <<old, w>>}
  <2>1. <<new, 0>> # <<old, w>>
    BY <1>1
  <2>2. QED
    BY <2>1 DEF SymDiff
<1>6. SymDiff(moved, {<<new, 0>>, <<old, w>>}) = {<<after[i], w - i>> : i \in 1 .. w}
  <2>1. <<new, 0>> \notin moved
    BY <1>1
  <2>2. <<old, w>> \in moved
    BY <1>1
  <2>3. \A i \in 1 .. w : <<window[i], w - i + 1>> = <<old, w>> <=> i = 1
    BY <1>1
  <2>4. moved \ {<<old, w>>} = {<<window[i], w - i + 1>> : i \in 2 .. w}
    BY <1>1, <2>3
  <2>5. {<<window[i], w - i + 1>> : i \in 2 .. w} = {<<after[i], w - i>> : i \in 1 .. w - 1}
    <3>1. ASSUME NEW i \in 2 .. w
          PROVE  i - 1 \in 1 .. w - 1 /\ <<window[i], w - i + 1>> = <<after[i - 1], w - (i - 1)>>
      BY <1>1
    <3>2. ASSUME NEW i \in 1 .. w - 1
          PROVE  i + 1 \in 2 .. w /\ <<after[i], w - i>> = <<window[i + 1], w - (i + 1) + 1>>
      BY <1>1
    <3>3. QED
      BY <3>1, <3>2
  <2>6. {<<after[i], w - i>> : i \in 1 .. w} = {<<after[i], w - i>> : i \in 1 .. w - 1} \cup {<<new, 0>>}
    BY <1>1
  <2> HIDE DEF moved, old
  <2>7. SymDiff(moved, {<<new, 0>>, <<old, w>>}) = (moved \ {<<old, w>>}) \cup {<<new, 0>>}
    BY <2>1, <2>2 DEF SymDiff
  <2>8. QED
    BY <2>4, <2>5, <2>6, <2>7
<1>7. QED
  BY <1>2, <1>3, <1>4, <1>5, <1>6 DEF hash_fn

(* The byte that leaves the window with byte i is its first.               *)
LEMMA LeavesFirst ==
  ASSUME NEW w \in Nat \ {0}, NEW s, NEW buffer \in Seq(RhByte), NEW i \in 1 .. Len(buffer),
         s.w = w, s.history \in WindowsOf(w)
  PROVE  /\ Leaving(s, buffer, i) = Slide(s.history, buffer, i - 1)[1]
         /\ buffer[i] = Slide(s.history, buffer, i)[w]
         /\ \A k \in 1 .. w - 1 :
                Slide(s.history, buffer, i)[k] = Slide(s.history, buffer, i - 1)[k + 1]
<1>1. i \in 0 .. Len(buffer) /\ i - 1 \in 0 .. Len(buffer) /\ i \in Int
  BY LenProperties
<1>2. \A k \in 1 .. w : Slide(s.history, buffer, i)[k] = SlideByte(s.history, w, buffer, i, k)
  BY <1>1, SlideIs
<1>3. \A k \in 1 .. w : Slide(s.history, buffer, i - 1)[k] = SlideByte(s.history, w, buffer, i - 1, k)
  BY <1>1, SlideIs
<1>4. \A k \in 1 .. w - 1 :
          SlideByte(s.history, w, buffer, i, k) = SlideByte(s.history, w, buffer, i - 1, k + 1)
  <2>1. ASSUME NEW k \in 1 .. w - 1
        PROVE  SlideByte(s.history, w, buffer, i, k) = SlideByte(s.history, w, buffer, i - 1, k + 1)
    <3>1. (i - 1) + (k + 1) = i + k
      BY <1>1
    <3>2. QED
      BY <3>1 DEF SlideByte
  <2>2. QED
    BY <2>1
<1>5. SlideByte(s.history, w, buffer, i, w) = buffer[i]
  <2>1. ~ (i + w <= w) /\ i + w - w = i
    BY <1>1
  <2>2. QED
    BY <2>1 DEF SlideByte
<1>6. SlideByte(s.history, w, buffer, i - 1, 1) = Leaving(s, buffer, i)
  <2>1. (i - 1) + 1 = i
    BY <1>1
  <2>2. QED
    BY <2>1 DEF SlideByte, Leaving
<1>7. QED
  BY <1>2, <1>3, <1>4, <1>5, <1>6

(* So every hash a run computes is that of its window.                     *)
LEMMA HashesAre ==
  ASSUME NEW w \in 1 .. ROTATION - 1, NEW s, NEW buffer \in Seq(RhByte),
         s.w = w, s.history \in WindowsOf(w), s.hash = HashOf(s.history)
  PROVE  \A i \in 0 .. Len(buffer) : Hashes(s, buffer)[i] = HashOf(Slide(s.history, buffer, i))
<1> DEFINE n        == Len(buffer)
           At(i)    == HashOf(Slide(s.history, buffer, i))
           Step(h, i) == IF i = 0 THEN s.hash
                         ELSE hash_fn(s.w, h[i - 1], buffer[i], Leaving(s, buffer, i))
           g        == [i \in 0 .. n |-> At(i)]
           H(h)     == h = [i \in 0 .. n |-> Step(h, i)]
<1>1. n \in Nat /\ w \in Nat \ {0}
  BY LenProperties, RhAssumption
<1>2. At(0) = s.hash
  <2>1. 0 \in 0 .. Len(buffer)
    BY <1>1
  <2> DEFINE z == 0
  <2>2. \A k \in 1 .. w : SlideByte(s.history, w, buffer, z, k) = s.history[k]
    BY <1>1 DEF SlideByte
  <2>3. z \in 0 .. Len(buffer)
    BY <1>1
  <2> HIDE DEF z
  <2>4. /\ Slide(s.history, buffer, z) \in WindowsOf(w)
        /\ \A k \in 1 .. w : Slide(s.history, buffer, z)[k] = s.history[k]
    BY <1>1, <2>2, <2>3, SlideIs
  <2>5. Slide(s.history, buffer, z) = s.history
    BY <2>4 DEF WindowsOf
  <2> USE DEF z
  <2>6. QED
    BY <2>5
<1>3. \A i \in 1 .. n : hash_fn(s.w, At(i - 1), buffer[i], Leaving(s, buffer, i)) = At(i)
  <2>1. ASSUME NEW i \in 1 .. n
        PROVE  hash_fn(s.w, At(i - 1), buffer[i], Leaving(s, buffer, i)) = At(i)
    <3>1. i \in 0 .. Len(buffer) /\ i - 1 \in 0 .. Len(buffer) /\ buffer[i] \in RhByte
      BY <1>1, ElementOfSeq
    <3>2. /\ Slide(s.history, buffer, i) \in WindowsOf(w)
          /\ Slide(s.history, buffer, i - 1) \in WindowsOf(w)
      BY <1>1, <3>1, SlideIs
    <3>3. /\ Leaving(s, buffer, i) = Slide(s.history, buffer, i - 1)[1]
          /\ buffer[i] = Slide(s.history, buffer, i)[w]
          /\ \A k \in 1 .. w - 1 :
                 Slide(s.history, buffer, i)[k] = Slide(s.history, buffer, i - 1)[k + 1]
      BY <1>1, LeavesFirst
    <3>4. hash_fn(w, At(i - 1), buffer[i], Slide(s.history, buffer, i - 1)[1]) = At(i)
      BY <3>1, <3>2, <3>3, HashMoves
    <3>5. QED
      BY <3>3, <3>4
  <2>2. QED
    BY <2>1
<1>4. H(g)
  <2>1. \A i \in 0 .. n : Step(g, i) = At(i)
    <3>1. ASSUME NEW i \in 0 .. n PROVE Step(g, i) = At(i)
      <4>1. CASE i = 0
        BY <1>2, <4>1
      <4>2. CASE i # 0
        <5>1. i \in 1 .. n /\ i - 1 \in 0 .. n
          BY <1>1, <4>2
        <5> HIDE DEF At
        <5>2. g[i - 1] = At(i - 1)
          BY <5>1
        <5> HIDE DEF g
        <5>3. QED
          BY <1>3, <4>2, <5>1, <5>2
      <4>3. QED
        BY <4>1, <4>2
    <3>2. QED
      BY <3>1
  <2> HIDE DEF Step, At
  <2>2. QED
    BY <2>1
<1>5. Hashes(s, buffer) = CHOOSE h : H(h)
  BY DEF Hashes
<1>6. H(Hashes(s, buffer))
  <2> HIDE DEF H, g
  <2>1. QED BY <1>4, <1>5
<1>7. 0 .. n \subseteq {i \in 0 .. n : Hashes(s, buffer)[i] = At(i)}
  <2> DEFINE h == Hashes(s, buffer)
             S == {i \in 0 .. n : h[i] = At(i)}
  <2>1. \A i \in 0 .. n : h[i] = Step(h, i)
    BY <1>6
  <2>2. 0 \in S
    BY <1>1, <1>2, <2>1
  <2>3. ASSUME NEW i \in 0 .. n - 1, i \in S PROVE i + 1 \in S
    <3>1. i + 1 \in 1 .. n /\ i + 1 \in 0 .. n /\ i + 1 # 0 /\ (i + 1) - 1 = i
      BY <1>1
    <3>2. h[i + 1] = Step(h, i + 1)
      BY <2>1, <3>1
    <3>3. h[i] = At(i)
      BY <2>3
    <3>4. hash_fn(s.w, At(i), buffer[i + 1], Leaving(s, buffer, i + 1)) = At(i + 1)
      <4> HIDE DEF At
      <4>1. QED BY <1>3, <3>1
    <3>5. Step(h, i + 1) = hash_fn(s.w, h[i], buffer[i + 1], Leaving(s, buffer, i + 1))
      <4> HIDE DEF h
      <4>1. QED BY <3>1
    <3> HIDE DEF h, At, Step
    <3>6. h[i + 1] = At(i + 1)
      BY <3>2, <3>3, <3>4, <3>5
    <3>7. QED
      BY <3>1, <3>6
  <2> HIDE DEF S
  <2>4. 0 .. n \subseteq S
    BY <1>1, <2>2, <2>3, UpTo
  <2>5. QED
    BY <2>4 DEF S
<1>8. QED
  BY <1>7
(* A set of numbers has a least one.                                       *)
LEMMA LeastOf ==
  ASSUME NEW K \in SUBSET Nat, K # {}
  PROVE  \E i \in K : \A k \in K : i <= k
<1>1. PICK n \in K : TRUE
  OBVIOUS
<1>2. SUFFICES ASSUME \A i \in K : \E k \in K : k < i PROVE FALSE
  OBVIOUS
<1> DEFINE S == {i \in Nat : \A k \in K : k > i}
<1>3. 0 \in S
  <2>1. 0 \notin K
    BY <1>2
  <2>2. QED
    BY <2>1
<1>4. ASSUME NEW i \in 0 .. n - 1, i \in S PROVE i + 1 \in S
  <2>1. \A k \in K : k >= i + 1
    BY <1>4
  <2>2. i + 1 \notin K
    BY <1>2, <2>1
  <2>3. QED
    BY <2>1, <2>2
<1>5. n \in S
  <2> HIDE DEF S
  <2>1. 0 .. n \subseteq S
    BY <1>3, <1>4, UpTo
  <2>2. QED
    BY <2>1
<1>6. QED
  BY <1>5

(* What a run keeps is the window after its last byte.                     *)
LEMMA KeptIs ==
  ASSUME NEW w \in Nat \ {0}, NEW s, NEW buffer \in Seq(RhByte), NEW n \in 0 .. Len(buffer),
         s.w = w, s.history \in WindowsOf(w)
  PROVE  Kept(s, buffer, n) = Slide(s.history, buffer, n)
<1>1. /\ Slide(s.history, buffer, n) \in WindowsOf(w)
      /\ \A k \in 1 .. w : Slide(s.history, buffer, n)[k] = SlideByte(s.history, w, buffer, n, k)
  BY SlideIs
<1>2. n \in Nat /\ n <= Len(buffer) /\ Len(buffer) \in Nat
  BY LenProperties
<1>3. s.history \in Seq(RhByte) /\ Len(s.history) = w
  BY DEF WindowsOf
<1>4. CASE n <= w
  <2> DEFINE a == SubSeq(s.history, n + 1, w)
             b == SubSeq(buffer, 1, n)
  <2>1. a \in Seq(RhByte) /\ Len(a) = w - n /\ \A i \in 1 .. w - n : a[i] = s.history[n + i]
    <3>1. n \in Nat /\ w \in Nat /\ n <= w /\ w <= Len(s.history)
      BY <1>2, <1>3, <1>4
    <3>2. QED
      BY <1>3, <3>1, PartIs, SMTT(30)
  <2>2. b \in Seq(RhByte) /\ Len(b) = n /\ \A i \in 1 .. n : b[i] = buffer[i]
    BY <1>2, StartIs
  <2>3. Kept(s, buffer, n) = a \o b
    BY <1>4 DEF Kept
  <2> HIDE DEF a, b
  <2>4. /\ a \o b \in Seq(RhByte) /\ Len(a \o b) = Len(a) + Len(b)
        /\ \A k \in 1 .. Len(a) + Len(b) :
                (a \o b)[k] = IF k <= Len(a) THEN a[k] ELSE b[k - Len(a)]
    BY <2>1, <2>2, ConcatProperties
  <2>5. ASSUME NEW k \in 1 .. w PROVE (a \o b)[k] = SlideByte(s.history, w, buffer, n, k)
    <3>1. CASE n + k <= w
      <4>1. k \in 1 .. w - n /\ k <= Len(a) /\ k \in 1 .. Len(a) + Len(b)
        BY <1>2, <2>1, <2>2, <3>1
      <4>2. QED
        BY <2>1, <2>4, <3>1, <4>1 DEF SlideByte
    <3>2. CASE ~ (n + k <= w)
      <4>1. /\ k - Len(a) \in 1 .. n /\ k - Len(a) = n + k - w /\ ~ (k <= Len(a))
            /\ k \in 1 .. Len(a) + Len(b)
        BY <1>2, <1>4, <2>1, <2>2, <3>2
      <4>2. QED
        BY <2>2, <2>4, <3>2, <4>1 DEF SlideByte
    <3>3. QED
      BY <3>1, <3>2
  <2>6. a \o b \in WindowsOf(w)
    <3>1. Len(a \o b) = w
      BY <1>2, <2>1, <2>2, <2>4
    <3>2. QED
      BY <2>4, <3>1, LenProperties DEF WindowsOf
  <2>7. QED
    BY <1>1, <2>3, <2>5, <2>6 DEF WindowsOf
<1>5. CASE n > w
  <2> DEFINE a == SubSeq(buffer, (n - w) + 1, n)
  <2>1. n - w \in Nat /\ n - w <= n /\ n - (n - w) = w
    BY <1>2, <1>5
  <2>2. a \in Seq(RhByte) /\ Len(a) = w /\ \A i \in 1 .. w : a[i] = buffer[(n - w) + i]
    BY <1>2, <2>1, PartIs
  <2>3. Kept(s, buffer, n) = a
    BY <1>2, <1>5 DEF Kept
  <2> HIDE DEF a
  <2>4. ASSUME NEW k \in 1 .. w PROVE a[k] = SlideByte(s.history, w, buffer, n, k)
    <3>1. ~ (n + k <= w) /\ n + k - w = (n - w) + k
      BY <1>2, <1>5
    <3>2. QED
      BY <2>2, <3>1 DEF SlideByte
  <2>5. a \in WindowsOf(w)
    BY <2>2, LenProperties DEF WindowsOf
  <2>6. QED
    BY <1>1, <2>3, <2>4, <2>5 DEF WindowsOf
<1>6. QED
  BY <1>2, <1>4, <1>5

RhShape(s, w) ==
    /\ s = [w |-> w, history |-> s.history, hash |-> s.hash]
    /\ s.history \in WindowsOf(w)

(* How the loops leave a buffer: after n bytes, and past the end of it or  *)
(* not.                                                                    *)
RunAt(s, w, buffer, behind, n, past) ==
    LET r   == Run(s, buffer, behind)
        h   == Hashes(s, buffer)
        len == Len(buffer)
    IN  /\ r.offset = IF past THEN n + 1 ELSE n
        /\ r.ret \in {"HIT", "MAX"}
        /\ r.state = [ w       |-> w,
                       history |-> IF past THEN Kept(s, Append(buffer, behind), n + 1)
                                   ELSE Kept(s, buffer, n),
                       hash    |-> h[n] ]
        /\ \A k \in 1 .. n - 1 : ~Hits(h[k])
        /\ r.ret = "HIT" => n > 0 /\ Hits(h[n])
        /\ r.ret = "MAX" => /\ n > 0 => ~Hits(h[n])
                            /\ n = len \/ (rhLoop = "base" /\ len >= INT_LIMIT)
        /\ past => /\ r.ret = "HIT" /\ rhLoop = "x86"
                   /\ n = len /\ len > w /\ (len - w) % 2 = 1

(* The bytes the loops look at are all of the buffer, except in C when its *)
(* length is a negative int.                                               *)
LEMMA ReachIs ==
  ASSUME NEW w \in RhWindows, NEW len \in 0 .. RhMaxBuffer, rhLoop \in RhLoops
  PROVE  /\ Reach(rhLoop, w, len) \in 0 .. len
         /\ Reach(rhLoop, w, len) = len \/ (rhLoop = "base" /\ len >= INT_LIMIT)
<1>1. /\ w \in Nat /\ w < INT_LIMIT /\ w >= 1 /\ INT_LIMIT \in Nat /\ len \in Nat
      /\ len < 2 * INT_LIMIT /\ rhLoop \in {"base", "x86"}
  BY RhAssumption
<1>2. CASE len <= w \/ rhLoop = "x86"
  BY <1>1, <1>2 DEF Reach
<1>3. CASE ~(len <= w \/ rhLoop = "x86")
  <2>1. rhLoop = "base" /\ len > w
    BY <1>1, <1>3
  <2>2. Reach(rhLoop, w, len) = IF Signed(len) < w THEN w ELSE Signed(len)
    BY <1>3 DEF Reach
  <2>3. CASE len < INT_LIMIT
    BY <1>1, <2>1, <2>2, <2>3 DEF Signed
  <2>4. CASE ~(len < INT_LIMIT)
    <3>1. Signed(len) < w
      BY <1>1, <2>4 DEF Signed
    <3>2. QED
      BY <1>1, <2>1, <2>2, <2>4, <3>1
  <2>5. QED
    BY <2>3, <2>4
<1>4. QED
  BY <1>2, <1>3

LEMMA RunEnds ==
  ASSUME rhLoop \in RhLoops, NEW w \in RhWindows, NEW s, s.w = w,
         NEW buffer \in Seq(RhByte), Len(buffer) <= RhMaxBuffer, NEW behind
  PROVE  \E n \in 0 .. Len(buffer) : \E past \in BOOLEAN : RunAt(s, w, buffer, behind, n, past)
<1> DEFINE r     == Run(s, buffer, behind)
           h     == Hashes(s, buffer)
           reach == Reach(rhLoop, w, Len(buffer))
           found == {i \in 1 .. reach : Hits(h[i])}
           n     == IF found = {} THEN reach
                    ELSE CHOOSE i \in found : \A k \in found : i <= k
           past  == found # {} /\ PastEnd(rhLoop, w, Len(buffer), n)
<1>1. Len(buffer) \in 0 .. RhMaxBuffer /\ Len(buffer) \in Nat
  BY LenProperties, RhAssumption
<1>2. /\ reach \in 0 .. Len(buffer)
      /\ reach = Len(buffer) \/ (rhLoop = "base" /\ Len(buffer) >= INT_LIMIT)
  BY <1>1, ReachIs
<1>3. /\ r.offset = IF past THEN n + 1 ELSE n
      /\ r.ret = IF found = {} THEN "MAX" ELSE "HIT"
      /\ r.state = [ w |-> w, history |-> IF past THEN Kept(s, Append(buffer, behind), n + 1)
                                          ELSE Kept(s, buffer, n),
                     hash |-> h[n] ]
  BY DEF Run
<1>4. past => /\ found # {} /\ rhLoop = "x86" /\ n = Len(buffer) /\ Len(buffer) > w
              /\ (Len(buffer) - w) % 2 = 1
  <2> HIDE DEF n, found
  <2>1. QED BY DEF PastEnd
<1>5. past \in BOOLEAN
  OBVIOUS
<1> HIDE DEF reach, past, r
<1>6. /\ n \in 0 .. Len(buffer)
      /\ \A k \in 1 .. n - 1 : ~Hits(h[k])
      /\ found # {} => n > 0 /\ Hits(h[n])
      /\ found = {} => n = reach /\ (n > 0 => ~Hits(h[n]))
  <2>1. CASE found = {}
    <3>1. n = reach /\ \A k \in 1 .. reach : k \notin found
      BY <2>1
    <3>2. \A k \in 1 .. reach : ~Hits(h[k])
      <4> HIDE DEF h, n
      <4>1. QED BY <3>1
    <3> HIDE DEF found, h, n
    <3>3. QED
      BY <1>1, <1>2, <2>1, <3>1, <3>2
  <2>2. CASE found # {}
    <3>1. found \in SUBSET Nat /\ found \subseteq 1 .. reach
      BY <1>1, <1>2
    <3> HIDE DEF found
    <3>2. \E i \in found : \A k \in found : i <= k
      BY <2>2, <3>1, LeastOf
    <3>3. n \in found /\ \A k \in found : n <= k
      BY <2>2, <3>2
    <3> HIDE DEF n
    <3>4. n \in 1 .. reach /\ \A k \in 1 .. n - 1 : k \notin found /\ k \in 1 .. reach
      BY <1>1, <1>2, <3>1, <3>3
    <3> HIDE DEF h
    <3>5. Hits(h[n]) /\ \A k \in 1 .. n - 1 : ~Hits(h[k])
      BY <3>3, <3>4 DEF found
    <3>6. QED
      BY <1>1, <1>2, <2>2, <3>4, <3>5
  <2>3. QED
    BY <2>1, <2>2
<1> HIDE DEF n, found
<1>7. RunAt(s, w, buffer, behind, n, past)
  <2> HIDE DEF h
  <2>1. r.ret \in {"HIT", "MAX"} /\ (r.ret = "HIT" => found # {}) /\ (r.ret = "MAX" => found = {})
    BY <1>3
  <2>2. QED
    BY <1>2, <1>3, <1>4, <1>6, <2>1 DEF RunAt, r, h
<1>8. QED
  BY <1>5, <1>6, <1>7

(* Whatever the hash, a run keeps w bytes.                                 *)
LEMMA RunShape ==
  ASSUME NEW w \in RhWindows, NEW s, RhShape(s, w), NEW buffer \in Seq(RhByte),
         NEW behind \in RhByte, NEW n \in 0 .. Len(buffer), NEW past \in BOOLEAN,
         RunAt(s, w, buffer, behind, n, past)
  PROVE  LET r == Run(s, buffer, behind)
         IN  /\ r.offset \in 0 .. Len(buffer) + 1
             /\ r.offset > Len(buffer) <=> past
             /\ r.ret \in {"HIT", "MAX"}
             /\ RhShape(r.state, w)
             /\ ~past => r.state.history = Slide(s.history, buffer, n)
             /\ r.state.hash = Hashes(s, buffer)[n]
<1> DEFINE r   == Run(s, buffer, behind)
           all == Append(buffer, behind)
<1>1. w \in Nat \ {0} /\ Len(buffer) \in Nat /\ s.w = w /\ s.history \in WindowsOf(w)
  BY RhAssumption, LenProperties DEF RhShape
<1>2. all \in Seq(RhByte) /\ Len(all) = Len(buffer) + 1
  BY AppendProperties
<1>3. n \in 0 .. Len(buffer) /\ n + 1 \in 0 .. Len(all)
  BY <1>1, <1>2
<1>4. /\ Kept(s, buffer, n) = Slide(s.history, buffer, n)
      /\ Slide(s.history, buffer, n) \in WindowsOf(w)
  BY <1>1, KeptIs, SlideIs
<1>5. Kept(s, all, n + 1) \in WindowsOf(w)
  <2> DEFINE m == n + 1
  <2>1. m \in 0 .. Len(all)
    BY <1>3
  <2> HIDE DEF all, m
  <2>2. Kept(s, all, m) = Slide(s.history, all, m)
    BY ONLY <1>1, <1>2, <2>1, KeptIs
  <2>3. Slide(s.history, all, m) \in WindowsOf(w)
    BY ONLY <1>1, <1>2, <2>1, SlideIs
  <2>4. QED
    BY <2>2, <2>3 DEF m
<1>6. /\ r.offset = IF past THEN n + 1 ELSE n
      /\ r.ret \in {"HIT", "MAX"}
      /\ r.state = [ w |-> w, history |-> IF past THEN Kept(s, all, n + 1) ELSE Kept(s, buffer, n),
                     hash |-> Hashes(s, buffer)[n] ]
      /\ past => n = Len(buffer)
  BY DEF RunAt
<1> HIDE DEF r, all
<1>7. RhShape(r.state, w)
  BY <1>4, <1>5, <1>6 DEF RhShape
<1>8. QED
  BY <1>1, <1>4, <1>6, <1>7 DEF r

(* A run that answered ret is at its first hit, or at the end of what the  *)
(* loop looks at without one.                                              *)
FirstHit(window, w, buffer, offset, ret) ==
    LET len == Len(buffer)
        n   == IF offset > len THEN len ELSE offset
    IN  /\ \A k \in 1 .. n - 1 : Slide(window, buffer, k) \notin rhMask
        /\ ret = "HIT" => n > 0 /\ Slide(window, buffer, n) \in rhMask
        /\ ret = "MAX" => /\ n > 0 => Slide(window, buffer, n) \notin rhMask
                          /\ n = len \/ (rhLoop = "base" /\ len >= INT_LIMIT)
        /\ offset > len => /\ ret = "HIT" /\ rhLoop = "x86"
                           /\ len > w /\ (len - w) % 2 = 1

(* When the hash is that of the window, hits are windows of the mask.      *)
LEMMA RunIs ==
  ASSUME rhMask \in RhTriggers, NEW w \in RhWindows, NEW s,
         RhShape(s, w), s.hash = HashOf(s.history), NEW buffer \in Seq(RhByte),
         NEW behind \in RhByte, NEW n \in 0 .. Len(buffer), NEW past \in BOOLEAN,
         RunAt(s, w, buffer, behind, n, past)
  PROVE  LET r == Run(s, buffer, behind)
         IN  /\ FirstHit(s.history, w, buffer, r.offset, r.ret)
             /\ ~past => r.state.hash = HashOf(r.state.history)
<1> DEFINE r      == Run(s, buffer, behind)
           h      == Hashes(s, buffer)
           Win(i) == Slide(s.history, buffer, i)
<1>1. w \in 1 .. ROTATION - 1 /\ w \in Nat \ {0} /\ Len(buffer) \in Nat
  BY RhAssumption, LenProperties
<1>2. s.w = w /\ s.history \in WindowsOf(w)
  BY DEF RhShape
<1>3. \A i \in 0 .. Len(buffer) : h[i] = HashOf(Win(i))
  BY <1>1, <1>2, HashesAre
<1>4. \A i \in 0 .. Len(buffer) : Win(i) \in WindowsOf(w)
  BY <1>1, <1>2, SlideIs
<1>5. \A i \in 0 .. Len(buffer) : Hits(h[i]) <=> Win(i) \in rhMask
  <2>1. ASSUME NEW i \in 0 .. Len(buffer) PROVE Hits(h[i]) <=> Win(i) \in rhMask
    <3>1. h[i] = HashOf(Win(i)) /\ Win(i) \in WindowsOf(w)
      BY <1>3, <1>4
    <3>2. ASSUME NEW window \in rhMask, HashOf(Win(i)) = HashOf(window)
          PROVE  window = Win(i)
      <4>1. PICK v \in 1 .. ROTATION - 1 : window \in WindowsOf(v)
        BY RhAssumption DEF WindowsOf
      <4> HIDE DEF Win
      <4>2. QED
        BY <1>1, <3>1, <3>2, <4>1, HashTells
    <3> HIDE DEF Win, h
    <3>3. QED
      BY <3>1, <3>2 DEF Hits
  <2>2. QED
    BY <2>1
<1>6. /\ r.offset = IF past THEN n + 1 ELSE n
      /\ \A k \in 1 .. n - 1 : ~Hits(h[k])
      /\ r.ret = "HIT" => n > 0 /\ Hits(h[n])
      /\ r.ret = "MAX" => /\ n > 0 => ~Hits(h[n])
                          /\ n = Len(buffer) \/ (rhLoop = "base" /\ Len(buffer) >= INT_LIMIT)
      /\ past => /\ r.ret = "HIT" /\ rhLoop = "x86"
                 /\ n = Len(buffer) /\ Len(buffer) > w /\ (Len(buffer) - w) % 2 = 1
  BY DEF RunAt
<1>7. /\ r.state.hash = h[n]
      /\ ~past => r.state.history = Win(n)
  BY RunShape
<1> HIDE DEF r, h, Win
<1>8. ~past => r.state.hash = HashOf(r.state.history)
  BY <1>3, <1>7
<1>9. n = IF r.offset > Len(buffer) THEN Len(buffer) ELSE r.offset
  BY <1>1, <1>6
<1>10. \A k \in 1 .. n - 1 : Win(k) \notin rhMask
  BY <1>1, <1>5, <1>6
<1>11. Hits(h[n]) <=> Win(n) \in rhMask
  BY <1>5
<1>12. r.offset > Len(buffer) => past
  BY <1>1, <1>6
<1>13. FirstHit(s.history, w, buffer, r.offset, r.ret)
  BY <1>6, <1>9, <1>10, <1>11, <1>12 DEF FirstHit, Win
<1>14. QED
  BY <1>8, <1>13 DEF r

(* As long as no run went past its buffer, the hash in the state is that   *)
(* of the window, and the window ends with the bytes the last run took.    *)
RhInv ==
    /\ rhMask \in RhTriggers
    /\ rhLoop \in RhLoops
    /\ rh.w \in RhWindows
    /\ RhShape(rh, rh.w)
    /\ rhRun.buffer \in Seq(RhByte)
    /\ rhRun.offset \in 0 .. Len(rhRun.buffer) + 1
    /\ rhRun.ret \in {"HIT", "MAX"}
    /\ ~rhRun.lost => /\ rhRun.before \in WindowsOf(rh.w)
                      /\ FirstHit(rhRun.before, rh.w, rhRun.buffer, rhRun.offset, rhRun.ret)
    /\ ~Astray => /\ rh.hash = HashOf(rh.history)
                  /\ rh.history = Slide(rhRun.before, rhRun.buffer, rhRun.offset)

LEMMA RhFresh ==
  ASSUME NEW w \in RhWindows, NEW init_bytes \in WindowsOf(w)
  PROVE  /\ RhShape(Reset(w, init_bytes), w)
         /\ Reset(w, init_bytes).w = w
         /\ Reset(w, init_bytes).hash = HashOf(Reset(w, init_bytes).history)
         /\ NoRun(init_bytes).before \in WindowsOf(w)
         /\ NoRun(init_bytes).buffer \in Seq(RhByte)
         /\ NoRun(init_bytes).offset \in 0 .. Len(NoRun(init_bytes).buffer) + 1
         /\ NoRun(init_bytes).ret \in {"HIT", "MAX"}
         /\ Reset(w, init_bytes).history
                = Slide(NoRun(init_bytes).before, NoRun(init_bytes).buffer, NoRun(init_bytes).offset)
         /\ FirstHit(NoRun(init_bytes).before, w, NoRun(init_bytes).buffer,
                     NoRun(init_bytes).offset, NoRun(init_bytes).ret)
<1> DEFINE z == 0
           none == << >>
<1>1. w \in Nat /\ none \in Seq(RhByte) /\ z \in 0 .. Len(none) /\ z = Len(none)
  BY RhAssumption
<1>2. NoRun(init_bytes) = [before |-> init_bytes, buffer |-> none, offset |-> z, ret |-> "MAX",
                           lost |-> FALSE]
  BY DEF NoRun
<1>3. Slide(init_bytes, none, z) = init_bytes
  <2>1. \A k \in 1 .. w : SlideByte(init_bytes, w, none, z, k) = init_bytes[k]
    BY <1>1 DEF SlideByte
  <2> HIDE DEF z, none
  <2>2. /\ Slide(init_bytes, none, z) \in WindowsOf(w)
        /\ \A k \in 1 .. w : Slide(init_bytes, none, z)[k] = init_bytes[k]
    BY <1>1, <2>1, SlideIs
  <2>3. QED
    BY <1>1, <2>2, SameWindow
<1>4. FirstHit(init_bytes, w, none, z, "MAX")
  <2>1. ~ (z > 0) /\ 1 .. z - 1 = {} /\ ~ (z > Len(none))
    OBVIOUS
  <2> HIDE DEF z, none
  <2>2. QED
    BY <1>1, <2>1 DEF FirstHit
<1>5. z \in 0 .. Len(none) + 1
  OBVIOUS
<1> HIDE DEF z, none
<1>6. QED
  BY <1>1, <1>2, <1>3, <1>4, <1>5 DEF Reset, RhShape

LEMMA RhRunKeeps ==
  ASSUME RhInv, NEW buffer \in Seq(RhByte), Len(buffer) <= RhMaxBuffer, RhRunOn(buffer)
  PROVE  RhInv'
<1>1. PICK behind \in RhByte :
          /\ rh' = Run(rh, buffer, behind).state
          /\ rhRun' = IF Astray THEN [NoRun(<< >>) EXCEPT !.lost = TRUE]
                      ELSE [ before |-> Slide(rhRun.before, rhRun.buffer, rhRun.offset),
                             buffer |-> buffer, offset |-> Run(rh, buffer, behind).offset,
                             ret |-> Run(rh, buffer, behind).ret, lost |-> FALSE ]
  BY DEF RhRunOn
<1> DEFINE r == Run(rh, buffer, behind)
<1>2. rhMask' = rhMask /\ rhLoop' = rhLoop
  BY DEF RhRunOn
<1>3. rh.w \in RhWindows /\ rhLoop \in RhLoops /\ rhMask \in RhTriggers /\ RhShape(rh, rh.w)
  BY DEF RhInv
<1>4. PICK n \in 0 .. Len(buffer) :
          \E past \in BOOLEAN : RunAt(rh, rh.w, buffer, behind, n, past)
  BY <1>3, RunEnds
<1>5. PICK past \in BOOLEAN : RunAt(rh, rh.w, buffer, behind, n, past)
  BY <1>4
<1>6. /\ r.offset \in 0 .. Len(buffer) + 1
      /\ r.offset > Len(buffer) <=> past
      /\ r.ret \in {"HIT", "MAX"}
      /\ RhShape(r.state, rh.w)
      /\ ~past => r.state.history = Slide(rh.history, buffer, n)
  BY <1>3, <1>5, RunShape
<1>7. r.offset = IF past THEN n + 1 ELSE n
  BY <1>5 DEF RunAt
<1>8. rh' = r.state /\ rh'.w = rh.w /\ RhShape(rh', rh'.w)
  BY <1>1, <1>6 DEF RhShape
<1>9. CASE Astray
  <2>1. /\ rhRun'.buffer = << >> /\ rhRun'.offset = 0 /\ rhRun'.ret = "MAX" /\ rhRun'.lost
        /\ << >> \in Seq(RhByte) /\ Len(<< >>) = 0
    BY <1>1, <1>9 DEF NoRun
  <2>2. 0 \in 0 .. 0 + 1
    OBVIOUS
  <2>3. Astray'
    BY <2>1 DEF Astray
  <2>4. QED
    BY <1>2, <1>3, <1>8, <2>1, <2>2, <2>3 DEF RhInv
<1>10. CASE ~Astray
  <2>1. rh.hash = HashOf(rh.history) /\ rh.history = Slide(rhRun.before, rhRun.buffer, rhRun.offset)
    BY <1>10 DEF RhInv
  <2>2. /\ FirstHit(rh.history, rh.w, buffer, r.offset, r.ret)
        /\ ~past => r.state.hash = HashOf(r.state.history)
    BY <1>3, <1>5, <2>1, RunIs
  <2> HIDE DEF r
  <2>3. /\ rhRun'.before = rh.history /\ rhRun'.buffer = buffer
        /\ rhRun'.offset = r.offset /\ rhRun'.ret = r.ret /\ rhRun'.lost = FALSE
    BY <1>1, <1>10, <2>1 DEF r
  <2>4. FirstHit(rhRun.before, rh.w, rhRun.buffer, rhRun.offset, rhRun.ret)'
    BY <1>2, <1>8, <2>2, <2>3 DEF FirstHit
  <2>5. ~Astray' => rh'.hash = HashOf(rh'.history)
                    /\ rh'.history = Slide(rhRun'.before, rhRun'.buffer, rhRun'.offset)
    <3>1. SUFFICES ASSUME ~Astray'
                   PROVE  /\ rh'.hash = HashOf(rh'.history)
                          /\ rh'.history = Slide(rhRun'.before, rhRun'.buffer, rhRun'.offset)
      OBVIOUS
    <3>2. ~past
      BY <1>6, <2>3, <3>1 DEF Astray
    <3>3. QED
      BY <1>6, <1>7, <1>8, <2>2, <2>3, <3>2
  <2>6. rh.history \in WindowsOf(rh.w)
    BY <1>3 DEF RhShape
  <2>7. QED
    BY <1>2, <1>3, <1>6, <1>8, <2>3, <2>4, <2>5, <2>6 DEF RhInv
<1>11. QED
  BY <1>9, <1>10

LEMMA RhStays == Init /\ [][Next]_vars => []RhInv
<1>1. RhInit => RhInv
  <2> SUFFICES ASSUME RhInit PROVE RhInv
    OBVIOUS
  <2>1. PICK w \in RhWindows : \E init_bytes \in [1 .. w -> RhByte] :
            rh = Reset(w, init_bytes) /\ rhRun = NoRun(init_bytes)
    BY DEF RhInit
  <2>2. PICK init_bytes \in WindowsOf(w) : rh = Reset(w, init_bytes) /\ rhRun = NoRun(init_bytes)
    BY <2>1 DEF WindowsOf
  <2>3. rhMask \in RhTriggers /\ rhLoop \in RhLoops
    BY DEF RhInit
  <2>4. QED
    BY <2>2, <2>3, RhFresh DEF RhInv
<1>2. RhInv /\ [RhNext]_rhVars => RhInv'
  <2> SUFFICES ASSUME RhInv, [RhNext]_rhVars PROVE RhInv'
    OBVIOUS
  <2>1. CASE UNCHANGED rhVars
    BY <2>1 DEF rhVars, RhInv, RhShape, FirstHit, Astray
  <2>2. CASE RhReset
    <3>1. PICK init_bytes \in WindowsOf(rh.w) :
              rh' = Reset(rh.w, init_bytes) /\ rhRun' = NoRun(init_bytes)
      BY <2>2 DEF RhReset, WindowsOf
    <3>2. /\ rhMask' \in RhTriggers /\ rh.w \in RhWindows /\ rhMask' = rhMask
          /\ rhLoop' \in RhLoops /\ rhLoop' = rhLoop
      BY <2>2 DEF RhReset, RhInv
    <3>3. FirstHit(rhRun.before, rh.w, rhRun.buffer, rhRun.offset, rhRun.ret)'
      BY <3>1, <3>2, RhFresh DEF FirstHit
    <3>4. QED
      BY <3>1, <3>2, <3>3, RhFresh DEF RhInv
  <2>3. CASE \E buffer \in Buffers(RhMaxBuffer) : RhRunOn(buffer)
    <3>1. PICK buffer \in Buffers(RhMaxBuffer) : RhRunOn(buffer)
      BY <2>3
    <3>2. buffer \in Seq(RhByte) /\ Len(buffer) <= RhMaxBuffer
      BY RhAssumption DEF Buffers
    <3>3. QED
      BY <3>1, <3>2, RhRunKeeps
  <2>4. QED
    BY <2>1, <2>2, <2>3 DEF RhNext
<1>3. QED
  BY <1>1, <1>2, RhPart, PTL

(* rolling_hash2_run stops at the first window the mask and trigger select *)
(* and nowhere else, for any width, bytes and buffers and either loop, as  *)
(* long as no run went past its buffer: boundaries do not depend on how    *)
(* the caller cuts its stream, except that the C loop leaves out most of a *)
(* buffer whose length is a negative int, and that the x86 loops answer    *)
(* one byte too many for a hit at the odd last byte of a buffer.           *)
THEOREM RhFirstHitHolds == Spec => []RhFirstHit
<1>1. RhInv => RhFirstHit
  BY DEF RhInv, FirstHit, RhFirstHit
<1>2. QED
  BY <1>1, RhStays, PTL DEF Spec
-----------------------------------------------------------------------------
(* Cells of messages and their padding.                                    *)
Cells == {Hex80, Zero} \cup {Cell(i) : i \in Nat} \cup {LengthCell(n) : n \in Nat}

LEMMA PieceIs ==
  ASSUME NEW n \in Nat, NEW len \in Nat
  PROVE  /\ Piece(n, len) \in Seq(Cells)
         /\ Len(Piece(n, len)) = len
         /\ \A i \in 1 .. len : Piece(n, len)[i] = Cell(n + i)
<1>1. Piece(n, len) \in [1 .. len -> Cells]
  BY DEF Piece, Cells
<1>2. Piece(n, len) \in Seq(Cells) /\ Len(Piece(n, len)) = len
  BY <1>1
<1>3. QED
  BY <1>2 DEF Piece

LEMMA ZerosAre ==
  ASSUME NEW n \in Nat
  PROVE  /\ Zeros(n) \in Seq(Cells)
         /\ Len(Zeros(n)) = n
         /\ \A i \in 1 .. n : Zeros(n)[i] = Zero
<1>1. Zeros(n) \in [1 .. n -> Cells]
  BY DEF Zeros, Cells
<1>2. Zeros(n) \in Seq(Cells) /\ Len(Zeros(n)) = n
  BY <1>1
<1>3. QED
  BY <1>2 DEF Zeros

(* A message grows by the next piece.                                      *)
LEMMA MessageGrows ==
  ASSUME NEW n \in Nat, NEW len \in Nat
  PROVE  WholeMessage(n) \o Piece(n, len) = WholeMessage(n + len)
<1> DEFINE z == 0
           a == WholeMessage(n)
           b == Piece(n, len)
           c == WholeMessage(n + len)
<1>1. a \in Seq(Cells) /\ Len(a) = n /\ \A i \in 1 .. n : a[i] = Cell(z + i)
  <2>1. z \in Nat
    OBVIOUS
  <2>2. a = Piece(z, n)
    BY DEF WholeMessage
  <2> HIDE DEF z, a
  <2>3. QED
    BY <2>1, <2>2, PieceIs
<1>2. c \in Seq(Cells) /\ Len(c) = n + len /\ \A i \in 1 .. n + len : c[i] = Cell(z + i)
  <2>1. z \in Nat /\ n + len \in Nat
    OBVIOUS
  <2>2. c = Piece(z, n + len)
    BY DEF WholeMessage
  <2> HIDE DEF z, c
  <2>3. QED
    BY <2>1, <2>2, PieceIs
<1>3. b \in Seq(Cells) /\ Len(b) = len /\ \A i \in 1 .. len : b[i] = Cell(n + i)
  BY PieceIs
<1> HIDE DEF a, b, c
<1>4. /\ a \o b \in Seq(Cells) /\ Len(a \o b) = n + len
      /\ \A i \in 1 .. n + len : (a \o b)[i] = IF i <= n THEN a[i] ELSE b[i - n]
  BY <1>1, <1>3, ConcatProperties
<1>5. ASSUME NEW i \in 1 .. n + len PROVE (a \o b)[i] = c[i]
  <2>1. z + i = i
    OBVIOUS
  <2>2. CASE i <= n
    BY <1>1, <1>2, <1>4, <2>2
  <2>3. CASE ~ (i <= n)
    <3>1. i - n \in 1 .. len /\ n + (i - n) = i
      BY <2>3
    <3>2. b[i - n] = Cell(i)
      BY <1>3, <3>1
    <3>3. c[i] = Cell(i)
      BY <1>2, <2>1
    <3>4. QED
      BY <1>4, <2>3, <3>2, <3>3
  <2>4. QED
    BY <2>2, <2>3
<1>6. a \o b = c
  BY <1>2, <1>4, <1>5, SeqEqual
<1>7. QED
  BY <1>6 DEF a, b, c

(* The padding as one function: the mark after the message, zeros, and the *)
(* length at the end.                                                      *)
PaddedCell(n, end, i) ==
    IF i <= n THEN Cell(i)
    ELSE IF i = n + 1 THEN Hex80
    ELSE IF i = end THEN LengthCell(n)
    ELSE Zero

IsPadded(t, n, end) ==
    /\ t \in Seq(Cells)
    /\ Len(t) = end
    /\ \A i \in 1 .. end : t[i] = PaddedCell(n, end, i)

FillOf(n, block, field) == (block - ((n + 1 + field) % block)) % block

LEMMA PaddedMessageIs ==
  ASSUME NEW n \in Nat, NEW block \in Nat \ {0}, NEW field \in Nat \ {0}
  PROVE  /\ FillOf(n, block, field) \in Nat
         /\ IsPadded(PaddedMessage(n, block, field), n, n + 1 + FillOf(n, block, field) + field)
<1> DEFINE fill == FillOf(n, block, field)
           z == 0
           k == fill + field - 1
           a == WholeMessage(n)
           m == <<Hex80>>
           o == Zeros(k)
           l == <<LengthCell(n)>>
           end == n + 1 + fill + field
<1>1. fill \in Nat /\ k \in Nat /\ end = ((n + 1) + k) + 1
  <2>1. (n + 1 + field) % block \in 0 .. block - 1
    OBVIOUS
  <2>2. fill \in Nat
    BY <2>1 DEF FillOf
  <2> HIDE DEF fill
  <2>3. QED
    BY <2>2
<1>2. a \in Seq(Cells) /\ Len(a) = n /\ \A i \in 1 .. n : a[i] = Cell(i)
  <2>1. z \in Nat /\ \A i \in 1 .. n : z + i = i
    OBVIOUS
  <2>2. a = Piece(z, n)
    BY DEF WholeMessage
  <2> HIDE DEF z, a
  <2>3. QED
    BY <2>1, <2>2, PieceIs, ZenonT(30)
<1>3. Hex80 \in Cells /\ LengthCell(n) \in Cells
  BY DEF Cells
<1>4. m \in Seq(Cells) /\ Len(m) = 1 /\ m[1] = Hex80
  BY <1>3, OneIs
<1>5. l \in Seq(Cells) /\ Len(l) = 1 /\ l[1] = LengthCell(n)
  BY <1>3, OneIs
<1>6. o \in Seq(Cells) /\ Len(o) = k /\ \A i \in 1 .. k : o[i] = Zero
  BY <1>1, ZerosAre
<1> DEFINE am  == a \o m
           amo == am \o o
           t   == amo \o l
<1>7. PaddedMessage(n, block, field) = t
  BY DEF PaddedMessage, FillOf
<1> HIDE DEF a, m, o, l, k, fill, t, amo, am
<1>8. am \in Seq(Cells) /\ Len(am) = n + 1 /\ (\A i \in 1 .. n : am[i] = a[i]) /\ am[n + 1] = m[1]
  <2>1. Joined(Cells, a, m, am)
    BY <1>2, <1>4, JoinIs DEF am
  <2>2. QED
    BY <1>2, <1>4, <2>1 DEF Joined
<1>9. /\ amo \in Seq(Cells) /\ Len(amo) = (n + 1) + k
      /\ \A i \in 1 .. n + 1 : amo[i] = am[i]
      /\ \A i \in 1 .. k : amo[(n + 1) + i] = o[i]
  <2>1. Joined(Cells, am, o, amo)
    BY <1>6, <1>8, JoinIs DEF amo
  <2>2. QED
    BY <1>6, <1>8, <2>1 DEF Joined
<1>10. /\ t \in Seq(Cells) /\ Len(t) = ((n + 1) + k) + 1
       /\ \A i \in 1 .. (n + 1) + k : t[i] = amo[i]
       /\ t[((n + 1) + k) + 1] = l[1]
  <2>1. Joined(Cells, amo, l, t)
    BY <1>5, <1>9, JoinIs DEF t
  <2>2. QED
    BY <1>5, <1>9, <2>1 DEF Joined
<1>11. ASSUME NEW i \in 1 .. end PROVE t[i] = PaddedCell(n, end, i)
  <2>1. CASE i <= n
    <3>1. i \in 1 .. n /\ i \in 1 .. n + 1 /\ i \in 1 .. (n + 1) + k
      BY <1>1, <2>1
    <3>2. QED
      BY <1>2, <1>8, <1>9, <1>10, <2>1, <3>1 DEF PaddedCell
  <2>2. CASE i = n + 1
    <3>1. ~ (i <= n) /\ i \in 1 .. n + 1 /\ i \in 1 .. (n + 1) + k /\ 1 \in 1 .. 1
      BY <1>1, <2>2
    <3>2. am[i] = Hex80
      BY <1>4, <1>8, <2>2, <3>1
    <3>3. QED
      BY <1>9, <1>10, <2>2, <3>1, <3>2 DEF PaddedCell
  <2>3. CASE i > n + 1 /\ i < end
    <3>1. /\ i - (n + 1) \in 1 .. k /\ (n + 1) + (i - (n + 1)) = i
          /\ i \in 1 .. (n + 1) + k /\ ~ (i <= n) /\ i # n + 1 /\ i # end
      BY <1>1, <2>3
    <3>2. amo[i] = Zero
      BY <1>6, <1>9, <3>1
    <3>3. QED
      BY <1>10, <3>1, <3>2 DEF PaddedCell
  <2>4. CASE i = end
    <3>1. i = ((n + 1) + k) + 1 /\ ~ (i <= n) /\ i # n + 1 /\ 1 \in 1 .. 1
      BY <1>1, <2>4
    <3>2. t[i] = LengthCell(n)
      BY <1>5, <1>10, <3>1
    <3>3. QED
      BY <2>4, <3>1, <3>2 DEF PaddedCell
  <2>5. QED
    BY <1>1, <2>1, <2>2, <2>3, <2>4
<1>12. IsPadded(t, n, end)
  BY <1>1, <1>10, <1>11 DEF IsPadded
<1>13. QED
  BY <1>1, <1>7, <1>12 DEF fill
-----------------------------------------------------------------------------
(* Base contexts.  What a context in use has absorbed, with its partial    *)
(* block, is the message so far.                                           *)
BaseRec == [ status               : {"IDLE", "PROCESSING", "COMPLETE"},
             error                : {"NONE", "INVALID_FLAGS", "ALREADY_COMPLETED"},
             total_length         : Nat,
             partial_block_buffer : Seq(Cells),
             result_digest        : Seq(Cells) ]

Blocks(t) == \E q \in Nat : Len(t) = q * BASE_BLOCK

(* The context c holds the n cells given so far.                           *)
Holds(c, n) ==
    /\ c.result_digest \o c.partial_block_buffer = WholeMessage(n)
    /\ Blocks(c.result_digest)

BaseField == IF baseHash = "sha512" THEN FIELD128 ELSE FIELD64

LEMMA BlocksJoin ==
  ASSUME NEW s \in Seq(Cells), NEW t \in Seq(Cells), Blocks(s), Blocks(t)
  PROVE  Blocks(s \o t)
<1>1. PICK q \in Nat : Len(s) = q * BASE_BLOCK
  BY DEF Blocks
<1>2. PICK r \in Nat : Len(t) = r * BASE_BLOCK
  BY DEF Blocks
<1>3. Len(s \o t) = Len(s) + Len(t)
  BY ConcatProperties
<1>4. BASE_BLOCK \in Nat
  BY BaseAssumption
<1>5. Len(s) + Len(t) = (q + r) * BASE_BLOCK /\ q + r \in Nat
  BY <1>1, <1>2, <1>4
<1>6. QED
  BY <1>3, <1>5 DEF Blocks

(* The first n cells, and the others.                                      *)
LEMMA CutIs ==
  ASSUME NEW cells \in Seq(Cells), NEW n \in Nat, n <= Len(cells)
  PROVE  /\ SubSeq(cells, 1, n) \in Seq(Cells) /\ Len(SubSeq(cells, 1, n)) = n
         /\ DropFirst(cells, n) \in Seq(Cells) /\ Len(DropFirst(cells, n)) = Len(cells) - n
         /\ SubSeq(cells, 1, n) \o DropFirst(cells, n) = cells
<1>1. Len(cells) \in Nat
  BY LenProperties
<1>2. SubSeq(cells, 1, n) \in Seq(Cells) /\ Len(SubSeq(cells, 1, n)) = n
  BY StartIs
<1>3. DropFirst(cells, n) \in Seq(Cells) /\ Len(DropFirst(cells, n)) = Len(cells) - n
  BY <1>1, PartIs DEF DropFirst
<1>4. SubSeq(cells, 1, n) \o DropFirst(cells, n) = cells
  <2> DEFINE z == 0
             m == Len(cells)
  <2>1. z \in Nat /\ z <= n /\ z + 1 = 1 /\ m \in Nat /\ n <= m /\ m <= Len(cells)
    BY <1>1
  <2>2. SubSeq(cells, 1, m) = cells
    BY SubSeqFull
  <2>3. DropFirst(cells, n) = SubSeq(cells, n + 1, m)
    BY DEF DropFirst
  <2> HIDE DEF z, m
  <2>4. SubSeq(cells, z + 1, n) \o SubSeq(cells, n + 1, m) = SubSeq(cells, z + 1, m)
    BY <2>1, PartsJoin
  <2>5. QED
    BY <2>1, <2>2, <2>3, <2>4
<1>5. QED
  BY <1>2, <1>3, <1>4

(* What base_update does to the digest and the partial block.              *)
Updated(c, cells, d) ==
    /\ d.partial_block_buffer \in Seq(Cells) /\ d.result_digest \in Seq(Cells)
    /\ Len(d.partial_block_buffer) < BASE_BLOCK
    /\ d.result_digest \o d.partial_block_buffer
            = (c.result_digest \o c.partial_block_buffer) \o cells
    /\ Blocks(c.result_digest) => Blocks(d.result_digest)

UpdateBlock(c, cells) == c.partial_block_buffer \o SubSeq(cells, 1, TopUp(c, cells))
UpdateRest(c, cells)  == DropFirst(cells, TopUp(c, cells))
UpdateFull(c, cells)  == Len(UpdateBlock(c, cells)) >= BASE_BLOCK
UpdateWhole(c, cells) ==
    IF UpdateFull(c, cells) \/ UpdateBlock(c, cells) = << >>
    THEN Len(UpdateRest(c, cells)) - (Len(UpdateRest(c, cells)) % BASE_BLOCK) ELSE 0
UpdateKept(c, cells)  == DropFirst(UpdateRest(c, cells), UpdateWhole(c, cells))

LEMMA UpdateFields ==
  ASSUME NEW c \in BaseRec, NEW cells \in Seq(Cells)
  PROVE  /\ base_update(c, cells).status = "IDLE"
         /\ base_update(c, cells).error = c.error
         /\ base_update(c, cells).total_length = c.total_length + Len(cells)
         /\ base_update(c, cells).result_digest
                = (c.result_digest \o (IF UpdateFull(c, cells) THEN UpdateBlock(c, cells) ELSE << >>))
                    \o SubSeq(UpdateRest(c, cells), 1, UpdateWhole(c, cells))
         /\ base_update(c, cells).partial_block_buffer
                = IF UpdateKept(c, cells) # << >> THEN UpdateKept(c, cells)
                  ELSE IF UpdateFull(c, cells) THEN << >> ELSE UpdateBlock(c, cells)
  BY DEF base_update, BaseRec, UpdateBlock, UpdateRest, UpdateFull, UpdateWhole, UpdateKept
LEMMA BaseDivision ==
  ASSUME NEW n \in Nat
  PROVE  /\ n - (n % BASE_BLOCK) \in 0 .. n
         /\ n - (n - (n % BASE_BLOCK)) < BASE_BLOCK
         /\ \E q \in Nat : n - (n % BASE_BLOCK) = q * BASE_BLOCK
<1>1. BASE_BLOCK \in Nat \ {0}
  BY BaseAssumption
<1> DEFINE q == n \div BASE_BLOCK
           r == n % BASE_BLOCK
<1>2. q \in Nat /\ r \in 0 .. BASE_BLOCK - 1 /\ n = q * BASE_BLOCK + r
  BY <1>1, DivisionOf
<1>3. q * BASE_BLOCK \in Nat
  BY <1>1, <1>2
<1> DEFINE p == q * BASE_BLOCK
<1> HIDE DEF q, r, p
<1>4. p \in Nat /\ n = p + r /\ r \in Nat /\ r < BASE_BLOCK
  BY <1>1, <1>2, <1>3 DEF p
<1>5. n - r = p /\ n - r \in 0 .. n /\ n - (n - r) < BASE_BLOCK
  BY <1>1, <1>4
<1>6. QED
  BY <1>2, <1>5 DEF r, p

(* The pieces update cuts its cells into, and where they go.               *)
Parted(c, cells, first, rest, whole, kept) ==
    /\ {first, rest, whole, kept} \subseteq Seq(Cells)
    /\ first \o rest = cells
    /\ whole \o kept = rest
    /\ first = SubSeq(cells, 1, TopUp(c, cells))
    /\ rest = UpdateRest(c, cells)
    /\ whole = SubSeq(rest, 1, UpdateWhole(c, cells))
    /\ kept = UpdateKept(c, cells)
    /\ Len(UpdateBlock(c, cells)) <= BASE_BLOCK
    /\ Blocks(whole)
    /\ \/ UpdateFull(c, cells) /\ Len(kept) < BASE_BLOCK
       \/ ~UpdateFull(c, cells) /\ UpdateBlock(c, cells) = << >> /\ Len(kept) < BASE_BLOCK
       \/ ~UpdateFull(c, cells) /\ UpdateBlock(c, cells) # << >> /\ whole = << >> /\ kept = << >>

LEMMA PartedIs ==
  ASSUME NEW c \in BaseRec, NEW cells \in Seq(Cells),
         Len(c.partial_block_buffer) < BASE_BLOCK
  PROVE  \E first, rest, whole, kept : Parted(c, cells, first, rest, whole, kept)
<1> DEFINE p     == c.partial_block_buffer
           n     == Len(cells)
           copy  == TopUp(c, cells)
           first == SubSeq(cells, 1, copy)
           rest  == UpdateRest(c, cells)
           m     == UpdateWhole(c, cells)
           whole == SubSeq(rest, 1, m)
           kept  == UpdateKept(c, cells)
           block == UpdateBlock(c, cells)
<1>1. BASE_BLOCK \in Nat \ {0} /\ p \in Seq(Cells) /\ Len(p) \in Nat /\ n \in Nat
      /\ Len(p) < BASE_BLOCK
  BY BaseAssumption, LenProperties DEF BaseRec
<1>2. Len(<< >>) = 0 /\ << >> \in Seq(Cells)
  BY EmptySeq
<1>3. /\ copy \in 0 .. n
      /\ \/ copy = 0 /\ p = << >>
         \/ copy = n /\ Len(p) + n < BASE_BLOCK
         \/ copy = BASE_BLOCK - Len(p)
  <2>0. copy = IF p = << >> /\ n >= BASE_BLOCK THEN 0
               ELSE IF n < BASE_BLOCK - Len(p) THEN n ELSE BASE_BLOCK - Len(p)
    BY DEF TopUp
  <2> HIDE DEF copy, p, n
  <2>1. CASE p = << >> /\ n >= BASE_BLOCK
    BY <1>1, <2>0, <2>1
  <2>2. CASE ~ (p = << >> /\ n >= BASE_BLOCK) /\ n < BASE_BLOCK - Len(p)
    BY <1>1, <2>0, <2>2
  <2>3. CASE ~ (p = << >> /\ n >= BASE_BLOCK) /\ ~ (n < BASE_BLOCK - Len(p))
    <3>1. BASE_BLOCK - Len(p) \in 0 .. n
      BY <1>1, <1>2, <2>3
    <3>2. QED
      BY <2>0, <2>3, <3>1
  <2>4. QED
    BY <2>1, <2>2, <2>3
<1> HIDE DEF copy, p
<1>4. /\ first \in Seq(Cells) /\ Len(first) = copy
      /\ rest \in Seq(Cells) /\ Len(rest) = n - copy
      /\ first \o rest = cells
  <2>1. copy \in Nat /\ copy <= Len(cells)
    BY <1>1, <1>3
  <2>2. rest = DropFirst(cells, copy)
    BY DEF UpdateRest, copy
  <2> HIDE DEF rest
  <2>3. QED
    BY <2>1, <2>2, CutIs
<1>5. block \in Seq(Cells) /\ Len(block) = Len(p) + copy
  <2>1. block = p \o first
    BY DEF UpdateBlock, copy, p
  <2> HIDE DEF block, first
  <2>2. QED
    BY <1>1, <1>4, <2>1, ConcatProperties
<1> HIDE DEF block, first, rest
<1>6. Len(block) <= BASE_BLOCK
  BY <1>1, <1>2, <1>3, <1>5
<1>7. UpdateFull(c, cells) <=> Len(block) >= BASE_BLOCK
  BY DEF UpdateFull, block
<1>8. block = << >> <=> Len(block) = 0
  BY <1>2, <1>5, EmptySeq
<1>9. CASE UpdateFull(c, cells) \/ block = << >>
  <2>1. m = Len(rest) - (Len(rest) % BASE_BLOCK)
    BY <1>9 DEF UpdateWhole, rest, block
  <2>2. Len(rest) \in Nat
    BY <1>4, LenProperties
  <2>3. m \in Nat /\ m <= Len(rest) /\ Len(rest) - m < BASE_BLOCK
        /\ \E q \in Nat : m = q * BASE_BLOCK
    BY <2>1, <2>2, BaseDivision
  <2>4. kept = DropFirst(rest, m)
    BY DEF UpdateKept, rest
  <2> HIDE DEF m, kept
  <2>5. /\ whole \in Seq(Cells) /\ Len(whole) = m
        /\ kept \in Seq(Cells) /\ Len(kept) = Len(rest) - m
        /\ whole \o kept = rest
    BY <1>4, <2>3, <2>4, CutIs
  <2>6. Blocks(whole) /\ Len(kept) < BASE_BLOCK
    BY <2>3, <2>5 DEF Blocks
  <2> HIDE DEF whole
  <2>7. Parted(c, cells, first, rest, whole, kept)
    BY <1>4, <1>6, <1>9, <2>5, <2>6 DEF Parted, first, rest, whole, kept, block, copy, m
  <2>8. QED
    BY <2>7
<1>10. CASE ~ (UpdateFull(c, cells) \/ block = << >>)
  <2>1. copy = n
    BY <1>1, <1>2, <1>3, <1>5, <1>7, <1>8, <1>10
  <2>2. Len(rest) = 0 /\ rest = << >>
    BY <1>1, <1>4, <2>1, EmptySeq
  <2>3. m = 0
    BY <1>10 DEF UpdateWhole, block
  <2> DEFINE z == 0
  <2>4. m = z /\ z \in Nat /\ z <= Len(rest) /\ kept = DropFirst(rest, m)
    BY <2>2, <2>3 DEF UpdateKept, rest
  <2> HIDE DEF z, kept, m
  <2>5. /\ whole \in Seq(Cells) /\ Len(whole) = m
        /\ kept \in Seq(Cells) /\ Len(kept) = Len(rest) - m
        /\ whole \o kept = rest
    BY <1>4, <2>4, CutIs
  <2> HIDE DEF whole
  <2>6. whole = << >> /\ kept = << >>
    BY <2>2, <2>3, <2>5, EmptySeq
  <2>7. Blocks(whole)
    <3>1. 0 \in Nat /\ 0 * BASE_BLOCK = 0
      BY <1>1
    <3>2. QED
      BY <2>3, <2>5, <3>1 DEF Blocks
  <2>8. Parted(c, cells, first, rest, whole, kept)
    BY <1>4, <1>6, <1>10, <2>5, <2>6, <2>7 DEF Parted, first, rest, whole, kept, block, copy, m
  <2>9. QED
    BY <2>8
<1>11. QED
  BY <1>9, <1>10

LEMMA CellsJoin ==
  \A s, t \in Seq(Cells) : s \o t \in Seq(Cells)
  BY ConcatProperties

LEMMA CellsAssoc ==
  \A s, t, u \in Seq(Cells) : (s \o t) \o u = s \o (t \o u)
  BY ConcatAssociative

LEMMA Regroup ==
  \A d, p, f, w, k \in Seq(Cells) :
      ((d \o (p \o f)) \o w) \o k = (d \o p) \o (f \o (w \o k))
<1> SUFFICES ASSUME NEW d \in Seq(Cells), NEW p \in Seq(Cells), NEW f \in Seq(Cells),
                    NEW w \in Seq(Cells), NEW k \in Seq(Cells)
             PROVE  ((d \o (p \o f)) \o w) \o k = (d \o p) \o (f \o (w \o k))
  OBVIOUS
<1>1. p \o f \in Seq(Cells) /\ d \o p \in Seq(Cells) /\ w \o k \in Seq(Cells)
  BY CellsJoin
<1>2. d \o (p \o f) = (d \o p) \o f
  BY CellsAssoc, ZenonT(30)
<1>3. (d \o p) \o f \in Seq(Cells)
  BY <1>1, ConcatProperties
<1>4. (((d \o p) \o f) \o w) \o k = ((d \o p) \o f) \o (w \o k)
  BY <1>3, CellsAssoc
<1>5. ((d \o p) \o f) \o (w \o k) = (d \o p) \o (f \o (w \o k))
  <2> DEFINE dp == d \o p
             wk == w \o k
  <2>1. dp \in Seq(Cells) /\ wk \in Seq(Cells)
    BY <1>1
  <2> HIDE DEF dp, wk
  <2>2. (dp \o f) \o wk = dp \o (f \o wk)
    <3>1. \A x, y \in Seq(Cells) : (x \o f) \o y = x \o (f \o y)
      BY CellsAssoc
    <3>2. QED
      BY <2>1, <3>1
  <2>3. QED
    BY <2>2 DEF dp, wk
<1>6. QED
  BY <1>2, <1>4, <1>5

LEMMA UpdateIs ==
  ASSUME NEW c \in BaseRec, NEW cells \in Seq(Cells),
         Len(c.partial_block_buffer) < BASE_BLOCK
  PROVE  Updated(c, cells, base_update(c, cells))
<1> DEFINE p     == c.partial_block_buffer
           d     == c.result_digest
           block == UpdateBlock(c, cells)
           u     == base_update(c, cells)
           full  == IF UpdateFull(c, cells) THEN block ELSE << >>
<1>1. PICK first, rest, whole, kept : Parted(c, cells, first, rest, whole, kept)
  BY PartedIs
<1>2. /\ first \in Seq(Cells) /\ rest \in Seq(Cells) /\ whole \in Seq(Cells) /\ kept \in Seq(Cells)
      /\ first \o rest = cells /\ whole \o kept = rest
      /\ Len(block) <= BASE_BLOCK /\ Blocks(whole)
  BY <1>1 DEF Parted
<1>3. p \in Seq(Cells) /\ d \in Seq(Cells) /\ << >> \in Seq(Cells)
  BY EmptySeq DEF BaseRec
<1>4. block = p \o first
  BY <1>1 DEF UpdateBlock, Parted
<1>5. /\ u.result_digest = (d \o full) \o whole
      /\ u.partial_block_buffer = IF kept # << >> THEN kept
                                  ELSE IF UpdateFull(c, cells) THEN << >> ELSE block
  <2>1. whole = SubSeq(UpdateRest(c, cells), 1, UpdateWhole(c, cells)) /\ kept = UpdateKept(c, cells)
    BY <1>1 DEF Parted
  <2>2. u.result_digest = (d \o full) \o SubSeq(UpdateRest(c, cells), 1, UpdateWhole(c, cells))
    BY UpdateFields
  <2>3. u.partial_block_buffer = IF UpdateKept(c, cells) # << >> THEN UpdateKept(c, cells)
                                 ELSE IF UpdateFull(c, cells) THEN << >> ELSE block
    BY UpdateFields
  <2> HIDE DEF u, block, d, full
  <2>4. QED
    BY <2>1, <2>2, <2>3
<1>6. \/ UpdateFull(c, cells) /\ Len(kept) < BASE_BLOCK
      \/ ~UpdateFull(c, cells) /\ block = << >> /\ Len(kept) < BASE_BLOCK
      \/ ~UpdateFull(c, cells) /\ block # << >> /\ whole = << >> /\ kept = << >>
  BY <1>1 DEF Parted
<1>7. UpdateFull(c, cells) <=> Len(block) >= BASE_BLOCK
  BY DEF UpdateFull
<1> HIDE DEF p, d, u, block
<1>8. /\ d \in Seq(Cells) /\ p \in Seq(Cells) /\ first \in Seq(Cells)
       /\ whole \in Seq(Cells) /\ kept \in Seq(Cells)
  BY <1>2, <1>3
<1>9. ((d \o (p \o first)) \o whole) \o kept = (d \o p) \o (first \o (whole \o kept))
  <2>1. \A v, x, y, z \in Seq(Cells) :
            ((d \o (v \o x)) \o y) \o z = (d \o v) \o (x \o (y \o z))
    BY <1>8, Regroup
  <2>2. \A x, y, z \in Seq(Cells) :
            ((d \o (p \o x)) \o y) \o z = (d \o p) \o (x \o (y \o z))
    BY <1>8, <2>1
  <2>3. \A y, z \in Seq(Cells) :
            ((d \o (p \o first)) \o y) \o z = (d \o p) \o (first \o (y \o z))
    BY <1>8, <2>2
  <2>4. QED
    BY <1>8, <2>3
<1>10. block \in Seq(Cells)
  BY <1>2, <1>3, <1>4, ConcatProperties
<1>11. full \in Seq(Cells)
  BY <1>3, <1>10
<1>12. Blocks(full)
  <2>1. BASE_BLOCK \in Nat /\ 1 * BASE_BLOCK = BASE_BLOCK /\ 0 * BASE_BLOCK = 0
    BY BaseAssumption
  <2>2. CASE UpdateFull(c, cells)
    <3>1. Len(block) = 1 * BASE_BLOCK
      BY <1>2, <1>7, <1>10, <2>1, <2>2, LenProperties
    <3>2. QED
      BY <2>2, <3>1 DEF Blocks
  <2>3. CASE ~UpdateFull(c, cells)
    <3>1. Len(full) = 0 * BASE_BLOCK
      BY <2>1, <2>3, EmptySeq
    <3>2. QED
      BY <3>1 DEF Blocks
  <2>4. QED
    BY <2>2, <2>3
<1>13. u.result_digest \in Seq(Cells) /\ u.partial_block_buffer \in Seq(Cells)
  <2>1. (d \o full) \o whole \in Seq(Cells)
    <3> HIDE DEF full
    <3>1. d \o full \in Seq(Cells)
      BY <1>3, <1>11, ConcatProperties
    <3>2. QED
      BY <1>2, <3>1, ConcatProperties
  <2>2. QED
    BY <1>2, <1>3, <1>5, <1>10, <2>1
<1>14. Len(u.partial_block_buffer) < BASE_BLOCK
  <2>1. BASE_BLOCK > 0 /\ Len(block) \in Nat /\ BASE_BLOCK \in Nat
    BY <1>10, BaseAssumption, LenProperties
  <2>2. QED
    BY <1>5, <1>6, <1>7, <2>1, EmptySeq
<1>15. Blocks(d) => Blocks(u.result_digest)
  <2> HIDE DEF full
  <2>1. SUFFICES ASSUME Blocks(d) PROVE Blocks(u.result_digest)
    OBVIOUS
  <2>2. Blocks(d \o full) /\ d \o full \in Seq(Cells)
    BY <1>3, <1>11, <1>12, <2>1, BlocksJoin, ConcatProperties
  <2>3. QED
    BY <1>2, <1>5, <2>2, BlocksJoin
<1>16. u.result_digest \o u.partial_block_buffer = (d \o p) \o cells
  <2>1. (d \o p) \o cells = (d \o p) \o (first \o (whole \o kept))
    BY <1>2
  <2>2. CASE UpdateFull(c, cells)
    <3>1. full = block /\ u.partial_block_buffer = kept
      BY <1>5, <2>2
    <3> HIDE DEF full
    <3>2. QED
      BY <1>4, <1>5, <1>9, <2>1, <3>1
  <2>3. CASE ~UpdateFull(c, cells) /\ block = << >>
    <3>1. full = << >> /\ u.partial_block_buffer = kept
      BY <1>5, <2>3
    <3> HIDE DEF full
    <3>2. p \o first = << >>
      BY <1>4, <2>3
    <3>3. QED
      BY <1>5, <1>9, <2>1, <3>1, <3>2
  <2>4. CASE ~UpdateFull(c, cells) /\ block # << >>
    <3>1. full = << >> /\ u.partial_block_buffer = block /\ whole = << >> /\ kept = << >>
      BY <1>5, <1>6, <2>4
    <3> HIDE DEF full
    <3>2. (d \o << >>) \o << >> = d
      BY <1>3, ConcatEmptySeq
    <3>3. u.result_digest = d
      BY <1>5, <3>1, <3>2
    <3>4. whole \o kept = << >> /\ first \o << >> = first
      BY <1>2, <3>1, ConcatEmptySeq
    <3>5. (d \o p) \o first = d \o (p \o first)
      BY <1>8, CellsAssoc, SMTT(30)
    <3>6. QED
      BY <1>4, <2>1, <3>1, <3>3, <3>4, <3>5
  <2>5. QED
    BY <2>2, <2>3, <2>4
<1>17. QED
  BY <1>13, <1>14, <1>15, <1>16 DEF Updated, u, d, p
-----------------------------------------------------------------------------
(* Where the padding ends.                                                 *)
LEMMA ModuloIs ==
  ASSUME NEW b \in Nat \ {0}, NEW q \in Nat, NEW r \in 0 .. b - 1
  PROVE  (q * b + r) % b = r
  OBVIOUS

FillAt(b, p, f) == IF p + 1 > b - f THEN 2 * b - (p + 1 + f) ELSE b - (p + 1 + f)

LEMMA FillIs ==
  ASSUME NEW b \in Nat \ {0}, NEW q \in Nat, NEW p \in 0 .. b - 1, NEW f \in 1 .. b - 1,
         NEW n \in Nat, n = q * b + p
  PROVE  FillOf(n, b, f) = FillAt(b, p, f)
<1> DEFINE r == p + 1 + f
           s == r - b
<1>1. r \in Nat /\ q + 1 \in Nat /\ (p + 1 > b - f <=> r > b) /\ r < 2 * b
  OBVIOUS
<1>2. n + 1 + f = q * b + r
  OBVIOUS
<1>3. (q + 1) * b = q * b + b
  OBVIOUS
<1>4. CASE r < b
  <2>1. r \in 0 .. b - 1
    BY <1>1, <1>4
  <2> HIDE DEF r
  <2>2. (n + 1 + f) % b = r
    BY <1>2, <2>1, ModuloIs
  <2>3. b - r \in 0 .. b - 1
    BY <1>1, <1>4, <2>1 DEF r
  <2>4. (b - r) % b = b - r
    BY <2>3
  <2>5. QED
    BY <1>1, <1>4, <2>2, <2>4 DEF FillOf, FillAt, r
<1>5. CASE r >= b
  <2>1. s \in 0 .. b - 1
    BY <1>1, <1>5
  <2>2. n + 1 + f = (q + 1) * b + s
    BY <1>2, <1>3
  <2> HIDE DEF r, s
  <2>3. (n + 1 + f) % b = s
    BY <1>1, <2>1, <2>2, ModuloIs
  <2>4. CASE s = 0
    <3>1. (b - s) % b = 0
      BY <2>4
    <3>2. r = b
      BY <1>1, <2>4 DEF s
    <3>3. QED
      BY <1>1, <2>3, <3>1, <3>2 DEF FillOf, FillAt, r
  <2>5. CASE s # 0
    <3>1. b - s \in 0 .. b - 1
      BY <2>1, <2>5
    <3>2. (b - s) % b = b - s
      BY <3>1
    <3>3. r > b /\ b - s = 2 * b - r
      BY <1>1, <1>5, <2>1, <2>5 DEF s
    <3>4. QED
      BY <1>1, <2>3, <3>2, <3>3 DEF FillOf, FillAt, r
  <2>6. QED
    BY <2>4, <2>5
<1>6. QED
  BY <1>1, <1>4, <1>5

(* Two sequences of n cells and their padding are the same.                *)
LEMMA PaddedSame ==
  ASSUME NEW s, NEW t, NEW n \in Nat, NEW end \in Nat, IsPadded(s, n, end), IsPadded(t, n, end)
  PROVE  s = t
<1>1. s \in Seq(Cells) /\ t \in Seq(Cells) /\ Len(s) = end /\ Len(t) = end
  BY DEF IsPadded
<1>2. \A i \in 1 .. end : s[i] = t[i]
  BY DEF IsPadded
<1>3. QED
  BY <1>1, <1>2, SeqEqual

LEMMA MessageIs ==
  ASSUME NEW n \in Nat
  PROVE  /\ WholeMessage(n) \in Seq(Cells)
         /\ Len(WholeMessage(n)) = n
         /\ \A i \in 1 .. n : WholeMessage(n)[i] = Cell(i)
<1> DEFINE z == 0
<1>1. z \in Nat /\ \A i \in 1 .. n : z + i = i
  OBVIOUS
<1>2. WholeMessage(n) = Piece(z, n)
  BY DEF WholeMessage
<1> HIDE DEF z
<1>3. QED
  BY <1>1, <1>2, PieceIs, ZenonT(30)

(* A message in two parts, the mark, zeros and the length are the message  *)
(* and its padding.  (Digest d, partial block p.)                          *)
PaddedBlock(p, end, n) ==
    LET marked == p \o <<Hex80>>
        buf    == marked \o Zeros(end - Len(marked))
    IN  [buf EXCEPT ![end] = LengthCell(n)]

LEMMA PaddedBlockIs ==
  ASSUME NEW p \in Seq(Cells), NEW end \in Nat, NEW n \in Nat, Len(p) + 1 < end
  PROVE  /\ PaddedBlock(p, end, n) \in Seq(Cells)
         /\ Len(PaddedBlock(p, end, n)) = end
         /\ \A i \in 1 .. Len(p) : PaddedBlock(p, end, n)[i] = p[i]
         /\ \A i \in Len(p) + 1 .. end :
                PaddedBlock(p, end, n)[i] = IF i = Len(p) + 1 THEN Hex80
                                            ELSE IF i = end THEN LengthCell(n) ELSE Zero
<1> DEFINE m      == <<Hex80>>
           k      == Len(p)
           marked == p \o m
           z      == end - (k + 1)
           o      == Zeros(z)
           buf    == marked \o o
<1>1. Hex80 \in Cells /\ LengthCell(n) \in Cells /\ k \in Nat /\ z \in Nat
  <2>1. Hex80 \in Cells /\ LengthCell(n) \in Cells
    BY DEF Cells
  <2>2. k \in Nat
    BY LenProperties
  <2>3. z \in Nat
    BY <2>2
  <2>4. QED
    BY <2>1, <2>2, <2>3
<1>2. m \in Seq(Cells) /\ Len(m) = 1 /\ m[1] = Hex80
  BY <1>1, OneIs
<1> HIDE DEF m
<1>3. Joined(Cells, p, m, marked)
  BY <1>2, JoinIs
<1> HIDE DEF marked
<1>4. /\ marked \in Seq(Cells) /\ Len(marked) = k + 1
      /\ \A i \in 1 .. k : marked[i] = p[i]
      /\ marked[k + 1] = Hex80
  BY <1>1, <1>2, <1>3 DEF Joined
<1>5. o \in Seq(Cells) /\ Len(o) = z /\ \A i \in 1 .. z : o[i] = Zero
  BY <1>1, ZerosAre
<1> HIDE DEF o
<1>6. Joined(Cells, marked, o, buf)
  BY <1>4, <1>5, JoinIs
<1>7. PaddedBlock(p, end, n) = [buf EXCEPT ![end] = LengthCell(n)]
  BY <1>4 DEF PaddedBlock, m, marked, o
<1> HIDE DEF buf
<1>8. /\ buf \in Seq(Cells) /\ Len(buf) = end
      /\ \A i \in 1 .. k : buf[i] = p[i]
      /\ buf[k + 1] = Hex80
      /\ \A i \in k + 2 .. end : buf[i] = Zero
  <2>1. buf \in Seq(Cells) /\ Len(buf) = (k + 1) + z
        /\ (\A i \in 1 .. k + 1 : buf[i] = marked[i])
        /\ (\A i \in 1 .. z : buf[(k + 1) + i] = o[i])
    BY <1>4, <1>5, <1>6 DEF Joined
  <2>2. ASSUME NEW i \in k + 2 .. end PROVE buf[i] = Zero
    <3>1. i - (k + 1) \in 1 .. z /\ (k + 1) + (i - (k + 1)) = i
      BY <1>1
    <3>2. QED
      BY <1>5, <2>1, <3>1
  <2>3. QED
    BY <1>1, <1>4, <2>1, <2>2
<1> DEFINE t == [buf EXCEPT ![end] = LengthCell(n)]
<1>9. /\ t \in Seq(Cells) /\ Len(t) = end
      /\ \A i \in 1 .. end : t[i] = IF i = end THEN LengthCell(n) ELSE buf[i]
  <2>1. end \in 1 .. Len(buf)
    BY <1>1, <1>8
  <2>2. QED
    BY <1>1, <1>8, <2>1, ExceptSeq
<1> HIDE DEF t
<1>10. \A i \in 1 .. k : t[i] = p[i]
  BY <1>1, <1>8, <1>9
<1>11. \A i \in k + 1 .. end : t[i] = IF i = k + 1 THEN Hex80 ELSE IF i = end THEN LengthCell(n) ELSE Zero
  BY <1>1, <1>8, <1>9
<1>12. QED
  BY <1>7, <1>9, <1>10, <1>11 DEF t
(* base_final: the hash is that of the whole message with its padding.     *)
LEMMA FinalIs ==
  ASSUME NEW c \in BaseRec, NEW n \in Nat, Holds(c, n), c.total_length = n,
         Len(c.partial_block_buffer) < BASE_BLOCK,
         NEW field \in {FIELD64, FIELD128}
  PROVE  /\ base_final(c, field).status = "COMPLETE"
         /\ base_final(c, field).error = c.error
         /\ base_final(c, field).total_length = n
         /\ base_final(c, field).partial_block_buffer = c.partial_block_buffer
         /\ base_final(c, field).result_digest = PaddedMessage(n, BASE_BLOCK, field)
         /\ base_final(c, field).result_digest \in Seq(Cells)
<1> DEFINE p     == c.partial_block_buffer
           d     == c.result_digest
           k     == Len(p)
           end   == PadEnd(k + 1, field)
           block == PaddedBlock(p, end, n)
           t     == d \o block
           whole == WholeMessage(n)
<1>1. /\ BASE_BLOCK \in Nat \ {0} /\ field \in 1 .. BASE_BLOCK - 1
      /\ p \in Seq(Cells) /\ d \in Seq(Cells) /\ k \in 0 .. BASE_BLOCK - 1
  <2>1. p \in Seq(Cells) /\ d \in Seq(Cells)
    BY DEF BaseRec
  <2>2. k \in Nat
    BY <2>1, LenProperties
  <2>3. QED
    BY <2>1, <2>2, BaseAssumption
<1>2. PICK q \in Nat : Len(d) = q * BASE_BLOCK
  BY DEF Holds, Blocks
<1>3. whole \in Seq(Cells) /\ Len(whole) = n /\ (\A i \in 1 .. n : whole[i] = Cell(i))
      /\ whole = d \o p
  BY MessageIs DEF Holds
<1>4. end = IF k + 1 > BASE_BLOCK - field THEN 2 * BASE_BLOCK ELSE BASE_BLOCK
  BY DEF PadEnd
<1>5. end \in Nat /\ k + 1 < end /\ end \in BASE_BLOCK .. 2 * BASE_BLOCK
  <2> HIDE DEF end, k
  <2>1. QED BY <1>1, <1>4
<1>6. base_final(c, field).result_digest = t
  <2>1. Len(p \o <<Hex80>>) = k + 1
    <3>1. Hex80 \in Cells
      BY DEF Cells
    <3>2. <<Hex80>> \in Seq(Cells) /\ Len(<<Hex80>>) = 1
      BY <3>1, OneIs
    <3>3. QED
      BY <1>1, <3>2, ConcatProperties
  <2>2. block = [((p \o <<Hex80>>) \o Zeros(end - Len(p \o <<Hex80>>)))
                    EXCEPT ![end] = LengthCell(n)]
    BY DEF PaddedBlock
  <2>3. base_final(c, field).result_digest
            = d \o [((p \o <<Hex80>>) \o Zeros(PadEnd(Len(p \o <<Hex80>>), field) - Len(p \o <<Hex80>>)))
                        EXCEPT ![PadEnd(Len(p \o <<Hex80>>), field)] = LengthCell(c.total_length)]
    BY DEF base_final, BaseRec
  <2>4. QED
    BY <2>1, <2>2, <2>3
<1>7. /\ block \in Seq(Cells) /\ Len(block) = end
      /\ \A i \in 1 .. k : block[i] = p[i]
      /\ \A i \in k + 1 .. end :
            block[i] = IF i = k + 1 THEN Hex80 ELSE IF i = end THEN LengthCell(n) ELSE Zero
  <2> HIDE DEF end
  <2>1. QED BY <1>1, <1>5, PaddedBlockIs
<1> HIDE DEF p, d, k, end, block, whole
<1>8. Joined(Cells, d, p, whole)
  BY <1>1, <1>3, JoinIs
<1>9. Joined(Cells, d, block, t)
  BY <1>1, <1>7, JoinIs
<1> HIDE DEF t
<1> DEFINE e == Len(d)
<1>10. /\ e \in Nat /\ n = e + k /\ Len(t) = e + end /\ t \in Seq(Cells)
       /\ \A i \in 1 .. e : t[i] = d[i] /\ whole[i] = d[i]
       /\ \A i \in 1 .. k : whole[e + i] = p[i]
       /\ \A i \in 1 .. end : t[e + i] = block[i]
  BY <1>3, <1>7, <1>8, <1>9 DEF Joined, k
<1>11. IsPadded(t, n, e + end)
  <2> HIDE DEF e
  <2>1. ASSUME NEW i \in 1 .. e + end PROVE t[i] = PaddedCell(n, e + end, i)
    <3>1. CASE i <= e
      <4>1. i \in 1 .. e /\ i \in 1 .. n /\ i <= n
        BY <1>1, <1>10, <3>1
      <4>2. QED
        BY <1>3, <1>10, <4>1 DEF PaddedCell
    <3>2. CASE i > e /\ i <= n
      <4>1. i - e \in 1 .. k /\ e + (i - e) = i /\ i - e \in 1 .. end
        BY <1>1, <1>5, <1>10, <3>2, SMTT(30)
      <4>2. t[i] = whole[i]
        BY <1>7, <1>10, <4>1
      <4>3. QED
        BY <1>3, <3>2, <4>2 DEF PaddedCell
    <3>3. CASE i > n
      <4>1. /\ i - e \in k + 1 .. end /\ e + (i - e) = i /\ i - e \in 1 .. end
            /\ (i - e = k + 1 <=> i = n + 1) /\ (i - e = end <=> i = e + end)
        BY <1>1, <1>5, <1>10, <3>3
      <4>2. t[i] = block[i - e]
        BY <1>10, <4>1
      <4>3. QED
        BY <1>7, <3>3, <4>1, <4>2 DEF PaddedCell
    <3>4. QED
      BY <1>10, <3>1, <3>2, <3>3
  <2>2. QED
    BY <1>10, <2>1 DEF IsPadded
<1>12. n + 1 + FillOf(n, BASE_BLOCK, field) + field = e + end
  <2>1. n = q * BASE_BLOCK + k
    BY <1>2, <1>10
  <2>2. FillOf(n, BASE_BLOCK, field) = FillAt(BASE_BLOCK, k, field)
    <3>1. /\ BASE_BLOCK \in Nat \ {0} /\ q \in Nat /\ k \in 0 .. BASE_BLOCK - 1
          /\ field \in 1 .. BASE_BLOCK - 1 /\ n \in Nat /\ n = q * BASE_BLOCK + k
      BY <1>1, <1>2, <2>1
    <3>2. QED
      BY ONLY <3>1, FillIs
  <2> HIDE DEF e
  <2>3. FillOf(n, BASE_BLOCK, field) = end - (k + 1 + field)
    BY <1>4, <2>2 DEF FillAt
  <2>4. QED
    BY <1>1, <1>5, <1>10, <2>3
<1>13. IsPadded(PaddedMessage(n, BASE_BLOCK, field), n, e + end)
  BY <1>1, <1>12, PaddedMessageIs
<1>14. PaddedMessage(n, BASE_BLOCK, field) = t
  <2> HIDE DEF e
  <2>1. e + end \in Nat
    BY <1>5, <1>10
  <2>2. QED
    BY <1>11, <1>13, <2>1, PaddedSame
<1>15. /\ base_final(c, field).status = "COMPLETE"
       /\ base_final(c, field).error = c.error
       /\ base_final(c, field).total_length = n
       /\ base_final(c, field).partial_block_buffer = p
  BY DEF base_final, BaseRec, p
<1>16. QED
  BY <1>6, <1>10, <1>14, <1>15 DEF p
-----------------------------------------------------------------------------
(* An unfinished base context holds its message so far; a finished one has *)
(* the digest of the whole message or none.                                *)
BaseInv ==
    /\ baseHash \in BaseHashes
    /\ base \in BaseRec
    /\ base.status \in {"IDLE", "COMPLETE"}
    /\ base.total_length \in 0 .. BaseMaxTotal
    /\ baseLength \in 0 .. BaseMaxTotal
    /\ Len(base.partial_block_buffer) < BASE_BLOCK
    /\ base.status = "IDLE" => Holds(base, baseLength) /\ base.total_length = baseLength
    /\ base.status = "COMPLETE" =>
            \/ base.result_digest = << >>
            \/ base.result_digest = PaddedMessage(baseLength, BASE_BLOCK, BaseField)

(* A context that an accepted submit works on.                             *)
Started(c, n) ==
    /\ c \in BaseRec
    /\ Len(c.partial_block_buffer) < BASE_BLOCK
    /\ Holds(c, n)
    /\ c.total_length = n

LEMMA FreshHolds == Started(base_init, 0)
<1>1. << >> \in Seq(Cells) /\ Len(<< >>) = 0
  OBVIOUS
<1>2. base_init \in BaseRec
  BY <1>1 DEF base_init, BaseRec
<1>3. BASE_BLOCK \in Nat \ {0}
  BY BaseAssumption
<1>4. WholeMessage(0) = << >>
  BY MessageIs, EmptySeq
<1>5. << >> \o << >> = << >>
  OBVIOUS
<1>6. 0 = 0 * BASE_BLOCK
  BY <1>3
<1>7. /\ base_init.result_digest = << >> /\ base_init.partial_block_buffer = << >>
      /\ base_init.total_length = 0
  BY DEF base_init
<1>8. Blocks(base_init.result_digest)
  BY <1>1, <1>6, <1>7 DEF Blocks
<1>9. QED
  BY <1>1, <1>2, <1>3, <1>4, <1>5, <1>7, <1>8 DEF Started, Holds

(* An update takes a started context from n cells to n + len.              *)
LEMMA UpdateHolds ==
  ASSUME NEW n \in Nat, NEW len \in Nat, NEW c, Started(c, n)
  PROVE  /\ Started(base_update(c, Piece(n, len)), n + len)
         /\ base_update(c, Piece(n, len)).status = "IDLE"
<1> DEFINE cells == Piece(n, len)
           u == base_update(c, cells)
<1>1. cells \in Seq(Cells) /\ Len(cells) = len
  BY PieceIs
<1>2. c \in BaseRec /\ Len(c.partial_block_buffer) < BASE_BLOCK /\ Holds(c, n)
      /\ c.total_length = n
  BY DEF Started
<1> HIDE DEF cells
<1>3. Updated(c, cells, u)
  BY <1>1, <1>2, UpdateIs
<1>4. u.status = "IDLE" /\ u.error = c.error /\ u.total_length = n + len
  BY <1>1, <1>2, UpdateFields
<1>5. u \in BaseRec
  <2>1. u.partial_block_buffer \in Seq(Cells) /\ u.result_digest \in Seq(Cells)
    BY <1>3 DEF Updated
  <2>2. u = [c EXCEPT !.status = u.status, !.total_length = u.total_length,
                      !.result_digest = u.result_digest,
                      !.partial_block_buffer = u.partial_block_buffer]
    BY <1>2 DEF base_update, BaseRec
  <2>3. u.status \in {"IDLE", "PROCESSING", "COMPLETE"} /\ u.total_length \in Nat
    BY <1>4
  <2> HIDE DEF u
  <2>4. QED
    BY <1>2, <2>1, <2>2, <2>3 DEF BaseRec
<1> HIDE DEF u
<1>6. Holds(u, n + len)
  <2>1. WholeMessage(n) \o cells = WholeMessage(n + len)
    BY MessageGrows DEF cells
  <2>2. QED
    BY <1>2, <1>3, <2>1 DEF Holds, Updated
<1>7. QED
  BY <1>3, <1>4, <1>5, <1>6 DEF Started, Updated, u, cells

(* An accepted submit, whatever the length field.                          *)
LEMMA AcceptedIs ==
  ASSUME NEW c \in BaseRec, NEW n \in Nat, NEW len \in Nat, NEW flags,
         NEW field \in {FIELD64, FIELD128},
         base_misuse(c, flags) = "NONE",
         Started(IF "FIRST" \in flags THEN base_init ELSE c, n)
  PROVE  LET d == base_submit(c, Piece(n, len), flags, field)
         IN  /\ d \in BaseRec
             /\ d.total_length = n + len
             /\ Len(d.partial_block_buffer) < BASE_BLOCK
             /\ \/ d.status = "IDLE" /\ Holds(d, n + len)
                \/ /\ d.status = "COMPLETE"
                   /\ d.result_digest = PaddedMessage(n + len, BASE_BLOCK, field)
<1> DEFINE s == IF "FIRST" \in flags THEN base_init ELSE c
           u == base_update(s, Piece(n, len))
           f == base_final(u, field)
<1>1. Started(u, n + len) /\ u.status = "IDLE"
  <2> HIDE DEF s
  <2>1. QED BY UpdateHolds DEF s
<1>2. base_submit(c, Piece(n, len), flags, field) = IF "LAST" \in flags THEN f ELSE u
  BY DEF base_submit
<1> HIDE DEF u
<1>3. /\ u \in BaseRec /\ Len(u.partial_block_buffer) < BASE_BLOCK /\ Holds(u, n + len)
      /\ u.total_length = n + len /\ n + len \in Nat
  BY <1>1 DEF Started
<1>4. /\ f.status = "COMPLETE" /\ f.error = u.error /\ f.total_length = n + len
      /\ f.partial_block_buffer = u.partial_block_buffer
      /\ f.result_digest = PaddedMessage(n + len, BASE_BLOCK, field)
      /\ f.result_digest \in Seq(Cells)
  BY <1>3, FinalIs
<1>5. f \in BaseRec
  <2>1. f = [u EXCEPT !.status = f.status, !.result_digest = f.result_digest]
    BY <1>3 DEF base_final, BaseRec
  <2>2. f.status \in {"IDLE", "PROCESSING", "COMPLETE"}
    BY <1>4
  <2> HIDE DEF f
  <2>3. QED
    BY <1>3, <1>4, <2>1, <2>2 DEF BaseRec
<1> HIDE DEF f
<1>6. QED
  BY <1>1, <1>2, <1>3, <1>4, <1>5
LEMMA BasePart == Init /\ [][Next]_vars => BaseInit /\ [][BaseNext]_baseVars
<1>1. Init => BaseInit
  BY DEF Init
<1>2. [Next]_vars => [BaseNext]_baseVars
  BY DEF Next, vars, baseVars, BaseStep, MhStep, GcmStep, XtsStep, CbcStep, RollingStep,
         DispatchStep, ApiStep
<1>3. QED
  BY <1>1, <1>2, PTL

LEMMA SubmitKeeps ==
  ASSUME BaseInv, NEW len \in Nat, NEW flags \in BaseFlags, BaseSubmit(len, flags)
  PROVE  BaseInv'
<1> DEFINE before == IF "FIRST" \in flags THEN 0 ELSE baseLength
           start  == IF "FIRST" \in flags THEN base_init ELSE base
           d      == base_submit(base, Piece(before, len), flags, BaseField)
<1>1. /\ before + len <= BaseMaxTotal
      /\ baseLength' = IF base_misuse(base, flags) = "NONE" THEN before + len ELSE baseLength
      /\ baseHash' = baseHash
  BY DEF BaseSubmit
<1>2. base' = d
  BY DEF BaseSubmit, BaseField, sha1_submit, sha256_submit, sha512_submit, md5_submit, sm3_submit
<1>3. BaseField \in {FIELD64, FIELD128} /\ BaseField' = BaseField
  BY <1>1 DEF BaseField
<1>4. /\ base \in BaseRec /\ baseLength \in 0 .. BaseMaxTotal /\ BaseMaxTotal \in Nat
      /\ before \in Nat
  BY BaseAssumption DEF BaseInv
<1>5. CASE base_misuse(base, flags) = "NONE"
  <2>1. Started(start, before)
    <3>1. CASE "FIRST" \in flags
      BY <3>1, FreshHolds
    <3>2. CASE "FIRST" \notin flags
      <4>1. base.status = "IDLE"
        BY <1>5, <3>2 DEF base_misuse, BaseInv
      <4>2. QED
        BY <3>2, <4>1 DEF BaseInv, Started
    <3>3. QED
      BY <3>1, <3>2
  <2> HIDE DEF before
  <2>2. /\ d \in BaseRec
        /\ d.total_length = before + len
        /\ Len(d.partial_block_buffer) < BASE_BLOCK
        /\ \/ d.status = "IDLE" /\ Holds(d, before + len)
           \/ /\ d.status = "COMPLETE"
              /\ d.result_digest = PaddedMessage(before + len, BASE_BLOCK, BaseField)
    BY <1>3, <1>4, <1>5, <2>1, AcceptedIs, SMTT(30)
  <2> HIDE DEF d
  <2>3. before + len \in 0 .. BaseMaxTotal /\ baseLength' = before + len
    BY <1>1, <1>4, <1>5
  <2>4. /\ baseHash' \in BaseHashes /\ base' \in BaseRec /\ base'.status \in {"IDLE", "COMPLETE"}
        /\ base'.total_length = baseLength' /\ baseLength' \in 0 .. BaseMaxTotal
        /\ Len(base'.partial_block_buffer) < BASE_BLOCK
    BY <1>1, <1>2, <2>2, <2>3 DEF BaseInv
  <2>5. /\ base'.status = "IDLE" => Holds(base', baseLength')
        /\ base'.status = "COMPLETE" =>
                base'.result_digest = PaddedMessage(baseLength', BASE_BLOCK, BaseField)
    BY <1>2, <2>2, <2>3
  <2>6. QED
    BY <1>3, <2>4, <2>5 DEF BaseInv
<1>6. CASE base_misuse(base, flags) # "NONE"
  <2>1. d = [base EXCEPT !.error = base_misuse(base, flags)]
    BY <1>6 DEF base_submit
  <2>2. base_misuse(base, flags) \in {"INVALID_FLAGS", "ALREADY_COMPLETED"}
    BY <1>6 DEF base_misuse, BaseInv
  <2> HIDE DEF d
  <2>3. /\ d \in BaseRec
        /\ d.status = base.status /\ d.total_length = base.total_length
        /\ d.partial_block_buffer = base.partial_block_buffer
        /\ d.result_digest = base.result_digest
    BY <1>4, <2>1, <2>2 DEF BaseRec
  <2>4. Holds(d, baseLength) <=> Holds(base, baseLength)
    BY <2>3 DEF Holds
  <2>5. baseLength' = baseLength
    BY <1>1, <1>6
  <2>6. QED
    BY <1>1, <1>2, <1>3, <2>3, <2>4, <2>5 DEF BaseInv
<1>7. QED
  BY <1>5, <1>6

LEMMA BaseStays == Init /\ [][Next]_vars => []BaseInv
<1>1. BaseInit => BaseInv
  <2> SUFFICES ASSUME BaseInit PROVE BaseInv
    OBVIOUS
  <2>1. << >> \in Seq(Cells) /\ Len(<< >>) = 0 /\ BASE_BLOCK \in Nat \ {0} /\ BaseMaxTotal \in Nat
    BY BaseAssumption
  <2>2. baseHash \in BaseHashes /\ base = hash_ctx_init /\ baseLength = 0
    BY DEF BaseInit
  <2>3. hash_ctx_init \in BaseRec
    BY <2>1 DEF hash_ctx_init, BaseRec
  <2>4. QED
    BY <2>1, <2>2, <2>3 DEF hash_ctx_init, BaseInv
<1>2. BaseInv /\ [BaseNext]_baseVars => BaseInv'
  <2> SUFFICES ASSUME BaseInv, [BaseNext]_baseVars PROVE BaseInv'
    OBVIOUS
  <2>1. CASE UNCHANGED baseVars
    BY <2>1 DEF baseVars, BaseInv, Holds, BaseField
  <2>2. CASE BaseNext
    <3>1. PICK len \in 0 .. BaseMaxTotal, flags \in BaseFlags : BaseSubmit(len, flags)
      BY <2>2 DEF BaseNext
    <3>2. len \in Nat
      BY BaseAssumption
    <3>3. QED
      BY <3>1, <3>2, SubmitKeeps
  <2>3. QED
    BY <2>1, <2>2
<1>3. QED
  BY <1>1, <1>2, BasePart, PTL

(* A finished portable context has the hash of its whole message, padded   *)
(* as the standard says, for every block, length field and way base_update *)
(* is given the pieces, and it keeps it over the calls base_misuse refuses.*)
THEOREM BaseDigestHolds == Spec => []BaseDigestIsReference
<1>1. BaseInv => BaseDigestIsReference
  BY DEF BaseInv, BaseField, BaseDigestIsReference
<1>2. QED
  BY <1>1, BaseStays, PTL DEF Spec
-----------------------------------------------------------------------------
(* GCM.  Division again: of a multiple and less than one more.             *)
LEMMA SplitIs ==
  ASSUME NEW b \in Nat \ {0}, NEW q \in Nat, NEW r \in 0 .. b - 1
  PROVE  (q * b + r) \div b = q /\ (q * b + r) % b = r
  OBVIOUS

LEMMA DivIs ==
  ASSUME NEW b \in Nat \ {0}, NEW q \in Nat, NEW r \in 0 .. b - 1, NEW a, a = q * b + r
  PROVE  a \div b = q /\ a % b = r
  BY SplitIs

(* The blocks that n bytes begin.                                          *)
LEMMA CeilIs ==
  ASSUME NEW n \in Nat
  PROVE  /\ CeilDiv(n) \in Nat
         /\ CeilDiv(n) = IF n % GCM_BLOCK = 0 THEN n \div GCM_BLOCK ELSE (n \div GCM_BLOCK) + 1
<1> DEFINE b == GCM_BLOCK
           q == n \div b
           r == n % b
<1>1. b \in Nat \ {0}
  BY GcmAssumption
<1>2. q \in Nat /\ r \in 0 .. b - 1 /\ n = q * b + r
  BY <1>1, DivisionOf
<1> HIDE DEF b, q, r
<1>3. (q + 1) * b = q * b + b /\ q + 1 \in Nat /\ q * b \in Nat
  BY <1>1, <1>2
<1>4. CASE r = 0
  <2>1. n + b - 1 = q * b + (b - 1) /\ b - 1 \in 0 .. b - 1
    BY <1>1, <1>2, <1>3, <1>4
  <2>2. (n + b - 1) \div b = q
    BY <1>1, <1>2, <2>1, SplitIs
  <2>3. QED
    BY <1>2, <1>4, <2>2 DEF CeilDiv, b, q, r
<1>5. CASE r # 0
  <2>1. n + b - 1 = (q + 1) * b + (r - 1) /\ r - 1 \in 0 .. b - 1
    BY <1>1, <1>2, <1>3, <1>5
  <2> DEFINE x == n + b - 1
             y == q + 1
             z == r - 1
  <2>2. x \div b = y
    <3>1. x = y * b + z /\ z \in 0 .. b - 1 /\ y \in Nat
      BY <1>3, <2>1
    <3> HIDE DEF x, y, z
    <3>2. QED
      BY <1>1, <3>1, DivIs
  <2>3. QED
    BY <1>3, <1>5, <2>2 DEF CeilDiv, b, q, r
<1>6. QED
  BY <1>4, <1>5

(* The fast increment is right while the low byte has room.                *)
LEMMA GroupInOrder ==
  ASSUME NEW ctr \in Nat
  PROVE  GroupCounters(ctr) = InOrder(ctr, GROUP)
<1> DEFINE r == ctr % LOW
           q == ctr \div LOW
<1>1. LOW \in Nat \ {0} /\ GROUP \in Nat
  BY GcmAssumption
<1>2. q \in Nat /\ r \in 0 .. LOW - 1 /\ ctr = q * LOW + r
  BY <1>1, DivisionOf
<1> HIDE DEF r, q
<1>3. q * LOW \in Nat
  BY <1>1, <1>2
<1>4. CASE ~ (r > (LOW - 1) - GROUP)
  <2>1. ASSUME NEW i \in 1 .. GROUP PROVE (ctr - r) + ((ctr + i) % LOW) = ctr + i
    <3>1. r + i \in 0 .. LOW - 1 /\ ctr + i = q * LOW + (r + i)
      BY <1>1, <1>2, <1>3, <1>4
    <3>2. (ctr + i) % LOW = r + i
      BY <1>1, <1>2, <3>1, SplitIs
    <3>3. QED
      BY <1>2, <1>3, <3>2
  <2>2. OutOfOrder(ctr, GROUP) = InOrder(ctr, GROUP)
    BY <2>1 DEF OutOfOrder, InOrder, r
  <2>3. QED
    BY <1>4, <2>2 DEF GroupCounters, r
<1>5. QED
  BY <1>4 DEF GroupCounters, r

LEMMA OrderIs ==
  ASSUME NEW ctr \in Nat, NEW n \in Nat
  PROVE  /\ InOrder(ctr, n) \in Seq(Nat)
         /\ Len(InOrder(ctr, n)) = n
         /\ \A i \in 1 .. n : InOrder(ctr, n)[i] = ctr + i
<1>1. InOrder(ctr, n) \in [1 .. n -> Nat]
  BY DEF InOrder
<1>2. QED
  BY <1>1 DEF InOrder

(* Counters in order go on from the last.                                  *)
LEMMA OrderJoins ==
  ASSUME NEW ctr \in Nat, NEW m \in Nat, NEW n \in Nat
  PROVE  InOrder(ctr, m) \o InOrder(ctr + m, n) = InOrder(ctr, m + n)
<1> DEFINE a == InOrder(ctr, m)
           b == InOrder(ctr + m, n)
           c == InOrder(ctr, m + n)
           j == a \o b
<1>1. ctr + m \in Nat /\ m + n \in Nat
  OBVIOUS
<1>2. a \in Seq(Nat) /\ Len(a) = m /\ \A i \in 1 .. m : a[i] = ctr + i
  BY OrderIs
<1>3. b \in Seq(Nat) /\ Len(b) = n /\ \A i \in 1 .. n : b[i] = (ctr + m) + i
  BY <1>1, OrderIs
<1>4. c \in Seq(Nat) /\ Len(c) = m + n /\ \A i \in 1 .. m + n : c[i] = ctr + i
  BY <1>1, OrderIs
<1> HIDE DEF a, b, c
<1>5. Joined(Nat, a, b, j)
  BY <1>2, <1>3, JoinIs
<1> HIDE DEF j
<1>6. /\ j \in Seq(Nat) /\ Len(j) = m + n
      /\ \A i \in 1 .. m : j[i] = a[i]
      /\ \A i \in 1 .. n : j[m + i] = b[i]
  BY <1>2, <1>3, <1>5 DEF Joined
<1>7. ASSUME NEW i \in 1 .. m + n PROVE j[i] = c[i]
  <2>1. CASE i <= m
    BY <1>2, <1>4, <1>6, <2>1
  <2>2. CASE i > m
    <3>1. i - m \in 1 .. n /\ m + (i - m) = i /\ (ctr + m) + (i - m) = ctr + i
      BY <2>2
    <3>2. j[i] = b[i - m]
      BY <1>6, <3>1
    <3>3. b[i - m] = (ctr + m) + (i - m)
      BY <1>3, <3>1
    <3>4. QED
      BY <1>4, <3>1, <3>2, <3>3
  <2>3. QED
    BY <2>1, <2>2
<1>8. j = c
  BY <1>4, <1>6, <1>7, SeqEqual
<1>9. QED
  BY <1>8 DEF a, b, c, j

(* So the counters of a run of blocks are in order.                        *)
LEMMA CountersAre ==
  ASSUME NEW ctr \in Nat, NEW blocks \in Nat
  PROVE  BlockCounters(ctr, blocks) = InOrder(ctr, blocks)
<1> DEFINE first  == (blocks % GROUP) + (IF blocks >= GROUP THEN GROUP ELSE 0)
           groups == blocks \div GROUP
           Early(g) == InOrder(ctr, IF g = 0 THEN blocks % GROUP ELSE first)
           Step(f, g) == IF g <= 1 THEN Early(g)
                         ELSE LET last == f[g - 1][Len(f[g - 1])]
                              IN  f[g - 1] \o GroupCounters(last)
           Count(g) == (blocks % GROUP) + g * GROUP
           At(g)    == InOrder(ctr, Count(g))
           good     == [g \in 0 .. groups |-> At(g)]
           H(f)     == f = [g \in 0 .. groups |-> Step(f, g)]
<1>1. /\ GROUP \in Nat \ {0} /\ groups \in Nat /\ blocks % GROUP \in 0 .. GROUP - 1
      /\ blocks = groups * GROUP + (blocks % GROUP)
  BY GcmAssumption, DivisionOf
<1>2. \A g \in 0 .. groups : Count(g) \in Nat
  <2> HIDE DEF groups
  <2>1. \A g \in 0 .. groups : g * GROUP \in Nat
    BY <1>1
  <2>2. QED
    BY <1>1, <2>1
<1>3. \A g \in 0 .. groups : g <= 1 => Early(g) = At(g)
  <2>1. ASSUME NEW g \in 0 .. groups, g <= 1 PROVE Early(g) = At(g)
    <3>1. CASE g = 0
      <4>1. 0 * GROUP = 0
        BY <1>1
      <4>2. Count(g) = blocks % GROUP
        BY <1>1, <3>1, <4>1
      <4>3. QED
        BY <3>1, <4>2
    <3>2. CASE g = 1
      <4>1. 1 * GROUP = GROUP /\ blocks >= GROUP
        <5> HIDE DEF groups
        <5>1. groups >= 1 /\ groups \in Nat
          BY <1>1, <3>2
        <5>2. groups * GROUP >= GROUP
          BY <1>1, <5>1
        <5>3. QED
          BY <1>1, <5>2
      <4>2. first = Count(g)
        BY <1>1, <3>2, <4>1
      <4>3. QED
        BY <3>2, <4>2
    <3>3. QED
      BY <1>1, <2>1, <3>1, <3>2
  <2>2. QED
    BY <2>1
<1>4. \A g \in 0 .. groups : g > 1 => At(g) = At(g - 1) \o GroupCounters(At(g - 1)[Len(At(g - 1))])
  <2>1. ASSUME NEW g \in 0 .. groups, g > 1
        PROVE  At(g) = At(g - 1) \o GroupCounters(At(g - 1)[Len(At(g - 1))])
    <3> DEFINE c == Count(g - 1)
    <3>1. g - 1 \in 0 .. groups /\ g - 1 >= 1
      BY <1>1, <2>1
    <3>2. c \in Nat /\ c >= 1
      <4>1. (g - 1) * GROUP >= 1 /\ (g - 1) * GROUP \in Nat
        <5> DEFINE h == g - 1
        <5>1. h \in Nat /\ h >= 1
          BY <1>1, <3>1
        <5> HIDE DEF h
        <5>2. h * GROUP >= 1 /\ h * GROUP \in Nat
          BY <1>1, <5>1
        <5>3. QED
          BY <5>2 DEF h
      <4>2. QED
        BY <1>1, <4>1
    <3>3. Count(g) = c + GROUP
      <4>1. g * GROUP = (g - 1) * GROUP + GROUP
        BY <1>1
      <4>2. g * GROUP \in Nat /\ (g - 1) * GROUP \in Nat
        BY <1>1, <3>1
      <4>3. QED
        BY <1>1, <4>1, <4>2
    <3>4. At(g) = InOrder(ctr, c + GROUP) /\ At(g - 1) = InOrder(ctr, c)
      BY <3>3
    <3> HIDE DEF c, Count, At
    <3>5. Len(At(g - 1)) = c /\ At(g - 1)[c] = ctr + c
      BY <3>2, <3>4, OrderIs
    <3>6. GroupCounters(ctr + c) = InOrder(ctr + c, GROUP)
      BY <3>2, GroupInOrder
    <3>7. InOrder(ctr, c) \o InOrder(ctr + c, GROUP) = InOrder(ctr, c + GROUP)
      BY <1>1, <3>2, OrderJoins
    <3>8. QED
      BY <3>4, <3>5, <3>6, <3>7
  <2>2. QED
    BY <2>1
<1>5. H(good)
  <2>1. \A g \in 0 .. groups : Step(good, g) = At(g)
    <3>1. ASSUME NEW g \in 0 .. groups PROVE Step(good, g) = At(g)
      <4>1. CASE g <= 1
        <5> HIDE DEF Early, At
        <5>1. QED BY <1>3, <4>1
      <4>2. CASE ~ (g <= 1)
        <5>1. g - 1 \in 0 .. groups /\ g > 1
          BY <1>1, <4>2
        <5> HIDE DEF At, Early
        <5>2. good[g - 1] = At(g - 1)
          BY <5>1
        <5> HIDE DEF good
        <5>3. QED
          BY <1>4, <4>2, <5>1, <5>2
      <4>3. QED
        BY <4>1, <4>2
    <3>2. QED
      BY <3>1
  <2> HIDE DEF Step, At
  <2>2. QED
    BY <2>1
<1>6. BlockCounters(ctr, blocks) = (CHOOSE f : H(f))[groups]
  BY DEF BlockCounters
<1> DEFINE f == CHOOSE x : H(x)
<1>7. H(f)
  <2> HIDE DEF H, good
  <2>1. QED BY <1>5
<1> HIDE DEF f
<1>8. 0 .. groups \subseteq {g \in 0 .. groups : f[g] = At(g)}
  <2> DEFINE S == {g \in 0 .. groups : f[g] = At(g)}
  <2>1. \A g \in 0 .. groups : f[g] = Step(f, g)
    <3> HIDE DEF Step
    <3>1. QED BY <1>7
  <2>2. \A g \in 0 .. groups : g <= 1 => f[g] = At(g)
    <3> HIDE DEF At, Early
    <3>1. QED BY <1>3, <2>1
  <2>3. 0 \in S
    <3> HIDE DEF At
    <3>1. QED BY <1>1, <2>2
  <2>4. ASSUME NEW g \in 0 .. groups - 1, g \in S PROVE g + 1 \in S
    <3>1. g + 1 \in 0 .. groups /\ (g + 1) - 1 = g
      BY <1>1
    <3>2. f[g] = At(g)
      BY <2>4
    <3>3. CASE g + 1 <= 1
      <4> HIDE DEF At
      <4>1. QED BY <2>2, <3>1, <3>3
    <3>4. CASE ~ (g + 1 <= 1)
      <4>1. g + 1 > 1
        BY <1>1, <3>4
      <4> HIDE DEF At, Early
      <4>2. f[g + 1] = f[g] \o GroupCounters(f[g][Len(f[g])])
        BY <2>1, <3>1, <3>4
      <4>3. At(g + 1) = At(g) \o GroupCounters(At(g)[Len(At(g))])
        BY <1>4, <3>1, <4>1
      <4>4. QED
        BY <3>1, <3>2, <4>2, <4>3
    <3>5. QED
      BY <3>3, <3>4
  <2> HIDE DEF S
  <2>5. 0 .. groups \subseteq S
    BY <1>1, <2>3, <2>4, UpTo
  <2>6. QED
    BY <2>5 DEF S
<1>9. f[groups] = At(groups)
  <2> HIDE DEF At
  <2>1. QED BY <1>1, <1>8
<1>10. Count(groups) = blocks
  BY <1>1
<1>11. QED
  BY <1>6, <1>9, <1>10 DEF f
-----------------------------------------------------------------------------
(* Two sequences make a third one that has their elements in turn.         *)
LEMMA TurnIs ==
  ASSUME NEW S, NEW s \in Seq(S), NEW t \in Seq(S), NEW u \in Seq(S),
         Len(u) = Len(s) + Len(t),
         \A i \in 1 .. Len(s) : u[i] = s[i],
         \A i \in 1 .. Len(t) : u[Len(s) + i] = t[i]
  PROVE  s \o t = u
<1> DEFINE j == s \o t
           m == Len(s)
           n == Len(t)
<1>1. Joined(S, s, t, j)
  BY JoinIs
<1> HIDE DEF j
<1>2. m \in Nat /\ n \in Nat
  BY LenProperties
<1>3. /\ j \in Seq(S) /\ Len(j) = m + n
      /\ \A i \in 1 .. m : j[i] = s[i]
      /\ \A i \in 1 .. n : j[m + i] = t[i]
  BY <1>1 DEF Joined
<1>4. (\A i \in 1 .. m : u[i] = s[i]) /\ (\A i \in 1 .. n : u[m + i] = t[i]) /\ Len(u) = m + n
  OBVIOUS
<1> HIDE DEF m, n
<1>5. ASSUME NEW i \in 1 .. m + n PROVE j[i] = u[i]
  <2>1. CASE i <= m
    BY <1>2, <1>3, <1>4, <2>1
  <2>2. CASE i > m
    <3>1. i - m \in 1 .. n /\ m + (i - m) = i
      BY <1>2, <2>2
    <3>2. QED
      BY <1>3, <1>4, <3>1
  <2>3. QED
    BY <1>2, <2>1, <2>2
<1>6. QED
  BY <1>2, <1>3, <1>4, <1>5, SeqEqual DEF j

(* Byte j of the message, and of the standard's output.                    *)
InByte(j)     == {<<"in", j>>}
OutByte(j)    == Xor(InByte(j), {KeyStream((Y0 + ((j - 1) \div GCM_BLOCK)) + 1,
                                           ((j - 1) % GCM_BLOCK) + 1)})
GcmBytes      == {InByte(j) : j \in Nat} \cup {OutByte(j) : j \in Nat}
OutPart(n, m) == [i \in 1 .. m |-> OutByte(n + i)]

LEMMA InputIs ==
  ASSUME NEW n \in Nat, NEW m \in Nat
  PROVE  /\ Input(n, m) \in Seq(GcmBytes)
         /\ Len(Input(n, m)) = m
         /\ \A i \in 1 .. m : Input(n, m)[i] = InByte(n + i)
<1>1. Input(n, m) = [i \in 1 .. m |-> InByte(n + i)]
  BY DEF Input, InByte
<1>2. [i \in 1 .. m |-> InByte(n + i)] \in [1 .. m -> GcmBytes]
  BY DEF GcmBytes
<1>3. QED
  BY <1>1, <1>2

LEMMA OutPartIs ==
  ASSUME NEW n \in Nat, NEW m \in Nat
  PROVE  /\ OutPart(n, m) \in Seq(GcmBytes)
         /\ Len(OutPart(n, m)) = m
         /\ \A i \in 1 .. m : OutPart(n, m)[i] = OutByte(n + i)
<1>1. OutPart(n, m) \in [1 .. m -> GcmBytes]
  BY DEF OutPart, GcmBytes
<1>2. QED
  BY <1>1 DEF OutPart

(* A part of the input is input.                                           *)
LEMMA InputPart ==
  ASSUME NEW n \in Nat, NEW m \in Nat, NEW a \in Nat, NEW b \in Nat, a <= b, b <= m
  PROVE  SubSeq(Input(n, m), a + 1, b) = Input(n + a, b - a)
<1> DEFINE s == Input(n, m)
           t == Input(n + a, b - a)
           u == SubSeq(s, a + 1, b)
<1>1. n + a \in Nat /\ b - a \in Nat
  OBVIOUS
<1>2. s \in Seq(GcmBytes) /\ Len(s) = m /\ \A i \in 1 .. m : s[i] = InByte(n + i)
  BY InputIs
<1>3. t \in Seq(GcmBytes) /\ Len(t) = b - a /\ \A i \in 1 .. b - a : t[i] = InByte((n + a) + i)
  BY <1>1, InputIs
<1> HIDE DEF s, t
<1>4. u \in Seq(GcmBytes) /\ Len(u) = b - a /\ \A i \in 1 .. b - a : u[i] = s[a + i]
  BY <1>2, PartIs
<1> HIDE DEF u
<1>5. ASSUME NEW i \in 1 .. b - a PROVE u[i] = t[i]
  <2>1. a + i \in 1 .. m /\ n + (a + i) = (n + a) + i
    BY <1>1
  <2>2. QED
    BY <1>2, <1>3, <1>4, <2>1
<1>6. u = t
  BY <1>3, <1>4, <1>5, SeqEqual
<1>7. QED
  BY <1>6 DEF u, s, t

LEMMA InputStart ==
  ASSUME NEW n \in Nat, NEW m \in Nat, NEW b \in Nat, b <= m
  PROVE  SubSeq(Input(n, m), 1, b) = Input(n, b)
<1> DEFINE s == Input(n, m)
           t == Input(n, b)
           u == SubSeq(s, 1, b)
<1>1. s \in Seq(GcmBytes) /\ Len(s) = m /\ \A i \in 1 .. m : s[i] = InByte(n + i)
  BY InputIs
<1>2. t \in Seq(GcmBytes) /\ Len(t) = b /\ \A i \in 1 .. b : t[i] = InByte(n + i)
  BY InputIs
<1> HIDE DEF s, t
<1>3. u \in Seq(GcmBytes) /\ Len(u) = b /\ \A i \in 1 .. b : u[i] = s[i]
  BY <1>1, StartIs
<1> HIDE DEF u
<1>4. \A i \in 1 .. b : u[i] = t[i]
  BY <1>1, <1>2, <1>3
<1>5. u = t
  BY <1>2, <1>3, <1>4, SeqEqual
<1>6. QED
  BY <1>5 DEF u, s, t

LEMMA OutPartsJoin ==
  ASSUME NEW n \in Nat, NEW m \in Nat, NEW k \in Nat
  PROVE  OutPart(n, m) \o OutPart(n + m, k) = OutPart(n, m + k)
<1> DEFINE s == OutPart(n, m)
           t == OutPart(n + m, k)
           u == OutPart(n, m + k)
<1>1. n + m \in Nat /\ m + k \in Nat
  OBVIOUS
<1>2. s \in Seq(GcmBytes) /\ Len(s) = m /\ \A i \in 1 .. m : s[i] = OutByte(n + i)
  BY OutPartIs
<1>3. t \in Seq(GcmBytes) /\ Len(t) = k /\ \A i \in 1 .. k : t[i] = OutByte((n + m) + i)
  BY <1>1, OutPartIs
<1>4. u \in Seq(GcmBytes) /\ Len(u) = m + k /\ \A i \in 1 .. m + k : u[i] = OutByte(n + i)
  BY <1>1, OutPartIs
<1> HIDE DEF s, t, u
<1>5. \A i \in 1 .. m : u[i] = s[i]
  BY <1>2, <1>4
<1>6. ASSUME NEW i \in 1 .. k PROVE u[m + i] = t[i]
  <2>1. m + i \in 1 .. m + k /\ n + (m + i) = (n + m) + i
    BY <1>1
  <2>2. QED
    BY <1>3, <1>4, <2>1
<1>7. s \o t = u
  BY <1>2, <1>3, <1>4, <1>5, <1>6, TurnIs
<1>8. QED
  BY <1>7 DEF s, t, u

(* Whole blocks, or the start of one, ciphered under counters in order     *)
(* from the number of blocks before on, are the standard's output.         *)
LEMMA CryptIs ==
  ASSUME NEW q \in Nat, NEW m \in Nat, NEW ctrs,
         \A i \in 1 .. CeilDiv(m) : ctrs[i] = (Y0 + q) + i
  PROVE  Crypt(Input(q * GCM_BLOCK, m), ctrs) = OutPart(q * GCM_BLOCK, m)
<1> DEFINE b == GCM_BLOCK
           n == q * b
<1>1. b \in Nat \ {0} /\ n \in Nat /\ Y0 \in Nat
  BY GcmAssumption DEF Y0
<1>2. Len(Input(n, m)) = m /\ \A i \in 1 .. m : Input(n, m)[i] = InByte(n + i)
  BY <1>1, InputIs
<1>3. ASSUME NEW i \in 1 .. m
      PROVE  Xor(Input(n, m)[i], {KeyStream(ctrs[((i - 1) \div b) + 1], ((i - 1) % b) + 1)})
                = OutByte(n + i)
  <2> DEFINE e == i - 1
             d == e \div b
             r == e % b
  <2>1. e \in Nat /\ d \in Nat /\ r \in 0 .. b - 1 /\ e = d * b + r
    <3>1. e \in Nat
      OBVIOUS
    <3> HIDE DEF e, b
    <3>2. QED
      BY <1>1, <3>1, DivisionOf
  <2>2. (n + i) - 1 = n + e
    BY <1>1, <2>1
  <2>3. d + 1 \in 1 .. CeilDiv(m)
    <3>1. CeilDiv(m) = IF m % b = 0 THEN m \div b ELSE (m \div b) + 1
      BY CeilIs
    <3> DEFINE c == m \div b
               s == m % b
    <3>2. c \in Nat /\ s \in 0 .. b - 1 /\ m = c * b + s
      BY <1>1, DivisionOf
    <3>3. e < m
      BY <2>1
    <3> HIDE DEF e, d, r, c, s, b
    <3>4. d <= c /\ (s = 0 => d < c)
      <4>1. c * b \in Nat /\ d * b \in Nat
        BY <1>1, <2>1, <3>2
      <4>2. ASSUME NEW x \in Nat, NEW y \in Nat, x > y PROVE x * b >= y * b + b
        <5>1. x - (y + 1) \in Nat
          BY <4>2
        <5>2. x * b = (x - (y + 1)) * b + (y * b + b)
          BY <1>1, <5>1
        <5>3. (x - (y + 1)) * b \in Nat /\ y * b \in Nat
          BY <1>1, <5>1
        <5>4. x * b \in Nat
          BY <1>1
        <5>5. QED
          BY <1>1, <5>2, <5>3, <5>4
      <4>3. ~ (d > c)
        BY <1>1, <2>1, <3>2, <3>3, <4>1, <4>2
      <4>4. ASSUME s = 0 PROVE d # c
        BY <1>1, <2>1, <3>2, <3>3, <4>1, <4>4
      <4>5. QED
        BY <2>1, <3>2, <4>3, <4>4
    <3>5. QED
      BY <2>1, <3>1, <3>2, <3>4 DEF c, s
  <2>4. ctrs[d + 1] = (Y0 + q) + (d + 1)
    BY <2>3
  <2> HIDE DEF d, r, e
  <2>5. n + e = (q + d) * b + r /\ q + d \in Nat
    BY <1>1, <2>1
  <2>6. (n + e) \div b = q + d /\ (n + e) % b = r
    BY <1>1, <2>1, <2>5, SplitIs
  <2>7. ctrs[d + 1] = (Y0 + (((n + i) - 1) \div b)) + 1
    BY <1>1, <2>1, <2>2, <2>4, <2>6
  <2>8. OutByte(n + i) = Xor(InByte(n + i), {KeyStream(ctrs[d + 1], r + 1)})
    BY <2>2, <2>6, <2>7 DEF OutByte
  <2>9. QED
    BY <1>2, <2>8 DEF d, r, e
<1>4. Crypt(Input(n, m), ctrs) = [i \in 1 .. m |-> OutByte(n + i)]
  BY <1>2, <1>3 DEF Crypt
<1>5. QED
  BY <1>4 DEF OutPart

LEMMA WholeOutputIs ==
  ASSUME NEW n \in Nat
  PROVE  WholeOutput(n) = OutPart(0, n)
<1> DEFINE z == 0
<1>1. z \in Nat /\ z * GCM_BLOCK = 0 /\ Y0 + z = Y0 /\ Y0 \in Nat /\ CeilDiv(n) \in Nat
  BY GcmAssumption, CeilIs DEF Y0
<1>2. \A i \in 1 .. CeilDiv(n) : InOrder(Y0, CeilDiv(n))[i] = Y0 + i
  BY <1>1, OrderIs
<1> HIDE DEF z
<1>3. Crypt(Input(z * GCM_BLOCK, n), InOrder(Y0, CeilDiv(n))) = OutPart(z * GCM_BLOCK, n)
  BY <1>1, <1>2, CryptIs
<1>4. QED
  BY <1>1, <1>3 DEF WholeOutput
-----------------------------------------------------------------------------
(* A context that n bytes have gone through: where it is in the block, the *)
(* counter it stands at, and the key stream kept for an open block.        *)
ContextWith(H) == [ AadHash : H, AadLen : Nat, InLen : Nat,
                    PBlockLen : Nat, PBlockEncKey : Nat, CurCount : Nat ]
IsContext(c)   == c \in ContextWith({c.AadHash})

Ready(c, n) ==
    /\ IsContext(c)
    /\ c.PBlockLen = n % GCM_BLOCK
    /\ c.CurCount = Y0 + CeilDiv(n)
    /\ n % GCM_BLOCK # 0 => c.PBlockEncKey = c.CurCount

CipherPart(dir, n, m) == Ciphertext(dir, Input(n, m), OutPart(n, m))

(* The context d after a stage: the lengths stay.                          *)
Same(c, d) == d.AadLen = c.AadLen /\ d.InLen = c.InLen

PartialHash(dir, c, n, m) ==
    LET hash == Xor(c.AadHash, Terms(CipherPart(dir, n, m), n % GCM_BLOCK))
    IN  IF (n + m) % GCM_BLOCK = 0 THEN Times(hash, 1) ELSE hash

LEMMA PartialIs ==
  ASSUME NEW dir, NEW c, NEW n \in Nat, NEW len \in Nat, NEW m,
         Ready(c, n), n % GCM_BLOCK # 0,
         m = Smaller(len, GCM_BLOCK - (n % GCM_BLOCK))
  PROVE  /\ PARTIAL_BLOCK(dir, c, Input(n, len)).out = OutPart(n, m)
         /\ Ready(PARTIAL_BLOCK(dir, c, Input(n, len)).ctx, n + m)
         /\ Same(c, PARTIAL_BLOCK(dir, c, Input(n, len)).ctx)
         /\ PARTIAL_BLOCK(dir, c, Input(n, len)).ctx.AadHash = PartialHash(dir, c, n, m)
         /\ m \in 0 .. len
         /\ m <= GCM_BLOCK - (n % GCM_BLOCK)
         /\ m = len \/ (n + m) % GCM_BLOCK = 0
<1> DEFINE b == GCM_BLOCK
           q == n \div b
           p == n % b
           full == p + len >= b
<1>1. b \in Nat \ {0} /\ Y0 \in Nat
  BY GcmAssumption DEF Y0
<1>2. q \in Nat /\ p \in 1 .. b - 1 /\ n = q * b + p
  <2>1. q \in Nat /\ p \in 0 .. b - 1 /\ n = q * b + p
    BY <1>1, DivisionOf
  <2>2. QED
    BY <1>1, <2>1
<1>3. c.PBlockLen = p /\ c.CurCount = Y0 + (q + 1) /\ c.PBlockEncKey = Y0 + (q + 1) /\ IsContext(c)
  BY CeilIs DEF Ready
<1>4. m \in Nat /\ m = IF full THEN b - p ELSE len
  BY <1>1, <1>2 DEF Smaller
<1>5. m \in 0 .. len /\ m <= b - p
  BY <1>1, <1>2, <1>4
<1> HIDE DEF b, q, p, full
<1>6. (q + 1) * b = q * b + b /\ q + 1 \in Nat /\ q * b \in Nat
  BY <1>1, <1>2
<1>7. /\ (n + m) % b = IF full THEN 0 ELSE p + len
      /\ CeilDiv(n + m) = q + 1
      /\ (full <=> (n + m) % b = 0)
  <2>1. CASE full
    <3>1. n + m = (q + 1) * b + 0 /\ 0 \in 0 .. b - 1 /\ n + m \in Nat
      BY <1>1, <1>2, <1>4, <1>6, <2>1
    <3> DEFINE a == n + m
               e == q + 1
               o == 0
    <3>2. a \in Nat /\ e \in Nat /\ o \in 0 .. b - 1 /\ a = e * b + o
      BY <1>6, <3>1
    <3> HIDE DEF a, e, o
    <3>4. a \div b = e /\ a % b = o
      BY <1>1, <3>2, DivIs
    <3> USE DEF a, e, o
    <3>3. QED
      BY <2>1, <3>1, <3>4, CeilIs DEF b
  <2>2. CASE ~full
    <3>1. n + m = q * b + (p + len) /\ p + len \in 1 .. b - 1 /\ n + m \in Nat
      BY <1>1, <1>2, <1>4, <1>6, <2>2 DEF full
    <3>2. p + len \in 0 .. b - 1
      BY <1>1, <3>1
    <3> DEFINE a == n + m
               o == p + len
    <3> HIDE DEF a, o
    <3>3. a \div b = q /\ a % b = o
      <4>1. a = q * b + o /\ o \in 0 .. b - 1
        BY <3>1, <3>2 DEF a, o
      <4>2. q \in Nat /\ b \in Nat \ {0}
        BY <1>1, <1>2
      <4>3. QED
        BY <4>1, <4>2, DivIs
    <3> USE DEF a, o
    <3>4. QED
      BY <2>2, <3>1, <3>3, CeilIs DEF b
  <2>3. QED
    BY <2>1, <2>2
<1> DEFINE in   == Input(n, len)
           data == SubSeq(in, 1, m)
           out  == [i \in 1 .. m |-> Xor(data[i], {KeyStream(c.PBlockEncKey, c.PBlockLen + i)})]
           r    == PARTIAL_BLOCK(dir, c, in)
<1>8. Len(in) = len
  BY InputIs
<1>9. data = Input(n, m)
  BY <1>4, <1>5, InputStart, SMTT(30)
<1>10. out = OutPart(n, m)
  <2>1. ASSUME NEW i \in 1 .. m
        PROVE  Xor(data[i], {KeyStream(c.PBlockEncKey, c.PBlockLen + i)}) = OutByte(n + i)
    <3>1. data[i] = InByte(n + i)
      BY <1>4, <1>9, InputIs
    <3>2. (n + i) - 1 = q * b + (p + i - 1) /\ p + i - 1 \in 0 .. b - 1
      BY <1>1, <1>2, <1>4, <1>5, <1>6
    <3> DEFINE a == (n + i) - 1
               o == p + i - 1
    <3> HIDE DEF a, o
    <3>3. a \div b = q /\ a % b = o
      <4>1. a = q * b + o /\ o \in 0 .. b - 1
        BY <3>2 DEF a, o
      <4>2. q \in Nat /\ b \in Nat \ {0}
        BY <1>1, <1>2
      <4>3. QED
        BY <4>1, <4>2, DivIs
    <3> USE DEF a, o
    <3>4. (p + i - 1) + 1 = p + i /\ (Y0 + q) + 1 = Y0 + (q + 1)
      BY <1>1, <1>2
    <3>5. OutByte(n + i) = Xor(InByte(n + i), {KeyStream(Y0 + (q + 1), p + i)})
      BY <3>3, <3>4 DEF OutByte, b
    <3>6. QED
      BY <1>3, <3>1, <3>5
  <2> HIDE DEF data
  <2>2. QED
    BY <2>1 DEF OutPart
<1> DEFINE hash == Xor(c.AadHash, Terms(Ciphertext(dir, data, out), c.PBlockLen))
           d    == [c EXCEPT !.AadHash = IF full THEN Times(hash, 1) ELSE hash,
                             !.PBlockLen = IF full THEN 0 ELSE @ + len]
<1>11. r = [ctx |-> d, out |-> out]
  <2>1. Smaller(Len(in), GCM_BLOCK - c.PBlockLen) = m /\ c.PBlockLen # 0
        /\ (c.PBlockLen + Len(in) >= GCM_BLOCK <=> full)
    BY <1>2, <1>3, <1>8 DEF b, p, full
  <2> HIDE DEF in
  <2>2. QED
    BY <1>8, <2>1 DEF PARTIAL_BLOCK
<1> HIDE DEF in, data, out, r
<1>12. hash = Xor(c.AadHash, Terms(CipherPart(dir, n, m), p))
  BY <1>3, <1>9, <1>10 DEF CipherPart
<1> HIDE DEF hash
<1>13. /\ d.AadHash = IF full THEN Times(hash, 1) ELSE hash
       /\ d.PBlockLen = IF full THEN 0 ELSE p + len
       /\ d.AadLen = c.AadLen /\ d.InLen = c.InLen
       /\ d.PBlockEncKey = c.PBlockEncKey /\ d.CurCount = c.CurCount
       /\ IsContext(d)
  <2>1. c \in ContextWith({c.AadHash}) /\ p + len \in Nat
    BY <1>2, <1>3 DEF IsContext
  <2>2. d = [c EXCEPT !.AadHash = IF full THEN Times(hash, 1) ELSE hash,
                      !.PBlockLen = IF full THEN 0 ELSE p + len]
    BY <1>3
  <2> HIDE DEF d, full
  <2>3. /\ d.AadHash = IF full THEN Times(hash, 1) ELSE hash
        /\ d.PBlockLen = IF full THEN 0 ELSE p + len
        /\ d.AadLen = c.AadLen /\ d.InLen = c.InLen
        /\ d.PBlockEncKey = c.PBlockEncKey /\ d.CurCount = c.CurCount
        /\ d \in ContextWith({d.AadHash})
    BY <2>1, <2>2 DEF ContextWith
  <2>4. QED
    BY <2>3 DEF IsContext
<1> HIDE DEF d
<1>14. d.AadHash = PartialHash(dir, c, n, m)
  BY <1>7, <1>12, <1>13 DEF PartialHash, b, p
<1>15. Ready(d, n + m)
  BY <1>3, <1>7, <1>13 DEF Ready, b
<1>16. r.out = OutPart(n, m) /\ r.ctx = d
  BY <1>10, <1>11
<1>17. Same(c, d)
  BY <1>13 DEF Same
<1>18. m = len \/ (n + m) % GCM_BLOCK = 0
  BY <1>4, <1>7 DEF b
<1>19. QED
  BY <1>5, <1>14, <1>15, <1>16, <1>17, <1>18 DEF b, p, r, in

LEMMA WholeIs ==
  ASSUME NEW dir, NEW c, NEW n \in Nat, NEW k \in Nat, NEW w,
         Ready(c, n), w = k * GCM_BLOCK,
         n % GCM_BLOCK = 0 \/ w = 0
  PROVE  /\ WholeBlocks(dir, c, Input(n, w)).out = OutPart(n, w)
         /\ Ready(WholeBlocks(dir, c, Input(n, w)).ctx, n + w)
         /\ Same(c, WholeBlocks(dir, c, Input(n, w)).ctx)
         /\ WholeBlocks(dir, c, Input(n, w)).ctx.AadHash = Ghash(c.AadHash, CipherPart(dir, n, w))
<1> DEFINE b == GCM_BLOCK
           q == n \div b
           p == n % b
<1>1. b \in Nat \ {0} /\ Y0 \in Nat /\ w \in Nat
  BY GcmAssumption DEF Y0
<1>2. q \in Nat /\ p \in 0 .. b - 1 /\ n = q * b + p
  BY <1>1, DivisionOf
<1>3. /\ c.PBlockLen = p /\ c.CurCount = Y0 + CeilDiv(n) /\ IsContext(c)
      /\ p # 0 => c.PBlockEncKey = c.CurCount
  BY DEF Ready
<1>4. p = 0 \/ (w = 0 /\ k = 0)
  <2> HIDE DEF b
  <2>1. k # 0 => k * b # 0
    BY <1>1
  <2>2. QED
    BY <2>1 DEF b
<1>5. w = k * b
  OBVIOUS
<1>6. CeilDiv(n) \in Nat /\ CeilDiv(n) = IF p = 0 THEN q ELSE q + 1
  BY CeilIs
<1> HIDE DEF b, q, p
<1>7. w \div b = k
  <2>1. w = k * b + 0 /\ 0 \in 0 .. b - 1
    BY <1>1, <1>5
  <2>2. QED
    BY <1>1, <2>1, DivIs
<1> DEFINE ctrs == InOrder(c.CurCount, k)
           in   == Input(n, w)
           out  == Crypt(in, ctrs)
           d    == [c EXCEPT !.AadHash = Ghash(@, Ciphertext(dir, in, out)),
                             !.CurCount = IF ctrs = << >> THEN @ ELSE ctrs[Len(ctrs)]]
<1>8. c.CurCount \in Nat
  BY <1>1, <1>3, <1>6
<1>9. ctrs \in Seq(Nat) /\ Len(ctrs) = k /\ \A i \in 1 .. k : ctrs[i] = c.CurCount + i
  BY <1>8, OrderIs
<1>10. WholeBlocks(dir, c, in) = [ctx |-> d, out |-> out]
  <2>1. Len(in) = w
    BY <1>1, InputIs
  <2>2. BlockCounters(c.CurCount, Len(in) \div GCM_BLOCK) = ctrs
    BY <1>7, <1>8, <2>1, CountersAre DEF b
  <2> HIDE DEF in, ctrs
  <2>3. QED
    BY <2>2 DEF WholeBlocks
<1>11. out = OutPart(n, w)
  <2>1. CASE w = 0
    <3>1. in \in Seq(GcmBytes) /\ Len(in) = 0
      BY <1>1, <2>1, InputIs
    <3>2. Crypt(in, ctrs) = << >>
      <4> HIDE DEF in, ctrs
      <4>1. QED BY <3>1 DEF Crypt
    <3>3. OutPart(n, w) = << >>
      BY <2>1 DEF OutPart
    <3>4. QED
      BY <3>2, <3>3
  <2>2. CASE w # 0
    <3>1. p = 0 /\ n = q * b /\ c.CurCount = Y0 + q
      BY <1>1, <1>2, <1>3, <1>4, <1>6, <2>2
    <3>2. CeilDiv(w) = k
      <4>1. w = k * b + 0 /\ 0 \in 0 .. b - 1
        BY <1>1, <1>5
      <4> DEFINE o == 0
      <4> HIDE DEF o
      <4>2. w % b = o
        <5>1. w = k * b + o /\ o \in 0 .. b - 1
          BY <4>1 DEF o
        <5>2. QED
          BY <1>1, <5>1, DivIs
      <4> USE DEF o
      <4>3. QED
        BY <1>1, <1>7, <4>2, CeilIs DEF b
    <3>3. \A i \in 1 .. CeilDiv(w) : ctrs[i] = (Y0 + q) + i
      BY <1>9, <3>1, <3>2
    <3> HIDE DEF ctrs
    <3>4. Crypt(Input(q * GCM_BLOCK, w), ctrs) = OutPart(q * GCM_BLOCK, w)
      BY <1>1, <1>2, <3>3, CryptIs
    <3>5. QED
      BY <3>1, <3>4 DEF b
  <2>3. QED
    BY <2>1, <2>2
<1>12. Ciphertext(dir, in, out) = CipherPart(dir, n, w)
  BY <1>11 DEF CipherPart
<1>13. (IF ctrs = << >> THEN c.CurCount ELSE ctrs[Len(ctrs)]) = c.CurCount + k
  <2> HIDE DEF ctrs
  <2>1. CASE k = 0
    BY <1>8, <1>9, <2>1, EmptySeq
  <2>2. CASE k # 0
    <3>1. ctrs # << >> /\ k \in 1 .. k
      BY <1>9, <2>2
    <3>2. QED
      BY <1>9, <3>1
  <2>3. QED
    BY <2>1, <2>2
<1> HIDE DEF in, out, ctrs
<1>14. /\ d.AadHash = Ghash(c.AadHash, CipherPart(dir, n, w))
       /\ d.CurCount = c.CurCount + k
       /\ d.AadLen = c.AadLen /\ d.InLen = c.InLen /\ d.PBlockLen = c.PBlockLen
       /\ d.PBlockEncKey = c.PBlockEncKey /\ IsContext(d)
  <2>1. c \in ContextWith({c.AadHash}) /\ c.CurCount + k \in Nat
    BY <1>3, <1>8 DEF IsContext
  <2>2. d = [c EXCEPT !.AadHash = Ghash(c.AadHash, CipherPart(dir, n, w)),
                      !.CurCount = c.CurCount + k]
    BY <1>12, <1>13
  <2> HIDE DEF d
  <2>3. /\ d.AadHash = Ghash(c.AadHash, CipherPart(dir, n, w))
        /\ d.CurCount = c.CurCount + k
        /\ d.AadLen = c.AadLen /\ d.InLen = c.InLen /\ d.PBlockLen = c.PBlockLen
        /\ d.PBlockEncKey = c.PBlockEncKey
        /\ d \in ContextWith({d.AadHash})
    BY <2>1, <2>2 DEF ContextWith
  <2>4. QED
    BY <2>3 DEF IsContext
<1> HIDE DEF d
<1>15. (n + w) % b = p /\ CeilDiv(n + w) = CeilDiv(n) + k
  <2>1. (q + k) * b = q * b + k * b /\ q + k \in Nat /\ q * b \in Nat
    BY <1>1, <1>2
  <2>2. n + w = (q + k) * b + p /\ n + w \in Nat
    BY <1>1, <1>2, <1>5, <2>1
  <2> DEFINE a == n + w
             e == q + k
  <2> HIDE DEF a, e
  <2>3. a \div b = e /\ a % b = p
    <3>1. a = e * b + p /\ e \in Nat
      BY <2>1, <2>2 DEF a, e
    <3>2. QED
      BY <1>1, <1>2, <3>1, DivIs
  <2> USE DEF a, e
  <2>4. CeilDiv(n + w) = IF p = 0 THEN q + k ELSE (q + k) + 1
    BY <2>2, <2>3, CeilIs DEF b
  <2>5. QED
    BY <1>2, <1>6, <2>3, <2>4
<1>16. Ready(d, n + w)
  <2>1. d.CurCount = Y0 + CeilDiv(n + w)
    BY <1>1, <1>3, <1>6, <1>14, <1>15
  <2>2. p # 0 => d.PBlockEncKey = d.CurCount
    BY <1>3, <1>4, <1>8, <1>14
  <2>3. QED
    BY <1>3, <1>14, <1>15, <2>1, <2>2 DEF Ready, b
<1>17. Same(c, d)
  BY <1>14 DEF Same
<1>18. QED
  BY <1>10, <1>11, <1>14, <1>16, <1>17 DEF in

LEMMA LastIs ==
  ASSUME NEW dir, NEW c, NEW n \in Nat, NEW r \in 0 .. GCM_BLOCK - 1,
         Ready(c, n), n % GCM_BLOCK = 0 \/ r = 0
  PROVE  /\ LastPiece(dir, c, Input(n, r)).out = OutPart(n, r)
         /\ Ready(LastPiece(dir, c, Input(n, r)).ctx, n + r)
         /\ Same(c, LastPiece(dir, c, Input(n, r)).ctx)
         /\ LastPiece(dir, c, Input(n, r)).ctx.AadHash
                = IF r = 0 THEN c.AadHash ELSE Xor(c.AadHash, Terms(CipherPart(dir, n, r), 0))
<1> DEFINE b == GCM_BLOCK
           q == n \div b
           in == Input(n, r)
<1>1. b \in Nat \ {0} /\ Y0 \in Nat /\ r \in Nat
  BY GcmAssumption DEF Y0
<1>2. in \in Seq(GcmBytes) /\ Len(in) = r
  BY <1>1, InputIs
<1>3. CASE r = 0
  <2>1. in = << >>
    BY <1>2, <1>3, EmptySeq
  <2>2. LastPiece(dir, c, in) = [ctx |-> c, out |-> << >>]
    <3> HIDE DEF in
    <3>1. QED BY <2>1 DEF LastPiece
  <2>3. OutPart(n, r) = << >>
    BY <1>3 DEF OutPart
  <2>4. n + r = n
    BY <1>3
  <2> HIDE DEF in
  <2>5. QED
    BY <1>3, <2>2, <2>3, <2>4 DEF Same, in
<1>4. CASE r # 0
  <2>1. q \in Nat /\ n % b \in 0 .. b - 1 /\ n = q * b + (n % b)
    BY <1>1, DivisionOf
  <2>2. n % b = 0
    BY <1>4
  <2>3. CeilDiv(n) = q
    BY <2>2, CeilIs
  <2>4. IsContext(c) /\ c.CurCount = Y0 + q
    BY <2>3 DEF Ready
  <2> HIDE DEF b, q
  <2>5. n = q * b + 0 /\ 0 \in 0 .. b - 1 /\ n = q * b
    BY <1>1, <2>1, <2>2
  <2> DEFINE ctrs == <<c.CurCount + 1>>
             out  == Crypt(in, ctrs)
             d    == [c EXCEPT !.PBlockLen = Len(in), !.CurCount = @ + 1,
                               !.PBlockEncKey = c.CurCount + 1,
                               !.AadHash = Xor(@, Terms(Ciphertext(dir, in, out), 0))]
  <2>6. r = 0 * b + r /\ r \in 0 .. b - 1
    BY <1>1 DEF b
  <2>7. r \div b = 0 /\ r % b = r
    BY <1>1, <2>6
  <2>8. CeilDiv(r) = 1
    BY <1>1, <1>4, <2>7, CeilIs DEF b
  <2>9. out = OutPart(n, r)
    <3>1. \A i \in 1 .. CeilDiv(r) : ctrs[i] = (Y0 + q) + i
      BY <2>4, <2>8
    <3> HIDE DEF ctrs
    <3>2. Crypt(Input(q * GCM_BLOCK, r), ctrs) = OutPart(q * GCM_BLOCK, r)
      BY <1>1, <2>1, <3>1, CryptIs
    <3>3. QED
      BY <2>5, <3>2 DEF b
  <2>10. LastPiece(dir, c, in) = [ctx |-> d, out |-> out]
    <3>1. in # << >>
      BY <1>2, <1>4
    <3> HIDE DEF in
    <3>2. QED
      BY <3>1 DEF LastPiece
  <2>11. Ciphertext(dir, in, out) = CipherPart(dir, n, r)
    BY <2>9 DEF CipherPart
  <2> HIDE DEF out, in, ctrs
  <2>12. /\ d.AadHash = Xor(c.AadHash, Terms(CipherPart(dir, n, r), 0))
         /\ d.CurCount = c.CurCount + 1 /\ d.PBlockEncKey = c.CurCount + 1
         /\ d.PBlockLen = r /\ d.AadLen = c.AadLen /\ d.InLen = c.InLen
         /\ IsContext(d)
    <3>1. c \in ContextWith({c.AadHash}) /\ c.CurCount + 1 \in Nat
      BY <1>1, <2>1, <2>4 DEF IsContext
    <3>2. d = [c EXCEPT !.PBlockLen = r, !.CurCount = c.CurCount + 1,
                        !.PBlockEncKey = c.CurCount + 1,
                        !.AadHash = Xor(c.AadHash, Terms(CipherPart(dir, n, r), 0))]
      BY <1>2, <2>11
    <3> HIDE DEF d
    <3>3. /\ d.AadHash = Xor(c.AadHash, Terms(CipherPart(dir, n, r), 0))
          /\ d.CurCount = c.CurCount + 1 /\ d.PBlockEncKey = c.CurCount + 1
          /\ d.PBlockLen = r /\ d.AadLen = c.AadLen /\ d.InLen = c.InLen
          /\ d \in ContextWith({d.AadHash})
      BY <1>1, <3>1, <3>2 DEF ContextWith
    <3>4. QED
      BY <3>3 DEF IsContext
  <2> HIDE DEF d
  <2>13. n + r = q * b + r /\ n + r \in Nat
    BY <1>1, <2>5
  <2> DEFINE a == n + r
  <2> HIDE DEF a
  <2>14. a \div b = q /\ a % b = r
    <3>1. q \in Nat /\ b \in Nat \ {0} /\ r \in 0 .. b - 1
      BY <1>1, <2>1, <2>6
    <3>2. a = q * b + r
      BY <2>13 DEF a
    <3>3. QED
      BY <3>1, <3>2, DivIs
  <2> USE DEF a
  <2>15. CeilDiv(n + r) = q + 1
    BY <1>4, <2>13, <2>14, CeilIs DEF b
  <2>16. Ready(d, n + r)
    <3>1. d.CurCount = Y0 + (q + 1)
      BY <1>1, <2>1, <2>4, <2>12
    <3>2. QED
      BY <2>12, <2>14, <2>15, <3>1 DEF Ready, b
  <2>17. QED
    BY <1>4, <2>9, <2>10, <2>12, <2>16 DEF Same, in
<1>5. QED
  BY <1>3, <1>4
-----------------------------------------------------------------------------
(* GHASH is linear.  Exclusive or of sets, and multiplication of terms.    *)
LEMMA XorAssoc ==
  ASSUME NEW A, NEW B, NEW C
  PROVE  Xor(Xor(A, B), C) = Xor(A, Xor(B, C))
  BY DEF Xor

LEMMA XorApart ==
  ASSUME NEW A, NEW B, A \cap B = {}
  PROVE  Xor(A, B) = A \cup B
  BY DEF Xor

Formed(A) == \A t \in A : t = <<t[1], t[2], t[3]>> /\ t[3] \in Int

LEMMA FormedXor ==
  ASSUME NEW A, NEW B, Formed(A), Formed(B)
  PROVE  Formed(Xor(A, B))
  BY DEF Xor, Formed

LEMMA TimesIs ==
  ASSUME NEW A, Formed(A), NEW n \in Int
  PROVE  /\ Formed(Times(A, n))
         /\ \A a, p, k : <<a, p, k>> \in Times(A, n) <=> k \in Int /\ <<a, p, k - n>> \in A
<1>1. ASSUME NEW t \in A PROVE t[3] + n \in Int
  BY DEF Formed
<1>2. Formed(Times(A, n))
  BY <1>1 DEF Times, Formed
<1>3. ASSUME NEW a, NEW p, NEW k, <<a, p, k>> \in Times(A, n)
      PROVE  k \in Int /\ <<a, p, k - n>> \in A
  <2>1. PICK t \in A : <<a, p, k>> = <<t[1], t[2], t[3] + n>>
    BY <1>3 DEF Times
  <2>2. t = <<t[1], t[2], t[3]>> /\ t[3] \in Int
    BY DEF Formed
  <2>3. t[1] = a /\ t[2] = p /\ t[3] = k - n /\ k \in Int
    BY <2>1, <2>2
  <2>4. QED
    BY <2>2, <2>3
<1>4. ASSUME NEW a, NEW p, NEW k \in Int, <<a, p, k - n>> \in A
      PROVE  <<a, p, k>> \in Times(A, n)
  <2>1. k = (k - n) + n
    OBVIOUS
  <2>2. PICK t \in A : t = <<a, p, k - n>>
    BY <1>4
  <2>3. t[1] = a /\ t[2] = p /\ t[3] = k - n
    BY <2>2
  <2>4. <<a, p, k>> = <<t[1], t[2], t[3] + n>>
    BY <2>1, <2>3
  <2>5. QED
    BY <2>4 DEF Times
<1>5. QED
  BY <1>2, <1>3, <1>4

(* Sets of terms are equal if they have the same terms.                    *)
LEMMA SameTerms ==
  ASSUME NEW A, NEW B, Formed(A), Formed(B),
         \A a, p, k : k \in Int => (<<a, p, k>> \in A <=> <<a, p, k>> \in B)
  PROVE  A = B
<1>1. ASSUME NEW t \in A PROVE t \in B
  BY DEF Formed
<1>2. ASSUME NEW t \in B PROVE t \in A
  BY DEF Formed
<1>3. QED
  BY <1>1, <1>2

LEMMA TimesXor ==
  ASSUME NEW A, NEW B, Formed(A), Formed(B), NEW n \in Int
  PROVE  Times(Xor(A, B), n) = Xor(Times(A, n), Times(B, n))
<1>1. Formed(Xor(A, B))
  BY FormedXor
<1>2. /\ Formed(Times(A, n)) /\ Formed(Times(B, n)) /\ Formed(Times(Xor(A, B), n))
      /\ \A a, p, k : <<a, p, k>> \in Times(A, n) <=> k \in Int /\ <<a, p, k - n>> \in A
      /\ \A a, p, k : <<a, p, k>> \in Times(B, n) <=> k \in Int /\ <<a, p, k - n>> \in B
      /\ \A a, p, k : <<a, p, k>> \in Times(Xor(A, B), n) <=> k \in Int /\ <<a, p, k - n>> \in Xor(A, B)
  BY <1>1, TimesIs
<1>3. Formed(Xor(Times(A, n), Times(B, n)))
  BY <1>2, FormedXor
<1>4. ASSUME NEW a, NEW p, NEW k \in Int
      PROVE  <<a, p, k>> \in Times(Xor(A, B), n) <=> <<a, p, k>> \in Xor(Times(A, n), Times(B, n))
  <2> DEFINE t == <<a, p, k>>
             u == <<a, p, k - n>>
  <2>1. t \in Times(Xor(A, B), n) <=> u \in Xor(A, B)
    BY <1>2
  <2>2. (t \in Times(A, n) <=> u \in A) /\ (t \in Times(B, n) <=> u \in B)
    BY <1>2
  <2> HIDE DEF t, u
  <2>3. u \in Xor(A, B) <=> (u \in A /\ u \notin B) \/ (u \in B /\ u \notin A)
    BY DEF Xor
  <2>4. t \in Xor(Times(A, n), Times(B, n))
            <=> (t \in Times(A, n) /\ t \notin Times(B, n)) \/ (t \in Times(B, n) /\ t \notin Times(A, n))
    BY DEF Xor
  <2>5. QED
    BY <2>1, <2>2, <2>3, <2>4 DEF t
<1>5. QED
  BY <1>2, <1>3, <1>4, SameTerms

LEMMA TimesTimes ==
  ASSUME NEW A, Formed(A), NEW m \in Int, NEW n \in Int
  PROVE  Times(Times(A, m), n) = Times(A, m + n)
<1>1. m + n \in Int
  OBVIOUS
<1>2. /\ Formed(Times(A, m)) /\ Formed(Times(A, m + n))
      /\ \A a, p, k : <<a, p, k>> \in Times(A, m) <=> k \in Int /\ <<a, p, k - m>> \in A
      /\ \A a, p, k : <<a, p, k>> \in Times(A, m + n) <=> k \in Int /\ <<a, p, k - (m + n)>> \in A
  BY <1>1, TimesIs
<1>3. /\ Formed(Times(Times(A, m), n))
      /\ \A a, p, k : <<a, p, k>> \in Times(Times(A, m), n)
                        <=> k \in Int /\ <<a, p, k - n>> \in Times(A, m)
  BY <1>2, TimesIs
<1>4. ASSUME NEW a, NEW p, NEW k \in Int
      PROVE  <<a, p, k>> \in Times(Times(A, m), n) <=> <<a, p, k>> \in Times(A, m + n)
  <2>1. k - n \in Int /\ (k - n) - m = k - (m + n)
    OBVIOUS
  <2>2. QED
    BY <1>2, <1>3, <2>1
<1>5. QED
  BY <1>2, <1>3, <1>4, SameTerms

LEMMA TimesZero ==
  ASSUME NEW A, Formed(A)
  PROVE  Times(A, 0) = A
<1> DEFINE z == 0
<1>1. z \in Int /\ \A k \in Int : k - z = k
  OBVIOUS
<1> HIDE DEF z
<1>2. /\ Formed(Times(A, z))
      /\ \A a, p, k : <<a, p, k>> \in Times(A, z) <=> k \in Int /\ <<a, p, k - z>> \in A
  BY <1>1, TimesIs
<1>3. Times(A, z) = A
  BY <1>1, <1>2, SameTerms
<1>4. QED
  BY <1>3 DEF z

(* What data adds to the hash.  Byte j of the message is in block Block(j), *)
(* at Place(j).                                                            *)
Block(j) == (j - 1) \div GCM_BLOCK
Place(j) == ((j - 1) % GCM_BLOCK) + 1
Body(data) ==
    UNION {{<<atom, Place(i), CeilDiv(Len(data)) - Block(i)>> : atom \in data[i]} :
                i \in 1 .. Len(data)}

LEMMA GhashIs ==
  ASSUME NEW hash, NEW data
  PROVE  Ghash(hash, data) = Xor(Times(hash, CeilDiv(Len(data))), Body(data))
  BY DEF Ghash, Body, Block, Place

(* The terms of n bytes of data.                                           *)
BodyOf(B, data, n) ==
    /\ Formed(B)
    /\ \A a, p, k : <<a, p, k>> \in B <=>
            \E i \in 1 .. n : a \in data[i] /\ p = Place(i) /\ k = CeilDiv(n) - Block(i)

LEMMA BodyTells ==
  ASSUME NEW data, NEW n \in Nat, Len(data) = n
  PROVE  BodyOf(Body(data), data, n)
<1>1. GCM_BLOCK \in Nat \ {0} /\ CeilDiv(n) \in Nat
  BY GcmAssumption, CeilIs
<1> DEFINE K(i) == CeilDiv(n) - Block(i)
           T(i) == {<<atom, Place(i), K(i)>> : atom \in data[i]}
<1>2. ASSUME NEW i \in 1 .. n PROVE K(i) \in Int
  <2>1. i - 1 \in Nat
    OBVIOUS
  <2>2. (i - 1) \div GCM_BLOCK \in Nat
    BY <1>1, <2>1, DivisionOf
  <2>3. QED
    BY <1>1, <2>2 DEF Block
<1>3. Body(data) = UNION {T(i) : i \in 1 .. n}
  BY DEF Body
<1>4. \A i \in 1 .. n : K(i) \in Int
  BY <1>2
<1> HIDE DEF K
<1>5. Formed(UNION {T(i) : i \in 1 .. n})
  BY <1>4 DEF Formed
<1>6. \A a, p, k : <<a, p, k>> \in UNION {T(i) : i \in 1 .. n} <=>
            \E i \in 1 .. n : a \in data[i] /\ p = Place(i) /\ k = K(i)
  OBVIOUS
<1> HIDE DEF T
<1>7. \A a, p, k : <<a, p, k>> \in Body(data) <=>
            \E i \in 1 .. n : a \in data[i] /\ p = Place(i) /\ k = K(i)
  BY <1>3, <1>6
<1>8. Formed(Body(data))
  BY <1>3, <1>5
<1>9. QED
  BY <1>7, <1>8 DEF K, BodyOf

TermsOf(B, data, n, at) ==
    /\ Formed(B)
    /\ \A a, p, k : <<a, p, k>> \in B <=>
            k = 0 /\ \E i \in 1 .. n : a \in data[i] /\ p = at + i

LEMMA TermsTell ==
  ASSUME NEW data, NEW n \in Nat, Len(data) = n, NEW at \in Nat
  PROVE  TermsOf(Terms(data, at), data, n, at)
<1> DEFINE T(i) == {<<atom, at + i, 0>> : atom \in data[i]}
<1>1. Terms(data, at) = UNION {T(i) : i \in 1 .. n}
  BY DEF Terms
<1>2. Formed(UNION {T(i) : i \in 1 .. n})
  BY DEF Formed
<1>3. \A a, p, k : <<a, p, k>> \in UNION {T(i) : i \in 1 .. n} <=>
            k = 0 /\ \E i \in 1 .. n : a \in data[i] /\ p = at + i
  OBVIOUS
<1>4. QED
  BY <1>1, <1>2, <1>3 DEF TermsOf

LEMMA GhashFormed ==
  ASSUME NEW hash, Formed(hash), NEW data, NEW n \in Nat, Len(data) = n
  PROVE  Formed(Ghash(hash, data))
<1>1. CeilDiv(n) \in Int
  BY CeilIs
<1>2. Formed(Times(hash, CeilDiv(n))) /\ Formed(Body(data))
  BY <1>1, TimesIs, BodyTells DEF BodyOf
<1>3. QED
  BY <1>2, GhashIs, FormedXor
-----------------------------------------------------------------------------
(* So the hash can be taken in parts.                                      *)
CipherByte(dir, j) == IF dir = "ENC" THEN OutByte(j) ELSE InByte(j)

LEMMA CipherIs ==
  ASSUME NEW dir, NEW n \in Nat, NEW m \in Nat
  PROVE  /\ Len(CipherPart(dir, n, m)) = m
         /\ \A i \in 1 .. m : CipherPart(dir, n, m)[i] = CipherByte(dir, n + i)
<1>1. /\ Len(Input(n, m)) = m /\ (\A i \in 1 .. m : Input(n, m)[i] = InByte(n + i))
      /\ Len(OutPart(n, m)) = m /\ (\A i \in 1 .. m : OutPart(n, m)[i] = OutByte(n + i))
  BY InputIs, OutPartIs
<1>2. QED
  BY <1>1 DEF CipherPart, Ciphertext, CipherByte

LEMMA PlaceIs ==
  ASSUME NEW q \in Nat, NEW o \in 0 .. GCM_BLOCK - 1, NEW j, j = (q * GCM_BLOCK + o) + 1
  PROVE  Block(j) = q /\ Place(j) = o + 1
<1> DEFINE a == j - 1
           b == GCM_BLOCK
<1>1. b \in Nat \ {0}
  BY GcmAssumption
<1> HIDE DEF b
<1>2. q * b \in Nat
  BY <1>1
<1>3. a = q * b + o /\ o \in 0 .. b - 1
  BY <1>1, <1>2 DEF b
<1> HIDE DEF a
<1>4. a \div b = q /\ a % b = o
  BY <1>1, <1>3, DivIs
<1>5. QED
  BY <1>4 DEF Block, Place, a, b

(* Every byte has a place.                                                 *)
LEMMA PlaceOf ==
  ASSUME NEW j \in Nat \ {0}
  PROVE  /\ Block(j) \in Nat
         /\ Place(j) \in 1 .. GCM_BLOCK
         /\ j = Block(j) * GCM_BLOCK + Place(j)
<1> DEFINE a == j - 1
           b == GCM_BLOCK
<1>1. b \in Nat \ {0} /\ a \in Nat
  BY GcmAssumption
<1>2. j = a + 1
  OBVIOUS
<1> HIDE DEF a, b
<1>3. a \div b \in Nat /\ a % b \in 0 .. b - 1 /\ a = (a \div b) * b + (a % b)
  BY <1>1, DivisionOf
<1> DEFINE d == a \div b
           r == a % b
<1>4. Block(j) = d /\ Place(j) = r + 1
  BY DEF Block, Place, a, b
<1> HIDE DEF d, r
<1>5. d \in Nat /\ r \in 0 .. b - 1 /\ a = d * b + r
  BY <1>3 DEF d, r
<1>6. d * b \in Nat
  BY <1>1, <1>5
<1>7. j = d * b + (r + 1) /\ r + 1 \in 1 .. b
  BY <1>1, <1>2, <1>5, <1>6
<1>8. QED
  BY <1>4, <1>5, <1>7 DEF b

(* Behind q whole blocks the places are the same and the blocks q more.    *)
LEMMA PlaceMoves ==
  ASSUME NEW q \in Nat, NEW i \in Nat \ {0}
  PROVE  Block(q * GCM_BLOCK + i) = q + Block(i) /\ Place(q * GCM_BLOCK + i) = Place(i)
<1> DEFINE b == GCM_BLOCK
           d == Block(i)
           o == Place(i) - 1
<1>1. b \in Nat \ {0}
  BY GcmAssumption
<1>2. d \in Nat /\ o \in 0 .. b - 1 /\ i = d * b + (o + 1) /\ Place(i) = o + 1
  <2>1. Block(i) \in Nat /\ Place(i) \in 1 .. b /\ i = Block(i) * b + Place(i)
    BY PlaceOf
  <2>2. QED
    BY <1>1, <2>1
<1> HIDE DEF b, d, o
<1>3. (q + d) * b = q * b + d * b /\ q * b \in Nat /\ d * b \in Nat /\ q + d \in Nat
  BY <1>1, <1>2
<1> DEFINE j == q * b + i
<1>4. j = ((q + d) * b + o) + 1
  BY <1>1, <1>2, <1>3
<1> HIDE DEF j
<1>5. Block(j) = q + d /\ Place(j) = o + 1
  <2> DEFINE e == q + d
  <2>1. e \in Nat /\ j = (e * b + o) + 1
    BY <1>3, <1>4
  <2> HIDE DEF e
  <2>2. Block(j) = e /\ Place(j) = o + 1
    BY <1>2, <2>1, PlaceIs DEF b
  <2>3. QED
    BY <2>2 DEF e
<1>6. QED
  BY <1>2, <1>5 DEF j, b, d

(* The blocks of a number of bytes.                                        *)
LEMMA BlockBound ==
  ASSUME NEW q \in Nat, NEW i \in 1 .. q * GCM_BLOCK
  PROVE  Block(i) < q
<1> DEFINE b == GCM_BLOCK
           d == Block(i)
<1>1. b \in Nat \ {0}
  BY GcmAssumption
<1>2. q * b \in Nat
  BY <1>1
<1>3. i \in Nat \ {0}
  BY <1>2
<1>4. d \in Nat /\ Place(i) \in 1 .. b /\ i = d * b + Place(i)
  BY <1>3, PlaceOf
<1>5. i <= q * b
  BY <1>2
<1> HIDE DEF b, d
<1>6. ASSUME d >= q PROVE FALSE
  <2>1. d - q \in Nat
    BY <1>4, <1>6
  <2>2. d * b = q * b + (d - q) * b
    BY <1>1, <1>4
  <2>3. (d - q) * b \in Nat
    BY <1>1, <2>1
  <2>4. d * b \in Nat
    BY <1>1, <1>4
  <2>5. QED
    BY <1>1, <1>2, <1>4, <1>5, <2>2, <2>3, <2>4
<1>7. QED
  BY <1>4, <1>6 DEF d

(* The terms of the cipher text of m bytes after n.                        *)
CipherTerms(B, dir, n, m) ==
    /\ Formed(B)
    /\ \A a, p, k : <<a, p, k>> \in B <=>
            \E i \in 1 .. m : a \in CipherByte(dir, n + i) /\ p = Place(i) /\ k = CeilDiv(m) - Block(i)

LEMMA CipherBody ==
  ASSUME NEW dir, NEW n \in Nat, NEW m \in Nat
  PROVE  CipherTerms(Body(CipherPart(dir, n, m)), dir, n, m)
<1> DEFINE data == CipherPart(dir, n, m)
           B == Body(data)
<1>1. Len(data) = m /\ \A i \in 1 .. m : data[i] = CipherByte(dir, n + i)
  BY CipherIs
<1> HIDE DEF data
<1>2. BodyOf(B, data, m)
  BY <1>1, BodyTells
<1> HIDE DEF B
<1>3. CipherTerms(B, dir, n, m)
  BY <1>1, <1>2 DEF BodyOf, CipherTerms
<1>4. QED
  BY <1>3 DEF B, data

LEMMA CeilOn ==
  ASSUME NEW q \in Nat, NEW m \in Nat
  PROVE  CeilDiv(q * GCM_BLOCK) = q /\ CeilDiv(q * GCM_BLOCK + m) = q + CeilDiv(m)
<1> DEFINE b == GCM_BLOCK
           d == m \div b
           r == m % b
<1>1. b \in Nat \ {0}
  BY GcmAssumption
<1>2. d \in Nat /\ r \in 0 .. b - 1 /\ m = d * b + r
  BY <1>1, DivisionOf
<1>3. CeilDiv(m) = IF r = 0 THEN d ELSE d + 1
  BY CeilIs
<1> HIDE DEF b, d, r
<1>4. (q + d) * b = q * b + d * b /\ q * b \in Nat /\ d * b \in Nat
  BY <1>1, <1>2
<1> DEFINE n == q * b
           j == q * b + m
           e == q + d
           z == 0
<1>5. /\ n \in Nat /\ j \in Nat /\ e \in Nat /\ z \in 0 .. b - 1 /\ z = 0
      /\ n = q * b + z /\ j = e * b + r
  BY <1>1, <1>2, <1>4
<1> HIDE DEF n, j, e, z
<1>6. n \div b = q /\ n % b = z
  BY <1>1, <1>5, DivIs
<1>7. j \div b = e /\ j % b = r
  <2>1. j = e * b + r /\ e \in Nat
    BY <1>5
  <2>2. r \in 0 .. b - 1
    BY <1>2
  <2>3. QED
    BY <1>1, <2>1, <2>2, DivIs
<1>8. CeilDiv(n) = q
  BY <1>5, <1>6, CeilIs DEF b
<1>9. CeilDiv(j) = IF r = 0 THEN e ELSE e + 1
  BY <1>5, <1>7, CeilIs DEF b
<1>10. CeilDiv(j) = q + CeilDiv(m)
  BY <1>2, <1>3, <1>9 DEF e
<1>11. QED
  BY <1>8, <1>10 DEF n, j, b

(* After whole blocks the hash of what follows starts from the hash so far.*)
LEMMA HashOn ==
  ASSUME NEW dir, NEW A, Formed(A), NEW q \in Nat, NEW m \in Nat
  PROVE  Ghash(Ghash(A, CipherPart(dir, 0, q * GCM_BLOCK)), CipherPart(dir, q * GCM_BLOCK, m))
            = Ghash(A, CipherPart(dir, 0, q * GCM_BLOCK + m))
<1> DEFINE b == GCM_BLOCK
           n == q * b
           z == 0
           s == CipherPart(dir, z, n)
           t == CipherPart(dir, n, m)
           u == CipherPart(dir, z, n + m)
           c == CeilDiv(m)
           S == Body(s)
           T == Body(t)
           U == Body(u)
           V == Times(S, c)
<1>1. b \in Nat \ {0} /\ n \in Nat /\ c \in Nat /\ n + m \in Nat /\ z \in Nat
  <2>1. b \in Nat \ {0}
    BY GcmAssumption
  <2> HIDE DEF b
  <2>2. n \in Nat
    BY <2>1
  <2>3. c \in Nat
    BY CeilIs
  <2>4. QED
    BY <2>1, <2>2, <2>3
<1>2. CeilDiv(n) = q /\ CeilDiv(n + m) = q + c
  BY CeilOn
<1>3. Len(s) = n /\ Len(t) = m /\ Len(u) = n + m
  <2> HIDE DEF n, z
  <2>1. QED BY <1>1, CipherIs
<1>4. CipherTerms(S, dir, z, n)
  <2> HIDE DEF n, z
  <2>1. QED BY <1>1, CipherBody
<1>5. CipherTerms(T, dir, n, m)
  <2> HIDE DEF n
  <2>1. QED BY <1>1, CipherBody
<1>6. CipherTerms(U, dir, z, n + m)
  <2> HIDE DEF n, z
  <2>1. QED BY <1>1, CipherBody
<1>7. \A i \in 1 .. m : Block(n + i) = q + Block(i) /\ Place(n + i) = Place(i) /\ Block(i) \in Nat
  <2>1. \A i \in 1 .. m : i \in Nat \ {0}
    OBVIOUS
  <2>2. QED
    BY <2>1, PlaceMoves, PlaceOf
<1>8. \A i \in 1 .. n : Block(i) \in Nat /\ Block(i) < q
  <2>1. \A i \in 1 .. n : i \in Nat \ {0}
    BY <1>1
  <2>2. QED
    BY <2>1, BlockBound, PlaceOf
<1>9. \A i \in Nat : z + i = i
  OBVIOUS
<1> HIDE DEF b, n, s, t, u, S, T, U, z
<1>10. /\ Formed(S)
       /\ \A a, p, k : <<a, p, k>> \in S <=>
             \E i \in 1 .. n : a \in CipherByte(dir, z + i) /\ p = Place(i) /\ k = CeilDiv(n) - Block(i)
  BY <1>4 DEF CipherTerms
<1>11. /\ Formed(T)
       /\ \A a, p, k : <<a, p, k>> \in T <=>
             \E i \in 1 .. m : a \in CipherByte(dir, n + i) /\ p = Place(i) /\ k = c - Block(i)
  BY <1>5 DEF CipherTerms
<1>12. /\ Formed(U)
       /\ \A a, p, k : <<a, p, k>> \in U <=>
             \E i \in 1 .. n + m : a \in CipherByte(dir, z + i) /\ p = Place(i) /\ k = CeilDiv(n + m) - Block(i)
  BY <1>6 DEF CipherTerms
<1> HIDE DEF c
<1>13. Formed(V) /\ \A a, p, k : <<a, p, k>> \in V <=> k \in Int /\ <<a, p, k - c>> \in S
  BY <1>1, <1>10, TimesIs
<1> HIDE DEF V
<1>14. ASSUME NEW a, NEW p, NEW k \in Int, <<a, p, k>> \in V, <<a, p, k>> \in T PROVE FALSE
  <2>0. <<a, p, k - c>> \in S
    BY <1>13, <1>14
  <2>1. PICK i \in 1 .. n : k - c = CeilDiv(n) - Block(i)
    BY <1>10, <2>0
  <2>2. PICK h \in 1 .. m : k = c - Block(h)
    BY <1>11, <1>14
  <2>3. Block(i) \in Nat /\ Block(i) < q /\ Block(h) \in Nat
    BY <1>7, <1>8
  <2>4. QED
    BY <1>1, <1>2, <2>1, <2>2, <2>3
<1>15. V \cap T = {}
  BY <1>11, <1>13, <1>14 DEF Formed
<1>16. Formed(V \cup T)
  BY <1>11, <1>13 DEF Formed
<1>17. ASSUME NEW a, NEW p, NEW k \in Int
       PROVE  <<a, p, k>> \in U <=> <<a, p, k>> \in V \cup T
  <2>1. ASSUME <<a, p, k>> \in U PROVE <<a, p, k>> \in V \cup T
    <3>1. PICK i \in 1 .. n + m :
              a \in CipherByte(dir, z + i) /\ p = Place(i) /\ k = CeilDiv(n + m) - Block(i)
      BY <1>12, <2>1
    <3>2. CASE i <= n
      <4>1. i \in 1 .. n
        BY <1>1, <3>2
      <4>2. k - c = CeilDiv(n) - Block(i)
        BY <1>1, <1>2, <1>8, <3>1, <4>1
      <4>3. <<a, p, k - c>> \in S
        BY <1>10, <3>1, <4>1, <4>2
      <4>4. QED
        BY <1>13, <4>3
    <3>3. CASE i > n
      <4> DEFINE h == i - n
      <4>1. h \in 1 .. m /\ i = n + h /\ z + i = n + h
        BY <1>1, <1>9, <3>3
      <4> HIDE DEF h
      <4>2. k = c - Block(h) /\ p = Place(h)
        BY <1>1, <1>2, <1>7, <3>1, <4>1
      <4>3. <<a, p, k>> \in T
        BY <1>11, <3>1, <4>1, <4>2
      <4>4. QED
        BY <4>3
    <3>4. QED
      BY <1>1, <3>2, <3>3
  <2>2. ASSUME <<a, p, k>> \in V PROVE <<a, p, k>> \in U
    <3>0. <<a, p, k - c>> \in S
      BY <1>13, <2>2
    <3>1. PICK i \in 1 .. n :
              a \in CipherByte(dir, z + i) /\ p = Place(i) /\ k - c = CeilDiv(n) - Block(i)
      BY <1>10, <3>0
    <3>2. i \in 1 .. n + m /\ k = CeilDiv(n + m) - Block(i)
      BY <1>1, <1>2, <1>8, <3>1
    <3>3. QED
      BY <1>12, <3>1, <3>2
  <2>3. ASSUME <<a, p, k>> \in T PROVE <<a, p, k>> \in U
    <3>1. PICK h \in 1 .. m : a \in CipherByte(dir, n + h) /\ p = Place(h) /\ k = c - Block(h)
      BY <1>11, <2>3
    <3> DEFINE i == n + h
    <3>2. i \in 1 .. n + m /\ z + i = n + h
      BY <1>1, <1>9
    <3>3. k = CeilDiv(n + m) - Block(i) /\ p = Place(i)
      BY <1>1, <1>2, <1>7, <3>1
    <3> HIDE DEF i
    <3>4. QED
      BY <1>12, <3>1, <3>2, <3>3
  <2>4. QED
    BY <2>1, <2>2, <2>3
<1>18. U = Xor(V, T)
  <2>1. U = V \cup T
    BY <1>12, <1>16, <1>17, SameTerms
  <2>2. QED
    BY <1>15, <2>1, XorApart
<1> DEFINE Aq == Times(A, q)
           g  == Ghash(A, s)
<1>19. g = Xor(Aq, S)
  BY <1>2, <1>3, GhashIs DEF S
<1>20. Formed(Aq) /\ Times(Aq, c) = Times(A, q + c)
  <2>1. q \in Int /\ c \in Int
    BY <1>1
  <2>2. QED
    BY <2>1, TimesIs, TimesTimes
<1> HIDE DEF Aq, g
<1>21. Times(g, c) = Xor(Times(Aq, c), V)
  BY <1>1, <1>10, <1>19, <1>20, TimesXor DEF V
<1>22. Ghash(g, t) = Xor(Times(g, c), T)
  BY <1>3, GhashIs DEF T, c
<1>23. Ghash(A, u) = Xor(Times(A, q + c), U)
  BY <1>2, <1>3, GhashIs DEF U
<1>24. Xor(Xor(Times(Aq, c), V), T) = Xor(Times(Aq, c), Xor(V, T))
  BY XorAssoc
<1>25. Ghash(g, t) = Ghash(A, u)
  BY <1>18, <1>20, <1>21, <1>22, <1>23, <1>24
<1>26. QED
  BY <1>25 DEF g, s, t, u, n, b, z
(* Bytes hashed into one block, multiplied when it is closed.              *)
OneBlock(B, dir, n, m, at) ==
    /\ Formed(B)
    /\ \A a, p, k : <<a, p, k>> \in B <=>
            k = 1 /\ \E i \in 1 .. m : a \in CipherByte(dir, n + i) /\ p = at + i

LEMMA OneBlockIs ==
  ASSUME NEW dir, NEW n \in Nat, NEW m \in Nat, NEW at \in Nat
  PROVE  /\ OneBlock(Times(Terms(CipherPart(dir, n, m), at), 1), dir, n, m, at)
         /\ Formed(Terms(CipherPart(dir, n, m), at))
<1> DEFINE data == CipherPart(dir, n, m)
           T == Terms(data, at)
           one == 1
           B == Times(T, one)
<1>1. Len(data) = m /\ \A i \in 1 .. m : data[i] = CipherByte(dir, n + i)
  BY CipherIs
<1> HIDE DEF data
<1>2. TermsOf(T, data, m, at)
  BY <1>1, TermsTell
<1> HIDE DEF T
<1>3. /\ Formed(T)
      /\ \A a, p, k : <<a, p, k>> \in T <=>
              k = 0 /\ \E i \in 1 .. m : a \in data[i] /\ p = at + i
  BY <1>2 DEF TermsOf
<1>4. one \in Int /\ \A k : k \in Int /\ k - one = 0 <=> k = 1
  <2>1. \A k \in Int : k - one = 0 <=> k = 1
    OBVIOUS
  <2>2. QED
    BY <2>1
<1> HIDE DEF one
<1>5. Formed(B) /\ \A a, p, k : <<a, p, k>> \in B <=> k \in Int /\ <<a, p, k - one>> \in T
  BY <1>3, <1>4, TimesIs
<1> HIDE DEF B
<1>6. \A a, p, k : <<a, p, k>> \in B <=>
            k = 1 /\ \E i \in 1 .. m : a \in CipherByte(dir, n + i) /\ p = at + i
  <2>1. ASSUME NEW a, NEW p, NEW k
        PROVE  <<a, p, k>> \in B <=>
                  k = 1 /\ \E i \in 1 .. m : a \in CipherByte(dir, n + i) /\ p = at + i
    <3>1. <<a, p, k>> \in B <=> k \in Int /\ <<a, p, k - one>> \in T
      BY <1>5
    <3>2. <<a, p, k - one>> \in T <=>
              k - one = 0 /\ \E i \in 1 .. m : a \in data[i] /\ p = at + i
      BY <1>3
    <3>3. (\E i \in 1 .. m : a \in data[i] /\ p = at + i)
              <=> \E i \in 1 .. m : a \in CipherByte(dir, n + i) /\ p = at + i
      BY <1>1
    <3>4. k \in Int /\ k - one = 0 <=> k = 1
      BY <1>4
    <3>5. QED
      BY <3>1, <3>2, <3>3, <3>4
  <2>2. QED
    BY <2>1
<1>7. OneBlock(B, dir, n, m, at)
  BY <1>5, <1>6 DEF OneBlock
<1>8. QED
  BY <1>3, <1>7 DEF B, T, data, one

LEMMA CeilOne ==
  ASSUME NEW r \in 1 .. GCM_BLOCK
  PROVE  CeilDiv(r) = 1
<1> DEFINE b == GCM_BLOCK
<1>1. b \in Nat \ {0} /\ r \in Nat
  BY GcmAssumption
<1>2. CeilDiv(r) = (r + b - 1) \div b
  BY DEF CeilDiv
<1> DEFINE a == r + b - 1
           o == r - 1
           e == 1
<1>3. a = e * b + o /\ o \in 0 .. b - 1 /\ e \in Nat /\ a \in Nat
  BY <1>1
<1> HIDE DEF a, o, e, b
<1>4. a \div b = e
  BY <1>1, <1>3, DivIs
<1>5. QED
  BY <1>2, <1>4 DEF a, e

(* An open block that bytes are added to.                                  *)
LEMMA HashIn ==
  ASSUME NEW dir, NEW A, Formed(A), NEW n \in Nat, n % GCM_BLOCK # 0,
         NEW m \in Nat, m <= GCM_BLOCK - (n % GCM_BLOCK)
  PROVE  Ghash(A, CipherPart(dir, 0, n + m))
            = Xor(Ghash(A, CipherPart(dir, 0, n)),
                  Times(Terms(CipherPart(dir, n, m), n % GCM_BLOCK), 1))
<1> DEFINE b == GCM_BLOCK
           q == n \div b
           o == n % b
           z == 0
           s == CipherPart(dir, z, n)
           u == CipherPart(dir, z, n + m)
           S == Body(s)
           U == Body(u)
           V == Times(Terms(CipherPart(dir, n, m), o), 1)
<1>1. b \in Nat \ {0} /\ n + m \in Nat /\ z \in Nat
  BY GcmAssumption
<1>2. q \in Nat /\ o \in 1 .. b - 1 /\ n = q * b + o /\ m <= b - o
  <2>1. q \in Nat /\ o \in 0 .. b - 1 /\ n = q * b + o
    BY <1>1, DivisionOf
  <2>2. QED
    BY <1>1, <2>1
<1>3. Len(s) = n /\ Len(u) = n + m
  <2> HIDE DEF z
  <2>1. QED BY <1>1, CipherIs
<1>4. CipherTerms(S, dir, z, n) /\ CipherTerms(U, dir, z, n + m)
  <2> HIDE DEF z
  <2>1. QED BY <1>1, CipherBody
<1>5. OneBlock(V, dir, n, m, o)
  <2>1. o \in Nat
    BY <1>1, <1>2
  <2> HIDE DEF o
  <2>2. QED BY <2>1, OneBlockIs
<1>6. \A i \in Nat : z + i = i
  OBVIOUS
<1> HIDE DEF q, o, s, u, S, U, V, z
<1>7. CeilDiv(n) = q + 1 /\ CeilDiv(n + m) = q + 1
  <2>1. o \in 1 .. GCM_BLOCK /\ o + m \in 1 .. GCM_BLOCK /\ o \in Nat /\ o + m \in Nat
    BY <1>1, <1>2
  <2>2. CeilDiv(o) = 1 /\ CeilDiv(o + m) = 1
    BY <2>1, CeilOne
  <2>3. q * b \in Nat
    BY <1>1, <1>2
  <2> HIDE DEF b
  <2>4. n + m = q * b + (o + m)
    BY <1>2, <2>1, <2>3
  <2>5. CeilDiv(q * b + o) = q + CeilDiv(o) /\ CeilDiv(q * b + (o + m)) = q + CeilDiv(o + m)
    BY <1>2, <2>1, CeilOn DEF b
  <2>6. QED
    BY <1>2, <2>2, <2>4, <2>5
<1>8. /\ Formed(S)
      /\ \A a, p, k : <<a, p, k>> \in S <=>
            \E i \in 1 .. n : a \in CipherByte(dir, z + i) /\ p = Place(i) /\ k = (q + 1) - Block(i)
  BY <1>4, <1>7 DEF CipherTerms
<1>9. /\ Formed(U)
      /\ \A a, p, k : <<a, p, k>> \in U <=>
            \E i \in 1 .. n + m : a \in CipherByte(dir, z + i) /\ p = Place(i) /\ k = (q + 1) - Block(i)
  BY <1>4, <1>7 DEF CipherTerms
<1>10. /\ Formed(V)
       /\ \A a, p, k : <<a, p, k>> \in V <=>
              k = 1 /\ \E i \in 1 .. m : a \in CipherByte(dir, n + i) /\ p = o + i
  BY <1>5 DEF OneBlock
<1>11. ASSUME NEW i \in 1 .. m PROVE Block(n + i) = q /\ Place(n + i) = o + i
  <2> DEFINE j == n + i
             e == o + i - 1
  <2> HIDE DEF b
  <2>1. q * b \in Nat
    BY <1>1, <1>2
  <2>2. e \in 0 .. b - 1 /\ j = (q * b + e) + 1 /\ e + 1 = o + i
    BY <1>1, <1>2, <2>1
  <2> HIDE DEF e, j
  <2>3. Block(j) = q /\ Place(j) = e + 1
    BY <1>2, <2>2, PlaceIs DEF b
  <2>4. QED
    BY <2>2, <2>3 DEF j
<1>12. ASSUME NEW i \in 1 .. n, (q + 1) - Block(i) = 1 PROVE Place(i) <= o
  <2>1. Block(i) \in Nat /\ Place(i) \in 1 .. b /\ i = Block(i) * b + Place(i)
    BY PlaceOf
  <2>2. Block(i) = q
    BY <1>2, <1>12, <2>1
  <2> DEFINE qb == q * b
  <2>3. qb \in Nat /\ i = qb + Place(i) /\ n = qb + o
    BY <1>1, <1>2, <2>1, <2>2
  <2> HIDE DEF qb
  <2>4. QED
    BY <1>1, <1>2, <2>1, <2>3
<1>13. ASSUME NEW a, NEW p, NEW k, <<a, p, k>> \in S, <<a, p, k>> \in V PROVE FALSE
  <2>1. PICK i \in 1 .. n : p = Place(i) /\ k = (q + 1) - Block(i)
    BY <1>8, <1>13
  <2>2. k = 1 /\ \E h \in 1 .. m : p = o + h
    BY <1>10, <1>13
  <2>3. PICK h \in 1 .. m : p = o + h
    BY <2>2
  <2>4. Place(i) <= o
    BY <1>12, <2>1, <2>2
  <2>5. QED
    BY <1>1, <1>2, <2>1, <2>3, <2>4
<1>14. S \cap V = {}
  BY <1>8, <1>13 DEF Formed
<1>15. Formed(S \cup V)
  BY <1>8, <1>10 DEF Formed
<1>16. ASSUME NEW a, NEW p, NEW k \in Int
       PROVE  <<a, p, k>> \in U <=> <<a, p, k>> \in S \cup V
  <2>1. ASSUME <<a, p, k>> \in U PROVE <<a, p, k>> \in S \cup V
    <3>1. PICK i \in 1 .. n + m :
              a \in CipherByte(dir, z + i) /\ p = Place(i) /\ k = (q + 1) - Block(i)
      BY <1>9, <2>1
    <3>2. CASE i <= n
      <4>1. i \in 1 .. n
        BY <1>1, <3>2
      <4>2. QED
        BY <1>8, <3>1, <4>1
    <3>3. CASE i > n
      <4> DEFINE h == i - n
      <4>1. h \in 1 .. m /\ i = n + h /\ z + i = n + h
        BY <1>1, <1>6, <3>3
      <4> HIDE DEF h
      <4>2. k = 1 /\ p = o + h
        BY <1>1, <1>2, <1>11, <3>1, <4>1
      <4>3. QED
        BY <1>10, <3>1, <4>1, <4>2
    <3>4. QED
      BY <1>1, <3>2, <3>3
  <2>2. ASSUME <<a, p, k>> \in S PROVE <<a, p, k>> \in U
    <3>1. PICK i \in 1 .. n :
              a \in CipherByte(dir, z + i) /\ p = Place(i) /\ k = (q + 1) - Block(i)
      BY <1>8, <2>2
    <3>2. i \in 1 .. n + m
      BY <1>1
    <3>3. QED
      BY <1>9, <3>1, <3>2
  <2>3. ASSUME <<a, p, k>> \in V PROVE <<a, p, k>> \in U
    <3>1. k = 1 /\ \E h \in 1 .. m : a \in CipherByte(dir, n + h) /\ p = o + h
      BY <1>10, <2>3
    <3>2. PICK h \in 1 .. m : a \in CipherByte(dir, n + h) /\ p = o + h
      BY <3>1
    <3> DEFINE i == n + h
    <3>3. i \in 1 .. n + m /\ z + i = n + h
      BY <1>1, <1>6
    <3>4. k = (q + 1) - Block(i) /\ p = Place(i)
      <4>1. k = 1
        BY <3>1
      <4>2. Block(i) = q /\ Place(i) = o + h
        BY <1>11
      <4>3. (q + 1) - q = 1
        BY <1>2
      <4>4. QED
        BY <3>2, <4>1, <4>2, <4>3
    <3> HIDE DEF i
    <3>5. QED
      BY <1>9, <3>2, <3>3, <3>4
  <2>4. QED
    BY <2>1, <2>2, <2>3
<1>17. U = Xor(S, V)
  <2>1. U = S \cup V
    BY <1>9, <1>15, <1>16, SameTerms
  <2>2. QED
    BY <1>14, <2>1, XorApart
<1>18. Ghash(A, s) = Xor(Times(A, q + 1), S) /\ Ghash(A, u) = Xor(Times(A, q + 1), U)
  BY <1>3, <1>7, GhashIs DEF S, U
<1>19. Ghash(A, u) = Xor(Ghash(A, s), V)
  BY <1>17, <1>18, XorAssoc
<1>20. QED
  BY <1>19 DEF s, u, V, z, o, b

(* A block that bytes open.                                                *)
LEMMA HashOpen ==
  ASSUME NEW dir, NEW h, Formed(h), NEW n \in Nat, NEW r \in 1 .. GCM_BLOCK
  PROVE  Times(Xor(h, Terms(CipherPart(dir, n, r), 0)), 1) = Ghash(h, CipherPart(dir, n, r))
<1> DEFINE z == 0
           one == 1
           s == CipherPart(dir, n, r)
           T == Terms(s, z)
           V == Times(T, one)
           S == Body(s)
<1>1. r \in Nat /\ z \in Nat /\ one \in Int /\ GCM_BLOCK \in Nat \ {0}
  BY GcmAssumption
<1>2. OneBlock(V, dir, n, r, z) /\ Formed(T)
  <2> HIDE DEF z
  <2>1. QED BY <1>1, OneBlockIs
<1>3. CipherTerms(S, dir, n, r)
  BY <1>1, CipherBody
<1>4. Len(s) = r
  BY <1>1, CipherIs
<1>5. CeilDiv(r) = 1
  BY CeilOne
<1>6. \A i \in 1 .. r : Block(i) = 0 /\ Place(i) = z + i
  <2>1. ASSUME NEW i \in 1 .. r PROVE Block(i) = 0 /\ Place(i) = i
    <3> DEFINE q == 0
               e == i - 1
               b == GCM_BLOCK
    <3>1. q \in Nat /\ e \in 0 .. b - 1 /\ i = (q * b + e) + 1 /\ e + 1 = i
      BY <1>1
    <3> HIDE DEF q, e, b
    <3>2. Block(i) = q /\ Place(i) = e + 1
      BY <3>1, PlaceIs DEF b
    <3>3. QED
      BY <3>1, <3>2 DEF q
  <2>2. QED
    BY <1>1, <2>1
<1> HIDE DEF S, V, T, s, z
<1>7. /\ Formed(S)
      /\ \A a, p, k : <<a, p, k>> \in S <=>
            \E i \in 1 .. r : a \in CipherByte(dir, n + i) /\ p = Place(i) /\ k = 1 - Block(i)
  BY <1>3, <1>5 DEF CipherTerms
<1>8. /\ Formed(V)
      /\ \A a, p, k : <<a, p, k>> \in V <=>
            k = 1 /\ \E i \in 1 .. r : a \in CipherByte(dir, n + i) /\ p = z + i
  BY <1>2 DEF OneBlock
<1>9. \A i \in 1 .. r : 1 - Block(i) = 1
  BY <1>6
<1>10. \A a, p, k : <<a, p, k>> \in S <=> <<a, p, k>> \in V
  <2>1. ASSUME NEW a, NEW p, NEW k
        PROVE  <<a, p, k>> \in S <=> <<a, p, k>> \in V
    <3>1. <<a, p, k>> \in S <=>
            \E i \in 1 .. r : a \in CipherByte(dir, n + i) /\ p = Place(i) /\ k = 1 - Block(i)
      BY <1>7
    <3>2. <<a, p, k>> \in V <=>
            k = 1 /\ \E i \in 1 .. r : a \in CipherByte(dir, n + i) /\ p = z + i
      BY <1>8
    <3>3. (\E i \in 1 .. r : a \in CipherByte(dir, n + i) /\ p = Place(i) /\ k = 1 - Block(i))
            <=> k = 1 /\ \E i \in 1 .. r : a \in CipherByte(dir, n + i) /\ p = z + i
      BY <1>6, <1>9
    <3>4. QED
      BY <3>1, <3>2, <3>3
  <2>2. QED
    BY <2>1
<1>11. S = V
  BY <1>7, <1>8, <1>10, SameTerms
<1>12. Ghash(h, s) = Xor(Times(h, one), S)
  BY <1>4, <1>5, GhashIs DEF S
<1> HIDE DEF one
<1>13. Times(Xor(h, T), one) = Xor(Times(h, one), V)
  BY <1>1, <1>2, TimesXor DEF V
<1>14. QED
  BY <1>11, <1>12, <1>13 DEF s, T, z, one

(* Nothing more to hash.                                                   *)
LEMMA HashNone ==
  ASSUME NEW dir, NEW h, Formed(h), NEW n \in Nat
  PROVE  Ghash(h, CipherPart(dir, n, 0)) = h
<1> DEFINE z == 0
           s == CipherPart(dir, n, z)
           S == Body(s)
<1>1. z \in Nat /\ Len(s) = z
  <2>1. z \in Nat
    OBVIOUS
  <2> HIDE DEF z
  <2>2. QED BY <2>1, CipherIs
<1>2. CipherTerms(S, dir, n, z)
  <2> HIDE DEF z
  <2>1. QED BY <1>1, CipherBody
<1>3. CeilDiv(z) = 0
  <2> DEFINE q == 0
             b == GCM_BLOCK
  <2>1. q \in Nat /\ z \in Nat /\ q * b = z /\ b \in Nat \ {0}
    BY GcmAssumption
  <2> HIDE DEF q, b, z
  <2>2. CeilDiv(q * b) = q
    BY <2>1, CeilOn DEF b
  <2>3. QED
    BY <2>1, <2>2 DEF q
<1> HIDE DEF S, s
<1>4. Formed(S) /\ \A a, p, k : <<a, p, k>> \notin S
  BY <1>2 DEF CipherTerms
<1>5. S = {}
  BY <1>4 DEF Formed
<1>6. Ghash(h, s) = Xor(Times(h, 0), S)
  BY <1>1, <1>3, GhashIs DEF S
<1>7. Times(h, 0) = h
  BY TimesZero
<1>8. QED
  BY <1>5, <1>6, <1>7 DEF Xor, s
-----------------------------------------------------------------------------
(* Every stage of an update keeps the hash that of the bytes gone through, *)
(* but for the multiplication an open block still has to get.              *)
HashAt(h, dir, A, n) ==
    /\ Formed(h)
    /\ (IF n % GCM_BLOCK = 0 THEN h ELSE Times(h, 1)) = Ghash(A, CipherPart(dir, 0, n))

Stage(A, dir, c, n) == Ready(c, n) /\ HashAt(c.AadHash, dir, A, n)

(* x is what a stage makes of the context c and m bytes after n.           *)
Staged(A, dir, c, x, n, m) ==
    /\ x.out = OutPart(n, m)
    /\ Stage(A, dir, x.ctx, n + m)
    /\ Same(c, x.ctx)

LEMMA PartialStage ==
  ASSUME NEW dir, NEW A, Formed(A), NEW c, NEW n \in Nat, NEW len \in Nat, Stage(A, dir, c, n)
  PROVE  \E m \in 0 .. len :
            /\ Staged(A, dir, c, PARTIAL_BLOCK(dir, c, Input(n, len)), n, m)
            /\ m = len \/ (n + m) % GCM_BLOCK = 0
<1> DEFINE p == n % GCM_BLOCK
           x == PARTIAL_BLOCK(dir, c, Input(n, len))
<1>1. GCM_BLOCK \in Nat \ {0} /\ p \in 0 .. GCM_BLOCK - 1
  BY GcmAssumption
<1>2. CASE p = 0
  <2>1. c.PBlockLen = 0
    BY <1>2 DEF Stage, Ready
  <2>2. x = [ctx |-> c, out |-> << >>]
    BY <2>1 DEF PARTIAL_BLOCK
  <2> DEFINE m == 0
  <2>3. n + m = n /\ m \in 0 .. len /\ OutPart(n, m) = << >>
    BY DEF OutPart
  <2> HIDE DEF x, m
  <2>4. Staged(A, dir, c, x, n, m)
    BY <2>2, <2>3 DEF Staged, Same
  <2>5. QED
    BY <1>2, <2>3, <2>4 DEF x
<1>3. CASE p # 0
  <2> DEFINE m == Smaller(len, GCM_BLOCK - p)
             T == Terms(CipherPart(dir, n, m), p)
             h == Xor(c.AadHash, T)
             g == Ghash(A, CipherPart(dir, 0, n + m))
  <2>1. Ready(c, n) /\ HashAt(c.AadHash, dir, A, n)
    BY DEF Stage
  <2>2. /\ x.out = OutPart(n, m) /\ Ready(x.ctx, n + m) /\ Same(c, x.ctx)
        /\ x.ctx.AadHash = PartialHash(dir, c, n, m)
        /\ m \in 0 .. len /\ m <= GCM_BLOCK - p
        /\ m = len \/ (n + m) % GCM_BLOCK = 0
    <3> HIDE DEF m
    <3>1. m = Smaller(len, GCM_BLOCK - (n % GCM_BLOCK))
      BY DEF m
    <3>2. QED
      BY <1>3, <2>1, <3>1, PartialIs
  <2> HIDE DEF m, x
  <2>3. m \in Nat /\ p \in Nat /\ 1 \in Int
    BY <1>1, <2>2
  <2>4. Formed(T)
    BY <2>3, OneBlockIs
  <2>5. Formed(c.AadHash) /\ Times(c.AadHash, 1) = Ghash(A, CipherPart(dir, 0, n))
    BY <1>3, <2>1 DEF HashAt
  <2>6. g = Xor(Ghash(A, CipherPart(dir, 0, n)), Times(T, 1))
    BY <1>3, <2>2, <2>3, HashIn
  <2>7. PartialHash(dir, c, n, m) = IF (n + m) % GCM_BLOCK = 0 THEN Times(h, 1) ELSE h
    BY DEF PartialHash
  <2> HIDE DEF T, g, p
  <2>8. Formed(h) /\ Times(h, 1) = g
    BY <2>3, <2>4, <2>5, <2>6, FormedXor, TimesXor
  <2> HIDE DEF h
  <2>9. Formed(Times(h, 1))
    BY <2>3, <2>8, TimesIs
  <2>10. HashAt(x.ctx.AadHash, dir, A, n + m)
    BY <2>2, <2>7, <2>8, <2>9 DEF HashAt, g
  <2>11. Staged(A, dir, c, x, n, m)
    BY <2>2, <2>10 DEF Staged, Stage
  <2>12. QED
    BY <2>2, <2>11 DEF x
<1>4. QED
  BY <1>2, <1>3

LEMMA WholeStage ==
  ASSUME NEW dir, NEW A, Formed(A), NEW c, NEW n \in Nat, NEW k \in Nat, NEW w,
         w = k * GCM_BLOCK, n % GCM_BLOCK = 0 \/ w = 0, Stage(A, dir, c, n)
  PROVE  /\ Staged(A, dir, c, WholeBlocks(dir, c, Input(n, w)), n, w)
         /\ n % GCM_BLOCK = 0 => (n + w) % GCM_BLOCK = 0
<1> DEFINE b == GCM_BLOCK
           x == WholeBlocks(dir, c, Input(n, w))
           q == n \div b
<1>1. b \in Nat \ {0} /\ w \in Nat
  BY GcmAssumption
<1>2. Ready(c, n) /\ HashAt(c.AadHash, dir, A, n)
  BY DEF Stage
<1>3. /\ x.out = OutPart(n, w) /\ Ready(x.ctx, n + w) /\ Same(c, x.ctx)
      /\ x.ctx.AadHash = Ghash(c.AadHash, CipherPart(dir, n, w))
  BY <1>2, WholeIs
<1>4. Formed(c.AadHash)
  BY <1>2 DEF HashAt
<1>5. q \in Nat /\ n = q * b + (n % b)
  BY <1>1, DivisionOf
<1>6. w = k * b
  OBVIOUS
<1> HIDE DEF x, q, b
<1>7. ASSUME n % GCM_BLOCK = 0 PROVE n = q * b /\ (n + w) % b = 0
  <2>1. n = q * b /\ q * b \in Nat
    BY <1>1, <1>5, <1>7 DEF b
  <2>2. (q + k) * b = q * b + k * b /\ q + k \in Nat
    BY <1>1, <1>5
  <2> DEFINE a == n + w
             e == q + k
             o == 0
  <2>3. a = e * b + o /\ o \in 0 .. b - 1 /\ e \in Nat
    BY <1>1, <1>6, <2>1, <2>2
  <2> HIDE DEF a, e, o
  <2>4. a % b = o
    BY <1>1, <2>3, DivIs
  <2>5. QED
    BY <2>1, <2>4 DEF a, o
<1>8. HashAt(x.ctx.AadHash, dir, A, n + w)
  <2>1. CASE w = 0
    <3>1. Ghash(c.AadHash, CipherPart(dir, n, 0)) = c.AadHash
      BY <1>4, HashNone
    <3>2. n + w = n
      BY <2>1
    <3>3. QED
      BY <1>2, <1>3, <2>1, <3>1, <3>2
  <2>2. CASE w # 0
    <3>1. n % b = 0 /\ n = q * b /\ (n + w) % b = 0
      BY <1>7, <2>2 DEF b
    <3>2. c.AadHash = Ghash(A, CipherPart(dir, 0, n))
      BY <1>2, <3>1 DEF HashAt, b
    <3>3. Ghash(Ghash(A, CipherPart(dir, 0, q * b)), CipherPart(dir, q * b, w))
             = Ghash(A, CipherPart(dir, 0, q * b + w))
      BY <1>1, <1>5, HashOn DEF b
    <3>4. x.ctx.AadHash = Ghash(A, CipherPart(dir, 0, n + w))
      BY <1>3, <3>1, <3>2, <3>3
    <3>5. Formed(x.ctx.AadHash)
      <4>1. Len(CipherPart(dir, n, w)) = w
        BY <1>1, CipherIs
      <4>2. QED
        BY <1>1, <1>3, <1>4, <4>1, GhashFormed
    <3>6. QED
      BY <3>1, <3>4, <3>5 DEF HashAt, b
  <2>3. QED
    BY <2>1, <2>2
<1>9. Staged(A, dir, c, x, n, w)
  BY <1>3, <1>8 DEF Staged, Stage
<1>10. QED
  BY <1>7, <1>9 DEF x, b

LEMMA LastStage ==
  ASSUME NEW dir, NEW A, Formed(A), NEW c, NEW n \in Nat, NEW r \in 0 .. GCM_BLOCK - 1,
         n % GCM_BLOCK = 0 \/ r = 0, Stage(A, dir, c, n)
  PROVE  Staged(A, dir, c, LastPiece(dir, c, Input(n, r)), n, r)
<1> DEFINE b == GCM_BLOCK
           x == LastPiece(dir, c, Input(n, r))
           q == n \div b
<1>1. b \in Nat \ {0} /\ r \in Nat
  BY GcmAssumption
<1>2. Ready(c, n) /\ HashAt(c.AadHash, dir, A, n)
  BY DEF Stage
<1>3. /\ x.out = OutPart(n, r) /\ Ready(x.ctx, n + r) /\ Same(c, x.ctx)
      /\ x.ctx.AadHash = IF r = 0 THEN c.AadHash
                         ELSE Xor(c.AadHash, Terms(CipherPart(dir, n, r), 0))
  BY <1>2, LastIs
<1>4. Formed(c.AadHash)
  BY <1>2 DEF HashAt
<1>5. q \in Nat /\ n = q * b + (n % b)
  BY <1>1, DivisionOf
<1>6. r \in 0 .. b - 1
  OBVIOUS
<1> HIDE DEF x, q, b
<1>7. CASE r = 0
  <2>1. n + r = n
    BY <1>7
  <2>2. HashAt(x.ctx.AadHash, dir, A, n + r)
    BY <1>2, <1>3, <1>7, <2>1
  <2>3. QED
    BY <1>3, <2>2 DEF Staged, Stage, x
<1>8. CASE r # 0
  <2>1. n % b = 0 /\ n = q * b /\ r \in 1 .. b
    BY <1>1, <1>5, <1>6, <1>8 DEF b
  <2>2. (n + r) % b = r
    <3> DEFINE a == n + r
    <3>1. a = q * b + r /\ q \in Nat /\ b \in Nat \ {0} /\ r \in 0 .. b - 1
      BY <1>1, <1>5, <1>6, <2>1
    <3> HIDE DEF a
    <3>2. a % b = r
      BY <3>1, DivIs
    <3>3. QED
      BY <3>2 DEF a
  <2> DEFINE T == Terms(CipherPart(dir, n, r), 0)
             h == Xor(c.AadHash, T)
  <2>3. x.ctx.AadHash = h
    BY <1>3, <1>8
  <2>4. Formed(T)
    <3> DEFINE z == 0
    <3>1. z \in Nat
      OBVIOUS
    <3> HIDE DEF z
    <3>2. Formed(Terms(CipherPart(dir, n, r), z))
      BY <1>1, <3>1, OneBlockIs
    <3>3. QED
      BY <3>2 DEF z
  <2>5. Times(h, 1) = Ghash(c.AadHash, CipherPart(dir, n, r))
    BY <1>4, <2>1, HashOpen DEF b
  <2> HIDE DEF T
  <2>6. Formed(h)
    BY <1>4, <2>4, FormedXor
  <2> HIDE DEF h
  <2>7. c.AadHash = Ghash(A, CipherPart(dir, 0, n))
    BY <1>2, <2>1 DEF HashAt, b
  <2>8. Ghash(Ghash(A, CipherPart(dir, 0, q * b)), CipherPart(dir, q * b, r))
           = Ghash(A, CipherPart(dir, 0, q * b + r))
    BY <1>1, <1>5, HashOn DEF b
  <2>9. Times(h, 1) = Ghash(A, CipherPart(dir, 0, n + r))
    BY <2>1, <2>5, <2>7, <2>8
  <2>10. HashAt(x.ctx.AadHash, dir, A, n + r)
    BY <1>8, <2>2, <2>3, <2>6, <2>9 DEF HashAt, b
  <2>11. QED
    BY <1>3, <2>10 DEF Staged, Stage, x
<1>9. QED
  BY <1>7, <1>8

LEMMA InputEnd ==
  ASSUME NEW n \in Nat, NEW m \in Nat, NEW a \in Nat, a <= m
  PROVE  SubSeq(Input(n, m), a + 1, m) = Input(n + a, m - a)
<1>1. m <= m
  OBVIOUS
<1>2. QED
  BY <1>1, InputPart

(* GCM_ENC_DEC: the three stages in a row.                                 *)
Stages(dir, c, in, len, a, rest, whole, x, d) ==
    /\ a = PARTIAL_BLOCK(dir, c, in)
    /\ rest = SubSeq(in, Len(a.out) + 1, len)
    /\ whole = Len(rest) - (Len(rest) % GCM_BLOCK)
    /\ x = WholeBlocks(dir, a.ctx, SubSeq(rest, 1, whole))
    /\ d = LastPiece(dir, x.ctx, SubSeq(rest, whole + 1, Len(rest)))

Advanced(A, dir, c, n, len, a, x, d) ==
    /\ Stage(A, dir, d.ctx, n + len)
    /\ Same(c, d.ctx)
    /\ (OutPart(0, n) \o a.out) \o (x.out \o d.out) = OutPart(0, n + len)

LEMMA StagesAre ==
  ASSUME NEW dir, NEW A, Formed(A), NEW c, NEW n \in Nat, NEW len \in Nat, Stage(A, dir, c, n),
         NEW a, NEW rest, NEW whole, NEW x, NEW d,
         Stages(dir, c, Input(n, len), len, a, rest, whole, x, d)
  PROVE  Advanced(A, dir, c, n, len, a, x, d)
<1>1. PICK m \in 0 .. len : Staged(A, dir, c, a, n, m) /\ (m = len \/ (n + m) % GCM_BLOCK = 0)
  <2>1. a = PARTIAL_BLOCK(dir, c, Input(n, len))
    BY DEF Stages
  <2>2. QED
    BY <2>1, PartialStage
<1> DEFINE b == GCM_BLOCK
           l == len - m
           k == l \div b
           r == l % b
           w == k * b
           na == n + m
           nx == na + w
<1>2. b \in Nat \ {0} /\ m \in Nat /\ m <= len /\ l \in Nat /\ na \in Nat
  BY GcmAssumption
<1>3. k \in Nat /\ r \in 0 .. b - 1 /\ l = w + r
  <2> HIDE DEF b, l
  <2>1. QED BY <1>2, DivisionOf
<1>4. w \in Nat /\ r \in Nat /\ nx \in Nat
  <2> HIDE DEF b, l, k, r, na
  <2>1. QED BY <1>2, <1>3
<1>5. a.out = OutPart(n, m) /\ Stage(A, dir, a.ctx, na) /\ Same(c, a.ctx)
  BY <1>1 DEF Staged
<1>6. Len(a.out) = m
  BY <1>2, <1>5, OutPartIs
<1>7. rest = Input(na, l) /\ Len(rest) = l
  <2>1. SubSeq(Input(n, len), m + 1, len) = Input(na, l)
    <3> HIDE DEF b, l, k, r, w, na, nx
    <3>1. /\ len \in Nat /\ n \in Nat /\ m \in Nat
          /\ m <= len /\ len <= len
      BY <1>2
    <3>2. SubSeq(Input(n, len), m + 1, len) = Input(n + m, len - m)
      BY ONLY <3>1, InputEnd
    <3>3. QED
      BY <3>2 DEF na, l
  <2>2. Len(Input(na, l)) = l
    <3> HIDE DEF na, l
    <3>1. QED BY <1>2, InputIs
  <2> HIDE DEF na, l
  <2>3. QED
    BY <1>6, <2>1, <2>2 DEF Stages
<1>8. na % b = 0 \/ (w = 0 /\ r = 0)
  <2>1. CASE m = len
    <3>1. l = 0
      BY <1>2, <2>1
    <3> HIDE DEF l, k, r, b, w
    <3>2. QED
      BY <1>3, <1>4, <3>1
  <2>2. CASE (n + m) % GCM_BLOCK = 0
    BY <2>2
  <2>3. QED
    BY <1>1, <2>1, <2>2
<1>9. whole = w
  <2>1. whole = l - r
    <3> HIDE DEF l
    <3>1. QED BY <1>7 DEF Stages
  <2> HIDE DEF l, r, w, k, na, nx, b
  <2>2. l - r = w
    BY <1>3, <1>4
  <2>3. QED
    BY <2>1, <2>2
<1>10. nx + r = n + len /\ m + (w + r) = len
  <2> HIDE DEF w, r, k
  <2>1. QED BY <1>2, <1>3, <1>4
<1>11. l - w = r /\ w <= l
  <2> HIDE DEF l, r, w, k, na, nx, b
  <2>1. QED BY <1>2, <1>3, <1>4
<1> HIDE DEF l, r, k
<1>12. Staged(A, dir, a.ctx, x, na, w) /\ (na % b = 0 => nx % b = 0)
  <2>1. SubSeq(rest, 1, w) = Input(na, w)
    <3> HIDE DEF na, w, b, nx
    <3>1. QED BY <1>2, <1>4, <1>7, <1>11, InputStart
  <2>2. x = WholeBlocks(dir, a.ctx, Input(na, w))
    BY <1>9, <2>1 DEF Stages
  <2> DEFINE v == w
  <2>3. v = k * GCM_BLOCK /\ (na % GCM_BLOCK = 0 \/ v = 0)
    BY <1>8
  <2> HIDE DEF na, v, b, w, nx
  <2>4. /\ Staged(A, dir, a.ctx, WholeBlocks(dir, a.ctx, Input(na, v)), na, v)
        /\ na % GCM_BLOCK = 0 => (na + v) % GCM_BLOCK = 0
    BY <1>2, <1>3, <1>5, <2>3, WholeStage
  <2>5. QED
    BY <2>2, <2>4 DEF v, nx, b
<1> HIDE DEF w
<1>13. x.out = OutPart(na, w) /\ Stage(A, dir, x.ctx, nx) /\ Same(a.ctx, x.ctx)
  BY <1>12 DEF Staged
<1>14. Staged(A, dir, x.ctx, d, nx, r)
  <2>1. SubSeq(rest, w + 1, l) = Input(nx, r)
    <3> HIDE DEF na, nx, b
    <3>1. /\ na \in Nat /\ l \in Nat /\ w \in Nat
          /\ w <= l /\ l <= l
      BY <1>2, <1>4, <1>11
    <3>2. SubSeq(Input(na, l), w + 1, l) = Input(na + w, l - w)
      BY ONLY <3>1, InputEnd
    <3>3. QED
      BY <1>7, <1>11, <3>2 DEF nx
  <2>2. d = LastPiece(dir, x.ctx, Input(nx, r))
    BY <1>7, <1>9, <2>1 DEF Stages
  <2> HIDE DEF na, nx
  <2>3. nx % GCM_BLOCK = 0 \/ r = 0
    BY <1>8, <1>12
  <2>4. Staged(A, dir, x.ctx, LastPiece(dir, x.ctx, Input(nx, r)), nx, r)
    BY <1>3, <1>4, <1>13, <2>3, LastStage
  <2>5. QED
    BY <2>2, <2>4
<1>15. d.out = OutPart(nx, r) /\ Stage(A, dir, d.ctx, nx + r) /\ Same(x.ctx, d.ctx)
  BY <1>14 DEF Staged
<1>16. Same(c, d.ctx)
  BY <1>5, <1>13, <1>15 DEF Same
<1>17. (OutPart(0, n) \o a.out) \o (x.out \o d.out) = OutPart(0, n + len)
  <2> DEFINE z == 0
             s == w + r
  <2>1. z \in Nat /\ z + n = n /\ s \in Nat /\ z + na = na /\ na + s = n + len
    BY <1>2, <1>4, <1>10
  <2> HIDE DEF z, na, s, b
  <2>2. OutPart(na, w) \o OutPart(na + w, r) = OutPart(na, w + r)
    BY <1>2, <1>4, OutPartsJoin, ZenonT(30)
  <2>3. OutPart(z, n) \o OutPart(z + n, m) = OutPart(z, n + m)
    <3>1. z \in Nat /\ n \in Nat /\ m \in Nat
      BY <1>2, <2>1
    <3>2. QED
      BY ONLY <3>1, OutPartsJoin
  <2>4. OutPart(z, na) \o OutPart(z + na, s) = OutPart(z, na + s)
    <3>1. z \in Nat /\ na \in Nat /\ s \in Nat
      BY <1>2, <2>1
    <3>2. QED
      BY ONLY <3>1, OutPartsJoin
  <2>5. OutPart(z, n) \o a.out = OutPart(z, na)
    BY <1>5, <2>1, <2>3 DEF na
  <2>6. x.out \o d.out = OutPart(na, s)
    BY <1>13, <1>15, <2>2 DEF s
  <2>7. QED
    BY <2>1, <2>4, <2>5, <2>6 DEF z
<1>18. QED
  BY <1>10, <1>15, <1>16, <1>17 DEF Advanced
-----------------------------------------------------------------------------
(* The context is that of the InLen bytes given so far, and the output is  *)
(* the standard's; while the message is open so is the hash, and once it   *)
(* is complete the tag.                                                    *)
AadHashed(aadLen) == Ghash({}, Aad(aadLen))

GcmInv ==
    /\ gcmDir \in {"ENC", "DEC"}
    /\ gcmPhase \in {"raw", "open", "final"}
    /\ gcm.InLen \in 0 .. GcmMaxLen
    /\ Ready(gcm, gcm.InLen)
    /\ gcmOut = OutPart(0, gcm.InLen)
    /\ gcmPhase = "open" => HashAt(gcm.AadHash, gcmDir, AadHashed(gcm.AadLen), gcm.InLen)
    /\ gcmPhase = "final" /\ AadFits => gcmTag = WholeTag(gcmDir, gcm.AadLen, gcm.InLen)

LEMMA AadFormed ==
  ASSUME NEW n \in Nat
  PROVE  Formed(AadHashed(n))
<1>1. Formed({})
  BY DEF Formed
<1>2. Len(Aad(n)) = n
  <2>1. Aad(n) \in [1 .. n -> {{<<"aad", i>>} : i \in 1 .. n}]
    BY DEF Aad
  <2>2. QED
    BY <2>1
<1>3. QED
  BY <1>1, <1>2, GhashFormed DEF AadHashed

(* A context that GCM_INIT has just set.                                   *)
LEMMA GcmFresh ==
  ASSUME NEW dir, NEW n \in Nat
  PROVE  /\ GCM_INIT(n).InLen = 0 /\ GCM_INIT(n).AadLen = n
         /\ Ready(GCM_INIT(n), 0)
         /\ HashAt(GCM_INIT(n).AadHash, dir, AadHashed(n), 0)
         /\ OutPart(0, 0) = << >>
<1> DEFINE z == 0
           c == GCM_INIT(n)
           b == GCM_BLOCK
<1>1. /\ c.InLen = z /\ c.AadLen = n /\ c.AadHash = AadHashed(n)
      /\ c.PBlockLen = z /\ c.CurCount = Y0 /\ IsContext(c)
  <2>1. Y0 \in Nat /\ z \in Nat
    BY DEF Y0
  <2>2. QED
    BY <2>1 DEF GCM_INIT, AadHashed, IsContext, ContextWith
<1>2. OutPart(z, z) = << >>
  BY DEF OutPart
<1>3. b \in Nat \ {0} /\ z \in 0 .. b - 1 /\ z = z * b + z /\ z \in Nat
  BY GcmAssumption
<1>4. Y0 \in Nat /\ Y0 + z = Y0
  BY DEF Y0
<1>5. z = 0
  OBVIOUS
<1> HIDE DEF z, c, b
<1>6. z \div b = z /\ z % b = z
  BY <1>3, DivIs
<1>7. CeilDiv(z) = z
  BY <1>3, <1>5, <1>6, CeilIs DEF b
<1>8. Ready(c, z)
  BY <1>1, <1>4, <1>5, <1>6, <1>7 DEF Ready, b
<1>9. Formed(AadHashed(n))
  BY AadFormed
<1>10. Ghash(AadHashed(n), CipherPart(dir, 0, 0)) = AadHashed(n)
  <2>1. z \in Nat
    BY <1>3
  <2>2. Ghash(AadHashed(n), CipherPart(dir, z, 0)) = AadHashed(n)
    BY <1>9, <2>1, HashNone
  <2>3. QED
    BY <1>5, <2>2
<1>11. HashAt(c.AadHash, dir, AadHashed(n), z)
  BY <1>1, <1>5, <1>6, <1>9, <1>10 DEF HashAt, b
<1>12. QED
  BY <1>1, <1>2, <1>5, <1>8, <1>11 DEF c, z

LEMMA GcmPart == Init /\ [][Next]_vars => GcmInit /\ [][GcmNext]_gcmVars
<1>1. Init => GcmInit
  BY DEF Init
<1>2. [Next]_vars => [GcmNext]_gcmVars
  BY DEF Next, vars, gcmVars, BaseStep, MhStep, GcmStep, XtsStep, CbcStep, RollingStep,
         DispatchStep, ApiStep
<1>3. QED
  BY <1>1, <1>2, PTL

LEMMA StartKeeps ==
  ASSUME GcmInv, NEW n \in AadLens, GcmStart(n)
  PROVE  GcmInv'
<1>1. n \in Nat /\ GcmMaxLen \in Nat
  BY GcmAssumption
<1>2. /\ gcm' = GCM_INIT(n) /\ gcmOut' = << >> /\ gcmPhase' = "open" /\ gcmDir' = gcmDir
  BY DEF GcmStart
<1>3. /\ GCM_INIT(n).InLen = 0 /\ GCM_INIT(n).AadLen = n
      /\ Ready(GCM_INIT(n), 0)
      /\ HashAt(GCM_INIT(n).AadHash, gcmDir, AadHashed(n), 0)
      /\ OutPart(0, 0) = << >>
  BY <1>1, GcmFresh
<1>4. QED
  BY <1>1, <1>2, <1>3 DEF GcmInv

LEMMA GivenKeeps ==
  ASSUME GcmInv, NEW len \in Nat, GcmUpdate(len)
  PROVE  GcmInv'
<1> DEFINE n == gcm.InLen
           A == AadHashed(gcm.AadLen)
<1>1. /\ gcmPhase = "open" /\ n + len <= GcmMaxLen
      /\ gcmDir' = gcmDir /\ gcmTag' = gcmTag /\ gcmPhase' = gcmPhase
  BY DEF GcmUpdate
<1>2. /\ n \in Nat /\ GcmMaxLen \in Nat /\ gcmDir \in {"ENC", "DEC"}
      /\ Ready(gcm, n) /\ gcmOut = OutPart(0, n)
      /\ HashAt(gcm.AadHash, gcmDir, A, n)
  BY <1>1, GcmAssumption DEF GcmInv
<1>3. gcm.AadLen \in Nat /\ gcm \in ContextWith({gcm.AadHash})
  BY <1>2 DEF Ready, IsContext, ContextWith
<1>4. Formed(A) /\ Stage(A, gcmDir, gcm, n)
  BY <1>2, <1>3, AadFormed DEF Stage
<1>5. CASE len = 0
  <2>1. gcm' = gcm /\ gcmOut' = gcmOut
    BY <1>5 DEF GcmUpdate
  <2>2. QED
    BY <1>1, <2>1 DEF GcmInv
<1>6. CASE len # 0
  <2>1. PICK a, rest, whole, x, d :
            /\ Stages(gcmDir, gcm, Input(n, len), len, a, rest, whole, x, d)
            /\ gcm' = [d.ctx EXCEPT !.InLen = @ + len]
            /\ gcmOut' = (gcmOut \o a.out) \o (x.out \o d.out)
    BY <1>6 DEF GcmUpdate, Stages
  <2> HIDE DEF A
  <2>2. /\ Stage(A, gcmDir, d.ctx, n + len)
        /\ Same(gcm, d.ctx)
        /\ (OutPart(0, n) \o a.out) \o (x.out \o d.out) = OutPart(0, n + len)
    <3> HIDE DEF n
    <3>1. /\ n \in Nat /\ len \in Nat /\ Formed(A) /\ Stage(A, gcmDir, gcm, n)
          /\ Stages(gcmDir, gcm, Input(n, len), len, a, rest, whole, x, d)
      BY <1>2, <1>4, <2>1
    <3>2. Advanced(A, gcmDir, gcm, n, len, a, x, d)
      BY ONLY <3>1, StagesAre
    <3>3. QED
      BY <3>2 DEF Advanced
  <2> DEFINE c == d.ctx
  <2>3. gcm' = [c EXCEPT !.InLen = n + len] /\ c.InLen = n /\ c.AadLen = gcm.AadLen
    BY <2>1, <2>2 DEF Same
  <2>4. c \in ContextWith({c.AadHash}) /\ n + len \in Nat /\ n + len \in 0 .. GcmMaxLen
    BY <1>1, <1>2, <2>2 DEF Stage, Ready, IsContext
  <2>5. Stage(A, gcmDir, c, n + len)
    BY <2>2
  <2> DEFINE m == n + len
  <2> HIDE DEF c, n, m
  <2>6. /\ gcm'.InLen = m /\ gcm'.AadLen = c.AadLen /\ gcm'.AadHash = c.AadHash
        /\ gcm'.PBlockLen = c.PBlockLen /\ gcm'.PBlockEncKey = c.PBlockEncKey
        /\ gcm'.CurCount = c.CurCount
        /\ gcm' \in ContextWith({gcm'.AadHash})
    BY <2>3, <2>4 DEF ContextWith, m
  <2>7. Ready(gcm', m) /\ HashAt(gcm'.AadHash, gcmDir, A, m)
    BY <2>5, <2>6 DEF Stage, Ready, IsContext, m
  <2>8. gcmOut' = OutPart(0, m)
    BY <1>2, <2>1, <2>2 DEF m
  <2>9. gcm'.InLen \in 0 .. GcmMaxLen /\ gcm'.AadLen = gcm.AadLen
    BY <2>3, <2>4, <2>6 DEF m
  <2>10. QED
    BY <1>1, <1>2, <2>6, <2>7, <2>8, <2>9 DEF GcmInv, A
<1>7. QED
  BY <1>5, <1>6

LEMMA TagIs ==
  ASSUME NEW dir, NEW c, NEW n \in Nat, Ready(c, n), c.InLen = n, c.AadLen < AAD_LIMIT,
         HashAt(c.AadHash, dir, AadHashed(c.AadLen), n)
  PROVE  GCM_COMPLETE(c) = WholeTag(dir, c.AadLen, n)
<1>1. (IF c.PBlockLen = 0 THEN c.AadHash ELSE Times(c.AadHash, 1))
          = Ghash(Ghash({}, Aad(c.AadLen)), CipherPart(dir, 0, n))
  BY DEF Ready, HashAt, AadHashed
<1>2. CipherPart(dir, 0, n) = Ciphertext(dir, Input(0, n), WholeOutput(n))
  BY WholeOutputIs DEF CipherPart
<1>3. c.AadLen % AAD_LIMIT = c.AadLen
  <2>1. c.AadLen \in Nat /\ AAD_LIMIT \in Nat \ {0}
    BY GcmAssumption DEF Ready, IsContext, ContextWith
  <2>2. QED
    BY <2>1
<1>4. QED
  BY <1>1, <1>2, <1>3 DEF GCM_COMPLETE, WholeTag

LEMMA FinalizeKeeps ==
  ASSUME GcmInv, GcmFinalize
  PROVE  GcmInv'
<1> DEFINE n == gcm.InLen
           h == IF gcm.PBlockLen = 0 THEN gcm.AadHash ELSE Times(gcm.AadHash, 1)
<1>1. /\ gcmPhase = "open" /\ gcmTag' = GCM_COMPLETE(gcm) /\ gcmPhase' = "final"
      /\ gcmDir' = gcmDir /\ gcmOut' = gcmOut
      /\ gcm' = [gcm EXCEPT !.AadHash = h]
  BY DEF GcmFinalize
<1>2. /\ n \in 0 .. GcmMaxLen /\ n \in Nat /\ gcmDir \in {"ENC", "DEC"}
      /\ Ready(gcm, n) /\ gcmOut = OutPart(0, n)
      /\ HashAt(gcm.AadHash, gcmDir, AadHashed(gcm.AadLen), n)
  BY <1>1, GcmAssumption DEF GcmInv
<1>3. AadFits => gcmTag' = WholeTag(gcmDir, gcm.AadLen, n)
  BY <1>1, <1>2, TagIs DEF AadFits
<1>4. gcm \in ContextWith({gcm.AadHash})
  BY <1>2 DEF Ready, IsContext
<1> HIDE DEF h
<1>5. /\ gcm'.InLen = gcm.InLen /\ gcm'.AadLen = gcm.AadLen
      /\ gcm'.PBlockLen = gcm.PBlockLen /\ gcm'.PBlockEncKey = gcm.PBlockEncKey
      /\ gcm'.CurCount = gcm.CurCount
      /\ gcm' \in ContextWith({gcm'.AadHash})
  BY <1>1, <1>4 DEF ContextWith
<1>6. Ready(gcm', n)
  BY <1>2, <1>5 DEF Ready, IsContext
<1>7. QED
  BY <1>1, <1>2, <1>3, <1>5, <1>6 DEF GcmInv, AadFits

LEMMA GcmStays == Init /\ [][Next]_vars => []GcmInv
<1>1. GcmInit => GcmInv
  <2> SUFFICES ASSUME GcmInit PROVE GcmInv
    OBVIOUS
  <2> DEFINE n == 0
  <2>1. gcmDir \in {"ENC", "DEC"} /\ gcm = GCM_INIT(n) /\ gcmOut = << >> /\ gcmPhase = "raw"
    BY DEF GcmInit
  <2>2. n \in Nat /\ 0 \in 0 .. GcmMaxLen
    BY GcmAssumption
  <2> HIDE DEF n
  <2>3. GCM_INIT(n).InLen = 0 /\ Ready(GCM_INIT(n), 0) /\ OutPart(0, 0) = << >>
    BY <2>2, GcmFresh
  <2>4. QED
    BY <2>1, <2>2, <2>3 DEF GcmInv
<1>2. GcmInv /\ [GcmNext]_gcmVars => GcmInv'
  <2> SUFFICES ASSUME GcmInv, [GcmNext]_gcmVars PROVE GcmInv'
    OBVIOUS
  <2>1. CASE UNCHANGED gcmVars
    BY <2>1 DEF gcmVars, GcmInv, AadFits
  <2>2. ASSUME NEW n \in AadLens, GcmStart(n) PROVE GcmInv'
    BY <2>2, StartKeeps
  <2>3. ASSUME NEW len \in 0 .. GcmMaxLen, GcmUpdate(len) PROVE GcmInv'
    <3>1. len \in Nat
      BY GcmAssumption
    <3>2. QED
      BY <2>3, <3>1, GivenKeeps
  <2>4. CASE GcmFinalize
    BY <2>4, FinalizeKeeps
  <2>5. QED
    BY <2>1, <2>2, <2>3, <2>4 DEF GcmNext
<1>3. QED
  BY <1>1, <1>2, GcmPart, PTL

(* Wherever a message is cut into pieces and whatever way the counters of  *)
(* eight blocks are taken, the bytes written so far are those the standard *)
(* gives for the bytes read so far, for every size of block and group and  *)
(* every range of the counter's low byte.                                  *)
THEOREM GcmOutputHolds == Spec => []GcmOutputIsReference
<1>1. GcmInv => GcmOutputIsReference
  <2> SUFFICES ASSUME GcmInv PROVE GcmOutputIsReference
    OBVIOUS
  <2>1. gcm.InLen \in Nat /\ gcmOut = OutPart(0, gcm.InLen)
    BY GcmAssumption DEF GcmInv
  <2>2. QED
    BY <2>1, WholeOutputIs DEF GcmOutputIsReference
<1>2. QED
  BY <1>1, GcmStays, PTL DEF Spec

(* The tag _aes_gcm_enc_<key>_finalize and its twin write is that of the   *)
(* whole message, hashed at once: the block left open between two pieces   *)
(* is multiplied once, when it is full or at the end.  The length of the   *)
(* authenticated data has to fit the 32 bits GCM_COMPLETE keeps of it.     *)
THEOREM GcmTagHolds == Spec => []GcmTagIsReference
<1>1. GcmInv => GcmTagIsReference
  BY DEF GcmInv, GcmTagIsReference
<1>2. QED
  BY <1>1, GcmStays, PTL DEF Spec
-----------------------------------------------------------------------------
(* AES-CBC.  What a call works on: block i of its input, the block it is   *)
(* chained to, and the chained result.                                     *)
InBlock(c, i) == FilledBlocks[c.in + i - 1]
Text(c)       == Chained(c.dir, GetBlocks(FilledBlocks, c.in, c.n))
Before(c, i)  == IF i = 1 THEN IV ELSE IF c.dir = "enc" THEN Text(c)[i - 1] ELSE InBlock(c, i - 1)

ChainedTo(c, i) ==
    IF c.dir = "enc" THEN CipherOf("E", XorBlocks(InBlock(c, i), Before(c, i)))
    ELSE XorBlocks(CipherOf("D", InBlock(c, i)), Before(c, i))

(* The cipher texts before one another exist: those of the first k blocks  *)
(* do for k = 0 and, with the next, for one more.                          *)
Link(data, h, i) == IF i = 0 THEN IV ELSE CipherOf("E", XorBlocks(data[i], h[i - 1]))
Links(data, h, k) == h = [i \in 0 .. k |-> Link(data, h, i)]

LEMMA LinksExist ==
  ASSUME NEW data, NEW n \in Nat
  PROVE  \E h : Links(data, h, n)
<1> DEFINE S == {k \in 0 .. n : \E h : Links(data, h, k)}
<1>1. 0 \in S
  <2> DEFINE h == [i \in 0 .. 0 |-> IV]
  <2>1. \A i \in 0 .. 0 : Link(data, h, i) = IV
    BY DEF Link
  <2>2. h = [i \in 0 .. 0 |-> Link(data, h, i)]
    <3> DEFINE g == [i \in 0 .. 0 |-> Link(data, h, i)]
    <3>1. g = [i \in 0 .. 0 |-> IV]
      BY <2>1
    <3>2. QED
      BY <3>1
  <2> HIDE DEF h
  <2>3. Links(data, h, 0)
    BY <2>2 DEF Links
  <2>4. QED
    BY <2>3
<1>2. ASSUME NEW k \in 0 .. n - 1, k \in S PROVE k + 1 \in S
  <2>1. PICK h : Links(data, h, k)
    BY <1>2
  <2>2. k + 1 \in 0 .. n /\ k \in Nat
    OBVIOUS
  <2> DEFINE g == [i \in 0 .. k + 1 |-> Link(data, h, i)]
  <2>3. \A i \in 0 .. k : h[i] = Link(data, h, i)
    BY <2>1 DEF Links
  <2>4. \A i \in 0 .. k : g[i] = h[i]
    BY <2>2, <2>3
  <2>5. ASSUME NEW i \in 0 .. k + 1 PROVE Link(data, g, i) = Link(data, h, i)
    <3>1. CASE i = 0
      BY <3>1 DEF Link
    <3>2. CASE i # 0
      <4>1. i - 1 \in 0 .. k
        BY <2>2, <3>2
      <4>2. g[i - 1] = h[i - 1]
        BY <2>4, <4>1
      <4> HIDE DEF g
      <4>3. QED
        BY <3>2, <4>2 DEF Link
    <3>3. QED
      BY <3>1, <3>2
  <2>6. g = [i \in 0 .. k + 1 |-> Link(data, g, i)]
    <3> DEFINE f == [i \in 0 .. k + 1 |-> Link(data, g, i)]
    <3>1. f = [i \in 0 .. k + 1 |-> Link(data, h, i)]
      <4> HIDE DEF g
      <4>1. QED BY <2>5
    <3>2. QED
      BY <3>1
  <2> HIDE DEF g
  <2>7. Links(data, g, k + 1)
    BY <2>6 DEF Links
  <2>8. QED
    BY <2>2, <2>7
<1> HIDE DEF S
<1>3. 0 .. n \subseteq S
  BY <1>1, <1>2, UpTo
<1>4. QED
  BY <1>3 DEF S

(* The chained result as a sequence, block by block.                       *)
TextOf(c, t) ==
    /\ DOMAIN t = 1 .. c.n
    /\ t = [i \in 1 .. c.n |-> t[i]]
    /\ \A i \in 1 .. c.n : t[i] = ChainedTo(c, i)

LEMMA TextIs ==
  ASSUME NEW c, c.n \in Nat
  PROVE  TextOf(c, Text(c))
<1> DEFINE data == GetBlocks(FilledBlocks, c.in, c.n)
           n == c.n
           h == CHOOSE g : Links(data, g, n)
           t == Text(c)
<1>1. Len(data) = n /\ \A i \in 1 .. n : data[i] = InBlock(c, i)
  BY DEF GetBlocks, InBlock
<1> HIDE DEF data
<1>2. Links(data, h, n)
  BY LinksExist
<1>3. t = [i \in 1 .. n |->
              IF c.dir = "enc" THEN h[i]
              ELSE XorBlocks(CipherOf("D", data[i]), IF i = 1 THEN IV ELSE data[i - 1])]
  <2>1. h = CHOOSE g : g = [i \in 0 .. n |->
              IF i = 0 THEN IV ELSE CipherOf("E", XorBlocks(data[i], g[i - 1]))]
    BY DEF Links, Link
  <2> HIDE DEF h, n
  <2>2. Chained(c.dir, data) = [i \in 1 .. n |->
              IF c.dir = "enc" THEN h[i]
              ELSE XorBlocks(CipherOf("D", data[i]), IF i = 1 THEN IV ELSE data[i - 1])]
    BY <1>1, <2>1 DEF Chained
  <2>3. QED
    BY <2>2 DEF Text, data
<1> HIDE DEF t, h
<1>4. \A i \in 0 .. n : h[i] = Link(data, h, i)
  BY <1>2 DEF Links
<1>5. ASSUME NEW i \in 1 .. n PROVE t[i] = ChainedTo(c, i)
  <2>1. i \in 0 .. n /\ i - 1 \in 0 .. n /\ i # 0 /\ (i # 1 => i - 1 \in 1 .. n)
    OBVIOUS
  <2>2. CASE c.dir = "enc"
    <3>1. t[i] = CipherOf("E", XorBlocks(data[i], h[i - 1]))
      BY <1>3, <1>4, <2>1, <2>2 DEF Link
    <3>2. h[i - 1] = IF i = 1 THEN IV ELSE t[i - 1]
      <4>1. CASE i = 1
        BY <1>4, <2>1, <4>1 DEF Link
      <4>2. CASE i # 1
        BY <1>3, <2>1, <2>2, <4>2
      <4>3. QED
        BY <4>1, <4>2
    <3>3. QED
      BY <1>1, <2>2, <3>1, <3>2 DEF ChainedTo, Before, t
  <2>3. CASE c.dir # "enc"
    <3>1. t[i] = XorBlocks(CipherOf("D", data[i]), IF i = 1 THEN IV ELSE data[i - 1])
      BY <1>3, <2>3
    <3>2. QED
      BY <1>1, <2>1, <2>3, <3>1 DEF ChainedTo, Before
  <2>4. QED
    BY <2>2, <2>3
<1>6. DOMAIN t = 1 .. n /\ t = [i \in 1 .. n |-> t[i]]
  BY <1>3
<1>7. QED
  BY <1>5, <1>6 DEF TextOf, t

(* Memory once the call has written k blocks.                              *)
Written(mem, c, k) ==
    mem = [a \in 1 .. CbcMemory |->
              IF a \in c.out .. c.out + k - 1 THEN Text(c)[a - c.out + 1] ELSE FilledBlocks[a]]

LEMMA WriteMore ==
  ASSUME NEW mem, NEW c, c.out \in Int, NEW k \in Nat, Written(mem, c, k),
         NEW m \in Nat, NEW blocks, Len(blocks) = m,
         \A i \in 1 .. m : blocks[i] = Text(c)[k + i]
  PROVE  Written(PutBlocks(mem, c.out + k, blocks), c, k + m)
<1> DEFINE at == c.out + k
           t == Text(c)
           o == c.out
           V(a) == IF a \in at .. at + Len(blocks) - 1 THEN blocks[a - at + 1] ELSE mem[a]
           W(a) == IF a \in o .. o + (k + m) - 1 THEN t[a - o + 1] ELSE FilledBlocks[a]
<1>1. DOMAIN mem = 1 .. CbcMemory
  BY DEF Written
<1>2. PutBlocks(mem, at, blocks) = [a \in 1 .. CbcMemory |-> V(a)]
  BY <1>1 DEF PutBlocks
<1>3. o \in Int /\ at = o + k
  OBVIOUS
<1>4. \A a \in 1 .. CbcMemory : mem[a] = IF a \in o .. o + k - 1 THEN t[a - o + 1] ELSE FilledBlocks[a]
  BY DEF Written
<1>5. \A i \in 1 .. m : blocks[i] = t[k + i]
  OBVIOUS
<1> HIDE DEF at, t, o
<1>6. ASSUME NEW a \in 1 .. CbcMemory PROVE V(a) = W(a)
  <2>0. a \in Int /\ at \in Int
    BY <1>3, CbcAssumption
  <2>1. CASE a \in at .. at + m - 1
    <3>1. a - at + 1 \in 1 .. m /\ k + (a - at + 1) = a - o + 1 /\ a \in o .. o + (k + m) - 1
      BY <1>3, <2>0, <2>1, SMTT(30)
    <3>2. QED
      BY <1>5, <2>1, <3>1
  <2>2. CASE a \notin at .. at + m - 1
    <3>1. a \in o .. o + (k + m) - 1 <=> a \in o .. o + k - 1
      BY <1>3, <2>0, <2>2
    <3>2. QED
      BY <1>4, <2>2, <3>1
  <2>3. QED
    BY <2>1, <2>2
<1> HIDE DEF V, W
<1>7. [a \in 1 .. CbcMemory |-> V(a)] = [a \in 1 .. CbcMemory |-> W(a)]
  BY <1>6
<1>8. QED
  BY <1>2, <1>7 DEF Written, W, at, o, t

(* The blocks of a call and its place in memory.                           *)
Fits(c) ==
    /\ c.in \in Nat \ {0} /\ c.out \in Int /\ c.n \in Nat
    /\ c.in + c.n - 1 <= CbcMemory
    /\ c.out - c.in <= 1 \/ c.out - c.in >= c.n

(* One block of look-ahead: block j is still the caller's when fewer than  *)
(* j - 1 have been written.                                                *)
LEMMA ReadIs ==
  ASSUME NEW mem, NEW c, Fits(c), NEW k \in 0 .. c.n, Written(mem, c, k),
         NEW j \in 1 .. c.n, k = 0 \/ j >= k + 2
  PROVE  mem[c.in + j - 1] = InBlock(c, j)
<1> DEFINE a == c.in + j - 1
           o == c.out
           i == c.in
           n == c.n
<1>1. i \in Nat \ {0} /\ o \in Int /\ n \in Nat /\ i + n - 1 <= CbcMemory
      /\ (o - i <= 1 \/ o - i >= n) /\ j \in 1 .. n /\ k \in 0 .. n /\ a = i + j - 1
  BY DEF Fits
<1>2. \A x \in 1 .. CbcMemory :
          mem[x] = IF x \in o .. o + k - 1 THEN Text(c)[x - o + 1] ELSE FilledBlocks[x]
  BY DEF Written
<1>3. CbcMemory \in Nat
  BY CbcAssumption
<1> HIDE DEF o, i, n, a
<1>4. a \in 1 .. CbcMemory /\ a \notin o .. o + k - 1
  BY <1>1, <1>3
<1>5. mem[a] = FilledBlocks[a]
  BY <1>2, <1>4
<1>6. QED
  BY <1>5 DEF a, InBlock
(* Calls with the same arguments have the same input and result.           *)
Alike(c, d) == d.in = c.in /\ d.out = c.out /\ d.n = c.n /\ d.dir = c.dir

LEMMA AlikeIs ==
  ASSUME NEW c, NEW d, Alike(c, d)
  PROVE  /\ Text(d) = Text(c)
         /\ \A i : InBlock(d, i) = InBlock(c, i) /\ Before(d, i) = Before(c, i)
         /\ \A mem, k : Written(mem, c, k) => Written(mem, d, k)
         /\ Fits(c) => Fits(d)
<1>1. Text(d) = Text(c)
  BY DEF Alike, Text
<1>2. \A i : InBlock(d, i) = InBlock(c, i)
  BY DEF Alike, InBlock
<1>3. \A i : Before(d, i) = Before(c, i)
  BY <1>1, <1>2 DEF Alike, Before
<1>4. \A mem, k : Written(mem, c, k) => Written(mem, d, k)
  <2>1. d.out = c.out
    BY DEF Alike
  <2>2. QED
    BY <1>1, <2>1 DEF Written
<1>5. Fits(c) => Fits(d)
  BY DEF Fits, Alike
<1>6. QED
  BY <1>1, <1>2, <1>3, <1>4, <1>5

(* What a call has done and what its registers hold: the block in work,    *)
(* xored with what it is chained to; the first block of the next eight,    *)
(* read ahead, and the block before it.                                    *)
CallShape(c) ==
    c = [pc |-> c.pc, dir |-> c.dir, n |-> c.n, in |-> c.in, out |-> c.out, idx |-> c.idx,
         len |-> c.len, first |-> c.first, regs |-> c.regs, xdata0 |-> c.xdata0, iv |-> c.iv]

InWork(c) ==
    /\ CallShape(c)
    /\ c.pc \in {"enc", "dec", "by8", "ret"}
    /\ c.dir \in {"enc", "dec"}
    /\ Fits(c)
    /\ c.idx \in 0 .. c.n
    /\ c.len = c.n - c.idx
    /\ c.first \in 0 .. UNROLLED_LOOPS - 1
    /\ DOMAIN c.regs = 0 .. UNROLLED_LOOPS - 1
    /\ c.regs = [i \in 0 .. UNROLLED_LOOPS - 1 |-> c.regs[i]]

Holding(c) ==
    /\ c.pc = "enc" => /\ c.dir = "enc" /\ c.len >= 1
                       /\ c.regs[c.first] = XorBlocks(InBlock(c, c.idx + 1), Before(c, c.idx + 1))
    /\ c.pc = "dec" => c.dir = "dec" /\ c.idx = 0 /\ c.len >= 1 /\ c.iv = IV
    /\ c.pc = "by8" => /\ c.dir = "dec" /\ c.len >= CBC_GROUP /\ c.len % CBC_GROUP = 0
                       /\ c.xdata0 = InBlock(c, c.idx + 1)
                       /\ c.iv = Before(c, c.idx + 1)

LEMMA NextRegister ==
  ASSUME NEW u \in Nat \ {0, 1}, NEW f \in 0 .. u - 1
  PROVE  (f + 1) % u \in 0 .. u - 1 /\ (f + 1) % u # f
<1>1. CASE f = u - 1
  <2> DEFINE z == 0
             e == 1
             a == f + 1
  <2>1. a = e * u + z /\ z \in 0 .. u - 1 /\ e \in Nat /\ u \in Nat \ {0}
    BY <1>1
  <2> HIDE DEF z, e, a
  <2>2. a % u = z
    BY <2>1, DivIs
  <2>3. QED
    BY <1>1, <2>2 DEF a, z
<1>2. CASE f # u - 1
  <2> DEFINE z == 0
             a == f + 1
  <2>1. z * u = 0
    OBVIOUS
  <2>2. a \in 0 .. u - 1 /\ a \in Nat /\ z \in Nat /\ u \in Nat \ {0}
    BY <1>2
  <2> HIDE DEF z, a
  <2>3. a = z * u + a
    BY <2>1, <2>2
  <2>4. a % u = a
    BY ONLY <2>2, <2>3, DivIs
  <2>5. QED
    BY <1>2, <2>4 DEF a
<1>3. QED
  BY <1>1, <1>2

LEMMA EncKeeps ==
  ASSUME NEW c, NEW mem, InWork(c), Holding(c), Written(mem, c, c.idx), c.pc = "enc",
         NEW r, r = EncBlock(c, mem),
         NEW d, d = [c EXCEPT !.regs = r.regs,
                              !.first = (@ + 1) % UNROLLED_LOOPS,
                              !.idx = @ + 1,
                              !.len = @ - 1,
                              !.pc = IF c.len = 1 THEN "ret" ELSE "enc"]
  PROVE  InWork(d) /\ Holding(d) /\ Written(r.mem, d, d.idx)
<1> DEFINE u == UNROLLED_LOOPS
           next == (c.first + 1) % u
           cipher == CipherOf("E", c.regs[c.first])
           k == c.idx
           n == c.n
<1>1. u \in Nat \ {0, 1} /\ c.first \in 0 .. u - 1 /\ next \in 0 .. u - 1 /\ next # c.first
  <2>1. u \in Nat \ {0, 1} /\ c.first \in 0 .. u - 1
    BY CbcAssumption DEF InWork
  <2>2. QED
    BY <2>1, NextRegister
<1>2. /\ Fits(c) /\ c.dir = "enc" /\ n \in Nat /\ k \in 0 .. n /\ c.len = n - k /\ c.len >= 1
      /\ c.regs[c.first] = XorBlocks(InBlock(c, k + 1), Before(c, k + 1))
      /\ DOMAIN c.regs = 0 .. u - 1 /\ c.out \in Int /\ c.in \in Nat
  BY DEF InWork, Holding, Fits
<1>3. k + 1 \in 1 .. n /\ k \in Nat
  BY <1>2
<1>4. cipher = Text(c)[k + 1]
  <2>1. TextOf(c, Text(c))
    BY <1>2, TextIs
  <2>2. QED
    BY <1>2, <1>3, <2>1 DEF TextOf, ChainedTo
<1>5. r = [regs |-> [c.regs EXCEPT ![c.first] = cipher,
                                   ![next] = IF c.len = 1 THEN @
                                             ELSE XorBlocks(mem[c.in + k + 1], cipher)],
           mem |-> PutBlocks(mem, c.out + k, <<cipher>>)]
  BY DEF EncBlock
<1> DEFINE look == IF c.len = 1 THEN [c.regs EXCEPT ![c.first] = cipher][next]
                   ELSE XorBlocks(mem[c.in + k + 1], cipher)
<1>20. r.regs = [[c.regs EXCEPT ![c.first] = cipher] EXCEPT ![next] = look]
       /\ r.mem = PutBlocks(mem, c.out + k, <<cipher>>)
  BY <1>5
<1> HIDE DEF cipher, next, look
<1>21. /\ DOMAIN r.regs = 0 .. u - 1
       /\ r.regs = [i \in 0 .. u - 1 |-> r.regs[i]]
       /\ r.regs[next] = look
  BY <1>1, <1>2, <1>20
<1>6. Written(r.mem, c, k + 1)
  <2> DEFINE one == 1
             blocks == <<cipher>>
  <2>1. one \in Nat /\ Len(blocks) = one /\ \A i \in 1 .. one : blocks[i] = Text(c)[k + i]
    BY <1>4
  <2> HIDE DEF one, blocks
  <2>2. Written(PutBlocks(mem, c.out + k, blocks), c, k + one)
    BY <1>2, <1>3, <2>1, WriteMore
  <2>3. QED
    BY <1>20, <2>2 DEF one, blocks
<1>7. /\ d.pc = (IF c.len = 1 THEN "ret" ELSE "enc") /\ d.dir = c.dir /\ d.n = c.n
      /\ d.in = c.in /\ d.out = c.out /\ d.idx = k + 1 /\ d.len = c.len - 1
      /\ d.first = next /\ d.regs = r.regs /\ CallShape(d)
  BY DEF InWork, CallShape, next
<1>8. Alike(c, d)
  BY <1>7 DEF Alike
<1>9. /\ \A i : InBlock(d, i) = InBlock(c, i) /\ Before(d, i) = Before(c, i)
      /\ Written(r.mem, d, k + 1) /\ Fits(d)
  BY <1>2, <1>6, <1>8, AlikeIs
<1>10. InWork(d)
  <2>1. d.regs = [i \in 0 .. u - 1 |-> d.regs[i]] /\ DOMAIN d.regs = 0 .. u - 1
    BY <1>7, <1>21
  <2>2. d.idx \in 0 .. d.n /\ d.len = d.n - d.idx
    BY <1>2, <1>3, <1>7
  <2>3. d.pc \in {"enc", "dec", "by8", "ret"} /\ d.dir \in {"enc", "dec"}
    BY <1>2, <1>7
  <2>4. d.first \in 0 .. u - 1 /\ CallShape(d) /\ Fits(d)
    BY <1>1, <1>7, <1>9
  <2>5. QED
    BY <2>1, <2>2, <2>3, <2>4 DEF InWork
<1>11. Holding(d)
  <2>1. CASE c.len = 1
    BY <1>7, <2>1 DEF Holding
  <2>2. CASE c.len # 1
    <3>1. k + 2 \in 1 .. n /\ k + 2 >= k + 2 /\ c.in + (k + 2) - 1 = c.in + k + 1
      BY <1>2, <1>3, <2>2
    <3>2. mem[c.in + (k + 2) - 1] = InBlock(c, k + 2)
      BY <1>2, <3>1, ReadIs
    <3>3. r.regs[next] = XorBlocks(InBlock(c, k + 2), cipher)
      <4>1. c.in + k + 1 = c.in + (k + 2) - 1
        BY <3>1
      <4>2. QED
        BY <1>21, <2>2, <3>2, <4>1 DEF look
    <3>4. Before(c, k + 2) = cipher
      <4>1. k + 2 # 1 /\ (k + 2) - 1 = k + 1
        BY <1>3
      <4>2. QED
        BY <1>2, <1>4, <4>1 DEF Before
    <3>5. (k + 1) + 1 = k + 2 /\ d.len >= 1
      BY <1>2, <1>3, <1>7, <2>2
    <3>6. QED
      BY <1>2, <1>7, <1>9, <2>2, <3>3, <3>4, <3>5 DEF Holding
  <2>3. QED
    BY <2>1, <2>2
<1>12. QED
  BY <1>7, <1>9, <1>10, <1>11

(* Decryption of k blocks: what is read, computed and written.             *)
GroupReady(c, mem, k) ==
    /\ InWork(c) /\ c.dir = "dec" /\ Written(mem, c, c.idx)
    /\ k \in Nat \ {0} /\ c.idx + k <= c.n
    /\ c.iv = Before(c, c.idx + 1)
    /\ c.idx = 0 \/ c.pc = "by8"
    /\ c.pc = "by8" => c.xdata0 = InBlock(c, c.idx + 1)

GroupOf(c, mem, k, group, plain, most) ==
    /\ group = [GetBlocks(mem, c.in + c.idx, k) EXCEPT ![1] = IF c.pc = "by8" THEN c.xdata0 ELSE @]
    /\ plain = Plain(group, c.iv)
    /\ most = PutBlocks(mem, c.out + c.idx, SubSeq(plain, 1, k - 1))

GroupDone(c, k, group, plain, most) ==
    /\ Written(PutBlocks(most, (c.out + c.idx) + (k - 1), <<plain[k]>>), c, c.idx + k)
    /\ group[k] = InBlock(c, c.idx + k)
    /\ c.idx + k < c.n => most[c.in + c.idx + k] = InBlock(c, c.idx + k + 1)

LEMMA GroupIs ==
  ASSUME NEW c, NEW mem, NEW k, NEW group, NEW plain, NEW most,
         GroupReady(c, mem, k), GroupOf(c, mem, k, group, plain, most)
  PROVE  GroupDone(c, k, group, plain, most)
<1> SUFFICES
      ASSUME InWork(c), c.dir = "dec", Written(mem, c, c.idx),
             k \in Nat \ {0}, c.idx + k <= c.n,
             c.iv = Before(c, c.idx + 1),
             c.idx = 0 \/ c.pc = "by8",
             c.pc = "by8" => c.xdata0 = InBlock(c, c.idx + 1),
             group = [GetBlocks(mem, c.in + c.idx, k) EXCEPT
                                ![1] = IF c.pc = "by8" THEN c.xdata0 ELSE @],
             plain = Plain(group, c.iv),
             most = PutBlocks(mem, c.out + c.idx, SubSeq(plain, 1, k - 1))
      PROVE  /\ Written(PutBlocks(most, (c.out + c.idx) + (k - 1), <<plain[k]>>), c, c.idx + k)
             /\ group[k] = InBlock(c, c.idx + k)
             /\ c.idx + k < c.n => most[c.in + c.idx + k] = InBlock(c, c.idx + k + 1)
  BY DEF GroupReady, GroupOf, GroupDone
<1> DEFINE at == c.idx
           n == c.n
           got == GetBlocks(mem, c.in + at, k)
<1>1. Fits(c) /\ at \in 0 .. n /\ n \in Nat /\ at \in Nat /\ c.in \in Nat /\ c.out \in Int /\ at + k <= n
  BY DEF InWork, Fits
<1>2. ASSUME NEW i \in 1 .. k, at = 0 \/ i > 1 PROVE got[i] = InBlock(c, at + i)
  <2>1. got[i] = mem[(c.in + at) + i - 1]
    BY DEF GetBlocks
  <2>2. at + i \in 1 .. n /\ (at = 0 \/ at + i >= at + 2) /\ (c.in + at) + i - 1 = c.in + (at + i) - 1
    BY <1>1, <1>2
  <2> HIDE DEF at, n, got
  <2>3. mem[c.in + (at + i) - 1] = InBlock(c, at + i)
    BY <1>1, <2>2, ReadIs DEF at, n
  <2>4. QED
    BY <2>1, <2>2, <2>3
<1>3. Len(group) = k /\ DOMAIN group = 1 .. k
  BY DEF GetBlocks
<1>4. \A i \in 1 .. k : group[i] = InBlock(c, at + i)
  <2>1. ASSUME NEW i \in 1 .. k PROVE group[i] = InBlock(c, at + i)
    <3>0. DOMAIN got = 1 .. k
      BY DEF GetBlocks
    <3>1. CASE i = 1 /\ c.pc = "by8"
      BY <3>0, <3>1
    <3>2. CASE i = 1 /\ c.pc # "by8"
      <4>1. at = 0
        BY <3>2
      <4>2. got[i] = InBlock(c, at + i)
        BY <1>2, <4>1
      <4> HIDE DEF got, at
      <4>3. group[i] = got[i]
        BY <3>0, <3>2 DEF got, at
      <4>4. QED
        BY <4>2, <4>3
    <3>3. CASE i # 1
      <4>1. got[i] = InBlock(c, at + i)
        BY <1>2, <3>3
      <4> HIDE DEF got, at
      <4>2. group[i] = got[i]
        BY <3>0, <3>3 DEF got, at
      <4>3. QED
        BY <4>1, <4>2
    <3>4. QED
      BY <3>1, <3>2, <3>3
  <2>2. QED
    BY <2>1
<1>5. plain = [i \in 1 .. k |-> XorBlocks(CipherOf("D", group[i]), IF i = 1 THEN c.iv ELSE group[i - 1])]
  BY <1>3 DEF Plain
<1> HIDE DEF got
<1>6. \A i \in 1 .. k : plain[i] = Text(c)[at + i]
  <2>1. ASSUME NEW i \in 1 .. k PROVE plain[i] = Text(c)[at + i]
    <3>1. TextOf(c, Text(c)) /\ at + i \in 1 .. n
      BY <1>1, TextIs
    <3>2. Text(c)[at + i] = XorBlocks(CipherOf("D", InBlock(c, at + i)), Before(c, at + i))
      BY <3>1 DEF TextOf, ChainedTo
    <3>3. Before(c, at + i) = IF i = 1 THEN c.iv ELSE group[i - 1]
      <4>1. CASE i = 1
        BY <4>1
      <4>2. CASE i # 1
        <5>1. at + i # 1 /\ i - 1 \in 1 .. k /\ (at + i) - 1 = at + (i - 1)
          BY <1>1, <4>2
        <5> HIDE DEF at
        <5>2. group[i - 1] = InBlock(c, at + (i - 1))
          BY <1>4, <5>1
        <5>3. QED
          BY <4>2, <5>1, <5>2 DEF Before
      <4>3. QED
        BY <4>1, <4>2
    <3> HIDE DEF at
    <3>4. QED
      BY <1>4, <1>5, <3>2, <3>3
  <2>2. QED
    BY <2>1
<1> HIDE DEF at, n
<1> DEFINE chunk == SubSeq(plain, 1, k - 1)
           h == k - 1
<1>7. h \in Nat /\ at + h + 1 = at + k /\ at + h \in 0 .. n
  BY <1>1
<1>8. Len(chunk) = h /\ \A i \in 1 .. h : chunk[i] = plain[i]
  <2> DEFINE S == {plain[i] : i \in 1 .. k}
  <2>1. plain \in [1 .. k -> S] /\ k \in Nat
    BY <1>5
  <2> HIDE DEF S
  <2>2. plain \in Seq(S) /\ Len(plain) = k
    BY ONLY <2>1
  <2>3. h <= Len(plain)
    BY <2>2
  <2> HIDE DEF h
  <2>4. Len(SubSeq(plain, 1, h)) = h /\ \A i \in 1 .. h : SubSeq(plain, 1, h)[i] = plain[i]
    BY <1>7, <2>2, <2>3, StartIs
  <2>5. QED
    BY <2>4 DEF h
<1>9. \A i \in 1 .. h : chunk[i] = Text(c)[at + i]
  BY <1>6, <1>8
<1>10. most = PutBlocks(mem, c.out + at, chunk)
  BY DEF at
<1> HIDE DEF chunk, h
<1>11. Written(mem, c, at)
  BY DEF at
<1>12. Written(most, c, at + h)
  <2>1. /\ c.out \in Int /\ at \in Nat /\ Written(mem, c, at) /\ h \in Nat /\ Len(chunk) = h
        /\ \A i \in 1 .. h : chunk[i] = Text(c)[at + i]
    BY <1>1, <1>7, <1>8, <1>9, <1>11
  <2>2. Written(PutBlocks(mem, c.out + at, chunk), c, at + h)
    BY ONLY <2>1, WriteMore
  <2>3. QED
    BY <1>10, <2>2
<1>13. Written(PutBlocks(most, (c.out + at) + h, <<plain[k]>>), c, at + k)
  <2> DEFINE one == 1
             b == <<plain[k]>>
             x == at + h
  <2>1. one \in Nat /\ Len(b) = one /\ b[1] = plain[k] /\ k \in 1 .. k
    OBVIOUS
  <2>2. plain[k] = Text(c)[at + k]
    BY <1>6, <2>1
  <2>3. \A i \in 1 .. one : b[i] = Text(c)[x + i]
    BY <1>7, <2>1, <2>2
  <2>4. x \in Nat /\ c.out + x = (c.out + at) + h /\ x + one = at + k
    BY <1>1, <1>7
  <2> HIDE DEF one, b, x
  <2>5. Written(PutBlocks(most, c.out + x, b), c, x + one)
    <3>1. Written(most, c, x)
      BY <1>12 DEF x
    <3>2. QED
      BY <1>1, <2>1, <2>3, <2>4, <3>1, WriteMore
  <2>6. QED
    BY <2>4, <2>5 DEF b
<1>14. ASSUME at + k < n PROVE most[c.in + at + k] = InBlock(c, at + k + 1)
  <2> DEFINE j == at + k + 1
             x == at + h
  <2>1. j \in 1 .. n /\ j >= x + 2 /\ c.in + j - 1 = c.in + at + k /\ x \in 0 .. n
    BY <1>1, <1>7, <1>14
  <2>2. Written(most, c, x)
    BY <1>12
  <2> HIDE DEF j, x
  <2>3. most[c.in + j - 1] = InBlock(c, j)
    BY <1>1, <2>1, <2>2, ReadIs DEF n
  <2>4. QED
    BY <2>1, <2>3 DEF j
<1>15. group[k] = InBlock(c, at + k)
  BY <1>4
<1>16. QED
  BY <1>13, <1>14, <1>15 DEF h, at, n
LEMMA WrittenNone ==
  ASSUME NEW c, c.out \in Int
  PROVE  Written(FilledBlocks, c, 0)
<1>1. \A a \in 1 .. CbcMemory : a \notin c.out .. c.out + 0 - 1
  BY CbcAssumption
<1>2. FilledBlocks = [a \in 1 .. CbcMemory |-> FilledBlocks[a]]
  BY DEF FilledBlocks
<1> DEFINE z == 0
           V(a) == IF a \in c.out .. c.out + z - 1 THEN Text(c)[a - c.out + 1] ELSE FilledBlocks[a]
<1>3. \A a \in 1 .. CbcMemory : V(a) = FilledBlocks[a]
  BY <1>1
<1> HIDE DEF V, z
<1>4. FilledBlocks = [a \in 1 .. CbcMemory |-> V(a)]
  BY <1>2, <1>3
<1>5. QED
  BY <1>4 DEF Written, V, z

(* Outputs that lie apart from the input or begin at most a block above it.*)
CbcApart == \A s \in CbcShifts : s <= 1 \/ s >= CbcMaxLen

CbcInv ==
    /\ cbcWas = FilledBlocks
    /\ InWork(cbc) /\ Holding(cbc)
    /\ Written(cbcMem, cbc, cbc.idx)

LEMMA CbcPart == Init /\ [][Next]_vars => CbcInit /\ [][CbcNext]_cbcVars
<1>1. Init => CbcInit
  BY DEF Init
<1>2. [Next]_vars => [CbcNext]_cbcVars
  BY DEF Next, vars, cbcVars, BaseStep, MhStep, GcmStep, XtsStep, CbcStep, RollingStep,
         DispatchStep, ApiStep
<1>3. QED
  BY <1>1, <1>2, PTL

LEMMA CallKeeps ==
  ASSUME CbcApart, NEW dir \in {"enc", "dec"}, NEW n \in 1 .. CbcMaxLen, NEW s \in CbcShifts,
         CbcCall(dir, n, s)
  PROVE  CbcInv'
<1> DEFINE in == IF s < 0 THEN 1 - s ELSE 1
           d  == cbc'
           u  == UNROLLED_LOOPS
<1>1. /\ s \in Int /\ n \in Nat \ {0} /\ n <= CbcMaxLen /\ CbcMaxLen \in Nat /\ CbcMemory \in Nat
      /\ s <= 1 \/ s >= CbcMaxLen
      /\ CbcMaxLen + (IF s < 0 THEN -s ELSE s) <= CbcMemory
      /\ u \in Nat \ {0, 1}
  BY CbcAssumption DEF CbcApart
<1>2. in \in Nat \ {0} /\ in + s \in Int /\ in + n - 1 <= CbcMemory
      /\ ((in + s) - in <= 1 \/ (in + s) - in >= n)
  BY <1>1
<1> DEFINE regs == IF dir = "enc"
                   THEN [NoRegs EXCEPT ![0] = XorBlocks(FilledBlocks[in], IV)] ELSE NoRegs
<1>3. /\ d = [CbcIdle EXCEPT !.pc = dir, !.dir = dir, !.n = n, !.in = in, !.out = in + s,
                             !.len = n, !.iv = IV, !.regs = regs]
      /\ cbcMem' = FilledBlocks /\ cbcWas' = FilledBlocks
  BY DEF CbcCall, CbcIdle
<1>41. /\ DOMAIN NoRegs = 0 .. u - 1 /\ NoRegs = [i \in 0 .. u - 1 |-> NoRegs[i]]
       /\ 0 \in 0 .. u - 1
  BY <1>1 DEF NoRegs
<1> HIDE DEF u, in
<1>4. /\ DOMAIN regs = 0 .. u - 1 /\ regs = [i \in 0 .. u - 1 |-> regs[i]]
      /\ dir = "enc" => regs[0] = XorBlocks(FilledBlocks[in], IV)
  <2> DEFINE block == XorBlocks(FilledBlocks[in], IV)
             e == [NoRegs EXCEPT ![0] = block]
  <2> HIDE DEF block
  <2>1. DOMAIN e = 0 .. u - 1 /\ e = [i \in 0 .. u - 1 |-> e[i]] /\ e[0] = block
    BY <1>41
  <2>2. regs = IF dir = "enc" THEN e ELSE NoRegs
    BY DEF block
  <2> HIDE DEF e, regs
  <2>3. CASE dir = "enc"
    BY <2>1, <2>2, <2>3 DEF block
  <2>4. CASE dir # "enc"
    BY <1>41, <2>2, <2>4
  <2>5. QED
    BY <2>3, <2>4
<1> HIDE DEF regs, in
<1>5. /\ d.pc = dir /\ d.dir = dir /\ d.n = n /\ d.in = in /\ d.out = in + s /\ d.idx = 0
      /\ d.len = n /\ d.first = 0 /\ d.regs = regs /\ d.iv = IV /\ CallShape(d)
  BY <1>3 DEF CbcIdle, CallShape
<1> HIDE DEF d
<1>6. Fits(d)
  BY <1>1, <1>2, <1>5 DEF Fits
<1>7. InWork(d)
  <2>1. d.idx \in 0 .. d.n /\ d.len = d.n - d.idx /\ d.first \in 0 .. u - 1
    BY <1>1, <1>41, <1>5
  <2>2. d.pc \in {"enc", "dec", "by8", "ret"} /\ d.dir \in {"enc", "dec"}
    BY <1>5
  <2>3. DOMAIN d.regs = 0 .. u - 1 /\ d.regs = [i \in 0 .. u - 1 |-> d.regs[i]]
    BY <1>4, <1>5
  <2>4. QED
    BY <1>5, <1>6, <2>1, <2>2, <2>3 DEF InWork, u
<1>8. Holding(d)
  <2>1. InBlock(d, d.idx + 1) = FilledBlocks[in] /\ Before(d, d.idx + 1) = IV
    <3>1. d.idx + 1 = 1 /\ in + 1 - 1 = in
      BY <1>2, <1>5
    <3>2. QED
      BY <1>5, <3>1 DEF InBlock, Before
  <2>2. d.len >= 1
    BY <1>1, <1>5
  <2>3. QED
    BY <1>4, <1>5, <2>1, <2>2 DEF Holding
<1>9. Written(cbcMem', d, d.idx)
  <2>1. d.out \in Int
    BY <1>2, <1>5
  <2>2. Written(FilledBlocks, d, 0)
    BY <2>1, WrittenNone
  <2>3. QED
    BY <1>3, <1>5, <2>2
<1>10. QED
  BY <1>3, <1>7, <1>8, <1>9 DEF CbcInv, d

LEMMA EncryptKeeps ==
  ASSUME CbcInv, CbcEncrypt
  PROVE  CbcInv'
<1>1. InWork(cbc) /\ Holding(cbc) /\ Written(cbcMem, cbc, cbc.idx) /\ cbcWas = FilledBlocks
  BY DEF CbcInv
<1>2. PICK r : /\ r = EncBlock(cbc, cbcMem)
               /\ cbcMem' = r.mem
               /\ cbc' = [cbc EXCEPT !.regs = r.regs,
                                  !.first = (@ + 1) % UNROLLED_LOOPS,
                                  !.idx = @ + 1,
                                  !.len = @ - 1,
                                  !.pc = IF cbc.len = 1 THEN "ret" ELSE "enc"]
  BY DEF CbcEncrypt
<1>3. cbc.pc = "enc" /\ cbcWas' = cbcWas
  BY DEF CbcEncrypt
<1> DEFINE d == [cbc EXCEPT !.regs = r.regs,
                            !.first = (@ + 1) % UNROLLED_LOOPS,
                            !.idx = @ + 1,
                            !.len = @ - 1,
                            !.pc = IF cbc.len = 1 THEN "ret" ELSE "enc"]
<1>4. InWork(d) /\ Holding(d) /\ Written(r.mem, d, d.idx)
  BY <1>1, <1>2, <1>3, EncKeeps
<1>5. cbc' = d
  BY <1>2
<1> HIDE DEF d
<1>6. QED
  BY <1>1, <1>2, <1>3, <1>4, <1>5 DEF CbcInv

GroupStep(k, next, at, group, plain, most) ==
    /\ cbcMem' = PutBlocks(most, (cbc.out + at) + (k - 1), <<plain[k]>>)
    /\ cbc' = [cbc EXCEPT !.pc = next, !.idx = @ + k, !.len = @ - k,
                          !.iv = IF next = "ret" THEN @ ELSE group[k],
                          !.xdata0 = IF next = "ret" THEN @ ELSE most[cbc.in + at + k]]
    /\ UNCHANGED cbcWas

(* A group leaves no blocks, or eight at a time.                           *)
LEMMA DecGroupKeeps ==
  ASSUME CbcInv, NEW k, GroupReady(cbc, cbcMem, k), NEW next \in {"ret", "by8"},
         next = "by8" => cbc.len - k >= CBC_GROUP /\ (cbc.len - k) % CBC_GROUP = 0,
         DecGroup(k, next)
  PROVE  CbcInv'
<1> DEFINE c  == cbc
           at == cbc.idx
           d  == cbc'
<1>1. InWork(c) /\ Holding(c) /\ Written(cbcMem, c, at) /\ cbcWas = FilledBlocks
  BY DEF CbcInv
<1>2. PICK group, plain, most :
          /\ GroupOf(cbc, cbcMem, k, group, plain, most)
          /\ cbcMem' = PutBlocks(most, (cbc.out + cbc.idx) + (k - 1), <<plain[k]>>)
          /\ cbc' = [cbc EXCEPT !.pc = next, !.idx = @ + k, !.len = @ - k,
                           !.iv = IF next = "ret" THEN @ ELSE group[k],
                           !.xdata0 = IF next = "ret" THEN @ ELSE most[cbc.in + cbc.idx + k]]
          /\ cbcWas' = cbcWas
  <2>1. PICK at1 \in {cbc.idx} :
          \E group \in {[GetBlocks(cbcMem, cbc.in + at1, k) EXCEPT
                              ![1] = IF cbc.pc = "by8" THEN cbc.xdata0 ELSE @]} :
          \E plain \in {Plain(group, cbc.iv)} :
          \E most \in {PutBlocks(cbcMem, cbc.out + at1, SubSeq(plain, 1, k - 1))} :
              GroupStep(k, next, at1, group, plain, most)
    BY DEF DecGroup, GroupStep
  <2>2. at1 = cbc.idx
    OBVIOUS
  <2>3. PICK group \in {[GetBlocks(cbcMem, cbc.in + at1, k) EXCEPT
                              ![1] = IF cbc.pc = "by8" THEN cbc.xdata0 ELSE @]} :
          \E plain \in {Plain(group, cbc.iv)} :
          \E most \in {PutBlocks(cbcMem, cbc.out + at1, SubSeq(plain, 1, k - 1))} :
              GroupStep(k, next, at1, group, plain, most)
    BY <2>1
  <2>4. PICK plain \in {Plain(group, cbc.iv)} :
          \E most \in {PutBlocks(cbcMem, cbc.out + at1, SubSeq(plain, 1, k - 1))} :
              GroupStep(k, next, at1, group, plain, most)
    BY <2>3
  <2>5. PICK most \in {PutBlocks(cbcMem, cbc.out + at1, SubSeq(plain, 1, k - 1))} :
              GroupStep(k, next, at1, group, plain, most)
    BY <2>4
  <2>6. GroupOf(cbc, cbcMem, k, group, plain, most)
    <3>1. /\ group = [GetBlocks(cbcMem, cbc.in + at1, k) EXCEPT
                              ![1] = IF cbc.pc = "by8" THEN cbc.xdata0 ELSE @]
          /\ plain = Plain(group, cbc.iv)
          /\ most = PutBlocks(cbcMem, cbc.out + at1, SubSeq(plain, 1, k - 1))
      BY <2>3, <2>4, <2>5
    <3>2. QED
      BY ONLY <2>2, <3>1 DEF GroupOf
  <2>7. QED
    BY <2>2, <2>5, <2>6 DEF GroupStep
<1>3. /\ Written(cbcMem', c, at + k)
      /\ group[k] = InBlock(c, at + k)
      /\ at + k < c.n => most[c.in + at + k] = InBlock(c, at + k + 1)
  <2>1. GroupDone(cbc, k, group, plain, most)
    BY <1>2, GroupIs
  <2>2. QED
    BY <1>2, <2>1 DEF GroupDone
<1>4. /\ at \in 0 .. c.n /\ c.n \in Nat /\ c.len = c.n - at /\ Fits(c) /\ CBC_GROUP \in Nat \ {0}
      /\ at + k <= c.n /\ k \in Nat \ {0} /\ c.dir = "dec"
  BY <1>1, CbcAssumption DEF InWork, Fits, GroupReady
<1>5. /\ d.pc = next /\ d.dir = c.dir /\ d.n = c.n /\ d.in = c.in /\ d.out = c.out
      /\ d.idx = at + k /\ d.len = c.len - k /\ d.first = c.first /\ d.regs = c.regs
      /\ d.iv = (IF next = "ret" THEN c.iv ELSE group[k])
      /\ d.xdata0 = (IF next = "ret" THEN c.xdata0 ELSE most[c.in + at + k])
      /\ CallShape(d)
  BY <1>1, <1>2 DEF InWork, CallShape
<1>6. Alike(c, d)
  BY <1>5 DEF Alike
<1>7. /\ \A i : InBlock(d, i) = InBlock(c, i) /\ Before(d, i) = Before(c, i)
      /\ Written(cbcMem', d, at + k) /\ Fits(d)
  BY <1>3, <1>4, <1>6, AlikeIs
<1> HIDE DEF d
<1>8. InWork(d)
  <2>1. d.idx \in 0 .. d.n /\ d.len = d.n - d.idx
    BY <1>4, <1>5
  <2>2. d.pc \in {"enc", "dec", "by8", "ret"}
    BY <1>5
  <2>3. QED
    BY <1>1, <1>5, <1>7, <2>1, <2>2 DEF InWork
<1>9. Holding(d)
  <2>1. CASE next = "ret"
    BY <1>5, <2>1 DEF Holding
  <2>2. CASE next = "by8"
    <3>1. d.len >= CBC_GROUP /\ d.len % CBC_GROUP = 0
      BY <1>5, <2>2
    <3>2. at + k < c.n /\ at + k + 1 # 1 /\ (at + k + 1) - 1 = at + k
      <4> DEFINE g == CBC_GROUP
                 n == c.n
                 l == d.len
      <4>1. /\ at \in 0 .. n /\ n \in Nat /\ k \in Nat \ {0} /\ g \in Nat \ {0}
            /\ l = (n - at) - k /\ l >= g
        BY <1>4, <1>5, <3>1
      <4> HIDE DEF at, g, n, l
      <4>2. at + k < n /\ at + k + 1 # 1 /\ (at + k + 1) - 1 = at + k
        BY ONLY <4>1
      <4>3. QED
        BY <4>2 DEF n
    <3>3. d.xdata0 = InBlock(d, d.idx + 1)
      BY <1>3, <1>5, <1>7, <2>2, <3>2
    <3>4. Before(c, at + k + 1) = InBlock(c, at + k)
      BY <1>4, <3>2 DEF Before
    <3>5. d.iv = Before(d, d.idx + 1)
      BY <1>3, <1>5, <1>7, <2>2, <3>4
    <3>6. QED
      BY <1>4, <1>5, <2>2, <3>1, <3>3, <3>5 DEF Holding
  <2>3. QED
    BY <2>1, <2>2
<1>10. QED
  BY <1>1, <1>2, <1>5, <1>7, <1>8, <1>9 DEF CbcInv, d

LEMMA DecryptStartKeeps ==
  ASSUME CbcInv, CbcDecryptStart
  PROVE  CbcInv'
<1> DEFINE g == CBC_GROUP
           n == cbc.n
           k == n % g
<1>1. /\ InWork(cbc) /\ Holding(cbc) /\ Written(cbcMem, cbc, cbc.idx) /\ cbcWas = FilledBlocks
      /\ cbc.pc = "dec"
  BY DEF CbcInv, CbcDecryptStart
<1>2. /\ cbc.dir = "dec" /\ cbc.idx = 0 /\ cbc.len >= 1 /\ cbc.iv = IV /\ n \in Nat
      /\ cbc.len = n /\ g \in Nat \ {0} /\ n \in Nat \ {0}
  BY <1>1, CbcAssumption DEF InWork, Holding, Fits
<1>3. cbc.iv = Before(cbc, cbc.idx + 1)
  <2>1. cbc.idx + 1 = 1
    BY <1>2
  <2>2. QED
    BY <1>2, <2>1 DEF Before
<1>4. CASE n < g /\ DecGroup(n, "ret")
  <2>1. cbc.idx + n <= cbc.n /\ cbc.pc # "by8"
    BY <1>1, <1>2
  <2>2. GroupReady(cbc, cbcMem, n)
    BY <1>1, <1>2, <1>3, <2>1 DEF GroupReady
  <2>3. QED
    BY <1>4, <2>2, DecGroupKeeps
<1>5. CASE n >= g /\ k # 0 /\ DecGroup(k, "by8")
  <2>1. k \in 0 .. g - 1 /\ n \div g \in Nat /\ n = (n \div g) * g + k
    BY <1>2, DivisionOf
  <2>2. k \in Nat \ {0} /\ cbc.idx + k <= n
    BY <1>2, <1>5, <2>1
  <2>3. n - k >= g /\ (n - k) % g = 0
    <3> DEFINE q == n \div g
               a == n - k
               o == 0
    <3>1. q \in Nat /\ n = q * g + k /\ q * g \in Nat
      BY <1>2, <2>1
    <3> HIDE DEF q, k, n, g
    <3>2. a = q * g + o /\ o \in 0 .. g - 1
      BY <1>2, <2>1, <3>1
    <3>3. q # 0
      BY <1>2, <1>5, <2>1, <3>1
    <3>4. q * g = (q - 1) * g + g /\ (q - 1) * g \in Nat
      BY <1>2, <3>1, <3>3
    <3>5. a >= g
      BY <1>2, <3>2, <3>4
    <3> HIDE DEF a, o
    <3>60. a = q * g + o /\ q \in Nat /\ g \in Nat \ {0} /\ o \in 0 .. g - 1
      BY <1>2, <3>1, <3>2
    <3>6. a % g = o
      BY ONLY <3>60, DivIs
    <3>7. QED
      BY <3>5, <3>6 DEF a, o
  <2> HIDE DEF k
  <2>4. cbc.len - k >= CBC_GROUP /\ (cbc.len - k) % CBC_GROUP = 0
    BY <1>2, <2>3
  <2>5. GroupReady(cbc, cbcMem, k)
    BY <1>1, <1>2, <1>3, <2>2 DEF GroupReady
  <2>6. QED
    BY <1>5, <2>4, <2>5, DecGroupKeeps
<1>6. CASE /\ n >= g /\ k = 0
           /\ cbc' = [cbc EXCEPT !.pc = "by8", !.xdata0 = cbcMem[cbc.in]]
           /\ UNCHANGED <<cbcMem, cbcWas>>
  <2> DEFINE d == cbc'
  <2>1. /\ d.pc = "by8" /\ d.dir = cbc.dir /\ d.n = cbc.n /\ d.in = cbc.in /\ d.out = cbc.out
        /\ d.idx = cbc.idx /\ d.len = cbc.len /\ d.first = cbc.first /\ d.regs = cbc.regs
        /\ d.iv = cbc.iv /\ d.xdata0 = cbcMem[cbc.in] /\ CallShape(d)
    BY <1>1, <1>6 DEF InWork, CallShape
  <2>2. Alike(cbc, d) /\ cbcMem' = cbcMem /\ cbcWas' = cbcWas
    BY <1>6, <2>1 DEF Alike
  <2>3. Fits(cbc) /\ Written(cbcMem, cbc, 0) /\ 0 \in 0 .. cbc.n /\ 1 \in 1 .. cbc.n
        /\ cbc.in + 1 - 1 = cbc.in
    BY <1>1, <1>2 DEF InWork, Fits
  <2>4. cbcMem[cbc.in] = InBlock(cbc, 1)
    <3> DEFINE z == 0
               j == 1
    <3>1. Written(cbcMem, cbc, z) /\ z \in 0 .. cbc.n /\ j \in 1 .. cbc.n /\ (z = 0 \/ j >= z + 2)
      BY <2>3
    <3> HIDE DEF z, j
    <3>2. cbcMem[cbc.in + j - 1] = InBlock(cbc, j)
      BY <2>3, <3>1, ReadIs
    <3>3. QED
      BY <2>3, <3>2 DEF j
  <2>5. /\ \A i : InBlock(d, i) = InBlock(cbc, i) /\ Before(d, i) = Before(cbc, i)
        /\ Written(cbcMem, d, cbc.idx) /\ Fits(d)
    BY <1>1, <2>2, <2>3, AlikeIs
  <2> HIDE DEF d
  <2>6. InWork(d)
    BY <1>1, <2>1, <2>5 DEF InWork
  <2>7. Holding(d)
    <3>1. cbc.idx + 1 = 1
      BY <1>2
    <3>2. QED
      BY <1>2, <1>3, <1>6, <2>1, <2>4, <2>5, <3>1 DEF Holding
  <2>8. QED
    BY <1>1, <2>1, <2>2, <2>5, <2>6, <2>7 DEF CbcInv, d
<1>7. QED
  BY <1>4, <1>5, <1>6 DEF CbcDecryptStart

LEMMA ByEightKeeps ==
  ASSUME CbcInv, CbcDecryptByEight
  PROVE  CbcInv'
<1> DEFINE g == CBC_GROUP
           l == cbc.len
           next == IF l < 2 * g THEN "ret" ELSE "by8"
<1>1. InWork(cbc) /\ Holding(cbc) /\ cbc.pc = "by8" /\ DecGroup(g, next)
  BY DEF CbcInv, CbcDecryptByEight
<1>2. /\ l >= g /\ l % g = 0 /\ g \in Nat \ {0} /\ l \in Nat /\ GroupReady(cbc, cbcMem, g)
  <2>1. /\ cbc.dir = "dec" /\ l >= g /\ l % g = 0
        /\ cbc.xdata0 = InBlock(cbc, cbc.idx + 1) /\ cbc.iv = Before(cbc, cbc.idx + 1)
    BY <1>1 DEF Holding
  <2>2. l = cbc.n - cbc.idx /\ cbc.n \in Nat /\ cbc.idx \in 0 .. cbc.n
    BY <1>1 DEF InWork, Fits
  <2>3. g \in Nat \ {0}
    BY CbcAssumption
  <2>4. l \in Nat /\ cbc.idx + g <= cbc.n
    <3> DEFINE n == cbc.n
               at == cbc.idx
    <3>1. l = n - at /\ n \in Nat /\ at \in 0 .. n /\ l >= g /\ g \in Nat \ {0}
      BY <2>1, <2>2, <2>3
    <3> HIDE DEF n, at, l, g
    <3>2. l \in Nat /\ at + g <= n
      BY ONLY <3>1
    <3>3. QED
      BY <3>2 DEF n, at
  <2>5. Written(cbcMem, cbc, cbc.idx)
    BY DEF CbcInv
  <2>6. QED
    BY <1>1, <2>1, <2>3, <2>4, <2>5 DEF GroupReady
<1>3. next = "by8" => l - g >= g /\ (l - g) % g = 0
  <2> DEFINE q == l \div g
             a == l - g
             e == q - 1
             o == 0
  <2>1. q \in Nat /\ l = q * g + (l % g)
    BY <1>2, DivisionOf
  <2> HIDE DEF q, l, g
  <2>2. q * g \in Nat /\ l = q * g
    BY <1>2, <2>1
  <2>3. q # 0
    BY <1>2, <2>1, <2>2
  <2>4. q * g = (q - 1) * g + g /\ (q - 1) * g \in Nat /\ q - 1 \in Nat
    BY <1>2, <2>1, <2>3
  <2>5. a = e * g + o /\ e \in Nat /\ o \in 0 .. g - 1
    BY <1>2, <2>2, <2>4
  <2>6. next = "by8" => a >= g
    BY <1>2
  <2> HIDE DEF a, e, o
  <2>70. a = e * g + o /\ e \in Nat /\ o \in 0 .. g - 1 /\ g \in Nat \ {0}
    BY <1>2, <2>5
  <2>7. a % g = o
    BY ONLY <2>70, DivIs
  <2>8. QED
    BY <2>6, <2>7 DEF a, o
<1>4. next \in {"ret", "by8"}
  OBVIOUS
<1> HIDE DEF next
<1>5. QED
  BY <1>1, <1>2, <1>3, <1>4, DecGroupKeeps

LEMMA CbcStays ==
  ASSUME CbcApart
  PROVE  Init /\ [][Next]_vars => []CbcInv
<1>1. CbcInit => CbcInv
  <2> SUFFICES ASSUME CbcInit PROVE CbcInv
    OBVIOUS
  <2>1. cbc = CbcIdle /\ cbcMem = FilledBlocks /\ cbcWas = FilledBlocks
    BY DEF CbcInit
  <2>2. UNROLLED_LOOPS \in Nat \ {0, 1} /\ CbcMemory \in Nat
    BY CbcAssumption
  <2>3. /\ cbc.pc = "ret" /\ cbc.dir = "enc" /\ cbc.n = 0 /\ cbc.in = 1 /\ cbc.out = 1
        /\ cbc.idx = 0 /\ cbc.len = 0 /\ cbc.first = 0 /\ cbc.regs = NoRegs /\ CallShape(cbc)
    BY <2>1 DEF CbcIdle, CallShape
  <2>4. Fits(cbc)
    BY <2>2, <2>3 DEF Fits
  <2>5. InWork(cbc)
    BY <2>2, <2>3, <2>4 DEF InWork, NoRegs
  <2>6. Holding(cbc)
    BY <2>3 DEF Holding
  <2>7. Written(cbcMem, cbc, cbc.idx)
    <3>1. cbc.out \in Int
      BY <2>3
    <3>2. Written(FilledBlocks, cbc, 0)
      BY <3>1, WrittenNone
    <3>3. QED
      BY <2>1, <2>3, <3>2
  <2>8. QED
    BY <2>1, <2>5, <2>6, <2>7 DEF CbcInv
<1>2. CbcInv /\ [CbcNext]_cbcVars => CbcInv'
  <2> SUFFICES ASSUME CbcInv, [CbcNext]_cbcVars PROVE CbcInv'
    OBVIOUS
  <2>1. CASE UNCHANGED cbcVars
    BY <2>1 DEF cbcVars, CbcInv
  <2>2. ASSUME NEW dir \in {"enc", "dec"}, NEW n \in 1 .. CbcMaxLen, NEW s \in CbcShifts,
               CbcCall(dir, n, s)
        PROVE  CbcInv'
    BY <2>2, CallKeeps
  <2>3. QED
    BY <2>1, <2>2, EncryptKeeps, DecryptStartKeeps, ByEightKeeps DEF CbcNext
<1>3. QED
  BY <1>1, <1>2, CbcPart, PTL

(* Encryption with one block of look-ahead and decryption by groups of any *)
(* size write the chained result block by block and touch nothing else,    *)
(* for every length, to an output apart from the input, below it, in place *)
(* or one block above it: no block is read after it was written over.      *)
THEOREM CbcOutputHolds ==
  ASSUME CbcApart
  PROVE  Spec => []CbcOutputIsStandard
<1>1. CbcInv => CbcOutputIsStandard
  <2> SUFFICES ASSUME CbcInv PROVE CbcOutputIsStandard
    OBVIOUS
  <2> DEFINE c == cbc
             t == Text(c)
             m == c.idx
             z == 0
             chunk == SubSeq(t, 1, m)
  <2>1. /\ cbcWas = FilledBlocks /\ Written(cbcMem, c, m) /\ c.out \in Int /\ c.n \in Nat
        /\ m \in 0 .. c.n /\ m \in Nat
    BY DEF CbcInv, InWork, Fits
  <2>2. TextOf(c, t)
    BY <2>1, TextIs
  <2> HIDE DEF t, m, z
  <2>3. Len(chunk) = m /\ \A i \in 1 .. m : chunk[i] = t[i]
    <3> DEFINE S == {t[i] : i \in 1 .. c.n}
    <3>1. t \in [1 .. c.n -> S] /\ c.n \in Nat
      BY <2>1, <2>2 DEF TextOf
    <3> HIDE DEF S
    <3>2. t \in Seq(S) /\ Len(t) = c.n
      BY ONLY <3>1
    <3>3. QED
      BY <2>1, <3>2, StartIs
  <2>4. z \in Nat /\ Written(FilledBlocks, c, z) /\ c.out + z = c.out /\ z + m = m
        /\ \A i \in 1 .. m : z + i = i
    BY <2>1, WrittenNone DEF z
  <2> HIDE DEF chunk
  <2>5. Written(PutBlocks(FilledBlocks, c.out + z, chunk), c, z + m)
    BY <2>1, <2>3, <2>4, WriteMore DEF t
  <2>6. cbcMem = PutBlocks(FilledBlocks, c.out, chunk)
    BY <2>1, <2>4, <2>5 DEF Written
  <2>7. QED
    BY <2>1, <2>6 DEF CbcOutputIsStandard, Text, chunk, t, m
<1>2. QED
  BY <1>1, CbcStays, PTL DEF Spec
-----------------------------------------------------------------------------
(* AES-XTS.  A byte of a cipher holds the block it was made of, so that    *)
(* what deciphering gives back is a block of bytes again.                  *)
Directions == {"enc", "dec"}
XBlocks(S) == [1 .. XTS_BLOCK -> S]
Bytes(S)   == \A e \in S : e[1] \in Directions => e[3] \in XBlocks(S)
Made(S)    == {<<by, t, x, i>> : by \in Directions, t \in Int, x \in XBlocks(S), i \in 1 .. XTS_BLOCK}
Deeper(S)  == S \cup Made(S)

LEMMA DeeperBytes ==
  ASSUME NEW S, Bytes(S)
  PROVE  Bytes(Deeper(S)) /\ S \subseteq Deeper(S)
<1>1. S \subseteq Deeper(S)
  BY DEF Deeper
<1>2. XBlocks(S) \subseteq XBlocks(Deeper(S))
  BY <1>1 DEF XBlocks
<1>3. ASSUME NEW e \in Deeper(S), e[1] \in Directions PROVE e[3] \in XBlocks(Deeper(S))
  <2>1. CASE e \in S
    BY <1>2, <1>3, <2>1 DEF Bytes
  <2>2. CASE e \in Made(S)
    <3>1. PICK by \in Directions, t \in Int, x \in XBlocks(S), i \in 1 .. XTS_BLOCK : e = <<by, t, x, i>>
      BY <2>2 DEF Made
    <3>2. e[3] = x
      BY <3>1
    <3>3. QED
      BY <1>2, <3>2
  <2>3. QED
    BY <1>3, <2>1, <2>2 DEF Deeper
<1>4. QED
  BY <1>1, <1>3 DEF Bytes

LEMMA CipherIn ==
  ASSUME NEW S, Bytes(S), NEW dir \in Directions, NEW t \in Int, NEW block \in XBlocks(S)
  PROVE  CipherBlock(dir, t, block) \in XBlocks(Deeper(S))
<1> DEFINE inner == block[1][3]
           made(by, x) == [i \in 1 .. XTS_BLOCK |-> <<by, t, x, i>>]
<1>1. made(dir, block) \in XBlocks(Deeper(S))
  <2>1. \A i \in 1 .. XTS_BLOCK : <<dir, t, block, i>> \in Deeper(S)
    BY DEF Deeper, Made
  <2>2. QED
    BY <2>1 DEF XBlocks
<1>2. ASSUME block[1][1] = Opposite(dir) PROVE inner \in XBlocks(Deeper(S))
  <2>1. block[1] \in S
    <3>1. 1 \in 1 .. XTS_BLOCK
      BY XtsAssumption
    <3>2. QED
      BY <3>1 DEF XBlocks
  <2>2. Opposite(dir) \in Directions
    BY DEF Opposite, Directions
  <2>3. inner \in XBlocks(S)
    BY <1>2, <2>1, <2>2 DEF Bytes
  <2>4. QED
    BY <2>3, DeeperBytes DEF XBlocks
<1>3. CipherBlock(dir, t, block) = inner \/ CipherBlock(dir, t, block) = made(dir, block)
  BY DEF CipherBlock
<1>4. ASSUME CipherBlock(dir, t, block) # made(dir, block) PROVE block[1][1] = Opposite(dir)
  BY <1>4 DEF CipherBlock
<1>5. QED
  BY <1>1, <1>2, <1>3, <1>4

(* Byte i of block d, counted from 0.                                      *)
LEMMA ByteOf ==
  ASSUME NEW b \in Nat \ {0}, NEW x \in Nat \ {0}
  PROVE  \E d \in Nat, i \in 1 .. b : x = d * b + i
<1> DEFINE a == x - 1
           d == a \div b
           r == a % b
<1>1. a \in Nat /\ x = a + 1
  OBVIOUS
<1> HIDE DEF a
<1>2. d \in Nat /\ r \in 0 .. b - 1 /\ a = d * b + r
  BY <1>1, DivisionOf
<1> HIDE DEF d, r
<1>3. d * b \in Nat
  BY <1>2
<1>4. r + 1 \in 1 .. b /\ x = d * b + (r + 1)
  BY <1>1, <1>2, <1>3
<1>5. QED
  BY <1>2, <1>4

BlockNr(b, x) == ((x - 1) \div b) + 1
ByteNr(b, x)  == ((x - 1) % b) + 1

LEMMA ByteIs ==
  ASSUME NEW b \in Nat \ {0}, NEW d \in Nat, NEW i \in 1 .. b, NEW x, x = d * b + i
  PROVE  BlockNr(b, x) = d + 1 /\ ByteNr(b, x) = i
<1> DEFINE a == x - 1
           r == i - 1
           p == d * b
<1>0. p \in Nat
  OBVIOUS
<1>1. x = p + i
  OBVIOUS
<1> HIDE DEF p
<1>2. a = p + r /\ r \in 0 .. b - 1
  BY <1>0, <1>1
<1> HIDE DEF a, r
<1>3. a = d * b + r
  BY <1>2 DEF p
<1>4. a \div b = d /\ a % b = r
  BY <1>2, <1>3, DivIs
<1>5. QED
  BY <1>4 DEF BlockNr, ByteNr, a, r

(* Less than k blocks: products in order.                                  *)
LEMMA BlocksBelow ==
  ASSUME NEW b \in Nat \ {0}, NEW d \in Nat, NEW k \in Nat, d < k
  PROVE  /\ (d + 1) * b = d * b + b
         /\ d * b \in Nat /\ k * b \in Nat
         /\ d * b + b <= k * b
<1> DEFINE e == k - (d + 1)
<1>1. e \in Nat /\ k = (d + 1) + e
  OBVIOUS
<1> HIDE DEF e
<1>2. k * b = (d * b + b) + e * b /\ d * b \in Nat /\ e * b \in Nat /\ (d + 1) * b = d * b + b
  BY <1>1
<1>3. QED
  BY <1>2

LEMMA InBlocks ==
  ASSUME NEW b \in Nat \ {0}, NEW k \in Nat, NEW d \in 0 .. k - 1, NEW i \in 1 .. b
  PROVE  d * b + i \in 1 .. k * b
<1> DEFINE p == d * b
           n == k * b
<1>1. p \in Nat /\ n \in Nat /\ p + b <= n
  <2>1. d \in Nat /\ d < k
    OBVIOUS
  <2>2. QED
    BY <2>1, BlocksBelow
<1> HIDE DEF p, n
<1>2. p + i \in 1 .. n
  BY <1>1
<1>3. QED
  BY <1>2 DEF p, n

LEMMA BlockAbove ==
  ASSUME NEW b \in Nat \ {0}, NEW d \in Nat, NEW k \in Nat, NEW i \in 1 .. b, d * b + i <= k * b
  PROVE  d < k
<1>1. ASSUME d >= k PROVE FALSE
  <2> DEFINE e == d - k
  <2>1. e \in Nat /\ d = k + e
    BY <1>1
  <2> HIDE DEF e
  <2>2. d * b = k * b + e * b /\ e * b \in Nat /\ k * b \in Nat
    BY <2>1
  <2>3. QED
    BY <2>2
<1>2. QED
  BY <1>1
(* Blocks and sequences of bytes.                                          *)
LEMMA WiderSeq ==
  ASSUME NEW S, NEW T, S \subseteq T, NEW s \in Seq(S)
  PROVE  s \in Seq(T)
  OBVIOUS

LEMMA BlockIsSeq ==
  ASSUME NEW S, NEW b \in Nat, NEW block \in [1 .. b -> S]
  PROVE  block \in Seq(S) /\ Len(block) = b
  OBVIOUS

LEMMA SeqIsBlock ==
  ASSUME NEW S, NEW b \in Nat, NEW s \in Seq(S), Len(s) = b
  PROVE  s \in [1 .. b -> S] /\ s = [i \in 1 .. b |-> s[i]]
  OBVIOUS

BlockAt(data, d) == [i \in 1 .. XTS_BLOCK |-> data[d * XTS_BLOCK + i]]

LEMMA BlockAtIs ==
  ASSUME NEW S, NEW data \in Seq(S), NEW j \in Nat \ {0}, j * XTS_BLOCK <= Len(data)
  PROVE  /\ SubSeq(data, ((j - 1) * XTS_BLOCK) + 1, j * XTS_BLOCK) = BlockAt(data, j - 1)
         /\ BlockAt(data, j - 1) \in XBlocks(S)
<1> DEFINE b == XTS_BLOCK
           d == j - 1
           p == d * b
           e == j * b
           chunk == SubSeq(data, p + 1, e)
<1>1. b \in Nat \ {0} /\ d \in Nat /\ j = d + 1 /\ Len(data) \in Nat
  BY XtsAssumption, LenProperties
<1> HIDE DEF b, d
<1>2. p \in Nat /\ e = p + b /\ e \in Nat
  BY <1>1, BlocksBelow
<1>3. e <= Len(data)
  BY DEF b
<1> HIDE DEF p, e
<1>4. /\ chunk \in Seq(S) /\ Len(chunk) = b
      /\ \A i \in 1 .. b : chunk[i] = data[p + i]
  <2>1. p <= e /\ e - p = b
    BY <1>1, <1>2
  <2>2. /\ chunk \in Seq(S) /\ Len(chunk) = e - p
        /\ \A i \in 1 .. e - p : chunk[i] = data[p + i]
    BY <1>2, <1>3, <2>1, PartIs
  <2>3. QED
    BY <2>1, <2>2
<1> HIDE DEF chunk
<1>5. chunk \in [1 .. b -> S] /\ chunk = [i \in 1 .. b |-> chunk[i]]
  BY <1>1, <1>4, SeqIsBlock
<1>6. chunk = [i \in 1 .. b |-> data[p + i]]
  BY <1>4, <1>5
<1>7. QED
  BY <1>5, <1>6 DEF chunk, p, e, d, b, BlockAt, XBlocks

(* Blocks of which each was ciphered under its tweak.                      *)
CiphersOf(S, dir, tweaks, data, k, r) ==
    /\ r \in Seq(Deeper(S)) /\ Len(r) = k * XTS_BLOCK
    /\ \A d \in 0 .. k - 1, i \in 1 .. XTS_BLOCK :
            r[d * XTS_BLOCK + i] = CipherBlock(dir, tweaks[d + 1], BlockAt(data, d))[i]

LEMMA CiphersAre ==
  ASSUME NEW S, Bytes(S), NEW dir \in Directions, NEW k \in Nat,
         NEW data \in Seq(S), Len(data) = k * XTS_BLOCK,
         NEW tweaks \in [1 .. k -> Int]
  PROVE  CiphersOf(S, dir, tweaks, data, k, CipherBlocks(dir, tweaks, data))
<1> DEFINE b == XTS_BLOCK
           n == k * b
           done == [j \in 1 .. k |-> CipherBlock(dir, tweaks[j], BlockAt(data, j - 1))]
           At(x) == done[BlockNr(b, x)][ByteNr(b, x)]
           r == CipherBlocks(dir, tweaks, data)
<1>1. b \in Nat \ {0} /\ n \in Nat /\ Len(data) = n /\ Len(tweaks) = k
  BY XtsAssumption
<1>2. r = [x \in 1 .. n |-> At(x)]
  <2> DEFINE raw == [j \in 1 .. k |->
                        CipherBlock(dir, tweaks[j], SubSeq(data, ((j - 1) * b) + 1, j * b))]
  <2>1. ASSUME NEW j \in 1 .. k PROVE SubSeq(data, ((j - 1) * b) + 1, j * b) = BlockAt(data, j - 1)
    <3>1. j * b <= n
      <4>1. j - 1 \in Nat /\ j - 1 < k /\ (j - 1) + 1 = j
        OBVIOUS
      <4> DEFINE d == j - 1
      <4>2. (d + 1) * b = d * b + b /\ d * b + b <= k * b
        <5>1. d \in Nat /\ d < k
          BY <4>1
        <5> HIDE DEF d, b
        <5>2. QED
          BY <1>1, <5>1, BlocksBelow
      <4>3. QED
        BY <4>1, <4>2
    <3>2. QED
      BY <1>1, <3>1, BlockAtIs
  <2>2. raw = done
    BY <2>1
  <2> HIDE DEF done
  <2>3. r = [x \in 1 .. n |-> raw[BlockNr(b, x)][ByteNr(b, x)]]
    BY <1>1 DEF CipherBlocks, BlockNr, ByteNr
  <2> HIDE DEF raw
  <2>4. QED
    BY <2>2, <2>3
<1> HIDE DEF r, b, n
<1>3. ASSUME NEW d \in 0 .. k - 1, NEW i \in 1 .. b
      PROVE  /\ d * b + i \in 1 .. n
             /\ r[d * b + i] = CipherBlock(dir, tweaks[d + 1], BlockAt(data, d))[i]
  <2> DEFINE x == d * b + i
  <2>1. d \in Nat /\ d < k /\ d + 1 \in 1 .. k /\ (d + 1) - 1 = d
    OBVIOUS
  <2>2. x \in 1 .. n
    <3>1. d * b + i \in 1 .. k * b
      BY <1>1, InBlocks
    <3>2. QED
      BY <3>1 DEF n
  <2>3. BlockNr(b, x) = d + 1 /\ ByteNr(b, x) = i
    <3>1. x = d * b + i
      OBVIOUS
    <3> HIDE DEF x
    <3>2. b \in Nat \ {0} /\ d \in Nat /\ i \in 1 .. b /\ x = d * b + i
      BY <1>1, <2>1, <3>1
    <3>3. QED
      BY ONLY <3>2, ByteIs
  <2> HIDE DEF x
  <2>4. r[x] = done[d + 1][i]
    BY <1>2, <2>2, <2>3
  <2>5. QED
    BY <2>1, <2>2, <2>4 DEF x
<1>4. ASSUME NEW x \in 1 .. n PROVE r[x] \in Deeper(S)
  <2>0. b \in Nat \ {0} /\ x \in Nat \ {0}
    BY <1>1
  <2>1. PICK d \in Nat, i \in 1 .. b : x = d * b + i
    BY ONLY <2>0, ByteOf
  <2>2. d < k
    <3>1. d * b + i <= k * b
      BY <1>1, <2>1 DEF n
    <3>2. QED
      BY <1>1, <3>1, BlockAbove
  <2>3. r[x] = CipherBlock(dir, tweaks[d + 1], BlockAt(data, d))[i]
    BY <1>3, <2>1, <2>2
  <2>4. BlockAt(data, d) \in XBlocks(S)
    <3> DEFINE j == d + 1
    <3>1. j \in Nat \ {0} /\ d = j - 1
      OBVIOUS
    <3>2. j * b <= n
      BY <1>1, <2>2, BlocksBelow DEF n
    <3> HIDE DEF j
    <3>3. BlockAt(data, j - 1) \in XBlocks(S)
      BY <1>1, <3>1, <3>2, BlockAtIs DEF b
    <3>4. QED
      BY <3>1, <3>3
  <2>5. tweaks[d + 1] \in Int
    BY <2>2
  <2>6. CipherBlock(dir, tweaks[d + 1], BlockAt(data, d)) \in XBlocks(Deeper(S))
    BY <2>4, <2>5, CipherIn
  <2>7. QED
    BY <2>3, <2>6 DEF XBlocks, b
<1> HIDE DEF done
<1>5. r \in [1 .. n -> Deeper(S)]
  BY <1>2, <1>4
<1>6. r \in Seq(Deeper(S)) /\ Len(r) = n
  BY <1>1, <1>5, BlockIsSeq
<1>7. QED
  BY <1>3, <1>6 DEF CiphersOf, r, b, n
(* The sector of the standard, byte by byte: m whole blocks and r bytes.   *)
FirstTweak(dir, m)      == IF dir = "enc" THEN m - 1 ELSE m
SecondTweak(dir, m)     == IF dir = "enc" THEN m ELSE m - 1
Carried(dir, data, m)   == CipherBlock(dir, FirstTweak(dir, m), BlockAt(data, m - 1))
Refilled(dir, data, m, r) ==
    [i \in 1 .. XTS_BLOCK |-> IF i <= r THEN data[m * XTS_BLOCK + i] ELSE Carried(dir, data, m)[i]]
Alone(m, r) == IF r = 0 THEN m ELSE m - 1

SectorOf(S, dir, data, m, r, t) ==
    /\ t \in Seq(S) /\ Len(t) = m * XTS_BLOCK + r
    /\ \A d \in 0 .. Alone(m, r) - 1, i \in 1 .. XTS_BLOCK :
            t[d * XTS_BLOCK + i] = CipherBlock(dir, d, BlockAt(data, d))[i]
    /\ r # 0 =>
        /\ \A i \in 1 .. XTS_BLOCK :
                t[(m - 1) * XTS_BLOCK + i]
                    = CipherBlock(dir, SecondTweak(dir, m), Refilled(dir, data, m, r))[i]
        /\ \A i \in 1 .. r : t[m * XTS_BLOCK + i] = Carried(dir, data, m)[i]

(* k blocks of the data after d0, under the tweaks after s.                *)
BlocksOf(T, dir, data, k, s, d0, r) ==
    /\ r \in Seq(T) /\ Len(r) = k * XTS_BLOCK
    /\ \A d \in 0 .. k - 1, i \in 1 .. XTS_BLOCK :
            r[d * XTS_BLOCK + i] = CipherBlock(dir, s + d, BlockAt(data, d0 + d))[i]

LEMMA AloneIs ==
  ASSUME NEW S, Bytes(S), NEW dir \in Directions, NEW data \in Seq(S), NEW k \in Nat,
         NEW s \in Nat, NEW chunk \in Seq(S), Len(chunk) = k * XTS_BLOCK,
         NEW d0 \in Nat, \A i \in 1 .. k * XTS_BLOCK : chunk[i] = data[d0 * XTS_BLOCK + i],
         NEW r, r = CipherBlocks(dir, InTurn(s, k), chunk)
  PROVE  BlocksOf(Deeper(S), dir, data, k, s, d0, r)
<1> DEFINE b == XTS_BLOCK
<1>1. b \in Nat \ {0}
  BY XtsAssumption
<1>2. InTurn(s, k) \in [1 .. k -> Int]
  BY DEF InTurn
<1>3. CiphersOf(S, dir, InTurn(s, k), chunk, k, r)
  BY <1>2, CiphersAre
<1>4. ASSUME NEW d \in 0 .. k - 1
      PROVE  InTurn(s, k)[d + 1] = s + d /\ BlockAt(chunk, d) = BlockAt(data, d0 + d)
  <2>1. d \in Nat /\ d < k /\ d + 1 \in 1 .. k /\ s + (d + 1) - 1 = s + d
    OBVIOUS
  <2>2. InTurn(s, k)[d + 1] = s + d
    BY <2>1 DEF InTurn
  <2>3. ASSUME NEW i \in 1 .. b PROVE chunk[d * b + i] = data[(d0 + d) * b + i]
    <3>1. d * b \in Nat
      BY <1>1, <2>1
    <3>2. d * b + i \in 1 .. k * b
      BY <1>1, InBlocks
    <3>3. (d0 + d) * b + i = d0 * b + (d * b + i)
      <4>1. (d0 + d) * b = d0 * b + d * b /\ d0 * b \in Nat
        BY <1>1, <2>1
      <4>2. QED
        BY <1>1, <3>1, <4>1
    <3>4. QED
      BY <3>2, <3>3
  <2>4. QED
    BY <2>2, <2>3 DEF BlockAt
<1>5. QED
  BY <1>3, <1>4 DEF CiphersOf, BlocksOf

LEMMA SectorIs ==
  ASSUME NEW S, Bytes(S), NEW dir \in Directions, NEW data \in Seq(S),
         NEW m \in Nat \ {0}, NEW r \in 0 .. XTS_BLOCK - 1, Len(data) = m * XTS_BLOCK + r
  PROVE  SectorOf(Deeper(Deeper(S)), dir, data, m, r, Standard(dir, data))
<1> DEFINE b == XTS_BLOCK
           n == Len(data)
           D == Deeper(S)
           E == Deeper(D)
           k == Alone(m, r)
           cc == Carried(dir, data, m)
           head == SubSeq(data, 1, k * b)
           body == CipherBlocks(dir, InTurn(0, k), head)
           joined == SubSeq(data, (m * b) + 1, n) \o SubSeq(cc, r + 1, b)
           last == CipherBlock(dir, SecondTweak(dir, m), joined)
           rest == IF r = 0 THEN << >> ELSE last \o SubSeq(cc, 1, r)
           t == Standard(dir, data)
<1>1. b \in Nat \ {0} /\ n \in Nat /\ k \in Nat
  BY XtsAssumption, LenProperties DEF Alone
<1>2. n \div b = m /\ n % b = r
  <2>1. b \in Nat \ {0} /\ m \in Nat /\ r \in 0 .. b - 1 /\ n = m * b + r
    BY <1>1
  <2> HIDE DEF b, n
  <2>2. QED
    BY ONLY <2>1, DivIs
<1>3. m * b \in Nat /\ m * b <= n /\ k * b <= m * b /\ m * b = (m - 1) * b + b
      /\ (m - 1) * b \in Nat
  <2> DEFINE l == m - 1
  <2>1. l \in Nat /\ l < m /\ m = l + 1
    OBVIOUS
  <2> HIDE DEF l, b
  <2>2. (l + 1) * b = l * b + b /\ l * b \in Nat /\ m * b \in Nat /\ l * b + b <= m * b
    BY <1>1, <2>1, BlocksBelow
  <2>3. k = m \/ k = l
    BY DEF Alone, l
  <2>4. QED
    BY <1>1, <2>1, <2>2, <2>3 DEF b, l
<1>4. S \subseteq D /\ D \subseteq E /\ Bytes(D) /\ Bytes(E)
  BY DeeperBytes
<1>5. BlockAt(data, m - 1) \in XBlocks(S)
      /\ SubSeq(data, ((m - 1) * b) + 1, m * b) = BlockAt(data, m - 1)
  BY <1>1, <1>3, BlockAtIs
<1>6. t = body \o rest
  <2> HIDE DEF b
  <2>1. t = CipherBlocks(dir, InTurn(0, k), SubSeq(data, 1, k * b)) \o rest
    BY <1>1, <1>2, <1>5 DEF Standard, Carried, FirstTweak, SecondTweak, Alone, b
  <2>2. QED
    BY <2>1
<1> HIDE DEF t, b, n, k, rest, body, D, E
<1>7. /\ body \in Seq(E) /\ Len(body) = k * b
      /\ \A d \in 0 .. k - 1, i \in 1 .. b :
            body[d * b + i] = CipherBlock(dir, d, BlockAt(data, d))[i]
  <2>1. head \in Seq(S) /\ Len(head) = k * b /\ \A i \in 1 .. k * b : head[i] = data[i]
    <3> DEFINE e == k * b
    <3>1. e \in Nat /\ e <= n
      BY <1>1, <1>3
    <3> HIDE DEF e
    <3>2. SubSeq(data, 1, e) \in Seq(S) /\ Len(SubSeq(data, 1, e)) = e
          /\ \A i \in 1 .. e : SubSeq(data, 1, e)[i] = data[i]
      BY <3>1, StartIs DEF n
    <3>3. QED
      BY <3>2 DEF e
  <2> HIDE DEF head
  <2> DEFINE z == 0
  <2>2. \A i \in 1 .. k * b : head[i] = data[z * b + i]
    BY <1>1, <2>1
  <2>3. z \in Nat
    OBVIOUS
  <2>4. body = CipherBlocks(dir, InTurn(z, k), head)
    BY DEF body
  <2> HIDE DEF z
  <2>5. /\ body \in Seq(D) /\ Len(body) = k * b
        /\ \A d \in 0 .. k - 1, i \in 1 .. b :
              body[d * b + i] = CipherBlock(dir, z + d, BlockAt(data, z + d))[i]
    <3>1. BlocksOf(Deeper(S), dir, data, k, z, z, body)
      BY <1>1, <2>1, <2>2, <2>3, <2>4, AloneIs DEF b
    <3>2. QED
      BY <3>1 DEF BlocksOf, D, b
  <2>6. \A d \in 0 .. k - 1 : z + d = d
    BY <1>1 DEF z
  <2>7. body \in Seq(E)
    BY <1>4, <2>5, WiderSeq
  <2>8. QED
    BY <2>5, <2>6, <2>7
<1>8. CASE r = 0
  <2>1. rest \in Seq(E) /\ Len(rest) = 0
    BY <1>8 DEF rest
  <2>2. Joined(E, body, rest, t)
    BY <1>6, <1>7, <2>1, JoinIs
  <2>3. t \in Seq(E) /\ Len(t) = m * b + r /\ \A i \in 1 .. k * b : t[i] = body[i]
    BY <1>1, <1>3, <1>7, <1>8, <2>1, <2>2 DEF Joined, k, Alone
  <2>4. ASSUME NEW d \in 0 .. k - 1, NEW i \in 1 .. b PROVE t[d * b + i] = body[d * b + i]
    <3>1. d * b + i \in 1 .. k * b
      BY <1>1, InBlocks
    <3>2. QED
      BY <2>3, <3>1
  <2>5. \A d \in 0 .. k - 1, i \in 1 .. b : t[d * b + i] = CipherBlock(dir, d, BlockAt(data, d))[i]
    BY <1>7, <2>4
  <2>6. QED
    BY <1>8, <2>3, <2>5 DEF SectorOf, D, E, k, t, b
<1>9. CASE r # 0
  <2>1. k = m - 1
    BY <1>9 DEF k, Alone
  <2>2. cc \in XBlocks(D)
    <3>1. FirstTweak(dir, m) \in Int
      BY DEF FirstTweak
    <3>2. QED
      BY <1>5, <3>1, CipherIn DEF Carried, D
  <2>3. cc \in Seq(D) /\ Len(cc) = b
    BY <1>1, <2>2, BlockIsSeq DEF XBlocks, b
  <2> HIDE DEF cc
  <2> DEFINE short == SubSeq(data, (m * b) + 1, n)
             end == SubSeq(cc, r + 1, b)
             start == SubSeq(cc, 1, r)
  <2>4. short \in Seq(D) /\ Len(short) = r /\ \A i \in 1 .. r : short[i] = data[m * b + i]
    <3> DEFINE p == m * b
    <3>1. p \in Nat /\ n \in Nat /\ p <= n /\ n - p = r /\ n <= Len(data)
      BY <1>1, <1>3 DEF n, b
    <3>2. data \in Seq(D)
      BY <1>4, WiderSeq
    <3> HIDE DEF p
    <3>3. /\ SubSeq(data, p + 1, n) \in Seq(D) /\ Len(SubSeq(data, p + 1, n)) = n - p
          /\ \A i \in 1 .. n - p : SubSeq(data, p + 1, n)[i] = data[p + i]
      BY <3>1, <3>2, PartIs
    <3>4. QED
      BY <3>1, <3>3 DEF p
  <2>5. end \in Seq(D) /\ Len(end) = b - r /\ \A i \in 1 .. b - r : end[i] = cc[r + i]
    <3>1. r \in Nat /\ r <= b /\ b <= Len(cc)
      BY <1>1, <2>3 DEF b
    <3>2. QED
      BY <1>1, <2>3, <3>1, PartIs
  <2>6. start \in Seq(D) /\ Len(start) = r /\ \A i \in 1 .. r : start[i] = cc[i]
    <3>1. r \in Nat /\ r <= Len(cc)
      BY <1>1, <2>3 DEF b
    <3>2. QED
      BY <2>3, <3>1, StartIs
  <2>7. joined = short \o end
    OBVIOUS
  <2> HIDE DEF short, end, start, joined
  <2>8. Joined(D, short, end, joined)
    BY <2>4, <2>5, <2>7, JoinIs
  <2>9. joined \in Seq(D) /\ Len(joined) = b
        /\ \A i \in 1 .. b : joined[i] = IF i <= r THEN data[m * b + i] ELSE cc[i]
    <3>0. r \in Nat /\ r < b
      BY <1>1 DEF b
    <3>1. joined \in Seq(D) /\ Len(joined) = b
      BY <1>1, <2>4, <2>5, <2>8, <3>0 DEF Joined
    <3>2. ASSUME NEW i \in 1 .. b PROVE joined[i] = IF i <= r THEN data[m * b + i] ELSE cc[i]
      <4>1. CASE i <= r
        <5>1. i \in 1 .. Len(short)
          BY <2>4, <3>0, <4>1
        <5>2. joined[i] = short[i]
          BY <2>8, <5>1 DEF Joined
        <5>3. QED
          BY <2>4, <4>1, <5>1, <5>2
      <4>2. CASE ~(i <= r)
        <5> DEFINE j == i - r
        <5>1. j \in 1 .. b - r /\ r + j = i
          BY <1>1, <3>0, <4>2
        <5> HIDE DEF j
        <5>2. joined[Len(short) + j] = end[j]
          BY <2>5, <2>8, <5>1 DEF Joined
        <5>3. QED
          BY <2>4, <2>5, <4>2, <5>1, <5>2
      <4>3. QED
        BY <4>1, <4>2
    <3>3. QED
      BY <3>1, <3>2
  <2>10. joined = Refilled(dir, data, m, r) /\ joined \in XBlocks(D)
    <3>1. joined \in [1 .. b -> D] /\ joined = [i \in 1 .. b |-> joined[i]]
      BY <1>1, <2>9, SeqIsBlock
    <3>2. joined = [i \in 1 .. b |-> IF i <= r THEN data[m * b + i] ELSE cc[i]]
      BY <2>9, <3>1
    <3>3. QED
      BY <3>1, <3>2 DEF Refilled, XBlocks, b, cc
  <2>11. last \in Seq(E) /\ Len(last) = b
    <3>1. SecondTweak(dir, m) \in Int
      BY DEF SecondTweak
    <3>2. last \in XBlocks(E)
      BY <1>4, <2>10, <3>1, CipherIn DEF E
    <3> HIDE DEF last
    <3>3. QED
      BY <1>1, <3>2, BlockIsSeq DEF XBlocks, b
  <2>12. rest = last \o start
    BY <1>9 DEF rest, start, b
  <2> HIDE DEF last
  <2>13. Joined(E, last, start, rest)
    <3>1. start \in Seq(E)
      BY <1>4, <2>6, WiderSeq
    <3>2. QED
      BY <2>11, <2>12, <3>1, JoinIs
  <2>14. rest \in Seq(E) /\ Len(rest) = b + r
         /\ (\A i \in 1 .. b : rest[i] = last[i]) /\ \A i \in 1 .. r : rest[b + i] = cc[i]
    BY <1>1, <2>6, <2>11, <2>13 DEF Joined
  <2>15. Joined(E, body, rest, t)
    BY <1>6, <1>7, <2>14, JoinIs
  <2>16. t \in Seq(E) /\ Len(t) = m * b + r
    BY <1>1, <1>3, <1>7, <2>1, <2>14, <2>15 DEF Joined
  <2>17. (\A i \in 1 .. k * b : t[i] = body[i]) /\ \A i \in 1 .. b + r : t[k * b + i] = rest[i]
    BY <1>7, <2>14, <2>15 DEF Joined
  <2>18. ASSUME NEW d \in 0 .. k - 1, NEW i \in 1 .. b PROVE t[d * b + i] = body[d * b + i]
    <3>1. d * b + i \in 1 .. k * b
      BY <1>1, InBlocks
    <3>2. QED
      BY <2>17, <3>1
  <2>19. \A d \in 0 .. k - 1, i \in 1 .. b : t[d * b + i] = CipherBlock(dir, d, BlockAt(data, d))[i]
    BY <1>7, <2>18
  <2>20. ASSUME NEW i \in 1 .. b PROVE t[(m - 1) * b + i] = last[i]
    <3>1. i \in 1 .. b + r
      BY <1>1
    <3>2. t[k * b + i] = rest[i]
      BY <2>17, <3>1
    <3>3. QED
      BY <2>1, <2>14, <3>2
  <2>21. ASSUME NEW i \in 1 .. r PROVE t[m * b + i] = cc[i]
    <3>1. b + i \in 1 .. b + r
      BY <1>1
    <3>2. t[k * b + (b + i)] = rest[b + i]
      BY <2>17, <3>1
    <3>3. k * b + (b + i) = m * b + i
      BY <1>1, <1>3, <2>1
    <3>4. QED
      BY <2>14, <3>2, <3>3
  <2>22. last = CipherBlock(dir, SecondTweak(dir, m), Refilled(dir, data, m, r))
    BY <2>10 DEF last
  <2>23. \A i \in 1 .. b : t[(m - 1) * b + i] = CipherBlock(dir, SecondTweak(dir, m), Refilled(dir, data, m, r))[i]
    BY <2>20, <2>22
  <2>24. QED
    BY <2>16, <2>19, <2>21, <2>23 DEF SectorOf, D, E, k, t, b, cc
<1>10. QED
  BY <1>8, <1>9
(* Memory in which the first k bytes of a text are written at an address.  *)
Wrote(mem, was, at, k, text) ==
    mem = [a \in 1 .. XtsMemory |-> IF a \in at .. at + k - 1 THEN text[a - at + 1] ELSE was[a]]

LEMMA WroteMore ==
  ASSUME NEW mem, NEW was, NEW at \in Int, NEW k \in Nat, NEW text, Wrote(mem, was, at, k, text),
         NEW l \in Nat, NEW data, Len(data) = l,
         \A i \in 1 .. l : data[i] = text[k + i]
  PROVE  Wrote(XtsStore(mem, at + k, data), was, at, k + l, text)
<1> DEFINE o == at + k
           V(a) == IF a \in o .. o + Len(data) - 1 THEN data[a - o + 1] ELSE mem[a]
           W(a) == IF a \in at .. at + (k + l) - 1 THEN text[a - at + 1] ELSE was[a]
<1>1. DOMAIN mem = 1 .. XtsMemory
  BY DEF Wrote
<1>2. XtsStore(mem, o, data) = [a \in 1 .. XtsMemory |-> V(a)]
  BY <1>1 DEF XtsStore
<1>3. o = at + k /\ o \in Int
  OBVIOUS
<1>4. \A a \in 1 .. XtsMemory : mem[a] = IF a \in at .. at + k - 1 THEN text[a - at + 1] ELSE was[a]
  BY DEF Wrote
<1> HIDE DEF o
<1>5. ASSUME NEW a \in 1 .. XtsMemory PROVE V(a) = W(a)
  <2>0. a \in Int
    BY XtsAssumption
  <2>1. CASE a \in o .. o + l - 1
    <3>1. a - o + 1 \in 1 .. l /\ k + (a - o + 1) = a - at + 1 /\ a \in at .. at + (k + l) - 1
      BY <1>3, <2>0, <2>1
    <3>2. QED
      BY <2>1, <3>1
  <2>2. CASE a \notin o .. o + l - 1
    <3>1. a \in at .. at + (k + l) - 1 <=> a \in at .. at + k - 1
      BY <1>3, <2>0, <2>2
    <3>2. QED
      BY <1>4, <2>2, <3>1
  <2>3. QED
    BY <2>1, <2>2
<1> HIDE DEF V, W
<1>6. [a \in 1 .. XtsMemory |-> V(a)] = [a \in 1 .. XtsMemory |-> W(a)]
  BY <1>5
<1>7. QED
  BY <1>2, <1>6 DEF Wrote, W, o

LEMMA WroteNone ==
  ASSUME NEW S, NEW was \in [1 .. XtsMemory -> S], NEW at \in Int, NEW text
  PROVE  Wrote(was, was, at, 0, text)
<1> DEFINE z == 0
           V(a) == IF a \in at .. at + z - 1 THEN text[a - at + 1] ELSE was[a]
<1>1. \A a \in 1 .. XtsMemory : a \notin at .. at + z - 1
  BY XtsAssumption
<1>2. \A a \in 1 .. XtsMemory : V(a) = was[a]
  BY <1>1
<1> HIDE DEF V, z
<1>3. was = [a \in 1 .. XtsMemory |-> V(a)]
  BY <1>2
<1>4. QED
  BY <1>3 DEF Wrote, V, z

(* A call's buffers: they lie in memory, and the output does not begin     *)
(* inside the input.                                                       *)
Lies(c) ==
    /\ c.in \in Nat \ {0} /\ c.out \in Nat \ {0} /\ c.n \in Nat
    /\ c.in + c.n - 1 <= XtsMemory /\ c.out + c.n - 1 <= XtsMemory
    /\ c.out <= c.in \/ c.out - c.in >= c.n

Given(was, c)    == XtsLoad(was, c.in, c.n)
Expected(was, c) == Standard(c.dir, Given(was, c))

GivenOf(S, was, c, data) ==
    /\ data \in Seq(S) /\ Len(data) = c.n
    /\ \A j \in 1 .. c.n : data[j] = was[c.in + j - 1]

LEMMA GivenIs ==
  ASSUME NEW S, NEW c, Lies(c), NEW was \in [1 .. XtsMemory -> S]
  PROVE  GivenOf(S, was, c, Given(was, c))
<1> DEFINE n == c.n
           i == c.in
<1>1. i \in Nat \ {0} /\ n \in Nat /\ i + n - 1 <= XtsMemory /\ XtsMemory \in Nat
  BY XtsAssumption DEF Lies
<1>2. Given(was, c) = [j \in 1 .. n |-> was[i + j - 1]]
  BY DEF Given, XtsLoad
<1> HIDE DEF n, i
<1>3. \A j \in 1 .. n : i + j - 1 \in 1 .. XtsMemory
  BY <1>1
<1>4. Given(was, c) \in [1 .. n -> S]
  BY <1>2, <1>3
<1>5. Given(was, c) \in Seq(S) /\ Len(Given(was, c)) = n
  BY <1>1, <1>4, BlockIsSeq
<1>6. QED
  BY <1>2, <1>5 DEF GivenOf, n, i

(* A load behind what has been written gets the caller's bytes.            *)
Loaded(S, was, c, p, l, x) ==
    /\ x \in Seq(S) /\ Len(x) = l
    /\ \A i \in 1 .. l : x[i] = Given(was, c)[p + i]

LEMMA LoadIs ==
  ASSUME NEW S, NEW c, Lies(c), NEW was \in [1 .. XtsMemory -> S],
         NEW mem, NEW text, NEW k \in Nat, Wrote(mem, was, c.out, k, text),
         NEW p \in Nat, NEW l \in Nat, k <= p, p + l <= c.n
  PROVE  Loaded(S, was, c, p, l, XtsLoad(mem, c.in + p, l))
<1> DEFINE n == c.n
           o == c.out
           b == c.in
           x == XtsLoad(mem, b + p, l)
<1>1. /\ b \in Nat \ {0} /\ o \in Nat \ {0} /\ n \in Nat /\ b + n - 1 <= XtsMemory /\ XtsMemory \in Nat
      /\ o <= b \/ o - b >= n
      /\ p + l <= n
  BY XtsAssumption DEF Lies
<1>2. x = [i \in 1 .. l |-> mem[b + p + i - 1]]
  BY DEF XtsLoad
<1>3. \A a \in 1 .. XtsMemory : mem[a] = IF a \in o .. o + k - 1 THEN text[a - o + 1] ELSE was[a]
  BY DEF Wrote
<1>4. \A j \in 1 .. n : Given(was, c)[j] = was[b + j - 1]
  <2>1. GivenOf(S, was, c, Given(was, c))
    BY GivenIs
  <2>2. QED
    BY <2>1 DEF GivenOf
<1> HIDE DEF n, o, b, x
<1>5. ASSUME NEW i \in 1 .. l
      PROVE  /\ b + p + i - 1 \in 1 .. XtsMemory
             /\ b + p + i - 1 \notin o .. o + k - 1
             /\ p + i \in 1 .. n /\ b + (p + i) - 1 = b + p + i - 1
  BY <1>1
<1>6. \A i \in 1 .. l : x[i] = Given(was, c)[p + i] /\ x[i] \in S
  BY <1>2, <1>3, <1>4, <1>5
<1>7. x \in [1 .. l -> S]
  BY <1>2, <1>6
<1>8. x \in Seq(S) /\ Len(x) = l
  BY <1>7, BlockIsSeq
<1>9. QED
  BY <1>6, <1>8 DEF Loaded, x, b
(* A call that has begun, on m whole blocks and r bytes.                   *)
CallOn(S, c, was, m, r) ==
    /\ Bytes(S) /\ Lies(c) /\ c.dir \in Directions
    /\ was \in [1 .. XtsMemory -> S]
    /\ m \in Nat \ {0} /\ r \in 0 .. XTS_BLOCK - 1
    /\ c.n = m * XTS_BLOCK + r

LEMMA ExpectedIs ==
  ASSUME NEW S, NEW c, NEW was, NEW m, NEW r, CallOn(S, c, was, m, r)
  PROVE  /\ Given(was, c) \in Seq(S) /\ Len(Given(was, c)) = c.n
         /\ SectorOf(Deeper(Deeper(S)), c.dir, Given(was, c), m, r, Expected(was, c))
<1>1. /\ Bytes(S) /\ Lies(c) /\ c.dir \in Directions
      /\ was \in [1 .. XtsMemory -> S]
      /\ m \in Nat \ {0} /\ r \in 0 .. XTS_BLOCK - 1
      /\ c.n = m * XTS_BLOCK + r
  BY DEF CallOn
<1>2. Given(was, c) \in Seq(S) /\ Len(Given(was, c)) = c.n
  BY <1>1, GivenIs DEF GivenOf
<1> DEFINE data == Given(was, c)
           dir == c.dir
<1>3. data \in Seq(S) /\ Len(data) = m * XTS_BLOCK + r /\ dir \in Directions
  BY <1>1, <1>2
<1> HIDE DEF data, dir
<1>4. SectorOf(Deeper(Deeper(S)), dir, data, m, r, Standard(dir, data))
  BY <1>1, <1>3, SectorIs
<1>5. QED
  BY <1>2, <1>4 DEF Expected, data, dir

(* Blocks e .. e + k - 1 of a call in one group.                           *)
LEMMA GroupReads ==
  ASSUME NEW S, NEW c, NEW was, NEW m, NEW r, CallOn(S, c, was, m, r),
         NEW mem, NEW text, NEW e \in Nat, NEW k \in Nat,
         Wrote(mem, was, c.out, e * XTS_BLOCK, text), e + k <= m
  PROVE  Loaded(S, was, c, e * XTS_BLOCK, k * XTS_BLOCK,
                XtsLoad(mem, c.in + (e * XTS_BLOCK), k * XTS_BLOCK))
<1> DEFINE b == XTS_BLOCK
           p == e * b
           l == k * b
           n == c.n
           f == m - (e + k)
<1>1. /\ b \in Nat \ {0} /\ Lies(c) /\ was \in [1 .. XtsMemory -> S]
      /\ m \in Nat /\ r \in Nat /\ n = m * b + r
  BY XtsAssumption DEF CallOn
<1>2. f \in Nat /\ m = (e + k) + f
  BY <1>1
<1> HIDE DEF f, b
<1>3. m * b = (p + l) + f * b /\ p \in Nat /\ l \in Nat /\ f * b \in Nat
  BY <1>1, <1>2
<1>4. p + l <= n /\ p <= p
  BY <1>1, <1>3
<1>5. Wrote(mem, was, c.out, p, text)
  BY DEF b
<1> HIDE DEF p, l
<1>6. Loaded(S, was, c, p, l, XtsLoad(mem, c.in + p, l))
  BY <1>1, <1>3, <1>4, <1>5, LoadIs DEF n
<1>7. QED
  BY <1>6 DEF p, l, b

LEMMA GroupWrites ==
  ASSUME NEW S, NEW c, NEW was, NEW m, NEW r, CallOn(S, c, was, m, r),
         NEW mem, NEW e \in Nat, NEW k \in Nat,
         Wrote(mem, was, c.out, e * XTS_BLOCK, Expected(was, c)), e + k <= Alone(m, r)
  PROVE  /\ Wrote(XtsStore(mem, c.out + (e * XTS_BLOCK),
                        CipherBlocks(c.dir, InTurn(e, k),
                                     XtsLoad(mem, c.in + (e * XTS_BLOCK), k * XTS_BLOCK))),
                  was, c.out, (e + k) * XTS_BLOCK, Expected(was, c))
         /\ CipherBlocks(c.dir, InTurn(e, k),
                         XtsLoad(mem, c.in + (e * XTS_BLOCK), k * XTS_BLOCK)) \in Seq(Deeper(S))
<1> DEFINE b == XTS_BLOCK
           p == e * b
           l == k * b
           data == Given(was, c)
           text == Expected(was, c)
           dir == c.dir
           x == XtsLoad(mem, c.in + p, l)
           y == CipherBlocks(dir, InTurn(e, k), x)
<1>1. /\ b \in Nat \ {0} /\ Bytes(S) /\ dir \in Directions /\ m \in Nat /\ m # 0 /\ r \in 0 .. b - 1
      /\ c.out \in Int
  BY XtsAssumption DEF CallOn, Lies
<1>2. e + k <= m
  BY <1>1 DEF Alone
<1>3. Loaded(S, was, c, p, l, x)
  BY <1>2, GroupReads
<1>4. data \in Seq(S) /\ SectorOf(Deeper(Deeper(S)), dir, data, m, r, text)
  BY ExpectedIs
<1>5. y = CipherBlocks(dir, InTurn(e, k), x)
  OBVIOUS
<1>6. /\ x \in Seq(S) /\ Len(x) = k * b
      /\ \A i \in 1 .. k * b : x[i] = data[e * b + i]
  BY <1>3 DEF Loaded
<1> HIDE DEF x, y, data, text, dir, b
<1>7. BlocksOf(Deeper(S), dir, data, k, e, e, y)
  BY <1>1, <1>4, <1>5, <1>6, AloneIs DEF b
<1>8. Len(y) = l /\ l \in Nat /\ p \in Nat
  BY <1>1, <1>7 DEF BlocksOf, b
<1>9. ASSUME NEW i \in 1 .. l PROVE y[i] = text[p + i]
  <2>1. i \in Nat \ {0} /\ i <= k * b
    BY <1>8
  <2>2. PICK d \in Nat, f \in 1 .. b : i = d * b + f
    BY ONLY <1>1, <2>1, ByteOf
  <2>3. d < k
    BY <1>1, <2>1, <2>2, BlockAbove
  <2>4. y[i] = CipherBlock(dir, e + d, BlockAt(data, e + d))[f]
    <3>1. d \in 0 .. k - 1
      BY <2>3
    <3>2. QED
      BY <1>7, <2>2, <3>1 DEF BlocksOf, b
  <2>5. text[(e + d) * b + f] = CipherBlock(dir, e + d, BlockAt(data, e + d))[f]
    <3> DEFINE g == e + d
    <3>1. g \in 0 .. Alone(m, r) - 1
      BY <1>1, <2>3 DEF Alone
    <3> HIDE DEF g
    <3>2. text[g * b + f] = CipherBlock(dir, g, BlockAt(data, g))[f]
      BY <1>4, <3>1 DEF SectorOf, b
    <3>3. QED
      BY <3>2 DEF g
  <2>6. (e + d) * b + f = p + i
    <3>1. (e + d) * b = p + d * b /\ d * b \in Nat
      BY <1>1
    <3>2. QED
      BY <1>8, <2>2, <3>1
  <2>7. QED
    BY <2>4, <2>5, <2>6
<1>10. p + l = (e + k) * b
  BY <1>1
<1>11. Wrote(mem, was, c.out, p, text)
  BY DEF text, b
<1> HIDE DEF p, l
<1>12. Wrote(XtsStore(mem, c.out + p, y), was, c.out, p + l, text)
  BY <1>1, <1>8, <1>9, <1>11, WroteMore
<1>13. y \in Seq(Deeper(S))
  BY <1>7 DEF BlocksOf
<1>14. QED
  BY <1>10, <1>12, <1>13 DEF y, x, p, l, text, dir, b
(* The last group before a short block: its tweaks but the last are in     *)
(* turn, and its last block stays in the register.                         *)
LastReady(S, c, was, m, r, mem, e, k, tweaks, y, kept) ==
    /\ CallOn(S, c, was, m, r) /\ r # 0 /\ e \in Nat /\ k \in Nat \ {0} /\ e + k = m
    /\ Wrote(mem, was, c.out, e * XTS_BLOCK, Expected(was, c))
    /\ tweaks \in [1 .. k -> Int] /\ tweaks[k] = FirstTweak(c.dir, m)
    /\ \A j \in 1 .. k - 1 : tweaks[j] = e + j - 1
    /\ y = CipherBlocks(c.dir, tweaks, XtsLoad(mem, c.in + (e * XTS_BLOCK), k * XTS_BLOCK))
    /\ kept = Len(y) - XTS_BLOCK

LastDone(c, was, m, mem, e, y, kept) ==
    /\ Wrote(XtsStore(mem, c.out + (e * XTS_BLOCK), SubSeq(y, 1, kept)),
             was, c.out, (m - 1) * XTS_BLOCK, Expected(was, c))
    /\ SubSeq(y, kept + 1, Len(y)) = Carried(c.dir, Given(was, c), m)

LEMMA LastKept ==
  ASSUME NEW S, NEW c, NEW was, NEW m, NEW r, NEW mem, NEW e, NEW k, NEW tweaks, NEW y, NEW kept,
         LastReady(S, c, was, m, r, mem, e, k, tweaks, y, kept)
  PROVE  LastDone(c, was, m, mem, e, y, kept)
<1> SUFFICES
      ASSUME CallOn(S, c, was, m, r), r # 0, e \in Nat, k \in Nat \ {0}, e + k = m,
             Wrote(mem, was, c.out, e * XTS_BLOCK, Expected(was, c)),
             tweaks \in [1 .. k -> Int], tweaks[k] = FirstTweak(c.dir, m),
             \A j \in 1 .. k - 1 : tweaks[j] = e + j - 1,
             y = CipherBlocks(c.dir, tweaks, XtsLoad(mem, c.in + (e * XTS_BLOCK), k * XTS_BLOCK)),
             kept = Len(y) - XTS_BLOCK
      PROVE  /\ Wrote(XtsStore(mem, c.out + (e * XTS_BLOCK), SubSeq(y, 1, kept)),
                      was, c.out, (m - 1) * XTS_BLOCK, Expected(was, c))
             /\ SubSeq(y, kept + 1, Len(y)) = Carried(c.dir, Given(was, c), m)
  BY DEF LastReady, LastDone
<1> DEFINE b == XTS_BLOCK
           p == e * b
           h == k - 1
           l == h * b
           data == Given(was, c)
           text == Expected(was, c)
           dir == c.dir
           x == XtsLoad(mem, c.in + p, k * b)
           D == Deeper(S)
           cc == Carried(dir, data, m)
<1>1. /\ b \in Nat \ {0} /\ Bytes(S) /\ dir \in Directions /\ m \in Nat /\ m # 0 /\ r \in 0 .. b - 1
      /\ c.out \in Int /\ h \in Nat /\ k = h + 1 /\ m - 1 = e + h
  BY XtsAssumption, SMTT(30) DEF CallOn, Lies
<1>2. Loaded(S, was, c, p, k * b, x)
  <2>1. e + k <= m /\ k \in Nat
    BY <1>1
  <2>2. QED
    BY <2>1, GroupReads
<1>3. data \in Seq(S) /\ SectorOf(Deeper(Deeper(S)), dir, data, m, r, text)
  BY ExpectedIs
<1>4. y = CipherBlocks(dir, tweaks, x)
  OBVIOUS
<1>5. /\ x \in Seq(S) /\ Len(x) = k * b
      /\ \A i \in 1 .. k * b : x[i] = data[p + i]
  BY <1>2 DEF Loaded
<1> HIDE DEF x, data, text, dir, D, cc
<1>6. CiphersOf(S, dir, tweaks, x, k, y)
  BY <1>1, <1>4, <1>5, CiphersAre DEF b
<1>7. ASSUME NEW d \in 0 .. h PROVE BlockAt(x, d) = BlockAt(data, e + d)
  <2>1. ASSUME NEW i \in 1 .. b PROVE x[d * b + i] = data[(e + d) * b + i]
    <3>1. d * b + i \in 1 .. k * b
      <4>1. d \in 0 .. k - 1
        BY <1>1
      <4>2. QED
        BY <1>1, <4>1, InBlocks
    <3>2. (e + d) * b + i = p + (d * b + i)
      <4>1. (e + d) * b = p + d * b /\ p \in Nat /\ d * b \in Nat
        BY <1>1
      <4>2. QED
        BY <1>1, <4>1
    <3>3. QED
      BY <1>5, <3>1, <3>2
  <2>2. QED
    BY <2>1 DEF BlockAt
<1>8. /\ l \in Nat /\ p \in Nat /\ k * b = l + b /\ l + b \in Nat
      /\ p + l = (m - 1) * b
  <2>1. k * b = l + b /\ l \in Nat /\ p \in Nat
    BY <1>1, BlocksBelow
  <2>2. (e + h) * b = p + l
    BY <1>1
  <2>3. QED
    BY <1>1, <2>1, <2>2
<1>9. y \in Seq(D) /\ Len(y) = l + b /\ kept = l
  <2>1. y \in Seq(D) /\ Len(y) = l + b
    BY <1>6, <1>8 DEF CiphersOf, D, b
  <2> HIDE DEF l
  <2>2. kept = l
    BY <1>1, <1>8, <2>1 DEF b
  <2>3. QED
    BY <2>1, <2>2
<1>10. ASSUME NEW d \in 0 .. h, NEW i \in 1 .. b
       PROVE  y[d * b + i] = CipherBlock(dir, tweaks[d + 1], BlockAt(data, e + d))[i]
  <2>1. d \in 0 .. k - 1
    BY <1>1
  <2>2. y[d * b + i] = CipherBlock(dir, tweaks[d + 1], BlockAt(x, d))[i]
    BY <1>6, <2>1 DEF CiphersOf, b
  <2>3. QED
    BY <1>7, <2>2
<1>11. ASSUME NEW i \in 1 .. l PROVE y[i] = text[p + i]
  <2>1. i \in Nat \ {0} /\ i <= h * b
    BY <1>8
  <2>2. PICK d \in Nat, f \in 1 .. b : i = d * b + f
    BY ONLY <1>1, <2>1, ByteOf
  <2>3. d < h
    BY <1>1, <2>1, <2>2, BlockAbove
  <2>4. y[i] = CipherBlock(dir, e + d, BlockAt(data, e + d))[f]
    <3>1. d \in 0 .. h /\ d + 1 \in 1 .. k - 1 /\ e + (d + 1) - 1 = e + d
      BY <1>1, <2>3
    <3>2. tweaks[d + 1] = e + d
      BY <3>1
    <3>3. QED
      BY <1>10, <2>2, <3>1, <3>2
  <2>5. text[(e + d) * b + f] = CipherBlock(dir, e + d, BlockAt(data, e + d))[f]
    <3> DEFINE g == e + d
    <3>1. g \in 0 .. Alone(m, r) - 1
      BY <1>1, <2>3 DEF Alone
    <3> HIDE DEF g
    <3>2. text[g * b + f] = CipherBlock(dir, g, BlockAt(data, g))[f]
      BY <1>3, <3>1 DEF SectorOf, b
    <3>3. QED
      BY <3>2 DEF g
  <2>6. (e + d) * b + f = p + i
    <3>1. (e + d) * b = p + d * b /\ d * b \in Nat
      BY <1>1
    <3>2. QED
      BY <1>8, <2>2, <3>1
  <2>7. QED
    BY <2>4, <2>5, <2>6
<1>12. Wrote(mem, was, c.out, p, text)
  BY DEF text, b
<1> DEFINE chunk == SubSeq(y, 1, l)
           state == SubSeq(y, l + 1, l + b)
<1> HIDE DEF p
<1>13. Wrote(XtsStore(mem, c.out + p, chunk), was, c.out, p + l, text)
  <2> HIDE DEF l
  <2>1. Len(chunk) = l /\ \A i \in 1 .. l : chunk[i] = y[i]
    <3>1. l <= Len(y)
      BY <1>1, <1>8, <1>9
    <3>2. QED
      BY <1>8, <1>9, <3>1, StartIs
  <2> HIDE DEF chunk
  <2>2. \A i \in 1 .. l : chunk[i] = text[p + i]
    BY <1>11, <2>1
  <2>3. QED
    BY <1>1, <1>8, <1>12, <2>1, <2>2, WroteMore
<1>14. state = cc
  <2>1. cc \in XBlocks(D)
    <3>1. FirstTweak(dir, m) \in Int
      BY <1>1 DEF FirstTweak
    <3>2. BlockAt(data, m - 1) \in XBlocks(S)
      <4>1. m * b <= Len(data)
        <5>1. Len(data) = m * b + r
          BY ExpectedIs DEF data, CallOn, b
        <5>2. m * b \in Nat
          BY <1>1
        <5>3. QED
          BY <1>1, <5>1, <5>2
      <4>2. QED
        BY <1>1, <1>3, <4>1, BlockAtIs DEF b
    <3>3. QED
      BY <1>1, <3>1, <3>2, CipherIn DEF cc, Carried, D
  <2>2. ASSUME NEW i \in 1 .. b PROVE y[l + i] = cc[i]
    <3>1. h \in 0 .. h /\ tweaks[h + 1] = FirstTweak(dir, m) /\ e + h = m - 1
      BY <1>1 DEF dir
    <3>2. y[h * b + i] = CipherBlock(dir, tweaks[h + 1], BlockAt(data, e + h))[i]
      BY <1>10, <3>1
    <3>3. QED
      BY <3>1, <3>2 DEF cc, Carried
  <2> HIDE DEF l
  <2>3. state \in Seq(D) /\ Len(state) = b /\ \A i \in 1 .. b : state[i] = y[l + i]
    <3> DEFINE f == l + b
    <3>1. f \in Nat /\ l <= f /\ f <= Len(y) /\ f - l = b
      BY <1>1, <1>8, <1>9
    <3> HIDE DEF f
    <3>11. y \in Seq(D) /\ l \in Nat /\ f \in Nat /\ l <= f /\ f <= Len(y)
      BY <1>8, <1>9, <3>1
    <3>2. /\ SubSeq(y, l + 1, f) \in Seq(D) /\ Len(SubSeq(y, l + 1, f)) = f - l
          /\ \A i \in 1 .. f - l : SubSeq(y, l + 1, f)[i] = y[l + i]
      BY ONLY <3>11, PartIs
    <3>3. QED
      BY <3>1, <3>2 DEF f
  <2> HIDE DEF state
  <2>4. state = [i \in 1 .. b |-> state[i]]
    BY <1>1, <2>3, SeqIsBlock
  <2>5. cc = [i \in 1 .. b |-> cc[i]]
    BY <2>1 DEF XBlocks, b
  <2>6. \A i \in 1 .. b : state[i] = cc[i]
    BY <2>2, <2>3
  <2>7. [i \in 1 .. b |-> state[i]] = [i \in 1 .. b |-> cc[i]]
    BY <2>6
  <2>8. QED
    BY <2>4, <2>5, <2>7
<1> HIDE DEF l
<1>15. kept = l /\ Len(y) = l + b
  BY <1>9
<1>16. SubSeq(y, kept + 1, Len(y)) = cc /\ SubSeq(y, 1, kept) = chunk
  BY <1>14, <1>15
<1> HIDE DEF chunk
<1>17. QED
  BY <1>8, <1>13, <1>16 DEF p, text, cc, dir, data, b
(* Stealing.  What a cell holds when both stores are done.                 *)
LEMMA StealWrites ==
  ASSUME NEW S, NEW c, NEW was, NEW m, NEW r, CallOn(S, c, was, m, r), r # 0,
         NEW mem, NEW last, last = (m - 1) * XTS_BLOCK,
         Wrote(mem, was, c.out, last, Expected(was, c)),
         NEW state, state = Carried(c.dir, Given(was, c), m),
         NEW spare, spare = SecondTweak(c.dir, m),
         NEW loaded, loaded = XtsLoad(mem, c.in + last + r, XTS_BLOCK),
         NEW moved, moved = XtsStore(mem, c.out + last + r, MovedUp(state, r))
  PROVE  Wrote(XtsStore(moved, c.out + last,
                        CipherBlock(c.dir, spare, StolenBlock(state, loaded, r))),
               was, c.out, c.n, Expected(was, c))
<1> DEFINE b == XTS_BLOCK
           n == c.n
           o == c.out
           data == Given(was, c)
           text == Expected(was, c)
           dir == c.dir
           D == Deeper(S)
           refilled == Refilled(dir, data, m, r)
           z == CipherBlock(dir, spare, refilled)
<1>1. /\ b \in Nat \ {0} /\ Bytes(S) /\ dir \in Directions /\ m \in Nat \ {0} /\ r \in 1 .. b - 1
      /\ o \in Int /\ c.in \in Nat /\ n = m * b + r /\ Lies(c) /\ was \in [1 .. XtsMemory -> S]
      /\ n \in Nat
  <2>1. b \in Nat \ {0}
    BY XtsAssumption
  <2>2. /\ Bytes(S) /\ dir \in Directions /\ m \in Nat \ {0} /\ r \in 0 .. b - 1
        /\ n = m * b + r /\ Lies(c) /\ was \in [1 .. XtsMemory -> S]
    BY DEF CallOn
  <2>3. o \in Int /\ c.in \in Nat /\ n \in Nat
    BY <2>2 DEF Lies
  <2> HIDE DEF b, o, n, dir
  <2>4. r \in 1 .. b - 1
    BY <2>1, <2>2
  <2>5. QED
    BY <2>1, <2>2, <2>3, <2>4
<1>2. last \in Nat /\ m * b = last + b /\ n = last + b + r
  <2> DEFINE l == m - 1
  <2>1. l \in Nat /\ m = l + 1 /\ last = l * b
    BY <1>1
  <2> HIDE DEF l, b
  <2>2. (l + 1) * b = l * b + b /\ l * b \in Nat
    BY <1>1, <2>1
  <2>3. m * b = last + b /\ last \in Nat
    BY <2>1, <2>2
  <2>4. QED
    BY <1>1, <2>3
<1>3. /\ data \in Seq(S) /\ Len(data) = n
      /\ SectorOf(Deeper(D), dir, data, m, r, text)
  BY ExpectedIs
<1>4. Loaded(S, was, c, last + r, b, loaded)
  <2> DEFINE p == last + r
  <2>1. p \in Nat /\ last <= p /\ p + b <= c.n /\ c.in + p = c.in + last + r
    BY <1>1, <1>2, SMTT(30)
  <2> HIDE DEF p
  <2>2. Loaded(S, was, c, p, b, XtsLoad(mem, c.in + p, b))
    BY <1>1, <1>2, <2>1, LoadIs
  <2>3. QED
    BY <2>1, <2>2 DEF p
<1>5. \A i \in 1 .. b : loaded[i] = data[last + r + i]
  BY <1>4 DEF Loaded
<1>6. StolenBlock(state, loaded, r) = refilled
  <2>1. ASSUME NEW i \in 1 .. b, i <= r PROVE loaded[(b - r) + i] = data[m * b + i]
    <3>1. (b - r) + i \in 1 .. b /\ last + r + ((b - r) + i) = m * b + i
      BY <1>1, <1>2, <2>1
    <3>2. QED
      BY <1>5, <3>1
  <2>2. ASSUME NEW i \in 1 .. b
        PROVE  (IF i <= r THEN loaded[(b - r) + i] ELSE state[i])
                    = (IF i <= r THEN data[m * b + i] ELSE Carried(dir, data, m)[i])
    BY <2>1
  <2>3. QED
    BY <2>2 DEF StolenBlock, Refilled
<1>7. Len(z) = b
  <2>1. Carried(dir, data, m) \in XBlocks(D)
    <3>1. FirstTweak(dir, m) \in Int
      BY <1>1 DEF FirstTweak
    <3>2. BlockAt(data, m - 1) \in XBlocks(S)
      <4>1. m * b <= Len(data)
        BY <1>1, <1>2, <1>3
      <4>2. QED
        BY <1>1, <1>3, <4>1, BlockAtIs
    <3>3. QED
      BY <1>1, <3>1, <3>2, CipherIn DEF Carried
  <2>2. refilled \in XBlocks(D)
    <3> DEFINE cc == Carried(dir, data, m)
    <3>1. \A i \in 1 .. b : cc[i] \in D
      BY <2>1 DEF XBlocks
    <3>2. ASSUME NEW i \in 1 .. b, i <= r PROVE data[m * b + i] \in D
      <4>1. m * b + i \in 1 .. n
        BY <1>1, <1>2, <3>2
      <4>2. data[m * b + i] \in S
        BY <1>3, <4>1
      <4>3. QED
        BY <1>1, <4>2, DeeperBytes
    <3> HIDE DEF cc
    <3>3. \A i \in 1 .. b : (IF i <= r THEN data[m * b + i] ELSE cc[i]) \in D
      BY <3>1, <3>2
    <3>4. QED
      BY <3>3 DEF Refilled, XBlocks, cc
  <2>3. spare \in Int
    BY <1>1 DEF SecondTweak
  <2>4. z \in XBlocks(Deeper(D))
    <3>1. Bytes(D)
      BY <1>1, DeeperBytes
    <3> HIDE DEF refilled, D
    <3>2. QED
      BY <1>1, <2>2, <2>3, <3>1, CipherIn
  <2> HIDE DEF z
  <2>5. QED
    BY <1>1, <2>4, BlockIsSeq DEF XBlocks
<1>8. /\ \A i \in 1 .. b : text[last + i] = z[i]
      /\ \A i \in 1 .. r : text[m * b + i] = state[i]
  <2>1. \A i \in 1 .. b : text[(m - 1) * b + i] = CipherBlock(dir, SecondTweak(dir, m), refilled)[i]
    BY <1>3 DEF SectorOf
  <2>2. \A i \in 1 .. r : text[m * b + i] = Carried(dir, data, m)[i]
    BY <1>3 DEF SectorOf
  <2>3. QED
    BY <2>1, <2>2
<1> DEFINE q == o + last + r
           u == MovedUp(state, r)
           w == o + last
<1>9. /\ Len(u) = b
      /\ \A i \in 1 .. b : i > b - r => u[i] = state[i - (b - r)]
  BY <1>1 DEF MovedUp
<1>10. /\ DOMAIN mem = 1 .. XtsMemory
       /\ \A a \in 1 .. XtsMemory : mem[a] = IF a \in o .. o + last - 1 THEN text[a - o + 1] ELSE was[a]
  BY DEF Wrote
<1> DEFINE final == XtsStore(moved, w, z)
<1> HIDE DEF z, u, text, data, dir
<1>11. /\ moved = [a \in 1 .. XtsMemory |-> IF a \in q .. q + b - 1 THEN u[a - q + 1] ELSE mem[a]]
       /\ final = [a \in 1 .. XtsMemory |-> IF a \in w .. w + b - 1 THEN z[a - w + 1] ELSE moved[a]]
  <2>1. moved = [a \in 1 .. XtsMemory |-> IF a \in q .. q + b - 1 THEN u[a - q + 1] ELSE mem[a]]
    BY <1>9, <1>10 DEF XtsStore, u
  <2>2. DOMAIN moved = 1 .. XtsMemory
    BY <2>1
  <2>3. QED
    BY <1>7, <2>1, <2>2 DEF XtsStore
<1>12. q = o + last + r /\ w = o + last /\ q \in Int /\ w \in Int
  BY <1>1, <1>2
<1> DEFINE mb == m * b
<1>120. /\ b \in Nat \ {0} /\ r \in 1 .. b - 1 /\ o \in Int /\ last \in Nat
        /\ n = last + b + r /\ mb = last + b /\ w = o + last /\ q = o + last + r
  BY <1>1, <1>2, <1>12
<1> HIDE DEF final, q, w, b, n, o, mb
<1>13. ASSUME NEW a \in 1 .. XtsMemory
       PROVE  final[a] = IF a \in o .. o + n - 1 THEN text[a - o + 1] ELSE was[a]
  <2>0. a \in Int
    BY XtsAssumption
  <2>1. CASE a \in w .. w + b - 1
    <3>1. a - w + 1 \in 1 .. b /\ last + (a - w + 1) = a - o + 1 /\ a \in o .. o + n - 1
      BY ONLY <1>120, <2>0, <2>1
    <3>2. QED
      BY <1>8, <1>11, <2>1, <3>1
  <2>2. CASE a \in w + b .. q + b - 1
    <3> DEFINE i == a - q + 1
               j == a - (w + b) + 1
    <3>1. /\ i \in 1 .. b /\ i > b - r /\ i - (b - r) = j /\ j \in 1 .. r
          /\ mb + j = a - o + 1 /\ a \in o .. o + n - 1
          /\ a \notin w .. w + b - 1 /\ a \in q .. q + b - 1
      BY ONLY <1>120, <2>0, <2>2
    <3>2. final[a] = u[i]
      BY <1>11, <3>1
    <3> HIDE DEF i, j
    <3>3. u[i] = state[j]
      BY <1>9, <3>1
    <3>4. text[a - o + 1] = state[j]
      BY <1>8, <3>1 DEF mb
    <3>5. QED
      BY <3>1, <3>2, <3>3, <3>4
  <2>3. CASE a \notin w .. w + b - 1 /\ a \notin w + b .. q + b - 1
    <3>1. /\ a \notin w .. w + b - 1 /\ a \notin q .. q + b - 1
          /\ a \in o .. o + n - 1 <=> a \in o .. o + last - 1
      BY ONLY <1>120, <2>0, <2>3
    <3>2. final[a] = mem[a]
      BY <1>11, <3>1
    <3>3. QED
      BY <1>10, <3>1, <3>2
  <2>4. QED
    BY <2>1, <2>2, <2>3
<1>14. final = [a \in 1 .. XtsMemory |-> IF a \in o .. o + n - 1 THEN text[a - o + 1] ELSE was[a]]
  <2>1. final = [a \in 1 .. XtsMemory |-> final[a]]
    BY <1>11
  <2>2. [a \in 1 .. XtsMemory |-> final[a]]
            = [a \in 1 .. XtsMemory |-> IF a \in o .. o + n - 1 THEN text[a - o + 1] ELSE was[a]]
    BY <1>13
  <2>3. QED
    BY <2>1, <2>2
<1>15. Wrote(final, was, o, n, text)
  BY <1>14 DEF Wrote
<1>16. QED
  BY <1>6, <1>15 DEF final, w, z, text, dir, data, o, n
(* Where a call stands at each of its labels.                              *)
XtsShape(c) ==
    c = [pc |-> c.pc, dir |-> c.dir, turn |-> c.turn, n |-> c.n, in |-> c.in, out |-> c.out,
         left |-> c.left, done |-> c.done, spare |-> c.spare, state |-> c.state]

XtsCallOf(S, c, was) ==
    /\ XtsShape(c) /\ Lies(c) /\ c.dir \in Directions /\ c.turn \in {1, 2}
    /\ c.pc \in {"call", "main", "last", "steal", "ret"}
    /\ Bytes(S) /\ was \in [1 .. XtsMemory -> S]

WholeOf(c) == c.n \div XTS_BLOCK
RestOf(c)  == c.n % XTS_BLOCK

AtCall(c, mem, was) == c.done = 0 /\ c.left = WholeOf(c) /\ mem = was

Between(c, mem, was) ==
    /\ c.done \in Nat /\ c.left \in Nat /\ c.done + c.left = WholeOf(c)
    /\ Wrote(mem, was, c.out, c.done * XTS_BLOCK, Expected(was, c))

AtMain(c) == \E q \in Nat \ {0, 1} : c.left = q * XTS_GROUP

AtSteal(c, mem, was) ==
    /\ WholeOf(c) # 0 /\ RestOf(c) # 0 /\ c.done = WholeOf(c)
    /\ c.spare = SecondTweak(c.dir, WholeOf(c))
    /\ c.state = Carried(c.dir, Given(was, c), WholeOf(c))
    /\ Wrote(mem, was, c.out, (WholeOf(c) - 1) * XTS_BLOCK, Expected(was, c))

AtRet(c, mem, was) ==
    IF c.n < XTS_BLOCK THEN mem = was ELSE Wrote(mem, was, c.out, c.n, Expected(was, c))

XtsStands(S, c, mem, was) ==
    /\ XtsCallOf(S, c, was)
    /\ c.pc = "call"  => AtCall(c, mem, was)
    /\ c.pc = "main"  => Between(c, mem, was) /\ AtMain(c)
    /\ c.pc = "last"  => Between(c, mem, was) /\ c.left # 0
    /\ c.pc = "steal" => AtSteal(c, mem, was)
    /\ c.pc = "ret"   => AtRet(c, mem, was)

(* The bytes in play grow deeper from call to call.                        *)
XtsInv == \E S : XtsStands(S, xts, xtsMem, xtsWas)

(* Outputs apart from the input, in place, or that begin below it.         *)
XtsApart == \A s \in XtsShifts : s <= 0 \/ s >= XtsMaxLen

LEMMA XtsPart == Init /\ [][Next]_vars => XtsInit /\ [][XtsNext]_xtsVars
<1>1. Init => XtsInit
  BY DEF Init
<1>2. [Next]_vars => [XtsNext]_xtsVars
  BY DEF Next, vars, xtsVars, BaseStep, MhStep, GcmStep, XtsStep, CbcStep, RollingStep,
         DispatchStep, ApiStep
<1>3. QED
  BY <1>1, <1>2, PTL

LEMMA PartsOf ==
  ASSUME NEW S, NEW c, NEW was, XtsCallOf(S, c, was)
  PROVE  /\ WholeOf(c) \in Nat
         /\ RestOf(c) \in 0 .. XTS_BLOCK - 1
         /\ c.n = WholeOf(c) * XTS_BLOCK + RestOf(c)
         /\ WholeOf(c) = 0 <=> c.n < XTS_BLOCK
         /\ WholeOf(c) # 0 => CallOn(S, c, was, WholeOf(c), RestOf(c))
<1> DEFINE b == XTS_BLOCK
           n == c.n
           m == WholeOf(c)
           r == RestOf(c)
<1>1. b \in Nat \ {0} /\ n \in Nat
  BY XtsAssumption DEF XtsCallOf, Lies
<1>2. m \in Nat /\ r \in 0 .. b - 1 /\ n = m * b + r
  BY <1>1, DivisionOf DEF WholeOf, RestOf
<1> HIDE DEF b, n, m, r
<1>3. m = 0 <=> n < b
  <2>1. CASE m = 0
    BY <1>1, <1>2, <2>1
  <2>2. CASE m # 0
    <3> DEFINE l == m - 1
    <3>1. l \in Nat /\ m = l + 1
      BY <1>2, <2>2
    <3> HIDE DEF l
    <3>2. m * b = l * b + b /\ l * b \in Nat
      BY <1>1, <3>1
    <3>3. n >= b
      BY <1>1, <1>2, <3>2
    <3>4. QED
      BY <1>1, <2>2, <3>3
  <2>3. QED
    BY <2>1, <2>2
<1>4. m # 0 => CallOn(S, c, was, m, r)
  BY <1>2 DEF XtsCallOf, CallOn, b, n
<1>5. QED
  BY <1>2, <1>3, <1>4 DEF b, n, m, r

(* Calls with the same arguments.                                          *)
XtsAlike(c, d) == d.in = c.in /\ d.out = c.out /\ d.n = c.n /\ d.dir = c.dir /\ d.turn = c.turn

LEMMA XtsAlikeIs ==
  ASSUME NEW S, NEW c, NEW d, NEW was, XtsCallOf(S, c, was), XtsAlike(c, d), XtsShape(d),
         d.pc \in {"call", "main", "last", "steal", "ret"}
  PROVE  /\ XtsCallOf(S, d, was)
         /\ Given(was, d) = Given(was, c) /\ Expected(was, d) = Expected(was, c)
         /\ WholeOf(d) = WholeOf(c) /\ RestOf(d) = RestOf(c)
<1>1. Given(was, d) = Given(was, c)
  BY DEF XtsAlike, Given
<1>2. Expected(was, d) = Expected(was, c)
  BY <1>1 DEF XtsAlike, Expected
<1>3. WholeOf(d) = WholeOf(c) /\ RestOf(d) = RestOf(c)
  BY DEF XtsAlike, WholeOf, RestOf
<1>4. Lies(d)
  BY DEF XtsAlike, XtsCallOf, Lies
<1>5. XtsCallOf(S, d, was)
  BY <1>4 DEF XtsAlike, XtsCallOf
<1>6. QED
  BY <1>1, <1>2, <1>3, <1>5

(* A new call, on bytes of S.                                              *)
LEMMA CalledStands ==
  ASSUME NEW S, Bytes(S), NEW was \in [1 .. XtsMemory -> S], NEW dir \in Directions,
         NEW turn \in {1, 2}, NEW n \in Nat, NEW in \in Nat \ {0}, NEW out \in Nat \ {0},
         in + n - 1 <= XtsMemory, out + n - 1 <= XtsMemory,
         out <= in \/ out - in >= n
  PROVE  XtsStands(S, Called(dir, turn, n, in, out), was, was)
<1> DEFINE c == Called(dir, turn, n, in, out)
<1>1. /\ c.pc = "call" /\ c.dir = dir /\ c.turn = turn /\ c.n = n /\ c.in = in /\ c.out = out
      /\ c.left = n \div XTS_BLOCK /\ c.done = 0 /\ XtsShape(c)
  BY DEF Called, XtsShape
<1> HIDE DEF c
<1>2. Lies(c)
  BY <1>1 DEF Lies
<1>3. XtsCallOf(S, c, was)
  BY <1>1, <1>2 DEF XtsCallOf
<1>4. AtCall(c, was, was)
  BY <1>1 DEF AtCall, WholeOf
<1>5. QED
  BY <1>1, <1>3, <1>4 DEF XtsStands, c

LEMMA XtsCallKeeps ==
  ASSUME XtsApart, NEW dir \in {"enc", "dec"}, NEW n \in 0 .. XtsMaxLen, NEW s \in XtsShifts,
         XtsCall(dir, n, s)
  PROVE  XtsInv'
<1> DEFINE in  == IF s < 0 THEN 1 - s ELSE 1
           out == in + s
           S   == {<<"in", a>> : a \in 1 .. XtsMemory}
<1>1. /\ s \in Int /\ n \in Nat /\ n <= XtsMaxLen /\ XtsMaxLen \in Nat /\ XtsMemory \in Nat
      /\ s <= 0 \/ s >= XtsMaxLen
      /\ XtsMaxLen + (IF s < 0 THEN -s ELSE s) <= XtsMemory
  BY XtsAssumption DEF XtsApart
<1>2. /\ in \in Nat \ {0} /\ out \in Nat \ {0}
      /\ in + n - 1 <= XtsMemory /\ out + n - 1 <= XtsMemory
      /\ out <= in \/ out - in >= n
  BY <1>1
<1>3. xts' = Called(dir, 1, n, in, out) /\ xtsMem' = Filled /\ xtsWas' = Filled
  BY DEF XtsCall
<1> HIDE DEF in, out
<1>4. Bytes(S)
  BY DEF Bytes, Directions
<1>5. Filled \in [1 .. XtsMemory -> S]
  BY DEF Filled
<1> HIDE DEF S
<1>6. XtsStands(S, Called(dir, 1, n, in, out), Filled, Filled)
  BY <1>1, <1>2, <1>4, <1>5, CalledStands DEF Directions
<1>7. XtsStands(S, xts', xtsMem', xtsWas')
  BY <1>3, <1>6
<1>8. QED
  BY <1>7 DEF XtsInv

(* What a call leaves behind is bytes again, deeper ones.                  *)
LEMMA CallBackKeeps ==
  ASSUME NEW S, XtsStands(S, xts, xtsMem, xtsWas), XtsCallBack
  PROVE  XtsInv'
<1> DEFINE c == xts
           E == Deeper(Deeper(S))
           m == WholeOf(c)
           r == RestOf(c)
<1>1. XtsCallOf(S, c, xtsWas) /\ c.pc = "ret" /\ AtRet(c, xtsMem, xtsWas)
  BY DEF XtsStands, XtsCallBack
<1>2. Bytes(E) /\ S \subseteq E
  BY <1>1, DeeperBytes DEF XtsCallOf
<1> HIDE DEF E
<1>3. /\ Lies(c) /\ c.dir \in Directions /\ xtsWas \in [1 .. XtsMemory -> S]
      /\ c.out \in Nat \ {0} /\ c.n \in Nat /\ c.out + c.n - 1 <= XtsMemory
  BY <1>1 DEF XtsCallOf, Lies
<1>4. xtsMem \in [1 .. XtsMemory -> E]
  <2>1. xtsWas \in [1 .. XtsMemory -> E]
    BY <1>2, <1>3
  <2>2. CASE c.n < XTS_BLOCK
    BY <1>1, <2>1, <2>2 DEF AtRet
  <2>3. CASE ~(c.n < XTS_BLOCK)
    <3> DEFINE t == Expected(xtsWas, c)
               n == c.n
               o == c.out
    <3>1. CallOn(S, c, xtsWas, m, r) /\ n = m * XTS_BLOCK + r
      BY <1>1, <2>3, PartsOf
    <3>2. SectorOf(E, c.dir, Given(xtsWas, c), m, r, t)
      BY <3>1, ExpectedIs DEF E
    <3> HIDE DEF t
    <3>3. t \in Seq(E) /\ Len(t) = n
      BY <3>1, <3>2 DEF SectorOf
    <3>4. Wrote(xtsMem, xtsWas, o, n, t)
      BY <1>1, <2>3 DEF AtRet, t
    <3>5. n \in Nat /\ o \in Nat
      BY <1>3
    <3> HIDE DEF n, o
    <3>6. ASSUME NEW a \in 1 .. XtsMemory
          PROVE  (IF a \in o .. o + n - 1 THEN t[a - o + 1] ELSE xtsWas[a]) \in E
      <4>1. CASE a \in o .. o + n - 1
        <5>1. a - o + 1 \in 1 .. n
          BY <3>5, <4>1
        <5>2. t[a - o + 1] \in E
          BY <3>3, <5>1
        <5>3. QED
          BY <4>1, <5>2
      <4>2. CASE a \notin o .. o + n - 1
        BY <2>1, <4>2
      <4>3. QED
        BY <4>1, <4>2
    <3>7. QED
      BY <3>4, <3>6 DEF Wrote
  <2>4. QED
    BY <2>2, <2>3
<1>5. Opposite(c.dir) \in Directions
  BY DEF Opposite, Directions
<1>6. xts' = Called(Opposite(c.dir), 2, c.n, c.out, c.out) /\ xtsWas' = xtsMem /\ xtsMem' = xtsMem
  BY DEF XtsCallBack
<1>7. XtsStands(E, Called(Opposite(c.dir), 2, c.n, c.out, c.out), xtsMem, xtsMem)
  <2> DEFINE dir == Opposite(c.dir)
             o == c.out
             n == c.n
             two == 2
  <2>1. /\ dir \in Directions /\ o \in Nat \ {0} /\ n \in Nat /\ o + n - 1 <= XtsMemory /\ o <= o
        /\ two \in {1, 2}
    BY <1>3, <1>5
  <2> HIDE DEF dir, o, n, two
  <2>2. XtsStands(E, Called(dir, two, n, o, o), xtsMem, xtsMem)
    BY <1>2, <1>4, <2>1, CalledStands
  <2>3. QED
    BY <2>2 DEF dir, o, n, two
<1>8. XtsStands(E, xts', xtsMem', xtsWas')
  BY <1>6, <1>7
<1>9. QED
  BY <1>8 DEF XtsInv
(* A group leaves the call between two groups again.                       *)
LEMMA GroupKeeps ==
  ASSUME NEW S, XtsCallOf(S, xts, xtsWas), Between(xts, xtsMem, xtsWas),
         WholeOf(xts) # 0, NEW k \in Nat, xts.done + k <= Alone(WholeOf(xts), RestOf(xts)),
         NEW next \in {"last", "main"},
         next = "last" => xts.left - k # 0,
         next = "main" => \E q \in Nat \ {0, 1} : xts.left - k = q * XTS_GROUP,
         Group(k, next), xtsWas' = xtsWas
  PROVE  XtsInv'
<1> DEFINE c == xts
           d == xts'
           was == xtsWas
           m == WholeOf(c)
           r == RestOf(c)
<1>1. CallOn(S, c, was, m, r) /\ m \in Nat /\ r \in 0 .. XTS_BLOCK - 1
  BY PartsOf
<1>2. XtsShape(c) /\ c.done \in Nat /\ c.left \in Nat /\ c.done + c.left = m
  BY DEF XtsCallOf, Between
<1>3. d = [c EXCEPT !.pc = next, !.done = @ + k, !.left = @ - k]
  BY DEF Group
<1> HIDE DEF d
<1>4. /\ XtsAlike(c, d) /\ XtsShape(d) /\ d.pc = next
      /\ d.done = c.done + k /\ d.left = c.left - k
  BY <1>2, <1>3 DEF XtsShape, XtsAlike
<1>5. /\ XtsCallOf(S, d, was) /\ Expected(was, d) = Expected(was, c) /\ WholeOf(d) = m
  <2>1. d.pc \in {"call", "main", "last", "steal", "ret"}
    BY <1>4
  <2>2. QED
    BY <1>4, <2>1, XtsAlikeIs
<1>6. d.done + d.left = m /\ d.done \in Nat /\ d.left \in Nat
  <2>1. k <= c.left
    BY <1>1, <1>2 DEF Alone
  <2>2. QED
    BY <1>1, <1>2, <1>4, <2>1
<1>7. Wrote(xtsMem', was, d.out, d.done * XTS_BLOCK, Expected(was, d))
  <2> DEFINE e == c.done
  <2>1. Wrote(xtsMem, was, c.out, e * XTS_BLOCK, Expected(was, c)) /\ e \in Nat
    BY <1>2 DEF Between
  <2>2. xtsMem' = XtsStore(xtsMem, c.out + (e * XTS_BLOCK),
                       CipherBlocks(c.dir, InTurn(e, k),
                                    XtsLoad(xtsMem, c.in + (e * XTS_BLOCK), k * XTS_BLOCK)))
    BY DEF Group
  <2>3. e + k <= Alone(m, r)
    OBVIOUS
  <2> HIDE DEF e
  <2>4. Wrote(xtsMem', was, c.out, (e + k) * XTS_BLOCK, Expected(was, c))
    BY <1>1, <2>1, <2>2, <2>3, GroupWrites
  <2>5. QED
    BY <1>4, <1>5, <2>4 DEF XtsAlike, e
<1>8. Between(d, xtsMem', was)
  BY <1>5, <1>6, <1>7 DEF Between
<1>9. d.pc = "last" => d.left # 0
  BY <1>4
<1>10. d.pc = "main" => AtMain(d)
  BY <1>4 DEF AtMain
<1>11. XtsStands(S, d, xtsMem', was)
  BY <1>4, <1>5, <1>8, <1>9, <1>10 DEF XtsStands
<1>12. QED
  BY <1>11 DEF XtsInv, d

(* The group before the main loop leaves a multiple of eight blocks.       *)
LEMMA InitialLeaves ==
  ASSUME NEW w \in Nat, NEW g \in Nat \ {0}, w >= g, NEW k, k = w % g
  PROVE  /\ k \in Nat /\ k < w
         /\ w - k <= g => w - k # 0
         /\ ~(w - k <= g) => \E q \in Nat \ {0, 1} : w - k = q * g
<1> DEFINE q == w \div g
<1>1. k \in 0 .. g - 1 /\ q \in Nat /\ w = q * g + k
  BY DivisionOf
<1> HIDE DEF q
<1>2. q * g \in Nat /\ w - k = q * g /\ k < w
  BY <1>1
<1>3. ASSUME ~(w - k <= g) PROVE \E p \in Nat \ {0, 1} : w - k = p * g
  <2>1. q \in Nat \ {0, 1}
    <3>1. ~(q * g <= g)
      BY <1>2, <1>3
    <3>2. QED
      BY <1>1, <3>1
  <2>2. QED
    BY <1>2, <2>1
<1>4. k \in Nat /\ k < w /\ w - k # 0
  BY <1>1, <1>2
<1>5. QED
  BY ONLY <1>3, <1>4

LEMMA XtsInitialKeeps ==
  ASSUME NEW S, XtsStands(S, xts, xtsMem, xtsWas), XtsInitial
  PROVE  XtsInv'
<1> DEFINE c == xts
           d == xts'
           was == xtsWas
           m == WholeOf(c)
           r == RestOf(c)
<1>1. /\ c.pc = "call" /\ XtsCallOf(S, c, was) /\ AtCall(c, xtsMem, was) /\ xtsWas' = was
  BY DEF XtsStands, XtsInitial
<1>2. /\ m \in Nat /\ r \in 0 .. XTS_BLOCK - 1
      /\ m = 0 <=> c.n < XTS_BLOCK
      /\ m # 0 => CallOn(S, c, was, m, r)
  BY <1>1, PartsOf
<1>3. m = Whole /\ XtsShape(c) /\ c.done = 0 /\ c.left = m /\ xtsMem = was
  BY <1>1 DEF Whole, WholeOf, AtCall, XtsCallOf
<1>4. was \in [1 .. XtsMemory -> S] /\ c.out \in Int
  BY <1>1 DEF XtsCallOf, Lies
<1>5. Between(c, xtsMem, was)
  <2> DEFINE z == c.done * XTS_BLOCK
  <2>1. z = 0
    BY <1>3, XtsAssumption
  <2> HIDE DEF z
  <2>2. Wrote(was, was, c.out, 0, Expected(was, c))
    BY <1>4, WroteNone
  <2>3. Wrote(xtsMem, was, c.out, z, Expected(was, c))
    BY <1>3, <2>1, <2>2
  <2>4. QED
    BY <1>2, <1>3, <2>3 DEF Between, z
<1>6. CASE c.n < XTS_BLOCK /\ xts' = [xts EXCEPT !.pc = "ret"] /\ UNCHANGED xtsMem
  <2> HIDE DEF d
  <2>1. XtsAlike(c, d) /\ XtsShape(d) /\ d.pc = "ret"
    BY <1>3, <1>6 DEF XtsShape, XtsAlike, d
  <2>2. XtsCallOf(S, d, was)
    BY <1>1, <2>1, XtsAlikeIs
  <2>3. AtRet(d, xtsMem', was)
    BY <1>3, <1>6, <2>1 DEF AtRet, XtsAlike
  <2>4. XtsStands(S, d, xtsMem', was)
    BY <2>1, <2>2, <2>3 DEF XtsStands
  <2>5. QED
    BY <1>1, <2>4 DEF XtsInv, d
<1>7. CASE Whole \in 1 .. XTS_GROUP - 1 /\ xts' = [xts EXCEPT !.pc = "last"] /\ UNCHANGED xtsMem
  <2> HIDE DEF d
  <2>1. XtsAlike(c, d) /\ XtsShape(d) /\ d.pc = "last" /\ d.done = c.done /\ d.left = c.left
    BY <1>3, <1>7 DEF XtsShape, XtsAlike, d
  <2>2. XtsCallOf(S, d, was) /\ Expected(was, d) = Expected(was, c) /\ WholeOf(d) = m
    BY <1>1, <2>1, XtsAlikeIs
  <2>3. Between(d, xtsMem', was)
    BY <1>5, <1>7, <2>1, <2>2 DEF Between, XtsAlike
  <2>4. d.left # 0
    BY <1>3, <1>7, <2>1
  <2>5. XtsStands(S, d, xtsMem', was)
    BY <2>1, <2>2, <2>3, <2>4 DEF XtsStands
  <2>6. QED
    BY <1>1, <2>5 DEF XtsInv, d
<1>8. CASE Whole >= XTS_GROUP /\ \E k \in {Whole % XTS_GROUP} :
                                    Group(k, IF Whole - k <= XTS_GROUP THEN "last" ELSE "main")
  <2> DEFINE k == Whole % XTS_GROUP
             next == IF Whole - k <= XTS_GROUP THEN "last" ELSE "main"
             g == XTS_GROUP
  <2>1. g \in Nat \ {0} /\ Whole \in Nat /\ Whole >= g
    BY <1>2, <1>3, <1>8, XtsAssumption
  <2>2. /\ k \in Nat /\ k < Whole
        /\ Whole - k <= g => Whole - k # 0
        /\ ~(Whole - k <= g) => \E q \in Nat \ {0, 1} : Whole - k = q * g
    BY <2>1, InitialLeaves
  <2>3. Group(k, next)
    BY <1>8
  <2>4. next \in {"last", "main"} /\ (next = "last" <=> Whole - k <= g)
    OBVIOUS
  <2> HIDE DEF k, next
  <2>5. m # 0 /\ c.done + k <= Alone(m, r)
    BY <1>2, <1>3, <2>1, <2>2 DEF Alone
  <2>6. c.left - k = Whole - k
    BY <1>3
  <2>7. /\ next = "last" => c.left - k # 0
        /\ next = "main" => \E q \in Nat \ {0, 1} : c.left - k = q * XTS_GROUP
    BY <2>2, <2>4, <2>6
  <2>8. QED
    BY <1>1, <1>5, <2>2, <2>3, <2>4, <2>5, <2>7, GroupKeeps
<1>9. QED
  BY <1>6, <1>7, <1>8 DEF XtsInitial

LEMMA XtsMainKeeps ==
  ASSUME NEW S, XtsStands(S, xts, xtsMem, xtsWas), XtsMainLoop
  PROVE  XtsInv'
<1> DEFINE c == xts
           m == WholeOf(c)
           r == RestOf(c)
           g == XTS_GROUP
           next == IF c.left - g = g THEN "last" ELSE "main"
<1>1. /\ XtsCallOf(S, c, xtsWas) /\ Between(c, xtsMem, xtsWas) /\ AtMain(c) /\ xtsWas' = xtsWas
      /\ Group(g, next)
  BY DEF XtsStands, XtsMainLoop
<1>2. g \in Nat \ {0} /\ c.done \in Nat /\ c.done + c.left = m /\ m \in Nat
  BY <1>1, PartsOf, XtsAssumption DEF Between
<1>3. PICK q \in Nat \ {0, 1} : c.left = q * g
  BY <1>1 DEF AtMain
<1> DEFINE p == q - 1
           l == q - 2
<1>4. p \in Nat \ {0} /\ l \in Nat /\ q = p + 1 /\ p = l + 1
  OBVIOUS
<1> HIDE DEF p, l, g
<1>5. q * g = p * g + g /\ p * g = l * g + g /\ l * g \in Nat
  BY <1>2, <1>4
<1>6. c.left - g = p * g /\ p * g >= g /\ c.left \in Nat
  BY <1>2, <1>3, <1>5
<1>7. next = "last" => c.left - g # 0
  BY <1>2 DEF g
<1>8. ASSUME next = "main" PROVE \E s \in Nat \ {0, 1} : c.left - g = s * XTS_GROUP
  <2>1. p # 1
    <3>1. p * g # g
      BY <1>6, <1>8
    <3>2. QED
      BY <1>2, <3>1
  <2>2. QED
    BY <1>4, <1>6, <2>1 DEF g
<1>9. m # 0 /\ c.done + g <= Alone(m, r)
  BY <1>2, <1>5, <1>6 DEF Alone
<1>10. g \in Nat /\ next \in {"last", "main"}
  BY <1>2
<1> HIDE DEF next
<1>11. QED
  BY <1>1, <1>7, <1>8, <1>9, <1>10, GroupKeeps

(* The tweaks of the last group.                                           *)
TweaksOf(dir, e, k, r, t) ==
    /\ r = 0 => t.tweaks = InTurn(e, k)
    /\ r # 0 =>
         /\ t.tweaks \in [1 .. k -> Int] /\ t.tweaks[k] = FirstTweak(dir, e + k)
         /\ \A j \in 1 .. k - 1 : t.tweaks[j] = e + j - 1
         /\ t.spare = SecondTweak(dir, e + k)

LEMMA LastTweaksAre ==
  ASSUME NEW dir \in Directions, NEW e \in Nat, NEW k \in Nat \ {0}, NEW r \in Nat,
         NEW t, t = LastTweaks(dir, e, k, r)
  PROVE  TweaksOf(dir, e, k, r, t)
<1> SUFFICES /\ r = 0 => t.tweaks = InTurn(e, k)
             /\ r # 0 =>
                  /\ t.tweaks \in [1 .. k -> Int] /\ t.tweaks[k] = FirstTweak(dir, e + k)
                  /\ \A j \in 1 .. k - 1 : t.tweaks[j] = e + j - 1
                  /\ t.spare = SecondTweak(dir, e + k)
  BY DEF TweaksOf
<1>1. CASE r = 0
  BY <1>1 DEF LastTweaks
<1>2. CASE r # 0 /\ dir = "dec"
  <2>1. t.tweaks = [InTurn(e, k) EXCEPT ![k] = e + k] /\ t.spare = e + k - 1
    BY <1>2 DEF LastTweaks
  <2>2. InTurn(e, k) = [j \in 1 .. k |-> e + j - 1]
    BY DEF InTurn
  <2>3. t.tweaks = [j \in 1 .. k |-> IF j = k THEN e + k ELSE e + j - 1]
    BY <2>1, <2>2
  <2>4. QED
    BY <1>2, <2>1, <2>3 DEF FirstTweak, SecondTweak
<1>3. CASE r # 0 /\ dir # "dec"
  <2>1. t.tweaks = InTurn(e, k) /\ t.spare = e + k /\ dir = "enc"
    BY <1>3 DEF LastTweaks, Directions
  <2>2. t.tweaks = [j \in 1 .. k |-> e + j - 1]
    BY <2>1 DEF InTurn
  <2>3. QED
    BY <1>3, <2>1, <2>2 DEF FirstTweak, SecondTweak
<1>4. QED
  BY <1>1, <1>2, <1>3

(* The last group, its tweaks and the bytes it makes.                      *)
LastGroup(c, mem, d, memNext, t, y, kept, r) ==
    /\ memNext = XtsStore(mem, c.out + (c.done * XTS_BLOCK), SubSeq(y, 1, kept))
    /\ d = [c EXCEPT !.pc = IF r = 0 THEN "ret" ELSE "steal",
                     !.left = 0, !.done = @ + c.left, !.spare = t.spare,
                     !.state = SubSeq(y, kept + 1, Len(y))]
    /\ t = LastTweaks(c.dir, c.done, c.left, r)
    /\ y = CipherBlocks(c.dir, t.tweaks,
                        XtsLoad(mem, c.in + (c.done * XTS_BLOCK), c.left * XTS_BLOCK))
    /\ kept = IF r = 0 THEN Len(y) ELSE Len(y) - XTS_BLOCK

LEMMA LastGroupIs ==
  ASSUME XtsLast
  PROVE  \E t, y, kept : LastGroup(xts, xtsMem, xts', xtsMem', t, y, kept, Rest)
<1> DEFINE Enciphered(k, t) == CipherBlocks(xts.dir, t.tweaks,
                                 XtsLoad(xtsMem, xts.in + (xts.done * XTS_BLOCK), k * XTS_BLOCK))
           StoredOf(y) == IF Rest = 0 THEN Len(y) ELSE Len(y) - XTS_BLOCK
           Step(k, t, y, kept) ==
             /\ xtsMem' = XtsStore(xtsMem, xts.out + (xts.done * XTS_BLOCK), SubSeq(y, 1, kept))
             /\ xts' = [xts EXCEPT !.pc = IF Rest = 0 THEN "ret" ELSE "steal",
                                  !.left = 0, !.done = @ + k, !.spare = t.spare,
                                  !.state = SubSeq(y, kept + 1, Len(y))]
<1>1. \E k \in {xts.left} : \E t \in {LastTweaks(xts.dir, xts.done, k, Rest)} :
         \E y \in {Enciphered(k, t)} : \E kept \in {StoredOf(y)} : Step(k, t, y, kept)
  BY DEF XtsLast
<1> HIDE DEF Step, Enciphered, StoredOf
<1>2. PICK k \in {xts.left} : \E t \in {LastTweaks(xts.dir, xts.done, k, Rest)} :
         \E y \in {Enciphered(k, t)} : \E kept \in {StoredOf(y)} : Step(k, t, y, kept)
  BY <1>1
<1>3. PICK t \in {LastTweaks(xts.dir, xts.done, k, Rest)} :
         \E y \in {Enciphered(k, t)} : \E kept \in {StoredOf(y)} : Step(k, t, y, kept)
  BY <1>2
<1>4. PICK y \in {Enciphered(k, t)} : \E kept \in {StoredOf(y)} : Step(k, t, y, kept)
  BY <1>3
<1>5. PICK kept \in {StoredOf(y)} : Step(k, t, y, kept)
  BY <1>4
<1>6. k = xts.left /\ t = LastTweaks(xts.dir, xts.done, k, Rest) /\ y = Enciphered(k, t) /\ kept = StoredOf(y)
  OBVIOUS
<1>7. LastGroup(xts, xtsMem, xts', xtsMem', t, y, kept, Rest)
  BY <1>5, <1>6 DEF LastGroup, Step, Enciphered, StoredOf
<1>8. QED
  BY <1>7

LEMMA XtsLastKeeps ==
  ASSUME NEW S, XtsStands(S, xts, xtsMem, xtsWas), XtsLast
  PROVE  XtsInv'
<1> DEFINE c == xts
           d == xts'
           was == xtsWas
           m == WholeOf(c)
           r == RestOf(c)
           e == c.done
           k == c.left
           text == Expected(was, c)
<1>1. /\ XtsCallOf(S, c, was) /\ Between(c, xtsMem, was) /\ c.left # 0 /\ xtsWas' = was
      /\ r = Rest
  BY DEF XtsStands, XtsLast, RestOf, Rest
<1>2. /\ e \in Nat /\ k \in Nat /\ k # 0 /\ e + k = m
      /\ Wrote(xtsMem, was, c.out, e * XTS_BLOCK, text)
      /\ XtsShape(c) /\ c.dir \in Directions
  BY <1>1 DEF Between, XtsCallOf
<1>3. /\ m \in Nat /\ r \in 0 .. XTS_BLOCK - 1 /\ c.n = m * XTS_BLOCK + r
      /\ m = 0 <=> c.n < XTS_BLOCK
      /\ m # 0 => CallOn(S, c, was, m, r)
  BY <1>1, PartsOf
<1>4. m # 0 /\ r \in Nat /\ ~(c.n < XTS_BLOCK)
  BY <1>2, <1>3
<1>5. CallOn(S, c, was, m, r)
  BY <1>3, <1>4
<1>6. PICK t, y, kept : LastGroup(c, xtsMem, d, xtsMem', t, y, kept, r)
  BY <1>1, LastGroupIs
<1> HIDE DEF d
<1>7. /\ XtsAlike(c, d) /\ XtsShape(d) /\ d.pc = (IF r = 0 THEN "ret" ELSE "steal")
      /\ d.done = m /\ d.spare = t.spare /\ d.state = SubSeq(y, kept + 1, Len(y))
  BY <1>2, <1>6 DEF LastGroup, XtsShape, XtsAlike
<1>8. /\ XtsCallOf(S, d, was) /\ Given(was, d) = Given(was, c) /\ Expected(was, d) = text
      /\ WholeOf(d) = m /\ RestOf(d) = r
  <2>1. d.pc \in {"call", "main", "last", "steal", "ret"}
    BY <1>7
  <2>2. QED
    BY <1>1, <1>7, <2>1, XtsAlikeIs
<1>9. /\ xtsMem' = XtsStore(xtsMem, c.out + (e * XTS_BLOCK), SubSeq(y, 1, kept))
      /\ t = LastTweaks(c.dir, e, k, r)
      /\ y = CipherBlocks(c.dir, t.tweaks, XtsLoad(xtsMem, c.in + (e * XTS_BLOCK), k * XTS_BLOCK))
      /\ kept = IF r = 0 THEN Len(y) ELSE Len(y) - XTS_BLOCK
  BY <1>6 DEF LastGroup
<1>10. k \in Nat \ {0}
  BY <1>2
<1> HIDE DEF e, k, text, m, r
<1>11. /\ r = 0 => t.tweaks = InTurn(e, k)
       /\ r # 0 =>
              /\ t.tweaks \in [1 .. k -> Int] /\ t.tweaks[k] = FirstTweak(c.dir, e + k)
              /\ \A j \in 1 .. k - 1 : t.tweaks[j] = e + j - 1
              /\ t.spare = SecondTweak(c.dir, e + k)
  <2> DEFINE dir == c.dir
  <2>1. /\ dir \in Directions /\ e \in Nat /\ k \in Nat \ {0} /\ r \in Nat
        /\ t = LastTweaks(dir, e, k, r)
    BY <1>2, <1>4, <1>9, <1>10
  <2> HIDE DEF dir
  <2>2. TweaksOf(dir, e, k, r, t)
    BY <2>1, LastTweaksAre
  <2>3. QED
    BY <2>2 DEF dir, TweaksOf
<1>12. CASE r = 0
  <2>1. e + k <= Alone(m, r) /\ k \in Nat
    BY <1>2, <1>3, <1>12 DEF Alone
  <2>2. y = CipherBlocks(c.dir, InTurn(e, k), XtsLoad(xtsMem, c.in + (e * XTS_BLOCK), k * XTS_BLOCK))
    BY <1>9, <1>11, <1>12
  <2>3. /\ Wrote(XtsStore(xtsMem, c.out + (e * XTS_BLOCK), y),
                 was, c.out, (e + k) * XTS_BLOCK, text)
        /\ y \in Seq(Deeper(S))
    BY <1>2, <1>5, <2>1, <2>2, GroupWrites DEF text
  <2>4. SubSeq(y, 1, kept) = y
    BY <1>9, <1>12, <2>3
  <2>5. (e + k) * XTS_BLOCK = c.n
    <3>1. m * XTS_BLOCK \in Nat
      BY <1>3, XtsAssumption
    <3>2. QED
      BY <1>2, <1>3, <1>12, <3>1
  <2>6. Wrote(xtsMem', was, c.out, c.n, text)
    BY <1>9, <2>3, <2>4, <2>5
  <2>7. AtRet(d, xtsMem', was)
    BY <1>4, <1>7, <1>8, <2>6 DEF AtRet, XtsAlike
  <2>8. XtsStands(S, d, xtsMem', was)
    BY <1>7, <1>8, <1>12, <2>7 DEF XtsStands
  <2>9. QED
    BY <1>1, <2>8 DEF XtsInv, d
<1>13. CASE r # 0
  <2> DEFINE tw == t.tweaks
  <2>1. /\ tw \in [1 .. k -> Int] /\ tw[k] = FirstTweak(c.dir, m)
        /\ \A j \in 1 .. k - 1 : tw[j] = e + j - 1
        /\ t.spare = SecondTweak(c.dir, m)
    BY <1>2, <1>11, <1>13
  <2>2. /\ y = CipherBlocks(c.dir, tw, XtsLoad(xtsMem, c.in + (e * XTS_BLOCK), k * XTS_BLOCK))
        /\ kept = Len(y) - XTS_BLOCK
    BY <1>9, <1>13
  <2> HIDE DEF tw
  <2>3. /\ Wrote(XtsStore(xtsMem, c.out + (e * XTS_BLOCK), SubSeq(y, 1, kept)),
                 was, c.out, (m - 1) * XTS_BLOCK, text)
        /\ SubSeq(y, kept + 1, Len(y)) = Carried(c.dir, Given(was, c), m)
    <3>1. LastReady(S, c, was, m, r, xtsMem, e, k, tw, y, kept)
      BY <1>2, <1>5, <1>10, <1>13, <2>1, <2>2 DEF text, LastReady
    <3>2. LastDone(c, was, m, xtsMem, e, y, kept)
      BY <3>1, LastKept
    <3>3. QED
      BY <1>9, <3>2 DEF LastDone, text
  <2>4. AtSteal(d, xtsMem', was)
    BY <1>4, <1>7, <1>8, <1>9, <1>13, <2>1, <2>3 DEF AtSteal, XtsAlike
  <2>5. XtsStands(S, d, xtsMem', was)
    BY <1>7, <1>8, <1>13, <2>4 DEF XtsStands
  <2>6. QED
    BY <1>1, <2>5 DEF XtsInv, d
<1>14. QED
  BY <1>12, <1>13

(* Ciphertext stealing, its load and its two stores.                       *)
StealOf(c, mem, memNext, last, loaded, moved, r) ==
    /\ last = (c.done - 1) * XTS_BLOCK
    /\ loaded = XtsLoad(mem, c.in + last + r, XTS_BLOCK)
    /\ moved = XtsStore(mem, c.out + last + r, MovedUp(c.state, r))
    /\ memNext = XtsStore(moved, c.out + last,
                          CipherBlock(c.dir, c.spare, StolenBlock(c.state, loaded, r)))

LEMMA StealIs ==
  ASSUME XtsSteal
  PROVE  \E last, loaded, moved : StealOf(xts, xtsMem, xtsMem', last, loaded, moved, Rest)
<1> DEFINE LoadAt(last) == XtsLoad(xtsMem, xts.in + last + Rest, XTS_BLOCK)
           Moves(last) == XtsStore(xtsMem, xts.out + last + Rest, MovedUp(xts.state, Rest))
           Step(last, loaded, moved) ==
              xtsMem' = XtsStore(moved, xts.out + last,
                            CipherBlock(xts.dir, xts.spare, StolenBlock(xts.state, loaded, Rest)))
<1>1. \E last \in {(xts.done - 1) * XTS_BLOCK} : \E loaded \in {LoadAt(last)} :
         \E moved \in {Moves(last)} : Step(last, loaded, moved)
  BY DEF XtsSteal
<1> HIDE DEF LoadAt, Moves, Step
<1>2. PICK last \in {(xts.done - 1) * XTS_BLOCK} : \E loaded \in {LoadAt(last)} :
         \E moved \in {Moves(last)} : Step(last, loaded, moved)
  BY <1>1
<1>3. PICK loaded \in {LoadAt(last)} : \E moved \in {Moves(last)} : Step(last, loaded, moved)
  BY <1>2
<1>4. PICK moved \in {Moves(last)} : Step(last, loaded, moved)
  BY <1>3
<1>5. last = (xts.done - 1) * XTS_BLOCK /\ loaded = LoadAt(last) /\ moved = Moves(last)
  OBVIOUS
<1>6. StealOf(xts, xtsMem, xtsMem', last, loaded, moved, Rest)
  BY <1>4, <1>5 DEF StealOf, LoadAt, Moves, Step
<1>7. QED
  BY <1>6

LEMMA XtsStealKeeps ==
  ASSUME NEW S, XtsStands(S, xts, xtsMem, xtsWas), XtsSteal
  PROVE  XtsInv'
<1> DEFINE c == xts
           d == xts'
           was == xtsWas
           m == WholeOf(c)
           r == RestOf(c)
           text == Expected(was, c)
<1>1. /\ XtsCallOf(S, c, was) /\ AtSteal(c, xtsMem, was) /\ xtsWas' = was /\ r = Rest
      /\ d = [c EXCEPT !.pc = "ret"]
  BY DEF XtsStands, XtsSteal, RestOf, Rest
<1>2. /\ m # 0 /\ r # 0 /\ c.done = m
      /\ c.spare = SecondTweak(c.dir, m)
      /\ c.state = Carried(c.dir, Given(was, c), m)
      /\ Wrote(xtsMem, was, c.out, (m - 1) * XTS_BLOCK, text)
  BY <1>1 DEF AtSteal
<1>3. CallOn(S, c, was, m, r) /\ ~(c.n < XTS_BLOCK)
  BY <1>1, <1>2, PartsOf
<1> HIDE DEF d
<1>4. XtsAlike(c, d) /\ XtsShape(d) /\ d.pc = "ret"
  BY <1>1 DEF XtsShape, XtsAlike, XtsCallOf
<1>5. XtsCallOf(S, d, was) /\ Expected(was, d) = text
  <2>1. d.pc \in {"call", "main", "last", "steal", "ret"}
    BY <1>4
  <2>2. XtsCallOf(S, c, was) /\ XtsAlike(c, d) /\ XtsShape(d)
    BY <1>1, <1>4
  <2> HIDE DEF c, was, text
  <2>3. XtsCallOf(S, d, was) /\ Expected(was, d) = Expected(was, c)
    BY ONLY <2>1, <2>2, XtsAlikeIs
  <2>4. QED
    BY <2>3 DEF c, was, text
<1>6. PICK last, loaded, moved : StealOf(c, xtsMem, xtsMem', last, loaded, moved, r)
  BY <1>1, StealIs
<1>7. /\ last = (m - 1) * XTS_BLOCK
      /\ loaded = XtsLoad(xtsMem, c.in + last + r, XTS_BLOCK)
      /\ moved = XtsStore(xtsMem, c.out + last + r, MovedUp(c.state, r))
      /\ xtsMem' = XtsStore(moved, c.out + last,
                          CipherBlock(c.dir, c.spare, StolenBlock(c.state, loaded, r)))
  BY <1>2, <1>6 DEF StealOf
<1>8. Wrote(xtsMem, was, c.out, last, text)
  BY <1>2, <1>7
<1> HIDE DEF m, r
<1>9. Wrote(xtsMem', was, c.out, c.n, text)
  BY <1>2, <1>3, <1>7, <1>8, StealWrites DEF text
<1>10. AtRet(d, xtsMem', was)
  BY <1>3, <1>4, <1>5, <1>9 DEF AtRet, XtsAlike
<1>11. XtsStands(S, d, xtsMem', was)
  BY <1>4, <1>5, <1>10 DEF XtsStands
<1>12. QED
  BY <1>1, <1>11 DEF XtsInv, d

LEMMA XtsStays == XtsApart /\ Init /\ [][Next]_vars => []XtsInv
<1>1. XtsInit => XtsInv
  <2> SUFFICES ASSUME XtsInit PROVE XtsInv
    OBVIOUS
  <2> DEFINE S == {<<"in", a>> : a \in 1 .. XtsMemory}
  <2>1. Bytes(S) /\ Filled \in [1 .. XtsMemory -> S]
    BY DEF Bytes, Directions, Filled
  <2> HIDE DEF S
  <2>2. xtsMem = Filled /\ xtsWas = Filled
        /\ xts = [pc |-> "ret", dir |-> "enc", turn |-> 2, n |-> 0, in |-> 1, out |-> 1,
                  left |-> 0, done |-> 0, spare |-> 0, state |-> << >>]
    BY DEF XtsInit
  <2>3. XtsShape(xts) /\ xts.pc = "ret" /\ xts.dir \in Directions /\ xts.turn \in {1, 2}
        /\ xts.n = 0 /\ xts.in = 1 /\ xts.out = 1
    BY <2>2 DEF XtsShape, Directions
  <2>4. Lies(xts) /\ xts.n < XTS_BLOCK
    BY <2>3, XtsAssumption DEF Lies
  <2>5. XtsStands(S, xts, xtsMem, xtsWas)
    BY <2>1, <2>2, <2>3, <2>4 DEF XtsStands, XtsCallOf, AtRet
  <2>6. QED
    BY <2>5 DEF XtsInv
<1>2. ASSUME XtsApart, XtsInv, [XtsNext]_xtsVars PROVE XtsInv'
  <2>1. PICK S : XtsStands(S, xts, xtsMem, xtsWas)
    BY <1>2 DEF XtsInv
  <2>2. CASE UNCHANGED xtsVars
    <3>1. xts' = xts /\ xtsMem' = xtsMem /\ xtsWas' = xtsWas
      BY <2>2 DEF xtsVars
    <3>2. XtsStands(S, xts', xtsMem', xtsWas')
      BY <2>1, <3>1
    <3>3. QED
      BY <3>2 DEF XtsInv
  <2>3. CASE \E dir \in {"enc", "dec"}, n \in 0 .. XtsMaxLen, s \in XtsShifts : XtsCall(dir, n, s)
    BY <1>2, <2>3, XtsCallKeeps
  <2>4. CASE XtsCallBack
    BY <2>1, <2>4, CallBackKeeps
  <2>5. CASE XtsInitial
    BY <2>1, <2>5, XtsInitialKeeps
  <2>6. CASE XtsMainLoop
    BY <2>1, <2>6, XtsMainKeeps
  <2>7. CASE XtsLast
    BY <2>1, <2>7, XtsLastKeeps
  <2>8. CASE XtsSteal
    BY <2>1, <2>8, XtsStealKeeps
  <2>9. QED
    BY <1>2, <2>2, <2>3, <2>4, <2>5, <2>6, <2>7, <2>8 DEF XtsNext
<1>3. XtsApart /\ XtsInv /\ [XtsNext]_xtsVars => XtsInv'
  BY <1>2
<1>4. XtsApart => XtsApart'
  OBVIOUS
<1>5. QED
  BY <1>1, <1>3, <1>4, XtsPart, PTL

(* An XTS call that has returned wrote the sector of the standard and no   *)
(* byte beside it (XTS_AES_128_enc_sse.asm, XTS_AES_128_dec_sse.asm).      *)
THEOREM XtsOutputHolds ==
  ASSUME XtsApart
  PROVE  Spec => []XtsOutputIsStandard
<1>1. XtsInv => XtsOutputIsStandard
  <2> SUFFICES ASSUME XtsInv, xts.pc = "ret" PROVE WroteStandard
    BY DEF XtsOutputIsStandard
  <2> DEFINE c == xts
             was == xtsWas
             n == c.n
             o == c.out
             text == Expected(was, c)
             m == WholeOf(c)
             r == RestOf(c)
  <2>1. PICK S : XtsStands(S, c, xtsMem, was)
    BY DEF XtsInv
  <2>2. XtsCallOf(S, c, was) /\ AtRet(c, xtsMem, was)
    BY <2>1 DEF XtsStands
  <2>3. CASE n < XTS_BLOCK
    BY <2>2, <2>3 DEF AtRet, WroteStandard
  <2>4. CASE ~(n < XTS_BLOCK)
    <3>1. CallOn(S, c, was, m, r) /\ n = m * XTS_BLOCK + r
      BY <2>2, <2>4, PartsOf
    <3>2. Len(text) = n
      <4>1. SectorOf(Deeper(Deeper(S)), c.dir, Given(was, c), m, r, text)
        BY <3>1, ExpectedIs
      <4>2. QED
        BY <3>1, <4>1 DEF SectorOf
    <3>3. Wrote(xtsMem, was, o, n, text)
      BY <2>2, <2>4 DEF AtRet
    <3>4. DOMAIN was = 1 .. XtsMemory
      BY <2>2 DEF XtsCallOf
    <3>5. xtsMem = XtsStore(was, o, text)
      BY <3>2, <3>3, <3>4 DEF Wrote, XtsStore
    <3>6. QED
      BY <2>4, <3>5 DEF WroteStandard, Expected, Given
  <2>5. QED
    BY <2>3, <2>4
<1>2. Spec => Init /\ [][Next]_vars
  BY DEF Spec
<1>3. QED
  BY <1>1, <1>2, XtsStays, PTL
-----------------------------------------------------------------------------
(* Multi-hash.  What the segments have absorbed of whole blocks.           *)
SegCells == STEPS * WORD

MhBlocks(t) == t \in Seq(Cells) /\ \E q \in Nat : Len(t) = q * MH_BLOCK

SegIndex(s, k) == (((k - 1) \div WORD) * SEGS + s) * WORD + ((k - 1) % WORD) + 1

LEMMA Positive ==
  ASSUME NEW a \in Nat \ {0}, NEW b \in Nat \ {0}
  PROVE  a * b \in Nat \ {0}
<1> DEFINE c == a - 1
<1>1. c \in Nat /\ a = c + 1
  OBVIOUS
<1> HIDE DEF c
<1>2. a * b = c * b + b /\ c * b \in Nat
  BY <1>1
<1>3. QED
  BY <1>2

LEMMA MhSizes ==
  /\ SEGS \in Nat \ {0} /\ STEPS \in Nat \ {0} /\ WORD \in Nat \ {0} /\ MUR_BLOCK \in Nat \ {0}
  /\ LENFIELD \in 1 .. MH_BLOCK - 1 /\ LEN32 \in Nat \ {0} /\ MhMaxTotal \in Nat
  /\ SegCells \in Nat \ {0} /\ MH_BLOCK \in Nat \ {0}
  /\ MH_BLOCK = SEGS * SegCells /\ MH_BLOCK = (STEPS * SEGS) * WORD
  /\ MH_BLOCK % MUR_BLOCK = 0
<1>1. /\ SEGS \in Nat \ {0} /\ STEPS \in Nat \ {0} /\ WORD \in Nat \ {0} /\ MUR_BLOCK \in Nat \ {0}
      /\ LENFIELD \in Nat \ {0} /\ LENFIELD < MH_BLOCK /\ LEN32 \in Nat \ {0} /\ MhMaxTotal \in Nat
      /\ MH_BLOCK % MUR_BLOCK = 0
  BY MhAssumption
<1>2. SegCells \in Nat \ {0}
  BY <1>1, Positive DEF SegCells
<1>3. SEGS * SegCells \in Nat \ {0}
  BY <1>1, <1>2, Positive
<1>4. MH_BLOCK = SEGS * SegCells /\ MH_BLOCK = (STEPS * SEGS) * WORD
  BY <1>1 DEF MH_BLOCK, SegCells
<1>5. QED
  BY <1>1, <1>2, <1>3, <1>4

SegPlace(s, q, i) == (q * SEGS + s) * WORD + i

LEMMA SegIndexIs ==
  ASSUME NEW s \in 0 .. SEGS - 1, NEW q \in Nat, NEW i \in 1 .. WORD, NEW k, k = q * WORD + i
  PROVE  SegIndex(s, k) = SegPlace(s, q, i)
<1>1. BlockNr(WORD, k) = q + 1 /\ ByteNr(WORD, k) = i
  BY MhSizes, ByteIs, SMTT(30)
<1> DEFINE d == (k - 1) \div WORD
           r == (k - 1) % WORD
<1>2. d + 1 = q + 1 /\ r + 1 = i
  BY <1>1 DEF BlockNr, ByteNr
<1>3. q * WORD + i \in Nat \ {0}
  <2>1. q * WORD \in Nat /\ i \in Nat \ {0}
    BY MhSizes
  <2> DEFINE p == q * WORD
  <2> HIDE DEF p
  <2>2. QED
    BY <2>1 DEF p
<1>4. d \in Nat /\ r \in Nat
  <2> DEFINE x == k - 1
  <2>1. x \in Nat
    BY <1>3
  <2> HIDE DEF x
  <2>2. x \div WORD \in Nat /\ x % WORD \in Nat
    BY <2>1, MhSizes, DivisionOf
  <2>3. QED
    BY <2>2 DEF x
<1>5. SegIndex(s, k) = (d * SEGS + s) * WORD + r + 1
  BY DEF SegIndex
<1> HIDE DEF d, r
<1>6. d = q
  BY <1>2, <1>4
<1> DEFINE e == (q * SEGS + s) * WORD
<1>7. e \in Nat
  BY MhSizes
<1>8. SegIndex(s, k) = e + r + 1
  BY <1>5, <1>6
<1> HIDE DEF e
<1>9. SegIndex(s, k) = e + i
  BY <1>2, <1>4, <1>7, <1>8
<1>10. QED
  BY <1>9 DEF e, SegPlace

LEMMA SegIndexIn ==
  ASSUME NEW s \in 0 .. SEGS - 1, NEW a \in Nat, NEW k \in 1 .. a * SegCells
  PROVE  SegIndex(s, k) \in 1 .. a * MH_BLOCK
<1> DEFINE w == WORD
           g == SEGS
           c == a * STEPS
<1>1. w \in Nat \ {0} /\ g \in Nat \ {0} /\ STEPS \in Nat \ {0} /\ c \in Nat /\ s \in 0 .. g - 1
  BY MhSizes
<1>2. a * SegCells = c * w
  BY <1>1, MhSizes DEF SegCells
<1>3. a * MH_BLOCK = (c * g) * w
  BY <1>1, MhSizes
<1> HIDE DEF w, g, c
<1>4. k \in Nat \ {0} /\ k <= c * w
  <2>1. c * w \in Nat
    BY <1>1
  <2>2. QED
    BY <1>2, <2>1
<1>5. PICK q \in Nat, i \in 1 .. w : k = q * w + i
  BY ONLY <1>1, <1>4, ByteOf
<1>6. q < c
  BY <1>1, <1>4, <1>5, BlockAbove
<1>7. SegIndex(s, k) = (q * g + s) * w + i
  <2>1. s \in 0 .. SEGS - 1 /\ q \in Nat /\ i \in 1 .. WORD /\ k = q * WORD + i
    BY <1>5 DEF w
  <2>2. SegIndex(s, k) = SegPlace(s, q, i)
    BY ONLY <2>1, SegIndexIs
  <2>3. QED
    BY <2>2 DEF SegPlace, w, g
<1> DEFINE d == q * g + s
           z == s + 1
           e == c * g
<1>8. q * g + z \in 1 .. c * g
  <2>1. q \in 0 .. c - 1 /\ z \in 1 .. g
    BY <1>1, <1>6
  <2> HIDE DEF z
  <2>2. QED
    BY <1>1, <2>1, InBlocks
<1>9. d \in 0 .. e - 1 /\ e \in Nat
  <2> DEFINE p == q * g
  <2>1. p \in Nat /\ e \in Nat
    BY <1>1
  <2>2. p + z \in 1 .. e
    BY <1>8
  <2>3. d = p + s /\ s \in Nat
    BY <1>1
  <2> HIDE DEF p, d, e
  <2>4. QED
    BY <2>1, <2>2, <2>3
<1> HIDE DEF d, e
<1>10. d * w + i \in 1 .. e * w
  BY <1>1, <1>5, <1>9, InBlocks
<1>11. QED
  BY <1>3, <1>7, <1>10 DEF d, e

LEMMA SegIndexOn ==
  ASSUME NEW s \in 0 .. SEGS - 1, NEW a \in Nat, NEW k \in Nat \ {0}
  PROVE  SegIndex(s, a * SegCells + k) = a * MH_BLOCK + SegIndex(s, k)
<1> DEFINE w == WORD
           g == SEGS
           c == a * STEPS
<1>1. w \in Nat \ {0} /\ g \in Nat \ {0} /\ STEPS \in Nat \ {0} /\ c \in Nat /\ s \in Nat
  BY MhSizes
<1>2. a * SegCells = c * w
  BY <1>1, MhSizes DEF SegCells
<1>3. a * MH_BLOCK = (c * g) * w
  BY <1>1, MhSizes
<1> HIDE DEF w, g, c
<1>4. PICK q \in Nat, i \in 1 .. w : k = q * w + i
  BY ONLY <1>1, ByteOf
<1>5. SegIndex(s, k) = (q * g + s) * w + i
  <2>1. s \in 0 .. SEGS - 1 /\ q \in Nat /\ i \in 1 .. WORD /\ k = q * WORD + i
    BY <1>4 DEF w
  <2>2. SegIndex(s, k) = SegPlace(s, q, i)
    BY ONLY <2>1, SegIndexIs
  <2>3. QED
    BY <2>2 DEF SegPlace, w, g
<1> DEFINE d == c + q
<1>6. d \in Nat /\ a * SegCells + k = d * w + i
  <2>1. (c + q) * w = c * w + q * w /\ c * w \in Nat /\ q * w \in Nat
    BY <1>1
  <2>2. QED
    BY <1>1, <1>2, <1>4, <2>1
<1>7. SegIndex(s, a * SegCells + k) = (d * g + s) * w + i
  <2> DEFINE x == a * SegCells + k
  <2>1. s \in 0 .. SEGS - 1 /\ d \in Nat /\ i \in 1 .. WORD /\ x = d * WORD + i
    BY <1>6 DEF w
  <2> HIDE DEF d, x
  <2>2. SegIndex(s, x) = SegPlace(s, d, i)
    BY ONLY <2>1, SegIndexIs
  <2>3. QED
    BY <2>2 DEF SegPlace, w, g, x
<1>8. (d * g + s) * w = (c * g) * w + (q * g + s) * w
  <2> DEFINE x == c * g
             y == q * g + s
  <2>1. (c + q) * g = c * g + q * g /\ c * g \in Nat /\ q * g \in Nat
    BY <1>1
  <2>2. d * g + s = x + y /\ x \in Nat /\ y \in Nat
    BY <1>1, <2>1
  <2> HIDE DEF x, y, d
  <2>3. (x + y) * w = x * w + y * w
    BY <1>1, <2>2
  <2>4. QED
    BY <2>2, <2>3 DEF x, y
<1>9. (c * g) * w \in Nat /\ (q * g + s) * w \in Nat
  BY <1>1
<1> DEFINE m == (c * g) * w
           n == (q * g + s) * w
<1>10. m \in Nat /\ n \in Nat /\ SegIndex(s, a * SegCells + k) = (m + n) + i
       /\ SegIndex(s, k) = n + i
  BY <1>5, <1>7, <1>8, <1>9
<1> HIDE DEF m, n
<1>11. SegIndex(s, a * SegCells + k) = m + (n + i)
  BY <1>10
<1>12. QED
  BY <1>3, <1>10, <1>11 DEF m
(* A sequence known by its two parts.                                      *)
LEMMA JoinedSame ==
  ASSUME NEW S, NEW s \in Seq(S), NEW t \in Seq(S), NEW u, Joined(S, s, t, u)
  PROVE  u = s \o t
<1> DEFINE v == s \o t
           m == Len(s)
           n == Len(t)
<1>1. Joined(S, s, t, v)
  BY JoinIs
<1> HIDE DEF v
<1>2. /\ v \in Seq(S) /\ Len(v) = m + n /\ m \in Nat /\ n \in Nat
      /\ \A i \in 1 .. m : v[i] = s[i]
      /\ \A i \in 1 .. n : v[m + i] = t[i]
  BY <1>1 DEF Joined
<1>3. /\ u \in Seq(S) /\ Len(u) = m + n
      /\ \A i \in 1 .. m : u[i] = s[i]
      /\ \A i \in 1 .. n : u[m + i] = t[i]
  BY DEF Joined
<1> HIDE DEF m, n
<1>4. ASSUME NEW i \in 1 .. m + n PROVE u[i] = v[i]
  <2>1. CASE i <= m
    <3>1. i \in 1 .. m
      BY <1>2, <2>1
    <3>2. QED
      BY <1>2, <1>3, <3>1
  <2>2. CASE ~(i <= m)
    <3>1. i - m \in 1 .. n /\ m + (i - m) = i
      BY <1>2, <2>2
    <3>2. u[m + (i - m)] = v[m + (i - m)]
      BY <1>2, <1>3, <3>1
    <3>3. QED
      BY <3>1, <3>2
  <2>3. QED
    BY <2>1, <2>2
<1>5. u = v
  BY <1>2, <1>3, <1>4, SeqEqual
<1>6. QED
  BY <1>5 DEF v

(* The cells x of segment s in the a blocks of t.                          *)
Segmented(t, s, a, x) ==
    /\ x \in Seq(Cells) /\ Len(x) = a * SegCells
    /\ \A k \in 1 .. a * SegCells : x[k] = t[SegIndex(s, k)]

LEMMA SegmentIs ==
  ASSUME NEW s \in 0 .. SEGS - 1, NEW a \in Nat, NEW t \in Seq(Cells), Len(t) = a * MH_BLOCK
  PROVE  Segmented(t, s, a, SegmentOf(t, s))
<1> DEFINE n == a * SegCells
           x == SegmentOf(t, s)
<1>1. n \in Nat /\ SEGS \in Nat \ {0} /\ Len(t) = n * SEGS
  BY MhSizes
<1>2. Len(t) \div SEGS = n
  <2> DEFINE z == 0
             l == Len(t)
             g == SEGS
  <2>1. g \in Nat \ {0} /\ n \in Nat /\ z \in 0 .. g - 1 /\ l = n * g + z
    BY <1>1
  <2> HIDE DEF z, l, g, n
  <2>2. l \div g = n
    BY <2>1, DivIs
  <2>3. QED
    BY <2>2 DEF l, g
<1>3. x = [k \in 1 .. n |-> t[SegIndex(s, k)]]
  BY <1>2 DEF SegmentOf, SegIndex
<1>4. ASSUME NEW k \in 1 .. n PROVE t[SegIndex(s, k)] \in Cells
  <2>1. SegIndex(s, k) \in 1 .. Len(t)
    BY SegIndexIn
  <2>2. QED
    BY <2>1, ElementOfSeq
<1>5. x \in [1 .. n -> Cells]
  BY <1>3, <1>4
<1>6. x \in Seq(Cells) /\ Len(x) = n
  BY <1>1, <1>5, BlockIsSeq
<1>7. QED
  BY <1>3, <1>6 DEF Segmented

LEMMA SegmentJoin ==
  ASSUME NEW s \in 0 .. SEGS - 1, NEW t, NEW u, MhBlocks(t), MhBlocks(u)
  PROVE  SegmentOf(t \o u, s) = SegmentOf(t, s) \o SegmentOf(u, s)
<1> DEFINE b == MH_BLOCK
           w == SegCells
           v == t \o u
           x == SegmentOf(t, s)
           y == SegmentOf(u, s)
           z == SegmentOf(v, s)
<1>1. b \in Nat \ {0} /\ w \in Nat \ {0}
  BY MhSizes
<1>2. PICK a \in Nat : Len(t) = a * b
  BY DEF MhBlocks
<1>3. PICK c \in Nat : Len(u) = c * b
  BY DEF MhBlocks
<1>4. t \in Seq(Cells) /\ u \in Seq(Cells)
  BY DEF MhBlocks
<1> HIDE DEF v
<1>5. Joined(Cells, t, u, v)
  BY <1>4, JoinIs DEF v
<1> DEFINE d == a + c
<1>6. d \in Nat /\ d * b = a * b + c * b /\ d * w = a * w + c * w /\ a * w \in Nat /\ c * w \in Nat
      /\ a * b \in Nat /\ c * b \in Nat
  BY <1>1
<1>7. v \in Seq(Cells) /\ Len(v) = d * b
  BY <1>2, <1>3, <1>5, <1>6 DEF Joined
<1>8. Segmented(t, s, a, x) /\ Segmented(u, s, c, y)
  BY <1>2, <1>3, <1>4, SegmentIs
<1>9. Segmented(v, s, d, z)
  <2> HIDE DEF d
  <2>1. QED
    BY <1>6, <1>7, SegmentIs
<1> HIDE DEF x, y, z, d
<1> DEFINE e == a * w
           f == c * w
<1>10. /\ e \in Nat /\ f \in Nat /\ x \in Seq(Cells) /\ y \in Seq(Cells) /\ z \in Seq(Cells)
       /\ Len(x) = e /\ Len(y) = f /\ Len(z) = e + f
       /\ \A k \in 1 .. e : x[k] = t[SegIndex(s, k)]
       /\ \A k \in 1 .. f : y[k] = u[SegIndex(s, k)]
       /\ \A k \in 1 .. e + f : z[k] = v[SegIndex(s, k)]
  BY <1>6, <1>8, <1>9 DEF Segmented
<1>11. \A k \in 1 .. e : SegIndex(s, k) \in 1 .. Len(t)
  BY <1>2, SegIndexIn
<1>12. \A k \in 1 .. f : SegIndex(s, k) \in 1 .. Len(u)
  BY <1>3, SegIndexIn
<1>13. \A k \in 1 .. f : SegIndex(s, e + k) = Len(t) + SegIndex(s, k)
  <2>1. ASSUME NEW k \in 1 .. f PROVE SegIndex(s, e + k) = Len(t) + SegIndex(s, k)
    <3>1. k \in Nat \ {0}
      BY <1>10
    <3>2. QED
      BY <1>2, <3>1, SegIndexOn
  <2>2. QED
    BY <2>1
<1> HIDE DEF e, f
<1>14. ASSUME NEW k \in 1 .. e PROVE z[k] = x[k]
  <2>1. k \in 1 .. e + f
    BY <1>10
  <2>2. v[SegIndex(s, k)] = t[SegIndex(s, k)]
    BY <1>5, <1>11 DEF Joined
  <2>3. QED
    BY <1>10, <2>1, <2>2
<1>15. ASSUME NEW k \in 1 .. f PROVE z[e + k] = y[k]
  <2>1. e + k \in 1 .. e + f
    BY <1>10
  <2>2. v[Len(t) + SegIndex(s, k)] = u[SegIndex(s, k)]
    BY <1>5, <1>12 DEF Joined
  <2>3. QED
    BY <1>10, <1>13, <2>1, <2>2
<1>16. z = x \o y
  <2>1. Joined(Cells, x, y, z)
    BY <1>10, <1>14, <1>15 DEF Joined
  <2>2. QED
    BY <1>10, <2>1, JoinedSame
<1>17. QED
  BY <1>16 DEF x, y, z, v
(* Parts of a joined sequence.                                             *)
LEMMA PartOfFirst ==
  ASSUME NEW S, NEW t \in Seq(S), NEW u \in Seq(S), NEW p \in Nat, NEW q \in Nat,
         p <= q, q <= Len(t)
  PROVE  SubSeq(t \o u, p + 1, q) = SubSeq(t, p + 1, q)
<1> DEFINE v == t \o u
<1>1. Joined(S, t, u, v)
  BY JoinIs
<1> HIDE DEF v
<1>2. v \in Seq(S) /\ q <= Len(v) /\ Len(t) \in Nat
  BY <1>1 DEF Joined
<1>3. /\ SubSeq(v, p + 1, q) \in Seq(S) /\ Len(SubSeq(v, p + 1, q)) = q - p
      /\ \A i \in 1 .. q - p : SubSeq(v, p + 1, q)[i] = v[p + i]
  BY <1>2, PartIs
<1>4. /\ SubSeq(t, p + 1, q) \in Seq(S) /\ Len(SubSeq(t, p + 1, q)) = q - p
      /\ \A i \in 1 .. q - p : SubSeq(t, p + 1, q)[i] = t[p + i]
  BY PartIs
<1>5. \A i \in 1 .. q - p : v[p + i] = t[p + i]
  <2>1. \A i \in 1 .. q - p : p + i \in 1 .. Len(t)
    BY <1>2
  <2>2. QED
    BY <1>1, <2>1 DEF Joined
<1>6. SubSeq(v, p + 1, q) = SubSeq(t, p + 1, q)
  BY <1>3, <1>4, <1>5, SeqEqual
<1>7. QED
  BY <1>6 DEF v

LEMMA PartOfSecond ==
  ASSUME NEW S, NEW t \in Seq(S), NEW u \in Seq(S), NEW m \in Nat, Len(t) = m,
         NEW p \in Nat, NEW q \in Nat, p <= q, q <= Len(u)
  PROVE  SubSeq(t \o u, (m + p) + 1, m + q) = SubSeq(u, p + 1, q)
<1> DEFINE v == t \o u
           a == m + p
           b == m + q
<1>1. Joined(S, t, u, v)
  BY JoinIs
<1> HIDE DEF v
<1>2. v \in Seq(S) /\ b <= Len(v) /\ Len(u) \in Nat /\ a \in Nat /\ b \in Nat /\ a <= b /\ b - a = q - p
  BY <1>1 DEF Joined
<1> HIDE DEF a, b
<1>3. /\ SubSeq(v, a + 1, b) \in Seq(S) /\ Len(SubSeq(v, a + 1, b)) = b - a
      /\ \A i \in 1 .. b - a : SubSeq(v, a + 1, b)[i] = v[a + i]
  BY <1>2, PartIs
<1>4. /\ SubSeq(u, p + 1, q) \in Seq(S) /\ Len(SubSeq(u, p + 1, q)) = q - p
      /\ \A i \in 1 .. q - p : SubSeq(u, p + 1, q)[i] = u[p + i]
  BY PartIs
<1>5. ASSUME NEW i \in 1 .. q - p PROVE v[a + i] = u[p + i]
  <2>1. p + i \in 1 .. Len(u) /\ a + i = m + (p + i)
    BY <1>2 DEF a
  <2>2. QED
    BY <1>1, <2>1 DEF Joined
<1>6. SubSeq(v, a + 1, b) = SubSeq(u, p + 1, q)
  <2> DEFINE x == SubSeq(v, a + 1, b)
             y == SubSeq(u, p + 1, q)
             n == q - p
  <2>1. x \in Seq(S) /\ y \in Seq(S) /\ Len(x) = n /\ Len(y) = n /\ \A i \in 1 .. n : x[i] = y[i]
    BY <1>2, <1>3, <1>4, <1>5
  <2> HIDE DEF x, y, n
  <2>2. x = y
    BY <2>1, SeqEqual
  <2>3. QED
    BY <2>2 DEF x, y
<1>7. QED
  BY <1>6 DEF v, a, b

(* Block i of murmur lies between these two.                               *)
MurmurFrom(i) == (i - 1) * MUR_BLOCK

LEMMA MurmurBounds ==
  ASSUME NEW n \in Nat, NEW i \in 1 .. n \div MUR_BLOCK
  PROVE  /\ MurmurFrom(i) \in Nat /\ i * MUR_BLOCK \in Nat
         /\ MurmurFrom(i) <= i * MUR_BLOCK /\ i * MUR_BLOCK <= n
<1> DEFINE b == MUR_BLOCK
           d == n \div b
           r == n % b
           j == i - 1
<1>1. b \in Nat \ {0} /\ d \in Nat /\ r \in Nat /\ n = d * b + r
  BY MhSizes, DivisionOf
<1>2. j \in Nat /\ j < d /\ i = j + 1
  BY <1>1
<1> HIDE DEF j, b, d, r
<1>3. (j + 1) * b = j * b + b /\ j * b \in Nat /\ j * b + b <= d * b /\ d * b \in Nat
  BY <1>1, <1>2, BlocksBelow
<1>4. QED
  BY <1>1, <1>2, <1>3 DEF MurmurFrom, b, j

LEMMA MurmurIs ==
  ASSUME NEW t \in Seq(Cells)
  PROVE  /\ MurmurBlocks(t) \in Seq(Seq(Cells))
         /\ Len(MurmurBlocks(t)) = Len(t) \div MUR_BLOCK
         /\ \A i \in 1 .. Len(t) \div MUR_BLOCK :
                MurmurBlocks(t)[i] = SubSeq(t, MurmurFrom(i) + 1, i * MUR_BLOCK)
<1> DEFINE n == Len(t) \div MUR_BLOCK
           x == MurmurBlocks(t)
<1>1. Len(t) \in Nat /\ n \in Nat
  BY LenProperties, MhSizes, DivisionOf
<1>2. x = [i \in 1 .. n |-> SubSeq(t, MurmurFrom(i) + 1, i * MUR_BLOCK)]
  BY DEF MurmurBlocks, MurmurFrom
<1>3. \A i \in 1 .. n : SubSeq(t, MurmurFrom(i) + 1, i * MUR_BLOCK) \in Seq(Cells)
  <2>1. ASSUME NEW i \in 1 .. n PROVE SubSeq(t, MurmurFrom(i) + 1, i * MUR_BLOCK) \in Seq(Cells)
    <3> DEFINE p == MurmurFrom(i)
               q == i * MUR_BLOCK
    <3>1. p \in Nat /\ q \in Nat /\ p <= q /\ q <= Len(t)
      BY <1>1, MurmurBounds
    <3> HIDE DEF p, q
    <3>2. SubSeq(t, p + 1, q) \in Seq(Cells)
      BY <3>1, PartIs
    <3>3. QED
      BY <3>2 DEF p, q
  <2>2. QED
    BY <2>1
<1> HIDE DEF n
<1>4. x \in [1 .. n -> Seq(Cells)]
  BY <1>2, <1>3
<1>5. x \in Seq(Seq(Cells)) /\ Len(x) = n
  BY <1>1, <1>4, BlockIsSeq
<1>6. QED
  BY <1>2, <1>5 DEF n

LEMMA MurmurJoin ==
  ASSUME NEW t \in Seq(Cells), NEW u \in Seq(Cells), NEW a \in Nat, Len(t) = a * MUR_BLOCK
  PROVE  MurmurBlocks(t \o u) = MurmurBlocks(t) \o MurmurBlocks(u)
<1> DEFINE b == MUR_BLOCK
           v == t \o u
           m == Len(u)
           c == m \div b
           r == m % b
           x == MurmurBlocks(t)
           y == MurmurBlocks(u)
           z == MurmurBlocks(v)
           w == Len(t)
<1>1. b \in Nat \ {0} /\ m \in Nat /\ c \in Nat /\ r \in 0 .. b - 1 /\ m = c * b + r
  BY MhSizes, LenProperties, DivisionOf
<1>2. w = a * b /\ w \in Nat
  BY <1>1
<1>3. v \in Seq(Cells) /\ Len(v) = w + m
  BY ConcatProperties
<1>4. w \div b = a
  <2> DEFINE k == 0
  <2>1. b \in Nat \ {0} /\ a \in Nat /\ k \in 0 .. b - 1 /\ w = a * b + k
    BY <1>1, <1>2
  <2> HIDE DEF k, w, b
  <2>2. QED
    BY ONLY <2>1, DivIs
<1>5. (w + m) \div b = a + c
  <2> DEFINE k == a + c
             l == w + m
  <2>1. k \in Nat /\ k * b = a * b + c * b /\ a * b \in Nat /\ c * b \in Nat
    BY <1>1
  <2>2. l = k * b + r /\ b \in Nat \ {0} /\ r \in 0 .. b - 1
    <3> DEFINE e == a * b
               f == c * b
               g == k * b
    <3>1. e \in Nat /\ f \in Nat /\ r \in Nat /\ g = e + f /\ w = e /\ m = f + r
      BY <1>1, <1>2, <2>1
    <3> HIDE DEF e, f, g, w, m, r
    <3>2. w + m = g + r
      BY <3>1
    <3>3. QED
      BY <1>1, <3>2 DEF g
  <2> HIDE DEF k, l, w, b, r
  <2>3. l \div b = k
    BY ONLY <2>1, <2>2, DivIs
  <2>4. QED
    BY <2>3 DEF k, l
<1>6. /\ x \in Seq(Seq(Cells)) /\ Len(x) = a
      /\ \A i \in 1 .. a : x[i] = SubSeq(t, MurmurFrom(i) + 1, i * b)
  BY <1>4, MurmurIs
<1>7. /\ y \in Seq(Seq(Cells)) /\ Len(y) = c
      /\ \A i \in 1 .. c : y[i] = SubSeq(u, MurmurFrom(i) + 1, i * b)
  BY MurmurIs
<1>8. /\ z \in Seq(Seq(Cells)) /\ Len(z) = a + c
      /\ \A i \in 1 .. a + c : z[i] = SubSeq(v, MurmurFrom(i) + 1, i * b)
  <2> HIDE DEF v
  <2>1. QED
    BY <1>3, <1>5, MurmurIs
<1> HIDE DEF x, y, z
<1>9. ASSUME NEW i \in 1 .. a PROVE z[i] = x[i]
  <2> DEFINE p == MurmurFrom(i)
             q == i * b
  <2>1. i \in 1 .. a + c
    BY <1>1
  <2>2. p \in Nat /\ q \in Nat /\ p <= q /\ q <= w
    <3>1. i \in 1 .. w \div b
      BY <1>4
    <3> HIDE DEF w
    <3>2. QED
      BY <1>2, <3>1, MurmurBounds
  <2> HIDE DEF p, q
  <2>3. SubSeq(v, p + 1, q) = SubSeq(t, p + 1, q)
    BY <2>2, PartOfFirst
  <2>4. QED
    BY <1>6, <1>8, <2>1, <2>3 DEF p, q
<1>10. ASSUME NEW i \in 1 .. c PROVE z[a + i] = y[i]
  <2> DEFINE p == MurmurFrom(i)
             q == i * b
             j == a + i
  <2>1. j \in 1 .. a + c
    BY <1>1
  <2>2. p \in Nat /\ q \in Nat /\ p <= q /\ q <= m
    <3> HIDE DEF m
    <3>1. QED
      BY <1>1, MurmurBounds
  <2>3. MurmurFrom(j) = w + p /\ j * b = w + q
    <3> DEFINE h == i - 1
    <3>1. h \in Nat /\ i = h + 1 /\ j - 1 = a + h
      BY <1>1
    <3>2. p = h * b /\ MurmurFrom(j) = (a + h) * b
      BY <3>1 DEF MurmurFrom
    <3> HIDE DEF h, p, w
    <3>3. (a + h) * b = a * b + h * b /\ (a + i) * b = a * b + i * b
      BY <1>1, <3>1
    <3>4. QED
      BY <1>2, <3>2, <3>3
  <2> HIDE DEF p, q, j
  <2>4. SubSeq(v, (w + p) + 1, w + q) = SubSeq(u, p + 1, q)
    <3>1. t \in Seq(Cells) /\ u \in Seq(Cells) /\ w \in Nat /\ Len(t) = w /\ p \in Nat /\ q \in Nat
          /\ p <= q /\ q <= Len(u)
      BY <1>2, <2>2
    <3> HIDE DEF w
    <3>2. SubSeq(t \o u, (w + p) + 1, w + q) = SubSeq(u, p + 1, q)
      BY ONLY <3>1, PartOfSecond
    <3>3. QED
      BY <3>2
  <2>5. z[j] = SubSeq(v, (w + p) + 1, w + q)
    BY <1>8, <2>1, <2>3
  <2>6. y[i] = SubSeq(u, p + 1, q)
    BY <1>7 DEF p, q
  <2>7. QED
    BY <2>4, <2>5, <2>6 DEF j
<1> HIDE DEF b, c, r, m, w, v
<1>11. z = x \o y
  <2> DEFINE S == Seq(Cells)
  <2>1. /\ x \in Seq(S) /\ y \in Seq(S) /\ z \in Seq(S) /\ a \in Nat /\ c \in Nat
        /\ Len(x) = a /\ Len(y) = c /\ Len(z) = a + c
        /\ \A i \in 1 .. a : z[i] = x[i]
        /\ \A i \in 1 .. c : z[a + i] = y[i]
    BY <1>1, <1>6, <1>7, <1>8, <1>9, <1>10
  <2> HIDE DEF S
  <2>2. Joined(S, x, y, z) /\ x \in Seq(S) /\ y \in Seq(S)
    BY <2>1 DEF Joined
  <2>3. QED
    BY <2>2, JoinedSame
<1>12. QED
  BY <1>11 DEF x, y, z, v

LEMMA MurmurNone ==
  ASSUME NEW t \in Seq(Cells), Len(t) < MUR_BLOCK
  PROVE  MurmurBlocks(t) = << >>
<1> DEFINE n == Len(t)
           b == MUR_BLOCK
           q == n \div b
<1>1. b \in Nat \ {0} /\ n \in Nat /\ q \in Nat
  BY MhSizes, LenProperties, DivisionOf
<1>2. q = 0
  BY <1>1
<1>3. MurmurBlocks(t) \in Seq(Seq(Cells)) /\ Len(MurmurBlocks(t)) = q
  BY MurmurIs
<1>4. QED
  BY <1>2, <1>3

LEMMA MurmurWhole ==
  ASSUME NEW n \in Nat
  PROVE  MurmurBlocks(WholeMessage(n)) = MurmurBlocks(WholeMessage(n - (n % MUR_BLOCK)))
<1> DEFINE b == MUR_BLOCK
           q == n \div b
           r == n % b
           m == n - r
           t == WholeMessage(m)
           u == Piece(m, r)
<1>1. b \in Nat \ {0} /\ q \in Nat /\ r \in 0 .. b - 1 /\ n = q * b + r
  BY MhSizes, DivisionOf
<1>2. q * b \in Nat
  BY <1>1
<1> HIDE DEF q, r
<1>3. m = q * b /\ m \in Nat /\ r \in Nat /\ m + r = n /\ r < b
  BY <1>1, <1>2
<1> HIDE DEF m
<1>4. t \in Seq(Cells) /\ Len(t) = q * b /\ u \in Seq(Cells) /\ Len(u) = r
  BY <1>3, MessageIs, PieceIs
<1>5. t \o u = WholeMessage(n)
  BY <1>3, MessageGrows
<1> HIDE DEF t, u
<1>6. MurmurBlocks(t \o u) = MurmurBlocks(t) \o MurmurBlocks(u)
  BY <1>1, <1>4, MurmurJoin
<1>7. MurmurBlocks(u) = << >>
  BY <1>3, <1>4, MurmurNone
<1>8. MurmurBlocks(t) \o << >> = MurmurBlocks(t)
  BY <1>4, MurmurIs, ConcatEmptySeq
<1>9. QED
  BY <1>5, <1>6, <1>7, <1>8 DEF t, m, r
(* A stream that has absorbed whole blocks t, with murmur (m) or without.  *)
MhShape(c) ==
    c = [total_length |-> c.total_length, partial_block_buffer |-> c.partial_block_buffer,
         interim |-> c.interim, murmur |-> c.murmur, digest |-> c.digest]

Segs(t) == [s \in 0 .. SEGS - 1 |-> SegmentOf(t, s)]

Absorbed(c, t, m) ==
    /\ MhShape(c) /\ MhBlocks(t)
    /\ c.interim = Segs(t)
    /\ m => c.murmur = MurmurBlocks(t)

BlockStep(m, c, u) == IF m THEN mh_murmur_block(c, u) ELSE mh_block(c, u)

LEMMA SegsJoin ==
  ASSUME NEW t, NEW u, MhBlocks(t), MhBlocks(u)
  PROVE  [s \in 0 .. SEGS - 1 |-> Segs(t)[s] \o SegmentOf(u, s)] = Segs(t \o u)
<1>1. ASSUME NEW s \in 0 .. SEGS - 1 PROVE Segs(t)[s] \o SegmentOf(u, s) = SegmentOf(t \o u, s)
  BY SegmentJoin DEF Segs
<1> DEFINE v == t \o u
<1> HIDE DEF v
<1>2. [s \in 0 .. SEGS - 1 |-> Segs(t)[s] \o SegmentOf(u, s)] = [s \in 0 .. SEGS - 1 |-> SegmentOf(v, s)]
  BY <1>1 DEF v
<1>3. QED
  BY <1>2 DEF Segs, v

LEMMA MhBlocksJoin ==
  ASSUME NEW t, NEW u, MhBlocks(t), MhBlocks(u)
  PROVE  MhBlocks(t \o u)
<1>1. t \in Seq(Cells) /\ u \in Seq(Cells)
  BY DEF MhBlocks
<1>2. PICK a \in Nat : Len(t) = a * MH_BLOCK
  BY DEF MhBlocks
<1>3. PICK c \in Nat : Len(u) = c * MH_BLOCK
  BY DEF MhBlocks
<1>4. t \o u \in Seq(Cells) /\ Len(t \o u) = Len(t) + Len(u)
  BY <1>1, ConcatProperties
<1> DEFINE d == a + c
<1>5. d \in Nat /\ d * MH_BLOCK = a * MH_BLOCK + c * MH_BLOCK
  BY MhSizes
<1> HIDE DEF d
<1>6. Len(t \o u) = d * MH_BLOCK
  BY <1>2, <1>3, <1>4, <1>5
<1>7. QED
  BY <1>4, <1>5, <1>6 DEF MhBlocks

LEMMA MurmurOn ==
  ASSUME NEW t, NEW u, MhBlocks(t), u \in Seq(Cells)
  PROVE  MurmurBlocks(t \o u) = MurmurBlocks(t) \o MurmurBlocks(u)
<1> DEFINE e == MH_BLOCK \div MUR_BLOCK
           b == MUR_BLOCK
           r == MH_BLOCK % b
<1>1. t \in Seq(Cells)
  BY DEF MhBlocks
<1>2. PICK q \in Nat : Len(t) = q * MH_BLOCK
  BY DEF MhBlocks
<1>3. e \in Nat /\ b \in Nat \ {0} /\ r = 0 /\ MH_BLOCK = e * b + r
  BY MhSizes, DivisionOf
<1> HIDE DEF r, e, b
<1>4. MH_BLOCK = e * b
  BY <1>3
<1> DEFINE a == q * e
<1>5. a \in Nat /\ q * (e * b) = a * b
  BY <1>3
<1> HIDE DEF a
<1>6. Len(t) = a * b
  BY <1>2, <1>4, <1>5
<1>7. QED
  BY <1>1, <1>5, <1>6, MurmurJoin DEF b

LEMMA BlockAbsorbs ==
  ASSUME NEW m \in BOOLEAN, NEW c, NEW t, Absorbed(c, t, m), NEW u, MhBlocks(u),
         NEW d, d = BlockStep(m, c, u)
  PROVE  /\ Absorbed(d, t \o u, m)
         /\ d.total_length = c.total_length /\ d.partial_block_buffer = c.partial_block_buffer
<1> DEFINE e == mh_block(c, u)
<1>1. MhShape(c) /\ MhBlocks(t) /\ c.interim = Segs(t) /\ (m => c.murmur = MurmurBlocks(t))
  BY DEF Absorbed
<1>2. /\ MhShape(e)
      /\ e.interim = [s \in 0 .. SEGS - 1 |-> c.interim[s] \o SegmentOf(u, s)]
      /\ e.murmur = c.murmur
      /\ e.total_length = c.total_length /\ e.partial_block_buffer = c.partial_block_buffer
  <2> DEFINE f == [s \in 0 .. SEGS - 1 |-> c.interim[s] \o SegmentOf(u, s)]
  <2>1. e = [c EXCEPT !.interim = f]
    BY DEF mh_block
  <2> HIDE DEF e, f
  <2>2. /\ MhShape(e) /\ e.interim = f /\ e.murmur = c.murmur
        /\ e.total_length = c.total_length /\ e.partial_block_buffer = c.partial_block_buffer
    BY <1>1, <2>1 DEF MhShape
  <2>3. QED
    BY <2>2 DEF f
<1>3. e.interim = Segs(t \o u)
  BY <1>1, <1>2, SegsJoin
<1>4. MhBlocks(t \o u)
  BY <1>1, MhBlocksJoin
<1>5. CASE m
  <2>1. d = [e EXCEPT !.murmur = @ \o MurmurBlocks(u)]
    BY <1>5 DEF BlockStep, mh_murmur_block
  <2> HIDE DEF e
  <2>2. /\ MhShape(d) /\ d.interim = e.interim /\ d.murmur = e.murmur \o MurmurBlocks(u)
        /\ d.total_length = e.total_length /\ d.partial_block_buffer = e.partial_block_buffer
    BY <1>2, <2>1 DEF MhShape
  <2>3. u \in Seq(Cells)
    BY DEF MhBlocks
  <2>4. d.murmur = MurmurBlocks(t \o u)
    <3>1. MurmurBlocks(t \o u) = MurmurBlocks(t) \o MurmurBlocks(u)
      BY <1>1, <2>3, MurmurOn
    <3>2. e.murmur = MurmurBlocks(t)
      BY <1>1, <1>2, <1>5
    <3>3. QED
      BY <2>2, <3>1, <3>2
  <2>5. QED
    BY <1>2, <1>3, <1>4, <2>2, <2>4 DEF Absorbed
<1>6. CASE ~m
  <2>1. d = e
    BY <1>6 DEF BlockStep
  <2> HIDE DEF e
  <2>2. QED
    BY <1>2, <1>3, <1>4, <1>6, <2>1 DEF Absorbed
<1>7. QED
  BY <1>5, <1>6

(* memcpy into a buffer.                                                   *)
Overlaid(buffer, at, cells, x) ==
    /\ x \in Seq(Cells) /\ Len(x) = Len(buffer)
    /\ \A i \in 1 .. Len(buffer) :
            x[i] = IF at < i /\ i <= at + Len(cells) THEN cells[i - at] ELSE buffer[i]

LEMMA OverlayIs ==
  ASSUME NEW buffer \in Seq(Cells), NEW at \in Nat, NEW cells \in Seq(Cells)
  PROVE  Overlaid(buffer, at, cells, Overlay(buffer, at, cells))
<1> DEFINE n == Len(buffer)
           l == Len(cells)
           V(i) == IF at < i /\ i <= at + l THEN cells[i - at] ELSE buffer[i]
           x == Overlay(buffer, at, cells)
<1>1. n \in Nat /\ l \in Nat
  BY LenProperties
<1>2. x = [i \in 1 .. n |-> V(i)]
  BY DEF Overlay
<1>3. ASSUME NEW i \in 1 .. n PROVE V(i) \in Cells
  <2>1. CASE at < i /\ i <= at + l
    <3>1. i - at \in 1 .. l
      BY <1>1, <2>1
    <3>2. QED
      BY <2>1, <3>1, ElementOfSeq
  <2>2. CASE ~(at < i /\ i <= at + l)
    BY <2>2, ElementOfSeq
  <2>3. QED
    BY <2>1, <2>2
<1>4. x \in [1 .. n -> Cells]
  <2> HIDE DEF V, x
  <2>1. QED
    BY <1>2, <1>3
<1>5. x \in Seq(Cells) /\ Len(x) = n
  <2> HIDE DEF x, n
  <2>1. QED
    BY <1>1, <1>4, BlockIsSeq
<1>6. QED
  BY <1>2, <1>5 DEF Overlaid

(* Parts of a piece of the message are pieces.                             *)
PartIsPiece(n, len, a, b) == SubSeq(Piece(n, len), a + 1, b) = Piece(n + a, b - a)

EndIsPiece(n, len, a) == DropFirst(Piece(n, len), a) = Piece(n + a, len - a)

LEMMA PiecePart ==
  ASSUME NEW n \in Nat, NEW len \in Nat, NEW a \in Nat, NEW b \in Nat, a <= b, b <= len
  PROVE  PartIsPiece(n, len, a, b)
<1> DEFINE t == Piece(n, len)
           l == b - a
           x == SubSeq(t, a + 1, b)
           y == Piece(n + a, l)
<1>1. t \in Seq(Cells) /\ Len(t) = len /\ \A i \in 1 .. len : t[i] = Cell(n + i)
  BY PieceIs
<1> HIDE DEF t
<1>2. x \in Seq(Cells) /\ Len(x) = l /\ \A i \in 1 .. l : x[i] = t[a + i]
  BY <1>1, PartIs
<1>3. y \in Seq(Cells) /\ Len(y) = l /\ \A i \in 1 .. l : y[i] = Cell((n + a) + i)
  <2>1. n + a \in Nat /\ l \in Nat
    OBVIOUS
  <2>2. QED
    BY <2>1, PieceIs
<1>4. ASSUME NEW i \in 1 .. l PROVE x[i] = y[i]
  <2>1. a + i \in 1 .. len /\ n + (a + i) = (n + a) + i
    OBVIOUS
  <2>2. QED
    BY <1>1, <1>2, <1>3, <2>1
<1> HIDE DEF x, y, l
<1>5. x = y
  BY <1>2, <1>3, <1>4, SeqEqual
<1>6. QED
  BY <1>5 DEF PartIsPiece, x, y, l, t

LEMMA PieceEnd ==
  ASSUME NEW n \in Nat, NEW len \in Nat, NEW a \in Nat, a <= len
  PROVE  EndIsPiece(n, len, a)
<1> DEFINE b == len
<1>1. Len(Piece(n, len)) = b
  BY PieceIs
<1>2. n \in Nat /\ len \in Nat /\ a \in Nat /\ b \in Nat /\ a <= b /\ b <= len
  OBVIOUS
<1> HIDE DEF b
<1>3. PartIsPiece(n, len, a, b)
  BY ONLY <1>2, PiecePart
<1>4. DropFirst(Piece(n, len), a) = Piece(n + a, b - a)
  BY <1>1, <1>3 DEF DropFirst, PartIsPiece
<1>5. QED
  BY <1>4 DEF EndIsPiece, b
(* The steps of the update functions, by name.                             *)
UpHead(p) == IF p = 0 THEN 0 ELSE MH_BLOCK - p

UpCounted(c, l) == [c EXCEPT !.total_length = @ + l]

Rebuffered(c, b) == [c EXCEPT !.partial_block_buffer = b]

UpOpened(c, cells, m, p) ==
    IF p = 0 THEN UpCounted(c, Len(cells))
    ELSE Rebuffered(BlockStep(m, UpCounted(c, Len(cells)),
                            Overlay(c.partial_block_buffer, p, SubSeq(cells, 1, UpHead(p)))),
                  Zeros(MH_BLOCK))

UpWhole(cells, p) == ((Len(cells) - UpHead(p)) \div MH_BLOCK) * MH_BLOCK

UpHashed(c, cells, m, p) ==
    BlockStep(m, UpOpened(c, cells, m, p), SubSeq(cells, UpHead(p) + 1, UpHead(p) + UpWhole(cells, p)))

UpRest(c, cells, m, p) == KeepRest(UpHashed(c, cells, m, p), DropFirst(cells, UpHead(p) + UpWhole(cells, p)))

UpSmall(c, cells, p) ==
    Rebuffered(UpCounted(c, Len(cells)), Overlay(UpCounted(c, Len(cells)).partial_block_buffer, p, cells))

LEMMA UpdateOpens ==
  ASSUME NEW m \in BOOLEAN, NEW c, NEW cells, NEW p \in Nat, p = c.total_length % MH_BLOCK,
         Len(cells) \in Nat
  PROVE  Update(c, cells, m) = IF Len(cells) = 0 THEN c
                               ELSE IF Len(cells) < MH_BLOCK - p THEN UpSmall(c, cells, p)
                               ELSE UpRest(c, cells, m, p)
<1>1. CASE Len(cells) = 0
  BY <1>1 DEF Update
<1>2. CASE Len(cells) # 0 /\ Len(cells) < MH_BLOCK - p
  BY <1>2 DEF Update, UpSmall, UpCounted, Rebuffered
<1>3. CASE Len(cells) # 0 /\ ~(Len(cells) < MH_BLOCK - p)
  BY <1>3 DEF Update, UpRest, UpHashed, UpOpened, UpCounted, Rebuffered, UpHead, UpWhole, BlockStep
<1>4. QED
  BY <1>1, <1>2, <1>3

LEMMA CountedIs ==
  ASSUME NEW m \in BOOLEAN, NEW c, NEW t, Absorbed(c, t, m), NEW l, NEW d, d = UpCounted(c, l)
  PROVE  /\ Absorbed(d, t, m)
         /\ d.total_length = c.total_length + l
         /\ d.partial_block_buffer = c.partial_block_buffer
<1>1. MhShape(c)
  BY DEF Absorbed
<1>2. /\ MhShape(d) /\ d.interim = c.interim /\ d.murmur = c.murmur
      /\ d.total_length = c.total_length + l
      /\ d.partial_block_buffer = c.partial_block_buffer
  BY <1>1 DEF MhShape, UpCounted
<1>3. QED
  BY <1>2 DEF Absorbed

LEMMA RebufferedIs ==
  ASSUME NEW m \in BOOLEAN, NEW c, NEW t, Absorbed(c, t, m), NEW b, NEW d, d = Rebuffered(c, b)
  PROVE  /\ Absorbed(d, t, m)
         /\ d.total_length = c.total_length
         /\ d.partial_block_buffer = b
<1>1. MhShape(c)
  BY DEF Absorbed
<1>2. /\ MhShape(d) /\ d.interim = c.interim /\ d.murmur = c.murmur
      /\ d.total_length = c.total_length
      /\ d.partial_block_buffer = b
  BY <1>1 DEF MhShape, Rebuffered
<1>3. QED
  BY <1>2 DEF Absorbed

OnBlock(w) == w \in Nat /\ \E q \in Nat : w = q * MH_BLOCK

LEMMA OnBlockIs ==
  ASSUME NEW w, OnBlock(w)
  PROVE  /\ MhBlocks(WholeMessage(w))
         /\ \A n \in Nat : MhBlocks(Piece(n, w))
<1>1. w \in Nat /\ \E q \in Nat : w = q * MH_BLOCK
  BY DEF OnBlock
<1>2. WholeMessage(w) \in Seq(Cells) /\ Len(WholeMessage(w)) = w
  BY <1>1, MessageIs
<1>3. ASSUME NEW n \in Nat PROVE MhBlocks(Piece(n, w))
  <2>1. Piece(n, w) \in Seq(Cells) /\ Len(Piece(n, w)) = w
    BY <1>1, PieceIs
  <2>2. QED
    BY <1>1, <2>1 DEF MhBlocks
<1>4. QED
  BY <1>1, <1>2, <1>3 DEF MhBlocks

LEMMA OnBlocks ==
  ASSUME NEW w, NEW l, OnBlock(w), OnBlock(l)
  PROVE  OnBlock(w + l)
<1>1. PICK a \in Nat : w = a * MH_BLOCK
  BY DEF OnBlock
<1>2. PICK c \in Nat : l = c * MH_BLOCK
  BY DEF OnBlock
<1> DEFINE d == a + c
<1>3. d \in Nat /\ d * MH_BLOCK = a * MH_BLOCK + c * MH_BLOCK
  BY MhSizes
<1> HIDE DEF d
<1>4. QED
  BY <1>1, <1>2, <1>3 DEF OnBlock

LEMMA FirstBlocks == OnBlock(MH_BLOCK) /\ OnBlock(0)
<1> DEFINE b == MH_BLOCK
<1>1. b \in Nat
  BY MhSizes
<1> HIDE DEF b
<1>2. b = 1 * b /\ 0 = 0 * b /\ 0 \in Nat /\ 1 \in Nat
  BY <1>1
<1>3. (\E q \in Nat : b = q * b) /\ 0 \in Nat /\ (\E q \in Nat : 0 = q * b)
  BY <1>2
<1>4. OnBlock(b)
  BY <1>1, <1>3 DEF OnBlock, b
<1>5. OnBlock(0)
  BY <1>3 DEF OnBlock, b
<1>6. QED
  BY <1>4, <1>5 DEF b

(* Whole blocks of the message are taken where they lie.                   *)
LEMMA MessageAbsorbed ==
  ASSUME NEW m \in BOOLEAN, NEW c, NEW w, OnBlock(w), Absorbed(c, WholeMessage(w), m),
         NEW l, OnBlock(l), NEW d, d = BlockStep(m, c, Piece(w, l))
  PROVE  /\ Absorbed(d, WholeMessage(w + l), m)
         /\ d.total_length = c.total_length /\ d.partial_block_buffer = c.partial_block_buffer
<1>1. w \in Nat /\ l \in Nat
  BY DEF OnBlock
<1>2. MhBlocks(Piece(w, l))
  BY <1>1, OnBlockIs
<1>3. WholeMessage(w) \o Piece(w, l) = WholeMessage(w + l)
  BY <1>1, MessageGrows
<1> DEFINE t == WholeMessage(w)
           u == Piece(w, l)
<1>4. Absorbed(c, t, m) /\ MhBlocks(u) /\ d = BlockStep(m, c, u)
  BY <1>2
<1> HIDE DEF t, u
<1>5. /\ Absorbed(d, t \o u, m)
      /\ d.total_length = c.total_length /\ d.partial_block_buffer = c.partial_block_buffer
  BY <1>4, BlockAbsorbs
<1>6. QED
  BY <1>3, <1>5 DEF t, u

(* The first p cells of the buffer follow the w cells already hashed.      *)
Buffered(b, w, p) ==
    /\ b \in Seq(Cells) /\ Len(b) = MH_BLOCK
    /\ \A i \in 1 .. p : b[i] = Cell(w + i)

LEMMA BufferGrows ==
  ASSUME NEW b, NEW w \in Nat, NEW p \in Nat, Buffered(b, w, p),
         NEW l \in Nat, p + l <= MH_BLOCK, NEW x, x = Overlay(b, p, Piece(w + p, l))
  PROVE  Buffered(x, w, p + l)
<1> DEFINE u == Piece(w + p, l)
<1>1. u \in Seq(Cells) /\ Len(u) = l /\ \A i \in 1 .. l : u[i] = Cell((w + p) + i)
  <2>1. w + p \in Nat
    OBVIOUS
  <2>2. QED
    BY <2>1, PieceIs
<1>2. x = Overlay(b, p, u)
  OBVIOUS
<1> HIDE DEF u
<1>3. b \in Seq(Cells) /\ Len(b) = MH_BLOCK /\ MH_BLOCK \in Nat /\ \A i \in 1 .. p : b[i] = Cell(w + i)
  BY MhSizes DEF Buffered
<1>4. Overlaid(b, p, u, x)
  BY <1>1, <1>2, <1>3, OverlayIs
<1>5. /\ x \in Seq(Cells) /\ Len(x) = MH_BLOCK
      /\ \A i \in 1 .. MH_BLOCK : x[i] = IF p < i /\ i <= p + l THEN u[i - p] ELSE b[i]
  BY <1>1, <1>3, <1>4 DEF Overlaid
<1>6. ASSUME NEW i \in 1 .. p + l PROVE x[i] = Cell(w + i)
  <2>1. i \in 1 .. MH_BLOCK
    BY <1>3
  <2>2. CASE i <= p
    BY <1>3, <1>5, <2>1, <2>2
  <2>3. CASE p < i
    <3>1. i - p \in 1 .. l /\ (w + p) + (i - p) = w + i
      BY <2>3
    <3>2. u[i - p] = Cell(w + i)
      BY <1>1, <3>1
    <3>3. QED
      BY <1>5, <2>1, <2>3, <3>2
  <2>4. QED
    BY <2>2, <2>3
<1>7. QED
  BY <1>5, <1>6 DEF Buffered

LEMMA BufferFull ==
  ASSUME NEW b, NEW w \in Nat, Buffered(b, w, MH_BLOCK)
  PROVE  b = Piece(w, MH_BLOCK)
<1> DEFINE u == Piece(w, MH_BLOCK)
           n == MH_BLOCK
<1>1. n \in Nat
  BY MhSizes
<1>2. u \in Seq(Cells) /\ Len(u) = n /\ \A i \in 1 .. n : u[i] = Cell(w + i)
  BY <1>1, PieceIs
<1>3. b \in Seq(Cells) /\ Len(b) = n /\ \A i \in 1 .. n : b[i] = Cell(w + i)
  BY DEF Buffered
<1> HIDE DEF u, n
<1>4. b = u
  <2>1. \A i \in 1 .. n : b[i] = u[i]
    BY <1>2, <1>3
  <2>2. QED
    BY <1>1, <1>2, <1>3, <2>1, SeqEqual
<1>5. QED
  BY <1>4 DEF u, n

(* A context that has hashed w cells and keeps p more, as an update leaves *)
(* it.                                                                     *)
MhCut(c, w, p, m) ==
    /\ OnBlock(w)
    /\ p \in 0 .. MH_BLOCK - 1
    /\ c.total_length = w + p
    /\ Absorbed(c, WholeMessage(w), m)
    /\ Buffered(c.partial_block_buffer, w, p)

LEMMA CutPart ==
  ASSUME NEW w, OnBlock(w), NEW p \in 0 .. MH_BLOCK - 1
  PROVE  (w + p) % MH_BLOCK = p
<1> DEFINE b == MH_BLOCK
<1>1. PICK q \in Nat : w = q * b
  BY DEF OnBlock
<1>2. b \in Nat \ {0} /\ p \in 0 .. b - 1
  BY MhSizes
<1> HIDE DEF b
<1>3. (q * b + p) % b = p
  BY <1>2, ModuloIs
<1>4. QED
  BY <1>1, <1>3 DEF b

(* An update that does not fill the buffer.                                *)
LEMMA UpSmallHolds ==
  ASSUME NEW m \in BOOLEAN, NEW c, NEW w, NEW p, MhCut(c, w, p, m), NEW len \in Nat,
         len < MH_BLOCK - p, NEW d, d = UpSmall(c, Piece(w + p, len), p)
  PROVE  MhCut(d, w, p + len, m)
<1> DEFINE u == Piece(w + p, len)
           e == UpCounted(c, Len(u))
<1>1. /\ OnBlock(w) /\ p \in 0 .. MH_BLOCK - 1 /\ c.total_length = w + p
      /\ Absorbed(c, WholeMessage(w), m) /\ Buffered(c.partial_block_buffer, w, p)
  BY DEF MhCut
<1>2. w \in Nat /\ p \in Nat /\ w + p \in Nat /\ MH_BLOCK \in Nat
  BY <1>1, MhSizes DEF OnBlock
<1>3. Len(u) = len
  BY <1>2, PieceIs
<1>4. d = Rebuffered(e, Overlay(e.partial_block_buffer, p, u))
  BY DEF UpSmall
<1> HIDE DEF e
<1>5. /\ Absorbed(e, WholeMessage(w), m) /\ e.total_length = c.total_length + len
      /\ e.partial_block_buffer = c.partial_block_buffer
  <2> DEFINE t == WholeMessage(w)
  <2>1. Absorbed(c, t, m) /\ e = UpCounted(c, Len(u))
    BY <1>1 DEF e
  <2> HIDE DEF t, u
  <2>2. /\ Absorbed(e, t, m) /\ e.total_length = c.total_length + Len(u)
        /\ e.partial_block_buffer = c.partial_block_buffer
    BY <2>1, CountedIs
  <2>3. QED
    BY <1>3, <2>2 DEF t
<1> DEFINE x == Overlay(c.partial_block_buffer, p, u)
<1>6. Buffered(x, w, p + len)
  <2>1. p + len <= MH_BLOCK
    BY <1>2
  <2>2. QED
    BY <1>1, <1>2, <2>1, BufferGrows
<1>7. d = Rebuffered(e, x)
  BY <1>4, <1>5
<1> HIDE DEF x, u
<1>8. /\ Absorbed(d, WholeMessage(w), m) /\ d.total_length = e.total_length
      /\ d.partial_block_buffer = x
  BY <1>5, <1>7, RebufferedIs
<1>9. d.total_length = w + (p + len) /\ p + len \in 0 .. MH_BLOCK - 1
  BY <1>1, <1>2, <1>5, <1>8
<1>10. QED
  BY <1>1, <1>6, <1>8, <1>9 DEF MhCut

(* What an update has done when the buffer is empty again.                 *)
UpOpen(o, w, n, m) ==
    /\ OnBlock(w)
    /\ o.total_length = n
    /\ Absorbed(o, WholeMessage(w), m)
    /\ Buffered(o.partial_block_buffer, w, 0)

LEMMA UpOpenedHolds ==
  ASSUME NEW m \in BOOLEAN, NEW c, NEW w, NEW p, MhCut(c, w, p, m), NEW len \in Nat,
         ~(len < MH_BLOCK - p), len # 0, NEW o, o = UpOpened(c, Piece(w + p, len), m, p)
  PROVE  /\ UpHead(p) \in 0 .. len
         /\ UpOpen(o, (w + p) + UpHead(p), (w + p) + len, m)
<1> DEFINE u == Piece(w + p, len)
           e == UpCounted(c, Len(u))
           t == WholeMessage(w)
           n == w + p
<1>1. /\ OnBlock(w) /\ p \in 0 .. MH_BLOCK - 1 /\ c.total_length = w + p
      /\ Absorbed(c, WholeMessage(w), m) /\ Buffered(c.partial_block_buffer, w, p)
  BY DEF MhCut
<1>2. w \in Nat /\ p \in Nat /\ n \in Nat /\ MH_BLOCK \in Nat
  BY <1>1, MhSizes DEF OnBlock
<1>3. Len(u) = len
  BY <1>2, PieceIs
<1>4. /\ Absorbed(e, t, m) /\ e.total_length = n + len
      /\ e.partial_block_buffer = c.partial_block_buffer
  <2>1. Absorbed(c, t, m) /\ e = UpCounted(c, Len(u))
    BY <1>1
  <2> HIDE DEF t, u, e
  <2>2. /\ Absorbed(e, t, m) /\ e.total_length = c.total_length + Len(u)
        /\ e.partial_block_buffer = c.partial_block_buffer
    BY <2>1, CountedIs
  <2>3. QED
    BY <1>1, <1>3, <2>2
<1>5. CASE p = 0
  <2>1. o = e /\ UpHead(p) = 0
    BY <1>5 DEF UpOpened, UpHead
  <2>2. Buffered(c.partial_block_buffer, w, 0)
    BY <1>1, <1>5
  <2>3. (w + p) + UpHead(p) = w
    BY <1>2, <1>5, <2>1
  <2> HIDE DEF e
  <2>4. QED
    BY <1>1, <1>4, <2>1, <2>2, <2>3 DEF UpOpen
<1>6. CASE p # 0
  <2> DEFINE h == UpHead(p)
             z == SubSeq(u, 1, h)
             x == Overlay(c.partial_block_buffer, p, z)
             f == BlockStep(m, e, x)
  <2>1. h \in Nat /\ h = MH_BLOCK - p /\ h <= len
    BY <1>1, <1>2, <1>6 DEF UpHead
  <2>2. o = Rebuffered(f, Zeros(MH_BLOCK))
    BY <1>6 DEF UpOpened
  <2> HIDE DEF h
  <2>3. z = Piece(w + p, h)
    <3> DEFINE a == 0
    <3>1. n \in Nat /\ len \in Nat /\ a \in Nat /\ h \in Nat /\ a <= h /\ h <= len
      BY <1>2, <2>1
    <3>2. n + a = n /\ a + 1 = 1 /\ h - a = h
      BY <1>2, <2>1
    <3> HIDE DEF a, n
    <3>3. PartIsPiece(n, len, a, h)
      BY ONLY <3>1, PiecePart
    <3>4. SubSeq(Piece(n, len), a + 1, h) = Piece(n + a, h - a)
      BY <3>3 DEF PartIsPiece
    <3>5. QED
      BY <3>2, <3>4 DEF n
  <2>4. Buffered(x, w, MH_BLOCK)
    <3>1. p + h <= MH_BLOCK /\ p + h = MH_BLOCK
      BY <1>2, <2>1
    <3> HIDE DEF z
    <3>2. Buffered(x, w, p + h)
      BY <1>1, <1>2, <2>1, <2>3, <3>1, BufferGrows
    <3>3. QED
      BY <3>1, <3>2
  <2> HIDE DEF z, x
  <2>5. x = Piece(w, MH_BLOCK)
    BY <1>2, <2>4, BufferFull
  <2>6. f = BlockStep(m, e, Piece(w, MH_BLOCK))
    BY <2>5
  <2> HIDE DEF e, f, n
  <2>7. Absorbed(f, WholeMessage(w + MH_BLOCK), m) /\ f.total_length = n + len
    <3> DEFINE l == MH_BLOCK
    <3>1. OnBlock(l) /\ f = BlockStep(m, e, Piece(w, l)) /\ Absorbed(e, WholeMessage(w), m)
      BY <1>4, <2>6, FirstBlocks
    <3> HIDE DEF l
    <3>2. Absorbed(f, WholeMessage(w + l), m) /\ f.total_length = e.total_length
      BY <1>1, <3>1, MessageAbsorbed
    <3>3. QED
      BY <1>4, <3>2 DEF l
  <2> DEFINE v == WholeMessage(w + MH_BLOCK)
             y == Zeros(MH_BLOCK)
  <2>8. y \in Seq(Cells) /\ Len(y) = MH_BLOCK
    BY <1>2, ZerosAre
  <2> HIDE DEF v, y
  <2>9. Absorbed(o, v, m) /\ o.total_length = n + len /\ o.partial_block_buffer = y
    <3>1. Absorbed(f, v, m)
      BY <2>7 DEF v
    <3>2. o = Rebuffered(f, y)
      BY <2>2 DEF y
    <3>3. QED
      BY <2>7, <3>1, <3>2, RebufferedIs
  <2>10. OnBlock(w + MH_BLOCK)
    BY <1>1, FirstBlocks, OnBlocks
  <2>11. (w + p) + h = w + MH_BLOCK
    BY <1>2, <2>1
  <2>12. Buffered(y, w + MH_BLOCK, 0)
    BY <2>8 DEF Buffered
  <2>13. UpOpen(o, w + MH_BLOCK, n + len, m)
    BY <2>9, <2>10, <2>12 DEF UpOpen, v
  <2>14. QED
    BY <2>1, <2>11, <2>13 DEF h, n
<1>7. QED
  BY <1>5, <1>6
(* An update that fills the buffer: the blocks behind it, then the rest.   *)
LEMMA UpRestHolds ==
  ASSUME NEW m \in BOOLEAN, NEW c, NEW w, NEW p, MhCut(c, w, p, m), NEW len \in Nat,
         ~(len < MH_BLOCK - p), len # 0, NEW d, d = UpRest(c, Piece(w + p, len), m, p)
  PROVE  \E v, r : v + r = (w + p) + len /\ MhCut(d, v, r, m)
<1> DEFINE u  == Piece(w + p, len)
           n  == w + p
           o  == UpOpened(c, u, m, p)
           h  == UpHead(p)
           wh == UpWhole(u, p)
           g  == UpHashed(c, u, m, p)
           k  == n + h
           a  == h + wh
           r  == len - a
           v  == k + wh
<1>1. OnBlock(w) /\ p \in 0 .. MH_BLOCK - 1
  BY DEF MhCut
<1>2. w \in Nat /\ p \in Nat /\ n \in Nat /\ MH_BLOCK \in Nat \ {0}
  BY <1>1, MhSizes DEF OnBlock
<1>3. Len(u) = len
  BY <1>2, PieceIs
<1>4. h \in 0 .. len /\ UpOpen(o, k, n + len, m)
  <2> HIDE DEF o
  <2>1. o = UpOpened(c, Piece(w + p, len), m, p)
    BY DEF o
  <2>2. UpHead(p) \in 0 .. len /\ UpOpen(o, (w + p) + UpHead(p), (w + p) + len, m)
    BY <2>1, UpOpenedHolds
  <2>3. QED
    BY <2>2
<1>5. g = BlockStep(m, o, SubSeq(u, h + 1, a))
  BY DEF UpHashed
<1>6. d = KeepRest(g, DropFirst(u, a))
  BY DEF UpRest
<1> HIDE DEF o, g
<1>7. wh = ((len - h) \div MH_BLOCK) * MH_BLOCK
  BY <1>3 DEF UpWhole
<1> HIDE DEF h, wh
<1>8. wh \in Nat /\ OnBlock(wh) /\ len - h - wh \in 0 .. MH_BLOCK - 1
  <2> DEFINE x == len - h
             b == MH_BLOCK
             y == x \div b
             z == x % b
  <2>1. x \in Nat /\ b \in Nat \ {0}
    BY <1>2, <1>4
  <2>2. wh = y * b
    BY <1>7
  <2> HIDE DEF x
  <2>3. y \in Nat /\ z \in 0 .. b - 1 /\ x = y * b + z
    BY <2>1, DivisionOf
  <2> HIDE DEF y, z, b
  <2>4. y * b \in Nat
    BY <2>1, <2>3
  <2>5. wh \in Nat /\ x - wh = z
    BY <2>1, <2>2, <2>3, <2>4
  <2>6. OnBlock(wh)
    BY <2>2, <2>3, <2>5 DEF OnBlock, b
  <2>7. QED
    BY <2>3, <2>5, <2>6 DEF x, b
<1>9. /\ a \in Nat /\ h <= a /\ a <= len /\ a - h = wh /\ r \in 0 .. MH_BLOCK - 1 /\ r \in Nat
      /\ h \in Nat /\ k \in Nat /\ n + a = v /\ v \in Nat /\ v + r = n + len
  BY <1>2, <1>4, <1>8
<1>10. SubSeq(u, h + 1, a) = Piece(k, wh)
  <2> HIDE DEF n, a
  <2>1. n \in Nat /\ len \in Nat /\ h \in Nat /\ a \in Nat /\ h <= a /\ a <= len
    BY <1>2, <1>9
  <2>2. PartIsPiece(n, len, h, a)
    BY ONLY <2>1, PiecePart
  <2>3. SubSeq(Piece(n, len), h + 1, a) = Piece(n + h, a - h)
    BY <2>2 DEF PartIsPiece
  <2>4. QED
    BY <1>9, <2>3 DEF n
<1>11. DropFirst(u, a) = Piece(v, r)
  <2> HIDE DEF n, a
  <2>1. n \in Nat /\ len \in Nat /\ a \in Nat /\ a <= len
    BY <1>2, <1>9
  <2>2. EndIsPiece(n, len, a)
    BY ONLY <2>1, PieceEnd
  <2>3. QED
    BY <1>9, <2>2 DEF EndIsPiece, n
<1> HIDE DEF u, n, k, a, r
<1>12. /\ OnBlock(k) /\ o.total_length = n + len
       /\ Absorbed(o, WholeMessage(k), m) /\ Buffered(o.partial_block_buffer, k, 0)
  BY <1>4 DEF UpOpen
<1>13. g = BlockStep(m, o, Piece(k, wh))
  BY <1>5, <1>10
<1>14. /\ Absorbed(g, WholeMessage(v), m)
       /\ g.total_length = n + len /\ g.partial_block_buffer = o.partial_block_buffer
  BY <1>8, <1>12, <1>13, MessageAbsorbed
<1> DEFINE b == g.partial_block_buffer
           x == Overlay(b, 0, Piece(v, r))
           t == WholeMessage(v)
<1>15. d = Rebuffered(g, x)
  BY <1>6, <1>11 DEF KeepRest, Rebuffered
<1>16. Buffered(b, v, 0)
  BY <1>12, <1>14 DEF Buffered
<1> HIDE DEF b, v
<1>17. Buffered(x, v, r)
  <2> DEFINE z == 0
  <2>1. z \in Nat /\ z + r <= MH_BLOCK /\ z + r = r /\ v + z = v
    BY <1>2, <1>9
  <2>2. x = Overlay(b, z, Piece(v + z, r)) /\ Buffered(b, v, z)
    BY <1>16, <2>1
  <2> HIDE DEF z, x
  <2>3. Buffered(x, v, z + r)
    BY <1>9, <2>1, <2>2, BufferGrows
  <2>4. QED
    BY <2>1, <2>3
<1> HIDE DEF x, t
<1>18. Absorbed(d, t, m) /\ d.total_length = g.total_length /\ d.partial_block_buffer = x
  <2>1. Absorbed(g, t, m)
    BY <1>14 DEF t
  <2>2. QED
    BY <1>15, <2>1, RebufferedIs
<1>19. OnBlock(v)
  <2>1. OnBlock(k + wh)
    BY <1>8, <1>12, OnBlocks
  <2>2. QED
    BY <2>1 DEF v
<1>20. MhCut(d, v, r, m)
  BY <1>9, <1>14, <1>17, <1>18, <1>19 DEF MhCut, t
<1>21. v + r = (w + p) + len
  BY <1>9 DEF n
<1>22. QED
  BY <1>20, <1>21

(* However a message is cut, an update goes on where the last one ended.   *)
LEMMA MhUpdateHolds ==
  ASSUME NEW m \in BOOLEAN, NEW c, NEW w, NEW p, MhCut(c, w, p, m), NEW len \in Nat,
         NEW d, d = Update(c, Piece(w + p, len), m)
  PROVE  \E v, r : v + r = (w + p) + len /\ MhCut(d, v, r, m)
<1> DEFINE u == Piece(w + p, len)
<1>1. OnBlock(w) /\ p \in 0 .. MH_BLOCK - 1 /\ c.total_length = w + p
  BY DEF MhCut
<1>2. w \in Nat /\ p \in Nat /\ w + p \in Nat
  BY <1>1, MhSizes DEF OnBlock
<1>3. Len(u) = len
  BY <1>2, PieceIs
<1>4. p = c.total_length % MH_BLOCK
  BY <1>1, CutPart
<1>5. d = IF len = 0 THEN c
          ELSE IF len < MH_BLOCK - p THEN UpSmall(c, u, p)
          ELSE UpRest(c, u, m, p)
  <2> HIDE DEF u
  <2>1. Len(u) \in Nat /\ d = Update(c, u, m)
    BY <1>3 DEF u
  <2>2. Update(c, u, m) = IF Len(u) = 0 THEN c
                          ELSE IF Len(u) < MH_BLOCK - p THEN UpSmall(c, u, p)
                          ELSE UpRest(c, u, m, p)
    BY <1>2, <1>4, <2>1, UpdateOpens
  <2>3. QED
    BY <1>3, <2>1, <2>2
<1>6. CASE len = 0
  <2>1. d = c /\ w + p = (w + p) + len
    BY <1>2, <1>5, <1>6
  <2>2. QED
    BY <2>1
<1>7. CASE len # 0 /\ len < MH_BLOCK - p
  <2>1. d = UpSmall(c, Piece(w + p, len), p)
    BY <1>5, <1>7
  <2>2. MhCut(d, w, p + len, m)
    BY <1>7, <2>1, UpSmallHolds
  <2>3. w + (p + len) = (w + p) + len
    BY <1>2
  <2>4. QED
    BY <2>2, <2>3
<1>8. CASE len # 0 /\ ~(len < MH_BLOCK - p)
  <2>1. d = UpRest(c, Piece(w + p, len), m, p)
    BY <1>5, <1>8
  <2>2. QED
    BY <1>8, <2>1, UpRestHolds
<1>9. QED
  BY <1>6, <1>7, <1>8
(* Nothing absorbed yet.                                                   *)
LEMMA MhInitHolds ==
  ASSUME NEW m \in BOOLEAN
  PROVE  MhCut(mh_init, 0, 0, m)
<1> DEFINE z == 0
           t == WholeMessage(z)
<1>1. MH_BLOCK \in Nat \ {0} /\ z \in Nat /\ z \in 0 .. MH_BLOCK - 1 /\ z + z = z
  BY MhSizes
<1>2. t \in Seq(Cells) /\ Len(t) = z
  BY <1>1, MessageIs
<1>3. OnBlock(z)
  BY FirstBlocks
<1>4. MhBlocks(t)
  BY <1>3, OnBlockIs
<1>5. t = << >>
  BY <1>2, EmptySeq
<1>6. ASSUME NEW s \in 0 .. SEGS - 1 PROVE SegmentOf(t, s) = << >>
  <2>1. z * MH_BLOCK = z /\ z * SegCells = z
    BY MhSizes
  <2> DEFINE x == SegmentOf(t, s)
  <2> HIDE DEF t, z
  <2>2. Segmented(t, s, z, x)
    BY <1>1, <1>2, <2>1, SegmentIs
  <2> HIDE DEF x
  <2>3. x \in Seq(Cells) /\ Len(x) = z
    BY <2>1, <2>2 DEF Segmented
  <2>4. x = << >>
    BY <2>3, EmptySeq DEF z
  <2>5. QED
    BY <2>4 DEF x
<1>7. MurmurBlocks(t) = << >>
  <2>1. Len(t) < MUR_BLOCK
    BY <1>2, MhSizes
  <2>2. QED
    BY <1>2, <2>1, MurmurNone
<1>8. /\ MhShape(mh_init) /\ mh_init.murmur = << >> /\ mh_init.total_length = z
      /\ mh_init.partial_block_buffer = Zeros(MH_BLOCK)
      /\ mh_init.interim = [s \in 0 .. SEGS - 1 |-> << >>]
  BY DEF mh_init, MhShape
<1> HIDE DEF t
<1>9. [s \in 0 .. SEGS - 1 |-> << >>] = Segs(t)
  BY <1>6 DEF Segs
<1>10. Absorbed(mh_init, t, m)
  BY <1>4, <1>7, <1>8, <1>9 DEF Absorbed
<1>11. Buffered(mh_init.partial_block_buffer, z, z)
  <2>1. Zeros(MH_BLOCK) \in Seq(Cells) /\ Len(Zeros(MH_BLOCK)) = MH_BLOCK
    BY <1>1, ZerosAre
  <2>2. QED
    BY <1>8, <2>1 DEF Buffered
<1>12. MhCut(mh_init, z, z, m)
  BY <1>1, <1>3, <1>8, <1>10, <1>11 DEF MhCut, t
<1>13. QED
  BY <1>12 DEF z

(* The blocks of the tail, by name.                                        *)
TailFirst(c, e) ==
    [i \in 1 .. MH_BLOCK |-> CASE i < e -> c.partial_block_buffer[i]
                               [] i = e -> Hex80
                               [] OTHER -> Zero]

TailLast(c, e, n) == WithLength(IF SecondBlock(e) THEN Zeros(MH_BLOCK) ELSE TailFirst(c, e), n)

TailHashed(c, e, n) ==
    mh_block(IF SecondBlock(e) THEN mh_block(c, TailFirst(c, e)) ELSE c, TailLast(c, e, n))

TailEnds(c, e, n) ==
    [TailHashed(c, e, n) EXCEPT !.partial_block_buffer = TailLast(c, e, n),
                                !.digest = TailHashed(c, e, n).interim]

LEMMA TailOpens ==
  ASSUME NEW c, NEW n \in Nat, NEW p, p = n % MH_BLOCK
  PROVE  mh_tail(c, n) = TailEnds(c, p + 1, n)
BY DEF mh_tail, TailHashed, TailLast, TailFirst, TailEnds

(* The end of the message, marked.                                         *)
Marked(x, w, p) ==
    /\ x \in Seq(Cells) /\ Len(x) = MH_BLOCK
    /\ \A i \in 1 .. MH_BLOCK : x[i] = IF i <= p THEN Cell(w + i)
                                       ELSE IF i = p + 1 THEN Hex80 ELSE Zero

LEMMA TailFirstIs ==
  ASSUME NEW c, NEW w \in Nat, NEW p \in 0 .. MH_BLOCK - 1, Buffered(c.partial_block_buffer, w, p)
  PROVE  Marked(TailFirst(c, p + 1), w, p)
<1> DEFINE x == TailFirst(c, p + 1)
           b == c.partial_block_buffer
           n == MH_BLOCK
<1>1. n \in Nat /\ p \in Nat
  BY MhSizes
<1>2. \A i \in 1 .. p : b[i] = Cell(w + i)
  BY DEF Buffered
<1>3. x = [i \in 1 .. n |-> CASE i < p + 1 -> b[i] [] i = p + 1 -> Hex80 [] OTHER -> Zero]
  BY DEF TailFirst
<1> HIDE DEF x, n
<1>4. ASSUME NEW i \in 1 .. n
      PROVE  x[i] = IF i <= p THEN Cell(w + i) ELSE IF i = p + 1 THEN Hex80 ELSE Zero
  <2>1. CASE i <= p
    <3>1. i \in 1 .. p /\ i < p + 1
      BY <1>1, <2>1
    <3>2. QED
      BY <1>2, <1>3, <2>1, <3>1
  <2>2. CASE i = p + 1
    <3>1. ~(i < p + 1) /\ ~(i <= p)
      BY <1>1, <2>2
    <3>2. x[i] = Hex80
      BY <1>3, <2>2, <3>1
    <3>3. QED
      BY <2>2, <3>1, <3>2
  <2>3. CASE i > p + 1
    <3>1. ~(i < p + 1) /\ ~(i <= p) /\ i # p + 1
      BY <1>1, <2>3
    <3>2. x[i] = Zero
      BY <1>3, <3>1
    <3>3. QED
      BY <3>1, <3>2
  <2>4. QED
    BY <1>1, <2>1, <2>2, <2>3
<1>5. ASSUME NEW i \in 1 .. n PROVE x[i] \in Cells
  <2>1. i \in Nat /\ (w + i) \in Nat
    BY <1>1
  <2>2. Hex80 \in Cells /\ Zero \in Cells /\ Cell(w + i) \in Cells
    BY <2>1 DEF Cells
  <2>3. QED
    BY <1>4, <2>2
<1>6. x \in [1 .. n -> Cells]
  BY <1>3, <1>5
<1>7. x \in Seq(Cells) /\ Len(x) = n
  BY <1>1, <1>6, BlockIsSeq
<1>8. QED
  BY <1>4, <1>7 DEF Marked, x, n

LEMMA WithLengthIs ==
  ASSUME NEW b \in Seq(Cells), Len(b) = MH_BLOCK, NEW n \in Nat, NEW x, x = WithLength(b, n)
  PROVE  /\ x \in Seq(Cells) /\ Len(x) = MH_BLOCK
         /\ \A i \in 1 .. MH_BLOCK :
                x[i] = IF i <= MH_BLOCK - LENFIELD THEN b[i]
                       ELSE IF i = MH_BLOCK THEN LengthCell(n) ELSE Zero
<1> DEFINE f == LENFIELD
           k == f - 1
           z == Zeros(k)
           y == Append(z, LengthCell(n))
           s == MH_BLOCK
           a == s - f
<1>1. f \in Nat \ {0} /\ k \in Nat /\ s \in Nat /\ a \in Nat /\ k + 1 = f /\ a + f = s
  BY MhSizes
<1>2. z \in Seq(Cells) /\ Len(z) = k /\ \A i \in 1 .. k : z[i] = Zero
  BY <1>1, ZerosAre
<1> HIDE DEF z
<1>3. LengthCell(n) \in Cells
  BY DEF Cells
<1>4. /\ y \in Seq(Cells) /\ Len(y) = f
      /\ \A i \in 1 .. f : y[i] = IF i = f THEN LengthCell(n) ELSE Zero
  <2> HIDE DEF k
  <2>1. y \in Seq(Cells) /\ Len(y) = k + 1 /\ (\A i \in 1 .. k : y[i] = z[i]) /\ y[k + 1] = LengthCell(n)
    BY <1>1, <1>2, <1>3, AppendProperties
  <2> HIDE DEF y, f
  <2>2. ASSUME NEW i \in 1 .. f PROVE y[i] = IF i = f THEN LengthCell(n) ELSE Zero
    <3>1. CASE i = f
      BY <1>1, <2>1, <3>1
    <3>2. CASE i # f
      <4>1. i \in 1 .. k
        BY <1>1, <3>2
      <4>2. QED
        BY <1>2, <2>1, <3>2, <4>1
    <3>3. QED
      BY <3>1, <3>2
  <2>3. QED
    BY <1>1, <2>1, <2>2
<1>5. x = Overlay(b, a, y)
  BY DEF WithLength, z
<1> HIDE DEF y, a, f, k, s
<1>6. Overlaid(b, a, y, x)
  BY <1>1, <1>4, <1>5, OverlayIs
<1>7. /\ x \in Seq(Cells) /\ Len(x) = s
      /\ \A i \in 1 .. s : x[i] = IF a < i /\ i <= a + f THEN y[i - a] ELSE b[i]
  BY <1>4, <1>6 DEF Overlaid, s
<1>8. ASSUME NEW i \in 1 .. s
      PROVE  x[i] = IF i <= a THEN b[i] ELSE IF i = s THEN LengthCell(n) ELSE Zero
  <2>1. CASE i <= a
    <3>1. ~(a < i)
      BY <1>1, <2>1
    <3>2. QED
      BY <1>7, <2>1, <3>1
  <2>2. CASE ~(i <= a)
    <3>1. a < i /\ i <= a + f /\ i - a \in 1 .. f /\ (i - a = f <=> i = s)
      BY <1>1, <2>2
    <3>2. x[i] = y[i - a]
      BY <1>7, <3>1
    <3>3. QED
      BY <1>4, <2>2, <3>1, <3>2
  <2>3. QED
    BY <2>1, <2>2
<1>9. QED
  BY <1>7, <1>8 DEF a, s, f
InMessage(y, w, p, end) ==
    /\ y \in Seq(Cells) /\ Len(y) = w + MH_BLOCK
    /\ \A i \in 1 .. w + MH_BLOCK : y[i] = PaddedCell(w + p, end, i)

LEMMA BlockInMessage ==
  ASSUME NEW x, NEW w, NEW p \in 0 .. MH_BLOCK - 1, OnBlock(w), Marked(x, w, p),
         NEW end \in Nat, w + MH_BLOCK < end,
         NEW y, y = WholeMessage(w) \o x
  PROVE  InMessage(y, w, p, end)
<1> DEFINE t == WholeMessage(w)
           b == MH_BLOCK
           n == w + p
<1>1. w \in Nat /\ b \in Nat \ {0} /\ p \in 0 .. b - 1
  BY MhSizes DEF OnBlock
<1>2. t \in Seq(Cells) /\ Len(t) = w /\ \A i \in 1 .. w : t[i] = Cell(i)
  BY <1>1, MessageIs
<1>3. /\ x \in Seq(Cells) /\ Len(x) = b
      /\ \A i \in 1 .. b : x[i] = IF i <= p THEN Cell(w + i) ELSE IF i = p + 1 THEN Hex80 ELSE Zero
  BY DEF Marked
<1> HIDE DEF t
<1>4. Joined(Cells, t, x, y)
  BY <1>2, <1>3, JoinIs DEF t
<1> HIDE DEF b
<1>5. /\ y \in Seq(Cells) /\ Len(y) = w + b
      /\ \A i \in 1 .. w : y[i] = t[i]
      /\ \A i \in 1 .. b : y[w + i] = x[i]
  BY <1>2, <1>3, <1>4 DEF Joined
<1>6. ASSUME NEW i \in 1 .. w + b PROVE y[i] = PaddedCell(n, end, i)
  <2>1. CASE i <= w
    <3>1. i \in 1 .. w /\ i <= n
      BY <1>1, <2>1
    <3>2. QED
      BY <1>2, <1>5, <3>1 DEF PaddedCell
  <2>2. CASE i > w
    <3> DEFINE j == i - w
    <3>1. j \in 1 .. b /\ w + j = i /\ (j <= p <=> i <= n) /\ (j = p + 1 <=> i = n + 1)
      BY <1>1, <2>2
    <3>2. i # end
      BY <1>1 DEF b
    <3> HIDE DEF j, n
    <3>3. y[i] = x[j]
      BY <1>5, <3>1
    <3>4. x[j] = IF j <= p THEN Cell(i) ELSE IF j = p + 1 THEN Hex80 ELSE Zero
      BY <1>3, <3>1
    <3>5. QED
      BY <3>1, <3>2, <3>3, <3>4 DEF PaddedCell
  <2>3. i <= w \/ i > w
    BY <1>1
  <2>4. QED
    BY <2>1, <2>2, <2>3
<1>7. QED
  BY <1>5, <1>6 DEF InMessage, b, n

(* The tail of a message that ends where there is room for the length.     *)
LEMMA OneTail ==
  ASSUME NEW x, NEW w, NEW p \in 0 .. MH_BLOCK - 1, OnBlock(w), Marked(x, w, p),
         ~SecondBlock(p + 1), NEW y, y = WholeMessage(w) \o WithLength(x, w + p)
  PROVE  IsPadded(y, w + p, w + MH_BLOCK)
<1> DEFINE t == WholeMessage(w)
           b == MH_BLOCK
           f == LENFIELD
           n == w + p
           l == WithLength(x, n)
           end == w + b
<1>1. w \in Nat /\ b \in Nat \ {0} /\ p \in 0 .. b - 1 /\ f \in 1 .. b - 1 /\ n \in Nat
  <2>1. w \in Nat
    BY DEF OnBlock
  <2>2. b \in Nat \ {0} /\ f \in 1 .. b - 1
    BY MhSizes
  <2>3. p \in 0 .. b - 1
    OBVIOUS
  <2> HIDE DEF b, f
  <2>4. n \in Nat
    BY <2>1, <2>2, <2>3
  <2>5. QED
    BY <2>1, <2>2, <2>3, <2>4
<1>2. t \in Seq(Cells) /\ Len(t) = w /\ \A i \in 1 .. w : t[i] = Cell(i)
  BY <1>1, MessageIs
<1>3. p + 1 <= b - f
  BY <1>1 DEF SecondBlock
<1>4. /\ x \in Seq(Cells) /\ Len(x) = b
      /\ \A i \in 1 .. b : x[i] = IF i <= p THEN Cell(w + i) ELSE IF i = p + 1 THEN Hex80 ELSE Zero
  BY DEF Marked
<1>5. /\ l \in Seq(Cells) /\ Len(l) = b
      /\ \A i \in 1 .. b : l[i] = IF i <= b - f THEN x[i] ELSE IF i = b THEN LengthCell(n) ELSE Zero
  <2> DEFINE o == l
  <2>1. o = WithLength(x, n) /\ x \in Seq(Cells) /\ Len(x) = MH_BLOCK /\ n \in Nat
    BY <1>1, <1>4
  <2> HIDE DEF o
  <2>2. /\ o \in Seq(Cells) /\ Len(o) = MH_BLOCK
        /\ \A i \in 1 .. MH_BLOCK :
                o[i] = IF i <= MH_BLOCK - LENFIELD THEN x[i]
                       ELSE IF i = MH_BLOCK THEN LengthCell(n) ELSE Zero
    BY ONLY <2>1, WithLengthIs
  <2>3. QED
    BY <2>2 DEF o
<1> HIDE DEF t, l
<1>6. Joined(Cells, t, l, y)
  BY <1>2, <1>5, JoinIs DEF t, l
<1> HIDE DEF b, f
<1>7. /\ y \in Seq(Cells) /\ Len(y) = end
      /\ \A i \in 1 .. w : y[i] = t[i]
      /\ \A i \in 1 .. b : y[w + i] = l[i]
  BY <1>2, <1>5, <1>6 DEF Joined
<1>8. ASSUME NEW i \in 1 .. end PROVE y[i] = PaddedCell(n, end, i)
  <2>1. CASE i <= w
    <3>1. i \in 1 .. w /\ i <= n
      BY <1>1, <2>1
    <3>2. QED
      BY <1>2, <1>7, <3>1 DEF PaddedCell
  <2>2. CASE i > w
    <3> DEFINE j == i - w
    <3>1. /\ j \in 1 .. b /\ w + j = i /\ (j <= p <=> i <= n) /\ (j = p + 1 <=> i = n + 1)
          /\ (j = b <=> i = end) /\ (j <= p => j <= b - f) /\ (j = p + 1 => j <= b - f)
          /\ (j <= b - f => j # b)
      BY <1>1, <1>3, <2>2
    <3> HIDE DEF j, n, end
    <3>2. y[i] = l[j]
      BY <1>7, <3>1
    <3>3. l[j] = IF j <= b - f THEN x[j] ELSE IF j = b THEN LengthCell(n) ELSE Zero
      BY <1>5, <3>1
    <3>4. x[j] = IF j <= p THEN Cell(i) ELSE IF j = p + 1 THEN Hex80 ELSE Zero
      BY <1>4, <3>1
    <3>5. QED
      BY <3>1, <3>2, <3>3, <3>4 DEF PaddedCell
  <2>3. i <= w \/ i > w
    BY <1>1
  <2>4. QED
    BY <2>1, <2>2, <2>3
<1>9. QED
  BY <1>7, <1>8 DEF IsPadded, n, end, b

(* The tail that needs a second block for the length.                      *)
LEMMA TwoTails ==
  ASSUME NEW x, NEW w, NEW p \in 0 .. MH_BLOCK - 1, OnBlock(w), Marked(x, w, p),
         NEW t, t = WholeMessage(w) \o x,
         NEW y, y = t \o WithLength(Zeros(MH_BLOCK), w + p)
  PROVE  IsPadded(y, w + p, w + 2 * MH_BLOCK)
<1> DEFINE b == MH_BLOCK
           f == LENFIELD
           n == w + p
           z == Zeros(b)
           l == WithLength(z, n)
           end == w + 2 * b
           v == w + b
<1>1. /\ w \in Nat /\ b \in Nat \ {0} /\ p \in 0 .. b - 1 /\ f \in 1 .. b - 1 /\ n \in Nat
      /\ end \in Nat /\ v < end /\ v + b = end /\ v \in Nat /\ n < v
  <2>1. w \in Nat
    BY DEF OnBlock
  <2>2. b \in Nat \ {0} /\ f \in 1 .. b - 1
    BY MhSizes
  <2>3. p \in 0 .. b - 1
    OBVIOUS
  <2> HIDE DEF b, f
  <2>4. n \in Nat /\ end \in Nat /\ v < end /\ v + b = end /\ v \in Nat /\ n < v
    BY <2>1, <2>2, <2>3
  <2>5. QED
    BY <2>1, <2>2, <2>3, <2>4
<1>2. t \in Seq(Cells) /\ Len(t) = v /\ \A i \in 1 .. v : t[i] = PaddedCell(n, end, i)
  <2> HIDE DEF end
  <2>1. /\ p \in 0 .. MH_BLOCK - 1 /\ OnBlock(w) /\ Marked(x, w, p)
        /\ end \in Nat /\ w + MH_BLOCK < end /\ t = WholeMessage(w) \o x
    BY <1>1
  <2>2. InMessage(t, w, p, end)
    BY ONLY <2>1, BlockInMessage
  <2>3. QED
    BY <2>2 DEF InMessage
<1>3. z \in Seq(Cells) /\ Len(z) = b /\ \A i \in 1 .. b : z[i] = Zero
  BY <1>1, ZerosAre
<1> HIDE DEF z
<1>4. /\ l \in Seq(Cells) /\ Len(l) = b
      /\ \A i \in 1 .. b : l[i] = IF i <= b - f THEN z[i] ELSE IF i = b THEN LengthCell(n) ELSE Zero
  <2> DEFINE o == l
  <2>1. o = WithLength(z, n) /\ z \in Seq(Cells) /\ Len(z) = MH_BLOCK /\ n \in Nat
    BY <1>1, <1>3
  <2> HIDE DEF o
  <2>2. /\ o \in Seq(Cells) /\ Len(o) = MH_BLOCK
        /\ \A i \in 1 .. MH_BLOCK :
                o[i] = IF i <= MH_BLOCK - LENFIELD THEN z[i]
                       ELSE IF i = MH_BLOCK THEN LengthCell(n) ELSE Zero
    BY ONLY <2>1, WithLengthIs
  <2>3. QED
    BY <2>2 DEF o
<1>5. y = t \o l
  BY DEF z
<1> HIDE DEF l
<1>6. Joined(Cells, t, l, y)
  BY <1>2, <1>4, <1>5, JoinIs
<1> HIDE DEF b, f, v
<1>7. /\ y \in Seq(Cells) /\ Len(y) = v + b
      /\ \A i \in 1 .. v : y[i] = t[i]
      /\ \A i \in 1 .. b : y[v + i] = l[i]
  BY <1>2, <1>4, <1>6 DEF Joined
<1> HIDE DEF n, end
<1>8. ASSUME NEW i \in 1 .. end PROVE y[i] = PaddedCell(n, end, i)
  <2>1. CASE i <= v
    <3>1. i \in 1 .. v
      BY <1>1, <2>1
    <3>2. QED
      BY <1>2, <1>7, <3>1
  <2>2. CASE i > v
    <3> DEFINE j == i - v
    <3>1. /\ j \in 1 .. b /\ v + j = i /\ ~(i <= n) /\ i # n + 1
          /\ (j = b <=> i = end) /\ (j <= b - f => j # b)
      BY <1>1, <2>2
    <3> HIDE DEF j
    <3>2. y[i] = l[j]
      BY <1>7, <3>1
    <3>3. l[j] = IF j = b THEN LengthCell(n) ELSE Zero
      BY <1>3, <1>4, <3>1
    <3>4. QED
      BY <3>1, <3>2, <3>3 DEF PaddedCell
  <2>3. i <= v \/ i > v
    BY <1>1
  <2>4. QED
    BY <2>1, <2>2, <2>3
<1>9. QED
  BY <1>1, <1>7, <1>8 DEF IsPadded, n, end, b
(* The padded message is the one the tail makes.                           *)
LEMMA TailIsPadded ==
  ASSUME NEW w, OnBlock(w), NEW p \in 0 .. MH_BLOCK - 1, NEW y,
         IsPadded(y, w + p, IF SecondBlock(p + 1) THEN w + 2 * MH_BLOCK ELSE w + MH_BLOCK)
  PROVE  y = MhPadded(w + p)
<1> DEFINE b == MH_BLOCK
           f == LENFIELD
           n == w + p
           end == IF SecondBlock(p + 1) THEN w + 2 * b ELSE w + b
           l == FillOf(n, b, f)
<1>1. PICK q \in Nat : w = q * b
  BY DEF OnBlock
<1>2. w \in Nat
  BY DEF OnBlock
<1>3. b \in Nat \ {0} /\ f \in 1 .. b - 1 /\ f \in Nat \ {0}
  BY MhSizes
<1>4. p \in 0 .. b - 1
  OBVIOUS
<1>5. SecondBlock(p + 1) <=> p + 1 > b - f
  BY DEF SecondBlock
<1>6. IsPadded(y, n, end)
  OBVIOUS
<1> HIDE DEF b, f
<1>7. n \in Nat /\ n = q * b + p
  BY <1>1, <1>2, <1>3, <1>4
<1> HIDE DEF n
<1>8. l = IF p + 1 > b - f THEN 2 * b - (p + 1 + f) ELSE b - (p + 1 + f)
  <2>1. FillOf(n, b, f) = FillAt(b, p, f)
    BY ONLY <1>1, <1>3, <1>4, <1>7, FillIs
  <2>2. QED
    BY <2>1 DEF FillAt
<1> HIDE DEF l
<1>9. n + 1 + l + f = end /\ end \in Nat
  <2>1. n = w + p
    BY DEF n
  <2>2. CASE p + 1 > b - f
    <3>1. l = 2 * b - (p + 1 + f) /\ end = w + 2 * b
      BY <1>5, <1>8, <2>2
    <3> HIDE DEF end
    <3>2. QED
      BY <1>2, <1>3, <1>4, <2>1, <2>2, <3>1
  <2>3. CASE ~(p + 1 > b - f)
    <3>1. l = b - (p + 1 + f) /\ end = w + b
      BY <1>5, <1>8, <2>3
    <3> HIDE DEF end
    <3>2. QED
      BY <1>2, <1>3, <1>4, <2>1, <2>3, <3>1
  <2>4. QED
    BY <2>2, <2>3
<1> HIDE DEF end
<1>10. IsPadded(PaddedMessage(n, b, f), n, n + 1 + l + f)
  BY <1>3, <1>7, PaddedMessageIs DEF l
<1> DEFINE z == PaddedMessage(n, b, f)
<1>11. IsPadded(z, n, end)
  BY <1>9, <1>10
<1> HIDE DEF z
<1>12. y = z
  BY <1>6, <1>7, <1>9, <1>11, PaddedSame
<1>13. QED
  BY <1>12 DEF z, b, f, n, MhPadded

LEMMA BlockMurmur ==
  ASSUME NEW c, MhShape(c), NEW u
  PROVE  mh_block(c, u).murmur = c.murmur
<1> DEFINE f == [s \in 0 .. SEGS - 1 |-> c.interim[s] \o SegmentOf(u, s)]
<1>1. mh_block(c, u) = [c EXCEPT !.interim = f]
  BY DEF mh_block
<1> HIDE DEF f
<1>2. QED
  BY <1>1 DEF MhShape

(* The digest of a finished stream is that of the padded message.          *)
TailDigest(d, c, n) ==
    /\ \A s \in 0 .. SEGS - 1 : d.digest[s] = SegmentOf(MhPadded(n), s)
    /\ d.murmur = c.murmur

LEMMA TailHolds ==
  ASSUME NEW c, NEW w, OnBlock(w), NEW p \in 0 .. MH_BLOCK - 1,
         Absorbed(c, WholeMessage(w), FALSE), Buffered(c.partial_block_buffer, w, p),
         NEW d, d = mh_tail(c, w + p)
  PROVE  TailDigest(d, c, w + p)
<1> DEFINE n == w + p
           e == p + 1
           x == TailFirst(c, e)
           t == WholeMessage(w)
           l == TailLast(c, e, n)
           g == TailHashed(c, e, n)
           m == FALSE
<1>1. w \in Nat /\ MH_BLOCK \in Nat /\ n \in Nat /\ p = n % MH_BLOCK
  <2>1. w \in Nat
    BY DEF OnBlock
  <2>2. MH_BLOCK \in Nat
    BY MhSizes
  <2>3. n \in Nat
    BY <2>1, <2>2
  <2>4. p = n % MH_BLOCK
    BY CutPart
  <2>5. QED
    BY <2>1, <2>2, <2>3, <2>4
<1>2. Marked(x, w, p)
  BY <1>1, TailFirstIs
<1>3. x \in Seq(Cells) /\ Len(x) = MH_BLOCK
  BY <1>2 DEF Marked
<1>4. d = [g EXCEPT !.partial_block_buffer = l, !.digest = g.interim]
  <2> HIDE DEF n, g, l
  <2>1. mh_tail(c, n) = TailEnds(c, p + 1, n)
    BY <1>1, TailOpens
  <2>2. d = mh_tail(c, n)
    BY DEF n
  <2>3. QED
    BY <2>1, <2>2 DEF g, l, TailEnds
<1>5. MhBlocks(t) /\ Absorbed(c, t, m) /\ m \in BOOLEAN
  BY OnBlockIs
<1>6. \E y : Absorbed(g, y, m) /\ g.murmur = c.murmur
             /\ IsPadded(y, n, IF SecondBlock(e) THEN w + 2 * MH_BLOCK ELSE w + MH_BLOCK)
  <2>1. CASE ~SecondBlock(e)
    <3> DEFINE y == t \o l
    <3>1. l = WithLength(x, n) /\ g = mh_block(c, l)
      BY <2>1 DEF TailLast, TailHashed
    <3>2. l \in Seq(Cells) /\ Len(l) = MH_BLOCK
      <4> HIDE DEF x, n, l
      <4>1. QED
        BY <1>1, <1>3, <3>1, WithLengthIs
    <3>3. IsPadded(y, w + p, w + MH_BLOCK)
      <4> HIDE DEF l, x
      <4>1. y = WholeMessage(w) \o WithLength(x, w + p)
        BY <3>1
      <4> HIDE DEF y
      <4>2. QED
        BY <1>2, <2>1, <4>1, OneTail
    <3>4. MhBlocks(l)
      BY <3>2, FirstBlocks DEF MhBlocks, OnBlock
    <3> HIDE DEF l, g, t, m
    <3>5. g = BlockStep(m, c, l)
      BY <3>1 DEF BlockStep, m
    <3>6. Absorbed(g, y, m)
      BY <1>5, <3>4, <3>5, BlockAbsorbs
    <3>7. g.murmur = c.murmur
      <4>1. MhShape(c)
        BY <1>5 DEF Absorbed
      <4>2. QED
        BY <3>1, <4>1, BlockMurmur
    <3> HIDE DEF y, e
    <3>8. QED
      BY <2>1, <3>3, <3>6, <3>7 DEF n
  <2>2. CASE SecondBlock(e)
    <3> DEFINE h == mh_block(c, x)
               u == t \o x
               y == u \o l
    <3>1. l = WithLength(Zeros(MH_BLOCK), n) /\ g = mh_block(h, l)
      BY <2>2 DEF TailLast, TailHashed
    <3>2. l \in Seq(Cells) /\ Len(l) = MH_BLOCK
      <4> DEFINE z == Zeros(MH_BLOCK)
      <4>1. z \in Seq(Cells) /\ Len(z) = MH_BLOCK
        BY <1>1, ZerosAre
      <4>2. l = WithLength(z, n)
        BY <3>1
      <4> HIDE DEF z, n, l
      <4>3. QED
        BY <1>1, <4>1, <4>2, WithLengthIs
    <3>3. IsPadded(y, w + p, w + 2 * MH_BLOCK)
      <4> HIDE DEF l, x, u
      <4>1. u = WholeMessage(w) \o x
        BY DEF u
      <4>2. y = u \o WithLength(Zeros(MH_BLOCK), w + p)
        BY <3>1
      <4> HIDE DEF y
      <4>3. QED
        BY <1>2, <4>1, <4>2, TwoTails
    <3>4. MhBlocks(l) /\ MhBlocks(x)
      BY <1>3, <3>2, FirstBlocks DEF MhBlocks, OnBlock
    <3> HIDE DEF l, g, t, m, h, x
    <3>5. h = BlockStep(m, c, x) /\ g = BlockStep(m, h, l)
      BY <3>1 DEF BlockStep, m, h
    <3>6. Absorbed(h, u, m)
      BY <1>5, <3>4, <3>5, BlockAbsorbs
    <3> HIDE DEF u
    <3>7. Absorbed(g, y, m)
      BY <1>5, <3>4, <3>5, <3>6, BlockAbsorbs
    <3>8. g.murmur = c.murmur
      <4>1. MhShape(c) /\ MhShape(h)
        BY <1>5, <3>6 DEF Absorbed
      <4>2. h.murmur = c.murmur
        BY <4>1, BlockMurmur DEF h
      <4>3. g.murmur = h.murmur
        BY <3>1, <4>1, BlockMurmur
      <4>4. QED
        BY <4>2, <4>3
    <3> HIDE DEF y, e
    <3>9. QED
      BY <2>2, <3>3, <3>7, <3>8 DEF n
  <2>3. QED
    BY <2>1, <2>2
<1>7. PICK y : Absorbed(g, y, m) /\ g.murmur = c.murmur
               /\ IsPadded(y, n, IF SecondBlock(e) THEN w + 2 * MH_BLOCK ELSE w + MH_BLOCK)
  BY <1>6
<1>8. y = MhPadded(w + p)
  BY <1>7, TailIsPadded
<1> HIDE DEF g, l
<1>9. MhShape(g) /\ g.interim = Segs(y)
  BY <1>7 DEF Absorbed
<1>10. d.digest = g.interim /\ d.murmur = g.murmur
  BY <1>4, <1>9 DEF MhShape
<1> HIDE DEF n, e, x, t, m
<1>11. ASSUME NEW s \in 0 .. SEGS - 1 PROVE d.digest[s] = SegmentOf(MhPadded(w + p), s)
  <2>1. d.digest[s] = SegmentOf(y, s)
    BY <1>9, <1>10 DEF Segs
  <2>2. QED
    BY <1>8, <2>1
<1>12. QED
  BY <1>7, <1>10, <1>11 DEF TailDigest
(* Lengths below 2^32 pass through the cast.                               *)
LEMMA LengthShort ==
  ASSUME NEW n \in Nat, n < LEN32
  PROVE  n % LEN32 = n
<1> DEFINE b == LEN32
           q == 0
<1>1. b \in Nat \ {0} /\ q \in Nat /\ n \in 0 .. b - 1 /\ q * b + n = n
  BY MhSizes
<1> HIDE DEF b, q
<1>2. (q * b + n) % b = n
  BY <1>1, ModuloIs
<1>3. QED
  BY <1>1, <1>2 DEF b

(* Cells kept in the buffer are cells of the message.                      *)
KeepsPiece(b, w, a, e) == SubSeq(b, a + 1, e) = Piece(w + a, e - a)

LEMMA BufferPart ==
  ASSUME NEW b, NEW w \in Nat, NEW p \in 0 .. MH_BLOCK - 1, Buffered(b, w, p),
         NEW a \in Nat, NEW e \in Nat, a <= e, e <= p
  PROVE  KeepsPiece(b, w, a, e)
<1> DEFINE l == e - a
           x == SubSeq(b, a + 1, e)
           y == Piece(w + a, l)
<1>1. b \in Seq(Cells) /\ Len(b) = MH_BLOCK /\ MH_BLOCK \in Nat /\ \A i \in 1 .. p : b[i] = Cell(w + i)
  BY MhSizes DEF Buffered
<1>2. e <= Len(b) /\ l \in Nat /\ w + a \in Nat
  BY <1>1
<1>3. x \in Seq(Cells) /\ Len(x) = l /\ \A i \in 1 .. l : x[i] = b[a + i]
  BY <1>1, <1>2, PartIs
<1>4. y \in Seq(Cells) /\ Len(y) = l /\ \A i \in 1 .. l : y[i] = Cell((w + a) + i)
  BY <1>2, PieceIs
<1>5. ASSUME NEW i \in 1 .. l PROVE x[i] = y[i]
  <2>1. a + i \in 1 .. p /\ w + (a + i) = (w + a) + i
    BY <1>1
  <2>2. QED
    BY <1>1, <1>3, <1>4, <2>1
<1> HIDE DEF x, y, l
<1>6. x = y
  BY <1>2, <1>3, <1>4, <1>5, SeqEqual
<1>7. QED
  BY <1>6 DEF KeepsPiece, x, y, l

(* The parts of the small blocks of murmur in the partial block.           *)
MurKeep(p) == p - (p % MUR_BLOCK)

MurBlocks(c, p) == SubSeq(c.partial_block_buffer, 1, MurKeep(p))

MurRest(c, p, n) ==
    SubSeq(c.partial_block_buffer, Len(MurBlocks(c, p)) + 1, Len(MurBlocks(c, p)) + (n % MUR_BLOCK))

MurSet(c, p, n) ==
    [c EXCEPT !.murmur = (@ \o MurmurBlocks(MurBlocks(c, p))) \o <<MurRest(c, p, n), LengthCell(n)>>]

LEMMA MurmurOpens ==
  ASSUME NEW c, NEW n, n = c.total_length % LEN32, NEW p, p = c.total_length % MH_BLOCK
  PROVE  mh_sha1_murmur3_finalize(c) = mh_tail(MurSet(c, p, n), n)
BY DEF mh_sha1_murmur3_finalize, MurSet, MurRest, MurBlocks, MurKeep

LEMMA MurSame ==
  ASSUME NEW w, OnBlock(w), NEW p \in 0 .. MH_BLOCK - 1
  PROVE  /\ (w + p) % MUR_BLOCK = p % MUR_BLOCK
         /\ p % MUR_BLOCK \in Nat /\ p % MUR_BLOCK <= p
<1> DEFINE b == MUR_BLOCK
           k == MH_BLOCK \div b
           s == MH_BLOCK % b
           q == p \div b
           r == p % b
<1>1. PICK a \in Nat : w = a * MH_BLOCK
  BY DEF OnBlock
<1>2. /\ b \in Nat \ {0} /\ k \in Nat /\ s = 0 /\ MH_BLOCK = k * b + s
      /\ p \in Nat /\ q \in Nat /\ r \in 0 .. b - 1 /\ p = q * b + r
  <2>1. b \in Nat \ {0} /\ MH_BLOCK \in Nat /\ s = 0 /\ p \in Nat
    BY MhSizes
  <2>2. k \in Nat /\ MH_BLOCK = k * b + s
    BY <2>1, DivisionOf
  <2>3. q \in Nat /\ r \in 0 .. b - 1 /\ p = q * b + r
    BY <2>1, DivisionOf
  <2>4. QED
    BY <2>1, <2>2, <2>3
<1> HIDE DEF b, k, s, q, r
<1> DEFINE d == a * k + q
<1>3. d \in Nat
  BY <1>2
<1>4. a * (k * b) = (a * k) * b /\ (a * k + q) * b = (a * k) * b + q * b
      /\ (a * k) * b \in Nat /\ q * b \in Nat
  BY <1>2
<1>5. w + p = d * b + r
  <2> DEFINE x == (a * k) * b
             y == q * b
  <2>1. w = x /\ d * b = x + y /\ p = y + r /\ x \in Nat /\ y \in Nat
    BY <1>1, <1>2, <1>4
  <2> HIDE DEF x, y, d
  <2>2. QED
    BY <1>2, <2>1
<1> HIDE DEF d
<1>6. (d * b + r) % b = r
  BY <1>2, <1>3, ModuloIs
<1>7. r \in Nat /\ r <= p
  <2>1. q * b \in Nat
    BY <1>2
  <2>2. QED
    BY <1>2, <2>1
<1>8. QED
  BY <1>5, <1>6, <1>7 DEF r, b

(* The small blocks of the whole message.                                  *)
MurmurEnds(n) ==
    MurmurBlocks(WholeMessage(n))
        \o <<DropFirst(WholeMessage(n), n - (n % MUR_BLOCK)), LengthCell(n)>>

LEMMA MurSetIs ==
  ASSUME NEW c, NEW w, OnBlock(w), NEW p \in 0 .. MH_BLOCK - 1,
         Absorbed(c, WholeMessage(w), TRUE), Buffered(c.partial_block_buffer, w, p)
  PROVE  (c.murmur \o MurmurBlocks(MurBlocks(c, p))) \o <<MurRest(c, p, w + p), LengthCell(w + p)>>
            = MurmurEnds(w + p)
<1> DEFINE n == w + p
           r == p % MUR_BLOCK
           k == MurKeep(p)
           t == WholeMessage(w)
           u == MurBlocks(c, p)
           b == c.partial_block_buffer
<1>1. w \in Nat /\ p \in Nat /\ n \in Nat
  <2>1. w \in Nat
    BY DEF OnBlock
  <2>2. p \in Nat
    BY MhSizes
  <2>3. QED
    BY <2>1, <2>2
<1>2. n % MUR_BLOCK = r /\ r \in Nat /\ r <= p
  BY MurSame
<1>3. k = p - r
  BY DEF MurKeep
<1> HIDE DEF k, r, n
<1>4. k \in Nat /\ k + r = p /\ k <= p /\ n = w + p /\ n - r = w + k /\ w + k \in Nat
  BY <1>1, <1>2, <1>3 DEF n
<1>5. u = Piece(w, k)
  <2> DEFINE a == 0
  <2>1. a \in Nat /\ k \in Nat /\ a <= k /\ k <= p /\ w \in Nat /\ a + 1 = 1 /\ w + a = w /\ k - a = k
    BY <1>1, <1>4
  <2>2. u = SubSeq(b, a + 1, k)
    BY DEF MurBlocks, k
  <2> HIDE DEF a, b
  <2>3. Buffered(b, w, p)
    BY DEF b
  <2>4. KeepsPiece(b, w, a, k)
    BY <2>1, <2>3, BufferPart
  <2>5. QED
    BY <2>1, <2>2, <2>4 DEF KeepsPiece
<1>6. u \in Seq(Cells) /\ Len(u) = k
  BY <1>1, <1>4, <1>5, PieceIs
<1>7. MhBlocks(t) /\ c.murmur = MurmurBlocks(t)
  BY OnBlockIs DEF Absorbed
<1>8. t \o u = WholeMessage(n - r)
  <2>1. t \o Piece(w, k) = WholeMessage(w + k)
    BY <1>1, <1>4, MessageGrows
  <2>2. QED
    BY <1>4, <1>5, <2>1
<1>9. MurmurBlocks(t \o u) = MurmurBlocks(t) \o MurmurBlocks(u)
  <2> HIDE DEF t, u
  <2>1. QED
    BY <1>6, <1>7, MurmurOn
<1>10. MurmurBlocks(WholeMessage(n)) = MurmurBlocks(WholeMessage(n - r))
  <2>1. MurmurBlocks(WholeMessage(n)) = MurmurBlocks(WholeMessage(n - (n % MUR_BLOCK)))
    BY <1>1, MurmurWhole
  <2>2. QED
    BY <1>2, <2>1
<1>11. MurRest(c, p, n) = Piece(w + k, r)
  <2>1. MurRest(c, p, n) = SubSeq(b, k + 1, k + r)
    BY <1>2, <1>6 DEF MurRest
  <2> DEFINE e == k + r
  <2>2. e \in Nat /\ k \in Nat /\ w \in Nat /\ k <= e /\ e <= p /\ e - k = r
    BY <1>1, <1>2, <1>4
  <2> HIDE DEF e
  <2>3. KeepsPiece(b, w, k, e)
    BY <2>2, BufferPart
  <2>4. QED
    BY <2>1, <2>2, <2>3 DEF KeepsPiece, e
<1>12. DropFirst(WholeMessage(n), n - r) = Piece(w + k, r)
  <2> DEFINE z == 0
             a == n - r
             y == n - a
  <2>1. z \in Nat /\ n \in Nat /\ a \in Nat /\ a <= n /\ z + a = w + k /\ y = r
    BY <1>1, <1>2, <1>4
  <2>2. WholeMessage(n) = Piece(z, n)
    BY DEF WholeMessage
  <2> HIDE DEF z, a
  <2>3. EndIsPiece(z, n, a)
    BY ONLY <2>1, PieceEnd
  <2>4. DropFirst(WholeMessage(n), a) = Piece(w + k, r)
    BY <2>1, <2>2, <2>3 DEF EndIsPiece
  <2>5. QED
    BY <2>4 DEF a
<1> HIDE DEF t, u
<1>13. c.murmur \o MurmurBlocks(u) = MurmurBlocks(WholeMessage(n))
  BY <1>7, <1>8, <1>9, <1>10
<1>14. MurmurEnds(n) = MurmurBlocks(WholeMessage(n)) \o <<Piece(w + k, r), LengthCell(n)>>
  BY <1>2, <1>12 DEF MurmurEnds
<1>15. (c.murmur \o MurmurBlocks(u)) \o <<MurRest(c, p, n), LengthCell(n)>> = MurmurEnds(n)
  BY <1>11, <1>13, <1>14
<1>16. QED
  BY <1>15 DEF n, u

(* A stream whose digest is that of its message.                           *)
MhDigested(d, n, m) ==
    /\ \A s \in 0 .. SEGS - 1 : d.digest[s] = SegmentOf(MhPadded(n), s)
    /\ m => d.murmur = MurmurEnds(n)

LEMMA PlainFinalHolds ==
  ASSUME NEW c, NEW w, NEW p, NEW m \in BOOLEAN, MhCut(c, w, p, m), w + p < LEN32,
         NEW d, d = mh_tail(c, c.total_length % LEN32)
  PROVE  MhDigested(d, w + p, FALSE)
<1>1. /\ OnBlock(w) /\ p \in 0 .. MH_BLOCK - 1 /\ c.total_length = w + p
      /\ Absorbed(c, WholeMessage(w), m) /\ Buffered(c.partial_block_buffer, w, p)
  BY DEF MhCut
<1>2. w + p \in Nat
  <2>1. w \in Nat
    BY <1>1 DEF OnBlock
  <2>2. p \in Nat
    BY <1>1, MhSizes
  <2>3. QED
    BY <2>1, <2>2
<1>3. (w + p) % LEN32 = w + p
  BY <1>2, LengthShort
<1>4. d = mh_tail(c, w + p)
  BY <1>1, <1>3
<1>5. Absorbed(c, WholeMessage(w), FALSE)
  BY <1>1 DEF Absorbed
<1>6. TailDigest(d, c, w + p)
  BY <1>1, <1>4, <1>5, TailHolds
<1>7. QED
  BY <1>6 DEF MhDigested, TailDigest

LEMMA MurmurFinalHolds ==
  ASSUME NEW c, NEW w, NEW p, MhCut(c, w, p, TRUE), w + p < LEN32,
         NEW d, d = mh_sha1_murmur3_finalize(c)
  PROVE  MhDigested(d, w + p, TRUE)
<1> DEFINE n == w + p
           e == MurSet(c, p, n)
           t == WholeMessage(w)
<1>1. /\ OnBlock(w) /\ p \in 0 .. MH_BLOCK - 1 /\ c.total_length = n
      /\ Absorbed(c, t, TRUE) /\ Buffered(c.partial_block_buffer, w, p)
  BY DEF MhCut
<1>2. n \in Nat
  <2>1. w \in Nat
    BY <1>1 DEF OnBlock
  <2>2. p \in Nat
    BY <1>1, MhSizes
  <2>3. QED
    BY <2>1, <2>2
<1>3. n % LEN32 = n /\ n % MH_BLOCK = p
  <2>1. n % LEN32 = n
    BY <1>2, LengthShort
  <2>2. n % MH_BLOCK = p
    BY <1>1, CutPart
  <2>3. QED
    BY <2>1, <2>2
<1>4. d = mh_tail(e, n)
  <2> HIDE DEF n
  <2>1. n = c.total_length % LEN32 /\ p = c.total_length % MH_BLOCK
    BY <1>1, <1>3
  <2>2. QED
    BY <2>1, MurmurOpens
<1> DEFINE x == (c.murmur \o MurmurBlocks(MurBlocks(c, p))) \o <<MurRest(c, p, n), LengthCell(n)>>
<1>5. x = MurmurEnds(n)
  BY <1>1, MurSetIs
<1>6. e = [c EXCEPT !.murmur = x]
  BY DEF MurSet
<1> HIDE DEF e, x, t
<1>7. MhShape(c) /\ MhBlocks(t) /\ c.interim = Segs(t)
  BY <1>1 DEF Absorbed
<1>8. /\ MhShape(e) /\ e.interim = c.interim /\ e.murmur = x
      /\ e.partial_block_buffer = c.partial_block_buffer
  BY <1>6, <1>7 DEF MhShape
<1>9. Absorbed(e, t, FALSE)
  BY <1>7, <1>8 DEF Absorbed
<1>10. TailDigest(d, e, w + p)
  <2> HIDE DEF n
  <2>1. d = mh_tail(e, w + p)
    BY <1>4 DEF n
  <2>2. Buffered(e.partial_block_buffer, w, p)
    BY <1>1, <1>8
  <2>3. Absorbed(e, WholeMessage(w), FALSE)
    BY <1>9 DEF t
  <2>4. QED
    BY <1>1, <2>1, <2>2, <2>3, TailHolds
<1>11. QED
  BY <1>5, <1>8, <1>10 DEF MhDigested, TailDigest
-----------------------------------------------------------------------------
(* An open stream holds its message so far: whole blocks dealt out to the  *)
(* segments, the rest in the buffer; a finished one has the digest.        *)
Murmurs(kind) == kind = "mh_sha1_murmur3"

MhHolds(c, n, m) == \E w, p : w + p = n /\ MhCut(c, w, p, m)

MhInv ==
    /\ mhLength \in 0 .. MhMaxTotal
    /\ mhPhase = "open" => MhHolds(mh, mhLength, Murmurs(mhKind))
    /\ mhPhase = "final" => MhDigested(mh, mhLength, Murmurs(mhKind))

(* Messages whose length passes the cast to 32 bits in finalize.           *)
MhShort == MhMaxTotal < LEN32

LEMMA MhPartRuns == Init /\ [][Next]_vars => MhInit /\ [][MhNext]_mhVars
<1>1. Init => MhInit
  BY DEF Init
<1>2. [Next]_vars => [MhNext]_mhVars
  BY DEF Next, vars, mhVars, BaseStep, MhStep, GcmStep, XtsStep, CbcStep, RollingStep,
         DispatchStep, ApiStep
<1>3. QED
  BY <1>1, <1>2, PTL

LEMMA MhStartKeeps ==
  ASSUME MhStart
  PROVE  MhInv'
<1> DEFINE m == Murmurs(mhKind)
           z == 0
           c == mh_init
<1>1. mh' = c /\ mhPhase' = "open" /\ mhLength' = z /\ mhKind' = mhKind
  BY DEF MhStart
<1>2. m \in BOOLEAN
  BY DEF Murmurs
<1>3. MhCut(c, z, z, m) /\ z + z = z
  BY <1>2, MhInitHolds
<1> HIDE DEF c
<1>4. MhHolds(c, z, m)
  BY <1>3 DEF MhHolds
<1>5. z \in 0 .. MhMaxTotal
  BY MhSizes
<1> HIDE DEF z
<1>6. MhHolds(mh', mhLength', Murmurs(mhKind'))
  BY <1>1, <1>4
<1>7. QED
  BY <1>1, <1>5, <1>6 DEF MhInv

LEMMA MhUpdateKeeps ==
  ASSUME MhInv, NEW len \in 0 .. MhMaxTotal, MhUpdate(len)
  PROVE  MhInv'
<1> DEFINE m == Murmurs(mhKind)
           n == mhLength
           cells == Piece(n, len)
           d == mh'
<1>1. mhPhase = "open" /\ mhPhase' = "open" /\ n + len <= MhMaxTotal /\ mhLength' = n + len
      /\ mhKind' = mhKind
  BY DEF MhUpdate
<1>2. n \in Nat /\ n \in 0 .. MhMaxTotal /\ len \in Nat /\ n + len \in 0 .. MhMaxTotal
  BY <1>1, MhSizes DEF MhInv
<1>3. d = Update(mh, cells, m) /\ m \in BOOLEAN
  <2>1. \/ mhKind = "mh_sha1" /\ mh' = mh_sha1_update(mh, cells)
        \/ mhKind = "mh_sha256" /\ mh' = mh_sha256_update(mh, cells)
        \/ mhKind = "mh_sha1_murmur3" /\ mh' = mh_sha1_murmur3_update(mh, cells)
    BY DEF MhUpdate
  <2> HIDE DEF cells
  <2>2. CASE mhKind = "mh_sha1" /\ mh' = mh_sha1_update(mh, cells)
    <3>1. m = FALSE
      BY <2>2 DEF Murmurs
    <3>2. d = Update(mh, cells, FALSE)
      BY <2>2 DEF mh_sha1_update
    <3>3. QED
      BY <3>1, <3>2
  <2>3. CASE mhKind = "mh_sha256" /\ mh' = mh_sha256_update(mh, cells)
    <3>1. m = FALSE
      BY <2>3 DEF Murmurs
    <3>2. d = Update(mh, cells, FALSE)
      BY <2>3 DEF mh_sha256_update
    <3>3. QED
      BY <3>1, <3>2
  <2>4. CASE mhKind = "mh_sha1_murmur3" /\ mh' = mh_sha1_murmur3_update(mh, cells)
    <3>1. m = TRUE
      BY <2>4 DEF Murmurs
    <3>2. d = Update(mh, cells, TRUE)
      BY <2>4 DEF mh_sha1_murmur3_update
    <3>3. QED
      BY <3>1, <3>2
  <2>5. QED
    BY <2>1, <2>2, <2>3, <2>4
<1>4. PICK w, p : w + p = n /\ MhCut(mh, w, p, m)
  BY <1>1 DEF MhInv, MhHolds
<1>5. d = Update(mh, Piece(w + p, len), m)
  BY <1>3, <1>4
<1> HIDE DEF d, m, cells
<1>6. \E v, r : v + r = (w + p) + len /\ MhCut(d, v, r, m)
  BY <1>2, <1>3, <1>4, <1>5, MhUpdateHolds
<1>7. MhHolds(d, n + len, m)
  BY <1>4, <1>6 DEF MhHolds
<1>8. QED
  BY <1>1, <1>2, <1>7 DEF MhInv, d, m

LEMMA MhFinalizeKeeps ==
  ASSUME MhShort, MhInv, MhFinalize
  PROVE  MhInv'
<1> DEFINE m == Murmurs(mhKind)
           n == mhLength
           d == mh'
           tail == mh_tail(mh, mh.total_length % LEN32)
<1>1. mhPhase = "open" /\ mhPhase' = "final" /\ mhKind' = mhKind /\ mhLength' = n
  BY DEF MhFinalize
<1>2. n \in 0 .. MhMaxTotal /\ n < LEN32
  <2>1. n \in 0 .. MhMaxTotal
    BY DEF MhInv
  <2>2. QED
    BY <2>1, MhSizes DEF MhShort
<1>3. PICK w, p : w + p = n /\ MhCut(mh, w, p, m)
  BY <1>1 DEF MhInv, MhHolds
<1>4. w + p < LEN32 /\ m \in BOOLEAN
  BY <1>2, <1>3 DEF Murmurs
<1>5. \/ mhKind = "mh_sha1" /\ mh' = mh_sha1_finalize(mh)
      \/ mhKind = "mh_sha256" /\ mh' = mh_sha256_finalize(mh)
      \/ mhKind = "mh_sha1_murmur3" /\ mh' = mh_sha1_murmur3_finalize(mh)
  BY DEF MhFinalize
<1>6. ASSUME d = tail, m = FALSE PROVE MhDigested(d, w + p, m)
  <2> HIDE DEF m, d
  <2>1. d = mh_tail(mh, mh.total_length % LEN32)
    BY <1>6
  <2>2. MhDigested(d, w + p, FALSE)
    BY <1>3, <1>4, <2>1, PlainFinalHolds
  <2>3. QED
    BY <1>6, <2>2
<1>7. MhDigested(d, w + p, m)
  <2>1. CASE mhKind = "mh_sha1" /\ mh' = mh_sha1_finalize(mh)
    <3>1. m = FALSE
      BY <2>1 DEF Murmurs
    <3>2. d = tail
      BY <2>1 DEF mh_sha1_finalize
    <3>3. QED
      BY <1>6, <3>1, <3>2
  <2>2. CASE mhKind = "mh_sha256" /\ mh' = mh_sha256_finalize(mh)
    <3>1. m = FALSE
      BY <2>2 DEF Murmurs
    <3>2. d = tail
      BY <2>2 DEF mh_sha256_finalize
    <3>3. QED
      BY <1>6, <3>1, <3>2
  <2>3. CASE mhKind = "mh_sha1_murmur3" /\ mh' = mh_sha1_murmur3_finalize(mh)
    <3>1. m = TRUE
      BY <2>3 DEF Murmurs
    <3>2. d = mh_sha1_murmur3_finalize(mh)
      BY <2>3
    <3>3. MhCut(mh, w, p, TRUE)
      BY <1>3, <3>1
    <3> HIDE DEF d, m
    <3>4. MhDigested(d, w + p, TRUE)
      BY <1>4, <3>2, <3>3, MurmurFinalHolds
    <3>5. QED
      BY <3>1, <3>4
  <2>4. QED
    BY <1>5, <2>1, <2>2, <2>3
<1> HIDE DEF d, m
<1>8. MhDigested(d, n, m)
  BY <1>3, <1>7
<1>9. QED
  BY <1>1, <1>2, <1>8 DEF MhInv, d, m

LEMMA MhStays == MhShort /\ Init /\ [][Next]_vars => []MhInv
<1>1. MhInit => MhInv
  BY MhSizes DEF MhInit, MhInv
<1>2. ASSUME MhShort, MhInv, [MhNext]_mhVars PROVE MhInv'
  <2>1. CASE UNCHANGED mhVars
    BY <1>2, <2>1 DEF mhVars, MhInv
  <2>2. CASE MhStart
    BY <2>2, MhStartKeeps
  <2>3. CASE MhFinalize
    BY <1>2, <2>3, MhFinalizeKeeps
  <2>4. CASE \E len \in 0 .. MhMaxTotal : MhUpdate(len)
    BY <1>2, <2>4, MhUpdateKeeps
  <2>5. QED
    BY <1>2, <2>1, <2>2, <2>3, <2>4 DEF MhNext
<1>3. MhShort /\ MhInv /\ [MhNext]_mhVars => MhInv'
  BY <1>2
<1>4. MhShort => MhShort'
  OBVIOUS
<1>5. QED
  BY <1>1, <1>3, <1>4, MhPartRuns, PTL

(* A finished multi-hash stream has the digests of its padded message,     *)
(* however it was cut into updates (mh_sha1_update_base.c,                 *)
(* mh_sha1_finalize_base.c and the other streams).                         *)
THEOREM MhDigestHolds ==
  ASSUME MhShort
  PROVE  Spec => []MhDigestIsReference
<1>1. MhInv => MhDigestIsReference
  BY DEF MhInv, MhDigestIsReference, MhDigested, MurmurEnds, Murmurs
<1>2. Spec => Init /\ [][Next]_vars
  BY DEF Spec
<1>3. QED
  BY <1>1, <1>2, MhStays, PTL
-----------------------------------------------------------------------------
(* The shape of every part's state.  Those of the base contexts, GCM and   *)
(* the rolling hash are in the invariants above; the others need no more   *)
(* than their own counters, whatever the buffers of the caller.            *)
LEMMA BaseTyped == Init /\ [][Next]_vars => []BaseTypeOK
<1>1. BaseInv => BaseTypeOK
  BY DEF BaseInv, BaseRec, BaseTypeOK
<1>2. QED
  BY <1>1, BaseStays, PTL

LEMMA GcmTyped == Init /\ [][Next]_vars => []GcmTypeOK
<1>1. GcmInv => GcmTypeOK
  <2> SUFFICES ASSUME GcmInv PROVE GcmTypeOK
    OBVIOUS
  <2> DEFINE n == gcm.InLen
  <2>1. n \in 0 .. GcmMaxLen /\ n \in Nat /\ GCM_BLOCK \in Nat \ {0}
    BY GcmAssumption DEF GcmInv
  <2>2. gcm.PBlockLen = n % GCM_BLOCK /\ gcm.CurCount \in Nat
    BY DEF GcmInv, Ready, IsContext, ContextWith
  <2>3. n % GCM_BLOCK \in 0 .. GCM_BLOCK - 1
    BY <2>1, DivisionOf
  <2>4. Len(gcmOut) = n
    <3>1. gcmOut = OutPart(0, n)
      BY DEF GcmInv
    <3> HIDE DEF n
    <3>2. Len(OutPart(0, n)) = n
      BY <2>1, OutPartIs
    <3>3. QED
      BY <3>1, <3>2
  <2>5. QED
    BY <2>1, <2>2, <2>3, <2>4 DEF GcmInv, GcmTypeOK
<1>2. QED
  BY <1>1, GcmStays, PTL

LEMMA RhTyped == Init /\ [][Next]_vars => []RhTypeOK
<1>1. RhInv => RhTypeOK
  BY DEF RhInv, RhShape, WindowsOf, RhTypeOK
<1>2. QED
  BY <1>1, RhStays, PTL

(* XTS: what is done and what is left are the whole blocks of the call.    *)
XtsCounts ==
    /\ XtsShape(xts)
    /\ xts.pc \in {"call", "main", "last", "steal", "ret"}
    /\ xts.left \in Int /\ xts.done \in Int
    /\ xts.left + xts.done = Whole
    /\ DOMAIN xtsMem = 1 .. XtsMemory

LEMMA CalledCounts ==
  ASSUME NEW dir, NEW turn, NEW n \in Nat, NEW in, NEW out, NEW c, c = Called(dir, turn, n, in, out)
  PROVE  /\ XtsShape(c) /\ c.pc = "call" /\ c.n = n
         /\ c.left \in Int /\ c.done \in Int /\ c.left + c.done = n \div XTS_BLOCK
<1> DEFINE q == n \div XTS_BLOCK
<1>1. q \in Nat
  BY XtsAssumption, DivisionOf
<1> HIDE DEF q
<1>2. XtsShape(c) /\ c.pc = "call" /\ c.n = n /\ c.left = q /\ c.done = 0
  BY DEF Called, XtsShape, q
<1>3. QED
  BY <1>1, <1>2 DEF q

LEMMA GroupCounts ==
  ASSUME XtsCounts, NEW k \in Int, NEW next \in {"last", "main"}, Group(k, next)
  PROVE  XtsCounts'
<1>1. DOMAIN xtsMem' = DOMAIN xtsMem
  BY DEF Group, XtsStore
<1> DEFINE c == xts
           d == xts'
<1>2. d = [c EXCEPT !.pc = next, !.done = @ + k, !.left = @ - k]
  BY DEF Group
<1>3. XtsShape(c)
  BY DEF XtsCounts
<1>4. XtsShape(d) /\ d.pc = next /\ d.done = c.done + k /\ d.left = c.left - k /\ d.n = c.n
  BY <1>2, <1>3 DEF XtsShape
<1>5. QED
  BY <1>1, <1>4 DEF XtsCounts, Whole

LEMMA XtsTyped == Init /\ [][Next]_vars => []XtsTypeOK
<1>1. XtsInit => XtsCounts
  <2> SUFFICES ASSUME XtsInit PROVE XtsCounts
    OBVIOUS
  <2>1. /\ XtsShape(xts) /\ xts.pc = "ret" /\ xts.left = 0 /\ xts.done = 0 /\ xts.n = 0
        /\ xtsMem = Filled
    BY DEF XtsInit, XtsShape
  <2>2. 0 \div XTS_BLOCK = 0
    BY XtsAssumption
  <2>3. QED
    BY <2>1, <2>2 DEF XtsCounts, Whole, Filled
<1>2. ASSUME XtsCounts, xts.n \in Nat, [XtsNext]_xtsVars PROVE XtsCounts' /\ xts'.n \in Nat
  <2> DEFINE c == xts
             d == xts'
  <2>0. XtsShape(c)
    BY <1>2 DEF XtsCounts
  <2>1. CASE UNCHANGED xtsVars
    BY <1>2, <2>1 DEF xtsVars, XtsCounts, Whole
  <2>2. CASE \E dir \in {"enc", "dec"}, n \in 0 .. XtsMaxLen, s \in XtsShifts : XtsCall(dir, n, s)
    <3>1. PICK dir \in {"enc", "dec"}, n \in 0 .. XtsMaxLen, s \in XtsShifts : XtsCall(dir, n, s)
      BY <2>2
    <3>2. n \in Nat
      BY XtsAssumption
    <3>3. PICK in : d = Called(dir, 1, n, in, in + s)
      BY <3>1 DEF XtsCall
    <3>4. xtsMem' = Filled
      BY <3>1 DEF XtsCall
    <3> HIDE DEF d
    <3>5. /\ XtsShape(d) /\ d.pc = "call" /\ d.n = n
          /\ d.left \in Int /\ d.done \in Int /\ d.left + d.done = n \div XTS_BLOCK
      BY <3>2, <3>3, CalledCounts
    <3>6. QED
      BY <3>2, <3>4, <3>5 DEF XtsCounts, Whole, Filled, d
  <2>3. CASE XtsCallBack
    <3>1. d = Called(Opposite(c.dir), 2, c.n, c.out, c.out) /\ xtsMem' = xtsMem
      BY <2>3 DEF XtsCallBack
    <3> HIDE DEF d
    <3>2. /\ XtsShape(d) /\ d.pc = "call" /\ d.n = c.n
          /\ d.left \in Int /\ d.done \in Int /\ d.left + d.done = c.n \div XTS_BLOCK
      BY <1>2, <3>1, CalledCounts
    <3>3. QED
      BY <1>2, <3>1, <3>2 DEF XtsCounts, Whole, d
  <2>4. CASE XtsInitial
    <3>1. CASE \E next \in {"ret", "last"} : d = [c EXCEPT !.pc = next] /\ xtsMem' = xtsMem
      <4>1. PICK next \in {"ret", "last"} : d = [c EXCEPT !.pc = next] /\ xtsMem' = xtsMem
        BY <3>1
      <4>2. XtsShape(d) /\ d.pc = next /\ d.left = c.left /\ d.done = c.done /\ d.n = c.n
        BY <2>0, <4>1 DEF XtsShape
      <4>3. QED
        BY <1>2, <4>1, <4>2 DEF XtsCounts, Whole
    <3>2. CASE Group(Whole % XTS_GROUP, "last") \/ Group(Whole % XTS_GROUP, "main")
      <4> DEFINE k == Whole % XTS_GROUP
      <4>1. Whole \in Nat
        BY <1>2, XtsAssumption, DivisionOf DEF Whole
      <4>2. k \in Int
        BY <4>1, XtsAssumption
      <4>3. Group(k, "last") \/ Group(k, "main")
        BY <3>2
      <4> HIDE DEF k
      <4>4. XtsCounts'
        BY <1>2, <4>2, <4>3, GroupCounts
      <4>5. d.n = c.n
        BY <2>0, <4>3 DEF Group, XtsShape
      <4>6. QED
        BY <1>2, <4>4, <4>5
    <3>3. QED
      BY <2>4, <3>1, <3>2 DEF XtsInitial
  <2>5. CASE XtsMainLoop
    <3>1. Group(XTS_GROUP, "last") \/ Group(XTS_GROUP, "main")
      BY <2>5 DEF XtsMainLoop
    <3>2. XTS_GROUP \in Int
      BY XtsAssumption
    <3>3. XtsCounts'
      BY <1>2, <3>1, <3>2, GroupCounts
    <3>4. d.n = c.n
      BY <2>0, <3>1 DEF Group, XtsShape
    <3>5. QED
      BY <1>2, <3>3, <3>4
  <2>6. CASE XtsLast
    <3>1. PICK t, y, kept : LastGroup(c, xtsMem, d, xtsMem', t, y, kept, Rest)
      BY <2>6, LastGroupIs
    <3> DEFINE next  == IF Rest = 0 THEN "ret" ELSE "steal"
               spare == t.spare
               state == SubSeq(y, kept + 1, Len(y))
    <3>2. /\ d = [c EXCEPT !.pc = next, !.left = 0, !.done = @ + c.left,
                          !.spare = spare, !.state = state]
          /\ next \in {"ret", "steal"}
      BY <3>1 DEF LastGroup
    <3> HIDE DEF next, spare, state
    <3>3. DOMAIN xtsMem' = DOMAIN xtsMem
      BY <2>6 DEF XtsLast, XtsStore
    <3>4. XtsShape(d) /\ d.pc = next /\ d.left = 0 /\ d.done = c.done + c.left /\ d.n = c.n
      BY <2>0, <3>2 DEF XtsShape
    <3>5. QED
      BY <1>2, <3>2, <3>3, <3>4 DEF XtsCounts, Whole
  <2>7. CASE XtsSteal
    <3>1. d = [c EXCEPT !.pc = "ret"]
      BY <2>7 DEF XtsSteal
    <3>2. DOMAIN xtsMem' = DOMAIN xtsMem
      BY <2>7 DEF XtsSteal, XtsStore
    <3>3. XtsShape(d) /\ d.pc = "ret" /\ d.left = c.left /\ d.done = c.done /\ d.n = c.n
      BY <2>0, <3>1 DEF XtsShape
    <3>4. QED
      BY <1>2, <3>2, <3>3 DEF XtsCounts, Whole
  <2>8. QED
    BY <1>2, <2>1, <2>2, <2>3, <2>4, <2>5, <2>6, <2>7 DEF XtsNext
<1>3. XtsInit => xts.n \in Nat
  BY DEF XtsInit
<1>4. XtsCounts => XtsTypeOK
  BY DEF XtsCounts, XtsTypeOK
<1>5. (XtsCounts /\ xts.n \in Nat) /\ [XtsNext]_xtsVars => (XtsCounts /\ xts.n \in Nat)'
  BY <1>2
<1>6. QED
  BY <1>1, <1>3, <1>4, <1>5, XtsPart, PTL
(* CBC: the counters IDX and LEN share the call's blocks.                  *)
CbcCounts ==
    /\ CallShape(cbc)
    /\ cbc.pc \in {"enc", "dec", "by8", "ret"}
    /\ cbc.n \in Nat /\ cbc.idx \in Int /\ cbc.len \in Int
    /\ cbc.first \in 0 .. UNROLLED_LOOPS - 1
    /\ cbc.idx + cbc.len = cbc.n
    /\ DOMAIN cbcMem = 1 .. CbcMemory

LEMMA DecCounts ==
  ASSUME CbcCounts, NEW k \in Int, NEW next \in {"by8", "ret"}, DecGroup(k, next)
  PROVE  CbcCounts'
<1> DEFINE c == cbc
           d == cbc'
<1> DEFINE at         == c.idx
           group      == [GetBlocks(cbcMem, c.in + at, k) EXCEPT
                                ![1] = IF c.pc = "by8" THEN c.xdata0 ELSE @]
           plain      == Plain(group, c.iv)
           allButLast == PutBlocks(cbcMem, c.out + at, SubSeq(plain, 1, k - 1))
<1>2. /\ cbcMem' = PutBlocks(allButLast, (c.out + at) + (k - 1), <<plain[k]>>)
      /\ d = [c EXCEPT !.pc = next, !.idx = @ + k, !.len = @ - k,
                       !.iv = IF next = "ret" THEN @ ELSE group[k],
                       !.xdata0 = IF next = "ret" THEN @
                                  ELSE allButLast[c.in + at + k]]
  BY DEF DecGroup
<1> HIDE DEF group, plain
<1> DEFINE iv     == IF next = "ret" THEN c.iv ELSE group[k]
           xdata0 == IF next = "ret" THEN c.xdata0 ELSE allButLast[c.in + at + k]
<1>3. d = [c EXCEPT !.pc = next, !.idx = @ + k, !.len = @ - k, !.iv = iv, !.xdata0 = xdata0]
  BY <1>2
<1> HIDE DEF iv, xdata0
<1>4. DOMAIN cbcMem' = DOMAIN cbcMem
  BY <1>2 DEF PutBlocks
<1>5. CallShape(c)
  BY DEF CbcCounts
<1>6. /\ CallShape(d) /\ d.pc = next /\ d.idx = c.idx + k /\ d.len = c.len - k
      /\ d.n = c.n /\ d.first = c.first
  BY <1>3, <1>5 DEF CallShape
<1>7. QED
  BY <1>4, <1>6 DEF CbcCounts

LEMMA CbcTyped == Init /\ [][Next]_vars => []CbcTypeOK
<1>0. UNROLLED_LOOPS \in Nat \ {0, 1} /\ CBC_GROUP \in Nat \ {0} /\ CbcMaxLen \in Nat
  BY CbcAssumption
<1>1. CbcInit => CbcCounts
  <2> SUFFICES ASSUME CbcInit PROVE CbcCounts
    OBVIOUS
  <2>1. /\ CallShape(cbc) /\ cbc.pc = "ret" /\ cbc.n = 0 /\ cbc.idx = 0 /\ cbc.len = 0
        /\ cbc.first = 0 /\ cbcMem = FilledBlocks
    BY DEF CbcInit, CbcIdle, CallShape
  <2>2. QED
    BY <1>0, <2>1 DEF CbcCounts, FilledBlocks
<1>2. ASSUME CbcCounts, [CbcNext]_cbcVars PROVE CbcCounts'
  <2> DEFINE c == cbc
             d == cbc'
  <2>0. CallShape(c)
    BY <1>2 DEF CbcCounts
  <2>1. CASE UNCHANGED cbcVars
    BY <1>2, <2>1 DEF cbcVars, CbcCounts
  <2>2. CASE \E dir \in {"enc", "dec"}, n \in 1 .. CbcMaxLen, s \in CbcShifts : CbcCall(dir, n, s)
    <3>1. PICK dir \in {"enc", "dec"}, n \in 1 .. CbcMaxLen, s \in CbcShifts : CbcCall(dir, n, s)
      BY <2>2
    <3>2. PICK in \in {IF s < 0 THEN 1 - s ELSE 1} :
            cbc' = [CbcIdle EXCEPT !.pc = dir, !.dir = dir, !.n = n, !.in = in, !.out = in + s,
                                   !.len = n, !.iv = IV,
                                   !.regs = IF dir = "enc"
                                            THEN [@ EXCEPT ![0] = XorBlocks(FilledBlocks[in], IV)]
                                            ELSE @]
      BY <3>1 DEF CbcCall
    <3>3. cbcMem' = FilledBlocks
      BY <3>1 DEF CbcCall
    <3>4. /\ CallShape(d) /\ d.pc = dir /\ d.n = n /\ d.idx = 0 /\ d.len = n /\ d.first = 0
      <4> DEFINE regs == IF dir = "enc"
                         THEN [CbcIdle.regs EXCEPT ![0] = XorBlocks(FilledBlocks[in], IV)]
                         ELSE CbcIdle.regs
      <4>1. d = [CbcIdle EXCEPT !.pc = dir, !.dir = dir, !.n = n, !.in = in, !.out = in + s,
                                !.len = n, !.iv = IV, !.regs = regs]
        BY <3>2
      <4> HIDE DEF regs, d
      <4>2. QED
        BY <4>1 DEF CbcIdle, CallShape
    <3>5. n \in Nat /\ dir \in {"enc", "dec"}
      BY <1>0
    <3>6. QED
      BY <1>0, <3>3, <3>4, <3>5 DEF CbcCounts, FilledBlocks
  <2>3. CASE CbcEncrypt
    <3>1. PICK r \in {EncBlock(c, cbcMem)} :
            /\ cbcMem' = r.mem
            /\ d = [c EXCEPT !.regs = r.regs, !.first = (@ + 1) % UNROLLED_LOOPS,
                             !.idx = @ + 1, !.len = @ - 1,
                             !.pc = IF c.len = 1 THEN "ret" ELSE "enc"]
      BY <2>3 DEF CbcEncrypt
    <3>2. r.mem = PutBlocks(cbcMem, c.out + c.idx, <<CipherOf("E", c.regs[c.first])>>)
      BY <3>1 DEF EncBlock
    <3>3. DOMAIN cbcMem' = DOMAIN cbcMem
      BY <3>1, <3>2 DEF PutBlocks
    <3>4. /\ CallShape(d) /\ d.n = c.n /\ d.idx = c.idx + 1 /\ d.len = c.len - 1
          /\ d.first = (c.first + 1) % UNROLLED_LOOPS /\ d.pc \in {"ret", "enc"}
      BY <2>0, <3>1 DEF CallShape
    <3>5. (c.first + 1) % UNROLLED_LOOPS \in 0 .. UNROLLED_LOOPS - 1
      <4> DEFINE b == UNROLLED_LOOPS
                 a == c.first + 1
      <4>1. b \in Nat \ {0} /\ a \in Nat
        BY <1>0, <1>2 DEF CbcCounts
      <4> HIDE DEF a, b
      <4>2. a % b \in 0 .. b - 1
        BY <4>1, DivisionOf
      <4>3. QED
        BY <4>2 DEF a, b
    <3>6. QED
      BY <1>2, <3>3, <3>4, <3>5 DEF CbcCounts
  <2>4. CASE CbcDecryptStart
    <3>1. CASE cbc.n < CBC_GROUP /\ DecGroup(cbc.n, "ret")
      <4>1. c.n \in Int
        BY <1>2 DEF CbcCounts
      <4>2. QED
        BY <1>2, <3>1, <4>1, DecCounts
    <3>2. CASE DecGroup(cbc.n % CBC_GROUP, "by8")
      <4> DEFINE k == c.n % CBC_GROUP
      <4>1. k \in Int
        <5> DEFINE a == c.n
                   b == CBC_GROUP
        <5>1. a \in Nat /\ b \in Nat \ {0}
          BY <1>0, <1>2 DEF CbcCounts
        <5> HIDE DEF a, b
        <5>2. a % b \in 0 .. b - 1
          BY <5>1, DivisionOf
        <5>3. a % b \in Int
          BY <5>1, <5>2
        <5>4. QED
          BY <5>3 DEF a, b
      <4>2. DecGroup(k, "by8")
        BY <3>2
      <4> HIDE DEF k
      <4>3. QED
        BY <1>2, <4>1, <4>2, DecCounts
    <3>3. CASE /\ cbc' = [cbc EXCEPT !.pc = "by8", !.xdata0 = cbcMem[cbc.in]]
               /\ UNCHANGED <<cbcMem, cbcWas>>
      <4>1. /\ CallShape(d) /\ d.n = c.n /\ d.idx = c.idx /\ d.len = c.len
            /\ d.first = c.first /\ d.pc = "by8"
        BY <2>0, <3>3 DEF CallShape
      <4>2. QED
        BY <1>2, <3>3, <4>1 DEF CbcCounts
    <3>4. QED
      BY <2>4, <3>1, <3>2, <3>3 DEF CbcDecryptStart
  <2>5. CASE CbcDecryptByEight
    <3>1. DecGroup(CBC_GROUP, "ret") \/ DecGroup(CBC_GROUP, "by8")
      BY <2>5 DEF CbcDecryptByEight
    <3>2. CBC_GROUP \in Int
      BY <1>0
    <3>3. QED
      BY <1>2, <3>1, <3>2, DecCounts
  <2>6. QED
    BY <1>2, <2>1, <2>2, <2>3, <2>4, <2>5 DEF CbcNext
<1>3. CbcCounts => CbcTypeOK
  BY DEF CbcCounts, CbcTypeOK
<1>4. CbcCounts /\ [CbcNext]_cbcVars => CbcCounts'
  BY <1>2
<1>5. QED
  BY <1>1, <1>3, <1>4, CbcPart, PTL

(* The dispatched pointers and the threads' calls.                         *)
DispCounts == DispTypeOK /\ DOMAIN caller = DispThreads

LEMMA DispTyped == Init /\ [][Next]_vars => []DispTypeOK
<1>1. Init => DispInit
  BY DEF Init
<1>2. [Next]_vars => [DispNext]_dispVars
  BY DEF Next, vars, dispVars, BaseStep, MhStep, GcmStep, XtsStep, CbcStep, RollingStep,
         DispatchStep, ApiStep
<1>3. DispInit => DispCounts
  BY DEF DispInit, DispCounts, DispTypeOK, Resting
<1>4. ASSUME DispCounts, [DispNext]_dispVars PROVE DispCounts'
  <2>0. /\ machine \in Machines /\ family \in Families /\ DOMAIN dispatched = Functions
        /\ DOMAIN caller = DispThreads
        /\ \A t \in DispThreads : caller[t].pc \in {"idle", "choose", "store", "jump", "run"}
    BY <1>4 DEF DispCounts, DispTypeOK
  <2>1. CASE UNCHANGED dispVars
    BY <1>4, <2>1 DEF dispVars, DispCounts, DispTypeOK
  <2>2. CASE DispNext
    <3>1. /\ machine' = machine /\ family' = family /\ DOMAIN dispatched' = DOMAIN dispatched
      BY <2>2 DEF DispNext, Choose, Store, Jump, CallKnown, FirstCall, JumpTo, Return
    <3>2. \E t \in DispThreads, pc \in {"idle", "choose", "store", "jump", "run"} : \E fn, chosen :
            caller' = [caller EXCEPT ![t] = [pc |-> pc, fn |-> fn, chosen |-> chosen]]
      BY <2>2 DEF DispNext, Choose, Store, Jump, CallKnown, FirstCall, JumpTo, Return, Resting
    <3>3. PICK t, pc, fn, chosen :
            /\ t \in DispThreads /\ pc \in {"idle", "choose", "store", "jump", "run"}
            /\ caller' = [caller EXCEPT ![t] = [pc |-> pc, fn |-> fn, chosen |-> chosen]]
      BY <3>2
    <3>4. /\ DOMAIN caller' = DispThreads
          /\ \A u \in DispThreads : caller'[u].pc \in {"idle", "choose", "store", "jump", "run"}
      BY <2>0, <3>3
    <3>5. QED
      BY <2>0, <3>1, <3>4 DEF DispCounts, DispTypeOK
  <2>3. QED
    BY <1>4, <2>1, <2>2
<1>5. DispCounts => DispTypeOK
  BY DEF DispCounts
<1>6. DispCounts /\ [DispNext]_dispVars => DispCounts'
  BY <1>4
<1>7. QED
  BY <1>1, <1>2, <1>3, <1>5, <1>6, PTL
(* The checked entry points: a call is in one of its places.               *)
ApiCounts ==
    /\ ApiTypeOK
    /\ DOMAIN apiCall = ApiThreads
    /\ DOMAIN apiHas = ApiThreads

LEMMA ApiTyped == Init /\ [][Next]_vars => []ApiTypeOK
<1>1. Init => ApiInit
  BY DEF Init
<1>2. [Next]_vars => [ApiNext]_apiVars
  BY DEF Next, vars, apiVars, BaseStep, MhStep, GcmStep, XtsStep, CbcStep, RollingStep,
         DispatchStep, ApiStep
<1>3. ApiInit => ApiCounts
  BY DEF ApiInit, ApiCounts, ApiTypeOK, Gate!Init, Outside, Nothing
<1>4. ASSUME ApiCounts, [ApiNext]_apiVars PROVE ApiCounts'
  <2>0. /\ apiUses \in ApiPrograms /\ gateRunner \in ApiThreads \cup {NoThread}
        /\ DOMAIN apiCall = ApiThreads /\ DOMAIN apiHas = ApiThreads
        /\ \A t \in ApiThreads : apiCall[t].pc \in {"out", "test", "in"}
        /\ \A t \in ApiThreads : apiHas[t].by \in {"isal", "deprecated"}
    BY <1>4 DEF ApiCounts, ApiTypeOK
  <2>1. CASE UNCHANGED apiVars
    BY <1>4, <2>1 DEF apiVars, gate, ApiCounts, ApiTypeOK
  <2>2. ASSUME NEW t \in ApiThreads, NEW c, c.pc \in {"out", "test", "in"},
               apiCall' = [apiCall EXCEPT ![t] = c]
        PROVE  DOMAIN apiCall' = ApiThreads /\ \A u \in ApiThreads : apiCall'[u].pc \in {"out", "test", "in"}
    BY <2>0, <2>2
  <2>3. ASSUME NEW t \in ApiThreads, NEW h, h.by \in {"isal", "deprecated"},
               apiHas' = [apiHas EXCEPT ![t] = h]
        PROVE  DOMAIN apiHas' = ApiThreads /\ \A u \in ApiThreads : apiHas'[u].by \in {"isal", "deprecated"}
    BY <2>0, <2>3
  <2>4. ASSUME NEW t \in ApiThreads, NEW f \in ApiFunctions, ApiRefuse(t, f) PROVE ApiCounts'
    <3>1. PICK ret : apiCall' = [apiCall EXCEPT ![t] = Outside(ret)]
      BY <2>4 DEF ApiRefuse
    <3>2. Outside(ret).pc = "out"
      BY DEF Outside
    <3>3. apiUses' = apiUses /\ apiHas' = apiHas /\ gateRunner' = gateRunner
      BY <2>4 DEF ApiRefuse, Calls, gate
    <3>4. QED
      BY <2>0, <2>2, <3>1, <3>2, <3>3 DEF ApiCounts, ApiTypeOK
  <2>5. ASSUME NEW t \in ApiThreads, NEW f \in ApiFunctions, ApiEnter(t, f) PROVE ApiCounts'
    <3>1. PICK pc \in {"test", "in"} : apiCall' = [apiCall EXCEPT ![t] = Inside(f, pc)]
      BY <2>5 DEF ApiEnter
    <3>2. Inside(f, pc).pc = pc
      BY DEF Inside
    <3>3. apiUses' = apiUses /\ apiHas' = apiHas /\ gateRunner' = gateRunner
      BY <2>5 DEF ApiEnter, Calls, gate, Gate!Call
    <3>4. QED
      BY <2>0, <2>2, <3>1, <3>2, <3>3 DEF ApiCounts, ApiTypeOK
  <2>6. ASSUME NEW t \in ApiThreads, ApiSelfTests(t) PROVE ApiCounts'
    <3>1. gateRunner' \in {gateRunner, t, NoThread}
      BY <2>6 DEF ApiSelfTests, Gate!Begin, Gate!Answer, Gate!Conclude
    <3>2. apiUses' = apiUses /\ apiHas' = apiHas /\ apiCall' = apiCall
      BY <2>6 DEF ApiSelfTests
    <3>3. QED
      BY <2>0, <3>1, <3>2 DEF ApiCounts, ApiTypeOK
  <2>7. ASSUME NEW t \in ApiThreads, ApiTested(t) PROVE ApiCounts'
    <3>1. PICK c \in {Inside(apiCall[t].f, "in"), Outside("SELF_TEST")} :
            apiCall' = [apiCall EXCEPT ![t] = c]
      BY <2>7 DEF ApiTested
    <3>2. c.pc \in {"out", "test", "in"}
      BY DEF Inside, Outside
    <3>3. apiUses' = apiUses /\ apiHas' = apiHas /\ gateRunner' = gateRunner
      BY <2>7 DEF ApiTested, gate
    <3>4. QED
      BY <2>0, <2>2, <3>1, <3>2, <3>3 DEF ApiCounts, ApiTypeOK
  <2>8. ASSUME NEW t \in ApiThreads, ApiWork(t) PROVE ApiCounts'
    <3>1. PICK f \in {apiCall[t].f}, by \in {"isal", apiHas[t].by} :
            apiHas' = [apiHas EXCEPT ![t] = IF f.gives = "same" THEN @
                                            ELSE [kind |-> f.gives, by |-> by]]
      BY <2>8 DEF ApiWork
    <3> DEFINE h == IF f.gives = "same" THEN apiHas[t] ELSE [kind |-> f.gives, by |-> by]
    <3>2. apiHas' = [apiHas EXCEPT ![t] = h]
      BY <3>1
    <3>3. h.by \in {"isal", "deprecated"}
      BY <2>0
    <3> HIDE DEF h
    <3>4. apiCall' = [apiCall EXCEPT ![t] = Outside("0")] /\ Outside("0").pc = "out"
      BY <2>8 DEF ApiWork, Outside
    <3>5. apiUses' = apiUses /\ gateRunner' = gateRunner
      BY <2>8 DEF ApiWork, gate
    <3>6. QED
      BY <2>0, <2>2, <2>3, <3>2, <3>3, <3>4, <3>5 DEF ApiCounts, ApiTypeOK
  <2>9. ASSUME NEW t \in ApiThreads, NEW kind, ApiDeprecated(t, kind) PROVE ApiCounts'
    <3> DEFINE h == [kind |-> kind, by |-> "deprecated"]
    <3>1. apiHas' = [apiHas EXCEPT ![t] = h] /\ h.by \in {"isal", "deprecated"}
      BY <2>9 DEF ApiDeprecated
    <3> HIDE DEF h
    <3>2. apiUses' = apiUses /\ apiCall' = apiCall /\ gateRunner' = gateRunner
      BY <2>9 DEF ApiDeprecated, gate
    <3>3. QED
      BY <2>0, <2>3, <3>1, <3>2 DEF ApiCounts, ApiTypeOK
  <2>10. QED
    BY <1>4, <2>1, <2>4, <2>5, <2>6, <2>7, <2>8, <2>9 DEF ApiNext
<1>5. ApiCounts => ApiTypeOK
  BY DEF ApiCounts
<1>6. ApiCounts /\ [ApiNext]_apiVars => ApiCounts'
  BY <1>4
<1>7. QED
  BY <1>1, <1>2, <1>3, <1>5, <1>6, PTL

(* Multi-hash, for messages of any length: the tail leaves the length of   *)
(* the message and a buffer of one block.                                  *)
MhCounts(c) == c.total_length \in 0 .. MhMaxTotal /\ Len(c.partial_block_buffer) = MH_BLOCK

LEMMA BlockCounts ==
  ASSUME NEW c, MhShape(c), NEW u
  PROVE  MhShape(mh_block(c, u)) /\ mh_block(c, u).total_length = c.total_length
<1> DEFINE g == [s \in 0 .. SEGS - 1 |-> c.interim[s] \o SegmentOf(u, s)]
<1>1. mh_block(c, u) = [c EXCEPT !.interim = g]
  BY DEF mh_block
<1> HIDE DEF g
<1>2. QED
  BY <1>1 DEF MhShape

LEMMA TailLength ==
  ASSUME NEW c, NEW e, NEW n
  PROVE  Len(TailLast(c, e, n)) = MH_BLOCK
<1> DEFINE b == MH_BLOCK
           x == TailFirst(c, e)
           z == Zeros(b)
           w == IF SecondBlock(e) THEN z ELSE x
           f == LENFIELD
           y == Append(Zeros(f - 1), LengthCell(n))
<1>1. b \in Nat
  BY MhSizes
<1>2. Len(x) = b
  <2> HIDE DEF b
  <2>1. x = [i \in 1 .. b |-> CASE i < e -> c.partial_block_buffer[i] [] i = e -> Hex80 [] OTHER -> Zero]
    BY DEF TailFirst, b
  <2>2. QED
    BY <1>1, <2>1
<1> HIDE DEF x
<1>3. Len(z) = b
  BY <1>1, ZerosAre
<1> HIDE DEF z
<1>4. Len(w) = b
  BY <1>2, <1>3
<1>5. TailLast(c, e, n) = Overlay(w, b - f, y)
  BY DEF TailLast, WithLength, x, z
<1> HIDE DEF w, y, b
<1> DEFINE a == b - f
           g(i) == IF a < i /\ i <= a + Len(y) THEN y[i - a] ELSE w[i]
<1> HIDE DEF a
<1>6. Overlay(w, a, y) = [i \in 1 .. b |-> g(i)]
  BY <1>4 DEF Overlay
<1> HIDE DEF g
<1>7. Len([i \in 1 .. b |-> g(i)]) = b
  BY <1>1
<1>8. QED
  BY <1>5, <1>6, <1>7 DEF a, b

LEMMA TailCounts ==
  ASSUME NEW c, MhShape(c), NEW n \in Nat
  PROVE  /\ mh_tail(c, n).total_length = c.total_length
         /\ Len(mh_tail(c, n).partial_block_buffer) = MH_BLOCK
<1> DEFINE e == (n % MH_BLOCK) + 1
           x == TailFirst(c, e)
           l == TailLast(c, e, n)
           p == IF SecondBlock(e) THEN mh_block(c, x) ELSE c
           h == mh_block(p, l)
           g == h.interim
<1>1. mh_tail(c, n) = [h EXCEPT !.partial_block_buffer = l, !.digest = g]
  BY TailOpens DEF TailEnds, TailHashed
<1>2. Len(l) = MH_BLOCK
  BY TailLength
<1>3. MhShape(p) /\ p.total_length = c.total_length
  BY BlockCounts
<1> HIDE DEF l, p
<1>4. MhShape(h) /\ h.total_length = c.total_length
  BY <1>3, BlockCounts
<1> HIDE DEF h, g
<1>5. /\ mh_tail(c, n).total_length = h.total_length
      /\ mh_tail(c, n).partial_block_buffer = l
  BY <1>1, <1>4 DEF MhShape
<1>6. QED
  BY <1>2, <1>4, <1>5

LEMMA FinalizeCounts ==
  ASSUME NEW c, MhShape(c), c.total_length \in Nat,
         NEW d \in {mh_sha1_finalize(c), mh_sha256_finalize(c), mh_sha1_murmur3_finalize(c)}
  PROVE  d.total_length = c.total_length /\ Len(d.partial_block_buffer) = MH_BLOCK
<1> DEFINE n == c.total_length % LEN32
           t == c.total_length
<1>1. n \in Nat
  <2>1. t \in Nat
    OBVIOUS
  <2> HIDE DEF t
  <2>2. t % LEN32 \in Nat
    BY <2>1, MhSizes, DivisionOf
  <2>3. QED
    BY <2>2 DEF t
<1>2. CASE d = mh_tail(c, n)
  <2> HIDE DEF n
  <2>1. QED
    BY <1>1, <1>2, TailCounts
<1>3. CASE d = mh_sha1_murmur3_finalize(c)
  <2>1. PICK u : d = mh_tail([c EXCEPT !.murmur = u], n)
    BY <1>3 DEF mh_sha1_murmur3_finalize
  <2> DEFINE k == [c EXCEPT !.murmur = u]
  <2>2. MhShape(k) /\ k.total_length = c.total_length
    BY DEF MhShape
  <2> HIDE DEF k, n
  <2>3. d = mh_tail(k, n)
    BY <2>1 DEF k
  <2>4. QED
    BY <1>1, <2>2, <2>3, TailCounts
<1>4. QED
  BY <1>2, <1>3 DEF mh_sha1_finalize, mh_sha256_finalize

LEMMA HoldsCounts ==
  ASSUME NEW c, NEW n \in 0 .. MhMaxTotal, NEW m, MhHolds(c, n, m)
  PROVE  MhShape(c) /\ MhCounts(c)
<1>1. PICK w, p : w + p = n /\ MhCut(c, w, p, m)
  BY DEF MhHolds
<1>2. QED
  BY <1>1 DEF MhCut, Absorbed, Buffered, MhCounts

LEMMA MhTyped == Init /\ [][Next]_vars => []MhTypeOK
<1> DEFINE I == /\ MhTypeOK
                /\ mhPhase = "open" => MhHolds(mh, mhLength, Murmurs(mhKind))
<1>1. MhInit => I
  <2> SUFFICES ASSUME MhInit PROVE I
    OBVIOUS
  <2>1. mh.total_length = 0 /\ mh.partial_block_buffer = Zeros(MH_BLOCK)
    BY DEF MhInit, mh_init
  <2>2. Len(Zeros(MH_BLOCK)) = MH_BLOCK
    BY MhSizes, ZerosAre
  <2>3. QED
    BY <2>1, <2>2, MhSizes DEF MhInit, MhTypeOK
<1>2. ASSUME I, [MhNext]_mhVars PROVE I'
  <2>1. CASE UNCHANGED mhVars
    BY <1>2, <2>1 DEF mhVars, MhTypeOK
  <2>2. ASSUME mhPhase' = "open", mhKind' = mhKind, MhInv' PROVE I'
    <3>1. mhLength' \in 0 .. MhMaxTotal /\ MhHolds(mh', mhLength', Murmurs(mhKind'))
      BY <2>2 DEF MhInv
    <3>2. MhCounts(mh')
      BY <3>1, HoldsCounts
    <3>3. QED
      BY <1>2, <2>2, <3>1, <3>2 DEF MhTypeOK, MhCounts
  <2>3. CASE MhStart
    BY <2>2, <2>3, MhStartKeeps DEF MhStart
  <2>4. CASE \E len \in 0 .. MhMaxTotal : MhUpdate(len)
    <3>1. PICK len \in 0 .. MhMaxTotal : MhUpdate(len)
      BY <2>4
    <3>2. mhPhase = "open" /\ mhPhase' = "open" /\ mhKind' = mhKind
      BY <3>1 DEF MhUpdate
    <3>3. MhInv
      BY <1>2, <3>2 DEF MhInv, MhTypeOK
    <3>4. MhInv'
      BY <3>1, <3>3, MhUpdateKeeps
    <3>5. QED
      BY <2>2, <3>2, <3>4
  <2>5. CASE MhFinalize
    <3>1. /\ mhPhase = "open" /\ mhPhase' = "final" /\ mhKind' = mhKind /\ mhLength' = mhLength
          /\ mh' \in {mh_sha1_finalize(mh), mh_sha256_finalize(mh), mh_sha1_murmur3_finalize(mh)}
      BY <2>5 DEF MhFinalize
    <3>2. MhShape(mh) /\ mh.total_length \in 0 .. MhMaxTotal
      BY <1>2, <3>1, HoldsCounts DEF MhTypeOK
    <3>3. mh.total_length \in Nat
      BY <3>2, MhSizes
    <3>4. mh'.total_length = mh.total_length /\ Len(mh'.partial_block_buffer) = MH_BLOCK
      BY <3>1, <3>2, <3>3, FinalizeCounts
    <3>5. QED
      BY <1>2, <3>1, <3>2, <3>4 DEF MhTypeOK
  <2>6. QED
    BY <1>2, <2>1, <2>3, <2>4, <2>5 DEF MhNext
<1>3. I => MhTypeOK
  OBVIOUS
<1>4. I /\ [MhNext]_mhVars => I'
  BY <1>2
<1> HIDE DEF I
<1>5. QED
  BY <1>1, <1>3, <1>4, MhPartRuns, PTL

(* Every part keeps its state in the shape its code reads it in, whatever  *)
(* the lengths, the buffers and the calls (the structures of               *)
(* src/include/isa-l_crypto).                                              *)
THEOREM LibraryTypeOK == Spec => []TypeOK
<1>1. Init => part \in Parts
  BY DEF Init
<1>2. part \in Parts /\ [Next]_vars => (part \in Parts)'
  BY DEF Next, vars, BaseStep, MhStep, GcmStep, XtsStep, CbcStep, RollingStep, DispatchStep, ApiStep
<1>3. Spec => Init /\ [][Next]_vars
  BY DEF Spec
<1>4. /\ part \in Parts /\ BaseTypeOK /\ MhTypeOK /\ GcmTypeOK /\ XtsTypeOK /\ CbcTypeOK
      /\ RhTypeOK /\ DispTypeOK /\ ApiTypeOK
      => TypeOK
  BY DEF TypeOK
<1>5. QED
  BY <1>1, <1>2, <1>3, <1>4, BaseTyped, MhTyped, GcmTyped, XtsTyped, CbcTyped, RhTyped, DispTyped,
     ApiTyped, PTL
=============================================================================
