----------------------------- MODULE GcmStream ------------------------------
(***************************************************************************)
(* AES-GCM over a message given in pieces, as aes/gcm_sse.asm computes it: *)
(* GCM_INIT, GCM_ENC_DEC for every piece, GCM_COMPLETE.  The one-call      *)
(* functions are these three in a row.                                     *)
(*                                                                         *)
(* Arithmetic is exact but symbolic.  A byte is the set of the atoms it is *)
(* the exclusive or of: an input byte, or a byte of the key stream         *)
(* <<"E", counter, position>>.  GHASH is linear, so its state is a set of  *)
(* terms <<atom, position in the block, power of the hash key>>.           *)
(***************************************************************************)
EXTENDS Integers, Sequences

CONSTANTS
    GCM_BLOCK,      \* bytes of a block (16)
    GROUP,          \* blocks encrypted and hashed together (8)
    LOW,            \* values of the low byte of the counter (256)
    AAD_LIMIT,      \* bytes of authenticated data whose length in bits no longer fits
                    \* the 32 bits GCM_COMPLETE takes of it (2^29)
    AadLens,        \* bound of the model: lengths of authenticated data
    GcmMaxLen       \* bound of the model: bytes of a message

ASSUME GcmAssumption ==
    /\ {GCM_BLOCK, GROUP, LOW, AAD_LIMIT} \subseteq Nat \ {0}
    /\ GROUP < LOW
    /\ AadLens \subseteq Nat
    /\ GcmMaxLen \in Nat

VARIABLES
    gcmDir,     \* "ENC" or "DEC"
    gcm,        \* struct isal_gcm_context_data
    gcmOut,     \* the bytes written so far
    gcmTag,     \* the tag, once complete
    gcmPhase    \* "raw", "open" between init and finalize, "final"

gcmVars == <<gcmDir, gcm, gcmOut, gcmTag, gcmPhase>>

Xor(S, T) == (S \ T) \cup (T \ S)
Input(n, len) == [i \in 1 .. len |-> {<<"in", n + i>>}]
Aad(n)        == [i \in 1 .. n |-> {<<"aad", i>>}]
KeyStream(ctr, pos) == <<"E", ctr, pos>>
Y0 == 1         \* the counter of the first block is 2

CeilDiv(n) == (n + GCM_BLOCK - 1) \div GCM_BLOCK
Smaller(m, n) == IF m < n THEN m ELSE n

(* Data xored into the hash from a position of the block on.               *)
Terms(data, at) ==
    UNION {{<<atom, at + i, 0>> : atom \in data[i]} : i \in 1 .. Len(data)}

(* GHASH_MUL, n times.                                                     *)
Times(hash, n) == {<<t[1], t[2], t[3] + n>> : t \in hash}

(* Hash whole blocks (the last may be short): one multiplication each, or  *)
(* eight at a time with HashKey_8 .. HashKey.                              *)
Ghash(hash, data) ==
    LET n     == CeilDiv(Len(data))
        Power(i) == n - ((i - 1) \div GCM_BLOCK)
        Place(i) == ((i - 1) % GCM_BLOCK) + 1
    IN  Xor(Times(hash, n),
            UNION {{<<atom, Place(i), Power(i)>> : atom \in data[i]} : i \in 1 .. Len(data)})

(* Blocks xored with the key stream of the counters given.                 *)
Crypt(data, ctrs) ==
    [i \in 1 .. Len(data) |->
        Xor(data[i], {KeyStream(ctrs[((i - 1) \div GCM_BLOCK) + 1],
                                ((i - 1) % GCM_BLOCK) + 1)})]

(* What is hashed is the ciphertext, written or read.                      *)
Ciphertext(dir, in, out) == IF dir = "ENC" THEN out ELSE in

-----------------------------------------------------------------------------
(* GCM_INIT and CALC_AAD_HASH                                              *)
GCM_INIT(aadLen) ==
    [ AadHash      |-> Ghash({}, Aad(aadLen)),
      AadLen       |-> aadLen,
      InLen        |-> 0,
      PBlockLen    |-> 0,
      PBlockEncKey |-> 0,           \* the counter whose key stream is kept
      CurCount     |-> Y0 ]

PARTIAL_BLOCK_MultipliesAlways(dir, c, in) ==   \* fault: GHASH_MUL before the block is full
    LET n    == Smaller(Len(in), GCM_BLOCK - c.PBlockLen)
        data == SubSeq(in, 1, n)
        out  == [i \in 1 .. n |->
                    Xor(data[i], {KeyStream(c.PBlockEncKey, c.PBlockLen + i)})]
        hash == Xor(c.AadHash, Terms(Ciphertext(dir, data, out), c.PBlockLen))
        full == c.PBlockLen + Len(in) >= GCM_BLOCK
    IN  IF c.PBlockLen = 0 THEN [ctx |-> c, out |-> << >>]
        ELSE [ctx |-> [c EXCEPT !.AadHash = Times(hash, 1),
                                !.PBlockLen = IF full THEN 0 ELSE @ + Len(in)],
              out |-> out]

(* Fill the block the last piece left: the rest of its key stream, the     *)
(* hash multiplied only when the block is full.                            *)
PARTIAL_BLOCK(dir, c, in) ==
    LET n    == Smaller(Len(in), GCM_BLOCK - c.PBlockLen)
        data == SubSeq(in, 1, n)
        out  == [i \in 1 .. n |->
                    Xor(data[i], {KeyStream(c.PBlockEncKey, c.PBlockLen + i)})]
        hash == Xor(c.AadHash, Terms(Ciphertext(dir, data, out), c.PBlockLen))
        full == c.PBlockLen + Len(in) >= GCM_BLOCK
    IN  IF c.PBlockLen = 0 THEN [ctx |-> c, out |-> << >>]
        ELSE [ctx |-> [c EXCEPT !.AadHash = IF full THEN Times(hash, 1) ELSE hash,
                                !.PBlockLen = IF full THEN 0 ELSE @ + Len(in)],
              out |-> out]

InOrder(ctr, n) == [i \in 1 .. n |-> ctr + i]

(* ONEf adds to the low byte where it lies in memory order: no carry.      *)
OutOfOrder(ctr, n) == [i \in 1 .. n |-> (ctr - (ctr % LOW)) + ((ctr + i) % LOW)]

GroupCounters_AlwaysFast(ctr) == OutOfOrder(ctr, GROUP)     \* fault: no carry ever

(* GHASH_8_ENCRYPT_8_PARALLEL: the fast increment as long as the low byte  *)
(* has room for eight more.                                                *)
GroupCounters(ctr) ==
    IF ctr % LOW > (LOW - 1) - GROUP THEN InOrder(ctr, GROUP) ELSE OutOfOrder(ctr, GROUP)

(* The whole blocks: first their number modulo eight, one by one, and the  *)
(* first eight after them (INITIAL_BLOCKS); then eight by eight.           *)
BlockCounters(ctr, blocks) ==
    LET first  == (blocks % GROUP) + (IF blocks >= GROUP THEN GROUP ELSE 0)
        groups == blocks \div GROUP
        run[g \in 0 .. groups] ==
            IF g <= 1 THEN InOrder(ctr, IF g = 0 THEN blocks % GROUP ELSE first)
            ELSE LET last == run[g - 1][Len(run[g - 1])]
                 IN  run[g - 1] \o GroupCounters(last)
    IN  run[groups]

(* INITIAL_BLOCKS, GHASH_8_ENCRYPT_8_PARALLEL and GHASH_LAST_8             *)
WholeBlocks(dir, c, in) ==
    LET ctrs == BlockCounters(c.CurCount, Len(in) \div GCM_BLOCK)
        out  == Crypt(in, ctrs)
    IN  [ctx |-> [c EXCEPT !.AadHash = Ghash(@, Ciphertext(dir, in, out)),
                           !.CurCount = IF ctrs = << >> THEN @ ELSE ctrs[Len(ctrs)]],
         out |-> out]

(* The last short piece opens a new block and keeps its key stream.        *)
LastPiece(dir, c, in) ==
    LET out == Crypt(in, <<c.CurCount + 1>>)
    IN  IF in = << >> THEN [ctx |-> c, out |-> << >>]
        ELSE [ctx |-> [c EXCEPT !.PBlockLen = Len(in),
                                !.CurCount = @ + 1,
                                !.PBlockEncKey = c.CurCount + 1,
                                !.AadHash = Xor(@, Terms(Ciphertext(dir, in, out), 0))],
              out |-> out]

GCM_COMPLETE_SkipsPartial(c) ==     \* fault: the open block is not multiplied in
    LET lengths == {<<<<"len", c.AadLen % AAD_LIMIT, c.InLen>>, 0, 0>>}
    IN  Xor(Times(Xor(c.AadHash, lengths), 1), {<<KeyStream(Y0, 0), 0, 0>>})

(* GCM_COMPLETE: the tag.  The length of the authenticated data goes       *)
(* through 32 bits (shl r12, 3; movd xmm15, r12d), that of the message not. *)
GCM_COMPLETE(c) ==
    LET hash    == IF c.PBlockLen = 0 THEN c.AadHash ELSE Times(c.AadHash, 1)
        lengths == {<<<<"len", c.AadLen % AAD_LIMIT, c.InLen>>, 0, 0>>}
    IN  Xor(Times(Xor(hash, lengths), 1), {<<KeyStream(Y0, 0), 0, 0>>})

-----------------------------------------------------------------------------
GcmInit ==
    /\ gcmDir \in {"ENC", "DEC"}
    /\ gcm = GCM_INIT(0)
    /\ gcmOut = << >>
    /\ gcmTag = {}
    /\ gcmPhase = "raw"

(* _aes_gcm_init_<key>                                                     *)
GcmStart(aadLen) ==
    /\ gcmPhase # "open"
    /\ gcm' = GCM_INIT(aadLen)
    /\ gcmOut' = << >>
    /\ gcmTag' = {}
    /\ gcmPhase' = "open"
    /\ UNCHANGED gcmDir

(* _aes_gcm_enc_<key>_update, _aes_gcm_dec_<key>_update: GCM_ENC_DEC       *)
GcmUpdate(len) ==
    /\ gcmPhase = "open"
    /\ gcm.InLen + len <= GcmMaxLen
    /\ \E in \in {Input(gcm.InLen, len)} :
       \E a \in {PARTIAL_BLOCK(gcmDir, gcm, in)} :
       \E rest \in {SubSeq(in, Len(a.out) + 1, len)} :
       \E whole \in {Len(rest) - (Len(rest) % GCM_BLOCK)} :
       \E b \in {WholeBlocks(gcmDir, a.ctx, SubSeq(rest, 1, whole))} :
       \E d \in {LastPiece(gcmDir, b.ctx, SubSeq(rest, whole + 1, Len(rest)))} :
            IF len = 0 THEN UNCHANGED <<gcm, gcmOut>>
            ELSE /\ gcm' = [d.ctx EXCEPT !.InLen = @ + len]
                 /\ gcmOut' = (gcmOut \o a.out) \o (b.out \o d.out)
    /\ UNCHANGED <<gcmDir, gcmTag, gcmPhase>>

(* _aes_gcm_enc_<key>_finalize, _aes_gcm_dec_<key>_finalize                *)
GcmFinalize ==
    /\ gcmPhase = "open"
    /\ gcmTag' = GCM_COMPLETE(gcm)
    /\ gcm' = [gcm EXCEPT !.AadHash = IF gcm.PBlockLen = 0 THEN @ ELSE Times(@, 1)]
    /\ gcmPhase' = "final"
    /\ UNCHANGED <<gcmDir, gcmOut>>

GcmNext ==
    \/ \E n \in AadLens : GcmStart(n)
    \/ \E len \in 0 .. GcmMaxLen : GcmUpdate(len)
    \/ GcmFinalize

-----------------------------------------------------------------------------
GcmTypeOK ==
    /\ gcmDir \in {"ENC", "DEC"}
    /\ gcmPhase \in {"raw", "open", "final"}
    /\ gcm.InLen \in 0 .. GcmMaxLen
    /\ gcm.PBlockLen \in 0 .. GCM_BLOCK - 1
    /\ gcm.CurCount \in Nat
    /\ Len(gcmOut) = gcm.InLen

(* SP 800-38D over the whole message at once: block k of the message under *)
(* counter k + 1; authenticated data, ciphertext and lengths hashed; the   *)
(* block Y0 on top.                                                        *)
WholeOutput(n) == Crypt(Input(0, n), InOrder(Y0, CeilDiv(n)))

WholeTag(dir, aadLen, n) ==
    LET hashed  == Ghash(Ghash({}, Aad(aadLen)),
                         Ciphertext(dir, Input(0, n), WholeOutput(n)))
        lengths == {<<<<"len", aadLen, n>>, 0, 0>>}
    IN  Xor(Times(Xor(hashed, lengths), 1), {<<KeyStream(Y0, 0), 0, 0>>})

(* Wherever the pieces are cut, each byte is xored with the key stream     *)
(* byte of its place in the message, also where the counter's low byte     *)
(* overflows among eight blocks.                                           *)
GcmOutputIsReference == gcmOut = WholeOutput(gcm.InLen)

(* The length of the authenticated data fits the field it is hashed in.    *)
AadFits == gcm.AadLen < AAD_LIMIT

(* The tag does not depend on the cuts, nor on how the authenticated data  *)
(* ends, as long as its length fits.                                       *)
GcmTagIsReference ==
    gcmPhase = "final" /\ AadFits => gcmTag = WholeTag(gcmDir, gcm.AadLen, gcm.InLen)
=============================================================================
