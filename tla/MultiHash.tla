----------------------------- MODULE MultiHash ------------------------------
(***************************************************************************)
(* The multi-hash streams mh_sha1, mh_sha256 and mh_sha1_murmur3_x64_128:  *)
(* one message given in pieces of any length to init, update .. update,    *)
(* finalize.  A block is STEPS words for each of SEGS segments, dealt out  *)
(* word by word; every segment is hashed on its own, and the digest is the *)
(* hash of the segments' digests.  Murmur3 reads the same message in small *)
(* blocks on the way.                                                      *)
(*                                                                         *)
(* The digest of a segment is the sequence of cells it has absorbed, that  *)
(* of murmur the sequence of its blocks, so equal digests are equal input. *)
(***************************************************************************)
EXTENDS HashPadding

CONSTANTS
    MhKinds,        \* the streams: "mh_sha1", "mh_sha256", "mh_sha1_murmur3"
    SEGS,           \* ISAL_HASH_SEGS (16)
    STEPS,          \* words of a segment in a block (16)
    WORD,           \* cells in a word (4)
    MUR_BLOCK,      \* ISAL_MUR_BLOCK_SIZE (16)
    LENFIELD,       \* cells of the length at the end of the padding (8)
    LEN32,          \* values of the 32-bit length finalize passes on (2^32)
    MhMaxTotal      \* bound of the model: cells of a message

MH_BLOCK == SEGS * STEPS * WORD         \* ISAL_MH_SHA1_BLOCK_SIZE (1024)

ASSUME MhAssumption ==
    /\ {SEGS, STEPS, WORD, MUR_BLOCK, LENFIELD, LEN32} \subseteq Nat \ {0}
    /\ MH_BLOCK % MUR_BLOCK = 0
    /\ LEN32 % MH_BLOCK = 0
    /\ LENFIELD < MH_BLOCK
    /\ MhMaxTotal \in Nat

VARIABLES
    mhKind,     \* which of the streams
    mh,         \* struct isal_mh_<hash>_ctx
    mhPhase,    \* "raw", "open" between init and finalize, "final"
    mhLength    \* cells the caller has given since init (ghost)

mhVars == <<mhKind, mh, mhPhase, mhLength>>

(* memcpy of cells into a buffer.                                          *)
Overlay(buffer, at, cells) ==
    [i \in 1 .. Len(buffer) |-> IF at < i /\ i <= at + Len(cells) THEN cells[i - at]
                                ELSE buffer[i]]

-----------------------------------------------------------------------------
(* Word i of a segment is word i * SEGS + s of the data: STORE_W.          *)
SegmentOf(cells, s) ==
    [k \in 1 .. Len(cells) \div SEGS |->
        cells[(((k - 1) \div WORD) * SEGS + s) * WORD + ((k - 1) % WORD) + 1]]

MurmurBlocks(cells) ==
    [i \in 1 .. Len(cells) \div MUR_BLOCK |->
        SubSeq(cells, (i - 1) * MUR_BLOCK + 1, i * MUR_BLOCK)]

(* mh_<hash>_block on whole blocks of data.                                *)
mh_block(c, cells) ==
    [c EXCEPT !.interim = [s \in 0 .. SEGS - 1 |-> @[s] \o SegmentOf(cells, s)]]

(* mh_sha1_murmur3_x64_128_block: both hashes take the same blocks.        *)
mh_murmur_block(c, cells) ==
    [mh_block(c, cells) EXCEPT !.murmur = @ \o MurmurBlocks(cells)]

(* mh_<hash>_init                                                          *)
mh_init ==
    [ total_length         |-> 0,
      partial_block_buffer |-> Zeros(MH_BLOCK),
      interim              |-> [s \in 0 .. SEGS - 1 |-> << >>],
      murmur               |-> << >>,
      digest               |-> << >> ]

KeepRest(c, cells) == [c EXCEPT !.partial_block_buffer = Overlay(@, 0, cells)]

(* The text all the update functions share: fill the partial block, hash   *)
(* it, hash the whole blocks where they lie, keep the rest.                *)
Update(c, cells, murmur) ==
    LET Block(d, data) == IF murmur THEN mh_murmur_block(d, data) ELSE mh_block(d, data)
        partial == c.total_length % MH_BLOCK
        counted == [c EXCEPT !.total_length = @ + Len(cells)]
        head    == IF partial = 0 THEN 0 ELSE MH_BLOCK - partial
        filled  == Overlay(c.partial_block_buffer, partial, SubSeq(cells, 1, head))
        opened  == IF partial = 0 THEN counted
                   ELSE [Block(counted, filled) EXCEPT !.partial_block_buffer = Zeros(MH_BLOCK)]
        whole   == ((Len(cells) - head) \div MH_BLOCK) * MH_BLOCK
    IN  CASE Len(cells) = 0 -> c
          [] Len(cells) # 0 /\ Len(cells) < MH_BLOCK - partial ->
                [counted EXCEPT !.partial_block_buffer = Overlay(@, partial, cells)]
          [] OTHER ->
                KeepRest(Block(opened, SubSeq(cells, head + 1, head + whole)),
                         DropFirst(cells, head + whole))

mh_sha1_update(c, cells)         == Update(c, cells, FALSE)
mh_sha256_update(c, cells)       == Update(c, cells, FALSE)
mh_sha1_murmur3_update(c, cells) == Update(c, cells, TRUE)

WithLength(buffer, total) ==
    Overlay(buffer, MH_BLOCK - LENFIELD, Append(Zeros(LENFIELD - 1), LengthCell(total)))

SecondBlock_Late(used) == used > MH_BLOCK       \* fault: no room is kept for the length

SecondBlock(used) == used > MH_BLOCK - LENFIELD

(* mh_<hash>_tail: pad in the partial block, in a second block when the    *)
(* length does not fit, then hash the digests of the segments.             *)
mh_tail(c, total) ==
    LET partial == (total % MH_BLOCK) + 1
        first   == [i \in 1 .. MH_BLOCK |-> CASE i < partial -> c.partial_block_buffer[i]
                                              [] i = partial -> Hex80
                                              [] OTHER -> Zero]
        second  == SecondBlock(partial)
        padded  == IF second THEN mh_block(c, first) ELSE c
        last    == WithLength(IF second THEN Zeros(MH_BLOCK) ELSE first, total)
        hashed  == mh_block(padded, last)
    IN  [hashed EXCEPT !.partial_block_buffer = last, !.digest = hashed.interim]

(* The 64-bit total length is cast to 32 bits on its way to the tail.      *)
mh_sha1_finalize(c)   == mh_tail(c, c.total_length % LEN32)
mh_sha256_finalize(c) == mh_tail(c, c.total_length % LEN32)

(* Murmur first: the small blocks of the partial block and the tail, with  *)
(* the length; the padding of mh_sha1 then overwrites the buffer.          *)
mh_sha1_murmur3_finalize(c) ==
    LET total   == c.total_length % LEN32
        partial == c.total_length % MH_BLOCK
        blocks  == SubSeq(c.partial_block_buffer, 1, partial - (partial % MUR_BLOCK))
        rest    == SubSeq(c.partial_block_buffer, Len(blocks) + 1,
                          Len(blocks) + (total % MUR_BLOCK))
    IN  mh_tail([c EXCEPT !.murmur = (@ \o MurmurBlocks(blocks)) \o <<rest, LengthCell(total)>>],
                total)

-----------------------------------------------------------------------------
MhInit ==
    /\ mhKind \in MhKinds
    /\ mh = mh_init
    /\ mhPhase = "raw"
    /\ mhLength = 0

(* A message begins: init may be called at any time.                       *)
MhStart ==
    /\ mhPhase # "open"
    /\ mh' = mh_init
    /\ mhPhase' = "open"
    /\ mhLength' = 0
    /\ UNCHANGED mhKind

MhUpdate(len) ==
    /\ mhPhase = "open"
    /\ mhLength + len <= MhMaxTotal
    /\ mhLength' = mhLength + len
    /\ \E cells \in {Piece(mhLength, len)} :
          \/ mhKind = "mh_sha1" /\ mh' = mh_sha1_update(mh, cells)
          \/ mhKind = "mh_sha256" /\ mh' = mh_sha256_update(mh, cells)
          \/ mhKind = "mh_sha1_murmur3" /\ mh' = mh_sha1_murmur3_update(mh, cells)
    /\ UNCHANGED <<mhKind, mhPhase>>

MhFinalize ==
    /\ mhPhase = "open"
    /\ mhPhase' = "final"
    /\ \/ mhKind = "mh_sha1" /\ mh' = mh_sha1_finalize(mh)
       \/ mhKind = "mh_sha256" /\ mh' = mh_sha256_finalize(mh)
       \/ mhKind = "mh_sha1_murmur3" /\ mh' = mh_sha1_murmur3_finalize(mh)
    /\ UNCHANGED <<mhKind, mhLength>>

MhNext == MhStart \/ MhFinalize \/ \E len \in 0 .. MhMaxTotal : MhUpdate(len)

-----------------------------------------------------------------------------
MhTypeOK ==
    /\ mhKind \in MhKinds
    /\ mhPhase \in {"raw", "open", "final"}
    /\ mhLength \in 0 .. MhMaxTotal
    /\ mh.total_length \in 0 .. MhMaxTotal
    /\ Len(mh.partial_block_buffer) = MH_BLOCK

MhPadded(n) == PaddedMessage(n, MH_BLOCK, LENFIELD)

(* However the message was cut into updates, the digest is that of the     *)
(* definition in mh_sha1.h, the padded message dealt out to the segments   *)
(* at once, and the murmur digest that of the message in one piece, though *)
(* its last blocks are read from the buffer mh_sha1 pads.                  *)
MhDigestIsReference ==
    mhPhase = "final" =>
        /\ \A s \in 0 .. SEGS - 1 : mh.digest[s] = SegmentOf(MhPadded(mhLength), s)
        /\ mhKind = "mh_sha1_murmur3" =>
            mh.murmur = MurmurBlocks(WholeMessage(mhLength))
                            \o <<DropFirst(WholeMessage(mhLength), mhLength - (mhLength % MUR_BLOCK)),
                                 LengthCell(mhLength)>>
=============================================================================
