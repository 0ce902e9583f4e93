------------------------------ MODULE BaseCtx -------------------------------
(***************************************************************************)
(* The portable hash contexts, <hash>_mb/<hash>_ctx_base.c, under the      *)
(* checked API of <hash>_mb.c: submit hashes at once on the caller's       *)
(* thread, there is no manager state, and flush never has anything.  One   *)
(* context, given its messages in pieces of any length and misused on the  *)
(* way.  The five files differ in the round function, the block and the    *)
(* length field.                                                           *)
(***************************************************************************)
EXTENDS HashPadding

CONSTANTS
    BaseHashes,     \* "sha1", "sha256", "sha512", "md5", "sm3"
    BASE_BLOCK,     \* cells of a block
    FIELD64,        \* cells of a 64-bit length field
    FIELD128,       \* cells of the length field of SHA512
    BaseMaxTotal    \* bound of the model: cells of a message

ASSUME BaseAssumption ==
    /\ {BASE_BLOCK, FIELD64, FIELD128} \subseteq Nat \ {0}
    /\ FIELD64 < BASE_BLOCK /\ FIELD128 < BASE_BLOCK
    /\ BaseMaxTotal \in Nat

VARIABLES
    baseHash,       \* which of the hashes
    base,           \* ISAL_<HASH>_HASH_CTX
    baseLength      \* cells of the message in hand (ghost)

baseVars == <<baseHash, base, baseLength>>

(* The live part of the partial block buffer stands for the buffer and its *)
(* length, the cells absorbed so far for the digest.  Nothing but status   *)
(* and error is read before a message begins.                              *)
hash_ctx_init ==
    [ status               |-> "COMPLETE",
      error                |-> "NONE",
      total_length         |-> 0,
      partial_block_buffer |-> << >>,
      result_digest        |-> << >> ]

-----------------------------------------------------------------------------
base_init ==
    [ status               |-> "PROCESSING",
      error                |-> "NONE",
      total_length         |-> 0,
      partial_block_buffer |-> << >>,
      result_digest        |-> << >> ]

TopUp_OnlyShort(c, cells) ==        \* fault: the partial block is not looked at
    LET room == BASE_BLOCK - Len(c.partial_block_buffer)
    IN  IF Len(cells) >= BASE_BLOCK THEN 0
        ELSE IF Len(cells) < room THEN Len(cells) ELSE room

(* Cells that go to the partial block: none if it is empty and whole       *)
(* blocks can be hashed where they lie.                                    *)
TopUp(c, cells) ==
    LET room == BASE_BLOCK - Len(c.partial_block_buffer)
    IN  IF c.partial_block_buffer = << >> /\ Len(cells) >= BASE_BLOCK THEN 0
        ELSE IF Len(cells) < room THEN Len(cells) ELSE room

(* Top the partial block up and hash it when it is full, hash whole blocks *)
(* where they lie, keep what is left.                                      *)
base_update(c, cells) ==
    LET copy  == TopUp(c, cells)
        block == c.partial_block_buffer \o SubSeq(cells, 1, copy)
        full  == Len(block) >= BASE_BLOCK
        rest  == DropFirst(cells, copy)
        whole == IF full \/ block = << >> THEN Len(rest) - (Len(rest) % BASE_BLOCK) ELSE 0
        kept  == DropFirst(rest, whole)
    IN  [ c EXCEPT !.status = "IDLE",
                   !.total_length = @ + Len(cells),
                   !.result_digest = (@ \o (IF full THEN block ELSE << >>))
                                        \o SubSeq(rest, 1, whole),
                   !.partial_block_buffer = IF kept # << >> THEN kept
                                            ELSE IF full THEN << >> ELSE block ]

PadEnd_LateMark(used, field) ==     \* fault: tested before the mark is counted
    IF used - 1 > BASE_BLOCK - field THEN 2 * BASE_BLOCK ELSE BASE_BLOCK

(* The padding takes a second block when the length does not fit behind    *)
(* the mark.                                                               *)
PadEnd(used, field) == IF used > BASE_BLOCK - field THEN 2 * BASE_BLOCK ELSE BASE_BLOCK

base_final(c, field) ==
    LET marked == c.partial_block_buffer \o <<Hex80>>
        end    == PadEnd(Len(marked), field)
        buf    == marked \o Zeros(end - Len(marked))
    IN  [ c EXCEPT !.status = "COMPLETE",
                   !.result_digest = @ \o [buf EXCEPT ![end] = LengthCell(c.total_length)] ]

(* Why submit refuses flags.  Between calls no context is PROCESSING, as   *)
(* every update leaves IDLE, so the second test never fires.               *)
base_misuse(c, flags) ==
    IF "OTHER" \in flags THEN "INVALID_FLAGS"
    ELSE IF c.status = "PROCESSING" /\ flags = {"FIRST", "LAST"} THEN "ALREADY_PROCESSING"
    ELSE IF c.status = "COMPLETE" /\ "FIRST" \notin flags THEN "ALREADY_COMPLETED"
    ELSE "NONE"

(* Only init resets the error: it stays with the context, and is what the  *)
(* API returns, over the updates that follow.                              *)
base_submit(c, cells, flags, field) ==
    LET started == IF "FIRST" \in flags THEN base_init ELSE c
        updated == base_update(started, cells)
    IN  IF base_misuse(c, flags) # "NONE" THEN [c EXCEPT !.error = base_misuse(c, flags)]
        ELSE IF "LAST" \in flags THEN base_final(updated, field)
        ELSE updated

sha1_submit(c, cells, flags)   == base_submit(c, cells, flags, FIELD64)
sha256_submit(c, cells, flags) == base_submit(c, cells, flags, FIELD64)
md5_submit(c, cells, flags)    == base_submit(c, cells, flags, FIELD64)
sm3_submit(c, cells, flags)    == base_submit(c, cells, flags, FIELD64)
sha512_submit(c, cells, flags) == base_submit(c, cells, flags, FIELD128)

-----------------------------------------------------------------------------
BaseInit ==
    /\ baseHash \in BaseHashes
    /\ base = hash_ctx_init
    /\ baseLength = 0

(* The API returns base.error, whichever call that is of.                  *)
BaseSubmit(len, flags) ==
    LET before   == IF "FIRST" \in flags THEN 0 ELSE baseLength
        accepted == base_misuse(base, flags) = "NONE"
    IN  /\ before + len <= BaseMaxTotal
        /\ baseLength' = IF accepted THEN before + len ELSE baseLength
        /\ \E cells \in {Piece(before, len)} :
              \/ baseHash = "sha1"   /\ base' = sha1_submit(base, cells, flags)
              \/ baseHash = "sha256" /\ base' = sha256_submit(base, cells, flags)
              \/ baseHash = "sha512" /\ base' = sha512_submit(base, cells, flags)
              \/ baseHash = "md5"    /\ base' = md5_submit(base, cells, flags)
              \/ baseHash = "sm3"    /\ base' = sm3_submit(base, cells, flags)
        /\ UNCHANGED baseHash

BaseFlags == (SUBSET {"FIRST", "LAST"}) \cup {{"OTHER"}}

BaseNext == \E len \in 0 .. BaseMaxTotal : \E flags \in BaseFlags : BaseSubmit(len, flags)

-----------------------------------------------------------------------------
BaseTypeOK ==
    /\ baseHash \in BaseHashes
    /\ base.status \in {"IDLE", "COMPLETE"}
    /\ base.error \in {"NONE", "INVALID_FLAGS", "ALREADY_COMPLETED"}
    /\ base.total_length \in 0 .. BaseMaxTotal
    /\ Len(base.partial_block_buffer) < BASE_BLOCK

(* However the message was cut, and whatever calls were refused on the     *)
(* way, a finished context has the hash of its whole message with the      *)
(* padding of the standard, even when the error of an earlier call is      *)
(* reported with it, and keeps it over later misuse.                       *)
BaseDigestIsReference ==
    base.status = "COMPLETE" /\ base.result_digest # << >> =>
        base.result_digest =
            PaddedMessage(baseLength, BASE_BLOCK,
                          IF baseHash = "sha512" THEN FIELD128 ELSE FIELD64)
=============================================================================
