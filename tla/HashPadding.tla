---------------------------- MODULE HashPadding -----------------------------
(***************************************************************************)
(* The cells of a hashed message, and the padding all the hashes of the    *)
(* library use (FIPS 180-4, 5.1): the message, a one bit, as few zeros as  *)
(* reach the end of a block with the length behind them, the length.       *)
(***************************************************************************)
EXTENDS Integers, Sequences

Hex80         == <<"80", 0>>
Zero          == <<"00", 0>>
LengthCell(n) == <<"length", n>>
Cell(i)       == <<"data", i>>

Piece(n, len)    == [i \in 1 .. len |-> Cell(n + i)]    \* the next len cells after n
WholeMessage(n)  == Piece(0, n)
Zeros(n)         == [i \in 1 .. n |-> Zero]
DropFirst(s, n)  == SubSeq(s, n + 1, Len(s))

(* A message of n cells, padded to blocks whose last field cells are for   *)
(* the length.                                                             *)
PaddedMessage(n, block, field) ==
    LET room == n + 1 + field
        fill == (block - (room % block)) % block
    IN  WholeMessage(n) \o <<Hex80>> \o Zeros(fill + field - 1) \o <<LengthCell(n)>>
=============================================================================
