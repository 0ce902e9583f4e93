----------------------------- MODULE XtsSector ------------------------------
(***************************************************************************)
(* AES-XTS over one sector in memory, as aes/XTS_AES_128_enc_sse.asm and   *)
(* aes/XTS_AES_128_dec_sse.asm compute it: an initial group that leaves a  *)
(* multiple of eight blocks, the main loop of eight blocks, the last group *)
(* whose last block stays in a register, and ciphertext stealing.          *)
(*                                                                         *)
(* Memory is one array of bytes that holds both buffers, so that every     *)
(* load sees the stores before it.  A byte is symbolic: <<"in", address>>  *)
(* of the caller, zero, or byte i of the block <<dir, tweak, block>> that  *)
(* the tweaked cipher made.                                                *)
(***************************************************************************)
EXTENDS Integers, Sequences

CONSTANTS
    XTS_BLOCK,      \* bytes of a block (16)
    XTS_GROUP,      \* blocks of the main loop (8)
    XtsShifts,      \* bound of the model: output minus input pointer
    XtsMaxLen,      \* bound of the model: bytes of a sector
    XtsMemory       \* bound of the model: bytes of memory

ASSUME XtsAssumption ==
    /\ {XTS_BLOCK, XTS_GROUP} \subseteq Nat \ {0}
    /\ XtsShifts \subseteq Int
    /\ {XtsMaxLen, XtsMemory} \subseteq Nat
    /\ \A s \in XtsShifts : XtsMaxLen + (IF s < 0 THEN -s ELSE s) <= XtsMemory

VARIABLES
    xts,        \* the call: its arguments and registers, first or second
    xtsMem,     \* memory
    xtsWas      \* memory when the call began

xtsVars == <<xts, xtsMem, xtsWas>>

Filled == [a \in 1 .. XtsMemory |-> <<"in", a>>]
ZeroByte == <<"0">>
XtsLoad(mem, at, n) == [i \in 1 .. n |-> mem[at + i - 1]]
XtsStore(mem, at, data) ==
    [a \in DOMAIN mem |-> IF a \in at .. at + Len(data) - 1 THEN data[a - at + 1] ELSE mem[a]]

(* The cipher under key 1 between two exclusive ors of the tweak, and its  *)
(* inverse.  Tweak t is the encrypted initial tweak doubled t times.       *)
Opposite(dir) == IF dir = "enc" THEN "dec" ELSE "enc"
CipherBlock(dir, t, block) ==
    LET made(by, x) == [i \in 1 .. XTS_BLOCK |-> <<by, t, x, i>>]
        inner == block[1][3]
    IN  IF block[1][1] = Opposite(dir) /\ block = made(Opposite(dir), inner)
        THEN inner ELSE made(dir, block)

(* encrypt_initial, encrypt_by_eight and their decrypting twins: one block *)
(* under each of the tweaks.                                               *)
CipherBlocks(dir, tweaks, data) ==
    LET done == [j \in 1 .. Len(tweaks) |->
                    CipherBlock(dir, tweaks[j],
                                SubSeq(data, ((j - 1) * XTS_BLOCK) + 1, j * XTS_BLOCK))]
    IN  [i \in 1 .. Len(data) |->
            done[((i - 1) \div XTS_BLOCK) + 1][((i - 1) % XTS_BLOCK) + 1]]

InTurn(t, k) == [j \in 1 .. k |-> t + j - 1]
Whole == xts.n \div XTS_BLOCK
Rest  == xts.n % XTS_BLOCK

LastTweaks_NoSwap(dir, t, k, rest) ==       \* fault: decryption keeps the order of the last two tweaks
    [tweaks |-> InTurn(t, k), spare |-> t + k]

(* The tweaks of the last group and the one kept for stealing: decryption  *)
(* of a sector with a short block swaps the last two.                      *)
LastTweaks(dir, t, k, rest) ==
    IF dir = "dec" /\ rest > 0
    THEN [tweaks |-> [InTurn(t, k) EXCEPT ![k] = t + k], spare |-> t + k - 1]
    ELSE [tweaks |-> InTurn(t, k), spare |-> t + k]

-----------------------------------------------------------------------------
XtsInit ==
    /\ xts = [pc |-> "ret", dir |-> "enc", turn |-> 2, n |-> 0, in |-> 1, out |-> 1,
              left |-> 0, done |-> 0, spare |-> 0, state |-> << >>]
    /\ xtsMem = Filled
    /\ xtsWas = Filled

Called(dir, turn, n, in, out) ==
    [pc |-> "call", dir |-> dir, turn |-> turn, n |-> n, in |-> in, out |-> out,
     left |-> n \div XTS_BLOCK, done |-> 0, spare |-> 0, state |-> << >>]

(* A call with a sector the caller has filled in.                          *)
XtsCall(dir, n, shift) ==
    /\ xts.pc = "ret" /\ xts.turn = 2
    /\ \E in \in {IF shift < 0 THEN 1 - shift ELSE 1} :
            xts' = Called(dir, 1, n, in, in + shift)
    /\ xtsMem' = Filled
    /\ xtsWas' = Filled

(* The opposite call, in place on what the first one wrote.                *)
XtsCallBack ==
    /\ xts.pc = "ret" /\ xts.turn = 1
    /\ xts' = Called(Opposite(xts.dir), 2, xts.n, xts.out, xts.out)
    /\ xtsWas' = xtsMem
    /\ UNCHANGED xtsMem

(* Load k blocks, cipher them under the next tweaks, store them.           *)
Group(k, next) ==
    /\ xtsMem' = XtsStore(xtsMem, xts.out + (xts.done * XTS_BLOCK),
                       CipherBlocks(xts.dir, InTurn(xts.done, k),
                                    XtsLoad(xtsMem, xts.in + (xts.done * XTS_BLOCK), k * XTS_BLOCK)))
    /\ xts' = [xts EXCEPT !.pc = next, !.done = @ + k, !.left = @ - k]

(* Up to the main loop: nothing for less than a block, no initial group    *)
(* for less than eight.                                                    *)
XtsInitial ==
    /\ xts.pc = "call"
    /\ UNCHANGED xtsWas
    /\ \/ /\ xts.n < XTS_BLOCK
          /\ xts' = [xts EXCEPT !.pc = "ret"]
          /\ UNCHANGED xtsMem
       \/ /\ Whole \in 1 .. XTS_GROUP - 1
          /\ xts' = [xts EXCEPT !.pc = "last"]
          /\ UNCHANGED xtsMem
       \/ /\ Whole >= XTS_GROUP
          /\ \E k \in {Whole % XTS_GROUP} :
                Group(k, IF Whole - k <= XTS_GROUP THEN "last" ELSE "main")

(* _main_loop                                                              *)
XtsMainLoop ==
    /\ xts.pc = "main"
    /\ Group(XTS_GROUP, IF xts.left - XTS_GROUP = XTS_GROUP THEN "last" ELSE "main")
    /\ UNCHANGED xtsWas

(* _last_eight, _num_blocks_is_<k>: the last block stays in a register     *)
(* when a short one follows.                                               *)
XtsLast ==
    /\ xts.pc = "last"
    /\ \E k \in {xts.left} :
       \E t \in {LastTweaks(xts.dir, xts.done, k, Rest)} :
       \E data \in {CipherBlocks(xts.dir, t.tweaks,
                        XtsLoad(xtsMem, xts.in + (xts.done * XTS_BLOCK), k * XTS_BLOCK))} :
       \E kept \in {IF Rest = 0 THEN Len(data) ELSE Len(data) - XTS_BLOCK} :
            /\ xtsMem' = XtsStore(xtsMem, xts.out + (xts.done * XTS_BLOCK), SubSeq(data, 1, kept))
            /\ xts' = [xts EXCEPT !.pc = IF Rest = 0 THEN "ret" ELSE "steal",
                                  !.left = 0, !.done = @ + k, !.spare = t.spare,
                                  !.state = SubSeq(data, kept + 1, Len(data))]
    /\ UNCHANGED xtsWas

(* The register moved up by a block less r bytes: zeros below its first r. *)
MovedUp(state, r) ==
    [i \in 1 .. XTS_BLOCK |->
        IF i <= XTS_BLOCK - r THEN ZeroByte ELSE state[i - (XTS_BLOCK - r)]]

(* The short block, filled up with the end of the register.                *)
StolenBlock(state, loaded, r) ==
    [i \in 1 .. XTS_BLOCK |-> IF i <= r THEN loaded[(XTS_BLOCK - r) + i] ELSE state[i]]

(* _steal_cipher: the load and the store both end at the sector's end; the *)
(* last store covers the zeros.                                            *)
XtsSteal ==
    /\ xts.pc = "steal"
    /\ \E last \in {(xts.done - 1) * XTS_BLOCK} :
       \E loaded \in {XtsLoad(xtsMem, xts.in + last + Rest, XTS_BLOCK)} :
       \E moved \in {XtsStore(xtsMem, xts.out + last + Rest, MovedUp(xts.state, Rest))} :
            xtsMem' = XtsStore(moved, xts.out + last,
                            CipherBlock(xts.dir, xts.spare, StolenBlock(xts.state, loaded, Rest)))
    /\ xts' = [xts EXCEPT !.pc = "ret"]
    /\ UNCHANGED xtsWas

XtsNext ==
    \/ \E dir \in {"enc", "dec"}, n \in 0 .. XtsMaxLen, s \in XtsShifts : XtsCall(dir, n, s)
    \/ XtsCallBack
    \/ XtsInitial
    \/ XtsMainLoop
    \/ XtsLast
    \/ XtsSteal

-----------------------------------------------------------------------------
XtsTypeOK ==
    /\ xts.pc \in {"call", "main", "last", "steal", "ret"}
    /\ xts.left + xts.done \in {0, Whole}
    /\ DOMAIN xtsMem = 1 .. XtsMemory

(* IEEE 1619: block j under tweak j; a short block r bytes long takes the  *)
(* end of the last whole block's result, and the two change places.        *)
Standard(dir, data) ==
    LET n == Len(data)
        m == n \div XTS_BLOCK
        r == n % XTS_BLOCK
        Block(j)  == SubSeq(data, ((j - 1) * XTS_BLOCK) + 1, j * XTS_BLOCK)
        first     == IF dir = "enc" THEN m - 1 ELSE m
        second    == IF dir = "enc" THEN m ELSE m - 1
        cc        == CipherBlock(dir, first, Block(m))
        joined    == SubSeq(data, (m * XTS_BLOCK) + 1, n) \o SubSeq(cc, r + 1, XTS_BLOCK)
        alone     == IF r = 0 THEN m ELSE m - 1
    IN  IF m = 0 THEN data
        ELSE CipherBlocks(dir, InTurn(0, alone), SubSeq(data, 1, alone * XTS_BLOCK))
                \o (IF r = 0 THEN << >>
                    ELSE CipherBlock(dir, second, joined) \o SubSeq(cc, 1, r))

(* What a call wrote: the standard's result of what it was given, and      *)
(* nothing elsewhere; nothing at all for less than a block.                *)
WroteStandard ==
    xtsMem = IF xts.n < XTS_BLOCK THEN xtsWas
             ELSE XtsStore(xtsWas, xts.out, Standard(xts.dir, XtsLoad(xtsWas, xts.in, xts.n)))

(* Whatever the length, a call writes the sector the standard asks for and *)
(* no byte beside it, to separate buffers, in place, or to an output that  *)
(* begins below the input and overlaps it.                                 *)
XtsOutputIsStandard ==
    xts.pc = "ret" => WroteStandard

(* isa-l_crypto/aes_xts.h: the buffers may overlap as long as the output   *)
(* pointer is not less than the input pointer.  The calls do not keep it:  *)
(* the first store of an output that begins inside the input overwrites    *)
(* what is still to be read.                                               *)
XtsMayOverlapAbove ==
    xts.pc = "ret" /\ xts.out >= xts.in => WroteStandard
=============================================================================
