------------------------------ MODULE CbcChain ------------------------------
(***************************************************************************)
(* AES-CBC over a message in memory: encryption with one block of          *)
(* look-ahead and a rotating set of registers (aes/cbc_common.asm,         *)
(* CBC_ENC_SUBLOOP), decryption by eight blocks with the first block of    *)
(* the next eight read before the last store of these                      *)
(* (intel-ipsec-mb/lib/include/aes_cbc_dec_by8_sse.inc).                   *)
(*                                                                         *)
(* A cell of memory is one block: the set of the atoms it is the exclusive *)
(* or of.  The cipher of a block is one new atom.                          *)
(***************************************************************************)
EXTENDS Integers, Sequences

CONSTANTS
    UNROLLED_LOOPS,     \* blocks of the encryption loop (3)
    CBC_GROUP,          \* blocks of the decryption loop (8)
    CbcShifts,          \* bound of the model: output minus input pointer, in blocks
    CbcMaxLen,          \* bound of the model: blocks of a message
    CbcMemory           \* bound of the model: blocks of memory

ASSUME CbcAssumption ==
    /\ UNROLLED_LOOPS \in Nat \ {0, 1}
    /\ CBC_GROUP \in Nat \ {0}
    /\ CbcShifts \subseteq Int
    /\ {CbcMaxLen, CbcMemory} \subseteq Nat
    /\ \A s \in CbcShifts : CbcMaxLen + (IF s < 0 THEN -s ELSE s) <= CbcMemory

VARIABLES
    cbc,        \* the call: its arguments, IDX, LEN and registers
    cbcMem,     \* memory
    cbcWas      \* memory when the call began

cbcVars == <<cbc, cbcMem, cbcWas>>

XorBlocks(S, T) == (S \ T) \cup (T \ S)
IV == {<<"iv">>}
FilledBlocks == [a \in 1 .. CbcMemory |-> {<<"in", a>>}]
NoRegs == [i \in 0 .. UNROLLED_LOOPS - 1 |-> {}]

(* The block cipher and its inverse.                                       *)
Reversed(kind) == IF kind = "E" THEN "D" ELSE "E"
CipherOf(kind, block) ==
    IF \E x \in block : block = {x} /\ x[1] = Reversed(kind)
    THEN (CHOOSE x \in block : TRUE)[2]
    ELSE {<<kind, block>>}

PutBlocks(mem, at, blocks) ==
    [a \in DOMAIN mem |-> IF a \in at .. at + Len(blocks) - 1 THEN blocks[a - at + 1] ELSE mem[a]]
GetBlocks(mem, at, n) == [i \in 1 .. n |-> mem[at + i - 1]]

-----------------------------------------------------------------------------
CbcIdle == [pc |-> "ret", dir |-> "enc", n |-> 0, in |-> 1, out |-> 1, idx |-> 0, len |-> 0,
            first |-> 0, regs |-> NoRegs, xdata0 |-> {}, iv |-> {}]

CbcInit ==
    /\ cbc = CbcIdle
    /\ cbcMem = FilledBlocks
    /\ cbcWas = FilledBlocks

(* A call with n blocks the caller has filled in; encryption starts with   *)
(* CBC_ENC_INIT.                                                           *)
CbcCall(dir, n, shift) ==
    /\ cbc.pc = "ret"
    /\ \E in \in {IF shift < 0 THEN 1 - shift ELSE 1} :
            cbc' = [CbcIdle EXCEPT !.pc = dir, !.dir = dir, !.n = n, !.in = in, !.out = in + shift,
                                   !.len = n, !.iv = IV,
                                   !.regs = IF dir = "enc"
                                            THEN [@ EXCEPT ![0] = XorBlocks(FilledBlocks[in], IV)]
                                            ELSE @]
    /\ cbcMem' = FilledBlocks
    /\ cbcWas' = FilledBlocks

EncBlock_StoresFirst(c, mem) ==             \* fault: the next block is read after the store
    LET next   == (c.first + 1) % UNROLLED_LOOPS
        cipher == CipherOf("E", c.regs[c.first])
        stored == PutBlocks(mem, c.out + c.idx, <<cipher>>)
    IN  [regs |-> [c.regs EXCEPT ![c.first] = cipher,
                                 ![next] = IF c.len = 1 THEN @
                                           ELSE XorBlocks(stored[c.in + c.idx + 1], cipher)],
         mem |-> stored]

(* One round of CBC_ENC_SUBLOOP: read the next block unless this is the    *)
(* last, cipher this one, chain it into the next, store it.                *)
EncBlock(c, mem) ==
    LET next   == (c.first + 1) % UNROLLED_LOOPS
        cipher == CipherOf("E", c.regs[c.first])
    IN  [regs |-> [c.regs EXCEPT ![c.first] = cipher,
                                 ![next] = IF c.len = 1 THEN @
                                           ELSE XorBlocks(mem[c.in + c.idx + 1], cipher)],
         mem |-> PutBlocks(mem, c.out + c.idx, <<cipher>>)]

(* The loop of UNROLLED_LOOPS rounds ends when LEN is 0, in the middle or  *)
(* at its end; the last round reads the next block into the first register.*)
CbcEncrypt ==
    /\ cbc.pc = "enc"
    /\ \E r \in {EncBlock(cbc, cbcMem)} :
            /\ cbcMem' = r.mem
            /\ cbc' = [cbc EXCEPT !.regs = r.regs,
                                  !.first = (@ + 1) % UNROLLED_LOOPS,
                                  !.idx = @ + 1,
                                  !.len = @ - 1,
                                  !.pc = IF cbc.len = 1 THEN "ret" ELSE "enc"]
    /\ UNCHANGED cbcWas

-----------------------------------------------------------------------------
(* DO_AES_DEC without its stores: the plain text of a group, the first     *)
(* under the kept vector, each other under the cipher text before it.      *)
Plain(group, iv) ==
    [i \in 1 .. Len(group) |->
        XorBlocks(CipherOf("D", group[i]), IF i = 1 THEN iv ELSE group[i - 1])]

(* DO_AES_DEC by k blocks.  A group of eight has its first block in        *)
(* xdata0; "start" and "main" keep the last cipher text as the next vector *)
(* and the first block of the next group, read before the last block of    *)
(* this one is stored.                                                     *)
DecGroup(k, next) ==
    \E at \in {cbc.idx} :
    \E group \in {[GetBlocks(cbcMem, cbc.in + at, k) EXCEPT
                        ![1] = IF cbc.pc = "by8" THEN cbc.xdata0 ELSE @]} :
    \E plain \in {Plain(group, cbc.iv)} :
    \E allButLast \in {PutBlocks(cbcMem, cbc.out + at, SubSeq(plain, 1, k - 1))} :
        /\ cbcMem' = PutBlocks(allButLast, (cbc.out + at) + (k - 1), <<plain[k]>>)
        /\ cbc' = [cbc EXCEPT !.pc = next, !.idx = @ + k, !.len = @ - k,
                              !.iv = IF next = "ret" THEN @ ELSE group[k],
                              !.xdata0 = IF next = "ret" THEN @
                                         ELSE allButLast[cbc.in + at + k]]
        /\ UNCHANGED cbcWas

(* AES_CBC_DEC up to its main loop: a message of less than eight blocks,   *)
(* or the blocks over a multiple of eight.                                 *)
CbcDecryptStart ==
    /\ cbc.pc = "dec"
    /\ \/ cbc.n < CBC_GROUP /\ DecGroup(cbc.n, "ret")
       \/ cbc.n >= CBC_GROUP /\ cbc.n % CBC_GROUP # 0 /\ DecGroup(cbc.n % CBC_GROUP, "by8")
       \/ /\ cbc.n >= CBC_GROUP /\ cbc.n % CBC_GROUP = 0
          /\ cbc' = [cbc EXCEPT !.pc = "by8", !.xdata0 = cbcMem[cbc.in]]
          /\ UNCHANGED <<cbcMem, cbcWas>>

(* main_loop and the_last_8_blocks                                         *)
CbcDecryptByEight ==
    /\ cbc.pc = "by8"
    /\ DecGroup(CBC_GROUP, IF cbc.len < 2 * CBC_GROUP THEN "ret" ELSE "by8")

CbcNext ==
    \/ \E dir \in {"enc", "dec"}, n \in 1 .. CbcMaxLen, s \in CbcShifts : CbcCall(dir, n, s)
    \/ CbcEncrypt
    \/ CbcDecryptStart
    \/ CbcDecryptByEight

-----------------------------------------------------------------------------
CbcTypeOK ==
    /\ cbc.pc \in {"enc", "dec", "by8", "ret"}
    /\ cbc.first \in 0 .. UNROLLED_LOOPS - 1
    /\ cbc.idx + cbc.len = cbc.n
    /\ DOMAIN cbcMem = 1 .. CbcMemory

(* SP 800-38A: every block is chained to the cipher text before it.        *)
Chained(dir, data) ==
    LET enc[i \in 0 .. Len(data)] ==
            IF i = 0 THEN IV ELSE CipherOf("E", XorBlocks(data[i], enc[i - 1]))
    IN  [i \in 1 .. Len(data) |->
            IF dir = "enc" THEN enc[i]
            ELSE XorBlocks(CipherOf("D", data[i]), IF i = 1 THEN IV ELSE data[i - 1])]

(* At every step the blocks already written are the chained result of the  *)
(* caller's input and everything else is as the caller left it, to         *)
(* separate buffers, in place, or one block below or above the input.      *)
CbcOutputIsStandard ==
    cbcMem = PutBlocks(cbcWas, cbc.out,
                       SubSeq(Chained(cbc.dir, GetBlocks(cbcWas, cbc.in, cbc.n)), 1, cbc.idx))
=============================================================================
