----------------------------- MODULE HashService -----------------------------
(***************************************************************************)
(* What the context layer of a multi-buffer hash promises its caller       *)
(* (include/isa-l_crypto/sha1_mb.h, "Usage"), without buffers, jobs, lanes *)
(* or padding blocks.  A context that is not in flight may be given more   *)
(* of its message; it comes back, from this call or a later one, when that *)
(* part is absorbed, and after the last part it carries the hash of the    *)
(* whole message.  Contexts come back in any order.                        *)
(***************************************************************************)
EXTENDS Integers, Sequences, FiniteSets

CONSTANTS
    Ctxs,           \* hash contexts
    FILL,           \* contexts in flight at which submit must hand one back
    BLOCK_SIZE,
    PADLENGTHFIELD_SIZE,
    MaxTotal,       \* bound of the model: bytes of a message
    NULL,
    SUBMITTING, FLUSHING    \* answers of a call that has not returned

VARIABLES
    phase,          \* "ready", "busy", "finishing" or "complete"
    length,         \* bytes of the message so far
    digest,         \* bytes whose hash the context holds, once complete
    answer          \* what the last call handed back

serviceVars == <<phase, length, digest, answer>>

(* Byte i of the message of a context, and the bytes hash padding adds.    *)
DataByte(c, i) == <<c, i, "data">>
Hex80          == <<"80">>
Zero           == <<"00">>
LengthByte(n)  == <<"len", n>>

Message(c, n) == [i \in 1 .. n |-> DataByte(c, i)]

(* FIPS 180-4, 5.1: the message, one bit, zeros up to a block boundary and *)
(* the length in the last bytes of the last block.                         *)
Padded(c, n) ==
    LET room == n + 1 + PADLENGTHFIELD_SIZE
        fill == (BLOCK_SIZE - (room % BLOCK_SIZE)) % BLOCK_SIZE
    IN  Message(c, n) \o <<Hex80>> \o [i \in 1 .. fill + PADLENGTHFIELD_SIZE - 1 |-> Zero]
        \o <<LengthByte(n)>>

Waiting  == answer \in {SUBMITTING, FLUSHING}
InFlight == {c \in Ctxs : phase[c] \in {"busy", "finishing"}}

Init ==
    /\ phase = [c \in Ctxs |-> "complete"]      \* isal_hash_ctx_init
    /\ length = [c \in Ctxs |-> 0]
    /\ digest = [c \in Ctxs |-> << >>]
    /\ answer = NULL

Accept(c, n, flags) ==
    /\ ~Waiting
    /\ phase[c] \in {"ready", "complete"}
    /\ phase[c] = "complete" => "FIRST" \in flags
    /\ length' = [length EXCEPT ![c] = IF "FIRST" \in flags THEN n ELSE @ + n]
    /\ phase' = [phase EXCEPT ![c] = IF "LAST" \in flags THEN "finishing" ELSE "busy"]
    /\ digest' = [digest EXCEPT ![c] = << >>]
    /\ answer' = SUBMITTING

(* Misuse is answered with the context itself and changes nothing else;    *)
(* flags that do not exist are a misuse in every phase.                    *)
Reject(c) ==
    /\ ~Waiting
    /\ answer' = c
    /\ UNCHANGED <<phase, length, digest>>

AskFlush ==
    /\ ~Waiting
    /\ answer' = FLUSHING
    /\ UNCHANGED <<phase, length, digest>>

HandBack(c) ==
    /\ Waiting
    /\ answer' = c
    /\ \/ /\ phase[c] = "busy"
          /\ phase' = [phase EXCEPT ![c] = "ready"]
          /\ UNCHANGED digest
       \/ /\ phase[c] = "finishing"
          /\ phase' = [phase EXCEPT ![c] = "complete"]
          /\ digest' = [digest EXCEPT ![c] = Padded(c, length[c])]
    /\ UNCHANGED length

(* Nothing to hand back: a submit that leaves room, or a flush that finds  *)
(* nothing in flight.                                                      *)
HandBackNothing ==
    /\ \/ answer = SUBMITTING /\ Cardinality(InFlight) < FILL
       \/ answer = FLUSHING /\ InFlight = {}
    /\ answer' = NULL
    /\ UNCHANGED <<phase, length, digest>>

Next ==
    \/ \E c \in Ctxs : \E n \in 0 .. MaxTotal : \E flags \in SUBSET {"FIRST", "LAST"} :
            Accept(c, n, flags)
    \/ \E c \in Ctxs : Reject(c) \/ HandBack(c)
    \/ AskFlush
    \/ HandBackNothing

Spec == Init /\ [][Next]_serviceVars
=============================================================================
