----------------------------- MODULE HashCtxMgr -----------------------------
(***************************************************************************)
(* The context layer of a multi-buffer hash: <hash>_ctx_<arch>.c, with the *)
(* checked API of <hash>_mb.c on top and the lane scheduler of MBLanes     *)
(* below.  Line numbers are those of sha1_mb/sha1_ctx_sse.c; the files of  *)
(* the other hashes and instruction sets differ in names and constants.    *)
(*                                                                         *)
(* A call runs to completion on the caller's thread.  Its loops are broken *)
(* up at the calls of the job manager: one step per pass of the loop of    *)
(* ctx_mgr_resubmit or ctx_mgr_flush, each of which determines the next.   *)
(***************************************************************************)
EXTENDS MBLanes, FiniteSets

CONSTANTS
    Ctxs,                   \* the hash contexts of the caller, as jobs: job is at offset 0
    PADLENGTHFIELD_SIZE,    \* cells of the length field: its last cell holds the length
    MaxTotal,               \* bound of the model: bytes of one message
    SUBMITTING, FLUSHING    \* answers of a call that has not returned

ASSUME CtxAssumption ==
    /\ Jobs = Ctxs
    /\ Buffers = Ctxs \X {"user", "partial"}
    /\ PADLENGTHFIELD_SIZE \in 1 .. BLOCK_SIZE - 1
    /\ MaxTotal \in Nat
    /\ \A x \in {NULL, SUBMITTING, FLUSHING} : x \notin Ctxs
    /\ SUBMITTING # FLUSHING /\ NULL \notin {SUBMITTING, FLUSHING}

VARIABLES
    mgr, job, fault,    \* the job manager below, as in MBJobMgr
    ctx,                \* the fields of each context other than its job and partial buffer
    mem,                \* the memory jobs read: user buffers and partial block buffers
    call                \* the API call in progress, or the outcome of the last one

vars == <<mgr, job, fault, ctx, mem, call>>

User(c)    == <<c, "user">>
Partial(c) == <<c, "partial">>
At(b, n)   == [buf |-> b, off |-> n]

CtxSts == SUBSET {"PROCESSING", "LAST", "COMPLETE"}    \* {} is ISAL_HASH_CTX_STS_IDLE
Errors == {"NONE", "INVALID_FLAGS", "ALREADY_PROCESSING", "ALREADY_COMPLETED"}
Ctx    == [ status                      : CtxSts,
            error                       : Errors,
            total_length                : Nat,
            incoming_buffer             : Nat,    \* offset in the user's buffer
            incoming_buffer_length      : Nat,
            partial_block_buffer_length : 0 .. BLOCK_SIZE - 1 ]  \* asserted at 118

Service == INSTANCE HashService WITH
    phase  <- [c \in Ctxs |-> CASE "PROCESSING" \notin ctx[c].status ->
                                       IF ctx[c].status = {} THEN "ready" ELSE "complete"
                                [] ctx[c].status = {"PROCESSING"} -> "busy"
                                [] OTHER -> "finishing"],
    length <- [c \in Ctxs |-> ctx[c].total_length],
    digest <- [c \in Ctxs |-> IF ctx[c].status = {"COMPLETE"} THEN job[c].result_digest
                              ELSE << >>],
    answer <- call.out

Garbage == <<"?">>      \* a cell nobody has written

(* The blocks of a job: all of what one call gives, whose length is a      *)
(* 32-bit count of bytes, or the one or two blocks of the padding.         *)
ASSUME JobAssumption == Fits(2) /\ Fits(MaxTotal \div BLOCK_SIZE)

(* What the cells of the buffers hold.                                     *)
ASSUME CellAssumption ==
    /\ {Garbage, Service!Hex80, Service!Zero} \subseteq Byte
    /\ \A n \in 0 .. MaxTotal : Service!LengthByte(n) \in Byte
    /\ \A c \in Ctxs, i \in 1 .. MaxTotal : Service!DataByte(c, i) \in Byte

(* Every context went through isal_hash_ctx_init.                          *)
Init ==
    /\ mgr = InitManager
    /\ fault = FALSE
    /\ job = [c \in Ctxs |-> [ buffer |-> At(Partial(c), 0), len |-> 0,
                               status |-> "UNKNOWN", result_digest |-> << >> ]]
    /\ ctx = [c \in Ctxs |-> [ status |-> {"COMPLETE"}, error |-> "NONE",
                               total_length |-> 0,
                               incoming_buffer |-> 0, incoming_buffer_length |-> 0,
                               partial_block_buffer_length |-> 0 ]]
    /\ mem = [b \in Buffers |-> IF b[2] = "user" THEN << >>
                                ELSE [i \in 1 .. 2 * BLOCK_SIZE |-> Garbage]]
    /\ call = [pc |-> "idle", in |-> NULL, cur |-> NULL, out |-> NULL, rc |-> "NONE"]

-----------------------------------------------------------------------------
(* memcpy of n bytes.                                                      *)
Copy(memory, dst, to, src, from, n) ==
    [memory EXCEPT ![dst] = [i \in DOMAIN @ |->
        IF i \in to + 1 .. to + n THEN memory[src][from + i - to] ELSE @[i]]]

(* hash_pad ends the first block, or the second when the first has no room. *)
PadEnd(total) ==
    LET i == total % BLOCK_SIZE
    IN  i + ((-(total + PADLENGTHFIELD_SIZE + 1)) % BLOCK_SIZE) + 1 + PADLENGTHFIELD_SIZE

HashPad_FieldUnset(memory, c, total) == \* fault: high half of a long field not zeroed
    LET i == total % BLOCK_SIZE
        e == PadEnd(total)
    IN  [memory EXCEPT ![Partial(c)] = [k \in DOMAIN @ |->
            CASE k = e                                 -> Service!LengthByte(total)
              [] k = i + 1                             -> Service!Hex80
              [] k \in (i + 2 .. i + BLOCK_SIZE) \ {e} -> Service!Zero
              [] OTHER                                 -> @[k]]]

(* hash_pad: clear one block of the buffer from the end of the data, mark  *)
(* the end, and put the length at the end of the first or second block.    *)
HashPad(memory, c, total) ==
    LET i == total % BLOCK_SIZE
        e == PadEnd(total)
        zeros == (i + 2 .. i + BLOCK_SIZE) \cup (e - PADLENGTHFIELD_SIZE + 1 .. e)
    IN  [memory EXCEPT ![Partial(c)] = [k \in DOMAIN @ |->
            CASE k = e              -> Service!LengthByte(total)
              [] k \in zeros \ {e} -> Service!Zero
              [] k = i + 1          -> Service!Hex80
              [] OTHER              -> @[k]]]

-----------------------------------------------------------------------------
(* The call goes back to its caller with context c, or with NULL: the API  *)
(* function maps the error of the context handed back to its return code.  *)
(* A caller that gets a context back reuses its buffer at once.  What the  *)
(* context's job, its pointer and the rest of its partial block still hold *)
(* is dead: it is modelled as absent, so that a later use of it would show.*)
Finish(c, ctxs, memory) ==
    /\ call' = [call EXCEPT !.pc = "idle", !.cur = NULL, !.out = c,
                            !.rc = IF c = NULL \/ call.out = FLUSHING THEN "NONE"
                                   ELSE ctxs[c].error]
    /\ IF c = NULL
       THEN ctx' = ctxs /\ mem' = memory /\ job' = job
       ELSE LET used == IF ctxs[c].status = {} THEN ctxs[c].partial_block_buffer_length ELSE 0
            IN  /\ ctx' = [ctxs EXCEPT ![c].incoming_buffer = 0]
                /\ job' = [job EXCEPT ![c].buffer = At(Partial(c), 0), ![c].len = 0]
                /\ mem' = [memory EXCEPT
                              ![User(c)] = << >>,
                              ![Partial(c)] = [i \in DOMAIN @ |->
                                                IF i <= used THEN @[i] ELSE Garbage]]

(* The job manager handed back context r, or NULL: on to the test of the   *)
(* loop of ctx_mgr_resubmit.                                               *)
Resume(r, started, ctxs, memory) ==
    /\ ctx' = ctxs
    /\ mem' = memory
    /\ call' = [started EXCEPT !.pc = "resubmit", !.cur = r]

(* <hash>_mb_mgr_submit(&mgr->mgr, &ctx->job) with the job's buffer and    *)
(* length just set.                                                        *)
MgrSubmit(c, buffer, n, started, ctxs, memory) ==
    \E r \in {SubmitJob(mgr, memory, [job EXCEPT ![c].buffer = buffer, ![c].len = n], c)} :
        /\ mgr' = r.mgr
        /\ job' = r.job
        /\ fault' = (fault \/ r.fault)
        /\ Resume(r.ret, started, ctxs, memory)

-----------------------------------------------------------------------------
Rejection_Resubmits(c, flags) ==    \* fault: the test at 62 left out
    IF "OTHER" \in flags THEN "INVALID_FLAGS"
    ELSE IF "COMPLETE" \in ctx[c].status /\ "FIRST" \notin flags THEN "ALREADY_COMPLETED"
    ELSE "NONE"

Rejection(c, flags) ==
    IF "OTHER" \in flags THEN "INVALID_FLAGS"
    ELSE IF "PROCESSING" \in ctx[c].status THEN "ALREADY_PROCESSING"
    ELSE IF "COMPLETE" \in ctx[c].status /\ "FIRST" \notin flags THEN "ALREADY_COMPLETED"
    ELSE "NONE"

SubmitReject(c, flags) ==
    /\ call.pc = "idle"
    /\ Rejection(c, flags) # "NONE"
    /\ ctx' = [ctx EXCEPT ![c].error = Rejection(c, flags)]
    /\ call' = [pc |-> "idle", in |-> c, cur |-> NULL, out |-> c,
                rc |-> Rejection(c, flags)]
    /\ UNCHANGED <<mgr, job, fault, mem>>

(* The context as the checks leave it: FIRST starts a message over.        *)
Opened(c, n, flags) ==
    [ status                      |-> IF "LAST" \in flags THEN {"PROCESSING", "LAST"}
                                      ELSE {"PROCESSING"},
      error                       |-> "NONE",
      total_length                |-> IF "FIRST" \in flags THEN n
                                      ELSE ctx[c].total_length + n,
      incoming_buffer             |-> 0,
      incoming_buffer_length      |-> n,
      partial_block_buffer_length |-> IF "FIRST" \in flags THEN 0
                                      ELSE ctx[c].partial_block_buffer_length ]

(* Bytes that go to the partial block: enough to fill it, unless it is     *)
(* empty and whole blocks can be hashed where they are.                    *)
CopyLen(x) ==
    LET room == BLOCK_SIZE - x.partial_block_buffer_length
    IN  IF x.partial_block_buffer_length # 0 \/ x.incoming_buffer_length < BLOCK_SIZE
        THEN IF x.incoming_buffer_length < room THEN x.incoming_buffer_length ELSE room
        ELSE 0

Full_Exceeds(x) ==          \* fault: > for >= at 121
    x.partial_block_buffer_length + CopyLen(x) > BLOCK_SIZE

(* The partial block is a whole block now: it goes to the job manager.     *)
Full(x) == x.partial_block_buffer_length + CopyLen(x) >= BLOCK_SIZE

(* The caller gives context c the next n bytes of its message.             *)
SubmitAccept(c, n, flags) ==
    LET x       == Opened(c, n, flags)
        copied  == CopyLen(x)
        plen    == x.partial_block_buffer_length
        given   == [mem EXCEPT ![User(c)] =
                        [i \in 1 .. n |-> Service!DataByte(c, x.total_length - n + i)]]
        memory  == Copy(given, Partial(c), plen, User(c), 0, copied)
        ctxs    == [ctx EXCEPT ![c] =
                        [x EXCEPT !.incoming_buffer = copied,
                                  !.incoming_buffer_length = n - copied,
                                  !.partial_block_buffer_length =
                                        IF Full(x) THEN 0 ELSE plen + copied]]
        cleared == IF "FIRST" \in flags THEN [job EXCEPT ![c].result_digest = << >>] ELSE job
        started == [pc |-> "resubmit", in |-> c, cur |-> c, out |-> SUBMITTING, rc |-> "NONE"]
        r       == SubmitJob(mgr, memory,
                             [cleared EXCEPT ![c].buffer = At(Partial(c), 0), ![c].len = 1], c)
    IN  /\ call.pc = "idle"
        /\ Rejection(c, flags) = "NONE"
        /\ x.total_length <= MaxTotal
        /\ IF Full(x)
           THEN /\ mgr' = r.mgr
                /\ job' = r.job
                /\ fault' = (fault \/ r.fault)
                /\ Resume(r.ret, started, ctxs, memory)
           ELSE /\ job' = cleared
                /\ UNCHANGED <<mgr, fault>>
                /\ Resume(c, started, ctxs, memory)

-----------------------------------------------------------------------------
(* One pass of the loop of ctx_mgr_resubmit, for context c = call.cur.     *)
Resubmitting(c) == call.pc = "resubmit" /\ call.cur = c

ResubmitNull_GivesUp ==     \* fault: ctx_mgr_flush without its loop
    /\ Resubmitting(NULL)
    /\ Finish(NULL, ctx, mem)
    /\ UNCHANGED <<mgr, fault>>

(* No context came out: that ends a submit, and a flush tries again.       *)
ResubmitNull ==
    /\ Resubmitting(NULL)
    /\ IF call.out = FLUSHING
       THEN call' = [call EXCEPT !.pc = "flush"] /\ UNCHANGED <<job, ctx, mem>>
       ELSE Finish(NULL, ctx, mem)
    /\ UNCHANGED <<mgr, fault>>

ResubmitComplete(c) ==
    /\ Resubmitting(c)
    /\ "COMPLETE" \in ctx[c].status
    /\ Finish(c, [ctx EXCEPT ![c].status = {"COMPLETE"}], mem)
    /\ UNCHANGED <<mgr, fault>>

(* With an empty partial block, what is left of the user's data is taken:  *)
(* its odd bytes are kept in the partial block, its blocks are hashed.     *)
Takes(c)     == ctx[c].partial_block_buffer_length = 0 /\ ctx[c].incoming_buffer_length # 0
Remainder(c) == ctx[c].incoming_buffer_length % BLOCK_SIZE
Whole(c)     == IF Takes(c) THEN ctx[c].incoming_buffer_length \div BLOCK_SIZE ELSE 0

Taken(c) ==
    IF Takes(c)
    THEN [ctx EXCEPT ![c].partial_block_buffer_length = Remainder(c),
                     ![c].incoming_buffer_length = 0]
    ELSE ctx

MemTaken(c) ==
    IF Takes(c)
    THEN Copy(mem, Partial(c), 0, User(c),
              ctx[c].incoming_buffer + Whole(c) * BLOCK_SIZE, Remainder(c))
    ELSE mem

ResubmitBlocks(c) ==
    /\ Resubmitting(c)
    /\ "COMPLETE" \notin ctx[c].status
    /\ Whole(c) # 0
    /\ MgrSubmit(c, At(User(c), ctx[c].incoming_buffer), Whole(c), call, Taken(c), MemTaken(c))

ResubmitPad(c) ==
    /\ Resubmitting(c)
    /\ "COMPLETE" \notin ctx[c].status
    /\ Whole(c) = 0
    /\ "LAST" \in ctx[c].status
    /\ MgrSubmit(c, At(Partial(c), 0), PadEnd(ctx[c].total_length) \div BLOCK_SIZE, call,
                 [Taken(c) EXCEPT ![c].status = {"PROCESSING", "COMPLETE"}],
                 HashPad(MemTaken(c), c, ctx[c].total_length))

ResubmitIdle(c) ==
    /\ Resubmitting(c)
    /\ ctx[c].status \cap {"COMPLETE", "LAST"} = {}
    /\ Whole(c) = 0
    /\ Finish(c, [Taken(c) EXCEPT ![c].status = {}], MemTaken(c))
    /\ UNCHANGED <<mgr, fault>>

-----------------------------------------------------------------------------
FlushCall ==
    /\ call.pc = "idle"
    /\ call' = [pc |-> "flush", in |-> NULL, cur |-> NULL, out |-> FLUSHING, rc |-> "NONE"]
    /\ UNCHANGED <<mgr, job, fault, ctx, mem>>

FlushPass_NeverNull ==      \* fault: the test at 143 left out
    /\ call.pc = "flush"
    /\ \E r \in {FlushJob(mgr, mem, job)} :
        /\ mgr' = r.mgr
        /\ fault' = (fault \/ r.fault)
        /\ job' = r.job /\ Resume(r.ret, call, ctx, mem)

(* One pass of the loop of ctx_mgr_flush.                                  *)
FlushPass ==
    /\ call.pc = "flush"
    /\ \E r \in {FlushJob(mgr, mem, job)} :       \* evaluated once
        /\ mgr' = r.mgr
        /\ fault' = (fault \/ r.fault)
        /\ IF r.ret = NULL THEN Finish(NULL, ctx, mem)
           ELSE job' = r.job /\ Resume(r.ret, call, ctx, mem)

Flags == (SUBSET {"FIRST", "LAST"}) \cup {{"OTHER"}}

Submits ==
    \E c \in Ctxs, flags \in Flags :
        SubmitReject(c, flags) \/ \E n \in 0 .. MaxTotal : SubmitAccept(c, n, flags)

Inside ==
    \/ FlushPass
    \/ ResubmitNull
    \/ \E c \in Ctxs : \/ ResubmitComplete(c)
                       \/ ResubmitBlocks(c)
                       \/ ResubmitPad(c)
                       \/ ResubmitIdle(c)

Next == Submits \/ FlushCall \/ Inside

Spec == Init /\ [][Next]_vars

(* A call that has started keeps executing.  This is WF_vars(Inside)       *)
(* without ENABLED: inside a call there is always a step, and no other     *)
(* than those of Inside, so what never rests has to go on stepping.        *)
FairSpec == Spec /\ ([]<>(call.pc = "idle") \/ []<><<TRUE>>_vars)

-----------------------------------------------------------------------------
TypeOK ==
    /\ mgr \in Manager
    /\ job \in [Ctxs -> Job]
    /\ fault \in BOOLEAN
    /\ ctx \in [Ctxs -> Ctx]
    /\ \A c \in Ctxs : /\ mem[User(c)] \in Seq(Byte)
                       /\ DOMAIN mem[Partial(c)] = 1 .. 2 * BLOCK_SIZE
    /\ call \in [ pc  : {"idle", "resubmit", "flush"},
                  in  : Ctxs \cup {NULL},
                  cur : Ctxs \cup {NULL},
                  out : Ctxs \cup {NULL, SUBMITTING, FLUSHING},
                  rc  : Errors ]

(* The scheduler never loses its bookkeeping and the kernels never read    *)
(* past a buffer or through a pointer to a buffer handed back to the       *)
(* caller, whatever the order of the contexts' submits and flushes.        *)
NoFault == ~fault

LanesOf(c) == {l \in Lanes : mgr.job_in_lane[l] = c}

(* A context is marked as processing exactly when it sits in one lane or   *)
(* is the one the running call has in hand, never both: no context is      *)
(* handed back while a lane still works for it, none is forgotten.         *)
OneOwner ==
    \A c \in Ctxs :
        Cardinality(LanesOf(c)) + (IF Resubmitting(c) THEN 1 ELSE 0)
            = IF "PROCESSING" \in ctx[c].status THEN 1 ELSE 0

(* Bytes a context has absorbed, or will by the end of its job in a lane.  *)
Absorbed(c) ==
    IF LanesOf(c) = {} THEN job[c].result_digest
    ELSE LET l == CHOOSE l \in LanesOf(c) : TRUE
         IN  mgr.digest[l] \o BlocksAt(mem, mgr.data_ptr[l], mgr.lens[l].blocks)

Kept(c) ==
    SubSeq(mem[Partial(c)], 1, ctx[c].partial_block_buffer_length)
        \o SubSeq(mem[User(c)], ctx[c].incoming_buffer + 1,
                  ctx[c].incoming_buffer + ctx[c].incoming_buffer_length)

(* At every point, what a context absorbed, what its job has yet to read,  *)
(* the bytes kept in the partial block and the rest of the user's buffer   *)
(* are, in this order, the message so far: no byte is dropped, doubled,    *)
(* swapped or overwritten before a lane reads it.  Once padded, a context  *)
(* absorbs the padded message of the standard.                             *)
NoByteLost ==
    \A c \in Ctxs :
        job[c].status # "UNKNOWN" \/ ctx[c].total_length # 0 =>
            IF "COMPLETE" \in ctx[c].status
            THEN Absorbed(c) = Service!Padded(c, ctx[c].total_length)
            ELSE Absorbed(c) \o Kept(c) = Service!Message(c, ctx[c].total_length)

(* The layer implements HashService: see that module.                      *)
ServiceSpec == Service!Spec

(* Every call returns: the loops of resubmit and flush end, although each  *)
(* pass may put the context back into the manager.                         *)
CallReturns == (call.pc # "idle") ~> (call.pc = "idle")

(* sha1_mb.h:101: an error is reported by returning the context that was   *)
(* submitted; in case of an error no processing is done for other hashes.  *)
ErrorNamesSubmitted ==
    call.pc = "idle" /\ call.rc # "NONE" => call.out = call.in
=============================================================================
