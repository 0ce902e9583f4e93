# A verification development for isa-l_crypto

isa-l_crypto computes many cryptographic hashes at once ("multi-buffer": one
SIMD lane per message), hashes a stream in parallel segments ("multi-hash"),
finds content-defined chunk boundaries (rolling hash), and offers AES modes
behind an API that, in FIPS mode, runs known-answer tests first.  The
arithmetic of the ciphers and hashes is straight-line code that its test
vectors cover.  What the vectors hardly cover is the bookkeeping around it: which
message is in which lane, how many blocks of each are left, which buffer a lane
may still read, whose error a call reports, which thread runs the self tests.
The same is true of the streams given in pieces, of buffers that overlap, of the
first calls that race to choose an implementation, and of what the checked API
refuses.  This development models that bookkeeping in TLA+, model-checks it with TLC
on small instances, and proves its safety properties with TLAPS for all instances.

## Inventory of the system

| component | state it keeps | operations | interaction | what is hard, what makes it correct |
|---|---|---|---|---|
| job manager, x86 (`<hash>_mb/*_mb_mgr_{init,submit,flush}_*.{c,asm}`) | stack of unused lanes in one word, `num_lanes_inuse`, one packed word `blocks << 4 \| lane` per lane, digest / data pointer / job pointer per lane | init, submit, flush | called by the context layer; calls the SIMD kernels; owns a job between submit and the call that returns it | lanes of different lengths advance together; empty lanes are made to follow a live one; a job comes back from a call about another job. *Every lane is free or has one job; nothing is read through a dead pointer; every job gets the digest of its own bytes; flush answers NULL only when nothing is left* |
| context layer (`<hash>_mb/*_ctx_*.c`) and its return codes (`<hash>_mb.c`) | per context: status bits, error, total length, rest of the user's buffer, partial block (two blocks) | submit (FIRST, UPDATE, LAST, ENTIRE), flush, internal resubmit and `hash_pad` | submits jobs to the manager, gets any job back, continues it or hands it to the caller | a submit goes on with another context than it was given; the partial block is at once a job's data and a place to store input; padding fits one block or needs two. *No byte lost, doubled or overwritten before it is read; one owner per context; every call returns; errors belong to the context submitted* |
| base contexts (`*_ctx_base.c`) | as above, without a manager | submit, flush | portable fallback of the above | error and status rules differ from the SIMD context layer |
| aarch64 job managers (`<hash>_mb/aarch64/*_mb_mgr_*.c`) | as the x86 managers, in C; finished jobs stay in lanes until a later call | init, submit, flush | same interface | several jobs finish together and are handed back one per call |
| self tests, x86 (`fips/self_tests.c`, `fips/asm_self_tests.asm`) | one shared word | `isal_self_tests` from any thread | called by every checked API function | races between the test, the exchange, the tests and the store. *One runner; no answer before a verdict; nobody waits for ever* |
| self tests, other machines (`fips/self_tests_generic.c`) | one C11 atomic | the same | the same | the same; and it leaves early when a suite fails |
| known-answer suites (`fips/*_self_tests.c`) | none | run | called by the above | only the return value matters here |
| multi-hash: mh_sha1, mh_sha256, mh_sha1_murmur3 | interim digests, partial block buffer, total length | init, update, finalize | stand-alone | pieces around the 1024-byte block; the tail needs a second block or not; the murmur tail is read from a buffer the padding has used; length conversion. *However the message is cut, every segment hashes its own words in order* |
| rolling hash (`rolling_hash/`) | window history, hash, tables | init, reset, run | its example feeds fragments to multi-buffer SHA256 | window across two buffers; the x86 loops take bytes in pairs. *A run stops at the first byte whose window triggers, as if the stream were one buffer, and not behind the buffer* |
| AES-GCM | running GHASH, counter, partial block | init, update, finalize | stand-alone | partial block between updates of any length; the block counter's low byte, added to without a carry while it cannot overflow; a partial block hashed once, and only when complete. *Every byte meets its own byte of key stream, the tag is GHASH of everything* |
| AES-XTS | none | one sector | stand-alone | a last block held back in a register, ciphertext stealing that for decryption swaps the last tweaks, loads and stores that overlap; input and output may share memory. *The sector of IEEE 1619, and no byte beside it* |
| AES-CBC, key expansion | none | one buffer | stand-alone | one block of look-ahead, taken before the store that may destroy it. *The chain of SP 800-38A in shared memory* |
| checked API (`isal_*` in `aes/*.c`, `<hash>_mb.c`, `mh_*/`, `rolling_hash/`) | none of its own | every function of the library | calls the self tests in FIPS mode, then the unchecked function | one of some seventy functions without the block the others have. *In FIPS mode only approved algorithms work, and only after tests that passed* |
| multibinary dispatch | one function pointer per entry | first call stores it | every entry | first calls of several threads race, on cores that may differ; each decision is a ladder of tests of its own. *Never an instruction the processor lacks* |
| tests, fuzzers, examples, build, vendored macros | – | – | – | not part of the library |

The hazards found in the survey, each with the line where it bites and the
properties that watch it, are in `PROJECT.json` ("hazards").  Two carry a note instead
of a property: what `mh_*_finalize` does beyond 4 GiB, and the error a base context keeps.

## Plan

Order of work: the component most of the library's state lives in comes first.

1. **`MBLanes`, `MBJobMgr`, `JobPool`** – lane scheduler, its abstract pool. *Done, checked and proved.*
2. **`HashCtxMgr`, `HashService`** – context layer over the same scheduler. *Done, checked and proved.*
3. **`SelfTestGate`, `SelfTestsAsm`, `SelfTestsGeneric`** – self tests. *Done, checked and proved to implement the gate, the x86 one where the SHA suite passes.*
4. **`MBLanesProofs`, `MBJobMgrProofs`, `HashCtxMgrProofs`** – what a call of the scheduler does, for any
   memory; on it the invariants of job manager and context layer, and that they implement `JobPool` and
   `HashService`. *Done.*
5. **`HashPadding`, `BaseCtx`** – base contexts, with the rule by which they keep an error. *Done, checked and proved.*
6. **`MBJobMgrC`** – aarch64 managers, refining the same `JobPool`. *Done, checked and proved.*
7. **`MultiHash`** – streaming against "the message in blocks plus its tail". *Done, checked and proved.*
8. **`RollingHash`, `GcmStream`, `XtsSector`, `CbcChain`** – the streams and modes. *Done, checked and proved.*
9. **`Dispatch`, `CheckedApi`** – first calls, and the checked API over the gate. *Done, checked and proved.*
10. Left: the riscv64 dispatchers; the chunking example.

## Modules

### Lane scheduler: `MBLanes`, `MBJobMgr`, `JobPool`

The x86 managers of SHA1, SHA256, SHA512, MD5 and SM3 are one algorithm with
different constants, and `MBLanes` states it once, as functions from (manager,
jobs, memory) to the same, so that the manager alone and the context layer
above it run the very same code:

| TLA+ | code (`sha1_mb/`) |
|---|---|
| `Manager`, `Job`, `PackedLen` | `ISAL_SHA1_MB_JOB_MGR`, `ISAL_SHA1_JOB`, `lens[]` |
| `InitManager` | `sha1_mb_mgr_init_sse.c` |
| `Admit` | submit, 122–150: pop a lane, set length word, job, digest, pointer |
| `Shortest`, `Below` | the minimum search on packed words |
| `CopyToEmptyLanes`, `Donor` | flush, 123–144: empty lanes follow the last busy one, with word `0xFFFFFFFF` |
| `Compress` | subtract and kernel call (`sha1_mb_x4_sse`, `sha1_opt_x1`) |
| `Retire`, `Process` | `len_is_0` and the code up to it |
| `SubmitJob`, `FlushJob` | the two entry points |

Constants tell the variants apart: `NLANES` (4 SSE/AVX, 8 AVX2, 16 AVX512, 2–8
SHA512, 32 MD5 AVX512), `FILL` (lanes in use at which submit compresses; below
`NLANES` for SHA-NI on SSE, which compares the stack with `0xF32`; 1 for the
synchronous managers), `SB_THRESHOLD` (`*_SB_THRESHOLD`: up to so many lanes, flush
compresses one alone), `EMPTY_LEN` and `EMPTY_TAG` (the two fields of
`0xFFFFFFFF`).  The digest of a lane is represented by the sequence of bytes it has
absorbed: equal digests mean the same bytes in the same order.  A lane, job or
address that does not exist raises `fault`.  Pointers a lane keeps after its
job has left are set to `STALE`, because the caller may have freed the buffer: a
kernel that reads through one faults.

`MBJobMgr` adds a caller that prepares jobs of 1..`MaxBlocks` blocks, each with a
buffer of distinct cells, submits and flushes in any order.  A manager is not
shared between threads (the documentation leaves locking to the caller), so a
call is one step.  `JobPool` is what this promises: a pool of jobs, no lanes.

### Context layer: `HashCtxMgr`, `HashService`

State: the manager and jobs below; per context the status bits, error, total
length, offset and rest of the user's data, partial-block length; `mem`, the
user's buffer and the two-block partial buffer of each context; and `call`, where
the running call is.  A call's loops are cut at the calls of the job manager:
`SubmitReject` and `SubmitAccept` (submit up to its resubmit), `ResubmitNull`,
`ResubmitComplete`, `ResubmitBlocks`, `ResubmitPad`, `ResubmitIdle` (one pass of
the loop of `sha1_ctx_mgr_resubmit`), `FlushCall` and `FlushPass`.  Exactly one of
them is enabled inside a call; cutting adds no interleaving and lets the
invariants see the states between manager calls.  When a context goes back to the caller
its user buffer, its job's pointer and the unused part of its partial block become
unreadable, so that a later use of any of them shows.  User pieces have any length
from 0 to the bound, with any flags, legal or not.

`HashService` is the promise of `sha1_mb.h`: give a piece of a message, get a
context back when its piece is absorbed, in any order; after the last piece the
digest is that of the message padded as in FIPS 180-4.  It knows no buffers.

### Self tests: `SelfTestGate`, `SelfTestsAsm`, `SelfTestsGeneric`

One step per access to the shared word, one per suite; the suites' results are
chosen once in `Init`.  `SelfTestGate` is the promise: one runner, a final verdict,
every answer is the verdict.

`CheckedApi` composes with that promise, not with either implementation.  The portable one
refines it; the x86 one refines it where the SHA suite passes, and otherwise still gives honest
answers (finding 2).

### The aarch64 managers: `MBJobMgrC`

These managers are written in C and are another algorithm.  A run of the kernels may
finish several jobs; `free_lane` hands back one per call and the rest wait in their
lanes with length 0.  So submit and flush look for a finished job
before they run anything and again afterwards (`Submit`, `Flush`, `do_jobs`).  Three
fields of `Variants` tell the managers apart: `group`, the lanes of one stack of
free lanes (MD5 on SVE splits its 32 lanes over four stacks; `insert_job` looks for a
free lane group by group); `fill`, the lanes in use at which submit runs (fewer than
`NLANES` where the machine's SVE vector is short); `whole`, whether a run with lanes
unused serves all jobs or only the first, to its end (SM3 and MD5 on ASIMD).
`LEN_MOD` is the number of values of the blocks field in a 32-bit length word:
`do_jobs` and `insert_job` cut lengths to it as the shift does.  Asserts of the code
become `fault`.

### Base contexts: `HashPadding`, `BaseCtx`

`HashPadding` has the cells of a message and the padding of FIPS 180-4 as a reference.
`BaseCtx` is the submit of `sha1_ctx_base.c` and its four siblings: `base_misuse` has the reasons
for which flags are refused, `base_submit` their effect (an error stays with the context until the
next FIRST), `base_update` the partial block, `base_final` the mark, zeros and length.  `baseLength` is a ghost: what the caller has
given since the last FIRST, so that the reference can be computed.

### Multi-hash: `MultiHash`

`mh_init`, `Update` and `mh_tail` of the three streams.  A block deals its words out to
`SEGS` segments in turn; a segment's digest is the sequence of the cells it absorbed.
`Update` fills the partial block, takes whole blocks from the caller's buffer and keeps
the rest (`KeepRest`); `SecondBlock` decides whether the tail needs another block; the segments'
digests are hashed once more.  `mh_sha1_murmur3` feeds the same blocks to murmur and,
in finalize, reads murmur's tail from the partial block buffer *before* the padding
overwrites it: the order of the two calls is in the model.

### GCM: `GcmStream`

`GCM_INIT`, `GCM_ENC_DEC` and `GCM_COMPLETE` of `gcm_sse.asm`, one action each (`GcmStart`,
`GcmUpdate`, `GcmFinalize`); inside, `PARTIAL_BLOCK` completes a block carried over from the call before, groups of `GROUP`
blocks follow, then the rest.  A byte is the set of atoms it is the exclusive or of, and
GHASH, which is linear, a set of terms (atom, position, power of the key): two
results are equal exactly if they are equal for every key and message.  The groups
add to the counter's low byte alone while it cannot overflow and to the whole
otherwise (`GroupCounters`); the counter's low byte has `LOW` values here.  The
context's one `partial_block_enc_key` and the flag that GHASH has
not yet been multiplied are state.

### XTS and CBC: `XtsSector`, `CbcChain`

One call is several actions, and memory is one array that both buffers live in, so that
every load sees the stores before it.  `XtsSector`: `XtsInitial` (the blocks that leave a
multiple of the group), `XtsMainLoop`, `XtsLast` (the last block stays in
a register; for decryption with a short block its tweak is the one after:
`LastTweaks`), `XtsSteal` (a load and two stores that overlap).  `XtsCallBack` calls the
opposite direction in place on what the first call wrote.  `CbcChain`: the encryption loop with its rotating registers and one block
read ahead, decryption by `CBC_GROUP` blocks where the first block of the next
group is read before the last store of this one.  A cell of memory is a byte in XTS
and a block in CBC; the cipher makes one new symbol per block.

### Rolling hash: `RollingHash`

`isal_rolling_hash2_init`, `_reset` and `_run`.  The hash is the set of
table entries it is the exclusive or of, each with its rotation.  Which windows
trigger is any of the sets in `RhTriggers`, for the code is right for every table and mask.
`rhLoop` is the loop over a buffer's own bytes, as dispatched: the C loop, which takes the length as an
int (`Signed`, `Reach`), or those of x86, which take bytes in pairs and go one byte too
far when the hit is an odd last one (`PastEnd`, finding 5).  The history a run past
its buffer keeps is not the window its hash is of.  The model runs on (`Astray`), but nothing is
said of the stream from then to the next reset.

### Dispatch: `Dispatch`

One pointer per function, which holds `mbinit` until a first call has chosen and stored;
`FirstCall`, `Choose`, `Store`, `Jump` are the steps between which other threads run, `CallKnown` a
call that finds the pointer set, `Return` the end of the implementation's code.
`Dispatcher` is the decision of `multibinary.asm` and of the aarch64 dispatchers on the
machine's features, and on aarch64 on the part number of the core that asks (`machine.parts`).  What
an implementation needs is stated apart from that, from the instructions it consists of: `X86Executes`,
`Aarch64Executes`.  They are not the tests of the dispatchers: `init` is portable C in every
implementation, the SHA512 manager of aarch64 executes SHA512 instructions where the dispatcher asks for
SHA3, and the AVX512 managers use two of the five sets in `FLAGS_CPUID7_EBX_AVX512_G1`.

`RunsHere` relates the two.  One exception is stated in it (`Unconfirmed`): `multibinary.asm:438-449` tests
AVX512_G1, stores the answer over by that of the test for SHA extensions, "AVX512 being
supported too" in the words of the comment, and so chooses the AVX512 manager with SHA extensions wherever there
is zmm state.  The only thing assumed of machines is what the architecture manuals
promise (`ArchitectureAssumption`).

### Checked API: `CheckedApi`

Each `isal_*` function is a record: whether its algorithm is approved, whether it calls
the self tests, what object it takes and gives (keys, a GCM context, a stream).  A
call refuses (`ApiRefuse`) or enters (`ApiEnter`), runs the tests (`ApiSelfTests`, the
gate's steps of an `INSTANCE SelfTestGate`), reads their answer (`ApiTested`) and works
(`ApiWork`).  An object may also come from a deprecated function (`ApiDeprecated`), which
tests nothing.

### Composition: `Library`

The modules of the sections from "Base contexts" on, `CheckedApi` aside, share no state
in the code either: each works on an object of its caller.  `Library` puts them side by
side, and a behaviour is one of them (`part`): interleaving machines that share nothing
would multiply their states and show nothing.  Where components do share state they are
composed in earnest: contexts over the lanes (`HashCtxMgr` on `MBLanes`), the API
over the self tests.

## Runs

| run | instance | shows |
|---|---|---|
| `MBJobMgr_lanes` | 4 jobs of 1 or 2 blocks of 2 bytes, 5 lanes of which submit fills 4, `SB_THRESHOLD` 2, longest job equal to the word of an empty lane | type, no fault, lanes accounted for, jobs in lanes, progress of each lane, digests, refinement of `JobPool`; a job finishes while the caller keeps calling |
| `MBJobMgrC_lanes` | 3 jobs, 3 lanes; one stack or two, a short vector, whole runs or single jobs | the same properties of the aarch64 managers, refinement of the same pool, every job finishes where runs are whole |
| `MBJobMgrC_md5` | 3 jobs, 4 lanes in two stacks, a length field of 4 values | **violated**: see Findings |
| `HashCtxMgr_pair` | 2 contexts, 2 lanes, blocks of 3, length field of 2 cells, messages of up to 5 bytes in any pieces | no fault, one owner, no byte lost, refinement of `HashService`; every call returns, though each pass of flush may put a context back into a lane |
| `HashCtxMgr_errors` | 2 contexts, up to 2 bytes | **violated**: see Findings |
| `SelfTestsAsm_gate` | 3 threads, all outcomes of the suites | honest answers, every call returns; the gate where the SHA suite passes |
| `SelfTestsAsm_doc` | 3 threads, all outcomes | **violated**: see Findings |
| `SelfTestsGeneric_gate` | 3 threads, all outcomes | one runner, honest answers, the gate, every call returns |
| `Library_parts` | every other machine, bounds below | digests, output and tags equal their reference however the message is cut and wherever the buffers lie; rolling hash stops at the first trigger; dispatch and API properties |
| `Library_api` | the checked API alone | **violated**: see Findings |
| `Library_rolling` | the rolling hash alone, with the x86 loop | **violated**: see Findings |
| `Library_xts` | XTS alone, output in place, inside the input and apart | **violated**: see Findings |

**Bounds.** `MaxBlocks` and `MaxTotal` bound job and message lengths; nothing else is
unbounded.  Five lanes, four of them filled, and four jobs let the stack above the fill mark be permuted
arbitrarily while the lane below it must stay (SHA-NI's `0xF32`), and put `num_lanes_inuse` on both
sides of the threshold.  Jobs of one and two blocks give a shorter, an equal and a longer lane at once, lanes half done
when flush changes from all lanes to one, and with `EMPTY_LEN = 2` a tie with an empty lane (MD5 on AVX512, where both are
2^26−1 and the lane field decides).  Longer jobs are in the theorems only.  Two contexts suffice for "another context
comes back": every rule of the context layer concerns one context or the pair
(given, returned).  Blocks of three bytes and five bytes of message give an empty, a
partial and a full piece, and one that goes on into the next block, before and after a partial block; with a
length field of two, padding that just fits, just does not, and padding of one and of two blocks.  A user
piece that is a job of several blocks is in the theorems only.  Three threads give a runner, a waiter that
lost the exchange, and a late-comer.  A quantity that only the width of a machine word bounds
(`total_length` of 64 bits) is not driven to its limit here; the 32-bit length words of
the aarch64 managers, the int of the rolling hash and the 32 bits of GCM's length of
authenticated data are.

The bounds of `Library_parts` keep the ratios that matter and shrink the rest:

| part | instance | reaches |
|---|---|---|
| base contexts | blocks of 4 cells, length fields of 1 and 2, messages of up to 13 in any pieces, any flags | pieces that leave, fill and pass a block; padding in one block and in two |
| multi-hash | 2 segments of 2 words of 2 cells (block of 8), murmur blocks of 4, length of 3 cells, up to 27 cells | a piece that tops up, fills several blocks and leaves a rest; every tail, with a second block or not |
| GCM | blocks of 3 bytes, groups of 2, a low byte of 8 values, 0, 1, 3, 4 or 5 bytes of authenticated data where 5 no longer fit the length field, up to 34 bytes | partial blocks completed by none, one or several calls; two overflows of the low byte, in a group and at its edge |
| XTS | blocks of 3, groups of 2, sectors of 0 to 23 bytes, output at −24, −4, −1, 0, +24 of the input | no group, one, several; every short block; apart, in place, overlapping by all but one byte and by more than a block |
| CBC | registers 3, groups of 3, up to 11 blocks, output at −12, −1, 0, +1, +12 blocks | messages shorter than a group, multiples of it and others; apart, in place, one block below and one above: the look-ahead makes even that right |
| rolling hash | 2 byte values, windows of 1 to 3, buffers of up to 5, 4 bits of rotation, ints below 5, the C and the x86 loop | buffers shorter than, equal to and longer than the window, in sequence; a length that is a negative int; odd last bytes |
| dispatch | 2 threads, all sets of features the architectures allow, cores of one kind or of two | every decision of the dispatchers, every race of two first calls, on any cores |
| API | 2 threads; one calls all functions of an algorithm, the other the self tests and `aes_gcm_dec_256_update` | every function; a runner and a waiter |

A symbolic byte or digest keeps these small instances honest: results agree only if
they were computed from the same bytes in the same order and places.

**Fairness.** Two assumptions: a caller that does not stop calling
(`MBJobMgr`, `MBJobMgrC`: weak fairness of `Next`, of no particular job or call; the caller may
starve submit or flush as it likes) and a thread inside a call is scheduled
again (`HashCtxMgr`: weak fairness of the steps inside a call; self tests: of each
thread's steps inside a call, none of `Call`).  The latter is what an operating
system gives; the x86 spin loop needs no more.  `MBJobMgr` and `HashCtxMgr` write them without
`ENABLED`, which TLC evaluates slowly for actions as large as these: a step other than stuttering is always enabled there,
so weak fairness is that such steps keep coming (inside a call, for `HashCtxMgr`); the comment at each `FairSpec` says why.

`EveryJobFinishes` has one condition more, on the caller.  Up to `SB_THRESHOLD` lanes in use a flush serves
one lane alone, so that with a threshold of 2 or more (AVX512 SHA-NI) a
caller who always keeps two jobs in flight by submitting shorter ones
starves the longer.  `FairSpec` of `MBJobMgr` therefore has `num_lanes_inuse` leave the range `1 .. SB_THRESHOLD` again and
again; with a threshold of one every caller does.  The ASIMD managers of SM3 and MD5 serve one lane alone in the same
way, so in `MBJobMgrC` the property is claimed of the managers with whole runs.  No
document promises otherwise.  `Library` states no fairness: its properties are safety.

**Mutants.** Definitions marked "fault" state a plausible bug of the definition
after them (a forgotten reset, a dropped test, `>` for `>=`); `PROJECT.json` pairs
each property with one that breaks it.

## Proofs

TLAPS checks eight modules of proofs.  They use no fact about the code but the
definitions of the modules and the named assumptions on the constants.

**`MBLanesProofs`: one call of the lane scheduler.**  Lemmas only, about any manager, jobs and
memory, so that the job manager alone and the context layer rest on the same argument.  What
is assumed:

- `LaneAssumption`: `FILL` is between 1 and `NLANES`, NULL is not a job and
  `STALE` not a buffer;
- that a job `Fits` the length word: it has fewer blocks than the word of an empty lane, or as
  many, and then the lane field of that word is at least the last lane's.  The
  second case is AVX512 MD5, and there nothing stronger is true: the two words can
  be equal, and the proof shows why no harm is done (`EmptyWordLast`: the word
  that ties is that of the longest job in the last lane, so its lane field still
  names a busy lane).

The invariant is `Sane(m, memory, jobs, goal)`.  A job's *goal* is the buffer it reads, where it
ends, and what its digest will have absorbed when it does; whoever submits the job fixes it and the scheduler never
sees it.  `Sane` says that each busy lane has its own job, at a place from which the remaining
blocks lead to the goal, that free lanes are on the stack once each, and that the counter
counts the others.  Between calls also `num_lanes_inuse < FILL`.  The proof
follows the code stage by stage:

1. `AdmitSane`: loading a job into the popped lane keeps `Sane`; the stack is not
   empty because fewer than `FILL` lanes are in use.
2. `CopyRunnable`: the copy to the empty lanes keeps `Sane`, and the search that
   follows finds a busy lane, every lane reading what a busy lane reads
   (`Runnable`).  `FullRunnable`: when submit compresses, all lanes below `FILL` are
   busy, so the same holds without the copy.
3. `CompressSane`: compressing no more blocks than the shortest lane has stays
   inside the buffers and keeps `Sane` (`ReadOn`: what is appended to a prefix is
   the next part of the text).
4. `RetireSane`: a lane with no blocks left has reached its job's goal.
5. `ProcessSane`, `SubmitSane`, `FlushSane` put the stages together and say which job comes
   back, with its goal reached, and that no other job moved.

`ShortestExists` and `LastLane` show that the two searches, `CHOOSE` in the model,
have an answer: lanes are finite and packed words totally ordered.  `PoolSize` counts twice: busy
lanes and jobs are in bijection, the other lanes are those on the stack, and the
counter and the stack's length add up to `NLANES`, so `num_lanes_inuse` is the number of jobs
in process.

**`MBJobMgrProofs`: the job manager, for every size.**  `TypeOK`, `NoFault`, `LaneAccounting`,
`JobsInLanes`, `LaneProgress`, `CompletedDigest` and the refinement of `JobPool` hold of `Spec` for any
set of jobs, any `NLANES`, `FILL` and `SB_THRESHOLD`, any block size and any job lengths that
`Fit` (`LengthAssumption`); `MemoryAssumption` says what a cell of the modelled memory is.  None of the six
is inductive by itself: that no kernel reads outside a buffer (`NoFault`) needs the
pointers and lengths to be in step (`LaneProgress`), which needs each lane to have
its own job (`JobsInLanes`), which needs a popped lane to be free (`LaneAccounting`).  `IInv`
is `Sane` with the goals `Targets(job)`: each job ends at the end of its buffer with its whole message
absorbed.  `SubmitStep` and `FlushStep` map each call to the pool's.

**`HashCtxMgrProofs`: the context layer, for any contexts, lanes and bytes.**  `TypeOK`, `NoFault`,
`OneOwner`, `NoByteLost` and the refinement of `HashService`.  Assumed of the constants: `CtxAssumption` (the length
field is shorter than a block, and the like), `JobAssumption` (the blocks of the longest message, and
the two of the padding, `Fit` the scheduler's length word; in the code a piece is shorter than 2^32 bytes, so that a
job has at most 2^26 - 1 blocks), and
`CellAssumption` (the cells of the modelled buffers are bytes).

`IInv` is `\E goal : Good(goal)`: there is an assignment of goals to jobs for which the scheduler is
`Sane` and every context `Stands`.  The goals change from call to call of the scheduler and appear in no
variable, hence the quantifier.  A context `Stands` when

- it is `Fine`: what it has absorbed, or will when its job has reached its goal, followed by its
  partial block and the rest of the user's buffer is the message so far, or the padded message once the
  last bit is through; only one of the partial block and the rest is not empty;
- it is `Owned`: the status says "processing" exactly if a lane has its job or the running call has it
  in hand, and never both;
- its job, if it has one, reads its own user buffer or its own partial block.

The last line is what makes the memory argument local: filling, padding or giving away the buffers
of one context cannot disturb what the lanes read of another (`OnlyOfSane`, `OnlyOfOthers`).  Each action is
then one of a few arguments.  `EnterStands`: a context whose next blocks are handed to the
scheduler gets a goal for them.  `BackStands`: the one that comes back has reached its goal.
`TakeFine`: whole blocks hashed in place and the remainder copied to the partial
block (`ResubmitBlocks`); `CopiedJoins` and `FullJoins`, the same for the copy of a submit; `PadFine` over
`PaddedBufferIs`: what `hash_pad` leaves in the buffer is the padding of FIPS 180-4, for every length and both sizes
of the length field, and one block or two as needed; `FinishFine`: the caller may reuse everything a context handed back does not
need.  Bytes are compared in pieces (`StartIs`, `PartIs`, `PartsJoin`); no step needs induction over the message.

For the refinement, a context's phase is its status, its digest what it absorbed once complete.  A
`submit` that answers NULL needs room in the service: every context in process then sits in a lane
(`WaitsIs`, `FlightIs`), and `PoolSize` counts lanes.  Of each action it is shown which contexts'
phase, length and digest change (`ChangesOne`, `ChangesNothing`), and which step of the service that is.

**`MBJobMgrCProofs`: the aarch64 managers, for any lanes, stacks and lengths.**  `NoFault`, `LaneAccounting`
and the refinement of `JobPool` hold of every manager of the family whatever the lengths: the asserts
of the code never fire, even in the run of finding 3.  The invariant here is about stacks: lane `i`
is on the stack of its group, once, exactly if it is free, and the counter is the number of the
others (`Sane`).  `InsertSane` shows that the group `insert_job` stops at has a lane; `FreeLaneSane`,
that what it frees is a finished lane; `RunThenFree`, that after `do_jobs` there is one.  `TypeOK` and
`CompletedDigest` are proved under `ShortJobs`, that no job has half as many blocks as the length word
has values: the kernels take the count of blocks as a signed number, and the shift that packs it drops
the rest.
Beyond it a digest may be wrong (finding 3).  `Good` adds for every lane that what it absorbed is a prefix of its job's
message and that its length word is the number of blocks missing.

**`SelfTestsGenericProofs`: the gate, for any set of threads.**  `OneRunner`,
`HonestAnswer` and the refinement `GateSpec` of `SelfTestsGeneric`; the only assumption is
that `NONE` is not a thread.  `OneRunner` ties the word `RUNNING` to one thread inside the
suites.  `HonestAnswer` is not inductive: it needs that a final status tells the
truth (`HonestStatus`), which needs that the SHA suite runs only after an AES suite
that passed, and that a thread reads the verdict only once there is one (`Placed`).
For the refinement, the gate's runner is the thread inside the suites
(`RunnerIs`, unique by `OneRunner`), so the exchange maps to the gate's start, the
store to its verdict, and every other step to a call, an answer or nothing.

**`SelfTestsAsmProofs`: the x86 gate.**  `HonestAnswer` for any set of threads and any outcome of
the suites; `OneRunnerIfShaPasses` and the refinement `GateIfShaPasses` under their own
condition, that the SHA suite passes.  The invariant is the same ladder
(`HonestStatus`, `Gathered`, `HonestAnswer`), and the exclusion of runners
(`Exclusive`) is a conjunct only where the SHA suite passes: with −1 in the word it is
false, which is finding 2.

**`EntryProofs`: the checked API over the gate.**  `ApiWorkIsCovered` for any number of threads and
whatever they call.  It needs that the gate's answers are true and its verdict final
(`TrueAnswers`), that a call stands where its function's tests put it (`Entered`), and
that an object the checked functions made was made after the tests passed (`Made`).
Lemma `OnlyOneUntested` reads the table of functions: of the approved ones,
`isal_aes_gcm_dec_256_update` alone does not test, and it needs a context.  Lemma
`GateKeeps` is what a step of the gate may not change.  The promise it relies on
is the one the refinements above are about; the x86 gate is proved to keep it where the SHA suite
passes, and where it fails no caller is told "ok" (`HonestAnswer`), which is all that this
property takes from it.

**`EntryProofs`: dispatch, for any threads and machines.**  `RunsHere`, on machines with any sets of
features and any kinds of cores, of which only `ArchitectureAssumption` is known (SSE4.1 with SSE4.2, SHA512
with SHA3, ASIMD with everything else of aarch64).  It follows
from `DispInv`: everything stored in a pointer or chosen by a thread is a
choice of the dispatcher on this machine, on one of its cores, whoever made it.  `ChoiceRuns` goes through the
decisions, each with the tests that lead to it (`X86Runs`, `Aarch64Runs`), and finds what the choice executes
among the features, AVX512_G1 under the SHA extensions excepted.

**`LibraryProofs`: streams and modes, for any sizes.**  `TypeOK` and the seven properties that compare
a part of `Library` with its reference.  Each part has an invariant of its own that says what the context
holds as a function of what the caller has given so far; none of the properties is inductive,
as they speak only of the end of a message or of a call.  Where the code works by recursion over the message
the proofs avoid it: `UpTo` is induction up to a number, stated of a set (a set that holds 0
and is not left before `n` holds 0 to `n`, as its complement would have a least element).

- *Base contexts* (`BaseDigestHolds`).  `BaseInv`: absorbed cells and partial block are the message so
  far.  `UpdateIs` is what one call of the update does to it, `FillIs` that the padding of the code ends
  where that of the standard does, `FinalIs` puts the two together.
- *Rolling hash* (`RhFirstHitHolds`).  `RhInv`: until a run goes past its buffer the hash is that of the window.  `ReachIs`
  and `RunEnds` say where the loops end, for a length of 32 bits; `RunShape`, that the history has the window's width
  wherever they do, past the end of the buffer included.  `HashMoves` shows that a step of the
  hash (rotate, drop the oldest byte, take the next) is that of the window that slides.  The
  recursively defined `Hashes` exists because a function with its equations can be exhibited (`HashesAre`).
  `HashTells` shows that windows of the allowed widths have different hashes; this needs widths below the
  bits of the hash, as `ISAL_FINGERPRINT_MAX_WINDOW` (48 of 64) keeps them.
- *GCM* (`GcmOutputHolds`, `GcmTagHolds`).  `GcmInv`: the context after `n` bytes is the one `Ready(gcm, n)`
  describes, counter, partial block and its key stream included, and the output is the
  reference's.  An update is three stages, each of which takes a context that is `Ready` to
  another: the partial block that is open, whole blocks (in groups, whatever way their counters
  are taken), and the last partial block.  The tag needs the hash to be linear (`GhashIs`, `HashOn`), and the
  hypothesis `AadFits`: the authenticated data is shorter than `AAD_LIMIT` (2^29 bytes), because finalize takes 32
  bits of its length in bits; beyond that the statement is not claimed.
- *CBC* (`CbcOutputHolds`).  `CbcInv`: the first `idx` blocks of the output are written, nothing else
  is, and the registers hold the blocks the code reads before it writes over them (`Holding`).  `LinksExist`
  exhibits the chain.  Hypothesis `CbcApart`: the output is apart from the input, below it, in
  place, or one block above it.  The look-ahead is one block, so two blocks above the
  input a block would be read after it was overwritten.
- *XTS* (`XtsOutputHolds`).  `XtsInv` says, label by label, how much is written and what the registers that
  stealing needs hold (`AtCall`, `Between`, `AtSteal`, `AtRet`).  A byte of a cipher names the
  block it was made of, so the set of bytes in memory grows with every call: the invariant
  says that there is such a set (`Bytes`, `Deeper`), and taking the result back leads into it
  again.  Hypothesis `XtsApart`: the output is apart from the input, in place, or begins below it;
  beginning inside it, whole groups would be read after they were overwritten.
- *Multi-hash* (`MhDigestHolds`).  `MhInv`: an open stream is cut (`MhCut`) into whole blocks, dealt out to the
  segments, and less than a block in the buffer.  `SegmentJoin` and `MurmurJoin`: dealing out block by block
  is dealing out the whole, `MhUpdateHolds`: an update goes on where the last one ended,
  `TailHolds`: tails of one and of two blocks end in the standard's padding, `MurmurFinalHolds`: the rest
  murmur reads from the buffer is the end of the message.  Hypothesis `MhShort`: messages are shorter than `LEN32`
  (2^32), because finalize casts the length to 32 bits; beyond that the statement is not claimed.
- *Types* (`LibraryTypeOK`).  No hypothesis: wherever buffers lie and however long messages are,
  counters and buffers keep their ranges.

The hypotheses `CbcApart`, `XtsApart` and `MhShort` hold in the run `Library_parts`, with shifts at both of the
bounds they set; `Library_xts` is what happens where `XtsApart` does not.  `AadFits` is part of the
property, and the run goes beyond it.

**Only model-checked.**  The liveness properties (`EveryJobFinishes`, `CallReturns`),
because fairness and ENABLED are outside the prover.

## Findings

1. **An accepted submit can report another context's error** (`HashCtxMgr_errors`).
   A rejected submit of a context in flight sets its `error` (`sha1_ctx_sse.c:62-66`),
   which stays set while the context is processed.  When a later, accepted submit
   of another context hands that one back, `isal_sha1_ctx_mgr_submit`
   (`sha1_mb.c:79`) returns its old error, although the manager changed and hashes
   were processed.  `sha1_mb.h:101-104` says that errors come back with the
   submitted context, at once, with no processing done.
2. **Self tests run again, in several threads, when the SHA suite fails**
   (`SelfTestsAsm_doc`).  `_sha_self_tests` returns −1; `self_tests.c` stores it as
   the status; bit 1 of −1 makes the check treat it as "not done", the exchange fails
   and the caller runs the suites again.  `isal_crypto_api.h:102` says that only
   one thread runs the tests and the rest wait.  The answers stay "fail"
   (`HonestAnswer`), and where the SHA suite passes the gate holds
   (`GateIfShaPasses`).

3. **MD5 on SVE does not hash an update of 512 MiB** (`MBJobMgrC_md5`).
   `md5_mb_mgr_aarch64_sve.c:172` keeps the blocks of a job in the upper 24 bits of a
   32-bit word and passes what is left of them to the kernels as int.  The run shows a job of half as many blocks as
   the word counts: its count is negative, the kernel does nothing, and the job is handed back.  In the code that
   is an update of 2^23 blocks or more; one of 2^24 blocks, or of a multiple, has no
   blocks left in the word at all.  The context layer passes any
   32-bit length on, and `md5_mb.h:78-79` promises a valid hash.
4. **One GCM function works after failed self tests** (`Library_api`).
   `isal_aes_gcm_dec_256_update` (`aes_gcm.c:322`) has no FIPS block; with a context made
   by the deprecated functions it decrypts after the tests have failed.
   `isal_crypto_api.h:100` says that then no crypto processing will be done.
   `ApiWorkIsCovered`, proved, says that it is the only one.

5. **The x86 rolling hash answers an offset behind the buffer** (`Library_rolling`).
   `rolling_hash2_until_00.asm:186-196` (and `_04`) treats the odd byte at the end of a buffer as the second of a
   pair: when it is the hit, `rolling_hash2_run` answers `buffer_length + 1`, and keeps a history that ends with
   a byte from behind the buffer.  The C loop does neither.  The rolling hash's own test calls such an offset an error
   (`rolling_hash2_test.c:153-154`).
6. **XTS with the output above an overlapping input** (`Library_xts`).  `aes_xts.h:72-74` allows
   overlapping buffers "as long as the output buffer pointer is not less than the input buffer pointer".  The code
   loads and stores group by group from the bottom, so it is the other way round: an output that begins inside the input
   destroys what the next group loads, while one that begins below it is right (`XtsOutputIsStandard`).

Remarks that are not runs, as no document says which behaviour is meant, or the case needs a machine
of one certain kind:

- `mh_*_finalize` passes the 64-bit total length on
  as 32 bits, so that digests of streams beyond 4 GiB depend on their length modulo 2^32.
- `GCM_COMPLETE` takes 32 bits of the length of the authenticated data in bits (`gcm_sse.asm:1849-1850`,
  `gcm_avx_gen2.asm:1809-1810`, `gcm_avx_gen4.asm:2956-2957`), and `aes_gcm.c` does not bound it: from 2^29 bytes on
  the tag is not that of GCM.  The VAES version keeps all 64 bits
  (`intel-ipsec-mb/lib/include/gcm_vaes_avx512.inc:3699`), so there the tags of different versions differ.
- The C loop of the rolling hash takes the 32-bit length as int (`rolling_hash2.c:84,143`): of a buffer of 2^31 bytes
  or more it looks at the first `w` only.
- On an x86 machine with zmm state and SHA extensions but without AVX512 the SHA1 and SHA256
  managers would execute AVX512 instructions (`multibinary.asm:438-449`, `Unconfirmed`).
- On an aarch64 machine without SHA1 instructions and with two kinds of cores, one of them Neoverse N1, Cortex-A57 or
  Cortex-A72, the three dispatchers of SHA1 may run on different kinds and choose differently: submit for ASIMD lanes with
  the flush of the base, which answers NULL whatever is in flight.  `aarch64_multibinary.h:273-282` says of big.LITTLE that "it will
  work"; it speaks of one function, not of three that share a manager.

## Not modelled

- The rounds of hashes and ciphers, GHASH's multiplication and the murmur mixing: straight-line
  arithmetic on one block.  The models keep which bytes reach them in which order.
- Test vectors, perf and test programs, fuzzers, build files.  `aes/*_test.json.h` and
  `gcm_vectors.h` alone are more than 30,000 of the repository's lines, and they are data.
- Known-answer suites, but for their return value; key schedules.
- The copies of an algorithm for another instruction set or key size.  The managers
  differ in constants, which the modules take as such; the AVX and AVX512 versions of GCM, XTS and
  CBC cut a message into other groups, and the model follows the SSE version.  The aarch64 versions of GCM, XTS, CBC and
  of the rolling hash's loop are code of their own.  SHA-NI's
  flush that always runs one lane (`SB_THRESHOLD = NLANES`) is in the theorems, which hold for
  every threshold, and in no run.  Mapped lines name one copy of each algorithm,
  which is why the map covers a small share of the repository's lines.
- riscv64: the same algorithms behind a dispatcher of its own.
- The rolling hash's mask generation (a pure function of two numbers) and the chunking example.
- Values of parameters: a checked function's tests of its pointers and lengths are one
  choice, good or bad.
