# ManboML in TLA+

ManboML is a Go library that runs one family of language models (Qwen3, in GGUF
files) on the CPU. This directory holds TLA+ modules translated from its source,
TLC configurations that check them on small instances, and TLAPS proofs of the
properties that matter most for every size of instance. `PROJECT.json` maps each
definition to the lines it models.

Contents: [the system](#the-system), [the modules](#the-modules),
[the runs](#the-runs), [fairness](#fairness), [the proofs](#the-proofs),
[where code and documentation disagree](#where-code-and-documentation-disagree),
[what is not modelled](#what-is-not-modelled), [plan](#plan).

## The system

| component | source | state it keeps | operations |
|---|---|---|---|
| model and session pool | `model.go`, `generate.go`, `chat.go` | `closed` under `mu`, the channel `done`, the WaitGroup `active`, the channel `sessions` | `Generate`, `Chat`, `Close`; inside: `begin`, `end`, `acquire`, `release` |
| opening and estimate | `open.go`, `estimate.go`, `options.go` | none of its own: it builds the model and owns the backing until it succeeds | `Open`, `Estimate` |
| backing | `internal/backing` | the mapped or copied bytes, the size and time of the first stat, `closed` | `Open`, `CheckUnchanged`, `Close` |
| loader | `internal/loader` | none; metadata and tensor descriptors are its result | `Parse`, metadata accessors |
| configuration, binding, memory plan | `internal/arch/qwen3/{config,weights,kv,model}.go`, `internal/ops/matrix.go` | immutable configuration and weights | `NewConfig`, `BindWeights`, `kvBytes`, `SessionBytes`, `NewModel`, `NewSession` |
| inference session | `internal/arch/qwen3/forward.go`, `model.go`, `kv.go` | `pos`, the KV caches, scratch vectors, `logits` | `Forward`, `Reset` |
| generation loop | `internal/arch/qwen3/generate.go` | the text and the count of one request | `GenerateTokens`, `generate` |
| numerical executor | `internal/ops/executor.go`, `matvec.go` | a worker count; per product, the partition and `errs` | `MatVecF32`, `MatVecQ8K`, `run` |
| numerical operators | the rest of `internal/ops` | none of their own; they write the session's scratch vectors (the Q8_K vector `s.q8` is quantised anew before each product, blockwise) and the cells of its caches | quantisation, binary16 conversion, norms, RoPE, softmax, `Argmax`, ... |
| tokenizer | `internal/tokenizer/tokenizer.go`, `extractTokenizer` of the loader | immutable special ids and types | `New`, `Encode`, `Decode`, `IsEOG`, `BOS` |
| chat templates | `internal/tokenizer/template.go`, `chat.go` | none | `RecognizeTemplate`, `FormatQwen3Guard`, `Format` |

How they interact. `Open` maps the file, validates it stage by stage, admits the
memory plan, allocates every session and puts it in the channel. A request
registers itself (`begin`), takes a session from the channel, runs
`GenerateTokens` on it, resets it and sends it back, and unregisters (`end`).
`GenerateTokens` calls `Forward` once per token; `Forward` calls the executor
for every product; the executor's goroutines read the weights, which are slices
of the mapping. `Close` refuses new requests, waits for the registered ones and
unmaps.

What is hard about it:

- *Interleaving with Close.* Weights are read from a mapping that `Close`
  removes; one request that is not waited for is a fault of the process.
- *The pool.* Every path of a request, failed and cancelled ones included, must
  give its session back exactly once: the channel is bounded and the send of
  `release` blocks if there is one too many.
- *Cancellation.* A context may be done between any two steps. An evaluation
  abandoned in the middle has written some of its rows into the caches, and part
  of the logits.
- *Reuse without clearing.* `Reset` only sets the position to 0. Stale rows of
  earlier requests stay in the caches and must never be read.
- *Partitions.* Goroutines write parts of one vector without a lock.
- *A file that changes* while it is being opened: the path is resolved anew by each
  stat and each open, a copy is read piece by piece, and a mapping shows later writes.
- *Arithmetic on numbers from a file or a caller*, in `int` and `uint64`; special
  ids pass through `uint64`, `int64` and `int32`.
- *Bits.* Scales, minima and quants are spread over bytes, and halves are rounded
  with shifts and carries; an error there changes answers without failing.
- *A template written twice*, as the Jinja text in the file and as Go code.

What makes each component correct:

- model: no evaluation after the unmap; sessions conserved; a request's session
  is its own; every request and `Close` return.
- executor: each row computed by one goroutine; `nil` only when all rows are
  computed; nothing runs on after the return.
- session: attention reads exactly the committed tokens and the current one; a
  failed evaluation changes nothing a later one can see.
- generation: each token is sampled from the logits of the request's own context;
  a request that fits is not refused; it ends.
- opening: failures release the mapping, successes keep it; the bytes parsed are
  the bytes whose digest was compared; a file that changed is noticed, unless its size
  and time are as before; the budget is respected.
- loader: the tensors accepted are inside the file and disjoint.
- binding: a model that opened can evaluate; the plan counts what is allocated.
- tokenizer: the tokens that end a generation are exactly those the file names, in
  every integer width.
- templates: a prompt is what the embedded text would render; each message of the
  conversation has its place in it.
- operators: an integer product means the weights that were packed and the
  activations that were quantised last; halves are the nearest ones; the sampler is
  greedy and deterministic.

## The modules

`Lifecycle` and `Context` are abstract specifications; the other modules are
translations. Operators whose comment starts with "Mutant" are plausible bugs in
the definition that follows them, kept to show that each property can fail.

| module | models | refines | state and actions |
|---|---|---|---|
| `Model` | model and session pool | `Lifecycle` | `closed`, `done`, `active`, `sessions` are the fields of `Model`; `pc`, `held`, `cancelled`, `err` the locals of each caller's goroutine; `closerPc` those of each closer. One action per critical section, channel operation and WaitGroup operation |
| `Lifecycle` | what the comments of `model.go` promise | | a phase, the requests inside, the session each holds |
| `Executor` | executor, row loops of the products | | the loop variables of `run` and of each goroutine; `dst[i]` is the number of the product that wrote element i |
| `Session` | `Forward`, `Reset`, the KV cache | `Context` | `pos`, `kv`, `hidden`, `logits`; one action for the attention half and one for the feed-forward half of a layer, one for the projection and the commit |
| `Context` | a session as its caller sees it | | the committed tokens and what the logits stand for |
| `Generation` | `GenerateTokens`, `generate` | | EXTENDS `Session`: Forward runs step by step below the loop, request after request on one session |
| `Opening` | `Open`, `Estimate`, backing, options | | the path and the files behind it, changed by other processes; the two stats, the view, the bytes copied and hashed so far, the stages |
| `Loader` | `Parse`, `validateHeader`, `normalizeTensors` | | the file's descriptors; both loops, one turn per action; the unstable sort as any sorted permutation |
| `Binding` | `NewConfig`, `kvBytes`, `BindWeights`, `Matrix.Validate`, `NewRoPETable`, `NewSession` | | the metadata, the configuration, the tensors bound so far, the lengths of a session's slices; one action per stage, and one per tensor looked up. `Evaluates` is what `Forward` takes for granted of the result |
| `Tokenizer` | `extractTokenizer`, `tokenizer.New`, `IsEOG`, and `Chat` up to the prompt | | the metadata of a file until `New`, the `Tokenizer`, the last conversation and its prompt; one action for parse and `New`, one per `Chat` |
| `Template` | recognition, `FormatQwen3Guard`, and the embedded Jinja text | | operators; a text is a sequence of pieces |
| `Quant` | Q4_K, Q6_K, Q8_K blocks: packing, decoding, integer dot products | | operators over bytes |
| `Half` | binary16 and float32 conversions | | operators over bit patterns, with the nearest half defined by value |
| `Operators` | the operators in use | | the scratch vector `q8` across quantisations and products, a cell of a cache, the loop of `Argmax` |
| `ModelProofs`, `ExecutorProofs`, `GenerationProofs` (`Session` included), `OpeningProofs`, `LoaderProofs`, `BindingProofs`, `TokenizerProofs`, `OperatorsProofs` | | | theorems |

`MCModel`, `MCExecutor`, ... instantiate them for TLC.

Abstractions that carry weight:

- *Provenance instead of numbers.* In `Session` a vector is the sequence of
  tokens it was computed from, or `Junk` if its inputs do not belong together.
  The caches keep the code's flat head-major layout, so addressing errors show.
  Query heads whose values differ in provenance make the hidden vector `Junk`.
- *Tokens of evaluation in `Model`.* One evaluation is one action: its inner
  steps touch only the leased session, and reading the mapping is what the pc
  stands for (`MappedWhileRegistered` covers the whole request). Inside,
  `Session` and `Executor` take over.
- *The executor's memory.* The goroutines of a product share `dst` and `errs`
  only, and each element belongs to one of them (this is `OneWorkerPerRow`), so
  steps of one row are atomic.
- *Files* in `Opening` are inodes with a few bytes and a modification time, and what
  bytes mean is a constant function to the stage that rejects them. Nothing ties a time
  to the bytes: another process may rename any file over the path, which brings that
  file's own time (an earlier file may come back), and may rewrite any file, at the path
  or away from it, with any time, the old one included. The copy and the digest go
  through the bytes one by one. A mapping is live: it shows what is written to its
  inode. Left out are the truncation of a mapped file, which is a fault of the process
  that reads it, and collisions of digests. `parse` is one step, as the loader copies
  what is decided on later.
- *The tensors of a file* are chosen in `Binding` when they are looked up: any kind,
  any shape, or none, under the constraints the loader has checked. Their bytes lie in
  the file by `TensorsInFile`, so the offset and the second check of `BindWeights`
  are left out, and so is the architecture check, which `Open` has made. The floats
  (RoPE base, epsilon, norms) are left out. An allocation succeeds up to `MaxAlloc`
  bytes and panics above, as Go's `make` does at some size.
- *Integers.* `Binding` has a `uint64` of `WordSize` values and an `int` of the same or
  of a smaller number of values, for 64-bit and 32-bit platforms, and every product
  the code does not check wraps in the width the code computes it in.
- *Integers of the tokenizer.* `Tokenizer` has an `int32`, an `int64` and a `uint64`,
  each wider than the one before; conversions cut.
- *Texts.* A prompt is a sequence of the fixed texts, by name, and of the contents of
  messages. The fixed texts of the Go code and of the Jinja text were compared by
  hand and are the same. What Jinja would render is written from its rules for
  loops, `loop.first` and whitespace control.
- *Floats.* `Operators` keeps the integers of a block exact and the float factors
  apart, so that a sum is the pair of integers the factors multiply. A quotient that
  is cut to eight bits is an integer or, if no `int32` holds it (NaN, or infinite
  when the reciprocal of a tiny scale overflows), `NaN`, whose conversion is the
  platform's choice. There is one choice for all such quotients of a vector, where a
  platform that saturates may convert infinities of either sign and NaNs differently;
  no property depends on what they become. `Half` works on the bits and has no floats at all.
- *Go's select* is a free choice between the cases that are ready.

## The runs

| run | instance | shows |
|---|---|---|
| `model_safety` | 3 callers, 2 sessions, 2 closers, contexts of 2 tokens, symmetry | the safety properties, and that the invariant of the proofs holds |
| `model_liveness` | 2 callers, 1 session, 2 closers | requests and the winning `Close` return; `Model` implements `Lifecycle` with fairness |
| `executor` | 3 workers, up to 7 rows, a look every 2 rows, 2 products | partition, join, cancellation, termination |
| `generation` | contexts of 3 tokens, 2 layers, 4 query heads on 2 KV heads, prompts of 0 to 4, `maxTokens` 0, 1, 2 and the largest int | attention reads the committed context; `Session` implements `Context`; sampling from the request's own context; limits; termination |
| `opening` | 2 files of 6 possible contents of up to 2 bytes, 2 times, 2 changes by others, 5 requests | cleanup; the digest is that of what is parsed; what the second stat finds out |
| `opening_budget` | a plan that wraps | violation of `BudgetCoversEverything` |
| `opening_estimate` | one file of each kind | violation of `EstimateValidatesLikeOpen` |
| `binding` | files around a good one, 6 dimensions, 3 encodings, words of 2048 values, ints of 2048 and 512 | a quantised model that opens evaluates; rows are in their data; the plan is exact |
| `binding_unsupported` | one good configuration, 4 encodings | violation of `UnsupportedIsRejected` |
| `loader` | up to 3 descriptors, 4 offsets, 3 sizes, words of 4 bits | accepted tensors are in the file and disjoint; nothing well-formed is rejected |
| `tokenizer` | an `int32` of 4 bits and an `int64` of 6, ids around the limits of each, conversations of up to 3 messages with any role | special tokens and synthesised types are those of the file; a prompt is what the template renders and keeps the messages |
| `operators` | real sizes: blocks of 256, halves of 16 bits; 2 blocks, 4 rows, 4 kinds of activations, every boundary between two halves | products and decoded rows mean the packed weights; halves are nearest; `Argmax` is the lowest greatest index |

Why the bounds are enough. A third caller contends for two sessions, so a parked
caller, a lease and a pooled session exist at once; two closers are all that
`closed` can tell apart. In `executor`, fewer rows than workers, a remainder, an
exact division and a part that looks at the context twice all occur; two products
show writes of one leaking into the next. In `generation`, four query heads on two
KV heads tell the code's grouping from round robin, two layers let a failure fall
between writes, three positions leave stale rows above the committed one, and the
contexts are as long as a prompt and two new tokens. In `tokenizer`, 17 is 1 as an
`int32` and 33 is 1 in both widths, 7 and 8 are the last id and the first that is
none, and three messages let a system message stand first, between and last. In
`operators` the blocks have no pattern a mistaken index could miss, extremes occur,
and a longer vector is quantised before a shorter one, which leaves old blocks
behind; the numbers are the midpoint below and above every finite half with its two
neighbours, and NaNs and infinities. In `loader`,
three ranges allow an overlap between ranges that are not neighbours in the file,
and words of 4 bits make every sum wrap. In
`binding`, the dimensions and the metadata have values that wrap to small ones in
each width: 129 and 516 times a head dimension as an `int`, 516 by itself on the
32-bit platform, 130 rows of a size that wraps. The contexts are so long that the
cache, the RoPE table or the plan overflows. The metadata differ from a good file's
in the head count or the head dimension and one more value, which is enough for
every error of `newConfig` and `plan`, and two layers occur. In `opening`, two changes
let a file be moved over the path and the first one moved back, a file be rewritten twice
while it is copied, or be moved away and then rewritten under its mapping; two times let
the stamps of different files agree or differ, and two bytes let a copy or a digest be
caught half-way. The files are of every kind but malformed, which is what a copy mixed of
two of them is, and one good file is the beginning of another.

`Executor`, `Loader`, `Binding` and `Operators` stop after a bounded number of calls,
and so does `Tokenizer` on a file that `New` rejects; their configurations say so.
Nowhere else is a deadlock tolerated.

## Fairness

- `Model`: a goroutine that is inside a request or inside `Close` keeps running
  (weak fairness on each caller's `RequestStep` and each closer's steps). Nobody is
  obliged to call, to cancel or to close. `acquire` gets strong fairness: the
  channel may be emptied between two moments in which the caller could have
  received, and Go queues waiting receivers in order, so a parked caller is passed
  over finitely often. An evaluation may go on for as long as the session has
  room; the properties need no assumption on cancellation.
- `Executor`: the caller and each goroutine run when they can.
- `Generation`: the goroutine of the request runs. `sample` may answer anything.

`Session`, `Opening`, `Loader`, `Binding`, `Tokenizer` and `Operators` have safety
properties only.

## The proofs

All proofs are about arbitrary constants: any finite sets of callers and
sessions, any number of closers, any context size; any number of workers, rows
and products; any numbers of layers, heads and positions, any prompts and limits;
any files, any number of them, their changes and times, and any sizes of `int` and
`uint64`; any conversation, any vector of logits, any rows of packed weights and any activations.

**`ModelProofs`.** The invariant `Inductive` has these parts:

- `ActiveCounts`: the WaitGroup counts exactly the callers between `begin` and
  `end`. Without it "the counter is 0" says nothing about callers.
- `CloseProgress`: `done` agrees with `closed`; before `closed` the backing is
  there and nobody is past the check of `Close`; once the wait is over the counter
  is 0; at most one closer is between its check and its return.
- `SessionsConserved`, with `LeaseMatchesPc`: a session is in the channel once or
  held by one caller, and callers hold one exactly between `acquire` and the send.
- `ReturnedReset`, `PooledSessionsReset`, `PositionIsOwn`: positions.

From it follow `NoReadAfterUnmap` (a registered caller makes the counter positive,
so nobody is past the wait), `PoolConserved`, `BackingClosedOnce`,
`NoRequestAfterWait` (an action property: the counter can only rise through
`begin`, which `closed` blocks), and `ReleaseHasRoom`, a pigeonhole argument: the
channel holds distinct sessions, none of which is the one about to be sent, so it
is shorter than its capacity. `ModelImplementsLifecycle` maps each action of
`Model` to a step of `Lifecycle` or a stutter; its fairness is checked by TLC only.

**`ExecutorProofs`.** The invariant `ExecutorInvariant` has these parts:

- `StartIs`: the next part starts after `p` parts of `n \div parts` rows and one
  more row for each of the first `n % parts`. With it a part's size is never 0, the
  last part ends at the last row, and no index leaves the vector; the arithmetic
  of quotients and remainders is in lemmas of its own.
- `Spawned`, `Consecutive`, `Covered`: the parts spawned so far lie below `start`,
  one after the other, without a gap.
- `Computed`, `Fresh`, `Finished`: the elements of the current product are exactly
  the rows its parts have passed, so a part that ended without an error has
  passed all of its rows.
- `Lateness`: since the context is done a part has computed no more rows than since
  its last look at it, that is at most the remainder of the row's distance from
  the part's start.

From it follow `RowsNotShared` (two parts are ordered by `Consecutive`, and a row
that is already computed is in one part only), `NilVouches` (at the join the parts
cover the matrix and all have finished), `NoneLeft` and `StopsSoon`.

**`LoaderProofs`.** The invariant `LoopInvariant` of the two loops:

- `Inside`, `Named`: every tensor accepted so far ends inside the file, under a
  name of its own. This needs `CheckedSum`: `checkedAdd3` succeeds exactly when
  the sum is a word, and `start`, which is added without a check, is then exact.
- `Gathered`, `Arranged`: the ranges are those of the tensors, first in their
  order, then in that of the sort. The sort is any permutation that is sorted by
  the start, as the code promises no order among equals.
- `Ordered`, `Separate`: the ranges compared so far are pairwise disjoint, though
  the code compares neighbours only: ranges are sorted by their start, and the
  end of each is no smaller than its start.

From it follow `TensorsInFile` and `TensorsDisjoint`, for any number of descriptors.
`WellFormedAccepted` is the converse, and needs an invariant of its own, `Accepting`: of
a well-formed file the tensors and ranges so far are the exact sums of the descriptors
(`Copied`), and once the sort has forgotten which range is whose, all ranges are
non-empty and pairwise disjoint (`Apart`), so a neighbour that starts no earlier starts
no earlier than the end either.

**`BindingProofs`.** `BindingInv` says what each stage leaves to the next:

- `Configured`: past `newConfig` every number of the configuration is a positive
  `int`, the query heads divide into KV heads, and the two widths are products that
  may have wrapped.
- `Planned`: past the plan the context is in range and the bytes of its cache passed
  the checked multiplications.
- `AllBound`: each tensor bound has the shape of its role; a matrix passed
  `Matrix.Validate`, a norm's floats were allocated.
- `Opened`: a model that opened has a session of exactly the slices `newSession`
  makes, whose sizes together could be allocated.

`RowsAreInData` rests on `RowBytesExact`: the bytes of a row are computed in wrapping
words, but a block has no more bytes than values, so they are no more than the columns,
which are an `int`, and the multiplication by the rows is the checked one.
`PlanIsExactHolds` goes from the allocation back to the plan: what was allocated is a
sum of non-negative terms below `MaxAlloc` (`AllocatedSum`), so no term of the plan is
larger than an `int` (`TermsFit`), and none wraps; the cache is exact because
`kvBytes` passed (`CacheBytes`). `OpenedEvaluatesHolds` shows that every length
`Forward` takes for granted is right. `WidthsExact` shows that the widths are what their
heads add up to, `BoundTensor` finds the tensors of a layer at their places in the order
of `BindWeights`, and `FloatsFit` shows that four bytes per float do not wrap: for
`hidden` because a norm of that length was allocated, for the other two because some
validated matrix has that many rows of at least one block, and a block has at least 4
bytes (the code's have 144 and 210; this is the assumption `Q4KTypeSize, Q6KTypeSize \in
4..BlockSize`).

**`GenerationProofs`, the session.** `SessionInv` speaks of a session under any caller of `Forward`
and `Reset`, with an abort at any step. Beside types it has:

- `RowsAgree`: below the position, all layers and heads hold the rows of one sequence.
- `Current`: during an evaluation, the layers that are through hold the row of the
  current position too; `Carried` and `AttendsToOwnContext` say what the vector
  between the layers stands for.
- `Busy`: an evaluation has a position below the capacity, and a valid token.

The step that matters is `AttentionStep`: the rows written at the position change no
row below it (`SlotsApart`, which is arithmetic about the head-major layout), every
query head reads the rows of the KV head of its group (`KVHeadOfGroup`: the quotient
the code computes is the group's number when the heads divide evenly, which
`config.go` checks), and so attends to the committed tokens and the current one
(`AttendsTo`). The commit then extends the sequence (`CommitStep`), and an abort leaves
it alone (`AbortStep`), as the rows above the position are nobody's.
`SessionImplementsContext` maps every step to one of `Context`'s or a stutter.

**`GenerationProofs`, the loop.** `GenerationStep` shows that each step of the loop is, for the
session, a call, a reset, a step of `Forward`, a new or a cancelled context, or nothing.
So `GenerationUsesSession` (the loop is a caller) brings all theorems about `Session` to
`Generation`. The invariant `Loop` relates the loop to the `Forward` under it: what is
committed, or will be when `Forward` returns, is the prompt up to `i` followed by `out`
(`Text`), and the call for the last token of the prompt, and every later one, asks for
logits (`Evaluates`). From it follow `SamplesOwn` and `AnswersRight`; the latter needs
that a sum that exceeds the context as a wrapping int exceeds it as a number
(`ExceedsIsLarger`), and that `Forward` finds the session full only for a request that
does not fit.

**`OpeningProofs`.** `OpeningInv` follows a call through its stages. From the opening
on it holds a view (`Holds`). `SameFile` speaks of a second stat that would agree if it
were made now: unless, since the opening, the path was given a file of the first stat's
size and time (`restored`), it would be with the file that was opened, whose bytes the
view has, or so far a prefix of them. No assumption about times is made: `OthersSame`
goes through the changes, and any that leaves a stat in agreement either is away from
the path or is such a restoration. `Digested` says that the digest is so far that of a
prefix of what is shown, and later that what is shown and what was parsed have the digest
asked for, unless the mapping was rewritten after it was begun (`OthersShown`). From it
follow `OpeningLeaksNothing`, `OpeningVerifiesWhatItParses` and the action property of
`OpeningChecksTheFile`.

The latter does not say that the check is reliable. It says what `backing.go:61-63`
leaves open: size and time are all that is compared, so a file that has both passes
with other bytes in the backing, for instance when `A` is opened and `B`, written within
the granularity of the clock, is renamed over it, or when `B` is opened in the place of `A`
and `A` is moved back. TLC finds such a behaviour at once if `~restored` is dropped from
`CheckLeavesRestored`. Only a digest vouches for the bytes, and only as long as nobody
writes to the mapped file after it.

**`TokenizerProofs`.** `PromptsRenderTemplate`: for a conversation of any length the
renderer and the Jinja text agree, message by message (`chunk` against `JinjaChunk`) and
on the variant of the last role, and a prompt is made under the recognised text only.
`PromptsKeepMessages`: the prompt holds the contents of the messages that are kept, in
their order, beside fixed texts only (`Holds`). A message adds its content behind a
fixed text or nothing (`ChunkKeeps`); `HoldsNext` extends the places of the contents by
one message, and an induction over the messages follows `FlattenSeq`, whose recursive
function is unfolded as the sums of `OperatorsProofs` are (`FlattensExist`).
`SpecialTokens`: in any widths, the ids and the synthesised types are exactly those the
file names and the vocabulary has.

**`OperatorsProofs`.** `ArgmaxReturnsLowest` is proved by the invariant of the loop
(`ArgmaxInv`: the answer for the first `i` logits). `Q4KBlockDecodes` and
`Q6KBlockDecodes` show that decoding inverts packing for every block: the six-bit
scales and minima (`ScalesUnpack`), the nibbles (`Nibbles`), the pairs of bits (`Pairs`),
the signed scales, and all offsets. They are arithmetic of quotients and remainders.

`Q4KBlockProduct` and `Q6KBlockProduct` are about the integer products of a block: the
code adds up groups of 32 (or quarters of 16) with a scale each, and takes the minima
from the precomputed sums of 16 activations; both are the sum of weight times quant over
all 256 places. `ProductsAreExact` extends this to rows and vectors of any length, by the
invariant `ScratchInv`: the first blocks of `q8` are those quantised last, whatever older
and longer vectors left behind them, and their `bsums` are the sums of their `qs`
(`QuantizeQ8KMeans`). It assumes of the constants that each row is packed from its blocks
(`PackedRow`), which `MCOperators` makes so by construction and TLC evaluates, and that a
rounded quotient is an integer or `NaN`.

The sums are recursive functions. The library's induction theorems take an operator and
so cannot be used here, but one on a *set* can: `Induction` (a set with 0 and the successor
of each member has every natural number) follows from the minimum of a well-founded
relation (`WFMin`). With it `SumsExist` and `SumsAgree` justify unfolding the function
(`TotalNext`), and the lemmas named `Total...` say how sums split into chunks, add up and
take factors.

`HalvesAreNearest` covers every float32 and every half, where the run has the boundaries
between halves. `RoundedNear` says that `rounded` is right about the points half a step
below and above its result, ties included, for any shift (`Shifts` names the power of 2,
so that no prover meets one with a variable exponent). `StoredNear` applies it by
the exponent of the number: too small for any half (`ZeroNear`), subnormal
(`SubnormalNear`), normal, where the carry into the next exponent and the smaller step
below a power of 2 are cases of their own (`NormalNear`), and too large (`InfinityNear`).
`HalfReturns` is the way back, with the shift of a subnormal found by `ShiftsIs`. The
invariant `CellInv` connects both to the cell of a cache. The assumption is that numbers
are bit patterns of float32 (`Floats`).

What TLC alone checks:

- every liveness property and the fairness part of the refinement of `Lifecycle`, which
  the proof system does not handle;
- that the violated runs are violated.

## Where code and documentation disagree

1. `weights.go:37` "Missing tensors, shape mismatches and unsupported encodings are
   rejected": F32 is accepted for every matrix, and `MatVecQ8K`, the only product
   `Forward` uses, refuses it. Such a model opens and no request on it succeeds
   (`binding_unsupported`).
2. `options.go:15` "overflow and platform checks always apply": the sum in
   `open.go:67` is unchecked (`opening_budget`).
3. `estimate.go:28` "It performs the same structural validation as Open":
   `tokenizer.New` is not called (`opening_estimate`).

Met while modelling, without a run of their own:

- A second `Close` returns `nil` at once, while the first still waits for requests and
  holds the mapping; `model.go:41` describes the first.
- Quotients of the activations that no `int32` holds become -127, 0 or 127 by the
  platform (`q8k.go:83-86`); a block of NaNs alone counts as zero, since no comparison
  with its largest magnitude succeeds. `Operators` has both.
- `Argmax` answers 0 whenever the first logit is a NaN.
- `BOS` is cut to an `int32` without the check the other ids have
  (`tokenizer.go:65`, used at `:86`).
- A system message after the first adds nothing to a prompt, and a leading assistant
  message adds nothing either. Both are so in the Jinja text. A conversation that ends
  with a system message is an error in the Go code only.
- Recognition of the template ignores whitespace inside its literals too.

- `errors.go:25` says that a request that does not fit reports `ErrContextLimit`, but
  `len(ids)+maxTokens` (`generate.go:61`) wraps for the largest `MaxTokens`. The request
  is then evaluated, until `Forward` stops it at the session's capacity. `Generation`
  has this behaviour and the run `generation` includes it.
- `config.go:86` looks for RoPE scaling with `Uint`, but `rope.scaling.type` is a
  string in GGUF files; the check passes. In `Binding` it is a `NotUint`.
- `perLayer*2` in `kv.go:33` and the terms of `SessionBytes` may wrap. `PlanIsExact`
  shows that then no session can be allocated.
- A tensor without elements that starts where another does is found overlapping or not
  by the order in which an unstable sort leaves the two (`loader.go:222`). `Loader` has
  both outcomes; `AcceptsWellFormed` is about files without such tensors.
- `QueryHeads*HeadDim` (`config.go:93`) may wrap to a small width. `OpenedEvaluates`
  leaves such configurations out by `WidthsFit`.

## What is not modelled

- Floating-point arithmetic: norms, RoPE, softmax, the activation, vector sums, the
  scale of a quantised block. Neither TLC nor TLAPS has floats, and what could be said
  of these functions without them would be about loops over slices whose lengths
  `Binding` checks.
- The GGUF decoder and the byte-pair encoding, which are a library's.
- `resolveKey`, `String` and `Float` of the loader: look-ups in a map.
- The helper that reads a model's path from the environment for tests.
- Running out of memory, other than as a `make` above one size in `Binding` and a
  failing `NewSession` in `Opening`.
- Nothing is proved about liveness; see the end of [the proofs](#the-proofs).

## Plan

Everything that changes state is modelled. What could still be added:

1. Composition of `Tokenizer`, `Binding` and `Generation`: the failures to decode a
   sampled token, which are a choice in `Generation`, would follow from the vocabularies
   of the file.
