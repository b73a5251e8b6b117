# Verification of Linnet

Linnet is a language and compiler for tensor programs (`src/src`, C++), with a Python
package (`src/python/linnet`) that loads, serves and trains the models it compiles. Most of
it is translation: pure functions of a program's text. What runs for long, with state that
several actors change, is around it: the serving engine and its server, the embedder, the
sums of a sharded model, the package fetcher, the checkpoints of a training run. The
specifications are of these, and of the one pass of the compiler that changes a program it
shares with others: the optimiser.

## The system's parts

| Part | State | Operations | What is hard | What makes it correct |
|---|---|---|---|---|
| `serve.Engine`, paged (`serve/__init__.py`) | waiting line, rows, prompts in passing, pages of each row, passes queued and not read; on the device each row's token, position, sampling key, page table, and the cache | `submit`, `cancel`, `load_weights`, `reset`, `step` (grow, chunk, place, bind, pass, decode, read) | the host runs one step ahead of what it has read; rows end late, are preempted, share pages; pages are kept before they are written | every token is drawn from its request's own text; no page is lost, shared wrongly, or read stale; requests keep their order and end |
| `serve._Pages` | free list, use counts, two indexes of kept pages, idle list | `take`, `share`, `give_back`, `cached`, `keep`, `forget` | any order of the six over many rows | the lists partition the pages, the indexes are inverse |
| `serve.Engine`, not paged | the same rows, no pages | `step` with grouped, packed and mixed passes, prompts shared in a pass | rows run past their end; a row refilled while an older step is queued | the same promise (`Batching`) |
| `serve.Server` (`server.py`) | inbox, active requests, `failed`; per handler an event queue and text sent so far | engine thread `_run`/`_take`; `generate`, `pieces`, `cancel` | two kinds of threads, failure of the engine, clients that leave, stop strings across pieces | every handler gets its tokens in order and an end or an error; no part of a stop string is sent; rows nobody reads are freed |
| `serve.Embedder` (`embeddings.py`) | inbox, `failed`, jobs of a pass | `embed`, batching thread, `stop` | inputs regrouped by length; a pass that raises; jobs behind the stop marker | every request gets its own vectors; what came before the stop is answered |
| collectives (`torch/collectives.py`, `torch/kernels.py`) | buffers and flags every process reads, a count for each block | the one-shot all-reduce, or NCCL | a process a whole call ahead of a peer; flags set before they are zeroed | each sum is of the parts of one call; no process waits for ever |
| package fetch (`package/fetch.cpp`) | bare clones and snapshots in a cache shared by processes, `linnet.lock` | resolve, clone, refresh, check out, write the lock | several processes; crashes; offline | what is reported is whole in the cache, a lock written whole is usable, one fails for another's sake over locks alone |
| checkpoints (`train/checkpoints.py`, `runs.py`, the loop of `train/__init__.py`) | directories with a marker, the batch iterator | train, save, prune, resume | several processes, crashes between files and marker | a whole checkpoint is always there; a batch is learned once |
| optimiser (`opt/egraph.cpp`, `opt/passes.cpp`) | a block of operations, an e-graph | canonicalize, cse, dce, saturate, in rounds | merges found while classes change; effects among pure terms; legality | no pass changes a result |
| language server (`lsp/server.cpp`) and loader (`module/loader.cpp`) | open documents, their analyses | open, change, close, requests | documents that import each other, unsaved text | diagnostics are those of the texts as they are |
| other compiler passes, backends, runtime, planners | none that outlives a call, or a cache of results | | | tested by comparison; outside these models |

How they interact: the server's engine thread is the only caller of the engine; handlers
reach it through the inbox and hear from it through `on_token`. The engine calls its device
backend in order and reads what a pass drew one step later. The processes of a sharded
model meet in the collectives only. The compiler's driver and the language server both call
the fetcher (the latter offline, without writing the lock), and share its cache.

## The modules

| Module | Models |
|---|---|
| `Lines` | sequences without repetition: `Without`, `Only` (`SelectSeq` by a function, for the proofs), the order of a line |
| `PagePool` | class `_Pages`: five variables, one action for each method (and each branch of `take`, `give_back`) |
| `PagedEngine` | `Engine` serving from pages over `_TorchBackend`, extends `PagePool` |
| `RowEngine` | `Engine` serving without pages, over `_TorchBackend` or a `_Grouped` backend |
| `Batching` | the abstract specification of both: a line, rows, tokens, verdicts, preemption |
| `ServeServer` | the server's engine thread and its handlers, composed over `Batching` |
| `Embedder` | the embedder's thread and those that wait for it |
| `Server` | a server in front of an engine or of an embedder: `ServeServer` or `Embedder` takes the steps |
| `OneShot` | the sums of a group's processes |
| `PackageFetch` | processes that resolve a project's dependencies in one cache |
| `TrainCheckpoint` | the training loop of several processes and its checkpoints |
| `IRBlock` | a block of the IR, the edits passes make to it, and what it computes |
| `EGraph` | `saturate` on a block, extends `IRBlock` |
| `Passes` | the pipeline of passes in rounds, extends `EGraph` |
| `MC...` | the instances TLC checks: prompts, budgets, calls, sources, blocks |
| `LinesProofs` | lemmas on lines |
| `PagedEngineProofs`, `PagedEngineTexts` | what each operation of the pool keeps, the inductive invariant of the paged engine and the theorems about it: pages, promise, order, bounds, positions; and the texts in the cache |
| `RowEngineProofs`, `OneShotProofs`, `PackageFetchProofs`, `TrainCheckpointProofs` | the inductive invariant and the theorems of each |
| `ServeServerProofs` | those of `ServeServer`, of `Embedder`, and of `Server`, which is one of them |

### PagedEngine

A call of `Engine.step` is a run of actions from `pc = "idle"` back to it, in the order of
`_step_paged`:

| `pc` | Code | Actions |
|---|---|---|
| `grow`, `growread` | `_grow`: a page for each row that steps into a new one; else read everything queued; else preempt the row admitted last | `GrowTake`, `GrowRead`, `GrowPreempt`, `GrowDone` |
| `chunk` | the prompts still passing take their next chunks | `ChunkFilling`, `ChunkDone` |
| `place`, `sharing` | `_place`: the request first in line, if its pages are there | `PlaceStart`, `ShareFound`, `TakeOwn`, `PlaceDone`, `PlaceStop` |
| `bind` | rows for those placed, shortest prompt first | `Bind`, `BindDone` |
| `mix`, `mixpass` | one pass for the chunks and the rows' step | `MixStep`, `PassPiece`, `MixPassEnd` |
| `pass`, `decode` | the chunks cut into passes, then the step | `PassPiece`, `PassEnd`, `PassesDone`, `DecodeStep`, `DecodeNone` |
| `read` | `_read_behind(ahead)` | `PopPass`, `SkipToken`, `ReadToken`, `ReadDone` |

A released row's pages go back one at a time (`giving`, `GiveBackPage`), before anything
else happens. `submit`, `cancel`, `load_weights` and `reset` come between steps, as one
thread calls the engine.

The device runs passes in the order they are queued, so a pass changes the cache and the
rows' tokens when it is queued; what it drew is read later. A cell of the cache holds the
tokens its key and value come from, or `Junk`: so a row that reads a stale, foreign or
unwritten cell draws from a text that is not its own, and `OwnText` sees it. A draw is any
token: the code makes it a function of the logits (the text), the row's sampling and the
position, and `OwnText` checks these three. A digest is the start it stands for.

Kept out: the numbers themselves, log-probabilities, statistics, `warmup`, execution plans
and CUDA graphs (they do not change what is queued), calls made from inside `on_token`,
collisions of the digests.

### RowEngine

The branches of `Engine.step` that serve without pages: requests are admitted to free rows,
prompts that are equal are grouped under one of them and copied to the rows of the others,
the rest is packed into passes (or grouped by length where the backend packs none), a pass
small enough may carry the rows' step, and the passes before the last are read. The host
steps all rows it knows to run; a row that has ended steps on into cells nobody reads. As
above, a cell holds the text it was computed from and what a pass drew is read later. The
backend's settings (`Packs`) are chosen at the start, so one run checks packed and grouped
passes. `reset`, `load_weights` and statistics are left out.

### ServeServer

The engine is an instance of `Batching`, the specification `PagedEngine` and `RowEngine` are
shown to implement; its variables belong to the engine thread, whose place in `_run` is `epc`:

| `epc` | Code | Actions |
|---|---|---|
| `run` | the loop's test of `_stopping` | `RunOn` |
| `take` | `_take`, until the inbox is empty | `TakeMessage`, `TakeDone` |
| `step` | `engine.step()`, in which rows are admitted, preempted, read; then `_active` is filtered | `StepAdmit`, `StepPreempt`, `StepEmit`, `StepDone`, `StepFails` |
| `tell`, `over` | the error goes to each request in `_active`, and the thread returns | `TellFailure`, `TellDone` |

A handler is at `hpc`: `new`, `submit` (one `put` for each choice), `open` (the head of a
stream is written), `read` (`pieces` waits for an event), `write` (a piece is yielded and
written), `close` (`GeneratorExit`: a `put` for each choice not ended), and then `answered`,
`error`, `closed` or `unopened` (a generator closed before it ran). Every read or write of
what threads share (the queues, `failed`, `_stopping`) is a step of its own. A client
that left shows when it is written to: any write of a stream may fail.

Text is a sequence of characters: `TextOf` gives a token's, `Stop` a handler's stop strings.
`written` is a choice's text so far, `sent` how much of it was sent, and `ReadToken` looks
for stop strings from where one may begin and holds back what may be a start of one, as
`pieces` does. Refused requests (a 400), log-probabilities and the embeddings route are
left out.

### Embedder

A client looks at `failed`, puts its job and waits. The thread takes a job, then all that
wait (a stop marker found behind jobs is put again), groups their inputs by padded length
in the order the lengths are first met, passes each group in cuts of `Batch`, and wakes the jobs; a pass may raise, and then these
jobs and all later ones get the error. A vector is named by the client and input it is of.

### Server

`Server(engine)` is given an `Engine` or an `Embedder` (server.py:100-109); `serve_forever`
starts the thread of the one, and only its routes are answered. `Server` chooses at first
(`serves`) and then takes the steps of `ServeServer` or those of `Embedder`, which have no name
in common (`EmbedderSpec`, `jobInbox`); the end of the serving is `Shutdown` in the one and
`StopThread` in the other.

### OneShot

A process zeroes its flags, waits at the barrier, and launches the calls in order. A block
stores its part, flags each peer, waits for each peer's flag and reads each peer's part, in
steps that interleave with those of all other blocks and processes. A slot is a sequence of
cells, a cell what a block of the narrowest dtype covers; a part is named by its call. A
call too large for the kernel is a barrier (NCCL's sum). Memory is sequentially consistent in
the model: the kernel's flags are released and acquired at system scope, and the
parts are only read between them.

### PackageFetch

A process reads the lock, walks the dependencies (depth first, each directory once),
resolves each source to a pin, a commit of the clone or of a refreshed clone, makes the
clone and the snapshot if they are not there, and writes the lock if the pins changed. Each
access to the disk shared with other processes is a step: existence tests, clone and
check-out in a staging directory, rename, and the lock's truncation and write. The remote
repositories get commits meanwhile, any git call over the network may fail, and a process
may be killed anywhere and run again. `mode` is who called: a build, an update (which
ignores the pins), an offline build, an editor (offline and without writing the lock). Git
itself is external: a clone has what the remote has. `fetch.cpp` takes no lock for a refresh,
and git locks the references it updates: `Refresh` receives and notes where the branch is,
`Update` moves the branch if it is still there, and of two processes that move it one may
fail (`locked`); so may the fetch of one commit (`Refetch`), as new tags come with it. Left
out are a lock file git leaves when the machine goes down, and a git process that outlives the
process that ran it. A staging directory left by a killed process is never used again and is
not represented. Every text of the lock that was not written whole is taken as unreadable;
one cut at the end of an entry would be read, with the pins it still has.

### TrainCheckpoint

Every process of a job loads the latest complete checkpoint, skips `start * accumulate`
batches, takes steps (all must have a batch, as gradients are summed), and writes its part of
a checkpoint; the first writes the marker last and prunes, directory by directory. A kill
stops all processes between any two files, and the next start asks for the same settings (a
larger `keep` after a kill in a removal, which would count a checkpoint half removed, is not
modelled). A
checkpoint's file remembers the start that wrote it, so that parts of two starts in one
directory are told apart.

### IRBlock, EGraph, Passes

A block is a sequence of operations of one result: constants, sums, differences, products,
negations, permutes, reads and writes of a state, calls of functions that use one. Numbers
are a sign and a magnitude, rounded to at most `Largest`, so that the zeros differ, as IEEE's
do; where reassociation is allowed nothing is rounded, so that what is compared is what the
legality promises. Integers are in two's complement and wrap around at the `Width` of their
type: `i` is of 64 bits (4 in the runs), `n` narrower. The type `g` is a dtype variable that a
floating dtype is given for when the module is run: its integer literals are integers to the
passes. `Executed` evaluates a block on an input. `EGraph` is `saturate`: collecting terms, rounds of matching and
merging, `rebuild` (find, re-canonicalise, join equal terms, until nothing changes), costs,
extraction and reordering. Union and find, the table of terms and its order are the code's.
`Passes` runs canonicalize, cse, dce, saturate, dce in rounds until none changes the block.
As in the code, literals of every integer type and of a dtype variable are folded with the
guard of 64 bits, and what is folded is not looked at again.

## What the runs check

| Run | Instance | Shows | Distinct states, until a counterexample where there is one |
|---|---|---|---|
| `paged_mix` | three requests, three rows, 5 usable pages and one of them in reserve, 8 positions a row, packs and chunks of 2, mixed passes | `TypeOK`; `OwnText`: tokens come from their request's text, sampling and position; `StepHasPage`: host and device agree on where a row is and it has that page; `PassFits`; `OneAhead`; `PagesSuffice`: a prompt is placed only if its pages are there; `ServedInOrder`; `EveryRequestEnds`; `ServesAsBatching` with `running <- seniority` | 209,537 |
| `paged_calls` | 2 rows, 5 usable pages, packs of 3, chunks of 1, a page in reserve, `cancel`, `load_weights`, `reset` at any time | `PoolConsistent`, `RefsCountHolders`, `HoldersAdmitted`, `KeptPagesHold`, `PoolWhole` | 1,380,204 |
| `rows` | three requests, two with one prompt, three rows of 5 positions, packed and grouped, mixed passes of 3, cancels | `OwnText`, `EveryRequestEnds`, `ServesAsBatching` | 320,760 |
| `serve` | one row; `h1` streams two choices, of 3 tokens and of 1, with two stop strings, `h2` is answered one whole; clients leave, the engine fails, the server is shut down | `TypeOK`; `Delivered`: each choice's own tokens, in order, and its reason; `SentStopsShort`; `RowsFreed`: nothing runs on unread; `NothingTakenBack`: text sent stays; `EveryHandlerEnds`; `FailureHeard`; and of three requests for embeddings of 3, 1 and 2 inputs of two lengths, passes of 2: `OwnVectors`, `StopDrains` | 281,147 |
| `serve_unheard` | the same, where only the engine may fail | a counterexample to `EveryRequestHears` | 79,166 |
| `one_shot` | 3 processes, 2 cells, five calls of 2, 1, 1, 3 (NCCL) and 2 blocks, flags that hold 0 or 9 at first | `Sums`, `EveryCallEnds` | 117,577 |
| `one_shot_dtypes` | 2 processes, a call of a wide dtype and one of a narrow | a counterexample to `Sums` | 75 |
| `fetch` | 2 processes of any of 4 modes, two packages that depend on each other until one drops the other, one a branch and one a commit, one push for each, a crash, with and without a lock at first | `ClosureWhole`; `LockUsable`; `OnlyLocksFail`: one fails for another's sake over `linnet.lock` and git's locks alone, and offline over the former alone; `EveryFetchEnds` | 1,198,586 |
| `train` | 2 processes with 9 and 11 batches, steps of 2, three settings, at most 6 steps and 3 crashes | `KeptAreWhole`, `EachBatchOnce`, `NeverBack`, `LastStepKept` | 43,505 |
| `passes` | over two thousand blocks under each legality, literals of 64 bits that overflow and narrower ones that do not | `Preserved`, `CongruenceClosed` | 237,522 |
| `passes_calls` | blocks with calls, exact rules only | a counterexample to `Preserved` | 19,137 |
| `passes_literals` | a block of three results of literals, exact rules only | a counterexample to `SomeResultKept` | 4 |

Why the bounds are enough. The prompts of `paged_mix` and `paged_calls` are of 2, 4 and 3
tokens over pages of 2 positions: one is a start of another, one has a page that is not
full. A row of 6 or 8 positions has 3 or 4 pages: one shared, one grown into, one more.
Passes of 2 or 3 tokens cut a prompt inside a page and between prompts. Five usable pages
are fewer than two requests need to their ends, so `take` finds free pages, then idle ones,
then none, and rows are preempted; three requests over two rows leave one waiting. In
`rows` a cancelled or ended request frees a row while its step is queued, and equal prompts
share a pass.

For the server, one row and three requests leave two in line, so that a failure or a cancel
finds requests in a row, in line, preempted, in the inbox and not yet put; two choices of one
handler share its queue. A token's text is two characters, which end one stop string and
begin the other, so that a stop string lies across two tokens and two may begin at once; the
other token ends a text. Three tokens leave one to be read after a stop string ended the
choice, while the other choice goes on.

Three processes are enough for one to be a call ahead of another while the third is behind
both; the block 1 that sits out two calls has a count of its own, and slots alternate in
both counts. Two fetchers of two packages race at each file; one crash leaves what one
process may leave. In `train` a third kill finds the job in a resume from a resume; the last
step of the first process takes one batch only. `passes` has all pairs of operations over two
vectors, a scalar and two constants, and the families of blocks the rules on nested terms,
effects, permutes and folding need; rounds and nodes of the saturation are bounded by the
constants of the code scaled down (`MaxRounds`, `MaxNodes`), and both bounds are reached.

Fairness. `Engine.run` and the server step the engine while it is busy, so both engines'
`Spec` has weak fairness of the steps, and of no call of a client: requests need not be
submitted, nor cancelled. In `ServeServer` each thread runs on (weak fairness); no client
need send or leave, nothing need fail. Within the engine, a request that can be admitted, or
has a row, again and again is admitted, or gets a token (strong fairness of `StepAdmit`,
`StepEmit`): preemption may take its row in between. `EveryRequestEnds`, checked of
`PagedEngine` with weak fairness of its steps alone, is what justifies this. The embedder's
thread and its clients run on, and nobody need call or stop. `Server` asks the same of the
threads of what it serves. In `OneShot` each process and
each block runs on: a grid has 64 blocks at most (`_MAX_BLOCKS`), which a device runs at once. Fetching processes run on between crashes, and so does a training job.

Deadlock is checked of the engines and the server, whose `Rest` is waiting for a call, and
whose `EmbedderRests` is an embedder that was stopped.
The other systems really stop, when all calls, fetches, steps or passes are done, and their
runs say so.

### The disagreements found

`_run` says that when the engine fails every request waiting on it gets the error
(`serve_unheard`). It tells those in `_active`. A request in the inbox, or one whose handler
tested `failed` before the failure and puts it there after, is told nothing, and its handler
waits for ever.

The all-reduce kernel says a peer finished reading the call before the last before it
flagged the last (`one_shot_dtypes`). It did, block by block. Offsets are in elements, so in
a call of a narrower dtype a block covers bytes another block covered, whose count it does
not share: it may overwrite a part that is still read. Calls of one dtype are safe, whatever
their sizes, which is what `one_shot` shows.

`passes.cpp` says calls of functions that keep state are ordered effects and never merged
(`passes_calls`). Saturation makes terms of them: two equal calls become one value.

`passes.hpp` says a pass changes no result. `passes_literals` has a block of three results of
literals, and after canonicalize and cse none of the three is the source's, with exact rules
alone. `SomeResultKept` looks at each result as if it were asked for by itself, so that one that
cannot be computed does not stand for the others.

The folding of integers says it never changes a result. It refuses to overflow 64 bits,
whatever the dtype: of two `i32` literals in range it makes a literal out of range, where the
program wraps around, and which PyTorch refuses when the block is run.

It also says that floating-point values are left alone, so that nothing is rounded. Integer
literals of a dtype variable are integers to it, also when the module is run with a floating
dtype: the sum it folds was never rounded as the program's is.

The negation of a zero literal becomes the literal -0.0, and common subexpressions are compared
by `==`, for which it is the literal 0.0: it is replaced, with exact rules alone. The blocks of
`passes` negate no zero literal, have no literals of a dtype variable and none whose fold leaves
a narrower type.

Followed by hand, and not by a run: of two rows that pass the same start at the same time the
first row's copy is kept only, and may be evicted before the page that follows it (a lost
cache hit); a stream whose client leaves before its first piece closes a generator that never
started, so its rows go on to their budgets; two builds without a lock overwrite each other's
pins.

## What is proved

Each theorem holds for every value of the constants its assumption allows, and for every
order of calls, steps, failures and crashes; the instances of the runs are one choice of
them. The assumptions are those the modules name, and TLC evaluates them on each run.

| Theorem | States | From |
|---|---|---|
| `EngineInvariant`, `DrawsStand` | `IInv`, then `ReadInv` and `PiecesApart`, of `PagedEngine` | `NPagesAssumption`, `EngineAssumption` |
| `PoolIsConsistent` | `[]PoolConsistent` | the same |
| `CountsAreHolders` | `[]RefsCountHolders` | the same |
| `OnlyAdmittedHold` | `[]HoldersAdmitted` | the same |
| `NoPageLost` | `[]PoolWhole` | the same |
| `PromiseKept` | `ServesAsBatching`: the paged engine implements `Batching` | the same |
| `OrderKept` | `[]ServedInOrder` | the same |
| `TokensInBounds` | `[]OneAhead`, with `AheadInv` | the same |
| `PassesFit` | `[]PassFits` | the same |
| `PlacementHasPages` | `[]PagesSuffice` | the same |
| `RowsHavePages` | `[]StepHasPage` | the same |
| `EngineTypes` | `[]TypeOK` of `PagedEngine` | the same |
| `TokensOfOwnText` | `[]OwnText` of `PagedEngine` | the same |
| `KeptPagesTrue` | `[]KeptPagesHold` | the same |
| `RowsInvariant` | `IInv` of `RowEngine` | `RowEngineAssumption` |
| `RowsReadOwnText` | `[]OwnText` of `RowEngine` | the same |
| `RowsPromiseKept` | `ServesAsBatching`: the engine without pages implements `Batching` | the same |
| `ServerInvariant` | `IInv` of `ServeServer` | `ServerAssumption` |
| `TypesHold` | `[]TypeOK` of `ServeServer` | the same |
| `NoRowLeftOn` | `[]RowsFreed` | the same |
| `SentStands` | `NothingTakenBack`, an action property | the same |
| `EachItsOwn` | `[]TokensInOrder` (`ServeServerProofs`), the part of `Delivered` that is about tokens | the same |
| `SentToStop` | `[]SentStopsShort` | the same |
| `TokensDelivered` | `[]Delivered` | the same |
| `VectorsOwn` | `[]OwnVectors` of `Embedder` | `EmbedderAssumption` |
| `ServerPromises` | the properties above of `ServeServer` and `Embedder`, of `ServerSpec`; those theorems ask for no fairness (`Steps`, `EmbedderSteps`), so that they carry over | both |
| `SumsOfOneDtype` | `[]Sums`, if all calls are of one width | `OneShotAssumption`, `CountsAssumption` |
| `FetchInvariant` | `IInv` of `PackageFetch` | `PackageFetchAssumption` |
| `OnlyOverLocks` | `[]OnlyLocksFail` | the same |
| `SuccessIsWhole` | `[]ClosureWhole` | the same |
| `WrittenLockIsUsable` | `[]LockUsable` | the same |
| `InvariantHolds` | `IInv` of `TrainCheckpoint` | `TrainCheckpointAssumption` |
| `KeptStayWhole` | `[]KeptAreWhole` | the same |
| `BatchesOnce` | `[]EachBatchOnce` | the same |
| `ResumesOnward` | `NeverBack`, an action property | the same |

None of these properties is inductive. What each needs beside itself:

**The pages.** `PoolConsistent` needs that a page about to be shared is kept, that a page
given back is used, and that the page kept under a new digest is nobody's sink;
`RefsCountHolders` needs that a request holds a page once and that a page in `giving` is
there once; that needs that `cached` finds distinct pages, hence that the indexes are
inverse. `HoldersAdmitted` needs that rows, `placed`, `seniority` and the line are disjoint
in the right way. `IInv` of `PagedEngineProofs` is the conjunction of `PoolOK` (types of the
pool, `PoolConsistent`), `RowTypes`, `PassTypes`, `DeviceTypes`, `Admission` (each request
admitted is in exactly one row or placed, once, and not waiting), `DrawsLive` (draws queued
are of requests that run, or have ended), `FillingHold` and `PiecesRun` (a prompt in passing
has the pages for it, and its chunks lie in it), `Placement` (the request being placed is
first in line, what it found is kept) and `PagesHeld` (who holds pages, counted).
`PagedEngineProofs` proves that each operation of the pool keeps `PoolOK` and says what it does
to counts and lists, and has one lemma for each action of the engine.

**The promise.** A step of the engine maps to a step of `Batching` (`StepServes`: `Submit`,
`Cancel`, `Reset`, `GrowPreempt` to `Preempt`, `PlaceDone` to `Admit`, `ReadToken` to `Emit`,
all else to a stutter). The hard one is `ReadToken`: `Batching` ends a request for want of
room by the count of its tokens, the code by `_positions`, a number the host keeps for each
row. They agree only if the draw of a prompt is read before any other draw of its request,
also where a preempted request was placed again with draws of its first stay unread, and where
one pass carries chunks and the step. `ReadInv` says where the draws not read stand
(`DrawsInPlace`), and that a row's last position is that of the tokens read unless its
prompt's draw is not read yet (`PositionsRead`); `PiecesApart` says that the chunks of a step
are of different requests. `OrderKept` rests on the same map: every step of `Batching` keeps
`seniority \o waiting` in the order of submission (`ServedNext`).

**The bounds.** `OneAhead` bounds what is queued by what is asked for. Between steps it
follows from how many passes a step leaves unread; but a preempted request may be placed, and
draw, while older passes wait, so `Trail` says which two passes not read may draw for the same
request: the last, a step's, and one before it that is read in this step, no others. `Budgets`
counts what is queued, what is being read and what a pass under way has drawn against
`max_new_tokens`, and the tokens of a request that goes on against `MaxSeq`. `PassFits` needs
that one prompt at most is partly passed when a step begins (`OnePartial`: whoever leaves a
part has used up `left`, and nobody is placed after), and that the pieces of a step sum to
what `left` spent (`RoomLeft`; the sum is stated by a function that bounds it piece by piece,
since a sum over a sequence would be an induction). `PagesSuffice` needs that each page shared
leaves as many to take as it was counted for: that an idle page of the start found stops being
idle, and none of the rest does (`SufficeInv`, `UnusedTail`).

**The positions.** The host counts the positions of a row (`written`) without reading the
device, where `devPos` moves for every row with pages, also one whose tokens are all drawn, or
that is being filled while the others step. So the counts may differ, and `Agree` says of which
rows they do not: those that still step, or will when what is drawn is read (`StepsOn`: the
tokens read and not read are short of `max_new_tokens`). That a row which steps on did so
before (`SteppedBefore`) is what makes it inductive: no token drawn for a request that runs is
lost (`NoneLost`), so a row that stopped stepping never steps again before it is freed. The
device's table of a row is its request's pages (`Tables`), which `grow`, `place` and the
release change together; from `grow` to the step no row decodes without the page of its
position (`PageReady`), where the rows bound or filled after `grow` have theirs by
`FillingHold`. `TypeOK` needs the positions (`Within`), and that a request takes no more pages
than its text needs, which by `Budgets` is within the row (`HeldFit`).

**The texts.** Pages are kept by their digests, and shared, before the passes that write them
are queued, so the invariant is about what a cell *will* hold: what the piece still to pass
that writes it will write there, or what it holds if none will (`Will`). `KeptWill` says this of
the kept pages and `Fillings` of the prompts in passing. It is kept because pieces that write
the same cell write the same text, because who shares a page still to be written has its own
piece after that (`InTurn`), and because no row writes what others may use: a kept or shared
page lies in the part of a prompt that was given to passes (`Private`), while a row that steps
writes at its last position or past it (`StepPast`), a row being filled that a mixed pass steps
too writes at the last position of the row (`Pieces`), and a row without pages on the sink
page. A row
whose prompt has passed has a text of which the host has read a start only. `Texts` names the
whole, and the texts after each pass not read (`Grows`: the tokens read, then each pass adds
the token it drew for the request, drawn from the text before); it says that the cells hold
the whole but for its last token, which the device has in hand where the row steps on
(`Stands`). Preemption and cancel release a row with passes unread: what is kept then is
by the tokens read, a start of the whole. `OwnText` is `Grows` for the pass being read, and `KeptPagesHold`
is `KeptWill` when no piece is left. Neither is inductive without the other: a prompt placed on
kept pages is right if they are, and pages kept at release are right if the row's text is.

**The rows.** Without pages a row is one request's from its prompt to its end, so the text a
row holds is its request's as long as two rows never pass one prompt's result to each other
by mistake. `Plan` is about the prompts of a step: the passes made of the leads have each of
them once, whether they are packed by size, cut in groups or passed with the step
(`PackedParts`, and `RemoveAt` of the smallest), and each place that shares a lead's prompt
is in one lead's list (`Sharing`); so each place gets its row and its draw once, and a prompt
copied to a row is that row's own. A pass of prompts and the step of the rows it carries queue
two passes at once, and the device steps the rows that receive a prompt too: parked on their
last cell (`PlaceOf`), or copied over afterwards, and what they draw is in no pass. `Texts` has the shape it has with pages: a request's
text grows by each pass not read (`Grows`), and its row holds that text (`Stands`). But the
host steps a row with no regard to whether it ended on the device, so a row may step past its
budget, or at the last position again and again: what is drawn then is of no text, and
`OnTrack` says from which texts the next token may still be of use. That none of the others is
read of a request that goes on is `Going`. For the promise, `RowLeft` counts rows against free
slots: who is admitted finds `Batching`'s bound on rows kept.

**The server.** A row is freed at the end because a cancel in the inbox is of a request that
was submitted, or whose submission comes before it there (`InTurn`), and because a handler
that closes still has to cancel, or has cancelled, each choice not freed (`Handlers`). A
handler is told of an end only after it has come (`Told`), so a choice ended by the engine
needs no cancel. `NothingTakenBack` needs that no stop string is in the text of a choice that
goes on, and that what is sent is short of the text by `Hold` (`Texts`): then a stop string
found in longer text does not begin before what was sent, which also shows that the search,
which begins `Hold` before the end of the text it saw last, overlooks none
(`FoundPastSent`). The tokens of a choice are those of its events in order, and the events
not read, those in the queue, follow (`InOrder`). `SaidInv` ties these to the text: the text of a choice
that goes on is that of the tokens read, a choice cut by a stop string has the text before the
first, one that ended otherwise has read the last of its tokens and its reason is the
engine's, and only the last token of a request is ever told as end-of-text. The text of a
line of tokens is a fold; that it grows by each token's text (`TextOfMore`) is shown for every line by the least
place where it would fail, so no induction theorem is needed. `SelectSeq`, which the code's filters become, is
recursive in the standard module, so the specifications use `Only` of `Lines`, the same by a
function.

**The embedder.** A job is in one place at a time: not put, in the inbox, with the thread or
done (`JobsApart`), so a job served is not one that was woken, and the vectors of a woken job
are not touched again. Each input of a job served has its vector or is among the places still
to pass (`Passing`): the places made of the jobs have every input (`PlacesOfJobs`, of which
the flattening is computed by `Flattened` of `LinesProofs`), and a pass leaves what it does
not take (`GroupAndRest`).

**The sums.** Processes move a call apart at most, block by block: a block's count is the
number of calls it began (`Counts`), a flag is never more than its peer's count nor two
behind the block's own (`Heard`), so that the two slots hold the parts of the last two calls
(`Stored`), and what was added is of the peers done with, of this call (`Added`). The theorem
has the hypothesis that all calls are of one width (`OneWidth`); without it the property is
false, as `one_shot_dtypes` shows. Counts and flags are of 32 bits in the code:
`CountsAssumption` says that no block makes more calls than one holds. A long-running server
may make 2^31 calls; the count then turns negative, the flags left are all larger, and no
block waits any more. That is outside of what is proved, and of the runs.

**The fetch.** Snapshots are made by a rename, so they are absent or whole and never
vanish, and a clone never loses commits: what one process found stays so whatever the others do. `Walks` says
that of a walk that has not failed every package found is still on the stack or has its
dependencies resolved or in hand, so at the end the pins are closed; and the lock is what
one process wrote of such pins, or torn. An offline process is only ever at the lock or in
the walk (`Offline`), so no lock of git's can fail it; the others fail where `Fail` says.

**The checkpoints.** What is kept is whole and holds the first batches of its steps
(`KeptAreTrue`); a process has learned exactly the batches of its step (`Learned`); the
barriers keep the processes in step and none trains while the first removes (`Phases`); a
checkpoint being written is later than every complete one (`Ahead`), so a removal never
touches it, and the newest that is complete only grows. A crash keeps the conjuncts that are
about files, and a start makes the others anew.

Only model-checked:

- `Preserved` of `Passes` and `CongruenceClosed` of `EGraph`: the optimiser's operators
  evaluate blocks and close classes under congruence, inductions over data;
- liveness (`EveryRequestEnds`, `EveryHandlerEnds`, `FailureHeard`, `StopDrains`,
  `EveryCallEnds`, `EveryFetchEnds`, `LastStepKept`), which is out of the prover's reach.

## Not modelled

Most of the source translates text or numbers: lexer, parser, checker, shape solver,
lowering, code generators, importers and exporters (`onnx`, `torch`, `jax`, `mlx`), weight
formats, kernels. Their state is a syntax tree or a tensor, their input is unbounded, and
they are tested by comparing outputs; a model of them would be their transliteration. Of the
components modelled in part, the notes in `PROJECT.json` name what is left out.

## Plan

The schedule of pipeline stages and the sum of tied gradients (`torch/pipeline.py`), and the
remaining rules of the e-graph.
