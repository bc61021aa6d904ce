# BitForge in TLA+

Specifications of BitForge, a C program that runs language models on a CPU:
a thread pool and SIMD kernels, a transformer with a sliding KV cache, an
OpenAI-compatible HTTP server, a REPL with an agent and a memory database.
TLC checks the modules on small instances; TLAPS proves the theorems for every
value of the constants.

Paths in this file are relative to the repository; C sources are under `src/`,
headers under `include/`.

## 1. The system

### 1.1 Components

| Component | State it keeps | Operations | Correct when |
|---|---|---|---|
| Thread pool `src/threading/thread_pool.c` | task, epoch, claim and join counters, shutdown flag, a mutex and two conditions | create, dispatch, worker loop, destroy | a dispatch returns when every row was done exactly once; no two workers share a slice; no wakeup is lost; create and destroy return |
| HTTP server `src/api/http_server.c`, `cancel.c`, `metrics.c` | listening socket, `running`, `generation_mutex`, one cancel slot, counters, a detached thread per connection | start, accept, chat, cancel, health and metrics, stop | one generation at a time; a cancel stops the generation it names and no other; stop always returns |
| Server mode `src/cli/main.c` | shutdown flag, everything that was loaded | start, signal handler, stop, cleanup | a signal ends the process; nothing is freed that is in use |
| Generation loop `src/transformer/generate.c` | position, budget, tokens so far | one forward pass per step | at most `max_tokens`, inside the cache, behind what was injected |
| KV cache `src/kv_cache/sliding_window.c`, `src/transformer/attention.c` | window, prompt length, keys and values, `current_pos` | init, map a position, store, attend | every position is stored in its own slot and found there |
| Agent loop `src/agent/agent_loop.c`, `output_inject.c` | its own position, the tag buffer | step, run a tool, inject its output | as the generation loop; the prompt stays visible |
| Agent tools `tool_interceptor.c`, `cmd_exec.c`, `user_approval.c` | tag buffer; a child process and its pipe | feed a piece; ask; fork, read, wait, kill | every tag is taken as it was said, once; a result belongs to its command; a call returns |
| Multimodal `src/multimodal/*` | none of its own | encode an image, feed prefix and patches | patches land where the next generation looks |
| Vector database `src/rag/vector_db.c`, `auto_save.c` | file, header, stdio buffer, records in memory | open, save, close | what was saved is loaded again, in the same place |
| Memory search `src/rag/memory_search.c`, `auto_retrieve.c` | none | rank memories, inject the best | injected memories are part of the context |
| Reasoning mode `src/reasoning/*` | state of the `<think>` filter | feed a piece, prepend an instruction | exactly the thoughts are hidden |
| Model loading `src/core/*`, `src/memory/*` | mapping, heap copies, weights with tags and flags, run state | open, map, place a tensor, allocate, free | every kernel reads a tensor in the format it was stored in; no weight outlives its memory; exits release what was acquired |
| Tokenizer, sampling, chat template | vocabulary; none | encode, decode, choose a token | merges by rank; a token from the kept set |
| Math kernels `src/math/*` | none | matrix products, norms, softmax, RoPE | numeric |
| Start-up helpers (`kv_strategy.c`, `calibration.c`, `hardware_profile.c`) | the calibration file | measure, choose sizes | sizes that fit the memory |
| REPL, CLI, web UI, conversion tools | terminal; browser | read a line, print | formatting |

### 1.2 How they interact

* `generate_with_callback()`, `run_agent_loop()`, images, memories and tool
  results all call `transformer_forward()`. It maps the position through the
  run state's sliding window, writes the KV cache and dispatches every matrix
  product on the thread pool. There is one run state per process, so its users
  have to take turns: in the server through `generation_mutex`, elsewhere by
  being one thread.
* The server calls the generation loop with a callback that writes a token to
  the socket and asks the cancel registry whether to stop. Another connection
  sets the request in that registry.
* `main()` owns everything; it stops the server and then frees the model.
* A loader leaves bare pointers, a tag per layer and projection and a few flags
  of the whole model; the kernels of `src/transformer/` go by those alone.
* The agent loop feeds each decoded piece to the tag buffer, and the reasoning
  mode to the thought filter; a complete `<exec>` tag becomes, with the user's
  consent, a child process.
* The REPL retrieves memories into the cache before each generation, saves
  memories to the vector database, and starts the agent, which runs commands
  and feeds their output into the same cache.

### 1.3 What is hard here

* *Wakeups outside the lock.* The pool changes both wait predicates
  (`spin_epoch`, `spin_remaining`) without its mutex and relies on a
  signal or broadcast under the mutex afterwards; `shutdown` is a plain bool
  that spinning workers read without it.
* *Detached threads.* Nobody joins a connection thread.
* *One slot for cancels.* A cancel races the end of its generation and the
  begin of the next.
* *Three ideas of a position.* `pos_offset` of a generation, `pos` of the agent
  and `current_pos` of the injections; and only the loops initialise the
  window.
* *A file, a header and a buffer.* A save writes a record at the end and a
  count at the start, through stdio, and may be killed or fail in between.
* *Tags cut by tokens.* Decoded text comes in pieces that end anywhere, and two
  scanners that never see the whole of it look for tags in it.
* *A child, a pipe and a clock.* The parent polls all three and leaves its loop
  on whichever comes first.
* *Formats by hearsay.* What a loader stores and what a kernel reads are
  decided a thousand lines apart, in part by flags that stand for all layers.
* *Twenty exits.* Each error path of `main()` spells out its own releases.

`PROJECT.json` lists each of these hazards at its line with the properties
that cover it.

## 2. Modules

| Module | What it is |
|---|---|
| `ForkJoin` | abstract specification of a pool: a task is done row by row, completely, before its dispatch ends |
| `Slices` | how `worker_entry()` cuts a task into slices |
| `ThreadPool`, `ThreadPoolProps` | the pool, one action per access to shared state; its properties, and the mapping onto `ForkJoin` |
| `Generations` | abstract specification of the server's model: requests generate one after the other, and one that is asked to stop does |
| `ApiServer`, `ApiServerProps` | main thread, listener, connection threads, generation mutex, cancel registry, metrics; its properties, and the mapping onto `Generations` |
| `KvWindow` | the position arithmetic of the sliding window |
| `KvSession`, `KvSessionProps` | everybody who writes the KV cache of one run state |
| `DurableList` | abstract specification of the database: a list of acknowledged saves, and what accidents may take from it |
| `VectorDb`, `VectorDbProps` | the memory database, its file and its stdio stream; its properties, and the mapping onto `DurableList` |
| `ModelWeights` | pure: what the loaders store of a tensor, the tags and flags they leave, what the kernels read |
| `Startup`, `StartupProps` | `main()` from the thread pool to the running engine and down every exit, over `ModelWeights` |
| `CommandRun` | `execute_command()`: parent, child, pipe, clock |
| `TextTags` | pure: the tag buffer and the thought filter |
| `DecodedText`, `DecodedTextProps` | the text of a run through `TextTags`, and its commands through `CommandRun` |
| `MC*` | instances for TLC |
| `SliceTheorems`, `ThreadPoolProofs`, `ApiServerProofs`, `KvSessionProofs`, `VectorDbProofs`, `StartupProofs`, `TextTagsProofs`, `DecodedTextProofs` | theorems and their proofs |

An operator whose name ends in `_Mut` is a mutated form of the definition that
follows it: a dropped guard, a missing reset, an off-by-one. No behaviour uses
it. Substituted for the original it breaks the property `PROJECT.json` pairs it
with, which shows that the property depends on that piece of code.

### 2.1 ThreadPool

`pc[w]` is where worker `w` stands in `worker_entry()`, `owner` where the
calling thread stands in create, dispatch or destroy. `hits` counts how often
each row was processed. The owner's dispatch is `WriteTask`, `ResetCounters`,
`BumpEpoch`, `Broadcast`, `RunOwnSlice` and the wait; a worker's round is the
wait, `Claim`, `Load`, `Run`, `Finish` and, for the last one, `SignalDone`. A
mutex is held across actions wherever a condition is awaited, so that every
interleaving of the unlocked writes with test and wait is there. A read of
`shutdown` outside the mutex may return the old value. Both wait modes are
modelled (`use_blocking_wait` follows from the number of cores), spurious
wakeups, and a `pthread_create()` that fails half-way. There is one dispatcher
at a time, and a pool is destroyed between dispatches: `generation_mutex` or
the single thread of the other modes guarantees it, so that nothing is said of
a pool that is freed while it works. `dispatch_epoch`, which nobody reads, is
left out.

### 2.2 ApiServer

A connection serves one request, so `c` stands for the connection, its thread,
its request and the id of its generation. `pc[c]` follows
`connection_thread_fn()`, `handle_connection()` and the handler of the route;
`gen` is the holder of `generation_mutex`, `reg` the cancel registry, `main`
and `listener` the two other threads. What a request says is chosen freely
when it is received. Parsing, bytes and texts are reduced to the status they
lead to; the upload of an image in a chat request is part of the time in which
the mutex is held.

`Generations` is what its clients rely on: at most one request is busy, each
generates once and within its budget, it stops as `cancelled` only after it was
asked to, and emits one more token at the most from then on. The mapping reads
the busy request off the registry, so every step of mutex, registry, callback
and shutdown is one of these or none.

### 2.3 KvSession

The program is sequential here; the model is about the *order* in which the
writers use the cache. A token is the number of the forward pass that fed it,
so a slot that holds the wrong token is visible. `Forward` is one layer of
`attention_forward()`: map, store, attend; the slots that the attention reads
are `ReadSlots`. A store to a slot that is outside the cache hits another slot
or none. `hist` is the token last fed at each position by anybody, and `by` who
fed it. `SeesWholeContext` says first that a pass finds `hist` at every
position, and then whose tokens those are: a generation finds from `pos_offset`
on its own, in order; the agent finds nothing of an earlier run, but a tool's
result where one was injected over its own tokens, the prompt included. `blind`
are the positions fed through a window that was never initialised. `kind` is
`main()`'s execution mode: one shot with an optional image, a REPL with
memories and agent, a server with images. The window is as large as `seq_len`
(`main.c:438,479`), so no loop outgrows it; `generate_with_reasoning()`, which
could, has no caller and is left out, and so are models with caches of their
own.

### 2.4 VectorDb

`body` is the file behind its header, in fields: an embedding, a length and a
text make a record, and a field that was cut counts as written since whatever
follows it is misplaced either way. `buf` and `hbuf` are what stdio holds
back. Each action is one call of stdio: `SeekEnd`, `AppendRecord`, `Rewind`,
`WriteHeader`; each may fail where the C library may (`Fault`), and the process
may be killed between any two (`Crash`). A kill loses what stdio holds back;
what reached the file stays, so a loss of power, which may undo that, is not
covered. A record that is not where a reader looks for it either fails the
open or decodes to `Junk`, whatever its bytes say. Two memories are similar
only when they are equal. `acked` lists the saves that returned 0, `safe` those
that returned before the first fault or kill.

`DurableList` is what a caller of the database may count on: `list` grows with
each acknowledged save, an open shows all of it as long as nothing happened,
and after one kill until something is saved again; whatever happens, `kept`
comes first in it. A kill is a step of the list, a failing write is `Mishap` or
comes with another step, and a save is refused only together with one. The
file, its header and the stream do not occur in it.

### 2.5 ModelWeights and Startup

A model file is a loader (`kind`: three GGUF architectures with experts or
attention of their own, the dense one, and the native format with and without
experts), the first layer with experts, and a type for every tensor. `Placed`
is the form a loader gives a projection: the type it ends up in, in the mapping
or on the heap, or none when the loader refuses the file; `Tag` and `SetFlags`
are what it leaves for the kernels. `Reads` is the format a kernel takes the
pointer for: `Dispatch` for the dense products, `MlaReads` for the MLA
attention, `RoutedReads` with its batched path for the experts. Sizes, names,
shapes and values are left out, and `by8` stands for a number of rows that
allows the interleaved copy.

`Startup` walks through `main()`. `res` says of each resource whether it is
held, freed, lost or, for a header whose reading failed at once, uninitialised;
`todo` is the list of releases of the exit that was taken, in the order of the
code. Any step may fail. `LoadLayer` is one turn of a loader's loop, which may
stop at each projection with the earlier ones stored; `Release` is one call of
a release function with what it clears. `bad` collects what was given to
`free()` and was no live heap block.

### 2.6 DecodedText, TextTags and CommandRun

Text is a sequence of symbols: brackets, slash, blank, names, anything else.
The interceptor's tags have a name of one symbol. The filter's tags are two
constants, any sequences of 2 to 15 symbols (`buffer[16]`) of which the first
is the bracket: a text may break off inside a name, and a bracket there is a
symbol like any other. A step generates a piece of the vocabulary; `AgentPiece`
appends it to the buffer, looks for tags as `ti_process_piece()` does (in the
order of its table, the first opening one, the first closing one behind it) and
cuts the buffer behind the tag; `ReasoningPiece` feeds the filter, one state
per symbol. A mismatch gives up what was held together with the symbol that did
not match, as `thought_filter.c:62` and `:100` do, so that symbol begins no
tag. What a reader is to see is therefore defined by `TagsOf`: the places where
a tag stands and no other tag was being begun (`InTag`). A taken `<exec>` tag
waits for the user, whose answer is free, and runs its command.

`CommandRun` has one action per way through the loop of `execute_command()`.
The child writes, closes its output and dies whenever it likes, or never; the
kernel closes a process's files before it can be waited for, so its output is
closed first. Output and time are counted in units, a read takes everything
there is up to the buffer's end, and time passes at least with each quiet poll.

## 3. Runs

| Run | Instance | Shows |
|---|---|---|
| `pool-safety` | 3 workers, both wait modes, spin limit 1, an epoch of 2 values, tasks of 1 to 5 rows; symmetric workers | complete joins, no straggler, distinct slices, no lost wakeup |
| `pool-liveness` | 2 workers, spin limit 2, tasks of 1 to 3 rows, fair | every dispatch and every destroy returns; the pool implements `ForkJoin` |
| `api-safety` | 3 connections, 2 tokens each, symmetric | the server implements `Generations`; the registry follows the mutex; cancels hit only their target |
| `api-liveness` | 2 connections, 1 token, fair | no thread starts after the stop, no request waits for a generation, stop returns |
| `kv-session` | 4 slots, 9 forward passes, injections of up to 3 tokens, `max_tokens` in {0, 1, 4} | stores inside the cache, the whole context is seen and is the run's own (the agent's with results over it), prompts of generations stay, budgets hold, injections stay; 6.6 million states |
| `vector-db` | 3 memories, 2 failing writes, 1 kill, symmetric memories | the database implements `DurableList`; the file mirrors the memory, a kill loses only its own save, the header follows its records |
| `model-load` | 2 layers, 6 loaders, uniform files and those that differ from one in a tensor or a group of experts | exactly the files of `Uniform` are read as stored; weights never outlive their memory; what each exit releases |
| `decoded-text` | texts of 5 pieces out of 13, two kinds of tag, the filter's tags with a name of two symbols, a buffer of 11 symbols, fair parent | tags are taken as said, once; the reader sees what is outside the thought that can be found; results belong to their command; a call returns |
| `api-shutdown-race` | 1 connection | **violation**: a generation runs while `main()` frees its model |
| `kv-injected` | as `kv-session` | **violation**: what is injected before the first generation is not seen by it |
| `vector-db-lost` | 3 memories, no fault, 1 kill | **violation**: a save that was acknowledged is not loaded again |
| `startup-free` | as `model-load` | **violation**: experts that lie in the mapping are given to `free()` |

### 3.1 Why the bounds are enough

* *Pool.* With three workers one can be last, one straggle and one already be
  back at the wait. Five rows over four threads give uneven slices, one row
  gives empty ones. A spin limit of 1 lets a thread sleep after one test and
  2 lets it test again. `EpochModulus` 2 makes the counter wrap at every
  second dispatch: the worst case for a comparison with an old value. In the
  code it is 2^32; the theorems hold for each modulus from 2 on.
* *Server.* Three connections are the fewest with a cancel, its target and a
  generation that follows; two tokens let a cancel arrive before, between and
  after the checks. A pool of connections that is reused would add nothing:
  a thread ends with its connection.
* *KV cache.* Four slots hold an injection, a prompt and a few tokens, and are
  also small enough to be filled by each of them alone. Nine passes fill the
  cache twice, so a second run meets what the first left. `MinFree` 2 makes the
  retrieval both happen and be refused. The bound is `MaxFeeds`.
* *Database.* Three memories are the fewest for an earlier record, a lost one
  and a later one. Two faults are needed for a failing header after a failing
  rewind. The theorems do not depend on these bounds.
* *Model files.* Two layers are the fewest in which one layer can contradict a
  flag taken from another; with `first` in 0 to 2 either, both or none has
  experts. The types varied are one of each class the code tells apart: kept
  raw, interleaved, sliced, dequantised, refused. One deviation breaks each
  conjunct of `Uniform`; the theorems hold for any mixture.
* *Text.* Five pieces hold two tags, one of them cut in two places, or one tag
  inside the other. A name of two symbols is the shortest that can be broken
  off in its middle: `<th<think>` and `</th</think>` are among the texts. The
  theorem is about all tags. The buffer of 11 symbols is filled by three of the
  longest, and a tag's text (`TagSize` 4) and a command's output (`OutSize` 4)
  can each be too long. Two polls reach the timeout after one that did not.

Deadlock is checked for the database, which can always be opened or closed. It
is not for the pool (a freed pool stops), the server (the process ends) and
the session (a one-shot run ends, and passes are bounded); nor for start-up and
text, whose runs end.

### 3.2 Fairness

* *Pool.* Strong fairness per thread (`Fairness` in `ThreadPool`): a thread
  that is runnable again and again does run, and one that keeps finding the
  mutex free gets it in the end. Neither a dispatch nor a destroy is promised,
  and no spurious wakeup.
* *Server.* Weak fairness for the main thread, the listener and each
  connection. Nothing is assumed of clients connecting, of signals, or of the
  model ever finishing a token: `NeverBlocked` and `StopReturns` have to hold
  beside a generation that hangs.
* *Command.* Weak fairness of the parent's loop. Nothing is assumed of the
  child: `CallReturns` has to hold for one that hangs silently, that never
  stops writing, or that closes its output and lives on.

### 3.3 Disagreements with the sources

Each is listed with its line under `findings` in `PROJECT.json`.

1. `main()` frees the model while a detached connection may be generating.
   `http_server.c:870-876` sees the danger and keeps the server's own
   resources; the model's are not kept (`api-shutdown-race`).
2. Memories and images that are injected before the first generation all go to
   slot 0, since the window is still zero: `auto_retrieve.h:8` says that the
   model sees them. After one generation in the same process it does
   (`kv-injected`).
3. A kill between a record and its header leaves an orphan in the file. The
   next save is appended behind it but counted in its place, so it is not
   loaded again (`vector-db-lost`).
4. `moe_weights_free()` frees the experts of a native file, which lie in the
   mapping; its comments at `moe_weights.c:127-129` and 135 keep that apart for
   the gate and the shared experts (`startup-free`).

Others were met while modelling. The models follow the code in each, and no run
is spent on them:

* A signal between the test of the flag and `pause()` is lost until the next
  one; the comment at `main.c:675-679` says otherwise.
* `handle_connection()` counts every chat and cancel request as 200, failures
  included.
* The agent counts positions from 0 and its tools inject at `current_pos`, from
  0 as well: with the first result the agent attends to a tool's token in place
  of its prompt's, which `sliding_window.h:12` calls pinned. `SeesWholeContext`
  states how far this goes: only results are found there, and only below
  `current_pos`.
* `generate.h:25` calls `max_tokens` the maximum, the loop's bound
  (`generate.c:136`) lets one token more through (`TokenBudget`).
* The chat prefix of an image is fed with no look at the size of the cache
  (`vision_pipeline.c:154-159`), which leaves the cache once a server's earlier
  images have used it up: the exception in `WritesInRange`.
* A file that mixes types may load and be misread without an error. `Uniform`
  in `ModelWeights` says which mixtures are safe, `MixturesAreMisread` that no
  other is: one Q4_K projection switches the MLA attention of all layers; the
  first layer with experts decides about the batched path of all; gate and up
  share a tag; a shared expert may meet stale activations; a native file's
  router and shared experts are packed and read as F32.
* Error exits of `main()` leave the header, the heap copies and, with
  `free(s)`, the family's caches behind, and free a header that was never
  initialised when `gguf_read_header()` fails at once (`ErrorExitReleases`
  states all of it).
* `execute_command()` leaves its loop on the end of output or a full buffer
  without waiting for the child, and reports exit code 0; since output ends
  before a child can be waited for, that is the usual case. The child stays a
  zombie. Output that arrives between a quiet poll and `waitpid()` is not read,
  and a child that exits between `waitpid()` and `kill()` is reported as timed
  out.
* The tag buffer is emptied by a complete tag only: after 8191 bytes of plain
  text the agent is deaf. With a complete tag, everything before it goes, an
  open tag of another kind included; a tag's `<think>` text, "not printed to
  user" at `agent_loop.c:220`, has been printed piece by piece except for the
  last one.
* The thought filter does not look back. A bracket that breaks off a tag begins
  none: behind `<<think>` and `<th<think>` the thought is printed, and behind
  `</th</think>` it goes on for ever, so that the answer is hidden.
  `ShownIsOutside` holds with "tag" read this way (`TagsOf`), for every text. A
  partial tag at the end of the text is never printed.

## 4. Proofs

TLAPS checks every leaf. The theorems are listed in `PROJECT.json`.

**Assumptions.** `WorkersAssumption`: the workers are a finite set, the owner
is not one of them. `NumberAssumption`: core counts, spin limit and task sizes
are positive, the epoch has two values or more. `ConnsAssumption`,
`TokensAssumption`: finitely many connections, a natural token limit.
`WindowAssumption`, `InputsAssumption`: a cache of at least one slot, the
lengths of inputs are naturals, `max_tokens` any integer. `JunkAssumption`,
`BoundsAssumption`: junk is no memory, the bounds are naturals.
`NumLayersAssumption`, `FilesAssumption`: at least one layer; the files are any
set of well-formed model files, those of `qwen3moe` with experts from layer 0
on, as its loader has it. `CommandAssumption`: exit codes are naturals, the
output buffer holds more than its terminator, the pipe something.
`TagsAssumption`, `SizesAssumption`: a tag's name is no bracket and no slash,
as in the table of `tool_interceptor.c`; the arrays a tag's text and a piece
are written to hold something. `ThinkAssumption`: the filter's tags begin with
the bracket, have a symbol more at least, and fit into its `buffer[16]`.
`BoundAssumption`: the number of pieces is bounded. `VocabularyAssumption`: no
piece is empty; a piece and an opening tag held back before it fit into
`output[256]` of `reasoning_generate.c:89`, the longest that would not being a
token of 250 bytes; and no tag is opened and closed by one piece behind another
`>` of the same piece. `ti_process_piece()` takes at most one tag per call, so
that such a piece would leave a complete tag behind; tokens are cut long before
that.

**SliceTheorems.** Slices of one task are disjoint, inside the task and cover
it, for all numbers of threads and rows: `start = id * total / threads` is
monotone in `id`, and the last end is `total`.

**ThreadPoolProofs.** `JoinIsComplete` is not inductive. `IInv` adds: who holds
the mutex where (`Locking`); that `remaining` is the number of workers that
have not yet finished the current epoch and `claimed` the number that have
claimed (`Counting`); which slices are claimed and by whom (`Claiming`); and
which rows are done, namely those of the slices behind (`Progressing`).
`DistinctClaims` is read off `Claiming`. The join is then
complete because a counter of 0 leaves only finished slices, and the slices
cover the task. The two wakeup lemmas rest on the broadcast or signal that
follows each unlocked write while its writer holds the mutex. `RefinesForkJoin`
proves the safety part of the refinement; its liveness part is checked.

**ApiServerProofs.** `IInv` ties the mutex, the registry and the history of
cancels together: a match sets `requested` for the registered generation, the
flag is cleared with it, and a generation that emits a token checks the flag
before it emits another. `RefinesGenerations` needs one invariant more, `Once`:
a connection enters the registry with nothing emitted, and leaves it only after
its generation has stopped. A start finds the model free since `gen` is its
own connection and the registry names nobody else than `gen`; the abstract
bound of one token after the request is `Matched`. `CancelIsPrompt`, the same
bound over the server's own variables, is proved beside it.

**KvSessionProofs.** First the window: `MapIdentity` (inside the window a
position is its own slot, even where the prompt leaves no ring), `MapInRange`
and `RingKeepsLastTurn` (two positions behind the prompt share a slot only a
whole turn apart), from division with remainder. Then `IInv`: every slot
outside `blind` holds the token last fed at its position (`Intact`), a running
generation's tokens lie in a row from `pos_offset` on (`Placed`), all that a
running agent has passed was fed by it or by a tool of its run (`AgentPlaced`),
the same of what the last pass found (`Found`), blind positions are the first
ones (`BlindFirst`), and a server whose cache is used up feeds nothing inside
it again (`NothingInside`). `BudgetKept` adds the relation of `emitted` to
`step` (`Counted`).

**VectorDbProofs.** `IInv` says for each point of a save what is in the file
and what in the stream (`Settled`), that the header in the file, the one in the
stream and the records in memory count up in that order (`Counted`), that
without faults every record in memory is in the file or on its way there, ahead
of its header (`Ahead`), that an undisturbed history keeps file and memory
equal (`Undisturbed`), and that records acknowledged before the first
disturbance are a prefix of the file for good (`Kept`) and of the memory
(`Loaded`). `AfterKill`, on top of it, is about the one kill of
`KillLosesNothing`: it leaves the count of the file at the acknowledged saves,
and until the next save is acknowledged only an open follows that finds all of
them in place. `RefinesDurableList` takes both together: `Undisturbed` and
`AfterKill` give what an open shows, `EarlierSurvive` (a theorem of its own,
`EarlierKept`) that `kept` comes first, and between two calls of a save the
list stands still.

**StartupProofs.** Two invariants. `ExitInv` is about the exits: before one,
what is held follows from the step (`Acquiring`); on one, everything held is
still on the list, no release comes twice, the experts come before the
pointers and those before the mapping and the copies (`Releasing`); `Blamed`
bounds what was freed wrongly, and `Referring` says when weights refer to
memory at all. `AlwaysBacked`, `CleanExit` and `ErrorExit` follow. `Contents`
is about the loaders: after each turn every projection of the layers behind is
filled as its loader places it, with its tag, and the flag of the MLA
attention is the disjunction over them; after the last one the flags are those
of `first`. `FormatsAgree` then goes through the kernels one by one, and
`MisreadOtherwise` through the conjuncts of `Uniform`: the negation of each
names a layer whose kernel reads another format.

**TextTagsProofs.** What `strstr()` finds, symbol by symbol (`FindsOpen`,
`FindsClose`), how the first tag of the table is taken (`TakenIs`), where a
delimiter of a tail or a head of a text stands in the text (`TailDelimiters`,
`HeadDelimiters`), and what each state of the filter does with a symbol
(`PassthroughIs`, `BufferingOpenIs`, ...). The operators here are folds over
texts, and what they compute for every text needs an induction. `Induction` is
stated for a *set* of naturals instead of a predicate: a set that holds 0 and,
with `n`, also `n + 1` is all of `Nat`, from the well-foundedness of the
naturals. `Filtered` is a recursive function, so one step of it is unfolded by
`FilteredIs`.

**DecodedTextProofs.** Of the commands, `IInv` is the type of a call,
`ResultIsTheChilds`, and `Running`: while the loop lasts the child has not been
waited for and the buffer has room, so each way out knows why it is taken.

`ScannersOK` is the type of the scanners. It needs the filter's own shape:
what is held back is a proper beginning of the tag it may become.

`ReadOK` says what the interceptor knows of a text it never sees whole. As long
as nothing was cut, the buffer is a tail of the text and holds no complete tag
between two pieces; every tag taken has a place in the text, behind the one
before it and ahead of that tail (`Read`). A tag that is found in the buffer
then lies behind all earlier ones, which is `TakenWasSaid`, for nested and
unbalanced tags as well. If the text is proper, these places are all of its
pairs: one that was passed over would lie in what a step threw away, hence
between the brackets of another, or still be complete in the buffer. That is
`TagsAsSaid`.

`FollowOK` says what the filter's state means of the whole text (`Follows`).
Before the tag: no opening tag is in the text, and what was printed with what
is held back makes up the text (`Before`). Within: the first one stands where
the printed text ends, and no closing tag follows it yet (`Within`). Behind:
both are found, and what follows them is printed too (`After`). "In the text"
is `TagsOf`, a recursion over positions: at most one tag is being begun at a
place (`OneBegun`, since a tag that is being begun at one place keeps every
later place from beginning one), and what is known of a text is not changed by
the symbol that follows (`InTagStays`, `TagsMore`). A text is `Clear` when
nothing is being begun at its end, `Holding` when its end is the beginning of a
tag, and has a `First` tag; `ClearGoes`, `HoldingGoes` and `FirstStays` take
these three one symbol further, for either tag. On them rests one lemma per
state (`PassGoes`, `OpenGoes`, `ThinkGoes`, `CloseGoes`, `OutputGoes`), and
`FilteredGoes` takes a piece, by induction over its symbols; that the output
never overflows on the way (`Load`) is where the length of a piece is needed.
`FollowsOutside` reads `ShownIsOutside` off it, for every text.

**Only model-checked.** Every invariant of every run is a theorem. What is not
is liveness (`DispatchReturns`, `DestroyReturns`, `NeverBlocked`,
`StopReturns`, `CallReturns` and the fairness of `ImplementsForkJoin`), which
is out of the reach of the provers here, and the four violations.

## 5. Not modelled

* Floating point: kernels, attention scores, MoE routing weights, embeddings,
  the image encoder. TLC has no such numbers and the properties do not need
  them; the choice of the next token is free.
* Caches of the MLA and Qwen3.5 models, with their own indices.
* The bytes of formats: GGUF, vocabularies, templates, JSON, responses. Of a
  model file only the types of its tensors are modelled, and native files with
  an MLA attention are not.
* Of the interceptor's tags, the letters of the name: it is one symbol, so a
  cut inside it is not seen. The interceptor searches its whole buffer anew
  with each piece, so it does not matter to it where the cut lies. Words of a
  command beyond the 63rd, which `build_argv_from_command()` drops; a piece
  longer than the filter's output buffer, which vocabularies do not have;
  interrupted system calls.
* The memory tags beyond being taken: they end in `auto_save_memory()`, which
  `VectorDb` models.
* Terminal, web UI, Python tools and generated code.
* Out-of-memory errors of the database, which leave its file alone.

## 6. Plan

In this order, most important first:

1. `Experts`: expert selection, hit tracking and the per-expert dispatch of
   `moe_router.c` and `moe_ffn.c` on top of `ForkJoin`.
2. `Algorithms`: pure functions as recursive operators, against definitions:
   BPE merges, top-k and top-p over integer weights, top-k of the memory
   search, base64 and number parsing. TLC only.
3. Compositions: `ApiServer` with `KvSession` (several requests, one cache) and
   with the pool's `ForkJoin` as the resource that `main()` frees; the agent of
   `DecodedText` with `KvSession` and `VectorDb`.
4. An abstract *context* (a function from positions to tokens) that `KvSession`
   implements after the first `sw_init()`, so that item 3 can compose the
   server with it instead of with the cache.
5. Theorems: the invariants of item 1; the refinements of items 3 and 4.
6. The calibration cache file of `calibration.c` under crashes, and the size of
   the KV cache that `kv_strategy.c` chooses.

Planned runs stay within a few million states: 4 experts and 2 threads for
`Experts`, and inputs of up to 6 elements for `Algorithms`.
