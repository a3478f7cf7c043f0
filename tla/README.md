# Verification of professord

TLA+ models of `professord`, an HTTP daemon that serves one llama.cpp model to
OpenAI-style clients: an event-loop thread (mongoose) talks to the clients and a
single worker thread runs the inferences. The models are translated from the C
code in `src/src/`; line numbers in comments and in `PROJECT.json` are those files'.

## 1. Inventory

| Part | State | Operations | What is hard |
|---|---|---|---|
| Token ring and streaming (`worker.c`, `drain_stream_ring`) | ring slots, head, tail, done; wakeup batching; the client's stream | `ring_write`, `stream_token_cb`, batch drain, final chunk | two threads, batched wakeups, a blocking producer, disconnect and signal at any point |
| Job hand-over (`worker.c`, `server.c`) | `current_job`, the job's state/cancel/mgr/orphaned, each connection's `fn_data` | submit, busy check, pick, answer, close, cancel, stop | ownership passes between threads, some fields are read without the mutex, memory is reused |
| Inference (`inference.c`, `accum_token_cb`) | token counts, KV cache, stop window, response buffer, finish reason | render, tokenize, prompt batches, generation loop, callback, return | every library call may fail, cancellation, timeout, limits |
| HTTP server (`server.c`) | connections, `active_connections`, counters | accept, ACL, limit, checks and dispatch, error replies, close | order of accepts, rejections and closes; counters that must agree |
| Process lifecycle (`main.c`, `daemon.c`) | what main() has initialised, PID file, signal flag | startup steps, PID file protocol, cleanup | each step may fail, crashes, two instances at once |
| Configuration (`main.c`, `config.c`) | `config_t`, position in file and command line | flags, first `--config`, INI lines, options, validation | three passes over one command line, precedence, values cut to their fields |
| Requests (`api_types.c`, `submit_inference_job`, parameter resolution) | the request, its heap blocks, its parameters | parse, refuse, resolve, submit | every early return frees another set of blocks; numbers out of range, texts and arrays that do not fit |
| Logger (`logger.c`) | sinks | init, switch to syslog, log, destroy | what is said while stderr is already gone |
| Statistics (`stats.c`) | counters | counted by the event loop, totals in reports | must agree with what clients saw |
| `--recommend` (`recommend.c`) | none | from detected memory to a model and a context size | rounded budgets, shared memory |

The event loop calls `worker_submit` and reads `worker_is_busy`; the worker calls
`mg_wakeup`, which makes the event loop run `drain_stream_ring` for a connection.
They share the job, `worker_t` and `g_shutdown_requested`. The signal handler only
sets `g_shutdown_requested`. Correct means: a stream is the generated tokens in
order and ends; a job has one owner at a time and is answered once; an inference
stays within the context, its buffers and its time; connections and requests are
counted right; a configuration and a request mean what their author wrote; every
exit path cleans up. The hazards behind these are in
`PROJECT.json`.

## 2. Modules

| Module | Models | Checked by | Proved in |
|---|---|---|---|
| `TokenRing` | one streaming job, both threads | `MCTokenRing` | `TokenRing_proof` |
| `TokenStream` | the abstract stream `TokenRing` implements | as a property of `TokenRing` | `TokenRing_proof` |
| `JobProtocol` | allocation, hand-over, answer and release of jobs; shutdown | `MCJobProtocol` | `JobProtocol_proof` |
| `Generation` | one inference and its blocking answer | `MCGeneration` | `Generation_proof` |
| `JobService` | the abstract service `JobProtocol` implements | as a property of `JobProtocol` | `JobRefinement_proof` |
| `Server` | connection admission, request dispatch, replies, counters | `MCServer` | `Server_proof` |
| `Lifecycle` | main(), the PID file and the logger, for several processes | `MCLifecycle` | `Lifecycle_proof` |
| `Recommend` | `--recommend`, as operators | through `Config` | `Recommend_proof` |
| `Config` | main() up to step 5, `config.c` | through `Startup` | `Startup_proof` |
| `Request` | one request from its body to the parameters of its inference | through `Startup` | `Startup_proof` |
| `Startup` | `Config`, then `Request` under the configuration it left | `MCStartup` | `Startup_proof` |

The modules cut the same program at different interfaces. `TokenRing` treats the
job's memory as always valid and the generation as "a token or the end";
`JobProtocol` only counts the tokens of the ring and asks who may free the job;
`Generation` runs one worker without the event loop's interleavings, with the
callbacks' outcome as `TokenRing` gives it (a token is refused only after cancel or
shutdown); `Server` sees the worker as busy or idle; `Startup` composes `Config` and
`Request` and ends where `JobProtocol` begins, and its outcome (a configuration or an
exit) is the first step of `Lifecycle`. A critical section of a mutex
is one step, and every unlocked access to data the other thread writes is a step
of its own. `Lifecycle` takes one system call per step.

Actions keep the code's names where there is one. Each mutant (`Mutant...`)
is a plausible bug of the definition that follows it and breaks the property
`PROJECT.json` pairs it with; a property with several parts has several.

* **TokenRing.** `Probe`, `RingBlock`/`WaitTimeout`/`RingRefuse`/`RingPut` and
  `Wake` are `stream_token_cb` with `ring_write`; `RingDone`, `SetState`,
  `FinalWake` the end of `worker_thread_func`; `Drain`, `CheckDone`, `LoadState`
  `drain_stream_ring`; `Close`, `CloseClearMgr` `MG_EV_CLOSE`. A token is its
  number and the length its slot keeps. Every `mg_wakeup` may be refused by a full
  pipe, which the code does not notice; `missed` says that the last one was. What
  depends on wakeups (`NoStall`, `BoundedLag`, `EventuallyEnded`) excepts that case
  and only that: refused wakeups that a delivered one follows do no harm.
* **JobProtocol.** `mem` maps addresses to jobs; `calloc` may return any free
  address. `dangling` holds the pointers whose job was freed and `fault` the first
  access through one; the access then proceeds on whatever the memory holds.
  Properties about jobs are stated up to the first fault, and which faults occur is
  itself checked. A wakeup may be refused by a full pipe (`missed`); the code ignores
  the result. `Service` maps the state to `JobService`: a job is pending from its
  acceptance to the worker's `Pick`, running until the inference returns.
* **Generation.** From the worker taking a job to its answer. `kv` is the number of
  cells of the cache in use, left arbitrary by the previous job. `llama_decode` may
  fail at any call and otherwise adds its batch, so `KvFits` is about what the code
  asks for. Each allocation and the step that may fail after it are actions of their
  own (`BuildChatml`/`CheckChatml`, `AllocMessages`/`SizeTemplate`/`ApplyTemplate`,
  `CountTokens`/`Tokenize`), so that `heap` shows what an early return has to free.
  `n_batch` is any integer, as `config_validate` lets it be: with one that is not
  positive `ChunkDecoded` adds nothing and `n_processed` stays or falls (`Idling`), down
  to the bound `BackMax` of the model. Texts are short sequences; `text`, `accepted`,
  `overrun` and `late` are history.
* **Server.** One step per handler call, since mongoose calls them from one thread
  and delivers no request before the previous one is answered. `Submit`, `Answer` and
  `EndStream` are one inference request; `served`, `replies`, `refused`, `dropped` are
  history that counts what clients saw.
* **Lifecycle.** `todo` is the list of cleanup statements before a `return` of
  main(). `file` is what the PID path names: its creator and its content, empty
  between `open` and `write`. A write goes to the file the process created, even if
  the path no longer names it. `ioerr` marks an unusual failure (unwritable
  directory, failed write, recycled PID). `sinks` is where the logger writes, `console`
  whose stderr is still connected, `unheard` who said something nobody can read.
  The two forks of `daemon_daemonize` are steps; an instance is the process that goes
  on, with its copy of the flag, and `parent` says whether a process it forked from is
  still on its way to `_exit`. A signal to such a process (`StraySignal`) sets a flag
  nobody reads, which is the one case `SignalEnds` excepts.
* **Config.** One action per flag, line or option. Words are opaque; the constants
  `strtol`, `strtof`, `snprintf`, `Addresses` and `Colon` say what libc makes of one.
  `Precedence` and `AclAccumulates` compare the result of the passes with a definition
  of what a command line means that reads nothing from left to right (`OptionAt`).
* **Request.** A body is what cJSON delivers, `Absent` for a member that is missing or
  of the wrong type. Each allocation, message and early return is a step, the `calloc`
  of job and connection data included, either of which may fail; `heap` holds the
  blocks. A client that leaves (`Close`) makes its job an orphan; the worker frees it
  (`FreeOrphan`) unless it had looked before (`"lost"`). A conversion out of the range of `int32_t` is undefined and gives either
  value compilers produce.
* **Recommend.** Sizes in tenths of a GB; the comparisons in doubles have the same
  outcome as these for every budget below 400 GB.

## 3. Runs that pass

| Run | Shows |
|---|---|
| `token_ring` | order, no stall, wakeup lag, final chunk, termination, release on cancel, refinement of `TokenStream`, with any wakeups refused |
| `job_blocking` | memory safety but for the unlocked busy check and the second read of `mgr`, answers and shutdown, for jobs without streaming, with a lost wakeup |
| `job_mixed` | ownership, safety of serving and closing, and the refinement of `JobService`, with both kinds of jobs and a lost wakeup |
| `generation` | context, stop sequences, limits, buffers on every early return, counts and reasons, termination (but for the prompt loop with `n_batch` <= 0) |
| `server` | connection count and limit, one reply per request, request and error accounting, with and without ACL and key |
| `startup` | precedence of settings, the access list, `--recommend`; which bodies are refused, their memory, the conversation, the stop sequences and the numbers that reach an inference |
| `lifecycle` | no report unheard; every exit releases its resources in order and its PID file, with two instances at once; the PID file after crashes; signals during startup, across both forks |

## 4. Runs that find a disagreement

Each checks what a document or comment says and TLC finds a behaviour of the code
that contradicts it; `PROJECT.json` quotes the sentence.

| Run | The code |
|---|---|
| `ring_truncation` | ends a stream on the final state with tokens still in the ring |
| `job_lost` | forgets a job accepted just before `current_job` is cleared |
| `job_use_after_free` | frees a streaming job the worker still uses |
| `lifecycle_takeover` | lets a second instance remove a running one's PID file |
| `server_acl_limit` | uncounts connections the ACL rejected, exceeding the limit |

Smaller differences between documents and code, seen while translating it, have no
run of their own. The models follow the code:

* `ARCHITECTURE.md:177` has a wakeup on every empty-to-non-empty transition, but
  `was_empty` is sampled before `ring_write`'s critical section (`BoundedLag` is what
  does hold); `ARCHITECTURE.md:124` has slow clients fill the ring, but the drain
  moves tokens to the send buffer whether or not the client reads.
* `README.md:17` has a per-token timeout, the loop reads the clock every 32 tokens
  (`StopsInTime`); `ARCHITECTURE.md:403` has 500 for a `llama_decode` failure, which
  inside the generation loop gives 200; `ARCHITECTURE.md:227` has "abort" for shutdown
  and disconnect only, a full response buffer gives it too; `ARCHITECTURE.md:478`
  limits rendered prompts, the fallback after a failed template does not check.
* `ARCHITECTURE.md:588` has the worker free every orphaned job, but it looks at
  `orphaned` once: a connection that closes after that look leaves a job nobody frees
  (`HeapSound` excepts it, and says that nothing else stays behind).
* `config_validate` accepts an `n_batch` of zero or less, with which the loop over the
  prompt ends only if `llama_decode` refuses such a batch (`EventuallyAnswered`).
* `README.md:55` has "CLI always overrides the INI file"; `--allow-ip` adds to the
  file's list (`AclAccumulates`), and of several `--config` the first is loaded while
  `config_file` ends up as the last (`Precedence`).
* `ARCHITECTURE.md:418` replaces NaN and infinity by the configured default, `clamp_f`
  gives the lower bound for infinity (`ParamsInRange`); configured sampling values
  are not clamped at all. `ARCHITECTURE.md:460` has prompts never silently truncated,
  the parsers cut each content at 64 KiB (`RequestUnderstood`
  says that they cut nothing else).
* A single string as `stop` is understood in chat requests only.
* The report's request total counts a finished stream twice (`stats.c:34`).
* `README.md:296` exempts only `/health` from the key, the code `/whatif` as well.

## 5. Bounds

* Ring: 4 slots, batches of 2, 6 tokens: the ring fills, wraps around and is drained
  in several passes, wakeups fall on and between batches. The proofs cover all sizes.
* Jobs: two connections and two addresses are the least that let one job be freed
  and its address reused while the other thread holds the pointer; two tokens give
  a wakeup before the last one.
* Generation: a context of 4 tokens, texts that are empty, fit and exceed a window of
  3, a clock read every second token, a buffer that grows twice; `n_batch` is -1, 0 or
  2, and `n_processed` may fall to -2 (`BackMax`), below which nothing new happens;
  requests ask for too few, too many or no `max_tokens`.
* Server: one connection more than the limit (two more for the violation), three
  requests of every kind, all four configurations. `CHECK_DEADLOCK FALSE`, because
  the server idles when clients stop coming (the bounds on connections and requests
  make that happen).
* Startup: command lines of up to three parts out of 13 (options with and without value,
  option-like values, repeated options, flags), two files with comments, repeated and
  unknown keys. `int32_t` is 16 bits wide (`Half` = 2^15 for 2^31), so that a written
  number wraps around; the access list holds 2 addresses, a conversation 2 messages,
  a text or stop sequence 2 characters, all of which inputs exceed. Request bodies
  differ from a plain one in one respect. Machines have 0.4 to 128 GB around the
  sizes where the advice changes.
* Wakeups: any of them may be refused in `TokenRing`; in `JobProtocol` one per behaviour
  (`MaxLost`), and the next one is then delivered.
* Lifecycle: two instances, in sequence (a crash anywhere, then a server) and at once.

## 6. Fairness

Weak fairness of the worker thread and of a handler that has started: threads are
scheduled. In `JobProtocol` the wakeup events and the end of `server_run`'s loop are
strongly fair, since every turn of the loop polls the wakeup pipe and tests the
flag whatever else it does. `TokenRing` adds that a connection is closed after a
signal (the manager is freed). In `Generation` nothing is assumed of the prompt loop
with an `n_batch` that is not positive: whether it ends is up to `llama_decode`. In
`Lifecycle` a started process keeps running.
Nothing is assumed of clients, crashes, signals or the clock.

## 7. Proofs

The theorems hold for every value of the constants. Each is proved the same way: an
inductive invariant `IInv` with `Init => IInv` and `IInv /\ [Next]_vars => IInv'`,
shown action by action and, within an action, part by part; the properties follow
from `IInv`. None of the properties is inductive by itself; what `IInv` adds is
the argument why the code is right, and TLC checked it before it was proved.

| Module | For every | Theorems (property) |
|---|---|---|
| `TokenRing_proof` | ring size of at least 2, wakeup batch smaller than the ring, drain batch, slot size, token lengths | `TypeCorrect`, `StreamInOrder` (`InOrder`), `NeverStalled` (`NoStall`), `LagBounded` (`BoundedLag`), `FinalChunkLast` (`FinalAfterGeneration`), `RingImplementsStream` (`ImplementsStream`), `CompleteWhenDone`, `WorkerWindsUp` |
| `JobProtocol_proof` | number of connections, job addresses, requests, tokens, lost wakeups | `TypeCorrect`, `JobsOwned` (`OwnedByConn`), `AccessesSafe` (`ServingIsSafe`), `BlockingSafe` (`BlockingJobsSafe`), `TakenIsAttended`, `QueueSafe`, `NoLostSignal` |
| `JobRefinement_proof` | the same | `ServiceImplemented` (`ImplementsService`) |
| `Generation_proof` | context, batch, window and buffer size, set of pieces and of stop sequences | `TypeCorrect`, `CacheFits` (`KvFits`), `StopDecided` (`StopExact`), `StopsNoticed` (`StopsInTime`), `NothingLeft` (`NothingLeaked`), `ResponseIsText` (`ResponseSound`), `ReasonsHold` (`ReasonSound`), `StepsAreBounded` |
| `Server_proof` | number of connections, limit, requests | `TypeCorrect`, `ConnectionsCounted` (`CountExact`), `AnsweredOnce` (`OneReplyEach`), `StatsAgree` (`StatsExact`) |
| `Lifecycle_proof` | number of instances | `TypeCorrect`, `CleanupComplete` (`CleanupSound`), `FileRemoved` (`NoFileLeftBehind`), `FileNames` (`FileNamesServer`), `NothingUnheard` (`ReportsHeard`), `FileKeptAlone`, `StepsAreBounded` |
| `Recommend_proof` | machine | `AdviceIsSound` |
| `Startup_proof` | command line, file, body, width of `int32_t`, size of the arrays | `TypeCorrect`, `SettingsPrecede` (`Precedence`), `ListAccumulates` (`AclAccumulates`), `AdviceGiven` (`AdviceSound`), `HeapBalanced` (`HeapSound`), `RequestRead` (`RequestUnderstood`), `ParamsBounded` (`ParamsInRange`) |

* **TokenRing.** `IInv` adds where the tokens are (each occupied slot, counted from
  `tail`, holds the token whose number follows those sent), that the tokens not
  covered by a pending wakeup or a running drain are at most those counted since the
  last wakeup unless that was refused, which is why the lag is bounded and a full ring
  implies a wakeup (the batch being smaller than the ring), and that `done` and the final state come only
  after the generation loop. Arithmetic on the wrapping index rests on lemmas about
  `Advance` and `Count`. The refinement maps each step to a step of `TokenStream` or a
  stutter. `CompleteWhenDone` adds what the event loop knows when it ends a response
  (`Ending`): having seen `ring.done` with an empty ring, it has everything. So the
  truncation `ring_truncation` shows has one cause, the state loaded after that look,
  and loses less than a batch once no wakeup is pending, if none was refused.
* **JobProtocol.** `IInv` has two halves. Whatever was accessed, pointers point to
  addresses and the worker's job has a connection. Until the first access through a
  dangling pointer, in addition: a job is claimed by its connection or orphaned, never
  both (`Owned`, `Claimed`); an orphan's connection is closed, so that no connection
  leaves two (`LastJob`); a new job is known to nobody but its handler; the worker's
  job is in the state of the worker's program counter, and `current_job` is that job
  or one that has not started (`Working`, `Waiting`). Since a finished job may be freed
  by the other thread as soon as its state says so, the worker's pointer may dangle
  from `store` on, and the invariant says where it may not. `BlockingSafe` adds that
  a wakeup is pending only for a finished job the worker is through with (`Woken`). Its
  hypothesis `Streams \subseteq {FALSE}` is about the clients: none asks for a stream.
  With streams the statement is false, and `job_use_after_free` shows the
  counterexample. With them, up to the first fault, two things do hold. A client whose
  job was taken is never forgotten (`TakenIsAttended`): its job is in the worker's
  hands, or its wakeup is pending, or the event loop is in its handler; the invariant
  is `Tended`, and a job runs only while the worker holds it. And an accepted job leaves
  the queue unserved at `worker.c:275` only (`QueueSafe`), which is the race that
  `job_lost` finds. `NoLostSignal` holds whatever was accessed: `Pick` tests and waits
  in one critical section, and everything that ends the wait signals.
* **JobRefinement.** JobService's state is read off connection by connection, and
  each action of the two threads is one of its five steps or changes none of the
  views, under the `IInv` above.
* **Generation.** `IInv` relates the counts of tokens, sampled, accepted and decoded,
  at each place of the loop (`Progress`), and to the cache (`Cache`); says which buffers
  exist where (`Memory`); that the response is the text but for the piece being handed
  over (`Prefix`); and that the window holds the end of the text (`Rolling`), from which
  `HitDecides` follows: no stop sequence is longer than the window, so the window
  contains one at its end if and only if the text does.
  `StepsAreBounded` counts the steps left to the answer (`Rank`: four for each token
  that may come, one for each token of the prompt, and the stages around them); turns
  of the prompt loop with an `n_batch` that is not positive are not counted.
* **Server.** The three counting properties are inductive together only: the counters
  change in pairs, and the pending requests in one equation are those of the other.
  The connections are finitely many, and cardinalities do the arithmetic.
* **Lifecycle.** `IInv` says, instance by instance, which resources are held at each
  place of main() and at each stage of each cleanup list, where an instance can own
  the port and the PID file, and where its logger is heard. Only `FileNames` needs to
  know that no instance overlaps another; its part of the invariant follows a stale
  file through refusal, removal and rewriting. `FileKeptAlone` names the three places
  that change the file of a running daemon when instances do overlap (TLC reaches each
  of them), and says that nothing else does; it needs that a process that is about to
  write its PID has not written it (`Unwritten`). `StepsAreBounded` orders the places of
  main() and counts the cleanup list.
* **Startup.** For the request, `IInv` lists the allocated blocks at every step, and
  says that the conversation read so far is the body's and that a refusal has its
  reason; what the parsers store is related to what was sent by `Kept`, text by text.
  For the configuration it says, of *every* set of positions at which options
  may stand, that the fields are what the words before the current one make them
  (`SoFar`); that there is such a set at all is proved from the well-foundedness of the
  natural numbers. The first `--config` the first pass finds need not be the first option
  parse_args meets: one that is another option's value is followed by an option,
  which names no file, so the server would not have started.
  `ListAccumulates` says of the access list at each word what `SoFar` says of the fields
  (`Access`): it holds what the words before it gather, as much as fits. It rests on
  lemmas that relate the sequence library's `FlattenSeq` to a list gathered one element
  at a time, and on the fact that cutting to the array's length after each element is
  cutting once.
* **Recommend.** The table of models is searched from the top for each budget; the
  rest is arithmetic.

Assumptions on the constants are named where the constants are declared, and TLC
evaluates them in the runs. Those that are about the environment: a file's path is
neither empty nor a word that is an option (`PathAssumption`); options are shorter
than the buffer of a path, 512 bytes (`OptionAssumption`); `strtol` gives an integer
(`WordsAssumption`); cJSON delivers members of the types the parsers ask it for and a
written `max_tokens` that is in range is converted to an `int32_t`
(`BodiesAssumption`); a configuration that was validated has `max_tokens` within
`n_ctx`, and no stop sequence exceeds the window (`ContextAssumption`,
`TextAssumption`; the parser's `STOP_LEN` sees to it); `MinResponse` fits the response
(`ResponseAssumption`).

Every invariant a run checks is proved. Only model-checked are the five
disagreements, which are counterexamples, and liveness, since fairness and ENABLED are
out of the prover's reach. For most of it the safety half is proved, that is, everything
but that threads keep running:

| Liveness | What is proved |
|---|---|
| `EventuallyAnswered` | at most 13 + 5 n_ctx steps to the answer, each nearer, for a positive `n_batch` (`Generation_proof`, `StepsAreBounded`) |
| `CancelReleasesWorker` | at most five worker steps after a disconnect or a signal (`WorkerWindsUp`); that one of them can be taken stays with TLC |
| `TakenIsAnswered` | until the answer somebody is on the job or a wakeup is pending or was refused (`TakenIsAttended`) |
| `SignalEnds` | at most 25 steps of main() after its start, but for the wait in the server's loop (`Lifecycle_proof`, `StepsAreBounded`) |
| `ShutdownCompletes` | the worker that is joined does not sleep (`NoLostSignal`) |
| `EventuallyEnded` | that a full ring has a wakeup on its way unless it was refused (`NeverStalled`) |

These statements are not properties of a run (the liveness properties are); TLC checked
each on the constants of the component's run before it was proved.

## 8. Not modelled

* Text: the JSON of responses (`*_to_json`, `generate_request_id`), log lines, the
  help, the printed recommendation. They format state and change none.
* `hw_detect`: it reads `/proc` and sysfs and guesses a bandwidth by product name,
  which only scales printed estimates. What it finds is an input of `Recommend`.
* Averages, latencies and the reporting interval of the statistics: clock readings.
* llama.cpp, mongoose, cJSON and systemd are environment. The watchdog of
  `professord.service` is between systemd and a message the program never sends;
  whether what llama.cpp opened survives the fork of a daemon depends on its backend;
  mongoose's send buffer and the size of a rendered prompt are not represented (see
  the hazards). `kill` failing with EPERM is left out.
* An empty `pid_file`, with which `daemon_write_pidfile` and `daemon_remove_pidfile` return
  at once: there is no file then, and nothing to say about one.
* `Server` has no 503 from `worker_submit` (`server.c:314`): the event loop is the only
  thread that submits and has found the worker idle in the same handler call, so the
  job is accepted unless `current_job` is read after it was freed (`job_use_after_free`).
  `Request` has the branch, for the blocks it frees.
* Error replies of `send_error` when even the error text cannot be allocated.
* The close event of the listening connection itself, at shutdown, changes a counter
  nobody reads any more.

## 9. Plan

What would extend the project:

1. The accesses to freed memory that remain when a client streams: `BlockingSafe` lists
   those of blocking jobs, for streams only `AccessesSafe` bounds them.
2. Mongoose's send buffer, for the hazard of a client that does not read, and the size
   of a rendered prompt, for the path that does not check it.
3. Changes of the source: the `map` of `PROJECT.json` says which definitions a changed
   line concerns.
