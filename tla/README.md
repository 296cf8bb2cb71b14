# bernardx: a verification project for the Lua runtime

bernardx embeds Lua 5.4 in a C++ program and lets scripts use asynchronous
operations (timers, HTTP, WebSocket, files, processes, module loading) as if
they were blocking calls.  This directory holds TLA+ models of its scheduler
and of the libraries whose calls wait, TLC configurations that check them on
small instances, and TLAPS proofs of what holds for every instance.  Paths below
are relative to the repository.

The development has three parts that can be read on their own:

* the **runtime**: pool, timers, scheduler (`LuaRuntime`), against what it owes a
  host (`TaskContract`);
* the **libraries**: files, processes, HTTP, WebSocket, await and require
  (`Libraries`), against what each owes the script that waits (`CallContract`);
* the **conversions**: URLs, proxies and the values of a module (`Arguments`),
  and with JSON (`Conversions`), against reference definitions.

## 1. The system

### Components, their state and operations

| component | files | state | operations |
|---|---|---|---|
| Coroutine scheduler | `src/lua/lua_runtime.{cc,h}` | atomic flags `shutting_down_`, `interrupted_`, `paused_`; `pending_` (handle -> parked coroutine) with its registry pin table; `completions_` (coroutine -> handler); `unhandled_error_` | `RunScript`/`RunFile`/`CallFunction`/`CallLuaFunction` (PushTask), `CallAsync`/`DoFileAsync`/`DoBufferAsync`/`CallWithCallback`, `CancelCall`, `PushResume(Direct)`, `PushRequireRun`, `PushLoadFileRun`, `PushRelease`, `Interrupt`, `ClearInterrupt`, `Pause`/`Resume`, `BeginShutdown`, `Shutdown`, `TakeUnhandledError`; scripts call `sleep`, `setTimeout`, `clearTimeout`, `require`, `loadfile`, `await` |
| Coroutine pool | `src/lua/coroutine_pool.{cc,h}` | `active_co_refs_`, `co_pool_` | `Acquire`, `Release`, `ReleaseAll`, `Shutdown` |
| Timers | `src/lua/timer_manager.{cc,h}` | `next_handle_`, `active_timers_`, lambdas scheduled on the executor | `NextHandle`, `AddSleepTimer`, `AddTimeoutTimer`, `CancelTimer`, `CancelAll` |
| Module loading | `lua_runtime.cc`, `code_provider.h`, `file_system_code_provider.h` | `package.loaded` | `require`, `loadfile` |
| await | `lua_runtime.cc` 303-441 | per call: a done table shared by resolve and reject, the handle | the call, its body as a task, resolve, reject, the body's error |
| Builder, extensions, libraries | `lua_runtime.cc` 520-608, 1326-1417, `library_state.h` | registered factories | `Create`, `Setup` with rollback, `Shutdown` |
| HTTP and WebSocket | `src/lua/http_library.cc` | per connection: client, `closed`, handlers; per connect a read pump | `http.request`; create, `ws:connect`, `send`, `close`, the pump, the collector |
| Async files, processes | `src/lua/async_io_library.cc` | per handle: `closed`, descriptors, `read_buffer`, `pid` | open, read, write, close; exec, shutdown, kill, close (which waits); the collector |
| JSON, file system, resources | `json_*.{h,cc}`, `fs_library.cc`, `resource_*` | none | synchronous conversions and calls |
| Program | `src/main.cc` | an io thread | runs one file |

### How they interact

One executor thread runs all Lua code and owns every map above.  Other threads
reach it in two ways only: they flip an atomic flag, or they put a job into the
executor's FIFO queue.  A script operation draws a handle, enters its coroutine
in `pending_` and in the pin table, starts the operation (a timer, or work on an
I/O thread) and yields.  The answer comes as a job that carries the handle;
`DoResume` looks the handle up and resumes whatever coroutine it finds.  A
coroutine that ends goes through `MaybeRecycleCo`: leftovers in `pending_` are
purged, its handler is told, and the thread returns to the pool, where the next
task gets it *under the same pointer*.  An interrupt sets a sticky flag, which
makes the gates refuse tasks and the count hook yield any running loop, and
then queues a completion pass that settles every handler, empties `pending_`, cancels
every timer and takes back every thread.

The libraries share one io thread (`main.cc` makes it), on which all of their
flows, pipe and file completions run.  `p:close()` calls a blocking `waitpid` on
it, and while it blocks no other file, request or WebSocket moves.  Each method
of a handle looks at `closed` on the executor, and each completion looks again on
the io thread; the answer goes through `PushResume` to the executor.  Handlers of
a WebSocket and the body of an await are tasks of their own, so the gate of
`PushTask` can refuse them.

### What is hard here

* Flags change between any two instructions and any two jobs; gates are read
  twice, on the caller's thread and when the job runs.  A thread that has read its
  gate, or raised its flag, has yet to schedule its job, and others go on meanwhile.
* Everything is keyed by bare pointers that are recycled, so a late completion,
  timer or handler can hit later work.
* A promise can be settled by the end of its coroutine, an interrupt, a cancel
  or the shutdown, and must be settled by exactly one; a dropped promise throws.
* Work that starts after the completion pass (cleanups) runs with the flag up.
* Script threads belong to Lua's collector and to the script, which may resume,
  close or drop them while the runtime has them parked.
* A sleep that fires while the runtime is paused is re-armed.
* A handle can be closed, collected or fail by itself while a call on it waits,
  and a connect can be overtaken by a close or by a second connect.
* A client has several owners on two threads, and some of its users are not
  among them.
* A child inherits the program's ends of every pipe that was open when it was
  forked, so another child can keep its stdin from ending.
* One coroutine's `require` can overlap another's of the same name.
* Process numbers are reused by the system: a `kill` of a number that was already
  reaped would hit a stranger.

`PROJECT.json` lists every hazard at its line with the properties that cover it.

### What makes each component correct

* Scheduler: `pending_` describes present yields only; every accepted task ends
  once; an interrupt ends all that runs and leaves nothing; no parked coroutine
  loses its wake-up; errors nobody waits for surface.
* Pool: a thread is free or checked out, never both, and clean when free.
* Timers: one release per callback reference; a cancelled timer does nothing.
* Libraries: a call that waits gets one answer; nothing is read twice or lost;
  signals and waits go to children of ours; a client outlives its users; the
  handlers hear of the end once.
* Modules: one body and one value for all who require a name, unless they overlap
  or the value is false.
* Conversions: a normalized URL means what was written and is accepted; a proxy is
  read as it was meant; what JSON can say survives the way there and back.

## 2. The modules

| module | what it is |
|---|---|
| `CoroutinePool` | the pool; each operation one action on `active_co_refs`, `co_pool` |
| `TimerManager` | the timers; an entry in `active_timers` plus a lambda in `scheduled` |
| `LuaRuntime` | the scheduler, composed with both; all properties |
| `TaskContract` | abstract specification: what a host may expect of its submissions |
| `MCLuaRuntime` | model values and symmetry for TLC |
| `Calls` | a call that waits, as a library sees it: slots, handles, the interrupt, the collector's condition |
| `AsyncIO` | files and processes: streams, pipes, children, `waitpid` |
| `Http` | requests and WebSockets: clients, pumps, handlers |
| `Bodies` | await and require: calls that wait for another coroutine |
| `Libraries` | the three together on one executor and one io thread; their properties |
| `CallContract` | abstract specification: what a script may expect of a call |
| `MCLibraries` | model values and the mixes for TLC |
| `Urls` | `normalize_url`, `parse_proxy` with its 64-bit port |
| `JsonValues` | Lua values to JSON values and back, both decoders, one level of nesting from the level below |
| `Arguments` | URLs, proxies and the values of a module, one call at a time, with their reference definitions |
| `Conversions`, `MCConversions` | `Arguments` and the two directions of JSON; the inputs |
| `LuaRuntimeProofs` | the operations of the pool and the timers; types, the pin table and the collector: theorems that hold for any script; who owns a thread: theorems for scripts that leave the threads of the pool alone |
| `ContractProofs` | the queue, the callbacks, the promises, and that the runtime implements `TaskContract` |
| `WakeProofs` | that nothing parked loses its wake-up, and that a completion pass takes all there is |
| `LibrariesProofs` | that the libraries implement `CallContract`; children, modules and WebSocket handlers |
| `HandleProofs` | the libraries' types, the bytes of their streams, the clients of their WebSockets |
| `ArgumentProofs` | module values, proxies and ports, for texts of every length |
| `UrlProofs` | what `normalize_url` promises, for texts of every length |
| `JsonProofs` | what encoding and decoding keep, for values of every depth; the theorems about `Arguments` carried over to `Conversions` |

### The conversions: values

A call of `Arguments` or `Conversions` is one step from `call` to `got`. A Lua
table is a function from all keys to values, `Nil` where it has none, and a JSON
object one from all names, `Absent` where it has none, so that tables with the
same entries are the same. `Lua`, `Json`, `LuaToJson` and `Push` are recursive
functions over the depth: `EncodingsOf` and `PushOf` say what the code does with
one value, given what it did with the values inside. `lua_next` visits keys in an
order of its own, and when two keys get the same name (1 and "1", or two that have
none) the last one visited wins: `EncodingsOf` is the set of all outcomes. When
two names of an object are cut to the same C string, the order of `std::map`
decides, which is `After`. `MaxInteger` stands for 2^63 - 1: documents have
integers up to twice that, and `Wrapped` is what `get<int64_t>` makes of them.

Between the value that `LuaToJson` builds and the document that a decoder sees is the
text. `AsText` is what `dump` makes of a built value (`Built`), level by level: a float
that is not `Finite` (inf, NaN) is written as `null`, and a string that is not in `Utf8`
makes `dump` throw (`Thrown`), which `json_encode` does not catch. Texts that have a
meaning are read back as documents (`Json`). Spelling itself is not modelled.

### The runtime: state

`shutting_down`, `interrupted`, `paused`, `pending`, `completions`,
`unhandled_error` are the members of the same name; `pinned` is the registry's
pin table.  `queue` is the executor's queue; `posting` holds the jobs of threads that
have passed their gate, or raised their flag, and have yet to call `schedule`;
`stack` are the coroutines inside
`lua_resume` now, the outermost first: `stack = <<>>` means that the executor is
between two jobs.  `run` says which C++ call resumed `stack[1]` and for whom,
which is the local state of ProcessTask, DoResume and their kin.  `status`
is `lua_status` plus what the collector did; `inflight` are operations other
threads work on; `promise` is each submission's future as the host sees it,
with the values `"broken"` (destroyed unsettled) and `"twice"` (settled again)
for what must not happen.  Two variables are history only: `waits_for` (the
handle a coroutine's present yield waits for) and `owner` (the work a pool
thread was checked out for).  No guard reads them.

### The runtime: actions

Jobs: `RunTask` (ProcessTask), `RunResume` (DoResume, PushResumeDirect),
`RunTimer` (the timer lambdas with `on_sleep` and `on_timeout`), `RunRequire`,
`RunLoadFile`, `InterruptPass`, `ClearInterrupt`.  A job that enters Lua leaves
a coroutine on the stack; then the script takes steps: `Park`, `ParkFails`,
`SetTimeout`, `ClearTimeout`, `ResumeByHand`, `CloseByHand`, `HookYield`, and
the ends `EndRecycled` (MaybeRecycleCo), `EndCall` (CallWithCallback,
AwaitCoroutine), `EndRequire` (ProcessRequireRun), `EndNested`.
What follows a yield in C++ (registering the handler) is part of the yield's action,
because no
other code can run on that thread in between.  `YieldPlain` is a script's own
`coroutine.yield`, after which nothing the runtime knows of resumes the coroutine.
Host threads take `PushTask`,
`CallAsync`, `CancelCall`, `Interrupt`, `AskClearInterrupt`, `PauseOrResume`,
`BeginShutdown`, `TakeUnhandledError`, `Destroy`; I/O threads take `Complete`
and `DelayEnds`; the collector takes `Collect`.

`PushTask`, `Interrupt` and `Complete` end where the code calls
`executor_->schedule`: the job goes to `posting`, and `Schedule` puts it into the
queue, any time later and in any order.  Between the two, other threads flip
flags, other jobs run, and what the gate saw may be no longer so; `GatedSince` is
the second look that the code takes when the job runs.

### The libraries: state and actions

A slot of `Calls` is one coroutine that makes one call after the other.  `call`
is the operation and its handle, `phase` how far it is (`"io"` handed over,
`"busy"` in a flow past its first await, `"waiting"` for another coroutine,
`"answered"` after `PushResume`, `"silent"` when the completion returned without
it), and `parked` the slots that have an entry in `pending_`: an interrupt takes
the entry and leaves the operation running, whose completion then finds nobody.
`Start` is PreYield to Yield in one step, `Deliver` is DoResume.  `life` and
`closed` belong to the handles; `Unused` is Lua's reachability: the stack of a
parked coroutine keeps the handle it waits for.

`AsyncIO` has a descriptor set per direction (`in_sd`, `out_sd`), the handle's
`read_buffer` and the call's own `buf`, how much the io thread has `taken`, and
the child: its state, what it printed, what waits in its stdin, and what it
inherited (`in_held`, `out_held`).  `delivered` and `lossy` are history.  Calls:
`Open`, `Exec`, `CloseFile`, `CloseProc`, `ShutdownStdin`, `Kill`, `Read`,
`Write`, `CollectStream`; the io thread: `Arrive`, `ReadEnds`, `WriteEnds`,
`Aborted`, `RunWait`, `WaitDone`; the child: `ChildWrites`, `ChildReads`,
`ChildEnds`.  `Http` has per connection its `client`, the number of connects, a
pump for each, the collector's `gc_frame`, and what the handlers were told
(`said`, history); `via` is the client in the frame of a flow.  `Bodies` has the
body's `task` and what `package.loaded` has (`cached`): nothing, `false`, the first
value that counts as true, or another that replaced one.  `custom_require` asks
`lua_toboolean`, so a module cached as `false` is loaded again by every later
require, and several values are not stored under the name.  `raced` is history.

### Abstractions of the runtime

* Values, source text, error texts and positions are left out; a chunk that
  does not load, a run that fails and a run that succeeds are distinguished.
* Delays: a timer may expire at any time after it was armed.
* `Call` stands for CallAsync, DoFileAsync, DoBufferAsync and CallWithCallback,
  which share their life cycle; `CancelCall` applies to those still parked.
  DoFileAsync's failure to load is not distinguished from a body that fails.
* `Held` are the script threads that a script may resume or close while they
  are parked; `YieldAcrossC` lets scripts park below a C function.  Both are
  constants so that each run says which scripts it is about.  `PlainYields` lets
  scripts call `coroutine.yield` where nothing of theirs resumes them, and
  `ClearsForeign` lets them pass any number to `clearTimeout`, also the handle of
  somebody's sleep, whose timer then goes; the code checks neither.
* `"two_hosts"` in `HostOps` says that several threads interrupt and clear without
  waiting for each other.  Without it, `ClearInterrupt` is asked for after
  `Interrupt` has returned, and `Interrupt` called after the clear has run.  One
  thread at a time is inside `Interrupt`, and one clear is queued at a time.
* What the executor's own thread schedules (a module's end that resumes the caller of
  `require`, a file that was compiled) is queued in the step that does it.
* `CancelCall` destroys the handler without calling it.  The promise is then
  `"cancelled"`: the host that cancels is the one that would wait.
* The destructor runs between two jobs.  Which thread drops the last reference is
  not modelled (section 6).
* Constants for the bounds: `PoolCo` (threads the pool can create), `MaxHandle`
  (handles drawn), the sets of submissions.

### Abstractions of the libraries

* A stream is a short sequence of bytes of which only `"lf"` is special.  A write
  is one unit; a pipe holds `PipeCap` of them.
* The runtime appears as far as libraries can tell: `interrupt` is `"raised"`
  until the completion pass, then `"passed"` until it is cleared.  That is a host
  that interrupts and clears from one thread; `LuaRuntime` has the others.  What a
  handler or a body does is any mix of the calls above.
* A stream is read by one coroutine at a time.  Two `read`s of one handle would
  race on `read_buffer` between two threads; the scripts modelled do not do this,
  and no property says anything about those that do.
* A child prints `Content`, reads its input to the end, and may stop at any time.
* Bounds: `MaxClient` connects per WebSocket, `PipeCap`, `ByteCount`, the handles,
  and `Mixes`: what the scripts of one behaviour use.

## 3. What the runs check

`CHECK_DEADLOCK FALSE` everywhere, because a runtime with nothing to do rests,
and a conversion ends with its result.

| run | instance | shows |
|---|---|---|
| `runtime_safety` | 2 pool threads, one task, one direct call, 2 handles, sleeps, operations, setTimeout, all host operations from several threads (2,048,000 states) | the invariants of bookkeeping, pool, promises and timers, no lost wake-up, what the pass leaves, that a completion ends its own yield, and that the runtime implements `TaskContract` |
| `runtime_scripts` | a script thread that is held, parks below C calls, yields by itself, clears any timer; interrupt and clear from one thread (978,000 states) | no dangling `pending_`, handlers stay with their work, the pool takes only its own, a pass comes before its flag is taken down |
| `runtime_liveness` | a task over sleep, require and loadfile with plain yields, interrupt and pause (21,500 states) | an interrupt settles what runs; every accepted task ends or was left suspended by its own code |
| `io_calls` (`MCLibraries`) | 2 coroutines, 8 mixes of a file, two children, a WebSocket, requests, await and a module (104,000 states) | the libraries together, on one io thread, implement `CallContract`; the six safety properties of section 3.2; two liveness properties |
| `values` (`MCConversions`) | every small input: URLs, proxies, Lua values, documents, lists of module values (56,700 states) | the conversions agree with their reference definitions |
| `client_outlives_read` (`MCLibraries`) | one WebSocket, one coroutine that connects | disagreement 7 of section 5 |
| `module_after_interrupt`, `yield_across_c`, `module_end`, `hook_after_pass`, `begin_shutdown`, `clear_before_pass` | the smallest instance that shows it | the disagreements of section 5 |

Why the bounds are enough to matter: two handles let one coroutine hold a stale
entry while parked in another operation, and let an old timer meet a new sleep;
two pool threads let a thread be recycled while another is parked; one task and
one direct call exercise the gated and the ungated entry, and both kinds of
handler.  Interrupt, clear and interrupt again all happen, since the flag can be
set as often as it is cleared.

Each mix of `io_calls` asks one question, and together they use every action.
One file with all kinds of reads, a write and an interrupt; one child's output
with all kinds of reads; one child with reads, writes, kill, eof, close,
interrupt and shutdown; two children, of which the later one inherits the
earlier one's pipes; a WebSocket with connect, send, close and interrupt; a
WebSocket and a file closed across the shutdown; a child whose wait blocks a
connect and a request; await, require and request with interrupt and shutdown.
Two coroutines are what a race over a handle needs (a call, and its closer); two
connects let a second client replace the first under a running pump; a pipe of
one unit blocks a writer at once; files of three bytes with one line feed have a
line, a rest without one, and a `read(2)` across the border.

The inputs of `values` are all texts of up to 4 or 5 of the characters that the
code tells apart, so every order of `/ ? # % :` and of `@ : / [ ]` occurs, and
texts with up to two characters before and after a `://`, so that a delimiter can
come first; ports at 0, 65535, 65536, 19 and 20 digits; modules that return up to
3 values. Tables have up to two keys of every kind (integers 0 to 3, strings with
digits, one with a byte 0, one that is not UTF-8, a finite float and one that is
not), two of which may get the same name or leave a hole between them, and values up
to a list of one element and a table with the name "1"; documents have
lists of up to two elements and objects of up to three names, with null, an
integer above `MaxInteger` = 3, and nested ones. `Depth` 2 is a table in a table;
what is deeper is a matter of `JsonProofs`.

### 3.1 Properties of the runtime

Invariants: `PendingIsCurrentYield` (for scripts that leave parked threads alone
and park where Lua can yield), `ParkedNotFreed`, `CompletionMatchesOwner`,
`ActiveTaskTracked`, `PromisesIntact`,
`FreeThreadsAreClean`, `CallbackRefsBalanced`, `ParkedHasWaker`,
`PassMeansInterrupted` (for a host that interrupts and clears from one thread).
Action properties: `PassLeavesNothing`, `ResumesOwnYield`.  Refinement:
`KeepsTaskContract`, with `result <- promise`, `stopped <- interrupted`,
`closed <- shutting_down` and `due <- PassesDue`, the passes that are queued or
about to be.

`TaskContract` says: a submission is refused only while the runtime refuses
work; a direct call never is; what was started ends once, by itself, by a
cancel (direct calls only), or together with everything else that runs.  Every
interrupt is carried out once, later: if hosts clear and submit meanwhile, it
ends what was accepted since, which is what the code does (disagreement 6 of
section 5).  A task that passed its gate before the flag went up and is taken
after it is refused all the same: that is the second look.

### 3.2 Properties of the libraries

`CallContract` has callers and things.  A call is made on an open thing and
returns once; if its thing is shut before, it may be stranded (never return); a
closing call shuts its thing and is never stranded; an interrupt or the shutdown
ends every call.  Calls that depend on other script code or on the gate (await,
require) are `Trusted` and may be stranded without that.  `KeepsCallContract`
maps `parked`, `phase` and `call` to that, and `closed` to the things that are
shut.  It would fail if any path of any library forgot its `PushResume`,
answered twice, or answered a call whose coroutine moved on.

`StreamIntact` (what reads answered, plus what is buffered, is exactly what was
taken from the stream), `PidsAreOurs` (signals and waits go to unreaped children
of ours), `ClientOutlivesUse` (a client in use is held by somebody, for
connections connected once and not collected; `ClientOutlivesRead` drops the
condition and is disagreement 7), `FarewellIsLast` (handlers hear of the end at
most once and nothing after it), `CacheStable` (a module cached as anything but
`false` changes only if two requires overlapped).

### 3.3 Properties of the conversions

`UrlMeansTheSame`: byte for byte a server reads what the script wrote, the
fragment is as it was unless the first `://` of the text is in it
(`SchemeInFragment`, section 5), and normalizing twice changes nothing.
`UrlIsAccepted`: path and query hold nothing the client refuses. `ProxyReadsBack`:
a proxy written as in the documentation is read as it was meant, whatever its
password contains. `PortInRange`: a port of up to 19 digits is taken exactly if it
is in 1..65535; from 20 digits on the 64-bit sum wraps, and 2^64 + 80 passes for
80. `ConversionsTypeOK`: what is encoded is JSON or makes `dump` throw, and what is
decoded is Lua, with no number out of 64 bits. `JsonRoundTrip`: a value of
contiguous lists, tables with string names, UTF-8 strings and finite numbers has a
text and comes back from it as it was, whatever the order of a table's entries and
with either decoder. `DecodersAgree`: both decoders make the
same of a document without a byte 0; if it has no null, no empty list and no
integer above 2^63 - 1 either, encoding gives the document again and nothing else.
`ModuleReturned`: a module of one value or none is run once and gives everybody
that value.

### 3.4 Liveness and fairness

`FairSpec` assumes that the executor takes jobs while there are any and that
the count hook reaches a running coroutine once a flag is up (`WF` on `RunJob`
and `HookYield`): the executor is a thread with a loop, and Lua calls the hook
every 2000 instructions.  `LiveSpec` adds that operations complete and delays
run out (`WF` on `Complete`, `DelayEnds`), which the I/O libraries' own timeouts
justify.  `ThreadFairness` (`WF` on each `Schedule`) says that a thread past its gate
goes on to call `schedule`: nothing in between can block it.  No fairness is assumed
of scripts: they may loop for ever.  `InterruptSettlesRunning` holds all the same, by
the hook.  `AcceptedTaskEnds` assumes that the executor is idle again and again
(scripts leave their Lua code) and that the host does not keep pausing, and it ends
where Lua code leaves a pool thread suspended in a plain `coroutine.yield`
(`LeftSuspended`): its promise then stays in `completions_` until an interrupt.

`FairSpec` of `Libraries` assumes `WF` of the executor's `Deliver`; of a request
and of a handshake, which end by their timeouts; of `RunWait` and `WaitDone`
(`waitpid` returns when the child ended); and of a child that has something to
print or read, or nothing left to do.  Nothing is assumed of scripts, of peers,
or of reads and writes, which have no timeout.  `CallsReturn`: a request or a
connect comes back to its coroutine, unless the io thread is stuck in a wait or
the connect was aborted by a close.  `WaitEnds`: `p:close` gives the io thread
back, unless a child that was forked later holds the pipe; without that
disjunct TLC finds the io thread blocked for ever (see section 5).

## 4. What is proved

`LuaRuntimeProofs` proves for all values of the constants that meet
`RuntimeAssumption` (the sets of threads and submissions are disjoint, the pool
is finite, the handle bound is a natural number):

* `TypeCorrect`: `Spec => []TypeOK`.  Per action, from lemmas that say what each
  helper returns.  The type of `Job` ties the argument to the kind of a job, so
  this includes that a resume job names a handle and a task job a submission.
* `NoDanglingPending`: `Spec => []ParkedNotFreed`.  Not inductive alone: an
  entry is made for the coroutine on top of the stack, which must not be one
  that was freed.  The strengthening is `TypeOK`, `PinsMatchPending`,
  `ParkedNotFreed` and `StackIsRunning` (every coroutine on the stack is running
  and is there once).  `PinsMatchPending`, that both maps hold the same entries,
  is a lemma (`PinsAlwaysMatch`): every path unpins what it erases.  The
  collector frees only what is unpinned, hence not pending.  Held threads and
  yields that fail are allowed, so this is the guarantee that survives arbitrary
  scripts.

Its second part adds conditions on scripts, which the runs can lift to show
what happens without them:

* `HandlersMatchOwners`: if `Held \subseteq ScriptCo` (scripts keep references to
  threads of their own only), `Spec => []CompletionMatchesOwner`.  When a
  coroutine that the engine started yields, its handler is registered under a
  bare pointer; that it is the right one depends on the whole discipline of the
  pool.  The strengthening `Discipline` says: the free list has no duplicates and
  nothing checked out (`PoolIsSound`); a pool thread runs or is parked exactly
  while it is checked out (`BusyIsCheckedOut`); what runs is on the stack and only
  its bottom can be a pool thread (`RunningIsOnStack`); and what the engine has
  just started is checked out, on behalf of `run`, without a handler yet
  (`RunOwnsThread`).  The proof has one lemma per kind of step (a thread is
  started, resumed, released, taken back, suspended, nested), and every action is
  an instance of one of them.
* `FreeThreadsStayClean`: if moreover `YieldAcrossC = FALSE`,
  `Spec => []FreeThreadsAreClean`.  This needs `CurrentUnlessHeld`: an entry of
  `pending` for a thread no script holds is that thread's present yield, so a
  thread that is idle or running has none.
* `PendingStaysCurrent` and `ResumesOnlyOwnYield`: if `Held = {}` and
  `YieldAcrossC = FALSE`, `PendingIsCurrentYield` is invariant and `ResumesOwnYield`
  holds of every step.  The runs `yield_across_c` and `module_end` show that the
  second condition cannot be dropped.

`ContractProofs` goes on from the discipline:

* `PassKeepsFlag`: if `"two_hosts" \notin HostOps`, `Spec => []PassMeansInterrupted`,
  for any script.  The strengthening `PassFirst` says that a pass or a clear is queued
  only while the flag is up, a clear only behind every pass, and none while a thread
  has raised the flag and not yet scheduled its pass.  The condition is what the
  code leaves to its hosts: `clear_before_pass` is the behaviour without it.
  `Shifted` is the lemma it rests on: no step but a few (`AddsJob`) adds a job whose
  order matters, and the executor takes the first, so every such job was there
  before, one place further back.
* `RefsReleasedOnce`: `Spec => []CallbackRefsBalanced`, for any script; with it
  that a handle not drawn yet has neither timer nor callback.
* `NoTaskIsForgotten`, `PromisesStayIntact`: if `Held \subseteq ScriptCo`,
  `Spec => []ActiveTaskTracked` and `Spec => []PromisesIntact`.  The invariant is a
  `Ledger`: an active promise is in one place, with the run that will settle it or
  with one coroutine, and what a run or a coroutine holds is active.  It is
  inductive only with `Discipline`: that a parking coroutine registers over
  nobody's handler (which would destroy a promise) is `RunOwnsThread`.
* `ImplementsTaskContract`: if `Held \subseteq ScriptCo`, `Spec => KeepsTaskContract`,
  with hosts that clear between another's flag and its pass.  Every action is a step of the
  contract or changes nothing it can see: `RunTask` is Start or Refuse because a
  task that is queued or posted has the submission `"queued"` (`TasksQueued`); the
  completion pass is InterruptEnds because `PassesDue`, a count of jobs in the queue
  and in `posting`, is one less after it and not zero before (`DueByJob`), and
  because the handlers it finds are exactly the active promises (`Ledger`).

`WakeProofs` is about wake-ups, for the same scripts:

* `OnlyLoadsAreLost`: if moreover `ClearsForeign = FALSE` (a `clearTimeout` of
  somebody's sleep takes its wake-up away), every parked coroutine has a job, a
  timer or an operation in flight that will resume it, or it waits for a module
  or a file.  The invariant is `Wakeful`: `Books` (the discipline, the ledger
  and the tasks in the queue, from the modules above), `KindInv` (an entry of
  `pending_` was made for one of the kinds of operations the instance has, under
  a handle drawn) and `WakeInv` (what is parked has a `Waker`, or is a load that
  an interrupt may have dropped).  A waker is passed on from step to step: the
  operation in flight becomes a job that its thread is about to schedule and
  then a queued one, the timer of a sleep a job and, under pause, a timer again,
  a require the run of its body and then that body's handler.  The proof has one
  lemma per such step.
* `NoWakeupIsLost`: `Spec => []ParkedHasWaker`, where moreover there are no loads or
  no interrupts.  The condition is not for the prover's sake: a load that completes
  while the flag is up is refused at a gate, which is the run
  `module_after_interrupt`.
* `PassTakesAll`: `Spec => PassLeavesNothing`.  The pass visits what is checked out,
  what is pending and what is armed; that this is all there is, is the discipline.

`LibrariesProofs` holds for all constants that meet `CallsAssumption`, so for any
number of coroutines, handles and connects and any mix of operations:

* `ImplementsContract`: `Spec => KeepsCallContract`.  `CallInv` says that a free slot
  has no call, that only a parked one is answered or silent, that an operation is
  about a handle of its kind, and that a handle in a call was made.  One lemma per
  kind of step (begin, advance, answer, strand, deliver, take all) shows `CallInv'`
  and the step of the contract, one per library that its actions are of these
  kinds.
* `PidsCorrect`: `Spec => []PidsAreOurs`.  `PidInv`: whoever awaits a child has
  closed its handle and is the only one, so the number is given away once.
* `CacheIsStable`: `Spec => CacheStable`.  `LoadInv`: a module that has a lasting
  value and is being loaded all the same, or whose lasting value was replaced, was
  raced for.  A module cached as `false` is outside: the code loads it again.
* `FarewellLast`: `Spec => []FarewellIsLast`.  What was told goes with `closed`: a
  farewell closes the connection, and closed connections tell nothing.

`HandleProofs` goes on from these, under `AsyncIOAssumption` (contents are finite,
and `read(n)` has n > 0: of other counts see `hazards`) and `MaxClientIsNat`:

* `LibrariesTypeCorrect`: `Spec => []LibrariesTypeOK`, from `Types`: the invariants of
  the calls and of the children (a type of `call` alone is not inductive) and the
  types of world, streams, connections and bodies.
* `ClientOutlives`: `Spec => []ClientOutlivesUse`.  `ClientInv`: a handshake has
  a client of its own whose pump has not begun (`DialInv`), a close frame belongs to a
  closed connection (`ByeInv`), and for connections connected at most once the pump
  and the close frame use the client that the connection holds (`OneClientInv`).
* `StreamsIntact`: `Spec => []StreamIntact`.  `StreamInv`: a stream has one reader
  (`OneReader`), bytes are in the handle's buffer or in the call's own, as its kind
  of read has it (`OneBuffer`), and what was answered and buffered is what was taken
  (`NothingLost`).  One lemma per way a read can go on or end.

`ArgumentProofs` and `UrlProofs` hold for texts of every length, under
`ArgumentsAssumption` (the inputs are texts, and the proxies are ones an author can
mean).  That a run ends with the operator's value is `Answers`; all the rest is about
operators, defined by recursive functions over positions:

* `ModuleIsReturned`: `ArgumentsSpec => []ModuleReturned`, by cases of what is stored.
* `PortsInRange`: `ArgumentsSpec => []PortInRange`.  `uint64_t` is four limbs;
  `Number` is their value, `ShiftIsTimesTen` says that a step of the loop is times
  ten plus a digit as long as nothing leaves the last limb, and 19 digits do not.
* `ProxiesReadBack`: `ArgumentsSpec => []ProxyReadsBack`.  The text is cut where the
  parser's searches find their characters, one lemma per search; `WrittenIsParsed`
  puts the parts together.
* `UrlsAccepted`: `ArgumentsSpec => []UrlIsAccepted`, and `UrlsMeanTheSame`:
  `ArgumentsSpec => []UrlMeansTheSame`.  A recursive function over a text is a walk,
  token by token (an escape or a character); `Downwards` is induction from its end,
  by the well-foundedness of `<`.  A text has a `Cut` into head, path, query and
  fragment (`CutExists`), normalizing encodes path and query of the cut
  (`NormalizedIsCut`) and leaves only legal bytes and escapes there (`Clean`), the
  parts of the result are found where they were, and no new `://` arises (`Keeps`).
  `Bytes`, what a server reads, of a concatenation is the concatenation of the bytes
  if no escape is broken by the border, which the delimiters guarantee (`Unbroken`).
  A clean text is its own encoding, hence `NormalizeTwice`.  The attempt to prove
  that the fragment stays verbatim failed for a text like `#:///%`; TLC agreed once
  the inputs had such texts, and the property now says where the claim ends.

`JsonProofs` holds for values and documents of every depth, under `JsonAssumption`
(strings are cut to strings, ordered by a number and printed as strings; the bounds
on keys and integers are in order) and `ConversionsAssumption` (the inputs are Lua
values and documents):

* A recursive function over `0..Depth` is, level by level, what its definition
  says: `LevelsExist` shows that there is such a function, for all of them at
  once (`Level` is one level of each), so the `CHOOSE` behind a recursive
  definition has something to choose; `LuaLevels`, `JsonLevels`, `EncodeLevels`,
  `TextLevels` and `PushLevels` are what all else uses.  `Upwards` is induction
  from the bottom, by the least counterexample.
* `ConversionsTyped`: `Spec => []ConversionsTypeOK`.  `EncodeTypes`, `TextTypes` and
  `PushTypes` go up by depth: a list's elements and an object's values are one level
  down, what a text says of a built value is a document or `Thrown`, and `Wrapped`
  stays within Lua's integers.
* `ValuesComeBack`: `Spec => []JsonRoundTrip`.  A plain value is encoded to something
  that a text can say (`PlainEncodes`, `Sayable`), whose text says just that
  (`TextKeeps`), and all encodings of it, pushed by either decoder, are that value
  (`PlainReturns`).  A list comes back because its last index is its length
  (`ListComesBack`); a table of names because names that show all of themselves
  differ (`ObjectComesBack`).
* `DecodersMakeTheSame`: `Spec => []DecodersAgree`.  `CleanAgrees` for the decoders,
  `LosslessRecovers` for encoding again: a list without null and not empty is
  list-like with the same length, an object is not list-like, and as no name was
  cut, every name has one value (`LosslessList`, `LosslessObject`).
* `ArgumentsHold`: the five theorems of `ArgumentProofs` and `UrlProofs`, whose
  lemmas speak of one answered call, for `Spec` of `Conversions`, which is what the
  run `values` checks.

TLC found all of these strengthenings of the runtime and of the libraries invariant
on the instances of the passing runs before they were proved (`CurrentUnlessHeld`
without the failing yields).

Every invariant and every action property that a passing run checks, and both
refinements, are stated by a theorem.  Only model-checked is liveness, which is outside
the prover's reach: `InterruptSettlesRunning`, `AcceptedTaskEnds`, `WaitEnds`,
`CallsReturn`.



## 5. Where code and documentation disagree

Each is a run that TLC must find violated; `PROJECT.json` quotes the lines.

1. `module_after_interrupt`: a module or file load that completes while the
   interrupt flag is up is dropped, so a cleanup that calls `require` hangs; the
   comment on `PushResume` explains why resumes are not gated that way.
2. `yield_across_c`: `sleep` registers before it yields; if the yield raises, a
   later sleep of the coroutine is cut short by the first one's timer.
3. `module_end`: a module body that ends without yielding is released without
   `CleanupStalePendings`, so what its failed yield left in `pending_` names a
   thread in the free list.  Every other way for a coroutine to end cleans up.
4. `hook_after_pass`: a cleanup that computes for more than 2000 instructions
   after the pass is yielded by the hook and never settled.
5. `begin_shutdown`: `BeginShutdown` right after `Interrupt` disables the pass
   whose work its comment relies on.
6. `clear_before_pass`: the comments on `ClearInterrupt` say that the executor orders
   it after the pass of any interrupt in flight.  `Interrupt` raises the flag before it
   schedules that pass, so the `ClearInterrupt` of another thread can come first; a
   task accepted after it is then ended by the late pass.
7. `client_outlives_read`: the collector's close-frame flow takes the client out of
   the connection and drops the last reference while the read pump is suspended in
   a read of it; the comment on `WsReadLoop` says that its frame keeps it alive.

Seen while modelling, part of the models (the properties say where they stop),
and not made a run of their own:

* A connect that finds its connection closed after the handshake returns without
  an answer (`ConnectAborted`), although the comments of `http_library.cc` at 445
  and 652 read as if the waiting coroutine were always resumed.
* `exec` sets no close-on-exec flag, so a child holds the pipes of all the others:
  `p:close()` of one can block the io thread until another one ends, while
  `docs/api/async.md:186` speaks of that process only.
* An `await` that is made after the completion pass, while the flag is still up, is
  refused at the gate and nobody is told: its coroutine waits until the next pass.
* The error of a `CallLuaFunction` callback goes into a promise that nobody holds
  (`lua_runtime.cc:693`): `MaybeRecycleCo` finds it as the coroutine's handler and
  records nothing, although `lua_runtime.h:142` says that errors nobody waits for are
  recorded for `TakeUnhandledError`.
* A task that calls `coroutine.yield` itself is left suspended with its promise in
  `completions_`; nothing resumes it, and only an interrupt, a cancel or the shutdown
  ends it.
* `clearTimeout` of the number of another coroutine's sleep cancels that sleep's timer,
  and the sleeper is never resumed.
* A module that returns `false` is run again by every `require`.
* A module that returns several values: each require runs it again, or, if the
  last but one is not a table, `lua_setfield` raises outside any protected call.
* `json.decode` cuts strings and names at a byte 0, the decoder for libraries does
  not.  Tables with positive integer keys and holes become arrays, filled with
  null, and so does `{[3] = 1}`; `json_lua.h:99-102` says that only tables whose keys
  are contiguous from 1 do.  `JsonRoundTrip` is about lists as that comment has them.
* `json.encode` writes inf and NaN as `null`, which comes back as nil, and lets the
  exception of `dump` for a string that is not UTF-8 pass through Lua's C frames
  (`json_library.cc:80`).
* An integer of a document above 2^63 - 1 is a `number_unsigned` to nlohmann and decodes
  to a negative integer (`Wrapped`), in both decoders.
* `json_lua.h:16-18` says that `PushJson` is what `json.decode` uses, which has a
  `push_json_value` of its own; `PushJson` is for the libraries, and reserves no Lua
  stack for nested values as the other does.
* `normalize_url` looks for the first `://` in all of the text, although
  `http_library.cc:163-174` promises that illegal bytes of path and query are encoded
  and that the fragment is passed through verbatim.  In a URL without a scheme whose
  fragment holds a `://`, what follows it is taken for path and query, and encoded
  (`#:///%` becomes `#:///%25`); with one in the query, as in `h/a b?u=http://x`, all
  before it is taken for scheme and authority and its blanks stay.
* A `Setup` that fails half-way calls `OnShutdown` of the libraries it opened, and
  the destructor calls it again.

## 6. Not modelled, and why

* `fs_library`, resources, `main`, the builder and extensions: synchronous calls,
  factories and callbacks of other programs, without state of their own.
* Which thread drops the last reference of the runtime, and an executor that is
  destroyed while completions are on their way: the code leaves both to its owner,
  and what happens then is a matter of C++ object lifetime below this model.
* Registry reference releases (`PushRelease`): they touch nothing the properties
  speak of.
* Several hosts that interrupt and clear at once, as the libraries see them: `Calls`
  has one host, and the pass that comes late is in `LuaRuntime` only.
* Of the libraries: Windows branches; two reads of one stream at once; headers and
  content types; how JSON and HTTP are spelled, which belongs to nlohmann and
  cinatra (what `dump` cannot spell is in the model).  In `map` these and what Lua and the system do (the collector, the
  child) are external.
* Of module loading: C modules and the search of paths.

## 7. What could come next

1. The runtime's lifetime, with the executor as a component of its own.
2. Two reads of one stream at once, with the races on `read_buffer`.
