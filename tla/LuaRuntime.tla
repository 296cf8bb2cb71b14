----------------------------- MODULE LuaRuntime -----------------------------
(***************************************************************************)
(* The coroutine scheduler of lua_runtime.cc.                              *)
(*                                                                         *)
(* All Lua code runs on one executor thread, which takes jobs off a FIFO   *)
(* queue.  A job that enters Lua puts a coroutine on `stack`; while it is  *)
(* there the script takes steps (it calls sleep, setTimeout, an async      *)
(* operation, resumes a coroutine of its own, ...) and other threads take  *)
(* theirs: hosts submit tasks and flip the atomic flags, I/O threads       *)
(* deliver completions, delays run out.  State that only the executor      *)
(* thread touches changes in one step with the code that changes it; the   *)
(* flags and the queue can change between any two steps, also between the  *)
(* gate that another thread reads (or the flag it raises) and the job it   *)
(* then schedules: such a job waits in `posting`.                          *)
(*                                                                         *)
(* A coroutine that starts an async operation draws a handle, is entered   *)
(* in pending (and in the registry's pin table) under it and yields; the   *)
(* completion of the operation carries the handle and resumes whatever     *)
(* coroutine pending has there.                                            *)
(***************************************************************************)
EXTENDS CoroutinePool, TimerManager

CONSTANTS
  ScriptCo,      \* threads a script may create with coroutine.create
  Task,          \* submissions through PushTask with a promise (RunScript, ...)
  Callback,      \* submissions through CallLuaFunction: nobody waits for them
  Call,          \* CallAsync, DoFileAsync and CallWithCallback on the executor
  None,          \* no coroutine, no completion handler, nothing

  \* What the scripts and the host of a run may do.
  OpKinds,       \* async operations used: "op", "sleep", "require", "loadfile"
  TimeoutsUsed,  \* whether scripts call setTimeout
  ClearsForeign, \* whether they call clearTimeout with any number they like
  PlainYields,   \* whether they call coroutine.yield themselves
  Held,          \* threads a script keeps a reference to, to resume or close
  YieldAcrossC,  \* whether scripts park where Lua cannot yield, under pcall
  HostOps        \* of "interrupt", "two_hosts" (Interrupt and ClearInterrupt
                 \* are called by threads that do not wait for each other),
                 \* "pause", "begin_shutdown", "destroy", "cancel"

Co == PoolCo \cup ScriptCo
Pushed == Task \cup Callback          \* what goes through PushTask
Promise == Pushed \cup Call           \* everything whose outcome is a promise
Handler == Promise \cup Handle        \* a handle: the callback of a module body
AsyncKinds == {"op", "sleep", "require", "loadfile"}

ASSUME RuntimeAssumption ==
  /\ PoolCo \cap ScriptCo = {}
  /\ Task \cap Callback = {}
  /\ Pushed \cap Call = {}
  /\ Promise \cap Handle = {}
  /\ None \notin Co \cup Handler
  /\ OpKinds \subseteq AsyncKinds
  /\ Held \subseteq Co
  /\ TimeoutsUsed \in BOOLEAN
  /\ {ClearsForeign, PlainYields, YieldAcrossC} \subseteq BOOLEAN

VARIABLES
  shutting_down, interrupted, paused,   \* the atomic flags
  destroyed,       \* ~LuaRuntime has called Shutdown
  queue,           \* the executor's jobs
  posting,         \* jobs whose thread has read its gate, or raised its flag,
                   \* and has yet to call schedule
  stack,           \* the coroutines running now, the innermost last
  run,             \* what put stack[1] there, and for whom
  pending,         \* handle -> the coroutine parked under it
  pinned,          \* handle -> the coroutine in the registry's pin table
  completions,     \* coroutine -> who is told when it ends
  unhandled_error, \* whether an error is waiting for TakeUnhandledError
  op_kind,         \* handle -> which operation drew it
  inflight,        \* handles whose operation another thread has yet to complete
  status,          \* coroutine -> what lua_status and the GC know of it
  waits_for,       \* coroutine -> the handle its present yield waits for, or None
  owner,           \* pool thread -> on whose behalf it is checked out
  promise          \* promise -> its state, as the host sees it

flagVars == <<shutting_down, interrupted, paused>>
mapVars  == <<pending, pinned, completions>>
jobVars  == <<queue, posting>>
opVars   == <<op_kind, inflight>>
coVars   == <<status, waits_for, owner>>
vars == <<flagVars, destroyed, jobVars, stack, run, mapVars, unhandled_error,
          opVars, coVars, promise, poolVars, timerVars>>

Job == [kind : {"task"}, arg : Pushed]
         \cup [kind : {"resume", "timer", "require", "loadfile"}, arg : Handle]
         \cup [kind : {"pass", "clear"}, arg : {None}]
PassJob == [kind |-> "pass", arg |-> None]
Posted == {j \in Job : j.kind \notin {"timer", "clear"}}     \* what goes through posting
RunKinds == {"none", "task", "resume", "timeout", "call", "require"}
NoRun == [via |-> "none", by |-> None]
Outcome == {"ok", "error"}
Settled == Outcome \cup {"rejected", "interrupted", "shutdown"}
Gone == {"cancelled", "broken"}       \* given up by the host, or destroyed unsettled
PromiseState == Settled \cup Gone \cup {"new", "queued", "active", "twice"}

TypeOK ==
  /\ {shutting_down, interrupted, paused, destroyed, unhandled_error} \subseteq BOOLEAN
  /\ queue \in Seq(Job) /\ posting \subseteq Posted
  /\ stack \in Seq(Co)
  /\ run \in [via : RunKinds, by : Handler \cup {None}]
  /\ pending \in [Handle -> Co \cup {None}]
  /\ pinned \in [Handle -> Co \cup {None}]
  /\ completions \in [Co -> Handler \cup {None}]
  /\ op_kind \in [Handle -> AsyncKinds \cup {"none", "timeout"}]
  /\ inflight \subseteq Handle
  /\ status \in [Co -> {"idle", "running", "parked", "dead", "freed"}]
  /\ waits_for \in [Co -> Handle \cup {None}]
  /\ owner \in [Co -> Handler \cup {None}]
  /\ promise \in [Promise -> PromiseState]
  /\ PoolTypeOK /\ TimerTypeOK

Init ==
  /\ shutting_down = FALSE /\ interrupted = FALSE /\ paused = FALSE
  /\ destroyed = FALSE
  /\ queue = <<>> /\ posting = {} /\ stack = <<>> /\ run = NoRun
  /\ pending = [h \in Handle |-> None]
  /\ pinned = [h \in Handle |-> None]
  /\ completions = [co \in Co |-> None]
  /\ unhandled_error = FALSE
  /\ op_kind = [h \in Handle |-> "none"]
  /\ inflight = {}
  /\ status = [co \in Co |-> "idle"]
  /\ waits_for = [co \in Co |-> None]
  /\ owner = [co \in Co |-> None]
  /\ promise = [p \in Promise |-> "new"]
  /\ PoolInit /\ TimerInit

-----------------------------------------------------------------------------
(* Helpers *)

Idle == stack = <<>>
Top == Last(stack)
Gated == shutting_down \/ interrupted      \* PushTask and the module runs refuse

\* Mutant: the job runs whatever happened since its thread read the gate.
NeverLate == FALSE

\* The second look at the gate, when the executor takes the job.
GatedSince == Gated

Queued(kind, arg) == \E i \in DOMAIN queue : queue[i] = [kind |-> kind, arg |-> arg]

\* The executor takes a job of this kind only when no Lua code is running.
At(kind) == Idle /\ queue # <<>> /\ Head(queue).kind = kind

\* It is in the queue, or about to be.
Coming(kind, arg) == [kind |-> kind, arg |-> arg] \in posting \/ Queued(kind, arg)

Enqueued(q, kind, arg) == Append(q, [kind |-> kind, arg |-> arg])

\* PushResume: dropped once the runtime is shutting down.  q is the queue it
\* finds, after the executor has taken the job it is running.
PushResume(q, h) == IF shutting_down THEN q ELSE Enqueued(q, "resume", h)

\* setValue on a promise; p is the state of all of them before.
AfterSettle(state, outcome) == IF state \in Settled \cup Gone THEN "twice" ELSE outcome

Settle(p, handler, outcome) ==
  IF handler \notin Promise THEN p ELSE [p EXCEPT ![handler] = AfterSettle(@, outcome)]

\* Assigning over a completion handler destroys the promise it held.
Dropped(p, handler) ==
  IF handler \notin Promise THEN p ELSE [p EXCEPT ![handler] = "broken"]

\* Mutant: the handler stays behind when its coroutine ends.
ForgetNothing(co) == UNCHANGED completions

\* completions_.erase
Forget(co) == completions' = [completions EXCEPT ![co] = None]

\* Mutant: the end of a module body does not resume the caller of require.
TellPromisesOnly(p, q, handler, outcome) ==
  promise' = Settle(p, handler, outcome) /\ queue' = q

\* Tell a completion handler how its coroutine ended.  The handler of a module
\* body resumes the coroutine that called require.
Tell(p, q, handler, outcome) ==
  /\ promise' = Settle(p, handler, outcome)
  /\ queue' = IF handler \in Handle THEN PushResume(q, handler) ELSE q

\* lua_resume from the executor, on a thread nobody is running.
Enter(co, via, by) ==
  /\ stack' = <<co>>
  /\ run' = [via |-> via, by |-> by]
  /\ status' = [status EXCEPT ![co] = "running"]
  /\ waits_for' = [waits_for EXCEPT ![co] = None]

PendingOf(co) == {h \in Handle : pending[h] = co}

\* pending_.erase, for every handle of S
Erase(S) == pending' = [h \in Handle |-> IF h \in S THEN None ELSE pending[h]]

\* UnpinPendingCo, for every handle of S
Unpin(S) == pinned' = [h \in Handle |-> IF h \in S THEN None ELSE pinned[h]]

\* Mutant: leftover entries of a coroutine that ended are not purged.
KeepStalePendings(co) == UNCHANGED <<pending, pinned, timerVars>>

\* CleanupStalePendings: with each entry goes its sleep timer.
CleanupStalePendings(co) ==
  /\ CancelTimers(PendingOf(co))
  /\ Unpin(PendingOf(co))
  /\ Erase(PendingOf(co))

\* The same loop, written out once more in CancelCall.
DropPendings(co) ==
  /\ CancelTimers(PendingOf(co))
  /\ Unpin(PendingOf(co))
  /\ Erase(PendingOf(co))

\* ReleaseCoroutine, and what it makes of a thread that has ended: the pool
\* resets its own, a script's stays as it is.
ReleaseCoroutine(co) ==
  /\ Release(co)
  /\ status' = [status EXCEPT ![co] =
                   IF co \in active_co_refs \/ @ = "idle" THEN "idle" ELSE "dead"]
  /\ waits_for' = [waits_for EXCEPT ![co] = None]
  /\ owner' = [owner EXCEPT ![co] = None]

-----------------------------------------------------------------------------
(* Host threads *)

\* RunScript, RunFile, CallFunction and CallLuaFunction, up to the gate.
PushTask(t) ==
  /\ ~destroyed /\ promise[t] = "new"
  /\ \/ /\ Gated
        /\ promise' = [promise EXCEPT ![t] = "rejected"]
        /\ UNCHANGED posting
     \/ /\ ~Gated
        /\ promise' = [promise EXCEPT ![t] = "queued"]
        /\ posting' = posting \cup {[kind |-> "task", arg |-> t]}
  /\ UNCHANGED <<flagVars, destroyed, queue, stack, run, mapVars, unhandled_error,
                 opVars, coVars, poolVars, timerVars>>

\* executor_->schedule, at the end of PushTask, Interrupt, PushResume,
\* PushRequireRun and PushLoadFileRun on a thread of their own.
Schedule(j) ==
  /\ j \in posting
  /\ posting' = posting \ {j}
  /\ queue' = Append(queue, j)
  /\ UNCHANGED <<flagVars, destroyed, stack, run, mapVars, unhandled_error,
                 opVars, coVars, promise, poolVars, timerVars>>

\* CallAsync and its kin run the coroutine at once, on the executor thread,
\* whatever the flags say.
CallAsync(c) ==
  /\ ~destroyed /\ Idle /\ promise[c] = "new"
  /\ \E co \in PoolCo :
       /\ Acquire(co)
       /\ Enter(co, "call", c)
       /\ owner' = [owner EXCEPT ![co] = c]
  /\ promise' = [promise EXCEPT ![c] = "active"]
  /\ UNCHANGED <<flagVars, destroyed, jobVars, mapVars, unhandled_error, opVars, timerVars>>

\* CancelCall: the host gives up a call whose coroutine is parked.  Its handler
\* is destroyed without being called, so nobody is told anything.
CancelCall(co) ==
  /\ "cancel" \in HostOps /\ ~destroyed /\ Idle
  /\ completions[co] \in Call
  /\ promise' = [promise EXCEPT ![completions[co]] = "cancelled"]
  /\ completions' = [completions EXCEPT ![co] = None]
  /\ DropPendings(co)
  /\ ReleaseCoroutine(co)
  /\ UNCHANGED <<flagVars, destroyed, jobVars, stack, run, unhandled_error, opVars>>

\* Up to the exchange of the flag.  One thread at a time is between this and
\* the schedule of its pass; a host that waits for its ClearInterrupt does not
\* call Interrupt before that has run.
Interrupt ==
  /\ "interrupt" \in HostOps /\ ~destroyed
  /\ PassJob \notin posting
  /\ "two_hosts" \in HostOps \/ ~Queued("clear", None)
  /\ ~shutting_down /\ ~interrupted
  /\ interrupted' = TRUE
  /\ posting' = posting \cup {PassJob}
  /\ UNCHANGED <<shutting_down, paused, destroyed, queue, stack, run, mapVars,
                 unhandled_error, opVars, coVars, promise, poolVars, timerVars>>

\* Mutant: the host clears the flag itself instead of going through the executor.
ClearInterruptAtOnce ==
  /\ interrupted /\ ~destroyed
  /\ interrupted' = FALSE
  /\ UNCHANGED <<shutting_down, paused, destroyed, jobVars, stack, run, mapVars,
                 unhandled_error, opVars, coVars, promise, poolVars, timerVars>>

\* syncAwait(rt->ClearInterrupt(), rt->executor()).  Bounds: one such job at a
\* time, asked for while the flag is up; and by the thread that interrupts,
\* unless two hosts do this side by side.
AskClearInterrupt ==
  /\ interrupted /\ ~destroyed
  /\ ~Queued("clear", None)
  /\ "two_hosts" \in HostOps \/ PassJob \notin posting
  /\ queue' = Enqueued(queue, "clear", None)
  /\ UNCHANGED <<flagVars, destroyed, posting, stack, run, mapVars, unhandled_error,
                 opVars, coVars, promise, poolVars, timerVars>>

PauseOrResume ==
  /\ "pause" \in HostOps /\ ~destroyed
  /\ paused' = ~paused
  /\ UNCHANGED <<shutting_down, interrupted, destroyed, jobVars, stack, run, mapVars,
                 unhandled_error, opVars, coVars, promise, poolVars, timerVars>>

BeginShutdown ==
  /\ "begin_shutdown" \in HostOps /\ ~destroyed /\ ~shutting_down
  /\ shutting_down' = TRUE
  /\ UNCHANGED <<interrupted, paused, destroyed, jobVars, stack, run, mapVars,
                 unhandled_error, opVars, coVars, promise, poolVars, timerVars>>

TakeUnhandledError ==
  /\ ~destroyed /\ unhandled_error
  /\ unhandled_error' = FALSE
  /\ UNCHANGED <<flagVars, destroyed, jobVars, stack, run, mapVars, opVars, coVars,
                 promise, poolVars, timerVars>>

\* Everything a pass over completions_ settles: promises with the given
\* outcome, module callbacks by a resume of their caller (which the gate of
\* PushResume drops at shutdown).
SettleAll(q, outcome) ==
  LET handlers == {completions[co] : co \in Co} \ {None} IN
  /\ promise' = [p \in Promise |->
                   IF p \in handlers THEN AfterSettle(promise[p], outcome) ELSE promise[p]]
  /\ \E order \in SetToSeqs(handlers \cap Handle) :
       queue' = IF outcome = "shutdown" THEN q
                ELSE q \o [i \in DOMAIN order |-> [kind |-> "resume", arg |-> order[i]]]
  /\ completions' = [co \in Co |-> None]

\* Threads the pool takes back all at once.
ResetActive ==
  /\ status' = [co \in Co |-> IF co \in active_co_refs THEN "idle" ELSE status[co]]
  /\ waits_for' = [co \in Co |-> IF co \in active_co_refs THEN None ELSE waits_for[co]]
  /\ owner' = [co \in Co |-> IF co \in active_co_refs THEN None ELSE owner[co]]

\* Shutdown, from the destructor.  The last reference is assumed to be dropped
\* between two jobs: see the README on runtime lifetime.
Destroy ==
  /\ "destroy" \in HostOps /\ ~destroyed /\ Idle
  /\ posting = {}                  \* a thread inside a call holds a reference
  /\ destroyed' = TRUE
  /\ shutting_down' = TRUE
  /\ \/ /\ shutting_down
        /\ UNCHANGED <<queue, mapVars, coVars, promise, poolVars, timerVars>>
     \/ /\ ~shutting_down
        /\ SettleAll(queue, "shutdown")
        /\ Unpin(Handle) /\ Erase(Handle)
        /\ CancelTimers(Handle)
        /\ ShutdownPool
        /\ ResetActive
  /\ UNCHANGED <<interrupted, paused, posting, stack, run, unhandled_error, opVars>>

-----------------------------------------------------------------------------
(* Other threads: completions and delays *)

\* An async library or a code provider is done with h, and passes the gate or
\* is turned away.  A source that was found is to be run (PushRequireRun,
\* PushLoadFileRun: gated like a task); every other answer is a plain resume.
Complete(h) ==
  /\ h \in inflight
  /\ inflight' = inflight \ {h}
  /\ \/ /\ ~shutting_down
        /\ posting' = posting \cup {[kind |-> "resume", arg |-> h]}
     \/ /\ op_kind[h] \in {"require", "loadfile"} /\ ~Gated
        /\ posting' = posting \cup {[kind |-> op_kind[h], arg |-> h]}
     \/ /\ shutting_down \/ (op_kind[h] \in {"require", "loadfile"} /\ Gated)
        /\ UNCHANGED posting
  /\ UNCHANGED <<flagVars, destroyed, queue, stack, run, mapVars, unhandled_error, op_kind,
                 coVars, promise, poolVars, timerVars>>

DelayEnds(h) ==
  /\ ~destroyed
  /\ Expire(h)
  /\ queue' = Enqueued(queue, "timer", h)
  /\ UNCHANGED <<flagVars, destroyed, posting, stack, run, mapVars, unhandled_error, opVars,
                 coVars, promise, poolVars>>

\* Lua's collector frees a suspended or finished script thread that is neither
\* running nor pinned, once the script has dropped it.
Collect(co) ==
  /\ co \in ScriptCo
  /\ status[co] \in {"parked", "dead"}
  /\ \A h \in Handle : pinned[h] # co
  /\ status' = [status EXCEPT ![co] = "freed"]
  /\ UNCHANGED <<flagVars, destroyed, jobVars, stack, run, mapVars, unhandled_error, opVars,
                 waits_for, owner, promise, poolVars, timerVars>>

-----------------------------------------------------------------------------
(* Executor: taking a job *)

\* ProcessTask, or the second look at the gate.
RunTask ==
  /\ At("task")
  /\ queue' = Tail(queue)
  /\ LET t == Head(queue).arg IN
     \/ /\ GatedSince
        /\ promise' = Settle(promise, t, "rejected")
        /\ UNCHANGED <<stack, run, coVars, poolVars>>
     \/ /\ ~GatedSince /\ t \notin Callback         \* the chunk does not load
        /\ AcquireRelease
        /\ promise' = Settle(promise, t, "error")
        /\ UNCHANGED <<stack, run, coVars>>
     \/ /\ ~GatedSince
        /\ \E co \in PoolCo :
             /\ Acquire(co)
             /\ Enter(co, "task", t)
             /\ owner' = [owner EXCEPT ![co] = t]
        /\ promise' = [promise EXCEPT ![t] = "active"]
  /\ UNCHANGED <<flagVars, destroyed, posting, mapVars, unhandled_error, opVars, timerVars>>

\* DoResume with CheckResumable, once the handle's timer (if any) is gone.
DoResume(h) ==
  LET co == pending[h] IN
  \/ /\ co = None                                   \* a stale completion
     /\ CancelTimers({h})
     /\ UNCHANGED <<stack, run, pending, pinned, coVars, unhandled_error, poolVars>>
  \/ /\ co # None /\ status[co] = "parked"
     /\ CancelTimers({h})
     /\ Unpin({h}) /\ Erase({h})
     /\ Enter(co, "resume", h)
     /\ UNCHANGED <<owner, unhandled_error, poolVars>>
  \/ /\ co # None /\ status[co] # "parked"          \* not suspended any more
     /\ unhandled_error' = TRUE
     /\ CleanupStalePendings(co)
     /\ ReleaseCoroutine(co)
     /\ UNCHANGED <<stack, run>>

RunResume ==
  /\ At("resume")
  /\ queue' = Tail(queue)
  /\ IF shutting_down
     THEN UNCHANGED <<stack, run, pending, pinned, coVars, unhandled_error,
                      poolVars, timerVars>>
     ELSE DoResume(Head(queue).arg)
  /\ UNCHANGED <<flagVars, destroyed, posting, completions, opVars, promise>>

\* The lambda of a timer, with on_sleep and on_timeout.
RunTimer ==
  /\ At("timer")
  /\ queue' = Tail(queue)
  /\ LET h == Head(queue).arg IN
     \/ /\ active_timers[h] = "none"                \* cancelled meanwhile
        /\ UNCHANGED <<stack, run, pending, pinned, coVars, unhandled_error,
                       poolVars, timerVars>>
     \/ /\ active_timers[h] = "sleep" /\ paused
        /\ RearmSleep(h)
        /\ UNCHANGED <<stack, run, pending, pinned, coVars, unhandled_error, poolVars>>
     \/ /\ active_timers[h] = "sleep" /\ ~paused
        /\ DoResume(h)
     \/ /\ TakeTimeout(h)
        /\ \E co \in PoolCo : Acquire(co) /\ Enter(co, "timeout", h)
        /\ UNCHANGED <<pending, pinned, owner, unhandled_error>>
  /\ UNCHANGED <<flagVars, destroyed, posting, completions, opVars, promise>>

\* PushRequireRun's second gate and ProcessRequireRun.
RunRequire ==
  /\ At("require")
  /\ LET h == Head(queue).arg IN
     \/ /\ GatedSince
        /\ queue' = Tail(queue)
        /\ UNCHANGED <<stack, run, coVars, poolVars>>
     \/ /\ ~GatedSince                                   \* the source does not load
        /\ AcquireRelease
        /\ queue' = PushResume(Tail(queue), h)
        /\ UNCHANGED <<stack, run, coVars>>
     \/ /\ ~GatedSince
        /\ \E co \in PoolCo :
             /\ Acquire(co)
             /\ Enter(co, "require", h)
             /\ owner' = [owner EXCEPT ![co] = h]
        /\ queue' = Tail(queue)
  /\ UNCHANGED <<flagVars, destroyed, posting, mapVars, unhandled_error, opVars, promise, timerVars>>

\* PushLoadFileRun's second gate and ProcessLoadFileRun: compile, then resume.
RunLoadFile ==
  /\ At("loadfile")
  /\ \/ GatedSince /\ queue' = Tail(queue) /\ UNCHANGED poolVars
     \/ ~GatedSince /\ queue' = PushResume(Tail(queue), Head(queue).arg) /\ AcquireRelease
  /\ UNCHANGED <<flagVars, destroyed, posting, stack, run, mapVars, unhandled_error, opVars, coVars,
                 promise, timerVars>>

\* The completion pass of Interrupt().
InterruptPass ==
  /\ At("pass")
  /\ \/ /\ shutting_down
        /\ queue' = Tail(queue)
        /\ UNCHANGED <<mapVars, coVars, promise, poolVars, timerVars>>
     \/ /\ ~shutting_down
        /\ SettleAll(Tail(queue), "interrupted")
        /\ Unpin(Handle) /\ Erase(Handle)
        /\ CancelTimers(Handle)
        /\ ReleaseAll
        /\ ResetActive
  /\ UNCHANGED <<flagVars, destroyed, posting, stack, run, unhandled_error, opVars>>

ClearInterrupt ==
  /\ At("clear")
  /\ queue' = Tail(queue)
  /\ interrupted' = FALSE
  /\ UNCHANGED <<shutting_down, paused, destroyed, posting, stack, run, mapVars, unhandled_error,
                 opVars, coVars, promise, poolVars, timerVars>>

RunJob == RunTask \/ RunResume \/ RunTimer \/ RunRequire \/ RunLoadFile
            \/ InterruptPass \/ ClearInterrupt

-----------------------------------------------------------------------------
(* Executor: what the running script does *)

\* Mutant: the parked coroutine is not pinned.
PreYieldUnpinned ==
  /\ pending' = [pending EXCEPT ![next_handle] = Top]
  /\ UNCHANGED pinned

\* Mutant: the pin table gets the handle instead of the thread.
PreYieldPinsHandle ==
  /\ pending' = [pending EXCEPT ![next_handle] = Top]
  /\ pinned' = [pinned EXCEPT ![next_handle] = next_handle]

\* PreYield: the running coroutine enters pending and the pin table.
PreYield ==
  /\ pending' = [pending EXCEPT ![next_handle] = Top]
  /\ pinned' = [pinned EXCEPT ![next_handle] = Top]

\* An operation of this kind starts under the next handle: a sleep arms a
\* timer, the others are handed to another thread.
StartOp(kind) ==
  /\ IF kind = "sleep"
     THEN NextHandleWithSleep /\ UNCHANGED inflight
     ELSE NextHandle /\ inflight' = inflight \cup {next_handle}
  /\ op_kind' = [op_kind EXCEPT ![next_handle] = kind]

\* Mutant: nobody registers for the end of a direct call that yields.
AwaitedExceptCalls == {"task", "require"}

\* The runs whose end somebody is told of.
Awaited == {"task", "call", "require"}

\* The innermost coroutine yields, waiting for w.  Control returns to the
\* coroutine that resumed it; from the outermost, to the engine, which records
\* who is to be told when it ends.
Suspend(w) ==
  /\ status' = [status EXCEPT ![Top] = "parked"]
  /\ waits_for' = [waits_for EXCEPT ![Top] = w]
  /\ stack' = Front(stack)
  /\ \/ /\ Len(stack) > 1
        /\ UNCHANGED <<run, completions, promise>>
     \/ /\ Len(stack) = 1
        /\ run' = NoRun
        /\ \/ /\ run.via \in Awaited
              /\ completions' = [completions EXCEPT ![Top] = run.by]
              /\ promise' = Dropped(promise, completions[Top])
           \/ /\ run.via \notin Awaited
              /\ UNCHANGED <<completions, promise>>

\* sleep(), require(), loadfile() or an async library call parks its caller.
Park(kind) ==
  /\ ~Idle
  /\ StartOp(kind)
  /\ PreYield
  /\ Suspend(next_handle)
  /\ UNCHANGED <<flagVars, destroyed, jobVars, unhandled_error, owner, poolVars>>

\* The same call below a C function that cannot be yielded across (a sort
\* comparator, a gsub callback): lua_yield raises, a pcall catches it.
ParkFails(kind) ==
  /\ ~Idle /\ YieldAcrossC
  /\ StartOp(kind)
  /\ PreYield
  /\ UNCHANGED <<flagVars, destroyed, jobVars, stack, run, completions, unhandled_error,
                 coVars, promise, poolVars>>

\* Mutant: the hook looks at the shutdown flag only.
HookYieldOnShutdown ==
  /\ ~Idle /\ shutting_down
  /\ Suspend(None)
  /\ UNCHANGED <<flagVars, destroyed, jobVars, pending, pinned, unhandled_error, opVars, owner,
                 poolVars, timerVars>>

\* InterruptHook, every 2000 instructions.
HookYield ==
  /\ ~Idle /\ Gated
  /\ Suspend(None)
  /\ UNCHANGED <<flagVars, destroyed, jobVars, pending, pinned, unhandled_error, opVars, owner,
                 poolVars, timerVars>>

\* coroutine.yield: the yield waits for nothing the runtime knows of.
YieldPlain ==
  /\ ~Idle /\ PlainYields
  /\ Suspend(None)
  /\ UNCHANGED <<flagVars, destroyed, jobVars, pending, pinned, unhandled_error, opVars, owner,
                 poolVars, timerVars>>

SetTimeout ==
  /\ ~Idle /\ TimeoutsUsed
  /\ AddTimeoutTimer
  /\ op_kind' = [op_kind EXCEPT ![next_handle] = "timeout"]
  /\ UNCHANGED <<flagVars, destroyed, jobVars, stack, run, mapVars, unhandled_error, inflight,
                 coVars, promise, poolVars>>

\* clearTimeout takes any number: one that setTimeout returned, be it fired or
\* cleared, or the handle of somebody's sleep, whose timer it then cancels.
ClearTimeout(h) ==
  /\ ~Idle /\ (ClearsForeign \/ op_kind[h] = "timeout")
  /\ CancelTimers({h})
  /\ UNCHANGED <<flagVars, destroyed, jobVars, stack, run, mapVars, unhandled_error, opVars,
                 coVars, promise, poolVars>>

\* coroutine.resume: of a thread just created, or by hand of one held.
ResumeByHand(co) ==
  /\ ~Idle
  /\ \/ co \in ScriptCo /\ status[co] = "idle"
     \/ co \in Held /\ status[co] = "parked"
  /\ stack' = Append(stack, co)
  /\ status' = [status EXCEPT ![co] = "running"]
  /\ waits_for' = [waits_for EXCEPT ![co] = None]
  /\ UNCHANGED <<flagVars, destroyed, jobVars, run, mapVars, unhandled_error, opVars, owner,
                 promise, poolVars, timerVars>>

\* coroutine.close on a suspended thread.
CloseByHand(co) ==
  /\ ~Idle /\ co \in Held /\ status[co] = "parked"
  /\ status' = [status EXCEPT ![co] = "dead"]
  /\ waits_for' = [waits_for EXCEPT ![co] = None]
  /\ UNCHANGED <<flagVars, destroyed, jobVars, stack, run, mapVars, unhandled_error, opVars,
                 owner, promise, poolVars, timerVars>>

\* A thread that the script resumed ends; its resumer goes on.
EndNested ==
  /\ Len(stack) > 1
  /\ stack' = Front(stack)
  /\ status' = [status EXCEPT ![Top] = "dead"]
  /\ UNCHANGED <<flagVars, destroyed, jobVars, run, mapVars, unhandled_error, opVars, waits_for,
                 owner, promise, poolVars, timerVars>>

\* The coroutine the engine resumed ends: MaybeRecycleCo.
EndRecycled(outcome) ==
  /\ Len(stack) = 1 /\ run.via \in {"task", "resume", "timeout"}
  /\ LET handler == IF run.via = "task" THEN run.by ELSE completions[Top]
         before == IF run.via = "task" THEN Dropped(promise, completions[Top]) ELSE promise
     IN /\ Forget(Top)
        /\ Tell(before, queue, handler, outcome)
        /\ unhandled_error' = (unhandled_error \/ (outcome = "error" /\ handler = None))
  /\ CleanupStalePendings(Top)
  /\ ReleaseCoroutine(Top)
  /\ stack' = <<>> /\ run' = NoRun
  /\ UNCHANGED <<flagVars, destroyed, posting, opVars>>

\* The coroutine of CallAsync or CallWithCallback ends without having yielded.
EndCall(outcome) ==
  /\ Len(stack) = 1 /\ run.via = "call"
  /\ Tell(promise, queue, run.by, outcome)
  /\ CleanupStalePendings(Top)
  /\ ReleaseCoroutine(Top)
  /\ stack' = <<>> /\ run' = NoRun
  /\ UNCHANGED <<flagVars, destroyed, posting, completions, unhandled_error, opVars>>

\* A module body ends without having yielded.  Nothing is cleaned up here.
EndRequire ==
  /\ Len(stack) = 1 /\ run.via = "require"
  /\ Tell(promise, queue, run.by, "ok")
  /\ ReleaseCoroutine(Top)
  /\ stack' = <<>> /\ run' = NoRun
  /\ UNCHANGED <<flagVars, destroyed, posting, pending, pinned, completions, unhandled_error, opVars,
                 timerVars>>

End == EndNested \/ EndRequire \/ \E outcome \in Outcome : EndRecycled(outcome) \/ EndCall(outcome)

-----------------------------------------------------------------------------
HostStep ==
  \/ \E t \in Pushed : PushTask(t)
  \/ \E c \in Call : CallAsync(c)
  \/ \E co \in PoolCo : CancelCall(co)
  \/ Interrupt \/ AskClearInterrupt \/ PauseOrResume \/ BeginShutdown
  \/ TakeUnhandledError \/ Destroy

ThreadStep == \E j \in Posted : Schedule(j)

IOStep == \E h \in Handle : Complete(h) \/ DelayEnds(h)

ScriptStep ==
  \/ \E kind \in OpKinds : Park(kind) \/ ParkFails(kind)
  \/ HookYield \/ YieldPlain \/ SetTimeout \/ End
  \/ \E h \in Handle : ClearTimeout(h)
  \/ \E co \in Co : ResumeByHand(co) \/ CloseByHand(co)

Next == HostStep \/ ThreadStep \/ IOStep \/ RunJob \/ ScriptStep \/ \E co \in ScriptCo : Collect(co)

Spec == Init /\ [][Next]_vars

-----------------------------------------------------------------------------
(* Safety *)

\* No entry of pending_ names a thread the collector has freed: a completion
\* never dereferences a dead lua_State.
ParkedNotFreed == \A h \in Handle : pending[h] # None => status[pending[h]] # "freed"

\* An entry of pending_ describes the yield its coroutine is suspended in now.
\* A late or stale completion so never resumes a coroutine that moved on, died
\* or was recycled for other work under the same pointer.
PendingIsCurrentYield ==
  \A h \in Handle : pending[h] # None =>
    /\ status[pending[h]] = "parked"
    /\ waits_for[pending[h]] = h

\* A completion handler belongs to the work its coroutine is doing: the pool
\* never hands out a thread that still carries the handler of earlier work.
CompletionMatchesOwner ==
  \A co \in Co : completions[co] # None =>
    /\ co \in active_co_refs
    /\ owner[co] = completions[co]

\* A task that was started and not settled is either running or registered
\* with the coroutine that will settle it.
ActiveTaskTracked ==
  \A p \in Promise : promise[p] = "active" =>
    (run.by = p /\ ~Idle) \/ \E co \in Co : completions[co] = p

\* No promise is settled twice, and none is destroyed unsettled.
PromisesIntact == \A p \in Promise : promise[p] \notin {"twice", "broken"}

\* A thread in the free list is there once, is checked out by nobody, and
\* nothing will resume it or settle anything through it.
FreeThreadsAreClean ==
  /\ \A i, j \in DOMAIN co_pool : co_pool[i] = co_pool[j] => i = j
  /\ \A i \in DOMAIN co_pool :
       /\ co_pool[i] \notin active_co_refs
       /\ status[co_pool[i]] = "idle"
       /\ completions[co_pool[i]] = None
       /\ \A h \in Handle : pending[h] # co_pool[i]

\* The registry reference of a setTimeout callback is released at most once,
\* and kept as long as its timer can still fire.
CallbackRefsBalanced ==
  \A h \in Handle : /\ fn_ref[h] # "twice"
                    /\ (active_timers[h] = "timeout") = (fn_ref[h] = "held")

\* A completion pass is in the queue, or Interrupt is about to schedule it.
PassComing == Coming("pass", None)

\* What can still lead to a resume of the coroutine parked under h.
HasWaker(h) ==
  \/ h \in inflight
  \/ \E kind \in {"resume", "require", "loadfile"} : Coming(kind, h)
  \/ active_timers[h] = "sleep" /\ (h \in scheduled \/ Queued("timer", h))
  \/ run = [via |-> "require", by |-> h]
  \/ \E co \in Co : completions[co] = h

\* No lost wake-up: unless the runtime is shutting down or a completion pass is
\* about to take everything that is parked, a parked coroutine has an
\* operation, a timer, a queued job or a module body that will resume it, also
\* when it parked after the pass.  Pausing re-arms a sleeper and loses none.
ParkedHasWaker ==
  ~(shutting_down \/ PassComing) => \A h \in Handle : pending[h] # None => HasWaker(h)

\* The completion pass runs only while the flag that queued it is still up, so
\* work accepted after ClearInterrupt is never hit by an old interrupt.  True
\* of a host that interrupts and clears from one thread; the pass of one thread
\* can be overtaken by the ClearInterrupt of another.
PassMeansInterrupted == PassComing => interrupted

\* A completion resumes a coroutine only out of the yield that waits for it.
ResumesOwnYield ==
  [][\A co \in Co : (Idle /\ stack' = <<co>> /\ run'.via = "resume")
                      => waits_for[co] = run'.by]_vars

\* After the interrupt pass nothing that was checked out before it is left
\* parked, pending, awaited or armed.
PassLeavesNothing ==
  [][InterruptPass /\ ~shutting_down =>
       /\ active_co_refs' = {}
       /\ \A co \in PoolCo : status'[co] = "idle"
       /\ \A h \in Handle : pending'[h] = None /\ active_timers'[h] = "none"
       /\ \A p \in Promise : promise'[p] # "active"]_vars

\* A thread that is checked out is running, parked under a handle that will
\* resume it, or about to be taken back by a queued completion pass: none is
\* yielded out of its loop and then forgotten.
CheckedOutIsReachable ==
  ~shutting_down => \A co \in active_co_refs :
    \/ status[co] = "running"
    \/ \E h \in Handle : pending[h] = co
    \/ PassComing

\* The passes that are still to come, one for each Interrupt not carried out yet.
PassesDue ==
  Cardinality({i \in DOMAIN queue : queue[i] = PassJob}) + (IF PassJob \in posting THEN 1 ELSE 0)

\* The runtime keeps the contract of TaskContract: submissions are refused only
\* while a flag is up, end once, and each interrupt ends all that run, once.
Contract == INSTANCE TaskContract
              WITH result <- promise, stopped <- interrupted, closed <- shutting_down,
                   due <- PassesDue
KeepsTaskContract == Contract!Spec

-----------------------------------------------------------------------------
(* What else is invariant: the strengthenings that the proofs rest on *)

\* The pin table holds exactly the parked coroutines.
PinsMatchPending == pinned = pending

\* The coroutines on the stack are running, and each is on it once: no thread
\* is resumed while it runs.
StackIsRunning ==
  /\ \A i \in DOMAIN stack : status[stack[i]] = "running"
  /\ \A i, j \in DOMAIN stack : stack[i] = stack[j] => i = j

\* The free list has no duplicates and nothing that is checked out.
PoolIsSound ==
  /\ \A i, j \in DOMAIN co_pool : co_pool[i] = co_pool[j] => i = j
  /\ \A i \in DOMAIN co_pool : co_pool[i] \notin active_co_refs

\* A pool thread does something exactly while it is checked out.
BusyIsCheckedOut ==
  \A co \in PoolCo : IF co \in active_co_refs THEN status[co] \in {"running", "parked"}
                                              ELSE status[co] = "idle"

\* Whatever runs is on the stack, and only the bottom can be a pool thread:
\* scripts resume threads of their own.
RunningIsOnStack ==
  /\ \A co \in Co : status[co] = "running" => \E i \in DOMAIN stack : stack[i] = co
  /\ \A i \in DOMAIN stack : i > 1 => stack[i] \in ScriptCo

\* A thread the engine has just checked out carries no handler yet, and runs on
\* behalf of what `run` says.
RunOwnsThread ==
  ~Idle /\ run.via \in Awaited \cup {"timeout"} =>
    /\ stack[1] \in active_co_refs
    /\ completions[stack[1]] = None
    /\ run.via \in Awaited => owner[stack[1]] = run.by

\* PendingIsCurrentYield for the threads that no script resumes by hand.
CurrentUnlessHeld ==
  \A h \in Handle : pending[h] \notin Held \cup {None} =>
    /\ status[pending[h]] = "parked"
    /\ waits_for[pending[h]] = h

-----------------------------------------------------------------------------
(* Liveness *)

\* The executor thread takes jobs as long as there are any, and the count hook
\* yields a coroutine that is still running once a flag is up.
ExecutorFairness == WF_vars(RunJob) /\ WF_vars(HookYield)

\* A thread that is past its gate goes on to schedule its job.
ThreadFairness == \A j \in Posted : WF_vars(Schedule(j))

\* Operations complete and delays run out.
WorldFairness == \A h \in Handle : WF_vars(Complete(h)) /\ WF_vars(DelayEnds(h))

FairSpec == Spec /\ ExecutorFairness /\ ThreadFairness
LiveSpec == FairSpec /\ WorldFairness

Ended(p) == promise[p] \in Settled \cup {"cancelled"}

\* Whatever was running when Interrupt() raised its flag is settled, even a
\* loop that never yields, as long as the runtime is not shut down meanwhile.
InterruptSettlesRunning ==
  \A p \in Promise : (PassComing /\ promise[p] = "active") ~> (Ended(p) \/ shutting_down)

\* The same without the exception, as BeginShutdown's comment has it.
InterruptSettlesBeforeShutdown ==
  \A p \in Promise : (PassComing /\ promise[p] = "active") ~> Ended(p)

\* A pool thread whose Lua code called coroutine.yield by itself: it waits for
\* nothing, no flag is up and no pass is coming that would take it back.
LeftSuspended(co) ==
  /\ co \in active_co_refs /\ status[co] = "parked" /\ waits_for[co] = None
  /\ ~(Gated \/ PassComing)

\* A task accepted by PushTask is answered, interrupted or not, unless Lua code
\* leaves a thread suspended in a plain coroutine.yield.  The host is assumed
\* not to keep pausing the runtime, and scripts to keep leaving their Lua code
\* (one that never does is stopped by an interrupt only).
AcceptedTaskEnds ==
  (<>[]~paused /\ []<>Idle) =>
    \A t \in Pushed :
      promise[t] = "queued" ~> (Ended(t) \/ \E co \in PoolCo : LeftSuspended(co))
=============================================================================
