----------------------------- MODULE WakeProofs -----------------------------
(***************************************************************************)
(* No lost wake-up, and nothing left by a completion pass: the proofs that *)
(* whatever is parked in LuaRuntime has something that will resume it, for *)
(* any number of threads, handles and submissions, and that a pass takes   *)
(* back all there is, as long as scripts leave the threads of the pool     *)
(* alone.                                                                  *)
(***************************************************************************)
EXTENDS ContractProofs

-----------------------------------------------------------------------------
(* The jobs of a queue                                                     *)

In(q, kind, arg) == \E i \in DOMAIN q : q[i] = [kind |-> kind, arg |-> arg]

LEMMA InAppended ==
  ASSUME NEW q \in Seq(Job), NEW kind, NEW arg
  PROVE  /\ In(Enqueued(q, kind, arg), kind, arg)
         /\ \A k, a : In(q, k, a) => In(Enqueued(q, kind, arg), k, a)
<1> DEFINE q2 == Enqueued(q, kind, arg)
<1>1. /\ Len(q) \in Nat /\ DOMAIN q = 1..Len(q) /\ DOMAIN q2 = 1..(Len(q) + 1)
      /\ \A i \in 1..Len(q) : q2[i] = q[i]
      /\ q2[Len(q) + 1] = [kind |-> kind, arg |-> arg]
  BY Appended
<1> HIDE DEF q2
<1>2. Len(q) + 1 \in DOMAIN q2 /\ \A i \in DOMAIN q : i \in DOMAIN q2 /\ q2[i] = q[i]
  BY <1>1
<1>3. In(q2, kind, arg)
  BY <1>1, <1>2, Zenon DEF In
<1>4. ASSUME NEW k, NEW a, In(q, k, a) PROVE In(q2, k, a)
  BY <1>2, <1>4, Zenon DEF In
<1> QED BY <1>3, <1>4 DEF q2

LEMMA InPushed ==
  ASSUME NEW q \in Seq(Job), NEW h
  PROVE  /\ ~shutting_down => In(PushResume(q, h), "resume", h)
         /\ \A k, a : In(q, k, a) => In(PushResume(q, h), k, a)
<1>1. CASE shutting_down
  BY <1>1 DEF PushResume
<1>2. CASE ~shutting_down
  <2>1. PushResume(q, h) = Enqueued(q, "resume", h)
    BY <1>2 DEF PushResume
  <2> QED BY <2>1, InAppended, Zenon
<1> QED BY <1>1, <1>2

\* Taking a job loses that job only.
LEMMA InTail ==
  ASSUME NEW q \in Seq(Job), q # <<>>, NEW k, NEW a, In(q, k, a),
         Head(q).kind # k \/ Head(q).arg # a
  PROVE  In(Tail(q), k, a)
<1>1. /\ Len(q) \in Nat \ {0} /\ DOMAIN q = 1..Len(q) /\ Head(q) = q[1]
      /\ DOMAIN Tail(q) = 1..(Len(q) - 1)
      /\ \A i \in 1..(Len(q) - 1) : Tail(q)[i] = q[i + 1]
  BY EmptySeq, HeadTailProperties
<1>2. PICK i \in DOMAIN q : q[i] = [kind |-> k, arg |-> a]
  BY DEF In
<1>3. i # 1
  BY <1>1, <1>2
<1>4. i - 1 \in DOMAIN Tail(q) /\ Tail(q)[i - 1] = q[i]
  BY <1>1, <1>3
<1> QED BY <1>2, <1>4, Zenon DEF In

LEMMA QueuedIsIn ==
  \A k, a : /\ Queued(k, a) <=> In(queue, k, a)
            /\ Queued(k, a)' <=> In(queue', k, a)
BY DEF Queued, In

-----------------------------------------------------------------------------
(* What wakes a parked coroutine                                           *)

LoadKinds == {"require", "loadfile"}
JobKinds == {"resume", "require", "loadfile", "timer"}

\* HasWaker, told apart by what may take a waker away: a gate refuses jobs of
\* module loads only, and a module's body counts while it runs.
Waker(h) ==
  \/ h \in inflight
  \/ Coming("resume", h)
  \/ op_kind[h] \in LoadKinds /\ \E kind \in LoadKinds : Coming(kind, h)
  \/ active_timers[h] = "sleep" /\ (h \in scheduled \/ Queued("timer", h))
  \/ run = [via |-> "require", by |-> h] /\ ~Idle
  \/ \E co \in Co : completions[co] = h

\* Only an interrupt lets the gates refuse what a module load goes on with.
MayBeLost(h) == op_kind[h] \in LoadKinds /\ "interrupt" \in HostOps

\* A parked coroutine waits for an operation, never for a timeout, under a
\* handle that has been drawn.
KindInv ==
  /\ \A h \in Handle : pending[h] # None => op_kind[h] \in OpKinds /\ h < next_handle
  /\ interrupted => "interrupt" \in HostOps

WakeInv == ~shutting_down => \A h \in Handle : pending[h] # None => Waker(h) \/ MayBeLost(h)

LEMMA KindStep ==
  ASSUME TypeOK, KindInv, [Next]_vars
  PROVE  KindInv'
<1>1. next_handle \in Nat /\ (next_handle' = next_handle \/ next_handle' = next_handle + 1)
  <2>1. next_handle \in Nat
    BY DEF TypeOK, TimerTypeOK
  <2> SUFFICES next_handle' = next_handle \/ next_handle' = next_handle + 1
    BY <2>1
  <2>2. ASSUME NEW S, CancelTimers(S) PROVE next_handle' = next_handle
    BY <2>2 DEF CancelTimers
  <2>3. ASSUME NEW co \in Co, CleanupStalePendings(co) PROVE next_handle' = next_handle
    BY <2>2, <2>3 DEF CleanupStalePendings
  <2>4. ASSUME NEW h, DoResume(h) PROVE next_handle' = next_handle
    BY <2>2, <2>4 DEF DoResume, CleanupStalePendings
  <2>5. CASE HostStep \/ ThreadStep
    <3>1. CASE Destroy
      BY <2>2, <3>1 DEF Destroy, timerVars
    <3>2. ASSUME NEW co \in PoolCo, CancelCall(co) PROVE next_handle' = next_handle
      BY <2>2, <3>2 DEF CancelCall, DropPendings
    <3>3. CASE \/ \E t \in Pushed : PushTask(t)
               \/ \E c \in Call : CallAsync(c)
               \/ Interrupt \/ AskClearInterrupt \/ PauseOrResume \/ BeginShutdown
               \/ TakeUnhandledError \/ ThreadStep
      BY <3>3 DEF PushTask, CallAsync, Interrupt, AskClearInterrupt, PauseOrResume, BeginShutdown,
         TakeUnhandledError, ThreadStep, Schedule, timerVars
    <3> QED BY <2>5, <3>1, <3>2, <3>3 DEF HostStep
  <2>6. CASE RunJob
    <3>1. CASE InterruptPass
      BY <2>2, <3>1 DEF InterruptPass, timerVars
    <3>2. CASE RunTimer \/ RunResume
      BY <2>4, <3>2 DEF RunTimer, RunResume, RearmSleep, TakeTimeout, timerVars
    <3>3. CASE RunTask \/ RunRequire \/ RunLoadFile \/ ClearInterrupt
      BY <3>3 DEF RunTask, RunRequire, RunLoadFile, ClearInterrupt, timerVars
    <3> QED BY <2>6, <3>1, <3>2, <3>3 DEF RunJob
  <2>7. CASE ScriptStep
    <3>1. ASSUME NEW kind, StartOp(kind) PROVE next_handle' = next_handle + 1
      BY <3>1 DEF StartOp, NextHandle, NextHandleWithSleep
    <3>2. ASSUME NEW kind, Park(kind) \/ ParkFails(kind) PROVE next_handle' = next_handle + 1
      BY <3>1, <3>2 DEF Park, ParkFails
    <3>3. CASE SetTimeout
      BY <3>3 DEF SetTimeout, AddTimeoutTimer
    <3>4. CASE HookYield \/ YieldPlain \/ EndNested \/ EndRequire \/ \E co \in Co : ResumeByHand(co) \/ CloseByHand(co)
      BY <3>4 DEF HookYield, YieldPlain, EndNested, EndRequire, ResumeByHand, CloseByHand, timerVars
    <3>5. ASSUME NEW o, EndRecycled(o) \/ EndCall(o) PROVE next_handle' = next_handle
      BY <2>2, <3>5 DEF EndRecycled, EndCall, CleanupStalePendings
    <3>6. ASSUME NEW h, ClearTimeout(h) PROVE next_handle' = next_handle
      BY <2>2, <3>6 DEF ClearTimeout
    <3> QED BY <2>7, <3>2, <3>3, <3>4, <3>5, <3>6 DEF ScriptStep, End
  <2> QED BY <2>5, <2>6, <2>7 DEF Next, IOStep, Complete, DelayEnds, Expire, Collect, vars, timerVars
<1>2. interrupted' => "interrupt" \in HostOps
  BY DEF KindInv, Next, HostStep, PushTask, CallAsync, CancelCall, Interrupt, AskClearInterrupt,
     PauseOrResume, BeginShutdown, TakeUnhandledError, Destroy, ThreadStep, Schedule,
     IOStep, Complete, DelayEnds, RunJob, RunTask, RunResume, RunTimer, RunRequire, RunLoadFile, InterruptPass, ClearInterrupt,
     ScriptStep, Park, ParkFails, HookYield, YieldPlain, SetTimeout, ClearTimeout, ResumeByHand, CloseByHand,
     End, EndNested, EndRequire, EndRecycled, EndCall, Collect, vars, flagVars
<1>3. ASSUME NEW kind \in OpKinds, Park(kind) \/ ParkFails(kind) PROVE KindInv'
  <2>1. /\ next_handle' = next_handle + 1
        /\ op_kind' = [op_kind EXCEPT ![next_handle] = kind]
        /\ pending' = [pending EXCEPT ![next_handle] = Top]
        /\ next_handle \in Handle
    BY <1>3 DEF Park, ParkFails, StartOp, NextHandle, NextHandleWithSleep, PreYield
  <2>2. ASSUME NEW h \in Handle, pending'[h] # None PROVE op_kind'[h] \in OpKinds /\ h < next_handle'
    <3>1. CASE h = next_handle
      BY <1>1, <2>1, <3>1 DEF TypeOK
    <3>2. CASE h # next_handle
      BY <1>1, <2>1, <2>2, <3>2 DEF KindInv, TypeOK, Handle
    <3> QED BY <3>1, <3>2
  <2> QED BY <1>2, <2>2 DEF KindInv
<1>4. ASSUME SetTimeout PROVE KindInv'
  <2>1. /\ op_kind' = [op_kind EXCEPT ![next_handle] = "timeout"]
        /\ pending' = pending /\ next_handle' = next_handle + 1
    BY <1>4 DEF SetTimeout, AddTimeoutTimer, mapVars
  <2>2. ASSUME NEW h \in Handle, pending'[h] # None PROVE op_kind'[h] \in OpKinds /\ h < next_handle'
    <3>1. h < next_handle /\ op_kind[h] \in OpKinds
      BY <2>1, <2>2 DEF KindInv
    <3> QED BY <1>1, <2>1, <3>1 DEF TypeOK, Handle
  <2> QED BY <1>2, <2>2 DEF KindInv
<1>5. ASSUME op_kind' = op_kind, \A h \in Handle : pending'[h] # None => pending[h] # None PROVE KindInv'
  BY <1>1, <1>2, <1>5 DEF KindInv, Handle
<1>6. ASSUME NEW S, Erase(S) PROVE \A h \in Handle : pending'[h] # None => pending[h] # None
  BY <1>6 DEF Erase
<1>7. CASE HostStep \/ ThreadStep
  BY <1>5, <1>6, <1>7 DEF HostStep, PushTask, CallAsync, CancelCall, Interrupt, AskClearInterrupt,
     PauseOrResume, BeginShutdown, TakeUnhandledError, Destroy, DropPendings, ThreadStep, Schedule,
     mapVars, opVars
<1>8. CASE RunJob
  BY <1>5, <1>6, <1>8 DEF RunJob, RunTask, RunResume, RunTimer, RunRequire, RunLoadFile, InterruptPass,
     ClearInterrupt, DoResume, CleanupStalePendings, mapVars, opVars
<1>9. CASE ScriptStep
  <2>1. CASE HookYield \/ YieldPlain \/ End \/ \E h \in Handle : ClearTimeout(h)
    BY <1>5, <1>6, <2>1 DEF HookYield, YieldPlain, ClearTimeout, End, EndNested, EndRequire, EndRecycled, EndCall,
       CleanupStalePendings, mapVars, opVars
  <2>2. CASE \E co \in Co : ResumeByHand(co) \/ CloseByHand(co)
    BY <1>5, <2>2 DEF ResumeByHand, CloseByHand, mapVars, opVars
  <2> QED BY <1>3, <1>4, <1>9, <2>1, <2>2 DEF ScriptStep
<1>10. CASE IOStep \/ UNCHANGED vars \/ \E co \in ScriptCo : Collect(co)
  BY <1>5, <1>10 DEF IOStep, Complete, DelayEnds, Collect, vars, mapVars, opVars
<1> QED BY <1>7, <1>8, <1>9, <1>10 DEF Next

-----------------------------------------------------------------------------
(* What may take a waker away                                              *)

\* Whatever woke h still does, or has left another to do it.
LEMMA WakerKept ==
  ASSUME NEW h \in Handle, Waker(h), op_kind'[h] = op_kind[h],
         h \in inflight => h \in inflight', posting \subseteq posting',
         Queued("resume", h) => Queued("resume", h)',
         op_kind[h] \in LoadKinds => \A kind \in LoadKinds : Queued(kind, h) => Queued(kind, h)',
         active_timers[h] = "sleep" =>
           /\ active_timers'[h] = "sleep"
           /\ h \in scheduled => h \in scheduled' \/ Queued("timer", h)'
           /\ Queued("timer", h) => Queued("timer", h)',
         run = [via |-> "require", by |-> h] /\ ~Idle => Waker(h)',
         \A co \in Co : completions[co] = h => \E c \in Co : completions'[c] = h
  PROVE  Waker(h)'
<1>1. \A kind : Queued(kind, h) /\ (Queued(kind, h) => Queued(kind, h)') => Coming(kind, h)'
  BY DEF Coming
<1>2. \A kind : [kind |-> kind, arg |-> h] \in posting => Coming(kind, h)'
  BY DEF Coming
<1>3. Coming("resume", h) => Coming("resume", h)'
  BY <1>1, <1>2 DEF Coming
<1>4. op_kind[h] \in LoadKinds => \A kind \in LoadKinds : Coming(kind, h) => Coming(kind, h)'
  BY <1>1, <1>2 DEF Coming
<1> QED BY <1>3, <1>4, Zenon DEF Waker

LEMMA QueueGrows ==
  ASSUME queue \in Seq(Job),
         \/ queue' = queue
         \/ \E kind, arg : queue' = Enqueued(queue, kind, arg)
         \/ \E x : queue' = PushResume(queue, x)
  PROVE  \A kind, arg : Queued(kind, arg) => Queued(kind, arg)'
<1>1. ASSUME NEW kind, NEW arg, In(queue, kind, arg) PROVE In(queue', kind, arg)
  BY <1>1, InAppended, InPushed, Zenon
<1> QED BY <1>1, QueuedIsIn, Zenon

LEMMA QueueTaken ==
  ASSUME queue \in Seq(Job), queue # <<>>,
         queue' = Tail(queue) \/ \E x : queue' = PushResume(Tail(queue), x),
         NEW kind, NEW arg, Queued(kind, arg), Head(queue).kind # kind \/ Head(queue).arg # arg
  PROVE  Queued(kind, arg)'
<1>1. Tail(queue) \in Seq(Job) /\ In(Tail(queue), kind, arg)
  BY InTail, QueuedIsIn, HeadTailProperties
<1>2. In(queue', kind, arg)
  BY <1>1, InPushed, Zenon
<1> QED BY <1>2, QueuedIsIn, Zenon

LEMMA PushedIsQueued ==
  ASSUME NEW q \in Seq(Job), NEW h, ~shutting_down, queue' = PushResume(q, h)
  PROVE  Queued("resume", h)'
BY InPushed, QueuedIsIn, Zenon

\* Once up, the flag stays up.
LEMMA ShutdownStays ==
  ASSUME [Next]_vars, ~shutting_down'
  PROVE  ~shutting_down
BY DEF Next, HostStep, PushTask, CallAsync, CancelCall, Interrupt, AskClearInterrupt,
   PauseOrResume, BeginShutdown, TakeUnhandledError, Destroy, ThreadStep, Schedule,
   IOStep, Complete, DelayEnds, RunJob, RunTask, RunResume, RunTimer, RunRequire, RunLoadFile, InterruptPass, ClearInterrupt,
   ScriptStep, Park, ParkFails, HookYield, YieldPlain, SetTimeout, ClearTimeout, ResumeByHand, CloseByHand,
   End, EndNested, EndRequire, EndRecycled, EndCall, Collect, vars, flagVars

\* The outermost coroutine yields: a module body that was running, or whatever
\* was registered before, is registered after.
LEMMA SuspendKeeps ==
  ASSUME TypeOK, StackIsRunning, Discipline, ~Idle, NEW w, Suspend(w), NEW h \in Handle
  PROVE  /\ run = [via |-> "require", by |-> h] /\ ~Idle =>
              \/ run' = run /\ ~Idle'
              \/ \E co \in Co : completions'[co] = h
         /\ \A co \in Co : completions[co] = h => \E c \in Co : completions'[c] = h
<1>1. /\ Len(stack) \in Nat \ {0} /\ Top = stack[Len(stack)] /\ Top \in Co
  BY BottomOfStack DEF Discipline
<1>2. Front(stack) \in Seq(Co) /\ Len(Front(stack)) = Len(stack) - 1 /\ stack' = Front(stack)
  BY FrontIsSeq DEF TypeOK, Idle, Suspend
<1>3. CASE Len(stack) > 1
  <2>1. ~Idle'
    BY <1>1, <1>2, <1>3, EmptySeq DEF Idle
  <2>2. run' = run /\ completions' = completions
    BY <1>1, <1>3 DEF Suspend
  <2> QED BY <2>1, <2>2
<1>4. CASE Len(stack) = 1
  <2>1. CASE run.via \notin Awaited
    <3>1. completions' = completions /\ run.via # "require"
      BY <1>4, <2>1 DEF Suspend, Awaited
    <3> QED BY <3>1
  <2>2. CASE run.via \in Awaited
    <3>1. completions[Top] = None
      BY <1>1, <1>4, <2>2 DEF Discipline, RunOwnsThread
    <3>2. completions' = [completions EXCEPT ![Top] = run.by]
      BY <1>4, <2>2 DEF Suspend
    <3>3. \A c \in Co : completions'[c] = IF c = Top THEN run.by ELSE completions[c]
      BY <3>2 DEF TypeOK
    <3>4. h # None
      BY RuntimeAssumption DEF Handler
    <3> QED BY <1>1, <3>1, <3>3, <3>4
  <2> QED BY <2>1, <2>2
<1>5. \A n \in Nat \ {0} : n > 1 \/ n = 1
  OBVIOUS
<1> QED BY <1>1, <1>3, <1>4, <1>5

\* Awake(h): what a step must leave of the coroutine that is parked under h after it.
Awake(h) == pending'[h] # None => Waker(h)' \/ MayBeLost(h)'

\* Steps that leave alone what wakes h, or add to it.
LEMMA AwakeKept ==
  ASSUME ~shutting_down, WakeInv, NEW h \in Handle, pending'[h] # None => pending[h] # None,
         op_kind'[h] = op_kind[h],
         Waker(h) => Waker(h)' \/ MayBeLost(h)'
  PROVE  Awake(h)
BY DEF Awake, WakeInv, MayBeLost

\* Nothing that is armed, asked for or queued for h goes.
OthersKept(h) ==
  /\ op_kind'[h] = op_kind[h]
  /\ h \in inflight => h \in inflight'
  /\ active_timers'[h] = active_timers[h]
  /\ h \in scheduled => h \in scheduled'

LEMMA AwakeByOthers ==
  ASSUME TypeOK, ~shutting_down, WakeInv, NEW h \in Handle, OthersKept(h),
         pending'[h] # None => pending[h] # None,
         \A kind \in JobKinds : Queued(kind, h) => Queued(kind, h)',
         posting \subseteq posting', Idle \/ (run' = run /\ ~Idle'),
         \A co \in Co : completions[co] = h => completions'[co] = h
  PROVE  Awake(h)
<1>1. run = [via |-> "require", by |-> h] /\ ~Idle => Waker(h)'
  BY DEF Waker
<1>2. \A co \in Co : completions[co] = h => \E c \in Co : completions'[c] = h
  OBVIOUS
<1>3. /\ op_kind'[h] = op_kind[h] /\ (h \in inflight => h \in inflight')
      /\ active_timers'[h] = active_timers[h] /\ (h \in scheduled => h \in scheduled')
  BY DEF OthersKept
<1>4. /\ Queued("resume", h) => Queued("resume", h)'
      /\ \A kind \in LoadKinds : Queued(kind, h) => Queued(kind, h)'
      /\ Queued("timer", h) => Queued("timer", h)'
  BY DEF JobKinds, LoadKinds
<1>5. Waker(h) => Waker(h)'
  BY <1>1, <1>2, <1>3, <1>4, WakerKept
<1> QED BY <1>3, <1>5, AwakeKept

-----------------------------------------------------------------------------
(* Every action leaves a waker                                             *)

\* A job that waits in posting goes to the queue, and is coming before and after.
LEMMA ThreadStepWake ==
  ASSUME TypeOK, ~shutting_down, WakeInv, ThreadStep, NEW h \in Handle
  PROVE  Awake(h)
<1>1. PICK j \in Job : Schedule(j)
  BY DEF ThreadStep, Posted
<1>2. queue' = Enqueued(queue, j.kind, j.arg) /\ posting' = posting \ {j}
      /\ j = [kind |-> j.kind, arg |-> j.arg] /\ queue \in Seq(Job)
  BY <1>1, ScheduledJob, JobParts DEF TypeOK
<1>3. \A kind, arg : Queued(kind, arg) => Queued(kind, arg)'
  BY <1>2, QueueGrows, Zenon
<1>4. Queued(j.kind, j.arg)'
  BY <1>2, InAppended, QueuedIsIn, Zenon
<1>5. ASSUME NEW kind, NEW arg, Coming(kind, arg) PROVE Coming(kind, arg)'
  <2>1. CASE [kind |-> kind, arg |-> arg] = j
    <3>1. kind = j.kind /\ arg = j.arg
      BY <2>1
    <3> QED BY <1>4, <3>1 DEF Coming
  <2>2. CASE [kind |-> kind, arg |-> arg] # j
    BY <1>2, <1>3, <1>5, <2>2 DEF Coming
  <2> QED BY <2>1, <2>2
<1>6. UNCHANGED <<stack, run, pending, completions, op_kind, inflight, active_timers, scheduled>>
  BY <1>1 DEF Schedule, mapVars, opVars, timerVars
<1>7. Waker(h) => Waker(h)'
  BY <1>3, <1>5, <1>6, Zenon DEF Waker, Idle
<1> QED BY <1>6, <1>7, AwakeKept

LEMMA HostStepWake ==
  ASSUME TypeOK, ~shutting_down, ~shutting_down', KindInv, WakeInv, HostStep, NEW h \in Handle
  PROVE  Awake(h)
<1> USE DEF mapVars, opVars, timerVars
<1>1. queue \in Seq(Job)
  BY DEF TypeOK
<1>2. ASSUME UNCHANGED <<stack, run, mapVars, opVars, timerVars>>,
             posting \subseteq posting',
             queue' = queue \/ \E kind, arg : queue' = Enqueued(queue, kind, arg)
      PROVE  Awake(h)
  <2>1. \A kind, arg : Queued(kind, arg) => Queued(kind, arg)'
    BY <1>1, <1>2, QueueGrows, Zenon
  <2> QED BY <1>2, <2>1, AwakeByOthers DEF OthersKept, Idle
<1>3. ASSUME NEW t \in Pushed, PushTask(t) PROVE Awake(h)
  BY <1>2, <1>3 DEF PushTask
<1>4. CASE Interrupt \/ AskClearInterrupt \/ PauseOrResume \/ TakeUnhandledError
  BY <1>2, <1>4 DEF Interrupt, AskClearInterrupt, PauseOrResume, TakeUnhandledError, jobVars
<1>5. ASSUME NEW c \in Call, CallAsync(c) PROVE Awake(h)
  <2>1. Idle /\ UNCHANGED <<queue, posting, mapVars, opVars, timerVars>>
    BY <1>5 DEF CallAsync, jobVars
  <2>2. \A kind, arg : Queued(kind, arg) => Queued(kind, arg)'
    BY <2>1 DEF Queued
  <2> QED BY <2>1, <2>2, AwakeByOthers DEF OthersKept
<1>6. ASSUME NEW co \in PoolCo, CancelCall(co) PROVE Awake(h)
  <2>1. /\ Idle /\ completions[co] \in Call /\ completions' = [completions EXCEPT ![co] = None]
        /\ pending' = [x \in Handle |-> IF x \in PendingOf(co) THEN None ELSE pending[x]]
        /\ active_timers' = [x \in Handle |-> IF x \in PendingOf(co) THEN "none" ELSE active_timers[x]]
        /\ UNCHANGED <<queue, posting, opVars, scheduled>>
    BY <1>6 DEF jobVars, CancelCall, DropPendings, Erase, CancelTimers
  <2>2. completions[co] # h
    BY <2>1, RuntimeAssumption DEF Promise
  <2>3. \A c \in Co : completions[c] = h => completions'[c] = h
    BY <2>1, <2>2 DEF TypeOK
  <2>4. \A kind, arg : Queued(kind, arg) => Queued(kind, arg)'
    BY <2>1 DEF Queued
  <2>5. CASE h \notin PendingOf(co)
    <3>1. OthersKept(h) /\ pending'[h] = pending[h]
      BY <2>1, <2>5 DEF OthersKept
    <3> QED BY <2>1, <2>3, <2>4, <3>1, AwakeByOthers
  <2> QED BY <2>1, <2>5 DEF Awake
<1> QED BY <1>3, <1>4, <1>5, <1>6 DEF HostStep, BeginShutdown, Destroy

LEMMA IOStepWake ==
  ASSUME TypeOK, ~shutting_down, KindInv, WakeInv, IOStep, NEW h \in Handle
  PROVE  Awake(h)
<1> USE DEF mapVars, opVars
<1>1. queue \in Seq(Job)
  BY DEF TypeOK
<1>2. ASSUME NEW x \in Handle, Complete(x) PROVE Awake(h)
  <2>1. /\ UNCHANGED <<queue, stack, run, mapVars, op_kind, timerVars, interrupted>>
        /\ inflight' = inflight \ {x} /\ posting \subseteq posting'
    BY <1>2 DEF Complete, flagVars
  <2>2. CASE h # x
    <3>1. \A kind, arg : Queued(kind, arg) => Queued(kind, arg)'
      BY <2>1 DEF Queued
    <3>2. OthersKept(h)
      BY <2>1, <2>2 DEF OthersKept, timerVars
    <3> QED BY <2>1, <3>1, <3>2, AwakeByOthers DEF Idle
  <2>3. CASE h = x /\ posting' = posting \cup {[kind |-> "resume", arg |-> x]}
    BY <2>3 DEF Awake, Waker, Coming
  <2>4. CASE h = x /\ op_kind[x] \in LoadKinds /\ Gated
    <3>1. "interrupt" \in HostOps
      BY <2>4 DEF Gated, KindInv
    <3> QED BY <2>1, <2>4, <3>1 DEF Awake, MayBeLost
  <2>5. CASE h = x /\ op_kind[x] \in LoadKinds /\ posting' = posting \cup {[kind |-> op_kind[x], arg |-> x]}
    <3>1. PICK kind \in LoadKinds : kind = op_kind[x]
      BY <2>5
    <3>2. Coming(kind, h)'
      BY <2>5, <3>1 DEF Coming
    <3> QED BY <2>1, <2>5, <3>2 DEF Awake, Waker
  <2>6. \/ posting' = posting \cup {[kind |-> "resume", arg |-> x]}
        \/ /\ op_kind[x] \in LoadKinds
           /\ Gated \/ posting' = posting \cup {[kind |-> op_kind[x], arg |-> x]}
    BY <1>2 DEF Complete, LoadKinds
  <2> QED BY <2>2, <2>3, <2>4, <2>5, <2>6
<1>3. ASSUME NEW x \in Handle, DelayEnds(x) PROVE Awake(h)
  <2>1. /\ UNCHANGED <<posting, stack, run, mapVars, opVars, active_timers>>
        /\ scheduled' = scheduled \ {x} /\ queue' = Enqueued(queue, "timer", x)
    BY <1>3 DEF DelayEnds, Expire
  <2>2. \A kind, arg : Queued(kind, arg) => Queued(kind, arg)'
    BY <1>1, <2>1, QueueGrows, Zenon
  <2>3. Queued("timer", x)'
    BY <1>1, <2>1, InAppended, QueuedIsIn, Zenon
  <2>4. run = [via |-> "require", by |-> h] /\ ~Idle => Waker(h)'
    BY <2>1 DEF Waker, Idle
  <2>5. h \in scheduled => h \in scheduled' \/ Queued("timer", h)'
    BY <2>1, <2>3
  <2>6. \A co \in Co : completions[co] = h => \E c \in Co : completions'[c] = h
    BY <2>1
  <2>7. Waker(h) => Waker(h)'
    BY <2>1, <2>2, <2>4, <2>5, <2>6, WakerKept
  <2> QED BY <2>1, <2>7, AwakeKept
<1> QED BY <1>2, <1>3 DEF IOStep

\* A completion resumes the coroutine it is for, if that is still parked.
LEMMA DoResumeWake ==
  ASSUME TypeOK, ~shutting_down, WakeInv, NEW x \in Handle, DoResume(x), Idle,
         queue # <<>>, Head(queue).arg = x, queue' = Tail(queue),
         UNCHANGED <<posting, completions, opVars>>, NEW h \in Handle
  PROVE  Awake(h)
<1>1. h = x => pending'[h] = None
  BY DEF DoResume, Erase, CleanupStalePendings, PendingOf, TypeOK
<1>2. /\ pending'[h] # None => pending[h] # None
      /\ pending'[h] # None /\ h # x => active_timers'[h] = active_timers[h] /\ scheduled' = scheduled
  <2>1. CASE pending[x] = None
    BY <2>1 DEF DoResume, CancelTimers
  <2>2. CASE pending[x] # None /\ status[pending[x]] = "parked"
    BY <2>2 DEF DoResume, CancelTimers, Erase
  <2>3. CASE pending[x] # None /\ status[pending[x]] # "parked"
    BY <2>3 DEF DoResume, CancelTimers, Erase, CleanupStalePendings
  <2> QED BY <2>1, <2>2, <2>3
<1>3. ASSUME h # x, pending'[h] # None PROVE Awake(h)
  <2>1. \A kind, arg : Queued(kind, arg) /\ arg # x => Queued(kind, arg)'
    BY QueueTaken DEF TypeOK
  <2>2. \A kind \in JobKinds : Queued(kind, h) => Queued(kind, h)'
    BY <1>3, <2>1
  <2>3. OthersKept(h)
    BY <1>2, <1>3 DEF OthersKept, opVars
  <2> QED BY <1>2, <1>3, <2>2, <2>3, AwakeByOthers
<1> QED BY <1>1, <1>3 DEF Awake

LEMMA RunJobWake ==
  ASSUME TypeOK, ~shutting_down, KindInv, WakeInv, RunJob, NEW h \in Handle
  PROVE  Awake(h)
<1> USE DEF mapVars, opVars, timerVars
<1> DEFINE x == Head(queue).arg
<1>1. Idle /\ queue # <<>> /\ queue \in Seq(Job) /\ posting' = posting
  BY DEF RunJob, RunTask, RunResume, RunTimer, RunRequire, RunLoadFile, InterruptPass,
     ClearInterrupt, At, TypeOK
<1>2. ASSUME queue' = Tail(queue) \/ \E y : queue' = PushResume(Tail(queue), y),
             NEW kind, NEW arg, Queued(kind, arg), Head(queue).kind # kind \/ x # arg
      PROVE  Queued(kind, arg)'
  BY <1>1, <1>2, QueueTaken
<1> HIDE DEF x
<1>3. CASE RunTask \/ ClearInterrupt
  <2>1. /\ queue' = Tail(queue) /\ Head(queue).kind \in {"task", "clear"}
        /\ UNCHANGED <<mapVars, opVars, timerVars>>
    BY <1>3 DEF RunTask, ClearInterrupt, At
  <2>2. \A kind \in JobKinds : Queued(kind, h) => Queued(kind, h)'
    BY <1>2, <2>1 DEF JobKinds
  <2> QED BY <1>1, <2>1, <2>2, AwakeByOthers DEF OthersKept
<1>4. CASE RunResume
  <2>1. x \in Handle
    BY <1>4, TakenType DEF RunResume, TypeOK, x
  <2> QED BY <1>1, <1>4, <2>1, DoResumeWake DEF RunResume, x
<1>5. CASE RunTimer
  <2>1. x \in Handle /\ Head(queue).kind = "timer" /\ queue' = Tail(queue)
        /\ UNCHANGED <<posting, completions, opVars>>
    BY <1>5, TakenType DEF RunTimer, TypeOK, x, At
  <2>2. CASE DoResume(x)
    BY <1>1, <2>1, <2>2, DoResumeWake DEF x
  <2>3. CASE h = x /\ active_timers[x] = "sleep" /\ RearmSleep(x)
    <3>1. active_timers'[h] = "sleep" /\ h \in scheduled'
      BY <2>3 DEF RearmSleep, Arm, TypeOK, TimerTypeOK
    <3> QED BY <3>1 DEF Awake, Waker
  <2>4. CASE /\ pending' = pending
             /\ \/ active_timers[x] # "sleep"
                \/ h # x /\ RearmSleep(x)
             /\ \/ UNCHANGED timerVars
                \/ RearmSleep(x)
                \/ TakeTimeout(x)
    <3>1. \A kind \in {"resume"} \cup LoadKinds : Queued(kind, h) => Queued(kind, h)'
      BY <1>2, <2>1 DEF LoadKinds
    <3>2. active_timers[h] = "sleep" =>
            /\ active_timers'[h] = "sleep" /\ scheduled \subseteq scheduled'
            /\ h # x
      BY <2>4 DEF RearmSleep, Arm, TakeTimeout, TypeOK, TimerTypeOK
    <3>3. active_timers[h] = "sleep" => (Queued("timer", h) => Queued("timer", h)')
      BY <1>2, <2>1, <3>2
    <3>4. Waker(h) => Waker(h)'
      BY <1>1, <2>1, <3>1, <3>2, <3>3, WakerKept
    <3> QED BY <2>1, <2>4, <3>4, AwakeKept
  <2>5. /\ pending' = pending \/ DoResume(x)
        /\ \/ DoResume(x)
           \/ active_timers[x] = "none" /\ UNCHANGED timerVars
           \/ active_timers[x] = "sleep" /\ RearmSleep(x)
           \/ active_timers[x] = "timeout" /\ TakeTimeout(x)
    BY <1>5 DEF RunTimer, TakeTimeout, x
  <2> QED BY <2>2, <2>3, <2>4, <2>5
<1>6. CASE RunRequire \/ RunLoadFile
  <2>1. x \in Handle /\ Head(queue).kind \in LoadKinds
        /\ UNCHANGED <<interrupted, mapVars, opVars, timerVars>>
    BY <1>6, TakenType DEF RunRequire, RunLoadFile, TypeOK, x, At, LoadKinds, flagVars
  <2>2. \/ Gated /\ queue' = Tail(queue)
        \/ queue' = PushResume(Tail(queue), x)
        \/ queue' = Tail(queue) /\ \E co \in PoolCo : Enter(co, "require", x)
    BY <1>6 DEF RunRequire, RunLoadFile, GatedSince, x
  <2>3. CASE h # x
    <3>1. \A kind \in JobKinds : Queued(kind, h) => Queued(kind, h)'
      BY <1>2, <2>2, <2>3
    <3> QED BY <1>1, <2>1, <3>1, AwakeByOthers DEF OthersKept
  <2>4. CASE h = x /\ queue' = PushResume(Tail(queue), x)
    <3>1. Tail(queue) \in Seq(Job)
      BY <1>1, HeadTailProperties
    <3> QED BY <2>4, <3>1, PushedIsQueued DEF Awake, Waker, Coming
  <2>5. CASE h = x /\ \E co \in PoolCo : Enter(co, "require", x)
    BY <2>5 DEF Awake, Waker, Enter, Idle
  <2>6. CASE h = x /\ Gated /\ queue' = Tail(queue)
    <3>1. op_kind[h] \in LoadKinds => MayBeLost(h)'
      BY <2>1, <2>6 DEF Gated, KindInv, MayBeLost
    <3>2. Queued("resume", h) => Queued("resume", h)'
      BY <1>2, <2>1, <2>6 DEF LoadKinds
    <3>3. Queued("timer", h) => Queued("timer", h)'
      BY <1>2, <2>1, <2>6 DEF LoadKinds
    <3>4. op_kind[h] \notin LoadKinds => (Waker(h) => Waker(h)')
      BY <1>1, <2>1, <3>2, <3>3, WakerKept
    <3> QED BY <2>1, <3>1, <3>4, AwakeKept
  <2> QED BY <2>2, <2>3, <2>4, <2>5, <2>6
<1>7. CASE InterruptPass
  BY <1>7 DEF InterruptPass, Erase, Awake
<1> QED BY <1>3, <1>4, <1>5, <1>6, <1>7 DEF RunJob

LEMMA ScriptStepWake ==
  ASSUME ClearsForeign = FALSE, TypeOK, ~shutting_down, StackIsRunning, Discipline, KindInv,
         WakeInv, ScriptStep, NEW h \in Handle
  PROVE  Awake(h)
<1> USE DEF jobVars, mapVars, opVars, timerVars
<1>1. queue \in Seq(Job) /\ stack \in Seq(Co) /\ posting' = posting
  BY DEF TypeOK, ScriptStep, Park, ParkFails, HookYield, YieldPlain, SetTimeout, ClearTimeout,
     ResumeByHand, CloseByHand, End, EndNested, EndRequire, EndRecycled, EndCall, jobVars
<1>2. pending[h] # None => h # next_handle /\ op_kind[h] # "timeout"
  <2>1. next_handle \in Nat /\ OpKinds \subseteq AsyncKinds /\ h \in Nat
    BY RuntimeAssumption DEF TypeOK, TimerTypeOK, Handle
  <2> QED BY <2>1 DEF KindInv, AsyncKinds
\* Starting an operation under a new handle, and yielding or not.
<1>3. ASSUME NEW kind \in OpKinds, Park(kind) \/ ParkFails(kind) PROVE Awake(h)
  <2>1. /\ StartOp(kind) /\ UNCHANGED queue /\ ~Idle
        /\ pending' = [pending EXCEPT ![next_handle] = Top]
        /\ op_kind' = [op_kind EXCEPT ![next_handle] = kind]
    BY <1>3 DEF Park, ParkFails, StartOp, PreYield
  <2>2. CASE h = next_handle
    <3>1. CASE kind = "sleep"
      BY <2>1, <2>2, <3>1 DEF StartOp, NextHandleWithSleep, Arm, Awake, Waker, TypeOK, TimerTypeOK
    <3>2. CASE kind # "sleep"
      BY <2>1, <2>2, <3>2 DEF StartOp, Awake, Waker
    <3> QED BY <3>1, <3>2
  <2>3. CASE h # next_handle
    <3>1. OthersKept(h) /\ pending'[h] = pending[h]
      BY <2>1, <2>3 DEF StartOp, NextHandle, NextHandleWithSleep, Arm, OthersKept, TypeOK, TimerTypeOK
    <3>2. /\ run = [via |-> "require", by |-> h] /\ ~Idle => Waker(h)'
          /\ \A co \in Co : completions[co] = h => \E c \in Co : completions'[c] = h
      <4>1. CASE Suspend(next_handle)
        BY <2>1, <4>1, SuspendKeeps DEF Waker
      <4>2. CASE UNCHANGED <<stack, run, completions>>
        BY <4>2 DEF Waker, Idle
      <4> QED BY <1>3, <4>1, <4>2 DEF Park, ParkFails
    <3>3. \A k, arg : Queued(k, arg) => Queued(k, arg)'
      BY <2>1 DEF Queued
    <3>4. Waker(h) => Waker(h)'
      BY <1>1, <3>1, <3>2, <3>3, WakerKept DEF OthersKept
    <3> QED BY <3>1, <3>4, AwakeKept DEF OthersKept
  <2> QED BY <2>2, <2>3
<1>4. CASE HookYield \/ YieldPlain
  <2>1. Suspend(None) /\ ~Idle /\ UNCHANGED <<queue, pending, opVars, timerVars>>
    BY <1>4 DEF HookYield, YieldPlain
  <2>2. /\ run = [via |-> "require", by |-> h] /\ ~Idle => Waker(h)'
        /\ \A co \in Co : completions[co] = h => \E c \in Co : completions'[c] = h
    BY <2>1, SuspendKeeps DEF Waker
  <2>3. \A k, arg : Queued(k, arg) => Queued(k, arg)'
    BY <2>1 DEF Queued
  <2>4. Waker(h) => Waker(h)'
    BY <1>1, <2>1, <2>2, <2>3, WakerKept
  <2> QED BY <2>1, <2>4, AwakeKept
<1>5. ASSUME UNCHANGED <<queue, completions>>, ~Idle', run' = run, OthersKept(h),
             pending'[h] # None => pending[h] # None
      PROVE  Awake(h)
  <2>1. \A k, arg : Queued(k, arg) => Queued(k, arg)'
    BY <1>5 DEF Queued
  <2> QED BY <1>1, <1>5, <2>1, AwakeByOthers
<1>6. CASE SetTimeout
  <2>1. CASE h # next_handle
    BY <1>5, <1>6, <2>1 DEF SetTimeout, AddTimeoutTimer, Arm, OthersKept, Idle, TypeOK, TimerTypeOK
  <2>2. CASE h = next_handle
    BY <1>2, <1>6, <2>2 DEF SetTimeout, Awake
  <2> QED BY <2>1, <2>2
<1>7. ASSUME NEW x \in Handle, ClearTimeout(x) PROVE Awake(h)
  <2>1. CASE h # x
    BY <1>5, <1>7, <2>1 DEF ClearTimeout, CancelTimers, OthersKept, Idle
  <2>2. CASE h = x
    BY <1>2, <1>7, <2>2 DEF ClearTimeout, Awake
  <2> QED BY <2>1, <2>2
<1>8. ASSUME NEW co \in Co, ResumeByHand(co) \/ CloseByHand(co) PROVE Awake(h)
  <2>1. ~Idle'
    <3>1. CASE CloseByHand(co)
      BY <3>1 DEF CloseByHand, Idle
    <3>2. CASE ResumeByHand(co)
      BY <1>1, <3>2, AppendProperties DEF ResumeByHand, Idle
    <3> QED BY <1>8, <3>1, <3>2
  <2> QED BY <1>5, <1>8, <2>1 DEF ResumeByHand, CloseByHand, OthersKept
<1>9. CASE EndNested
  <2>1. Len(stack) > 1 /\ stack # <<>>
    BY <1>9 DEF EndNested
  <2>2. Len(stack) \in Nat /\ Front(stack) \in Seq(Co) /\ Len(Front(stack)) = Len(stack) - 1
    BY <1>1, <2>1, FrontIsSeq, LenProperties
  <2>3. ~Idle'
    BY <1>9, <2>1, <2>2, EmptySeq DEF EndNested, Idle
  <2> QED BY <1>5, <1>9, <2>3 DEF EndNested, OthersKept
\* The outermost coroutine ends: who waited for it is told.
<1>10. ASSUME Len(stack) = 1, EndRequire \/ \E o \in Outcome : EndRecycled(o) \/ EndCall(o)
       PROVE  Awake(h)
  <2>1. ~Idle /\ Top \in Co /\ Top = stack[1]
    <3>1. stack = <<>> => Len(stack) = 0
      OBVIOUS
    <3>2. ~Idle
      BY <1>10, <3>1 DEF Idle
    <3> QED BY <1>10, <3>2, BottomOfStack DEF Discipline
  <2>2. run.via \in Awaited => completions[Top] = None
    BY <2>1 DEF Discipline, RunOwnsThread
  <2> DEFINE Told(handler) ==
        /\ queue' = IF handler \in Handle THEN PushResume(queue, handler) ELSE queue
        /\ run.via = "require" => handler = run.by
        /\ \/ completions' = completions
           \/ completions' = [completions EXCEPT ![Top] = None] /\ completions[Top] \in {None, handler}
  <2>3. \E handler : Told(handler)
    <3>1. CASE EndRequire
      <4>1. Told(run.by)
        BY <3>1 DEF EndRequire, Tell
      <4> QED BY <4>1, Zenon
    <3>2. ASSUME NEW o \in Outcome, EndCall(o) PROVE \E handler : Told(handler)
      <4>1. Told(run.by)
        BY <3>2 DEF EndCall, Tell
      <4> QED BY <4>1, Zenon
    <3>3. ASSUME NEW o \in Outcome, EndRecycled(o) PROVE \E handler : Told(handler)
      <4>1. Told(IF run.via = "task" THEN run.by ELSE completions[Top])
        BY <2>2, <3>3 DEF EndRecycled, Tell, Forget, Awaited
      <4> QED BY <4>1, Zenon
    <3> QED BY <1>10, <3>1, <3>2, <3>3
  <2>4. PICK handler : Told(handler)
    BY <2>3
  <2>5. UNCHANGED <<opVars, scheduled>>
        /\ (pending'[h] # None => pending[h] # None /\ active_timers'[h] = active_timers[h])
    BY <1>10 DEF EndRequire, EndRecycled, EndCall, CleanupStalePendings, Erase, CancelTimers
  <2>6. \A k, arg : Queued(k, arg) => Queued(k, arg)'
    BY <1>1, <2>4, QueueGrows, Zenon
  <2>7. h = handler => Coming("resume", h)'
    BY <1>1, <2>4, PushedIsQueued DEF Coming
  <2>8. CASE h = handler
    BY <2>7, <2>8 DEF Awake, Waker
  <2>9. CASE h # handler /\ pending'[h] # None
    <3>1. run # [via |-> "require", by |-> h]
      BY <2>4, <2>9
    <3>2. \A co \in Co : completions[co] = h => \E c \in Co : completions'[c] = h
      BY <2>1, <2>4, <2>9, RuntimeAssumption DEF Handler, TypeOK
    <3>3. Waker(h) => Waker(h)'
      BY <1>1, <2>5, <2>6, <2>9, <3>1, <3>2, WakerKept
    <3> QED BY <2>5, <2>9, <3>3, AwakeKept
  <2> QED BY <2>8, <2>9 DEF Awake
<1> QED BY <1>3, <1>4, <1>6, <1>7, <1>8, <1>9, <1>10
        DEF ScriptStep, End, EndRequire, EndRecycled, EndCall

LEMMA WakeStep ==
  ASSUME ClearsForeign = FALSE, TypeOK, StackIsRunning, Discipline, KindInv, WakeInv, [Next]_vars
  PROVE  WakeInv'
<1> SUFFICES ASSUME ~shutting_down', NEW h \in Handle
             PROVE  Awake(h)
  BY DEF WakeInv, Awake
<1>1. ~shutting_down
  BY ShutdownStays
<1>2. ASSUME UNCHANGED <<jobVars, stack, run, mapVars, opVars, timerVars>> PROVE Awake(h)
  <2>1. \A kind, arg : Queued(kind, arg) => Queued(kind, arg)'
    BY <1>2 DEF Queued, jobVars
  <2> QED BY <1>1, <1>2, <2>1, AwakeByOthers DEF OthersKept, Idle, jobVars, mapVars, opVars, timerVars
<1> QED BY <1>1, <1>2, HostStepWake, ThreadStepWake, IOStepWake, RunJobWake, ScriptStepWake DEF Next, Collect, vars

-----------------------------------------------------------------------------
(* The theorems                                                            *)

Wakeful == Books /\ KindInv /\ WakeInv

LEMMA WakefulInit ==
  ASSUME Init
  PROVE  Wakeful
BY BooksInit DEF Wakeful, Init, KindInv, WakeInv

LEMMA WakefulStep ==
  ASSUME Held \subseteq ScriptCo, ClearsForeign = FALSE, TypeOK, TypeOK', Wakeful, [Next]_vars
  PROVE  Wakeful'
BY BooksStep, KindStep, WakeStep DEF Wakeful, Books

\* Every operation but a module load has what will resume its caller, whatever
\* hosts, completions, timers and pauses do: no wake-up of a sleep or of a
\* library call is lost, with or without interrupts, as long as scripts pass
\* clearTimeout nothing but what setTimeout returned.
THEOREM OnlyLoadsAreLost ==
  ASSUME Held \subseteq ScriptCo, ClearsForeign = FALSE
  PROVE  Spec => [](~shutting_down => \A h \in Handle :
                      pending[h] # None => HasWaker(h) \/ op_kind[h] \in {"require", "loadfile"})
<1>1. Wakeful => (~shutting_down => \A h \in Handle :
                    pending[h] # None => HasWaker(h) \/ op_kind[h] \in {"require", "loadfile"})
  BY DEF Wakeful, WakeInv, Waker, MayBeLost, HasWaker, LoadKinds
<1> QED BY <1>1, WakefulInit, WakefulStep, TypeCorrect, PTL DEF Spec

\* Nor is one of a module load, where hosts do not interrupt: the gates that
\* refuse to go on with a load look at the flag an interrupt raises.
THEOREM NoWakeupIsLost ==
  ASSUME Held \subseteq ScriptCo, ClearsForeign = FALSE,
         OpKinds \cap {"require", "loadfile"} = {} \/ "interrupt" \notin HostOps
  PROVE  Spec => []ParkedHasWaker
<1>1. Wakeful => ParkedHasWaker
  <2> SUFFICES ASSUME Wakeful, ~shutting_down, NEW h \in Handle, pending[h] # None
               PROVE  HasWaker(h)
    BY DEF ParkedHasWaker
  <2>1. ~MayBeLost(h)
    BY DEF Wakeful, KindInv, MayBeLost, LoadKinds
  <2>2. Waker(h)
    BY <2>1 DEF Wakeful, WakeInv
  <2> QED BY <2>2 DEF Waker, HasWaker, LoadKinds
<1> QED BY <1>1, WakefulInit, WakefulStep, TypeCorrect, PTL DEF Spec

LEMMA PassTakes ==
  ASSUME TypeOK, Books, InterruptPass, ~shutting_down
  PROVE  /\ active_co_refs' = {}
         /\ \A co \in PoolCo : status'[co] = "idle"
         /\ \A h \in Handle : pending'[h] = None /\ active_timers'[h] = "none"
         /\ \A p \in Promise : promise'[p] # "active"
<1>1. /\ Idle /\ SettleAll(Tail(queue), "interrupted") /\ Erase(Handle)
      /\ CancelTimers(Handle) /\ ReleaseAll /\ ResetActive /\ UNCHANGED <<stack, run>>
  BY DEF InterruptPass, At
<1>2. active_co_refs' = {}
  BY <1>1 DEF ReleaseAll
<1>3. \A co \in PoolCo : status'[co] = "idle"
  BY <1>1 DEF ResetActive, Books, Discipline, BusyIsCheckedOut, Co
<1>4. \A h \in Handle : pending'[h] = None /\ active_timers'[h] = "none"
  BY <1>1 DEF Erase, CancelTimers
<1>5. \A p \in Promise : promise'[p] # "active"
  <2>1. promise' = [p \in Promise |-> IF promise[p] = "active" THEN "interrupted" ELSE promise[p]]
    BY <1>1, LedgerAllSettled DEF Books
  <2> QED BY <2>1
<1> QED BY <1>2, <1>3, <1>4, <1>5

\* The completion pass takes back every thread, handle, timer and promise there
\* is: nothing started before an interrupt outlives it.
THEOREM PassTakesAll ==
  ASSUME Held \subseteq ScriptCo
  PROVE  Spec => PassLeavesNothing
<1> DEFINE A == InterruptPass /\ ~shutting_down =>
                  /\ active_co_refs' = {}
                  /\ \A co \in PoolCo : status'[co] = "idle"
                  /\ \A h \in Handle : pending'[h] = None /\ active_timers'[h] = "none"
                  /\ \A p \in Promise : promise'[p] # "active"
<1>1. TypeOK /\ Books => A
  BY PassTakes
<1>2. PassLeavesNothing <=> [][A]_vars
  BY DEF PassLeavesNothing
<1> QED BY <1>1, <1>2, BooksInit, BooksStep, TypeCorrect, PTL DEF Spec
=============================================================================
