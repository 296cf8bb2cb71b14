-------------------------- MODULE LuaRuntimeProofs --------------------------
(***************************************************************************)
(* Machine-checked facts about LuaRuntime, for every number of threads,    *)
(* handles and submissions.  The first lemmas are about the operations of  *)
(* CoroutinePool and TimerManager: each preserves the types.               *)
(***************************************************************************)
EXTENDS LuaRuntime, FiniteSetTheorems, SequenceTheorems, TLAPS

\* An order in which the elements of a finite set are visited is a sequence.
LEMMA OrderIsSeq ==
  ASSUME NEW S, IsFiniteSet(S), NEW order \in SetToSeqs(S)
  PROVE  order \in Seq(S)
<1>1. Cardinality(S) \in Nat
  BY FS_CardinalityType
<1>2. order \in [1..Cardinality(S) -> S]
  BY DEF SetToSeqs
<1> QED BY <1>1, <1>2

\* Dropping the last element of a nonempty sequence.
LEMMA FrontIsSeq ==
  ASSUME NEW S, NEW s \in Seq(S), s # <<>>
  PROVE  /\ Last(s) \in S
         /\ Front(s) \in Seq(S)
         /\ Len(Front(s)) = Len(s) - 1
         /\ \A i \in 1..(Len(s) - 1) : Front(s)[i] = s[i]
<1>1. Len(s) \in Nat \ {0}
  BY EmptySeq, LenProperties
<1>2. Front(s) = [i \in 1..(Len(s) - 1) |-> s[i]]
  BY <1>1, SubSeqProperties DEF Front
<1>3. \A i \in 1..Len(s) : s[i] \in S
  BY ElementOfSeq
<1> QED BY <1>1, <1>2, <1>3 DEF Last

-----------------------------------------------------------------------------

\* Acquire hands out a thread of the pool, whichever way it finds it.
LEMMA AcquireType ==
  ASSUME PoolTypeOK, NEW co \in PoolCo, Acquire(co)
  PROVE  PoolTypeOK'
<1>1. co_pool' \in Seq(PoolCo)
  BY FrontIsSeq DEF PoolTypeOK, Acquire
<1> QED BY <1>1 DEF PoolTypeOK, Acquire

LEMMA AcquireReleaseType ==
  ASSUME PoolTypeOK, AcquireRelease
  PROVE  PoolTypeOK'
BY DEF PoolTypeOK, AcquireRelease

LEMMA ReleaseType ==
  ASSUME PoolTypeOK, NEW co, Release(co)
  PROVE  PoolTypeOK'
BY DEF PoolTypeOK, Release

LEMMA ReleaseAllType ==
  ASSUME PoolTypeOK, ReleaseAll
  PROVE  PoolTypeOK'
<1>1. IsFiniteSet(active_co_refs)
  BY PoolCoFinite, FS_Subset DEF PoolTypeOK
<1>2. PICK order \in SetToSeqs(active_co_refs) : co_pool' = co_pool \o order
  BY DEF ReleaseAll
<1>3. order \in Seq(active_co_refs)
  BY <1>1, OrderIsSeq
<1>4. order \in Seq(PoolCo)
  BY <1>3 DEF PoolTypeOK
<1> QED BY <1>2, <1>4 DEF PoolTypeOK, ReleaseAll

LEMMA ShutdownPoolType ==
  ASSUME ShutdownPool
  PROVE  PoolTypeOK'
BY DEF PoolTypeOK, ShutdownPool

-----------------------------------------------------------------------------

\* Every timer operation keeps the types; no operation is applied to a handle
\* that was not drawn from the counter.
LEMMA TimerType ==
  ASSUME TimerTypeOK,
         \/ NextHandle \/ NextHandleWithSleep \/ AddTimeoutTimer
         \/ \E h \in Handle : RearmSleep(h) \/ TakeTimeout(h) \/ Expire(h)
         \/ \E S \in SUBSET Handle : CancelTimers(S)
  PROVE  TimerTypeOK'
<1> USE MaxHandleIsNat DEF TimerTypeOK, Handle
<1>1. CASE NextHandle
  BY <1>1 DEF NextHandle
<1>2. CASE NextHandleWithSleep
  BY <1>2 DEF NextHandleWithSleep, Arm
<1>3. CASE AddTimeoutTimer
  BY <1>3 DEF AddTimeoutTimer, Arm
<1>4. CASE \E h \in Handle : RearmSleep(h) \/ TakeTimeout(h) \/ Expire(h)
  <2>1. PICK h \in Handle : RearmSleep(h) \/ TakeTimeout(h) \/ Expire(h)
    BY <1>4
  <2>2. CASE RearmSleep(h)
    BY <2>2 DEF RearmSleep, Arm
  <2>3. CASE TakeTimeout(h)
    BY <2>3 DEF TakeTimeout, Unref
  <2>4. CASE Expire(h)
    BY <2>4 DEF Expire
  <2> QED BY <2>1, <2>2, <2>3, <2>4
<1>5. CASE \E S \in SUBSET Handle : CancelTimers(S)
  BY <1>5 DEF CancelTimers, Unref
<1> QED BY <1>1, <1>2, <1>3, <1>4, <1>5

-----------------------------------------------------------------------------

JobArg == Handler \cup {None}

-----------------------------------------------------------------------------
(* What the helpers of LuaRuntime return *)

LEMMA EnqueuedType ==
  ASSUME NEW q \in Seq(Job), NEW kind, NEW arg, [kind |-> kind, arg |-> arg] \in Job
  PROVE  Enqueued(q, kind, arg) \in Seq(Job)
BY DEF Enqueued

LEMMA PushResumeType ==
  ASSUME NEW q \in Seq(Job), NEW h \in Handle
  PROVE  PushResume(q, h) \in Seq(Job)
BY EnqueuedType DEF PushResume, Job

LEMMA TakenType ==
  ASSUME queue \in Seq(Job), NEW kind, At(kind)
  PROVE  /\ Tail(queue) \in Seq(Job)
         /\ kind = "task" => Head(queue).arg \in Pushed
         /\ kind \in {"resume", "timer", "require", "loadfile"} => Head(queue).arg \in Handle
<1>1. Tail(queue) \in Seq(Job) /\ Head(queue) \in Job /\ Head(queue).kind = kind
  BY HeadTailProperties DEF At
<1> QED BY <1>1 DEF Job

LEMMA SettleType ==
  ASSUME NEW p \in [Promise -> PromiseState], NEW handler, NEW outcome \in Settled
  PROVE  Settle(p, handler, outcome) \in [Promise -> PromiseState]
BY DEF Settle, AfterSettle, PromiseState

LEMMA DroppedType ==
  ASSUME NEW p \in [Promise -> PromiseState], NEW handler
  PROVE  Dropped(p, handler) \in [Promise -> PromiseState]
BY DEF Dropped, PromiseState, Gone

LEMMA TellType ==
  ASSUME NEW p \in [Promise -> PromiseState], NEW q \in Seq(Job), NEW handler,
         NEW outcome \in Settled, Tell(p, q, handler, outcome)
  PROVE  promise' \in [Promise -> PromiseState] /\ queue' \in Seq(Job)
BY SettleType, PushResumeType DEF Tell

LEMMA ErasedType ==
  ASSUME TypeOK, NEW S, Unpin(S), Erase(S)
  PROVE  pending' \in [Handle -> Co \cup {None}] /\ pinned' \in [Handle -> Co \cup {None}]
BY DEF TypeOK, Unpin, Erase

LEMMA CleanupType ==
  ASSUME TypeOK, NEW co, CleanupStalePendings(co)
  PROVE  /\ pending' \in [Handle -> Co \cup {None}]
         /\ pinned' \in [Handle -> Co \cup {None}]
         /\ TimerTypeOK'
<1>1. PendingOf(co) \in SUBSET Handle
  BY DEF PendingOf
<1>2. TimerTypeOK'
  BY <1>1, TimerType DEF TypeOK, CleanupStalePendings
<1> QED BY <1>2, ErasedType DEF CleanupStalePendings

\* CancelCall forgets the entries of its coroutine with a loop of its own, in
\* the order that CleanupStalePendings has.
LEMMA DropIsCleanup ==
  ASSUME NEW co, DropPendings(co)
  PROVE  CleanupStalePendings(co)
BY DEF DropPendings, CleanupStalePendings

LEMMA ReleaseCoroutineType ==
  ASSUME TypeOK, NEW co, ReleaseCoroutine(co)
  PROVE  /\ PoolTypeOK'
         /\ status' \in [Co -> {"idle", "running", "parked", "dead", "freed"}]
         /\ waits_for' \in [Co -> Handle \cup {None}]
         /\ owner' \in [Co -> Handler \cup {None}]
BY ReleaseType DEF TypeOK, ReleaseCoroutine

LEMMA EnterType ==
  ASSUME TypeOK, NEW co \in Co, NEW via \in RunKinds, NEW by \in JobArg, Enter(co, via, by)
  PROVE  /\ stack' \in Seq(Co)
         /\ run' \in [via : RunKinds, by : Handler \cup {None}]
         /\ status' \in [Co -> {"idle", "running", "parked", "dead", "freed"}]
         /\ waits_for' \in [Co -> Handle \cup {None}]
BY DEF TypeOK, Enter, JobArg

LEMMA SettleAllType ==
  ASSUME TypeOK, NEW q \in Seq(Job), NEW outcome \in Settled, SettleAll(q, outcome)
  PROVE  /\ promise' \in [Promise -> PromiseState]
         /\ completions' \in [Co -> Handler \cup {None}]
         /\ queue' \in Seq(Job)
<1> DEFINE handlers == {completions[co] : co \in Co} \ {None}
<1>1. promise' \in [Promise -> PromiseState]
  BY DEF TypeOK, SettleAll, AfterSettle, PromiseState
<1>2. completions' \in [Co -> Handler \cup {None}]
  BY DEF SettleAll
<1>3. IsFiniteSet(handlers \cap Handle)
  <2>1. IsFiniteSet(Handle)
    BY MaxHandleIsNat, FS_Interval DEF Handle
  <2>2. handlers \cap Handle \in SUBSET Handle
    OBVIOUS
  <2> QED BY <2>1, <2>2, FS_Subset
<1>4. PICK order \in SetToSeqs(handlers \cap Handle) :
        queue' = IF outcome = "shutdown" THEN q
                 ELSE q \o [i \in DOMAIN order |-> [kind |-> "resume", arg |-> order[i]]]
  BY DEF SettleAll
<1> HIDE DEF handlers
<1>5. order \in Seq(handlers \cap Handle)
  BY <1>3, OrderIsSeq
<1>6. Len(order) \in Nat /\ DOMAIN order = 1..Len(order)
  BY <1>5
<1>7. \A i \in 1..Len(order) : [kind |-> "resume", arg |-> order[i]] \in Job
  BY <1>5, ElementOfSeq DEF Job
<1>8. [i \in DOMAIN order |-> [kind |-> "resume", arg |-> order[i]]] \in Seq(Job)
  BY <1>6, <1>7
<1>9. queue' \in Seq(Job)
  BY <1>4, <1>8, ConcatProperties
<1> QED BY <1>1, <1>2, <1>9

LEMMA ResetActiveType ==
  ASSUME TypeOK, ResetActive
  PROVE  /\ status' \in [Co -> {"idle", "running", "parked", "dead", "freed"}]
         /\ waits_for' \in [Co -> Handle \cup {None}]
         /\ owner' \in [Co -> Handler \cup {None}]
BY DEF TypeOK, ResetActive

LEMMA CancelTimersType ==
  ASSUME TypeOK, NEW S \in SUBSET Handle, CancelTimers(S)
  PROVE  TimerTypeOK'
BY TimerType DEF TypeOK

LEMMA DoResumeType ==
  ASSUME TypeOK, NEW h \in Handle, DoResume(h)
  PROVE  /\ stack' \in Seq(Co)
         /\ run' \in [via : RunKinds, by : Handler \cup {None}]
         /\ pending' \in [Handle -> Co \cup {None}]
         /\ pinned' \in [Handle -> Co \cup {None}]
         /\ unhandled_error' \in BOOLEAN
         /\ status' \in [Co -> {"idle", "running", "parked", "dead", "freed"}]
         /\ waits_for' \in [Co -> Handle \cup {None}]
         /\ owner' \in [Co -> Handler \cup {None}]
         /\ PoolTypeOK' /\ TimerTypeOK'
<1> DEFINE co == pending[h]
<1>1. CASE /\ co = None
           /\ CancelTimers({h})
           /\ UNCHANGED <<stack, run, pending, pinned, coVars, unhandled_error, poolVars>>
  <2>1. TimerTypeOK'
    BY <1>1, CancelTimersType
  <2> QED BY <1>1, <2>1 DEF TypeOK, PoolTypeOK, poolVars, coVars
<1>2. CASE /\ co # None /\ status[co] = "parked"
           /\ CancelTimers({h})
           /\ Unpin({h}) /\ Erase({h})
           /\ Enter(co, "resume", h)
           /\ UNCHANGED <<owner, unhandled_error, poolVars>>
  <2>1. TimerTypeOK'
    BY <1>2, CancelTimersType
  <2>2. co \in Co /\ "resume" \in RunKinds /\ h \in JobArg
    BY <1>2 DEF TypeOK, RunKinds, JobArg, Handler
  <2> HIDE DEF co
  <2> QED BY <1>2, <2>1, <2>2, EnterType, ErasedType DEF TypeOK, PoolTypeOK, poolVars
<1>3. CASE /\ co # None /\ status[co] # "parked"
           /\ unhandled_error' = TRUE
           /\ CleanupStalePendings(co)
           /\ ReleaseCoroutine(co)
           /\ UNCHANGED <<stack, run>>
  BY <1>3, CleanupType, ReleaseCoroutineType DEF TypeOK
<1> QED BY <1>1, <1>2, <1>3 DEF DoResume

LEMMA StartOpType ==
  ASSUME TypeOK, NEW kind \in OpKinds, StartOp(kind)
  PROVE  /\ next_handle \in Handle
         /\ TimerTypeOK'
         /\ op_kind' \in [Handle -> AsyncKinds \cup {"none", "timeout"}]
         /\ inflight' \subseteq Handle
<1>1. next_handle \in Handle
  BY DEF StartOp, NextHandle, NextHandleWithSleep
<1>2. TimerTypeOK'
  BY TimerType DEF TypeOK, StartOp
<1>3. kind \in AsyncKinds
  BY RuntimeAssumption
<1> QED BY <1>1, <1>2, <1>3 DEF TypeOK, StartOp

LEMMA SuspendType ==
  ASSUME TypeOK, ~Idle, NEW w \in Handle \cup {None}, Suspend(w)
  PROVE  /\ Top \in Co
         /\ stack' \in Seq(Co)
         /\ run' \in [via : RunKinds, by : Handler \cup {None}]
         /\ status' \in [Co -> {"idle", "running", "parked", "dead", "freed"}]
         /\ waits_for' \in [Co -> Handle \cup {None}]
         /\ completions' \in [Co -> Handler \cup {None}]
         /\ promise' \in [Promise -> PromiseState]
<1>1. Top \in Co /\ Front(stack) \in Seq(Co)
  BY FrontIsSeq DEF TypeOK, Idle, Top
<1>2. NoRun \in [via : RunKinds, by : Handler \cup {None}]
  BY DEF NoRun, RunKinds
<1>3. Dropped(promise, completions[Top]) \in [Promise -> PromiseState]
  BY DroppedType DEF TypeOK
<1>4. run.by \in Handler \cup {None}
  BY DEF TypeOK
<1> QED BY <1>1, <1>2, <1>3, <1>4 DEF TypeOK, Suspend

-----------------------------------------------------------------------------
(* Every action keeps the types *)

LEMMA HostStepType ==
  ASSUME TypeOK, HostStep
  PROVE  TypeOK'
<1> USE DEF TypeOK, PoolTypeOK, TimerTypeOK, flagVars, jobVars, mapVars, opVars, coVars, poolVars,
        timerVars
<1>1. ASSUME NEW t \in Pushed, PushTask(t) PROVE TypeOK'
  <2>1. posting' \subseteq Posted
    BY <1>1 DEF PushTask, Posted, Job
  <2> QED BY <1>1, <2>1 DEF PushTask, Promise, PromiseState, Settled
<1>2. ASSUME NEW c \in Call, CallAsync(c) PROVE TypeOK'
  <2>1. PICK co \in PoolCo : /\ Acquire(co)
                             /\ Enter(co, "call", c)
                             /\ owner' = [owner EXCEPT ![co] = c]
    BY <1>2 DEF CallAsync
  <2>2. PoolTypeOK'
    BY <2>1, AcquireType
  <2>3. /\ stack' \in Seq(Co)
        /\ run' \in [via : RunKinds, by : Handler \cup {None}]
        /\ status' \in [Co -> {"idle", "running", "parked", "dead", "freed"}]
        /\ waits_for' \in [Co -> Handle \cup {None}]
    BY <2>1, EnterType DEF Co, RunKinds, JobArg, Handler, Promise
  <2>4. owner' \in [Co -> Handler \cup {None}]
    BY <2>1 DEF Handler, Promise
  <2>5. promise' \in [Promise -> PromiseState]
    BY <1>2 DEF CallAsync, PromiseState
  <2> QED BY <1>2, <2>2, <2>3, <2>4, <2>5 DEF CallAsync
<1>3. ASSUME NEW co \in PoolCo, CancelCall(co) PROVE TypeOK'
  <2>1. completions' \in [Co -> Handler \cup {None}]
    BY <1>3 DEF CancelCall
  <2>2. promise' \in [Promise -> PromiseState]
    BY <1>3 DEF CancelCall, PromiseState, Gone
  <2>3. CleanupStalePendings(co) /\ ReleaseCoroutine(co)
    BY <1>3, DropIsCleanup DEF CancelCall
  <2> QED BY <1>3, <2>1, <2>2, <2>3, CleanupType, ReleaseCoroutineType DEF CancelCall
<1>4. CASE Interrupt
  <2>1. posting' \subseteq Posted
    BY <1>4 DEF Interrupt, PassJob, Posted, Job
  <2> QED BY <1>4, <2>1 DEF Interrupt
<1>5. CASE AskClearInterrupt
  <2>1. Enqueued(queue, "clear", None) \in Seq(Job)
    BY EnqueuedType DEF Job
  <2> QED BY <1>5, <2>1 DEF AskClearInterrupt
<1>6. CASE PauseOrResume
  BY <1>6 DEF PauseOrResume
<1>7. CASE BeginShutdown
  BY <1>7 DEF BeginShutdown
<1>8. CASE TakeUnhandledError
  BY <1>8 DEF TakeUnhandledError
<1>9. CASE Destroy
  <2>1. CASE /\ shutting_down
             /\ UNCHANGED <<queue, mapVars, coVars, promise, poolVars, timerVars>>
    BY <1>9, <2>1 DEF Destroy
  <2>2. CASE /\ ~shutting_down
             /\ SettleAll(queue, "shutdown")
             /\ Unpin(Handle) /\ Erase(Handle)
             /\ CancelTimers(Handle)
             /\ ShutdownPool
             /\ ResetActive
    <3>1. /\ promise' \in [Promise -> PromiseState]
          /\ completions' \in [Co -> Handler \cup {None}]
          /\ queue' \in Seq(Job)
      BY <2>2, SettleAllType DEF Settled
    <3>2. TimerTypeOK'
      BY <2>2, CancelTimersType
    <3> QED BY <1>9, <2>2, <3>1, <3>2, ErasedType, ShutdownPoolType, ResetActiveType
            DEF Destroy
  <2> QED BY <1>9, <2>1, <2>2 DEF Destroy
<1> QED BY <1>1, <1>2, <1>3, <1>4, <1>5, <1>6, <1>7, <1>8, <1>9 DEF HostStep

LEMMA ThreadStepType ==
  ASSUME TypeOK, ThreadStep
  PROVE  TypeOK'
<1>1. PICK j \in Posted : Schedule(j)
  BY DEF ThreadStep
<1>2. posting' \subseteq Posted /\ queue' \in Seq(Job)
  BY <1>1 DEF Schedule, Posted, TypeOK
<1> QED BY <1>1, <1>2 DEF Schedule, TypeOK, PoolTypeOK, TimerTypeOK, flagVars, mapVars, opVars,
        coVars, poolVars, timerVars

LEMMA IOStepType ==
  ASSUME TypeOK, IOStep
  PROVE  TypeOK'
<1> USE DEF TypeOK, PoolTypeOK, TimerTypeOK, flagVars, jobVars, mapVars, opVars, coVars, poolVars,
        timerVars
<1>1. ASSUME NEW h \in Handle, Complete(h) PROVE TypeOK'
  <2>1. posting' \subseteq Posted
    BY <1>1 DEF Complete, Posted, Job
  <2> QED BY <1>1, <2>1 DEF Complete
<1>2. ASSUME NEW h \in Handle, DelayEnds(h) PROVE TypeOK'
  <2>1. Enqueued(queue, "timer", h) \in Seq(Job)
    BY EnqueuedType DEF Job
  <2>2. TimerTypeOK'
    BY <1>2, TimerType DEF DelayEnds
  <2> QED BY <1>2, <2>1, <2>2 DEF DelayEnds
<1> QED BY <1>1, <1>2 DEF IOStep

LEMMA RunJobType ==
  ASSUME TypeOK, RunJob
  PROVE  TypeOK'
<1> USE DEF TypeOK, PoolTypeOK, TimerTypeOK, flagVars, jobVars, mapVars, opVars, coVars, poolVars,
        timerVars
<1>1. CASE RunTask
  <2>1. PICK t : t = Head(queue).arg
    OBVIOUS
  <2>2. Tail(queue) \in Seq(Job) /\ t \in Pushed
    BY <1>1, <2>1, TakenType DEF RunTask
  <2>3. CASE /\ GatedSince
             /\ promise' = Settle(promise, t, "rejected")
             /\ UNCHANGED <<stack, run, coVars, poolVars>>
    BY <1>1, <2>2, <2>3, SettleType DEF RunTask, Settled
  <2>4. CASE /\ ~GatedSince /\ t \notin Callback
             /\ AcquireRelease
             /\ promise' = Settle(promise, t, "error")
             /\ UNCHANGED <<stack, run, coVars>>
    BY <1>1, <2>2, <2>4, SettleType, AcquireReleaseType DEF RunTask, Settled, Outcome
  <2>5. CASE /\ ~GatedSince
             /\ \E co \in PoolCo : /\ Acquire(co)
                                   /\ Enter(co, "task", t)
                                   /\ owner' = [owner EXCEPT ![co] = t]
             /\ promise' = [promise EXCEPT ![t] = "active"]
    <3>1. PICK co \in PoolCo : /\ Acquire(co)
                               /\ Enter(co, "task", t)
                               /\ owner' = [owner EXCEPT ![co] = t]
      BY <2>5
    <3>2. PoolTypeOK'
      BY <3>1, AcquireType
    <3>3. /\ stack' \in Seq(Co)
          /\ run' \in [via : RunKinds, by : Handler \cup {None}]
          /\ status' \in [Co -> {"idle", "running", "parked", "dead", "freed"}]
          /\ waits_for' \in [Co -> Handle \cup {None}]
      BY <2>2, <3>1, EnterType DEF Co, RunKinds, JobArg, Handler, Promise
    <3>4. owner' \in [Co -> Handler \cup {None}]
      BY <2>2, <3>1 DEF Handler, Promise
    <3>5. promise' \in [Promise -> PromiseState]
      BY <2>5 DEF PromiseState
    <3> QED BY <1>1, <2>2, <3>2, <3>3, <3>4, <3>5 DEF RunTask
  <2> QED BY <1>1, <2>1, <2>3, <2>4, <2>5 DEF RunTask
<1>2. CASE RunResume
  <2>1. PICK h : h = Head(queue).arg
    OBVIOUS
  <2>2. Tail(queue) \in Seq(Job) /\ h \in Handle
    BY <1>2, <2>1, TakenType DEF RunResume
  <2>3. CASE shutting_down
    BY <1>2, <2>2, <2>3 DEF RunResume
  <2>4. CASE ~shutting_down
    <3>1. DoResume(h)
      BY <1>2, <2>1, <2>4 DEF RunResume
    <3> QED BY <1>2, <2>2, <3>1, DoResumeType DEF RunResume
  <2> QED BY <2>3, <2>4
<1>3. CASE RunTimer
  <2>1. PICK h : h = Head(queue).arg
    OBVIOUS
  <2>2. Tail(queue) \in Seq(Job) /\ h \in Handle
    BY <1>3, <2>1, TakenType DEF RunTimer
  <2>3. CASE /\ active_timers[h] = "none"
             /\ UNCHANGED <<stack, run, pending, pinned, coVars, unhandled_error,
                            poolVars, timerVars>>
    BY <1>3, <2>2, <2>3 DEF RunTimer
  <2>4. CASE /\ active_timers[h] = "sleep" /\ paused
             /\ RearmSleep(h)
             /\ UNCHANGED <<stack, run, pending, pinned, coVars, unhandled_error, poolVars>>
    <3>1. TimerTypeOK'
      BY <2>2, <2>4, TimerType
    <3> QED BY <1>3, <2>2, <2>4, <3>1 DEF RunTimer
  <2>5. CASE DoResume(h)
    BY <1>3, <2>2, <2>5, DoResumeType DEF RunTimer
  <2>6. CASE /\ TakeTimeout(h)
             /\ \E co \in PoolCo : Acquire(co) /\ Enter(co, "timeout", h)
             /\ UNCHANGED <<pending, pinned, owner, unhandled_error>>
    <3>1. TimerTypeOK'
      BY <2>2, <2>6, TimerType
    <3>2. PICK co \in PoolCo : Acquire(co) /\ Enter(co, "timeout", h)
      BY <2>6
    <3>3. PoolTypeOK'
      BY <3>2, AcquireType
    <3>4. /\ stack' \in Seq(Co)
          /\ run' \in [via : RunKinds, by : Handler \cup {None}]
          /\ status' \in [Co -> {"idle", "running", "parked", "dead", "freed"}]
          /\ waits_for' \in [Co -> Handle \cup {None}]
      BY <2>2, <3>2, EnterType DEF Co, RunKinds, JobArg, Handler
    <3> QED BY <1>3, <2>2, <2>6, <3>1, <3>3, <3>4 DEF RunTimer
  <2> QED BY <1>3, <2>1, <2>3, <2>4, <2>5, <2>6 DEF RunTimer
<1>4. CASE RunRequire
  <2>1. PICK h : h = Head(queue).arg
    OBVIOUS
  <2>2. Tail(queue) \in Seq(Job) /\ h \in Handle
    BY <1>4, <2>1, TakenType DEF RunRequire
  <2>3. CASE /\ GatedSince
             /\ queue' = Tail(queue)
             /\ UNCHANGED <<stack, run, coVars, poolVars>>
    BY <1>4, <2>2, <2>3 DEF RunRequire
  <2>4. CASE /\ AcquireRelease
             /\ queue' = PushResume(Tail(queue), h)
             /\ UNCHANGED <<stack, run, coVars>>
    BY <1>4, <2>2, <2>4, PushResumeType, AcquireReleaseType DEF RunRequire
  <2>5. CASE /\ \E co \in PoolCo : /\ Acquire(co)
                                   /\ Enter(co, "require", h)
                                   /\ owner' = [owner EXCEPT ![co] = h]
             /\ queue' = Tail(queue)
    <3>1. PICK co \in PoolCo : /\ Acquire(co)
                               /\ Enter(co, "require", h)
                               /\ owner' = [owner EXCEPT ![co] = h]
      BY <2>5
    <3>2. PoolTypeOK'
      BY <3>1, AcquireType
    <3>3. /\ stack' \in Seq(Co)
          /\ run' \in [via : RunKinds, by : Handler \cup {None}]
          /\ status' \in [Co -> {"idle", "running", "parked", "dead", "freed"}]
          /\ waits_for' \in [Co -> Handle \cup {None}]
      BY <2>2, <3>1, EnterType DEF Co, RunKinds, JobArg, Handler
    <3>4. owner' \in [Co -> Handler \cup {None}]
      BY <2>2, <3>1 DEF Handler
    <3> QED BY <1>4, <2>2, <2>5, <3>2, <3>3, <3>4 DEF RunRequire
  <2> QED BY <1>4, <2>1, <2>3, <2>4, <2>5 DEF RunRequire
<1>5. CASE RunLoadFile
  <2>1. Tail(queue) \in Seq(Job) /\ Head(queue).arg \in Handle
    BY <1>5, TakenType DEF RunLoadFile
  <2>2. queue' \in Seq(Job)
    <3>1. PushResume(Tail(queue), Head(queue).arg) \in Seq(Job)
      BY <2>1, PushResumeType
    <3> QED BY <1>5, <2>1, <3>1 DEF RunLoadFile
  <2>3. PoolTypeOK'
    BY <1>5, AcquireReleaseType DEF RunLoadFile
  <2> QED BY <1>5, <2>2, <2>3 DEF RunLoadFile
<1>6. CASE InterruptPass
  <2>1. Tail(queue) \in Seq(Job)
    BY <1>6, TakenType DEF InterruptPass
  <2>2. CASE /\ queue' = Tail(queue)
             /\ UNCHANGED <<mapVars, coVars, promise, poolVars, timerVars>>
    BY <1>6, <2>1, <2>2 DEF InterruptPass
  <2>3. CASE /\ SettleAll(Tail(queue), "interrupted")
             /\ Unpin(Handle) /\ Erase(Handle)
             /\ CancelTimers(Handle)
             /\ ReleaseAll
             /\ ResetActive
    <3>1. /\ promise' \in [Promise -> PromiseState]
          /\ completions' \in [Co -> Handler \cup {None}]
          /\ queue' \in Seq(Job)
      BY <2>1, <2>3, SettleAllType DEF Settled
    <3>2. TimerTypeOK'
      BY <2>3, CancelTimersType
    <3> QED BY <1>6, <2>3, <3>1, <3>2, ErasedType, ReleaseAllType, ResetActiveType
            DEF InterruptPass
  <2> QED BY <1>6, <2>2, <2>3 DEF InterruptPass
<1>7. CASE ClearInterrupt
  <2>1. Tail(queue) \in Seq(Job)
    BY <1>7, TakenType DEF ClearInterrupt
  <2> QED BY <1>7, <2>1 DEF ClearInterrupt
<1> QED BY <1>1, <1>2, <1>3, <1>4, <1>5, <1>6, <1>7 DEF RunJob

LEMMA ScriptStepType ==
  ASSUME TypeOK, ScriptStep
  PROVE  TypeOK'
<1> USE DEF TypeOK, PoolTypeOK, TimerTypeOK, flagVars, jobVars, mapVars, opVars, coVars, poolVars,
        timerVars
<1>1. ASSUME NEW kind \in OpKinds, Park(kind) PROVE TypeOK'
  <2>1. /\ next_handle \in Handle
        /\ TimerTypeOK'
        /\ op_kind' \in [Handle -> AsyncKinds \cup {"none", "timeout"}]
        /\ inflight' \subseteq Handle
    BY <1>1, StartOpType DEF Park
  <2>2. /\ Top \in Co
        /\ stack' \in Seq(Co)
        /\ run' \in [via : RunKinds, by : Handler \cup {None}]
        /\ status' \in [Co -> {"idle", "running", "parked", "dead", "freed"}]
        /\ waits_for' \in [Co -> Handle \cup {None}]
        /\ completions' \in [Co -> Handler \cup {None}]
        /\ promise' \in [Promise -> PromiseState]
    BY <1>1, <2>1, SuspendType DEF Park
  <2> QED BY <1>1, <2>1, <2>2 DEF Park, PreYield
<1>2. ASSUME NEW kind \in OpKinds, ParkFails(kind) PROVE TypeOK'
  <2>1. /\ next_handle \in Handle
        /\ TimerTypeOK'
        /\ op_kind' \in [Handle -> AsyncKinds \cup {"none", "timeout"}]
        /\ inflight' \subseteq Handle
    BY <1>2, StartOpType DEF ParkFails
  <2>2. Top \in Co
    BY <1>2, FrontIsSeq DEF ParkFails, Idle, Top
  <2> QED BY <1>2, <2>1, <2>2 DEF ParkFails, PreYield
<1>3. CASE HookYield \/ YieldPlain
  BY <1>3, SuspendType DEF HookYield, YieldPlain
<1>4. CASE SetTimeout
  <2>1. TimerTypeOK'
    BY <1>4, TimerType DEF SetTimeout
  <2> QED BY <1>4, <2>1 DEF SetTimeout
<1>5. ASSUME NEW h \in Handle, ClearTimeout(h) PROVE TypeOK'
  <2>1. TimerTypeOK'
    BY <1>5, CancelTimersType DEF ClearTimeout
  <2> QED BY <1>5, <2>1 DEF ClearTimeout
<1>6. ASSUME NEW co \in Co, ResumeByHand(co) PROVE TypeOK'
  BY <1>6 DEF ResumeByHand
<1>7. ASSUME NEW co \in Co, CloseByHand(co) PROVE TypeOK'
  BY <1>7 DEF CloseByHand
<1>8. CASE EndNested
  <2>1. Front(stack) \in Seq(Co)
    <3>1. stack # <<>>
      BY <1>8, EmptySeq DEF EndNested
    <3> QED BY <3>1, FrontIsSeq
  <2> QED BY <1>8, <2>1 DEF EndNested
<1>9. CASE EndRequire
  <2>1. promise' \in [Promise -> PromiseState] /\ queue' \in Seq(Job)
    BY <1>9, TellType DEF EndRequire, Settled, Outcome
  <2>2. NoRun \in [via : RunKinds, by : Handler \cup {None}]
    BY DEF NoRun, RunKinds
  <2> QED BY <1>9, <2>1, <2>2, ReleaseCoroutineType DEF EndRequire
<1>10. ASSUME NEW outcome \in Outcome, EndRecycled(outcome) PROVE TypeOK'
  <2>1. PICK before, handler : /\ before \in {promise, Dropped(promise, completions[Top])}
                               /\ Tell(before, queue, handler, outcome)
                               /\ unhandled_error' = (unhandled_error \/
                                                      (outcome = "error" /\ handler = None))
    BY <1>10 DEF EndRecycled
  <2>2. before \in [Promise -> PromiseState]
    <3>1. promise \in [Promise -> PromiseState]
      OBVIOUS
    <3>2. Dropped(promise, completions[Top]) \in [Promise -> PromiseState]
      BY <3>1, DroppedType
    <3> QED BY <2>1, <3>1, <3>2
  <2>3. promise' \in [Promise -> PromiseState] /\ queue' \in Seq(Job)
    BY <2>1, <2>2, TellType DEF Settled
  <2>4. completions' \in [Co -> Handler \cup {None}]
    BY <1>10 DEF EndRecycled, Forget
  <2>5. NoRun \in [via : RunKinds, by : Handler \cup {None}]
    BY DEF NoRun, RunKinds
  <2>6. unhandled_error' \in BOOLEAN
    BY <2>1
  <2>7. stack' \in Seq(Co)
    BY <1>10 DEF EndRecycled
  <2> QED BY <1>10, <2>3, <2>4, <2>5, <2>6, <2>7, CleanupType, ReleaseCoroutineType
          DEF EndRecycled
<1>11. ASSUME NEW outcome \in Outcome, EndCall(outcome) PROVE TypeOK'
  <2>1. promise' \in [Promise -> PromiseState] /\ queue' \in Seq(Job)
    BY <1>11, TellType DEF EndCall, Settled
  <2>2. NoRun \in [via : RunKinds, by : Handler \cup {None}]
    BY DEF NoRun, RunKinds
  <2> QED BY <1>11, <2>1, <2>2, CleanupType, ReleaseCoroutineType DEF EndCall
<1> QED BY <1>1, <1>2, <1>3, <1>4, <1>5, <1>6, <1>7, <1>8, <1>9, <1>10, <1>11
        DEF ScriptStep, End

\* Type correctness, whatever the scripts, the hosts and the other threads do.
THEOREM TypeCorrect == Spec => []TypeOK
<1>1. Init => TypeOK
  <2> SUFFICES ASSUME Init PROVE TypeOK
    OBVIOUS
  <2>1. PoolTypeOK
    BY DEF Init, PoolInit, PoolTypeOK
  <2>2. TimerTypeOK
    BY MaxHandleIsNat DEF Init, TimerInit, TimerTypeOK, Handle
  <2>3. promise \in [Promise -> PromiseState]
    BY DEF Init, PromiseState
  <2>4. run \in [via : RunKinds, by : Handler \cup {None}]
    BY DEF Init, NoRun, RunKinds
  <2>5. {shutting_down, interrupted, paused, destroyed, unhandled_error} \subseteq BOOLEAN
    BY DEF Init
  <2>6. queue \in Seq(Job) /\ posting \subseteq Posted /\ stack \in Seq(Co)
    BY DEF Init
  <2>7. /\ pending \in [Handle -> Co \cup {None}]
        /\ pinned \in [Handle -> Co \cup {None}]
        /\ completions \in [Co -> Handler \cup {None}]
        /\ op_kind \in [Handle -> AsyncKinds \cup {"none", "timeout"}]
        /\ inflight \subseteq Handle
        /\ status \in [Co -> {"idle", "running", "parked", "dead", "freed"}]
        /\ waits_for \in [Co -> Handle \cup {None}]
        /\ owner \in [Co -> Handler \cup {None}]
    BY DEF Init
  <2> QED BY <2>1, <2>2, <2>3, <2>4, <2>5, <2>6, <2>7 DEF TypeOK
<1>2. TypeOK /\ [Next]_vars => TypeOK'
  <2> SUFFICES ASSUME TypeOK, [Next]_vars PROVE TypeOK'
    OBVIOUS
  <2>1. ASSUME NEW co \in ScriptCo, Collect(co) PROVE TypeOK'
    BY <2>1 DEF Collect, TypeOK, PoolTypeOK, TimerTypeOK, flagVars, jobVars, mapVars, opVars,
       poolVars, timerVars
  <2>2. CASE UNCHANGED vars
    BY <2>2 DEF vars, TypeOK, PoolTypeOK, TimerTypeOK, flagVars, jobVars, mapVars, opVars, coVars,
       poolVars, timerVars
  <2> QED BY <2>1, <2>2, HostStepType, ThreadStepType, IOStepType, RunJobType, ScriptStepType DEF Next
<1> QED BY <1>1, <1>2, PTL DEF Spec

-----------------------------------------------------------------------------
(* The pin table and the collector *)

\* Every path that takes an entry out of pending unpins its coroutine, and
\* every path that enters one pins it.
LEMMA PinsStep ==
  ASSUME TypeOK, PinsMatchPending, [Next]_vars
  PROVE  PinsMatchPending'
<1> USE DEF PinsMatchPending, mapVars
<1>1. ASSUME NEW S, Unpin(S), Erase(S) PROVE PinsMatchPending'
  BY <1>1 DEF Unpin, Erase
<1>2. ASSUME NEW co, CleanupStalePendings(co) \/ DropPendings(co) PROVE PinsMatchPending'
  BY <1>1, <1>2 DEF CleanupStalePendings, DropPendings
<1>3. ASSUME NEW h, DoResume(h) PROVE PinsMatchPending'
  BY <1>1, <1>2, <1>3 DEF DoResume
<1>4. CASE HostStep
  BY <1>1, <1>2, <1>4 DEF HostStep, PushTask, CallAsync, CancelCall, Interrupt,
     AskClearInterrupt, PauseOrResume, BeginShutdown, TakeUnhandledError, Destroy
<1>5. CASE ThreadStep \/ IOStep
  BY <1>5 DEF ThreadStep, Schedule, IOStep, Complete, DelayEnds
<1>6. CASE RunJob
  BY <1>1, <1>3, <1>6 DEF RunJob, RunTask, RunResume, RunTimer, RunRequire, RunLoadFile,
     InterruptPass, ClearInterrupt
<1>7. CASE ScriptStep
  <2>1. ASSUME NEW kind, Park(kind) \/ ParkFails(kind) PROVE PinsMatchPending'
    BY <2>1 DEF Park, ParkFails, PreYield
  <2> QED BY <1>2, <1>7, <2>1 DEF ScriptStep, HookYield, YieldPlain, SetTimeout, ClearTimeout,
          ResumeByHand, CloseByHand, End, EndNested, EndRequire, EndRecycled, EndCall
<1>8. CASE \E co \in ScriptCo : Collect(co)
  BY <1>8 DEF Collect
<1>9. CASE UNCHANGED vars
  BY <1>9 DEF vars
<1> QED BY <1>4, <1>5, <1>6, <1>7, <1>8, <1>9 DEF Next

LEMMA PinsAlwaysMatch == Spec => []PinsMatchPending
<1>1. Init => PinsMatchPending
  BY DEF Init, PinsMatchPending
<1> QED BY <1>1, PinsStep, TypeCorrect, PTL DEF Spec

-----------------------------------------------------------------------------

\* A stack that is emptied, or replaced by one running coroutine, is in order.
LEMMA FreshStack ==
  ASSUME \/ stack' = <<>>
         \/ \E co \in Co : stack' = <<co>> /\ status' = [status EXCEPT ![co] = "running"],
         TypeOK
  PROVE  StackIsRunning'
BY DEF StackIsRunning, TypeOK

\* The innermost coroutine leaves the stack, whatever its status becomes.
LEMMA PoppedStack ==
  ASSUME TypeOK, StackIsRunning, ~Idle, stack' = Front(stack),
         NEW new, status' = [status EXCEPT ![Top] = new]
  PROVE  StackIsRunning'
<1>1. stack \in Seq(Co) /\ stack # <<>> /\ status \in [Co -> {"idle", "running", "parked", "dead", "freed"}]
  BY DEF TypeOK, Idle
<1>2. Len(stack) \in Nat \ {0} /\ DOMAIN stack = 1..Len(stack)
  BY <1>1, EmptySeq, LenProperties
<1>3. \A i \in 1..Len(stack) : stack[i] \in Co
  BY <1>1, ElementOfSeq
<1>4. /\ Front(stack) \in Seq(Co)
      /\ Len(Front(stack)) = Len(stack) - 1
      /\ \A i \in 1..(Len(stack) - 1) : Front(stack)[i] = stack[i]
  BY <1>1, FrontIsSeq
<1>5. DOMAIN Front(stack) = 1..(Len(stack) - 1)
  BY <1>4, LenProperties
<1>6. Top = stack[Len(stack)]
  BY DEF Top, Last
<1>7. \A i \in 1..(Len(stack) - 1) : stack[i] # Top
  BY <1>2, <1>6 DEF StackIsRunning
<1>8. \A i \in DOMAIN stack' : stack'[i] = stack[i] /\ i \in DOMAIN stack /\ stack[i] # Top
  BY <1>2, <1>4, <1>5, <1>7
<1>9. \A i \in DOMAIN stack' : status'[stack'[i]] = status[stack[i]]
  BY <1>1, <1>2, <1>3, <1>8
<1> QED BY <1>8, <1>9 DEF StackIsRunning

\* A coroutine that is not running is on the stack nowhere.
LEMMA StackStep ==
  ASSUME TypeOK, StackIsRunning, [Next]_vars
  PROVE  StackIsRunning'
<1>1. ASSUME Idle, stack' = stack PROVE StackIsRunning'
  BY <1>1, FreshStack DEF Idle
<1>2. ASSUME stack' = stack, status' = status PROVE StackIsRunning'
  BY <1>2 DEF StackIsRunning
<1>3. ASSUME NEW co \in Co, NEW via, NEW by, Enter(co, via, by) PROVE StackIsRunning'
  BY <1>3, FreshStack DEF Enter
<1>4. ASSUME NEW co \in Co, status[co] # "running", stack' = stack,
             NEW new, status' = [status EXCEPT ![co] = new]
      PROVE  StackIsRunning'
  BY <1>4 DEF StackIsRunning, TypeOK
<1>5. CASE HostStep
  BY <1>1, <1>2, <1>3, <1>5 DEF HostStep, PushTask, CallAsync, CancelCall, Interrupt, Co,
     AskClearInterrupt, PauseOrResume, BeginShutdown, TakeUnhandledError, Destroy, coVars
<1>6. CASE ThreadStep \/ IOStep
  BY <1>2, <1>6 DEF ThreadStep, Schedule, IOStep, Complete, DelayEnds, coVars
<1>7. ASSUME NEW h \in Handle, Idle, DoResume(h) PROVE StackIsRunning'
  <2>1. pending[h] # None => pending[h] \in Co
    BY DEF TypeOK
  <2> QED BY <1>1, <1>3, <1>7, <2>1 DEF DoResume
<1>8. CASE RunJob
  <2>1. Idle
    BY <1>8 DEF RunJob, RunTask, RunResume, RunTimer, RunRequire, RunLoadFile, InterruptPass,
       ClearInterrupt, At
  <2>2. CASE RunTask
    BY <1>1, <1>3, <2>1, <2>2 DEF RunTask, Co
  <2>3. CASE RunResume
    <3>1. Head(queue).arg \in Handle
      BY <2>3, TakenType DEF RunResume, TypeOK
    <3> QED BY <1>1, <1>7, <2>1, <2>3, <3>1 DEF RunResume
  <2>4. CASE RunTimer
    <3>1. Head(queue).arg \in Handle
      BY <2>4, TakenType DEF RunTimer, TypeOK
    <3> QED BY <1>1, <1>3, <1>7, <2>1, <2>4, <3>1 DEF RunTimer, Co
  <2>5. CASE RunRequire
    BY <1>1, <1>3, <2>1, <2>5 DEF RunRequire, Co
  <2>6. CASE RunLoadFile \/ InterruptPass \/ ClearInterrupt
    BY <1>1, <2>1, <2>6 DEF RunLoadFile, InterruptPass, ClearInterrupt
  <2> QED BY <1>8, <2>2, <2>3, <2>4, <2>5, <2>6 DEF RunJob
<1>9. CASE ScriptStep
  <2>1. ASSUME NEW w, ~Idle, Suspend(w) PROVE StackIsRunning'
    BY <2>1, PoppedStack DEF Suspend
  <2>2. ASSUME NEW kind, Park(kind) \/ ParkFails(kind) PROVE StackIsRunning'
    BY <1>2, <2>1, <2>2 DEF Park, ParkFails, coVars
  <2>3. CASE HookYield \/ YieldPlain
    BY <2>1, <2>3 DEF HookYield, YieldPlain
  <2>4. ASSUME NEW co \in Co, ResumeByHand(co) PROVE StackIsRunning'
    <3>1. /\ stack' = Append(stack, co)
          /\ status' = [status EXCEPT ![co] = "running"]
          /\ status[co] # "running"
      BY <2>4 DEF ResumeByHand
    <3>2. /\ Len(stack) \in Nat
          /\ DOMAIN stack = 1..Len(stack)
          /\ DOMAIN stack' = 1..(Len(stack) + 1)
          /\ \A i \in 1..Len(stack) : stack'[i] = stack[i] /\ stack[i] \in Co
          /\ stack'[Len(stack) + 1] = co
      BY <3>1, AppendProperties DEF TypeOK
    <3>3. \A i \in 1..Len(stack) : stack[i] # co
      BY <3>1, <3>2 DEF StackIsRunning
    <3> QED BY <3>1, <3>2, <3>3 DEF StackIsRunning, TypeOK
  <2>5. ASSUME NEW co \in Co, CloseByHand(co) PROVE StackIsRunning'
    BY <1>4, <2>5 DEF CloseByHand
  <2>6. CASE EndNested
    <3>1. ~Idle
      BY <2>6, EmptySeq DEF EndNested, Idle
    <3> QED BY <2>6, <3>1, PoppedStack DEF EndNested
  <2>7. CASE EndRequire \/ \E outcome \in Outcome : EndRecycled(outcome) \/ EndCall(outcome)
    BY <2>7, FreshStack DEF EndRequire, EndRecycled, EndCall
  <2>8. CASE SetTimeout \/ \E h \in Handle : ClearTimeout(h)
    BY <1>2, <2>8 DEF SetTimeout, ClearTimeout, coVars
  <2> QED BY <1>9, <2>2, <2>3, <2>4, <2>5, <2>6, <2>7, <2>8 DEF ScriptStep, End
<1>10. CASE \E co \in ScriptCo : Collect(co)
  BY <1>4, <1>10 DEF Collect, Co
<1>11. CASE UNCHANGED vars
  BY <1>2, <1>11 DEF vars, coVars
<1> QED BY <1>5, <1>6, <1>8, <1>9, <1>10, <1>11 DEF Next

\* The collector frees what is not pinned, so never what is pending; and a
\* coroutine enters pending while it runs.
LEMMA NotFreedStep ==
  ASSUME TypeOK, PinsMatchPending, StackIsRunning, ParkedNotFreed, [Next]_vars
  PROVE  ParkedNotFreed'
<1> USE DEF ParkedNotFreed
<1>1. ASSUME \A h \in Handle : pending'[h] \in {pending[h], None},
             \A co \in Co : status'[co] = "freed" => status[co] = "freed"
      PROVE  ParkedNotFreed'
  BY <1>1 DEF TypeOK
<1>2. ASSUME NEW S, Erase(S)
      PROVE  \A h \in Handle : pending'[h] \in {pending[h], None}
  BY <1>2 DEF Erase
<1>3. ASSUME NEW co, CleanupStalePendings(co) \/ DropPendings(co)
      PROVE  \A h \in Handle : pending'[h] \in {pending[h], None}
  BY <1>2, <1>3 DEF CleanupStalePendings, DropPendings
<1>4. ASSUME \/ \E co, via, by : Enter(co, via, by)
             \/ \E co : ReleaseCoroutine(co)
             \/ \E w : Suspend(w)
             \/ ResetActive
      PROVE  \A co \in Co : status'[co] = "freed" => status[co] = "freed"
  BY <1>4 DEF Enter, ReleaseCoroutine, Suspend, ResetActive, TypeOK
<1>5. ASSUME NEW h, DoResume(h) PROVE ParkedNotFreed'
  BY <1>1, <1>2, <1>3, <1>4, <1>5 DEF DoResume, coVars
<1>6. CASE HostStep
  BY <1>1, <1>2, <1>3, <1>4, <1>6 DEF HostStep, PushTask, CallAsync, CancelCall, Interrupt,
     AskClearInterrupt, PauseOrResume, BeginShutdown, TakeUnhandledError, Destroy, mapVars, coVars
<1>7. CASE ThreadStep \/ IOStep
  BY <1>1, <1>7 DEF ThreadStep, Schedule, IOStep, Complete, DelayEnds, mapVars, coVars
<1>8. CASE RunJob
  <2>1. CASE RunTask
    BY <1>1, <1>4, <2>1 DEF RunTask, mapVars, coVars
  <2>2. CASE RunResume
    BY <1>1, <1>5, <2>2 DEF RunResume, coVars
  <2>3. CASE RunTimer
    BY <1>1, <1>4, <1>5, <2>3 DEF RunTimer, coVars
  <2>4. CASE RunRequire
    BY <1>1, <1>4, <2>4 DEF RunRequire, mapVars, coVars
  <2>5. CASE RunLoadFile \/ ClearInterrupt
    BY <1>1, <2>5 DEF RunLoadFile, ClearInterrupt, mapVars, coVars
  <2>6. CASE InterruptPass
    BY <1>1, <1>2, <1>4, <2>6 DEF InterruptPass, mapVars, coVars
  <2> QED BY <1>8, <2>1, <2>2, <2>3, <2>4, <2>5, <2>6 DEF RunJob
<1>9. CASE ScriptStep
  <2>1. ~Idle => Top \in Co /\ status[Top] = "running"
    <3> SUFFICES ASSUME ~Idle PROVE Top \in Co /\ status[Top] = "running"
      OBVIOUS
    <3>1. Len(stack) \in DOMAIN stack
      BY EmptySeq, LenProperties DEF TypeOK, Idle
    <3> QED BY <3>1, FrontIsSeq DEF TypeOK, Idle, Top, Last, StackIsRunning
  <2>2. ASSUME NEW kind, Park(kind) PROVE ParkedNotFreed'
    BY <2>1, <2>2 DEF Park, PreYield, Suspend, TypeOK
  <2>3. ASSUME NEW kind, ParkFails(kind) PROVE ParkedNotFreed'
    BY <2>1, <2>3 DEF ParkFails, PreYield, coVars, TypeOK
  <2>4. CASE HookYield \/ YieldPlain
    BY <1>1, <1>4, <2>4 DEF HookYield, YieldPlain
  <2>5. ASSUME NEW co, ResumeByHand(co) \/ CloseByHand(co) PROVE ParkedNotFreed'
    BY <1>1, <2>5 DEF ResumeByHand, CloseByHand, mapVars, TypeOK
  <2>6. CASE EndNested
    BY <1>1, <2>6 DEF EndNested, mapVars, TypeOK
  <2>7. CASE EndRequire \/ \E outcome \in Outcome : EndRecycled(outcome) \/ EndCall(outcome)
    BY <1>1, <1>3, <1>4, <2>7 DEF EndRequire, EndRecycled, EndCall
  <2>8. CASE SetTimeout \/ \E h \in Handle : ClearTimeout(h)
    BY <1>1, <2>8 DEF SetTimeout, ClearTimeout, mapVars, coVars
  <2> QED BY <1>9, <2>2, <2>3, <2>4, <2>5, <2>6, <2>7, <2>8 DEF ScriptStep, End
<1>10. ASSUME NEW co \in ScriptCo, Collect(co) PROVE ParkedNotFreed'
  BY <1>10 DEF Collect, PinsMatchPending, mapVars, TypeOK, Co
<1>11. CASE UNCHANGED vars
  BY <1>1, <1>11 DEF vars, mapVars, coVars
<1> QED BY <1>6, <1>7, <1>8, <1>9, <1>10, <1>11 DEF Next

\* No completion ever dereferences a thread that the collector has freed,
\* whatever scripts hold, resume or close by hand.
THEOREM NoDanglingPending == Spec => []ParkedNotFreed
<1>1. Init => StackIsRunning /\ ParkedNotFreed
  BY DEF Init, StackIsRunning, ParkedNotFreed
<1> QED BY <1>1, StackStep, NotFreedStep, PinsAlwaysMatch, TypeCorrect, PTL DEF Spec

-----------------------------------------------------------------------------
(* Who owns a Lua thread: a completion handler always belongs to the work  *)
(* its coroutine was checked out for, as long as scripts resume and close  *)
(* by hand only threads of their own.                                      *)

\* What makes CompletionMatchesOwner inductive, next to StackIsRunning.
Discipline ==
  /\ PoolIsSound
  /\ BusyIsCheckedOut
  /\ RunningIsOnStack
  /\ RunOwnsThread
  /\ CompletionMatchesOwner

-----------------------------------------------------------------------------
(* The free list *)

\* Acquire hands out a thread nobody has.
LEMMA AcquireSound ==
  ASSUME TypeOK, PoolIsSound, NEW co \in PoolCo, Acquire(co)
  PROVE  /\ PoolIsSound'
         /\ co \notin active_co_refs
         /\ active_co_refs' = active_co_refs \cup {co}
<1>1. co_pool \in Seq(PoolCo)
  BY DEF TypeOK, PoolTypeOK
<1>2. CASE co_pool # <<>> /\ co = Last(co_pool) /\ co_pool' = Front(co_pool)
  <2>1. /\ Len(co_pool) \in Nat \ {0}
        /\ DOMAIN co_pool = 1..Len(co_pool)
        /\ co = co_pool[Len(co_pool)]
    BY <1>1, <1>2, EmptySeq, LenProperties DEF Last
  <2>2. /\ DOMAIN co_pool' = 1..(Len(co_pool) - 1)
        /\ \A i \in 1..(Len(co_pool) - 1) : co_pool'[i] = co_pool[i]
    BY <1>1, <1>2, FrontIsSeq, LenProperties
  <2>3. co \notin active_co_refs
    BY <2>1 DEF PoolIsSound
  <2>4. \A i \in DOMAIN co_pool' : co_pool'[i] = co_pool[i] /\ i \in DOMAIN co_pool /\ i # Len(co_pool)
    BY <2>1, <2>2
  <2>5. \A i \in DOMAIN co_pool' : co_pool'[i] # co
    BY <2>1, <2>4 DEF PoolIsSound
  <2> QED BY <2>3, <2>4, <2>5 DEF PoolIsSound, Acquire
<1>3. CASE co_pool = <<>> /\ co \in PoolCo \ active_co_refs /\ co_pool' = co_pool
  BY <1>3 DEF PoolIsSound, Acquire
<1> QED BY <1>2, <1>3 DEF Acquire

LEMMA AcquireReleaseSound ==
  ASSUME PoolIsSound, AcquireRelease
  PROVE  PoolIsSound'
BY DEF PoolIsSound, AcquireRelease

\* Release puts back what was checked out, so nothing twice.
LEMMA ReleaseSound ==
  ASSUME TypeOK, PoolIsSound, NEW co, Release(co)
  PROVE  PoolIsSound'
<1>1. CASE co \in active_co_refs
  <2>1. /\ DOMAIN co_pool = 1..Len(co_pool) /\ Len(co_pool) \in Nat
        /\ DOMAIN co_pool' = 1..(Len(co_pool) + 1)
        /\ \A i \in 1..Len(co_pool) : co_pool'[i] = co_pool[i]
        /\ co_pool'[Len(co_pool) + 1] = co
    BY <1>1, AppendProperties DEF Release, TypeOK, PoolTypeOK
  <2>2. \A i \in DOMAIN co_pool : co_pool[i] # co
    BY <1>1 DEF PoolIsSound
  <2> QED BY <2>1, <2>2 DEF PoolIsSound, Release
<1>2. CASE co \notin active_co_refs
  BY <1>2 DEF PoolIsSound, Release
<1> QED BY <1>1, <1>2

LEMMA ReleaseAllSound ==
  ASSUME TypeOK, PoolIsSound, ReleaseAll
  PROVE  PoolIsSound'
<1>1. IsFiniteSet(active_co_refs)
  BY PoolCoFinite, FS_Subset DEF TypeOK, PoolTypeOK
<1>2. PICK order \in SetToSeqs(active_co_refs) : co_pool' = co_pool \o order
  BY DEF ReleaseAll
<1>3. order \in Seq(active_co_refs) /\ Cardinality(active_co_refs) \in Nat
  BY <1>1, OrderIsSeq, FS_CardinalityType
<1>4. /\ DOMAIN order = 1..Cardinality(active_co_refs)
      /\ \A i, j \in DOMAIN order : order[i] = order[j] => i = j
      /\ \A i \in DOMAIN order : order[i] \in active_co_refs
  BY <1>3 DEF SetToSeqs
<1>5. /\ Len(co_pool) \in Nat /\ DOMAIN co_pool = 1..Len(co_pool)
      /\ Len(order) \in Nat /\ DOMAIN order = 1..Len(order)
  BY <1>3 DEF TypeOK, PoolTypeOK
<1>6. /\ DOMAIN co_pool' = 1..(Len(co_pool) + Len(order))
      /\ \A i \in 1..(Len(co_pool) + Len(order)) :
           co_pool'[i] = IF i <= Len(co_pool) THEN co_pool[i] ELSE order[i - Len(co_pool)]
  BY <1>2, <1>3, <1>5, ConcatProperties DEF TypeOK, PoolTypeOK
<1>7. ASSUME NEW i \in DOMAIN co_pool', NEW j \in DOMAIN co_pool', co_pool'[i] = co_pool'[j]
      PROVE  i = j
  <2>1. CASE i <= Len(co_pool) /\ j <= Len(co_pool)
    BY <1>5, <1>6, <1>7, <2>1 DEF PoolIsSound
  <2>2. CASE i > Len(co_pool) /\ j > Len(co_pool)
    <3>1. i - Len(co_pool) \in DOMAIN order /\ j - Len(co_pool) \in DOMAIN order
      BY <1>5, <1>6, <2>2
    <3>2. order[i - Len(co_pool)] = order[j - Len(co_pool)]
      BY <1>5, <1>6, <1>7, <2>2
    <3>3. i - Len(co_pool) = j - Len(co_pool)
      BY <1>4, <3>1, <3>2
    <3> QED BY <1>5, <1>6, <3>3
  <2>3. ASSUME NEW k \in DOMAIN co_pool', NEW l \in DOMAIN co_pool',
               k <= Len(co_pool), l > Len(co_pool)
        PROVE  co_pool'[k] # co_pool'[l]
    <3>1. k \in DOMAIN co_pool /\ l - Len(co_pool) \in DOMAIN order
      BY <1>5, <1>6, <2>3
    <3>2. co_pool[k] \notin active_co_refs /\ order[l - Len(co_pool)] \in active_co_refs
      BY <1>4, <3>1 DEF PoolIsSound
    <3> QED BY <1>5, <1>6, <2>3, <3>2
  <2> QED BY <1>5, <1>6, <1>7, <2>1, <2>2, <2>3
<1> QED BY <1>7 DEF PoolIsSound, ReleaseAll

-----------------------------------------------------------------------------
(* What each kind of step does to the discipline *)

\* Only the outermost coroutine can be a thread of the pool.
LEMMA BottomOfStack ==
  ASSUME TypeOK, StackIsRunning, RunningIsOnStack, ~Idle
  PROVE  /\ Len(stack) \in Nat \ {0} /\ DOMAIN stack = 1..Len(stack)
         /\ \A i \in DOMAIN stack : stack[i] \in Co
         /\ Top = stack[Len(stack)] /\ Top \in Co /\ status[Top] = "running"
         /\ Len(stack) > 1 => Top \in ScriptCo
<1>1. Len(stack) \in Nat \ {0} /\ DOMAIN stack = 1..Len(stack)
  BY EmptySeq, LenProperties DEF TypeOK, Idle
<1>2. \A i \in DOMAIN stack : stack[i] \in Co
  BY <1>1, ElementOfSeq DEF TypeOK
<1>3. Top = stack[Len(stack)] /\ Len(stack) \in DOMAIN stack
  BY <1>1 DEF Top, Last
<1> QED BY <1>1, <1>2, <1>3 DEF StackIsRunning, RunningIsOnStack

LEMMA UntouchedStep ==
  ASSUME Discipline,
         UNCHANGED <<stack, run, completions, status, owner, active_co_refs>>,
         co_pool' = co_pool \/ AcquireRelease
  PROVE  Discipline'
<1>1. PoolIsSound'
  BY AcquireReleaseSound DEF Discipline, PoolIsSound
<1> QED BY <1>1 DEF Discipline, BusyIsCheckedOut, RunningIsOnStack, RunOwnsThread, Idle,
        CompletionMatchesOwner

\* A thread is checked out and entered.
LEMMA StartStep ==
  ASSUME TypeOK, Discipline, Idle, NEW co \in PoolCo, NEW via, NEW by,
         Acquire(co), Enter(co, via, by), UNCHANGED completions,
         \/ owner' = [owner EXCEPT ![co] = by]
         \/ via \notin Awaited /\ owner' = owner
  PROVE  Discipline'
<1>1. PoolIsSound' /\ co \notin active_co_refs /\ active_co_refs' = active_co_refs \cup {co}
  BY AcquireSound DEF Discipline
<1>2. co \in Co /\ completions[co] = None
  BY <1>1 DEF Discipline, CompletionMatchesOwner, Co
<1>3. stack' = <<co>> /\ DOMAIN stack' = {1} /\ stack'[1] = co
  BY DEF Enter
<1>4. status' = [status EXCEPT ![co] = "running"] /\ run'.via = via /\ run'.by = by
  BY DEF Enter
<1>5. BusyIsCheckedOut'
  BY <1>1, <1>4 DEF Discipline, BusyIsCheckedOut, TypeOK, Co
<1>6. RunningIsOnStack'
  BY <1>3, <1>4 DEF Discipline, RunningIsOnStack, TypeOK, Idle
<1>7. RunOwnsThread'
  BY <1>1, <1>2, <1>3, <1>4 DEF RunOwnsThread, TypeOK
<1>8. CompletionMatchesOwner'
  BY <1>1, <1>2 DEF Discipline, CompletionMatchesOwner, TypeOK
<1> QED BY <1>1, <1>5, <1>6, <1>7, <1>8 DEF Discipline

\* A parked thread is resumed by its completion.
LEMMA ResumeStep ==
  ASSUME TypeOK, Discipline, Idle, NEW co \in Co, status[co] = "parked", NEW h,
         Enter(co, "resume", h), UNCHANGED <<completions, owner, poolVars>>
  PROVE  Discipline'
<1>1. stack' = <<co>> /\ DOMAIN stack' = {1} /\ stack'[1] = co
  BY DEF Enter
<1>2. status' = [status EXCEPT ![co] = "running"] /\ run'.via = "resume"
  BY DEF Enter
<1>3. PoolIsSound' /\ CompletionMatchesOwner'
  BY DEF Discipline, PoolIsSound, CompletionMatchesOwner, poolVars
<1>4. BusyIsCheckedOut'
  BY <1>2 DEF Discipline, BusyIsCheckedOut, TypeOK, Co, poolVars
<1>5. RunningIsOnStack'
  BY <1>1, <1>2 DEF Discipline, RunningIsOnStack, TypeOK, Idle
<1>6. RunOwnsThread'
  BY <1>2 DEF RunOwnsThread, Awaited
<1> QED BY <1>3, <1>4, <1>5, <1>6 DEF Discipline

\* A thread ends, or is given up: it goes back to the pool without a handler.
LEMMA ReleaseStep ==
  ASSUME TypeOK, Discipline, NEW co \in Co, ReleaseCoroutine(co), stack' = <<>>,
         \A c \in Co : status[c] = "running" => c = co,
         \/ completions' = [completions EXCEPT ![co] = None]
         \/ completions' = completions /\ completions[co] = None
  PROVE  Discipline'
<1>1. PoolIsSound' /\ active_co_refs' = active_co_refs \ {co}
  BY ReleaseSound DEF Discipline, ReleaseCoroutine, Release
<1>2. status' = [status EXCEPT ![co] = IF co \in active_co_refs \/ @ = "idle" THEN "idle"
                                                                            ELSE "dead"]
  BY DEF ReleaseCoroutine
<1>3. \A c \in Co : c # co => status'[c] = status[c] /\ owner'[c] = owner[c]
                              /\ completions'[c] = completions[c]
  BY DEF ReleaseCoroutine, TypeOK
<1>4. completions'[co] = None /\ status'[co] # "running"
  BY <1>2 DEF TypeOK
<1>5. BusyIsCheckedOut'
  <2>1. co \in PoolCo => status'[co] = "idle"
    BY <1>2 DEF Discipline, BusyIsCheckedOut, TypeOK
  <2> QED BY <1>1, <1>3, <2>1 DEF Discipline, BusyIsCheckedOut, Co
<1>6. RunningIsOnStack'
  BY <1>3, <1>4 DEF RunningIsOnStack
<1>7. RunOwnsThread'
  BY DEF RunOwnsThread, Idle
<1>8. CompletionMatchesOwner'
  BY <1>1, <1>3, <1>4 DEF Discipline, CompletionMatchesOwner
<1> QED BY <1>1, <1>5, <1>6, <1>7, <1>8 DEF Discipline

\* The pool takes back everything: the completion pass, or shutdown.
LEMMA TakeBackStep ==
  ASSUME TypeOK, Discipline, Idle, stack' = stack, ResetActive,
         ReleaseAll \/ ShutdownPool, completions' = [co \in Co |-> None]
  PROVE  Discipline'
<1>1. PoolIsSound' /\ active_co_refs' = {}
  BY ReleaseAllSound DEF Discipline, ReleaseAll, ShutdownPool, PoolIsSound
<1>2. \A co \in Co : status'[co] = IF co \in active_co_refs THEN "idle" ELSE status[co]
  BY DEF ResetActive
<1>3. BusyIsCheckedOut'
  BY <1>1, <1>2 DEF Discipline, BusyIsCheckedOut, Co
<1>4. RunningIsOnStack' /\ RunOwnsThread'
  BY <1>2 DEF Discipline, RunningIsOnStack, RunOwnsThread, Idle
<1>5. CompletionMatchesOwner'
  BY DEF CompletionMatchesOwner
<1> QED BY <1>1, <1>3, <1>4, <1>5 DEF Discipline

\* The status of a thread of a script changes, and it stops running.
LEMMA ScriptThreadStep ==
  ASSUME TypeOK, Discipline, NEW co \in ScriptCo, NEW new, new # "running",
         status' = [status EXCEPT ![co] = new],
         UNCHANGED <<run, completions, owner, poolVars>>,
         \/ stack' = stack /\ status[co] # "running"
         \/ StackIsRunning /\ Len(stack) > 1 /\ Top = co /\ stack' = Front(stack)
  PROVE  Discipline'
<1>1. \A c \in Co : c # co => status'[c] = status[c]
  BY DEF TypeOK
<1>2. co \notin PoolCo /\ co \in Co /\ status'[co] = new
  BY RuntimeAssumption DEF Co, TypeOK
<1>3. PoolIsSound' /\ BusyIsCheckedOut' /\ CompletionMatchesOwner'
  BY <1>1, <1>2 DEF Discipline, PoolIsSound, BusyIsCheckedOut, CompletionMatchesOwner,
     poolVars, Co
<1>4. CASE stack' = stack /\ status[co] # "running"
  BY <1>1, <1>2, <1>3, <1>4 DEF Discipline, RunningIsOnStack, RunOwnsThread, Idle, poolVars
<1>5. CASE StackIsRunning /\ Len(stack) > 1 /\ Top = co /\ stack' = Front(stack)
  <2>1. stack \in Seq(Co) /\ stack # <<>> /\ ~Idle
    BY <1>5, EmptySeq DEF TypeOK, Idle
  <2>2. /\ Len(stack) \in Nat /\ DOMAIN stack = 1..Len(stack) /\ co = stack[Len(stack)]
    BY <1>5, <2>1, BottomOfStack DEF Discipline
  <2>3. /\ DOMAIN stack' = 1..(Len(stack) - 1)
        /\ \A i \in 1..(Len(stack) - 1) : stack'[i] = stack[i]
    BY <1>5, <2>1, <2>2, FrontIsSeq, LenProperties
  <2>4. stack'[1] = stack[1]
    BY <1>5, <2>2, <2>3
  <2>5. RunningIsOnStack'
    <3>1. ASSUME NEW c \in Co, status'[c] = "running"
          PROVE  \E i \in DOMAIN stack' : stack'[i] = c
      <4>1. c # co /\ status[c] = "running"
        BY <1>1, <1>2, <3>1
      <4>2. PICK i \in DOMAIN stack : stack[i] = c
        BY <4>1 DEF Discipline, RunningIsOnStack
      <4>3. i # Len(stack)
        BY <2>2, <4>1, <4>2
      <4> QED BY <2>2, <2>3, <4>2, <4>3
    <3>2. \A i \in DOMAIN stack' : i > 1 => stack'[i] \in ScriptCo
      BY <2>2, <2>3 DEF Discipline, RunningIsOnStack
    <3> QED BY <3>1, <3>2 DEF RunningIsOnStack
  <2>6. RunOwnsThread'
    BY <2>1, <2>4 DEF Discipline, RunOwnsThread, poolVars
  <2> QED BY <1>3, <2>5, <2>6 DEF Discipline
<1> QED BY <1>4, <1>5

\* The coroutine the engine resumed yields back to it.
LEMMA SuspendStep ==
  ASSUME TypeOK, StackIsRunning, Discipline, ~Idle, NEW w, Suspend(w), owner' = owner,
         UNCHANGED poolVars
  PROVE  Discipline'
<1>1. /\ Len(stack) \in Nat \ {0} /\ DOMAIN stack = 1..Len(stack)
      /\ Top = stack[Len(stack)] /\ Top \in Co /\ status[Top] = "running"
      /\ Len(stack) > 1 => Top \in ScriptCo
  BY BottomOfStack DEF Discipline
<1>2. status' = [status EXCEPT ![Top] = "parked"] /\ stack' = Front(stack)
  BY DEF Suspend
<1>3. CASE Len(stack) > 1
  <2>1. UNCHANGED <<run, completions, owner, poolVars>>
    BY <1>1, <1>3 DEF Suspend
  <2>2. PICK co \in ScriptCo : co = Top
    BY <1>1, <1>3
  <2>3. status' = [status EXCEPT ![co] = "parked"] /\ "parked" # "running"
    BY <1>2, <2>2
  <2> QED BY <1>2, <1>3, <2>1, <2>2, <2>3, ScriptThreadStep
<1>4. CASE Len(stack) = 1
  <2>1. Top = stack[1]
    BY <1>1, <1>4
  <2>2. stack' = <<>>
    <3>1. stack \in Seq(Co) /\ stack # <<>>
      BY DEF TypeOK, Idle
    <3>2. Front(stack) \in Seq(Co) /\ Len(Front(stack)) = 0
      BY <1>4, <3>1, FrontIsSeq
    <3> QED BY <1>2, <3>2, EmptySeq
  <2>3. PoolIsSound'
    BY DEF Discipline, PoolIsSound, poolVars
  <2>4. BusyIsCheckedOut'
    <3>1. \A c \in Co : status'[c] = IF c = Top THEN "parked" ELSE status[c]
      BY <1>1, <1>2 DEF TypeOK
    <3>2. Top \in PoolCo => Top \in active_co_refs
      BY <1>1 DEF Discipline, BusyIsCheckedOut
    <3> QED BY <3>1, <3>2 DEF Discipline, BusyIsCheckedOut, poolVars, Co
  <2>5. RunningIsOnStack'
    <3>1. \A c \in Co : status[c] = "running" => c = Top
      BY <1>1, <1>4, <2>1 DEF Discipline, RunningIsOnStack
    <3> QED BY <1>2, <2>2, <3>1 DEF RunningIsOnStack, TypeOK
  <2>6. RunOwnsThread'
    BY <2>2 DEF RunOwnsThread, Idle
  <2>7. CompletionMatchesOwner'
    <3>1. CASE run.via \in Awaited /\ completions' = [completions EXCEPT ![Top] = run.by]
      <4>1. Top \in active_co_refs /\ owner[Top] = run.by
        BY <2>1, <3>1 DEF Discipline, RunOwnsThread
      <4> QED BY <3>1, <4>1 DEF Discipline, CompletionMatchesOwner, poolVars, TypeOK
    <3>2. CASE completions' = completions
      BY <3>2 DEF Discipline, CompletionMatchesOwner, poolVars
    <3> QED BY <1>4, <3>1, <3>2 DEF Suspend
  <2> QED BY <2>3, <2>4, <2>5, <2>6, <2>7 DEF Discipline
<1> QED BY <1>1, <1>3, <1>4

\* A script resumes a thread of its own.
LEMMA NestStep ==
  ASSUME TypeOK, Discipline, ~Idle, Held \subseteq ScriptCo, NEW co \in Co, ResumeByHand(co)
  PROVE  Discipline'
<1>1. co \in ScriptCo /\ co \notin PoolCo
  BY RuntimeAssumption DEF ResumeByHand
<1>2. /\ Len(stack) \in Nat \ {0} /\ DOMAIN stack = 1..Len(stack)
      /\ stack' = Append(stack, co)
      /\ DOMAIN stack' = 1..(Len(stack) + 1)
      /\ \A i \in 1..Len(stack) : stack'[i] = stack[i]
      /\ stack'[Len(stack) + 1] = co
  BY EmptySeq, LenProperties, AppendProperties DEF ResumeByHand, TypeOK, Idle
<1>3. \A c \in Co : status'[c] = IF c = co THEN "running" ELSE status[c]
  BY DEF ResumeByHand, TypeOK
<1>4. UNCHANGED <<run, completions, owner, active_co_refs, co_pool>>
  BY DEF ResumeByHand, mapVars, poolVars
<1>5. PoolIsSound' /\ BusyIsCheckedOut' /\ CompletionMatchesOwner'
  BY <1>1, <1>3, <1>4 DEF Discipline, PoolIsSound, BusyIsCheckedOut, CompletionMatchesOwner, Co
<1>6. RunningIsOnStack'
  <2>1. ASSUME NEW c \in Co, status'[c] = "running"
        PROVE  \E i \in DOMAIN stack' : stack'[i] = c
    BY <1>2, <1>3, <2>1 DEF Discipline, RunningIsOnStack
  <2>2. \A i \in DOMAIN stack' : i > 1 => stack'[i] \in ScriptCo
    BY <1>1, <1>2 DEF Discipline, RunningIsOnStack
  <2> QED BY <2>1, <2>2 DEF RunningIsOnStack
<1>7. RunOwnsThread'
  BY <1>2, <1>4 DEF Discipline, RunOwnsThread, Idle
<1> QED BY <1>5, <1>6, <1>7 DEF Discipline

\* DoResume, in all its outcomes.
LEMMA DoResumeStep ==
  ASSUME TypeOK, Discipline, Idle, NEW h \in Handle, DoResume(h), UNCHANGED completions
  PROVE  Discipline'
<1>1. pending[h] # None => pending[h] \in Co
  BY DEF TypeOK
<1>2. CASE UNCHANGED <<stack, run, coVars, poolVars>>
  BY <1>2, UntouchedStep DEF coVars, poolVars
<1>3. CASE /\ pending[h] # None /\ status[pending[h]] = "parked"
           /\ Enter(pending[h], "resume", h)
           /\ UNCHANGED <<owner, unhandled_error, poolVars>>
  BY <1>1, <1>3, ResumeStep
<1>4. CASE /\ pending[h] # None /\ status[pending[h]] # "parked"
           /\ ReleaseCoroutine(pending[h]) /\ UNCHANGED <<stack, run>>
  <2>1. \A c \in Co : status[c] # "running"
    BY DEF Discipline, RunningIsOnStack, Idle
  <2>2. pending[h] \notin active_co_refs
    BY <1>1, <1>4, <2>1 DEF Discipline, BusyIsCheckedOut, TypeOK, PoolTypeOK
  <2>3. completions[pending[h]] = None
    BY <1>1, <1>4, <2>2 DEF Discipline, CompletionMatchesOwner
  <2> QED BY <1>1, <1>4, <2>1, <2>3, ReleaseStep DEF Idle
<1> QED BY <1>2, <1>3, <1>4 DEF DoResume

-----------------------------------------------------------------------------
(* Every action keeps the discipline *)

LEMMA HostStepDiscipline ==
  ASSUME TypeOK, Discipline, HostStep
  PROVE  Discipline'
<1>1. ASSUME NEW t \in Pushed, PushTask(t) PROVE Discipline'
  BY <1>1, UntouchedStep DEF PushTask, mapVars, coVars, poolVars
<1>2. ASSUME NEW c \in Call, CallAsync(c) PROVE Discipline'
  BY <1>2, StartStep DEF CallAsync, mapVars
<1>3. ASSUME NEW co \in PoolCo, CancelCall(co) PROVE Discipline'
  <2>1. \A c \in Co : status[c] # "running"
    BY <1>3 DEF CancelCall, Discipline, RunningIsOnStack, Idle
  <2> QED BY <1>3, <2>1, ReleaseStep DEF CancelCall, Idle, Co
<1>4. CASE Interrupt \/ AskClearInterrupt \/ PauseOrResume \/ BeginShutdown \/ TakeUnhandledError
  BY <1>4, UntouchedStep DEF Interrupt, AskClearInterrupt, PauseOrResume, BeginShutdown,
     TakeUnhandledError, mapVars, coVars, poolVars
<1>5. CASE Destroy
  <2>1. CASE UNCHANGED <<queue, mapVars, coVars, promise, poolVars, timerVars>>
    BY <1>5, <2>1, UntouchedStep DEF Destroy, mapVars, coVars, poolVars
  <2>2. CASE SettleAll(queue, "shutdown") /\ ShutdownPool /\ ResetActive
    BY <1>5, <2>2, TakeBackStep DEF Destroy, SettleAll
  <2> QED BY <1>5, <2>1, <2>2 DEF Destroy
<1> QED BY <1>1, <1>2, <1>3, <1>4, <1>5 DEF HostStep

LEMMA RunJobDiscipline ==
  ASSUME TypeOK, Discipline, RunJob
  PROVE  Discipline'
<1> USE DEF mapVars, coVars, poolVars
<1>1. Idle
  BY DEF RunJob, RunTask, RunResume, RunTimer, RunRequire, RunLoadFile, InterruptPass,
     ClearInterrupt, At
<1>2. CASE RunTask
  <2>1. CASE UNCHANGED <<stack, run, coVars>> /\ (UNCHANGED poolVars \/ AcquireRelease)
    <3>1. UNCHANGED <<stack, run, completions, status, owner, active_co_refs>>
      BY <1>2, <2>1 DEF RunTask, AcquireRelease
    <3> QED BY <2>1, <3>1, UntouchedStep
  <2>2. CASE \E co \in PoolCo : \E by :
               Acquire(co) /\ Enter(co, "task", by) /\ owner' = [owner EXCEPT ![co] = by]
    BY <1>1, <1>2, <2>2, StartStep DEF RunTask
  <2> QED BY <1>2, <2>1, <2>2 DEF RunTask
<1>3. CASE RunResume
  <2>1. Head(queue).arg \in Handle
    BY <1>3, TakenType DEF RunResume, TypeOK
  <2> QED BY <1>1, <1>3, <2>1, DoResumeStep, UntouchedStep DEF RunResume
<1>4. CASE RunTimer
  <2>1. PICK h \in Handle : h = Head(queue).arg
    BY <1>4, TakenType DEF RunTimer, TypeOK
  <2>2. CASE \E co \in PoolCo : Acquire(co) /\ Enter(co, "timeout", h) /\ owner' = owner
    BY <1>1, <1>4, <2>2, StartStep DEF RunTimer, Awaited
  <2> QED BY <1>1, <1>4, <2>1, <2>2, DoResumeStep, UntouchedStep DEF RunTimer
<1>5. CASE RunRequire
  <2>1. CASE UNCHANGED <<stack, run, coVars>> /\ (UNCHANGED poolVars \/ AcquireRelease)
    <3>1. UNCHANGED <<stack, run, completions, status, owner, active_co_refs>>
      BY <1>5, <2>1 DEF RunRequire, AcquireRelease
    <3> QED BY <2>1, <3>1, UntouchedStep
  <2>2. CASE \E co \in PoolCo : \E by :
               Acquire(co) /\ Enter(co, "require", by) /\ owner' = [owner EXCEPT ![co] = by]
    BY <1>1, <1>5, <2>2, StartStep DEF RunRequire
  <2> QED BY <1>5, <2>1, <2>2 DEF RunRequire
<1>6. CASE RunLoadFile \/ ClearInterrupt
  <2>1. UNCHANGED <<stack, run, completions, status, owner, active_co_refs>>
    BY <1>6 DEF RunLoadFile, ClearInterrupt, AcquireRelease
  <2>2. co_pool' = co_pool \/ AcquireRelease
    BY <1>6 DEF RunLoadFile, ClearInterrupt
  <2> QED BY <2>1, <2>2, UntouchedStep
<1>7. CASE InterruptPass
  BY <1>1, <1>7, TakeBackStep, UntouchedStep DEF InterruptPass, SettleAll
<1> QED BY <1>2, <1>3, <1>4, <1>5, <1>6, <1>7 DEF RunJob

LEMMA ScriptStepDiscipline ==
  ASSUME TypeOK, StackIsRunning, Discipline, Held \subseteq ScriptCo, ScriptStep
  PROVE  Discipline'
<1> USE DEF mapVars, coVars, poolVars
<1>1. ASSUME NEW kind, Park(kind) PROVE Discipline'
  BY <1>1, SuspendStep DEF Park
<1>2. ASSUME NEW kind, ParkFails(kind) PROVE Discipline'
  BY <1>2, UntouchedStep DEF ParkFails
<1>3. CASE HookYield \/ YieldPlain
  BY <1>3, SuspendStep DEF HookYield, YieldPlain
<1>4. CASE SetTimeout \/ \E h \in Handle : ClearTimeout(h)
  BY <1>4, UntouchedStep DEF SetTimeout, ClearTimeout
<1>5. ASSUME NEW co \in Co, ResumeByHand(co) PROVE Discipline'
  BY <1>5, NestStep DEF ResumeByHand
<1>6. ASSUME NEW co \in Co, CloseByHand(co) PROVE Discipline'
  BY <1>6, ScriptThreadStep DEF CloseByHand
<1>7. CASE EndNested
  <2>1. Top \in ScriptCo
    BY <1>7, BottomOfStack, EmptySeq DEF EndNested, Discipline, Idle
  <2> QED BY <1>7, <2>1, ScriptThreadStep DEF EndNested
<1>8. CASE EndRequire \/ \E outcome \in Outcome : EndRecycled(outcome) \/ EndCall(outcome)
  <2>1. Len(stack) = 1 /\ ~Idle
    BY <1>8, EmptySeq DEF EndRequire, EndRecycled, EndCall, Idle
  <2>2. Top \in Co /\ Top = stack[1] /\ DOMAIN stack = {1}
    BY <2>1, BottomOfStack DEF Discipline
  <2>3. \A c \in Co : status[c] = "running" => c = Top
    BY <2>2 DEF Discipline, RunningIsOnStack
  <2>4. run.via \in {"call", "require"} => completions[Top] = None
    BY <2>1, <2>2 DEF Discipline, RunOwnsThread, Awaited
  <2>5. CASE EndRequire \/ \E outcome \in Outcome : EndCall(outcome)
    <3>1. /\ ReleaseCoroutine(Top) /\ stack' = <<>> /\ completions' = completions
          /\ completions[Top] = None
      BY <2>4, <2>5 DEF EndRequire, EndCall
    <3> QED BY <2>2, <2>3, <3>1, ReleaseStep
  <2>6. CASE \E outcome \in Outcome : EndRecycled(outcome)
    <3>1. /\ ReleaseCoroutine(Top) /\ stack' = <<>>
          /\ completions' = [completions EXCEPT ![Top] = None]
      BY <2>6 DEF EndRecycled, Forget
    <3> QED BY <2>2, <2>3, <3>1, ReleaseStep
  <2> QED BY <1>8, <2>5, <2>6
<1> QED BY <1>1, <1>2, <1>3, <1>4, <1>5, <1>6, <1>7, <1>8 DEF ScriptStep, End

LEMMA DisciplineStep ==
  ASSUME TypeOK, StackIsRunning, Discipline, Held \subseteq ScriptCo, [Next]_vars
  PROVE  Discipline'
<1>1. CASE ThreadStep \/ IOStep
  BY <1>1, UntouchedStep DEF ThreadStep, Schedule, IOStep, Complete, DelayEnds, mapVars, coVars, poolVars
<1>2. ASSUME NEW co \in ScriptCo, Collect(co) PROVE Discipline'
  BY <1>2, ScriptThreadStep DEF Collect, mapVars, poolVars
<1>3. CASE UNCHANGED vars
  BY <1>3, UntouchedStep DEF vars, mapVars, coVars, poolVars
<1> QED BY <1>1, <1>2, <1>3, HostStepDiscipline, RunJobDiscipline, ScriptStepDiscipline
        DEF Next

\* A completion handler always belongs to the work its coroutine is doing: no
\* promise and no require() is ever answered by a thread that was recycled for
\* something else, whatever the interleaving of hosts, completions and scripts
\* that keep their hands off the threads of the pool.
THEOREM HandlersMatchOwners ==
  ASSUME Held \subseteq ScriptCo
  PROVE  Spec => []CompletionMatchesOwner
<1>1. Init => StackIsRunning /\ Discipline
  BY DEF Init, PoolInit, StackIsRunning, Discipline, PoolIsSound, BusyIsCheckedOut,
     RunningIsOnStack, RunOwnsThread, CompletionMatchesOwner, Idle, Co
<1>2. TypeOK /\ StackIsRunning /\ Discipline /\ [Next]_vars => StackIsRunning' /\ Discipline'
  BY StackStep, DisciplineStep
<1>3. Discipline => CompletionMatchesOwner
  BY DEF Discipline
<1> QED BY <1>1, <1>2, <1>3, TypeCorrect, PTL DEF Spec

-----------------------------------------------------------------------------
(* A completion resumes its own yield, when no script parks under pcall *)

\* An entry that survives describes a thread that did not move.
LEMMA CurrentKept ==
  ASSUME TypeOK, CurrentUnlessHeld,
         \A h \in Handle : pending'[h] \notin Held \cup {None} =>
           /\ pending'[h] = pending[h]
           /\ status'[pending[h]] = status[pending[h]]
           /\ waits_for'[pending[h]] = waits_for[pending[h]]
  PROVE  CurrentUnlessHeld'
BY DEF CurrentUnlessHeld

\* Nothing is pending for a thread that is not parked, unless a script holds it.
LEMMA OnlyParkedPend ==
  ASSUME CurrentUnlessHeld, NEW co \in Co, status[co] # "parked", NEW h \in Handle,
         pending[h] = co
  PROVE  co \in Held
BY RuntimeAssumption DEF CurrentUnlessHeld

\* So such a thread may change in any way.
LEMMA CurrentOther ==
  ASSUME TypeOK, CurrentUnlessHeld, NEW co \in Co, status[co] # "parked" \/ co \in Held,
         UNCHANGED pending,
         \A c \in Co : c # co => status'[c] = status[c] /\ waits_for'[c] = waits_for[c]
  PROVE  CurrentUnlessHeld'
<1>1. ASSUME NEW h \in Handle, pending[h] \notin Held \cup {None}
      PROVE  pending[h] \in Co /\ pending[h] # co
  BY <1>1, OnlyParkedPend DEF TypeOK
<1> QED BY <1>1, CurrentKept

\* A thread is given up together with its entries.
LEMMA CurrentReleased ==
  ASSUME TypeOK, CurrentUnlessHeld, NEW co, CleanupStalePendings(co), ReleaseCoroutine(co)
  PROVE  CurrentUnlessHeld'
<1>1. ASSUME NEW h \in Handle, pending'[h] # None
      PROVE  pending'[h] = pending[h] /\ pending[h] # co /\ pending[h] \in Co
  BY <1>1 DEF CleanupStalePendings, Erase, PendingOf, TypeOK
<1>2. \A c \in Co : c # co => status'[c] = status[c] /\ waits_for'[c] = waits_for[c]
  BY DEF ReleaseCoroutine, TypeOK
<1> QED BY <1>1, <1>2, CurrentKept

LEMMA CurrentStarted ==
  ASSUME TypeOK, Discipline, CurrentUnlessHeld, NEW co \in PoolCo, NEW via, NEW by,
         Acquire(co), Enter(co, via, by), UNCHANGED pending
  PROVE  CurrentUnlessHeld'
<1>1. co \in Co /\ status[co] = "idle"
  BY AcquireSound DEF Discipline, BusyIsCheckedOut, Co
<1>2. \A c \in Co : c # co => status'[c] = status[c] /\ waits_for'[c] = waits_for[c]
  BY DEF Enter, TypeOK
<1> QED BY <1>1, <1>2, CurrentOther

LEMMA CurrentResumed ==
  ASSUME TypeOK, CurrentUnlessHeld, NEW h \in Handle, DoResume(h)
  PROVE  CurrentUnlessHeld'
<1>1. CASE UNCHANGED <<pending, coVars>>
  BY <1>1 DEF CurrentUnlessHeld, coVars
<1>2. CASE /\ pending[h] # None /\ Erase({h}) /\ Enter(pending[h], "resume", h)
  <2>1. pending[h] \in Co
    BY <1>2 DEF TypeOK
  <2>2. \A g \in Handle : pending'[g] = IF g = h THEN None ELSE pending[g]
    BY <1>2 DEF Erase
  <2>3. ASSUME NEW g \in Handle, g # h, pending[g] \notin Held \cup {None}
        PROVE  pending[g] # pending[h]
    BY <2>3 DEF CurrentUnlessHeld
  <2>4. \A c \in Co : c # pending[h] => status'[c] = status[c] /\ waits_for'[c] = waits_for[c]
    BY <1>2 DEF Enter, TypeOK
  <2> QED BY <2>1, <2>2, <2>3, <2>4, CurrentKept DEF TypeOK
<1>3. CASE CleanupStalePendings(pending[h]) /\ ReleaseCoroutine(pending[h])
  BY <1>3, CurrentReleased
<1> QED BY <1>1, <1>2, <1>3 DEF DoResume

\* The running coroutine parks under a new handle, or is yielded by the hook.
LEMMA CurrentSuspended ==
  ASSUME TypeOK, StackIsRunning, Discipline, CurrentUnlessHeld, ~Idle,
         \/ \E kind : Park(kind)
         \/ HookYield \/ YieldPlain
  PROVE  CurrentUnlessHeld'
<1>1. Top \in Co /\ status[Top] = "running"
  BY BottomOfStack DEF Discipline
<1>2. CASE HookYield \/ YieldPlain
  <2>1. \A c \in Co : c # Top => status'[c] = status[c] /\ waits_for'[c] = waits_for[c]
    BY <1>2 DEF HookYield, YieldPlain, Suspend, TypeOK
  <2>2. UNCHANGED pending
    BY <1>2 DEF HookYield, YieldPlain
  <2> QED BY <1>1, <2>1, <2>2, CurrentOther
<1>3. CASE \E kind : Park(kind)
  <2>1. /\ pending' = [pending EXCEPT ![next_handle] = Top]
        /\ status' = [status EXCEPT ![Top] = "parked"]
        /\ waits_for' = [waits_for EXCEPT ![Top] = next_handle]
    BY <1>3 DEF Park, PreYield, Suspend
  <2>2. ASSUME NEW h \in Handle, pending'[h] \notin Held \cup {None}
        PROVE  status'[pending'[h]] = "parked" /\ waits_for'[pending'[h]] = h
    <3>1. CASE h = next_handle
      BY <1>1, <2>1, <3>1 DEF TypeOK
    <3>2. CASE h # next_handle
      <4>1. pending'[h] = pending[h] /\ pending[h] \in Co
        BY <2>1, <2>2, <3>2 DEF TypeOK
      <4>2. pending[h] # Top
        BY <1>1, <2>2, <4>1 DEF CurrentUnlessHeld
      <4>3. /\ status'[pending[h]] = status[pending[h]]
            /\ waits_for'[pending[h]] = waits_for[pending[h]]
        BY <2>1, <4>1, <4>2 DEF TypeOK
      <4> QED BY <2>2, <4>1, <4>3 DEF CurrentUnlessHeld
    <3> QED BY <3>1, <3>2
  <2> QED BY <2>2 DEF CurrentUnlessHeld
<1> QED BY <1>2, <1>3

LEMMA CurrentStep ==
  ASSUME TypeOK, PinsMatchPending, StackIsRunning, Discipline, CurrentUnlessHeld,
         YieldAcrossC = FALSE, [Next]_vars
  PROVE  CurrentUnlessHeld'
<1> USE DEF mapVars, coVars
<1>1. ASSUME UNCHANGED <<pending, status, waits_for>> PROVE CurrentUnlessHeld'
  BY <1>1 DEF CurrentUnlessHeld
<1>2. ASSUME Erase(Handle) PROVE CurrentUnlessHeld'
  BY <1>2 DEF Erase, CurrentUnlessHeld
<1>3. CASE HostStep
  <2>1. ASSUME NEW c \in Call, CallAsync(c) PROVE CurrentUnlessHeld'
    BY <2>1, CurrentStarted DEF CallAsync
  <2>2. ASSUME NEW co \in PoolCo, CancelCall(co) PROVE CurrentUnlessHeld'
    BY <2>2, DropIsCleanup, CurrentReleased DEF CancelCall
  <2> QED BY <1>1, <1>2, <1>3, <2>1, <2>2 DEF HostStep, PushTask, Interrupt, AskClearInterrupt,
          PauseOrResume, BeginShutdown, TakeUnhandledError, Destroy
<1>4. CASE ThreadStep \/ IOStep
  BY <1>1, <1>4 DEF ThreadStep, Schedule, IOStep, Complete, DelayEnds
<1>5. CASE RunJob
  <2>1. CASE RunTask
    BY <1>1, <2>1, CurrentStarted DEF RunTask
  <2>2. CASE RunResume
    <3>1. Head(queue).arg \in Handle
      BY <2>2, TakenType DEF RunResume, TypeOK
    <3> QED BY <1>1, <2>2, <3>1, CurrentResumed DEF RunResume
  <2>3. CASE RunTimer
    <3>1. Head(queue).arg \in Handle
      BY <2>3, TakenType DEF RunTimer, TypeOK
    <3> QED BY <1>1, <2>3, <3>1, CurrentResumed, CurrentStarted DEF RunTimer
  <2>4. CASE RunRequire
    BY <1>1, <2>4, CurrentStarted DEF RunRequire
  <2>5. CASE RunLoadFile \/ ClearInterrupt \/ InterruptPass
    BY <1>1, <1>2, <2>5 DEF RunLoadFile, ClearInterrupt, InterruptPass
  <2> QED BY <1>5, <2>1, <2>2, <2>3, <2>4, <2>5 DEF RunJob
<1>6. CASE ScriptStep
  <2>1. ASSUME NEW kind, Park(kind) \/ HookYield \/ YieldPlain PROVE CurrentUnlessHeld'
    BY <2>1, CurrentSuspended DEF Park, HookYield, YieldPlain
  <2>2. ASSUME NEW kind, ParkFails(kind) PROVE FALSE
    BY <2>2 DEF ParkFails
  <2>3. CASE SetTimeout \/ \E h \in Handle : ClearTimeout(h)
    BY <1>1, <2>3 DEF SetTimeout, ClearTimeout
  <2>4. ASSUME NEW co \in Co, ResumeByHand(co) \/ CloseByHand(co) PROVE CurrentUnlessHeld'
    <3>1. status[co] # "parked" \/ co \in Held
      BY <2>4 DEF ResumeByHand, CloseByHand
    <3>2. \A c \in Co : c # co => status'[c] = status[c] /\ waits_for'[c] = waits_for[c]
      BY <2>4 DEF ResumeByHand, CloseByHand, TypeOK
    <3>3. UNCHANGED pending
      BY <2>4 DEF ResumeByHand, CloseByHand
    <3> QED BY <3>1, <3>2, <3>3, CurrentOther
  <2>5. CASE EndNested \/ EndRequire
    <3>1. Top \in Co /\ status[Top] = "running"
      <4>1. Len(stack) > 1 \/ Len(stack) = 1
        BY <2>5 DEF EndNested, EndRequire
      <4>2. ~Idle
        BY <4>1, EmptySeq DEF Idle
      <4> QED BY <4>2, BottomOfStack DEF Discipline
    <3>2. \A c \in Co : c # Top => status'[c] = status[c] /\ waits_for'[c] = waits_for[c]
      BY <2>5 DEF EndNested, EndRequire, ReleaseCoroutine, TypeOK
    <3>3. UNCHANGED pending
      BY <2>5 DEF EndNested, EndRequire
    <3> QED BY <3>1, <3>2, <3>3, CurrentOther
  <2>6. CASE \E outcome \in Outcome : EndRecycled(outcome) \/ EndCall(outcome)
    BY <2>6, CurrentReleased DEF EndRecycled, EndCall
  <2> QED BY <1>6, <2>1, <2>2, <2>3, <2>4, <2>5, <2>6 DEF ScriptStep, End
<1>7. ASSUME NEW co \in ScriptCo, Collect(co) PROVE CurrentUnlessHeld'
  <2>1. \A h \in Handle : pending[h] # co
    BY <1>7 DEF Collect, PinsMatchPending
  <2>2. \A c \in Co : c # co => status'[c] = status[c] /\ waits_for'[c] = waits_for[c]
    BY <1>7 DEF Collect, TypeOK
  <2>3. UNCHANGED pending
    BY <1>7 DEF Collect
  <2> QED BY <2>1, <2>2, <2>3, CurrentKept DEF TypeOK
<1>8. CASE UNCHANGED vars
  BY <1>1, <1>8 DEF vars
<1> QED BY <1>3, <1>4, <1>5, <1>6, <1>7, <1>8 DEF Next

-----------------------------------------------------------------------------

\* What all the theorems below rest on.
LEMMA CurrentAlways ==
  ASSUME Held \subseteq ScriptCo, YieldAcrossC = FALSE
  PROVE  Spec => [](TypeOK /\ StackIsRunning /\ Discipline /\ CurrentUnlessHeld)
<1> DEFINE Inv == StackIsRunning /\ Discipline /\ CurrentUnlessHeld
<1>1. Init => Inv
  BY DEF Init, PoolInit, StackIsRunning, Discipline, PoolIsSound, BusyIsCheckedOut,
     RunningIsOnStack, RunOwnsThread, CompletionMatchesOwner, CurrentUnlessHeld, Idle, Co
<1>2. TypeOK /\ PinsMatchPending /\ Inv /\ [Next]_vars => Inv'
  BY StackStep, DisciplineStep, CurrentStep
<1> QED BY <1>1, <1>2, TypeCorrect, PinsAlwaysMatch, PTL DEF Spec

\* A thread in the free list is clean: it is there once, nobody has it checked
\* out, and no handler, timer or late completion leads back to it.
THEOREM FreeThreadsStayClean ==
  ASSUME Held \subseteq ScriptCo, YieldAcrossC = FALSE
  PROVE  Spec => []FreeThreadsAreClean
<1>1. TypeOK /\ Discipline /\ CurrentUnlessHeld => FreeThreadsAreClean
  <2> SUFFICES ASSUME TypeOK, Discipline, CurrentUnlessHeld PROVE FreeThreadsAreClean
    OBVIOUS
  <2>1. ASSUME NEW i \in DOMAIN co_pool
        PROVE  /\ co_pool[i] \notin active_co_refs
               /\ status[co_pool[i]] = "idle"
               /\ completions[co_pool[i]] = None
               /\ \A h \in Handle : pending[h] # co_pool[i]
    <3>1. co_pool[i] \in PoolCo /\ co_pool[i] \in Co
      BY ElementOfSeq DEF TypeOK, PoolTypeOK, Co
    <3>2. co_pool[i] \notin active_co_refs /\ status[co_pool[i]] = "idle"
      BY <3>1 DEF Discipline, PoolIsSound, BusyIsCheckedOut
    <3>3. completions[co_pool[i]] = None
      BY <3>1, <3>2 DEF Discipline, CompletionMatchesOwner
    <3>4. co_pool[i] \notin Held
      BY <3>1, RuntimeAssumption
    <3>5. \A h \in Handle : pending[h] # co_pool[i]
      BY <3>1, <3>2, <3>4, OnlyParkedPend
    <3> QED BY <3>2, <3>3, <3>5
  <2> QED BY <2>1 DEF FreeThreadsAreClean, Discipline, PoolIsSound
<1> QED BY <1>1, CurrentAlways, PTL

\* As long as scripts resume no parked thread by hand and park under no pcall,
\* pending_ names exactly the yield each coroutine is in: a late, duplicated or
\* stale completion finds nothing to resume.
THEOREM PendingStaysCurrent ==
  ASSUME Held = {}, YieldAcrossC = FALSE
  PROVE  Spec => []PendingIsCurrentYield
<1>1. CurrentUnlessHeld => PendingIsCurrentYield
  BY DEF CurrentUnlessHeld, PendingIsCurrentYield
<1>2. Held \subseteq ScriptCo
  OBVIOUS
<1> QED BY <1>1, <1>2, CurrentAlways, PTL

\* Under the same condition every resume by a completion ends the very yield
\* that the completion's operation caused.
THEOREM ResumesOnlyOwnYield ==
  ASSUME Held = {}, YieldAcrossC = FALSE
  PROVE  Spec => ResumesOwnYield
<1> DEFINE Own == \A co \in Co : (Idle /\ stack' = <<co>> /\ run'.via = "resume")
                                    => waits_for[co] = run'.by
<1>1. TypeOK /\ Discipline /\ CurrentUnlessHeld /\ [Next]_vars => Own
  <2> SUFFICES ASSUME TypeOK, Discipline, CurrentUnlessHeld, [Next]_vars,
                      NEW co \in Co, Idle, stack' = <<co>>, run'.via = "resume"
               PROVE  waits_for[co] = run'.by
    OBVIOUS
  <2>1. stack' # stack
    BY DEF Idle
  <2>2. ASSUME NEW c, NEW via, NEW by, Enter(c, via, by) PROVE via = "resume"
    BY <2>2 DEF Enter
  <2>3. ASSUME NEW h \in Handle, DoResume(h) PROVE waits_for[co] = run'.by
    <3>1. pending[h] = co /\ run'.by = h
      BY <2>1, <2>3 DEF DoResume, Enter
    <3> QED BY <3>1, RuntimeAssumption DEF CurrentUnlessHeld
  <2>4. CASE HostStep
    BY <2>1, <2>2, <2>4 DEF HostStep, PushTask, CallAsync, CancelCall, Interrupt,
       AskClearInterrupt, PauseOrResume, BeginShutdown, TakeUnhandledError, Destroy
  <2>5. CASE ThreadStep \/ IOStep
    BY <2>1, <2>5 DEF ThreadStep, Schedule, IOStep, Complete, DelayEnds
  <2>6. CASE RunJob
    <3>1. CASE RunResume
      <4>1. Head(queue).arg \in Handle
        BY <3>1, TakenType DEF RunResume, TypeOK
      <4> QED BY <2>1, <2>3, <3>1, <4>1 DEF RunResume
    <3>2. CASE RunTimer
      <4>1. Head(queue).arg \in Handle
        BY <3>2, TakenType DEF RunTimer, TypeOK
      <4> QED BY <2>1, <2>2, <2>3, <3>2, <4>1 DEF RunTimer
    <3> QED BY <2>1, <2>2, <2>6, <3>1, <3>2 DEF RunJob, RunTask, RunRequire, RunLoadFile,
            InterruptPass, ClearInterrupt
  <2>7. CASE ScriptStep
    BY <2>7, EmptySeq DEF ScriptStep, Park, ParkFails, HookYield, YieldPlain, SetTimeout,
       ClearTimeout, ResumeByHand, CloseByHand, End, EndNested, EndRequire, EndRecycled, EndCall, Idle
  <2>8. CASE \E c \in ScriptCo : Collect(c)
    BY <2>1, <2>8 DEF Collect
  <2>9. CASE UNCHANGED vars
    BY <2>1, <2>9 DEF vars
  <2> QED BY <2>4, <2>5, <2>6, <2>7, <2>8, <2>9 DEF Next
<1>2. Held \subseteq ScriptCo
  OBVIOUS
<1> QED BY <1>1, <1>2, CurrentAlways, PTL DEF Spec, ResumesOwnYield
=============================================================================
