---------------------------- MODULE TimerManager ----------------------------
(***************************************************************************)
(* The timers of timer_manager.cc.  A timer is an entry of active_timers   *)
(* plus a lambda that the executor was asked to run after a delay.         *)
(* Cancelling erases the entry only; the lambda still comes, finds no      *)
(* entry and does nothing.  Delays are abstracted: a scheduled lambda may  *)
(* reach the executor's queue at any time.                                 *)
(***************************************************************************)
EXTENDS Naturals

CONSTANT MaxHandle   \* bound on the 64-bit handle counter

ASSUME MaxHandleIsNat == MaxHandle \in Nat

Handle == 1..MaxHandle

VARIABLES
  next_handle,     \* the counter shared by timers and parked coroutines
  active_timers,   \* handle -> "none", "sleep" or "timeout"
  scheduled,       \* handles whose delayed lambda is still on its way
  fn_ref           \* registry reference of a setTimeout callback: "none",
                   \* "held", "released", or "twice" if released again

timerVars == <<next_handle, active_timers, scheduled, fn_ref>>

TimerInit ==
  /\ next_handle = 1
  /\ active_timers = [h \in Handle |-> "none"]
  /\ scheduled = {}
  /\ fn_ref = [h \in Handle |-> "none"]

TimerTypeOK ==
  /\ next_handle \in 1..(MaxHandle + 1)
  /\ active_timers \in [Handle -> {"none", "sleep", "timeout"}]
  /\ scheduled \subseteq Handle
  /\ fn_ref \in [Handle -> {"none", "held", "released", "twice"}]

\* A handle is drawn for a coroutine that is about to park without a timer.
NextHandle ==
  /\ next_handle \in Handle
  /\ next_handle' = next_handle + 1
  /\ UNCHANGED <<active_timers, scheduled, fn_ref>>

Arm(h, type) ==
  /\ active_timers' = [active_timers EXCEPT ![h] = type]
  /\ scheduled' = scheduled \cup {h}

\* sleep(): draw a handle, then AddSleepTimer for it.
NextHandleWithSleep ==
  /\ next_handle \in Handle
  /\ next_handle' = next_handle + 1
  /\ Arm(next_handle, "sleep")
  /\ UNCHANGED fn_ref

\* Mutant: the pause swallows the timer.
DropSleep(h) ==
  /\ active_timers' = [active_timers EXCEPT ![h] = "none"]
  /\ UNCHANGED <<next_handle, scheduled, fn_ref>>

\* The lambda of a sleep timer found the runtime paused: retry later.
RearmSleep(h) ==
  /\ Arm(h, "sleep")
  /\ UNCHANGED <<next_handle, fn_ref>>

AddTimeoutTimer ==
  /\ next_handle \in Handle
  /\ next_handle' = next_handle + 1
  /\ Arm(next_handle, "timeout")
  /\ fn_ref' = [fn_ref EXCEPT ![next_handle] = "held"]

\* luaL_unref on the callback reference of every handle in S.
Unref(S) ==
  [h \in Handle |-> IF h \notin S THEN fn_ref[h]
                    ELSE IF fn_ref[h] = "held" THEN "released" ELSE "twice"]

\* Mutant: cancelling leaks the callback reference.
CancelTimersLeakRef(S) ==
  /\ active_timers' = [h \in Handle |-> IF h \in S THEN "none" ELSE active_timers[h]]
  /\ UNCHANGED <<next_handle, scheduled, fn_ref>>

\* CancelTimer for every handle in S (CancelAll when S is all of them).
CancelTimers(S) ==
  /\ active_timers' = [h \in Handle |-> IF h \in S THEN "none" ELSE active_timers[h]]
  /\ fn_ref' = Unref({h \in S : active_timers[h] = "timeout"})
  /\ UNCHANGED <<next_handle, scheduled>>

\* The lambda of a setTimeout timer takes its entry and its callback.
TakeTimeout(h) ==
  /\ active_timers[h] = "timeout"
  /\ active_timers' = [active_timers EXCEPT ![h] = "none"]
  /\ fn_ref' = Unref({h})
  /\ UNCHANGED <<next_handle, scheduled>>

\* The delay of h's lambda is over and the executor queues it.
Expire(h) ==
  /\ h \in scheduled
  /\ scheduled' = scheduled \ {h}
  /\ UNCHANGED <<next_handle, active_timers, fn_ref>>
=============================================================================
