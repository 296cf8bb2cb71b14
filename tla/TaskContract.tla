---------------------------- MODULE TaskContract ----------------------------
(***************************************************************************)
(* What the runtime promises a host about the outcome of its submissions,  *)
(* without coroutines, handles, timers or queues.                          *)
(*                                                                         *)
(* A submission through PushTask is refused while the runtime refuses new  *)
(* work, at the gate or when its turn comes; a direct call (CallAsync) is  *)
(* never refused.  What was started ends once: by itself, given up by the  *)
(* host (direct calls only), or together with everything else that is      *)
(* running when an interrupt or the shutdown is carried out.  An interrupt *)
(* refuses new work at once and is carried out later, once, even when the  *)
(* host has meanwhile allowed new work again.                              *)
(***************************************************************************)
EXTENDS Naturals

CONSTANTS Pushed, Call

VARIABLES
  result,      \* submission -> "new", "queued", "active" or how it ended
  stopped,     \* whether an interrupt keeps new work out, until it is lifted
  closed,      \* whether the shutdown has begun, which nothing undoes
  due          \* how many interrupts are still to be carried out

contractVars == <<result, stopped, closed, due>>

refusing == stopped \/ closed

Submissions == Pushed \cup Call
Running == {p \in Submissions : result[p] = "active"}

Init ==
  /\ result = [p \in Submissions |-> "new"]
  /\ stopped = FALSE /\ closed = FALSE
  /\ due = 0

Becomes(p, r) == result' = [result EXCEPT ![p] = r] /\ UNCHANGED <<stopped, closed, due>>

Submit(t) == result[t] = "new" /\ Becomes(t, IF refusing THEN "rejected" ELSE "queued")

Start(t)  == result[t] = "queued" /\ ~refusing /\ (Becomes(t, "active") \/ Becomes(t, "error"))

Refuse(t) == result[t] = "queued" /\ refusing /\ Becomes(t, "rejected")

CallNow(c) == result[c] = "new" /\ Becomes(c, "active")

Finish(p) == result[p] = "active" /\ (Becomes(p, "ok") \/ Becomes(p, "error"))

\* Nobody is told: the host asked for it.
CancelIt(c) == result[c] = "active" /\ Becomes(c, "cancelled")

Interrupt == ~refusing /\ stopped' = TRUE /\ due' = due + 1 /\ UNCHANGED <<result, closed>>

Lift  == stopped' = FALSE /\ UNCHANGED <<result, closed, due>>
Close == closed' = TRUE /\ UNCHANGED <<result, stopped, due>>

\* Everything that is running ends in one step.
EndAll(r) == result' = [p \in Submissions |-> IF p \in Running THEN r ELSE result[p]]

InterruptEnds ==
  due > 0 /\ due' = due - 1 /\ ~closed /\ EndAll("interrupted") /\ UNCHANGED <<stopped, closed>>

\* An interrupt that the beginning of the shutdown overtakes does nothing.
Overtaken == due > 0 /\ due' = due - 1 /\ closed /\ UNCHANGED <<result, stopped, closed>>

ShutdownEnds == ~closed /\ closed' = TRUE /\ EndAll("shutdown") /\ UNCHANGED <<stopped, due>>

Next ==
  \/ \E t \in Pushed : Submit(t) \/ Start(t) \/ Refuse(t)
  \/ \E c \in Call : CallNow(c) \/ CancelIt(c)
  \/ \E p \in Submissions : Finish(p)
  \/ Interrupt \/ Lift \/ Close \/ InterruptEnds \/ Overtaken \/ ShutdownEnds

Spec == Init /\ [][Next]_contractVars
=============================================================================
