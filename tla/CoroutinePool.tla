--------------------------- MODULE CoroutinePool ---------------------------
(***************************************************************************)
(* The coroutine pool of coroutine_pool.cc: Lua threads that the runtime   *)
(* checks out to run a task, a timer callback or a module body, and        *)
(* recycles when they end.  All of it runs on the executor thread, so an   *)
(* operation is one step.  PoolCo bounds how many threads lua_newthread    *)
(* may create; the code has no such bound.                                 *)
(***************************************************************************)
EXTENDS Naturals, FiniteSets, SequencesExt

CONSTANT PoolCo

ASSUME PoolCoFinite == IsFiniteSet(PoolCo)

VARIABLES
  active_co_refs,   \* threads checked out of the pool
  co_pool           \* free threads, the most recently released one last

poolVars == <<active_co_refs, co_pool>>

PoolInit ==
  /\ active_co_refs = {}
  /\ co_pool = <<>>

PoolTypeOK == active_co_refs \subseteq PoolCo /\ co_pool \in Seq(PoolCo)

\* Take the most recently released thread; create one only if none is free.
Acquire(co) ==
  /\ \/ /\ co_pool # <<>>
        /\ co = Last(co_pool)
        /\ co_pool' = Front(co_pool)
     \/ /\ co_pool = <<>>
        /\ co \in PoolCo \ active_co_refs
        /\ co_pool' = co_pool
  /\ active_co_refs' = active_co_refs \cup {co}

\* Acquire immediately followed by Release, with no Lua code in between.
AcquireRelease ==
  /\ \/ co_pool # <<>> /\ co_pool' = co_pool
     \/ co_pool = <<>> /\ \E co \in PoolCo \ active_co_refs : co_pool' = <<co>>
  /\ UNCHANGED active_co_refs

\* Mutant: Release pools whatever it is given.
ReleaseUnowned(co) ==
  /\ co_pool' = Append(co_pool, co)
  /\ active_co_refs' = active_co_refs \ {co}

\* A thread the pool has not checked out is left alone: it was created by a
\* script, or it was released before.
Release(co) ==
  /\ co_pool' = IF co \in active_co_refs THEN Append(co_pool, co) ELSE co_pool
  /\ active_co_refs' = active_co_refs \ {co}

\* Mutant: the released threads stay registered as checked out.
ReleaseAllKeepActive ==
  /\ \E order \in SetToSeqs(active_co_refs) : co_pool' = co_pool \o order
  /\ UNCHANGED active_co_refs

\* Mutant: an interrupt leaves its abandoned threads checked out.
ReleaseNone == UNCHANGED poolVars

\* The hash map is iterated in an order nobody controls.
ReleaseAll ==
  /\ \E order \in SetToSeqs(active_co_refs) : co_pool' = co_pool \o order
  /\ active_co_refs' = {}

ShutdownPool ==
  /\ active_co_refs' = {}
  /\ co_pool' = <<>>
=============================================================================
