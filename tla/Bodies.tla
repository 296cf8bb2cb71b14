------------------------------- MODULE Bodies -------------------------------
(***************************************************************************)
(* Calls that wait for another coroutine of the runtime: await, whose body *)
(* resolves or rejects, and require, whose module body ends (lua_runtime.cc*)
(* 21-68, 145-226, 303-440, 745-801).                                      *)
(*                                                                         *)
(* Of the value of a module only this is kept: whether Lua takes it for    *)
(* true, and whether it came first.  Arguments has the values themselves.  *)
(***************************************************************************)
EXTENDS Calls

VARIABLES
  task,     \* slot -> the body of its await: "none", "queued", "running", "over"
  cached,   \* module -> what package.loaded has for it: "nothing", "false", the
            \* "first" value that is not false, or an "other" that replaced one
  raced     \* history: modules required while another require was loading them

bodyVars == <<task, cached, raced>>

BodiesInit ==
  /\ task = [s \in Slot |-> "none"]
  /\ cached = [m \in Module |-> "nothing"] /\ raced = {}

NewTask(s, t) == task' = [task EXCEPT ![s] = t]
NoHandles == UNCHANGED <<life, closed, io_wait, worldVars>>
Gate == interrupt = "off"

-----------------------------------------------------------------------------
(* await: the done table lets the first of resolve and reject through.     *)

\* The body is a task of its own, which the gate of PushTask may refuse; its
\* promise has no listener, so nobody hears of that.
Await(s) ==
  /\ Start(s, "await", Body, IF Gate THEN "waiting" ELSE "silent")
  /\ NewTask(s, IF Gate THEN "queued" ELSE "none")
  /\ UNCHANGED <<cached, raced>> /\ NoHandles

RunBody(s) ==
  /\ IsCall(s, "await", "waiting") /\ task[s] = "queued"
  /\ IF Gate THEN NewTask(s, "running") /\ UNCHANGED callVars
     ELSE NewTask(s, "none") /\ Silent(s)
  /\ UNCHANGED <<cached, raced>> /\ NoHandles

\* resolve, reject, or the trampoline's reject for a body that raised.  The
\* body may have ended before, and kept them elsewhere.
SettleAwait(s) ==
  /\ IsCall(s, "await", "waiting") /\ task[s] \in {"running", "over"}
  /\ PushResume(s) /\ NewTask(s, "none")
  /\ UNCHANGED <<cached, raced>> /\ NoHandles

BodyReturns(s) ==
  /\ IsCall(s, "await", "waiting") /\ task[s] = "running" /\ NewTask(s, "over")
  /\ UNCHANGED <<callVars, cached, raced>> /\ NoHandles

\* The body ended and nothing refers to resolve and reject any more.
LoseClosures(s) ==
  /\ IsCall(s, "await", "waiting") /\ task[s] = "over"
  /\ Silent(s) /\ NewTask(s, "none")
  /\ UNCHANGED <<cached, raced>> /\ NoHandles

-----------------------------------------------------------------------------
(* require.                                                                *)

Loads(s, m) == call[s] = [op |-> "require", on |-> m] /\ phase[s] \in {"io", "busy", "waiting"}

\* Mutant: custom_require does not look into package.loaded.
MustLoadAlways(m) == TRUE

\* lua_toboolean of what package.loaded has: a module cached as false is loaded
\* again by every later require.
Lasting == {"first", "other"}
MustLoad(m) == cached[m] \notin Lasting

\* The first use of a name counts against the bound, like making a handle.
Require(s, m) ==
  /\ MustLoad(m)
  /\ IF life[m] = "new" THEN Make(m) ELSE UNCHANGED life
  /\ Start(s, "require", m, "io")
  /\ raced' = IF \E t \in Slot : Loads(t, m) THEN raced \cup {m} ELSE raced
  /\ UNCHANGED <<task, cached, closed, io_wait, worldVars>>

\* The source was found; PushRequireRun is gated like a new task.
SourceFound(s) ==
  /\ IsCall(s, "require", "io")
  /\ IF Gate THEN Advance(s, "busy") ELSE Silent(s)
  /\ UNCHANGED bodyVars /\ NoHandles

SourceMissing(s) ==
  /\ IsCall(s, "require", "io") /\ PushResume(s) /\ UNCHANGED bodyVars /\ NoHandles

\* CacheModuleValues: nil becomes true, false stays false, and several values
\* are not stored under the module's name at all.
Cache(m) ==
  \/ UNCHANGED cached
  \/ \E v \in {"false", IF cached[m] \in Lasting THEN "other" ELSE "first"} :
       cached' = [cached EXCEPT ![m] = v]

\* The job: the module's body ends at once, fails, or yields and ends later.
RunModule(s) ==
  /\ IsCall(s, "require", "busy")
  /\ IF Gate
     THEN \/ PushResume(s) /\ (Cache(call[s].on) \/ UNCHANGED cached)
          \/ Advance(s, "waiting") /\ UNCHANGED cached
     ELSE Silent(s) /\ UNCHANGED cached
  /\ UNCHANGED <<task, raced>> /\ NoHandles

ModuleEnds(s) ==
  /\ IsCall(s, "require", "waiting")
  /\ PushResume(s) /\ (Cache(call[s].on) \/ UNCHANGED cached)
  /\ UNCHANGED <<task, raced>> /\ NoHandles

-----------------------------------------------------------------------------
BodiesNext ==
  \E s \in Slot :
    \/ Await(s) \/ RunBody(s) \/ SettleAwait(s) \/ BodyReturns(s) \/ LoseClosures(s)
    \/ \E m \in Module : Require(s, m)
    \/ SourceFound(s) \/ SourceMissing(s) \/ RunModule(s) \/ ModuleEnds(s)

BodiesTypeOK ==
  /\ task \in [Slot -> {"none", "queued", "running", "over"}]
  /\ cached \in [Module -> {"nothing", "false", "first", "other"}] /\ raced \subseteq Module
=============================================================================
