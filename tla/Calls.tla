------------------------------- MODULE Calls -------------------------------
(***************************************************************************)
(* The calls of scripts that wait: what PreYield, Yield, PushResume and    *)
(* DoResume mean to a library, one level above LuaRuntime.                 *)
(*                                                                         *)
(* A slot is one coroutine that makes such calls one after the other.  The *)
(* executor starts a call and parks the coroutine; what the call asked for *)
(* happens elsewhere, for the libraries of this program on one io thread   *)
(* that all of them share; a completion answers through PushResume.        *)
(***************************************************************************)
EXTENDS Integers, Sequences, FiniteSets, SequencesExt

CONSTANTS
  Slot,       \* coroutines that make calls
  File,       \* file handles
  Proc,       \* process handles
  Conn,       \* WebSocket handles
  Module,     \* names that scripts require
  Mixes,      \* bound: what the scripts of one behaviour use, one set each
  None, Body  \* model values: no handle; the body of an await

Handle == File \cup Proc \cup Conn \cup Module

\* The operations that wait, and what else a behaviour may contain.
Waits == {"line", "all", "bytes", "write", "wait", "connect", "send", "bye", "request", "await", "require"}
Others == {"kill", "eof", "interrupt", "shutdown"}

ASSUME CallsAssumption ==
  /\ File \cap (Proc \cup Conn \cup Module) = {}
  /\ Proc \cap (Conn \cup Module) = {} /\ Conn \cap Module = {}
  /\ {None, Body} \cap Handle = {} /\ None # Body
  /\ Mixes \subseteq SUBSET (Handle \cup Waits \cup Others)

VARIABLES
  uses,       \* the member of Mixes that this behaviour is about; never changes
  call,       \* slot -> the operation it waits for and the handle it is about
  phase,      \* slot -> how far that operation is
  parked,     \* slots with an entry in pending_
  life,       \* handle -> "new" (not made yet), "live", "gone" (collected)
  closed,     \* handles whose closed flag is set
  interrupt,  \* "off", "raised" (flag up, pass queued), "passed" (flag up)
  io_wait,    \* the process in whose waitpid the io thread blocks, or None
  lib_down    \* shutting_down of the libraries, and of the runtime

callVars == <<call, phase, parked>>
worldVars == <<uses, interrupt, lib_down>>

NoCall == [op |-> "none", on |-> None]

\* "io": handed over; "busy": the flow is past its first await; "waiting":
\* the flow waits for a coroutine of the runtime; "answered": PushResume was
\* called; "silent": the completion returned without it.
Phases == {"free", "io", "busy", "waiting", "answered", "silent"}

CallsInit ==
  /\ uses \in Mixes
  /\ call = [s \in Slot |-> NoCall] /\ phase = [s \in Slot |-> "free"] /\ parked = {}
  /\ life = [x \in Handle |-> "new"] /\ closed = {}
  /\ interrupt = "off" /\ io_wait = None /\ lib_down = FALSE

IsCall(s, op, p) == call[s].op = op /\ phase[s] = p

\* PreYield ... Yield in one go: nothing else runs on the executor between.
Start(s, op, x, p) ==
  /\ phase[s] = "free" /\ ~lib_down /\ op \in uses
  /\ call' = [call EXCEPT ![s] = [op |-> op, on |-> x]]
  /\ phase' = [phase EXCEPT ![s] = p]
  /\ parked' = parked \cup {s}

Advance(s, p) == phase' = [phase EXCEPT ![s] = p] /\ UNCHANGED <<call, parked>>

\* Mutant: the slot is given back although its coroutine was not resumed.
FinishForgotten(s, p) == phase' = [phase EXCEPT ![s] = "free"] /\ UNCHANGED <<call, parked>>

\* The completion of a call whose coroutine an interrupt took is ignored: its
\* handle is not in pending_ any more.
Finish(s, p) ==
  /\ phase' = [phase EXCEPT ![s] = IF s \in parked THEN p ELSE "free"]
  /\ call' = [call EXCEPT ![s] = IF s \in parked THEN @ ELSE NoCall]
  /\ UNCHANGED parked

\* Mutant: PushResume gated on the interrupt flag, as PushTask is.
PushResumeGated(s) == Finish(s, IF interrupt = "off" THEN "answered" ELSE "silent")

\* The shutdown gate of PushResume shows nowhere: after it no slot is parked.
PushResume(s) == Finish(s, "answered")

Silent(s) == Finish(s, "silent")

\* DoResume: the coroutine goes on with the answer.
Deliver(s) ==
  /\ phase[s] = "answered"
  /\ phase' = [phase EXCEPT ![s] = "free"]
  /\ call' = [call EXCEPT ![s] = NoCall]
  /\ parked' = parked \ {s}
  /\ UNCHANGED <<life, closed, io_wait, worldVars>>

\* The completion pass and the shutdown take every parked coroutine, the ones
\* that others wait for among them.  What the io thread does goes on.
TakeAll ==
  /\ parked' = {}
  /\ LET over == {s \in Slot : phase[s] \in {"waiting", "answered", "silent"}}
     IN /\ phase' = [s \in Slot |-> IF s \in over THEN "free" ELSE phase[s]]
        /\ call' = [s \in Slot |-> IF s \in over THEN NoCall ELSE call[s]]

Interrupt ==
  /\ "interrupt" \in uses /\ interrupt = "off" /\ interrupt' = "raised"
  /\ UNCHANGED <<callVars, uses, lib_down>>

InterruptPass ==
  interrupt = "raised" /\ interrupt' = "passed" /\ TakeAll /\ UNCHANGED <<uses, lib_down>>

ClearInterrupt ==
  interrupt = "passed" /\ interrupt' = "off" /\ UNCHANGED <<callVars, uses, lib_down>>

\* Shutdown closes the libraries, which only set their flag.
CloseLibraries ==
  /\ "shutdown" \in uses /\ ~lib_down /\ lib_down' = TRUE
  /\ TakeAll /\ UNCHANGED <<uses, interrupt>>

\* A handle is made, or a module is required for the first time.
Make(x) ==
  /\ life[x] = "new" /\ ~lib_down /\ x \in uses
  /\ life' = [life EXCEPT ![x] = "live"]

\* The methods of a handle first look at its closed flag.
Usable(x) == life[x] = "live" /\ x \notin closed

\* Lua may collect the userdata of x: no coroutine that is still parked has it
\* on its stack.
Unused(x) == life[x] = "live" /\ \A s \in parked : call[s].on # x

CallsTypeOK ==
  /\ call \in [Slot -> [op : Waits \cup {"none"}, on : Handle \cup {None, Body}]]
  /\ phase \in [Slot -> Phases] /\ parked \subseteq Slot
  /\ life \in [Handle -> {"new", "live", "gone"}] /\ closed \subseteq Handle
  /\ interrupt \in {"off", "raised", "passed"} /\ io_wait \in Proc \cup {None}
  /\ lib_down \in BOOLEAN
  /\ \A s \in parked : phase[s] # "free"
=============================================================================
