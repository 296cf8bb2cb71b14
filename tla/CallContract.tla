---------------------------- MODULE CallContract ----------------------------
(***************************************************************************)
(* What a script may expect of a call that waits, whatever the library.    *)
(*                                                                         *)
(* A call is made on an open thing and returns once.  A thing can be       *)
(* closed while a call on it waits: by a closing call, by the collector,   *)
(* or because it ended by itself.  A call whose thing was closed before it *)
(* had an answer may be stranded, that is, never return; a closing call is *)
(* never stranded.  An interrupt and the shutdown end every call there is. *)
(* A call on a trusted thing depends on other script code or on the        *)
(* runtime's gate (await, require): it can be stranded at any time, from   *)
(* its beginning on.                                                       *)
(***************************************************************************)
CONSTANTS Caller, Thing, Trusted, NoThing

VARIABLES
  doing,    \* caller -> the state of its call and the thing it is about
  shut      \* things that are closed

contractVars == <<doing, shut>>

Free == [is |-> "free", about |-> NoThing]
Does(c, st, x) == doing' = [doing EXCEPT ![c] = [is |-> st, about |-> x]]

Init == doing = [c \in Caller |-> Free] /\ shut = {}

Begin(c, x) ==
  /\ doing[c] = Free /\ x \notin shut
  /\ Does(c, "waiting", x) \/ (x \in Trusted /\ Does(c, "stranded", x))
  /\ UNCHANGED shut

BeginClosing(c, x) ==
  doing[c] = Free /\ x \notin shut /\ Does(c, "closing", x) /\ shut' = shut \cup {x}

Return(c) ==
  /\ doing[c].is \in {"waiting", "closing"}
  /\ doing' = [doing EXCEPT ![c] = Free] /\ UNCHANGED shut

Strand(c) ==
  /\ doing[c].is = "waiting" /\ doing[c].about \in shut \cup Trusted
  /\ Does(c, "stranded", doing[c].about) /\ UNCHANGED shut

Shut(x) == shut' = shut \cup {x} /\ UNCHANGED doing

EndAll == doing' = [c \in Caller |-> Free] /\ UNCHANGED shut

Next ==
  \/ \E c \in Caller : Return(c) \/ Strand(c) \/ \E x \in Thing : Begin(c, x) \/ BeginClosing(c, x)
  \/ \E x \in Thing : Shut(x)
  \/ EndAll

Spec == Init /\ [][Next]_contractVars
=============================================================================
