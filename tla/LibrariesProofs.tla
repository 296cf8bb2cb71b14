--------------------------- MODULE LibrariesProofs ---------------------------
(***************************************************************************)
(* Machine-checked facts about Libraries, for any number of coroutines and *)
(* handles, any content of streams and any mix of operations.              *)
(***************************************************************************)
EXTENDS Libraries, TLAPS

Thing == Handle \cup {None, Body}
CallRecord == [op : Waits \cup {"none"}, on : Thing]

\* The bookkeeping of calls and of handles, on which everything below rests.
SlotInv ==
  /\ call \in [Slot -> CallRecord]
  /\ phase \in [Slot -> Phases]
  /\ parked \subseteq Slot
  /\ \A s \in parked : phase[s] # "free"

\* What an operation is about.
Suits(op, x) ==
  /\ op = "wait" => x \in Proc
  /\ op \in Reads \cup {"write"} => x \in Stream
  /\ op \in {"connect", "send", "bye"} => x \in Conn
  /\ op = "require" => x \in Module
  /\ op = "await" => x = Body

HandleInv ==
  /\ life \in [Handle -> {"new", "live", "gone"}]
  /\ closed \subseteq Stream \cup Conn
  /\ \A p \in Proc \cap closed : life[p] # "new"

CallInv == SlotInv /\ HandleInv /\ \A s \in Slot : Suits(call[s].op, call[s].on)

-----------------------------------------------------------------------------
(* What the steps of a call do to it, and to what the contract sees of it  *)

Sees(s) == DoingOf(s)' = DoingOf(s)

LEMMA StartStep ==
  ASSUME CallInv, NEW s \in Slot, NEW op \in Waits, NEW x \in Thing, NEW p \in Phases \ {"free"},
         Start(s, op, x, p)
  PROVE  /\ SlotInv'
         /\ call'[s] = [op |-> op, on |-> x] /\ phase'[s] = p
         /\ DoingOf(s) = [is |-> "free", about |-> None]
         /\ \A t \in Slot \ {s} : call'[t] = call[t] /\ phase'[t] = phase[t] /\ Sees(t)
         /\ s \in parked'
<1>1. s \notin parked
  BY DEF Start, CallInv, SlotInv
<1>2. [op |-> op, on |-> x] \in CallRecord
  BY DEF CallRecord
<1>3. /\ call' \in [Slot -> CallRecord] /\ phase' \in [Slot -> Phases] /\ parked' \subseteq Slot
      /\ call'[s] = [op |-> op, on |-> x] /\ phase'[s] = p /\ s \in parked'
      /\ \A t \in Slot \ {s} : call'[t] = call[t] /\ phase'[t] = phase[t] /\ (t \in parked' <=> t \in parked)
  BY <1>2 DEF Start, CallInv, SlotInv
<1>4. \A t \in parked' : phase'[t] # "free"
  BY <1>3 DEF CallInv, SlotInv
<1>5. DoingOf(s) = [is |-> "free", about |-> None]
  BY <1>1 DEF DoingOf, StateOf
<1>6. \A t \in Slot \ {s} : Sees(t)
  BY <1>3 DEF Sees, DoingOf, StateOf
<1> QED BY <1>3, <1>4, <1>5, <1>6 DEF SlotInv

LEMMA AdvanceStep ==
  ASSUME CallInv, NEW s \in Slot, NEW p \in Phases \ {"free", "silent"}, phase[s] # "silent",
         Advance(s, p)
  PROVE  /\ SlotInv'
         /\ call' = call /\ phase'[s] = p
         /\ \A t \in Slot \ {s} : phase'[t] = phase[t]
         /\ \A t \in Slot : Sees(t)
<1>1. /\ phase' \in [Slot -> Phases] /\ phase'[s] = p
      /\ \A t \in Slot \ {s} : phase'[t] = phase[t]
      /\ call' = call /\ parked' = parked
  BY DEF Advance, CallInv, SlotInv
<1>2. \A t \in Slot : Sees(t)
  BY <1>1 DEF Sees, DoingOf, StateOf
<1> QED BY <1>1, <1>2 DEF SlotInv, CallInv

LEMMA FinishStep ==
  ASSUME CallInv, NEW s \in Slot, NEW p \in {"answered", "silent"}, Finish(s, p)
  PROVE  /\ SlotInv'
         /\ phase'[s] \in {"free", "answered", "silent"} /\ call'[s] \in {call[s], NoCall}
         /\ \A t \in Slot \ {s} : call'[t] = call[t] /\ phase'[t] = phase[t] /\ Sees(t)
         /\ parked' = parked
         /\ s \in parked => call'[s] = call[s] /\ phase'[s] = p
<1>1. NoCall \in CallRecord
  BY DEF NoCall, CallRecord, Thing
<1>2. /\ call' \in [Slot -> CallRecord] /\ phase' \in [Slot -> Phases]
      /\ phase'[s] = (IF s \in parked THEN p ELSE "free")
      /\ call'[s] = (IF s \in parked THEN call[s] ELSE NoCall)
      /\ \A t \in Slot \ {s} : call'[t] = call[t] /\ phase'[t] = phase[t]
      /\ parked' = parked
  BY <1>1 DEF Finish, CallInv, SlotInv, Phases
<1>3. \A t \in Slot \ {s} : Sees(t)
  BY <1>2 DEF Sees, DoingOf, StateOf
<1> QED BY <1>2, <1>3 DEF SlotInv, CallInv

\* An answer is under way: the contract sees nothing yet.
LEMMA AnswerStep ==
  ASSUME CallInv, NEW s \in Slot, phase[s] # "silent", PushResume(s)
  PROVE  \A t \in Slot : Sees(t)
<1>1. Finish(s, "answered")
  BY DEF PushResume
<1>2. \A t \in Slot \ {s} : Sees(t)
  BY <1>1, FinishStep
<1>3. Sees(s)
  BY <1>1, FinishStep DEF Sees, DoingOf, StateOf
<1> QED BY <1>2, <1>3

LEMMA DeliverStep ==
  ASSUME CallInv, NEW s \in Slot, Deliver(s)
  PROVE  /\ SlotInv'
         /\ phase'[s] = "free" /\ call'[s] = NoCall
         /\ \A t \in Slot \ {s} : call'[t] = call[t] /\ phase'[t] = phase[t] /\ Sees(t)
         /\ DoingOf(s)' = [is |-> "free", about |-> None]
<1>1. NoCall \in CallRecord
  BY DEF NoCall, CallRecord, Thing
<1>2. /\ call' \in [Slot -> CallRecord] /\ phase' \in [Slot -> Phases]
      /\ phase'[s] = "free" /\ call'[s] = NoCall /\ parked' = parked \ {s}
      /\ \A t \in Slot \ {s} : call'[t] = call[t] /\ phase'[t] = phase[t]
  BY <1>1 DEF Deliver, CallInv, SlotInv, Phases
<1>3. \A t \in Slot \ {s} : Sees(t)
  BY <1>2 DEF Sees, DoingOf, StateOf
<1>4. DoingOf(s)' = [is |-> "free", about |-> None]
  BY <1>2 DEF DoingOf, StateOf
<1> QED BY <1>2, <1>3, <1>4 DEF SlotInv, CallInv

LEMMA TakeAllStep ==
  ASSUME CallInv, TakeAll
  PROVE  /\ SlotInv'
         /\ \A t \in Slot : \/ call'[t] = call[t] /\ phase'[t] = phase[t]
                            \/ call'[t] = NoCall /\ phase'[t] = "free"
         /\ \A t \in Slot : DoingOf(t)' = [is |-> "free", about |-> None]
<1>1. NoCall \in CallRecord
  BY DEF NoCall, CallRecord, Thing
<1>2. /\ call' \in [Slot -> CallRecord] /\ phase' \in [Slot -> Phases] /\ parked' = {}
      /\ \A t \in Slot : \/ call'[t] = call[t] /\ phase'[t] = phase[t]
                         \/ call'[t] = NoCall /\ phase'[t] = "free"
  BY <1>1 DEF TakeAll, CallInv, SlotInv, Phases
<1>3. \A t \in Slot : DoingOf(t)' = [is |-> "free", about |-> None]
  BY <1>2 DEF DoingOf, StateOf
<1> QED BY <1>2, <1>3 DEF SlotInv

-----------------------------------------------------------------------------
(* The steps of the contract                                               *)

ContractStep == [Contract!Next]_Contract!contractVars

LEMMA SeesNothing ==
  ASSUME \A t \in Slot : Sees(t), closed' = closed
  PROVE  ContractStep
BY DEF ContractStep, Sees, Contract!contractVars

LEMMA SeesShut ==
  ASSUME \A t \in Slot : Sees(t), NEW x \in Thing, closed' = closed \cup {x}
  PROVE  ContractStep
<1>1. Contract!Shut(x)
  BY DEF Sees, Contract!Shut
<1> QED BY <1>1 DEF ContractStep, Contract!Next, Thing

LEMMA SeesBegin ==
  ASSUME NEW s \in Slot, NEW x \in Thing, NEW st \in {"waiting", "stranded"},
         st = "stranded" => x \in Module \cup {Body},
         DoingOf(s) = [is |-> "free", about |-> None], DoingOf(s)' = [is |-> st, about |-> x],
         \A t \in Slot \ {s} : Sees(t), x \notin closed, closed' = closed
  PROVE  ContractStep
<1>1. Contract!Begin(s, x)
  BY DEF Sees, Contract!Begin, Contract!Free, Contract!Does
<1> QED BY <1>1 DEF ContractStep, Contract!Next, Thing

LEMMA SeesBeginClosing ==
  ASSUME NEW s \in Slot, NEW x \in Thing,
         DoingOf(s) = [is |-> "free", about |-> None], DoingOf(s)' = [is |-> "closing", about |-> x],
         \A t \in Slot \ {s} : Sees(t), x \notin closed, closed' = closed \cup {x}
  PROVE  ContractStep
<1>1. Contract!BeginClosing(s, x)
  BY DEF Sees, Contract!BeginClosing, Contract!Free, Contract!Does
<1> QED BY <1>1 DEF ContractStep, Contract!Next, Thing

LEMMA SeesReturn ==
  ASSUME NEW s \in Slot, DoingOf(s).is \in {"waiting", "closing"},
         DoingOf(s)' = [is |-> "free", about |-> None],
         \A t \in Slot \ {s} : Sees(t), closed' = closed
  PROVE  ContractStep
<1>1. Contract!Return(s)
  BY DEF Sees, Contract!Return, Contract!Free
<1> QED BY <1>1 DEF ContractStep, Contract!Next

LEMMA SeesStrand ==
  ASSUME NEW s \in Slot,
         DoingOf(s).is = "waiting", DoingOf(s).about \in closed \cup Module \cup {Body},
         DoingOf(s)' = [is |-> "stranded", about |-> DoingOf(s).about],
         \A t \in Slot \ {s} : Sees(t), closed' = closed
  PROVE  ContractStep
<1>1. Contract!Strand(s)
  BY DEF Sees, Contract!Strand, Contract!Does
<1> QED BY <1>1 DEF ContractStep, Contract!Next

LEMMA SeesEndAll ==
  ASSUME \A t \in Slot : DoingOf(t)' = [is |-> "free", about |-> None], closed' = closed
  PROVE  ContractStep
<1>1. Contract!EndAll
  BY DEF Contract!EndAll, Contract!Free
<1> QED BY <1>1 DEF ContractStep, Contract!Next

-----------------------------------------------------------------------------
(* What each kind of step keeps                                            *)

\* No wait for a child begins or goes on, and no require begins.
AwaitsChild(s) == call[s].op = "wait" /\ phase[s] \in {"io", "busy"}
Calm ==
  \A s \in Slot :
    /\ AwaitsChild(s)' => AwaitsChild(s) /\ call'[s] = call[s] /\ phase'[s] = phase[s]
    /\ \A m \in Module : Loads(s, m)' => Loads(s, m)

Kept == CallInv' /\ ContractStep /\ Calm /\ closed \subseteq closed'

LEMMA KeptByOthers ==
  ASSUME CallInv, HandleInv', UNCHANGED callVars,
         NEW x \in Thing, closed' \in {closed, closed \cup {x}}
  PROVE  Kept
<1>1. \A t \in Slot : Sees(t)
  BY DEF Sees, DoingOf, StateOf, callVars
<1>2. ContractStep
  BY <1>1, SeesNothing, SeesShut
<1>3. Calm
  BY DEF Calm, AwaitsChild, Loads, callVars
<1> QED BY <1>2, <1>3 DEF Kept, CallInv, SlotInv, callVars

LEMMA KeptByBegin ==
  ASSUME CallInv, HandleInv', NEW s \in Slot, NEW op \in Waits \ {"wait", "bye"},
         NEW x \in Thing, NEW p \in Phases \ {"free"}, Start(s, op, x, p),
         p = "silent" => x \in Module \cup {Body},
         Suits(op, x), x \notin closed, closed' = closed
  PROVE  CallInv' /\ ContractStep /\ (op # "require" => Kept)
<1> DEFINE st == IF p = "silent" THEN "stranded" ELSE "waiting"
<1>1. /\ SlotInv' /\ s \in parked' /\ call'[s] = [op |-> op, on |-> x] /\ phase'[s] = p
      /\ \A t \in Slot \ {s} : call'[t] = call[t] /\ phase'[t] = phase[t] /\ Sees(t)
      /\ DoingOf(s) = [is |-> "free", about |-> None]
  BY StartStep
<1>2. DoingOf(s)' = [is |-> st, about |-> x]
  BY <1>1 DEF DoingOf, StateOf
<1>3. ContractStep
  BY <1>1, <1>2, SeesBegin
<1>4. CallInv'
  BY <1>1 DEF CallInv
<1>5. op # "require" => Calm
  BY <1>1 DEF Calm, AwaitsChild, Loads
<1> QED BY <1>3, <1>4, <1>5 DEF Kept

LEMMA KeptByAnswer ==
  ASSUME CallInv, HandleInv', NEW s \in Slot, phase[s] # "silent", PushResume(s),
         NEW x \in Thing, closed' \in {closed, closed \cup {x}}
  PROVE  Kept
<1>1. /\ SlotInv' /\ phase'[s] \in {"free", "answered", "silent"} /\ call'[s] \in {call[s], NoCall}
      /\ \A t \in Slot \ {s} : call'[t] = call[t] /\ phase'[t] = phase[t]
  BY FinishStep DEF PushResume
<1>2. ContractStep
  BY AnswerStep, SeesNothing, SeesShut
<1>3. \A t \in Slot : Suits(call'[t].op, call'[t].on)
  BY <1>1 DEF CallInv, Suits, NoCall, Reads
<1>4. Calm
  BY <1>1 DEF Calm, AwaitsChild, Loads
<1> QED BY <1>1, <1>2, <1>3, <1>4 DEF Kept, CallInv

LEMMA KeptByStrand ==
  ASSUME CallInv, HandleInv', NEW s \in Slot, phase[s] # "silent", Silent(s), closed' = closed,
         \/ call[s].op \in {"await", "require"}
         \/ call[s].op \notin {"wait", "bye"} /\ call[s].on \in closed
  PROVE  Kept
<1>1. /\ SlotInv' /\ phase'[s] \in {"free", "answered", "silent"} /\ call'[s] \in {call[s], NoCall}
      /\ \A t \in Slot \ {s} : call'[t] = call[t] /\ phase'[t] = phase[t] /\ Sees(t)
      /\ parked' = parked
      /\ s \in parked => call'[s] = call[s] /\ phase'[s] = "silent"
  BY FinishStep DEF Silent
<1>2. s \notin parked => Sees(s)
  BY <1>1 DEF Sees, DoingOf
<1>3. ASSUME s \in parked
      PROVE  /\ DoingOf(s)' = [is |-> "stranded", about |-> DoingOf(s).about]
             /\ DoingOf(s).is = "waiting" /\ DoingOf(s).about \in closed \cup Module \cup {Body}
  <2>1. DoingOf(s)' = [is |-> "stranded", about |-> call[s].on]
    BY <1>1, <1>3 DEF DoingOf, StateOf
  <2>2. DoingOf(s) = [is |-> "waiting", about |-> call[s].on]
    BY <1>3 DEF DoingOf, StateOf
  <2>3. call[s].on \in closed \cup Module \cup {Body}
    BY DEF CallInv, Suits
  <2> QED BY <2>1, <2>2, <2>3
<1>4. ContractStep
  BY <1>1, <1>2, <1>3, SeesNothing, SeesStrand
<1>5. \A t \in Slot : Suits(call'[t].op, call'[t].on)
  BY <1>1 DEF CallInv, Suits, NoCall, Reads
<1>6. Calm
  BY <1>1 DEF Calm, AwaitsChild, Loads
<1> QED BY <1>1, <1>4, <1>5, <1>6 DEF Kept, CallInv

LEMMA KeptByAdvance ==
  ASSUME CallInv, HandleInv', NEW s \in Slot, NEW p \in Phases \ {"free", "silent"},
         phase[s] \in {"io", "busy", "waiting"}, Advance(s, p), closed' = closed
  PROVE  CallInv' /\ ContractStep /\ (call[s].op # "wait" => Kept)
<1>1. /\ SlotInv' /\ call' = call /\ phase'[s] = p
      /\ \A t \in Slot \ {s} : phase'[t] = phase[t]
      /\ \A t \in Slot : Sees(t)
  BY AdvanceStep
<1>2. ContractStep
  BY <1>1, SeesNothing
<1>3. CallInv'
  BY <1>1 DEF CallInv
<1>4. call[s].op # "wait" => Calm
  BY <1>1 DEF Calm, AwaitsChild, Loads
<1> QED BY <1>2, <1>3, <1>4 DEF Kept

LEMMA KeptByDeliver ==
  ASSUME CallInv, NEW s \in Slot, Deliver(s)
  PROVE  Kept
<1>1. /\ SlotInv' /\ phase'[s] = "free" /\ call'[s] = NoCall
      /\ \A t \in Slot \ {s} : call'[t] = call[t] /\ phase'[t] = phase[t] /\ Sees(t)
      /\ DoingOf(s)' = [is |-> "free", about |-> None]
  BY DeliverStep
<1>2. phase[s] = "answered" /\ life' = life /\ closed' = closed
  BY DEF Deliver
<1>3. DoingOf(s).is \in {"waiting", "closing"} \/ Sees(s)
  BY <1>1, <1>2 DEF DoingOf, StateOf, Sees
<1>4. ContractStep
  BY <1>1, <1>2, <1>3, SeesReturn, SeesNothing
<1>5. \A t \in Slot : Suits(call'[t].op, call'[t].on)
  BY <1>1 DEF CallInv, Suits, NoCall, Reads
<1>6. Calm
  BY <1>1 DEF Calm, AwaitsChild, Loads
<1> QED BY <1>1, <1>2, <1>4, <1>5, <1>6 DEF Kept, CallInv, HandleInv

LEMMA KeptByTakeAll ==
  ASSUME CallInv, TakeAll, UNCHANGED <<life, closed>>
  PROVE  Kept
<1>1. /\ SlotInv'
      /\ \A t \in Slot : \/ call'[t] = call[t] /\ phase'[t] = phase[t]
                         \/ call'[t] = NoCall /\ phase'[t] = "free"
      /\ \A t \in Slot : DoingOf(t)' = [is |-> "free", about |-> None]
  BY TakeAllStep
<1>2. ContractStep
  BY <1>1, SeesEndAll
<1>3. \A t \in Slot : Suits(call'[t].op, call'[t].on)
  BY <1>1 DEF CallInv, Suits, NoCall, Reads
<1>4. Calm
  BY <1>1 DEF Calm, AwaitsChild, Loads
<1> QED BY <1>1, <1>2, <1>3, <1>4 DEF Kept, CallInv, HandleInv

-----------------------------------------------------------------------------
(* What happens to the handles                                             *)

LEMMA HandlesSame ==
  ASSUME CallInv, life' = life, NEW x \in Stream \cup Conn, x \in Proc => life[x] # "new",
         closed' \in {closed, closed \cup {x}}
  PROVE  HandleInv'
BY DEF CallInv, HandleInv

LEMMA HandlesUntouched ==
  ASSUME CallInv, life' = life, closed' = closed
  PROVE  HandleInv'
BY DEF CallInv, HandleInv

LEMMA HandleMade ==
  ASSUME CallInv, NEW x \in Handle, Make(x), closed' = closed
  PROVE  HandleInv'
BY DEF CallInv, HandleInv, Make

LEMMA HandleCollected ==
  ASSUME CallInv, NEW x \in Stream \cup Conn, life' = [life EXCEPT ![x] = "gone"],
         closed' \in {closed, closed \cup {x}}
  PROVE  HandleInv'
<1>1. life' \in [Handle -> {"new", "live", "gone"}]
  BY DEF CallInv, HandleInv
<1>2. \A p \in Proc \cap closed' : life'[p] # "new"
  BY DEF CallInv, HandleInv, Handle
<1> QED BY <1>1, <1>2 DEF CallInv, HandleInv

\* Only streams and connections are ever closed.
LEMMA NeverClosed ==
  ASSUME CallInv
  PROVE  None \notin closed /\ Body \notin closed /\ \A m \in Module : m \notin closed
BY CallsAssumption DEF CallInv, HandleInv, Handle, Stream

-----------------------------------------------------------------------------
(* Every action, one after the other                                       *)

\* The three steps after which a slot awaits a child, or loads, that did not.
Unrest ==
  \/ \E s \in Slot : RunWait(s)
  \/ \E s \in Slot : \E p \in Proc : CloseProc(s, p)
  \/ \E s \in Slot : \E m \in Module : Require(s, m)

Sound == CallInv' /\ ContractStep /\ (Calm \/ Unrest) /\ closed \subseteq closed'

LEMMA ThingsAre == Handle \subseteq Thing /\ Stream \subseteq Thing /\ Conn \subseteq Thing
BY DEF Thing, Handle, Stream

LEMMA AsyncIOCallsSound ==
  ASSUME CallInv, AsyncIOCalls
  PROVE  Sound
<1>1. ASSUME NEW f \in File, Open(f) PROVE Kept
  BY <1>1, HandleMade, KeptByOthers, ThingsAre DEF Open, Handle
<1>2. ASSUME NEW f \in File, CloseFile(f) PROVE Kept
  <2>1. HandleInv'
    BY <1>2, HandlesSame, CallsAssumption DEF CloseFile, Stream
  <2> QED BY <1>2, <2>1, KeptByOthers, ThingsAre DEF CloseFile, Stream
<1>3. ASSUME NEW p \in Proc, Exec(p) PROVE Kept
  BY <1>3, HandleMade, KeptByOthers, ThingsAre DEF Exec, Handle
<1>4. ASSUME NEW p \in Proc, ShutdownStdin(p) \/ Kill(p) PROVE Kept
  <2>1. HandleInv' /\ UNCHANGED callVars /\ closed' = closed
    BY <1>4, HandlesUntouched DEF ShutdownStdin, Kill
  <2> QED BY <2>1, KeptByOthers, ThingsAre DEF Stream
<1>5. ASSUME NEW x \in Stream, CollectStream(x) PROVE Kept
  <2>1. HandleInv'
    BY <1>5, HandleCollected DEF CollectStream
  <2> QED BY <1>5, <2>1, KeptByOthers, ThingsAre DEF CollectStream
<1>6. ASSUME NEW s \in Slot, NEW x \in Stream, Write(s, x) PROVE Kept
  <2>1. /\ HandleInv' /\ Start(s, "write", x, "io") /\ x \notin closed /\ closed' = closed
        /\ Suits("write", x) /\ x \in Thing
    BY <1>6, HandlesUntouched, ThingsAre DEF Write, Usable, Suits, Reads
  <2> QED BY <2>1, KeptByBegin DEF Waits, Phases
<1>7. ASSUME NEW s \in Slot, NEW x \in Stream, NEW op \in Reads, Read(s, x, op) PROVE Kept
  <2>1. /\ HandleInv' /\ x \notin closed /\ closed' = closed
        /\ Suits(op, x) /\ x \in Thing
    BY <1>7, HandlesUntouched, ThingsAre DEF Read, Usable, Suits, Reads
  <2>2. Start(s, op, x, "io") \/ Start(s, op, x, "answered")
    BY <1>7 DEF Read
  <2>3. op \in Waits \ {"wait", "bye"} /\ op # "require"
    BY DEF Reads, Waits
  <2> QED BY <2>1, <2>2, <2>3, KeptByBegin DEF Phases
<1>8. ASSUME NEW s \in Slot, NEW p \in Proc, CloseProc(s, p) PROVE Sound
  <2>1. /\ Start(s, "wait", p, "io") /\ closed' = closed \cup {p} /\ p \notin closed
        /\ life' = life /\ life[p] = "live" /\ p \in Thing /\ p \in Stream
    BY <1>8, ThingsAre DEF CloseProc, Usable, Stream
  <2>2. HandleInv'
    BY <2>1, HandlesSame
  <2>3. /\ SlotInv' /\ s \in parked' /\ call'[s] = [op |-> "wait", on |-> p] /\ phase'[s] = "io"
        /\ \A t \in Slot \ {s} : call'[t] = call[t] /\ phase'[t] = phase[t] /\ Sees(t)
        /\ DoingOf(s) = [is |-> "free", about |-> None]
    BY <2>1, StartStep DEF Waits, Phases
  <2>4. DoingOf(s)' = [is |-> "closing", about |-> p]
    BY <2>3 DEF DoingOf, StateOf
  <2>5. ContractStep
    BY <2>1, <2>3, <2>4, SeesBeginClosing
  <2>6. \A t \in Slot : Suits(call'[t].op, call'[t].on)
    BY <2>3 DEF CallInv, Suits, Reads
  <2> QED BY <1>8, <2>1, <2>2, <2>3, <2>5, <2>6 DEF Sound, Unrest, CallInv
<1> QED BY <1>1, <1>2, <1>3, <1>4, <1>5, <1>6, <1>7, <1>8 DEF AsyncIOCalls, Kept, Sound

LEMMA AsyncIOStepsSound ==
  ASSUME CallInv, AsyncIOSteps
  PROVE  Sound
<1>1. life' = life /\ closed' = closed /\ HandleInv' /\ None \in Thing
  BY HandlesUntouched DEF AsyncIOSteps, Arrive, ReadEnds, WriteEnds, Aborted, RunWait, WaitDone,
     ChildWrites, ChildReads, ChildEnds, Thing
<1>2. ASSUME NEW s \in Slot, NEW n \in 1..3, Arrive(s, n) PROVE Kept
  <2>1. phase[s] # "silent" /\ (PushResume(s) \/ UNCHANGED callVars)
    BY <1>2 DEF Arrive, LineArrives, BufferArrives, Answer
  <2> QED BY <1>1, <2>1, KeptByAnswer, KeptByOthers
<1>3. ASSUME NEW s \in Slot, ReadEnds(s) \/ WriteEnds(s) \/ WaitDone(s) PROVE Kept
  <2>1. phase[s] # "silent" /\ PushResume(s)
    BY <1>3 DEF ReadEnds, WriteEnds, WaitDone, Answer, IsCall
  <2> QED BY <1>1, <2>1, KeptByAnswer
<1>4. ASSUME NEW s \in Slot, Aborted(s) PROVE Kept
  <2>1. /\ phase[s] # "silent" /\ Silent(s) /\ call[s].on \in closed
        /\ call[s].op \notin {"wait", "bye"}
    BY <1>4 DEF Aborted, Reads
  <2> QED BY <1>1, <2>1, KeptByStrand
<1>5. ASSUME NEW s \in Slot, RunWait(s) PROVE Sound
  <2>1. phase[s] \in {"io", "busy", "waiting"} /\ Advance(s, "busy")
    BY <1>5 DEF RunWait, IsCall
  <2>2. CallInv' /\ ContractStep
    BY <1>1, <2>1, KeptByAdvance DEF Phases
  <2> QED BY <1>1, <1>5, <2>2 DEF Sound, Unrest
<1>6. ASSUME NEW p \in Proc, ChildWrites(p) \/ ChildReads(p) \/ ChildEnds(p) PROVE Kept
  <2>1. UNCHANGED callVars
    BY <1>6 DEF ChildWrites, ChildReads, ChildEnds
  <2> QED BY <1>1, <2>1, KeptByOthers
<1> QED BY <1>2, <1>3, <1>4, <1>5, <1>6 DEF AsyncIOSteps, Kept, Sound


LEMMA HttpCallsSound ==
  ASSUME CallInv, HttpCalls
  PROVE  Sound
<1>1. ASSUME NEW s \in Slot, Request(s) PROVE Kept
  <2>1. HandleInv' /\ Start(s, "request", None, "io") /\ None \notin closed /\ closed' = closed
    BY <1>1, HandlesUntouched, NeverClosed DEF Request, Rest
  <2> QED BY <2>1, KeptByBegin DEF Waits, Phases, Thing, Suits, Reads
<1>2. ASSUME NEW s \in Slot, NEW w \in Conn, Connect(s, w) \/ Send(s, w) PROVE Kept
  <2>1. PICK op \in {"connect", "send"} : Start(s, op, w, "io")
    BY <1>2 DEF Connect, Send
  <2>2. HandleInv' /\ w \notin closed /\ closed' = closed
    BY <1>2, HandlesUntouched DEF Connect, Send, Rest, Usable
  <2>3. Suits(op, w) /\ op \in Waits \ {"wait", "bye"} /\ op # "require"
    BY <2>1 DEF Suits, Reads, Waits
  <2> QED BY <2>1, <2>2, <2>3, KeptByBegin, ThingsAre DEF Phases
<1>3. ASSUME NEW s \in Slot, NEW w \in Conn, CloseWs(s, w) PROVE Kept
  <2>1. /\ Start(s, "bye", w, "io") /\ closed' = closed \cup {w} /\ w \notin closed
        /\ life' = life /\ w \in Thing
    BY <1>3, ThingsAre DEF CloseWs, Usable, Rest
  <2>2. HandleInv'
    BY <2>1, HandlesSame, CallsAssumption
  <2>3. /\ SlotInv' /\ s \in parked' /\ call'[s] = [op |-> "bye", on |-> w] /\ phase'[s] = "io"
        /\ \A t \in Slot \ {s} : call'[t] = call[t] /\ phase'[t] = phase[t] /\ Sees(t)
        /\ DoingOf(s) = [is |-> "free", about |-> None]
    BY <2>1, StartStep DEF Waits, Phases
  <2>4. DoingOf(s)' = [is |-> "closing", about |-> w]
    BY <2>3 DEF DoingOf, StateOf
  <2>5. ContractStep
    BY <2>1, <2>3, <2>4, SeesBeginClosing
  <2>6. \A t \in Slot : Suits(call'[t].op, call'[t].on)
    BY <2>3 DEF CallInv, Suits, Reads
  <2>7. Calm
    BY <2>3 DEF Calm, AwaitsChild, Loads
  <2> QED BY <2>1, <2>2, <2>3, <2>5, <2>6, <2>7 DEF Kept, CallInv
<1>4. ASSUME NEW w \in Conn, CreateWs(w) PROVE Kept
  BY <1>4, HandleMade, KeptByOthers, ThingsAre DEF CreateWs, Handle
<1>5. ASSUME NEW w \in Conn, CollectWs(w) PROVE Kept
  <2>1. /\ life' = [life EXCEPT ![w] = "gone"] /\ UNCHANGED callVars
        /\ closed' \in {closed, closed \cup {w}}
    BY <1>5 DEF CollectWs
  <2>2. HandleInv'
    BY <2>1, HandleCollected
  <2> QED BY <2>1, <2>2, KeptByOthers, ThingsAre
<1> QED BY <1>1, <1>2, <1>3, <1>4, <1>5 DEF HttpCalls, Kept, Sound

LEMMA HttpStepsSound ==
  ASSUME CallInv, HttpSteps
  PROVE  Sound
<1>1. None \in Thing /\ Conn \subseteq Thing /\ Conn \cap Proc = {}
  BY CallsAssumption, ThingsAre DEF Thing
<1>2. ASSUME NEW s \in Slot, RequestEnds(s) \/ ConnectSucceeds(s) \/ WriteDone(s) PROVE Kept
  <2>1. HandleInv' /\ phase[s] # "silent" /\ PushResume(s) /\ closed' = closed
    BY <1>2, HandlesUntouched DEF RequestEnds, ConnectSucceeds, WriteDone, Rest, IsCall
  <2> QED BY <1>1, <2>1, KeptByAnswer
<1>3. ASSUME NEW s \in Slot, ConnectFails(s) PROVE Kept
  <2>1. /\ phase[s] # "silent" /\ PushResume(s) /\ life' = life
        /\ closed' = closed \cup {call[s].on} /\ call[s].on \in Conn
    BY <1>3 DEF ConnectFails, AnswerFailure, Rest, IsCall, CallInv, Suits
  <2>2. HandleInv'
    BY <1>1, <2>1, HandlesSame
  <2> QED BY <1>1, <2>1, <2>2, KeptByAnswer
<1>4. ASSUME NEW s \in Slot, ConnectAborted(s) PROVE Kept
  <2>1. /\ HandleInv' /\ phase[s] # "silent" /\ Silent(s) /\ closed' = closed
        /\ call[s].op \notin {"wait", "bye"} /\ call[s].on \in closed
    BY <1>4, HandlesUntouched DEF ConnectAborted, Rest, IsCall
  <2> QED BY <2>1, KeptByStrand
<1>5. ASSUME NEW s \in Slot, ConnectStarts(s) \/ SendStarts(s) \/ CloseStarts(s) PROVE Kept
  <2>1. /\ HandleInv' /\ phase[s] = "io" /\ closed' = closed /\ call[s].op # "wait"
        /\ Advance(s, "busy") \/ PushResume(s)
    BY <1>5, HandlesUntouched DEF ConnectStarts, SendStarts, CloseStarts, Rest, IsCall
  <2> QED BY <1>1, <2>1, KeptByAdvance, KeptByAnswer DEF Phases
<1>6. ASSUME NEW w \in Conn, NEW k \in Client,
             \/ GcFrameEnds(w) \/ PumpReads(w, k) \/ PumpStops(w, k)
             \/ PumpMessage(w, k) \/ PumpFails(w, k)
      PROVE  Kept
  <2>1. UNCHANGED callVars /\ life' = life /\ closed' \in {closed, closed \cup {w}}
    BY <1>6 DEF GcFrameEnds, PumpReads, PumpStops, PumpMessage, PumpFails, Rest
  <2>2. HandleInv'
    BY <1>1, <2>1, HandlesSame
  <2> QED BY <1>1, <2>1, <2>2, KeptByOthers
<1>7. ASSUME NEW w \in Conn, GcFrameEnds(w) PROVE Kept
  <2>1. UNCHANGED callVars /\ life' = life /\ closed' = closed
    BY <1>7 DEF GcFrameEnds, Rest
  <2> QED BY <1>1, <2>1, HandlesUntouched, KeptByOthers
<1> QED BY <1>2, <1>3, <1>4, <1>5, <1>6, <1>7 DEF HttpSteps, ConnectEnds, Kept, Sound

LEMMA BodiesSound ==
  ASSUME CallInv, BodiesNext
  PROVE  Sound
<1>1. None \in Thing /\ Body \in Thing /\ Body \notin closed
  BY NeverClosed DEF Thing
<1>2. ASSUME NEW s \in Slot, Await(s) PROVE Kept
  <2>1. HandleInv' /\ closed' = closed /\ Start(s, "await", Body, IF Gate THEN "waiting" ELSE "silent")
    BY <1>2, HandlesUntouched DEF Await, NoHandles
  <2> QED BY <1>1, <2>1, KeptByBegin DEF Waits, Phases, Suits, Reads
<1>3. ASSUME NEW s \in Slot,
             \/ RunBody(s) \/ SettleAwait(s) \/ BodyReturns(s) \/ LoseClosures(s)
             \/ SourceMissing(s) \/ RunModule(s) \/ ModuleEnds(s) \/ SourceFound(s)
      PROVE  Kept
  <2>1. HandleInv' /\ closed' = closed
    BY <1>3, HandlesUntouched DEF RunBody, SettleAwait, BodyReturns, LoseClosures, SourceMissing,
       RunModule, ModuleEnds, SourceFound, NoHandles
  <2>2. phase[s] \in {"io", "busy", "waiting"} /\ call[s].op \in {"await", "require"}
    BY <1>3 DEF RunBody, SettleAwait, BodyReturns, LoseClosures, SourceMissing,
       RunModule, ModuleEnds, SourceFound, IsCall
  <2>3. \/ PushResume(s) \/ Silent(s) \/ UNCHANGED callVars
        \/ \E p \in {"busy", "waiting"} : Advance(s, p)
    BY <1>3 DEF RunBody, SettleAwait, BodyReturns, LoseClosures, SourceMissing,
       RunModule, ModuleEnds, SourceFound
  <2> QED BY <1>1, <2>1, <2>2, <2>3, KeptByAnswer, KeptByStrand, KeptByOthers, KeptByAdvance DEF Phases
<1>4. ASSUME NEW s \in Slot, NEW m \in Module, Require(s, m) PROVE Sound
  <2>1. m \in Handle /\ m \in Thing /\ m \notin closed
    BY NeverClosed, ThingsAre DEF Handle
  <2>2. HandleInv' /\ closed' = closed /\ Start(s, "require", m, "io")
    BY <1>4, <2>1, HandlesUntouched, HandleMade DEF Require
  <2>3. CallInv' /\ ContractStep
    BY <2>1, <2>2, KeptByBegin DEF Waits, Phases, Suits, Reads
  <2> QED BY <1>4, <2>2, <2>3 DEF Sound, Unrest
<1> QED BY <1>2, <1>3, <1>4 DEF BodiesNext, Kept, Sound

LEMMA WorldSound ==
  ASSUME CallInv, World
  PROVE  Sound
<1>1. ASSUME (Interrupt \/ ClearInterrupt) /\ UNCHANGED <<life, closed, io_wait, aioVars>>
      PROVE  Kept
  <2>1. UNCHANGED callVars /\ None \in Thing
    BY <1>1 DEF Interrupt, ClearInterrupt, Thing
  <2> QED BY <1>1, <2>1, HandlesUntouched, KeptByOthers
<1>2. ASSUME Pass \/ (CloseLibraries /\ AbandonReads) PROVE Kept
  BY <1>2, KeptByTakeAll DEF Pass, CloseLibraries, AbandonReads, InterruptPass
<1> QED BY <1>1, <1>2 DEF World, Kept, Sound

LEMMA StepSound ==
  ASSUME CallInv, [Next]_vars
  PROVE  Sound
<1>1. ASSUME UNCHANGED vars PROVE Kept
  <2>1. UNCHANGED callVars /\ life' = life /\ closed' = closed /\ None \in Thing
    BY <1>1 DEF vars, Thing
  <2> QED BY <2>1, HandlesUntouched, KeptByOthers
<1>2. ASSUME NEW s \in Slot, Deliver(s) PROVE Kept
  BY <1>2, KeptByDeliver
<1> QED BY <1>1, <1>2, AsyncIOCallsSound, AsyncIOStepsSound, HttpCallsSound, HttpStepsSound,
           BodiesSound, WorldSound DEF Next, Kept, Sound

LEMMA InitSound == Init => CallInv
BY DEF Init, CallsInit, CallInv, SlotInv, HandleInv, Suits, NoCall, Reads, CallRecord, Thing, Phases

\* The libraries implement the contract of a waiting call: whatever waits on an
\* open thing is answered once, or ended by an interrupt or the shutdown; only
\* a call whose thing was closed under it, an await and a require can be
\* stranded, and a closing call never (PreYield ... PushResume of every library).
THEOREM ImplementsContract == Spec => KeepsCallContract
<1>1. Init => Contract!Init
  BY DEF Init, CallsInit, Contract!Init, Contract!Free, DoingOf
<1>2. CallInv /\ [Next]_vars => CallInv' /\ ContractStep
  BY StepSound DEF Sound
<1> QED BY <1>1, <1>2, InitSound, PTL DEF Spec, KeepsCallContract, Contract!Spec, ContractStep

-----------------------------------------------------------------------------
(* The numbers of children                                                 *)

\* Whoever awaits a child has closed its handle, is the only one, and reaps a
\* child that is still there; the handle gives its number away exactly once.
PidInv ==
  /\ child \in [Proc -> {"none", "alive", "dead", "reaped"}] /\ pid \subseteq Proc
  /\ \A p \in pid : child[p] \in {"alive", "dead"} /\ life[p] # "new"
  /\ \A s \in Slot : AwaitsChild(s) =>
       /\ call[s].on \in closed
       /\ phase[s] = "io" => call[s].on \in pid
       /\ phase[s] = "busy" => call[s].on \notin pid /\ child[call[s].on] \in {"alive", "dead"}
  /\ \A s, t \in Slot : s # t /\ AwaitsChild(s) /\ AwaitsChild(t) => call[s].on # call[t].on

LEMMA AwaitsProc ==
  ASSUME CallInv, NEW s \in Slot, AwaitsChild(s)
  PROVE  call[s].on \in Proc
BY DEF CallInv, Suits, AwaitsChild

\* A handle is made and collected, nothing else.
LEMMA LifeStep ==
  ASSUME [Next]_vars
  PROVE  life' = life \/ \E x \in Handle : Make(x) \/ life' = [life EXCEPT ![x] = "gone"]
<1>1. ASSUME AsyncIOCalls
      PROVE  life' = life \/ \E x \in Handle : Make(x) \/ life' = [life EXCEPT ![x] = "gone"]
  BY <1>1 DEF AsyncIOCalls, Open, CloseFile, Exec, ShutdownStdin, Kill, CollectStream, Write, Read,
     CloseProc, Stream, Handle
<1>2. ASSUME HttpCalls
      PROVE  life' = life \/ \E x \in Handle : Make(x) \/ life' = [life EXCEPT ![x] = "gone"]
  BY <1>2 DEF HttpCalls, Request, Connect, Send, CloseWs, CreateWs, CollectWs, Rest, Handle
<1>3. ASSUME BodiesNext PROVE life' = life \/ \E x \in Handle : Make(x)
  BY <1>3 DEF BodiesNext, Await, RunBody, SettleAwait, BodyReturns, LoseClosures, Require,
     SourceMissing, RunModule, ModuleEnds, SourceFound, NoHandles, Handle
<1>4. ASSUME AsyncIOSteps PROVE life' = life
  BY <1>4 DEF AsyncIOSteps, Arrive, ReadEnds, WriteEnds, Aborted, RunWait, WaitDone,
     ChildWrites, ChildReads, ChildEnds
<1>5. ASSUME HttpSteps PROVE life' = life
  BY <1>5 DEF HttpSteps, RequestEnds, ConnectStarts, ConnectEnds, ConnectSucceeds, ConnectFails,
     ConnectAborted, SendStarts, CloseStarts, WriteDone, GcFrameEnds, PumpReads, PumpStops,
     PumpMessage, PumpFails, Rest
<1>6. ASSUME \/ UNCHANGED vars \/ World \/ \E s \in Slot : Deliver(s) PROVE life' = life
  BY <1>6 DEF vars, World, Pass, CloseLibraries, AbandonReads, Deliver
<1> QED BY <1>1, <1>2, <1>3, <1>4, <1>5, <1>6 DEF Next

\* Handles are never new again.
LEMMA NeverNew ==
  ASSUME CallInv, [Next]_vars
  PROVE  \A x \in Handle : life[x] # "new" => life'[x] # "new"
<1>1. ASSUME NEW x \in Handle, Make(x) PROVE \A y \in Handle : life[y] # "new" => life'[y] # "new"
  BY <1>1 DEF Make, CallInv, HandleInv
<1>2. ASSUME NEW x \in Handle, life' = [life EXCEPT ![x] = "gone"]
      PROVE  \A y \in Handle : life[y] # "new" => life'[y] # "new"
  BY <1>2 DEF CallInv, HandleInv
<1> QED BY <1>1, <1>2, LifeStep

\* Nothing but these steps touches a child or its number.
ChildStep ==
  \/ \E p \in Proc : Exec(p) \/ ChildEnds(p) \/ CollectStream(p)
  \/ \E s \in Slot : RunWait(s) \/ WaitDone(s) \/ \E p \in Proc : CloseProc(s, p)

LEMMA OtherStep ==
  ASSUME [Next]_vars, ~ChildStep
  PROVE  /\ UNCHANGED <<pid, child>>
         /\ ~(\E s \in Slot : RunWait(s) \/ \E p \in Proc : CloseProc(s, p))
<1>1. ASSUME AsyncIOCalls PROVE UNCHANGED <<pid, child>>
  BY <1>1 DEF ChildStep, AsyncIOCalls, Open, CloseFile, ShutdownStdin, Kill, CollectStream, Write, Read,
     Stream, childVars, aioVars
<1>2. ASSUME AsyncIOSteps PROVE UNCHANGED <<pid, child>>
  BY <1>2 DEF ChildStep, AsyncIOSteps, Arrive, ReadEnds, WriteEnds, Aborted, ChildWrites, ChildReads, childVars
<1>3. ASSUME UNCHANGED aioVars PROVE UNCHANGED <<pid, child>>
  BY <1>3 DEF aioVars, childVars
<1>4. ASSUME World PROVE UNCHANGED <<pid, child>>
  BY <1>4, <1>3 DEF World, Pass, AbandonReads, childVars
<1> QED BY <1>1, <1>2, <1>3, <1>4 DEF Next, vars, ByHttp, ByBodies, ChildStep

LEMMA PidStep ==
  ASSUME CallInv, PidInv, [Next]_vars
  PROVE  PidInv'
<1>s. Sound
  BY StepSound
<1>l. \A p \in Proc : life[p] # "new" => life'[p] # "new"
  BY NeverNew DEF Handle
<1>h. \A p \in Proc \cap closed : life[p] # "new"
  BY DEF CallInv, HandleInv
<1>1. ASSUME ~ChildStep PROVE PidInv'
  <2>1. /\ UNCHANGED <<pid, child>> /\ closed \subseteq closed'
        /\ \A s \in Slot : AwaitsChild(s)' => AwaitsChild(s) /\ call'[s] = call[s] /\ phase'[s] = phase[s]
    <3>1. UNCHANGED <<pid, child>> /\ (Calm \/ \E s \in Slot : \E m \in Module : Require(s, m))
      BY <1>1, <1>s, OtherStep DEF Sound, Unrest
    <3>2. ASSUME NEW s \in Slot, NEW m \in Module, Require(s, m)
          PROVE  \A t \in Slot : AwaitsChild(t)' => AwaitsChild(t) /\ call'[t] = call[t] /\ phase'[t] = phase[t]
      BY <3>2, StartStep DEF Require, AwaitsChild, Start, CallInv, SlotInv
    <3> QED BY <1>s, <3>1, <3>2 DEF Sound, Calm
  <2> QED BY <2>1, <1>l DEF PidInv
<1>2. ASSUME NEW p \in Proc, Exec(p) PROVE PidInv'
  <2>1. /\ pid' = pid \cup {p} /\ child' = [child EXCEPT ![p] = "alive"]
        /\ UNCHANGED callVars /\ closed' = closed /\ life[p] = "new" /\ life' = [life EXCEPT ![p] = "live"]
    BY <1>2 DEF Exec, Make
  <2>2. \A s \in Slot : AwaitsChild(s) => call[s].on # p
    BY <2>1, <1>h, AwaitsProc DEF PidInv
  <2>3. \A s \in Slot : AwaitsChild(s)' = AwaitsChild(s) /\ call'[s] = call[s] /\ phase'[s] = phase[s]
    BY <2>1 DEF callVars, AwaitsChild
  <2>4. life'[p] # "new"
    BY <2>1 DEF CallInv, HandleInv, Handle
  <2>5. \A q \in pid' : child'[q] \in {"alive", "dead"} /\ life'[q] # "new"
    BY <2>1, <2>4, <1>l DEF PidInv
  <2> QED BY <2>1, <2>2, <2>3, <2>5, AwaitsProc DEF PidInv
<1>3. ASSUME NEW p \in Proc, ChildEnds(p) PROVE PidInv'
  <2>1. /\ child[p] = "alive" /\ child' = [child EXCEPT ![p] = "dead"] /\ pid' = pid
        /\ UNCHANGED callVars /\ closed' = closed
    BY <1>3 DEF ChildEnds, Alive
  <2>3. \A s \in Slot : AwaitsChild(s)' = AwaitsChild(s) /\ call'[s] = call[s] /\ phase'[s] = phase[s]
    BY <2>1 DEF callVars, AwaitsChild
  <2> QED BY <2>1, <2>3, <1>l, AwaitsProc DEF PidInv
<1>4. ASSUME NEW p \in Proc, CollectStream(p) PROVE PidInv'
  <2>1. UNCHANGED callVars /\ closed' = closed \cup {p}
    BY <1>4 DEF CollectStream
  <2>2. \A s \in Slot : AwaitsChild(s)' = AwaitsChild(s) /\ call'[s] = call[s] /\ phase'[s] = phase[s]
    BY <2>1 DEF callVars, AwaitsChild
  <2>3. \/ UNCHANGED <<pid, child>>
        \/ /\ p \notin closed /\ pid' = pid \ {p}
           /\ child' = [child EXCEPT ![p] = IF @ = "dead" THEN "reaped" ELSE @]
    BY <1>4 DEF CollectStream, CollectedOpen, Terminate, childVars
  <2> QED BY <2>1, <2>2, <2>3, <1>l, AwaitsProc DEF PidInv
<1>5. ASSUME NEW s \in Slot, RunWait(s) PROVE PidInv'
  <2>1. /\ AwaitsChild(s) /\ phase[s] = "io" /\ pid' = pid \ {call[s].on} /\ child' = child /\ closed' = closed
        /\ call' = call /\ phase'[s] = "busy" /\ \A t \in Slot \ {s} : phase'[t] = phase[t]
    BY <1>5, AdvanceStep DEF RunWait, IsCall, AwaitsChild, Phases
  <2>2. \A t \in Slot : AwaitsChild(t)' = AwaitsChild(t)
    BY <2>1 DEF AwaitsChild
  <2> QED BY <2>1, <2>2, <1>l DEF PidInv
<1>6. ASSUME NEW s \in Slot, WaitDone(s) PROVE PidInv'
  <2>1. /\ AwaitsChild(s) /\ phase[s] = "busy" /\ pid' = pid /\ closed' = closed
        /\ child' = [child EXCEPT ![call[s].on] = "reaped"]
        /\ phase'[s] \in {"free", "answered"}
        /\ \A t \in Slot \ {s} : call'[t] = call[t] /\ phase'[t] = phase[t]
    BY <1>6 DEF WaitDone, IsCall, AwaitsChild, PushResume, Finish, CallInv, SlotInv
  <2>2. ~AwaitsChild(s)' /\ \A t \in Slot \ {s} : AwaitsChild(t)' = AwaitsChild(t)
    BY <2>1 DEF AwaitsChild
  <2>3. call[s].on \notin pid
    BY <2>1 DEF PidInv
  <2> QED BY <2>1, <2>2, <2>3, <1>l, AwaitsProc DEF PidInv
<1>7. ASSUME NEW s \in Slot, NEW p \in Proc, CloseProc(s, p) PROVE PidInv'
  <2>1. /\ p \in pid /\ p \notin closed /\ closed' = closed \cup {p} /\ UNCHANGED <<pid, child>>
        /\ call'[s] = [op |-> "wait", on |-> p] /\ phase'[s] = "io"
        /\ \A t \in Slot \ {s} : call'[t] = call[t] /\ phase'[t] = phase[t]
    BY <1>7 DEF CloseProc, Usable, Start, childVars, CallInv, SlotInv
  <2>2. \A t \in Slot \ {s} : AwaitsChild(t)' = AwaitsChild(t)
    BY <2>1 DEF AwaitsChild
  <2> QED BY <2>1, <2>2, <1>l DEF PidInv
<1> QED BY <1>1, <1>2, <1>3, <1>4, <1>5, <1>6, <1>7 DEF ChildStep

\* kill, the collector's SIGTERM and waitpid are given the number of a child of
\* this program that nobody has reaped (process_kill, process_gc, process_close).
THEOREM PidsCorrect == Spec => []PidsAreOurs
<1>1. Init => PidInv
  BY DEF Init, CallsInit, AsyncIOInit, PidInv, AwaitsChild, NoCall
<1>2. CallInv /\ PidInv /\ [Next]_vars => CallInv' /\ PidInv'
  BY StepSound, PidStep DEF Sound
<1>3. CallInv /\ PidInv => PidsAreOurs
  BY DEF PidInv, PidsAreOurs, AwaitsChild, IsCall
<1> QED BY <1>1, <1>2, <1>3, InitSound, PTL DEF Spec

-----------------------------------------------------------------------------
(* The module cache                                                        *)

\* Two requires that load the same module overlap, and so does a require that
\* loads a module which has a lasting value by now.
LoadInv ==
  /\ cached \in [Module -> {"nothing", "false", "first", "other"}]
  /\ \A m \in Module : \A s, t \in Slot : s # t /\ Loads(s, m) /\ Loads(t, m) => m \in raced
  /\ \A m \in Module : \A s \in Slot : Loads(s, m) /\ cached[m] \in Lasting => m \in raced

\* A module is cached once per step, by a require that loads it and then ends.
CachingStep == \E s \in Slot : \E m \in Module : Loads(s, m) /\ Cache(m) /\ ~Loads(s, m)'

LEMMA Caching ==
  ASSUME CallInv, [Next]_vars
  PROVE  /\ raced' = raced \/ \E s \in Slot : \E m \in Module : Require(s, m)
         /\ cached' = cached \/ (CachingStep /\ raced' = raced)
<1>1. ASSUME NEW s \in Slot, IsCall(s, "require", phase[s]), phase[s] \in {"busy", "waiting"},
             PushResume(s), Cache(call[s].on)
      PROVE  CachingStep
  <2>1. call[s].on \in Module /\ Loads(s, call[s].on)
    BY <1>1 DEF CallInv, SlotInv, CallRecord, Suits, IsCall, Loads
  <2>2. phase'[s] \in {"free", "answered"}
    BY <1>1 DEF PushResume, Finish, CallInv, SlotInv
  <2> QED BY <1>1, <2>1, <2>2 DEF CachingStep, Loads
<1>2. ASSUME NEW s \in Slot, RunModule(s) \/ ModuleEnds(s)
      PROVE  raced' = raced /\ (cached' = cached \/ CachingStep)
  BY <1>1, <1>2 DEF RunModule, ModuleEnds, IsCall
<1>3. ASSUME NEW s \in Slot,
             \/ Await(s) \/ RunBody(s) \/ SettleAwait(s) \/ BodyReturns(s) \/ LoseClosures(s)
             \/ SourceMissing(s) \/ SourceFound(s)
      PROVE  raced' = raced /\ cached' = cached
  BY <1>3 DEF Await, RunBody, SettleAwait, BodyReturns, LoseClosures, SourceMissing, SourceFound, bodyVars
<1>4. ASSUME NEW s \in Slot, NEW m \in Module, Require(s, m) PROVE cached' = cached
  BY <1>4 DEF Require
<1> QED BY <1>2, <1>3, <1>4 DEF Next, vars, bodyVars, ByAsyncIO, ByHttp, ByRuntime, BodiesNext

LEMMA LoadStep ==
  ASSUME CallInv, LoadInv, [Next]_vars
  PROVE  LoadInv' /\ \A m \in Module : cached[m] \in Lasting /\ cached'[m] # cached[m] => m \in raced
<1>s. Sound
  BY StepSound
<1>1. ASSUME NEW s \in Slot, NEW m \in Module, Require(s, m) PROVE LoadInv' /\ cached' = cached
  <2>1. /\ cached' = cached /\ cached[m] \notin Lasting
        /\ raced' = (IF \E t \in Slot : Loads(t, m) THEN raced \cup {m} ELSE raced)
    BY <1>1 DEF Require, MustLoad
  <2>2. /\ phase[s] = "free" /\ call'[s] = [op |-> "require", on |-> m]
        /\ \A t \in Slot \ {s} : call'[t] = call[t] /\ phase'[t] = phase[t]
    BY <1>1 DEF Require, Start, CallInv, SlotInv
  <2>3. \A t \in Slot \ {s} : \A n \in Module : Loads(t, n)' = Loads(t, n)
    BY <2>2 DEF Loads
  <2>4. \A n \in Module : Loads(s, n)' => n = m
    BY <2>2 DEF Loads
  <2>5. \A n \in Module : \A t, u \in Slot : t # u /\ Loads(t, n)' /\ Loads(u, n)' => n \in raced'
    BY <2>1, <2>3, <2>4 DEF LoadInv
  <2>6. \A n \in Module : \A t \in Slot : Loads(t, n)' /\ cached'[n] \in Lasting => n \in raced'
    BY <2>1, <2>3, <2>4 DEF LoadInv
  <2> QED BY <2>1, <2>5, <2>6 DEF LoadInv
<1>2. ASSUME ~(\E s \in Slot : \E m \in Module : Require(s, m))
      PROVE  \A s \in Slot : \A m \in Module : Loads(s, m)' => Loads(s, m)
  <2>1. ASSUME NEW s \in Slot, RunWait(s)
        PROVE  \A t \in Slot : \A m \in Module : Loads(t, m)' => Loads(t, m)
    BY <2>1, AdvanceStep DEF RunWait, IsCall, Loads, Phases
  <2>2. ASSUME NEW s \in Slot, NEW p \in Proc, CloseProc(s, p)
        PROVE  \A t \in Slot : \A m \in Module : Loads(t, m)' => Loads(t, m)
    BY <2>2 DEF CloseProc, Start, Loads, CallInv, SlotInv
  <2> QED BY <1>s, <1>2, <2>1, <2>2 DEF Sound, Unrest, Calm
<1>3. ASSUME ~(\E s \in Slot : \E m \in Module : Require(s, m)), cached' = cached PROVE LoadInv'
  BY <1>2, <1>3, Caching DEF LoadInv
<1>4. ASSUME NEW s \in Slot, NEW m \in Module, raced' = raced,
             Loads(s, m), Cache(m), ~Loads(s, m)', ~(\E t \in Slot : \E n \in Module : Require(t, n))
      PROVE  LoadInv' /\ \A n \in Module : cached[n] \in Lasting /\ cached'[n] # cached[n] => n \in raced
  <2>1. /\ cached' \in [Module -> {"nothing", "false", "first", "other"}] /\ \A n \in Module \ {m} : cached'[n] = cached[n]
    BY <1>4 DEF Cache, LoadInv
  <2>2. \A n \in Module : \A t \in Slot : Loads(t, n)' /\ cached'[n] \in Lasting => n \in raced'
    BY <1>2, <1>4, <2>1 DEF LoadInv
  <2> QED BY <1>2, <1>4, <2>1, <2>2 DEF LoadInv
<1> QED BY <1>1, <1>3, <1>4, Caching DEF CachingStep

\* package.loaded changes the value of a module, unless it is false, only if two
\* requires of it overlapped (custom_require, module_run_k, CacheModuleValues): a false
\* value is loaded again, but what Lua takes for true stays, whatever the modules that
\* load it, the values they end with and the number of coroutines that require it.
THEOREM CacheIsStable == Spec => CacheStable
<1>1. Init => LoadInv
  BY DEF Init, CallsInit, BodiesInit, LoadInv, Loads, Lasting
<1>2. CallInv /\ LoadInv /\ [Next]_vars
        => CallInv' /\ LoadInv' /\ [\A m \in Module : cached[m] \in Lasting /\ cached'[m] # cached[m] => m \in raced]_vars
  BY StepSound, LoadStep DEF Sound
<1> QED BY <1>1, <1>2, InitSound, PTL DEF Spec, CacheStable

-----------------------------------------------------------------------------
(* The end of a WebSocket                                                  *)

\* Handlers hear of the end of a connection in the step that closes it.
ToldInv == \A w \in Conn : said[w] = "open" \/ (said[w] = "farewell" /\ w \in closed)

TellStep ==
  \/ \E s \in Slot : ConnectFails(s)
  \/ \E w \in Conn : \E k \in Client : PumpMessage(w, k) \/ PumpFails(w, k)

LEMMA SilentStep ==
  ASSUME [Next]_vars, ~TellStep
  PROVE  said' = said
<1>1. ASSUME HttpCalls PROVE said' = said
  BY <1>1 DEF HttpCalls, Request, Connect, Send, CloseWs, CreateWs, CollectWs, connVars
<1>2. ASSUME HttpSteps PROVE said' = said
  BY <1>2 DEF TellStep, HttpSteps, RequestEnds, ConnectStarts, ConnectEnds, ConnectSucceeds,
     ConnectAborted, SendStarts, CloseStarts, WriteDone, GcFrameEnds, PumpReads, PumpStops, connVars
<1> QED BY <1>1, <1>2 DEF Next, vars, connVars, ByAsyncIO, ByBodies, ByRuntime

LEMMA TellOpen ==
  ASSUME NEW w \in Conn, NEW b \in BOOLEAN, said \in [Conn -> {"open", "farewell", "more"}],
         said[w] = "open", Tell(w, b)
  PROVE  /\ \A v \in Conn \ {w} : said'[v] = said[v]
         /\ said'[w] = "open" \/ (b /\ said'[w] = "farewell")
BY DEF Tell

LEMMA ToldStep ==
  ASSUME CallInv, ToldInv, said \in [Conn -> {"open", "farewell", "more"}], [Next]_vars
  PROVE  ToldInv' /\ said' \in [Conn -> {"open", "farewell", "more"}]
<1>s. closed \subseteq closed'
  BY StepSound DEF Sound
<1>1. ASSUME NEW s \in Slot, ConnectFails(s)
      PROVE  ToldInv' /\ said' \in [Conn -> {"open", "farewell", "more"}]
  <2> DEFINE w == call[s].on
  <2>1. w \in Conn /\ w \notin closed /\ w \in closed'
    BY <1>1 DEF ConnectFails, IsCall, CallInv, Suits
  <2>2. Tell(w, TRUE) \/ said' = said
    BY <1>1 DEF ConnectFails
  <2>3. said' \in [Conn -> {"open", "farewell", "more"}]
    BY <2>2 DEF Tell
  <2>4. said[w] = "open"
    BY <2>1 DEF ToldInv
  <2>5. /\ \A v \in Conn \ {w} : said'[v] = said[v]
        /\ said'[w] = "open" \/ said'[w] = "farewell"
    BY <2>1, <2>2, <2>4, TellOpen
  <2> QED BY <1>s, <2>1, <2>3, <2>5 DEF ToldInv
<1>2. ASSUME NEW w \in Conn, NEW k \in Client, PumpMessage(w, k) \/ PumpFails(w, k)
      PROVE  ToldInv' /\ said' \in [Conn -> {"open", "farewell", "more"}]
  <2>1. w \notin closed
    BY <1>2 DEF PumpMessage, PumpFails, DropsResult
  <2>2. Tell(w, FALSE) \/ said' = said \/ (Tell(w, TRUE) /\ w \in closed')
    BY <1>2 DEF PumpMessage, PumpFails
  <2>3. said' \in [Conn -> {"open", "farewell", "more"}]
    BY <2>2 DEF Tell
  <2>4. said[w] = "open"
    BY <2>1 DEF ToldInv
  <2>5. /\ \A v \in Conn \ {w} : said'[v] = said[v]
        /\ said'[w] = "open" \/ (said'[w] = "farewell" /\ w \in closed')
    BY <2>2, <2>4, TellOpen
  <2> QED BY <1>s, <2>3, <2>5 DEF ToldInv
<1>3. ASSUME ~TellStep PROVE ToldInv' /\ said' \in [Conn -> {"open", "farewell", "more"}]
  BY <1>3, <1>s, SilentStep DEF ToldInv
<1> QED BY <1>1, <1>2, <1>3 DEF TellStep

\* A WebSocket's handlers hear of its end at most once, and of nothing after it
\* (WsConnectFlow, WsReadLoop).
THEOREM FarewellLast == Spec => []FarewellIsLast
<1> DEFINE Inv == CallInv /\ ToldInv /\ said \in [Conn -> {"open", "farewell", "more"}]
<1>1. Init => Inv
  BY InitSound DEF Init, HttpInit, ToldInv
<1>2. Inv /\ [Next]_vars => Inv'
  BY StepSound, ToldStep DEF Sound
<1>3. Inv => FarewellIsLast
  BY DEF ToldInv, FarewellIsLast
<1> QED BY <1>1, <1>2, <1>3, PTL DEF Spec

=============================================================================
