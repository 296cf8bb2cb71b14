-------------------------------- MODULE Http --------------------------------
(***************************************************************************)
(* HTTP requests and WebSockets (http_library.cc).                         *)
(*                                                                         *)
(* Each connect of a WebSocket makes a client, number k for the k-th, and  *)
(* on success a read pump of its own.  What keeps a client alive are the   *)
(* shared pointers to it: the connection's own, those in the frames of     *)
(* connect and send, and the one of the frame that the collector starts.   *)
(* A pump and ws:close use the connection's client without holding it.     *)
(***************************************************************************)
EXTENDS Calls

CONSTANT MaxClient   \* bound: connects per WebSocket

ASSUME MaxClientIsNat == MaxClient \in Nat

VARIABLES
  client,    \* connection -> its client, 0 if it has none
  dialled,   \* connection -> connects so far
  via,       \* slot -> the client its flow works with, 0 if none
  pump,      \* connection -> for each connect its pump: Idle, Due, or the client read
  gc_frame,  \* connection -> client held by the collector's close-frame flow
  said       \* connection -> what its handlers were told: "open", "farewell", "more"

connVars == <<client, dialled, via, pump, gc_frame, said>>

Idle == 0
Due == -1     \* scheduled, or about to read again
Client == 1..MaxClient

HttpInit ==
  /\ client = [w \in Conn |-> 0] /\ dialled = [w \in Conn |-> 0]
  /\ via = [s \in Slot |-> 0]
  /\ pump = [w \in Conn |-> [k \in Client |-> Idle]]
  /\ gc_frame = [w \in Conn |-> 0] /\ said = [w \in Conn |-> "open"]

IoFree == io_wait = None
Rest == UNCHANGED <<life, io_wait, worldVars>>

-----------------------------------------------------------------------------
(* http.request: whatever happens to the exchange, the flow answers.       *)

Request(s) == Start(s, "request", None, "io") /\ UNCHANGED <<connVars, closed>> /\ Rest

RequestEnds(s) ==
  IoFree /\ IsCall(s, "request", "io") /\ PushResume(s) /\ UNCHANGED <<connVars, closed>> /\ Rest

-----------------------------------------------------------------------------
(* ws:connect.                                                             *)

CreateWs(w) == Make(w) /\ UNCHANGED <<connVars, callVars, closed, io_wait, worldVars>>

Connect(s, w) ==
  /\ Usable(w) /\ dialled[w] < MaxClient /\ Start(s, "connect", w, "io")
  /\ dialled' = [dialled EXCEPT ![w] = @ + 1] /\ via' = [via EXCEPT ![s] = dialled[w] + 1]
  /\ UNCHANGED <<client, pump, gc_frame, said, closed>> /\ Rest

\* The flow starts: its client becomes the connection's.
ConnectStarts(s) ==
  /\ IoFree /\ IsCall(s, "connect", "io")
  /\ client' = [client EXCEPT ![call[s].on] = via[s]]
  /\ Advance(s, "busy")
  /\ UNCHANGED <<dialled, via, pump, gc_frame, said, closed>> /\ Rest

Leave(s) == via' = [via EXCEPT ![s] = 0]

\* Handlers run as tasks, which the gate refuses while the flag is up.
Tell(w, farewell) ==
  said' = [said EXCEPT ![w] = IF interrupt # "off" THEN @
                              ELSE IF @ # "open" THEN "more"
                              ELSE IF farewell THEN "farewell" ELSE "open"]

ConnectSucceeds(s) ==
  LET w == call[s].on IN
  /\ IoFree /\ IsCall(s, "connect", "busy") /\ w \notin closed
  /\ pump' = [pump EXCEPT ![w][via[s]] = Due]
  /\ Leave(s) /\ PushResume(s)
  /\ UNCHANGED <<client, dialled, gc_frame, said, closed>> /\ Rest

\* Mutant: a connect that fails tells its handler but not its caller.
AnswerFailureByHandler(s) == Silent(s)

AnswerFailure(s) == PushResume(s)

ConnectFails(s) ==
  LET w == call[s].on IN
  /\ IoFree /\ IsCall(s, "connect", "busy") /\ w \notin closed
  /\ closed' = closed \cup {w} /\ client' = [client EXCEPT ![w] = 0]
  /\ (Tell(w, TRUE) \/ UNCHANGED said)
  /\ Leave(s) /\ AnswerFailure(s)
  /\ UNCHANGED <<dialled, pump, gc_frame>> /\ Rest

\* Closed while the handshake was under way: the flow returns.
ConnectAborted(s) ==
  /\ IoFree /\ IsCall(s, "connect", "busy") /\ call[s].on \in closed
  /\ Leave(s) /\ Silent(s)
  /\ UNCHANGED <<client, dialled, pump, gc_frame, said, closed>> /\ Rest

-----------------------------------------------------------------------------
(* The read pump.                                                          *)

ReadsOn(w) == IF w \in closed THEN Idle ELSE client[w]

PumpReads(w, k) ==
  /\ IoFree /\ pump[w][k] = Due /\ pump' = [pump EXCEPT ![w][k] = ReadsOn(w)]
  /\ UNCHANGED <<client, dialled, via, gc_frame, said, callVars, closed>> /\ Rest

\* Mutant: after a read the pump does not look at closed again.
DropsResultNever(w) == FALSE

\* A result that comes after ws:close, a failed connect or the collector.
DropsResult(w) == w \in closed

PumpStops(w, k) ==
  /\ IoFree /\ pump[w][k] \in Client /\ DropsResult(w)
  /\ pump' = [pump EXCEPT ![w][k] = Idle]
  /\ UNCHANGED <<client, dialled, via, gc_frame, said, callVars, closed>> /\ Rest

PumpMessage(w, k) ==
  /\ IoFree /\ pump[w][k] \in Client /\ ~DropsResult(w)
  /\ (Tell(w, FALSE) \/ UNCHANGED said)
  /\ pump' = [pump EXCEPT ![w][k] = ReadsOn(w)]
  /\ UNCHANGED <<client, dialled, via, gc_frame, callVars, closed>> /\ Rest

\* An error, the end of the connection or its idle timeout: onerror, else
\* onclose.
PumpFails(w, k) ==
  /\ IoFree /\ pump[w][k] \in Client /\ ~DropsResult(w)
  /\ closed' = closed \cup {w} /\ client' = [client EXCEPT ![w] = 0]
  /\ (Tell(w, TRUE) \/ UNCHANGED said)
  /\ pump' = [pump EXCEPT ![w][k] = Idle]
  /\ UNCHANGED <<dialled, via, gc_frame, callVars>> /\ Rest

-----------------------------------------------------------------------------
(* ws:send and ws:close.                                                   *)

Send(s, w) ==
  Usable(w) /\ Start(s, "send", w, "io") /\ UNCHANGED <<connVars, closed>> /\ Rest

\* Not connected, or closed meanwhile: refused with a reason.
SendStarts(s) ==
  LET w == call[s].on IN
  /\ IoFree /\ IsCall(s, "send", "io")
  /\ IF client[w] = 0 \/ w \in closed THEN PushResume(s) /\ UNCHANGED via
     ELSE Advance(s, "busy") /\ via' = [via EXCEPT ![s] = client[w]]
  /\ UNCHANGED <<client, dialled, pump, gc_frame, said, closed>> /\ Rest

\* Mutant: ws:close drops the connection's client when it is done.
FlowEndsAndDrops(s) ==
  client' = IF call[s].op = "bye" THEN [client EXCEPT ![call[s].on] = 0] ELSE client

FlowEnds(s) == UNCHANGED client

\* The write of a message or of a close frame is over, or failed.
WriteDone(s) ==
  /\ IoFree /\ call[s].op \in {"send", "bye"} /\ phase[s] = "busy"
  /\ Leave(s) /\ PushResume(s) /\ FlowEnds(s)
  /\ UNCHANGED <<dialled, pump, gc_frame, said, closed>> /\ Rest

CloseWs(s, w) ==
  /\ Usable(w) /\ closed' = closed \cup {w} /\ Start(s, "bye", w, "io")
  /\ UNCHANGED connVars /\ Rest

CloseStarts(s) ==
  LET w == call[s].on IN
  /\ IoFree /\ IsCall(s, "bye", "io")
  /\ IF client[w] = 0 THEN PushResume(s) /\ UNCHANGED via
     ELSE Advance(s, "busy") /\ via' = [via EXCEPT ![s] = client[w]]
  /\ UNCHANGED <<client, dialled, pump, gc_frame, said, closed>> /\ Rest

-----------------------------------------------------------------------------
(* The collector: ws_gc takes the client out of the connection and, if the *)
(* connection was open, writes a close frame while it holds it.            *)

CollectWs(w) ==
  /\ Unused(w) /\ life' = [life EXCEPT ![w] = "gone"]
  /\ client' = [client EXCEPT ![w] = 0]
  /\ IF client[w] # 0 /\ w \notin closed
     THEN /\ closed' = closed \cup {w}
          /\ gc_frame' = [gc_frame EXCEPT ![w] = IF lib_down THEN 0 ELSE client[w]]
     ELSE UNCHANGED <<closed, gc_frame>>
  /\ UNCHANGED <<dialled, via, pump, said, callVars, io_wait, worldVars>>

GcFrameEnds(w) ==
  /\ IoFree /\ gc_frame[w] # 0 /\ gc_frame' = [gc_frame EXCEPT ![w] = 0]
  /\ UNCHANGED <<client, dialled, via, pump, said, callVars, closed>> /\ Rest

-----------------------------------------------------------------------------
HttpCalls ==
  \/ \E s \in Slot : Request(s) \/ \E w \in Conn : Connect(s, w) \/ Send(s, w) \/ CloseWs(s, w)
  \/ \E w \in Conn : CreateWs(w) \/ CollectWs(w)

ConnectEnds(s) == ConnectSucceeds(s) \/ ConnectFails(s) \/ ConnectAborted(s)

HttpSteps ==
  \/ \E s \in Slot : RequestEnds(s) \/ ConnectStarts(s) \/ ConnectEnds(s)
                     \/ SendStarts(s) \/ CloseStarts(s) \/ WriteDone(s)
  \/ \E w \in Conn : \/ GcFrameEnds(w)
                     \/ \E k \in Client : PumpReads(w, k) \/ PumpStops(w, k)
                                          \/ PumpMessage(w, k) \/ PumpFails(w, k)

\* The clients that somebody's shared pointer keeps alive, and those in use.
HeldClients(w) ==
  {client[w], gc_frame[w]}
    \cup {via[s] : s \in {t \in Slot : call[t].on = w /\ call[t].op \in {"connect", "send"}}}

UsedClients(w) ==
  ({pump[w][k] : k \in Client} \cap Client)
    \cup {via[s] : s \in {t \in Slot : call[t].on = w /\ IsCall(t, "bye", "busy")}}

HttpTypeOK ==
  /\ client \in [Conn -> 0..MaxClient] /\ dialled \in [Conn -> 0..MaxClient]
  /\ via \in [Slot -> 0..MaxClient] /\ gc_frame \in [Conn -> 0..MaxClient]
  /\ pump \in [Conn -> [Client -> Due..MaxClient]]
  /\ said \in [Conn -> {"open", "farewell", "more"}]
=============================================================================
