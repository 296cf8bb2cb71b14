------------------------------ MODULE Libraries ------------------------------
(***************************************************************************)
(* The libraries of the program together, as main.cc runs them: scripts    *)
(* call all of them from one executor thread, and one io thread serves     *)
(* files, pipes, requests and WebSockets.  While it waits for a child it   *)
(* serves nobody.                                                          *)
(***************************************************************************)
EXTENDS AsyncIO, Http, Bodies

vars == <<callVars, life, closed, io_wait, worldVars, aioVars, connVars, bodyVars>>

Init == CallsInit /\ AsyncIOInit /\ HttpInit /\ BodiesInit

ByAsyncIO == UNCHANGED <<connVars, bodyVars>>
ByHttp == UNCHANGED <<aioVars, bodyVars>>
ByBodies == UNCHANGED <<aioVars, connVars>>
ByRuntime == UNCHANGED <<connVars, task, cached, raced>>

\* A read that an interrupt or the shutdown abandons takes its bytes along.
AbandonReads ==
  /\ lossy' = lossy \cup {x \in Stream : \E s \in parked : Reading(s, x)}
  /\ delivered' = [x \in Stream |-> IF x \in lossy' THEN <<>> ELSE delivered[x]]
  /\ UNCHANGED <<sdVars, read_buffer, buf, taken, childVars, life, closed, io_wait>>

\* The pass is queued behind the bodies that were queued before the interrupt.
Pass ==
  /\ \A s \in parked : ~(IsCall(s, "await", "waiting") /\ task[s] = "queued")
  /\ InterruptPass /\ AbandonReads

World ==
  \/ (Interrupt \/ ClearInterrupt) /\ UNCHANGED <<life, closed, io_wait, aioVars>>
  \/ Pass
  \/ CloseLibraries /\ AbandonReads

Next ==
  \/ (AsyncIOCalls \/ AsyncIOSteps) /\ ByAsyncIO
  \/ (HttpCalls \/ HttpSteps) /\ ByHttp
  \/ BodiesNext /\ ByBodies
  \/ World /\ ByRuntime
  \/ \E s \in Slot : Deliver(s) /\ UNCHANGED aioVars /\ ByRuntime

Spec == Init /\ [][Next]_vars

\* The executor and the io thread keep working; waitpid returns when the child
\* has ended; a request and a handshake end by their timeouts; and a child that
\* has nothing left to do ends.  Nothing is assumed of scripts, of peers that
\* are read from or written to, or of idle children.
FairSpec ==
  /\ Spec
  /\ \A s \in Slot :
       /\ WF_vars(Deliver(s) /\ UNCHANGED aioVars /\ ByRuntime)
       /\ WF_vars((RequestEnds(s) \/ ConnectStarts(s) \/ ConnectEnds(s)) /\ ByHttp)
       /\ WF_vars((RunWait(s) \/ WaitDone(s)) /\ ByAsyncIO)
  /\ \A p \in Proc : WF_vars(ChildRuns(p) /\ ByAsyncIO)

-----------------------------------------------------------------------------
LibrariesTypeOK == CallsTypeOK /\ AsyncIOTypeOK /\ HttpTypeOK /\ BodiesTypeOK

\* What a read answered, what read_buffer keeps and what the one read under way
\* has collected are, in this order, exactly what the io thread took from the
\* stream: mixing lines, counts and "*a" loses nothing and repeats nothing, as
\* long as no read of the stream was abandoned
\* (do_read_line, file_read, process_read).
StreamIntact ==
  \A x \in Stream : x \notin closed \cup lossy =>
    LET under_way == {s \in Slot : Reading(s, x)}
        collected == IF under_way = {} THEN <<>> ELSE buf[CHOOSE s \in under_way : TRUE]
    IN delivered[x] \o read_buffer[x] \o collected = SubSeq(Content[x], 1, taken[x])

\* kill, the collector's SIGTERM and waitpid are given the number of a child
\* that nobody has reaped: never a number the system may have given to another
\* process, nor -1, which means any (process_kill, process_gc, process_close).
PidsAreOurs ==
  /\ \A p \in pid : child[p] \in {"alive", "dead"}
  /\ \A s \in Slot : IsCall(s, "wait", "io") => call[s].on \in pid
  /\ \A s \in Slot : IsCall(s, "wait", "busy") => child[call[s].on] \in {"alive", "dead"}

\* A client that a read or a close frame works with is kept alive by somebody
\* else: the comment on WsReadLoop says that its frame does so.
ClientOutlivesRead == \A w \in Conn : UsedClients(w) \subseteq HeldClients(w)

\* The same for connections that were connected once and not collected.
ClientOutlivesUse ==
  \A w \in Conn : life[w] = "live" /\ dialled[w] <= 1 => UsedClients(w) \subseteq HeldClients(w)

\* However connects, pumps, failures and ws:close interleave, a WebSocket's
\* handlers hear of its end at most once, and of nothing after it.
FarewellIsLast == \A w \in Conn : said[w] # "more"

\* A module's value that is not false is replaced in package.loaded only if two
\* requires of it overlapped: whoever requires it later gets the value the first
\* one got (custom_require, CacheModuleValues).
CacheStable ==
  [][\A m \in Module : cached[m] \in Lasting /\ cached'[m] # cached[m] => m \in raced]_vars

-----------------------------------------------------------------------------
\* The libraries implement the contract of a waiting call.
StateOf(s) ==
  IF phase[s] = "silent" THEN "stranded"
  ELSE IF call[s].op \in {"wait", "bye"} THEN "closing"
  ELSE "waiting"

DoingOf(s) ==
  IF s \in parked THEN [is |-> StateOf(s), about |-> call[s].on] ELSE [is |-> "free", about |-> None]

Contract == INSTANCE CallContract WITH
  Caller <- Slot, Thing <- Handle \cup {None, Body}, Trusted <- Module \cup {Body}, NoThing <- None,
  doing <- [s \in Slot |-> DoingOf(s)], shut <- closed

\* A call on an open handle returns once or is ended by an interrupt, unless
\* its handle is closed under it or it is an await or a require, which trust other
\* script code and the gate; a closing call always gets its answer
\* (every PreYield / PushResume pair of the libraries).
KeepsCallContract == Contract!Spec

\* p:close returns the io thread: the child ends once it is told to, unless a
\* child that was forked later holds its pipes open (process_close).
Inherited(p) == \E q \in Proc : Alive(q) /\ p \in in_held[q] \cup out_held[q]
WaitEnds == \A p \in Proc : io_wait = p ~> (io_wait # p \/ Inherited(p))

\* A request and a handshake come back to their coroutine, interrupted or not,
\* unless the io thread is stuck in a wait or a handshake is aborted by a close.
CallsReturn ==
  \A s \in Slot :
    (s \in parked /\ call[s].op \in {"request", "connect"}) ~>
      \/ s \notin parked
      \/ io_wait # None
      \/ IsCall(s, "connect", "silent")
=============================================================================
