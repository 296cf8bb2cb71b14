----------------------------- MODULE HandleProofs -----------------------------
(***************************************************************************)
(* More machine-checked facts about Libraries: types, the bytes of streams *)
(* and the clients of WebSockets.                                          *)
(***************************************************************************)
EXTENDS LibrariesProofs, SequenceTheorems, WellFoundedInduction

Bytes == Seq(STRING)

-----------------------------------------------------------------------------
(* Sequences of bytes                                                      *)

LEMMA LessIsWellFounded == IsWellFoundedOn({ss \in Nat \X Nat : ss[1] < ss[2]}, Nat)
BY NatLessThanWellFounded, Z3 DEF OpToRel

LEMMA SmallestMember ==
  ASSUME NEW T, T \subseteq Nat, T # {}
  PROVE  \E n \in T : \A m \in T : n <= m
<1> DEFINE R == {ss \in Nat \X Nat : ss[1] < ss[2]}
<1>1. PICK n \in T : \A m \in T : ~(<<m, n>> \in R)
  BY LessIsWellFounded, WFMin
<1>2. \A m \in Nat : m < n => <<m, n>> \in R
  BY <1>1
<1>3. \A m \in T : ~(m < n)
  <2> HIDE DEF R
  <2> QED BY <1>1, <1>2
<1>4. \A m \in T : n <= m
  BY <1>3
<1> QED BY <1>1, <1>4

\* A line that is there is cut off at its end.
LEMMA LineIsCut ==
  ASSUME NEW b \in Bytes, HasLine(b)
  PROVE  /\ TakeLine(b).line \in Bytes /\ TakeLine(b).rest \in Bytes
         /\ TakeLine(b).line \o TakeLine(b).rest = b
<1> DEFINE Ends == {i \in 1..Len(b) : b[i] = "lf"}
           First(i) == b[i] = "lf" /\ \A j \in 1..(i - 1) : b[j] # "lf"
           at == CHOOSE i \in 1..Len(b) : First(i)
<1>1. Len(b) \in Nat /\ \A i \in 1..Len(b) : b[i] \in STRING
  BY DEF Bytes
<1>2. Ends # {} /\ Ends \subseteq Nat
  BY <1>1 DEF HasLine, Contains
<1>3. PICK n \in Ends : \A m \in Ends : n <= m
  BY <1>2, SmallestMember
<1>4. n \in 1..Len(b) /\ First(n)
  <2>1. n \in Nat /\ \A j \in 1..(n - 1) : j \in 1..Len(b) /\ ~(n <= j)
    BY <1>1
  <2> QED BY <1>3, <2>1
<1>5. at \in 1..Len(b)
  BY <1>4
<1> HIDE DEF at
<1>6. TakeLine(b).line = SubSeq(b, 1, at) /\ TakeLine(b).rest = SubSeq(b, at + 1, Len(b))
  BY DEF TakeLine, at
<1>7. SubSeq(b, 1, at) \in Bytes /\ SubSeq(b, at + 1, Len(b)) \in Bytes
  BY <1>1, <1>5, SubSeqProperties DEF Bytes
<1>8. SubSeq(b, 1, at) \o SubSeq(b, at + 1, Len(b)) = SubSeq(b, 1, Len(b))
  BY <1>1, <1>5, ConcatAdjacentSubSeq DEF Bytes
<1>9. SubSeq(b, 1, Len(b)) = b
  BY SubSeqFull DEF Bytes
<1> QED BY <1>6, <1>7, <1>8, <1>9, Zenon

\* Cutting off the first n.
LEMMA FrontIsCut ==
  ASSUME NEW b \in Bytes, NEW n \in Nat, n <= Len(b)
  PROVE  /\ SubSeq(b, 1, n) \in Bytes /\ SubSeq(b, n + 1, Len(b)) \in Bytes
         /\ SubSeq(b, 1, n) \o SubSeq(b, n + 1, Len(b)) = b
<1>1. Len(b) \in Nat /\ \A i \in 1..Len(b) : b[i] \in STRING
  BY DEF Bytes
<1>2. SubSeq(b, 1, n) \in Bytes /\ SubSeq(b, n + 1, Len(b)) \in Bytes
  BY <1>1, SubSeqProperties DEF Bytes
<1>3. 1 \in 1..(Len(b) + 1) /\ n \in (1 - 1)..Len(b) /\ Len(b) \in n..Len(b)
  BY <1>1
<1>4. SubSeq(b, 1, n) \o SubSeq(b, n + 1, Len(b)) = SubSeq(b, 1, Len(b))
  BY <1>3, ConcatAdjacentSubSeq DEF Bytes
<1> QED BY <1>2, <1>4, SubSeqFull DEF Bytes

\* What the io thread has taken grows at its end.
LEMMA PrefixGrows ==
  ASSUME NEW c \in Bytes, NEW k \in Nat, NEW n \in Nat, k + n <= Len(c)
  PROVE  /\ SubSeq(c, k + 1, k + n) \in Bytes
         /\ SubSeq(c, 1, k) \o SubSeq(c, k + 1, k + n) = SubSeq(c, 1, k + n)
<1>1. Len(c) \in Nat /\ \A i \in 1..Len(c) : c[i] \in STRING
  BY DEF Bytes
<1>2. SubSeq(c, k + 1, k + n) \in Bytes
  BY <1>1, SubSeqProperties DEF Bytes
<1>3. SubSeq(c, 1, k) \o SubSeq(c, k + 1, k + n) = SubSeq(c, 1, k + n)
  BY <1>1, ConcatAdjacentSubSeq DEF Bytes
<1> QED BY <1>2, <1>3

\* Concatenation of bytes, with the empty sequence and associated freely.
LEMMA Concat ==
  /\ <<>> \in Bytes
  /\ \A a \in Bytes : a \o <<>> = a /\ <<>> \o a = a
  /\ \A a, b \in Bytes : a \o b \in Bytes
  /\ \A a, b, c \in Bytes : (a \o b) \o c = a \o (b \o c)
<1>1. <<>> \in Bytes
  BY EmptySeq DEF Bytes
<1>2. \A a \in Bytes : a \o <<>> = a /\ <<>> \o a = a
  BY ConcatEmptySeq DEF Bytes
<1>3. \A a, b \in Bytes : a \o b \in Bytes
  BY ConcatProperties DEF Bytes
<1>4. \A a, b, c \in Bytes : (a \o b) \o c = a \o (b \o c)
  BY ConcatAssociative DEF Bytes
<1> QED BY <1>1, <1>2, <1>3, <1>4

-----------------------------------------------------------------------------
(* Types                                                                   *)

WorldTypes ==
  /\ interrupt \in {"off", "raised", "passed"}
  /\ io_wait \in Proc \cup {None}
  /\ lib_down \in BOOLEAN

LEMMA WorldTypesStep ==
  ASSUME CallInv, WorldTypes, [Next]_vars
  PROVE  WorldTypes'
<1>1. ASSUME AsyncIOCalls PROVE UNCHANGED <<interrupt, io_wait, lib_down>>
  BY <1>1 DEF AsyncIOCalls, Open, CloseFile, Exec, ShutdownStdin, Kill, CollectStream, Write, Read,
     CloseProc, worldVars
<1>2. ASSUME AsyncIOSteps PROVE WorldTypes'
  <2>1. ASSUME NEW s \in Slot, RunWait(s) PROVE WorldTypes'
    BY <2>1 DEF RunWait, IsCall, CallInv, Suits, WorldTypes, worldVars
  <2>2. ASSUME NEW s \in Slot, WaitDone(s) PROVE WorldTypes'
    BY <2>2 DEF WaitDone, WorldTypes, worldVars
  <2>3. ASSUME NEW s \in Slot, ReadEnds(s) \/ WriteEnds(s) \/ Aborted(s) \/ \E n \in 1..3 : Arrive(s, n)
        PROVE  WorldTypes'
    BY <2>3 DEF ReadEnds, WriteEnds, Aborted, Arrive, WorldTypes, worldVars
  <2>4. ASSUME NEW p \in Proc, ChildWrites(p) \/ ChildReads(p) \/ ChildEnds(p) PROVE WorldTypes'
    BY <2>4 DEF ChildWrites, ChildReads, ChildEnds, WorldTypes, worldVars
  <2> QED BY <1>2, <2>1, <2>2, <2>3, <2>4 DEF AsyncIOSteps
<1>3. ASSUME HttpCalls PROVE UNCHANGED <<interrupt, io_wait, lib_down>>
  BY <1>3 DEF HttpCalls, Request, Connect, Send, CloseWs, CreateWs, CollectWs, Rest, worldVars
<1>4. ASSUME HttpSteps PROVE UNCHANGED <<interrupt, io_wait, lib_down>>
  BY <1>4 DEF HttpSteps, RequestEnds, ConnectStarts, ConnectEnds, ConnectSucceeds, ConnectFails,
     ConnectAborted, SendStarts, CloseStarts, WriteDone, GcFrameEnds, PumpReads, PumpStops,
     PumpMessage, PumpFails, Rest, worldVars
<1>5. ASSUME BodiesNext PROVE UNCHANGED <<interrupt, io_wait, lib_down>>
  BY <1>5 DEF BodiesNext, Await, RunBody, SettleAwait, BodyReturns, LoseClosures, Require,
     SourceMissing, RunModule, ModuleEnds, SourceFound, NoHandles, worldVars
<1>6. ASSUME World PROVE WorldTypes'
  BY <1>6 DEF World, Interrupt, ClearInterrupt, Pass, InterruptPass, CloseLibraries, AbandonReads,
     WorldTypes
<1>7. ASSUME \/ UNCHANGED vars \/ \E s \in Slot : Deliver(s)
      PROVE UNCHANGED <<interrupt, io_wait, lib_down>>
  BY <1>7 DEF vars, Deliver, worldVars
<1> QED BY <1>1, <1>2, <1>3, <1>4, <1>5, <1>6, <1>7 DEF Next, WorldTypes

\* The io thread has read no more than a child has printed, and a child prints
\* no more than it has.
StreamTypes ==
  /\ in_sd \subseteq Proc /\ out_sd \subseteq Stream
  /\ signalled \subseteq Proc /\ lossy \subseteq Stream
  /\ taken \in [Stream -> Nat] /\ made \in [Proc -> Nat] /\ fed \in [Proc -> 0..PipeCap]
  /\ \A x \in Stream : taken[x] <= Len(Content[x])
  /\ \A p \in Proc : taken[p] <= made[p] /\ made[p] <= Len(Content[p])

LEMMA ContentLength == \A x \in Stream : Len(Content[x]) \in Nat
BY AsyncIOAssumption

LEMMA Availability ==
  ASSUME StreamTypes, NEW x \in Stream, NEW n \in Nat, n <= Available(x)
  PROVE  taken[x] + n <= Len(Content[x]) /\ (x \in Proc => taken[x] + n <= made[x])
<1>1. taken[x] \in Nat /\ Len(Content[x]) \in Nat
  BY ContentLength DEF StreamTypes
<1>2. CASE x \in File
  BY <1>1, <1>2, CallsAssumption DEF Available
<1>3. CASE x \in Proc
  <2>1. x \notin File /\ made[x] \in Nat /\ made[x] <= Len(Content[x])
    BY <1>3, CallsAssumption DEF StreamTypes
  <2> QED BY <1>1, <2>1 DEF Available
<1> QED BY <1>2, <1>3 DEF Stream

LEMMA StreamTypesStep ==
  ASSUME CallInv, StreamTypes, [Next]_vars
  PROVE  StreamTypes'
<1>1. ASSUME AsyncIOCalls PROVE StreamTypes'
  <2>1. UNCHANGED <<taken, made, fed, lossy>>
    BY <1>1 DEF AsyncIOCalls, Open, CloseFile, Exec, ShutdownStdin, Kill, CollectStream, Write, Read,
       CloseProc, ClosePipes, Terminate, Stream, streamVars, childVars, aioVars
  <2>2. in_sd' \subseteq Proc /\ out_sd' \subseteq Stream
    BY <1>1 DEF AsyncIOCalls, Open, CloseFile, Exec, ShutdownStdin, Kill, CollectStream, Write, Read,
       CloseProc, ClosePipes, Stream, sdVars, aioVars, StreamTypes
  <2>3. signalled' \subseteq Proc
    BY <1>1 DEF AsyncIOCalls, Open, CloseFile, Exec, ShutdownStdin, Kill, CollectStream, Write, Read,
       CloseProc, Terminate, Stream, childVars, aioVars, StreamTypes
  <2> QED BY <2>1, <2>2, <2>3 DEF StreamTypes
<1>2. ASSUME NEW s \in Slot, NEW n \in 1..3, Arrive(s, n) PROVE StreamTypes'
  <2> DEFINE x == call[s].on
  <2>1. x \in Stream
    BY <1>2 DEF Arrive, CallInv, Suits
  <2>2. /\ taken' = [taken EXCEPT ![x] = @ + n] /\ n <= Available(x)
        /\ UNCHANGED <<in_sd, out_sd, signalled, lossy, made, fed>>
    BY <1>2 DEF Arrive, sdVars, childVars
  <2>3. taken[x] + n <= Len(Content[x]) /\ (x \in Proc => taken[x] + n <= made[x])
    BY <2>1, <2>2, Availability
  <2> QED BY <2>1, <2>2, <2>3 DEF StreamTypes
<1>3. ASSUME NEW s \in Slot, ReadEnds(s) \/ Aborted(s) \/ RunWait(s) \/ WaitDone(s) PROVE StreamTypes'
  BY <1>3 DEF ReadEnds, Aborted, RunWait, WaitDone, sdVars, streamVars, childVars, StreamTypes
<1>4. ASSUME NEW s \in Slot, WriteEnds(s) PROVE StreamTypes'
  <2>1. /\ UNCHANGED <<in_sd, out_sd, signalled, lossy, made, taken>>
        /\ \/ fed' = fed
           \/ \E x \in Proc : fed[x] < PipeCap /\ fed' = [fed EXCEPT ![x] = @ + 1]
    BY <1>4 DEF WriteEnds, sdVars, streamVars
  <2>2. fed' \in [Proc -> 0..PipeCap]
    <3>1. \A n \in 0..PipeCap : 0 \in 0..PipeCap /\ (n < PipeCap => n + 1 \in 0..PipeCap)
                                /\ (n > 0 => n - 1 \in 0..PipeCap)
      BY AsyncIOAssumption
    <3>2. fed \in [Proc -> 0..PipeCap]
      BY DEF StreamTypes
    <3> QED BY <2>1, <3>1, <3>2
  <2> QED BY <2>1, <2>2 DEF StreamTypes
<1>5. ASSUME NEW p \in Proc, ChildWrites(p) PROVE StreamTypes'
  <2>1. /\ made[p] < Len(Content[p]) /\ made' = [made EXCEPT ![p] = @ + 1] /\ p \in Stream
        /\ UNCHANGED <<in_sd, out_sd, signalled, lossy, fed, taken>>
    BY <1>5 DEF ChildWrites, sdVars, streamVars, Stream
  <2>2. taken[p] \in Nat /\ made[p] \in Nat /\ Len(Content[p]) \in Nat
    BY <2>1, ContentLength DEF StreamTypes
  <2> QED BY <2>1, <2>2 DEF StreamTypes
<1>6. ASSUME NEW p \in Proc, ChildReads(p) \/ ChildEnds(p) PROVE StreamTypes'
  <2>1. /\ UNCHANGED <<in_sd, out_sd, lossy, made, taken>> /\ signalled' \subseteq signalled
        /\ \/ fed' = [fed EXCEPT ![p] = 0]
           \/ fed[p] > 0 /\ fed' = [fed EXCEPT ![p] = @ - 1]
    BY <1>6 DEF ChildReads, ChildEnds, sdVars, streamVars
  <2>2. fed' \in [Proc -> 0..PipeCap]
    <3>1. \A n \in 0..PipeCap : 0 \in 0..PipeCap /\ (n < PipeCap => n + 1 \in 0..PipeCap)
                                /\ (n > 0 => n - 1 \in 0..PipeCap)
      BY AsyncIOAssumption
    <3>2. fed \in [Proc -> 0..PipeCap]
      BY DEF StreamTypes
    <3> QED BY <2>1, <3>1, <3>2
  <2> QED BY <2>1, <2>2 DEF StreamTypes
<1>7. ASSUME UNCHANGED aioVars PROVE StreamTypes'
  BY <1>7 DEF aioVars, sdVars, streamVars, childVars, StreamTypes
<1>8. ASSUME World PROVE StreamTypes'
  <2>1. CASE AbandonReads
    BY <2>1 DEF AbandonReads, sdVars, childVars, StreamTypes
  <2> QED BY <1>7, <1>8, <2>1 DEF World, Pass
<1> QED BY <1>1, <1>2, <1>3, <1>4, <1>5, <1>6, <1>7, <1>8 DEF Next, AsyncIOSteps, ByHttp, ByBodies, vars

LEMMA PumpSet ==
  ASSUME HttpTypeOK, NEW w \in Conn, NEW k, NEW v \in Due..MaxClient
  PROVE  [pump EXCEPT ![w][k] = v] \in [Conn -> [Client -> Due..MaxClient]]
<1>1. pump \in [Conn -> [Client -> Due..MaxClient]]
  BY DEF HttpTypeOK
<1> HIDE DEF Client
<1>2. [pump[w] EXCEPT ![k] = v] \in [Client -> Due..MaxClient]
  BY <1>1
<1> QED BY <1>1, <1>2

LEMMA HttpTypesStep ==
  ASSUME CallInv, HttpTypeOK, [Next]_vars
  PROVE  HttpTypeOK'
<1>0. MaxClient \in Nat /\ 0 \in 0..MaxClient /\ 0..MaxClient \subseteq Due..MaxClient
      /\ Due \in Due..MaxClient
  BY MaxClientIsNat DEF Due
<1>1. ASSUME HttpCalls PROVE HttpTypeOK'
  <2>1. ASSUME NEW s \in Slot, NEW w \in Conn, Connect(s, w) PROVE HttpTypeOK'
    <3>1. dialled[w] \in 0..MaxClient /\ dialled[w] < MaxClient
      BY <2>1 DEF Connect, HttpTypeOK
    <3>2. dialled[w] + 1 \in 0..MaxClient
      BY <3>1, <1>0
    <3> QED BY <2>1, <3>2 DEF Connect, HttpTypeOK
  <2>2. ASSUME NEW w \in Conn, CollectWs(w) PROVE HttpTypeOK'
    BY <1>0, <2>2 DEF CollectWs, HttpTypeOK
  <2>3. ASSUME UNCHANGED connVars PROVE HttpTypeOK'
    BY <2>3 DEF connVars, HttpTypeOK
  <2> QED BY <1>1, <2>1, <2>2, <2>3 DEF HttpCalls, Request, Send, CloseWs, CreateWs
<1>2. ASSUME NEW w \in Conn, NEW b \in BOOLEAN, Tell(w, b) \/ said' = said
      PROVE  said' \in [Conn -> {"open", "farewell", "more"}]
  BY <1>2 DEF Tell, HttpTypeOK
<1>3. ASSUME NEW s \in Slot, \/ RequestEnds(s) \/ ConnectStarts(s) \/ ConnectSucceeds(s)
                             \/ ConnectAborted(s) \/ SendStarts(s) \/ CloseStarts(s) \/ WriteDone(s)
      PROVE  HttpTypeOK'
  <2>1. via[s] \in 0..MaxClient /\ (call[s].op \in {"connect", "send", "bye"} => call[s].on \in Conn)
    BY DEF HttpTypeOK, CallInv, Suits
  <2>2. client' \in [Conn -> 0..MaxClient] /\ dialled' = dialled /\ gc_frame' = gc_frame /\ said' = said
    BY <1>3, <2>1 DEF RequestEnds, ConnectStarts, ConnectSucceeds, ConnectAborted, SendStarts,
       CloseStarts, WriteDone, FlowEnds, connVars, HttpTypeOK
  <2>3. via' \in [Slot -> 0..MaxClient]
    BY <1>0, <1>3, <2>1 DEF RequestEnds, ConnectStarts, ConnectSucceeds, ConnectAborted, SendStarts,
       CloseStarts, WriteDone, Leave, connVars, HttpTypeOK, IsCall
  <2>4. pump' \in [Conn -> [Client -> Due..MaxClient]]
    <3>1. pump' = pump \/ (call[s].on \in Conn /\ pump' = [pump EXCEPT ![call[s].on][via[s]] = Due])
      BY <1>3, <2>1 DEF RequestEnds, ConnectStarts, ConnectSucceeds, ConnectAborted, SendStarts,
         CloseStarts, WriteDone, connVars, IsCall
    <3>2. pump \in [Conn -> [Client -> Due..MaxClient]]
      BY DEF HttpTypeOK
    <3> QED BY <1>0, <3>1, <3>2, PumpSet
  <2> QED BY <2>2, <2>3, <2>4 DEF HttpTypeOK
<1>4. ASSUME NEW s \in Slot, ConnectFails(s) PROVE HttpTypeOK'
  <2>1. call[s].on \in Conn
    BY <1>4 DEF ConnectFails, IsCall, CallInv, Suits
  <2>2. said' \in [Conn -> {"open", "farewell", "more"}]
    BY <1>2, <1>4, <2>1 DEF ConnectFails
  <2> QED BY <1>0, <1>4, <2>2 DEF ConnectFails, Leave, HttpTypeOK
<1>5. ASSUME NEW w \in Conn, GcFrameEnds(w) PROVE HttpTypeOK'
  BY <1>0, <1>5 DEF GcFrameEnds, HttpTypeOK
<1>6. ASSUME NEW w \in Conn, NEW k \in Client,
             PumpReads(w, k) \/ PumpStops(w, k) \/ PumpMessage(w, k) \/ PumpFails(w, k)
      PROVE  HttpTypeOK'
  <2>1. ReadsOn(w) \in Due..MaxClient /\ Idle \in Due..MaxClient
    BY <1>0 DEF ReadsOn, Idle, HttpTypeOK
  <2>2. pump' \in [Conn -> [Client -> Due..MaxClient]]
    <3>1. \E v \in {ReadsOn(w), Idle} : pump' = [pump EXCEPT ![w][k] = v]
      BY <1>6 DEF PumpReads, PumpStops, PumpMessage, PumpFails
    <3> QED BY <2>1, <3>1, PumpSet
  <2>3. said' \in [Conn -> {"open", "farewell", "more"}]
    BY <1>2, <1>6 DEF PumpReads, PumpStops, PumpMessage, PumpFails
  <2>4. client' \in [Conn -> 0..MaxClient] /\ UNCHANGED <<dialled, via, gc_frame>>
    BY <1>0, <1>6 DEF PumpReads, PumpStops, PumpMessage, PumpFails, HttpTypeOK
  <2> QED BY <2>2, <2>3, <2>4 DEF HttpTypeOK
<1>7. ASSUME UNCHANGED connVars PROVE HttpTypeOK'
  BY <1>7 DEF connVars, HttpTypeOK
<1> QED BY <1>1, <1>3, <1>4, <1>5, <1>6, <1>7
        DEF Next, HttpSteps, ConnectEnds, ByAsyncIO, ByBodies, ByRuntime, vars

LEMMA BodiesTypesStep ==
  ASSUME CallInv, BodiesTypeOK, [Next]_vars
  PROVE  BodiesTypeOK'
<1>1. ASSUME NEW s \in Slot, Await(s) \/ RunBody(s) \/ SettleAwait(s)
                     \/ BodyReturns(s) \/ LoseClosures(s)
      PROVE  BodiesTypeOK'
  BY <1>1 DEF Await, RunBody, SettleAwait, BodyReturns, LoseClosures, NewTask, BodiesTypeOK
<1>2. ASSUME NEW s \in Slot, NEW m \in Module, Require(s, m) PROVE BodiesTypeOK'
  BY <1>2 DEF Require, BodiesTypeOK
<1>3. ASSUME NEW s \in Slot, RunModule(s) \/ ModuleEnds(s) PROVE BodiesTypeOK'
  <2>1. task' = task /\ raced' = raced /\ (cached' = cached \/ Cache(call[s].on))
    BY <1>3 DEF RunModule, ModuleEnds
  <2>2. cached' \in [Module -> {"nothing", "false", "first", "other"}]
    BY <2>1 DEF Cache, BodiesTypeOK
  <2> QED BY <2>1, <2>2 DEF BodiesTypeOK
<1>4. ASSUME NEW s \in Slot, SourceFound(s) \/ SourceMissing(s) PROVE BodiesTypeOK'
  BY <1>4 DEF SourceFound, SourceMissing, bodyVars, BodiesTypeOK
<1>5. ASSUME UNCHANGED <<task, cached, raced>> PROVE BodiesTypeOK'
  BY <1>5 DEF BodiesTypeOK
<1> QED BY <1>1, <1>2, <1>3, <1>4, <1>5
        DEF Next, BodiesNext, ByAsyncIO, ByHttp, ByRuntime, vars, bodyVars

Types == CallInv /\ PidInv /\ WorldTypes /\ StreamTypes /\ HttpTypeOK /\ BodiesTypeOK

LEMMA InitTypes == Init => Types
<1>1. Init => CallInv
  BY InitSound
<1>2. Init => PidInv
  BY DEF Init, CallsInit, AsyncIOInit, PidInv, AwaitsChild, NoCall
<1>3. Init => WorldTypes
  BY DEF Init, CallsInit, WorldTypes
<1>4. Init => StreamTypes
  BY ContentLength, AsyncIOAssumption DEF Init, AsyncIOInit, StreamTypes, Stream
<1>5. Init => HttpTypeOK
  BY MaxClientIsNat DEF Init, HttpInit, HttpTypeOK, Idle, Due
<1>6. Init => BodiesTypeOK
  BY DEF Init, BodiesInit, BodiesTypeOK
<1> QED BY <1>1, <1>2, <1>3, <1>4, <1>5, <1>6 DEF Types

LEMMA TypesStep == Types /\ [Next]_vars => Types'
BY StepSound, PidStep, WorldTypesStep, StreamTypesStep, HttpTypesStep, BodiesTypesStep DEF Types, Sound

\* Every variable of the libraries keeps its type; among that, the io thread
\* never reads more of a pipe than the child has printed, and a pipe never
\* holds more than it can (Libraries, all operations of async_io_library.cc and
\* http_library.cc).
THEOREM LibrariesTypeCorrect == Spec => []LibrariesTypeOK
<1>1. Types => CallsTypeOK
  BY DEF Types, CallInv, SlotInv, HandleInv, WorldTypes, CallsTypeOK, CallRecord, Thing, Handle, Stream
<1>2. Types => AsyncIOTypeOK
  <2> SUFFICES ASSUME Types PROVE AsyncIOTypeOK
    OBVIOUS
  <2>1. \A x \in Stream : taken[x] \in 0..Len(Content[x])
    BY ContentLength DEF Types, StreamTypes
  <2>2. \A p \in Proc : made[p] \in taken[p]..Len(Content[p]) /\ fed[p] \in 0..PipeCap
    BY ContentLength DEF Types, StreamTypes, Stream
  <2> QED BY <2>1, <2>2 DEF Types, StreamTypes, PidInv, AsyncIOTypeOK
<1>3. Types => LibrariesTypeOK
  BY <1>1, <1>2 DEF Types, LibrariesTypeOK
<1> QED BY <1>3, InitTypes, TypesStep, PTL DEF Spec

-----------------------------------------------------------------------------
(* Steps that leave the calls of some operations alone                     *)

UnderWay(s, ops) == call[s].op \in ops /\ phase[s] \in {"io", "busy"}
SameCall(s) == call'[s] = call[s] /\ phase'[s] = phase[s]

\* No call of these operations begins, goes on or ends.
Steady(ops) == \A s \in Slot : UnderWay(s, ops) \/ UnderWay(s, ops)' => SameCall(s)

LEMMA SteadyOthers ==
  ASSUME UNCHANGED callVars, NEW ops
  PROVE  Steady(ops)
BY DEF Steady, SameCall, callVars

LEMMA SteadyStart ==
  ASSUME CallInv, NEW s \in Slot, NEW op \in Waits, NEW x, NEW p, Start(s, op, x, p),
         NEW ops, op \notin ops
  PROVE  Steady(ops)
<1>1. /\ call'[s] = [op |-> op, on |-> x] /\ phase[s] = "free"
      /\ \A t \in Slot \ {s} : call'[t] = call[t] /\ phase'[t] = phase[t]
  BY DEF Start, CallInv, SlotInv
<1> QED BY <1>1 DEF Steady, UnderWay, SameCall

LEMMA SteadyAdvance ==
  ASSUME CallInv, NEW s \in Slot, NEW p, Advance(s, p), NEW ops, call[s].op \notin ops
  PROVE  Steady(ops)
<1>1. call' = call /\ \A t \in Slot \ {s} : phase'[t] = phase[t]
  BY DEF Advance, CallInv, SlotInv
<1> QED BY <1>1 DEF Steady, UnderWay, SameCall

LEMMA SteadyFinish ==
  ASSUME CallInv, NEW s \in Slot, PushResume(s) \/ Silent(s), NEW ops, call[s].op \notin ops
  PROVE  Steady(ops)
<1>1. PICK p \in {"answered", "silent"} : Finish(s, p)
  BY DEF PushResume, Silent
<1>2. /\ phase'[s] \in {"free", "answered", "silent"}
      /\ \A t \in Slot \ {s} : call'[t] = call[t] /\ phase'[t] = phase[t]
  BY <1>1, FinishStep
<1> QED BY <1>2 DEF Steady, UnderWay, SameCall

LEMMA SteadyDeliver ==
  ASSUME CallInv, NEW s \in Slot, Deliver(s), NEW ops
  PROVE  Steady(ops)
<1>1. /\ phase[s] = "answered" /\ phase'[s] = "free"
      /\ \A t \in Slot \ {s} : call'[t] = call[t] /\ phase'[t] = phase[t]
  BY DeliverStep DEF Deliver
<1> QED BY <1>1 DEF Steady, UnderWay, SameCall

LEMMA SteadyTakeAll ==
  ASSUME CallInv, TakeAll, NEW ops
  PROVE  Steady(ops)
<1>1. \A t \in Slot : SameCall(t) \/ (~(phase[t] \in {"io", "busy"}) /\ phase'[t] = "free")
  BY DEF TakeAll, SameCall, CallInv, SlotInv
<1> QED BY <1>1 DEF Steady, UnderWay

LEMMA BodiesSteady ==
  ASSUME CallInv, BodiesNext, NEW ops, ops \cap {"await", "require"} = {}
  PROVE  Steady(ops)
<1>1. PICK s \in Slot :
        \/ Await(s) \/ RunBody(s) \/ SettleAwait(s) \/ BodyReturns(s) \/ LoseClosures(s)
        \/ \E m \in Module : Require(s, m)
        \/ SourceFound(s) \/ SourceMissing(s) \/ RunModule(s) \/ ModuleEnds(s)
  BY DEF BodiesNext
<1>2. CASE Await(s)
  BY <1>2, SteadyStart DEF Await, Waits
<1>3. CASE \E m \in Module : Require(s, m)
  BY <1>3, SteadyStart DEF Require, Waits
<1>4. CASE \/ RunBody(s) \/ SettleAwait(s) \/ BodyReturns(s) \/ LoseClosures(s)
           \/ SourceFound(s) \/ SourceMissing(s) \/ RunModule(s) \/ ModuleEnds(s)
  <2>1. /\ call[s].op \in {"await", "require"}
        /\ \/ PushResume(s) \/ Silent(s) \/ UNCHANGED callVars
           \/ \E p \in {"busy", "waiting"} : Advance(s, p)
    BY <1>4 DEF RunBody, SettleAwait, BodyReturns, LoseClosures, SourceMissing,
       RunModule, ModuleEnds, SourceFound, IsCall
  <2> QED BY <2>1, SteadyFinish, SteadyOthers, SteadyAdvance
<1> QED BY <1>1, <1>2, <1>3, <1>4

LEMMA WorldSteady ==
  ASSUME CallInv, World \/ UNCHANGED vars, NEW ops
  PROVE  Steady(ops)
<1>1. UNCHANGED callVars \/ TakeAll
  BY DEF World, Interrupt, ClearInterrupt, Pass, InterruptPass, CloseLibraries, vars
<1> QED BY <1>1, SteadyOthers, SteadyTakeAll

AsyncOps == Reads \cup {"write", "wait"}
HttpOps == {"request", "connect", "send", "bye"}

LEMMA AsyncIOSteady ==
  ASSUME CallInv, AsyncIOCalls \/ AsyncIOSteps, NEW ops, ops \cap AsyncOps = {}
  PROVE  Steady(ops)
<1>1. \/ UNCHANGED callVars
      \/ \E s \in Slot : \E op \in AsyncOps : \E x, p : Start(s, op, x, p)
      \/ \E s \in Slot : call[s].op \in AsyncOps /\ (PushResume(s) \/ Silent(s) \/ \E p : Advance(s, p))
  <2>1. ASSUME AsyncIOCalls
        PROVE  UNCHANGED callVars \/ \E s \in Slot : \E op \in AsyncOps : \E x, p : Start(s, op, x, p)
    <3>1. ASSUME NEW s \in Slot, NEW x \in Stream, NEW op \in Reads, Read(s, x, op)
          PROVE  \E p : Start(s, op, x, p)
      BY <3>1 DEF Read
    <3>2. ASSUME NEW s \in Slot, NEW x \in Stream, Write(s, x) PROVE Start(s, "write", x, "io")
      BY <3>2 DEF Write
    <3>3. ASSUME NEW s \in Slot, NEW p \in Proc, CloseProc(s, p) PROVE Start(s, "wait", p, "io")
      BY <3>3 DEF CloseProc
    <3>4. ASSUME \/ \E f \in File : Open(f) \/ CloseFile(f)
                 \/ \E p \in Proc : Exec(p) \/ ShutdownStdin(p) \/ Kill(p)
                 \/ \E x \in Stream : CollectStream(x)
          PROVE  UNCHANGED callVars
      BY <3>4 DEF Open, CloseFile, Exec, ShutdownStdin, Kill, CollectStream
    <3> QED BY <2>1, <3>1, <3>2, <3>3, <3>4 DEF AsyncIOCalls, AsyncOps
  <2>2. ASSUME NEW s \in Slot, \/ ReadEnds(s) \/ WriteEnds(s) \/ Aborted(s) \/ RunWait(s) \/ WaitDone(s)
                               \/ \E n \in 1..3 : Arrive(s, n)
        PROVE  \/ UNCHANGED callVars
               \/ call[s].op \in AsyncOps /\ (PushResume(s) \/ Silent(s) \/ Advance(s, "busy"))
    BY <2>2 DEF ReadEnds, WriteEnds, Aborted, RunWait, WaitDone, Arrive, LineArrives, BufferArrives,
       Answer, IsCall, AsyncOps
  <2>3. ASSUME NEW p \in Proc, ChildWrites(p) \/ ChildReads(p) \/ ChildEnds(p) PROVE UNCHANGED callVars
    BY <2>3 DEF ChildWrites, ChildReads, ChildEnds
  <2> QED BY <2>1, <2>2, <2>3 DEF AsyncIOSteps
<1>2. AsyncOps \subseteq Waits
  BY DEF AsyncOps, Reads, Waits
<1> QED BY <1>1, <1>2, SteadyOthers, SteadyStart, SteadyFinish, SteadyAdvance

LEMMA HttpSteady ==
  ASSUME CallInv, HttpCalls \/ HttpSteps, NEW ops, ops \cap HttpOps = {}
  PROVE  Steady(ops)
<1>1. \/ UNCHANGED callVars
      \/ \E s \in Slot : \E op \in HttpOps : \E x, p : Start(s, op, x, p)
      \/ \E s \in Slot : call[s].op \in HttpOps /\ (PushResume(s) \/ Silent(s) \/ \E p : Advance(s, p))
  <2>1. ASSUME HttpCalls
        PROVE  UNCHANGED callVars \/ \E s \in Slot : \E op \in HttpOps : \E x, p : Start(s, op, x, p)
    BY <2>1 DEF HttpCalls, Request, Connect, Send, CloseWs, CreateWs, CollectWs, HttpOps
  <2>2. ASSUME NEW s \in Slot, \/ RequestEnds(s) \/ ConnectStarts(s) \/ ConnectEnds(s)
                               \/ SendStarts(s) \/ CloseStarts(s) \/ WriteDone(s)
        PROVE  call[s].op \in HttpOps /\ (PushResume(s) \/ Silent(s) \/ Advance(s, "busy"))
    BY <2>2 DEF RequestEnds, ConnectStarts, ConnectEnds, ConnectSucceeds, ConnectFails, AnswerFailure,
       ConnectAborted, SendStarts, CloseStarts, WriteDone, IsCall, HttpOps
  <2>3. ASSUME NEW w \in Conn, NEW k \in Client, \/ GcFrameEnds(w) \/ PumpReads(w, k) \/ PumpStops(w, k)
                                                 \/ PumpMessage(w, k) \/ PumpFails(w, k)
        PROVE  UNCHANGED callVars
    BY <2>3 DEF GcFrameEnds, PumpReads, PumpStops, PumpMessage, PumpFails
  <2>4. ASSUME NEW w \in Conn, GcFrameEnds(w) PROVE UNCHANGED callVars
    BY <2>4 DEF GcFrameEnds
  <2> QED BY <2>1, <2>2, <2>3, <2>4 DEF HttpSteps
<1>2. HttpOps \subseteq Waits
  BY DEF HttpOps, Waits
<1> QED BY <1>1, <1>2, SteadyOthers, SteadyStart, SteadyFinish, SteadyAdvance

-----------------------------------------------------------------------------
(* The clients of WebSockets                                               *)

Dials(s) == UnderWay(s, {"connect"})

\* Each connect has a number of its own, and no pump until it succeeds.
DialInv ==
  /\ \A s \in Slot : Dials(s) =>
       /\ via[s] \in Client /\ via[s] <= dialled[call[s].on]
       /\ pump[call[s].on][via[s]] = Idle
  /\ \A s, t \in Slot : Dials(s) /\ Dials(t) /\ call[s].on = call[t].on /\ via[s] = via[t] => s = t
  /\ \A w \in Conn : \A k \in Client : pump[w][k] # Idle => k <= dialled[w]

\* Only ws:close starts a close frame, and sets the flag first.
ByeInv == \A s \in Slot : UnderWay(s, {"bye"}) => call[s].on \in closed

\* Before a second connect there is one client, the connection's own.
ClosesWith(s, w) == call[s].on = w /\ IsCall(s, "bye", "busy")
OneClient(w) ==
  /\ client[w] <= dialled[w]
  /\ \A k \in Client : pump[w][k] \in Client => pump[w][k] = client[w]
  /\ \A s \in Slot : ClosesWith(s, w) => via[s] = client[w] /\ via[s] # 0
OneClientInv == \A w \in Conn : life[w] # "gone" /\ dialled[w] <= 1 => OneClient(w)

ClientInv == DialInv /\ ByeInv /\ OneClientInv

SocketOps == {"connect", "bye"}

\* Handles do not come back.
LEMMA NeverBack ==
  ASSUME CallInv, [Next]_vars
  PROVE  \A x \in Handle : life'[x] # "gone" => life[x] # "gone"
<1>1. ASSUME NEW x \in Handle, Make(x) PROVE \A y \in Handle : life'[y] # "gone" => life[y] # "gone"
  BY <1>1 DEF Make, CallInv, HandleInv
<1>2. ASSUME NEW x \in Handle, life' = [life EXCEPT ![x] = "gone"]
      PROVE  \A y \in Handle : life'[y] # "gone" => life[y] # "gone"
  BY <1>2 DEF CallInv, HandleInv
<1> QED BY <1>1, <1>2, LifeStep

\* What a step may do to the calls and clients without any harm.
LEMMA ClientsKept ==
  ASSUME ClientInv, closed \subseteq closed',
         \A x \in Handle : life'[x] # "gone" => life[x] # "gone",
         UNCHANGED <<client, dialled, pump>>,
         \A s \in Slot : UnderWay(s, SocketOps)' =>
                           UnderWay(s, SocketOps) /\ SameCall(s) /\ via'[s] = via[s]
  PROVE  ClientInv'
<1>1. \A s \in Slot : Dials(s)' => Dials(s) /\ SameCall(s) /\ via'[s] = via[s]
  BY DEF Dials, UnderWay, SocketOps, SameCall
<1>2. \A s \in Slot : UnderWay(s, {"bye"})' => UnderWay(s, {"bye"}) /\ SameCall(s)
  BY DEF UnderWay, SocketOps, SameCall
<1>3. \A s \in Slot : \A w \in Conn : ClosesWith(s, w)' => ClosesWith(s, w) /\ via'[s] = via[s]
  BY DEF UnderWay, SocketOps, SameCall, ClosesWith, IsCall
<1>4. DialInv'
  BY <1>1 DEF ClientInv, DialInv, SameCall
<1>5. ByeInv'
  BY <1>2 DEF ClientInv, ByeInv, SameCall
<1>6. OneClientInv'
  BY <1>3 DEF ClientInv, OneClientInv, OneClient, Handle
<1> QED BY <1>4, <1>5, <1>6 DEF ClientInv

LEMMA ClientsSteady ==
  ASSUME ClientInv, closed \subseteq closed', Steady(SocketOps),
         \A x \in Handle : life'[x] # "gone" => life[x] # "gone",
         UNCHANGED <<client, dialled, pump>>,
         \A s \in Slot : UnderWay(s, SocketOps) => via'[s] = via[s]
  PROVE  ClientInv'
<1>1. \A s \in Slot : UnderWay(s, SocketOps)' =>
                         UnderWay(s, SocketOps) /\ SameCall(s) /\ via'[s] = via[s]
  BY DEF Steady, UnderWay, SameCall
<1> QED BY <1>1, ClientsKept

SocketInv == CallInv /\ HttpTypeOK /\ ClientInv

LEMMA SocketTypes ==
  ASSUME SocketInv
  PROVE  /\ \A w \in Conn : client[w] \in Int /\ dialled[w] \in Int
         /\ \A s \in Slot : via[s] \in Int /\ (UnderWay(s, SocketOps) => call[s].on \in Conn)
         /\ \A k \in Client : k \in Int /\ k # Idle /\ k # Due
         /\ \A w \in Conn : (client[w] # 0 => client[w] \in Client)
                          /\ (dialled[w] < MaxClient => dialled[w] + 1 \in Client)
BY MaxClientIsNat DEF SocketInv, HttpTypeOK, Client, Idle, Due, UnderWay, SocketOps, CallInv, Suits

LEMMA ConnectKeepsClients ==
  ASSUME SocketInv, NEW s \in Slot, NEW w \in Conn, Connect(s, w)
  PROVE  ClientInv'
<1>1. /\ phase[s] = "free" /\ call'[s] = [op |-> "connect", on |-> w] /\ phase'[s] = "io"
      /\ \A t \in Slot \ {s} : SameCall(t)
  BY DEF Connect, Start, SocketInv, CallInv, SlotInv, SameCall
<1>2. /\ dialled[w] < MaxClient /\ dialled'[w] = dialled[w] + 1 /\ via'[s] = dialled[w] + 1
      /\ \A v \in Conn \ {w} : dialled'[v] = dialled[v]
      /\ \A t \in Slot \ {s} : via'[t] = via[t]
      /\ UNCHANGED <<client, pump, closed, life>>
  BY DEF Connect, SocketInv, HttpTypeOK, Rest
<1>3. \A v \in Conn : dialled[v] <= dialled'[v]
  BY <1>2, SocketTypes
<1>4. \A t \in Slot \ {s} : \A ops : UnderWay(t, ops)' = UnderWay(t, ops)
  BY <1>1 DEF UnderWay, SameCall
<1>5. ASSUME NEW t \in Slot \ {s}, Dials(t)
      PROVE  call'[t].on = call[t].on /\ via'[t] = via[t]
             /\ call[t].on \in Conn /\ via[t] <= dialled[call[t].on]
  BY <1>1, <1>2, <1>5, SocketTypes
        DEF SocketInv, ClientInv, DialInv, Dials, UnderWay, SocketOps, SameCall
<1>6. pump[w][dialled[w] + 1] = Idle /\ dialled[w] + 1 \in Client
  BY <1>2, SocketTypes DEF SocketInv, ClientInv, DialInv
<1>7. \A t \in Slot : Dials(t)' => /\ via'[t] \in Client /\ via'[t] <= dialled'[call'[t].on]
                                   /\ pump'[call'[t].on][via'[t]] = Idle
  <2>1. ASSUME NEW t \in Slot \ {s}, Dials(t)
        PROVE  /\ via'[t] \in Client /\ via'[t] <= dialled'[call'[t].on]
               /\ pump'[call'[t].on][via'[t]] = Idle
    <3>1. via'[t] \in Client /\ pump'[call'[t].on][via'[t]] = Idle
      BY <1>2, <1>5, <2>1 DEF SocketInv, ClientInv, DialInv
    <3>2. \A c \in Conn : \A i \in Int : i <= dialled[c] => i <= dialled'[c]
      BY <1>2, SocketTypes
    <3> QED BY <1>5, <2>1, <3>1, <3>2, SocketTypes
  <2> QED BY <1>1, <1>2, <1>4, <1>6, <2>1, SocketTypes DEF Dials
<1>8. \A t, u \in Slot : Dials(t)' /\ Dials(u)' /\ call'[t].on = call'[u].on /\ via'[t] = via'[u]
            => t = u
  <2>1. ASSUME NEW t \in Slot \ {s}, NEW u \in Slot \ {s}, Dials(t), Dials(u),
               call'[t].on = call'[u].on, via'[t] = via'[u]
        PROVE  t = u
    BY <1>5, <2>1 DEF SocketInv, ClientInv, DialInv
  <2>2. ASSUME NEW t \in Slot \ {s}, Dials(t), call'[t].on = w PROVE via'[t] # via'[s]
    BY <1>2, <1>5, <2>2, SocketTypes
  <2> QED BY <1>1, <1>4, <2>1, <2>2 DEF Dials
<1>9. \A v \in Conn : \A k \in Client : pump'[v][k] # Idle => k <= dialled'[v]
  <2>1. \A c \in Conn : \A i \in Int : i <= dialled[c] => i <= dialled'[c]
    BY <1>2, SocketTypes
  <2> QED BY <1>2, <2>1, SocketTypes DEF SocketInv, ClientInv, DialInv
<1>10. ByeInv'
  BY <1>1, <1>2, <1>4 DEF SocketInv, ClientInv, ByeInv, UnderWay, SameCall
<1>11. ASSUME NEW v \in Conn, life'[v] # "gone", dialled'[v] <= 1 PROVE OneClient(v)'
  <2>1. dialled[v] <= dialled'[v] /\ dialled[v] <= 1
    BY <1>3, <1>11, <1>2, SocketTypes
  <2>2. OneClient(v)
    BY <1>2, <1>11, <2>1 DEF SocketInv, ClientInv, OneClientInv
  <2>3. client'[v] <= dialled'[v]
    BY <1>2, <2>1, <2>2, SocketTypes DEF OneClient
  <2>4. \A t \in Slot : ClosesWith(t, v)' => ClosesWith(t, v) /\ via'[t] = via[t]
    BY <1>1, <1>2 DEF ClosesWith, IsCall, SameCall
  <2> QED BY <1>2, <2>2, <2>3, <2>4 DEF OneClient
<1> QED BY <1>7, <1>8, <1>9, <1>10, <1>11 DEF ClientInv, DialInv, OneClientInv

LEMMA CloseWsKeepsClients ==
  ASSUME SocketInv, NEW s \in Slot, NEW w \in Conn, CloseWs(s, w)
  PROVE  ClientInv'
<1>1. /\ phase[s] = "free" /\ call'[s] = [op |-> "bye", on |-> w] /\ phase'[s] = "io"
      /\ \A t \in Slot \ {s} : SameCall(t)
  BY DEF CloseWs, Start, SocketInv, CallInv, SlotInv, SameCall
<1>2. UNCHANGED <<client, dialled, via, pump, life>> /\ closed' = closed \cup {w}
  BY DEF CloseWs, Rest, connVars
<1>3. \A t \in Slot : Dials(t)' => Dials(t) /\ SameCall(t)
  BY <1>1 DEF Dials, UnderWay, SameCall
<1>4. DialInv'
  BY <1>2, <1>3 DEF SocketInv, ClientInv, DialInv, SameCall
<1>5. ByeInv'
  BY <1>1, <1>2 DEF SocketInv, ClientInv, ByeInv, UnderWay, SameCall
<1>6. \A t \in Slot : \A v \in Conn : ClosesWith(t, v)' => ClosesWith(t, v)
  BY <1>1 DEF ClosesWith, IsCall, SameCall
<1>7. OneClientInv'
  BY <1>2, <1>6 DEF SocketInv, ClientInv, OneClientInv, OneClient
<1> QED BY <1>4, <1>5, <1>7 DEF ClientInv

LEMMA ConnectStartsKeepsClients ==
  ASSUME SocketInv, NEW s \in Slot, ConnectStarts(s)
  PROVE  ClientInv'
<1>0. PICK w \in Conn : w = call[s].on
  BY DEF ConnectStarts, IsCall, SocketInv, CallInv, Suits
<1> USE <1>0
<1>1. /\ Dials(s) /\ phase'[s] = "busy" /\ call' = call
      /\ \A t \in Slot \ {s} : SameCall(t)
  BY DEF ConnectStarts, IsCall, Advance, SocketInv, CallInv, SlotInv, Suits, SameCall, Dials, UnderWay
<1>2. /\ UNCHANGED <<dialled, via, pump, closed, life>>
      /\ client'[w] = via[s] /\ \A v \in Conn \ {w} : client'[v] = client[v]
  BY <1>1 DEF ConnectStarts, Rest, SocketInv, HttpTypeOK
<1>3. \A t \in Slot : Dials(t)' => Dials(t)
  BY <1>1 DEF Dials, UnderWay, SameCall
<1>4. DialInv'
  BY <1>1, <1>2, <1>3 DEF SocketInv, ClientInv, DialInv
<1>5. \A t \in Slot : UnderWay(t, {"bye"})' => UnderWay(t, {"bye"})
  BY <1>1 DEF UnderWay, SameCall, Dials
<1>6. ByeInv'
  BY <1>1, <1>2, <1>5 DEF SocketInv, ClientInv, ByeInv
<1>7. \A t \in Slot : \A v \in Conn : ClosesWith(t, v)' => ClosesWith(t, v)
  BY <1>1 DEF ClosesWith, IsCall, SameCall, Dials, UnderWay
<1>8. ASSUME NEW v \in Conn, life[v] # "gone", dialled[v] <= 1, v # w PROVE OneClient(v)'
  BY <1>2, <1>7, <1>8 DEF SocketInv, ClientInv, OneClientInv, OneClient
<1>9. ASSUME life[w] # "gone", dialled[w] <= 1 PROVE OneClient(w)'
  <2>1. via[s] = 1 /\ via[s] = dialled[w] /\ pump[w][1] = Idle
    BY <1>1, <1>9, SocketTypes DEF SocketInv, ClientInv, DialInv, Client
  <2>2. \A k \in Client : pump[w][k] = Idle
    <3>1. \A k \in Client : pump[w][k] # Idle => k <= 1
      BY <1>1, <2>1 DEF SocketInv, ClientInv, DialInv
    <3>2. \A k \in Client : k <= 1 => k = 1
      BY MaxClientIsNat DEF Client
    <3> QED BY <2>1, <3>1, <3>2
  <2>3. ASSUME NEW t \in Slot, ClosesWith(t, w) PROVE via[t] = 1
    <3>1. via[t] = client[w] /\ via[t] # 0 /\ client[w] <= dialled[w]
      BY <1>1, <1>9, <2>3 DEF SocketInv, ClientInv, OneClientInv, OneClient
    <3>2. client[w] \in 0..MaxClient
      BY <1>1 DEF SocketInv, HttpTypeOK
    <3> QED BY <2>1, <3>1, <3>2, MaxClientIsNat
  <2>4. client'[w] <= dialled'[w]
    BY <1>2, <2>1, SocketTypes
  <2>5. \A k \in Client : ~(pump'[w][k] \in Client)
    BY <1>2, <2>2, SocketTypes
  <2> QED BY <1>2, <1>7, <2>1, <2>3, <2>4, <2>5 DEF OneClient
<1> QED BY <1>2, <1>4, <1>6, <1>8, <1>9 DEF ClientInv, OneClientInv

\* A call that ends keeps the clients of the others.
EndsCall(s) == phase'[s] \in {"free", "answered", "silent"} /\ \A t \in Slot \ {s} : SameCall(t)

LEMMA FinishEnds ==
  ASSUME CallInv, NEW s \in Slot, PushResume(s) \/ Silent(s)
  PROVE  EndsCall(s)
<1>1. PICK p \in {"answered", "silent"} : Finish(s, p)
  BY DEF PushResume, Silent
<1> QED BY <1>1, FinishStep DEF EndsCall, SameCall

LEMMA ConnectEndsKeepsClients ==
  ASSUME SocketInv, NEW s \in Slot, ConnectEnds(s)
  PROVE  ClientInv'
<1>0. PICK w \in Conn : w = call[s].on
  BY DEF ConnectEnds, ConnectSucceeds, ConnectFails, ConnectAborted, IsCall, SocketInv, CallInv, Suits
<1> USE <1>0
<1>1. Dials(s) /\ EndsCall(s)
  BY FinishEnds DEF ConnectEnds, ConnectSucceeds, ConnectFails, AnswerFailure, ConnectAborted, IsCall,
     Dials, UnderWay, SocketInv, CallInv, Suits
<1>2. /\ UNCHANGED <<dialled, life>> /\ closed \subseteq closed'
      /\ \A t \in Slot \ {s} : via'[t] = via[t]
      /\ \A v \in Conn \ {w} : client'[v] = client[v] /\ pump'[v] = pump[v]
      /\ \A k \in Client \ {via[s]} : pump'[w][k] = pump[w][k]
      /\ \/ client'[w] = client[w] /\ pump'[w][via[s]] \in {Idle, Due}
         \/ client'[w] = 0 /\ w \notin closed /\ pump' = pump
  <2>1. pump[w][via[s]] = Idle /\ via[s] \in Client
    BY <1>1 DEF SocketInv, ClientInv, DialInv
  <2>2. CASE ConnectSucceeds(s)
    <3>1. pump' = [pump EXCEPT ![w][via[s]] = Due] /\ pump \in [Conn -> [Client -> Due..MaxClient]]
      BY <2>2 DEF ConnectSucceeds, SocketInv, HttpTypeOK
    <3>2. /\ \A v \in Conn \ {w} : pump'[v] = pump[v]
          /\ \A k \in Client \ {via[s]} : pump'[w][k] = pump[w][k]
          /\ pump'[w][via[s]] = Due
      BY <1>1, <2>1, <3>1
    <3> QED BY <1>1, <2>2, <3>2 DEF ConnectSucceeds, Leave, Rest, SocketInv, HttpTypeOK
  <2>3. CASE ConnectFails(s)
    BY <1>1, <2>3 DEF ConnectFails, Leave, Rest, SocketInv, HttpTypeOK
  <2>4. CASE ConnectAborted(s)
    BY <1>1, <2>1, <2>4 DEF ConnectAborted, Leave, Rest, SocketInv, HttpTypeOK
  <2> QED BY <2>2, <2>3, <2>4 DEF ConnectEnds
<1>3. \A t \in Slot : \A ops : UnderWay(t, ops)'
            => t # s /\ UnderWay(t, ops) /\ SameCall(t) /\ via'[t] = via[t]
  BY <1>1, <1>2 DEF EndsCall, UnderWay, SameCall
<1>4. \A t \in Slot : Dials(t)' => t # s /\ Dials(t) /\ SameCall(t) /\ via'[t] = via[t]
  BY <1>3 DEF Dials
<1>5. \A t \in Slot : Dials(t)'
            => pump'[call[t].on][via[t]] = pump[call[t].on][via[t]] /\ via[t] \in Client
  <2>1. ASSUME NEW t \in Slot, Dials(t)' PROVE call[t].on = w => via[t] # via[s]
    BY <1>1, <1>4, <2>1 DEF SocketInv, ClientInv, DialInv
  <2>2. \A t \in Slot : Dials(t) => via[t] \in Client /\ call[t].on \in Conn
    BY SocketTypes DEF SocketInv, ClientInv, DialInv, Dials, UnderWay, SocketOps
  <2> QED BY <1>2, <1>4, <2>1, <2>2
<1>6. \A v \in Conn : \A k \in Client : pump'[v][k] # Idle => k <= dialled[v]
  <2>1. via[s] <= dialled[w]
    BY <1>1 DEF SocketInv, ClientInv, DialInv
  <2>2. \A v \in Conn : \A k \in Client : pump'[v][k] = pump[v][k] \/ (v = w /\ k = via[s])
    BY <1>1, <1>2
  <2> QED BY <2>1, <2>2 DEF SocketInv, ClientInv, DialInv
<1>7. DialInv'
  BY <1>2, <1>4, <1>5, <1>6 DEF SocketInv, ClientInv, DialInv, SameCall
<1>8. ByeInv'
  BY <1>2, <1>3 DEF SocketInv, ClientInv, ByeInv, SameCall
<1>9. \A t \in Slot : \A v \in Conn : ClosesWith(t, v)' => ClosesWith(t, v) /\ via'[t] = via[t]
  BY <1>1, <1>2 DEF EndsCall, SameCall, ClosesWith, IsCall
<1>10. ASSUME NEW v \in Conn, life[v] # "gone", dialled[v] <= 1, v # w PROVE OneClient(v)'
  BY <1>2, <1>9, <1>10 DEF SocketInv, ClientInv, OneClientInv, OneClient
<1>11. ASSUME life[w] # "gone", dialled[w] <= 1 PROVE OneClient(w)'
  <2>1. OneClient(w)
    BY <1>1, <1>11 DEF SocketInv, ClientInv, OneClientInv
  <2>2. CASE client'[w] = client[w] /\ pump'[w][via[s]] \in {Idle, Due}
    <3>1. \A k \in Client : pump'[w][k] \in Client => pump'[w][k] = pump[w][k]
      BY <1>2, <2>2, SocketTypes
    <3> QED BY <1>2, <1>9, <2>1, <2>2, <3>1, SMTT(30) DEF OneClient
  <2>3. CASE client'[w] = 0 /\ w \notin closed /\ pump' = pump
    <3>1. \A t \in Slot : ~ClosesWith(t, w)
      BY <2>3 DEF SocketInv, ClientInv, ByeInv, UnderWay, ClosesWith, IsCall
    <3>2. via[s] = 1 /\ pump[w][1] = Idle
      BY <1>1, <1>11, SocketTypes DEF SocketInv, ClientInv, DialInv, Client
    <3>3. \A k \in Client : pump[w][k] = Idle
      <4>1. \A k \in Client : pump[w][k] # Idle => k <= 1
        BY <1>1, <1>11, SocketTypes DEF SocketInv, ClientInv, DialInv
      <4>2. \A k \in Client : k <= 1 => k = 1
        BY MaxClientIsNat DEF Client
      <4> QED BY <3>2, <4>1, <4>2
    <3>4. \A k \in Client : ~(pump'[w][k] \in Client)
      BY <2>3, <3>3, SocketTypes
    <3>5. client'[w] <= dialled'[w]
      BY <1>1, <1>2, <2>3, MaxClientIsNat DEF SocketInv, HttpTypeOK
    <3> QED BY <1>9, <3>1, <3>4, <3>5 DEF OneClient
  <2> QED BY <1>2, <2>2, <2>3
<1> QED BY <1>2, <1>7, <1>8, <1>10, <1>11 DEF ClientInv, OneClientInv

LEMMA CloseStartsKeepsClients ==
  ASSUME SocketInv, NEW s \in Slot, CloseStarts(s)
  PROVE  ClientInv'
<1>0. PICK w \in Conn : w = call[s].on
  BY DEF CloseStarts, IsCall, SocketInv, CallInv, Suits
<1>1. /\ UNCHANGED <<client, dialled, pump, closed, life>>
      /\ \A t \in Slot \ {s} : via'[t] = via[t]
      /\ UnderWay(s, {"bye"}) /\ ~Dials(s)
  BY DEF CloseStarts, Rest, IsCall, UnderWay, Dials, SocketInv, HttpTypeOK
<1>2. CASE client[w] = 0
  <2>1. EndsCall(s)
    BY <1>0, <1>2, FinishEnds DEF CloseStarts, SocketInv
  <2>2. \A t \in Slot : UnderWay(t, SocketOps)' =>
                          UnderWay(t, SocketOps) /\ SameCall(t) /\ via'[t] = via[t]
    BY <1>1, <2>1 DEF EndsCall, UnderWay, SameCall
  <2> QED BY <1>1, <2>2, ClientsKept DEF SocketInv
<1>3. CASE client[w] # 0
  <2>1. /\ via'[s] = client[w] /\ call' = call /\ phase'[s] = "busy"
        /\ \A t \in Slot \ {s} : SameCall(t)
    BY <1>0, <1>3 DEF CloseStarts, Advance, SocketInv, CallInv, SlotInv, HttpTypeOK, SameCall
  <2>2. \A t \in Slot : Dials(t)' => Dials(t) /\ SameCall(t) /\ via'[t] = via[t]
    BY <1>1, <2>1 DEF Dials, UnderWay, SameCall
  <2>3. DialInv'
    BY <1>1, <2>2 DEF SocketInv, ClientInv, DialInv, SameCall
  <2>4. \A t \in Slot : UnderWay(t, {"bye"})' => UnderWay(t, {"bye"})
    BY <1>1, <2>1 DEF UnderWay, SameCall
  <2>5. ByeInv'
    BY <1>1, <2>1, <2>4 DEF SocketInv, ClientInv, ByeInv
  <2>6. \A t \in Slot : \A v \in Conn : ClosesWith(t, v)' =>
          (ClosesWith(t, v) /\ via'[t] = via[t]) \/ (t = s /\ v = w)
    BY <1>0, <1>1, <2>1 DEF ClosesWith, IsCall, SameCall
  <2>7. OneClientInv'
    BY <1>1, <1>3, <2>1, <2>6 DEF SocketInv, ClientInv, OneClientInv, OneClient
  <2> QED BY <2>3, <2>5, <2>7 DEF ClientInv
<1> QED BY <1>2, <1>3

LEMMA PumpKeepsClients ==
  ASSUME SocketInv, NEW w \in Conn, NEW k \in Client,
         PumpReads(w, k) \/ PumpStops(w, k) \/ PumpMessage(w, k) \/ PumpFails(w, k)
  PROVE  ClientInv'
<1>1. /\ pump[w][k] # Idle /\ UNCHANGED <<callVars, dialled, via, life>> /\ closed \subseteq closed'
      /\ \A v \in Conn \ {w} : client'[v] = client[v] /\ pump'[v] = pump[v]
      /\ \A i \in Client \ {k} : pump'[w][i] = pump[w][i]
      /\ \/ client'[w] = client[w] /\ pump'[w][k] \in {Idle, client[w]}
         \/ /\ client'[w] = 0 /\ pump'[w][k] = Idle /\ w \notin closed
            /\ pump[w][k] \in Client
  <2> DEFINE New(v) == [pump EXCEPT ![w][k] = v]
  <2>1. /\ \/ client' = client /\ \E v \in {Idle, client[w]} : pump' = New(v)
           \/ /\ client' = [client EXCEPT ![w] = 0] /\ pump' = New(Idle)
              /\ w \notin closed /\ pump[w][k] \in Client
        /\ UNCHANGED <<callVars, dialled, via, life>> /\ closed \subseteq closed'
        /\ pump[w][k] = Due \/ pump[w][k] \in Client
    BY DEF PumpReads, PumpStops, PumpMessage, PumpFails, ReadsOn, DropsResult, Rest
  <2>2. pump \in [Conn -> [Client -> Due..MaxClient]] /\ client \in [Conn -> 0..MaxClient]
    BY DEF SocketInv, HttpTypeOK
  <2>3. Due # Idle
    BY DEF Due, Idle
  <2>4. pump[w][k] # Idle
    BY <2>1, <2>3, SocketTypes
  <2>5. \A v : /\ \A c \in Conn \ {w} : New(v)[c] = pump[c]
               /\ \A i \in Client \ {k} : New(v)[w][i] = pump[w][i]
               /\ New(v)[w][k] = v
    BY <2>2
  <2> HIDE DEF New
  <2>6. /\ \A v \in Conn \ {w} : pump'[v] = pump[v]
        /\ \A i \in Client \ {k} : pump'[w][i] = pump[w][i]
        /\ \/ client' = client /\ pump'[w][k] \in {Idle, client[w]}
           \/ /\ client' = [client EXCEPT ![w] = 0] /\ pump'[w][k] = Idle /\ w \notin closed
              /\ pump[w][k] \in Client
    BY <2>1, <2>5
  <2> QED BY <2>1, <2>2, <2>4, <2>6
<1>2. \A t \in Slot : \A ops : UnderWay(t, ops)' = UnderWay(t, ops) /\ call'[t] = call[t]
  BY <1>1 DEF UnderWay, callVars
<1>3. \A t \in Slot : Dials(t) => pump'[call[t].on][via[t]] = Idle
  <2>1. ASSUME NEW t \in Slot, Dials(t) PROVE pump'[call[t].on][via[t]] = Idle
    <3>1. call[t].on \in Conn /\ via[t] \in Client /\ pump[call[t].on][via[t]] = Idle
      BY <2>1, SocketTypes DEF SocketInv, ClientInv, DialInv, Dials, UnderWay, SocketOps
    <3> QED BY <1>1, <3>1
  <2> QED BY <2>1
<1>4. \A v \in Conn : \A i \in Client : pump'[v][i] # Idle => i <= dialled[v]
  <2>1. \A v \in Conn : \A i \in Client : pump'[v][i] # Idle => pump[v][i] # Idle
    BY <1>1
  <2> QED BY <2>1 DEF SocketInv, ClientInv, DialInv
<1>5. DialInv'
  BY <1>1, <1>2, <1>3, <1>4 DEF SocketInv, ClientInv, DialInv, Dials
<1>6. ByeInv'
  BY <1>1, <1>2 DEF SocketInv, ClientInv, ByeInv
<1>7. \A t \in Slot : \A v \in Conn : ClosesWith(t, v)' => ClosesWith(t, v)
  BY <1>1 DEF ClosesWith, IsCall, callVars
<1>8. ASSUME NEW v \in Conn, life[v] # "gone", dialled[v] <= 1, v # w PROVE OneClient(v)'
  BY <1>1, <1>7, <1>8 DEF SocketInv, ClientInv, OneClientInv, OneClient
<1>9. ASSUME life[w] # "gone", dialled[w] <= 1 PROVE OneClient(w)'
  <2>1. OneClient(w)
    BY <1>9 DEF SocketInv, ClientInv, OneClientInv
  <2>2. CASE client'[w] = client[w] /\ pump'[w][k] \in {Idle, client[w]}
    <3>1. \A i \in Client : pump'[w][i] \in Client => pump'[w][i] = client[w]
      BY <1>1, <2>1, <2>2, SocketTypes DEF OneClient
    <3> QED BY <1>1, <1>7, <2>1, <2>2, <3>1 DEF OneClient
  <2>3. CASE client'[w] = 0 /\ pump'[w][k] = Idle /\ w \notin closed
    <3>1. \A t \in Slot : ~ClosesWith(t, w)
      BY <2>3 DEF SocketInv, ClientInv, ByeInv, UnderWay, ClosesWith, IsCall
    <3>2. \A i \in Client : pump[w][i] # Idle => i = k
      <4>1. \A i \in Client : pump[w][i] # Idle => i <= 1
        BY <1>9, SocketTypes DEF SocketInv, ClientInv, DialInv
      <4>2. \A i \in Client : i <= 1 => i = 1
        BY MaxClientIsNat DEF Client
      <4> QED BY <1>1, <4>1, <4>2
    <3>3. \A i \in Client : ~(pump'[w][i] \in Client)
      BY <1>1, <2>3, <3>2, SocketTypes
    <3>4. client'[w] <= dialled'[w]
      BY <1>1, <2>3, MaxClientIsNat DEF SocketInv, HttpTypeOK
    <3> QED BY <1>7, <3>1, <3>3, <3>4 DEF OneClient
  <2> QED BY <1>1, <2>2, <2>3
<1> QED BY <1>1, <1>5, <1>6, <1>8, <1>9 DEF ClientInv, OneClientInv

LEMMA CollectWsKeepsClients ==
  ASSUME SocketInv, NEW w \in Conn, CollectWs(w)
  PROVE  ClientInv'
<1>1. /\ UNCHANGED <<callVars, dialled, via, pump>> /\ closed \subseteq closed'
      /\ life'[w] = "gone" /\ \A v \in Conn \ {w} : life'[v] = life[v] /\ client'[v] = client[v]
  BY DEF CollectWs, SocketInv, HttpTypeOK, CallInv, HandleInv, Handle
<1>2. \A t \in Slot : \A ops : UnderWay(t, ops)' = UnderWay(t, ops) /\ call'[t] = call[t]
  BY <1>1 DEF UnderWay, callVars
<1>3. DialInv' /\ ByeInv'
  BY <1>1, <1>2 DEF SocketInv, ClientInv, DialInv, ByeInv, Dials
<1>4. \A t \in Slot : \A v \in Conn : ClosesWith(t, v)' => ClosesWith(t, v)
  BY <1>1 DEF ClosesWith, IsCall, callVars
<1>5. OneClientInv'
  BY <1>1, <1>4 DEF SocketInv, ClientInv, OneClientInv, OneClient
<1> QED BY <1>3, <1>5 DEF ClientInv

LEMMA ClientStep ==
  ASSUME SocketInv, [Next]_vars
  PROVE  ClientInv'
<1>c. /\ closed \subseteq closed' /\ \A x \in Handle : life'[x] # "gone" => life[x] # "gone"
      /\ CallInv /\ ClientInv /\ via \in [Slot -> 0..MaxClient]
  BY StepSound, NeverBack DEF SocketInv, Sound, HttpTypeOK
<1>1. ASSUME NEW s \in Slot, RequestEnds(s) \/ SendStarts(s) \/ WriteDone(s) PROVE ClientInv'
  <2>1. /\ UNCHANGED <<client, dialled, pump>> /\ \A t \in Slot \ {s} : via'[t] = via[t]
        /\ (PushResume(s) /\ call[s].op \in {"request", "send", "bye"})
           \/ (Advance(s, "busy") /\ call[s].op = "send")
    BY <1>1, <1>c DEF RequestEnds, SendStarts, WriteDone, FlowEnds, Leave, connVars, IsCall
  <2>2. \A t \in Slot \ {s} : SameCall(t)
    BY <1>c, <2>1, FinishEnds DEF EndsCall, Advance, SameCall, CallInv, SlotInv
  <2>3. ~UnderWay(s, SocketOps)'
    BY <1>c, <2>1, FinishEnds DEF EndsCall, Advance, UnderWay, SocketOps
  <2>4. \A t \in Slot : UnderWay(t, SocketOps)' =>
                          UnderWay(t, SocketOps) /\ SameCall(t) /\ via'[t] = via[t]
    BY <2>1, <2>2, <2>3 DEF UnderWay, SameCall
  <2> QED BY <1>c, <2>1, <2>4, ClientsKept
<1>2. ASSUME Steady(SocketOps), UNCHANGED <<client, dialled, via, pump>> PROVE ClientInv'
  BY <1>c, <1>2, ClientsSteady
<1>3. ASSUME HttpCalls PROVE ClientInv'
  <2>1. ASSUME NEW s \in Slot, NEW w \in Conn, Request(s) \/ Send(s, w) PROVE ClientInv'
    <3>1. /\ \E op \in {"request", "send"} : \E x : Start(s, op, x, "io")
          /\ UNCHANGED <<client, dialled, via, pump>>
      BY <2>1 DEF Request, Send, connVars
    <3> QED BY <1>2, <1>c, <3>1, SteadyStart DEF SocketOps, Waits
  <2>2. ASSUME NEW w \in Conn, CreateWs(w) PROVE ClientInv'
    BY <1>2, <2>2, SteadyOthers DEF CreateWs, connVars
  <2>3. ASSUME NEW s \in Slot, Request(s) PROVE ClientInv'
    <3>1. Start(s, "request", None, "io") /\ UNCHANGED <<client, dialled, via, pump>>
      BY <2>3 DEF Request, connVars
    <3> QED BY <1>2, <1>c, <3>1, SteadyStart DEF SocketOps, Waits
  <2> QED BY <1>3, <2>1, <2>2, <2>3, ConnectKeepsClients, CloseWsKeepsClients, CollectWsKeepsClients
          DEF HttpCalls
<1>4. ASSUME NEW w \in Conn, GcFrameEnds(w) PROVE ClientInv'
  BY <1>2, <1>4, SteadyOthers DEF GcFrameEnds
<1>5. ASSUME HttpSteps PROVE ClientInv'
  BY <1>1, <1>4, <1>5, ConnectStartsKeepsClients, ConnectEndsKeepsClients, CloseStartsKeepsClients,
     PumpKeepsClients DEF HttpSteps
<1>6. ASSUME (AsyncIOCalls \/ AsyncIOSteps) /\ ByAsyncIO PROVE ClientInv'
  BY <1>2, <1>6, <1>c, AsyncIOSteady DEF ByAsyncIO, connVars, SocketOps, AsyncOps, Reads
<1>7. ASSUME BodiesNext /\ ByBodies PROVE ClientInv'
  BY <1>2, <1>7, <1>c, BodiesSteady DEF ByBodies, connVars, SocketOps
<1>8. ASSUME (World /\ ByRuntime) \/ UNCHANGED vars PROVE ClientInv'
  BY <1>2, <1>8, <1>c, WorldSteady DEF ByRuntime, connVars, vars
<1>9. ASSUME NEW s \in Slot, Deliver(s) /\ ByRuntime PROVE ClientInv'
  BY <1>2, <1>9, <1>c, SteadyDeliver DEF ByRuntime, connVars
<1> QED BY <1>3, <1>5, <1>6, <1>7, <1>8, <1>9 DEF Next

\* A WebSocket that was connected once and not collected keeps the client that
\* its read pump and its close frame work with: neither holds it, and nothing
\* drops it while they use it (WsConnectFlow, WsReadLoop, WsCloseFlow).
THEOREM ClientOutlives == Spec => []ClientOutlivesUse
<1>1. Init => ClientInv
  BY MaxClientIsNat DEF Init, CallsInit, HttpInit, ClientInv, DialInv, ByeInv, OneClientInv, OneClient,
     Dials, UnderWay, NoCall, ClosesWith, IsCall, Idle, Client
<1>2. CallInv /\ HttpTypeOK /\ ClientInv => ClientOutlivesUse
  BY DEF ClientInv, OneClientInv, OneClient, ClosesWith, ClientOutlivesUse, UsedClients, HeldClients
<1>3. Types /\ ClientInv /\ [Next]_vars => Types' /\ ClientInv'
  BY TypesStep, ClientStep DEF SocketInv, Types
<1> QED BY <1>1, <1>2, <1>3, InitTypes, PTL DEF Spec, Types

-----------------------------------------------------------------------------
(* The bytes of streams                                                    *)

Taken(x) == SubSeq(Content[x], 1, taken[x])

\* The call collects in a buffer of its own.
Gathers(s) == call[s].op \in {"all", "bytes"} /\ phase[s] = "io"

BufferTypes ==
  /\ read_buffer \in [Stream -> Bytes] /\ delivered \in [Stream -> Bytes]
  /\ buf \in [Slot -> Bytes]

OneReader == \A x \in Stream : \A s, t \in Slot : Reading(s, x) /\ Reading(t, x) => s = t

\* Bytes wait in one buffer, never in two.
OneBuffer ==
  /\ \A s \in Slot : ~Gathers(s) => buf[s] = <<>>
  /\ \A x \in Stream : \A s \in Slot : Reading(s, x) /\ Gathers(s) => read_buffer[x] = <<>>

NothingLost ==
  \A x \in Stream : x \notin closed \cup lossy =>
    /\ (\A s \in Slot : ~Reading(s, x)) => delivered[x] \o read_buffer[x] = Taken(x)
    /\ \A s \in Slot : Reading(s, x) => delivered[x] \o (read_buffer[x] \o buf[s]) = Taken(x)

StreamInv == BufferTypes /\ OneReader /\ OneBuffer /\ NothingLost

\* What a step may do to streams without any harm.
LEMMA StreamsKept ==
  ASSUME StreamInv, Steady(Reads), closed \subseteq closed', lossy \subseteq lossy', BufferTypes',
         UNCHANGED <<taken, buf>>,
         \A x \in Stream : /\ read_buffer'[x] \in {read_buffer[x], <<>>}
                           /\ x \notin closed' \cup lossy' => /\ read_buffer'[x] = read_buffer[x]
                                                              /\ delivered'[x] = delivered[x]
  PROVE  StreamInv'
<1>1. \A s \in Slot : UnderWay(s, Reads) \/ UnderWay(s, Reads)' => SameCall(s)
  BY DEF Steady
<1>2. \A s \in Slot : \A x \in Stream : Reading(s, x)' = Reading(s, x)
  BY <1>1 DEF Reading, UnderWay, SameCall
<1>3. \A s \in Slot : Gathers(s)' = Gathers(s)
  BY <1>1 DEF Gathers, UnderWay, SameCall, Reads
<1>4. OneReader' /\ OneBuffer'
  BY <1>2, <1>3 DEF StreamInv, OneReader, OneBuffer
<1>5. NothingLost'
  BY <1>2 DEF StreamInv, NothingLost, Taken
<1> QED BY <1>4, <1>5 DEF StreamInv

\* What a step of the one call that reads x has to do.
LEMMA OneStream ==
  ASSUME StreamInv, NEW s \in Slot, NEW x \in Stream,
         \A t \in Slot \ {s} : SameCall(t) /\ ~Reading(t, x) /\ buf'[t] = buf[t],
         \A y \in Stream \ {x} : /\ read_buffer'[y] = read_buffer[y] /\ delivered'[y] = delivered[y]
                                 /\ taken'[y] = taken[y]
                                 /\ ~Reading(s, y) /\ ~Reading(s, y)',
         BufferTypes', UNCHANGED <<closed, lossy>>,
         IF Gathers(s)' THEN read_buffer'[x] = <<>> ELSE buf'[s] = <<>>,
         x \notin closed \cup lossy =>
           IF Reading(s, x)' THEN delivered'[x] \o (read_buffer'[x] \o buf'[s]) = Taken(x)'
           ELSE delivered'[x] \o read_buffer'[x] = Taken(x)'
  PROVE  StreamInv'
<1>1. \A t \in Slot \ {s} : \A y \in Stream : Reading(t, y)' = Reading(t, y)
  BY DEF SameCall, Reading
<1>2. \A t \in Slot \ {s} : Gathers(t)' = Gathers(t)
  BY DEF SameCall, Gathers
<1>3. OneReader'
  BY <1>1 DEF StreamInv, OneReader
<1>4. OneBuffer'
  BY <1>1, <1>2 DEF StreamInv, OneBuffer
<1>5. \A y \in Stream \ {x} : \A t \in Slot : Reading(t, y)' <=> Reading(t, y)
  BY <1>1
<1>6. \A y \in Stream \ {x} : Taken(y)' = Taken(y)
  BY DEF Taken
<1>7. \A y \in Stream \ {x} : \A t \in Slot : Reading(t, y) => buf'[t] = buf[t]
  OBVIOUS
<1>8. NothingLost'
  <2>1. ASSUME NEW y \in Stream, y # x, y \notin closed \cup lossy
        PROVE  /\ (\A t \in Slot : ~Reading(t, y)') => delivered'[y] \o read_buffer'[y] = Taken(y)'
               /\ \A t \in Slot : Reading(t, y)'
                      => delivered'[y] \o (read_buffer'[y] \o buf'[t]) = Taken(y)'
    BY <1>5, <1>6, <1>7, <2>1 DEF StreamInv, NothingLost
  <2>2. ASSUME x \notin closed \cup lossy
        PROVE  /\ (\A t \in Slot : ~Reading(t, x)') => delivered'[x] \o read_buffer'[x] = Taken(x)'
               /\ \A t \in Slot : Reading(t, x)'
                      => delivered'[x] \o (read_buffer'[x] \o buf'[t]) = Taken(x)'
    BY <1>1, <2>2
  <2> QED BY <2>1, <2>2 DEF NothingLost
<1> QED BY <1>3, <1>4, <1>8 DEF StreamInv

ReadInv == CallInv /\ StreamTypes /\ StreamInv

LEMMA TakenIsBytes ==
  ASSUME StreamTypes, NEW x \in Stream
  PROVE  Content[x] \in Bytes /\ taken[x] \in Nat /\ Taken(x) \in Bytes
<1>1. Content[x] \in Bytes /\ taken[x] \in Nat /\ taken[x] <= Len(Content[x])
  BY AsyncIOAssumption DEF StreamTypes, Bytes
<1> QED BY <1>1, FrontIsCut DEF Taken

LEMMA AnswerHistory ==
  ASSUME BufferTypes, NEW x \in Stream, NEW b \in Bytes, History(x, b)
  PROVE  /\ delivered' \in [Stream -> Bytes]
         /\ \A y \in Stream \ {x} : delivered'[y] = delivered[y]
         /\ x \notin lossy => delivered'[x] = delivered[x] \o b
BY Concat DEF BufferTypes, History

\* A read that begins: answered from the buffer at once, or handed over.
LEMMA ReadKeepsStreams ==
  ASSUME ReadInv, NEW s \in Slot, NEW x \in Stream, NEW op \in Reads, Read(s, x, op)
  PROVE  StreamInv'
<1>1. PICK p \in {"answered", "io"} : Start(s, op, x, p)
  BY DEF Read
<1>2. /\ call'[s] = [op |-> op, on |-> x] /\ phase'[s] = p /\ phase[s] = "free"
      /\ \A t \in Slot \ {s} : SameCall(t)
  BY <1>1 DEF Start, ReadInv, CallInv, SlotInv, SameCall
<1>3. /\ UNCHANGED <<taken, lossy, closed>> /\ \A t \in Slot : ~Reading(t, x)
      /\ x \notin closed
  BY DEF Read, Usable
<1>4. /\ read_buffer \in [Stream -> Bytes] /\ delivered \in [Stream -> Bytes] /\ buf \in [Slot -> Bytes]
      /\ buf[s] = <<>> /\ Taken(x)' = Taken(x)
      /\ x \notin lossy => delivered[x] \o read_buffer[x] = Taken(x)
  BY <1>2, <1>3 DEF ReadInv, StreamInv, BufferTypes, OneBuffer, NothingLost, Gathers, Taken
<1>5. \A y \in Stream \ {x} : ~Reading(s, y) /\ ~Reading(s, y)'
  BY <1>2 DEF Reading
<1>6. ASSUME NEW front \in Bytes, NEW rest \in Bytes, front \o rest = read_buffer[x],
             p = "answered", History(x, front), read_buffer' = [read_buffer EXCEPT ![x] = rest],
              buf' = buf
      PROVE  StreamInv'
  <2>1. BufferTypes'
    BY <1>4, <1>6, AnswerHistory DEF ReadInv, StreamInv, BufferTypes
  <2>2. x \notin lossy => delivered'[x] \o read_buffer'[x] = Taken(x)'
    <3>1. x \notin lossy => delivered'[x] = delivered[x] \o front
      BY <1>6, AnswerHistory DEF ReadInv, StreamInv
    <3>2. delivered[x] \in Bytes /\ read_buffer'[x] = rest
      BY <1>4, <1>6
    <3>3. (delivered[x] \o front) \o rest = delivered[x] \o (front \o rest)
      BY <1>6, <3>2, Concat, Zenon
    <3> QED BY <1>4, <1>6, <3>1, <3>2, <3>3
  <2>3. ~Reading(s, x)' /\ ~Gathers(s)'
    BY <1>2, <1>6 DEF Reading, Gathers
  <2>4. \A y \in Stream \ {x} : /\ read_buffer'[y] = read_buffer[y] /\ delivered'[y] = delivered[y]
                                /\ taken'[y] = taken[y]
    BY <1>3, <1>4, <1>6, AnswerHistory DEF ReadInv, StreamInv
  <2> QED BY <1>2, <1>3, <1>4, <1>5, <1>6, <2>1, <2>2, <2>3, <2>4, OneStream DEF ReadInv
<1>7. CASE op = "line" /\ HasLine(read_buffer[x])
  <2>1. /\ Start(s, op, x, "answered") /\ History(x, TakeLine(read_buffer[x]).line)
        /\ read_buffer' = [read_buffer EXCEPT ![x] = TakeLine(read_buffer[x]).rest] /\ buf' = buf
    BY <1>7 DEF Read
  <2>2. p = "answered"
    BY <1>2, <2>1 DEF Start, ReadInv, CallInv, SlotInv
  <2> QED BY <1>4, <1>6, <1>7, <2>1, <2>2, LineIsCut
<1>8. CASE op = "bytes" /\ Len(read_buffer[x]) >= ByteCount
  <2> DEFINE b == read_buffer[x]
  <2>1. /\ Start(s, op, x, "answered") /\ History(x, SubSeq(b, 1, ByteCount))
        /\ read_buffer' = [read_buffer EXCEPT ![x] = SubSeq(b, ByteCount + 1, Len(b))] /\ buf' = buf
    BY <1>4, <1>8 DEF Read
  <2>2. p = "answered"
    BY <1>2, <2>1 DEF Start, ReadInv, CallInv, SlotInv
  <2>3. ByteCount \in Nat /\ ByteCount <= Len(b) /\ b \in Bytes
    BY <1>4, <1>8, AsyncIOAssumption DEF Bytes
  <2>4. /\ SubSeq(b, 1, ByteCount) \in Bytes /\ SubSeq(b, ByteCount + 1, Len(b)) \in Bytes
        /\ SubSeq(b, 1, ByteCount) \o SubSeq(b, ByteCount + 1, Len(b)) = b
    BY <2>3, FrontIsCut
  <2> QED BY <1>6, <2>1, <2>2, <2>4
<1>9. CASE op = "line" /\ ~HasLine(read_buffer[x])
  <2>1. Start(s, op, x, "io") /\ UNCHANGED <<read_buffer, buf, delivered>>
    BY <1>9 DEF Read
  <2>2. p = "io"
    BY <1>2, <2>1 DEF Start, ReadInv, CallInv, SlotInv
  <2>3. Reading(s, x)' /\ ~Gathers(s)'
    BY <1>2, <1>9, <2>2 DEF Reading, Gathers
  <2>4. x \notin lossy => delivered'[x] \o (read_buffer'[x] \o buf'[s]) = Taken(x)'
    BY <1>4, <2>1, Concat
  <2>5. BufferTypes'
    BY <1>4, <2>1 DEF BufferTypes
  <2> QED BY <1>2, <1>3, <1>4, <1>5, <2>1, <2>3, <2>4, <2>5, OneStream DEF ReadInv
<1>10. CASE op # "line" /\ ~(op = "bytes" /\ Len(read_buffer[x]) >= ByteCount)
  <2>1. /\ Start(s, op, x, "io") /\ buf' = [buf EXCEPT ![s] = read_buffer[x]]
        /\ read_buffer' = [read_buffer EXCEPT ![x] = <<>>] /\ delivered' = delivered
    BY <1>10 DEF Read
  <2>2. p = "io"
    BY <1>2, <2>1 DEF Start, ReadInv, CallInv, SlotInv
  <2>3. Reading(s, x)' /\ Gathers(s)'
    BY <1>2, <1>10, <2>2 DEF Reading, Gathers, Reads
  <2>4. x \notin lossy => delivered'[x] \o (read_buffer'[x] \o buf'[s]) = Taken(x)'
    BY <1>4, <2>1, Concat
  <2>5. BufferTypes'
    BY <1>4, <2>1, Concat DEF BufferTypes
  <2>6. \A t \in Slot \ {s} : buf'[t] = buf[t]
    BY <1>4, <2>1
  <2>7. read_buffer'[x] = <<>> /\ \A y \in Stream \ {x} : read_buffer'[y] = read_buffer[y]
    BY <1>4, <2>1
  <2> QED BY <1>2, <1>3, <1>5, <2>1, <2>3, <2>4, <2>5, <2>6, <2>7, OneStream DEF ReadInv
<1> QED BY <1>7, <1>8, <1>9, <1>10 DEF Reads

\* What is known of a call that reads.
LEMMA ReaderFacts ==
  ASSUME ReadInv, NEW s \in Slot, phase[s] = "io", call[s].op \in Reads
  PROVE  \E x \in Stream :
           /\ x = call[s].on /\ Reading(s, x)
           /\ \A t \in Slot \ {s} : ~Reading(t, x)
           /\ \A y \in Stream \ {x} : ~Reading(s, y)
           /\ read_buffer[x] \in Bytes /\ buf[s] \in Bytes /\ delivered[x] \in Bytes
           /\ IF call[s].op = "line" THEN buf[s] = <<>> ELSE read_buffer[x] = <<>>
           /\ x \notin closed \cup lossy => delivered[x] \o (read_buffer[x] \o buf[s]) = Taken(x)
<1>1. PICK x \in Stream : x = call[s].on
  BY DEF ReadInv, CallInv, Suits
<1>2. Reading(s, x) /\ \A y \in Stream \ {x} : ~Reading(s, y)
  BY <1>1 DEF Reading
<1>3. \A t \in Slot \ {s} : ~Reading(t, x)
  BY <1>2 DEF ReadInv, StreamInv, OneReader
<1>4. read_buffer[x] \in Bytes /\ buf[s] \in Bytes /\ delivered[x] \in Bytes
  BY DEF ReadInv, StreamInv, BufferTypes
<1>5. IF call[s].op = "line" THEN buf[s] = <<>> ELSE read_buffer[x] = <<>>
  BY <1>2 DEF ReadInv, StreamInv, OneBuffer, Gathers, Reads
<1>6. x \notin closed \cup lossy => delivered[x] \o (read_buffer[x] \o buf[s]) = Taken(x)
  BY <1>2 DEF ReadInv, StreamInv, NothingLost
<1> QED BY <1>1, <1>2, <1>3, <1>4, <1>5, <1>6

\* A read that is answered, with front, and leaves rest in the buffer.
LEMMA AnswerKeepsStreams ==
  ASSUME ReadInv, NEW s \in Slot, NEW x \in Stream, Reading(s, x), EndsCall(s),
         NEW front \in Bytes, NEW rest \in Bytes, History(x, front),
         read_buffer' \in [Stream -> Bytes], buf' \in [Slot -> Bytes],
         read_buffer'[x] = rest, \A y \in Stream \ {x} : read_buffer'[y] = read_buffer[y],
         buf'[s] = <<>>, \A t \in Slot \ {s} : buf'[t] = buf[t],
         \A y \in Stream \ {x} : taken'[y] = taken[y],
         UNCHANGED <<closed, lossy>>,
         x \notin closed \cup lossy => delivered[x] \o (front \o rest) = Taken(x)'
  PROVE  StreamInv'
<1>1. \A t \in Slot \ {s} : SameCall(t) /\ ~Reading(t, x) /\ buf'[t] = buf[t]
  BY DEF EndsCall, ReadInv, StreamInv, OneReader
<1>2. ~Gathers(s)' /\ \A y \in Stream : ~Reading(s, y)'
  BY DEF EndsCall, Gathers, Reading
<1>3. \A y \in Stream \ {x} : ~Reading(s, y)
  BY DEF Reading
<1>4. /\ delivered' \in [Stream -> Bytes] /\ delivered[x] \in Bytes
      /\ \A y \in Stream \ {x} : delivered'[y] = delivered[y]
      /\ x \notin lossy => delivered'[x] = delivered[x] \o front
  BY AnswerHistory DEF ReadInv, StreamInv, BufferTypes
<1>5. (delivered[x] \o front) \o rest = delivered[x] \o (front \o rest)
  BY <1>4, Concat, Zenon
<1>6. x \notin closed \cup lossy => delivered'[x] \o read_buffer'[x] = Taken(x)'
  BY <1>4, <1>5
<1>7. BufferTypes'
  BY <1>4 DEF BufferTypes
<1> QED BY <1>1, <1>2, <1>3, <1>4, <1>6, <1>7, OneStream DEF ReadInv

\* A read that goes on with one buffer grown.
LEMMA MoreKeepsStreams ==
  ASSUME ReadInv, NEW s \in Slot, NEW x \in Stream, Reading(s, x), UNCHANGED callVars,
         read_buffer' \in [Stream -> Bytes], buf' \in [Slot -> Bytes],
         \A y \in Stream \ {x} : read_buffer'[y] = read_buffer[y] /\ taken'[y] = taken[y],
         \A t \in Slot \ {s} : buf'[t] = buf[t],
         IF Gathers(s) THEN read_buffer'[x] = <<>> ELSE buf'[s] = <<>>,
         UNCHANGED <<closed, lossy, delivered>>,
         x \notin closed \cup lossy => delivered[x] \o (read_buffer'[x] \o buf'[s]) = Taken(x)'
  PROVE  StreamInv'
<1>1. \A t \in Slot \ {s} : SameCall(t) /\ ~Reading(t, x) /\ buf'[t] = buf[t]
  BY DEF SameCall, callVars, ReadInv, StreamInv, OneReader
<1>2. (Gathers(s)' <=> Gathers(s)) /\ \A y \in Stream : (Reading(s, y)' <=> Reading(s, y))
  BY DEF Gathers, Reading, callVars
<1>3. \A y \in Stream \ {x} : ~Reading(s, y)
  BY DEF Reading
<1>4. BufferTypes'
  BY DEF BufferTypes, ReadInv, StreamInv
<1>5. IF Gathers(s)' THEN read_buffer'[x] = <<>> ELSE buf'[s] = <<>>
  BY <1>2
<1>6. x \notin closed \cup lossy =>
        IF Reading(s, x)' THEN delivered'[x] \o (read_buffer'[x] \o buf'[s]) = Taken(x)'
        ELSE delivered'[x] \o read_buffer'[x] = Taken(x)'
  BY <1>2
<1> QED BY <1>1, <1>2, <1>3, <1>4, <1>5, <1>6, OneStream DEF ReadInv

LEMMA ArriveKeepsStreams ==
  ASSUME ReadInv, NEW s \in Slot, NEW n \in 1..3, Arrive(s, n)
  PROVE  StreamInv'
<1>1. PICK x \in Stream :
        /\ x = call[s].on /\ Reading(s, x)
        /\ read_buffer[x] \in Bytes /\ buf[s] \in Bytes /\ delivered[x] \in Bytes
        /\ IF call[s].op = "line" THEN buf[s] = <<>> ELSE read_buffer[x] = <<>>
        /\ x \notin closed \cup lossy => delivered[x] \o (read_buffer[x] \o buf[s]) = Taken(x)
  BY ReaderFacts DEF Arrive
<1>2. PICK bytes : bytes = SubSeq(Content[x], taken[x] + 1, taken[x] + n)
  OBVIOUS
<1>3. /\ n <= Available(x) /\ taken' = [taken EXCEPT ![x] = @ + n]
      /\ UNCHANGED <<closed, lossy>> /\ phase[s] = "io" /\ call[s].op \in Reads
      /\ IF call[s].op = "line" THEN LineArrives(s, x, bytes) /\ UNCHANGED buf
         ELSE BufferArrives(s, x, bytes)
  BY <1>1, <1>2 DEF Arrive
<1>4. bytes \in Bytes /\ Taken(x) \o bytes = Taken(x)' /\ Taken(x) \in Bytes
  <2>1. Content[x] \in Bytes /\ taken[x] \in Nat /\ Taken(x) \in Bytes /\ n \in Nat
    BY TakenIsBytes DEF ReadInv
  <2>2. taken[x] + n <= Len(Content[x])
    BY <1>3, <2>1, Availability DEF ReadInv
  <2>3. taken'[x] = taken[x] + n
    BY <1>3 DEF ReadInv, StreamTypes
  <2>4. /\ SubSeq(Content[x], taken[x] + 1, taken[x] + n) \in Bytes
        /\ SubSeq(Content[x], 1, taken[x]) \o SubSeq(Content[x], taken[x] + 1, taken[x] + n)
             = SubSeq(Content[x], 1, taken[x] + n)
    BY <2>1, <2>2, PrefixGrows
  <2> QED BY <1>2, <2>1, <2>3, <2>4 DEF Taken
<1>5. \A y \in Stream \ {x} : taken'[y] = taken[y]
  BY <1>3 DEF ReadInv, StreamTypes
<1>6. read_buffer \in [Stream -> Bytes] /\ buf \in [Slot -> Bytes]
  BY DEF ReadInv, StreamInv, BufferTypes
\* Whatever was collected grows by the bytes that arrived.
<1>7. ASSUME NEW had \in Bytes, x \notin closed \cup lossy, delivered[x] \o had = Taken(x)
      PROVE  delivered[x] \o (had \o bytes) = Taken(x)'
  <2>1. delivered[x] \in Bytes /\ bytes \in Bytes
    BY <1>1, <1>4
  <2>2. (delivered[x] \o had) \o bytes = delivered[x] \o (had \o bytes)
    BY <2>1, Concat, Zenon
  <2> QED BY <1>4, <1>7, <2>2
<1>8. CASE call[s].op = "line"
  <2> DEFINE all == read_buffer[x] \o bytes
  <2>1. all \in Bytes
    BY <1>1, <1>4, Concat, Zenon
  <2>2. read_buffer[x] \o buf[s] = read_buffer[x] /\ buf[s] = <<>>
    BY <1>1, <1>8, Concat
  <2>3. x \notin closed \cup lossy => delivered[x] \o all = Taken(x)'
    BY <1>1, <1>7, <2>2
  <2>4. LineArrives(s, x, bytes) /\ buf' = buf
    BY <1>3, <1>8
  <2> HIDE DEF all
  <2>5. CASE HasLine(all)
    <3>1. /\ TakeLine(all).line \in Bytes /\ TakeLine(all).rest \in Bytes
          /\ TakeLine(all).line \o TakeLine(all).rest = all
      BY <2>1, <2>5, LineIsCut
    <3>2. /\ PushResume(s) /\ History(x, TakeLine(all).line)
          /\ read_buffer' = [read_buffer EXCEPT ![x] = TakeLine(all).rest]
      BY <2>4, <2>5 DEF LineArrives, Answer, all
    <3>3. EndsCall(s)
      BY <3>2, FinishEnds DEF ReadInv
    <3>4. /\ read_buffer' \in [Stream -> Bytes] /\ read_buffer'[x] = TakeLine(all).rest
          /\ \A y \in Stream \ {x} : read_buffer'[y] = read_buffer[y]
      BY <1>6, <3>1, <3>2
    <3>5. x \notin closed \cup lossy =>
            delivered[x] \o (TakeLine(all).line \o TakeLine(all).rest) = Taken(x)'
      BY <2>3, <3>1 DEF all
    <3>6. /\ buf' \in [Slot -> Bytes] /\ buf'[s] = <<>> /\ \A t \in Slot \ {s} : buf'[t] = buf[t]
          /\ UNCHANGED <<closed, lossy>> /\ Reading(s, x)
      BY <1>1, <1>3, <1>6, <2>2, <2>4
    <3> QED BY <1>5, <3>1, <3>2, <3>3, <3>4, <3>5, <3>6, AnswerKeepsStreams, ZenonT(30)
  <2>6. CASE ~HasLine(all)
    <3>1. read_buffer' = [read_buffer EXCEPT ![x] = all] /\ UNCHANGED <<callVars, delivered>>
      BY <2>4, <2>6 DEF LineArrives, all
    <3>2. /\ read_buffer' \in [Stream -> Bytes] /\ read_buffer'[x] = all
          /\ \A y \in Stream \ {x} : read_buffer'[y] = read_buffer[y]
      BY <1>6, <2>1, <3>1
    <3>3. all \o <<>> = all /\ ~Gathers(s)
      BY <1>8, <2>1, Concat DEF Gathers
    <3>4. /\ buf' \in [Slot -> Bytes] /\ buf'[s] = <<>> /\ \A t \in Slot \ {s} : buf'[t] = buf[t]
          /\ UNCHANGED callVars
      BY <1>6, <2>2, <2>4, <3>1
    <3>5. x \notin closed \cup lossy => delivered[x] \o (read_buffer'[x] \o buf'[s]) = Taken(x)'
      BY <2>3, <3>2, <3>3, <3>4 DEF all
    <3>6. /\ \A y \in Stream \ {x} : read_buffer'[y] = read_buffer[y] /\ taken'[y] = taken[y]
          /\ UNCHANGED <<closed, lossy, delivered>> /\ Reading(s, x)
      BY <1>1, <1>3, <1>5, <3>1, <3>2
    <3> QED BY <3>2, <3>3, <3>4, <3>5, <3>6, MoreKeepsStreams
  <2> QED BY <2>5, <2>6
<1>9. CASE call[s].op # "line"
  <2> DEFINE all == buf[s] \o bytes
  <2>1. all \in Bytes /\ all \o <<>> = all /\ <<>> \o all = all
    BY <1>1, <1>4, Concat, Zenon
  <2>2. read_buffer[x] \o buf[s] = buf[s] /\ read_buffer[x] = <<>>
    BY <1>1, <1>9, Concat
  <2>3. x \notin closed \cup lossy => delivered[x] \o all = Taken(x)'
    BY <1>1, <1>7, <2>2
  <2>4. BufferArrives(s, x, bytes)
    BY <1>3, <1>9
  <2> HIDE DEF all
  <2>5. CASE call[s].op = "bytes" /\ Len(all) = ByteCount
    <3>1. /\ PushResume(s) /\ History(x, all) /\ read_buffer' = read_buffer
          /\ buf' = [buf EXCEPT ![s] = <<>>]
      BY <2>4, <2>5 DEF BufferArrives, Answer, all
    <3>2. EndsCall(s)
      BY <3>1, FinishEnds DEF ReadInv
    <3>3. /\ buf' \in [Slot -> Bytes] /\ buf'[s] = <<>> /\ \A t \in Slot \ {s} : buf'[t] = buf[t]
          /\ <<>> \in Bytes
      BY <1>6, <3>1, Concat
    <3>4. x \notin closed \cup lossy => delivered[x] \o (all \o <<>>) = Taken(x)'
      BY <2>1, <2>3 DEF all
    <3>5. /\ read_buffer' \in [Stream -> Bytes] /\ read_buffer'[x] = <<>>
          /\ \A y \in Stream \ {x} : read_buffer'[y] = read_buffer[y]
          /\ UNCHANGED <<closed, lossy>> /\ Reading(s, x)
      BY <1>1, <1>3, <1>6, <2>2, <3>1
    <3> QED BY <1>5, <2>1, <3>1, <3>2, <3>3, <3>4, <3>5, AnswerKeepsStreams, Zenon
  <2>6. CASE ~(call[s].op = "bytes" /\ Len(all) = ByteCount)
    <3>1. /\ UNCHANGED <<callVars, delivered, read_buffer>> /\ buf' = [buf EXCEPT ![s] = all]
      BY <2>4, <2>6 DEF BufferArrives, all
    <3>2. /\ buf' \in [Slot -> Bytes] /\ buf'[s] = all /\ \A t \in Slot \ {s} : buf'[t] = buf[t]
      BY <1>6, <2>1, <3>1
    <3>3. Gathers(s)
      BY <1>3, <1>9 DEF Gathers, Reads
    <3>4. x \notin closed \cup lossy => delivered[x] \o (read_buffer'[x] \o buf'[s]) = Taken(x)'
      BY <2>1, <2>2, <2>3, <3>1, <3>2 DEF all
    <3>5. /\ read_buffer' \in [Stream -> Bytes] /\ read_buffer'[x] = <<>>
          /\ \A y \in Stream \ {x} : read_buffer'[y] = read_buffer[y] /\ taken'[y] = taken[y]
          /\ UNCHANGED <<closed, lossy, delivered>> /\ Reading(s, x)
      BY <1>1, <1>3, <1>5, <1>6, <2>2, <3>1
    <3> QED BY <3>1, <3>2, <3>3, <3>4, <3>5, MoreKeepsStreams
  <2> QED BY <2>5, <2>6
<1> QED BY <1>8, <1>9

LEMMA ReadEndsKeepsStreams ==
  ASSUME ReadInv, NEW s \in Slot, ReadEnds(s)
  PROVE  StreamInv'
<1>1. PICK x \in Stream :
        /\ x = call[s].on /\ Reading(s, x)
        /\ read_buffer[x] \in Bytes /\ buf[s] \in Bytes /\ delivered[x] \in Bytes
        /\ IF call[s].op = "line" THEN buf[s] = <<>> ELSE read_buffer[x] = <<>>
        /\ x \notin closed \cup lossy => delivered[x] \o (read_buffer[x] \o buf[s]) = Taken(x)
  BY ReaderFacts DEF ReadEnds
<1>2. PICK front \in Bytes : front = IF call[s].op = "line" THEN read_buffer[x] ELSE buf[s]
  BY <1>1
<1>3. /\ PushResume(s) /\ History(x, front) /\ UNCHANGED <<taken, closed, lossy>>
      /\ read_buffer' = IF call[s].op = "line" THEN [read_buffer EXCEPT ![x] = <<>>] ELSE read_buffer
      /\ buf' = [buf EXCEPT ![s] = <<>>]
  BY <1>1, <1>2 DEF ReadEnds, Answer
<1>4. EndsCall(s)
  BY <1>3, FinishEnds DEF ReadInv
<1>5. read_buffer \in [Stream -> Bytes] /\ buf \in [Slot -> Bytes] /\ <<>> \in Bytes
  BY Concat DEF ReadInv, StreamInv, BufferTypes
<1>6. /\ read_buffer' \in [Stream -> Bytes] /\ read_buffer'[x] = <<>>
      /\ \A y \in Stream \ {x} : read_buffer'[y] = read_buffer[y]
  BY <1>1, <1>3, <1>5
<1>7. /\ buf' \in [Slot -> Bytes] /\ buf'[s] = <<>> /\ \A t \in Slot \ {s} : buf'[t] = buf[t]
  BY <1>3, <1>5
<1>8. front \o <<>> = read_buffer[x] \o buf[s] /\ Taken(x)' = Taken(x)
  BY <1>1, <1>2, <1>3, Concat DEF Taken
<1>9. x \notin closed \cup lossy => delivered[x] \o (front \o <<>>) = Taken(x)'
  BY <1>1, <1>8
<1>10. \A y \in Stream \ {x} : taken'[y] = taken[y]
  BY <1>3
<1>11. Reading(s, x) /\ History(x, front) /\ UNCHANGED <<closed, lossy>> /\ <<>> \in Bytes
  BY <1>1, <1>3, <1>5
<1> QED BY <1>4, <1>6, <1>7, <1>9, <1>10, <1>11, AnswerKeepsStreams, Zenon

\* A completion that finds its stream closed drops what it has.
LEMMA AbortedKeepsStreams ==
  ASSUME ReadInv, NEW s \in Slot, Aborted(s)
  PROVE  StreamInv'
<1>1. /\ Silent(s) /\ phase[s] = "io" /\ call[s].on \in closed
      /\ buf' = [buf EXCEPT ![s] = <<>>] /\ UNCHANGED <<read_buffer, taken, delivered, lossy, closed>>
  BY DEF Aborted
<1>2. PICK x \in Stream : x = call[s].on
  BY DEF Aborted, Reads, ReadInv, CallInv, Suits
<1>3. EndsCall(s)
  BY <1>1, FinishEnds DEF ReadInv
<1>4. /\ BufferTypes' /\ buf'[s] = <<>> /\ \A t \in Slot \ {s} : buf'[t] = buf[t]
  BY <1>1, Concat DEF ReadInv, StreamInv, BufferTypes
<1>5. ~Gathers(s)' /\ \A y \in Stream : ~Reading(s, y)'
  BY <1>3 DEF EndsCall, Gathers, Reading
<1>6. \A y \in Stream \ {x} : ~Reading(s, y)
  BY <1>2 DEF Reading
<1>7. CASE Reading(s, x)
  <2>1. \A t \in Slot \ {s} : SameCall(t) /\ ~Reading(t, x) /\ buf'[t] = buf[t]
    BY <1>3, <1>4, <1>7 DEF EndsCall, ReadInv, StreamInv, OneReader
  <2> QED BY <1>1, <1>2, <1>4, <1>5, <1>6, <2>1, OneStream DEF ReadInv
<1>8. CASE ~Reading(s, x)
  <2>1. call[s].op \notin Reads /\ buf[s] = <<>>
    BY <1>1, <1>2, <1>8 DEF Reading, Gathers, Reads, ReadInv, StreamInv, OneBuffer
  <2>2. buf' = buf /\ Steady(Reads)
    BY <1>1, <2>1, SteadyFinish DEF ReadInv, StreamInv, BufferTypes
  <2> QED BY <1>1, <1>4, <2>2, StreamsKept DEF ReadInv
<1> QED BY <1>7, <1>8

LEMMA StreamStep ==
  ASSUME ReadInv, [Next]_vars
  PROVE  StreamInv'
<1>c. CallInv /\ StreamInv /\ BufferTypes /\ closed \subseteq closed'
  BY StepSound DEF ReadInv, Sound, StreamInv
<1>1. ASSUME Steady(Reads), UNCHANGED streamVars PROVE StreamInv'
  BY <1>c, <1>1, StreamsKept DEF streamVars, BufferTypes
\* Closing empties the buffer of a stream whose flag is set by then.
<1>2. ASSUME Steady(Reads), UNCHANGED <<buf, taken, delivered, lossy>>,
             NEW x \in Stream, x \in closed', read_buffer' = [read_buffer EXCEPT ![x] = <<>>]
      PROVE  StreamInv'
  <2>1. \A y \in Stream : /\ read_buffer'[y] \in {read_buffer[y], <<>>}
                          /\ y \notin closed' \cup lossy' => /\ read_buffer'[y] = read_buffer[y]
                                                             /\ delivered'[y] = delivered[y]
    BY <1>c, <1>2 DEF BufferTypes
  <2>2. BufferTypes'
    BY <1>c, <1>2, Concat DEF BufferTypes
  <2>3. lossy \subseteq lossy'
    BY <1>2
  <2> QED BY <1>c, <1>2, <2>1, <2>2, <2>3, StreamsKept
<1>3. ASSUME AsyncIOCalls PROVE StreamInv'
  <2>1. ASSUME (\E f \in File : Open(f)) \/ (\E x \in Stream : CollectStream(x))
        PROVE  StreamInv'
    BY <1>1, <2>1, SteadyOthers DEF Open, CollectStream
  <2>2. ASSUME NEW p \in Proc, Exec(p) \/ ShutdownStdin(p) \/ Kill(p) PROVE StreamInv'
    BY <1>1, <2>2, SteadyOthers DEF Exec, ShutdownStdin, Kill
  <2>3. ASSUME NEW f \in File, CloseFile(f) PROVE StreamInv'
    <3>1. Steady(Reads)
      BY <2>3, SteadyOthers DEF CloseFile
    <3> QED BY <1>2, <2>3, <3>1 DEF CloseFile, Stream
  <2>4. ASSUME NEW s \in Slot, NEW p \in Proc, CloseProc(s, p) PROVE StreamInv'
    <3>1. Steady(Reads)
      BY <1>c, <2>4, SteadyStart DEF CloseProc, Waits, Reads
    <3> QED BY <1>2, <2>4, <3>1 DEF CloseProc, Stream
  <2>5. ASSUME NEW s \in Slot, NEW x \in Stream, Write(s, x) PROVE StreamInv'
    <3>1. Steady(Reads)
      BY <1>c, <2>5, SteadyStart DEF Write, Waits, Reads
    <3> QED BY <1>1, <2>5, <3>1 DEF Write, aioVars
  <2> QED BY <1>3, <2>1, <2>2, <2>3, <2>4, <2>5, ReadKeepsStreams DEF AsyncIOCalls
<1>4. ASSUME NEW s \in Slot, WriteEnds(s) \/ RunWait(s) \/ WaitDone(s) PROVE StreamInv'
  <2>1. /\ call[s].op \notin Reads /\ (PushResume(s) \/ Advance(s, "busy")) /\ UNCHANGED streamVars
    BY <1>4 DEF WriteEnds, RunWait, WaitDone, IsCall, Reads
  <2> QED BY <1>1, <1>c, <2>1, SteadyFinish, SteadyAdvance
<1>5. ASSUME NEW p \in Proc, ChildWrites(p) \/ ChildReads(p) \/ ChildEnds(p) PROVE StreamInv'
  BY <1>1, <1>5, SteadyOthers DEF ChildWrites, ChildReads, ChildEnds
<1>6. ASSUME AsyncIOSteps PROVE StreamInv'
  BY <1>4, <1>5, <1>6, ArriveKeepsStreams, ReadEndsKeepsStreams, AbortedKeepsStreams DEF AsyncIOSteps
<1>7. ASSUME (HttpCalls \/ HttpSteps) /\ ByHttp PROVE StreamInv'
  BY <1>1, <1>7, <1>c, HttpSteady DEF ByHttp, aioVars, Reads, HttpOps
<1>8. ASSUME BodiesNext /\ ByBodies PROVE StreamInv'
  BY <1>1, <1>8, <1>c, BodiesSteady DEF ByBodies, aioVars, Reads
\* Streams whose reads are abandoned are lossy from then on.
<1>9. ASSUME World PROVE StreamInv'
  <2>1. Steady(Reads)
    BY <1>9, <1>c, WorldSteady
  <2>2. CASE AbandonReads
    <3>1. /\ lossy \subseteq lossy' /\ UNCHANGED <<taken, buf, read_buffer>>
          /\ delivered' = [x \in Stream |-> IF x \in lossy' THEN <<>> ELSE delivered[x]]
      BY <2>2 DEF AbandonReads
    <3>2. BufferTypes'
      BY <1>c, <3>1, Concat DEF BufferTypes
    <3> QED BY <1>c, <2>1, <3>1, <3>2, StreamsKept
  <2> QED BY <1>1, <1>9, <2>1, <2>2 DEF World, Pass, aioVars
<1>10. ASSUME NEW s \in Slot, Deliver(s) /\ UNCHANGED aioVars PROVE StreamInv'
  BY <1>1, <1>10, <1>c, SteadyDeliver DEF aioVars
<1>11. ASSUME UNCHANGED vars PROVE StreamInv'
  BY <1>1, <1>11, SteadyOthers DEF vars, aioVars
<1> QED BY <1>3, <1>6, <1>7, <1>8, <1>9, <1>10, <1>11 DEF Next

LEMMA InitStreams == Init => StreamInv
<1> SUFFICES ASSUME Init PROVE StreamInv
  OBVIOUS
<1>1. BufferTypes /\ \A s \in Slot : ~Gathers(s) /\ \A x \in Stream : ~Reading(s, x)
  BY Concat DEF Init, CallsInit, AsyncIOInit, BufferTypes, Gathers, Reading, NoCall
<1>2. \A x \in Stream : delivered[x] \o read_buffer[x] = Taken(x)
  BY Concat, SubSeqEmpty DEF Init, AsyncIOInit, Taken
<1> QED BY <1>1, <1>2 DEF Init, AsyncIOInit, StreamInv, OneReader, OneBuffer, NothingLost

\* Mixing reads of lines, of counts and of the rest, whatever arrives when,
\* loses no byte of a stream and repeats none: what was answered, what is
\* buffered and what the one read under way has collected are what the io
\* thread took (do_read_line, file_read, process_read).
THEOREM StreamsIntact == Spec => []StreamIntact
<1>1. ReadInv => StreamIntact
  <2> SUFFICES ASSUME ReadInv, NEW x \in Stream, x \notin closed \cup lossy
               PROVE  LET under_way == {s \in Slot : Reading(s, x)}
                          collected ==
                             IF under_way = {} THEN <<>> ELSE buf[CHOOSE s \in under_way : TRUE]
                      IN delivered[x] \o read_buffer[x] \o collected = Taken(x)
    BY DEF StreamIntact, Taken
  <2>1. delivered[x] \in Bytes /\ read_buffer[x] \in Bytes /\ \A s \in Slot : buf[s] \in Bytes
    BY DEF ReadInv, StreamInv, BufferTypes
  <2>2. CASE \A s \in Slot : ~Reading(s, x)
    <3>1. (delivered[x] \o read_buffer[x]) \o <<>> = Taken(x)
      BY <2>1, <2>2, Concat DEF ReadInv, StreamInv, NothingLost
    <3> QED BY <2>2, <3>1
  <2>3. CASE \E s \in Slot : Reading(s, x)
    <3>1. PICK s \in Slot : s = CHOOSE t \in {t \in Slot : Reading(t, x)} : TRUE
      BY <2>3
    <3>2. Reading(s, x)
      BY <2>3, <3>1
    <3>3. delivered[x] \o (read_buffer[x] \o buf[s]) = Taken(x)
      BY <3>2 DEF ReadInv, StreamInv, NothingLost
    <3>4. (delivered[x] \o read_buffer[x]) \o buf[s] = delivered[x] \o (read_buffer[x] \o buf[s])
      BY <2>1, Concat, Zenon
    <3> QED BY <3>1, <3>2, <3>3, <3>4
  <2> QED BY <2>2, <2>3
<1>2. Types /\ StreamInv /\ [Next]_vars => Types' /\ StreamInv'
  BY TypesStep, StreamStep DEF ReadInv, Types
<1>3. Types /\ StreamInv => ReadInv
  BY DEF ReadInv, Types
<1> QED BY <1>1, <1>2, <1>3, InitTypes, InitStreams, PTL DEF Spec

=============================================================================
