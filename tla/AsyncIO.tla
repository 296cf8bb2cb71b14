------------------------------ MODULE AsyncIO ------------------------------
(***************************************************************************)
(* Asynchronous files and processes (async_io_library.cc, POSIX branches). *)
(* A stream is a sequence of bytes of which the io thread has taken a      *)
(* prefix; "lf" ends a line.  Each write puts one unit into a pipe.        *)
(*                                                                         *)
(* Descriptors have no close-on-exec flag, so a child keeps the program's  *)
(* ends of all pipes that were open when it was forked.                    *)
(***************************************************************************)
EXTENDS Calls

CONSTANTS
  Content,    \* stream -> what the file holds, or what the child prints
  PipeCap,    \* bound: units a pipe holds
  ByteCount   \* the n of read(n)

Stream == File \cup Proc
Reads == {"line", "all", "bytes"}

\* read(n) with n > 0; a stream holds finitely many units.
ASSUME AsyncIOAssumption ==
  /\ PipeCap \in Nat /\ ByteCount \in Nat \ {0}
  /\ \A x \in Stream : Content[x] \in Seq(STRING)

VARIABLES
  in_sd, out_sd,          \* processes and streams whose descriptor is open
  read_buffer, buf,       \* stream -> its buffer; slot -> its call's own buffer
  taken,                  \* stream -> how much the io thread has read of it
  made, fed,              \* process -> bytes printed; units waiting in its stdin
  pid,                    \* processes whose handle has pid > 0
  child, signalled,       \* process -> "none", "alive", "dead", "reaped"; signals sent
  in_held, out_held,      \* process -> ends of other processes' pipes it inherited
  delivered, lossy        \* history: bytes answered; streams with an abandoned read

sdVars == <<in_sd, out_sd>>
streamVars == <<read_buffer, buf, taken, delivered, lossy>>
childVars == <<made, fed, pid, child, signalled, in_held, out_held>>
aioVars == <<sdVars, streamVars, childVars>>

AsyncIOInit ==
  /\ in_sd = {} /\ out_sd = {} /\ pid = {} /\ lossy = {} /\ signalled = {}
  /\ read_buffer = [x \in Stream |-> <<>>] /\ delivered = [x \in Stream |-> <<>>]
  /\ buf = [s \in Slot |-> <<>>]
  /\ taken = [x \in Stream |-> 0]
  /\ made = [p \in Proc |-> 0] /\ fed = [p \in Proc |-> 0]
  /\ child = [p \in Proc |-> "none"]
  /\ in_held = [p \in Proc |-> {}] /\ out_held = [p \in Proc |-> {}]

Alive(p) == child[p] = "alive"
Reading(s, x) == call[s].on = x /\ call[s].op \in Reads /\ phase[s] = "io"

-----------------------------------------------------------------------------
(* Making and closing handles, on the executor.                            *)

Open(f) ==
  /\ Make(f) /\ out_sd' = out_sd \cup {f}
  /\ UNCHANGED <<in_sd, streamVars, childVars, callVars, closed, io_wait, worldVars>>

\* fork copies every open descriptor of the program into the child, which
\* closes only the two that belong to its own pipes.
Exec(p) ==
  /\ Make(p) /\ in_sd' = in_sd \cup {p} /\ out_sd' = out_sd \cup {p}
  /\ pid' = pid \cup {p} /\ child' = [child EXCEPT ![p] = "alive"]
  /\ in_held' = [in_held EXCEPT ![p] = in_sd]
  /\ out_held' = [out_held EXCEPT ![p] = out_sd \cap Proc]
  /\ UNCHANGED <<streamVars, made, fed, signalled, callVars, closed, io_wait, worldVars>>

CloseFile(f) ==
  /\ Usable(f) /\ ~lib_down
  /\ closed' = closed \cup {f} /\ out_sd' = out_sd \ {f}
  /\ read_buffer' = [read_buffer EXCEPT ![f] = <<>>]
  /\ UNCHANGED <<in_sd, buf, taken, delivered, lossy, childVars, callVars, life, io_wait, worldVars>>

\* Mutant: p:close leaves the child's stdin open.
ClosePipesKeepStdin(p) == out_sd' = out_sd \ {p} /\ UNCHANGED in_sd

ClosePipes(p) == in_sd' = in_sd \ {p} /\ out_sd' = out_sd \ {p}

\* p:close() gives up both pipes, then waits for the child's exit code.
CloseProc(s, p) ==
  /\ Usable(p) /\ Start(s, "wait", p, "io") /\ p \in pid
  /\ closed' = closed \cup {p} /\ ClosePipes(p)
  /\ read_buffer' = [read_buffer EXCEPT ![p] = <<>>]
  /\ UNCHANGED <<buf, taken, delivered, lossy, childVars, life, io_wait, worldVars>>

\* p:shutdown() closes the child's stdin; a write under way fails.
ShutdownStdin(p) ==
  /\ life[p] = "live" /\ p \in in_sd /\ ~lib_down /\ "eof" \in uses
  /\ in_sd' = in_sd \ {p}
  /\ UNCHANGED <<out_sd, streamVars, childVars, callVars, life, closed, io_wait, worldVars>>

Kill(p) ==
  /\ Usable(p) /\ p \in pid /\ Alive(p) /\ ~lib_down /\ "kill" \in uses
  /\ signalled' = signalled \cup {p}
  /\ UNCHANGED <<sdVars, streamVars, made, fed, pid, child, in_held, out_held,
                 callVars, life, closed, io_wait, worldVars>>

\* The child of a collected handle gets SIGTERM; waitpid(WNOHANG) reaps it only
\* if it has already ended.
Terminate(p) ==
  /\ pid' = pid \ {p}
  /\ signalled' = IF Alive(p) THEN signalled \cup {p} ELSE signalled
  /\ child' = [child EXCEPT ![p] = IF @ = "dead" THEN "reaped" ELSE @]
  /\ UNCHANGED <<made, fed, in_held, out_held>>

\* Mutant: the collector terminates whatever the handle still names.
CollectedTerminates(p) == p \in pid

\* closed.exchange(true) lets only the first of close and the collector act.
CollectedOpen(p) == p \notin closed /\ p \in pid

CollectStream(x) ==
  /\ Unused(x)
  /\ life' = [life EXCEPT ![x] = "gone"] /\ closed' = closed \cup {x}
  /\ in_sd' = in_sd \ {x} /\ out_sd' = out_sd \ {x}
  /\ IF x \in Proc /\ CollectedOpen(x) THEN Terminate(x) ELSE UNCHANGED childVars
  /\ UNCHANGED <<streamVars, callVars, io_wait, worldVars>>

-----------------------------------------------------------------------------
(* Reading and writing.                                                    *)

TakeLine(b) == LET i == CHOOSE i \in 1..Len(b) : b[i] = "lf" /\ \A j \in 1..(i - 1) : b[j] # "lf"
               IN [line |-> SubSeq(b, 1, i), rest |-> SubSeq(b, i + 1, Len(b))]
HasLine(b) == Contains(b, "lf")

\* Kept only for streams whose history is of interest.
History(x, bytes) ==
  delivered' = IF x \in lossy THEN delivered ELSE [delivered EXCEPT ![x] = @ \o bytes]

Answer(s, x, bytes) == PushResume(s) /\ History(x, bytes)

\* file_read and process_read.  What the buffer can answer is answered at once;
\* "*a" and read(n) start from the buffer and go on in a buffer of their own.
\* Two reads of a stream at once would race on the buffer: the scripts modelled
\* here read a stream from one coroutine at a time.
Read(s, x, op) ==
  /\ Usable(x) /\ x \in out_sd /\ \A t \in Slot : ~Reading(t, x)
  /\ CASE op = "line" /\ HasLine(read_buffer[x]) ->
            LET t == TakeLine(read_buffer[x]) IN
            /\ Start(s, op, x, "answered")
            /\ read_buffer' = [read_buffer EXCEPT ![x] = t.rest]
            /\ History(x, t.line)
            /\ UNCHANGED buf
       [] op = "bytes" /\ Len(read_buffer[x]) >= ByteCount ->
            /\ Start(s, op, x, "answered")
            /\ read_buffer' = [read_buffer EXCEPT ![x] = SubSeq(@, ByteCount + 1, Len(@))]
            /\ History(x, SubSeq(read_buffer[x], 1, ByteCount))
            /\ UNCHANGED buf
       [] op = "line" /\ ~HasLine(read_buffer[x]) ->
            Start(s, op, x, "io") /\ UNCHANGED <<read_buffer, buf, delivered>>
       [] OTHER ->
            /\ Start(s, op, x, "io")
            /\ buf' = [buf EXCEPT ![s] = read_buffer[x]]
            /\ read_buffer' = [read_buffer EXCEPT ![x] = <<>>]
            /\ UNCHANGED delivered
  /\ UNCHANGED <<sdVars, taken, lossy, childVars, life, closed, io_wait, worldVars>>

Available(x) == (IF x \in File THEN Len(Content[x]) ELSE made[x]) - taken[x]
AtEnd(x) == Available(x) = 0 /\ (x \in Proc => ~Alive(x))

\* Mutant: the line reader forgets what a chunk holds after the line.
LineArrivesLossy(s, x, bytes) ==
  LET all == read_buffer[x] \o bytes IN
  IF HasLine(all)
  THEN Answer(s, x, TakeLine(all).line) /\ read_buffer' = [read_buffer EXCEPT ![x] = <<>>]
  ELSE /\ read_buffer' = [read_buffer EXCEPT ![x] = all]
       /\ UNCHANGED <<callVars, delivered>>

\* The handler of do_read_line: a line is complete, or another read is started.
LineArrives(s, x, bytes) ==
  LET all == read_buffer[x] \o bytes IN
  IF HasLine(all)
  THEN Answer(s, x, TakeLine(all).line) /\ read_buffer' = [read_buffer EXCEPT ![x] = TakeLine(all).rest]
  ELSE /\ read_buffer' = [read_buffer EXCEPT ![x] = all]
       /\ UNCHANGED <<callVars, delivered>>

\* async_read goes on until the file or pipe ends, or n bytes are there.
BufferArrives(s, x, bytes) ==
  LET all == buf[s] \o bytes IN
  /\ IF call[s].op = "bytes" /\ Len(all) = ByteCount
     THEN Answer(s, x, all) /\ buf' = [buf EXCEPT ![s] = <<>>]
     ELSE buf' = [buf EXCEPT ![s] = all] /\ UNCHANGED <<callVars, delivered>>
  /\ UNCHANGED read_buffer

\* The io thread: some of the bytes that are there.
Arrive(s, n) ==
  LET x == call[s].on IN
  /\ io_wait = None /\ phase[s] = "io" /\ call[s].op \in Reads /\ x \notin closed
  /\ n <= Available(x) /\ (call[s].op = "bytes" => n <= ByteCount - Len(buf[s]))
  /\ taken' = [taken EXCEPT ![x] = @ + n]
  /\ LET bytes == SubSeq(Content[x], taken[x] + 1, taken[x] + n) IN
     IF call[s].op = "line" THEN LineArrives(s, x, bytes) /\ UNCHANGED buf
     ELSE BufferArrives(s, x, bytes)
  /\ UNCHANGED <<sdVars, lossy, childVars, life, closed, io_wait, worldVars>>

\* The end of the stream answers with what there is, or nil.
ReadEnds(s) ==
  LET x == call[s].on IN
  /\ io_wait = None /\ phase[s] = "io" /\ call[s].op \in Reads /\ x \notin closed /\ AtEnd(x)
  /\ Answer(s, x, IF call[s].op = "line" THEN read_buffer[x] ELSE buf[s])
  /\ read_buffer' = IF call[s].op = "line" THEN [read_buffer EXCEPT ![x] = <<>>] ELSE read_buffer
  /\ buf' = [buf EXCEPT ![s] = <<>>]
  /\ UNCHANGED <<sdVars, taken, lossy, childVars, life, closed, io_wait, worldVars>>

Write(s, x) ==
  /\ Usable(x) /\ (x \in Proc => x \in in_sd) /\ Start(s, "write", x, "io")
  /\ UNCHANGED <<aioVars, life, closed, io_wait, worldVars>>

\* A write ends when the pipe takes it, or with an error: nobody reads the pipe
\* any more, or p:shutdown closed it.
WriteEnds(s) ==
  LET x == call[s].on
      fits == x \in in_sd /\ Alive(x) /\ fed[x] < PipeCap IN
  /\ io_wait = None /\ IsCall(s, "write", "io") /\ x \notin closed
  /\ x \in Proc => (fits \/ x \notin in_sd \/ ~Alive(x))
  /\ PushResume(s)
  /\ fed' = IF x \in Proc /\ fits THEN [fed EXCEPT ![x] = @ + 1] ELSE fed
  /\ UNCHANGED <<sdVars, streamVars, made, pid, child, signalled, in_held, out_held,
                 life, closed, io_wait, worldVars>>

\* Every completion looks at closed first and then returns without an answer.
Aborted(s) ==
  /\ io_wait = None /\ phase[s] = "io" /\ call[s].op \in Reads \cup {"write"}
  /\ call[s].on \in closed /\ Silent(s)
  /\ buf' = [buf EXCEPT ![s] = <<>>]
  /\ UNCHANGED <<sdVars, read_buffer, taken, delivered, lossy, childVars,
                 life, closed, io_wait, worldVars>>

-----------------------------------------------------------------------------
(* Waiting for a child: waitpid on the io thread.                          *)

RunWait(s) ==
  /\ io_wait = None /\ IsCall(s, "wait", "io")
  /\ io_wait' = call[s].on /\ pid' = pid \ {call[s].on} /\ Advance(s, "busy")
  /\ UNCHANGED <<sdVars, streamVars, made, fed, child, signalled, in_held, out_held,
                 life, closed, worldVars>>

WaitDone(s) ==
  /\ IsCall(s, "wait", "busy") /\ child[call[s].on] = "dead"
  /\ child' = [child EXCEPT ![call[s].on] = "reaped"] /\ io_wait' = None /\ PushResume(s)
  /\ UNCHANGED <<sdVars, streamVars, made, fed, pid, signalled, in_held, out_held,
                 life, closed, worldVars>>

-----------------------------------------------------------------------------
(* The child: a program that prints its output and reads its input until   *)
(* the end.  It may also stop at any time.                                 *)

\* Somebody holds the other end of p's stdin, of p's stdout.
HasWriter(p) == p \in in_sd \/ \E q \in Proc : Alive(q) /\ p \in in_held[q]
HasReader(p) == p \in out_sd \/ \E q \in Proc : Alive(q) /\ p \in out_held[q]

ChildWrites(p) ==
  /\ Alive(p) /\ made[p] < Len(Content[p]) /\ HasReader(p) /\ made[p] - taken[p] < PipeCap
  /\ made' = [made EXCEPT ![p] = @ + 1]
  /\ UNCHANGED <<sdVars, streamVars, fed, pid, child, signalled, in_held, out_held,
                 callVars, life, closed, io_wait, worldVars>>

ChildReads(p) ==
  /\ Alive(p) /\ fed[p] > 0 /\ fed' = [fed EXCEPT ![p] = @ - 1]
  /\ UNCHANGED <<sdVars, streamVars, made, pid, child, signalled, in_held, out_held,
                 callVars, life, closed, io_wait, worldVars>>

ChildEnds(p) ==
  /\ Alive(p) /\ child' = [child EXCEPT ![p] = "dead"] /\ fed' = [fed EXCEPT ![p] = 0]
  /\ in_held' = [in_held EXCEPT ![p] = {}] /\ out_held' = [out_held EXCEPT ![p] = {}]
  /\ signalled' = signalled \ {p}
  /\ UNCHANGED <<sdVars, streamVars, made, pid, callVars, life, closed, io_wait, worldVars>>

\* It has to stop: a signal, or nothing more to read and to print.
ChildIsDone(p) ==
  \/ p \in signalled
  \/ ~HasWriter(p) /\ fed[p] = 0 /\ (made[p] = Len(Content[p]) \/ ~HasReader(p))

ChildRuns(p) == ChildWrites(p) \/ ChildReads(p) \/ (ChildIsDone(p) /\ ChildEnds(p))

-----------------------------------------------------------------------------
AsyncIOCalls ==
  \/ \E f \in File : Open(f) \/ CloseFile(f)
  \/ \E p \in Proc : Exec(p) \/ ShutdownStdin(p) \/ Kill(p)
  \/ \E x \in Stream : CollectStream(x)
  \/ \E s \in Slot :
       \/ \E x \in Stream : Write(s, x)
       \/ \E x \in Stream : \E op \in Reads : Read(s, x, op)
       \/ \E p \in Proc : CloseProc(s, p)

AsyncIOSteps ==
  \/ \E s \in Slot : \E n \in 1..3 : Arrive(s, n)
  \/ \E s \in Slot : ReadEnds(s) \/ WriteEnds(s) \/ Aborted(s) \/ RunWait(s) \/ WaitDone(s)
  \/ \E p \in Proc : ChildWrites(p) \/ ChildReads(p) \/ ChildEnds(p)

AsyncIOTypeOK ==
  /\ in_sd \subseteq Proc /\ out_sd \subseteq Stream /\ pid \subseteq Proc
  /\ signalled \subseteq Proc /\ lossy \subseteq Stream
  /\ child \in [Proc -> {"none", "alive", "dead", "reaped"}]
  /\ \A x \in Stream : taken[x] \in 0..Len(Content[x])
  /\ \A p \in Proc : made[p] \in taken[p]..Len(Content[p]) /\ fed[p] \in 0..PipeCap
=============================================================================
