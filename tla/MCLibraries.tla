---------------------------- MODULE MCLibraries ----------------------------
EXTENDS Libraries

CONSTANTS s1, s2, f1, p1, p2, w1, m1

\* One mix per question; together they use everything.
FileMix == {f1, "line", "all", "bytes", "write", "interrupt"}
ReadMix == {p1, "line", "all", "bytes"}
WaitMix == {p1, "line", "write", "wait", "kill", "eof", "interrupt", "shutdown"}
InheritMix == {p1, p2, "wait", "eof", "kill"}
SocketMix == {w1, "connect", "send", "bye", "interrupt"}
ClosingMix == {w1, f1, "connect", "bye", "shutdown"}
SharedMix == {p1, w1, "wait", "connect", "request"}
BodyMix == {m1, "await", "require", "request", "interrupt", "shutdown"}

MCMixes == {FileMix, ReadMix, WaitMix, InheritMix, SocketMix, ClosingMix, SharedMix, BodyMix}

\* Two lines, the last one open; a child prints one line.
MCContent == [x \in Stream |-> IF x \in File THEN <<"x", "lf", "x">> ELSE <<"x", "lf">>]

\* For the run about the client of a WebSocket.
MCSocketMixes == {{w1, "connect"}}
=============================================================================
