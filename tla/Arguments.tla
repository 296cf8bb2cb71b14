------------------------------- MODULE Arguments -------------------------------
(***************************************************************************)
(* What the runtime makes of arguments and results that hold no tables,    *)
(* one call at a time: the URL and the proxy of a request, and the values  *)
(* that a module returned to `require`.                                    *)
(***************************************************************************)
EXTENDS Urls

CONSTANTS UrlTexts,      \* the URLs given to http.request
          ProxyTexts,    \* the texts given as its proxy
          Proxies,       \* proxies as a script's author means them: records of
                         \* scheme, user, pass, host and port; <<>> for none
          Returned       \* the lists of values that a module's body returns

VARIABLES call,          \* what was called, and with what
          got            \* its result, <<>> before it

-----------------------------------------------------------------------------
(* A module's values on their way through RequireRun.                      *)

NilValue == <<"nil">>
True == <<"bool", TRUE>>
False == <<"bool", FALSE>>

\* ProcessRequireRun: a module that returned nothing, or nil first, gives true.
\* Mutant: only one that returned nothing.
ModuleValuesOfNone(values) == IF values = <<>> THEN <<True>> ELSE values

ModuleValues(values) == IF values = <<>> \/ values[1] = NilValue THEN <<True>> ELSE values

\* CacheModuleValues pushes them all over package.loaded and calls setfield(-2):
\* the last one is stored in the value below it, which is the table of loaded
\* modules only if there is one value, and has to be a table, since the call is
\* not protected.
CanStore(values) == Len(values) = 1 \/ values[Len(values) - 1][1] = "tbl"

\* package.loaded[name] after that.
Cached(values) == IF Len(values) = 1 THEN values[1] ELSE NilValue

\* require_continuation drops the name and returns the topmost value, and raises if
\* the first one is nil.
Answered(values) == IF values[1] = NilValue THEN NilValue ELSE values[Len(values)]

\* What two calls of require in a row give, and how often the body ran for them:
\* custom_require looks at package.loaded first.
RequireTwice(returned) ==
  LET values == ModuleValues(returned)
      again  == Cached(values) \in {NilValue, False}
  IN IF ~CanStore(values) THEN Refused
     ELSE [ok |-> TRUE, first |-> Answered(values),
           second |-> IF again THEN Answered(values) ELSE Cached(values),
           runs |-> IF again THEN 2 ELSE 1]

-----------------------------------------------------------------------------
PlainCalls ==
       [fn : {"url"}, arg : UrlTexts]
  \cup [fn : {"proxy"}, arg : ProxyTexts]
  \cup [fn : {"require"}, arg : Returned]

ArgumentsInit == call \in PlainCalls /\ got = <<>>

Called(fn) == call.fn = fn /\ got = <<>> /\ UNCHANGED call

\* http_request: the URL it hands to the client.
NormalizeUrl == Called("url") /\ got' = <<Normalize(call.arg)>>

\* http_request and ws_create: the proxy they hand to the client, or the error.
TakeProxy == Called("proxy") /\ got' = <<ParseProxy(call.arg)>>

\* Two requires of a module that returns these values.
ReturnModule == Called("require") /\ got' = <<RequireTwice(call.arg)>>

ArgumentsNext == NormalizeUrl \/ TakeProxy \/ ReturnModule

ArgumentsSpec == ArgumentsInit /\ [][ArgumentsNext]_<<call, got>>

Done(fn) == call.fn = fn /\ got # <<>>

-----------------------------------------------------------------------------
(* The reference definitions.                                              *)

HexDigits == Hex

\* Where an escape begins in u.
Escaped(u, i) == u[i] = "%" /\ i + 2 <= Len(u) /\ {u[i + 1], u[i + 2]} \subseteq HexDigits

\* What a server reads in u: an escape stands for its byte.
Byte(c) == IF c = "%" THEN <<"2", "5">> ELSE IF c = " " THEN <<"2", "0">> ELSE <<c>>
Bytes(u) ==
  LET from[i \in 1..(Len(u) + 3)] ==
        IF i > Len(u) THEN <<>>
        ELSE IF Escaped(u, i) THEN <<<<u[i + 1], u[i + 2]>>>> \o from[i + 3]
        ELSE <<Byte(u[i])>> \o from[i + 1]
  IN from[1]

\* The part of u that goes on the wire.
UpToFragment(u) == SubSeq(u, 1, OrNone(FirstOf(u, {"#"}, 1), Len(u) + 1) - 1)

\* The rest of u; and whether normalize_url, which looks for the first "://" in all
\* of u, takes a part of that rest for the authority.
Fragment(u) == From(u, Len(UpToFragment(u)) + 1)
SchemeInFragment(u) == Authority(u) > Len(UpToFragment(u)) + 1

\* Every byte after the authority is one that the client's parser accepts.
WellFormed(u) == \A i \in DOMAIN u : u[i] # " " /\ (u[i] = "%" => Escaped(u, i))

\* How a proxy is written.
Brackets(host) == IF \E i \in DOMAIN host : host[i] = ":" THEN <<"[">> \o host \o <<"]">> ELSE host
Written(p) ==
  (IF p.scheme THEN Scheme \o Separator ELSE <<>>)
    \o (IF p.user = <<>> /\ p.pass = <<>> THEN <<>>
        ELSE p.user \o (IF p.pass = <<>> THEN <<>> ELSE <<":">> \o p.pass) \o <<"@">>)
    \o Brackets(p.host)
    \o (IF p.port = <<>> THEN <<>> ELSE <<":">> \o p.port)

\* The value of a port of at most MaxDigits digits, and something larger than
\* MaxPort for all those above it.
MaxDigits == 19
MaxPort == 65535
Capped(digits) ==
  LET sum[n \in 0..Len(digits)] ==
        IF n = 0 THEN 0
        ELSE IF sum[n - 1] > MaxPort THEN sum[n - 1]
        ELSE sum[n - 1] * 10 + DigitValue(digits[n])
  IN sum[Len(digits)]

\* What the texts are made of, and how a proxy may be meant: no character of a part
\* is the one that ends it, the last '@' ends the userinfo, and the host is there.
Char == Legal \cup {"?", "#", "%", " "}
Misses(part, chars) == \A i \in DOMAIN part : part[i] \notin chars
Meant(p) ==
  /\ p.scheme \in BOOLEAN /\ {p.user, p.pass, p.host, p.port} \subseteq Seq(STRING)
  /\ Misses(p.user, {":"})
  /\ Misses(p.host, {"@", "/", "[", "]"}) /\ p.host # <<>>
  /\ \/ p.port = <<>>
     \/ /\ Len(p.port) \in 1..MaxDigits /\ \A i \in DOMAIN p.port : IsDigit(p.port[i])
        /\ Capped(p.port) \in 1..MaxPort

ASSUME ArgumentsAssumption ==
  /\ UrlTexts \subseteq Seq(Char) /\ ProxyTexts \subseteq Seq(STRING)
  /\ \A p \in Proxies : Meant(p)
  /\ \A values \in Returned : values \in Seq(Range(values))

-----------------------------------------------------------------------------
(* Properties.                                                             *)

\* A normalized URL means what the script wrote: byte for byte the server reads
\* the same text, no escape is encoded twice, the fragment is as it was unless the
\* first "://" is in it; and normalizing it again changes nothing
\* (http_library.cc:163-174).
UrlMeansTheSame ==
  Done("url") =>
    /\ Bytes(UpToFragment(got[1])) = Bytes(UpToFragment(call.arg))
    /\ ~SchemeInFragment(call.arg) => Fragment(got[1]) = Fragment(call.arg)
    /\ Normalize(got[1]) = got[1]

\* Path and query of a normalized URL hold nothing the client's parser refuses,
\* whatever the script put there: the local 404 that normalize_url is there to
\* prevent (http_library.cc:163-174).  The authority is the client's to judge; in a
\* text without a scheme it is what follows a "://" in the query.
UrlIsAccepted ==
  Done("url") =>
    LET wire  == UpToFragment(got[1])
        path  == FirstOf(wire, {"/", "?"}, Authority(call.arg))
    IN path # 0 => WellFormed(From(wire, path))

\* A proxy is read as it was meant, whatever its password contains: the userinfo
\* ends at the last '@', the password begins after the first colon, and a
\* bracketed host keeps its colons.  Without a scheme a "://" in the password is
\* taken for one.
ProxyReadsBack ==
  Done("proxy") =>
    \A p \in {p \in Proxies : Written(p) = call.arg} :
      (p.scheme \/ SchemeEnd(call.arg) = 0) =>
        got[1] = [ok |-> TRUE, user |-> p.user, pass |-> p.pass, host |-> p.host,
                  port |-> IF p.port = <<>> THEN DefaultPort ELSE p.port]

\* A port of up to 19 digits is taken exactly if its value is in 1..MaxPort; from 20
\* digits on the 64-bit sum wraps, and 2^64 + 80 passes for 80.
PortInRange ==
  Done("proxy") /\ IsPrefix(<<"h", ":">>, call.arg) =>
    LET port == From(call.arg, 3)
    IN Len(port) \in 1..MaxDigits /\ (\A i \in DOMAIN port : IsDigit(port[i])) =>
         (got[1].ok <=> Capped(port) \in 1..MaxPort)

\* A module that returns one value or none is run once for all its requirers, and
\* each of them gets that value, or true for nil and for none; only false is not
\* kept.  (One that returns more is run by every require, or ends the process.)
ModuleReturned ==
  Done("require") /\ Len(call.arg) < 2 =>
    LET value == IF call.arg \in {<<>>, <<NilValue>>} THEN True ELSE call.arg[1]
    IN got[1] = [ok |-> TRUE, first |-> value, second |-> value,
                 runs |-> IF value = False THEN 2 ELSE 1]
=============================================================================
