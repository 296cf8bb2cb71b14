-------------------------------- MODULE Urls --------------------------------
(***************************************************************************)
(* What http_library.cc does to text before it calls the HTTP client:      *)
(* normalize_url and parse_proxy.  A text is a sequence of characters; the *)
(* ones here stand for the classes that the code tells apart.              *)
(***************************************************************************)
EXTENDS Integers, Sequences, SequencesExt

\* The first position from `from` on, and the last, of a member of S in u; 0 if
\* there is none.
FirstOf(u, S, from) == SelectInSubSeq(u, from, Len(u), LAMBDA c : c \in S)
LastOf(u, S) == SelectLastInSeq(u, LAMBDA c : c \in S)
From(u, i) == SubSeq(u, i, Len(u))
OrNone(i, none) == IF i = 0 THEN none ELSE i

\* Where the first "://" is, 0 if there is none.
Separator == <<":", "/", "/">>
SchemeEnd(u) ==
  LET at == {i \in 1..(Len(u) - 2) : SubSeq(u, i, i + 2) = Separator}
  IN IF at = {} THEN 0 ELSE CHOOSE i \in at : \A j \in at : i <= j

-----------------------------------------------------------------------------
(* normalize_url.                                                          *)

Hex == {"2", "0", "5"}
Legal == Hex \cup {"h", "t", "p", ":", "@", "/"}
IsLegal(c, in_query) == c \in Legal \/ (in_query /\ c = "?")
HexOf(c) == IF c = "%" THEN <<"2", "5">> ELSE <<"2", "0">>

\* Mutant: the bound of an escape is off by one.
IsEscapeShort(w, i) ==
  w[i] = "%" /\ i + 2 < Len(w) /\ w[i + 1] \in Hex /\ w[i + 2] \in Hex

\* Mutant: the digits of an escape are not looked at.
IsEscapeLoose(w, i) == w[i] = "%" /\ i + 2 <= Len(w)

IsEscape(w, i) ==
  w[i] = "%" /\ i + 2 <= Len(w) /\ w[i + 1] \in Hex /\ w[i + 2] \in Hex

\* append_url_component, for the component w: valid escapes stay, illegal bytes are
\* encoded.
EncodedChar(c, in_query) == IF IsLegal(c, in_query) THEN <<c>> ELSE <<"%">> \o HexOf(c)
Encode(w, in_query) ==
  LET from[i \in 1..(Len(w) + 3)] ==
        IF i > Len(w) THEN <<>>
        ELSE IF IsEscape(w, i) THEN SubSeq(w, i, i + 2) \o from[i + 3]
        ELSE EncodedChar(w[i], in_query) \o from[i + 1]
  IN from[1]

\* Where the authority begins: after the first "://", wherever that is.
Authority(u) == IF SchemeEnd(u) = 0 THEN 1 ELSE SchemeEnd(u) + 3

\* Path, query and fragment: the position of each, 0 if absent, and where path
\* and query end.
Parts(u) ==
  LET path  == FirstOf(u, {"/", "?", "#"}, Authority(u))
      frag  == IF path = 0 THEN 0 ELSE FirstOf(u, {"#"}, path)
      end   == OrNone(frag, Len(u) + 1) - 1
      query == IF path = 0 THEN 0 ELSE FirstOf(u, {"?"}, path)
  IN [path |-> path, query |-> IF query > end THEN 0 ELSE query, frag |-> frag, end |-> end]

Normalize(u) ==
  LET at == Parts(u) IN
  IF at.path = 0 THEN u
  ELSE SubSeq(u, 1, at.path - 1)
         \o Encode(SubSeq(u, at.path, OrNone(at.query, at.end + 1) - 1), FALSE)
         \o (IF at.query = 0 THEN <<>>
             ELSE <<"?">> \o Encode(SubSeq(u, at.query + 1, at.end), TRUE))
         \o (IF at.frag = 0 THEN <<>> ELSE From(u, at.frag))

-----------------------------------------------------------------------------
(* parse_proxy.                                                            *)

Scheme == <<"h", "t", "t", "p">>
Digits == <<"0", "1", "2", "3", "4", "5", "6", "7", "8", "9">>
IsDigit(c) == \E d \in DOMAIN Digits : Digits[d] = c
DigitValue(c) == (CHOOSE d \in DOMAIN Digits : Digits[d] = c) - 1

\* The port is summed in 64 bits: four limbs of 16 bits, the lowest first.
Limb == 65536
Shift(v, digit) ==
  LET a == v[1] * 10 + DigitValue(digit)
      b == v[2] * 10 + a \div Limb
      c == v[3] * 10 + b \div Limb
      e == v[4] * 10 + c \div Limb
  IN <<a % Limb, b % Limb, c % Limb, e % Limb>>
PortValue(digits) ==
  LET sum[n \in 0..Len(digits)] ==
        IF n = 0 THEN <<0, 0, 0, 0>> ELSE Shift(sum[n - 1], digits[n])
  IN sum[Len(digits)]

\* Mutant: the port is summed in 16 bits.
PortFitsNarrow(digits) == PortValue(digits)[1] # 0

PortFits(digits) == LET v == PortValue(digits) IN v[1] # 0 /\ Tail(v) = <<0, 0, 0>>

DefaultPort == <<"8", "0", "8", "0">>

\* Mutant: the userinfo ends at the first '@'.
UserinfoEndFirst(s) == FirstOf(s, {"@"}, 1)

UserinfoEnd(s) == LastOf(s, {"@"})

\* No scheme, or http; what follows it.
SchemeOK(s) == SchemeEnd(s) \in {0, Len(Scheme) + 1} /\ (SchemeEnd(s) # 0 => IsPrefix(Scheme, s))

\* user[:pass], split at the first colon.
Userinfo(s) ==
  LET colon == FirstOf(s, {":"}, 1) IN
  IF colon = 0 THEN [user |-> s, pass |-> <<>>]
  ELSE [user |-> SubSeq(s, 1, colon - 1), pass |-> From(s, colon + 1)]

\* host[:port], the host in brackets if it is an IPv6 address: where the host is
\* and what follows it.
InBrackets(s) == s # <<>> /\ s[1] = "["
Closing(s) == FirstOf(s, {"]"}, 1)
HostEnd(s) == OrNone(FirstOf(s, {":"}, 1), Len(s) + 1)
Host(s) == IF InBrackets(s) THEN SubSeq(s, 2, Closing(s) - 1) ELSE SubSeq(s, 1, HostEnd(s) - 1)
AfterHost(s) == IF InBrackets(s) THEN From(s, Closing(s) + 1) ELSE From(s, HostEnd(s))

HostOK(s) == (InBrackets(s) => Closing(s) # 0) /\ Host(s) # <<>> /\ ~Contains(Host(s), "/")

\* What follows the host: nothing, or a colon and a port in range.
PortOK(rest) ==
  rest = <<>> \/ (rest[1] = ":" /\ Len(rest) > 1 /\ (\A i \in 2..Len(rest) : IsDigit(rest[i]))
                  /\ PortFits(Tail(rest)))

Refused == [ok |-> FALSE]

ParseProxy(s) ==
  LET after == From(s, Authority(s))
      info  == Userinfo(SubSeq(after, 1, OrNone(UserinfoEnd(after), 1) - 1))
      at    == From(after, UserinfoEnd(after) + 1)
  IN IF s # <<>> /\ SchemeOK(s) /\ HostOK(at) /\ PortOK(AfterHost(at))
     THEN [ok |-> TRUE, user |-> info.user, pass |-> info.pass, host |-> Host(at),
           port |-> IF AfterHost(at) = <<>> THEN DefaultPort ELSE Tail(AfterHost(at))]
     ELSE Refused
=============================================================================
