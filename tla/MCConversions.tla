---------------------------- MODULE MCConversions ----------------------------
(* The inputs of the conversions' run: every text of a few characters that    *)
(* the code tells apart, and every small value.                               *)
EXTENDS Conversions, FiniteSets

Texts(S, n) == BoundedSeq(S, n)
Base == Scheme \o Separator \o <<"h">>

UrlChars == {"/", "?", "#", "%", "2", " ", ":"}
MCUrlTexts == Texts(UrlChars, 4) \cup {Base \o <<"/">> \o t : t \in Texts(UrlChars \ {":"}, 5)}
                \cup {Base \o t : t \in Texts(UrlChars, 3)}
                \cup {s \o Separator \o t : s, t \in Texts(UrlChars \ {":"}, 2)}

Passwords == Texts({"@", ":", "/", "p"}, 3)
MCProxies ==
  [scheme : BOOLEAN, user : {<<>>, <<"t">>}, pass : Passwords, host : {<<"h">>, <<":", ":", "2">>},
   port : {<<>>, <<"8", "0">>}]

\* 65535, 65536, and 2^64 + 80, of 20 digits.
Edges == {<<"6", "5", "5", "3", "5">>, <<"6", "5", "5", "3", "6">>,
          <<"1", "8", "4", "4", "6", "7", "4", "4", "0", "7", "3", "7", "0", "9", "5", "5", "1", "6", "9", "6">>}
Ports == Edges \cup Texts({"0", "6", "9"}, 6) \cup {<<"0">> \o e : e \in Edges}
           \cup {[i \in 1..MaxDigits |-> "9"], [i \in 1..MaxDigits |-> IF i = MaxDigits THEN "8" ELSE "0"]}
MCProxyTexts ==
  {Written(p) : p \in MCProxies} \cup {<<"h", ":">> \o d : d \in Ports}
    \cup Texts({"h", ":", "/", "@", "[", "]", "8"}, 4)

\* One string has a byte 0 in it, and one is not UTF-8.
WithNul == "a0b"
Latin == "ff"
MCStrings == {"", "0", "1", "2", "3", "a", WithNul, Latin}
MCUtf8 == MCStrings \ {Latin}
MCCStr == [s \in MCStrings |-> IF s = WithNul THEN "a" ELSE s]
Sorted == <<"", "0", "1", "2", "3", "a", WithNul, Latin>>
MCAfter == [s \in MCStrings |-> CHOOSE n \in 0..7 : Sorted[8 - n] = s]
MCPrinted == [n \in 0..3 |-> Sorted[n + 2]]

\* Tables of at most two entries.
Table(entries) == <<"tbl", [k \in Keys |-> IF k \in DOMAIN entries THEN entries[k] ELSE Nil]>>
Object(entries) == <<"obj", [n \in Strings |-> IF n \in DOMAIN entries THEN entries[n] ELSE Absent]>>
SmallTables(V) ==
  {Table(entries) : entries \in UNION {[K -> V] : K \in {K \in SUBSET Keys : Cardinality(K) <= 2}}}
SomeScalars == {IntOf(3), StrOf("a"), StrOf(WithNul)}
Unspoken == {StrOf(Latin), <<"other", "inf">>}
MCLuaValues ==
  SomeScalars \cup Unspoken \cup {Opaque} \cup
  SmallTables({IntOf(3), StrOf(WithNul), Opaque, Table(<<>>), Table([k \in {IntOf(1)} |-> IntOf(0)]),
               Table([k \in {StrOf("1")} |-> IntOf(0)]), <<"other", "half">>} \cup Unspoken)

SmallDocuments(V) ==
  V \cup {<<"arr", a>> : a \in Texts(V, 2)}
    \cup {Object(o) : o \in UNION {[D -> V] : D \in SUBSET {"1", "a", WithNul}}}
MCJsonTexts ==
  SmallDocuments({Null, IntOf(4), <<"other", "half">>} \cup SomeScalars
              \cup {<<"arr", <<Null, IntOf(0)>>>>, Object([a |-> StrOf("0")])})

MCReturned == Texts({NilValue, True, False, IntOf(7), <<"tbl", <<>>>>}, 3)
=============================================================================
