------------------------------- MODULE UrlProofs -------------------------------
(***************************************************************************)
(* What normalize_url promises, proved for URLs of every length.           *)
(***************************************************************************)
EXTENDS ArgumentProofs

Url == Seq(Char)

-----------------------------------------------------------------------------
(* Walks over a text, escape by escape or character by character           *)

\* What holds at a position once it holds at all later ones holds everywhere.
LEMMA Downwards ==
  ASSUME NEW N \in Nat, NEW Good,
         \A i \in 1..(N + 3) : i > N => i \in Good,
         \A i \in 1..N : (\A j \in (i + 1)..(N + 3) : j \in Good) => i \in Good
  PROVE  \A i \in 1..(N + 3) : i \in Good
<1> DEFINE Bad == {k \in 0..(N + 2) : N + 3 - k \notin Good}
<1>1. ASSUME Bad # {} PROVE FALSE
  <2>1. Bad \subseteq Nat
    OBVIOUS
  <2>2. PICK k \in Bad : \A m \in Bad : k <= m
    <3> HIDE DEF Bad
    <3> QED BY <1>1, <2>1, SmallestMember
  <2> DEFINE i == N + 3 - k
  <2>3. i \in 1..(N + 3) /\ i \notin Good
    BY <2>2
  <2>4. i \in 1..N
    BY <2>3
  <2>5. ASSUME NEW j \in (i + 1)..(N + 3) PROVE j \in Good
    <3>1. N + 3 - j \in 0..(N + 2) /\ ~(k <= N + 3 - j) /\ N + 3 - (N + 3 - j) = j
      BY <2>2, <2>3
    <3>2. N + 3 - j \notin Bad
      <4> HIDE DEF Bad, i
      <4> QED BY <2>2, <3>1, Zenon
    <3> QED BY <3>1, <3>2
  <2> HIDE DEF i, Bad
  <2> QED BY <2>3, <2>4, <2>5
<1>2. ASSUME NEW i \in 1..(N + 3) PROVE i \in Good
  <2>1. N + 3 - i \in 0..(N + 2) /\ N + 3 - (N + 3 - i) = i
    OBVIOUS
  <2>2. N + 3 - i \notin Bad
    BY <1>1
  <2> QED BY <2>1, <2>2
<1> QED BY <1>2

\* Where a walk goes from i, and what it makes of the tokens it meets.
NextAfter(w, i) == IF IsEscape(w, i) THEN i + 3 ELSE i + 1
Goes(f, w, tok, i) == f[i] = IF i > Len(w) THEN <<>> ELSE tok[i] \o f[NextAfter(w, i)]
Walk(f, w, tok) == \A i \in 1..(Len(w) + 3) : Goes(f, w, tok, i)

LEMMA NextIsLater ==
  ASSUME NEW w \in Url, NEW i \in 1..Len(w)
  PROVE  /\ Len(w) \in Nat /\ NextAfter(w, i) \in (i + 1)..(Len(w) + 3)
         /\ NextAfter(w, i) \in 1..(Len(w) + 3)
BY DEF NextAfter, Url

LEMMA WalksAgree ==
  ASSUME NEW w \in Url, NEW tok, NEW f, Walk(f, w, tok), NEW g, Walk(g, w, tok)
  PROVE  \A i \in 1..(Len(w) + 3) : f[i] = g[i]
<1> DEFINE N == Len(w)
           Good == {i \in 1..(N + 3) : f[i] = g[i]}
<1>1. N \in Nat
  BY DEF Url
<1>2. ASSUME NEW i \in 1..(N + 3), i > N PROVE i \in Good
  BY <1>2 DEF Walk, Goes
<1>3. ASSUME NEW i \in 1..N, \A j \in (i + 1)..(N + 3) : j \in Good PROVE i \in Good
  <2>1. PICK j \in (i + 1)..(N + 3) : j = NextAfter(w, i)
    BY NextIsLater
  <2>2. f[j] = g[j] /\ i \in 1..(N + 3) /\ ~(i > N)
    BY <1>1, <1>3
  <2>3. Goes(f, w, tok, i) /\ Goes(g, w, tok, i)
    BY <2>2, Zenon DEF Walk
  <2>4. f[i] = g[i]
    BY <2>1, <2>2, <2>3, Zenon DEF Goes
  <2> QED BY <2>2, <2>4
<1>4. \A i \in 1..(N + 3) : i \in Good
  <2> HIDE DEF N, Good
  <2> QED BY <1>1, <1>2, <1>3, Downwards
<1> QED BY <1>4

LEMMA WalkExists ==
  ASSUME NEW S, NEW w \in Url, NEW tok \in [1..Len(w) -> Seq(S)]
  PROVE  \E f \in [1..(Len(w) + 3) -> Seq(S)] : Walk(f, w, tok)
<1> DEFINE N == Len(w)
           Good == {i \in 1..(N + 3) : \E f \in [i..(N + 3) -> Seq(S)] :
                                          \A j \in i..(N + 3) : Goes(f, w, tok, j)}
<1>1. N \in Nat
  BY DEF Url
<1>2. ASSUME NEW i \in 1..(N + 3), i > N PROVE i \in Good
  <2> DEFINE f == [j \in i..(N + 3) |-> <<>>]
  <2>1. f \in [i..(N + 3) -> Seq(S)]
    OBVIOUS
  <2>2. \A j \in i..(N + 3) : f[j] = <<>> /\ j > Len(w)
    BY <1>1, <1>2
  <2> HIDE DEF f
  <2>3. \A j \in i..(N + 3) : Goes(f, w, tok, j)
    BY <2>2, Zenon DEF Goes
  <2> QED BY <2>1, <2>3, Zenon
<1>3. ASSUME NEW i \in 1..N, \A j \in (i + 1)..(N + 3) : j \in Good PROVE i \in Good
  <2>1. i + 1 \in (i + 1)..(N + 3) /\ i \in 1..(N + 3)
    BY <1>1
  <2>2. PICK f \in [(i + 1)..(N + 3) -> Seq(S)] : \A j \in (i + 1)..(N + 3) : Goes(f, w, tok, j)
    BY <1>3, <2>1, Zenon
  <2>3. PICK n \in (i + 1)..(N + 3) : n = NextAfter(w, i)
    BY NextIsLater
  <2>4. PICK t \in Seq(S) : t = tok[i] \o f[n]
    BY Cat
  <2> DEFINE g == [j \in i..(N + 3) |-> IF j = i THEN t ELSE f[j]]
  <2>5. /\ g \in [i..(N + 3) -> Seq(S)] /\ g[i] = t
        /\ \A j \in (i + 1)..(N + 3) : g[j] = f[j]
    BY <1>1
  <2> HIDE DEF g
  <2>6. Goes(g, w, tok, i)
    <3>1. ~(i > Len(w)) /\ g[n] = f[n]
      BY <1>1, <2>5
    <3> QED BY <2>3, <2>4, <2>5, <3>1, Zenon DEF Goes
  <2>7. ASSUME NEW j \in (i + 1)..(N + 3) PROVE Goes(g, w, tok, j)
    <3>1. Goes(f, w, tok, j) /\ g[j] = f[j]
      BY <2>2, <2>5, Zenon
    <3>2. CASE j > Len(w)
      BY <3>1, <3>2, Zenon DEF Goes
    <3>3. CASE ~(j > Len(w))
      <4>1. NextAfter(w, j) \in (i + 1)..(N + 3)
        BY <1>1, <3>3, NextIsLater
      <4> QED BY <2>5, <3>1, <3>3, <4>1, Zenon DEF Goes
    <3> QED BY <3>2, <3>3
  <2>8. \A j \in i..(N + 3) : Goes(g, w, tok, j)
    <3>1. \A j \in i..(N + 3) : j = i \/ j \in (i + 1)..(N + 3)
      BY <1>1
    <3> QED BY <2>6, <2>7, <3>1, Zenon
  <2> QED BY <2>1, <2>5, <2>8, Zenon
<1>4. \A i \in 1..(N + 3) : i \in Good
  <2> HIDE DEF N, Good
  <2> QED BY <1>1, <1>2, <1>3, Downwards
<1>5. 1 \in Good
  BY <1>1, <1>4
<1> QED BY <1>5, Zenon DEF Walk

\* A recursive function over the text is the walk that exists.
LEMMA WalkIsChosen ==
  ASSUME NEW S, NEW w \in Url, NEW tok \in [1..Len(w) -> Seq(S)], NEW f,
         f = CHOOSE g : g = [i \in 1..(Len(w) + 3) |->
                               IF i > Len(w) THEN <<>> ELSE tok[i] \o g[NextAfter(w, i)]]
  PROVE  f \in [1..(Len(w) + 3) -> Seq(S)] /\ Walk(f, w, tok)
<1> DEFINE D == 1..(Len(w) + 3)
           Body(g) == [i \in D |-> IF i > Len(w) THEN <<>> ELSE tok[i] \o g[NextAfter(w, i)]]
<1>1. PICK h \in [D -> Seq(S)] : Walk(h, w, tok)
  BY WalkExists
<1>2. h = Body(h)
  <2>1. \A i \in D : h[i] = Body(h)[i]
    BY <1>1, Zenon DEF Walk, Goes
  <2>2. h = [i \in D |-> h[i]] /\ Body(h) = [i \in D |-> Body(h)[i]]
    <3> HIDE DEF D
    <3> QED BY <1>1, Zenon
  <2> HIDE DEF Body
  <2> QED BY <2>1, <2>2, Zenon
<1>3. f = Body(f)
  <2>1. f = CHOOSE g : g = Body(g)
    BY Zenon
  <2> HIDE DEF Body
  <2> QED BY <1>2, <2>1
<1>4. Walk(f, w, tok)
  BY <1>3, Zenon DEF Walk, Goes
<1>5. \A i \in D : f[i] = h[i]
  BY <1>1, <1>4, WalksAgree
<1>6. f = h
  <2> DEFINE Next(g, i) == IF i > Len(w) THEN <<>> ELSE tok[i] \o g[NextAfter(w, i)]
  <2>1. \A i \in D : Next(f, i) = Next(h, i)
    <3> TAKE i \in D
    <3>1. CASE i > Len(w)
      BY <3>1, Zenon
    <3>2. CASE ~(i > Len(w))
      <4>1. NextAfter(w, i) \in D
        BY <3>2, NextIsLater DEF Url
      <4>2. f[NextAfter(w, i)] = h[NextAfter(w, i)]
        BY <1>5, <4>1, Zenon
      <4>3. Next(f, i) = tok[i] \o f[NextAfter(w, i)] /\ Next(h, i) = tok[i] \o h[NextAfter(w, i)]
        BY <3>2, Zenon
      <4> HIDE DEF Next
      <4> QED BY <4>2, <4>3
    <3> QED BY <3>1, <3>2
  <2>2. Body(f) = [i \in D |-> Next(f, i)] /\ Body(h) = [i \in D |-> Next(h, i)]
    BY Zenon
  <2> HIDE DEF D, Next, Body
  <2> QED BY <1>2, <1>3, <2>1, <2>2, Zenon
<1> QED BY <1>1, <1>4, <1>6

\* The tokens of append_url_component, and those of a reader of its result.
EncodedToken(w, i, q) == IF IsEscape(w, i) THEN SubSeq(w, i, i + 2) ELSE EncodedChar(w[i], q)
ByteToken(w, i) == IF IsEscape(w, i) THEN <<<<w[i + 1], w[i + 2]>>>> ELSE <<Byte(w[i])>>
EncodedTokens(w, q) == [i \in 1..Len(w) |-> EncodedToken(w, i, q)]
ByteTokens(w) == [i \in 1..Len(w) |-> ByteToken(w, i)]

LEMMA CharsAreThere ==
  /\ "%" \in Char /\ " " \in Char /\ "?" \in Char /\ "#" \in Char
  /\ "2" \in Char /\ "0" \in Char /\ "5" \in Char /\ "/" \in Char /\ ":" \in Char
BY DEF Char, Legal, Hex

LEMMA Two ==
  ASSUME NEW S, NEW a \in S, NEW b \in S
  PROVE  <<a, b>> \in Seq(S) /\ Len(<<a, b>>) = 2 /\ <<a, b>>[1] = a /\ <<a, b>>[2] = b
OBVIOUS

LEMMA HexOfIs ==
  ASSUME NEW c
  PROVE  \E a \in Char, b \in Char : HexOf(c) = <<a, b>> /\ {a, b} \subseteq Hex
<1>1. PICK z \in Char, t \in Char, f \in Char : z = "0" /\ t = "2" /\ f = "5"
  BY CharsAreThere, Zenon
<1>2. {z, t, f} \subseteq Hex
  BY <1>1 DEF Hex
<1>3. HexOf(c) = <<t, f>> \/ HexOf(c) = <<t, z>>
  BY <1>1, Zenon DEF HexOf
<1> QED BY <1>2, <1>3

LEMMA EncodedTokensAre ==
  ASSUME NEW w \in Url, NEW q \in BOOLEAN
  PROVE  EncodedTokens(w, q) \in [1..Len(w) -> Url]
<1>1. ASSUME NEW i \in 1..Len(w) PROVE EncodedToken(w, i, q) \in Url
  <2>1. w[i] \in Char /\ Len(w) \in Nat
    BY DEF Url
  <2>2. CASE IsEscape(w, i)
    <3>1. SubSeq(w, i, i + 2) \in Url
      BY <2>1, <2>2, Part DEF IsEscape, Url
    <3> QED BY <2>2, <3>1, Zenon DEF EncodedToken
  <2>3. CASE ~IsEscape(w, i)
    <3>1. <<w[i]>> \in Url
      BY <2>1, One, Zenon DEF Url
    <3>2. <<"%">> \o HexOf(w[i]) \in Url
      <4>1. PICK c \in Char : c = "%"
        BY CharsAreThere, Zenon
      <4>2. HexOf(w[i]) \in Seq(Char)
        <5>1. PICK a \in Char, b \in Char : HexOf(w[i]) = <<a, b>>
          BY HexOfIs, Zenon
        <5> QED BY <5>1
      <4>3. <<c>> \o HexOf(w[i]) \in Seq(Char)
        BY <4>2, OneBefore, Zenon
      <4> QED BY <4>1, <4>3, Zenon DEF Url
    <3>3. EncodedChar(w[i], q) \in Url
      BY <3>1, <3>2, Zenon DEF EncodedChar
    <3> QED BY <2>3, <3>3, Zenon DEF EncodedToken
  <2> QED BY <2>2, <2>3
<1> QED BY <1>1, Zenon DEF EncodedTokens

LEMMA ByteTokensAre ==
  ASSUME NEW w \in Url
  PROVE  ByteTokens(w) \in [1..Len(w) -> Seq(Url)]
<1>1. ASSUME NEW i \in 1..Len(w) PROVE ByteToken(w, i) \in Seq(Url)
  <2>1. w[i] \in Char /\ Len(w) \in Nat
    BY DEF Url
  <2>2. CASE IsEscape(w, i)
    <3>1. w[i + 1] \in Char /\ w[i + 2] \in Char
      BY <2>1, <2>2 DEF IsEscape, Url
    <3>2. <<w[i + 1], w[i + 2]>> \in Url
      BY <3>1 DEF Url
    <3>3. <<<<w[i + 1], w[i + 2]>>>> \in Seq(Url)
      BY <3>2, One, Zenon
    <3> QED BY <2>2, <3>3, Zenon DEF ByteToken
  <2>3. CASE ~IsEscape(w, i)
    <3>1. Byte(w[i]) \in Url
      <4>1. PICK z \in Char, t \in Char, f \in Char : z = "0" /\ t = "2" /\ f = "5"
        BY CharsAreThere, Zenon
      <4>2. <<t, f>> \in Url /\ <<t, z>> \in Url /\ <<w[i]>> \in Url
        BY <2>1, One, Two, Zenon DEF Url
      <4> QED BY <4>1, <4>2, Zenon DEF Byte
    <3>2. <<Byte(w[i])>> \in Seq(Url)
      BY <3>1, One, Zenon
    <3> QED BY <2>3, <3>2, Zenon DEF ByteToken
  <2> QED BY <2>2, <2>3
<1> QED BY <1>1, Zenon DEF ByteTokens

LEMMA EncodeIs ==
  ASSUME NEW w \in Url, NEW q \in BOOLEAN
  PROVE  \E f \in [1..(Len(w) + 3) -> Url] : Encode(w, q) = f[1] /\ Walk(f, w, EncodedTokens(w, q))
<1> DEFINE D == 1..(Len(w) + 3)
           Body(g) == [i \in D |->
                         IF i > Len(w) THEN <<>>
                         ELSE IF IsEscape(w, i) THEN SubSeq(w, i, i + 2) \o g[i + 3]
                         ELSE EncodedChar(w[i], q) \o g[i + 1]]
           Step(g) == [i \in D |->
                         IF i > Len(w) THEN <<>> ELSE EncodedTokens(w, q)[i] \o g[NextAfter(w, i)]]
           from == CHOOSE g : g = Body(g)
<1>1. ASSUME NEW g PROVE Body(g) = Step(g)
  <2> DEFINE B(i) == IF i > Len(w) THEN <<>>
                     ELSE IF IsEscape(w, i) THEN SubSeq(w, i, i + 2) \o g[i + 3]
                     ELSE EncodedChar(w[i], q) \o g[i + 1]
             C(i) == IF i > Len(w) THEN <<>> ELSE EncodedTokens(w, q)[i] \o g[NextAfter(w, i)]
  <2>1. ASSUME NEW i \in D PROVE B(i) = C(i)
    <3>1. CASE i > Len(w)
      BY <3>1, Zenon
    <3>2. CASE ~(i > Len(w))
      <4>1. i \in 1..Len(w)
        BY <3>2 DEF Url
      <4>2. EncodedTokens(w, q)[i] = EncodedToken(w, i, q)
        BY <4>1, Zenon DEF EncodedTokens
      <4> QED BY <3>2, <4>2, Zenon DEF EncodedToken, NextAfter
    <3> QED BY <3>1, <3>2
  <2>2. Body(g) = [i \in D |-> B(i)] /\ Step(g) = [i \in D |-> C(i)]
    BY Zenon
  <2> HIDE DEF D, B, C, Body, Step
  <2> QED BY <2>1, <2>2, Zenon
<1>2. from = CHOOSE g : g = Step(g)
  <2>1. \A g : g = Body(g) <=> g = Step(g)
    <3> HIDE DEF Body, Step
    <3> QED BY <1>1, Zenon
  <2> HIDE DEF Body, Step
  <2> QED BY <2>1, Zenon DEF from
<1>3. PICK f : f = from
  OBVIOUS
<1>4. f \in [D -> Url] /\ Walk(f, w, EncodedTokens(w, q))
  <2>1. EncodedTokens(w, q) \in [1..Len(w) -> Seq(Char)]
    BY EncodedTokensAre DEF Url
  <2>2. f = CHOOSE g : g = Step(g)
    BY <1>2, <1>3, Zenon
  <2> QED BY <2>1, <2>2, WalkIsChosen, Zenon DEF Url
<1>5. Encode(w, q) = from[1]
  BY Zenon DEF Encode
<1> QED BY <1>3, <1>4, <1>5, Zenon

LEMMA BytesIs ==
  ASSUME NEW w \in Url
  PROVE  \E f \in [1..(Len(w) + 3) -> Seq(Url)] : Bytes(w) = f[1] /\ Walk(f, w, ByteTokens(w))
<1> DEFINE D == 1..(Len(w) + 3)
           Body(g) == [i \in D |->
                         IF i > Len(w) THEN <<>>
                         ELSE IF Escaped(w, i) THEN <<<<w[i + 1], w[i + 2]>>>> \o g[i + 3]
                         ELSE <<Byte(w[i])>> \o g[i + 1]]
           Step(g) == [i \in D |->
                         IF i > Len(w) THEN <<>> ELSE ByteTokens(w)[i] \o g[NextAfter(w, i)]]
           from == CHOOSE g : g = Body(g)
<1>1. ASSUME NEW g PROVE Body(g) = Step(g)
  <2> DEFINE B(i) == IF i > Len(w) THEN <<>>
                     ELSE IF Escaped(w, i) THEN <<<<w[i + 1], w[i + 2]>>>> \o g[i + 3]
                     ELSE <<Byte(w[i])>> \o g[i + 1]
             C(i) == IF i > Len(w) THEN <<>> ELSE ByteTokens(w)[i] \o g[NextAfter(w, i)]
  <2>1. ASSUME NEW i \in D PROVE B(i) = C(i)
    <3>1. CASE i > Len(w)
      BY <3>1, Zenon
    <3>2. CASE ~(i > Len(w))
      <4>1. i \in 1..Len(w)
        BY <3>2 DEF Url
      <4>2. ByteTokens(w)[i] = ByteToken(w, i)
        BY <4>1, Zenon DEF ByteTokens
      <4>3. Escaped(w, i) <=> IsEscape(w, i)
        BY DEF Escaped, IsEscape, HexDigits
      <4> QED BY <3>2, <4>2, <4>3, Zenon DEF ByteToken, NextAfter
    <3> QED BY <3>1, <3>2
  <2>2. Body(g) = [i \in D |-> B(i)] /\ Step(g) = [i \in D |-> C(i)]
    BY Zenon
  <2> HIDE DEF D, B, C, Body, Step
  <2> QED BY <2>1, <2>2, Zenon
<1>2. from = CHOOSE g : g = Step(g)
  <2>1. \A g : g = Body(g) <=> g = Step(g)
    <3> HIDE DEF Body, Step
    <3> QED BY <1>1, Zenon
  <2> HIDE DEF Body, Step
  <2> QED BY <2>1, Zenon DEF from
<1>3. PICK f : f = from
  OBVIOUS
<1>4. f \in [D -> Seq(Url)] /\ Walk(f, w, ByteTokens(w))
  <2>1. f = CHOOSE g : g = Step(g)
    BY <1>2, <1>3, Zenon
  <2> QED BY <2>1, ByteTokensAre, WalkIsChosen, Zenon
<1>5. Bytes(w) = from[1]
  BY Zenon DEF Bytes
<1> QED BY <1>3, <1>4, <1>5, Zenon

-----------------------------------------------------------------------------
(* What append_url_component makes                                         *)

\* Nothing but legal characters and escapes.
IsClean(u, q, i) == IsEscape(u, i) \/ IsLegal(u[i], q)
Clean(u, q) == \A i \in 1..Len(u) : IsClean(u, q, i)

\* Escapes in a text put together; b begins in a way that no escape reaches into it.
Apart(b) == b = <<>> \/ b[1] \notin Hex

LEMMA CatEscapes ==
  ASSUME NEW a \in Url, NEW b \in Url
  PROVE  /\ \A i \in 1..Len(a) : IsEscape(a, i) => IsEscape(a \o b, i)
         /\ \A i \in 1..Len(b) : IsEscape(a \o b, Len(a) + i) <=> IsEscape(b, i)
         /\ Apart(b) => \A i \in 1..Len(a) : IsEscape(a \o b, i) => IsEscape(a, i)
<1>1. PICK u : u = a \o b
  OBVIOUS
<1>2. /\ u \in Url /\ Len(a) \in Nat /\ Len(b) \in Nat /\ Len(u) = Len(a) + Len(b)
      /\ \A i \in 1..Len(a) : u[i] = a[i]
      /\ \A i \in 1..Len(b) : u[Len(a) + i] = b[i]
  BY <1>1, Cat DEF Url
<1>3. ASSUME NEW i \in 1..Len(a), IsEscape(a, i) PROVE IsEscape(u, i)
  <2>1. i + 2 <= Len(a) /\ i + 1 \in 1..Len(a) /\ i + 2 \in 1..Len(a) /\ i + 2 <= Len(u)
    BY <1>2, <1>3 DEF IsEscape
  <2>2. u[i] = a[i] /\ u[i + 1] = a[i + 1] /\ u[i + 2] = a[i + 2]
    BY <1>2, <2>1
  <2> QED BY <1>3, <2>1, <2>2, Zenon DEF IsEscape
<1>4. ASSUME NEW i \in 1..Len(b) PROVE IsEscape(u, Len(a) + i) <=> IsEscape(b, i)
  <2>1. u[Len(a) + i] = b[i] /\ (Len(a) + i + 2 <= Len(u) <=> i + 2 <= Len(b))
    BY <1>2
  <2>2. CASE i + 2 <= Len(b)
    <3>1. /\ i + 1 \in 1..Len(b) /\ i + 2 \in 1..Len(b)
          /\ Len(a) + i + 1 = Len(a) + (i + 1) /\ Len(a) + i + 2 = Len(a) + (i + 2)
      BY <1>2, <2>2
    <3>2. u[Len(a) + i + 1] = b[i + 1] /\ u[Len(a) + i + 2] = b[i + 2]
      BY <1>2, <3>1
    <3> QED BY <2>1, <2>2, <3>2, Zenon DEF IsEscape
  <2>3. CASE ~(i + 2 <= Len(b))
    BY <2>1, <2>3, Zenon DEF IsEscape
  <2> QED BY <2>2, <2>3
<1>5. ASSUME Apart(b), NEW i \in 1..Len(a), IsEscape(u, i) PROVE IsEscape(a, i)
  <2>1. i + 2 <= Len(a)
    <3>1. CASE b = <<>>
      BY <1>2, <1>5, <3>1 DEF IsEscape
    <3>2. CASE b # <<>> /\ b[1] \notin Hex
      <4>1. 1 \in 1..Len(b)
        BY <1>2, <3>2 DEF Url
      <4>2. u[Len(a) + 1] \notin Hex
        BY <1>2, <3>2, <4>1
      <4>3. u[i + 1] \in Hex /\ u[i + 2] \in Hex
        BY <1>5 DEF IsEscape
      <4>4. i + 1 # Len(a) + 1 /\ i + 2 # Len(a) + 1
        BY <4>2, <4>3, Zenon
      <4> QED BY <1>2, <4>4
    <3> QED BY <1>5, <3>1, <3>2 DEF Apart
  <2>2. i + 1 \in 1..Len(a) /\ i + 2 \in 1..Len(a)
    BY <1>2, <2>1
  <2>3. u[i] = a[i] /\ u[i + 1] = a[i + 1] /\ u[i + 2] = a[i + 2]
    BY <1>2, <2>2
  <2> QED BY <1>5, <2>1, <2>3, Zenon DEF IsEscape
<1> QED BY <1>1, <1>3, <1>4, <1>5, Zenon

LEMMA CleanCat ==
  ASSUME NEW a \in Url, NEW b \in Url, NEW q \in BOOLEAN, Clean(a, q), Clean(b, q)
  PROVE  a \o b \in Url /\ Clean(a \o b, q)
<1>1. PICK u : u = a \o b
  OBVIOUS
<1>2. /\ u \in Url /\ Len(a) \in Nat /\ Len(b) \in Nat /\ Len(u) = Len(a) + Len(b)
      /\ \A i \in 1..Len(a) : u[i] = a[i]
      /\ \A i \in 1..Len(b) : u[Len(a) + i] = b[i]
  BY <1>1, Cat DEF Url
<1>3. /\ \A i \in 1..Len(a) : IsEscape(a, i) => IsEscape(u, i)
      /\ \A i \in 1..Len(b) : IsEscape(u, Len(a) + i) <=> IsEscape(b, i)
  BY <1>1, CatEscapes, Zenon
<1>4. ASSUME NEW i \in 1..Len(a) PROVE IsClean(u, q, i)
  BY <1>2, <1>3, Zenon DEF Clean, IsClean
<1>5. ASSUME NEW i \in 1..Len(b) PROVE IsClean(u, q, Len(a) + i)
  BY <1>2, <1>3, Zenon DEF Clean, IsClean
<1>6. ASSUME NEW i \in 1..Len(u) PROVE IsClean(u, q, i)
  <2>1. i \in 1..Len(a) \/ (i - Len(a) \in 1..Len(b) /\ i = Len(a) + (i - Len(a)))
    BY <1>2
  <2> QED BY <1>4, <1>5, <2>1, Zenon
<1> QED BY <1>1, <1>2, <1>6, Zenon DEF Clean

\* Hexadecimal digits are legal, "%" is not.
LEMMA LegalIs ==
  ASSUME NEW q \in BOOLEAN, NEW c, IsLegal(c, q)
  PROVE  c # "%" /\ c # " " /\ c # "#" /\ (q = FALSE => c # "?")
BY DEF IsLegal, Legal, Hex

LEMMA HexIsLegal ==
  ASSUME NEW q \in BOOLEAN, NEW c, c \in Hex
  PROVE  IsLegal(c, q) /\ c # "%"
BY DEF IsLegal, Legal, Hex

LEMMA EscapeIsClean ==
  ASSUME NEW t \in Url, NEW q \in BOOLEAN, Len(t) = 3, t[1] = "%", t[2] \in Hex, t[3] \in Hex
  PROVE  Clean(t, q)
<1>1. IsEscape(t, 1)
  BY DEF IsEscape
<1>2. IsLegal(t[2], q) /\ IsLegal(t[3], q)
  BY HexIsLegal, Zenon
<1>3. \A i \in 1..3 : i = 1 \/ i = 2 \/ i = 3
  OBVIOUS
<1> QED BY <1>1, <1>2, <1>3, Zenon DEF Clean, IsClean

\* An encoded token: the character itself if it is legal, an escape otherwise.
LEMMA TokenIs ==
  ASSUME NEW w \in Url, NEW i \in 1..Len(w), NEW q \in BOOLEAN,
         NEW t, t = EncodedToken(w, i, q)
  PROVE  /\ t \in Url
         /\ \/ /\ IsEscape(w, i) /\ Len(t) = 3 /\ t[1] = "%" /\ t[2] \in Hex /\ t[3] \in Hex
               /\ t[2] = w[i + 1] /\ t[3] = w[i + 2] /\ NextAfter(w, i) = i + 3
            \/ ~IsEscape(w, i) /\ NextAfter(w, i) = i + 1 /\ t = <<w[i]>> /\ IsLegal(w[i], q)
            \/ /\ ~IsEscape(w, i) /\ NextAfter(w, i) = i + 1
               /\ Len(t) = 3 /\ t[1] = "%" /\ <<t[2], t[3]>> = HexOf(w[i])
               /\ t[2] \in Hex /\ t[3] \in Hex /\ ~IsLegal(w[i], q)
<1>1. t \in Url
  <2>1. EncodedTokens(w, q)[i] = t
    BY Zenon DEF EncodedTokens
  <2> QED BY <2>1, EncodedTokensAre
<1>2. CASE IsEscape(w, i)
  <2>1. t = SubSeq(w, i, i + 2) /\ NextAfter(w, i) = i + 3
    BY <1>2, Zenon DEF EncodedToken, NextAfter
  <2>2. w[i] = "%" /\ w[i + 1] \in Hex /\ w[i + 2] \in Hex /\ i + 2 <= Len(w)
    BY <1>2, Zenon DEF IsEscape
  <2>3. Len(t) = 3 /\ \A k \in 1..3 : t[k] = w[i + k - 1]
    <3>1. /\ Len(SubSeq(w, i, i + 2)) = IF i <= i + 2 THEN i + 2 - i + 1 ELSE 0
          /\ \A k \in 1..(i + 2 - i + 1) : SubSeq(w, i, i + 2)[k] = w[i + k - 1]
      BY <2>2, Part DEF Url
    <3>2. i + 2 - i + 1 = 3 /\ i <= i + 2
      BY DEF Url
    <3> QED BY <2>1, <3>1, <3>2
  <2>4. t[1] = w[i] /\ t[2] = w[i + 1] /\ t[3] = w[i + 2]
    <3>1. i + 1 - 1 = i /\ i + 2 - 1 = i + 1 /\ i + 3 - 1 = i + 2
      BY DEF Url
    <3> QED BY <2>3, <3>1
  <2> QED BY <1>1, <1>2, <2>1, <2>2, <2>3, <2>4, Zenon
<1>3. CASE ~IsEscape(w, i) /\ IsLegal(w[i], q)
  <2>1. t = <<w[i]>> /\ NextAfter(w, i) = i + 1
    BY <1>3, Zenon DEF EncodedToken, EncodedChar, NextAfter
  <2> QED BY <1>1, <1>3, <2>1, Zenon
<1>4. CASE ~IsEscape(w, i) /\ ~IsLegal(w[i], q)
  <2>1. t = <<"%">> \o HexOf(w[i]) /\ NextAfter(w, i) = i + 1
    BY <1>4, Zenon DEF EncodedToken, EncodedChar, NextAfter
  <2>2. PICK a \in Char, b \in Char : HexOf(w[i]) = <<a, b>> /\ {a, b} \subseteq Hex
    BY HexOfIs, Zenon
  <2>3. PICK c \in Char : c = "%"
    BY CharsAreThere, Zenon
  <2>4. Len(t) = 3 /\ t[1] = "%" /\ t[2] = a /\ t[3] = b
    <3>1. PICK d \in Seq(Char) : d = <<a, b>> /\ Len(d) = 2 /\ d[1] = a /\ d[2] = b
      <4>1. <<a, b>> \in Seq(Char) /\ Len(<<a, b>>) = 2 /\ <<a, b>>[1] = a /\ <<a, b>>[2] = b
        BY Two
      <4> QED BY <4>1, Zenon
    <3>2. /\ Len(<<c>> \o d) = 1 + Len(d) /\ (<<c>> \o d)[1] = c
          /\ \A k \in 1..Len(d) : (<<c>> \o d)[1 + k] = d[k]
      BY OneBefore
    <3>3. t = <<c>> \o d
      BY <2>1, <2>2, <2>3, <3>1, Zenon
    <3>4. Len(t) = 3 /\ t[1] = c /\ t[2] = d[1] /\ t[3] = d[2]
      BY <3>1, <3>2, <3>3
    <3> QED BY <2>3, <3>1, <3>4
  <2>5. <<t[2], t[3]>> = HexOf(w[i]) /\ t[2] \in Hex /\ t[3] \in Hex
    BY <2>2, <2>4
  <2> QED BY <1>1, <1>4, <2>1, <2>4, <2>5, Zenon
<1> QED BY <1>2, <1>3, <1>4

LEMMA TokenIsClean ==
  ASSUME NEW w \in Url, NEW i \in 1..Len(w), NEW q \in BOOLEAN
  PROVE  EncodedToken(w, i, q) \in Url /\ Clean(EncodedToken(w, i, q), q)
<1>1. PICK t : t = EncodedToken(w, i, q)
  OBVIOUS
<1>2. /\ t \in Url
      /\ \/ Len(t) = 3 /\ t[1] = "%" /\ t[2] \in Hex /\ t[3] \in Hex
         \/ t = <<w[i]>> /\ IsLegal(w[i], q)
  BY <1>1, TokenIs, Zenon
<1>3. CASE Len(t) = 3 /\ t[1] = "%" /\ t[2] \in Hex /\ t[3] \in Hex
  BY <1>1, <1>2, <1>3, EscapeIsClean, Zenon
<1>4. CASE t = <<w[i]>> /\ IsLegal(w[i], q)
  <2>1. \A k \in 1..Len(t) : t[k] = w[i]
    BY <1>4
  <2> QED BY <1>1, <1>2, <1>4, <2>1, Zenon DEF Clean, IsClean
<1> QED BY <1>2, <1>3, <1>4

LEMMA EncodeIsClean ==
  ASSUME NEW w \in Url, NEW q \in BOOLEAN
  PROVE  Encode(w, q) \in Url /\ Clean(Encode(w, q), q)
<1> DEFINE N == Len(w)
<1>1. PICK f \in [1..(N + 3) -> Url] : Encode(w, q) = f[1] /\ Walk(f, w, EncodedTokens(w, q))
  BY EncodeIs
<1> DEFINE Good == {i \in 1..(N + 3) : Clean(f[i], q)}
<1>2. N \in Nat
  BY DEF Url
<1>3. ASSUME NEW i \in 1..(N + 3), i > N PROVE i \in Good
  <2>1. f[i] = <<>>
    BY <1>1, <1>3, Zenon DEF Walk, Goes
  <2> QED BY <2>1 DEF Clean
<1>4. ASSUME NEW i \in 1..N, \A j \in (i + 1)..(N + 3) : j \in Good PROVE i \in Good
  <2>1. PICK j \in (i + 1)..(N + 3) : j = NextAfter(w, i) /\ j \in 1..(N + 3)
    BY NextIsLater, Zenon
  <2>2. ~(i > N) /\ i \in 1..(N + 3)
    BY <1>2
  <2>3. f[i] = EncodedToken(w, i, q) \o f[j]
    BY <1>1, <2>1, <2>2, Zenon DEF Walk, Goes, EncodedTokens
  <2>4. Clean(f[j], q) /\ f[j] \in Url
    BY <1>1, <1>4, <2>1
  <2>5. Clean(f[i], q)
    <3>1. PICK t \in Url : t = EncodedToken(w, i, q) /\ Clean(t, q)
      BY TokenIsClean, Zenon
    <3>2. Clean(t \o f[j], q)
      BY <2>4, <3>1, CleanCat
    <3> QED BY <2>3, <3>1, <3>2, Zenon
  <2> QED BY <2>2, <2>5
<1>5. \A i \in 1..(N + 3) : i \in Good
  <2> HIDE DEF N, Good
  <2> QED BY <1>2, <1>3, <1>4, Downwards
<1>6. 1 \in 1..(N + 3)
  BY <1>2
<1> QED BY <1>1, <1>5, <1>6

-----------------------------------------------------------------------------
(* A URL cut into its parts                                                *)

IsCat(v, a, b) ==
  /\ v \in Url /\ Len(a) \in Nat /\ Len(b) \in Nat /\ Len(v) = Len(a) + Len(b)
  /\ \A i \in 1..Len(a) : v[i] = a[i]
  /\ \A i \in 1..Len(b) : v[Len(a) + i] = b[i]
  /\ \A i \in 1..Len(v) : i > Len(a) => i - Len(a) \in 1..Len(b) /\ v[i] = b[i - Len(a)]

LEMMA CatIs ==
  ASSUME NEW a \in Url, NEW b \in Url
  PROVE  IsCat(a \o b, a, b)
BY Cat DEF Url, IsCat

IsPart(w, u, m, n) ==
  /\ w \in Url /\ Len(w) = IF m <= n THEN n - m + 1 ELSE 0
  /\ \A i \in 1..(n - m + 1) : w[i] = u[m + i - 1]

LEMMA PartIs ==
  ASSUME NEW u \in Url, NEW m \in Nat \ {0}, NEW n \in Nat, n <= Len(u)
  PROVE  IsPart(SubSeq(u, m, n), u, m, n)
BY Part DEF Url, IsPart

LEMMA CatOfParts ==
  ASSUME NEW u \in Url, NEW a \in 1..(Len(u) + 1), NEW b \in a..(Len(u) + 1)
  PROVE  From(u, a) = SubSeq(u, a, b - 1) \o From(u, b)
<1> DEFINE x == SubSeq(u, a, b - 1)
           y == SubSeq(u, b, Len(u))
           z == SubSeq(u, a, Len(u))
<1>1. Len(u) \in Nat /\ a \in Nat \ {0} /\ b \in Nat \ {0} /\ b - 1 \in Nat /\ b - 1 <= Len(u)
  BY DEF Url
<1>2. IsPart(x, u, a, b - 1) /\ IsPart(y, u, b, Len(u)) /\ IsPart(z, u, a, Len(u))
  <2>1. Len(u) <= Len(u)
    BY <1>1
  <2> QED BY <1>1, <2>1, PartIs, Zenon
<1>3. PICK v : v = x \o y
  OBVIOUS
<1> HIDE DEF x, y, z
<1>4. IsCat(v, x, y)
  BY <1>2, <1>3, CatIs, Zenon DEF IsPart
<1>5. /\ x \in Url /\ y \in Url /\ z \in Url /\ v \in Url
      /\ \A i \in 1..(b - 1 - a + 1) : x[i] = u[a + i - 1]
      /\ \A i \in 1..(Len(u) - b + 1) : y[i] = u[b + i - 1]
      /\ \A i \in 1..(Len(u) - a + 1) : z[i] = u[a + i - 1]
  BY <1>2, <1>4, Zenon DEF IsPart, IsCat
<1>6. /\ Len(v) = Len(x) + Len(y)
      /\ \A i \in 1..Len(x) : v[i] = x[i]
      /\ \A i \in 1..Len(v) : i > Len(x) => i - Len(x) \in 1..Len(y) /\ v[i] = y[i - Len(x)]
  BY <1>4, Zenon DEF IsCat
<1>7. Len(x) = b - a /\ Len(y) = Len(u) + 1 - b /\ Len(z) = Len(u) + 1 - a /\ Len(v) = Len(z)
  <2>1. Len(x) = b - a
    BY <1>1, <1>2 DEF IsPart
  <2>2. Len(y) = Len(u) + 1 - b
    BY <1>1, <1>2 DEF IsPart
  <2>3. Len(z) = Len(u) + 1 - a
    BY <1>1, <1>2 DEF IsPart
  <2> QED BY <1>1, <1>6, <2>1, <2>2, <2>3
<1>8. ASSUME NEW i \in 1..Len(z) PROVE v[i] = z[i]
  <2>1. z[i] = u[a + i - 1]
    BY <1>5, <1>7
  <2>2. CASE i <= Len(x)
    BY <1>1, <1>5, <1>6, <1>7, <2>1, <2>2
  <2>3. CASE i > Len(x)
    <3>1. i - Len(x) \in 1..Len(y) /\ v[i] = y[i - Len(x)]
      BY <1>6, <1>7, <2>3
    <3>2. b + (i - Len(x)) - 1 = a + i - 1 /\ i - Len(x) \in 1..(Len(u) - b + 1)
      <4>1. PICK lu \in Nat, lx \in Int, ly \in Int :
                /\ lu = Len(u) /\ lx = Len(x) /\ ly = Len(y)
                /\ lx = b - a /\ ly = lu + 1 - b
        BY <1>1, <1>7
      <4>2. i \in Nat /\ i - lx \in 1..ly
        <5>1. i - Len(x) \in 1..Len(y)
          BY <3>1
        <5>2. i \in Nat
          BY <1>1, <1>7
        <5> QED BY <4>1, <5>1, <5>2
      <4>3. b + (i - lx) - 1 = a + i - 1 /\ i - lx \in 1..(lu - b + 1)
        BY <1>1, <4>1, <4>2
      <4> QED BY <4>1, <4>3
    <3>3. y[i - Len(x)] = u[b + (i - Len(x)) - 1]
      BY <1>5, <3>2
    <3> QED BY <2>1, <3>1, <3>2, <3>3
  <2> QED BY <1>7, <2>2, <2>3
<1>9. v = z
  BY <1>5, <1>7, <1>8, SeqEqual DEF Url
<1> QED BY <1>3, <1>9 DEF From, x, y, z

\* Four texts put together, and where each is found again.
Segment(u, v, n) == Len(v) \in Nat /\ \A i \in 1..Len(v) : u[n + i] = v[i]

HasFour(u, a, b, c, d) ==
  /\ u \in Url /\ Len(u) = Len(a) + Len(b) + Len(c) + Len(d)
  /\ Segment(u, a, 0) /\ Segment(u, b, Len(a)) /\ Segment(u, c, Len(a) + Len(b))
  /\ Segment(u, d, Len(a) + Len(b) + Len(c))

LEMMA FourParts ==
  ASSUME NEW a \in Url, NEW b \in Url, NEW c \in Url, NEW d \in Url
  PROVE  HasFour(FromRight(a, b, c, d), a, b, c, d)
<1>1. PICK e : e = c \o d
  OBVIOUS
<1>2. /\ e \in Url /\ Len(c) \in Nat /\ Len(d) \in Nat /\ Len(e) = Len(c) + Len(d)
      /\ \A i \in 1..Len(c) : e[i] = c[i]
      /\ \A i \in 1..Len(d) : e[Len(c) + i] = d[i]
  BY <1>1, CatIs DEF IsCat
<1>3. PICK f : f = b \o e
  OBVIOUS
<1>4. /\ f \in Url /\ Len(b) \in Nat /\ Len(f) = Len(b) + Len(e)
      /\ \A i \in 1..Len(b) : f[i] = b[i]
      /\ \A i \in 1..Len(e) : f[Len(b) + i] = e[i]
  <2>1. e \in Url
    BY <1>2
  <2>2. IsCat(f, b, e)
    BY <1>3, <2>1, CatIs, Zenon
  <2> QED BY <2>2, Zenon DEF IsCat
<1>5. PICK u : u = a \o f
  OBVIOUS
<1>6. /\ u \in Url /\ Len(a) \in Nat /\ Len(u) = Len(a) + Len(f)
      /\ \A i \in 1..Len(a) : u[i] = a[i]
      /\ \A i \in 1..Len(f) : u[Len(a) + i] = f[i]
  <2>1. f \in Url
    BY <1>4
  <2>2. IsCat(u, a, f)
    BY <1>5, <2>1, CatIs, Zenon
  <2> QED BY <2>2, Zenon DEF IsCat
<1>7. u = FromRight(a, b, c, d)
  BY <1>1, <1>3, <1>5, Zenon DEF FromRight
<1>8. Len(u) = Len(a) + Len(b) + Len(c) + Len(d)
  BY <1>2, <1>4, <1>6
<1>9. Segment(u, a, 0)
  BY <1>6 DEF Segment
<1>10. Segment(u, b, Len(a))
  <2>1. \A i \in 1..Len(b) : i \in 1..Len(f)
    BY <1>2, <1>4
  <2> QED BY <1>4, <1>6, <2>1, Zenon DEF Segment
<1>11. \A i \in 1..Len(e) : u[Len(a) + Len(b) + i] = e[i]
  <2> TAKE i \in 1..Len(e)
  <2>1. Len(b) + i \in 1..Len(f) /\ Len(a) + Len(b) + i = Len(a) + (Len(b) + i)
    BY <1>2, <1>4, <1>6
  <2> QED BY <1>4, <1>6, <2>1
<1>12. Segment(u, c, Len(a) + Len(b))
  <2>1. \A i \in 1..Len(c) : i \in 1..Len(e)
    BY <1>2
  <2> QED BY <1>2, <1>11, <2>1, Zenon DEF Segment
<1>13. Segment(u, d, Len(a) + Len(b) + Len(c))
  <2>1. ASSUME NEW i \in 1..Len(d) PROVE u[Len(a) + Len(b) + Len(c) + i] = d[i]
    <3>1. /\ Len(c) + i \in 1..Len(e)
          /\ Len(a) + Len(b) + Len(c) + i = Len(a) + Len(b) + (Len(c) + i)
      BY <1>2, <1>4, <1>6
    <3> QED BY <1>2, <1>11, <3>1
  <2> QED BY <1>2, <2>1, Zenon DEF Segment
<1> QED BY <1>6, <1>7, <1>8, <1>9, <1>10, <1>12, <1>13, Zenon DEF HasFour

LEMMA SegmentIsPart ==
  ASSUME NEW u \in Url, NEW v \in Url, NEW n \in Nat, Segment(u, v, n), n + Len(v) <= Len(u)
  PROVE  SubSeq(u, n + 1, n + Len(v)) = v
<1> DEFINE w == SubSeq(u, n + 1, n + Len(v))
<1>1. /\ w \in Url /\ Len(w) = IF n + 1 <= n + Len(v) THEN n + Len(v) - (n + 1) + 1 ELSE 0
      /\ \A i \in 1..(n + Len(v) - (n + 1) + 1) : w[i] = u[n + 1 + i - 1]
  <2>1. n + 1 \in Nat \ {0} /\ n + Len(v) \in Nat
    BY DEF Url
  <2>2. IsPart(w, u, n + 1, n + Len(v))
    BY <2>1, PartIs, Zenon
  <2> HIDE DEF w
  <2> QED BY <2>2 DEF IsPart
<1> HIDE DEF w
<1>2. Len(v) \in Nat /\ Len(w) = Len(v)
  BY <1>1 DEF Url
<1>3. \A i \in 1..Len(v) : w[i] = v[i]
  <2> TAKE i \in 1..Len(v)
  <2>1. i \in 1..(n + Len(v) - (n + 1) + 1) /\ n + 1 + i - 1 = n + i
    BY <1>2
  <2> QED BY <1>1, <2>1 DEF Segment
<1>4. w = v
  BY <1>1, <1>2, <1>3, SeqEqual DEF Url
<1> QED BY <1>4 DEF w

\* Where the authority begins.
LEMMA SchemeEndIs ==
  ASSUME NEW u \in Url
  PROVE  \/ SchemeEnd(u) = 0 /\ \A i \in 1..(Len(u) - 2) : SubSeq(u, i, i + 2) # Separator
         \/ /\ SchemeEnd(u) \in 1..(Len(u) - 2)
            /\ SubSeq(u, SchemeEnd(u), SchemeEnd(u) + 2) = Separator
            /\ \A i \in 1..(SchemeEnd(u) - 1) : SubSeq(u, i, i + 2) # Separator
<1> DEFINE at == {i \in 1..(Len(u) - 2) : SubSeq(u, i, i + 2) = Separator}
<1>0. Len(u) \in Nat
  BY DEF Url
<1>1. CASE at = {}
  BY <1>1 DEF SchemeEnd
<1>2. CASE at # {}
  <2>1. at \subseteq Nat
    OBVIOUS
  <2>2. PICK k \in at : \A j \in at : k <= j
    <3> HIDE DEF at
    <3> QED BY <1>2, <2>1, SmallestMember
  <2>3. ASSUME NEW i \in at, \A j \in at : i <= j PROVE i = k
    <3>1. i <= k /\ k <= i
      BY <2>2, <2>3, Zenon
    <3>2. i \in Nat /\ k \in Nat
      BY <2>1, Zenon
    <3> QED BY <3>1, <3>2
  <2>4. SchemeEnd(u) = k
    <3>1. (CHOOSE i \in at : \A j \in at : i <= j) = k
      <4> HIDE DEF at
      <4> QED BY <2>2, <2>3
    <3> QED BY <1>2, <3>1, Zenon DEF SchemeEnd
  <2>5. k \in 1..(Len(u) - 2) /\ SubSeq(u, k, k + 2) = Separator
    BY Zenon
  <2>6. ASSUME NEW i \in 1..(k - 1) PROVE SubSeq(u, i, i + 2) # Separator
    <3>1. ~(k <= i) /\ i \in 1..(Len(u) - 2)
      BY <1>0, <2>5
    <3>2. i \notin at
      BY <2>2, <3>1, Zenon
    <3> QED BY <3>1, <3>2, Zenon
  <2> QED BY <2>4, <2>5, <2>6, Zenon
<1> QED BY <1>1, <1>2

LEMMA AuthorityIs ==
  ASSUME NEW u \in Url
  PROVE  Authority(u) \in 1..(Len(u) + 1) /\ Len(u) \in Nat
<1>1. Len(u) \in Nat
  BY DEF Url
<1>2. CASE SchemeEnd(u) = 0
  BY <1>1, <1>2 DEF Authority
<1>3. CASE SchemeEnd(u) # 0
  <2>1. SchemeEnd(u) \in 1..(Len(u) - 2)
    BY <1>3, SchemeEndIs
  <2> QED BY <1>1, <1>3, <2>1 DEF Authority
<1> QED BY <1>2, <1>3

\* A query with its mark, if there is one.
Asked(ask, y) == IF ask THEN <<"?">> \o y ELSE <<>>

LEMMA AskedIs ==
  ASSUME NEW ask \in BOOLEAN, NEW y \in Url
  PROVE  /\ Asked(ask, y) \in Url
         /\ ask => /\ Len(Asked(ask, y)) = 1 + Len(y) /\ Asked(ask, y)[1] = "?"
                   /\ Segment(Asked(ask, y), y, 1)
         /\ ~ask => Len(Asked(ask, y)) = 0
<1>1. CASE ask
  <2>1. PICK c \in Char : c = "?"
    BY CharsAreThere, Zenon
  <2>2. /\ <<c>> \o y \in Url /\ Len(<<c>> \o y) = 1 + Len(y) /\ (<<c>> \o y)[1] = c
        /\ \A i \in 1..Len(y) : (<<c>> \o y)[1 + i] = y[i]
    BY OneBefore DEF Url
  <2>3. Asked(ask, y) = <<c>> \o y
    BY <1>1, <2>1, Zenon DEF Asked
  <2>4. Len(y) \in Nat
    BY DEF Url
  <2> QED BY <1>1, <2>1, <2>2, <2>3, <2>4, Zenon DEF Segment
<1>2. CASE ~ask
  BY <1>2 DEF Asked, Url
<1> QED BY <1>1, <1>2

\* head is all up to position A and what follows it up to the path.
IsCut(u, cut, A) ==
  /\ cut.head \in Url /\ cut.path \in Url /\ cut.query \in Url /\ cut.frag \in Url
  /\ cut.ask \in BOOLEAN
  /\ u = FromRight(cut.head, cut.path, Asked(cut.ask, cut.query), cut.frag)
  /\ A \in 1..(Len(cut.head) + 1)
  /\ \A i \in A..Len(cut.head) : cut.head[i] \notin {"/", "?", "#"}
  /\ Misses(cut.path, {"?", "#"}) /\ (cut.path # <<>> => cut.path[1] = "/")
  /\ Misses(cut.query, {"#"})
  /\ cut.frag # <<>> => cut.frag[1] = "#"
  /\ cut.path # <<>> \/ cut.ask \/ cut.frag # <<>>

LEMMA CutExists ==
  ASSUME NEW u \in Url, Parts(u).path # 0
  PROVE  \E cut : IsCut(u, cut, Authority(u))
<1> DEFINE A == Authority(u)
           N == Len(u)
<1>1. A \in 1..(N + 1) /\ A \in Nat \ {0} /\ N \in Nat
  BY AuthorityIs
<1>2. PICK p \in A..N : /\ u[p] \in {"/", "?", "#"}
                        /\ \A j \in A..(p - 1) : u[j] \notin {"/", "?", "#"}
  <2>1. Parts(u).path = FirstOf(u, {"/", "?", "#"}, A)
    BY DEF Parts
  <2>2. FirstOf(u, {"/", "?", "#"}, A) # 0
    BY <2>1
  <2>3. PICK chars : chars = {"/", "?", "#"}
    OBVIOUS
  <2> HIDE DEF A, N
  <2>4. \E k \in A..Len(u) : u[k] \in chars /\ \A j \in A..(k - 1) : u[j] \notin chars
    BY <1>1, <2>2, <2>3, FirstOfFinds, Zenon DEF Url
  <2> QED BY <2>3, <2>4 DEF N
<1>3. p \in Nat \ {0} /\ p <= N
  BY <1>1
<1>4. PICK e \in p..(N + 1) : (\A j \in p..(e - 1) : u[j] # "#") /\ (e <= N => u[e] = "#")
  <2>1. PICK chars : chars = {"#"}
    OBVIOUS
  <2>2. \/ \A j \in p..Len(u) : u[j] \notin chars
        \/ \E k \in p..Len(u) : u[k] \in chars /\ \A j \in p..(k - 1) : u[j] \notin chars
    BY <1>3, FirstOfFinds, Zenon DEF Url
  <2>3. CASE \A j \in p..Len(u) : u[j] \notin chars
    <3>1. N + 1 \in p..(N + 1) /\ N + 1 - 1 = N /\ ~(N + 1 <= N)
      BY <1>1, <1>3
    <3> QED BY <2>1, <2>3, <3>1
  <2>4. CASE \E k \in p..Len(u) : u[k] \in chars /\ \A j \in p..(k - 1) : u[j] \notin chars
    BY <1>1, <1>3, <2>1, <2>4
  <2> QED BY <2>2, <2>3, <2>4
<1>5. PICK q \in p..e : (\A j \in p..(q - 1) : u[j] # "?") /\ (q < e => u[q] = "?")
  <2>1. PICK chars : chars = {"?"}
    OBVIOUS
  <2>2. \/ \A j \in p..Len(u) : u[j] \notin chars
        \/ \E k \in p..Len(u) : u[k] \in chars /\ \A j \in p..(k - 1) : u[j] \notin chars
    BY <1>3, FirstOfFinds, Zenon DEF Url
  <2>3. CASE \A j \in p..Len(u) : u[j] \notin chars
    <3>1. e \in p..e /\ ~(e < e) /\ \A j \in p..(e - 1) : j \in p..Len(u)
      BY <1>1, <1>3
    <3> QED BY <2>1, <2>3, <3>1
  <2>4. ASSUME NEW k \in p..Len(u), u[k] \in chars, \A j \in p..(k - 1) : u[j] \notin chars
        PROVE  \E q \in p..e : (\A j \in p..(q - 1) : u[j] # "?") /\ (q < e => u[q] = "?")
    <3>1. CASE k < e
      <4>1. k \in p..e
        BY <1>1, <1>3, <3>1
      <4> QED BY <2>1, <2>4, <4>1
    <3>2. CASE ~(k < e)
      <4>1. e \in p..e /\ ~(e < e) /\ \A j \in p..(e - 1) : j \in p..(k - 1)
        BY <1>1, <1>3, <3>2
      <4> QED BY <2>1, <2>4, <4>1
    <3> QED BY <3>1, <3>2
  <2> QED BY <2>2, <2>3, <2>4
<1>6. q \in Nat \ {0} /\ e \in Nat \ {0} /\ q <= e /\ e <= N + 1 /\ p <= q
  BY <1>1, <1>3
<1> DEFINE head == SubSeq(u, 1, p - 1)
           path == SubSeq(u, p, q - 1)
           c    == SubSeq(u, q, e - 1)
           frag == SubSeq(u, e, N)
           ask  == q < e
           y    == SubSeq(u, q + 1, e - 1)
<1>7. /\ IsPart(head, u, 1, p - 1) /\ IsPart(path, u, p, q - 1) /\ IsPart(c, u, q, e - 1)
      /\ IsPart(frag, u, e, N) /\ IsPart(y, u, q + 1, e - 1)
  <2>1. /\ 1 \in Nat \ {0} /\ q + 1 \in Nat \ {0} /\ p - 1 \in Nat /\ q - 1 \in Nat /\ e - 1 \in Nat
        /\ p - 1 <= N /\ q - 1 <= N /\ e - 1 <= N /\ N <= N
    BY <1>1, <1>3, <1>6
  <2> QED BY <1>1, <1>3, <1>6, <2>1, PartIs, Zenon
<1>8. u = FromRight(head, path, c, frag)
  <2>1. From(u, 1) = u
    <3>1. IsPart(SubSeq(u, 1, N), u, 1, N)
      <4>1. 1 \in Nat \ {0} /\ N <= N
        BY <1>1
      <4> QED BY <1>1, <4>1, PartIs, Zenon
    <3>2. PICK v : v = SubSeq(u, 1, N)
      OBVIOUS
    <3>3. v \in Url /\ Len(v) = N /\ \A i \in 1..N : v[i] = u[i]
      BY <1>1, <3>1, <3>2 DEF IsPart
    <3>4. v = u
      BY <3>3, SeqEqual DEF Url
    <3> QED BY <3>2, <3>4 DEF From
  <2>2. /\ From(u, 1) = head \o From(u, p) /\ From(u, p) = path \o From(u, q)
        /\ From(u, q) = c \o From(u, e)
    <3>1. /\ 1 \in 1..(Len(u) + 1) /\ p \in 1..(Len(u) + 1) /\ q \in 1..(Len(u) + 1)
          /\ p \in 1..(Len(u) + 1) /\ q \in p..(Len(u) + 1) /\ e \in q..(Len(u) + 1)
      BY <1>1, <1>3, <1>6
    <3> QED BY <3>1, CatOfParts, Zenon
  <2>3. From(u, e) = frag
    BY Zenon DEF From
  <2> HIDE DEF head, path, c, frag
  <2> QED BY <2>1, <2>2, <2>3, Zenon DEF FromRight
<1> HIDE DEF head, path, c, frag, y, A
<1>9. c = Asked(ask, y)
  <2>1. c \in Url /\ y \in Url /\ ask \in BOOLEAN
    BY <1>7 DEF IsPart
  <2>2. PICK d \in Url : /\ d = Asked(ask, y)
                         /\ ask => Len(d) = 1 + Len(y) /\ d[1] = "?" /\ Segment(d, y, 1)
                         /\ ~ask => Len(d) = 0
    BY <2>1, AskedIs, Zenon
  <2>3. CASE ask
    <3>1. Len(c) = e - q /\ Len(y) = e - 1 - q
      BY <1>6, <1>7, <2>3 DEF IsPart
    <3>2. \A i \in 1..(e - q) : c[i] = u[q + i - 1]
      BY <1>6, <1>7 DEF IsPart
    <3>3. \A i \in 1..(e - 1 - q) : y[i] = u[q + i]
      BY <1>6, <1>7 DEF IsPart
    <3>4. Len(d) = Len(c)
      BY <1>6, <2>2, <2>3, <3>1
    <3>5. ASSUME NEW i \in 1..Len(c) PROVE c[i] = d[i]
      <4>1. CASE i = 1
        <5>1. c[1] = u[q] /\ u[q] = "?"
          BY <1>5, <1>6, <2>3, <3>1, <3>2, <4>1
        <5> QED BY <2>2, <2>3, <4>1, <5>1
      <4>2. CASE i # 1
        <5>1. /\ i - 1 \in 1..(e - 1 - q) /\ i - 1 \in 1..Len(y)
              /\ 1 + (i - 1) = i /\ q + (i - 1) = q + i - 1
          BY <1>6, <3>1, <4>2
        <5>2. d[i] = y[i - 1]
          BY <2>2, <2>3, <5>1 DEF Segment
        <5> QED BY <3>1, <3>2, <3>3, <5>1, <5>2
      <4> QED BY <4>1, <4>2
    <3>6. c = d
      BY <2>1, <2>2, <3>4, <3>5, SeqEqual DEF Url
    <3> QED BY <2>2, <3>6
  <2>4. CASE ~ask
    <3>1. Len(c) = 0
      BY <1>6, <1>7, <2>4 DEF IsPart
    <3>2. c = d
      BY <2>1, <2>2, <2>4, <3>1, SeqEqual DEF Url
    <3> QED BY <2>2, <3>2
  <2> QED BY <2>3, <2>4
<1>10. head \in Url /\ path \in Url /\ y \in Url /\ frag \in Url /\ ask \in BOOLEAN
  BY <1>7 DEF IsPart
<1>11. /\ A \in 1..(Len(head) + 1)
       /\ \A i \in A..Len(head) : head[i] \notin {"/", "?", "#"}
  <2>1. Len(head) = p - 1 /\ \A i \in 1..(p - 1) : head[i] = u[i]
    BY <1>3, <1>7 DEF IsPart
  <2>2. A \in 1..(Len(head) + 1) /\ \A i \in A..Len(head) : i \in 1..(p - 1) /\ i \in A..(p - 1)
    BY <1>1, <1>3, <2>1
  <2> QED BY <1>2, <2>1, <2>2
<1>12. Misses(path, {"?", "#"}) /\ (path # <<>> => path[1] = "/")
  <2>1. path \in Url /\ Len(path) = q - p /\ \A i \in 1..(q - p) : path[i] = u[p + i - 1]
    BY <1>3, <1>6, <1>7 DEF IsPart
  <2>2. ASSUME NEW i \in 1..(q - p) PROVE path[i] \notin {"?", "#"}
    <3>1. p + i - 1 \in p..(q - 1) /\ p + i - 1 \in p..(e - 1)
      BY <1>3, <1>6
    <3> QED BY <1>4, <1>5, <2>1, <3>1
  <2>3. ASSUME path # <<>> PROVE path[1] = "/"
    <3>1. 1 \in 1..(q - p)
      BY <1>3, <1>6, <2>1, <2>3 DEF Url
    <3>2. path[1] = u[p]
      BY <1>3, <2>1, <3>1
    <3> QED BY <1>2, <2>2, <3>1, <3>2
  <2>4. DOMAIN path = 1..(q - p)
    BY <2>1 DEF Url
  <2> QED BY <2>2, <2>3, <2>4, Zenon DEF Misses
<1>13. Misses(y, {"#"})
  <2>1. y \in Url /\ \A i \in 1..Len(y) : i \in 1..(e - 1 - q) /\ y[i] = u[q + i]
    BY <1>3, <1>6, <1>7 DEF IsPart
  <2>2. ASSUME NEW i \in 1..(e - 1 - q) PROVE u[q + i] # "#"
    <3>1. q + i \in p..(e - 1)
      BY <1>3, <1>6
    <3> QED BY <1>4, <3>1
  <2>3. DOMAIN y = 1..Len(y)
    BY <2>1 DEF Url
  <2> QED BY <2>1, <2>2, <2>3 DEF Misses
<1>14. frag # <<>> => frag[1] = "#"
  <2>1. frag \in Url /\ Len(frag) = N + 1 - e /\ \A i \in 1..(N - e + 1) : frag[i] = u[e + i - 1]
    <3>1. /\ frag \in Url /\ Len(frag) = IF e <= N THEN N - e + 1 ELSE 0
          /\ \A i \in 1..(N - e + 1) : frag[i] = u[e + i - 1]
      BY <1>7, Zenon DEF IsPart
    <3> HIDE DEF N, ask
    <3>2. (IF e <= N THEN N - e + 1 ELSE 0) = N + 1 - e
      BY <1>1, <1>6
    <3> QED BY <3>1, <3>2
  <2>2. ASSUME frag # <<>> PROVE 1 \in 1..(N - e + 1) /\ e <= N /\ e + 1 - 1 = e
    BY <1>1, <1>6, <2>1, <2>2 DEF Url
  <2> QED BY <1>4, <2>1, <2>2
<1>15. path # <<>> \/ ask \/ frag # <<>>
  <2>1. Len(path) = q - p /\ Len(frag) = N + 1 - e
    BY <1>1, <1>3, <1>6, <1>7 DEF IsPart
  <2>2. Len(<<>>) = 0 /\ Len(path) + Len(frag) + (e - q) = N + 1 - p
    BY <1>1, <1>3, <1>6, <2>1
  <2>3. ~(Len(path) = 0 /\ Len(frag) = 0 /\ ~ask)
    BY <1>1, <1>3, <1>6, <2>1
  <2> QED BY <2>2, <2>3
<1>16. PICK cut : /\ cut.head = head /\ cut.path = path /\ cut.ask = ask
                  /\ cut.query = y /\ cut.frag = frag
  <2> DEFINE it == [head |-> head, path |-> path, ask |-> ask, query |-> y, frag |-> frag]
  <2>1. it.head = head /\ it.path = path /\ it.ask = ask /\ it.query = y /\ it.frag = frag
    OBVIOUS
  <2> QED BY <2>1, Zenon
<1>17. IsCut(u, cut, A)
  <2>1. u = FromRight(head, path, Asked(ask, y), frag)
    BY <1>8, <1>9, Zenon
  <2> HIDE DEF ask
  <2> QED BY <1>10, <1>11, <1>12, <1>13, <1>14, <1>15, <1>16, <2>1, Zenon DEF IsCut
<1> QED BY <1>17, Zenon DEF A

\* Where the parts of a cut URL are.
Places(u, cut, h, k, y, f, m) ==
  /\ h = Len(cut.head) /\ k = Len(cut.path) /\ y = Len(cut.query) /\ f = Len(cut.frag)
  /\ (cut.ask => m = h + k + 1 + y) /\ (~cut.ask => m = h + k)
  /\ Len(u) = m + f
  /\ \A i \in 1..h : u[i] = cut.head[i]
  /\ \A i \in 1..k : u[h + i] = cut.path[i]
  /\ cut.ask => u[h + k + 1] = "?" /\ \A i \in 1..y : u[h + k + 1 + i] = cut.query[i]
  /\ \A i \in 1..f : u[m + i] = cut.frag[i]

LEMMA CutPlaces ==
  ASSUME NEW u \in Url, NEW cut, NEW A, IsCut(u, cut, A)
  PROVE  \E h \in Nat, k \in Nat, y \in Nat, f \in Nat, m \in Nat : Places(u, cut, h, k, y, f, m)
<1> DEFINE head == cut.head
           path == cut.path
           y    == cut.query
           frag == cut.frag
           c    == Asked(cut.ask, y)
<1>1. /\ head \in Url /\ path \in Url /\ y \in Url /\ frag \in Url /\ cut.ask \in BOOLEAN
      /\ u = FromRight(head, path, c, frag)
  BY Zenon DEF IsCut
<1>2. /\ c \in Url
      /\ cut.ask => Len(c) = 1 + Len(y) /\ c[1] = "?" /\ Segment(c, y, 1)
      /\ ~cut.ask => Len(c) = 0
  BY <1>1, AskedIs, Zenon
<1> HIDE DEF c, head, path, y, frag
<1>3. /\ Len(u) = Len(head) + Len(path) + Len(c) + Len(frag)
      /\ Segment(u, head, 0) /\ Segment(u, path, Len(head)) /\ Segment(u, c, Len(head) + Len(path))
      /\ Segment(u, frag, Len(head) + Len(path) + Len(c))
  <2>1. HasFour(FromRight(head, path, c, frag), head, path, c, frag)
    BY <1>1, <1>2, FourParts, Zenon
  <2>2. HasFour(u, head, path, c, frag)
    BY <1>1, <2>1, Zenon
  <2> QED BY <2>2, Zenon DEF HasFour
<1>4. Len(head) \in Nat /\ Len(path) \in Nat /\ Len(y) \in Nat /\ Len(frag) \in Nat
  BY <1>1 DEF Url
<1>5. Len(c) = IF cut.ask THEN 1 + Len(y) ELSE 0
  BY <1>1, <1>2, Zenon
<1>6. ASSUME cut.ask
      PROVE  u[Len(head) + Len(path) + 1] = "?" /\ Segment(u, y, Len(head) + Len(path) + 1)
  <2>1. 1 \in 1..Len(c) /\ Len(c) = 1 + Len(y) /\ c[1] = "?" /\ \A i \in 1..Len(y) : c[1 + i] = y[i]
    BY <1>2, <1>4, <1>6 DEF Segment
  <2>2. \A i \in 1..Len(c) : u[Len(head) + Len(path) + i] = c[i]
    BY <1>3, Zenon DEF Segment
  <2>3. ASSUME NEW i \in 1..Len(y) PROVE u[Len(head) + Len(path) + 1 + i] = y[i]
    <3>1. 1 + i \in 1..Len(c) /\ Len(head) + Len(path) + 1 + i = Len(head) + Len(path) + (1 + i)
      BY <1>4, <2>1
    <3> QED BY <2>1, <2>2, <3>1
  <2> QED BY <1>4, <2>1, <2>2, <2>3, Zenon DEF Segment
<1>7. PICK h \in Nat, k \in Nat, n \in Nat, f \in Nat, m \in Nat :
        /\ h = Len(head) /\ k = Len(path) /\ n = Len(y) /\ f = Len(frag)
        /\ m = h + k + Len(c)
  <2>1. PICK n \in Nat : n = Len(c)
    BY <1>4, <1>5
  <2> QED BY <1>4, <2>1, SMTT(30)
<1>8. (cut.ask => m = h + k + 1 + n) /\ (~cut.ask => m = h + k)
  <2>1. CASE cut.ask
    <3>1. Len(c) = 1 + n
      BY <1>5, <1>7, <2>1, Zenon
    <3> QED BY <1>7, <2>1, <3>1
  <2>2. CASE ~cut.ask
    <3>1. Len(c) = 0
      BY <1>5, <1>7, <2>2, Zenon
    <3> QED BY <1>7, <2>2, <3>1
  <2> QED BY <2>1, <2>2
<1>9. Len(u) = m + f /\ Segment(u, head, 0) /\ Segment(u, path, h) /\ Segment(u, frag, m)
  <2>1. Len(u) = m + f
    BY <1>3, <1>7
  <2> QED BY <1>3, <1>7, <2>1, Zenon
<1>10. \A i \in 1..h : u[i] = head[i]
  <2> TAKE i \in 1..h
  <2>1. u[0 + i] = head[i] /\ 0 + i = i
    BY <1>7, <1>9 DEF Segment
  <2> QED BY <2>1
<1>11. Places(u, cut, h, k, n, f, m)
  BY <1>6, <1>7, <1>8, <1>9, <1>10, Zenon DEF Places, Segment, head, path, y, frag
<1> QED BY <1>11

\* Where a search ends.
FoundAt(u, chars, from, k) ==
  /\ from \in Nat \ {0} /\ k \in from..Len(u) /\ u[k] \in chars
  /\ \A j \in from..Len(u) : j < k => u[j] \notin chars

LEMMA FoundIs ==
  ASSUME NEW u \in Url, NEW chars, NEW from, NEW k, FoundAt(u, chars, from, k)
  PROVE  FirstOf(u, chars, from) = k
<1>1. from \in Nat \ {0} /\ k \in from..Len(u) /\ u[k] \in chars
  BY Zenon DEF FoundAt
<1>2. \A j \in from..(k - 1) : u[j] \notin chars
  <2> TAKE j \in from..(k - 1)
  <2>1. j \in from..Len(u) /\ j < k
    BY <1>1 DEF Url
  <2> QED BY <2>1, Zenon DEF FoundAt
<1> QED BY <1>1, <1>2, FirstOfIs, Zenon DEF Url

\* What normalize_url makes of the parts.
Normalized(cut) ==
  FromLeft(cut.head, Encode(cut.path, FALSE), Asked(cut.ask, Encode(cut.query, TRUE)), cut.frag)

LEMMA CutIs ==
  ASSUME NEW u \in Url, NEW cut, IsCut(u, cut, Authority(u))
  PROVE  Normalize(u) = Normalized(cut)
<1> DEFINE A == Authority(u)
<1>1. PICK h \in Nat, k \in Nat, y \in Nat, f \in Nat, m \in Nat : Places(u, cut, h, k, y, f, m)
  BY CutPlaces, Zenon
<1>lens. h = Len(cut.head) /\ k = Len(cut.path) /\ y = Len(cut.query) /\ f = Len(cut.frag)
  BY <1>1, Zenon DEF Places
<1>2. (cut.ask => m = h + k + 1 + y) /\ (~cut.ask => m = h + k)
  BY <1>1, Zenon DEF Places
<1>3. /\ cut.head \in Url /\ cut.path \in Url /\ cut.query \in Url /\ cut.frag \in Url
      /\ cut.ask \in BOOLEAN /\ A \in 1..(h + 1)
  BY <1>lens, Zenon DEF IsCut
<1>4. Len(u) = m + f /\ Len(u) \in Nat
  <2>1. Len(u) = m + f
    BY <1>1, Zenon DEF Places
  <2> QED BY <2>1
<1>5. /\ \A i \in 1..h : u[i] = cut.head[i]
      /\ \A i \in 1..k : u[h + i] = cut.path[i]
      /\ \A i \in 1..f : u[m + i] = cut.frag[i]
      /\ cut.ask => u[h + k + 1] = "?" /\ \A i \in 1..y : u[h + k + 1 + i] = cut.query[i]
  BY <1>1, Zenon DEF Places
<1>6. /\ \A i \in 1..k : cut.path[i] # "?" /\ cut.path[i] # "#"
      /\ \A i \in 1..y : cut.query[i] # "#"
      /\ (k # 0 => cut.path[1] = "/") /\ (f # 0 => cut.frag[1] = "#")
      /\ k # 0 \/ cut.ask \/ f # 0
  <2>1. DOMAIN cut.path = 1..k /\ DOMAIN cut.query = 1..y /\ Len(<<>>) = 0
    BY <1>lens, <1>3 DEF Url
  <2>2. (cut.path # <<>> <=> k # 0) /\ (cut.frag # <<>> <=> f # 0)
    BY <1>lens, <1>3 DEF Url
  <2> QED BY <2>1, <2>2 DEF IsCut, Misses
<1>7. /\ \A i \in A..h : u[i] \notin {"/", "?", "#"}
      /\ h + 1 \in A..Len(u) /\ u[h + 1] \in {"/", "?", "#"}
  <2>1. \A i \in A..h : u[i] \notin {"/", "?", "#"}
    <3>1. \A i \in A..h : cut.head[i] \notin {"/", "?", "#"} /\ i \in 1..h
      BY <1>lens, <1>3 DEF IsCut
    <3> QED BY <1>5, <3>1
  <2>2. CASE k # 0
    <3>1. 1 \in 1..k /\ h + 1 \in A..Len(u)
      BY <1>2, <1>3, <1>4, <2>2
    <3> QED BY <1>5, <1>6, <2>1, <2>2, <3>1
  <2>3. CASE k = 0 /\ cut.ask
    <3>1. h + k + 1 = h + 1 /\ h + 1 \in A..Len(u)
      BY <1>2, <1>3, <1>4, <2>3
    <3> QED BY <1>5, <2>1, <2>3, <3>1
  <2>4. CASE k = 0 /\ ~cut.ask
    <3>1. m = h /\ 1 \in 1..f /\ h + 1 \in A..Len(u)
      BY <1>2, <1>3, <1>4, <1>6, <2>4
    <3> QED BY <1>5, <1>6, <2>1, <2>4, <3>1
  <2> QED BY <1>3, <2>2, <2>3, <2>4
<1>8. ASSUME NEW i \in (h + 1)..m PROVE u[i] # "#" /\ (~cut.ask \/ i <= h + k => u[i] # "?")
  <2>1. CASE i <= h + k
    <3>1. i - h \in 1..k /\ h + (i - h) = i
      BY <2>1
    <3> QED BY <1>5, <1>6, <3>1
  <2>2. CASE i = h + k + 1 /\ cut.ask
    BY <1>5, <2>2
  <2>3. CASE i > h + k + 1 /\ cut.ask
    <3>1. PICK j \in 1..y : i = h + k + 1 + j
      <4>1. i - (h + k + 1) \in 1..y /\ h + k + 1 + (i - (h + k + 1)) = i
        BY <1>2, <2>3
      <4> QED BY <4>1, Zenon
    <3>2. u[i] = cut.query[j]
      BY <1>5, <2>3, <3>1, Zenon
    <3>3. u[i] # "#"
      BY <1>6, <3>2, Zenon
    <3>4. ~(i <= h + k)
      BY <2>3
    <3> QED BY <2>3, <3>3, <3>4, Zenon
  <2> QED BY <1>2, <1>3, <2>1, <2>2, <2>3
<1> HIDE DEF A
<1>9. FirstOf(u, {"/", "?", "#"}, A) = h + 1
  <2>1. PICK chars : chars = {"/", "?", "#"}
    OBVIOUS
  <2>2. FoundAt(u, chars, A, h + 1)
    BY <1>3, <1>7, <2>1 DEF FoundAt
  <2>3. FirstOf(u, chars, A) = h + 1
    BY <2>2, FoundIs, Zenon
  <2> QED BY <2>1, <2>3, Zenon
<1>10. FirstOf(u, {"#"}, h + 1) = IF f = 0 THEN 0 ELSE m + 1
  <2>1. PICK chars : chars = {"#"}
    OBVIOUS
  <2>2. CASE f = 0
    <3>1. \A j \in (h + 1)..Len(u) : u[j] \notin chars
      BY <1>4, <1>8, <2>1, <2>2
    <3>2. FirstOf(u, chars, h + 1) = 0
      BY <3>1, FirstOfNone, Zenon
    <3> QED BY <2>1, <2>2, <3>2, Zenon
  <2>3. CASE f # 0
    <3>1. m + 1 \in (h + 1)..Len(u) /\ h + 1 \in Nat \ {0} /\ 1 \in 1..f
      BY <1>2, <1>3, <1>4, <2>3
    <3>2. u[m + 1] \in chars /\ \A j \in (h + 1)..m : u[j] \notin chars
      BY <1>5, <1>6, <1>8, <2>1, <2>3, <3>1
    <3>3. FirstOf(u, chars, h + 1) = m + 1
      <4>1. FoundAt(u, chars, h + 1, m + 1)
        BY <3>1, <3>2 DEF FoundAt
      <4> QED BY <4>1, FoundIs, Zenon
    <3> QED BY <2>1, <2>3, <3>3, Zenon
  <2> QED BY <2>2, <2>3
<1>11. LET q == FirstOf(u, {"?"}, h + 1)
       IN  (IF q > m THEN 0 ELSE q) = IF cut.ask THEN h + k + 1 ELSE 0
  <2>1. PICK chars : chars = {"?"}
    OBVIOUS
  <2>2. CASE cut.ask
    <3>1. h + k + 1 \in (h + 1)..Len(u) /\ h + 1 \in Nat \ {0} /\ ~(h + k + 1 > m)
      BY <1>2, <1>4, <2>2
    <3>2. u[h + k + 1] \in chars /\ \A j \in (h + 1)..(h + k) : u[j] \notin chars
      BY <1>2, <1>5, <1>8, <2>1, <2>2
    <3>3. FirstOf(u, chars, h + 1) = h + k + 1
      <4>1. FoundAt(u, chars, h + 1, h + k + 1)
        BY <3>1, <3>2 DEF FoundAt
      <4> QED BY <4>1, FoundIs, Zenon
    <3> QED BY <2>1, <2>2, <3>1, <3>3, Zenon
  <2>3. CASE ~cut.ask
    <3>1. h + 1 \in Nat \ {0}
      OBVIOUS
    <3>2. \/ FirstOf(u, chars, h + 1) = 0
          \/ \E j \in (h + 1)..Len(u) : FirstOf(u, chars, h + 1) = j /\ u[j] \in chars
      BY <3>1, FirstOfFinds, Zenon DEF Url
    <3>3. ASSUME NEW j \in (h + 1)..Len(u), u[j] \in chars PROVE j > m
      <4>1. j \notin (h + 1)..m
        BY <1>8, <2>1, <2>3, <3>3
      <4> QED BY <4>1
    <3>4. ~(0 > m)
      OBVIOUS
    <3> QED BY <2>1, <2>3, <3>2, <3>3, <3>4, Zenon
  <2> QED BY <1>3, <2>2, <2>3
<1>12. Parts(u) = [path |-> h + 1, query |-> IF cut.ask THEN h + k + 1 ELSE 0,
                   frag |-> IF f = 0 THEN 0 ELSE m + 1, end |-> m]
  <2>1. h + 1 # 0 /\ OrNone(IF f = 0 THEN 0 ELSE m + 1, Len(u) + 1) - 1 = m
    BY <1>4 DEF OrNone
  <2> QED BY <1>9, <1>10, <1>11, <2>1, Zenon DEF Parts, A
<1>13. PICK at : /\ at = Parts(u) /\ at.path = h + 1
                 /\ at.query = (IF cut.ask THEN h + k + 1 ELSE 0)
                 /\ at.frag = (IF f = 0 THEN 0 ELSE m + 1) /\ at.end = m
  BY <1>12
<1>14. /\ at.path # 0 /\ at.path - 1 = h
       /\ OrNone(at.query, at.end + 1) - 1 = h + k
       /\ (at.query = 0 <=> ~cut.ask) /\ (at.frag = 0 <=> f = 0)
       /\ (f # 0 => at.frag = m + 1) /\ (cut.ask => at.query + 1 = h + k + 1 + 1)
  BY <1>2, <1>3, <1>13 DEF OrNone
<1>15. /\ SubSeq(u, 1, h) = cut.head /\ SubSeq(u, h + 1, h + k) = cut.path
       /\ cut.ask => SubSeq(u, h + k + 1 + 1, m) = cut.query
       /\ From(u, m + 1) = cut.frag
  <2>1. SubSeq(u, 0 + 1, 0 + h) = cut.head
    <3>1. 0 \in Nat /\ 0 + h <= Len(u)
      BY <1>2, <1>4
    <3>2. Segment(u, cut.head, 0)
      BY <1>lens, <1>5 DEF Segment
    <3> QED BY <1>lens, <1>3, <3>1, <3>2, SegmentIsPart, Zenon
  <2>2. SubSeq(u, h + 1, h + k) = cut.path
    <3>1. h + k <= Len(u)
      BY <1>2, <1>4
    <3>2. Segment(u, cut.path, h)
      BY <1>lens, <1>5, Zenon DEF Segment
    <3> QED BY <1>lens, <1>3, <3>1, <3>2, SegmentIsPart, Zenon
  <2>3. cut.ask => SubSeq(u, h + k + 1 + 1, h + k + 1 + y) = cut.query
    <3>1. h + k + 1 \in Nat /\ (cut.ask => h + k + 1 + y <= Len(u))
      BY <1>2, <1>4
    <3>2. cut.ask => Segment(u, cut.query, h + k + 1)
      BY <1>lens, <1>5, Zenon DEF Segment
    <3> QED BY <1>lens, <1>3, <3>1, <3>2, SegmentIsPart, Zenon
  <2>4. SubSeq(u, m + 1, m + f) = cut.frag
    <3>1. m + f <= Len(u)
      BY <1>4
    <3>2. Segment(u, cut.frag, m)
      BY <1>lens, <1>5, Zenon DEF Segment
    <3> QED BY <1>lens, <1>3, <3>1, <3>2, SegmentIsPart, Zenon
  <2>5. 0 + 1 = 1 /\ 0 + h = h
    OBVIOUS
  <2> QED BY <1>2, <1>4, <2>1, <2>2, <2>3, <2>4, <2>5, Zenon DEF From
<1>16. f = 0 => cut.frag = <<>>
  <2>1. PICK v \in Url : v = cut.frag /\ Len(v) = f
    BY <1>lens, <1>3
  <2>2. Len(v) = 0 => v = <<>>
    BY DEF Url
  <2> QED BY <2>1, <2>2, Zenon
<1>17. Normalize(u) = SubSeq(u, 1, at.path - 1)
         \o Encode(SubSeq(u, at.path, OrNone(at.query, at.end + 1) - 1), FALSE)
         \o (IF at.query = 0 THEN <<>>
             ELSE <<"?">> \o Encode(SubSeq(u, at.query + 1, at.end), TRUE))
         \o (IF at.frag = 0 THEN <<>> ELSE From(u, at.frag))
  BY <1>13, <1>14, Zenon DEF Normalize
<1>18. Encode(SubSeq(u, at.path, OrNone(at.query, at.end + 1) - 1), FALSE) = Encode(cut.path, FALSE)
  BY <1>13, <1>14, <1>15, Zenon
<1>19. (IF at.query = 0 THEN <<>> ELSE <<"?">> \o Encode(SubSeq(u, at.query + 1, at.end), TRUE))
         = Asked(cut.ask, Encode(cut.query, TRUE))
  <2>1. CASE cut.ask
    <3>1. SubSeq(u, at.query + 1, at.end) = cut.query
      BY <1>13, <1>14, <1>15, <2>1, Zenon
    <3> QED BY <1>14, <2>1, <3>1, Zenon DEF Asked
  <2>2. CASE ~cut.ask
    BY <1>14, <2>2, Zenon DEF Asked
  <2> QED BY <1>3, <2>1, <2>2
<1>20. (IF at.frag = 0 THEN <<>> ELSE From(u, at.frag)) = cut.frag
  BY <1>14, <1>15, <1>16, Zenon
<1>21. SubSeq(u, 1, at.path - 1) = cut.head
  BY <1>14, <1>15, Zenon
<1> QED BY <1>17, <1>18, <1>19, <1>20, <1>21 DEF Normalized, FromLeft

LEMMA UrlCatAgrees ==
  ASSUME NEW a \in Url, NEW b \in Url, NEW c \in Url
  PROVE  CatAgrees(a, b, c)
BY ConcatAssociative DEF Url, CatAgrees

LEMMA UrlCatFour ==
  ASSUME NEW a \in Url, NEW b \in Url, NEW c \in Url, NEW d \in Url
  PROVE  FromLeft(a, b, c, d) = FromRight(a, b, c, d)
<1>1. PICK e \in Url, f \in Url : e = b \o c /\ f = c \o d
  BY Cat DEF Url
<1>2. CatAgrees(a, b, c) /\ CatAgrees(a, e, d) /\ CatAgrees(b, c, d)
  BY <1>1, UrlCatAgrees, Zenon
<1> QED BY <1>1, <1>2 DEF CatAgrees, FromLeft, FromRight

\* A normalized URL has the same parts, encoded.
Encoded(cut) ==
  [head |-> cut.head, path |-> Encode(cut.path, FALSE), ask |-> cut.ask,
   query |-> Encode(cut.query, TRUE), frag |-> cut.frag]

LEMMA EncodedFields ==
  ASSUME NEW cut, NEW e, e = Encoded(cut)
  PROVE  /\ e.head = cut.head /\ e.path = Encode(cut.path, FALSE) /\ e.ask = cut.ask
         /\ e.query = Encode(cut.query, TRUE) /\ e.frag = cut.frag
BY DEF Encoded

LEMMA EncodeEnds ==
  ASSUME NEW w \in Url, NEW q \in BOOLEAN
  PROVE  /\ w = <<>> => Encode(w, q) = <<>>
         /\ w # <<>> /\ w[1] = "/" => Encode(w, q) # <<>> /\ Encode(w, q)[1] = "/"
<1>1. PICK f \in [1..(Len(w) + 3) -> Url] : Encode(w, q) = f[1] /\ Walk(f, w, EncodedTokens(w, q))
  BY EncodeIs
<1>2. Len(w) \in Nat /\ 1 \in 1..(Len(w) + 3)
  BY DEF Url
<1>3. Goes(f, w, EncodedTokens(w, q), 1)
  BY <1>1, <1>2, Zenon DEF Walk
<1>4. CASE w = <<>>
  <2>1. 1 > Len(w)
    BY <1>4
  <2> QED BY <1>1, <1>3, <1>4, <2>1, Zenon DEF Goes
<1>5. ASSUME w # <<>>, w[1] = "/" PROVE Encode(w, q) # <<>> /\ Encode(w, q)[1] = "/"
  <2>1. 1 \in 1..Len(w) /\ ~(1 > Len(w))
    BY <1>2, <1>5 DEF Url
  <2>2. IsLegal("/", q) /\ "/" # "%" /\ ~IsEscape(w, 1)
    BY <1>5 DEF IsLegal, Legal, IsEscape
  <2>3. EncodedTokens(w, q)[1] = <<w[1]>> /\ NextAfter(w, 1) = 1 + 1
    BY <1>5, <2>1, <2>2, Zenon DEF EncodedTokens, EncodedToken, EncodedChar, NextAfter
  <2>4. PICK c \in Char : c = w[1]
    BY <2>1 DEF Url
  <2>5. PICK t \in Url : t = f[1 + 1]
    BY <1>1, <1>2
  <2>6. Encode(w, q) = <<c>> \o t
    BY <1>1, <1>3, <2>1, <2>3, <2>4, <2>5, Zenon DEF Goes
  <2>7. /\ <<c>> \o t \in Url /\ Len(<<c>> \o t) = 1 + Len(t) /\ (<<c>> \o t)[1] = c
    BY OneBefore DEF Url
  <2>8. PICK v \in Url : v = Encode(w, q) /\ Len(v) = 1 + Len(t) /\ v[1] = c
    BY <2>6, <2>7, Zenon
  <2>9. v # <<>>
    BY <2>8 DEF Url
  <2> QED BY <1>5, <2>4, <2>8, <2>9, Zenon
<1> QED BY <1>4, <1>5, Zenon

\* What a clean text does not hold.
LEMMA CleanMisses ==
  ASSUME NEW v \in Url, NEW q \in BOOLEAN, Clean(v, q)
  PROVE  Misses(v, {"#"}) /\ (q = FALSE => Misses(v, {"?", "#"}))
<1>1. DOMAIN v = 1..Len(v)
  BY DEF Url
<1>2. ASSUME NEW i \in 1..Len(v) PROVE v[i] # "#" /\ (q = FALSE => v[i] # "?")
  <2>1. IsEscape(v, i) \/ IsLegal(v[i], q)
    BY DEF Clean, IsClean
  <2>2. CASE IsEscape(v, i)
    BY <2>2 DEF IsEscape
  <2>3. CASE IsLegal(v[i], q)
    BY <2>3, LegalIs, Zenon
  <2> QED BY <2>1, <2>2, <2>3
<1> QED BY <1>1, <1>2 DEF Misses

LEMMA NormalizedIsCut ==
  ASSUME NEW u \in Url, NEW cut, NEW A, IsCut(u, cut, A)
  PROVE  /\ Normalized(cut) \in Url /\ IsCut(Normalized(cut), Encoded(cut), A)
         /\ Clean(Encoded(cut).path, FALSE) /\ Clean(Encoded(cut).query, TRUE)
<1>1. /\ cut.head \in Url /\ cut.path \in Url /\ cut.query \in Url /\ cut.frag \in Url
      /\ cut.ask \in BOOLEAN
      /\ A \in 1..(Len(cut.head) + 1)
      /\ \A i \in A..Len(cut.head) : cut.head[i] \notin {"/", "?", "#"}
      /\ cut.path # <<>> => cut.path[1] = "/"
      /\ cut.frag # <<>> => cut.frag[1] = "#"
      /\ cut.path # <<>> \/ cut.ask \/ cut.frag # <<>>
  BY Zenon DEF IsCut
<1>2. PICK e : e = Encoded(cut)
  OBVIOUS
<1>3. /\ e.head = cut.head /\ e.path = Encode(cut.path, FALSE) /\ e.ask = cut.ask
      /\ e.query = Encode(cut.query, TRUE) /\ e.frag = cut.frag
  BY <1>2, EncodedFields, Zenon
<1>4. /\ e.path \in Url /\ Clean(e.path, FALSE) /\ e.query \in Url /\ Clean(e.query, TRUE)
  <2>1. FALSE \in BOOLEAN /\ TRUE \in BOOLEAN
    OBVIOUS
  <2> QED BY <1>1, <1>3, <2>1, EncodeIsClean, Zenon
<1>5. Misses(e.path, {"?", "#"}) /\ Misses(e.query, {"#"})
  <2>1. FALSE \in BOOLEAN /\ TRUE \in BOOLEAN
    OBVIOUS
  <2> QED BY <1>4, <2>1, CleanMisses, Zenon
<1>6. /\ e.path # <<>> => e.path[1] = "/"
      /\ e.path # <<>> \/ e.ask \/ e.frag # <<>>
  <2>1. FALSE \in BOOLEAN
    OBVIOUS
  <2> QED BY <1>1, <1>3, <2>1, EncodeEnds, Zenon
<1>7. Normalized(cut) = FromRight(e.head, e.path, Asked(e.ask, e.query), e.frag)
  <2>1. Normalized(cut) = FromLeft(e.head, e.path, Asked(e.ask, e.query), e.frag)
    BY <1>3, Zenon DEF Normalized
  <2>2. PICK c \in Url : c = Asked(e.ask, e.query)
    BY <1>1, <1>3, <1>4, AskedIs
  <2>3. PICK a \in Url, b \in Url, d \in Url : a = e.head /\ b = e.path /\ d = e.frag
    BY <1>1, <1>3, <1>4, Zenon
  <2>4. FromLeft(a, b, c, d) = FromRight(a, b, c, d)
    BY UrlCatFour
  <2> QED BY <2>1, <2>2, <2>3, <2>4
<1>8. Normalized(cut) \in Url
  <2>1. PICK c \in Url : c = Asked(e.ask, e.query)
    BY <1>1, <1>3, <1>4, AskedIs
  <2>2. HasFour(FromRight(e.head, e.path, c, e.frag), e.head, e.path, c, e.frag)
    BY <1>1, <1>3, <1>4, FourParts, Zenon
  <2>3. FromRight(e.head, e.path, c, e.frag) \in Url
    BY <2>2, Zenon DEF HasFour
  <2> QED BY <1>7, <2>1, <2>3, Zenon
<1>9. IsCut(Normalized(cut), e, A)
  BY <1>1, <1>3, <1>4, <1>5, <1>6, <1>7, Zenon DEF IsCut
<1> QED BY <1>2, <1>4, <1>8, <1>9, Zenon
-----------------------------------------------------------------------------
(* What goes on the wire is accepted                                       *)

\* What goes on the wire of n: all before its first "#".
IsWire(w, n, M) ==
  /\ w \in Url /\ M \in Nat /\ Len(w) = M /\ M <= Len(n)
  /\ \A i \in 1..M : w[i] = n[i] /\ n[i] # "#"
  /\ M < Len(n) => n[M + 1] = "#"

LEMMA WireIs ==
  ASSUME NEW n \in Url
  PROVE  \E M \in Nat : IsWire(UpToFragment(n), n, M)
<1>1. PICK chars : chars = {"#"}
  OBVIOUS
<1>2. PICK one \in Nat \ {0} : one = 1
  OBVIOUS
<1>3. Len(n) \in Nat /\ Len(n) <= Len(n)
  BY DEF Url
<1>4. \/ FirstOf(n, chars, one) = 0 /\ \A j \in one..Len(n) : n[j] \notin chars
      \/ \E k \in one..Len(n) : /\ FirstOf(n, chars, one) = k
                                /\ n[k] \in chars /\ \A j \in one..(k - 1) : n[j] \notin chars
  BY FirstOfFinds, Zenon DEF Url
<1>5. ASSUME NEW M \in Nat, M <= Len(n), UpToFragment(n) = SubSeq(n, 1, M),
             \A i \in 1..M : n[i] # "#", M < Len(n) => n[M + 1] = "#"
      PROVE  IsWire(UpToFragment(n), n, M)
  <2>1. PICK w : w = SubSeq(n, 1, M)
    OBVIOUS
  <2>2. IsPart(w, n, one, M)
    BY <1>2, <1>5, <2>1, PartIs, Zenon
  <2>3. w \in Url /\ Len(w) = M /\ \A i \in 1..M : w[i] = n[i]
    BY <1>2, <2>2 DEF IsPart
  <2> QED BY <1>5, <2>1, <2>3, Zenon DEF IsWire
<1>6. CASE FirstOf(n, chars, one) = 0 /\ \A j \in one..Len(n) : n[j] \notin chars
  <2>1. OrNone(FirstOf(n, {"#"}, 1), Len(n) + 1) - 1 = Len(n)
    BY <1>1, <1>2, <1>3, <1>6 DEF OrNone
  <2>2. UpToFragment(n) = SubSeq(n, 1, Len(n))
    BY <2>1, Zenon DEF UpToFragment
  <2>3. ~(Len(n) < Len(n)) /\ \A i \in 1..Len(n) : n[i] # "#"
    BY <1>1, <1>2, <1>3, <1>6
  <2> QED BY <1>3, <1>5, <2>2, <2>3, Zenon
<1>7. ASSUME NEW k \in one..Len(n), FirstOf(n, chars, one) = k,
             n[k] \in chars, \A j \in one..(k - 1) : n[j] \notin chars
      PROVE  \E M \in Nat : IsWire(UpToFragment(n), n, M)
  <2>1. PICK M \in Nat : M = k - 1 /\ M <= Len(n) /\ M + 1 = k
    BY <1>2, <1>3
  <2>2. OrNone(FirstOf(n, {"#"}, 1), Len(n) + 1) - 1 = M
    BY <1>1, <1>2, <1>3, <1>7, <2>1 DEF OrNone
  <2>3. UpToFragment(n) = SubSeq(n, 1, M)
    BY <2>2, Zenon DEF UpToFragment
  <2>4. n[M + 1] = "#" /\ \A i \in 1..M : n[i] # "#"
    BY <1>1, <1>2, <1>7, <2>1
  <2> QED BY <1>5, <2>1, <2>3, <2>4, Zenon
<1> QED BY <1>4, <1>6, <1>7, Zenon

\* A position of n that the client's parser takes, if n ends at m.
Fine(n, m, j) ==
  /\ n[j] # " " /\ n[j] # "#"
  /\ n[j] = "%" => j + 2 <= m /\ n[j + 1] \in Hex /\ n[j + 2] \in Hex

LEMMA CleanIsFine ==
  ASSUME NEW n, NEW v \in Url, NEW q \in BOOLEAN, Clean(v, q), NEW s \in Nat, Segment(n, v, s),
         NEW m \in Nat, s + Len(v) <= m, NEW i \in 1..Len(v)
  PROVE  Fine(n, m, s + i)
<1>1. Len(v) \in Nat /\ \A j \in 1..Len(v) : n[s + j] = v[j]
  BY Zenon DEF Segment
<1>2. n[s + i] = v[i]
  BY <1>1, Zenon
<1>3. IsEscape(v, i) \/ IsLegal(v[i], q)
  BY Zenon DEF Clean, IsClean
<1>4. CASE IsEscape(v, i)
  <2>1. v[i] = "%" /\ i + 2 <= Len(v) /\ v[i + 1] \in Hex /\ v[i + 2] \in Hex
    BY <1>4, Zenon DEF IsEscape
  <2>2. /\ i + 1 \in 1..Len(v) /\ i + 2 \in 1..Len(v) /\ s + i + 2 <= m
        /\ s + (i + 1) = s + i + 1 /\ s + (i + 2) = s + i + 2
    BY <1>1, <2>1
  <2>3. n[s + i + 1] = v[i + 1] /\ n[s + i + 2] = v[i + 2]
    BY <1>1, <2>2
  <2>4. n[s + i] # " " /\ n[s + i] # "#"
    BY <1>2, <2>1
  <2> QED BY <1>2, <2>1, <2>2, <2>3, <2>4, Zenon DEF Fine
<1>5. CASE IsLegal(v[i], q)
  BY <1>2, <1>5, LegalIs, Zenon DEF Fine
<1> QED BY <1>3, <1>4, <1>5

\* From the path on a clean URL is fine up to its fragment.
LEMMA CutIsFine ==
  ASSUME NEW n \in Url, NEW cut, NEW A, IsCut(n, cut, A),
         Clean(cut.path, FALSE), Clean(cut.query, TRUE),
         NEW h \in Nat, NEW k \in Nat, NEW y \in Nat, NEW f \in Nat, NEW m \in Nat,
         Places(n, cut, h, k, y, f, m)
  PROVE  h <= m /\ \A j \in (h + 1)..m : Fine(n, m, j)
<1>lens. h = Len(cut.head) /\ k = Len(cut.path) /\ y = Len(cut.query) /\ f = Len(cut.frag)
  BY Zenon DEF Places
<1>1. (cut.ask => m = h + k + 1 + y) /\ (~cut.ask => m = h + k)
  BY Zenon DEF Places
<1>2. cut.path \in Url /\ cut.query \in Url /\ FALSE \in BOOLEAN /\ TRUE \in BOOLEAN
  BY Zenon DEF IsCut
<1>3. h <= m /\ h + k <= m /\ (cut.ask => h + k + 1 + y <= m)
  BY <1>1
<1>4. ASSUME NEW i \in 1..k PROVE Fine(n, m, h + i)
  <2>1. Segment(n, cut.path, h)
    BY <1>lens, Zenon DEF Segment, Places
  <2> QED BY <1>lens, <1>2, <1>3, <2>1, CleanIsFine, Zenon
<1>5. ASSUME cut.ask, NEW i \in 1..y PROVE Fine(n, m, h + k + 1 + i)
  <2>1. PICK s \in Nat : s = h + k + 1
    OBVIOUS
  <2>2. Segment(n, cut.query, s)
    BY <1>lens, <1>5, <2>1, Zenon DEF Segment, Places
  <2>3. Fine(n, m, s + i)
    BY <1>lens, <1>2, <1>3, <1>5, <2>1, <2>2, CleanIsFine, Zenon
  <2> QED BY <2>1, <2>3, Zenon
<1>6. ASSUME cut.ask PROVE Fine(n, m, h + k + 1)
  <2>1. n[h + k + 1] = "?"
    BY <1>6, Zenon DEF Places
  <2>2. n[h + k + 1] # " " /\ n[h + k + 1] # "#" /\ n[h + k + 1] # "%"
    BY <2>1
  <2> QED BY <2>2, Zenon DEF Fine
<1>7. ASSUME NEW j \in (h + 1)..m PROVE Fine(n, m, j)
  <2>1. CASE j <= h + k
    <3>1. PICK i \in 1..k : h + i = j
      <4>1. j - h \in 1..k /\ h + (j - h) = j
        BY <2>1
      <4> QED BY <4>1
    <3> QED BY <1>4, <3>1
  <2>2. CASE j > h + k
    <3>1. cut.ask
      BY <1>1, <2>2
    <3>2. m = h + k + 1 + y
      BY <1>1, <3>1, Zenon
    <3>3. CASE j = h + k + 1
      BY <1>6, <3>1, <3>3, Zenon
    <3>4. CASE j # h + k + 1
      <4>1. PICK i \in 1..y : h + k + 1 + i = j
        <5>1. j - h - k - 1 \in 1..y /\ h + k + 1 + (j - h - k - 1) = j
          BY <2>2, <3>2, <3>4
        <5> QED BY <5>1
      <4> QED BY <1>5, <3>1, <4>1
    <3> QED BY <3>3, <3>4
  <2> QED BY <2>1, <2>2
<1> QED BY <1>3, <1>7, Zenon

LEMMA FineIsWellFormed ==
  ASSUME NEW w \in Url, NEW n \in Url, NEW M \in Nat, IsWire(w, n, M), NEW p \in 1..M,
         \A j \in p..M : Fine(n, M, j)
  PROVE  WellFormed(From(w, p))
<1>1. PICK v : v = From(w, p)
  OBVIOUS
<1>2. w \in Url /\ Len(w) = M /\ M <= Len(w) /\ \A i \in 1..M : w[i] = n[i]
  BY DEF IsWire
<1>3. v \in Url /\ Len(v) = M - p + 1 /\ \A i \in 1..(M - p + 1) : v[i] = w[p + i - 1]
  <2>1. p \in Nat \ {0} /\ p <= M
    OBVIOUS
  <2>2. IsPart(v, w, p, M)
    BY <1>1, <1>2, <2>1, PartIs, Zenon DEF From
  <2> QED BY <2>1, <2>2 DEF IsPart
<1>4. \A i \in 1..(M - p + 1) : v[i] = n[p + i - 1]
  <2> TAKE i \in 1..(M - p + 1)
  <2>1. p + i - 1 \in 1..M
    OBVIOUS
  <2> QED BY <1>2, <1>3, <2>1
<1>5. ASSUME NEW i \in 1..(M - p + 1) PROVE v[i] # " " /\ (v[i] = "%" => Escaped(v, i))
  <2>1. PICK j \in p..M : j = p + i - 1
    OBVIOUS
  <2>2. n[j] # " " /\ (n[j] = "%" => j + 2 <= M /\ n[j + 1] \in Hex /\ n[j + 2] \in Hex)
    BY Zenon DEF Fine
  <2>3. v[i] = n[j]
    BY <1>4, <2>1
  <2>4. ASSUME v[i] = "%" PROVE Escaped(v, i)
    <3>1. j + 2 <= M /\ n[j + 1] \in Hex /\ n[j + 2] \in Hex
      BY <2>2, <2>3, <2>4, Zenon
    <3>2. /\ i + 1 \in 1..(M - p + 1) /\ i + 2 \in 1..(M - p + 1) /\ i + 2 <= M - p + 1
          /\ p + (i + 1) - 1 = j + 1 /\ p + (i + 2) - 1 = j + 2
      BY <2>1, <3>1
    <3>3. v[i + 1] = n[p + (i + 1) - 1] /\ v[i + 2] = n[p + (i + 2) - 1]
      BY <1>4, <3>2, Zenon
    <3>4. v[i + 1] \in Hex /\ v[i + 2] \in Hex
      BY <3>1, <3>2, <3>3
    <3>5. {v[i + 1], v[i + 2]} \subseteq HexDigits
      BY <3>4 DEF HexDigits
    <3>6. i + 2 <= Len(v)
      BY <1>3, <3>2
    <3> QED BY <2>4, <3>5, <3>6, Zenon DEF Escaped
  <2> QED BY <2>2, <2>3, <2>4, Zenon
<1>6. DOMAIN v = 1..(M - p + 1)
  BY <1>3 DEF Url
<1> QED BY <1>1, <1>5, <1>6, Zenon DEF WellFormed

\* UrlIsAccepted of the text n, whose authority begins at A.
IsAccepted(n, A) ==
  FirstOf(UpToFragment(n), {"/", "?"}, A) # 0 =>
    WellFormed(From(UpToFragment(n), FirstOf(UpToFragment(n), {"/", "?"}, A)))

\* Where the path on the wire begins.
LEMMA PathOnWire ==
  ASSUME NEW n \in Url, NEW w \in Url, NEW M \in Nat, IsWire(w, n, M), NEW A \in Nat \ {0},
         FirstOf(w, {"/", "?"}, A) # 0
  PROVE  \E p \in A..M : FirstOf(w, {"/", "?"}, A) = p /\ n[p] \in {"/", "?"}
<1>1. PICK chars : chars = {"/", "?"}
  OBVIOUS
<1>2. \E p \in A..Len(w) : FirstOf(w, chars, A) = p /\ w[p] \in chars
  BY <1>1, FirstOfFinds, Zenon DEF Url
<1>3. PICK p \in A..Len(w) : FirstOf(w, chars, A) = p /\ w[p] \in chars
  BY <1>2, Zenon
<1>4. Len(w) = M /\ \A i \in 1..M : w[i] = n[i]
  BY Zenon DEF IsWire
<1>5. p \in A..M /\ p \in 1..M
  BY <1>3, <1>4
<1>6. w[p] = n[p]
  BY <1>4, <1>5, Zenon
<1> QED BY <1>1, <1>3, <1>5, <1>6, Zenon

LEMMA CutIsAccepted ==
  ASSUME NEW n \in Url, NEW cut, NEW A, IsCut(n, cut, A),
         Clean(cut.path, FALSE), Clean(cut.query, TRUE)
  PROVE  IsAccepted(n, A)
<1>1. PICK w : w = UpToFragment(n)
  OBVIOUS
<1>2. PICK M \in Nat : IsWire(w, n, M)
  BY <1>1, WireIs, Zenon
<1>3. w \in Url
  BY <1>2, Zenon DEF IsWire
<1>4. PICK h \in Nat, k \in Nat, y \in Nat, f \in Nat, m \in Nat : Places(n, cut, h, k, y, f, m)
  BY CutPlaces, Zenon
<1>lens. h = Len(cut.head) /\ f = Len(cut.frag)
  BY <1>4, Zenon DEF Places
<1>5. h <= m /\ \A j \in (h + 1)..m : Fine(n, m, j)
  BY <1>4, CutIsFine, Zenon
<1>6. A \in 1..(h + 1) /\ \A i \in A..h : cut.head[i] \notin {"/", "?", "#"}
  BY <1>lens, Zenon DEF IsCut
<1>7. /\ Len(n) = m + f /\ \A i \in 1..h : n[i] = cut.head[i]
      /\ \A i \in 1..f : n[m + i] = cut.frag[i]
  BY <1>4, Zenon DEF Places
<1>8. f # 0 => n[m + 1] = "#"
  <2>1. cut.frag \in Url /\ (cut.frag # <<>> => cut.frag[1] = "#")
    BY Zenon DEF IsCut
  <2>2. f # 0 => cut.frag # <<>> /\ 1 \in 1..f
    BY <1>lens, <2>1
  <2> QED BY <1>7, <2>1, <2>2
<1>9. M <= Len(n) /\ (\A i \in 1..M : n[i] # "#") /\ (M < Len(n) => n[M + 1] = "#")
  BY <1>2, Zenon DEF IsWire
<1>10. ASSUME FirstOf(w, {"/", "?"}, A) # 0
       PROVE  WellFormed(From(w, FirstOf(w, {"/", "?"}, A)))
  <2>1. A \in Nat \ {0}
    BY <1>6
  <2>2. PICK p \in A..M : FirstOf(w, {"/", "?"}, A) = p /\ n[p] \in {"/", "?"}
    BY <1>2, <1>3, <1>10, <2>1, PathOnWire, Zenon
  <2>3. p \in 1..M /\ p > h
    <3>1. p \in 1..M
      BY <1>6
    <3>2. ASSUME p <= h PROVE FALSE
      <4>1. p \in A..h /\ p \in 1..h
        BY <1>6, <3>2
      <4>2. n[p] \notin {"/", "?", "#"}
        BY <1>6, <1>7, <4>1
      <4> QED BY <2>2, <4>2
    <3> QED BY <3>1, <3>2
  <2>4. ~(M > m)
    <3>1. ASSUME M > m PROVE FALSE
      <4>1. f # 0 /\ m + 1 \in 1..M
        BY <1>7, <1>9, <3>1
      <4> QED BY <1>8, <1>9, <4>1
    <3> QED BY <3>1
  <2>5. ~(M < m)
    <3>1. ASSUME M < m PROVE FALSE
      <4>1. M + 1 \in (h + 1)..m /\ M < Len(n)
        BY <1>7, <2>3, <3>1
      <4>2. n[M + 1] # "#"
        BY <1>5, <4>1, Zenon DEF Fine
      <4> QED BY <1>9, <4>1, <4>2
    <3> QED BY <3>1
  <2>6. M = m
    BY <2>4, <2>5
  <2>7. \A j \in p..M : Fine(n, M, j)
    <3> TAKE j \in p..M
    <3>1. j \in (h + 1)..m
      BY <2>3, <2>6
    <3> QED BY <1>5, <2>6, <3>1, Zenon
  <2>8. WellFormed(From(w, p))
    BY <1>2, <1>3, <2>3, <2>7, FineIsWellFormed, Zenon
  <2> QED BY <2>2, <2>8, Zenon
<1> QED BY <1>1, <1>10, Zenon DEF IsAccepted

LEMMA NormalizedIsAccepted ==
  ASSUME NEW u \in Url
  PROVE  IsAccepted(Normalize(u), Authority(u))
<1>1. CASE Parts(u).path = 0
  <2>1. Normalize(u) = u
    BY <1>1, Zenon DEF Normalize
  <2>2. PICK A \in Nat \ {0} : A = Authority(u)
    BY AuthorityIs
  <2>3. FirstOf(u, {"/", "?", "#"}, A) = 0
    BY <1>1, <2>2 DEF Parts
  <2>4. \A j \in A..Len(u) : u[j] \notin {"/", "?", "#"}
    <3>1. PICK chars : chars = {"/", "?", "#"}
      OBVIOUS
    <3>2. \/ FirstOf(u, chars, A) = 0 /\ \A j \in A..Len(u) : u[j] \notin chars
          \/ \E k \in A..Len(u) : FirstOf(u, chars, A) = k
      BY FirstOfFinds, Zenon DEF Url
    <3>3. \A k \in A..Len(u) : k # 0
      OBVIOUS
    <3> QED BY <2>3, <3>1, <3>2, <3>3, Zenon
  <2>5. PICK w : w = UpToFragment(u)
    OBVIOUS
  <2>6. PICK M \in Nat : IsWire(w, u, M)
    BY <2>5, WireIs, Zenon
  <2>7. w \in Url /\ M <= Len(u) /\ Len(u) \in Nat
    BY <2>6 DEF IsWire, Url
  <2>8. ASSUME FirstOf(w, {"/", "?"}, A) # 0 PROVE FALSE
    <3>1. PICK p \in A..M : u[p] \in {"/", "?"}
      BY <2>6, <2>7, <2>8, PathOnWire, Zenon
    <3>2. p \in A..Len(u)
      BY <2>7
    <3> QED BY <2>4, <3>1, <3>2
  <2> QED BY <2>1, <2>2, <2>5, <2>8, Zenon DEF IsAccepted
<1>2. CASE Parts(u).path # 0
  <2>1. PICK cut : IsCut(u, cut, Authority(u))
    BY <1>2, CutExists, Zenon
  <2>2. Normalize(u) = Normalized(cut)
    BY <2>1, CutIs, Zenon
  <2>3. /\ Normalized(cut) \in Url /\ IsCut(Normalized(cut), Encoded(cut), Authority(u))
        /\ Clean(Encoded(cut).path, FALSE) /\ Clean(Encoded(cut).query, TRUE)
    BY <2>1, NormalizedIsCut, Zenon
  <2> QED BY <2>2, <2>3, CutIsAccepted, Zenon
<1> QED BY <1>1, <1>2

-----------------------------------------------------------------------------
(* A reader of the result                                                  *)

\* No escape of a \o b reaches from a into b.
Unbroken(a, b) == \A i \in 1..Len(a) : IsEscape(a \o b, i) => IsEscape(a, i)

\* One walk after the other.
Joined(fa, fb, n, N) == [i \in 1..N |-> IF i <= n THEN fa[i] \o fb[1] ELSE fb[i - n]]

ByteText == Seq(Url)

LEMMA ByteCatAgrees ==
  ASSUME NEW a \in ByteText, NEW b \in ByteText, NEW c \in ByteText
  PROVE  CatAgrees(a, b, c)
BY ConcatAssociative DEF ByteText, CatAgrees

LEMMA ByteEmpty ==
  ASSUME NEW a \in ByteText
  PROVE  <<>> \o a = a /\ a \o <<>> = a
BY ConcatEmptySeq DEF ByteText

\* The tokens of a text put together.
HasTokens(u, a, b) ==
  /\ u \in Url /\ Len(a) \in Nat /\ Len(b) \in Nat /\ Len(u) = Len(a) + Len(b)
  /\ \A i \in 1..Len(a) : ByteToken(u, i) = ByteToken(a, i) /\ NextAfter(u, i) = NextAfter(a, i)
  /\ \A i \in 1..Len(b) : /\ ByteToken(u, Len(a) + i) = ByteToken(b, i)
                          /\ NextAfter(u, Len(a) + i) = Len(a) + NextAfter(b, i)

LEMMA CatTokens ==
  ASSUME NEW a \in Url, NEW b \in Url, Unbroken(a, b), NEW u, u = a \o b
  PROVE  HasTokens(u, a, b)
<1>1. IsCat(u, a, b)
  BY CatIs
<1>2. /\ u \in Url /\ Len(a) \in Nat /\ Len(b) \in Nat /\ Len(u) = Len(a) + Len(b)
      /\ \A i \in 1..Len(a) : u[i] = a[i]
      /\ \A i \in 1..Len(b) : u[Len(a) + i] = b[i]
  BY <1>1, Zenon DEF IsCat
<1>3. /\ \A i \in 1..Len(a) : IsEscape(u, i) <=> IsEscape(a, i)
      /\ \A i \in 1..Len(b) : IsEscape(u, Len(a) + i) <=> IsEscape(b, i)
  BY CatEscapes, Zenon DEF Unbroken
<1>4. ASSUME NEW i \in 1..Len(a)
      PROVE  ByteToken(u, i) = ByteToken(a, i) /\ NextAfter(u, i) = NextAfter(a, i)
  <2>1. CASE IsEscape(a, i)
    <3>1. i + 1 \in 1..Len(a) /\ i + 2 \in 1..Len(a)
      BY <1>2, <2>1 DEF IsEscape
    <3>2. u[i + 1] = a[i + 1] /\ u[i + 2] = a[i + 2]
      BY <1>2, <3>1, Zenon
    <3> QED BY <1>3, <2>1, <3>2, Zenon DEF ByteToken, NextAfter
  <2>2. CASE ~IsEscape(a, i)
    BY <1>2, <1>3, <2>2, Zenon DEF ByteToken, NextAfter
  <2> QED BY <2>1, <2>2
<1>5. ASSUME NEW i \in 1..Len(b)
      PROVE  /\ ByteToken(u, Len(a) + i) = ByteToken(b, i)
             /\ NextAfter(u, Len(a) + i) = Len(a) + NextAfter(b, i)
  <2>1. Len(a) + i + 3 = Len(a) + (i + 3) /\ Len(a) + i + 1 = Len(a) + (i + 1)
    BY <1>2
  <2>2. CASE IsEscape(b, i)
    <3>1. i + 1 \in 1..Len(b) /\ i + 2 \in 1..Len(b) /\ Len(a) + i + 2 = Len(a) + (i + 2)
      BY <1>2, <2>2 DEF IsEscape
    <3>2. u[Len(a) + i + 1] = b[i + 1] /\ u[Len(a) + i + 2] = b[i + 2]
      BY <1>2, <2>1, <3>1, Zenon
    <3> QED BY <1>3, <2>1, <2>2, <3>2, Zenon DEF ByteToken, NextAfter
  <2>3. CASE ~IsEscape(b, i)
    BY <1>2, <1>3, <2>1, <2>3, Zenon DEF ByteToken, NextAfter
  <2> QED BY <2>2, <2>3
<1> QED BY <1>2, <1>4, <1>5, Zenon DEF HasTokens

LEMMA BytesCat ==
  ASSUME NEW a \in Url, NEW b \in Url, Unbroken(a, b)
  PROVE  Bytes(a \o b) = Bytes(a) \o Bytes(b)
<1>1. PICK u : u = a \o b
  OBVIOUS
<1>2. /\ u \in Url /\ Len(a) \in Nat /\ Len(b) \in Nat /\ Len(u) = Len(a) + Len(b)
      /\ \A i \in 1..Len(a) : ByteToken(u, i) = ByteToken(a, i) /\ NextAfter(u, i) = NextAfter(a, i)
      /\ \A i \in 1..Len(b) : /\ ByteToken(u, Len(a) + i) = ByteToken(b, i)
                              /\ NextAfter(u, Len(a) + i) = Len(a) + NextAfter(b, i)
  <2>1. HasTokens(u, a, b)
    BY <1>1, CatTokens
  <2> QED BY <2>1, Zenon DEF HasTokens
<1>3. PICK n \in Nat, k \in Nat : n = Len(a) /\ k = Len(b)
  BY <1>2
<1>4. PICK fa \in [1..(n + 3) -> ByteText] : Bytes(a) = fa[1] /\ Walk(fa, a, ByteTokens(a))
  BY <1>3, BytesIs, Zenon DEF ByteText
<1>5. PICK fb \in [1..(k + 3) -> ByteText] : Bytes(b) = fb[1] /\ Walk(fb, b, ByteTokens(b))
  BY <1>3, BytesIs, Zenon DEF ByteText
<1>6. PICK f : Bytes(u) = f[1] /\ Walk(f, u, ByteTokens(u))
  BY <1>2, BytesIs, Zenon
<1>7. PICK N \in Nat : N = n + k + 3 /\ N = Len(u) + 3
  BY <1>2, <1>3
<1>8. PICK g : g = Joined(fa, fb, n, N)
  OBVIOUS
<1>9. /\ \A i \in 1..n : i \in 1..N /\ g[i] = fa[i] \o fb[1]
      /\ \A i \in 1..(k + 3) : n + i \in 1..N /\ g[n + i] = fb[i]
  <2>1. ASSUME NEW i \in 1..n PROVE i \in 1..N /\ g[i] = fa[i] \o fb[1]
    <3>1. i \in 1..N /\ i <= n
      BY <1>7
    <3> QED BY <1>8, <3>1, Zenon DEF Joined
  <2>2. ASSUME NEW i \in 1..(k + 3) PROVE n + i \in 1..N /\ g[n + i] = fb[i]
    <3>1. n + i \in 1..N /\ ~(n + i <= n) /\ n + i - n = i
      BY <1>7
    <3>2. \A x \in 1..N : ~(x <= n) => g[x] = fb[x - n]
      BY <1>8, Zenon DEF Joined
    <3> QED BY <3>1, <3>2
  <2> QED BY <2>1, <2>2
<1>10. \A i \in 1..n : ByteTokens(a)[i] = ByteToken(a, i) /\ ByteTokens(a)[i] \in ByteText
  BY <1>3, ByteTokensAre, Zenon DEF ByteTokens, ByteText
<1>11. \A i \in 1..(n + k) : ByteTokens(u)[i] = ByteToken(u, i)
  <2>1. Len(u) = n + k
    BY <1>2, <1>3
  <2> QED BY <2>1, Zenon DEF ByteTokens
<1>12. fb[1] \in ByteText /\ \A i \in 1..(n + 3) : fa[i] \in ByteText
  BY <1>4, <1>5
<1>13. ASSUME NEW i \in 1..n PROVE Goes(g, u, ByteTokens(u), i)
  <2>1. i \in 1..(n + 3) /\ i \in 1..(n + k) /\ ~(i > Len(a)) /\ ~(i > Len(u))
    BY <1>2, <1>3
  <2>2. PICK j \in (i + 1)..(n + 3) : j = NextAfter(a, i) /\ NextAfter(u, i) = j /\ j \in 1..(n + 3)
    BY <1>2, <1>3, NextIsLater, Zenon
  <2>3. fa[i] = ByteTokens(a)[i] \o fa[j]
    BY <1>4, <2>1, <2>2, <1>3, Zenon DEF Walk, Goes
  <2>4. g[j] = fa[j] \o fb[1]
    <3>1. CASE j <= n
      <4>1. j \in 1..n
        BY <3>1
      <4> QED BY <1>9, <4>1, Zenon
    <3>2. CASE j > n
      <4>1. j = n + 1
        <5>1. IsEscape(a, i) => j = i + 3 /\ i + 2 <= n
          BY <1>3, <2>2, Zenon DEF NextAfter, IsEscape
        <5>2. ~IsEscape(a, i) => j = i + 1
          BY <2>2, Zenon DEF NextAfter
        <5> QED BY <3>2, <5>1, <5>2
      <4>2. g[j] = fb[1]
        <5>1. 1 \in 1..(k + 3)
          OBVIOUS
        <5> QED BY <1>9, <4>1, <5>1, Zenon
      <4>3. fa[j] = <<>>
        <5>1. j > Len(a)
          BY <1>3, <3>2
        <5> QED BY <1>3, <1>4, <2>2, <5>1, Zenon DEF Walk, Goes
      <4> QED BY <1>12, <4>2, <4>3, ByteEmpty, Zenon
    <3>3. j <= n \/ j > n
      OBVIOUS
    <3> QED BY <3>1, <3>2, <3>3, Zenon
  <2>5. g[i] = (ByteTokens(a)[i] \o fa[j]) \o fb[1]
    BY <1>9, <2>3, Zenon
  <2>6. CatAgrees(ByteTokens(a)[i], fa[j], fb[1])
    BY <1>10, <1>12, <2>2, ByteCatAgrees, Zenon
  <2>7. ByteTokens(u)[i] = ByteTokens(a)[i]
    BY <1>2, <1>3, <1>10, <1>11, <2>1, Zenon
  <2>8. g[i] = ByteTokens(u)[i] \o g[NextAfter(u, i)]
    BY <2>2, <2>4, <2>5, <2>6, <2>7 DEF CatAgrees
  <2> QED BY <2>1, <2>8, Zenon DEF Goes
<1>14. ASSUME NEW i \in 1..(k + 3) PROVE Goes(g, u, ByteTokens(u), n + i)
  <2>1. Goes(fb, b, ByteTokens(b), i)
    BY <1>3, <1>5, Zenon DEF Walk
  <2>2. g[n + i] = fb[i] /\ (n + i > Len(u) <=> i > Len(b))
    <3>1. n + i > Len(u) <=> i > Len(b)
      BY <1>2, <1>3
    <3> QED BY <1>9, <3>1, Zenon
  <2>3. CASE i > Len(b)
    BY <2>1, <2>2, <2>3, Zenon DEF Goes
  <2>4. CASE ~(i > Len(b))
    <3>1. i \in 1..k /\ i \in 1..Len(b) /\ n + i \in 1..(n + k)
      BY <1>3, <2>4
    <3>2. PICK j \in 1..(k + 3) : j = NextAfter(b, i) /\ NextAfter(u, n + i) = n + j
      BY <1>2, <1>3, <3>1, NextIsLater, Zenon
    <3>3. g[n + j] = fb[j]
      BY <1>9, Zenon
    <3>4. ByteTokens(b)[i] = ByteTokens(u)[n + i]
      <4>1. ByteTokens(b)[i] = ByteToken(b, i)
        BY <3>1, Zenon DEF ByteTokens
      <4> QED BY <1>2, <1>3, <1>11, <3>1, <4>1, Zenon
    <3> QED BY <2>1, <2>2, <2>4, <3>2, <3>3, <3>4, Zenon DEF Goes
  <2> QED BY <2>3, <2>4
<1>15. Walk(g, u, ByteTokens(u))
  <2>1. ASSUME NEW i \in 1..(Len(u) + 3) PROVE Goes(g, u, ByteTokens(u), i)
    <3>1. i \in 1..n \/ (i - n \in 1..(k + 3) /\ i = n + (i - n))
      BY <1>7
    <3> QED BY <1>13, <1>14, <3>1, Zenon
  <2> QED BY <2>1, Zenon DEF Walk
<1>16. f[1] = g[1]
  <2>1. 1 \in 1..(Len(u) + 3)
    BY <1>2
  <2>2. PICK tok : tok = ByteTokens(u)
    OBVIOUS
  <2>3. Walk(f, u, tok) /\ Walk(g, u, tok) /\ u \in Url
    BY <1>2, <1>6, <1>15, <2>2, Zenon
  <2>4. \A i \in 1..(Len(u) + 3) : f[i] = g[i]
    BY <2>3, WalksAgree
  <2> QED BY <2>1, <2>4, Zenon
<1>17. g[1] = fa[1] \o fb[1]
  <2>1. CASE n = 0
    <3>1. 1 \in 1..(k + 3) /\ n + 1 = 1
      BY <2>1
    <3>2. 1 > Len(a) /\ 1 \in 1..(Len(a) + 3)
      BY <1>3, <2>1
    <3>3. fa[1] = <<>>
      BY <1>4, <3>2, Zenon DEF Walk, Goes
    <3>4. g[1] = fb[1]
      <4>1. g[n + 1] = fb[1]
        BY <1>9, <3>1, Zenon
      <4> QED BY <3>1, <4>1
    <3> QED BY <1>12, <3>3, <3>4, ByteEmpty, Zenon
  <2>2. CASE n # 0
    <3>1. 1 \in 1..n
      BY <2>2
    <3> QED BY <1>9, <3>1, Zenon
  <2> QED BY <2>1, <2>2
<1> QED BY <1>1, <1>4, <1>5, <1>6, <1>16, <1>17, Zenon

LEMMA UnbrokenIf ==
  ASSUME NEW a \in Url, NEW b \in Url,
         \/ Apart(b)
         \/ Len(a) = 1 /\ a[1] # "%"
         \/ Len(a) = 3 /\ a[1] = "%" /\ a[2] \in Hex /\ a[3] \in Hex
  PROVE  Unbroken(a, b)
<1>1. PICK u : u = a \o b
  OBVIOUS
<1>2. IsCat(u, a, b)
  BY <1>1, CatIs
<1>3. \A i \in 1..Len(a) : u[i] = a[i]
  BY <1>2, Zenon DEF IsCat
<1>4. ASSUME NEW i \in 1..Len(a), IsEscape(u, i) PROVE IsEscape(a, i)
  <2>1. a[i] = "%"
    BY <1>3, <1>4, Zenon DEF IsEscape
  <2>2. CASE Apart(b)
    BY <1>1, <1>4, <2>2, CatEscapes, Zenon
  <2>3. CASE Len(a) = 1 /\ a[1] # "%"
    <3>1. i = 1
      BY <2>3
    <3> QED BY <2>1, <2>3, <3>1
  <2>4. CASE Len(a) = 3 /\ a[1] = "%" /\ a[2] \in Hex /\ a[3] \in Hex
    <3>1. i = 1 \/ i = 2 \/ i = 3
      BY <2>4
    <3>2. "%" \notin Hex
      BY DEF Hex
    <3>3. i = 1
      BY <2>1, <2>4, <3>1, <3>2
    <3> QED BY <2>4, <3>3 DEF IsEscape
  <2> QED BY <2>2, <2>3, <2>4
<1> QED BY <1>1, <1>4, Zenon DEF Unbroken

LEMMA BytesOfNone == Bytes(<<>>) = <<>>
<1>1. <<>> \in Url /\ Len(<<>>) = 0
  BY DEF Url
<1>2. PICK e \in Url : e = <<>> /\ Len(e) = 0
  BY <1>1, Zenon
<1>3. PICK h : Bytes(e) = h[1] /\ Walk(h, e, ByteTokens(e))
  BY BytesIs, Zenon
<1>4. 1 \in 1..(Len(e) + 3) /\ 1 > Len(e)
  BY <1>2
<1> QED BY <1>2, <1>3, <1>4, Zenon DEF Walk, Goes

\* One token is read as itself.
LEMMA BytesOfToken ==
  ASSUME NEW t \in Url, Len(t) # 0, NextAfter(t, 1) = Len(t) + 1
  PROVE  Bytes(t) = ByteToken(t, 1)
<1>1. PICK f \in [1..(Len(t) + 3) -> Seq(Url)] : Bytes(t) = f[1] /\ Walk(f, t, ByteTokens(t))
  BY BytesIs, Zenon
<1>2. /\ 1 \in 1..(Len(t) + 3) /\ 1 \in 1..Len(t) /\ ~(1 > Len(t))
      /\ Len(t) + 1 \in 1..(Len(t) + 3) /\ Len(t) + 1 > Len(t)
  BY DEF Url
<1>3. f[1] = ByteTokens(t)[1] \o f[Len(t) + 1]
  BY <1>1, <1>2, Zenon DEF Walk, Goes
<1>4. f[Len(t) + 1] = <<>>
  BY <1>1, <1>2, Zenon DEF Walk, Goes
<1>5. ByteTokens(t)[1] = ByteToken(t, 1)
  BY <1>2, Zenon DEF ByteTokens
<1>6. ByteTokens(t)[1] \in ByteText
  BY <1>2, ByteTokensAre, Zenon DEF ByteText
<1> QED BY <1>1, <1>3, <1>4, <1>5, <1>6, ByteEmpty, Zenon

\* Texts whose bytes normalize_url may encode.
Plain(w, q) == Misses(w, {"#"}) /\ (q = FALSE => Misses(w, {"?", "#"}))

LEMMA IllegalIs ==
  ASSUME NEW w \in Url, NEW q \in BOOLEAN, Plain(w, q), NEW i \in 1..Len(w), ~IsLegal(w[i], q)
  PROVE  HexOf(w[i]) = Byte(w[i])
<1>1. w[i] \in Char /\ i \in DOMAIN w
  BY DEF Url
<1>2. w[i] # "#" /\ (q = FALSE => w[i] # "?")
  BY <1>1 DEF Plain, Misses
<1>3. w[i] = "%" \/ w[i] = " "
  BY <1>1, <1>2 DEF Char, IsLegal
<1> QED BY <1>3 DEF HexOf, Byte

LEMMA TokenBytes ==
  ASSUME NEW w \in Url, NEW q \in BOOLEAN, Plain(w, q), NEW i \in 1..Len(w), NEW r \in Url
  PROVE  Bytes(EncodedToken(w, i, q) \o r) = ByteToken(w, i) \o Bytes(r)
<1>1. PICK t : t = EncodedToken(w, i, q)
  OBVIOUS
<1>2. /\ t \in Url
      /\ \/ /\ IsEscape(w, i) /\ Len(t) = 3 /\ t[1] = "%" /\ t[2] \in Hex /\ t[3] \in Hex
            /\ t[2] = w[i + 1] /\ t[3] = w[i + 2] /\ NextAfter(w, i) = i + 3
         \/ ~IsEscape(w, i) /\ NextAfter(w, i) = i + 1 /\ t = <<w[i]>> /\ IsLegal(w[i], q)
         \/ /\ ~IsEscape(w, i) /\ NextAfter(w, i) = i + 1
            /\ Len(t) = 3 /\ t[1] = "%" /\ <<t[2], t[3]>> = HexOf(w[i])
            /\ t[2] \in Hex /\ t[3] \in Hex /\ ~IsLegal(w[i], q)
  BY <1>1, TokenIs, ZenonT(30)
<1>3. ASSUME Unbroken(t, r), Len(t) # 0, NextAfter(t, 1) = Len(t) + 1,
             ByteToken(t, 1) = ByteToken(w, i)
      PROVE  Bytes(t \o r) = ByteToken(w, i) \o Bytes(r)
  <2>1. Bytes(t \o r) = Bytes(t) \o Bytes(r)
    BY <1>2, <1>3, BytesCat, Zenon
  <2>2. Bytes(t) = ByteToken(t, 1)
    BY <1>2, <1>3, BytesOfToken, Zenon
  <2> QED BY <1>3, <2>1, <2>2, Zenon
<1>4. ASSUME Len(t) = 3, t[1] = "%", t[2] \in Hex, t[3] \in Hex
      PROVE  /\ Unbroken(t, r) /\ Len(t) # 0 /\ NextAfter(t, 1) = Len(t) + 1
             /\ ByteToken(t, 1) = <<<<t[2], t[3]>>>>
  <2>1. 1 + 1 = 2 /\ 1 + 2 = 3 /\ 1 + 3 = 3 + 1 /\ 1 + 2 <= 3 /\ Len(t) # 0
    BY <1>4
  <2>2. IsEscape(t, 1)
    BY <1>4, <2>1, Zenon DEF IsEscape
  <2>3. ByteToken(t, 1) = <<<<t[2], t[3]>>>>
    BY <2>1, <2>2, Zenon DEF ByteToken
  <2>4. NextAfter(t, 1) = Len(t) + 1
    BY <1>4, <2>1, <2>2, Zenon DEF NextAfter
  <2>5. Unbroken(t, r)
    BY <1>2, <1>4, UnbrokenIf, Zenon
  <2> QED BY <2>1, <2>3, <2>4, <2>5, Zenon
<1>5. CASE /\ IsEscape(w, i) /\ Len(t) = 3 /\ t[1] = "%" /\ t[2] \in Hex /\ t[3] \in Hex
           /\ t[2] = w[i + 1] /\ t[3] = w[i + 2]
  <2>1. ByteToken(w, i) = <<<<t[2], t[3]>>>>
    BY <1>5, Zenon DEF ByteToken
  <2> QED BY <1>1, <1>3, <1>4, <1>5, <2>1, Zenon
<1>6. CASE ~IsEscape(w, i) /\ t = <<w[i]>> /\ IsLegal(w[i], q)
  <2>1. Len(t) = 1 /\ t[1] = w[i] /\ Len(t) # 0
    BY <1>6
  <2>2. t[1] # "%"
    BY <1>6, <2>1, LegalIs, Zenon
  <2>3. ~IsEscape(t, 1)
    BY <2>2, Zenon DEF IsEscape
  <2>4. NextAfter(t, 1) = Len(t) + 1
    BY <2>1, <2>3, Zenon DEF NextAfter
  <2>5. ByteToken(t, 1) = ByteToken(w, i)
    BY <1>6, <2>1, <2>3, Zenon DEF ByteToken
  <2>6. Unbroken(t, r)
    BY <1>2, <2>1, <2>2, UnbrokenIf, Zenon
  <2> QED BY <1>1, <1>3, <2>1, <2>4, <2>5, <2>6, Zenon
<1>7. CASE /\ ~IsEscape(w, i) /\ Len(t) = 3 /\ t[1] = "%" /\ <<t[2], t[3]>> = HexOf(w[i])
           /\ t[2] \in Hex /\ t[3] \in Hex /\ ~IsLegal(w[i], q)
  <2>1. HexOf(w[i]) = Byte(w[i])
    BY <1>7, IllegalIs, Zenon
  <2>2. ByteToken(w, i) = <<Byte(w[i])>>
    BY <1>7, Zenon DEF ByteToken
  <2>3. ByteToken(w, i) = <<<<t[2], t[3]>>>>
    BY <1>7, <2>1, <2>2, Zenon
  <2> QED BY <1>1, <1>3, <1>4, <1>7, <2>3, Zenon
<1> QED BY <1>2, <1>5, <1>6, <1>7, Zenon

\* Encoding changes nothing for the reader.
LEMMA BytesOfEncode ==
  ASSUME NEW w \in Url, NEW q \in BOOLEAN, Plain(w, q)
  PROVE  Bytes(Encode(w, q)) = Bytes(w)
<1> DEFINE N == Len(w)
<1>1. PICK f \in [1..(N + 3) -> Url] : Encode(w, q) = f[1] /\ Walk(f, w, EncodedTokens(w, q))
  BY EncodeIs
<1>2. PICK g \in [1..(N + 3) -> Seq(Url)] : Bytes(w) = g[1] /\ Walk(g, w, ByteTokens(w))
  BY BytesIs
<1> DEFINE Good == {i \in 1..(N + 3) : Bytes(f[i]) = g[i]}
<1>3. N \in Nat
  BY DEF Url
<1>4. Bytes(<<>>) = <<>>
  BY BytesOfNone
<1>5. ASSUME NEW i \in 1..(N + 3), i > N PROVE i \in Good
  <2>1. f[i] = <<>> /\ g[i] = <<>>
    BY <1>1, <1>2, <1>5, Zenon DEF Walk, Goes
  <2> QED BY <1>4, <2>1
<1>6. ASSUME NEW i \in 1..N, \A j \in (i + 1)..(N + 3) : j \in Good PROVE i \in Good
  <2>1. PICK j \in (i + 1)..(N + 3) : j = NextAfter(w, i) /\ j \in 1..(N + 3)
    BY NextIsLater, Zenon
  <2>2. ~(i > N) /\ i \in 1..(N + 3)
    BY <1>3
  <2>3. f[i] = EncodedToken(w, i, q) \o f[j] /\ g[i] = ByteToken(w, i) \o g[j]
    BY <1>1, <1>2, <2>1, <2>2, Zenon DEF Walk, Goes, EncodedTokens, ByteTokens
  <2>4. Bytes(f[j]) = g[j] /\ f[j] \in Url
    BY <1>1, <1>6, <2>1
  <2>5. Bytes(EncodedToken(w, i, q) \o f[j]) = ByteToken(w, i) \o Bytes(f[j])
    BY <2>4, TokenBytes, Zenon
  <2>6. Bytes(f[i]) = g[i]
    BY <2>3, <2>4, <2>5, Zenon
  <2> QED BY <2>2, <2>6, Zenon
<1>7. \A i \in 1..(N + 3) : i \in Good
  <2> HIDE DEF N, Good
  <2> QED BY <1>3, <1>5, <1>6, Downwards
<1>8. 1 \in 1..(N + 3)
  BY <1>3
<1> QED BY <1>1, <1>2, <1>7, <1>8

\* The whole of a text, none of it, and its next token.
LEMMA FromEnds ==
  ASSUME NEW v \in Url
  PROVE  From(v, Len(v) + 1) = <<>> /\ From(v, 1) = v
<1>1. PICK N \in Nat : N = Len(v) /\ N + 1 \in Nat \ {0} /\ 1 \in Nat \ {0} /\ N <= Len(v)
  BY DEF Url
<1>2. PICK s : s = From(v, N + 1)
  OBVIOUS
<1>3. PICK z : z = From(v, 1)
  OBVIOUS
<1>4. IsPart(s, v, N + 1, N) /\ IsPart(z, v, 1, N)
  BY <1>1, <1>2, <1>3, PartIs, Zenon DEF From
<1>5. s \in Url /\ Len(s) = 0
  BY <1>1, <1>4 DEF IsPart
<1>6. s = <<>>
  BY <1>5 DEF Url
<1>7. z \in Url /\ Len(z) = N /\ \A i \in 1..N : z[i] = v[i]
  BY <1>1, <1>4 DEF IsPart
<1>8. z = v
  BY <1>1, <1>7, SeqEqual DEF Url
<1> QED BY <1>1, <1>2, <1>3, <1>6, <1>8, Zenon

LEMMA FromNext ==
  ASSUME NEW v \in Url, NEW i \in 1..Len(v)
  PROVE  \E j \in (i + 1)..(Len(v) + 1) :
           /\ j = NextAfter(v, i) /\ From(v, i) = SubSeq(v, i, j - 1) \o From(v, j)
<1>1. Len(v) \in Nat /\ i \in 1..(Len(v) + 1)
  BY DEF Url
<1>2. PICK j : j = NextAfter(v, i)
  OBVIOUS
<1>3. (IsEscape(v, i) => j = i + 3 /\ i + 2 <= Len(v)) /\ (~IsEscape(v, i) => j = i + 1)
  BY <1>2, Zenon DEF NextAfter, IsEscape
<1>4. j \in (i + 1)..(Len(v) + 1) /\ j \in i..(Len(v) + 1)
  BY <1>1, <1>3
<1> QED BY <1>1, <1>2, <1>4, CatOfParts, Zenon

LEMMA TokenIsPart ==
  ASSUME NEW v \in Url, NEW q \in BOOLEAN, NEW i \in 1..Len(v), IsClean(v, q, i)
  PROVE  EncodedToken(v, i, q) = SubSeq(v, i, NextAfter(v, i) - 1)
<1> DEFINE j == NextAfter(v, i)
<1>1. CASE IsEscape(v, i)
  <2>1. j = i + 3
    BY <1>1, Zenon DEF NextAfter
  <2>2. j - 1 = i + 2
    BY <2>1
  <2> HIDE DEF j
  <2>3. EncodedToken(v, i, q) = SubSeq(v, i, j - 1)
    BY <1>1, <2>2, Zenon DEF EncodedToken
  <2> QED BY <2>3, Zenon DEF j
<1>2. CASE ~IsEscape(v, i)
  <2>1. j - 1 = i
    <3>1. j = i + 1
      BY <1>2, Zenon DEF NextAfter
    <3> QED BY <3>1
  <2> HIDE DEF j
  <2>2. EncodedToken(v, i, q) = <<v[i]>>
    BY <1>2, Zenon DEF EncodedToken, EncodedChar, IsClean
  <2>3. i \in Nat \ {0} /\ i \in Nat /\ i <= Len(v) /\ i - i + 1 = 1 /\ i <= i
    BY DEF Url
  <2>4. PICK s : s = SubSeq(v, i, i)
    OBVIOUS
  <2>5. IsPart(s, v, i, i)
    BY <2>3, <2>4, PartIs, Zenon
  <2>6. s \in Url /\ Len(s) = 1 /\ s[1] = v[i]
    BY <2>3, <2>5 DEF IsPart
  <2>7. s = <<s[1]>>
    BY <2>6 DEF Url
  <2>8. EncodedToken(v, i, q) = SubSeq(v, i, j - 1)
    BY <2>1, <2>2, <2>4, <2>6, <2>7, Zenon
  <2> QED BY <2>8, Zenon DEF j
<1> QED BY <1>1, <1>2

\* What is clean already is left alone.
LEMMA EncodeOfClean ==
  ASSUME NEW v \in Url, NEW q \in BOOLEAN, Clean(v, q)
  PROVE  Encode(v, q) = v
<1> DEFINE N == Len(v)
<1>1. PICK f \in [1..(N + 3) -> Url] : Encode(v, q) = f[1] /\ Walk(f, v, EncodedTokens(v, q))
  BY EncodeIs
<1> DEFINE Good == {i \in 1..(N + 3) : i <= N + 1 => f[i] = From(v, i)}
<1>2. N \in Nat
  BY DEF Url
<1>3. ASSUME NEW i \in 1..(N + 3), i > N PROVE i \in Good
  <2>1. f[i] = <<>>
    BY <1>1, <1>3, Zenon DEF Walk, Goes
  <2>2. i <= N + 1 => i = N + 1
    BY <1>2, <1>3
  <2> QED BY <2>1, <2>2, FromEnds, Zenon
<1>4. ASSUME NEW i \in 1..N, \A j \in (i + 1)..(N + 3) : j \in Good PROVE i \in Good
  <2>1. PICK j \in (i + 1)..(N + 1) :
          j = NextAfter(v, i) /\ From(v, i) = SubSeq(v, i, j - 1) \o From(v, j)
    BY FromNext, Zenon
  <2>2. ~(i > N) /\ i \in 1..(N + 3) /\ j \in (i + 1)..(N + 3) /\ j <= N + 1
    BY <1>2
  <2>3. f[i] = EncodedToken(v, i, q) \o f[j]
    BY <1>1, <2>1, <2>2, Zenon DEF Walk, Goes, EncodedTokens
  <2>4. EncodedToken(v, i, q) = SubSeq(v, i, j - 1)
    <3>1. IsClean(v, q, i)
      BY Zenon DEF Clean
    <3> QED BY <2>1, <3>1, TokenIsPart, Zenon
  <2>5. f[j] = From(v, j)
    BY <1>4, <2>2
  <2>6. f[i] = From(v, i)
    BY <2>1, <2>3, <2>4, <2>5, Zenon
  <2> QED BY <2>2, <2>6, Zenon
<1>5. \A i \in 1..(N + 3) : i \in Good
  <2> HIDE DEF N, Good
  <2> QED BY <1>2, <1>3, <1>4, Downwards
<1>6. 1 \in 1..(N + 3) /\ 1 <= N + 1
  BY <1>2
<1> QED BY <1>1, <1>5, <1>6, FromEnds

-----------------------------------------------------------------------------
(* Encoding makes no new "://"                                             *)

SepAt(v, i) == i \in 1..(Len(v) - 2) /\ v[i] = ":" /\ v[i + 1] = "/" /\ v[i + 2] = "/"
HasSep(v) == \E i \in 1..(Len(v) - 2) : SepAt(v, i)
Starts1(v) == Len(v) >= 1 /\ v[1] = "/"
Starts2(v) == Len(v) >= 2 /\ v[1] = "/" /\ v[2] = "/"

\* What of a "://" is in v is in w.
Keeps(w, v) ==
  /\ Starts1(v) => Starts1(w)
  /\ Starts2(v) => Starts2(w)
  /\ HasSep(v) => HasSep(w)

LEMMA SepIs ==
  ASSUME NEW v \in Url, NEW i \in 1..(Len(v) - 2)
  PROVE  SubSeq(v, i, i + 2) = Separator <=> SepAt(v, i)
<1>1. Len(v) \in Nat /\ i \in Nat \ {0} /\ i + 2 \in Nat /\ i + 2 <= Len(v)
  BY DEF Url
<1>2. PICK s : s = SubSeq(v, i, i + 2)
  OBVIOUS
<1>3. IsPart(s, v, i, i + 2)
  BY <1>1, <1>2, PartIs, Zenon
<1>4. s \in Url /\ Len(s) = 3 /\ s[1] = v[i] /\ s[2] = v[i + 1] /\ s[3] = v[i + 2]
  <2>1. Len(s) = 3 /\ \A k \in 1..3 : s[k] = v[i + k - 1]
    BY <1>1, <1>3 DEF IsPart
  <2>2. i + 1 - 1 = i /\ i + 2 - 1 = i + 1 /\ i + 3 - 1 = i + 2
    BY <1>1
  <2> QED BY <1>3, <2>1, <2>2 DEF IsPart
<1>5. s = <<s[1], s[2], s[3]>>
  BY <1>4 DEF Url
<1>6. s = Separator <=> s[1] = ":" /\ s[2] = "/" /\ s[3] = "/"
  BY <1>5 DEF Separator
<1> QED BY <1>2, <1>4, <1>6, Zenon DEF SepAt

LEMMA NoSchemeIs ==
  ASSUME NEW v \in Url
  PROVE  SchemeEnd(v) = 0 <=> ~HasSep(v)
<1>1. ASSUME SchemeEnd(v) = 0 PROVE ~HasSep(v)
  <2>1. \A i \in 1..(Len(v) - 2) : SubSeq(v, i, i + 2) # Separator
    <3>1. ~(SchemeEnd(v) \in 1..(Len(v) - 2))
      BY <1>1
    <3> QED BY <3>1, SchemeEndIs, Zenon
  <2> QED BY <2>1, SepIs, Zenon DEF HasSep
<1>2. ASSUME SchemeEnd(v) # 0 PROVE HasSep(v)
  <2>1. PICK k \in 1..(Len(v) - 2) : SubSeq(v, k, k + 2) = Separator
    BY <1>2, SchemeEndIs, Zenon
  <2> QED BY <2>1, SepIs, Zenon DEF HasSep
<1> QED BY <1>1, <1>2

LEMMA SepLater ==
  ASSUME NEW a \in Url, NEW w \in Url, HasSep(w), NEW y, y = a \o w
  PROVE  HasSep(y)
<1>1. IsCat(y, a, w)
  BY CatIs
<1>2. /\ Len(a) \in Nat /\ Len(w) \in Nat /\ Len(y) = Len(a) + Len(w)
      /\ \A i \in 1..Len(w) : y[Len(a) + i] = w[i]
  BY <1>1, Zenon DEF IsCat
<1>3. PICK k \in 1..(Len(w) - 2) : w[k] = ":" /\ w[k + 1] = "/" /\ w[k + 2] = "/"
  BY Zenon DEF HasSep, SepAt
<1>4. PICK i \in 1..(Len(y) - 2) : i = Len(a) + k
  BY <1>2
<1>5. /\ k \in 1..Len(w) /\ k + 1 \in 1..Len(w) /\ k + 2 \in 1..Len(w)
      /\ i + 1 = Len(a) + (k + 1) /\ i + 2 = Len(a) + (k + 2)
  BY <1>2, <1>4
<1>6. y[i] = ":" /\ y[i + 1] = "/" /\ y[i + 2] = "/"
  BY <1>2, <1>3, <1>4, <1>5, Zenon
<1> QED BY <1>6, Zenon DEF HasSep, SepAt

LEMMA KeepsHead ==
  ASSUME NEW a \in Url, NEW w \in Url, NEW v \in Url, Keeps(w, v)
  PROVE  Keeps(a \o w, a \o v)
<1>1. PICK x : x = a \o v
  OBVIOUS
<1>2. PICK y : y = a \o w
  OBVIOUS
<1>3. IsCat(x, a, v) /\ IsCat(y, a, w)
  BY <1>1, <1>2, CatIs
<1>4. PICK n \in Nat : n = Len(a)
  BY DEF Url
<1>5. /\ Len(v) \in Nat /\ Len(x) = n + Len(v)
      /\ \A i \in 1..n : x[i] = a[i]
      /\ \A i \in 1..Len(v) : x[n + i] = v[i]
  BY <1>3, <1>4, Zenon DEF IsCat
<1>6. /\ Len(w) \in Nat /\ Len(y) = n + Len(w)
      /\ \A i \in 1..n : y[i] = a[i]
      /\ \A i \in 1..Len(w) : y[n + i] = w[i]
  BY <1>3, <1>4, Zenon DEF IsCat
<1>7. CASE n = 0
  <2>1. a = <<>>
    <3>1. Len(a) = 0
      BY <1>4, <1>7
    <3> QED BY <3>1 DEF Url
  <2>2. <<>> \o w = w /\ <<>> \o v = v
    BY ConcatEmptySeq DEF Url
  <2> QED BY <2>1, <2>2, Zenon
<1>8. CASE n # 0
  <2>1. Starts1(x) => Starts1(y)
    BY <1>5, <1>6, <1>8 DEF Starts1
  <2>2. ASSUME Starts1(v) PROVE Len(w) >= 1 /\ y[n + 1] = "/"
    <3>1. Len(w) >= 1 /\ w[1] = "/"
      BY <2>2, Zenon DEF Keeps, Starts1
    <3> QED BY <1>6, <3>1
  <2>3. ASSUME Starts2(v) PROVE Len(w) >= 2 /\ y[n + 1] = "/" /\ y[n + 2] = "/"
    <3>1. Len(w) >= 2 /\ w[1] = "/" /\ w[2] = "/"
      BY <2>3, Zenon DEF Keeps, Starts2
    <3> QED BY <1>6, <3>1
  <2>4. ASSUME Starts2(x) PROVE Starts2(y)
    <3>1. CASE n = 1
      <4>1. Len(v) >= 1 /\ x[n + 1] = "/" /\ x[1] = "/"
        BY <1>5, <2>4, <3>1 DEF Starts2
      <4>2. Starts1(v)
        BY <1>5, <4>1 DEF Starts1
      <4> QED BY <1>5, <1>6, <2>2, <3>1, <4>1, <4>2 DEF Starts2
    <3>2. CASE n >= 2
      BY <1>5, <1>6, <2>4, <3>2 DEF Starts2
    <3> QED BY <1>8, <3>1, <3>2
  <2>5. ASSUME NEW i \in 1..(Len(x) - 2), x[i] = ":", x[i + 1] = "/", x[i + 2] = "/"
        PROVE  HasSep(y)
    <3>1. ASSUME i \in 1..(Len(y) - 2), y[i] = ":", y[i + 1] = "/", y[i + 2] = "/"
          PROVE  HasSep(y)
      BY <3>1, Zenon DEF HasSep, SepAt
    <3>2. CASE i + 2 <= n
      <4>1. i \in 1..n /\ i + 1 \in 1..n /\ i + 2 \in 1..n /\ i \in 1..(Len(y) - 2)
        BY <1>6, <3>2
      <4> QED BY <1>5, <1>6, <2>5, <3>1, <4>1, Zenon
    <3>3. CASE i + 1 = n
      <4>1. i \in 1..n /\ i + 1 \in 1..n /\ 1 \in 1..Len(v) /\ n + 1 = i + 2
        BY <1>5, <3>3
      <4>2. Starts1(v)
        BY <1>5, <2>5, <4>1 DEF Starts1
      <4>3. Len(w) >= 1 /\ y[i + 2] = "/"
        BY <2>2, <4>1, <4>2
      <4>4. i \in 1..(Len(y) - 2)
        BY <1>6, <3>3, <4>3
      <4> QED BY <1>5, <1>6, <2>5, <3>1, <4>1, <4>3, <4>4, Zenon
    <3>4. CASE i = n
      <4>1. Len(v) >= 2 /\ 1 \in 1..Len(v) /\ 2 \in 1..Len(v) /\ i \in 1..n
        BY <1>5, <3>4
      <4>2. Starts2(v)
        BY <1>5, <2>5, <3>4, <4>1 DEF Starts2
      <4>3. Len(w) >= 2 /\ y[i + 1] = "/" /\ y[i + 2] = "/"
        BY <2>3, <3>4, <4>2
      <4>4. i \in 1..(Len(y) - 2)
        BY <1>6, <3>4, <4>3
      <4> QED BY <1>5, <1>6, <2>5, <3>1, <4>1, <4>3, <4>4, Zenon
    <3>5. CASE i > n
      <4>1. PICK k \in 1..(Len(v) - 2) : i = n + k
        <5>1. i - n \in 1..(Len(v) - 2) /\ i = n + (i - n)
          BY <1>5, <3>5
        <5> QED BY <5>1
      <4>2. /\ k \in 1..Len(v) /\ k + 1 \in 1..Len(v) /\ k + 2 \in 1..Len(v)
            /\ i + 1 = n + (k + 1) /\ i + 2 = n + (k + 2)
        BY <1>5, <4>1
      <4>3. v[k] = ":" /\ v[k + 1] = "/" /\ v[k + 2] = "/"
        BY <1>5, <2>5, <4>1, <4>2
      <4>4. HasSep(v)
        BY <4>3, Zenon DEF HasSep, SepAt
      <4>5. HasSep(w)
        BY <4>4, Zenon DEF Keeps
      <4> QED BY <1>2, <4>5, SepLater, Zenon
    <3>6. i + 2 <= n \/ i + 1 = n \/ i = n \/ i > n
      OBVIOUS
    <3> QED BY <3>2, <3>3, <3>4, <3>5, <3>6, Zenon
  <2>6. HasSep(x) => HasSep(y)
    BY <2>5, Zenon DEF HasSep, SepAt
  <2>7. Keeps(y, x)
    BY <2>1, <2>4, <2>6, Zenon DEF Keeps
  <2> QED BY <1>1, <1>2, <2>7, Zenon
<1> QED BY <1>7, <1>8

LEMMA KeepsEscape ==
  ASSUME NEW t \in Url, Len(t) # 0, \A i \in 1..Len(t) : t[i] # ":" /\ t[i] # "/",
         NEW a \in Url, NEW w \in Url, NEW v \in Url, Keeps(w, v)
  PROVE  Keeps(a \o w, t \o v)
<1>1. PICK x : x = t \o v
  OBVIOUS
<1>2. IsCat(x, t, v)
  BY <1>1, CatIs
<1>3. PICK n \in Nat : n = Len(t)
  BY DEF Url
<1>4. /\ Len(v) \in Nat /\ Len(x) = n + Len(v)
      /\ \A i \in 1..n : x[i] # ":" /\ x[i] # "/"
      /\ \A i \in 1..Len(v) : x[n + i] = v[i]
  <2>1. /\ Len(v) \in Nat /\ Len(x) = n + Len(v)
        /\ \A i \in 1..n : x[i] = t[i]
        /\ \A i \in 1..Len(v) : x[n + i] = v[i]
    BY <1>2, <1>3, Zenon DEF IsCat
  <2> QED BY <1>3, <2>1
<1>5. ~Starts1(x) /\ ~Starts2(x)
  <2>1. 1 \in 1..n
    BY <1>3
  <2> QED BY <1>4, <2>1, Zenon DEF Starts1, Starts2
<1>6. ASSUME NEW i \in 1..(Len(x) - 2), x[i] = ":", x[i + 1] = "/", x[i + 2] = "/"
      PROVE  HasSep(a \o w)
  <2>1. i > n
    BY <1>4, <1>6
  <2>2. PICK k \in 1..(Len(v) - 2) : i = n + k
    <3>1. i - n \in 1..(Len(v) - 2) /\ i = n + (i - n)
      BY <1>4, <2>1
    <3> QED BY <3>1
  <2>3. /\ k \in 1..Len(v) /\ k + 1 \in 1..Len(v) /\ k + 2 \in 1..Len(v)
        /\ i + 1 = n + (k + 1) /\ i + 2 = n + (k + 2)
    BY <1>4, <2>2
  <2>4. v[k] = ":" /\ v[k + 1] = "/" /\ v[k + 2] = "/"
    BY <1>4, <1>6, <2>2, <2>3
  <2>5. HasSep(v)
    BY <2>4, Zenon DEF HasSep, SepAt
  <2>6. HasSep(w)
    BY <2>5, Zenon DEF Keeps
  <2>7. PICK y : y = a \o w
    OBVIOUS
  <2>8. HasSep(y)
    BY <2>6, <2>7, SepLater, Zenon
  <2> QED BY <2>7, <2>8
<1>7. HasSep(x) => HasSep(a \o w)
  BY <1>6, Zenon DEF HasSep, SepAt
<1> QED BY <1>1, <1>5, <1>7, Zenon DEF Keeps

LEMMA UrlEmpty ==
  ASSUME NEW a \in Url
  PROVE  <<>> \o a = a /\ a \o <<>> = a
BY ConcatEmptySeq DEF Url

LEMMA UrlCat ==
  ASSUME NEW a \in Url, NEW b \in Url
  PROVE  a \o b \in Url
BY Cat DEF Url

\* A token of w before what is encoded of its rest.
LEMMA TokenKeeps ==
  ASSUME NEW w \in Url, NEW q \in BOOLEAN, NEW i \in 1..Len(w),
         NEW x \in Url, NEW v \in Url, Keeps(x, v)
  PROVE  Keeps(SubSeq(w, i, NextAfter(w, i) - 1) \o x, EncodedToken(w, i, q) \o v)
<1>1. PICK p \in Url : p = SubSeq(w, i, NextAfter(w, i) - 1)
  <2>1. PICK j \in (i + 1)..(Len(w) + 1) : j = NextAfter(w, i)
    BY FromNext, Zenon
  <2>2. i \in Nat \ {0} /\ j - 1 \in Nat /\ j - 1 <= Len(w)
    BY DEF Url
  <2>3. IsPart(SubSeq(w, i, j - 1), w, i, j - 1)
    BY <2>2, PartIs, Zenon
  <2> QED BY <2>1, <2>3, Zenon DEF IsPart
<1>2. CASE IsClean(w, q, i)
  <2>1. EncodedToken(w, i, q) = p
    BY <1>1, <1>2, TokenIsPart, Zenon
  <2>2. Keeps(p \o x, p \o v)
    BY KeepsHead
  <2> QED BY <1>1, <2>1, <2>2
<1>3. CASE ~IsClean(w, q, i)
  <2>1. PICK t : t = EncodedToken(w, i, q)
    OBVIOUS
  <2>2. t \in Url /\ Len(t) = 3 /\ t[1] = "%" /\ t[2] \in Hex /\ t[3] \in Hex
    BY <1>3, <2>1, TokenIs, Zenon DEF IsClean
  <2>3. Len(t) # 0 /\ \A k \in 1..Len(t) : k = 1 \/ k = 2 \/ k = 3
    BY <2>2
  <2>4. \A c \in Hex \cup {"%"} : c # ":" /\ c # "/"
    BY DEF Hex
  <2>5. \A k \in 1..Len(t) : t[k] # ":" /\ t[k] # "/"
    BY <2>2, <2>3, <2>4
  <2>6. Keeps(p \o x, t \o v)
    BY <2>2, <2>3, <2>5, KeepsEscape
  <2> QED BY <1>1, <2>1, <2>6
<1> QED BY <1>2, <1>3

\* What is encoded of w, before what is kept of another text.
LEMMA EncodeKeeps ==
  ASSUME NEW w \in Url, NEW q \in BOOLEAN, NEW x \in Url, NEW v \in Url, Keeps(x, v)
  PROVE  Keeps(w \o x, Encode(w, q) \o v)
<1> DEFINE N == Len(w)
<1>1. PICK f \in [1..(N + 3) -> Url] : Encode(w, q) = f[1] /\ Walk(f, w, EncodedTokens(w, q))
  BY EncodeIs
<1> DEFINE Good == {i \in 1..(N + 3) : i <= N + 1 => Keeps(From(w, i) \o x, f[i] \o v)}
<1>2. N \in Nat
  BY DEF Url
<1>3. ASSUME NEW i \in 1..(N + 3), i > N PROVE i \in Good
  <2>1. f[i] = <<>>
    BY <1>1, <1>3, Zenon DEF Walk, Goes
  <2>2. i <= N + 1 => i = N + 1
    BY <1>2, <1>3
  <2>3. i = N + 1 => From(w, i) = <<>>
    BY FromEnds, Zenon
  <2>4. <<>> \o x = x /\ <<>> \o v = v
    BY UrlEmpty, Zenon
  <2>5. i <= N + 1 => Keeps(From(w, i) \o x, f[i] \o v)
    BY <2>1, <2>2, <2>3, <2>4, Zenon
  <2> QED BY <2>5, Zenon
<1>4. ASSUME NEW i \in 1..N, \A j \in (i + 1)..(N + 3) : j \in Good PROVE i \in Good
  <2>1. PICK j \in (i + 1)..(N + 1) :
          j = NextAfter(w, i) /\ From(w, i) = SubSeq(w, i, j - 1) \o From(w, j)
    BY FromNext, Zenon
  <2>2. ~(i > N) /\ i \in 1..(N + 3) /\ j \in (i + 1)..(N + 3) /\ j <= N + 1 /\ j \in 1..(N + 3)
    BY <1>2
  <2>3. PICK t \in Url : t = EncodedToken(w, i, q)
    BY TokenIsClean, Zenon
  <2>4. f[i] = t \o f[j]
    BY <1>1, <2>1, <2>2, <2>3, Zenon DEF Walk, Goes, EncodedTokens
  <2>5. PICK p \in Url, r \in Url : p = SubSeq(w, i, j - 1) /\ r = From(w, j)
    <3>1. /\ i \in Nat \ {0} /\ j \in Nat \ {0} /\ j - 1 \in Nat /\ j - 1 <= Len(w)
          /\ Len(w) \in Nat /\ Len(w) <= Len(w)
      BY <1>2, <2>1, SMTT(30)
    <3>2. IsPart(SubSeq(w, i, j - 1), w, i, j - 1) /\ IsPart(SubSeq(w, j, Len(w)), w, j, Len(w))
      BY <3>1, PartIs, Zenon
    <3> QED BY <3>2, Zenon DEF IsPart, From
  <2>6. PICK g \in Url : g = f[j]
    BY <2>2
  <2>7. Keeps(r \o x, g \o v)
    BY <1>4, <2>2, <2>5, <2>6
  <2>8. r \o x \in Url /\ g \o v \in Url
    BY UrlCat
  <2>9. Keeps(p \o (r \o x), t \o (g \o v))
    BY <2>1, <2>3, <2>5, <2>7, <2>8, TokenKeeps, Zenon
  <2>10. (p \o r) \o x = p \o (r \o x) /\ (t \o g) \o v = t \o (g \o v)
    <3>1. CatAgrees(p, r, x) /\ CatAgrees(t, g, v)
      BY UrlCatAgrees
    <3> QED BY <3>1, Zenon DEF CatAgrees
  <2>11. Keeps(From(w, i) \o x, f[i] \o v)
    BY <2>1, <2>4, <2>5, <2>6, <2>9, <2>10
  <2> QED BY <2>2, <2>11, Zenon
<1>5. \A i \in 1..(N + 3) : i \in Good
  <2> HIDE DEF N, Good
  <2> QED BY <1>2, <1>3, <1>4, Downwards
<1>6. Keeps(From(w, 1) \o x, f[1] \o v)
  <2>1. 1 \in 1..(N + 3) /\ 1 <= N + 1
    BY <1>2
  <2> QED BY <1>5, <2>1, Zenon
<1>7. From(w, 1) = w
  BY FromEnds, Zenon
<1> QED BY <1>1, <1>6, <1>7, Zenon

\* No "://" arises in a normalized URL.
LEMMA NormalizedKeeps ==
  ASSUME NEW u \in Url, NEW cut, NEW A, IsCut(u, cut, A)
  PROVE  Keeps(u, Normalized(cut))
<1>1. PICK head \in Url, path \in Url, y \in Url, frag \in Url :
        head = cut.head /\ path = cut.path /\ y = cut.query /\ frag = cut.frag
  BY Zenon DEF IsCut
<1>2. cut.ask \in BOOLEAN /\ u = FromRight(head, path, Asked(cut.ask, y), frag)
  BY <1>1, Zenon DEF IsCut
<1>3. FALSE \in BOOLEAN /\ TRUE \in BOOLEAN
  OBVIOUS
<1>4. PICK a \in Url, b \in Url : a = Encode(path, FALSE) /\ b = Encode(y, TRUE)
  BY <1>3, EncodeIsClean, Zenon
<1>5. PICK c \in Url, d \in Url : c = Asked(cut.ask, y) /\ d = Asked(cut.ask, b)
  BY <1>2, AskedIs, Zenon
<1>6. Keeps(frag, frag)
  BY DEF Keeps
<1>7. Keeps(c \o frag, d \o frag)
  <2>1. CASE cut.ask
    <3>1. PICK k \in Char : k = "?"
      BY CharsAreThere, Zenon
    <3>2. PICK m \in Url : m = <<k>>
      BY One, Zenon DEF Url
    <3>3. c = m \o y /\ d = m \o b
      BY <1>5, <2>1, <3>1, <3>2, Zenon DEF Asked
    <3>4. Keeps(y \o frag, b \o frag)
      BY <1>3, <1>4, <1>6, EncodeKeeps, Zenon
    <3>5. y \o frag \in Url /\ b \o frag \in Url
      BY UrlCat
    <3>6. Keeps(m \o (y \o frag), m \o (b \o frag))
      BY <3>4, <3>5, KeepsHead, Zenon
    <3>7. (m \o y) \o frag = m \o (y \o frag) /\ (m \o b) \o frag = m \o (b \o frag)
      <4>1. CatAgrees(m, y, frag) /\ CatAgrees(m, b, frag)
        BY UrlCatAgrees
      <4> QED BY <4>1, Zenon DEF CatAgrees
    <3> QED BY <3>3, <3>6, <3>7
  <2>2. CASE ~cut.ask
    <3>1. c = <<>> /\ d = <<>>
      BY <1>5, <2>2, Zenon DEF Asked
    <3> QED BY <1>6, <3>1, UrlEmpty, Zenon
  <2> QED BY <2>1, <2>2
<1>8. PICK z \in Url, x \in Url : z = c \o frag /\ x = d \o frag
  BY UrlCat
<1>9. Keeps(path \o z, a \o x)
  <2>1. Keeps(z, x)
    BY <1>7, <1>8
  <2> QED BY <1>3, <1>4, <2>1, EncodeKeeps, Zenon
<1>10. PICK g \in Url, h \in Url : g = path \o z /\ h = a \o x
  BY UrlCat
<1>11. Keeps(head \o g, head \o h)
  <2>1. Keeps(g, h)
    BY <1>9, <1>10
  <2> QED BY <2>1, KeepsHead
<1>12. u = head \o g
  BY <1>2, <1>5, <1>8, <1>10 DEF FromRight
<1>13. Normalized(cut) = FromLeft(head, a, d, frag)
  BY <1>1, <1>4, <1>5, Zenon DEF Normalized
<1>14. FromLeft(head, a, d, frag) = FromRight(head, a, d, frag)
  BY UrlCatFour
<1>15. Normalized(cut) = head \o h
  BY <1>8, <1>10, <1>13, <1>14 DEF FromRight
<1> QED BY <1>11, <1>12, <1>15, Zenon

\* Two URLs with the same head begin alike.
SameUpTo(u, n, h) == h <= Len(u) /\ h <= Len(n) /\ \A i \in 1..h : u[i] = n[i]
Alike(u, n, A) == \E h \in Nat : A <= h + 1 /\ SameUpTo(u, n, h)

LEMMA HeadsAgree ==
  ASSUME NEW u \in Url, NEW n \in Url, NEW cut, NEW e, NEW A, IsCut(u, cut, A), IsCut(n, e, A),
         e.head = cut.head
  PROVE  Alike(u, n, A)
<1>1. PICK h \in Nat, k \in Nat, y \in Nat, f \in Nat, m \in Nat : Places(u, cut, h, k, y, f, m)
  BY CutPlaces, Zenon
<1>2. PICK hn \in Nat, kn \in Nat, yn \in Nat, fn \in Nat, mn \in Nat :
        Places(n, e, hn, kn, yn, fn, mn)
  BY CutPlaces, Zenon
<1>3. hn = h /\ A \in 1..(h + 1)
  <2>1. h = Len(cut.head) /\ hn = Len(e.head)
    BY <1>1, <1>2, Zenon DEF Places
  <2> QED BY <2>1, Zenon DEF IsCut
<1>4. h <= m /\ hn <= mn /\ Len(u) = m + f /\ Len(n) = mn + fn
  <2>1. (cut.ask => m = h + k + 1 + y) /\ (~cut.ask => m = h + k) /\ Len(u) = m + f
    BY <1>1, Zenon DEF Places
  <2>2. (e.ask => mn = hn + kn + 1 + yn) /\ (~e.ask => mn = hn + kn) /\ Len(n) = mn + fn
    BY <1>2, Zenon DEF Places
  <2> QED BY <2>1, <2>2
<1>5. \A i \in 1..h : u[i] = n[i]
  <2>1. \A i \in 1..h : u[i] = cut.head[i]
    BY <1>1, Zenon DEF Places
  <2>2. \A i \in 1..hn : n[i] = e.head[i]
    BY <1>2, Zenon DEF Places
  <2> QED BY <1>3, <2>1, <2>2, Zenon
<1>6. A <= h + 1 /\ h <= Len(u) /\ h <= Len(n)
  BY <1>3, <1>4
<1> QED BY <1>5, <1>6, Zenon DEF Alike, SameUpTo

\* The authority stays where it is.
LEMMA NormalizedAuthority ==
  ASSUME NEW u \in Url, NEW cut, IsCut(u, cut, Authority(u))
  PROVE  Authority(Normalized(cut)) = Authority(u)
<1>1. PICK n \in Url : n = Normalized(cut) /\ IsCut(n, Encoded(cut), Authority(u))
  BY NormalizedIsCut, Zenon
<1>2. CASE SchemeEnd(u) = 0
  <2>1. ~HasSep(u)
    BY <1>2, NoSchemeIs, Zenon
  <2>2. Keeps(u, n)
    BY <1>1, NormalizedKeeps, Zenon
  <2>3. SchemeEnd(n) = 0
    BY <2>1, <2>2, NoSchemeIs, Zenon DEF Keeps
  <2> QED BY <1>1, <1>2, <2>3, Zenon DEF Authority
<1>3. CASE SchemeEnd(u) # 0
  <2>1. PICK h \in Nat : /\ h <= Len(u) /\ h <= Len(n) /\ Authority(u) <= h + 1
                         /\ \A i \in 1..h : u[i] = n[i]
    <3>1. Encoded(cut).head = cut.head
      BY EncodedFields, Zenon
    <3>2. Alike(u, n, Authority(u))
      BY <1>1, <3>1, HeadsAgree, Zenon
    <3> QED BY <3>2, Zenon DEF Alike, SameUpTo
  <2>2. PICK k \in 1..(Len(u) - 2) :
          /\ SchemeEnd(u) = k /\ SubSeq(u, k, k + 2) = Separator
          /\ \A i \in 1..(k - 1) : SubSeq(u, i, i + 2) # Separator
    BY <1>3, SchemeEndIs, Zenon
  <2>3. Authority(u) = k + 3
    BY <1>3, <2>2, Zenon DEF Authority
  <2>4. k + 2 <= h /\ k \in 1..(Len(n) - 2) /\ Len(n) \in Nat
    BY <2>1, <2>3 DEF Url
  <2>5. ASSUME NEW i \in 1..k
        PROVE  SubSeq(u, i, i + 2) = Separator <=> SubSeq(n, i, i + 2) = Separator
    <3>1. /\ i \in 1..(Len(u) - 2) /\ i \in 1..(Len(n) - 2)
          /\ i \in 1..h /\ i + 1 \in 1..h /\ i + 2 \in 1..h
      BY <2>1, <2>2, <2>4
    <3>2. u[i] = n[i] /\ u[i + 1] = n[i + 1] /\ u[i + 2] = n[i + 2]
      BY <2>1, <3>1
    <3>3. SepAt(u, i) <=> SepAt(n, i)
      BY <3>1, <3>2, Zenon DEF SepAt
    <3> QED BY <3>1, <3>3, SepIs, Zenon
  <2>6. SubSeq(n, k, k + 2) = Separator
    BY <2>2, <2>5
  <2>7. PICK l \in 1..(Len(n) - 2) :
          /\ SchemeEnd(n) = l /\ SubSeq(n, l, l + 2) = Separator
          /\ \A i \in 1..(l - 1) : SubSeq(n, i, i + 2) # Separator
    BY <2>4, <2>6, SchemeEndIs, Zenon
  <2>8. ~(l < k)
    <3>1. ASSUME l < k PROVE FALSE
      <4>1. l \in 1..k /\ l \in 1..(k - 1)
        BY <3>1
      <4> QED BY <2>2, <2>5, <2>7, <4>1, Zenon
    <3> QED BY <3>1
  <2>9. ~(k < l)
    <3>1. ASSUME k < l PROVE FALSE
      <4>1. k \in 1..(l - 1)
        BY <3>1
      <4> QED BY <2>6, <2>7, <4>1, Zenon
    <3> QED BY <3>1
  <2>10. SchemeEnd(n) = k /\ k # 0
    BY <2>7, <2>8, <2>9
  <2>11. Authority(n) = k + 3
    BY <2>10, Zenon DEF Authority
  <2> QED BY <1>1, <2>3, <2>11, Zenon
<1> QED BY <1>2, <1>3

\* Normalizing twice is normalizing once.
LEMMA NormalizeTwice ==
  ASSUME NEW u \in Url
  PROVE  Normalize(Normalize(u)) = Normalize(u)
<1>1. CASE Parts(u).path = 0
  <2>1. Normalize(u) = u
    BY <1>1, Zenon DEF Normalize
  <2> QED BY <2>1, Zenon
<1>2. CASE Parts(u).path # 0
  <2>1. PICK cut : IsCut(u, cut, Authority(u))
    BY <1>2, CutExists, Zenon
  <2>2. PICK n \in Url : /\ n = Normalized(cut) /\ IsCut(n, Encoded(cut), Authority(u))
                         /\ Clean(Encoded(cut).path, FALSE) /\ Clean(Encoded(cut).query, TRUE)
    BY <2>1, NormalizedIsCut, Zenon
  <2>3. Normalize(u) = n
    BY <2>1, <2>2, CutIs, Zenon
  <2>4. Authority(n) = Authority(u)
    BY <2>1, <2>2, NormalizedAuthority, Zenon
  <2>5. Normalize(n) = Normalized(Encoded(cut))
    BY <2>2, <2>4, CutIs, Zenon
  <2>6. PICK e : e = Encoded(cut)
    OBVIOUS
  <2>7. e.path \in Url /\ e.query \in Url /\ FALSE \in BOOLEAN /\ TRUE \in BOOLEAN
    BY <2>2, <2>6, Zenon DEF IsCut
  <2>8. Encode(e.path, FALSE) = e.path /\ Encode(e.query, TRUE) = e.query
    BY <2>2, <2>6, <2>7, EncodeOfClean, Zenon
  <2>9. /\ e.head = cut.head /\ e.path = Encode(cut.path, FALSE) /\ e.ask = cut.ask
        /\ e.query = Encode(cut.query, TRUE) /\ e.frag = cut.frag
    BY <2>6, EncodedFields, Zenon
  <2>10. Normalized(e) = Normalized(cut)
    BY <2>8, <2>9, Zenon DEF Normalized
  <2> QED BY <2>2, <2>3, <2>5, <2>6, <2>10, Zenon
<1> QED BY <1>1, <1>2

-----------------------------------------------------------------------------
(* The wire and the fragment of a normalized URL                           *)

\* All of a cut URL up to its fragment.
OnWire(cut) == (cut.head \o cut.path) \o Asked(cut.ask, cut.query)

LEMMA OnWireIs ==
  ASSUME NEW n \in Url, NEW cut, NEW A, IsCut(n, cut, A)
  PROVE  OnWire(cut) \in Url /\ cut.frag \in Url /\ n = OnWire(cut) \o cut.frag
<1>1. PICK head \in Url, path \in Url, y \in Url, frag \in Url :
        head = cut.head /\ path = cut.path /\ y = cut.query /\ frag = cut.frag
  BY Zenon DEF IsCut
<1>2. PICK c \in Url : c = Asked(cut.ask, y) /\ n = FromRight(head, path, c, frag)
  <2>1. cut.ask \in BOOLEAN /\ n = FromRight(head, path, Asked(cut.ask, y), frag)
    BY <1>1, Zenon DEF IsCut
  <2> QED BY <2>1, AskedIs, Zenon
<1>3. n = FromLeft(head, path, c, frag)
  <2>1. FromLeft(head, path, c, frag) = FromRight(head, path, c, frag)
    BY UrlCatFour
  <2> QED BY <1>2, <2>1, Zenon
<1>4. (head \o path) \o c \in Url
  <2>1. head \o path \in Url
    BY UrlCat
  <2> QED BY <2>1, UrlCat
<1>5. OnWire(cut) = (head \o path) \o c
  BY <1>1, <1>2, Zenon DEF OnWire
<1> QED BY <1>1, <1>3, <1>4, <1>5, Zenon DEF FromLeft

\* No "#" between the authority and the fragment.
LEMMA CutHasNone ==
  ASSUME NEW n \in Url, NEW cut, NEW A, IsCut(n, cut, A),
         NEW h \in Nat, NEW k \in Nat, NEW y \in Nat, NEW f \in Nat, NEW m \in Nat,
         Places(n, cut, h, k, y, f, m), NEW j \in A..m
  PROVE  n[j] # "#"
<1>lens. h = Len(cut.head) /\ k = Len(cut.path) /\ y = Len(cut.query)
  BY Zenon DEF Places
<1>1. (cut.ask => m = h + k + 1 + y) /\ (~cut.ask => m = h + k) /\ cut.ask \in BOOLEAN
  BY Zenon DEF Places, IsCut
<1>2. /\ \A i \in 1..h : n[i] = cut.head[i]
      /\ \A i \in 1..k : n[h + i] = cut.path[i]
      /\ cut.ask => n[h + k + 1] = "?" /\ \A i \in 1..y : n[h + k + 1 + i] = cut.query[i]
  BY Zenon DEF Places
<1>3. /\ A \in 1..(h + 1) /\ \A i \in A..h : cut.head[i] # "#"
      /\ \A i \in 1..k : cut.path[i] # "#"
      /\ \A i \in 1..y : cut.query[i] # "#"
  <2>1. /\ A \in 1..(h + 1) /\ \A i \in A..h : cut.head[i] \notin {"/", "?", "#"}
        /\ Misses(cut.path, {"?", "#"}) /\ Misses(cut.query, {"#"})
        /\ cut.path \in Url /\ cut.query \in Url
    BY <1>lens, Zenon DEF IsCut
  <2>2. DOMAIN cut.path = 1..k /\ DOMAIN cut.query = 1..y
    BY <1>lens, <2>1 DEF Url
  <2> QED BY <2>1, <2>2 DEF Misses
<1>4. CASE j <= h
  <2>1. j \in A..h /\ j \in 1..h
    BY <1>3, <1>4
  <2> QED BY <1>2, <1>3, <2>1
<1>5. CASE j > h /\ j <= h + k
  <2>1. j - h \in 1..k /\ h + (j - h) = j
    BY <1>3, <1>5
  <2> QED BY <1>2, <1>3, <2>1
<1>6. CASE j > h + k
  <2>1. cut.ask
    BY <1>1, <1>6
  <2>2. CASE j = h + k + 1
    BY <1>2, <2>1, <2>2
  <2>3. CASE j # h + k + 1
    <3>1. PICK i \in 1..y : h + k + 1 + i = j
      <4>1. m = h + k + 1 + y
        BY <1>1, <2>1, Zenon
      <4>2. j - h - k - 1 \in 1..y /\ h + k + 1 + (j - h - k - 1) = j
        BY <1>3, <1>6, <2>3, <4>1
      <4> QED BY <4>2
    <3>2. n[h + k + 1 + i] = cut.query[i] /\ cut.query[i] # "#"
      BY <1>2, <1>3, <2>1, Zenon
    <3> QED BY <3>1, <3>2
  <2> QED BY <2>2, <2>3
<1> QED BY <1>3, <1>4, <1>5, <1>6

LEMMA WireOfCut ==
  ASSUME NEW n \in Url, NEW cut, NEW A, IsCut(n, cut, A), NEW w, NEW M \in Nat, IsWire(w, n, M),
         ~(M + 1 < A)
  PROVE  w = OnWire(cut) /\ From(n, M + 1) = cut.frag
<1>1. PICK h \in Nat, k \in Nat, y \in Nat, f \in Nat, m \in Nat : Places(n, cut, h, k, y, f, m)
  BY CutPlaces, Zenon
<1>2. \A j \in A..m : n[j] # "#"
  BY <1>1, CutHasNone, Zenon
<1>lens. h = Len(cut.head) /\ f = Len(cut.frag)
  BY <1>1, Zenon DEF Places
<1>3. Len(n) = m + f /\ h <= m /\ A \in 1..(h + 1) /\ (f # 0 => n[m + 1] = "#")
  <2>1. /\ Len(n) = m + f /\ (cut.ask => m = h + k + 1 + y) /\ (~cut.ask => m = h + k)
        /\ \A i \in 1..f : n[m + i] = cut.frag[i]
    BY <1>1, Zenon DEF Places
  <2>2. cut.frag \in Url /\ (cut.frag # <<>> => cut.frag[1] = "#") /\ A \in 1..(h + 1)
    BY <1>lens, Zenon DEF IsCut
  <2>3. f # 0 => cut.frag # <<>> /\ 1 \in 1..f
    BY <1>lens, <2>2
  <2>4. h <= m
    BY <2>1
  <2> QED BY <2>1, <2>2, <2>3, <2>4
<1>4. /\ w \in Url /\ Len(w) = M /\ M <= Len(n) /\ \A i \in 1..M : w[i] = n[i] /\ n[i] # "#"
      /\ M < Len(n) => n[M + 1] = "#"
  BY Zenon DEF IsWire
<1>5. M = m
  <2>1. ASSUME M > m PROVE FALSE
    <3>1. f # 0 /\ m + 1 \in 1..M
      BY <1>3, <1>4, <2>1
    <3> QED BY <1>3, <1>4, <3>1
  <2>2. ASSUME M < m PROVE FALSE
    <3>1. M < Len(n) /\ M + 1 \in A..m
      BY <1>3, <2>2
    <3> QED BY <1>2, <1>4, <3>1
  <2> QED BY <2>1, <2>2
<1>6. PICK a \in Url, b \in Url : a = OnWire(cut) /\ b = cut.frag /\ n = a \o b
  BY OnWireIs, Zenon
<1>7. IsCat(n, a, b)
  BY <1>6, CatIs, Zenon
<1>8. Len(a) \in Nat /\ Len(n) = Len(a) + Len(b) /\ \A i \in 1..Len(a) : n[i] = a[i]
  BY <1>7, Zenon DEF IsCat
<1>9. Len(a) = M /\ Len(w) = Len(a)
  <2>1. Len(b) = f
    BY <1>lens, <1>6
  <2> QED BY <1>3, <1>4, <1>5, <1>8, <2>1
<1>10. w = a
  <2>1. \A i \in 1..Len(w) : w[i] = a[i]
    BY <1>4, <1>8, <1>9
  <2> QED BY <1>4, <1>9, <2>1, SeqEqual DEF Url
<1>11. From(n, M + 1) = b
  <2>1. From(a \o b, Len(a) + 1) = b
    BY CatParts DEF Url
  <2> QED BY <1>6, <1>9, <2>1
<1> QED BY <1>6, <1>10, <1>11, Zenon

\* Texts that begin alike, with a "#" in what they share.
LEMMA WireBefore ==
  ASSUME NEW u \in Url, NEW n \in Url, NEW h \in Nat, SameUpTo(u, n, h),
         NEW w, NEW M \in Nat, IsWire(w, u, M), NEW x, NEW L \in Nat, IsWire(x, n, L), M + 1 <= h
  PROVE  L = M /\ x = w
<1>1. /\ w \in Url /\ Len(w) = M /\ M <= Len(u) /\ \A i \in 1..M : w[i] = u[i] /\ u[i] # "#"
      /\ M < Len(u) => u[M + 1] = "#"
  BY Zenon DEF IsWire
<1>2. /\ x \in Url /\ Len(x) = L /\ L <= Len(n) /\ \A i \in 1..L : x[i] = n[i] /\ n[i] # "#"
      /\ L < Len(n) => n[L + 1] = "#"
  BY Zenon DEF IsWire
<1>3. Len(u) \in Nat /\ Len(n) \in Nat /\ h <= Len(u) /\ h <= Len(n) /\ \A i \in 1..h : u[i] = n[i]
  BY DEF Url, SameUpTo
<1>4. ~(L > M)
  <2>1. ASSUME L > M PROVE FALSE
    <3>1. M < Len(u) /\ M + 1 \in 1..h /\ M + 1 \in 1..L
      BY <1>3, <2>1
    <3> QED BY <1>1, <1>2, <1>3, <3>1
  <2> QED BY <2>1
<1>5. ~(L < M)
  <2>1. ASSUME L < M PROVE FALSE
    <3>1. L < Len(n) /\ L + 1 \in 1..h /\ L + 1 \in 1..M
      BY <1>3, <2>1
    <3> QED BY <1>1, <1>2, <1>3, <3>1
  <2> QED BY <2>1
<1>6. L = M
  BY <1>4, <1>5
<1>7. \A i \in 1..M : x[i] = w[i]
  <2> TAKE i \in 1..M
  <2>1. i \in 1..h /\ i \in 1..L
    BY <1>6
  <2> QED BY <1>1, <1>2, <1>3, <2>1
<1> QED BY <1>1, <1>2, <1>6, <1>7, SeqEqual DEF Url

ReadInParts(a, b, c) == Bytes((a \o b) \o c) = Bytes(a) \o (Bytes(b) \o Bytes(c))

LEMMA BytesOfThree ==
  ASSUME NEW a \in Url, NEW b \in Url, NEW c \in Url, Apart(b \o c), Apart(c)
  PROVE  ReadInParts(a, b, c)
<1>1. PICK d \in Url : d = b \o c
  BY UrlCat
<1>2. (a \o b) \o c = a \o d
  <2>1. CatAgrees(a, b, c)
    BY UrlCatAgrees
  <2> QED BY <1>1, <2>1, Zenon DEF CatAgrees
<1>3. Bytes(a \o d) = Bytes(a) \o Bytes(d)
  <2>1. Unbroken(a, d)
    BY <1>1, UnbrokenIf, Zenon
  <2> QED BY <2>1, BytesCat, Zenon
<1>4. Bytes(b \o c) = Bytes(b) \o Bytes(c)
  <2>1. Unbroken(b, c)
    BY UnbrokenIf, Zenon
  <2> QED BY <2>1, BytesCat, Zenon
<1> QED BY <1>1, <1>2, <1>3, <1>4, Zenon DEF ReadInParts

LEMMA BytesOfAsked ==
  ASSUME NEW ask \in BOOLEAN, NEW y \in Url, NEW b \in Url, Bytes(y) = Bytes(b)
  PROVE  Bytes(Asked(ask, y)) = Bytes(Asked(ask, b))
<1>1. CASE ask
  <2>1. PICK k \in Char : k = "?"
    BY CharsAreThere, Zenon
  <2>2. PICK m \in Url : m = <<k>> /\ Len(m) = 1 /\ m[1] = k
    <3>1. <<k>> \in Url /\ Len(<<k>>) = 1 /\ <<k>>[1] = k
      BY One DEF Url
    <3> QED BY <3>1, Zenon
  <2>3. k # "%"
    BY <2>1
  <2>4. Unbroken(m, y) /\ Unbroken(m, b)
    BY <2>2, <2>3, UnbrokenIf, Zenon
  <2>5. Bytes(m \o y) = Bytes(m) \o Bytes(y) /\ Bytes(m \o b) = Bytes(m) \o Bytes(b)
    BY <2>4, BytesCat, Zenon
  <2>6. Asked(ask, y) = m \o y /\ Asked(ask, b) = m \o b
    BY <1>1, <2>1, <2>2, Zenon DEF Asked
  <2> QED BY <2>5, <2>6, Zenon
<1>2. CASE ~ask
  BY <1>2, Zenon DEF Asked
<1> QED BY <1>1, <1>2

LEMMA AskedIsApart ==
  ASSUME NEW ask \in BOOLEAN, NEW y \in Url, NEW b \in Url, b # <<>> => b[1] = "/"
  PROVE  Apart(Asked(ask, y)) /\ Apart(b \o Asked(ask, y))
<1>1. PICK c \in Url : c = Asked(ask, y) /\ (ask => c[1] = "?") /\ (~ask => Len(c) = 0)
  BY AskedIs, Zenon
<1>2. "?" \notin Hex /\ "/" \notin Hex
  BY DEF Hex
<1>3. Apart(c)
  <2>1. CASE ask
    BY <1>1, <1>2, <2>1, Zenon DEF Apart
  <2>2. CASE ~ask
    <3>1. Len(c) = 0
      BY <1>1, <2>2
    <3>2. c = <<>>
      BY <3>1 DEF Url
    <3> QED BY <3>2, Zenon DEF Apart
  <2> QED BY <2>1, <2>2
<1>4. Apart(b \o c)
  <2>1. CASE b = <<>>
    BY <1>3, <2>1, UrlEmpty, Zenon
  <2>2. CASE b # <<>>
    <3>1. PICK v : v = b \o c
      OBVIOUS
    <3>2. IsCat(v, b, c)
      BY <3>1, CatIs
    <3>3. 1 \in 1..Len(b)
      BY <2>2 DEF Url
    <3>4. v[1] = b[1]
      BY <3>2, <3>3, Zenon DEF IsCat
    <3>5. v[1] \notin Hex
      BY <1>2, <2>2, <3>4
    <3> QED BY <3>1, <3>5, Zenon DEF Apart
  <2> QED BY <2>1, <2>2
<1> QED BY <1>1, <1>3, <1>4, Zenon

LEMMA BytesOnWire ==
  ASSUME NEW u \in Url, NEW cut, NEW A, IsCut(u, cut, A)
  PROVE  Bytes(OnWire(Encoded(cut))) = Bytes(OnWire(cut))
<1>1. PICK head \in Url, path \in Url, y \in Url :
        head = cut.head /\ path = cut.path /\ y = cut.query
  BY Zenon DEF IsCut
<1>2. /\ cut.ask \in BOOLEAN /\ FALSE \in BOOLEAN /\ TRUE \in BOOLEAN
      /\ Misses(path, {"?", "#"}) /\ (path # <<>> => path[1] = "/") /\ Misses(y, {"#"})
  BY <1>1, Zenon DEF IsCut
<1>3. PICK a \in Url, b \in Url : a = Encode(path, FALSE) /\ b = Encode(y, TRUE)
  BY <1>2, EncodeIsClean, Zenon
<1>4. PICK c \in Url, d \in Url : c = Asked(cut.ask, y) /\ d = Asked(cut.ask, b)
  BY <1>2, AskedIs, Zenon
<1>5. Bytes(a) = Bytes(path) /\ Bytes(b) = Bytes(y)
  <2>1. Plain(path, FALSE)
    BY <1>2 DEF Plain, Misses
  <2>2. Plain(y, TRUE)
    BY <1>2 DEF Plain
  <2> QED BY <1>2, <1>3, <2>1, <2>2, BytesOfEncode, Zenon
<1>6. Bytes(c) = Bytes(d)
  BY <1>2, <1>4, <1>5, BytesOfAsked, ZenonT(30)
<1>7. a # <<>> => a[1] = "/"
  BY <1>2, <1>3, EncodeEnds, Zenon
<1>8. /\ Apart(c) /\ Apart(path \o c) /\ Apart(d) /\ Apart(a \o d)
  BY <1>2, <1>4, <1>7, AskedIsApart, Zenon
<1>9. /\ Bytes((head \o path) \o c) = Bytes(head) \o (Bytes(path) \o Bytes(c))
      /\ Bytes((head \o a) \o d) = Bytes(head) \o (Bytes(a) \o Bytes(d))
  <2>1. ReadInParts(head, path, c) /\ ReadInParts(head, a, d)
    BY <1>8, BytesOfThree, Zenon
  <2> QED BY <2>1, Zenon DEF ReadInParts
<1>10. OnWire(cut) = (head \o path) \o c
  BY <1>1, <1>4, Zenon DEF OnWire
<1>11. OnWire(Encoded(cut)) = (head \o a) \o d
  <2>1. PICK e : e = Encoded(cut)
    OBVIOUS
  <2>2. e.head = head /\ e.path = a /\ e.ask = cut.ask /\ e.query = b
    BY <1>1, <1>3, <2>1, EncodedFields, Zenon
  <2>3. OnWire(e) = (head \o a) \o d
    BY <1>4, <2>2, Zenon DEF OnWire
  <2> QED BY <2>1, <2>3
<1> QED BY <1>5, <1>6, <1>9, <1>10, <1>11, Zenon

\* UrlMeansTheSame of the text u, normalized to n.
MeansTheSame(u, n) ==
  /\ Bytes(UpToFragment(n)) = Bytes(UpToFragment(u))
  /\ ~SchemeInFragment(u) => Fragment(n) = Fragment(u)
  /\ Normalize(n) = n

LEMMA NormalizedMeansTheSame ==
  ASSUME NEW u \in Url
  PROVE  MeansTheSame(u, Normalize(u))
<1>1. CASE Parts(u).path = 0
  <2>1. Normalize(u) = u
    BY <1>1, Zenon DEF Normalize
  <2> QED BY <2>1, Zenon DEF MeansTheSame
<1>2. CASE Parts(u).path # 0
  <2>1. PICK cut : IsCut(u, cut, Authority(u))
    BY <1>2, CutExists, Zenon
  <2>2. PICK A \in Nat \ {0} : A = Authority(u)
    BY AuthorityIs
  <2>e. PICK e : e = Encoded(cut)
    OBVIOUS
  <2>3. PICK n \in Url : n = Normalized(cut) /\ e = Encoded(cut) /\ IsCut(n, e, A)
    BY <2>1, <2>2, <2>e, NormalizedIsCut, Zenon
  <2>4. Normalize(u) = n
    BY <2>1, <2>3, CutIs, Zenon
  <2>5. e.head = cut.head /\ e.frag = cut.frag
    BY <2>3, EncodedFields, Zenon
  <2>6. PICK M \in Nat : IsWire(UpToFragment(u), u, M)
    BY WireIs, Zenon
  <2>7. PICK L \in Nat : IsWire(UpToFragment(n), n, L)
    BY WireIs, Zenon
  <2>w. PICK w : w = UpToFragment(u)
    OBVIOUS
  <2>x. PICK x : x = UpToFragment(n)
    OBVIOUS
  <2>8. Len(w) = M /\ Len(x) = L
    BY <2>6, <2>7, <2>w, <2>x, Zenon DEF IsWire
  <2>9. PICK h \in Nat : A <= h + 1 /\ SameUpTo(u, n, h) /\ SameUpTo(n, u, h)
    <3>1. IsCut(u, cut, A) /\ IsCut(n, e, A) /\ e.head = cut.head
      BY <2>1, <2>2, <2>3, <2>5, Zenon
    <3>2. Alike(u, n, A)
      BY <3>1, HeadsAgree, Zenon
    <3>3. PICK h \in Nat : A <= h + 1 /\ SameUpTo(u, n, h)
      BY <3>2, Zenon DEF Alike
    <3>4. SameUpTo(n, u, h)
      BY <3>3, Zenon DEF SameUpTo
    <3> QED BY <3>3, <3>4, Zenon
  <2>10. SchemeInFragment(u) <=> M + 1 < A
    <3>1. SchemeInFragment(u) <=> A > M + 1
      BY <2>2, <2>w, <2>8, Zenon DEF SchemeInFragment
    <3> QED BY <3>1
  <2>11. CASE M + 1 < A
    <3>1. M + 1 <= h
      BY <2>9, <2>11
    <3>2. x = w
      BY <2>6, <2>7, <2>w, <2>x, <2>9, <3>1, WireBefore, Zenon
    <3>3. Bytes(UpToFragment(n)) = Bytes(UpToFragment(u))
      BY <2>6, <2>7, <2>w, <2>x, <3>2, Zenon
    <3>4. Normalize(n) = n
      BY <2>4, NormalizeTwice, Zenon
    <3> QED BY <2>4, <2>10, <2>11, <3>3, <3>4, Zenon DEF MeansTheSame
  <2>12. CASE ~(M + 1 < A)
    <3>1. ~(L + 1 < A)
      <4>1. ASSUME L + 1 < A PROVE FALSE
        <5>1. L + 1 <= h
          BY <2>9, <4>1
        <5>2. IsWire(x, n, L) /\ IsWire(w, u, M) /\ SameUpTo(n, u, h)
          BY <2>6, <2>7, <2>w, <2>x, <2>9, Zenon
        <5>3. M = L
          BY <5>1, <5>2, WireBefore
        <5> QED BY <2>12, <4>1, <5>3
      <4> QED BY <4>1
    <3>2. w = OnWire(cut) /\ From(u, M + 1) = cut.frag
      BY <2>1, <2>2, <2>6, <2>w, <2>12, WireOfCut, Zenon
    <3>3. x = OnWire(e) /\ From(n, L + 1) = e.frag
      BY <2>3, <2>7, <2>x, <3>1, WireOfCut, Zenon
    <3>4. Bytes(OnWire(e)) = Bytes(OnWire(cut))
      BY <2>1, <2>3, BytesOnWire, Zenon
    <3>5. Bytes(UpToFragment(n)) = Bytes(UpToFragment(u))
      BY <2>6, <2>7, <2>w, <2>x, <3>2, <3>3, <3>4, Zenon
    <3>6. Fragment(n) = Fragment(u)
      BY <2>5, <2>w, <2>x, <2>8, <3>2, <3>3, Zenon DEF Fragment
    <3>7. Normalize(n) = n
      BY <2>4, NormalizeTwice, Zenon
    <3> QED BY <2>4, <3>5, <3>6, <3>7, Zenon DEF MeansTheSame
  <2> QED BY <2>11, <2>12
<1> QED BY <1>1, <1>2

-----------------------------------------------------------------------------

LEMMA UrlAnswer ==
  ASSUME Answers, Done("url")
  PROVE  call.arg \in Url /\ got[1] = Normalize(call.arg)
<1>1. call \in PlainCalls /\ call.fn = "url" /\ got # <<>>
  BY DEF Answers, Done
<1>2. call.arg \in UrlTexts
  BY <1>1 DEF PlainCalls
<1>3. got = <<Normalize(call.arg)>>
  BY <1>1 DEF Answers
<1> QED BY <1>2, <1>3, ArgumentsAssumption DEF Url

LEMMA UrlAnswerMeansTheSame == Answers => UrlMeansTheSame
<1> SUFFICES ASSUME Answers, Done("url") PROVE UrlMeansTheSame
  BY Zenon DEF UrlMeansTheSame
<1>1. call.arg \in Url /\ got[1] = Normalize(call.arg)
  BY UrlAnswer
<1>2. MeansTheSame(call.arg, got[1])
  BY <1>1, NormalizedMeansTheSame, Zenon
<1> QED BY <1>2, Zenon DEF UrlMeansTheSame, MeansTheSame

\* A normalized URL means what the script wrote, whatever the text: the server reads
\* the same bytes, normalizing again changes nothing, and the fragment is as it was
\* unless normalize_url took a part of it for the authority.
THEOREM UrlsMeanTheSame == ArgumentsSpec => []UrlMeansTheSame
BY UrlAnswerMeansTheSame, AnswersHold, PTL

LEMMA UrlAnswerIsAccepted == Answers => UrlIsAccepted
<1> SUFFICES ASSUME Answers, Done("url") PROVE UrlIsAccepted
  BY Zenon DEF UrlIsAccepted
<1>1. call.arg \in Url /\ got[1] = Normalize(call.arg)
  BY UrlAnswer
<1>2. IsAccepted(got[1], Authority(call.arg))
  BY <1>1, NormalizedIsAccepted
<1> QED BY <1>2, Zenon DEF UrlIsAccepted, IsAccepted

\* Path and query of a normalized URL hold nothing that the client's parser refuses,
\* whatever the script wrote there: append_url_component leaves legal bytes and
\* valid escapes, and the parts are found again where they were.
THEOREM UrlsAccepted == ArgumentsSpec => []UrlIsAccepted
BY UrlAnswerIsAccepted, AnswersHold, PTL
=============================================================================
