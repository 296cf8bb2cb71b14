---------------------------- MODULE ArgumentProofs ----------------------------
(***************************************************************************)
(* What Arguments promises of URLs, proxies and module values, proved for  *)
(* texts of every length.                                                  *)
(***************************************************************************)
EXTENDS Arguments, SequenceTheorems, WellFoundedInduction, TLAPS

\* The provers do not know that a character written out is a string.
Letter == STRING \cup {":", "/", "@", "[", "]", "h", "t", "p"}
Text == Seq(Letter)

\* < is well founded: a set of numbers has a smallest one.
LEMMA LessIsWellFounded == IsWellFoundedOn({ss \in Nat \X Nat : ss[1] < ss[2]}, Nat)
BY NatLessThanWellFounded, Z3 DEF OpToRel

LEMMA SmallestMember ==
  ASSUME NEW T, T \subseteq Nat, T # {}
  PROVE  \E n \in T : \A m \in T : n <= m
<1> DEFINE R == {ss \in Nat \X Nat : ss[1] < ss[2]}
<1>1. PICK n \in T : \A m \in T : ~(<<m, n>> \in R)
  BY LessIsWellFounded, WFMin
<1>2. \A m \in Nat : m < n => <<m, n>> \in R
  BY <1>1
<1>3. \A m \in T : ~(m < n)
  <2> HIDE DEF R
  <2> QED BY <1>1, <1>2
<1>4. \A m \in T : n <= m
  BY <1>3
<1> QED BY <1>1, <1>4

-----------------------------------------------------------------------------
(* A result is there once its call was answered.                           *)

Answers ==
  /\ call \in PlainCalls
  /\ got # <<>> =>
       got = CASE call.fn = "url"     -> <<Normalize(call.arg)>>
               [] call.fn = "proxy"   -> <<ParseProxy(call.arg)>>
               [] call.fn = "require" -> <<RequireTwice(call.arg)>>

LEMMA AnswersHold == ArgumentsSpec => []Answers
<1>1. ArgumentsInit => Answers
  BY DEF ArgumentsInit, Answers
<1>2. ASSUME Answers, [ArgumentsNext]_<<call, got>> PROVE Answers'
  <2>1. CASE UNCHANGED <<call, got>>
    BY <1>2, <2>1 DEF Answers
  <2>2. CASE NormalizeUrl
    BY <1>2, <2>2 DEF Answers, NormalizeUrl, Called
  <2>3. CASE TakeProxy
    BY <1>2, <2>3 DEF Answers, TakeProxy, Called
  <2>4. CASE ReturnModule
    BY <1>2, <2>4 DEF Answers, ReturnModule, Called
  <2> QED BY <1>2, <2>1, <2>2, <2>3, <2>4 DEF ArgumentsNext
<1> QED BY <1>1, <1>2, PTL DEF ArgumentsSpec

-----------------------------------------------------------------------------
(* The values of a module                                                  *)

LEMMA ShortList ==
  ASSUME NEW S, NEW v \in Seq(S), Len(v) < 2
  PROVE  v = <<>> \/ (Len(v) = 1 /\ v = <<v[1]>>)
<1>1. Len(v) \in Nat /\ v \in [1..Len(v) -> S] /\ (Len(v) = 0 => v = <<>>)
  OBVIOUS
<1>2. ASSUME Len(v) = 1 PROVE v = <<v[1]>>
  <2>1. <<v[1]>> \in Seq(S) /\ Len(<<v[1]>>) = 1 /\ <<v[1]>>[1] = v[1]
    BY <1>1, <1>2
  <2> QED BY <1>2, <2>1, SeqEqual
<1> QED BY <1>1, <1>2

LEMMA Booleans ==
  /\ True # NilValue /\ False # NilValue /\ True # False
  /\ <<True>>[1] = True /\ <<NilValue>>[1] = NilValue
  /\ Len(<<True>>) = 1 /\ <<NilValue>> # <<>>
<1>1. /\ True[2] = TRUE /\ False[2] = FALSE
      /\ True[1] = "bool" /\ False[1] = "bool" /\ NilValue[1] = "nil"
  BY DEF True, False, NilValue
<1>2. True # NilValue /\ False # NilValue /\ True # False
  BY <1>1, Zenon
<1> QED BY <1>2

LEMMA ModuleAnswer == Answers => ModuleReturned
<1> SUFFICES ASSUME Answers, Done("require"), Len(call.arg) < 2
             PROVE  ModuleReturned
  BY DEF ModuleReturned
<1> DEFINE values == call.arg
<1>1. call.arg \in Returned /\ got[1] = RequireTwice(values)
  BY DEF Answers, Done, PlainCalls
<1>2. values = <<>> \/ (Len(values) = 1 /\ values = <<values[1]>>)
  <2>1. values \in Seq(Range(values))
    BY <1>1, ArgumentsAssumption, Zenon
  <2> QED BY <2>1, ShortList, Zenon
<1>3. CASE values = <<>> \/ values = <<NilValue>>
  <2>1. ModuleValues(values) = <<True>>
    BY <1>3, Booleans DEF ModuleValues
  <2>2. /\ CanStore(<<True>>) /\ Cached(<<True>>) = True /\ Answered(<<True>>) = True
        /\ Cached(<<True>>) \notin {NilValue, False}
    BY Booleans DEF CanStore, Cached, Answered
  <2>3. RequireTwice(values) = [ok |-> TRUE, first |-> True, second |-> True, runs |-> 1]
    BY <2>1, <2>2, Zenon DEF RequireTwice
  <2> QED BY <1>1, <1>3, <2>3, Booleans, Zenon DEF ModuleReturned
<1>4. CASE ~(values = <<>> \/ values = <<NilValue>>)
  <2> DEFINE value == values[1]
  <2>1. Len(values) = 1 /\ values = <<value>> /\ value # NilValue
    BY <1>2, <1>4
  <2>2. ModuleValues(values) = values
    BY <1>4, <2>1 DEF ModuleValues
  <2>3. CanStore(values) /\ Cached(values) = value /\ Answered(values) = value
    BY <2>1 DEF CanStore, Cached, Answered
  <2>4. RequireTwice(values) = [ok |-> TRUE, first |-> value, second |-> value,
                                runs |-> IF value = False THEN 2 ELSE 1]
    <3>1. Cached(values) \in {NilValue, False} <=> value = False
      BY <2>1, <2>3, Zenon
    <3> HIDE DEF value
    <3> QED BY <2>2, <2>3, <3>1, Zenon DEF RequireTwice
  <2> QED BY <1>1, <1>4, <2>4, Zenon DEF ModuleReturned
<1> QED BY <1>3, <1>4

\* A module of one value or none runs once, and everybody who requires it gets
\* that value, or true in place of nil and of none (ProcessRequireRun,
\* CacheModuleValues, require_continuation).
THEOREM ModuleIsReturned == ArgumentsSpec => []ModuleReturned
BY ModuleAnswer, AnswersHold, PTL

-----------------------------------------------------------------------------
(* Texts put together and taken apart                                      *)

LEMMA Cat ==
  ASSUME NEW S, NEW a \in Seq(S), NEW b \in Seq(S)
  PROVE  /\ a \o b \in Seq(S) /\ Len(a) \in Nat /\ Len(b) \in Nat
         /\ Len(a \o b) = Len(a) + Len(b)
         /\ \A i \in 1..Len(a) : (a \o b)[i] = a[i]
         /\ \A i \in 1..Len(b) : (a \o b)[Len(a) + i] = b[i]
         /\ \A i \in 1..(Len(a) + Len(b)) : i > Len(a) =>
              i - Len(a) \in 1..Len(b) /\ (a \o b)[i] = b[i - Len(a)]
<1>1. /\ a \o b \in Seq(S) /\ Len(a \o b) = Len(a) + Len(b)
      /\ \A i \in 1..(Len(a) + Len(b)) : (a \o b)[i] = IF i <= Len(a) THEN a[i] ELSE b[i - Len(a)]
  BY ConcatProperties
<1>2. Len(a) \in Nat /\ Len(b) \in Nat
  OBVIOUS
<1>3. \A i \in 1..Len(b) : (a \o b)[Len(a) + i] = b[i]
  <2> TAKE i \in 1..Len(b)
  <2>1. Len(a) + i \in 1..(Len(a) + Len(b)) /\ ~(Len(a) + i <= Len(a)) /\ Len(a) + i - Len(a) = i
    BY <1>2
  <2> QED BY <1>1, <2>1
<1> QED BY <1>1, <1>2, <1>3

\* A part of a text, and its characters.
LEMMA Part ==
  ASSUME NEW S, NEW u \in Seq(S), NEW m \in Nat \ {0}, NEW n \in Nat, n <= Len(u)
  PROVE  /\ SubSeq(u, m, n) \in Seq(S)
         /\ Len(SubSeq(u, m, n)) = IF m <= n THEN n - m + 1 ELSE 0
         /\ \A i \in 1..(n - m + 1) : SubSeq(u, m, n)[i] = u[m + i - 1]
<1>1. \A i \in m..n : u[i] \in S
  OBVIOUS
<1> QED BY <1>1, SubSeqProperties

LEMMA CatParts ==
  ASSUME NEW S, NEW a \in Seq(S), NEW b \in Seq(S)
  PROVE  /\ SubSeq(a \o b, 1, Len(a)) = a
         /\ From(a \o b, Len(a) + 1) = b
<1> DEFINE u == a \o b
<1>1. /\ u \in Seq(S) /\ Len(a) \in Nat /\ Len(b) \in Nat /\ Len(u) = Len(a) + Len(b)
      /\ \A i \in 1..Len(a) : u[i] = a[i]
      /\ \A i \in 1..Len(b) : u[Len(a) + i] = b[i]
  BY Cat
<1> HIDE DEF u
<1>2. SubSeq(u, 1, Len(a)) = a
  <2>1. /\ SubSeq(u, 1, Len(a)) \in Seq(S) /\ Len(SubSeq(u, 1, Len(a))) = Len(a)
        /\ \A i \in 1..Len(a) : SubSeq(u, 1, Len(a))[i] = u[i]
    BY <1>1, Part
  <2>2. \A i \in 1..Len(a) : SubSeq(u, 1, Len(a))[i] = a[i]
    BY <1>1, <2>1
  <2> QED BY <2>1, <2>2, SeqEqual
<1>3. From(u, Len(a) + 1) = b
  <2> DEFINE v == SubSeq(u, Len(a) + 1, Len(u))
  <2>1. /\ v \in Seq(S) /\ Len(v) = Len(b)
        /\ \A i \in 1..Len(b) : v[i] = u[Len(a) + 1 + i - 1]
    BY <1>1, Part
  <2>2. \A i \in 1..Len(b) : v[i] = b[i]
    <3> HIDE DEF v
    <3> TAKE i \in 1..Len(b)
    <3>1. Len(a) + 1 + i - 1 = Len(a) + i
      BY <1>1
    <3> QED BY <1>1, <2>1, <3>1
  <2>3. v = b
    BY <2>1, <2>2, SeqEqual
  <2> QED BY <2>3 DEF From
<1> QED BY <1>2, <1>3 DEF u

\* Where a search ends.
LEMMA FirstOfIs ==
  ASSUME NEW S, NEW u \in Seq(S), NEW chars, NEW from \in Nat \ {0}, NEW k \in from..Len(u),
         u[k] \in chars, \A j \in from..(k - 1) : u[j] \notin chars
  PROVE  FirstOf(u, chars, from) = k
<1> DEFINE I == {i \in from..Len(u) : u[i] \in chars}
<1>1. k \in I /\ \A i \in I : k <= i
  <2>1. \A i \in I : ~(i < k)
    BY Len(u) \in Nat
  <2> QED BY <2>1
<1>2. \A i \in I : (\A j \in I : i <= j) => i = k
  BY <1>1
<1>3. Min(I) = k
  <2> HIDE DEF I
  <2> QED BY <1>1, <1>2 DEF Min
<1> QED BY <1>1, <1>3 DEF FirstOf, SelectInSubSeq

LEMMA FirstOfNone ==
  ASSUME NEW u, NEW chars, NEW from, \A j \in from..Len(u) : u[j] \notin chars
  PROVE  FirstOf(u, chars, from) = 0
BY DEF FirstOf, SelectInSubSeq

\* What a search finds.
LEMMA FirstOfFinds ==
  ASSUME NEW S, NEW u \in Seq(S), NEW chars, NEW from \in Nat \ {0}
  PROVE  \/ FirstOf(u, chars, from) = 0 /\ \A j \in from..Len(u) : u[j] \notin chars
         \/ \E k \in from..Len(u) :
              /\ FirstOf(u, chars, from) = k
              /\ u[k] \in chars /\ \A j \in from..(k - 1) : u[j] \notin chars
<1>1. CASE \A j \in from..Len(u) : u[j] \notin chars
  BY <1>1, FirstOfNone
<1>2. CASE \E j \in from..Len(u) : u[j] \in chars
  <2> DEFINE I == {i \in from..Len(u) : u[i] \in chars}
  <2>1. I \subseteq Nat /\ I # {}
    BY <1>2
  <2>2. PICK k \in I : \A j \in I : k <= j
    BY <2>1, SmallestMember
  <2>3. k \in from..Len(u) /\ u[k] \in chars /\ \A j \in from..(k - 1) : u[j] \notin chars
    <3>1. \A j \in from..(k - 1) : j \in from..Len(u) /\ ~(k <= j)
      BY <2>2
    <3> QED BY <2>2, <3>1
  <2> QED BY <2>3, FirstOfIs
<1> QED BY <1>1, <1>2

LEMMA LastOfIs ==
  ASSUME NEW S, NEW u \in Seq(S), NEW chars, NEW k \in 1..Len(u),
         u[k] \in chars, \A j \in (k + 1)..Len(u) : u[j] \notin chars
  PROVE  LastOf(u, chars) = k
<1> DEFINE I == {i \in 1..Len(u) : u[i] \in chars}
<1>1. k \in I /\ \A i \in I : k >= i
  <2>1. \A i \in I : ~(i > k)
    BY Len(u) \in Nat
  <2> QED BY <2>1
<1>2. \A i \in I : (\A j \in I : i >= j) => i = k
  BY <1>1
<1>3. Max(I) = k
  <2> HIDE DEF I
  <2> QED BY <1>1, <1>2 DEF Max
<1> QED BY <1>1, <1>3 DEF LastOf, SelectLastInSeq

LEMMA LastOfNone ==
  ASSUME NEW u, NEW chars, \A j \in 1..Len(u) : u[j] \notin chars
  PROVE  LastOf(u, chars) = 0
BY DEF LastOf, SelectLastInSeq

-----------------------------------------------------------------------------
(* Recursive functions that exist                                          *)

\* A sum over the positions of a text, one position after the other.
Sums(f, base, step, N) == f[0] = base /\ \A n \in 1..N : f[n] = step[<<f[n - 1], n>>]

LEMMA SumExists ==
  ASSUME NEW S, NEW N \in Nat, NEW base \in S, NEW step \in [S \X (1..N) -> S]
  PROVE  \E f \in [0..N -> S] : Sums(f, base, step, N)
<1> USE DEF Sums
<1> DEFINE Bad == {k \in 0..N : ~\E f \in [0..k -> S] : Sums(f, base, step, k)}
<1>1. ASSUME Bad # {} PROVE FALSE
  <2>0. Bad \subseteq Nat /\ Bad # {}
    BY <1>1
  <2>1. PICK k \in Bad : \A m \in Bad : k <= m
    <3> HIDE DEF Bad
    <3> QED BY <2>0, SmallestMember
  <2>2. CASE k = 0
    <3>1. [i \in 0..0 |-> base] \in [0..0 -> S] /\ Sums([i \in 0..0 |-> base], base, step, 0)
      OBVIOUS
    <3> QED BY <2>1, <2>2, <3>1
  <2>3. CASE k # 0
    <3>1. k - 1 \in 0..N /\ k - 1 \notin Bad /\ k \in 1..N /\ k - 1 \in Nat
      BY <2>1, <2>3
    <3>2. PICK f \in [0..(k - 1) -> S] : Sums(f, base, step, k - 1)
      BY <3>1
    <3> DEFINE g == [i \in 0..k |-> IF i = k THEN step[<<f[k - 1], k>>] ELSE f[i]]
    <3>3. step[<<f[k - 1], k>>] \in S
      BY <3>1, <3>2
    <3>4. g \in [0..k -> S] /\ g[k] = step[<<f[k - 1], k>>] /\ \A i \in 0..(k - 1) : g[i] = f[i]
      BY <3>1, <3>2, <3>3
    <3>5. Sums(g, base, step, k)
      <4> HIDE DEF g
      <4>1. g[0] = base
        BY <3>1, <3>2, <3>4
      <4>2. ASSUME NEW n \in 1..k PROVE g[n] = step[<<g[n - 1], n>>]
        <5>1. n - 1 \in 0..(k - 1) /\ (n = k \/ n \in 1..(k - 1))
          BY <3>1
        <5>2. g[n - 1] = f[n - 1]
          BY <3>4, <5>1
        <5>3. CASE n = k
          BY <3>4, <5>2, <5>3
        <5>4. CASE n \in 1..(k - 1)
          <6>1. g[n] = f[n] /\ f[n] = step[<<f[n - 1], n>>]
            BY <3>2, <3>4, <5>4
          <6> QED BY <5>2, <6>1, Zenon
        <5> QED BY <5>1, <5>3, <5>4
      <4> QED BY <4>1, <4>2
    <3> QED BY <2>1, <3>4, <3>5
  <2> QED BY <2>2, <2>3
<1>2. N \in 0..N /\ Bad = {}
  BY <1>1
<1> QED BY <1>2

\* Two functions that go on from equal values in the same way are equal.
GoesOnAs(f, g, N) == f[0] = g[0] /\ \A n \in 1..N : f[n - 1] = g[n - 1] => f[n] = g[n]

LEMMA SumsAgree ==
  ASSUME NEW N \in Nat, NEW f, NEW g, GoesOnAs(f, g, N)
  PROVE  f[N] = g[N]
<1> USE DEF GoesOnAs
<1> DEFINE Bad == {n \in 0..N : f[n] # g[n]}
<1>1. ASSUME Bad # {} PROVE FALSE
  <2>1. Bad \subseteq Nat
    OBVIOUS
  <2>2. PICK k \in Bad : \A m \in Bad : k <= m
    <3> HIDE DEF Bad
    <3> QED BY <1>1, <2>1, SmallestMember
  <2>3. k \in 1..N /\ k - 1 \in 0..N /\ k - 1 \notin Bad
    BY <2>2
  <2> QED BY <2>2, <2>3
<1> QED BY <1>1

-----------------------------------------------------------------------------
(* Ports                                                                   *)

IsPort(d) == Len(d) \in 1..MaxDigits /\ \A i \in DOMAIN d : IsDigit(d[i])
LimbRange == {n \in Nat : n < Limb}
Limbs == LimbRange \X LimbRange \X LimbRange \X LimbRange
Number(a, b, c, e) == a + Limb * (b + Limb * (c + Limb * e))
Value(v) == Number(v[1], v[2], v[3], v[4])
Word == Limb * Limb * Limb * Limb          \* what 64 bits cannot hold

LEMMA DigitIsSmall ==
  ASSUME NEW c, IsDigit(c)
  PROVE  DigitValue(c) \in 0..9
<1>1. DOMAIN Digits = 1..10
  BY DEF Digits
<1> QED BY <1>1 DEF IsDigit, DigitValue

LEMMA DivMod ==
  ASSUME NEW n \in Nat
  PROVE  \E q \in Nat, r \in LimbRange : n \div Limb = q /\ n % Limb = r /\ n = Limb * q + r
<1>1. n % Limb \in LimbRange /\ n \div Limb \in Nat /\ n = Limb * (n \div Limb) + (n % Limb)
  BY SMT DEF Limb, LimbRange
<1> QED BY <1>1, Zenon

\* One more digit, as long as 64 bits hold the value.
LEMMA ShiftIsTimesTen ==
  ASSUME NEW v \in Limbs, NEW digit, IsDigit(digit)
  PROVE  /\ Shift(v, digit) \in Limbs
         /\ Value(v) * 10 + DigitValue(digit) < Word =>
              Value(Shift(v, digit)) = Value(v) * 10 + DigitValue(digit)
<1>1. PICK v1 \in Nat, v2 \in Nat, v3 \in Nat, v4 \in Nat :
        v1 = v[1] /\ v2 = v[2] /\ v3 = v[3] /\ v4 = v[4]
  BY SMT DEF Limbs, LimbRange
<1>2. PICK g \in Nat : g = DigitValue(digit)
  BY DigitIsSmall, SMT
<1>3. v1 * 10 + g \in Nat
  BY SMT
<1>4. PICK a1 \in Nat, a0 \in LimbRange :
        (v1 * 10 + g) \div Limb = a1 /\ (v1 * 10 + g) % Limb = a0 /\ v1 * 10 + g = Limb * a1 + a0
  BY <1>3, DivMod, Zenon
<1>5. v2 * 10 + a1 \in Nat
  BY SMT
<1>6. PICK b1 \in Nat, b0 \in LimbRange :
        (v2 * 10 + a1) \div Limb = b1 /\ (v2 * 10 + a1) % Limb = b0 /\ v2 * 10 + a1 = Limb * b1 + b0
  BY <1>5, DivMod, Zenon
<1>7. v3 * 10 + b1 \in Nat
  BY SMT
<1>8. PICK c1 \in Nat, c0 \in LimbRange :
        (v3 * 10 + b1) \div Limb = c1 /\ (v3 * 10 + b1) % Limb = c0 /\ v3 * 10 + b1 = Limb * c1 + c0
  BY <1>7, DivMod, Zenon
<1>9. v4 * 10 + c1 \in Nat
  BY SMT
<1>10. PICK e1 \in Nat, e0 \in LimbRange :
        (v4 * 10 + c1) \div Limb = e1 /\ (v4 * 10 + c1) % Limb = e0 /\ v4 * 10 + c1 = Limb * e1 + e0
  BY <1>9, DivMod, Zenon
<1>11. Shift(v, digit) = <<a0, b0, c0, e0>>
  BY <1>1, <1>2, <1>4, <1>6, <1>8, <1>10, Zenon DEF Shift
<1>12. Value(v) = Number(v1, v2, v3, v4)
  BY <1>1, Zenon DEF Value
<1>13. ASSUME Value(v) * 10 + DigitValue(digit) < Word
       PROVE  Value(v) * 10 + DigitValue(digit) = Number(a0, b0, c0, e0)
  <2>1. a0 \in Nat /\ b0 \in Nat /\ c0 \in Nat /\ e0 \in Nat
    BY DEF LimbRange
  <2>2. Number(v1, v2, v3, v4) * 10 + g < Word
    BY <1>2, <1>12, <1>13, Zenon
  <2>3. /\ v1 * 10 + g = Limb * a1 + a0 /\ v2 * 10 + a1 = Limb * b1 + b0
        /\ v3 * 10 + b1 = Limb * c1 + c0 /\ v4 * 10 + c1 = Limb * e1 + e0
    BY <1>4, <1>6, <1>8, <1>10, Zenon
  <2>4. Number(v1, v2, v3, v4) * 10 + g
          = a0 + Limb * (b0 + Limb * (c0 + Limb * (Limb * e1 + e0)))
    BY <2>1, <2>3, SMT DEF Limb, Number
  <2>5. a0 + Limb * (b0 + Limb * (c0 + Limb * (Limb * e1 + e0))) < Word
    BY <2>2, <2>4, Zenon
  <2>6. e1 = 0
    BY <2>1, <2>5, SMT DEF Limb, Word
  <2>7. Number(v1, v2, v3, v4) * 10 + g = Number(a0, b0, c0, e0)
    BY <2>1, <2>4, <2>6, SMT DEF Limb, Number
  <2> QED BY <1>2, <1>12, <2>7, Zenon
<1>14. <<a0, b0, c0, e0>> \in Limbs
  BY SMT DEF Limbs
<1>15. Value(<<a0, b0, c0, e0>>) = Number(a0, b0, c0, e0)
  BY SMT DEF Value
<1> QED BY <1>11, <1>13, <1>14, <1>15, Zenon

LEMMA PortValueIs ==
  ASSUME NEW d \in Text, IsPort(d)
  PROVE  \E f \in [0..Len(d) -> Limbs] :
           /\ f[0] = <<0, 0, 0, 0>> /\ \A n \in 1..Len(d) : f[n] = Shift(f[n - 1], d[n])
           /\ PortValue(d) = f[Len(d)]
<1> DEFINE N == Len(d)
           step == [x \in Limbs \X (1..N) |-> Shift(x[1], d[x[2]])]
           Body(f) == [n \in 0..N |-> IF n = 0 THEN <<0, 0, 0, 0>> ELSE Shift(f[n - 1], d[n])]
           sum == CHOOSE f : f = Body(f)
<1>1. N \in Nat /\ \A n \in 1..N : IsDigit(d[n])
  BY DEF IsPort, Text
<1>2. <<0, 0, 0, 0>> \in Limbs
  BY DEF Limbs, LimbRange, Limb
<1>3. step \in [Limbs \X (1..N) -> Limbs]
  BY <1>1, ShiftIsTimesTen
<1>4. PICK f \in [0..N -> Limbs] :
        f[0] = <<0, 0, 0, 0>> /\ \A n \in 1..N : f[n] = step[<<f[n - 1], n>>]
  <2> HIDE DEF step, N
  <2>1. \E f \in [0..N -> Limbs] : Sums(f, <<0, 0, 0, 0>>, step, N)
    BY <1>1, <1>2, <1>3, SumExists, Zenon
  <2> QED BY <2>1, Zenon DEF Sums
<1>5. \A n \in 1..N : f[n] = Shift(f[n - 1], d[n])
  <2> TAKE n \in 1..N
  <2>1. f[n - 1] \in Limbs
    BY <1>1, <1>4
  <2> QED BY <1>4, <2>1
<1>6. f = Body(f)
  <2>1. \A n \in 0..N : f[n] = Body(f)[n]
    <3> HIDE DEF N, step
    <3> TAKE n \in 0..N
    <3>1. n = 0 \/ n \in 1..N
      BY <1>1
    <3>2. Body(f)[n] = IF n = 0 THEN <<0, 0, 0, 0>> ELSE Shift(f[n - 1], d[n])
      BY Zenon
    <3> QED BY <1>4, <1>5, <3>1, <3>2
  <2>2. f = [n \in 0..N |-> f[n]] /\ Body(f) = [n \in 0..N |-> Body(f)[n]]
    <3> HIDE DEF N
    <3> QED BY <1>4, Zenon
  <2> HIDE DEF Body
  <2> QED BY <2>1, <2>2, Zenon
<1>7. sum = Body(sum)
  <2> HIDE DEF Body
  <2> QED BY <1>6
<1>8. sum[0] = <<0, 0, 0, 0>> /\ \A n \in 1..N : sum[n] = Shift(sum[n - 1], d[n])
  <2>1. PICK g : g = sum
    OBVIOUS
  <2>2. g = Body(g)
    BY <1>7, <2>1, Zenon
  <2> HIDE DEF N, sum
  <2>3. 0 \in 0..N /\ \A n \in 1..N : n \in 0..N /\ n # 0
    BY <1>1
  <2>4. g[0] = <<0, 0, 0, 0>> /\ \A n \in 1..N : g[n] = Shift(g[n - 1], d[n])
    BY <2>2, <2>3, Zenon
  <2> QED BY <2>1, <2>4, Zenon
<1>9. sum[N] = f[N]
  <2> HIDE DEF sum, N, Body, step
  <2>1. GoesOnAs(sum, f, N)
    BY <1>4, <1>5, <1>8, Zenon DEF GoesOnAs
  <2> QED BY <1>1, <2>1, SumsAgree, Zenon
<1>10. PortValue(d) = sum[N]
  BY DEF PortValue
<1> QED BY <1>4, <1>5, <1>9, <1>10

LEMMA CappedIs ==
  ASSUME NEW d \in Text, IsPort(d)
  PROVE  \E f \in [0..Len(d) -> Nat] :
           /\ f[0] = 0
           /\ \A n \in 1..Len(d) :
                f[n] = IF f[n - 1] > MaxPort THEN f[n - 1] ELSE f[n - 1] * 10 + DigitValue(d[n])
           /\ Capped(d) = f[Len(d)]
<1> DEFINE N == Len(d)
           Add(k, n) == IF k > MaxPort THEN k ELSE k * 10 + DigitValue(d[n])
           step == [x \in Nat \X (1..N) |-> Add(x[1], x[2])]
           Body(f) == [n \in 0..N |-> IF n = 0 THEN 0
                                      ELSE IF f[n - 1] > MaxPort THEN f[n - 1]
                                      ELSE f[n - 1] * 10 + DigitValue(d[n])]
           sum == CHOOSE f : f = Body(f)
<1>1. N \in Nat /\ \A n \in 1..N : IsDigit(d[n])
  BY DEF IsPort, Text
<1>2. 0 \in Nat
  OBVIOUS
<1>3. step \in [Nat \X (1..N) -> Nat]
  BY <1>1, DigitIsSmall
<1>4. PICK f \in [0..N -> Nat] : f[0] = 0 /\ \A n \in 1..N : f[n] = step[<<f[n - 1], n>>]
  <2> HIDE DEF step, N
  <2>1. \E f \in [0..N -> Nat] : Sums(f, 0, step, N)
    BY <1>1, <1>2, <1>3, SumExists, Zenon
  <2> QED BY <2>1, Zenon DEF Sums
<1>5. \A n \in 1..N : f[n] = Add(f[n - 1], n)
  <2> TAKE n \in 1..N
  <2>1. f[n - 1] \in Nat
    BY <1>1, <1>4
  <2> HIDE DEF Add
  <2> QED BY <1>4, <2>1
<1>6. f = Body(f)
  <2>1. \A n \in 0..N : f[n] = Body(f)[n]
    <3> HIDE DEF N, step
    <3> TAKE n \in 0..N
    <3>1. n = 0 \/ n \in 1..N
      BY <1>1
    <3>2. Body(f)[n] = IF n = 0 THEN 0 ELSE Add(f[n - 1], n)
      BY Zenon
    <3> HIDE DEF Add, Body
    <3> QED BY <1>4, <1>5, <3>1, <3>2
  <2>2. f = [n \in 0..N |-> f[n]] /\ Body(f) = [n \in 0..N |-> Body(f)[n]]
    <3> HIDE DEF N
    <3> QED BY <1>4, Zenon
  <2> HIDE DEF Body
  <2> QED BY <2>1, <2>2, Zenon
<1>7. sum = Body(sum)
  <2> HIDE DEF Body
  <2> QED BY <1>6
<1>8. sum[0] = 0 /\ \A n \in 1..N : sum[n] = Add(sum[n - 1], n)
  <2>1. PICK g : g = sum
    OBVIOUS
  <2>2. g = Body(g)
    BY <1>7, <2>1, Zenon
  <2> HIDE DEF N, sum
  <2>3. 0 \in 0..N /\ \A n \in 1..N : n \in 0..N /\ n # 0
    BY <1>1
  <2>4. g[0] = 0 /\ \A n \in 1..N : g[n] = Add(g[n - 1], n)
    BY <2>2, <2>3, Zenon
  <2> QED BY <2>1, <2>4, Zenon
<1>9. sum[N] = f[N]
  <2> HIDE DEF sum, N, Body, step, Add
  <2>1. GoesOnAs(sum, f, N)
    BY <1>4, <1>5, <1>8, Zenon DEF GoesOnAs
  <2> QED BY <1>1, <2>1, SumsAgree, Zenon
<1>10. Capped(d) = sum[N]
  BY DEF Capped
<1> QED BY <1>4, <1>5, <1>9, <1>10

\* Ten to the n-th, up to what 64 bits can hold.
LEMMA PowersOfTen ==
  \E p \in [0..19 -> Nat] : /\ p[0] = 1 /\ \A n \in 1..19 : p[n] = 10 * p[n - 1]
                            /\ \A n \in 0..19 : p[n] <= Word
<1> DEFINE step == [x \in Nat \X (1..19) |-> 10 * x[1]]
<1>1. step \in [Nat \X (1..19) -> Nat]
  OBVIOUS
<1>2. PICK p \in [0..19 -> Nat] : Sums(p, 1, step, 19)
  <2> HIDE DEF step
  <2> QED BY <1>1, SumExists
<1>3. p[0] = 1 /\ \A n \in 1..19 : p[n] = 10 * p[n - 1]
  BY <1>2 DEF Sums
<1>4. /\ p[1] = 10 /\ p[2] = 100 /\ p[3] = 1000 /\ p[4] = 10000 /\ p[5] = 100000
      /\ p[6] = 1000000 /\ p[7] = 10000000
  BY <1>3
<1>5. /\ p[8] = 10 * p[7] /\ p[9] = 10 * p[8] /\ p[10] = 10 * p[9] /\ p[11] = 10 * p[10]
      /\ p[12] = 10 * p[11] /\ p[13] = 10 * p[12] /\ p[14] = 10 * p[13] /\ p[15] = 10 * p[14]
      /\ p[16] = 10 * p[15] /\ p[17] = 10 * p[16] /\ p[18] = 10 * p[17] /\ p[19] = 10 * p[18]
  BY <1>3
<1>6. \A n \in 0..19 : p[n] <= Word
  BY <1>3, <1>4, <1>5 DEF Word, Limb
<1> QED BY <1>3, <1>6

LEMMA InPortRange ==
  ASSUME NEW x \in Nat
  PROVE  x \in 1..MaxPort <=> x # 0 /\ x <= MaxPort
<1>1. MaxPort \in Nat
  BY DEF MaxPort
<1> QED BY <1>1, SMT

LEMMA ValueIsNat ==
  ASSUME NEW v \in Limbs
  PROVE  /\ Value(v) \in Nat
         /\ (v[1] # 0 /\ Tail(v) = <<0, 0, 0>>) <=> Value(v) \in 1..MaxPort
<1>1. PICK a \in LimbRange, b \in LimbRange, c \in LimbRange, e \in LimbRange : v = <<a, b, c, e>>
  BY DEF Limbs
<1>2. v[1] = a /\ v[2] = b /\ v[3] = c /\ v[4] = e /\ Tail(v) = <<b, c, e>>
  BY <1>1
<1>3. Value(v) = Number(a, b, c, e)
  BY <1>2, Zenon DEF Value
<1>4. Tail(v) = <<0, 0, 0>> <=> b = 0 /\ c = 0 /\ e = 0
  BY <1>2
<1>5. a \in Nat /\ b \in Nat /\ c \in Nat /\ e \in Nat /\ a <= MaxPort
  BY SMT DEF LimbRange, Limb, MaxPort
<1>6. Number(a, b, c, e) \in Nat
  BY <1>5, SMT DEF Limb, Number
<1>7. b = 0 /\ c = 0 /\ e = 0 => Number(a, b, c, e) = a
  BY <1>5, SMT DEF Limb, Number
<1>8. Number(a, b, c, e) <= MaxPort => b = 0 /\ c = 0 /\ e = 0
  BY <1>5, SMT DEF Limb, Number, MaxPort
<1>9. Number(a, b, c, e) \in 1..MaxPort <=> a # 0 /\ b = 0 /\ c = 0 /\ e = 0
  BY <1>5, <1>6, <1>7, <1>8, InPortRange, Zenon
<1> QED BY <1>2, <1>3, <1>4, <1>6, <1>9, Zenon

LEMMA UpToNineteen ==
  ASSUME NEW N \in Nat, N <= 19, NEW n \in 1..N
  PROVE  n \in 1..19 /\ n \in 0..N /\ n - 1 \in 0..N /\ n - 1 \in 0..19 /\ n \in 0..19
OBVIOUS

LEMMA TenTimes ==
  ASSUME NEW x \in Nat, NEW g \in 0..9, NEW q \in Nat, NEW r \in Nat, x < q, r = 10 * q, r <= Word
  PROVE  x * 10 + g < r /\ x * 10 + g < Word
BY SMT DEF Word, Limb

\* A capped sum and the sum agree as long as one of them is small.
LEMMA CapAgrees ==
  ASSUME NEW x \in Nat, NEW y \in Nat, NEW g \in 0..9, NEW z,
         y <= MaxPort \/ x <= MaxPort => y = x, z = IF y > MaxPort THEN y ELSE y * 10 + g
  PROVE  z <= MaxPort \/ x * 10 + g <= MaxPort => z = x * 10 + g
BY SMT DEF MaxPort

LEMMA SameRange ==
  ASSUME NEW x \in Nat, NEW y \in Nat, y <= MaxPort \/ x <= MaxPort => y = x
  PROVE  y \in 1..MaxPort <=> x \in 1..MaxPort
BY InPortRange, Zenon

\* Up to 19 digits 64 bits hold a port, and the test for its range means what it says.
LEMMA PortIsInRange ==
  ASSUME NEW d \in Text, IsPort(d)
  PROVE  PortFits(d) <=> Capped(d) \in 1..MaxPort
<1> DEFINE N == Len(d)
<1>1. N \in Nat /\ N <= 19 /\ \A n \in 1..N : DigitValue(d[n]) \in 0..9 /\ IsDigit(d[n])
  <2>1. N \in Nat /\ DOMAIN d = 1..N
    BY DEF Text
  <2>2. N <= 19
    <3>1. N \in 1..MaxDigits /\ MaxDigits = 19
      BY Zenon DEF IsPort, MaxDigits
    <3> HIDE DEF N
    <3> QED BY <2>1, <3>1
  <2>3. \A n \in 1..N : IsDigit(d[n])
    BY <2>1, Zenon DEF IsPort
  <2> QED BY <2>1, <2>2, <2>3, DigitIsSmall, Zenon
<1>2. PICK v \in [0..N -> Limbs] :
        /\ v[0] = <<0, 0, 0, 0>> /\ \A n \in 1..N : v[n] = Shift(v[n - 1], d[n])
        /\ PortValue(d) = v[N]
  BY PortValueIs
<1>3. PICK c \in [0..N -> Nat] :
        /\ c[0] = 0
        /\ \A n \in 1..N :
             c[n] = IF c[n - 1] > MaxPort THEN c[n - 1] ELSE c[n - 1] * 10 + DigitValue(d[n])
        /\ Capped(d) = c[N]
  BY CappedIs
<1>4. PICK p \in [0..19 -> Nat] :
        /\ p[0] = 1 /\ \A n \in 1..19 : p[n] = 10 * p[n - 1]
        /\ \A n \in 0..19 : p[n] <= Word
  BY PowersOfTen
<1> DEFINE Good(n) == /\ Value(v[n]) < p[n]
                      /\ c[n] <= MaxPort \/ Value(v[n]) <= MaxPort => c[n] = Value(v[n])
           Bad == {n \in 0..N : ~Good(n)}
<1> HIDE DEF N
<1>5. Good(0)
  <2>1. Value(<<0, 0, 0, 0>>) = 0
    BY SMT DEF Value, Number, Limb
  <2> QED BY <1>2, <1>3, <1>4, <2>1
<1>6. ASSUME NEW n \in 1..N, Good(n - 1) PROVE Good(n)
  <2>1. n \in 1..19 /\ n \in 0..N /\ n - 1 \in 0..N /\ n - 1 \in 0..19 /\ n \in 0..19
    <3>1. N \in Nat /\ N <= 19
      BY <1>1
    <3> QED BY <3>1, UpToNineteen, Zenon
  <2>2. v[n - 1] \in Limbs /\ v[n] = Shift(v[n - 1], d[n]) /\ IsDigit(d[n])
    BY <1>1, <1>2, <2>1, Zenon
  <2>3. PICK x \in Nat : x = Value(v[n - 1])
    BY <2>2, ValueIsNat, Zenon
  <2>4. PICK g \in 0..9 : g = DigitValue(d[n])
    BY <1>1, Zenon
  <2>5. PICK q \in Nat, r \in Nat : q = p[n - 1] /\ r = p[n]
    BY <1>4, <2>1, Zenon
  <2>6. x < q /\ r = 10 * q /\ r <= Word
    BY <1>4, <1>6, <2>1, <2>3, <2>5, Zenon
  <2>7. x * 10 + g < r /\ x * 10 + g < Word
    BY <2>6, TenTimes, Zenon
  <2>8. Value(v[n]) = x * 10 + g
    BY <2>2, <2>3, <2>4, <2>7, ShiftIsTimesTen, Zenon
  <2>9. PICK y \in Nat : y = c[n - 1]
    BY <1>3, <2>1, Zenon
  <2>10. c[n] = IF y > MaxPort THEN y ELSE y * 10 + g
    BY <1>3, <2>4, <2>9, Zenon
  <2>11. y <= MaxPort \/ x <= MaxPort => y = x
    BY <1>6, <2>3, <2>9, Zenon
  <2>12. c[n] <= MaxPort \/ x * 10 + g <= MaxPort => c[n] = x * 10 + g
    BY <2>10, <2>11, CapAgrees, Zenon
  <2> QED BY <2>5, <2>7, <2>8, <2>12, Zenon
<1> HIDE DEF Good
<1>7. Good(N)
  <2>1. ASSUME Bad # {} PROVE FALSE
    <3>1. Bad \subseteq Nat
      OBVIOUS
    <3>2. PICK k \in Bad : \A m \in Bad : k <= m
      <4> HIDE DEF Bad
      <4> QED BY <2>1, <3>1, SmallestMember
    <3>3. k \in 0..N /\ ~Good(k) /\ k # 0
      BY <1>5, <3>2
    <3>4. k \in 1..N /\ k - 1 \in 0..N /\ k - 1 \notin Bad
      <4>1. N \in Nat /\ k \in 0..N /\ k # 0 /\ k - 1 \in Int /\ ~(k <= k - 1)
        BY <1>1, <3>3
      <4>2. k - 1 \notin Bad
        <5> HIDE DEF Bad
        <5> QED BY <3>2, <4>1, Zenon
      <4> QED BY <4>1, <4>2
    <3>5. Good(k - 1)
      BY <3>4
    <3> QED BY <1>6, <3>3, <3>4, <3>5
  <2>2. N \in 0..N
    BY <1>1
  <2> QED BY <2>1, <2>2
<1>8. v[N] \in Limbs /\ c[N] \in Nat
  BY <1>1, <1>2, <1>3
<1>9. PortFits(d) <=> Value(v[N]) \in 1..MaxPort
  BY <1>2, <1>8, ValueIsNat, Zenon DEF PortFits
<1>10. Capped(d) \in 1..MaxPort <=> Value(v[N]) \in 1..MaxPort
  <2>1. PICK x \in Nat : x = Value(v[N])
    BY <1>8, ValueIsNat
  <2>2. PICK y \in Nat : y = c[N]
    BY <1>8
  <2>3. y <= MaxPort \/ x <= MaxPort => y = x
    BY <1>7, <2>1, <2>2, Zenon DEF Good
  <2>4. y \in 1..MaxPort <=> x \in 1..MaxPort
    BY <2>3, SameRange, Zenon
  <2> QED BY <1>3, <2>1, <2>2, <2>4, Zenon
<1> QED BY <1>9, <1>10, Zenon

-----------------------------------------------------------------------------
(* Host and port                                                           *)

Rest(port) == IF port = <<>> THEN <<>> ELSE <<":">> \o port
AreDigits(d) == \A i \in DOMAIN d : IsDigit(d[i])
IsHost(host) == Misses(host, {"@", "/", "[", "]"}) /\ host # <<>>

LEMMA NotDigits ==
  ASSUME NEW c, IsDigit(c)
  PROVE  c \notin {"@", "/", ":", "[", "]"}
BY DEF IsDigit, Digits

LEMMA One ==
  ASSUME NEW S, NEW c \in S
  PROVE  <<c>> \in Seq(S) /\ Len(<<c>>) = 1 /\ <<c>>[1] = c /\ <<c>> # <<>>
OBVIOUS

LEMMA OneBefore ==
  ASSUME NEW S, NEW c \in S, NEW t \in Seq(S)
  PROVE  /\ <<c>> \o t \in Seq(S) /\ Len(<<c>> \o t) = 1 + Len(t) /\ (<<c>> \o t)[1] = c
         /\ \A i \in 1..Len(t) : (<<c>> \o t)[1 + i] = t[i]
<1>1. PICK a \in Seq(S) : a = <<c>> /\ Len(a) = 1 /\ a[1] = c
  BY One
<1>2. /\ a \o t \in Seq(S) /\ Len(a \o t) = Len(a) + Len(t)
      /\ \A i \in 1..Len(a) : (a \o t)[i] = a[i]
      /\ \A i \in 1..Len(t) : (a \o t)[Len(a) + i] = t[i]
  BY Cat
<1>3. 1 \in 1..Len(a) /\ (a \o t)[1] = a[1]
  BY <1>1, <1>2
<1> QED BY <1>1, <1>2, <1>3, Zenon

LEMMA OneAfter ==
  ASSUME NEW S, NEW c \in S, NEW t \in Seq(S)
  PROVE  /\ t \o <<c>> \in Seq(S) /\ Len(t \o <<c>>) = Len(t) + 1 /\ (t \o <<c>>)[Len(t) + 1] = c
         /\ \A i \in 1..Len(t) : (t \o <<c>>)[i] = t[i]
<1>1. PICK a \in Seq(S) : a = <<c>> /\ Len(a) = 1 /\ a[1] = c
  BY One
<1>2. /\ t \o a \in Seq(S) /\ Len(t \o a) = Len(t) + Len(a)
      /\ \A i \in 1..Len(t) : (t \o a)[i] = t[i]
      /\ \A i \in 1..Len(a) : (t \o a)[Len(t) + i] = a[i]
  BY Cat
<1>3. 1 \in 1..Len(a) /\ (t \o a)[Len(t) + 1] = a[1]
  BY <1>1, <1>2
<1> QED BY <1>1, <1>2, <1>3, Zenon

\* The first and the last of a character in a text.
LEMMA FirstIs ==
  ASSUME NEW u \in Text, NEW c, NEW k \in 1..Len(u), u[k] = c, \A j \in 1..(k - 1) : u[j] # c
  PROVE  FirstOf(u, {c}, 1) = k
<1>1. PICK one \in Nat \ {0} : one = 1
  OBVIOUS
<1>2. PICK chars : chars = {c}
  OBVIOUS
<1>3. u[k] \in chars /\ k \in one..Len(u) /\ \A j \in one..(k - 1) : u[j] \notin chars
  BY <1>1, <1>2
<1>4. FirstOf(u, chars, one) = k
  BY <1>3, FirstOfIs, Zenon DEF Text
<1> QED BY <1>1, <1>2, <1>4, Zenon

LEMMA LastIs ==
  ASSUME NEW u \in Text, NEW c, NEW k \in 1..Len(u), u[k] = c, \A j \in (k + 1)..Len(u) : u[j] # c
  PROVE  LastOf(u, {c}) = k
<1>1. PICK chars : chars = {c}
  OBVIOUS
<1>2. u[k] \in chars /\ \A j \in (k + 1)..Len(u) : u[j] \notin chars
  BY <1>1
<1>3. LastOf(u, chars) = k
  BY <1>2, LastOfIs, Zenon DEF Text
<1> QED BY <1>1, <1>3, Zenon

LEMMA NoFirst ==
  ASSUME NEW u, NEW c, \A j \in 1..Len(u) : u[j] # c
  PROVE  FirstOf(u, {c}, 1) = 0 /\ LastOf(u, {c}) = 0
<1>1. PICK chars : chars = {c}
  OBVIOUS
<1>2. \A j \in 1..Len(u) : u[j] \notin chars
  BY <1>1
<1>3. FirstOf(u, chars, 1) = 0 /\ LastOf(u, chars) = 0
  BY <1>2, FirstOfNone, LastOfNone, Zenon
<1> QED BY <1>1, <1>3, Zenon

LEMMA RestIs ==
  ASSUME NEW port \in Text, AreDigits(port)
  PROVE  /\ Rest(port) \in Text /\ \A i \in 1..Len(Rest(port)) : Rest(port)[i] # "@"
         /\ port = <<>> <=> Rest(port) = <<>>
         /\ port # <<>> => /\ Rest(port)[1] = ":" /\ Tail(Rest(port)) = port
                          /\ Len(Rest(port)) = Len(port) + 1
         /\ PortOK(Rest(port)) <=> port = <<>> \/ PortFits(port)
<1>1. CASE port = <<>>
  BY <1>1 DEF Rest, PortOK, Text
<1>2. CASE port # <<>>
  <2> DEFINE u == <<":">> \o port
  <2>1. u = Rest(port)
    BY <1>2 DEF Rest
  <2>2. Len(port) \in Nat \ {0} /\ \A i \in 1..Len(port) : IsDigit(port[i]) /\ port[i] # "@"
    BY <1>2, NotDigits DEF AreDigits, Text
  <2>3. /\ u \in Text /\ Len(u) = 1 + Len(port) /\ u[1] = ":"
        /\ \A i \in 1..Len(port) : u[1 + i] = port[i]
    <3>1. PICK c \in Letter : c = ":"
      BY DEF Letter
    <3>2. /\ <<c>> \o port \in Text /\ Len(<<c>> \o port) = 1 + Len(port) /\ (<<c>> \o port)[1] = c
          /\ \A i \in 1..Len(port) : (<<c>> \o port)[1 + i] = port[i]
      BY OneBefore DEF Text
    <3> QED BY <3>1, <3>2, Zenon
  <2> HIDE DEF u
  <2>4. Tail(u) = port
    <3>1. u # <<>>
      BY <2>2, <2>3
    <3>2. /\ Tail(u) \in Text /\ Len(Tail(u)) = Len(port)
          /\ \A i \in 1..Len(port) : Tail(u)[i] = u[i + 1]
      BY <2>2, <2>3, <3>1, HeadTailProperties DEF Text
    <3>3. \A i \in 1..Len(port) : Tail(u)[i] = port[i]
      BY <2>2, <2>3, <3>2
    <3> QED BY <3>2, <3>3, SeqEqual DEF Text
  <2>5. \A i \in 2..Len(u) : i - 1 \in 1..Len(port) /\ u[i] = port[i - 1]
    <3> TAKE i \in 2..Len(u)
    <3>1. i - 1 \in 1..Len(port) /\ 1 + (i - 1) = i
      BY <2>2, <2>3
    <3> QED BY <2>3, <3>1
  <2>6. \A i \in 1..Len(u) : u[i] # "@"
    BY <2>2, <2>3, <2>5
  <2>7. Len(u) > 1 /\ u # <<>>
    BY <2>2, <2>3
  <2>8. PortOK(u) <=> PortFits(port)
    BY <2>2, <2>3, <2>4, <2>5, <2>7, Zenon DEF PortOK
  <2>9. Len(u) = Len(port) + 1
    BY <2>2, <2>3
  <2> QED BY <1>2, <2>1, <2>3, <2>4, <2>6, <2>7, <2>8, <2>9, Zenon
<1> QED BY <1>1, <1>2

HasColon(host) == \E i \in DOMAIN host : host[i] = ":"

LEMMA BracketsOf ==
  ASSUME NEW host \in Text, IsHost(host)
  PROVE  /\ Brackets(host) \in Text /\ \A i \in 1..Len(Brackets(host)) : Brackets(host)[i] # "@"
         /\ ~HasColon(host) => Brackets(host) = host
         /\ HasColon(host) =>
              /\ Len(Brackets(host)) = Len(host) + 2 /\ Brackets(host)[1] = "["
              /\ Brackets(host)[Len(host) + 2] = "]"
              /\ \A i \in 1..Len(host) : Brackets(host)[i + 1] = host[i]
<1>1. Len(host) \in Nat /\ \A i \in 1..Len(host) : host[i] # "@"
  BY DEF IsHost, Misses, Text
<1>2. CASE ~HasColon(host)
  <2>1. Brackets(host) = host
    BY <1>2 DEF Brackets, HasColon
  <2> QED BY <1>1, <1>2, <2>1
<1>3. CASE HasColon(host)
  <2> DEFINE a == <<"[">> \o host
             b == a \o <<"]">>
  <2>1. b = Brackets(host)
    BY <1>3 DEF Brackets, HasColon
  <2>2. /\ a \in Text /\ Len(a) = 1 + Len(host) /\ a[1] = "["
        /\ \A i \in 1..Len(host) : a[1 + i] = host[i]
    <3>1. PICK c \in Letter : c = "["
      BY DEF Letter
    <3>2. /\ <<c>> \o host \in Text /\ Len(<<c>> \o host) = 1 + Len(host) /\ (<<c>> \o host)[1] = c
          /\ \A i \in 1..Len(host) : (<<c>> \o host)[1 + i] = host[i]
      BY OneBefore DEF Text
    <3> QED BY <3>1, <3>2, Zenon
  <2> HIDE DEF a
  <2>3. /\ b \in Text /\ Len(b) = Len(a) + 1 /\ \A i \in 1..Len(a) : b[i] = a[i]
        /\ b[Len(a) + 1] = "]"
    <3>1. PICK c \in Letter : c = "]"
      BY DEF Letter
    <3>2. /\ a \o <<c>> \in Text /\ Len(a \o <<c>>) = Len(a) + 1 /\ (a \o <<c>>)[Len(a) + 1] = c
          /\ \A i \in 1..Len(a) : (a \o <<c>>)[i] = a[i]
      BY <2>2, OneAfter DEF Text
    <3> QED BY <3>1, <3>2, Zenon
  <2> HIDE DEF b
  <2>4. Len(b) = Len(host) + 2 /\ b[1] = "[" /\ b[Len(host) + 2] = "]"
    <3>1. 1 \in 1..Len(a) /\ Len(a) + 1 = Len(host) + 2
      BY <1>1, <2>2
    <3> QED BY <2>2, <2>3, <3>1
  <2>5. \A i \in 1..Len(host) : b[i + 1] = host[i]
    <3> TAKE i \in 1..Len(host)
    <3>1. i + 1 \in 1..Len(a) /\ i + 1 = 1 + i
      BY <1>1, <2>2
    <3> QED BY <2>2, <2>3, <3>1
  <2>6. \A i \in 1..Len(b) : b[i] # "@"
    <3> TAKE i \in 1..Len(b)
    <3>1. i = 1 \/ i = Len(host) + 2 \/ (i - 1 \in 1..Len(host) /\ i = (i - 1) + 1)
      BY <1>1, <2>4
    <3> QED BY <1>1, <2>4, <2>5, <3>1
  <2> QED BY <1>3, <2>1, <2>3, <2>4, <2>5, <2>6, Zenon
<1> QED BY <1>2, <1>3

\* A host, bracketed if it has colons, and a port are found again.
LEMMA HostIsFound ==
  ASSUME NEW host \in Text, IsHost(host), NEW port \in Text, AreDigits(port)
  PROVE  LET at == Brackets(host) \o Rest(port)
         IN /\ at \in Text /\ at # <<>> /\ \A i \in 1..Len(at) : at[i] # "@"
            /\ Host(at) = host /\ AfterHost(at) = Rest(port) /\ HostOK(at)
<1> DEFINE b == Brackets(host)
           rest == Rest(port)
           at == b \o rest
           n == Len(host)
<1>1. n \in Nat \ {0} /\ \A i \in 1..n : host[i] \notin {"@", "/", "[", "]"}
  BY DEF IsHost, Misses, Text
<1>2. b \in Text /\ Len(b) \in Nat /\ \A i \in 1..Len(b) : b[i] # "@"
  BY BracketsOf, Zenon, LenProperties DEF Text
<1>3. rest \in Text /\ Len(rest) \in Nat /\ \A i \in 1..Len(rest) : rest[i] # "@"
  BY RestIs, Zenon, LenProperties DEF Text
<1>4. rest = <<>> \/ (Len(rest) # 0 /\ rest[1] = ":")
  BY RestIs, <1>3
<1> HIDE DEF b, rest, n
<1>5. /\ at \in Text /\ Len(at) = Len(b) + Len(rest)
      /\ \A i \in 1..Len(b) : at[i] = b[i]
      /\ \A i \in 1..Len(rest) : at[Len(b) + i] = rest[i]
      /\ \A i \in 1..(Len(b) + Len(rest)) : i > Len(b) =>
           i - Len(b) \in 1..Len(rest) /\ at[i] = rest[i - Len(b)]
  BY <1>2, <1>3, Cat DEF Text
<1>6. SubSeq(at, 1, Len(b)) = b /\ From(at, Len(b) + 1) = rest
  BY <1>2, <1>3, CatParts DEF Text
<1> HIDE DEF at
<1>7. \A i \in 1..Len(at) : at[i] # "@"
  <2> TAKE i \in 1..Len(at)
  <2>1. i \in 1..Len(b) \/ (i \in 1..(Len(b) + Len(rest)) /\ i > Len(b))
    BY <1>2, <1>3, <1>5
  <2> QED BY <1>2, <1>3, <1>5, <2>1
<1>8. /\ Len(at) # 0 /\ at # <<>> /\ Host(at) = host /\ AfterHost(at) = rest
      /\ InBrackets(at) => Closing(at) # 0
  <2>1. CASE ~HasColon(host)
    <3>1. b = host /\ Len(b) = n /\ \A i \in 1..n : host[i] # ":"
      BY <2>1, BracketsOf DEF b, n, HasColon, Text
    <3>2. at[1] = host[1] /\ 1 \in 1..n /\ Len(at) # 0
      BY <1>1, <1>3, <1>5, <3>1
    <3>3. ~InBrackets(at)
      BY <1>1, <3>2 DEF InBrackets
    <3>4. PICK k \in Nat : k = n + 1 /\ k # 0 /\ k - 1 = n
      BY <1>1
    <3>5. HostEnd(at) = k
      <4>1. CASE rest = <<>>
        <5>1. Len(at) + 1 = k /\ \A j \in 1..Len(at) : at[j] # ":"
          BY <1>1, <1>5, <3>1, <3>4, <4>1
        <5>2. FirstOf(at, {":"}, 1) = 0
          BY <5>1, NoFirst, Zenon
        <5> QED BY <5>1, <5>2, Zenon DEF HostEnd, OrNone
      <4>2. CASE rest # <<>>
        <5>1. k \in 1..Len(at) /\ at[k] = ":" /\ \A j \in 1..(k - 1) : at[j] # ":"
          BY <1>1, <1>3, <1>4, <1>5, <3>1, <3>4, <4>2
        <5>2. FirstOf(at, {":"}, 1) = k
          BY <1>5, <5>1, FirstIs, Zenon
        <5> QED BY <3>4, <5>2, Zenon DEF HostEnd, OrNone
      <4> QED BY <4>1, <4>2
    <3>6. Host(at) = host /\ AfterHost(at) = rest
      <4>1. Host(at) = SubSeq(at, 1, k - 1) /\ AfterHost(at) = From(at, k)
        BY <3>3, <3>5, Zenon DEF Host, AfterHost
      <4>2. SubSeq(at, 1, k - 1) = b /\ From(at, k) = rest
        BY <1>6, <3>1, <3>4
      <4> QED BY <3>1, <4>1, <4>2, Zenon
    <3> QED BY <3>2, <3>3, <3>6
  <2>2. CASE HasColon(host)
    <3>1. /\ Len(b) = n + 2 /\ b[1] = "[" /\ b[n + 2] = "]"
          /\ \A i \in 1..n : b[i + 1] = host[i]
      BY <2>2, BracketsOf, Zenon DEF b, n
    <3>2. /\ at[1] = "[" /\ at[n + 2] = "]" /\ Len(at) # 0 /\ n + 2 \in 1..Len(at)
          /\ \A i \in 1..n : at[i + 1] = host[i]
      BY <1>1, <1>3, <1>5, <3>1
    <3>3. InBrackets(at)
      BY <3>2 DEF InBrackets
    <3>4. PICK k \in 1..Len(at) : k = n + 2
      BY <3>2
    <3>5. Closing(at) = k
      <4>1. \A j \in 1..(k - 1) : at[j] # "]"
        <5> TAKE j \in 1..(k - 1)
        <5>1. j = 1 \/ (j - 1 \in 1..n /\ j = (j - 1) + 1)
          BY <1>1, <3>4
        <5> QED BY <1>1, <3>2, <5>1
      <4>2. at[k] = "]"
        BY <3>2, <3>4
      <4> QED BY <1>5, <4>1, <4>2, FirstIs, Zenon DEF Closing
    <3>6. SubSeq(at, 2, k - 1) = host
      <4> DEFINE h == SubSeq(at, 2, k - 1)
      <4>1. h \in Text /\ Len(h) = n /\ \A i \in 1..n : h[i] = at[2 + i - 1]
        BY <1>1, <1>3, <1>5, <3>1, <3>4, Part DEF Text
      <4>2. \A i \in 1..n : 2 + i - 1 = i + 1
        BY <1>1
      <4> HIDE DEF h
      <4>3. \A i \in 1..n : h[i] = host[i]
        BY <3>2, <4>1, <4>2
      <4>4. h = host
        BY <4>1, <4>3, SeqEqual DEF Text, n
      <4> QED BY <4>4 DEF h
    <3>7. From(at, k + 1) = rest /\ k # 0
      <4>1. k + 1 = Len(b) + 1 /\ k # 0
        BY <1>1, <3>1, <3>4
      <4> QED BY <1>6, <4>1
    <3>8. Host(at) = host /\ AfterHost(at) = rest
      <4>1. Host(at) = SubSeq(at, 2, k - 1) /\ AfterHost(at) = From(at, k + 1)
        BY <3>3, <3>5, Zenon DEF Host, AfterHost
      <4> QED BY <3>6, <3>7, <4>1, Zenon
    <3> QED BY <3>2, <3>5, <3>7, <3>8
  <2> QED BY <2>1, <2>2
<1>9. HostOK(at)
  BY <1>1, <1>8 DEF HostOK, IsHost, Contains, n
<1> QED BY <1>5, <1>7, <1>8, <1>9, Zenon DEF at, b, rest, n

-----------------------------------------------------------------------------
(* The scheme                                                              *)

\* A "://" has a slash.
LEMMA NoScheme ==
  ASSUME NEW u \in Text, \A i \in 1..Len(u) : u[i] # "/"
  PROVE  SchemeEnd(u) = 0
<1> DEFINE at == {i \in 1..(Len(u) - 2) : SubSeq(u, i, i + 2) = Separator}
<1>1. ASSUME NEW i \in 1..(Len(u) - 2), SubSeq(u, i, i + 2) = Separator PROVE FALSE
  <2>1. Len(u) \in Nat /\ i \in Nat \ {0} /\ i + 2 \in Nat /\ i + 2 <= Len(u) /\ i + 1 \in 1..Len(u)
    BY DEF Text
  <2>2. \A k \in 1..(i + 2 - i + 1) : SubSeq(u, i, i + 2)[k] = u[i + k - 1]
    BY <2>1, Part DEF Text
  <2>3. SubSeq(u, i, i + 2)[2] = u[i + 1]
    BY <2>1, <2>2
  <2>4. Separator[2] = "/"
    BY DEF Separator
  <2> QED BY <1>1, <2>1, <2>3, <2>4
<1>2. at = {}
  BY <1>1
<1> QED BY <1>2 DEF SchemeEnd

LEMMA SchemeIsText == Scheme \o Separator \in Text
<1>1. Scheme \in Text
  BY DEF Scheme, Text, Letter
<1>2. Separator \in Text
  BY DEF Separator, Text, Letter
<1>3. PICK a \in Text, b \in Text : a = Scheme /\ b = Separator
  BY <1>1, <1>2, Zenon
<1>4. a \o b \in Text
  BY Cat DEF Text
<1> QED BY <1>3, <1>4, Zenon

LEMMA SchemeIs ==
  ASSUME NEW t \in Text
  PROVE  LET s == (Scheme \o Separator) \o t
         IN SchemeEnd(s) = 5 /\ IsPrefix(Scheme, s) /\ From(s, 8) = t /\ s \in Text
<1> DEFINE pre == Scheme \o Separator
           s == pre \o t
           at == {i \in 1..(Len(s) - 2) : SubSeq(s, i, i + 2) = Separator}
<1>1. /\ Scheme \in Text /\ Len(Scheme) = 4 /\ Scheme[1] = "h" /\ Scheme[2] = "t"
      /\ Scheme[3] = "t" /\ Scheme[4] = "p"
  BY DEF Scheme, Text, Letter
<1>2. /\ Separator \in Text /\ Len(Separator) = 3 /\ Separator[1] = ":" /\ Separator[2] = "/"
      /\ Separator[3] = "/"
  BY DEF Separator, Text, Letter
<1>3. /\ pre \in Text /\ Len(pre) = 7
      /\ \A i \in 1..4 : pre[i] = Scheme[i]
      /\ \A i \in 1..3 : pre[4 + i] = Separator[i]
  <2>1. /\ pre \in Text /\ Len(pre) = Len(Scheme) + Len(Separator)
        /\ \A i \in 1..Len(Scheme) : pre[i] = Scheme[i]
        /\ \A i \in 1..Len(Separator) : pre[Len(Scheme) + i] = Separator[i]
    <3>1. PICK a \in Text, b \in Text : a = Scheme /\ b = Separator
      BY <1>1, <1>2, Zenon
    <3>2. /\ a \o b \in Text /\ Len(a \o b) = Len(a) + Len(b)
          /\ \A i \in 1..Len(a) : (a \o b)[i] = a[i]
          /\ \A i \in 1..Len(b) : (a \o b)[Len(a) + i] = b[i]
      BY Cat DEF Text
    <3> QED BY <3>1, <3>2, Zenon
  <2> HIDE DEF pre
  <2> QED BY <1>1, <1>2, <2>1
<1> HIDE DEF pre
<1>4. /\ s \in Text /\ Len(s) \in Nat /\ Len(s) >= 7 /\ \A i \in 1..7 : s[i] = pre[i]
  <2>1. /\ s \in Text /\ Len(s) = Len(pre) + Len(t) /\ Len(t) \in Nat
        /\ \A i \in 1..Len(pre) : s[i] = pre[i]
    <3>1. pre \in Seq(Letter) /\ t \in Seq(Letter)
      BY <1>3, Zenon DEF Text
    <3> QED BY <3>1, Cat DEF Text
  <2> HIDE DEF s
  <2> QED BY <1>3, <2>1
<1>5. From(s, 8) = t
  <2>1. From(s, Len(pre) + 1) = t
    BY <1>3, CatParts DEF Text
  <2>2. Len(pre) + 1 = 8
    BY <1>3
  <2> QED BY <2>1, <2>2
<1> HIDE DEF s
<1>6. /\ \A i \in 1..4 : s[i] = Scheme[i]
      /\ s[5] = Separator[1] /\ s[6] = Separator[2] /\ s[7] = Separator[3]
  BY <1>3, <1>4
<1>7. SubSeq(s, 5, 7) = Separator
  <2>1. /\ SubSeq(s, 5, 7) \in Text /\ Len(SubSeq(s, 5, 7)) = 3
        /\ \A i \in 1..3 : SubSeq(s, 5, 7)[i] = s[5 + i - 1]
    BY <1>4, Part DEF Text
  <2>2. \A i \in 1..3 : SubSeq(s, 5, 7)[i] = Separator[i]
    BY <1>6, <2>1
  <2> QED BY <1>2, <2>1, <2>2, SeqEqual DEF Text
<1>8. ASSUME NEW i \in 1..4 PROVE SubSeq(s, i, i + 2) # Separator
  <2>1. \A k \in 1..(i + 2 - i + 1) : SubSeq(s, i, i + 2)[k] = s[i + k - 1]
    BY <1>4, Part DEF Text
  <2>2. SubSeq(s, i, i + 2)[1] = s[i]
    BY <2>1
  <2> QED BY <1>1, <1>2, <1>6, <2>2
<1>9. 5 \in at /\ \A j \in at : 5 <= j
  <2>1. 5 \in at
    BY <1>4, <1>7
  <2>2. ASSUME NEW j \in at PROVE 5 <= j
    <3>1. j \in Nat \ {0} /\ j \notin 1..4
      BY <1>8
    <3> QED BY <3>1
  <2> QED BY <2>1, <2>2
<1>10. SchemeEnd(s) = 5
  <2>1. ASSUME NEW i \in at, \A j \in at : i <= j PROVE i = 5
    <3>1. i \in Int
      BY <1>4
    <3>2. 5 <= i
      BY <1>9, Zenon
    <3>3. i <= 5
      BY <1>9, <2>1, Zenon
    <3> QED BY <3>1, <3>2, <3>3
  <2> HIDE DEF at
  <2>2. (CHOOSE i \in at : \A j \in at : i <= j) = 5
    BY <1>9, <2>1
  <2> QED BY <1>9, <2>2 DEF SchemeEnd, at
<1>11. IsPrefix(Scheme, s)
  <2>1. /\ SubSeq(s, 1, 4) \in Text /\ Len(SubSeq(s, 1, 4)) = 4
        /\ \A i \in 1..4 : SubSeq(s, 1, 4)[i] = s[1 + i - 1]
    BY <1>4, Part DEF Text
  <2>2. /\ SubSeq(Scheme, 1, 4) \in Text /\ Len(SubSeq(Scheme, 1, 4)) = 4
        /\ \A i \in 1..4 : SubSeq(Scheme, 1, 4)[i] = Scheme[1 + i - 1]
    <3>1. Scheme \in Seq(Letter) /\ 4 <= Len(Scheme)
      BY <1>1 DEF Text
    <3> QED BY <3>1, Part DEF Text
  <2>3. \A i \in 1..4 : SubSeq(Scheme, 1, 4)[i] = SubSeq(s, 1, 4)[i]
    BY <1>6, <2>1, <2>2
  <2>4. SubSeq(Scheme, 1, 4) = SubSeq(s, 1, 4)
    BY <2>1, <2>2, <2>3, SeqEqual DEF Text
  <2> QED BY <1>1, <1>4, <2>4 DEF IsPrefix
<1> QED BY <1>4, <1>5, <1>10, <1>11 DEF s, pre

\* What follows the scheme, if there is one.
LEMMA SchemeIsSkipped ==
  ASSUME NEW t \in Text, NEW scheme \in BOOLEAN, NEW s,
         s = (IF scheme THEN Scheme \o Separator ELSE <<>>) \o t,
         scheme \/ SchemeEnd(s) = 0
  PROVE  SchemeOK(s) /\ From(s, Authority(s)) = t /\ s \in Text
<1>1. CASE scheme
  <2>1. SchemeEnd(s) = 5 /\ IsPrefix(Scheme, s) /\ From(s, 8) = t /\ s \in Text
    BY <1>1, SchemeIs
  <2>2. Len(Scheme) + 1 = 5
    BY DEF Scheme
  <2>3. Authority(s) = 8
    BY <2>1 DEF Authority
  <2> QED BY <2>1, <2>2, <2>3 DEF SchemeOK
<1>2. CASE ~scheme
  <2>1. s = t
    BY <1>2, ConcatEmptySeq DEF Text
  <2>2. SchemeEnd(s) = 0
    BY <1>2
  <2>3. Authority(s) = 1
    BY <2>2 DEF Authority
  <2>4. From(s, 1) = t
    <3>1. /\ SubSeq(t, 1, Len(t)) \in Text /\ Len(SubSeq(t, 1, Len(t))) = Len(t)
          /\ \A i \in 1..Len(t) : SubSeq(t, 1, Len(t))[i] = t[1 + i - 1]
      BY Part DEF Text
    <3>2. \A i \in 1..Len(t) : SubSeq(t, 1, Len(t))[i] = t[i]
      BY <3>1
    <3>3. SubSeq(t, 1, Len(t)) = t
      BY <3>1, <3>2, SeqEqual DEF Text
    <3> QED BY <2>1, <3>3 DEF From
  <2> QED BY <2>1, <2>2, <2>3, <2>4 DEF SchemeOK
<1> QED BY <1>1, <1>2

-----------------------------------------------------------------------------
(* The userinfo                                                            *)

LEMMA WholeText ==
  ASSUME NEW t \in Text
  PROVE  From(t, 1) = t /\ SubSeq(t, 1, Len(t)) = t /\ SubSeq(t, 1, 0) = <<>>
<1>1. /\ SubSeq(t, 1, Len(t)) \in Text /\ Len(SubSeq(t, 1, Len(t))) = Len(t)
      /\ \A i \in 1..Len(t) : SubSeq(t, 1, Len(t))[i] = t[1 + i - 1]
  BY Part DEF Text
<1>2. \A i \in 1..Len(t) : SubSeq(t, 1, Len(t))[i] = t[i]
  BY <1>1
<1>3. SubSeq(t, 1, Len(t)) = t
  BY <1>1, <1>2, SeqEqual DEF Text
<1>4. SubSeq(t, 1, 0) = <<>>
  BY SubSeqEmpty
<1> QED BY <1>3, <1>4 DEF From

CatAgrees(a, b, c) == (a \o b) \o c = a \o (b \o c)

LEMMA CatIsAssociative ==
  ASSUME NEW a \in Text, NEW b \in Text, NEW c \in Text
  PROVE  CatAgrees(a, b, c)
BY ConcatAssociative DEF Text, CatAgrees

Password(pass) == IF pass = <<>> THEN <<>> ELSE <<":">> \o pass

LEMMA UserinfoIs ==
  ASSUME NEW user \in Text, Misses(user, {":"}), NEW pass \in Text
  PROVE  /\ user \o Password(pass) \in Text
         /\ Userinfo(user \o Password(pass)) = [user |-> user, pass |-> pass]
<1>1. Len(user) \in Nat /\ \A i \in 1..Len(user) : user[i] # ":"
  BY DEF Misses, Text
<1>2. CASE pass = <<>>
  <2>1. user \o Password(pass) = user
    BY <1>2, ConcatEmptySeq DEF Password, Text
  <2>2. FirstOf(user, {":"}, 1) = 0
    BY <1>1, NoFirst, Zenon
  <2> QED BY <1>2, <2>1, <2>2 DEF Userinfo
<1>3. CASE pass # <<>>
  <2> DEFINE v == Password(pass)
             u == user \o v
  <2>1. PICK c \in Letter : c = ":"
    BY DEF Letter
  <2>2. /\ <<c>> \o pass \in Text /\ Len(<<c>> \o pass) = 1 + Len(pass) /\ (<<c>> \o pass)[1] = c
    BY OneBefore DEF Text
  <2>3. v = <<c>> \o pass
    BY <1>3, <2>1 DEF Password
  <2>4. v \in Text /\ Len(v) \in Nat /\ Len(v) >= 1 /\ v[1] = ":"
    <3>1. Len(pass) \in Nat
      BY DEF Text
    <3> HIDE DEF v
    <3> QED BY <2>1, <2>2, <2>3, <3>1
  <2> HIDE DEF v
  <2>5. /\ u \in Text /\ Len(u) = Len(user) + Len(v)
        /\ \A i \in 1..Len(user) : u[i] = user[i]
        /\ \A i \in 1..Len(v) : u[Len(user) + i] = v[i]
    BY <2>4, Cat DEF Text
  <2>6. SubSeq(u, 1, Len(user)) = user
    BY <2>4, CatParts DEF Text
  <2>7. From(u, Len(user) + 2) = pass
    <3>1. PICK a \in Text : a = user \o <<c>> /\ Len(a) = Len(user) + 1
      BY OneAfter DEF Text
    <3>2. a \o pass = u
      <4>1. PICK o \in Text : o = <<c>>
        BY One DEF Text
      <4>2. (user \o o) \o pass = user \o (o \o pass)
        <5>1. CatAgrees(user, o, pass)
          BY CatIsAssociative, Zenon
        <5> QED BY <5>1 DEF CatAgrees
      <4> QED BY <2>3, <3>1, <4>1, <4>2, Zenon DEF u
    <3>3. From(a \o pass, Len(a) + 1) = pass
      BY CatParts DEF Text
    <3>4. Len(a) + 1 = Len(user) + 2
      BY <1>1, <3>1
    <3> QED BY <3>2, <3>3, <3>4, Zenon
  <2> HIDE DEF u
  <2>8. PICK k \in 1..Len(u) : k = Len(user) + 1
    BY <1>1, <2>4, <2>5
  <2>9. u[k] = ":" /\ \A j \in 1..(k - 1) : u[j] # ":"
    BY <1>1, <2>4, <2>5, <2>8
  <2>10. FirstOf(u, {":"}, 1) = k /\ k # 0
    <3>1. k # 0
      BY <1>1, <2>8
    <3> QED BY <2>5, <2>9, <3>1, FirstIs, Zenon
  <2>11. k - 1 = Len(user) /\ k + 1 = Len(user) + 2
    BY <1>1, <2>8
  <2>12. Userinfo(u) = [user |-> user, pass |-> pass]
    <3>1. Userinfo(u) = [user |-> SubSeq(u, 1, k - 1), pass |-> From(u, k + 1)]
      BY <2>10 DEF Userinfo
    <3> QED BY <2>6, <2>7, <2>11, <3>1
  <2> QED BY <2>5, <2>12 DEF u, v
<1> QED BY <1>2, <1>3

\* The last '@' ends the userinfo, whatever is in the password.
UserPart(user, pass) ==
  IF user = <<>> /\ pass = <<>> THEN <<>> ELSE (user \o Password(pass)) \o <<"@">>

\* The userinfo at the beginning of t is user and pass, and rest follows it.
Splits(t, user, pass, rest) ==
  /\ Userinfo(SubSeq(t, 1, OrNone(UserinfoEnd(t), 1) - 1)) = [user |-> user, pass |-> pass]
  /\ From(t, UserinfoEnd(t) + 1) = rest

LEMMA UserinfoIsFound ==
  ASSUME NEW user \in Text, Misses(user, {":"}), NEW pass \in Text,
         NEW rest \in Text, \A i \in 1..Len(rest) : rest[i] # "@"
  PROVE  /\ UserPart(user, pass) \o rest \in Text
         /\ Splits(UserPart(user, pass) \o rest, user, pass, rest)
<1> DEFINE t == UserPart(user, pass) \o rest
           end == UserinfoEnd(t)
<1>1. CASE user = <<>> /\ pass = <<>>
  <2>1. t = rest
    BY <1>1, ConcatEmptySeq DEF UserPart, Text
  <2>2. end = 0
    BY <2>1, NoFirst, Zenon DEF UserinfoEnd
  <2>3. Userinfo(<<>>) = [user |-> user, pass |-> pass]
    <3>1. <<>> \o Password(<<>>) = <<>>
      BY ConcatEmptySeq DEF Password
    <3> QED BY <1>1, <3>1, UserinfoIs, Zenon
  <2>4. OrNone(end, 1) - 1 = 0 /\ end + 1 = 1
    BY <2>2 DEF OrNone
  <2>5. SubSeq(rest, 1, 0) = <<>> /\ From(rest, 1) = rest
    BY WholeText
  <2> HIDE DEF t, end
  <2> QED BY <2>1, <2>3, <2>4, <2>5, Zenon DEF t, end, Splits
<1>2. CASE ~(user = <<>> /\ pass = <<>>)
  <2> DEFINE info == user \o Password(pass)
             ui == UserPart(user, pass)
  <2>1. info \in Text /\ Userinfo(info) = [user |-> user, pass |-> pass]
    BY UserinfoIs, Zenon
  <2> HIDE DEF info
  <2>2. PICK c \in Letter : c = "@"
    BY DEF Letter
  <2>3. ui = info \o <<c>>
    BY <1>2, <2>2, Zenon DEF UserPart, info
  <2>4. ui \in Text /\ Len(ui) = Len(info) + 1 /\ ui[Len(info) + 1] = c
    <3>1. /\ info \o <<c>> \in Text /\ Len(info \o <<c>>) = Len(info) + 1
          /\ (info \o <<c>>)[Len(info) + 1] = c
      BY <2>1, OneAfter DEF Text
    <3> QED BY <2>3, <3>1, Zenon
  <2> HIDE DEF ui
  <2>5. t = ui \o rest
    BY Zenon DEF ui
  <2> HIDE DEF t
  <2>6. /\ t \in Text /\ Len(t) = Len(ui) + Len(rest) /\ Len(ui) \in Nat /\ Len(rest) \in Nat
        /\ \A i \in 1..Len(ui) : t[i] = ui[i]
        /\ \A i \in 1..(Len(ui) + Len(rest)) : i > Len(ui) =>
             i - Len(ui) \in 1..Len(rest) /\ t[i] = rest[i - Len(ui)]
    <3>1. /\ ui \o rest \in Text /\ Len(ui \o rest) = Len(ui) + Len(rest)
          /\ Len(ui) \in Nat /\ Len(rest) \in Nat
          /\ \A i \in 1..Len(ui) : (ui \o rest)[i] = ui[i]
          /\ \A i \in 1..(Len(ui) + Len(rest)) : i > Len(ui) =>
               i - Len(ui) \in 1..Len(rest) /\ (ui \o rest)[i] = rest[i - Len(ui)]
      <4>1. ui \in Seq(Letter) /\ rest \in Seq(Letter)
        BY <2>4, Zenon DEF Text
      <4> HIDE DEF end
      <4> QED BY <4>1, Cat DEF Text
    <3> QED BY <2>5, <3>1, Zenon
  <2>7. Len(info) \in Nat
    BY <2>1 DEF Text
  <2>8. PICK k \in 1..Len(t) : k = Len(ui) /\ k # 0 /\ k - 1 = Len(info)
    BY <2>4, <2>6, <2>7
  <2>9. t[k] = "@"
    BY <2>2, <2>4, <2>6, <2>7, <2>8
  <2>10. \A j \in (k + 1)..Len(t) : t[j] # "@"
    <3> TAKE j \in (k + 1)..Len(t)
    <3>1. j \in 1..(Len(ui) + Len(rest)) /\ j > Len(ui)
      BY <2>6, <2>8
    <3> QED BY <2>6, <3>1
  <2>11. end = k
    BY <2>6, <2>8, <2>9, <2>10, LastIs, Zenon DEF UserinfoEnd
  <2>12. From(t, k + 1) = rest
    <3>1. From(ui \o rest, Len(ui) + 1) = rest
      BY <2>4, CatParts DEF Text
    <3> QED BY <2>5, <2>8, <3>1
  <2>13. SubSeq(t, 1, k - 1) = info
    <3>1. PICK at \in Text : at = <<c>> \o rest
      BY OneBefore DEF Text
    <3>2. PICK o \in Text : o = <<c>>
      BY One DEF Text
    <3>3. (info \o o) \o rest = info \o (o \o rest)
      <4>1. CatAgrees(info, o, rest)
        BY <2>1, CatIsAssociative, Zenon
      <4> QED BY <4>1 DEF CatAgrees
    <3>4. t = info \o at
      BY <2>3, <2>5, <3>1, <3>2, <3>3, Zenon
    <3>5. SubSeq(info \o at, 1, Len(info)) = info
      BY <2>1, CatParts DEF Text
    <3> QED BY <2>8, <3>4, <3>5
  <2>14. OrNone(end, 1) = k
    BY <2>8, <2>11, Zenon DEF OrNone
  <2> HIDE DEF end
  <2> QED BY <2>1, <2>6, <2>11, <2>12, <2>13, <2>14, Zenon DEF t, end, Splits
<1> QED BY <1>1, <1>2

-----------------------------------------------------------------------------
(* Proxies                                                                 *)

LEMMA StringsAreTexts == Seq(STRING) \subseteq Text
<1>1. STRING \subseteq Letter
  BY DEF Letter
<1>2. ASSUME NEW t \in Seq(STRING) PROVE t \in Seq(Letter)
  <2>1. PICK n \in Nat : t \in [1..n -> STRING]
    BY SeqDef
  <2>2. t \in [1..n -> Letter]
    BY <1>1, <2>1
  <2> QED BY <2>2, SeqDef
<1> QED BY <1>2 DEF Text

FromLeft(a, b, c, d) == ((a \o b) \o c) \o d
FromRight(a, b, c, d) == a \o (b \o (c \o d))

LEMMA CatFour ==
  ASSUME NEW a \in Text, NEW b \in Text, NEW c \in Text, NEW d \in Text
  PROVE  FromLeft(a, b, c, d) = FromRight(a, b, c, d)
<1>1. PICK e \in Text, f \in Text : e = b \o c /\ f = c \o d
  BY Cat DEF Text
<1>2. CatAgrees(a, b, c) /\ CatAgrees(a, e, d) /\ CatAgrees(b, c, d)
  BY CatIsAssociative, Zenon
<1> QED BY <1>1, <1>2 DEF CatAgrees, FromLeft, FromRight

LEMMA CatIsNotEmpty ==
  ASSUME NEW a \in Text, NEW b \in Text, b # <<>>
  PROVE  a \o b # <<>>
BY ConcatEqualIffEmpty DEF Text

IsPortOrNone(port) == AreDigits(port) /\ (port # <<>> => IsPort(port))

IsReadable(p) ==
  /\ p.scheme \in BOOLEAN
  /\ p.user \in Text /\ p.pass \in Text /\ p.host \in Text /\ p.port \in Text
  /\ Misses(p.user, {":"}) /\ IsHost(p.host) /\ IsPortOrNone(p.port)
  /\ p.scheme \/ SchemeEnd(Written(p)) = 0

\* What is made of a proxy written from its parts.
LEMMA WrittenIsParsed ==
  ASSUME NEW p, IsReadable(p)
  PROVE  ParseProxy(Written(p)) =
           IF p.port = <<>> \/ Capped(p.port) \in 1..MaxPort
           THEN [ok |-> TRUE, user |-> p.user, pass |-> p.pass, host |-> p.host,
                 port |-> IF p.port = <<>> THEN DefaultPort ELSE p.port]
           ELSE Refused
<1>1. PICK user \in Text, pass \in Text, host \in Text, port \in Text :
        user = p.user /\ pass = p.pass /\ host = p.host /\ port = p.port
  BY Zenon DEF IsReadable
<1>2. Misses(user, {":"}) /\ IsHost(host) /\ IsPortOrNone(port)
  BY <1>1, Zenon DEF IsReadable
<1>3. PICK at \in Text :
        /\ at = Brackets(host) \o Rest(port)
        /\ at # <<>> /\ \A i \in 1..Len(at) : at[i] # "@"
        /\ Host(at) = host /\ AfterHost(at) = Rest(port) /\ HostOK(at)
  BY <1>2, HostIsFound, Zenon DEF IsPortOrNone
<1>4. PICK t \in Text : t = UserPart(user, pass) \o at /\ Splits(t, user, pass, at)
  BY <1>2, <1>3, UserinfoIsFound, Zenon
<1> DEFINE head == IF p.scheme THEN Scheme \o Separator ELSE <<>>
<1>5. /\ head \in Text /\ UserPart(user, pass) \in Text
      /\ Brackets(host) \in Text /\ Rest(port) \in Text
  <2>1. head \in Text
    <3>1. Scheme \o Separator \in Text
      BY SchemeIsText
    <3>2. <<>> \in Text
      BY DEF Text
    <3> QED BY <3>1, <3>2, Zenon
  <2>2. UserPart(user, pass) \in Text
    <3>1. user \o Password(pass) \in Text
      BY <1>2, UserinfoIs, Zenon
    <3>2. PICK c \in Letter : c = "@"
      BY DEF Letter
    <3>3. (user \o Password(pass)) \o <<c>> \in Text
      BY <3>1, OneAfter, Zenon DEF Text
    <3>4. <<>> \in Text
      BY DEF Text
    <3> QED BY <3>2, <3>3, <3>4, Zenon DEF UserPart
  <2>3. Brackets(host) \in Text
    BY <1>2, BracketsOf, Zenon
  <2>4. Rest(port) \in Text
    BY <1>2, RestIs, Zenon DEF IsPortOrNone
  <2> QED BY <2>1, <2>2, <2>3, <2>4, Zenon
<1>6. Written(p) = FromLeft(head, UserPart(user, pass), Brackets(host), Rest(port))
  BY <1>1, Zenon DEF Written, UserPart, Password, Rest, FromLeft
<1>7. Written(p) = head \o t
  <2> HIDE DEF head
  <2>1. Written(p) = FromRight(head, UserPart(user, pass), Brackets(host), Rest(port))
    <3>1. FromLeft(head, UserPart(user, pass), Brackets(host), Rest(port))
            = FromRight(head, UserPart(user, pass), Brackets(host), Rest(port))
      BY <1>5, CatFour
    <3> QED BY <1>6, <3>1, Zenon
  <2> QED BY <1>3, <1>4, <2>1, Zenon DEF FromRight
<1>8. PICK s : s = Written(p) /\ SchemeOK(s) /\ From(s, Authority(s)) = t /\ s \in Text
  BY <1>7, SchemeIsSkipped, Zenon DEF IsReadable
<1>9. s # <<>>
  <2> HIDE DEF head
  <2>1. t # <<>>
    BY <1>3, <1>4, <1>5, CatIsNotEmpty, Zenon
  <2> QED BY <1>5, <1>7, <1>8, <2>1, CatIsNotEmpty, Zenon
<1>10. ParseProxy(s) =
        IF PortOK(Rest(port))
        THEN [ok |-> TRUE, user |-> user, pass |-> pass, host |-> host,
              port |-> IF Rest(port) = <<>> THEN DefaultPort ELSE Tail(Rest(port))]
        ELSE Refused
  <2> HIDE DEF head
  <2> DEFINE info == Userinfo(SubSeq(t, 1, OrNone(UserinfoEnd(t), 1) - 1))
  <2>1. info = [user |-> user, pass |-> pass] /\ From(t, UserinfoEnd(t) + 1) = at
    BY <1>4, Zenon DEF Splits
  <2>2. info.user = user /\ info.pass = pass
    <3> HIDE DEF info
    <3> QED BY <2>1
  <2> HIDE DEF info
  <2>3. ParseProxy(s) =
          IF s # <<>> /\ SchemeOK(s) /\ HostOK(at) /\ PortOK(AfterHost(at))
          THEN [ok |-> TRUE, user |-> info.user, pass |-> info.pass, host |-> Host(at),
                port |-> IF AfterHost(at) = <<>> THEN DefaultPort ELSE Tail(AfterHost(at))]
          ELSE Refused
    BY <1>8, <2>1 DEF ParseProxy, info
  <2>4. s # <<>> /\ SchemeOK(s) /\ HostOK(at)
    BY <1>3, <1>8, <1>9, Zenon
  <2>5. AfterHost(at) = Rest(port) /\ Host(at) = host
    BY <1>3, Zenon
  <2> QED BY <2>2, <2>3, <2>4, <2>5
<1>11. PortOK(Rest(port)) <=> port = <<>> \/ Capped(port) \in 1..MaxPort
  BY <1>2, RestIs, PortIsInRange, Zenon DEF IsPortOrNone
<1>12. (Rest(port) = <<>> <=> port = <<>>) /\ (port # <<>> => Tail(Rest(port)) = port)
  BY <1>2, RestIs, Zenon DEF IsPortOrNone
<1> QED BY <1>1, <1>8, <1>10, <1>11, <1>12, Zenon

LEMMA ProxyAnswer == Answers => ProxyReadsBack
<1> SUFFICES ASSUME Answers, Done("proxy"),
                    NEW p \in Proxies, Written(p) = call.arg,
                    p.scheme \/ SchemeEnd(call.arg) = 0
             PROVE  got[1] = [ok |-> TRUE, user |-> p.user, pass |-> p.pass, host |-> p.host,
                              port |-> IF p.port = <<>> THEN DefaultPort ELSE p.port]
  BY DEF ProxyReadsBack
<1>1. got[1] = ParseProxy(Written(p))
  BY DEF Answers, Done
<1>2. Meant(p)
  BY ArgumentsAssumption, Zenon
<1>3. p.port = <<>> \/ (IsPort(p.port) /\ Capped(p.port) \in 1..MaxPort)
  BY <1>2, Zenon DEF Meant, IsPort
<1>4. IsReadable(p)
  <2>1. p.user \in Text /\ p.pass \in Text /\ p.host \in Text /\ p.port \in Text
    <3>1. {p.user, p.pass, p.host, p.port} \subseteq Seq(STRING)
      BY <1>2, Zenon DEF Meant
    <3> QED BY <3>1, StringsAreTexts
  <2>2. IsHost(p.host) /\ p.scheme \in BOOLEAN /\ Misses(p.user, {":"})
    BY <1>2, Zenon DEF Meant, IsHost
  <2>3. IsPortOrNone(p.port)
    <3>1. CASE p.port = <<>>
      BY <3>1 DEF IsPortOrNone, AreDigits
    <3>2. CASE p.port # <<>>
      BY <1>3, <3>2, Zenon DEF IsPortOrNone, AreDigits, IsPort
    <3> QED BY <3>1, <3>2
  <2> QED BY <2>1, <2>2, <2>3, Zenon DEF IsReadable
<1> QED BY <1>1, <1>3, <1>4, WrittenIsParsed, Zenon

\* A proxy is read as it was meant: the userinfo ends at the last '@', the password
\* begins after the first colon, a bracketed host keeps its colons, and the port is
\* the one that was written, or 8080 (parse_proxy).
THEOREM ProxiesReadBack == ArgumentsSpec => []ProxyReadsBack
BY ProxyAnswer, AnswersHold, PTL

\* The colon after a host of one character.
LEMMA AfterTwo ==
  ASSUME NEW s \in Text, Len(s) >= 2, s[1] = "h", s[2] = ":",
         NEW port \in Text, Len(port) = Len(s) - 2, \A i \in 1..Len(port) : port[i] = s[i + 2]
  PROVE  <<"h">> \o (<<":">> \o port) = s
<1>1. PICK h \in Letter, c \in Letter : h = "h" /\ c = ":"
  BY DEF Letter
<1>2. PICK v \in Text : /\ v = <<c>> \o port
                       /\ Len(v) = 1 + Len(port) /\ v[1] = c
                       /\ \A i \in 1..Len(port) : v[1 + i] = port[i]
  <2>1. /\ <<c>> \o port \in Text /\ Len(<<c>> \o port) = 1 + Len(port) /\ (<<c>> \o port)[1] = c
        /\ \A i \in 1..Len(port) : (<<c>> \o port)[1 + i] = port[i]
    BY OneBefore DEF Text
  <2> QED BY <2>1, Zenon
<1>3. PICK u \in Text : /\ u = <<h>> \o v
                       /\ Len(u) = 1 + Len(v) /\ u[1] = h
                       /\ \A i \in 1..Len(v) : u[1 + i] = v[i]
  <2>1. /\ <<h>> \o v \in Text /\ Len(<<h>> \o v) = 1 + Len(v) /\ (<<h>> \o v)[1] = h
        /\ \A i \in 1..Len(v) : (<<h>> \o v)[1 + i] = v[i]
    BY OneBefore DEF Text
  <2> QED BY <2>1, Zenon
<1>4. Len(s) \in Nat /\ Len(port) \in Nat /\ Len(u) = Len(s)
  BY <1>2, <1>3 DEF Text
<1>5. ASSUME NEW i \in 1..Len(s) PROVE u[i] = s[i]
  <2>1. \/ i = 1 \/ i = 2
        \/ /\ i - 2 \in 1..Len(port) /\ i = (i - 2) + 2 /\ i = 1 + (1 + (i - 2))
           /\ 1 + (i - 2) \in 1..Len(v)
    BY <1>2, <1>4
  <2>2. 1 \in 1..Len(v) /\ 1 + 1 = 2
    BY <1>2, <1>4
  <2>3. u[1] = s[1] /\ u[2] = s[2]
    BY <1>1, <1>2, <1>3, <2>2
  <2>4. ASSUME NEW j \in 1..Len(port), 1 + j \in 1..Len(v) PROVE u[1 + (1 + j)] = s[j + 2]
    BY <1>2, <1>3, <2>4, Zenon
  <2> QED BY <2>1, <2>3, <2>4
<1>6. u = s
  BY <1>4, <1>5, SeqEqual DEF Text
<1> QED BY <1>1, <1>2, <1>3, <1>6, Zenon

LEMMA PortAnswer == Answers => PortInRange
<1> DEFINE s    == call.arg
           port == From(s, 3)
<1> SUFFICES ASSUME Answers, Done("proxy"), IsPrefix(<<"h", ":">>, s),
                    Len(port) \in 1..MaxDigits, \A i \in DOMAIN port : IsDigit(port[i])
             PROVE  got[1].ok <=> Capped(port) \in 1..MaxPort
  BY DEF PortInRange
<1>1. got[1] = ParseProxy(s) /\ s \in Text
  <2>1. got[1] = ParseProxy(s) /\ s \in ProxyTexts
    BY DEF Answers, Done, PlainCalls
  <2>2. s \in Seq(STRING)
    BY <2>1, ArgumentsAssumption
  <2> QED BY <2>1, <2>2, StringsAreTexts
<1>2. Len(s) \in Nat /\ Len(s) >= 2 /\ s[1] = "h" /\ s[2] = ":"
  <2>1. Len(<<"h", ":">>) = 2 /\ Len(s) \in Nat
    BY <1>1 DEF Text
  <2>2. Len(s) >= 2 /\ SubSeq(<<"h", ":">>, 1, 2) = SubSeq(s, 1, 2)
    BY <2>1 DEF IsPrefix
  <2>3. \A i \in 1..2 : SubSeq(s, 1, 2)[i] = s[1 + i - 1]
    BY <1>1, <2>1, <2>2, Part DEF Text
  <2>4. SubSeq(<<"h", ":">>, 1, 2)[1] = "h" /\ SubSeq(<<"h", ":">>, 1, 2)[2] = ":"
    <3>1. \A i \in 1..2 : <<"h", ":">>[i] \in Letter
      BY DEF Letter
    <3>2. \A i \in 1..(2 - 1 + 1) : SubSeq(<<"h", ":">>, 1, 2)[i] = <<"h", ":">>[1 + i - 1]
      BY <3>1, SubSeqProperties
    <3> QED BY <3>2
  <2> QED BY <2>1, <2>2, <2>3, <2>4
<1>3. port \in Text /\ Len(port) = Len(s) - 2 /\ \A i \in 1..Len(port) : port[i] = s[i + 2]
  <2>1. /\ port \in Text /\ Len(port) = Len(s) - 2
        /\ \A i \in 1..(Len(s) - 2) : port[i] = s[3 + i - 1]
    BY <1>1, <1>2, Part DEF From, Text
  <2> QED BY <1>2, <2>1
<1> HIDE DEF s, port
<1>4. IsPort(port) /\ AreDigits(port) /\ port # <<>>
  <2>1. port # <<>>
    <3>1. MaxDigits \in Nat /\ Len(<<>>) = 0
      BY DEF MaxDigits
    <3>2. Len(port) # 0
      BY <3>1
    <3> QED BY <3>1, <3>2, Zenon
  <2> QED BY <2>1, Zenon DEF IsPort, AreDigits
<1> DEFINE p == [scheme |-> FALSE, user |-> <<>>, pass |-> <<>>, host |-> <<"h">>, port |-> port]
<1>5. <<"h">> \in Text /\ <<":">> \in Text /\ <<>> \in Text
  BY One DEF Text, Letter
<1>6. Written(p) = s
  <2>1. Written(p) = ((<<>> \o <<>>) \o <<"h">>) \o (<<":">> \o port)
    <3>1. ~HasColon(<<"h">>)
      BY DEF HasColon
    <3> QED BY <1>4, <3>1 DEF Written, Brackets, HasColon
  <2> DEFINE w == <<"h">> \o (<<":">> \o port)
  <2>2. Written(p) = w
    BY <1>3, <1>5, <2>1, ConcatEmptySeq DEF Text
  <2> HIDE DEF p
  <2>3. w = s
    BY <1>1, <1>2, <1>3, AfterTwo, Zenon
  <2> QED BY <2>2, <2>3, Zenon
<1>7. SchemeEnd(s) = 0
  <2>1. \A i \in 1..Len(port) : port[i] # "/"
    BY <1>4, NotDigits DEF AreDigits
  <2>2. ASSUME NEW i \in 1..Len(s) PROVE s[i] # "/"
    <3>1. i = 1 \/ i = 2 \/ (i - 2 \in 1..Len(port) /\ i = (i - 2) + 2)
      BY <1>2, <1>3
    <3> QED BY <1>2, <1>3, <2>1, <3>1
  <2> QED BY <1>1, <2>2, NoScheme, Zenon
<1>8. IsReadable(p)
  <2>1. Misses(<<>>, {":"}) /\ IsHost(<<"h">>)
    BY DEF Misses, IsHost
  <2>2. IsPortOrNone(port)
    BY <1>4 DEF IsPortOrNone
  <2> QED BY <1>3, <1>5, <1>6, <1>7, <2>1, <2>2 DEF IsReadable
<1>9. p.port = port
  OBVIOUS
<1> HIDE DEF p
<1>10. ParseProxy(s).ok <=> Capped(port) \in 1..MaxPort
  <2>1. CASE Capped(port) \in 1..MaxPort
    <3>1. ParseProxy(s) = [ok |-> TRUE, user |-> p.user, pass |-> p.pass, host |-> p.host,
                           port |-> IF p.port = <<>> THEN DefaultPort ELSE p.port]
      BY <1>6, <1>8, <1>9, <2>1, WrittenIsParsed, Zenon
    <3> QED BY <2>1, <3>1
  <2>2. CASE ~(Capped(port) \in 1..MaxPort)
    <3>1. ParseProxy(s) = Refused
      BY <1>4, <1>6, <1>8, <1>9, <2>2, WrittenIsParsed, Zenon
    <3> QED BY <2>2, <3>1 DEF Refused
  <2> QED BY <2>1, <2>2
<1> QED BY <1>1, <1>10, Zenon DEF port

\* Up to 19 digits a port is taken exactly if its value is in 1..65535: the 64-bit
\* sum does not wrap before the twentieth (parse_proxy).
THEOREM PortsInRange == ArgumentsSpec => []PortInRange
BY PortAnswer, AnswersHold, PTL
=============================================================================
