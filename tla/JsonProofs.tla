------------------------------ MODULE JsonProofs ------------------------------
(***************************************************************************)
(* What the two directions of the json library promise, proved for values  *)
(* and documents of every depth.                                           *)
(***************************************************************************)
EXTENDS Conversions, UrlProofs

-----------------------------------------------------------------------------
(* Induction over depth.                                                   *)

\* What holds at the bottom and one level up from where it holds, holds everywhere.
LEMMA Upwards ==
  ASSUME NEW N \in Nat, NEW Good, 0 \in Good, \A d \in 1..N : d - 1 \in Good => d \in Good
  PROVE  \A d \in 0..N : d \in Good
<1> DEFINE Bad == {d \in 0..N : d \notin Good}
<1>1. ASSUME Bad # {} PROVE FALSE
  <2>1. Bad \subseteq Nat
    OBVIOUS
  <2>2. PICK d \in Bad : \A m \in Bad : d <= m
    <3> HIDE DEF Bad
    <3> QED BY <1>1, <2>1, SmallestMember
  <2>3. d \in 1..N /\ d - 1 \in 0..N /\ ~(d <= d - 1)
    BY <2>2
  <2>4. d - 1 \in Good
    BY <2>2, <2>3
  <2> QED BY <2>2, <2>3, <2>4
<1> QED BY <1>1

\* A bounded set of numbers has a largest one.
LEMMA LargestMember ==
  ASSUME NEW N \in Nat, NEW T, T \subseteq 1..N, T # {}
  PROVE  \E n \in T : \A m \in T : m <= n
<1> DEFINE U == {k \in 0..N : N - k \in T}
<1>1. U \subseteq Nat
  OBVIOUS
<1>2. U # {}
  <2>1. PICK m \in T : TRUE
    OBVIOUS
  <2>2. N - m \in 0..N /\ N - (N - m) = m
    BY <2>1
  <2> QED BY <2>1, <2>2
<1>3. PICK k \in U : \A l \in U : k <= l
  <2> HIDE DEF U
  <2> QED BY <1>1, <1>2, SmallestMember
<1>4. ASSUME NEW m \in T PROVE m <= N - k
  <2>1. N - m \in 0..N /\ N - (N - m) = m /\ m \in 1..N
    OBVIOUS
  <2>2. N - m \in U
    BY <2>1
  <2>3. k <= N - m /\ k \in 0..N
    BY <1>3, <2>2
  <2> QED BY <2>1, <2>3
<1> QED BY <1>3, <1>4

\* One level of each of the recursive functions of JsonValues, from the level below.
Below(f, d) == IF d = 0 THEN <<>> ELSE f[d - 1]
Level(kind, a, b, c, d, below) ==
  CASE kind = "lua"    -> IF d = 0 THEN a ELSE a \cup Tables(below, b)
    [] kind = "json"   -> IF d = 0 THEN a ELSE a \cup Arrays(below, c) \cup Objects(below, b)
    [] kind = "encode" -> [v \in a[d] \cup {Nil} |-> EncodingsOf(v, below)]
    [] kind = "text"   -> [j \in a[d] |-> TextOf(j, below)]
    [] kind = "push"   -> [j \in a[d] |-> PushOf(j, b, below)]
Levels(f, N, kind, a, b, c) == \A d \in 0..N : f[d] = Level(kind, a, b, c, d, Below(f, d))
Whole(f, N) == f = [d \in 0..N |-> f[d]]

LEMMA LevelsExist ==
  ASSUME NEW N \in Nat, NEW kind, NEW a, NEW b, NEW c
  PROVE  \E f : Whole(f, N) /\ Levels(f, N, kind, a, b, c)
<1> DEFINE Good == {n \in 0..N : \E f : Levels(f, n, kind, a, b, c)}
<1>1. 0 \in Good
  <2> DEFINE f == [d \in 0..0 |-> Level(kind, a, b, c, d, <<>>)]
  <2>1. \A d \in 0..0 : f[d] = Level(kind, a, b, c, d, <<>>) /\ d = 0
    OBVIOUS
  <2> HIDE DEF f
  <2>2. Levels(f, 0, kind, a, b, c)
    BY <2>1, Zenon DEF Levels, Below
  <2> QED BY <2>2
<1>2. ASSUME NEW n \in 1..N, n - 1 \in Good PROVE n \in Good
  <2>1. PICK f : Levels(f, n - 1, kind, a, b, c)
    BY <1>2, Zenon
  <2> DEFINE g == [d \in 0..n |-> IF d = n THEN Level(kind, a, b, c, n, f[n - 1]) ELSE f[d]]
  <2>2. g[n] = Level(kind, a, b, c, n, f[n - 1]) /\ \A d \in 0..(n - 1) : g[d] = f[d]
    <3>1. n \in 0..n /\ \A d \in 0..(n - 1) : d \in 0..n /\ d # n
      OBVIOUS
    <3> QED BY <3>1, Zenon
  <2> HIDE DEF g
  <2>3. ASSUME NEW d \in 0..n PROVE g[d] = Level(kind, a, b, c, d, Below(g, d))
    <3>1. CASE d = n
      <4>1. n # 0 /\ n - 1 \in 0..(n - 1)
        OBVIOUS
      <4>2. Below(g, n) = f[n - 1]
        BY <2>2, <4>1, Zenon DEF Below
      <4> QED BY <2>2, <3>1, <4>2, Zenon
    <3>2. CASE d # n
      <4>1. d \in 0..(n - 1) /\ (d # 0 => d - 1 \in 0..(n - 1))
        BY <3>2
      <4>2. Below(g, d) = Below(f, d)
        BY <2>2, <4>1, Zenon DEF Below
      <4> QED BY <2>1, <2>2, <4>1, <4>2, Zenon DEF Levels
    <3> QED BY <3>1, <3>2
  <2>4. Levels(g, n, kind, a, b, c)
    BY <2>3, Zenon DEF Levels
  <2>5. n \in 0..N
    OBVIOUS
  <2> QED BY <2>4, <2>5, Zenon
<1>3. N \in Good
  <2>1. N \in 0..N
    OBVIOUS
  <2> HIDE DEF Good
  <2> QED BY <1>1, <1>2, <2>1, Upwards
<1>4. PICK f : Levels(f, N, kind, a, b, c)
  BY <1>3, Zenon
<1> DEFINE g == [d \in 0..N |-> f[d]]
<1>5. \A d \in 0..N : g[d] = f[d]
  OBVIOUS
<1>6. Whole(g, N)
  BY Zenon DEF Whole
<1> HIDE DEF g
<1>7. \A d \in 0..N : Below(g, d) = Below(f, d)
  <2>1. \A d \in 0..N : d # 0 => d - 1 \in 0..N
    OBVIOUS
  <2> QED BY <1>5, <2>1, Zenon DEF Below
<1> QED BY <1>4, <1>5, <1>6, <1>7, Zenon DEF Levels

\* So does the function that a recursive definition chooses.
LEMMA ChosenLevels ==
  ASSUME NEW kind, NEW a, NEW b, NEW c, NEW f,
         f = CHOOSE g : g = [d \in 0..Depth |-> Level(kind, a, b, c, d, Below(g, d))]
  PROVE  Levels(f, Depth, kind, a, b, c)
<1> DEFINE Body(g) == [d \in 0..Depth |-> Level(kind, a, b, c, d, Below(g, d))]
<1>1. PICK h : Whole(h, Depth) /\ Levels(h, Depth, kind, a, b, c)
  BY LevelsExist, JsonAssumption
<1>2. h = Body(h)
  <2>1. \A d \in 0..Depth : h[d] = Body(h)[d]
    BY <1>1, Zenon DEF Levels
  <2>2. h = [d \in 0..Depth |-> h[d]] /\ Body(h) = [d \in 0..Depth |-> Body(h)[d]]
    BY <1>1, Zenon DEF Whole
  <2> HIDE DEF Body
  <2> QED BY <2>1, <2>2, Zenon
<1>3. f = Body(f)
  <2>1. f = CHOOSE g : g = Body(g)
    BY Zenon
  <2> HIDE DEF Body
  <2> QED BY <1>2, <2>1
<1> QED BY <1>3, Zenon DEF Levels

-----------------------------------------------------------------------------
(* The equations of the recursive functions.                               *)

LEMMA DepthIs ==
  /\ Depth \in Nat /\ 0 \in 0..Depth /\ Depth \in 0..Depth
  /\ \A d \in 1..Depth : d \in 0..Depth /\ d # 0 /\ d - 1 \in 0..Depth
<1>1. Depth \in Nat
  BY JsonAssumption
<1> QED BY <1>1

LEMMA LuaLevels ==
  ASSUME NEW atoms, NEW shapes
  PROVE  /\ LuaOver(atoms, shapes)[0] = atoms
         /\ \A d \in 1..Depth :
              LuaOver(atoms, shapes)[d] = atoms \cup Tables(LuaOver(atoms, shapes)[d - 1], shapes)
<1> DEFINE Body(g) == [d \in 0..Depth |-> IF d = 0 THEN atoms ELSE atoms \cup Tables(g[d - 1], shapes)]
           Step(g) == [d \in 0..Depth |-> Level("lua", atoms, shapes, <<>>, d, Below(g, d))]
           from == CHOOSE g : g = Body(g)
<1>1. ASSUME NEW g PROVE Body(g) = Step(g)
  <2> DEFINE B(d) == IF d = 0 THEN atoms ELSE atoms \cup Tables(g[d - 1], shapes)
             C(d) == Level("lua", atoms, shapes, <<>>, d, Below(g, d))
  <2>1. ASSUME NEW d \in 0..Depth PROVE B(d) = C(d)
    BY Zenon DEF Level, Below
  <2>2. Body(g) = [d \in 0..Depth |-> B(d)] /\ Step(g) = [d \in 0..Depth |-> C(d)]
    BY Zenon
  <2> HIDE DEF B, C, Body, Step
  <2> QED BY <2>1, <2>2, Zenon
<1>2. from = CHOOSE g : g = Step(g)
  <2>1. \A g : g = Body(g) <=> g = Step(g)
    <3> HIDE DEF Body, Step
    <3> QED BY <1>1, Zenon
  <2> HIDE DEF Body, Step
  <2> QED BY <2>1, Zenon DEF from
<1>3. LuaOver(atoms, shapes) = from
  BY Zenon DEF LuaOver
<1>4. LuaOver(atoms, shapes) = CHOOSE g : g = Step(g)
  BY <1>2, <1>3, Zenon
<1>5. Levels(LuaOver(atoms, shapes), Depth, "lua", atoms, shapes, <<>>)
  <2> HIDE DEF from, Body
  <2> QED BY <1>4, ChosenLevels, Zenon
<1>6. 0 \in 0..Depth /\ \A d \in 1..Depth : d \in 0..Depth /\ d # 0
  BY DepthIs, Zenon
<1>7. LuaOver(atoms, shapes)[0] = atoms
  <2>1. LuaOver(atoms, shapes)[0] = Level("lua", atoms, shapes, <<>>, 0, Below(LuaOver(atoms, shapes), 0))
    BY <1>5, <1>6, Zenon DEF Levels
  <2> QED BY <2>1, Zenon DEF Level
<1>8. ASSUME NEW d \in 1..Depth
      PROVE  LuaOver(atoms, shapes)[d] = atoms \cup Tables(LuaOver(atoms, shapes)[d - 1], shapes)
  <2>1. LuaOver(atoms, shapes)[d] = Level("lua", atoms, shapes, <<>>, d, Below(LuaOver(atoms, shapes), d))
    BY <1>5, <1>6, Zenon DEF Levels
  <2> QED BY <1>6, <2>1, Zenon DEF Level, Below
<1> QED BY <1>7, <1>8, Zenon

LEMMA JsonLevels ==
  ASSUME NEW atoms, NEW names, NEW lengths
  PROVE  /\ JsonOver(atoms, names, lengths)[0] = atoms
         /\ \A d \in 1..Depth :
              JsonOver(atoms, names, lengths)[d] =
                atoms \cup Arrays(JsonOver(atoms, names, lengths)[d - 1], lengths)
                      \cup Objects(JsonOver(atoms, names, lengths)[d - 1], names)
<1> DEFINE Body(g) ==
        [d \in 0..Depth |-> IF d = 0 THEN atoms ELSE atoms \cup Arrays(g[d - 1], lengths) \cup Objects(g[d - 1], names)]
           Step(g) == [d \in 0..Depth |-> Level("json", atoms, names, lengths, d, Below(g, d))]
           from == CHOOSE g : g = Body(g)
<1>1. ASSUME NEW g PROVE Body(g) = Step(g)
  <2> DEFINE B(d) == IF d = 0 THEN atoms ELSE atoms \cup Arrays(g[d - 1], lengths)
                                \cup Objects(g[d - 1], names)
             C(d) == Level("json", atoms, names, lengths, d, Below(g, d))
  <2>1. ASSUME NEW d \in 0..Depth PROVE B(d) = C(d)
    BY Zenon DEF Level, Below
  <2>2. Body(g) = [d \in 0..Depth |-> B(d)] /\ Step(g) = [d \in 0..Depth |-> C(d)]
    BY Zenon
  <2> HIDE DEF B, C, Body, Step
  <2> QED BY <2>1, <2>2, Zenon
<1>2. from = CHOOSE g : g = Step(g)
  <2>1. \A g : g = Body(g) <=> g = Step(g)
    <3> HIDE DEF Body, Step
    <3> QED BY <1>1, Zenon
  <2> HIDE DEF Body, Step
  <2> QED BY <2>1, Zenon DEF from
<1>3. JsonOver(atoms, names, lengths) = from
  BY Zenon DEF JsonOver
<1>4. JsonOver(atoms, names, lengths) = CHOOSE g : g = Step(g)
  BY <1>2, <1>3, Zenon
<1>5. Levels(JsonOver(atoms, names, lengths), Depth, "json", atoms, names, lengths)
  <2> HIDE DEF from, Body
  <2> QED BY <1>4, ChosenLevels, Zenon
<1>6. 0 \in 0..Depth /\ \A d \in 1..Depth : d \in 0..Depth /\ d # 0
  BY DepthIs, Zenon
<1>7. JsonOver(atoms, names, lengths)[0] = atoms
  <2>1. JsonOver(atoms, names, lengths)[0] =
         Level("json", atoms, names, lengths, 0, Below(JsonOver(atoms, names, lengths), 0))
    BY <1>5, <1>6, Zenon DEF Levels
  <2> QED BY <2>1, Zenon DEF Level
<1>8. ASSUME NEW d \in 1..Depth
      PROVE  JsonOver(atoms, names, lengths)[d] = 
               atoms \cup Arrays(JsonOver(atoms, names, lengths)[d - 1], lengths)
                     \cup Objects(JsonOver(atoms, names, lengths)[d - 1], names)
  <2>1. JsonOver(atoms, names, lengths)[d] =
         Level("json", atoms, names, lengths, d, Below(JsonOver(atoms, names, lengths), d))
    BY <1>5, <1>6, Zenon DEF Levels
  <2> QED BY <1>6, <2>1, Zenon DEF Level, Below
<1> QED BY <1>7, <1>8, Zenon

LEMMA EncodeLevels ==
  \A d \in 0..Depth : \A v \in Lua[d] \cup {Nil} :
           LuaToJson[d][v] = EncodingsOf(v, Below(LuaToJson, d))
<1> DEFINE Body(g) ==
        [d \in 0..Depth |-> [v \in Lua[d] \cup {Nil} |-> EncodingsOf(v, IF d = 0 THEN <<>> ELSE g[d - 1])]]
           Step(g) == [d \in 0..Depth |-> Level("encode", Lua, <<>>, <<>>, d, Below(g, d))]
           from == CHOOSE g : g = Body(g)
<1>1. ASSUME NEW g PROVE Body(g) = Step(g)
  <2> DEFINE B(d) == [v \in Lua[d] \cup {Nil} |-> EncodingsOf(v, IF d = 0 THEN <<>> ELSE g[d - 1])]
             C(d) == Level("encode", Lua, <<>>, <<>>, d, Below(g, d))
  <2>1. ASSUME NEW d \in 0..Depth PROVE B(d) = C(d)
    BY Zenon DEF Level, Below
  <2>2. Body(g) = [d \in 0..Depth |-> B(d)] /\ Step(g) = [d \in 0..Depth |-> C(d)]
    BY Zenon
  <2> HIDE DEF B, C, Body, Step
  <2> QED BY <2>1, <2>2, Zenon
<1>2. from = CHOOSE g : g = Step(g)
  <2>1. \A g : g = Body(g) <=> g = Step(g)
    <3> HIDE DEF Body, Step
    <3> QED BY <1>1, Zenon
  <2> HIDE DEF Body, Step
  <2> QED BY <2>1, Zenon DEF from
<1>3. LuaToJson = from
  BY Zenon DEF LuaToJson
<1>4. LuaToJson = CHOOSE g : g = Step(g)
  BY <1>2, <1>3, Zenon
<1>5. Levels(LuaToJson, Depth, "encode", Lua, <<>>, <<>>)
  <2> HIDE DEF from, Body
  <2> QED BY <1>4, ChosenLevels, Zenon
<1> QED BY <1>5, Zenon DEF Levels, Level

LEMMA TextLevels ==
  \A d \in 0..Depth : \A j \in Built[d] : AsText[d][j] = TextOf(j, Below(AsText, d))
<1> DEFINE Body(g) ==
        [d \in 0..Depth |-> [j \in Built[d] |-> TextOf(j, IF d = 0 THEN <<>> ELSE g[d - 1])]]
           Step(g) == [d \in 0..Depth |-> Level("text", Built, <<>>, <<>>, d, Below(g, d))]
           from == CHOOSE g : g = Body(g)
<1>1. ASSUME NEW g PROVE Body(g) = Step(g)
  <2> DEFINE B(d) == [j \in Built[d] |-> TextOf(j, IF d = 0 THEN <<>> ELSE g[d - 1])]
             C(d) == Level("text", Built, <<>>, <<>>, d, Below(g, d))
  <2>1. ASSUME NEW d \in 0..Depth PROVE B(d) = C(d)
    BY Zenon DEF Level, Below
  <2>2. Body(g) = [d \in 0..Depth |-> B(d)] /\ Step(g) = [d \in 0..Depth |-> C(d)]
    BY Zenon
  <2> HIDE DEF B, C, Body, Step
  <2> QED BY <2>1, <2>2, Zenon
<1>2. from = CHOOSE g : g = Step(g)
  <2>1. \A g : g = Body(g) <=> g = Step(g)
    <3> HIDE DEF Body, Step
    <3> QED BY <1>1, Zenon
  <2> HIDE DEF Body, Step
  <2> QED BY <2>1, Zenon DEF from
<1>3. AsText = from
  BY Zenon DEF AsText
<1>4. AsText = CHOOSE g : g = Step(g)
  BY <1>2, <1>3, Zenon
<1>5. Levels(AsText, Depth, "text", Built, <<>>, <<>>)
  <2> HIDE DEF from, Body
  <2> QED BY <1>4, ChosenLevels, Zenon
<1> QED BY <1>5, Zenon DEF Levels, Level

LEMMA PushLevels ==
  ASSUME NEW whole
  PROVE  \A d \in 0..Depth : \A j \in Json[d] :
           Push(whole)[d][j] = PushOf(j, whole, Below(Push(whole), d))
<1> DEFINE Body(g) ==
        [d \in 0..Depth |-> [j \in Json[d] |-> PushOf(j, whole, IF d = 0 THEN <<>> ELSE g[d - 1])]]
           Step(g) == [d \in 0..Depth |-> Level("push", Json, whole, <<>>, d, Below(g, d))]
           from == CHOOSE g : g = Body(g)
<1>1. ASSUME NEW g PROVE Body(g) = Step(g)
  <2> DEFINE B(d) == [j \in Json[d] |-> PushOf(j, whole, IF d = 0 THEN <<>> ELSE g[d - 1])]
             C(d) == Level("push", Json, whole, <<>>, d, Below(g, d))
  <2>1. ASSUME NEW d \in 0..Depth PROVE B(d) = C(d)
    BY Zenon DEF Level, Below
  <2>2. Body(g) = [d \in 0..Depth |-> B(d)] /\ Step(g) = [d \in 0..Depth |-> C(d)]
    BY Zenon
  <2> HIDE DEF B, C, Body, Step
  <2> QED BY <2>1, <2>2, Zenon
<1>2. from = CHOOSE g : g = Step(g)
  <2>1. \A g : g = Body(g) <=> g = Step(g)
    <3> HIDE DEF Body, Step
    <3> QED BY <1>1, Zenon
  <2> HIDE DEF Body, Step
  <2> QED BY <2>1, Zenon DEF from
<1>3. Push(whole) = from
  BY Zenon DEF Push
<1>4. Push(whole) = CHOOSE g : g = Step(g)
  BY <1>2, <1>3, Zenon
<1>5. Levels(Push(whole), Depth, "push", Json, whole, <<>>)
  <2> HIDE DEF from, Body
  <2> QED BY <1>4, ChosenLevels, Zenon
<1> QED BY <1>5, Zenon DEF Levels, Level
-----------------------------------------------------------------------------
(* Kinds of values                                                         *)

Kinds == {"int", "str", "other"}
Pair(v) == v = <<v[1], v[2]>>

LEMMA MarksDiffer ==
  /\ Nil[1] = "nil" /\ Null[1] = "null" /\ Absent[1] = "absent" /\ Opaque[1] = "fun"
  /\ \A n : IntOf(n)[1] = "int" /\ IntOf(n)[2] = n
  /\ \A s : StrOf(s)[1] = "str" /\ StrOf(s)[2] = s
BY DEF Nil, Null, Absent, Opaque, IntOf, StrOf

LEMMA ScalarIs ==
  ASSUME NEW ints, NEW strings, NEW others, NEW v
  PROVE  v \in ScalarsOver(ints, strings, others) <=>
           \/ \E n \in ints : v = IntOf(n)
           \/ \E s \in strings : v = StrOf(s)
           \/ \E x \in others : v = <<"other", x>>
BY DEF ScalarsOver, IntOf, StrOf

LEMMA ScalarKinds ==
  ASSUME NEW ints, NEW strings, NEW others, NEW v \in ScalarsOver(ints, strings, others)
  PROVE  /\ v[1] \in Kinds /\ Pair(v) /\ v \notin {Nil, Null, Absent, Opaque}
         /\ v[1] = "int" => v[2] \in ints
         /\ v[1] = "str" => v[2] \in strings
         /\ v[1] = "other" => v[2] \in others
<1>1. /\ v = <<v[1], v[2]>> /\ v[1] \in Kinds
      /\ v[1] = "int" => v[2] \in ints
      /\ v[1] = "str" => v[2] \in strings
      /\ v[1] = "other" => v[2] \in others
  BY DEF ScalarsOver, Kinds
<1>2. v[1] \notin {"nil", "null", "absent", "fun"}
  BY <1>1 DEF Kinds
<1>3. v \notin {Nil, Null, Absent, Opaque}
  BY <1>2, MarksDiffer, Zenon
<1> QED BY <1>1, <1>3, Zenon DEF Pair

LEMMA TableIs ==
  ASSUME NEW V, NEW shapes, NEW v
  PROVE  v \in Tables(V, shapes) <=>
           \E f \in [Keys -> V \cup {Nil}] :
             v = <<"tbl", f>> /\ Present(f) \in shapes
<1> DEFINE F == {f \in [Keys -> V \cup {Nil}] : Present(f) \in shapes}
<1>1. v \in {"tbl"} \X F <=> \E x \in F : v = <<"tbl", x>>
  <2> HIDE DEF F
  <2> QED OBVIOUS
<1>2. Tables(V, shapes) = {"tbl"} \X F
  BY Zenon DEF Tables
<1> QED BY <1>1, <1>2, Zenon

LEMMA ArrayIs ==
  ASSUME NEW V, NEW lengths, NEW v
  PROVE  v \in Arrays(V, lengths) <=> \E a \in Seq(V) : v = <<"arr", a>> /\ Len(a) \in lengths
<1> DEFINE F == {a \in Seq(V) : Len(a) \in lengths}
<1>1. v \in {"arr"} \X F <=> \E x \in F : v = <<"arr", x>>
  <2> HIDE DEF F
  <2> QED OBVIOUS
<1>2. Arrays(V, lengths) = {"arr"} \X F
  BY Zenon DEF Arrays
<1> QED BY <1>1, <1>2, Zenon

LEMMA ObjectIs ==
  ASSUME NEW V, NEW names, NEW v
  PROVE  v \in Objects(V, names) <=>
           \E g \in [Strings -> V \cup {Absent}] : v = <<"obj", g>> /\ Names(g) \subseteq names
<1> DEFINE F == {g \in [Strings -> V \cup {Absent}] : Names(g) \subseteq names}
<1>1. v \in {"obj"} \X F <=> \E x \in F : v = <<"obj", x>>
  <2> HIDE DEF F
  <2> QED OBVIOUS
<1>2. Objects(V, names) = {"obj"} \X F
  BY Zenon DEF Objects
<1> QED BY <1>1, <1>2, Zenon

LEMMA CompoundKinds ==
  \A x : /\ <<"tbl", x>>[1] = "tbl" /\ <<"tbl", x>>[2] = x
         /\ <<"arr", x>>[1] = "arr" /\ <<"arr", x>>[2] = x
         /\ <<"obj", x>>[1] = "obj" /\ <<"obj", x>>[2] = x
         /\ <<"tbl", x>> \notin {Nil, Opaque}
         /\ <<"arr", x>> # Null /\ <<"obj", x>> # Null
         /\ <<"arr", x>> # Absent /\ <<"obj", x>> # Absent
<1> TAKE x
<1>1. /\ <<"tbl", x>>[1] = "tbl" /\ <<"tbl", x>>[2] = x
      /\ <<"arr", x>>[1] = "arr" /\ <<"arr", x>>[2] = x
      /\ <<"obj", x>>[1] = "obj" /\ <<"obj", x>>[2] = x
  OBVIOUS
<1>2. "tbl" \notin {"nil", "fun"} /\ "arr" \notin {"null", "absent"} /\ "obj" \notin {"null", "absent"}
  OBVIOUS
<1>3. /\ <<"tbl", x>> # Nil /\ <<"tbl", x>> # Opaque
      /\ <<"arr", x>> # Null /\ <<"obj", x>> # Null
      /\ <<"arr", x>> # Absent /\ <<"obj", x>> # Absent
  BY <1>1, <1>2, MarksDiffer, Zenon
<1> QED BY <1>1, <1>3, Zenon

LEMMA KeyIs ==
  ASSUME NEW k \in Keys
  PROVE  /\ Pair(k) /\ k[1] \in Kinds
         /\ k[1] = "int" => k[2] \in Lowest..Highest /\ k = IntOf(k[2])
         /\ k[1] = "str" => k[2] \in Strings /\ k = StrOf(k[2])
<1>1. k \in ScalarsOver(Lowest..Highest, Strings, Others)
  BY Zenon DEF Keys
<1>2. /\ k[1] \in Kinds /\ Pair(k)
      /\ k[1] = "int" => k[2] \in Lowest..Highest
      /\ k[1] = "str" => k[2] \in Strings
  BY <1>1, ScalarKinds, Zenon
<1> QED BY <1>2, Zenon DEF Pair, IntOf, StrOf

LEMMA BoundsAre ==
  /\ MaxInteger \in Nat /\ Highest \in Nat /\ Highest <= MaxInteger
  /\ Lowest \in Int /\ -MaxInteger - 1 <= Lowest /\ Lowest <= 1
<1>1. MaxInteger \in Nat /\ Lowest <= 1 /\ Highest >= 0
  BY JsonAssumption, Zenon
<1>2. Lowest \in (-MaxInteger - 1)..MaxInteger /\ Highest \in (-MaxInteger - 1)..MaxInteger
  BY JsonAssumption, Zenon DEF LuaInts
<1> QED BY <1>1, <1>2

LEMMA KeysAre ==
  /\ \A n \in 1..Highest : IntOf(n) \in Keys /\ IntOf(n) \in Positive
  /\ \A s \in Strings : StrOf(s) \in Keys
<1>1. ASSUME NEW n \in 1..Highest PROVE IntOf(n) \in Keys /\ IntOf(n) \in Positive
  <2>1. n \in Lowest..Highest
    BY BoundsAre
  <2>2. IntOf(n) \in Positive
    BY DEF Positive, IntOf
  <2> QED BY <2>1, <2>2, ScalarIs, Zenon DEF Keys
<1>2. \A s \in Strings : StrOf(s) \in Keys
  BY ScalarIs, Zenon DEF Keys
<1> QED BY <1>1, <1>2, Zenon

LEMMA PositiveIs ==
  ASSUME NEW k \in Positive
  PROVE  k[1] = "int" /\ k[2] \in 1..Highest /\ k = IntOf(k[2]) /\ k \in Keys
<1>1. k[1] = "int" /\ k[2] \in 1..Highest /\ k = <<k[1], k[2]>>
  BY DEF Positive
<1>2. k = IntOf(k[2])
  BY <1>1, Zenon DEF IntOf
<1> QED BY <1>1, <1>2, KeysAre, Zenon

-----------------------------------------------------------------------------
(* What LuaToJson looks up.                                                *)

\* A list has a last index, of a positive key.
LEMMA LastIndexIs ==
  ASSUME NEW f, ListLike(f)
  PROVE  /\ LastIndex(f) \in 1..Highest /\ IntOf(LastIndex(f)) \in Present(f)
         /\ \A k \in Present(f) : k[2] <= LastIndex(f)
<1> DEFINE T == {n \in 1..Highest : IntOf(n) \in Present(f)}
<1>1. Highest \in Nat
  BY BoundsAre
<1>2. T # {}
  <2>1. PICK k \in Present(f) : k \in Positive
    BY Zenon DEF ListLike
  <2> QED BY <2>1, PositiveIs, Zenon
<1>3. PICK n \in T : \A m \in T : m <= n
  <2>1. T \subseteq 1..Highest
    OBVIOUS
  <2> HIDE DEF T
  <2> QED BY <1>1, <1>2, <2>1, LargestMember, Zenon
<1>4. \A k \in Present(f) : k[2] \in T
  BY PositiveIs, Zenon DEF ListLike
<1>5. n \in 1..Highest /\ IntOf(n) \in Present(f) /\ \A k \in Present(f) : k[2] <= n
  BY <1>3, <1>4, Zenon
<1> QED BY <1>5, Zenon DEF LastIndex

LEMMA NameIsString ==
  ASSUME NEW k \in Keys
  PROVE  NameOf(k) \in Strings
<1>1. /\ \A s \in Strings : CStr[s] \in Strings
      /\ \A n \in Lowest..Highest : Printed[n] \in Utf8
      /\ "" \in Strings /\ Utf8 \subseteq Strings
  BY JsonAssumption
<1> QED BY <1>1, KeyIs, Zenon DEF NameOf

\* Whatever sets of choices, if none is empty there is a way to choose.
LEMMA PicksExist ==
  ASSUME NEW S, NEW may, \A x \in S : may[x] # {}
  PROVE  Picks(S, may) # {}
<1> DEFINE g == [x \in S |-> CHOOSE e \in may[x] : TRUE]
<1>1. \A x \in S : g[x] \in may[x]
  OBVIOUS
<1>2. g \in [S -> UNION {may[x] : x \in S}]
  BY <1>1
<1> QED BY <1>1, <1>2, Zenon DEF Picks

LEMMA PicksAre ==
  ASSUME NEW S, NEW may, NEW g \in Picks(S, may)
  PROVE  g = [x \in S |-> g[x]] /\ \A x \in S : g[x] \in may[x]
<1>1. g \in [S -> UNION {may[x] : x \in S}] /\ \A x \in S : g[x] \in may[x]
  BY Zenon DEF Picks
<1>2. g = [x \in S |-> g[x]]
  BY <1>1, Zenon
<1> QED BY <1>1, <1>2, Zenon

\* A list of choices out of V is a sequence over V.
LEMMA PicksAreLists ==
  ASSUME NEW V, NEW n \in Nat, NEW may, \A i \in 1..n : may[i] \subseteq V, NEW g \in Picks(1..n, may)
  PROVE  g \in Seq(V) /\ Len(g) = n
<1>1. g = [i \in 1..n |-> g[i]] /\ \A i \in 1..n : g[i] \in may[i]
  BY PicksAre, Zenon
<1>2. \A i \in 1..n : g[i] \in V
  BY <1>1
<1>3. g \in [1..n -> V]
  BY <1>1, <1>2, Zenon
<1> QED BY <1>3

\* The last of the names that are cut to a string is one of them.
LEMMA LastNameIs ==
  ASSUME NEW names, names \subseteq Strings, names # {}
  PROVE  LastName(names) \in names
<1> DEFINE T == {After[n] : n \in names}
<1>1. T \subseteq Nat
  BY JsonAssumption
<1>2. T # {}
  OBVIOUS
<1>3. PICK t \in T : \A u \in T : t <= u
  <2> HIDE DEF T
  <2> QED BY <1>1, <1>2, SmallestMember, Zenon
<1>4. PICK n \in names : t = After[n]
  BY <1>3
<1>5. \A m \in names : After[n] <= After[m]
  BY <1>3, <1>4
<1> QED BY <1>5, Zenon DEF LastName
-----------------------------------------------------------------------------
(* One level of the encoder: its results are JSON values.                  *)

\* What enc gives for the values in W, and for nil, are some of J.
Encodes(W, enc, J) == \A v \in W \cup {Nil} : enc[v] # {} /\ enc[v] \subseteq J

\* Encoders of a level, as EncodingsOf takes them apart.
LEMMA ScalarEncodings ==
  ASSUME NEW enc, NEW v
  PROVE  /\ v \in {Nil, Opaque} => EncodingsOf(v, enc) = {Null}
         /\ \A ints, strings, others : v \in ScalarsOver(ints, strings, others) => EncodingsOf(v, enc) = {v}
<1>1. v \in {Nil, Opaque} => EncodingsOf(v, enc) = {Null}
  BY Zenon DEF EncodingsOf
<1>2. ASSUME NEW ints, NEW strings, NEW others, v \in ScalarsOver(ints, strings, others) PROVE EncodingsOf(v, enc) = {v}
  <2>1. v[1] \in Kinds /\ v \notin {Nil, Opaque}
    BY <1>2, ScalarKinds, Zenon
  <2>2. v[1] # "tbl"
    BY <2>1 DEF Kinds
  <2> QED BY <2>1, <2>2, Zenon DEF EncodingsOf
<1> QED BY <1>1, <1>2, Zenon

LEMMA TableEncodings ==
  ASSUME NEW enc, NEW f
  PROVE  /\ ListLike(f) => EncodingsOf(<<"tbl", f>>, enc) = ArraysOf(f, enc)
         /\ ~ListLike(f) => EncodingsOf(<<"tbl", f>>, enc) = ObjectsOf(f, enc)
<1> DEFINE t == <<"tbl", f>>
<1>1. t[1] = "tbl" /\ t[2] = f /\ t \notin {Nil, Opaque}
  BY CompoundKinds, Zenon
<1> HIDE DEF t
<1>2. /\ ListLike(f) => EncodingsOf(t, enc) = ArraysOf(f, enc)
      /\ ~ListLike(f) => EncodingsOf(t, enc) = ObjectsOf(f, enc)
  BY <1>1, Zenon DEF EncodingsOf
<1> QED BY <1>2, Zenon DEF t

ElementsOf(f, enc) == [i \in 1..LastIndex(f) |-> enc[f[IntOf(i)]]]

LEMMA ArraysOfIs ==
  ASSUME NEW enc, NEW f, NEW j
  PROVE  j \in ArraysOf(f, enc) <=>
           \E g \in Picks(1..LastIndex(f), ElementsOf(f, enc)) : j = <<"arr", g>>
<1> DEFINE P == Picks(1..LastIndex(f), ElementsOf(f, enc))
<1>1. ArraysOf(f, enc) = {"arr"} \X P
  BY Zenon DEF ArraysOf, ElementsOf
<1>2. j \in {"arr"} \X P <=> \E g \in P : j = <<"arr", g>>
  <2> HIDE DEF P
  <2> QED OBVIOUS
<1> QED BY <1>1, <1>2, Zenon

LEMMA ListValuesEncoded ==
  ASSUME NEW W, NEW enc, NEW J, Encodes(W, enc, J),
         NEW f \in [Keys -> W \cup {Nil}], NEW n \in 1..Highest
  PROVE  f[IntOf(n)] \in W \cup {Nil} /\ enc[f[IntOf(n)]] # {} /\ enc[f[IntOf(n)]] \subseteq J
<1>1. f[IntOf(n)] \in W \cup {Nil}
  BY KeysAre, Zenon
<1> QED BY <1>1, Zenon DEF Encodes

LEMMA ArraysOfEncode ==
  ASSUME NEW W, NEW enc, NEW J, Encodes(W, enc, J), NEW f \in [Keys -> W \cup {Nil}], ListLike(f)
  PROVE  ArraysOf(f, enc) # {} /\ ArraysOf(f, enc) \subseteq Arrays(J, 0..Highest)
<1> DEFINE n == LastIndex(f)
           may == ElementsOf(f, enc)
<1>1. n \in 1..Highest
  BY LastIndexIs, Zenon
<1>2. n \in Nat /\ n \in 0..Highest /\ \A i \in 1..n : i \in 1..Highest
  <2> HIDE DEF n
  <2> QED BY <1>1, BoundsAre
<1>3. ASSUME NEW i \in 1..n PROVE may[i] # {} /\ may[i] \subseteq J
  <2>1. may[i] = enc[f[IntOf(i)]]
    BY Zenon DEF ElementsOf
  <2>2. i \in 1..Highest
    BY <1>2, Zenon
  <2>3. enc[f[IntOf(i)]] # {} /\ enc[f[IntOf(i)]] \subseteq J
    BY <2>2, ListValuesEncoded
  <2> HIDE DEF n, may
  <2> QED BY <2>1, <2>3, Zenon
<1> HIDE DEF n, may
<1>4. Picks(1..n, may) # {}
  BY <1>3, PicksExist, Zenon
<1>5. ArraysOf(f, enc) # {}
  <2>1. PICK e : e \in Picks(1..n, may)
    BY <1>4
  <2> QED BY <2>1, ArraysOfIs, Zenon DEF n, may
<1>6. ASSUME NEW j \in ArraysOf(f, enc) PROVE j \in Arrays(J, 0..Highest)
  <2>1. PICK g \in Picks(1..n, may) : j = <<"arr", g>>
    BY <1>6, ArraysOfIs DEF n, may
  <2>2. g \in Seq(J) /\ Len(g) = n
    BY <1>2, <1>3, <2>1, PicksAreLists, Zenon
  <2>3. Len(g) \in 0..Highest
    BY <1>2, <2>2, Zenon
  <2> QED BY <2>1, <2>2, <2>3, ArrayIs, Zenon
<1> QED BY <1>5, <1>6, Zenon

\* The values of one name, and what objects are made of them.
LEMMA ValuesOfIs ==
  ASSUME NEW f, NEW enc, NEW n \in NamesOf(f), NEW e
  PROVE  e \in ValuesOf(f, enc)[n] <=> \E k \in Present(f) : NameOf(k) = n /\ e \in enc[f[k]]
<1> DEFINE K == {k \in Present(f) : NameOf(k) = n}
<1>1. ValuesOf(f, enc)[n] = UNION {enc[f[k]] : k \in K}
  BY Zenon DEF ValuesOf
<1>2. e \in UNION {enc[f[k]] : k \in K} <=> \E k \in K : e \in enc[f[k]]
  <2> HIDE DEF K
  <2> QED OBVIOUS
<1>3. \A k : k \in K <=> k \in Present(f) /\ NameOf(k) = n
  OBVIOUS
<1> HIDE DEF K
<1> QED BY <1>1, <1>2, <1>3, Zenon

LEMMA NamesOfIs ==
  ASSUME NEW f
  PROVE  /\ NamesOf(f) \subseteq Strings
         /\ \A n : n \in NamesOf(f) <=> \E k \in Present(f) : n = NameOf(k)
<1>1. \A n : n \in NamesOf(f) <=> \E k \in Present(f) : n = NameOf(k)
  BY DEF NamesOf
<1>2. \A k \in Present(f) : k \in Keys
  BY DEF Present
<1> QED BY <1>1, <1>2, NameIsString, Zenon

\* The object made of a choice g: its names are those of g.
Holds(o, D, g, V) ==
  /\ o \in [Strings -> V \cup {Absent}] /\ ObjectOf(g) = <<"obj", o>> /\ Names(o) = D
  /\ \A n \in D : o[n] = g[n]
  /\ \A n \in Strings : n \notin D => o[n] = Absent

LEMMA ObjectOfIs ==
  ASSUME NEW V, Absent \notin V, NEW D, D \subseteq Strings,
         NEW may, \A n \in D : may[n] \subseteq V, NEW g \in Picks(D, may)
  PROVE  \E o : Holds(o, D, g, V)
<1> DEFINE o == [n \in Strings |-> IF n \in D THEN g[n] ELSE Absent]
<1>1. g = [n \in D |-> g[n]] /\ \A n \in D : g[n] \in may[n]
  BY PicksAre, Zenon
<1>2. DOMAIN g = D /\ \A n \in D : g[n] \in V
  <2>1. DOMAIN [n \in D |-> g[n]] = D
    BY Zenon
  <2> QED BY <1>1, <2>1
<1>3. ObjectOf(g) = <<"obj", o>>
  BY <1>2, Zenon DEF ObjectOf
<1>4. o \in [Strings -> V \cup {Absent}]
  BY <1>2
<1>5. \A n \in Strings : (n \in D => o[n] = g[n]) /\ (n \notin D => o[n] = Absent)
  OBVIOUS
<1> HIDE DEF o
<1>6. Names(o) = D
  <2>1. \A n : n \in Names(o) <=> n \in Strings /\ o[n] # Absent
    BY DEF Names
  <2> QED BY <1>2, <1>5, <2>1
<1>7. Holds(o, D, g, V)
  BY <1>3, <1>4, <1>5, <1>6, Zenon DEF Holds
<1> QED BY <1>7

LEMMA ObjectsOfEncode ==
  ASSUME NEW W, NEW enc, NEW J, Encodes(W, enc, J), Absent \notin J, NEW f \in [Keys -> W \cup {Nil}],
         NEW names, NamesOf(f) \subseteq names
  PROVE  ObjectsOf(f, enc) # {} /\ ObjectsOf(f, enc) \subseteq Objects(J, names)
<1> DEFINE D == NamesOf(f)
           may == ValuesOf(f, enc)
<1>1. \A k \in Present(f) : enc[f[k]] # {} /\ enc[f[k]] \subseteq J
  <2>1. \A k \in Present(f) : f[k] \in W \cup {Nil}
    BY DEF Present
  <2> QED BY <2>1, Zenon DEF Encodes
<1>2. ASSUME NEW n \in D PROVE may[n] # {} /\ may[n] \subseteq J
  <2>1. PICK k \in Present(f) : n = NameOf(k)
    BY NamesOfIs, Zenon
  <2>2. PICK e : e \in enc[f[k]]
    BY <1>1, <2>1
  <2>3. \A x : x \in may[n] <=> \E l \in Present(f) : NameOf(l) = n /\ x \in enc[f[l]]
    BY ValuesOfIs
  <2> HIDE DEF may, D
  <2>4. e \in may[n]
    BY <2>1, <2>2, <2>3, Zenon
  <2>5. ASSUME NEW x \in may[n] PROVE x \in J
    <3>1. PICK l \in Present(f) : x \in enc[f[l]]
      BY <2>3, Zenon
    <3> QED BY <1>1, <3>1
  <2> QED BY <2>4, <2>5
<1>3. D \subseteq Strings /\ D \subseteq names
  BY NamesOfIs, Zenon
<1> HIDE DEF D, may
<1>4. ObjectsOf(f, enc) = {ObjectOf(g) : g \in Picks(D, may)}
  BY Zenon DEF ObjectsOf, D, may
<1>5. Picks(D, may) # {}
  BY <1>2, PicksExist, Zenon
<1>6. ObjectsOf(f, enc) # {}
  BY <1>4, <1>5
<1>7. ASSUME NEW j \in ObjectsOf(f, enc) PROVE j \in Objects(J, names)
  <2>1. PICK h \in Picks(D, may) : j = ObjectOf(h)
    BY <1>4
  <2>2. PICK o : Holds(o, D, h, J)
    BY <1>2, <1>3, <2>1, ObjectOfIs
  <2>3. o \in [Strings -> J \cup {Absent}] /\ j = <<"obj", o>> /\ Names(o) \subseteq names
    BY <1>3, <2>1, <2>2, Zenon DEF Holds
  <2> QED BY <2>3, ObjectIs
<1> QED BY <1>6, <1>7, Zenon

LEMMA TablesEncode ==
  ASSUME NEW W, NEW enc, NEW J, Encodes(W, enc, J), Absent \notin J, NEW f \in [Keys -> W \cup {Nil}],
         NEW names, ~ListLike(f) => NamesOf(f) \subseteq names
  PROVE  /\ EncodingsOf(<<"tbl", f>>, enc) # {}
         /\ EncodingsOf(<<"tbl", f>>, enc) \subseteq Arrays(J, 0..Highest) \cup Objects(J, names)
<1>1. CASE ListLike(f)
  <2>1. ArraysOf(f, enc) # {} /\ ArraysOf(f, enc) \subseteq Arrays(J, 0..Highest)
    BY <1>1, ArraysOfEncode
  <2>2. EncodingsOf(<<"tbl", f>>, enc) = ArraysOf(f, enc)
    BY <1>1, TableEncodings, Zenon
  <2> QED BY <2>1, <2>2
<1>2. CASE ~ListLike(f)
  <2>1. ObjectsOf(f, enc) # {} /\ ObjectsOf(f, enc) \subseteq Objects(J, names)
    BY <1>2, ObjectsOfEncode
  <2>2. EncodingsOf(<<"tbl", f>>, enc) = ObjectsOf(f, enc)
    BY <1>2, TableEncodings, Zenon
  <2> QED BY <2>1, <2>2
<1> QED BY <1>1, <1>2

-----------------------------------------------------------------------------
(* One level of the decoders: their results are Lua values or nil.         *)

LEMMA TagsDiffer ==
  /\ "int" \notin {"null", "str", "arr", "obj", "other"} /\ "str" \notin {"null", "arr", "obj", "other"}
  /\ "arr" \notin {"null", "obj", "other"} /\ "obj" \notin {"null", "other"} /\ "other" # "null"
OBVIOUS

LEMMA PushNull ==
  ASSUME NEW whole, NEW pushed
  PROVE  PushOf(Null, whole, pushed) = Nil
<1>1. Null[1] \notin {"int", "str", "arr", "obj", "other"}
  BY DEF Null
<1> QED BY <1>1, Zenon DEF PushOf

LEMMA PushInt ==
  ASSUME NEW whole, NEW pushed, NEW n
  PROVE  PushOf(IntOf(n), whole, pushed) = IntOf(Wrapped(n))
<1>1. IntOf(n)[1] = "int" /\ IntOf(n)[2] = n /\ IntOf(n) # Null
  BY TagsDiffer, MarksDiffer, Zenon
<1> QED BY <1>1, TagsDiffer, Zenon DEF PushOf

LEMMA PushStr ==
  ASSUME NEW pushed, NEW s
  PROVE  PushOf(StrOf(s), TRUE, pushed) = StrOf(s) /\ PushOf(StrOf(s), FALSE, pushed) = StrOf(CStr[s])
<1>1. StrOf(s)[1] = "str" /\ StrOf(s)[2] = s /\ StrOf(s) # Null
  BY TagsDiffer, MarksDiffer, Zenon
<1> QED BY <1>1, TagsDiffer, Zenon DEF PushOf

LEMMA PushOther ==
  ASSUME NEW whole, NEW pushed, NEW x
  PROVE  PushOf(<<"other", x>>, whole, pushed) = <<"other", x>>
<1> DEFINE j == <<"other", x>>
<1>1. j[1] = "other"
  OBVIOUS
<1> HIDE DEF j
<1>2. j # Null
  BY <1>1, TagsDiffer, MarksDiffer, Zenon
<1>3. PushOf(j, whole, pushed) = j
  BY <1>1, <1>2, TagsDiffer, Zenon DEF PushOf
<1> QED BY <1>3, Zenon DEF j

LEMMA PushArray ==
  ASSUME NEW whole, NEW pushed, NEW a
  PROVE  PushOf(<<"arr", a>>, whole, pushed) = <<"tbl", ArrayAsTable(a, whole, pushed)>>
<1> DEFINE j == <<"arr", a>>
<1>1. j[1] = "arr" /\ j[2] = a /\ j # Null
  BY CompoundKinds, Zenon
<1> HIDE DEF j
<1>2. PushOf(j, whole, pushed) = <<"tbl", ArrayAsTable(a, whole, pushed)>>
  BY <1>1, TagsDiffer, Zenon DEF PushOf
<1> QED BY <1>2, Zenon DEF j

LEMMA PushObject ==
  ASSUME NEW whole, NEW pushed, NEW o
  PROVE  PushOf(<<"obj", o>>, whole, pushed) = <<"tbl", ObjectAsTable(o, pushed)>>
<1> DEFINE j == <<"obj", o>>
<1>1. j[1] = "obj" /\ j[2] = o /\ j # Null
  BY CompoundKinds, Zenon
<1> HIDE DEF j
<1>2. PushOf(j, whole, pushed) = <<"tbl", ObjectAsTable(o, pushed)>>
  BY <1>1, TagsDiffer, Zenon DEF PushOf
<1> QED BY <1>2, Zenon DEF j

\* The entries of the table made of an array, and of the one made of an object.
ListEntries(f, a, pushed) ==
  /\ f = [k \in Keys |-> f[k]]
  /\ \A k \in Keys : f[k] = IF k[1] = "int" /\ k[2] \in 1..Len(a) THEN pushed[a[k[2]]] ELSE Nil
NamedEntries(f, o, pushed) ==
  /\ f = [k \in Keys |-> f[k]]
  /\ \A k \in Keys :
       f[k] = IF k[1] = "str" /\ CutTo(o, k[2]) # {} THEN pushed[o[LastName(CutTo(o, k[2]))]] ELSE Nil

LEMMA ArrayAsTableIs ==
  ASSUME NEW V, NEW a \in Seq(V), NEW whole, NEW pushed
  PROVE  ListEntries(ArrayAsTable(a, whole, pushed), a, pushed)
<1> DEFINE f == ArrayAsTable(a, whole, pushed)
           i(k) == k[2] + 1 - FirstIndex(whole)
<1>1. f = [k \in Keys |-> IF k[1] = "int" /\ i(k) \in DOMAIN a THEN pushed[a[i(k)]] ELSE Nil]
  BY Zenon DEF ArrayAsTable
<1>2. DOMAIN a = 1..Len(a)
  OBVIOUS
<1> HIDE DEF f
<1>3. ASSUME NEW k \in Keys
      PROVE  f[k] = IF k[1] = "int" /\ k[2] \in 1..Len(a) THEN pushed[a[k[2]]] ELSE Nil
  <2>1. f[k] = IF k[1] = "int" /\ i(k) \in DOMAIN a THEN pushed[a[i(k)]] ELSE Nil
    BY <1>1, Zenon
  <2>2. CASE k[1] = "int"
    <3>1. k[2] \in Int
      <4>1. k[2] \in Lowest..Highest
        BY <2>2, KeyIs, Zenon
      <4> QED BY <4>1
    <3>2. i(k) = k[2]
      BY <3>1 DEF FirstIndex
    <3> HIDE DEF i
    <3> QED BY <1>2, <2>1, <2>2, <3>2, Zenon
  <2>3. CASE k[1] # "int"
    <3> HIDE DEF i
    <3> QED BY <2>1, <2>3, Zenon
  <2> QED BY <2>2, <2>3
<1>4. f = [k \in Keys |-> f[k]]
  <2> DEFINE e(k) == IF k[1] = "int" /\ i(k) \in DOMAIN a THEN pushed[a[i(k)]] ELSE Nil
  <2>1. f = [k \in Keys |-> e(k)]
    BY <1>1, Zenon
  <2> HIDE DEF e
  <2> QED BY <2>1
<1> QED BY <1>3, <1>4, Zenon DEF ListEntries, f

LEMMA ObjectAsTableIs ==
  ASSUME NEW o, NEW pushed
  PROVE  NamedEntries(ObjectAsTable(o, pushed), o, pushed)
<1> DEFINE f == ObjectAsTable(o, pushed)
           e(k) == IF k[1] = "str" /\ CutTo(o, k[2]) # {} THEN pushed[o[LastName(CutTo(o, k[2]))]] ELSE Nil
<1>1. f = [k \in Keys |-> e(k)]
  BY Zenon DEF ObjectAsTable
<1> HIDE DEF f
<1>2. \A k \in Keys : f[k] = e(k)
  BY <1>1, Zenon
<1>3. f = [k \in Keys |-> f[k]]
  <2> HIDE DEF e
  <2> QED BY <1>1
<1> QED BY <1>2, <1>3, Zenon DEF NamedEntries, f

\* What pushed gives for the documents in J are values in W, or nil.
Pushes(J, pushed, W) == \A e \in J : pushed[e] \in W \cup {Nil}

LEMMA ArraysArePushed ==
  ASSUME NEW W, NEW J, NEW pushed, Pushes(J, pushed, W), NEW whole, NEW a \in Seq(J)
  PROVE  ArrayAsTable(a, whole, pushed) \in [Keys -> W \cup {Nil}]
<1> DEFINE f == ArrayAsTable(a, whole, pushed)
<1>1. f = [k \in Keys |-> f[k]] /\ \A k \in Keys : f[k] =
        IF k[1] = "int" /\ k[2] \in 1..Len(a) THEN pushed[a[k[2]]] ELSE Nil
  <2>1. ListEntries(f, a, pushed)
    BY ArrayAsTableIs
  <2> QED BY <2>1, Zenon DEF ListEntries
<1> HIDE DEF f
<1>2. \A i \in 1..Len(a) : a[i] \in J
  OBVIOUS
<1>3. \A i \in 1..Len(a) : pushed[a[i]] \in W \cup {Nil}
  BY <1>2, Zenon DEF Pushes
<1>4. \A k \in Keys : f[k] \in W \cup {Nil}
  BY <1>1, <1>3
<1>5. f \in [Keys -> W \cup {Nil}]
  BY <1>1, <1>4
<1> QED BY <1>5, Zenon DEF f

LEMMA ObjectsArePushed ==
  ASSUME NEW W, NEW J, NEW pushed, Pushes(J, pushed, W), NEW o \in [Strings -> J \cup {Absent}]
  PROVE  ObjectAsTable(o, pushed) \in [Keys -> W \cup {Nil}]
<1> DEFINE f == ObjectAsTable(o, pushed)
<1>1. /\ f = [k \in Keys |-> f[k]]
      /\ \A k \in Keys : f[k] = IF k[1] = "str" /\ CutTo(o, k[2]) # {}
                                THEN pushed[o[LastName(CutTo(o, k[2]))]] ELSE Nil
  BY ObjectAsTableIs, Zenon DEF NamedEntries
<1> HIDE DEF f
<1>2. ASSUME NEW s, CutTo(o, s) # {} PROVE pushed[o[LastName(CutTo(o, s))]] \in W \cup {Nil}
  <2>1. CutTo(o, s) \subseteq Strings /\ \A n \in CutTo(o, s) : o[n] # Absent
    BY DEF CutTo, Names
  <2>2. LastName(CutTo(o, s)) \in CutTo(o, s)
    BY <1>2, <2>1, LastNameIs, Zenon
  <2>3. o[LastName(CutTo(o, s))] \in J
    BY <2>1, <2>2
  <2> QED BY <2>3, Zenon DEF Pushes
<1>3. \A k \in Keys : f[k] \in W \cup {Nil}
  BY <1>1, <1>2
<1>4. f \in [Keys -> W \cup {Nil}]
  BY <1>1, <1>3
<1> QED BY <1>4, Zenon DEF f

LEMMA WrappedFits ==
  /\ \A n \in JsonInts : Wrapped(n) \in LuaInts
  /\ \A n \in LuaInts : Wrapped(n) = n
BY BoundsAre DEF JsonInts, LuaInts, Wrapped

LuaAtoms == ScalarsOver(LuaInts, Strings, Others) \cup {Opaque}
JsonAtoms == ScalarsOver(JsonInts, Utf8, Finite) \cup {Null}
BuiltAtoms == ScalarsOver(LuaInts, Strings, Others) \cup {Null}

LEMMA AtomsArePushed ==
  ASSUME NEW whole \in BOOLEAN, NEW pushed, NEW j \in JsonAtoms
  PROVE  PushOf(j, whole, pushed) \in LuaAtoms \cup {Nil}
<1>1. CASE j = Null
  BY <1>1, PushNull
<1>2. CASE j \in ScalarsOver(JsonInts, Utf8, Finite)
  <2>1. PushOf(j, whole, pushed) \in ScalarsOver(LuaInts, Strings, Others)
    <3>1. ASSUME NEW n \in JsonInts PROVE PushOf(IntOf(n), whole, pushed) \in ScalarsOver(LuaInts, Strings, Others)
      <4>1. PushOf(IntOf(n), whole, pushed) = IntOf(Wrapped(n))
        BY PushInt, Zenon
      <4>2. Wrapped(n) \in LuaInts
        BY WrappedFits, Zenon
      <4> QED BY <4>1, <4>2, ScalarIs
    <3>2. ASSUME NEW s \in Utf8 PROVE PushOf(StrOf(s), whole, pushed) \in ScalarsOver(LuaInts, Strings, Others)
      <4>1. s \in Strings /\ CStr[s] \in Strings
        BY JsonAssumption
      <4>2. PushOf(StrOf(s), TRUE, pushed) = StrOf(s) /\ PushOf(StrOf(s), FALSE, pushed) = StrOf(CStr[s])
        BY PushStr, Zenon
      <4>3. StrOf(s) \in ScalarsOver(LuaInts, Strings, Others) /\ StrOf(CStr[s]) \in ScalarsOver(LuaInts, Strings, Others)
        BY <4>1, ScalarIs
      <4> QED BY <4>2, <4>3
    <3>3. ASSUME NEW x \in Finite
           PROVE PushOf(<<"other", x>>, whole, pushed) \in ScalarsOver(LuaInts, Strings, Others)
      <4>1. PushOf(<<"other", x>>, whole, pushed) = <<"other", x>>
        BY PushOther, Zenon
      <4>2. x \in Others
        BY JsonAssumption
      <4> QED BY <4>1, <4>2, ScalarIs
    <3> QED BY <1>2, <3>1, <3>2, <3>3, ScalarIs
  <2> QED BY <2>1 DEF LuaAtoms
<1> QED BY <1>1, <1>2 DEF JsonAtoms
-----------------------------------------------------------------------------
(* Types, level by level.                                                  *)

LEMMA LuaIs ==
  /\ Lua[0] = LuaAtoms
  /\ \A d \in 1..Depth : Lua[d] = LuaAtoms \cup Tables(Lua[d - 1], SUBSET Keys)
BY LuaLevels, Zenon DEF Lua, LuaAtoms

LEMMA JsonIs ==
  /\ Json[0] = JsonAtoms
  /\ \A d \in 1..Depth :
       Json[d] = JsonAtoms \cup Arrays(Json[d - 1], 0..Highest) \cup Objects(Json[d - 1], Utf8)
<1> DEFINE L == JsonOver(JsonAtoms, Utf8, 0..Highest)
<1>1. Json = L
  BY Zenon DEF Json, JsonAtoms
<1>2. /\ L[0] = JsonAtoms
      /\ \A d \in 1..Depth : L[d] = JsonAtoms \cup Arrays(L[d - 1], 0..Highest)
                      \cup Objects(L[d - 1], Utf8)
  BY JsonLevels
<1> HIDE DEF L
<1> QED BY <1>1, <1>2

LEMMA BuiltIs ==
  /\ Built[0] = BuiltAtoms
  /\ \A d \in 1..Depth :
       Built[d] = BuiltAtoms \cup Arrays(Built[d - 1], 0..Highest) \cup Objects(Built[d - 1], Strings)
<1> DEFINE L == JsonOver(BuiltAtoms, Strings, 0..Highest)
<1>1. Built = L
  BY Zenon DEF Built, BuiltAtoms
<1>2. /\ L[0] = BuiltAtoms
      /\ \A d \in 1..Depth : L[d] = BuiltAtoms \cup Arrays(L[d - 1], 0..Highest)
                      \cup Objects(L[d - 1], Strings)
  BY JsonLevels
<1> HIDE DEF L
<1> QED BY <1>1, <1>2

LEMMA MarksAreNoScalars ==
  \A ints, strings, others :
    {Nil, Null, Absent, Opaque, Thrown} \cap ScalarsOver(ints, strings, others) = {}
<1> TAKE ints, strings, others
<1>1. ASSUME NEW v \in ScalarsOver(ints, strings, others)
      PROVE  v \notin {Nil, Null, Absent, Opaque} /\ v # Thrown
  <2>1. v \notin {Nil, Null, Absent, Opaque} /\ v[1] \in Kinds
    BY ScalarKinds, Zenon
  <2>2. Thrown[1] \notin Kinds
    BY DEF Thrown, Kinds
  <2> QED BY <2>1, <2>2, Zenon
<1> QED BY <1>1

LEMMA AtomsAreNone ==
  /\ Nil \notin LuaAtoms
  /\ Absent \notin JsonAtoms /\ Absent \notin BuiltAtoms
  /\ Thrown \notin JsonAtoms /\ Thrown \notin BuiltAtoms
<1>1. Nil # Opaque /\ Absent # Null /\ Thrown # Null
  <2>1. "nil" # "fun" /\ "absent" # "null" /\ Thrown[1] # "null"
    BY DEF Thrown
  <2> QED BY <2>1, MarksDiffer, Zenon
<1>2. \A ints, strings, others :
        /\ Nil \notin ScalarsOver(ints, strings, others)
        /\ Absent \notin ScalarsOver(ints, strings, others)
        /\ Thrown \notin ScalarsOver(ints, strings, others)
  BY MarksAreNoScalars
<1> QED BY <1>1, <1>2 DEF LuaAtoms, JsonAtoms, BuiltAtoms

\* Nil is no value of a table.
LEMMA NilIsNoValue == \A d \in 0..Depth : Nil \notin Lua[d]
<1> TAKE d \in 0..Depth
<1>1. CASE d = 0
  BY <1>1, LuaIs, AtomsAreNone, Zenon
<1>2. CASE d # 0
  <2>1. d \in 1..Depth
    BY <1>2, DepthIs
  <2>2. \A V, shapes : Nil \notin Tables(V, shapes)
    BY TableIs, CompoundKinds
  <2>3. Nil \notin Tables(Lua[d - 1], SUBSET Keys)
    BY <2>2, Zenon
  <2>4. Lua[d] = LuaAtoms \cup Tables(Lua[d - 1], SUBSET Keys)
    BY <2>1, LuaIs, Zenon
  <2> QED BY <2>3, <2>4, AtomsAreNone
<1> QED BY <1>1, <1>2

\* Absent is no value of an object, and Thrown no value at all.
LEMMA NoneAmongDocuments ==
  ASSUME NEW atoms, NEW names, NEW lengths, Absent \notin atoms, Thrown \notin atoms
  PROVE  \A d \in 0..Depth : /\ Absent \notin JsonOver(atoms, names, lengths)[d]
                             /\ Thrown \notin JsonOver(atoms, names, lengths)[d]
<1> DEFINE L == JsonOver(atoms, names, lengths)
<1>1. /\ L[0] = atoms
      /\ \A d \in 1..Depth : L[d] = atoms \cup Arrays(L[d - 1], lengths) \cup Objects(L[d - 1], names)
  BY JsonLevels
<1> HIDE DEF L
<1>2. \A x : <<"arr", x>> \notin {Absent, Thrown} /\ <<"obj", x>> \notin {Absent, Thrown}
  <2> TAKE x
  <2>1. Thrown[1] \notin {"arr", "obj"}
    BY DEF Thrown
  <2>2. <<"arr", x>>[1] = "arr" /\ <<"obj", x>>[1] = "obj" /\ <<"arr", x>> # Absent /\ <<"obj", x>> # Absent
    BY CompoundKinds, Zenon
  <2>3. <<"arr", x>> # Thrown /\ <<"obj", x>> # Thrown
    BY <2>1, <2>2, Zenon
  <2> QED BY <2>2, <2>3, Zenon
<1>3. ASSUME NEW V
      PROVE  {Absent, Thrown} \cap (Arrays(V, lengths) \cup Objects(V, names)) = {}
  <2>1. \A v \in Arrays(V, lengths) : v \notin {Absent, Thrown}
    BY <1>2, ArrayIs
  <2>2. \A v \in Objects(V, names) : v \notin {Absent, Thrown}
    BY <1>2, ObjectIs
  <2> QED BY <2>1, <2>2
<1>4. ASSUME NEW d \in 0..Depth PROVE Absent \notin L[d] /\ Thrown \notin L[d]
  <2>1. d = 0 \/ d \in 1..Depth
    BY DepthIs
  <2> QED BY <1>1, <1>3, <2>1
<1> QED BY <1>4 DEF L

LEMMA NoneIsNoValue ==
  \A d \in 0..Depth : /\ Nil \notin Lua[d]
                      /\ Absent \notin Json[d] /\ Thrown \notin Json[d]
                      /\ Absent \notin Built[d] /\ Thrown \notin Built[d]
<1>1. \A d \in 0..Depth : Absent \notin Json[d] /\ Thrown \notin Json[d]
  <2>1. Json = JsonOver(JsonAtoms, Utf8, 0..Highest)
    BY Zenon DEF Json, JsonAtoms
  <2> QED BY <2>1, AtomsAreNone, NoneAmongDocuments
<1>2. \A d \in 0..Depth : Absent \notin Built[d] /\ Thrown \notin Built[d]
  <2>1. Built = JsonOver(BuiltAtoms, Strings, 0..Highest)
    BY Zenon DEF Built, BuiltAtoms
  <2> QED BY <2>1, AtomsAreNone, NoneAmongDocuments
<1> QED BY <1>1, <1>2, NilIsNoValue, Zenon

LEMMA AtomsEncode ==
  ASSUME NEW enc, NEW v \in LuaAtoms \cup {Nil}
  PROVE  EncodingsOf(v, enc) # {} /\ EncodingsOf(v, enc) \subseteq BuiltAtoms
<1>1. CASE v \in {Nil, Opaque}
  <2>1. EncodingsOf(v, enc) = {Null}
    BY <1>1, ScalarEncodings, Zenon
  <2> QED BY <2>1 DEF BuiltAtoms
<1>2. CASE v \in ScalarsOver(LuaInts, Strings, Others)
  <2>1. EncodingsOf(v, enc) = {v}
    BY <1>2, ScalarEncodings, Zenon
  <2> QED BY <1>2, <2>1 DEF BuiltAtoms
<1> QED BY <1>1, <1>2 DEF LuaAtoms

\* Whatever is encoded becomes a value that nlohmann can hold, one at least.
LEMMA EncodeTypes == \A d \in 0..Depth : Encodes(Lua[d], LuaToJson[d], Built[d])
<1> DEFINE Good == {d \in 0..Depth : Encodes(Lua[d], LuaToJson[d], Built[d])}
<1>1. 0 \in Good
  <2>1. ASSUME NEW v \in Lua[0] \cup {Nil} PROVE LuaToJson[0][v] # {} /\ LuaToJson[0][v] \subseteq Built[0]
    <3>1. LuaToJson[0][v] = EncodingsOf(v, Below(LuaToJson, 0))
      BY EncodeLevels, DepthIs, Zenon
    <3>2. v \in LuaAtoms \cup {Nil} /\ Built[0] = BuiltAtoms
      BY LuaIs, BuiltIs
    <3> QED BY <3>1, <3>2, AtomsEncode, Zenon
  <2> QED BY <2>1, DepthIs, Zenon DEF Encodes
<1>2. ASSUME NEW d \in 1..Depth, d - 1 \in Good PROVE d \in Good
  <2> DEFINE W == Lua[d - 1]
             J == Built[d - 1]
             enc == LuaToJson[d - 1]
  <2>1. Encodes(W, enc, J) /\ Absent \notin J /\ d \in 0..Depth /\ d # 0
    BY <1>2, NoneIsNoValue, DepthIs, Zenon
  <2>2. Lua[d] = LuaAtoms \cup Tables(W, SUBSET Keys)
    BY LuaIs, Zenon
  <2>3. Built[d] = BuiltAtoms \cup Arrays(J, 0..Highest) \cup Objects(J, Strings)
    BY BuiltIs, Zenon
  <2>4. \A v \in Lua[d] \cup {Nil} : LuaToJson[d][v] = EncodingsOf(v, enc)
    BY <2>1, EncodeLevels, Zenon DEF Below
  <2> HIDE DEF W, J, enc
  <2>5. ASSUME NEW v \in Lua[d] \cup {Nil} PROVE LuaToJson[d][v] # {} /\ LuaToJson[d][v] \subseteq Built[d]
    <3>1. CASE v \in LuaAtoms \cup {Nil}
      <4>1. EncodingsOf(v, enc) # {} /\ EncodingsOf(v, enc) \subseteq BuiltAtoms
        BY <3>1, AtomsEncode, Zenon
      <4> QED BY <2>3, <2>4, <4>1
    <3>2. CASE v \in Tables(W, SUBSET Keys)
      <4>1. PICK f \in [Keys -> W \cup {Nil}] : v = <<"tbl", f>>
        BY <3>2, TableIs
      <4>2. /\ EncodingsOf(<<"tbl", f>>, enc) # {}
            /\ EncodingsOf(<<"tbl", f>>, enc) \subseteq Arrays(J, 0..Highest) \cup Objects(J, Strings)
        <5>1. NamesOf(f) \subseteq Strings
          BY NamesOfIs, Zenon
        <5> QED BY <2>1, <5>1, TablesEncode
      <4>3. LuaToJson[d][v] = EncodingsOf(<<"tbl", f>>, enc)
        BY <2>4, <4>1, Zenon
      <4> QED BY <2>3, <4>2, <4>3
    <3> QED BY <2>2, <3>1, <3>2
  <2> QED BY <2>1, <2>5, Zenon DEF Encodes
<1>3. \A d \in 0..Depth : d \in Good
  <2> HIDE DEF Good
  <2> QED BY <1>1, <1>2, DepthIs, Upwards
<1> QED BY <1>3, Zenon

\* Whatever is decoded becomes a Lua value or nil.
LEMMA PushTypes ==
  ASSUME NEW whole \in BOOLEAN
  PROVE  \A d \in 0..Depth : Pushes(Json[d], Push(whole)[d], Lua[d])
<1> DEFINE Good == {d \in 0..Depth : Pushes(Json[d], Push(whole)[d], Lua[d])}
<1>1. 0 \in Good
  <2>1. ASSUME NEW j \in Json[0] PROVE Push(whole)[0][j] \in Lua[0] \cup {Nil}
    <3>1. Push(whole)[0][j] = PushOf(j, whole, Below(Push(whole), 0))
      BY PushLevels, DepthIs, Zenon
    <3>2. j \in JsonAtoms /\ Lua[0] = LuaAtoms
      BY LuaIs, JsonIs, Zenon
    <3>3. PushOf(j, whole, Below(Push(whole), 0)) \in LuaAtoms \cup {Nil}
      BY <3>2, AtomsArePushed
    <3> QED BY <3>1, <3>2, <3>3
  <2> QED BY <2>1, DepthIs, Zenon DEF Pushes
<1>2. ASSUME NEW d \in 1..Depth, d - 1 \in Good PROVE d \in Good
  <2> DEFINE W == Lua[d - 1]
             J == Json[d - 1]
             pushed == Push(whole)[d - 1]
  <2>1. Pushes(J, pushed, W) /\ d \in 0..Depth /\ d # 0
    BY <1>2, DepthIs, Zenon
  <2>2. Lua[d] = LuaAtoms \cup Tables(W, SUBSET Keys)
    BY LuaIs, Zenon
  <2>3. Json[d] = JsonAtoms \cup Arrays(J, 0..Highest) \cup Objects(J, Utf8)
    BY JsonIs, Zenon
  <2>4. \A j \in Json[d] : Push(whole)[d][j] = PushOf(j, whole, pushed)
    BY <2>1, PushLevels, Zenon DEF Below
  <2>5. \A f \in [Keys -> W \cup {Nil}] : <<"tbl", f>> \in Lua[d]
    <3>1. ASSUME NEW f \in [Keys -> W \cup {Nil}] PROVE <<"tbl", f>> \in Tables(W, SUBSET Keys)
      <4>1. Present(f) \subseteq Keys
        BY DEF Present
      <4> QED BY <4>1, TableIs
    <3> HIDE DEF W
    <3> QED BY <2>2, <3>1
  <2> HIDE DEF W, J, pushed
  <2>6. ASSUME NEW j \in Json[d] PROVE Push(whole)[d][j] \in Lua[d] \cup {Nil}
    <3>1. CASE j \in JsonAtoms
      <4>1. PushOf(j, whole, pushed) \in LuaAtoms \cup {Nil}
        BY <3>1, AtomsArePushed
      <4> QED BY <2>2, <2>4, <4>1
    <3>2. CASE j \in Arrays(J, 0..Highest)
      <4>1. PICK a \in Seq(J) : j = <<"arr", a>>
        BY <3>2, ArrayIs
      <4>2. ArrayAsTable(a, whole, pushed) \in [Keys -> W \cup {Nil}]
        BY <2>1, ArraysArePushed
      <4>3. Push(whole)[d][j] = <<"tbl", ArrayAsTable(a, whole, pushed)>>
        <5>1. PushOf(<<"arr", a>>, whole, pushed) = <<"tbl", ArrayAsTable(a, whole, pushed)>>
          BY PushArray, Zenon
        <5> QED BY <2>4, <4>1, <5>1, Zenon
      <4> QED BY <2>5, <4>2, <4>3
    <3>3. CASE j \in Objects(J, Utf8)
      <4>1. PICK o \in [Strings -> J \cup {Absent}] : j = <<"obj", o>>
        BY <3>3, ObjectIs
      <4>2. ObjectAsTable(o, pushed) \in [Keys -> W \cup {Nil}]
        BY <2>1, ObjectsArePushed
      <4>3. Push(whole)[d][j] = <<"tbl", ObjectAsTable(o, pushed)>>
        <5>1. PushOf(<<"obj", o>>, whole, pushed) = <<"tbl", ObjectAsTable(o, pushed)>>
          BY PushObject, Zenon
        <5> QED BY <2>4, <4>1, <5>1, Zenon
      <4> QED BY <2>5, <4>2, <4>3
    <3> QED BY <2>3, <3>1, <3>2, <3>3
  <2> QED BY <2>1, <2>6, Zenon DEF Pushes
<1>3. \A d \in 0..Depth : d \in Good
  <2> HIDE DEF Good
  <2> QED BY <1>1, <1>2, DepthIs, Upwards
<1> QED BY <1>3, Zenon
\* Fewer parts, names and lengths make fewer arrays and objects.
LEMMA FewerDocuments ==
  ASSUME NEW A, NEW B, A \subseteq B, NEW names, NEW more, names \subseteq more,
         NEW lengths, NEW longer, lengths \subseteq longer
  PROVE  Arrays(A, lengths) \subseteq Arrays(B, longer) /\ Objects(A, names) \subseteq Objects(B, more)
<1>1. ASSUME NEW j \in Arrays(A, lengths) PROVE j \in Arrays(B, longer)
  <2>1. PICK a \in Seq(A) : j = <<"arr", a>> /\ Len(a) \in lengths
    BY ArrayIs
  <2>2. a \in Seq(B) /\ Len(a) \in longer
    BY <2>1
  <2> QED BY <2>1, <2>2, ArrayIs
<1>2. ASSUME NEW j \in Objects(A, names) PROVE j \in Objects(B, more)
  <2>1. PICK o \in [Strings -> A \cup {Absent}] : j = <<"obj", o>> /\ Names(o) \subseteq names
    BY ObjectIs
  <2>2. o \in [Strings -> B \cup {Absent}] /\ Names(o) \subseteq more
    BY <2>1
  <2> QED BY <2>1, <2>2, ObjectIs
<1> QED BY <1>1, <1>2

\* So they do at every depth.
LEMMA DocumentsGrow ==
  ASSUME NEW A, NEW B, A \subseteq B, NEW names, NEW more, names \subseteq more,
         NEW lengths, NEW longer, lengths \subseteq longer
  PROVE  \A d \in 0..Depth : JsonOver(A, names, lengths)[d] \subseteq JsonOver(B, more, longer)[d]
<1> DEFINE L == JsonOver(A, names, lengths)
           M == JsonOver(B, more, longer)
           Good == {d \in 0..Depth : L[d] \subseteq M[d]}
<1>1. L[0] = A /\ \A d \in 1..Depth : L[d] = A \cup Arrays(L[d - 1], lengths) \cup Objects(L[d - 1], names)
  BY JsonLevels
<1>2. M[0] = B /\ \A d \in 1..Depth : M[d] = B \cup Arrays(M[d - 1], longer) \cup Objects(M[d - 1], more)
  BY JsonLevels
<1> HIDE DEF L, M
<1>3. 0 \in Good
  BY <1>1, <1>2, DepthIs, Zenon
<1>4. ASSUME NEW d \in 1..Depth, d - 1 \in Good PROVE d \in Good
  <2>1. L[d - 1] \subseteq M[d - 1] /\ d \in 0..Depth
    BY <1>4, DepthIs, Zenon
  <2>2. /\ Arrays(L[d - 1], lengths) \subseteq Arrays(M[d - 1], longer)
        /\ Objects(L[d - 1], names) \subseteq Objects(M[d - 1], more)
    <3> DEFINE V == L[d - 1]
               W == M[d - 1]
    <3>1. V \subseteq W
      BY <2>1
    <3> HIDE DEF V, W
    <3>2. Arrays(V, lengths) \subseteq Arrays(W, longer) /\ Objects(V, names) \subseteq Objects(W, more)
      BY <3>1, FewerDocuments
    <3> QED BY <3>2, Zenon DEF V, W
  <2>3. L[d] \subseteq M[d]
    BY <1>1, <1>2, <2>2
  <2> QED BY <2>1, <2>3, Zenon
<1>5. \A d \in 0..Depth : d \in Good
  <2> HIDE DEF Good
  <2> QED BY <1>3, <1>4, DepthIs, Upwards
<1> QED BY <1>5, Zenon DEF L, M

-----------------------------------------------------------------------------
(* The text of what was built.                                             *)

LEMMA TextNull ==
  ASSUME NEW said
  PROVE  TextOf(Null, said) = Null
<1>1. Null[1] \notin {"int", "str", "arr", "obj", "other"}
  BY DEF Null
<1> QED BY <1>1, Zenon DEF TextOf

LEMMA TextScalar ==
  ASSUME NEW said, NEW ints, NEW strings, NEW others, NEW j \in ScalarsOver(ints, strings, others)
  PROVE  /\ j[1] = "int" => TextOf(j, said) = j
         /\ j[1] = "str" => TextOf(j, said) = IF j[2] \in Utf8 THEN j ELSE Thrown
         /\ j[1] = "other" => TextOf(j, said) = IF j[2] \in Finite THEN j ELSE Null
<1>1. j # Null
  BY ScalarKinds, Zenon
<1> QED BY <1>1, TagsDiffer, Zenon DEF TextOf

LEMMA TextArray ==
  ASSUME NEW said, NEW a
  PROVE  TextOf(<<"arr", a>>, said) =
           IF \E i \in DOMAIN a : said[a[i]] = Thrown THEN Thrown
           ELSE <<"arr", [i \in DOMAIN a |-> said[a[i]]]>>
<1> DEFINE j == <<"arr", a>>
<1>1. j[1] = "arr" /\ j[2] = a /\ j # Null
  BY CompoundKinds, Zenon
<1> HIDE DEF j
<1>2. TextOf(j, said) = IF \E i \in DOMAIN j[2] : said[j[2][i]] = Thrown THEN Thrown
                        ELSE <<"arr", [i \in DOMAIN j[2] |-> said[j[2][i]]]>>
  BY <1>1, TagsDiffer, Zenon DEF TextOf
<1>3. TextOf(j, said) = IF \E i \in DOMAIN a : said[a[i]] = Thrown THEN Thrown
                        ELSE <<"arr", [i \in DOMAIN a |-> said[a[i]]]>>
  BY <1>1, <1>2
<1> QED BY <1>3, Zenon DEF j

LEMMA TextObject ==
  ASSUME NEW said, NEW o
  PROVE  TextOf(<<"obj", o>>, said) =
           IF \E n \in Names(o) : n \notin Utf8 \/ said[o[n]] = Thrown THEN Thrown
           ELSE ObjectOf([n \in Names(o) |-> said[o[n]]])
<1> DEFINE j == <<"obj", o>>
<1>1. j[1] = "obj" /\ j[2] = o /\ j # Null
  BY CompoundKinds, Zenon
<1> HIDE DEF j
<1>2. TextOf(j, said) = IF \E n \in Names(j[2]) : n \notin Utf8 \/ said[j[2][n]] = Thrown THEN Thrown
                        ELSE ObjectOf([n \in Names(j[2]) |-> said[j[2][n]]])
  BY <1>1, TagsDiffer, Zenon DEF TextOf
<1>3. TextOf(j, said) = IF \E n \in Names(o) : n \notin Utf8 \/ said[o[n]] = Thrown THEN Thrown
                        ELSE ObjectOf([n \in Names(o) |-> said[o[n]]])
  BY <1>1, <1>2
<1> QED BY <1>3, Zenon DEF j

\* The object with the names in D and the values that g gives them.
LEMMA ObjectFrom ==
  ASSUME NEW V, Absent \notin V, NEW D, D \subseteq Strings, NEW g, g = [n \in D |-> g[n]],
         \A n \in D : g[n] \in V
  PROVE  \E o : Holds(o, D, g, V)
<1> DEFINE may == [n \in D |-> V]
<1>1. \A n \in D : may[n] = V
  OBVIOUS
<1>2. g \in Picks(D, may)
  <2>1. \A n \in D : g[n] \in may[n]
    BY <1>1
  <2>2. g \in [D -> UNION {may[n] : n \in D}]
    BY <2>1
  <2> QED BY <2>1, <2>2, Zenon DEF Picks
<1> HIDE DEF may
<1> QED BY <1>1, <1>2, ObjectOfIs

\* What said gives for the values in B are documents in J, or nothing.
Says(B, said, J) == \A e \in B : said[e] \in J \cup {Thrown}

LEMMA AtomsAreSaid ==
  ASSUME NEW said, NEW j \in BuiltAtoms
  PROVE  TextOf(j, said) \in JsonAtoms \cup {Thrown}
<1>1. CASE j = Null
  BY <1>1, TextNull DEF JsonAtoms
<1>2. CASE j \in ScalarsOver(LuaInts, Strings, Others)
  <2>1. /\ j[1] = "int" => TextOf(j, said) = j
        /\ j[1] = "str" => TextOf(j, said) = IF j[2] \in Utf8 THEN j ELSE Thrown
        /\ j[1] = "other" => TextOf(j, said) = IF j[2] \in Finite THEN j ELSE Null
    BY <1>2, TextScalar, Zenon
  <2>2. \A n \in LuaInts : n \in JsonInts
    BY BoundsAre DEF LuaInts, JsonInts
  <2>3. ASSUME NEW n \in LuaInts, j = IntOf(n) PROVE TextOf(j, said) \in JsonAtoms \cup {Thrown}
    <3>1. j[1] = "int"
      BY <2>3, MarksDiffer, Zenon
    <3>2. j \in ScalarsOver(JsonInts, Utf8, Finite)
      BY <2>2, <2>3, ScalarIs
    <3> QED BY <2>1, <3>1, <3>2 DEF JsonAtoms
  <2>4. ASSUME NEW x \in Strings, j = StrOf(x) PROVE TextOf(j, said) \in JsonAtoms \cup {Thrown}
    <3>1. j[1] = "str" /\ j[2] = x
      BY <2>4, MarksDiffer, Zenon
    <3>2. x \in Utf8 => j \in ScalarsOver(JsonInts, Utf8, Finite)
      BY <2>4, ScalarIs
    <3> QED BY <2>1, <3>1, <3>2 DEF JsonAtoms
  <2>5. ASSUME NEW x \in Others, j = <<"other", x>> PROVE TextOf(j, said) \in JsonAtoms \cup {Thrown}
    <3>1. j[1] = "other" /\ j[2] = x
      BY <2>5
    <3>2. x \in Finite => j \in ScalarsOver(JsonInts, Utf8, Finite)
      BY <2>5, ScalarIs
    <3> QED BY <2>1, <3>1, <3>2 DEF JsonAtoms
  <2> QED BY <1>2, <2>3, <2>4, <2>5, ScalarIs
<1> QED BY <1>1, <1>2 DEF BuiltAtoms

LEMMA ArraysAreSaid ==
  ASSUME NEW B, NEW said, NEW J, Says(B, said, J), NEW a \in Seq(B), Len(a) \in 0..Highest
  PROVE  TextOf(<<"arr", a>>, said) \in Arrays(J, 0..Highest) \cup {Thrown}
<1>1. CASE \E i \in DOMAIN a : said[a[i]] = Thrown
  <2>1. TextOf(<<"arr", a>>, said) = Thrown
    BY <1>1, TextArray, Zenon
  <2> QED BY <2>1
<1>2. CASE ~\E i \in DOMAIN a : said[a[i]] = Thrown
  <2> DEFINE b == [i \in DOMAIN a |-> said[a[i]]]
  <2>1. TextOf(<<"arr", a>>, said) = <<"arr", b>>
    BY <1>2, TextArray, Zenon
  <2>2. \A i \in DOMAIN a : a[i] \in B
    OBVIOUS
  <2>3. \A i \in DOMAIN a : said[a[i]] \in J
    BY <1>2, <2>2 DEF Says
  <2>4. DOMAIN a = 1..Len(a) /\ Len(a) \in Nat
    OBVIOUS
  <2>5. b \in Seq(J) /\ Len(b) = Len(a)
    BY <2>3, <2>4
  <2> HIDE DEF b
  <2>6. <<"arr", b>> \in Arrays(J, 0..Highest)
    BY <2>5, ArrayIs
  <2> QED BY <2>1, <2>6
<1> QED BY <1>1, <1>2

LEMMA ObjectsAreSaid ==
  ASSUME NEW B, NEW said, NEW J, Says(B, said, J), Absent \notin J,
         NEW o \in [Strings -> B \cup {Absent}]
  PROVE  TextOf(<<"obj", o>>, said) \in Objects(J, Utf8) \cup {Thrown}
<1>1. CASE \E n \in Names(o) : n \notin Utf8 \/ said[o[n]] = Thrown
  <2>1. TextOf(<<"obj", o>>, said) = Thrown
    BY <1>1, TextObject, Zenon
  <2> QED BY <2>1
<1>2. CASE ~\E n \in Names(o) : n \notin Utf8 \/ said[o[n]] = Thrown
  <2> DEFINE D == Names(o)
             g == [n \in D |-> said[o[n]]]
  <2>1. TextOf(<<"obj", o>>, said) = ObjectOf(g)
    BY <1>2, TextObject, Zenon
  <2>2. D \subseteq Strings /\ \A n \in D : o[n] \in B
    BY DEF Names
  <2>3. D \subseteq Utf8 /\ \A n \in D : said[o[n]] \in J
    BY <1>2, <2>2 DEF Says
  <2> HIDE DEF D
  <2>4. \A n \in D : g[n] \in J
    BY <2>3
  <2>5. g = [n \in D |-> g[n]]
    OBVIOUS
  <2> HIDE DEF g
  <2>6. PICK p : Holds(p, D, g, J)
    BY <2>2, <2>4, <2>5, ObjectFrom
  <2>7. p \in [Strings -> J \cup {Absent}] /\ ObjectOf(g) = <<"obj", p>> /\ Names(p) \subseteq Utf8
    BY <2>3, <2>6, Zenon DEF Holds
  <2>8. ObjectOf(g) \in Objects(J, Utf8)
    BY <2>7, ObjectIs
  <2> QED BY <2>1, <2>8
<1> QED BY <1>1, <1>2

\* What dump writes is a document, if it writes anything.
LEMMA TextTypes == \A d \in 0..Depth : Says(Built[d], AsText[d], Json[d])
<1> DEFINE Good == {d \in 0..Depth : Says(Built[d], AsText[d], Json[d])}
<1>1. 0 \in Good
  <2>1. ASSUME NEW j \in Built[0] PROVE AsText[0][j] \in Json[0] \cup {Thrown}
    <3>1. AsText[0][j] = TextOf(j, Below(AsText, 0))
      BY TextLevels, DepthIs, Zenon
    <3>2. j \in BuiltAtoms /\ Json[0] = JsonAtoms
      BY BuiltIs, JsonIs, Zenon
    <3> QED BY <3>1, <3>2, AtomsAreSaid
  <2> QED BY <2>1, DepthIs, Zenon DEF Says
<1>2. ASSUME NEW d \in 1..Depth, d - 1 \in Good PROVE d \in Good
  <2> DEFINE B == Built[d - 1]
             J == Json[d - 1]
             said == AsText[d - 1]
  <2>1. Says(B, said, J) /\ Absent \notin J /\ d \in 0..Depth /\ d # 0
    BY <1>2, NoneIsNoValue, DepthIs, Zenon
  <2>2. Built[d] = BuiltAtoms \cup Arrays(B, 0..Highest) \cup Objects(B, Strings)
    BY BuiltIs, Zenon
  <2>3. Json[d] = JsonAtoms \cup Arrays(J, 0..Highest) \cup Objects(J, Utf8)
    BY JsonIs, Zenon
  <2>4. \A j \in Built[d] : AsText[d][j] = TextOf(j, said)
    BY <2>1, TextLevels, Zenon DEF Below
  <2> HIDE DEF B, J, said
  <2>5. ASSUME NEW j \in Built[d] PROVE TextOf(j, said) \in Json[d] \cup {Thrown}
    <3>1. CASE j \in BuiltAtoms
      <4>1. TextOf(j, said) \in JsonAtoms \cup {Thrown}
        BY <3>1, AtomsAreSaid
      <4> QED BY <2>3, <4>1
    <3>2. CASE j \in Arrays(B, 0..Highest)
      <4>1. PICK a \in Seq(B) : j = <<"arr", a>> /\ Len(a) \in 0..Highest
        BY <3>2, ArrayIs
      <4>2. TextOf(<<"arr", a>>, said) \in Arrays(J, 0..Highest) \cup {Thrown}
        BY <2>1, <4>1, ArraysAreSaid
      <4> QED BY <2>3, <4>1, <4>2
    <3>3. CASE j \in Objects(B, Strings)
      <4>1. PICK o \in [Strings -> B \cup {Absent}] : j = <<"obj", o>>
        BY <3>3, ObjectIs
      <4>2. TextOf(<<"obj", o>>, said) \in Objects(J, Utf8) \cup {Thrown}
        BY <2>1, ObjectsAreSaid
      <4> QED BY <2>3, <4>1, <4>2
    <3> QED BY <2>2, <3>1, <3>2, <3>3
  <2> QED BY <2>1, <2>4, <2>5, Zenon DEF Says
<1>3. \A d \in 0..Depth : d \in Good
  <2> HIDE DEF Good
  <2> QED BY <1>1, <1>2, DepthIs, Upwards
<1> QED BY <1>3, Zenon

-----------------------------------------------------------------------------
(* What the text says as it is: UTF-8 strings and finite numbers.          *)

SayableAtoms == ScalarsOver(LuaInts, Utf8, Finite) \cup {Null}
Sayable == JsonOver(SayableAtoms, Utf8, 0..Highest)

LEMMA SayableIs ==
  /\ Sayable[0] = SayableAtoms
  /\ \A d \in 1..Depth :
       Sayable[d] = SayableAtoms \cup Arrays(Sayable[d - 1], 0..Highest) \cup Objects(Sayable[d - 1], Utf8)
<1>1. /\ JsonOver(SayableAtoms, Utf8, 0..Highest)[0] = SayableAtoms
      /\ \A d \in 1..Depth :
           JsonOver(SayableAtoms, Utf8, 0..Highest)[d] =
             SayableAtoms \cup Arrays(JsonOver(SayableAtoms, Utf8, 0..Highest)[d - 1], 0..Highest)
                          \cup Objects(JsonOver(SayableAtoms, Utf8, 0..Highest)[d - 1], Utf8)
  BY JsonLevels
<1> QED BY <1>1, Zenon DEF Sayable

LEMMA SayableIsBoth == \A d \in 0..Depth : Sayable[d] \subseteq Json[d] /\ Sayable[d] \subseteq Built[d]
<1>1. /\ \A n \in LuaInts : n \in JsonInts
      /\ Utf8 \subseteq Strings /\ Finite \subseteq Others
  <2>1. \A n \in LuaInts : n \in JsonInts
    BY BoundsAre DEF LuaInts, JsonInts
  <2> QED BY <2>1, JsonAssumption, Zenon
<1>2. SayableAtoms \subseteq JsonAtoms
  <2>1. ScalarsOver(LuaInts, Utf8, Finite) \subseteq ScalarsOver(JsonInts, Utf8, Finite)
    BY <1>1, ScalarIs
  <2> QED BY <2>1 DEF SayableAtoms, JsonAtoms
<1>3. SayableAtoms \subseteq BuiltAtoms
  <2>1. ScalarsOver(LuaInts, Utf8, Finite) \subseteq ScalarsOver(LuaInts, Strings, Others)
    BY <1>1, ScalarIs
  <2> QED BY <2>1 DEF SayableAtoms, BuiltAtoms
<1>4. Json = JsonOver(JsonAtoms, Utf8, 0..Highest) /\ Built = JsonOver(BuiltAtoms, Strings, 0..Highest)
  BY Zenon DEF Json, JsonAtoms, Built, BuiltAtoms
<1>5. \A d \in 0..Depth : Sayable[d] \subseteq JsonOver(JsonAtoms, Utf8, 0..Highest)[d]
  BY <1>2, DocumentsGrow DEF Sayable
<1>6. \A d \in 0..Depth : Sayable[d] \subseteq JsonOver(BuiltAtoms, Strings, 0..Highest)[d]
  BY <1>1, <1>3, DocumentsGrow DEF Sayable
<1> QED BY <1>4, <1>5, <1>6, Zenon

\* The text of such a value says it.
SaysThemselves(J, said) == \A e \in J : said[e] = e

LEMMA ArrayIsKept ==
  ASSUME NEW J, NEW said, SaysThemselves(J, said), Thrown \notin J, NEW a \in Seq(J)
  PROVE  TextOf(<<"arr", a>>, said) = <<"arr", a>>
<1>1. \A i \in DOMAIN a : a[i] \in J
  OBVIOUS
<1>2. \A i \in DOMAIN a : said[a[i]] = a[i] /\ said[a[i]] # Thrown
  BY <1>1 DEF SaysThemselves
<1>3. TextOf(<<"arr", a>>, said) = <<"arr", [i \in DOMAIN a |-> said[a[i]]]>>
  BY <1>2, TextArray, Zenon
<1>4. [i \in DOMAIN a |-> said[a[i]]] = a
  <2>1. a = [i \in DOMAIN a |-> a[i]]
    OBVIOUS
  <2> QED BY <1>2, <2>1, Zenon
<1> QED BY <1>3, <1>4, Zenon

LEMMA ObjectIsKept ==
  ASSUME NEW J, NEW said, SaysThemselves(J, said), Thrown \notin J, Absent \notin J,
         NEW o \in [Strings -> J \cup {Absent}], Names(o) \subseteq Utf8
  PROVE  TextOf(<<"obj", o>>, said) = <<"obj", o>>
<1> DEFINE D == Names(o)
           g == [n \in D |-> said[o[n]]]
<1>1. D \subseteq Strings /\ \A n \in D : o[n] \in J
  BY DEF Names
<1>2. \A n \in D : said[o[n]] = o[n] /\ said[o[n]] # Thrown
  BY <1>1 DEF SaysThemselves
<1>3. TextOf(<<"obj", o>>, said) = ObjectOf(g)
  <2>1. ~\E n \in Names(o) : n \notin Utf8 \/ said[o[n]] = Thrown
    BY <1>2
  <2> QED BY <2>1, TextObject, Zenon
<1>4. \A n \in Strings : n \notin D => o[n] = Absent
  BY DEF Names
<1> HIDE DEF D
<1>5. g = [n \in D |-> g[n]] /\ \A n \in D : g[n] = o[n]
  BY <1>2
<1> HIDE DEF g
<1>6. PICK p : Holds(p, D, g, J)
  BY <1>1, <1>5, ObjectFrom
<1>7. /\ p \in [Strings -> J \cup {Absent}] /\ ObjectOf(g) = <<"obj", p>>
      /\ \A n \in D : p[n] = g[n]
      /\ \A n \in Strings : n \notin D => p[n] = Absent
  BY <1>6, Zenon DEF Holds
<1>8. \A n \in Strings : p[n] = o[n]
  BY <1>4, <1>5, <1>7
<1>9. p = o
  BY <1>7, <1>8
<1> QED BY <1>3, <1>7, <1>9, Zenon

LEMMA AtomIsKept ==
  ASSUME NEW said, NEW j \in SayableAtoms
  PROVE  TextOf(j, said) = j
<1>1. CASE j = Null
  BY <1>1, TextNull, Zenon
<1>2. CASE j \in ScalarsOver(LuaInts, Utf8, Finite)
  <2>1. /\ j[1] \in Kinds
        /\ j[1] = "str" => j[2] \in Utf8
        /\ j[1] = "other" => j[2] \in Finite
    BY <1>2, ScalarKinds, Zenon
  <2>2. /\ j[1] = "int" => TextOf(j, said) = j
        /\ j[1] = "str" => TextOf(j, said) = IF j[2] \in Utf8 THEN j ELSE Thrown
        /\ j[1] = "other" => TextOf(j, said) = IF j[2] \in Finite THEN j ELSE Null
    BY <1>2, TextScalar, Zenon
  <2> QED BY <2>1, <2>2 DEF Kinds
<1> QED BY <1>1, <1>2 DEF SayableAtoms

LEMMA TextKeeps == \A d \in 0..Depth : Thrown \notin Sayable[d] /\ SaysThemselves(Sayable[d], AsText[d])
<1> DEFINE Good == {d \in 0..Depth : SaysThemselves(Sayable[d], AsText[d])}
<1>1. \A d \in 0..Depth : Thrown \notin Sayable[d] /\ Absent \notin Sayable[d]
  BY SayableIsBoth, NoneIsNoValue
<1>2. 0 \in Good
  <2>1. ASSUME NEW j \in Sayable[0] PROVE AsText[0][j] = j
    <3>1. j \in Built[0] /\ j \in SayableAtoms
      BY SayableIsBoth, SayableIs, DepthIs
    <3>2. AsText[0][j] = TextOf(j, Below(AsText, 0))
      BY <3>1, TextLevels, DepthIs, Zenon
    <3> QED BY <3>1, <3>2, AtomIsKept, Zenon
  <2> QED BY <2>1, DepthIs, Zenon DEF SaysThemselves
<1>3. ASSUME NEW d \in 1..Depth, d - 1 \in Good PROVE d \in Good
  <2> DEFINE J == Sayable[d - 1]
             said == AsText[d - 1]
  <2>1. SaysThemselves(J, said) /\ Thrown \notin J /\ Absent \notin J /\ d \in 0..Depth /\ d # 0
    BY <1>1, <1>3, DepthIs, Zenon
  <2>2. Sayable[d] = SayableAtoms \cup Arrays(J, 0..Highest) \cup Objects(J, Utf8)
    BY SayableIs, Zenon
  <2>3. \A j \in Sayable[d] : AsText[d][j] = TextOf(j, said)
    <3>1. \A j \in Sayable[d] : j \in Built[d]
      BY <2>1, SayableIsBoth
    <3> QED BY <2>1, <3>1, TextLevels, Zenon DEF Below
  <2> HIDE DEF J, said
  <2>4. ASSUME NEW j \in Sayable[d] PROVE TextOf(j, said) = j
    <3>1. CASE j \in SayableAtoms
      BY <3>1, AtomIsKept, Zenon
    <3>2. CASE j \in Arrays(J, 0..Highest)
      <4>1. PICK a \in Seq(J) : j = <<"arr", a>>
        BY <3>2, ArrayIs
      <4>2. TextOf(<<"arr", a>>, said) = <<"arr", a>>
        BY <2>1, ArrayIsKept
      <4> QED BY <4>1, <4>2, Zenon
    <3>3. CASE j \in Objects(J, Utf8)
      <4>1. PICK o \in [Strings -> J \cup {Absent}] : j = <<"obj", o>> /\ Names(o) \subseteq Utf8
        BY <3>3, ObjectIs
      <4>2. TextOf(<<"obj", o>>, said) = <<"obj", o>>
        BY <2>1, <4>1, ObjectIsKept
      <4> QED BY <4>1, <4>2, Zenon
    <3> QED BY <2>2, <3>1, <3>2, <3>3
  <2> QED BY <2>1, <2>3, <2>4, Zenon DEF SaysThemselves
<1>4. \A d \in 0..Depth : d \in Good
  <2> HIDE DEF Good
  <2> QED BY <1>2, <1>3, DepthIs, Upwards
<1> QED BY <1>1, <1>4, Zenon

-----------------------------------------------------------------------------
(* One level of the round trip.                                            *)

\* Whatever enc makes of a value in W, or of nil, pushed turns into that value again.
Returns(W, enc, pushed) == \A v \in W \cup {Nil} : \A e \in enc[v] : pushed[e] = v

LEMMA PresentIs ==
  ASSUME NEW f, NEW k
  PROVE  k \in Present(f) <=> k \in Keys /\ f[k] # Nil
BY DEF Present

LEMMA ListComesBack ==
  ASSUME NEW W, NEW enc, NEW J, Encodes(W, enc, J), NEW pushed, Returns(W, enc, pushed),
         NEW f \in [Keys -> W \cup {Nil}], ListLike(f),
         NEW whole, NEW j \in EncodingsOf(<<"tbl", f>>, enc)
  PROVE  PushOf(j, whole, pushed) = <<"tbl", f>>
<1> DEFINE n == LastIndex(f)
           may == ElementsOf(f, enc)
<1>1. n \in 1..Highest /\ \A k \in Present(f) : k[2] <= n
  BY LastIndexIs, Zenon
<1>2. j \in ArraysOf(f, enc)
  BY TableEncodings, Zenon
<1>3. PICK g \in Picks(1..n, may) : j = <<"arr", g>>
  BY <1>2, ArraysOfIs
<1>4. \A i \in 1..n : may[i] = enc[f[IntOf(i)]]
  BY Zenon DEF ElementsOf
<1> HIDE DEF n, may
<1>5. n \in Nat /\ \A i \in 1..n : i \in 1..Highest
  BY <1>1, BoundsAre
<1>6. ASSUME NEW i \in 1..n
      PROVE  f[IntOf(i)] \in W \cup {Nil} /\ enc[f[IntOf(i)]] \subseteq J
  BY <1>5, ListValuesEncoded
<1>7. \A i \in 1..n : g[i] \in enc[f[IntOf(i)]]
  <2>1. \A i \in 1..n : g[i] \in may[i]
    BY PicksAre, Zenon
  <2> QED BY <1>4, <2>1
<1>8. \A i \in 1..n : pushed[g[i]] = f[IntOf(i)]
  BY <1>6, <1>7, Zenon DEF Returns
<1>9. g \in Seq(J) /\ Len(g) = n
  <2>1. \A i \in 1..n : may[i] \subseteq J
    BY <1>4, <1>6, Zenon
  <2> QED BY <1>5, <2>1, PicksAreLists
<1> DEFINE t == ArrayAsTable(g, whole, pushed)
<1>10. ListEntries(t, g, pushed)
  BY <1>9, ArrayAsTableIs
<1> HIDE DEF t
<1>11. ASSUME NEW k \in Keys PROVE t[k] = f[k]
  <2>1. t[k] = IF k[1] = "int" /\ k[2] \in 1..n THEN pushed[g[k[2]]] ELSE Nil
    BY <1>9, <1>10, Zenon DEF ListEntries
  <2>2. CASE k[1] = "int" /\ k[2] \in 1..n
    <3>1. k = IntOf(k[2])
      BY <2>2, KeyIs, Zenon
    <3> QED BY <1>8, <2>1, <2>2, <3>1, Zenon
  <2>3. CASE ~(k[1] = "int" /\ k[2] \in 1..n)
    <3>1. k \notin Present(f)
      <4>1. ASSUME k \in Present(f) PROVE FALSE
        <5>1. k[1] = "int" /\ k[2] \in 1..Highest
          BY <4>1, PositiveIs DEF ListLike
        <5>2. k[2] <= n
          BY <1>1, <4>1, Zenon
        <5> QED BY <1>5, <2>3, <5>1, <5>2
      <4> QED BY <4>1
    <3> QED BY <2>1, <2>3, <3>1, PresentIs, Zenon
  <2> QED BY <2>2, <2>3
<1>12. t = f
  <2>1. t = [k \in Keys |-> t[k]]
    BY <1>10, Zenon DEF ListEntries
  <2>2. f = [k \in Keys |-> f[k]]
    OBVIOUS
  <2> QED BY <1>11, <2>1, <2>2, Zenon
<1>13. PushOf(j, whole, pushed) = <<"tbl", t>>
  BY <1>3, PushArray, Zenon DEF t
<1> QED BY <1>12, <1>13, Zenon

LEMMA ShownIs ==
  /\ Shown \subseteq Strings /\ Shown \subseteq Utf8
  /\ \A s \in Shown : CStr[s] = s /\ NameOf(StrOf(s)) = s /\ StrOf(s) \in Keys
<1>1. Shown \subseteq Strings /\ Shown \subseteq Utf8 /\ \A s \in Shown : CStr[s] = s
  BY JsonAssumption DEF Shown
<1>2. ASSUME NEW s \in Shown PROVE NameOf(StrOf(s)) = s
  <2>1. NameOf(StrOf(s)) = CStr[StrOf(s)[2]]
    BY MarksDiffer, TagsDiffer, Zenon DEF NameOf
  <2> QED BY <1>1, <2>1, MarksDiffer, Zenon
<1>3. \A s \in Shown : StrOf(s) \in Keys
  BY <1>1, KeysAre
<1> QED BY <1>1, <1>2, <1>3, Zenon

\* A name without a byte 0 is cut to itself, so that no two of them meet.
LEMMA CutToIs ==
  ASSUME NEW o, Names(o) \subseteq Shown, NEW s
  PROVE  /\ s \in Names(o) => CutTo(o, s) = {s} /\ LastName(CutTo(o, s)) = s
         /\ s \notin Names(o) => CutTo(o, s) = {}
<1>1. \A n : n \in CutTo(o, s) <=> n \in Names(o) /\ CStr[n] = s
  BY DEF CutTo
<1>2. \A n : n \in CutTo(o, s) <=> n \in Names(o) /\ n = s
  <2>1. \A n \in Names(o) : CStr[n] = n
    BY ShownIs
  <2> QED BY <1>1, <2>1, Zenon
<1>3. s \in Names(o) => CutTo(o, s) = {s}
  BY <1>2
<1>4. s \notin Names(o) => CutTo(o, s) = {}
  BY <1>2
<1>5. ASSUME s \in Names(o) PROVE LastName(CutTo(o, s)) = s
  <2>1. {s} \subseteq Strings /\ {s} # {}
    BY <1>5, ShownIs
  <2>2. LastName({s}) \in {s}
    BY <2>1, LastNameIs, Zenon
  <2> QED BY <1>3, <1>5, <2>2
<1> QED BY <1>3, <1>4, <1>5, Zenon

\* The keys that are strings without a byte 0 are their names.
LEMMA ShownKeys ==
  ASSUME NEW f, Present(f) \subseteq {"str"} \X Shown
  PROVE  /\ ~ListLike(f) /\ NamesOf(f) \subseteq Shown
         /\ \A s : s \in NamesOf(f) <=> s \in Shown /\ StrOf(s) \in Present(f)
         /\ \A k \in Present(f) : k = StrOf(NameOf(k))
<1>1. \A k \in Present(f) : k[1] = "str" /\ k[2] \in Shown /\ k = StrOf(k[2])
  BY DEF StrOf
<1>2. \A k \in Present(f) : NameOf(k) = k[2]
  BY <1>1, ShownIs, Zenon
<1>3. \A s : s \in NamesOf(f) <=> \E k \in Present(f) : s = NameOf(k)
  BY NamesOfIs, Zenon
<1>4. \A s : s \in NamesOf(f) <=> s \in Shown /\ StrOf(s) \in Present(f)
  <2>1. ASSUME NEW s \in NamesOf(f) PROVE s \in Shown /\ StrOf(s) \in Present(f)
    <3>1. PICK k \in Present(f) : s = NameOf(k)
      BY <1>3, Zenon
    <3>2. s = k[2] /\ k = StrOf(s)
      BY <1>1, <1>2, <3>1
    <3> QED BY <1>1, <3>2, Zenon
  <2>2. ASSUME NEW s \in Shown, StrOf(s) \in Present(f) PROVE s \in NamesOf(f)
    BY <1>3, <2>2, ShownIs
  <2> QED BY <2>1, <2>2, Zenon
<1>5. ~ListLike(f)
  <2>1. ASSUME ListLike(f) PROVE FALSE
    <3>1. PICK k \in Present(f) : k \in Positive
      BY <2>1 DEF ListLike
    <3> QED BY <1>1, <3>1, PositiveIs, TagsDiffer, Zenon
  <2> QED BY <2>1
<1>6. \A k \in Present(f) : k = StrOf(NameOf(k))
  BY <1>1, <1>2, Zenon
<1>7. NamesOf(f) \subseteq Shown
  BY <1>4
<1> QED BY <1>4, <1>5, <1>6, <1>7, Zenon

LEMMA ObjectComesBack ==
  ASSUME NEW W, NEW enc, NEW J, Encodes(W, enc, J), Absent \notin J,
         NEW pushed, Returns(W, enc, pushed),
         NEW f \in [Keys -> W \cup {Nil}], Present(f) \subseteq {"str"} \X Shown,
         NEW whole, NEW j \in EncodingsOf(<<"tbl", f>>, enc)
  PROVE  PushOf(j, whole, pushed) = <<"tbl", f>>
<1> DEFINE D == NamesOf(f)
           may == ValuesOf(f, enc)
<1>1. /\ ~ListLike(f) /\ D \subseteq Shown
      /\ \A s : s \in D <=> s \in Shown /\ StrOf(s) \in Present(f)
      /\ \A k \in Present(f) : k = StrOf(NameOf(k))
  BY ShownKeys, Zenon
<1>2. j \in ObjectsOf(f, enc)
  BY <1>1, TableEncodings, Zenon
<1>3. PICK g \in Picks(D, may) : j = ObjectOf(g)
  BY <1>2 DEF ObjectsOf
<1>4. \A k \in Present(f) : f[k] \in W /\ enc[f[k]] \subseteq J
  <2>1. \A k \in Present(f) : f[k] \in W
    BY PresentIs
  <2> QED BY <2>1 DEF Encodes
<1>5. ASSUME NEW s \in D, NEW e \in may[s] PROVE e \in enc[f[StrOf(s)]]
  <2>1. PICK k \in Present(f) : NameOf(k) = s /\ e \in enc[f[k]]
    BY ValuesOfIs
  <2>2. k = StrOf(s)
    BY <1>1, <2>1, Zenon
  <2> QED BY <2>1, <2>2, Zenon
<1> HIDE DEF D, may
<1>6. \A s \in D : may[s] \subseteq J
  <2>1. \A s \in D : StrOf(s) \in Present(f)
    BY <1>1, Zenon
  <2> QED BY <1>4, <1>5, <2>1
<1>7. D \subseteq Strings
  BY <1>1, ShownIs
<1>8. PICK o : Holds(o, D, g, J)
  BY <1>6, <1>7, ObjectOfIs
<1>9. j = <<"obj", o>> /\ Names(o) = D /\ \A s \in D : o[s] = g[s]
  BY <1>3, <1>8, Zenon DEF Holds
<1>10. \A s \in D : pushed[o[s]] = f[StrOf(s)]
  <2>1. \A s \in D : g[s] \in may[s]
    BY PicksAre, Zenon
  <2>2. \A s \in D : o[s] \in enc[f[StrOf(s)]] /\ f[StrOf(s)] \in W \cup {Nil}
    BY <1>1, <1>4, <1>5, <1>9, <2>1
  <2> QED BY <2>2, Zenon DEF Returns
<1> DEFINE t == ObjectAsTable(o, pushed)
<1>11. NamedEntries(t, o, pushed)
  BY ObjectAsTableIs, Zenon
<1> HIDE DEF t
<1>12. ASSUME NEW k \in Keys PROVE t[k] = f[k]
  <2>1. t[k] = IF k[1] = "str" /\ CutTo(o, k[2]) # {} THEN pushed[o[LastName(CutTo(o, k[2]))]] ELSE Nil
    BY <1>11, Zenon DEF NamedEntries
  <2>2. /\ k[2] \in D => CutTo(o, k[2]) = {k[2]} /\ LastName(CutTo(o, k[2])) = k[2]
        /\ k[2] \notin D => CutTo(o, k[2]) = {}
    BY <1>1, <1>9, CutToIs
  <2>3. CASE k[1] = "str" /\ k[2] \in D
    <3>1. k = StrOf(k[2])
      BY <2>3, KeyIs, Zenon
    <3>2. t[k] = pushed[o[k[2]]]
      BY <2>1, <2>2, <2>3
    <3> QED BY <1>10, <2>3, <3>1, <3>2, Zenon
  <2>4. CASE ~(k[1] = "str" /\ k[2] \in D)
    <3>1. t[k] = Nil
      BY <2>1, <2>2, <2>4, Zenon
    <3>2. k \notin Present(f)
      <4>1. ASSUME k \in Present(f) PROVE FALSE
        <5>1. k[1] = "str" /\ k[2] \in Shown /\ k = StrOf(k[2])
          BY <4>1 DEF StrOf
        <5> QED BY <1>1, <2>4, <4>1, <5>1, Zenon
      <4> QED BY <4>1
    <3> QED BY <3>1, <3>2, PresentIs, Zenon
  <2> QED BY <2>3, <2>4
<1>13. t = f
  <2>1. t = [k \in Keys |-> t[k]]
    BY <1>11, Zenon DEF NamedEntries
  <2>2. f = [k \in Keys |-> f[k]]
    OBVIOUS
  <2> QED BY <1>12, <2>1, <2>2, Zenon
<1>14. PushOf(j, whole, pushed) = <<"tbl", t>>
  BY <1>9, PushObject, Zenon DEF t
<1> QED BY <1>13, <1>14, Zenon
\* A scalar without a byte 0 comes back from either decoder.
LEMMA PlainComesBack ==
  ASSUME NEW whole \in BOOLEAN, NEW pushed, NEW v \in ScalarsOver(LuaInts, Shown, Finite)
  PROVE  PushOf(v, whole, pushed) = v
<1>1. ASSUME NEW n \in LuaInts PROVE PushOf(IntOf(n), whole, pushed) = IntOf(n)
  <2>1. PushOf(IntOf(n), whole, pushed) = IntOf(Wrapped(n))
    BY PushInt, Zenon
  <2>2. Wrapped(n) = n
    BY WrappedFits, Zenon
  <2> QED BY <2>1, <2>2, Zenon
<1>2. ASSUME NEW s \in Shown PROVE PushOf(StrOf(s), whole, pushed) = StrOf(s)
  <2>1. PushOf(StrOf(s), TRUE, pushed) = StrOf(s) /\ PushOf(StrOf(s), FALSE, pushed) = StrOf(CStr[s])
    BY PushStr, Zenon
  <2>2. CStr[s] = s
    BY ShownIs, Zenon
  <2> QED BY <2>1, <2>2
<1>3. \A x : PushOf(<<"other", x>>, whole, pushed) = <<"other", x>>
  BY PushOther, Zenon
<1> QED BY <1>1, <1>2, <1>3, ScalarIs

PlainAtoms == ScalarsOver(LuaInts, Shown, Finite)
PlainShapes == Lists \cup SUBSET ({"str"} \X Shown)

LEMMA PlainIs ==
  /\ PlainLua[0] = PlainAtoms
  /\ \A d \in 1..Depth : PlainLua[d] = PlainAtoms \cup Tables(PlainLua[d - 1], PlainShapes)
<1> DEFINE L == LuaOver(PlainAtoms, PlainShapes)
<1>1. PlainLua = L
  BY Zenon DEF PlainLua, PlainAtoms, PlainShapes
<1>2. /\ L[0] = PlainAtoms
      /\ \A d \in 1..Depth : L[d] = PlainAtoms \cup Tables(L[d - 1], PlainShapes)
  BY LuaLevels
<1> HIDE DEF L
<1> QED BY <1>1, <1>2

LEMMA PlainAtomsAreAtoms == PlainAtoms \subseteq LuaAtoms
<1>1. ASSUME NEW v \in PlainAtoms PROVE v \in ScalarsOver(LuaInts, Strings, Others)
  <2>1. v \in ScalarsOver(LuaInts, Shown, Finite)
    BY Zenon DEF PlainAtoms
  <2>2. (\A s \in Shown : s \in Strings) /\ (\A x \in Finite : x \in Others)
    BY ShownIs, JsonAssumption
  <2> QED BY <2>1, <2>2, ScalarIs
<1> QED BY <1>1 DEF LuaAtoms

LEMMA PlainIsLua == \A d \in 0..Depth : PlainLua[d] \subseteq Lua[d]
<1> DEFINE Good == {d \in 0..Depth : PlainLua[d] \subseteq Lua[d]}
<1>1. 0 \in Good
  BY PlainIs, LuaIs, PlainAtomsAreAtoms, DepthIs, Zenon
<1>2. ASSUME NEW d \in 1..Depth, d - 1 \in Good PROVE d \in Good
  <2>1. PlainLua[d] = PlainAtoms \cup Tables(PlainLua[d - 1], PlainShapes)
       /\ Lua[d] = LuaAtoms \cup Tables(Lua[d - 1], SUBSET Keys)
    BY PlainIs, LuaIs, Zenon
  <2>2. PlainLua[d - 1] \subseteq Lua[d - 1] /\ d \in 0..Depth
    BY <1>2, DepthIs, Zenon
  <2>3. ASSUME NEW v \in Tables(PlainLua[d - 1], PlainShapes) PROVE v \in Tables(Lua[d - 1], SUBSET Keys)
    <3>1. PICK f \in [Keys -> PlainLua[d - 1] \cup {Nil}] : v = <<"tbl", f>>
      BY TableIs
    <3>2. f \in [Keys -> Lua[d - 1] \cup {Nil}] /\ Present(f) \subseteq Keys
      BY <2>2 DEF Present
    <3> QED BY <3>1, <3>2, TableIs
  <2>4. PlainLua[d] \subseteq Lua[d]
    BY <2>1, <2>3, PlainAtomsAreAtoms
  <2> QED BY <2>2, <2>4, Zenon
<1>3. \A d \in 0..Depth : d \in Good
  <2> HIDE DEF Good
  <2> QED BY <1>1, <1>2, DepthIs, Upwards
<1> QED BY <1>3, Zenon

LEMMA PlainShapesAre ==
  ASSUME NEW f, Present(f) \in PlainShapes
  PROVE  ListLike(f) \/ (~ListLike(f) /\ Present(f) \subseteq {"str"} \X Shown /\ NamesOf(f) \subseteq Utf8)
<1>1. CASE Present(f) \subseteq {"str"} \X Shown
  <2>1. ~ListLike(f) /\ NamesOf(f) \subseteq Shown
    BY <1>1, ShownKeys, Zenon
  <2> QED BY <1>1, <2>1, ShownIs
<1>2. CASE Present(f) \in Lists
  <2>1. PICK n \in 1..Highest : Present(f) = {"int"} \X (1..n)
    BY <1>2 DEF Lists
  <2>2. n \in 1..n /\ \A i \in 1..n : i \in 1..Highest
    BY BoundsAre
  <2>3. <<"int", n>> \in Present(f)
    BY <2>1, <2>2
  <2>4. Present(f) \subseteq Positive
    BY <2>1, <2>2 DEF Positive
  <2> QED BY <2>3, <2>4 DEF ListLike
<1> QED BY <1>1, <1>2 DEF PlainShapes

LEMMA PlainAtomsEncode ==
  ASSUME NEW enc, NEW v \in PlainAtoms \cup {Nil}
  PROVE  EncodingsOf(v, enc) # {} /\ EncodingsOf(v, enc) \subseteq SayableAtoms
<1>1. CASE v = Nil
  <2>1. EncodingsOf(v, enc) = {Null}
    BY <1>1, ScalarEncodings, Zenon
  <2> QED BY <2>1 DEF SayableAtoms
<1>2. CASE v \in ScalarsOver(LuaInts, Shown, Finite)
  <2>1. EncodingsOf(v, enc) = {v}
    BY <1>2, ScalarEncodings, Zenon
  <2>2. v \in ScalarsOver(LuaInts, Utf8, Finite)
    <3>1. \A s \in Shown : s \in Utf8
      BY ShownIs
    <3> QED BY <1>2, <3>1, ScalarIs
  <2> QED BY <2>1, <2>2 DEF SayableAtoms
<1> QED BY <1>1, <1>2 DEF PlainAtoms

\* What LuaToJson makes of a plain value, the text can say.
LEMMA PlainEncodes == \A d \in 0..Depth : Encodes(PlainLua[d], LuaToJson[d], Sayable[d])
<1> DEFINE Good == {d \in 0..Depth : Encodes(PlainLua[d], LuaToJson[d], Sayable[d])}
<1>1. ASSUME NEW d \in 0..Depth, NEW v \in PlainLua[d] \cup {Nil}
      PROVE  LuaToJson[d][v] = EncodingsOf(v, Below(LuaToJson, d))
  <2>1. v \in Lua[d] \cup {Nil}
    BY PlainIsLua
  <2> QED BY <2>1, EncodeLevels, Zenon
<1>2. 0 \in Good
  <2>1. ASSUME NEW v \in PlainLua[0] \cup {Nil}
        PROVE  LuaToJson[0][v] # {} /\ LuaToJson[0][v] \subseteq Sayable[0]
    <3>1. LuaToJson[0][v] = EncodingsOf(v, Below(LuaToJson, 0))
      BY <1>1, DepthIs, Zenon
    <3>2. v \in PlainAtoms \cup {Nil} /\ Sayable[0] = SayableAtoms
      BY PlainIs, SayableIs
    <3> QED BY <3>1, <3>2, PlainAtomsEncode, Zenon
  <2> QED BY <2>1, DepthIs, Zenon DEF Encodes
<1>3. ASSUME NEW d \in 1..Depth, d - 1 \in Good PROVE d \in Good
  <2> DEFINE W == PlainLua[d - 1]
             J == Sayable[d - 1]
             enc == LuaToJson[d - 1]
  <2>1. Encodes(W, enc, J) /\ d \in 0..Depth /\ d # 0 /\ d - 1 \in 0..Depth
    BY <1>3, DepthIs, Zenon
  <2>2. Absent \notin J
    BY <2>1, SayableIsBoth, NoneIsNoValue
  <2>3. PlainLua[d] = PlainAtoms \cup Tables(W, PlainShapes)
    BY PlainIs, Zenon
  <2>4. Sayable[d] = SayableAtoms \cup Arrays(J, 0..Highest) \cup Objects(J, Utf8)
    BY SayableIs, Zenon
  <2>5. \A v \in PlainLua[d] \cup {Nil} : LuaToJson[d][v] = EncodingsOf(v, enc)
    BY <1>1, <2>1, Zenon DEF Below
  <2> HIDE DEF W, J, enc
  <2>6. ASSUME NEW v \in PlainLua[d] \cup {Nil}
        PROVE  EncodingsOf(v, enc) # {} /\ EncodingsOf(v, enc) \subseteq Sayable[d]
    <3>1. CASE v \in PlainAtoms \cup {Nil}
      <4>1. EncodingsOf(v, enc) # {} /\ EncodingsOf(v, enc) \subseteq SayableAtoms
        BY <3>1, PlainAtomsEncode, Zenon
      <4> QED BY <2>4, <4>1
    <3>2. CASE v \in Tables(W, PlainShapes)
      <4>1. PICK f \in [Keys -> W \cup {Nil}] : v = <<"tbl", f>> /\ Present(f) \in PlainShapes
        BY <3>2, TableIs
      <4>2. ~ListLike(f) => NamesOf(f) \subseteq Utf8
        BY <4>1, PlainShapesAre, Zenon
      <4>3. /\ EncodingsOf(<<"tbl", f>>, enc) # {}
            /\ EncodingsOf(<<"tbl", f>>, enc) \subseteq Arrays(J, 0..Highest) \cup Objects(J, Utf8)
        BY <2>1, <2>2, <4>2, TablesEncode
      <4> QED BY <2>4, <4>1, <4>3
    <3> QED BY <2>3, <3>1, <3>2
  <2>7. \A v \in PlainLua[d] \cup {Nil} : LuaToJson[d][v] # {} /\ LuaToJson[d][v] \subseteq Sayable[d]
    BY <2>5, <2>6, Zenon
  <2> QED BY <2>1, <2>7, Zenon DEF Encodes
<1>4. \A d \in 0..Depth : d \in Good
  <2> HIDE DEF Good
  <2> QED BY <1>2, <1>3, DepthIs, Upwards
<1> QED BY <1>4, Zenon

LEMMA NilComesBack ==
  ASSUME NEW whole, NEW d \in 0..Depth
  PROVE  \A e \in LuaToJson[d][Nil] : Push(whole)[d][e] = Nil
<1>1. LuaToJson[d][Nil] = {Null}
  <2>1. LuaToJson[d][Nil] = EncodingsOf(Nil, Below(LuaToJson, d))
    BY EncodeLevels, Zenon
  <2>2. EncodingsOf(Nil, Below(LuaToJson, d)) = {Null}
    BY ScalarEncodings, Zenon
  <2> QED BY <2>1, <2>2, Zenon
<1>2. Null \in Json[d]
  <2>1. Null \in JsonAtoms
    BY DEF JsonAtoms
  <2>2. d = 0 \/ d \in 1..Depth
    BY DepthIs
  <2> QED BY <2>1, <2>2, JsonIs
<1>3. Push(whole)[d][Null] = Nil
  <2>1. Push(whole)[d][Null] = PushOf(Null, whole, Below(Push(whole), d))
    BY <1>2, PushLevels, Zenon
  <2> QED BY <2>1, PushNull, Zenon
<1> QED BY <1>1, <1>3

\* The round trip, at every depth.
LEMMA PlainReturns ==
  ASSUME NEW whole \in BOOLEAN
  PROVE  \A d \in 0..Depth : Returns(PlainLua[d], LuaToJson[d], Push(whole)[d])
<1> DEFINE Good == {d \in 0..Depth : Returns(PlainLua[d], LuaToJson[d], Push(whole)[d])}
<1>1. ASSUME NEW d \in 0..Depth, NEW v \in PlainLua[d], NEW e \in LuaToJson[d][v]
      PROVE  e \in EncodingsOf(v, Below(LuaToJson, d))
              /\ Push(whole)[d][e] = PushOf(e, whole, Below(Push(whole), d))
  <2>1. v \in Lua[d] \cup {Nil}
    BY PlainIsLua
  <2>2. LuaToJson[d][v] = EncodingsOf(v, Below(LuaToJson, d))
    BY <2>1, EncodeLevels, Zenon
  <2>3. e \in Json[d]
    <3>1. LuaToJson[d][v] \subseteq Sayable[d]
      BY PlainEncodes, Zenon DEF Encodes
    <3> QED BY <3>1, SayableIsBoth
  <2> QED BY <2>2, <2>3, PushLevels, Zenon
<1>2. ASSUME NEW v \in PlainAtoms, NEW enc, NEW pushed, NEW e \in EncodingsOf(v, enc)
       PROVE PushOf(e, whole, pushed) = v
  <2>1. v \in ScalarsOver(LuaInts, Shown, Finite)
    BY Zenon DEF PlainAtoms
  <2>2. EncodingsOf(v, enc) = {v}
    BY <2>1, ScalarEncodings, Zenon
  <2>3. e = v
    BY <2>2
  <2> QED BY <2>1, <2>3, PlainComesBack
<1>3. 0 \in Good
  <2>1. ASSUME NEW v \in PlainLua[0], NEW e \in LuaToJson[0][v] PROVE Push(whole)[0][e] = v
    <3>1. v \in PlainAtoms
      BY PlainIs, Zenon
    <3> QED BY <1>1, <1>2, <3>1, DepthIs
  <2> QED BY <2>1, NilComesBack, DepthIs DEF Returns
<1>4. ASSUME NEW d \in 1..Depth, d - 1 \in Good PROVE d \in Good
  <2> DEFINE W == PlainLua[d - 1]
             J == Sayable[d - 1]
             enc == LuaToJson[d - 1]
             pushed == Push(whole)[d - 1]
  <2>1. Returns(W, enc, pushed) /\ d \in 0..Depth /\ d # 0 /\ d - 1 \in 0..Depth
    BY <1>4, DepthIs, Zenon
  <2>2. Encodes(W, enc, J) /\ Absent \notin J
    BY <2>1, PlainEncodes, SayableIsBoth, NoneIsNoValue
  <2>3. PlainLua[d] = PlainAtoms \cup Tables(W, PlainShapes)
    BY PlainIs, Zenon
  <2>4. \A v \in PlainLua[d] : \A e \in LuaToJson[d][v] :
          e \in EncodingsOf(v, enc) /\ Push(whole)[d][e] = PushOf(e, whole, pushed)
    BY <1>1, <2>1, Zenon DEF Below
  <2> HIDE DEF W, J, enc, pushed
  <2>5. ASSUME NEW v \in PlainLua[d], NEW e \in LuaToJson[d][v] PROVE Push(whole)[d][e] = v
    <3>1. CASE v \in PlainAtoms
      <4>1. e \in EncodingsOf(v, enc) /\ Push(whole)[d][e] = PushOf(e, whole, pushed)
        BY <2>4
      <4>2. PushOf(e, whole, pushed) = v
        BY <1>2, <3>1, <4>1
      <4> QED BY <4>1, <4>2, Zenon
    <3>2. CASE v \in Tables(W, PlainShapes)
      <4>1. PICK f \in [Keys -> W \cup {Nil}] : v = <<"tbl", f>> /\ Present(f) \in PlainShapes
        BY <3>2, TableIs
      <4>2. e \in EncodingsOf(<<"tbl", f>>, enc)
        BY <2>4, <4>1
      <4>3. ListLike(f) \/ Present(f) \subseteq {"str"} \X Shown
        BY <4>1, PlainShapesAre, Zenon
      <4>4. PushOf(e, whole, pushed) = <<"tbl", f>>
        <5>1. CASE Present(f) \subseteq {"str"} \X Shown
          BY <2>1, <2>2, <4>2, <5>1, ObjectComesBack
        <5>2. CASE ListLike(f)
          BY <2>1, <2>2, <4>2, <5>2, ListComesBack
        <5> QED BY <4>3, <5>1, <5>2
      <4> QED BY <2>4, <4>1, <4>4, Zenon
    <3> QED BY <2>3, <3>1, <3>2
  <2>6. \A e \in LuaToJson[d][Nil] : Push(whole)[d][e] = Nil
    BY <2>1, NilComesBack
  <2>7. Returns(PlainLua[d], LuaToJson[d], Push(whole)[d])
    BY <2>5, <2>6 DEF Returns
  <2> QED BY <2>1, <2>7, Zenon
<1>5. \A d \in 0..Depth : d \in Good
  <2> HIDE DEF Good
  <2> QED BY <1>3, <1>4, DepthIs, Upwards
<1> QED BY <1>5, Zenon
-----------------------------------------------------------------------------
(* One level of the decoders next to each other.                           *)

CleanAtoms == ScalarsOver(JsonInts, Shown, Finite) \cup {Null}
LosslessAtoms == ScalarsOver(LuaInts, Shown, Finite)

LEMMA CleanIs ==
  /\ CleanJson[0] = CleanAtoms
  /\ \A d \in 1..Depth :
       CleanJson[d] = CleanAtoms \cup Arrays(CleanJson[d - 1], 0..Highest)
                      \cup Objects(CleanJson[d - 1], Shown)
<1> DEFINE L == JsonOver(CleanAtoms, Shown, 0..Highest)
<1>1. CleanJson = L
  BY Zenon DEF CleanJson, CleanAtoms
<1>2. /\ L[0] = CleanAtoms
      /\ \A d \in 1..Depth : L[d] = CleanAtoms \cup Arrays(L[d - 1], 0..Highest)
                      \cup Objects(L[d - 1], Shown)
  BY JsonLevels
<1> HIDE DEF L
<1> QED BY <1>1, <1>2

LEMMA LosslessIs ==
  /\ LosslessJson[0] = LosslessAtoms
  /\ \A d \in 1..Depth :
       LosslessJson[d] =
         LosslessAtoms \cup Arrays(LosslessJson[d - 1], 1..Highest) \cup Objects(LosslessJson[d - 1], Shown)
<1> DEFINE L == JsonOver(LosslessAtoms, Shown, 1..Highest)
<1>1. LosslessJson = L
  BY Zenon DEF LosslessJson, LosslessAtoms
<1>2. /\ L[0] = LosslessAtoms
      /\ \A d \in 1..Depth : L[d] = LosslessAtoms \cup Arrays(L[d - 1], 1..Highest)
                      \cup Objects(L[d - 1], Shown)
  BY JsonLevels
<1> HIDE DEF L
<1> QED BY <1>1, <1>2

LEMMA AtomsAreFewer ==
  LosslessAtoms \subseteq CleanAtoms /\ CleanAtoms \subseteq JsonAtoms /\ LosslessAtoms \subseteq SayableAtoms
<1>1. /\ \A n \in LuaInts : n \in JsonInts
      /\ \A s \in Shown : s \in Utf8
  BY BoundsAre, ShownIs DEF LuaInts, JsonInts
<1>2. ScalarsOver(LuaInts, Shown, Finite) \subseteq ScalarsOver(JsonInts, Shown, Finite)
  BY <1>1, ScalarIs
<1>3. ScalarsOver(JsonInts, Shown, Finite) \subseteq ScalarsOver(JsonInts, Utf8, Finite)
  BY <1>1, ScalarIs
<1>4. ScalarsOver(LuaInts, Shown, Finite) \subseteq ScalarsOver(LuaInts, Utf8, Finite)
  BY <1>1, ScalarIs
<1> QED BY <1>2, <1>3, <1>4 DEF LosslessAtoms, CleanAtoms, JsonAtoms, SayableAtoms

LEMMA CleanIsJson ==
  \A d \in 0..Depth :
    /\ LosslessJson[d] \subseteq CleanJson[d] /\ CleanJson[d] \subseteq Json[d]
    /\ LosslessJson[d] \subseteq Sayable[d]
<1>1. 1..Highest \subseteq 0..Highest /\ Shown \subseteq Utf8
  BY BoundsAre, ShownIs
<1>2. /\ LosslessJson = JsonOver(LosslessAtoms, Shown, 1..Highest)
      /\ CleanJson = JsonOver(CleanAtoms, Shown, 0..Highest)
      /\ Json = JsonOver(JsonAtoms, Utf8, 0..Highest)
      /\ Sayable = JsonOver(SayableAtoms, Utf8, 0..Highest)
  BY Zenon DEF LosslessJson, LosslessAtoms, CleanJson, CleanAtoms, Json, JsonAtoms, Sayable
<1>3. \A d \in 0..Depth :
        JsonOver(LosslessAtoms, Shown, 1..Highest)[d] \subseteq JsonOver(CleanAtoms, Shown, 0..Highest)[d]
  BY <1>1, AtomsAreFewer, DocumentsGrow
<1>4. \A d \in 0..Depth :
        JsonOver(CleanAtoms, Shown, 0..Highest)[d] \subseteq JsonOver(JsonAtoms, Utf8, 0..Highest)[d]
  BY <1>1, AtomsAreFewer, DocumentsGrow
<1>5. \A d \in 0..Depth :
        JsonOver(LosslessAtoms, Shown, 1..Highest)[d] \subseteq JsonOver(SayableAtoms, Utf8, 0..Highest)[d]
  BY <1>1, AtomsAreFewer, DocumentsGrow
<1> QED BY <1>2, <1>3, <1>4, <1>5, Zenon

SameOn(C, p, q) == \A e \in C : p[e] = q[e]

LEMMA ArraysAgree ==
  ASSUME NEW C, NEW p, NEW q, SameOn(C, p, q), NEW a \in Seq(C), NEW one, NEW other
  PROVE  ArrayAsTable(a, one, p) = ArrayAsTable(a, other, q)
<1> DEFINE t == ArrayAsTable(a, one, p)
           u == ArrayAsTable(a, other, q)
<1>1. ListEntries(t, a, p) /\ ListEntries(u, a, q)
  BY ArrayAsTableIs
<1> HIDE DEF t, u
<1>2. \A i \in 1..Len(a) : p[a[i]] = q[a[i]]
  <2>1. \A i \in 1..Len(a) : a[i] \in C
    OBVIOUS
  <2> QED BY <2>1, Zenon DEF SameOn
<1>3. /\ t = [k \in Keys |-> t[k]] /\ u = [k \in Keys |-> u[k]]
      /\ \A k \in Keys : /\ t[k] = IF k[1] = "int" /\ k[2] \in 1..Len(a) THEN p[a[k[2]]] ELSE Nil
                         /\ u[k] = IF k[1] = "int" /\ k[2] \in 1..Len(a) THEN q[a[k[2]]] ELSE Nil
  BY <1>1, Zenon DEF ListEntries
<1>4. ASSUME NEW k \in Keys PROVE t[k] = u[k]
  BY <1>2, <1>3
<1>5. t = u
  BY <1>3, <1>4, Zenon
<1> QED BY <1>5, Zenon DEF t, u

LEMMA ObjectsAgree ==
  ASSUME NEW C, NEW p, NEW q, SameOn(C, p, q), NEW o \in [Strings -> C \cup {Absent}]
  PROVE  ObjectAsTable(o, p) = ObjectAsTable(o, q)
<1> DEFINE t == ObjectAsTable(o, p)
           u == ObjectAsTable(o, q)
<1>1. NamedEntries(t, o, p) /\ NamedEntries(u, o, q)
  BY ObjectAsTableIs, Zenon
<1> HIDE DEF t, u
<1>2. ASSUME NEW s, CutTo(o, s) # {} PROVE p[o[LastName(CutTo(o, s))]] = q[o[LastName(CutTo(o, s))]]
  <2>1. CutTo(o, s) \subseteq Strings /\ \A n \in CutTo(o, s) : o[n] # Absent
    BY DEF CutTo, Names
  <2>2. LastName(CutTo(o, s)) \in CutTo(o, s)
    BY <1>2, <2>1, LastNameIs, Zenon
  <2>3. o[LastName(CutTo(o, s))] \in C
    BY <2>1, <2>2
  <2> QED BY <2>3, Zenon DEF SameOn
<1>3. /\ t = [k \in Keys |-> t[k]] /\ u = [k \in Keys |-> u[k]]
      /\ \A k \in Keys :
           /\ t[k] = IF k[1] = "str" /\ CutTo(o, k[2]) # {} THEN p[o[LastName(CutTo(o, k[2]))]] ELSE Nil
           /\ u[k] = IF k[1] = "str" /\ CutTo(o, k[2]) # {} THEN q[o[LastName(CutTo(o, k[2]))]] ELSE Nil
  BY <1>1, Zenon DEF NamedEntries
<1>4. ASSUME NEW k \in Keys PROVE t[k] = u[k]
  BY <1>2, <1>3
<1>5. t = u
  BY <1>3, <1>4, Zenon
<1> QED BY <1>5, Zenon DEF t, u

LEMMA CleanAtomsAgree ==
  ASSUME NEW p, NEW q, NEW j \in CleanAtoms
  PROVE  PushOf(j, FALSE, p) = PushOf(j, TRUE, q)
<1>1. PushOf(Null, FALSE, p) = PushOf(Null, TRUE, q)
  BY PushNull, Zenon
<1>2. \A n : PushOf(IntOf(n), FALSE, p) = PushOf(IntOf(n), TRUE, q)
  <2> TAKE n
  <2>1. PushOf(IntOf(n), FALSE, p) = IntOf(Wrapped(n)) /\ PushOf(IntOf(n), TRUE, q) = IntOf(Wrapped(n))
    BY PushInt, Zenon
  <2> QED BY <2>1, Zenon
<1>3. ASSUME NEW s \in Shown PROVE PushOf(StrOf(s), FALSE, p) = PushOf(StrOf(s), TRUE, q)
  <2>1. PushOf(StrOf(s), TRUE, q) = StrOf(s) /\ PushOf(StrOf(s), FALSE, p) = StrOf(CStr[s])
    BY PushStr, Zenon
  <2>2. CStr[s] = s
    BY ShownIs, Zenon
  <2> QED BY <2>1, <2>2, Zenon
<1>4. \A x : PushOf(<<"other", x>>, FALSE, p) = PushOf(<<"other", x>>, TRUE, q)
  BY PushOther, Zenon
<1>5. CASE j = Null
  BY <1>1, <1>5
<1>6. ASSUME NEW n, j = IntOf(n) PROVE PushOf(j, FALSE, p) = PushOf(j, TRUE, q)
  BY <1>2, <1>6
<1>7. ASSUME NEW s \in Shown, j = StrOf(s) PROVE PushOf(j, FALSE, p) = PushOf(j, TRUE, q)
  BY <1>3, <1>7
<1>8. ASSUME NEW x, j = <<"other", x>> PROVE PushOf(j, FALSE, p) = PushOf(j, TRUE, q)
  BY <1>4, <1>8
<1>9. j = Null \/ (\E n : j = IntOf(n)) \/ (\E s \in Shown : j = StrOf(s)) \/ (\E x : j = <<"other", x>>)
  BY ScalarIs DEF CleanAtoms
<1> QED BY <1>5, <1>6, <1>7, <1>8, <1>9, Zenon

\* Both decoders make the same of a document without a byte 0, at every depth.
LEMMA CleanAgrees == \A d \in 0..Depth : SameOn(CleanJson[d], Push(FALSE)[d], Push(TRUE)[d])
<1> DEFINE Good == {d \in 0..Depth : SameOn(CleanJson[d], Push(FALSE)[d], Push(TRUE)[d])}
<1>1. ASSUME NEW d \in 0..Depth, NEW j \in CleanJson[d], NEW whole
      PROVE  Push(whole)[d][j] = PushOf(j, whole, Below(Push(whole), d))
  <2>1. j \in Json[d]
    BY CleanIsJson
  <2> QED BY <2>1, PushLevels, Zenon
<1>2. 0 \in Good
  <2>1. ASSUME NEW j \in CleanJson[0] PROVE Push(FALSE)[0][j] = Push(TRUE)[0][j]
    <3>1. j \in CleanAtoms
      BY CleanIs, Zenon
    <3>2. /\ Push(FALSE)[0][j] = PushOf(j, FALSE, Below(Push(FALSE), 0))
          /\ Push(TRUE)[0][j] = PushOf(j, TRUE, Below(Push(TRUE), 0))
      BY <1>1, DepthIs, Zenon
    <3> QED BY <3>1, <3>2, CleanAtomsAgree, Zenon
  <2> QED BY <2>1, DepthIs, Zenon DEF SameOn
<1>3. ASSUME NEW d \in 1..Depth, d - 1 \in Good PROVE d \in Good
  <2> DEFINE C == CleanJson[d - 1]
             p == Push(FALSE)[d - 1]
             q == Push(TRUE)[d - 1]
  <2>1. SameOn(C, p, q) /\ d \in 0..Depth /\ d # 0
    BY <1>3, DepthIs, Zenon
  <2>2. CleanJson[d] = CleanAtoms \cup Arrays(C, 0..Highest) \cup Objects(C, Shown)
    BY CleanIs, Zenon
  <2>3. \A j \in CleanJson[d] : Push(FALSE)[d][j] = PushOf(j, FALSE, p)
                                 /\ Push(TRUE)[d][j] = PushOf(j, TRUE, q)
    BY <1>1, <2>1, Zenon DEF Below
  <2> HIDE DEF C, p, q
  <2>4. ASSUME NEW j \in CleanJson[d] PROVE PushOf(j, FALSE, p) = PushOf(j, TRUE, q)
    <3>1. CASE j \in CleanAtoms
      BY <3>1, CleanAtomsAgree, Zenon
    <3>2. CASE j \in Arrays(C, 0..Highest)
      <4>1. PICK a \in Seq(C) : j = <<"arr", a>>
        BY <3>2, ArrayIs
      <4>2. /\ PushOf(<<"arr", a>>, FALSE, p) = <<"tbl", ArrayAsTable(a, FALSE, p)>>
            /\ PushOf(<<"arr", a>>, TRUE, q) = <<"tbl", ArrayAsTable(a, TRUE, q)>>
        BY PushArray, Zenon
      <4>3. ArrayAsTable(a, FALSE, p) = ArrayAsTable(a, TRUE, q)
        <5>1. \A one, other : ArrayAsTable(a, one, p) = ArrayAsTable(a, other, q)
          BY <2>1, ArraysAgree
        <5> QED BY <5>1, Zenon
      <4> QED BY <4>1, <4>2, <4>3, Zenon
    <3>3. CASE j \in Objects(C, Shown)
      <4>1. PICK o \in [Strings -> C \cup {Absent}] : j = <<"obj", o>>
        BY <3>3, ObjectIs
      <4>2. /\ PushOf(<<"obj", o>>, FALSE, p) = <<"tbl", ObjectAsTable(o, p)>>
            /\ PushOf(<<"obj", o>>, TRUE, q) = <<"tbl", ObjectAsTable(o, q)>>
        BY PushObject, Zenon
      <4>3. ObjectAsTable(o, p) = ObjectAsTable(o, q)
        BY <2>1, ObjectsAgree
      <4> QED BY <4>1, <4>2, <4>3, Zenon
    <3> QED BY <2>2, <3>1, <3>2, <3>3
  <2>5. SameOn(CleanJson[d], Push(FALSE)[d], Push(TRUE)[d])
    BY <2>3, <2>4, Zenon DEF SameOn
  <2> QED BY <2>1, <2>5, Zenon
<1>4. \A d \in 0..Depth : d \in Good
  <2> HIDE DEF Good
  <2> QED BY <1>2, <1>3, DepthIs, Upwards
<1> QED BY <1>4, Zenon
-----------------------------------------------------------------------------
(* One level of the way back: documents in which nothing is lost.          *)

\* Whatever pushed makes of a document in C is a value, and enc makes that document
\* of it and nothing else.
Recovers(C, enc, pushed) == \A e \in C : pushed[e] # Nil /\ enc[pushed[e]] = {e}

LEMMA LosslessList ==
  ASSUME NEW C, NEW enc, NEW pushed, Recovers(C, enc, pushed), NEW whole,
         NEW a \in Seq(C), Len(a) \in 1..Highest
  PROVE  EncodingsOf(<<"tbl", ArrayAsTable(a, whole, pushed)>>, enc) = {<<"arr", a>>}
<1> DEFINE t == ArrayAsTable(a, whole, pushed)
           n == Len(a)
<1>1. ListEntries(t, a, pushed)
  BY ArrayAsTableIs
<1>2. n \in 1..Highest /\ n \in Nat /\ \A i \in 1..n : i \in 1..Highest /\ a[i] \in C
  BY BoundsAre
<1>3. a = [i \in 1..n |-> a[i]]
  OBVIOUS
<1> HIDE DEF t
<1>4. \A k \in Keys : t[k] = IF k[1] = "int" /\ k[2] \in 1..n THEN pushed[a[k[2]]] ELSE Nil
  BY <1>1, Zenon DEF ListEntries
<1> HIDE DEF n
<1>5. \A i \in 1..n : IntOf(i) \in Keys /\ IntOf(i) \in Positive /\ t[IntOf(i)] = pushed[a[i]]
                    /\ t[IntOf(i)] # Nil
  <2> TAKE i \in 1..n
  <2>1. IntOf(i) \in Keys /\ IntOf(i) \in Positive
    BY <1>2, KeysAre, Zenon
  <2>2. IntOf(i)[1] = "int" /\ IntOf(i)[2] = i
    BY MarksDiffer, Zenon
  <2>3. t[IntOf(i)] = pushed[a[i]]
    BY <1>4, <2>1, <2>2
  <2>4. pushed[a[i]] # Nil
    BY <1>2, Zenon DEF Recovers
  <2> QED BY <2>1, <2>3, <2>4
<1>6. \A i \in 1..n : IntOf(i) \in Present(t)
  BY <1>5, PresentIs
<1>7. \A k \in Present(t) : k[1] = "int" /\ k[2] \in 1..n /\ k = IntOf(k[2])
  <2> TAKE k \in Present(t)
  <2>1. k \in Keys /\ t[k] # Nil
    BY PresentIs
  <2>2. k[1] = "int" /\ k[2] \in 1..n
    BY <1>4, <2>1
  <2> QED BY <2>1, <2>2, KeyIs, Zenon
<1>8. ListLike(t)
  <2>1. n \in 1..n
    BY <1>2
  <2>2. IntOf(n) \in Present(t)
    BY <1>6, <2>1, Zenon
  <2>3. \A k \in Present(t) : k \in Positive
    BY <1>5, <1>7
  <2> QED BY <2>2, <2>3 DEF ListLike
<1>9. LastIndex(t) = n
  <2> DEFINE m == LastIndex(t)
  <2>1. m \in 1..Highest /\ IntOf(m) \in Present(t) /\ \A k \in Present(t) : k[2] <= m
    BY <1>8, LastIndexIs, Zenon
  <2>2. IntOf(m)[2] = m /\ IntOf(n)[2] = n
    BY MarksDiffer, Zenon
  <2> HIDE DEF m
  <2>3. m \in 1..n
    BY <1>7, <2>1, <2>2
  <2>4. n \in 1..n
    BY <1>2
  <2>5. n <= m
    BY <1>6, <2>1, <2>2, <2>4
  <2>6. m = n
    BY <1>2, <2>3, <2>5
  <2> QED BY <2>6, Zenon DEF m
<1> DEFINE may == ElementsOf(t, enc)
<1>10. \A i \in 1..n : may[i] = {a[i]}
  <2> TAKE i \in 1..n
  <2>1. may[i] = enc[t[IntOf(i)]]
    BY <1>9, Zenon DEF ElementsOf
  <2>2. t[IntOf(i)] = pushed[a[i]] /\ a[i] \in C
    BY <1>2, <1>5, Zenon
  <2>3. enc[pushed[a[i]]] = {a[i]}
    BY <2>2, Zenon DEF Recovers
  <2> HIDE DEF may
  <2> QED BY <2>1, <2>2, <2>3, Zenon
<1>11. \A j : j \in EncodingsOf(<<"tbl", t>>, enc) <=> \E g \in Picks(1..n, may) : j = <<"arr", g>>
  <2>1. EncodingsOf(<<"tbl", t>>, enc) = ArraysOf(t, enc)
    BY <1>8, TableEncodings, Zenon
  <2> QED BY <1>9, <2>1, ArraysOfIs
<1> HIDE DEF may
<1>12. ASSUME NEW g \in Picks(1..n, may) PROVE g = a
  <2>1. g = [i \in 1..n |-> g[i]] /\ \A i \in 1..n : g[i] \in may[i]
    BY PicksAre, Zenon
  <2>2. \A i \in 1..n : g[i] = a[i]
    BY <1>10, <2>1
  <2> QED BY <1>3, <2>1, <2>2, Zenon
<1>13. a \in Picks(1..n, may)
  <2>1. \A i \in 1..n : may[i] # {}
    BY <1>10
  <2>2. Picks(1..n, may) # {}
    BY <2>1, PicksExist, Zenon
  <2> QED BY <1>12, <2>2
<1>14. EncodingsOf(<<"tbl", t>>, enc) = {<<"arr", a>>}
  BY <1>11, <1>12, <1>13
<1> QED BY <1>14, Zenon DEF t

LEMMA LosslessObject ==
  ASSUME NEW C, Absent \notin C, NEW enc, NEW pushed, Recovers(C, enc, pushed),
         NEW o \in [Strings -> C \cup {Absent}], Names(o) \subseteq Shown
  PROVE  EncodingsOf(<<"tbl", ObjectAsTable(o, pushed)>>, enc) = {<<"obj", o>>}
<1> DEFINE t == ObjectAsTable(o, pushed)
           D == Names(o)
<1>1. \A k \in Keys : t[k] = IF k[1] = "str" /\ CutTo(o, k[2]) # {}
                             THEN pushed[o[LastName(CutTo(o, k[2]))]] ELSE Nil
  BY ObjectAsTableIs, Zenon DEF NamedEntries
<1>2. D \subseteq Strings /\ D \subseteq Shown /\ \A s \in D : o[s] \in C
  BY DEF Names
<1>3. \A s \in Strings : s \notin D => o[s] = Absent
  BY DEF Names
<1> HIDE DEF t
<1>4. \A s \in D : pushed[o[s]] # Nil /\ enc[pushed[o[s]]] = {o[s]}
  BY <1>2, Zenon DEF Recovers
<1>5. \A s : /\ s \in D => CutTo(o, s) = {s} /\ LastName(CutTo(o, s)) = s
             /\ s \notin D => CutTo(o, s) = {}
  BY CutToIs
<1> HIDE DEF D
<1>6. ASSUME NEW s \in D PROVE StrOf(s) \in Present(t) /\ t[StrOf(s)] = pushed[o[s]]
  <2>1. StrOf(s) \in Keys /\ StrOf(s)[1] = "str" /\ StrOf(s)[2] = s
    BY <1>2, ShownIs, MarksDiffer
  <2>2. t[StrOf(s)] = pushed[o[s]]
    BY <1>1, <1>5, <2>1
  <2> QED BY <1>4, <2>1, <2>2, PresentIs
<1>7. ASSUME NEW k \in Present(t) PROVE k \in {"str"} \X Shown /\ k[2] \in D /\ k = StrOf(k[2])
  <2>1. k \in Keys /\ t[k] # Nil
    BY PresentIs
  <2>2. k[1] = "str" /\ k[2] \in D
    BY <1>1, <1>5, <2>1
  <2>3. k = StrOf(k[2])
    BY <2>1, <2>2, KeyIs, Zenon
  <2>4. k \in {"str"} \X Shown
    BY <1>2, <2>2, <2>3 DEF StrOf
  <2> QED BY <2>2, <2>3, <2>4
<1>8. /\ ~ListLike(t)
      /\ \A s : s \in NamesOf(t) <=> s \in Shown /\ StrOf(s) \in Present(t)
      /\ \A k \in Present(t) : k = StrOf(NameOf(k))
  <2>1. Present(t) \subseteq {"str"} \X Shown
    BY <1>7
  <2> QED BY <2>1, ShownKeys, Zenon
<1>9. NamesOf(t) = D
  <2>1. ASSUME NEW s \in NamesOf(t) PROVE s \in D
    <3>1. StrOf(s) \in Present(t) /\ StrOf(s)[2] = s
      BY <1>8, MarksDiffer, Zenon
    <3> QED BY <1>7, <3>1
  <2>2. \A s \in D : s \in NamesOf(t)
    BY <1>2, <1>6, <1>8
  <2> QED BY <2>1, <2>2
<1> DEFINE may == ValuesOf(t, enc)
<1>10. \A s \in D : may[s] = {o[s]}
  <2> TAKE s \in D
  <2>1. \A e : e \in may[s] <=> \E k \in Present(t) : NameOf(k) = s /\ e \in enc[t[k]]
    BY <1>9, ValuesOfIs
  <2> HIDE DEF may
  <2>2. StrOf(s) \in Present(t) /\ NameOf(StrOf(s)) = s /\ enc[t[StrOf(s)]] = {o[s]}
    BY <1>2, <1>4, <1>6, ShownIs
  <2>3. \A k \in Present(t) : NameOf(k) = s => k = StrOf(s)
    BY <1>8, Zenon
  <2>4. \A e : e \in may[s] <=> e \in enc[t[StrOf(s)]]
    BY <2>1, <2>2, <2>3, Zenon
  <2> QED BY <2>2, <2>4
<1>11. EncodingsOf(<<"tbl", t>>, enc) = {ObjectOf(g) : g \in Picks(D, may)}
  <2>1. EncodingsOf(<<"tbl", t>>, enc) = ObjectsOf(t, enc)
    BY <1>8, TableEncodings, Zenon
  <2> QED BY <1>9, <2>1, Zenon DEF ObjectsOf
<1> HIDE DEF may
<1>12. ASSUME NEW g \in Picks(D, may) PROVE ObjectOf(g) = <<"obj", o>>
  <2>1. \A s \in D : may[s] \subseteq C
    BY <1>2, <1>10
  <2>2. PICK p : Holds(p, D, g, C)
    BY <1>2, <2>1, ObjectOfIs
  <2>3. /\ p \in [Strings -> C \cup {Absent}] /\ ObjectOf(g) = <<"obj", p>>
        /\ \A s \in D : p[s] = g[s]
        /\ \A s \in Strings : s \notin D => p[s] = Absent
    BY <2>2, Zenon DEF Holds
  <2>4. \A s \in D : g[s] \in may[s]
    BY PicksAre, Zenon
  <2>5. \A s \in Strings : p[s] = o[s]
    BY <1>3, <1>10, <2>3, <2>4
  <2>6. p = o
    BY <2>3, <2>5
  <2> QED BY <2>3, <2>6, Zenon
<1>13. Picks(D, may) # {}
  <2>1. \A s \in D : may[s] # {}
    BY <1>10
  <2> QED BY <2>1, PicksExist, Zenon
<1>14. EncodingsOf(<<"tbl", t>>, enc) = {<<"obj", o>>}
  BY <1>11, <1>12, <1>13
<1> QED BY <1>14, Zenon DEF t

\* A document in which nothing is lost encodes to itself again, at every depth.
LEMMA LosslessRecovers ==
  ASSUME NEW whole \in BOOLEAN
  PROVE  \A d \in 0..Depth : Recovers(LosslessJson[d], LuaToJson[d], Push(whole)[d])
<1> DEFINE Good == {d \in 0..Depth : Recovers(LosslessJson[d], LuaToJson[d], Push(whole)[d])}
<1>1. ASSUME NEW d \in 0..Depth, NEW j \in LosslessJson[d]
      PROVE  /\ Push(whole)[d][j] = PushOf(j, whole, Below(Push(whole), d))
             /\ LuaToJson[d][Push(whole)[d][j]] =
                  EncodingsOf(PushOf(j, whole, Below(Push(whole), d)), Below(LuaToJson, d))
  <2>1. j \in Json[d]
    BY CleanIsJson
  <2>2. Push(whole)[d][j] = PushOf(j, whole, Below(Push(whole), d))
    BY <2>1, PushLevels, Zenon
  <2>3. Push(whole)[d][j] \in Lua[d] \cup {Nil}
    BY <2>1, PushTypes DEF Pushes
  <2>4. LuaToJson[d][Push(whole)[d][j]] = EncodingsOf(Push(whole)[d][j], Below(LuaToJson, d))
    BY <2>3, EncodeLevels, Zenon
  <2> QED BY <2>2, <2>4, Zenon
<1>2. ASSUME NEW j \in LosslessAtoms, NEW enc, NEW pushed
      PROVE  PushOf(j, whole, pushed) # Nil /\ EncodingsOf(PushOf(j, whole, pushed), enc) = {j}
  <2>1. j \in ScalarsOver(LuaInts, Shown, Finite)
    BY Zenon DEF LosslessAtoms
  <2>2. PushOf(j, whole, pushed) = j
    BY <2>1, PlainComesBack
  <2>3. j # Nil
    BY <2>1, ScalarKinds
  <2>4. EncodingsOf(j, enc) = {j}
    BY <2>1, ScalarEncodings
  <2> QED BY <2>2, <2>3, <2>4, Zenon
<1>3. 0 \in Good
  <2>1. ASSUME NEW j \in LosslessJson[0]
        PROVE  Push(whole)[0][j] # Nil /\ LuaToJson[0][Push(whole)[0][j]] = {j}
    <3>1. j \in LosslessAtoms
      BY LosslessIs, Zenon
    <3>2. /\ PushOf(j, whole, Below(Push(whole), 0)) # Nil
          /\ EncodingsOf(PushOf(j, whole, Below(Push(whole), 0)), Below(LuaToJson, 0)) = {j}
      BY <1>2, <3>1, Zenon
    <3>3. /\ Push(whole)[0][j] = PushOf(j, whole, Below(Push(whole), 0))
          /\ LuaToJson[0][Push(whole)[0][j]] =
               EncodingsOf(PushOf(j, whole, Below(Push(whole), 0)), Below(LuaToJson, 0))
      BY <1>1, DepthIs, Zenon
    <3> QED BY <3>2, <3>3, Zenon
  <2> QED BY <2>1, DepthIs, Zenon DEF Recovers
<1>4. ASSUME NEW d \in 1..Depth, d - 1 \in Good PROVE d \in Good
  <2> DEFINE C == LosslessJson[d - 1]
             enc == LuaToJson[d - 1]
             pushed == Push(whole)[d - 1]
  <2>1. Recovers(C, enc, pushed) /\ d \in 0..Depth /\ d # 0 /\ d - 1 \in 0..Depth
    BY <1>4, DepthIs, Zenon
  <2>2. Absent \notin C
    BY <2>1, CleanIsJson, NoneIsNoValue
  <2>3. LosslessJson[d] = LosslessAtoms \cup Arrays(C, 1..Highest) \cup Objects(C, Shown)
    BY LosslessIs, Zenon
  <2>4. \A j \in LosslessJson[d] :
          /\ Push(whole)[d][j] = PushOf(j, whole, pushed)
          /\ LuaToJson[d][Push(whole)[d][j]] = EncodingsOf(PushOf(j, whole, pushed), enc)
    BY <1>1, <2>1, Zenon DEF Below
  <2> HIDE DEF C, enc, pushed
  <2>5. ASSUME NEW j \in LosslessJson[d]
        PROVE  PushOf(j, whole, pushed) # Nil /\ EncodingsOf(PushOf(j, whole, pushed), enc) = {j}
    <3>1. CASE j \in LosslessAtoms
      BY <1>2, <3>1, Zenon
    <3>2. CASE j \in Arrays(C, 1..Highest)
      <4>1. PICK a \in Seq(C) : j = <<"arr", a>> /\ Len(a) \in 1..Highest
        BY <3>2, ArrayIs
      <4> DEFINE t == <<"tbl", ArrayAsTable(a, whole, pushed)>>
      <4>2. PushOf(<<"arr", a>>, whole, pushed) = t /\ t # Nil
        <5>1. PushOf(<<"arr", a>>, whole, pushed) = t
          BY PushArray, Zenon
        <5>2. \A x : <<"tbl", x>> # Nil
          BY CompoundKinds, Zenon
        <5> QED BY <5>1, <5>2, Zenon
      <4>3. EncodingsOf(t, enc) = {<<"arr", a>>}
        BY <2>1, <4>1, LosslessList
      <4> HIDE DEF t
      <4> QED BY <4>1, <4>2, <4>3, Zenon
    <3>3. CASE j \in Objects(C, Shown)
      <4>1. PICK o \in [Strings -> C \cup {Absent}] : j = <<"obj", o>> /\ Names(o) \subseteq Shown
        BY <3>3, ObjectIs
      <4> DEFINE t == <<"tbl", ObjectAsTable(o, pushed)>>
      <4>2. PushOf(<<"obj", o>>, whole, pushed) = t /\ t # Nil
        <5>1. PushOf(<<"obj", o>>, whole, pushed) = t
          BY PushObject, Zenon
        <5>2. \A x : <<"tbl", x>> # Nil
          BY CompoundKinds, Zenon
        <5> QED BY <5>1, <5>2, Zenon
      <4>3. EncodingsOf(t, enc) = {<<"obj", o>>}
        BY <2>1, <2>2, <4>1, LosslessObject
      <4> HIDE DEF t
      <4> QED BY <4>1, <4>2, <4>3, Zenon
    <3> QED BY <2>3, <3>1, <3>2, <3>3
  <2>6. Recovers(LosslessJson[d], LuaToJson[d], Push(whole)[d])
    BY <2>4, <2>5, Zenon DEF Recovers
  <2> QED BY <2>1, <2>6, Zenon
<1>5. \A d \in 0..Depth : d \in Good
  <2> HIDE DEF Good
  <2> QED BY <1>3, <1>4, DepthIs, Upwards
<1> QED BY <1>5, Zenon
-----------------------------------------------------------------------------
(* What holds of every call.                                               *)

\* A result is there once its call was answered, and is the one of the call.
Converted ==
  /\ call \in Calls
  /\ call \in PlainCalls => Answers
  /\ Done("encode") => \E j \in LuaToJson[Depth][call.arg] : got = <<AsText[Depth][j]>>
  /\ Done("decode") => got = <<Push(FALSE)[Depth][call.arg], Push(TRUE)[Depth][call.arg]>>

\* Which calls are whose.
LEMMA CallsAre ==
  ASSUME call \in Calls
  PROVE  /\ call.fn \in {"url", "proxy", "require"} => call \in PlainCalls
         /\ call.fn = "encode" => call.arg \in LuaValues /\ call \notin PlainCalls
         /\ call.fn = "decode" => call.arg \in JsonTexts /\ call \notin PlainCalls
BY DEF Calls, PlainCalls

LEMMA ConvertedHolds == Spec => []Converted
<1>1. Init => Converted
  <2> SUFFICES ASSUME Init PROVE Converted
    OBVIOUS
  <2>1. call \in Calls /\ got = <<>>
    BY DEF Init
  <2>2. call \in PlainCalls => Answers
    BY <2>1 DEF Answers
  <2> QED BY <2>1, <2>2 DEF Converted, Done
<1>2. ASSUME Converted, [Next]_<<call, got>> PROVE Converted'
  <2> USE <1>2 DEF Converted
  <2>1. CASE UNCHANGED <<call, got>>
    BY <2>1 DEF Done, Answers
  <2>2. CASE ArgumentsNext
    <3>1. call' = call /\ call.fn \in {"url", "proxy", "require"}
      BY <2>2 DEF ArgumentsNext, NormalizeUrl, TakeProxy, ReturnModule, Called
    <3>2. call \in PlainCalls /\ Answers
      BY <3>1, CallsAre
    <3>3. Answers'
      <4>1. CASE NormalizeUrl
        BY <3>2, <4>1 DEF Answers, NormalizeUrl, Called
      <4>2. CASE TakeProxy
        BY <3>2, <4>2 DEF Answers, TakeProxy, Called
      <4>3. CASE ReturnModule
        BY <3>2, <4>3 DEF Answers, ReturnModule, Called
      <4> QED BY <2>2, <4>1, <4>2, <4>3 DEF ArgumentsNext
    <3> QED BY <3>1, <3>3 DEF Done
  <2>3. CASE EncodeValue
    <3>1. /\ call' = call /\ call.fn = "encode"
          /\ \E j \in LuaToJson[Depth][call.arg] : got' = <<AsText[Depth][j]>>
      BY <2>3 DEF EncodeValue, Called, TextsOf
    <3>2. call \notin PlainCalls
      BY <3>1, CallsAre
    <3> QED BY <3>1, <3>2 DEF Done
  <2>4. CASE DecodeText
    <3>1. /\ call' = call /\ call.fn = "decode"
          /\ got' = <<Push(FALSE)[Depth][call.arg], Push(TRUE)[Depth][call.arg]>>
      BY <2>4 DEF DecodeText, Called
    <3>2. call \notin PlainCalls
      BY <3>1, CallsAre
    <3> QED BY <3>1, <3>2 DEF Done
  <2> QED BY <1>2, <2>1, <2>2, <2>3, <2>4 DEF Next
<1> QED BY <1>1, <1>2, PTL DEF Spec

LEMMA EncodedIs ==
  ASSUME Converted, Done("encode")
  PROVE  /\ call.arg \in Lua[Depth]
         /\ \E j \in LuaToJson[Depth][call.arg] : got[1] = AsText[Depth][j]
<1>1. call.arg \in LuaValues
  BY CallsAre DEF Converted, Done
<1>2. PICK j \in LuaToJson[Depth][call.arg] : got = <<AsText[Depth][j]>>
  BY DEF Converted
<1>3. got[1] = AsText[Depth][j]
  BY <1>2
<1>4. call.arg \in Lua[Depth]
  BY <1>1, ConversionsAssumption
<1> QED BY <1>2, <1>3, <1>4, Zenon

LEMMA DecodedIs ==
  ASSUME Converted, Done("decode")
  PROVE  /\ call.arg \in Json[Depth]
         /\ got = <<Push(FALSE)[Depth][call.arg], Push(TRUE)[Depth][call.arg]>>
         /\ got[1] = Push(FALSE)[Depth][call.arg] /\ got[2] = Push(TRUE)[Depth][call.arg]
<1>1. call.arg \in JsonTexts
  BY CallsAre DEF Converted, Done
<1>2. call.arg \in Json[Depth]
  BY <1>1, ConversionsAssumption
<1>3. got = <<Push(FALSE)[Depth][call.arg], Push(TRUE)[Depth][call.arg]>>
  BY Zenon DEF Converted
<1> QED BY <1>2, <1>3

\* Whatever a script encodes has the text of a document, unless dump throws, and
\* whatever it decodes is a Lua value or nil, at every depth and for tables of all
\* sizes: LuaToJson names every key with a string, dump writes nothing that JSON cannot
\* spell, and get<int64_t>() brings unsigned numbers into Lua's range
\* (json_lua.h:23-182, json_library.cc:17-83).
THEOREM ConversionsTyped == Spec => []ConversionsTypeOK
<1>1. ASSUME Converted PROVE ConversionsTypeOK
  <2>1. ASSUME Done("encode") PROVE got[1] \in Json[Depth] \cup {Thrown}
    <3>1. call.arg \in Lua[Depth]
      BY <1>1, <2>1, EncodedIs, Zenon
    <3>2. PICK j \in LuaToJson[Depth][call.arg] : got[1] = AsText[Depth][j]
      BY <1>1, <2>1, EncodedIs, Zenon
    <3>3. LuaToJson[Depth][call.arg] \subseteq Built[Depth]
      BY <3>1, EncodeTypes, DepthIs DEF Encodes
    <3>4. j \in Built[Depth]
      BY <3>3
    <3> QED BY <3>2, <3>4, TextTypes, DepthIs, Zenon DEF Says
  <2>2. ASSUME Done("decode") PROVE got \in (Lua[Depth] \cup {Nil}) \X (Lua[Depth] \cup {Nil})
    <3>1. /\ call.arg \in Json[Depth]
          /\ got = <<Push(FALSE)[Depth][call.arg], Push(TRUE)[Depth][call.arg]>>
      BY <1>1, <2>2, DecodedIs, Zenon
    <3>2. \A whole \in BOOLEAN : Push(whole)[Depth][call.arg] \in Lua[Depth] \cup {Nil}
      BY <3>1, PushTypes, DepthIs DEF Pushes
    <3>3. Push(FALSE)[Depth][call.arg] \in Lua[Depth] \cup {Nil}
           /\ Push(TRUE)[Depth][call.arg] \in Lua[Depth] \cup {Nil}
      BY <3>2
    <3> QED BY <3>1, <3>3
  <2> QED BY <2>1, <2>2, Zenon DEF ConversionsTypeOK
<1> QED BY <1>1, ConvertedHolds, PTL

\* What a script encodes has a text, and decoded again it is what it was, with either
\* decoder: lists whose keys are 1 to n and tables with string names, of integers, UTF-8
\* strings, booleans and finite floats, nested to every depth and of every size
\* (json_lua.h:23-65, 98-182, json_library.cc:17-83).
THEOREM ValuesComeBack == Spec => []JsonRoundTrip
<1>1. ASSUME Converted PROVE JsonRoundTrip
  <2>1. ASSUME Done("encode"), call.arg \in PlainLua[Depth]
        PROVE  got[1] # Thrown /\ got[1] \in LuaToJson[Depth][call.arg]
    <3>1. PICK j \in LuaToJson[Depth][call.arg] : got[1] = AsText[Depth][j]
      BY <1>1, <2>1, EncodedIs, Zenon
    <3>2. LuaToJson[Depth][call.arg] \subseteq Sayable[Depth]
      BY <2>1, PlainEncodes, DepthIs DEF Encodes
    <3>3. j \in Sayable[Depth]
      BY <3>2
    <3>4. AsText[Depth][j] = j /\ j # Thrown
      BY <3>3, TextKeeps, DepthIs, Zenon DEF SaysThemselves
    <3> QED BY <3>1, <3>4, Zenon
  <2>2. ASSUME Done("encode"), call.arg \in PlainLua[Depth], NEW whole \in BOOLEAN
        PROVE  Push(whole)[Depth][got[1]] = call.arg
    <3>1. Returns(PlainLua[Depth], LuaToJson[Depth], Push(whole)[Depth])
      BY PlainReturns, DepthIs
    <3> QED BY <2>1, <2>2, <3>1 DEF Returns
  <2> QED BY <2>1, <2>2, Zenon DEF JsonRoundTrip
<1> QED BY <1>1, ConvertedHolds, PTL

\* json.decode and the decoder of the libraries agree on documents without a byte 0,
\* and a document in which nothing is lost encodes to itself and nothing else, in
\* whatever order lua_next visits the keys (json_lua.h:23-182, json_library.cc:17-58).
THEOREM DecodersMakeTheSame == Spec => []DecodersAgree
<1>1. ASSUME Converted PROVE DecodersAgree
  <2>1. ASSUME Done("decode"), call.arg \in CleanJson[Depth] PROVE got[1] = got[2]
    <3>1. got[1] = Push(FALSE)[Depth][call.arg] /\ got[2] = Push(TRUE)[Depth][call.arg]
      BY <1>1, <2>1, DecodedIs, Zenon
    <3>2. Push(FALSE)[Depth][call.arg] = Push(TRUE)[Depth][call.arg]
      BY <2>1, CleanAgrees, DepthIs, Zenon DEF SameOn
    <3> QED BY <3>1, <3>2, Zenon
  <2>2. ASSUME Done("decode"), call.arg \in LosslessJson[Depth] PROVE TextsOf(got[1]) = {call.arg}
    <3>1. got[1] = Push(FALSE)[Depth][call.arg]
      BY <1>1, <2>2, DecodedIs, Zenon
    <3>2. Recovers(LosslessJson[Depth], LuaToJson[Depth], Push(FALSE)[Depth])
      BY LosslessRecovers, DepthIs
    <3>3. LuaToJson[Depth][Push(FALSE)[Depth][call.arg]] = {call.arg}
      BY <2>2, <3>2, Zenon DEF Recovers
    <3>4. AsText[Depth][call.arg] = call.arg
      <4>1. call.arg \in Sayable[Depth]
        BY <2>2, CleanIsJson, DepthIs
      <4> QED BY <4>1, TextKeeps, DepthIs, Zenon DEF SaysThemselves
    <3>5. TextsOf(got[1]) = {AsText[Depth][j] : j \in {call.arg}}
      BY <3>1, <3>3, Zenon DEF TextsOf
    <3> QED BY <3>4, <3>5
  <2> QED BY <2>1, <2>2, Zenon DEF DecodersAgree
<1> QED BY <1>1, ConvertedHolds, PTL

\* Calls of the json library next to them leave the promises of Arguments as they are:
\* each of its calls is answered as if there were no others.
THEOREM ArgumentsHold ==
  Spec => [](UrlMeansTheSame /\ UrlIsAccepted /\ ProxyReadsBack /\ PortInRange /\ ModuleReturned)
<1>1. ASSUME Converted
      PROVE  UrlMeansTheSame /\ UrlIsAccepted /\ ProxyReadsBack /\ PortInRange /\ ModuleReturned
  <2>1. CASE call \in PlainCalls
    <3>1. Answers
      BY <1>1, <2>1, Zenon DEF Converted
    <3> QED BY <3>1, UrlAnswerMeansTheSame, UrlAnswerIsAccepted, ProxyAnswer, PortAnswer,
               ModuleAnswer, Zenon
  <2>2. CASE call \notin PlainCalls
    <3>1. ~Done("url") /\ ~Done("proxy") /\ ~Done("require")
      BY <1>1, <2>2, CallsAre DEF Converted, Done
    <3> QED BY <3>1, Zenon DEF UrlMeansTheSame, UrlIsAccepted, ProxyReadsBack, PortInRange, ModuleReturned
  <2> QED BY <2>1, <2>2
<1> QED BY <1>1, ConvertedHolds, PTL
===============================================================================
