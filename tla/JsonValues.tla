------------------------------ MODULE JsonValues ------------------------------
(***************************************************************************)
(* The conversions of json_lua.h and json_library.cc between Lua values    *)
(* and JSON values.  A scalar is <<"int", n>>, <<"str", s>> or             *)
(* <<"other", x>> (a float, a boolean).  A Lua table is <<"tbl", f>>: f    *)
(* gives the value of every key, Nil where there is none.  A JSON value is *)
(* a scalar, Null, <<"arr", elements>> or <<"obj", g>>: g gives the value  *)
(* of every name, Absent where there is none.  A value that LuaToJson      *)
(* built may hold what no text can say; a document, which is a parsed      *)
(* text, holds UTF-8 strings and finite numbers only.                      *)
(***************************************************************************)
EXTENDS Integers, Sequences, FiniteSets

CONSTANTS Strings,           \* the strings of scripts and documents
          CStr,              \* string -> what a char* shows of it, up to a byte 0
          After,             \* string -> how many come after it, as std::string orders them
          Utf8,              \* those of Strings that are UTF-8
          Others,            \* floats and booleans
          Finite,            \* those of Others that are not inf or NaN
          MaxInteger,        \* 2^63 - 1
          Lowest, Highest,   \* the integer keys of tables, and how long arrays get
          Printed,           \* integer key -> its digits, of std::to_string
          Depth              \* how deep tables and documents are nested

Nil == <<"nil">>
Null == <<"null">>
Absent == <<"absent">>
Opaque == <<"fun">>          \* a function, userdata or a coroutine
IntOf(n) == <<"int", n>>
StrOf(s) == <<"str", s>>

LuaInts == (-MaxInteger - 1)..MaxInteger
JsonInts == (-MaxInteger - 1)..(2 * MaxInteger + 1)     \* the upper half unsigned

ASSUME JsonAssumption ==
  /\ "" \in Utf8 /\ Utf8 \subseteq Strings /\ Finite \subseteq Others
  /\ CStr \in [Strings -> Strings] /\ After \in [Strings -> Nat]
  /\ \A s \in Utf8 : CStr[s] \in Utf8
  /\ MaxInteger \in Nat /\ Depth \in Nat
  /\ Lowest \in LuaInts /\ Lowest <= 1 /\ Highest \in LuaInts /\ Highest >= 0
  /\ Printed \in [Lowest..Highest -> Utf8]

-----------------------------------------------------------------------------
(* The values, by how deep they are nested.                                *)

ScalarsOver(ints, strings, others) ==
  ({"int"} \X ints) \cup ({"str"} \X strings) \cup ({"other"} \X others)

Keys == ScalarsOver(Lowest..Highest, Strings, Others)

Present(f) == {k \in Keys : f[k] # Nil}
Names(g) == {n \in Strings : g[n] # Absent}

\* Tables with values in V, whose keys make up one of the shapes; and arrays and
\* objects with values in V, of given lengths and names.
Tables(V, shapes) == {"tbl"} \X {f \in [Keys -> V \cup {Nil}] : Present(f) \in shapes}
Arrays(V, lengths) == {"arr"} \X {a \in Seq(V) : Len(a) \in lengths}
Objects(V, names) == {"obj"} \X {g \in [Strings -> V \cup {Absent}] : Names(g) \subseteq names}

LuaOver(atoms, shapes) ==
  LET level[d \in 0..Depth] ==
        IF d = 0 THEN atoms ELSE atoms \cup Tables(level[d - 1], shapes)
  IN level

JsonOver(atoms, names, lengths) ==
  LET level[d \in 0..Depth] ==
        IF d = 0 THEN atoms
        ELSE atoms \cup Arrays(level[d - 1], lengths) \cup Objects(level[d - 1], names)
  IN level

Lua == LuaOver(ScalarsOver(LuaInts, Strings, Others) \cup {Opaque}, SUBSET Keys)
Built == JsonOver(ScalarsOver(LuaInts, Strings, Others) \cup {Null}, Strings, 0..Highest)
Json == JsonOver(ScalarsOver(JsonInts, Utf8, Finite) \cup {Null}, Utf8, 0..Highest)

-----------------------------------------------------------------------------
(* LuaToJson.                                                              *)

Positive == {"int"} \X (1..Highest)
ListLike(f) == Present(f) # {} /\ Present(f) \subseteq Positive

\* Mutant: the loop over the elements ends before the last one.
LastIndexExclusive(f) == Cardinality(Present(f)) - 1

LastIndex(f) == CHOOSE n \in 1..Highest : IntOf(n) \in Present(f) /\ \A k \in Present(f) : k[2] <= n

\* The name under which an object keeps a key: strings as C strings, integers
\* printed, and every other key without a name.
NameOf(key) ==
  CASE key[1] = "str" -> CStr[key[2]]
    [] key[1] = "int" -> Printed[key[2]]
    [] OTHER          -> ""

\* The functions on S with a value out of may[x] for each x.
Picks(S, may) == {g \in [S -> UNION {may[x] : x \in S}] : \A x \in S : g[x] \in may[x]}

\* The arrays and the objects that a table may become, if encodings gives that for
\* the values in it.  lua_next visits the keys in an order of its own, and a later key
\* of a name replaces the earlier ones: any of them may be the last.
ArraysOf(f, encodings) ==
  {"arr"} \X Picks(1..LastIndex(f), [i \in 1..LastIndex(f) |-> encodings[f[IntOf(i)]]])

NamesOf(f) == {NameOf(k) : k \in Present(f)}
ValuesOf(f, encodings) ==
  [n \in NamesOf(f) |-> UNION {encodings[f[k]] : k \in {k \in Present(f) : NameOf(k) = n}}]
ObjectOf(g) == <<"obj", [n \in Strings |-> IF n \in DOMAIN g THEN g[n] ELSE Absent]>>
ObjectsOf(f, encodings) == {ObjectOf(g) : g \in Picks(NamesOf(f), ValuesOf(f, encodings))}

EncodingsOf(v, encodings) ==
  IF v \in {Nil, Opaque} THEN {Null}
  ELSE IF v[1] # "tbl" THEN {v}
  ELSE IF ListLike(v[2]) THEN ArraysOf(v[2], encodings)
  ELSE ObjectsOf(v[2], encodings)

LuaToJson ==
  LET level[d \in 0..Depth] ==
        [v \in Lua[d] \cup {Nil} |-> EncodingsOf(v, IF d = 0 THEN <<>> ELSE level[d - 1])]
  IN level

-----------------------------------------------------------------------------
(* dump and parse: what the text of a built value says.                    *)

\* dump throws on a string that is not UTF-8, and nothing catches it.
Thrown == <<"thrown">>

\* Inf and NaN are written as null.
TextOf(j, said) ==
  CASE j = Null          -> Null
    [] j[1] = "int"      -> j
    [] j[1] = "str"      -> IF j[2] \in Utf8 THEN j ELSE Thrown
    [] j[1] = "other"    -> IF j[2] \in Finite THEN j ELSE Null
    [] j[1] = "arr"      -> IF \E i \in DOMAIN j[2] : said[j[2][i]] = Thrown THEN Thrown
                            ELSE <<"arr", [i \in DOMAIN j[2] |-> said[j[2][i]]]>>
    [] j[1] = "obj"      -> IF \E n \in Names(j[2]) : n \notin Utf8 \/ said[j[2][n]] = Thrown
                            THEN Thrown
                            ELSE ObjectOf([n \in Names(j[2]) |-> said[j[2][n]]])

AsText ==
  LET level[d \in 0..Depth] == [j \in Built[d] |-> TextOf(j, IF d = 0 THEN <<>> ELSE level[d - 1])]
  IN level

-----------------------------------------------------------------------------
(* The two decoders.                                                       *)

\* Mutant: PushJson's arrays begin at index 0.
FirstIndexOfEach(whole) == IF whole THEN 0 ELSE 1

FirstIndex(whole) == 1

\* Mutant: the number as it is.
Unwrapped(n) == n

\* get<int64_t>() of a number_unsigned.
Wrapped(n) == IF n > MaxInteger THEN n - 2 * (MaxInteger + 1) ELSE n

\* Fields are set by C strings, one name after the other: of those that are cut to
\* the same one, the last decides.
CutTo(obj, s) == {n \in Names(obj) : CStr[n] = s}
LastName(names) == CHOOSE n \in names : \A m \in names : After[n] <= After[m]

ArrayAsTable(arr, whole, pushed) ==
  [k \in Keys |-> IF k[1] = "int" /\ k[2] + 1 - FirstIndex(whole) \in DOMAIN arr
                  THEN pushed[arr[k[2] + 1 - FirstIndex(whole)]] ELSE Nil]

ObjectAsTable(obj, pushed) ==
  [k \in Keys |-> IF k[1] = "str" /\ CutTo(obj, k[2]) # {}
                  THEN pushed[obj[LastName(CutTo(obj, k[2]))]] ELSE Nil]

\* What a document is to Lua, if pushed gives that for its parts.  push_json_value,
\* of json.decode, pushes a string with lua_pushstring; PushJson (whole) with its length.
PushOf(j, whole, pushed) ==
  CASE j = Null       -> Nil
    [] j[1] = "int"   -> IntOf(Wrapped(j[2]))
    [] j[1] = "str"   -> IF whole THEN j ELSE StrOf(CStr[j[2]])
    [] j[1] = "arr"   -> <<"tbl", ArrayAsTable(j[2], whole, pushed)>>
    [] j[1] = "obj"   -> <<"tbl", ObjectAsTable(j[2], pushed)>>
    [] j[1] = "other" -> j

Push(whole) ==
  LET level[d \in 0..Depth] == [j \in Json[d] |-> PushOf(j, whole, IF d = 0 THEN <<>> ELSE level[d - 1])]
  IN level
=============================================================================
