------------------------------ MODULE Conversions ------------------------------
(***************************************************************************)
(* The pure parts of the libraries, one call at a time: those of Arguments *)
(* and the two directions of the json library.                             *)
(***************************************************************************)
EXTENDS Arguments, JsonValues

CONSTANTS LuaValues,     \* the values given to json.encode
          JsonTexts      \* the documents given to json.decode, parsed

ASSUME ConversionsAssumption == LuaValues \subseteq Lua[Depth] /\ JsonTexts \subseteq Json[Depth]

-----------------------------------------------------------------------------
Calls == PlainCalls \cup [fn : {"encode"}, arg : LuaValues] \cup [fn : {"decode"}, arg : JsonTexts]

Init == call \in Calls /\ got = <<>>

\* What the text of a value may say.
TextsOf(v) == {AsText[Depth][j] : j \in LuaToJson[Depth][v]}

\* json_encode: LuaToJson, then dump.
EncodeValue == Called("encode") /\ \E j \in TextsOf(call.arg) : got' = <<j>>

\* json_decode, after the parser, and the same document through JsonToLuaValue.
DecodeText ==
  Called("decode") /\ got' = <<Push(FALSE)[Depth][call.arg], Push(TRUE)[Depth][call.arg]>>

Next == ArgumentsNext \/ EncodeValue \/ DecodeText

Spec == Init /\ [][Next]_<<call, got>>

-----------------------------------------------------------------------------
(* What survives.                                                          *)

\* UTF-8 strings without a byte 0.
Shown == {s \in Utf8 : CStr[s] = s}

\* Lists whose keys are 1 to n, and tables with string names, all the way down, of
\* such strings and finite numbers.
Lists == {{"int"} \X (1..n) : n \in 1..Highest}
PlainLua == LuaOver(ScalarsOver(LuaInts, Shown, Finite), Lists \cup SUBSET ({"str"} \X Shown))

\* Documents without a byte 0; and those also without a null, which a table cannot
\* hold, without an empty list, which is an empty object to the encoder, and without
\* a number that is none of Lua's.
CleanJson == JsonOver(ScalarsOver(JsonInts, Shown, Finite) \cup {Null}, Shown, 0..Highest)
LosslessJson == JsonOver(ScalarsOver(LuaInts, Shown, Finite), Shown, 1..Highest)

-----------------------------------------------------------------------------
(* Properties.                                                             *)

\* Whatever a script encodes is a document, unless dump throws, and whatever it
\* decodes is a Lua value or nil: names are strings, no number is out of range, and
\* the text holds no string or number that JSON cannot spell (json_lua.h:23-182,
\* json_library.cc:76-83).
ConversionsTypeOK ==
  /\ Done("encode") => got[1] \in Json[Depth] \cup {Thrown}
  /\ Done("decode") => got \in (Lua[Depth] \cup {Nil}) \X (Lua[Depth] \cup {Nil})

\* A value made of contiguous lists, tables with string names, UTF-8 strings and
\* finite numbers has a text, and that text decodes to the value with either decoder,
\* nested tables included: no table with string names turns into a list, no list into
\* a table (json_lua.h:98-182, json_library.cc:17-83).
JsonRoundTrip ==
  Done("encode") /\ call.arg \in PlainLua[Depth] =>
    got[1] # Thrown /\ \A whole \in BOOLEAN : Push(whole)[Depth][got[1]] = call.arg

\* The two decoders, json.decode's and the one for libraries, give the same value
\* for a document without a byte 0; and one in which nothing is lost encodes to itself
\* again, whatever the order of keys: an object with names like "1" does not become a
\* list (json_lua.h:23-65, json_library.cc:17-58).
DecodersAgree ==
  Done("decode") /\ call.arg \in CleanJson[Depth] =>
    /\ got[1] = got[2]
    /\ call.arg \in LosslessJson[Depth] => TextsOf(got[1]) = {call.arg}
=============================================================================
