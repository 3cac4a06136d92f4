----------------------------- MODULE SlamCodec ------------------------------
(***************************************************************************)
(* MessageBuilder/luaT_message_parser.cpp: Lua tables to protobuf messages *)
(* and back, by reflection over the descriptor of a message type.          *)
(*                                                                         *)
(* A Lua value is a tuple that begins with its kind: <<"nil">>, <<"bool">>,*)
(* <<"int", i>>, <<"str", s>>, <<"table", f>> for a table with the fields  *)
(* of the function f, <<"list", s>> for an array with keys from 1 and      *)
(* <<"zlist", s>> for one with keys from 0.  A message maps every field of *)
(* its descriptor to a value: an integer, a string, a sequence for a       *)
(* repeated field, and a sequence of at most one message for a field of    *)
(* message type, which may be absent.  The wire format is protobuf's: it   *)
(* leaves out what has its default value and loses nothing.                *)
(***************************************************************************)
EXTENDS Integers, Sequences, FiniteSets, SequencesExt, TLC

CONSTANTS Descriptor,   \* type name -> (field -> [many, type])
          Width         \* the bits of an int32

Scalar == {"int", "str"}

\* the value of a field after Clear
Default(field) ==
  CASE ~field.many /\ field.type = "int" -> 0
    [] ~field.many /\ field.type = "str" -> ""
    [] OTHER -> << >>

Empty(type) == [f \in DOMAIN Descriptor[type] |-> Default(Descriptor[type][f])]

IsTable(v) == v[1] \in {"table", "list", "zlist"}

\* lua_gettable of a field's name
Get(v, name) ==
  IF v[1] = "table" /\ name \in DOMAIN v[2] THEN v[2][name] ELSE <<"nil">>

\* The values in the order of lua_next.  The element with key 0 is not in the
\* array part of a table: it comes last, or first (z) in other Lua versions.
Elements(v, z) ==
  CASE v[1] = "list" -> v[2]
    [] v[1] = "zlist" -> IF z \/ v[2] = << >> THEN v[2] ELSE Append(Tail(v[2]), Head(v[2]))
    [] v[1] = "table" -> LET ks == SetToSeq(DOMAIN v[2]) IN [i \in DOMAIN ks |-> v[2][ks[i]]]
    [] OTHER -> << >>

\* an int32_t from a lua_Integer
Int32(i) == ((i + 2^(Width - 1)) % 2^Width) - 2^(Width - 1)

\* lua_tointeger is 0 for what is no number
ToInteger(v) == IF v[1] = "int" THEN Int32(v[2]) ELSE 0

\* lua_tostring is NULL for what is neither string nor number, of which
\* std::string throws
HasText(v) == v[1] \in {"str", "int"}
ToText(v) == IF v[1] = "int" THEN ToString(v[2]) ELSE v[2]

-----------------------------------------------------------------------------
RECURSIVE EncodeDescriptor(_, _, _, _)

\* one value of a field: [ok, value]
EncodeValue(type, old, v, z) ==
  CASE type = "int" -> [ok |-> TRUE, value |-> ToInteger(v)]
    [] type = "str" -> [ok |-> HasText(v), value |-> IF HasText(v) THEN ToText(v) ELSE ""]
    [] OTHER -> EncodeDescriptor(type, old, v, z)

\* encodeFieldRepeated for each value that lua_next finds; nil cannot be one
EncodeRepeated(field, old, v, z) ==
  LET vs == IF IsTable(v) THEN Elements(v, z) ELSE << >>
      es == [i \in DOMAIN vs |->
               EncodeValue(field.type, IF field.type \in Scalar THEN 0 ELSE Empty(field.type), vs[i], z)]
  IN  [ok |-> \A i \in DOMAIN es : es[i].ok, value |-> old \o [i \in DOMAIN es |-> es[i].value]]

\* encodeFieldSimple; MutableMessage creates the submessage if it is absent
EncodeSimple(field, old, v, z) ==
  IF v[1] = "nil" THEN [ok |-> TRUE, value |-> old]
  ELSE IF field.type \in Scalar THEN EncodeValue(field.type, old, v, z)
  ELSE LET e == EncodeDescriptor(field.type, IF old = << >> THEN Empty(field.type) ELSE old[1], v, z)
       IN  [ok |-> e.ok, value |-> <<e.value>>]

\* What is set of a message when a field fails is of no use: the next user of
\* the message clears it.
EncodeDescriptor(type, old, v, z) ==
  LET d == Descriptor[type]
      e == [f \in DOMAIN d |-> IF d[f].many THEN EncodeRepeated(d[f], old[f], Get(v, f), z)
                               ELSE EncodeSimple(d[f], old[f], Get(v, f), z)]
  IN  [ok |-> IsTable(v) /\ \A f \in DOMAIN d : e[f].ok, value |-> [f \in DOMAIN d |-> e[f].value]]

-----------------------------------------------------------------------------
RECURSIVE DecodeDescriptor(_, _)

DecodeValue(type, x) ==
  CASE type = "int" -> <<"int", x>>
    [] type = "str" -> <<"str", x>>
    [] OTHER -> DecodeDescriptor(type, x)

\* decodeFieldDefaultValue of a submessage: a table without fields
DecodeAbsent == <<"table", << >>>>

\* a repeated field becomes a table with keys from 0
DecodeDescriptor(type, message) ==
  LET d == Descriptor[type]
  IN  <<"table", [f \in DOMAIN d |->
        CASE d[f].many ->
               <<"zlist", [i \in DOMAIN message[f] |-> DecodeValue(d[f].type, message[f][i])]>>
          [] ~d[f].many /\ d[f].type \in Scalar -> DecodeValue(d[f].type, message[f])
          [] OTHER -> IF message[f] = << >> THEN DecodeAbsent
                      ELSE DecodeDescriptor(d[f].type, message[f][1])]>>

\* how long a message is on the wire: what has its default value is left out
Length(type, message) ==
  LET d == Descriptor[type]
      set == {f \in DOMAIN d : message[f] # Default(d[f])}
  IN  Cardinality(UNION {{f} \X (IF d[f].many THEN DOMAIN message[f] ELSE {1}) : f \in set})

-----------------------------------------------------------------------------
(* What a table says, without the detour over a message.                   *)

RECURSIVE Says(_, _, _)

SaysValue(type, v, got) ==
  CASE type = "int" -> got = <<"int", ToInteger(v)>>
    [] type = "str" -> got = <<"str", IF v[1] = "nil" THEN "" ELSE ToText(v)>>
    [] OTHER -> IF v[1] = "nil" THEN got = <<"table", << >>>> ELSE Says(type, v, got)

\* the elements of a list one by one; of a list with key 0 in some order
SaysList(type, v, got) ==
  LET vs == IF IsTable(v) THEN Elements(v, TRUE) ELSE << >>
  IN  /\ got[1] = "zlist" /\ Len(got[2]) = Len(vs)
      /\ \E p \in Permutations(DOMAIN vs) :
           /\ v[1] = "list" => \A i \in DOMAIN vs : p[i] = i
           /\ \A i \in DOMAIN vs : SaysValue(type, vs[p[i]], got[2][i])

\* Lua got of a message of this type what the table v says.
Says(type, v, got) ==
  /\ got[1] = "table" /\ DOMAIN got[2] = DOMAIN Descriptor[type]
  /\ \A f \in DOMAIN Descriptor[type] :
       LET field == Descriptor[type][f]
       IN  IF field.many THEN SaysList(field.type, Get(v, f), got[2][f])
           ELSE SaysValue(field.type, Get(v, f), got[2][f])
=============================================================================
