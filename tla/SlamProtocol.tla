---------------------------- MODULE SlamProtocol ----------------------------
(***************************************************************************)
(* Lua and the protocol: slam_protocol.c, the message registry and cache   *)
(* of MessageBuilder/, the calls into Lua (slam_lua_event.c, slam_lua_pcall*)
(* of slam_lua.c) and the calls out of Lua (cc.loadmsg, cc.bindmsg,        *)
(* cc.response and cc.newtimer of slam_lua_func.c).                        *)
(*                                                                         *)
(* Both ends of a connection run the program with the same bindings: what  *)
(* cc.response encodes comes back as a package to decode.  The worker      *)
(* thread makes one call into Lua at a time; Lua code runs while handling  *)
(* holds a call.  The order of start, entry file and stop is SlamMain's.   *)
(***************************************************************************)
EXTENDS SlamCodec

CONSTANTS MaxId,        \* MAX_MESSAGE_ID
          MaxLength,    \* max_package_size, less the head of a package
          MaxStack,     \* bound: slots that are left on the Lua stack
          LuaTable,     \* the tables that Lua code makes up for a response
          PeerMessage,  \* type name -> messages that another program sends
          CtxValue,     \* the values that Lua code gives a timer
          EventKind,    \* of the events start, stop, establish and lost
          None

VARIABLES known,      \* the descriptor pool: the types that were imported
          regtable,   \* msgid -> None, or the type in the registered name
          messages,   \* MessageParser::_messages: msgid -> None or [type, content]
          registry,   \* the msgids with a function in LUA_REGISTRYINDEX
          stack,      \* the Lua stack, by what the slots hold
          handling,   \* None, or the call into Lua that runs
          net,        \* None, or a package on its way
          left        \* since the last cleanup: tables and nils left behind

vars == <<known, regtable, messages, registry, stack, handling, net, left>>

MsgId == 0 .. MaxId - 1

\* what each event pushes for the function it calls
Args(kind) ==
  CASE kind \in {"entry", "start", "stop"} -> << >>
    [] kind \in {"establish", "lost"} -> <<"fd">>
    [] kind = "message" -> <<"fd", "msgid", "t">>
    [] kind = "timer" -> <<"ref", "ctx">>

\* slam_lua_pcall up to lua_pcall: __G_TRACKBACK__, when Lua defines it, is
\* inserted below the function and its arguments
Called(s, kind, g) ==
  LET a == Args(kind)
      t == s \o <<"func">> \o a
  IN  IF g THEN InsertAt(t, Len(t) - Len(a), "G") ELSE t

Call(kind, s, id, got) ==
  \E g \in BOOLEAN :
    /\ stack' = Called(s, kind, g)
    /\ handling' = [kind |-> kind, id |-> id, got |-> got, g |-> g]

\* mutant: the error path forgets __G_TRACKBACK__
PoppedOne(s, kind, g, error) ==
  SubSeq(s, 1, Len(s) - Len(Args(kind)) - 1 - (IF g /\ ~error THEN 1 ELSE 0))

\* slam_lua_pcall from lua_pcall on, which replaces function and arguments by
\* one result or error: that is popped, and __G_TRACKBACK__ with it
Popped(s, kind, g, error) ==
  LET r == Append(SubSeq(s, 1, Len(s) - Len(Args(kind)) - 1), IF error THEN "error" ELSE "result")
  IN  SubSeq(r, 1, Len(r) - (IF g THEN 2 ELSE 1))

Init ==
  /\ known = {}
  /\ regtable = [i \in MsgId |-> None]
  /\ messages = [i \in MsgId |-> None]
  /\ registry = {}
  /\ \E g \in BOOLEAN :
       /\ stack = Called(<< >>, "entry", g)
       /\ handling = [kind |-> "entry", id |-> None, got |-> None, g |-> g]
  /\ net = None
  /\ left = [tables |-> 0, nils |-> 0]

-----------------------------------------------------------------------------
(* Lua code runs.                                                          *)

\* cc.loadmsg: the first file that cannot be imported ends the walk, what was
\* imported before it stays
LoadMsg ==
  /\ handling # None /\ handling.kind = "entry"    \* bound
  /\ \E types \in SUBSET DOMAIN Descriptor : known' = known \cup types
  /\ UNCHANGED <<regtable, messages, registry, stack, handling, net, left>>

\* MessageParser::RegisteMessage
CanRegister(id, type) == messages[id] = None /\ type \in known

\* slam_protocol_reg_message
RegMessage(id, type) ==
  /\ id \in MsgId /\ regtable[id] = None
  /\ CanRegister(id, type)
  /\ messages' = [messages EXCEPT ![id] = [type |-> type, content |-> Empty(type)]]
  /\ regtable' = [regtable EXCEPT ![id] = type]

\* mutant: the function of a registered name is not stored
BindMsgOnly(id, type) ==
  /\ handling # None
  /\ RegMessage(id, type)
  /\ UNCHANGED <<known, registry, stack, handling, net, left>>

\* cc.bindmsg: the function is stored under the registered name
BindMsg(id, type) ==
  /\ handling # None
  /\ RegMessage(id, type)
  /\ registry' = registry \cup {id}
  /\ UNCHANGED <<known, stack, handling, net, left>>

\* mutant: the cached message is not cleared
ClearedNot(m) == m

\* message->Clear() of the message that is cached for a msgid
Cleared(m) == [m EXCEPT !.content = Empty(m.type)]

\* luaT_message_parser_encode into the cached message
Encoded(m, table) == {EncodeDescriptor(m.type, m.content, table, z) : z \in BOOLEAN}

\* slam_protocol_encode: a package that is too long is sent as well
Package(id, payload, table) ==
  [id |-> id, type |-> messages[id].type, payload |-> payload, source |-> table]

\* cc.response; slam_io_response may refuse the package
Respond(id, table) ==
  /\ handling # None /\ net = None
  /\ messages[id] # None
  /\ \E e \in Encoded(Cleared(messages[id]), table), accepted \in BOOLEAN :
       /\ messages' = [messages EXCEPT ![id].content = e.value]
       /\ net' = IF e.ok /\ accepted THEN Package(id, e.value, table) ELSE None
  /\ UNCHANGED <<known, regtable, registry, stack, handling, left>>

\* the ctx of cc.newtimer: lua_isnumber holds for a string that is a number;
\* a whole number becomes an integer; what is not supported stays nil
Converted(v) ==
  CASE v[1] = "bool" -> v
    [] v[1] \in {"int", "whole", "numstr"} -> <<"int", v[2]>>
    [] v[1] = "number" -> v
    [] v[1] = "str" -> v
    [] OTHER -> <<"nil">>

\* The function returns or fails; after a timer slam_lua_cleanup empties the stack.
Return ==
  /\ handling # None
  /\ handling' = None
  /\ \E error \in BOOLEAN :
       LET s == Popped(stack, handling.kind, handling.g, error)
       IN  stack' = IF handling.kind = "timer" THEN << >> ELSE s
  /\ left' = IF handling.kind = "timer" THEN [tables |-> 0, nils |-> 0] ELSE left
  /\ UNCHANGED <<known, regtable, messages, registry, net>>

-----------------------------------------------------------------------------
(* The worker thread calls Lua.                                            *)

Idle == handling = None /\ Len(stack) < MaxStack

\* start, stop, establish_connection and lost_connection: the nil of a global
\* that is not defined stays on the stack
Event(kind) ==
  /\ Idle
  /\ \/ Call(kind, stack, None, None) /\ UNCHANGED left
     \/ /\ stack' = Append(stack, "nil")
        /\ left' = [left EXCEPT !.nils = @ + 1]
        /\ UNCHANGED handling
  /\ UNCHANGED <<known, regtable, messages, registry, net>>

\* slam_lua_event_timer, for a timer that Lua made with the ctx v
TimerFires ==
  /\ handling = None
  /\ \E v \in CtxValue : Call("timer", stack, None, [given |-> v, ctx |-> Converted(v)])
  /\ UNCHANGED <<known, regtable, messages, registry, net, left>>

\* another program at the other end
PeerSends ==
  /\ handling = None /\ net = None
  /\ \E id \in MsgId, type \in DOMAIN Descriptor :
       \E p \in PeerMessage[type] \cup {None} :    \* None: bytes that do not parse
         net' = [id |-> id, type |-> type, payload |-> p, source |-> None]
  /\ UNCHANGED <<known, regtable, messages, registry, stack, handling, left>>

\* a package without payload
IsEmpty(p) == p.payload # None /\ Length(p.type, p.payload) = 0

\* the socket drops the connection of a package that is too long
IsTooLong(p) == p.payload # None /\ Length(p.type, p.payload) >= MaxLength

TooLong ==
  /\ net # None /\ IsTooLong(net)
  /\ net' = None
  /\ UNCHANGED <<known, regtable, messages, registry, stack, handling, left>>

\* ParseFromArray: the bytes of another type count as bytes that do not parse
Parses(p) == p.payload # None /\ p.type = messages[p.id].type

\* MessageBuilderDecode up to the table
Accepted(p) == ~IsEmpty(p) /\ messages[p.id] # None /\ Parses(p)

\* slam_protocol_decode refuses a package; a payload that cannot be parsed
\* leaves the cached message in some state, the next user clears it
Refuse ==
  /\ handling = None /\ net # None /\ ~IsTooLong(net) /\ ~Accepted(net)
  /\ net' = None
  /\ messages' = IF IsEmpty(net) \/ messages[net.id] = None THEN messages
                 ELSE [messages EXCEPT ![net.id] = Cleared(@)]
  /\ UNCHANGED <<known, regtable, registry, stack, handling, left>>

\* slam_protocol_decode and slam_lua_event_message: the table stays on the
\* stack, and so does the nil of a function that is not found
Decode ==
  /\ Idle /\ net # None /\ ~IsTooLong(net) /\ Accepted(net)
  /\ net' = None
  /\ LET type == messages[net.id].type
         content == net.payload
         s == Append(stack, "t")
     IN  /\ messages' = [messages EXCEPT ![net.id].content = content]
         /\ IF net.id \in registry /\ regtable[net.id] # None
            THEN Call("message", s, net.id, DecodeDescriptor(type, content))
            ELSE stack' = Append(s, "nil") /\ UNCHANGED handling
  /\ left' = [left EXCEPT !.tables = @ + 1]
  /\ UNCHANGED <<known, regtable, registry>>

Next ==
  \/ LoadMsg
  \/ \E id \in -1 .. MaxId, type \in DOMAIN Descriptor : BindMsg(id, type)
  \/ \E id \in MsgId, table \in LuaTable : Respond(id, table)
  \/ /\ handling # None /\ handling.kind = "message"    \* Lua passes on what it got
     /\ \E id \in MsgId : Respond(id, handling.got)
  \/ Return
  \/ \E kind \in EventKind : Event(kind)
  \/ TimerFires
  \/ PeerSends
  \/ TooLong
  \/ Refuse
  \/ Decode

Spec == Init /\ [][Next]_vars

-----------------------------------------------------------------------------
(* Lua's function gets what was meant for it.  The table of a message      *)
(* handler says what the table said that the other side gave cc.response:  *)
(* integers wrap at 32 bits, what was not given has its default, an absent *)
(* submessage is a table without fields, a list keeps its order unless it  *)
(* was itself decoded (keys from 0, encoded in the order of lua_next), and *)
(* nothing of an earlier message of the cache is in it.  A timer's function*)
(* gets the ctx given to cc.newtimer, with a numeric string as an integer  *)
(* and nil for what a slam_lua_value cannot hold.                          *)
LuaGetsWhatWasGiven ==
  [][handling = None /\ handling' # None =>
       /\ handling'.kind = "message" /\ net.source # None =>
            Says(regtable[net.id], net.source, handling'.got)
       /\ handling'.kind = "timer" =>
            LET v == handling'.got.given
            IN  handling'.got.ctx = CASE v[1] \in {"whole", "numstr"} -> <<"int", v[2]>>
                                      [] v[1] = "table" -> <<"nil">>
                                      [] OTHER -> v]_vars

(* Between two calls the Lua stack holds one table for every message that  *)
(* was decoded and one nil for every event without a function since the    *)
(* last timer, and nothing else: slam_lua_pcall is balanced on every path. *)
StackAccounted ==
  handling = None =>
    /\ left.tables = Cardinality({i \in DOMAIN stack : stack[i] = "t"})
    /\ left.nils = Cardinality({i \in DOMAIN stack : stack[i] = "nil"})
    /\ Len(stack) = left.tables + left.nils

(* A response that slam_io_response took is handed to the function bound   *)
(* at the other side.  It is lost only when all its fields have their      *)
(* defaults (no payload, refused by MessageBuilderDecode) or when it is    *)
(* longer than the other side's socket takes.                              *)
ResponseHandled ==
  [][net # None /\ net' = None /\ net.source # None =>
       \/ IsEmpty(net) \/ IsTooLong(net)
       \/ handling' # None /\ handling'.kind = "message" /\ handling'.id = net.id]_vars
=============================================================================
