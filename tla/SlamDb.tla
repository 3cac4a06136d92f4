------------------------------- MODULE SlamDb -------------------------------
(***************************************************************************)
(* slam_lua_db.c and db/: Lua inserts, updates, executes and queries over  *)
(* one MySQL connection.  The text of a statement is put together in a     *)
(* byte buffer, one slam_byte_buffer_write at a time, in the order in      *)
(* which lua_next visits the fields of a record.  A word of SQL, a name or *)
(* a value is one byte of the buffer.  Between the calls of Lua some other *)
(* code may use a byte buffer, to which nothing in SlamByteBuffer is       *)
(* special.  The MySQL client library and the server are external.         *)
(***************************************************************************)
EXTENDS SlamByteBuffer, FiniteSets, Functions, SlamJoined

CONSTANTS Record,       \* the Lua tables passed to insert and update
          Result,       \* the result sets the server may send
          InitSize,     \* the 4096 of cc_db_insert and cc_db_update
          ClientText,   \* what the other user of a byte buffer writes ...
          MaxClient     \* ... up to this length

\* what slam_lua_db.c puts into a statement besides names
Sql == {"insert", "update", "t", "set", "where", "cond", ",", "=", "'", "NUL", "num", "numstr", "str"}

\* a Lua value by what slam_lua_db_encode_value tells apart
Value == {"num", "numstr", "str", "bool", "table"}

ASSUME DbAssumption ==
  /\ InitSize \in Size
  /\ ClientText \subseteq Text
  /\ << >> \in Text /\ \A w \in Sql : <<w>> \in Text
  /\ \A record \in Record : \A k \in DOMAIN record :
       k # "none" /\ <<k>> \in Text /\ record[k] \in Value

\* A name with a zero byte in it would end the C string early.
ASSUME NameAssumption == \A record \in Record : "NUL" \notin DOMAIN record

VARIABLES call,         \* the C function Lua has called
          my,           \* the MYSQL handle and the session behind it
          ran,          \* how often the server has run the call's statement
          answer,       \* what the last call returned to Lua
          leaked        \* whether a byte buffer was lost

vars == <<buffer, call, my, ran, answer, leaked>>

Idle == [pc |-> "idle", op |-> "none", record |-> << >>, left |-> {}, where |-> FALSE,
         todo |-> << >>, key |-> "none", rc |-> TRUE]

Closed == [open |-> FALSE, link |-> FALSE, names |-> FALSE, pending |-> FALSE, again |-> FALSE]

Init ==
  /\ BufferInit
  /\ call = Idle /\ my = Closed
  /\ ran = 0 /\ answer = <<"none">> /\ leaked = FALSE

Ready == call.pc = "idle" /\ my.open /\ status = "none"

-----------------------------------------------------------------------------
(* The MySQL client library.                                               *)

\* the session a statement runs in: a link that is found broken is opened again
\* (MYSQL_OPT_RECONNECT), which gives a new session
Session ==
  IF my.link THEN my ELSE [my EXCEPT !.link = TRUE, !.names = FALSE, !.again = TRUE]

\* mysql_real_query returns rc.  Nothing is sent while a result is unread ("out
\* of sync") or without a link; else the server runs the statement or refuses
\* it, and its answer may be lost.
RealQuery(unread, rc) ==
  \/ rc = FALSE /\ ran' = 0 /\ UNCHANGED my
  \/ /\ ~my.pending
     /\ \E runs, lost \in BOOLEAN :
          /\ rc = (runs /\ ~lost)
          /\ ran' = IF runs THEN 1 ELSE 0
          /\ my' = [Session EXCEPT !.link = ~lost, !.pending = rc /\ unread]

\* the server, a timeout or the network ends the session
LinkLost ==
  /\ my.open /\ my.link
  /\ my' = [my EXCEPT !.link = FALSE]
  /\ UNCHANGED <<buffer, call, ran, answer, leaked>>

-----------------------------------------------------------------------------
(* Connecting, executing and querying.                                     *)

\* mutant: the names are set by nobody
ConnectedPlain(rc) == rc = TRUE /\ my' = [Closed EXCEPT !.open = TRUE, !.link = TRUE]

\* slam_db_connect, once mysql_real_connect has succeeded: SET NAMES UTF8
Connected(rc) ==
  \/ rc = TRUE /\ my' = [Closed EXCEPT !.open = TRUE, !.link = TRUE, !.names = TRUE]
  \/ rc = FALSE /\ my' = Closed

CcNewDb(rc) ==
  /\ call.pc = "idle" /\ ~my.open /\ status = "none"
  /\ Connected(rc)
  /\ answer' = IF rc THEN <<"db">> ELSE <<"nil">>
  /\ UNCHANGED <<buffer, call, ran, leaked>>

\* the collector finds the userdata
Gc ==
  /\ Ready
  /\ my' = Closed
  /\ UNCHANGED <<buffer, call, ran, answer, leaked>>

\* the statement sends a result or not: nothing in slam_db_execute takes it
CcExecute(sends, rc) ==
  /\ Ready
  /\ RealQuery(sends, rc)
  /\ answer' = <<"bool", rc>>
  /\ UNCHANGED <<buffer, call, leaked>>

\* a call with the wrong arguments does nothing
WrongArguments ==
  /\ Ready
  /\ ran' = 0
  /\ answer' \in {<<"bool", FALSE>>, <<"nil">>, <<"error">>}
  /\ UNCHANGED <<buffer, call, my, leaked>>

\* a column by its type: numbers are converted from text, which NULL has not
Crashes(row) == \E c \in DOMAIN row : row[c].type \in {"int", "real"} /\ row[c].text = "NULL"

Decoded(col) ==
  IF col.type = "text" /\ col.text = "NULL" THEN "" ELSE col.text

\* slam_lua_db_decode_result: a column of an unknown type is not set
DecodeResult(rows) ==
  [i \in 1 .. Len(rows) |->
     [c \in {d \in DOMAIN rows[i] : rows[i][d].type # "other"} |-> Decoded(rows[i][c])]]

\* mutant: the result is read only when a statement should have one
LeftOver(sends) == sends

\* mysql_store_result has taken the result before slam_db_query looks at it
Unread(sends) == FALSE

\* the statement sends no result, or one that mysql_store_result takes or loses
CcQuery(sends, rc) ==
  /\ Ready
  /\ RealQuery(Unread(sends), rc)
  /\ \/ /\ rc /\ sends
        /\ \E rows \in Result :
             IF \E i \in DOMAIN rows : Crashes(rows[i])
             THEN call' = [Idle EXCEPT !.pc = "crashed"] /\ UNCHANGED answer
             ELSE answer' = <<"rows", DecodeResult(rows)>> /\ UNCHANGED call
     \/ answer' = <<"nil">> /\ UNCHANGED call
  /\ UNCHANGED <<buffer, leaked>>

-----------------------------------------------------------------------------
(* cc_db_insert and cc_db_update.                                          *)

Begin(op, record, where) ==
  /\ Ready
  /\ New(InitSize)
  /\ call' = [Idle EXCEPT !.pc = "table", !.op = op, !.record = record, !.where = where,
                          !.left = DOMAIN record,
                          !.todo = <<<<op>>, <<"t">>, <<"set">>>>]
  /\ ran' = 0 /\ answer' = <<"none">>
  /\ UNCHANGED <<my, leaked>>

CcInsert(record) == Begin("insert", record, FALSE)
CcUpdate(record, where) == Begin("update", record, where)

\* the next slam_byte_buffer_write
WritePiece ==
  /\ call.todo # << >>
  /\ Write(Head(call.todo))
  /\ call' = [call EXCEPT !.todo = Tail(@)]
  /\ UNCHANGED <<my, ran, answer, leaked>>

\* slam_lua_db_encode_value: a string that reads as a number counts as one,
\* and lua_tolstring of a boolean is NULL with length 0
ValueText(v) ==
  CASE v \in {"num", "numstr"} -> <<<<v>>>>
    [] v = "str" -> <<<<"'">>, <<v>>, <<"'">>>>
    [] v = "bool" -> <<<< >>>>
    [] v = "table" -> << >>

\* mutant: nothing separates two fields
FieldTextNoComma(k, v) == <<<<k>>, <<"=">>>> \o ValueText(v)

\* the writes for one field, the comma included
FieldText(k, v) ==
  (IF call.key = "none" THEN << >> ELSE <<<<",">>>>) \o <<<<k>>, <<"=">>>> \o ValueText(v)

AtTable == call.pc = "table" /\ call.todo = << >>

\* lua_next finds another field.  lua_tolstring has turned a number that is the
\* key into a string, which lua_next will not find in the table.
NextField ==
  /\ AtTable /\ call.rc /\ call.key # "1"
  /\ \E k \in call.left :
       call' = [call EXCEPT !.left = @ \ {k}, !.key = k,
                            !.todo = FieldText(k, call.record[k]),
                            !.rc = call.record[k] # "table"]
  /\ UNCHANGED <<buffer, my, ran, answer, leaked>>

\* lua_next raises an error: the call ends, and nobody frees the buffer
NextThrows ==
  /\ AtTable /\ call.rc /\ call.key = "1"
  /\ Delete
  /\ leaked' = TRUE
  /\ call' = Idle /\ answer' = <<"error">>
  /\ UNCHANGED <<my, ran>>

LastText(where) == (IF where THEN <<<<"where">>, <<"cond">>>> ELSE << >>) \o <<<<"NUL">>>>

\* lua_next finds no other field
EndTable ==
  /\ AtTable /\ call.rc /\ call.left = {} /\ call.key # "1"
  /\ call' = [call EXCEPT !.pc = "run", !.todo = LastText(call.where)]
  /\ UNCHANGED <<buffer, my, ran, answer, leaked>>

\* a value of another type: slam_lua_db_encode_table gives up
BadValue ==
  /\ AtTable /\ ~call.rc
  /\ call' = [call EXCEPT !.pc = "delete"]
  /\ UNCHANGED <<buffer, my, ran, answer, leaked>>

\* mutant: the result of slam_db_execute is not looked at
ExecuteUnchecked(rc) ==
  /\ call.pc = "run" /\ call.todo = << >>
  /\ RealQuery(FALSE, rc)
  /\ call' = [call EXCEPT !.pc = "delete"]
  /\ UNCHANGED <<buffer, answer, leaked>>

Execute(rc) ==
  /\ call.pc = "run" /\ call.todo = << >>
  /\ RealQuery(FALSE, rc)
  /\ call' = [call EXCEPT !.pc = "delete", !.rc = rc]
  /\ UNCHANGED <<buffer, answer, leaked>>

\* mutant: the buffer is freed only when the statement was run
FinishedRun == IF call.rc THEN Delete ELSE UNCHANGED buffer

Finished == Delete

Finish ==
  /\ call.pc = "delete"
  /\ Finished
  /\ call' = Idle /\ answer' = <<"bool", call.rc>>
  /\ UNCHANGED <<my, ran, leaked>>

-----------------------------------------------------------------------------
(* Any other code that uses a byte buffer.                                 *)

\* its steps do not depend on the connection
ClientStarts ==
  /\ call.pc = "idle" /\ ~my.open
  /\ \E n \in Size : New(n)
  /\ call' = [Idle EXCEPT !.pc = "client"]
  /\ ran' = 0 /\ answer' = <<"none">>
  /\ UNCHANGED <<my, leaked>>

ClientUses ==
  /\ call.pc = "client"
  /\ \/ \E s \in ClientText : wlength + Len(s) <= MaxClient /\ Write(s)
     \/ \E n \in Size : Read(n) \/ ReadLength(n)
     \/ Clear \/ Reset
  /\ UNCHANGED <<call, my, ran, answer, leaked>>

ClientEnds ==
  /\ call.pc = "client"
  /\ Delete
  /\ call' = Idle
  /\ UNCHANGED <<my, ran, answer, leaked>>

Next ==
  \/ \E rc \in BOOLEAN : CcNewDb(rc) \/ Execute(rc)
  \/ \E rc, sends \in BOOLEAN : CcExecute(sends, rc) \/ CcQuery(sends, rc)
  \/ \E record \in Record : CcInsert(record) \/ \E where \in BOOLEAN : CcUpdate(record, where)
  \/ WritePiece \/ NextField \/ NextThrows \/ EndTable \/ BadValue \/ Finish
  \/ Gc \/ LinkLost \/ WrongArguments
  \/ ClientStarts \/ ClientUses \/ ClientEnds

Spec == Init /\ [][Next]_vars

-----------------------------------------------------------------------------
\* the C string that starts at slam_byte_buffer_readbuffer
CString ==
  LET ends == {i \in rlength + 1 .. capacity : bytes[i] = "NUL"}
  IN  IF ends = {} THEN <<Junk>>
      ELSE SubSeq(bytes, rlength + 1, (CHOOSE i \in ends : \A j \in ends : i <= j) - 1)

\* "Key = Value, ..." in the order ks
Assignments(record, ks) ==
  Joined([i \in 1 .. Len(ks) |->
    (IF i = 1 THEN << >> ELSE <<",">>) \o <<ks[i], "=">> \o
    (IF record[ks[i]] = "str" THEN <<"'", "str", "'">> ELSE <<record[ks[i]]>>)])

\* The statement that is executed names every field of the record once, with
\* its value, and ends where it should, whatever the order of lua_next and
\* however the buffer had to grow; a boolean, of which nothing is written, is
\* the exception.
StatementWhole ==
  call.pc = "run" /\ call.todo = << >> /\ (\A k \in DOMAIN call.record : call.record[k] # "bool") =>
    \E ks \in Injection(1 .. Cardinality(DOMAIN call.record), DOMAIN call.record) :
      CString = <<call.op, "t", "set">> \o Assignments(call.record, ks) \o
                (IF call.where THEN <<"where", "cond">> ELSE << >>)

\* Whatever fails, the buffer of an insert or update is freed when the call
\* ends, unless the record has a number for a key.
BufferReleased ==
  [][call.pc # "idle" /\ call'.pc = "idle" =>
       status' = "none" /\ (leaked' # leaked => "1" \in DOMAIN call.record)]_vars

\* insert, update and execute answer true only when the server has run the
\* statement, although the link may break at any time.
TrueMeansExecuted ==
  call.pc \in {"idle", "client"} /\ answer = <<"bool", TRUE>> => ran = 1

\* The session that Lua uses has the names of slam_db_connect until the library
\* has opened another one by itself.
NamesKept == my.open => my.names \/ my.again

\* Only db:execute of a statement that sends a result puts the connection out
\* of sync, however db:query ends.
OutOfSyncOnlyByExecute ==
  [][my'.pending /\ ~my.pending => answer' = <<"bool", TRUE>> /\ call.pc = "idle"]_vars
=============================================================================
