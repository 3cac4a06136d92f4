------------------------------ MODULE MCSlamDb ------------------------------
EXTENDS SlamDb

Words == {"insert", "update", "t", "set", "where", "cond", ",", "=", "'", "NUL"}

MCByte == Words \cup {"a", "b", "1", "num", "numstr", "str"}

MCClientText == {<< >>, <<"a">>, <<"b", "a", "b">>}

\* every write of an insert or update is one word, name or value, or nothing
MCText == MCClientText \cup {<<w>> : w \in MCByte}

\* an empty record, all records with the keys a and b, and one with a number
MCRecord ==
  {<< >>, [k \in {"1"} |-> "num"], [k \in {"1", "a"} |-> "str"]}
  \cup UNION {[ks -> {"num", "numstr", "str", "bool", "table"}] : ks \in {{"a"}, {"a", "b"}}}

Column == [type : {"int", "text", "other"}, text : {"7", "NULL"}]

\* no row, and one or two rows of one column
MCResult == {<< >>} \cup {<<[c |-> x]>> : x \in Column} \cup {<<[c |-> x], [c |-> y]>> : x, y \in Column}
=============================================================================
