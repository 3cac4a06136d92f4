--------------------------- MODULE MCSlamProtocol ---------------------------
EXTENDS SlamProtocol

MCDescriptor ==
  [Outer |-> [n |-> [many |-> FALSE, type |-> "int"],
              s |-> [many |-> FALSE, type |-> "str"],
              m |-> [many |-> FALSE, type |-> "Inner"],
              r |-> [many |-> TRUE,  type |-> "Inner"]],
   Inner |-> [x |-> [many |-> FALSE, type |-> "int"]]]

X(i) == <<"table", [x |-> <<"int", i>>]>>
Nothing == <<"table", << >>>>

Full(n, s, m, r) == <<"table", [n |-> n, s |-> s, m |-> m, r |-> r]>>
nil == <<"nil">>
five == <<"int", 5>>    \* does not fit the width

\* nothing, an array, a table for each type, with an odd value in each field,
\* and one with all fields, which is too long
MCLuaTable ==
  {Nothing, <<"list", <<X(1)>>>>, X(1),
   Full(five, five, nil, nil),
   Full(<<"bool">>, <<"str", "a">>, Nothing, nil),
   Full(nil, <<"bool">>, nil, nil),
   Full(nil, nil, five, nil),
   Full(nil, nil, nil, <<"list", <<X(1), X(2)>>>>),
   Full(nil, nil, nil, <<"list", <<X(1), <<"bool">>>>>>),
   Full(five, <<"str", "a">>, X(1), <<"list", <<X(1), X(2)>>>>)}

MCPeerMessage ==
  [Outer |-> {Empty("Outer"), [Empty("Outer") EXCEPT !.n = 1]}, Inner |-> {[x |-> -1]}]

MCCtxValue == {<<"whole", 2>>, <<"number", 2>>, <<"numstr", 2>>, <<"str", "a">>, Nothing}
=============================================================================
