------------------------------- MODULE MCDump -------------------------------
EXTENDS DumpRestore
MCItemOrder == <<"d", "bs", "bf", "a", "f", "g", "w", "t", "v">>
MCOwner == [i \in ToSet(MCItemOrder) |-> IF i \in {"bs", "bf"} THEN "b" ELSE i]
MCDropClass == [d |-> "DOMAIN", bs |-> "", bf |-> "TYPE", a |-> "AGGREGATE", f |-> "FUNCTION",
                g |-> "FUNCTION", w |-> "", t |-> "TABLE", v |-> "VIEW"]
MCSignatureEdges == {<<"f", "d">>, <<"f", "t">>, <<"g", "bs">>}

\* Routines, an aggregate, a view and an object without a DROP; a table and a
\* domain with defaults that call a routine; a base type of two stages.
Catalogs ==
    [need: SUBSET {<<"f", "g">>, <<"g", "f">>, <<"g", "t">>, <<"f", "d">>, <<"v", "f">>,
                   <<"f", "a">>, <<"a", "f">>, <<"w", "g">>},
     clause: {{}}]
    \cup
    [need: SUBSET {<<"t", "d">>, <<"f", "d">>, <<"f", "t">>, <<"t", "f">>, <<"v", "t">>, <<"f", "g">>},
     clause: SUBSET {<<"t", "f">>, <<"d", "f">>}]
    \cup
    [need: {{<<"bf", "bs">>, <<"g", "bs">>, <<"bf", "g">>} \cup x :
            x \in SUBSET {<<"t", "bf">>, <<"f", "bf">>, <<"g", "f">>, <<"f", "t">>, <<"v", "g">>}},
     clause: {{}, {<<"t", "f">>}}]
=============================================================================
