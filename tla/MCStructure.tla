---------------------------- MODULE MCStructure ----------------------------
(***************************************************************************)
(* Designers "one", alone, with every change on any small table, "two" and *)
(* "three" with a few on the same, and the clients beside them.            *)
(***************************************************************************)
EXTENDS StructureEdits

Plainly(do, column, new) == Order(do, column, new, "", "")
Modify(f, to) == Order("modify column", "a", "", f, to)
Modifications == {Modify("", "")} \cup {Modify("base", b) : b \in {"int", "text", "time", "enum"}}
    \cup {Modify("length", "20"), Modify("values", "v"), Modify("null", "no"), Modify("note", "n")}
    \cup {Modify("def", x) : x \in {"none", "null", "current", "a", " a ", "0"}}
Additions == {Order("add column", after, new, f, to) : after \in {"", "first", "a"}, new \in {"A", "d"},
                 <<f, to>> \in {<<"", "">>, <<"def", "0">>, <<"base", "enum">>}}
             \cup {Order("add column", "", "d", "null", "no"), Order("add column", "", "d", "def", "current")}
Removals == {Plainly("drop column", c, "") : c \in {"a", "b"}}
            \cup {Plainly(w, "", x) : w \in {"drop index", "drop fk"}, x \in {"i", "f", "pk"}}
Renames == {Plainly("rename column", "a", x) : x \in {"a", "A", "b", "d"}} \cup {Plainly(w, "", "d") : w \in TableOps}
Links == {Plainly("add index", "a", x) : x \in {"i", "j"}} \cup {Plainly("add fk", "b", "g")}
Few == {Modify("", ""), Modify("null", "no"), Modify("def", "a"), Plainly("drop column", "a", ""),
        Plainly("drop column", "b", ""), Plainly("rename column", "a", "d"), Plainly("drop table", "", ""), Plainly("add fk", "b", "g")}
MCOrders == [d \in Designers |-> IF d = "one" THEN Modifications \cup Additions \cup Removals \cup Renames \cup Links ELSE Few]

\* A first column of every type, with every default and trait its engine has.
Leading(base) == Column(1, "a", base)
Second == Column(2, "b", "int")
FirstColumns(v) ==
    {[Leading("text") EXCEPT !.size = "10", !.def = d, !.traits = t] :
        d \in {NoDefault, Def("expression", "f()")} \cup {Def("literal", x) : x \in {"a", " a ", "'a'"}},
        t \in {{}, {"collation", "hidden"}}}
    \cup {[Leading("int") EXCEPT !.size = z, !.def = d] : z \in {"", "odd"}, d \in {Def("literal", "0"), Def("expression", "f()")}}
    \cup {[Leading("time") EXCEPT !.def = Def("expression", "now"), !.note = "m", !.traits = t] : t \in {{}, {"generated"}}}
    \cup {Leading("other")}
    \cup (IF v \in MySQLs
          THEN {[Leading("enum") EXCEPT !.size = z, !.def = Def("literal", "a"), !.traits = {"collation"}] : z \in {"v", "v,,"}}
               \cup {[Leading("int") EXCEPT !.traits = {"unsigned", "auto"}, !.null = "no"],
                     [Leading("time") EXCEPT !.def = Def("expression", "now"), !.traits = {"on update"}]}
          ELSE {})
    \cup (IF v = "mariadb" THEN {[Leading("text") EXCEPT !.def = Def("null", "")]} ELSE {})
    \cup (IF v = "postgres" THEN {[Leading("int") EXCEPT !.traits = {"identity"}, !.null = "no"]} ELSE {})
Altogether(v) ==
    {RelationOf(9, "table", <<c, Second>>, {Part("pk", "primary", {2}, 0)}) : c \in FirstColumns(v)}
    \cup {RelationOf(9, k, <<Leading("text"), Second>>, p) : k \in {"table", "view"},
            p \in {{}, {Part("i", "index", {1}, 0)}, {Part("i", "index", {1, 2}, 0), Part("f", "fk", {1}, 90)}}}
Plain_ == {RelationOf(9, "table", <<[Leading("text") EXCEPT !.def = d, !.traits = {"collation"}], Second>>, {}) :
             d \in {Def("literal", "a"), Def("expression", "f()")}}

StructureInit == \/ \E v \in Vendors : OInit({v}, Altogether(v), {"one"}, MaxElsewhere)
                 \/ OInit(Vendors \ {"mariadb"}, Plain_, {"two"}, 0)
                 \/ OInit(Vendors \ {"mariadb"}, Plain_, {"two", "three"}, MaxElsewhere)
=============================================================================
