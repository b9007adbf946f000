---------------------------- MODULE MCComponents ----------------------------
(***************************************************************************)
(* The machines that share no state with one another, checked in one run:  *)
(* a behaviour is one of them, and the others stay where they began.       *)
(***************************************************************************)
EXTENDS MCDump, ScriptReplay, AuditTrail, LoginThrottle, Migrate, ReplaceProgram,
        RequestChain, RowEdits, RowPages, TreeDump, AccessControl, SequenceDump, MCSessionExpiry, MCStructure

VARIABLE part

vars == <<part, dvars, svars, avars, tvars, mvars, pvars, qvars, evars, gvars, hvars, lvars, yvars, xvars, ovars>>

\* Two releases: the old one knows one step, the new one two.
MCKnown == [r \in Replicas |-> IF r = "old" THEN 1 ELSE 2]
MCCreates == <<2, 1>>

\* The objects of a script: rows and bodies of up to two tokens, whatever they
\* are, and blocks of statements.
Hostile == {"'", "\\", ";", "--", "/*", "\n", "$$", ";;", "DELIMITER", "END", "\\c", "w"}
Bodies == {<<>>} \cup {<<x>> : x \in Hostile} \cup (Hostile \X Hostile)
Blocks == {<<"w">>, <<"CASE", " ", "w", " ", "END">>, <<"[", ";", "]">>,
           <<"BEGIN", " ", "w", ";", " ", "END">>,
           <<"w", ";", " ", "IF", " ", "w", ";", " ", "END", " ", "IF">>,
           <<"CASE", " ", "w", " ", "END", ";", "w", "'", ";", "'">>,
           <<"CASE", " ", "w", " ", "END", " ", "CASE", ";", "w">>}
Object(k, t) == [kind |-> k, text |-> t]
Rows == {Object("row", t) : t \in Bodies}
Objects_(e) == Rows \cup
    CASE e = "mysql" -> {Object("frame", t) : t \in Bodies}
      [] e = "postgres" -> {Object("dollar", t) : t \in {t \in Bodies : "$$" \notin ToSet(t)}}
      [] e = "sqlite" -> {Object("block", t) : t \in Blocks}
LastRow == Object("row", <<"'", ";">>)
Job(e, b, m, dbs) == [engine |-> e, backslash |-> b, max |-> m, dbs |-> dbs]
\* One database or two, and the cap at none, too few and one that suffices; with
\* two it may be used up exactly where the first ends.
Jobs == UNION {{Job(e, b, m, <<[db |-> "a", objects |-> <<o, LastRow>>]>>) :
                o \in Objects_(e), m \in {0, 1, 2, 4}, b \in {e # "mysql", TRUE}} :
               e \in {"mysql", "postgres", "sqlite"}}
        \cup {Job("postgres", TRUE, m, <<[db |-> "a", objects |-> <<o, LastRow>>],
                                        [db |-> "b", objects |-> <<LastRow>>]>>) :
               o \in Objects_("postgres"), m \in {0, 2, 3}}

\* Three logins to one account: two from one address, one from another; to a user of
\* a predefined server, which another form names alone, and one that names nothing.
Form(i, u, p) == [ip |-> i, user |-> u, server |-> p]
Sources == {<<Form("i1", "u1", ""), Form("i1", "u1", ""), Form("i2", "u1", "")>>,
            <<Form("i1", "", "p1"), Form("i1", "u1", "p1"), Form("i1", "", "")>>}

\* Two overloads and another object, one of the overloads there or to come.
MCPrograms == <<"z", "f1", "f2">>
MCNameOf == [z |-> "area", f1 |-> "calc", f2 |-> "calc"]
Shelves == {{"z", "f1", "f2"}, {"z", "f2"}}

\* One slot of each kind. One request, whatever it carries, under each
\* configuration; or two of one session, in every order.
MCSlotCap == [s \in {"import", "dbop"} |-> 1]
Site(s, p) == [sso |-> s, refused |-> p]
Sites == {Site("off", p) : p \in {{}, {"write"}, {"console"}, {"ddl"}, {"db"}}}
         \cup {Site(s, {}) : s \in {"unverified", "verified"}}
Demand(t, h, k, c, d) == [route |-> t, htmx |-> h, token |-> k, cookie |-> c, db |-> d]
Unasked == Demand("none", FALSE, FALSE, "none", TRUE)
Pair(d, e) == [r \in Requests |-> IF r = 1 THEN d ELSE e]
Alone == {Pair(Demand(t, h, k, c, d), Unasked) :
            t \in Unsafe \cup Public \cup {"page"}, h \in BOOLEAN, k \in BOOLEAN,
            c \in {"none", "pre", "live"}, d \in BOOLEAN}
Plain(t) == Demand(t, FALSE, TRUE, "live", TRUE)
Together == {Pair(Plain(s), Plain(t)) : s \in {"import", "export", "rows", "logout"},
                                        t \in {"import", "export", "logout", "login"}}

\* A table with a primary key, one that may be NULL, or none; an engine that
\* counts the rows matched or changed; a view. One user on each of several
\* fillings, or two on one.
Row_(k, v, b) == [k |-> k, v |-> v, b |-> b, g |-> "gen"]
Filled(r, s) == [i \in RowIds |-> IF i = 1 THEN r ELSE IF i = 2 THEN s ELSE NoRow]
Keep == [c \in AllColumns |-> "keep"]
MCTypings == {Keep, [Keep EXCEPT !.k = "2", !.v = "empty"], [Keep EXCEPT !.b = "null", !.k = "3"]}
             \cup {[Keep EXCEPT !.v = x] : x \in {"a", "l"}}
MCTexts == {"keep", "null", "empty", "gone", "gen", "l", "lr", "ts", "tz", "7", "8", "9",
            "1", "2", "3", "a", "long", "bytes"}
Table(k, kd, n, c) == [kind |-> k, keyed |-> kd, nullKeys |-> n, changed |-> c]
Tables == {Table("table", k # "none", k = "nulls", c) : k \in {"none", "plain", "nulls"}, c \in BOOLEAN}
          \cup {Table("view", FALSE, FALSE, FALSE)}
Fills == {Filled(Row_("1", "a", "null"), s) :
            s \in {Row_("1", "a", "null"), Row_("2", "ts", "bytes")}}
         \cup {Filled(Row_("null", "l", "bytes"), Row_("null", "long", "null"))}
Doing(p, q) == [e \in Editors |-> IF e = "x" THEN p ELSE q]
OneEditor == Doing({"insert", "edit", "bulk", "copy", "delete"}, {})
TwoEditors == {Doing({"bulk"}, {"edit"}), Doing({"bulk"}, {"delete"}), Doing({"delete"}, {"edit"})}
Shared == {Table("table", k, FALSE, FALSE) : k \in BOOLEAN}

\* A table of any size, which hides and sorts nothing; and an almost empty one
\* with two columns. Typed: positions before, in and beyond the table, sizes that
\* are none, and columns that are unknown, repeated or all hidden.
MCPageSizes == <<2, 3>>
Sized == {[height |-> n, view |-> v, names |-> {}] : n \in 0..MaxSize, v \in BOOLEAN}
         \cup {[height |-> 0, view |-> TRUE, names |-> {"a", "b"}]}
MCUrlWords == {"a", "b", "zz", "asc", "desc"}
TypedUrl(where, n, by, ways, less) ==
    [pos |-> where, rows |-> n, exact |-> FALSE, order |-> by, dir |-> ways, hide |-> less]
MCTypedUrls == {TypedUrl(p, n, <<>>, <<>>, <<>>) : p \in {-1, 1, MaxPos}, n \in {0, 100}}
               \cup {TypedUrl(0, 0, <<"zz", "b", "b", "a">>, <<"asc", "desc">>, <<"b", "b", "a">>)}

\* Four relations, named against their order of creation. Hierarchies with two
\* parents and a grandchild or a grandparent, which may be in another schema:
\* any defaults, or any NOT NULL a source may have.
Defs == {"", "1", "2"}
Shapes == {<<<<2, 3>>, <<>>, <<>>, <<1>>>>, <<<<2, 3>>, <<4>>, <<4>>, <<>>>>}
Inherit(shape, d, l, n, a) ==
    [t \in 1..4 |-> [Relation("r", 0, shape[t]) EXCEPT
        !.def = d[t], !.local = shape[t] = <<>> \/ t \in l, !.nn = n[t],
        !.nnLocal = n[t] # "no" /\ \A p \in ToSet(shape[t]) : n[p] = "no",
        !.away = t \in a]]
Sensible(shape, n) == \A t \in 1..4 : \A p \in ToSet(shape[t]) :
                         /\ n[p] = "valid" => n[t] = "valid"
                         /\ n[p] = "pending" => n[t] # "no"
Same(x) == [t \in 1..4 |-> x]
Hierarchies ==
    {Inherit(s, d, l, Same("no"), {}) : s \in Shapes, d \in [1..4 -> Defs], l \in {{}, {1}, {2, 3}}}
    \cup UNION {{Inherit(s, Same(""), {}, n, {}) : n \in {n \in [1..4 -> {"no", "pending", "valid"}] : Sensible(s, n)}} : s \in Shapes}
    \cup {Inherit(s, d, {}, Same(n), {3}) : s \in Shapes, d \in [1..4 -> {"", "1"}], n \in {"no", "pending", "valid"}}
\* A partitioned table with a partitioned partition, and leaves of every kind.
Tree(kind3, kind4, away, d, n, own, o) ==
    [t \in 1..4 |-> [Relation(<<"p", "p", kind3, kind4>>[t], <<2, 0, 1, 2>>[t], <<>>) EXCEPT
        !.def = d[t], !.away = t \in away,
        !.nn = IF t \in own THEN o ELSE n, !.nnLocal = t \in own \/ (n # "no" /\ t = 2)]]
Partitioned ==
    {Tree(k, m, {}, d, "no", {}, "") : k \in {"r", "f"}, m \in {"r", "x"}, d \in [1..4 -> {"", "1"}]}
    \cup {Tree(k, m, a, Same(""), n, {}, "") : k \in {"r", "f"}, m \in {"r", "x"}, n \in {"no", "valid"}, a \in SUBSET {3, 4}}
    \cup {Tree(k, "r", {}, Same(""), "no", {4}, o) : k \in {"r", "f"}, o \in {"pending", "valid"}}

\* Grants under every pattern, of every kind, and from two roles; every request.
MCOverloads == <<"f1", "f2">>
Held(tos, ons, cols, privs) == {Grant(t, on, c, p, "owner") : t \in tos, on \in ons, c \in cols, p \in privs}
MCGranted == [s \in {"mysql", "postgres"} |->
    LET to == IF s = "mysql" THEN {"me@h", "ann@h"} ELSE {"ann", "PUBLIC"}
        db == Held(to, IF s = "mysql" THEN {"my_app", "my\\_app"} ELSE {"database"}, {"none"}, {"select", "maintain"})
        rest == Held(to, {"table"}, {"none", "c"}, {"select"}) \cup Held(to, {"f1", "f2"}, {"none"}, {"execute"})
    IN IF part # "access" THEN {{}} ELSE
       {{}, db \cup rest, Held(to, {"table"}, {"c"}, {"select"}), {g \in db : g.on # "my_app"},
        {g \in db : g.on # "my\\_app"},
        {[g EXCEPT !.by = IF s = "mysql" THEN @ ELSE "another"] : g \in rest} \cup rest}]
MCWishes == [s \in {"mysql", "postgres"} |->
    IF part = "access" THEN AccountWishes(s) \cup PrivilegeWishes(s) ELSE {Wish("create", "new", "none", "none", "none", 0)}]

\* Every way a column may draw from a sequence. Restored into an empty database,
\* beside tables and sequences of the same names, or where the name a replacement
\* would take is taken, at the source too.
Identity == Default("identity", "r_id", "")
UsesOfT == {Default("bound", "t_id", ""), Default("looked up", "q", "q")}
UsesOfU == {Default("bound", q, "far") : q \in {"t_id", "q", "far"}}
           \cup {Default("looked up", q, "") : q \in {"far", "gone"}} \cup {Default("unqualified", "q", "")}
AllUses == {[t |-> d, u |-> e, r |-> Identity, p |-> Identity] : d \in UsesOfT, e \in UsesOfU}
Database(ts, qs) ==
    [tables |-> ts, rows |-> [t \in DOMAIN ts |-> {}], last |-> [q \in qs |-> 0],
     had |-> [tables |-> DOMAIN ts, last |-> qs], failed |-> ""]
Blank_ == Database(<<>>, {})
Copied(u) == Database([t \in AllTables |-> [u[t] EXCEPT !.of = SameSequence(@), !.text = SameSequence(@)]],
                      {SameSequence(q) : q \in AllSequences})
Beside == Database(<<>>, {SameSequence("q"), SameSequence("far"), Replacement("far", "default", 1)})
Source(u, squat, ds) == [uses |-> u, squatted |-> squat, databases |-> ds]
SequenceSources == {Source(u, FALSE, {Blank_, Copied(u)}) : u \in AllUses} \cup {Source(u, TRUE, {Beside}) : u \in AllUses}

Only(p, cases, rest) == IF part = p THEN cases ELSE {rest}

Init == /\ part \in {"dump", "script", "audit", "throttle", "migrate", "program", "request",
                  "edit", "page", "tree", "access", "sequence", "age", "structure"}
        /\ DInit(Only("dump", Catalogs, [need |-> {}, clause |-> {}]))
        /\ SInit(Only("script", Jobs, Job("sqlite", TRUE, 0, <<>>)))
        /\ TInit(Only("throttle", Sources, [r \in Logins |-> Form("i1", "", "")]))
        /\ PInit(Only("program", BOOLEAN, TRUE), Only("program", Shelves, {}))
        /\ AInit /\ MInit
        /\ \/ QInit(Only("request", Sites, Site("off", {})), Only("request", Alone, [r \in Requests |-> Unasked]))
           \/ part = "request" /\ QInit({Site("off", {})}, Together)
        /\ \/ EInit(Only("edit", Tables, Table("view", FALSE, FALSE, FALSE)),
                    Only("edit", Fills, Filled(NoRow, NoRow)), Only("edit", {OneEditor}, Doing({}, {})))
           \/ part = "edit" /\ EInit(Shared, {Filled(Row_("1", "a", "null"), Row_("2", "a", "null"))}, TwoEditors)
        /\ GInit(Only("page", Sized, [height |-> 0, view |-> FALSE, names |-> {}]))
        /\ HInit(Only("tree", Hierarchies \cup Partitioned, <<>>))
        /\ YInit(Only("sequence", SequenceSources, Source([t \in AllTables |-> Identity], FALSE, {Blank_})))
        /\ LInit(Only("access", {"mysql", "postgres"}, "mysql"), MCGranted, MCWishes)
        /\ XInit({CHOOSE n \in Nodes : TRUE})
        /\ IF part = "structure" THEN StructureInit ELSE OInit({"sqlite"}, {Referenced}, {}, MaxElsewhere)

Next ==
    \/ part = "dump" /\ DNext /\ UNCHANGED <<part, svars, avars, tvars, mvars, pvars, qvars, evars, gvars, hvars, lvars, yvars, xvars, ovars>>
    \/ part = "script" /\ SNext /\ UNCHANGED <<part, dvars, avars, tvars, mvars, pvars, qvars, evars, gvars, hvars, lvars, yvars, xvars, ovars>>
    \/ part = "audit" /\ ANext /\ UNCHANGED <<part, dvars, svars, tvars, mvars, pvars, qvars, evars, gvars, hvars, lvars, yvars, xvars, ovars>>
    \/ part = "throttle" /\ TNext /\ UNCHANGED <<part, dvars, svars, avars, mvars, pvars, qvars, evars, gvars, hvars, lvars, yvars, xvars, ovars>>
    \/ part = "migrate" /\ MNext /\ UNCHANGED <<part, dvars, svars, avars, tvars, pvars, qvars, evars, gvars, hvars, lvars, yvars, xvars, ovars>>
    \/ part = "program" /\ PNext /\ UNCHANGED <<part, dvars, svars, avars, tvars, mvars, qvars, evars, gvars, hvars, lvars, yvars, xvars, ovars>>
    \/ part = "request" /\ QNext /\ UNCHANGED <<part, dvars, svars, avars, tvars, mvars, pvars, evars, gvars, hvars, lvars, yvars, xvars, ovars>>
    \/ part = "edit" /\ ENext /\ UNCHANGED <<part, dvars, svars, avars, tvars, mvars, pvars, qvars, gvars, hvars, lvars, yvars, xvars, ovars>>
    \/ part = "page" /\ GNext /\ UNCHANGED <<part, dvars, svars, avars, tvars, mvars, pvars, qvars, evars, hvars, lvars, yvars, xvars, ovars>>
    \/ part = "tree" /\ HNext /\ UNCHANGED <<part, dvars, svars, avars, tvars, mvars, pvars, qvars, evars, gvars, lvars, yvars, xvars, ovars>>
    \/ part = "access" /\ LNext /\ UNCHANGED <<part, dvars, svars, avars, tvars, mvars, pvars, qvars, evars, gvars, hvars, yvars, xvars, ovars>>
    \/ part = "sequence" /\ YNext /\ UNCHANGED <<part, dvars, svars, avars, tvars, mvars, pvars, qvars, evars, gvars, hvars, lvars, xvars, ovars>>
    \/ part = "age" /\ XNext /\ UNCHANGED <<part, dvars, svars, avars, tvars, mvars, pvars, qvars, evars, gvars, hvars, lvars, yvars, ovars>>
    \/ part = "structure" /\ ONext /\ UNCHANGED <<part, dvars, svars, avars, tvars, mvars, pvars, qvars, evars, gvars, hvars, lvars, yvars, xvars>>

Spec == Init /\ [][Next]_vars
=============================================================================
