------------------------------ MODULE TreeDump ------------------------------
(***************************************************************************)
(* A PostgreSQL dump of tables that inherit from one another or are        *)
(* partitions, and its restore into an empty database.                     *)
(*                                                                         *)
(* An INHERITS child whose parents are all in the export is created with   *)
(* the link and takes from them what it does not declare; any other is     *)
(* created as a plain table of its own. A partition is created with the    *)
(* root of its tree and its rows are read through the root, unless a leaf  *)
(* of the tree is a foreign table: then each local leaf is read by itself. *)
(* What the restored link would change is put right after the data.        *)
(*                                                                         *)
(* One schema of PostgreSQL 18 or later is exported; a relation has one    *)
(* column, with a default and a NOT NULL constraint, and one row, which is *)
(* null unless that constraint is valid. Names are numbers, in their order.*)
(***************************************************************************)
EXTENDS Naturals, Sequences, FiniteSets, SequencesExt

VARIABLES
    rels,       \* the catalog: name -> relation
    wanted,     \* the request: [level, chosen, filtered, structure, data]
    steps,      \* the statements of the dump
    warns,      \* what it warns of: pairs <<what, which relation>>
    loaded      \* the database restored into: [ok, has], has: name -> relation and rows

hvars == <<rels, wanted, steps, warns, loaded>>

\* kind: "r" a table, "p" a partitioned one, "f" a foreign one, "x" a foreign one
\* the redaction policy withholds. under: the relation it is a partition of, or 0.
\* local: the column is declared by the relation itself. away: in another schema.
Relation(kind, under, parents) ==
    [kind |-> kind, under |-> under, parents |-> parents, local |-> parents = <<>>,
     def |-> "", nn |-> "no", nnLocal |-> FALSE, away |-> FALSE]

Here == {t \in DOMAIN rels : rels[t].kind \in {"r", "p"} /\ ~rels[t].away}
InOrder(S) == SetToSortSeq(S, <)

RECURSIVE Below(_)
Below(t) == {t} \cup UNION {Below(c) : c \in {c \in DOMAIN rels : rels[c].under = t}}
RECURSIVE RootOf(_)
RootOf(t) == IF rels[t].under = 0 THEN t ELSE RootOf(rels[t].under)
Leaves(t) == {c \in Below(t) : rels[c].kind # "p"}
Mixed(t) == \E c \in Leaves(t) : rels[c].kind \in {"f", "x"}

(***************************************************************************)
(* What is exported, and how each table is created                         *)
(***************************************************************************)
\* DumpDataTables: a partition rides with its root, except a local leaf of a
\* tree that has foreign ones.
DumpDataTables(names) ==
    {t \in names : rels[t].under # 0 => rels[t].kind = "r" /\ Mixed(RootOf(t))}

DataNames == IF wanted.level = "table" THEN wanted.chosen ELSE DumpDataTables(wanted.chosen)

\* InheritanceParents: none for a child of a parent in another schema.
InheritanceParents(t) ==
    IF \E p \in ToSet(rels[t].parents) : rels[p].away THEN <<>> ELSE rels[t].parents

Linked(t) == /\ t \in DataNames /\ InheritanceParents(t) # <<>>
             /\ ToSet(InheritanceParents(t)) \subseteq DataNames

\* TopoOrder: parents before children.
RECURSIVE Visit(_, _)
Visit(done, t) ==
    IF t \in ToSet(done) THEN done
    ELSE Append(FoldLeft(LAMBDA d, p : Visit(d, p), done,
                         SelectSeq(InheritanceParents(t), LAMBDA p : p \in DataNames)), t)
CreateOrder == FoldLeft(LAMBDA d, t : Visit(d, t), <<>>, InOrder(DataNames))

\* collectMixedTreeDataSplit.
StructureOnly == {t \in DataNames : rels[t].kind = "p" /\ Mixed(t)}
Split(kind) == {c \in UNION {Leaves(t) : t \in StructureOnly} : rels[c].kind \in kind}
DataOnly == {c \in Split({"r"}) : ~rels[c].away}

\* expandGateSet: the relations whose own objects the object passes look at.
Gate == DataNames \cup IF wanted.level = "db" THEN {t \in Here : rels[t].under # 0} ELSE {}

\* classifyStandalone.
Standalone == {t \in Gate : \/ wanted.level = "table" /\ rels[t].under # 0
                            \/ ~(ToSet(rels[t].parents) \subseteq Gate)}

(***************************************************************************)
(* The defaults a link would change (collectInheritedDefaultDeltas)        *)
(***************************************************************************)
\* eff and parentMerge: the default a table has when those that depend on it are
\* created, and the defaults its parents have then.
RECURSIVE Eff(_, _)
Merge(suppressed, t) == {Eff(suppressed, p) : p \in ToSet(InheritanceParents(t))} \ {""}
TheOne(S) == IF Cardinality(S) = 1 THEN CHOOSE x \in S : TRUE ELSE ""
Eff(suppressed, t) ==
    IF t \in suppressed THEN ""
    ELSE IF ~Linked(t) \/ rels[t].local THEN rels[t].def
    ELSE TheOne(Merge(suppressed, t))

\* A mutation of Component: who is created from the same parents.
ParentsOnly(S) == S \cup UNION {ToSet(InheritanceParents(t)) : t \in S}

\* The tables linked to one of S, over any number of links.
RECURSIVE Component(_)
Component(S) ==
    LET more == S \cup {t \in DataNames : \E u \in S :
                    \/ Linked(t) /\ u \in ToSet(InheritanceParents(t))
                    \/ Linked(u) /\ t \in ToSet(InheritanceParents(u))}
    IN  IF more = S THEN S ELSE Component(more)

\* Phase 1: a child whose parents disagree cannot be created. The defaults of its
\* whole hierarchy are left out, but for a child created as a table of its own.
Conflicts(suppressed, t) ==
    ~rels[t].local /\ t \notin suppressed /\ Cardinality(Merge(suppressed, t)) > 1
Suppress(suppressed, t) ==
    suppressed \cup IF Conflicts(suppressed, t)
                    THEN {m \in Component({t}) : /\ Linked(m) \/ rels[m].parents = <<>>
                                                 /\ rels[m].def # ""}
                    ELSE {}
LinkedNames == {t \in DataNames : Linked(t)}
Suppressed == FoldLeft(Suppress, {}, InOrder(LinkedNames))
\* StagedDefaultColumns: the default stands in the table's own statement.
Stripped == {m \in Suppressed : ~Linked(m) \/ rels[m].local}

\* Phase 2, and the partitions: who ends up with another default than it has.
Diverges(t) ==
    IF rels[t].under = 0
    THEN Linked(t) /\ ~rels[t].local /\ t \notin Suppressed
         /\ rels[t].def # TheOne(Merge(Suppressed, t))
    ELSE ~rels[t].away /\ rels[t].kind \in {"r", "p"} /\ RootOf(t) \in DataNames
         /\ rels[t].def # rels[RootOf(t)].def
StagedDefaults ==
    IF wanted.level = "db" THEN (Suppressed \ Stripped) \cup {t \in DOMAIN rels : Diverges(t)} ELSE {}

(***************************************************************************)
(* The statements                                                          *)
(***************************************************************************)
TreeStep(op, t) == [op |-> op, on |-> t, links |-> <<>>, def |-> "", nn |-> FALSE, rows |-> {}]

\* dumpTableCreate: a linked child leaves out what it takes from its parents.
TableCreate(t) ==
    [TreeStep("create", t) EXCEPT
        !.links = IF Linked(t) THEN InheritanceParents(t) ELSE <<>>,
        !.def = IF (Linked(t) => rels[t].local) /\ t \notin Stripped THEN rels[t].def ELSE "",
        !.nn = rels[t].nn = "valid" /\ (Linked(t) => rels[t].nnLocal)]

\* writePartitionChildren: with each partition, the partitions below it.
RECURSIVE PartitionChildren(_)
PartitionChildren(t) ==
    FoldLeft(LAMBDA done, c : done \o (IF rels[c].kind = "x" THEN <<>> ELSE <<TreeStep("partition", c)>>)
                                   \o PartitionChildren(c),
             <<>>, InOrder({c \in DOMAIN rels : rels[c].under = t}))

CreateScript == FlattenSeq([i \in DOMAIN CreateOrder |->
    IF CreateOrder[i] \in DataOnly THEN <<>>
    ELSE <<TableCreate(CreateOrder[i])>> \o PartitionChildren(CreateOrder[i])])

\* DataSelectOnly and planTableData: an ordinary table is read FROM ONLY, a
\* partitioned one with its leaves.
RowsOf(t) == IF rels[t].kind = "r" THEN {t} ELSE {c \in Leaves(t) : rels[c].kind = "r"}
Excluded(t) == wanted.filtered /\ t \notin wanted.chosen
\* buildTables, then buildDataOnlyLeaves.
ReadOrder ==
    SelectSeq(IF wanted.structure THEN CreateOrder ELSE InOrder(DataNames),
              LAMBDA t : t \notin StructureOnly)
    \o InOrder(DataOnly \ DataNames)
DataScript == LET kept == SelectSeq(ReadOrder, LAMBDA t : ~Excluded(t))
        IN  [i \in DOMAIN kept |-> [TreeStep("rows", kept[i]) EXCEPT !.rows = RowsOf(kept[i])]]

\* dumpConstraints and dumpInheritedNotNullState: what cannot stand in a CREATE,
\* and the copies that are valid though the parent's is not.
NotValid == {t \in Gate : rels[t].nn = "pending" /\ (rels[t].nnLocal \/ t \in Standalone)}
Validated == {t \in Here : /\ rels[t].nn = "valid" /\ ~rels[t].nnLocal /\ Linked(t)
                           /\ \E p \in ToSet(InheritanceParents(t)) : rels[p].nn = "pending"}

Each(S, op(_)) == LET q == InOrder(S) IN [i \in DOMAIN q |-> op(q[i])]
SetDefault(t) == [TreeStep("default", t) EXCEPT !.def = rels[t].def]
PostDataScript ==
    Each(StagedDefaults, SetDefault) \o Each(NotValid, LAMBDA t : TreeStep("notvalid", t))
    \o Each(Validated, LAMBDA t : TreeStep("validate", t)) \o Each(Stripped, SetDefault)

\* WriteDB.
DumpScript == (IF wanted.structure THEN CreateScript ELSE <<>>) \o (IF wanted.data THEN DataScript ELSE <<>>)
           \o (IF wanted.structure THEN PostDataScript ELSE <<>>)

Warnings ==
    (IF wanted.structure
     THEN {<<"link", t>> : t \in {t \in DataNames : ~Linked(t) /\ rels[t].parents # <<>>}
                                 \cup {t \in Standalone : rels[t].under # 0}}
          \cup {<<"link", c>> : c \in {c \in DOMAIN rels : /\ rels[c].kind = "x"
                                                       /\ \E t \in DataNames : c \in Below(t)}}
     ELSE {})
    \cup (IF wanted.data
          THEN {<<"rows", c>> : c \in Split({"f", "x"}) \cup (Split({"r"}) \ DataOnly)
                                     \cup {t \in ToSet(ReadOrder) : Excluded(t)}}
          ELSE {})

(***************************************************************************)
(* The restore: PostgreSQL, run until the first error                      *)
(***************************************************************************)
Nowhere == [there |-> FALSE, links |-> <<>>, under |-> 0, def |-> "", nn |-> "no",
           nnLocal |-> FALSE, rows |-> <<>>]
Made(s) == [Nowhere EXCEPT !.there = TRUE, !.def = s.def, !.nn = IF s.nn THEN "valid" ELSE "no",
                          !.nnLocal = s.nn]
There(db, S) == \A t \in S : db[t].there
Stop(r) == [r EXCEPT !.ok = FALSE]
Become(r, t, state) == [r EXCEPT !.has[t] = state]

\* CREATE TABLE ... INHERITS: an own default wins; parents that disagree are an
\* error without one.
RunCreate(r, s) ==
    LET ps   == ToSet(s.links)
        defs == {r.has[p].def : p \in ps} \ {""}
        own  == Made(s)
    IN  IF r.has[s.on].there \/ ~There(r.has, ps) \/ (s.def = "" /\ Cardinality(defs) > 1) THEN Stop(r)
        ELSE Become(r, s.on,
                 [own EXCEPT !.links = s.links, !.def = IF s.def = "" THEN TheOne(defs) ELSE s.def,
                             !.nn = IF \E p \in ps : r.has[p].nn = "valid" THEN "valid" ELSE own.nn])

\* CREATE TABLE ... PARTITION OF: everything from the parent.
RunPartition(r, s) ==
    LET u == rels[s.on].under
    IN  IF r.has[s.on].there \/ ~r.has[u].there THEN Stop(r)
        ELSE Become(r, s.on, [Nowhere EXCEPT !.there = TRUE, !.under = u, !.def = r.has[u].def,
                                         !.nn = r.has[u].nn])

\* INSERT: a partitioned table hands each row to the leaf it belongs to. A null
\* row is refused where there is a NOT NULL constraint, valid or not.
RunRows(r, s) ==
    LET place(w) == IF rels[s.on].kind = "p" THEN w ELSE s.on
    IN  IF \E w \in s.rows : \/ ~There(r.has, {s.on, place(w)})
                            \/ (rels[w].nn # "valid" /\ r.has[place(w)].nn # "no") THEN Stop(r)
        ELSE [r EXCEPT !.has = [t \in DOMAIN rels |->
                 [r.has[t] EXCEPT !.rows = @ \o InOrder({w \in s.rows : place(w) = t})]]]

\* ALTER TABLE without ONLY reaches the children the restored database has.
RECURSIVE Reach(_, _)
Reach(db, t) == {t} \cup UNION {Reach(db, c) : c \in {c \in DOMAIN db :
                                    db[c].there /\ (db[c].under = t \/ t \in ToSet(db[c].links))}}
Changed(r, t, nn, from) ==
    [r EXCEPT !.has = [c \in DOMAIN r.has |->
        IF c \in Reach(r.has, t) /\ r.has[c].nn \in from THEN [r.has[c] EXCEPT !.nn = nn] ELSE r.has[c]]]

Run(r, s) ==
    IF ~r.ok THEN r
    ELSE IF s.op = "create" THEN RunCreate(r, s)
    ELSE IF s.op = "partition" THEN RunPartition(r, s)
    ELSE IF s.op = "rows" THEN RunRows(r, s)
    ELSE IF ~r.has[s.on].there THEN Stop(r)
    ELSE CASE s.op = "default" -> [r EXCEPT !.has[s.on].def = s.def]
           [] s.op = "notvalid" -> [Changed(r, s.on, "pending", {"no"}) EXCEPT !.has[s.on].nnLocal = TRUE]
           [] s.op = "validate" -> IF r.has[s.on].nn = "no" THEN Stop(r)
                                   ELSE Changed(r, s.on, "valid", {"pending"})

\* A dump of the data alone is restored where the structure already stands.
Standing(t) == [Nowhere EXCEPT !.there = TRUE, !.under = rels[t].under]
Empty == [ok |-> TRUE, has |-> [t \in DOMAIN rels |-> IF wanted.structure THEN Nowhere ELSE Standing(t)]]

(***************************************************************************)
(* The machine                                                             *)
(***************************************************************************)
NoRequest == [level |-> "db", chosen |-> {}, filtered |-> FALSE, structure |-> TRUE, data |-> TRUE]
Request(l, c, f, s, d) == [level |-> l, chosen |-> c, filtered |-> f, structure |-> s, data |-> d]
\* filterGroupsBySelection: any of the listed tables; or one table, whole or the
\* rows selected in it.
Wanted == {Request("db", c, FALSE, s, d) : c \in SUBSET Here \ {{}}, s \in BOOLEAN, d \in {TRUE}}
          \cup {Request("table", {t}, f, s, TRUE) : t \in Here, f \in BOOLEAN, s \in BOOLEAN}

HInit(catalogs) ==
    /\ rels \in catalogs
    /\ wanted \in IF rels = <<>> THEN {NoRequest} ELSE Wanted
    /\ steps = <<>> /\ warns = {} /\ loaded = <<>>

Dump == /\ rels # <<>> /\ steps = <<>> /\ loaded = <<>>
        /\ steps' = DumpScript /\ warns' = Warnings
        /\ UNCHANGED <<rels, wanted, loaded>>

RunDump == /\ steps # <<>> /\ loaded = <<>>
           /\ loaded' = FoldLeft(Run, Empty, steps)
           /\ UNCHANGED <<rels, wanted, steps, warns>>

HNext == Dump \/ RunDump

(***************************************************************************)
(* The dump rebuilds what was asked for                                    *)
(***************************************************************************)
\* The rows of each chosen table, and of the tree below it; and the tables whose
\* own column the export answers for.
Asked == IF wanted.data THEN {c \in UNION {Below(t) : t \in wanted.chosen} : rels[c].kind = "r"} ELSE {}
Answers == {t \in Here : (IF wanted.level = "db" THEN RootOf(t) ELSE t) \in wanted.chosen}

\* What the code does not keep. Of a partition whose root is left out neither the
\* table nor the rows come, and a constraint of its own is put on nothing ...
Orphan(t) == /\ wanted.level = "db" /\ rels[t].under # 0
             /\ RootOf(t) \notin wanted.chosen /\ ~Mixed(RootOf(t))
Dangling == wanted.level = "db" /\ \E t \in NotValid : rels[t].under # 0 /\ RootOf(t) \notin wanted.chosen
\* ... a child that declares its column without a default gets its parents', and
\* those below it with it; parents that disagree stop the import ...
RECURSIVE Redeclared(_)
Redeclared(t) == /\ t \in LinkedNames
                 /\ IF rels[t].local THEN rels[t].def = ""
                    ELSE \E p \in ToSet(InheritanceParents(t)) : Redeclared(p)
Unmerged == \E t \in LinkedNames : Redeclared(t) /\ Len(rels[t].parents) > 1
\* ... children of a table that lost its own parents ...
Uprooted == \E t \in DataNames : /\ ~Linked(t) /\ rels[t].parents # <<>>
                                 /\ \E c \in LinkedNames : t \in ToSet(rels[c].parents)
\* ... a valid constraint that only a partition has.
LeafOnly(t) == rels[t].under # 0 /\ rels[t].nn = "valid" /\ rels[t].nnLocal /\ t \notin Standalone

RestoredAs(was, is, unlinked, redeclared) ==
    /\ is.there /\ is.nn = was.nn
    /\ is.def = was.def \/ redeclared
    /\ \/ unlinked
       \/ is.links = was.parents /\ is.under = was.under /\ is.nnLocal = was.nnLocal

\* The import meets no error; every row asked for is there once, where it was, and
\* no other; every table is linked as it was and its column has the default and
\* the NOT NULL it had - or the dump says which one does not.
TreesRestored ==
    loaded # <<>> /\ ~Uprooted =>
        /\ loaded.ok \/ Dangling \/ Unmerged
        /\ loaded.ok =>
            /\ \A t \in DOMAIN rels :
                   loaded.has[t].rows = IF t \in Asked /\ <<"rows", t>> \notin warns /\ ~Orphan(t)
                                        THEN <<t>> ELSE <<>>
            /\ wanted.structure =>
                   \A t \in Answers : LeafOnly(t) \/ RestoredAs(rels[t], loaded.has[t],
                                                    <<"link", t>> \in warns, Redeclared(t))

\* dump_inherit.go:103-109, of a default "a linked restore would silently change":
\* "each delta re-establishes the child's own state". MCComponentClaims refutes it by
\* a child that declares its column without one.
DefaultsReestablished ==
    loaded # <<>> /\ loaded.ok /\ wanted.level = "db" /\ wanted.structure =>
        \A t \in LinkedNames : loaded.has[t].def = rels[t].def

\* dump_table.go:48-50, of partitions: "a SELECT on the parent already returns their
\* rows". MCComponentClaims refutes it by a partition chosen without its root.
PartitionsRideAlong ==
    steps # <<>> /\ wanted.data =>
        \A t \in wanted.chosen : \/ rels[t].kind # "r" \/ rels[t].under = 0 \/ <<"rows", t>> \in warns
                                \/ \E i \in DOMAIN steps : t \in steps[i].rows
=============================================================================
