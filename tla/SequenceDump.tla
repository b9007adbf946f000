---------------------------- MODULE SequenceDump ----------------------------
(***************************************************************************)
(* The sequences of a PostgreSQL database, in exports and their restores.  *)
(*                                                                         *)
(* An export of a database emits the sequences of its schemas, with their  *)
(* values; one of a single table emits those the table owns, and makes a   *)
(* replacement for every other sequence a default of the table names. The  *)
(* values are read when the export is planned and the rows when it is      *)
(* written; clients insert in between. One or two exports are restored,    *)
(* one after the other, into one database, by scripts that stop at their   *)
(* first error.                                                            *)
(*                                                                         *)
(* Table t owns the sequence of its column; u is another table; r is       *)
(* partitioned, with an identity column, and p is its partition.           *)
(***************************************************************************)
EXTENDS Naturals, Sequences, FiniteSets, SequencesExt

CONSTANTS
    MaxInserts,      \* rows inserted at the source
    MaxExports       \* exports restored

VARIABLES
    uses,            \* table -> its defaults
    squatted,        \* whether the replacement of "far" finds its name taken
    counts,          \* sequence -> the last value it gave, at the source
    filled,          \* table -> the values in its rows, at the source
    export,          \* the export under way, with the values it has read
    history,         \* the exports restored
    restored         \* the database restored into

yvars == <<uses, squatted, counts, filled, export, history, restored>>

AllTables == {"t", "u", "r", "p"}
AllSequences == {"t_id", "r_id", "q", "far"}
SchemaOf(q) == IF q = "far" THEN "other" ELSE "here"
OwnerOf(q) == CASE q = "t_id" -> "t" [] q = "r_id" -> "r" [] OTHER -> ""

\* The defaults of a table: a column draws from a sequence, by an identity, a
\* nextval bound to it when it was made, or one that looks a text up, which may be
\* unqualified or computed, or name none; and another holds a text, which may
\* spell one.
Default(how, of, text) == [how |-> how, of |-> of, text |-> text]

\* A sequence in the restored: one of the source's by its name, or a replacement, of
\* a serial default or of the identity of a partition, by its first or its second
\* candidate name.
SameSequence(q) == [of |-> q, for |-> "itself", candidate |-> 0]
Replacement(q, for, i) == [of |-> q, for |-> for, candidate |-> i]

Idle == [job |-> <<>>, read |-> <<>>]
YInit(sources) ==
    /\ \E s \in sources : uses = s.uses /\ squatted = s.squatted /\ restored \in s.databases
    /\ counts = [q \in AllSequences |-> 0]
    /\ filled = [t \in AllTables |-> {}]
    /\ export = Idle /\ history = <<>>

-----------------------------------------------------------------------------
(***************************************************************************)
(* The plan of an export                                                   *)
(***************************************************************************)
\* streamExport, filterGroupsBySelection: one table, or a database: one schema of
\* it or all, or some of its tables and the schemas they are in.
ExportJob(level, chosen, schemas, parts) ==
    [level |-> level, chosen |-> chosen, schemas |-> schemas, parts |-> parts]
Whole == {"structure", "data"}
ExportJobs ==
    {ExportJob("table", {t}, {"here"}, parts) : t \in AllTables, parts \in {Whole, {"structure"}, {"data"}}}
    \cup {ExportJob("db", AllTables, schemas, parts) :
             schemas \in {{"here"}, {"here", "other"}}, parts \in {Whole, {"data"}}}
    \cup {ExportJob("db", chosen, {"here"}, Whole) : chosen \in {{"u"}, {"t", "u"}}}

\* expandGateSet: at the level of a database every partition is among the tables.
InTables(j) == j.chosen \cup (IF j.level = "db" THEN {"p"} ELSE {})

\* dumpSequences: an identity's and a serial's sequence with the table that owns it,
\* any other with its schema.
Emits(j, q) == IF OwnerOf(q) # "" THEN OwnerOf(q) \in InTables(j)
               ELSE j.level = "db" /\ SchemaOf(q) \in j.schemas

\* NextvalTextRefs, ParseQualifiedSeqLiteral: the sequences a default names by
\* itself, or by a qualified text that finds one.
Names(d) == IF d.how \in {"bound", "looked up"} THEN {d.of} \cap AllSequences ELSE {}

\* collectExternalSequences: what the tables name and the export does not emit. An
\* export of a database is taken to emit them all.
External(j) == IF j.level = "db" THEN {}
               ELSE {q \in UNION {Names(uses[t]) : t \in InTables(j)} : ~Emits(j, q)}

\* collectStandaloneIdentity: a partition that is exported as a table of its own
\* gets an identity of its own.
StandsAlone(j) == j.level = "table" /\ j.chosen = {"p"}

\* syntheticSeqName: the first candidate the schema has no relation of.
SyntheticSeqName(q) == Replacement(q, "default", IF squatted /\ q = "far" THEN 2 ELSE 1)
IdentitySeqName == Replacement("r_id", "p", 1)

Rebound(q, j) == IF q \in External(j) THEN SyntheticSeqName(q) ELSE SameSequence(q)

\* A mutation of RewriteSequenceRefs: it rewrites what is bound to a sequence.
RewriteBoundRefs(d, j) ==
    [d EXCEPT !.of = IF d.how = "bound" THEN Rebound(d.of, j) ELSE SameSequence(d.of), !.text = SameSequence(@)]

\* RewriteSequenceRefs: each literal that spells, in full, a sequence there is a
\* replacement for now spells that, whatever it is.
RewriteSequenceRefs(d, j) ==
    [d EXCEPT !.of = IF d.how \in {"bound", "looked up"} THEN Rebound(d.of, j) ELSE SameSequence(d.of),
              !.text = Rebound(@, j)]

\* DumpTableCreate, identityOptions.
Created(t, j) ==
    LET d == RewriteSequenceRefs(uses[t], j)
    IN IF t = "p" /\ StandsAlone(j) THEN [d EXCEPT !.of = IdentitySeqName] ELSE d

\* The export is planned: its sequences are read.
Plan(j) ==
    /\ export = Idle /\ Len(history) < MaxExports /\ restored.failed = ""
    /\ export' = [job |-> j, read |-> counts]
    /\ UNCHANGED <<uses, squatted, counts, filled, history, restored>>

-----------------------------------------------------------------------------
(***************************************************************************)
(* The script and its restore                                              *)
(***************************************************************************)
SequenceStatement(op, on, with) == [op |-> op, on |-> on, with |-> with]
NoArgument == "nothing"

\* The tables a script creates: a partitioned one with its partitions.
Relations(j) == j.chosen \cup (IF "r" \in j.chosen THEN {"p"} ELSE {})

\* seqCreateScript, and OWNED BY after the data. An identity column brings its own.
Emitted(j) == {q \in AllSequences : Emits(j, q) /\ q # "r_id"}
Structure(j) ==
    SetToSeq({SequenceStatement("create sequence", SameSequence(q), NoArgument) : q \in Emitted(j)})
    \o SetToSeq({SequenceStatement("create sequence", SyntheticSeqName(q), NoArgument) : q \in External(j)})
    \o SetToSeq({SequenceStatement("create table", t, Created(t, j)) : t \in Relations(j)})

\* seqSetvalScript, read from a sequence of the source and written to one of the
\* restored: the same, or its replacement if the script creates that.
Setval(from, to) == SequenceStatement("set value", to, from)
Values(j) ==
    LET made == "structure" \in j.parts IN
    SetToSeq({Setval(q, SameSequence(q)) : q \in {q \in AllSequences : Emits(j, q)}})
    \o SetToSeq({Setval(q, IF made THEN SyntheticSeqName(q) ELSE SameSequence(q)) : q \in External(j)})
    \o (IF StandsAlone(j) THEN <<Setval("r_id", IF made THEN IdentitySeqName ELSE SameSequence("r_id"))>> ELSE <<>>)

SequenceScript(j) ==
    (IF "structure" \in j.parts THEN Structure(j) ELSE <<>>)
    \o (IF "data" \in j.parts
        THEN SetToSeq({SequenceStatement("rows", t, NoArgument) : t \in Relations(j)}) \o Values(j)
        ELSE <<>>)

\* One statement. An identity column brings its sequence, which that of a partition
\* created with its root shares; a default bound to a sequence needs it there.
Brings(t, d) == IF d.how = "identity" /\ (t # "p" \/ d.of = IdentitySeqName) THEN {d.of} ELSE {}
Runs_(db, s) ==
    LET fails(why) == [db EXCEPT !.failed = why] IN
    IF db.failed # "" THEN db ELSE
    CASE s.op = "create sequence" ->
            IF s.on \in DOMAIN db.last THEN fails("there")
            ELSE [db EXCEPT !.last = @ @@ (s.on :> 0)]
      [] s.op = "create table" ->
            LET brought == Brings(s.on, s.with) IN
            IF s.on \in DOMAIN db.tables \/ brought \cap DOMAIN db.last # {} THEN fails("there")
            ELSE IF s.with.how = "bound" /\ s.with.of \notin DOMAIN db.last THEN fails("missing")
            ELSE [db EXCEPT !.tables = @ @@ (s.on :> s.with), !.rows = @ @@ (s.on :> {}),
                            !.last = @ @@ [q \in brought |-> 0]]
      [] s.op = "rows" ->
            IF s.on \notin DOMAIN db.tables THEN fails("missing")
            ELSE [db EXCEPT !.rows[s.on] = @ \cup filled[s.on]]
      [] OTHER ->
            IF s.on \notin DOMAIN db.last THEN fails("missing")
            ELSE [db EXCEPT !.last[s.on] = export.read[s.with]]

\* The rows are read, the script is complete, and is restored.
WriteAndRestore ==
    /\ export # Idle
    /\ restored' = FoldLeft(Runs_, restored, SequenceScript(export.job))
    /\ history' = Append(history, [job |-> export.job, moved |-> counts # export.read])
    /\ export' = Idle
    /\ UNCHANGED <<uses, squatted, counts, filled>>

\* A client inserts a row that takes the default.
Inserts(t) ==
    /\ restored.failed = ""
    /\ t # "r" /\ uses[t].of \in AllSequences
    /\ Cardinality(UNION {filled[x] : x \in AllTables}) < MaxInserts
    /\ LET v == counts[uses[t].of] + 1 IN
       /\ counts' = [counts EXCEPT ![uses[t].of] = v]
       /\ filled' = [filled EXCEPT ![t] = @ \cup {v}]
    /\ UNCHANGED <<uses, squatted, export, history, restored>>

YNext == \/ \E j \in ExportJobs : Plan(j)
         \/ WriteAndRestore
         \/ \E t \in AllTables : Inserts(t)
-----------------------------------------------------------------------------
Jobs_(parts) == {j \in ToSet(history) : parts \subseteq j.job.parts}
Holding(t) == {h \in ToSet(history) : t \in Relations(h.job) /\ "data" \in h.job.parts}

\* The exceptions. The dump warns that what a default names is not known; the
\* source moved while it was exported; and a database exported without some of its
\* tables or schemas does not replace the sequences of those, which a default of
\* another table may name (NothingExternal claims otherwise).
Warned(t) == uses[t].how \in {"unqualified", "computed"} \/ uses[t].of \notin AllSequences
Moved_(t) == \E h \in Holding(t) : h.moved
OutsideOf(j, t) == j.level = "db" /\ t \in Relations(j) /\ ~Warned(t) /\ ~Emits(j, uses[t].of)
Outside(j) == \E t \in AllTables : OutsideOf(j, t)

\* The structure came by itself, with a replacement, and the rows and the value of
\* the sequence replaced after it.
InHalves(t) ==
    /\ \E h \in Holding(t) : "structure" \notin h.job.parts
    /\ restored.tables[t].of # SameSequence(uses[t].of)

\* The values of a table's rows have been given by the sequence it draws from.
Serves(t) ==
    LET d == restored.tables[t] IN
    d.of \in DOMAIN restored.last /\ \A v \in restored.rows[t] : v <= restored.last[d.of]
Served ==
    restored.failed = "" => \A t \in DOMAIN restored.tables :
        Serves(t) \/ Warned(t) \/ Moved_(t) \/ InHalves(t) \/ \E h \in ToSet(history) : OutsideOf(h.job, t)

\* A restore stops for what is there already: by the database, by an export of the
\* same tables or sequences, or by the replacement of one sequence that two tables
\* name, which has one name; or for what neither export has brought.
Makes(j) == IF "structure" \notin j.parts THEN {}
            ELSE {SameSequence(q) : q \in {q \in AllSequences : Emits(j, q)}}
                 \cup {SyntheticSeqName(q) : q \in External(j)}
Stops ==
    LET last == history[Len(history)].job IN
    /\ restored.failed = "there" =>
          \/ Makes(last) \cap restored.had.last # {} \/ Relations(last) \cap restored.had.tables # {}
          \/ \E i \in 1..(Len(history) - 1) :
                \/ Relations(last) \cap Relations(history[i].job) # {}
                \/ Makes(last) \cap Makes(history[i].job) # {}
    /\ restored.failed = "missing" =>
          \/ Outside(last)
          \/ "structure" \notin last.parts

\* The sequences the database had are its own, but for those an export has the
\* values of: its replacements take no other's name.
Untouched ==
    \A q \in restored.had.last : restored.last[q] # 0 =>
        \E h \in Jobs_({"data"}) : q.for = "itself" /\ (Emits(h.job, q.of) \/ q.of \in External(h.job) \/ StandsAlone(h.job))

\* A text stays what it was, but where it spells a sequence that is replaced.
TextsKept ==
    \A t \in DOMAIN restored.tables :
        \/ restored.tables[t].text = SameSequence(uses[t].text)
        \/ \E h \in Jobs_({"structure"}) : uses[t].text \in External(h.job)

SequencesServe == history # <<>> => Served /\ Stops /\ Untouched /\ TextsKept

\* dump_sequences.go:814: "A database-scope export emits every sequence, so nothing is
\* external": one restored into an empty database finds all its defaults name.
\* MCComponentClaims refutes it by a table whose sequence's schema is left out.
NothingExternal ==
    /\ Len(history) = 1 /\ history[1].job.level = "db" /\ history[1].job.parts = Whole
    /\ restored.had = [tables |-> {}, last |-> {}]
    => /\ restored.failed # "missing"
       /\ restored.failed = "" => \A t \in DOMAIN restored.tables :
             Names(uses[t]) # {} => restored.tables[t].of \in DOMAIN restored.last
=============================================================================
