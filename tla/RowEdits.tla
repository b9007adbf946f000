------------------------------ MODULE RowEdits ------------------------------
(***************************************************************************)
(* Rows of one table inserted, edited, copied and deleted from pages that  *)
(* may be out of date.                                                     *)
(*                                                                         *)
(* A page gives each row a token: its primary key, or all its cells when   *)
(* the table has none. A form is filled from the row the token finds, and  *)
(* carries what it showed; on its return the columns that differ from that *)
(* are written to the rows the token finds then. An insert and a single    *)
(* edit are one statement; a deletion and the bulk form are a transaction  *)
(* of one statement per row. What is shown of a cell is not always what is *)
(* stored, and a browser sends line ends its own way.                      *)
(***************************************************************************)
EXTENDS Naturals, Sequences, FiniteSets, SequencesExt, Lists

CONSTANTS
    Editors,      \* the users at work on the table
    RowIds,       \* the places rows may take
    Texts,        \* what a cell may hold, or its field
    Typings,      \* what may be typed in one row's fields: column -> "keep" or a value
    MaxChosen     \* the most rows chosen for one request

VARIABLES
    plans,    \* user -> what the user sets out to do
    table,    \* [kind, keyed, nullKeys, changed]: what the catalog says of it
    columns,  \* the columns it has
    grid,     \* place -> row, or NoRow
    undo,     \* user -> place -> row before the open transaction wrote it
    doing,    \* user -> where the user is
    tokens,   \* user -> the row keys of the request
    fields,   \* user -> the fields of each row of the form
    typed,    \* user -> what was typed in each
    queue,    \* user -> statements of the request still to run
    wrote,    \* user -> what the request has written: [set, place, values]
    tally,    \* user -> rows affected, as the engine has counted them
    told      \* user -> the answer: [kind, n, by]

evars == <<plans, table, columns, grid, undo, doing, tokens, fields, typed, queue, wrote, tally, told>>

\* Columns: k is numeric, v text, b may hold bytes, g is generated.
AllColumns == {"k", "v", "b", "g"}
NoRow == [c \in AllColumns |-> "gone"]

\* What is typed in a column: "keep" where it is left alone, "null" where the box is
\* ticked, "empty" where the text is taken out.
ASSUME EditAssumption ==
    /\ IsFiniteSet(RowIds) /\ MaxChosen \in Nat /\ Typings \subseteq [AllColumns -> Texts]
    /\ {"keep", "null", "empty", "gone", "gen", "l", "lr", "ts", "tz", "7", "8", "9"} \subseteq Texts

\* formatValue, capCell: "ts" is shown as another value than is stored, "long"
\* in part only, bytes as a placeholder.
Shown(x) == IF x = "ts" THEN "tz" ELSE x

\* A browser sends "l" with its own line end; normalizeNewlines takes it back.
Sent(x) == IF x = "l" THEN "lr" ELSE x
NormalizeNewlines(x) == IF x = "lr" THEN "l" ELSE x

(***************************************************************************)
(* Row keys                                                                *)
(***************************************************************************)
KeyColumns == IF table.keyed THEN columns \cap {"k"} ELSE columns

\* rowKeyFor: a row that bytes or a cut value would have to identify gets none.
HasKey(row) == \A c \in KeyColumns : row[c] \notin {"bytes", "long"}
RowKeyFor(row) == [c \in KeyColumns |-> Shown(row[c])]

\* buildWhereInto, on the row as the statement of e sees it.
Seen(e, i) == IF \E o \in Editors \ {e} : i \in DOMAIN undo[o]
              THEN LET o == CHOOSE o \in Editors \ {e} : i \in DOMAIN undo[o] IN undo[o][i]
              ELSE grid[i]
Matches(row, token) == row # NoRow /\ \A c \in DOMAIN token : row[c] = token[c]
Matched(e, token) == {i \in RowIds : Matches(Seen(e, i), token)}
Resolvable(token) == DOMAIN token # {} /\ DOMAIN token \subseteq columns

\* The engine makes a statement wait for a row another transaction has written.
Waits(e, token) == \E o \in Editors \ {e} : \E i \in DOMAIN undo[o] :
    Matches(undo[o][i], token) \/ Matches(grid[i], token)

(***************************************************************************)
(* Forms                                                                   *)
(***************************************************************************)
\* editFieldsFor, from a row read whole; a copy leaves out what the engine
\* numbers.
Field(row, c, copy) ==
    IF copy /\ c = "k" /\ table.keyed THEN [shown |-> "empty", null |-> FALSE, binary |-> FALSE]
    ELSE [shown |-> IF row[c] = "null" THEN "empty" ELSE Shown(row[c]),
          null |-> row[c] = "null", binary |-> row[c] = "bytes"]
FieldsFor(row, copy) == [c \in columns |-> Field(row, c, copy)]
BlankFields == [c \in columns |-> [shown |-> "empty", null |-> FALSE, binary |-> FALSE]]

NullBox(f, t) == t = "null" \/ (t = "keep" /\ f.null)
Sends(f, t) == Sent(IF t \in {"keep", "null"} THEN f.shown ELSE t)

\* The field comes back as it was shown. Bytes carry no original to compare.
Unchanged(f, t) == ~f.binary /\ IF NullBox(f, t) THEN f.null
    ELSE ~f.null /\ NormalizeNewlines(Sends(f, t)) = NormalizeNewlines(f.shown)

\* readRowValues: the columns to write. A numeric field left empty is not one.
Writes(f, t, c, insert) ==
    /\ c # "g" /\ c \in columns
    /\ insert \/ ~Unchanged(f, t)
    /\ NullBox(f, t) \/ (~f.binary /\ ~(Sends(f, t) = "empty" /\ c = "k"))

\* A mutation of ReadRowValues: every field of the form is written.
ReadRowValuesAll(fs, ts, insert) ==
    [c \in {c \in DOMAIN fs : Writes(fs[c], ts[c], c, TRUE)} |->
        IF NullBox(fs[c], ts[c]) THEN "null" ELSE Sends(fs[c], ts[c])]

ReadRowValues(fs, ts, insert) ==
    [c \in {c \in DOMAIN fs : Writes(fs[c], ts[c], c, insert)} |->
        IF NullBox(fs[c], ts[c]) THEN "null" ELSE Sends(fs[c], ts[c])]

(***************************************************************************)
(* The engine                                                              *)
(***************************************************************************)
\* A key is unique, and not NULL unless the engine lets it.
Clash(row, other) == row # NoRow /\ other # NoRow /\ row["k"] # "null" /\ row["k"] = other["k"]
NullKey(row) == row # NoRow /\ row["k"] = "null" /\ ~table.nullKeys
Legal(rows) == table.keyed =>
    \A i \in RowIds : ~NullKey(rows[i]) /\ \A j \in RowIds \ {i} : ~Clash(rows[i], rows[j])

\* A statement of e that would use a key waits while a transaction may bring it back.
WaitsForKey(e, effect) == table.keyed /\ \E o \in Editors \ {e} :
    \E i \in DOMAIN effect, j \in DOMAIN undo[o] : Clash(effect[i], undo[o][j])

\* The engine numbers a row as no other is, nor one that may come back. (It has only
\* these numbers.)
Numbers == {"7", "8", "9"} \ ({grid[i]["k"] : i \in RowIds}
                              \cup UNION {{undo[o][i]["k"] : i \in DOMAIN undo[o]} : o \in Editors})
NewRow(set, key) == [c \in AllColumns |->
    IF c \in DOMAIN set THEN set[c] ELSE IF c = "k" /\ table.keyed THEN key
    ELSE IF c = "g" THEN "gen" ELSE "null"]

\* What the rows become under a statement of e.
Effects(e, s) ==
    IF s.op = "insert"
    THEN {[i \in {j} |-> NewRow(s.set, CHOOSE k \in Numbers : TRUE)] :
            j \in {i \in RowIds : grid[i] = NoRow /\ Numbers # {} /\ \A o \in Editors : i \notin DOMAIN undo[o]}}
    ELSE {[i \in Matched(e, s.token) |-> IF s.op = "delete" THEN NoRow
            ELSE [c \in AllColumns |-> IF c \in DOMAIN s.set THEN s.set[c] ELSE grid[i][c]]]}

\* RowsAffected: MySQL counts the rows an UPDATE has changed.
Affected(effect) == Cardinality({i \in DOMAIN effect : ~table.changed \/ effect[i] # grid[i]})

(***************************************************************************)
(* Answers                                                                 *)
(***************************************************************************)
Tell(e, kind, n) == /\ told' = [told EXCEPT ![e] = [kind |-> kind, n |-> n, by |-> doing[e]]]
                    /\ doing' = [doing EXCEPT ![e] = "done"]

\* dbError: to the program, the answer of a statement or of a commit that is lost is an
\* error like any other, whatever the engine has done.
Replies(e, kind, n) == Tell(e, kind, n) \/ Tell(e, "error", 0)

\* A rollback: the rows the request has written are put back.
Undone(e) == [i \in RowIds |-> IF i \in DOMAIN undo[e] THEN undo[e][i] ELSE grid[i]]
Nothing == [i \in {} |-> NoRow]

EInit(tables, fills, chores) ==
    /\ plans \in chores /\ table \in tables /\ grid \in fills /\ Legal(grid)
    /\ columns = AllColumns
    /\ undo = [e \in Editors |-> Nothing] /\ doing = [e \in Editors |-> IF plans[e] = {} THEN "away" ELSE "idle"]
    /\ tokens = [e \in Editors |-> <<>>] /\ fields = tokens /\ typed = tokens /\ queue = tokens
    /\ wrote = [e \in Editors |-> {}] /\ tally = [e \in Editors |-> 0]
    /\ told = [e \in Editors |-> [kind |-> "none", n |-> 0, by |-> "none"]]

\* showBrowse: the page, as it is when it is rendered. Sequences have none.
Browse(e) ==
    /\ doing[e] = "idle" /\ table.kind # "sequence"
    /\ tokens' = [tokens EXCEPT ![e] =
           SetToSeq({RowKeyFor(Seen(e, i)) : i \in {i \in RowIds : Seen(e, i) # NoRow /\ HasKey(Seen(e, i))}})]
    /\ doing' = [doing EXCEPT ![e] = "page"]
    /\ UNCHANGED <<plans, table, columns, grid, undo, fields, typed, queue, wrote, tally, told>>

\* requireWritableTable: no page leads there, but the routes do.
Refused == table.kind # "table"

\* TableInsertForm, TableEditForm, bulkEditForm: one set of fields for each
\* selected row that is still found; none found is an answer of its own.
OpenForm(e, mode, chosen) ==
    LET found == Omit(chosen, {t \in ToSet(chosen) : ~Resolvable(t) \/ Matched(e, t) = {}})
    IN  /\ doing[e] = "page"
        /\ mode # "insert" => chosen # <<>>
        /\ mode \in {"insert", "edit"} => Len(chosen) <= 1
        /\ IF Refused \/ (chosen # <<>> /\ found = <<>>)
           THEN Tell(e, "refused", 0) /\ UNCHANGED <<tokens, fields>>
           ELSE /\ doing' = [doing EXCEPT ![e] = mode] /\ UNCHANGED told
                /\ tokens' = [tokens EXCEPT ![e] = found]
                /\ IF chosen = <<>> THEN fields' = [fields EXCEPT ![e] = <<BlankFields>>]
                   ELSE \E from \in [1..Len(found) -> RowIds] :
                          /\ \A n \in 1..Len(found) : from[n] \in Matched(e, found[n])
                          /\ fields' = [fields EXCEPT ![e] =
                                [n \in 1..Len(found) |-> FieldsFor(Seen(e, from[n]), mode \in {"insert", "copy"})]]
        /\ UNCHANGED <<plans, table, columns, grid, undo, typed, queue, wrote, tally>>

\* TableInsert, TableEdit, TableBulkApply: the statements, in the order of the
\* form, where bytes can only be made NULL. A key with a column the table no longer
\* has is refused.
Submit(e, ts) ==
    LET insert == doing[e] # "edit" /\ doing[e] # "bulk"
        sets == [n \in 1..Len(ts) |-> ReadRowValues(fields[e][n], ts[n], insert)]
        dirty == Omit([n \in 1..Len(ts) |-> n], {n \in 1..Len(ts) : DOMAIN sets[n] = {}})
        ask(n) == [op |-> IF insert THEN "insert" ELSE "update", n |-> n, set |-> sets[n],
                   token |-> IF insert THEN <<>> ELSE tokens[e][n]]
    IN  /\ doing[e] \in {"insert", "edit", "bulk", "copy"}
        /\ Len(ts) = Len(fields[e])
        /\ \A n \in 1..Len(ts) : \A c \in DOMAIN fields[e][n] :
              fields[e][n][c].binary => ts[n][c] \in {"keep", "null"}
        /\ typed' = [typed EXCEPT ![e] = ts]
        /\ IF Refused \/ (~insert /\ \E n \in ToSet(dirty) : ~Resolvable(tokens[e][n]))
           THEN Tell(e, "refused", 0) /\ UNCHANGED queue
           ELSE IF dirty = <<>> THEN Tell(e, "info", 0) /\ UNCHANGED queue
           ELSE /\ queue' = [queue EXCEPT ![e] = [m \in 1..Len(dirty) |-> ask(dirty[m])]]
                /\ doing' = [doing EXCEPT ![e] = IF @ \in {"insert", "edit"} THEN "once" ELSE "tx"]
                /\ UNCHANGED told
        /\ UNCHANGED <<plans, table, columns, grid, undo, tokens, fields, wrote, tally>>

\* TableDelete, once it is confirmed: keys that do not resolve are skipped.
Delete(e, chosen) ==
    LET good == Omit(chosen, {t \in ToSet(chosen) : ~Resolvable(t)})
    IN  /\ doing[e] = "page" /\ chosen # <<>>
        /\ IF Refused THEN Tell(e, "refused", 0) /\ UNCHANGED <<queue, tokens>>
           ELSE /\ queue' = [queue EXCEPT ![e] = [n \in 1..Len(good) |->
                       [op |-> "delete", n |-> n, set |-> <<>>, token |-> good[n]]]]
                /\ tokens' = [tokens EXCEPT ![e] = good]
                /\ doing' = [doing EXCEPT ![e] = "tx"] /\ UNCHANGED told
        /\ UNCHANGED <<plans, table, columns, grid, undo, fields, typed, wrote, tally>>

(***************************************************************************)
(* Running                                                                 *)
(***************************************************************************)
Fits(s) == DOMAIN s.set \subseteq columns /\ (s.op = "insert" \/ Resolvable(s.token))

\* A statement or a commit that the engine refuses, or that never reaches it: what came
\* before it in the transaction is rolled back.
Fails(e) ==
    /\ doing[e] \in {"once", "tx"}
    /\ grid' = Undone(e) /\ undo' = [undo EXCEPT ![e] = Nothing]
    /\ wrote' = [wrote EXCEPT ![e] = {w \in @ : w.place \notin DOMAIN undo[e]}]
    /\ Tell(e, "error", 0)
    /\ UNCHANGED <<plans, table, columns, tokens, fields, typed, queue, tally>>

\* What TableEdit says of the number of rows.
EditKind(n) == IF n = 0 \/ (n > 1 /\ ~table.keyed) THEN "warning" ELSE "success"

Exec(e) ==
    LET s == Head(queue[e]) IN
    /\ doing[e] \in {"once", "tx"} /\ queue[e] # <<>>
    /\ Fits(s) /\ (s.op # "insert" => ~Waits(e, s.token))
    /\ \E effect \in Effects(e, s) :
          LET after == [i \in RowIds |-> IF i \in DOMAIN effect THEN effect[i] ELSE grid[i]]
              n == Affected(effect)
          IN  /\ Legal(after) /\ ~WaitsForKey(e, effect) /\ grid' = after
              /\ wrote' = [wrote EXCEPT ![e] = @ \cup
                    {[set |-> s.n, place |-> i, op |-> s.op, values |-> s.set] : i \in DOMAIN effect}]
              /\ tally' = [tally EXCEPT ![e] = @ + n]
              /\ IF doing[e] = "once"
                 THEN /\ Replies(e, IF s.op = "insert" THEN "success" ELSE EditKind(n), n)
                      /\ UNCHANGED undo
                 ELSE /\ undo' = [undo EXCEPT ![e] =
                            [i \in DOMAIN @ \cup DOMAIN effect |-> IF i \in DOMAIN @ THEN @[i] ELSE grid[i]]]
                      /\ UNCHANGED <<told, doing>>
    /\ queue' = [queue EXCEPT ![e] = Tail(@)]
    /\ UNCHANGED <<plans, table, columns, tokens, fields, typed>>

\* deleteFlash, bulkApplyFlash.
Several(e) == \E w, x \in wrote[e] : w.set = x.set /\ w.place # x.place
TxKind(e) == IF typed[e] # <<>> THEN "success"
             ELSE IF tally[e] = 0 \/ (Several(e) /\ ~table.keyed) THEN "warning" ELSE "success"

Commits(e) ==
    /\ doing[e] = "tx" /\ queue[e] = <<>>
    /\ undo' = [undo EXCEPT ![e] = Nothing]
    /\ Replies(e, TxKind(e), tally[e])
    /\ UNCHANGED <<plans, table, columns, grid, tokens, fields, typed, queue, wrote, tally>>

\* Somebody else alters the table.
Alter == /\ columns = AllColumns /\ \A e \in Editors : undo[e] = Nothing
         /\ columns' = AllColumns \ {"v"}
         /\ UNCHANGED <<plans, table, grid, undo, doing, tokens, fields, typed, queue, wrote, tally, told>>

\* The engine keeps the primary key unique and not NULL.
Ordinary == table.keyed /\ ~table.nullKeys

\* Rows that look the same have one token, which is then sent for each of them.
Chosen(e) == {s \in UNION {[1..n -> ToSet(tokens[e])] : n \in 1..MaxChosen} :
                \A i, j \in DOMAIN s : i # j => s[i] # s[j] \/ (~Ordinary /\ Len(tokens[e]) = 1)}

ENext == \/ Alter
         \/ \E e \in Editors :
              \/ Browse(e) \/ Exec(e) \/ Fails(e) \/ Commits(e)
              \/ "delete" \in plans[e] /\ \E s \in Chosen(e) : Delete(e, s)
              \/ \E m \in plans[e] \ {"delete"}, s \in Chosen(e) \cup {<<>>} : OpenForm(e, m, s)
              \/ \E ts \in UNION {[1..n -> Typings] : n \in 1..MaxChosen} : Submit(e, ts)

\* Users of any table, whatever is in it.
Chores == {"insert", "edit", "bulk", "copy", "delete"}
AnyTable == [kind : {"table", "view", "sequence"}, keyed : BOOLEAN, nullKeys : BOOLEAN, changed : BOOLEAN]
ESpec == /\ EInit(AnyTable, [RowIds -> [AllColumns -> Texts]], [Editors -> SUBSET Chores])
         /\ [][ENext]_evars

(***************************************************************************)
(* Properties                                                              *)
(***************************************************************************)
KeysKept(e) == \A n \in DOMAIN typed[e] : typed[e][n]["k"] = "keep"

\* What is written is what was typed, however old the form is and whatever others
\* have done to the row: a form may not carry back a cell its user left alone, a
\* value the page could only show in part or changed, or a line end of the
\* browser. Where the engine keeps the primary key unique and not NULL, a key
\* never finds two rows, and two rows of a form never write the same one unless
\* the form changes keys: the statements run in turn, so a row that is given the
\* key of a later one is written again in its place. In a table without a
\* primary key, an edit or a deletion that found several says so. After an error
\* either nothing of the request is left or all of it is, and then no statement was
\* still to run (the answer was lost); what a page says of numbers is what happened;
\* and "no changes" is said only to one who made none.
Honest(e) ==
    /\ \A w \in wrote[e] : w.op = "update" =>
          \A c \in DOMAIN w.values :
             /\ typed[e][w.set][c] # "keep"
             /\ w.values[c] = IF typed[e][w.set][c] = "null" THEN "null" ELSE Sent(typed[e][w.set][c])
    /\ Ordinary /\ KeysKept(e) => \A w, x \in wrote[e] : w.op # "insert" => (w.set = x.set <=> w.place = x.place)
    /\ table.kind # "table" => wrote[e] = {}
    /\ doing[e] = "done" =>
          /\ undo[e] = Nothing
          /\ told[e].kind \in {"refused", "info"} => wrote[e] = {}
          /\ told[e].kind = "error" => wrote[e] = {} \/ queue[e] = <<>>
          /\ told[e].kind \in {"success", "warning"} =>
                /\ told[e].n <= Cardinality(wrote[e])
                /\ ~table.changed => told[e].n = Cardinality(wrote[e])
          /\ Several(e) /\ told[e].kind = "success" /\ (told[e].by = "once" \/ typed[e] = <<>>) => table.nullKeys
          /\ told[e].kind = "info" => \A n \in DOMAIN typed[e] : \A c \in DOMAIN fields[e][n] \ {"g"} :
                \/ typed[e][n][c] \in {"keep", "empty"} \/ c \notin columns
                \/ typed[e][n][c] = "null" /\ fields[e][n][c].null
                \/ NormalizeNewlines(typed[e][n][c]) = NormalizeNewlines(fields[e][n][c].shown)
EditsAreHonest == \A e \in Editors : Honest(e)
=============================================================================
