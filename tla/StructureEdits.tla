--------------------------- MODULE StructureEdits ---------------------------
(***************************************************************************)
(* The structure of a table, and the table itself, changed by forms.       *)
(*                                                                         *)
(* A designer opens the page of table t and later submits one change. The  *)
(* handler looks the relation up, reads its columns, builds a statement    *)
(* from the form and what it has read, asks to confirm what would lose     *)
(* something, and runs it. The form carries a column as the page showed    *)
(* it; the statement restates the column under its name; other designers   *)
(* and other clients change the table between any two of these steps.      *)
(***************************************************************************)
EXTENDS Naturals, FiniteSets, SequencesExt

CONSTANTS
    Designers,
    Orders,          \* designer -> the changes asked for
    MaxElsewhere     \* changes by other clients

VARIABLES
    vendor,          \* the engine
    relations,         \* name -> relation
    desk,            \* designer -> the page and the change under way
    born,            \* columns and relations created so far
    elsewhere        \* changes by other clients so far

ovars == <<vendor, relations, desk, born, elsewhere>>

MySQLs == {"mysql", "mariadb"}
Vendors == MySQLs \cup {"postgres", "sqlite"}

\* model.Column: an id of its own, which a rename keeps, and what the forms show,
\* with the traits they do not.
Def(is, text) == [is |-> is, text |-> text]
NoDefault == Def("none", "")
Column(id, name, base) == [id |-> id, name |-> name, base |-> base, size |-> "", null |-> "yes",
                           def |-> NoDefault, note |-> "", traits |-> {}]

\* An index or a foreign key, on columns by their ids and to a relation.
Part(name, what, on, to) == [name |-> name, what |-> what, on |-> on, to |-> to]

RelationOf(id, kind, cols, parts) == [id |-> id, kind |-> kind, cols |-> cols, parts |-> parts, rows |-> TRUE]
Referenced == RelationOf(90, "table", <<Column(91, "k", "int")>>, {})

Order(do, column, new, field, to) == [do |-> do, column |-> column, new |-> new, field |-> field, to |-> to]
Away == [at |-> "away", page |-> <<>>, order |-> Order("", "", "", "", ""), confirmed |-> FALSE,
         kind |-> "", cols |-> <<>>, stmt |-> <<>>]

\* Some of the designers, and so many changes by others.
OInit(vendors, shapes, working, spent) ==
    /\ vendor \in vendors
    /\ \E t \in shapes : relations = [n \in {"t", "u"} |-> IF n = "t" THEN t ELSE Referenced]
    /\ desk = [d \in Designers |-> IF d \in working THEN Away ELSE [Away EXCEPT !.at = "done"]]
    /\ born = 99 /\ elsewhere = spent

Cols(name) == IF name \in DOMAIN relations THEN relations[name].cols ELSE <<>>
Parts == IF "t" \in DOMAIN relations THEN relations["t"].parts ELSE {}
Find(cols, name) == SelectSeq(cols, LAMBDA c : c.name = name)
ColumnExists(cols, name) == Find(cols, name) # <<>>
Fold_(name) == IF name = "A" THEN "a" ELSE name

-----------------------------------------------------------------------------
(***************************************************************************)
(* The forms                                                               *)
(***************************************************************************)
\* ColumnTypes, and the traits a column of each may have.
ColumnTypes == {"int", "text", "time"} \cup (IF vendor \in MySQLs THEN {"enum"} ELSE {})
Carried(base) == CASE base = "int" -> {"unsigned", "auto", "identity"}
                   [] base = "time" -> {"on update"}
                   [] OTHER -> {"collation"}

\* bulkColumns, mysqlDefaultKind: what the catalogue says of a default. PostgreSQL
\* knows expressions only.
IsExpr(def) == def.is = "expression" \/ (vendor = "postgres" /\ def.is = "literal")

\* TrimSpace, and the quotes that columnDefaultForForm takes off.
Trimmed(text) == IF text = " a " THEN "a" ELSE text
Unquoted(text) == IF vendor # "postgres" /\ text \in {" a ", "'a'"} THEN "a" ELSE text

\* columnDefaultForForm.
Mode(m, v) == [mode |-> m, value |-> v]
DefaultForForm(def) == CASE def.is \in {"none", "null"} -> Mode(def.is, "")
                         [] def = Def("expression", "now") -> Mode("current", "")
                         [] OTHER -> Mode("custom", Unquoted(def.text))

\* buildModifyColumns, columnLengthForForm, columnValuesForForm: a column as its
\* form shows it. Some lengths cannot be shown.
ColumnForm(c) ==
    [base   |-> IF c.base \in ColumnTypes THEN c.base ELSE "",
     length |-> IF c.base = "enum" \/ c.size = "odd" THEN "" ELSE c.size,
     values |-> IF c.base = "enum" THEN c.size ELSE "",
     null   |-> c.null, def |-> DefaultForForm(c.def), note |-> c.note]

\* The form as it is submitted: one field changed, or none.
TypedDefault(to) == IF to \in {"none", "null", "current"} THEN Mode(to, "") ELSE Mode("custom", to)
Filled_(c, o) ==
    LET f == ColumnForm(c) IN
    CASE o.field = "" -> f
      [] o.field = "def" -> [f EXCEPT !.def = TypedDefault(o.to)]
      [] OTHER -> [f EXCEPT ![o.field] = o.to]

\* valueListFromForm: empty lines are dropped.
Members(values) == IF values = "v,," THEN "v" ELSE values

\* columnType: a list of values the user left alone is kept as it is.
TypeRefused(f) == f.base \notin ColumnTypes \/ (f.base = "enum" /\ Members(f.values) = "")
ColumnSize(f, existing) ==
    IF f.base # "enum" THEN f.length
    ELSE IF existing.base = "enum" /\ Members(f.values) = ColumnForm(existing).values THEN existing.size
    ELSE Members(f.values)

\* buildDefault.
DefaultRefused(f) == \/ f.def.mode = "current" /\ f.base # "time"
                     \/ f.def.mode = "custom" /\ f.base = "int" /\ Trimmed(f.def.value) # "0"
BuildDefault(def) == CASE def.mode = "current" -> Def("expression", "now")
                       [] def.mode = "custom" -> Def("literal", Trimmed(def.value))
                       [] OTHER -> Def(def.mode, "")

\* unchangedExprDefault.
UnchangedExpr(existing, f) ==
    LET shown == DefaultForForm(existing.def) IN
    /\ IsExpr(existing.def) /\ f.def.mode = shown.mode
    /\ f.def.mode = "custom" => Trimmed(f.def.value) = shown.value

\* A mutation of ApplyExprDefault: what the form shows is taken for the default.
ApplyShownDefault(existing, f) == BuildDefault(f.def)

\* applyExprDefault: an expression the user left alone is kept as it is.
ApplyExprDefault(existing, f) == IF UnchangedExpr(existing, f) THEN existing.def ELSE BuildDefault(f.def)

\* preserveColumnAttrs: what the form does not show comes from the column as it is
\* read now; what the code does not read is "hidden".
PreserveColumnAttrs(existing) == existing.traits \ {"hidden"}

\* columnSpec.
SpecRefused(f, kept) == TypeRefused(f) \/ (~kept /\ DefaultRefused(f))
ColumnSpec(name, f, existing) ==
    [Column(0, name, f.base) EXCEPT !.size = ColumnSize(f, existing), !.null = f.null, !.note = f.note,
        !.def = ApplyExprDefault(existing, f), !.traits = PreserveColumnAttrs(existing)]

-----------------------------------------------------------------------------
(***************************************************************************)
(* The statements an order builds, of the columns read: none if refused    *)
(***************************************************************************)
Ordered(o, spec) == [do |-> o.do, column |-> o.column, new |-> o.new, spec |-> spec]
NoSpec == Column(0, "", "")

\* buildAddColumn, columnPlacement, AddColumnSQL.
BuildAddColumn(o, cols) ==
    LET blank == Column(0, o.new, "int")
        f == Filled_(blank, o)
        spec == ColumnSpec(o.new, f, blank)
    IN IF /\ ~SpecRefused(f, FALSE)
          /\ o.column = "" \/ (vendor \in MySQLs /\ (o.column = "first" \/ ColumnExists(cols, o.column)))
          /\ vendor = "sqlite" => spec.def.is # "expression" /\ (spec.null = "yes" \/ spec.def.is = "literal")
       THEN {Ordered(o, spec)} ELSE {}

\* buildModifyColumn: of the column as it is read, and the form as the page showed it.
BuildModifyColumn(o, cols, page) ==
    {Ordered(o, ColumnSpec(o.column, Filled_(shown, o), c)) :
        <<c, shown>> \in {<<c, shown>> \in ToSet(Find(cols, o.column)) \X ToSet(Find(page, o.column)) :
            /\ vendor # "sqlite" /\ "generated" \notin c.traits
            /\ ~SpecRefused(Filled_(shown, o), UnchangedExpr(c, Filled_(shown, o)))}}

\* buildRenameColumn.
BuildRenameColumn(o, cols) ==
    {Ordered(o, NoSpec) : c \in {c \in ToSet(Find(cols, o.column)) :
        /\ o.new # o.column
        /\ \A x \in ToSet(cols) : x.name # o.column => Fold_(x.name) # Fold_(o.new)}}

\* sqliteDropColumnBlocked: by what the table has when it is built.
DropBlocked(c) == vendor = "sqlite" /\ \E p \in Parts : c.id \in p.on

\* A mutation of BuildDropColumn: the last column goes like any other.
BuildDropAnyColumn(o, cols) ==
    {Ordered(o, NoSpec) : c \in {c \in ToSet(Find(cols, o.column)) : ~DropBlocked(c)}}

\* buildDropColumn.
BuildDropColumn(o, cols) ==
    {Ordered(o, NoSpec) : c \in {c \in ToSet(Find(cols, o.column)) : Len(cols) > 1 /\ ~DropBlocked(c)}}

\* buildAddIndex, indexKeyParts.
BuildAddIndex(o, cols) == {Ordered(o, NoSpec) : c \in ToSet(Find(cols, o.column))}

\* buildDropIndex, findIndex.
BuildDropIndex(o) == {Ordered(o, NoSpec) : p \in {p \in Parts : p.name = o.new /\ p.what = "index"}}

\* buildAddFK: to a column of u, as the catalogue has it.
BuildAddFK(o, cols) ==
    {Ordered(o, NoSpec) : c \in {c \in ToSet(Find(cols, o.column)) :
        vendor # "sqlite" /\ "u" \in DOMAIN relations /\ ColumnExists(Cols("u"), "k")}}

\* buildDropFK, fkExists.
BuildDropFK(o) == {Ordered(o, NoSpec) : p \in {p \in Parts : vendor # "sqlite" /\ p.name = o.new /\ p.what = "fk"}}

\* runTableOp: one for the relation, whatever columns it has.
BuildTableOp(o) == {Ordered(o, NoSpec)}

TableOps == {"rename table", "truncate", "drop table"}
StructureOps(o, cols, page) ==
    CASE o.do = "add column" -> BuildAddColumn(o, cols)
      [] o.do = "modify column" -> BuildModifyColumn(o, cols, page)
      [] o.do = "rename column" -> BuildRenameColumn(o, cols)
      [] o.do = "drop column" -> BuildDropColumn(o, cols)
      [] o.do = "add index" -> BuildAddIndex(o, cols)
      [] o.do = "drop index" -> BuildDropIndex(o)
      [] o.do = "add fk" -> BuildAddFK(o, cols)
      [] o.do = "drop fk" -> BuildDropFK(o)
      [] OTHER -> BuildTableOp(o)

\* structureConfirmPrompt, and the confirmations of runTableOp.
Confirms(o) == o.do \in {"drop column", "drop index", "drop fk", "truncate", "drop table"}

-----------------------------------------------------------------------------
(***************************************************************************)
(* What the engines make of a statement: nothing, where they refuse it     *)
(***************************************************************************)
SameName(a, b) == IF vendor = "postgres" THEN a = b ELSE Fold_(a) = Fold_(b)
Hit(t, name) == {i \in DOMAIN t.cols : SameName(t.cols[i].name, name)}
Place(cols, c, after) == CASE after = "first" -> <<c>> \o cols
                           [] after # "" /\ ColumnExists(cols, after) ->
                                InsertAt(cols, 1 + CHOOSE i \in DOMAIN cols : cols[i].name = after, c)
                           [] OTHER -> Append(cols, c)
Stored(def) == IF def.is = "null" /\ vendor # "mariadb" THEN NoDefault ELSE def

\* MODIFY COLUMN states the whole column anew.
Restated(c, spec) == [spec EXCEPT !.id = c.id, !.name = c.name, !.def = Stored(@), !.traits = @ \cap Carried(spec.base)]

\* ALTER COLUMN, one property after the other in a transaction; TYPE without COLLATE
\* takes the type's own collation. An identity has no default and no nulls.
Altered(c, spec) ==
    [Restated(c, spec) EXCEPT
        !.def = IF "identity" \in spec.traits THEN c.def ELSE @,
        !.traits = c.traits \cap ({"hidden"} \cup (Carried(spec.base) \ {"collation"}))]
Alterable(c, spec) ==
    "identity" \in c.traits => "identity" \in spec.traits /\ spec.null = "no" /\ spec.base = "int"

\* A column goes: its indexes lose it, or go with it, or hold it.
Without(t, i) ==
    LET id == t.cols[i].id
        holding == {p \in t.parts : id \in p.on}
        less == [t EXCEPT !.cols = RemoveAt(@, i)]
    IN CASE vendor = "sqlite" -> IF holding = {} THEN {less} ELSE {}
         [] vendor = "postgres" -> {[less EXCEPT !.parts = @ \ holding]}
         [] OTHER -> IF Len(t.cols) = 1 \/ \E p \in holding : p.what = "fk" THEN {}
                     ELSE {[less EXCEPT !.parts = {p \in {[p EXCEPT !.on = @ \ {id}] : p \in t.parts} : p.on # {}}]}

Becomes(t, s) ==
    CASE s.do = "add column" ->
            IF Hit(t, s.new) # {} \/ (s.column \notin {"", "first"} /\ Hit(t, s.column) = {}) THEN {}
            ELSE {[t EXCEPT !.cols = Place(@, [s.spec EXCEPT !.id = born + 1, !.def = Stored(@)], s.column)]}
      [] s.do = "modify column" ->
            {[t EXCEPT !.cols[i] = IF vendor = "postgres" THEN Altered(@, s.spec) ELSE Restated(@, s.spec)] :
                i \in {i \in Hit(t, s.column) : vendor = "postgres" => Alterable(t.cols[i], s.spec)}}
      [] s.do = "rename column" ->
            {[t EXCEPT !.cols[i].name = s.new] : i \in {i \in Hit(t, s.column) : Hit(t, s.new) \subseteq {i}}}
      [] s.do = "drop column" -> UNION {Without(t, i) : i \in Hit(t, s.column)}
      [] s.do \in {"add index", "add fk"} ->
            {[t EXCEPT !.parts = @ \cup {Part(s.new, IF s.do = "add fk" THEN "fk" ELSE "index", {t.cols[i].id},
                                              IF s.do = "add fk" THEN relations["u"].id ELSE 0)}] :
                i \in {i \in Hit(t, s.column) : /\ \A p \in t.parts : p.name # s.new
                                                /\ s.do = "add fk" => Cols("u") # <<>>}}
      [] s.do \in {"drop index", "drop fk"} ->
            {[t EXCEPT !.parts = @ \ {p}] : p \in {p \in t.parts : p.name = s.new /\ p.what # "primary"}}
      [] OTHER -> {[t EXCEPT !.rows = FALSE]}

Outcomes(s, kind) ==
    IF "t" \notin DOMAIN relations THEN {} ELSE
    LET t == relations["t"]
        rest == [n \in DOMAIN relations \ {"t"} |-> relations[n]]
    IN CASE s.do = "drop table" -> IF t.kind = kind THEN {rest} ELSE {}
         [] s.do = "rename table" ->
                IF s.new \in DOMAIN relations \/ (vendor = "sqlite" /\ t.kind = "view") THEN {} ELSE {rest @@ (s.new :> t)}
         [] OTHER -> IF t.kind # "table" THEN {} ELSE {[relations EXCEPT !["t"] = x] : x \in Becomes(t, s)}

-----------------------------------------------------------------------------
(***************************************************************************)
(* The steps                                                               *)
(***************************************************************************)
AtDesk(d, from, r) == desk[d].at = from /\ desk' = [desk EXCEPT ![d] = r]
OnlyDesk == UNCHANGED <<vendor, relations, born, elsewhere>>

\* TableStructure, TableOperations: the page.
TableStructure(d) ==
    /\ "t" \in DOMAIN relations
    /\ AtDesk(d, "away", [desk[d] EXCEPT !.at = "open", !.page = Cols("t")])
    /\ OnlyDesk

\* A column is chosen from those of the page.
Post(d) ==
    /\ \E o \in Orders[d] :
          /\ o.column \in {"", "first"} \/ ColumnExists(desk[d].page, o.column)
          /\ AtDesk(d, "open", [desk[d] EXCEPT !.at = "posted", !.order = o])
    /\ OnlyDesk

\* runStructureOp, runTableOp: lookupTable, isView.
LookUpTable(d) ==
    /\ LET o == desk[d].order IN
       IF "t" \notin DOMAIN relations \/ (relations["t"].kind = "view" /\ o.do \notin {"rename table", "drop table"})
       THEN AtDesk(d, "posted", [desk[d] EXCEPT !.at = "refused"])
       ELSE AtDesk(d, "posted", [desk[d] EXCEPT !.at = IF o.do \in TableOps THEN "columns" ELSE "looked",
                                                !.kind = relations["t"].kind])
    /\ OnlyDesk

\* op.cols, read once: of a table that has gone, none.
ReadColumns(d) ==
    /\ AtDesk(d, "looked", [desk[d] EXCEPT !.at = "columns", !.cols = Cols("t")])
    /\ OnlyDesk

\* structureOps, requireConfirm.
BuildOp(d) ==
    /\ LET built == StructureOps(desk[d].order, desk[d].cols, desk[d].page) IN
       IF built = {} THEN AtDesk(d, "columns", [desk[d] EXCEPT !.at = "refused"])
       ELSE IF Confirms(desk[d].order) /\ ~desk[d].confirmed
       THEN AtDesk(d, "columns", [desk[d] EXCEPT !.at = "asked"])
       ELSE \E s \in built : AtDesk(d, "columns", [desk[d] EXCEPT !.at = "built", !.stmt = <<s>>])
    /\ OnlyDesk

\* The page of requireConfirm posts the same form again.
ConfirmOp(d) ==
    /\ AtDesk(d, "asked", [desk[d] EXCEPT !.at = "posted", !.confirmed = TRUE])
    /\ OnlyDesk

\* ExecScript: in a transaction, or one statement; it may always fail.
ExecOp(d) ==
    \/ /\ AtDesk(d, "built", [desk[d] EXCEPT !.at = "failed"])
       /\ OnlyDesk
    \/ /\ AtDesk(d, "built", [desk[d] EXCEPT !.at = "done"])
       /\ relations' \in Outcomes(desk[d].stmt[1], desk[d].kind)
       /\ born' = born + 1
       /\ UNCHANGED <<vendor, elsewhere>>

\* Another client gives the first column another default, comment or name, takes
\* its traits, or puts a view or a new table in the place of the table.
Otherwise(t) ==
    (IF t.cols = <<>> THEN {} ELSE
        {[t EXCEPT !.cols[1].def = Def("expression", "f()")], [t EXCEPT !.cols[1].note = "theirs"],
         [t EXCEPT !.cols[1].name = "c"], [t EXCEPT !.cols[1].traits = {}]})
    \cup {RelationOf(born + 1, k, <<Column(born + 2, "a", "text")>>, {}) : k \in {"table", "view"}}
OtherClient ==
    /\ elsewhere < MaxElsewhere
    /\ \E n \in DOMAIN relations \cap {"t"} : \E t \in Otherwise(relations[n]) : relations' = [relations EXCEPT ![n] = t]
    /\ elsewhere' = elsewhere + 1 /\ born' = born + 2
    /\ UNCHANGED <<vendor, desk>>

ONext == \/ \E d \in Designers : \/ TableStructure(d) \/ Post(d) \/ LookUpTable(d) \/ ReadColumns(d) \/ BuildOp(d)
                                 \/ ConfirmOp(d) \/ ExecOp(d)
         \/ OtherClient

-----------------------------------------------------------------------------
\* What a form cannot carry there and back: blanks or quotes around a default,
\* some lengths, and the empty member of a list.
Unshown(c, field) ==
    \/ field = "def" /\ (c.def.text = " a " \/ (c.def.text = "'a'" /\ vendor \in MySQLs))
    \/ field = "size" /\ c.size \in {"odd", "v,,"}
\* What is lost with a new type: the length of the old one.
Retyped(before, after, field) == field = "size" /\ before.base # after.base

\* What the page showed in a field that has changed since, as a default in words.
Carries(after, shown, field) ==
    \/ after = shown
    \/ field = "def" /\ after.is = "literal" /\ after.text \in {shown.text, Trimmed(shown.text), Unquoted(shown.text)}

\* Traits that go: those TableX does not read, of a statement that restates the
\* column, the collation where the type is stated without it, those of another type.
Lost(x, base) == \/ x = "hidden" /\ vendor \in MySQLs
                 \/ x = "collation" /\ vendor = "postgres"
                 \/ x # "hidden" /\ x \notin Carried(base)

Fields == {"base", "size", "null", "def", "note"}
FieldOf(o) == IF o.field \in {"length", "values"} THEN "size" ELSE o.field

\* A column is as the user had it, but for what was changed and for what is named
\* above; the claims below name nothing.
Preserved(o, page, read, before, after) ==
    /\ \A f \in Fields \ {FieldOf(o)} :
          \/ after[f] = before[f] \/ Unshown(before, f) \/ Retyped(before, after, f)
          \/ page[f] # before[f] /\ (Carries(after[f], page[f], f) \/ Unshown(page, f) \/ Retyped(page, after, f))
    /\ \A x \in before.traits : x \in after.traits \/ x \notin read.traits \/ Lost(x, after.base)
    /\ after.traits \subseteq before.traits \cup read.traits
Done_(o, before, after) ==
    CASE o.field \in {"base", "null", "note"} -> after[o.field] = o.to
      [] o.field = "def" -> \/ after.def = Stored(BuildDefault(TypedDefault(o.to)))
                            \/ "identity" \in before.traits
                            \/ IsExpr(after.def) /\ after.def.text = o.to
      [] o.field = "length" -> after.base = "enum" \/ after.size = o.to
      [] o.field = "values" -> after.base = "enum" => after.size = o.to
      [] OTHER -> TRUE

\* A change reported as done is the one asked for and no other: it restates a
\* column from a page, from columns read since and from a form that shows less than
\* the column has, while the table changes. What another client has changed since
\* the page was opened may be put back, a field as the page showed it; but no trait
\* the page has no field for, and no default another left alone. The other columns
\* stay as they are and in order, and so do the indexes and keys, but for those
\* that hold a column dropped; and none is dropped last that was not another's.
StructureAsAsked ==
    [][\A d \in Designers : desk[d].at = "built" /\ desk'[d].at = "done" /\ desk[d].order.do \notin TableOps =>
        LET o == desk[d].order
            old == relations["t"]
            new == relations'["t"]
            ids == {c.id : c \in ToSet(old.cols)}
            named == IF o.do \in {"modify column", "rename column", "drop column"}
                     THEN {c \in ToSet(old.cols) : SameName(c.name, o.column)} ELSE {}
            others == SelectSeq(old.cols, LAMBDA c : c \notin named)
        IN  /\ SelectSeq(new.cols, LAMBDA c : \E x \in ToSet(others) : c.id = x.id) = others
            /\ Cardinality({c.name : c \in ToSet(new.cols)}) = Len(new.cols)
            /\ new.cols = <<>> => Len(desk[d].cols) > 1
            /\ o.do = "modify column" => \A b \in named : \E a \in ToSet(new.cols) :
                  /\ a.id = b.id /\ Done_(o, b, a)
                  /\ \E p \in ToSet(Find(desk[d].page, o.column)), r \in ToSet(Find(desk[d].cols, o.column)) :
                        Preserved(o, p, r, b, a)
            /\ o.do = "add column" => \E a \in ToSet(new.cols) : a.id \notin ids /\ a.name = o.new
            /\ \A p \in old.parts : p \in new.parts \/ p.name = o.new
                                       \/ (o.do = "drop column" /\ \E c \in named : c.id \in p.on)
      ]_ovars

\* structure.go:154-155: "a no-JS submit preserves everything the user did not change".
\* MCComponentClaims refutes it three times: by a default the form cannot carry, by a
\* trait TableX does not read, and by what another client has changed meanwhile.
OnSubmit(Kept(_, _, _, _)) ==
    \A d \in Designers : LET o == desk[d].order IN
        desk[d].at = "built" /\ desk'[d].at = "done" /\ o.do = "modify column" =>
            \A b \in ToSet(relations["t"].cols), a \in ToSet(relations'["t"].cols),
               p \in ToSet(desk[d].page) : a.id = b.id /\ p.id = b.id /\ b.name = o.column => Kept(o, p, b, a)
FieldsKept(o, page, before, after) ==
    \A f \in Fields \ {FieldOf(o)} : page[f] = before[f] => after[f] = before[f]
TraitsKept(o, page, before, after) ==
    after.base = before.base /\ page.traits = before.traits => after.traits = before.traits
NewerKept(o, page, before, after) ==
    \A f \in Fields \ {FieldOf(o)} : page[f] # before[f] => after[f] = before[f]
=============================================================================
