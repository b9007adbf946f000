---------------------------- MODULE DumpRestore ----------------------------
(***************************************************************************)
(* A drop-first SQL dump of one database and its restore.                  *)
(*                                                                         *)
(* dump.ResolveDB orders the objects of a catalog so that each is created  *)
(* after what it needs. A cycle is broken by deferring a clause (the       *)
(* default of a column or of a domain) or by creating a routine first as a *)
(* stub. buildTeardownPlan then decides which DROP statements the dump     *)
(* begins with, for a target that already holds the objects. The import    *)
(* runs the statements in order and stops at the first error.              *)
(*                                                                         *)
(* The target is PostgreSQL as the planner relies on it: a statement needs *)
(* what it names, a DROP (never CASCADE) is refused while another object   *)
(* depends on what it drops, and DROP ... IF EXISTS ignores what is absent.*)
(***************************************************************************)
EXTENDS Naturals, Sequences, FiniteSets, SequencesExt

CONSTANTS
    ItemOrder,      \* the pre-data items, in the order of their classes
    Owner,          \* item -> the object it is a creation stage of
    DropClass,      \* item -> the class of its DROP, "" when it carries none
    Routines,       \* the objects DROP ROUTINE accepts
    Stubbable,      \* the routines that have a stub
    PreDataClause,  \* the items whose deferred clause is restored before the data
    SignatureEdges  \* what a stub still needs

ListTaking == {"FUNCTION", "AGGREGATE", "DOMAIN", "TYPE", "VIEW", "TABLE"}

VARIABLES
    catalog,    \* the catalog being dumped: [need, clause], two sets of edges
    plan,       \* the resolution of its cycles, <<>> before the export
    teardown,   \* what its DROP statements group and what they leave
    script,     \* the statements of the dump
    target,     \* the database restored into: object -> the objects it holds on to
    made,       \* the stages the target has been given
    pos,        \* statements the import has run
    outcome,    \* "" | "refused" | "done" | how the last import stopped
    imports     \* imports started

dvars == <<catalog, plan, teardown, script, target, made, pos, outcome, imports>>

Items == ToSet(ItemOrder)
Objects == {Owner[i] : i \in Items}

(***************************************************************************)
(* The order of creation. A graph is its set of edges <<who, what it needs>>*)
(***************************************************************************)
Closure(edges) ==
    LET step(r) == r \cup {<<p[1][1], p[2][2]>> : p \in {p \in r \X r : p[1][2] = p[2][1]}}
    IN  step(step(step(edges)))  \* paths of up to eight edges

\* driver.SCC and HasSelfEdge: the pairs that stand on one cycle.
Cycles(edges) == LET r == Closure(edges) IN {e \in r : <<e[2], e[1]>> \in r}

OnCycle(edges) == {e[1] : e \in Cycles(edges)}

\* effectivePredataDeps: a cut clause no longer counts, a staged routine needs
\* only what its stub names.
EffectiveDeps(cut, staged) ==
    {e \in catalog.need : e[1] \in staged => e \in SignatureEdges} \cup
    {e \in catalog.clause : e[1] \notin cut \cup staged}

Needs(edges, i) == {e[2] : e \in {e \in edges : e[1] = i}}

\* ResolveDB: cut the clauses that close a cycle, stage the routines still on
\* one, refuse the export when a cycle is left.
Resolution ==
    LET same   == Cycles(EffectiveDeps({}, {}))
        cut    == {e[1] : e \in catalog.clause \cap same}
        staged == Stubbable \cap OnCycle(EffectiveDeps(cut, {}))
    IN  [same |-> same, cut |-> cut, staged |-> staged,
         edges |-> EffectiveDeps(cut, staged),
         finals |-> staged \cup (cut \cap PreDataClause),
         stuck |-> OnCycle(EffectiveDeps(cut, staged)) # {}]

\* Who stands outside the cycle of an object emitted in two stages waits for
\* the second one; a member of the cycle takes the first.
Retarget(p, i, j) ==
    IF j \in p.finals /\ <<i, j>> \notin p.same THEN <<j, "final">> ELSE <<j, "base">>

\* What the later stage needs: the body of a routine, the clause of a domain.
FinalNeeds(p, i) == Needs(IF i \in p.staged THEN catalog.need ELSE catalog.clause, i)

\* A mutation of NodeEdges: everybody waits for the first stage.
NodeEdgesToBase(p) ==
    {<<<<e[1], "base">>, <<e[2], "base">>>> : e \in p.edges} \cup
    UNION {{<<<<i, "final">>, <<j, "base">>>> : j \in {i} \cup FinalNeeds(p, i)} : i \in p.finals}

NodeEdges(p) ==
    {<<<<e[1], "base">>, Retarget(p, e[1], e[2])>> : e \in p.edges} \cup
    UNION {{<<<<i, "final">>, <<j, "base">>>> : j \in {i} \cup FinalNeeds(p, i)} : i \in p.finals}

\* driver.TopoOrder: depth first in the order given, what a node waits for first.
TopoOrder(nodes, edges) ==
    LET RECURSIVE Visit(_, _, _)
        Visit(out, busy, n) ==
            IF n \in ToSet(out) \cup busy THEN out
            ELSE Append(FoldLeft(LAMBDA o, d : Visit(o, busy \cup {n}, d), out,
                                 SelectSeq(nodes, LAMBDA d : <<n, d>> \in edges)), n)
    IN  FoldLeft(LAMBDA o, n : Visit(o, {}, n), <<>>, nodes)

CreationOrder(p) ==
    LET finals == SelectSeq(ItemOrder, LAMBDA i : i \in p.finals)
        edges  == NodeEdges(p)
    IN  TopoOrder([n \in DOMAIN ItemOrder |-> <<ItemOrder[n], "base">>] \o
                  [n \in DOMAIN finals |-> <<finals[n], "final">>], edges)

(***************************************************************************)
(* The teardown                                                            *)
(***************************************************************************)
\* The drop graph is over objects and keeps every edge, cut or not.
ObjectEdges == {e \in {<<Owner[e[1]], Owner[e[2]]>> : e \in catalog.need \cup catalog.clause} :
                e[1] # e[2]}

Classes(os) == {DropClass[i] : i \in {i \in Items : Owner[i] \in os}} \ {""}

\* One DROP can take them all: one class whose DROP takes a list, or routines.
Groupable(os) == /\ \A o \in os : Classes({o}) # {}
                 /\ \/ Cardinality(Classes(os)) = 1 /\ Classes(os) \subseteq ListTaking
                    \/ os \subseteq Routines

\* A mutation of Teardown: an object that is kept does not keep what it needs.
TeardownShallow ==
    LET cycles == Cycles(ObjectEdges)
    IN  [group |-> [o \in Objects |-> {o} \cup Needs(cycles, o)],
         retained |-> {o \in Objects : \/ Classes({o}) = {}
                                       \/ Needs(cycles, o) # {} /\ ~Groupable(Needs(cycles, o))}]

\* buildTeardownPlan: the cycles, and what is kept: a cycle no DROP covers, an
\* object that has no DROP and, as these hold on to them, all they depend on.
Teardown ==
    LET cycles == Cycles(ObjectEdges)
        roots  == {o \in Objects : \/ Classes({o}) = {}
                                   \/ Needs(cycles, o) # {} /\ ~Groupable(Needs(cycles, o))}
    IN  [group |-> [o \in Objects |-> {o} \cup Needs(cycles, o)],
         retained |-> roots \cup UNION {Needs(Closure(ObjectEdges), o) : o \in roots}]

\* WriteDB: the creation order backwards, a group dropped where its member that
\* was created last stands.
Drops(order, t) ==
    LET carriers == SelectSeq(Reverse(order), LAMBDA n :
            n[2] = "base" /\ DropClass[n[1]] # "" /\ Owner[n[1]] \notin t.retained)
        groups   == [n \in DOMAIN carriers |-> t.group[Owner[carriers[n][1]]]]
        heads    == SelectSeq([n \in DOMAIN groups |-> n],
                              LAMBDA n : \A k \in 1..n-1 : groups[k] # groups[n])
    IN  [n \in DOMAIN heads |-> [kind |-> "drop", what |-> groups[heads[n]]]]

\* WriteDB: the teardown, the pre-data stream, the deferred clauses after the data.
Script(p, t) ==
    LET order == CreationOrder(p)
        late  == SelectSeq(ItemOrder, LAMBDA i : i \in p.cut \ PreDataClause)
    IN  Drops(order, t) \o
        [n \in DOMAIN order |-> [kind |-> order[n][2], what |-> {order[n][1]}]] \o
        [n \in DOMAIN late |-> [kind |-> "post", what |-> {late[n]}]]

(***************************************************************************)
(* The target                                                              *)
(***************************************************************************)
Blocked(os) == \E o \in DOMAIN target \ os : target[o] \cap os # {}

\* A base stage is a plain CREATE, but a routine that is not staged replaces.
Exists(i) == /\ Owner[i] \in DOMAIN target
             /\ \A j \in Items : j # i /\ Owner[j] = Owner[i] => <<j, "base">> \notin made
             /\ i \notin Routines \ plan.staged

\* What a statement names has to be there and, for who is outside its cycle,
\* with the clause or the body that was deferred: a stub has no defaults.
Named(kind, i) ==
    CASE kind = "base"  -> {Retarget(plan, i, j) : j \in Needs(plan.edges, i)}
      [] kind = "final" -> {<<j, "base">> : j \in {i} \cup FinalNeeds(plan, i)}
      [] kind = "post"  -> {<<j, IF j \in plan.finals THEN "final" ELSE "base">> :
                            j \in {i} \cup Needs(catalog.clause, i)}

\* How the target answers a statement: "" when it runs it.
Answer(s) ==
    CASE s.kind = "drop" /\ Blocked(s.what) -> "blocked"
      [] s.kind = "base" /\ (\E i \in s.what : Exists(i)) -> "exists"
      [] s.kind # "drop" /\ (\E i \in s.what : ~(Named(s.kind, i) \subseteq made)) -> "missing"
      [] OTHER -> ""

Holds(kind, i) ==
    {Owner[j] : j \in Needs(IF kind = "base" THEN plan.edges
                            ELSE catalog.need \cup catalog.clause, i)} \ {Owner[i]}

Apply(s) ==
    IF s.kind = "drop"
    THEN /\ target' = [o \in DOMAIN target \ s.what |-> target[o]]
         /\ made' = {n \in made : Owner[n[1]] \notin s.what}
    ELSE LET i == CHOOSE i \in s.what : TRUE
             o == Owner[i]
         IN  /\ target' = [p \in DOMAIN target \cup {o} |->
                    IF p # o THEN target[p]
                    ELSE Holds(s.kind, i) \cup (IF o \in DOMAIN target THEN target[o] ELSE {})]
             /\ made' = made \cup {<<i, s.kind>>}

(***************************************************************************)
(* The actions                                                             *)
(***************************************************************************)
DInit(catalogs) ==
         /\ catalog \in catalogs
         /\ plan = <<>> /\ teardown = <<>> /\ script = <<>>
         /\ target = [o \in {} |-> {}] /\ made = {}
         /\ pos = 0 /\ outcome = "" /\ imports = 0

\* ResolveDB and WriteDB; a cycle nothing breaks refuses the export.
Export == /\ plan = <<>>
          /\ LET p == Resolution IN
             /\ plan' = p
             /\ teardown' = Teardown
             /\ script' = IF p.stuck THEN <<>> ELSE Script(p, teardown')
             /\ outcome' = IF p.stuck THEN "refused" ELSE ""
          /\ UNCHANGED <<catalog, target, made, pos, imports>>

\* runRestoreScript; a dump whose import stopped is imported once more.
Import == /\ plan # <<>> /\ ~plan.stuck
          /\ \/ imports = 0
             \/ imports = 1 /\ outcome # ""
          /\ imports' = imports + 1
          /\ pos' = 0 /\ outcome' = ""
          /\ UNCHANGED <<catalog, plan, teardown, script, target, made>>

\* forEachStatement: one statement, whose error ends the import.
Statement == /\ imports > 0 /\ outcome = "" /\ pos < Len(script)
             /\ LET s == script[pos+1] IN
                \/ /\ Answer(s) = ""
                   /\ Apply(s)
                   /\ pos' = pos + 1
                   /\ outcome' = IF pos' = Len(script) THEN "done" ELSE ""
                \/ /\ Answer(s) # ""
                   /\ outcome' = Answer(s)
                   /\ UNCHANGED <<target, made, pos>>
             /\ UNCHANGED <<catalog, plan, teardown, script, imports>>

\* Any statement may fail for a reason of its own, or find the session's query
\* budget spent.
StatementError == /\ imports = 1 /\ outcome = "" /\ pos < Len(script)
                  /\ outcome' = "error"
                  /\ UNCHANGED <<catalog, plan, teardown, script, target, made, pos, imports>>

DNext == Export \/ Import \/ Statement \/ StatementError

(***************************************************************************)
(* Properties                                                              *)
(***************************************************************************)
\* A dump restores: the first import of a dump stops only at an error that is
\* not the dump's, and one that reaches its end has rebuilt the catalog, with
\* every clause and body the dump had to defer.
RestoreRebuilds ==
    /\ imports = 1 => outcome \notin {"blocked", "missing", "exists"}
    /\ outcome = "done" => target = [o \in Objects |-> Needs(ObjectEdges, o)]

\* A drop-first dump can be imported again, over a whole restore or over one
\* that stopped anywhere. What can stop it is an object the teardown has kept
\* (and said so) or a cycle it has had to drop as one group, nothing else. The
\* comments of WriteDB have no such cycles: NoDropBlocked, which does not hold.
RepeatStopsAtCycles ==
    imports = 2 /\ outcome \in {"blocked", "missing", "exists"} =>
        LET what == script[pos+1].what IN
        \/ outcome = "exists" /\ \A i \in what : Owner[i] \in teardown.retained
        \/ outcome = "blocked" /\ \E o \in what \cup {o \in DOMAIN target : target[o] \cap what # {}} :
               teardown.group[o] # {o}

\* WriteDB: the teardown is in an order such that "no DROP is blocked by a
\* dependent in any schema" (dump/sql.go:185-187). MCComponentClaims refutes it: the
\* members of a cycle are dropped in one place, and what one of them needs may have
\* been dropped before, or what needs one of them may still stand.
NoDropBlocked == outcome # "blocked"

\* What a dump promises whoever imports it, once and again.
DumpsRestore == RestoreRebuilds /\ RepeatStopsAtCycles
=============================================================================
