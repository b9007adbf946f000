--------------------------- MODULE AccessControl ---------------------------
(***************************************************************************)
(* Accounts, role memberships and privileges. A request checks what it     *)
(* names against fresh listings of the server, is confirmed where it takes *)
(* something away, and runs its statement: or several, on MySQL, which     *)
(* takes a grant on a database away by the pattern it is stored under and  *)
(* commits each statement by itself. Other clients act in between, and a   *)
(* statement may be refused or its answer lost.                            *)
(*                                                                         *)
(* A routine is named by its position in a list and its name; those here   *)
(* are overloads of one name.                                              *)
(***************************************************************************)
EXTENDS Sequences, SequencesExt, Lists

CONSTANTS
    Overloads,       \* the routines, in the order they are listed
    MaxOthers        \* what other clients may do while a request is served

\* No routine has the name of something else that is granted on.
ASSUME AccessAssumption ==
    /\ Overloads \in Seq(STRING) /\ MaxOthers \in Nat
    /\ ToSet(Overloads) \cap {"none", "table", "database", "my_app", "my\\_app"} = {}

VARIABLES
    server,          \* "mysql" or "postgres"
    accounts,        \* the accounts there are
    members,         \* role memberships: <<role, member>>
    grants,          \* what is granted
    routines,        \* the overloads there are
    wish,            \* the request
    object,          \* what it resolved to
    statements,      \* what the server has not run of the request
    phase,           \* "asked", "known", "running" or "told"
    answered,            \* what the user was answered
    given,           \* what the request's statements have granted
    taken,           \* what they have taken away
    others           \* what other clients have granted and taken away meanwhile

world == <<server, accounts, members, grants, routines>>
lvars == <<world, wish, object, statements, phase, answered, given, taken, others>>

\* Accounts as a form spells them: the session's own, also with its host in
\* capitals, another of the same name, and another.
Own == IF server = "mysql" THEN "me@h" ELSE "me"
Spellings(s) == IF s = "mysql" THEN {"me@h", "me@H", "me@%", "ann@h"} ELSE {"me", "ann"}
OnServer(a) == IF a = "me@H" THEN "me@h" ELSE a

\* accountsEqual: the host in any case, the name as it is.
Fold(a) == IF a = "me@H" THEN "me@h" ELSE a
SameAccount(a, b) == Fold(a) = Fold(b)
IsAccount(a) == \E b \in accounts : SameAccount(a, b)

\* A grant: on the database, by the pattern it is stored under; on the table or a
\* column of it; on a routine. PostgreSQL keeps who granted it, and has PUBLIC.
Grant(to, on, column, priv, by) == [to |-> to, on |-> on, column |-> column, priv |-> priv, by |-> by]
PatternsOn(s) == IF s = "mysql" THEN {"my_app", "my\\_app"} ELSE {"database"}
Patterns == PatternsOn(server)
Escaped == IF server = "mysql" THEN "my\\_app" ELSE "database"
Grantees(s) == Spellings(s) \cup (IF s = "mysql" THEN {} ELSE {"PUBLIC"})

\* GrantablePrivileges, ColumnGrantablePrivileges: what the forms offer; a server
\* may know more.
Grantable(on) == IF on = "routine" THEN {"execute"} ELSE {"select", "trigger"}
ColumnGrantable == {"select"}
Columns == {"c"}

Wish(action, to, on, column, priv, place) ==
    [action |-> action, to |-> to, on |-> on, column |-> column, priv |-> priv, place |-> place]
AccountWishes(s) ==
    {Wish(x, a, "none", "none", "none", 0) :
        x \in {"create", "drop", "setPassword", "alterAttributes"}, a \in Spellings(s) \cup {"new"}}
    \cup {Wish(x, a, b, "none", "none", 0) :
        x \in {"grantRole", "revokeRole"}, a \in Spellings(s), b \in Spellings(s)}
PrivilegeWishes(s) ==
    {Wish(x, a, on, c, p, 0) : x \in {"grant", "revoke"}, a \in Grantees(s), on \in {"database", "table"},
                               c \in {"none"} \cup Columns \cup {"gone"}, p \in {"select", "trigger", "maintain"}}
    \cup {Wish(x, a, "routine", "none", "execute", i) : x \in {"grant", "revoke"}, a \in Grantees(s),
                                                    i \in 1..Len(Overloads)}

\* What may be granted: a routine as a whole, and by another role on PostgreSQL.
GrantsOn(s) ==
    {g \in [to : {OnServer(a) : a \in Grantees(s)},
            on : PatternsOn(s) \cup {"table"} \cup ToSet(Overloads),
            column : {"none"} \cup Columns, priv : {"select", "trigger", "maintain", "execute"},
            by : IF s = "mysql" THEN {"owner"} ELSE {"owner", "another"}] :
        g.on \in ToSet(Overloads) => g.column = "none"}

LInit(servers, Granted, Wishes) ==
    /\ server \in servers
    /\ accounts = {OnServer(a) : a \in Spellings(server)}
    /\ members = {}
    /\ grants \in Granted[server]
    /\ routines = ToSet(Overloads)
    /\ wish \in Wishes[server]
    /\ object = "none" /\ statements = <<>> /\ phase = "asked" /\ answered = "nothing"
    /\ given = {} /\ taken = {}
    /\ others = [granted |-> {}, took |-> {}, acts |-> 0]

Tells(t) == phase' = "told" /\ answered' = t /\ UNCHANGED statements
RunAll(ss) == phase' = "running" /\ statements' = ss /\ UNCHANGED answered
Dcl(op, on) == [op |-> op, on |-> on]

-----------------------------------------------------------------------------
\* ServerUsersManage, manageRoleMembership: the accounts are listed. A listing that
\* fails stops all but a CREATE, which the server then judges. (A confirmation
\* resends the form, and every check is made again.)
Refuses ==
    LET w == wish IN
    CASE w.action = "create" -> IsAccount(w.to)
      [] w.action = "drop" -> ~IsAccount(w.to) \/ SameAccount(w.to, Own)
      [] w.action = "setPassword" -> ~IsAccount(w.to)
      [] w.action = "alterAttributes" -> server = "mysql" \/ ~IsAccount(w.to)
      [] OTHER -> ~IsAccount(w.to) \/ ~IsAccount(w.on) \/ SameAccount(w.to, w.on)
ManageAccount ==
    /\ phase = "asked" /\ wish.action \notin {"grant", "revoke"}
    /\ LET on == IF wish.on = "none" THEN OnServer(wish.to) ELSE <<OnServer(wish.to), OnServer(wish.on)>>
           go == RunAll(<<Dcl(wish.action, on)>>)
       IN IF Refuses THEN Tells("refused") \/ (wish.action = "create" /\ go)
          ELSE go \/ (wish.action # "create" /\ Tells("refused"))
    /\ UNCHANGED <<world, wish, object, given, taken, others>>

\* pickListed, for the routine of a privileges page: what is at the place now.
AtPlace == LET l == Omit(Overloads, ToSet(Overloads) \ routines)
           IN IF wish.place <= Len(l) THEN l[wish.place] ELSE "none"

\* resolveRoutineForPrivileges and resolveGrantee: PUBLIC, or an account listed.
ResolveGrantee ==
    /\ phase = "asked" /\ wish.action \in {"grant", "revoke"}
    /\ object' = IF wish.on = "routine" THEN AtPlace ELSE wish.on
    /\ \/ Tells("refused")
       \/ /\ object' # "none" /\ (wish.to = "PUBLIC" \/ IsAccount(wish.to))
          /\ phase' = "known" /\ UNCHANGED <<statements, answered>>
    /\ UNCHANGED <<world, wish, given, taken, others>>

\* What a statement names: a database by its name, escaped where that is a pattern.
Denoted(on, column) == Grant(OnServer(wish.to), IF on = "database" THEN Escaped ELSE on,
                           column, wish.priv, "owner")

\* GrantSQL, GrantRoutineSQL.
GrantStatements(on) == <<Dcl("grant", Denoted(on, wish.column))>>

\* managePrivileges, a grant: the allow-list, and the columns against the table's.
GrantPrivilege ==
    /\ phase = "known" /\ wish.action = "grant"
    /\ \/ Tells("refused")
       \/ /\ wish.priv \in Grantable(wish.on)
          /\ wish.column # "none" => wish.on = "table" /\ wish.priv \in ColumnGrantable /\ wish.column \in Columns
          /\ RunAll(GrantStatements(object))
    /\ UNCHANGED <<world, wish, object, given, taken, others>>

\* grantPresent, routineGrantPresent: the grants there are now of those the request
\* means, where its page shows them.
Meant(g, on) == /\ g.on \in (IF on = "database" THEN Patterns ELSE {on})
                /\ SameAccount(g.to, wish.to) /\ g.priv = wish.priv /\ g.column = wish.column
Present == {g \in grants : Meant(g, object)}

\* A mutation of RevokeStatements: the database by its name, not as it is stored.
RevokeByName(on) == <<Dcl("revoke", Denoted(on, wish.column))>>

\* RevokeSQL, RevokeRoutineSQL: one statement for each pattern the grant on a
\* database is stored under.
RevokeStatements(on) ==
    LET stored == {g.on : g \in Present}
    IN [i \in 1..Cardinality(stored) |->
           Dcl("revoke", [Denoted(on, wish.column) EXCEPT !.on = SetToSeq(stored)[i]])]

\* managePrivileges, a revoke: of what is listed, whatever its keyword.
RevokePrivilege ==
    /\ phase = "known" /\ wish.action = "revoke"
    /\ Tells("refused") \/ (Present # {} /\ RunAll(RevokeStatements(object)))
    /\ UNCHANGED <<world, wish, object, given, taken, others>>

-----------------------------------------------------------------------------
\* What a REVOKE takes away: on PostgreSQL one on the table takes its columns' too,
\* and none takes what another role has granted.
Revoked(g) == {h \in grants : /\ <<h.to, h.on, h.priv, h.by>> = <<g.to, g.on, g.priv, "owner">>
                              /\ h.column = g.column \/ (server = "postgres" /\ g.column = "none")}

\* Whether the server can do what a statement says.
Stands(g) == g.on \in ToSet(Overloads) => g.on \in routines
Possible(s) ==
    CASE s.op = "create" -> s.on \notin accounts
      [] s.op \in {"setPassword", "alterAttributes"} -> s.on \in accounts
      [] s.op = "drop" -> s.on \in accounts /\ (server = "mysql" \/ \A g \in grants : g.to # s.on)
      [] s.op \in {"grantRole", "revokeRole"} -> s.on[1] \in accounts /\ s.on[2] \in accounts
      [] s.op = "grant" -> s.on.to \in accounts \cup {"PUBLIC"} /\ Stands(s.on)
      [] OTHER -> Stands(s.on) /\ s.on.to \in accounts \cup {"PUBLIC"}
                  /\ (server = "postgres" \/ Revoked(s.on) # {})

Ousts(s) == IF s.op = "drop" THEN {s.on} ELSE {}
Grants(s) == IF s.op = "grant" THEN {s.on} ELSE {}
Takes(s) == IF s.op = "revoke" THEN Revoked(s.on) ELSE {g \in grants : g.to \in Ousts(s)}
Effect(s) ==
    /\ accounts' = (accounts \ Ousts(s)) \cup (IF s.op = "create" THEN {s.on} ELSE {})
    /\ members' = {m \in members : /\ {m[1], m[2]} \cap Ousts(s) = {}
                                   /\ <<s.op, s.on>> # <<"revokeRole", m>>}
                     \cup (IF s.op = "grantRole" THEN {s.on} ELSE {})
    /\ grants' = (grants \ Takes(s)) \cup Grants(s)
    /\ given' = given \cup (Grants(s) \ grants) /\ taken' = taken \cup Takes(s)
    /\ UNCHANGED <<server, routines>>

\* execScript: the statements one by one, to the first that fails. accessExecFailed
\* says the same of a statement the server has refused, of one that never reached it
\* and of one it has run when the answer was lost.
ExecScript ==
    /\ phase = "running"
    /\ \/ /\ Possible(Head(statements)) /\ Effect(Head(statements))
          /\ statements' = Tail(statements)
          /\ \/ IF Len(statements) > 1 THEN UNCHANGED <<phase, answered>>
                ELSE phase' = "told" /\ answered' = "done"
             \/ phase' = "told" /\ answered' = "failed"
       \/ Tells("failed") /\ UNCHANGED <<world, given, taken>>
    /\ UNCHANGED <<wish, object, others>>

\* Other clients grant, take away, create and drop, but leave the session's account.
Other(s) ==
    /\ Possible(s)
    /\ others' = [granted |-> others.granted \cup Grants(s), took |-> others.took \cup Takes(s),
                  acts |-> others.acts + 1]
    /\ accounts' = accounts \ Ousts(s)
    /\ grants' = (grants \ Takes(s)) \cup Grants(s)
    /\ members' = {m \in members : {m[1], m[2]} \cap Ousts(s) = {}}
    /\ UNCHANGED routines
DropRoutine(o) ==
    /\ routines' = routines \ {o} /\ grants' = {g \in grants : g.on # o}
    /\ others' = [others EXCEPT !.acts = @ + 1]
    /\ UNCHANGED <<accounts, members>>
Elsewhere ==
    /\ phase # "told" /\ others.acts < MaxOthers
    /\ \/ \E g \in Present \cup taken, op \in {"grant", "revoke"} : Other(Dcl(op, g))
       \/ \E a \in accounts \ {Own} : Other(Dcl("drop", a))
       \/ \E o \in routines : DropRoutine(o)
    /\ UNCHANGED <<server, wish, object, statements, phase, answered, given, taken>>

LNext == \/ ManageAccount \/ ResolveGrantee \/ GrantPrivilege \/ RevokePrivilege
         \/ ExecScript \/ Elsewhere

\* Any request, on a server that holds any grants.
Servers == {"mysql", "postgres"}
LSpec == /\ LInit(Servers, [s \in Servers |-> SUBSET GrantsOn(s)],
                  [s \in Servers |-> AccountWishes(s) \cup PrivilegeWishes(s)])
         /\ [][LNext]_lvars

-----------------------------------------------------------------------------
\* The object whose page the request was sent from.
OnPage == IF wish.on = "routine" THEN Overloads[wish.place] ELSE wish.on

\* The session's account is never dropped.
OwnAccountStays == Own \in accounts

\* What was granted or taken is what was asked for, where the page shows it. The
\* exceptions: on PostgreSQL a privilege on the table goes with its columns'; a
\* dropped account's grants go with it; and an overload has moved into the place, of
\* the same name, which pickListed cannot tell (RoutineIsThePages claims otherwise).
Moved == object # OnPage /\ routines # ToSet(Overloads)
Narrow ==
    /\ \A g \in given \cup taken :
          \/ Meant(g, OnPage)
          \/ Moved /\ Meant(g, object)
          \/ /\ server = "postgres" /\ g \in taken /\ wish.column = "none"
             /\ Meant([g EXCEPT !.column = "none"], OnPage)
          \/ wish.action = "drop" /\ SameAccount(g.to, wish.to)
    /\ wish.action = "grant" => taken = {}
    /\ wish.action # "grant" => given = {}

\* A revoke that has run, whether "revoked" was said or the answer was lost, leaves
\* nothing of it, however it is stored; but for what is granted anew, or was granted
\* by another role, whom the page does not tell apart.
RevokedIsGone ==
    answered \in {"done", "failed"} /\ statements = <<>> /\ wish.action = "revoke" =>
        \A g \in grants : Meant(g, object) => g \in others.granted \/ g.by # "owner"

\* "Failed" is said when nothing has been granted or taken, or all of it and the
\* answer was lost, or part of what MySQL takes one by one from two patterns. A
\* REVOKE of what was listed is impossible only when others have been at work.
FailedAllOrNothing ==
    answered = "failed" =>
        /\ given \cup taken # {} =>
              \/ statements = <<>>
              \/ {g.on : g \in taken} \cup {s.on.on : s \in ToSet(statements)} = {"my_app", "my\\_app"}
        /\ wish.action = "revoke" /\ statements # <<>> /\ ~ Possible(Head(statements)) => others.acts > 0

AccessHolds == OwnAccountStays /\ Narrow /\ RevokedIsGone /\ FailedAllOrNothing

\* programs.go:20-22 of an object and the list it is named from: "both must keep doing
\* so correctly when that list has moved on"; postgres/dcl.go:91-93 of a name alone:
\* it would "report one overload's grants as another's - and then revoke from the
\* wrong one".
\* That the routine granted on is the page's: MCComponentClaims refutes it.
RoutineIsThePages == wish.on = "routine" => \A g \in given \cup taken : Meant(g, OnPage)

\* access.go:141-147 answers "The statement failed": that it has done nothing.
\* MCComponentClaims refutes it by an answer that is lost.
FailedDidNothing == answered = "failed" => given \cup taken = {}
=============================================================================
