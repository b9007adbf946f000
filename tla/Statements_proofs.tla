-------------------------- MODULE Statements_proofs --------------------------
(***************************************************************************)
(* Proofs about the requests that resolve what a page has shown and then   *)
(* run statements on a server where others are at work.                    *)
(*                                                                         *)
(* Of AccessControl: a request has resolved to what its page showed or to  *)
(* what has moved there (Resolved), and the statements that are left to    *)
(* run are for the grants it means that are left (Revoking).               *)
(*                                                                         *)
(* Of RowEdits: a form holds what its rows showed and the keys that find   *)
(* them (Formed); the statements that are left and the rows they have      *)
(* written are what was typed, one row for one (Running); and every open   *)
(* transaction can still be taken back without two rows sharing a key      *)
(* (Isolated).                                                             *)
(*                                                                         *)
(* Of RowPages: an exact count is that of the rows there are (Counted); a  *)
(* link carries what it does not change and leads where it says            *)
(* (LinkedTo); a page shows what there is (PageHolds) and is where its     *)
(* link has led (Arrived), as long as nobody changes the table.            *)
(***************************************************************************)
EXTENDS AccessControl, RowEdits, RowPages, Lists_proofs, TLAPS

(***************************************************************************)
(* Accounts and grants                                                     *)
(***************************************************************************)
Accounts(s) == {OnServer(a) : a \in Spellings(s)} \cup {"new"}
Privileged == wish.action \in {"grant", "revoke"}

AccessTypes ==
    /\ server \in Servers /\ accounts \subseteq Accounts(server)
    /\ grants \subseteq GrantsOn(server) /\ routines \subseteq ToSet(Overloads)
    /\ wish \in AccountWishes(server) \cup PrivilegeWishes(server)
    /\ phase \in {"asked", "known", "running", "told"}
    /\ given \subseteq GrantsOn(server) /\ taken \subseteq GrantsOn(server)
    /\ others \in [granted : SUBSET GrantsOn(server), took : SUBSET GrantsOn(server), acts : Nat]

\* The object is that of the page, or the overload that is in its place now; the
\* grantee and the object were there, and are unless somebody took them away.
Resolved ==
    /\ wish \in PrivilegeWishes(server)
    /\ wish.on # "routine" => object = wish.on
    /\ wish.on = "routine" => /\ object \in ToSet(Overloads)
                              /\ object = OnPage \/ routines # ToSet(Overloads)
                              /\ object \in routines \/ others.acts > 0
    /\ wish.to = "PUBLIC" \/ OnServer(wish.to) \in accounts \/ others.acts > 0

\* The names under which a grant on the object may be stored.
Names == IF object = "database" THEN Patterns ELSE {object}
TheRevoke(x) == Dcl("revoke", [Denoted(object, wish.column) EXCEPT !.on = x])

\* Grants that are still to be taken away.
MeantStill == {g \in grants : Meant(g, object) /\ g.by = "owner" /\ g \notin others.granted}

\* A grant that a statement is for was there, and is unless somebody took it.
Listed(x) == others.acts > 0 \/ \E g \in grants : Meant(g, object) /\ g.on = x

Revoking ==
    /\ Resolved
    /\ \/ \E x \in Names :
            /\ statements = <<TheRevoke(x)>>
            /\ MeantStill \subseteq {g \in grants : g.on = x}
            /\ taken # {} => Names = {"my_app", "my\\_app"} /\ {g.on : g \in taken} = Names \ {x}
            /\ Listed(x)
       \/ \E x, y \in Names :
            /\ x # y /\ statements = <<TheRevoke(x), TheRevoke(y)>>
            /\ MeantStill \subseteq {g \in grants : g.on \in {x, y}}
            /\ taken = {}
            /\ Listed(x) /\ Listed(y)

\* By how far a request is.
Stage ==
    /\ phase = "asked" => given = {} /\ taken = {} /\ object = "none"
    /\ phase = "known" => given = {} /\ taken = {} /\ Privileged /\ Resolved
    /\ phase = "running" =>
          /\ ~ Privileged => /\ given = {} /\ taken = {}
                             /\ statements = <<Dcl(wish.action, Head(statements).on)>>
                             /\ wish.action \in {"create", "drop"} => Head(statements).on = OnServer(wish.to)
                             /\ wish.action = "drop" => OnServer(wish.to) # Own
          /\ wish.action = "grant" => /\ given = {} /\ taken = {} /\ Resolved
                                      /\ statements = <<Dcl("grant", Denoted(object, wish.column))>>
                                      /\ Denoted(object, wish.column) \in GrantsOn(server)
          /\ wish.action = "revoke" => given = {} /\ Revoking
    /\ phase # "told" => answered = "nothing"

AccessInv == AccessTypes /\ Stage /\ AccessHolds

\* No grant is to an account by another spelling, so the grants that a request
\* means are those to the account it names.
LEMMA GrantsSpelled ==
    ASSUME AccessTypes, NEW g \in GrantsOn(server)
    PROVE  /\ SameAccount(g.to, wish.to) <=> g.to = OnServer(wish.to)
           /\ g = [to |-> g.to, on |-> g.on, column |-> g.column, priv |-> g.priv, by |-> g.by]
           /\ g.by # "owner" => server = "postgres"
           /\ g.on \in ToSet(Overloads) => g.column = "none"
  BY DEF AccessTypes, GrantsOn, Grantees, Spellings, SameAccount, Fold, OnServer, Servers

\* What a wish may be.
LEMMA WishSpelled ==
    ASSUME AccessTypes
    PROVE  /\ Privileged <=> wish \in PrivilegeWishes(server)
           /\ wish \in PrivilegeWishes(server) =>
                /\ wish.to \in Grantees(server)
                /\ wish.on \in {"database", "table", "routine"}
                /\ wish.column \in {"none", "gone"} \cup Columns
                /\ wish.priv \in {"select", "trigger", "maintain", "execute"}
                /\ wish.on = "routine" => wish.column = "none" /\ wish.place \in 1 .. Len(Overloads)
           /\ wish \notin PrivilegeWishes(server) =>
                /\ wish.to \in Spellings(server) \cup {"new"}
                /\ wish.action \in {"create", "drop", "setPassword", "alterAttributes", "grantRole", "revokeRole"}
                /\ wish.action \in {"create", "drop"} => wish.on = "none"
<1>1. ASSUME wish \in PrivilegeWishes(server)
      PROVE  /\ wish.action \in {"grant", "revoke"}
             /\ wish.to \in Grantees(server)
             /\ wish.on \in {"database", "table", "routine"}
             /\ wish.column \in {"none", "gone"} \cup Columns
             /\ wish.priv \in {"select", "trigger", "maintain", "execute"}
             /\ wish.on = "routine" => wish.column = "none" /\ wish.place \in 1 .. Len(Overloads)
  <2>1. CASE \E x \in {"grant", "revoke"}, a \in Grantees(server), on \in {"database", "table"},
                c \in {"none"} \cup Columns \cup {"gone"}, p \in {"select", "trigger", "maintain"} :
                wish = Wish(x, a, on, c, p, 0)
    BY <2>1 DEF Wish
  <2>2. CASE \E x \in {"grant", "revoke"}, a \in Grantees(server), i \in 1 .. Len(Overloads) :
                wish = Wish(x, a, "routine", "none", "execute", i)
    BY <2>2 DEF Wish
  <2> QED  BY <1>1, <2>1, <2>2 DEF PrivilegeWishes
<1>2. ASSUME wish \in AccountWishes(server)
      PROVE  /\ wish.to \in Spellings(server) \cup {"new"}
             /\ wish.action \in {"create", "drop", "setPassword", "alterAttributes", "grantRole", "revokeRole"}
             /\ wish.action \in {"create", "drop"} => wish.on = "none"
  <2>1. ASSUME NEW x \in {"create", "drop", "setPassword", "alterAttributes"},
               NEW a \in Spellings(server) \cup {"new"}, wish = Wish(x, a, "none", "none", "none", 0)
        PROVE  wish.action = x /\ wish.to = a /\ wish.on = "none"
    BY <2>1 DEF Wish
  <2>2. ASSUME NEW x \in {"grantRole", "revokeRole"}, NEW a \in Spellings(server), NEW b \in Spellings(server),
               wish = Wish(x, a, b, "none", "none", 0)
        PROVE  wish.action = x /\ wish.to = a
    BY <2>2 DEF Wish
  <2>3. \/ \E x \in {"create", "drop", "setPassword", "alterAttributes"},
              a \in Spellings(server) \cup {"new"} : wish = Wish(x, a, "none", "none", "none", 0)
        \/ \E x \in {"grantRole", "revokeRole"}, a \in Spellings(server), b \in Spellings(server) :
              wish = Wish(x, a, b, "none", "none", 0)
    BY <1>2 DEF AccountWishes
  <2>4. CASE \E x \in {"create", "drop", "setPassword", "alterAttributes"},
                a \in Spellings(server) \cup {"new"} : wish = Wish(x, a, "none", "none", "none", 0)
    <3>1. PICK x \in {"create", "drop", "setPassword", "alterAttributes"},
               a \in Spellings(server) \cup {"new"} : wish = Wish(x, a, "none", "none", "none", 0)
      BY <2>4
    <3>2. wish.action = x /\ wish.to = a /\ wish.on = "none"  BY <2>1, <3>1
    <3> QED  BY <3>2
  <2>5. CASE \E x \in {"grantRole", "revokeRole"}, a \in Spellings(server), b \in Spellings(server) :
                wish = Wish(x, a, b, "none", "none", 0)
    <3>1. PICK x \in {"grantRole", "revokeRole"}, a \in Spellings(server), b \in Spellings(server) :
               wish = Wish(x, a, b, "none", "none", 0)
      BY <2>5
    <3>2. wish.action = x /\ wish.to = a  BY <2>2, <3>1
    <3> QED  BY <3>2
  <2> QED  BY <2>3, <2>4, <2>5
<1> QED  BY <1>1, <1>2 DEF AccessTypes, Privileged

\* A user's own account stays whatever statement of a request runs, since what is
\* dropped is named as it is compared.
LEMMA OwnSpelled ==
    ASSUME AccessTypes
    PROVE  /\ Own \in Accounts(server) /\ OnServer(Own) = Own
           /\ \A a \in Spellings(server) \cup {"new"} : ~ SameAccount(a, Own) => OnServer(a) # Own
           /\ \A a \in Spellings(server) \cup {"new"} : OnServer(a) \in Accounts(server)
           /\ \A a \in Accounts(server), b \in Grantees(server) : SameAccount(a, b) => a = OnServer(b)
           /\ \A b \in Spellings(server) \cup {"new"} : SameAccount(OnServer(b), b)
  BY DEF AccessTypes, Accounts, Own, Spellings, Grantees, OnServer, SameAccount, Fold, Servers

\* The statements of a request that is refused, or whose account is managed.
LEMMA ManageStep ==
    ASSUME AccessInv, ManageAccount
    PROVE  AccessInv'
<1>1. /\ phase = "asked" /\ ~ Privileged
      /\ UNCHANGED <<world, wish, object, given, taken, others>>
  BY DEF ManageAccount, Privileged
<1>2. AccessTypes /\ Stage /\ AccessHolds  BY DEF AccessInv
<1>3. given = {} /\ taken = {}  BY <1>1, <1>2 DEF Stage
<1>4. phase' \in {"running", "told"}  BY DEF ManageAccount, RunAll, Tells
<1>5. AccessTypes'
  BY <1>1, <1>2, <1>4 DEF AccessTypes, world
<1>6. phase' = "running" =>
          /\ statements' = <<Dcl(wish.action, Head(statements').on)>>
          /\ wish.action \in {"create", "drop"} => Head(statements').on = OnServer(wish.to)
          /\ wish.action = "drop" => OnServer(wish.to) # Own
          /\ answered' = answered
  <2> SUFFICES ASSUME phase' = "running"
               PROVE  /\ statements' = <<Dcl(wish.action, Head(statements').on)>>
                      /\ wish.action \in {"create", "drop"} => Head(statements').on = OnServer(wish.to)
                      /\ wish.action = "drop" => OnServer(wish.to) # Own
                      /\ answered' = answered
    OBVIOUS
  <2> DEFINE on == IF wish.on = "none" THEN OnServer(wish.to) ELSE <<OnServer(wish.to), OnServer(wish.on)>>
  <2>1. RunAll(<<Dcl(wish.action, on)>>) /\ (wish.action = "drop" => ~ Refuses)
    BY <1>1 DEF ManageAccount, Tells
  <2>2. wish \notin PrivilegeWishes(server) /\ wish.to \in Spellings(server) \cup {"new"}
    BY <1>1, <1>2, WishSpelled
  <2>3. wish.action \in {"create", "drop"} => on = OnServer(wish.to)
    BY <1>2, <2>2, WishSpelled
  <2>4. wish.action = "drop" => OnServer(wish.to) # Own
    <3> SUFFICES ASSUME wish.action = "drop" PROVE OnServer(wish.to) # Own  OBVIOUS
    <3>1. ~ SameAccount(wish.to, Own)  BY <2>1 DEF Refuses
    <3> QED  BY <1>2, <2>2, <3>1, OwnSpelled
  <2> HIDE DEF on
  <2>5. statements' = <<Dcl(wish.action, on)>> /\ answered' = answered  BY <2>1 DEF RunAll
  <2>6. Head(statements') = Dcl(wish.action, on) /\ Dcl(wish.action, on).on = on  BY <2>5 DEF Dcl
  <2> QED  BY <2>3, <2>4, <2>5, <2>6
<1>7. Stage'
  BY <1>1, <1>2, <1>3, <1>4, <1>6 DEF Stage, Privileged, Own, world
<1>8. AccessHolds'
  BY <1>1, <1>2, <1>3, <1>4 DEF AccessHolds, OwnAccountStays, Narrow, RevokedIsGone, FailedAllOrNothing, Own, world, Privileged
<1> QED  BY <1>5, <1>7, <1>8 DEF AccessInv

\* The place of a routine: what is there is a routine, and the one of the page
\* unless one has gone.
LEMMA PlaceHolds ==
    ASSUME AccessTypes, wish.on = "routine", wish \in PrivilegeWishes(server), AtPlace # "none"
    PROVE  /\ AtPlace \in routines
           /\ AtPlace = OnPage \/ routines # ToSet(Overloads)
<1> DEFINE gone == ToSet(Overloads) \ routines
           l == Omit(Overloads, gone)
<1>1. wish.place \in 1 .. Len(Overloads)  BY WishSpelled
<1>2. /\ Overloads \in Seq(STRING) /\ Len(Overloads) \in Nat
  BY AccessAssumption, LenProperties
<1> HIDE DEF gone
<1>3. l \in Seq(STRING) /\ ToSet(l) = ToSet(Overloads) \ gone  BY <1>2, OmitProperties
<1>4. ToSet(Overloads) \ gone = routines  BY DEF AccessTypes, gone
<1>5. AtPlace = IF wish.place <= Len(l) THEN l[wish.place] ELSE "none"  BY DEF AtPlace, gone
<1>6. ToSet(Overloads) \cap gone = {} => l = Overloads  BY <1>2, OmitNothing
<1>7. routines = ToSet(Overloads) => ToSet(Overloads) \cap gone = {}  BY DEF gone
<1> HIDE DEF l
<1>8. wish.place \in DOMAIN l  BY <1>1, <1>3, <1>5, LenProperties
<1>9. AtPlace = l[wish.place] /\ AtPlace \in ToSet(l)  BY <1>1, <1>3, <1>5, <1>8 DEF ToSet
<1> QED  BY <1>3, <1>4, <1>6, <1>7, <1>9 DEF OnPage


\* Nothing has been done for a request that has not run a statement.
LEMMA NothingYet ==
    ASSUME AccessHolds, UNCHANGED <<world, given, taken>>, given = {}, taken = {},
           answered' \in {"nothing", "refused"}
    PROVE  AccessHolds'
  BY DEF AccessHolds, OwnAccountStays, Narrow, RevokedIsGone, FailedAllOrNothing, Own, world

\* A request starts with nothing done.
LEMMA AccessStarts ==
    ASSUME LInit(Servers, [s \in Servers |-> SUBSET GrantsOn(s)],
                 [s \in Servers |-> AccountWishes(s) \cup PrivilegeWishes(s)])
    PROVE  AccessInv
<1>1. /\ server \in Servers /\ accounts = {OnServer(a) : a \in Spellings(server)}
      /\ grants \subseteq GrantsOn(server) /\ routines = ToSet(Overloads)
      /\ wish \in AccountWishes(server) \cup PrivilegeWishes(server)
      /\ object = "none" /\ phase = "asked" /\ answered = "nothing" /\ given = {} /\ taken = {}
      /\ others = [granted |-> {}, took |-> {}, acts |-> 0]
  BY DEF LInit
<1>2. AccessTypes  BY <1>1 DEF AccessTypes, Accounts
<1>3. Stage  BY <1>1 DEF Stage
<1>4. Own \in accounts  BY <1>1 DEF Own, Spellings, OnServer, Servers
<1>5. AccessHolds
  BY <1>1, <1>4 DEF AccessHolds, OwnAccountStays, Narrow, RevokedIsGone, FailedAllOrNothing
<1> QED  BY <1>2, <1>3, <1>5 DEF AccessInv

\* An account that a listing shows is there, and so is what is at the place.
LEMMA ResolveStep ==
    ASSUME AccessInv, ResolveGrantee
    PROVE  AccessInv'
<1>1. /\ phase = "asked" /\ Privileged
      /\ UNCHANGED <<world, wish, given, taken, others, statements>>
      /\ object' = IF wish.on = "routine" THEN AtPlace ELSE wish.on
  BY DEF ResolveGrantee, Privileged, Tells
<1>2. AccessTypes /\ Stage /\ AccessHolds  BY DEF AccessInv
<1>3. given = {} /\ taken = {} /\ answered = "nothing"  BY <1>1, <1>2 DEF Stage
<1>4. \/ phase' = "told" /\ answered' = "refused"
      \/ /\ phase' = "known" /\ answered' = "nothing"
         /\ object' # "none" /\ (wish.to = "PUBLIC" \/ IsAccount(wish.to))
  BY <1>3 DEF ResolveGrantee, Tells
<1>5. AccessTypes'  BY <1>1, <1>2, <1>4 DEF AccessTypes, world
<1>6. AccessHolds'  BY <1>1, <1>2, <1>3, <1>4, NothingYet
<1>7. ASSUME phase' = "known" PROVE Resolved'
  <2>1. wish \in PrivilegeWishes(server) /\ wish.to \in Grantees(server)  BY <1>1, <1>2, WishSpelled
  <2>2. wish.to = "PUBLIC" \/ OnServer(wish.to) \in accounts
    <3> SUFFICES ASSUME IsAccount(wish.to) PROVE OnServer(wish.to) \in accounts  BY <1>4, <1>7
    <3>1. PICK b \in accounts : SameAccount(b, wish.to)  BY DEF IsAccount, SameAccount
    <3>2. b \in Accounts(server)  BY <1>2 DEF AccessTypes
    <3> QED  BY <1>2, <2>1, <3>1, <3>2, OwnSpelled
  <2>3. wish.on = "routine" => AtPlace \in routines /\ (AtPlace = OnPage \/ routines # ToSet(Overloads))
    BY <1>1, <1>2, <1>4, <1>7, <2>1, PlaceHolds
  <2>4. routines \subseteq ToSet(Overloads)  BY <1>2 DEF AccessTypes
  <2>5. OnPage' = OnPage  BY <1>1 DEF OnPage
  <2> QED  BY <1>1, <2>1, <2>2, <2>3, <2>4, <2>5 DEF Resolved, world
<1>8. Stage'  BY <1>1, <1>3, <1>4, <1>7 DEF Stage, Privileged
<1> QED  BY <1>5, <1>6, <1>8 DEF AccessInv


\* What a statement for a grant names can be granted, and is what is meant.
LEMMA DenotedSpelled ==
    ASSUME AccessTypes, Resolved
    PROVE  /\ wish.column \in {"none"} \cup Columns => Denoted(object, wish.column) \in GrantsOn(server)
           /\ Meant(Denoted(object, wish.column), object)
<1>1. /\ wish.to \in Grantees(server)
      /\ wish.on \in {"database", "table", "routine"}
      /\ wish.priv \in {"select", "trigger", "maintain", "execute"}
      /\ wish.on = "routine" => wish.column = "none"
  BY WishSpelled DEF Resolved
<1>2. /\ wish.on = "routine" => object \in ToSet(Overloads)
      /\ wish.on # "routine" => object = wish.on
  BY DEF Resolved
<1> DEFINE on == IF object = "database" THEN Escaped ELSE object
           D == Grant(OnServer(wish.to), on, wish.column, wish.priv, "owner")
<1>3. Denoted(object, wish.column) = D  BY DEF Denoted
<1>4. /\ on \in PatternsOn(server) \cup {"table"} \cup ToSet(Overloads)
      /\ on \in ToSet(Overloads) => wish.on = "routine"
      /\ on \in (IF object = "database" THEN Patterns ELSE {object})
  BY <1>1, <1>2, AccessAssumption DEF Escaped, PatternsOn, Patterns
<1> HIDE DEF on
<1>5. /\ D.to = OnServer(wish.to) /\ D.on = on /\ D.column = wish.column /\ D.priv = wish.priv
      /\ D.by = "owner"
  BY DEF Grant
<1>6. ASSUME wish.column \in {"none"} \cup Columns PROVE D \in GrantsOn(server)
  BY <1>1, <1>4, <1>6 DEF GrantsOn, Grant
<1>7. SameAccount(OnServer(wish.to), wish.to)  BY DEF SameAccount, Fold, OnServer
<1> HIDE DEF D
<1>8. Meant(D, object)  BY <1>4, <1>5, <1>7 DEF Meant
<1> QED  BY <1>3, <1>6, <1>8

\* A grant is by one statement, for what the request says.
LEMMA GrantStep ==
    ASSUME AccessInv, GrantPrivilege
    PROVE  AccessInv'
<1>1. /\ phase = "known" /\ wish.action = "grant"
      /\ UNCHANGED <<world, wish, object, given, taken, others>>
  BY DEF GrantPrivilege
<1>2. AccessTypes /\ Stage /\ AccessHolds  BY DEF AccessInv
<1>3. given = {} /\ taken = {} /\ Privileged /\ Resolved /\ answered = "nothing"
  BY <1>1, <1>2 DEF Stage
<1>4. \/ phase' = "told" /\ answered' = "refused"
      \/ /\ phase' = "running" /\ answered' = "nothing"
         /\ statements' = <<Dcl("grant", Denoted(object, wish.column))>>
         /\ wish.column # "none" => wish.column \in Columns
  BY <1>3 DEF GrantPrivilege, Tells, RunAll, GrantStatements
<1>5. AccessTypes'  BY <1>1, <1>2, <1>4 DEF AccessTypes, world
<1>6. AccessHolds'  BY <1>1, <1>2, <1>3, <1>4, NothingYet
<1>7. Resolved' /\ Denoted(object, wish.column)' = Denoted(object, wish.column)
  BY <1>1, <1>3 DEF Resolved, OnPage, Denoted, Escaped, world
<1>8. ASSUME phase' = "running" PROVE Denoted(object, wish.column) \in GrantsOn(server)
  BY <1>2, <1>3, <1>4, <1>8, DenotedSpelled
<1>9. Stage'  BY <1>1, <1>3, <1>4, <1>7, <1>8 DEF Stage, Privileged, world
<1> QED  BY <1>5, <1>6, <1>9 DEF AccessInv

\* A grant on a database is stored under at most two patterns, and a revoke has one
\* statement for each.
LEMMA RevokesAreStored ==
    ASSUME AccessTypes, Resolved, Present # {}
    PROVE  \/ \E x \in Names : /\ {g.on : g \in Present} = {x}
                               /\ RevokeStatements(object) = <<TheRevoke(x)>>
           \/ \E x, y \in Names : /\ x # y /\ {g.on : g \in Present} = {x, y}
                                  /\ RevokeStatements(object) = <<TheRevoke(x), TheRevoke(y)>>
<1> DEFINE stored == {g.on : g \in Present}
           F(i) == Dcl("revoke", [Denoted(object, wish.column) EXCEPT !.on = SetToSeq(stored)[i]])
<1>1. RevokeStatements(object) = [i \in 1 .. Cardinality(stored) |-> F(i)]
  BY DEF RevokeStatements
<1>2. \A i : F(i) = TheRevoke(SetToSeq(stored)[i])  BY DEF TheRevoke
<1>3. stored # {} /\ stored \subseteq Names
  BY DEF Present, Meant, Names
<1>4. \E x, y \in Names : Names = {x, y}
  BY DEF Names, Patterns, PatternsOn
<1> HIDE DEF stored, F
<1>5. \/ \E x \in Names : stored = {x}
      \/ \E x, y \in Names : x # y /\ stored = {x, y}
  BY <1>3, <1>4
<1>6. CASE \E x \in Names : stored = {x}
  <2>1. PICK x \in Names : stored = {x}  BY <1>6
  <2>2. IsFiniteSet(stored) /\ Cardinality(stored) = 1  BY <2>1, FS_Singleton
  <2>3. SetToSeq(stored)[1] = x
    <3>1. /\ SetToSeq(stored) \in Seq(stored) /\ Len(SetToSeq(stored)) = 1
      BY <2>2, SetToSeqProperties
    <3>2. SetToSeq(stored)[1] \in stored  BY <3>1
    <3> QED  BY <2>1, <3>2
  <2>4. RevokeStatements(object) = <<F(1)>>  BY <1>1, <2>2
  <2>5. RevokeStatements(object) = <<TheRevoke(x)>>  BY <1>2, <2>3, <2>4
  <2> QED  BY <2>1, <2>5 DEF stored
<1>7. CASE \E x, y \in Names : x # y /\ stored = {x, y}
  <2>1. PICK a, b \in Names : a # b /\ stored = {a, b}  BY <1>7
  <2>2. IsFiniteSet(stored) /\ Cardinality(stored) = 2
    <3>1. IsFiniteSet({a}) /\ Cardinality({a}) = 1  BY FS_Singleton
    <3>2. stored = {a} \cup {b} /\ b \notin {a}  BY <2>1
    <3>3. IsFiniteSet({a} \cup {b}) /\ Cardinality({a} \cup {b}) = Cardinality({a}) + 1
      BY <3>1, <3>2, FS_AddElement
    <3>4. IsFiniteSet(stored) /\ Cardinality(stored) = Cardinality({a}) + 1  BY <3>2, <3>3, Zenon
    <3> QED  BY <3>1, <3>4
  <2>3. /\ SetToSeq(stored)[1] \in stored /\ SetToSeq(stored)[2] \in stored
        /\ SetToSeq(stored)[1] # SetToSeq(stored)[2]
    <3>1. /\ SetToSeq(stored) \in Seq(stored) /\ Len(SetToSeq(stored)) = 2
          /\ \A i, j \in 1 .. 2 : SetToSeq(stored)[i] = SetToSeq(stored)[j] => i = j
      BY <2>2, SetToSeqProperties
    <3> QED  BY <3>1
  <2>4. PICK x, y \in Names : /\ x = SetToSeq(stored)[1] /\ y = SetToSeq(stored)[2]
                              /\ x # y /\ stored = {x, y}
    BY <1>3, <2>1, <2>3
  <2>5. RevokeStatements(object) = <<F(1), F(2)>>  BY <1>1, <2>2
  <2>6. RevokeStatements(object) = <<TheRevoke(x), TheRevoke(y)>>  BY <1>2, <2>4, <2>5
  <2> QED  BY <2>4, <2>6 DEF stored
<1> QED  BY <1>5, <1>6, <1>7

\* A revoke is of what is listed.
LEMMA RevokeStep ==
    ASSUME AccessInv, RevokePrivilege
    PROVE  AccessInv'
<1>1. /\ phase = "known" /\ wish.action = "revoke"
      /\ UNCHANGED <<world, wish, object, given, taken, others>>
  BY DEF RevokePrivilege
<1>2. AccessTypes /\ Stage /\ AccessHolds  BY DEF AccessInv
<1>3. given = {} /\ taken = {} /\ Privileged /\ Resolved /\ answered = "nothing"
  BY <1>1, <1>2 DEF Stage
<1>4. \/ phase' = "told" /\ answered' = "refused"
      \/ /\ phase' = "running" /\ answered' = "nothing"
         /\ Present # {} /\ statements' = RevokeStatements(object)
  BY <1>3 DEF RevokePrivilege, Tells, RunAll
<1>5. AccessTypes'  BY <1>1, <1>2, <1>4 DEF AccessTypes, world
<1>6. AccessHolds'  BY <1>1, <1>2, <1>3, <1>4, NothingYet
<1>7. ASSUME phase' = "running" PROVE Revoking'
  <2>1. Present # {} /\ statements' = RevokeStatements(object)  BY <1>4, <1>7
  <2>2. /\ Resolved' /\ Names' = Names /\ MeantStill' = MeantStill /\ taken' = {} /\ grants' = grants
        /\ \A x : TheRevoke(x)' = TheRevoke(x) /\ Listed(x)' = Listed(x)
    BY <1>1, <1>3 DEF Resolved, OnPage, Names, Patterns, MeantStill, Meant, TheRevoke, Denoted, Escaped,
       Listed, world
  <2>3. \A g \in MeantStill : g \in grants /\ g.on \in {h.on : h \in Present}
    BY DEF MeantStill, Present
  <2>4. \A x \in {g.on : g \in Present} : Listed(x)  BY DEF Present, Listed
  <2>5. CASE \E x \in Names : /\ {g.on : g \in Present} = {x}
                              /\ RevokeStatements(object) = <<TheRevoke(x)>>
    <3>1. PICK x \in Names : {g.on : g \in Present} = {x} /\ RevokeStatements(object) = <<TheRevoke(x)>>
      BY <2>5
    <3>2. MeantStill \subseteq {g \in grants : g.on = x} /\ Listed(x)  BY <2>3, <2>4, <3>1
    <3> QED  BY <2>1, <2>2, <3>1, <3>2 DEF Revoking
  <2>6. CASE \E x, y \in Names : /\ x # y /\ {g.on : g \in Present} = {x, y}
                                 /\ RevokeStatements(object) = <<TheRevoke(x), TheRevoke(y)>>
    <3>1. PICK x, y \in Names : /\ x # y /\ {g.on : g \in Present} = {x, y}
                                /\ RevokeStatements(object) = <<TheRevoke(x), TheRevoke(y)>>
      BY <2>6
    <3>2. MeantStill \subseteq {g \in grants : g.on \in {x, y}} /\ Listed(x) /\ Listed(y)
      BY <2>3, <2>4, <3>1
    <3> QED  BY <2>1, <2>2, <3>1, <3>2 DEF Revoking
  <2> QED  BY <1>2, <1>3, <2>1, <2>5, <2>6, RevokesAreStored
<1>8. Stage'  BY <1>1, <1>3, <1>4, <1>7 DEF Stage, Privileged
<1> QED  BY <1>5, <1>6, <1>8 DEF AccessInv


\* What a request means on its object it means on its page, or the object has
\* moved into the page's place.
LEMMA MeantOnPage ==
    ASSUME Resolved, NEW g, Meant(g, object)
    PROVE  Meant(g, OnPage) \/ (Moved /\ Meant(g, object))
<1>1. object = OnPage \/ Moved  BY DEF Resolved, OnPage, Moved
<1> QED  BY <1>1

\* What a REVOKE of a request takes away is what the request means, or on
\* PostgreSQL a column's share of it.
LEMMA RevokedIsMeant ==
    ASSUME AccessTypes, Resolved, NEW x \in Names, NEW g \in Revoked(TheRevoke(x).on)
    PROVE  /\ g \in grants /\ g.on = x
           /\ \/ Meant(g, OnPage)
              \/ Moved /\ Meant(g, object)
              \/ /\ server = "postgres" /\ wish.column = "none"
                 /\ Meant([g EXCEPT !.column = "none"], OnPage)
<1> DEFINE D == TheRevoke(x).on
<1>1. /\ D.to = OnServer(wish.to) /\ D.on = x /\ D.column = wish.column /\ D.priv = wish.priv
  BY DEF TheRevoke, Denoted, Grant, Dcl
<1> HIDE DEF D
<1>2. /\ g \in grants /\ g.to = OnServer(wish.to) /\ g.on = x /\ g.priv = wish.priv
      /\ g.column = wish.column \/ (server = "postgres" /\ wish.column = "none")
  <2>1. g \in Revoked(D)  BY DEF D
  <2> QED  BY <1>1, <2>1 DEF Revoked
<1>3. g \in GrantsOn(server)  BY <1>2 DEF AccessTypes
<1>4. SameAccount(g.to, wish.to)  BY <1>2, <1>3, GrantsSpelled
<1>5. g.on \in (IF object = "database" THEN Patterns ELSE {object})  BY <1>2 DEF Names
<1>6. g.column = wish.column => Meant(g, object)  BY <1>2, <1>4, <1>5 DEF Meant
<1>7. ASSUME g.column # wish.column
      PROVE  object = OnPage /\ Meant([g EXCEPT !.column = "none"], object)
  <2>1. wish.column = "none" /\ g.column # "none"  BY <1>2, <1>7
  <2>2. g.on \notin ToSet(Overloads)  BY <1>3, <2>1, GrantsSpelled
  <2>3. wish.on # "routine"
    <3> SUFFICES ASSUME wish.on = "routine" PROVE FALSE  OBVIOUS
    <3>1. object \in ToSet(Overloads) /\ object # "database"  BY AccessAssumption DEF Resolved
    <3> QED  BY <1>5, <2>2, <3>1
  <2>4. object = OnPage  BY <2>3 DEF Resolved, OnPage
  <2> DEFINE h == [g EXCEPT !.column = "none"]
  <2>5. h.to = g.to /\ h.on = g.on /\ h.priv = g.priv /\ h.column = "none"
    BY <1>3 DEF GrantsOn
  <2> HIDE DEF h
  <2>6. Meant(h, object)  BY <1>2, <1>4, <1>5, <2>1, <2>5 DEF Meant
  <2> QED  BY <2>4, <2>6 DEF h
<1> QED  BY <1>2, <1>6, <1>7, MeantOnPage

\* A REVOKE of a grant that is listed fails only by chance, or because somebody
\* has been at work.
LEMMA RevokePossible ==
    ASSUME AccessTypes, Resolved, NEW x \in Names, Listed(x), ~ Possible(TheRevoke(x))
    PROVE  others.acts > 0
<1> SUFFICES ASSUME ~ (others.acts > 0) PROVE FALSE  OBVIOUS
<1> DEFINE D == TheRevoke(x).on
<1>1. /\ TheRevoke(x).op = "revoke"
      /\ D.to = OnServer(wish.to) /\ D.on = x /\ D.column = wish.column /\ D.priv = wish.priv
  BY DEF TheRevoke, Denoted, Grant, Dcl
<1>2. PICK g \in grants : Meant(g, object) /\ g.on = x  BY DEF Listed
<1>3. g \in GrantsOn(server)  BY DEF AccessTypes
<1>4. ~ (/\ Stands(D) /\ D.to \in accounts \cup {"PUBLIC"}
         /\ (server = "postgres" \/ Revoked(D) # {}))
  BY <1>1 DEF Possible
<1> HIDE DEF D
<1>5. Stands(D)
  <2>1. wish.on = "routine" => object \in routines /\ x = object
    <3>1. wish.on = "routine" => object # "database"  BY AccessAssumption DEF Resolved
    <3> QED  BY <3>1 DEF Resolved, Names
  <2>2. wish.on # "routine" => x \notin ToSet(Overloads)
    <3>1. wish.on # "routine" => object \in {"database", "table"}
      BY WishSpelled DEF Resolved
    <3> QED  BY <3>1, AccessAssumption DEF Names, Patterns, PatternsOn
  <2> QED  BY <1>1, <2>1, <2>2 DEF Stands
<1>6. D.to \in accounts \cup {"PUBLIC"}
  <2>1. wish.to = "PUBLIC" \/ OnServer(wish.to) \in accounts  BY DEF Resolved
  <2>2. OnServer("PUBLIC") = "PUBLIC"  BY DEF OnServer
  <2> QED  BY <1>1, <2>1, <2>2
<1>7. server = "postgres" \/ Revoked(D) # {}
  <2> SUFFICES ASSUME server # "postgres" PROVE g \in Revoked(D)  OBVIOUS
  <2>1. g.by = "owner" /\ g.to = OnServer(wish.to)
    BY <1>2, <1>3, GrantsSpelled DEF Meant
  <2>2. g.priv = wish.priv /\ g.column = wish.column  BY <1>2 DEF Meant
  <2> QED  BY <1>1, <1>2, <2>1, <2>2 DEF Revoked
<1> QED  BY <1>4, <1>5, <1>6, <1>7


\* A statement that is not run takes and gives nothing; one that is run leaves the
\* request's other statements, or is its last, or its answer is lost.
LEMMA ExecShape ==
    ASSUME ExecScript
    PROVE  /\ phase = "running" /\ UNCHANGED <<wish, object, others, server, routines>>
           /\ \/ /\ Possible(Head(statements)) /\ Effect(Head(statements))
                 /\ statements' = Tail(statements)
                 /\ \/ Len(statements) > 1 /\ UNCHANGED <<phase, answered>>
                    \/ ~ (Len(statements) > 1) /\ phase' = "told" /\ answered' = "done"
                    \/ phase' = "told" /\ answered' = "failed"
              \/ /\ phase' = "told" /\ answered' = "failed" /\ statements' = statements
                 /\ UNCHANGED <<world, given, taken>>
<1>1. phase = "running" /\ UNCHANGED <<wish, object, others>>  BY DEF ExecScript
<1>2. \/ /\ Possible(Head(statements)) /\ Effect(Head(statements))
         /\ statements' = Tail(statements)
         /\ \/ IF Len(statements) > 1 THEN UNCHANGED <<phase, answered>>
               ELSE phase' = "told" /\ answered' = "done"
            \/ phase' = "told" /\ answered' = "failed"
      \/ Tells("failed") /\ UNCHANGED <<world, given, taken>>
  BY DEF ExecScript
<1>3. CASE /\ Possible(Head(statements)) /\ Effect(Head(statements))
           /\ statements' = Tail(statements)
           /\ \/ IF Len(statements) > 1 THEN UNCHANGED <<phase, answered>>
                 ELSE phase' = "told" /\ answered' = "done"
              \/ phase' = "told" /\ answered' = "failed"
  <2>1. UNCHANGED <<server, routines>>  BY <1>3 DEF Effect
  <2> QED  BY <1>1, <1>3, <2>1
<1>4. CASE Tells("failed") /\ UNCHANGED <<world, given, taken>>
  BY <1>1, <1>4 DEF Tells, world
<1> QED  BY <1>2, <1>3, <1>4

LEMMA TailOfOne == ASSUME NEW s PROVE Tail(<<s>>) = <<>>
OBVIOUS

\* The statement of a managed account.
LEMMA ManageRun ==
    ASSUME AccessInv, ExecScript, ~ Privileged
    PROVE  AccessInv'
<1>1. /\ phase = "running" /\ UNCHANGED <<wish, object, others, server, routines>>
  BY ExecShape
<1>2. AccessTypes /\ Stage /\ AccessHolds  BY DEF AccessInv
<1> DEFINE st == Head(statements)
<1>3. /\ given = {} /\ taken = {} /\ statements = <<Dcl(wish.action, st.on)>>
      /\ wish.action \in {"create", "drop"} => st.on = OnServer(wish.to)
      /\ wish.action = "drop" => OnServer(wish.to) # Own
  BY <1>1, <1>2 DEF Stage
<1>10. Tail(statements) = <<>>
  <2>1. PICK d : statements = <<d>>  BY <1>3
  <2> QED  BY <2>1, TailOfOne
<1>4. st.op = wish.action /\ Len(statements) = 1
  <2>1. Head(statements) = Dcl(wish.action, st.on) /\ Len(statements) = 1  BY <1>3
  <2> QED  BY <2>1 DEF Dcl
<1>5. /\ wish.to \in Spellings(server) \cup {"new"} /\ wish.action \notin {"grant", "revoke"}
  BY <1>2, WishSpelled DEF Privileged
<1>6. /\ OnServer(wish.to) \in Accounts(server) /\ SameAccount(OnServer(wish.to), wish.to)
  BY <1>2, <1>5, OwnSpelled
<1>7. \/ /\ Effect(st) /\ phase' = "told" /\ answered' \in {"done", "failed"} /\ statements' = <<>>
      \/ /\ phase' = "told" /\ answered' = "failed" /\ statements' = statements
         /\ UNCHANGED <<world, given, taken>>
  BY <1>4, <1>10, ExecShape
<1> HIDE DEF st
<1>8. CASE /\ phase' = "told" /\ answered' = "failed" /\ statements' = statements
           /\ UNCHANGED <<world, given, taken>>
  <2>1. AccessTypes'  BY <1>1, <1>2, <1>8 DEF AccessTypes, world
  <2>2. Stage'  BY <1>8 DEF Stage
  <2>3. AccessHolds'
    BY <1>1, <1>2, <1>3, <1>5, <1>8
       DEF AccessHolds, OwnAccountStays, Narrow, RevokedIsGone, FailedAllOrNothing, Own, world
  <2> QED  BY <2>1, <2>2, <2>3 DEF AccessInv
<1>9. CASE Effect(st) /\ phase' = "told" /\ answered' \in {"done", "failed"} /\ statements' = <<>>
  <2>1. /\ accounts' = (accounts \ Ousts(st)) \cup (IF st.op = "create" THEN {st.on} ELSE {})
        /\ grants' = (grants \ Takes(st)) \cup Grants(st)
        /\ given' = given \cup (Grants(st) \ grants) /\ taken' = taken \cup Takes(st)
    BY <1>9 DEF Effect
  <2>2. Grants(st) = {} /\ Ousts(st) = (IF wish.action = "drop" THEN {OnServer(wish.to)} ELSE {})
    BY <1>3, <1>4, <1>5 DEF Grants, Ousts
  <2>3. Takes(st) = {g \in grants : wish.action = "drop" /\ g.to = OnServer(wish.to)}
    BY <1>4, <1>5, <2>2 DEF Takes
  <2>4. /\ grants' \subseteq grants /\ given' = {} /\ taken' \subseteq grants
        /\ \A g \in taken' : wish.action = "drop" /\ SameAccount(g.to, wish.to)
    BY <1>3, <1>6, <2>1, <2>2, <2>3
  <2>5. accounts' \subseteq Accounts(server) /\ (Own \in accounts => Own \in accounts')
    BY <1>2, <1>3, <1>4, <1>6, <2>1, <2>2 DEF AccessTypes
  <2>6. AccessTypes'  BY <1>1, <1>2, <1>9, <2>4, <2>5 DEF AccessTypes
  <2>7. Stage'  BY <1>9 DEF Stage
  <2>8. Narrow'
    BY <1>1, <1>5, <2>4 DEF Narrow
  <2>9. OwnAccountStays' /\ RevokedIsGone' /\ FailedAllOrNothing'
    BY <1>1, <1>2, <1>5, <1>9, <2>5 DEF AccessHolds, OwnAccountStays, RevokedIsGone, FailedAllOrNothing, Own
  <2> QED  BY <2>6, <2>7, <2>8, <2>9 DEF AccessInv, AccessHolds
<1> QED  BY <1>7, <1>8, <1>9

\* The statement of a grant.
LEMMA GrantRun ==
    ASSUME AccessInv, ExecScript, wish.action = "grant"
    PROVE  AccessInv'
<1>1. /\ phase = "running" /\ UNCHANGED <<wish, object, others, server, routines>>
  BY ExecShape
<1>2. AccessTypes /\ Stage /\ AccessHolds  BY DEF AccessInv
<1> DEFINE D == Denoted(object, wish.column)
<1>3. /\ given = {} /\ taken = {} /\ Resolved /\ statements = <<Dcl("grant", D)>> /\ D \in GrantsOn(server)
  BY <1>1, <1>2 DEF Stage
<1>4. Head(statements) = Dcl("grant", D) /\ Len(statements) = 1  BY <1>3
<1>5. Dcl("grant", D).op = "grant" /\ Dcl("grant", D).on = D  BY DEF Dcl
<1>6. Meant(D, OnPage) \/ (Moved /\ Meant(D, object))
  BY <1>2, <1>3, DenotedSpelled, MeantOnPage
<1> HIDE DEF D
<1>7. \/ /\ Effect(Dcl("grant", D)) /\ phase' = "told" /\ answered' \in {"done", "failed"} /\ statements' = <<>>
      \/ /\ phase' = "told" /\ answered' = "failed" /\ statements' = statements
         /\ UNCHANGED <<world, given, taken>>
  BY <1>3, <1>4, TailOfOne, ExecShape
<1>8. CASE /\ phase' = "told" /\ answered' = "failed" /\ statements' = statements
           /\ UNCHANGED <<world, given, taken>>
  <2>1. AccessTypes'  BY <1>1, <1>2, <1>8 DEF AccessTypes, world
  <2>2. Stage'  BY <1>8 DEF Stage
  <2>3. AccessHolds'
    BY <1>1, <1>2, <1>3, <1>8
       DEF AccessHolds, OwnAccountStays, Narrow, RevokedIsGone, FailedAllOrNothing, Own, world
  <2> QED  BY <2>1, <2>2, <2>3 DEF AccessInv
<1>9. CASE Effect(Dcl("grant", D)) /\ phase' = "told" /\ answered' \in {"done", "failed"} /\ statements' = <<>>
  <2>1. /\ Ousts(Dcl("grant", D)) = {} /\ Grants(Dcl("grant", D)) = {D} /\ Takes(Dcl("grant", D)) = {}
    BY <1>5 DEF Ousts, Grants, Takes
  <2>2. /\ accounts' = accounts /\ grants' = grants \cup {D} /\ taken' = {} /\ given' \subseteq {D}
    BY <1>3, <1>5, <1>9, <2>1 DEF Effect
  <2>3. AccessTypes'  BY <1>1, <1>2, <1>3, <1>9, <2>2 DEF AccessTypes
  <2>4. Stage'  BY <1>9 DEF Stage
  <2>5. Narrow'
    <3>1. Meant(D, OnPage)' = Meant(D, OnPage) /\ Meant(D, object)' = Meant(D, object) /\ Moved' = Moved
      BY <1>1 DEF Meant, Moved, OnPage, Patterns, D, Denoted, Escaped
    <3>2. given' = {} \/ given' = {D}  BY <2>2
    <3>3. \A g \in given' \cup taken' : g = D  BY <2>2
    <3>4. ASSUME NEW g \in given' \cup taken' PROVE Meant(g, OnPage)' \/ (Moved' /\ Meant(g, object)')
      <4>1. D' = D  BY <1>1 DEF D, Denoted, Escaped
      <4> QED  BY <1>6, <3>1, <3>3, <4>1 DEF Meant
    <3> QED  BY <1>1, <2>2, <3>4 DEF Narrow
  <2>6. OwnAccountStays' /\ RevokedIsGone' /\ FailedAllOrNothing'
    BY <1>1, <1>2, <1>9, <2>2 DEF AccessHolds, OwnAccountStays, RevokedIsGone, FailedAllOrNothing, Own
  <2> QED  BY <2>3, <2>4, <2>5, <2>6 DEF AccessInv, AccessHolds
<1> QED  BY <1>7, <1>8, <1>9


\* What a REVOKE leaves.
LEMMA RevokeTakes ==
    ASSUME AccessTypes, Resolved, NEW x \in Names, Effect(TheRevoke(x)), phase = "running",
           UNCHANGED <<wish, object, others, server, routines>>
    PROVE  /\ accounts' = accounts /\ given' = given /\ Resolved'
           /\ grants' = grants \ Revoked(TheRevoke(x).on)
           /\ taken' = taken \cup Revoked(TheRevoke(x).on)
           /\ MeantStill' \subseteq {g \in MeantStill : g.on # x}
           /\ \A g \in Revoked(TheRevoke(x).on) : g \in grants /\ g.on = x
<1>1. TheRevoke(x).op = "revoke"  BY DEF TheRevoke, Dcl
<1>2. /\ Ousts(TheRevoke(x)) = {} /\ Grants(TheRevoke(x)) = {}
      /\ Takes(TheRevoke(x)) = Revoked(TheRevoke(x).on)
  BY <1>1 DEF Ousts, Grants, Takes
<1>3. /\ accounts' = accounts /\ given' = given
      /\ grants' = grants \ Revoked(TheRevoke(x).on)
      /\ taken' = taken \cup Revoked(TheRevoke(x).on)
  BY <1>1, <1>2 DEF Effect
<1>4. Resolved'  BY <1>3 DEF Resolved, OnPage
<1>5. \A g \in Revoked(TheRevoke(x).on) : g \in grants /\ g.on = x  BY RevokedIsMeant
<1>6. ASSUME NEW g \in MeantStill' PROVE g \in MeantStill /\ g.on # x
  <2>1. /\ g \in grants /\ g \notin Revoked(TheRevoke(x).on) /\ Meant(g, object)
        /\ g.by = "owner" /\ g \notin others.granted
    BY <1>3 DEF MeantStill, Meant, Patterns
  <2>2. g \in MeantStill  BY <2>1 DEF MeantStill
  <2>3. g.to = OnServer(wish.to) /\ g.priv = wish.priv /\ g.column = wish.column
    <3>1. g \in GrantsOn(server)  BY <2>1 DEF AccessTypes
    <3> QED  BY <2>1, <3>1, GrantsSpelled DEF Meant
  <2>4. /\ TheRevoke(x).on.to = OnServer(wish.to) /\ TheRevoke(x).on.on = x
        /\ TheRevoke(x).on.column = wish.column /\ TheRevoke(x).on.priv = wish.priv
    BY DEF TheRevoke, Denoted, Grant, Dcl
  <2>5. g.on = x => g \in Revoked(TheRevoke(x).on)  BY <2>1, <2>3, <2>4 DEF Revoked
  <2> QED  BY <2>1, <2>2, <2>5
<1> QED  BY <1>3, <1>4, <1>5, <1>6

\* The request's first REVOKE, whether another is to follow or not.
LEMMA RevokeNarrow ==
    ASSUME AccessTypes, AccessHolds, Resolved, wish.action = "revoke", given = {}, NEW x \in Names,
           Effect(TheRevoke(x)), phase = "running", UNCHANGED <<wish, object, others, server, routines>>
    PROVE  Narrow' /\ OwnAccountStays' /\ given' = {}
           /\ taken' \subseteq GrantsOn(server)' /\ grants' \subseteq GrantsOn(server)'
<1>1. /\ accounts' = accounts /\ given' = given
      /\ grants' = grants \ Revoked(TheRevoke(x).on)
      /\ taken' = taken \cup Revoked(TheRevoke(x).on)
      /\ \A g \in Revoked(TheRevoke(x).on) : g \in grants
  BY RevokeTakes
<1> DEFINE Asked(g) == \/ Meant(g, OnPage)
                       \/ Moved /\ Meant(g, object)
                       \/ /\ server = "postgres" /\ wish.column = "none"
                          /\ Meant([g EXCEPT !.column = "none"], OnPage)
<1>2. \A g \in Revoked(TheRevoke(x).on) : Asked(g)  BY RevokedIsMeant
<1>3. \A g \in taken : Asked(g)  BY DEF AccessHolds, Narrow
<1>4. \A g \in taken' : Asked(g)  BY <1>1, <1>2, <1>3
<1>5. \A g : Asked(g) =>
          \/ Meant(g, OnPage)'
          \/ Moved' /\ Meant(g, object)'
          \/ /\ server' = "postgres" /\ wish.column' = "none"
             /\ Meant([g EXCEPT !.column = "none"], OnPage)'
  BY DEF Meant, OnPage, Moved, Patterns
<1> HIDE DEF Asked
<1>6. Narrow'  BY <1>1, <1>4, <1>5 DEF Narrow
<1> QED  BY <1>1, <1>6 DEF AccessHolds, AccessTypes, OwnAccountStays, Own

\* The statements of a revoke.
LEMMA RevokeRun ==
    ASSUME AccessInv, ExecScript, wish.action = "revoke"
    PROVE  AccessInv'
<1>1. /\ phase = "running" /\ UNCHANGED <<wish, object, others, server, routines>>
  BY ExecShape
<1>2. AccessTypes /\ Stage /\ AccessHolds  BY DEF AccessInv
<1>3. given = {} /\ Revoking /\ Resolved /\ answered = "nothing"
  BY <1>1, <1>2 DEF Stage, Revoking
<1>4. Names' = Names /\ \A x : TheRevoke(x)' = TheRevoke(x)
  BY <1>1 DEF Names, Patterns, TheRevoke, Denoted, Escaped
\* Nothing was run.
<1>5. ASSUME NEW x \in Names, Head(statements) = TheRevoke(x), Listed(x), statements # <<>>,
             taken # {} => {g.on : g \in taken} \cup {s.on.on : s \in ToSet(statements)} = {"my_app", "my\\_app"},
             phase' = "told", answered' = "failed", statements' = statements,
             UNCHANGED <<world, given, taken>>
      PROVE  AccessInv'
  <2>1. AccessTypes'  BY <1>1, <1>2, <1>5 DEF AccessTypes, world
  <2>2. Stage'  BY <1>5 DEF Stage
  <2>3. ~ Possible(Head(statements)) => others.acts > 0  BY <1>2, <1>3, <1>5, RevokePossible
  <2>4. Possible(Head(statements))' = Possible(Head(statements))
    BY <1>1, <1>5 DEF Possible, Stands, Revoked, world
  <2>5. FailedAllOrNothing'
    <3>1. given' = {} /\ taken' = taken /\ others' = others  BY <1>1, <1>3, <1>5
    <3> QED  BY <1>5, <2>3, <2>4, <3>1 DEF FailedAllOrNothing
  <2>6. OwnAccountStays' /\ Narrow' /\ RevokedIsGone'
    BY <1>1, <1>2, <1>5 DEF AccessHolds, OwnAccountStays, Narrow, RevokedIsGone, Own, world, Meant, OnPage, Moved, Patterns
  <2> QED  BY <2>1, <2>2, <2>5, <2>6 DEF AccessInv, AccessHolds
<1>6. CASE \E x \in Names :
            /\ statements = <<TheRevoke(x)>>
            /\ MeantStill \subseteq {g \in grants : g.on = x}
            /\ taken # {} => Names = {"my_app", "my\\_app"} /\ {g.on : g \in taken} = Names \ {x}
            /\ Listed(x)
  <2>1. PICK x \in Names :
            /\ statements = <<TheRevoke(x)>>
            /\ MeantStill \subseteq {g \in grants : g.on = x}
            /\ taken # {} => Names = {"my_app", "my\\_app"} /\ {g.on : g \in taken} = Names \ {x}
            /\ Listed(x)
    BY <1>6
  <2>2. /\ Head(statements) = TheRevoke(x) /\ Len(statements) = 1 /\ statements # <<>>
        /\ ToSet(statements) = {TheRevoke(x)} /\ Tail(statements) = <<>>
    BY <2>1, TailOfOne DEF ToSet
  <2>3. \/ /\ Effect(TheRevoke(x)) /\ phase' = "told" /\ answered' \in {"done", "failed"}
           /\ statements' = <<>>
        \/ /\ phase' = "told" /\ answered' = "failed" /\ statements' = statements
           /\ UNCHANGED <<world, given, taken>>
    <3>1. ~ (Len(statements) > 1)  BY <2>2
    <3>2. Effect(Head(statements)) => Effect(TheRevoke(x))  BY <2>2
    <3> QED  BY <2>2, <3>1, <3>2, ExecShape
  <2>4. CASE /\ phase' = "told" /\ answered' = "failed" /\ statements' = statements
             /\ UNCHANGED <<world, given, taken>>
    <3>1. TheRevoke(x).on.on = x  BY DEF TheRevoke, Denoted, Grant, Dcl
    <3>2. {s.on.on : s \in ToSet(statements)} = {x}  BY <2>2, <3>1
    <3>3. taken # {} => {g.on : g \in taken} \cup {s.on.on : s \in ToSet(statements)} = {"my_app", "my\\_app"}
      BY <2>1, <3>2
    <3> QED  BY <1>5, <2>1, <2>2, <2>4, <3>3
  <2>5. CASE Effect(TheRevoke(x)) /\ phase' = "told" /\ answered' \in {"done", "failed"} /\ statements' = <<>>
    <3>1. /\ Narrow' /\ OwnAccountStays' /\ given' = {}
          /\ taken' \subseteq GrantsOn(server)' /\ grants' \subseteq GrantsOn(server)'
      BY <1>1, <1>2, <1>3, <2>5, RevokeNarrow
    <3>2. /\ accounts' = accounts /\ MeantStill' \subseteq {g \in MeantStill : g.on # x}
      BY <1>1, <1>2, <1>3, <2>5, RevokeTakes
    <3>3. AccessTypes'  BY <1>1, <1>2, <2>5, <3>1, <3>2 DEF AccessTypes
    <3>4. Stage'  BY <2>5 DEF Stage
    <3>5. MeantStill' = {}  BY <2>1, <3>2
    <3>6. RevokedIsGone'  BY <3>5 DEF RevokedIsGone, MeantStill
    <3>7. FailedAllOrNothing'  BY <2>5 DEF FailedAllOrNothing
    <3> QED  BY <3>1, <3>3, <3>4, <3>6, <3>7 DEF AccessInv, AccessHolds
  <2> QED  BY <2>3, <2>4, <2>5
<1>7. CASE \E x, y \in Names :
            /\ x # y /\ statements = <<TheRevoke(x), TheRevoke(y)>>
            /\ MeantStill \subseteq {g \in grants : g.on \in {x, y}}
            /\ taken = {}
            /\ Listed(x) /\ Listed(y)
  <2>1. PICK x, y \in Names :
            /\ x # y /\ statements = <<TheRevoke(x), TheRevoke(y)>>
            /\ MeantStill \subseteq {g \in grants : g.on \in {x, y}}
            /\ taken = {}
            /\ Listed(x) /\ Listed(y)
    BY <1>7
  <2>2. /\ Head(statements) = TheRevoke(x) /\ Len(statements) > 1 /\ statements # <<>>
        /\ Tail(statements) = <<TheRevoke(y)>>
    <3>1. statements = <<TheRevoke(x), TheRevoke(y)>>  BY <2>1
    <3> HIDE <2>1
    <3> QED  BY <3>1
  <2>3. \/ /\ Effect(TheRevoke(x)) /\ statements' = <<TheRevoke(y)>>
           /\ UNCHANGED <<phase, answered>> \/ (phase' = "told" /\ answered' = "failed")
        \/ /\ phase' = "told" /\ answered' = "failed" /\ statements' = statements
           /\ UNCHANGED <<world, given, taken>>
    BY <2>2, ExecShape
  <2>4. CASE /\ phase' = "told" /\ answered' = "failed" /\ statements' = statements
             /\ UNCHANGED <<world, given, taken>>
    BY <1>5, <2>1, <2>2, <2>4
  <2>5. CASE /\ Effect(TheRevoke(x)) /\ statements' = <<TheRevoke(y)>>
             /\ UNCHANGED <<phase, answered>> \/ (phase' = "told" /\ answered' = "failed")
    <3>1. /\ Narrow' /\ OwnAccountStays' /\ given' = {}
          /\ taken' \subseteq GrantsOn(server)' /\ grants' \subseteq GrantsOn(server)'
      BY <1>1, <1>2, <1>3, <2>5, RevokeNarrow
    <3>2. /\ accounts' = accounts /\ Resolved' /\ MeantStill' \subseteq {g \in MeantStill : g.on # x}
          /\ grants' = grants \ Revoked(TheRevoke(x).on)
          /\ taken' = taken \cup Revoked(TheRevoke(x).on)
          /\ \A g \in Revoked(TheRevoke(x).on) : g \in grants /\ g.on = x
      BY <1>1, <1>2, <1>3, <2>5, RevokeTakes
    <3>3. AccessTypes'  BY <1>1, <1>2, <2>5, <3>1, <3>2 DEF AccessTypes
    <3>4. /\ Names = {x, y} /\ object = "database" /\ Names = {"my_app", "my\\_app"}
          /\ taken' # {} => {g.on : g \in taken'} = {x}
      <4>1. Names = {x, y} /\ object = "database" /\ Names = {"my_app", "my\\_app"}
        BY <2>1 DEF Names, Patterns, PatternsOn
      <4>2. \A g \in taken' : g.on = x  BY <2>1, <3>2
      <4> QED  BY <4>1, <4>2
    <3>5. Revoking'
      <4>1. MeantStill' \subseteq {g \in grants' : g.on = y}
        <5>1. \A g \in MeantStill' : g \in grants'  BY DEF MeantStill
        <5> QED  BY <2>1, <3>2, <5>1
      <4>3. taken' # {} => Names' = {"my_app", "my\\_app"} /\ {g.on : g \in taken'} = Names' \ {y}
        BY <1>4, <2>1, <3>4
      <4>4. Listed(y)'
        <5>1. CASE others.acts > 0  BY <1>1, <5>1 DEF Listed
        <5>2. CASE \E g \in grants : Meant(g, object) /\ g.on = y
          <6>1. PICK g \in grants : Meant(g, object) /\ g.on = y  BY <5>2
          <6>2. g \in grants'  BY <2>1, <3>2, <6>1
          <6>3. Meant(g, object)'  BY <1>1, <6>1 DEF Meant, Patterns
          <6> QED  BY <6>1, <6>2, <6>3 DEF Listed
        <5> QED  BY <2>1, <5>1, <5>2 DEF Listed
      <4>5. TheRevoke(y)' = TheRevoke(y) /\ Names' = Names  BY <1>4
      <4> QED  BY <2>1, <2>5, <3>2, <4>1, <4>3, <4>4, <4>5 DEF Revoking
    <3>7. FailedAllOrNothing'
      <4>1. ToSet(statements') = {TheRevoke(y)} /\ Head(statements') = TheRevoke(y) /\ statements' # <<>>
        BY <2>5 DEF ToSet
      <4>2. TheRevoke(y).on.on = y /\ TheRevoke(y).op = "revoke"  BY DEF TheRevoke, Denoted, Grant, Dcl
      <4>3. {s.on.on : s \in ToSet(statements')} = {y}  BY <4>1, <4>2
      <4>4. ASSUME Possible(TheRevoke(y)) PROVE Possible(Head(statements))'
        <5> DEFINE D == TheRevoke(y).on
        <5>1. Stands(D) /\ D.to \in accounts \cup {"PUBLIC"} /\ (server = "postgres" \/ Revoked(D) # {})
          BY <4>2, <4>4 DEF Possible
        <5>2. D.on = y  BY <4>2
        <5>7. D' = D /\ TheRevoke(y) = [op |-> "revoke", on |-> D]  BY <1>4 DEF TheRevoke, Dcl
        <5> HIDE DEF D
        <5>3. ASSUME NEW g \in Revoked(D) PROVE g \in Revoked(D)'
          <6>1. g.on = y /\ g \in grants  BY <5>2 DEF Revoked
          <6>2. g \in grants'  BY <2>1, <3>2, <6>1
          <6> QED  BY <1>1, <5>7, <6>2 DEF Revoked
        <5>4. Stands(D)' = Stands(D)  BY <1>1, <5>7 DEF Stands
        <5>5. Possible([op |-> "revoke", on |-> D])'  BY <1>1, <3>2, <5>1, <5>3, <5>4, <5>7 DEF Possible
        <5> QED  BY <4>1, <5>5, <5>7
      <4>5. ~ Possible(Head(statements))' => others'.acts > 0
        BY <1>1, <1>2, <1>3, <2>1, <4>4, RevokePossible
      <4> QED  BY <3>1, <3>4, <4>3, <4>5 DEF FailedAllOrNothing
    <3>8. RevokedIsGone'  BY <1>3, <2>5 DEF RevokedIsGone
    <3>6. Stage'  BY <1>1, <1>3, <2>5, <3>1, <3>5 DEF Stage, Privileged
    <3> QED  BY <3>1, <3>3, <3>6, <3>7, <3>8 DEF AccessInv, AccessHolds
  <2> QED  BY <2>3, <2>4, <2>5
<1> QED  BY <1>3, <1>6, <1>7 DEF Revoking


\* What others do leaves a request as it was, and is counted: they take away what
\* there is, drop another's account or a routine, and grant what was granted before.
LEMMA ElseShape ==
    ASSUME AccessInv, Elsewhere
    PROVE  /\ phase # "told" /\ UNCHANGED <<server, wish, object, statements, phase, answered, given, taken>>
           /\ accounts' \subseteq accounts /\ (Own \in accounts => Own \in accounts')
           /\ routines' \subseteq routines
           /\ grants' \subseteq grants \cup others'.granted /\ grants' \subseteq GrantsOn(server)
           /\ others' \in [granted : SUBSET GrantsOn(server), took : SUBSET GrantsOn(server), acts : Nat]
           /\ others.granted \subseteq others'.granted /\ others'.acts > 0
<1>1. /\ phase # "told" /\ UNCHANGED <<server, wish, object, statements, phase, answered, given, taken>>
  BY DEF Elsewhere
<1>2. /\ grants \subseteq GrantsOn(server) /\ taken \subseteq GrantsOn(server)
      /\ others \in [granted : SUBSET GrantsOn(server), took : SUBSET GrantsOn(server), acts : Nat]
  BY DEF AccessInv, AccessTypes
<1>3. \/ \E g \in Present \cup taken, op \in {"grant", "revoke"} : Other(Dcl(op, g))
      \/ \E a \in accounts \ {Own} : Other(Dcl("drop", a))
      \/ \E o \in routines : DropRoutine(o)
  BY DEF Elsewhere
<1>4. ASSUME NEW s, Other(s), Grants(s) \subseteq GrantsOn(server), Own \notin Ousts(s)
      PROVE  /\ accounts' \subseteq accounts /\ (Own \in accounts => Own \in accounts')
             /\ routines' \subseteq routines
             /\ grants' \subseteq grants \cup others'.granted /\ grants' \subseteq GrantsOn(server)
             /\ others' \in [granted : SUBSET GrantsOn(server), took : SUBSET GrantsOn(server), acts : Nat]
             /\ others.granted \subseteq others'.granted /\ others'.acts > 0
  <2>1. /\ others' = [granted |-> others.granted \cup Grants(s), took |-> others.took \cup Takes(s),
                      acts |-> others.acts + 1]
        /\ accounts' = accounts \ Ousts(s) /\ grants' = (grants \ Takes(s)) \cup Grants(s)
        /\ routines' = routines
    BY <1>4 DEF Other
  <2>2. Takes(s) \subseteq grants  BY DEF Takes, Revoked
  <2>3. /\ others'.granted = others.granted \cup Grants(s) /\ others'.took = others.took \cup Takes(s)
        /\ others'.acts = others.acts + 1
    BY <2>1
  <2>4. others' \in [granted : SUBSET GrantsOn(server), took : SUBSET GrantsOn(server), acts : Nat]
    <3>1. /\ others.granted \cup Grants(s) \in SUBSET GrantsOn(server)
          /\ others.took \cup Takes(s) \in SUBSET GrantsOn(server) /\ others.acts + 1 \in Nat
      BY <1>2, <1>4, <2>2
    <3> QED  BY <2>1, <3>1
  <2>5. others'.acts > 0  BY <1>2, <2>3
  <2> QED  BY <1>2, <1>4, <2>1, <2>3, <2>4, <2>5
<1>5. CASE \E g \in Present \cup taken, op \in {"grant", "revoke"} : Other(Dcl(op, g))
  <2>1. PICK g \in Present \cup taken, op \in {"grant", "revoke"} : Other(Dcl(op, g))  BY <1>5
  <2>2. g \in GrantsOn(server)  BY <1>2 DEF Present
  <2>3. Grants(Dcl(op, g)) \subseteq {g} /\ Ousts(Dcl(op, g)) = {}  BY DEF Grants, Ousts, Dcl
  <2> QED  BY <1>1, <1>4, <2>1, <2>2, <2>3
<1>6. CASE \E a \in accounts \ {Own} : Other(Dcl("drop", a))
  <2>1. PICK a \in accounts \ {Own} : Other(Dcl("drop", a))  BY <1>6
  <2>2. Grants(Dcl("drop", a)) = {} /\ Ousts(Dcl("drop", a)) = {a}  BY DEF Grants, Ousts, Dcl
  <2> QED  BY <1>1, <1>4, <2>1, <2>2
<1>7. CASE \E o \in routines : DropRoutine(o)
  <2>1. PICK o \in routines : DropRoutine(o)  BY <1>7
  <2>2. /\ routines' = routines \ {o} /\ grants' = {g \in grants : g.on # o}
        /\ others' = [others EXCEPT !.acts = @ + 1] /\ accounts' = accounts
    BY <2>1 DEF DropRoutine
  <2>3. /\ others'.granted = others.granted /\ others'.acts = others.acts + 1
        /\ others' \in [granted : SUBSET GrantsOn(server), took : SUBSET GrantsOn(server), acts : Nat]
    BY <1>2, <2>2
  <2>4. others'.acts > 0  BY <1>2, <2>3
  <2> QED  BY <1>1, <1>2, <2>2, <2>3, <2>4
<1> QED  BY <1>3, <1>5, <1>6, <1>7

\* What others do does not undo what a request has found.
LEMMA ElseStep ==
    ASSUME AccessInv, Elsewhere
    PROVE  AccessInv'
<1>1. /\ phase # "told" /\ UNCHANGED <<server, wish, object, statements, phase, answered, given, taken>>
      /\ accounts' \subseteq accounts /\ (Own \in accounts => Own \in accounts')
      /\ routines' \subseteq routines
      /\ grants' \subseteq grants \cup others'.granted /\ grants' \subseteq GrantsOn(server)
      /\ others' \in [granted : SUBSET GrantsOn(server), took : SUBSET GrantsOn(server), acts : Nat]
      /\ others.granted \subseteq others'.granted /\ others'.acts > 0
  BY ElseShape
<1>2. AccessTypes /\ Stage /\ AccessHolds  BY DEF AccessInv
<1>3. AccessTypes'  BY <1>1, <1>2 DEF AccessTypes
<1>4. routines \subseteq ToSet(Overloads) /\ answered = "nothing"  BY <1>1, <1>2 DEF AccessTypes, Stage
<1>5. Resolved => Resolved'  BY <1>1, <1>4 DEF Resolved, OnPage
<1>6. /\ Names' = Names /\ \A x : TheRevoke(x)' = TheRevoke(x) /\ Listed(x)'
      /\ Denoted(object, wish.column)' = Denoted(object, wish.column)
      /\ \A g : Meant(g, object)' = Meant(g, object) /\ Meant(g, OnPage)' = Meant(g, OnPage)
  BY <1>1 DEF Names, Patterns, TheRevoke, Denoted, Escaped, Listed, Meant, OnPage
<1>7. MeantStill' \subseteq {g \in MeantStill : g \in grants'}
  BY <1>1, <1>6 DEF MeantStill
<1>8. ASSUME Revoking PROVE Revoking'
  <2>1. CASE \E x \in Names :
            /\ statements = <<TheRevoke(x)>>
            /\ MeantStill \subseteq {g \in grants : g.on = x}
            /\ taken # {} => Names = {"my_app", "my\\_app"} /\ {g.on : g \in taken} = Names \ {x}
            /\ Listed(x)
    <3>1. PICK x \in Names :
            /\ statements = <<TheRevoke(x)>>
            /\ MeantStill \subseteq {g \in grants : g.on = x}
            /\ taken # {} => Names = {"my_app", "my\\_app"} /\ {g.on : g \in taken} = Names \ {x}
            /\ Listed(x)
      BY <2>1
    <3>2. MeantStill' \subseteq {g \in grants' : g.on = x}  BY <1>7, <3>1
    <3> QED  BY <1>1, <1>5, <1>6, <1>8, <3>1, <3>2 DEF Revoking
  <2>2. CASE \E x, y \in Names :
            /\ x # y /\ statements = <<TheRevoke(x), TheRevoke(y)>>
            /\ MeantStill \subseteq {g \in grants : g.on \in {x, y}}
            /\ taken = {}
            /\ Listed(x) /\ Listed(y)
    <3>1. PICK x, y \in Names :
            /\ x # y /\ statements = <<TheRevoke(x), TheRevoke(y)>>
            /\ MeantStill \subseteq {g \in grants : g.on \in {x, y}}
            /\ taken = {}
            /\ Listed(x) /\ Listed(y)
      BY <2>2
    <3>2. MeantStill' \subseteq {g \in grants' : g.on \in {x, y}}  BY <1>7, <3>1
    <3> QED  BY <1>1, <1>5, <1>6, <1>8, <3>1, <3>2 DEF Revoking
  <2> QED  BY <1>8, <2>1, <2>2 DEF Revoking
<1>9. Stage'
  <2>1. phase = "known" => Resolved  BY <1>2 DEF Stage
  <2>2. phase = "running" /\ wish.action = "grant" => Resolved  BY <1>2 DEF Stage
  <2>3. phase = "running" /\ wish.action = "revoke" => Revoking'  BY <1>2, <1>8 DEF Stage
  <2> QED  BY <1>1, <1>2, <1>5, <1>6, <2>1, <2>2, <2>3 DEF Stage, Privileged, Own
<1>10. AccessHolds'
  <2>1. OwnAccountStays'  BY <1>1, <1>2 DEF AccessHolds, OwnAccountStays, Own
  <2>2. Moved => Moved'  BY <1>1, <1>4 DEF Moved, OnPage
  <2>3. Narrow'
    <3>1. Narrow  BY <1>2 DEF AccessHolds
    <3> QED  BY <1>1, <1>6, <2>2, <3>1 DEF Narrow
  <2>4. RevokedIsGone' /\ FailedAllOrNothing'  BY <1>1, <1>4 DEF RevokedIsGone, FailedAllOrNothing
  <2> QED  BY <2>1, <2>3, <2>4 DEF AccessHolds
<1> QED  BY <1>3, <1>9, <1>10 DEF AccessInv

LEMMA AccessStep ==
    ASSUME AccessInv, [LNext]_lvars
    PROVE  AccessInv'
<1>1. CASE ManageAccount  BY <1>1, ManageStep
<1>2. CASE ResolveGrantee  BY <1>2, ResolveStep
<1>3. CASE GrantPrivilege  BY <1>3, GrantStep
<1>4. CASE RevokePrivilege  BY <1>4, RevokeStep
<1>5. CASE ExecScript
  <2>1. wish.action \notin {"grant", "revoke"} => ~ Privileged  BY DEF Privileged
  <2> QED  BY <1>5, <2>1, ManageRun, GrantRun, RevokeRun
<1>6. CASE Elsewhere  BY <1>6, ElseStep
<1>7. CASE UNCHANGED lvars
  <2>1. AccessTypes' = AccessTypes /\ OwnAccountStays' = OwnAccountStays
    BY <1>7 DEF AccessTypes, OwnAccountStays, Own, lvars, world
  <2>2. \A g, on : Meant(g, on)' = Meant(g, on)  BY <1>7 DEF Meant, Patterns, lvars, world
  <2>5. FailedAllOrNothing' = FailedAllOrNothing
    BY <1>7 DEF FailedAllOrNothing, Possible, Stands, Revoked, lvars, world
  <2>3. AccessHolds' = AccessHolds
    BY <1>7, <2>1, <2>5 DEF AccessHolds, Narrow, RevokedIsGone, Meant, Moved, OnPage, Patterns, lvars, world
  <2>4. Stage' = Stage
    BY <1>7 DEF Stage, Resolved, Revoking, Privileged, Own, OnPage, Names, TheRevoke, Denoted, Escaped,
       MeantStill, Meant, Listed, Patterns, lvars, world
  <2> QED  BY <2>1, <2>3, <2>4 DEF AccessInv
<1> QED  BY <1>1, <1>2, <1>3, <1>4, <1>5, <1>6, <1>7 DEF LNext

(***************************************************************************)
(* Whatever other clients do to the server meanwhile, and whatever         *)
(* statement fails or loses its answer: the session's account is never     *)
(* dropped; what is granted or taken away is what was asked for, where the *)
(* page shows it, or on the overload that has moved into the place; of a   *)
(* revoke that has run nothing is left; and "failed" is said when nothing  *)
(* was done, or all of it with the answer lost, or part of what is stored  *)
(* under two patterns. For any list of overloads, any grants there are and *)
(* any request.                                                            *)
(***************************************************************************)
THEOREM AccessKept == LSpec => []AccessHolds
<1>1. LInit(Servers, [s \in Servers |-> SUBSET GrantsOn(s)],
            [s \in Servers |-> AccountWishes(s) \cup PrivilegeWishes(s)]) => AccessInv
  BY AccessStarts
<1>2. AccessInv /\ [LNext]_lvars => AccessInv'  BY AccessStep
<1>3. AccessInv => AccessHolds  BY DEF AccessInv
<1> QED  BY <1>1, <1>2, <1>3, PTL DEF LSpec

(***************************************************************************)
(* Edits                                                                   *)
(***************************************************************************)
Row == [AllColumns -> Texts]
Sets == UNION {[C -> Texts] : C \in SUBSET AllColumns}
Saved == UNION {[I -> Row] : I \in SUBSET RowIds}
Forms == UNION {[C -> [shown : Texts, null : BOOLEAN, binary : BOOLEAN]] : C \in SUBSET AllColumns}
Ops == {"insert", "update", "delete"}
Asks == [op : Ops, n : Nat, set : Sets, token : Sets]
Writings == [set : Nat, place : RowIds, op : Ops, values : Sets]
Stages == {"away", "idle", "page", "insert", "edit", "bulk", "copy", "once", "tx", "done"}
Answers == {"none", "refused", "error", "info", "success", "warning"}

EditTypes ==
    /\ plans \in [Editors -> SUBSET Chores] /\ table \in AnyTable
    /\ columns \in {AllColumns, AllColumns \ {"v"}}
    /\ grid \in [RowIds -> Row] /\ undo \in [Editors -> Saved]
    /\ doing \in [Editors -> Stages]
    /\ tokens \in [Editors -> Seq(Sets)] /\ fields \in [Editors -> Seq(Forms)]
    /\ typed \in [Editors -> Seq(Typings)] /\ queue \in [Editors -> Seq(Asks)]
    /\ wrote \in [Editors -> SUBSET Writings] /\ tally \in [Editors -> Nat]
    /\ told \in [Editors -> [kind : Answers, n : Nat, by : Stages \cup {"none"}]]

\* No row is written by two transactions, and no key is another row's, also when
\* any of the transactions that are open is rolled back.
Isolated ==
    /\ \A e, o \in Editors : e # o => DOMAIN undo[e] \cap DOMAIN undo[o] = {}
    /\ table.keyed => \A i \in RowIds :
          /\ ~ NullKey(grid[i]) /\ \A e \in Editors : i \in DOMAIN undo[e] => ~ NullKey(undo[e][i])
          /\ \A j \in RowIds \ {i} :
                /\ ~ Clash(grid[i], grid[j])
                /\ \A e \in Editors : i \in DOMAIN undo[e] =>
                      /\ j \notin DOMAIN undo[e] => ~ Clash(undo[e][i], grid[j])
                      /\ \A o \in Editors : j \in DOMAIN undo[o] => ~ Clash(undo[e][i], undo[o][j])

\* A row is found by its key, or by every column there is.
KeyToken(t) == IF table.keyed THEN DOMAIN t = {"k"} ELSE columns \subseteq DOMAIN t

\* What is written of a row was typed.
AsTyped(e, n, set) == n \in DOMAIN typed[e] /\ \A c \in DOMAIN set :
    /\ typed[e][n][c] # "keep"
    /\ set[c] = IF typed[e][n][c] = "null" THEN "null" ELSE Sent(typed[e][n][c])

\* What a form carries.
Formed(e) ==
    /\ \A n \in 1 .. Len(tokens[e]) : KeyToken(tokens[e][n])
    /\ \A n \in 1 .. Len(fields[e]) : \A c \in DOMAIN fields[e][n] : fields[e][n][c].null => ~ fields[e][n][c].binary
    /\ doing[e] \in {"insert", "edit"} => Len(fields[e]) <= 1
    /\ doing[e] \in {"edit", "bulk"} =>
          /\ Len(fields[e]) = Len(tokens[e])
          /\ Ordinary => \A m, n \in 1 .. Len(tokens[e]) : m # n => tokens[e][m] # tokens[e][n]

\* The statements of a request that are left, and what it has written: each row of
\* the form by one statement, and each row of the table by one row of the form.
Running(e, op) ==
    /\ \A p \in 1 .. Len(queue[e]) :
          /\ queue[e][p].op = op
          /\ op = "update" => AsTyped(e, queue[e][p].n, queue[e][p].set)
          /\ op # "insert" => KeyToken(queue[e][p].token)
    /\ \A p, q \in 1 .. Len(queue[e]) : p # q =>
          /\ queue[e][p].n # queue[e][q].n
          /\ op # "insert" /\ Ordinary => queue[e][p].token # queue[e][q].token
    /\ \A w \in wrote[e] :
          /\ w.op = op
          /\ op = "update" => AsTyped(e, w.set, w.values)
          /\ \A p \in 1 .. Len(queue[e]) : queue[e][p].n # w.set
          /\ doing[e] = "tx" => w.place \in DOMAIN undo[e]
    /\ Ordinary \/ op = "insert" => \A w, x \in wrote[e] : w.set = x.set => w.place = x.place
    /\ Ordinary /\ op # "insert" /\ KeysKept(e) => \A w \in wrote[e] :
          /\ \A x \in wrote[e] : w.place = x.place => w.set = x.set
          /\ \A p \in 1 .. Len(queue[e]) : ~ Matches(grid[w.place], queue[e][p].token)
    /\ IsFiniteSet(wrote[e]) /\ tally[e] <= Cardinality(wrote[e])
    /\ ~ table.changed => tally[e] = Cardinality(wrote[e])
    /\ doing[e] = "once" => wrote[e] = {} /\ tally[e] = 0 /\ Len(queue[e]) <= 1

\* By how far a user's request is.
Editing(e) ==
    /\ doing[e] # "tx" => DOMAIN undo[e] = {}
    /\ doing[e] \notin {"once", "tx", "done"} =>
          wrote[e] = {} /\ queue[e] = <<>> /\ tally[e] = 0 /\ typed[e] = <<>> /\ Formed(e)
    /\ doing[e] \in {"once", "tx"} => \E op \in Ops : Running(e, op)
    /\ table.kind # "table" => doing[e] \in {"away", "idle", "page", "done"} /\ wrote[e] = {}
    /\ doing[e] = "done" => Honest(e)

EditInv == EditTypes /\ Isolated /\ \A e \in Editors : Editing(e)

\* A field that is left alone is not written, and what is written was typed.
LEMMA WritesTyped ==
    ASSUME NEW f \in [shown : Texts, null : BOOLEAN, binary : BOOLEAN], f.null => ~ f.binary, NEW t \in Texts, NEW c,
           Writes(f, t, c, FALSE)
    PROVE  t # "keep" /\ (NullBox(f, t) <=> t = "null")
<1>1. ~ Unchanged(f, t)  BY DEF Writes
<1>2. NullBox(f, t) \/ ~ f.binary  BY DEF Writes
<1>3. ASSUME t = "keep" PROVE FALSE
  <2>1. CASE f.null  BY <1>1, <1>3, <2>1 DEF Unchanged, NullBox
  <2>2. CASE ~ f.null
    <3>1. ~ NullBox(f, t) /\ ~ f.binary  BY <1>2, <1>3, <2>2 DEF NullBox
    <3>2. Sends(f, t) = Sent(f.shown)  BY <1>3 DEF Sends
    <3>3. NormalizeNewlines(Sent(f.shown)) = NormalizeNewlines(f.shown)  BY DEF NormalizeNewlines, Sent
    <3> QED  BY <1>1, <2>2, <3>1, <3>2, <3>3 DEF Unchanged
  <2> QED  BY <2>1, <2>2
<1> QED  BY <1>3 DEF NullBox

LEMMA SendsText ==
    ASSUME NEW f \in [shown : Texts, null : BOOLEAN, binary : BOOLEAN], NEW t \in Texts
    PROVE  Sends(f, t) \in Texts
<1>1. f.shown \in Texts  OBVIOUS
<1>2. \A x \in Texts : Sent(x) \in Texts  BY EditAssumption DEF Sent
<1> QED  BY <1>1, <1>2 DEF Sends

LEMMA ReadAsTyped ==
    ASSUME NEW fs \in Forms, NEW ts \in [AllColumns -> Texts], NEW insert \in BOOLEAN
    PROVE  /\ ReadRowValues(fs, ts, insert) \in Sets
           /\ DOMAIN ReadRowValues(fs, ts, insert) \subseteq columns
           /\ ~ insert /\ (\A c \in DOMAIN fs : fs[c].null => ~ fs[c].binary) =>
                \A c \in DOMAIN ReadRowValues(fs, ts, insert) :
                   /\ ts[c] # "keep"
                   /\ ReadRowValues(fs, ts, insert)[c] = IF ts[c] = "null" THEN "null" ELSE Sent(ts[c])
<1> DEFINE C == {c \in DOMAIN fs : Writes(fs[c], ts[c], c, insert)}
           V(c) == IF NullBox(fs[c], ts[c]) THEN "null" ELSE Sends(fs[c], ts[c])
<1>1. ReadRowValues(fs, ts, insert) = [c \in C |-> V(c)]  BY DEF ReadRowValues
<1>2. PICK D \in SUBSET AllColumns : fs \in [D -> [shown : Texts, null : BOOLEAN, binary : BOOLEAN]]  BY DEF Forms
<1>3. \A c \in D : ts[c] \in Texts /\ fs[c] \in [shown : Texts, null : BOOLEAN, binary : BOOLEAN]  BY <1>2
<1>4. \A c \in C : c \in D /\ Writes(fs[c], ts[c], c, insert)  BY <1>2
<1>5. \A c \in C : V(c) \in Texts /\ c \in columns
  <2> SUFFICES ASSUME NEW c \in C PROVE V(c) \in Texts /\ c \in columns  OBVIOUS
  <2>1. Sends(fs[c], ts[c]) \in Texts  BY <1>3, <1>4, SendsText
  <2>2. c \in columns
    <3>1. Writes(fs[c], ts[c], c, insert)  BY <1>4
    <3> QED  BY <3>1 DEF Writes
  <2>3. V(c) = "null" \/ V(c) = Sends(fs[c], ts[c])  OBVIOUS
  <2> QED  BY <2>1, <2>2, <2>3, EditAssumption
<1>6. C \subseteq AllColumns  BY <1>2, <1>4
<1>7. [c \in C |-> V(c)] \in [C -> Texts]  BY <1>5
<1>8. ReadRowValues(fs, ts, insert) \in Sets  BY <1>1, <1>6, <1>7 DEF Sets
<1>9. ASSUME ~ insert, \A c \in DOMAIN fs : fs[c].null => ~ fs[c].binary, NEW c \in C
      PROVE  ts[c] # "keep" /\ V(c) = IF ts[c] = "null" THEN "null" ELSE Sent(ts[c])
  <2>1. Writes(fs[c], ts[c], c, FALSE)  BY <1>4, <1>9
  <2>2. fs[c].null => ~ fs[c].binary  BY <1>2, <1>4, <1>9
  <2>3. ts[c] # "keep" /\ (NullBox(fs[c], ts[c]) <=> ts[c] = "null")
    BY <1>3, <1>4, <2>1, <2>2, WritesTyped
  <2> QED  BY <2>3 DEF Sends
<1> HIDE DEF C, V
<1> QED  BY <1>1, <1>5, <1>8, <1>9

\* "No changes" is said of a form in which none was made.
LEMMA NothingTyped ==
    ASSUME NEW f \in [shown : Texts, null : BOOLEAN, binary : BOOLEAN], NEW t \in Texts, NEW c, NEW insert \in BOOLEAN,
           ~ Writes(f, t, c, insert), c # "g", f.binary => t \in {"keep", "null"}
    PROVE  \/ t \in {"keep", "empty"} \/ c \notin columns
           \/ t = "null" /\ f.null
           \/ NormalizeNewlines(t) = NormalizeNewlines(f.shown)
<1> SUFFICES ASSUME t \notin {"keep", "empty"}, c \in columns, ~ (t = "null" /\ f.null)
             PROVE  NormalizeNewlines(t) = NormalizeNewlines(f.shown)
  OBVIOUS
<1>1. CASE t = "null"
  <2>1. NullBox(f, t)  BY <1>1 DEF NullBox
  <2>2. Unchanged(f, t)  BY <2>1 DEF Writes
  <2> QED  BY <1>1, <2>1, <2>2 DEF Unchanged
<1>2. CASE t # "null"
  <2>1. ~ NullBox(f, t) /\ ~ f.binary /\ Sends(f, t) = Sent(t)  BY <1>2 DEF NullBox, Sends
  <2>2. Sent(t) # "empty" /\ NormalizeNewlines(Sent(t)) = NormalizeNewlines(t)  BY DEF Sent, NormalizeNewlines
  <2>3. Unchanged(f, t)  BY <2>1, <2>2 DEF Writes
  <2> QED  BY <2>1, <2>2, <2>3 DEF Unchanged
<1> QED  BY <1>1, <1>2

\* A statement that does not wait finds rows no other transaction has written.
LEMMA FoundRows ==
    ASSUME NEW e \in Editors, NEW token, ~ Waits(e, token), NEW i \in Matched(e, token)
    PROVE  /\ i \in RowIds /\ Matches(grid[i], token)
           /\ \A o \in Editors \ {e} : i \notin DOMAIN undo[o]
<1>1. i \in RowIds /\ Matches(Seen(e, i), token)  BY DEF Matched
<1>2. ASSUME NEW o \in Editors \ {e}, i \in DOMAIN undo[o] PROVE FALSE
  <2>1. PICK p \in Editors \ {e} : i \in DOMAIN undo[p] /\ Seen(e, i) = undo[p][i]
    <3> DEFINE p == CHOOSE p \in Editors \ {e} : i \in DOMAIN undo[p]
    <3>1. p \in Editors \ {e} /\ i \in DOMAIN undo[p]  BY <1>2
    <3>2. Seen(e, i) = undo[p][i]  BY <1>2 DEF Seen
    <3> QED  BY <3>1, <3>2
  <2> QED  BY <1>1, <2>1 DEF Waits
<1>3. Seen(e, i) = grid[i]  BY <1>2 DEF Seen
<1> QED  BY <1>1, <1>2, <1>3

\* Where the engine keeps the key unique and not NULL, a key finds one row.
LEMMA OneRow ==
    ASSUME Isolated, Ordinary, NEW token, KeyToken(token), NEW i \in RowIds, NEW j \in RowIds,
           Matches(grid[i], token), Matches(grid[j], token)
    PROVE  i = j
<1>1. table.keyed /\ ~ table.nullKeys /\ DOMAIN token = {"k"}  BY DEF Ordinary, KeyToken
<1>2. /\ grid[i] # NoRow /\ grid[j] # NoRow /\ grid[i]["k"] = token["k"] /\ grid[j]["k"] = token["k"]
  BY <1>1 DEF Matches
<1>3. ~ NullKey(grid[i])  BY <1>1 DEF Isolated
<1>4. grid[i]["k"] # "null"  BY <1>1, <1>2, <1>3 DEF NullKey
<1>5. i # j => ~ Clash(grid[i], grid[j])  BY <1>1 DEF Isolated
<1> QED  BY <1>2, <1>4, <1>5 DEF Clash

\* A user whose own request does not move.
Aside(e) ==
    /\ doing'[e] = doing[e] /\ tokens'[e] = tokens[e] /\ fields'[e] = fields[e] /\ typed'[e] = typed[e]
    /\ queue'[e] = queue[e] /\ wrote'[e] = wrote[e] /\ tally'[e] = tally[e] /\ told'[e] = told[e]
    /\ undo'[e] = undo[e]

\* What others do to rows that the user's transaction has not written, and that a
\* column goes, changes nothing of a request.
LEMMA EditCalm ==
    ASSUME NEW e \in Editors, Editing(e), Aside(e), table' = table, columns' \subseteq columns,
           \A i \in DOMAIN undo[e] : grid'[i] = grid[i]
    PROVE  Editing(e)'
<1>1. /\ doing'[e] = doing[e] /\ tokens'[e] = tokens[e] /\ fields'[e] = fields[e] /\ typed'[e] = typed[e]
      /\ queue'[e] = queue[e] /\ wrote'[e] = wrote[e] /\ tally'[e] = tally[e] /\ told'[e] = told[e]
      /\ undo'[e] = undo[e]
  BY DEF Aside
<1>2. \A t : KeyToken(t) => KeyToken(t)'  BY DEF KeyToken
<1>3. /\ Ordinary' = Ordinary /\ KeysKept(e)' = KeysKept(e) /\ Several(e)' = Several(e)
      /\ \A n, set : AsTyped(e, n, set)' = AsTyped(e, n, set)
  BY <1>1 DEF Ordinary, KeysKept, Several, AsTyped
<1>4. Formed(e) => Formed(e)'
  BY <1>1, <1>2, <1>3 DEF Formed
<1>5. ASSUME NEW op \in Ops, Running(e, op), doing[e] \in {"once", "tx"} PROVE Running(e, op)'
  <2>1. \A w \in wrote[e], p \in 1 .. Len(queue[e]) :
          Ordinary /\ op # "insert" /\ KeysKept(e) => ~ Matches(grid[w.place], queue[e][p].token)'
    <3> SUFFICES ASSUME NEW w \in wrote[e], NEW p \in 1 .. Len(queue[e]), Ordinary, op # "insert", KeysKept(e)
                 PROVE  ~ Matches(grid[w.place], queue[e][p].token)'
      OBVIOUS
    <3>1. w.place \in DOMAIN undo[e]  BY <1>5 DEF Running
    <3>2. grid'[w.place] = grid[w.place]  BY <3>1
    <3>3. ~ Matches(grid[w.place], queue[e][p].token)  BY <1>5 DEF Running
    <3> QED  BY <1>1, <3>2, <3>3 DEF Matches
  <2>2. \A p \in 1 .. Len(queue[e]) :
              /\ queue[e][p].op = op
              /\ op = "update" => AsTyped(e, queue[e][p].n, queue[e][p].set)'
              /\ op # "insert" => KeyToken(queue[e][p].token)'
    <3> SUFFICES ASSUME NEW p \in 1 .. Len(queue[e])
                 PROVE  /\ queue[e][p].op = op
                        /\ op = "update" => AsTyped(e, queue[e][p].n, queue[e][p].set)'
                        /\ op # "insert" => KeyToken(queue[e][p].token)'
      OBVIOUS
    <3>1. /\ queue[e][p].op = op
          /\ op = "update" => AsTyped(e, queue[e][p].n, queue[e][p].set)
          /\ op # "insert" => KeyToken(queue[e][p].token)
      BY <1>5 DEF Running
    <3>2. KeyToken(queue[e][p].token) => KeyToken(queue[e][p].token)'  BY <1>1 DEF KeyToken
    <3>3. AsTyped(e, queue[e][p].n, queue[e][p].set)' = AsTyped(e, queue[e][p].n, queue[e][p].set)
      BY <1>1 DEF AsTyped
    <3> QED  BY <3>1, <3>2, <3>3
  <2>4. \A w \in wrote[e] :
              /\ w.op = op
              /\ op = "update" => AsTyped(e, w.set, w.values)'
              /\ \A p \in 1 .. Len(queue[e]) : queue[e][p].n # w.set
              /\ doing[e] = "tx" => w.place \in DOMAIN undo[e]
    BY <1>1, <1>5 DEF Running, AsTyped
  <2>3. /\ \A p, q \in 1 .. Len(queue[e]) : p # q =>
              /\ queue[e][p].n # queue[e][q].n
              /\ op # "insert" /\ Ordinary => queue[e][p].token # queue[e][q].token
        /\ Ordinary \/ op = "insert" => \A w, x \in wrote[e] : w.set = x.set => w.place = x.place
        /\ Ordinary /\ op # "insert" /\ KeysKept(e) => \A w \in wrote[e] :
              \A x \in wrote[e] : w.place = x.place => w.set = x.set
        /\ IsFiniteSet(wrote[e]) /\ tally[e] <= Cardinality(wrote[e])
        /\ ~ table.changed => tally[e] = Cardinality(wrote[e])
        /\ doing[e] = "once" => wrote[e] = {} /\ tally[e] = 0 /\ Len(queue[e]) <= 1
    BY <1>5 DEF Running
  <2> QED  BY <1>1, <1>3, <2>1, <2>2, <2>3, <2>4 DEF Running
<1>6. Honest(e) => Honest(e)'
  BY <1>1, <1>3 DEF Honest
<1>7. doing[e] \in {"once", "tx"} => \E op \in Ops : Running(e, op)'
  BY <1>5 DEF Editing
<1> QED  BY <1>1, <1>4, <1>6, <1>7 DEF Editing

\* The values of a function on a finite set.
LEMMA ImageFinite ==
    ASSUME NEW S, IsFiniteSet(S), NEW f, DOMAIN f = S, f = [x \in S |-> f[x]]
    PROVE  /\ IsFiniteSet({f[x] : x \in S}) /\ Cardinality({f[x] : x \in S}) <= Cardinality(S)
           /\ (\A x, y \in S : f[x] = f[y] => x = y) => Cardinality({f[x] : x \in S}) = Cardinality(S)
<1> DEFINE T == {f[x] : x \in S}
<1>1. f \in Surjection(S, T)  BY DEF Surjection
<1>2. (\A x, y \in S : f[x] = f[y] => x = y) => f \in Injection(S, T)
  BY <1>1 DEF Injection, Surjection, IsInjective
<1> QED  BY <1>1, <1>2, FS_Surjection

LEMMA RowTypes ==
    ASSUME EditTypes, NEW e \in Editors
    PROVE  /\ \A o \in Editors : DOMAIN undo[o] \subseteq RowIds /\ \A i \in DOMAIN undo[o] : undo[o][i] \in Row
           /\ \A i \in RowIds : grid[i] \in Row /\ Seen(e, i) \in Row
           /\ NoRow \in Row
<1>1. ASSUME NEW o \in Editors
      PROVE  DOMAIN undo[o] \subseteq RowIds /\ \A i \in DOMAIN undo[o] : undo[o][i] \in Row
  <2>1. undo[o] \in Saved  BY DEF EditTypes
  <2>2. PICK I \in SUBSET RowIds : undo[o] \in [I -> Row]  BY <2>1 DEF Saved
  <2> QED  BY <2>2
<1>2. ASSUME NEW i \in RowIds PROVE grid[i] \in Row /\ Seen(e, i) \in Row
  <2>1. grid[i] \in Row  BY DEF EditTypes
  <2>2. ASSUME \E o \in Editors \ {e} : i \in DOMAIN undo[o] PROVE Seen(e, i) \in Row
    <3> DEFINE o == CHOOSE o \in Editors \ {e} : i \in DOMAIN undo[o]
    <3>1. o \in Editors \ {e} /\ i \in DOMAIN undo[o]  BY <2>2
    <3>2. Seen(e, i) = undo[o][i]  BY <2>2 DEF Seen
    <3> QED  BY <1>1, <3>1, <3>2
  <2>3. ~ (\E o \in Editors \ {e} : i \in DOMAIN undo[o]) => Seen(e, i) = grid[i]  BY DEF Seen
  <2> QED  BY <2>1, <2>2, <2>3
<1>3. NoRow \in Row  BY EditAssumption DEF NoRow, Row
<1> QED  BY <1>1, <1>2, <1>3

\* The key of a row that a page gives.
LEMMA RowKeyIsToken ==
    ASSUME EditTypes, NEW row \in Row
    PROVE  RowKeyFor(row) \in Sets /\ KeyToken(RowKeyFor(row))
<1>1. KeyColumns \subseteq AllColumns /\ KeyColumns = IF table.keyed THEN {"k"} ELSE columns
  BY DEF KeyColumns, EditTypes, AllColumns
<1>2. \A c \in KeyColumns : Shown(row[c]) \in Texts
  <2>1. \A c \in AllColumns : row[c] \in Texts  BY DEF Row
  <2> QED  BY <1>1, <2>1, EditAssumption DEF Shown
<1>3. RowKeyFor(row) = [c \in KeyColumns |-> Shown(row[c])]  BY DEF RowKeyFor
<1>4. RowKeyFor(row) \in [KeyColumns -> Texts]  BY <1>2, <1>3
<1>5. RowKeyFor(row) \in Sets  BY <1>1, <1>4 DEF Sets
<1>6. DOMAIN RowKeyFor(row) = KeyColumns  BY <1>3
<1> QED  BY <1>1, <1>5, <1>6 DEF KeyToken

\* A user's step that runs nothing.
LEMMA OwnStep ==
    ASSUME EditInv, NEW p \in Editors, EditTypes', UNCHANGED <<table, columns, grid, undo>>,
           \A e \in Editors \ {p} : Aside(e), Editing(p)'
    PROVE  EditInv'
<1>1. Isolated'
  <2>1. Isolated  BY DEF EditInv
  <2>2. \A r, q : Clash(r, q)' = Clash(r, q) /\ NullKey(r)' = NullKey(r)  BY DEF Clash, NullKey
  <2> QED  BY <2>1 DEF Isolated, Clash, NullKey
<1>2. \A e \in Editors \ {p} : Editing(e)'
  <2> SUFFICES ASSUME NEW e \in Editors \ {p} PROVE Editing(e)'  OBVIOUS
  <2>1. Editing(e) /\ Aside(e) /\ columns' \subseteq columns /\ table' = table  BY DEF EditInv
  <2>2. \A i \in DOMAIN undo[e] : grid'[i] = grid[i]  OBVIOUS
  <2> QED  BY <2>1, <2>2, EditCalm
<1> QED  BY <1>1, <1>2 DEF EditInv

\* What is said of a request that wrote nothing.
LEMMA RefusedIsHonest ==
    ASSUME NEW e \in Editors, wrote'[e] = {}, told'[e].kind \in {"refused", "error"}, undo'[e] = Nothing
    PROVE  Honest(e)'
  BY DEF Honest, Several

LEMMA EditStart ==
    ASSUME EInit(AnyTable, [RowIds -> Row], [Editors -> SUBSET Chores])
    PROVE  EditInv
<1>1. /\ plans \in [Editors -> SUBSET Chores] /\ table \in AnyTable /\ grid \in [RowIds -> Row] /\ Legal(grid)
      /\ columns = AllColumns
      /\ undo = [e \in Editors |-> Nothing]
      /\ doing = [e \in Editors |-> IF plans[e] = {} THEN "away" ELSE "idle"]
      /\ tokens = [e \in Editors |-> <<>>] /\ fields = [e \in Editors |-> <<>>]
      /\ typed = [e \in Editors |-> <<>>] /\ queue = [e \in Editors |-> <<>>]
      /\ wrote = [e \in Editors |-> {}] /\ tally = [e \in Editors |-> 0]
      /\ told = [e \in Editors |-> [kind |-> "none", n |-> 0, by |-> "none"]]
  BY DEF EInit
<1>2. Nothing \in Saved /\ DOMAIN Nothing = {}
  <2>1. Nothing \in [{} -> Row] /\ DOMAIN Nothing = {}  BY DEF Nothing
  <2>2. {} \in SUBSET RowIds  OBVIOUS
  <2> QED  BY <2>1, <2>2 DEF Saved
<1>3. EditTypes
  <2>1. undo \in [Editors -> Saved]  BY <1>1, <1>2
  <2>2. doing \in [Editors -> Stages]  BY <1>1 DEF Stages
  <2>3. /\ tokens \in [Editors -> Seq(Sets)] /\ fields \in [Editors -> Seq(Forms)]
        /\ typed \in [Editors -> Seq(Typings)] /\ queue \in [Editors -> Seq(Asks)]
    <3>1. \A S : <<>> \in Seq(S)  OBVIOUS
    <3> QED  BY <1>1, <3>1
  <2>4. wrote \in [Editors -> SUBSET Writings] /\ tally \in [Editors -> Nat]  BY <1>1
  <2>5. told \in [Editors -> [kind : Answers, n : Nat, by : Stages \cup {"none"}]]
    BY <1>1 DEF Answers
  <2> QED  BY <1>1, <2>1, <2>2, <2>3, <2>4, <2>5 DEF EditTypes
<1>4. Isolated
  <2>1. \A e \in Editors : DOMAIN undo[e] = {}  BY <1>1, <1>2
  <2> QED  BY <1>1, <2>1 DEF Isolated, Legal
<1>5. ASSUME NEW e \in Editors PROVE Editing(e)
  <2>1. /\ DOMAIN undo[e] = {} /\ doing[e] \in {"away", "idle"} /\ tokens[e] = <<>> /\ fields[e] = <<>>
        /\ typed[e] = <<>> /\ queue[e] = <<>> /\ wrote[e] = {} /\ tally[e] = 0
    BY <1>1, <1>2
  <2>2. Formed(e)
    <3>1. Len(tokens[e]) = 0 /\ Len(fields[e]) = 0  BY <2>1
    <3> QED  BY <2>1, <3>1 DEF Formed
  <2> QED  BY <2>1, <2>2 DEF Editing
<1> QED  BY <1>3, <1>4, <1>5 DEF EditInv

LEMMA BrowseStep ==
    ASSUME EditInv, NEW p \in Editors, Browse(p)
    PROVE  EditInv'
<1> DEFINE shown == {i \in RowIds : Seen(p, i) # NoRow /\ HasKey(Seen(p, i))}
           keys == {RowKeyFor(Seen(p, i)) : i \in shown}
<1>1. /\ doing[p] = "idle" /\ tokens' = [tokens EXCEPT ![p] = SetToSeq(keys)]
      /\ doing' = [doing EXCEPT ![p] = "page"]
      /\ UNCHANGED <<plans, table, columns, grid, undo, fields, typed, queue, wrote, tally, told>>
  BY DEF Browse
<1>2. EditTypes /\ Editing(p)  BY DEF EditInv
<1>3. keys \subseteq {t \in Sets : KeyToken(t)}
  <2>1. \A i \in RowIds : Seen(p, i) \in Row  BY <1>2, RowTypes
  <2> QED  BY <1>2, <2>1, RowKeyIsToken
<1>4. IsFiniteSet(keys)
  <2> DEFINE f == [i \in shown |-> RowKeyFor(Seen(p, i))]
  <2>1. IsFiniteSet(shown)
    <3>1. IsFiniteSet(RowIds) /\ shown \subseteq RowIds  BY EditAssumption
    <3> QED  BY <3>1, FS_Subset
  <2>2. DOMAIN f = shown /\ f = [i \in shown |-> f[i]] /\ keys = {f[i] : i \in shown}  OBVIOUS
  <2> HIDE DEF f, shown, keys
  <2>3. IsFiniteSet({f[i] : i \in shown})  BY <2>1, <2>2, ImageFinite
  <2> QED  BY <2>2, <2>3
<1> HIDE DEF keys
<1>5. /\ SetToSeq(keys) \in Seq(keys) /\ ToSet(SetToSeq(keys)) = keys
      /\ \A i, j \in 1 .. Len(SetToSeq(keys)) : i # j => SetToSeq(keys)[i] # SetToSeq(keys)[j]
  BY <1>4, SetToSeqProperties
<1>6. PICK l \in Seq(Sets) :
        /\ tokens' = [tokens EXCEPT ![p] = l]
        /\ \A n \in 1 .. Len(l) : KeyToken(l[n])
        /\ \A i, j \in 1 .. Len(l) : i # j => l[i] # l[j]
  <2> DEFINE m == SetToSeq(keys)
  <2>1. \A n \in 1 .. Len(m) : m[n] \in keys  BY <1>5
  <2>2. m \in Seq(Sets)
    <3>1. keys \subseteq Sets  BY <1>3
    <3> QED  BY <1>5, <3>1
  <2>3. tokens' = [tokens EXCEPT ![p] = m]  BY <1>1
  <2>4. \A i, j \in 1 .. Len(m) : i # j => m[i] # m[j]  BY <1>5
  <2> HIDE DEF m
  <2> QED  BY <1>3, <2>1, <2>2, <2>3, <2>4
<1>7. \A t : KeyToken(t) => KeyToken(t)'  BY <1>1 DEF KeyToken
<1>8. EditTypes'
  <2>1. tokens' \in [Editors -> Seq(Sets)]  BY <1>2, <1>6 DEF EditTypes
  <2>2. doing' \in [Editors -> Stages]  BY <1>1, <1>2 DEF EditTypes, Stages
  <2> QED  BY <1>1, <1>2, <2>1, <2>2 DEF EditTypes
<1>9. \A e \in Editors \ {p} : Aside(e)
  BY <1>1, <1>2, <1>6 DEF Aside, EditTypes
<1>10. Editing(p)'
  <2>1. doing'[p] = "page" /\ tokens'[p] = l  BY <1>1, <1>2, <1>6 DEF EditTypes
  <2>2. /\ DOMAIN undo[p] = {} /\ wrote[p] = {} /\ queue[p] = <<>> /\ tally[p] = 0 /\ typed[p] = <<>> /\ Formed(p)
    BY <1>1, <1>2 DEF Editing
  <2>3. Formed(p)'
    <3>1. \A n \in 1 .. Len(l) : KeyToken(l[n])'  BY <1>6, <1>7
    <3>2. \A n \in 1 .. Len(tokens[p]') : KeyToken(tokens[p][n])'  BY <2>1, <3>1
    <3> QED  BY <1>1, <2>1, <2>2, <3>2 DEF Formed
  <2> QED  BY <1>1, <2>1, <2>2, <2>3 DEF Editing
<1> QED  BY <1>1, <1>8, <1>9, <1>10, OwnStep

LEMMA NothingOpen ==
    ASSUME EditTypes, NEW e \in Editors, DOMAIN undo[e] = {}
    PROVE  undo[e] = Nothing
<1>1. undo[e] \in Saved  BY DEF EditTypes
<1>2. PICK I \in SUBSET RowIds : undo[e] \in [I -> Row]  BY <1>1 DEF Saved
<1>3. I = {}  BY <1>2
<1> QED  BY <1>2, <1>3 DEF Nothing

\* A page refuses.
LEMMA RefuseStep ==
    ASSUME EditInv, NEW p \in Editors, doing[p] \notin {"once", "tx", "done"}, Tell(p, "refused", 0),
           UNCHANGED <<plans, table, columns, grid, undo, tokens, fields, queue, wrote, tally>>,
           typed' \in [Editors -> Seq(Typings)], \A e \in Editors \ {p} : typed'[e] = typed[e]
    PROVE  EditInv'
<1>1. EditTypes /\ Editing(p)  BY DEF EditInv
<1>2. /\ told' = [told EXCEPT ![p] = [kind |-> "refused", n |-> 0, by |-> doing[p]]]
      /\ doing' = [doing EXCEPT ![p] = "done"]
  BY DEF Tell
<1>3. EditTypes'
  <2>1. doing \in [Editors -> Stages]  BY <1>1 DEF EditTypes
  <2>2. told' \in [Editors -> [kind : Answers, n : Nat, by : Stages \cup {"none"}]]
    BY <1>1, <1>2, <2>1 DEF EditTypes, Answers
  <2>3. doing' \in [Editors -> Stages]  BY <1>2, <2>1 DEF Stages
  <2> QED  BY <1>1, <2>2, <2>3 DEF EditTypes
<1>4. \A e \in Editors \ {p} : Aside(e)
  BY <1>1, <1>2 DEF Aside, EditTypes
<1>5. /\ DOMAIN undo[p] = {} /\ undo[p] = Nothing /\ wrote[p] = {}
  BY <1>1, NothingOpen DEF Editing
<1>6. doing'[p] = "done" /\ told'[p].kind = "refused"
  BY <1>1, <1>2 DEF EditTypes
<1>7. Honest(p)'  BY <1>5, <1>6, RefusedIsHonest
<1>8. Editing(p)'
  <2>1. wrote'[p] = {} /\ DOMAIN undo'[p] = {}  BY <1>5
  <2> QED  BY <1>6, <1>7, <2>1 DEF Editing
<1> QED  BY <1>3, <1>4, <1>8, OwnStep

\* The form of a row.
LEMMA FieldTypes ==
    ASSUME EditTypes, NEW row \in Row, NEW copy \in BOOLEAN
    PROVE  /\ FieldsFor(row, copy) \in Forms
           /\ \A c \in DOMAIN FieldsFor(row, copy) : FieldsFor(row, copy)[c].null => ~ FieldsFor(row, copy)[c].binary
<1>1. columns \subseteq AllColumns  BY DEF EditTypes
<1>2. ASSUME NEW c \in columns
      PROVE  /\ Field(row, c, copy) \in [shown : Texts, null : BOOLEAN, binary : BOOLEAN]
             /\ Field(row, c, copy).null => ~ Field(row, c, copy).binary
  <2>1. row[c] \in Texts  BY <1>1 DEF Row
  <2>2. Shown(row[c]) \in Texts /\ "empty" \in Texts  BY <2>1, EditAssumption DEF Shown
  <2>3. CASE copy /\ c = "k" /\ table.keyed
    BY <2>2, <2>3 DEF Field
  <2>4. CASE ~ (copy /\ c = "k" /\ table.keyed)
    <3>1. CASE row[c] = "null"  BY <2>2, <2>4, <3>1 DEF Field
    <3>2. CASE row[c] # "null"  BY <2>2, <2>4, <3>2 DEF Field
    <3> QED  BY <3>1, <3>2
  <2> QED  BY <2>3, <2>4
<1>3. FieldsFor(row, copy) = [c \in columns |-> Field(row, c, copy)]  BY DEF FieldsFor
<1>4. FieldsFor(row, copy) \in [columns -> [shown : Texts, null : BOOLEAN, binary : BOOLEAN]]
  BY <1>2, <1>3
<1>5. FieldsFor(row, copy) \in Forms  BY <1>1, <1>4 DEF Forms
<1> QED  BY <1>2, <1>3, <1>5

\* The rows that a user may choose.
LEMMA ChosenTokens ==
    ASSUME EditTypes, NEW p \in Editors, Formed(p), NEW l \in Chosen(p) \cup {<<>>}
    PROVE  /\ l \in Seq({t \in Sets : KeyToken(t)}) /\ Len(l) \in Nat
           /\ Ordinary => \A i, j \in 1 .. Len(l) : i # j => l[i] # l[j]
<1> DEFINE T == {t \in Sets : KeyToken(t)}
<1>1. ToSet(tokens[p]) \subseteq T
  <2>1. tokens[p] \in Seq(Sets)  BY DEF EditTypes
  <2>2. DOMAIN tokens[p] = 1 .. Len(tokens[p]) /\ \A n \in 1 .. Len(tokens[p]) : tokens[p][n] \in Sets
    BY <2>1, LenProperties
  <2> QED  BY <2>2 DEF Formed, ToSet
<1>2. CASE l = <<>>
  <2>1. Len(l) = 0 /\ l \in Seq(T)  BY <1>2
  <2> QED  BY <2>1
<1>3. CASE l \in Chosen(p)
  <2>1. PICK n \in 1 .. MaxChosen : l \in [1 .. n -> ToSet(tokens[p])]  BY <1>3 DEF Chosen
  <2>2. \A i, j \in DOMAIN l : i # j => l[i] # l[j] \/ ~ Ordinary  BY <1>3 DEF Chosen
  <2>3. l \in [1 .. n -> T]  BY <1>1, <2>1
  <2>4. l \in Seq(T) /\ Len(l) = n
    <3>1. n \in Nat  BY <2>1, EditAssumption
    <3> QED  BY <2>3, <3>1
  <2>5. ASSUME Ordinary, NEW i \in 1 .. Len(l), NEW j \in 1 .. Len(l), i # j PROVE l[i] # l[j]
    BY <2>2, <2>4, <2>5
  <2> QED  BY <2>4, <2>5
<1> QED  BY <1>2, <1>3

LEMMA OpenFormStep ==
    ASSUME EditInv, NEW p \in Editors, NEW mode \in {"insert", "edit", "bulk", "copy"},
           NEW chosen \in Chosen(p) \cup {<<>>}, OpenForm(p, mode, chosen)
    PROVE  EditInv'
<1> DEFINE gone == {t \in ToSet(chosen) : ~ Resolvable(t) \/ Matched(p, t) = {}}
           T == {t \in Sets : KeyToken(t)}
<1>1. EditTypes /\ Editing(p)  BY DEF EditInv
<1>2. /\ doing[p] = "page" /\ (mode # "insert" => chosen # <<>>)
      /\ mode \in {"insert", "edit"} => Len(chosen) <= 1
      /\ UNCHANGED <<plans, table, columns, grid, undo, typed, queue, wrote, tally>>
  BY DEF OpenForm
<1>3. Formed(p)  BY <1>1, <1>2 DEF Editing
<1>4. /\ chosen \in Seq(T) /\ Len(chosen) \in Nat
      /\ Ordinary => \A i, j \in 1 .. Len(chosen) : i # j => chosen[i] # chosen[j]
  BY <1>1, <1>3, ChosenTokens
<1>5. PICK found : /\ found = Omit(chosen, gone)
                   /\ found \in Seq(T) /\ Len(found) <= Len(chosen)
                   /\ Ordinary => \A i, j \in 1 .. Len(found) : i # j => found[i] # found[j]
                   /\ chosen = <<>> => found = <<>>
  <2> DEFINE f == Omit(chosen, gone)
  <2>1. f \in Seq(T) /\ Len(f) <= Len(chosen)  BY <1>4, OmitProperties
  <2>2. Ordinary => \A i, j \in 1 .. Len(f) : i # j => f[i] # f[j]  BY <1>4, OmitDistinct
  <2>3. chosen = <<>> => f = <<>>  BY OmitEmpty
  <2> HIDE DEF f
  <2> QED  BY <2>1, <2>2, <2>3 DEF f
<1>6. CASE Refused \/ (chosen # <<>> /\ found = <<>>)
  <2>1. Tell(p, "refused", 0) /\ UNCHANGED <<tokens, fields>>  BY <1>5, <1>6 DEF OpenForm
  <2>2. typed' \in [Editors -> Seq(Typings)]  BY <1>1, <1>2 DEF EditTypes
  <2> QED  BY <1>2, <2>1, <2>2, RefuseStep
<1>7. CASE ~ Refused /\ (chosen = <<>> \/ found # <<>>)
  <2>1. /\ doing' = [doing EXCEPT ![p] = mode] /\ UNCHANGED told
        /\ tokens' = [tokens EXCEPT ![p] = found]
        /\ \/ chosen = <<>> /\ fields' = [fields EXCEPT ![p] = <<BlankFields>>]
           \/ /\ chosen # <<>>
              /\ \E from \in [1 .. Len(found) -> RowIds] :
                    fields' = [fields EXCEPT ![p] =
                       [n \in 1 .. Len(found) |-> FieldsFor(Seen(p, from[n]), mode \in {"insert", "copy"})]]
    BY <1>5, <1>7 DEF OpenForm
  <2>2. PICK fs \in Seq(Forms) :
           /\ fields' = [fields EXCEPT ![p] = fs]
           /\ Len(fs) = IF chosen = <<>> THEN 1 ELSE Len(found)
           /\ \A n \in 1 .. Len(fs) : \A c \in DOMAIN fs[n] : fs[n][c].null => ~ fs[n][c].binary
    <3>1. CASE chosen = <<>>
      <4> DEFINE fs == <<BlankFields>>
      <4>1. BlankFields \in Forms /\ \A c \in DOMAIN BlankFields : ~ BlankFields[c].null
        <5>1. columns \subseteq AllColumns /\ "empty" \in Texts  BY <1>1, EditAssumption DEF EditTypes
        <5>2. BlankFields \in [columns -> [shown : Texts, null : BOOLEAN, binary : BOOLEAN]]
          BY <5>1 DEF BlankFields
        <5>3. \A c \in DOMAIN BlankFields : ~ BlankFields[c].null  BY DEF BlankFields
        <5> QED  BY <5>1, <5>2, <5>3 DEF Forms
      <4>2. \A x : Len(<<x>>) = 1 /\ <<x>>[1] = x  OBVIOUS
      <4>3. fs \in Seq(Forms)  BY <4>1
      <4>4. \A n \in 1 .. Len(fs) : n = 1  BY <4>2
      <4>5. fields' = [fields EXCEPT ![p] = fs]  BY <2>1, <3>1
      <4>6. Len(fs) = 1 /\ fs[1] = BlankFields  BY <4>2
      <4> HIDE DEF fs
      <4> QED  BY <3>1, <4>1, <4>3, <4>4, <4>5, <4>6
    <3>2. CASE chosen # <<>>
      <4>1. PICK from \in [1 .. Len(found) -> RowIds] :
              fields' = [fields EXCEPT ![p] =
                 [n \in 1 .. Len(found) |-> FieldsFor(Seen(p, from[n]), mode \in {"insert", "copy"})]]
        BY <2>1, <3>2
      <4> DEFINE F(n) == FieldsFor(Seen(p, from[n]), mode \in {"insert", "copy"})
                 fs == [n \in 1 .. Len(found) |-> F(n)]
      <4>2. \A n \in 1 .. Len(found) : F(n) \in Forms /\ \A c \in DOMAIN F(n) : F(n)[c].null => ~ F(n)[c].binary
        <5> SUFFICES ASSUME NEW n \in 1 .. Len(found)
                     PROVE  F(n) \in Forms /\ \A c \in DOMAIN F(n) : F(n)[c].null => ~ F(n)[c].binary
          OBVIOUS
        <5>1. Seen(p, from[n]) \in Row  BY <1>1, RowTypes
        <5>2. (mode \in {"insert", "copy"}) \in BOOLEAN  OBVIOUS
        <5> QED  BY <1>1, <5>1, <5>2, FieldTypes
      <4>3. fields' = [fields EXCEPT ![p] = fs]  BY <4>1
      <4> HIDE DEF F
      <4>4. Len(found) \in Nat  BY <1>5, LenProperties
      <4>5. fs \in Seq(Forms) /\ Len(fs) = Len(found) /\ \A n \in 1 .. Len(found) : fs[n] = F(n)
        BY <4>2, <4>4
      <4> HIDE DEF fs
      <4> QED  BY <3>2, <4>2, <4>3, <4>5
    <3> QED  BY <3>1, <3>2
  <2>3. EditTypes'
    <3>1. found \in Seq(Sets)
      <4>1. T \subseteq Sets  OBVIOUS
      <4> QED  BY <1>5, <4>1
    <3>2. tokens' \in [Editors -> Seq(Sets)]  BY <1>1, <2>1, <3>1 DEF EditTypes
    <3>3. fields' \in [Editors -> Seq(Forms)]  BY <1>1, <2>2 DEF EditTypes
    <3>4. doing' \in [Editors -> Stages]  BY <1>1, <2>1 DEF EditTypes, Stages
    <3> QED  BY <1>1, <1>2, <2>1, <3>2, <3>3, <3>4 DEF EditTypes
  <2>4. \A e \in Editors \ {p} : Aside(e)
    BY <1>1, <1>2, <2>1, <2>2 DEF Aside, EditTypes
  <2>5. doing'[p] = mode /\ tokens'[p] = found /\ fields'[p] = fs
    BY <1>1, <2>1, <2>2 DEF EditTypes
  <2>6. Formed(p)'
    <3>1. \A t : KeyToken(t) => KeyToken(t)'  BY <1>2 DEF KeyToken
    <3>2. \A n \in 1 .. Len(found) : KeyToken(found[n])
      <4>1. \A n \in 1 .. Len(found) : found[n] \in T  BY <1>5
      <4> QED  BY <4>1
    <3>3. \A n \in 1 .. Len(tokens[p]') : KeyToken(tokens[p][n])'  BY <2>5, <3>1, <3>2
    <3>4. Ordinary' = Ordinary  BY <1>2 DEF Ordinary
    <3>5. mode \in {"insert", "edit"} => Len(fs) <= 1  BY <1>2, <1>4, <1>5, <2>2
    <3>6. mode \in {"edit", "bulk"} => Len(fs) = Len(found)  BY <1>2, <2>2
    <3> QED  BY <1>5, <2>2, <2>5, <3>3, <3>4, <3>5, <3>6 DEF Formed
  <2>7. Editing(p)'
    <3>1. /\ DOMAIN undo[p] = {} /\ wrote[p] = {} /\ queue[p] = <<>> /\ tally[p] = 0 /\ typed[p] = <<>>
      BY <1>1, <1>2 DEF Editing
    <3>2. table.kind = "table"  BY <1>7 DEF Refused
    <3> QED  BY <1>2, <2>5, <2>6, <3>1, <3>2 DEF Editing
  <2> QED  BY <1>2, <2>3, <2>4, <2>7, OwnStep
<1> QED  BY <1>6, <1>7

\* A request is accepted.
LEMMA AcceptStep ==
    ASSUME EditInv, EditTypes', NEW p \in Editors, UNCHANGED <<table, columns, grid, undo, wrote, tally>>,
           doing[p] \notin {"once", "tx", "done"}, \A e \in Editors \ {p} : Aside(e),
           ~ Refused, doing'[p] \in {"once", "tx"}, NEW op \in Ops,
           \A m \in 1 .. Len(queue'[p]) :
              /\ queue'[p][m].op = op
              /\ op = "update" => AsTyped(p, queue[p][m].n, queue[p][m].set)'
              /\ op # "insert" => KeyToken(queue'[p][m].token),
           \A m, n \in 1 .. Len(queue'[p]) : m # n =>
              /\ queue'[p][m].n # queue'[p][n].n
              /\ op # "insert" /\ Ordinary => queue'[p][m].token # queue'[p][n].token,
           doing'[p] = "once" => Len(queue'[p]) <= 1
    PROVE  EditInv'
<1>1. EditTypes /\ Editing(p)  BY DEF EditInv
<1>2. /\ DOMAIN undo[p] = {} /\ wrote[p] = {} /\ tally[p] = 0  BY <1>1 DEF Editing
<1>3. Running(p, op)'
  <2>1. \A t : KeyToken(t)' = KeyToken(t)  BY DEF KeyToken
  <2>2. Ordinary' = Ordinary  BY DEF Ordinary
  <2>3. wrote'[p] = {} /\ tally'[p] = 0 /\ IsFiniteSet({}) /\ Cardinality({}) = 0  BY <1>2, FS_EmptySet
  <2>4. \A m \in 1 .. Len(queue'[p]) : op # "insert" => KeyToken(queue[p][m].token)'  BY DEF KeyToken
  <2> QED  BY <2>2, <2>3, <2>4 DEF Running
<1>4. Editing(p)'
  <2>1. table.kind = "table"  BY DEF Refused
  <2> QED  BY <1>2, <1>3, <2>1 DEF Editing
<1> QED  BY <1>4, OwnStep

LEMMA DeleteStep ==
    ASSUME EditInv, NEW p \in Editors, NEW chosen \in Chosen(p), Delete(p, chosen)
    PROVE  EditInv'
<1> DEFINE gone == {t \in ToSet(chosen) : ~ Resolvable(t)}
           T == {t \in Sets : KeyToken(t)}
<1>1. EditTypes /\ Editing(p)  BY DEF EditInv
<1>2. /\ doing[p] = "page"
      /\ UNCHANGED <<plans, table, columns, grid, undo, fields, typed, wrote, tally>>
  BY DEF Delete
<1>3. Formed(p)  BY <1>1, <1>2 DEF Editing
<1>4. chosen \in Seq(T) /\ (Ordinary => \A i, j \in 1 .. Len(chosen) : i # j => chosen[i] # chosen[j])
  BY <1>1, <1>3, ChosenTokens
<1>5. PICK good : /\ good = Omit(chosen, gone)
                  /\ good \in Seq(T)
                  /\ Ordinary => \A i, j \in 1 .. Len(good) : i # j => good[i] # good[j]
  <2> DEFINE f == Omit(chosen, gone)
  <2>1. f \in Seq(T)  BY <1>4, OmitProperties
  <2>2. Ordinary => \A i, j \in 1 .. Len(f) : i # j => f[i] # f[j]  BY <1>4, OmitDistinct
  <2> HIDE DEF f
  <2> QED  BY <2>1, <2>2 DEF f
<1>6. CASE Refused
  <2>1. Tell(p, "refused", 0) /\ UNCHANGED <<queue, tokens>>  BY <1>6 DEF Delete
  <2>2. typed' \in [Editors -> Seq(Typings)]  BY <1>1, <1>2 DEF EditTypes
  <2> QED  BY <1>2, <2>1, <2>2, RefuseStep
<1>7. CASE ~ Refused
  <2> DEFINE ask(n) == [op |-> "delete", n |-> n, set |-> <<>>, token |-> good[n]]
             q == [n \in 1 .. Len(good) |-> ask(n)]
  <2>1. /\ queue' = [queue EXCEPT ![p] = q] /\ tokens' = [tokens EXCEPT ![p] = good]
        /\ doing' = [doing EXCEPT ![p] = "tx"] /\ UNCHANGED told
    BY <1>5, <1>7 DEF Delete
  <2>2. Len(good) \in Nat /\ \A n \in 1 .. Len(good) : good[n] \in Sets /\ KeyToken(good[n])
    <3>1. Len(good) \in Nat  BY <1>5, LenProperties
    <3>2. \A n \in 1 .. Len(good) : good[n] \in T  BY <1>5
    <3> QED  BY <3>1, <3>2
  <2>3. <<>> \in Sets
    <3>1. <<>> \in [{} -> Texts]  OBVIOUS
    <3> QED  BY <3>1 DEF Sets
  <2>4. \A n \in 1 .. Len(good) : ask(n) \in Asks /\ ask(n).op = "delete" /\ ask(n).n = n /\ ask(n).token = good[n]
    BY <2>2, <2>3 DEF Asks, Ops
  <2> HIDE DEF ask
  <2>5. q \in Seq(Asks) /\ Len(q) = Len(good) /\ \A n \in 1 .. Len(good) : q[n] = ask(n)
    BY <2>2, <2>4
  <2> HIDE DEF q
  <2>6. EditTypes'
    <3>1. good \in Seq(Sets)
      <4>1. T \subseteq Sets  OBVIOUS
      <4> QED  BY <1>5, <4>1
    <3>2. tokens' \in [Editors -> Seq(Sets)]  BY <1>1, <2>1, <3>1 DEF EditTypes
    <3>3. queue' \in [Editors -> Seq(Asks)]  BY <1>1, <2>1, <2>5 DEF EditTypes
    <3>4. doing' \in [Editors -> Stages]  BY <1>1, <2>1 DEF EditTypes, Stages
    <3> QED  BY <1>1, <1>2, <2>1, <3>2, <3>3, <3>4 DEF EditTypes
  <2>7. \A e \in Editors \ {p} : Aside(e)
    BY <1>1, <1>2, <2>1 DEF Aside, EditTypes
  <2>8. doing'[p] = "tx" /\ queue'[p] = q
    BY <1>1, <2>1 DEF EditTypes
  <2>9. \A m \in 1 .. Len(q) : q[m].op = "delete" /\ KeyToken(q[m].token) /\ q[m].n = m /\ q[m].token = good[m]
    BY <2>2, <2>4, <2>5
  <2>10. \A m, n \in 1 .. Len(q) : m # n => q[m].n # q[n].n /\ (Ordinary => q[m].token # q[n].token)
    BY <1>5, <2>5, <2>9
  <2> QED  BY <1>2, <1>7, <2>6, <2>7, <2>8, <2>9, <2>10, AcceptStep DEF Ops
<1> QED  BY <1>6, <1>7

LEMMA SubmitStep ==
    ASSUME EditInv, NEW p \in Editors, NEW ts \in UNION {[1 .. n -> Typings] : n \in 1 .. MaxChosen}, Submit(p, ts)
    PROVE  EditInv'
<1> DEFINE insert == doing[p] # "edit" /\ doing[p] # "bulk"
           Set(n) == ReadRowValues(fields[p][n], ts[n], insert)
           sets == [n \in 1 .. Len(ts) |-> Set(n)]
           idx == [n \in 1 .. Len(ts) |-> n]
           gone == {n \in 1 .. Len(ts) : DOMAIN sets[n] = {}}
           op == IF insert THEN "insert" ELSE "update"
           ask(n) == [op |-> IF insert THEN "insert" ELSE "update", n |-> n, set |-> sets[n],
                      token |-> IF insert THEN <<>> ELSE tokens[p][n]]
<1>1. EditTypes /\ Editing(p)  BY DEF EditInv
<1>2. /\ doing[p] \in {"insert", "edit", "bulk", "copy"} /\ Len(ts) = Len(fields[p])
      /\ \A n \in 1 .. Len(ts) : \A c \in DOMAIN fields[p][n] :
            fields[p][n][c].binary => ts[n][c] \in {"keep", "null"}
      /\ typed' = [typed EXCEPT ![p] = ts]
      /\ UNCHANGED <<plans, table, columns, grid, undo, tokens, fields, wrote, tally>>
  BY DEF Submit
<1>3. Formed(p)  BY <1>1, <1>2 DEF Editing
<1>4. Len(ts) \in Nat /\ ts \in Seq(Typings) /\ \A n \in 1 .. Len(ts) : ts[n] \in [AllColumns -> Texts]
  <2>1. PICK k \in 1 .. MaxChosen : ts \in [1 .. k -> Typings]  OBVIOUS
  <2>2. k \in Nat  BY <2>1, EditAssumption
  <2>3. ts \in Seq(Typings) /\ Len(ts) = k  BY <2>1, <2>2
  <2>4. \A n \in 1 .. k : ts[n] \in Typings  BY <2>1
  <2> QED  BY <2>2, <2>3, <2>4, EditAssumption
<1>5. \A n \in 1 .. Len(ts) : fields[p][n] \in Forms
  <2>1. fields[p] \in Seq(Forms)  BY <1>1 DEF EditTypes
  <2> QED  BY <1>2, <2>1
<1>6. ASSUME NEW n \in 1 .. Len(ts)
      PROVE  /\ Set(n) \in Sets
             /\ ~ insert => \A c \in DOMAIN Set(n) :
                   /\ ts[n][c] # "keep"
                   /\ Set(n)[c] = IF ts[n][c] = "null" THEN "null" ELSE Sent(ts[n][c])
  <2>1. \A c \in DOMAIN fields[p][n] : fields[p][n][c].null => ~ fields[p][n][c].binary
    BY <1>2, <1>3 DEF Formed
  <2>2. insert \in BOOLEAN /\ fields[p][n] \in Forms /\ ts[n] \in [AllColumns -> Texts]  BY <1>4, <1>5
  <2> HIDE DEF insert
  <2> QED  BY <2>1, <2>2, ReadAsTyped
<1>7. PICK dirty \in Seq(1 .. Len(ts)) :
        /\ dirty = Omit(idx, gone)
        /\ ToSet(dirty) = (1 .. Len(ts)) \ gone
        /\ Len(dirty) <= Len(ts) /\ Len(dirty) \in Nat
        /\ \A i \in 1 .. Len(dirty) : dirty[i] \in 1 .. Len(ts)
        /\ \A i, j \in 1 .. Len(dirty) : i # j => dirty[i] # dirty[j]
  <2> DEFINE f == Omit(idx, gone)
  <2>1. idx \in Seq(1 .. Len(ts)) /\ Len(idx) = Len(ts) /\ \A i \in 1 .. Len(ts) : idx[i] = i
    BY <1>4
  <2>2. ToSet(idx) = 1 .. Len(ts)
    <3>1. DOMAIN idx = 1 .. Len(ts)  OBVIOUS
    <3> QED  BY <2>1, <3>1 DEF ToSet
  <2> HIDE DEF idx, gone
  <2>3. f \in Seq(1 .. Len(ts)) /\ ToSet(f) = ToSet(idx) \ gone /\ Len(f) <= Len(idx)
    BY <2>1, OmitProperties
  <2>4. \A i, j \in 1 .. Len(idx) : i # j => idx[i] # idx[j]  BY <2>1
  <2>5. \A i, j \in 1 .. Len(f) : i # j => f[i] # f[j]  BY <2>1, <2>4, OmitDistinct
  <2> HIDE DEF f
  <2>6. Len(f) \in Nat /\ \A i \in 1 .. Len(f) : f[i] \in 1 .. Len(ts)  BY <2>3
  <2> QED  BY <2>1, <2>2, <2>3, <2>5, <2>6 DEF f
<1>8. \/ Refused \/ (~ insert /\ \E n \in ToSet(dirty) : ~ Resolvable(tokens[p][n]))
      \/ /\ ~ Refused /\ dirty = <<>>
      \/ /\ ~ Refused /\ dirty # <<>>
  OBVIOUS
<1>9. CASE Refused \/ (~ insert /\ \E n \in ToSet(dirty) : ~ Resolvable(tokens[p][n]))
  <2>1. Tell(p, "refused", 0) /\ UNCHANGED queue  BY <1>7, <1>9 DEF Submit
  <2>2. typed' \in [Editors -> Seq(Typings)] /\ \A e \in Editors \ {p} : typed'[e] = typed[e]
    BY <1>1, <1>2, <1>4 DEF EditTypes
  <2> QED  BY <1>2, <2>1, <2>2, RefuseStep
<1>10. CASE ~ (Refused \/ (~ insert /\ \E n \in ToSet(dirty) : ~ Resolvable(tokens[p][n]))) /\ dirty = <<>>
  <2>1. Tell(p, "info", 0) /\ UNCHANGED queue  BY <1>7, <1>10 DEF Submit
  <2>2. /\ told' = [told EXCEPT ![p] = [kind |-> "info", n |-> 0, by |-> doing[p]]]
        /\ doing' = [doing EXCEPT ![p] = "done"]
    BY <2>1 DEF Tell
  <2>3. EditTypes'
    <3>1. doing \in [Editors -> Stages]  BY <1>1 DEF EditTypes
    <3>2. told' \in [Editors -> [kind : Answers, n : Nat, by : Stages \cup {"none"}]]
      BY <1>1, <2>2, <3>1 DEF EditTypes, Answers
    <3>3. doing' \in [Editors -> Stages]  BY <2>2, <3>1 DEF Stages
    <3>4. typed' \in [Editors -> Seq(Typings)]  BY <1>1, <1>2, <1>4 DEF EditTypes
    <3> QED  BY <1>1, <1>2, <2>1, <3>2, <3>3, <3>4 DEF EditTypes
  <2>4. \A e \in Editors \ {p} : Aside(e)
    BY <1>1, <1>2, <2>1, <2>2 DEF Aside, EditTypes
  <2>5. DOMAIN undo[p] = {} /\ undo[p] = Nothing /\ wrote[p] = {}
    BY <1>1, <1>2, NothingOpen DEF Editing
  <2>6. doing'[p] = "done" /\ told'[p].kind = "info" /\ typed'[p] = ts /\ fields'[p] = fields[p]
    BY <1>1, <1>2, <2>2 DEF EditTypes
  <2>7. \A n \in DOMAIN ts : \A c \in DOMAIN fields[p][n] \ {"g"} :
           \/ ts[n][c] \in {"keep", "empty"} \/ c \notin columns
           \/ ts[n][c] = "null" /\ fields[p][n][c].null
           \/ NormalizeNewlines(ts[n][c]) = NormalizeNewlines(fields[p][n][c].shown)
    <3> SUFFICES ASSUME NEW n \in DOMAIN ts, NEW c \in DOMAIN fields[p][n], c # "g"
                 PROVE  \/ ts[n][c] \in {"keep", "empty"} \/ c \notin columns
                        \/ ts[n][c] = "null" /\ fields[p][n][c].null
                        \/ NormalizeNewlines(ts[n][c]) = NormalizeNewlines(fields[p][n][c].shown)
      OBVIOUS
    <3>1. n \in 1 .. Len(ts)  BY <1>4, LenProperties
    <3>2. n \in gone
      <4>1. ToSet(dirty) = {}
        <5>1. \A k : k \notin DOMAIN (<<>>)  OBVIOUS
        <5> QED  BY <1>10, <5>1 DEF ToSet
      <4> QED  BY <1>7, <3>1, <4>1
    <3>3. DOMAIN Set(n) = {}  BY <3>1, <3>2
    <3>4. ~ Writes(fields[p][n][c], ts[n][c], c, insert)
      <4>1. DOMAIN Set(n) = {d \in DOMAIN fields[p][n] : Writes(fields[p][n][d], ts[n][d], d, insert)}
        BY DEF ReadRowValues
      <4> QED  BY <3>3, <4>1
    <3>5. fields[p][n][c] \in [shown : Texts, null : BOOLEAN, binary : BOOLEAN] /\ c \in AllColumns
      <4>1. PICK D \in SUBSET AllColumns : fields[p][n] \in [D -> [shown : Texts, null : BOOLEAN, binary : BOOLEAN]]
        BY <1>5, <3>1 DEF Forms
      <4> QED  BY <4>1
    <3>6. ts[n][c] \in Texts  BY <1>4, <3>1, <3>5
    <3>7. fields[p][n][c].binary => ts[n][c] \in {"keep", "null"}  BY <1>2, <3>1
    <3>8. insert \in BOOLEAN  OBVIOUS
    <3> HIDE DEF insert
    <3> QED  BY <3>4, <3>5, <3>6, <3>7, <3>8, NothingTyped
  <2>8. Honest(p)'
    <3>1. wrote'[p] = {} /\ undo'[p] = Nothing /\ columns' = columns  BY <1>2, <2>5
    <3> QED  BY <2>6, <2>7, <3>1 DEF Honest, Several
  <2>9. Editing(p)'
    <3>1. wrote'[p] = {} /\ DOMAIN undo'[p] = {}  BY <1>2, <2>5
    <3> QED  BY <2>6, <2>8, <3>1 DEF Editing
  <2> QED  BY <1>2, <2>3, <2>4, <2>9, OwnStep
<1>11. CASE ~ (Refused \/ (~ insert /\ \E n \in ToSet(dirty) : ~ Resolvable(tokens[p][n]))) /\ dirty # <<>>
  <2> DEFINE q == [m \in 1 .. Len(dirty) |-> ask(dirty[m])]
  <2>1. /\ queue' = [queue EXCEPT ![p] = q] /\ UNCHANGED told
        /\ doing' = [doing EXCEPT ![p] = IF doing[p] \in {"insert", "edit"} THEN "once" ELSE "tx"]
    BY <1>7, <1>11 DEF Submit
  <2>2. Len(dirty) \in Nat /\ \A m \in 1 .. Len(dirty) : dirty[m] \in 1 .. Len(ts)
    BY <1>7
  <2>3. <<>> \in Sets
    <3>1. <<>> \in [{} -> Texts]  OBVIOUS
    <3> QED  BY <3>1 DEF Sets
  <2>4. ~ insert => /\ Len(tokens[p]) = Len(ts)
                    /\ \A n \in 1 .. Len(ts) : tokens[p][n] \in Sets /\ KeyToken(tokens[p][n])
                    /\ Ordinary => \A m, n \in 1 .. Len(ts) : m # n => tokens[p][m] # tokens[p][n]
    <3>1. tokens[p] \in Seq(Sets)  BY <1>1 DEF EditTypes
    <3> QED  BY <1>2, <1>3, <3>1 DEF Formed
  <2>5. op \in Ops  BY DEF Ops
  <2>6. \A n \in 1 .. Len(ts) :
           /\ ask(n) \in Asks /\ ask(n).op = op /\ ask(n).n = n /\ ask(n).set = Set(n)
           /\ ~ insert => ask(n).token = tokens[p][n]
    <3> SUFFICES ASSUME NEW n \in 1 .. Len(ts)
                 PROVE  /\ ask(n) \in Asks /\ ask(n).op = op /\ ask(n).n = n /\ ask(n).set = Set(n)
                        /\ ~ insert => ask(n).token = tokens[p][n]
      OBVIOUS
    <3>1. sets[n] = Set(n) /\ Set(n) \in Sets /\ n \in Nat  BY <1>4, <1>6
    <3> HIDE DEF Set, sets
    <3>2. CASE insert  BY <2>3, <3>1, <3>2 DEF Asks, Ops
    <3>3. CASE ~ insert  BY <2>4, <3>1, <3>3 DEF Asks, Ops
    <3> QED  BY <3>2, <3>3
  <2>7. \A c : op = c => (c = "update" <=> ~ insert) /\ (c # "insert" <=> ~ insert)  OBVIOUS
  <2> HIDE DEF ask, op
  <2>8. q \in Seq(Asks) /\ Len(q) = Len(dirty) /\ \A m \in 1 .. Len(dirty) : q[m] = ask(dirty[m])
    BY <2>2, <2>6
  <2> HIDE DEF q
  <2>9. EditTypes'
    <3>1. queue' \in [Editors -> Seq(Asks)]  BY <1>1, <2>1, <2>8 DEF EditTypes
    <3>2. doing' \in [Editors -> Stages]  BY <1>1, <2>1 DEF EditTypes, Stages
    <3>3. typed' \in [Editors -> Seq(Typings)]  BY <1>1, <1>2, <1>4 DEF EditTypes
    <3> QED  BY <1>1, <1>2, <2>1, <3>1, <3>2, <3>3 DEF EditTypes
  <2>10. \A e \in Editors \ {p} : Aside(e)
    BY <1>1, <1>2, <2>1 DEF Aside, EditTypes
  <2>11. /\ doing'[p] \in {"once", "tx"} /\ queue'[p] = q /\ typed'[p] = ts
         /\ doing'[p] = "once" => Len(q) <= 1
    <3>1. /\ doing'[p] = IF doing[p] \in {"insert", "edit"} THEN "once" ELSE "tx"
          /\ queue'[p] = q /\ typed'[p] = ts
      BY <1>1, <1>2, <2>1 DEF EditTypes
    <3>2. doing[p] \in {"insert", "edit"} => Len(fields[p]) <= 1  BY <1>3 DEF Formed
    <3>3. doing'[p] \in {"once", "tx"}  BY <3>1
    <3>4. doing'[p] = "once" => doing[p] \in {"insert", "edit"}  BY <3>1
    <3>5. Len(q) <= Len(fields[p]) /\ Len(q) \in Nat /\ Len(fields[p]) \in Nat  BY <1>2, <1>4, <1>7, <2>2, <2>8
    <3> QED  BY <3>1, <3>2, <3>3, <3>4, <3>5
  <2>12. \A m \in 1 .. Len(q) :
            /\ q[m].op = op /\ q[m].n = dirty[m] /\ q[m].set = Set(dirty[m])
            /\ op # "insert" => q[m].token = tokens[p][dirty[m]]
    BY <2>2, <2>6, <2>7, <2>8
  <2> HIDE DEF Set, insert
  <2>13. ASSUME NEW m \in 1 .. Len(q)
         PROVE  /\ q[m].op = op
                /\ op = "update" => AsTyped(p, queue[p][m].n, queue[p][m].set)'
                /\ op # "insert" => KeyToken(q[m].token)
    <3>1. dirty[m] \in 1 .. Len(ts)  BY <2>2, <2>8
    <3>2. op = "update" => ~ insert  BY <2>7
    <3>3. op # "insert" => ~ insert  BY <2>7
    <3>4. op = "update" => AsTyped(p, queue[p][m].n, queue[p][m].set)'
      <4> SUFFICES ASSUME op = "update" PROVE AsTyped(p, queue[p][m].n, queue[p][m].set)'  OBVIOUS
      <4>0. PICK n \in 1 .. Len(ts), v \in Sets : n = dirty[m] /\ v = Set(dirty[m]) /\ q[m].n = n /\ q[m].set = v
        BY <1>6, <2>12, <3>1
      <4>1. \A c \in DOMAIN v : ts[n][c] # "keep" /\ v[c] = IF ts[n][c] = "null" THEN "null" ELSE Sent(ts[n][c])
        BY <1>6, <3>2, <4>0
      <4>2. queue'[p][m].n = n /\ queue'[p][m].set = v  BY <2>11, <4>0
      <4>3. n \in DOMAIN ts  BY <1>4, LenProperties
      <4> QED  BY <2>11, <4>1, <4>2, <4>3 DEF AsTyped
    <3> QED  BY <2>4, <2>12, <3>1, <3>3, <3>4
  <2>14. \A m, n \in 1 .. Len(q) : m # n =>
            /\ q[m].n # q[n].n
            /\ op # "insert" /\ Ordinary => q[m].token # q[n].token
    <3> SUFFICES ASSUME NEW m \in 1 .. Len(q), NEW n \in 1 .. Len(q), m # n
                 PROVE  /\ q[m].n # q[n].n
                        /\ op # "insert" /\ Ordinary => q[m].token # q[n].token
      OBVIOUS
    <3>1. dirty[m] # dirty[n] /\ dirty[m] \in 1 .. Len(ts) /\ dirty[n] \in 1 .. Len(ts)  BY <1>7, <2>2, <2>8
    <3>2. op # "insert" => ~ insert  BY <2>7
    <3>3. op # "insert" /\ Ordinary => tokens[p][dirty[m]] # tokens[p][dirty[n]]  BY <2>4, <3>1, <3>2
    <3>4. /\ q[m].n = dirty[m] /\ q[n].n = dirty[n]
          /\ op # "insert" => q[m].token = tokens[p][dirty[m]] /\ q[n].token = tokens[p][dirty[n]]
      BY <2>12
    <3> QED  BY <3>1, <3>3, <3>4
  <2>15. \A m \in 1 .. Len(queue'[p]) :
            /\ queue'[p][m].op = op
            /\ op = "update" => AsTyped(p, queue[p][m].n, queue[p][m].set)'
            /\ op # "insert" => KeyToken(queue'[p][m].token)
    BY <2>11, <2>13
  <2>16. \A m, n \in 1 .. Len(queue'[p]) : m # n =>
            /\ queue'[p][m].n # queue'[p][n].n
            /\ op # "insert" /\ Ordinary => queue'[p][m].token # queue'[p][n].token
    BY <2>11, <2>14
  <2>17. /\ ~ Refused /\ doing[p] \notin {"once", "tx", "done"} /\ doing'[p] \in {"once", "tx"}
         /\ UNCHANGED <<table, columns, grid, undo, wrote, tally>>
         /\ doing'[p] = "once" => Len(queue'[p]) <= 1
    BY <1>2, <1>11, <2>11
  <2> QED  BY ONLY EditInv, p \in Editors, <2>5, <2>9, <2>10, <2>15, <2>16, <2>17, AcceptStep
<1> QED  BY <1>9, <1>10, <1>11

\* A row under an update.
Updated(row, set) == [c \in AllColumns |-> IF c \in DOMAIN set THEN set[c] ELSE row[c]]

\* What a statement does to the rows it has found.
Applied(s, effect) ==
    /\ DOMAIN effect \subseteq RowIds /\ \A i \in DOMAIN effect : effect[i] \in Row
    /\ s.op = "insert" => \E j : DOMAIN effect = {j}
    /\ s.op # "insert" => \A i \in DOMAIN effect : Matches(grid[i], s.token)
    /\ s.op = "delete" => \A i \in DOMAIN effect : effect[i] = NoRow
    /\ s.op = "update" => \A i \in DOMAIN effect : effect[i] = Updated(grid[i], s.set)

\* What a statement that does not wait does to rows.
LEMMA EffectRows ==
    ASSUME EditTypes, NEW p \in Editors, NEW s \in Asks, s.op # "insert" => ~ Waits(p, s.token),
           NEW effect \in Effects(p, s)
    PROVE  Applied(s, effect) /\ \A i \in DOMAIN effect : \A o \in Editors \ {p} : i \notin DOMAIN undo[o]
<1>1. s.op \in Ops /\ s.set \in Sets  BY DEF Asks
<1>2. \A c \in DOMAIN s.set : s.set[c] \in Texts
  <2>1. PICK C \in SUBSET AllColumns : s.set \in [C -> Texts]  BY <1>1 DEF Sets
  <2> QED  BY <2>1
<1>3. /\ \A i \in RowIds : grid[i] \in Row /\ NoRow \in Row  BY RowTypes
<1>4. CASE s.op = "insert"
  <2>1. PICK j \in RowIds :
           /\ effect = [i \in {j} |-> NewRow(s.set, CHOOSE k \in Numbers : TRUE)]
           /\ Numbers # {} /\ \A o \in Editors : j \notin DOMAIN undo[o]
    BY <1>4 DEF Effects
  <2>2. (CHOOSE k \in Numbers : TRUE) \in Texts
    <3>1. (CHOOSE k \in Numbers : TRUE) \in Numbers  BY <2>1
    <3> QED  BY <3>1, EditAssumption DEF Numbers
  <2>3. NewRow(s.set, CHOOSE k \in Numbers : TRUE) \in Row
    <3>1. PICK key \in Texts : key = (CHOOSE k \in Numbers : TRUE)  BY <2>2
    <3> DEFINE V(c) == IF c \in DOMAIN s.set THEN s.set[c] ELSE IF c = "k" /\ table.keyed THEN key
                       ELSE IF c = "g" THEN "gen" ELSE "null"
    <3>2. \A c \in AllColumns : V(c) \in Texts
      <4> SUFFICES ASSUME NEW c \in AllColumns PROVE V(c) \in Texts  OBVIOUS
      <4>1. (c \in DOMAIN s.set /\ V(c) = s.set[c]) \/ V(c) = key \/ V(c) = "gen" \/ V(c) = "null"  OBVIOUS
      <4> QED  BY <1>2, <4>1, EditAssumption
    <3>3. NewRow(s.set, CHOOSE k \in Numbers : TRUE) = [c \in AllColumns |-> V(c)]  BY <3>1 DEF NewRow
    <3> HIDE DEF V
    <3>4. [c \in AllColumns |-> V(c)] \in Row  BY <3>2 DEF Row
    <3> QED  BY <3>3, <3>4
  <2>4. DOMAIN effect = {j} /\ effect[j] \in Row  BY <2>1, <2>3
  <2> QED  BY <1>4, <2>1, <2>4 DEF Applied
<1>5. CASE s.op # "insert"
  <2> DEFINE W(i, c) == IF c \in DOMAIN s.set THEN s.set[c] ELSE grid[i][c]
             V(i) == IF s.op = "delete" THEN NoRow ELSE [c \in AllColumns |-> W(i, c)]
  <2>1. effect = [i \in Matched(p, s.token) |-> V(i)]  BY <1>5 DEF Effects
  <2>2. \A i \in Matched(p, s.token) :
           /\ i \in RowIds /\ Matches(grid[i], s.token)
           /\ \A o \in Editors \ {p} : i \notin DOMAIN undo[o]
    BY <1>5, FoundRows
  <2>3. DOMAIN effect = Matched(p, s.token) /\ \A i \in DOMAIN effect : effect[i] = V(i)  BY <2>1
  <2>4. \A i \in RowIds : V(i) \in Row
    <3> SUFFICES ASSUME NEW i \in RowIds PROVE V(i) \in Row  OBVIOUS
    <3>1. \A c \in AllColumns : W(i, c) \in Texts
      <4>1. \A c \in AllColumns : grid[i][c] \in Texts  BY <1>3 DEF Row
      <4> QED  BY <1>2, <4>1
    <3> HIDE DEF W
    <3>2. [c \in AllColumns |-> W(i, c)] \in Row  BY <3>1 DEF Row
    <3> QED  BY <1>3, <3>2
  <2>5. /\ s.op = "delete" => \A i \in DOMAIN effect : V(i) = NoRow
        /\ s.op = "update" => \A i \in DOMAIN effect : V(i) = Updated(grid[i], s.set)
    BY DEF Updated
  <2>6. s.op \in {"delete", "update"}  BY <1>1, <1>5 DEF Ops
  <2> HIDE DEF V
  <2>7. /\ DOMAIN effect \subseteq RowIds /\ \A i \in DOMAIN effect : effect[i] \in Row
        /\ \A i \in DOMAIN effect : \A o \in Editors \ {p} : i \notin DOMAIN undo[o]
        /\ \A i \in DOMAIN effect : Matches(grid[i], s.token)
    BY <2>2, <2>3, <2>4
  <2> QED  BY <1>5, <2>3, <2>5, <2>7 DEF Applied
<1> QED  BY <1>4, <1>5

LEMMA AffectedRows ==
    ASSUME NEW effect, DOMAIN effect \subseteq RowIds
    PROVE  /\ IsFiniteSet(DOMAIN effect) /\ Cardinality(DOMAIN effect) \in Nat
           /\ Affected(effect) \in Nat /\ Affected(effect) <= Cardinality(DOMAIN effect)
           /\ ~ table.changed => Affected(effect) = Cardinality(DOMAIN effect)
<1> DEFINE A == {i \in DOMAIN effect : ~ table.changed \/ effect[i] # grid[i]}
<1>1. IsFiniteSet(DOMAIN effect)  BY EditAssumption, FS_Subset
<1>2. A \subseteq DOMAIN effect /\ (~ table.changed => A = DOMAIN effect)  OBVIOUS
<1>3. Affected(effect) = Cardinality(A)  BY DEF Affected
<1> HIDE DEF A
<1>4. IsFiniteSet(A) /\ Cardinality(A) <= Cardinality(DOMAIN effect)  BY <1>1, <1>2, FS_Subset
<1>5. Cardinality(A) \in Nat /\ Cardinality(DOMAIN effect) \in Nat  BY <1>1, <1>4, FS_CardinalityType
<1> QED  BY <1>1, <1>2, <1>3, <1>4, <1>5

\* A statement that the engine runs leaves every transaction able to end.
LEMMA ExecIsolated ==
    ASSUME EditTypes, Isolated, NEW p \in Editors, NEW effect, DOMAIN effect \subseteq RowIds, table' = table,
           \A i \in DOMAIN effect : \A o \in Editors \ {p} : i \notin DOMAIN undo[o],
           NEW after, after = [i \in RowIds |-> IF i \in DOMAIN effect THEN effect[i] ELSE grid[i]],
           Legal(after), ~ WaitsForKey(p, effect), grid' = after,
           \A o \in Editors \ {p} : undo'[o] = undo[o],
           \/ DOMAIN undo'[p] = {}
           \/ undo'[p] = [i \in DOMAIN undo[p] \cup DOMAIN effect |->
                            IF i \in DOMAIN undo[p] THEN undo[p][i] ELSE grid[i]]
    PROVE  Isolated'
<1>1. \A o \in Editors : DOMAIN undo[o] \subseteq RowIds  BY RowTypes
<1>2. \A i \in RowIds : grid'[i] = IF i \in DOMAIN effect THEN effect[i] ELSE grid[i]  OBVIOUS
<1>3. \A i \in DOMAIN undo'[p] :
         /\ i \in DOMAIN undo[p] \/ (i \in DOMAIN effect /\ i \notin DOMAIN undo[p])
         /\ i \in DOMAIN undo[p] => undo'[p][i] = undo[p][i]
         /\ i \notin DOMAIN undo[p] => undo'[p][i] = grid[i]
  OBVIOUS
<1>4. \A j \in RowIds : DOMAIN undo'[p] # {} /\ j \notin DOMAIN undo'[p] =>
         j \notin DOMAIN effect /\ j \notin DOMAIN undo[p]
  OBVIOUS
<1>5. \A r, q : Clash(r, q) => Clash(q, r)  BY DEF Clash
<1>6. \A e, o \in Editors : e # o => DOMAIN undo'[e] \cap DOMAIN undo'[o] = {}
  <2>1. \A e, o \in Editors : e # o => DOMAIN undo[e] \cap DOMAIN undo[o] = {}  BY DEF Isolated
  <2> QED  BY <1>3, <2>1
<1>7. ASSUME table.keyed, NEW i \in RowIds
      PROVE  ~ NullKey(grid'[i]) /\ \A e \in Editors : i \in DOMAIN undo'[e] => ~ NullKey(undo'[e][i])
  <2>1. ~ NullKey(grid'[i])  BY <1>7 DEF Legal
  <2>2. ~ NullKey(grid[i]) /\ \A e \in Editors : i \in DOMAIN undo[e] => ~ NullKey(undo[e][i])
    BY <1>7 DEF Isolated
  <2> QED  BY <1>3, <2>1, <2>2
<1>8. ASSUME table.keyed, NEW i \in RowIds, NEW j \in RowIds, i # j
      PROVE  /\ ~ Clash(grid'[i], grid'[j])
             /\ \A e \in Editors : i \in DOMAIN undo'[e] =>
                   /\ j \notin DOMAIN undo'[e] => ~ Clash(undo'[e][i], grid'[j])
                   /\ \A o \in Editors : j \in DOMAIN undo'[o] => ~ Clash(undo'[e][i], undo'[o][j])
  <2>1. \A a, b \in RowIds : a # b =>
           /\ ~ Clash(grid[a], grid[b])
           /\ \A e \in Editors : a \in DOMAIN undo[e] =>
                 /\ b \notin DOMAIN undo[e] => ~ Clash(undo[e][a], grid[b])
                 /\ \A o \in Editors : b \in DOMAIN undo[o] => ~ Clash(undo[e][a], undo[o][b])
    BY <1>8 DEF Isolated
  <2>2. ~ Clash(grid'[i], grid'[j])  BY <1>8 DEF Legal
  <2>3. \A e \in Editors \ {p} : i \in DOMAIN undo[e] /\ j \in DOMAIN effect => ~ Clash(undo[e][i], effect[j])
    BY <1>5, <1>8 DEF WaitsForKey
  <2>4. ASSUME NEW e \in Editors, i \in DOMAIN undo'[e], j \notin DOMAIN undo'[e]
        PROVE  ~ Clash(undo'[e][i], grid'[j])
    <3>1. CASE e # p  BY <1>2, <1>8, <2>1, <2>3, <2>4, <3>1
    <3>2. CASE e = p
      <4>1. j \notin DOMAIN effect /\ j \notin DOMAIN undo[p]  BY <1>4, <2>4, <3>2
      <4>2. grid'[j] = grid[j]  BY <1>2, <4>1
      <4> QED  BY <1>3, <1>8, <2>1, <2>4, <3>2, <4>1, <4>2
    <3> QED  BY <3>1, <3>2
  <2>5. ASSUME NEW e \in Editors, i \in DOMAIN undo'[e], NEW o \in Editors, j \in DOMAIN undo'[o]
        PROVE  ~ Clash(undo'[e][i], undo'[o][j])
    <3>1. CASE e # p /\ o # p  BY <1>8, <2>1, <2>5, <3>1
    <3>2. CASE e = p /\ o # p
      <4>1. CASE i \in DOMAIN undo[p]  BY <1>3, <1>8, <2>1, <2>5, <3>2, <4>1
      <4>2. CASE i \notin DOMAIN undo[p]
        <5>1. i \in DOMAIN effect /\ undo'[p][i] = grid[i]  BY <1>3, <2>5, <3>2, <4>2
        <5>2. i \notin DOMAIN undo[o]  BY <3>2, <5>1
        <5>3. ~ Clash(undo[o][j], grid[i])  BY <1>8, <2>1, <2>5, <3>2, <5>2
        <5> QED  BY <1>5, <3>2, <5>1, <5>3
      <4> QED  BY <4>1, <4>2
    <3>3. CASE e # p /\ o = p
      <4>1. CASE j \in DOMAIN undo[p]  BY <1>3, <1>8, <2>1, <2>5, <3>3, <4>1
      <4>2. CASE j \notin DOMAIN undo[p]
        <5>1. j \in DOMAIN effect /\ undo'[p][j] = grid[j]  BY <1>3, <2>5, <3>3, <4>2
        <5>2. j \notin DOMAIN undo[e]  BY <3>3, <5>1
        <5> QED  BY <1>8, <2>1, <2>5, <3>3, <5>1, <5>2
      <4> QED  BY <4>1, <4>2
    <3>4. CASE e = p /\ o = p
      <4>1. CASE i \in DOMAIN undo[p]  BY <1>3, <1>8, <2>1, <2>5, <3>4, <4>1
      <4>2. CASE i \notin DOMAIN undo[p]  BY <1>3, <1>5, <1>8, <2>1, <2>5, <3>4, <4>2
      <4> QED  BY <4>1, <4>2
    <3> QED  BY <3>1, <3>2, <3>3, <3>4
  <2> QED  BY <2>2, <2>4, <2>5
<1>9. \A r : NullKey(r)' = NullKey(r)  BY DEF NullKey
<1>10. \A i \in RowIds : /\ NullKey(grid[i])' <=> NullKey(grid'[i])
                         /\ \A e \in Editors : NullKey(undo[e][i])' <=> NullKey(undo'[e][i])
  BY DEF NullKey
<1> QED  BY <1>6, <1>7, <1>8, <1>10 DEF Isolated

\* The next statement, and those that are left.
LEMMA NextOfQueue ==
    ASSUME NEW S, NEW q \in Seq(S), q # <<>>
    PROVE  /\ Head(q) = q[1] /\ Head(q) \in S /\ Len(q) \in Nat /\ 1 \in 1 .. Len(q)
           /\ Tail(q) \in Seq(S) /\ Len(Tail(q)) = Len(q) - 1
           /\ \A k \in 1 .. Len(Tail(q)) : Tail(q)[k] = q[k + 1] /\ k + 1 \in 1 .. Len(q) /\ k + 1 # 1
<1>1. Len(q) \in Nat /\ Len(q) # 0  BY LenProperties, EmptySeq
<1>2. Head(q) = q[1] /\ Tail(q) \in Seq(S) /\ Len(Tail(q)) = Len(q) - 1 /\ \A k \in 1 .. Len(Tail(q)) : Tail(q)[k] = q[k + 1]
  OBVIOUS
<1>3. q[1] \in S  BY <1>1
<1> QED  BY <1>1, <1>2, <1>3

\* What a statement adds to what the request has written.
WrittenBy(s, effect) == {[set |-> s.n, place |-> i, op |-> s.op, values |-> s.set] : i \in DOMAIN effect}

LEMMA WrittenRows ==
    ASSUME NEW old, IsFiniteSet(old), NEW effect, IsFiniteSet(DOMAIN effect), NEW s \in Asks,
           \A w \in old : w.set # s.n
    PROVE  /\ IsFiniteSet(old \cup WrittenBy(s, effect))
           /\ Cardinality(old \cup WrittenBy(s, effect)) = Cardinality(old) + Cardinality(DOMAIN effect)
<1> DEFINE new == WrittenBy(s, effect)
           f == [i \in DOMAIN effect |-> [set |-> s.n, place |-> i, op |-> s.op, values |-> s.set]]
<1>1. new = {f[i] : i \in DOMAIN effect} /\ DOMAIN f = DOMAIN effect /\ f = [i \in DOMAIN effect |-> f[i]]
  BY DEF WrittenBy
<1>2. \A x, y \in DOMAIN effect : f[x] = f[y] => x = y
  <2>1. \A x \in DOMAIN effect : f[x].place = x  OBVIOUS
  <2> QED  BY <2>1
<1>3. \A w \in new : w.set = s.n  BY DEF WrittenBy
<1> HIDE DEF f, new
<1>4. IsFiniteSet(new) /\ Cardinality(new) = Cardinality(DOMAIN effect)  BY <1>1, <1>2, ImageFinite
<1>5. old \cap new = {}  BY <1>3
<1>6. /\ Cardinality(old) \in Nat /\ Cardinality(DOMAIN effect) \in Nat  BY FS_CardinalityType
<1>7. /\ IsFiniteSet(old \cup new)
      /\ Cardinality(old \cup new) = Cardinality(old) + Cardinality(new) - Cardinality(old \cap new)
  BY <1>4, FS_Union
<1>8. Cardinality(old \cap new) = 0  BY <1>5, FS_EmptySet
<1> QED  BY <1>4, <1>6, <1>7, <1>8 DEF new

\* Where the engine keeps keys, a statement finds one row.
LEMMA OneEffect ==
    ASSUME Isolated, NEW token, KeyToken(token), NEW effect, DOMAIN effect \subseteq RowIds,
           \A i \in DOMAIN effect : Matches(grid[i], token)
    PROVE  Ordinary => \A i, j \in DOMAIN effect : i = j
  BY OneRow

\* Rows that a key finds look the same to every statement that the key is sent with: in
\* a table without a primary key, all of them change or none does.
LEMMA AllOrNone ==
    ASSUME EditTypes, NEW s \in Asks, KeyToken(s.token), ~ table.keyed, DOMAIN s.set \subseteq columns,
           s.op \in {"update", "delete"}, NEW effect, Applied(s, effect)
    PROVE  Affected(effect) \in {0, Cardinality(DOMAIN effect)}
<1> DEFINE A == {i \in DOMAIN effect : ~ table.changed \/ effect[i] # grid[i]}
<1>1. Affected(effect) = Cardinality(A)  BY DEF Affected
<1>2. \A i \in DOMAIN effect : grid[i] # NoRow /\ \A c \in columns : grid[i][c] = s.token[c]
  BY DEF KeyToken, Matches, Applied
<1>0. /\ s.op = "delete" => \A i \in DOMAIN effect : effect[i] = NoRow
      /\ s.op = "update" => \A i \in DOMAIN effect : effect[i] = Updated(grid[i], s.set)
      /\ DOMAIN effect \subseteq RowIds
  BY DEF Applied
<1>3. A = {} \/ A = DOMAIN effect
  <2>1. CASE s.op = "delete"  BY <1>0, <1>2, <2>1
  <2>2. CASE s.op = "update"
    <3>1. ASSUME NEW i \in DOMAIN effect, NEW j \in DOMAIN effect, effect[i] = grid[i] PROVE effect[j] = grid[j]
      <4>1. grid[j] \in Row  BY <1>0 DEF EditTypes
      <4>2. \A c \in DOMAIN s.set : c \in AllColumns /\ c \in columns
        <5>1. columns \subseteq AllColumns  BY DEF EditTypes
        <5> QED  BY <5>1
      <4>3. \A c \in DOMAIN s.set : effect[i][c] = s.set[c]  BY <1>0, <2>2, <4>2 DEF Updated
      <4>4. \A c \in DOMAIN s.set : s.set[c] = s.token[c]  BY <1>2, <3>1, <4>2, <4>3
      <4>5. \A c \in AllColumns : effect[j][c] = grid[j][c]  BY <1>0, <1>2, <2>2, <4>2, <4>4 DEF Updated
      <4>6. effect[j] = [c \in AllColumns |-> effect[j][c]]  BY <1>0, <2>2 DEF Updated
      <4>7. grid[j] = [c \in AllColumns |-> grid[j][c]]  BY <4>1 DEF Row
      <4> QED  BY <4>5, <4>6, <4>7
    <3> QED  BY <3>1
  <2> QED  BY <2>1, <2>2
<1> HIDE DEF A
<1>4. Cardinality({}) = 0  BY FS_EmptySet
<1> QED  BY <1>1, <1>3, <1>4

\* The next statement of a request runs: how far the request is then.
LEMMA ExecRunning ==
    ASSUME EditTypes, Isolated, NEW p \in Editors, NEW op \in Ops, Running(p, op), doing[p] = "tx",
           queue[p] \in Seq(Asks), queue[p] # <<>>, NEW s, s = Head(queue[p]),
           UNCHANGED <<table, columns>>, typed'[p] = typed[p], doing'[p] = "tx",
           queue'[p] = Tail(queue[p]),
           NEW effect, Applied(s, effect),
           \A i \in RowIds : grid'[i] = IF i \in DOMAIN effect THEN effect[i] ELSE grid[i],
           wrote'[p] = wrote[p] \cup WrittenBy(s, effect), tally'[p] = tally[p] + Affected(effect),
           DOMAIN undo'[p] = DOMAIN undo[p] \cup DOMAIN effect
    PROVE  Running(p, op)'
<1> DEFINE new == WrittenBy(s, effect)
<1>1. /\ s = queue[p][1] /\ s \in Asks /\ Len(queue[p]) \in Nat /\ 1 \in 1 .. Len(queue[p])
      /\ \A k \in 1 .. Len(queue'[p]) :
            queue'[p][k] = queue[p][k + 1] /\ k + 1 \in 1 .. Len(queue[p]) /\ k + 1 # 1
  BY NextOfQueue
<1>2. /\ \A k \in 1 .. Len(queue[p]) :
            /\ queue[p][k].op = op
            /\ op = "update" => AsTyped(p, queue[p][k].n, queue[p][k].set)
            /\ op # "insert" => KeyToken(queue[p][k].token)
      /\ \A k, q \in 1 .. Len(queue[p]) : k # q =>
            /\ queue[p][k].n # queue[p][q].n
            /\ op # "insert" /\ Ordinary => queue[p][k].token # queue[p][q].token
      /\ \A w \in wrote[p] :
            /\ w.op = op
            /\ op = "update" => AsTyped(p, w.set, w.values)
            /\ \A k \in 1 .. Len(queue[p]) : queue[p][k].n # w.set
            /\ w.place \in DOMAIN undo[p]
      /\ Ordinary \/ op = "insert" => \A w, x \in wrote[p] : w.set = x.set => w.place = x.place
      /\ Ordinary /\ op # "insert" /\ KeysKept(p) => \A w \in wrote[p] :
            /\ \A x \in wrote[p] : w.place = x.place => w.set = x.set
            /\ \A k \in 1 .. Len(queue[p]) : ~ Matches(grid[w.place], queue[p][k].token)
      /\ IsFiniteSet(wrote[p]) /\ tally[p] <= Cardinality(wrote[p])
      /\ ~ table.changed => tally[p] = Cardinality(wrote[p])
  BY DEF Running
<1>3. /\ Ordinary' = Ordinary /\ KeysKept(p)' = KeysKept(p)
      /\ \A t : KeyToken(t)' = KeyToken(t)
      /\ \A n, set : AsTyped(p, n, set)' = AsTyped(p, n, set)
  BY DEF Ordinary, KeysKept, KeyToken, AsTyped
<1>4. s.op = op /\ (op = "update" => AsTyped(p, s.n, s.set)) /\ (op # "insert" => KeyToken(s.token))
  BY <1>1, <1>2
<1>0. /\ DOMAIN effect \subseteq RowIds
      /\ op = "insert" => \E j : DOMAIN effect = {j}
      /\ op # "insert" => \A i \in DOMAIN effect : Matches(grid[i], s.token)
      /\ op = "delete" => \A i \in DOMAIN effect : effect[i] = NoRow
      /\ op = "update" => \A i \in DOMAIN effect : effect[i] = Updated(grid[i], s.set)
  BY <1>4 DEF Applied
<1>5. /\ IsFiniteSet(DOMAIN effect) /\ Cardinality(DOMAIN effect) \in Nat
      /\ Affected(effect) \in Nat /\ Affected(effect) <= Cardinality(DOMAIN effect)
      /\ ~ table.changed => Affected(effect) = Cardinality(DOMAIN effect)
  BY <1>0, AffectedRows
<1>6. \A w \in wrote[p] : w.set # s.n  BY <1>1, <1>2
<1>7. /\ IsFiniteSet(wrote'[p])
      /\ Cardinality(wrote'[p]) = Cardinality(wrote[p]) + Cardinality(DOMAIN effect)
      /\ \A w \in new : w.set = s.n /\ w.place \in DOMAIN effect /\ w.op = op /\ w.values = s.set
      /\ \A w \in wrote'[p] : w \in wrote[p] \/ w \in new
  <2>1. IsFiniteSet(wrote[p]) /\ IsFiniteSet(DOMAIN effect) /\ s \in Asks  BY <1>1, <1>2, <1>5
  <2>2. /\ IsFiniteSet(wrote[p] \cup new)
        /\ Cardinality(wrote[p] \cup new) = Cardinality(wrote[p]) + Cardinality(DOMAIN effect)
    BY <1>6, <2>1, WrittenRows
  <2>3. \A w \in new : w.set = s.n /\ w.place \in DOMAIN effect /\ w.op = s.op /\ w.values = s.set
    BY DEF WrittenBy
  <2>4. wrote'[p] = wrote[p] \cup new  OBVIOUS
  <2> HIDE DEF new
  <2> QED  BY <1>4, <2>2, <2>3, <2>4
<1> HIDE DEF new
<1>8. Ordinary \/ op = "insert" => \A i, j \in DOMAIN effect : i = j
  BY <1>0, <1>4, OneEffect
<1>9. ASSUME NEW k \in 1 .. Len(queue'[p])
      PROVE  /\ queue'[p][k].op = op
             /\ op = "update" => AsTyped(p, queue[p][k].n, queue[p][k].set)'
             /\ op # "insert" => KeyToken(queue[p][k].token)'
  <2>1. /\ queue'[p][k].op = op
        /\ op = "update" => AsTyped(p, queue'[p][k].n, queue'[p][k].set)
        /\ op # "insert" => KeyToken(queue'[p][k].token)
    BY <1>1, <1>2
  <2>2. AsTyped(p, queue'[p][k].n, queue'[p][k].set) => AsTyped(p, queue[p][k].n, queue[p][k].set)'
    BY DEF AsTyped
  <2>3. KeyToken(queue'[p][k].token) => KeyToken(queue[p][k].token)'  BY DEF KeyToken
  <2> QED  BY <2>1, <2>2, <2>3
<1>10. \A k, q \in 1 .. Len(queue'[p]) : k # q =>
         /\ queue'[p][k].n # queue'[p][q].n
         /\ op # "insert" /\ Ordinary => queue'[p][k].token # queue'[p][q].token
  <2> SUFFICES ASSUME NEW k \in 1 .. Len(queue'[p]), NEW q \in 1 .. Len(queue'[p]), k # q
               PROVE  /\ queue'[p][k].n # queue'[p][q].n
                      /\ op # "insert" /\ Ordinary => queue'[p][k].token # queue'[p][q].token
    OBVIOUS
  <2>1. k + 1 # q + 1  OBVIOUS
  <2>2. /\ queue'[p][k] = queue[p][k + 1] /\ k + 1 \in 1 .. Len(queue[p])
        /\ queue'[p][q] = queue[p][q + 1] /\ q + 1 \in 1 .. Len(queue[p])
    BY <1>1
  <2>3. \A m, r \in 1 .. Len(queue[p]) : m # r =>
          /\ queue[p][m].n # queue[p][r].n
          /\ op # "insert" /\ Ordinary => queue[p][m].token # queue[p][r].token
    BY <1>2
  <2> QED  BY ONLY <2>1, <2>2, <2>3
<1>11. ASSUME NEW w \in wrote'[p]
       PROVE  /\ w.op = op
              /\ op = "update" => AsTyped(p, w.set, w.values)
              /\ \A k \in 1 .. Len(queue'[p]) : queue'[p][k].n # w.set
              /\ w.place \in DOMAIN undo'[p]
  <2>1. CASE w \in wrote[p]  BY <1>1, <1>2, <2>1
  <2>2. CASE w \in new
    <3>1. \A k \in 1 .. Len(queue'[p]) : queue'[p][k].n # s.n  BY <1>1, <1>2
    <3> QED  BY <1>4, <1>7, <2>2, <3>1
  <2> QED  BY <1>7, <2>1, <2>2
<1>12. ASSUME Ordinary \/ op = "insert", NEW w \in wrote'[p], NEW x \in wrote'[p], w.set = x.set
       PROVE  w.place = x.place
  BY <1>2, <1>6, <1>7, <1>8, <1>12
<1>13. ASSUME Ordinary, op # "insert", KeysKept(p), NEW w \in wrote'[p]
       PROVE  /\ \A x \in wrote'[p] : w.place = x.place => w.set = x.set
              /\ \A k \in 1 .. Len(queue'[p]) : ~ Matches(grid'[w.place], queue'[p][k].token)
  <2>1. \A x \in wrote[p] : x.place \notin DOMAIN effect
    <3>1. \A x \in wrote[p] : ~ Matches(grid[x.place], s.token)  BY <1>1, <1>2, <1>13
    <3> QED  BY <1>0, <1>13, <3>1
  <2>2. \A x \in wrote'[p] : w.place = x.place => w.set = x.set  BY <1>2, <1>7, <1>13, <2>1
  <2>3. ASSUME NEW k \in 1 .. Len(queue'[p]) PROVE ~ Matches(grid'[w.place], queue'[p][k].token)
    <3>1. CASE w \in wrote[p]
      <4>1. w.place \in RowIds
        <5>1. wrote[p] \subseteq Writings  BY DEF EditTypes
        <5> QED  BY <3>1, <5>1 DEF Writings
      <4>2. grid'[w.place] = grid[w.place]  BY <2>1, <3>1, <4>1
      <4>3. ~ Matches(grid[w.place], queue[p][k + 1].token)  BY <1>1, <1>2, <1>13, <3>1
      <4> QED  BY <1>1, <4>2, <4>3
    <3>2. CASE w \in new
      <4>1. PICK i \in DOMAIN effect : i = w.place /\ i \in RowIds  BY <1>0, <1>7, <3>2
      <4>2. grid'[i] = effect[i]  BY <4>1
      <4>3. CASE op = "delete"  BY <1>0, <4>1, <4>2, <4>3 DEF Matches
      <4>4. CASE op = "update"
        <5> DEFINE t == queue'[p][k].token
        <5>1. t # s.token /\ KeyToken(t) /\ KeyToken(s.token) /\ t \in Sets /\ s.token \in Sets
          <6>1. t # s.token /\ KeyToken(t) /\ KeyToken(s.token)  BY <1>1, <1>2, <1>13
          <6>2. queue'[p][k] \in Asks /\ s \in Asks  BY <1>1
          <6> QED  BY <6>1, <6>2 DEF Asks
        <5> HIDE DEF t
        <5>2. DOMAIN t = {"k"} /\ DOMAIN s.token = {"k"}  BY <1>13, <5>1 DEF KeyToken, Ordinary
        <5>3. t["k"] # s.token["k"]
          <6>1. t = [c \in DOMAIN t |-> t[c]] /\ s.token = [c \in DOMAIN s.token |-> s.token[c]]
            BY <5>1 DEF Sets
          <6> QED  BY <5>1, <5>2, <6>1
        <5>4. "k" \notin DOMAIN s.set
          <6>1. AsTyped(p, s.n, s.set)  BY <1>4, <4>4
          <6>2. typed[p][s.n]["k"] = "keep"  BY <1>13, <6>1 DEF KeysKept, AsTyped
          <6> QED  BY <6>1, <6>2 DEF AsTyped
        <5>5. effect[i]["k"] = grid[i]["k"]
          <6>1. "k" \in AllColumns  BY DEF AllColumns
          <6> QED  BY <1>0, <4>1, <4>4, <5>4, <6>1 DEF Updated
        <5>6. grid[i]["k"] = s.token["k"]
          <6>1. Matches(grid[i], s.token)  BY <1>0, <4>1, <4>4
          <6> QED  BY <5>2, <6>1 DEF Matches
        <5>7. ~ Matches(grid'[i], t)  BY <4>2, <5>2, <5>3, <5>5, <5>6 DEF Matches
        <5> QED  BY <4>1, <5>7 DEF t
      <4> QED  BY <1>13, <4>3, <4>4 DEF Ops
    <3> QED  BY <1>7, <3>1, <3>2
  <2> QED  BY <2>2, <2>3
<1>14. tally'[p] <= Cardinality(wrote'[p]) /\ (~ table.changed => tally'[p] = Cardinality(wrote'[p]))
  <2>1. tally[p] \in Nat  BY DEF EditTypes
  <2>2. Cardinality(wrote[p]) \in Nat  BY <1>2, FS_CardinalityType
  <2> QED  BY <1>2, <1>5, <1>7, <2>1, <2>2
<1>15. \A w \in wrote'[p], k \in 1 .. Len(queue'[p]) :
          Matches(grid[w.place], queue[p][k].token)' <=> Matches(grid'[w.place], queue'[p][k].token)
  BY DEF Matches
<1> QED
  BY <1>3, <1>7, <1>9, <1>10, <1>11, <1>12, <1>13, <1>14 DEF Running, Matches

\* The one statement of a request has run: what the page says of it.
LEMMA ExecHonest ==
    ASSUME EditTypes, Isolated, NEW p \in Editors, NEW op \in Ops, Running(p, op), doing[p] = "once",
           table.kind = "table", queue[p] \in Seq(Asks), queue[p] # <<>>, NEW s, s = Head(queue[p]), Fits(s),
           UNCHANGED <<table, columns>>, typed'[p] = typed[p], doing'[p] = "done", undo'[p] = Nothing,
           NEW effect, Applied(s, effect),
           wrote'[p] = wrote[p] \cup WrittenBy(s, effect),
           queue'[p] = <<>>, told'[p].by = "once",
           \/ told'[p].kind = "error"
           \/ /\ told'[p].n = Affected(effect)
              /\ told'[p].kind = IF s.op = "insert" THEN "success" ELSE EditKind(Affected(effect))
    PROVE  Honest(p)'
<1>1. /\ s = queue[p][1] /\ s \in Asks /\ 1 \in 1 .. Len(queue[p])  BY NextOfQueue
<1>2. /\ s.op = op /\ (op = "update" => AsTyped(p, s.n, s.set)) /\ (op # "insert" => KeyToken(s.token))
      /\ wrote[p] = {}
  BY <1>1 DEF Running
<1>0. /\ DOMAIN effect \subseteq RowIds
      /\ op = "insert" => \E j : DOMAIN effect = {j}
      /\ op # "insert" => \A i \in DOMAIN effect : Matches(grid[i], s.token)
      /\ op = "delete" => \A i \in DOMAIN effect : effect[i] = NoRow
      /\ op = "update" => \A i \in DOMAIN effect : effect[i] = Updated(grid[i], s.set)
  BY <1>2 DEF Applied
<1>3. /\ IsFiniteSet(DOMAIN effect) /\ Cardinality(DOMAIN effect) \in Nat
      /\ Affected(effect) \in Nat /\ Affected(effect) <= Cardinality(DOMAIN effect)
      /\ ~ table.changed => Affected(effect) = Cardinality(DOMAIN effect)
  BY <1>0, AffectedRows
<1>4. /\ Cardinality(wrote'[p]) = Cardinality(DOMAIN effect)
      /\ \A w \in wrote'[p] : w.set = s.n /\ w.place \in DOMAIN effect /\ w.op = op /\ w.values = s.set
  <2>1. IsFiniteSet(wrote[p]) /\ Cardinality(wrote[p]) = 0  BY <1>2, FS_EmptySet
  <2>2. IsFiniteSet(DOMAIN effect) /\ s \in Asks /\ \A w \in wrote[p] : w.set # s.n  BY <1>1, <1>2, <1>3
  <2>3. Cardinality(wrote[p] \cup WrittenBy(s, effect)) = Cardinality(wrote[p]) + Cardinality(DOMAIN effect)
    BY <2>1, <2>2, WrittenRows
  <2>4. Cardinality(wrote'[p]) = Cardinality(DOMAIN effect)  BY <1>3, <2>1, <2>3
  <2>5. \A w \in WrittenBy(s, effect) : w.set = s.n /\ w.place \in DOMAIN effect /\ w.op = s.op /\ w.values = s.set
    BY DEF WrittenBy
  <2> QED  BY <1>2, <2>4, <2>5
<1>5. Ordinary \/ op = "insert" => \A i, j \in DOMAIN effect : i = j
  BY <1>0, <1>2, OneEffect
<1>6. \A w \in wrote'[p] : w.op = "update" => \A c \in DOMAIN w.values :
             /\ typed[p][w.set][c] # "keep"
             /\ w.values[c] = IF typed[p][w.set][c] = "null" THEN "null" ELSE Sent(typed[p][w.set][c])
  BY <1>2, <1>4 DEF AsTyped
<1>7. Ordinary => \A w, x \in wrote'[p] : w.set = x.set /\ w.place = x.place
  BY <1>4, <1>5
<1>8. told'[p].kind # "error" => /\ told'[p].n <= Cardinality(wrote'[p])
                                 /\ ~ table.changed => told'[p].n = Cardinality(wrote'[p])
  BY <1>3, <1>4
<1>9. told'[p].kind \in {"success", "warning", "error"}
  BY DEF EditKind
<1>10. ASSUME NEW w \in wrote'[p], NEW x \in wrote'[p], w.place # x.place, told'[p].kind = "success"
       PROVE  table.nullKeys
  <2>1. op # "insert" /\ ~ Ordinary  BY <1>4, <1>5, <1>10
  <2>2. SUFFICES ASSUME ~ table.nullKeys PROVE FALSE  OBVIOUS
  <2>3. ~ table.keyed  BY <2>1, <2>2 DEF Ordinary
  <2>4. Affected(effect) = 1
    <3>1. EditKind(Affected(effect)) = "success"  BY <1>2, <1>10, <2>1
    <3> QED  BY <1>3, <2>3, <3>1 DEF EditKind
  <2>5. Cardinality(DOMAIN effect) # 1
    <3>1. w.place \in DOMAIN effect /\ x.place \in DOMAIN effect  BY <1>4, <1>10
    <3> SUFFICES ASSUME Cardinality(DOMAIN effect) = 1 PROVE FALSE  OBVIOUS
    <3>2. PICK y : DOMAIN effect = {y}  BY <1>3, FS_Singleton
    <3>3. w.place = y /\ x.place = y  BY <3>1, <3>2
    <3> QED  BY <1>10, <3>3
  <2>6. Affected(effect) \in {0, Cardinality(DOMAIN effect)}
    <3>1. DOMAIN s.set \subseteq columns  BY DEF Fits
    <3>2. s.op \in {"update", "delete"}  BY <1>2, <2>1 DEF Ops
    <3>3. KeyToken(s.token)  BY <1>2, <2>1
    <3> QED  BY <1>1, <2>3, <3>1, <3>2, <3>3, AllOrNone
  <2> QED  BY <2>4, <2>5, <2>6
<1> QED
  BY <1>6, <1>7, <1>8, <1>9, <1>10 DEF Honest, Several, Ordinary

LEMMA ExecStep ==
    ASSUME EditInv, NEW p \in Editors, Exec(p)
    PROVE  EditInv'
<1>0. PICK s : s = Head(queue[p])  OBVIOUS
<1>1. EditTypes /\ Isolated /\ Editing(p)  BY DEF EditInv
<1>2. /\ doing[p] \in {"once", "tx"} /\ queue[p] # <<>> /\ Fits(s) /\ (s.op # "insert" => ~ Waits(p, s.token))
      /\ queue' = [queue EXCEPT ![p] = Tail(queue[p])]
      /\ UNCHANGED <<plans, table, columns, tokens, fields, typed>>
  BY <1>0 DEF Exec
<1>3. PICK effect, after :
        /\ effect \in Effects(p, s)
        /\ after = [i \in RowIds |-> IF i \in DOMAIN effect THEN effect[i] ELSE grid[i]]
        /\ Legal(after) /\ ~ WaitsForKey(p, effect) /\ grid' = after
        /\ wrote' = [wrote EXCEPT ![p] = wrote[p] \cup WrittenBy(s, effect)]
        /\ tally' = [tally EXCEPT ![p] = tally[p] + Affected(effect)]
        /\ IF doing[p] = "once"
           THEN /\ Replies(p, IF s.op = "insert" THEN "success" ELSE EditKind(Affected(effect)), Affected(effect))
                /\ UNCHANGED undo
           ELSE /\ undo' = [undo EXCEPT ![p] =
                       [i \in DOMAIN undo[p] \cup DOMAIN effect |->
                          IF i \in DOMAIN undo[p] THEN undo[p][i] ELSE grid[i]]]
                /\ UNCHANGED <<told, doing>>
  <2>1. \E effect, after :
            /\ effect \in Effects(p, Head(queue[p]))
            /\ after = [i \in RowIds |-> IF i \in DOMAIN effect THEN effect[i] ELSE grid[i]]
            /\ Legal(after) /\ ~ WaitsForKey(p, effect) /\ grid' = after
            /\ wrote' = [wrote EXCEPT ![p] = wrote[p] \cup WrittenBy(Head(queue[p]), effect)]
            /\ tally' = [tally EXCEPT ![p] = tally[p] + Affected(effect)]
            /\ IF doing[p] = "once"
               THEN /\ Replies(p, IF Head(queue[p]).op = "insert" THEN "success" ELSE EditKind(Affected(effect)), Affected(effect))
                    /\ UNCHANGED undo
               ELSE /\ undo' = [undo EXCEPT ![p] =
                           [i \in DOMAIN undo[p] \cup DOMAIN effect |->
                              IF i \in DOMAIN undo[p] THEN undo[p][i] ELSE grid[i]]]
                    /\ UNCHANGED <<told, doing>>
    BY DEF Exec, WrittenBy
  <2> QED  BY <1>0, <2>1
<1>4. PICK op \in Ops : Running(p, op)  BY <1>1, <1>2 DEF Editing
<1>5. queue[p] \in Seq(Asks)  BY <1>1 DEF EditTypes
<1>6. s = queue[p][1] /\ s \in Asks /\ 1 \in 1 .. Len(queue[p])  BY <1>0, <1>2, <1>5, NextOfQueue
<1>7. s.op = op  BY <1>4, <1>6 DEF Running
<1>8. /\ Applied(s, effect) /\ \A i \in DOMAIN effect : \A o \in Editors \ {p} : i \notin DOMAIN undo[o]
      /\ DOMAIN effect \subseteq RowIds /\ \A i \in DOMAIN effect : effect[i] \in Row
  <2>1. s.op # "insert" => ~ Waits(p, s.token)  BY <1>2
  <2>2. s \in Asks /\ effect \in Effects(p, s) /\ EditTypes  BY <1>1, <1>3, <1>6
  <2>3. Applied(s, effect) /\ \A i \in DOMAIN effect : \A o \in Editors \ {p} : i \notin DOMAIN undo[o]
    BY ONLY <2>1, <2>2, EffectRows
  <2> QED  BY <2>3 DEF Applied
<1>9. \A i \in RowIds : grid'[i] = IF i \in DOMAIN effect THEN effect[i] ELSE grid[i]  BY <1>3
<1>10. Affected(effect) \in Nat  BY <1>8, AffectedRows
<1>11. /\ queue'[p] = Tail(queue[p]) /\ wrote'[p] = wrote[p] \cup WrittenBy(s, effect) /\ tally'[p] = tally[p] + Affected(effect)
       /\ \A e \in Editors \ {p} : queue'[e] = queue[e] /\ wrote'[e] = wrote[e] /\ tally'[e] = tally[e]
  BY <1>1, <1>2, <1>3 DEF EditTypes
<1>12. /\ plans' \in [Editors -> SUBSET Chores] /\ table' \in AnyTable /\ columns' \in {AllColumns, AllColumns \ {"v"}}
       /\ grid' \in [RowIds -> Row] /\ tokens' \in [Editors -> Seq(Sets)] /\ fields' \in [Editors -> Seq(Forms)]
       /\ typed' \in [Editors -> Seq(Typings)] /\ queue' \in [Editors -> Seq(Asks)]
       /\ wrote' \in [Editors -> SUBSET Writings] /\ tally' \in [Editors -> Nat]
  <2>1. grid' \in [RowIds -> Row]  BY <1>1, <1>3, <1>8 DEF EditTypes
  <2>2. queue' \in [Editors -> Seq(Asks)]
    <3>1. Tail(queue[p]) \in Seq(Asks)  BY <1>2, <1>5, NextOfQueue
    <3> QED  BY <1>1, <1>2, <3>1 DEF EditTypes
  <2>3. wrote' \in [Editors -> SUBSET Writings]
    <3>1. s.n \in Nat /\ s.op \in Ops /\ s.set \in Sets  BY <1>6 DEF Asks
    <3>2. WrittenBy(s, effect) \subseteq Writings  BY <1>8, <3>1 DEF Writings, WrittenBy
    <3>3. wrote \in [Editors -> SUBSET Writings]  BY <1>1 DEF EditTypes
    <3>4. wrote[p] \cup WrittenBy(s, effect) \in SUBSET Writings  BY <3>2, <3>3
    <3> QED  BY <1>3, <3>3, <3>4
  <2>4. tally' \in [Editors -> Nat]
    <3>1. tally \in [Editors -> Nat]  BY <1>1 DEF EditTypes
    <3> QED  BY <1>3, <1>10, <3>1
  <2> QED  BY <1>1, <1>2, <2>1, <2>2, <2>3, <2>4 DEF EditTypes
<1>13. CASE doing[p] = "once"
  <2> DEFINE success == IF s.op = "insert" THEN "success" ELSE EditKind(Affected(effect))
  <2>1. PICK kind, n :
        /\ told' = [told EXCEPT ![p] = [kind |-> kind, n |-> n, by |-> doing[p]]]
        /\ (kind = "error" /\ n = 0) \/ (kind = success /\ n = Affected(effect))
        /\ doing' = [doing EXCEPT ![p] = "done"] /\ UNCHANGED undo
    BY <1>3, <1>13 DEF Replies, Tell
  <2>2. DOMAIN undo[p] = {} /\ undo[p] = Nothing  BY <1>1, <1>13, NothingOpen DEF Editing
  <2>3. EditTypes'
    <3>1. doing' \in [Editors -> Stages]  BY <1>1, <2>1 DEF EditTypes, Stages
    <3>2. kind \in Answers /\ n \in Nat
      <4>1. EditKind(Affected(effect)) \in Answers  BY DEF EditKind, Answers
      <4> QED  BY <1>10, <2>1, <4>1 DEF Answers
    <3>3. told' \in [Editors -> [kind : Answers, n : Nat, by : Stages \cup {"none"}]]
      <4>1. told \in [Editors -> [kind : Answers, n : Nat, by : Stages \cup {"none"}]] /\ doing[p] \in Stages
        BY <1>1 DEF EditTypes
      <4> QED  BY <1>10, <2>1, <3>2, <4>1
    <3> QED  BY <1>1, <1>12, <2>1, <3>1, <3>3 DEF EditTypes
  <2>4. Isolated'
    <3>1. DOMAIN undo'[p] = {} /\ \A o \in Editors \ {p} : undo'[o] = undo[o]  BY <2>1, <2>2
    <3>2. table' = table  BY <1>2
    <3> QED  BY <1>1, <1>3, <1>8, <3>1, <3>2, ExecIsolated
  <2>5. \A e \in Editors \ {p} : Aside(e)
    BY <1>1, <1>2, <1>11, <2>1 DEF Aside, EditTypes
  <2>6. /\ doing'[p] = "done" /\ told'[p].by = "once"
        /\ \/ told'[p].kind = "error"
           \/ /\ told'[p].n = Affected(effect)
              /\ told'[p].kind = IF s.op = "insert" THEN "success" ELSE EditKind(Affected(effect))
    <3>1. told'[p] = [kind |-> kind, n |-> n, by |-> doing[p]]
      BY <1>1, <2>1 DEF EditTypes
    <3>2. doing'[p] = "done"  BY <1>1, <2>1 DEF EditTypes
    <3> QED  BY <1>13, <2>1, <3>1, <3>2
  <2>7. table.kind = "table"  BY <1>1, <1>13 DEF Editing
  <2>8. Honest(p)'
    <3>1. s = Head(queue[p])  BY <1>0
    <3>3. typed'[p] = typed[p] /\ undo'[p] = Nothing /\ wrote'[p] = wrote[p] \cup WrittenBy(s, effect)
      BY <1>2, <1>11, <2>1, <2>2
    <3>4. UNCHANGED <<table, columns>> /\ queue[p] # <<>> /\ Fits(s)  BY <1>2
    <3>5. EditTypes /\ Isolated  BY <1>1
    <3>6. queue'[p] = <<>>
      <4> DEFINE line == queue[p]
      <4>1. line \in Seq(Asks) /\ Len(line) \in Nat /\ Len(line) <= 1 /\ 1 \in 1 .. Len(line)
        BY <1>4, <1>5, <1>6, <1>13, LenProperties DEF Running
      <4> HIDE DEF line
      <4>6. \A m \in Nat : m <= 1 /\ 1 \in 1 .. m => m = 1  OBVIOUS
      <4>2. Len(line) = 1  BY <4>1, <4>6
      <4>5. line # <<>>  BY <1>2 DEF line
      <4>3. Len(Tail(line)) = 0 /\ Tail(line) \in Seq(Asks)  BY <4>1, <4>2, <4>5, HeadTailProperties
      <4>4. Tail(line) = <<>>  BY <4>3, EmptySeq
      <4> QED  BY <1>11, <4>4 DEF line
    <3> QED
      BY ONLY <1>4, <1>5, <1>8, <1>13, <2>6, <2>7, <3>1, <3>3, <3>4, <3>5, <3>6, ExecHonest
  <2>9. Editing(p)'
    <3>1. DOMAIN undo'[p] = {}  BY <2>1, <2>2
    <3> QED  BY <1>2, <2>6, <2>7, <2>8, <3>1 DEF Editing
  <2>10. \A e \in Editors \ {p} : Editing(e)'
    <3> SUFFICES ASSUME NEW e \in Editors \ {p} PROVE Editing(e)'  OBVIOUS
    <3>1. \A i \in DOMAIN undo[e] : i \in RowIds /\ i \notin DOMAIN effect  BY <1>1, <1>8, RowTypes
    <3>2. \A i \in DOMAIN undo[e] : grid'[i] = grid[i]  BY <1>9, <3>1
    <3>3. Editing(e) /\ Aside(e) /\ table' = table /\ columns' \subseteq columns  BY <1>2, <2>5 DEF EditInv
    <3> QED  BY <3>2, <3>3, EditCalm
  <2> QED  BY <2>3, <2>4, <2>9, <2>10 DEF EditInv
<1>14. CASE doing[p] = "tx"
  <2> DEFINE back == [i \in DOMAIN undo[p] \cup DOMAIN effect |->
                        IF i \in DOMAIN undo[p] THEN undo[p][i] ELSE grid[i]]
  <2>1. undo' = [undo EXCEPT ![p] = back] /\ UNCHANGED <<told, doing>>  BY <1>3, <1>14
  <2>2. back \in Saved
    <3>1. DOMAIN undo[p] \subseteq RowIds /\ \A i \in DOMAIN undo[p] : undo[p][i] \in Row  BY <1>1, RowTypes
    <3>2. \A i \in RowIds : grid[i] \in Row  BY <1>1 DEF EditTypes
    <3>3. back \in [DOMAIN undo[p] \cup DOMAIN effect -> Row]  BY <1>8, <3>1, <3>2
    <3>4. DOMAIN undo[p] \cup DOMAIN effect \in SUBSET RowIds  BY <1>8, <3>1
    <3> QED  BY <3>3, <3>4 DEF Saved
  <2>3. DOMAIN back = DOMAIN undo[p] \cup DOMAIN effect  OBVIOUS
  <2>4. undo'[p] = back /\ \A o \in Editors \ {p} : undo'[o] = undo[o]  BY <1>1, <2>1 DEF EditTypes
  <2>5. Isolated'
    <3>1. table' = table  BY <1>2
    <3> QED  BY <1>1, <1>3, <1>8, <2>4, <3>1, ExecIsolated
  <2> HIDE DEF back
  <2>6. EditTypes'
    <3>1. undo' \in [Editors -> Saved]  BY <1>1, <2>1, <2>2 DEF EditTypes
    <3> QED  BY <1>1, <1>12, <2>1, <3>1 DEF EditTypes
  <2>7. \A e \in Editors \ {p} : Aside(e)
    BY <1>2, <1>11, <2>1, <2>4 DEF Aside
  <2>8. Running(p, op)'
    <3>1. s = Head(queue[p])  BY <1>0
    <3>3. typed'[p] = typed[p] /\ doing'[p] = "tx" /\ DOMAIN undo'[p] = DOMAIN undo[p] \cup DOMAIN effect
      BY <1>2, <1>14, <2>1, <2>3, <2>4
    <3>4. UNCHANGED <<table, columns>>  BY <1>2
    <3>5. EditTypes /\ Isolated  BY <1>1
    <3>6. queue[p] # <<>>  BY <1>2
    <3>7. /\ queue'[p] = Tail(queue[p]) /\ wrote'[p] = wrote[p] \cup WrittenBy(s, effect)
          /\ tally'[p] = tally[p] + Affected(effect)
      BY <1>11
    <3> QED
      BY ONLY <1>4, <1>5, <1>8, <1>9, <1>14, <3>1, <3>3, <3>4, <3>5, <3>6, <3>7, ExecRunning
  <2>9. Editing(p)'
    <3>1. table.kind = "table"  BY <1>1, <1>14 DEF Editing
    <3>2. doing'[p] = "tx"  BY <1>14, <2>1
    <3> QED  BY <1>2, <2>8, <3>1, <3>2 DEF Editing
  <2>10. \A e \in Editors \ {p} : Editing(e)'
    <3> SUFFICES ASSUME NEW e \in Editors \ {p} PROVE Editing(e)'  OBVIOUS
    <3>1. \A i \in DOMAIN undo[e] : i \in RowIds /\ i \notin DOMAIN effect  BY <1>1, <1>8, RowTypes
    <3>2. \A i \in DOMAIN undo[e] : grid'[i] = grid[i]  BY <1>9, <3>1
    <3>3. Editing(e) /\ Aside(e) /\ table' = table /\ columns' \subseteq columns  BY <1>2, <2>7 DEF EditInv
    <3> QED  BY <3>2, <3>3, EditCalm
  <2> QED  BY <2>5, <2>6, <2>9, <2>10 DEF EditInv
<1> QED  BY <1>2, <1>13, <1>14

\* Nothing is left of a request whose statement the engine did not run, and its rows are
\* as they were.
LEMMA FailsStep ==
    ASSUME EditInv, NEW p \in Editors, Fails(p)
    PROVE  EditInv'
<1>1. EditTypes /\ Isolated /\ Editing(p)  BY DEF EditInv
<1>2. /\ doing[p] \in {"once", "tx"} /\ grid' = Undone(p) /\ undo' = [undo EXCEPT ![p] = Nothing]
      /\ wrote' = [wrote EXCEPT ![p] = {w \in wrote[p] : w.place \notin DOMAIN undo[p]}]
      /\ told' = [told EXCEPT ![p] = [kind |-> "error", n |-> 0, by |-> doing[p]]]
      /\ doing' = [doing EXCEPT ![p] = "done"]
      /\ UNCHANGED <<plans, table, columns, tokens, fields, typed, queue, tally>>
  BY DEF Fails, Tell
<1>3. /\ \A o \in Editors : DOMAIN undo[o] \subseteq RowIds /\ \A i \in DOMAIN undo[o] : undo[o][i] \in Row
      /\ \A i \in RowIds : grid[i] \in Row
  BY <1>1, RowTypes
<1>4. \A i \in RowIds : grid'[i] = IF i \in DOMAIN undo[p] THEN undo[p][i] ELSE grid[i]
  BY <1>2 DEF Undone
<1>5. DOMAIN Nothing = {} /\ Nothing \in Saved
  <2>1. Nothing \in [{} -> Row] /\ DOMAIN Nothing = {} /\ {} \in SUBSET RowIds  BY DEF Nothing
  <2> QED  BY <2>1 DEF Saved
<1>6. /\ undo'[p] = Nothing /\ wrote'[p] = {} /\ doing'[p] = "done" /\ told'[p].kind = "error"
      /\ \A o \in Editors \ {p} : undo'[o] = undo[o]
  <2>1. wrote'[p] = {w \in wrote[p] : w.place \notin DOMAIN undo[p]}  BY <1>1, <1>2 DEF EditTypes
  <2>2. PICK op \in Ops : Running(p, op)  BY <1>1, <1>2 DEF Editing
  <2>3. \A w \in wrote[p] : doing[p] = "tx" /\ w.place \in DOMAIN undo[p]
    BY <1>2, <2>2 DEF Running
  <2>4. wrote'[p] = {}  BY <2>1, <2>3
  <2> QED  BY <1>1, <1>2, <2>4 DEF EditTypes
<1>7. EditTypes'
  <2>1. grid' \in [RowIds -> Row]
    <3>1. Undone(p) \in [RowIds -> Row]  BY <1>3 DEF Undone
    <3> QED  BY <1>2, <3>1
  <2>2. undo' \in [Editors -> Saved]  BY <1>1, <1>2, <1>5 DEF EditTypes
  <2>3. doing' \in [Editors -> Stages] /\ doing[p] \in Stages  BY <1>1, <1>2 DEF EditTypes, Stages
  <2>4. queue' \in [Editors -> Seq(Asks)]  BY <1>1, <1>2 DEF EditTypes
  <2>5. wrote' \in [Editors -> SUBSET Writings]  BY <1>1, <1>2 DEF EditTypes
  <2>6. told' \in [Editors -> [kind : Answers, n : Nat, by : Stages \cup {"none"}]]
    BY <1>1, <1>2, <2>3 DEF EditTypes, Answers
  <2> QED  BY <1>1, <1>2, <2>1, <2>2, <2>3, <2>4, <2>5, <2>6 DEF EditTypes
<1>8. Isolated'
  <2>1. \A e, o \in Editors : e # o => DOMAIN undo[e] \cap DOMAIN undo[o] = {}  BY <1>1 DEF Isolated
  <2>2. \A e, o \in Editors : e # o => DOMAIN undo'[e] \cap DOMAIN undo'[o] = {}  BY <1>5, <1>6, <2>1
  <2>3. \A r, q : Clash(r, q) => Clash(q, r)  BY DEF Clash
  <2>4. ASSUME table.keyed, NEW i \in RowIds
        PROVE  ~ NullKey(grid'[i]) /\ \A e \in Editors : i \in DOMAIN undo'[e] => ~ NullKey(undo'[e][i])
    <3>1. ~ NullKey(grid[i]) /\ \A e \in Editors : i \in DOMAIN undo[e] => ~ NullKey(undo[e][i])
      BY <1>1, <2>4 DEF Isolated
    <3> QED  BY <1>4, <1>5, <1>6, <3>1
  <2>5. ASSUME table.keyed, NEW i \in RowIds, NEW j \in RowIds, i # j
        PROVE  /\ ~ Clash(grid'[i], grid'[j])
               /\ \A e \in Editors : i \in DOMAIN undo'[e] =>
                     /\ j \notin DOMAIN undo'[e] => ~ Clash(undo'[e][i], grid'[j])
                     /\ \A o \in Editors : j \in DOMAIN undo'[o] => ~ Clash(undo'[e][i], undo'[o][j])
    <3>1. \A a, b \in RowIds : a # b =>
             /\ ~ Clash(grid[a], grid[b])
             /\ \A e \in Editors : a \in DOMAIN undo[e] =>
                   /\ b \notin DOMAIN undo[e] => ~ Clash(undo[e][a], grid[b])
                   /\ \A o \in Editors : b \in DOMAIN undo[o] => ~ Clash(undo[e][a], undo[o][b])
      BY <1>1, <2>5 DEF Isolated
    <3>2. ~ Clash(grid'[i], grid'[j])
      <4>1. CASE i \in DOMAIN undo[p]  BY <1>4, <2>5, <3>1, <4>1
      <4>2. CASE i \notin DOMAIN undo[p] /\ j \in DOMAIN undo[p]  BY <1>4, <2>3, <2>5, <3>1, <4>2
      <4>3. CASE i \notin DOMAIN undo[p] /\ j \notin DOMAIN undo[p]  BY <1>4, <2>5, <3>1, <4>3
      <4> QED  BY <4>1, <4>2, <4>3
    <3>3. ASSUME NEW e \in Editors, i \in DOMAIN undo'[e], j \notin DOMAIN undo'[e]
          PROVE  ~ Clash(undo'[e][i], grid'[j])
      <4>1. e # p /\ undo'[e] = undo[e]  BY <1>5, <1>6, <3>3
      <4> QED  BY <1>4, <2>5, <3>1, <3>3, <4>1
    <3>4. ASSUME NEW e \in Editors, i \in DOMAIN undo'[e], NEW o \in Editors, j \in DOMAIN undo'[o]
          PROVE  ~ Clash(undo'[e][i], undo'[o][j])
      <4>1. e # p /\ o # p /\ undo'[e] = undo[e] /\ undo'[o] = undo[o]  BY <1>5, <1>6, <3>4
      <4> QED  BY <2>5, <3>1, <3>4, <4>1
    <3> QED  BY <3>2, <3>3, <3>4
  <2>6. \A i \in RowIds : /\ NullKey(grid[i])' <=> NullKey(grid'[i])
                          /\ \A e \in Editors : NullKey(undo[e][i])' <=> NullKey(undo'[e][i])
    BY <1>2 DEF NullKey
  <2>7. table' = table  BY <1>2
  <2> QED  BY <2>2, <2>4, <2>5, <2>6, <2>7 DEF Isolated
<1>9. Editing(p)'
  <2>1. Honest(p)'  BY <1>6, RefusedIsHonest
  <2> QED  BY <1>5, <1>6, <2>1 DEF Editing
<1>10. \A e \in Editors \ {p} : Editing(e)'
  <2> SUFFICES ASSUME NEW e \in Editors \ {p} PROVE Editing(e)'  OBVIOUS
  <2>1. Aside(e)  BY <1>1, <1>2 DEF Aside, EditTypes
  <2>2. \A i \in DOMAIN undo[e] : i \in RowIds /\ i \notin DOMAIN undo[p]
    <3>1. DOMAIN undo[e] \cap DOMAIN undo[p] = {}  BY <1>1 DEF Isolated
    <3> QED  BY <1>3, <3>1
  <2>3. \A i \in DOMAIN undo[e] : grid'[i] = grid[i]  BY <1>4, <2>2
  <2>4. Editing(e) /\ table' = table /\ columns' \subseteq columns  BY <1>2 DEF EditInv
  <2> QED  BY <2>1, <2>3, <2>4, EditCalm
<1> QED  BY <1>7, <1>8, <1>9, <1>10 DEF EditInv

\* A transaction ends: what the page says of it.
LEMMA CommitsStep ==
    ASSUME EditInv, NEW p \in Editors, Commits(p)
    PROVE  EditInv'
<1>1. EditTypes /\ Isolated /\ Editing(p)  BY DEF EditInv
<1>2. /\ doing[p] = "tx" /\ queue[p] = <<>> /\ undo' = [undo EXCEPT ![p] = Nothing]
      /\ doing' = [doing EXCEPT ![p] = "done"]
      /\ UNCHANGED <<plans, table, columns, grid, tokens, fields, typed, queue, wrote, tally>>
  BY DEF Commits, Replies, Tell
<1>a. PICK kind, n :
      /\ told' = [told EXCEPT ![p] = [kind |-> kind, n |-> n, by |-> doing[p]]]
      /\ (kind = "error" /\ n = 0) \/ (kind = TxKind(p) /\ n = tally[p])
  BY DEF Commits, Replies, Tell
<1>3. PICK op \in Ops : Running(p, op)  BY <1>1, <1>2 DEF Editing
<1>4. DOMAIN Nothing = {} /\ Nothing \in Saved
  <2>1. Nothing \in [{} -> Row] /\ DOMAIN Nothing = {} /\ {} \in SUBSET RowIds  BY DEF Nothing
  <2> QED  BY <2>1 DEF Saved
<1>5. /\ undo'[p] = Nothing /\ doing'[p] = "done" /\ wrote'[p] = wrote[p] /\ typed'[p] = typed[p]
      /\ told'[p].kind = "error" \/ (told'[p].kind = TxKind(p) /\ told'[p].n = tally[p])
      /\ told'[p].by = "tx" /\ queue'[p] = <<>>
      /\ \A o \in Editors \ {p} : undo'[o] = undo[o]
  BY <1>1, <1>2, <1>a DEF EditTypes
<1>6. EditTypes'
  <2>1. undo' \in [Editors -> Saved]  BY <1>1, <1>2, <1>4 DEF EditTypes
  <2>2. doing' \in [Editors -> Stages] /\ doing[p] \in Stages  BY <1>1, <1>2 DEF EditTypes, Stages
  <2>3. told' \in [Editors -> [kind : Answers, n : Nat, by : Stages \cup {"none"}]]
    <3>1. TxKind(p) \in Answers  BY DEF TxKind, Answers
    <3>2. told \in [Editors -> [kind : Answers, n : Nat, by : Stages \cup {"none"}]] /\ tally[p] \in Nat
      BY <1>1 DEF EditTypes
    <3>3. kind \in Answers /\ n \in Nat  BY <1>a, <3>1, <3>2 DEF Answers
    <3> QED  BY <1>a, <2>2, <3>2, <3>3
  <2> QED  BY <1>1, <1>2, <2>1, <2>2, <2>3 DEF EditTypes
<1>7. Isolated'
  <2>1. \A e \in Editors : \/ DOMAIN undo'[e] = {}
                          \/ undo'[e] = undo[e]
    BY <1>4, <1>5
  <2>2. \A i \in RowIds : /\ NullKey(grid[i])' <=> NullKey(grid[i])
                          /\ \A e \in Editors : NullKey(undo[e][i])' <=> NullKey(undo'[e][i])
    BY <1>2 DEF NullKey
  <2>3. table' = table /\ grid' = grid  BY <1>2
  <2>4. \A e, o \in Editors : e # o => DOMAIN undo'[e] \cap DOMAIN undo'[o] = {}
    <3>1. \A e, o \in Editors : e # o => DOMAIN undo[e] \cap DOMAIN undo[o] = {}  BY <1>1 DEF Isolated
    <3> QED  BY <2>1, <3>1
  <2>5. ASSUME table.keyed, NEW i \in RowIds
        PROVE  ~ NullKey(grid[i]) /\ \A e \in Editors : i \in DOMAIN undo'[e] => ~ NullKey(undo'[e][i])
    <3>1. ~ NullKey(grid[i]) /\ \A e \in Editors : i \in DOMAIN undo[e] => ~ NullKey(undo[e][i])
      BY <1>1, <2>5 DEF Isolated
    <3> QED  BY <2>1, <3>1
  <2>6. ASSUME table.keyed, NEW i \in RowIds, NEW j \in RowIds \ {i}
        PROVE  /\ ~ Clash(grid[i], grid[j])
               /\ \A e \in Editors : i \in DOMAIN undo'[e] =>
                     /\ j \notin DOMAIN undo'[e] => ~ Clash(undo'[e][i], grid[j])
                     /\ \A o \in Editors : j \in DOMAIN undo'[o] => ~ Clash(undo'[e][i], undo'[o][j])
    <3>1. /\ ~ Clash(grid[i], grid[j])
          /\ \A e \in Editors : i \in DOMAIN undo[e] =>
                /\ j \notin DOMAIN undo[e] => ~ Clash(undo[e][i], grid[j])
                /\ \A o \in Editors : j \in DOMAIN undo[o] => ~ Clash(undo[e][i], undo[o][j])
      BY <1>1, <2>6 DEF Isolated
    <3>2. \A e \in Editors : i \in DOMAIN undo'[e] => undo'[e] = undo[e]  BY <2>1
    <3>3. \A e \in Editors : j \in DOMAIN undo'[e] => undo'[e] = undo[e]  BY <2>1
    <3> QED  BY <3>1, <3>2, <3>3
  <2> QED  BY <2>2, <2>3, <2>4, <2>5, <2>6 DEF Isolated
<1>8. Honest(p)'
  <2>1. /\ \A w \in wrote[p] : w.op = op /\ (op = "update" => AsTyped(p, w.set, w.values))
        /\ Ordinary \/ op = "insert" => \A w, x \in wrote[p] : w.set = x.set => w.place = x.place
        /\ Ordinary /\ op # "insert" /\ KeysKept(p) => \A w, x \in wrote[p] : w.place = x.place => w.set = x.set
        /\ tally[p] <= Cardinality(wrote[p]) /\ (~ table.changed => tally[p] = Cardinality(wrote[p]))
    BY <1>3 DEF Running
  <2>2. \A w \in wrote[p] : w.op = "update" => \A c \in DOMAIN w.values :
          /\ typed[p][w.set][c] # "keep"
          /\ w.values[c] = IF typed[p][w.set][c] = "null" THEN "null" ELSE Sent(typed[p][w.set][c])
    BY <2>1 DEF AsTyped
  <2>3. Ordinary /\ KeysKept(p) => \A w, x \in wrote[p] : w.op # "insert" => (w.set = x.set <=> w.place = x.place)
    BY <2>1
  <2>4. TxKind(p) \in {"success", "warning"}  BY DEF TxKind
  <2>5. ASSUME Several(p), TxKind(p) = "success", typed[p] = <<>> PROVE table.nullKeys
    <3>1. table.keyed  BY <2>5 DEF TxKind
    <3>2. ~ Ordinary  BY <2>1, <2>5 DEF Several
    <3> QED  BY <3>1, <3>2 DEF Ordinary
  <2>6. table.kind = "table"  BY <1>1, <1>2 DEF Editing
  <2>7. /\ Ordinary' = Ordinary /\ KeysKept(p)' = KeysKept(p) /\ Several(p)' = Several(p) /\ table' = table
    BY <1>2 DEF Ordinary, KeysKept, Several
  <2> QED
    BY <1>5, <2>1, <2>2, <2>3, <2>4, <2>5, <2>6, <2>7 DEF Honest
<1>9. Editing(p)'
  <2>1. table'.kind = "table"  BY <1>1, <1>2 DEF Editing
  <2> QED  BY <1>4, <1>5, <1>8, <2>1 DEF Editing
<1>10. \A e \in Editors \ {p} : Editing(e)'
  <2> SUFFICES ASSUME NEW e \in Editors \ {p} PROVE Editing(e)'  OBVIOUS
  <2>1. Aside(e)  BY <1>1, <1>2, <1>a DEF Aside, EditTypes
  <2>2. Editing(e) /\ table' = table /\ columns' \subseteq columns /\ \A i \in DOMAIN undo[e] : grid'[i] = grid[i]
    BY <1>2 DEF EditInv
  <2> QED  BY <2>1, <2>2, EditCalm
<1> QED  BY <1>6, <1>7, <1>9, <1>10 DEF EditInv

\* Steps that are no user's: the table is altered, or nothing happens.
LEMMA AlterStep ==
    ASSUME EditInv, Alter \/ UNCHANGED evars
    PROVE  EditInv'
<1>1. EditTypes /\ Isolated  BY DEF EditInv
<1>2. /\ UNCHANGED <<plans, table, grid, undo, doing, tokens, fields, typed, queue, wrote, tally, told>>
      /\ columns' = columns \/ (columns = AllColumns /\ columns' = AllColumns \ {"v"})
  BY DEF Alter, evars
<1>3. EditTypes'  BY <1>1, <1>2 DEF EditTypes
<1>4. Isolated'
  <2>1. \A i \in RowIds : /\ NullKey(grid[i])' <=> NullKey(grid[i])
                          /\ \A e \in Editors : NullKey(undo[e][i])' <=> NullKey(undo[e][i])
    BY <1>2 DEF NullKey
  <2> QED  BY <1>1, <1>2, <2>1 DEF Isolated
<1>5. \A e \in Editors : Editing(e)'
  <2> SUFFICES ASSUME NEW e \in Editors PROVE Editing(e)'  OBVIOUS
  <2>1. Aside(e)  BY <1>2 DEF Aside
  <2>2. Editing(e) /\ table' = table /\ columns' \subseteq columns /\ \A i \in DOMAIN undo[e] : grid'[i] = grid[i]
    BY <1>2 DEF EditInv
  <2> QED  BY <2>1, <2>2, EditCalm
<1> QED  BY <1>3, <1>4, <1>5 DEF EditInv

LEMMA EditNext == EditInv /\ [ENext]_evars => EditInv'
<1> SUFFICES ASSUME EditInv, [ENext]_evars PROVE EditInv'  OBVIOUS
<1>1. CASE Alter \/ UNCHANGED evars  BY <1>1, AlterStep
<1>2. ASSUME NEW e \in Editors, Browse(e) PROVE EditInv'  BY <1>2, BrowseStep
<1>3. ASSUME NEW e \in Editors, Exec(e) PROVE EditInv'  BY <1>3, ExecStep
<1>4. ASSUME NEW e \in Editors, Fails(e) PROVE EditInv'  BY <1>4, FailsStep
<1>5. ASSUME NEW e \in Editors, Commits(e) PROVE EditInv'  BY <1>5, CommitsStep
<1>6. ASSUME NEW e \in Editors, NEW l \in Chosen(e), Delete(e, l) PROVE EditInv'  BY <1>6, DeleteStep
<1>7. ASSUME NEW e \in Editors, NEW m \in plans[e] \ {"delete"}, NEW l \in Chosen(e) \cup {<<>>}, OpenForm(e, m, l)
      PROVE  EditInv'
  <2>1. plans[e] \subseteq Chores  BY DEF EditInv, EditTypes
  <2>2. m \in {"insert", "edit", "bulk", "copy"}  BY <2>1 DEF Chores
  <2> QED  BY <1>7, <2>2, OpenFormStep
<1>8. ASSUME NEW e \in Editors, NEW ts \in UNION {[1 .. n -> Typings] : n \in 1 .. MaxChosen}, Submit(e, ts) PROVE EditInv'
  BY <1>8, SubmitStep
<1> QED  BY <1>1, <1>2, <1>3, <1>4, <1>5, <1>6, <1>7, <1>8 DEF ENext

\* What the invariant is for.
LEMMA EditsSound == EditInv => EditsAreHonest
<1> SUFFICES ASSUME EditInv, NEW e \in Editors PROVE Honest(e)  BY DEF EditsAreHonest
<1>1. EditTypes /\ Editing(e)  BY DEF EditInv
<1>2. CASE doing[e] = "done"  BY <1>1, <1>2 DEF Editing
<1>3. CASE doing[e] \in {"once", "tx"}
  <2>1. PICK op \in Ops : Running(e, op)  BY <1>1, <1>3 DEF Editing
  <2>2. /\ \A w \in wrote[e] : w.op = op /\ (op = "update" => AsTyped(e, w.set, w.values))
        /\ Ordinary \/ op = "insert" => \A w, x \in wrote[e] : w.set = x.set => w.place = x.place
        /\ Ordinary /\ op # "insert" /\ KeysKept(e) => \A w, x \in wrote[e] : w.place = x.place => w.set = x.set
    BY <2>1 DEF Running
  <2>3. table.kind = "table"  BY <1>1, <1>3 DEF Editing
  <2>4. \A w \in wrote[e] : w.op = "update" => \A c \in DOMAIN w.values :
          /\ typed[e][w.set][c] # "keep"
          /\ w.values[c] = IF typed[e][w.set][c] = "null" THEN "null" ELSE Sent(typed[e][w.set][c])
    BY <2>2 DEF AsTyped
  <2> QED  BY <1>3, <2>2, <2>3, <2>4 DEF Honest
<1>4. CASE doing[e] \notin {"once", "tx", "done"}
  <2>1. wrote[e] = {}  BY <1>1, <1>4 DEF Editing
  <2> QED  BY <1>4, <2>1 DEF Honest
<1> QED  BY <1>2, <1>3, <1>4

\* A table as the engine lets it be.
LEMMA EditsBegin == EInit(AnyTable, [RowIds -> [AllColumns -> Texts]], [Editors -> SUBSET Chores]) => EditInv
  BY EditStart DEF Row

(***************************************************************************)
(* However edits, copies and deletions of several users overlap, whatever  *)
(* statement fails and is rolled back, and though another client alters    *)
(* the table: readRowValues writes what was typed and nothing else, one    *)
(* key finds one row or the user is told, a request that ends in an error  *)
(* has left nothing or, when the answer was lost, all it asked for, and    *)
(* the numbers of the answer are those of the rows. For any number of      *)
(* users and of places for rows, any rows, and any number of rows in a     *)
(* form.                                                                   *)
(***************************************************************************)
THEOREM EditsKept == ESpec => []EditsAreHonest
<1>1. ESpec => []EditInv  BY EditsBegin, EditNext, PTL DEF ESpec
<1> QED  BY <1>1, EditsSound, PTL

(***************************************************************************)
(* Pages of a table                                                        *)
(***************************************************************************)
Sizes == ToSet(PageSizes)

\* What a quotient leaves is less than the divisor.
LEMMA LastPage ==
    ASSUME NEW t \in Nat, NEW l \in Nat \ {0}
    PROVE  /\ (t \div l) * l \in Nat /\ (t \div l) * l <= t /\ t < (t \div l) * l + l
           /\ t \div l \in Nat
<1>1. t \div l \in Int /\ t % l \in 0 .. l - 1  OBVIOUS
<1>2. t = (t \div l) * l + (t % l)  OBVIOUS
<1> QED  BY <1>1, <1>2

\* What the assumption says of numbers.
LEMMA Bounds == /\ MaxPos \in Nat /\ MaxSize \in Nat /\ MaxSize <= MaxPos
                /\ MaxBrowseOffset \in Nat /\ ShowAllRowCap \in Nat \ {0}
  BY PagesAssumption

\* There is a page size, and none is of no rows.
LEMMA SizesPositive == Sizes \subseteq Nat \ {0} /\ PageSizes[1] \in Sizes /\ Sizes # {}
<1>1. DOMAIN PageSizes = 1 .. Len(PageSizes) /\ Len(PageSizes) \in Nat \ {0}  BY PagesAssumption, LenProperties, EmptySeq
<1> QED  BY <1>1, PagesAssumption DEF Sizes, ToSet

\* clampRowsPerPage returns an option, and an option as it is.
LEMMA ClampedSize ==
    ASSUME NEW n \in Int
    PROVE  ClampRowsPerPage(n) \in Sizes /\ (n \in Sizes => ClampRowsPerPage(n) = n)
<1>0. Sizes \subseteq Nat \ {0} /\ PageSizes[1] \in Sizes /\ Sizes # {}  BY SizesPositive
<1>1. CASE n <= 0  BY <1>0, <1>1 DEF ClampRowsPerPage
<1>2. CASE n > 0
  <2> DEFINE away(o) == Most(o - n, n - o)
             Nearest(o) == \A p \in Sizes : away(o) < away(p) \/ (away(o) = away(p) /\ o <= p)
             D == {away(o) : o \in Sizes}
  <2>1. \A o \in Sizes : away(o) \in Nat /\ (away(o) = 0 <=> o = n)  BY <1>0, <1>2 DEF Most
  <2> HIDE DEF away
  <2>2. PICK o \in Sizes : \A p \in Sizes : away(o) <= away(p)
    <3>1. D \subseteq Nat /\ D # {}  BY <1>0, <2>1
    <3>2. PICK d \in D : \A x \in D : d <= x  BY <3>1, LeastNumber
    <3> QED  BY <3>2
  <2>3. PICK q \in {p \in Sizes : away(p) = away(o)} : \A p \in {p \in Sizes : away(p) = away(o)} : q <= p
    <3> DEFINE T == {p \in Sizes : away(p) = away(o)}
    <3>1. T \subseteq Nat /\ T # {}  BY <1>0, <2>2
    <3> HIDE DEF T
    <3>2. \E m \in T : \A x \in T : m <= x  BY <3>1, LeastNumber
    <3> QED  BY <3>2 DEF T
  <2>4. Nearest(q)  BY <1>0, <2>1, <2>2, <2>3
  <2>5. ClampRowsPerPage(n) = CHOOSE r \in Sizes : Nearest(r)  BY <1>2 DEF ClampRowsPerPage, Sizes, away
  <2>6. ClampRowsPerPage(n) \in Sizes /\ Nearest(ClampRowsPerPage(n))  BY <2>3, <2>4, <2>5
  <2>7. ASSUME n \in Sizes PROVE ClampRowsPerPage(n) = n
    <3>1. away(n) = 0  BY <2>1, <2>7
    <3>2. PICK r \in Sizes : r = ClampRowsPerPage(n) /\ Nearest(r)  BY <2>6
    <3>3. away(r) < away(n) \/ away(r) = away(n)  BY <2>7, <3>2
    <3> QED  BY <2>1, <3>1, <3>2, <3>3
  <2> QED  BY <2>6, <2>7
<1> QED  BY <1>1, <1>2

\* Where a page begins.
LEMMA ClampedPos ==
    ASSUME NEW c \in [total : Int, approx : BOOLEAN], NEW n \in Int, NEW l \in Nat \ {0}
    PROVE  /\ ClampBrowsePos(c, n, l) \in Nat
           /\ n < 0 => ClampBrowsePos(c, n, l) = 0
           /\ n >= 0 => ClampBrowsePos(c, n, l) <= n
           /\ n >= 0 /\ (c.total < 0 \/ c.approx) => ClampBrowsePos(c, n, l) = Least(n, MaxBrowseOffset)
           /\ ~ c.approx /\ c.total > 0 => ClampBrowsePos(c, n, l) < c.total
           /\ n >= 0 /\ ~ c.approx /\ n < c.total => ClampBrowsePos(c, n, l) = n
           /\ n >= 0 /\ ~ c.approx /\ c.total > 0 /\ n >= c.total => ClampBrowsePos(c, n, l) + l >= c.total
<1>1. MaxBrowseOffset \in Nat  BY PagesAssumption
<1>2. CASE n < 0 \/ c.total < 0 \/ c.approx \/ c.total = 0
  BY <1>1, <1>2 DEF ClampBrowsePos, Least
<1>3. CASE n >= 0 /\ c.total > 0 /\ ~ c.approx
  <2>1. c.total - 1 \in Nat  BY <1>3
  <2> DEFINE last == ((c.total - 1) \div l) * l
  <2>2. last \in Nat /\ last <= c.total - 1 /\ c.total - 1 < last + l  BY <2>1, LastPage
  <2>3. ClampBrowsePos(c, n, l) = IF n >= c.total THEN last ELSE n  BY <1>3 DEF ClampBrowsePos
  <2> HIDE DEF last
  <2> QED  BY <1>3, <2>2, <2>3
<1> QED  BY <1>2, <1>3

\* The positions of an address whose columns count: each of a column there is, once.
LEMMA TakenOnce ==
    ASSUME NEW order \in Seq(UrlWords)
    PROVE  /\ Taken(order) \in Seq(1 .. Len(order)) /\ Len(Taken(order)) \in Nat
           /\ \A i \in 1 .. Len(Taken(order)) : order[Taken(order)[i]] \in names
           /\ \A i, j \in 1 .. Len(Taken(order)) : i # j => order[Taken(order)[i]] # order[Taken(order)[j]]
<1> DEFINE all == [n \in DOMAIN order |-> n]
           keys == Omit(all, Passed(order))
<1>1. Len(order) \in Nat /\ DOMAIN order = 1 .. Len(order)  BY LenProperties
<1>2. all \in Seq(1 .. Len(order)) /\ Len(all) = Len(order) /\ \A i \in 1 .. Len(order) : all[i] = i  BY <1>1
<1>3. ToSet(all) = 1 .. Len(order)
  <2>1. DOMAIN all = 1 .. Len(order)  BY <1>1
  <2> HIDE DEF all
  <2> QED  BY <1>2, <2>1 DEF ToSet
<1>4. \A i, j \in 1 .. Len(all) : i # j => all[i] # all[j]  BY <1>2
<1> HIDE DEF all
<1>5. keys \in Seq(1 .. Len(order)) /\ ToSet(keys) = (1 .. Len(order)) \ Passed(order)
  BY <1>2, <1>3, OmitProperties
<1>6. \A i, j \in 1 .. Len(keys) : i # j => keys[i] # keys[j]  BY <1>2, <1>4, OmitDistinct
<1>7. Taken(order) = keys  BY DEF Taken, all
<1> HIDE DEF keys
<1>8. Len(keys) \in Nat /\ \A i \in 1 .. Len(keys) : keys[i] \in 1 .. Len(order) /\ keys[i] \notin Passed(order)
  <2>1. Len(keys) \in Nat /\ DOMAIN keys = 1 .. Len(keys)  BY <1>5, LenProperties
  <2>2. \A i \in 1 .. Len(keys) : keys[i] \in ToSet(keys)  BY <2>1 DEF ToSet
  <2> QED  BY <1>5, <2>1, <2>2
<1>9. ASSUME NEW i \in 1 .. Len(keys), NEW j \in 1 .. Len(keys), i # j
      PROVE  order[keys[i]] # order[keys[j]]
  <2>1. /\ keys[i] \in 1 .. Len(order) /\ keys[i] \notin Passed(order)
        /\ keys[j] \in 1 .. Len(order) /\ keys[j] \notin Passed(order)
        /\ keys[i] # keys[j]
    BY <1>6, <1>8, <1>9
  <2>2. keys[i] < keys[j] \/ keys[j] < keys[i]  BY <1>1, <2>1
  <2>3. \A a, b \in 1 .. Len(order) : a < b /\ order[a] = order[b] => b \in Passed(order)
    BY <1>1 DEF Passed
  <2> QED  BY <2>1, <2>2, <2>3
<1>10. \A i \in 1 .. Len(keys) : order[keys[i]] \in names  BY <1>1, <1>8 DEF Passed
<1> QED  BY <1>5, <1>7, <1>8, <1>9, <1>10

\* Of a list of columns that are there, each once, every one is taken.
LEMMA TakenWhole ==
    ASSUME NEW order \in Seq(UrlWords), \A n \in 1 .. Len(order) : order[n] \in names,
           \A m, n \in 1 .. Len(order) : m # n => order[m] # order[n]
    PROVE  Taken(order) = [n \in 1 .. Len(order) |-> n]
<1> DEFINE all == [n \in DOMAIN order |-> n]
<1>1. Len(order) \in Nat /\ DOMAIN order = 1 .. Len(order)  BY LenProperties
<1>2. Passed(order) = {}
  <2> SUFFICES ASSUME NEW n \in 1 .. Len(order), n \in Passed(order) PROVE FALSE  BY <1>1 DEF Passed
  <2>1. PICK m \in 1 .. n - 1 : order[m] = order[n]  BY <1>1 DEF Passed
  <2> QED  BY <1>1, <2>1
<1>3. all \in Seq(1 .. Len(order))  BY <1>1
<1>4. Omit(all, {}) = all  BY <1>3, OmitNothing
<1> QED  BY <1>1, <1>2, <1>4 DEF Taken

\* What a page knows of sort keys and hidden columns.
Keys == [col : PageColumns, desc : BOOLEAN]
GoodSorts(s) == /\ s \in Seq(Keys) /\ Len(s) <= MaxSortKeys
                /\ \A n \in 1 .. Len(s) : s[n].col \in names
                /\ \A m, n \in 1 .. Len(s) : m # n => s[m].col # s[n].col
GoodHidden(h) == /\ h \in Seq(PageColumns) /\ Len(h) <= Most(Cardinality(names) - 1, 0)
                 /\ \A n \in 1 .. Len(h) : h[n] \in names
                 /\ \A m, n \in 1 .. Len(h) : m # n => h[m] # h[n]

\* parseSorts never repeats a column, names one that is not there or takes
\* more than max_sort_keys.
LEMMA SortsParsed ==
    ASSUME NEW order \in Seq(UrlWords), NEW dir \in Seq(UrlWords), names \subseteq PageColumns
    PROVE  GoodSorts(ParseSorts(order, dir))
<1> DEFINE keys == Taken(order)
           many == Least(Len(keys), MaxSortKeys)
           Desc(n) == keys[n] <= Len(dir) /\ dir[keys[n]] = "desc"
           s == [n \in 1 .. many |-> [col |-> order[keys[n]], desc |-> Desc(n)]]
<1>1. /\ Len(keys) \in Nat
      /\ \A i \in 1 .. Len(keys) : order[keys[i]] \in names
      /\ \A i, j \in 1 .. Len(keys) : i # j => order[keys[i]] # order[keys[j]]
  BY TakenOnce
<1>2. ParseSorts(order, dir) = s  BY DEF ParseSorts
<1> HIDE DEF keys
<1>3. many \in Nat /\ many <= Len(keys) /\ many <= MaxSortKeys  BY <1>1, PagesAssumption DEF Least
<1> HIDE DEF many
<1>4. \A n \in 1 .. many : Desc(n) \in BOOLEAN  OBVIOUS
<1> HIDE DEF Desc
<1>5. \A n \in 1 .. many : s[n] \in Keys /\ s[n].col = order[keys[n]]  BY <1>1, <1>3, <1>4 DEF Keys
<1>6. s \in Seq(Keys) /\ Len(s) = many
  <2>1. s \in [1 .. many -> Keys]  BY <1>5
  <2> HIDE DEF s
  <2> QED  BY <1>3, <2>1
<1> HIDE DEF s
<1>7. \A n \in 1 .. Len(s) : s[n].col \in names  BY <1>1, <1>3, <1>5, <1>6
<1>8. \A m, n \in 1 .. Len(s) : m # n => s[m].col # s[n].col  BY <1>1, <1>3, <1>5, <1>6
<1> QED  BY <1>2, <1>3, <1>6, <1>7, <1>8 DEF GoodSorts

\* Sort keys come back from a URL as they went into it, with their directions.
LEMMA SortsKept ==
    ASSUME NEW s, GoodSorts(s), names \subseteq PageColumns
    PROVE  ParseSorts([n \in DOMAIN s |-> s[n].col], [n \in DOMAIN s |-> IF s[n].desc THEN "desc" ELSE "asc"]) = s
<1> DEFINE order == [n \in DOMAIN s |-> s[n].col]
           dir == [n \in DOMAIN s |-> IF s[n].desc THEN "desc" ELSE "asc"]
<1>1. Len(s) \in Nat /\ DOMAIN s = 1 .. Len(s) /\ \A n \in 1 .. Len(s) : s[n] \in Keys
  BY LenProperties, ElementOfSeq DEF GoodSorts
<1>2. \A n \in 1 .. Len(s) : s[n].col \in UrlWords  BY <1>1, PagesAssumption DEF Keys
<1>3. order \in Seq(UrlWords) /\ Len(order) = Len(s)
  <2>1. order \in [1 .. Len(s) -> UrlWords]  BY <1>1, <1>2
  <2> HIDE DEF order
  <2> QED  BY <1>1, <2>1
<1>4. dir \in Seq(UrlWords) /\ Len(dir) = Len(s)
  <2>1. {"desc", "asc"} \subseteq UrlWords  BY PagesAssumption
  <2>2. dir \in [1 .. Len(s) -> UrlWords]  BY <1>1, <2>1
  <2> HIDE DEF dir
  <2> QED  BY <1>1, <2>2
<1>5. /\ \A n \in 1 .. Len(s) : order[n] = s[n].col /\ dir[n] = IF s[n].desc THEN "desc" ELSE "asc"
  BY <1>1
<1> HIDE DEF order, dir
<1>6. Taken(order) = [n \in 1 .. Len(s) |-> n]
  BY <1>3, <1>5, TakenWhole DEF GoodSorts
<1> DEFINE keys == Taken(order)
<1>7. keys \in Seq(Nat) /\ Len(keys) = Len(s) /\ \A n \in 1 .. Len(s) : keys[n] = n  BY <1>1, <1>6
<1> HIDE DEF keys
<1>8. Least(Len(keys), MaxSortKeys) = Len(s)  BY <1>1, <1>7, PagesAssumption DEF Least, GoodSorts
<1> DEFINE Desc(n) == keys[n] <= Len(dir) /\ dir[keys[n]] = "desc"
<1>9. ParseSorts(order, dir) = [n \in 1 .. Len(s) |-> [col |-> order[keys[n]], desc |-> Desc(n)]]
  BY <1>8 DEF ParseSorts, keys
<1>10. ASSUME NEW n \in 1 .. Len(s) PROVE [col |-> order[keys[n]], desc |-> Desc(n)] = s[n]
  <2>1. keys[n] = n /\ n <= Len(dir) /\ order[n] = s[n].col  BY <1>1, <1>4, <1>5, <1>7
  <2>2. Desc(n) <=> s[n].desc = TRUE  BY <1>1, <1>5, <2>1 DEF Keys
  <2>3. s[n] \in Keys  BY <1>1
  <2>4. Desc(n) \in BOOLEAN  OBVIOUS
  <2> HIDE DEF Desc
  <2>5. Desc(n) = s[n].desc  BY <2>2, <2>3, <2>4 DEF Keys
  <2> QED  BY <2>1, <2>3, <2>5 DEF Keys
<1> HIDE DEF Desc
<1>11. ParseSorts(order, dir) = s
  <2>1. s = [n \in 1 .. Len(s) |-> s[n]]  BY <1>1 DEF GoodSorts
  <2> QED  BY <1>9, <1>10, <2>1
<1> QED  BY <1>11 DEF order, dir

\* parseHidden names only columns that are there, each once, and not all.
LEMMA HiddenParsed ==
    ASSUME NEW hide \in Seq(UrlWords), names \subseteq PageColumns
    PROVE  GoodHidden(ParseHidden(hide))
<1> DEFINE known == Taken(hide)
           many == Least(Len(known), Most(Cardinality(names) - 1, 0))
           h == [n \in 1 .. many |-> hide[known[n]]]
<1>1. /\ Len(known) \in Nat
      /\ \A i \in 1 .. Len(known) : hide[known[i]] \in names
      /\ \A i, j \in 1 .. Len(known) : i # j => hide[known[i]] # hide[known[j]]
  BY TakenOnce
<1>2. ParseHidden(hide) = h  BY DEF ParseHidden
<1> HIDE DEF known
<1>3. Cardinality(names) \in Nat  BY PagesAssumption, FS_Subset, FS_CardinalityType
<1>4. many \in Nat /\ many <= Len(known) /\ many <= Most(Cardinality(names) - 1, 0)  BY <1>1, <1>3 DEF Least, Most
<1> HIDE DEF many
<1>5. \A n \in 1 .. many : h[n] = hide[known[n]] /\ h[n] \in PageColumns  BY <1>1, <1>4
<1>6. h \in Seq(PageColumns) /\ Len(h) = many
  <2>1. h \in [1 .. many -> PageColumns]  BY <1>5
  <2> HIDE DEF h
  <2> QED  BY <1>4, <2>1
<1> HIDE DEF h
<1>7. \A n \in 1 .. Len(h) : h[n] \in names  BY <1>1, <1>4, <1>5, <1>6
<1>8. \A m, n \in 1 .. Len(h) : m # n => h[m] # h[n]  BY <1>1, <1>4, <1>5, <1>6
<1> QED  BY <1>2, <1>4, <1>6, <1>7, <1>8 DEF GoodHidden

\* Hidden columns come back from a URL as they went into it.
LEMMA HiddenKept ==
    ASSUME NEW h, GoodHidden(h), names \subseteq PageColumns
    PROVE  h \in Seq(UrlWords) /\ ParseHidden(h) = h
<1>1. /\ h \in Seq(PageColumns) /\ Len(h) \in Nat /\ DOMAIN h = 1 .. Len(h)
  BY LenProperties DEF GoodHidden
<1>2. h \in Seq(UrlWords)
  <2>1. PageColumns \subseteq UrlWords  BY PagesAssumption
  <2> QED  BY <1>1, <2>1
<1>3. Taken(h) = [n \in 1 .. Len(h) |-> n]  BY <1>2, TakenWhole DEF GoodHidden
<1> DEFINE known == Taken(h)
<1>4. known \in Seq(Nat) /\ Len(known) = Len(h) /\ \A n \in 1 .. Len(h) : known[n] = n  BY <1>1, <1>3
<1> HIDE DEF known
<1>5. Cardinality(names) \in Nat  BY PagesAssumption, FS_Subset, FS_CardinalityType
<1>6. Least(Len(known), Most(Cardinality(names) - 1, 0)) = Len(h)  BY <1>1, <1>4, <1>5 DEF Least, Most, GoodHidden
<1>7. ParseHidden(h) = [n \in 1 .. Len(h) |-> h[known[n]]]  BY <1>6 DEF ParseHidden, known
<1>8. h = [n \in 1 .. Len(h) |-> h[n]]  BY <1>1
<1> QED  BY <1>2, <1>4, <1>7, <1>8

\* A column is left to be seen.
LEMMA OneVisible ==
    ASSUME NEW h, GoodHidden(h), names \subseteq PageColumns, names # {}
    PROVE  names \ ToSet(h) # {}
<1> SUFFICES ASSUME names \subseteq ToSet(h) PROVE FALSE  OBVIOUS
<1>1. IsFiniteSet(names) /\ Cardinality(names) \in Nat  BY PagesAssumption, FS_Subset, FS_CardinalityType
<1>2. Cardinality(names) > 0  BY <1>1, FS_EmptySet
<1>3. Len(h) \in Nat /\ DOMAIN h = 1 .. Len(h) /\ Len(h) < Cardinality(names)
  BY <1>1, <1>2, LenProperties DEF GoodHidden, Most
<1>4. h \in Surjection(1 .. Len(h), ToSet(h))
  <2>1. h \in [1 .. Len(h) -> ToSet(h)]
    <3>1. \A n \in 1 .. Len(h) : h[n] \in ToSet(h)  BY <1>3 DEF ToSet
    <3>2. h = [n \in 1 .. Len(h) |-> h[n]]  BY <1>3 DEF GoodHidden
    <3> QED  BY <3>1, <3>2
  <2>2. \A x \in ToSet(h) : \E n \in 1 .. Len(h) : h[n] = x  BY <1>3 DEF ToSet
  <2> QED  BY <2>1, <2>2 DEF Surjection
<1>5. IsFiniteSet(1 .. Len(h)) /\ Cardinality(1 .. Len(h)) = Len(h)
  <2>1. \A n \in Nat : IsFiniteSet(1 .. n) /\ Cardinality(1 .. n) = IF 1 > n THEN 0 ELSE n - 1 + 1
    BY ONLY FS_Interval
  <2>2. \A n \in Nat : (IF 1 > n THEN 0 ELSE n - 1 + 1) = n  OBVIOUS
  <2>3. Len(h) \in Nat  BY <1>3
  <2> HIDE DEF ToSet
  <2> QED  BY ONLY <2>1, <2>2, <2>3
<1>6. IsFiniteSet(ToSet(h)) /\ Cardinality(ToSet(h)) <= Len(h)  BY <1>4, <1>5, FS_Surjection
<1>7. Cardinality(names) <= Cardinality(ToSet(h)) /\ Cardinality(ToSet(h)) \in Nat
  BY <1>6, FS_Subset, FS_CardinalityType
<1> QED  BY <1>1, <1>3, <1>6, <1>7

(***************************************************************************)
(* The invariant                                                           *)
(***************************************************************************)
ShownPages == [pos : Nat, got : Nat, limit : Nat \ {0}, all : BOOLEAN, rows : Sizes, exact : BOOLEAN,
               next : BOOLEAN, prev : BOOLEAN, last : Int, whole : BOOLEAN, total : Int, approx : BOOLEAN,
               sorts : Seq(Keys), hidden : Seq(PageColumns)]
Lefts == [pos : Nat, got : Nat, all : BOOLEAN, limit : Nat \ {0}, approx : BOOLEAN,
          sorts : Seq(Keys), hidden : Seq(PageColumns)]
Counts == [total : Nat \cup {-1}, approx : BOOLEAN]
Ways == {"none", "typed", "next", "last", "prev", "exact", "all", "sort", "hide"}

PageTypes ==
    /\ height \in 0 .. MaxSize /\ names \subseteq PageColumns /\ view \in BOOLEAN
    /\ perPage \in Sizes /\ changes \in Nat /\ steady \in BOOLEAN
    /\ url \in Urls \cup {NoUrl} /\ page \in ShownPages \cup {NoPage}
    /\ count \in Counts \cup {[total |-> -2]}
    /\ came \in [by : Ways, from : Lefts \cup {NoPage}]
    /\ url = NoUrl <=> page # NoPage
    /\ count \in Counts => url # NoUrl

\* An exact count is that of the rows there are.
Counted(c) == ~ c.approx /\ c.total >= 0 => c.total = height

\* A page that shows what there is.
PageHolds(p) ==
    /\ ~ p.all => (p.next <=> p.pos + p.got < height)
    /\ p.whole => p.got = height
    /\ p.total > 0 /\ ~ p.approx => p.got > 0
    /\ GoodSorts(p.sorts) /\ GoodHidden(p.hidden)
    /\ p.limit = IF p.all THEN ShowAllRowCap ELSE p.rows
    /\ p.all => p.pos = 0
    /\ p.prev => p.pos > 0
    /\ ~ p.all /\ p.next => p.got = p.limit
    /\ ~ p.approx /\ p.total > 0 => height > 0 /\ p.last = ((height - 1) \div p.limit) * p.limit

\* A request carries the sort keys s.
Carries(u, s) == /\ u.order = [n \in DOMAIN s |-> s[n].col]
                 /\ u.dir = [n \in DOMAIN s |-> IF s[n].desc THEN "desc" ELSE "asc"]

\* A link carries what it does not change, and leads where it says.
LinkedTo(u, by, p) ==
    /\ GoodSorts(p.sorts) /\ GoodHidden(p.hidden)
    /\ IF p.all THEN p.limit = ShowAllRowCap ELSE p.limit \in Sizes
    /\ IF by = "all" THEN IF p.all THEN u.rows \in Sizes ELSE u.rows = AllRows
       ELSE u.rows = IF p.all THEN AllRows ELSE p.limit
    /\ by \in {"next", "prev", "last"} => ~ p.all
    /\ by = "next" => u.pos = p.pos + p.limit /\ p.got = p.limit /\ u.pos < height
    /\ by = "prev" => p.pos > 0 /\ u.pos = Most(0, p.pos - p.limit)
    /\ by = "last" /\ ~ p.approx => height > 0 /\ u.pos = ((height - 1) \div p.limit) * p.limit
    /\ by # "sort" => Carries(u, p.sorts)
    /\ by # "hide" => u.hide = p.hidden

\* Where a link has led.
Arrived(p, by, old) ==
    /\ by = "next" =>
          \/ p.pos = old.pos + old.got
          \/ p.pos = MaxBrowseOffset /\ p.pos < old.pos + old.got /\ (p.approx \/ p.total < 0)
    /\ by = "prev" =>
          /\ p.pos < old.pos
          /\ \/ p.pos + p.limit >= Least(old.pos, height)
             \/ p.pos = MaxBrowseOffset /\ (p.approx \/ p.total < 0)
    /\ by = "last" /\ ~ old.approx /\ p.total >= 0 /\ ~ p.approx => p.pos + p.got = height
    /\ by # "sort" => p.sorts = old.sorts
    /\ by # "hide" => p.hidden = old.hidden
    /\ by = "all" => p.all # old.all
    /\ by # "all" => p.limit = old.limit

PagesInv ==
    /\ PageTypes
    /\ steady /\ count \in Counts => Counted(count)
    /\ steady /\ url # NoUrl /\ came.from # NoPage => LinkedTo(url, came.by, came.from)
    /\ steady /\ page # NoPage => PageHolds(page) /\ (came.from # NoPage => Arrived(page, came.by, came.from))

\* No request is NoUrl, no page is NoPage, and no count is the one not yet taken.
LEMMA Apart == NoUrl \notin Urls /\ NoPage \notin ShownPages /\ NoPage \notin Lefts
               /\ [total |-> -2] \notin Counts
<1>1. NoUrl \notin Urls
  <2> SUFFICES ASSUME NoUrl \in Urls PROVE FALSE  OBVIOUS
  <2>1. "rows" \in DOMAIN NoUrl  BY DEF Urls
  <2> QED  BY <2>1 DEF NoUrl
<1>2. NoPage \notin ShownPages
  <2> SUFFICES ASSUME NoPage \in ShownPages PROVE FALSE  OBVIOUS
  <2>1. NoPage.pos \in Nat  BY DEF ShownPages
  <2> QED  BY <2>1 DEF NoPage
<1>3. NoPage \notin Lefts
  <2> SUFFICES ASSUME NoPage \in Lefts PROVE FALSE  OBVIOUS
  <2>1. NoPage.pos \in Nat  BY DEF Lefts
  <2> QED  BY <2>1 DEF NoPage
<1>4. [total |-> -2] \notin Counts
  <2> SUFFICES ASSUME [total |-> -2] \in Counts PROVE FALSE  OBVIOUS
  <2>1. [total |-> -2].total \in Nat \cup {-1}  BY DEF Counts
  <2> QED  BY <2>1
<1> QED  BY <1>1, <1>2, <1>3, <1>4

\* What the invariant says of a page is all that PagesCover asks.
LEMMA PagesSound == PagesInv => PagesCover
<1> SUFFICES ASSUME PagesInv, page # NoPage, steady PROVE PagesCover  BY DEF PagesCover
<1>1. PageHolds(page) /\ page \in ShownPages /\ names \subseteq PageColumns  BY DEF PagesInv, PageTypes
<1>2. came.from # NoPage => Arrived(page, came.by, came.from)  BY DEF PagesInv
<1>3. GoodSorts(page.sorts) /\ GoodHidden(page.hidden)  BY <1>1 DEF PageHolds
<1>4. names # {} => names \ ToSet(page.hidden) # {}  BY <1>1, <1>3, OneVisible
<1>5. Len(page.sorts) <= MaxSortKeys
      /\ \A m, n \in DOMAIN page.sorts : page.sorts[m].col = page.sorts[n].col => m = n
  BY <1>3, LenProperties DEF GoodSorts
<1>6. /\ ~ page.all => (page.next <=> page.pos + page.got < height)
      /\ page.whole => page.got = height
      /\ page.total > 0 /\ ~ page.approx => page.got > 0
  BY <1>1 DEF PageHolds
<1> QED  BY <1>2, <1>4, <1>5, <1>6 DEF PagesCover, Arrived

\* The first request has no page and no link behind it.
LEMMA PagesBegin == GInit(AnySize) => PagesInv
<1> SUFFICES ASSUME GInit(AnySize) PROVE PagesInv  OBVIOUS
<1>1. PICK t \in AnySize : height = t.height /\ view = t.view /\ names = t.names /\ perPage = PageSizes[1]
  BY DEF GInit
<1>2. /\ url = [pos |-> 0, rows |-> 0, exact |-> FALSE, order |-> <<>>, dir |-> <<>>, hide |-> <<>>]
      /\ count = [total |-> -2] /\ steady = TRUE /\ changes = 0 /\ page = NoPage
      /\ came = [by |-> "none", from |-> NoPage]
  BY DEF GInit
<1>3. url \in Urls
  <2>1. <<>> \in Seq(UrlWords)  OBVIOUS
  <2> QED  BY <1>2, <2>1 DEF Urls
<1>4. /\ height \in 0 .. MaxSize /\ names \subseteq PageColumns /\ view \in BOOLEAN
      /\ perPage \in Sizes
  BY <1>1, SizesPositive DEF AnySize
<1>5. came \in [by : Ways, from : Lefts \cup {NoPage}] /\ came.from = NoPage  BY <1>2 DEF Ways
<1>6. PageTypes  BY <1>2, <1>3, <1>4, <1>5, Apart DEF PageTypes
<1> QED  BY <1>2, <1>5, <1>6, Apart DEF PagesInv

\* tableRowCount is exact, or says that it is not.
LEMMA CountSays ==
    ASSUME PageTypes, NEW exact \in BOOLEAN, NEW c \in TableRowCount(exact)
    PROVE  c \in Counts /\ Counted(c)
<1>1. height \in Nat /\ MaxExactCount \in Nat /\ MaxSize \in Nat  BY PagesAssumption DEF PageTypes
<1>2. c \in ExactCount \/ c = Bounded \/ \E n \in MaxExactCount + 1 .. MaxSize + 1 : c = [total |-> n, approx |-> TRUE]
  BY DEF TableRowCount, ExactCount
<1>3. CASE c \in ExactCount
  <2>1. c = [total |-> height, approx |-> FALSE] \/ c = [total |-> -1, approx |-> FALSE]  BY <1>3 DEF ExactCount
  <2>2. CASE c = [total |-> height, approx |-> FALSE]  BY <1>1, <2>2 DEF Counts, Counted
  <2>3. CASE c = [total |-> -1, approx |-> FALSE]  BY <2>3 DEF Counts, Counted
  <2> QED  BY <2>1, <2>2, <2>3
<1>4. CASE c = Bounded
  <2>1. c = [total |-> MaxExactCount, approx |-> TRUE] \/ c = [total |-> height, approx |-> FALSE]  BY <1>4 DEF Bounded
  <2>2. CASE c = [total |-> height, approx |-> FALSE]  BY <1>1, <2>2 DEF Counts, Counted
  <2>3. CASE c = [total |-> MaxExactCount, approx |-> TRUE]  BY <1>1, <2>3 DEF Counts, Counted
  <2> QED  BY <2>1, <2>2, <2>3
<1>5. ASSUME NEW n \in MaxExactCount + 1 .. MaxSize + 1, c = [total |-> n, approx |-> TRUE]
      PROVE  c \in Counts /\ Counted(c)
  <2>1. n \in Nat  BY <1>1
  <2> QED  BY <1>5, <2>1 DEF Counts, Counted
<1> QED  BY <1>2, <1>3, <1>4, <1>5

\* The count is of the table as it is when it is taken.
LEMMA CountRowsStep == PagesInv /\ CountRows => PagesInv'
<1> SUFFICES ASSUME PagesInv, CountRows PROVE PagesInv'  OBVIOUS
<1>1. PageTypes /\ url \in Urls /\ page = NoPage  BY DEF PagesInv, PageTypes, CountRows
<1>2. PICK c \in TableRowCount(url.exact) : count' = c  BY DEF CountRows
<1>3. UNCHANGED <<height, names, view, changes, perPage, url, steady, page, came>>  BY DEF CountRows
<1>4. url.exact \in BOOLEAN  BY <1>1 DEF Urls
<1>5. c \in Counts /\ Counted(c)  BY <1>1, <1>4, CountSays
<1>6. PageTypes'  BY <1>1, <1>2, <1>3, <1>5, Apart DEF PageTypes
<1>7. Counted(count)'  BY <1>2, <1>3, <1>5 DEF Counted
<1>8. steady /\ came.from # NoPage => LinkedTo(url, came.by, came.from)  BY <1>1, Apart DEF PagesInv
<1>9. steady' /\ came'.from # NoPage => LinkedTo(url, came.by, came.from)'
  BY <1>3, <1>8 DEF LinkedTo, GoodSorts, GoodHidden
<1> QED  BY <1>1, <1>3, <1>6, <1>7, <1>9 DEF PagesInv

\* A request starts without a count, and its link is still what it was.
LEMMA AskStep ==
    ASSUME PagesInv, page # NoPage, NEW u \in Urls, NEW by \in Ways, Ask(u, by),
           steady /\ by # "typed" => LinkedTo(u, by, Left(page))
    PROVE  PagesInv'
<1>1. PageTypes /\ page \in ShownPages /\ url = NoUrl  BY DEF PagesInv, PageTypes
<1>2. count \notin Counts  BY <1>1 DEF PageTypes
<1>3. /\ url' = u /\ page' = NoPage /\ steady' = TRUE
      /\ came' = [by |-> by, from |-> IF steady /\ by # "typed" THEN Left(page) ELSE NoPage]
      /\ UNCHANGED <<count, height, names, view, changes, perPage>>
  BY DEF Ask
<1>4. Left(page) \in Lefts  BY <1>1 DEF Left, Lefts, ShownPages
<1>5. PICK q \in Lefts \cup {NoPage} : /\ q = IF steady /\ by # "typed" THEN Left(page) ELSE NoPage
                                       /\ came' = [by |-> by, from |-> q]
  BY <1>3, <1>4
<1>6. came'.from = q /\ came'.by = by /\ came' \in [by : Ways, from : Lefts \cup {NoPage}]  BY <1>5
<1>7. PageTypes'  BY <1>1, <1>2, <1>3, <1>6, Apart DEF PageTypes
<1>8. q # NoPage => LinkedTo(u, by, q)  BY <1>5
<1>9. q # NoPage => LinkedTo(u, by, q)'  BY <1>3, <1>8 DEF LinkedTo, GoodSorts, GoodHidden
<1>10. came'.from # NoPage => LinkedTo(url, came.by, came.from)'  BY <1>3, <1>6, <1>9 DEF LinkedTo
<1> QED  BY <1>2, <1>3, <1>7, <1>10 DEF PagesInv

\* What others do to the table ends what the page and its links say of it.
LEMMA ChangeStep == PagesInv /\ (Change \/ OtherTab \/ Typed) => PagesInv'
<1>1. ASSUME PagesInv, Change PROVE PagesInv'
  <2>1. PageTypes  BY <1>1 DEF PagesInv
  <2>2. /\ steady' = FALSE /\ changes' = changes + 1
        /\ UNCHANGED <<view, perPage, url, count, page, came>>
    BY <1>1 DEF Change
  <2>3. height' \in 0 .. MaxSize /\ names' \subseteq PageColumns  BY <1>1, <2>1 DEF Change, PageTypes
  <2>4. PageTypes'
    <3>1. steady' \in BOOLEAN  BY <2>2
    <3>2. changes' \in Nat  BY <2>1, <2>2 DEF PageTypes
    <3> QED  BY <2>1, <2>2, <2>3, <3>1, <3>2 DEF PageTypes
  <2> QED  BY <2>2, <2>4 DEF PagesInv
<1>2. ASSUME PagesInv, OtherTab PROVE PagesInv'
  <2>1. PageTypes  BY <1>2 DEF PagesInv
  <2>2. /\ changes' = changes + 1 /\ perPage' \in Sizes
        /\ UNCHANGED <<height, names, view, url, count, steady, page, came>>
    BY <1>2 DEF OtherTab, Sizes
  <2>3. PageTypes'  BY <2>1, <2>2 DEF PageTypes
  <2>4. steady' /\ count' \in Counts => Counted(count)'  BY <1>2, <2>2 DEF PagesInv, Counted
  <2>5. steady' /\ url' # NoUrl /\ came'.from # NoPage => LinkedTo(url, came.by, came.from)'
    BY <1>2, <2>2 DEF PagesInv, LinkedTo, GoodSorts, GoodHidden
  <2>6. steady' /\ page' # NoPage => PageHolds(page)' /\ (came'.from # NoPage => Arrived(page, came.by, came.from)')
    BY <1>2, <2>2 DEF PagesInv, PageHolds, Arrived, GoodSorts, GoodHidden
  <2> QED  BY <2>3, <2>4, <2>5, <2>6 DEF PagesInv
<1>3. ASSUME PagesInv, Typed PROVE PagesInv'
  <2>1. PICK u \in TypedUrls : Ask(u, "typed")  BY <1>3 DEF Typed
  <2>2. page # NoPage /\ u \in Urls /\ "typed" \in Ways  BY <1>3, PagesAssumption DEF Typed, Ways
  <2> QED  BY <1>3, <2>1, <2>2, AskStep
<1> QED  BY <1>1, <1>2, <1>3

\* browseQuery.values puts every part of a page into its URL.
LEMMA LinkFields ==
    ASSUME NEW pos \in Int, NEW rows \in Int, NEW exact \in BOOLEAN, NEW s \in Seq(Keys), NEW h \in Seq(PageColumns)
    PROVE  /\ Link(pos, rows, exact, s, h) \in Urls
           /\ Link(pos, rows, exact, s, h).pos = pos /\ Link(pos, rows, exact, s, h).rows = rows
           /\ Link(pos, rows, exact, s, h).hide = h
           /\ Carries(Link(pos, rows, exact, s, h), s)
<1> DEFINE order == [n \in DOMAIN s |-> s[n].col]
           dir == [n \in DOMAIN s |-> IF s[n].desc THEN "desc" ELSE "asc"]
<1>1. Len(s) \in Nat /\ DOMAIN s = 1 .. Len(s) /\ \A n \in 1 .. Len(s) : s[n] \in Keys
  BY LenProperties, ElementOfSeq
<1>2. order \in Seq(UrlWords)
  <2>1. \A n \in 1 .. Len(s) : s[n].col \in UrlWords  BY <1>1, PagesAssumption DEF Keys
  <2>2. order \in [1 .. Len(s) -> UrlWords]  BY <1>1, <2>1
  <2> HIDE DEF order
  <2> QED  BY <1>1, <2>2
<1>3. dir \in Seq(UrlWords)
  <2>1. {"desc", "asc"} \subseteq UrlWords  BY PagesAssumption
  <2>2. dir \in [1 .. Len(s) -> UrlWords]  BY <1>1, <2>1
  <2> HIDE DEF dir
  <2> QED  BY <1>1, <2>2
<1>4. h \in Seq(UrlWords)
  <2>1. PageColumns \subseteq UrlWords  BY PagesAssumption
  <2> QED  BY <2>1
<1>5. Link(pos, rows, exact, s, h) = [pos |-> pos, rows |-> rows, exact |-> exact, hide |-> h, order |-> order, dir |-> dir]
  BY DEF Link
<1> HIDE DEF order, dir
<1>6. Link(pos, rows, exact, s, h) \in Urls  BY <1>2, <1>3, <1>4, <1>5 DEF Urls
<1> QED  BY <1>5, <1>6 DEF order, dir, Carries

\* A link of a page.
LEMMA LinkStep ==
    ASSUME PagesInv, page # NoPage, NEW u \in Urls, NEW by \in Ways, Ask(u, by),
           by = "all" => u.rows = IF page.all THEN page.rows ELSE AllRows,
           by # "all" => u.rows = IF page.all THEN AllRows ELSE page.rows,
           by \in {"next", "last"} => ~ page.all,
           by = "next" => page.next /\ u.pos = SatAdd(page.pos, page.limit),
           by = "prev" => page.prev /\ u.pos = Most(0, page.pos - page.limit),
           by = "last" => page.total > 0 /\ u.pos = page.last,
           by # "sort" => Carries(u, page.sorts),
           by # "hide" => u.hide = page.hidden
    PROVE  PagesInv'
<1> SUFFICES ASSUME steady PROVE LinkedTo(u, by, Left(page))  BY AskStep
<1>1. PageTypes /\ page \in ShownPages /\ PageHolds(page)  BY DEF PagesInv, PageTypes
<1>2. PICK p \in Lefts : /\ p = Left(page) /\ p.pos = page.pos /\ p.got = page.got /\ p.all = page.all
                         /\ p.limit = page.limit /\ p.approx = page.approx
                         /\ p.sorts = page.sorts /\ p.hidden = page.hidden
  <2>1. Left(page) \in Lefts
    <3>1. /\ page.pos \in Nat /\ page.got \in Nat /\ page.all \in BOOLEAN /\ page.limit \in Nat \ {0}
          /\ page.approx \in BOOLEAN /\ page.sorts \in Seq(Keys) /\ page.hidden \in Seq(PageColumns)
      BY <1>1 DEF ShownPages
    <3> QED  BY <3>1 DEF Left, Lefts
  <2> QED  BY <2>1 DEF Left
<1>3. GoodSorts(p.sorts) /\ GoodHidden(p.hidden)  BY <1>1, <1>2 DEF PageHolds
<1>4. /\ IF p.all THEN p.limit = ShowAllRowCap ELSE p.limit \in Sizes
      /\ IF by = "all" THEN IF p.all THEN u.rows \in Sizes ELSE u.rows = AllRows
         ELSE u.rows = IF p.all THEN AllRows ELSE p.limit
  BY <1>1, <1>2 DEF PageHolds, ShownPages
<1>5. /\ page.pos \in Nat /\ page.got \in Nat /\ page.limit \in Nat \ {0} /\ page.total \in Int
      /\ height \in Nat /\ height <= MaxPos /\ MaxPos \in Nat
  <2>1. height \in 0 .. MaxSize  BY <1>1 DEF PageTypes
  <2>2. height \in Nat /\ height <= MaxPos /\ MaxPos \in Nat  BY <2>1, Bounds
  <2>3. page \in ShownPages  BY <1>1
  <2> QED  BY <2>2, <2>3 DEF ShownPages
<1>6. by \in {"next", "prev", "last"} => ~ page.all  BY <1>1, <1>5 DEF PageHolds
<1>7. by = "next" => u.pos = page.pos + page.limit /\ page.got = page.limit /\ u.pos < height
  BY <1>1, <1>5, <1>6 DEF PageHolds, SatAdd
<1>8. by = "prev" => page.pos > 0 /\ u.pos = Most(0, page.pos - page.limit)  BY <1>1 DEF PageHolds
<1>9. by = "last" /\ ~ page.approx => height > 0 /\ u.pos = ((height - 1) \div page.limit) * page.limit
  BY <1>1 DEF PageHolds
<1>10. LinkedTo(u, by, p)  BY <1>2, <1>3, <1>4, <1>6, <1>7, <1>8, <1>9 DEF LinkedTo
<1> QED  BY <1>2, <1>10

\* Toggling or appending a sort key leaves keys of columns that are there.
LEMMA SortsTyped ==
    ASSUME NEW s \in Seq(Keys), NEW c \in PageColumns
    PROVE  PrimarySortToggle(s, c) \in Seq(Keys) /\ AppendSortKey(s, c) \in Seq(Keys)
<1>1. Len(s) \in Nat /\ DOMAIN s = 1 .. Len(s) /\ \A n \in 1 .. Len(s) : s[n] \in Keys
  BY LenProperties, ElementOfSeq
<1>2. \A d \in BOOLEAN : [col |-> c, desc |-> d] \in Keys  BY DEF Keys
<1>3. PrimarySortToggle(s, c) \in Seq(Keys)
  <2> DEFINE d == s # <<>> /\ s[1].col = c /\ ~ s[1].desc
  <2>1. d \in BOOLEAN  OBVIOUS
  <2> HIDE DEF d
  <2>2. [col |-> c, desc |-> d] \in Keys  BY <1>2, <2>1
  <2>3. <<[col |-> c, desc |-> d]>> \in Seq(Keys)  BY <2>2
  <2> QED  BY <2>3 DEF PrimarySortToggle, d
<1>4. AppendSortKey(s, c) \in Seq(Keys)
  <2> DEFINE turned == [n \in DOMAIN s |-> IF s[n].col = c THEN [s[n] EXCEPT !.desc = ~ @] ELSE s[n]]
  <2>1. turned \in Seq(Keys)
    <3>1. \A k \in Keys : [k EXCEPT !.desc = ~ @] \in Keys  BY DEF Keys
    <3>2. turned \in [1 .. Len(s) -> Keys]  BY <1>1, <3>1
    <3> HIDE DEF turned
    <3> QED  BY <1>1, <3>2
  <2>2. Append(s, [col |-> c, desc |-> FALSE]) \in Seq(Keys)
    <3>1. [col |-> c, desc |-> FALSE] \in Keys  BY <1>2
    <3> QED  BY <3>1
  <2> HIDE DEF turned
  <2>3. AppendSortKey(s, c) \in {turned, s, Append(s, [col |-> c, desc |-> FALSE])}  BY DEF AppendSortKey, turned
  <2> QED  BY <2>1, <2>2, <2>3
<1> QED  BY <1>3, <1>4

\* Every link of a page leads where it says and carries the rest.
LEMMA FollowStep == PagesInv /\ Follow => PagesInv'
<1> SUFFICES ASSUME PagesInv, Follow PROVE PagesInv'  OBVIOUS
<1> DEFINE rows == IF page.all THEN AllRows ELSE page.rows
           to(pos) == Link(pos, rows, page.exact, page.sorts, page.hidden)
           sorted(s) == Link(0, rows, page.exact, s, page.hidden)
           hiding(h) == Link(page.pos, rows, page.exact, page.sorts, h)
<1>1. page # NoPage /\ page \in ShownPages /\ names \subseteq PageColumns  BY DEF Follow, PagesInv, PageTypes
<1>2. /\ page.pos \in Nat /\ page.limit \in Nat \ {0} /\ page.last \in Int /\ page.exact \in BOOLEAN
      /\ page.all \in BOOLEAN /\ page.rows \in Sizes
      /\ page.sorts \in Seq(Keys) /\ page.hidden \in Seq(PageColumns)
  BY <1>1 DEF ShownPages
<1>3. rows \in Int /\ page.rows \in Int /\ AllRows \in Int
  <2>1. page.rows \in Nat  BY <1>2, SizesPositive
  <2>2. AllRows \in Int  BY DEF AllRows
  <2> QED  BY <2>1, <2>2
<1>4. \/ page.next /\ ~ page.all /\ Ask(to(SatAdd(page.pos, page.limit)), "next")
      \/ page.next /\ ~ page.all /\ page.total > 0 /\ Ask(to(page.last), "last")
      \/ page.prev /\ Ask(to(Most(0, page.pos - page.limit)), "prev")
      \/ page.approx /\ Ask([to(page.pos) EXCEPT !.exact = TRUE], "exact")
      \/ Ask([to(0) EXCEPT !.rows = IF page.all THEN page.rows ELSE AllRows], "all")
      \/ \E c \in names : \/ Ask(sorted(PrimarySortToggle(page.sorts, c)), "sort")
                          \/ Ask(sorted(AppendSortKey(page.sorts, c)), "sort")
      \/ \E c \in names : Ask(hiding(Append(page.hidden, c)), "hide")
      \/ \E c \in names \cup PageColumns \cup ToSet(page.hidden) : Ask(hiding(Omit(page.hidden, {c})), "hide")
  BY DEF Follow
<1>5. \A pos \in Int : /\ to(pos) \in Urls /\ to(pos).pos = pos /\ to(pos).rows = rows
                       /\ to(pos).hide = page.hidden /\ Carries(to(pos), page.sorts)
  <2> HIDE DEF rows
  <2> SUFFICES ASSUME NEW pos \in Int
               PROVE  /\ to(pos) \in Urls /\ to(pos).pos = pos /\ to(pos).rows = rows
                      /\ to(pos).hide = page.hidden /\ Carries(to(pos), page.sorts)
    OBVIOUS
  <2> DEFINE u == Link(pos, rows, page.exact, page.sorts, page.hidden)
  <2>1. /\ page.pos \in Int /\ page.exact \in BOOLEAN /\ page.sorts \in Seq(Keys)
        /\ page.hidden \in Seq(PageColumns) /\ rows \in Int /\ 0 \in Int
    BY <1>2, <1>3
  <2>2. u \in Urls  BY ONLY pos \in Int, <2>1, LinkFields
  <2>3. u.pos = pos  BY ONLY pos \in Int, <2>1, LinkFields
  <2>4. u.rows = rows  BY ONLY pos \in Int, <2>1, LinkFields
  <2>5. u.hide = page.hidden  BY ONLY pos \in Int, <2>1, LinkFields
  <2>6. Carries(u, page.sorts)  BY ONLY pos \in Int, <2>1, LinkFields
  <2> HIDE DEF u
  <2> QED  BY <2>2, <2>3, <2>4, <2>5, <2>6 DEF u
<1>6. \A s \in Seq(Keys) : sorted(s) \in Urls /\ sorted(s).rows = rows /\ sorted(s).hide = page.hidden
  <2> HIDE DEF rows
  <2> SUFFICES ASSUME NEW s \in Seq(Keys)
               PROVE  sorted(s) \in Urls /\ sorted(s).rows = rows /\ sorted(s).hide = page.hidden
    OBVIOUS
  <2> DEFINE u == Link(0, rows, page.exact, s, page.hidden)
  <2>1. /\ page.pos \in Int /\ page.exact \in BOOLEAN /\ page.sorts \in Seq(Keys)
        /\ page.hidden \in Seq(PageColumns) /\ rows \in Int /\ 0 \in Int
    BY <1>2, <1>3
  <2>2. u \in Urls  BY ONLY s \in Seq(Keys), <2>1, LinkFields
  <2>3. u.rows = rows  BY ONLY s \in Seq(Keys), <2>1, LinkFields
  <2>4. u.hide = page.hidden  BY ONLY s \in Seq(Keys), <2>1, LinkFields
  <2> HIDE DEF u
  <2> QED  BY <2>2, <2>3, <2>4 DEF u
<1>7. \A h \in Seq(PageColumns) : hiding(h) \in Urls /\ hiding(h).rows = rows /\ Carries(hiding(h), page.sorts)
  <2> HIDE DEF rows
  <2> SUFFICES ASSUME NEW h \in Seq(PageColumns)
               PROVE  hiding(h) \in Urls /\ hiding(h).rows = rows /\ Carries(hiding(h), page.sorts)
    OBVIOUS
  <2> DEFINE u == Link(page.pos, rows, page.exact, page.sorts, h)
  <2>1. /\ page.pos \in Int /\ page.exact \in BOOLEAN /\ page.sorts \in Seq(Keys)
        /\ page.hidden \in Seq(PageColumns) /\ rows \in Int /\ 0 \in Int
    BY <1>2, <1>3
  <2>2. u \in Urls  BY ONLY h \in Seq(PageColumns), <2>1, LinkFields
  <2>3. u.rows = rows  BY ONLY h \in Seq(PageColumns), <2>1, LinkFields
  <2>4. Carries(u, page.sorts)  BY ONLY h \in Seq(PageColumns), <2>1, LinkFields
  <2> HIDE DEF u
  <2> QED  BY <2>2, <2>3, <2>4 DEF u
<1>8. SatAdd(page.pos, page.limit) \in Int /\ Most(0, page.pos - page.limit) \in Int
  BY <1>2, Bounds DEF SatAdd, Most
<1>9. {"next", "last", "prev", "exact", "all", "sort", "hide"} \subseteq Ways  BY DEF Ways
<1> HIDE DEF to, sorted, hiding
<1>10. CASE page.next /\ ~ page.all /\ Ask(to(SatAdd(page.pos, page.limit)), "next")
  <2>1. PICK u \in Urls : u = to(SatAdd(page.pos, page.limit))  BY <1>5, <1>8
  <2> QED  BY <1>1, <1>5, <1>8, <1>9, <1>10, <2>1, LinkStep
<1>11. CASE page.next /\ ~ page.all /\ page.total > 0 /\ Ask(to(page.last), "last")
  <2>1. PICK u \in Urls : u = to(page.last)  BY <1>2, <1>5
  <2> QED  BY <1>1, <1>2, <1>5, <1>9, <1>11, <2>1, LinkStep
<1>12. CASE page.prev /\ Ask(to(Most(0, page.pos - page.limit)), "prev")
  <2>1. PICK u \in Urls : u = to(Most(0, page.pos - page.limit))  BY <1>5, <1>8
  <2> QED  BY <1>1, <1>5, <1>8, <1>9, <1>12, <2>1, LinkStep
<1>13. CASE Ask([to(page.pos) EXCEPT !.exact = TRUE], "exact")
  <2>1. PICK v \in Urls : v = to(page.pos)  BY <1>2, <1>5
  <2>2. v.rows = rows /\ v.hide = page.hidden /\ Carries(v, page.sorts)  BY <1>2, <1>5, <2>1
  <2>3. PICK u \in Urls : u = [v EXCEPT !.exact = TRUE]  BY DEF Urls
  <2>4. u.rows = v.rows /\ u.hide = v.hide /\ u.order = v.order /\ u.dir = v.dir  BY <2>3 DEF Urls
  <2>5. u.rows = rows /\ u.hide = page.hidden /\ Carries(u, page.sorts)  BY <2>2, <2>4 DEF Carries
  <2>6. Ask(u, "exact")  BY <1>13, <2>1, <2>3
  <2> QED  BY <1>1, <1>9, <2>5, <2>6, LinkStep
<1>14. CASE Ask([to(0) EXCEPT !.rows = IF page.all THEN page.rows ELSE AllRows], "all")
  <2>1. PICK v \in Urls : v = to(0)  BY <1>5
  <2>2. v.hide = page.hidden /\ Carries(v, page.sorts)  BY <1>5, <2>1
  <2>3. PICK n \in Int : n = IF page.all THEN page.rows ELSE AllRows  BY <1>3
  <2>4. PICK u \in Urls : u = [v EXCEPT !.rows = n]  BY DEF Urls
  <2>5. u.rows = n /\ u.hide = v.hide /\ u.order = v.order /\ u.dir = v.dir  BY <2>4 DEF Urls
  <2>6. u.hide = page.hidden /\ Carries(u, page.sorts)  BY <2>2, <2>5 DEF Carries
  <2>7. Ask(u, "all")  BY <1>14, <2>1, <2>3, <2>4
  <2> QED  BY <1>1, <1>9, <2>3, <2>5, <2>6, <2>7, LinkStep
<1>15. ASSUME NEW s \in Seq(Keys), Ask(sorted(s), "sort") PROVE PagesInv'
  <2>1. PICK u \in Urls : u = sorted(s)  BY <1>6
  <2> QED  BY <1>1, <1>6, <1>9, <1>15, <2>1, LinkStep
<1>16. ASSUME NEW h \in Seq(PageColumns), Ask(hiding(h), "hide") PROVE PagesInv'
  <2>1. PICK u \in Urls : u = hiding(h)  BY <1>7
  <2> QED  BY <1>1, <1>7, <1>9, <1>16, <2>1, LinkStep
<1>17. \A c \in names : /\ PrimarySortToggle(page.sorts, c) \in Seq(Keys)
                        /\ AppendSortKey(page.sorts, c) \in Seq(Keys)
                        /\ Append(page.hidden, c) \in Seq(PageColumns)
  <2> SUFFICES ASSUME NEW c \in names
               PROVE  /\ PrimarySortToggle(page.sorts, c) \in Seq(Keys)
                      /\ AppendSortKey(page.sorts, c) \in Seq(Keys)
                      /\ Append(page.hidden, c) \in Seq(PageColumns)
    OBVIOUS
  <2>1. c \in PageColumns /\ page.sorts \in Seq(Keys) /\ page.hidden \in Seq(PageColumns)  BY <1>1, <1>2
  <2>2. Append(page.hidden, c) \in Seq(PageColumns)  BY <2>1, AppendProperties
  <2> QED  BY <2>1, <2>2, SortsTyped
<1>18. \A c : Omit(page.hidden, {c}) \in Seq(PageColumns)  BY <1>2, OmitProperties
<1> QED  BY <1>4, <1>10, <1>11, <1>12, <1>13, <1>14, <1>15, <1>16, <1>17, <1>18

\* What a page shows of the rows there are.
LEMMA ShownRows ==
    ASSUME height \in Nat, NEW c \in Counts, Counted(c), NEW all \in BOOLEAN, NEW limit \in Nat \ {0},
           NEW pos \in Nat, all => pos = 0, ~ c.approx /\ c.total > 0 => pos < c.total,
           ~ c.approx /\ c.total = 0 => pos = 0,
           NEW probing, probing <=> c.total < 0 \/ c.approx \/ all,
           NEW there, there = RowsFrom(pos, limit + (IF probing THEN 1 ELSE 0)),
           NEW read \in ScanResult(there, all),
           NEW next, next <=> HasNext(c, pos, limit, probing /\ read > limit),
           NEW got, got = Least(read, limit),
           NEW whole, whole <=> pos = 0 /\ ~ next /\ ~ (all /\ (read < there \/ read > limit)) /\ read > 0
    PROVE  /\ got \in Nat /\ (got = 0 \/ pos + got <= height)
           /\ ~ all => (next <=> pos + got < height)
           /\ whole => got = height
           /\ c.total > 0 /\ ~ c.approx => got > 0
           /\ ~ all /\ next => got = limit
<1> DEFINE n == limit + (IF probing THEN 1 ELSE 0)
<1>1. c.total \in Int /\ c.approx \in BOOLEAN  BY DEF Counts
<1>2. n \in Nat /\ n >= limit /\ n <= limit + 1 /\ (probing => n = limit + 1) /\ (~ probing => n = limit)  OBVIOUS
<1> HIDE DEF n
<1>3. /\ there \in Nat /\ there <= n /\ (pos + there <= height \/ there = 0)
      /\ there = n \/ pos + there >= height
  BY <1>2 DEF RowsFrom, Least, Most, n
<1>4. read \in Nat /\ read <= there /\ (~ all => read = there) /\ (there > 0 => read > 0)
  <2>1. CASE all /\ there > 0  BY <1>3, <2>1 DEF ScanResult
  <2>2. CASE ~ (all /\ there > 0)  BY <1>3, <2>2 DEF ScanResult
  <2> QED  BY <2>1, <2>2
<1>5. got \in Nat /\ got <= read /\ got <= limit /\ (got = read \/ got = limit)  BY <1>4 DEF Least
<1>6. ~ c.approx /\ c.total >= 0 => c.total = height  BY DEF Counted
<1>7. got = 0 \/ pos + got <= height  BY <1>3, <1>4, <1>5
<1>8. CASE c.total < 0 \/ c.approx
  <2>1. probing /\ (next <=> read > limit)  BY <1>8 DEF HasNext
  <2>2. n = limit + 1  BY <1>2, <2>1
  <2>3. ~ all => (next <=> pos + got < height)  BY <1>3, <1>4, <1>5, <2>1, <2>2
  <2>4. whole => got = height  BY <1>3, <1>4, <1>5, <2>1, <2>2
  <2> QED  BY <1>1, <1>4, <1>5, <1>8, <1>7, <2>1, <2>3, <2>4
<1>9. CASE c.total >= 0 /\ ~ c.approx
  <2>1. c.total = height /\ (next <=> height - pos > limit)  BY <1>1, <1>6, <1>9 DEF HasNext
  <2>2. height > 0 => pos < height  BY <2>1, <1>9
  <2>3. height = 0 => pos = 0  BY <2>1, <1>9
  <2>4. ~ all => n = limit /\ ~ probing  BY <1>1, <1>2, <1>9
  <2>5. ~ all => (next <=> pos + got < height)  BY <1>3, <1>4, <1>5, <2>1, <2>2, <2>3, <2>4
  <2>6. whole => got = height
    <3>1. CASE all
      <4>1. probing  BY <3>1
      <4> QED  BY <1>2, <1>3, <1>4, <1>5, <2>1, <3>1, <4>1
    <3>2. CASE ~ all  BY <1>3, <1>4, <1>5, <2>1, <2>4, <3>2
    <3> QED  BY <3>1, <3>2
  <2>7. height > 0 => got > 0  BY <1>2, <1>3, <1>4, <1>5, <2>2
  <2>8. ~ all /\ next => got = limit  BY <1>3, <1>4, <1>5, <2>1, <2>4
  <2> QED  BY <1>5, <1>7, <2>1, <2>5, <2>6, <2>7, <2>8
<1> QED  BY <1>1, <1>8, <1>9

\* browseNavFor's last page begins at the last multiple of the page size.
LEMMA LastLink ==
    ASSUME NEW c \in Counts, NEW l \in Nat \ {0}
    PROVE  /\ Most(Pages(c, l) - 1, 0) * l \in Int
           /\ c.total > 0 => Most(Pages(c, l) - 1, 0) * l = ((c.total - 1) \div l) * l
<1>1. c.total \in Int  BY DEF Counts
<1>2. CASE c.total > 0
  <2> DEFINE q == (c.total - 1) \div l
  <2>1. c.total - 1 \in Nat  BY <1>1, <1>2
  <2>2. q \in Nat /\ q * l \in Nat  BY <2>1, LastPage
  <2>3. Pages(c, l) = q + 1  BY <1>2 DEF Pages
  <2> HIDE DEF q
  <2>4. Most(Pages(c, l) - 1, 0) = q  BY <2>2, <2>3 DEF Most
  <2> QED  BY <2>2, <2>4 DEF q
<1>3. CASE ~ c.total > 0
  <2>1. Most(Pages(c, l) - 1, 0) = 0  BY <1>3 DEF Pages, Most
  <2> QED  BY <1>3, <2>1
<1> QED  BY <1>2, <1>3

\* Where a request that a link has made leads.
LEMMA Arrives ==
    ASSUME PageTypes, NEW u \in Urls, NEW by \in Ways, NEW old \in Lefts, LinkedTo(u, by, old),
           NEW c \in Counts, Counted(c),
           NEW p \in ShownPages, p.all <=> u.rows = AllRows,
           p.limit = IF p.all THEN ShowAllRowCap ELSE ClampRowsPerPage(u.rows),
           ~ p.all => p.pos = ClampBrowsePos(c, u.pos, p.limit),
           p.total = c.total, p.approx = c.approx,
           p.sorts = ParseSorts(u.order, u.dir), p.hidden = ParseHidden(u.hide),
           ~ p.all => (p.next <=> p.pos + p.got < height), ~ p.all /\ p.next => p.got = p.limit,
           p.got \in Nat, p.got = 0 \/ p.pos + p.got <= height
    PROVE  Arrived(p, by, old)
<1>1. /\ u.rows \in Int /\ u.pos \in Int /\ old.pos \in Nat /\ old.got \in Nat /\ old.limit \in Nat \ {0}
      /\ old.all \in BOOLEAN /\ p.all \in BOOLEAN /\ height \in Nat /\ names \subseteq PageColumns
      /\ c.total \in Nat \cup {-1} /\ c.approx \in BOOLEAN /\ c \in [total : Int, approx : BOOLEAN]
      /\ p.pos \in Nat /\ p.limit \in Nat \ {0}
  <2>1. u.rows \in Int /\ u.pos \in Int  BY DEF Urls
  <2>2. old.pos \in Nat /\ old.got \in Nat /\ old.limit \in Nat \ {0} /\ old.all \in BOOLEAN  BY DEF Lefts
  <2>3. p.all \in BOOLEAN /\ p.pos \in Nat /\ p.limit \in Nat \ {0}  BY DEF ShownPages
  <2>4. height \in Nat /\ names \subseteq PageColumns  BY PagesAssumption DEF PageTypes
  <2>5. c.total \in Nat \cup {-1} /\ c.approx \in BOOLEAN /\ c \in [total : Int, approx : BOOLEAN]  BY DEF Counts
  <2> QED  BY <2>1, <2>2, <2>3, <2>4, <2>5
<1>2. Sizes \subseteq Nat \ {0} /\ AllRows = -9  BY SizesPositive DEF AllRows
<1>3. by = "all" => p.all # old.all  BY <1>1, <1>2 DEF LinkedTo
<1>4. by # "all" => p.limit = old.limit /\ p.all = old.all
  <2> SUFFICES ASSUME by # "all" PROVE p.limit = old.limit /\ p.all = old.all  OBVIOUS
  <2>1. u.rows = IF old.all THEN AllRows ELSE old.limit  BY DEF LinkedTo
  <2>2. CASE old.all  BY <1>1, <2>1, <2>2 DEF LinkedTo
  <2>3. CASE ~ old.all
    <3>1. old.limit \in Sizes  BY <2>3 DEF LinkedTo
    <3>2. u.rows = old.limit /\ ~ p.all  BY <1>1, <1>2, <2>1, <2>3, <3>1
    <3> QED  BY <1>1, <2>3, <3>1, <3>2, ClampedSize
  <2> QED  BY <1>1, <2>2, <2>3
<1>5. by # "sort" => p.sorts = old.sorts
  <2> SUFFICES ASSUME by # "sort" PROVE p.sorts = old.sorts  OBVIOUS
  <2>1. Carries(u, old.sorts) /\ GoodSorts(old.sorts)  BY DEF LinkedTo
  <2>2. ParseSorts([n \in DOMAIN old.sorts |-> old.sorts[n].col],
                   [n \in DOMAIN old.sorts |-> IF old.sorts[n].desc THEN "desc" ELSE "asc"]) = old.sorts
    BY <1>1, <2>1, SortsKept
  <2> QED  BY <2>1, <2>2 DEF Carries
<1>6. by # "hide" => p.hidden = old.hidden  BY <1>1, HiddenKept DEF LinkedTo
<1>7. ~ p.all =>
        /\ u.pos >= 0 => p.pos <= u.pos
        /\ u.pos >= 0 /\ (c.total < 0 \/ c.approx) => p.pos = Least(u.pos, MaxBrowseOffset)
        /\ u.pos >= 0 /\ ~ c.approx /\ u.pos < c.total => p.pos = u.pos
        /\ u.pos >= 0 /\ ~ c.approx /\ c.total > 0 /\ u.pos >= c.total => p.pos + p.limit >= c.total
  BY <1>1, ClampedPos
<1>8. ~ c.approx /\ c.total >= 0 => c.total = height  BY DEF Counted
<1>9. MaxBrowseOffset \in Nat  BY PagesAssumption
<1>10. ASSUME by = "next"
       PROVE  \/ p.pos = old.pos + old.got
              \/ p.pos = MaxBrowseOffset /\ p.pos < old.pos + old.got /\ (p.approx \/ p.total < 0)
  <2>1. ~ p.all /\ u.pos = old.pos + old.got /\ u.pos < height  BY <1>1, <1>4, <1>10 DEF LinkedTo
  <2>2. CASE c.total < 0 \/ c.approx  BY <1>1, <1>7, <1>9, <2>1, <2>2 DEF Least
  <2>3. CASE c.total >= 0 /\ ~ c.approx  BY <1>1, <1>7, <1>8, <2>1, <2>3
  <2> QED  BY <1>1, <2>2, <2>3
<1>11. ASSUME by = "prev"
       PROVE  /\ p.pos < old.pos
              /\ \/ p.pos + p.limit >= Least(old.pos, height)
                 \/ p.pos = MaxBrowseOffset /\ (p.approx \/ p.total < 0)
  <2>1. /\ ~ p.all /\ old.pos > 0 /\ p.limit = old.limit /\ u.pos = Most(0, old.pos - old.limit)
    BY <1>1, <1>4, <1>11 DEF LinkedTo
  <2>2. u.pos >= 0 /\ u.pos < old.pos /\ u.pos + p.limit >= old.pos  BY <1>1, <2>1 DEF Most
  <2>3. p.pos < old.pos  BY <1>1, <1>7, <2>1, <2>2
  <2>4. CASE c.total < 0 \/ c.approx
    <3>1. p.pos = u.pos \/ p.pos = MaxBrowseOffset  BY <1>1, <1>7, <1>9, <2>1, <2>2, <2>4 DEF Least
    <3>2. p.approx \/ p.total < 0  BY <2>4
    <3> QED  BY <1>1, <2>2, <2>3, <3>1, <3>2 DEF Least
  <2>5. CASE c.total >= 0 /\ ~ c.approx
    <3>1. c.total = height  BY <1>8, <2>5
    <3>2. p.pos = u.pos \/ p.pos + p.limit >= height  BY <1>1, <1>7, <2>1, <2>2, <2>5, <3>1
    <3> QED  BY <1>1, <2>2, <2>3, <3>2 DEF Least
  <2> QED  BY <1>1, <2>4, <2>5
<1>12. ASSUME by = "last", ~ old.approx, p.total >= 0, ~ p.approx PROVE p.pos + p.got = height
  <2>1. /\ ~ p.all /\ p.limit = old.limit /\ height > 0
        /\ u.pos = ((height - 1) \div old.limit) * old.limit
    BY <1>1, <1>4, <1>12 DEF LinkedTo
  <2>2. height - 1 \in Nat /\ u.pos \in Nat /\ u.pos <= height - 1 /\ height - 1 < u.pos + p.limit
    <3>1. height - 1 \in Nat /\ old.limit \in Nat \ {0}  BY <1>1, <2>1
    <3>2. /\ u.pos \in Nat /\ u.pos <= height - 1 /\ height - 1 < u.pos + old.limit
      BY <2>1, <3>1, LastPage
    <3> QED  BY <2>1, <3>1, <3>2
  <2>3. p.pos = u.pos  BY <1>1, <1>7, <1>8, <1>12, <2>1, <2>2
  <2>4. ~ p.next \/ p.got = p.limit  BY <2>1
  <2>5. p.pos + p.got >= height  BY <1>1, <2>1, <2>2, <2>3, <2>4
  <2> QED  BY <1>1, <2>2, <2>3, <2>5
<1> QED  BY <1>3, <1>4, <1>5, <1>6, <1>10, <1>11, <1>12 DEF Arrived

\* showBrowse: the page read is of the rows there are from where its link leads.
LEMMA ReadRowsStep == PagesInv /\ ReadRows => PagesInv'
<1> SUFFICES ASSUME PagesInv, ReadRows PROVE PagesInv'  OBVIOUS
<1> DEFINE all == url.rows = AllRows
           limit == IF all THEN ShowAllRowCap ELSE ClampRowsPerPage(url.rows)
           pos == IF all THEN 0 ELSE ClampBrowsePos(count, url.pos, limit)
           probing == count.total < 0 \/ count.approx \/ all
           there == RowsFrom(pos, limit + (IF probing THEN 1 ELSE 0))
           rows == IF all THEN perPage ELSE limit
           last == Most(Pages(count, limit) - 1, 0) * limit
           Next(read) == HasNext(count, pos, limit, probing /\ read > limit)
           Whole(read) == pos = 0 /\ ~ Next(read) /\ ~ (all /\ (read < there \/ read > limit)) /\ read > 0
           Shows(read) == [pos |-> pos, got |-> Least(read, limit), limit |-> limit, all |-> all,
                           rows |-> rows, exact |-> url.exact, next |-> Next(read), prev |-> pos > 0,
                           last |-> last, whole |-> Whole(read), total |-> count.total, approx |-> count.approx,
                           sorts |-> ParseSorts(url.order, url.dir), hidden |-> ParseHidden(url.hide)]
<1>1. /\ count.total > -2 /\ url' = NoUrl /\ count' = [total |-> -2] /\ perPage' = rows
      /\ UNCHANGED <<height, names, view, changes, steady, came>>
  BY DEF ReadRows
<1>2. PICK read \in ScanResult(there, all) : page' = Shows(read)
  BY DEF ReadRows
<1>3. PageTypes /\ count \in Counts /\ url \in Urls
  <2>1. PageTypes  BY DEF PagesInv
  <2>2. count \in Counts  BY <1>1, <2>1 DEF PageTypes
  <2> QED  BY <2>1, <2>2 DEF PageTypes
<1>4. /\ url.rows \in Int /\ url.pos \in Int /\ url.exact \in BOOLEAN
      /\ url.order \in Seq(UrlWords) /\ url.dir \in Seq(UrlWords) /\ url.hide \in Seq(UrlWords)
      /\ height \in Nat /\ names \subseteq PageColumns /\ perPage \in Sizes
      /\ count.total \in Int /\ count.approx \in BOOLEAN /\ count \in [total : Int, approx : BOOLEAN]
  <2>1. height \in Nat /\ names \subseteq PageColumns /\ perPage \in Sizes  BY <1>3, Bounds DEF PageTypes
  <2>2. count.total \in Int /\ count.approx \in BOOLEAN /\ count \in [total : Int, approx : BOOLEAN]
    BY <1>3 DEF Counts
  <2> QED  BY <1>3, <2>1, <2>2 DEF Urls
<1>5. /\ all \in BOOLEAN /\ limit \in Nat \ {0} /\ rows \in Sizes
      /\ all => limit = ShowAllRowCap
      /\ ~ all => limit = ClampRowsPerPage(url.rows) /\ limit = rows
  BY <1>4, ClampedSize, SizesPositive, PagesAssumption
<1> HIDE DEF limit, rows
<1>6. /\ pos \in Nat /\ (all => pos = 0)
      /\ ~ all => pos = ClampBrowsePos(count, url.pos, limit)
      /\ ~ count.approx /\ count.total > 0 => pos < count.total
      /\ ~ count.approx /\ count.total = 0 => pos = 0
  <2>1. CASE all  BY <1>4, <2>1
  <2>2. CASE ~ all
    <3>1. pos = ClampBrowsePos(count, url.pos, limit)  BY <2>2
    <3>2. ~ count.approx /\ count.total = 0 => pos = 0  BY <3>1 DEF ClampBrowsePos
    <3> QED  BY <1>4, <1>5, <2>2, <3>1, <3>2, ClampedPos
  <2> QED  BY <2>1, <2>2
<1> HIDE DEF all, pos
<1>7. GoodSorts(ParseSorts(url.order, url.dir)) /\ GoodHidden(ParseHidden(url.hide))
  BY <1>4, SortsParsed, HiddenParsed
<1>8. last \in Int /\ (count.total > 0 => last = ((count.total - 1) \div limit) * limit)
  BY <1>3, <1>5, LastLink
<1> DEFINE p == Shows(read)
<1>9. Least(read, limit) \in Nat
  <2>1. there \in Nat  BY <1>4, <1>5, <1>6 DEF RowsFrom, Least, Most
  <2> HIDE DEF there
  <2>2. read \in Nat  BY <2>1 DEF ScanResult
  <2> QED  BY <1>5, <2>2 DEF Least
<1>10. Next(read) \in BOOLEAN /\ Whole(read) \in BOOLEAN /\ (pos > 0) \in BOOLEAN
  <2>1. Next(read) \in BOOLEAN
    <3>1. (count.total - pos > limit) \in BOOLEAN  BY <1>4, <1>5, <1>6, SMT
    <3>2. (probing /\ read > limit) \in BOOLEAN  BY Zenon
    <3> QED  BY <3>1, <3>2, Zenon DEF HasNext
  <2>2. Whole(read) \in BOOLEAN  BY Zenon
  <2>3. (pos > 0) \in BOOLEAN  BY <1>6, SMT
  <2> QED  BY <2>1, <2>2, <2>3
<1> HIDE DEF Next, Whole, last
<1>11. /\ p.pos = pos /\ p.got = Least(read, limit) /\ p.limit = limit /\ p.all = all /\ p.rows = rows
       /\ p.next = Next(read) /\ p.prev = (pos > 0) /\ p.last = last /\ p.whole = Whole(read)
       /\ p.total = count.total /\ p.approx = count.approx
       /\ p.sorts = ParseSorts(url.order, url.dir) /\ p.hidden = ParseHidden(url.hide)
  OBVIOUS
<1>12. p \in ShownPages
  <2>1. ParseSorts(url.order, url.dir) \in Seq(Keys) /\ ParseHidden(url.hide) \in Seq(PageColumns)
    BY <1>7 DEF GoodSorts, GoodHidden
  <2> QED  BY <1>4, <1>5, <1>6, <1>8, <1>9, <1>10, <2>1 DEF ShownPages
<1> HIDE DEF Shows
<1>13. page' = p /\ page' # NoPage  BY <1>2, <1>12, Apart
<1>14. PageTypes'
  BY <1>1, <1>3, <1>5, <1>12, <1>13, Apart DEF PageTypes
<1>15. ASSUME steady PROVE PageHolds(p) /\ (came.from # NoPage => Arrived(p, came.by, came.from))
  <2>1. Counted(count)  BY <1>3, <1>15 DEF PagesInv
  <2>2. probing <=> count.total < 0 \/ count.approx \/ all  OBVIOUS
  <2>3. there = RowsFrom(pos, limit + (IF probing THEN 1 ELSE 0))  OBVIOUS
  <2>4. Next(read) <=> HasNext(count, pos, limit, probing /\ read > limit)  BY DEF Next
  <2>5. Whole(read) <=> pos = 0 /\ ~ Next(read) /\ ~ (all /\ (read < there \/ read > limit)) /\ read > 0
    BY DEF Whole
  <2> HIDE DEF probing, there
  <2>6. /\ p.got \in Nat /\ (p.got = 0 \/ p.pos + p.got <= height)
        /\ ~ p.all => (p.next <=> p.pos + p.got < height)
        /\ p.whole => p.got = height
        /\ p.total > 0 /\ ~ p.approx => p.got > 0
        /\ ~ p.all /\ p.next => p.got = p.limit
    <3> HIDE DEF p
    <3> QED  BY <1>3, <1>4, <1>5, <1>6, <1>11, <2>1, <2>2, <2>3, <2>4, <2>5, ShownRows
  <2> HIDE DEF p
  <2>7. ~ p.approx /\ p.total > 0 => height > 0 /\ p.last = ((height - 1) \div p.limit) * p.limit
    BY <1>4, <1>8, <1>11, <2>1 DEF Counted
  <2>8. PageHolds(p)  BY <1>5, <1>6, <1>7, <1>11, <2>6, <2>7 DEF PageHolds
  <2>9. ASSUME came.from # NoPage PROVE Arrived(p, came.by, came.from)
    <3>1. url # NoUrl /\ came.by \in Ways /\ came.from \in Lefts  BY <1>3, <2>9, Apart DEF PageTypes
    <3>2. LinkedTo(url, came.by, came.from)  BY <1>15, <2>9, <3>1 DEF PagesInv
    <3>3. p.all <=> url.rows = AllRows  BY <1>11 DEF all
    <3>4. p.limit = IF p.all THEN ShowAllRowCap ELSE ClampRowsPerPage(url.rows)  BY <1>5, <1>11
    <3>5. ~ p.all => p.pos = ClampBrowsePos(count, url.pos, p.limit)  BY <1>6, <1>11
    <3> QED  BY <1>3, <1>11, <1>12, <2>1, <2>6, <3>1, <3>2, <3>3, <3>4, <3>5, Arrives
  <2> QED  BY <2>8, <2>9
<1>16. steady' => PageHolds(page)' /\ (came'.from # NoPage => Arrived(page, came.by, came.from)')
  <2> HIDE DEF p
  <2> SUFFICES ASSUME steady'
               PROVE  PageHolds(page)' /\ (came'.from # NoPage => Arrived(page, came.by, came.from)')
    OBVIOUS
  <2>1. PageHolds(p) /\ (came.from # NoPage => Arrived(p, came.by, came.from))  BY <1>1, <1>15
  <2>2. PageHolds(page)'  BY <1>1, <1>13, <2>1 DEF PageHolds, GoodSorts, GoodHidden
  <2>3. came'.from # NoPage => Arrived(page, came.by, came.from)'  BY <1>1, <1>13, <2>1 DEF Arrived
  <2> QED  BY <2>2, <2>3
<1> QED  BY <1>1, <1>14, <1>16, Apart DEF PagesInv

\* Every step keeps the invariant.
LEMMA PagesNext == PagesInv /\ [GNext]_gvars => PagesInv'
<1> SUFFICES ASSUME PagesInv, [GNext]_gvars PROVE PagesInv'  OBVIOUS
<1>1. CASE UNCHANGED gvars
  <2>1. PageTypes'  BY <1>1 DEF PagesInv, PageTypes, gvars
  <2>2. steady' /\ count' \in Counts => Counted(count)'  BY <1>1 DEF PagesInv, Counted, gvars
  <2>3. steady' /\ url' # NoUrl /\ came'.from # NoPage => LinkedTo(url, came.by, came.from)'
    BY <1>1 DEF PagesInv, LinkedTo, GoodSorts, GoodHidden, gvars
  <2>4. steady' /\ page' # NoPage => PageHolds(page)' /\ (came'.from # NoPage => Arrived(page, came.by, came.from)')
    BY <1>1 DEF PagesInv, PageHolds, Arrived, GoodSorts, GoodHidden, gvars
  <2> QED  BY <2>1, <2>2, <2>3, <2>4 DEF PagesInv
<1> QED  BY <1>1, CountRowsStep, ReadRowsStep, FollowStep, ChangeStep DEF GNext

(***************************************************************************)
(* Paging leads through the whole table whatever the count is worth:       *)
(* browseNavFor offers a next page exactly when rows are left, and         *)
(* clampBrowsePos lets it begin where the page before it ended; the way    *)
(* back leaves no row out; a page never lies beyond an exact count; and    *)
(* parseSorts and parseHidden read back what browseQuery.values wrote,     *)
(* without repeating a key or hiding every column. For a table of any size *)
(* and columns, any page sizes and limits, and whatever address is typed.  *)
(***************************************************************************)
THEOREM PagesKept == GSpec => []PagesCover
<1>1. GSpec => []PagesInv  BY PagesBegin, PagesNext, PTL DEF GSpec
<1> QED  BY <1>1, PagesSound, PTL
=============================================================================
