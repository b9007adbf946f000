------------------------- MODULE MCComponentClaims -------------------------
(***************************************************************************)
(* What comments of the other components say of them and the code does not *)
(* keep (README, "What the code does against its own words"). A behaviour  *)
(* takes the machines one after the other, each from one initial state,    *)
(* until it has refuted what is claimed of the one at hand.                *)
(***************************************************************************)
EXTENDS MCComponents

VARIABLE refuted   \* the claims refuted so far

\* The machines in their order, and what is claimed of each.
Machines == <<"dump", "audit", "program", "tree", "sequence", "request", "access", "structure", "age">>
ClaimsOf ==
    [dump      |-> {"NoDropBlocked"},
     audit     |-> {"MarkedIsUndone", "LinesStayReadable"},
     program   |-> {"PickedIsMeant", "RestoredIsDropped"},
     tree      |-> {"DefaultsReestablished", "PartitionsRideAlong"},
     sequence  |-> {"NothingExternal"},
     request   |-> {"LoginsLeaveEvents", "RejectedNotFiledOk"},
     access    |-> {"RoutineIsThePages", "FailedDidNothing"},
     structure |-> {"FieldsKept", "TraitsKept", "NewerKept"},
     age       |-> {"InUseNotEnded"}]

\* Whether a step refutes a claim: by where it leads, or by itself.
Refutes(c) ==
    CASE c = "NoDropBlocked" -> ~NoDropBlocked'
      [] c = "MarkedIsUndone" -> ~MarkedIsUndone'
      [] c = "LinesStayReadable" -> ~LinesStayReadable'
      [] c = "PickedIsMeant" -> ~PickedIsMeant'
      [] c = "RestoredIsDropped" -> ~RestoredIsDropped'
      [] c = "DefaultsReestablished" -> ~DefaultsReestablished'
      [] c = "PartitionsRideAlong" -> ~PartitionsRideAlong'
      [] c = "NothingExternal" -> ~NothingExternal'
      [] c = "LoginsLeaveEvents" -> ~LoginsLeaveEvents'
      [] c = "RejectedNotFiledOk" -> ~RejectedNotFiledOk'
      [] c = "RoutineIsThePages" -> ~RoutineIsThePages'
      [] c = "FailedDidNothing" -> ~FailedDidNothing'
      [] c = "FieldsKept" -> ~OnSubmit(FieldsKept)
      [] c = "TraitsKept" -> ~OnSubmit(TraitsKept)
      [] c = "NewerKept" -> ~OnSubmit(NewerKept)
      [] c = "InUseNotEnded" -> ~EndsUnused

\* A routine of a cycle that needs another, a table and an aggregate.
Cyclic == [need |-> {<<"f", "g">>, <<"f", "a">>, <<"g", "t">>, <<"a", "f">>}, clause |-> {}]

\* A linked child that declares its column without the default of its parent; and a
\* partition, exported with them but without its root.
Mixture == <<[Relation("r", 0, <<>>) EXCEPT !.def = "1"], [Relation("r", 0, <<1>>) EXCEPT !.local = TRUE],
             Relation("p", 0, <<>>), Relation("r", 3, <<>>)>>

\* A table whose column draws from a sequence of another schema.
FarUses == [t \in AllTables |-> CASE t = "t" -> Default("bound", "t_id", "") [] t = "u" -> Default("bound", "far", "")
                                  [] OTHER -> Identity]

\* A user who is logged in logs in again; and one whose session is gone edits rows.
Strayed == Pair(Demand("login", FALSE, TRUE, "live", TRUE), Demand("rows", FALSE, TRUE, "pre", TRUE))

\* The right to execute the first of the two overloads is granted.
GrantFirst == Wish("grant", "ann", "routine", "none", "execute", 1)

\* A column with a default in blanks and with a trait TableX does not read.
Restless == RelationOf(9, "table", <<[Leading("text") EXCEPT !.def = Def("literal", " a "), !.traits = {"hidden"}], Second>>, {})

ClaimsInit ==
    /\ part = Machines[1] /\ refuted = {}
    /\ DInit({Cyclic}) /\ SInit({Job("sqlite", TRUE, 0, <<>>)}) /\ AInit /\ MInit
    /\ TInit({[r \in Logins |-> Form("i1", "", "")]})
    /\ PInit({FALSE}, {{"z", "f2"}})
    /\ QInit({Site("off", {})}, {Strayed})
    /\ EInit({Table("view", FALSE, FALSE, FALSE)}, {Filled(NoRow, NoRow)}, {Doing({}, {})})
    /\ GInit({[height |-> 0, view |-> FALSE, names |-> {}]})
    /\ HInit({Mixture}) /\ wanted = Request("db", {1, 2, 4}, FALSE, TRUE, TRUE)
    /\ YInit({Source(FarUses, FALSE, {Blank_})})
    /\ LInit({"postgres"}, [s \in Servers |-> {{}}], [s \in Servers |-> {GrantFirst}])
    /\ XInit({CHOOSE n \in Nodes : TRUE})
    /\ OInit({"mysql"}, {Restless}, {"one"}, 0)

Run_ ==
    /\ ~(ClaimsOf[part] \subseteq refuted)
    /\ Next
    /\ refuted' = refuted \cup {c \in ClaimsOf[part] : Refutes(c)}

MoveOn ==
    /\ ClaimsOf[part] \subseteq refuted
    /\ \E i \in 1 .. (Len(Machines) - 1) : Machines[i] = part /\ part' = Machines[i + 1]
    /\ UNCHANGED <<refuted, dvars, svars, avars, tvars, mvars, pvars, qvars, evars, gvars, hvars, lvars, yvars, xvars, ovars>>

ClaimsSpec == ClaimsInit /\ [][Run_ \/ MoveOn]_<<refuted, vars>>

\* A machine that has refuted its claims is not looked at again.
AtHand == <<part, refuted,
    CASE part = "dump" -> dvars [] part = "audit" -> avars [] part = "program" -> pvars [] part = "tree" -> hvars
      [] part = "sequence" -> yvars [] part = "request" -> qvars [] part = "access" -> lvars
      [] part = "structure" -> ovars [] part = "age" -> xvars>>

\* Some claim stands: TLC's counterexample refutes each of them.
SomeClaimOfThemStands == refuted # UNION {ClaimsOf[m] : m \in ToSet(Machines)}
=============================================================================
