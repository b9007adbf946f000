------------------------------ MODULE Migrate ------------------------------
(***************************************************************************)
(* The metadata schema's migration (Open, migrate, setVersion). Replicas   *)
(* start at the same time on one database, each with the list of steps its *)
(* release knows, and no lock: every statement is CREATE TABLE IF NOT      *)
(* EXISTS, and the recorded version moves by a conditional write. The list *)
(* is a parameter: today's has one step. A statement may fail, with or     *)
(* without its effect, and a replica may die and be started again.         *)
(***************************************************************************)
EXTENDS Naturals

CONSTANTS
    Replicas,
    Known,      \* replica -> how many steps its release lists
    Creates,    \* step -> how many statements it has
    MaxFailures,  \* bound: statements that fail
    MaxDeaths   \* bound: processes that die and are started again

\* Versions only have an order (checkSteps), and a release only appends steps:
\* they are numbered by their place in the longest list.
ASSUME StepsAssumption ==
    \A r \in Replicas : Known[r] \in Nat /\ \A v \in 1..Known[r] : Creates[v] \in Nat \ {0}

VARIABLES
    at,        \* replica -> where it is: "start", "stmt", "insert", "update",
               \* "reconcile", "up" or "failed"
    current,   \* replica -> the version it believes recorded
    done,      \* replica -> the statements of its step that have run
    recorded,  \* the bookkeeping row's version, 0 without a row
    tables,    \* the tables there are, as <<version, statement>>
    hurt,      \* replicas one of whose statements has failed since they started
    troubles   \* statements that failed and processes that died, counted

mvars == <<at, current, done, recorded, tables, hurt, troubles>>

MInit == /\ at = [r \in Replicas |-> "start"]
         /\ current = [r \in Replicas |-> 0]
         /\ done = [r \in Replicas |-> 0]
         /\ recorded = 0 /\ tables = {} /\ hurt = {}
         /\ troubles = [faults |-> 0, deaths |-> 0]

Step(r) == current[r] + 1
Go(r, s) == at' = [at EXCEPT ![r] = s]

\* The loop in migrate: to the next step, or done and serving.
NextStep(r, now) ==
    /\ current' = [current EXCEPT ![r] = now]
    /\ done' = [done EXCEPT ![r] = 0]
    /\ Go(r, IF now < Known[r] THEN "stmt" ELSE "up")

\* A statement that fails does so with its effect or without it.
Faulty(r, s) == /\ troubles.faults < MaxFailures
                /\ troubles' = [troubles EXCEPT !.faults = @ + 1]
                /\ hurt' = hurt \cup {r}
                /\ Go(r, s)
                /\ UNCHANGED <<current, done>>
Fine == UNCHANGED <<hurt, troubles>>

\* The bookkeeping table, and readVersion.
Read(r) == /\ at[r] = "start"
           /\ \/ NextStep(r, recorded) /\ Fine
              \/ Faulty(r, "failed")
           /\ UNCHANGED <<recorded, tables>>

\* A step's next CREATE TABLE IF NOT EXISTS. After the last, setVersion: an
\* INSERT on a fresh database, else the UPDATE.
Recording(r) == IF current[r] = 0 THEN "insert" ELSE "update"
Create(r) ==
    /\ at[r] = "stmt"
    /\ LET table == <<Step(r), done[r] + 1>> IN
       \/ /\ tables' = tables \cup {table}
          /\ done' = [done EXCEPT ![r] = @ + 1]
          /\ Go(r, IF done[r] + 1 = Creates[Step(r)] THEN Recording(r) ELSE "stmt")
          /\ UNCHANGED current /\ Fine
       \/ /\ tables' \in {tables, tables \cup {table}}
          /\ Faulty(r, "failed")
    /\ UNCHANGED recorded

\* setVersion's INSERT: a row that is there already is a key violation, and like
\* any other failure of it leads to the UPDATE.
Insert(r) ==
    /\ at[r] = "insert"
    /\ \/ /\ recorded = 0 /\ recorded' = Step(r)
          /\ NextStep(r, Step(r)) /\ Fine
       \/ /\ recorded # 0
          /\ Go(r, "update")
          /\ UNCHANGED <<recorded, current, done>> /\ Fine
       \/ /\ recorded' \in {recorded, IF recorded = 0 THEN Step(r) ELSE recorded}
          /\ Faulty(r, "update")
    /\ UNCHANGED tables

\* A mutation of Updated: the UPDATE is not conditional.
UpdatedAnyway(r) == IF recorded # 0 THEN Step(r) ELSE recorded

\* The UPDATE is conditional on the value this replica came from.
Updated(r) == IF recorded # 0 /\ recorded = current[r] THEN Step(r) ELSE recorded
Update(r) ==
    /\ at[r] = "update"
    /\ \/ /\ recorded' = Updated(r)
          /\ IF recorded' # recorded THEN NextStep(r, Step(r))
                                     ELSE Go(r, "reconcile") /\ UNCHANGED <<current, done>>
          /\ Fine
       \/ /\ recorded' \in {recorded, Updated(r)}
          /\ Faulty(r, "failed")
    /\ UNCHANGED tables

\* A mutation of Reconciled: another replica that went further is a surprise.
ReconciledExactly(r) == recorded = Step(r)

\* No row was changed: another replica may have taken the version as far.
Reconciled(r) == recorded >= Step(r)
Reconcile(r) ==
    /\ at[r] = "reconcile"
    /\ \/ /\ Reconciled(r)
          /\ NextStep(r, Step(r)) /\ Fine
       \/ /\ ~Reconciled(r)
          /\ Go(r, "failed")
          /\ UNCHANGED <<current, done>> /\ Fine
       \/ Faulty(r, "failed")
    /\ UNCHANGED <<recorded, tables>>

\* The process dies, or gave up, and is started again.
Restart(r) == /\ at[r] # "start"
              /\ troubles.deaths < MaxDeaths
              /\ troubles' = [troubles EXCEPT !.deaths = @ + 1]
              /\ Go(r, "start")
              /\ current' = [current EXCEPT ![r] = 0]
              /\ done' = [done EXCEPT ![r] = 0]
              /\ hurt' = hurt \ {r}
              /\ UNCHANGED <<recorded, tables>>

MNext == \E r \in Replicas : \/ Read(r) \/ Create(r) \/ Insert(r) \/ Update(r)
                             \/ Reconcile(r) \/ Restart(r)

MSpec == MInit /\ [][MNext]_mvars

-----------------------------------------------------------------------------
\* migrate: whatever replicas race, fail or die midway, the tables of every step
\* up to the recorded version are there, whichever release recorded it; and a
\* replica that serves has all its own steps' and finds its version recorded.
Built(v) == {v} \X (1..Creates[v]) \subseteq tables
VersionSound ==
    /\ \A v \in 1..recorded : Built(v)
    /\ \A r \in Replicas : at[r] = "up" => Known[r] <= current[r] /\ current[r] <= recorded

\* setVersion: replicas that race to migrate one database resolve cleanly: one
\* refuses to start only when a statement of its own failed.
RacesResolve == \A r \in Replicas : at[r] = "failed" => r \in hurt
=============================================================================
