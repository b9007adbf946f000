--------------------------- MODULE Replicas_proofs ---------------------------
(***************************************************************************)
(* Proofs about what the replicas that share a database do in it: Migrate  *)
(* its tables when they start, and keep the times of the sessions in it,   *)
(* SessionExpiry.                                                          *)
(***************************************************************************)
EXTENDS Migrate, SessionExpiry, TLAPS

(***************************************************************************)
(* VersionSound and RacesResolve of module Migrate, for any number of      *)
(* replicas, releases and steps, and whatever fails.                       *)
(***************************************************************************)
Places == {"start", "stmt", "insert", "update", "reconcile", "up", "failed"}

Types ==
    /\ at \in [Replicas -> Places]
    /\ current \in [Replicas -> Nat]
    /\ done \in [Replicas -> Nat]
    /\ recorded \in Nat
    /\ hurt \subseteq Replicas
    /\ troubles \in [faults : Nat, deaths : Nat]

\* What holds of a replica: the version it goes by has been recorded; the part
\* of its step it has done is there, all of it once it records; what it finds in
\* the way of its record is the work of another, or its own failure.
Sound(r) ==
    /\ at[r] \notin {"start", "failed"} => current[r] <= recorded
    /\ at[r] \in {"stmt", "insert", "update", "reconcile"} => current[r] < Known[r]
    /\ at[r] = "stmt" => /\ done[r] < Creates[Step(r)]
                         /\ {Step(r)} \X (1..done[r]) \subseteq tables
    /\ at[r] \in {"insert", "update", "reconcile"} => Built(Step(r))
    /\ at[r] = "insert" => current[r] = 0
    /\ at[r] = "up" => Known[r] <= current[r]
    /\ at[r] = "update" => recorded # 0 \/ r \in hurt
    /\ at[r] = "reconcile" => recorded >= Step(r) \/ r \in hurt
    /\ at[r] = "failed" => r \in hurt

VersionInv ==
    /\ Types
    /\ \A v \in 1..recorded : Built(v)
    /\ \A r \in Replicas : Sound(r)

-----------------------------------------------------------------------------
\* What the step of a replica leaves of the others.
Alone(r) ==
    /\ \A q \in Replicas \ {r} : /\ at'[q] = at[q] /\ current'[q] = current[q]
                                 /\ done'[q] = done[q] /\ (q \in hurt => q \in hurt')
    /\ recorded' >= recorded /\ tables \subseteq tables'

LEMMA OthersSound ==
    ASSUME VersionInv, Types', NEW r \in Replicas, Alone(r)
    PROVE  \A q \in Replicas \ {r} : Sound(q)'
<1> SUFFICES ASSUME NEW q \in Replicas \ {r} PROVE Sound(q)'
  OBVIOUS
<1>1. Sound(q) /\ Step(q)' = Step(q) /\ recorded \in Nat /\ recorded' \in Nat /\ current[q] \in Nat
  BY DEF VersionInv, Types, Alone, Step
<1>2. at'[q] = at[q] /\ current'[q] = current[q] /\ done'[q] = done[q] /\ (q \in hurt => q \in hurt')
      /\ recorded' >= recorded /\ tables \subseteq tables'
  BY DEF Alone
<1>3. Built(Step(q)) => Built(Step(q))'
  BY <1>1, <1>2 DEF Built
<1> QED
  BY <1>1, <1>2, <1>3 DEF Sound, Step

\* The steps that were built stay built, so only a version that is recorded
\* anew is to be looked at.
LEMMA StaysBuilt ==
    ASSUME VersionInv, NEW r \in Replicas, tables \subseteq tables',
           recorded' = recorded \/ (recorded' = recorded + 1 /\ Built(recorded + 1))
    PROVE  \A v \in 1..recorded' : Built(v)'
<1> SUFFICES ASSUME NEW v \in 1..recorded' PROVE Built(v)'
  OBVIOUS
<1>1. recorded \in Nat /\ (v \in 1..recorded \/ v = recorded + 1)
  BY DEF VersionInv, Types
<1>2. Built(v)
  BY <1>1 DEF VersionInv
<1> QED
  BY <1>2 DEF Built

\* A replica that goes to its next step has all of it to do, or none left.
LEMMA NextStepSound ==
    ASSUME VersionInv, NEW r \in Replicas, NEW now \in Nat, NextStep(r, now), now <= recorded'
    PROVE  Sound(r)'
<1>1. at'[r] = (IF now < Known[r] THEN "stmt" ELSE "up") /\ current'[r] = now /\ done'[r] = 0
  BY DEF NextStep, Go, VersionInv, Types
<1>2. now < Known[r] => Creates[now + 1] \in Nat \ {0}
  BY StepsAssumption
<1>3. Known[r] \in Nat
  BY StepsAssumption
<1>4. {now + 1} \X (1..0) = {}
  OBVIOUS
<1> QED
  BY <1>1, <1>2, <1>3, <1>4 DEF Sound, Step

LEMMA FaultySound ==
    ASSUME VersionInv, NEW r \in Replicas, Faulty(r, "failed")
    PROVE  Sound(r)'
  BY DEF Faulty, Go, VersionInv, Types, Sound

-----------------------------------------------------------------------------
LEMMA TypesKept == ASSUME VersionInv, MNext PROVE Types'
<1>1. PICK r \in Replicas : \/ Read(r) \/ Create(r) \/ Insert(r) \/ Update(r)
                            \/ Reconcile(r) \/ Restart(r)
  BY DEF MNext
<1> USE DEF Places, Types, VersionInv, Step, Go, NextStep, Faulty, Fine
<1>2. CASE Read(r)
  BY <1>2 DEF Read
<1>3. CASE Create(r)
  BY <1>3 DEF Create, Recording
<1>4. CASE Insert(r)
  BY <1>4 DEF Insert
<1>5. CASE Update(r)
  BY <1>5 DEF Update, Updated
<1>6. CASE Reconcile(r)
  BY <1>6 DEF Reconcile
<1>7. CASE Restart(r)
  BY <1>7 DEF Restart
<1> QED
  BY <1>1, <1>2, <1>3, <1>4, <1>5, <1>6, <1>7

\* Once the step is seen to concern r alone and to record nothing unbuilt, what
\* is left to show is that r stays sound.
LEMMA Assembled ==
    ASSUME VersionInv, Types', NEW r \in Replicas, Alone(r), Sound(r)',
           recorded' = recorded \/ (recorded' = recorded + 1 /\ Built(recorded + 1))
    PROVE  VersionInv'
<1>1. \A q \in Replicas : Sound(q)'
  BY OthersSound
<1>2. \A v \in 1..recorded' : Built(v)'
  BY StaysBuilt DEF Alone
<1> QED
  BY <1>1, <1>2 DEF VersionInv

LEMMA ReadKeeps == ASSUME VersionInv, Types', NEW r \in Replicas, Read(r) PROVE VersionInv'
<1>1. Alone(r) /\ recorded' = recorded
  BY DEF Read, NextStep, Faulty, Fine, Go, Alone, VersionInv, Types
<1>2. Sound(r)'
  <2>1. CASE NextStep(r, recorded)
    BY <1>1, <2>1, NextStepSound DEF VersionInv, Types
  <2>2. CASE Faulty(r, "failed")
    BY <2>2, FaultySound
  <2> QED
    BY <2>1, <2>2 DEF Read
<1> QED
  BY <1>1, <1>2, Assembled

LEMMA CreateKeeps == ASSUME VersionInv, Types', NEW r \in Replicas, Create(r) PROVE VersionInv'
<1> DEFINE table == <<Step(r), done[r] + 1>>
<1>1. Alone(r) /\ recorded' = recorded
  BY DEF Create, Faulty, Fine, Go, Alone, VersionInv, Types
<1>2. Sound(r)'
  <2>1. CASE Faulty(r, "failed")
    BY <2>1, FaultySound
  <2>2. CASE /\ tables' = tables \cup {table}
             /\ done' = [done EXCEPT ![r] = @ + 1]
             /\ Go(r, IF done[r] + 1 = Creates[Step(r)] THEN Recording(r) ELSE "stmt")
             /\ UNCHANGED current /\ Fine
    <3>1. /\ at[r] = "stmt" /\ current[r] \in Nat /\ done[r] \in Nat /\ recorded \in Nat
          /\ current[r] <= recorded /\ current[r] < Known[r]
          /\ done[r] < Creates[Step(r)] /\ {Step(r)} \X (1..done[r]) \subseteq tables
      BY DEF Create, VersionInv, Types, Sound
    <3>2. Creates[Step(r)] \in Nat
      BY <3>1, StepsAssumption DEF Step
    <3>3. /\ at'[r] = IF done[r] + 1 = Creates[Step(r)] THEN Recording(r) ELSE "stmt"
          /\ current'[r] = current[r] /\ done'[r] = done[r] + 1 /\ Step(r)' = Step(r)
      BY <2>2 DEF Go, VersionInv, Types, Step
    <3>4. {Step(r)} \X (1..done[r] + 1) \subseteq tables'
      <4> SUFFICES ASSUME NEW k \in 1..done[r] + 1 PROVE <<Step(r), k>> \in tables'
        OBVIOUS
      <4>1. k \in 1..done[r] \/ k = done[r] + 1
        BY <3>1
      <4> QED
        BY <4>1, <3>1, <2>2
    <3>5. CASE done[r] + 1 = Creates[Step(r)]
      <4>1. Built(Step(r))'
        BY <3>3, <3>4, <3>5 DEF Built
      <4>2. at'[r] = Recording(r)
        BY <3>3, <3>5
      <4> QED
        BY <1>1, <3>1, <3>3, <4>1, <4>2 DEF Sound, Recording
    <3>6. CASE done[r] + 1 # Creates[Step(r)]
      <4>1. at'[r] = "stmt"
        BY <3>3, <3>6
      <4> QED
        BY <1>1, <3>1, <3>2, <3>3, <3>4, <3>6, <4>1 DEF Sound
    <3> QED
      BY <3>5, <3>6
  <2> QED
    BY <2>1, <2>2 DEF Create
<1> QED
  BY <1>1, <1>2, Assembled

\* A replica at its INSERT comes from version 0 and has built the first step.
LEMMA InsertKeeps == ASSUME VersionInv, Types', NEW r \in Replicas, Insert(r) PROVE VersionInv'
<1>1. /\ at[r] = "insert" /\ current[r] = 0 /\ Step(r) = 1 /\ Built(1) /\ recorded \in Nat
      /\ current[r] < Known[r]
  BY DEF Insert, VersionInv, Types, Sound, Step
<1>2. Alone(r) /\ tables' = tables
  BY <1>1 DEF Insert, NextStep, Faulty, Fine, Go, Alone, VersionInv, Types
<1>3. recorded' = recorded \/ (recorded' = recorded + 1 /\ Built(recorded + 1))
  BY <1>1 DEF Insert
<1>4. Sound(r)'
  <2>1. CASE recorded' = Step(r) /\ NextStep(r, Step(r))
    BY <1>1, <2>1, NextStepSound
  <2>2. CASE Go(r, "update") /\ UNCHANGED <<recorded, current, done>> /\ (recorded # 0 \/ r \in hurt')
    BY <1>1, <1>2, <2>2 DEF Go, VersionInv, Types, Sound, Step, Built
  <2>3. CASE Faulty(r, "update")
    <3>1. at'[r] = "update" /\ current'[r] = 0 /\ r \in hurt' /\ recorded' \in Nat
      BY <1>1, <2>3 DEF Faulty, Go, VersionInv, Types
    <3> QED
      BY <1>1, <1>2, <3>1 DEF Sound, Step, Built
  <2> QED
    BY <2>1, <2>2, <2>3 DEF Insert
<1> QED
  BY <1>2, <1>3, <1>4, Assembled

LEMMA UpdateKeeps == ASSUME VersionInv, Types', NEW r \in Replicas, Update(r) PROVE VersionInv'
<1>1. /\ at[r] = "update" /\ current[r] \in Nat /\ recorded \in Nat /\ Built(Step(r))
      /\ current[r] <= recorded /\ current[r] < Known[r] /\ (recorded # 0 \/ r \in hurt)
  BY DEF Update, VersionInv, Types, Sound
<1>2. Alone(r) /\ tables' = tables
  BY <1>1 DEF Update, Updated, NextStep, Faulty, Fine, Go, Alone, VersionInv, Types, Step
<1>3. recorded' = recorded \/ (recorded' = recorded + 1 /\ Built(recorded + 1))
  BY <1>1 DEF Update, Updated, Step
<1>4. Sound(r)'
  <2>1. CASE Faulty(r, "failed")
    BY <2>1, FaultySound
  <2>2. CASE recorded' # recorded /\ recorded' = Updated(r) /\ NextStep(r, Step(r))
    BY <1>1, <2>2, NextStepSound DEF Updated, Step
  <2>3. CASE recorded' = recorded /\ recorded' = Updated(r) /\ Go(r, "reconcile")
             /\ UNCHANGED <<current, done>> /\ Fine
    <3>1. recorded >= Step(r) \/ r \in hurt
      BY <1>1, <2>3 DEF Updated, Step
    <3>2. at'[r] = "reconcile" /\ current'[r] = current[r] /\ hurt' = hurt
      BY <2>3 DEF Go, Fine, VersionInv, Types
    <3> QED
      BY <1>1, <1>2, <2>3, <3>1, <3>2 DEF Sound, Step, Built
  <2> QED
    BY <2>1, <2>2, <2>3 DEF Update
<1> QED
  BY <1>2, <1>3, <1>4, Assembled

LEMMA ReconcileKeeps == ASSUME VersionInv, Types', NEW r \in Replicas, Reconcile(r) PROVE VersionInv'
<1>1. /\ at[r] = "reconcile" /\ current[r] \in Nat /\ recorded \in Nat
      /\ (recorded >= Step(r) \/ r \in hurt)
  BY DEF Reconcile, VersionInv, Types, Sound
<1>2. Alone(r) /\ recorded' = recorded
  BY DEF Reconcile, NextStep, Faulty, Fine, Go, Alone, VersionInv, Types
<1>3. Sound(r)'
  <2>1. CASE Reconciled(r) /\ NextStep(r, Step(r))
    BY <1>1, <1>2, <2>1, NextStepSound DEF Reconciled, Step
  <2>2. CASE ~Reconciled(r) /\ Go(r, "failed") /\ UNCHANGED <<current, done>> /\ Fine
    BY <1>1, <2>2 DEF Reconciled, Go, Fine, VersionInv, Types, Sound, Step
  <2>3. CASE Faulty(r, "failed")
    BY <2>3, FaultySound
  <2> QED
    BY <2>1, <2>2, <2>3 DEF Reconcile
<1> QED
  BY <1>2, <1>3, Assembled

LEMMA RestartSound == ASSUME VersionInv, Types', NEW r \in Replicas, Restart(r) PROVE VersionInv'
<1>1. Alone(r) /\ recorded' = recorded
  BY DEF Restart, Go, Alone, VersionInv, Types
<1>2. Sound(r)'
  BY DEF Restart, Go, VersionInv, Types, Sound
<1> QED
  BY <1>1, <1>2, Assembled

-----------------------------------------------------------------------------
LEMMA VersionKept == MSpec => []VersionInv
<1>1. MInit => VersionInv
  BY DEF MInit, VersionInv, Types, Places, Sound
<1>2. VersionInv /\ [MNext]_mvars => VersionInv'
  <2> SUFFICES ASSUME VersionInv, [MNext]_mvars PROVE VersionInv'
    OBVIOUS
  <2>1. CASE MNext
    <3>1. Types'
      BY <2>1, TypesKept
    <3>2. PICK r \in Replicas : \/ Read(r) \/ Create(r) \/ Insert(r) \/ Update(r)
                                \/ Reconcile(r) \/ Restart(r)
      BY <2>1 DEF MNext
    <3> QED
      BY <3>1, <3>2, ReadKeeps, CreateKeeps, InsertKeeps, UpdateKeeps, ReconcileKeeps, RestartSound
  <2>2. CASE UNCHANGED mvars
    BY <2>2 DEF mvars, VersionInv, Types, Sound, Step, Built
  <2> QED
    BY <2>1, <2>2
<1> QED
  BY <1>1, <1>2, PTL DEF MSpec

\* However replicas race, fail and restart, whatever releases they are, a step
\* that is recorded has all its tables, and a replica that serves finds all its
\* own steps recorded (migrate).
THEOREM MigrationSound == MSpec => []VersionSound
<1>1. VersionInv => VersionSound
  <2> SUFFICES ASSUME VersionInv, NEW r \in Replicas, at[r] = "up"
               PROVE  Known[r] <= current[r] /\ current[r] <= recorded
    BY DEF VersionInv, VersionSound
  <2> QED
    BY DEF VersionInv, Sound
<1> QED
  BY <1>1, VersionKept, PTL

\* A replica refuses to start only when a statement of its own has failed: losing
\* a race is never a reason (setVersion).
THEOREM RacesAreClean == MSpec => []RacesResolve
<1>1. VersionInv => RacesResolve
  BY DEF VersionInv, Sound, RacesResolve
<1> QED
  BY <1>1, VersionKept, PTL

(***************************************************************************)
(* That a session is served and ended within the timeouts, for any number  *)
(* of replicas and requests, any timeouts, any time a request may take and *)
(* any sequence of failures.                                               *)
(*                                                                         *)
(* That a sweep does not end a session by a row it has outlived rests on   *)
(* Fresh: unless a refresh has failed, the row is at most a Margin behind  *)
(* the last use, or a refresh is on its way.                               *)
(***************************************************************************)
VisitState == [at : {"idle", "found", "adopt", "refresh", "judge", "end"}, on : Nodes \cup {None},
               by : Nat, env : Nat, stamp : Nat, begun : Nat]
SweepState == [at : {"idle", "scan", "local", "bury", "shared", "abandoned"}, now : Nat, env : Nat, by : Nat]

XTypes ==
    /\ tick \in Nat /\ tick <= LastTick /\ row \in Nat /\ copies \in Nat
    /\ lastSeen \in [Copies -> Nat] /\ kept \in [Nodes -> Nat]
    /\ marked \in [Nodes -> BOOLEAN] /\ touched \in [Nodes -> Nat]
    /\ visit \in [Visits -> VisitState] /\ sweep \in [Nodes -> SweepState]
    /\ use \in [at : Nat, by : Nat] /\ missed \in BOOLEAN

\* No time-stamp is ahead of the clock, and the last use is in the copy that was
\* used.
Stamps ==
    /\ row = Gone \/ row <= tick
    /\ copies \in Copies
    /\ \A o \in Copies : lastSeen[o] <= tick
    /\ \A n \in Nodes : kept[n] <= copies /\ (touched[n] = Never \/ touched[n] <= tick)
    /\ use.by \in 1 .. copies /\ lastSeen[use.by] = use.at

\* A request under way is not older than Patience. What it ends has expired.
VisitAge(v) ==
    /\ visit[v].at # "idle" => visit[v].on \in Nodes
    /\ visit[v].at # "idle" => visit[v].begun <= tick /\ tick <= visit[v].begun + Patience
    /\ visit[v].at = "refresh" => visit[v].begun <= visit[v].stamp /\ visit[v].stamp <= tick
    /\ visit[v].at \in {"found", "adopt"} => visit[v].env <= tick
    /\ visit[v].at \in {"refresh", "judge", "end"} => visit[v].by \in 1 .. copies
    /\ visit[v].at = "end" => Expired(lastSeen[visit[v].by], tick)

\* A sweep judges by a time that has come, and what it deletes had expired then.
SweepAge(n) ==
    /\ sweep[n].now <= tick
    /\ sweep[n].at = "bury" => sweep[n].by \in 1 .. copies /\ Expired(lastSeen[sweep[n].by], tick)
    /\ sweep[n].at = "abandoned" => Expired(Lagged(sweep[n].env), sweep[n].now)

\* By how much the row may be behind a copy, a touch of it, an envelope that was
\* read from it, and a request that need not refresh it.
Margin == TouchEvery + 2 * Patience
CopyFresh(o) == \/ lastSeen[o] <= row + Margin
                \/ Pending /\ (Patience = 0 => tick <= Lagged(row) + IdleTimeout)
TouchFresh(n) == touched[n] # Never => touched[n] <= row + Patience \/ Pending
VisitFresh(v) ==
    /\ visit[v].at \in {"found", "adopt"} => visit[v].env <= row + Patience
    /\ visit[v].at = "judge" => visit[v].begun <= row + TouchEvery + Patience \/ Pending

Fresh == ~missed /\ row # Gone => /\ \A o \in 1 .. copies : CopyFresh(o)
                                  /\ \A n \in Nodes : TouchFresh(n)
                                  /\ \A v \in Visits : VisitFresh(v)

ExpiryInv == /\ XTypes /\ Stamps /\ Fresh
             /\ \A v \in Visits : VisitAge(v)
             /\ \A n \in Nodes : SweepAge(n)

\* The constants are numbers; the margin of a row is (NewSessionStore).
LEMMA ExpiryNumbers ==
    /\ IdleTimeout \in Nat /\ AbsoluteTimeout \in Nat /\ LastTick \in Nat /\ TouchEvery \in Nat
    /\ Patience \in Nat /\ MaxCopies \in Nat /\ MaxCopies >= 1
<1>1. IdleTimeout \in Nat /\ AbsoluteTimeout \in Nat /\ LastTick \in Nat /\ Patience \in Nat
  BY ExpiryAssumption
<1>2. MaxCopies \in Nat /\ MaxCopies >= 1  BY ExpiryAssumption
<1>3. TouchEvery \in Nat  BY <1>1 DEF TouchEvery
<1> QED  BY <1>1, <1>2, <1>3

\* The first page is shown at 0, by the first copy (Manager.Start).
LEMMA ExpiryStarts == XInit(Nodes) => ExpiryInv
<1> SUFFICES ASSUME XInit(Nodes) PROVE ExpiryInv  OBVIOUS
<1> USE ExpiryNumbers DEF Copies, None, Gone, Never
<1>1. XTypes
  <2>1. PICK n \in Nodes : /\ kept = [m \in Nodes |-> IF m = n THEN 1 ELSE None]
                           /\ marked = [m \in Nodes |-> m = n]
    BY DEF XInit
  <2>2. kept \in [Nodes -> Nat] /\ marked \in [Nodes -> BOOLEAN]  BY <2>1
  <2>3. touched \in [Nodes -> Nat]  BY DEF XInit
  <2>4. visit \in [Visits -> VisitState]  BY DEF XInit, VisitState, NoVisit
  <2>5. sweep \in [Nodes -> SweepState]  BY DEF XInit, SweepState, Resting
  <2>6. use \in [at : Nat, by : Nat] /\ missed \in BOOLEAN  BY DEF XInit
  <2>7. tick \in Nat /\ tick <= LastTick /\ row \in Nat /\ copies \in Nat /\ lastSeen \in [Copies -> Nat]
    BY DEF XInit
  <2> QED  BY <2>2, <2>3, <2>4, <2>5, <2>6, <2>7 DEF XTypes
<1>2. Stamps
  <2>1. PICK n \in Nodes : kept = [m \in Nodes |-> IF m = n THEN 1 ELSE None]  BY DEF XInit
  <2>2. ASSUME NEW m \in Nodes PROVE kept[m] <= 1
    <3>1. kept[m] = IF m = n THEN 1 ELSE 0  BY <2>1 DEF None
    <3> QED  BY <3>1
  <2>3. \A m \in Nodes : touched[m] = Never  BY DEF XInit
  <2> QED  BY <2>2, <2>3 DEF Stamps, XInit
<1>3. \A v \in Visits : VisitAge(v)  BY DEF VisitAge, NoVisit, XInit
<1>4. ASSUME NEW n \in Nodes PROVE SweepAge(n)
  <2>1. sweep[n].at = "idle" /\ sweep[n].now = 0 /\ tick = 0  BY DEF Resting, XInit
  <2> QED  BY <2>1 DEF SweepAge
<1>5. Fresh  BY DEF Fresh, NoVisit, XInit, CopyFresh, TouchFresh, VisitFresh, Margin
<1> QED  BY <1>1, <1>2, <1>3, <1>4, <1>5 DEF ExpiryInv

\* The clock does not move past what a request may take.
LEMMA ElapseKeeps ==
    ASSUME ExpiryInv, NEW d \in UNION {Moves[i] : i \in 1 .. Len(Moves)}, Elapse(d)
    PROVE  ExpiryInv' /\ ServedInTime /\ EndedInTime
<1> USE ExpiryNumbers
<1>1. d \in Nat
  <2>1. PICK i \in 1 .. Len(Moves) : d \in Moves[i]  OBVIOUS
  <2>2. Moves[i] \in SUBSET Nat  BY ExpiryAssumption
  <2> QED  BY <2>1, <2>2
<1>2. /\ tick' = tick + d /\ tick + d <= LastTick
      /\ \A v \in Visits : visit[v].at # "idle" => tick + d <= visit[v].begun + Patience
      /\ UNCHANGED <<row, copies, lastSeen, kept, marked, touched, visit, sweep, errors, use, missed>>
  BY DEF Elapse
<1>3. /\ tick \in Nat /\ tick' \in Nat /\ tick <= tick' /\ tick' <= LastTick
      /\ row \in Nat /\ row <= Gone /\ (row = Gone \/ row <= tick)
  BY <1>1, <1>2 DEF ExpiryInv, XTypes, Stamps, Gone
<1>4. XTypes'  BY <1>2, <1>3 DEF ExpiryInv, XTypes
<1>5. Stamps'
  <2>1. \A o \in Copies : lastSeen[o] \in Nat /\ lastSeen[o] <= tick  BY DEF ExpiryInv, XTypes, Stamps
  <2>2. \A o \in Copies : lastSeen'[o] <= tick'  BY <1>2, <1>3, <2>1
  <2>3. \A n \in Nodes : touched[n] \in Nat /\ (touched[n] = Never \/ touched[n] <= tick)
    BY DEF ExpiryInv, XTypes, Stamps
  <2>4. \A n \in Nodes : touched'[n] = Never \/ touched'[n] <= tick'  BY <1>2, <1>3, <2>3
  <2> QED  BY <1>2, <1>3, <2>2, <2>4 DEF ExpiryInv, Stamps
<1>e. \A seen \in Nat : Expired(seen, tick) => Expired(seen, tick')
  <2>1. IdleTimeout \in Nat /\ AbsoluteTimeout \in Nat  BY ExpiryAssumption
  <2> QED  BY <1>3, <2>1 DEF Expired
<1>6. ASSUME NEW v \in Visits PROVE VisitAge(v)'
  <2>1. VisitAge(v) /\ visit[v] \in VisitState  BY DEF ExpiryInv, XTypes
  <2>2. visit[v].at = "end" => lastSeen[visit[v].by] \in Nat
    <3>1. visit[v].at = "end" => visit[v].by \in 1 .. copies  BY <2>1 DEF VisitAge
    <3>2. \A o \in 1 .. copies : o \in Copies  BY DEF ExpiryInv, XTypes, Stamps, Copies
    <3> QED  BY <3>1, <3>2 DEF ExpiryInv, XTypes
  <2>3. visit[v].at = "end" => Expired(lastSeen'[visit'[v].by], tick')
    BY <1>2, <1>e, <2>1, <2>2 DEF VisitAge
  <2>4. visit[v].at # "idle" => visit[v].begun \in Nat /\ tick' <= visit[v].begun + Patience
    BY <1>2, <2>1 DEF VisitState
  <2> HIDE DEF Expired
  <2> QED  BY <1>2, <1>3, <2>1, <2>3, <2>4 DEF VisitAge, VisitState
<1>7. ASSUME NEW n \in Nodes PROVE SweepAge(n)'
  <2>1. SweepAge(n) /\ sweep[n] \in SweepState  BY DEF ExpiryInv, XTypes
  <2>2. sweep[n].at = "bury" => lastSeen[sweep[n].by] \in Nat
    <3>1. sweep[n].at = "bury" => sweep[n].by \in 1 .. copies  BY <2>1 DEF SweepAge
    <3>2. \A o \in 1 .. copies : o \in Copies  BY DEF ExpiryInv, XTypes, Stamps, Copies
    <3> QED  BY <3>1, <3>2 DEF ExpiryInv, XTypes
  <2>3. sweep[n].now \in Nat /\ sweep[n].now <= tick  BY <2>1 DEF SweepAge, SweepState
  <2>4. sweep[n].now <= tick'  BY <1>3, <2>3
  <2>5. sweep[n].at = "bury" => Expired(lastSeen[sweep[n].by], tick')
    BY <1>e, <2>1, <2>2 DEF SweepAge
  <2> HIDE DEF Expired
  <2> QED  BY <1>2, <2>1, <2>4, <2>5 DEF SweepAge, Lagged
<1>8. Fresh'
  <2>1. Pending' = Pending /\ (Pending /\ Patience = 0 => tick' = tick)
    <3>1. \A v \in Visits : visit[v].begun \in Nat  BY DEF ExpiryInv, XTypes, VisitState
    <3> QED  BY <1>2, <1>3, <3>1 DEF Pending, ExpiryInv, VisitAge
  <2>2. ASSUME NEW o \in 1 .. copies, CopyFresh(o) PROVE CopyFresh(o)'  BY <1>2, <2>1, <2>2 DEF CopyFresh, Margin, Lagged
  <2>3. ASSUME NEW n \in Nodes, TouchFresh(n) PROVE TouchFresh(n)'  BY <1>2, <2>1, <2>3 DEF TouchFresh
  <2>4. ASSUME NEW v \in Visits, VisitFresh(v) PROVE VisitFresh(v)'  BY <1>2, <2>1, <2>4 DEF VisitFresh
  <2> QED  BY <1>2, <2>2, <2>3, <2>4 DEF ExpiryInv, Fresh, Gone
<1> QED  BY <1>2, <1>4, <1>5, <1>6, <1>7, <1>8 DEF ExpiryInv, ServedInTime, EndedInTime

\* What is so of every request and every sweep remains so of those that a step
\* leaves alone.
LEMMA VisitStays ==
    ASSUME ExpiryInv, NEW w \in Visits, visit'[w] = visit[w], tick' = tick, copies' \in Nat, copies' >= copies,
           \A o \in 1 .. copies : lastSeen'[o] = lastSeen[o]
    PROVE  VisitAge(w)'
<1>1. VisitAge(w) /\ copies \in Nat  BY DEF ExpiryInv, XTypes
<1>2. visit[w].by \in 1 .. copies => visit[w].by \in 1 .. copies' /\ lastSeen'[visit[w].by] = lastSeen[visit[w].by]
  BY <1>1
<1>3. Expired(lastSeen[visit[w].by], tick) /\ visit[w].by \in 1 .. copies => Expired(lastSeen'[visit'[w].by], tick')
  BY <1>2 DEF Expired
<1> HIDE DEF Expired
<1> QED  BY <1>1, <1>2, <1>3 DEF VisitAge

LEMMA SweepStays ==
    ASSUME ExpiryInv, NEW m \in Nodes, sweep'[m] = sweep[m], tick' = tick, copies' \in Nat, copies' >= copies,
           \A o \in 1 .. copies : lastSeen'[o] = lastSeen[o]
    PROVE  SweepAge(m)'
<1>1. SweepAge(m) /\ copies \in Nat  BY DEF ExpiryInv, XTypes
<1>2. sweep[m].by \in 1 .. copies => sweep[m].by \in 1 .. copies' /\ lastSeen'[sweep[m].by] = lastSeen[sweep[m].by]
  BY <1>1
<1>3. Expired(lastSeen[sweep[m].by], tick) /\ sweep[m].by \in 1 .. copies => Expired(lastSeen'[sweep'[m].by], tick')
  BY <1>2 DEF Expired
<1>4. Expired(Lagged(sweep[m].env), sweep[m].now) => Expired(Lagged(sweep'[m].env), sweep'[m].now)
  OBVIOUS
<1> HIDE DEF Expired, Lagged
<1> QED  BY <1>1, <1>2, <1>3, <1>4 DEF SweepAge

\* So does how far the row is behind, when it is not written, no copy is used and
\* no refresh set aside.
LEMMA FreshStays ==
    ASSUME ExpiryInv, UNCHANGED <<tick, copies, lastSeen>>, row' \in {row, Gone}, missed => missed',
           Pending => Pending' \/ missed',
           \A n \in Nodes : touched'[n] \in {touched[n], Never} \/ Pending',
           \A v \in Visits : visit'[v].at \in {"found", "adopt", "judge"} =>
               /\ visit[v].env = visit'[v].env /\ visit[v].begun = visit'[v].begun
               /\ (visit[v].at = visit'[v].at \/ (visit[v].at = "found" /\ visit'[v].at = "adopt"))
    PROVE  Fresh'
<1> SUFFICES ASSUME ~missed', row' # Gone PROVE Fresh'  BY DEF Fresh, Gone
<1>1. ~missed /\ row' = row /\ row # Gone /\ (Pending => Pending')  BY DEF Gone
<1>2. ASSUME NEW o \in 1 .. copies PROVE CopyFresh(o)'
  BY <1>1, <1>2 DEF ExpiryInv, Fresh, CopyFresh, Margin, Lagged
<1>3. ASSUME NEW n \in Nodes PROVE TouchFresh(n)'
  BY <1>1, <1>3 DEF ExpiryInv, Fresh, TouchFresh, Never
<1>4. ASSUME NEW v \in Visits PROVE VisitFresh(v)'
  BY <1>1, <1>4 DEF ExpiryInv, Fresh, VisitFresh
<1> QED  BY <1>2, <1>3, <1>4 DEF Fresh

\* So do the time-stamps, when only the row's and those of touches are taken, from
\* the clock.
LEMMA StampsStay ==
    ASSUME ExpiryInv, UNCHANGED <<tick, copies, lastSeen, use>>, row' \in {row, Gone},
           kept' \in [Nodes -> Nat], \A n \in Nodes : kept'[n] \in {kept[n], None},
           \A n \in Nodes : touched'[n] \in {touched[n], Never, tick}
    PROVE  Stamps'
<1>1. tick \in Nat /\ copies \in Nat /\ None = 0 /\ Never' = Never /\ Gone' = Gone
  BY DEF ExpiryInv, XTypes, None, Never, Gone
<1>2. ASSUME NEW n \in Nodes PROVE kept'[n] <= copies' /\ (touched'[n] = Never' \/ touched'[n] <= tick')
  BY <1>1, <1>2 DEF ExpiryInv, Stamps
<1> QED  BY <1>1, <1>2 DEF ExpiryInv, Stamps, Copies

\* Manager.Load begins: the envelope that is read is the row's.
LEMMA LookupKeeps ==
    ASSUME ExpiryInv, NEW v \in Visits, NEW n \in Nodes, Lookup(v, n)
    PROVE  ExpiryInv' /\ ServedInTime /\ EndedInTime
<1> USE ExpiryNumbers
<1>1. /\ visit[v].at = "idle" /\ UNCHANGED <<tick, row, copies, lastSeen, kept, marked, touched, sweep, use>>
      /\ tick \in Nat /\ row \in Nat /\ copies \in Nat /\ visit[v] \in VisitState /\ kept[n] \in Nat
  BY DEF Lookup, ExpiryInv, XTypes
<1>2. \A w \in Visits : w # v => visit'[w] = visit[w]  BY DEF Lookup, Proceed, ExpiryInv, XTypes
<1>3. /\ visit' \in [Visits -> VisitState] /\ missed' \in BOOLEAN
      /\ visit'[v].begun = tick /\ visit'[v].on = n
      /\ \/ visit'[v].at = "found" /\ row # Gone /\ visit'[v].env = row /\ missed' = missed
         \/ visit'[v].at = "judge" /\ missed' = TRUE /\ visit'[v].by = kept[n] /\ kept[n] # None
  <2>1. CASE /\ row # Gone /\ UNCHANGED <<errors, missed>>
             /\ Proceed(v, [visit[v] EXCEPT !.at = "found", !.on = n, !.env = row, !.begun = tick])
    BY <1>1, <2>1 DEF ExpiryInv, XTypes, Proceed, VisitState
  <2>2. CASE /\ kept[n] # None /\ missed' = TRUE
             /\ Proceed(v, [visit[v] EXCEPT !.at = "judge", !.on = n, !.by = kept[n], !.begun = tick])
    BY <1>1, <2>2 DEF ExpiryInv, XTypes, Proceed, VisitState
  <2> QED  BY <2>1, <2>2 DEF Lookup
<1>4. XTypes'
  <2>1. visit' \in [Visits -> VisitState] /\ missed' \in BOOLEAN  BY <1>3
  <2> QED  BY <1>1, <2>1 DEF ExpiryInv, XTypes
<1>5. Stamps'  BY <1>1, StampsStay DEF ExpiryInv, XTypes
<1>6. ASSUME NEW w \in Visits PROVE VisitAge(w)'
  <2>1. CASE w # v  BY <1>1, <1>2, <2>1, VisitStays
  <2>2. CASE w = v
    BY <1>1, <1>3, <2>2 DEF VisitAge, ExpiryInv, Stamps, None
  <2> QED  BY <2>1, <2>2
<1>7. ASSUME NEW m \in Nodes PROVE SweepAge(m)'  BY <1>1, SweepStays
<1>8. Fresh'
  <2> SUFFICES ASSUME ~missed', row' # Gone PROVE Fresh'  BY DEF Fresh, Gone
  <2>1. visit'[v].at = "found" /\ visit'[v].env = row /\ Pending' = Pending /\ ~missed /\ row # Gone
    BY <1>1, <1>2, <1>3 DEF Pending, Gone
  <2>2. \A o \in 1 .. copies : CopyFresh(o)'  BY <1>1, <2>1 DEF ExpiryInv, Fresh, CopyFresh, Margin, Lagged
  <2>3. \A m \in Nodes : TouchFresh(m)'  BY <1>1, <2>1 DEF ExpiryInv, Fresh, TouchFresh, Never
  <2>4. \A w \in Visits : VisitFresh(w)'  BY <1>1, <1>2, <2>1 DEF ExpiryInv, Fresh, VisitFresh
  <2> QED  BY <1>1, <2>2, <2>3, <2>4 DEF Fresh
<1> QED  BY <1>1, <1>4, <1>5, <1>6, <1>7, <1>8 DEF ExpiryInv, ServedInTime, EndedInTime

\* What touch makes of a request: it goes on to be judged, since the row was
\* refreshed a moment ago, or to refresh it.
Touches(v, n, o) ==
    /\ visit' \in [Visits -> VisitState] /\ touched' \in [Nodes -> Nat]
    /\ \A w \in Visits : w # v => visit'[w] = visit[w]
    /\ visit'[v].by = o /\ visit'[v].begun = visit[v].begun /\ visit'[v].on = visit[v].on
    /\ \/ /\ visit'[v].at = "judge" /\ touched' = touched
          /\ touched[n] # Never /\ tick < touched[n] + TouchEvery
       \/ /\ visit'[v].at = "refresh" /\ visit'[v].stamp = tick
          /\ \A m \in Nodes : touched'[m] \in {touched[m], tick}

\* touch does so.
LEMMA TouchNextTouches ==
    ASSUME ExpiryInv, NEW v \in Visits, NEW n \in Nodes, NEW o \in Nat, TouchNext(v, n, o)
    PROVE  Touches(v, n, o)
<1>1. visit \in [Visits -> VisitState] /\ visit[v] \in VisitState /\ touched \in [Nodes -> Nat] /\ tick \in Nat
  BY DEF ExpiryInv, XTypes
<1>2. CASE Throttled(n)
  <2>1. Proceed(v, [visit[v] EXCEPT !.at = "judge", !.by = o]) /\ UNCHANGED touched  BY <1>2 DEF TouchNext
  <2>2. visit' \in [Visits -> VisitState]  BY <1>1, <2>1 DEF Proceed, VisitState
  <2> QED  BY <1>1, <1>2, <2>1, <2>2 DEF Proceed, Throttled, Touches, VisitState
<1>3. CASE ~Throttled(n)
  <2>1. /\ Proceed(v, [visit[v] EXCEPT !.at = "refresh", !.by = o, !.stamp = tick])
        /\ touched' = [touched EXCEPT ![n] = tick]
    BY <1>3 DEF TouchNext
  <2>2. visit' \in [Visits -> VisitState]  BY <1>1, <2>1 DEF Proceed, VisitState
  <2> QED  BY <1>1, <2>1, <2>2 DEF Proceed, Touches, VisitState
<1> QED  BY <1>2, <1>3

\* A request that touch lets pass without a refresh has not come later than the
\* row's margin allows.
LEMMA TouchKeepsFresh ==
    ASSUME ExpiryInv, NEW v \in Visits, NEW n \in Nodes, NEW o, Touches(v, n, o), ~missed, row # Gone,
           visit[v].at \in {"found", "adopt"}, UNCHANGED <<tick, row>>
    PROVE  /\ Pending => Pending'
           /\ \A m \in Nodes : TouchFresh(m)'
           /\ \A w \in Visits : VisitFresh(w)'
<1> USE ExpiryNumbers
<1>1. /\ \A m \in Nodes : TouchFresh(m) /\ touched[m] \in Nat
      /\ \A w \in Visits : VisitFresh(w)
      /\ VisitAge(v) /\ visit[v] \in VisitState /\ tick \in Nat /\ row \in Nat
  BY DEF ExpiryInv, XTypes, Fresh
<1>2. Pending => Pending'  BY DEF Pending, Touches
<1>3. visit'[v].at = "refresh" => Pending'  BY DEF Pending
<1>4. ASSUME NEW m \in Nodes PROVE TouchFresh(m)'
  BY <1>1, <1>2, <1>3, <1>4 DEF Touches, TouchFresh, Never
<1>5. ASSUME NEW w \in Visits PROVE VisitFresh(w)'
  <2>1. CASE w # v  BY <1>1, <1>2, <2>1 DEF Touches, VisitFresh
  <2>2. CASE w = v /\ visit'[v].at = "judge"
    <3>1. visit[v].begun \in Nat /\ visit[v].begun <= tick  BY <1>1 DEF VisitAge, VisitState
    <3>2. touched[n] \in Nat /\ tick < touched[n] + TouchEvery /\ (touched[n] <= row + Patience \/ Pending)
      BY <1>1, <2>2 DEF Touches, TouchFresh
    <3>3. visit[v].begun <= row + TouchEvery + Patience \/ Pending'  BY <1>1, <1>2, <3>1, <3>2
    <3> QED  BY <2>2, <3>3 DEF Touches, VisitFresh
  <2>3. CASE w = v /\ visit'[v].at = "refresh"  BY <2>3 DEF VisitFresh
  <2> QED  BY <2>1, <2>2, <2>3 DEF Touches
<1> QED  BY <1>2, <1>4, <1>5

\* Get finds the copy that this replica holds, or goes on to make one.
LEMMA RecallKeeps ==
    ASSUME ExpiryInv, NEW v \in Visits, Recall(v)
    PROVE  ExpiryInv' /\ ServedInTime /\ EndedInTime
<1> USE ExpiryNumbers
<1> DEFINE n == visit[v].on
<1>1. /\ visit[v].at = "found"
      /\ UNCHANGED <<counter, tick, row, copies, lastSeen, kept, marked, sweep, errors, use, missed>>
      /\ tick \in Nat /\ row \in Nat /\ copies \in Nat /\ visit[v] \in VisitState /\ kept \in [Nodes -> Nat]
      /\ visit \in [Visits -> VisitState] /\ touched \in [Nodes -> Nat]
  BY DEF Recall, ExpiryInv, XTypes
<1>2. CASE n \in Nodes /\ kept[n] # None
  <2>1. Touches(v, n, kept[n])  BY <1>1, <1>2, TouchNextTouches DEF Recall
  <2>2. XTypes'  BY <1>1, <2>1 DEF ExpiryInv, XTypes, Touches
  <2>3. Stamps'  BY <1>1, <2>1, StampsStay DEF Touches
  <2>4. ASSUME NEW w \in Visits PROVE VisitAge(w)'
    <3>1. CASE w # v  BY <1>1, <2>1, <3>1, VisitStays DEF Touches
    <3>2. CASE w = v
      <4>1. kept[n] \in 1 .. copies  BY <1>1, <1>2 DEF ExpiryInv, Stamps, None
      <4>2. visit'[v].at \in {"judge", "refresh"} /\ visit'[v].by = kept[n] /\ visit'[v].begun = visit[v].begun
            /\ visit'[v].on \in Nodes
            /\ (visit'[v].at = "refresh" => visit'[v].stamp = tick)
        BY <1>2, <2>1 DEF Touches
      <4>3. visit[v].begun \in Nat /\ visit[v].begun <= tick /\ tick <= visit[v].begun + Patience
        BY <1>1 DEF ExpiryInv, VisitAge, VisitState
      <4> QED  BY <1>1, <3>2, <4>1, <4>2, <4>3 DEF VisitAge
    <3> QED  BY <3>1, <3>2
  <2>5. ASSUME NEW m \in Nodes PROVE SweepAge(m)'  BY <1>1, SweepStays
  <2>6. Fresh'
    <3> SUFFICES ASSUME ~missed', row' # Gone PROVE Fresh'  BY DEF Fresh, Gone
    <3>1. ~missed /\ row # Gone  BY <1>1 DEF Gone
    <3>2. /\ Pending => Pending'
          /\ \A m \in Nodes : TouchFresh(m)'
          /\ \A w \in Visits : VisitFresh(w)'
      BY <1>1, <1>2, <2>1, <3>1, TouchKeepsFresh
    <3>3. \A o \in 1 .. copies : CopyFresh(o)'
      BY <1>1, <3>1, <3>2 DEF ExpiryInv, Fresh, CopyFresh, Margin, Lagged
    <3> QED  BY <1>1, <3>2, <3>3 DEF Fresh
  <2> QED  BY <1>1, <2>2, <2>3, <2>4, <2>5, <2>6 DEF ExpiryInv, ServedInTime, EndedInTime
<1>3. CASE kept[n] = None
  <2>1. visit' = [visit EXCEPT ![v] = [visit[v] EXCEPT !.at = "adopt"]] /\ UNCHANGED touched
    BY <1>1, <1>3 DEF Recall, Proceed
  <2>2. visit' \in [Visits -> VisitState]  BY <1>1, <2>1 DEF VisitState
  <2>3. /\ \A w \in Visits : w # v => visit'[w] = visit[w]
        /\ visit'[v].at = "adopt" /\ visit'[v].env = visit[v].env /\ visit'[v].begun = visit[v].begun
        /\ visit'[v].on = visit[v].on
    BY <1>1, <2>1 DEF VisitState
  <2>4. XTypes'  BY <1>1, <2>1, <2>2 DEF ExpiryInv, XTypes
  <2>5. Stamps'  BY <1>1, <2>1, StampsStay
  <2>6. ASSUME NEW w \in Visits PROVE VisitAge(w)'
    <3>1. CASE w # v  BY <1>1, <2>3, <3>1, VisitStays
    <3>2. CASE w = v  BY <1>1, <2>3, <3>2 DEF ExpiryInv, VisitAge
    <3> QED  BY <3>1, <3>2
  <2>7. ASSUME NEW m \in Nodes PROVE SweepAge(m)'  BY <1>1, SweepStays
  <2>8. Fresh'
    <3>1. Pending => Pending'  BY <1>1, <2>3 DEF Pending
    <3>2. \A w \in Visits : visit'[w].at \in {"found", "adopt", "judge"} =>
            /\ visit[w].env = visit'[w].env /\ visit[w].begun = visit'[w].begun
            /\ (visit[w].at = visit'[w].at \/ (visit[w].at = "found" /\ visit'[w].at = "adopt"))
      <4> SUFFICES ASSUME NEW w \in Visits PROVE
            /\ visit[w].env = visit'[w].env /\ visit[w].begun = visit'[w].begun
            /\ (visit[w].at = visit'[w].at \/ (visit[w].at = "found" /\ visit'[w].at = "adopt"))
        OBVIOUS
      <4>1. CASE w = v  BY <1>1, <2>3, <4>1
      <4>2. CASE w # v
        <5>1. visit'[w] = visit[w]  BY <2>3, <4>2
        <5> QED  BY <5>1
      <4> QED  BY <4>1, <4>2
    <3> QED  BY <1>1, <2>1, <3>1, <3>2, FreshStays
  <2> QED  BY <1>1, <2>4, <2>5, <2>6, <2>7, <2>8 DEF ExpiryInv, ServedInTime, EndedInTime
<1>4. n \in Nodes  BY <1>1 DEF ExpiryInv, VisitAge
<1> QED  BY <1>2, <1>3, <1>4

\* Get makes a copy of the envelope it has read, by which it may be used.
LEMMA AdoptKeeps ==
    ASSUME ExpiryInv, NEW v \in Visits, Adopt(v)
    PROVE  ExpiryInv' /\ ServedInTime /\ EndedInTime
<1> USE ExpiryNumbers
<1> DEFINE n == visit[v].on
           o == copies + 1
<1>1. /\ visit[v].at = "adopt" /\ o \in Copies /\ copies' = o
      /\ lastSeen' = [lastSeen EXCEPT ![o] = visit[v].env]
      /\ kept' = [kept EXCEPT ![n] = o] /\ marked' = [marked EXCEPT ![n] = TRUE]
      /\ TouchNext(v, n, o)
      /\ UNCHANGED <<counter, tick, row, sweep, errors, use, missed>>
  BY DEF Adopt
<1>2. /\ tick \in Nat /\ row \in Nat /\ copies \in Nat /\ visit[v] \in VisitState /\ kept \in [Nodes -> Nat]
      /\ lastSeen \in [Copies -> Nat] /\ copies \in Copies /\ visit[v].env \in Nat /\ n \in Nodes
      /\ marked \in [Nodes -> BOOLEAN] /\ visit[v].env <= tick /\ VisitAge(v)
  BY <1>1 DEF ExpiryInv, XTypes, Stamps, VisitAge, VisitState
<1>3. Touches(v, n, o)  BY <1>1, <1>2, TouchNextTouches
<1>4. lastSeen' \in [Copies -> Nat] /\ kept' \in [Nodes -> Nat] /\ marked' \in [Nodes -> BOOLEAN]
  BY <1>1, <1>2
<1>5. /\ \A p \in 1 .. copies : p \in Copies /\ lastSeen'[p] = lastSeen[p]
      /\ lastSeen'[o] = visit[v].env
      /\ copies' \in Nat /\ copies' >= copies
  BY <1>1, <1>2 DEF Copies
<1>6. XTypes'  BY <1>1, <1>2, <1>3, <1>4 DEF ExpiryInv, XTypes, Touches
<1>7. Stamps'
  <2>1. \A p \in Copies : lastSeen'[p] <= tick'  BY <1>1, <1>2 DEF ExpiryInv, Stamps
  <2>2. ASSUME NEW m \in Nodes PROVE kept'[m] <= copies' /\ (touched'[m] = Never \/ touched'[m] <= tick')
    BY <1>1, <1>2, <1>3 DEF ExpiryInv, Stamps, Touches
  <2>3. use.by \in 1 .. copies /\ lastSeen[use.by] = use.at /\ (row = Gone \/ row <= tick)
    BY DEF ExpiryInv, Stamps
  <2> QED  BY <1>1, <1>2, <1>5, <2>1, <2>2, <2>3 DEF Stamps, Never, Gone, Copies
<1>8. ASSUME NEW w \in Visits PROVE VisitAge(w)'
  <2>1. CASE w # v  BY <1>1, <1>3, <1>5, <2>1, VisitStays DEF Touches
  <2>2. CASE w = v
    <3>1. /\ visit'[v].at \in {"judge", "refresh"} /\ visit'[v].by = o /\ visit'[v].begun = visit[v].begun
          /\ visit'[v].on \in Nodes
          /\ (visit'[v].at = "refresh" => visit'[v].stamp = tick)
      BY <1>2, <1>3 DEF Touches
    <3>2. visit[v].begun \in Nat /\ visit[v].begun <= tick /\ tick <= visit[v].begun + Patience
      BY <1>1, <1>2 DEF VisitAge, VisitState
    <3> QED  BY <1>1, <1>2, <2>2, <3>1, <3>2 DEF VisitAge
  <2> QED  BY <2>1, <2>2
<1>9. ASSUME NEW m \in Nodes PROVE SweepAge(m)'  BY <1>1, <1>5, SweepStays
<1>10. Fresh'
  <2> SUFFICES ASSUME ~missed', row' # Gone PROVE Fresh'  BY DEF Fresh, Gone
  <2>1. ~missed /\ row # Gone  BY <1>1 DEF Gone
  <2>2. /\ Pending => Pending'
        /\ \A m \in Nodes : TouchFresh(m)'
        /\ \A w \in Visits : VisitFresh(w)'
    BY <1>1, <1>2, <1>3, <2>1, TouchKeepsFresh
  <2>3. ASSUME NEW p \in 1 .. copies' PROVE CopyFresh(p)'
    <3>1. CASE p = o
      <4>1. visit[v].env <= row + Patience  BY <1>1, <2>1 DEF ExpiryInv, Fresh, VisitFresh
      <4> QED  BY <1>1, <1>2, <1>5, <3>1, <4>1 DEF CopyFresh, Margin
    <3>2. CASE p # o
      <4>1. p \in 1 .. copies  BY <1>1, <1>2, <3>2
      <4> QED  BY <1>1, <1>5, <2>1, <2>2, <4>1 DEF ExpiryInv, Fresh, CopyFresh, Margin, Lagged
    <3> QED  BY <3>1, <3>2
  <2> QED  BY <2>2, <2>3 DEF Fresh
<1> QED  BY <1>1, <1>6, <1>7, <1>8, <1>9, <1>10 DEF ExpiryInv, ServedInTime, EndedInTime

\* touch writes the row, with a time that this request has waited for at most.
LEMMA RefreshKeeps ==
    ASSUME ExpiryInv, NEW v \in Visits, Refresh(v)
    PROVE  ExpiryInv' /\ ServedInTime /\ EndedInTime
<1> USE ExpiryNumbers
<1>1. /\ visit[v].at = "refresh" /\ visit' = [visit EXCEPT ![v] = [visit[v] EXCEPT !.at = "judge"]]
      /\ UNCHANGED <<counter, tick, copies, lastSeen, kept, marked, touched, sweep, use>>
      /\ \/ row' = (IF row = Gone THEN Gone ELSE visit[v].stamp) /\ missed' = missed
         \/ row' = row /\ missed' = TRUE
  BY DEF Refresh, Proceed, Errs
<1>2. /\ tick \in Nat /\ tick <= LastTick /\ row \in Nat /\ copies \in Nat /\ visit[v] \in VisitState
      /\ visit \in [Visits -> VisitState] /\ missed \in BOOLEAN
      /\ VisitAge(v) /\ visit[v].stamp \in Nat /\ visit[v].begun \in Nat
      /\ visit[v].stamp <= tick /\ tick <= visit[v].stamp + Patience /\ visit[v].begun <= visit[v].stamp
  <2>1. VisitAge(v) /\ visit[v] \in VisitState  BY DEF ExpiryInv, XTypes
  <2>2. visit[v].stamp \in Nat /\ visit[v].begun \in Nat  BY <2>1 DEF VisitState
  <2>3. tick \in Nat /\ tick <= LastTick /\ row \in Nat /\ copies \in Nat /\ missed \in BOOLEAN
        /\ visit \in [Visits -> VisitState]
    BY DEF ExpiryInv, XTypes
  <2> QED  BY <1>1, <2>1, <2>2, <2>3 DEF VisitAge
<1>3. /\ visit' \in [Visits -> VisitState]
      /\ \A w \in Visits : w # v => visit'[w] = visit[w]
      /\ visit'[v].at = "judge" /\ visit'[v].begun = visit[v].begun /\ visit'[v].by = visit[v].by
      /\ visit'[v].on = visit[v].on
  BY <1>1, <1>2 DEF VisitState
<1>4. row' \in Nat /\ (row' = Gone \/ row' <= tick) /\ missed' \in BOOLEAN /\ Gone \in Nat
  <2>1. (row = Gone \/ row <= tick) /\ Gone \in Nat  BY DEF Gone, ExpiryInv, Stamps
  <2>2. CASE row' = row /\ missed' = TRUE  BY <1>2, <2>1, <2>2
  <2>3. CASE row' = (IF row = Gone THEN Gone ELSE visit[v].stamp) /\ missed' = missed
    <3>1. CASE row = Gone  BY <1>2, <2>1, <2>3, <3>1
    <3>2. CASE row # Gone  BY <1>2, <2>1, <2>3, <3>2
    <3> QED  BY <3>1, <3>2
  <2> QED  BY <1>1, <2>2, <2>3
<1>5. XTypes'  BY <1>1, <1>3, <1>4 DEF ExpiryInv, XTypes
<1>6. Stamps'  BY <1>1, <1>4 DEF ExpiryInv, Stamps, Gone, Never, Copies
<1>7. ASSUME NEW w \in Visits PROVE VisitAge(w)'
  <2>1. CASE w # v  BY <1>1, <1>2, <1>3, <2>1, VisitStays
  <2>2. CASE w = v  BY <1>1, <1>2, <1>3, <2>2 DEF VisitAge
  <2> QED  BY <2>1, <2>2
<1>8. ASSUME NEW m \in Nodes PROVE SweepAge(m)'  BY <1>1, <1>2, SweepStays
<1>9. Fresh'
  <2> SUFFICES ASSUME ~missed', row' # Gone PROVE Fresh'  BY DEF Fresh, Gone
  <2>1. row' = visit[v].stamp /\ tick <= row' + Patience /\ visit[v].begun <= row'
    BY <1>1, <1>2
  <2>2. ASSUME NEW o \in 1 .. copies PROVE CopyFresh(o)'
    <3>1. lastSeen[o] \in Nat /\ lastSeen[o] <= tick
      BY <1>2 DEF ExpiryInv, XTypes, Stamps, Copies
    <3> QED  BY <1>1, <1>2, <1>4, <2>1, <3>1 DEF CopyFresh, Margin
  <2>3. ASSUME NEW m \in Nodes PROVE TouchFresh(m)'
    <3>1. touched[m] \in Nat /\ (touched[m] = Never \/ touched[m] <= tick)  BY DEF ExpiryInv, XTypes, Stamps
    <3> QED  BY <1>1, <1>2, <1>4, <2>1, <3>1 DEF TouchFresh, Never
  <2>4. ASSUME NEW w \in Visits PROVE VisitFresh(w)'
    <3>1. CASE w = v  BY <1>2, <1>3, <1>4, <2>1, <3>1 DEF VisitFresh
    <3>2. CASE w # v
      <4>1. visit'[w] = visit[w] /\ VisitAge(w) /\ visit[w] \in VisitState
        BY <1>2, <1>3, <3>2 DEF ExpiryInv
      <4>2. visit[w].at \in {"found", "adopt"} => visit[w].env \in Nat /\ visit[w].env <= tick
        BY <4>1 DEF VisitAge, VisitState
      <4>3. visit[w].at # "idle" => visit[w].begun \in Nat /\ visit[w].begun <= tick
        BY <4>1 DEF VisitAge, VisitState
      <4> QED  BY <1>2, <1>4, <2>1, <4>1, <4>2, <4>3 DEF VisitFresh
    <3> QED  BY <3>1, <3>2
  <2> QED  BY <1>1, <2>2, <2>3, <2>4 DEF Fresh
<1>10. EndedInTime
  <2>1. row # Gone => row' # Gone  BY <1>1, <1>2 DEF Gone
  <2> QED  BY <2>1 DEF EndedInTime
<1> QED  BY <1>1, <1>5, <1>6, <1>7, <1>8, <1>9, <1>10 DEF ExpiryInv, ServedInTime

\* Manager.Load judges the session by the copy, and refreshes that.
LEMMA JudgeKeeps ==
    ASSUME ExpiryInv, NEW v \in Visits, Judge(v)
    PROVE  ExpiryInv' /\ ServedInTime /\ EndedInTime
<1> USE ExpiryNumbers
<1>0. PICK o : o = visit[v].by  OBVIOUS
<1>1. /\ visit[v].at = "judge"
      /\ UNCHANGED <<counter, tick, row, copies, kept, marked, touched, sweep, errors, missed>>
      /\ tick \in Nat /\ row \in Nat /\ copies \in Nat /\ visit[v] \in VisitState
      /\ visit \in [Visits -> VisitState] /\ lastSeen \in [Copies -> Nat] /\ copies \in Copies
      /\ VisitAge(v)
  BY DEF Judge, ExpiryInv, XTypes, Stamps
<1>2. /\ o \in 1 .. copies /\ \A p \in 1 .. copies : p \in Copies /\ lastSeen[p] \in Nat
      /\ visit[v].begun \in Nat /\ visit[v].begun <= tick /\ tick <= visit[v].begun + Patience
  BY <1>0, <1>1 DEF VisitAge, VisitState, Copies
<1>3. CASE Expired(lastSeen[o], tick)
  <2>1. /\ visit' = [visit EXCEPT ![v] = [visit[v] EXCEPT !.at = "end"]] /\ UNCHANGED <<lastSeen, use>>
    BY <1>0, <1>3 DEF Judge, Proceed
  <2>2. /\ visit' \in [Visits -> VisitState]
        /\ \A w \in Visits : w # v => visit'[w] = visit[w]
        /\ visit'[v].at = "end" /\ visit'[v].begun = visit[v].begun /\ visit'[v].by = visit[v].by
        /\ visit'[v].on = visit[v].on
    BY <1>1, <2>1 DEF VisitState
  <2>3. XTypes'  BY <1>1, <2>1, <2>2 DEF ExpiryInv, XTypes
  <2>4. Stamps'  BY <1>1, <2>1, StampsStay DEF ExpiryInv, XTypes
  <2>5. ASSUME NEW w \in Visits PROVE VisitAge(w)'
    <3>1. CASE w # v  BY <1>1, <2>1, <2>2, <3>1, VisitStays
    <3>2. CASE w = v
      <4>1. Expired(lastSeen'[visit'[v].by], tick')  BY <1>0, <1>1, <1>3, <2>1, <2>2
      <4> HIDE DEF Expired
      <4> QED  BY <1>0, <1>1, <1>2, <2>2, <3>2, <4>1 DEF VisitAge
    <3> QED  BY <3>1, <3>2
  <2>6. ASSUME NEW m \in Nodes PROVE SweepAge(m)'  BY <1>1, <2>1, SweepStays
  <2>7. Fresh'
    <3>1. Pending => Pending'  BY <1>1, <2>2 DEF Pending
    <3>2. ASSUME NEW w \in Visits, visit'[w].at \in {"found", "adopt", "judge"}
          PROVE  visit[w] = visit'[w]
      BY <2>2, <3>2
    <3> QED  BY <1>1, <2>1, <3>1, <3>2, FreshStays
  <2> QED  BY <1>1, <2>1, <2>3, <2>4, <2>5, <2>6, <2>7 DEF ExpiryInv, ServedInTime, EndedInTime
<1>4. CASE ~Expired(lastSeen[o], tick)
  <2>1. /\ visit' = [visit EXCEPT ![v] = NoVisit]
        /\ lastSeen' = [lastSeen EXCEPT ![o] = tick] /\ use' = [at |-> tick, by |-> o]
    BY <1>0, <1>4 DEF Judge, ToEnd
  <2>2. tick <= lastSeen[o] + IdleTimeout /\ tick <= AbsoluteTimeout
    BY <1>1, <1>2, <1>4 DEF Expired
  <2>3. /\ visit' \in [Visits -> VisitState]
        /\ \A w \in Visits : w # v => visit'[w] = visit[w]
        /\ visit'[v].at = "idle"
    <3>1. NoVisit \in VisitState /\ NoVisit.at = "idle"  BY DEF NoVisit, VisitState, None
    <3> QED  BY <1>1, <2>1, <3>1
  <2>4. lastSeen' \in [Copies -> Nat] /\ lastSeen'[o] = tick
        /\ \A p \in Copies : p # o => lastSeen'[p] = lastSeen[p]
    BY <1>1, <1>2, <2>1
  <2>5. XTypes'
    <3>1. use' \in [at : Nat, by : Nat]  BY <1>1, <1>2, <2>1
    <3> QED  BY <1>1, <2>3, <2>4, <3>1 DEF ExpiryInv, XTypes
  <2>6. Stamps'  BY <1>1, <1>2, <2>1, <2>4 DEF ExpiryInv, Stamps, Gone, Never, Copies
  <2>7. ASSUME NEW p \in 1 .. copies, Expired(lastSeen[p], tick) PROVE Expired(lastSeen'[p], tick')
    BY <1>1, <1>2, <1>4, <2>4, <2>7
  <2>8. ASSUME NEW w \in Visits PROVE VisitAge(w)'
    <3>1. CASE w = v  BY <2>3, <3>1 DEF VisitAge
    <3>2. CASE w # v
      <4>1. VisitAge(w) /\ visit'[w] = visit[w]  BY <2>3, <3>2 DEF ExpiryInv
      <4>2. visit[w].at = "end" => Expired(lastSeen'[visit'[w].by], tick')  BY <2>7, <4>1 DEF VisitAge
      <4> HIDE DEF Expired
      <4> QED  BY <1>1, <4>1, <4>2 DEF VisitAge
    <3> QED  BY <3>1, <3>2
  <2>9. ASSUME NEW m \in Nodes PROVE SweepAge(m)'
    <3>1. SweepAge(m)  BY DEF ExpiryInv
    <3>2. sweep[m].at = "bury" => Expired(lastSeen'[sweep[m].by], tick')  BY <2>7, <3>1 DEF SweepAge
    <3>3. Expired(Lagged(sweep[m].env), sweep[m].now) => Expired(Lagged(sweep'[m].env), sweep'[m].now)
      BY <1>1
    <3> HIDE DEF Expired
    <3> QED  BY <1>1, <3>1, <3>2, <3>3 DEF SweepAge
  <2>10. Fresh'
    <3> SUFFICES ASSUME ~missed', row' # Gone PROVE Fresh'  BY DEF Fresh, Gone
    <3>1. ~missed /\ row # Gone  BY <1>1 DEF Gone
    <3>2. Pending' = Pending
      <4>1. \A w \in Visits : visit'[w].at = "refresh" <=> visit[w].at = "refresh"  BY <1>1, <2>3
      <4> QED  BY <4>1 DEF Pending
    <3>3. CopyFresh(o) /\ VisitFresh(v)  BY <1>2, <3>1 DEF ExpiryInv, Fresh
    <3>4. visit[v].begun <= row + TouchEvery + Patience \/ Pending  BY <1>1, <3>3 DEF VisitFresh
    <3>5. CopyFresh(o)'
      <4>1. Patience = 0 => tick <= Lagged(row) + IdleTimeout \/ tick <= row + TouchEvery + Patience
        BY <1>1, <1>2, <2>2, <3>3 DEF CopyFresh, Margin, Lagged
      <4>2. CASE visit[v].begun <= row + TouchEvery + Patience
        BY <1>1, <1>2, <2>4, <4>2 DEF CopyFresh, Margin
      <4>3. CASE Pending
        BY <1>1, <1>2, <2>4, <3>2, <4>1, <4>3 DEF CopyFresh, Margin, Lagged
      <4> QED  BY <3>4, <4>2, <4>3
    <3>6. ASSUME NEW p \in 1 .. copies PROVE CopyFresh(p)'
      <4>1. CASE p = o  BY <3>5, <4>1
      <4>2. CASE p # o
        <5>1. lastSeen'[p] = lastSeen[p]  BY <1>2, <2>4, <4>2
        <5> QED  BY <1>1, <3>1, <3>2, <5>1 DEF ExpiryInv, Fresh, CopyFresh, Margin, Lagged
      <4> QED  BY <4>1, <4>2
    <3>7. \A m \in Nodes : TouchFresh(m)'
      BY <1>1, <3>1, <3>2 DEF ExpiryInv, Fresh, TouchFresh, Never
    <3>8. \A w \in Visits : VisitFresh(w)'
      BY <1>1, <2>3, <3>1, <3>2 DEF ExpiryInv, Fresh, VisitFresh
    <3> QED  BY <1>1, <3>6, <3>7, <3>8 DEF Fresh
  <2>11. ServedInTime
    <3>1. use.by \in 1 .. copies /\ lastSeen[use.by] = use.at  BY DEF ExpiryInv, Stamps
    <3>2. use'.by = o /\ use.at \in Nat /\ lastSeen[o] \in Nat  BY <1>2, <2>1, <3>1
    <3> QED  BY <1>1, <2>2, <3>2 DEF ServedInTime
  <2> QED  BY <1>1, <2>5, <2>6, <2>8, <2>9, <2>10, <2>11 DEF ExpiryInv, EndedInTime
<1> QED  BY <1>3, <1>4

\* Delete lets go of the copy, and of the row if that can be.
LEMMA EndKeeps ==
    ASSUME ExpiryInv, NEW v \in Visits, End(v)
    PROVE  ExpiryInv' /\ ServedInTime /\ EndedInTime
<1>1. PICK n : n = visit[v].on  OBVIOUS
<1>2. /\ visit[v].at = "end" /\ visit' = [visit EXCEPT ![v] = NoVisit]
      /\ row' \in {row, Gone} /\ touched' = [touched EXCEPT ![n] = Never]
      /\ marked' = [marked EXCEPT ![n] = FALSE] /\ kept' = [kept EXCEPT ![n] = None]
      /\ UNCHANGED <<counter, tick, copies, lastSeen, sweep, use, missed>>
  BY <1>1 DEF End, LetGo, ToEnd
<1>3. /\ tick \in Nat /\ row \in Nat /\ copies \in Nat /\ visit \in [Visits -> VisitState]
      /\ kept \in [Nodes -> Nat] /\ touched \in [Nodes -> Nat] /\ marked \in [Nodes -> BOOLEAN]
      /\ None \in Nat /\ Never \in Nat /\ Gone \in Nat
  BY ExpiryNumbers DEF ExpiryInv, XTypes, None, Never, Gone
<1>4. NoVisit \in VisitState /\ NoVisit.at = "idle"  BY DEF NoVisit, VisitState, None
<1>5. /\ visit' \in [Visits -> VisitState] /\ visit'[v].at = "idle"
      /\ \A w \in Visits : w # v => visit'[w] = visit[w]
  BY <1>2, <1>3, <1>4
<1>6. /\ kept' \in [Nodes -> Nat] /\ touched' \in [Nodes -> Nat] /\ marked' \in [Nodes -> BOOLEAN]
      /\ \A m \in Nodes : kept'[m] \in {kept[m], None} /\ touched'[m] \in {touched[m], Never}
  BY <1>2, <1>3
<1>7. XTypes'  BY <1>2, <1>3, <1>5, <1>6 DEF ExpiryInv, XTypes
<1>8. Stamps'  BY <1>2, <1>6, StampsStay
<1>9. ASSUME NEW w \in Visits PROVE VisitAge(w)'
  <2>1. CASE w = v  BY <1>5, <2>1 DEF VisitAge
  <2>2. CASE w # v  BY <1>2, <1>3, <1>5, <2>2, VisitStays
  <2> QED  BY <2>1, <2>2
<1>10. ASSUME NEW m \in Nodes PROVE SweepAge(m)'  BY <1>2, <1>3, SweepStays
<1>11. Fresh'
  <2>1. Pending => Pending'  BY <1>2, <1>5 DEF Pending
  <2>2. ASSUME NEW w \in Visits, visit'[w].at \in {"found", "adopt", "judge"}
        PROVE  visit[w] = visit'[w]
    BY <1>5, <2>2
  <2> QED  BY <1>2, <1>6, <2>1, <2>2, FreshStays
<1>12. EndedInTime
  <2>1. CASE visit[v].by # use.by  BY <1>2, <1>5, <2>1 DEF EndedInTime
  <2>2. CASE visit[v].by = use.by
    <3>1. Expired(use.at, tick)  BY <1>2, <2>2 DEF ExpiryInv, Stamps, VisitAge
    <3> HIDE DEF Expired
    <3> QED  BY <3>1 DEF EndedInTime
  <2> QED  BY <2>1, <2>2
<1> QED  BY <1>2, <1>7, <1>8, <1>9, <1>10, <1>11, <1>12 DEF ExpiryInv, ServedInTime

\* What the steps of a replica's sweep have in common: they may let go of copies,
\* touches and the row.
LEMMA SweepKeeps ==
    ASSUME ExpiryInv, NEW n \in Nodes, UNCHANGED <<tick, copies, lastSeen, visit, use, missed>>,
           row' \in {row, Gone}, marked' \in [Nodes -> BOOLEAN],
           kept' \in [Nodes -> Nat], \A m \in Nodes : kept'[m] \in {kept[m], None},
           touched' \in [Nodes -> Nat], \A m \in Nodes : touched'[m] \in {touched[m], Never},
           sweep' \in [Nodes -> SweepState], \A m \in Nodes : m # n => sweep'[m] = sweep[m],
           SweepAge(n)', EndedInTime
    PROVE  ExpiryInv' /\ ServedInTime /\ EndedInTime
<1>1. row \in Nat /\ copies \in Nat /\ Gone \in Nat  BY ExpiryNumbers DEF ExpiryInv, XTypes, Gone
<1>2. XTypes'  BY <1>1 DEF ExpiryInv, XTypes
<1>3. Stamps'  BY StampsStay
<1>4. ASSUME NEW w \in Visits PROVE VisitAge(w)'  BY <1>1, VisitStays
<1>5. ASSUME NEW m \in Nodes PROVE SweepAge(m)'
  <2>1. CASE m # n  BY <1>1, <2>1, SweepStays
  <2> QED  BY <2>1
<1>6. Fresh'
  <2>1. Pending => Pending'  BY DEF Pending
  <2> QED  BY <2>1, FreshStays
<1> QED  BY <1>2, <1>3, <1>4, <1>5, <1>6 DEF ExpiryInv, ServedInTime

\* reaper takes the time.
LEMMA SweepBeginKeeps ==
    ASSUME ExpiryInv, NEW n \in Nodes, SweepBegin(n)
    PROVE  ExpiryInv' /\ ServedInTime /\ EndedInTime
<1>1. /\ sweep' = [sweep EXCEPT ![n] = [Resting EXCEPT !.at = "scan", !.now = tick]]
      /\ marked' = [marked EXCEPT ![n] = FALSE]
      /\ UNCHANGED <<tick, row, copies, lastSeen, kept, touched, visit, errors, use, missed>>
      /\ tick \in Nat /\ row \in Nat
  BY DEF SweepBegin, ExpiryInv, XTypes
<1>2. sweep' \in [Nodes -> SweepState] /\ marked' \in [Nodes -> BOOLEAN]
      /\ kept' \in [Nodes -> Nat] /\ touched' \in [Nodes -> Nat]
  BY <1>1 DEF ExpiryInv, XTypes, SweepState, Resting, None
<1>3. \A m \in Nodes : m # n => sweep'[m] = sweep[m]  BY <1>1 DEF ExpiryInv, XTypes
<1>4. SweepAge(n)'
  <2>1. sweep'[n].at = "scan" /\ sweep'[n].now = tick  BY <1>1 DEF ExpiryInv, XTypes, Resting
  <2> QED  BY <1>1, <2>1 DEF SweepAge
<1>5. EndedInTime  BY <1>1 DEF EndedInTime
<1> QED  BY <1>1, <1>2, <1>3, <1>4, <1>5, SweepKeeps

\* reaper scans the rows, or falls back on the local store's own sweep.
LEMMA SweepScanKeeps ==
    ASSUME ExpiryInv, NEW n \in Nodes, SweepScan(n)
    PROVE  ExpiryInv' /\ ServedInTime /\ EndedInTime
<1>1. /\ sweep[n].at = "scan"
      /\ UNCHANGED <<counter, tick, row, copies, lastSeen, marked, touched, visit, use, missed>>
      /\ tick \in Nat /\ row \in Nat /\ sweep[n] \in SweepState /\ sweep \in [Nodes -> SweepState]
      /\ kept \in [Nodes -> Nat] /\ marked \in [Nodes -> BOOLEAN] /\ touched \in [Nodes -> Nat]
      /\ SweepAge(n) /\ None \in Nat
  BY DEF SweepScan, ExpiryInv, XTypes, None
<1>2. Resting \in SweepState /\ Resting.at = "idle" /\ Resting.now = 0  BY DEF Resting, SweepState, None
<1>3. /\ sweep' \in [Nodes -> SweepState] /\ \A m \in Nodes : m # n => sweep'[m] = sweep[m]
      /\ kept' \in [Nodes -> Nat] /\ \A m \in Nodes : kept'[m] \in {kept[m], None}
      /\ \/ sweep'[n].at = "local" /\ sweep'[n].now = sweep[n].now
         \/ sweep'[n] = Resting
  <2>1. CASE sweep' = [sweep EXCEPT ![n] = [@ EXCEPT !.at = "local", !.env = row]] /\ kept' = kept
    BY <1>1, <2>1 DEF SweepState
  <2>2. CASE /\ sweep' = [sweep EXCEPT ![n] = Resting]
             /\ kept' = [kept EXCEPT ![n] =
                            IF @ # None /\ Expired(lastSeen[@], sweep[n].now) THEN None ELSE @]
    <3> HIDE DEF Expired
    <3>1. kept' = [kept EXCEPT ![n] = None] \/ kept' = kept
      BY <1>1, <2>2
    <3> QED  BY <1>1, <1>2, <2>2, <3>1
  <2> QED  BY <2>1, <2>2 DEF SweepScan
<1>4. SweepAge(n)'  BY <1>1, <1>2, <1>3 DEF SweepAge
<1>5. EndedInTime  BY <1>1 DEF EndedInTime
<1> QED  BY <1>1, <1>3, <1>4, <1>5, SweepKeeps

\* Reap takes a copy out that has expired, or whose row was not in the scan.
LEMMA SweepLocalKeeps ==
    ASSUME ExpiryInv, NEW n \in Nodes, SweepLocal(n)
    PROVE  ExpiryInv' /\ ServedInTime /\ EndedInTime
<1> DEFINE stored == sweep[n].env # Gone
           dead == /\ kept[n] # None
                   /\ (~stored /\ ~marked[n]) \/ Expired(lastSeen[kept[n]], sweep[n].now)
<1>1. /\ sweep[n].at = "local"
      /\ UNCHANGED <<counter, tick, row, copies, lastSeen, visit, errors, use, missed>>
      /\ tick \in Nat /\ row \in Nat /\ copies \in Nat /\ sweep[n] \in SweepState
      /\ sweep \in [Nodes -> SweepState] /\ sweep[n].now \in Nat
      /\ kept \in [Nodes -> Nat] /\ marked \in [Nodes -> BOOLEAN] /\ touched \in [Nodes -> Nat]
      /\ SweepAge(n) /\ None = 0 /\ Never \in Nat
  BY ExpiryNumbers DEF SweepLocal, ExpiryInv, XTypes, None, Never, SweepState
<1>2. Resting \in SweepState /\ Resting.at = "idle" /\ Resting.now = 0  BY DEF Resting, SweepState, None
<1>3. /\ IF dead THEN kept' = [kept EXCEPT ![n] = None] /\ LetGo(n) ELSE UNCHANGED <<kept, touched, marked>>
      /\ sweep' = [sweep EXCEPT ![n] =
                      IF ~stored THEN Resting
                      ELSE IF dead THEN [@ EXCEPT !.at = "bury", !.by = kept[n]]
                           ELSE [@ EXCEPT !.at = "shared"]]
  BY DEF SweepLocal
<1>4. stored /\ dead => Expired(lastSeen[kept[n]], sweep[n].now) /\ kept[n] # None  OBVIOUS
<1> HIDE DEF dead, stored
<1>5. /\ kept' \in [Nodes -> Nat] /\ \A m \in Nodes : kept'[m] \in {kept[m], None}
      /\ touched' \in [Nodes -> Nat] /\ \A m \in Nodes : touched'[m] \in {touched[m], Never}
      /\ marked' \in [Nodes -> BOOLEAN]
  <2>1. CASE dead
    <3>1. /\ kept' = [kept EXCEPT ![n] = None] /\ touched' = [touched EXCEPT ![n] = Never]
          /\ marked' = [marked EXCEPT ![n] = FALSE]
      BY <1>3, <2>1 DEF LetGo
    <3> QED  BY <1>1, <3>1
  <2>2. CASE ~dead  BY <1>1, <1>3, <2>2
  <2> QED  BY <2>1, <2>2
<1>6. /\ sweep' \in [Nodes -> SweepState] /\ \A m \in Nodes : m # n => sweep'[m] = sweep[m]
      /\ \/ sweep'[n] = Resting
         \/ sweep'[n].at = "shared" /\ sweep'[n].now = sweep[n].now
         \/ /\ stored /\ dead
            /\ sweep'[n].at = "bury" /\ sweep'[n].now = sweep[n].now /\ sweep'[n].by = kept[n]
  <2>1. CASE ~stored  BY <1>1, <1>2, <1>3, <2>1
  <2>2. CASE stored /\ dead
    <3>1. sweep' = [sweep EXCEPT ![n] = [@ EXCEPT !.at = "bury", !.by = kept[n]]]  BY <1>3, <2>2
    <3> QED  BY <1>1, <2>2, <3>1 DEF SweepState
  <2>3. CASE stored /\ ~dead
    <3>1. sweep' = [sweep EXCEPT ![n] = [@ EXCEPT !.at = "shared"]]  BY <1>3, <2>3
    <3> QED  BY <1>1, <3>1 DEF SweepState
  <2> QED  BY <2>1, <2>2, <2>3
<1>7. SweepAge(n)'
  <2>1. CASE sweep'[n] = Resting \/ (sweep'[n].at = "shared" /\ sweep'[n].now = sweep[n].now)
    BY <1>1, <1>2, <2>1 DEF SweepAge
  <2>2. CASE /\ stored /\ dead
             /\ sweep'[n].at = "bury" /\ sweep'[n].now = sweep[n].now /\ sweep'[n].by = kept[n]
    <3>1. kept[n] \in 1 .. copies /\ lastSeen[kept[n]] \in Nat
      <4>1. kept[n] \in Nat /\ kept[n] # 0 /\ kept[n] <= copies  BY <1>1, <1>4, <2>2 DEF ExpiryInv, Stamps
      <4>2. \A p \in 1 .. copies : lastSeen[p] \in Nat
        BY <1>1, ExpiryNumbers DEF ExpiryInv, XTypes, Stamps, Copies
      <4> QED  BY <1>1, <4>1, <4>2
    <3>2. Expired(lastSeen[kept[n]], tick)
      BY <1>1, <1>4, <2>2, <3>1, ExpiryNumbers DEF SweepAge, Expired
    <3> HIDE DEF Expired
    <3> QED  BY <1>1, <2>2, <3>1, <3>2 DEF SweepAge
  <2> QED  BY <1>6, <2>1, <2>2
<1>8. EndedInTime  BY <1>1 DEF EndedInTime
<1> QED  BY <1>1, <1>5, <1>6, <1>7, <1>8, SweepKeeps

\* Reap deletes the row of a copy that it has taken out.
LEMMA SweepBuryKeeps ==
    ASSUME ExpiryInv, NEW n \in Nodes, SweepBury(n)
    PROVE  ExpiryInv' /\ ServedInTime /\ EndedInTime
<1>1. /\ sweep[n].at = "bury" /\ row' \in {row, Gone} /\ sweep' = [sweep EXCEPT ![n] = Resting]
      /\ UNCHANGED <<counter, tick, copies, lastSeen, kept, marked, touched, visit, use, missed>>
      /\ sweep \in [Nodes -> SweepState] /\ tick \in Nat
      /\ kept \in [Nodes -> Nat] /\ marked \in [Nodes -> BOOLEAN] /\ touched \in [Nodes -> Nat]
      /\ SweepAge(n)
  BY DEF SweepBury, ExpiryInv, XTypes
<1>2. Resting \in SweepState /\ Resting.at = "idle" /\ Resting.now = 0  BY DEF Resting, SweepState, None
<1>3. sweep' \in [Nodes -> SweepState] /\ sweep'[n] = Resting /\ \A m \in Nodes : m # n => sweep'[m] = sweep[m]
  BY <1>1, <1>2
<1>4. SweepAge(n)'  BY <1>1, <1>2, <1>3 DEF SweepAge
<1>5. EndedInTime
  <2>1. CASE sweep[n].by # use.by  BY <1>1, <1>2, <1>3, <2>1 DEF EndedInTime
  <2>2. CASE sweep[n].by = use.by
    <3>1. Expired(use.at, tick)  BY <1>1, <2>2 DEF ExpiryInv, Stamps, SweepAge
    <3> HIDE DEF Expired
    <3> QED  BY <3>1 DEF EndedInTime
  <2> QED  BY <2>1, <2>2
<1> QED  BY <1>1, <1>3, <1>4, <1>5, SweepKeeps

\* Reap judges a row that no copy stands behind by its last_seen and the margin,
\* and deletes it if it has not been refreshed since.
LEMMA SweepSharedKeeps ==
    ASSUME ExpiryInv, NEW n \in Nodes, SweepShared(n)
    PROVE  ExpiryInv' /\ ServedInTime /\ EndedInTime
<1> USE ExpiryNumbers
<1>1. PICK env : env = sweep[n].env  OBVIOUS
<1>2. /\ sweep[n].at \in {"shared", "abandoned"}
      /\ UNCHANGED <<counter, tick, copies, lastSeen, kept, marked, touched, visit, use, missed>>
      /\ sweep \in [Nodes -> SweepState] /\ sweep[n] \in SweepState /\ tick \in Nat /\ row \in Nat
      /\ env \in Nat /\ sweep[n].now \in Nat
      /\ kept \in [Nodes -> Nat] /\ marked \in [Nodes -> BOOLEAN] /\ touched \in [Nodes -> Nat]
      /\ SweepAge(n)
  BY <1>1 DEF SweepShared, ExpiryInv, XTypes, SweepState
<1>3. Resting \in SweepState /\ Resting.at = "idle" /\ Resting.now = 0  BY DEF Resting, SweepState, None
<1>4. CASE /\ sweep[n].at = "shared" /\ row' = row
           /\ kept[n] = None /\ Expired(Lagged(env), sweep[n].now)
           /\ sweep' = [sweep EXCEPT ![n] = [@ EXCEPT !.at = "abandoned"]]
  <2>1. /\ sweep' \in [Nodes -> SweepState] /\ \A m \in Nodes : m # n => sweep'[m] = sweep[m]
        /\ sweep'[n].at = "abandoned" /\ sweep'[n].env = env /\ sweep'[n].now = sweep[n].now
    BY <1>1, <1>2, <1>4 DEF SweepState
  <2>2. SweepAge(n)'
    <3>1. Expired(Lagged(sweep'[n].env), sweep'[n].now)  BY <1>4, <2>1
    <3> HIDE DEF Expired
    <3> QED  BY <1>2, <2>1, <3>1 DEF SweepAge
  <2>3. EndedInTime  BY <1>4 DEF EndedInTime
  <2> QED  BY <1>2, <1>4, <2>1, <2>2, <2>3, SweepKeeps
<1>5. CASE sweep' = [sweep EXCEPT ![n] = Resting] /\ row' \in {row, Gone}
           /\ (row' # row => sweep[n].at = "abandoned" /\ row = env)
  <2>1. sweep' \in [Nodes -> SweepState] /\ sweep'[n] = Resting
        /\ \A m \in Nodes : m # n => sweep'[m] = sweep[m]
    BY <1>2, <1>3, <1>5
  <2>2. SweepAge(n)'  BY <1>2, <1>3, <2>1 DEF SweepAge
  <2>3. EndedInTime
    <3> SUFFICES ASSUME row # Gone, row' = Gone
                 PROVE  \/ Expired(use.at, tick)
                        \/ /\ sweep[n].at # sweep'[n].at
                           /\ sweep[n].at = "abandoned" /\ (missed \/ Behind)
      BY DEF EndedInTime
    <3>1. sweep[n].at = "abandoned" /\ sweep'[n].at # "abandoned" /\ row = env
      BY <1>3, <1>5, <2>1
    <3>2. CASE missed  BY <3>1, <3>2
    <3>3. CASE ~missed
      <4>1. sweep[n].now <= tick /\ (sweep[n].now > row + TouchEvery + IdleTimeout \/ sweep[n].now > AbsoluteTimeout)
        BY <1>1, <1>2, <3>1 DEF SweepAge, Expired, Lagged
      <4>2. use.at \in Nat /\ lastSeen[use.by] = use.at /\ use.by \in 1 .. copies
        BY DEF ExpiryInv, XTypes, Stamps
      <4>3. \/ use.at <= row + Margin
            \/ Pending /\ (Patience = 0 => tick <= row + TouchEvery + IdleTimeout)
        BY <3>3, <4>2 DEF ExpiryInv, Fresh, CopyFresh, Lagged
      <4>4. CASE sweep[n].now > AbsoluteTimeout  BY <1>2, <4>1, <4>4 DEF Expired
      <4>5. CASE sweep[n].now > row + TouchEvery + IdleTimeout
        <5>1. tick > row + TouchEvery + IdleTimeout  BY <1>2, <4>1, <4>5
        <5>2. Behind  BY <1>2, <4>2, <4>3, <5>1 DEF Behind, Margin
        <5> QED  BY <3>1, <5>2
      <4> QED  BY <4>1, <4>4, <4>5
    <3> QED  BY <3>2, <3>3
  <2> QED  BY <1>2, <1>5, <2>1, <2>2, <2>3, SweepKeeps
<1> HIDE DEF Expired
<1> QED  BY <1>1, <1>2, <1>4, <1>5 DEF SweepShared

\* A process that ends leaves the row as it is; what it was about to write is lost.
LEMMA RestartKeeps ==
    ASSUME ExpiryInv, NEW n \in Nodes, Restart_(n)
    PROVE  ExpiryInv' /\ ServedInTime /\ EndedInTime
<1>1. /\ kept' = [kept EXCEPT ![n] = None] /\ touched' = [touched EXCEPT ![n] = Never]
      /\ marked' = [marked EXCEPT ![n] = FALSE] /\ sweep' = [sweep EXCEPT ![n] = Resting]
      /\ visit' = [v \in Visits |-> IF visit[v].on = n THEN NoVisit ELSE visit[v]]
      /\ missed' = (missed \/ \E v \in Visits : visit[v].on = n /\ visit[v].at = "refresh")
      /\ UNCHANGED <<counter, tick, row, copies, lastSeen, use>>
  BY DEF Restart_, LetGo
<1>2. /\ tick \in Nat /\ row \in Nat /\ copies \in Nat /\ visit \in [Visits -> VisitState]
      /\ kept \in [Nodes -> Nat] /\ touched \in [Nodes -> Nat] /\ marked \in [Nodes -> BOOLEAN]
      /\ sweep \in [Nodes -> SweepState] /\ None \in Nat /\ Never \in Nat
  BY ExpiryNumbers DEF ExpiryInv, XTypes, None, Never
<1>3. NoVisit \in VisitState /\ NoVisit.at = "idle"  BY DEF NoVisit, VisitState, None
<1>4. Resting \in SweepState /\ Resting.at = "idle" /\ Resting.now = 0  BY DEF Resting, SweepState, None
<1>5. \A w \in Visits : visit'[w] = NoVisit \/ visit'[w] = visit[w]  BY <1>1
<1>6. /\ kept' \in [Nodes -> Nat] /\ touched' \in [Nodes -> Nat] /\ marked' \in [Nodes -> BOOLEAN]
      /\ \A m \in Nodes : kept'[m] \in {kept[m], None} /\ touched'[m] \in {touched[m], Never}
  BY <1>1, <1>2
<1>7. sweep' \in [Nodes -> SweepState] /\ \A m \in Nodes : sweep'[m] = Resting \/ sweep'[m] = sweep[m]
  BY <1>1, <1>2, <1>4
<1>8. XTypes'
  <2>1. visit' \in [Visits -> VisitState]  BY <1>1, <1>2, <1>3
  <2>2. missed' \in BOOLEAN  BY <1>1
  <2> QED  BY <1>1, <1>2, <1>6, <1>7, <2>1, <2>2 DEF ExpiryInv, XTypes
<1>9. Stamps'  BY <1>1, <1>6, StampsStay
<1>10. ASSUME NEW w \in Visits PROVE VisitAge(w)'
  <2>1. CASE visit'[w] = NoVisit  BY <1>3, <2>1 DEF VisitAge
  <2>2. CASE visit'[w] = visit[w]  BY <1>1, <1>2, <2>2, VisitStays
  <2> QED  BY <1>5, <2>1, <2>2
<1>11. ASSUME NEW m \in Nodes PROVE SweepAge(m)'
  <2>1. CASE sweep'[m] = Resting  BY <1>1, <1>2, <1>4, <2>1 DEF SweepAge
  <2>2. CASE sweep'[m] = sweep[m]  BY <1>1, <1>2, <2>2, SweepStays
  <2> QED  BY <1>7, <2>1, <2>2
<1>12. Fresh'
  <2>1. missed => missed'  BY <1>1
  <2>2. Pending => Pending' \/ missed'
    <3> SUFFICES ASSUME NEW v \in Visits, visit[v].at = "refresh", ~missed' PROVE Pending'  BY DEF Pending
    <3>1. visit[v].on # n  BY <1>1
    <3>2. visit'[v] = visit[v]  BY <1>1, <3>1
    <3> QED  BY <3>2 DEF Pending
  <2>3. ASSUME NEW w \in Visits, visit'[w].at \in {"found", "adopt", "judge"}
        PROVE  visit[w] = visit'[w]
    BY <1>3, <1>5, <2>3
  <2> QED  BY <1>1, <1>6, <2>1, <2>2, <2>3, FreshStays
<1> QED  BY <1>1, <1>8, <1>9, <1>10, <1>11, <1>12 DEF ExpiryInv, ServedInTime, EndedInTime

\* Nor does anything that the model leaves out.
LEMMA IdleKeeps ==
    ASSUME ExpiryInv, UNCHANGED xvars
    PROVE  ExpiryInv' /\ ServedInTime /\ EndedInTime
<1>1. UNCHANGED <<tick, row, copies, lastSeen, kept, marked, touched, visit, sweep, errors, counter, use, missed>>
  BY DEF xvars
<1>2. XTypes'  BY <1>1 DEF ExpiryInv, XTypes
<1>3. copies \in Nat  BY DEF ExpiryInv, XTypes
<1>4. Stamps'  BY <1>1, <1>2, StampsStay DEF XTypes
<1>5. \A v \in Visits : VisitAge(v)'  BY <1>1, <1>3, VisitStays
<1>6. \A n \in Nodes : SweepAge(n)'  BY <1>1, <1>3, SweepStays
<1>7. Fresh'
  <2>1. Pending => Pending'  BY <1>1 DEF Pending
  <2> QED  BY <1>1, <2>1, FreshStays
<1> QED  BY <1>1, <1>2, <1>4, <1>5, <1>6, <1>7 DEF ExpiryInv, ServedInTime, EndedInTime

\* Every step keeps the invariant and the timeouts.
LEMMA ExpiryKept ==
    ASSUME ExpiryInv, [XNext]_xvars
    PROVE  ExpiryInv' /\ ServedInTime /\ EndedInTime
<1>1. ASSUME NEW d \in UNION {Moves[i] : i \in 1 .. Len(Moves)}, Elapse(d)
      PROVE  ExpiryInv' /\ ServedInTime /\ EndedInTime
  BY <1>1, ElapseKeeps
<1>2. ASSUME NEW v \in Visits,
             (\E n \in Nodes : Lookup(v, n)) \/ Recall(v) \/ Adopt(v) \/ Refresh(v) \/ Judge(v) \/ End(v)
      PROVE  ExpiryInv' /\ ServedInTime /\ EndedInTime
  BY <1>2, LookupKeeps, RecallKeeps, AdoptKeeps, RefreshKeeps, JudgeKeeps, EndKeeps
<1>3. ASSUME NEW n \in Nodes,
             SweepBegin(n) \/ SweepScan(n) \/ SweepLocal(n) \/ SweepBury(n) \/ SweepShared(n) \/ Restart_(n)
      PROVE  ExpiryInv' /\ ServedInTime /\ EndedInTime
  BY <1>3, SweepBeginKeeps, SweepScanKeeps, SweepLocalKeeps, SweepBuryKeeps, SweepSharedKeeps, RestartKeeps
<1> QED  BY <1>1, <1>2, <1>3, IdleKeeps DEF XNext

\* A session is served only within the timeouts, and its row leaves only after
\* one of them, or as the code allows it to (Manager.Load, SessionStore.Reap,
\* expired): replicas that judge it by copies and rows that lag behind its last
\* use do not end it early.
THEOREM TimeoutsKept == XSpec => TimeoutsHold
<1>1. XInit(Nodes) => ExpiryInv  BY ExpiryStarts
<1>2. ExpiryInv /\ [XNext]_xvars => ExpiryInv' /\ [ServedInTime /\ EndedInTime]_xvars  BY ExpiryKept
<1> QED  BY <1>1, <1>2, PTL DEF XSpec, TimeoutsHold
==============================================================================
