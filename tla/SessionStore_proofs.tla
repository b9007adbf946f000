------------------------ MODULE SessionStore_proofs -------------------------
(***************************************************************************)
(* Proofs about SessionStore, for any number of replicas, request threads  *)
(* and ids, and any bounds.                                                *)
(***************************************************************************)
EXTENDS SessionStore, FiniteSetTheorems, TLAPS

-----------------------------------------------------------------------------
(***************************************************************************)
(* Lemmas on the generations map: what its updates keep within its bound.  *)
(***************************************************************************)

\* releaseGeneration, forget and pruneGenerations only take entries away.
LEMMA DropFits ==
    ASSUME NEW S \in MarkerSets, NEW T \in SUBSET S
    PROVE  T \in MarkerSets
<1>1. IsFiniteSet(S)
    BY ConstantsAssumption, FS_Subset DEF MarkerSets
<1>2. Cardinality(T) <= Cardinality(S)
    BY <1>1, FS_Subset
<1>3. Cardinality(S) \in Nat /\ Cardinality(T) \in Nat
    BY <1>1, FS_Subset, FS_CardinalityType
<1> QED BY <1>2, <1>3, ConstantsAssumption DEF MarkerSets

\* reserveGeneration stamps an entry that is there, or one there is room for.
LEMMA StampFits ==
    ASSUME NEW S \in MarkerSets, NEW id \in Ids,
           id \in S \/ Cardinality(S) < MaxMarkers
    PROVE  S \cup {id} \in MarkerSets
<1>1. IsFiniteSet(S)
    BY ConstantsAssumption, FS_Subset DEF MarkerSets
<1>2. CASE id \in S
    <2>1. S \cup {id} = S
        BY <1>2
    <2> QED BY <2>1
<1>3. CASE id \notin S
    <2>1. Cardinality(S \cup {id}) = Cardinality(S) + 1
        BY <1>1, <1>3, FS_AddElement
    <2>2. Cardinality(S) \in Nat
        BY <1>1, FS_CardinalityType
    <2> QED BY <1>3, <2>1, <2>2, ConstantsAssumption DEF MarkerSets
<1> QED BY <1>2, <1>3

\* handOffGeneration gives the new id the old one's entry, or a free one.
LEMMA HandOffFits ==
    ASSUME NEW S \in MarkerSets, NEW old \in Ids, NEW new \in Ids,
           old \in S \/ new \in S \/ Cardinality(S) < MaxMarkers
    PROVE  (S \ {old}) \cup {new} \in MarkerSets
<1>1. IsFiniteSet(S)
    BY ConstantsAssumption, FS_Subset DEF MarkerSets
<1>2. S \ {old} \in MarkerSets
    BY DropFits
<1>3. new \in S \ {old} \/ Cardinality(S \ {old}) < MaxMarkers \/ new \in S
    <2>1. CASE old \in S
        <3>1. Cardinality(S \ {old}) = Cardinality(S) - 1
            BY <1>1, <2>1, FS_RemoveElement
        <3>2. Cardinality(S) \in Nat
            BY <1>1, FS_CardinalityType
        <3> QED BY <3>1, <3>2, ConstantsAssumption DEF MarkerSets
    <2>2. CASE old \notin S
        <3>1. S \ {old} = S
            BY <2>2
        <3> QED BY <3>1
    <2> QED BY <2>1, <2>2
<1>4. CASE new \in S
    <2>1. (S \ {old}) \cup {new} \in SUBSET S
        BY <1>4
    <2> QED BY <2>1, DropFits
<1>5. CASE new \notin S
    BY <1>2, <1>3, <1>5, StampFits
<1> QED BY <1>4, <1>5

-----------------------------------------------------------------------------
(***************************************************************************)
(* Type correctness.  It is inductive on its own: the conjuncts that are   *)
(* not about one assignment are the bound of the generations map, and that *)
(* a busy thread has the ids its step works on.                            *)
(***************************************************************************)
MarkerTypes ==
    /\ unpersisted \in [Replicas -> SUBSET Ids]
    /\ stamped \in [Replicas -> MarkerSets]
    /\ fresh \in [Replicas -> SUBSET Ids]

LEMMA StampTypes ==
    ASSUME TypeOK, NEW r \in Replicas, NEW id \in Ids,
           HasSlot(r, id), Stamp(r, id)
    PROVE  /\ stamped' \in [Replicas -> MarkerSets]
           /\ fresh' \in [Replicas -> SUBSET Ids]
<1>1. stamped[r] \cup {id} \in MarkerSets
    BY StampFits DEF TypeOK, HasSlot
<1> QED BY <1>1 DEF TypeOK, Stamp

LEMMA UnstampTypes ==
    ASSUME TypeOK, NEW r \in Replicas, NEW id, Unstamp(r, id)
    PROVE  /\ stamped' \in [Replicas -> MarkerSets]
           /\ fresh' \in [Replicas -> SUBSET Ids]
<1>1. stamped[r] \ {id} \in MarkerSets
    BY DropFits DEF TypeOK
<1> QED BY <1>1 DEF TypeOK, Unstamp

LEMMA HandOffTypes ==
    ASSUME TypeOK, NEW r \in Replicas, NEW old \in Ids, NEW new \in Ids,
           HasSlot(r, old) \/ HasSlot(r, new), HandOff(r, old, new)
    PROVE  /\ stamped' \in [Replicas -> MarkerSets]
           /\ fresh' \in [Replicas -> SUBSET Ids]
<1>1. (stamped[r] \ {old}) \cup {new} \in MarkerSets
    BY HandOffFits DEF TypeOK, HasSlot
<1> QED BY <1>1 DEF TypeOK, HandOff

LEMMA ForgetTypes ==
    ASSUME TypeOK, NEW r \in Replicas, NEW id, NEW Kept \in SUBSET Ids,
           Forget(r, id, Kept)
    PROVE  MarkerTypes'
<1>1. Unstamp(r, id)
    BY DEF Forget
<1> QED BY <1>1, UnstampTypes DEF Forget, TypeOK, MarkerTypes

LEMMA PutLocalTypes ==
    ASSUME TypeOK, NEW r \in Replicas, NEW id \in Ids, NEW T \in SUBSET Threads,
           PutLocal(r, id, T)
    PROVE  /\ local' \in [Replicas -> SUBSET Ids]
           /\ held' \subseteq Threads
           /\ MarkerTypes'
<1>1. CASE /\ local' = [local EXCEPT ![r] = @ \cup {id}]
           /\ held' = (held \ Displaced(r, {id})) \cup T
           /\ UNCHANGED markVars
    <2>1. local' \in [Replicas -> SUBSET Ids] /\ held' \subseteq Threads
        BY <1>1 DEF TypeOK
    <2> QED BY <1>1, <2>1 DEF TypeOK, MarkerTypes, markVars
<1>2. ASSUME NEW victim \in local[r],
             local' = [local EXCEPT ![r] = (@ \ {victim}) \cup {id}],
             held' = (held \ Displaced(r, {id, victim})) \cup T,
             Forget(r, victim, {})
      PROVE  /\ local' \in [Replicas -> SUBSET Ids]
             /\ held' \subseteq Threads
             /\ MarkerTypes'
    <2>1. local' \in [Replicas -> SUBSET Ids] /\ held' \subseteq Threads
        BY <1>2 DEF TypeOK
    <2>2. MarkerTypes'
        BY <1>2, ForgetTypes
    <2> QED BY <2>1, <2>2
<1> QED BY <1>1, <1>2 DEF PutLocal

LEMMA CountTypes ==
    ASSUME TypeOK PROVE Cardinality(table) \in Nat
BY ConstantsAssumption, FS_Subset, FS_CardinalityType DEF TypeOK


LEMMA EmptyFits == {} \in MarkerSets
BY FS_EmptySet, ConstantsAssumption DEF MarkerSets

\* Only the steps of repersist touch what it is about to write or to note.
LEMMA OneTargetStep ==
    ASSUME TypeOK, [Next]_vars
    PROVE  OneTarget'
<1> USE DEF reaperVars, RGoto, OneTarget, TypeOK
<1>1. ASSUME NEW t \in Threads, ThreadStep(t)
      PROVE  UNCHANGED <<rpc, pending, target>>
    BY <1>1 DEF ThreadStep, GetMissing, GetLocal, GetAdopt, Respond, SaveInsert,
                SaveFail, SavePublish, DeleteForget, DeleteLocal, ReplaceRow,
                ReplaceForget, ReplaceDropOld, ReplacePublish, ReplaceLocally,
                ReplaceLocal, ReplaceMarkLocal
<1>2. ASSUME NEW t \in Threads, Request(t)
      PROVE  UNCHANGED <<rpc, pending, target>>
    BY <1>2 DEF Request, DeleteRow, GetSelect, GetDegraded, SaveAdmit, ReplaceBegin
<1>3. ASSUME NEW r \in Replicas, ReaperStep(r)
      PROVE  OneTarget'
    <2>1. CASE ReapEpoch(r)
        BY <2>1 DEF ReapEpoch
    <2>2. CASE ReapScan(r)
        BY <2>2 DEF ReapScan
    <2>3. CASE ReapScanFails(r)
        BY <2>3 DEF ReapScanFails
    <2>4. CASE ReapCount(r)
        BY <2>4 DEF ReapCount
    <2>5. CASE RepersistSnapshot(r)
        BY <2>5 DEF RepersistSnapshot
    <2>6. CASE RepersistLock(r)
        BY <2>6 DEF RepersistLock
    <2>7. CASE RepersistUnlock(r)
        BY <2>7 DEF RepersistUnlock
    <2>8. CASE ReapLocal(r)
        BY <2>8 DEF ReapLocal
    <2>9. CASE ReapPrune(r)
        BY <2>9 DEF ReapPrune
    <2>10. ASSUME NEW id \in Ids, RepersistSkip(r, id) PROVE OneTarget'
        BY <2>10 DEF RepersistSkip
    <2>11. ASSUME NEW id \in Ids, RepersistReserve(r, id) PROVE OneTarget'
        BY <2>11 DEF RepersistReserve
    <2>12. ASSUME NEW id \in Ids, RepersistInsert(r, id) PROVE OneTarget'
        BY <2>12 DEF RepersistInsert
    <2>13. ASSUME NEW id \in Ids, RepersistNote(r, id) PROVE OneTarget'
        BY <2>13 DEF RepersistNote
    <2>14. ASSUME NEW id \in Ids, BuryForget(r, id) PROVE OneTarget'
        BY <2>14 DEF BuryForget
    <2>15. ASSUME NEW id \in Ids, BuryRow(r, id) PROVE OneTarget'
        BY <2>15 DEF BuryRow
    <2>16. ASSUME NEW id \in Ids, Abandon(r, id) PROVE OneTarget'
        BY <2>16 DEF Abandon
    <2>17. ASSUME NEW id \in Ids, AbandonRow(r, id) PROVE OneTarget'
        BY <2>17 DEF AbandonRow
    <2> QED BY <1>3, <2>1, <2>2, <2>3, <2>4, <2>5, <2>6, <2>7, <2>8, <2>9, <2>10,
               <2>11, <2>12, <2>13, <2>14, <2>15, <2>16, <2>17 DEF ReaperStep
<1>4. ASSUME NEW r \in Replicas, Restart(r) PROVE OneTarget'
    BY <1>4 DEF Restart
<1>5. CASE UNCHANGED vars
    BY <1>5 DEF vars
<1> QED BY <1>1, <1>2, <1>3, <1>4, <1>5 DEF Next

LEMMA TypeStep == TypeOK /\ [Next]_vars => TypeOK'
<1> SUFFICES ASSUME TypeOK, [Next]_vars
             PROVE  TypeOK'
    OBVIOUS
<1> USE ConstantsAssumption
    DEF dbVars, markVars, threadVars, reaperVars, envVars, endVars,
        ThreadSteps, ReaperSteps, LoginSteps, Goto, RGoto, Finish, Fault
<1>0. unmarked' \in [Replicas -> SUBSET Ids]
    BY DEF KeepHistory, Next, vars, TypeOK
<1> USE <1>0, OneTargetStep
<1>1. ASSUME NEW t \in Threads, GetMissing(t) PROVE TypeOK'
    BY <1>1 DEF TypeOK, GetMissing
<1>2. ASSUME NEW t \in Threads, GetLocal(t) PROVE TypeOK'
    BY <1>2, StampTypes DEF TypeOK, GetLocal
<1>3. ASSUME NEW t \in Threads, GetAdopt(t) PROVE TypeOK'
    BY <1>3, PutLocalTypes DEF TypeOK, GetAdopt, MarkerTypes
<1>4. ASSUME NEW t \in Threads, Respond(t) PROVE TypeOK'
    BY <1>4 DEF TypeOK, Respond
<1>5. ASSUME NEW t \in Threads, SaveInsert(t) PROVE TypeOK'
    <2>1. MarkerTypes'
        BY <1>5, UnstampTypes DEF SaveInsert, MarkerTypes, TypeOK
    <2>2. Home[t] \in Replicas /\ sid[t] \in Ids
        BY <1>5 DEF TypeOK, SaveInsert
    <2>3. /\ table' \subseteq Ids /\ stored' \subseteq Ids
          /\ unanswered' \subseteq Ids /\ faults' \in Nat
        BY <1>5, <2>2 DEF TypeOK, SaveInsert, InsertCommits, CommitFails, InsertRefused
    <2>4. rows' \in [Replicas -> Int]
        BY <1>5, <2>2
        DEF TypeOK, SaveInsert, InsertCommits, CommitFails, InsertRefused, Grown
    <2>5. pc' \in [Threads -> ThreadSteps] /\ locked' \in [Replicas -> BOOLEAN]
        BY <1>5 DEF TypeOK, SaveInsert, Unlock
    <2>6. /\ pc'[t] \in {"savePublish", "saveFail"} /\ pc' = [pc EXCEPT ![t] = pc'[t]]
          /\ UNCHANGED <<sid, nid, local, held, reaperVars, envVars, endVars>>
        BY <1>5 DEF TypeOK, SaveInsert
    <2> QED BY <2>1, <2>2, <2>3, <2>4, <2>5, <2>6 DEF TypeOK, MarkerTypes
<1>6. ASSUME NEW t \in Threads, SaveFail(t) PROVE TypeOK'
    BY <1>6 DEF TypeOK, SaveFail
<1>7. ASSUME NEW t \in Threads, SavePublish(t) PROVE TypeOK'
    BY <1>7, PutLocalTypes DEF TypeOK, SavePublish, MarkerTypes
<1>8. ASSUME NEW t \in Threads, DeleteRow(t) PROVE TypeOK'
    BY <1>8
    DEF TypeOK, DeleteRow, Lock, DeleteAnswered, DeleteFails, EndIfGone
<1>9. ASSUME NEW t \in Threads, DeleteForget(t) PROVE TypeOK'
    BY <1>9, ForgetTypes DEF TypeOK, DeleteForget, MarkerTypes, Unlock
<1>10. ASSUME NEW t \in Threads, DeleteLocal(t) PROVE TypeOK'
    BY <1>10 DEF TypeOK, DeleteLocal, DropLocal
<1>11. ASSUME NEW t \in Threads, ReplaceRow(t) PROVE TypeOK'
    <2>0. Home[t] \in Replicas /\ sid[t] \in Ids /\ nid[t] \in Ids
        BY <1>11 DEF TypeOK, ReplaceRow
    <2>1. MarkerTypes'
        <3>1. CASE Unstamp(Home[t], nid[t]) /\ UNCHANGED unpersisted
            BY <2>0, <3>1, UnstampTypes DEF MarkerTypes, TypeOK
        <3>2. CASE UNCHANGED markVars
            BY <3>2 DEF MarkerTypes, TypeOK
        <3> QED BY <1>11, <3>1, <3>2 DEF ReplaceRow
    <2>2. CASE ReplaceRefused(t)
        BY <1>11, <2>0, <2>1, <2>2
           DEF TypeOK, MarkerTypes, ReplaceRow, ReplaceRefused, Unlock
    <2>3. CASE ~ReplaceRefused(t)
        BY <1>11, <2>0, <2>1, <2>3 DEF TypeOK, MarkerTypes, ReplaceRow
    <2> QED BY <2>2, <2>3
<1>12. ASSUME NEW t \in Threads, ReplaceForget(t) PROVE TypeOK'
    BY <1>12, ForgetTypes DEF TypeOK, ReplaceForget, MarkerTypes
<1>13. ASSUME NEW t \in Threads, ReplaceDropOld(t) PROVE TypeOK'
    BY <1>13 DEF TypeOK, ReplaceDropOld, DropLocal
<1>14. ASSUME NEW t \in Threads, ReplacePublish(t) PROVE TypeOK'
    BY <1>14, PutLocalTypes DEF TypeOK, ReplacePublish, MarkerTypes, Unlock
<1>15. ASSUME NEW t \in Threads, ReplaceLocally(t) PROVE TypeOK'
    <2>0. sid[t] \in Ids /\ nid[t] \in Ids /\ Home[t] \in Replicas
        BY <1>15 DEF TypeOK, ReplaceLocally
    <2>1. CASE ReplaceRefused(t)
        BY <1>15, <2>0, <2>1
        DEF TypeOK, ReplaceLocally, ReplaceRefused, Unlock,
              DeleteAnswered, DeleteFails, EndIfGone
    <2>2. CASE ~ReplaceRefused(t)
        <3>1. /\ table' \subseteq Ids /\ ended' \subseteq Ids /\ faults' \in Nat
              /\ rows' \in [Replicas -> Int] /\ UNCHANGED <<stored, unanswered>>
            BY <1>15, <2>0 DEF TypeOK, ReplaceLocally, DeleteAnswered, DeleteFails,
                  EndIfGone
        <3>2. pc' = [pc EXCEPT ![t] = "swapLocal"] /\ UNCHANGED <<sid, nid, locked, held>>
            BY <1>15, <2>2 DEF ReplaceLocally
        <3>3. UNCHANGED <<local, markVars, reaperVars, envVars, won>>
            BY <1>15 DEF ReplaceLocally
        <3>4. pc[t] = "swapLocalRow"
            BY <1>15 DEF ReplaceLocally
        <3> QED BY <2>0, <3>1, <3>2, <3>3, <3>4 DEF TypeOK
    <2> QED BY <2>1, <2>2
<1>16. ASSUME NEW t \in Threads, ReplaceLocal(t) PROVE TypeOK'
    <2>0. sid[t] \in Ids /\ nid[t] \in Ids /\ Home[t] \in Replicas
        BY <1>16 DEF TypeOK, ReplaceLocal
    <2>1. CASE ReplaceRefused(t)
        BY <1>16, <2>0, <2>1
           DEF TypeOK, ReplaceLocal, ReplaceRefused, Unlock, EndIfGone
    <2>2. CASE ~ReplaceRefused(t)
        BY <1>16, <2>0, <2>2 DEF TypeOK, ReplaceLocal, EndIfGone
    <2> QED BY <2>1, <2>2
<1>17. ASSUME NEW t \in Threads, ReplaceMarkLocal(t) PROVE TypeOK'
    BY <1>17, ForgetTypes DEF TypeOK, ReplaceMarkLocal, MarkerTypes, Unlock
<1>18. ASSUME NEW t \in Threads, NEW id \in Ids, GetSelect(t, id)
      PROVE  TypeOK'
    BY <1>18 DEF TypeOK, GetSelect
<1>19. ASSUME NEW t \in Threads, NEW id \in Ids, GetDegraded(t, id)
      PROVE  TypeOK'
    BY <1>19 DEF TypeOK, GetDegraded
<1>20. ASSUME NEW t \in Threads, NEW id \in Ids, SaveAdmit(t, id)
      PROVE  TypeOK'
    <2> DEFINE r == Home[t]
    <2>1. CASE ~CapReached(r) /\ HasSlot(r, id)
        <3>1. /\ stamped' \in [Replicas -> MarkerSets]
              /\ fresh' \in [Replicas -> SUBSET Ids]
            BY <1>20, <2>1, StampTypes DEF SaveAdmit
        <3>2. /\ locked' = [locked EXCEPT ![r] = TRUE] /\ pc' = [pc EXCEPT ![t] = "saveInsert"]
              /\ sid' = [sid EXCEPT ![t] = id] /\ minted' = minted \cup {id}
              /\ UNCHANGED <<dbVars, local, unpersisted, rows, nid, held,
                             reaperVars, cookies, restarts, faults, endVars>>
            BY <1>20, <2>1 DEF SaveAdmit, Lock
        <3> QED BY <3>1, <3>2 DEF TypeOK
    <2>2. CASE ~(~CapReached(r) /\ HasSlot(r, id))
        BY <1>20, <2>2 DEF TypeOK, SaveAdmit
    <2> QED BY <2>1, <2>2
<1>21. ASSUME NEW t \in Threads, NEW id \in Ids, ReplaceBegin(t, id)
      PROVE  TypeOK'
    <2>1. /\ stamped' \in [Replicas -> MarkerSets]
          /\ fresh' \in [Replicas -> SUBSET Ids]
        <3>1. sid[t] \in Ids BY <1>21 DEF TypeOK, ReplaceBegin
        <3>2. CASE HasSlot(Home[t], sid[t]) \/ HasSlot(Home[t], id)
            BY <1>21, <3>1, <3>2, HandOffTypes DEF ReplaceBegin
        <3>3. CASE ~(HasSlot(Home[t], sid[t]) \/ HasSlot(Home[t], id))
            BY <1>21, <3>3 DEF ReplaceBegin, TypeOK
        <3> QED BY <3>2, <3>3
    <2>2. pc' = [pc EXCEPT ![t] = "swapRow"] \/ pc' = [pc EXCEPT ![t] = "swapLocalRow"]
        BY <1>21 DEF ReplaceBegin
    <2> QED BY <1>21, <2>1, <2>2 DEF TypeOK, ReplaceBegin, Lock
<1>22. ASSUME NEW r \in Replicas, ReapEpoch(r) PROVE TypeOK'
    BY <1>22 DEF TypeOK, ReapEpoch
<1>23. ASSUME NEW r \in Replicas, ReapScan(r) PROVE TypeOK'
    BY <1>23 DEF TypeOK, ReapScan, Publishing
<1>24. ASSUME NEW r \in Replicas, ReapScanFails(r) PROVE TypeOK'
    BY <1>24 DEF TypeOK, ReapScanFails, DropLocal
<1>25. ASSUME NEW r \in Replicas, ReapCount(r) PROVE TypeOK'
    BY <1>25, CountTypes DEF TypeOK, ReapCount
<1>26. ASSUME NEW r \in Replicas, RepersistSnapshot(r) PROVE TypeOK'
    BY <1>26 DEF TypeOK, RepersistSnapshot
<1>27. ASSUME NEW r \in Replicas, RepersistLock(r) PROVE TypeOK'
    <2>1. CapReached(r) \in BOOLEAN BY DEF CapReached
    <2>2. rpc' \in [Replicas -> ReaperSteps]
        BY <1>27 DEF TypeOK, RepersistLock
    <2>3. locked' \in [Replicas -> BOOLEAN]
        BY <1>27 DEF TypeOK, RepersistLock, Lock
    <2>4. full' \in [Replicas -> BOOLEAN]
        BY <1>27, <2>1 DEF TypeOK, RepersistLock
    <2>5. UNCHANGED <<dbVars, local, markVars, rows, threadVars, present,
                      pending, dead, target, raced, envVars, faults, endVars>>
        BY <1>27 DEF RepersistLock
    <2> QED BY <2>2, <2>3, <2>4, <2>5 DEF TypeOK
<1>28. ASSUME NEW r \in Replicas, RepersistUnlock(r) PROVE TypeOK'
    BY <1>28 DEF TypeOK, RepersistUnlock, Unlock
<1>29. ASSUME NEW r \in Replicas, ReapLocal(r) PROVE TypeOK'
    BY <1>29 DEF TypeOK, ReapLocal, DropLocal, Condemned
<1>30. ASSUME NEW r \in Replicas, ReapPrune(r) PROVE TypeOK'
    BY <1>30, DropFits DEF TypeOK, ReapPrune, Spent
<1>31. ASSUME NEW r \in Replicas, NEW id \in Ids, RepersistSkip(r, id)
      PROVE  TypeOK'
    BY <1>31 DEF TypeOK, RepersistSkip, Persisted
<1>32a. ASSUME NEW r \in Replicas, NEW id \in Ids, RepersistReserve(r, id)
      PROVE  TypeOK'
    <2>1. /\ stamped' \in [Replicas -> MarkerSets]
          /\ fresh' \in [Replicas -> SUBSET Ids]
        BY <1>32a, StampTypes DEF RepersistReserve
    <2> QED BY <1>32a, <2>1 DEF TypeOK, RepersistReserve
<1>32. ASSUME NEW r \in Replicas, NEW id \in Ids, RepersistInsert(r, id)
      PROVE  TypeOK'
    <2>1. /\ stamped' \in [Replicas -> MarkerSets]
          /\ fresh' \in [Replicas -> SUBSET Ids]
        BY <1>32, UnstampTypes DEF RepersistInsert, TypeOK
    <2>2. rows' \in [Replicas -> Int]
        BY <1>32 DEF TypeOK, RepersistInsert, InsertCommits, CommitFails,
                 InsertRefused, Grown
    <2>7. full' \in [Replicas -> BOOLEAN]
        BY <1>32 DEF TypeOK, RepersistInsert
    <2>3. /\ table' \subseteq Ids /\ stored' \subseteq Ids
          /\ unanswered' \subseteq Ids /\ faults' \in Nat
        BY <1>32 DEF TypeOK, RepersistInsert, InsertCommits, CommitFails,
                 InsertRefused
    <2>4. pending' = [pending EXCEPT ![r] = @ \ {id}]
        BY <1>32 DEF RepersistInsert
    <2>5. \/ rpc' = [rpc EXCEPT ![r] = "note"] /\ target' = target
          \/ /\ rpc' = [rpc EXCEPT ![r] = "repersist"]
             /\ target' = [target EXCEPT ![r] = {}]
        BY <1>32 DEF RepersistInsert
    <2>6. UNCHANGED <<local, unpersisted, locked, pc, sid, nid, held, present,
                      dead, raced, minted, cookies, restarts, ended, won>>
        BY <1>32 DEF RepersistInsert
    <2> QED BY <2>1, <2>2, <2>3, <2>4, <2>5, <2>6, <2>7 DEF TypeOK
<1>32b. ASSUME NEW r \in Replicas, NEW id \in Ids, RepersistNote(r, id)
      PROVE  TypeOK'
    BY <1>32b DEF TypeOK, RepersistNote, Persisted
<1>33. ASSUME NEW r \in Replicas, NEW id \in Ids, BuryForget(r, id)
      PROVE  TypeOK'
    BY <1>33, ForgetTypes DEF TypeOK, BuryForget, MarkerTypes
<1>34. ASSUME NEW r \in Replicas, NEW id \in Ids, BuryRow(r, id)
      PROVE  TypeOK'
    BY <1>34 DEF TypeOK, BuryRow, DeleteAnswered, DeleteFails, EndIfGone
<1>35. ASSUME NEW r \in Replicas, NEW id \in Ids, Abandon(r, id)
      PROVE  TypeOK'
    BY <1>35 DEF TypeOK, Abandon
<1>36. ASSUME NEW r \in Replicas, NEW id \in Ids, AbandonRow(r, id)
      PROVE  TypeOK'
    BY <1>36 DEF TypeOK, AbandonRow, DeleteAnswered, DeleteFails, EndIfGone
<1>37. ASSUME NEW r \in Replicas, Restart(r) PROVE TypeOK'
    BY <1>37, DropFits, CountTypes, EmptyFits DEF TypeOK, Restart
<1>38. CASE UNCHANGED vars
    BY <1>38 DEF TypeOK, vars
<1> QED
    BY <1>1, <1>2, <1>3, <1>4, <1>5, <1>6, <1>7, <1>8, <1>9, <1>10, <1>11,
       <1>12, <1>13, <1>14, <1>15, <1>16, <1>17, <1>18, <1>19, <1>20, <1>21,
       <1>22, <1>23, <1>24, <1>25, <1>26, <1>27, <1>28, <1>29, <1>30, <1>31,
       <1>32a, <1>32, <1>32b, <1>33, <1>34, <1>35, <1>36, <1>37, <1>38
    DEF Next, ThreadStep, Request, ReaperStep

\* Every replica's maps, local view and sweep keep their types, and the
\* generations map its bound, whatever the interleaving.
THEOREM TypeCorrect == Spec => []TypeOK
<1>1. Init => TypeOK
    BY ConstantsAssumption, EmptyFits
    DEF Init, TypeOK, OneTarget, ThreadSteps, ReaperSteps, LoginSteps
<1> QED BY <1>1, TypeStep, PTL DEF Spec

-----------------------------------------------------------------------------
(***************************************************************************)
(* The registry.  Two replicas can only disagree with it by inserting a    *)
(* row whose id has had one before.  OneOwner is the invariant that rules  *)
(* this out, whatever fails: every id somebody may still insert is owed by *)
(* one thread or one replica alone, and if it has had a row, then by a     *)
(* commit nobody got the answer of, or one repersist is about to note.     *)
(***************************************************************************)

\* Replica r keeps id for a write it owes, or has just made.
Marks(r, id) == id \in unpersisted[r] \cup pending[r]

OneOwner ==
    /\ stored \subseteq minted
    /\ \A id \in Ids :
          /\ \A t \in Threads : Writing(t, id) =>
                /\ id \in minted
                /\ id \in stored => id \in unanswered
                /\ \A u \in Threads : Writing(u, id) => u = t
                /\ \A r \in Replicas : ~Marks(r, id)
          /\ \A r \in Replicas : Marks(r, id) =>
                /\ id \in minted
                /\ id \in stored => id \in unanswered \cup Noting(r)
                /\ \A q \in Replicas : Marks(q, id) => q = r

\* No step takes on an insert of an id, or forgets that it was just made.
NoMore ==
    /\ \A t \in Threads, id \in Ids : Writing(t, id)' => Writing(t, id)
    /\ \A r \in Replicas, id \in Ids : Marks(r, id)' => Marks(r, id)
    /\ \A r \in Replicas, id \in Ids :
          Marks(r, id)' /\ id \in Noting(r) => id \in Noting(r)'

\* The steps that insert nothing and take on nothing to insert.
LEMMA OwnerKept ==
    ASSUME OneOwner, UNCHANGED <<stored, unanswered, minted>>, NoMore
    PROVE  OneOwner'
BY DEF OneOwner, NoMore

\* The steps that insert the row of an id, and are then done with it.
LEMMA OwnerInserts ==
    ASSUME OneOwner, UNCHANGED <<minted, unanswered>>, NEW new \in Ids, new \in minted,
           stored' = stored \cup {new}, NoMore,
           \A t \in Threads : ~Writing(t, new)',
           \A r \in Replicas : Marks(r, new)' => new \in Noting(r)'
    PROVE  OneOwner'
BY DEF OneOwner, NoMore

\* The steps that insert the row of an id and do not learn of it.
LEMMA OwnerUnanswered ==
    ASSUME OneOwner, UNCHANGED minted, NEW new \in Ids, new \in minted,
           stored' = stored \cup {new}, unanswered' = unanswered \cup {new}, NoMore
    PROVE  OneOwner'
BY DEF OneOwner, NoMore

\* The steps of a thread that draws a new id to insert.
LEMMA OwnerMints ==
    ASSUME OneOwner, UNCHANGED <<stored, unanswered>>, NEW s \in Threads, NEW new \in Ids,
           new \notin minted, minted' = minted \cup {new},
           \A t \in Threads, id \in Ids :
               Writing(t, id)' => Writing(t, id) \/ (t = s /\ id = new),
           UNCHANGED <<unpersisted, pending, rpc, target>>
    PROVE  OneOwner'
BY DEF OneOwner, Marks, Noting

\* The steps of a thread that leaves its insert to the replica's sweep.
LEMMA OwnerHandsOver ==
    ASSUME OneOwner, UNCHANGED <<stored, unanswered, minted>>, NEW s \in Threads,
           NEW q \in Replicas, NEW new \in Ids, Writing(s, new),
           \A t \in Threads, id \in Ids : Writing(t, id)' => Writing(t, id),
           ~Writing(s, new)', UNCHANGED <<rpc, target>>,
           \A r \in Replicas, id \in Ids :
               Marks(r, id)' => Marks(r, id) \/ (r = q /\ id = new)
    PROVE  OneOwner'
BY DEF OneOwner, Noting

\* The eviction hook only takes marks away.
LEMMA PutLocalTakes ==
    ASSUME TypeOK, NEW r \in Replicas, NEW id, NEW T,
           PutLocal(r, id, T), UNCHANGED pending
    PROVE  \A q \in Replicas, j \in Ids : Marks(q, j)' => Marks(q, j)
<1>1. CASE UNCHANGED markVars
    BY <1>1 DEF markVars, Marks
<1>2. CASE \E victim \in local[r] : Forget(r, victim, {})
    BY <1>2 DEF Forget, TypeOK, Marks
<1> QED BY <1>1, <1>2 DEF PutLocal

LEMMA OneOwnerStep ==
    ASSUME TypeOK, TypeOK', OneOwner, [Next]_vars
    PROVE  OneOwner'
<1> USE ConstantsAssumption
    DEF dbVars, markVars, threadVars, reaperVars, envVars, endVars,
        Goto, RGoto, Finish, Fault, Noting, NoMore
<1>0. ASSUME UNCHANGED <<stored, unanswered, minted>>, NoMore PROVE OneOwner'
    BY <1>0, OwnerKept
<1>1. ASSUME NEW t \in Threads, GetMissing(t) PROVE OneOwner'
    BY <1>1, <1>0 DEF TypeOK, GetMissing, Writing, Marks
<1>2. ASSUME NEW t \in Threads, GetLocal(t) PROVE OneOwner'
    BY <1>2, <1>0 DEF TypeOK, GetLocal, Writing, Marks
<1>3. ASSUME NEW t \in Threads, GetAdopt(t) PROVE OneOwner'
    <2>1. \A u \in Threads, id \in Ids : Writing(u, id)' => Writing(u, id)
        BY <1>3 DEF TypeOK, GetAdopt, Writing
    <2>2. \A r \in Replicas, id \in Ids : Marks(r, id)' => Marks(r, id)
        BY <1>3, PutLocalTakes DEF TypeOK, GetAdopt
    <2> QED BY <1>3, <2>1, <2>2, <1>0 DEF GetAdopt
<1>4. ASSUME NEW t \in Threads, Respond(t) PROVE OneOwner'
    BY <1>4, <1>0 DEF TypeOK, Respond, Writing, Marks
<1>5. ASSUME NEW t \in Threads, SaveInsert(t) PROVE OneOwner'
    <2> PICK new \in Ids : new = sid[t]
        BY <1>5 DEF TypeOK, SaveInsert
    <2>0. Home[t] \in Replicas /\ Writing(t, new)
        BY <1>5 DEF TypeOK, SaveInsert, Writing
    <2>1. \A u \in Threads, id \in Ids : Writing(u, id)' => Writing(u, id)
        BY <1>5 DEF TypeOK, SaveInsert, Writing
    <2>2. UNCHANGED <<unpersisted, pending, rpc, target, minted>>
        BY <1>5 DEF SaveInsert
    <2>3. NoMore /\ new \in minted
        BY <2>0, <2>1, <2>2 DEF Marks, OneOwner
    <2>4. CASE InsertCommits(Home[t], sid[t]) /\ Goto(t, "savePublish")
        <3>1. \A u \in Threads : ~Writing(u, new)'
            BY <2>0, <2>1, <2>4 DEF TypeOK, OneOwner, Writing
        <3>2. \A r \in Replicas : ~Marks(r, new)'
            BY <2>0, <2>2 DEF Marks, OneOwner
        <3> QED BY <2>2, <2>3, <2>4, <3>1, <3>2, OwnerInserts DEF InsertCommits
    <2>5. CASE CommitFails(Home[t], sid[t])
        BY <2>2, <2>3, <2>5, <1>0, OwnerUnanswered DEF CommitFails
    <2>6. CASE InsertRefused(Home[t], sid[t])
        BY <2>2, <2>3, <2>6, <1>0 DEF InsertRefused
    <2> QED BY <1>5, <2>4, <2>5, <2>6 DEF SaveInsert
<1>6. ASSUME NEW t \in Threads, SaveFail(t) PROVE OneOwner'
    <2> PICK new \in Ids : new = sid[t]
        BY <1>6 DEF TypeOK, SaveFail
    <2>0. Home[t] \in Replicas /\ Writing(t, new)
        BY <1>6 DEF TypeOK, SaveFail, Writing
    <2>1. \A u \in Threads, id \in Ids : Writing(u, id)' => Writing(u, id)
        BY <1>6 DEF TypeOK, SaveFail, Writing
    <2>2. ~Writing(t, new)'
        BY <1>6 DEF TypeOK, SaveFail, Writing
    <2>3. \A r \in Replicas, id \in Ids :
              Marks(r, id)' => Marks(r, id) \/ (r = Home[t] /\ id = new)
        BY <1>6 DEF TypeOK, SaveFail, Marks
    <2>4. UNCHANGED <<stored, unanswered, minted, rpc, target>>
        BY <1>6 DEF SaveFail
    <2> QED BY <2>0, <2>1, <2>2, <2>3, <2>4, OwnerHandsOver
<1>7. ASSUME NEW t \in Threads, SavePublish(t) PROVE OneOwner'
    <2>1. \A u \in Threads, id \in Ids : Writing(u, id)' => Writing(u, id)
        BY <1>7 DEF TypeOK, SavePublish, Writing
    <2>2. \A r \in Replicas, id \in Ids : Marks(r, id)' => Marks(r, id)
        BY <1>7, PutLocalTakes DEF TypeOK, SavePublish
    <2> QED BY <1>7, <2>1, <2>2, <1>0 DEF SavePublish
<1>8. ASSUME NEW t \in Threads, DeleteRow(t) PROVE OneOwner'
    BY <1>8, <1>0
    DEF TypeOK, DeleteRow, DeleteAnswered, DeleteFails, Writing, Marks
<1>9. ASSUME NEW t \in Threads, DeleteForget(t) PROVE OneOwner'
    BY <1>9, <1>0 DEF TypeOK, DeleteForget, Forget, Writing, Marks
<1>10. ASSUME NEW t \in Threads, DeleteLocal(t) PROVE OneOwner'
    BY <1>10, <1>0 DEF TypeOK, DeleteLocal, Writing, Marks
<1>11. ASSUME NEW t \in Threads, ReplaceRow(t) PROVE OneOwner'
    <2> PICK new \in Ids : new = nid[t]
        BY <1>11 DEF TypeOK, ReplaceRow, LoginSteps
    <2>0. Home[t] \in Replicas /\ Writing(t, new)
        BY <1>11 DEF TypeOK, ReplaceRow, Writing
    <2>1. \A u \in Threads, id \in Ids : Writing(u, id)' => Writing(u, id)
        BY <1>11 DEF TypeOK, ReplaceRow, ReplaceRefused, Writing
    <2>2. UNCHANGED <<unpersisted, pending, rpc, target, minted>>
        BY <1>11 DEF ReplaceRow
    <2>3. NoMore /\ new \in minted
        BY <2>0, <2>1, <2>2 DEF Marks, OneOwner
    <2>4. CASE stored' = stored \cup {new} /\ Goto(t, "rekeyed") /\ UNCHANGED unanswered
        <3>1. \A u \in Threads : ~Writing(u, new)'
            BY <2>0, <2>1, <2>4 DEF TypeOK, OneOwner, Writing
        <3>2. \A r \in Replicas : ~Marks(r, new)'
            BY <2>0, <2>2 DEF Marks, OneOwner
        <3> QED BY <2>2, <2>3, <2>4, <3>1, <3>2, OwnerInserts
    <2>5. CASE stored' = stored \cup {new} /\ unanswered' = unanswered \cup {new}
        BY <2>2, <2>3, <2>5, OwnerUnanswered
    <2>6. CASE UNCHANGED <<stored, unanswered>>
        BY <2>2, <2>3, <2>6, <1>0
    <2> QED BY <1>11, <2>4, <2>5, <2>6 DEF ReplaceRow
<1>12. ASSUME NEW t \in Threads, ReplaceForget(t) PROVE OneOwner'
    BY <1>12, <1>0 DEF TypeOK, ReplaceForget, Forget, Writing, Marks
<1>13. ASSUME NEW t \in Threads, ReplaceDropOld(t) PROVE OneOwner'
    BY <1>13, <1>0 DEF TypeOK, ReplaceDropOld, Writing, Marks
<1>14. ASSUME NEW t \in Threads, ReplacePublish(t) PROVE OneOwner'
    <2>1. \A u \in Threads, id \in Ids : Writing(u, id)' => Writing(u, id)
        BY <1>14 DEF TypeOK, ReplacePublish, Writing
    <2>2. \A r \in Replicas, id \in Ids : Marks(r, id)' => Marks(r, id)
        BY <1>14, PutLocalTakes DEF TypeOK, ReplacePublish
    <2> QED BY <1>14, <2>1, <2>2, <1>0 DEF ReplacePublish
<1>15. ASSUME NEW t \in Threads, ReplaceLocally(t) PROVE OneOwner'
    BY <1>15, <1>0
    DEF TypeOK, ReplaceLocally, DeleteAnswered, DeleteFails, ReplaceRefused,
        Writing, Marks
<1>16. ASSUME NEW t \in Threads, ReplaceLocal(t) PROVE OneOwner'
    BY <1>16, <1>0 DEF TypeOK, ReplaceLocal, ReplaceRefused, Writing, Marks
<1>17. ASSUME NEW t \in Threads, ReplaceMarkLocal(t) PROVE OneOwner'
    <2> PICK new \in Ids : new = nid[t]
        BY <1>17 DEF TypeOK, ReplaceMarkLocal, LoginSteps
    <2>0. Home[t] \in Replicas /\ Writing(t, new)
        BY <1>17 DEF TypeOK, ReplaceMarkLocal, Writing
    <2>1. \A u \in Threads, id \in Ids : Writing(u, id)' => Writing(u, id)
        BY <1>17 DEF TypeOK, ReplaceMarkLocal, Writing
    <2>2. ~Writing(t, new)'
        BY <1>17 DEF TypeOK, ReplaceMarkLocal, Writing
    <2>3. \A r \in Replicas, id \in Ids :
              Marks(r, id)' => Marks(r, id) \/ (r = Home[t] /\ id = new)
        BY <1>17 DEF TypeOK, ReplaceMarkLocal, Forget, Marks
    <2>4. UNCHANGED <<stored, unanswered, minted, rpc, target>>
        BY <1>17 DEF ReplaceMarkLocal
    <2> QED BY <2>0, <2>1, <2>2, <2>3, <2>4, OwnerHandsOver
<1>18. ASSUME NEW t \in Threads, NEW id \in Ids, GetSelect(t, id)
      PROVE  OneOwner'
    BY <1>18, <1>0 DEF TypeOK, GetSelect, Writing, Marks
<1>19. ASSUME NEW t \in Threads, NEW id \in Ids, GetDegraded(t, id)
      PROVE  OneOwner'
    BY <1>19, <1>0 DEF TypeOK, GetDegraded, Writing, Marks
<1>20. ASSUME NEW t \in Threads, NEW id \in Ids, SaveAdmit(t, id)
      PROVE  OneOwner'
    <2>1. \A u \in Threads, j \in Ids :
              Writing(u, j)' => Writing(u, j) \/ (u = t /\ j = id)
        BY <1>20 DEF TypeOK, SaveAdmit, Writing
    <2>2. /\ id \notin minted /\ minted' = minted \cup {id}
          /\ UNCHANGED <<stored, unanswered, unpersisted, pending, rpc, target>>
        BY <1>20 DEF SaveAdmit
    <2> QED BY <2>1, <2>2, OwnerMints
<1>21. ASSUME NEW t \in Threads, NEW id \in Ids, ReplaceBegin(t, id)
      PROVE  OneOwner'
    <2>1. \A u \in Threads, j \in Ids :
              Writing(u, j)' => Writing(u, j) \/ (u = t /\ j = id)
        BY <1>21 DEF TypeOK, ReplaceBegin, Writing
    <2>2. /\ id \notin minted /\ minted' = minted \cup {id}
          /\ UNCHANGED <<stored, unanswered, unpersisted, pending, rpc, target>>
        BY <1>21 DEF ReplaceBegin
    <2> QED BY <2>1, <2>2, OwnerMints
<1>22. ASSUME NEW r \in Replicas, ReapEpoch(r) PROVE OneOwner'
    BY <1>22, <1>0 DEF TypeOK, ReapEpoch, Writing, Marks
<1>23. ASSUME NEW r \in Replicas, ReapScan(r) PROVE OneOwner'
    BY <1>23, <1>0 DEF TypeOK, ReapScan, Writing, Marks
<1>24. ASSUME NEW r \in Replicas, ReapScanFails(r) PROVE OneOwner'
    BY <1>24, <1>0 DEF TypeOK, ReapScanFails, Writing, Marks
<1>25. ASSUME NEW r \in Replicas, ReapCount(r) PROVE OneOwner'
    BY <1>25, <1>0 DEF TypeOK, ReapCount, Writing, Marks
<1>26. ASSUME NEW r \in Replicas, RepersistSnapshot(r) PROVE OneOwner'
    BY <1>26, <1>0 DEF TypeOK, RepersistSnapshot, Writing, Marks
<1>27. ASSUME NEW r \in Replicas, RepersistLock(r) PROVE OneOwner'
    BY <1>27, <1>0 DEF TypeOK, RepersistLock, Writing, Marks
<1>28. ASSUME NEW r \in Replicas, RepersistUnlock(r) PROVE OneOwner'
    BY <1>28, <1>0 DEF TypeOK, RepersistUnlock, Writing, Marks
<1>29. ASSUME NEW r \in Replicas, ReapLocal(r) PROVE OneOwner'
    BY <1>29, <1>0 DEF TypeOK, ReapLocal, Writing, Marks
<1>30. ASSUME NEW r \in Replicas, ReapPrune(r) PROVE OneOwner'
    BY <1>30, <1>0 DEF TypeOK, ReapPrune, Writing, Marks
<1>31. ASSUME NEW r \in Replicas, NEW id \in Ids, RepersistSkip(r, id)
      PROVE  OneOwner'
    BY <1>31, <1>0 DEF TypeOK, RepersistSkip, Persisted, Writing, Marks
<1>32a. ASSUME NEW r \in Replicas, NEW id \in Ids, RepersistReserve(r, id)
      PROVE  OneOwner'
    BY <1>32a, <1>0 DEF TypeOK, RepersistReserve, Writing, Marks
<1>32. ASSUME NEW r \in Replicas, NEW id \in Ids, RepersistInsert(r, id)
      PROVE  OneOwner'
    <2>0. /\ rpc[r] = "write" /\ target[r] = {id} /\ id \in pending[r]
          /\ pending' = [pending EXCEPT ![r] = @ \ {id}]
          /\ UNCHANGED <<minted, unpersisted, threadVars>>
        BY <1>32 DEF RepersistInsert, TypeOK, OneTarget
    <2>1. \A t \in Threads, j \in Ids : Writing(t, j)' => Writing(t, j)
        BY <2>0 DEF Writing
    <2>2. \A q \in Replicas, j \in Ids : Marks(q, j)' => Marks(q, j)
        BY <2>0 DEF TypeOK, Marks
    <2>3. Marks(r, id) /\ id \in minted /\ \A t \in Threads : ~Writing(t, id)'
        BY <2>0, <2>1 DEF Marks, OneOwner
    <2>4. CASE InsertCommits(r, id) /\ rpc' = [rpc EXCEPT ![r] = "note"] /\ target' = target
        <3>1. NoMore
            BY <2>0, <2>1, <2>2, <2>4 DEF TypeOK
        <3>2. \A q \in Replicas : Marks(q, id)' => id \in Noting(q)'
            BY <2>0, <2>2, <2>3, <2>4 DEF TypeOK, OneOwner
        <3> QED BY <2>0, <2>3, <2>4, <3>1, <3>2, OwnerInserts DEF InsertCommits
    <2>5. CASE CommitFails(r, id) \/ InsertRefused(r, id)
        <3>1. NoMore
            BY <1>32, <2>0, <2>1, <2>2 DEF TypeOK, RepersistInsert
        <3> QED BY <2>0, <2>3, <2>5, <3>1, <1>0, OwnerUnanswered
                DEF CommitFails, InsertRefused
    <2> QED BY <1>32, <2>4, <2>5 DEF RepersistInsert
<1>32b. ASSUME NEW r \in Replicas, NEW id \in Ids, RepersistNote(r, id)
      PROVE  OneOwner'
    <2>0. rpc[r] = "note" /\ target[r] = {id} /\ id \notin pending[r]
        BY <1>32b DEF RepersistNote, TypeOK, OneTarget
    <2>1. \A t \in Threads, j \in Ids : Writing(t, j)' => Writing(t, j)
        BY <1>32b DEF RepersistNote, Writing
    <2>2. \A q \in Replicas, j \in Ids : Marks(q, j)' => Marks(q, j)
        BY <1>32b, <2>0 DEF TypeOK, RepersistNote, Persisted, Marks
    <2>3. \A q \in Replicas, j \in Ids : Marks(q, j)' /\ j \in Noting(q) => j \in Noting(q)'
        BY <1>32b, <2>0 DEF TypeOK, RepersistNote, Persisted, Marks
    <2> QED BY <1>32b, <2>1, <2>2, <2>3, <1>0 DEF RepersistNote
<1>33. ASSUME NEW r \in Replicas, NEW id \in Ids, BuryForget(r, id)
      PROVE  OneOwner'
    BY <1>33, <1>0 DEF TypeOK, BuryForget, Forget, Writing, Marks
<1>34. ASSUME NEW r \in Replicas, NEW id \in Ids, BuryRow(r, id)
      PROVE  OneOwner'
    BY <1>34, <1>0
    DEF TypeOK, BuryRow, DeleteAnswered, DeleteFails, Writing, Marks
<1>35. ASSUME NEW r \in Replicas, NEW id \in Ids, Abandon(r, id)
      PROVE  OneOwner'
    BY <1>35, <1>0 DEF TypeOK, Abandon, Writing, Marks
<1>36. ASSUME NEW r \in Replicas, NEW id \in Ids, AbandonRow(r, id)
      PROVE  OneOwner'
    BY <1>36, <1>0
    DEF TypeOK, AbandonRow, DeleteAnswered, DeleteFails, Writing, Marks
<1>37. ASSUME NEW r \in Replicas, Restart(r) PROVE OneOwner'
    BY <1>37, <1>0 DEF TypeOK, Restart, Writing, Marks
<1>38. CASE UNCHANGED vars
    BY <1>38, <1>0 DEF TypeOK, vars, Writing, Marks
<1> QED
    BY <1>1, <1>2, <1>3, <1>4, <1>5, <1>6, <1>7, <1>8, <1>9, <1>10, <1>11,
       <1>12, <1>13, <1>14, <1>15, <1>16, <1>17, <1>18, <1>19, <1>20, <1>21,
       <1>22, <1>23, <1>24, <1>25, <1>26, <1>27, <1>28, <1>29, <1>30, <1>31,
       <1>32a, <1>32, <1>32b, <1>33, <1>34, <1>35, <1>36, <1>37, <1>38
    DEF Next, ThreadStep, Request, ReaperStep

\* Whatever fails, restarts or is answered late, an id is owed by one writer.
LEMMA OneOwnerHolds == Spec => []OneOwner
<1>1. Init => OneOwner
    BY DEF Init, OneOwner, Writing, Marks
<1>2. TypeOK /\ TypeOK' /\ OneOwner /\ [Next]_vars => OneOwner'
    BY OneOwnerStep
<1> QED BY <1>1, <1>2, TypeCorrect, PTL DEF Spec

\* A row can only be written unanswered by a statement that has failed.
Answered == unanswered # {} => LostReplies /\ faults # 0

LEMMA AnsweredStep == TypeOK /\ TypeOK' /\ Answered /\ [Next]_vars => Answered'
<1> SUFFICES ASSUME TypeOK, TypeOK', Answered, [Next]_vars PROVE Answered'
    OBVIOUS
<1> USE DEF dbVars, Fault, Answered
<1>0. faults \in Nat /\ faults' \in Nat
    BY DEF TypeOK
<1>1. ASSUME NEW t \in Threads, ThreadStep(t) PROVE Answered'
    BY <1>0, <1>1
    DEF ThreadStep, GetMissing, GetLocal, GetAdopt, Respond, SaveInsert, SaveFail,
        SavePublish, DeleteForget, DeleteLocal, ReplaceRow, ReplaceForget,
        ReplaceDropOld, ReplacePublish, ReplaceLocally, ReplaceLocal,
        ReplaceMarkLocal, InsertCommits, CommitFails, InsertRefused,
        DeleteAnswered, DeleteFails, ReplaceRefused
<1>2. ASSUME NEW t \in Threads, Request(t) PROVE Answered'
    BY <1>0, <1>2
    DEF Request, DeleteRow, GetSelect, GetDegraded, SaveAdmit, ReplaceBegin,
        DeleteAnswered, DeleteFails
<1>3. ASSUME NEW r \in Replicas, ReaperStep(r) PROVE Answered'
    BY <1>0, <1>3
    DEF ReaperStep, ReapEpoch, ReapScan, ReapScanFails, ReapCount, RepersistSnapshot,
        RepersistLock, RepersistUnlock, ReapLocal, ReapPrune, RepersistSkip,
        RepersistReserve, RepersistInsert, RepersistNote, BuryForget, BuryRow,
        Abandon, AbandonRow, InsertCommits, CommitFails, InsertRefused,
        DeleteAnswered, DeleteFails
<1>4. ASSUME NEW r \in Replicas, Restart(r) PROVE Answered'
    BY <1>0, <1>4 DEF Restart
<1>5. CASE UNCHANGED vars
    BY <1>5 DEF vars
<1> QED BY <1>1, <1>2, <1>3, <1>4, <1>5 DEF Next

LEMMA AnsweredHolds == Spec => []Answered
<1>1. Init => Answered
    BY DEF Init, Answered
<1> QED BY <1>1, AnsweredStep, TypeCorrect, PTL DEF Spec

\* What is owed is new, as long as nothing was written unanswered.
LEMMA OwnersWriteOnce == OneOwner /\ unanswered = {} => OneWriter
BY DEF OneOwner, OneWriter, Owes, Marks

\* Where failed statements are not applied, whatever the replicas interleave,
\* an id is owed by one writer and has no row before that writer inserts it.
THEOREM InsertedOnce ==
    ASSUME ~LostReplies PROVE Spec => []OneWriter
<1>1. OneOwner /\ Answered => OneWriter
    BY OwnersWriteOnce DEF Answered
<1> QED BY <1>1, OneOwnerHolds, AnsweredHolds, PTL

-----------------------------------------------------------------------------
(***************************************************************************)
(* The refinement: a step creates, moves or ends one id, or leaves the     *)
(* table alone.                                                            *)
(***************************************************************************)
LEMMA DeleteEnds ==
    ASSUME NEW id \in Ids, UNCHANGED stored,
           table' = table \/ table' = table \ {id}
    PROVE  [Registry!Next]_<<table, stored>>
<1>1. CASE table' = table
    BY <1>1
<1>2. CASE id \in table /\ table' = table \ {id}
    BY <1>2 DEF Registry!Next, Registry!End
<1>3. CASE id \notin table /\ table' = table \ {id}
    BY <1>3
<1> QED BY <1>1, <1>2, <1>3

LEMMA InsertCreates ==
    ASSUME NEW id \in Ids, id \notin stored,
           table' = table \cup {id}, stored' = stored \cup {id}
    PROVE  [Registry!Next]_<<table, stored>>
BY DEF Registry!Next, Registry!Create

LEMMA RegistryStep ==
    ASSUME TypeOK, OneWriter, ~LostReplies, [Next]_vars
    PROVE  [Registry!Next]_<<table, stored>>
<1> USE ConstantsAssumption DEF dbVars
<1> DEFINE Step == [Registry!Next]_<<table, stored>>
<1>1. ASSUME NEW t \in Threads, GetMissing(t) PROVE Step
    BY <1>1 DEF GetMissing
<1>2. ASSUME NEW t \in Threads, GetLocal(t) PROVE Step
    BY <1>2 DEF GetLocal
<1>3. ASSUME NEW t \in Threads, GetAdopt(t) PROVE Step
    BY <1>3 DEF GetAdopt
<1>4. ASSUME NEW t \in Threads, Respond(t) PROVE Step
    BY <1>4 DEF Respond
<1>5. ASSUME NEW t \in Threads, SaveInsert(t) PROVE Step
    <2>1. sid[t] \in Ids
        BY <1>5 DEF TypeOK, SaveInsert
    <2>2. sid[t] \notin stored
        BY <1>5, <2>1 DEF SaveInsert, OneWriter, Writing
    <2>3. CASE UNCHANGED <<table, stored>>
        BY <2>3
    <2>4. CASE InsertCommits(Home[t], sid[t])
        BY <2>1, <2>2, <2>4, InsertCreates DEF InsertCommits
    <2> QED BY <1>5, <2>3, <2>4 DEF SaveInsert, CommitFails, InsertRefused
<1>6. ASSUME NEW t \in Threads, SaveFail(t) PROVE Step
    BY <1>6 DEF SaveFail
<1>7. ASSUME NEW t \in Threads, SavePublish(t) PROVE Step
    BY <1>7 DEF SavePublish
<1>8. ASSUME NEW t \in Threads, DeleteRow(t) PROVE Step
    <2>1. sid[t] \in Ids
        BY <1>8 DEF TypeOK, DeleteRow
    <2> QED BY <1>8, <2>1, DeleteEnds
            DEF DeleteRow, DeleteAnswered, DeleteFails
<1>9. ASSUME NEW t \in Threads, DeleteForget(t) PROVE Step
    BY <1>9 DEF DeleteForget
<1>10. ASSUME NEW t \in Threads, DeleteLocal(t) PROVE Step
    BY <1>10 DEF DeleteLocal
<1>11. ASSUME NEW t \in Threads, ReplaceRow(t) PROVE Step
    <2>1. sid[t] \in Ids /\ nid[t] \in Ids
        BY <1>11 DEF TypeOK, ReplaceRow, LoginSteps
    <2>2. nid[t] \notin stored
        BY <1>11, <2>1 DEF ReplaceRow, OneWriter, Writing
    <2>3. CASE UNCHANGED <<table, stored>>
        BY <2>3
    <2>4. CASE /\ sid[t] \in table
               /\ table' = (table \ {sid[t]}) \cup {nid[t]}
               /\ stored' = stored \cup {nid[t]}
        BY <2>1, <2>2, <2>4 DEF Registry!Next, Registry!Rekey
    <2> QED BY <1>11, <2>3, <2>4 DEF ReplaceRow
<1>12. ASSUME NEW t \in Threads, ReplaceForget(t) PROVE Step
    BY <1>12 DEF ReplaceForget
<1>13. ASSUME NEW t \in Threads, ReplaceDropOld(t) PROVE Step
    BY <1>13 DEF ReplaceDropOld
<1>14. ASSUME NEW t \in Threads, ReplacePublish(t) PROVE Step
    BY <1>14 DEF ReplacePublish
<1>15. ASSUME NEW t \in Threads, ReplaceLocally(t) PROVE Step
    <2>1. sid[t] \in Ids
        BY <1>15 DEF TypeOK, ReplaceLocally
    <2> QED BY <1>15, <2>1, DeleteEnds
            DEF ReplaceLocally, DeleteAnswered, DeleteFails
<1>16. ASSUME NEW t \in Threads, ReplaceLocal(t) PROVE Step
    BY <1>16 DEF ReplaceLocal
<1>17. ASSUME NEW t \in Threads, ReplaceMarkLocal(t) PROVE Step
    BY <1>17 DEF ReplaceMarkLocal
<1>18. ASSUME NEW t \in Threads, NEW id \in Ids, GetSelect(t, id)
      PROVE  Step
    BY <1>18 DEF GetSelect
<1>19. ASSUME NEW t \in Threads, NEW id \in Ids, GetDegraded(t, id)
      PROVE  Step
    BY <1>19 DEF GetDegraded
<1>20. ASSUME NEW t \in Threads, NEW id \in Ids, SaveAdmit(t, id)
      PROVE  Step
    BY <1>20 DEF SaveAdmit
<1>21. ASSUME NEW t \in Threads, NEW id \in Ids, ReplaceBegin(t, id)
      PROVE  Step
    BY <1>21 DEF ReplaceBegin
<1>22. ASSUME NEW r \in Replicas, ReapEpoch(r) PROVE Step
    BY <1>22 DEF ReapEpoch
<1>23. ASSUME NEW r \in Replicas, ReapScan(r) PROVE Step
    BY <1>23 DEF ReapScan
<1>24. ASSUME NEW r \in Replicas, ReapScanFails(r) PROVE Step
    BY <1>24 DEF ReapScanFails
<1>25. ASSUME NEW r \in Replicas, ReapCount(r) PROVE Step
    BY <1>25 DEF ReapCount
<1>26. ASSUME NEW r \in Replicas, RepersistSnapshot(r) PROVE Step
    BY <1>26 DEF RepersistSnapshot
<1>27. ASSUME NEW r \in Replicas, RepersistLock(r) PROVE Step
    BY <1>27 DEF RepersistLock
<1>28. ASSUME NEW r \in Replicas, RepersistUnlock(r) PROVE Step
    BY <1>28 DEF RepersistUnlock
<1>29. ASSUME NEW r \in Replicas, ReapLocal(r) PROVE Step
    BY <1>29 DEF ReapLocal
<1>30. ASSUME NEW r \in Replicas, ReapPrune(r) PROVE Step
    BY <1>30 DEF ReapPrune
<1>31. ASSUME NEW r \in Replicas, NEW id \in Ids, RepersistSkip(r, id)
      PROVE  Step
    BY <1>31 DEF RepersistSkip
<1>32a. ASSUME NEW r \in Replicas, NEW id \in Ids, RepersistReserve(r, id)
      PROVE  Step
    BY <1>32a DEF RepersistReserve
<1>32. ASSUME NEW r \in Replicas, NEW id \in Ids, RepersistInsert(r, id)
      PROVE  Step
    <2>1. id \notin stored
        BY <1>32 DEF RepersistInsert, OneWriter, Owes, Noting, TypeOK, OneTarget
    <2>2. CASE UNCHANGED <<table, stored>>
        BY <2>2
    <2>3. CASE InsertCommits(r, id)
        BY <2>1, <2>3, InsertCreates DEF InsertCommits
    <2> QED BY <1>32, <2>2, <2>3
            DEF RepersistInsert, CommitFails, InsertRefused
<1>32b. ASSUME NEW r \in Replicas, NEW id \in Ids, RepersistNote(r, id)
      PROVE  Step
    BY <1>32b DEF RepersistNote
<1>33. ASSUME NEW r \in Replicas, NEW id \in Ids, BuryForget(r, id)
      PROVE  Step
    BY <1>33 DEF BuryForget
<1>34. ASSUME NEW r \in Replicas, NEW id \in Ids, BuryRow(r, id)
      PROVE  Step
    BY <1>34, DeleteEnds DEF BuryRow, DeleteAnswered, DeleteFails
<1>35. ASSUME NEW r \in Replicas, NEW id \in Ids, Abandon(r, id)
      PROVE  Step
    BY <1>35 DEF Abandon
<1>36. ASSUME NEW r \in Replicas, NEW id \in Ids, AbandonRow(r, id)
      PROVE  Step
    BY <1>36, DeleteEnds DEF AbandonRow, DeleteAnswered, DeleteFails
<1>37. ASSUME NEW r \in Replicas, Restart(r) PROVE Step
    BY <1>37 DEF Restart
<1>38. CASE UNCHANGED vars
    BY <1>38 DEF vars
<1> QED
    BY <1>1, <1>2, <1>3, <1>4, <1>5, <1>6, <1>7, <1>8, <1>9, <1>10, <1>11,
       <1>12, <1>13, <1>14, <1>15, <1>16, <1>17, <1>18, <1>19, <1>20, <1>21,
       <1>22, <1>23, <1>24, <1>25, <1>26, <1>27, <1>28, <1>29, <1>30, <1>31,
       <1>32a, <1>32, <1>32b, <1>33, <1>34, <1>35, <1>36, <1>37, <1>38
    DEF Next, ThreadStep, Request, ReaperStep

\* Where failed statements are not applied, the shared table is a registry:
\* ids are created once, moved by a login or ended, and never come back.
THEOREM RegistryImplemented ==
    ASSUME ~LostReplies PROVE Spec => ImplementsRegistry
<1>1. Init => Registry!Init
    BY DEF Init, Registry!Init
<1>2. TypeOK /\ OneWriter /\ [Next]_vars => [Registry!Next]_<<table, stored>>
    BY RegistryStep
<1> QED BY <1>1, <1>2, TypeCorrect, InsertedOnce, PTL
        DEF Spec, ImplementsRegistry, Registry!Spec

-----------------------------------------------------------------------------
(***************************************************************************)
(* storage.max_sessions in a deployment of one replica.  The counter never *)
(* falls below the table, so an insert the counter lets through has room.  *)
(* Lost replies are allowed: a delete whose reply is lost leaves the       *)
(* counter high, and so does an insert whose commit failed.                *)
(***************************************************************************)
Within(r) ==
    MaxRows > 0 => /\ Cardinality(table) <= rows[r]
                   /\ Cardinality(table) <= MaxRows

LEMMA CardinalitySteps ==
    ASSUME NEW S, IsFiniteSet(S), NEW x
    PROVE  /\ Cardinality(S) \in Nat
           /\ x \in S => Cardinality(S \ {x}) = Cardinality(S) - 1
           /\ x \notin S => S \ {x} = S
           /\ x \in S => S \cup {x} = S
           /\ x \notin S => Cardinality(S \cup {x}) = Cardinality(S) + 1
           /\ Cardinality(S \cup {x}) <= Cardinality(S) + 1
<1>1. Cardinality(S) \in Nat
    BY FS_CardinalityType
<1>2. CASE x \in S
    <2>1. S \cup {x} = S
        BY <1>2
    <2>2. Cardinality(S \ {x}) = Cardinality(S) - 1
        BY <1>2, FS_RemoveElement
    <2>3. Cardinality(S \cup {x}) <= Cardinality(S) + 1
        BY <1>1, <2>1
    <2> QED BY <1>1, <1>2, <2>1, <2>2, <2>3
<1>3. CASE x \notin S
    <2>1. S \ {x} = S
        BY <1>3
    <2>2. Cardinality(S \cup {x}) = Cardinality(S) + 1
        BY <1>3, FS_AddElement
    <2> QED BY <1>1, <1>3, <2>1, <2>2
<1> QED BY <1>2, <1>3

LEMMA TableFinite == TypeOK => IsFiniteSet(table) /\ Cardinality(table) \in Nat
BY ConstantsAssumption, FS_Subset, FS_CardinalityType DEF TypeOK

LEMMA DeleteWithin ==
    ASSUME TypeOK, NEW r \in Replicas, Within(r), NEW id,
           DeleteAnswered(r, id) \/ DeleteFails(id)
    PROVE  Within(r)'
<1>1. /\ Cardinality(table) \in Nat
      /\ id \in table => Cardinality(table \ {id}) = Cardinality(table) - 1
      /\ id \notin table => table \ {id} = table
    BY TableFinite, CardinalitySteps
<1>2. rows[r] \in Int
    BY DEF TypeOK
<1>3. CASE DeleteAnswered(r, id)
    <2>1. table' = table \ {id}
        BY <1>3 DEF DeleteAnswered
    <2>2. rows'[r] = IF id \in table THEN rows[r] - 1 ELSE rows[r]
        BY <1>3 DEF DeleteAnswered, TypeOK
    <2> QED BY <1>1, <1>2, <2>1, <2>2, ConstantsAssumption DEF Within
<1>4. CASE DeleteFails(id)
    <2>1. rows' = rows /\ (table' = table \/ table' = table \ {id})
        BY <1>4 DEF DeleteFails
    <2>2. Cardinality(table)' \in {Cardinality(table), Cardinality(table) - 1}
        <3>1. CASE table' = table
            BY <3>1
        <3>2. CASE table' = table \ {id} /\ id \in table
            BY <3>2, <1>1
        <3> QED BY <2>1, <3>1, <3>2, <1>1
    <2> QED BY <1>1, <1>2, <2>1, <2>2, ConstantsAssumption DEF Within
<1> QED BY <1>3, <1>4

LEMMA InsertWithin ==
    ASSUME TypeOK, NEW r \in Replicas, Within(r), NEW id,
           \/ InsertCommits(r, id)
           \/ CommitFails(r, id)
           \/ InsertRefused(r, id)
    PROVE  Within(r)'
<1>1. /\ Cardinality(table) \in Nat
      /\ id \in table => table \cup {id} = table
      /\ id \notin table =>
             Cardinality(table \cup {id}) = Cardinality(table) + 1
    BY TableFinite, CardinalitySteps
<1>2. rows[r] \in Int
    BY DEF TypeOK
<1>3. CASE InsertRefused(r, id)
    BY <1>3 DEF InsertRefused, dbVars, Within
<1>4. CASE InsertCommits(r, id) \/ CommitFails(r, id)
    <2>1. id \in table \/ ~CapReached(r)
        BY <1>4 DEF InsertCommits, CommitFails
    <2>2. rows'[r] = IF id \in table THEN rows[r] ELSE rows[r] + 1
        BY <1>4 DEF InsertCommits, CommitFails, Grown, TypeOK
    <2>3. table' = table \/ table' = table \cup {id}
        BY <1>4 DEF InsertCommits, CommitFails, dbVars
    <2>4. \/ Cardinality(table)' = Cardinality(table)
          \/ id \notin table /\ Cardinality(table)' = Cardinality(table) + 1
        <3>1. CASE table' = table
            BY <3>1
        <3>2. CASE table' = table \cup {id} /\ id \notin table
            BY <3>2, <1>1
        <3> QED BY <2>3, <3>1, <3>2, <1>1
    <2> QED BY <1>1, <1>2, <2>1, <2>2, <2>4, ConstantsAssumption
            DEF Within, CapReached
<1> QED BY <1>3, <1>4

LEMMA RekeyWithin ==
    ASSUME TypeOK, NEW r \in Replicas, Within(r), UNCHANGED rows,
           NEW old \in table, NEW new, table' = (table \ {old}) \cup {new}
    PROVE  Within(r)'
<1>1. IsFiniteSet(table) /\ Cardinality(table) \in Nat
    BY TableFinite
<1>2. /\ IsFiniteSet(table \ {old})
      /\ Cardinality(table \ {old}) = Cardinality(table) - 1
    BY <1>1, FS_RemoveElement
<1>3. Cardinality(table') <= Cardinality(table \ {old}) + 1
    BY <1>2, CardinalitySteps
<1>4. Cardinality(table') \in Nat
    BY <1>2, FS_AddElement, FS_CardinalityType
<1>5. rows[r] \in Int
    BY DEF TypeOK
<1> QED BY <1>1, <1>2, <1>3, <1>4, <1>5, ConstantsAssumption DEF Within

LEMMA WithinStep ==
    ASSUME NEW r0, Replicas = {r0}, TypeOK, Within(r0), [Next]_vars
    PROVE  Within(r0)'
<1> USE ConstantsAssumption DEF dbVars
<1>0. ASSUME UNCHANGED <<table, rows>> PROVE Within(r0)'
    BY <1>0 DEF Within
<1>1. ASSUME NEW t \in Threads, GetMissing(t) PROVE Within(r0)'
    BY <1>1, <1>0 DEF GetMissing
<1>2. ASSUME NEW t \in Threads, GetLocal(t) PROVE Within(r0)'
    BY <1>2, <1>0 DEF GetLocal
<1>3. ASSUME NEW t \in Threads, GetAdopt(t) PROVE Within(r0)'
    BY <1>3, <1>0 DEF GetAdopt
<1>4. ASSUME NEW t \in Threads, Respond(t) PROVE Within(r0)'
    BY <1>4, <1>0 DEF Respond
<1>5. ASSUME NEW t \in Threads, SaveInsert(t) PROVE Within(r0)'
    BY <1>5, InsertWithin DEF SaveInsert
<1>6. ASSUME NEW t \in Threads, SaveFail(t) PROVE Within(r0)'
    BY <1>6, <1>0 DEF SaveFail
<1>7. ASSUME NEW t \in Threads, SavePublish(t) PROVE Within(r0)'
    BY <1>7, <1>0 DEF SavePublish
<1>8. ASSUME NEW t \in Threads, DeleteRow(t) PROVE Within(r0)'
    BY <1>8, <1>0, DeleteWithin
       DEF DeleteRow
<1>9. ASSUME NEW t \in Threads, DeleteForget(t) PROVE Within(r0)'
    BY <1>9, <1>0 DEF DeleteForget
<1>10. ASSUME NEW t \in Threads, DeleteLocal(t) PROVE Within(r0)'
    BY <1>10, <1>0 DEF DeleteLocal
<1>11. ASSUME NEW t \in Threads, ReplaceRow(t) PROVE Within(r0)'
    BY <1>11, <1>0, RekeyWithin DEF ReplaceRow
<1>12. ASSUME NEW t \in Threads, ReplaceForget(t) PROVE Within(r0)'
    BY <1>12, <1>0 DEF ReplaceForget
<1>13. ASSUME NEW t \in Threads, ReplaceDropOld(t) PROVE Within(r0)'
    BY <1>13, <1>0 DEF ReplaceDropOld
<1>14. ASSUME NEW t \in Threads, ReplacePublish(t) PROVE Within(r0)'
    BY <1>14, <1>0 DEF ReplacePublish
<1>15. ASSUME NEW t \in Threads, ReplaceLocally(t) PROVE Within(r0)'
    BY <1>15, <1>0, DeleteWithin
       DEF ReplaceLocally, ReplaceRefused
<1>16. ASSUME NEW t \in Threads, ReplaceLocal(t) PROVE Within(r0)'
    BY <1>16, <1>0 DEF ReplaceLocal
<1>17. ASSUME NEW t \in Threads, ReplaceMarkLocal(t) PROVE Within(r0)'
    BY <1>17, <1>0 DEF ReplaceMarkLocal
<1>18. ASSUME NEW t \in Threads, NEW id \in Ids, GetSelect(t, id)
      PROVE  Within(r0)'
    BY <1>18, <1>0 DEF GetSelect
<1>19. ASSUME NEW t \in Threads, NEW id \in Ids, GetDegraded(t, id)
      PROVE  Within(r0)'
    BY <1>19, <1>0 DEF GetDegraded
<1>20. ASSUME NEW t \in Threads, NEW id \in Ids, SaveAdmit(t, id)
      PROVE  Within(r0)'
    BY <1>20, <1>0 DEF SaveAdmit
<1>21. ASSUME NEW t \in Threads, NEW id \in Ids, ReplaceBegin(t, id)
      PROVE  Within(r0)'
    BY <1>21, <1>0 DEF ReplaceBegin
<1>22. ASSUME NEW r \in Replicas, ReapEpoch(r) PROVE Within(r0)'
    BY <1>22, <1>0 DEF ReapEpoch
<1>23. ASSUME NEW r \in Replicas, ReapScan(r) PROVE Within(r0)'
    BY <1>23, <1>0 DEF ReapScan
<1>24. ASSUME NEW r \in Replicas, ReapScanFails(r) PROVE Within(r0)'
    BY <1>24, <1>0 DEF ReapScanFails
<1>25. ASSUME NEW r \in Replicas, ReapCount(r) PROVE Within(r0)'
    <2>1. CASE UNCHANGED rows
        BY <1>25, <2>1, <1>0 DEF ReapCount
    <2>2. CASE rows' = [rows EXCEPT ![r] = Cardinality(table)]
        <3>1. table' = table /\ rows'[r0] = Cardinality(table)
            BY <1>25, <2>2 DEF ReapCount, TypeOK
        <3> QED BY <3>1, TableFinite DEF Within
    <2> QED BY <1>25, <2>1, <2>2 DEF ReapCount
<1>26. ASSUME NEW r \in Replicas, RepersistSnapshot(r) PROVE Within(r0)'
    BY <1>26, <1>0 DEF RepersistSnapshot
<1>27. ASSUME NEW r \in Replicas, RepersistLock(r) PROVE Within(r0)'
    BY <1>27, <1>0 DEF RepersistLock
<1>28. ASSUME NEW r \in Replicas, RepersistUnlock(r) PROVE Within(r0)'
    BY <1>28, <1>0 DEF RepersistUnlock
<1>29. ASSUME NEW r \in Replicas, ReapLocal(r) PROVE Within(r0)'
    BY <1>29, <1>0 DEF ReapLocal
<1>30. ASSUME NEW r \in Replicas, ReapPrune(r) PROVE Within(r0)'
    BY <1>30, <1>0 DEF ReapPrune
<1>31. ASSUME NEW r \in Replicas, NEW id \in Ids, RepersistSkip(r, id)
      PROVE  Within(r0)'
    BY <1>31, <1>0 DEF RepersistSkip
<1>32a. ASSUME NEW r \in Replicas, NEW id \in Ids, RepersistReserve(r, id)
      PROVE  Within(r0)'
    BY <1>32a, <1>0 DEF RepersistReserve
<1>32. ASSUME NEW r \in Replicas, NEW id \in Ids, RepersistInsert(r, id)
      PROVE  Within(r0)'
    BY <1>32, InsertWithin DEF RepersistInsert
<1>32b. ASSUME NEW r \in Replicas, NEW id \in Ids, RepersistNote(r, id)
      PROVE  Within(r0)'
    BY <1>32b, <1>0 DEF RepersistNote
<1>33. ASSUME NEW r \in Replicas, NEW id \in Ids, BuryForget(r, id)
      PROVE  Within(r0)'
    BY <1>33, <1>0 DEF BuryForget
<1>34. ASSUME NEW r \in Replicas, NEW id \in Ids, BuryRow(r, id)
      PROVE  Within(r0)'
    BY <1>34, <1>0, DeleteWithin DEF BuryRow
<1>35. ASSUME NEW r \in Replicas, NEW id \in Ids, Abandon(r, id)
      PROVE  Within(r0)'
    BY <1>35, <1>0 DEF Abandon
<1>36. ASSUME NEW r \in Replicas, NEW id \in Ids, AbandonRow(r, id)
      PROVE  Within(r0)'
    BY <1>36, <1>0, DeleteWithin DEF AbandonRow
<1>37. ASSUME NEW r \in Replicas, Restart(r) PROVE Within(r0)'
    <2>1. table' = table
        BY <1>37 DEF Restart
    <2>2. MaxRows > 0 => rows'[r0] = Cardinality(table) \/ rows'[r0] = MaxRows
        BY <1>37 DEF Restart, TypeOK
    <2> QED BY <2>1, <2>2, TableFinite DEF Within
<1>38. CASE UNCHANGED vars
    BY <1>38, <1>0 DEF vars
<1> QED
    BY <1>1, <1>2, <1>3, <1>4, <1>5, <1>6, <1>7, <1>8, <1>9, <1>10, <1>11,
       <1>12, <1>13, <1>14, <1>15, <1>16, <1>17, <1>18, <1>19, <1>20, <1>21,
       <1>22, <1>23, <1>24, <1>25, <1>26, <1>27, <1>28, <1>29, <1>30, <1>31,
       <1>32a, <1>32, <1>32b, <1>33, <1>34, <1>35, <1>36, <1>37, <1>38
    DEF Next, ThreadStep, Request, ReaperStep

\* One replica never lets the table outgrow storage.max_sessions, and its
\* counter never falls below the table: insert, the counted deletes, the login
\* swap, the sweep's reconcile and the seed of a restart keep both.
THEOREM CapRespected ==
    ASSUME NEW r0, Replicas = {r0}
    PROVE  Spec => [](CapHolds /\ CounterCoversTable)
<1>1. Init => Within(r0)
    BY FS_EmptySet, ConstantsAssumption DEF Init, Within
<1>2. TypeOK /\ Within(r0) /\ [Next]_vars => Within(r0)'
    BY WithinStep
<1>3. Within(r0) => CapHolds /\ CounterCoversTable
    BY DEF Within, CapHolds, CounterCoversTable
<1> QED BY <1>1, <1>2, <1>3, TypeCorrect, PTL DEF Spec

\* One replica's row counter never reads less than the table holds: no insert is
\* let through on a count that has missed a row.
THEOREM CounterCovers ==
    ASSUME NEW r0, Replicas = {r0}
    PROVE  Spec => []CounterCoversTable
<1>1. Spec => [](CapHolds /\ CounterCoversTable)
    BY CapRespected
<1> QED BY <1>1, PTL

-----------------------------------------------------------------------------
(***************************************************************************)
(* The admission mutex (lockAdmission): between the step that takes it and *)
(* the step that gives it back, a request is alone on its replica, and the *)
(* sweep's repersist does not run.                                         *)
(***************************************************************************)

\* A statement that has failed stays failed: no step takes a fault back.
LEMMA FaultsStay ==
    ASSUME TypeOK, [Next]_vars, faults' = 0
    PROVE  faults = 0
<1> USE DEF Fault, TypeOK
<1>1. ASSUME NEW t \in Threads, GetMissing(t) PROVE faults = 0
    BY <1>1 DEF GetMissing
<1>2. ASSUME NEW t \in Threads, GetLocal(t) PROVE faults = 0
    BY <1>2 DEF GetLocal
<1>3. ASSUME NEW t \in Threads, GetAdopt(t) PROVE faults = 0
    BY <1>3 DEF GetAdopt
<1>4. ASSUME NEW t \in Threads, Respond(t) PROVE faults = 0
    BY <1>4 DEF Respond
<1>5. ASSUME NEW t \in Threads, SaveInsert(t) PROVE faults = 0
    BY <1>5 DEF SaveInsert, InsertCommits, CommitFails, InsertRefused
<1>6. ASSUME NEW t \in Threads, SaveFail(t) PROVE faults = 0
    BY <1>6 DEF SaveFail
<1>7. ASSUME NEW t \in Threads, SavePublish(t) PROVE faults = 0
    BY <1>7 DEF SavePublish
<1>8. ASSUME NEW t \in Threads, DeleteRow(t) PROVE faults = 0
    BY <1>8 DEF DeleteRow, DeleteAnswered, DeleteFails
<1>9. ASSUME NEW t \in Threads, DeleteForget(t) PROVE faults = 0
    BY <1>9 DEF DeleteForget
<1>10. ASSUME NEW t \in Threads, DeleteLocal(t) PROVE faults = 0
    BY <1>10 DEF DeleteLocal
<1>11. ASSUME NEW t \in Threads, ReplaceRow(t) PROVE faults = 0
    BY <1>11 DEF ReplaceRow, ReplaceRefused
<1>12. ASSUME NEW t \in Threads, ReplaceForget(t) PROVE faults = 0
    BY <1>12 DEF ReplaceForget
<1>13. ASSUME NEW t \in Threads, ReplaceDropOld(t) PROVE faults = 0
    BY <1>13 DEF ReplaceDropOld
<1>14. ASSUME NEW t \in Threads, ReplacePublish(t) PROVE faults = 0
    BY <1>14 DEF ReplacePublish
<1>15. ASSUME NEW t \in Threads, ReplaceLocally(t) PROVE faults = 0
    BY <1>15 DEF ReplaceLocally, DeleteAnswered, DeleteFails, ReplaceRefused
<1>16. ASSUME NEW t \in Threads, ReplaceLocal(t) PROVE faults = 0
    BY <1>16 DEF ReplaceLocal, ReplaceRefused
<1>17. ASSUME NEW t \in Threads, ReplaceMarkLocal(t) PROVE faults = 0
    BY <1>17 DEF ReplaceMarkLocal
<1>18. ASSUME NEW t \in Threads, NEW id \in Ids, GetSelect(t, id)
      PROVE  faults = 0
    BY <1>18 DEF GetSelect
<1>19. ASSUME NEW t \in Threads, NEW id \in Ids, GetDegraded(t, id)
      PROVE  faults = 0
    BY <1>19 DEF GetDegraded
<1>20. ASSUME NEW t \in Threads, NEW id \in Ids, SaveAdmit(t, id)
      PROVE  faults = 0
    BY <1>20 DEF SaveAdmit
<1>21. ASSUME NEW t \in Threads, NEW id \in Ids, ReplaceBegin(t, id)
      PROVE  faults = 0
    BY <1>21 DEF ReplaceBegin
<1>22. ASSUME NEW r \in Replicas, ReapEpoch(r) PROVE faults = 0
    BY <1>22 DEF ReapEpoch
<1>23. ASSUME NEW r \in Replicas, ReapScan(r) PROVE faults = 0
    BY <1>23 DEF ReapScan
<1>24. ASSUME NEW r \in Replicas, ReapScanFails(r) PROVE faults = 0
    BY <1>24 DEF ReapScanFails
<1>25. ASSUME NEW r \in Replicas, ReapCount(r) PROVE faults = 0
    BY <1>25 DEF ReapCount
<1>26. ASSUME NEW r \in Replicas, RepersistSnapshot(r) PROVE faults = 0
    BY <1>26 DEF RepersistSnapshot
<1>27. ASSUME NEW r \in Replicas, RepersistLock(r) PROVE faults = 0
    BY <1>27 DEF RepersistLock
<1>28. ASSUME NEW r \in Replicas, RepersistUnlock(r) PROVE faults = 0
    BY <1>28 DEF RepersistUnlock
<1>29. ASSUME NEW r \in Replicas, ReapLocal(r) PROVE faults = 0
    BY <1>29 DEF ReapLocal
<1>30. ASSUME NEW r \in Replicas, ReapPrune(r) PROVE faults = 0
    BY <1>30 DEF ReapPrune
<1>31. ASSUME NEW r \in Replicas, NEW id \in Ids, RepersistSkip(r, id)
      PROVE  faults = 0
    BY <1>31 DEF RepersistSkip
<1>32a. ASSUME NEW r \in Replicas, NEW id \in Ids, RepersistReserve(r, id)
      PROVE  faults = 0
    BY <1>32a DEF RepersistReserve
<1>32. ASSUME NEW r \in Replicas, NEW id \in Ids, RepersistInsert(r, id)
      PROVE  faults = 0
    BY <1>32 DEF RepersistInsert, InsertCommits, CommitFails, InsertRefused
<1>32b. ASSUME NEW r \in Replicas, NEW id \in Ids, RepersistNote(r, id)
      PROVE  faults = 0
    BY <1>32b DEF RepersistNote
<1>33. ASSUME NEW r \in Replicas, NEW id \in Ids, BuryForget(r, id)
      PROVE  faults = 0
    BY <1>33 DEF BuryForget
<1>34. ASSUME NEW r \in Replicas, NEW id \in Ids, BuryRow(r, id)
      PROVE  faults = 0
    BY <1>34 DEF BuryRow, DeleteAnswered, DeleteFails
<1>35. ASSUME NEW r \in Replicas, NEW id \in Ids, Abandon(r, id)
      PROVE  faults = 0
    BY <1>35 DEF Abandon
<1>36. ASSUME NEW r \in Replicas, NEW id \in Ids, AbandonRow(r, id)
      PROVE  faults = 0
    BY <1>36 DEF AbandonRow, DeleteAnswered, DeleteFails
<1>37. ASSUME NEW r \in Replicas, Restart(r) PROVE faults = 0
    BY <1>37 DEF Restart
<1>38. CASE UNCHANGED vars
    BY <1>38 DEF vars
<1> QED
    BY <1>1, <1>2, <1>3, <1>4, <1>5, <1>6, <1>7, <1>8, <1>9, <1>10, <1>11,
       <1>12, <1>13, <1>14, <1>15, <1>16, <1>17, <1>18, <1>19, <1>20,
       <1>21, <1>22, <1>23, <1>24, <1>25, <1>26, <1>27, <1>28, <1>29,
       <1>30, <1>31, <1>32a, <1>32, <1>32b, <1>33, <1>34, <1>35, <1>36, <1>37, <1>38
    DEF Next, ThreadStep, Request, ReaperStep

\* The steps of Save, Delete and Replace that run under the mutex.
Admitted ==
    {"saveInsert", "forget", "swapRow", "swapLocalRow", "swapLocal",
     "markLocal", "rekeyed", "dropOld", "publishNew"}

RepersistSteps == {"repersist", "write", "note"}

OneAdmitted ==
    /\ \A t \in Threads : pc[t] \in Admitted =>
          /\ locked[Home[t]] /\ rpc[Home[t]] \notin RepersistSteps
          /\ \A u \in Threads : pc[u] \in Admitted /\ Home[u] = Home[t] => u = t
    /\ \A r \in Replicas : rpc[r] \in RepersistSteps => locked[r]

\* Every step of the store takes the mutex before it needs it and gives it back
\* once, and a restart gives back that of the process it ends.
LEMMA OneAdmittedStep ==
    ASSUME TypeOK, OneAdmitted, [Next]_vars
    PROVE  OneAdmitted'
<1> USE ConstantsAssumption
    DEF threadVars, reaperVars, Goto, RGoto, Finish, Lock, Unlock,
        TypeOK, OneAdmitted, Admitted, RepersistSteps
<1>1. ASSUME NEW t \in Threads, GetMissing(t) PROVE OneAdmitted'
    BY <1>1 DEF GetMissing
<1>2. ASSUME NEW t \in Threads, GetLocal(t) PROVE OneAdmitted'
    BY <1>2 DEF GetLocal
<1>3. ASSUME NEW t \in Threads, GetAdopt(t) PROVE OneAdmitted'
    BY <1>3 DEF GetAdopt
<1>4. ASSUME NEW t \in Threads, Respond(t) PROVE OneAdmitted'
    BY <1>4 DEF Respond
<1>5. ASSUME NEW t \in Threads, SaveInsert(t) PROVE OneAdmitted'
    BY <1>5 DEF SaveInsert
<1>6. ASSUME NEW t \in Threads, SaveFail(t) PROVE OneAdmitted'
    BY <1>6 DEF SaveFail
<1>7. ASSUME NEW t \in Threads, SavePublish(t) PROVE OneAdmitted'
    BY <1>7 DEF SavePublish
<1>8. ASSUME NEW t \in Threads, DeleteRow(t) PROVE OneAdmitted'
    BY <1>8 DEF DeleteRow
<1>9. ASSUME NEW t \in Threads, DeleteForget(t) PROVE OneAdmitted'
    BY <1>9 DEF DeleteForget
<1>10. ASSUME NEW t \in Threads, DeleteLocal(t) PROVE OneAdmitted'
    BY <1>10 DEF DeleteLocal
<1>11. ASSUME NEW t \in Threads, ReplaceRow(t) PROVE OneAdmitted'
    BY <1>11 DEF ReplaceRow, ReplaceRefused
<1>12. ASSUME NEW t \in Threads, ReplaceForget(t) PROVE OneAdmitted'
    BY <1>12 DEF ReplaceForget
<1>13. ASSUME NEW t \in Threads, ReplaceDropOld(t) PROVE OneAdmitted'
    BY <1>13 DEF ReplaceDropOld
<1>14. ASSUME NEW t \in Threads, ReplacePublish(t) PROVE OneAdmitted'
    BY <1>14 DEF ReplacePublish
<1>15. ASSUME NEW t \in Threads, ReplaceLocally(t) PROVE OneAdmitted'
    BY <1>15 DEF ReplaceLocally, ReplaceRefused
<1>16. ASSUME NEW t \in Threads, ReplaceLocal(t) PROVE OneAdmitted'
    BY <1>16 DEF ReplaceLocal, ReplaceRefused
<1>17. ASSUME NEW t \in Threads, ReplaceMarkLocal(t) PROVE OneAdmitted'
    BY <1>17 DEF ReplaceMarkLocal
<1>18. ASSUME NEW t \in Threads, NEW id \in Ids, GetSelect(t, id)
      PROVE  OneAdmitted'
    BY <1>18 DEF GetSelect
<1>19. ASSUME NEW t \in Threads, NEW id \in Ids, GetDegraded(t, id)
      PROVE  OneAdmitted'
    BY <1>19 DEF GetDegraded
<1>20. ASSUME NEW t \in Threads, NEW id \in Ids, SaveAdmit(t, id)
      PROVE  OneAdmitted'
    <2>1. /\ pc[t] = "idle" /\ ~locked[Home[t]] /\ rpc' = rpc
          /\ \/ locked' = [locked EXCEPT ![Home[t]] = TRUE] /\ pc' = [pc EXCEPT ![t] = "saveInsert"]
             \/ locked' = locked /\ pc' = [pc EXCEPT ![t] = "saveFail"]
        BY <1>20 DEF SaveAdmit
    <2> QED BY <2>1
<1>21. ASSUME NEW t \in Threads, NEW id \in Ids, ReplaceBegin(t, id)
      PROVE  OneAdmitted'
    BY <1>21 DEF ReplaceBegin
<1>22. ASSUME NEW r \in Replicas, ReapEpoch(r) PROVE OneAdmitted'
    BY <1>22 DEF ReapEpoch
<1>23. ASSUME NEW r \in Replicas, ReapScan(r) PROVE OneAdmitted'
    BY <1>23 DEF ReapScan
<1>24. ASSUME NEW r \in Replicas, ReapScanFails(r) PROVE OneAdmitted'
    BY <1>24 DEF ReapScanFails
<1>25. ASSUME NEW r \in Replicas, ReapCount(r) PROVE OneAdmitted'
    BY <1>25 DEF ReapCount
<1>26. ASSUME NEW r \in Replicas, RepersistSnapshot(r) PROVE OneAdmitted'
    BY <1>26 DEF RepersistSnapshot
<1>27. ASSUME NEW r \in Replicas, RepersistLock(r) PROVE OneAdmitted'
    BY <1>27 DEF RepersistLock
<1>28. ASSUME NEW r \in Replicas, RepersistUnlock(r) PROVE OneAdmitted'
    BY <1>28 DEF RepersistUnlock
<1>29. ASSUME NEW r \in Replicas, ReapLocal(r) PROVE OneAdmitted'
    BY <1>29 DEF ReapLocal
<1>30. ASSUME NEW r \in Replicas, ReapPrune(r) PROVE OneAdmitted'
    BY <1>30 DEF ReapPrune
<1>31. ASSUME NEW r \in Replicas, NEW id \in Ids, RepersistSkip(r, id)
      PROVE  OneAdmitted'
    BY <1>31 DEF RepersistSkip
<1>32a. ASSUME NEW r \in Replicas, NEW id \in Ids, RepersistReserve(r, id)
      PROVE  OneAdmitted'
    BY <1>32a DEF RepersistReserve
<1>32. ASSUME NEW r \in Replicas, NEW id \in Ids, RepersistInsert(r, id)
      PROVE  OneAdmitted'
    BY <1>32 DEF RepersistInsert
<1>32b. ASSUME NEW r \in Replicas, NEW id \in Ids, RepersistNote(r, id)
      PROVE  OneAdmitted'
    BY <1>32b DEF RepersistNote
<1>33. ASSUME NEW r \in Replicas, NEW id \in Ids, BuryForget(r, id)
      PROVE  OneAdmitted'
    BY <1>33 DEF BuryForget
<1>34. ASSUME NEW r \in Replicas, NEW id \in Ids, BuryRow(r, id)
      PROVE  OneAdmitted'
    BY <1>34 DEF BuryRow
<1>35. ASSUME NEW r \in Replicas, NEW id \in Ids, Abandon(r, id)
      PROVE  OneAdmitted'
    BY <1>35 DEF Abandon
<1>36. ASSUME NEW r \in Replicas, NEW id \in Ids, AbandonRow(r, id)
      PROVE  OneAdmitted'
    BY <1>36 DEF AbandonRow
<1>37. ASSUME NEW r \in Replicas, Restart(r) PROVE OneAdmitted'
    BY <1>37 DEF Restart
<1>38. CASE UNCHANGED vars
    BY <1>38 DEF vars
<1> QED
    BY <1>1, <1>2, <1>3, <1>4, <1>5, <1>6, <1>7, <1>8, <1>9, <1>10, <1>11,
       <1>12, <1>13, <1>14, <1>15, <1>16, <1>17, <1>18, <1>19, <1>20,
       <1>21, <1>22, <1>23, <1>24, <1>25, <1>26, <1>27, <1>28, <1>29,
       <1>30, <1>31, <1>32a, <1>32, <1>32b, <1>33, <1>34, <1>35, <1>36, <1>37, <1>38
    DEF Next, ThreadStep, Request, ReaperStep

-----------------------------------------------------------------------------
(***************************************************************************)
(* Who can know an id.  An id a request has drawn is its own until the     *)
(* browser is given it, and an id that has had no row is known to one      *)
(* replica alone, because the others find sessions only through rows.      *)
(***************************************************************************)

\* Thread t has drawn id, for a Save or a login, and not published it yet.
Draws(t, id) ==
    \/ pc[t] \in {"saveInsert", "saveFail", "savePublish"} /\ sid[t] = id
    \/ pc[t] \in LoginSteps /\ nid[t] = id

\* Thread t works on id.
Handles(t, id) == Draws(t, id) \/ (pc[t] \notin {"idle", "missing"} /\ sid[t] = id)

\* Replica r holds id somewhere: in a map, in its local store, in a request.
Touches(r, id) ==
    \/ id \in local[r] \/ Marks(r, id)
    \/ \E t \in Threads : Home[t] = r /\ Handles(t, id)

\* What a replica has read from the table has had a row.
SeenAreWritten ==
    /\ table \subseteq stored
    /\ \A r \in Replicas : /\ present[r] \subseteq stored
                           /\ rpc[r] # "write" => target[r] \subseteq stored
    /\ \A t \in Threads : pc[t] \in {"found", "adopt"} => sid[t] \in stored

UnwrittenIsPrivate ==
    \A id \in Ids : \A r \in Replicas : Touches(r, id) =>
          /\ id \in minted
          /\ id \notin stored => \A q \in Replicas : Touches(q, id) => q = r

DrawnOnce ==
    /\ cookies \cup stored \subseteq minted
    /\ \A t \in Threads : pc[t] # "idle" => sid[t] \in minted
    /\ \A id \in Ids, t \in Threads : Draws(t, id) =>
          /\ id \in minted \ cookies
          /\ \A u \in Threads : /\ Draws(u, id) => u = t
                                /\ u # t => pc[u] = "idle" \/ sid[u] # id
          /\ pc[t] \in LoginSteps => sid[t] # id

\* Get and Reap take ids from the rows they read, and only from them.
LEMMA SeenAreWrittenStep ==
    ASSUME TypeOK, SeenAreWritten, [Next]_vars
    PROVE  SeenAreWritten'
<1> USE ConstantsAssumption
    DEF dbVars, threadVars, reaperVars, Goto, RGoto, Finish,
        TypeOK, SeenAreWritten
<1>1. ASSUME NEW t \in Threads, GetMissing(t) PROVE SeenAreWritten'
    BY <1>1 DEF GetMissing
<1>2. ASSUME NEW t \in Threads, GetLocal(t) PROVE SeenAreWritten'
    BY <1>2 DEF GetLocal
<1>3. ASSUME NEW t \in Threads, GetAdopt(t) PROVE SeenAreWritten'
    BY <1>3 DEF GetAdopt
<1>4. ASSUME NEW t \in Threads, Respond(t) PROVE SeenAreWritten'
    BY <1>4 DEF Respond
<1>5. ASSUME NEW t \in Threads, SaveInsert(t) PROVE SeenAreWritten'
    BY <1>5 DEF SaveInsert, InsertCommits, CommitFails, InsertRefused
<1>6. ASSUME NEW t \in Threads, SaveFail(t) PROVE SeenAreWritten'
    BY <1>6 DEF SaveFail
<1>7. ASSUME NEW t \in Threads, SavePublish(t) PROVE SeenAreWritten'
    BY <1>7 DEF SavePublish
<1>8. ASSUME NEW t \in Threads, DeleteRow(t) PROVE SeenAreWritten'
    BY <1>8 DEF DeleteRow, DeleteAnswered, DeleteFails
<1>9. ASSUME NEW t \in Threads, DeleteForget(t) PROVE SeenAreWritten'
    BY <1>9 DEF DeleteForget
<1>10. ASSUME NEW t \in Threads, DeleteLocal(t) PROVE SeenAreWritten'
    BY <1>10 DEF DeleteLocal
<1>11. ASSUME NEW t \in Threads, ReplaceRow(t) PROVE SeenAreWritten'
    BY <1>11 DEF ReplaceRow, ReplaceRefused
<1>12. ASSUME NEW t \in Threads, ReplaceForget(t) PROVE SeenAreWritten'
    BY <1>12 DEF ReplaceForget
<1>13. ASSUME NEW t \in Threads, ReplaceDropOld(t) PROVE SeenAreWritten'
    BY <1>13 DEF ReplaceDropOld
<1>14. ASSUME NEW t \in Threads, ReplacePublish(t) PROVE SeenAreWritten'
    BY <1>14 DEF ReplacePublish
<1>15. ASSUME NEW t \in Threads, ReplaceLocally(t) PROVE SeenAreWritten'
    BY <1>15 DEF ReplaceLocally, DeleteAnswered, DeleteFails, ReplaceRefused
<1>16. ASSUME NEW t \in Threads, ReplaceLocal(t) PROVE SeenAreWritten'
    BY <1>16 DEF ReplaceLocal, ReplaceRefused
<1>17. ASSUME NEW t \in Threads, ReplaceMarkLocal(t) PROVE SeenAreWritten'
    BY <1>17 DEF ReplaceMarkLocal
<1>18. ASSUME NEW t \in Threads, NEW id \in Ids, GetSelect(t, id)
      PROVE  SeenAreWritten'
    BY <1>18 DEF GetSelect
<1>19. ASSUME NEW t \in Threads, NEW id \in Ids, GetDegraded(t, id)
      PROVE  SeenAreWritten'
    BY <1>19 DEF GetDegraded
<1>20. ASSUME NEW t \in Threads, NEW id \in Ids, SaveAdmit(t, id)
      PROVE  SeenAreWritten'
    BY <1>20 DEF SaveAdmit
<1>21. ASSUME NEW t \in Threads, NEW id \in Ids, ReplaceBegin(t, id)
      PROVE  SeenAreWritten'
    BY <1>21 DEF ReplaceBegin
<1>22. ASSUME NEW r \in Replicas, ReapEpoch(r) PROVE SeenAreWritten'
    BY <1>22 DEF ReapEpoch
<1>23. ASSUME NEW r \in Replicas, ReapScan(r) PROVE SeenAreWritten'
    BY <1>23 DEF ReapScan
<1>24. ASSUME NEW r \in Replicas, ReapScanFails(r) PROVE SeenAreWritten'
    BY <1>24 DEF ReapScanFails
<1>25. ASSUME NEW r \in Replicas, ReapCount(r) PROVE SeenAreWritten'
    BY <1>25 DEF ReapCount
<1>26. ASSUME NEW r \in Replicas, RepersistSnapshot(r) PROVE SeenAreWritten'
    BY <1>26 DEF RepersistSnapshot
<1>27. ASSUME NEW r \in Replicas, RepersistLock(r) PROVE SeenAreWritten'
    BY <1>27 DEF RepersistLock
<1>28. ASSUME NEW r \in Replicas, RepersistUnlock(r) PROVE SeenAreWritten'
    BY <1>28 DEF RepersistUnlock
<1>29. ASSUME NEW r \in Replicas, ReapLocal(r) PROVE SeenAreWritten'
    BY <1>29 DEF ReapLocal
<1>30. ASSUME NEW r \in Replicas, ReapPrune(r) PROVE SeenAreWritten'
    BY <1>30 DEF ReapPrune
<1>31. ASSUME NEW r \in Replicas, NEW id \in Ids, RepersistSkip(r, id)
      PROVE  SeenAreWritten'
    BY <1>31 DEF RepersistSkip
<1>32a. ASSUME NEW r \in Replicas, NEW id \in Ids, RepersistReserve(r, id)
      PROVE  SeenAreWritten'
    BY <1>32a DEF RepersistReserve
<1>32. ASSUME NEW r \in Replicas, NEW id \in Ids, RepersistInsert(r, id)
      PROVE  SeenAreWritten'
    BY <1>32 DEF RepersistInsert, InsertCommits, CommitFails, InsertRefused, OneTarget
<1>32b. ASSUME NEW r \in Replicas, NEW id \in Ids, RepersistNote(r, id)
      PROVE  SeenAreWritten'
    BY <1>32b DEF RepersistNote
<1>33. ASSUME NEW r \in Replicas, NEW id \in Ids, BuryForget(r, id)
      PROVE  SeenAreWritten'
    BY <1>33 DEF BuryForget
<1>34. ASSUME NEW r \in Replicas, NEW id \in Ids, BuryRow(r, id)
      PROVE  SeenAreWritten'
    BY <1>34 DEF BuryRow, DeleteAnswered, DeleteFails
<1>35. ASSUME NEW r \in Replicas, NEW id \in Ids, Abandon(r, id)
      PROVE  SeenAreWritten'
    BY <1>35 DEF Abandon
<1>36. ASSUME NEW r \in Replicas, NEW id \in Ids, AbandonRow(r, id)
      PROVE  SeenAreWritten'
    BY <1>36 DEF AbandonRow, DeleteAnswered, DeleteFails
<1>37. ASSUME NEW r \in Replicas, Restart(r) PROVE SeenAreWritten'
    BY <1>37 DEF Restart
<1>38. CASE UNCHANGED vars
    BY <1>38 DEF vars
<1> QED
    BY <1>1, <1>2, <1>3, <1>4, <1>5, <1>6, <1>7, <1>8, <1>9, <1>10, <1>11,
       <1>12, <1>13, <1>14, <1>15, <1>16, <1>17, <1>18, <1>19, <1>20,
       <1>21, <1>22, <1>23, <1>24, <1>25, <1>26, <1>27, <1>28, <1>29,
       <1>30, <1>31, <1>32a, <1>32, <1>32b, <1>33, <1>34, <1>35, <1>36, <1>37, <1>38
    DEF Next, ThreadStep, Request, ReaperStep

\* Manager.Start and Authenticate draw ids nobody has drawn before, and hand
\* them to the browser with the step that ends the request.
LEMMA DrawnOnceStep ==
    ASSUME TypeOK, SeenAreWritten, UnwrittenIsPrivate, DrawnOnce, [Next]_vars
    PROVE  DrawnOnce'
<1> USE ConstantsAssumption
    DEF dbVars, envVars, threadVars, Goto, Finish, Draws, LoginSteps,
        TypeOK, SeenAreWritten, DrawnOnce
<1>1. ASSUME NEW t \in Threads, GetMissing(t) PROVE DrawnOnce'
    BY <1>1 DEF GetMissing
<1>2. ASSUME NEW t \in Threads, GetLocal(t) PROVE DrawnOnce'
    BY <1>2 DEF GetLocal
<1>3. ASSUME NEW t \in Threads, GetAdopt(t) PROVE DrawnOnce'
    BY <1>3 DEF GetAdopt
<1>4. ASSUME NEW t \in Threads, Respond(t) PROVE DrawnOnce'
    BY <1>4 DEF Respond
<1>5. ASSUME NEW t \in Threads, SaveInsert(t) PROVE DrawnOnce'
    BY <1>5 DEF SaveInsert, InsertCommits, CommitFails, InsertRefused
<1>6. ASSUME NEW t \in Threads, SaveFail(t) PROVE DrawnOnce'
    BY <1>6 DEF SaveFail
<1>7. ASSUME NEW t \in Threads, SavePublish(t) PROVE DrawnOnce'
    BY <1>7 DEF SavePublish
<1>8. ASSUME NEW t \in Threads, DeleteRow(t) PROVE DrawnOnce'
    BY <1>8 DEF DeleteRow, DeleteAnswered, DeleteFails
<1>9. ASSUME NEW t \in Threads, DeleteForget(t) PROVE DrawnOnce'
    BY <1>9 DEF DeleteForget
<1>10. ASSUME NEW t \in Threads, DeleteLocal(t) PROVE DrawnOnce'
    BY <1>10 DEF DeleteLocal
<1>11. ASSUME NEW t \in Threads, ReplaceRow(t) PROVE DrawnOnce'
    <2>1. /\ pc[t] = "swapRow" /\ UNCHANGED <<minted, cookies>>
          /\ stored' \subseteq stored \cup {nid[t]}
        BY <1>11 DEF ReplaceRow
    <2>2. \/ UNCHANGED <<sid, nid>> /\ pc' = [pc EXCEPT ![t] = "rekeyed"]
          \/ UNCHANGED <<sid, nid>> /\ pc' = [pc EXCEPT ![t] = "swapLocal"]
          \/ Finish(t)
        BY <1>11 DEF ReplaceRow, ReplaceRefused
    <2>3. CASE UNCHANGED <<sid, nid>> /\ pc' = [pc EXCEPT ![t] = "rekeyed"]
        BY <2>1, <2>3
    <2>4. CASE UNCHANGED <<sid, nid>> /\ pc' = [pc EXCEPT ![t] = "swapLocal"]
        BY <2>1, <2>4
    <2>5. CASE Finish(t)
        BY <2>1, <2>5
    <2> QED BY <2>2, <2>3, <2>4, <2>5
<1>12. ASSUME NEW t \in Threads, ReplaceForget(t) PROVE DrawnOnce'
    BY <1>12 DEF ReplaceForget
<1>13. ASSUME NEW t \in Threads, ReplaceDropOld(t) PROVE DrawnOnce'
    BY <1>13 DEF ReplaceDropOld
<1>14. ASSUME NEW t \in Threads, ReplacePublish(t) PROVE DrawnOnce'
    BY <1>14 DEF ReplacePublish
<1>15. ASSUME NEW t \in Threads, ReplaceLocally(t) PROVE DrawnOnce'
    BY <1>15 DEF ReplaceLocally, DeleteAnswered, DeleteFails, ReplaceRefused
<1>16. ASSUME NEW t \in Threads, ReplaceLocal(t) PROVE DrawnOnce'
    <2>1. CASE Goto(t, "markLocal")
        BY <1>16, <2>1 DEF ReplaceLocal
    <2>2. CASE ReplaceRefused(t)
        BY <1>16, <2>2 DEF ReplaceLocal, ReplaceRefused
    <2> QED BY <1>16, <2>1, <2>2 DEF ReplaceLocal
<1>17. ASSUME NEW t \in Threads, ReplaceMarkLocal(t) PROVE DrawnOnce'
    BY <1>17 DEF ReplaceMarkLocal
<1>18. ASSUME NEW t \in Threads, NEW id \in Ids, GetSelect(t, id)
      PROVE  DrawnOnce'
    BY <1>18 DEF GetSelect
<1>19. ASSUME NEW t \in Threads, NEW id \in Ids, GetDegraded(t, id)
      PROVE  DrawnOnce'
    BY <1>19 DEF GetDegraded
<1>20. ASSUME NEW t \in Threads, NEW id \in Ids, SaveAdmit(t, id)
      PROVE  DrawnOnce'
    BY <1>20 DEF SaveAdmit
<1>21. ASSUME NEW t \in Threads, NEW id \in Ids, ReplaceBegin(t, id)
      PROVE  DrawnOnce'
    BY <1>21 DEF ReplaceBegin
<1>22. ASSUME NEW r \in Replicas, ReapEpoch(r) PROVE DrawnOnce'
    BY <1>22 DEF ReapEpoch
<1>23. ASSUME NEW r \in Replicas, ReapScan(r) PROVE DrawnOnce'
    BY <1>23 DEF ReapScan
<1>24. ASSUME NEW r \in Replicas, ReapScanFails(r) PROVE DrawnOnce'
    BY <1>24 DEF ReapScanFails
<1>25. ASSUME NEW r \in Replicas, ReapCount(r) PROVE DrawnOnce'
    BY <1>25 DEF ReapCount
<1>26. ASSUME NEW r \in Replicas, RepersistSnapshot(r) PROVE DrawnOnce'
    BY <1>26 DEF RepersistSnapshot
<1>27. ASSUME NEW r \in Replicas, RepersistLock(r) PROVE DrawnOnce'
    BY <1>27 DEF RepersistLock
<1>28. ASSUME NEW r \in Replicas, RepersistUnlock(r) PROVE DrawnOnce'
    BY <1>28 DEF RepersistUnlock
<1>29. ASSUME NEW r \in Replicas, ReapLocal(r) PROVE DrawnOnce'
    BY <1>29 DEF ReapLocal
<1>30. ASSUME NEW r \in Replicas, ReapPrune(r) PROVE DrawnOnce'
    BY <1>30 DEF ReapPrune
<1>31. ASSUME NEW r \in Replicas, NEW id \in Ids, RepersistSkip(r, id)
      PROVE  DrawnOnce'
    BY <1>31 DEF RepersistSkip
<1>32a. ASSUME NEW r \in Replicas, NEW id \in Ids, RepersistReserve(r, id)
      PROVE  DrawnOnce'
    BY <1>32a DEF RepersistReserve
<1>32. ASSUME NEW r \in Replicas, NEW id \in Ids, RepersistInsert(r, id)
      PROVE  DrawnOnce'
    <2>1. id \in minted
        BY <1>32 DEF RepersistInsert, UnwrittenIsPrivate, Touches, Marks, OneTarget
    <2>2. stored' \subseteq stored \cup {id}
        BY <1>32 DEF RepersistInsert, InsertCommits, CommitFails, InsertRefused
    <2>3. UNCHANGED <<minted, cookies, pc, sid, nid>>
        BY <1>32 DEF RepersistInsert
    <2> QED BY <2>1, <2>2, <2>3
<1>32b. ASSUME NEW r \in Replicas, NEW id \in Ids, RepersistNote(r, id)
      PROVE  DrawnOnce'
    BY <1>32b DEF RepersistNote
<1>33. ASSUME NEW r \in Replicas, NEW id \in Ids, BuryForget(r, id)
      PROVE  DrawnOnce'
    BY <1>33 DEF BuryForget
<1>34. ASSUME NEW r \in Replicas, NEW id \in Ids, BuryRow(r, id)
      PROVE  DrawnOnce'
    BY <1>34 DEF BuryRow, DeleteAnswered, DeleteFails
<1>35. ASSUME NEW r \in Replicas, NEW id \in Ids, Abandon(r, id)
      PROVE  DrawnOnce'
    BY <1>35 DEF Abandon
<1>36. ASSUME NEW r \in Replicas, NEW id \in Ids, AbandonRow(r, id)
      PROVE  DrawnOnce'
    BY <1>36 DEF AbandonRow, DeleteAnswered, DeleteFails
<1>37. ASSUME NEW r \in Replicas, Restart(r) PROVE DrawnOnce'
    BY <1>37 DEF Restart
<1>38. CASE UNCHANGED vars
    BY <1>38 DEF vars
<1> QED
    BY <1>1, <1>2, <1>3, <1>4, <1>5, <1>6, <1>7, <1>8, <1>9, <1>10, <1>11,
       <1>12, <1>13, <1>14, <1>15, <1>16, <1>17, <1>18, <1>19, <1>20,
       <1>21, <1>22, <1>23, <1>24, <1>25, <1>26, <1>27, <1>28, <1>29,
       <1>30, <1>31, <1>32a, <1>32, <1>32b, <1>33, <1>34, <1>35, <1>36, <1>37, <1>38
    DEF Next, ThreadStep, Request, ReaperStep

\* The steps that mint nothing: whoever holds an id held it before, or found it
\* in a row.
LEMMA PrivateKept ==
    ASSUME UnwrittenIsPrivate, stored \subseteq stored', minted \subseteq minted',
           stored' \subseteq minted',
           \A t \in Threads, j \in Ids : Handles(t, j)' =>
               Handles(t, j) \/ j \in stored' \/ j \in local[Home[t]],
           \A q \in Replicas, j \in Ids :
               j \in local'[q] => Touches(q, j) \/ j \in stored',
           \A q \in Replicas, j \in Ids :
               Marks(q, j)' => Touches(q, j) \/ j \in stored'
    PROVE  UnwrittenIsPrivate'
<1>1. \A q \in Replicas, j \in Ids : Touches(q, j)' => Touches(q, j) \/ j \in stored'
    BY DEF Touches
<1> QED BY <1>1 DEF UnwrittenIsPrivate

\* The steps that draw an id: one thread alone holds it.
LEMMA PrivateMints ==
    ASSUME UnwrittenIsPrivate, UNCHANGED <<stored, local, unpersisted, pending>>,
           NEW s \in Threads, NEW new \in Ids, Home[s] \in Replicas,
           new \notin minted, minted' = minted \cup {new},
           \A t \in Threads, j \in Ids : Handles(t, j)' =>
               Handles(t, j) \/ (t = s /\ j = new)
    PROVE  UnwrittenIsPrivate'
<1>1. \A q \in Replicas, j \in Ids : Touches(q, j)' =>
          Touches(q, j) \/ (q = Home[s] /\ j = new)
    BY DEF Touches, Marks
<1> QED BY <1>1 DEF UnwrittenIsPrivate

\* memStore.Save puts nothing into the local store but the session of the
\* request that calls it, whatever it evicts.
LEMMA PutLocalTouches ==
    ASSUME TypeOK, NEW t \in Threads, NEW id \in Ids, NEW T,
           Handles(t, id), PutLocal(Home[t], id, T)
    PROVE  \A q \in Replicas, j \in Ids : j \in local'[q] => Touches(q, j)
<1>1. Home[t] \in Replicas
    BY ConstantsAssumption
<1>2. \A q \in Replicas, j \in Ids :
          j \in local'[q] => j \in local[q] \/ (q = Home[t] /\ j = id)
    <2>1. CASE local' = [local EXCEPT ![Home[t]] = @ \cup {id}]
        BY <1>1, <2>1 DEF TypeOK
    <2>2. ASSUME NEW victim \in local[Home[t]],
                 local' = [local EXCEPT ![Home[t]] = (@ \ {victim}) \cup {id}]
          PROVE  \A q \in Replicas, j \in Ids :
                     j \in local'[q] => j \in local[q] \/ (q = Home[t] /\ j = id)
        BY <1>1, <2>2 DEF TypeOK
    <2> QED BY <2>1, <2>2 DEF PutLocal
<1> QED BY <1>2 DEF Touches

\* No step of Get, Save, Replace or Reap shows another replica an id that has
\* had no row.
LEMMA UnwrittenIsPrivateStep ==
    ASSUME TypeOK, SeenAreWritten, DrawnOnce, DrawnOnce', UnwrittenIsPrivate,
           [Next]_vars
    PROVE  UnwrittenIsPrivate'
<1> USE ConstantsAssumption
    DEF dbVars, markVars, envVars, threadVars, reaperVars, Goto, RGoto, Finish
<1> DEFINE ThreadsKept == \A t \in Threads, j \in Ids : Handles(t, j)' =>
               Handles(t, j) \/ j \in stored' \/ j \in local[Home[t]]
           LocalKept == \A q \in Replicas, j \in Ids :
               j \in local'[q] => Touches(q, j) \/ j \in stored'
           OwesKept == \A q \in Replicas, j \in Ids :
               Marks(q, j)' => Touches(q, j) \/ j \in stored'
           Grows == stored \subseteq stored' /\ minted \subseteq minted'
<1>a. ASSUME Grows, ThreadsKept, LocalKept, OwesKept PROVE UnwrittenIsPrivate'
    BY <1>a, PrivateKept DEF DrawnOnce
<1>b. ASSUME local' = local PROVE LocalKept
    BY <1>b DEF Touches
<1>c. ASSUME UNCHANGED <<unpersisted, pending>> PROVE OwesKept
    BY <1>c DEF Touches, Marks
<1>d. ASSUME UNCHANGED <<pc, sid, nid>> PROVE ThreadsKept
    BY <1>d DEF Handles, Draws
<1>1. ASSUME NEW t \in Threads, GetMissing(t) PROVE UnwrittenIsPrivate'
    BY <1>1, <1>b, <1>c, <1>a
    DEF TypeOK, GetMissing, Handles, Draws, LoginSteps
<1>2. ASSUME NEW t \in Threads, GetLocal(t) PROVE UnwrittenIsPrivate'
    BY <1>2, <1>b, <1>c, <1>a DEF TypeOK, GetLocal, Handles, Draws, LoginSteps
<1>3. ASSUME NEW t \in Threads, GetAdopt(t) PROVE UnwrittenIsPrivate'
    <2>1. Grows /\ ThreadsKept
        BY <1>3 DEF TypeOK, GetAdopt, Handles, Draws, LoginSteps
    <2>2. LocalKept
        <3>1. sid[t] \in Ids /\ Handles(t, sid[t])
            BY <1>3 DEF TypeOK, GetAdopt, Handles, Draws, LoginSteps
        <3> QED BY <1>3, <3>1, PutLocalTouches DEF GetAdopt
    <2>3. OwesKept
        BY <1>3, PutLocalTakes DEF TypeOK, GetAdopt, Touches
    <2> QED BY <2>1, <2>2, <2>3, <1>a
<1>4. ASSUME NEW t \in Threads, Respond(t) PROVE UnwrittenIsPrivate'
    BY <1>4, <1>b, <1>c, <1>a DEF TypeOK, Respond, Handles, Draws, LoginSteps
<1>5. ASSUME NEW t \in Threads, SaveInsert(t) PROVE UnwrittenIsPrivate'
    BY <1>5, <1>b, <1>c, <1>a
    DEF TypeOK, SaveInsert, InsertCommits, CommitFails, InsertRefused, Handles,
        Draws, LoginSteps
<1>6. ASSUME NEW t \in Threads, SaveFail(t) PROVE UnwrittenIsPrivate'
    <2>1. Grows /\ ThreadsKept
        BY <1>6 DEF TypeOK, SaveFail, Handles, Draws, LoginSteps
    <2>2. LocalKept
        BY <1>6, <1>b DEF SaveFail
    <2>3. OwesKept
        BY <1>6 DEF TypeOK, SaveFail, Touches, Marks, Handles, Draws, LoginSteps
    <2> QED BY <2>1, <2>2, <2>3, <1>a
<1>7. ASSUME NEW t \in Threads, SavePublish(t) PROVE UnwrittenIsPrivate'
    <2>1. Grows /\ ThreadsKept
        BY <1>7 DEF TypeOK, SavePublish, Handles, Draws, LoginSteps
    <2>2. LocalKept
        <3>1. sid[t] \in Ids /\ Handles(t, sid[t])
            BY <1>7 DEF TypeOK, SavePublish, Handles, Draws, LoginSteps
        <3> QED BY <1>7, <3>1, PutLocalTouches DEF SavePublish
    <2>3. OwesKept
        BY <1>7, PutLocalTakes DEF TypeOK, SavePublish, Touches
    <2> QED BY <2>1, <2>2, <2>3, <1>a
<1>8. ASSUME NEW t \in Threads, DeleteRow(t) PROVE UnwrittenIsPrivate'
    BY <1>8, <1>b, <1>c, <1>a
    DEF TypeOK, DeleteRow, DeleteAnswered, DeleteFails, Handles, Draws,
        LoginSteps
<1>9. ASSUME NEW t \in Threads, DeleteForget(t) PROVE UnwrittenIsPrivate'
    <2>1. Grows /\ ThreadsKept
        BY <1>9 DEF TypeOK, DeleteForget, Forget, Handles, Draws, LoginSteps
    <2>2. LocalKept
        BY <1>9, <1>b DEF DeleteForget
    <2>3. OwesKept
        BY <1>9 DEF TypeOK, DeleteForget, Forget, Touches, Marks
    <2> QED BY <2>1, <2>2, <2>3, <1>a
<1>10. ASSUME NEW t \in Threads, DeleteLocal(t) PROVE UnwrittenIsPrivate'
    <2>1. Grows /\ ThreadsKept
        BY <1>10 DEF TypeOK, DeleteLocal, DropLocal, Handles, Draws, LoginSteps
    <2>2. LocalKept
        BY <1>10 DEF TypeOK, DeleteLocal, DropLocal, Touches
    <2>3. OwesKept
        BY <1>10, <1>c DEF DeleteLocal
    <2> QED BY <2>1, <2>2, <2>3, <1>a
<1>11. ASSUME NEW t \in Threads, ReplaceRow(t) PROVE UnwrittenIsPrivate'
    BY <1>11, <1>b, <1>c, <1>a
    DEF TypeOK, ReplaceRow, ReplaceRefused, Handles, Draws, LoginSteps
<1>12. ASSUME NEW t \in Threads, ReplaceForget(t) PROVE UnwrittenIsPrivate'
    <2>1. Grows /\ ThreadsKept
        BY <1>12 DEF TypeOK, ReplaceForget, Forget, Handles, Draws, LoginSteps
    <2>2. LocalKept
        BY <1>12, <1>b DEF ReplaceForget
    <2>3. OwesKept
        BY <1>12 DEF TypeOK, ReplaceForget, Forget, Touches, Marks
    <2> QED BY <2>1, <2>2, <2>3, <1>a
<1>13. ASSUME NEW t \in Threads, ReplaceDropOld(t) PROVE UnwrittenIsPrivate'
    <2>1. Grows /\ ThreadsKept
        BY <1>13
        DEF TypeOK, ReplaceDropOld, DropLocal, Handles, Draws, LoginSteps
    <2>2. LocalKept
        BY <1>13 DEF TypeOK, ReplaceDropOld, DropLocal, Touches
    <2>3. OwesKept
        BY <1>13, <1>c DEF ReplaceDropOld
    <2> QED BY <2>1, <2>2, <2>3, <1>a
<1>14. ASSUME NEW t \in Threads, ReplacePublish(t) PROVE UnwrittenIsPrivate'
    <2>1. Grows /\ ThreadsKept
        BY <1>14 DEF TypeOK, ReplacePublish, Handles, Draws, LoginSteps
    <2>2. LocalKept
        <3>1. nid[t] \in Ids /\ Handles(t, nid[t])
            BY <1>14 DEF TypeOK, ReplacePublish, Handles, Draws, LoginSteps
        <3> QED BY <1>14, <3>1, PutLocalTouches DEF ReplacePublish
    <2>3. OwesKept
        BY <1>14, PutLocalTakes DEF TypeOK, ReplacePublish, Touches
    <2> QED BY <2>1, <2>2, <2>3, <1>a
<1>15. ASSUME NEW t \in Threads, ReplaceLocally(t) PROVE UnwrittenIsPrivate'
    BY <1>15, <1>b, <1>c, <1>a
    DEF TypeOK, ReplaceLocally, DeleteAnswered, DeleteFails, ReplaceRefused,
        Handles, Draws, LoginSteps
<1>16. ASSUME NEW t \in Threads, ReplaceLocal(t) PROVE UnwrittenIsPrivate'
    <2>1. Grows /\ ThreadsKept
        BY <1>16
        DEF TypeOK, ReplaceLocal, ReplaceRefused, Handles, Draws, LoginSteps
    <2>2. LocalKept
        BY <1>16
        DEF TypeOK, ReplaceLocal, ReplaceRefused, Touches, Handles, Draws,
            LoginSteps
    <2>3. OwesKept
        BY <1>16, <1>c DEF ReplaceLocal
    <2> QED BY <2>1, <2>2, <2>3, <1>a
<1>17. ASSUME NEW t \in Threads, ReplaceMarkLocal(t) PROVE UnwrittenIsPrivate'
    <2>1. Grows /\ ThreadsKept
        BY <1>17
        DEF TypeOK, ReplaceMarkLocal, Forget, Handles, Draws, LoginSteps
    <2>2. LocalKept
        BY <1>17, <1>b DEF ReplaceMarkLocal
    <2>3. OwesKept
        BY <1>17
        DEF TypeOK, ReplaceMarkLocal, Forget, Touches, Marks, Handles, Draws,
            LoginSteps
    <2> QED BY <2>1, <2>2, <2>3, <1>a
<1>18. ASSUME NEW t \in Threads, NEW id \in Ids, GetSelect(t, id)
      PROVE  UnwrittenIsPrivate'
    BY <1>18, <1>b, <1>c, <1>a
    DEF TypeOK, GetSelect, Handles, Draws, LoginSteps, SeenAreWritten
<1>19. ASSUME NEW t \in Threads, NEW id \in Ids, GetDegraded(t, id)
      PROVE  UnwrittenIsPrivate'
    BY <1>19, <1>b, <1>c, <1>a
    DEF TypeOK, GetDegraded, Handles, Draws, LoginSteps
<1>20. ASSUME NEW t \in Threads, NEW id \in Ids, SaveAdmit(t, id)
      PROVE  UnwrittenIsPrivate'
    <2>1. \A u \in Threads, j \in Ids : Handles(u, j)' =>
              Handles(u, j) \/ (u = t /\ j = id)
        BY <1>20 DEF TypeOK, SaveAdmit, Handles, Draws, LoginSteps
    <2> QED BY <1>20, <2>1, PrivateMints DEF SaveAdmit
<1>21. ASSUME NEW t \in Threads, NEW id \in Ids, ReplaceBegin(t, id)
      PROVE  UnwrittenIsPrivate'
    <2>1. \A u \in Threads, j \in Ids : Handles(u, j)' =>
              Handles(u, j) \/ (u = t /\ j = id)
        BY <1>21 DEF TypeOK, ReplaceBegin, Handles, Draws, LoginSteps
    <2> QED BY <1>21, <2>1, PrivateMints DEF ReplaceBegin
<1>22. ASSUME NEW r \in Replicas, ReapEpoch(r) PROVE UnwrittenIsPrivate'
    BY <1>22, <1>b, <1>c, <1>d, <1>a DEF ReapEpoch
<1>23. ASSUME NEW r \in Replicas, ReapScan(r) PROVE UnwrittenIsPrivate'
    BY <1>23, <1>b, <1>c, <1>d, <1>a DEF ReapScan
<1>24. ASSUME NEW r \in Replicas, ReapScanFails(r) PROVE UnwrittenIsPrivate'
    <2>1. Grows /\ ThreadsKept
        BY <1>24, <1>d DEF ReapScanFails, DropLocal
    <2>2. LocalKept
        BY <1>24 DEF TypeOK, ReapScanFails, DropLocal, Touches
    <2>3. OwesKept
        BY <1>24, <1>c DEF ReapScanFails
    <2> QED BY <2>1, <2>2, <2>3, <1>a
<1>25. ASSUME NEW r \in Replicas, ReapCount(r) PROVE UnwrittenIsPrivate'
    BY <1>25, <1>b, <1>c, <1>d, <1>a DEF ReapCount
<1>26. ASSUME NEW r \in Replicas, RepersistSnapshot(r)
      PROVE  UnwrittenIsPrivate'
    <2>1. Grows /\ ThreadsKept
        BY <1>26, <1>d DEF RepersistSnapshot
    <2>2. LocalKept
        BY <1>26, <1>b DEF RepersistSnapshot
    <2>3. OwesKept
        BY <1>26 DEF TypeOK, RepersistSnapshot, Touches, Marks
    <2> QED BY <2>1, <2>2, <2>3, <1>a
<1>27. ASSUME NEW r \in Replicas, RepersistLock(r) PROVE UnwrittenIsPrivate'
    BY <1>27, <1>b, <1>c, <1>d, <1>a DEF RepersistLock
<1>28. ASSUME NEW r \in Replicas, RepersistUnlock(r) PROVE UnwrittenIsPrivate'
    BY <1>28, <1>b, <1>c, <1>d, <1>a DEF RepersistUnlock
<1>29. ASSUME NEW r \in Replicas, ReapLocal(r) PROVE UnwrittenIsPrivate'
    <2>1. Grows /\ ThreadsKept
        BY <1>29, <1>d DEF ReapLocal, DropLocal
    <2>2. LocalKept
        BY <1>29 DEF TypeOK, ReapLocal, DropLocal, Touches
    <2>3. OwesKept
        BY <1>29, <1>c DEF ReapLocal
    <2> QED BY <2>1, <2>2, <2>3, <1>a
<1>30. ASSUME NEW r \in Replicas, ReapPrune(r) PROVE UnwrittenIsPrivate'
    BY <1>30, <1>b, <1>c, <1>d, <1>a DEF ReapPrune
<1>31. ASSUME NEW r \in Replicas, NEW id \in Ids, RepersistSkip(r, id)
      PROVE  UnwrittenIsPrivate'
    <2>1. Grows /\ ThreadsKept
        BY <1>31, <1>d DEF RepersistSkip, Persisted
    <2>2. LocalKept
        BY <1>31, <1>b DEF RepersistSkip
    <2>3. OwesKept
        BY <1>31 DEF TypeOK, RepersistSkip, Persisted, Touches, Marks
    <2> QED BY <2>1, <2>2, <2>3, <1>a
<1>32a. ASSUME NEW r \in Replicas, NEW id \in Ids, RepersistReserve(r, id)
      PROVE  UnwrittenIsPrivate'
    <2>1. Grows /\ ThreadsKept
        BY <1>32a, <1>d DEF RepersistReserve, Persisted
    <2>2. LocalKept
        BY <1>32a, <1>b DEF RepersistReserve
    <2>3. OwesKept
        BY <1>32a DEF TypeOK, RepersistReserve, Persisted, Touches, Marks
    <2> QED BY <2>1, <2>2, <2>3, <1>a
<1>32. ASSUME NEW r \in Replicas, NEW id \in Ids, RepersistInsert(r, id)
      PROVE  UnwrittenIsPrivate'
    <2>1. Grows /\ ThreadsKept
        BY <1>32, <1>d
        DEF RepersistInsert, InsertCommits, CommitFails, InsertRefused,
            Persisted
    <2>2. LocalKept
        BY <1>32, <1>b DEF RepersistInsert
    <2>3. OwesKept
        BY <1>32
        DEF TypeOK, RepersistInsert, InsertCommits, CommitFails, InsertRefused,
            Persisted, Touches, Marks
    <2> QED BY <2>1, <2>2, <2>3, <1>a
<1>32b. ASSUME NEW r \in Replicas, NEW id \in Ids, RepersistNote(r, id)
      PROVE  UnwrittenIsPrivate'
    <2>1. Grows /\ ThreadsKept
        BY <1>32b, <1>d DEF RepersistNote, Persisted
    <2>2. LocalKept
        BY <1>32b, <1>b DEF RepersistNote
    <2>3. OwesKept
        BY <1>32b DEF TypeOK, RepersistNote, Persisted, Touches, Marks
    <2> QED BY <2>1, <2>2, <2>3, <1>a
<1>33. ASSUME NEW r \in Replicas, NEW id \in Ids, BuryForget(r, id)
      PROVE  UnwrittenIsPrivate'
    <2>1. Grows /\ ThreadsKept
        BY <1>33, <1>d DEF BuryForget, Forget
    <2>2. LocalKept
        BY <1>33, <1>b DEF BuryForget
    <2>3. OwesKept
        BY <1>33 DEF TypeOK, BuryForget, Forget, Touches, Marks
    <2> QED BY <2>1, <2>2, <2>3, <1>a
<1>34. ASSUME NEW r \in Replicas, NEW id \in Ids, BuryRow(r, id)
      PROVE  UnwrittenIsPrivate'
    BY <1>34, <1>b, <1>c, <1>d, <1>a DEF BuryRow, DeleteAnswered, DeleteFails
<1>35. ASSUME NEW r \in Replicas, NEW id \in Ids, Abandon(r, id)
      PROVE  UnwrittenIsPrivate'
    BY <1>35, <1>b, <1>c, <1>d, <1>a DEF Abandon
<1>36. ASSUME NEW r \in Replicas, NEW id \in Ids, AbandonRow(r, id)
      PROVE  UnwrittenIsPrivate'
    BY <1>36, <1>b, <1>c, <1>d, <1>a
    DEF AbandonRow, DeleteAnswered, DeleteFails
<1>37. ASSUME NEW r \in Replicas, Restart(r) PROVE UnwrittenIsPrivate'
    <2>1. Grows /\ ThreadsKept
        BY <1>37 DEF TypeOK, Restart, Handles, Draws, LoginSteps
    <2>2. LocalKept
        BY <1>37 DEF TypeOK, Restart, Touches
    <2>3. OwesKept
        BY <1>37 DEF TypeOK, Restart, Touches, Marks
    <2> QED BY <2>1, <2>2, <2>3, <1>a
<1>38. CASE UNCHANGED vars
    <2>1. Grows /\ ThreadsKept /\ LocalKept /\ OwesKept
        BY <1>38, <1>b, <1>c, <1>d DEF vars
    <2> QED BY <2>1, <1>a
<1> QED
    BY <1>1, <1>2, <1>3, <1>4, <1>5, <1>6, <1>7, <1>8, <1>9, <1>10, <1>11,
       <1>12, <1>13, <1>14, <1>15, <1>16, <1>17, <1>18, <1>19, <1>20,
       <1>21, <1>22, <1>23, <1>24, <1>25, <1>26, <1>27, <1>28, <1>29,
       <1>30, <1>31, <1>32a, <1>32, <1>32b, <1>33, <1>34, <1>35, <1>36, <1>37, <1>38
    DEF Next, ThreadStep, Request, ReaperStep

-----------------------------------------------------------------------------
(***************************************************************************)
(* Logins.  While storage answers, an id that a login has won has no row   *)
(* and is nowhere a second login could win it: this is the invariant that  *)
(* SingleWinner needs.  A session that was never written is won under the  *)
(* admission mutex of the one replica that knows it, and one that was      *)
(* written is won by the one transaction that removes its row.             *)
(***************************************************************************)

\* Nobody has ended an id that is not published: a sweep may have removed its
\* row, so it has had one.
DrawnUnended ==
    /\ ended \cup won \subseteq minted
    /\ \A t \in Threads, id \in Ids : Draws(t, id) =>
          id \notin won /\ (id \in ended => id \in stored)

\* A request whose session has had no row holds the pointer the local store
\* holds: the session cannot have been dropped and adopted anew.
StillHeld ==
    \A t \in Threads :
        /\ pc[t] \in {"loaded", "swapRow", "swapLocalRow", "swapLocal"}
        /\ sid[t] \in local[Home[t]] \ stored
        => t \in held

\* A session that was ended keeps no mark that its row is still to be written,
\* but for the request that ended it and is about to forget the mark, and for the
\* sweep that has just written the row.
Owed(r) == unpersisted[r] \ Noting(r)
EndedUnmarked ==
    \A r \in Replicas : \A id \in ended \cap Owed(r) \cap local[r] :
        \E t \in Threads : /\ Home[t] = r /\ sid[t] = id
                           /\ pc[t] \in {"forget", "swapLocal"}

\* The steps that end no drawn id.
LEMMA UnendedKept ==
    ASSUME DrawnUnended, minted \subseteq minted', stored \subseteq stored',
           ended' \cup won' \subseteq minted',
           \A t \in Threads, j \in Ids : Draws(t, j)' =>
               \/ j \notin minted
               \/ /\ Draws(t, j)
                  /\ j \in won' => j \in won
                  /\ j \in ended' => j \in ended \/ j \in stored,
           \A j \in Ids \ minted : j \notin ended' \cup won'
    PROVE  DrawnUnended'
BY DEF DrawnUnended

\* Delete, Replace and Reap end sessions a browser has been given, or rows.
LEMMA DrawnUnendedStep ==
    ASSUME TypeOK, SeenAreWritten, DrawnOnce, DrawnUnended, [Next]_vars
    PROVE  DrawnUnended'
<1> USE ConstantsAssumption
    DEF dbVars, endVars, envVars, threadVars, reaperVars, Goto, Finish
<1> DEFINE DrawsKept ==
        \A t \in Threads, j \in Ids : Draws(t, j)' =>
            Draws(t, j) \/ (j \notin minted /\ j \in minted')
           EndsUndrawn ==
        \A j \in ended' \ ended :
            \/ j \in stored
            \/ \E t \in Threads : pc[t] # "idle" /\ sid[t] = j /\ ~Draws(t, j)
           WinsUndrawn ==
        \A j \in won' \ won :
            \E t \in Threads : pc[t] # "idle" /\ sid[t] = j /\ ~Draws(t, j)
           Grows == minted \subseteq minted' /\ stored \subseteq stored'
<1>a. ASSUME Grows, DrawsKept, EndsUndrawn, WinsUndrawn PROVE DrawnUnended'
    <2>1. ended' \cup won' \subseteq minted
        BY <1>a DEF DrawnOnce, DrawnUnended
    <2>2. \A j \in Ids, t \in Threads : Draws(t, j) =>
              /\ j \in won' => j \in won
              /\ j \in ended' => j \in ended \/ j \in stored
        BY <1>a DEF DrawnOnce
    <2> QED BY <1>a, <2>1, <2>2, UnendedKept
<1>b. ASSUME UNCHANGED <<pc, sid, nid>> PROVE DrawsKept
    BY <1>b DEF Draws
<1>c. ASSUME ended' = ended PROVE EndsUndrawn
    BY <1>c
<1>d. ASSUME won' = won PROVE WinsUndrawn
    BY <1>d
<1>1. ASSUME NEW t \in Threads, GetMissing(t) PROVE DrawnUnended'
    BY <1>1, <1>c, <1>d, <1>a DEF GetMissing, TypeOK, Draws, LoginSteps
<1>2. ASSUME NEW t \in Threads, GetLocal(t) PROVE DrawnUnended'
    BY <1>2, <1>c, <1>d, <1>a DEF GetLocal, TypeOK, Draws, LoginSteps
<1>3. ASSUME NEW t \in Threads, GetAdopt(t) PROVE DrawnUnended'
    BY <1>3, <1>c, <1>d, <1>a DEF GetAdopt, TypeOK, Draws, LoginSteps
<1>4. ASSUME NEW t \in Threads, Respond(t) PROVE DrawnUnended'
    BY <1>4, <1>c, <1>d, <1>a DEF Respond, TypeOK, Draws, LoginSteps
<1>5. ASSUME NEW t \in Threads, SaveInsert(t) PROVE DrawnUnended'
    BY <1>5, <1>c, <1>d, <1>a
    DEF SaveInsert, InsertCommits, CommitFails, InsertRefused, TypeOK, Draws,
        LoginSteps
<1>6. ASSUME NEW t \in Threads, SaveFail(t) PROVE DrawnUnended'
    BY <1>6, <1>c, <1>d, <1>a DEF SaveFail, TypeOK, Draws, LoginSteps
<1>7. ASSUME NEW t \in Threads, SavePublish(t) PROVE DrawnUnended'
    BY <1>7, <1>c, <1>d, <1>a DEF SavePublish, TypeOK, Draws, LoginSteps
<1>8. ASSUME NEW t \in Threads, DeleteRow(t) PROVE DrawnUnended'
    <2>1. Grows /\ DrawsKept
        BY <1>8
        DEF DeleteRow, DeleteAnswered, DeleteFails, TypeOK, Draws, LoginSteps
    <2>2. ~Draws(t, sid[t])
        BY <1>8 DEF DeleteRow, Draws, LoginSteps
    <2>3. EndsUndrawn
        BY <1>8, <2>2 DEF DeleteRow, DeleteAnswered, DeleteFails, EndIfGone
    <2>4. WinsUndrawn
        BY <1>8, <1>d DEF DeleteRow
    <2> QED BY <2>1, <2>3, <2>4, <1>a
<1>9. ASSUME NEW t \in Threads, DeleteForget(t) PROVE DrawnUnended'
    BY <1>9, <1>c, <1>d, <1>a DEF DeleteForget, TypeOK, Draws, LoginSteps
<1>10. ASSUME NEW t \in Threads, DeleteLocal(t) PROVE DrawnUnended'
    BY <1>10, <1>c, <1>d, <1>a DEF DeleteLocal, TypeOK, Draws, LoginSteps
<1>11. ASSUME NEW t \in Threads, ReplaceRow(t) PROVE DrawnUnended'
    <2>1. Grows /\ DrawsKept
        BY <1>11 DEF ReplaceRow, ReplaceRefused, TypeOK, Draws, LoginSteps
    <2>2. ~Draws(t, sid[t])
        BY <1>11 DEF ReplaceRow, DrawnOnce, TypeOK, Draws, LoginSteps
    <2>3. EndsUndrawn
        BY <1>11, <2>2 DEF ReplaceRow, ReplaceRefused, EndIfGone
    <2>4. WinsUndrawn
        BY <1>11, <2>2 DEF ReplaceRow, ReplaceRefused
    <2> QED BY <2>1, <2>3, <2>4, <1>a
<1>12. ASSUME NEW t \in Threads, ReplaceForget(t) PROVE DrawnUnended'
    BY <1>12, <1>c, <1>d, <1>a DEF ReplaceForget, TypeOK, Draws, LoginSteps
<1>13. ASSUME NEW t \in Threads, ReplaceDropOld(t) PROVE DrawnUnended'
    BY <1>13, <1>c, <1>d, <1>a DEF ReplaceDropOld, TypeOK, Draws, LoginSteps
<1>14. ASSUME NEW t \in Threads, ReplacePublish(t) PROVE DrawnUnended'
    BY <1>14, <1>c, <1>d, <1>a DEF ReplacePublish, TypeOK, Draws, LoginSteps
<1>15. ASSUME NEW t \in Threads, ReplaceLocally(t) PROVE DrawnUnended'
    <2>1. Grows /\ DrawsKept
        BY <1>15
        DEF ReplaceLocally, DeleteAnswered, DeleteFails, ReplaceRefused,
            TypeOK, Draws, LoginSteps
    <2>2. ~Draws(t, sid[t])
        BY <1>15 DEF ReplaceLocally, DrawnOnce, TypeOK, Draws, LoginSteps
    <2>3. EndsUndrawn
        BY <1>15, <2>2
        DEF ReplaceLocally, DeleteAnswered, DeleteFails, ReplaceRefused,
            EndIfGone
    <2>4. WinsUndrawn
        BY <1>15, <1>d DEF ReplaceLocally
    <2> QED BY <2>1, <2>3, <2>4, <1>a
<1>16. ASSUME NEW t \in Threads, ReplaceLocal(t) PROVE DrawnUnended'
    <2>1. Grows /\ DrawsKept
        BY <1>16 DEF ReplaceLocal, ReplaceRefused, TypeOK, Draws, LoginSteps
    <2>2. ~Draws(t, sid[t])
        BY <1>16 DEF ReplaceLocal, DrawnOnce, TypeOK, Draws, LoginSteps
    <2>3. EndsUndrawn
        BY <1>16, <2>2 DEF ReplaceLocal, ReplaceRefused, EndIfGone
    <2>4. WinsUndrawn
        BY <1>16, <2>2 DEF ReplaceLocal, ReplaceRefused
    <2> QED BY <2>1, <2>3, <2>4, <1>a
<1>17. ASSUME NEW t \in Threads, ReplaceMarkLocal(t) PROVE DrawnUnended'
    BY <1>17, <1>c, <1>d, <1>a DEF ReplaceMarkLocal, TypeOK, Draws, LoginSteps
<1>18. ASSUME NEW t \in Threads, NEW id \in Ids, GetSelect(t, id)
      PROVE  DrawnUnended'
    BY <1>18, <1>c, <1>d, <1>a DEF GetSelect, TypeOK, Draws, LoginSteps
<1>19. ASSUME NEW t \in Threads, NEW id \in Ids, GetDegraded(t, id)
      PROVE  DrawnUnended'
    BY <1>19, <1>c, <1>d, <1>a DEF GetDegraded, TypeOK, Draws, LoginSteps
<1>20. ASSUME NEW t \in Threads, NEW id \in Ids, SaveAdmit(t, id)
      PROVE  DrawnUnended'
    BY <1>20, <1>c, <1>d, <1>a DEF SaveAdmit, TypeOK, Draws, LoginSteps
<1>21. ASSUME NEW t \in Threads, NEW id \in Ids, ReplaceBegin(t, id)
      PROVE  DrawnUnended'
    BY <1>21, <1>c, <1>d, <1>a DEF ReplaceBegin, TypeOK, Draws, LoginSteps
<1>22. ASSUME NEW r \in Replicas, ReapEpoch(r) PROVE DrawnUnended'
    BY <1>22, <1>b, <1>c, <1>d, <1>a DEF ReapEpoch
<1>23. ASSUME NEW r \in Replicas, ReapScan(r) PROVE DrawnUnended'
    BY <1>23, <1>b, <1>c, <1>d, <1>a DEF ReapScan
<1>24. ASSUME NEW r \in Replicas, ReapScanFails(r) PROVE DrawnUnended'
    BY <1>24, <1>b, <1>c, <1>d, <1>a DEF ReapScanFails
<1>25. ASSUME NEW r \in Replicas, ReapCount(r) PROVE DrawnUnended'
    BY <1>25, <1>b, <1>c, <1>d, <1>a DEF ReapCount
<1>26. ASSUME NEW r \in Replicas, RepersistSnapshot(r) PROVE DrawnUnended'
    BY <1>26, <1>b, <1>c, <1>d, <1>a DEF RepersistSnapshot
<1>27. ASSUME NEW r \in Replicas, RepersistLock(r) PROVE DrawnUnended'
    BY <1>27, <1>b, <1>c, <1>d, <1>a DEF RepersistLock
<1>28. ASSUME NEW r \in Replicas, RepersistUnlock(r) PROVE DrawnUnended'
    BY <1>28, <1>b, <1>c, <1>d, <1>a DEF RepersistUnlock
<1>29. ASSUME NEW r \in Replicas, ReapLocal(r) PROVE DrawnUnended'
    BY <1>29, <1>b, <1>c, <1>d, <1>a DEF ReapLocal
<1>30. ASSUME NEW r \in Replicas, ReapPrune(r) PROVE DrawnUnended'
    BY <1>30, <1>b, <1>c, <1>d, <1>a DEF ReapPrune
<1>31. ASSUME NEW r \in Replicas, NEW id \in Ids, RepersistSkip(r, id)
      PROVE  DrawnUnended'
    BY <1>31, <1>b, <1>c, <1>d, <1>a DEF RepersistSkip
<1>32a. ASSUME NEW r \in Replicas, NEW id \in Ids, RepersistReserve(r, id)
      PROVE  DrawnUnended'
    BY <1>32a, <1>b, <1>c, <1>d, <1>a DEF RepersistReserve
<1>32. ASSUME NEW r \in Replicas, NEW id \in Ids, RepersistInsert(r, id)
      PROVE  DrawnUnended'
    BY <1>32, <1>b, <1>c, <1>d, <1>a
    DEF RepersistInsert, InsertCommits, CommitFails, InsertRefused
<1>32b. ASSUME NEW r \in Replicas, NEW id \in Ids, RepersistNote(r, id)
      PROVE  DrawnUnended'
    BY <1>32b, <1>b, <1>c, <1>d, <1>a DEF RepersistNote
<1>33. ASSUME NEW r \in Replicas, NEW id \in Ids, BuryForget(r, id)
      PROVE  DrawnUnended'
    BY <1>33, <1>b, <1>c, <1>d, <1>a DEF BuryForget
<1>34. ASSUME NEW r \in Replicas, NEW id \in Ids, BuryRow(r, id)
      PROVE  DrawnUnended'
    <2>1. Grows /\ DrawsKept
        BY <1>34, <1>b DEF BuryRow, DeleteAnswered, DeleteFails
    <2>3. EndsUndrawn
        BY <1>34
        DEF BuryRow, DeleteAnswered, DeleteFails, EndIfGone, SeenAreWritten
    <2>4. WinsUndrawn
        BY <1>34, <1>d DEF BuryRow
    <2> QED BY <2>1, <2>3, <2>4, <1>a
<1>35. ASSUME NEW r \in Replicas, NEW id \in Ids, Abandon(r, id)
      PROVE  DrawnUnended'
    BY <1>35, <1>b, <1>c, <1>d, <1>a DEF Abandon
<1>36. ASSUME NEW r \in Replicas, NEW id \in Ids, AbandonRow(r, id)
      PROVE  DrawnUnended'
    <2>1. Grows /\ DrawsKept
        BY <1>36, <1>b DEF AbandonRow, DeleteAnswered, DeleteFails
    <2>3. EndsUndrawn
        BY <1>36
        DEF AbandonRow, DeleteAnswered, DeleteFails, EndIfGone, SeenAreWritten
    <2>4. WinsUndrawn
        BY <1>36, <1>d DEF AbandonRow
    <2> QED BY <2>1, <2>3, <2>4, <1>a
<1>37. ASSUME NEW r \in Replicas, Restart(r) PROVE DrawnUnended'
    BY <1>37, <1>c, <1>d, <1>a DEF Restart, TypeOK, Draws, LoginSteps
<1>38. CASE UNCHANGED vars
    <2>1. Grows /\ DrawsKept /\ EndsUndrawn /\ WinsUndrawn
        BY <1>38, <1>b, <1>c, <1>d DEF vars
    <2> QED BY <2>1, <1>a
<1> QED
    BY <1>1, <1>2, <1>3, <1>4, <1>5, <1>6, <1>7, <1>8, <1>9, <1>10, <1>11,
       <1>12, <1>13, <1>14, <1>15, <1>16, <1>17, <1>18, <1>19, <1>20,
       <1>21, <1>22, <1>23, <1>24, <1>25, <1>26, <1>27, <1>28, <1>29,
       <1>30, <1>31, <1>32a, <1>32, <1>32b, <1>33, <1>34, <1>35, <1>36, <1>37, <1>38
    DEF Next, ThreadStep, Request, ReaperStep

\* memStore.Delete and Reap take the pointer from those alone whose session
\* they drop.
LEMMA DropLocalHeld ==
    ASSUME TypeOK, NEW r \in Replicas, NEW S, DropLocal(r, S),
           NEW u \in Threads, sid[u] \in local'[Home[u]]
    PROVE  sid[u] \in local[Home[u]] /\ (u \in held => u \in held')
BY ConstantsAssumption DEF DropLocal, Displaced, TypeOK

\* memStore.Save with its eviction hook does the same.
LEMMA PutLocalHeld ==
    ASSUME TypeOK, NEW r \in Replicas, NEW id, NEW T, PutLocal(r, id, T),
           NEW u \in Threads, sid[u] # id \/ Home[u] # r,
           sid[u] \in local'[Home[u]]
    PROVE  sid[u] \in local[Home[u]] /\ (u \in held => u \in held')
<1> USE ConstantsAssumption DEF Displaced, TypeOK
<1>1. CASE /\ local' = [local EXCEPT ![r] = @ \cup {id}]
           /\ held' = (held \ Displaced(r, {id})) \cup T
    BY <1>1
<1>2. ASSUME NEW victim \in local[r],
             local' = [local EXCEPT ![r] = (@ \ {victim}) \cup {id}],
             held' = (held \ Displaced(r, {id, victim})) \cup T
      PROVE  sid[u] \in local[Home[u]] /\ (u \in held => u \in held')
    BY <1>2
<1> QED BY <1>1, <1>2 DEF PutLocal

\* The steps of a request that has loaded its session and not yet ended it.
HeldSteps == {"loaded", "swapRow", "swapLocalRow", "swapLocal"}

\* The steps that leave the pointers of other requests alone.
LEMMA StillHeldKept ==
    ASSUME StillHeld, stored \subseteq stored',
           \A u \in Threads :
               pc'[u] \in HeldSteps /\ sid'[u] \in local'[Home[u]] \ stored' =>
                   \/ u \in held'
                   \/ /\ pc[u] \in HeldSteps /\ sid'[u] = sid[u]
                      /\ sid[u] \in local[Home[u]]
                      /\ u \in held => u \in held'
    PROVE  StillHeld'
BY DEF StillHeld, HeldSteps

\* A session without a row enters the local store once, before any request has
\* loaded it, so no step replaces the pointer a request holds.
LEMMA StillHeldStep ==
    ASSUME TypeOK, SeenAreWritten, DrawnOnce, StillHeld, [Next]_vars
    PROVE  StillHeld'
<1> USE ConstantsAssumption
    DEF dbVars, threadVars, Goto, Finish
<1> DEFINE Keeps ==
        /\ stored \subseteq stored'
        /\ \A u \in Threads :
               pc'[u] \in HeldSteps /\ sid'[u] \in local'[Home[u]] \ stored' =>
                   \/ u \in held'
                   \/ /\ pc[u] \in HeldSteps /\ sid'[u] = sid[u]
                      /\ sid[u] \in local[Home[u]]
                      /\ u \in held => u \in held'
<1>a. ASSUME Keeps PROVE StillHeld'
    BY <1>a, StillHeldKept
<1>1. ASSUME NEW t \in Threads, GetMissing(t) PROVE StillHeld'
    BY <1>1, <1>a DEF GetMissing, TypeOK, HeldSteps
<1>2. ASSUME NEW t \in Threads, GetLocal(t) PROVE StillHeld'
    BY <1>2, <1>a DEF GetLocal, TypeOK, HeldSteps
<1>3. ASSUME NEW t \in Threads, GetAdopt(t) PROVE StillHeld'
    <2>1. sid[t] \in stored
        BY <1>3 DEF GetAdopt, SeenAreWritten
    <2>2. Keeps
        BY <1>3, <2>1, PutLocalHeld DEF GetAdopt, TypeOK, HeldSteps
    <2> QED BY <2>2, <1>a
<1>4. ASSUME NEW t \in Threads, Respond(t) PROVE StillHeld'
    BY <1>4, <1>a DEF Respond, TypeOK, HeldSteps
<1>5. ASSUME NEW t \in Threads, SaveInsert(t) PROVE StillHeld'
    BY <1>5, <1>a
    DEF SaveInsert, InsertCommits, CommitFails, InsertRefused, TypeOK,
        HeldSteps
<1>6. ASSUME NEW t \in Threads, SaveFail(t) PROVE StillHeld'
    BY <1>6, <1>a DEF SaveFail, TypeOK, HeldSteps
<1>7. ASSUME NEW t \in Threads, SavePublish(t) PROVE StillHeld'
    <2>1. Draws(t, sid[t]) /\ sid[t] \in Ids
        BY <1>7 DEF SavePublish, Draws, TypeOK, LoginSteps
    <2>2. \A u \in Threads : u # t => pc[u] = "idle" \/ sid[u] # sid[t]
        BY <2>1 DEF DrawnOnce
    <2>3. Keeps
        BY <1>7, <2>2, PutLocalHeld DEF SavePublish, TypeOK, HeldSteps
    <2> QED BY <2>3, <1>a
<1>8. ASSUME NEW t \in Threads, DeleteRow(t) PROVE StillHeld'
    BY <1>8, <1>a DEF DeleteRow, DeleteAnswered, DeleteFails, TypeOK, HeldSteps
<1>9. ASSUME NEW t \in Threads, DeleteForget(t) PROVE StillHeld'
    BY <1>9, <1>a DEF DeleteForget, TypeOK, HeldSteps
<1>10. ASSUME NEW t \in Threads, DeleteLocal(t) PROVE StillHeld'
    <2>1. Keeps
        BY <1>10, DropLocalHeld DEF DeleteLocal, TypeOK, HeldSteps
    <2> QED BY <2>1, <1>a
<1>11. ASSUME NEW t \in Threads, ReplaceRow(t) PROVE StillHeld'
    BY <1>11, <1>a DEF ReplaceRow, ReplaceRefused, TypeOK, HeldSteps
<1>12. ASSUME NEW t \in Threads, ReplaceForget(t) PROVE StillHeld'
    BY <1>12, <1>a DEF ReplaceForget, TypeOK, HeldSteps
<1>13. ASSUME NEW t \in Threads, ReplaceDropOld(t) PROVE StillHeld'
    <2>1. Keeps
        BY <1>13, DropLocalHeld DEF ReplaceDropOld, TypeOK, HeldSteps
    <2> QED BY <2>1, <1>a
<1>14. ASSUME NEW t \in Threads, ReplacePublish(t) PROVE StillHeld'
    <2>1. Draws(t, nid[t]) /\ nid[t] \in Ids
        BY <1>14 DEF ReplacePublish, Draws, TypeOK, LoginSteps
    <2>2. \A u \in Threads : u # t => pc[u] = "idle" \/ sid[u] # nid[t]
        BY <2>1 DEF DrawnOnce
    <2>3. Keeps
        BY <1>14, <2>2, PutLocalHeld DEF ReplacePublish, TypeOK, HeldSteps
    <2> QED BY <2>3, <1>a
<1>15. ASSUME NEW t \in Threads, ReplaceLocally(t) PROVE StillHeld'
    BY <1>15, <1>a
    DEF ReplaceLocally, DeleteAnswered, DeleteFails, ReplaceRefused, TypeOK,
        HeldSteps
<1>16. ASSUME NEW t \in Threads, ReplaceLocal(t) PROVE StillHeld'
    <2>1. Draws(t, nid[t]) /\ nid[t] \in Ids
        BY <1>16 DEF ReplaceLocal, Draws, TypeOK, LoginSteps
    <2>2. \A u \in Threads : pc[u] = "idle" \/ sid[u] # nid[t]
        BY <1>16, <2>1 DEF DrawnOnce, LoginSteps, ReplaceLocal
    <2>3. Keeps
        BY <1>16, <2>2
        DEF ReplaceLocal, ReplaceRefused, Displaced, TypeOK, HeldSteps
    <2> QED BY <2>3, <1>a
<1>17. ASSUME NEW t \in Threads, ReplaceMarkLocal(t) PROVE StillHeld'
    BY <1>17, <1>a DEF ReplaceMarkLocal, TypeOK, HeldSteps
<1>18. ASSUME NEW t \in Threads, NEW id \in Ids, GetSelect(t, id)
      PROVE  StillHeld'
    BY <1>18, <1>a DEF GetSelect, TypeOK, HeldSteps
<1>19. ASSUME NEW t \in Threads, NEW id \in Ids, GetDegraded(t, id)
      PROVE  StillHeld'
    BY <1>19, <1>a DEF GetDegraded, TypeOK, HeldSteps
<1>20. ASSUME NEW t \in Threads, NEW id \in Ids, SaveAdmit(t, id)
      PROVE  StillHeld'
    BY <1>20, <1>a DEF SaveAdmit, TypeOK, HeldSteps
<1>21. ASSUME NEW t \in Threads, NEW id \in Ids, ReplaceBegin(t, id)
      PROVE  StillHeld'
    BY <1>21, <1>a DEF ReplaceBegin, TypeOK, HeldSteps
<1>22. ASSUME NEW r \in Replicas, ReapEpoch(r) PROVE StillHeld'
    BY <1>22, <1>a DEF ReapEpoch, TypeOK, HeldSteps
<1>23. ASSUME NEW r \in Replicas, ReapScan(r) PROVE StillHeld'
    BY <1>23, <1>a DEF ReapScan, TypeOK, HeldSteps
<1>24. ASSUME NEW r \in Replicas, ReapScanFails(r) PROVE StillHeld'
    <2>1. PICK S : DropLocal(r, S)
        BY <1>24 DEF ReapScanFails
    <2>2. Keeps
        BY <1>24, <2>1, DropLocalHeld DEF ReapScanFails, TypeOK, HeldSteps
    <2> QED BY <2>2, <1>a
<1>25. ASSUME NEW r \in Replicas, ReapCount(r) PROVE StillHeld'
    BY <1>25, <1>a DEF ReapCount, TypeOK, HeldSteps
<1>26. ASSUME NEW r \in Replicas, RepersistSnapshot(r) PROVE StillHeld'
    BY <1>26, <1>a DEF RepersistSnapshot, TypeOK, HeldSteps
<1>27. ASSUME NEW r \in Replicas, RepersistLock(r) PROVE StillHeld'
    BY <1>27, <1>a DEF RepersistLock, TypeOK, HeldSteps
<1>28. ASSUME NEW r \in Replicas, RepersistUnlock(r) PROVE StillHeld'
    BY <1>28, <1>a DEF RepersistUnlock, TypeOK, HeldSteps
<1>29. ASSUME NEW r \in Replicas, ReapLocal(r) PROVE StillHeld'
    <2>1. PICK S : DropLocal(r, S)
        BY <1>29 DEF ReapLocal
    <2>2. Keeps
        BY <1>29, <2>1, DropLocalHeld DEF ReapLocal, TypeOK, HeldSteps
    <2> QED BY <2>2, <1>a
<1>30. ASSUME NEW r \in Replicas, ReapPrune(r) PROVE StillHeld'
    BY <1>30, <1>a DEF ReapPrune, TypeOK, HeldSteps
<1>31. ASSUME NEW r \in Replicas, NEW id \in Ids, RepersistSkip(r, id)
      PROVE  StillHeld'
    BY <1>31, <1>a DEF RepersistSkip, TypeOK, HeldSteps
<1>32a. ASSUME NEW r \in Replicas, NEW id \in Ids, RepersistReserve(r, id)
      PROVE  StillHeld'
    BY <1>32a, <1>a DEF RepersistReserve, TypeOK, HeldSteps
<1>32. ASSUME NEW r \in Replicas, NEW id \in Ids, RepersistInsert(r, id)
      PROVE  StillHeld'
    BY <1>32, <1>a
    DEF RepersistInsert, InsertCommits, CommitFails, InsertRefused, TypeOK,
        HeldSteps
<1>32b. ASSUME NEW r \in Replicas, NEW id \in Ids, RepersistNote(r, id)
      PROVE  StillHeld'
    BY <1>32b, <1>a DEF RepersistNote, TypeOK, HeldSteps
<1>33. ASSUME NEW r \in Replicas, NEW id \in Ids, BuryForget(r, id)
      PROVE  StillHeld'
    BY <1>33, <1>a DEF BuryForget, TypeOK, HeldSteps
<1>34. ASSUME NEW r \in Replicas, NEW id \in Ids, BuryRow(r, id)
      PROVE  StillHeld'
    BY <1>34, <1>a DEF BuryRow, DeleteAnswered, DeleteFails, TypeOK, HeldSteps
<1>35. ASSUME NEW r \in Replicas, NEW id \in Ids, Abandon(r, id)
      PROVE  StillHeld'
    BY <1>35, <1>a DEF Abandon, TypeOK, HeldSteps
<1>36. ASSUME NEW r \in Replicas, NEW id \in Ids, AbandonRow(r, id)
      PROVE  StillHeld'
    BY <1>36, <1>a
    DEF AbandonRow, DeleteAnswered, DeleteFails, TypeOK, HeldSteps
<1>37. ASSUME NEW r \in Replicas, Restart(r) PROVE StillHeld'
    BY <1>37, <1>a DEF Restart, TypeOK, HeldSteps
<1>38. CASE UNCHANGED vars
    <2>1. Keeps
        BY <1>38 DEF vars
    <2> QED BY <2>1, <1>a
<1> QED
    BY <1>1, <1>2, <1>3, <1>4, <1>5, <1>6, <1>7, <1>8, <1>9, <1>10, <1>11,
       <1>12, <1>13, <1>14, <1>15, <1>16, <1>17, <1>18, <1>19, <1>20,
       <1>21, <1>22, <1>23, <1>24, <1>25, <1>26, <1>27, <1>28, <1>29,
       <1>30, <1>31, <1>32a, <1>32, <1>32b, <1>33, <1>34, <1>35, <1>36, <1>37, <1>38
    DEF Next, ThreadStep, Request, ReaperStep

\* memStore.Save adds one session, and its eviction hook only takes marks away.
LEMMA PutLocalAdds ==
    ASSUME TypeOK, NEW r \in Replicas, NEW id, NEW T, PutLocal(r, id, T)
    PROVE  \A q \in Replicas :
               /\ \A j \in local'[q] : j \in local[q] \/ (q = r /\ j = id)
               /\ unpersisted'[q] \subseteq unpersisted[q]
<1>1. CASE /\ local' = [local EXCEPT ![r] = @ \cup {id}]
           /\ UNCHANGED markVars
    BY <1>1 DEF TypeOK, markVars
<1>2. ASSUME NEW victim \in local[r],
             local' = [local EXCEPT ![r] = (@ \ {victim}) \cup {id}],
             Forget(r, victim, {})
      PROVE  \A q \in Replicas :
               /\ \A j \in local'[q] : j \in local[q] \/ (q = r /\ j = id)
               /\ unpersisted'[q] \subseteq unpersisted[q]
    BY <1>2 DEF TypeOK, Forget
<1> QED BY <1>1, <1>2 DEF PutLocal

\* An id this replica still owes a row to is unknown to the others.
LEMMA OwedAreOurs ==
    ASSUME OneWriter, UnwrittenIsPrivate, NEW q \in Replicas, NEW j \in Ids,
           Owes(q, j)
    PROVE  /\ j \notin stored
           /\ \A r \in Replicas : Touches(r, j) => r = q
           /\ \A t \in Threads :
                  /\ Home[t] \in Replicas
                  /\ pc[t] \notin {"idle", "missing"} /\ sid[t] = j
                  => Home[t] = q
<1>1. j \notin stored
    BY DEF OneWriter
<1>2. \A r \in Replicas : Touches(r, j) => r = q
    BY <1>1 DEF UnwrittenIsPrivate, Touches, Marks, Owes
<1> QED BY <1>1, <1>2 DEF Touches, Handles

\* What is known of an id nobody but its request has seen.
LEMMA DrawnAreNew ==
    ASSUME DrawnOnce, DrawnUnended, NEW t \in Threads, NEW j \in Ids, Draws(t, j)
    PROVE  /\ j \notin won
           /\ j \in ended => j \in stored
           /\ \A u \in Threads : u # t => pc[u] = "idle" \/ sid[u] # j
           /\ pc[t] \in LoginSteps => sid[t] # j
BY DEF DrawnOnce, DrawnUnended

\* The steps of a request that has ended a session and not yet forgotten it.
EndSteps == {"forget", "swapLocal"}

\* The steps that end no marked session and let no request off.
LEMMA EndedUnmarkedKept ==
    ASSUME EndedUnmarked,
           \A q \in Replicas, j \in Ids :
              /\ j \in ended' \cap Owed(q)' \cap local'[q]
              => \/ \E t \in Threads : /\ Home[t] = q /\ sid'[t] = j
                                       /\ pc'[t] \in EndSteps
                 \/ /\ j \in ended \cap Owed(q) \cap local[q]
                    /\ \A t \in Threads :
                          /\ Home[t] = q /\ sid[t] = j /\ pc[t] \in EndSteps
                          => sid'[t] = j /\ pc'[t] \in EndSteps,
           TypeOK'
    PROVE  EndedUnmarked'
<1>1. ASSUME NEW q \in Replicas, NEW j \in ended' \cap Owed(q)' \cap local'[q]
      PROVE  \E t \in Threads : Home[t] = q /\ sid'[t] = j /\ pc'[t] \in EndSteps
    <2>1. j \in Ids
        BY <1>1 DEF TypeOK
    <2>2. CASE /\ j \in ended \cap Owed(q) \cap local[q]
               /\ \A t \in Threads :
                          /\ Home[t] = q /\ sid[t] = j /\ pc[t] \in EndSteps
                          => sid'[t] = j /\ pc'[t] \in EndSteps
        <3>1. PICK t \in Threads : Home[t] = q /\ sid[t] = j /\ pc[t] \in EndSteps
            BY <2>2 DEF EndedUnmarked, EndSteps
        <3> QED BY <2>2, <3>1
    <2> QED BY <1>1, <2>1, <2>2
<1> QED BY <1>1 DEF EndedUnmarked, EndSteps

\* Delete and Replace forget the mark of the session they have ended before the
\* mutex is free, and nothing marks it again.
LEMMA EndedUnmarkedStep ==
    ASSUME TypeOK, TypeOK', OneWriter, SeenAreWritten, UnwrittenIsPrivate,
           DrawnOnce, DrawnUnended, StillHeld, EndedUnmarked,
           faults' = 0, [Next]_vars
    PROVE  EndedUnmarked'
<1> USE ConstantsAssumption
    DEF dbVars, markVars, endVars, threadVars, reaperVars, Goto, RGoto, Finish, Owed,
        Noting
<1> DEFINE Keeps ==
        \A q \in Replicas, j \in Ids :
              /\ j \in ended' \cap Owed(q)' \cap local'[q]
              => \/ \E t \in Threads : /\ Home[t] = q /\ sid'[t] = j
                                       /\ pc'[t] \in EndSteps
                 \/ /\ j \in ended \cap Owed(q) \cap local[q]
                    /\ \A t \in Threads :
                          /\ Home[t] = q /\ sid[t] = j /\ pc[t] \in EndSteps
                          => sid'[t] = j /\ pc'[t] \in EndSteps
<1>a. ASSUME Keeps PROVE EndedUnmarked'
    BY <1>a, EndedUnmarkedKept
<1>b. faults' # faults + 1
    BY DEF TypeOK
<1>c. \A q \in Replicas, j \in Ids : j \in Owed(q) =>
          /\ j \notin stored
          /\ \A r \in Replicas : Touches(r, j) => r = q
          /\ \A t \in Threads :
                  pc[t] \notin {"idle", "missing"} /\ sid[t] = j => Home[t] = q
    BY OwedAreOurs DEF Owes, Owed
<1>d. \A t \in Threads, j \in Ids : Draws(t, j) =>
           /\ j \notin won
           /\ j \in ended => j \in stored
           /\ \A u \in Threads : u # t => pc[u] = "idle" \/ sid[u] # j
           /\ pc[t] \in LoginSteps => sid[t] # j
    BY DrawnAreNew
<1>1. ASSUME NEW t \in Threads, GetMissing(t) PROVE EndedUnmarked'
    BY <1>1, <1>a DEF GetMissing, TypeOK, EndSteps
<1>2. ASSUME NEW t \in Threads, GetLocal(t) PROVE EndedUnmarked'
    BY <1>2, <1>a DEF GetLocal, TypeOK, EndSteps
<1>3. ASSUME NEW t \in Threads, GetAdopt(t) PROVE EndedUnmarked'
    <2>1. \A q \in Replicas : sid[t] \notin Owed(q)
        BY <1>3, <1>c DEF GetAdopt, SeenAreWritten, TypeOK
    <2>2. Keeps
        BY <1>3, <2>1, PutLocalAdds DEF GetAdopt, TypeOK, EndSteps
    <2> QED BY <2>2, <1>a
<1>4. ASSUME NEW t \in Threads, Respond(t) PROVE EndedUnmarked'
    BY <1>4, <1>a DEF Respond, TypeOK, EndSteps
<1>5. ASSUME NEW t \in Threads, SaveInsert(t) PROVE EndedUnmarked'
    BY <1>5, <1>a DEF SaveInsert, TypeOK, EndSteps
<1>6. ASSUME NEW t \in Threads, SaveFail(t) PROVE EndedUnmarked'
    <2>1. Draws(t, sid[t]) /\ Writing(t, sid[t]) /\ sid[t] \in Ids
        BY <1>6 DEF SaveFail, Draws, Writing, TypeOK, LoginSteps
    <2>2. sid[t] \notin ended
        BY <2>1, <1>d DEF OneWriter
    <2>3. Keeps
        BY <1>6, <2>2 DEF SaveFail, TypeOK, EndSteps
    <2> QED BY <2>3, <1>a
<1>7. ASSUME NEW t \in Threads, SavePublish(t) PROVE EndedUnmarked'
    <2>1. Draws(t, sid[t]) /\ sid[t] \in Ids
        BY <1>7 DEF SavePublish, Draws, TypeOK, LoginSteps
    <2>2. sid[t] \in ended => \A q \in Replicas : sid[t] \notin Owed(q)
        BY <2>1, <1>c, <1>d
    <2>3. Keeps
        BY <1>7, <2>2, PutLocalAdds DEF SavePublish, TypeOK, EndSteps
    <2> QED BY <2>3, <1>a
<1>8. ASSUME NEW t \in Threads, DeleteRow(t) PROVE EndedUnmarked'
    <2>1. sid[t] \in Ids /\ Home[t] \in Replicas
        BY <1>8 DEF DeleteRow, TypeOK
    <2>2. \A q \in Replicas : sid[t] \in Owed(q) => q = Home[t]
        BY <1>8, <2>1, <1>c DEF DeleteRow
    <2>3. CASE ended' \subseteq ended \cup {sid[t]} /\ Goto(t, "forget")
        <3>1. Keeps
            BY <1>8, <2>1, <2>2, <2>3 DEF DeleteRow, TypeOK, EndSteps
        <3> QED BY <3>1, <1>a
    <2> QED BY <1>8, <2>3 DEF DeleteRow, EndIfGone
<1>9. ASSUME NEW t \in Threads, DeleteForget(t) PROVE EndedUnmarked'
    BY <1>9, <1>a DEF DeleteForget, Forget, TypeOK, EndSteps
<1>10. ASSUME NEW t \in Threads, DeleteLocal(t) PROVE EndedUnmarked'
    BY <1>10, <1>a DEF DeleteLocal, DropLocal, TypeOK, EndSteps
<1>11. ASSUME NEW t \in Threads, ReplaceRow(t) PROVE EndedUnmarked'
    <2>1. ended' \subseteq ended \cup stored
        BY <1>11, <1>b DEF ReplaceRow, Fault, SeenAreWritten
    <2>2. Keeps
        BY <1>11, <2>1, <1>c DEF ReplaceRow, ReplaceRefused, TypeOK, EndSteps
    <2> QED BY <2>2, <1>a
<1>12. ASSUME NEW t \in Threads, ReplaceForget(t) PROVE EndedUnmarked'
    BY <1>12, <1>a DEF ReplaceForget, Forget, TypeOK, EndSteps
<1>13. ASSUME NEW t \in Threads, ReplaceDropOld(t) PROVE EndedUnmarked'
    BY <1>13, <1>a DEF ReplaceDropOld, DropLocal, TypeOK, EndSteps
<1>14. ASSUME NEW t \in Threads, ReplacePublish(t) PROVE EndedUnmarked'
    <2>1. Draws(t, nid[t]) /\ nid[t] \in Ids
        BY <1>14 DEF ReplacePublish, Draws, TypeOK, LoginSteps
    <2>2. nid[t] \in ended => \A q \in Replicas : nid[t] \notin Owed(q)
        BY <2>1, <1>c, <1>d
    <2>3. Keeps
        BY <1>14, <2>2, PutLocalAdds DEF ReplacePublish, TypeOK, EndSteps
    <2> QED BY <2>3, <1>a
<1>15. ASSUME NEW t \in Threads, ReplaceLocally(t) PROVE EndedUnmarked'
    <2>1. sid[t] \in Ids /\ Home[t] \in Replicas
        BY <1>15 DEF ReplaceLocally, TypeOK
    <2>2. \A q \in Replicas : sid[t] \in Owed(q) => q = Home[t]
        BY <1>15, <2>1, <1>c DEF ReplaceLocally
    <2>3. CASE ended' \subseteq ended \cup {sid[t]} /\ Goto(t, "swapLocal")
        <3>1. Keeps
            BY <1>15, <2>1, <2>2, <2>3 DEF ReplaceLocally, TypeOK, EndSteps
        <3> QED BY <3>1, <1>a
    <2>4. CASE ReplaceRefused(t) /\ ended' = ended
        <3>1. Keeps
            BY <1>15, <2>4 DEF ReplaceLocally, ReplaceRefused, TypeOK, EndSteps
        <3> QED BY <3>1, <1>a
    <2> QED BY <1>15, <2>3, <2>4 DEF ReplaceLocally, EndIfGone
<1>16. ASSUME NEW t \in Threads, ReplaceLocal(t) PROVE EndedUnmarked'
    <2>1. /\ Draws(t, nid[t]) /\ nid[t] \in Ids /\ sid[t] \in Ids
          /\ Home[t] \in Replicas
        BY <1>16 DEF ReplaceLocal, Draws, TypeOK, LoginSteps
    <2>2. \A q \in Replicas :
              /\ sid[t] \in Owed(q) => q = Home[t]
              /\ nid[t] \in ended => nid[t] \notin Owed(q)
        BY <1>16, <2>1, <1>c, <1>d DEF ReplaceLocal
    <2>3. CASE sid[t] \in local[Home[t]] /\ t \in held
        <3>1. /\ local' = [local EXCEPT ![Home[t]] = (@ \ {sid[t]}) \cup {nid[t]}]
              /\ ended' \subseteq ended \cup {sid[t]}
              /\ UNCHANGED <<unpersisted, rpc, target, sid>>
              /\ pc' = [pc EXCEPT ![t] = "markLocal"]
            BY <1>16, <2>3 DEF ReplaceLocal, EndIfGone
        <3>2. sid[t] # nid[t]
            BY <1>16, <2>1, <1>d DEF ReplaceLocal, LoginSteps
        <3>3. ASSUME NEW q \in Replicas, NEW j \in Ids,
                     j \in ended' \cap Owed(q)' \cap local'[q]
              PROVE  j # sid[t] /\ j \in ended \cap Owed(q) \cap local[q]
            <4>1. j \in ended \cup {sid[t]} /\ j \in Owed(q)
                BY <3>1, <3>3
            <4>2. local'[q] = IF q = Home[t] THEN (local[q] \ {sid[t]}) \cup {nid[t]}
                                           ELSE local[q]
                BY <3>1 DEF TypeOK
            <4>3. j # sid[t]
                BY <2>2, <3>2, <3>3, <4>1, <4>2
            <4> QED BY <2>2, <3>3, <4>1, <4>2, <4>3
        <3>4. \A u \in Threads : pc[u] \in EndSteps /\ sid[u] # sid[t] =>
                  sid'[u] = sid[u] /\ pc'[u] \in EndSteps
            BY <3>1 DEF TypeOK
        <3>5. Keeps
            BY <3>3, <3>4
        <3> QED BY <3>5, <1>a
    <2>4. CASE ~(sid[t] \in local[Home[t]] /\ t \in held)
        <3>1. sid[t] \notin local[Home[t]] \/ sid[t] \notin Owed(Home[t])
            BY <1>16, <2>1, <2>4, <1>c DEF ReplaceLocal, StillHeld
        <3>2. Keeps
            BY <1>16, <2>4, <3>1
            DEF ReplaceLocal, ReplaceRefused, TypeOK, EndSteps
        <3> QED BY <3>2, <1>a
    <2> QED BY <2>3, <2>4
<1>17. ASSUME NEW t \in Threads, ReplaceMarkLocal(t) PROVE EndedUnmarked'
    <2>1. Draws(t, nid[t]) /\ Writing(t, nid[t]) /\ nid[t] \in Ids
        BY <1>17 DEF ReplaceMarkLocal, Draws, Writing, TypeOK, LoginSteps
    <2>2. nid[t] \notin ended
        BY <2>1, <1>d DEF OneWriter
    <2>3. Keeps
        BY <1>17, <2>2 DEF ReplaceMarkLocal, Forget, TypeOK, EndSteps
    <2> QED BY <2>3, <1>a
<1>18. ASSUME NEW t \in Threads, NEW id \in Ids, GetSelect(t, id)
      PROVE  EndedUnmarked'
    BY <1>18, <1>a DEF GetSelect, TypeOK, EndSteps
<1>19. ASSUME NEW t \in Threads, NEW id \in Ids, GetDegraded(t, id)
      PROVE  EndedUnmarked'
    BY <1>19, <1>a DEF GetDegraded, TypeOK, EndSteps
<1>20. ASSUME NEW t \in Threads, NEW id \in Ids, SaveAdmit(t, id)
      PROVE  EndedUnmarked'
    BY <1>20, <1>a DEF SaveAdmit, TypeOK, EndSteps
<1>21. ASSUME NEW t \in Threads, NEW id \in Ids, ReplaceBegin(t, id)
      PROVE  EndedUnmarked'
    BY <1>21, <1>a DEF ReplaceBegin, TypeOK, EndSteps
<1>22. ASSUME NEW r \in Replicas, ReapEpoch(r) PROVE EndedUnmarked'
    BY <1>22, <1>a DEF ReapEpoch, TypeOK, EndSteps
<1>23. ASSUME NEW r \in Replicas, ReapScan(r) PROVE EndedUnmarked'
    BY <1>23, <1>a DEF ReapScan, TypeOK, EndSteps
<1>24. ASSUME NEW r \in Replicas, ReapScanFails(r) PROVE EndedUnmarked'
    BY <1>24, <1>a DEF ReapScanFails, DropLocal, TypeOK, EndSteps
<1>25. ASSUME NEW r \in Replicas, ReapCount(r) PROVE EndedUnmarked'
    BY <1>25, <1>a DEF ReapCount, TypeOK, EndSteps
<1>26. ASSUME NEW r \in Replicas, RepersistSnapshot(r) PROVE EndedUnmarked'
    BY <1>26, <1>a DEF RepersistSnapshot, TypeOK, EndSteps
<1>27. ASSUME NEW r \in Replicas, RepersistLock(r) PROVE EndedUnmarked'
    BY <1>27, <1>a DEF RepersistLock, TypeOK, EndSteps
<1>28. ASSUME NEW r \in Replicas, RepersistUnlock(r) PROVE EndedUnmarked'
    BY <1>28, <1>a DEF RepersistUnlock, TypeOK, EndSteps
<1>29. ASSUME NEW r \in Replicas, ReapLocal(r) PROVE EndedUnmarked'
    BY <1>29, <1>a DEF ReapLocal, DropLocal, TypeOK, EndSteps
<1>30. ASSUME NEW r \in Replicas, ReapPrune(r) PROVE EndedUnmarked'
    BY <1>30, <1>a DEF ReapPrune, TypeOK, EndSteps
<1>31. ASSUME NEW r \in Replicas, NEW id \in Ids, RepersistSkip(r, id)
      PROVE  EndedUnmarked'
    BY <1>31, <1>a DEF RepersistSkip, Persisted, TypeOK, EndSteps
<1>32a. ASSUME NEW r \in Replicas, NEW id \in Ids, RepersistReserve(r, id)
      PROVE  EndedUnmarked'
    BY <1>32a, <1>a DEF RepersistReserve, Persisted, TypeOK, EndSteps
<1>32. ASSUME NEW r \in Replicas, NEW id \in Ids, RepersistInsert(r, id)
      PROVE  EndedUnmarked'
    BY <1>32, <1>a DEF RepersistInsert, TypeOK, OneTarget, EndSteps
<1>32b. ASSUME NEW r \in Replicas, NEW id \in Ids, RepersistNote(r, id)
      PROVE  EndedUnmarked'
    BY <1>32b, <1>a DEF RepersistNote, Persisted, TypeOK, OneTarget, EndSteps
<1>33. ASSUME NEW r \in Replicas, NEW id \in Ids, BuryForget(r, id)
      PROVE  EndedUnmarked'
    BY <1>33, <1>a DEF BuryForget, Forget, TypeOK, EndSteps
<1>34. ASSUME NEW r \in Replicas, NEW id \in Ids, BuryRow(r, id)
      PROVE  EndedUnmarked'
    <2>1. ended' \subseteq ended \cup stored
        BY <1>34 DEF BuryRow, EndIfGone, SeenAreWritten
    <2>2. Keeps
        BY <1>34, <2>1, <1>c DEF BuryRow, TypeOK, EndSteps
    <2> QED BY <2>2, <1>a
<1>35. ASSUME NEW r \in Replicas, NEW id \in Ids, Abandon(r, id)
      PROVE  EndedUnmarked'
    BY <1>35, <1>a DEF Abandon, TypeOK, EndSteps
<1>36. ASSUME NEW r \in Replicas, NEW id \in Ids, AbandonRow(r, id)
      PROVE  EndedUnmarked'
    <2>1. ended' \subseteq ended \cup stored
        BY <1>36 DEF AbandonRow, EndIfGone, SeenAreWritten
    <2>2. Keeps
        BY <1>36, <2>1, <1>c DEF AbandonRow, TypeOK, EndSteps
    <2> QED BY <2>2, <1>a
<1>37. ASSUME NEW r \in Replicas, Restart(r) PROVE EndedUnmarked'
    BY <1>37, <1>a DEF Restart, TypeOK, EndSteps
<1>38. CASE UNCHANGED vars
    <2>1. Keeps
        BY <1>38 DEF vars
    <2> QED BY <2>1, <1>a
<1> QED
    BY <1>1, <1>2, <1>3, <1>4, <1>5, <1>6, <1>7, <1>8, <1>9, <1>10, <1>11,
       <1>12, <1>13, <1>14, <1>15, <1>16, <1>17, <1>18, <1>19, <1>20,
       <1>21, <1>22, <1>23, <1>24, <1>25, <1>26, <1>27, <1>28, <1>29,
       <1>30, <1>31, <1>32a, <1>32, <1>32b, <1>33, <1>34, <1>35, <1>36, <1>37, <1>38
    DEF Next, ThreadStep, Request, ReaperStep

\* A session a login has won has no row, and repersist writes it none.
WonHaveNoRow ==
    /\ won \cap table = {}
    /\ \A r \in Replicas : rpc[r] = "write" => target[r] \cap won = {}

\* A session won without a row is in no local store, so repersist skips it.
WonLeaveTheStore ==
    \A id \in won \ stored : \A r \in Replicas : id \notin local[r]

\* Its mark goes before the mutex is free.
WonUnmarked ==
    \A r \in Replicas : \A id \in won \cap Owed(r) :
        \E t \in Threads : Home[t] = r /\ sid[t] = id /\ pc[t] = "markLocal"

\* One login at a time is past its row step with a given session, and nobody
\* has won that session yet.
OneSwaps ==
    \A t \in Threads : pc[t] = "swapLocal" =>
        /\ sid[t] \notin won \cup table
        /\ \A u \in Threads : pc[u] = "swapLocal" /\ sid[u] = sid[t] => u = t

\* insert, replaceRow and repersist write no row for a session that was won.
LEMMA WonHaveNoRowStep ==
    ASSUME TypeOK, OneWriter,
           SeenAreWritten, UnwrittenIsPrivate, DrawnOnce, DrawnUnended,
           OneAdmitted, WonHaveNoRow, WonLeaveTheStore, OneSwaps,
           faults' = 0, [Next]_vars
    PROVE  WonHaveNoRow'
<1> USE ConstantsAssumption
    DEF dbVars, endVars, reaperVars, Goto, RGoto, Finish, WonHaveNoRow
<1>b. faults' # faults + 1
    BY DEF TypeOK
<1>c. \A q \in Replicas, j \in Ids : Owes(q, j) =>
          /\ j \notin stored
          /\ \A r \in Replicas : Touches(r, j) => r = q
          /\ \A t \in Threads :
                  pc[t] \notin {"idle", "missing"} /\ sid[t] = j => Home[t] = q
    BY OwedAreOurs
<1>d. \A t \in Threads, j \in Ids : Draws(t, j) =>
           /\ j \notin won
           /\ \A u \in Threads : u # t => pc[u] = "idle" \/ sid[u] # j
           /\ pc[t] \in LoginSteps => sid[t] # j
    BY DrawnAreNew
<1>e. \A q \in Replicas, j \in Ids :
          rpc[q] = "write" /\ j \in target[q] => Owes(q, j)
    BY DEF TypeOK, OneTarget, Owes, Noting
<1>1. ASSUME NEW t \in Threads, GetMissing(t) PROVE WonHaveNoRow'
    BY <1>1 DEF GetMissing
<1>2. ASSUME NEW t \in Threads, GetLocal(t) PROVE WonHaveNoRow'
    BY <1>2 DEF GetLocal
<1>3. ASSUME NEW t \in Threads, GetAdopt(t) PROVE WonHaveNoRow'
    BY <1>3 DEF GetAdopt
<1>4. ASSUME NEW t \in Threads, Respond(t) PROVE WonHaveNoRow'
    BY <1>4 DEF Respond
<1>5. ASSUME NEW t \in Threads, SaveInsert(t) PROVE WonHaveNoRow'
    <2>1. sid[t] \in Ids /\ Draws(t, sid[t])
        BY <1>5 DEF SaveInsert, TypeOK, Draws
    <2> QED BY <1>5, <2>1, <1>d
            DEF SaveInsert, InsertCommits, CommitFails, InsertRefused
<1>6. ASSUME NEW t \in Threads, SaveFail(t) PROVE WonHaveNoRow'
    BY <1>6 DEF SaveFail
<1>7. ASSUME NEW t \in Threads, SavePublish(t) PROVE WonHaveNoRow'
    BY <1>7 DEF SavePublish
<1>8. ASSUME NEW t \in Threads, DeleteRow(t) PROVE WonHaveNoRow'
    BY <1>8 DEF DeleteRow, DeleteAnswered, DeleteFails
<1>9. ASSUME NEW t \in Threads, DeleteForget(t) PROVE WonHaveNoRow'
    BY <1>9 DEF DeleteForget
<1>10. ASSUME NEW t \in Threads, DeleteLocal(t) PROVE WonHaveNoRow'
    BY <1>10 DEF DeleteLocal
<1>11. ASSUME NEW t \in Threads, ReplaceRow(t) PROVE WonHaveNoRow'
    <2>1. nid[t] \in Ids /\ Draws(t, nid[t])
        BY <1>11 DEF ReplaceRow, TypeOK, Draws, LoginSteps
    <2>2. nid[t] \notin won /\ sid[t] # nid[t]
        BY <1>11, <2>1, <1>d DEF ReplaceRow, LoginSteps
    <2>3. sid[t] \in Ids /\ (sid[t] \in table => sid[t] \in stored)
        BY <1>11 DEF ReplaceRow, TypeOK, SeenAreWritten
    <2>4. \A q \in Replicas : rpc[q] = "write" /\ sid[t] \in table => sid[t] \notin target[q]
        BY <2>3, <1>c, <1>e
    <2>5. rpc' = rpc /\ target' = target
        BY <1>11 DEF ReplaceRow
    <2>6. won' \cap table' = {}
        BY <1>11, <2>2, <1>b DEF ReplaceRow, ReplaceRefused, Fault
    <2>7. won' \subseteq won \cup (table \cap {sid[t]})
        BY <1>11 DEF ReplaceRow
    <2> QED BY <2>4, <2>5, <2>6, <2>7
<1>12. ASSUME NEW t \in Threads, ReplaceForget(t) PROVE WonHaveNoRow'
    BY <1>12 DEF ReplaceForget
<1>13. ASSUME NEW t \in Threads, ReplaceDropOld(t) PROVE WonHaveNoRow'
    BY <1>13 DEF ReplaceDropOld
<1>14. ASSUME NEW t \in Threads, ReplacePublish(t) PROVE WonHaveNoRow'
    BY <1>14 DEF ReplacePublish
<1>15. ASSUME NEW t \in Threads, ReplaceLocally(t) PROVE WonHaveNoRow'
    BY <1>15 DEF ReplaceLocally, DeleteAnswered, DeleteFails, ReplaceRefused
<1>16. ASSUME NEW t \in Threads, ReplaceLocal(t) PROVE WonHaveNoRow'
    <2>1. sid[t] \in Ids /\ Home[t] \in Replicas
        BY <1>16 DEF ReplaceLocal, TypeOK
    <2>2. \A q \in Replicas : rpc[q] = "write" => sid[t] \notin target[q]
        BY <1>16, <2>1, <1>c, <1>e
        DEF ReplaceLocal, OneAdmitted, Admitted, RepersistSteps
    <2> QED BY <1>16, <2>2 DEF ReplaceLocal, OneSwaps
<1>17. ASSUME NEW t \in Threads, ReplaceMarkLocal(t) PROVE WonHaveNoRow'
    BY <1>17 DEF ReplaceMarkLocal
<1>18. ASSUME NEW t \in Threads, NEW id \in Ids, GetSelect(t, id)
      PROVE  WonHaveNoRow'
    BY <1>18 DEF GetSelect
<1>19. ASSUME NEW t \in Threads, NEW id \in Ids, GetDegraded(t, id)
      PROVE  WonHaveNoRow'
    BY <1>19 DEF GetDegraded
<1>20. ASSUME NEW t \in Threads, NEW id \in Ids, SaveAdmit(t, id)
      PROVE  WonHaveNoRow'
    BY <1>20 DEF SaveAdmit
<1>21. ASSUME NEW t \in Threads, NEW id \in Ids, ReplaceBegin(t, id)
      PROVE  WonHaveNoRow'
    BY <1>21 DEF ReplaceBegin
<1>22. ASSUME NEW r \in Replicas, ReapEpoch(r) PROVE WonHaveNoRow'
    BY <1>22 DEF ReapEpoch
<1>23. ASSUME NEW r \in Replicas, ReapScan(r) PROVE WonHaveNoRow'
    BY <1>23 DEF ReapScan
<1>24. ASSUME NEW r \in Replicas, ReapScanFails(r) PROVE WonHaveNoRow'
    BY <1>24 DEF ReapScanFails
<1>25. ASSUME NEW r \in Replicas, ReapCount(r) PROVE WonHaveNoRow'
    BY <1>25 DEF ReapCount
<1>26. ASSUME NEW r \in Replicas, RepersistSnapshot(r) PROVE WonHaveNoRow'
    BY <1>26 DEF RepersistSnapshot
<1>27. ASSUME NEW r \in Replicas, RepersistLock(r) PROVE WonHaveNoRow'
    BY <1>27 DEF RepersistLock, TypeOK
<1>28. ASSUME NEW r \in Replicas, RepersistUnlock(r) PROVE WonHaveNoRow'
    BY <1>28 DEF RepersistUnlock
<1>29. ASSUME NEW r \in Replicas, ReapLocal(r) PROVE WonHaveNoRow'
    BY <1>29 DEF ReapLocal
<1>30. ASSUME NEW r \in Replicas, ReapPrune(r) PROVE WonHaveNoRow'
    BY <1>30 DEF ReapPrune
<1>31. ASSUME NEW r \in Replicas, NEW id \in Ids, RepersistSkip(r, id)
      PROVE  WonHaveNoRow'
    BY <1>31 DEF RepersistSkip
<1>32a. ASSUME NEW r \in Replicas, NEW id \in Ids, RepersistReserve(r, id)
      PROVE  WonHaveNoRow'
    <2>1. rpc[r] = "repersist" /\ id \in local[r] /\ Owes(r, id)
        BY <1>32a DEF RepersistReserve, Owes, Noting
    <2>2. id \notin won
        BY <2>1, <1>c DEF WonLeaveTheStore
    <2> QED BY <1>32a, <2>2 DEF RepersistReserve, TypeOK
<1>32. ASSUME NEW r \in Replicas, NEW id \in Ids, RepersistInsert(r, id)
      PROVE  WonHaveNoRow'
    <2>1. id \notin won
        BY <1>32 DEF RepersistInsert
    <2> QED BY <1>32, <2>1
            DEF RepersistInsert, InsertCommits, CommitFails, InsertRefused, TypeOK
<1>32b. ASSUME NEW r \in Replicas, NEW id \in Ids, RepersistNote(r, id)
      PROVE  WonHaveNoRow'
    BY <1>32b DEF RepersistNote
<1>33. ASSUME NEW r \in Replicas, NEW id \in Ids, BuryForget(r, id)
      PROVE  WonHaveNoRow'
    BY <1>33 DEF BuryForget
<1>34. ASSUME NEW r \in Replicas, NEW id \in Ids, BuryRow(r, id)
      PROVE  WonHaveNoRow'
    BY <1>34 DEF BuryRow, DeleteAnswered, DeleteFails
<1>35. ASSUME NEW r \in Replicas, NEW id \in Ids, Abandon(r, id)
      PROVE  WonHaveNoRow'
    BY <1>35 DEF Abandon
<1>36. ASSUME NEW r \in Replicas, NEW id \in Ids, AbandonRow(r, id)
      PROVE  WonHaveNoRow'
    BY <1>36 DEF AbandonRow, DeleteAnswered, DeleteFails, TypeOK
<1>37. ASSUME NEW r \in Replicas, Restart(r) PROVE WonHaveNoRow'
    BY <1>37 DEF Restart
<1>38. CASE UNCHANGED vars
    BY <1>38 DEF vars
<1> QED
    BY <1>1, <1>2, <1>3, <1>4, <1>5, <1>6, <1>7, <1>8, <1>9, <1>10, <1>11,
       <1>12, <1>13, <1>14, <1>15, <1>16, <1>17, <1>18, <1>19, <1>20,
       <1>21, <1>22, <1>23, <1>24, <1>25, <1>26, <1>27, <1>28, <1>29,
       <1>30, <1>31, <1>32a, <1>32, <1>32b, <1>33, <1>34, <1>35, <1>36, <1>37, <1>38
    DEF Next, ThreadStep, Request, ReaperStep

\* local.Replace takes the session out, and no adoption brings it back.
LEMMA WonLeaveTheStoreStep ==
    ASSUME TypeOK, OneWriter,
           SeenAreWritten, UnwrittenIsPrivate, DrawnOnce, DrawnUnended,
           WonLeaveTheStore, faults' = 0, [Next]_vars
    PROVE  WonLeaveTheStore'
<1> USE ConstantsAssumption
    DEF dbVars, endVars, Goto, Finish, WonLeaveTheStore
<1>b. faults' # faults + 1
    BY DEF TypeOK
<1>c. \A q \in Replicas, j \in Ids : Owes(q, j) =>
          /\ j \notin stored
          /\ \A r \in Replicas : Touches(r, j) => r = q
          /\ \A t \in Threads :
                  pc[t] \notin {"idle", "missing"} /\ sid[t] = j => Home[t] = q
    BY OwedAreOurs
<1>d. \A t \in Threads, j \in Ids : Draws(t, j) =>
           /\ j \notin won
           /\ \A u \in Threads : u # t => pc[u] = "idle" \/ sid[u] # j
           /\ pc[t] \in LoginSteps => sid[t] # j
    BY DrawnAreNew
<1>1. ASSUME NEW t \in Threads, GetMissing(t) PROVE WonLeaveTheStore'
    BY <1>1 DEF GetMissing, TypeOK
<1>2. ASSUME NEW t \in Threads, GetLocal(t) PROVE WonLeaveTheStore'
    BY <1>2 DEF GetLocal, TypeOK
<1>3. ASSUME NEW t \in Threads, GetAdopt(t) PROVE WonLeaveTheStore'
    BY <1>3, PutLocalAdds DEF GetAdopt, SeenAreWritten
<1>4. ASSUME NEW t \in Threads, Respond(t) PROVE WonLeaveTheStore'
    BY <1>4 DEF Respond, TypeOK
<1>5. ASSUME NEW t \in Threads, SaveInsert(t) PROVE WonLeaveTheStore'
    BY <1>5 DEF SaveInsert, InsertCommits, CommitFails, InsertRefused, TypeOK
<1>6. ASSUME NEW t \in Threads, SaveFail(t) PROVE WonLeaveTheStore'
    BY <1>6 DEF SaveFail, TypeOK
<1>7. ASSUME NEW t \in Threads, SavePublish(t) PROVE WonLeaveTheStore'
    <2>1. Draws(t, sid[t]) /\ sid[t] \in Ids
        BY <1>7 DEF SavePublish, Draws, TypeOK, LoginSteps
    <2>2. sid[t] \notin won
        BY <2>1, <1>d
    <2> QED BY <1>7, <2>2, PutLocalAdds DEF SavePublish
<1>8. ASSUME NEW t \in Threads, DeleteRow(t) PROVE WonLeaveTheStore'
    BY <1>8 DEF DeleteRow, DeleteAnswered, DeleteFails, TypeOK
<1>9. ASSUME NEW t \in Threads, DeleteForget(t) PROVE WonLeaveTheStore'
    BY <1>9 DEF DeleteForget, TypeOK
<1>10. ASSUME NEW t \in Threads, DeleteLocal(t) PROVE WonLeaveTheStore'
    BY <1>10 DEF DeleteLocal, DropLocal, TypeOK
<1>11. ASSUME NEW t \in Threads, ReplaceRow(t) PROVE WonLeaveTheStore'
    BY <1>11 DEF ReplaceRow, SeenAreWritten
<1>12. ASSUME NEW t \in Threads, ReplaceForget(t) PROVE WonLeaveTheStore'
    BY <1>12 DEF ReplaceForget, TypeOK
<1>13. ASSUME NEW t \in Threads, ReplaceDropOld(t) PROVE WonLeaveTheStore'
    BY <1>13 DEF ReplaceDropOld, DropLocal, TypeOK
<1>14. ASSUME NEW t \in Threads, ReplacePublish(t) PROVE WonLeaveTheStore'
    <2>1. Draws(t, nid[t]) /\ nid[t] \in Ids
        BY <1>14 DEF ReplacePublish, Draws, TypeOK, LoginSteps
    <2>2. nid[t] \notin won
        BY <2>1, <1>d
    <2> QED BY <1>14, <2>2, PutLocalAdds DEF ReplacePublish
<1>15. ASSUME NEW t \in Threads, ReplaceLocally(t) PROVE WonLeaveTheStore'
    BY <1>15
    DEF ReplaceLocally, DeleteAnswered, DeleteFails, ReplaceRefused, TypeOK
<1>16. ASSUME NEW t \in Threads, ReplaceLocal(t) PROVE WonLeaveTheStore'
    <2>1. /\ Draws(t, nid[t]) /\ nid[t] \in Ids /\ sid[t] \in Ids
          /\ Home[t] \in Replicas /\ Touches(Home[t], sid[t])
        BY <1>16 DEF ReplaceLocal, Draws, Touches, Handles, TypeOK, LoginSteps
    <2>2. nid[t] \notin won /\ sid[t] # nid[t]
        BY <1>16, <2>1, <1>d DEF ReplaceLocal, LoginSteps
    <2>3. \A q \in Replicas :
              sid[t] \in local[q] \ stored => q = Home[t]
        BY <2>1 DEF UnwrittenIsPrivate, Touches
    <2>4. CASE sid[t] \in local[Home[t]] /\ t \in held
        <3>1. /\ local' = [local EXCEPT ![Home[t]] = (@ \ {sid[t]}) \cup {nid[t]}]
              /\ won' = won \cup {sid[t]} /\ UNCHANGED stored
            BY <1>16, <2>4 DEF ReplaceLocal
        <3>2. ASSUME NEW q \in Replicas
              PROVE  local'[q] = IF q = Home[t]
                                 THEN (local[q] \ {sid[t]}) \cup {nid[t]}
                                 ELSE local[q]
            BY <3>1 DEF TypeOK
        <3> QED BY <2>2, <2>3, <3>1, <3>2
    <2>5. CASE ~(sid[t] \in local[Home[t]] /\ t \in held)
        BY <1>16, <2>5 DEF ReplaceLocal
    <2> QED BY <2>4, <2>5
<1>17. ASSUME NEW t \in Threads, ReplaceMarkLocal(t) PROVE WonLeaveTheStore'
    BY <1>17 DEF ReplaceMarkLocal, TypeOK
<1>18. ASSUME NEW t \in Threads, NEW id \in Ids, GetSelect(t, id)
      PROVE  WonLeaveTheStore'
    BY <1>18 DEF GetSelect, TypeOK
<1>19. ASSUME NEW t \in Threads, NEW id \in Ids, GetDegraded(t, id)
      PROVE  WonLeaveTheStore'
    BY <1>19 DEF GetDegraded, TypeOK
<1>20. ASSUME NEW t \in Threads, NEW id \in Ids, SaveAdmit(t, id)
      PROVE  WonLeaveTheStore'
    BY <1>20 DEF SaveAdmit, TypeOK
<1>21. ASSUME NEW t \in Threads, NEW id \in Ids, ReplaceBegin(t, id)
      PROVE  WonLeaveTheStore'
    BY <1>21 DEF ReplaceBegin, TypeOK
<1>22. ASSUME NEW r \in Replicas, ReapEpoch(r) PROVE WonLeaveTheStore'
    BY <1>22 DEF ReapEpoch, TypeOK
<1>23. ASSUME NEW r \in Replicas, ReapScan(r) PROVE WonLeaveTheStore'
    BY <1>23 DEF ReapScan, TypeOK
<1>24. ASSUME NEW r \in Replicas, ReapScanFails(r) PROVE WonLeaveTheStore'
    BY <1>24 DEF ReapScanFails, DropLocal, TypeOK
<1>25. ASSUME NEW r \in Replicas, ReapCount(r) PROVE WonLeaveTheStore'
    BY <1>25 DEF ReapCount, TypeOK
<1>26. ASSUME NEW r \in Replicas, RepersistSnapshot(r) PROVE WonLeaveTheStore'
    BY <1>26 DEF RepersistSnapshot, TypeOK
<1>27. ASSUME NEW r \in Replicas, RepersistLock(r) PROVE WonLeaveTheStore'
    BY <1>27 DEF RepersistLock, TypeOK
<1>28. ASSUME NEW r \in Replicas, RepersistUnlock(r) PROVE WonLeaveTheStore'
    BY <1>28 DEF RepersistUnlock, TypeOK
<1>29. ASSUME NEW r \in Replicas, ReapLocal(r) PROVE WonLeaveTheStore'
    BY <1>29 DEF ReapLocal, DropLocal, TypeOK
<1>30. ASSUME NEW r \in Replicas, ReapPrune(r) PROVE WonLeaveTheStore'
    BY <1>30 DEF ReapPrune, TypeOK
<1>31. ASSUME NEW r \in Replicas, NEW id \in Ids, RepersistSkip(r, id)
      PROVE  WonLeaveTheStore'
    BY <1>31 DEF RepersistSkip, TypeOK
<1>32a. ASSUME NEW r \in Replicas, NEW id \in Ids, RepersistReserve(r, id)
      PROVE  WonLeaveTheStore'
    BY <1>32a DEF RepersistReserve, TypeOK
<1>32. ASSUME NEW r \in Replicas, NEW id \in Ids, RepersistInsert(r, id)
      PROVE  WonLeaveTheStore'
    BY <1>32
    DEF RepersistInsert, InsertCommits, CommitFails, InsertRefused, TypeOK
<1>32b. ASSUME NEW r \in Replicas, NEW id \in Ids, RepersistNote(r, id)
      PROVE  WonLeaveTheStore'
    BY <1>32b DEF RepersistNote, TypeOK
<1>33. ASSUME NEW r \in Replicas, NEW id \in Ids, BuryForget(r, id)
      PROVE  WonLeaveTheStore'
    BY <1>33 DEF BuryForget, TypeOK
<1>34. ASSUME NEW r \in Replicas, NEW id \in Ids, BuryRow(r, id)
      PROVE  WonLeaveTheStore'
    BY <1>34 DEF BuryRow, DeleteAnswered, DeleteFails, TypeOK
<1>35. ASSUME NEW r \in Replicas, NEW id \in Ids, Abandon(r, id)
      PROVE  WonLeaveTheStore'
    BY <1>35 DEF Abandon, TypeOK
<1>36. ASSUME NEW r \in Replicas, NEW id \in Ids, AbandonRow(r, id)
      PROVE  WonLeaveTheStore'
    BY <1>36 DEF AbandonRow, DeleteAnswered, DeleteFails, TypeOK
<1>37. ASSUME NEW r \in Replicas, Restart(r) PROVE WonLeaveTheStore'
    BY <1>37 DEF Restart, TypeOK
<1>38. CASE UNCHANGED vars
    BY <1>38 DEF vars
<1> QED
    BY <1>1, <1>2, <1>3, <1>4, <1>5, <1>6, <1>7, <1>8, <1>9, <1>10, <1>11,
       <1>12, <1>13, <1>14, <1>15, <1>16, <1>17, <1>18, <1>19, <1>20,
       <1>21, <1>22, <1>23, <1>24, <1>25, <1>26, <1>27, <1>28, <1>29,
       <1>30, <1>31, <1>32a, <1>32, <1>32b, <1>33, <1>34, <1>35, <1>36, <1>37, <1>38
    DEF Next, ThreadStep, Request, ReaperStep

\* setPersisted marks only ids that a request has just drawn.
LEMMA WonUnmarkedStep ==
    ASSUME TypeOK, OneWriter,
           SeenAreWritten, UnwrittenIsPrivate, DrawnOnce, DrawnUnended,
           WonUnmarked, faults' = 0, [Next]_vars
    PROVE  WonUnmarked'
<1> USE ConstantsAssumption
    DEF dbVars, endVars, markVars, threadVars, reaperVars, Goto, RGoto, Finish,
        Owed, Noting, WonUnmarked
<1>b. faults' # faults + 1
    BY DEF TypeOK
<1>c. \A q \in Replicas, j \in Ids : Owes(q, j) =>
          /\ j \notin stored
          /\ \A r \in Replicas : Touches(r, j) => r = q
          /\ \A t \in Threads :
                  pc[t] \notin {"idle", "missing"} /\ sid[t] = j => Home[t] = q
    BY OwedAreOurs
<1>d. \A t \in Threads, j \in Ids : Draws(t, j) =>
           /\ j \notin won
           /\ \A u \in Threads : u # t => pc[u] = "idle" \/ sid[u] # j
           /\ pc[t] \in LoginSteps => sid[t] # j
    BY DrawnAreNew
<1>1. ASSUME NEW t \in Threads, GetMissing(t) PROVE WonUnmarked'
    BY <1>1 DEF GetMissing, TypeOK
<1>2. ASSUME NEW t \in Threads, GetLocal(t) PROVE WonUnmarked'
    BY <1>2 DEF GetLocal, TypeOK
<1>3. ASSUME NEW t \in Threads, GetAdopt(t) PROVE WonUnmarked'
    BY <1>3, PutLocalAdds DEF GetAdopt, TypeOK
<1>4. ASSUME NEW t \in Threads, Respond(t) PROVE WonUnmarked'
    BY <1>4 DEF Respond, TypeOK
<1>5. ASSUME NEW t \in Threads, SaveInsert(t) PROVE WonUnmarked'
    BY <1>5 DEF SaveInsert, TypeOK
<1>6. ASSUME NEW t \in Threads, SaveFail(t) PROVE WonUnmarked'
    <2>1. Draws(t, sid[t]) /\ sid[t] \in Ids
        BY <1>6 DEF SaveFail, Draws, TypeOK, LoginSteps
    <2>2. sid[t] \notin won
        BY <2>1, <1>d
    <2> QED BY <1>6, <2>2 DEF SaveFail, Forget, TypeOK
<1>7. ASSUME NEW t \in Threads, SavePublish(t) PROVE WonUnmarked'
    BY <1>7, PutLocalAdds DEF SavePublish, TypeOK
<1>8. ASSUME NEW t \in Threads, DeleteRow(t) PROVE WonUnmarked'
    BY <1>8 DEF DeleteRow, TypeOK
<1>9. ASSUME NEW t \in Threads, DeleteForget(t) PROVE WonUnmarked'
    BY <1>9 DEF DeleteForget, Forget, TypeOK
<1>10. ASSUME NEW t \in Threads, DeleteLocal(t) PROVE WonUnmarked'
    BY <1>10 DEF DeleteLocal, TypeOK
<1>11. ASSUME NEW t \in Threads, ReplaceRow(t) PROVE WonUnmarked'
    <2>1. \A q \in Replicas : sid[t] \in table => sid[t] \notin Owed(q)
        BY <1>11, <1>c DEF ReplaceRow, SeenAreWritten, Owes, Owed, TypeOK
    <2> QED BY <1>11, <2>1 DEF ReplaceRow, ReplaceRefused, TypeOK
<1>12. ASSUME NEW t \in Threads, ReplaceForget(t) PROVE WonUnmarked'
    BY <1>12 DEF ReplaceForget, Forget, TypeOK
<1>13. ASSUME NEW t \in Threads, ReplaceDropOld(t) PROVE WonUnmarked'
    BY <1>13 DEF ReplaceDropOld, TypeOK
<1>14. ASSUME NEW t \in Threads, ReplacePublish(t) PROVE WonUnmarked'
    BY <1>14, PutLocalAdds DEF ReplacePublish, TypeOK
<1>15. ASSUME NEW t \in Threads, ReplaceLocally(t) PROVE WonUnmarked'
    BY <1>15 DEF ReplaceLocally, ReplaceRefused, TypeOK
<1>16. ASSUME NEW t \in Threads, ReplaceLocal(t) PROVE WonUnmarked'
    <2>1. \A q \in Replicas : sid[t] \in Owed(q) => q = Home[t]
        BY <1>16, <1>c DEF ReplaceLocal, Owes, Owed, TypeOK
    <2> QED BY <1>16, <2>1 DEF ReplaceLocal, ReplaceRefused, TypeOK
<1>17. ASSUME NEW t \in Threads, ReplaceMarkLocal(t) PROVE WonUnmarked'
    <2>1. Draws(t, nid[t]) /\ nid[t] \in Ids
        BY <1>17 DEF ReplaceMarkLocal, Draws, TypeOK, LoginSteps
    <2>2. nid[t] \notin won
        BY <2>1, <1>d
    <2> QED BY <1>17, <2>2 DEF ReplaceMarkLocal, Forget, TypeOK
<1>18. ASSUME NEW t \in Threads, NEW id \in Ids, GetSelect(t, id)
      PROVE  WonUnmarked'
    BY <1>18 DEF GetSelect, TypeOK
<1>19. ASSUME NEW t \in Threads, NEW id \in Ids, GetDegraded(t, id)
      PROVE  WonUnmarked'
    BY <1>19 DEF GetDegraded, TypeOK
<1>20. ASSUME NEW t \in Threads, NEW id \in Ids, SaveAdmit(t, id)
      PROVE  WonUnmarked'
    BY <1>20 DEF SaveAdmit, TypeOK
<1>21. ASSUME NEW t \in Threads, NEW id \in Ids, ReplaceBegin(t, id)
      PROVE  WonUnmarked'
    BY <1>21 DEF ReplaceBegin, TypeOK
<1>22. ASSUME NEW r \in Replicas, ReapEpoch(r) PROVE WonUnmarked'
    BY <1>22 DEF ReapEpoch, TypeOK
<1>23. ASSUME NEW r \in Replicas, ReapScan(r) PROVE WonUnmarked'
    BY <1>23 DEF ReapScan, TypeOK
<1>24. ASSUME NEW r \in Replicas, ReapScanFails(r) PROVE WonUnmarked'
    BY <1>24 DEF ReapScanFails, TypeOK
<1>25. ASSUME NEW r \in Replicas, ReapCount(r) PROVE WonUnmarked'
    BY <1>25 DEF ReapCount, TypeOK
<1>26. ASSUME NEW r \in Replicas, RepersistSnapshot(r) PROVE WonUnmarked'
    BY <1>26 DEF RepersistSnapshot, TypeOK
<1>27. ASSUME NEW r \in Replicas, RepersistLock(r) PROVE WonUnmarked'
    BY <1>27 DEF RepersistLock, TypeOK
<1>28. ASSUME NEW r \in Replicas, RepersistUnlock(r) PROVE WonUnmarked'
    BY <1>28 DEF RepersistUnlock, TypeOK
<1>29. ASSUME NEW r \in Replicas, ReapLocal(r) PROVE WonUnmarked'
    BY <1>29 DEF ReapLocal, TypeOK
<1>30. ASSUME NEW r \in Replicas, ReapPrune(r) PROVE WonUnmarked'
    BY <1>30 DEF ReapPrune, TypeOK
<1>31. ASSUME NEW r \in Replicas, NEW id \in Ids, RepersistSkip(r, id)
      PROVE  WonUnmarked'
    BY <1>31 DEF RepersistSkip, Persisted, TypeOK
<1>32a. ASSUME NEW r \in Replicas, NEW id \in Ids, RepersistReserve(r, id)
      PROVE  WonUnmarked'
    BY <1>32a DEF RepersistReserve, Persisted, TypeOK
<1>32. ASSUME NEW r \in Replicas, NEW id \in Ids, RepersistInsert(r, id)
      PROVE  WonUnmarked'
    BY <1>32 DEF RepersistInsert, Persisted, TypeOK, OneTarget
<1>32b. ASSUME NEW r \in Replicas, NEW id \in Ids, RepersistNote(r, id)
      PROVE  WonUnmarked'
    BY <1>32b DEF RepersistNote, Persisted, TypeOK, OneTarget
<1>33. ASSUME NEW r \in Replicas, NEW id \in Ids, BuryForget(r, id)
      PROVE  WonUnmarked'
    BY <1>33 DEF BuryForget, Forget, TypeOK
<1>34. ASSUME NEW r \in Replicas, NEW id \in Ids, BuryRow(r, id)
      PROVE  WonUnmarked'
    BY <1>34 DEF BuryRow, TypeOK
<1>35. ASSUME NEW r \in Replicas, NEW id \in Ids, Abandon(r, id)
      PROVE  WonUnmarked'
    BY <1>35 DEF Abandon, TypeOK
<1>36. ASSUME NEW r \in Replicas, NEW id \in Ids, AbandonRow(r, id)
      PROVE  WonUnmarked'
    BY <1>36 DEF AbandonRow, TypeOK
<1>37. ASSUME NEW r \in Replicas, Restart(r) PROVE WonUnmarked'
    BY <1>37 DEF Restart, TypeOK
<1>38. CASE UNCHANGED vars
    BY <1>38 DEF vars
<1> QED
    BY <1>1, <1>2, <1>3, <1>4, <1>5, <1>6, <1>7, <1>8, <1>9, <1>10, <1>11,
       <1>12, <1>13, <1>14, <1>15, <1>16, <1>17, <1>18, <1>19, <1>20,
       <1>21, <1>22, <1>23, <1>24, <1>25, <1>26, <1>27, <1>28, <1>29,
       <1>30, <1>31, <1>32a, <1>32, <1>32b, <1>33, <1>34, <1>35, <1>36, <1>37, <1>38
    DEF Next, ThreadStep, Request, ReaperStep

\* replaceRow and replaceLocally let a login pass only if it removed the row, or
\* if no other replica knows the session and the mutex keeps this one's out.
LEMMA OneSwapsStep ==
    ASSUME TypeOK, OneWriter,
           SeenAreWritten, UnwrittenIsPrivate, DrawnOnce, DrawnUnended,
           OneAdmitted, WonHaveNoRow, WonUnmarked, OneSwaps,
           faults' = 0, [Next]_vars
    PROVE  OneSwaps'
<1> USE ConstantsAssumption
    DEF dbVars, endVars, threadVars, Goto, Finish
<1> DEFINE Keeps ==
        \A t \in Threads : pc'[t] = "swapLocal" =>
            /\ pc[t] = "swapLocal" /\ sid'[t] = sid[t]
            /\ sid[t] \in won' => sid[t] \in won
            /\ sid[t] \in table' => sid[t] \in table
<1>a. ASSUME Keeps PROVE OneSwaps'
    BY <1>a DEF OneSwaps
<1>b. faults' # faults + 1
    BY DEF TypeOK
<1>c. \A q \in Replicas, j \in Ids : Owes(q, j) =>
          /\ j \notin stored
          /\ \A r \in Replicas : Touches(r, j) => r = q
          /\ \A t \in Threads :
                  pc[t] \notin {"idle", "missing"} /\ sid[t] = j => Home[t] = q
    BY OwedAreOurs
<1>d. \A t \in Threads, j \in Ids : Draws(t, j) =>
           /\ j \notin won
           /\ \A u \in Threads : u # t => pc[u] = "idle" \/ sid[u] # j
           /\ pc[t] \in LoginSteps => sid[t] # j
    BY DrawnAreNew
<1>e. ASSUME NEW t \in Threads, pc[t] \in {"swapRow", "swapLocalRow"},
             sid[t] \in unpersisted[Home[t]]
      PROVE  /\ sid[t] \notin won
             /\ \A u \in Threads : ~(pc[u] = "swapLocal" /\ sid[u] = sid[t])
    <2>1. /\ sid[t] \in Ids /\ Home[t] \in Replicas
          /\ Owes(Home[t], sid[t])
        BY <1>e DEF TypeOK, Owes, Noting, OneAdmitted, Admitted, RepersistSteps
    <2>2. \A u \in Threads :
              /\ pc[u] \notin {"idle", "missing"} /\ sid[u] = sid[t]
              => Home[u] = Home[t]
        BY <2>1, <1>c
    <2>3. \A u \in Threads : pc[u] \in Admitted /\ Home[u] = Home[t] => u = t
        BY <1>e DEF OneAdmitted, Admitted
    <2>4. sid[t] \notin won
        BY <1>e, <2>1, <2>3 DEF WonUnmarked, Admitted, Owed, Owes
    <2> QED BY <1>e, <2>2, <2>3, <2>4 DEF Admitted
<1>f. ASSUME NEW t \in Threads, pc[t] \in {"swapRow", "swapLocalRow"},
             sid[t] \notin table', sid[t] \notin won,
             \A u \in Threads : ~(pc[u] = "swapLocal" /\ sid[u] = sid[t]),
             Goto(t, "swapLocal"), won' = won, table' \subseteq table
      PROVE  OneSwaps'
    BY <1>f DEF OneSwaps, TypeOK
<1>1. ASSUME NEW t \in Threads, GetMissing(t) PROVE OneSwaps'
    BY <1>1, <1>a DEF GetMissing, TypeOK
<1>2. ASSUME NEW t \in Threads, GetLocal(t) PROVE OneSwaps'
    BY <1>2, <1>a DEF GetLocal, TypeOK
<1>3. ASSUME NEW t \in Threads, GetAdopt(t) PROVE OneSwaps'
    BY <1>3, <1>a DEF GetAdopt, TypeOK
<1>4. ASSUME NEW t \in Threads, Respond(t) PROVE OneSwaps'
    BY <1>4, <1>a DEF Respond, TypeOK
<1>5. ASSUME NEW t \in Threads, SaveInsert(t) PROVE OneSwaps'
    <2>1. sid[t] \in Ids /\ Draws(t, sid[t])
        BY <1>5 DEF SaveInsert, TypeOK, Draws
    <2>2. Keeps
        BY <1>5, <2>1, <1>d
        DEF SaveInsert, InsertCommits, CommitFails, InsertRefused, TypeOK
    <2> QED BY <2>2, <1>a
<1>6. ASSUME NEW t \in Threads, SaveFail(t) PROVE OneSwaps'
    BY <1>6, <1>a DEF SaveFail, TypeOK
<1>7. ASSUME NEW t \in Threads, SavePublish(t) PROVE OneSwaps'
    BY <1>7, <1>a DEF SavePublish, TypeOK
<1>8. ASSUME NEW t \in Threads, DeleteRow(t) PROVE OneSwaps'
    BY <1>8, <1>a DEF DeleteRow, DeleteAnswered, DeleteFails, TypeOK
<1>9. ASSUME NEW t \in Threads, DeleteForget(t) PROVE OneSwaps'
    BY <1>9, <1>a DEF DeleteForget, TypeOK
<1>10. ASSUME NEW t \in Threads, DeleteLocal(t) PROVE OneSwaps'
    BY <1>10, <1>a DEF DeleteLocal, TypeOK
<1>11. ASSUME NEW t \in Threads, ReplaceRow(t) PROVE OneSwaps'
    <2>1. nid[t] \in Ids /\ Draws(t, nid[t])
        BY <1>11 DEF ReplaceRow, TypeOK, Draws, LoginSteps
    <2>2. \A u \in Threads : pc[u] = "swapLocal" => sid[u] # nid[t]
        BY <1>11, <2>1, <1>d DEF ReplaceRow, LoginSteps
    <2>3. CASE /\ sid[t] \in table
               /\ table' = (table \ {sid[t]}) \cup {nid[t]}
               /\ won' = won \cup {sid[t]}
               /\ Goto(t, "rekeyed")
        <3>1. \A u \in Threads : pc[u] = "swapLocal" => sid[u] # sid[t]
            BY <2>3 DEF OneSwaps
        <3>2. Keeps
            BY <2>2, <2>3, <3>1 DEF TypeOK
        <3> QED BY <3>2, <1>a
    <2>4. CASE /\ sid[t] \notin table /\ UNCHANGED <<table, won>>
               /\ ReplaceRefused(t)
        <3>1. Keeps
            BY <2>4 DEF TypeOK, ReplaceRefused
        <3> QED BY <3>1, <1>a
    <2>5. CASE /\ sid[t] \notin table /\ UNCHANGED <<table, won>>
               /\ ~LoginLost(Home[t], sid[t]) /\ Goto(t, "swapLocal")
        BY <1>11, <2>5, <1>e, <1>f DEF LoginLost, ReplaceRow
    <2> QED BY <1>11, <1>b, <2>3, <2>4, <2>5 DEF ReplaceRow, Fault
<1>12. ASSUME NEW t \in Threads, ReplaceForget(t) PROVE OneSwaps'
    BY <1>12, <1>a DEF ReplaceForget, TypeOK
<1>13. ASSUME NEW t \in Threads, ReplaceDropOld(t) PROVE OneSwaps'
    BY <1>13, <1>a DEF ReplaceDropOld, TypeOK
<1>14. ASSUME NEW t \in Threads, ReplacePublish(t) PROVE OneSwaps'
    BY <1>14, <1>a DEF ReplacePublish, TypeOK
<1>15. ASSUME NEW t \in Threads, ReplaceLocally(t) PROVE OneSwaps'
    <2>1. CASE /\ ~LoginLost(Home[t], sid[t]) /\ Goto(t, "swapLocal")
               /\ DeleteAnswered(Home[t], sid[t])
        <3>1. table' = table \ {sid[t]} /\ won' = won
            BY <1>15, <2>1 DEF ReplaceLocally, DeleteAnswered
        <3>2. /\ sid[t] \notin won
              /\ \A u \in Threads : ~(pc[u] = "swapLocal" /\ sid[u] = sid[t])
            BY <1>15, <2>1, <1>e
            DEF LoginLost, ReplaceLocally, WonHaveNoRow, OneSwaps
        <3> QED BY <1>15, <2>1, <3>1, <3>2, <1>f DEF ReplaceLocally
    <2>2. CASE ReplaceRefused(t) /\ UNCHANGED <<table, won>>
        <3>1. Keeps
            BY <2>2 DEF TypeOK, ReplaceRefused
        <3> QED BY <3>1, <1>a
    <2> QED BY <1>15, <1>b, <2>1, <2>2 DEF ReplaceLocally, DeleteFails, Fault
<1>16. ASSUME NEW t \in Threads, ReplaceLocal(t) PROVE OneSwaps'
    BY <1>16, <1>a DEF ReplaceLocal, ReplaceRefused, TypeOK, OneSwaps
<1>17. ASSUME NEW t \in Threads, ReplaceMarkLocal(t) PROVE OneSwaps'
    BY <1>17, <1>a DEF ReplaceMarkLocal, TypeOK
<1>18. ASSUME NEW t \in Threads, NEW id \in Ids, GetSelect(t, id)
      PROVE  OneSwaps'
    BY <1>18, <1>a DEF GetSelect, TypeOK
<1>19. ASSUME NEW t \in Threads, NEW id \in Ids, GetDegraded(t, id)
      PROVE  OneSwaps'
    BY <1>19, <1>a DEF GetDegraded, TypeOK
<1>20. ASSUME NEW t \in Threads, NEW id \in Ids, SaveAdmit(t, id)
      PROVE  OneSwaps'
    BY <1>20, <1>a DEF SaveAdmit, TypeOK
<1>21. ASSUME NEW t \in Threads, NEW id \in Ids, ReplaceBegin(t, id)
      PROVE  OneSwaps'
    BY <1>21, <1>a DEF ReplaceBegin, TypeOK
<1>22. ASSUME NEW r \in Replicas, ReapEpoch(r) PROVE OneSwaps'
    BY <1>22, <1>a DEF ReapEpoch, TypeOK
<1>23. ASSUME NEW r \in Replicas, ReapScan(r) PROVE OneSwaps'
    BY <1>23, <1>a DEF ReapScan, TypeOK
<1>24. ASSUME NEW r \in Replicas, ReapScanFails(r) PROVE OneSwaps'
    BY <1>24, <1>a DEF ReapScanFails, TypeOK
<1>25. ASSUME NEW r \in Replicas, ReapCount(r) PROVE OneSwaps'
    BY <1>25, <1>a DEF ReapCount, TypeOK
<1>26. ASSUME NEW r \in Replicas, RepersistSnapshot(r) PROVE OneSwaps'
    BY <1>26, <1>a DEF RepersistSnapshot, TypeOK
<1>27. ASSUME NEW r \in Replicas, RepersistLock(r) PROVE OneSwaps'
    BY <1>27, <1>a DEF RepersistLock, TypeOK
<1>28. ASSUME NEW r \in Replicas, RepersistUnlock(r) PROVE OneSwaps'
    BY <1>28, <1>a DEF RepersistUnlock, TypeOK
<1>29. ASSUME NEW r \in Replicas, ReapLocal(r) PROVE OneSwaps'
    BY <1>29, <1>a DEF ReapLocal, TypeOK
<1>30. ASSUME NEW r \in Replicas, ReapPrune(r) PROVE OneSwaps'
    BY <1>30, <1>a DEF ReapPrune, TypeOK
<1>31. ASSUME NEW r \in Replicas, NEW id \in Ids, RepersistSkip(r, id)
      PROVE  OneSwaps'
    BY <1>31, <1>a DEF RepersistSkip, TypeOK
<1>32a. ASSUME NEW r \in Replicas, NEW id \in Ids, RepersistReserve(r, id)
      PROVE  OneSwaps'
    BY <1>32a, <1>a DEF RepersistReserve, TypeOK
<1>32. ASSUME NEW r \in Replicas, NEW id \in Ids, RepersistInsert(r, id)
      PROVE  OneSwaps'
    <2>1. Owes(r, id)
        BY <1>32 DEF RepersistInsert, Owes, Noting, TypeOK, OneTarget
    <2>2. \A t \in Threads : pc[t] = "swapLocal" => sid[t] # id
        BY <1>32, <2>1, <1>c DEF RepersistInsert, OneAdmitted, Admitted, RepersistSteps
    <2>3. Keeps
        BY <1>32, <2>2
        DEF RepersistInsert, InsertCommits, CommitFails, InsertRefused, TypeOK
    <2> QED BY <2>3, <1>a
<1>32b. ASSUME NEW r \in Replicas, NEW id \in Ids, RepersistNote(r, id)
      PROVE  OneSwaps'
    BY <1>32b, <1>a DEF RepersistNote, TypeOK
<1>33. ASSUME NEW r \in Replicas, NEW id \in Ids, BuryForget(r, id)
      PROVE  OneSwaps'
    BY <1>33, <1>a DEF BuryForget, TypeOK
<1>34. ASSUME NEW r \in Replicas, NEW id \in Ids, BuryRow(r, id)
      PROVE  OneSwaps'
    BY <1>34, <1>a DEF BuryRow, DeleteAnswered, DeleteFails, TypeOK
<1>35. ASSUME NEW r \in Replicas, NEW id \in Ids, Abandon(r, id)
      PROVE  OneSwaps'
    BY <1>35, <1>a DEF Abandon, TypeOK
<1>36. ASSUME NEW r \in Replicas, NEW id \in Ids, AbandonRow(r, id)
      PROVE  OneSwaps'
    BY <1>36, <1>a DEF AbandonRow, DeleteAnswered, DeleteFails, TypeOK
<1>37. ASSUME NEW r \in Replicas, Restart(r) PROVE OneSwaps'
    BY <1>37, <1>a DEF Restart, TypeOK
<1>38. CASE UNCHANGED vars
    <2>1. Keeps
        BY <1>38 DEF vars
    <2> QED BY <2>1, <1>a
<1> QED
    BY <1>1, <1>2, <1>3, <1>4, <1>5, <1>6, <1>7, <1>8, <1>9, <1>10, <1>11,
       <1>12, <1>13, <1>14, <1>15, <1>16, <1>17, <1>18, <1>19, <1>20,
       <1>21, <1>22, <1>23, <1>24, <1>25, <1>26, <1>27, <1>28, <1>29,
       <1>30, <1>31, <1>32a, <1>32, <1>32b, <1>33, <1>34, <1>35, <1>36, <1>37, <1>38
    DEF Next, ThreadStep, Request, ReaperStep

\* The inductive invariants: what holds whatever fails, and what logins add.
UnwrittenOurs ==
    /\ SeenAreWritten
    /\ UnwrittenIsPrivate
    /\ DrawnOnce

LoginsInv ==
    /\ OneAdmitted
    /\ DrawnUnended
    /\ StillHeld
    /\ faults = 0 =>
          /\ OneWriter
          /\ EndedUnmarked
          /\ WonHaveNoRow
          /\ WonLeaveTheStore
          /\ WonUnmarked
          /\ OneSwaps

\* Its three parts are inductive together.
LEMMA UnwrittenOursStep ==
    TypeOK /\ UnwrittenOurs /\ [Next]_vars => UnwrittenOurs'
BY SeenAreWrittenStep, DrawnOnceStep, UnwrittenIsPrivateStep DEF UnwrittenOurs

\* Whatever fails, restarts or times out, ids without a row stay private.
LEMMA UnwrittenOursHolds == Spec => []UnwrittenOurs
<1>1. Init => UnwrittenOurs
    BY DEF Init, UnwrittenOurs, SeenAreWritten, UnwrittenIsPrivate, DrawnOnce,
           Touches, Handles, Draws, Marks, LoginSteps
<1> QED BY <1>1, UnwrittenOursStep, TypeCorrect, PTL DEF Spec

\* absenceIsFinal may spare the sessions this process could not write, whatever
\* fails and whatever answer is lost: no other replica has ever held one, so none
\* can have ended it; but for the ids the invariant names, a row written whose
\* commit was told to have failed, and the one repersist is about to note.
THEOREM UnwrittenSeenByOne == Spec => []UnpersistedIsOurs
<1>1. ASSUME TypeOK, OneOwner, UnwrittenOurs PROVE UnpersistedIsOurs
    <2> SUFFICES ASSUME NEW r \in Replicas, NEW other \in Replicas, other # r,
                        NEW id \in unpersisted[r] \cap local[other],
                        id \notin unanswered \cup Noting(r)
                 PROVE  FALSE
        BY DEF UnpersistedIsOurs
    <2>1. id \in Ids /\ Marks(r, id)
        BY <1>1 DEF TypeOK, Marks
    <2>2. Touches(r, id) /\ Touches(other, id)
        BY <2>1 DEF Touches
    <2>3. id \notin stored
        BY <1>1, <2>1 DEF OneOwner
    <2> QED BY <1>1, <2>1, <2>2, <2>3 DEF UnwrittenOurs, UnwrittenIsPrivate
<1>2. TypeOK /\ OneOwner /\ UnwrittenOurs => UnpersistedIsOurs
    BY <1>1
<1> QED BY <1>2, TypeCorrect, OneOwnerHolds, UnwrittenOursHolds, PTL

\* The parts about logins are inductive, given those about unwritten ids.
LEMMA LoginsInvStep ==
    /\ TypeOK /\ TypeOK' /\ OneOwner' /\ Answered' /\ UnwrittenOurs /\ LoginsInv
    /\ [Next]_vars
    => LoginsInv'
<1> SUFFICES ASSUME TypeOK, TypeOK', OneOwner', Answered', UnwrittenOurs, LoginsInv,
                    [Next]_vars
             PROVE  LoginsInv'
    OBVIOUS
<1> USE DEF UnwrittenOurs
<1>1. OneAdmitted'
    BY OneAdmittedStep DEF LoginsInv
<1>2. DrawnUnended'
    BY DrawnUnendedStep DEF LoginsInv
<1>3. StillHeld'
    BY StillHeldStep DEF LoginsInv
<1>4. ASSUME faults' = 0
      PROVE  /\ OneWriter'
             /\ EndedUnmarked'
             /\ WonHaveNoRow'
             /\ WonLeaveTheStore'
             /\ WonUnmarked'
             /\ OneSwaps'
    <2>1. faults = 0
        BY <1>4, FaultsStay
    <2>2. OneWriter'
        BY <1>4 DEF OneOwner, Answered, OneWriter, Owes, Marks
    <2>3. EndedUnmarked'
        BY <1>4, <2>1, EndedUnmarkedStep DEF LoginsInv
    <2>4. WonHaveNoRow' /\ WonLeaveTheStore' /\ WonUnmarked'
        BY <1>4, <2>1, WonHaveNoRowStep, WonLeaveTheStoreStep, WonUnmarkedStep
           DEF LoginsInv
    <2>5. OneSwaps'
        BY <1>4, <2>1, OneSwapsStep DEF LoginsInv
    <2> QED BY <2>2, <2>3, <2>4, <2>5
<1> QED BY <1>1, <1>2, <1>3, <1>4 DEF LoginsInv

\* They hold in every state of the store.
LEMMA LoginsInvHolds == Spec => []LoginsInv
<1>1. Init => LoginsInv
    BY DEF Init, LoginsInv, OneAdmitted, Admitted, DrawnUnended, Draws,
           LoginSteps, StillHeld, OneWriter, Writing, Owes, EndedUnmarked,
           RepersistSteps, Owed, Noting,
           WonHaveNoRow, WonLeaveTheStore, WonUnmarked, OneSwaps
<1> QED BY <1>1, LoginsInvStep, UnwrittenOursHolds, OneOwnerHolds, AnsweredHolds,
           TypeCorrect, PTL DEF Spec

\* What SingleWinner says of one thread.
LoginWins(t) ==
    /\ Wins(t) => sid[t] \notin won
    /\ Proceeds(t) /\ sid[t] \in local[Home[t]] => sid[t] \notin ended \ table

\* Only replaceRow, replaceLocally and local.Replace carry a login on.
LEMMA LoginWinsStep ==
    ASSUME TypeOK, UnwrittenOurs, LoginsInv, faults' = 0, [Next]_vars,
           NEW u \in Threads
    PROVE  LoginWins(u)
<1> USE ConstantsAssumption DEF threadVars, Goto, Finish
<1>a. ASSUME pc'[u] = pc[u] \/ pc'[u] \notin {"rekeyed", "markLocal", "swapLocal"}
      PROVE  LoginWins(u)
    BY <1>a DEF LoginWins, Wins, Proceeds
<1>b. faults' # faults + 1 /\ faults = 0
    BY FaultsStay DEF TypeOK
<1>c. ASSUME pc[u] \in {"swapRow", "swapLocalRow"}, sid[u] \notin table,
             sid[u] \in unpersisted[Home[u]], sid[u] \in local[Home[u]]
      PROVE  sid[u] \notin ended
    <2>1. sid[u] \in Ids /\ Home[u] \in Replicas
        BY <1>c DEF TypeOK
    <2>2. \A v \in Threads : pc[v] \in Admitted /\ Home[v] = Home[u] => v = u
        BY <1>c DEF LoginsInv, OneAdmitted, Admitted
    <2>3. sid[u] \in Owed(Home[u])
        BY <1>c, <2>1 DEF LoginsInv, OneAdmitted, Admitted, RepersistSteps, Owed, Noting
    <2> QED BY <1>b, <1>c, <2>1, <2>2, <2>3 DEF LoginsInv, EndedUnmarked, Admitted
<1>1. ASSUME NEW t \in Threads, GetMissing(t) PROVE LoginWins(u)
    BY <1>1, <1>a DEF GetMissing, TypeOK
<1>2. ASSUME NEW t \in Threads, GetLocal(t) PROVE LoginWins(u)
    BY <1>2, <1>a DEF GetLocal, TypeOK
<1>3. ASSUME NEW t \in Threads, GetAdopt(t) PROVE LoginWins(u)
    BY <1>3, <1>a DEF GetAdopt, TypeOK
<1>4. ASSUME NEW t \in Threads, Respond(t) PROVE LoginWins(u)
    BY <1>4, <1>a DEF Respond, TypeOK
<1>5. ASSUME NEW t \in Threads, SaveInsert(t) PROVE LoginWins(u)
    BY <1>5, <1>a DEF SaveInsert, TypeOK
<1>6. ASSUME NEW t \in Threads, SaveFail(t) PROVE LoginWins(u)
    BY <1>6, <1>a DEF SaveFail, TypeOK
<1>7. ASSUME NEW t \in Threads, SavePublish(t) PROVE LoginWins(u)
    BY <1>7, <1>a DEF SavePublish, TypeOK
<1>8. ASSUME NEW t \in Threads, DeleteRow(t) PROVE LoginWins(u)
    BY <1>8, <1>a DEF DeleteRow, TypeOK
<1>9. ASSUME NEW t \in Threads, DeleteForget(t) PROVE LoginWins(u)
    BY <1>9, <1>a DEF DeleteForget, TypeOK
<1>10. ASSUME NEW t \in Threads, DeleteLocal(t) PROVE LoginWins(u)
    BY <1>10, <1>a DEF DeleteLocal, TypeOK
<1>11. ASSUME NEW t \in Threads, ReplaceRow(t) PROVE LoginWins(u)
    <2>1. CASE u = t /\ sid[t] \in table
        BY <1>11, <1>b, <2>1
        DEF LoginWins, Wins, Proceeds, LoginsInv, WonHaveNoRow
    <2>2. CASE u = t /\ sid[t] \notin table
        <3>1. pc'[t] # "rekeyed" /\ pc'[t] # "markLocal"
            BY <1>11, <1>b, <2>2 DEF ReplaceRow, ReplaceRefused, Fault, TypeOK
        <3>2. pc'[t] = "swapLocal" => sid[t] \in unpersisted[Home[t]]
            BY <1>11, <1>b, <2>2
            DEF ReplaceRow, ReplaceRefused, LoginLost, Fault, TypeOK
        <3> QED BY <1>11, <1>c, <2>2, <3>1, <3>2
                DEF LoginWins, Wins, Proceeds
    <2>3. CASE u # t
        BY <1>11, <2>3, <1>a DEF ReplaceRow, ReplaceRefused, TypeOK
    <2> QED BY <2>1, <2>2, <2>3
<1>12. ASSUME NEW t \in Threads, ReplaceForget(t) PROVE LoginWins(u)
    BY <1>12, <1>a DEF ReplaceForget, TypeOK
<1>13. ASSUME NEW t \in Threads, ReplaceDropOld(t) PROVE LoginWins(u)
    BY <1>13, <1>a DEF ReplaceDropOld, TypeOK
<1>14. ASSUME NEW t \in Threads, ReplacePublish(t) PROVE LoginWins(u)
    BY <1>14, <1>a DEF ReplacePublish, TypeOK
<1>15. ASSUME NEW t \in Threads, ReplaceLocally(t) PROVE LoginWins(u)
    <2>1. CASE u = t
        <3>1. pc'[t] # "rekeyed" /\ pc'[t] # "markLocal"
            BY <1>15 DEF ReplaceLocally, ReplaceRefused, TypeOK
        <3>2. pc'[t] = "swapLocal" =>
                  sid[t] \in table \/ sid[t] \in unpersisted[Home[t]]
            BY <1>15, <1>b
            DEF ReplaceLocally, ReplaceRefused, LoginLost, DeleteFails, Fault,
                TypeOK
        <3> QED BY <1>15, <1>c, <2>1, <3>1, <3>2
                DEF LoginWins, Wins, Proceeds
    <2>2. CASE u # t
        BY <1>15, <2>2, <1>a DEF ReplaceLocally, ReplaceRefused, TypeOK
    <2> QED BY <2>1, <2>2
<1>16. ASSUME NEW t \in Threads, ReplaceLocal(t) PROVE LoginWins(u)
    <2>1. CASE u = t
        BY <1>16, <1>b, <2>1
        DEF ReplaceLocal, LoginsInv, OneSwaps, LoginWins, Wins, Proceeds
    <2>2. CASE u # t
        BY <1>16, <2>2, <1>a DEF ReplaceLocal, ReplaceRefused, TypeOK
    <2> QED BY <2>1, <2>2
<1>17. ASSUME NEW t \in Threads, ReplaceMarkLocal(t) PROVE LoginWins(u)
    BY <1>17, <1>a DEF ReplaceMarkLocal, TypeOK
<1>18. ASSUME NEW t \in Threads, NEW id \in Ids, GetSelect(t, id)
      PROVE  LoginWins(u)
    BY <1>18, <1>a DEF GetSelect, TypeOK
<1>19. ASSUME NEW t \in Threads, NEW id \in Ids, GetDegraded(t, id)
      PROVE  LoginWins(u)
    BY <1>19, <1>a DEF GetDegraded, TypeOK
<1>20. ASSUME NEW t \in Threads, NEW id \in Ids, SaveAdmit(t, id)
      PROVE  LoginWins(u)
    BY <1>20, <1>a DEF SaveAdmit, TypeOK
<1>21. ASSUME NEW t \in Threads, NEW id \in Ids, ReplaceBegin(t, id)
      PROVE  LoginWins(u)
    BY <1>21, <1>a DEF ReplaceBegin, TypeOK
<1>22. ASSUME NEW r \in Replicas, ReapEpoch(r) PROVE LoginWins(u)
    BY <1>22, <1>a DEF ReapEpoch, TypeOK
<1>23. ASSUME NEW r \in Replicas, ReapScan(r) PROVE LoginWins(u)
    BY <1>23, <1>a DEF ReapScan, TypeOK
<1>24. ASSUME NEW r \in Replicas, ReapScanFails(r) PROVE LoginWins(u)
    BY <1>24, <1>a DEF ReapScanFails, TypeOK
<1>25. ASSUME NEW r \in Replicas, ReapCount(r) PROVE LoginWins(u)
    BY <1>25, <1>a DEF ReapCount, TypeOK
<1>26. ASSUME NEW r \in Replicas, RepersistSnapshot(r) PROVE LoginWins(u)
    BY <1>26, <1>a DEF RepersistSnapshot, TypeOK
<1>27. ASSUME NEW r \in Replicas, RepersistLock(r) PROVE LoginWins(u)
    BY <1>27, <1>a DEF RepersistLock, TypeOK
<1>28. ASSUME NEW r \in Replicas, RepersistUnlock(r) PROVE LoginWins(u)
    BY <1>28, <1>a DEF RepersistUnlock, TypeOK
<1>29. ASSUME NEW r \in Replicas, ReapLocal(r) PROVE LoginWins(u)
    BY <1>29, <1>a DEF ReapLocal, TypeOK
<1>30. ASSUME NEW r \in Replicas, ReapPrune(r) PROVE LoginWins(u)
    BY <1>30, <1>a DEF ReapPrune, TypeOK
<1>31. ASSUME NEW r \in Replicas, NEW id \in Ids, RepersistSkip(r, id)
      PROVE  LoginWins(u)
    BY <1>31, <1>a DEF RepersistSkip, TypeOK
<1>32a. ASSUME NEW r \in Replicas, NEW id \in Ids, RepersistReserve(r, id)
      PROVE  LoginWins(u)
    BY <1>32a, <1>a DEF RepersistReserve, TypeOK
<1>32. ASSUME NEW r \in Replicas, NEW id \in Ids, RepersistInsert(r, id)
      PROVE  LoginWins(u)
    BY <1>32, <1>a DEF RepersistInsert, TypeOK
<1>32b. ASSUME NEW r \in Replicas, NEW id \in Ids, RepersistNote(r, id)
      PROVE  LoginWins(u)
    BY <1>32b, <1>a DEF RepersistNote, TypeOK
<1>33. ASSUME NEW r \in Replicas, NEW id \in Ids, BuryForget(r, id)
      PROVE  LoginWins(u)
    BY <1>33, <1>a DEF BuryForget, TypeOK
<1>34. ASSUME NEW r \in Replicas, NEW id \in Ids, BuryRow(r, id)
      PROVE  LoginWins(u)
    BY <1>34, <1>a DEF BuryRow, TypeOK
<1>35. ASSUME NEW r \in Replicas, NEW id \in Ids, Abandon(r, id)
      PROVE  LoginWins(u)
    BY <1>35, <1>a DEF Abandon, TypeOK
<1>36. ASSUME NEW r \in Replicas, NEW id \in Ids, AbandonRow(r, id)
      PROVE  LoginWins(u)
    BY <1>36, <1>a DEF AbandonRow, TypeOK
<1>37. ASSUME NEW r \in Replicas, Restart(r) PROVE LoginWins(u)
    BY <1>37, <1>a DEF Restart, TypeOK
<1>38. CASE UNCHANGED vars
    BY <1>38, <1>a DEF vars
<1> QED
    BY <1>1, <1>2, <1>3, <1>4, <1>5, <1>6, <1>7, <1>8, <1>9, <1>10, <1>11,
       <1>12, <1>13, <1>14, <1>15, <1>16, <1>17, <1>18, <1>19, <1>20,
       <1>21, <1>22, <1>23, <1>24, <1>25, <1>26, <1>27, <1>28, <1>29,
       <1>30, <1>31, <1>32a, <1>32, <1>32b, <1>33, <1>34, <1>35, <1>36, <1>37, <1>38
    DEF Next, ThreadStep, Request, ReaperStep

\* While storage answers, one login wins a session, whatever the replicas and
\* their requests interleave, with or without room for markers and rows.
THEOREM OneLoginWins == Spec => SingleWinner
<1>1. TypeOK /\ UnwrittenOurs /\ LoginsInv /\ [Next]_vars =>
          [\A t \in Threads : faults' = 0 =>
              /\ Wins(t) => sid[t] \notin won
              /\ Proceeds(t) /\ sid[t] \in local[Home[t]]
                    => sid[t] \notin ended \ table]_vars
    BY LoginWinsStep DEF LoginWins
<1> QED BY <1>1, TypeCorrect, UnwrittenOursHolds, LoginsInvHolds, PTL
        DEF Spec, SingleWinner

-----------------------------------------------------------------------------
(***************************************************************************)
(* What a sweep takes for ended elsewhere.  A session that the scan has    *)
(* not seen, and that nobody has ended, was written since: Unseen.  It is  *)
(* safe from the sweep by the marker that Save, Replace, repersist and     *)
(* Get's adoption leave before they write or adopt.  Covered is the        *)
(* invariant: whatever is unseen and in play on a replica has its marker,  *)
(* or the history says that it was left without; and a request that is to  *)
(* bring it into play, or to write it, has left the marker already.        *)
(***************************************************************************)

\* A generation that is newer than the last scan is in the map.
FreshStamped == \A r \in Replicas : fresh[r] \subseteq stamped[r]

\* A generation goes with its entry, but where a sweep begins.
FreshGoes ==
    \A r \in Replicas : rpc'[r] = "scan" \/ (fresh[r] \ fresh'[r]) \cap stamped'[r] = {}

\* memStore.Save and its eviction hook, as far as the generations go.
LEMMA PutLocalMarks ==
    ASSUME TypeOK, FreshStamped, NEW r \in Replicas, NEW id, NEW T, PutLocal(r, id, T)
    PROVE  /\ FreshStamped'
           /\ \A q \in Replicas : (fresh[q] \ fresh'[q]) \cap stamped'[q] = {}
           /\ \A q \in Replicas : (fresh[q] \ fresh'[q]) \cap local'[q] = {}
           /\ \A q \in Replicas : (fresh[q] \ fresh'[q]) \subseteq local[q]
<1>1. CASE /\ local' = [local EXCEPT ![r] = @ \cup {id}]
           /\ UNCHANGED markVars
    BY <1>1 DEF TypeOK, markVars, FreshStamped
<1>2. ASSUME NEW victim \in local[r], id # victim,
             local' = [local EXCEPT ![r] = (@ \ {victim}) \cup {id}],
             Forget(r, victim, {})
      PROVE  /\ FreshStamped'
             /\ \A q \in Replicas : (fresh[q] \ fresh'[q]) \cap stamped'[q] = {}
             /\ \A q \in Replicas : (fresh[q] \ fresh'[q]) \cap local'[q] = {}
             /\ \A q \in Replicas : (fresh[q] \ fresh'[q]) \subseteq local[q]
    BY <1>2 DEF TypeOK, Forget, Unstamp, FreshStamped
<1> QED BY <1>1, <1>2 DEF PutLocal

\* reserveGeneration, releaseGeneration, handOffGeneration, forget and
\* pruneGenerations keep the two in step.
LEMMA FreshStep ==
    ASSUME TypeOK, FreshStamped, [Next]_vars
    PROVE  FreshStamped' /\ FreshGoes
<1> DEFINE Goal == FreshStamped' /\ FreshGoes
<1> USE ConstantsAssumption DEF markVars, reaperVars, RGoto
<1>a. \A q \in Replicas : fresh[q] \subseteq stamped[q]
    BY DEF FreshStamped
<1>b. ASSUME UNCHANGED <<fresh, stamped>> PROVE Goal
    BY <1>a, <1>b DEF FreshStamped, FreshGoes

<1>1. ASSUME NEW t \in Threads, GetMissing(t) PROVE Goal
    BY <1>1, <1>b DEF GetMissing
<1>2. ASSUME NEW t \in Threads, GetLocal(t) PROVE Goal
    BY <1>2, <1>a DEF GetLocal, Stamp, FreshStamped, FreshGoes, TypeOK
<1>3. ASSUME NEW t \in Threads, GetAdopt(t) PROVE Goal
    BY <1>3, PutLocalMarks DEF GetAdopt, FreshGoes
<1>4. ASSUME NEW t \in Threads, Respond(t) PROVE Goal
    BY <1>4, <1>b DEF Respond
<1>5. ASSUME NEW t \in Threads, SaveInsert(t) PROVE Goal
    BY <1>5, <1>a DEF SaveInsert, InsertCommits, CommitFails, InsertRefused, Unstamp,
           FreshStamped, FreshGoes, TypeOK
<1>6. ASSUME NEW t \in Threads, SaveFail(t) PROVE Goal
    BY <1>6, <1>b DEF SaveFail
<1>7. ASSUME NEW t \in Threads, SavePublish(t) PROVE Goal
    BY <1>7, PutLocalMarks DEF SavePublish, FreshGoes
<1>8. ASSUME NEW t \in Threads, DeleteRow(t) PROVE Goal
    BY <1>8, <1>b DEF DeleteRow
<1>9. ASSUME NEW t \in Threads, DeleteForget(t) PROVE Goal
    BY <1>9, <1>a DEF DeleteForget, Forget, Unstamp, FreshStamped, FreshGoes, TypeOK
<1>10. ASSUME NEW t \in Threads, DeleteLocal(t) PROVE Goal
    BY <1>10, <1>b DEF DeleteLocal
<1>11. ASSUME NEW t \in Threads, ReplaceRow(t) PROVE Goal
    BY <1>11, <1>a DEF ReplaceRow, ReplaceRefused, Unstamp, FreshStamped, FreshGoes,
           TypeOK
<1>12. ASSUME NEW t \in Threads, ReplaceForget(t) PROVE Goal
    BY <1>12, <1>a DEF ReplaceForget, Forget, Unstamp, FreshStamped, FreshGoes, TypeOK
<1>13. ASSUME NEW t \in Threads, ReplaceDropOld(t) PROVE Goal
    BY <1>13, <1>b DEF ReplaceDropOld
<1>14. ASSUME NEW t \in Threads, ReplacePublish(t) PROVE Goal
    BY <1>14, PutLocalMarks DEF ReplacePublish, FreshGoes
<1>15. ASSUME NEW t \in Threads, ReplaceLocally(t) PROVE Goal
    BY <1>15, <1>b DEF ReplaceLocally
<1>16. ASSUME NEW t \in Threads, ReplaceLocal(t) PROVE Goal
    BY <1>16, <1>b DEF ReplaceLocal
<1>17. ASSUME NEW t \in Threads, ReplaceMarkLocal(t) PROVE Goal
    BY <1>17, <1>a DEF ReplaceMarkLocal, Forget, Unstamp, FreshStamped, FreshGoes,
           TypeOK
<1>18. ASSUME NEW t \in Threads, NEW id \in Ids, GetSelect(t, id) PROVE Goal
    BY <1>18, <1>b DEF GetSelect
<1>19. ASSUME NEW t \in Threads, NEW id \in Ids, GetDegraded(t, id) PROVE Goal
    BY <1>19, <1>b DEF GetDegraded
<1>20. ASSUME NEW t \in Threads, NEW id \in Ids, SaveAdmit(t, id) PROVE Goal
    BY <1>20, <1>a DEF SaveAdmit, Stamp, FreshStamped, FreshGoes, TypeOK
<1>21. ASSUME NEW t \in Threads, NEW id \in Ids, ReplaceBegin(t, id) PROVE Goal
    BY <1>21, <1>a DEF ReplaceBegin, HandOff, FreshStamped, FreshGoes, TypeOK
<1>22. ASSUME NEW r \in Replicas, ReapEpoch(r) PROVE Goal
    BY <1>22, <1>a DEF ReapEpoch, FreshStamped, FreshGoes, TypeOK
<1>23. ASSUME NEW r \in Replicas, ReapScan(r) PROVE Goal
    BY <1>23, <1>b DEF ReapScan
<1>24. ASSUME NEW r \in Replicas, ReapScanFails(r) PROVE Goal
    BY <1>24, <1>b DEF ReapScanFails
<1>25. ASSUME NEW r \in Replicas, ReapCount(r) PROVE Goal
    BY <1>25, <1>b DEF ReapCount
<1>26. ASSUME NEW r \in Replicas, RepersistSnapshot(r) PROVE Goal
    BY <1>26, <1>b DEF RepersistSnapshot
<1>27. ASSUME NEW r \in Replicas, RepersistLock(r) PROVE Goal
    BY <1>27, <1>b DEF RepersistLock
<1>28. ASSUME NEW r \in Replicas, RepersistUnlock(r) PROVE Goal
    BY <1>28, <1>b DEF RepersistUnlock
<1>29. ASSUME NEW r \in Replicas, ReapLocal(r) PROVE Goal
    BY <1>29, <1>b DEF ReapLocal
<1>30. ASSUME NEW r \in Replicas, ReapPrune(r) PROVE Goal
    BY <1>30, <1>a DEF ReapPrune, Spent, FreshStamped, FreshGoes, TypeOK
<1>31. ASSUME NEW r \in Replicas, NEW id \in Ids, RepersistSkip(r, id) PROVE Goal
    BY <1>31, <1>b DEF RepersistSkip
<1>32a. ASSUME NEW r \in Replicas, NEW id \in Ids, RepersistReserve(r, id) PROVE Goal
    BY <1>32a, <1>a DEF RepersistReserve, Stamp, FreshStamped, FreshGoes, TypeOK
<1>32. ASSUME NEW r \in Replicas, NEW id \in Ids, RepersistInsert(r, id) PROVE Goal
    BY <1>32, <1>a DEF RepersistInsert, InsertCommits, CommitFails, InsertRefused,
           Unstamp, FreshStamped, FreshGoes, TypeOK
<1>32b. ASSUME NEW r \in Replicas, NEW id \in Ids, RepersistNote(r, id) PROVE Goal
    BY <1>32b, <1>b DEF RepersistNote
<1>33. ASSUME NEW r \in Replicas, NEW id \in Ids, BuryForget(r, id) PROVE Goal
    BY <1>33, <1>a DEF BuryForget, Forget, Unstamp, FreshStamped, FreshGoes, TypeOK
<1>34. ASSUME NEW r \in Replicas, NEW id \in Ids, BuryRow(r, id) PROVE Goal
    BY <1>34, <1>b DEF BuryRow
<1>35. ASSUME NEW r \in Replicas, NEW id \in Ids, Abandon(r, id) PROVE Goal
    BY <1>35, <1>b DEF Abandon
<1>36. ASSUME NEW r \in Replicas, NEW id \in Ids, AbandonRow(r, id) PROVE Goal
    BY <1>36, <1>b DEF AbandonRow
<1>37. ASSUME NEW r \in Replicas, Restart(r) PROVE Goal
    BY <1>37, <1>a DEF Restart, FreshStamped, FreshGoes, TypeOK
<1>38. CASE UNCHANGED vars
    BY <1>38, <1>b DEF vars
<1> QED
    BY <1>1, <1>2, <1>3, <1>4, <1>5, <1>6, <1>7, <1>8, <1>9, <1>10, <1>11,
       <1>12, <1>13, <1>14, <1>15, <1>16, <1>17, <1>18, <1>19, <1>20,
       <1>21, <1>22, <1>23, <1>24, <1>25, <1>26, <1>27, <1>28, <1>29,
       <1>30, <1>31, <1>32a, <1>32, <1>32b, <1>33, <1>34, <1>35, <1>36, <1>37, <1>38
    DEF Next, ThreadStep, Request, ReaperStep


\* A session is in no local store before its request publishes it, but between
\* local.Replace and the mark that follows; and repersist writes none such.
DrawnApart ==
    \A t \in Threads, id \in Ids, r \in Replicas : Draws(t, id) =>
        /\ id \in local[r] => r = Home[t] /\ pc[t] = "markLocal"
        /\ rpc[r] = "write" => id \notin target[r]

\* The steps that publish nothing.
LEMMA ApartKept ==
    ASSUME TypeOK, DrawnApart, UnwrittenIsPrivate,
           \A t \in Threads, j \in Ids : Draws(t, j)' =>
               \/ j \notin minted
               \/ Draws(t, j) /\ (pc[t] = "markLocal" => pc'[t] = "markLocal"),
           \A q \in Replicas, j \in Ids : j \in local'[q] => j \in local[q],
           \A q \in Replicas, j \in Ids : rpc'[q] = "write" /\ j \in target'[q] =>
               rpc[q] = "write" /\ j \in target[q]
    PROVE  DrawnApart'
<1>1. \A q \in Replicas, j \in Ids : j \in local[q] => j \in minted
    BY DEF UnwrittenIsPrivate, Touches
<1>2. \A q \in Replicas, j \in Ids : rpc[q] = "write" /\ j \in target[q] => j \in minted
    BY DEF UnwrittenIsPrivate, Touches, Marks, TypeOK, OneTarget
<1> QED BY <1>1, <1>2 DEF DrawnApart

\* Save and Replace publish with their last step, and repersist under the mutex
\* writes only what is published.
LEMMA DrawnApartStep ==
    ASSUME TypeOK, TypeOK', UnwrittenIsPrivate, DrawnOnce, OneAdmitted, DrawnApart, [Next]_vars
    PROVE  DrawnApart'
<1> USE ConstantsAssumption DEF threadVars, reaperVars, Goto, RGoto, Finish
<1> DEFINE Goal ==
        /\ \A t \in Threads, j \in Ids : Draws(t, j)' =>
               \/ j \notin minted
               \/ Draws(t, j) /\ (pc[t] = "markLocal" => pc'[t] = "markLocal")
        /\ \A q \in Replicas, j \in Ids : j \in local'[q] => j \in local[q]
        /\ \A q \in Replicas, j \in Ids : rpc'[q] = "write" /\ j \in target'[q] =>
               rpc[q] = "write" /\ j \in target[q]
<1>a. ASSUME Goal PROVE DrawnApart'
    BY <1>a, ApartKept
<1>b. ASSUME UNCHANGED <<pc, sid, nid>> PROVE
          \A t \in Threads, j \in Ids : Draws(t, j)' =>
              Draws(t, j) /\ (pc[t] = "markLocal" => pc'[t] = "markLocal")
    BY <1>b DEF Draws
<1>c. ASSUME NEW t \in Threads, NEW new \in Ids, NEW T, PutLocal(Home[t], new, T),
             Draws(t, new) \/ (pc[t] = "adopt" /\ sid[t] = new),
             \A u \in Threads, j \in Ids : Draws(u, j)' =>
                 u # t /\ Draws(u, j) /\ (pc[u] = "markLocal" => pc'[u] = "markLocal"),
             UNCHANGED <<rpc, target>>
      PROVE  DrawnApart'
    <2>1. \A q \in Replicas, j \in Ids : j \in local'[q] => j \in local[q] \/ j = new
        BY <1>c, PutLocalAdds
    <2>2. \A u \in Threads : u # t => ~Draws(u, new)
        BY <1>c DEF DrawnOnce, Draws, LoginSteps
    <2> QED BY <1>c, <2>1, <2>2 DEF DrawnApart

<1>1. ASSUME NEW t \in Threads, GetMissing(t) PROVE DrawnApart'
    BY <1>1, <1>a DEF GetMissing, TypeOK, Draws, LoginSteps
<1>2. ASSUME NEW t \in Threads, GetLocal(t) PROVE DrawnApart'
    BY <1>2, <1>a DEF GetLocal, TypeOK, Draws, LoginSteps
<1>3. ASSUME NEW t \in Threads, GetAdopt(t) PROVE DrawnApart'
    <2>1. sid[t] \in Ids
        BY <1>3 DEF GetAdopt, TypeOK, LoginSteps
    <2>2. \A u \in Threads, j \in Ids : Draws(u, j)' =>
              u # t /\ Draws(u, j) /\ (pc[u] = "markLocal" => pc'[u] = "markLocal")
        BY <1>3 DEF GetAdopt, TypeOK, Draws, LoginSteps
    <2>3. pc[t] = "adopt"
        BY <1>3 DEF GetAdopt, Draws, LoginSteps
    <2>4. UNCHANGED <<rpc, target>> /\ PutLocal(Home[t], sid[t], {t})
        BY <1>3 DEF GetAdopt
    <2> QED BY <2>1, <2>2, <2>3, <2>4, <1>c
<1>4. ASSUME NEW t \in Threads, Respond(t) PROVE DrawnApart'
    BY <1>4, <1>a DEF Respond, TypeOK, Draws, LoginSteps
<1>5. ASSUME NEW t \in Threads, SaveInsert(t) PROVE DrawnApart'
    BY <1>5, <1>a DEF SaveInsert, TypeOK, Draws, LoginSteps
<1>6. ASSUME NEW t \in Threads, SaveFail(t) PROVE DrawnApart'
    BY <1>6, <1>a DEF SaveFail, TypeOK, Draws, LoginSteps
<1>7. ASSUME NEW t \in Threads, SavePublish(t) PROVE DrawnApart'
    <2>1. sid[t] \in Ids
        BY <1>7 DEF SavePublish, TypeOK, LoginSteps
    <2>2. \A u \in Threads, j \in Ids : Draws(u, j)' =>
              u # t /\ Draws(u, j) /\ (pc[u] = "markLocal" => pc'[u] = "markLocal")
        BY <1>7 DEF SavePublish, TypeOK, Draws, LoginSteps
    <2>3. Draws(t, sid[t])
        BY <1>7 DEF SavePublish, Draws, LoginSteps
    <2>4. UNCHANGED <<rpc, target>> /\ PutLocal(Home[t], sid[t], {})
        BY <1>7 DEF SavePublish
    <2> QED BY <2>1, <2>2, <2>3, <2>4, <1>c
<1>8. ASSUME NEW t \in Threads, DeleteRow(t) PROVE DrawnApart'
    BY <1>8, <1>a DEF DeleteRow, TypeOK, Draws, LoginSteps
<1>9. ASSUME NEW t \in Threads, DeleteForget(t) PROVE DrawnApart'
    BY <1>9, <1>a DEF DeleteForget, TypeOK, Draws, LoginSteps
<1>10. ASSUME NEW t \in Threads, DeleteLocal(t) PROVE DrawnApart'
    BY <1>10, <1>a DEF DeleteLocal, DropLocal, TypeOK, Draws, LoginSteps
<1>11. ASSUME NEW t \in Threads, ReplaceRow(t) PROVE DrawnApart'
    BY <1>11, <1>a DEF ReplaceRow, ReplaceRefused, TypeOK, Draws, LoginSteps
<1>12. ASSUME NEW t \in Threads, ReplaceForget(t) PROVE DrawnApart'
    BY <1>12, <1>a DEF ReplaceForget, TypeOK, Draws, LoginSteps
<1>13. ASSUME NEW t \in Threads, ReplaceDropOld(t) PROVE DrawnApart'
    BY <1>13, <1>a DEF ReplaceDropOld, DropLocal, TypeOK, Draws, LoginSteps
<1>14. ASSUME NEW t \in Threads, ReplacePublish(t) PROVE DrawnApart'
    <2>1. nid[t] \in Ids
        BY <1>14 DEF ReplacePublish, TypeOK, LoginSteps
    <2>2. \A u \in Threads, j \in Ids : Draws(u, j)' =>
              u # t /\ Draws(u, j) /\ (pc[u] = "markLocal" => pc'[u] = "markLocal")
        BY <1>14 DEF ReplacePublish, TypeOK, Draws, LoginSteps
    <2>3. Draws(t, nid[t])
        BY <1>14 DEF ReplacePublish, Draws, LoginSteps
    <2>4. UNCHANGED <<rpc, target>> /\ PutLocal(Home[t], nid[t], {})
        BY <1>14 DEF ReplacePublish
    <2> QED BY <2>1, <2>2, <2>3, <2>4, <1>c
<1>15. ASSUME NEW t \in Threads, ReplaceLocally(t) PROVE DrawnApart'
    BY <1>15, <1>a DEF ReplaceLocally, ReplaceRefused, TypeOK, Draws, LoginSteps
<1>16. ASSUME NEW t \in Threads, ReplaceLocal(t) PROVE DrawnApart'
    <2>1. sid[t] \in Ids /\ nid[t] \in Ids /\ Home[t] \in Replicas /\ Draws(t, nid[t])
        BY <1>16 DEF ReplaceLocal, TypeOK, LoginSteps, Draws
    <2>2. CASE ReplaceRefused(t) /\ UNCHANGED local
        <3>1. Goal
            BY <1>16, <2>2 DEF ReplaceLocal, ReplaceRefused, TypeOK, Draws, LoginSteps
        <3> QED BY <3>1, <1>a
    <2>3. CASE /\ local' = [local EXCEPT ![Home[t]] = (@ \ {sid[t]}) \cup {nid[t]}]
               /\ Goto(t, "markLocal")
        <3>1. \A u \in Threads, j \in Ids : Draws(u, j)' =>
                  Draws(u, j) /\ (j = nid[t] => u = t)
            BY <1>16, <2>1, <2>3 DEF ReplaceLocal, TypeOK, Draws, LoginSteps, DrawnOnce
        <3>a. \A q \in Replicas : local'[q] =
                  IF q = Home[t] THEN (local[q] \ {sid[t]}) \cup {nid[t]} ELSE local[q]
            <4>1. local \in [Replicas -> SUBSET Ids]
                BY DEF TypeOK
            <4> QED BY <2>3, <4>1
        <3>2. \A q \in Replicas, j \in Ids :
                  j \in local'[q] => j \in local[q] \/ (q = Home[t] /\ j = nid[t])
            BY <3>a
        <3>3. pc'[t] = "markLocal" /\ \A u \in Threads : u # t => pc'[u] = pc[u]
            BY <2>3 DEF TypeOK
        <3>4. \A u \in Threads, j \in Ids, q \in Replicas : Draws(u, j)' /\ j \in local'[q] =>
                  q = Home[u] /\ pc'[u] = "markLocal"
            BY <2>1, <3>1, <3>2, <3>3 DEF DrawnApart
        <3>5. UNCHANGED <<rpc, target>>
            BY <1>16 DEF ReplaceLocal
        <3> QED BY <3>1, <3>4, <3>5 DEF DrawnApart
    <2>4. CASE sid[t] \in local[Home[t]] /\ t \in held
        <3>1. local' = [local EXCEPT ![Home[t]] = (@ \ {sid[t]}) \cup {nid[t]}]
            BY <1>16, <2>4 DEF ReplaceLocal
        <3>2. Goto(t, "markLocal")
            BY <1>16, <2>4 DEF ReplaceLocal
        <3> QED BY <2>3, <3>1, <3>2
    <2>5. CASE ~(sid[t] \in local[Home[t]] /\ t \in held)
        BY <1>16, <2>2, <2>5 DEF ReplaceLocal
    <2> QED BY <2>4, <2>5
<1>17. ASSUME NEW t \in Threads, ReplaceMarkLocal(t) PROVE DrawnApart'
    BY <1>17, <1>a DEF ReplaceMarkLocal, TypeOK, Draws, LoginSteps
<1>18. ASSUME NEW t \in Threads, NEW id \in Ids, GetSelect(t, id) PROVE DrawnApart'
    BY <1>18, <1>a DEF GetSelect, TypeOK, Draws, LoginSteps
<1>19. ASSUME NEW t \in Threads, NEW id \in Ids, GetDegraded(t, id) PROVE DrawnApart'
    BY <1>19, <1>a DEF GetDegraded, TypeOK, Draws, LoginSteps
<1>20. ASSUME NEW t \in Threads, NEW id \in Ids, SaveAdmit(t, id) PROVE DrawnApart'
    BY <1>20, <1>a DEF SaveAdmit, TypeOK, Draws, LoginSteps
<1>21. ASSUME NEW t \in Threads, NEW id \in Ids, ReplaceBegin(t, id) PROVE DrawnApart'
    BY <1>21, <1>a DEF ReplaceBegin, TypeOK, Draws, LoginSteps
<1>22. ASSUME NEW r \in Replicas, ReapEpoch(r) PROVE DrawnApart'
    BY <1>22, <1>a, <1>b DEF ReapEpoch, TypeOK
<1>23. ASSUME NEW r \in Replicas, ReapScan(r) PROVE DrawnApart'
    BY <1>23, <1>a, <1>b DEF ReapScan, TypeOK
<1>24. ASSUME NEW r \in Replicas, ReapScanFails(r) PROVE DrawnApart'
    BY <1>24, <1>a, <1>b DEF ReapScanFails, DropLocal, TypeOK
<1>25. ASSUME NEW r \in Replicas, ReapCount(r) PROVE DrawnApart'
    BY <1>25, <1>a, <1>b DEF ReapCount, TypeOK
<1>26. ASSUME NEW r \in Replicas, RepersistSnapshot(r) PROVE DrawnApart'
    BY <1>26, <1>a, <1>b DEF RepersistSnapshot, TypeOK
<1>27. ASSUME NEW r \in Replicas, RepersistLock(r) PROVE DrawnApart'
    BY <1>27, <1>a, <1>b DEF RepersistLock, TypeOK
<1>28. ASSUME NEW r \in Replicas, RepersistUnlock(r) PROVE DrawnApart'
    BY <1>28, <1>a, <1>b DEF RepersistUnlock, TypeOK
<1>29. ASSUME NEW r \in Replicas, ReapLocal(r) PROVE DrawnApart'
    BY <1>29, <1>a, <1>b DEF ReapLocal, DropLocal, TypeOK
<1>30. ASSUME NEW r \in Replicas, ReapPrune(r) PROVE DrawnApart'
    BY <1>30, <1>a, <1>b DEF ReapPrune, TypeOK
<1>31. ASSUME NEW r \in Replicas, NEW id \in Ids, RepersistSkip(r, id) PROVE DrawnApart'
    BY <1>31, <1>a, <1>b DEF RepersistSkip, TypeOK
<1>32a. ASSUME NEW r \in Replicas, NEW id \in Ids, RepersistReserve(r, id) PROVE DrawnApart'
    <2>1. \A u \in Threads : ~Draws(u, id)
        BY <1>32a DEF RepersistReserve, DrawnApart, OneAdmitted, Admitted, RepersistSteps
    <2>2. /\ UNCHANGED <<pc, sid, nid, local>>
          /\ \A q \in Replicas, j \in Ids : rpc'[q] = "write" /\ j \in target'[q] =>
                 j = id \/ (rpc[q] = "write" /\ j \in target[q])
        BY <1>32a DEF RepersistReserve, TypeOK
    <2> QED BY <2>1, <2>2 DEF DrawnApart, Draws
<1>32. ASSUME NEW r \in Replicas, NEW id \in Ids, RepersistInsert(r, id) PROVE DrawnApart'
    BY <1>32, <1>a, <1>b DEF RepersistInsert, TypeOK
<1>32b. ASSUME NEW r \in Replicas, NEW id \in Ids, RepersistNote(r, id) PROVE DrawnApart'
    BY <1>32b, <1>a, <1>b DEF RepersistNote, TypeOK
<1>33. ASSUME NEW r \in Replicas, NEW id \in Ids, BuryForget(r, id) PROVE DrawnApart'
    BY <1>33, <1>a, <1>b DEF BuryForget, TypeOK
<1>34. ASSUME NEW r \in Replicas, NEW id \in Ids, BuryRow(r, id) PROVE DrawnApart'
    BY <1>34, <1>a, <1>b DEF BuryRow, TypeOK
<1>35. ASSUME NEW r \in Replicas, NEW id \in Ids, Abandon(r, id) PROVE DrawnApart'
    BY <1>35, <1>a, <1>b DEF Abandon, TypeOK
<1>36. ASSUME NEW r \in Replicas, NEW id \in Ids, AbandonRow(r, id) PROVE DrawnApart'
    BY <1>36, <1>a, <1>b DEF AbandonRow, TypeOK
<1>37. ASSUME NEW r \in Replicas, Restart(r) PROVE DrawnApart'
    BY <1>37, <1>a DEF Restart, TypeOK, Draws, LoginSteps
<1>38. CASE UNCHANGED vars
    <2>1. Goal
        BY <1>38, <1>b DEF vars
    <2> QED BY <2>1, <1>a
<1> QED
    BY <1>1, <1>2, <1>3, <1>4, <1>5, <1>6, <1>7, <1>8, <1>9, <1>10, <1>11,
       <1>12, <1>13, <1>14, <1>15, <1>16, <1>17, <1>18, <1>19, <1>20,
       <1>21, <1>22, <1>23, <1>24, <1>25, <1>26, <1>27, <1>28, <1>29,
       <1>30, <1>31, <1>32a, <1>32, <1>32b, <1>33, <1>34, <1>35, <1>36, <1>37, <1>38
    DEF Next, ThreadStep, Request, ReaperStep

\* What was written since the scan, and is neither ended nor excused.
Unseen(r) == stored \ (ended \cup present[r] \cup raced[r])

\* A row that was written and not ended is there.
RowsStay == stored \ ended \subseteq table

\* The row repersist is about to write.
ToWrite(r) == IF rpc[r] = "write" THEN target[r] ELSE {}

\* A session that a request of its own is about to write, or to publish.
Writes(t, id) ==
    \/ pc[t] = "saveInsert" /\ sid[t] = id
    \/ pc[t] = "swapRow" /\ nid[t] = id
Brings(t, id) ==
    \/ pc[t] \in {"saveFail", "savePublish"} /\ sid[t] = id
    \/ pc[t] \in {"swapLocalRow", "swapLocal", "rekeyed", "dropOld", "publishNew"} /\ nid[t] = id

\* A session a sweep may find, or that is about to be where a sweep finds it.
InPlay(r, id) == id \in local[r] \/ Adopting(r, id)

Covered(r) == Scanned(r) => \A id \in Ids :
    /\ id \in Unseen(r) \cup ToWrite(r) /\ InPlay(r, id) => id \in fresh[r] \cup unmarked[r]
    /\ \A t \in Threads : Home[t] = r =>
          /\ Brings(t, id) /\ id \in Unseen(r) => id \in fresh[r]
          /\ Writes(t, id) => id \in fresh[r] \cup raced[r]

\* A request has not written yet what it is about to write.
WritesNew == \A t \in Threads, id \in Ids : Writes(t, id) => id \notin stored

\* Every step that removes a row ends its session.
LEMMA RowsStayStep ==
    ASSUME RowsStay, [Next]_vars
    PROVE  RowsStay'
<1> USE ConstantsAssumption DEF dbVars, endVars, RowsStay
<1>1. ASSUME NEW t \in Threads, GetMissing(t) PROVE RowsStay'
    BY <1>1 DEF GetMissing
<1>2. ASSUME NEW t \in Threads, GetLocal(t) PROVE RowsStay'
    BY <1>2 DEF GetLocal
<1>3. ASSUME NEW t \in Threads, GetAdopt(t) PROVE RowsStay'
    BY <1>3 DEF GetAdopt
<1>4. ASSUME NEW t \in Threads, Respond(t) PROVE RowsStay'
    BY <1>4 DEF Respond
<1>5. ASSUME NEW t \in Threads, SaveInsert(t) PROVE RowsStay'
    BY <1>5 DEF SaveInsert, InsertCommits, CommitFails, InsertRefused
<1>6. ASSUME NEW t \in Threads, SaveFail(t) PROVE RowsStay'
    BY <1>6 DEF SaveFail
<1>7. ASSUME NEW t \in Threads, SavePublish(t) PROVE RowsStay'
    BY <1>7 DEF SavePublish
<1>8. ASSUME NEW t \in Threads, DeleteRow(t) PROVE RowsStay'
    BY <1>8 DEF DeleteRow, DeleteAnswered, DeleteFails, EndIfGone
<1>9. ASSUME NEW t \in Threads, DeleteForget(t) PROVE RowsStay'
    BY <1>9 DEF DeleteForget
<1>10. ASSUME NEW t \in Threads, DeleteLocal(t) PROVE RowsStay'
    BY <1>10 DEF DeleteLocal
<1>11. ASSUME NEW t \in Threads, ReplaceRow(t) PROVE RowsStay'
    BY <1>11 DEF ReplaceRow, ReplaceRefused
<1>12. ASSUME NEW t \in Threads, ReplaceForget(t) PROVE RowsStay'
    BY <1>12 DEF ReplaceForget
<1>13. ASSUME NEW t \in Threads, ReplaceDropOld(t) PROVE RowsStay'
    BY <1>13 DEF ReplaceDropOld
<1>14. ASSUME NEW t \in Threads, ReplacePublish(t) PROVE RowsStay'
    BY <1>14 DEF ReplacePublish
<1>15. ASSUME NEW t \in Threads, ReplaceLocally(t) PROVE RowsStay'
    BY <1>15 DEF ReplaceLocally, DeleteAnswered, DeleteFails, EndIfGone
<1>16. ASSUME NEW t \in Threads, ReplaceLocal(t) PROVE RowsStay'
    BY <1>16 DEF ReplaceLocal, ReplaceRefused, EndIfGone
<1>17. ASSUME NEW t \in Threads, ReplaceMarkLocal(t) PROVE RowsStay'
    BY <1>17 DEF ReplaceMarkLocal
<1>18. ASSUME NEW t \in Threads, NEW id \in Ids, GetSelect(t, id) PROVE RowsStay'
    BY <1>18 DEF GetSelect
<1>19. ASSUME NEW t \in Threads, NEW id \in Ids, GetDegraded(t, id) PROVE RowsStay'
    BY <1>19 DEF GetDegraded
<1>20. ASSUME NEW t \in Threads, NEW id \in Ids, SaveAdmit(t, id) PROVE RowsStay'
    BY <1>20 DEF SaveAdmit
<1>21. ASSUME NEW t \in Threads, NEW id \in Ids, ReplaceBegin(t, id) PROVE RowsStay'
    BY <1>21 DEF ReplaceBegin
<1>22. ASSUME NEW r \in Replicas, ReapEpoch(r) PROVE RowsStay'
    BY <1>22 DEF ReapEpoch
<1>23. ASSUME NEW r \in Replicas, ReapScan(r) PROVE RowsStay'
    BY <1>23 DEF ReapScan
<1>24. ASSUME NEW r \in Replicas, ReapScanFails(r) PROVE RowsStay'
    BY <1>24 DEF ReapScanFails
<1>25. ASSUME NEW r \in Replicas, ReapCount(r) PROVE RowsStay'
    BY <1>25 DEF ReapCount
<1>26. ASSUME NEW r \in Replicas, RepersistSnapshot(r) PROVE RowsStay'
    BY <1>26 DEF RepersistSnapshot
<1>27. ASSUME NEW r \in Replicas, RepersistLock(r) PROVE RowsStay'
    BY <1>27 DEF RepersistLock
<1>28. ASSUME NEW r \in Replicas, RepersistUnlock(r) PROVE RowsStay'
    BY <1>28 DEF RepersistUnlock
<1>29. ASSUME NEW r \in Replicas, ReapLocal(r) PROVE RowsStay'
    BY <1>29 DEF ReapLocal
<1>30. ASSUME NEW r \in Replicas, ReapPrune(r) PROVE RowsStay'
    BY <1>30 DEF ReapPrune
<1>31. ASSUME NEW r \in Replicas, NEW id \in Ids, RepersistSkip(r, id) PROVE RowsStay'
    BY <1>31 DEF RepersistSkip
<1>32a. ASSUME NEW r \in Replicas, NEW id \in Ids, RepersistReserve(r, id) PROVE RowsStay'
    BY <1>32a DEF RepersistReserve
<1>32. ASSUME NEW r \in Replicas, NEW id \in Ids, RepersistInsert(r, id) PROVE RowsStay'
    BY <1>32 DEF RepersistInsert, InsertCommits, CommitFails, InsertRefused
<1>32b. ASSUME NEW r \in Replicas, NEW id \in Ids, RepersistNote(r, id) PROVE RowsStay'
    BY <1>32b DEF RepersistNote
<1>33. ASSUME NEW r \in Replicas, NEW id \in Ids, BuryForget(r, id) PROVE RowsStay'
    BY <1>33 DEF BuryForget
<1>34. ASSUME NEW r \in Replicas, NEW id \in Ids, BuryRow(r, id) PROVE RowsStay'
    BY <1>34 DEF BuryRow, DeleteAnswered, DeleteFails, EndIfGone
<1>35. ASSUME NEW r \in Replicas, NEW id \in Ids, Abandon(r, id) PROVE RowsStay'
    BY <1>35 DEF Abandon
<1>36. ASSUME NEW r \in Replicas, NEW id \in Ids, AbandonRow(r, id) PROVE RowsStay'
    BY <1>36 DEF AbandonRow, DeleteAnswered, DeleteFails, EndIfGone
<1>37. ASSUME NEW r \in Replicas, Restart(r) PROVE RowsStay'
    BY <1>37 DEF Restart
<1>38. CASE UNCHANGED vars
    BY <1>38 DEF vars
<1> QED
    BY <1>1, <1>2, <1>3, <1>4, <1>5, <1>6, <1>7, <1>8, <1>9, <1>10, <1>11,
       <1>12, <1>13, <1>14, <1>15, <1>16, <1>17, <1>18, <1>19, <1>20,
       <1>21, <1>22, <1>23, <1>24, <1>25, <1>26, <1>27, <1>28, <1>29,
       <1>30, <1>31, <1>32a, <1>32, <1>32b, <1>33, <1>34, <1>35, <1>36, <1>37, <1>38
    DEF Next, ThreadStep, Request, ReaperStep


\* Where a row, a publication and an adoption come from, and that the scan's
\* result only grows until the sweep is done with the local store.
LEMMA SourcesStep ==
    ASSUME TypeOK, TypeOK', DrawnOnce, NEW p \in Replicas, [Next]_vars
    PROVE  /\ Scanned(p)' => \/ ReapScan(p)
                             \/ /\ Scanned(p) /\ raced'[p] = raced[p]
                                /\ present[p] \subseteq present'[p]
           /\ ended \subseteq ended'
           /\ \A j \in stored' \ stored : \/ \E t \in Threads : Writes(t, j) /\ ~Writes(t, j)'
                                          \/ \E q \in Replicas : j \in ToWrite(q)
           /\ \A j \in local'[p] : \/ InPlay(p, j)
                                   \/ \E t \in Threads : Home[t] = p /\ Brings(t, j)
           /\ \A j \in Ids : Adopting(p, j)' =>
                  Adopting(p, j) \/ j \in fresh'[p] \/ Unslotted(p, j)
           /\ \A j \in ToWrite(p)' : j \in ToWrite(p) \/ j \in fresh'[p]
<1> DEFINE Sweeps == /\ Scanned(p)' => \/ ReapScan(p)
                                       \/ /\ Scanned(p) /\ raced'[p] = raced[p]
                                          /\ present[p] \subseteq present'[p]
                     /\ ended \subseteq ended'
           Rows == \A j \in stored' \ stored :
                      \/ \E t \in Threads : Writes(t, j) /\ ~Writes(t, j)'
                      \/ \E q \in Replicas : j \in ToWrite(q)
           Shown == \A j \in local'[p] :
                      InPlay(p, j) \/ \E t \in Threads : Home[t] = p /\ Brings(t, j)
           Adopted == \A j \in Ids : Adopting(p, j)' =>
                      Adopting(p, j) \/ j \in fresh'[p] \/ Unslotted(p, j)
           Turns == \A j \in ToWrite(p)' : j \in ToWrite(p) \/ j \in fresh'[p]
           Goal == Sweeps /\ Rows /\ Shown /\ Adopted /\ Turns
<1> USE ConstantsAssumption
    DEF dbVars, endVars, markVars, threadVars, reaperVars, Goto, RGoto, Finish
<1>a. ASSUME UNCHANGED <<rpc, raced, present>>, ended \subseteq ended' PROVE Sweeps
    BY <1>a DEF Scanned
<1>b. ASSUME stored' = stored PROVE Rows
    BY <1>b
<1>c. ASSUME local' = local PROVE Shown
    BY <1>c DEF InPlay
<1>d. ASSUME \A u \in Threads : pc'[u] = "adopt" => pc[u] = "adopt" /\ sid'[u] = sid[u] PROVE Adopted
    BY <1>d DEF Adopting
<1>e. ASSUME UNCHANGED <<rpc, target>> PROVE Turns
    BY <1>e DEF ToWrite

<1>1. ASSUME NEW t \in Threads, GetMissing(t) PROVE Goal
    BY <1>1, <1>a, <1>b, <1>c, <1>d, <1>e DEF GetMissing, TypeOK
<1>2. ASSUME NEW t \in Threads, GetLocal(t) PROVE Goal
    <2>1. Adopted
        BY <1>2 DEF GetLocal, Adopting, Unslotted, Stamp, TypeOK
    <2> QED BY <1>2, <2>1, <1>a, <1>b, <1>c, <1>e DEF GetLocal
<1>3. ASSUME NEW t \in Threads, GetAdopt(t) PROVE Goal
    <2>1. sid[t] \in Ids
        BY <1>3 DEF GetAdopt, TypeOK, LoginSteps
    <2>2. \A j \in local'[p] : j \in local[p] \/ (p = Home[t] /\ j = sid[t])
        BY <1>3, <2>1, PutLocalAdds DEF GetAdopt
    <2>3. Shown
        BY <1>3, <2>2 DEF GetAdopt, InPlay, Adopting, Brings
    <2> QED BY <1>3, <2>3, <1>a, <1>b, <1>d, <1>e DEF GetAdopt, TypeOK
<1>4. ASSUME NEW t \in Threads, Respond(t) PROVE Goal
    BY <1>4, <1>a, <1>b, <1>c, <1>d, <1>e DEF Respond, TypeOK
<1>5. ASSUME NEW t \in Threads, SaveInsert(t) PROVE Goal
    <2>1. Rows
        BY <1>5 DEF SaveInsert, InsertCommits, CommitFails, InsertRefused, Writes, TypeOK
    <2> QED BY <1>5, <2>1, <1>a, <1>c, <1>d, <1>e DEF SaveInsert, TypeOK
<1>6. ASSUME NEW t \in Threads, SaveFail(t) PROVE Goal
    BY <1>6, <1>a, <1>b, <1>c, <1>d, <1>e DEF SaveFail, TypeOK
<1>7. ASSUME NEW t \in Threads, SavePublish(t) PROVE Goal
    <2>1. sid[t] \in Ids
        BY <1>7 DEF SavePublish, TypeOK, LoginSteps
    <2>2. \A j \in local'[p] : j \in local[p] \/ (p = Home[t] /\ j = sid[t])
        BY <1>7, <2>1, PutLocalAdds DEF SavePublish
    <2>3. Shown
        BY <1>7, <2>2 DEF SavePublish, InPlay, Adopting, Brings
    <2> QED BY <1>7, <2>3, <1>a, <1>b, <1>d, <1>e DEF SavePublish, TypeOK
<1>8. ASSUME NEW t \in Threads, DeleteRow(t) PROVE Goal
    BY <1>8, <1>a, <1>b, <1>c, <1>d, <1>e DEF DeleteRow, EndIfGone, DeleteAnswered,
           DeleteFails, TypeOK
<1>9. ASSUME NEW t \in Threads, DeleteForget(t) PROVE Goal
    BY <1>9, <1>a, <1>b, <1>c, <1>d, <1>e DEF DeleteForget, TypeOK
<1>10. ASSUME NEW t \in Threads, DeleteLocal(t) PROVE Goal
    BY <1>10, <1>a, <1>b, <1>d, <1>e DEF DeleteLocal, DropLocal, InPlay, TypeOK
<1>11. ASSUME NEW t \in Threads, ReplaceRow(t) PROVE Goal
    <2>1. Rows
        BY <1>11 DEF ReplaceRow, ReplaceRefused, Writes, TypeOK
    <2>2. \A u \in Threads : pc'[u] = "adopt" => pc[u] = "adopt" /\ sid'[u] = sid[u]
        BY <1>11 DEF ReplaceRow, ReplaceRefused, TypeOK
    <2>3. UNCHANGED <<rpc, raced, present, target, local>> /\ ended \subseteq ended'
        BY <1>11 DEF ReplaceRow
    <2> QED BY <2>1, <2>2, <2>3, <1>a, <1>c, <1>d, <1>e
<1>12. ASSUME NEW t \in Threads, ReplaceForget(t) PROVE Goal
    BY <1>12, <1>a, <1>b, <1>c, <1>d, <1>e DEF ReplaceForget, TypeOK
<1>13. ASSUME NEW t \in Threads, ReplaceDropOld(t) PROVE Goal
    BY <1>13, <1>a, <1>b, <1>d, <1>e DEF ReplaceDropOld, DropLocal, InPlay, TypeOK
<1>14. ASSUME NEW t \in Threads, ReplacePublish(t) PROVE Goal
    <2>1. nid[t] \in Ids
        BY <1>14 DEF ReplacePublish, TypeOK, LoginSteps
    <2>2. \A j \in local'[p] : j \in local[p] \/ (p = Home[t] /\ j = nid[t])
        BY <1>14, <2>1, PutLocalAdds DEF ReplacePublish
    <2>3. Shown
        BY <1>14, <2>2 DEF ReplacePublish, InPlay, Adopting, Brings
    <2> QED BY <1>14, <2>3, <1>a, <1>b, <1>d, <1>e DEF ReplacePublish, TypeOK
<1>15. ASSUME NEW t \in Threads, ReplaceLocally(t) PROVE Goal
    BY <1>15, <1>a, <1>b, <1>c, <1>d, <1>e DEF ReplaceLocally, EndIfGone, DeleteAnswered,
           DeleteFails, ReplaceRefused, TypeOK
<1>16. ASSUME NEW t \in Threads, ReplaceLocal(t) PROVE Goal
    <2>1. /\ \A j \in local'[p] : j \in local[p] \/ (p = Home[t] /\ j = nid[t])
          /\ \A u \in Threads : pc'[u] = "adopt" => pc[u] = "adopt" /\ sid'[u] = sid[u]
        BY <1>16 DEF ReplaceLocal, ReplaceRefused, TypeOK
    <2>2. Shown
        BY <1>16, <2>1 DEF ReplaceLocal, InPlay, Brings
    <2>3. UNCHANGED <<rpc, raced, present, target, stored>> /\ ended \subseteq ended'
        BY <1>16 DEF ReplaceLocal, EndIfGone
    <2> QED BY <2>1, <2>2, <2>3, <1>a, <1>b, <1>d, <1>e
<1>17. ASSUME NEW t \in Threads, ReplaceMarkLocal(t) PROVE Goal
    BY <1>17, <1>a, <1>b, <1>c, <1>d, <1>e DEF ReplaceMarkLocal, TypeOK
<1>18. ASSUME NEW t \in Threads, NEW id \in Ids, GetSelect(t, id) PROVE Goal
    BY <1>18, <1>a, <1>b, <1>c, <1>d, <1>e DEF GetSelect, TypeOK
<1>19. ASSUME NEW t \in Threads, NEW id \in Ids, GetDegraded(t, id) PROVE Goal
    BY <1>19, <1>a, <1>b, <1>c, <1>d, <1>e DEF GetDegraded, TypeOK
<1>20. ASSUME NEW t \in Threads, NEW id \in Ids, SaveAdmit(t, id) PROVE Goal
    BY <1>20, <1>a, <1>b, <1>c, <1>d, <1>e DEF SaveAdmit, TypeOK
<1>21. ASSUME NEW t \in Threads, NEW id \in Ids, ReplaceBegin(t, id) PROVE Goal
    BY <1>21, <1>a, <1>b, <1>c, <1>d, <1>e DEF ReplaceBegin, TypeOK
<1>22. ASSUME NEW r \in Replicas, ReapEpoch(r) PROVE Goal
    BY <1>22, <1>b, <1>c, <1>d DEF ReapEpoch, TypeOK, Scanned, ToWrite
<1>23. ASSUME NEW r \in Replicas, ReapScan(r) PROVE Goal
    BY <1>23, <1>b, <1>c, <1>d DEF ReapScan, TypeOK, Scanned, ToWrite
<1>24. ASSUME NEW r \in Replicas, ReapScanFails(r) PROVE Goal
    BY <1>24, <1>b, <1>d DEF ReapScanFails, DropLocal, InPlay, TypeOK, Scanned, ToWrite
<1>25. ASSUME NEW r \in Replicas, ReapCount(r) PROVE Goal
    BY <1>25, <1>b, <1>c, <1>d DEF ReapCount, TypeOK, Scanned, ToWrite
<1>26. ASSUME NEW r \in Replicas, RepersistSnapshot(r) PROVE Goal
    BY <1>26, <1>b, <1>c, <1>d DEF RepersistSnapshot, TypeOK, Scanned, ToWrite
<1>27. ASSUME NEW r \in Replicas, RepersistLock(r) PROVE Goal
    BY <1>27, <1>b, <1>c, <1>d DEF RepersistLock, TypeOK, Scanned, ToWrite
<1>28. ASSUME NEW r \in Replicas, RepersistUnlock(r) PROVE Goal
    BY <1>28, <1>b, <1>c, <1>d DEF RepersistUnlock, TypeOK, Scanned, ToWrite
<1>29. ASSUME NEW r \in Replicas, ReapLocal(r) PROVE Goal
    BY <1>29, <1>b, <1>d DEF ReapLocal, DropLocal, InPlay, TypeOK, Scanned, ToWrite
<1>30. ASSUME NEW r \in Replicas, ReapPrune(r) PROVE Goal
    BY <1>30, <1>b, <1>c, <1>d DEF ReapPrune, TypeOK, Scanned, ToWrite
<1>31. ASSUME NEW r \in Replicas, NEW id \in Ids, RepersistSkip(r, id) PROVE Goal
    BY <1>31, <1>b, <1>c, <1>d DEF RepersistSkip, TypeOK, Scanned, ToWrite
<1>32a. ASSUME NEW r \in Replicas, NEW id \in Ids, RepersistReserve(r, id) PROVE Goal
    BY <1>32a, <1>b, <1>c, <1>d DEF RepersistReserve, Stamp, Scanned, ToWrite, TypeOK
<1>32. ASSUME NEW r \in Replicas, NEW id \in Ids, RepersistInsert(r, id) PROVE Goal
    <2>1. Rows
        BY <1>32 DEF RepersistInsert, InsertCommits, CommitFails, InsertRefused, ToWrite
    <2>2. Sweeps /\ Turns
        BY <1>32 DEF RepersistInsert, Scanned, ToWrite, TypeOK
    <2> QED BY <1>32, <2>1, <2>2, <1>c, <1>d DEF RepersistInsert
<1>32b. ASSUME NEW r \in Replicas, NEW id \in Ids, RepersistNote(r, id) PROVE Goal
    BY <1>32b, <1>b, <1>c, <1>d DEF RepersistNote, TypeOK, Scanned, ToWrite
<1>33. ASSUME NEW r \in Replicas, NEW id \in Ids, BuryForget(r, id) PROVE Goal
    BY <1>33, <1>b, <1>c, <1>d DEF BuryForget, TypeOK, Scanned, ToWrite
<1>34. ASSUME NEW r \in Replicas, NEW id \in Ids, BuryRow(r, id) PROVE Goal
    BY <1>34, <1>b, <1>c, <1>d DEF BuryRow, EndIfGone, DeleteAnswered, DeleteFails, TypeOK,
           Scanned, ToWrite
<1>35. ASSUME NEW r \in Replicas, NEW id \in Ids, Abandon(r, id) PROVE Goal
    BY <1>35, <1>b, <1>c, <1>d DEF Abandon, TypeOK, Scanned, ToWrite
<1>36. ASSUME NEW r \in Replicas, NEW id \in Ids, AbandonRow(r, id) PROVE Goal
    BY <1>36, <1>b, <1>c, <1>d DEF AbandonRow, EndIfGone, DeleteAnswered, DeleteFails,
           TypeOK, Scanned, ToWrite
<1>37. ASSUME NEW r \in Replicas, Restart(r) PROVE Goal
    <2>1. Sweeps /\ Turns
        BY <1>37 DEF Restart, Scanned, ToWrite, TypeOK
    <2>2. Shown /\ \A u \in Threads : pc'[u] = "adopt" => pc[u] = "adopt" /\ sid'[u] = sid[u]
        BY <1>37 DEF Restart, InPlay, TypeOK
    <2> QED BY <1>37, <2>1, <2>2, <1>b, <1>d DEF Restart
<1>38. CASE UNCHANGED vars
    BY <1>38, <1>a, <1>b, <1>c, <1>d, <1>e DEF vars
<1> QED
    BY <1>1, <1>2, <1>3, <1>4, <1>5, <1>6, <1>7, <1>8, <1>9, <1>10, <1>11,
       <1>12, <1>13, <1>14, <1>15, <1>16, <1>17, <1>18, <1>19, <1>20,
       <1>21, <1>22, <1>23, <1>24, <1>25, <1>26, <1>27, <1>28, <1>29,
       <1>30, <1>31, <1>32a, <1>32, <1>32b, <1>33, <1>34, <1>35, <1>36, <1>37, <1>38
    DEF Next, ThreadStep, Request, ReaperStep

\* A request leaves its marker before it writes, publishes what it has written or
\* knows unwritten, and keeps the marker until then.
LEMMA RequestsStep ==
    ASSUME TypeOK, TypeOK', DrawnOnce, DrawnApart, WritesNew, FreshStamped,
           NEW v \in Threads, NEW j \in Ids, [Next]_vars
    PROVE  /\ Writes(v, j)' => \/ Writes(v, j)
                               \/ j \in fresh'[Home[v]] /\ j \notin minted
           /\ Brings(v, j)' /\ j \in stored' => Writes(v, j) \/ (Brings(v, j) /\ j \in stored)
           /\ Scanned(Home[v])' /\ j \in fresh[Home[v]] \ fresh'[Home[v]] =>
                  ~Writes(v, j)' /\ (Brings(v, j)' => j \notin stored')
<1> DEFINE New == Writes(v, j)' => Writes(v, j) \/ (j \in fresh'[Home[v]] /\ j \notin minted)
           Old == Brings(v, j)' /\ j \in stored' => Writes(v, j) \/ (Brings(v, j) /\ j \in stored)
           Keep == Scanned(Home[v])' /\ j \in fresh[Home[v]] \ fresh'[Home[v]] =>
                  ~Writes(v, j)' /\ (Brings(v, j)' => j \notin stored')
           Goal == New /\ Old /\ Keep
<1> USE ConstantsAssumption
    DEF dbVars, endVars, markVars, threadVars, reaperVars, envVars, Goto, RGoto, Finish
<1>0. Home[v] \in Replicas /\ (Writes(v, j) \/ Brings(v, j) => Draws(v, j))
    BY DEF Writes, Brings, Draws, LoginSteps
<1>a. ASSUME UNCHANGED <<pc, sid, nid>> PROVE (Writes(v, j)' <=> Writes(v, j)) /\ (Brings(v, j)' <=> Brings(v, j))
    BY <1>a DEF Writes, Brings
<1>b. ASSUME stored' = stored, fresh' = fresh,
             Writes(v, j)' => Writes(v, j), Brings(v, j)' => Writes(v, j) \/ Brings(v, j)
      PROVE  Goal
    BY <1>b
<1>c. ASSUME NEW t \in Threads, NEW new \in Ids, NEW T, PutLocal(Home[t], new, T), stored' = stored,
             \/ v # t /\ UNCHANGED <<pc[v], sid[v], nid[v]>>
             \/ ~Writes(v, j)' /\ ~Brings(v, j)'
      PROVE  Goal
    <2>1. (fresh[Home[v]] \ fresh'[Home[v]]) \subseteq local[Home[v]]
        BY <1>c, <1>0, PutLocalMarks
    <2>2. j \in local[Home[v]] => ~Writes(v, j) /\ ~Brings(v, j)
        BY <1>0 DEF DrawnApart, Writes, Brings
    <2> QED BY <1>c, <2>1, <2>2 DEF Writes, Brings
<1>d. ASSUME NEW t \in Threads, pc[t] # "idle", stored' = stored,
             fresh' = [fresh EXCEPT ![Home[t]] = @ \ {sid[t]}],
             ~Writes(t, j)', ~(Brings(t, j)' /\ sid[t] = j),
             Brings(t, j)' => Brings(t, j), ~Draws(t, sid[t]),
             v # t => UNCHANGED <<pc[v], sid[v], nid[v]>>
      PROVE  Goal
    <2>1. v # t => (Writes(v, j)' <=> Writes(v, j)) /\ (Brings(v, j)' <=> Brings(v, j))
        BY <1>d DEF Writes, Brings
    <2>2. v # t /\ sid[t] = j => ~Writes(v, j) /\ ~Brings(v, j)
        BY <1>d, <1>0 DEF DrawnOnce
    <2>3. j # sid[t] => (j \in fresh[Home[v]] => j \in fresh'[Home[v]])
        BY <1>d, <1>0 DEF TypeOK
    <2> QED BY <1>d, <2>1, <2>2, <2>3

<1>1. ASSUME NEW t \in Threads, GetMissing(t) PROVE Goal
    BY <1>1, <1>b DEF GetMissing, TypeOK, Writes, Brings
<1>2. ASSUME NEW t \in Threads, GetLocal(t) PROVE Goal
    BY <1>2, <1>0 DEF GetLocal, Stamp, TypeOK, Writes, Brings
<1>3. ASSUME NEW t \in Threads, GetAdopt(t) PROVE Goal
    <2>1. sid[t] \in Ids
        BY <1>3 DEF GetAdopt, TypeOK, LoginSteps
    <2>2. \/ v # t /\ UNCHANGED <<pc[v], sid[v], nid[v]>>
          \/ ~Writes(v, j)' /\ ~Brings(v, j)'
        BY <1>3 DEF GetAdopt, TypeOK, Writes, Brings
    <2>3. stored' = stored /\ PutLocal(Home[t], sid[t], {t})
        BY <1>3 DEF GetAdopt
    <2> QED BY <2>1, <2>2, <2>3, <1>c
<1>4. ASSUME NEW t \in Threads, Respond(t) PROVE Goal
    BY <1>4, <1>b DEF Respond, TypeOK, Writes, Brings
<1>5. ASSUME NEW t \in Threads, SaveInsert(t) PROVE Goal
    <2>1. sid[t] \in Ids /\ Writes(t, sid[t]) /\ sid[t] \notin stored /\ Draws(t, sid[t])
        BY <1>5 DEF SaveInsert, Writes, TypeOK, WritesNew, Draws
    <2>2. /\ v = t => ~Writes(v, j)' /\ (Brings(v, j)' => j = sid[t])
          /\ v = t /\ j = sid[t] => Writes(v, j)
          /\ v # t => UNCHANGED <<pc[v], sid[v], nid[v]>>
        BY <1>5 DEF SaveInsert, Writes, Brings, TypeOK
    <2>3. \/ stored' \subseteq stored \cup {sid[t]} /\ fresh' = fresh
          \/ stored' = stored /\ fresh' = [fresh EXCEPT ![Home[t]] = @ \ {sid[t]}]
        BY <1>5 DEF SaveInsert, InsertCommits, CommitFails, InsertRefused, Unstamp
    <2>4. v # t => /\ (Writes(v, j)' <=> Writes(v, j)) /\ (Brings(v, j)' <=> Brings(v, j))
                   /\ j = sid[t] => ~Writes(v, j) /\ ~Brings(v, j)
        BY <2>1, <2>2, <1>0 DEF Writes, Brings, DrawnOnce
    <2>5. j # sid[t] => /\ (j \in stored' => j \in stored)
                        /\ (j \in fresh[Home[v]] => j \in fresh'[Home[v]])
        BY <2>1, <2>3, <1>0 DEF TypeOK
    <2>6. j = sid[t] /\ j \in fresh[Home[v]] \ fresh'[Home[v]] => j \notin stored'
        BY <2>1, <2>3
    <2>7. New
        BY <2>2, <2>4
    <2>8. Old
        BY <2>2, <2>4, <2>5
    <2>9. Keep
        BY <2>2, <2>4, <2>5, <2>6
    <2> QED BY <2>7, <2>8, <2>9
<1>6. ASSUME NEW t \in Threads, SaveFail(t) PROVE Goal
    BY <1>6, <1>b DEF SaveFail, TypeOK, Writes, Brings
<1>7. ASSUME NEW t \in Threads, SavePublish(t) PROVE Goal
    <2>1. sid[t] \in Ids
        BY <1>7 DEF SavePublish, TypeOK, LoginSteps
    <2>2. \/ v # t /\ UNCHANGED <<pc[v], sid[v], nid[v]>>
          \/ ~Writes(v, j)' /\ ~Brings(v, j)'
        BY <1>7 DEF SavePublish, TypeOK, Writes, Brings
    <2>3. stored' = stored /\ PutLocal(Home[t], sid[t], {})
        BY <1>7 DEF SavePublish
    <2> QED BY <2>1, <2>2, <2>3, <1>c
<1>8. ASSUME NEW t \in Threads, DeleteRow(t) PROVE Goal
    BY <1>8, <1>b DEF DeleteRow, DeleteAnswered, DeleteFails, TypeOK, Writes, Brings
<1>9. ASSUME NEW t \in Threads, DeleteForget(t) PROVE Goal
    <2>1. ~Draws(t, sid[t])
        BY <1>9 DEF DeleteForget, Draws, LoginSteps, DrawnOnce, TypeOK
    <2>2. /\ ~Writes(t, j)' /\ (Brings(t, j)' => Brings(t, j))
          /\ v # t => UNCHANGED <<pc[v], sid[v], nid[v]>>
        BY <1>9 DEF DeleteForget, Writes, Brings, TypeOK
    <2>3. /\ pc[t] # "idle" /\ stored' = stored
          /\ fresh' = [fresh EXCEPT ![Home[t]] = @ \ {sid[t]}]
        BY <1>9 DEF DeleteForget, Forget, Unstamp
    <2>4. Brings(t, j) => Draws(t, j)
        BY DEF Brings, Draws, LoginSteps
    <2> QED BY <2>1, <2>2, <2>3, <2>4, <1>d
<1>10. ASSUME NEW t \in Threads, DeleteLocal(t) PROVE Goal
    BY <1>10, <1>b DEF DeleteLocal, TypeOK, Writes, Brings
<1>11. ASSUME NEW t \in Threads, ReplaceRow(t) PROVE Goal
    <2>1. nid[t] \in Ids /\ Writes(t, nid[t]) /\ nid[t] \notin stored /\ Draws(t, nid[t])
        BY <1>11 DEF ReplaceRow, Writes, TypeOK, WritesNew, Draws, LoginSteps
    <2>2. /\ v = t => ~Writes(v, j)' /\ (Brings(v, j)' => j = nid[t])
          /\ v = t /\ j = nid[t] => Writes(v, j)
          /\ v # t => UNCHANGED <<pc[v], sid[v], nid[v]>>
        BY <1>11 DEF ReplaceRow, ReplaceRefused, Writes, Brings, TypeOK
    <2>3. \/ stored' \subseteq stored \cup {nid[t]} /\ fresh' = fresh
          \/ stored' = stored /\ fresh' = [fresh EXCEPT ![Home[t]] = @ \ {nid[t]}]
        BY <1>11 DEF ReplaceRow, Unstamp
    <2>4. v # t => /\ (Writes(v, j)' <=> Writes(v, j)) /\ (Brings(v, j)' <=> Brings(v, j))
                   /\ j = nid[t] => ~Writes(v, j) /\ ~Brings(v, j)
        BY <2>1, <2>2, <1>0 DEF Writes, Brings, DrawnOnce
    <2>5. j # nid[t] => /\ (j \in stored' => j \in stored)
                        /\ (j \in fresh[Home[v]] => j \in fresh'[Home[v]])
        BY <2>1, <2>3, <1>0 DEF TypeOK
    <2>6. j = nid[t] /\ j \in fresh[Home[v]] \ fresh'[Home[v]] => j \notin stored'
        BY <2>1, <2>3
    <2>7. New
        BY <2>2, <2>4
    <2>8. Old
        BY <2>2, <2>4, <2>5
    <2>9. Keep
        BY <2>2, <2>4, <2>5, <2>6
    <2> QED BY <2>7, <2>8, <2>9
<1>12. ASSUME NEW t \in Threads, ReplaceForget(t) PROVE Goal
    <2>1. ~Draws(t, sid[t])
        BY <1>12 DEF ReplaceForget, Draws, LoginSteps, DrawnOnce, TypeOK
    <2>2. /\ ~Writes(t, j)' /\ (Brings(t, j)' => Brings(t, j))
          /\ v # t => UNCHANGED <<pc[v], sid[v], nid[v]>>
        BY <1>12 DEF ReplaceForget, Writes, Brings, TypeOK
    <2>3. /\ pc[t] # "idle" /\ stored' = stored
          /\ fresh' = [fresh EXCEPT ![Home[t]] = @ \ {sid[t]}]
        BY <1>12 DEF ReplaceForget, Forget, Unstamp
    <2>4. Brings(t, j) => Draws(t, j)
        BY DEF Brings, Draws, LoginSteps
    <2> QED BY <2>1, <2>2, <2>3, <2>4, <1>d
<1>13. ASSUME NEW t \in Threads, ReplaceDropOld(t) PROVE Goal
    BY <1>13, <1>b DEF ReplaceDropOld, TypeOK, Writes, Brings
<1>14. ASSUME NEW t \in Threads, ReplacePublish(t) PROVE Goal
    <2>1. nid[t] \in Ids
        BY <1>14 DEF ReplacePublish, TypeOK, LoginSteps
    <2>2. \/ v # t /\ UNCHANGED <<pc[v], sid[v], nid[v]>>
          \/ ~Writes(v, j)' /\ ~Brings(v, j)'
        BY <1>14 DEF ReplacePublish, TypeOK, Writes, Brings
    <2>3. stored' = stored /\ PutLocal(Home[t], nid[t], {})
        BY <1>14 DEF ReplacePublish
    <2> QED BY <2>1, <2>2, <2>3, <1>c
<1>15. ASSUME NEW t \in Threads, ReplaceLocally(t) PROVE Goal
    BY <1>15, <1>b DEF ReplaceLocally, DeleteAnswered, DeleteFails, ReplaceRefused, TypeOK,
           Writes, Brings
<1>16. ASSUME NEW t \in Threads, ReplaceLocal(t) PROVE Goal
    BY <1>16, <1>b DEF ReplaceLocal, ReplaceRefused, TypeOK, Writes, Brings
<1>17. ASSUME NEW t \in Threads, ReplaceMarkLocal(t) PROVE Goal
    <2>1. ~Draws(t, sid[t])
        BY <1>17 DEF ReplaceMarkLocal, Draws, LoginSteps, DrawnOnce, TypeOK
    <2>2. /\ ~Writes(t, j)' /\ (Brings(t, j)' => Brings(t, j))
          /\ v # t => UNCHANGED <<pc[v], sid[v], nid[v]>>
        BY <1>17 DEF ReplaceMarkLocal, Writes, Brings, TypeOK
    <2>3. /\ pc[t] # "idle" /\ stored' = stored
          /\ fresh' = [fresh EXCEPT ![Home[t]] = @ \ {sid[t]}]
        BY <1>17 DEF ReplaceMarkLocal, Forget, Unstamp
    <2>4. Brings(t, j) => Draws(t, j)
        BY DEF Brings, Draws, LoginSteps
    <2> QED BY <2>1, <2>2, <2>3, <2>4, <1>d
<1>18. ASSUME NEW t \in Threads, NEW id \in Ids, GetSelect(t, id) PROVE Goal
    BY <1>18, <1>b DEF GetSelect, TypeOK, Writes, Brings
<1>19. ASSUME NEW t \in Threads, NEW id \in Ids, GetDegraded(t, id) PROVE Goal
    BY <1>19, <1>b DEF GetDegraded, TypeOK, Writes, Brings
<1>20. ASSUME NEW t \in Threads, NEW id \in Ids, SaveAdmit(t, id) PROVE Goal
    BY <1>20, <1>0 DEF SaveAdmit, Stamp, TypeOK, Writes, Brings, DrawnOnce
<1>21. ASSUME NEW t \in Threads, NEW id \in Ids, ReplaceBegin(t, id) PROVE Goal
    <2>1. /\ pc[t] = "loaded" /\ id \notin minted /\ ~Draws(t, sid[t]) /\ Home[t] \in Replicas
          /\ v # t => UNCHANGED <<pc[v], sid[v], nid[v]>>
        BY <1>21 DEF ReplaceBegin, TypeOK, Draws, LoginSteps
    <2>2. /\ stored' = stored /\ (Brings(t, j)' => j = id) /\ stored \subseteq minted
          /\ \A q \in Replicas : fresh[q] \ fresh'[q] \subseteq {sid[t]}
          /\ Writes(t, j)' => j = id /\ j \in fresh'[Home[t]]
        BY <1>21 DEF ReplaceBegin, HandOff, Writes, Brings, TypeOK, DrawnOnce
    <2>3. sid[t] \in minted
        BY <2>1 DEF DrawnOnce
    <2>4. v # t => (Writes(v, j)' <=> Writes(v, j)) /\ (Brings(v, j)' <=> Brings(v, j))
        BY <2>1 DEF Writes, Brings
    <2>5. v # t /\ j = sid[t] => ~Draws(v, j)
        BY <2>1 DEF DrawnOnce
    <2> QED BY <2>1, <2>2, <2>3, <2>4, <2>5, <1>0
<1>22. ASSUME NEW r \in Replicas, ReapEpoch(r) PROVE Goal
    <2>1. Scanned(Home[v])' => fresh'[Home[v]] = fresh[Home[v]]
        BY <1>22, <1>0 DEF ReapEpoch, Scanned, TypeOK
    <2> QED BY <1>22, <2>1, <1>a DEF ReapEpoch
<1>23. ASSUME NEW r \in Replicas, ReapScan(r) PROVE Goal
    BY <1>23, <1>a, <1>b DEF ReapScan
<1>24. ASSUME NEW r \in Replicas, ReapScanFails(r) PROVE Goal
    BY <1>24, <1>a, <1>b DEF ReapScanFails
<1>25. ASSUME NEW r \in Replicas, ReapCount(r) PROVE Goal
    BY <1>25, <1>a, <1>b DEF ReapCount
<1>26. ASSUME NEW r \in Replicas, RepersistSnapshot(r) PROVE Goal
    BY <1>26, <1>a, <1>b DEF RepersistSnapshot
<1>27. ASSUME NEW r \in Replicas, RepersistLock(r) PROVE Goal
    BY <1>27, <1>a, <1>b DEF RepersistLock
<1>28. ASSUME NEW r \in Replicas, RepersistUnlock(r) PROVE Goal
    BY <1>28, <1>a, <1>b DEF RepersistUnlock
<1>29. ASSUME NEW r \in Replicas, ReapLocal(r) PROVE Goal
    BY <1>29, <1>a, <1>b DEF ReapLocal
<1>30. ASSUME NEW r \in Replicas, ReapPrune(r) PROVE Goal
    BY <1>30, <1>a, <1>b DEF ReapPrune
<1>31. ASSUME NEW r \in Replicas, NEW id \in Ids, RepersistSkip(r, id) PROVE Goal
    BY <1>31, <1>a, <1>b DEF RepersistSkip
<1>32a. ASSUME NEW r \in Replicas, NEW id \in Ids, RepersistReserve(r, id) PROVE Goal
    <2>1. fresh[Home[v]] \subseteq fresh'[Home[v]]
        BY <1>32a, <1>0 DEF RepersistReserve, Stamp, TypeOK
    <2> QED BY <1>32a, <2>1, <1>a DEF RepersistReserve
<1>32. ASSUME NEW r \in Replicas, NEW id \in Ids, RepersistInsert(r, id) PROVE Goal
    <2>1. ~Draws(v, id)
        BY <1>32 DEF RepersistInsert, DrawnApart
    <2>2. /\ stored' \subseteq stored \cup {id}
          /\ fresh[Home[v]] \ fresh'[Home[v]] \subseteq {id}
        BY <1>32, <1>0 DEF RepersistInsert, InsertCommits, CommitFails, InsertRefused, Unstamp, TypeOK
    <2>3. UNCHANGED <<pc, sid, nid>>
        BY <1>32 DEF RepersistInsert
    <2> QED BY <2>1, <2>2, <2>3, <1>0, <1>a
<1>32b. ASSUME NEW r \in Replicas, NEW id \in Ids, RepersistNote(r, id) PROVE Goal
    BY <1>32b, <1>a, <1>b DEF RepersistNote
<1>33. ASSUME NEW r \in Replicas, NEW id \in Ids, BuryForget(r, id) PROVE Goal
    <2>1. Scanned(Home[v])' => fresh'[Home[v]] = fresh[Home[v]]
        BY <1>33, <1>0 DEF BuryForget, Forget, Unstamp, Scanned, TypeOK
    <2> QED BY <1>33, <2>1, <1>a DEF BuryForget
<1>34. ASSUME NEW r \in Replicas, NEW id \in Ids, BuryRow(r, id) PROVE Goal
    BY <1>34, <1>a, <1>b DEF BuryRow, DeleteAnswered, DeleteFails
<1>35. ASSUME NEW r \in Replicas, NEW id \in Ids, Abandon(r, id) PROVE Goal
    BY <1>35, <1>a, <1>b DEF Abandon
<1>36. ASSUME NEW r \in Replicas, NEW id \in Ids, AbandonRow(r, id) PROVE Goal
    BY <1>36, <1>a, <1>b DEF AbandonRow, DeleteAnswered, DeleteFails
<1>37. ASSUME NEW r \in Replicas, Restart(r) PROVE Goal
    <2>1. \/ UNCHANGED <<pc[v], sid[v], nid[v]>> /\ fresh'[Home[v]] = fresh[Home[v]]
          \/ ~Writes(v, j)' /\ ~Brings(v, j)'
        BY <1>37, <1>0 DEF Restart, Writes, Brings, TypeOK
    <2>2. stored' = stored
        BY <1>37 DEF Restart
    <2> QED BY <2>1, <2>2 DEF Writes, Brings
<1>38. CASE UNCHANGED vars
    BY <1>38, <1>a, <1>b DEF vars
<1> QED
    BY <1>1, <1>2, <1>3, <1>4, <1>5, <1>6, <1>7, <1>8, <1>9, <1>10, <1>11,
       <1>12, <1>13, <1>14, <1>15, <1>16, <1>17, <1>18, <1>19, <1>20,
       <1>21, <1>22, <1>23, <1>24, <1>25, <1>26, <1>27, <1>28, <1>29,
       <1>30, <1>31, <1>32a, <1>32, <1>32b, <1>33, <1>34, <1>35, <1>36, <1>37, <1>38
    DEF Next, ThreadStep, Request, ReaperStep


LEMMA CoveredStep ==
    ASSUME TypeOK, TypeOK', DrawnOnce, DrawnApart, WritesNew, FreshStamped, RowsStay,
           UnwrittenIsPrivate, NEW p \in Replicas, Covered(p), [Next]_vars
    PROVE  Covered(p)'
<1> SUFFICES ASSUME Scanned(p)' PROVE Covered(p)'
    BY DEF Covered
<1> USE ConstantsAssumption
<1>s. UNCHANGED vars => Scanned(p) /\ UNCHANGED <<fresh, stamped, stored, local, rpc, target, pc, sid, unmarked>>
    BY DEF vars, dbVars, markVars, reaperVars, threadVars, Scanned
<1>1. CASE ReapScan(p)
    <2>1. /\ present'[p] = table /\ raced'[p] = Publishing(p)
          /\ UNCHANGED <<stored, ended, pc, sid, nid>> /\ rpc'[p] # "write"
        BY <1>1 DEF ReapScan, RGoto, TypeOK, dbVars, endVars, threadVars
    <2>2. Unseen(p)' \cup ToWrite(p)' = {}
        BY <2>1 DEF RowsStay, Unseen, ToWrite
    <2>3. \A t \in Threads, id \in Ids : Home[t] = p /\ Writes(t, id)' => id \in raced'[p]
        BY <2>1 DEF Writes, Publishing
    <2> QED BY <2>2, <2>3 DEF Covered
<1>2. CASE ~ReapScan(p)
    <2>1. /\ Scanned(p) /\ raced'[p] = raced[p] /\ present[p] \subseteq present'[p]
          /\ ended \subseteq ended'
          /\ \A j \in stored' \ stored : \/ \E t \in Threads : Writes(t, j) /\ ~Writes(t, j)'
                                         \/ \E q \in Replicas : j \in ToWrite(q)
          /\ \A j \in local'[p] : \/ InPlay(p, j)
                                  \/ \E t \in Threads : Home[t] = p /\ Brings(t, j)
          /\ \A j \in Ids : Adopting(p, j)' =>
                 Adopting(p, j) \/ j \in fresh'[p] \/ Unslotted(p, j)
          /\ \A j \in ToWrite(p)' : j \in ToWrite(p) \/ j \in fresh'[p]
        BY <1>2, SourcesStep
    <2>2. unmarked[p] \subseteq unmarked'[p] /\ \A j \in Ids : Unslotted(p, j) \/ TakenOff(p, j) => j \in unmarked'[p]
        <3>1. CASE UNCHANGED vars
            BY <3>1, <1>s DEF Unslotted, TakenOff
        <3>2. CASE Next
            <4>1. rpc'[p] \in {"count", "snapshot", "lock", "repersist", "write", "note", "sweep"}
                BY DEF Scanned
            <4>2. unmarked'[p] = unmarked[p] \cup {id \in Ids : Unslotted(p, id) \/ TakenOff(p, id)}
                BY <3>2, <4>1 DEF KeepHistory, Next, Scanned
            <4> QED BY <4>2
        <3> QED BY <3>1, <3>2
    <2>3. \A j \in fresh[p] \ fresh'[p] : j \in Ids /\ (InPlay(p, j)' => j \in unmarked'[p])
        <3>1. rpc'[p] # "scan"
            BY DEF Scanned
        <3>2. \A j \in fresh[p] \ fresh'[p] : j \in Ids /\ j \in stamped[p] \ stamped'[p]
            BY <3>1, FreshStep DEF FreshStamped, FreshGoes, TypeOK
        <3> QED BY <3>2, <2>2 DEF TakenOff, InPlay
    <2>4. ASSUME NEW j \in Ids, InPlay(p, j)', j \notin fresh'[p] \cup unmarked'[p]
          PROVE  \/ InPlay(p, j)
                 \/ \E t \in Threads : Home[t] = p /\ Brings(t, j)
        BY <2>1, <2>2, <2>4 DEF InPlay
    <2>5. \A t \in Threads, j \in Ids : Writes(t, j) \/ Brings(t, j) => Draws(t, j) /\ pc[t] # "markLocal"
        BY DEF Writes, Brings, Draws, LoginSteps
    <2>6. ASSUME NEW t \in Threads, NEW j \in Ids, Draws(t, j), pc[t] # "markLocal"
          PROVE  /\ \A u \in Threads : u # t => ~Draws(u, j)
                 /\ ~InPlay(Home[t], j)
                 /\ \A q \in Replicas : j \notin ToWrite(q)
        BY <2>6 DEF DrawnOnce, DrawnApart, InPlay, Adopting, ToWrite, Draws, LoginSteps
    <2>7. ASSUME NEW j \in Ids, NEW q \in Replicas, j \notin stored, Touches(q, j), q # p
          PROVE  ~InPlay(p, j) /\ \A t \in Threads : Home[t] = p => ~Brings(t, j)
        BY <2>5, <2>7 DEF UnwrittenIsPrivate, Touches, InPlay, Adopting, Handles
    <2>8. ASSUME NEW j \in stored' \ stored, j \in Ids, InPlay(p, j)', j \notin fresh'[p] \cup unmarked'[p]
          PROVE  j \in ToWrite(p)
        <3>1. CASE \E t \in Threads : Writes(t, j) /\ ~Writes(t, j)'
            <4>1. PICK t \in Threads : Writes(t, j)
                BY <3>1
            <4>2. Draws(t, j) /\ pc[t] # "markLocal" /\ ~Brings(t, j) /\ Home[t] \in Replicas
                BY <4>1, <2>5 DEF Writes, Brings, Draws, LoginSteps, DrawnOnce
            <4>3. Touches(Home[t], j)
                BY <4>2 DEF Touches, Handles
            <4> QED BY <2>4, <2>5, <2>6, <2>7, <2>8, <4>2, <4>3
        <3>2. ASSUME NEW q \in Replicas, j \in ToWrite(q) PROVE j \in ToWrite(p)
            <4>1. Touches(q, j)
                BY <3>2 DEF ToWrite, Touches, Marks, TypeOK, OneTarget
            <4> QED BY <2>4, <2>7, <2>8, <3>2, <4>1
        <3> QED BY <2>1, <2>8, <3>1, <3>2
    <2>9. ASSUME NEW j \in Ids, j \in Unseen(p)' \cup ToWrite(p)', InPlay(p, j)',
                 j \notin fresh'[p] \cup unmarked'[p]
          PROVE  FALSE
        <3>1. j \in Unseen(p) \cup ToWrite(p)
            BY <2>1, <2>8, <2>9 DEF Unseen
        <3>2. CASE InPlay(p, j)
            <4>1. j \in fresh[p] \cup unmarked[p]
                BY <2>1, <3>1, <3>2 DEF Covered
            <4> QED BY <4>1, <2>2, <2>3, <2>9
        <3>3. ASSUME NEW t \in Threads, Home[t] = p, Brings(t, j) PROVE FALSE
            <4>1. j \notin ToWrite(p)
                BY <2>5, <2>6, <3>3
            <4>2. j \in fresh[p]
                BY <2>1, <3>1, <3>3, <4>1 DEF Covered
            <4> QED BY <4>2, <2>3, <2>9
        <3> QED BY <2>4, <2>9, <3>2, <3>3
    <2>10. ASSUME NEW t \in Threads, NEW j \in Ids, Home[t] = p
           PROVE  /\ Brings(t, j)' /\ j \in Unseen(p)' => j \in fresh'[p]
                  /\ Writes(t, j)' => j \in fresh'[p] \cup raced'[p]
        <3>1. /\ Writes(t, j)' => Writes(t, j) \/ j \in fresh'[p]
              /\ Brings(t, j)' /\ j \in stored' => Writes(t, j) \/ (Brings(t, j) /\ j \in stored)
              /\ j \in fresh[p] \ fresh'[p] => ~Writes(t, j)' /\ (Brings(t, j)' => j \notin stored')
            BY <2>10, RequestsStep
        <3>2. j \in Unseen(p)' => /\ j \in stored' /\ j \notin raced[p]
                                  /\ j \in stored => j \in Unseen(p)
            BY <2>1 DEF Unseen
        <3>3. /\ Brings(t, j) /\ j \in Unseen(p) => j \in fresh[p]
              /\ Writes(t, j) => j \in fresh[p] \cup raced[p]
            BY <2>1, <2>10 DEF Covered
        <3> QED BY <2>1, <3>1, <3>2, <3>3
    <2> QED BY <2>9, <2>10 DEF Covered
<1> QED BY <1>1, <1>2

\* What a request is to write is written by that request alone.
LEMMA WritesNewStep ==
    ASSUME TypeOK, TypeOK', DrawnOnce, DrawnOnce', DrawnApart, WritesNew, FreshStamped,
           UnwrittenIsPrivate, [Next]_vars
    PROVE  WritesNew'
<1> SUFFICES ASSUME NEW t \in Threads, NEW j \in Ids, Writes(t, j)', j \in stored' PROVE FALSE
    BY DEF WritesNew
<1> USE ConstantsAssumption
<1>1. Home[t] \in Replicas
    OBVIOUS
<1>2. Writes(t, j) \/ j \notin minted
    BY RequestsStep
<1>3. j \in stored' \ stored
    BY <1>2 DEF WritesNew, DrawnOnce
<1>4. \/ \E u \in Threads : Writes(u, j) /\ ~Writes(u, j)'
      \/ \E q \in Replicas : j \in ToWrite(q)
    BY <1>1, <1>3, SourcesStep
<1>5. \A u \in Threads : Writes(u, j) => Draws(u, j) /\ pc[u] \in {"saveInsert", "swapRow"}
    BY DEF Writes, Draws, LoginSteps
<1>6. CASE Writes(t, j)
    BY <1>4, <1>5, <1>6 DEF DrawnOnce, DrawnApart, ToWrite
<1>7. CASE j \notin minted
    <2>1. \A u \in Threads : ~Writes(u, j)
        BY <1>5, <1>7 DEF DrawnOnce
    <2>2. \A q \in Replicas : j \notin ToWrite(q)
        <3> SUFFICES ASSUME NEW q \in Replicas, j \in ToWrite(q) PROVE FALSE
            OBVIOUS
        <3>1. j \in pending[q]
            BY DEF ToWrite, TypeOK, OneTarget
        <3> QED BY <1>7, <3>1 DEF UnwrittenIsPrivate, Touches, Marks
    <2> QED BY <1>4, <2>1, <2>2
<1> QED BY <1>2, <1>6, <1>7

\* The inductive invariant.
SweepInv ==
    /\ FreshStamped
    /\ DrawnApart
    /\ WritesNew
    /\ RowsStay
    /\ \A r \in Replicas : Covered(r)

\* A marker is what absenceIsFinal asks for.
LEMMA SweepInvSound == TypeOK /\ SweepInv => CondemnedWereEndedOrRaced
<1> SUFFICES ASSUME TypeOK, SweepInv, NEW r \in Replicas, rpc[r] = "sweep",
                    NEW id \in Condemned(r) \cap stored
             PROVE  id \in ended \cup raced[r] \cup unmarked[r]
    BY DEF CondemnedWereEndedOrRaced
<1>1. id \in Ids /\ id \in local[r] /\ id \notin present[r] /\ id \notin fresh[r] /\ id \in stored
    BY DEF Condemned, AbsenceIsFinal, TypeOK
<1>2. Covered(r) /\ Scanned(r)
    BY DEF SweepInv, Scanned
<1>3. id \in Unseen(r) => id \in fresh[r] \cup unmarked[r]
    BY <1>1, <1>2 DEF Covered, InPlay
<1> QED BY <1>1, <1>3 DEF Unseen

(***************************************************************************)
(* Reap ends locally only what was ended somewhere, what this replica was  *)
(* writing while its scan ran, and what the history of markers says has    *)
(* lost or never had its marker: absenceIsFinal, reserveGeneration,        *)
(* handOffGeneration and forget keep a marker on everything else, however  *)
(* many requests run on a replica, whatever is evicted, times out, fails,  *)
(* is applied without an answer or restarts.                               *)
(***************************************************************************)
THEOREM SweepsAreRight == Spec => []CondemnedWereEndedOrRaced
<1>1. Init => SweepInv
    BY DEF Init, SweepInv, FreshStamped, DrawnApart, WritesNew, Writes, Draws, LoginSteps,
           RowsStay, Covered, Scanned
<1>2. TypeOK /\ TypeOK' /\ UnwrittenOurs /\ UnwrittenOurs' /\ LoginsInv /\ SweepInv
      /\ [Next]_vars => SweepInv'
    <2> SUFFICES ASSUME TypeOK, TypeOK', UnwrittenOurs, UnwrittenOurs', LoginsInv, SweepInv,
                        [Next]_vars
                 PROVE  SweepInv'
        OBVIOUS
    <2> USE DEF UnwrittenOurs, LoginsInv, SweepInv
    <2>1. FreshStamped'
        BY FreshStep
    <2>2. DrawnApart'
        BY DrawnApartStep
    <2>3. WritesNew'
        BY WritesNewStep
    <2>4. RowsStay'
        BY RowsStayStep
    <2>5. \A r \in Replicas : Covered(r)'
        BY CoveredStep
    <2> QED BY <2>1, <2>2, <2>3, <2>4, <2>5
<1> QED BY <1>1, <1>2, SweepInvSound, TypeCorrect, UnwrittenOursHolds, LoginsInvHolds, PTL
        DEF Spec
=============================================================================
