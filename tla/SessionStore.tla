---------------------------- MODULE SessionStore ----------------------------
(***************************************************************************)
(* The durable session store (internal/storage/session.go): a table of     *)
(* session rows shared by every replica, and on each replica the local     *)
(* in-memory view, the three per-id maps and the row counter that decide   *)
(* what a missing row means.                                               *)
(*                                                                         *)
(* One action is one step another goroutine can observe: one statement or  *)
(* transaction of the metadata database, one critical section of s.mu, or  *)
(* one operation of the local store.  A step that takes or releases the    *)
(* admission mutex is merged with the step next to it under that mutex.    *)
(*                                                                         *)
(* The clock is left to module SessionExpiry: here any session may be past *)
(* its timeouts at any sweep when Timeouts holds.  last_seen, and with it  *)
(* touch, is not part of this module; the conditional delete of a sweep    *)
(* may therefore lose its race at any time.                                *)
(***************************************************************************)
EXTENDS Integers, FiniteSets

CONSTANTS
    Replicas,      \* the processes that share the metadata database
    Threads,       \* request goroutines
    Home,          \* Home[t]: the replica that runs thread t
    Ids,           \* the session ids that can be minted
    NoId,          \* the id of a thread that has none
    MaxRows,       \* storage.max_sessions; 0 is uncapped
    MaxMarkers,    \* maxGenerationEntries
    LocalCap,      \* session.maxSessions, the capacity of the local store
    MaxFaults,     \* bound: how many statements may fail
    LostReplies,   \* whether a failed statement may have been applied
    Timeouts,      \* whether sessions may pass their timeouts
    MaxRestarts,   \* bound: how many times a replica may restart
    Sweepers       \* bound: the replicas whose reaper runs

ASSUME ConstantsAssumption ==
    /\ Home \in [Threads -> Replicas]
    /\ NoId \notin Ids
    /\ IsFiniteSet(Ids)
    /\ MaxRows \in Nat
    /\ MaxMarkers \in Nat
    /\ LocalCap \in Nat \ {0}
    /\ MaxFaults \in Nat
    /\ LostReplies \in BOOLEAN
    /\ Timeouts \in BOOLEAN
    /\ MaxRestarts \in Nat
    /\ Sweepers \subseteq Replicas

VARIABLES
    (* the metadata database *)
    table,         \* ids that have a row
    (* per replica *)
    local,         \* ids the local store holds
    unpersisted,   \* ids this process could not write
    stamped,       \* domain of the generations map
    fresh,         \* the stamped ids whose generation exceeds the last scanEpoch
    rows,          \* the cached row count
    locked,        \* whether the admission mutex is held
    (* per request thread *)
    pc, sid, nid,  \* next step, the id at hand, the id a login mints
    held,          \* threads whose loaded pointer is the one still stored
    (* per reaper *)
    rpc,           \* next step of the sweep
    present,       \* rows the sweep's scan returned, less those handled
    pending,       \* unpersisted ids repersist still has to visit
    full,          \* repersist's view of the cap
    dead,          \* ids the local sweep retired and not yet forgotten
    target,        \* the id whose row the sweep writes or deletes next, or has written
    (* the environment *)
    minted,        \* ids ever drawn; 256-bit random, so never drawn twice
    cookies,       \* ids a browser has been given
    faults, restarts,
    (* history *)
    stored,        \* ids that have ever had a row
    unanswered,    \* ids whose row a commit wrote that was told to have failed
    ended,         \* ids a logout, a login or a sweep has ended
    won,           \* pre-auth ids a login has replaced
    raced,         \* per reaper: ids being published while its scan ran
    unmarked       \* per reaper: ids left without their marker since its scan

dbVars      == <<table, stored, unanswered>>
markVars    == <<unpersisted, stamped, fresh>>
threadVars  == <<pc, sid, nid, held>>
reaperVars  == <<rpc, present, pending, full, dead, target, raced>>
envVars     == <<minted, cookies, restarts>>
endVars     == <<ended, won>>
vars == <<dbVars, local, markVars, rows, locked, threadVars, reaperVars,
          envVars, faults, endVars, unmarked>>

ThreadSteps ==
    {"idle", "found", "missing", "adopt", "loaded",
     "saveInsert", "saveFail", "savePublish",
     "forget", "dropLocal",
     "swapRow", "swapLocalRow", "swapLocal", "markLocal",
     "rekeyed", "dropOld", "publishNew"}

\* Steps of a login that has drawn its new id.
LoginSteps ==
    {"swapRow", "swapLocalRow", "swapLocal", "markLocal",
     "rekeyed", "dropOld", "publishNew"}

ReaperSteps ==
    {"idle", "scan", "count", "snapshot", "lock", "repersist", "write",
     "note", "sweep", "bury", "abandon", "prune"}

\* What the generations map may hold.
MarkerSets == {S \in SUBSET Ids : Cardinality(S) <= MaxMarkers}

\* Repersist writes, and then notes, one row at a time.
OneTarget ==
    \A r \in Replicas : rpc[r] \in {"write", "note"} =>
        \E id \in Ids : target[r] = {id} /\ (id \in pending[r] <=> rpc[r] = "write")

\* The types, that the generations map never outgrows its bound, which Get's
\* adoptions take slots of without the admission mutex, and that repersist writes
\* and notes one row at a time.
TypeOK ==
    /\ table \subseteq Ids
    /\ local \in [Replicas -> SUBSET Ids]
    /\ unpersisted \in [Replicas -> SUBSET Ids]
    /\ stamped \in [Replicas -> MarkerSets]
    /\ fresh \in [Replicas -> SUBSET Ids]
    /\ rows \in [Replicas -> Int]
    /\ locked \in [Replicas -> BOOLEAN]
    /\ pc \in [Threads -> ThreadSteps]
    /\ sid \in [Threads -> Ids \cup {NoId}]
    /\ nid \in [Threads -> Ids \cup {NoId}]
    /\ \A t \in Threads : /\ pc[t] # "idle" => sid[t] # NoId
                          /\ pc[t] \in LoginSteps => nid[t] # NoId
    /\ held \subseteq Threads
    /\ rpc \in [Replicas -> ReaperSteps]
    /\ present \in [Replicas -> SUBSET Ids]
    /\ pending \in [Replicas -> SUBSET Ids]
    /\ full \in [Replicas -> BOOLEAN]
    /\ dead \in [Replicas -> SUBSET Ids]
    /\ target \in [Replicas -> SUBSET Ids]
    /\ OneTarget
    /\ minted \subseteq Ids
    /\ cookies \subseteq Ids
    /\ faults \in Nat
    /\ restarts \in Nat
    /\ stored \subseteq Ids
    /\ unanswered \subseteq Ids
    /\ ended \subseteq Ids
    /\ won \subseteq Ids
    /\ raced \in [Replicas -> SUBSET Ids]
    /\ unmarked \in [Replicas -> SUBSET Ids]

(***************************************************************************)
(* NewSessionStore over a table that holds no row yet.                     *)
(***************************************************************************)
Init ==
    /\ table = {}
    /\ local = [r \in Replicas |-> {}]
    /\ unpersisted = [r \in Replicas |-> {}]
    /\ stamped = [r \in Replicas |-> {}]
    /\ fresh = [r \in Replicas |-> {}]
    /\ rows = [r \in Replicas |-> 0]
    /\ locked = [r \in Replicas |-> FALSE]
    /\ pc = [t \in Threads |-> "idle"]
    /\ sid = [t \in Threads |-> NoId]
    /\ nid = [t \in Threads |-> NoId]
    /\ held = {}
    /\ rpc = [r \in Replicas |-> "idle"]
    /\ present = [r \in Replicas |-> {}]
    /\ pending = [r \in Replicas |-> {}]
    /\ full = [r \in Replicas |-> FALSE]
    /\ dead = [r \in Replicas |-> {}]
    /\ target = [r \in Replicas |-> {}]
    /\ minted = {}
    /\ cookies = {}
    /\ faults = 0
    /\ restarts = 0
    /\ stored = {}
    /\ unanswered = {}
    /\ ended = {}
    /\ won = {}
    /\ raced = [r \in Replicas |-> {}]
    /\ unmarked = [r \in Replicas |-> {}]

-----------------------------------------------------------------------------
(***************************************************************************)
(* The per-id maps, the local store and the statements.                    *)
(***************************************************************************)

\* Mutations of CapReached: one row late; 0 taken for a cap.
CapReachedLate(r) == MaxRows > 0 /\ rows[r] > MaxRows
CapReachedAtZero(r) == rows[r] >= MaxRows

\* rowCapReached
CapReached(r) == MaxRows > 0 /\ rows[r] >= MaxRows

\* A mutation of AbsenceIsFinal: without the generation test.
AbsenceIsFinalUnmarked(r, id) == id \notin unpersisted[r]

\* absenceIsFinal(id, epoch) during a sweep, and with noScan outside one.
AbsenceIsFinal(r, id) == id \notin unpersisted[r] /\ id \notin fresh[r]
AbsenceIsFinalNoScan(r, id) == id \notin unpersisted[r]

\* A mutation of HasSlot: one entry too many.
HasSlotLate(r, id) == id \in stamped[r] \/ Cardinality(stamped[r]) <= MaxMarkers

\* Whether reserveGeneration finds a slot; Stamp is its effect, Unstamp that
\* of releaseGeneration.
HasSlot(r, id) == id \in stamped[r] \/ Cardinality(stamped[r]) < MaxMarkers

Stamp(r, id) ==
    /\ stamped' = [stamped EXCEPT ![r] = @ \cup {id}]
    /\ fresh' = [fresh EXCEPT ![r] = @ \cup {id}]

Unstamp(r, id) ==
    /\ stamped' = [stamped EXCEPT ![r] = @ \ {id}]
    /\ fresh' = [fresh EXCEPT ![r] = @ \ {id}]

\* forget, with the ids in unpersisted it leaves there given by Kept.
Forget(r, id, Kept) ==
    /\ Unstamp(r, id)
    /\ unpersisted' = [unpersisted EXCEPT ![r] = (@ \ {id}) \cup Kept]

\* The threads of r whose pointer is lost when the local store drops S.
Displaced(r, S) == {u \in Threads : Home[u] = r /\ sid[u] \in S}

\* memStore.Delete and memStore.Reap
DropLocal(r, S) ==
    /\ local' = [local EXCEPT ![r] = @ \ S]
    /\ held' = held \ Displaced(r, S)

\* memStore.Save with the eviction hook; T are the threads handed the pointer.
PutLocal(r, id, T) ==
    \/ /\ id \in local[r] \/ Cardinality(local[r]) < LocalCap
       /\ local' = [local EXCEPT ![r] = @ \cup {id}]
       /\ held' = (held \ Displaced(r, {id})) \cup T
       /\ UNCHANGED markVars
    \/ /\ id \notin local[r] /\ Cardinality(local[r]) >= LocalCap
       /\ \E victim \in local[r] :
             /\ local' = [local EXCEPT ![r] = (@ \ {victim}) \cup {id}]
             /\ held' = (held \ Displaced(r, {id, victim})) \cup T
             /\ Forget(r, victim, {})

\* A statement or a commit that returns an error.
Fault == faults < MaxFaults /\ faults' = faults + 1

\* A mutation of DeleteAnswered: the count of deleted rows is ignored.
DeleteUncounted(r, id) ==
    /\ table' = table \ {id}
    /\ rows' = [rows EXCEPT ![r] = @ - 1]
    /\ UNCHANGED <<stored, unanswered, faults>>

\* execN(del, id) under the admission mutex, and the counter that follows it.
DeleteAnswered(r, id) ==
    /\ table' = table \ {id}
    /\ rows' = [rows EXCEPT ![r] = IF id \in table THEN @ - 1 ELSE @]
    /\ UNCHANGED <<stored, unanswered, faults>>

DeleteFails(id) ==
    /\ Fault
    /\ \/ table' = table
       \/ LostReplies /\ table' = table \ {id}
    /\ UNCHANGED <<stored, unanswered, rows>>

\* insert: refused or failed before its commit; committed; and a commit that
\* returned an error, which the counter takes for a row all the same.
InsertRefused(r, id) ==
    /\ \/ id \notin table /\ CapReached(r) /\ UNCHANGED faults
       \/ Fault
    /\ UNCHANGED <<dbVars, rows>>

Grown(r, id) == [rows EXCEPT ![r] = IF id \in table THEN @ ELSE @ + 1]

InsertCommits(r, id) ==
    /\ id \in table \/ ~CapReached(r)
    /\ table' = table \cup {id}
    /\ stored' = stored \cup {id}
    /\ rows' = Grown(r, id)
    /\ UNCHANGED <<unanswered, faults>>

CommitFails(r, id) ==
    /\ id \in table \/ ~CapReached(r)
    /\ Fault
    /\ \/ UNCHANGED dbVars
       \/ /\ LostReplies
          /\ table' = table \cup {id}
          /\ stored' = stored \cup {id}
          /\ unanswered' = unanswered \cup {id}
    /\ rows' = Grown(r, id)

Lock(r)   == ~locked[r] /\ locked' = [locked EXCEPT ![r] = TRUE]
Unlock(r) == locked' = [locked EXCEPT ![r] = FALSE]

Goto(t, step) == pc' = [pc EXCEPT ![t] = step] /\ UNCHANGED <<sid, nid>>

Finish(t) ==
    /\ pc' = [pc EXCEPT ![t] = "idle"]
    /\ sid' = [sid EXCEPT ![t] = NoId]
    /\ nid' = [nid EXCEPT ![t] = NoId]

\* A session is over once its row has been deleted for good.
EndIfGone(id, rowsLeft) ==
    ended' = IF id \in rowsLeft THEN ended ELSE ended \cup {id}

-----------------------------------------------------------------------------
(***************************************************************************)
(* Get.  The row read by selectOne is stale from the next step on.         *)
(***************************************************************************)
GetSelect(t, id) ==
    /\ pc[t] = "idle" /\ id \in cookies
    /\ pc' = [pc EXCEPT ![t] = IF id \in table THEN "found" ELSE "missing"]
    /\ sid' = [sid EXCEPT ![t] = id]
    /\ UNCHANGED <<dbVars, local, markVars, rows, locked, nid, held,
                   reaperVars, envVars, faults, endVars>>

\* selectOne failed: the session is whatever the local view says.
GetDegraded(t, id) ==
    /\ pc[t] = "idle" /\ id \in cookies
    /\ Fault
    /\ id \in local[Home[t]]
    /\ pc' = [pc EXCEPT ![t] = "loaded"]
    /\ sid' = [sid EXCEPT ![t] = id]
    /\ held' = held \cup {t}
    /\ UNCHANGED <<dbVars, local, markVars, rows, locked, nid,
                   reaperVars, envVars, endVars>>

\* No row: final, or this process's own session.
GetMissing(t) ==
    LET r == Home[t] IN
    /\ pc[t] = "missing"
    /\ IF AbsenceIsFinalNoScan(r, sid[t]) \/ sid[t] \notin local[r]
       THEN Finish(t) /\ UNCHANGED held
       ELSE Goto(t, "loaded") /\ held' = held \cup {t}
    /\ UNCHANGED <<dbVars, local, markVars, rows, locked,
                   reaperVars, envVars, faults, endVars>>

\* A row, and a local session to go with it or not; reserveGeneration comes
\* first when there is none, and a full map does not stop the adoption.
GetLocal(t) ==
    LET r == Home[t] IN
    /\ pc[t] = "found"
    /\ IF sid[t] \in local[r]
       THEN /\ Goto(t, "loaded")
            /\ held' = held \cup {t}
            /\ UNCHANGED markVars
       ELSE /\ Goto(t, "adopt")
            /\ IF HasSlot(r, sid[t])
               THEN Stamp(r, sid[t])
               ELSE UNCHANGED <<stamped, fresh>>
            /\ UNCHANGED <<held, unpersisted>>
    /\ UNCHANGED <<dbVars, local, rows, locked,
                   reaperVars, envVars, faults, endVars>>

GetAdopt(t) ==
    /\ pc[t] = "adopt"
    /\ PutLocal(Home[t], sid[t], {t})
    /\ Goto(t, "loaded")
    /\ UNCHANGED <<dbVars, rows, locked,
                   reaperVars, envVars, faults, endVars>>

\* The request is done with the session it loaded.
Respond(t) ==
    /\ pc[t] = "loaded"
    /\ Finish(t)
    /\ held' = held \ {t}
    /\ UNCHANGED <<dbVars, local, markVars, rows, locked,
                   reaperVars, envVars, faults, endVars>>

-----------------------------------------------------------------------------
(***************************************************************************)
(* Save, called by Manager.Start with a freshly drawn id.                  *)
(***************************************************************************)
SaveAdmit(t, id) ==
    LET r == Home[t] IN
    /\ pc[t] = "idle" /\ id \notin minted
    /\ ~locked[r]
    /\ minted' = minted \cup {id}
    /\ sid' = [sid EXCEPT ![t] = id]
    /\ IF ~CapReached(r) /\ HasSlot(r, id)
       THEN /\ Lock(r)
            /\ Stamp(r, id)
            /\ pc' = [pc EXCEPT ![t] = "saveInsert"]
       ELSE /\ UNCHANGED <<locked, stamped, fresh>>
            /\ pc' = [pc EXCEPT ![t] = "saveFail"]
    /\ UNCHANGED <<dbVars, local, unpersisted, rows, nid, held,
                   reaperVars, cookies, restarts, faults, endVars>>

SaveInsert(t) ==
    LET r == Home[t] IN
    /\ pc[t] = "saveInsert"
    /\ \/ /\ InsertCommits(r, sid[t])
          /\ Goto(t, "savePublish")
          /\ UNCHANGED markVars
       \/ /\ CommitFails(r, sid[t])
          /\ Goto(t, "saveFail")
          /\ UNCHANGED markVars
       \/ /\ InsertRefused(r, sid[t])
          /\ Unstamp(r, sid[t])
          /\ Goto(t, "saveFail")
          /\ UNCHANGED unpersisted
    /\ Unlock(r)
    /\ UNCHANGED <<local, held, reaperVars, envVars, endVars>>

\* setPersisted(id, false)
SaveFail(t) ==
    LET r == Home[t] IN
    /\ pc[t] = "saveFail"
    /\ unpersisted' = [unpersisted EXCEPT ![r] = @ \cup {sid[t]}]
    /\ Goto(t, "savePublish")
    /\ UNCHANGED <<dbVars, local, stamped, fresh, rows, locked, held,
                   reaperVars, envVars, faults, endVars>>

SavePublish(t) ==
    /\ pc[t] = "savePublish"
    /\ PutLocal(Home[t], sid[t], {})
    /\ cookies' = cookies \cup {sid[t]}
    /\ Finish(t)
    /\ UNCHANGED <<dbVars, rows, locked, reaperVars, minted, restarts,
                   faults, endVars>>

-----------------------------------------------------------------------------
(***************************************************************************)
(* Delete, for a logout and for a session Load found past its timeouts.    *)
(***************************************************************************)
DeleteRow(t) ==
    LET r == Home[t] IN
    /\ pc[t] = "loaded"
    /\ Lock(r)
    /\ DeleteAnswered(r, sid[t]) \/ DeleteFails(sid[t])
    /\ EndIfGone(sid[t], table')
    /\ Goto(t, "forget")
    /\ UNCHANGED <<local, markVars, held, reaperVars, envVars, won>>

DeleteForget(t) ==
    /\ pc[t] = "forget"
    /\ Forget(Home[t], sid[t], {})
    /\ Unlock(Home[t])
    /\ Goto(t, "dropLocal")
    /\ UNCHANGED <<dbVars, local, rows, held, reaperVars, envVars, faults,
                   endVars>>

DeleteLocal(t) ==
    /\ pc[t] = "dropLocal"
    /\ DropLocal(Home[t], {sid[t]})
    /\ Finish(t)
    /\ UNCHANGED <<dbVars, markVars, rows, locked, reaperVars, envVars,
                   faults, endVars>>

-----------------------------------------------------------------------------
(***************************************************************************)
(* Replace, called by Manager.Authenticate.  The admission mutex is held   *)
(* from the first step to the last.                                        *)
(***************************************************************************)

\* handOffGeneration
HandOff(r, old, new) ==
    /\ stamped' = [stamped EXCEPT ![r] = (@ \ {old}) \cup {new}]
    /\ fresh' = [fresh EXCEPT ![r] = (@ \ {old}) \cup {new}]

ReplaceBegin(t, new) ==
    LET r == Home[t] IN
    /\ pc[t] = "loaded" /\ new \notin minted
    /\ Lock(r)
    /\ minted' = minted \cup {new}
    /\ nid' = [nid EXCEPT ![t] = new]
    /\ IF HasSlot(r, sid[t]) \/ HasSlot(r, new)
       THEN /\ HandOff(r, sid[t], new)
            /\ pc' = [pc EXCEPT ![t] = "swapRow"]
       ELSE /\ UNCHANGED <<stamped, fresh>>
            /\ pc' = [pc EXCEPT ![t] = "swapLocalRow"]
    /\ UNCHANGED <<dbVars, local, unpersisted, rows, sid, held,
                   reaperVars, cookies, restarts, faults, endVars>>

\* A mutation of LoginLost: a delete that removed nothing reads as success.
LoginNeverLost(r, old) == FALSE

\* The delete removed nothing, and that is no write this process failed to do:
\* a logout, a sweep or a competing login got there first.
LoginLost(r, old) == old \notin table /\ old \notin unpersisted[r]

\* Replace returns false: the login fails and the pre-auth session, if it is
\* still anywhere, is left as it is.
ReplaceRefused(t) ==
    /\ Unlock(Home[t])
    /\ Finish(t)
    /\ held' = held \ {t}

\* replaceRow: one transaction that moves the row from the old id to the new.
ReplaceRow(t) ==
    LET r == Home[t]  old == sid[t]  new == nid[t] IN
    /\ pc[t] = "swapRow"
    /\ \/ /\ old \in table
          /\ table' = (table \ {old}) \cup {new}
          /\ stored' = stored \cup {new}
          /\ ended' = ended \cup {old}
          /\ won' = won \cup {old}
          /\ Goto(t, "rekeyed")
          /\ UNCHANGED <<unanswered, markVars, locked, held, faults>>
       \/ /\ old \in table
          /\ Fault
          /\ \/ UNCHANGED <<dbVars, ended>>
             \/ /\ LostReplies
                /\ table' = (table \ {old}) \cup {new}
                /\ stored' = stored \cup {new}
                /\ unanswered' = unanswered \cup {new}
                /\ ended' = ended \cup {old}
          /\ Goto(t, "swapLocal")
          /\ UNCHANGED <<markVars, locked, held, won>>
       \/ /\ Fault
          /\ Unstamp(r, new)
          /\ Goto(t, "swapLocal")
          /\ UNCHANGED <<dbVars, ended, won, unpersisted, locked, held>>
       \/ /\ old \notin table
          /\ Unstamp(r, new)
          /\ IF LoginLost(r, old)
             THEN ReplaceRefused(t)
             ELSE Goto(t, "swapLocal") /\ UNCHANGED <<locked, held>>
          /\ UNCHANGED <<dbVars, ended, won, unpersisted, faults>>
    /\ UNCHANGED <<local, rows, reaperVars, envVars>>

\* The swap committed: forget(old) and setPersisted(new, true).
ReplaceForget(t) ==
    LET r == Home[t] IN
    /\ pc[t] = "rekeyed"
    /\ Forget(r, sid[t], {})
    /\ Goto(t, "dropOld")
    /\ UNCHANGED <<dbVars, local, rows, locked, held, reaperVars, envVars,
                   faults, endVars>>

ReplaceDropOld(t) ==
    /\ pc[t] = "dropOld"
    /\ DropLocal(Home[t], {sid[t]})
    /\ Goto(t, "publishNew")
    /\ UNCHANGED <<dbVars, markVars, rows, locked, reaperVars, envVars,
                   faults, endVars>>

ReplacePublish(t) ==
    /\ pc[t] = "publishNew"
    /\ PutLocal(Home[t], nid[t], {})
    /\ cookies' = cookies \cup {nid[t]}
    /\ Unlock(Home[t])
    /\ Finish(t)
    /\ UNCHANGED <<dbVars, rows, reaperVars, minted, restarts, faults,
                   endVars>>

\* replaceLocally: no marker slot, so the old row is deleted on its own.
ReplaceLocally(t) ==
    LET r == Home[t]  old == sid[t] IN
    /\ pc[t] = "swapLocalRow"
    /\ \/ /\ ~LoginLost(r, old)
          /\ DeleteAnswered(r, old)
          /\ EndIfGone(old, table')
          /\ Goto(t, "swapLocal")
          /\ UNCHANGED <<locked, held>>
       \/ /\ DeleteFails(old)
          /\ EndIfGone(old, table')
          /\ Goto(t, "swapLocal")
          /\ UNCHANGED <<locked, held>>
       \/ /\ LoginLost(r, old)
          /\ ReplaceRefused(t)
          /\ UNCHANGED <<dbVars, rows, faults, ended>>
    /\ UNCHANGED <<local, markVars, reaperVars, envVars, won>>

\* local.Replace: the exact pointer has to be stored still.
ReplaceLocal(t) ==
    LET r == Home[t]  old == sid[t]  new == nid[t] IN
    /\ pc[t] = "swapLocal"
    /\ IF old \in local[r] /\ t \in held
       THEN /\ local' = [local EXCEPT ![r] = (@ \ {old}) \cup {new}]
            /\ held' = held \ Displaced(r, {old})
            /\ EndIfGone(old, table)
            /\ won' = won \cup {old}
            /\ Goto(t, "markLocal")
            /\ UNCHANGED locked
       ELSE /\ ReplaceRefused(t)
            /\ UNCHANGED <<local, ended, won>>
    /\ UNCHANGED <<dbVars, markVars, rows, reaperVars, envVars, faults>>

\* forget(old) and setPersisted(new, false)
ReplaceMarkLocal(t) ==
    LET r == Home[t] IN
    /\ pc[t] = "markLocal"
    /\ Forget(r, sid[t], {nid[t]})
    /\ cookies' = cookies \cup {nid[t]}
    /\ Unlock(r)
    /\ Finish(t)
    /\ UNCHANGED <<dbVars, local, rows, held, reaperVars, minted, restarts,
                   faults, endVars>>

-----------------------------------------------------------------------------
(***************************************************************************)
(* Reap: one sweep of replica r, started by the reaper's ticker.           *)
(***************************************************************************)
RGoto(r, step) == rpc' = [rpc EXCEPT ![r] = step]

\* Ids a thread of r has stamped and not yet committed.
Publishing(r) ==
    {sid[t] : t \in {u \in Threads : Home[u] = r /\ pc[u] = "saveInsert"}}
    \cup {nid[t] : t \in {u \in Threads : Home[u] = r /\ pc[u] = "swapRow"}}

\* scanEpoch: from here on only later stamps are newer than the scan.
ReapEpoch(r) ==
    /\ rpc[r] = "idle" /\ r \in Sweepers
    /\ fresh' = [fresh EXCEPT ![r] = {}]
    /\ RGoto(r, "scan")
    /\ UNCHANGED <<dbVars, local, unpersisted, stamped, rows, locked,
                   threadVars, present, pending, full, dead, target, raced,
                   envVars, faults, endVars>>

\* selectAll
ReapScan(r) ==
    /\ rpc[r] = "scan"
    /\ present' = [present EXCEPT ![r] = table]
    /\ raced' = [raced EXCEPT ![r] = Publishing(r)]
    /\ RGoto(r, IF MaxRows > 0 THEN "count" ELSE "snapshot")
    /\ UNCHANGED <<dbVars, local, markVars, rows, locked, threadVars,
                   pending, full, dead, target, envVars, faults, endVars>>

\* selectAll failed: the local view is swept on policy alone.
ReapScanFails(r) ==
    /\ rpc[r] = "scan"
    /\ Fault
    /\ \E lapsed \in SUBSET local[r] :
          /\ Timeouts \/ lapsed = {}
          /\ DropLocal(r, lapsed)
    /\ RGoto(r, "idle")
    /\ UNCHANGED <<dbVars, markVars, rows, locked, pc, sid, nid,
                   present, pending, full, dead, target, raced, envVars,
                   endVars>>

\* The reconcile from a fresh COUNT(*); a failed count keeps the old value.
ReapCount(r) ==
    /\ rpc[r] = "count"
    /\ ~locked[r]
    /\ \/ /\ rows' = [rows EXCEPT ![r] = Cardinality(table)]
          /\ UNCHANGED faults
       \/ /\ Fault
          /\ UNCHANGED rows
    /\ RGoto(r, "snapshot")
    /\ UNCHANGED <<dbVars, local, markVars, locked, threadVars, present,
                   pending, full, dead, target, raced, envVars, endVars>>

\* repersist: the pending ids are read before the admission mutex is taken.
RepersistSnapshot(r) ==
    /\ rpc[r] = "snapshot"
    /\ pending' = [pending EXCEPT ![r] = unpersisted[r]]
    /\ RGoto(r, "lock")
    /\ UNCHANGED <<dbVars, local, markVars, rows, locked, threadVars,
                   present, full, dead, target, raced, envVars, faults,
                   endVars>>

\* The mutex is taken, and given back at once when nothing is pending.
RepersistLock(r) ==
    /\ rpc[r] = "lock"
    /\ IF pending[r] = {}
       THEN ~locked[r] /\ RGoto(r, "sweep") /\ UNCHANGED <<locked, full>>
       ELSE /\ Lock(r)
            /\ full' = [full EXCEPT ![r] = CapReached(r)]
            /\ RGoto(r, "repersist")
    /\ UNCHANGED <<dbVars, local, markVars, rows, threadVars, present,
                   pending, dead, target, raced, envVars, faults, endVars>>

\* A mutation of Persisted: the mark stays.
NeverPersisted(r, id) == UNCHANGED unpersisted

\* setPersisted(id, true)
Persisted(r, id) ==
    unpersisted' = [unpersisted EXCEPT ![r] = @ \ {id}]

\* One turn of repersist's loop for an id that needs no write or gets none.
RepersistSkip(r, id) ==
    /\ rpc[r] = "repersist" /\ id \in pending[r]
    /\ pending' = [pending EXCEPT ![r] = @ \ {id}]
    /\ \/ /\ id \notin local[r] \/ id \in present[r]
          /\ Persisted(r, id)
       \/ /\ id \in local[r] /\ id \notin present[r]
          /\ full[r] \/ ~HasSlot(r, id)
          /\ UNCHANGED unpersisted
    /\ UNCHANGED <<dbVars, local, stamped, fresh, rows, locked, threadVars,
                   rpc, present, full, dead, target, raced, envVars, faults,
                   endVars>>

\* A turn that goes on to write: reserveGeneration.
RepersistReserve(r, id) ==
    /\ rpc[r] = "repersist" /\ id \in pending[r]
    /\ id \in local[r] /\ id \notin present[r]
    /\ ~full[r] /\ HasSlot(r, id)
    /\ Stamp(r, id)
    /\ target' = [target EXCEPT ![r] = {id}]
    /\ RGoto(r, "write")
    /\ UNCHANGED <<dbVars, local, unpersisted, rows, locked, threadVars,
                   present, pending, full, dead, raced, envVars, faults,
                   endVars>>

\* insert, with the generation it releases itself when it is refused.
RepersistInsert(r, id) ==
    /\ rpc[r] = "write" /\ id \in target[r]
    /\ pending' = [pending EXCEPT ![r] = @ \ {id}]
    /\ \/ /\ InsertCommits(r, id)
          /\ RGoto(r, "note")
          /\ UNCHANGED <<stamped, fresh, full, target>>
       \/ /\ CommitFails(r, id)
          /\ full' = [full EXCEPT ![r] =
                         @ \/ (MaxRows > 0 /\ rows'[r] >= MaxRows)]
          /\ target' = [target EXCEPT ![r] = {}]
          /\ RGoto(r, "repersist")
          /\ UNCHANGED <<stamped, fresh>>
       \/ /\ InsertRefused(r, id)
          /\ Unstamp(r, id)
          /\ full' = [full EXCEPT ![r] = @ \/ CapReached(r)]
          /\ target' = [target EXCEPT ![r] = {}]
          /\ RGoto(r, "repersist")
    /\ UNCHANGED <<local, unpersisted, locked, threadVars, present, dead,
                   raced, envVars, endVars>>

\* setPersisted(id, true), a critical section after the commit's.
RepersistNote(r, id) ==
    /\ rpc[r] = "note" /\ id \in target[r]
    /\ Persisted(r, id)
    /\ present' = [present EXCEPT ![r] = @ \cup {id}]
    /\ target' = [target EXCEPT ![r] = {}]
    /\ RGoto(r, "repersist")
    /\ UNCHANGED <<dbVars, local, stamped, fresh, rows, locked, threadVars,
                   pending, full, dead, raced, envVars, faults, endVars>>

RepersistUnlock(r) ==
    /\ rpc[r] = "repersist" /\ pending[r] = {}
    /\ Unlock(r)
    /\ full' = [full EXCEPT ![r] = FALSE]
    /\ RGoto(r, "sweep")
    /\ UNCHANGED <<dbVars, local, markVars, rows, threadVars, present,
                   pending, dead, target, raced, envVars, faults, endVars>>

\* A mutation of Condemned: the sweep filters the local map on policy alone.
CondemnedByPolicy(r) == {}

\* The local sessions the sweep takes for ended on another replica.
Condemned(r) ==
    {id \in local[r] : id \notin present[r] /\ AbsenceIsFinal(r, id)}

\* local.Reap with the sweep's predicate; lapsed are those past a timeout.
ReapLocal(r) ==
    /\ rpc[r] = "sweep"
    /\ \E lapsed \in SUBSET local[r] :
          /\ Timeouts \/ lapsed = {}
          /\ DropLocal(r, Condemned(r) \cup lapsed)
          /\ dead' = [dead EXCEPT ![r] = Condemned(r) \cup lapsed]
    /\ RGoto(r, "bury")
    /\ UNCHANGED <<dbVars, markVars, rows, locked, pc, sid, nid, present,
                   pending, full, target, raced, envVars, faults, endVars>>

BuryForget(r, id) ==
    /\ rpc[r] = "bury" /\ target[r] = {} /\ id \in dead[r]
    /\ Forget(r, id, {})
    /\ dead' = [dead EXCEPT ![r] = @ \ {id}]
    /\ target' = [target EXCEPT ![r] = present[r] \cap {id}]
    /\ UNCHANGED <<dbVars, local, rows, locked, threadVars, rpc, present,
                   pending, full, raced, envVars, faults, endVars>>

BuryRow(r, id) ==
    /\ rpc[r] = "bury" /\ id \in target[r]
    /\ ~locked[r]
    /\ DeleteAnswered(r, id) \/ DeleteFails(id)
    /\ EndIfGone(id, table')
    /\ target' = [target EXCEPT ![r] = {}]
    /\ present' = [present EXCEPT ![r] = @ \ {id}]
    /\ UNCHANGED <<local, markVars, locked, threadVars, rpc, pending, full,
                   dead, raced, envVars, won>>

\* A row no local session stands behind, and past the timeouts as far as the
\* scanned last_seen tells.
Abandon(r, id) ==
    /\ Timeouts
    /\ rpc[r] \in {"bury", "abandon"} /\ dead[r] = {} /\ target[r] = {}
    /\ id \in present[r] \ local[r]
    /\ target' = [target EXCEPT ![r] = {id}]
    /\ present' = [present EXCEPT ![r] = @ \ {id}]
    /\ RGoto(r, "abandon")
    /\ UNCHANGED <<dbVars, local, markVars, rows, locked, threadVars,
                   pending, full, dead, raced, envVars, faults, endVars>>

\* delIf: the row may have been refreshed since the scan, or be gone.
AbandonRow(r, id) ==
    /\ rpc[r] = "abandon" /\ id \in target[r]
    /\ ~locked[r]
    /\ \/ /\ id \in table
          /\ DeleteAnswered(r, id)
          /\ EndIfGone(id, table')
          /\ RGoto(r, "abandon")
       \/ /\ UNCHANGED <<dbVars, rows, faults, ended>>
          /\ RGoto(r, "abandon")
       \/ /\ DeleteFails(id)
          /\ EndIfGone(id, table')
          /\ RGoto(r, "prune")
    /\ target' = [target EXCEPT ![r] = {}]
    /\ UNCHANGED <<local, markVars, locked, threadVars, present, pending,
                   full, dead, raced, envVars, won>>

\* A mutation of Spent: the prune is keyed on the rows the scan returned.
SpentSeen(r) == (stamped[r] \ fresh[r]) \cap present[r]

\* The markers pruneGenerations drops: those no newer than the sweep.
Spent(r) == stamped[r] \ fresh[r]

\* pruneGenerations, and the end of the sweep.
ReapPrune(r) ==
    /\ rpc[r] \in {"bury", "abandon", "prune"}
    /\ dead[r] = {} /\ target[r] = {}
    /\ stamped' = [stamped EXCEPT ![r] = @ \ Spent(r)]
    /\ present' = [present EXCEPT ![r] = {}]
    /\ raced' = [raced EXCEPT ![r] = {}]
    /\ RGoto(r, "idle")
    /\ UNCHANGED <<dbVars, local, unpersisted, fresh, rows, locked,
                   threadVars, pending, full, dead, target, envVars, faults,
                   endVars>>

-----------------------------------------------------------------------------
(***************************************************************************)
(* The process stops, in order (Detach keeps the rows) or not, and a new   *)
(* one takes its place; a count that fails seeds the counter at the cap.   *)
(***************************************************************************)
Restart(r) ==
    LET gone == {t \in Threads : Home[t] = r} IN
    /\ restarts < MaxRestarts
    /\ restarts' = restarts + 1
    /\ local' = [local EXCEPT ![r] = {}]
    /\ unpersisted' = [unpersisted EXCEPT ![r] = {}]
    /\ stamped' = [stamped EXCEPT ![r] = {}]
    /\ fresh' = [fresh EXCEPT ![r] = {}]
    /\ locked' = [locked EXCEPT ![r] = FALSE]
    /\ IF MaxRows > 0
       THEN \/ /\ rows' = [rows EXCEPT ![r] = Cardinality(table)]
               /\ UNCHANGED faults
            \/ /\ Fault
               /\ rows' = [rows EXCEPT ![r] = MaxRows]
       ELSE /\ rows' = [rows EXCEPT ![r] = 0]
            /\ UNCHANGED faults
    /\ pc' = [t \in Threads |-> IF t \in gone THEN "idle" ELSE pc[t]]
    /\ sid' = [t \in Threads |-> IF t \in gone THEN NoId ELSE sid[t]]
    /\ nid' = [t \in Threads |-> IF t \in gone THEN NoId ELSE nid[t]]
    /\ held' = held \ gone
    /\ RGoto(r, "idle")
    /\ present' = [present EXCEPT ![r] = {}]
    /\ pending' = [pending EXCEPT ![r] = {}]
    /\ full' = [full EXCEPT ![r] = FALSE]
    /\ dead' = [dead EXCEPT ![r] = {}]
    /\ target' = [target EXCEPT ![r] = {}]
    /\ raced' = [raced EXCEPT ![r] = {}]
    /\ UNCHANGED <<dbVars, minted, cookies, endVars>>

-----------------------------------------------------------------------------
\* The steps that finish what a thread has begun.
ThreadStep(t) ==
    \/ GetMissing(t) \/ GetLocal(t) \/ GetAdopt(t) \/ Respond(t)
    \/ SaveInsert(t) \/ SaveFail(t) \/ SavePublish(t)
    \/ DeleteForget(t) \/ DeleteLocal(t)
    \/ ReplaceRow(t) \/ ReplaceForget(t) \/ ReplaceDropOld(t)
    \/ ReplacePublish(t) \/ ReplaceLocally(t) \/ ReplaceLocal(t)
    \/ ReplaceMarkLocal(t)

\* The steps a browser asks for.
Request(t) ==
    \/ DeleteRow(t)
    \/ \E id \in Ids : \/ GetSelect(t, id) \/ GetDegraded(t, id)
                       \/ SaveAdmit(t, id) \/ ReplaceBegin(t, id)

ReaperStep(r) ==
    \/ ReapEpoch(r) \/ ReapScan(r) \/ ReapScanFails(r) \/ ReapCount(r)
    \/ RepersistSnapshot(r) \/ RepersistLock(r) \/ RepersistUnlock(r)
    \/ ReapLocal(r) \/ ReapPrune(r)
    \/ \E id \in Ids : \/ RepersistSkip(r, id) \/ RepersistReserve(r, id)
                       \/ RepersistInsert(r, id) \/ RepersistNote(r, id)
                       \/ BuryForget(r, id) \/ BuryRow(r, id)
                       \/ Abandon(r, id) \/ AbandonRow(r, id)

\* The sweep of r goes by what its scan returned.
Scanned(r) ==
    rpc[r] \in {"count", "snapshot", "lock", "repersist", "write", "note", "sweep"}

\* The history of markers: a request of r found no slot for the session it is to
\* adopt; or a step takes the marker off a session that stays in the local store,
\* or that another request is about to put there.
Adopting(r, id) == \E t \in Threads : Home[t] = r /\ pc[t] = "adopt" /\ sid[t] = id
Unslotted(r, id) ==
    \E t \in Threads : /\ Home[t] = r /\ sid[t] = id
                       /\ pc[t] = "found" /\ pc'[t] = "adopt" /\ ~HasSlot(r, id)
TakenOff(r, id) ==
    id \in stamped[r] \ stamped'[r] /\ (id \in local'[r] \/ Adopting(r, id)')
KeepHistory ==
    unmarked' = [r \in Replicas |->
        IF Scanned(r)' THEN unmarked[r] \cup {id \in Ids : Unslotted(r, id) \/ TakenOff(r, id)}
        ELSE {}]

Next ==
    /\ \/ \E t \in Threads : ThreadStep(t) \/ Request(t)
       \/ \E r \in Replicas : ReaperStep(r) \/ Restart(r)
    /\ KeepHistory

Spec == Init /\ [][Next]_vars

(***************************************************************************)
(* A request that has begun runs to its end, and every replica's ticker    *)
(* keeps starting sweeps that run to theirs.  Browsers owe nothing.        *)
(***************************************************************************)
Fairness ==
    /\ \A t \in Threads : WF_vars(ThreadStep(t) /\ KeepHistory)
    /\ \A r \in Replicas : WF_vars(ReaperStep(r) /\ KeepHistory)

FairSpec == Spec /\ Fairness

-----------------------------------------------------------------------------
(***************************************************************************)
(* What the store promises.                                                *)
(***************************************************************************)
Registry == INSTANCE SessionRegistry WITH live <- table, used <- stored

\* Every change of the table is a creation of an id that never had a row, a
\* move to such an id, or a removal: whatever the replicas interleave, insert,
\* replaceRow, execN(del) and delIf implement the registry.  It needs failed
\* statements not to have been applied.
ImplementsRegistry == Registry!Spec

\* storage.max_sessions bounds the table of a deployment of one replica, even
\* when commits fail, replies are lost or the process restarts (insert,
\* replaceRow, the counter updates and the reconcile of Reap).
CapHolds == MaxRows > 0 => Cardinality(table) <= MaxRows

\* The counter never falls below the table in a deployment of one replica.
CounterCoversTable == \A r \in Replicas : MaxRows > 0 => Cardinality(table) <= rows[r]

\* Replace: as long as storage answers, two logins never both succeed from one
\* session, on whatever replicas; and a login whose session has no row any more
\* gets past its row step only if that is a write this process failed to do,
\* never because a logout, a sweep or another login has ended the session.
Wins(t) == pc'[t] # pc[t] /\ pc'[t] \in {"rekeyed", "markLocal"}
Proceeds(t) ==
    pc[t] \in {"swapRow", "swapLocalRow"} /\ pc'[t] \in {"rekeyed", "swapLocal"}
SingleWinner ==
    [][\A t \in Threads : faults' = 0 =>
          /\ Wins(t) => sid[t] \notin won
          /\ Proceeds(t) /\ sid[t] \in local[Home[t]]
                => sid[t] \notin ended \ table]_vars

\* Reap: a session the sweep takes for ended elsewhere, and that has had a row,
\* was ended, but for those whose row this very replica was writing while the
\* scan ran (reserveGeneration's comment says otherwise: MarkedInTime), and those
\* left without a marker since: by an adoption that finds no slot, which Get
\* accepts, and by a logout, a login or an eviction that takes it off while
\* another request keeps or adopts the session (MarkersStay).
CondemnedWereEndedOrRaced ==
    \A r \in Replicas : rpc[r] = "sweep" =>
        Condemned(r) \cap stored \subseteq ended \cup raced[r] \cup unmarked[r]

\* Thread t, or replica r, may still insert a row for id.
Writing(t, id) ==
    \/ pc[t] \in {"saveInsert", "saveFail"} /\ sid[t] = id
    \/ pc[t] \in {"swapRow", "swapLocalRow", "swapLocal", "markLocal"}
       /\ nid[t] = id
\* The row repersist has written and not noted yet.
Noting(r) == IF rpc[r] = "note" THEN target[r] ELSE {}
Owes(r, id) == id \in (unpersisted[r] \cup pending[r]) \ Noting(r)

\* insert, replaceRow, setPersisted and repersist: an id that may still be
\* inserted has never had a row, and one thread or one replica alone may insert
\* it.  It needs failed statements not to have been applied.
OneWriter ==
    /\ stored \subseteq minted
    /\ \A id \in Ids :
          /\ \A t \in Threads : Writing(t, id) =>
                /\ id \in minted \ stored
                /\ \A u \in Threads : Writing(u, id) => u = t
                /\ \A r \in Replicas : ~Owes(r, id)
          /\ \A r \in Replicas : Owes(r, id) =>
                /\ id \in minted \ stored
                /\ \A q \in Replicas : Owes(q, id) => q = r

\* absenceIsFinal: no other replica has seen a session whose write failed, so
\* none can have ended it; but for the one repersist has just written and not
\* noted, and those a commit wrote whose answer was lost (absenceIsFinal's
\* comment has no such exception: UnwrittenAreOurs).
UnpersistedIsOurs ==
    \A r, other \in Replicas :
        other # r => unpersisted[r] \cap local[other] \subseteq unanswered \cup Noting(r)

\* Reap: a session ended anywhere leaves the local store of every replica, so
\* its pools are released.
EndsReachEveryReplica ==
    \A r \in Sweepers : \A id \in Ids :
        (id \in ended \ table /\ id \in local[r])
            ~> (id \notin local[r] \/ id \in table)

\* repersist: a session this process could not write is written, or leaves it,
\* once storage answers.
UnpersistedSettles ==
    \A r \in Sweepers : \A id \in Ids :
        (id \in unpersisted[r]) ~> (id \notin unpersisted[r])

\* pruneGenerations: no marker stays for ever, so the map cannot wedge.
MarkersDrain ==
    \A r \in Sweepers : \A id \in Ids :
        (id \in stamped[r]) ~> (id \notin stamped[r])
=============================================================================
