------------------------- MODULE UserContext_proofs -------------------------
(***************************************************************************)
(* Proofs about UserContext, for any number of sessions, requests and      *)
(* databases, and any cap: the types, that a session dials a database once *)
(* at a time, that no connection is lost, and that the budget of pools is  *)
(* exact and never passed.                                                 *)
(***************************************************************************)
EXTENDS UserContext, FiniteSetTheorems, TLAPS

-----------------------------------------------------------------------------
(***************************************************************************)
(* Lemmas on a session's cache: what its updates keep.                     *)
(***************************************************************************)

\* A cache maps databases to connections; a cache with a pool more or less is
\* one too (ConnFor, ClosePool).
LEMMA PoolsClosed ==
    ASSUME NEW p \in Pools, NEW db \in Databases, NEW c \in Conns
    PROVE  /\ DOMAIN p \subseteq Databases
           /\ \A d \in DOMAIN p : p[d] \in Conns
           /\ Without(p, db) \in Pools
           /\ [d \in DOMAIN p \cup {db} |-> IF d = db THEN c ELSE p[d]] \in Pools
<1>1. PICK D \in SUBSET Databases : p \in [D -> Conns]
    BY DEF Pools
<1>2. Without(p, db) \in [D \ {db} -> Conns]
    BY <1>1 DEF Without
<1>3. [d \in DOMAIN p \cup {db} |-> IF d = db THEN c ELSE p[d]]
        \in [D \cup {db} -> Conns]
    BY <1>1
<1>4. D \ {db} \in SUBSET Databases /\ D \cup {db} \in SUBSET Databases
    OBVIOUS
<1> QED BY <1>1, <1>2, <1>3, <1>4 DEF Pools

\* The same of the order of use (touchPoolLocked and the drop of a pool).
LEMMA UsesClosed ==
    ASSUME NEW use \in Uses, NEW db \in Databases
    PROVE  /\ DOMAIN use \subseteq Databases
           /\ \A d \in DOMAIN use : use[d] \subseteq Databases
           /\ Used(use, db) \in Uses
           /\ [d \in DOMAIN use \ {db} |-> use[d] \ {db}] \in Uses
<1>1. PICK D \in SUBSET Databases : use \in [D -> SUBSET Databases]
    BY DEF Uses
<1>2. Used(use, db) \in [D \cup {db} -> SUBSET Databases]
    BY <1>1 DEF Used
<1>3. [d \in DOMAIN use \ {db} |-> use[d] \ {db}] \in [D \ {db} -> SUBSET Databases]
    BY <1>1
<1>4. D \ {db} \in SUBSET Databases /\ D \cup {db} \in SUBSET Databases
    OBVIOUS
<1> QED BY <1>1, <1>2, <1>3, <1>4 DEF Uses

\* A session without pools has one, and an order of use.
LEMMA NoPools ==
    <<>> \in Pools /\ <<>> \in Uses /\ DOMAIN <<>> = {}
<1>1. <<>> \in [{} -> Conns] /\ <<>> \in [{} -> SUBSET Databases]
    OBVIOUS
<1> QED BY <1>1 DEF Pools, Uses

\* ClosePool and an eviction keep the order of use.
LEMMA DropOrdered ==
    ASSUME NEW u \in Contexts, Ordered(u), NEW db \in Databases
    PROVE  /\ Drop(u, db) \in Contexts
           /\ Ordered(Drop(u, db))
           /\ Drop(u, db).pools = Without(u.pools, db)
           /\ Drop(u, db).mu = u.mu
           /\ Drop(u, db).opening = u.opening
<1> DEFINE v == Drop(u, db)
<1>1. /\ v = [u EXCEPT !.pools = Without(u.pools, db),
                       !.poolUse = [d \in DOMAIN u.poolUse \ {db} |-> u.poolUse[d] \ {db}]]
    BY DEF Drop
<1>2. /\ u.pools \in Pools /\ u.poolUse \in Uses
    BY DEF Contexts
<1>3. PICK c : c \in Conns
    BY DEF Contexts
<1>4. Without(u.pools, db) \in Pools
    BY <1>2, <1>3, PoolsClosed
<1>5. [d \in DOMAIN u.poolUse \ {db} |-> u.poolUse[d] \ {db}] \in Uses
    BY <1>2, UsesClosed
<1>6. /\ v.pools = Without(u.pools, db)
      /\ v.poolUse = [d \in DOMAIN u.poolUse \ {db} |-> u.poolUse[d] \ {db}]
      /\ v.mu = u.mu /\ v.opening = u.opening
      /\ v \in Contexts
    BY <1>1, <1>4, <1>5 DEF Contexts
<1>7. /\ DOMAIN v.pools = DOMAIN u.pools \ {db}
      /\ DOMAIN v.poolUse = DOMAIN u.poolUse \ {db}
      /\ \A d \in DOMAIN v.poolUse : v.poolUse[d] = u.poolUse[d] \ {db}
    BY <1>6 DEF Without
<1>8. Ordered(v)
    <2>1. DOMAIN v.poolUse = DOMAIN v.pools
        BY <1>7 DEF Ordered
    <2>2. ASSUME NEW d \in DOMAIN v.pools, NEW e \in DOMAIN v.pools, d # e
          PROVE  d \in v.poolUse[e] <=> e \notin v.poolUse[d]
        BY <2>1, <2>2, <1>7 DEF Ordered
    <2> QED BY <2>1, <2>2 DEF Ordered
<1> QED BY <1>6, <1>8

\* So does the use of a pool, a cached or a fresh one.
LEMMA UseOrdered ==
    ASSUME NEW u, Ordered(u), NEW w, NEW db,
           w.poolUse = Used(u.poolUse, db),
           DOMAIN w.pools = DOMAIN u.pools \cup {db}
    PROVE  Ordered(w)
<1>1. /\ DOMAIN w.poolUse = DOMAIN u.pools \cup {db}
      /\ db \in DOMAIN w.poolUse /\ w.poolUse[db] = {}
      /\ \A d \in DOMAIN u.pools : d # db => w.poolUse[d] = u.poolUse[d] \cup {db}
    BY DEF Used, Ordered
<1>2. ASSUME NEW d \in DOMAIN w.pools, NEW e \in DOMAIN w.pools, d # e
      PROVE  d \in w.poolUse[e] <=> e \notin w.poolUse[d]
    <2>1. CASE d = db
        BY <1>1, <1>2, <2>1
    <2>2. CASE e = db
        BY <1>1, <1>2, <2>2
    <2>3. CASE d # db /\ e # db
        BY <1>1, <1>2, <2>3 DEF Ordered
    <2> QED BY <2>1, <2>2, <2>3
<1> QED BY <1>1, <1>2 DEF Ordered

-----------------------------------------------------------------------------
(***************************************************************************)
(* Type correctness.  To be inductive it needs the database, and in some   *)
(* steps the connection, that a request which is not idle has at hand.     *)
(***************************************************************************)
Busy ==
    \A t \in Threads :
        /\ task[t].pc # "idle" => task[t].db \in Databases
        /\ task[t].pc \in {"dialled", "maintDrop", "maintClose", "rebind"}
              => task[t].conn \in Conns

Types == TypeOK /\ Busy

TaskTypes == task \in [Threads -> Tasks] /\ Busy

ContextTypes == uc \in [Sessions -> Contexts] /\ \A s \in Sessions : Ordered(uc[s])

ConnTypes == conns \in [Conns -> [open : BOOLEAN, db : Databases, owner : Sessions]]

DatabaseTypes == dbs \subseteq Databases /\ gone \in [Sessions -> SUBSET Databases]

LEMMA TypesParts ==
    Types <=> TaskTypes /\ ContextTypes /\ ConnTypes /\ DatabaseTypes /\ budget \in Nat
BY DEF Types, TypeOK, TaskTypes, ContextTypes, ConnTypes, DatabaseTypes

\* Where the next step of a request may be: the places that need no connection.
LEMMA Moves ==
    ASSUME TaskTypes, NEW t \in Threads, task[t].pc # "idle",
           NEW step \in Steps \ {"dialled", "maintDrop", "maintClose", "rebind"},
           Goto(t, step)
    PROVE  TaskTypes'
BY DEF TaskTypes, Busy, Goto, Tasks

LEMMA Ends ==
    ASSUME TaskTypes, NEW t \in Threads, Done(t)
    PROVE  TaskTypes'
BY DEF TaskTypes, Busy, Done, Idle, Tasks, Steps, Dialling

\* A request whose place and belongings are written at once.
LEMMA TaskSet ==
    ASSUME TaskTypes, NEW t \in Threads, NEW v \in Tasks,
           task' = [task EXCEPT ![t] = v],
           v.pc # "idle" => v.db \in Databases,
           v.pc \in {"dialled", "maintDrop", "maintClose", "rebind"} => v.conn \in Conns
    PROVE  TaskTypes'
BY DEF TaskTypes, Busy

\* The requests that are woken go back to the loop.
LEMMA Waking ==
    ASSUME NEW T \in [Threads -> Tasks], NEW s, NEW db,
           \A t \in Threads :
               /\ T[t].pc # "idle" => T[t].db \in Databases
               /\ T[t].pc \in {"dialled", "maintDrop", "maintClose", "rebind"}
                     => T[t].conn \in Conns,
           task' = Wakes(T, s, db)
    PROVE  TaskTypes'
<1>1. ASSUME NEW u \in Threads
      PROVE  /\ task'[u] \in Tasks
             /\ task'[u].pc # "idle" => task'[u].db \in Databases
             /\ task'[u].pc \in {"dialled", "maintDrop", "maintClose", "rebind"}
                   => task'[u].conn \in Conns
    <2>1. task'[u] = T[u] \/ (task'[u] = [T[u] EXCEPT !.pc = "pool"] /\ T[u].pc = "wait")
        BY DEF Wakes
    <2> QED BY <2>1 DEF Tasks, Steps, Dialling
<1> QED BY <1>1 DEF Wakes, TaskTypes, Busy

LEMMA ContextSet ==
    ASSUME ContextTypes, NEW s \in Sessions, NEW w \in Contexts,
           \/ Ordered(w)
           \/ w.pools = uc[s].pools /\ w.poolUse = uc[s].poolUse,
           uc' = [uc EXCEPT ![s] = w]
    PROVE  ContextTypes'
BY DEF ContextTypes, Ordered

LEMMA Budgets ==
    /\ budget \in Nat /\ Acquire => budget' \in Nat
    /\ \A k \in Nat : budget \in Nat /\ Release(k) => budget' \in Nat
BY DEF Acquire, Release

LEMMA Closings ==
    ASSUME ConnTypes, NEW C, Closed(C)
    PROVE  ConnTypes'
BY DEF ConnTypes, Closed

LEMMA Openings ==
    ASSUME ConnTypes, NEW c \in Conns, NEW db \in Databases, NEW s \in Sessions,
           Opened(c, db, s)
    PROVE  ConnTypes'
BY DEF ConnTypes, Opened

\* Every request has a session, and what its session's context holds is typed.
LEMMA OwnerTypes ==
    ASSUME Types, NEW t \in Threads
    PROVE  /\ Owner[t] \in Sessions
           /\ uc[Owner[t]] \in Contexts /\ Ordered(uc[Owner[t]])
           /\ uc[Owner[t]].pools \in Pools /\ uc[Owner[t]].poolUse \in Uses
           /\ uc[Owner[t]].server \in Conns
           /\ DOMAIN uc[Owner[t]].pools \subseteq Databases
           /\ \A d \in DOMAIN uc[Owner[t]].pools : uc[Owner[t]].pools[d] \in Conns
<1>1. Owner[t] \in Sessions
    BY ConstantsAssumption
<1>2. uc[Owner[t]] \in Contexts /\ Ordered(uc[Owner[t]])
    BY <1>1, TypesParts DEF ContextTypes
<1>3. /\ uc[Owner[t]].pools \in Pools /\ uc[Owner[t]].poolUse \in Uses
      /\ uc[Owner[t]].server \in Conns
    BY <1>2 DEF Contexts
<1>4. task[t].pc # "idle" => task[t].db \in Databases
    BY DEF Types, Busy
<1> QED BY <1>1, <1>2, <1>3, PoolsClosed, ConstantsAssumption

\* A step of ConnFor.
LEMMA ConnTypesNext ==
    ASSUME Types, NEW t \in Threads,
           \/ ConnServer(t) \/ ConnClosed(t) \/ ConnCached(t) \/ ConnWait(t)
           \/ ConnAcquire(t) \/ ConnSpent(t) \/ ConnEvict(t) \/ ConnRefused(t)
           \/ ConnRetry(t) \/ Dial(t) \/ ConnFailed(t) \/ ConnDialled(t)
           \/ ConnDiscard(t)
    PROVE  Types'
<1> DEFINE s == Owner[t]
           db == task[t].db
<1>0. /\ TaskTypes /\ ContextTypes /\ ConnTypes /\ DatabaseTypes
      /\ budget \in Nat
    BY TypesParts
<1>a. /\ task[t] \in Tasks /\ s \in Sessions
      /\ uc[s] \in Contexts /\ Ordered(uc[s])
      /\ uc[s].pools \in Pools /\ uc[s].poolUse \in Uses
      /\ uc[s].server \in Conns
      /\ DOMAIN uc[s].pools \subseteq Databases
      /\ \A d \in DOMAIN uc[s].pools : uc[s].pools[d] \in Conns
      /\ task[t].pc # "idle" => db \in Databases
      /\ task[t].pc = "dialled" => task[t].conn \in Conns
    BY <1>0, OwnerTypes DEF TaskTypes, Busy
<1> SUFFICES (TaskTypes /\ ContextTypes /\ ConnTypes /\ DatabaseTypes /\ budget \in Nat)'
    BY TypesParts, PTL
<1>1. CASE ConnServer(t)
    <2>1. TaskTypes'
        <3>1. CASE uc[s].closed
            BY <1>0, <1>1, <3>1, Ends DEF ConnServer
        <3>2. CASE ~uc[s].closed
            <4> DEFINE v == [task[t] EXCEPT !.pc = "got", !.conn = uc[s].server]
            <4>1. task' = [task EXCEPT ![t] = v]
                BY <1>0, <1>1, <3>2 DEF ConnServer, TaskTypes
            <4>2. v \in Tasks /\ v.pc = "got" /\ v.db \in Databases
                BY <1>1, <1>a DEF ConnServer, At, Tasks, Steps
            <4> HIDE DEF v
            <4> QED BY <1>0, <4>1, <4>2, TaskSet
        <3> QED BY <3>1, <3>2
    <2> QED BY <1>0, <1>1, <2>1 DEF ConnServer, ContextTypes, ConnTypes, DatabaseTypes
<1>2. CASE ConnClosed(t)
    BY <1>0, <1>2, Ends DEF ConnClosed, ContextTypes, ConnTypes, DatabaseTypes
<1>3. CASE ConnCached(t)
    <2>1. TaskTypes'
        BY <1>0, <1>3, <1>a DEF ConnCached, TaskTypes, Busy, At, Tasks, Steps, Dialling
    <2>2. db \in Databases /\ db \in DOMAIN uc[s].pools
        BY <1>3, <1>a DEF ConnCached, At
    <2>3. Used(uc[s].poolUse, db) \in Uses
        BY <1>a, <2>2, UsesClosed
    <2>4. uc' = [uc EXCEPT ![s] = [uc[s] EXCEPT !.poolUse = Used(uc[s].poolUse, db)]]
        BY <1>0, <1>3, <1>a DEF ConnCached, ContextTypes, Contexts
    <2>5. [uc[s] EXCEPT !.poolUse = Used(uc[s].poolUse, db)] \in Contexts
        BY <1>a, <2>3 DEF Contexts
    <2>6. Ordered([uc[s] EXCEPT !.poolUse = Used(uc[s].poolUse, db)])
        BY <1>a, <2>2, UseOrdered DEF Contexts
    <2>7. ContextTypes'
        BY <1>0, <1>a, <2>4, <2>5, <2>6 DEF ContextTypes
    <2> QED BY <1>0, <1>3, <2>1, <2>7 DEF ConnCached, ConnTypes, DatabaseTypes
<1>4. CASE ConnWait(t)
    BY <1>0, <1>4, Moves DEF ConnWait, At, Steps, Dialling, ContextTypes, ConnTypes, DatabaseTypes
<1>5. CASE ConnAcquire(t) \/ ConnRetry(t)
    <2>1. db \in Databases /\ StartDial(t, s) /\ Acquire /\ UNCHANGED <<conns, dbs, gone>>
        BY <1>5, <1>a DEF ConnAcquire, ConnRetry, Misses, At
    <2>2. TaskTypes'
        BY <1>0, <1>5, <1>a, <2>1 DEF StartDial, TaskTypes, Busy, Tasks, Steps, Dialling
    <2>3. uc' = [uc EXCEPT ![s] = [uc[s] EXCEPT !.opening = uc[s].opening \cup {db},
                                               !.mu = NoThread]]
        BY <1>0, <2>1, <1>a DEF StartDial, ContextTypes, Contexts
    <2>4. ContextTypes'
        <3> DEFINE w == [uc[s] EXCEPT !.opening = uc[s].opening \cup {db}, !.mu = NoThread]
        <3>1. w \in Contexts /\ w.pools = uc[s].pools /\ w.poolUse = uc[s].poolUse
            BY <1>a, <2>1 DEF Contexts
        <3> QED BY <1>0, <1>a, <2>3, <3>1, ContextSet
    <2> QED BY <1>0, <2>1, <2>2, <2>4, Budgets DEF ConnTypes, DatabaseTypes
<1>6. CASE ConnSpent(t)
    <2>1. TaskTypes'
        BY <1>0, <1>6, Moves DEF ConnSpent, Misses, At, Steps, Dialling
    <2>2. ContextTypes'
        BY <1>0, <1>a, <1>6 DEF ConnSpent, ContextTypes, Contexts, Ordered
    <2> QED BY <1>0, <1>6, <2>1, <2>2 DEF ConnSpent, ConnTypes, DatabaseTypes
<1>7. CASE ConnEvict(t)
    <2>1. TaskTypes'
        BY <1>0, <1>7, Moves DEF ConnEvict, At, Steps, Dialling
    <2>2. PICK victim \in DOMAIN uc[s].pools :
              /\ Closed({uc[s].pools[victim]})
              /\ uc' = [uc EXCEPT ![s] = Drop(uc[s], victim)]
        BY <1>0, <1>a, <1>7 DEF ConnEvict, Evictable, ContextTypes
    <2>3. ContextTypes'
        BY <1>0, <1>a, <2>2, DropOrdered DEF ContextTypes
    <2> QED BY <1>0, <1>7, <2>1, <2>2, <2>3, Closings, Budgets DEF ConnEvict, DatabaseTypes
<1>8. CASE ConnRefused(t)
    <2>1. TaskTypes'
        BY <1>0, <1>8, Ends DEF ConnRefused
    <2>2. ContextTypes'
        BY <1>0, <1>a, <1>8 DEF ConnRefused, ContextTypes, Contexts, Ordered
    <2> QED BY <1>0, <1>8, <2>1, <2>2 DEF ConnRefused, ConnTypes, DatabaseTypes
<1>9. CASE Dial(t)
    <2>1. db \in Databases
        BY <1>9, <1>a DEF Dial, At
    <2>2. CASE Goto(t, "failed") /\ UNCHANGED conns
        BY <1>0, <1>9, <2>2, Moves DEF Dial, At, Steps, Dialling, ContextTypes, ConnTypes, DatabaseTypes
    <2>3. CASE \E c \in Unnamed : /\ Opened(c, db, s)
                                  /\ task' = [task EXCEPT ![t].pc = "dialled", ![t].conn = c]
        <3>1. PICK c \in Conns : /\ Opened(c, db, s)
                                 /\ task' = [task EXCEPT ![t].pc = "dialled", ![t].conn = c]
            BY <2>3 DEF Unnamed
        <3>2. TaskTypes'
            BY <1>0, <1>a, <2>1, <3>1 DEF TaskTypes, Busy, Tasks, Steps, Dialling
        <3>3. ConnTypes'
            BY <1>0, <1>a, <2>1, <3>1, Openings
        <3> QED BY <1>0, <1>9, <3>2, <3>3 DEF Dial, ContextTypes, DatabaseTypes
    <2> QED BY <1>9, <2>2, <2>3 DEF Dial
<1>10. CASE ConnFailed(t)
    <2>1. TaskTypes'
        BY <1>0, <1>10, <1>a DEF ConnFailed, Wakes, TaskTypes, Busy, Idle, Tasks, Steps, Dialling
    <2>2. ContextTypes'
        <3> DEFINE w == [uc[s] EXCEPT !.opening = uc[s].opening \ {db}]
        <3>1. w \in Contexts /\ w.pools = uc[s].pools /\ w.poolUse = uc[s].poolUse
            BY <1>a DEF Contexts
        <3>2. uc' = [uc EXCEPT ![s] = w]
            BY <1>0, <1>10, <1>a DEF ConnFailed, ContextTypes
        <3> QED BY <1>0, <1>a, <3>1, <3>2, ContextSet
    <2> QED BY <1>0, <1>10, <2>1, <2>2, Budgets DEF ConnFailed, ConnTypes, DatabaseTypes
<1>11. CASE ConnDialled(t)
    <2>0. db \in Databases /\ task[t].conn \in Conns
        BY <1>11, <1>a DEF ConnDialled, At
    <2>1. TaskTypes'
        <3>1. CASE uc[s].closed \/ task[t].stale
            <4> DEFINE v == [task[t] EXCEPT !.pc = "discard",
                                          !.after = IF uc[s].closed THEN "idle" ELSE "pool"]
                       T == [task EXCEPT ![t] = v]
            <4>1. task' = Wakes(T, s, db)
                BY <1>0, <1>11, <1>a, <3>1 DEF ConnDialled, TaskTypes
            <4>2. v \in Tasks /\ v.pc = "discard" /\ v.db \in Databases
                BY <1>11, <1>a, <2>0 DEF ConnDialled, At, Tasks, Steps
            <4> HIDE DEF v
            <4>3. T \in [Threads -> Tasks]
                BY <1>0, <4>2 DEF TaskTypes
            <4>4. \A u \in Threads :
                      /\ T[u].pc # "idle" => T[u].db \in Databases
                      /\ T[u].pc \in {"dialled", "maintDrop", "maintClose", "rebind"}
                            => T[u].conn \in Conns
                BY <1>0, <4>2 DEF TaskTypes, Busy
            <4> QED BY <4>1, <4>3, <4>4, Waking
        <3>2. CASE ~(uc[s].closed \/ task[t].stale)
            <4> DEFINE v == [task[t] EXCEPT !.pc = "got"]
                       T == [task EXCEPT ![t] = v]
            <4>1. task' = Wakes(T, s, db)
                BY <1>0, <1>11, <1>a, <3>2 DEF ConnDialled, TaskTypes
            <4>2. v \in Tasks /\ v.pc = "got" /\ v.db \in Databases
                BY <1>11, <1>a, <2>0 DEF ConnDialled, At, Tasks, Steps
            <4> HIDE DEF v
            <4>3. T \in [Threads -> Tasks]
                BY <1>0, <4>2 DEF TaskTypes
            <4>4. \A u \in Threads :
                      /\ T[u].pc # "idle" => T[u].db \in Databases
                      /\ T[u].pc \in {"dialled", "maintDrop", "maintClose", "rebind"}
                            => T[u].conn \in Conns
                BY <1>0, <4>2 DEF TaskTypes, Busy
            <4> QED BY <4>1, <4>3, <4>4, Waking
        <3> QED BY <3>1, <3>2
    <2>2. ContextTypes'
        <3>1. CASE uc[s].closed \/ task[t].stale
            <4> DEFINE w == [uc[s] EXCEPT !.opening = uc[s].opening \ {db}]
            <4>1. w \in Contexts /\ w.pools = uc[s].pools /\ w.poolUse = uc[s].poolUse
                BY <1>a DEF Contexts
            <4>2. uc' = [uc EXCEPT ![s] = w]
                BY <1>0, <1>11, <1>a, <3>1 DEF ConnDialled, ContextTypes
            <4> QED BY <1>0, <1>a, <4>1, <4>2, ContextSet
        <3>2. CASE ~(uc[s].closed \/ task[t].stale)
            <4> DEFINE q == [d \in DOMAIN uc[s].pools \cup {db} |->
                               IF d = db THEN task[t].conn ELSE uc[s].pools[d]]
                       w == [uc[s] EXCEPT !.opening = uc[s].opening \ {db}, !.pools = q,
                                          !.poolUse = Used(uc[s].poolUse, db)]
            <4>1. uc' = [uc EXCEPT ![s] = w]
                BY <1>0, <1>a, <1>11, <3>2 DEF ConnDialled, ContextTypes, Contexts
            <4>2. q \in Pools /\ Used(uc[s].poolUse, db) \in Uses
                BY <1>a, <2>0, PoolsClosed, UsesClosed
            <4>3. w \in Contexts
                BY <1>a, <4>2 DEF Contexts
            <4>4. w.poolUse = Used(uc[s].poolUse, db) /\ DOMAIN w.pools = DOMAIN uc[s].pools \cup {db}
                BY <1>a DEF Contexts
            <4>5. Ordered(w)
                BY <1>a, <4>4, UseOrdered
            <4> QED BY <1>0, <1>a, <4>1, <4>3, <4>5 DEF ContextTypes
        <3> QED BY <3>1, <3>2
    <2> QED BY <1>0, <1>11, <2>1, <2>2 DEF ConnDialled, ConnTypes, DatabaseTypes
<1>12. CASE ConnDiscard(t)
    <2>1. TaskTypes'
        BY <1>0, <1>12, <1>a DEF ConnDiscard, At, TaskTypes, Busy, Idle, Tasks, Steps, Dialling
    <2>2. ConnTypes' /\ budget' \in Nat
        BY <1>0, <1>12, Closings, Budgets DEF ConnDiscard
    <2> QED BY <1>0, <1>12, <2>1, <2>2 DEF ConnDiscard, ContextTypes, DatabaseTypes
<1> QED BY <1>1, <1>2, <1>3, <1>4, <1>5, <1>6, <1>7, <1>8, <1>9, <1>10, <1>11, <1>12

\* ClosePool, whatever the request does next.
LEMMA ClosePoolTypes ==
    ASSUME Types, NEW t \in Threads, task[t].db \in Databases,
           NEW v \in Tasks, v.pc # "idle" => v.db \in Databases,
           v.pc \in {"dialled", "maintDrop", "maintClose", "rebind"} => v.conn \in Conns,
           ClosePool(t, [task EXCEPT ![t] = v])
    PROVE  TaskTypes' /\ ContextTypes' /\ ConnTypes' /\ budget' \in Nat
           /\ gone' \in [Sessions -> SUBSET Databases]
<1> DEFINE s == Owner[t]
           db == task[t].db
           T == [task EXCEPT ![t] = v]
<1>0. TaskTypes /\ ContextTypes /\ ConnTypes /\ DatabaseTypes /\ budget \in Nat
    BY TypesParts
<1>a. s \in Sessions /\ uc[s] \in Contexts /\ Ordered(uc[s])
    BY OwnerTypes
<1>1. TaskTypes'
    <2>1. T \in [Threads -> Tasks]
        BY <1>0 DEF TaskTypes
    <2>2. \A u \in Threads :
              /\ T[u].pc # "idle" => T[u].db \in Databases
              /\ T[u].pc \in {"dialled", "maintDrop", "maintClose", "rebind"}
                    => T[u].conn \in Conns
        BY <1>0 DEF TaskTypes, Busy
    <2>3. task' = [u \in Threads |->
                     IF T[u].pc \in Dialling /\ Owner[u] = s /\ T[u].db = db
                     THEN [T[u] EXCEPT !.stale = TRUE] ELSE T[u]]
        BY DEF ClosePool
    <2> HIDE DEF T
    <2>4. ASSUME NEW u \in Threads
          PROVE  /\ task'[u] \in Tasks
                 /\ task'[u].pc = T[u].pc /\ task'[u].db = T[u].db /\ task'[u].conn = T[u].conn
        <3>1. task'[u] = T[u] \/ task'[u] = [T[u] EXCEPT !.stale = TRUE]
            BY <2>3
        <3>2. T[u] \in Tasks
            BY <2>1
        <3> QED BY <3>1, <3>2 DEF Tasks
    <2> QED BY <2>2, <2>3, <2>4 DEF TaskTypes, Busy
<1>2. ContextTypes'
    <2>1. CASE db \in DOMAIN uc[s].pools
        <3>1. uc' = [uc EXCEPT ![s] = Drop(uc[s], db)]
            BY <1>0, <1>a, <2>1 DEF ClosePool, ContextTypes
        <3>2. Drop(uc[s], db) \in Contexts /\ Ordered(Drop(uc[s], db))
            BY <1>a, DropOrdered
        <3> QED BY <1>0, <1>a, <3>1, <3>2, ContextSet
    <2>2. CASE db \notin DOMAIN uc[s].pools
        BY <1>0, <2>2 DEF ClosePool, ContextTypes
    <2> QED BY <2>1, <2>2
<1>3. ConnTypes' /\ budget' \in Nat
    BY <1>0, Closings, Budgets DEF ClosePool, ConnTypes
<1>4. gone' \in [Sessions -> SUBSET Databases]
    BY <1>0, <1>a DEF ClosePool, DatabaseTypes
<1> QED BY <1>1, <1>2, <1>3, <1>4

\* A step of a query or of dropDatabase.
LEMMA DropTypesNext ==
    ASSUME Types, NEW t \in Threads,
           \/ Query(t) \/ QueryDone(t) \/ DropExec(t) \/ DropClosePool(t)
           \/ MaintBegin(t) \/ MaintDial(t) \/ MaintDrop(t) \/ MaintFail(t)
           \/ MaintClosePool(t) \/ Rebind(t) \/ CloseOld(t)
    PROVE  Types'
<1> DEFINE s == Owner[t]
           db == task[t].db
<1>0. TaskTypes /\ ContextTypes /\ ConnTypes /\ DatabaseTypes /\ budget \in Nat
    BY TypesParts
<1>a. /\ task[t] \in Tasks /\ s \in Sessions
      /\ uc[s] \in Contexts /\ Ordered(uc[s]) /\ uc[s].server \in Conns
      /\ task[t].pc # "idle" => db \in Databases
      /\ task[t].pc \in {"dialled", "maintDrop", "maintClose", "rebind"}
            => task[t].conn \in Conns
    BY <1>0, OwnerTypes DEF TaskTypes, Busy
<1> SUFFICES (TaskTypes /\ ContextTypes /\ ConnTypes /\ DatabaseTypes /\ budget \in Nat)'
    BY TypesParts, PTL
<1>1. CASE Query(t) \/ QueryDone(t) \/ MaintBegin(t)
    BY <1>0, <1>1, Moves, Ends DEF Query, QueryDone, MaintBegin, At, Steps, Dialling,
       ContextTypes, ConnTypes, DatabaseTypes
<1>2. CASE DropExec(t)
    BY <1>0, <1>2, Moves, Ends DEF DropExec, At, Steps, Dialling, ContextTypes, ConnTypes, DatabaseTypes
<1>3. CASE DropClosePool(t)
    <2>1. Idle \in Tasks /\ Idle.pc = "idle" /\ db \in Databases
        BY <1>3, <1>a DEF DropClosePool, At, Idle, Tasks, Steps
    <2> QED BY <1>0, <1>3, <2>1, ClosePoolTypes DEF DropClosePool, DatabaseTypes
<1>4. CASE MaintDial(t)
    <2>1. CASE Done(t) /\ UNCHANGED conns
        BY <1>0, <1>4, <2>1, Ends DEF MaintDial, ContextTypes, ConnTypes, DatabaseTypes
    <2>2. CASE \E d \in (Maintenance \ {db}) \cap dbs : \E c \in Unnamed :
                  /\ Opened(c, d, s)
                  /\ task' = [task EXCEPT ![t].pc = "maintDrop", ![t].conn = c]
        <3>1. PICK d \in Databases, c \in Conns :
                  /\ Opened(c, d, s)
                  /\ task' = [task EXCEPT ![t].pc = "maintDrop", ![t].conn = c]
            BY <1>0, <2>2 DEF Unnamed, DatabaseTypes
        <3> DEFINE v == [task[t] EXCEPT !.pc = "maintDrop", !.conn = c]
        <3>2. task' = [task EXCEPT ![t] = v]
            BY <1>0, <3>1 DEF TaskTypes
        <3>3. v \in Tasks /\ v.db \in Databases /\ v.conn \in Conns
            BY <1>4, <1>a DEF MaintDial, At, Tasks, Steps
        <3>4. TaskTypes'
            BY <1>0, <3>2, <3>3, TaskSet
        <3>5. ConnTypes'
            BY <1>0, <1>a, <3>1, Openings
        <3> QED BY <1>0, <1>4, <3>4, <3>5 DEF MaintDial, ContextTypes, DatabaseTypes
    <2> QED BY <1>4, <2>1, <2>2 DEF MaintDial
<1>5. CASE MaintDrop(t)
    <2>1. TaskTypes'
        <3>1. CASE Goto(t, "maintFail")
            BY <1>0, <1>5, <3>1, Moves DEF MaintDrop, At, Steps, Dialling
        <3>2. CASE Goto(t, "maintClose")
            BY <1>0, <1>5, <1>a, <3>2 DEF MaintDrop, At, Goto, TaskTypes, Busy, Tasks, Steps, Dialling
        <3> QED BY <1>5, <3>1, <3>2 DEF MaintDrop
    <2> QED BY <1>0, <1>5, <2>1 DEF MaintDrop, ContextTypes, ConnTypes, DatabaseTypes
<1>6. CASE MaintFail(t) \/ CloseOld(t)
    BY <1>0, <1>6, Ends, Closings DEF MaintFail, CloseOld, ContextTypes, ConnTypes, DatabaseTypes
<1>7. CASE MaintClosePool(t)
    <2> DEFINE v == [task[t] EXCEPT !.pc = "rebind"]
    <2>1. v \in Tasks /\ v.db \in Databases /\ v.conn \in Conns /\ db \in Databases
        BY <1>7, <1>a DEF MaintClosePool, At, Tasks, Steps
    <2>2. ClosePool(t, [task EXCEPT ![t] = v])
        BY <1>0, <1>7 DEF MaintClosePool, TaskTypes
    <2> HIDE DEF v
    <2> QED BY <1>0, <1>7, <2>1, <2>2, ClosePoolTypes DEF MaintClosePool, DatabaseTypes
<1>8. CASE Rebind(t)
    <2>1. task[t].conn \in Conns
        BY <1>8, <1>a DEF Rebind, At
    <2>2. TaskTypes'
        <3> DEFINE v == [task[t] EXCEPT !.pc = "closeOld",
                            !.conn = IF uc[s].closed THEN task[t].conn ELSE uc[s].server]
        <3>1. task' = [task EXCEPT ![t] = v]
            BY <1>0, <1>8 DEF Rebind, TaskTypes
        <3>2. v \in Tasks /\ v.pc = "closeOld" /\ v.db \in Databases
            BY <1>8, <1>a, <2>1 DEF Rebind, At, Tasks, Steps
        <3> HIDE DEF v
        <3> QED BY <1>0, <3>1, <3>2, TaskSet
    <2>3. ContextTypes'
        <3>1. CASE uc[s].closed
            BY <1>0, <1>8, <3>1 DEF Rebind, ContextTypes
        <3>2. CASE ~uc[s].closed
            <4> DEFINE w == [uc[s] EXCEPT !.server = task[t].conn]
            <4>1. w \in Contexts /\ w.pools = uc[s].pools /\ w.poolUse = uc[s].poolUse
                BY <1>a, <2>1 DEF Contexts
            <4>2. uc' = [uc EXCEPT ![s] = w]
                BY <1>0, <1>8, <1>a, <3>2 DEF Rebind, ContextTypes
            <4> QED BY <1>0, <1>a, <4>1, <4>2, ContextSet
        <3> QED BY <3>1, <3>2
    <2> QED BY <1>0, <1>8, <2>2, <2>3 DEF Rebind, ConnTypes, DatabaseTypes
<1> QED BY <1>1, <1>2, <1>3, <1>4, <1>5, <1>6, <1>7, <1>8

\* What is not the next step of a request.
LEMMA OtherTypesNext ==
    ASSUME Types,
           \/ \E t \in Threads : Request(t)
           \/ \E s \in Sessions : CloseSession(s)
           \/ \E db \in Databases : CreateDatabase(db)
           \/ UNCHANGED vars
    PROVE  Types'
<1>0. TaskTypes /\ ContextTypes /\ ConnTypes /\ DatabaseTypes /\ budget \in Nat
    BY TypesParts
<1> SUFFICES (TaskTypes /\ ContextTypes /\ ConnTypes /\ DatabaseTypes /\ budget \in Nat)'
    BY TypesParts, PTL
<1>1. ASSUME NEW t \in Threads, ConnGivesUp(t) PROVE (TaskTypes /\ ContextTypes /\ ConnTypes /\ DatabaseTypes /\ budget \in Nat)'
    BY <1>0, <1>1, Ends DEF ConnGivesUp, ContextTypes, ConnTypes, DatabaseTypes
<1>2. ASSUME NEW t \in Threads, NEW db \in Databases, ConnBegin(t, db)
      PROVE  (TaskTypes /\ ContextTypes /\ ConnTypes /\ DatabaseTypes /\ budget \in Nat)'
    <2> DEFINE v == [task[t] EXCEPT !.db = db,
                        !.pc = IF conns[uc[Owner[t]].server].db = db THEN "server" ELSE "pool"]
    <2>1. task' = [task EXCEPT ![t] = v]
        BY <1>0, <1>2 DEF ConnBegin, TaskTypes
    <2>2. v \in Tasks /\ v.pc \in {"server", "pool"} /\ v.db \in Databases
        BY <1>0 DEF TaskTypes, Tasks, Steps
    <2> HIDE DEF v
    <2>3. TaskTypes'
        BY <1>0, <2>1, <2>2, TaskSet
    <2> QED BY <1>0, <1>2, <2>3 DEF ConnBegin, ContextTypes, ConnTypes, DatabaseTypes
<1>3. ASSUME NEW t \in Threads, NEW db \in Droppable, DropBegin(t, db)
      PROVE  (TaskTypes /\ ContextTypes /\ ConnTypes /\ DatabaseTypes /\ budget \in Nat)'
    <2> DEFINE direct == CanDropConnected \/ conns[uc[Owner[t]].server].db # db
               v == [task[t] EXCEPT !.db = db, !.pc = IF direct THEN "drop" ELSE "maint",
                        !.conn = IF direct THEN uc[Owner[t]].server ELSE NoConn]
    <2>1. task' = [task EXCEPT ![t] = v]
        BY <1>0, <1>3 DEF DropBegin, TaskTypes
    <2>2. v \in Tasks /\ v.pc \in {"drop", "maint"} /\ v.db \in Databases
        <3>1. task[t] \in Tasks /\ db \in Databases /\ uc[Owner[t]].server \in Conns
            BY <1>0, OwnerTypes, ConstantsAssumption DEF TaskTypes
        <3> HIDE DEF direct
        <3> QED BY <3>1 DEF Tasks, Steps
    <2> HIDE DEF v
    <2>3. TaskTypes'
        BY <1>0, <2>1, <2>2, TaskSet
    <2> QED BY <1>0, <1>3, <2>3 DEF DropBegin, ContextTypes, ConnTypes, DatabaseTypes
<1>4. ASSUME NEW s \in Sessions, CloseSession(s) PROVE (TaskTypes /\ ContextTypes /\ ConnTypes /\ DatabaseTypes /\ budget \in Nat)'
    <2> DEFINE w == [uc[s] EXCEPT !.closed = TRUE, !.pools = <<>>, !.poolUse = <<>>]
    <2>1. uc' = [uc EXCEPT ![s] = w]
        BY <1>0, <1>4 DEF CloseSession, ContextTypes
    <2>2. uc[s] \in Contexts /\ IsFiniteSet(DOMAIN uc[s].pools)
        <3>1. uc[s] \in Contexts /\ uc[s].pools \in Pools /\ uc[s].server \in Conns
            BY <1>0 DEF ContextTypes, Contexts
        <3>2. DOMAIN uc[s].pools \in SUBSET Databases
            BY <3>1, PoolsClosed, ConstantsAssumption
        <3> QED BY <3>1, <3>2, FS_Subset, ConstantsAssumption
    <2>3. w \in Contexts /\ w.pools = <<>> /\ w.poolUse = <<>>
        BY <2>2, NoPools DEF Contexts
    <2>4. Ordered(w)
        BY <2>3, NoPools DEF Ordered
    <2>5. ContextTypes'
        BY <1>0, <2>1, <2>3, <2>4, ContextSet
    <2>6. Cardinality(DOMAIN uc[s].pools) \in Nat
        BY <2>2, FS_CardinalityType
    <2>7. ConnTypes' /\ budget' \in Nat
        BY <1>0, <1>4, <2>6, Closings, Budgets DEF CloseSession
    <2> QED BY <1>0, <1>4, <2>5, <2>7 DEF CloseSession, TaskTypes, Busy, DatabaseTypes
<1>5. ASSUME NEW db \in Databases, CreateDatabase(db)
      PROVE  (TaskTypes /\ ContextTypes /\ ConnTypes /\ DatabaseTypes /\ budget \in Nat)'
    BY <1>0, <1>5 DEF CreateDatabase, TaskTypes, Busy, ContextTypes, ConnTypes, DatabaseTypes
<1>6. ASSUME UNCHANGED vars PROVE (TaskTypes /\ ContextTypes /\ ConnTypes /\ DatabaseTypes /\ budget \in Nat)'
    BY <1>0, <1>6 DEF vars, TaskTypes, Busy, ContextTypes, ConnTypes, DatabaseTypes
<1> QED BY <1>1, <1>2, <1>3, <1>4, <1>5, <1>6 DEF Request

LEMMA TypesNext ==
    ASSUME Types, [Next]_vars
    PROVE  Types'
<1>1. CASE \E t \in Threads : ThreadStep(t)
    <2>1. PICK t \in Threads : ThreadStep(t)
        BY <1>1
    <2> QED BY <2>1, ConnTypesNext, DropTypesNext DEF ThreadStep
<1> QED BY <1>1, OtherTypesNext DEF Next

LEMMA TypesInit ==
    ASSUME Init
    PROVE  Types
<1>1. PICK login \in [Sessions -> Conns] :
        /\ uc = [s \in Sessions |->
                   [closed |-> FALSE, mu |-> NoThread, server |-> login[s],
                    pools |-> <<>>, poolUse |-> <<>>, opening |-> {}]]
        /\ task = [t \in Threads |-> Idle]
        /\ budget = 0
        /\ conns = [c \in Conns |->
                      [open |-> \E s \in Sessions : login[s] = c,
                       db |-> Login,
                       owner |-> IF \E s \in Sessions : login[s] = c
                                 THEN CHOOSE s \in Sessions : login[s] = c
                                 ELSE CHOOSE s \in Sessions : TRUE]]
        /\ dbs = Databases
        /\ gone = [s \in Sessions |-> {}]
    BY DEF Init
<1>2. TaskTypes
    BY <1>1 DEF TaskTypes, Busy, Idle, Tasks, Steps, Dialling
<1>3. ContextTypes
    <2>1. ASSUME NEW s \in Sessions
          PROVE  uc[s] \in Contexts /\ uc[s].pools = <<>> /\ uc[s].poolUse = <<>>
        BY <1>1, NoPools DEF Contexts
    <2> QED BY <1>1, <2>1, NoPools DEF ContextTypes, Ordered
<1>4. ConnTypes
    <2>1. ASSUME NEW c \in Conns
          PROVE  (IF \E s \in Sessions : login[s] = c
                  THEN CHOOSE s \in Sessions : login[s] = c
                  ELSE CHOOSE s \in Sessions : TRUE) \in Sessions
        <3>1. (CHOOSE s \in Sessions : TRUE) \in Sessions
            BY ConstantsAssumption
        <3>2. CASE \E s \in Sessions : login[s] = c
            BY <3>2
        <3>3. CASE ~ \E s \in Sessions : login[s] = c
            BY <3>1, <3>3
        <3> QED BY <3>2, <3>3
    <2> QED BY <1>1, <2>1, ConstantsAssumption DEF ConnTypes
<1> QED BY <1>1, <1>2, <1>3, <1>4, TypesParts DEF DatabaseTypes

\* The types, and with them that a session's pools stay ordered by their use,
\* on every path by which ConnFor, ClosePool and Close change the cache.
THEOREM TypeCorrect == Spec => []TypeOK
<1>1. Init => Types
    BY TypesInit
<1>2. Types /\ [Next]_vars => Types'
    BY TypesNext
<1>3. Types => TypeOK
    BY DEF Types
<1> QED BY <1>1, <1>2, <1>3, PTL DEF Spec

-----------------------------------------------------------------------------
(***************************************************************************)
(* Singleflight.  OneDial is inductive with two facts more: a dial under   *)
(* way is in opening, and a request that holds uc.mu over the steps of an  *)
(* eviction is still without a pool and a dial for its database.           *)
(***************************************************************************)
Flies(t) == task[t].pc \in Dialling
Evicts(t) == task[t].pc \in {"evict", "retry"}
Missing(s) == Databases \ (DOMAIN uc[s].pools \cup uc[s].opening)

Flights ==
    \A t \in Threads :
        /\ Evicts(t) => /\ uc[Owner[t]].mu = t
                        /\ task[t].db \notin DOMAIN uc[Owner[t]].pools
                        /\ task[t].db \notin uc[Owner[t]].opening
        /\ Flies(t) => /\ task[t].db \in uc[Owner[t]].opening
                       /\ task[t].db \notin DOMAIN uc[Owner[t]].pools
        /\ \A u \in Threads :
              Flies(t) /\ Flies(u) /\ Owner[u] = Owner[t] /\ task[u].db = task[t].db
              => u = t

\* Steps that begin no dial, end none, and leave uc.mu and opening alone.
LEMMA FlightsKept ==
    ASSUME Flights,
           \A t \in Threads :
               /\ Flies(t)' => Flies(t) /\ task'[t].db = task[t].db
               /\ Evicts(t)' => Evicts(t) /\ task'[t].db = task[t].db
               /\ uc'[Owner[t]].mu = uc[Owner[t]].mu
               /\ uc'[Owner[t]].opening = uc[Owner[t]].opening
               /\ DOMAIN uc'[Owner[t]].pools \subseteq DOMAIN uc[Owner[t]].pools
    PROVE  Flights'
BY DEF Flights

\* A dial of t ends; its pool is cached or not (ConnFailed, ConnDialled).
LEMMA FlightLands ==
    ASSUME Flights, NEW t \in Threads, Flies(t), uc[Owner[t]].mu = NoThread,
           ~Flies(t)', ~Evicts(t)',
           \A u \in Threads : u # t =>
               /\ Flies(u)' => Flies(u) /\ task'[u].db = task[u].db
               /\ Evicts(u)' => Evicts(u) /\ task'[u].db = task[u].db,
           \A u \in Threads : Owner[u] # Owner[t] => uc'[Owner[u]] = uc[Owner[u]],
           uc'[Owner[t]].opening = uc[Owner[t]].opening \ {task[t].db},
           DOMAIN uc'[Owner[t]].pools \subseteq DOMAIN uc[Owner[t]].pools \cup {task[t].db}
    PROVE  Flights'
<1>1. \A u \in Threads : u # NoThread
    BY ConstantsAssumption
<1>2. ASSUME NEW u \in Threads, Evicts(u)'
      PROVE  /\ uc'[Owner[u]].mu = u
             /\ task'[u].db \notin DOMAIN uc'[Owner[u]].pools
             /\ task'[u].db \notin uc'[Owner[u]].opening
    <2>1. u # t /\ Evicts(u) /\ task'[u].db = task[u].db
        BY <1>2
    <2>2. Owner[u] # Owner[t]
        BY <1>1, <2>1 DEF Flights
    <2> QED BY <2>1, <2>2 DEF Flights
<1>3. ASSUME NEW u \in Threads, Flies(u)'
      PROVE  /\ task'[u].db \in uc'[Owner[u]].opening
             /\ task'[u].db \notin DOMAIN uc'[Owner[u]].pools
    <2>1. u # t /\ Flies(u) /\ task'[u].db = task[u].db
        BY <1>3
    <2>2. CASE Owner[u] = Owner[t]
        <3>1. task[u].db # task[t].db
            BY <2>1, <2>2 DEF Flights
        <3> QED BY <2>1, <2>2, <3>1 DEF Flights
    <2>3. CASE Owner[u] # Owner[t]
        BY <2>1, <2>3 DEF Flights
    <2> QED BY <2>2, <2>3
<1>4. ASSUME NEW u \in Threads, NEW w \in Threads, Flies(u)', Flies(w)',
             Owner[w] = Owner[u], task'[w].db = task'[u].db
      PROVE  w = u
    <2>1. u # t /\ w # t /\ Flies(u) /\ Flies(w)
          /\ task'[u].db = task[u].db /\ task'[w].db = task[w].db
        BY <1>4
    <2> QED BY <1>4, <2>1 DEF Flights
<1> QED BY <1>2, <1>3, <1>4 DEF Flights

\* t begins a dial for a database its session misses (StartDial).
LEMMA FlightStarts ==
    ASSUME TypeOK, Flights, NEW t \in Threads, task[t].db \in Missing(Owner[t]),
           uc[Owner[t]].mu \in {NoThread, t}, ~Flies(t),
           StartDial(t, Owner[t])
    PROVE  Flights'
<1>0. Owner[t] \in Sessions /\ (\A u \in Threads : Owner[u] \in Sessions /\ u # NoThread)
    BY ConstantsAssumption
<1>1. /\ task'[t].pc = "dial" /\ task'[t].db = task[t].db
      /\ \A u \in Threads : u # t => task'[u] = task[u]
    BY DEF StartDial, TypeOK, Tasks
<1>2. /\ uc'[Owner[t]].opening = uc[Owner[t]].opening \cup {task[t].db}
      /\ DOMAIN uc'[Owner[t]].pools = DOMAIN uc[Owner[t]].pools
      /\ \A s \in Sessions : s # Owner[t] => uc'[s] = uc[s]
    BY <1>0 DEF StartDial, TypeOK, Contexts
<1>3. ASSUME NEW u \in Threads, Evicts(u)'
      PROVE  /\ uc'[Owner[u]].mu = u
             /\ task'[u].db \notin DOMAIN uc'[Owner[u]].pools
             /\ task'[u].db \notin uc'[Owner[u]].opening
    <2>1. u # t /\ Evicts(u)
        BY <1>1, <1>3 DEF Evicts
    <2>2. Owner[u] # Owner[t]
        BY <1>0, <2>1 DEF Flights
    <2> QED BY <1>0, <1>1, <1>2, <2>1, <2>2 DEF Flights
<1>4. ASSUME NEW u \in Threads, Flies(u)'
      PROVE  /\ task'[u].db \in uc'[Owner[u]].opening
             /\ task'[u].db \notin DOMAIN uc'[Owner[u]].pools
    <2>1. CASE u = t
        BY <1>1, <1>2, <2>1 DEF Missing
    <2>2. CASE u # t
        BY <1>0, <1>1, <1>2, <1>4, <2>2 DEF Flights, Flies
    <2> QED BY <2>1, <2>2
<1>5. ASSUME NEW u \in Threads, NEW w \in Threads, Flies(u)', Flies(w)',
             Owner[w] = Owner[u], task'[w].db = task'[u].db
      PROVE  w = u
    <2>1. ASSUME NEW x \in Threads, x # t, Flies(x)', Owner[x] = Owner[t]
          PROVE  task'[x].db # task'[t].db
        BY <1>1, <2>1 DEF Flights, Flies, Missing
    <2> QED BY <1>1, <1>5, <2>1 DEF Flights, Flies
<1> QED BY <1>3, <1>4, <1>5 DEF Flights

\* Taking a pool out of the cache changes nothing else of a session.
LEMMA DropOnly ==
    ASSUME TypeOK, NEW t \in Threads, NEW db \in Databases,
           uc' = [uc EXCEPT ![Owner[t]] = Drop(uc[Owner[t]], db)]
    PROVE  \A s \in Sessions :
               /\ uc'[s].mu = uc[s].mu /\ uc'[s].opening = uc[s].opening
               /\ DOMAIN uc'[s].pools \subseteq DOMAIN uc[s].pools
<1>1. Owner[t] \in Sessions
    BY ConstantsAssumption
<1>2. uc[Owner[t]] \in Contexts /\ Ordered(uc[Owner[t]])
    BY <1>1 DEF TypeOK
<1>3. /\ Drop(uc[Owner[t]], db).mu = uc[Owner[t]].mu
      /\ Drop(uc[Owner[t]], db).opening = uc[Owner[t]].opening
      /\ Drop(uc[Owner[t]], db).pools = Without(uc[Owner[t]].pools, db)
    BY <1>2, DropOrdered
<1>4. DOMAIN Without(uc[Owner[t]].pools, db) \subseteq DOMAIN uc[Owner[t]].pools
    BY DEF Without
<1>5. ASSUME NEW s \in Sessions
      PROVE  /\ uc'[s].mu = uc[s].mu /\ uc'[s].opening = uc[s].opening
             /\ DOMAIN uc'[s].pools \subseteq DOMAIN uc[s].pools
    <2>1. CASE s = Owner[t]
        BY <1>1, <1>3, <1>4, <2>1 DEF TypeOK
    <2>2. CASE s # Owner[t]
        BY <2>2 DEF TypeOK
    <2> QED BY <2>1, <2>2
<1> QED BY <1>5

\* The steps of ConnFor.
LEMMA ConnFlightsNext ==
    ASSUME Types, Flights, NEW t \in Threads,
           \/ ConnServer(t) \/ ConnClosed(t) \/ ConnCached(t) \/ ConnWait(t)
           \/ ConnAcquire(t) \/ ConnSpent(t) \/ ConnEvict(t) \/ ConnRefused(t)
           \/ ConnRetry(t) \/ Dial(t) \/ ConnFailed(t) \/ ConnDialled(t)
           \/ ConnDiscard(t)
    PROVE  Flights'
<1>0. /\ TypeOK /\ TaskTypes /\ ContextTypes
      /\ Owner[t] \in Sessions /\ uc[Owner[t]] \in Contexts /\ task[t] \in Tasks
      /\ \A u \in Threads : Owner[u] \in Sessions /\ u # NoThread
      /\ task[t].pc # "idle" => task[t].db \in Databases
    BY TypesParts, OwnerTypes, ConstantsAssumption DEF Types, TaskTypes, Busy
<1>1. CASE ConnServer(t) \/ ConnClosed(t) \/ ConnWait(t)
    BY <1>0, <1>1, FlightsKept DEF ConnServer, ConnClosed, ConnWait, At, Goto, Done, Idle,
       Flies, Evicts, TaskTypes, Tasks, Dialling
<1>2. CASE ConnCached(t)
    <2>1. \A s \in Sessions : /\ uc'[s].mu = uc[s].mu /\ uc'[s].opening = uc[s].opening
                              /\ uc'[s].pools = uc[s].pools
        BY <1>0, <1>2 DEF ConnCached, ContextTypes, Contexts
    <2>2. \A u \in Threads : /\ Flies(u)' => Flies(u) /\ task'[u].db = task[u].db
                             /\ Evicts(u)' => Evicts(u) /\ task'[u].db = task[u].db
        BY <1>0, <1>2 DEF ConnCached, Flies, Evicts, TaskTypes, Tasks, Dialling
    <2>3. \A u \in Threads :
              /\ Flies(u)' => Flies(u) /\ task'[u].db = task[u].db
              /\ Evicts(u)' => Evicts(u) /\ task'[u].db = task[u].db
              /\ uc'[Owner[u]].mu = uc[Owner[u]].mu
              /\ uc'[Owner[u]].opening = uc[Owner[u]].opening
              /\ DOMAIN uc'[Owner[u]].pools \subseteq DOMAIN uc[Owner[u]].pools
        BY <1>0, <2>1, <2>2
    <2> QED BY <2>3, FlightsKept
<1>3. CASE ConnAcquire(t)
    BY <1>0, <1>3, FlightStarts DEF ConnAcquire, Misses, Missing, Unlocked, At, Flies, Dialling
<1>4. CASE ConnSpent(t)
    <2>1. /\ task'[t].db = task[t].db
          /\ task'[t].pc = "evict"
          /\ \A u \in Threads : u # t => task'[u] = task[u]
        BY <1>0, <1>4 DEF ConnSpent, Goto, TaskTypes, Tasks
    <2>2. /\ uc[Owner[t]].mu = NoThread /\ uc'[Owner[t]].mu = t
          /\ uc'[Owner[t]].opening = uc[Owner[t]].opening
          /\ uc'[Owner[t]].pools = uc[Owner[t]].pools
          /\ \A s \in Sessions : s # Owner[t] => uc'[s] = uc[s]
          /\ task[t].db \notin DOMAIN uc[Owner[t]].pools \cup uc[Owner[t]].opening
        BY <1>0, <1>4 DEF ConnSpent, Misses, Unlocked, ContextTypes, Contexts
    <2> QED BY <1>0, <2>1, <2>2 DEF Flights, Flies, Evicts, Dialling
<1>5. CASE ConnEvict(t)
    <2>1. PICK victim \in Databases : uc' = [uc EXCEPT ![Owner[t]] = Drop(uc[Owner[t]], victim)]
        BY <1>0, <1>5, OwnerTypes DEF ConnEvict, Evictable, ContextTypes
    <2>2. \A s \in Sessions : /\ uc'[s].mu = uc[s].mu /\ uc'[s].opening = uc[s].opening
                              /\ DOMAIN uc'[s].pools \subseteq DOMAIN uc[s].pools
        BY <1>0, <2>1, DropOnly
    <2>3. \A u \in Threads : /\ Flies(u)' => Flies(u) /\ task'[u].db = task[u].db
                             /\ Evicts(u)' => Evicts(u) /\ task'[u].db = task[u].db
        BY <1>0, <1>5 DEF ConnEvict, At, Goto, Flies, Evicts, TaskTypes, Tasks, Dialling
    <2>4. \A u \in Threads :
              /\ Flies(u)' => Flies(u) /\ task'[u].db = task[u].db
              /\ Evicts(u)' => Evicts(u) /\ task'[u].db = task[u].db
              /\ uc'[Owner[u]].mu = uc[Owner[u]].mu
              /\ uc'[Owner[u]].opening = uc[Owner[u]].opening
              /\ DOMAIN uc'[Owner[u]].pools \subseteq DOMAIN uc[Owner[u]].pools
        BY <1>0, <2>3, <2>2
    <2> QED BY <2>4, FlightsKept
<1>6. CASE ConnRefused(t)
    <2>1. Evicts(t) /\ uc[Owner[t]].mu = t
        BY <1>6 DEF ConnRefused, At, Evicts, Flights
    <2>2. /\ task'[t].pc = "idle"
          /\ \A u \in Threads : u # t => task'[u] = task[u]
        BY <1>0, <1>6 DEF ConnRefused, Done, Idle, TaskTypes
    <2>3. /\ uc'[Owner[t]].opening = uc[Owner[t]].opening
          /\ uc'[Owner[t]].pools = uc[Owner[t]].pools
          /\ \A s \in Sessions : s # Owner[t] => uc'[s] = uc[s]
        BY <1>0, <1>6 DEF ConnRefused, ContextTypes, Contexts
    <2> QED BY <1>0, <2>1, <2>2, <2>3 DEF Flights, Flies, Evicts, Dialling
<1>7. CASE ConnRetry(t)
    <2>1. Evicts(t) /\ ~Flies(t) /\ task[t].db \in Databases
        BY <1>0, <1>7 DEF ConnRetry, At, Evicts, Flies, Dialling
    <2>2. task[t].db \in Missing(Owner[t]) /\ uc[Owner[t]].mu = t
        BY <2>1 DEF Flights, Missing
    <2> QED BY <1>0, <1>7, <2>1, <2>2, FlightStarts DEF ConnRetry
<1>8. CASE Dial(t)
    <2>1. \A u \in Threads : /\ Flies(u)' => Flies(u) /\ task'[u].db = task[u].db
                             /\ Evicts(u)' => Evicts(u) /\ task'[u].db = task[u].db
        BY <1>0, <1>8 DEF Dial, At, Goto, Flies, Evicts, TaskTypes, Tasks, Dialling
    <2>3. \A u \in Threads :
              /\ Flies(u)' => Flies(u) /\ task'[u].db = task[u].db
              /\ Evicts(u)' => Evicts(u) /\ task'[u].db = task[u].db
              /\ uc'[Owner[u]].mu = uc[Owner[u]].mu
              /\ uc'[Owner[u]].opening = uc[Owner[u]].opening
              /\ DOMAIN uc'[Owner[u]].pools \subseteq DOMAIN uc[Owner[u]].pools
        BY <1>8, <2>1 DEF Dial
    <2> QED BY <2>3, FlightsKept
<1>9. CASE ConnFailed(t) \/ ConnDialled(t)
    <2>1. Flies(t) /\ uc[Owner[t]].mu = NoThread
        BY <1>9 DEF ConnFailed, ConnDialled, At, Unlocked, Flies, Dialling
    <2>2. /\ uc'[Owner[t]].opening = uc[Owner[t]].opening \ {task[t].db}
          /\ DOMAIN uc'[Owner[t]].pools \subseteq DOMAIN uc[Owner[t]].pools \cup {task[t].db}
          /\ \A s \in Sessions : s # Owner[t] => uc'[s] = uc[s]
        <3>1. CASE uc'[Owner[t]] = [uc[Owner[t]] EXCEPT !.opening = @ \ {task[t].db}]
                   /\ \A s \in Sessions : s # Owner[t] => uc'[s] = uc[s]
            BY <1>0, <3>1 DEF Contexts
        <3>2. CASE ConnFailed(t) \/ uc[Owner[t]].closed \/ task[t].stale
            BY <1>0, <1>9, <3>1, <3>2 DEF ConnFailed, ConnDialled, ContextTypes
        <3>3. CASE ConnDialled(t) /\ ~(uc[Owner[t]].closed \/ task[t].stale)
            <4> DEFINE q == [d \in DOMAIN uc[Owner[t]].pools \cup {task[t].db} |->
                               IF d = task[t].db THEN task[t].conn ELSE uc[Owner[t]].pools[d]]
                       use == Used(uc[Owner[t]].poolUse, task[t].db)
            <4>1. uc' = [uc EXCEPT ![Owner[t]] =
                          [uc[Owner[t]] EXCEPT !.opening = uc[Owner[t]].opening \ {task[t].db},
                                               !.pools = q, !.poolUse = use]]
                BY <1>0, <3>3 DEF ConnDialled, ContextTypes, Contexts
            <4>2. DOMAIN q = DOMAIN uc[Owner[t]].pools \cup {task[t].db}
                OBVIOUS
            <4> HIDE DEF q, use
            <4> QED BY <1>0, <4>1, <4>2 DEF ContextTypes, Contexts
        <3> QED BY <1>9, <3>2, <3>3
    <2>3. \E v \in Tasks : /\ v.pc \in {"idle", "discard", "got"}
                           /\ task' = Wakes([task EXCEPT ![t] = v], Owner[t], task[t].db)
        <3>1. CASE ConnFailed(t)
            <4>1. Idle \in Tasks /\ Idle.pc = "idle"
                BY DEF Idle, Tasks, Steps
            <4>2. task' = Wakes([task EXCEPT ![t] = Idle], Owner[t], task[t].db)
                BY <3>1 DEF ConnFailed
            <4> QED BY <4>1, <4>2
        <3>2. CASE ConnDialled(t) /\ (uc[Owner[t]].closed \/ task[t].stale)
            <4> DEFINE v == [task[t] EXCEPT !.pc = "discard",
                                !.after = IF uc[Owner[t]].closed THEN "idle" ELSE "pool"]
            <4>1. v \in Tasks /\ v.pc = "discard"
                BY <1>0 DEF Tasks, Steps
            <4>2. task' = Wakes([task EXCEPT ![t] = v], Owner[t], task[t].db)
                BY <1>0, <3>2 DEF ConnDialled, TaskTypes, Tasks
            <4> HIDE DEF v
            <4> QED BY <4>1, <4>2
        <3>3. CASE ConnDialled(t) /\ ~(uc[Owner[t]].closed \/ task[t].stale)
            <4> DEFINE v == [task[t] EXCEPT !.pc = "got"]
            <4>1. v \in Tasks /\ v.pc = "got"
                BY <1>0 DEF Tasks, Steps
            <4>2. task' = Wakes([task EXCEPT ![t] = v], Owner[t], task[t].db)
                BY <1>0, <3>3 DEF ConnDialled, TaskTypes, Tasks
            <4> HIDE DEF v
            <4> QED BY <4>1, <4>2
        <3> QED BY <1>9, <3>1, <3>2, <3>3
    <2>4. /\ task'[t].pc \in {"idle", "discard", "got"}
          /\ \A u \in Threads : u # t =>
                task'[u] = task[u] \/ task'[u].pc = "pool"
        BY <1>0, <2>3 DEF Wakes, TaskTypes, Tasks
    <2> QED BY <1>0, <2>1, <2>2, <2>4, FlightLands DEF Flies, Evicts, Dialling
<1>10. CASE ConnDiscard(t)
    <2>1. \A u \in Threads : /\ Flies(u)' => Flies(u) /\ task'[u].db = task[u].db
                             /\ Evicts(u)' => Evicts(u) /\ task'[u].db = task[u].db
        BY <1>0, <1>10 DEF ConnDiscard, Idle, Flies, Evicts, TaskTypes, Tasks, Dialling
    <2>3. \A u \in Threads :
              /\ Flies(u)' => Flies(u) /\ task'[u].db = task[u].db
              /\ Evicts(u)' => Evicts(u) /\ task'[u].db = task[u].db
              /\ uc'[Owner[u]].mu = uc[Owner[u]].mu
              /\ uc'[Owner[u]].opening = uc[Owner[u]].opening
              /\ DOMAIN uc'[Owner[u]].pools \subseteq DOMAIN uc[Owner[u]].pools
        BY <1>10, <2>1 DEF ConnDiscard
    <2> QED BY <2>3, FlightsKept
<1> QED BY <1>1, <1>2, <1>3, <1>4, <1>5, <1>6, <1>7, <1>8, <1>9, <1>10

\* All the other steps: none touches opening, or takes a request to a dial.
LEMMA OtherFlightsNext ==
    ASSUME Types, Flights,
           \/ \E t \in Threads :
                 \/ Query(t) \/ QueryDone(t) \/ DropExec(t) \/ DropClosePool(t)
                 \/ MaintBegin(t) \/ MaintDial(t) \/ MaintDrop(t) \/ MaintFail(t)
                 \/ MaintClosePool(t) \/ Rebind(t) \/ CloseOld(t) \/ Request(t)
           \/ \E s \in Sessions : CloseSession(s)
           \/ \E db \in Databases : CreateDatabase(db)
           \/ UNCHANGED vars
    PROVE  Flights'
<1> DEFINE Calm ==
        \A u \in Threads :
            /\ Flies(u)' => Flies(u) /\ task'[u].db = task[u].db
            /\ Evicts(u)' => Evicts(u) /\ task'[u].db = task[u].db
           Still ==
        \A s \in Sessions :
            /\ uc'[s].mu = uc[s].mu /\ uc'[s].opening = uc[s].opening
            /\ DOMAIN uc'[s].pools \subseteq DOMAIN uc[s].pools
<1>0. /\ TypeOK /\ TaskTypes /\ ContextTypes
      /\ \A u \in Threads : Owner[u] \in Sessions
      /\ \A u \in Threads : task[u] \in Tasks
      /\ \A u \in Threads : task[u].pc # "idle" => task[u].db \in Databases
    BY TypesParts, ConstantsAssumption DEF Types, TaskTypes, Busy
<1> SUFFICES Calm /\ Still
    BY <1>0, FlightsKept
<1>1. ASSUME NEW t \in Threads,
             \/ Query(t) \/ QueryDone(t) \/ DropExec(t)
             \/ MaintBegin(t) \/ MaintDial(t) \/ MaintDrop(t) \/ MaintFail(t)
             \/ CloseOld(t)
      PROVE  Calm /\ Still
    <2>1. Still
        BY <1>1 DEF Query, QueryDone, DropExec, MaintBegin, MaintDial, MaintDrop,
                    MaintFail, CloseOld
    <2>2. Calm
        <3>1. \A u \in Threads : u # t => task'[u] = task[u]
            BY <1>0, <1>1 DEF Query, QueryDone, DropExec, MaintBegin, MaintDial, MaintDrop,
                             MaintFail, CloseOld, Goto, Done, TaskTypes
        <3>2. task'[t].pc \in {"idle", "busy", "close", "maintDial", "maintDrop",
                              "maintFail", "maintClose"}
            <4>1. CASE Done(t)
                BY <1>0, <4>1 DEF Done, Idle, TaskTypes
            <4>2. CASE \E step \in {"busy", "close", "maintDial", "maintFail", "maintClose"} :
                            Goto(t, step)
                BY <1>0, <4>2 DEF Goto, TaskTypes, Tasks
            <4>3. CASE \E c : task' = [task EXCEPT ![t].pc = "maintDrop", ![t].conn = c]
                BY <1>0, <4>3 DEF TaskTypes, Tasks
            <4> QED BY <1>1, <4>1, <4>2, <4>3 DEF Query, QueryDone, DropExec, MaintBegin,
                        MaintDial, MaintDrop, MaintFail, CloseOld
        <3> QED BY <3>1, <3>2 DEF Flies, Evicts, Dialling
    <2> QED BY <2>1, <2>2
<1>2. ASSUME NEW t \in Threads, DropClosePool(t) \/ MaintClosePool(t)
      PROVE  Calm /\ Still
    <2>1. PICK v : /\ ClosePool(t, [task EXCEPT ![t] = v])
                   /\ v.pc \in {"idle", "rebind"}
        <3>1. CASE DropClosePool(t)
            <4>1. ClosePool(t, [task EXCEPT ![t] = Idle]) /\ Idle.pc = "idle"
                BY <3>1 DEF DropClosePool, Idle
            <4> QED BY <4>1
        <3>2. CASE MaintClosePool(t)
            <4>1. /\ ClosePool(t, [task EXCEPT ![t] = [task[t] EXCEPT !.pc = "rebind"]])
                  /\ [task[t] EXCEPT !.pc = "rebind"].pc = "rebind"
                BY <1>0, <3>2 DEF MaintClosePool, TaskTypes, Tasks
            <4> QED BY <4>1
        <3> QED BY <1>2, <3>1, <3>2
    <2>2. task[t].db \in Databases
        BY <1>0, <1>2 DEF DropClosePool, MaintClosePool, At
    <2>3. Still
        <3>1. CASE task[t].db \in DOMAIN uc[Owner[t]].pools
            <4>1. uc' = [uc EXCEPT ![Owner[t]] = Drop(uc[Owner[t]], task[t].db)]
                BY <1>0, <2>1, <3>1 DEF ClosePool, ContextTypes
            <4> QED BY <1>0, <2>2, <4>1, DropOnly
        <3>2. CASE task[t].db \notin DOMAIN uc[Owner[t]].pools
            BY <2>1, <3>2 DEF ClosePool
        <3> QED BY <3>1, <3>2
    <2>4. ASSUME NEW u \in Threads
          PROVE  \/ u = t /\ task'[u].pc \in {"idle", "rebind"}
                 \/ task'[u].pc = task[u].pc /\ task'[u].db = task[u].db
        <3>1. CASE u = t
            <4>1. task'[u] = v
                BY <1>0, <2>1, <3>1 DEF ClosePool, TaskTypes, Dialling
            <4> QED BY <2>1, <3>1, <4>1
        <3>2. CASE u # t
            <4>1. task'[u] = task[u] \/ task'[u] = [task[u] EXCEPT !.stale = TRUE]
                BY <1>0, <2>1, <3>2 DEF ClosePool, TaskTypes
            <4> QED BY <1>0, <4>1 DEF Tasks
        <3> QED BY <3>1, <3>2
    <2>5. Calm
        BY <2>4 DEF Flies, Evicts, Dialling
    <2> QED BY <2>3, <2>5
<1>3. ASSUME NEW t \in Threads, Rebind(t) PROVE Calm /\ Still
    <2>1. Still
        <3>1. CASE uc[Owner[t]].closed
            BY <1>3, <3>1 DEF Rebind
        <3>2. CASE ~uc[Owner[t]].closed
            <4>1. uc' = [uc EXCEPT ![Owner[t]] = [uc[Owner[t]] EXCEPT !.server = task[t].conn]]
                BY <1>0, <1>3, <3>2 DEF Rebind, ContextTypes
            <4>2. uc[Owner[t]] \in Contexts
                BY <1>0 DEF ContextTypes
            <4> QED BY <1>0, <4>1, <4>2 DEF ContextTypes, Contexts
        <3> QED BY <3>1, <3>2
    <2>2. Calm
        BY <1>0, <1>3 DEF Rebind, Flies, Evicts, TaskTypes, Tasks, Dialling
    <2> QED BY <2>1, <2>2
<1>4. ASSUME NEW t \in Threads, Request(t) PROVE Calm /\ Still
    <2>1. Still
        BY <1>4 DEF Request, ConnGivesUp, ConnBegin, DropBegin
    <2>2. Calm
        <3>1. \A u \in Threads : u # t => task'[u] = task[u]
            BY <1>0, <1>4 DEF Request, ConnGivesUp, ConnBegin, DropBegin, Done, TaskTypes
        <3>2. task'[t].pc \in {"idle", "server", "pool", "drop", "maint"}
            <4>1. CASE ConnGivesUp(t)
                BY <1>0, <4>1 DEF ConnGivesUp, Done, Idle, TaskTypes
            <4>2. CASE \E db \in Databases : ConnBegin(t, db)
                BY <1>0, <4>2 DEF ConnBegin, TaskTypes, Tasks
            <4>3. CASE \E db \in Droppable : DropBegin(t, db)
                BY <1>0, <4>3 DEF DropBegin, TaskTypes, Tasks
            <4> QED BY <1>4, <4>1, <4>2, <4>3 DEF Request
        <3> QED BY <3>1, <3>2 DEF Flies, Evicts, Dialling
    <2> QED BY <2>1, <2>2
<1>5. ASSUME NEW s \in Sessions, CloseSession(s) PROVE Calm /\ Still
    <2>1. Still
        <3> DEFINE w == [uc[s] EXCEPT !.closed = TRUE, !.pools = <<>>, !.poolUse = <<>>]
        <3>1. uc' = [uc EXCEPT ![s] = w]
            BY <1>0, <1>5 DEF CloseSession, ContextTypes
        <3>2. w.pools = <<>> /\ w.mu = uc[s].mu /\ w.opening = uc[s].opening
            BY <1>0 DEF ContextTypes, Contexts
        <3> HIDE DEF w
        <3> QED BY <1>0, <3>1, <3>2, NoPools DEF ContextTypes
    <2>2. Calm
        BY <1>5 DEF CloseSession, Flies, Evicts
    <2> QED BY <2>1, <2>2
<1>6. ASSUME \/ \E db \in Databases : CreateDatabase(db)
             \/ UNCHANGED vars
      PROVE  Calm /\ Still
    BY <1>6 DEF CreateDatabase, vars, Flies, Evicts
<1> QED BY <1>1, <1>2, <1>3, <1>4, <1>5, <1>6

LEMMA FlightsNext ==
    ASSUME Types, Flights, [Next]_vars
    PROVE  Flights'
<1>1. CASE \E t \in Threads : ThreadStep(t)
    <2>1. PICK t \in Threads : ThreadStep(t)
        BY <1>1
    <2> QED BY <2>1, ConnFlightsNext, OtherFlightsNext DEF ThreadStep
<1> QED BY <1>1, OtherFlightsNext DEF Next

\* Singleflight in ConnFor: whatever fails, gives up, is dropped or closed, a
\* session never dials a database twice at once, nor one it has a pool for.
THEOREM DialsOnce == Spec => []OneDial
<1>1. Init => Types /\ Flights
    <2>1. Init => \A t \in Threads : task[t].pc = "idle"
        BY DEF Init, Idle
    <2> QED BY <2>1, TypesInit DEF Flights, Flies, Evicts, Dialling
<1>2. Types /\ Flights /\ [Next]_vars => (Types /\ Flights)'
    BY TypesNext, FlightsNext
<1>3. Flights => OneDial
    BY DEF Flights, OneDial, Flies
<1> QED BY <1>1, <1>2, <1>3, PTL DEF Spec

-----------------------------------------------------------------------------
(***************************************************************************)
(* ConnectionsOwned.  That nothing leaks is inductive with the types and   *)
(* the singleflight: a fresh pool then overwrites no other.  That a        *)
(* dropped database stays out of the cache needs two facts on dials.       *)
(***************************************************************************)
Keeping == {"dialled", "discard", "maintDrop", "maintFail", "maintClose",
            "rebind", "closeOld"}

\* A live session refers to c; a request has c to hand over or to close.
Has(s, c) ==
    /\ ~uc[s].closed
    /\ c = uc[s].server \/ \E d \in DOMAIN uc[s].pools : uc[s].pools[d] = c
Carries(t, c) == task[t].conn = c /\ task[t].pc \in Keeping

\* What a step that opens no connection leaves as it was, of the connections
\* that stay open: who of the sessions, and who of the requests, has them.
SessionsKeep ==
    \A s \in Sessions, c \in Conns : Has(s, c) /\ conns'[c].open => Has(s, c)'
RequestsKeep ==
    \A t \in Threads, c \in Conns :
        Carries(t, c) /\ conns'[c].open => Carries(t, c)'
NoneOpens == \A c \in Conns : conns'[c].open => conns[c].open

\* Owned, in the terms of the proofs.
LEMMA OwnedParts ==
    ASSUME NEW c
    PROVE  Owned(c) <=> \/ \E s \in Sessions : Has(s, c)
                        \/ \E t \in Threads : Carries(t, c)
BY DEF Owned, Has, Carries, Keeping, Cached

\* The same of the next state.
LEMMA OwnedPartsNext ==
    ASSUME NEW c
    PROVE  Owned(c)' <=> \/ \E s \in Sessions : Has(s, c)'
                         \/ \E t \in Threads : Carries(t, c)'
BY DEF Owned, Has, Carries, Keeping, Cached

\* A step that opens nothing, and forgets only what it closes, leaks nothing.
LEMMA LeaksNone ==
    ASSUME NothingLeaks, NoneOpens, SessionsKeep, RequestsKeep
    PROVE  NothingLeaks'
BY OwnedParts, OwnedPartsNext DEF NothingLeaks, NoneOpens, SessionsKeep, RequestsKeep

\* Nothing but the order of use, opening or uc.mu of a session changes.
LEMMA CachesSame ==
    ASSUME \A s \in Sessions : /\ uc'[s].closed = uc[s].closed
                               /\ uc'[s].server = uc[s].server
                               /\ uc'[s].pools = uc[s].pools
    PROVE  SessionsKeep
BY DEF SessionsKeep, Has

\* A request that has no connection in its keeping, and those it wakes or whose
\* dial it makes stale, keep what the others have.
LEMMA HandsEmpty ==
    ASSUME NEW t \in Threads, task[t].pc \notin Keeping,
           \A u \in Threads : u # t =>
               \/ task[u].pc \notin Keeping
               \/ task'[u].pc = task[u].pc /\ task'[u].conn = task[u].conn
    PROVE  RequestsKeep
BY DEF RequestsKeep, Carries

\* A pool that is dropped from the cache was closed (evictIdlePoolLocked,
\* ClosePool).
LEMMA DropsClosed ==
    ASSUME TypeOK, NEW t \in Threads, NEW db \in DOMAIN uc[Owner[t]].pools,
           db \in Databases,
           uc' = [uc EXCEPT ![Owner[t]] = Drop(uc[Owner[t]], db)],
           Closed({uc[Owner[t]].pools[db]})
    PROVE  SessionsKeep /\ NoneOpens
<1>1. Owner[t] \in Sessions
    BY ConstantsAssumption
<1>2. uc[Owner[t]] \in Contexts
    BY <1>1 DEF TypeOK
<1>3. /\ Drop(uc[Owner[t]], db).closed = uc[Owner[t]].closed
      /\ Drop(uc[Owner[t]], db).server = uc[Owner[t]].server
      /\ Drop(uc[Owner[t]], db).pools = Without(uc[Owner[t]].pools, db)
    BY <1>2 DEF Drop, Contexts
<1>4. /\ DOMAIN Without(uc[Owner[t]].pools, db) = DOMAIN uc[Owner[t]].pools \ {db}
      /\ \A d \in DOMAIN uc[Owner[t]].pools \ {db} :
            Without(uc[Owner[t]].pools, db)[d] = uc[Owner[t]].pools[d]
    BY DEF Without
<1>5. ASSUME NEW s \in Sessions, NEW c \in Conns, Has(s, c), conns'[c].open
      PROVE  Has(s, c)'
    <2>1. CASE s = Owner[t]
        <3>1. uc'[s] = Drop(uc[s], db)
            BY <1>1, <2>1 DEF TypeOK
        <3>2. c # uc[s].pools[db]
            BY <1>5, <2>1 DEF Closed, TypeOK
        <3>3. CASE c = uc[s].server
            BY <1>3, <1>5, <2>1, <3>1, <3>3 DEF Has
        <3>4. CASE \E d \in DOMAIN uc[s].pools : uc[s].pools[d] = c
            <4>1. PICK d \in DOMAIN uc[s].pools \ {db} : uc[s].pools[d] = c
                BY <3>2, <3>4
            <4> QED BY <1>3, <1>4, <1>5, <2>1, <3>1, <4>1 DEF Has
        <3> QED BY <1>5, <3>3, <3>4 DEF Has
    <2>2. CASE s # Owner[t]
        BY <1>5, <2>2 DEF Has, TypeOK
    <2> QED BY <2>1, <2>2
<1>6. NoneOpens
    BY DEF NoneOpens, Closed, TypeOK
<1> QED BY <1>5, <1>6 DEF SessionsKeep

\* A connection that is closed is none that opens; one whose name a dial takes
\* is with the request that dialled it.
LEMMA ClosesOnly ==
    ASSUME TypeOK, NEW C, Closed(C)
    PROVE  NoneOpens
BY DEF NoneOpens, Closed, TypeOK

LEMMA DialCarried ==
    ASSUME Types, NothingLeaks, NEW t \in Threads, task[t].pc \notin Keeping,
           NEW c \in Conns, NEW db \in Databases, NEW step \in Keeping,
           Opened(c, db, Owner[t]),
           task' = [task EXCEPT ![t].pc = step, ![t].conn = c],
           UNCHANGED uc
    PROVE  NothingLeaks'
<1>0. TaskTypes /\ ConnTypes
    BY TypesParts
<1>1. Carries(t, c)'
    BY <1>0 DEF Carries, TaskTypes, Tasks
<1>2. \A u \in Threads : u # t => task'[u] = task[u]
    BY <1>0 DEF TaskTypes
<1>3. ASSUME NEW b \in Conns, conns'[b].open PROVE Owned(b)'
    <2>1. CASE b = c
        BY <1>1, <2>1, OwnedPartsNext
    <2>2. CASE b # c
        <3>1. conns[b].open
            BY <1>0, <1>3, <2>2 DEF Opened, ConnTypes
        <3>2. CASE \E s \in Sessions : Has(s, b)
            BY <3>2, OwnedPartsNext DEF Has
        <3>3. CASE \E u \in Threads : Carries(u, b)
            <4>1. PICK u \in Threads : Carries(u, b)
                BY <3>3
            <4>2. u # t
                BY <4>1 DEF Carries
            <4>3. Carries(u, b)'
                BY <1>2, <4>1, <4>2 DEF Carries
            <4> QED BY <4>3, OwnedPartsNext
        <3> QED BY <3>1, <3>2, <3>3, OwnedParts DEF NothingLeaks
    <2> QED BY <2>1, <2>2
<1> QED BY <1>3 DEF NothingLeaks

\* ConnDialled: the fresh pool goes into the cache, or stays with the request
\* that is to discard it.
LEMMA DialledOwned ==
    ASSUME Types, Flights, NothingLeaks, NEW t \in Threads, ConnDialled(t)
    PROVE  NothingLeaks'
<1> DEFINE s == Owner[t]
           db == task[t].db
<1>0. /\ TypeOK /\ TaskTypes /\ ContextTypes /\ ConnTypes
      /\ s \in Sessions /\ uc[s] \in Contexts /\ task[t] \in Tasks
    BY TypesParts, OwnerTypes DEF Types, TaskTypes
<1>1. NoneOpens
    BY <1>0 DEF ConnDialled, NoneOpens
<1>2. CASE uc[s].closed \/ task[t].stale
    <2> DEFINE v == [task[t] EXCEPT !.pc = "discard",
                        !.after = IF uc[s].closed THEN "idle" ELSE "pool"]
    <2>1. task' = Wakes([task EXCEPT ![t] = v], s, db)
        BY <1>0, <1>2 DEF ConnDialled, TaskTypes
    <2>2. v.pc = "discard" /\ v.conn = task[t].conn
        BY <1>0 DEF Tasks
    <2> HIDE DEF v
    <2>3. task'[t].pc = "discard" /\ task'[t].conn = task[t].conn
        BY <1>0, <2>1, <2>2 DEF Wakes, TaskTypes
    <2>4. \A u \in Threads : u # t => task[u].pc = "wait" \/ task'[u] = task[u]
        BY <1>0, <2>1 DEF Wakes, TaskTypes
    <2>5. RequestsKeep
        BY <2>3, <2>4 DEF RequestsKeep, Carries, Keeping
    <2>6. uc' = [uc EXCEPT ![s] = [uc[s] EXCEPT !.opening = uc[s].opening \ {db}]]
        BY <1>0, <1>2 DEF ConnDialled, ContextTypes
    <2>7. SessionsKeep
        BY <1>0, <2>6, CachesSame DEF ContextTypes, Contexts
    <2> QED BY <1>1, <2>5, <2>7, LeaksNone
<1>3. CASE ~(uc[s].closed \/ task[t].stale)
    <2> DEFINE v == [task[t] EXCEPT !.pc = "got"]
               q == [d \in DOMAIN uc[s].pools \cup {db} |->
                        IF d = db THEN task[t].conn ELSE uc[s].pools[d]]
               use == Used(uc[s].poolUse, db)
    <2>1. task' = Wakes([task EXCEPT ![t] = v], s, db)
        BY <1>0, <1>3 DEF ConnDialled, TaskTypes
    <2>2. \A u \in Threads : u # t => task[u].pc = "wait" \/ task'[u] = task[u]
        BY <1>0, <2>1 DEF Wakes, TaskTypes
    <2>3. uc' = [uc EXCEPT ![s] =
                    [uc[s] EXCEPT !.opening = uc[s].opening \ {db},
                                  !.pools = q, !.poolUse = use]]
        BY <1>0, <1>3 DEF ConnDialled, ContextTypes, Contexts
    <2>4. /\ DOMAIN q = DOMAIN uc[s].pools \cup {db}
          /\ q[db] = task[t].conn
          /\ \A d \in DOMAIN uc[s].pools : d # db => q[d] = uc[s].pools[d]
        OBVIOUS
    <2>5. db \notin DOMAIN uc[s].pools
        BY DEF ConnDialled, At, Flights, Flies, Dialling
    <2> HIDE DEF q, use
    <2>6. /\ uc'[s].closed = FALSE /\ uc'[s].server = uc[s].server /\ uc'[s].pools = q
          /\ \A r \in Sessions : r # s => uc'[r] = uc[r]
        BY <1>0, <1>3, <2>3 DEF ContextTypes, Contexts
    <2>7. SessionsKeep
        BY <1>3, <2>4, <2>5, <2>6 DEF SessionsKeep, Has
    <2>8. ASSUME NEW c \in Conns, Carries(t, c) PROVE Has(s, c)'
        BY <2>4, <2>6, <2>8 DEF Carries, Has
    <2>9. ASSUME NEW c \in Conns, conns'[c].open PROVE Owned(c)'
        <3>1. conns[c].open
            BY <1>1, <2>9 DEF NoneOpens
        <3>2. CASE \E r \in Sessions : Has(r, c)
            BY <2>7, <2>9, <3>2, OwnedPartsNext DEF SessionsKeep
        <3>3. CASE \E u \in Threads : Carries(u, c)
            <4>1. PICK u \in Threads : Carries(u, c)
                BY <3>3
            <4>2. CASE u = t
                BY <1>0, <2>8, <4>1, <4>2, OwnedPartsNext
            <4>3. CASE u # t
                <5>1. task'[u] = task[u]
                    BY <2>2, <4>1, <4>3 DEF Carries, Keeping
                <5> QED BY <4>1, <5>1, OwnedPartsNext DEF Carries
            <4> QED BY <4>2, <4>3
        <3> QED BY <3>1, <3>2, <3>3, OwnedParts DEF NothingLeaks
    <2> QED BY <2>9 DEF NothingLeaks
<1> QED BY <1>2, <1>3

\* The steps of ConnFor and of a query.
LEMMA ConnOwnedNext ==
    ASSUME Types, Flights, NothingLeaks, NEW t \in Threads,
           \/ ConnServer(t) \/ ConnClosed(t) \/ ConnCached(t) \/ ConnWait(t)
           \/ ConnAcquire(t) \/ ConnSpent(t) \/ ConnEvict(t) \/ ConnRefused(t)
           \/ ConnRetry(t) \/ Dial(t) \/ ConnFailed(t) \/ ConnDialled(t)
           \/ ConnDiscard(t) \/ Query(t) \/ QueryDone(t)
    PROVE  NothingLeaks'
<1> DEFINE s == Owner[t]
           db == task[t].db
<1>0. /\ TypeOK /\ TaskTypes /\ ContextTypes /\ ConnTypes
      /\ s \in Sessions /\ uc[s] \in Contexts /\ task[t] \in Tasks
      /\ task[t].pc # "idle" => db \in Databases
      /\ DOMAIN uc[s].pools \subseteq Databases
    BY TypesParts, OwnerTypes DEF Types, TaskTypes, Busy
<1>1. CASE \/ ConnServer(t) \/ ConnClosed(t) \/ ConnWait(t)
           \/ Query(t) \/ QueryDone(t)
    <2>1. \A u \in Threads : u # t => task'[u] = task[u]
        BY <1>0, <1>1 DEF ConnServer, ConnClosed, ConnWait, Query, QueryDone, Goto, Done, TaskTypes
    <2>2. task[t].pc \notin Keeping
        BY <1>1 DEF ConnServer, ConnClosed, ConnWait, Query, QueryDone, At, Keeping
    <2>3. NoneOpens /\ SessionsKeep
        BY <1>1, CachesSame DEF ConnServer, ConnClosed, ConnWait, Query, QueryDone, NoneOpens
    <2> QED BY <2>1, <2>2, <2>3, HandsEmpty, LeaksNone
<1>2. CASE ConnCached(t) \/ ConnAcquire(t) \/ ConnSpent(t) \/ ConnRefused(t) \/ ConnRetry(t)
    <2>1. \A u \in Threads : u # t => task'[u] = task[u]
        BY <1>0, <1>2 DEF ConnCached, ConnAcquire, ConnSpent, ConnRefused, ConnRetry,
           StartDial, Goto, Done, TaskTypes
    <2>2. task[t].pc \notin Keeping
        BY <1>2 DEF ConnCached, ConnAcquire, ConnSpent, ConnRefused, ConnRetry, Misses,
           At, Keeping
    <2>3. \A r \in Sessions : /\ uc'[r].closed = uc[r].closed
                              /\ uc'[r].server = uc[r].server
                              /\ uc'[r].pools = uc[r].pools
        <3>1. CASE ConnCached(t)
            BY <1>0, <3>1 DEF ConnCached, ContextTypes, Contexts
        <3>2. CASE ConnAcquire(t) \/ ConnRetry(t)
            BY <1>0, <3>2 DEF ConnAcquire, ConnRetry, StartDial, ContextTypes, Contexts
        <3>3. CASE ConnSpent(t) \/ ConnRefused(t)
            BY <1>0, <3>3 DEF ConnSpent, ConnRefused, ContextTypes, Contexts
        <3> QED BY <1>2, <3>1, <3>2, <3>3
    <2>4. NoneOpens
        BY <1>2 DEF ConnCached, ConnAcquire, ConnSpent, ConnRefused, ConnRetry, NoneOpens
    <2> QED BY <2>1, <2>2, <2>3, <2>4, CachesSame, HandsEmpty, LeaksNone
<1>3. CASE ConnEvict(t)
    <2>1. PICK victim \in DOMAIN uc[s].pools :
              /\ Closed({uc[s].pools[victim]})
              /\ uc' = [uc EXCEPT ![s] = Drop(uc[s], victim)]
        BY <1>0, <1>3 DEF ConnEvict, Evictable, ContextTypes
    <2>2. SessionsKeep /\ NoneOpens
        BY <1>0, <2>1, DropsClosed
    <2>3. task[t].pc \notin Keeping
        BY <1>3 DEF ConnEvict, At, Keeping
    <2>4. \A u \in Threads : u # t => task'[u] = task[u]
        BY <1>0, <1>3 DEF ConnEvict, Goto, TaskTypes
    <2> QED BY <2>2, <2>3, <2>4, HandsEmpty, LeaksNone
<1>4. CASE Dial(t)
    <2>0. task[t].pc \notin Keeping
        BY <1>4 DEF Dial, At, Keeping
    <2>1. CASE Goto(t, "failed") /\ UNCHANGED conns
        <3>1. \A u \in Threads : u # t => task'[u] = task[u]
            BY <1>0, <2>1 DEF Goto, TaskTypes
        <3>2. NoneOpens /\ SessionsKeep
            BY <1>4, <2>1, CachesSame DEF Dial, NoneOpens
        <3> QED BY <2>0, <3>1, <3>2, HandsEmpty, LeaksNone
    <2>2. CASE \E c \in Unnamed : /\ Opened(c, db, s)
                                  /\ task' = [task EXCEPT ![t].pc = "dialled", ![t].conn = c]
        <3>1. PICK c \in Conns : /\ Opened(c, db, s)
                                 /\ task' = [task EXCEPT ![t].pc = "dialled", ![t].conn = c]
            BY <2>2 DEF Unnamed
        <3>2. "dialled" \in Keeping /\ db \in Databases /\ UNCHANGED uc
            BY <1>0, <1>4 DEF Dial, At, Keeping
        <3> QED BY <2>0, <3>1, <3>2, DialCarried
    <2> QED BY <1>4, <2>1, <2>2 DEF Dial
<1>5. CASE ConnFailed(t)
    <2>1. \A u \in Threads : u # t => task[u].pc = "wait" \/ task'[u] = task[u]
        BY <1>0, <1>5 DEF ConnFailed, Wakes, TaskTypes
    <2>2. task[t].pc \notin Keeping /\ "wait" \notin Keeping
        BY <1>5 DEF ConnFailed, At, Keeping
    <2>3. uc' = [uc EXCEPT ![s] = [uc[s] EXCEPT !.opening = uc[s].opening \ {db}]]
        BY <1>0, <1>5 DEF ConnFailed, ContextTypes
    <2>4. SessionsKeep
        BY <1>0, <2>3, CachesSame DEF ContextTypes, Contexts
    <2>5. NoneOpens
        BY <1>5 DEF ConnFailed, NoneOpens
    <2> QED BY <2>1, <2>2, <2>4, <2>5, HandsEmpty, LeaksNone
<1>6. CASE ConnDiscard(t)
    <2>1. \A u \in Threads : u # t => task'[u] = task[u]
        BY <1>0, <1>6 DEF ConnDiscard, TaskTypes
    <2>2. NoneOpens /\ SessionsKeep
        BY <1>0, <1>6, ClosesOnly, CachesSame DEF ConnDiscard
    <2>3. \A c \in Conns : Carries(t, c) => ~conns'[c].open
        BY <1>0, <1>6 DEF ConnDiscard, Closed, Carries, ConnTypes
    <2>4. RequestsKeep
        BY <2>1, <2>3 DEF RequestsKeep, Carries
    <2> QED BY <2>2, <2>4, LeaksNone
<1> QED BY <1>1, <1>2, <1>3, <1>4, <1>5, <1>6, DialledOwned

\* ClosePool, whatever the request does next.
LEMMA ClosePoolKeeps ==
    ASSUME Types, NEW t \in Threads, task[t].db \in Databases,
           NEW v \in Tasks, ClosePool(t, [task EXCEPT ![t] = v])
    PROVE  /\ SessionsKeep /\ NoneOpens
           /\ task'[t].pc = v.pc /\ task'[t].conn = v.conn
           /\ \A u \in Threads : u # t => /\ task'[u].pc = task[u].pc
                                          /\ task'[u].conn = task[u].conn
<1> DEFINE s == Owner[t]
           db == task[t].db
<1>0. TypeOK /\ TaskTypes /\ ContextTypes /\ s \in Sessions
    BY TypesParts, OwnerTypes DEF Types
<1>1. SessionsKeep /\ NoneOpens
    <2>1. CASE db \in DOMAIN uc[s].pools
        <3>1. uc' = [uc EXCEPT ![s] = Drop(uc[s], db)] /\ Closed({uc[s].pools[db]})
            BY <1>0, <2>1 DEF ClosePool, ContextTypes
        <3> QED BY <1>0, <2>1, <3>1, DropsClosed
    <2>2. CASE db \notin DOMAIN uc[s].pools
        BY <2>2, CachesSame DEF ClosePool, NoneOpens
    <2> QED BY <2>1, <2>2
<1> DEFINE T == [task EXCEPT ![t] = v]
<1>2. /\ T \in [Threads -> Tasks] /\ T[t] = v
      /\ \A u \in Threads : u # t => T[u] = task[u]
    BY <1>0 DEF TaskTypes
<1>3. \A u \in Threads : task'[u] = T[u] \/ task'[u] = [T[u] EXCEPT !.stale = TRUE]
    BY DEF ClosePool
<1> HIDE DEF T
<1>4. \A u \in Threads : task'[u].pc = T[u].pc /\ task'[u].conn = T[u].conn
    <2>1. \A x \in Tasks : /\ [x EXCEPT !.stale = TRUE].pc = x.pc
                           /\ [x EXCEPT !.stale = TRUE].conn = x.conn
        BY DEF Tasks
    <2>2. \A u \in Threads : T[u] \in Tasks BY <1>2
    <2> QED BY <1>3, <2>1, <2>2
<1> QED BY <1>1, <1>2, <1>4

\* rebindServerConn: the session and the request exchange their connections.
LEMMA RebindOwned ==
    ASSUME Types, NothingLeaks, NEW t \in Threads, Rebind(t)
    PROVE  NothingLeaks'
<1> DEFINE s == Owner[t]
<1>0. /\ TaskTypes /\ ContextTypes /\ s \in Sessions /\ uc[s] \in Contexts
      /\ task[t] \in Tasks
    BY TypesParts, OwnerTypes DEF TaskTypes
<1>1. /\ \A u \in Threads : u # t => task'[u] = task[u]
      /\ task'[t].pc = "closeOld"
      /\ task'[t].conn = IF uc[s].closed THEN task[t].conn ELSE uc[s].server
    BY <1>0 DEF Rebind, TaskTypes, Tasks
<1>2. UNCHANGED conns
    BY DEF Rebind
<1>3. CASE uc[s].closed
    <2>1. UNCHANGED uc
        BY <1>3 DEF Rebind
    <2>2. RequestsKeep
        BY <1>1, <1>3 DEF RequestsKeep, Carries, Keeping
    <2> QED BY <1>2, <2>1, <2>2, CachesSame, LeaksNone DEF NoneOpens
<1>4. CASE ~uc[s].closed
    <2>1. uc' = [uc EXCEPT ![s] = [uc[s] EXCEPT !.server = task[t].conn]]
        BY <1>0, <1>4 DEF Rebind, ContextTypes
    <2>2. /\ ~uc'[s].closed /\ uc'[s].server = task[t].conn /\ uc'[s].pools = uc[s].pools
          /\ \A r \in Sessions : r # s => uc'[r] = uc[r]
        BY <1>0, <1>4, <2>1 DEF ContextTypes, Contexts
    <2>3. ASSUME NEW c \in Conns, NEW r \in Sessions, Has(r, c)
          PROVE  Has(r, c)' \/ Carries(t, c)'
        BY <1>1, <1>4, <2>2, <2>3 DEF Has, Carries, Keeping
    <2>4. ASSUME NEW c \in Conns, NEW u \in Threads, Carries(u, c)
          PROVE  Carries(u, c)' \/ Has(s, c)'
        BY <1>1, <1>4, <2>2, <2>4 DEF Has, Carries
    <2>5. ASSUME NEW c \in Conns, conns'[c].open PROVE Owned(c)'
        <3>1. conns[c].open
            BY <1>2, <2>5
        <3>2. CASE \E r \in Sessions : Has(r, c)
            BY <2>3, <3>2, OwnedPartsNext
        <3>3. CASE \E u \in Threads : Carries(u, c)
            BY <1>0, <2>4, <3>3, OwnedPartsNext
        <3> QED BY <3>1, <3>2, <3>3, OwnedParts DEF NothingLeaks
    <2> QED BY <2>5 DEF NothingLeaks
<1> QED BY <1>3, <1>4

\* All the other steps.
LEMMA OtherOwnedNext ==
    ASSUME Types, NothingLeaks,
           \/ \E t \in Threads :
                 \/ DropExec(t) \/ DropClosePool(t)
                 \/ MaintBegin(t) \/ MaintDial(t) \/ MaintDrop(t) \/ MaintFail(t)
                 \/ MaintClosePool(t) \/ Rebind(t) \/ CloseOld(t) \/ Request(t)
           \/ \E s \in Sessions : CloseSession(s)
           \/ \E db \in Databases : CreateDatabase(db)
           \/ UNCHANGED vars
    PROVE  NothingLeaks'
<1>0. /\ TypeOK /\ TaskTypes /\ ContextTypes /\ ConnTypes /\ DatabaseTypes
      /\ \A u \in Threads : Owner[u] \in Sessions /\ task[u] \in Tasks
      /\ \A u \in Threads : task[u].pc # "idle" => task[u].db \in Databases
    BY TypesParts, ConstantsAssumption DEF Types, TaskTypes, Busy
<1>1. ASSUME NEW t \in Threads, DropExec(t) \/ MaintBegin(t) \/ Request(t)
      PROVE  NothingLeaks'
    <2>1. \A u \in Threads : u # t => task'[u] = task[u]
        BY <1>0, <1>1 DEF DropExec, MaintBegin, Request, ConnGivesUp, ConnBegin, DropBegin,
           Goto, Done, TaskTypes
    <2>2. task[t].pc \notin Keeping
        BY <1>1 DEF DropExec, MaintBegin, Request, ConnGivesUp, ConnBegin, DropBegin, At,
           Keeping
    <2>3. NoneOpens /\ SessionsKeep
        BY <1>1, CachesSame DEF DropExec, MaintBegin, Request, ConnGivesUp, ConnBegin,
           DropBegin, NoneOpens
    <2> QED BY <2>1, <2>2, <2>3, HandsEmpty, LeaksNone
<1>2. ASSUME NEW t \in Threads, DropClosePool(t) PROVE NothingLeaks'
    <2>1. Idle \in Tasks /\ task[t].db \in Databases /\ task[t].pc \notin Keeping
        BY <1>0, <1>2 DEF DropClosePool, At, Idle, Tasks, Steps, Keeping
    <2>2. ClosePool(t, [task EXCEPT ![t] = Idle])
        BY <1>2 DEF DropClosePool
    <2> QED BY <2>1, <2>2, ClosePoolKeeps, HandsEmpty, LeaksNone
<1>3. ASSUME NEW t \in Threads, MaintClosePool(t) PROVE NothingLeaks'
    <2> DEFINE v == [task[t] EXCEPT !.pc = "rebind"]
    <2>1. v \in Tasks /\ v.pc = "rebind" /\ v.conn = task[t].conn /\ task[t].db \in Databases
        BY <1>0, <1>3 DEF MaintClosePool, At, Tasks, Steps
    <2>2. ClosePool(t, [task EXCEPT ![t] = v])
        BY <1>0, <1>3 DEF MaintClosePool, TaskTypes
    <2> HIDE DEF v
    <2>3. SessionsKeep /\ NoneOpens
        BY <2>1, <2>2, ClosePoolKeeps
    <2>4. \A u \in Threads : /\ task'[u].conn = task[u].conn
                             /\ task[u].pc \in Keeping => task'[u].pc \in Keeping
        BY <2>1, <2>2, ClosePoolKeeps DEF Keeping
    <2>5. RequestsKeep
        BY <2>4 DEF RequestsKeep, Carries
    <2> QED BY <2>3, <2>5, LeaksNone
<1>4. ASSUME NEW t \in Threads, MaintDial(t) PROVE NothingLeaks'
    <2>0. task[t].pc \notin Keeping /\ UNCHANGED uc
        BY <1>4 DEF MaintDial, At, Keeping
    <2>1. CASE Done(t) /\ UNCHANGED conns
        <3>1. \A u \in Threads : u # t => task'[u] = task[u]
            BY <1>0, <2>1 DEF Done, TaskTypes
        <3>2. NoneOpens /\ SessionsKeep
            BY <2>0, <2>1, CachesSame DEF NoneOpens
        <3> QED BY <2>0, <3>1, <3>2, HandsEmpty, LeaksNone
    <2>2. CASE \E d \in (Maintenance \ {task[t].db}) \cap dbs : \E c \in Unnamed :
                  /\ Opened(c, d, Owner[t])
                  /\ task' = [task EXCEPT ![t].pc = "maintDrop", ![t].conn = c]
        <3>1. PICK d \in Databases, c \in Conns :
                  /\ Opened(c, d, Owner[t])
                  /\ task' = [task EXCEPT ![t].pc = "maintDrop", ![t].conn = c]
            BY <1>0, <2>2 DEF Unnamed, DatabaseTypes
        <3>2. "maintDrop" \in Keeping
            BY DEF Keeping
        <3> QED BY <2>0, <3>1, <3>2, DialCarried
    <2> QED BY <1>4, <2>1, <2>2 DEF MaintDial
<1>5. ASSUME NEW t \in Threads, MaintDrop(t) PROVE NothingLeaks'
    <2>1. \A u \in Threads : u # t => task'[u] = task[u]
        BY <1>0, <1>5 DEF MaintDrop, Goto, TaskTypes
    <2>2. task'[t].pc \in {"maintFail", "maintClose"} /\ task'[t].conn = task[t].conn
        BY <1>0, <1>5 DEF MaintDrop, Goto, TaskTypes, Tasks
    <2>3. RequestsKeep
        BY <2>1, <2>2 DEF RequestsKeep, Carries, Keeping
    <2> QED BY <1>5, <2>3, CachesSame, LeaksNone DEF MaintDrop, NoneOpens
<1>6. ASSUME NEW t \in Threads, MaintFail(t) \/ CloseOld(t) PROVE NothingLeaks'
    <2>1. \A u \in Threads : u # t => task'[u] = task[u]
        BY <1>0, <1>6 DEF MaintFail, CloseOld, Done, TaskTypes
    <2>2. NoneOpens /\ SessionsKeep
        BY <1>0, <1>6, ClosesOnly, CachesSame DEF MaintFail, CloseOld
    <2>3. \A c \in Conns : Carries(t, c) => ~conns'[c].open
        BY <1>0, <1>6 DEF MaintFail, CloseOld, Closed, Carries, ConnTypes
    <2>4. RequestsKeep
        BY <2>1, <2>3 DEF RequestsKeep, Carries
    <2> QED BY <2>2, <2>4, LeaksNone
<1>7. ASSUME NEW t \in Threads, Rebind(t) PROVE NothingLeaks'
    BY <1>7, RebindOwned
<1>8. ASSUME NEW s \in Sessions, CloseSession(s) PROVE NothingLeaks'
    <2>1. UNCHANGED task /\ Closed(Cached(s) \cup {uc[s].server})
        BY <1>8 DEF CloseSession
    <2>2. \A r \in Sessions : r # s => uc'[r] = uc[r]
        BY <1>0, <1>8 DEF CloseSession, ContextTypes
    <2>3. \A c \in Conns : Has(s, c) => ~conns'[c].open
        BY <1>0, <2>1 DEF Closed, Cached, Has, ConnTypes
    <2>4. SessionsKeep
        BY <2>2, <2>3 DEF SessionsKeep, Has
    <2>5. RequestsKeep /\ NoneOpens
        BY <1>0, <2>1, ClosesOnly DEF RequestsKeep, Carries
    <2> QED BY <2>4, <2>5, LeaksNone
<1>9. ASSUME \/ \E db \in Databases : CreateDatabase(db)
             \/ UNCHANGED vars
      PROVE  NothingLeaks'
    BY <1>9, OwnedParts, OwnedPartsNext DEF CreateDatabase, vars, NothingLeaks, Has, Carries
<1> QED BY <1>1, <1>2, <1>3, <1>4, <1>5, <1>6, <1>7, <1>8, <1>9

\* At a login every open connection is the one of a session.
LEMMA OwnedInit ==
    ASSUME Init
    PROVE  NothingLeaks
<1>1. PICK login \in [Sessions -> Conns] :
        /\ uc = [s \in Sessions |->
                   [closed |-> FALSE, mu |-> NoThread, server |-> login[s],
                    pools |-> <<>>, poolUse |-> <<>>, opening |-> {}]]
        /\ conns = [c \in Conns |->
                      [open |-> \E s \in Sessions : login[s] = c,
                       db |-> Login,
                       owner |-> IF \E s \in Sessions : login[s] = c
                                 THEN CHOOSE s \in Sessions : login[s] = c
                                 ELSE CHOOSE s \in Sessions : TRUE]]
    BY DEF Init
<1>2. ASSUME NEW c \in Conns, conns[c].open PROVE Owned(c)
    <2>0. conns[c].open <=> \E s \in Sessions : login[s] = c
        BY <1>1
    <2>1. PICK s \in Sessions : login[s] = c
        BY <1>2, <2>0
    <2>2. Has(s, c)
        BY <1>1, <2>1 DEF Has
    <2> QED BY <2>2, OwnedParts
<1> QED BY <1>2 DEF NothingLeaks

-----------------------------------------------------------------------------
(***************************************************************************)
(* DroppedNotCached: a database a session dropped is not on the server, and *)
(* a dial that ended before the drop was told of it (ClosePool).            *)
(***************************************************************************)
NoneBack == \A s \in Sessions : gone[s] \cap dbs = {}
FreshDials ==
    \A t \in Threads :
        task[t].pc = "dialled" /\ ~task[t].stale => task[t].db \notin gone[Owner[t]]
Dropped == NoneBack /\ FreshDials /\ DroppedNotCached

\* Steps that drop nothing, cache nothing and end no dial.
LEMMA DroppedKept ==
    ASSUME Dropped, UNCHANGED gone, dbs' \subseteq dbs,
           \A s \in Sessions : DOMAIN uc'[s].pools \subseteq DOMAIN uc[s].pools,
           \A t \in Threads :
               task'[t].pc = "dialled" =>
                   /\ task[t].pc = "dialled" /\ task'[t].db = task[t].db
                   /\ task'[t].stale = task[t].stale
    PROVE  Dropped'
BY DEF Dropped, NoneBack, FreshDials, DroppedNotCached

\* The steps of ConnFor and of a query.
LEMMA ConnDroppedNext ==
    ASSUME Types, Dropped, NEW t \in Threads,
           \/ ConnServer(t) \/ ConnClosed(t) \/ ConnCached(t) \/ ConnWait(t)
           \/ ConnAcquire(t) \/ ConnSpent(t) \/ ConnEvict(t) \/ ConnRefused(t)
           \/ ConnRetry(t) \/ Dial(t) \/ ConnFailed(t) \/ ConnDialled(t)
           \/ ConnDiscard(t) \/ Query(t) \/ QueryDone(t)
    PROVE  Dropped'
<1> DEFINE s == Owner[t]
           db == task[t].db
<1>0. /\ TypeOK /\ TaskTypes /\ ContextTypes /\ ConnTypes
      /\ s \in Sessions /\ uc[s] \in Contexts /\ task[t] \in Tasks
      /\ task[t].pc # "idle" => db \in Databases
      /\ DOMAIN uc[s].pools \subseteq Databases
    BY TypesParts, OwnerTypes DEF Types, TaskTypes, Busy
<1>a. UNCHANGED <<gone, dbs>>
    BY DEF ConnServer, ConnClosed, ConnCached, ConnWait, ConnAcquire, ConnSpent, ConnEvict,
       ConnRefused, ConnRetry, Dial, ConnFailed, ConnDialled, ConnDiscard, Query, QueryDone
<1>1. CASE \/ ConnServer(t) \/ ConnClosed(t) \/ ConnWait(t)
           \/ Query(t) \/ QueryDone(t)
    <2>1. UNCHANGED uc
        BY <1>1 DEF ConnServer, ConnClosed, ConnWait, Query, QueryDone
    <2>2. \A u \in Threads : u # t => task'[u] = task[u]
        BY <1>0, <1>1 DEF ConnServer, ConnClosed, ConnWait, Query, QueryDone, Goto, Done, TaskTypes
    <2>3. task'[t].pc # "dialled"
        BY <1>0, <1>1 DEF ConnServer, ConnClosed, ConnWait, Query, QueryDone, Goto, Done, Idle,
           TaskTypes, Tasks
    <2> QED BY <1>a, <2>1, <2>2, <2>3, DroppedKept
<1>2. CASE ConnCached(t) \/ ConnAcquire(t) \/ ConnSpent(t) \/ ConnRefused(t) \/ ConnRetry(t)
    <2>1. \A u \in Threads : u # t => task'[u] = task[u]
        BY <1>0, <1>2 DEF ConnCached, ConnAcquire, ConnSpent, ConnRefused, ConnRetry,
           StartDial, Goto, Done, TaskTypes
    <2>2. task'[t].pc # "dialled"
        BY <1>0, <1>2 DEF ConnCached, ConnAcquire, ConnSpent, ConnRefused, ConnRetry,
           StartDial, Goto, Done, Idle, TaskTypes, Tasks
    <2>3. \A r \in Sessions : uc'[r].pools = uc[r].pools
        <3>1. CASE ConnCached(t)
            BY <1>0, <3>1 DEF ConnCached, ContextTypes, Contexts
        <3>2. CASE ConnAcquire(t) \/ ConnRetry(t)
            BY <1>0, <3>2 DEF ConnAcquire, ConnRetry, StartDial, ContextTypes, Contexts
        <3>3. CASE ConnSpent(t) \/ ConnRefused(t)
            BY <1>0, <3>3 DEF ConnSpent, ConnRefused, ContextTypes, Contexts
        <3> QED BY <1>2, <3>1, <3>2, <3>3
    <2> QED BY <1>a, <2>1, <2>2, <2>3, DroppedKept
<1>3. CASE ConnEvict(t)
    <2>1. PICK victim \in Databases : uc' = [uc EXCEPT ![s] = Drop(uc[s], victim)]
        BY <1>0, <1>3 DEF ConnEvict, Evictable, ContextTypes
    <2>2. \A r \in Sessions : DOMAIN uc'[r].pools \subseteq DOMAIN uc[r].pools
        BY <1>0, <2>1, DropOnly
    <2>3. \A u \in Threads : u # t => task'[u] = task[u]
        BY <1>0, <1>3 DEF ConnEvict, Goto, TaskTypes
    <2>4. task'[t].pc # "dialled"
        BY <1>0, <1>3 DEF ConnEvict, Goto, TaskTypes, Tasks
    <2> QED BY <1>a, <2>2, <2>3, <2>4, DroppedKept
<1>4. CASE Dial(t)
    <2>0. UNCHANGED uc
        BY <1>4 DEF Dial
    <2>1. CASE Goto(t, "failed")
        <3>1. \A u \in Threads : u # t => task'[u] = task[u]
            BY <1>0, <2>1 DEF Goto, TaskTypes
        <3>2. task'[t].pc # "dialled"
            BY <1>0, <2>1 DEF Goto, TaskTypes, Tasks
        <3> QED BY <1>a, <2>0, <3>1, <3>2, DroppedKept
    <2>2. CASE db \in dbs /\ \E c : task' = [task EXCEPT ![t].pc = "dialled", ![t].conn = c]
        <3>1. \A u \in Threads : u # t => task'[u] = task[u]
            BY <1>0, <2>2 DEF TaskTypes
        <3>2. task'[t].db = db
            BY <1>0, <2>2 DEF TaskTypes, Tasks
        <3>3. db \notin gone[s]
            BY <1>0, <2>2 DEF Dropped, NoneBack
        <3> QED BY <1>0, <1>a, <2>0, <3>1, <3>2, <3>3
                DEF Dropped, NoneBack, FreshDials, DroppedNotCached
    <2> QED BY <1>4, <2>1, <2>2 DEF Dial
<1>5. CASE ConnFailed(t)
    <2>1. \A u \in Threads : u # t => task'[u] = task[u] \/ task'[u].pc = "pool"
        BY <1>0, <1>5 DEF ConnFailed, Wakes, TaskTypes, Tasks
    <2>2. task'[t].pc = "idle"
        BY <1>0, <1>5 DEF ConnFailed, Wakes, Idle, TaskTypes
    <2>3. uc' = [uc EXCEPT ![s] = [uc[s] EXCEPT !.opening = uc[s].opening \ {db}]]
        BY <1>0, <1>5 DEF ConnFailed, ContextTypes
    <2>4. \A r \in Sessions : uc'[r].pools = uc[r].pools
        BY <1>0, <2>3 DEF ContextTypes, Contexts
    <2> QED BY <1>a, <2>1, <2>2, <2>4, DroppedKept
<1>6. CASE ConnDialled(t) /\ (uc[s].closed \/ task[t].stale)
    <2> DEFINE v == [task[t] EXCEPT !.pc = "discard",
                        !.after = IF uc[s].closed THEN "idle" ELSE "pool"]
    <2>1. task' = Wakes([task EXCEPT ![t] = v], s, db)
        BY <1>0, <1>6 DEF ConnDialled, TaskTypes
    <2>2. v \in Tasks /\ v.pc = "discard"
        BY <1>0 DEF Tasks, Steps
    <2> HIDE DEF v
    <2>3. task'[t].pc # "dialled"
        BY <1>0, <2>1, <2>2 DEF Wakes, TaskTypes
    <2>4. \A u \in Threads : u # t => task'[u] = task[u] \/ task'[u].pc = "pool"
        BY <1>0, <2>1 DEF Wakes, TaskTypes, Tasks
    <2>5. uc' = [uc EXCEPT ![s] = [uc[s] EXCEPT !.opening = uc[s].opening \ {db}]]
        BY <1>0, <1>6 DEF ConnDialled, ContextTypes
    <2>6. \A r \in Sessions : uc'[r].pools = uc[r].pools
        BY <1>0, <2>5 DEF ContextTypes, Contexts
    <2> QED BY <1>a, <2>3, <2>4, <2>6, DroppedKept
<1>7. CASE ConnDialled(t) /\ ~(uc[s].closed \/ task[t].stale)
    <2> DEFINE v == [task[t] EXCEPT !.pc = "got"]
               q == [d \in DOMAIN uc[s].pools \cup {db} |->
                        IF d = db THEN task[t].conn ELSE uc[s].pools[d]]
               use == Used(uc[s].poolUse, db)
    <2>1. task' = Wakes([task EXCEPT ![t] = v], s, db)
        BY <1>0, <1>7 DEF ConnDialled, TaskTypes
    <2>2. v \in Tasks /\ v.pc = "got"
        BY <1>0 DEF Tasks, Steps
    <2>3. uc' = [uc EXCEPT ![s] =
                    [uc[s] EXCEPT !.opening = uc[s].opening \ {db},
                                  !.pools = q, !.poolUse = use]]
        BY <1>0, <1>7 DEF ConnDialled, ContextTypes, Contexts
    <2>4. DOMAIN q = DOMAIN uc[s].pools \cup {db}
        OBVIOUS
    <2>5. db \notin gone[s]
        BY <1>7 DEF ConnDialled, At, Dropped, FreshDials
    <2> HIDE DEF v, q, use
    <2>6. task'[t].pc # "dialled"
        BY <1>0, <2>1, <2>2 DEF Wakes, TaskTypes
    <2>7. \A u \in Threads : u # t => task'[u] = task[u] \/ task'[u].pc = "pool"
        BY <1>0, <2>1 DEF Wakes, TaskTypes, Tasks
    <2>8. /\ uc'[s].pools = q
          /\ \A r \in Sessions : r # s => uc'[r] = uc[r]
        BY <1>0, <2>3 DEF ContextTypes, Contexts
    <2>9. DroppedNotCached'
        BY <1>a, <2>4, <2>5, <2>8 DEF Dropped, DroppedNotCached
    <2>10. NoneBack' /\ FreshDials'
        BY <1>a, <2>6, <2>7 DEF Dropped, NoneBack, FreshDials
    <2> QED BY <2>9, <2>10 DEF Dropped
<1>8. CASE ConnDiscard(t)
    <2>1. \A u \in Threads : u # t => task'[u] = task[u]
        BY <1>0, <1>8 DEF ConnDiscard, TaskTypes
    <2>2. task'[t].pc # "dialled"
        BY <1>0, <1>8 DEF ConnDiscard, Idle, TaskTypes
    <2> QED BY <1>8, <1>a, <2>1, <2>2, DroppedKept DEF ConnDiscard
<1> QED BY <1>1, <1>2, <1>3, <1>4, <1>5, <1>6, <1>7, <1>8

\* ClosePool: the pool leaves the cache, and the dials for it are marked.
LEMMA ClosePoolDrops ==
    ASSUME Types, Dropped, NEW t \in Threads, task[t].db \in Databases,
           NEW v \in Tasks, v.pc # "dialled", ClosePool(t, [task EXCEPT ![t] = v]),
           UNCHANGED dbs
    PROVE  Dropped'
<1> DEFINE s == Owner[t]
           db == task[t].db
<1>0. /\ TypeOK /\ TaskTypes /\ ContextTypes /\ DatabaseTypes /\ s \in Sessions
      /\ uc[s] \in Contexts /\ Ordered(uc[s])
    BY TypesParts, OwnerTypes DEF Types
<1>1. /\ gone'[s] = gone[s] \cup ({db} \ dbs)
      /\ \A r \in Sessions : r # s => gone'[r] = gone[r]
    BY <1>0 DEF ClosePool, DatabaseTypes
<1>2. /\ db \notin DOMAIN uc'[s].pools
      /\ \A r \in Sessions : DOMAIN uc'[r].pools \subseteq DOMAIN uc[r].pools
    <2>1. CASE db \in DOMAIN uc[s].pools
        <3>1. uc' = [uc EXCEPT ![s] = Drop(uc[s], db)]
            BY <1>0, <2>1 DEF ClosePool, ContextTypes
        <3>2. Drop(uc[s], db).pools = Without(uc[s].pools, db)
            BY <1>0, DropOrdered
        <3>3. uc'[s].pools = Without(uc[s].pools, db)
            BY <1>0, <3>1, <3>2 DEF ContextTypes
        <3>4. db \notin DOMAIN uc'[s].pools
            BY <3>3 DEF Without
        <3> QED BY <1>0, <3>1, <3>4, DropOnly
    <2>2. CASE db \notin DOMAIN uc[s].pools
        BY <2>2 DEF ClosePool
    <2> QED BY <2>1, <2>2
<1>3. DroppedNotCached' /\ NoneBack'
    BY <1>1, <1>2 DEF Dropped, DroppedNotCached, NoneBack
<1>4. FreshDials'
    <2> DEFINE T == [task EXCEPT ![t] = v]
    <2>1. /\ T \in [Threads -> Tasks] /\ T[t] = v
          /\ \A u \in Threads : u # t => T[u] = task[u]
        BY <1>0 DEF TaskTypes
    <2>2. \A u \in Threads :
              task'[u] = IF T[u].pc \in Dialling /\ Owner[u] = s /\ T[u].db = db
                         THEN [T[u] EXCEPT !.stale = TRUE] ELSE T[u]
        BY DEF ClosePool
    <2> HIDE DEF T
    <2>3. ASSUME NEW u \in Threads, task'[u].pc = "dialled", ~task'[u].stale
          PROVE  task'[u].db \notin gone'[Owner[u]]
        <3>1. ~(T[u].pc \in Dialling /\ Owner[u] = s /\ T[u].db = db)
            BY <2>1, <2>2, <2>3 DEF Tasks
        <3>2. task'[u] = T[u]
            BY <2>2, <3>1
        <3>3. u # t /\ task'[u] = task[u]
            BY <2>1, <2>3, <3>2
        <3>4. Owner[u] # s \/ task[u].db # db
            BY <2>1, <2>3, <3>1, <3>3 DEF Dialling
        <3>5. task[u].db \notin gone[Owner[u]] /\ Owner[u] \in Sessions
            BY <2>3, <3>3, ConstantsAssumption DEF Dropped, FreshDials
        <3> QED BY <1>1, <3>3, <3>4, <3>5
    <2> QED BY <2>3 DEF FreshDials
<1> QED BY <1>3, <1>4 DEF Dropped

\* All the other steps.
LEMMA OtherDroppedNext ==
    ASSUME Types, Dropped,
           \/ \E t \in Threads :
                 \/ DropExec(t) \/ DropClosePool(t)
                 \/ MaintBegin(t) \/ MaintDial(t) \/ MaintDrop(t) \/ MaintFail(t)
                 \/ MaintClosePool(t) \/ Rebind(t) \/ CloseOld(t) \/ Request(t)
           \/ \E s \in Sessions : CloseSession(s)
           \/ \E db \in Databases : CreateDatabase(db)
           \/ UNCHANGED vars
    PROVE  Dropped'
<1>0. /\ TypeOK /\ TaskTypes /\ ContextTypes /\ ConnTypes /\ DatabaseTypes
      /\ \A u \in Threads : Owner[u] \in Sessions /\ task[u] \in Tasks
      /\ \A u \in Threads : task[u].pc # "idle" => task[u].db \in Databases
    BY TypesParts, ConstantsAssumption DEF Types, TaskTypes, Busy
<1>1. ASSUME NEW t \in Threads,
             \/ DropExec(t) \/ MaintBegin(t) \/ MaintDial(t) \/ MaintDrop(t)
             \/ MaintFail(t) \/ CloseOld(t) \/ Request(t)
      PROVE  Dropped'
    <2>1. \A u \in Threads : u # t => task'[u] = task[u]
        BY <1>0, <1>1 DEF DropExec, MaintBegin, MaintDial, MaintDrop, MaintFail, CloseOld,
           Request, ConnGivesUp, ConnBegin, DropBegin, Goto, Done, TaskTypes
    <2>2. task'[t].pc # "dialled"
        <3>1. CASE Done(t)
            BY <1>0, <3>1 DEF Done, Idle, TaskTypes
        <3>2. CASE \E step \in {"close", "maintDial", "maintFail", "maintClose"} : Goto(t, step)
            BY <1>0, <3>2 DEF Goto, TaskTypes, Tasks
        <3>3. CASE \E c : task' = [task EXCEPT ![t].pc = "maintDrop", ![t].conn = c]
            BY <1>0, <3>3 DEF TaskTypes, Tasks
        <3>4. CASE \E db \in Databases : ConnBegin(t, db)
            BY <1>0, <3>4 DEF ConnBegin, TaskTypes, Tasks
        <3>5. CASE \E db \in Droppable : DropBegin(t, db)
            BY <1>0, <3>5 DEF DropBegin, TaskTypes, Tasks
        <3> QED BY <1>1, <3>1, <3>2, <3>3, <3>4, <3>5 DEF DropExec, MaintBegin, MaintDial,
                MaintDrop, MaintFail, CloseOld, Request, ConnGivesUp
    <2>3. UNCHANGED <<uc, gone>> /\ dbs' \subseteq dbs
        BY <1>1 DEF DropExec, MaintBegin, MaintDial, MaintDrop, MaintFail, CloseOld,
           Request, ConnGivesUp, ConnBegin, DropBegin
    <2> QED BY <2>1, <2>2, <2>3, DroppedKept
<1>2. ASSUME NEW t \in Threads, DropClosePool(t) PROVE Dropped'
    <2>1. Idle \in Tasks /\ Idle.pc # "dialled" /\ task[t].db \in Databases
        BY <1>0, <1>2 DEF DropClosePool, At, Idle, Tasks, Steps
    <2> QED BY <1>2, <2>1, ClosePoolDrops DEF DropClosePool
<1>3. ASSUME NEW t \in Threads, MaintClosePool(t) PROVE Dropped'
    <2> DEFINE v == [task[t] EXCEPT !.pc = "rebind"]
    <2>1. v \in Tasks /\ v.pc # "dialled" /\ task[t].db \in Databases
        BY <1>0, <1>3 DEF MaintClosePool, At, Tasks, Steps
    <2>2. ClosePool(t, [task EXCEPT ![t] = v]) /\ UNCHANGED dbs
        BY <1>0, <1>3 DEF MaintClosePool, TaskTypes
    <2> HIDE DEF v
    <2> QED BY <2>1, <2>2, ClosePoolDrops
<1>4. ASSUME NEW t \in Threads, Rebind(t) PROVE Dropped'
    <2>1. \A s \in Sessions : uc'[s].pools = uc[s].pools
        <3>1. CASE uc[Owner[t]].closed
            BY <1>4, <3>1 DEF Rebind
        <3>2. CASE ~uc[Owner[t]].closed
            <4>1. uc' = [uc EXCEPT ![Owner[t]] = [uc[Owner[t]] EXCEPT !.server = task[t].conn]]
                BY <1>0, <1>4, <3>2 DEF Rebind, ContextTypes
            <4> QED BY <1>0, <4>1 DEF ContextTypes, Contexts
        <3> QED BY <3>1, <3>2
    <2>2. /\ \A u \in Threads : u # t => task'[u] = task[u]
          /\ task'[t].pc = "closeOld"
        BY <1>0, <1>4 DEF Rebind, TaskTypes, Tasks
    <2> QED BY <1>4, <2>1, <2>2, DroppedKept DEF Rebind
<1>5. ASSUME NEW s \in Sessions, CloseSession(s) PROVE Dropped'
    <2> DEFINE w == [uc[s] EXCEPT !.closed = TRUE, !.pools = <<>>, !.poolUse = <<>>]
    <2>1. uc' = [uc EXCEPT ![s] = w]
        BY <1>0, <1>5 DEF CloseSession, ContextTypes
    <2>2. w.pools = <<>>
        BY <1>0 DEF ContextTypes, Contexts
    <2> HIDE DEF w
    <2>3. \A r \in Sessions : DOMAIN uc'[r].pools \subseteq DOMAIN uc[r].pools
        BY <1>0, <2>1, <2>2, NoPools DEF ContextTypes
    <2> QED BY <1>5, <2>3, DroppedKept DEF CloseSession
<1>6. ASSUME NEW db \in Databases, CreateDatabase(db) PROVE Dropped'
    BY <1>0, <1>6 DEF CreateDatabase, Dropped, NoneBack, FreshDials, DroppedNotCached
<1>7. ASSUME UNCHANGED vars PROVE Dropped'
    BY <1>7 DEF vars, Dropped, NoneBack, FreshDials, DroppedNotCached
<1> QED BY <1>1, <1>2, <1>3, <1>4, <1>5, <1>6, <1>7

\* A session starts with no pool, and has dropped no database.
LEMMA DroppedInit ==
    ASSUME Init
    PROVE  Dropped
<1>1. /\ \A s \in Sessions : gone[s] = {}
      /\ \A t \in Threads : task[t].pc = "idle"
    BY DEF Init, Idle
<1> QED BY <1>1, ConstantsAssumption DEF Dropped, NoneBack, FreshDials, DroppedNotCached

LEMMA OwnedNext ==
    ASSUME Types, Flights, NothingLeaks, Dropped, [Next]_vars
    PROVE  NothingLeaks' /\ Dropped'
<1>1. CASE \E t \in Threads : ThreadStep(t)
    <2>1. PICK t \in Threads : ThreadStep(t)
        BY <1>1
    <2> QED BY <2>1, ConnOwnedNext, ConnDroppedNext, OtherOwnedNext, OtherDroppedNext
            DEF ThreadStep
<1> QED BY <1>1, OtherOwnedNext, OtherDroppedNext DEF Next

\* No interleaving of ConnFor, dropDatabase, the evictions and Close loses an
\* open connection, nor leaves a dropped database's pool in the cache of the
\* session that dropped it, even when its dial was under way.
THEOREM NothingLost == Spec => []ConnectionsOwned
<1>1. Init => Types /\ Flights /\ NothingLeaks /\ Dropped
    <2>1. Init => \A t \in Threads : task[t].pc = "idle"
        BY DEF Init, Idle
    <2> QED BY <2>1, TypesInit, OwnedInit, DroppedInit DEF Flights, Flies, Evicts, Dialling
<1>2. Types /\ Flights /\ NothingLeaks /\ Dropped /\ [Next]_vars
        => (Types /\ Flights /\ NothingLeaks /\ Dropped)'
    BY TypesNext, FlightsNext, OwnedNext
<1>3. NothingLeaks /\ Dropped => ConnectionsOwned
    BY DEF Dropped, ConnectionsOwned
<1> QED BY <1>1, <1>2, <1>3, PTL DEF Spec
-----------------------------------------------------------------------------
(***************************************************************************)
(* The accounting of the pool budget that the sessions share: every slot   *)
(* taken is given back exactly once, so the cap is never passed.           *)
(*                                                                         *)
(* A slot is a cached pool or a request that opens or discards one.  The   *)
(* steps come in five kinds: those that move no slot, those that take one, *)
(* the one that turns a request's slot into a cached pool's, those that    *)
(* give one back, and Close, which gives back all of a session's at once.  *)
(* There is a lemma for the effect of each kind on the accounts.           *)
(***************************************************************************)
\* The inductive invariant: the budget counts the slots, and Spent kept it
\* from passing the cap.
Accounted == PoolCap > 0 => budget = Charged /\ Charged <= PoolCap

Holds(t) == task[t].pc \in Dialling \cup {"discard"}

\* What is counted is finite.
LEMMA SlotsFinite ==
    /\ IsFiniteSet(CachedPools) /\ IsFiniteSet(Openers)
    /\ Cardinality(CachedPools) \in Nat /\ Cardinality(Openers) \in Nat
    /\ Charged \in Nat
<1>1. IsFiniteSet(Sessions \X Databases)
    BY FS_Product, ConstantsAssumption
<1>2. CachedPools \in SUBSET (Sessions \X Databases) /\ Openers \in SUBSET Threads
    BY DEF CachedPools, Openers
<1>3. IsFiniteSet(CachedPools) /\ IsFiniteSet(Openers)
    BY <1>1, <1>2, FS_Subset, ConstantsAssumption
<1>4. Cardinality(CachedPools) \in Nat /\ Cardinality(Openers) \in Nat
    BY <1>3, FS_CardinalityType
<1> QED BY <1>3, <1>4 DEF Charged

LEMMA SlotsFiniteNext ==
    /\ IsFiniteSet(CachedPools)' /\ IsFiniteSet(Openers)'
    /\ (Cardinality(CachedPools) \in Nat)' /\ (Cardinality(Openers) \in Nat)'
BY SlotsFinite, PTL

\* The slots of the cached pools, and of the requests, after a step.
LEMMA SamePools ==
    ASSUME \A s \in Sessions : DOMAIN uc'[s].pools = DOMAIN uc[s].pools
    PROVE  CachedPools' = CachedPools
BY DEF CachedPools

LEMMA SameHolders ==
    ASSUME \A u \in Threads : Holds(u)' <=> Holds(u)
    PROVE  Openers' = Openers
BY DEF Openers, Holds

LEMMA OneHolderLess ==
    ASSUME NEW t \in Threads, ~Holds(t)',
           \A u \in Threads : u # t => (Holds(u)' <=> Holds(u))
    PROVE  Openers' = Openers \ {t}
BY DEF Openers, Holds

-----------------------------------------------------------------------------
\* The kinds of steps.
LEMMA Quiet ==
    ASSUME Accounted, budget' = budget,
           CachedPools' = CachedPools, Openers' = Openers
    PROVE  Accounted'
BY DEF Accounted, Charged

\* tryAcquire: a request takes a slot when one is left (ConnFor).
LEMMA Takes ==
    ASSUME Types, Accounted, ~Spent, Acquire,
           NEW t \in Threads, t \notin Openers, Openers' = Openers \cup {t},
           CachedPools' = CachedPools
    PROVE  Accounted'
<1>1. Cardinality(Openers') = Cardinality(Openers) + 1
    BY SlotsFinite, FS_AddElement
<1>2. budget \in Nat /\ PoolCap \in Nat
    BY ConstantsAssumption DEF Types, TypeOK
<1> QED BY <1>1, <1>2, SlotsFinite DEF Accounted, Charged, Spent, Acquire

\* The dial is done and its pool cached: its slot is the pool's.
LEMMA Settles ==
    ASSUME Accounted, budget' = budget,
           NEW t \in Openers, Openers' = Openers \ {t},
           NEW p, p \notin CachedPools, CachedPools' = CachedPools \cup {p}
    PROVE  Accounted'
<1>1. Cardinality(Openers') = Cardinality(Openers) - 1
    BY SlotsFinite, FS_RemoveElement
<1>2. Cardinality(CachedPools') = Cardinality(CachedPools) + 1
    BY SlotsFinite, FS_AddElement
<1> QED BY <1>1, <1>2, SlotsFinite DEF Accounted, Charged

\* release(1): the dial failed, or its pool is discarded.
LEMMA GivesUp ==
    ASSUME Types, Accounted, Release(1),
           NEW t \in Openers, Openers' = Openers \ {t}, CachedPools' = CachedPools
    PROVE  Accounted'
<1>1. Cardinality(Openers') = Cardinality(Openers) - 1
    BY SlotsFinite, FS_RemoveElement
<1>2. budget \in Nat /\ PoolCap \in Nat
    BY ConstantsAssumption DEF Types, TypeOK
<1>3. (Cardinality(Openers) \in Nat)'
    BY SlotsFiniteNext
<1> QED BY <1>1, <1>2, <1>3, SlotsFinite DEF Accounted, Charged, Release

\* release(1): a cached pool is evicted, or closed by ClosePool.
LEMMA Evicted ==
    ASSUME Types, Accounted, Release(1),
           NEW p \in CachedPools, CachedPools' = CachedPools \ {p},
           Openers' = Openers
    PROVE  Accounted'
<1>1. Cardinality(CachedPools') = Cardinality(CachedPools) - 1
    BY SlotsFinite, FS_RemoveElement
<1>2. budget \in Nat /\ PoolCap \in Nat
    BY ConstantsAssumption DEF Types, TypeOK
<1>3. (Cardinality(CachedPools) \in Nat)'
    BY SlotsFiniteNext
<1> QED BY <1>1, <1>2, <1>3, SlotsFinite DEF Accounted, Charged, Release

\* release(len(pools)): Close gives back what the session has.
LEMMA GivesBackAll ==
    ASSUME Types, Accounted, NEW s \in Sessions,
           Release(Cardinality(DOMAIN uc[s].pools)),
           CachedPools' = CachedPools \ ({s} \X DOMAIN uc[s].pools),
           Openers' = Openers
    PROVE  Accounted'
<1> DEFINE D == DOMAIN uc[s].pools
           P == {s} \X D
<1>1. D \subseteq Databases
    <2>1. uc[s].pools \in Pools /\ uc[s].server \in Conns
        BY DEF Types, TypeOK, Contexts
    <2> QED BY <2>1, PoolsClosed, ConstantsAssumption
<1>2. IsFiniteSet(D) /\ Cardinality(D) \in Nat
    BY <1>1, FS_Subset, FS_CardinalityType, ConstantsAssumption
<1>3. Cardinality(P) = Cardinality(D)
    <2>1. IsFiniteSet({s}) /\ Cardinality({s}) = 1
        BY FS_Singleton
    <2>2. Cardinality(P) = Cardinality({s}) * Cardinality(D)
        BY <1>2, <2>1, FS_Product
    <2> QED BY <1>2, <2>1, <2>2
<1>4. CachedPools \cap P = P
    BY <1>1 DEF CachedPools
<1>5. Cardinality(CachedPools') = Cardinality(CachedPools) - Cardinality(D)
    <2>1. CachedPools' = CachedPools \ P
        OBVIOUS
    <2> HIDE DEF P
    <2>2. Cardinality(CachedPools \ P)
            = Cardinality(CachedPools) - Cardinality(CachedPools \cap P)
        BY SlotsFinite, FS_Difference
    <2> QED BY <1>3, <1>4, <2>1, <2>2
<1>6. budget \in Nat /\ PoolCap \in Nat
    BY ConstantsAssumption DEF Types, TypeOK
<1>7. (Cardinality(CachedPools) \in Nat)'
    BY SlotsFiniteNext
<1> HIDE DEF D
<1> QED BY <1>2, <1>5, <1>6, <1>7, SlotsFinite DEF Accounted, Charged, Release, D

-----------------------------------------------------------------------------
\* The steps of ConnFor that move no slot.
LEMMA ConnQuiet ==
    ASSUME Types, Accounted, NEW t \in Threads,
           \/ ConnServer(t) \/ ConnClosed(t) \/ ConnCached(t) \/ ConnWait(t)
           \/ ConnSpent(t) \/ ConnRefused(t) \/ Dial(t)
    PROVE  Accounted'
<1>0. /\ TaskTypes /\ ContextTypes
      /\ Owner[t] \in Sessions /\ uc[Owner[t]] \in Contexts
      /\ \A u \in Threads : task[u] \in Tasks
    BY TypesParts, OwnerTypes DEF TaskTypes
<1>1. budget' = budget
    BY DEF ConnServer, ConnClosed, ConnCached, ConnWait, ConnSpent, ConnRefused, Dial
<1>2. \A s \in Sessions : DOMAIN uc'[s].pools = DOMAIN uc[s].pools
    BY <1>0 DEF ConnServer, ConnClosed, ConnCached, ConnWait, ConnSpent,
                ConnRefused, Dial, ContextTypes, Contexts
<1>3. \A u \in Threads : Holds(u)' <=> Holds(u)
    <2>1. \A u \in Threads : u # t => task'[u] = task[u]
        BY <1>0 DEF ConnServer, ConnClosed, ConnCached, ConnWait, ConnSpent,
                    ConnRefused, Dial, Done, Goto, TaskTypes
    <2>2. CASE Dial(t)
        <3>1. task'[t].pc \in {"dialled", "failed"} /\ task[t].pc = "dial"
            BY <1>0, <2>2 DEF Dial, At, Goto, TaskTypes, Tasks
        <3> QED BY <2>1, <3>1 DEF Holds, Dialling
    <2>3. CASE ~Dial(t)
        <3>1. task[t].pc \in {"server", "pool", "evict", "retry"}
            BY <2>3 DEF ConnServer, ConnClosed, ConnCached, ConnWait, ConnSpent,
                        ConnRefused, Misses, At
        <3>2. task'[t].pc \in {"idle", "got", "wait", "evict"}
            <4>1. CASE Done(t)
                BY <1>0, <4>1 DEF Done, Idle, TaskTypes
            <4>2. CASE \E step \in {"wait", "evict"} : Goto(t, step)
                BY <1>0, <4>2 DEF Goto, TaskTypes, Tasks
            <4>3. CASE \E c : task' = [task EXCEPT ![t].pc = "got", ![t].conn = c]
                BY <1>0, <4>3 DEF TaskTypes, Tasks
            <4> QED BY <2>3, <4>1, <4>2, <4>3 DEF ConnServer, ConnClosed,
                        ConnCached, ConnWait, ConnSpent, ConnRefused
        <3> QED BY <2>1, <3>1, <3>2 DEF Holds, Dialling
    <2> QED BY <2>2, <2>3
<1> QED BY <1>1, <1>2, <1>3, SamePools, SameHolders, Quiet

\* The steps of ConnFor that take a slot, one after an eviction.
LEMMA ConnTakes ==
    ASSUME Types, Accounted, NEW t \in Threads, ConnAcquire(t) \/ ConnRetry(t)
    PROVE  Accounted'
<1>0. /\ TaskTypes /\ ContextTypes
      /\ Owner[t] \in Sessions /\ uc[Owner[t]] \in Contexts
      /\ \A u \in Threads : task[u] \in Tasks
    BY TypesParts, OwnerTypes DEF TaskTypes
<1>1. ~Spent /\ Acquire /\ StartDial(t, Owner[t]) /\ task[t].pc \in {"pool", "retry"}
    BY DEF ConnAcquire, ConnRetry, Misses, At
<1>2. \A s \in Sessions : DOMAIN uc'[s].pools = DOMAIN uc[s].pools
    BY <1>0, <1>1 DEF StartDial, ContextTypes, Contexts
<1>3. Openers' = Openers \cup {t} /\ t \notin Openers
    <2>1. /\ task'[t].pc = "dial"
          /\ \A u \in Threads : u # t => task'[u] = task[u]
        BY <1>0, <1>1 DEF StartDial, TaskTypes, Tasks
    <2> QED BY <1>1, <2>1 DEF Openers, Dialling
<1> QED BY <1>1, <1>2, <1>3, SamePools, Takes

\* The pools of a session without the one for db.
LEMMA DropCounts ==
    ASSUME ContextTypes, NEW s \in Sessions, NEW db \in DOMAIN uc[s].pools,
           uc' = [uc EXCEPT ![s] = Drop(uc[s], db)]
    PROVE  /\ <<s, db>> \in CachedPools
           /\ CachedPools' = CachedPools \ {<<s, db>>}
<1>1. /\ uc[s] \in Contexts /\ Ordered(uc[s]) /\ uc[s].pools \in Pools
      /\ uc[s].server \in Conns
    BY DEF ContextTypes, Contexts
<1>2. db \in Databases
    BY <1>1, PoolsClosed, ConstantsAssumption
<1>3. /\ DOMAIN uc'[s].pools = DOMAIN uc[s].pools \ {db}
      /\ \A r \in Sessions : r # s => uc'[r] = uc[r]
    <2>1. /\ uc'[s] = Drop(uc[s], db)
          /\ \A r \in Sessions : r # s => uc'[r] = uc[r]
        BY DEF ContextTypes
    <2>2. Drop(uc[s], db).pools = Without(uc[s].pools, db)
        BY <1>1, <1>2, DropOrdered
    <2> QED BY <2>1, <2>2 DEF Without
<1> QED BY <1>2, <1>3 DEF CachedPools

\* The steps of ConnFor that give a slot back.
LEMMA ConnGives ==
    ASSUME Types, Accounted, NEW t \in Threads,
           ConnEvict(t) \/ ConnFailed(t) \/ ConnDiscard(t)
    PROVE  Accounted'
<1>0. /\ TaskTypes /\ ContextTypes
      /\ Owner[t] \in Sessions /\ uc[Owner[t]] \in Contexts
      /\ \A u \in Threads : task[u] \in Tasks
    BY TypesParts, OwnerTypes DEF TaskTypes
<1>1. CASE ConnEvict(t)
    <2>1. PICK db \in DOMAIN uc[Owner[t]].pools :
              uc' = [uc EXCEPT ![Owner[t]] = Drop(uc[Owner[t]], db)]
        BY <1>0, <1>1 DEF ConnEvict, Evictable, ContextTypes
    <2>2. \A u \in Threads : Holds(u)' <=> Holds(u)
        BY <1>0, <1>1 DEF ConnEvict, At, Goto, Holds, TaskTypes, Tasks, Dialling
    <2>3. Release(1)
        BY <1>1 DEF ConnEvict
    <2> QED BY <1>0, <2>1, <2>2, <2>3, DropCounts, SameHolders, Evicted
<1>2. CASE ConnFailed(t)
    <2>1. \A s \in Sessions : DOMAIN uc'[s].pools = DOMAIN uc[s].pools
        BY <1>0, <1>2 DEF ConnFailed, ContextTypes, Contexts
    <2>2. /\ task'[t].pc = "idle" /\ task[t].pc = "failed"
          /\ \A u \in Threads : u # t =>
                \/ task'[u] = task[u]
                \/ task[u].pc = "wait" /\ task'[u].pc = "pool"
        BY <1>0, <1>2 DEF ConnFailed, At, Wakes, Idle, TaskTypes, Tasks
    <2>3. t \in Openers /\ Openers' = Openers \ {t}
        BY <2>2, OneHolderLess DEF Holds, Dialling, Openers
    <2>4. Release(1)
        BY <1>2 DEF ConnFailed
    <2> QED BY <2>1, <2>3, <2>4, SamePools, GivesUp
<1>3. CASE ConnDiscard(t)
    <2>1. \A s \in Sessions : DOMAIN uc'[s].pools = DOMAIN uc[s].pools
        BY <1>3 DEF ConnDiscard
    <2>2. /\ task'[t].pc \in {"idle", "pool"} /\ task[t].pc = "discard"
          /\ \A u \in Threads : u # t => task'[u] = task[u]
        BY <1>0, <1>3 DEF ConnDiscard, At, Idle, TaskTypes, Tasks
    <2>3. t \in Openers /\ Openers' = Openers \ {t}
        BY <2>2, OneHolderLess DEF Holds, Dialling, Openers
    <2>4. Release(1)
        BY <1>3 DEF ConnDiscard
    <2> QED BY <2>1, <2>3, <2>4, SamePools, GivesUp
<1> QED BY <1>1, <1>2, <1>3

\* When t's dial ends, only requests that wait move with it.
LEMMA WakesOne ==
    ASSUME TaskTypes, NEW t \in Threads, NEW v \in Tasks, v.pc # "wait",
           NEW s, NEW db, task' = Wakes([task EXCEPT ![t] = v], s, db)
    PROVE  /\ task'[t].pc = v.pc
           /\ \A u \in Threads : u # t =>
                 \/ task'[u] = task[u]
                 \/ task[u].pc = "wait" /\ task'[u].pc = "pool"
BY DEF TaskTypes, Wakes, Tasks

\* The end of a dial: by Flights the session had no pool for the database,
\* so a pool that is cached is one more.
LEMMA ConnSettles ==
    ASSUME Types, Flights, Accounted, NEW t \in Threads, ConnDialled(t)
    PROVE  Accounted'
<1> DEFINE s == Owner[t]
           db == task[t].db
<1>0. /\ TaskTypes /\ ContextTypes
      /\ s \in Sessions /\ uc[s] \in Contexts
      /\ \A u \in Threads : task[u] \in Tasks
      /\ task[t].pc = "dialled" /\ db \in Databases
      /\ budget' = budget
    BY TypesParts, OwnerTypes DEF TaskTypes, Busy, ConnDialled, At
<1>1. CASE uc[s].closed \/ task[t].stale
    <2>1. \A r \in Sessions : DOMAIN uc'[r].pools = DOMAIN uc[r].pools
        <3>1. uc' = [uc EXCEPT ![s] = [uc[s] EXCEPT !.opening = uc[s].opening \ {db}]]
            BY <1>0, <1>1 DEF ConnDialled, ContextTypes
        <3> QED BY <1>0, <3>1 DEF ContextTypes, Contexts
    <2>2. /\ task'[t].pc = "discard"
          /\ \A u \in Threads : u # t =>
                \/ task'[u] = task[u]
                \/ task[u].pc = "wait" /\ task'[u].pc = "pool"
        <3> DEFINE v == [task[t] EXCEPT !.pc = "discard",
                            !.after = IF uc[s].closed THEN "idle" ELSE "pool"]
        <3>1. v \in Tasks /\ v.pc = "discard"
            BY <1>0 DEF Tasks, Steps
        <3>2. task' = Wakes([task EXCEPT ![t] = v], s, db)
            BY <1>0, <1>1 DEF ConnDialled, TaskTypes, Tasks
        <3> HIDE DEF v
        <3> QED BY <1>0, <3>1, <3>2, WakesOne
    <2>3. \A u \in Threads : Holds(u)' <=> Holds(u)
        BY <1>0, <2>2 DEF Holds, Dialling
    <2> QED BY <1>0, <2>1, <2>3, SamePools, SameHolders, Quiet
<1>2. CASE ~(uc[s].closed \/ task[t].stale)
    <2>1. /\ DOMAIN uc'[s].pools = DOMAIN uc[s].pools \cup {db}
          /\ \A r \in Sessions : r # s => uc'[r] = uc[r]
        <3> DEFINE q == [d \in DOMAIN uc[s].pools \cup {db} |->
                           IF d = db THEN task[t].conn ELSE uc[s].pools[d]]
                   use == Used(uc[s].poolUse, db)
        <3>1. uc' = [uc EXCEPT ![s] = [uc[s] EXCEPT !.opening = uc[s].opening \ {db},
                                                   !.pools = q, !.poolUse = use]]
            BY <1>0, <1>2 DEF ConnDialled, ContextTypes, Contexts
        <3>2. DOMAIN q = DOMAIN uc[s].pools \cup {db}
            OBVIOUS
        <3> HIDE DEF q, use
        <3> QED BY <1>0, <3>1, <3>2 DEF ContextTypes, Contexts
    <2>2. /\ <<s, db>> \notin CachedPools
          /\ CachedPools' = CachedPools \cup {<<s, db>>}
        <3>1. db \notin DOMAIN uc[s].pools
            BY <1>0 DEF Flights, Flies, Dialling
        <3> QED BY <1>0, <2>1, <3>1 DEF CachedPools
    <2>3. /\ task'[t].pc = "got"
          /\ \A u \in Threads : u # t =>
                \/ task'[u] = task[u]
                \/ task[u].pc = "wait" /\ task'[u].pc = "pool"
        <3> DEFINE v == [task[t] EXCEPT !.pc = "got"]
        <3>1. v \in Tasks /\ v.pc = "got"
            BY <1>0 DEF Tasks, Steps
        <3>2. task' = Wakes([task EXCEPT ![t] = v], s, db)
            BY <1>0, <1>2 DEF ConnDialled, TaskTypes, Tasks
        <3> HIDE DEF v
        <3> QED BY <1>0, <3>1, <3>2, WakesOne
    <2>4. t \in Openers /\ Openers' = Openers \ {t}
        BY <1>0, <2>3, OneHolderLess DEF Holds, Dialling, Openers
    <2> QED BY <1>0, <2>2, <2>4, Settles
<1> QED BY <1>1, <1>2

-----------------------------------------------------------------------------
\* ClosePool gives the slot of a cached pool back, and moves none otherwise.
LEMMA ClosePoolGives ==
    ASSUME Types, Accounted, NEW t \in Threads, NEW v \in Tasks,
           task[t].pc \in {"close", "maintClose"}, v.pc \in {"idle", "rebind"},
           ClosePool(t, [task EXCEPT ![t] = v])
    PROVE  Accounted'
<1>0. /\ TaskTypes /\ ContextTypes
      /\ Owner[t] \in Sessions
      /\ \A u \in Threads : task[u] \in Tasks
    BY TypesParts, OwnerTypes DEF TaskTypes
<1>1. \A u \in Threads : Holds(u)' <=> Holds(u)
    <2>1. ASSUME NEW u \in Threads
          PROVE  Holds(u)' <=> Holds(u)
        <3>1. CASE u = t
            <4>1. task'[u].pc = v.pc
                BY <1>0, <3>1 DEF ClosePool, TaskTypes, Dialling
            <4> QED BY <3>1, <4>1 DEF Holds, Dialling
        <3>2. CASE u # t
            <4>1. task'[u].pc = task[u].pc
                BY <1>0, <3>2 DEF ClosePool, TaskTypes, Tasks
            <4> QED BY <4>1 DEF Holds
        <3> QED BY <3>1, <3>2
    <2> QED BY <2>1
<1>2. CASE task[t].db \in DOMAIN uc[Owner[t]].pools
    <2>1. /\ uc' = [uc EXCEPT ![Owner[t]] = Drop(uc[Owner[t]], task[t].db)]
          /\ Release(1)
        BY <1>0, <1>2 DEF ClosePool, ContextTypes
    <2> QED BY <1>0, <1>1, <1>2, <2>1, DropCounts, SameHolders, Evicted
<1>3. CASE task[t].db \notin DOMAIN uc[Owner[t]].pools
    BY <1>1, <1>3, SamePools, SameHolders, Quiet DEF ClosePool
<1> QED BY <1>2, <1>3

\* Close gives back all the slots of the session's cached pools.
LEMMA CloseGives ==
    ASSUME Types, Accounted, NEW s \in Sessions, CloseSession(s)
    PROVE  Accounted'
<1>0. ContextTypes /\ uc[s] \in Contexts
    BY TypesParts DEF ContextTypes
<1>1. /\ DOMAIN uc'[s].pools = {}
      /\ \A r \in Sessions : r # s => uc'[r] = uc[r]
    <2> DEFINE w == [uc[s] EXCEPT !.closed = TRUE, !.pools = <<>>, !.poolUse = <<>>]
    <2>1. uc' = [uc EXCEPT ![s] = w]
        BY <1>0 DEF CloseSession, ContextTypes
    <2>2. w.pools = <<>>
        BY <1>0 DEF Contexts
    <2> HIDE DEF w
    <2> QED BY <1>0, <2>1, <2>2, NoPools DEF ContextTypes
<1>2. CachedPools' = CachedPools \ ({s} \X DOMAIN uc[s].pools)
    BY <1>1 DEF CachedPools
<1>3. Openers' = Openers /\ Release(Cardinality(DOMAIN uc[s].pools))
    BY DEF CloseSession, Openers
<1> QED BY <1>2, <1>3, GivesBackAll

\* The steps of a request outside ConnFor, and of other clients.
LEMMA OtherQuiet ==
    ASSUME Types, Accounted,
           \/ \E t \in Threads :
                 \/ Query(t) \/ QueryDone(t) \/ DropExec(t)
                 \/ MaintBegin(t) \/ MaintDial(t) \/ MaintDrop(t) \/ MaintFail(t)
                 \/ Rebind(t) \/ CloseOld(t) \/ Request(t)
           \/ \E db \in Databases : CreateDatabase(db)
           \/ UNCHANGED vars
    PROVE  Accounted'
<1>0. /\ TaskTypes /\ ContextTypes
      /\ \A u \in Threads : Owner[u] \in Sessions
      /\ \A u \in Threads : task[u] \in Tasks
    BY TypesParts, ConstantsAssumption DEF TaskTypes
<1>1. CASE \/ \E db \in Databases : CreateDatabase(db)
           \/ UNCHANGED vars
    <2>1. CachedPools' = CachedPools /\ Openers' = Openers /\ budget' = budget
        BY <1>1 DEF CreateDatabase, vars, CachedPools, Openers
    <2> QED BY <2>1, Quiet
<1>2. ASSUME NEW t \in Threads,
             \/ Query(t) \/ QueryDone(t) \/ DropExec(t)
             \/ MaintBegin(t) \/ MaintDial(t) \/ MaintDrop(t) \/ MaintFail(t)
             \/ Rebind(t) \/ CloseOld(t) \/ Request(t)
      PROVE  Accounted'
    <2>1. budget' = budget
        BY <1>2 DEF Query, QueryDone, DropExec, MaintBegin, MaintDial, MaintDrop,
                    MaintFail, Rebind, CloseOld, Request, ConnGivesUp, ConnBegin, DropBegin
    <2>2. \A s \in Sessions : DOMAIN uc'[s].pools = DOMAIN uc[s].pools
        <3>1. CASE Rebind(t)
            BY <1>0, <3>1 DEF Rebind, ContextTypes, Contexts
        <3>2. CASE ~Rebind(t)
            BY <1>2, <3>2 DEF Query, QueryDone, DropExec, MaintBegin, MaintDial,
                    MaintDrop, MaintFail, CloseOld, Request, ConnGivesUp, ConnBegin,
                    DropBegin
        <3> QED BY <3>1, <3>2
    <2>3. \A u \in Threads : u # t => task'[u] = task[u]
        BY <1>0, <1>2 DEF Query, QueryDone, DropExec, MaintBegin, MaintDial, MaintDrop,
                    MaintFail, Rebind, CloseOld, Request, ConnGivesUp, ConnBegin,
                    DropBegin, Goto, Done, TaskTypes
    <2>4. ~Holds(t)
        BY <1>2 DEF Query, QueryDone, DropExec, MaintBegin, MaintDial, MaintDrop,
                    MaintFail, Rebind, CloseOld, Request, ConnGivesUp, ConnBegin,
                    DropBegin, At, Holds, Dialling
    <2>5. ~Holds(t)'
        <3>1. CASE Done(t)
            BY <1>0, <3>1 DEF Done, Idle, TaskTypes, Holds, Dialling
        <3>2. CASE \E step \in {"busy", "close", "maintDial", "maintFail", "maintClose"} :
                        Goto(t, step)
            BY <1>0, <3>2 DEF Goto, TaskTypes, Tasks, Holds, Dialling
        <3>3. CASE MaintDial(t)
            BY <1>0, <3>3 DEF MaintDial, Done, Idle, TaskTypes, Tasks, Holds, Dialling
        <3>4. CASE Rebind(t)
            BY <1>0, <3>4 DEF Rebind, TaskTypes, Tasks, Holds, Dialling
        <3>5. CASE \E db \in Databases : ConnBegin(t, db)
            BY <1>0, <3>5 DEF ConnBegin, TaskTypes, Tasks, Holds, Dialling
        <3>6. CASE \E db \in Droppable : DropBegin(t, db)
            BY <1>0, <3>6 DEF DropBegin, TaskTypes, Tasks, Holds, Dialling
        <3> QED BY <1>2, <3>1, <3>2, <3>3, <3>4, <3>5, <3>6 DEF Query, QueryDone,
                    DropExec, MaintBegin, MaintDrop, MaintFail, CloseOld, Request, ConnGivesUp
    <2>6. \A u \in Threads : Holds(u)' <=> Holds(u)
        BY <2>3, <2>4, <2>5 DEF Holds
    <2> QED BY <2>1, <2>2, <2>6, SamePools, SameHolders, Quiet
<1> QED BY <1>1, <1>2

-----------------------------------------------------------------------------
LEMMA AccountedNext ==
    ASSUME Types, Flights, Accounted, [Next]_vars
    PROVE  Accounted'
<1>1. ASSUME NEW t \in Threads, DropClosePool(t) \/ MaintClosePool(t)
      PROVE  Accounted'
    <2>0. task \in [Threads -> Tasks]
        BY DEF Types, TypeOK
    <2>1. CASE DropClosePool(t)
        <3>1. Idle \in Tasks /\ Idle.pc = "idle"
            BY DEF Idle, Tasks, Steps
        <3> QED BY <2>1, <3>1, ClosePoolGives DEF DropClosePool, At
    <2>2. CASE MaintClosePool(t)
        <3> DEFINE v == [task[t] EXCEPT !.pc = "rebind"]
        <3>1. v \in Tasks /\ v.pc = "rebind"
            BY <2>0 DEF Tasks, Steps
        <3>2. ClosePool(t, [task EXCEPT ![t] = v]) /\ task[t].pc = "maintClose"
            BY <2>2 DEF MaintClosePool, At
        <3> HIDE DEF v
        <3> QED BY <3>1, <3>2, ClosePoolGives
    <2> QED BY <1>1, <2>1, <2>2
<1>2. ASSUME NEW t \in Threads, ThreadStep(t) PROVE Accounted'
    BY <1>1, <1>2, ConnQuiet, ConnTakes, ConnGives, ConnSettles, OtherQuiet
       DEF ThreadStep
<1>3. ASSUME NEW t \in Threads, Request(t) PROVE Accounted'
    BY <1>3, OtherQuiet
<1> QED BY <1>2, <1>3, CloseGives, OtherQuiet DEF Next

LEMMA AccountedInit ==
    ASSUME Init
    PROVE  Accounted
<1>1. budget = 0 /\ \A t \in Threads : task[t].pc = "idle"
    BY DEF Init, Idle
<1>2. \A s \in Sessions : uc[s].pools = <<>>
    BY DEF Init
<1>3. CachedPools = {} /\ Openers = {}
    BY <1>1, <1>2, NoPools DEF CachedPools, Openers, Dialling
<1> QED BY <1>1, <1>3, FS_EmptySet, ConstantsAssumption DEF Accounted, Charged

LEMMA AlwaysAccounted == Spec => []Accounted
<1>1. Init => Types /\ Flights /\ Accounted
    <2>1. Init => \A t \in Threads : task[t].pc = "idle"
        BY DEF Init, Idle
    <2> QED BY <2>1, TypesInit, AccountedInit DEF Flights, Flies, Evicts, Dialling
<1>2. Types /\ Flights /\ Accounted /\ [Next]_vars => (Types /\ Flights /\ Accounted)'
    BY TypesNext, FlightsNext, AccountedNext
<1> QED BY <1>1, <1>2, PTL DEF Spec

\* PoolBudget.n counts what takes a slot, on every path of ConnFor,
\* dropDatabase and Close: none is lost, none given back twice.
THEOREM BudgetKept == Spec => []BudgetExact
<1>1. Accounted => BudgetExact
    BY DEF Accounted, BudgetExact
<1> QED BY <1>1, AlwaysAccounted, PTL

\* pool_cap is never passed, whatever sessions open, evict, drop and close.
THEOREM CapKept == Spec => []PoolsWithinCap
<1>1. Accounted => PoolsWithinCap
    BY DEF Accounted, PoolsWithinCap
<1> QED BY <1>1, AlwaysAccounted, PTL
=============================================================================
