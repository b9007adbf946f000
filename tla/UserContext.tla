---------------------------- MODULE UserContext -----------------------------
(***************************************************************************)
(* The pools of the logged-in sessions (internal/server/handlers/          *)
(* context.go, and dropDatabase of operations.go): per session the login   *)
(* connection, the cache of per-database pools with its singleflight and   *)
(* its generations, and the budget of pools all sessions share.            *)
(*                                                                         *)
(* One action is one critical section of uc.mu, or one operation outside   *)
(* it: a dial, a statement, a Close, a lock-free load.  A section that     *)
(* takes the budget's own lock more than once is one action per taking,    *)
(* and holds uc.mu in between.                                             *)
(*                                                                         *)
(* Generations are compared for equality only, with the one read when the  *)
(* dial began; here ClosePool marks the dials it makes stale.              *)
(***************************************************************************)
EXTENDS Integers, FiniteSets

CONSTANTS
    Sessions,          \* logged-in sessions, each with one UserContext
    Threads,           \* request goroutines
    Owner,             \* Owner[t]: the session whose requests thread t serves
    Databases,         \* database names
    Login,             \* the database every session logs in to
    Droppable,         \* the databases requests drop
    Maintenance,       \* MaintenanceDatabases of the dialect
    CanDropConnected,  \* the dialect's CanDropConnectedDatabase
    PoolCap,           \* pool_cap; 0 is unlimited
    Conns,             \* names for connections; a closed one nobody holds is
                       \* free to name another
    NoConn, NoDb, NoThread

ASSUME ConstantsAssumption ==
    /\ Owner \in [Threads -> Sessions]
    /\ Login \in Databases /\ NoDb \notin Databases
    /\ Droppable \subseteq Databases /\ Maintenance \subseteq Databases
    /\ CanDropConnected \in BOOLEAN
    /\ PoolCap \in Nat
    /\ IsFiniteSet(Conns) /\ Cardinality(Conns) >= Cardinality(Sessions)
    /\ NoConn \notin Conns
    /\ NoThread \notin Threads
    /\ IsFiniteSet(Sessions) /\ Sessions # {}
    /\ IsFiniteSet(Threads) /\ IsFiniteSet(Databases)

VARIABLES
    uc,       \* per session: closed, mu (the thread in a section that spans
              \* steps), server, pools, poolUse, opening
    task,     \* per thread: pc, db, conn, stale, after
    budget,   \* PoolBudget.n
    conns,    \* per connection name: whether it is open, its database and the
              \* session it was opened for
    dbs,      \* the databases the server has
    gone      \* history, per session: the databases it has dropped that nobody
              \* has created since

vars == <<uc, task, budget, conns, dbs, gone>>

Idle == [pc |-> "idle", db |-> NoDb, conn |-> NoConn,
         stale |-> FALSE, after |-> "idle"]

Dialling == {"dial", "failed", "dialled"}
Steps == Dialling \cup
    {"idle", "server", "pool", "wait", "evict", "retry", "discard", "got",
     "busy", "drop", "close", "maint", "maintDial", "maintDrop", "maintFail",
     "maintClose", "rebind", "closeOld"}

\* An assignment of a connection to each of some databases.
Pools == UNION {[D -> Conns] : D \in SUBSET Databases}

\* poolUse orders the pools by their last use: the ones used since each one was.
Uses == UNION {[D -> SUBSET Databases] : D \in SUBSET Databases}

Contexts ==
    [closed : BOOLEAN, mu : Threads \cup {NoThread}, server : Conns,
     pools : Pools, poolUse : Uses, opening : SUBSET Databases]

Tasks ==
    [pc : Steps, db : Databases \cup {NoDb}, conn : Conns \cup {NoConn},
     stale : BOOLEAN, after : {"idle", "pool"}]

\* Of two pools, exactly one was used since the other was.
Ordered(u) ==
    /\ DOMAIN u.poolUse = DOMAIN u.pools
    /\ \A d, e \in DOMAIN u.pools :
          d # e => (d \in u.poolUse[e] <=> e \notin u.poolUse[d])

\* The types, and that the cached pools are ordered by their use, whichever
\* way they are taken out of the cache.
TypeOK ==
    /\ uc \in [Sessions -> Contexts]
    /\ task \in [Threads -> Tasks]
    /\ budget \in Nat
    /\ conns \in [Conns -> [open : BOOLEAN, db : Databases, owner : Sessions]]
    /\ dbs \subseteq Databases
    /\ gone \in [Sessions -> SUBSET Databases]
    /\ \A s \in Sessions : Ordered(uc[s])

Init ==
    \E login \in [Sessions -> Conns] :
        /\ \A s, r \in Sessions : login[s] = login[r] => s = r
        /\ uc = [s \in Sessions |->
                   [closed |-> FALSE, mu |-> NoThread, server |-> login[s],
                    pools |-> <<>>, poolUse |-> <<>>, opening |-> {}]]
        /\ task = [t \in Threads |-> Idle]
        /\ budget = 0
        /\ conns = [c \in Conns |->
                      [open |-> \E s \in Sessions : login[s] = c,
                       db |-> Login,
                       owner |-> IF \E s \in Sessions : login[s] = c
                                 THEN CHOOSE s \in Sessions : login[s] = c
                                 ELSE CHOOSE s \in Sessions : TRUE]]
        /\ dbs = Databases
        /\ gone = [s \in Sessions |-> {}]

-----------------------------------------------------------------------------
Cached(s)   == {uc[s].pools[db] : db \in DOMAIN uc[s].pools}
Unlocked(s) == uc[s].mu = NoThread

\* The connections nothing refers to any more.
Unnamed == {c \in Conns : /\ ~conns[c].open
                          /\ \A t \in Threads : task[t].conn # c
                          /\ \A s \in Sessions : uc[s].server # c}

Opened(c, db, s) ==
    conns' = [conns EXCEPT ![c] = [open |-> TRUE, db |-> db, owner |-> s]]
Closed(C) ==
    conns' = [c \in Conns |-> IF c \in C THEN [conns[c] EXCEPT !.open = FALSE]
                              ELSE conns[c]]

At(t, step)   == task[t].pc = step
Goto(t, step) == task' = [task EXCEPT ![t].pc = step]
Done(t)       == task' = [task EXCEPT ![t] = Idle]

\* touchPoolLocked
Used(use, db) ==
    [d \in DOMAIN use \cup {db} |-> IF d = db THEN {} ELSE use[d] \cup {db}]

\* The cache without the pool for db.
Without(pools, db) == [d \in DOMAIN pools \ {db} |-> pools[d]]
\* A mutation of Drop: the use is not forgotten.
DropKeepsUse(u, db) == [u EXCEPT !.pools = Without(@, db)]

Drop(u, db) == [u EXCEPT !.pools = Without(@, db),
                         !.poolUse = [d \in DOMAIN @ \ {db} |-> @[d] \ {db}]]

\* A mutation of Spent: one pool too many.
SpentLate == PoolCap > 0 /\ budget > PoolCap

\* PoolBudget.tryAcquire and release
Spent == PoolCap > 0 /\ budget >= PoolCap
Acquire == budget' = IF PoolCap > 0 THEN budget + 1 ELSE budget
Release(k) ==
    budget' = IF PoolCap = 0 THEN budget ELSE IF k > budget THEN 0 ELSE budget - k

-----------------------------------------------------------------------------
(***************************************************************************)
(* ConnFor.                                                                *)
(***************************************************************************)

\* The lock-free look at the login connection decides which path is taken.
ConnBegin(t, db) ==
    /\ At(t, "idle")
    /\ task' = [task EXCEPT ![t].db = db,
                   ![t].pc = IF conns[uc[Owner[t]].server].db = db
                             THEN "server" ELSE "pool"]
    /\ UNCHANGED <<uc, budget, conns, dbs, gone>>

ConnServer(t) ==
    LET s == Owner[t] IN
    /\ At(t, "server") /\ Unlocked(s)
    /\ IF uc[s].closed
       THEN Done(t)
       ELSE task' = [task EXCEPT ![t].pc = "got", ![t].conn = uc[s].server]
    /\ UNCHANGED <<uc, budget, conns, dbs, gone>>

\* The loop: the session is over; the pool is cached; somebody dials it.
ConnClosed(t) ==
    /\ At(t, "pool") /\ Unlocked(Owner[t])
    /\ uc[Owner[t]].closed
    /\ Done(t)
    /\ UNCHANGED <<uc, budget, conns, dbs, gone>>

ConnCached(t) ==
    LET s == Owner[t]  db == task[t].db IN
    /\ At(t, "pool") /\ Unlocked(s)
    /\ ~uc[s].closed /\ db \in DOMAIN uc[s].pools
    /\ uc' = [uc EXCEPT ![s].poolUse = Used(@, db)]
    /\ task' = [task EXCEPT ![t].pc = "got", ![t].conn = uc[s].pools[db]]
    /\ UNCHANGED <<budget, conns, dbs, gone>>

\* A mutation of Misses: no look at the dials under way.
MissesSingly(t) ==
    LET s == Owner[t] IN
    /\ At(t, "pool") /\ Unlocked(s) /\ ~uc[s].closed
    /\ task[t].db \notin DOMAIN uc[s].pools

\* Whether t has to open a pool of its own.
Misses(t) ==
    LET s == Owner[t] IN
    /\ At(t, "pool") /\ Unlocked(s) /\ ~uc[s].closed
    /\ task[t].db \notin DOMAIN uc[s].pools \cup uc[s].opening

ConnWait(t) ==
    LET s == Owner[t]  db == task[t].db IN
    /\ At(t, "pool") /\ Unlocked(s) /\ ~uc[s].closed
    /\ db \notin DOMAIN uc[s].pools /\ db \in uc[s].opening
    /\ Goto(t, "wait")
    /\ UNCHANGED <<uc, budget, conns, dbs, gone>>

\* ctx.Done while waiting; the channel is closed by ConnFailed and ConnDialled.
ConnGivesUp(t) ==
    /\ At(t, "wait")
    /\ Done(t)
    /\ UNCHANGED <<uc, budget, conns, dbs, gone>>

StartDial(t, s) ==
    /\ uc' = [uc EXCEPT ![s].opening = @ \cup {task[t].db}, ![s].mu = NoThread]
    /\ task' = [task EXCEPT ![t].pc = "dial", ![t].stale = FALSE]

ConnAcquire(t) ==
    /\ Misses(t) /\ ~Spent
    /\ Acquire
    /\ StartDial(t, Owner[t])
    /\ UNCHANGED <<conns, dbs, gone>>

ConnSpent(t) ==
    /\ Misses(t) /\ Spent
    /\ Goto(t, "evict")
    /\ uc' = [uc EXCEPT ![Owner[t]].mu = t]
    /\ UNCHANGED <<budget, conns, dbs, gone>>

\* evictIdlePoolLocked: of the pools of s with no connection checked out, the
\* one used least recently.
InUse(c)     == \E t \in Threads : At(t, "busy") /\ task[t].conn = c
Evictable(s) == {db \in DOMAIN uc[s].pools : ~InUse(uc[s].pools[db])}

ConnEvict(t) ==
    LET s == Owner[t] IN
    /\ At(t, "evict")
    /\ \E victim \in Evictable(s) :
          /\ Evictable(s) \ {victim} \subseteq uc[s].poolUse[victim]
          /\ Closed({uc[s].pools[victim]})
          /\ uc' = [uc EXCEPT ![s] = Drop(@, victim)]
    /\ Release(1)
    /\ Goto(t, "retry")
    /\ UNCHANGED <<dbs, gone>>

ConnRefused(t) ==
    LET s == Owner[t] IN
    /\ \/ At(t, "evict") /\ Evictable(s) = {}
       \/ At(t, "retry") /\ Spent
    /\ uc' = [uc EXCEPT ![s].mu = NoThread]
    /\ Done(t)
    /\ UNCHANGED <<budget, conns, dbs, gone>>

ConnRetry(t) ==
    /\ At(t, "retry") /\ ~Spent
    /\ Acquire
    /\ StartDial(t, Owner[t])
    /\ UNCHANGED <<conns, dbs, gone>>

\* driver.Open, outside the lock
Dial(t) ==
    /\ At(t, "dial")
    /\ \/ /\ task[t].db \in dbs
          /\ \E c \in Unnamed : /\ Opened(c, task[t].db, Owner[t])
                                /\ task' = [task EXCEPT ![t].pc = "dialled",
                                                        ![t].conn = c]
       \/ Goto(t, "failed") /\ UNCHANGED conns
    /\ UNCHANGED <<uc, budget, dbs, gone>>

\* delete(uc.opening, database) and close(ch): the waiters loop again.
Wakes(T, s, db) ==
    [u \in Threads |->
        IF T[u].pc = "wait" /\ Owner[u] = s /\ T[u].db = db
        THEN [T[u] EXCEPT !.pc = "pool"] ELSE T[u]]

\* A mutation of ConnFailed: the channel is not closed.
ConnFailedSilently(t) ==
    LET s == Owner[t]  db == task[t].db IN
    /\ At(t, "failed") /\ Unlocked(s)
    /\ uc' = [uc EXCEPT ![s].opening = @ \ {db}]
    /\ Done(t)
    /\ Release(1)
    /\ UNCHANGED <<conns, dbs, gone>>

ConnFailed(t) ==
    LET s == Owner[t]  db == task[t].db IN
    /\ At(t, "failed") /\ Unlocked(s)
    /\ uc' = [uc EXCEPT ![s].opening = @ \ {db}]
    /\ task' = Wakes([task EXCEPT ![t] = Idle], s, db)
    /\ Release(1)
    /\ UNCHANGED <<conns, dbs, gone>>

\* The fresh pool is cached, or not when the session ended or ClosePool ran.
ConnDialled(t) ==
    LET s == Owner[t]  db == task[t].db IN
    /\ At(t, "dialled") /\ Unlocked(s)
    /\ IF uc[s].closed \/ task[t].stale
       THEN /\ uc' = [uc EXCEPT ![s].opening = @ \ {db}]
            /\ task' = Wakes([task EXCEPT ![t].pc = "discard",
                                 ![t].after = IF uc[s].closed
                                              THEN "idle" ELSE "pool"], s, db)
       ELSE /\ uc' = [uc EXCEPT
                        ![s].opening = @ \ {db},
                        ![s].pools = [d \in DOMAIN @ \cup {db} |->
                                        IF d = db THEN task[t].conn ELSE @[d]],
                        ![s].poolUse = Used(@, db)]
            /\ task' = Wakes([task EXCEPT ![t].pc = "got"], s, db)
    /\ UNCHANGED <<budget, conns, dbs, gone>>

\* A mutation of ConnDiscard: the slot is kept.
ConnDiscardKeepsSlot(t) ==
    /\ At(t, "discard")
    /\ Closed({task[t].conn})
    /\ task' = [task EXCEPT ![t] = IF task[t].after = "idle" THEN Idle
                    ELSE [Idle EXCEPT !.pc = "pool", !.db = task[t].db]]
    /\ UNCHANGED <<uc, budget, dbs, gone>>

ConnDiscard(t) ==
    /\ At(t, "discard")
    /\ Closed({task[t].conn})
    /\ Release(1)
    /\ task' = [task EXCEPT ![t] = IF task[t].after = "idle" THEN Idle
                    ELSE [Idle EXCEPT !.pc = "pool", !.db = task[t].db]]
    /\ UNCHANGED <<uc, dbs, gone>>

-----------------------------------------------------------------------------
(***************************************************************************)
(* What a request does with its connection.                                *)
(***************************************************************************)
Query(t) ==
    /\ At(t, "got")
    /\ IF conns[task[t].conn].open THEN Goto(t, "busy") ELSE Done(t)
    /\ UNCHANGED <<uc, budget, conns, dbs, gone>>

QueryDone(t) ==
    /\ At(t, "busy")
    /\ Done(t)
    /\ UNCHANGED <<uc, budget, conns, dbs, gone>>

-----------------------------------------------------------------------------
(***************************************************************************)
(* dropDatabase.                                                           *)
(***************************************************************************)
DropBegin(t, db) ==
    LET server == uc[Owner[t]].server IN
    /\ At(t, "idle")
    /\ task' = [task EXCEPT ![t].db = db,
                   ![t].pc = IF CanDropConnected \/ conns[server].db # db
                             THEN "drop" ELSE "maint",
                   ![t].conn = IF CanDropConnected \/ conns[server].db # db
                               THEN server ELSE NoConn]
    /\ UNCHANGED <<uc, budget, conns, dbs, gone>>

\* The DROP runs on an open connection, or fails.
DropExec(t) ==
    /\ At(t, "drop")
    /\ \/ /\ conns[task[t].conn].open /\ task[t].db \in dbs
          /\ dbs' = dbs \ {task[t].db}
          /\ Goto(t, "close")
       \/ Done(t) /\ UNCHANGED dbs
    /\ UNCHANGED <<uc, budget, conns, gone>>

\* A mutation of ClosePool: without the generation.
ClosePoolOnly(t, T) ==
    LET s == Owner[t]  db == task[t].db IN
    /\ Unlocked(s)
    /\ task' = T
    /\ IF db \in DOMAIN uc[s].pools
       THEN /\ Closed({uc[s].pools[db]})
            /\ uc' = [uc EXCEPT ![s] = Drop(@, db)]
            /\ Release(1)
       ELSE UNCHANGED <<uc, conns, budget>>
    /\ gone' = [gone EXCEPT ![s] = @ \cup ({db} \ dbs)]

\* ClosePool
ClosePool(t, T) ==
    LET s == Owner[t]  db == task[t].db IN
    /\ Unlocked(s)
    /\ task' = [u \in Threads |->
                  IF T[u].pc \in Dialling /\ Owner[u] = s /\ T[u].db = db
                  THEN [T[u] EXCEPT !.stale = TRUE] ELSE T[u]]
    /\ IF db \in DOMAIN uc[s].pools
       THEN /\ Closed({uc[s].pools[db]})
            /\ uc' = [uc EXCEPT ![s] = Drop(@, db)]
            /\ Release(1)
       ELSE UNCHANGED <<uc, conns, budget>>
    /\ gone' = [gone EXCEPT ![s] = @ \cup ({db} \ dbs)]

DropClosePool(t) ==
    /\ At(t, "close")
    /\ ClosePool(t, [task EXCEPT ![t] = Idle])
    /\ UNCHANGED dbs

\* openMaintenanceConn: the parameters first, then a dial of a candidate.
MaintBegin(t) ==
    /\ At(t, "maint") /\ Unlocked(Owner[t])
    /\ IF uc[Owner[t]].closed THEN Done(t) ELSE Goto(t, "maintDial")
    /\ UNCHANGED <<uc, budget, conns, dbs, gone>>

MaintDial(t) ==
    /\ At(t, "maintDial")
    /\ \/ \E db \in (Maintenance \ {task[t].db}) \cap dbs : \E c \in Unnamed :
             /\ Opened(c, db, Owner[t])
             /\ task' = [task EXCEPT ![t].pc = "maintDrop", ![t].conn = c]
       \/ Done(t) /\ UNCHANGED conns
    /\ UNCHANGED <<uc, budget, dbs, gone>>

MaintDrop(t) ==
    /\ At(t, "maintDrop")
    /\ \/ /\ task[t].db \in dbs
          /\ dbs' = dbs \ {task[t].db}
          /\ Goto(t, "maintClose")
       \/ Goto(t, "maintFail") /\ UNCHANGED dbs
    /\ UNCHANGED <<uc, budget, conns, gone>>

MaintFail(t) ==
    /\ At(t, "maintFail")
    /\ Closed({task[t].conn})
    /\ Done(t)
    /\ UNCHANGED <<uc, budget, dbs, gone>>

MaintClosePool(t) ==
    /\ At(t, "maintClose")
    /\ ClosePool(t, [task EXCEPT ![t].pc = "rebind"])
    /\ UNCHANGED dbs

\* A mutation of Rebind: no look at the closed flag.
RebindBlindly(t) ==
    LET s == Owner[t] IN
    /\ At(t, "rebind") /\ Unlocked(s)
    /\ task' = [task EXCEPT ![t].pc = "closeOld", ![t].conn = uc[s].server]
    /\ uc' = [uc EXCEPT ![s].server = task[t].conn]
    /\ UNCHANGED <<budget, conns, dbs, gone>>

\* rebindServerConn, and the Close of the pool it leaves
Rebind(t) ==
    LET s == Owner[t] IN
    /\ At(t, "rebind") /\ Unlocked(s)
    /\ task' = [task EXCEPT ![t].pc = "closeOld",
                   ![t].conn = IF uc[s].closed THEN @ ELSE uc[s].server]
    /\ uc' = IF uc[s].closed THEN uc
             ELSE [uc EXCEPT ![s].server = task[t].conn]
    /\ UNCHANGED <<budget, conns, dbs, gone>>

CloseOld(t) ==
    /\ At(t, "closeOld")
    /\ Closed({task[t].conn})
    /\ Done(t)
    /\ UNCHANGED <<uc, budget, dbs, gone>>

-----------------------------------------------------------------------------
(***************************************************************************)
(* Close, from a logout or the reaper; and databases other clients create. *)
(***************************************************************************)
\* A mutation of CloseSession: the connection of the login is forgotten.
CloseSessionPools(s) ==
    /\ Unlocked(s) /\ ~uc[s].closed
    /\ Closed(Cached(s))
    /\ Release(Cardinality(DOMAIN uc[s].pools))
    /\ uc' = [uc EXCEPT ![s].closed = TRUE, ![s].pools = <<>>, ![s].poolUse = <<>>]
    /\ UNCHANGED <<task, dbs, gone>>

CloseSession(s) ==
    /\ Unlocked(s) /\ ~uc[s].closed
    /\ Closed(Cached(s) \cup {uc[s].server})
    /\ Release(Cardinality(DOMAIN uc[s].pools))
    /\ uc' = [uc EXCEPT ![s].closed = TRUE, ![s].pools = <<>>, ![s].poolUse = <<>>]
    /\ UNCHANGED <<task, dbs, gone>>

CreateDatabase(db) ==
    /\ db \notin dbs
    /\ dbs' = dbs \cup {db}
    /\ gone' = [s \in Sessions |-> gone[s] \ {db}]
    /\ UNCHANGED <<uc, task, budget, conns>>

-----------------------------------------------------------------------------
ThreadStep(t) ==
    \/ ConnServer(t) \/ ConnClosed(t) \/ ConnCached(t) \/ ConnWait(t)
    \/ ConnAcquire(t) \/ ConnSpent(t) \/ ConnEvict(t) \/ ConnRefused(t)
    \/ ConnRetry(t) \/ Dial(t) \/ ConnFailed(t) \/ ConnDialled(t)
    \/ ConnDiscard(t) \/ Query(t) \/ QueryDone(t)
    \/ DropExec(t) \/ DropClosePool(t)
    \/ MaintBegin(t) \/ MaintDial(t) \/ MaintDrop(t) \/ MaintFail(t)
    \/ MaintClosePool(t) \/ Rebind(t) \/ CloseOld(t)

Request(t) ==
    \/ ConnGivesUp(t)
    \/ \E db \in Databases : ConnBegin(t, db)
    \/ \E db \in Droppable : DropBegin(t, db)

Next ==
    \/ \E t \in Threads : ThreadStep(t) \/ Request(t)
    \/ \E s \in Sessions : CloseSession(s)
    \/ \E db \in Databases : CreateDatabase(db)

Spec == Init /\ [][Next]_vars

(***************************************************************************)
(* A request that has begun runs on: dials and statements have timeouts,   *)
(* and uc.mu is handed on.                                                 *)
(***************************************************************************)
FairSpec == Spec /\ \A t \in Threads : WF_vars(ThreadStep(t))

-----------------------------------------------------------------------------
\* What takes a slot: a cached pool, and a thread that opens one or discards it.
CachedPools == {p \in Sessions \X Databases : p[2] \in DOMAIN uc[p[1]].pools}
Openers == {t \in Threads : task[t].pc \in Dialling \cup {"discard"}}
Charged == Cardinality(CachedPools) + Cardinality(Openers)

\* tryAcquire and release: every slot taken is given back exactly once, on
\* every path of ConnFor, ClosePool and Close; a slot lost would shrink
\* pool_cap for good, and one given back twice would let it be passed.
BudgetExact == PoolCap > 0 => budget = Charged

\* pool_cap bounds the cached pools of all sessions and those being opened.
PoolsWithinCap == PoolCap > 0 => Charged <= PoolCap

\* Singleflight: a session opens one pool for a database at a time, and never
\* one it has.
OneDial ==
    \A t, u \in Threads :
        (/\ task[t].pc \in Dialling
         /\ Owner[u] = Owner[t] /\ task[u].db = task[t].db)
        => /\ task[u].pc \in Dialling => u = t
           /\ task[t].db \notin DOMAIN uc[Owner[t]].pools

\* Every open connection is one a session will close, or one a thread is
\* about to hand over or close: no interleaving of ConnFor, dropDatabase and
\* Close leaks one.
Owned(c) ==
    \/ \E s \in Sessions : ~uc[s].closed /\ c \in Cached(s) \cup {uc[s].server}
    \/ \E t \in Threads :
          /\ task[t].conn = c
          /\ task[t].pc \in {"dialled", "discard", "maintDrop", "maintFail",
                             "maintClose", "rebind", "closeOld"}
NothingLeaks == \A c \in Conns : conns[c].open => Owned(c)

\* ClosePool: a session that dropped a database caches no pool for it, not
\* even one whose dial was under way.
DroppedNotCached ==
    \A s \in Sessions : DOMAIN uc[s].pools \cap gone[s] = {}

\* Both: what ConnFor, ClosePool, dropDatabase and Close may leave behind when one
\* dials outside uc.mu while the others change the cache.
ConnectionsOwned == NothingLeaks /\ DroppedNotCached

\* ConnFor: the connection a request is given is bound to the database it
\* asked for.
ConnIsForDatabase ==
    \A t \in Threads : At(t, "got") => conns[task[t].conn].db = task[t].db

\* Close: a session that has ended lets go of every connection it opened,
\* whatever its requests were doing.
ClosedReleasesAll ==
    \A s \in Sessions :
        uc[s].closed ~>
            [](\A c \in Conns : conns[c].owner = s => ~conns[c].open)

\* A request that waits for another's dial does not wait for ever.
WaitsEnd == \A t \in Threads : At(t, "wait") ~> ~At(t, "wait")
=============================================================================
