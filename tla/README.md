# TableX in TLA+

TableX is a web tool for the administration of MySQL, MariaDB, PostgreSQL and
SQLite servers: one Go binary, the pages of which run statements on connections
that belong to the logged-in session. It has no database of its own, unless an
operator gives it one, in which case several replicas share their sessions
through it. What is hard in it is not the pages. It is the state between the
requests: sessions and their rows, pools and their budget, the audit trail, and
what happens to them when requests, sweeps, replicas and failures interleave.
This directory holds the specification of that part.

1. [The system](#the-system): components, state, operations, interactions
2. [The plan](#the-plan): what is specified, what comes next
3. [Modules](#modules): how state and actions correspond to the code
4. [Runs](#runs): what each one checks, its bounds, the fairness
5. [Proofs](#proofs)
6. [What the code does against its own words](#what-the-code-does-against-its-own-words)
7. [Not modelled](#not-modelled)

## The system

A request passes `server/middleware.go` (host, CSRF, login, rate limit), is
routed by `server/router.go` to a handler of `server/handlers`, which loads the
session from the `session.Manager`, asks its `UserContext` for a connection, and
talks to the engine through `driver.Conn`. The `session.Manager` keeps sessions
in a `session.Store`: the in-memory one, or `storage.SessionStore` over a
metadata database. A reaper goroutine sweeps the store. The closing of a session
closes its `UserContext`.

| Component (files) | State | Operations | What is hard | What makes it correct |
| --- | --- | --- | --- | --- |
| Durable session store (`storage/session.go`) | the rows; per replica the local store, the maps `unpersisted` and `generations`, the row counter, the admission mutex | `Get`, `Save`, `Delete`, `Replace`, `Reap`, `Detach`, `touch` | replicas that know each other through rows only; a scan older than the decision taken with it; statements that fail, or fail after they were applied; restarts | an id is written once and never comes back; one login per pre-auth session; the row cap; a missing row is taken for an end only when it is one; an end reaches every replica |
| Session manager and in-memory store (`session/*.go`) | sessions by id, their payload, closed flag, CSRF token and SSO handshake; insertion order | `Start`, `Authenticate`, `Load`, `Destroy`, `Reap`, `Shutdown`, `ConsumeSSOHandshake` | a logout, an eviction, the reaper and a login close the same payload; pointers to sessions that have been replaced | a payload is closed once, and never lost; a full store drops pre-auth sessions first |
| Per-session pools (`server/handlers/context.go`, `dropDatabase` in `operations.go`) | the login connection, pools by database with their use, dials under way and generations, the closed flag; the budget all sessions share | `ConnFor`, `ClosePool`, `rebindServerConn`, `openMaintenanceConn`, `Close`, `PoolBudget` | dials outside the mutex, with logouts and drops in between; slots taken, returned and retaken | the budget is exact; one dial per database; no connection leaks; no pool of a dropped database; a closed session holds nothing |
| Limits of a session (`context.go`) | window of the query budget, tokens of `DBOpLimiter`, history, flashes | `Allow`, `Acquire`, `AddHistory`, `Flash` | windows that roll, limits of zero | a limit is never passed, a token is given back once |
| Login, rate limit, CSRF, hosts (`auth/*.go`, `handlers/auth.go`) | hits by key | `Allow`, `Reset`, the order in which a login charges and checks | attempts in flight together | so many attempts per window and no more |
| Single sign-on (`auth/oidc.go`, `handlers/sso.go`) | the handshake and the verified identity in the session | start, callback, deny, login | two callbacks and a start at once | a handshake is consumed once; a denied identity stays denied |
| Metadata storage (`storage/storage.go`, `migrate.go`) | schema version | `Open`, `Migrate` | two replicas that start at once; a migration that fails halfway | every migration applied once, in order |
| HTTP server (`server/server.go`, `middleware.go`, `restrict.go`, `compress.go`) | listener, draining flag, requests in flight | `Serve`, `Shutdown`, the gates of the chain | a shutdown against handlers that still run | drain, then sessions, then storage, then the audit trail |
| Audit trail (`audit/*.go`, `driver/observer.go`) | the log file and its size, statements recorded in a transaction | `Record`, rotation, markers of undone transactions | close, rename and reopen, each of which can fail | no event is lost silently; a marker exactly when what was recorded was undone |
| Driver core (`driver/*.go`) | pinned connections, memo of a dump | `Query`, `Exec`, `BeginTx`, `ReplaceProgram` | a drop and a create that are not one transaction | the old definition is restored or the loss is reported |
| Engines (`driver/mysql`, `postgres`, `sqlite`) | none | catalogue queries, SQL text | differences of the engines | that of the engines |
| Dump (`dump/*.go`) | the plan of a dump | ordering, writers | cycles of dependencies | an object after those it needs |
| Script lexer and restore (`sqlscript`, `handlers/importer.go`, `sql.go`) | position in the script, budget of events | splitting, sections, import | a failure in the middle | a statement is cut where the engine would cut it; nothing is run twice |
| Pages (`handlers/*.go`), views, model, configuration, command line | none between requests | forms to statements, statements to pages | | |

How they interact: handlers call `session.Manager` and `UserContext` directly;
the manager's sweep calls `Store.Reap` and closes what it returns; a full
in-memory store calls back `forget` of the durable one (`session.go:218`, the
eviction hook); `UserContext.Close` is called for the payload of a session by
whichever goroutine wins the session's own lock; replicas share nothing but the
rows. `PROJECT.json` names, under `hazards`, each place where this can go wrong,
and the property that watches it.

## The plan

In the order of what an operator would lose most by an error.

1. `SessionStore`, with the abstract `SessionRegistry`: done, checked, and its
   safety proved.
2. `UserContext`: done and checked; its safety proved.
3. `SessionManager`, with the abstract `Custody`: done and checked, single
   sign-on and shutdown included; its safety and the refinement proved.
4. `SessionExpiry`: done, checked and proved.
5. `LoginThrottle`, `RequestChain`: done, checked and proved.
6. `AuditTrail`, `ReplaceProgram`, `Migrate`: done, checked and proved.
7. `DumpRestore`, `ScriptReplay`, `TreeDump`, `SequenceDump`: done and checked
   over bounded inputs.
8. `RowEdits`, `RowPages`, `AccessControl`, `StructureEdits`: the pages that write
   from a form which may be out of date; done and checked; proved, but for
   `StructureEdits`.
9. Open: the query budget, history and flashes of a `UserContext`; the console and
   its pinned connection; the catalogue edges from which PostgreSQL's dump graph is
   built; the composition of `SessionManager` with `UserContext`, whose
   `CloseSession` it calls.

Every module has its parameters as CONSTANTS with an assumption where one is
needed, one action per step of the code, and invariants as conjunctions of named
parts; recursion is written with recursive functions or folds in the modules that
have theorems. Components that do not share state share a run, and are then
checked side by side.

## Modules

### SessionRegistry

What the rows amount to for a cluster: which ids exist (`live`) and which ever
did (`used`). `Create`, `Rekey` (a login puts one id in the place of another)
and `End`. An id that is gone does not come back.

### SessionStore

`internal/storage/session.go` on several replicas, with the in-memory store it
keeps (`internal/session/store.go`).

| Variable | In the code |
| --- | --- |
| `table` | the ids in table `sessions` |
| `local[r]` | `s.local`, the keys of `memStore.sessions` |
| `unpersisted[r]` | `s.unpersisted` |
| `stamped[r]`, `fresh[r]` | the keys of `s.generations`; those of them above the epoch of the last sweep |
| `rows[r]` | `s.rows` |
| `locked[r]` | the admission mutex `s.admit` |
| `pc`, `sid`, `nid` | where a request stands, and its ids |
| `held` | the requests whose `*Session` is the one still stored (`memStore.Replace` compares pointers) |
| `rpc`, `present`, `pending`, `full`, `dead`, `target` | where the sweep stands, and its variables |
| `minted`, `cookies` | ids drawn so far; ids a browser has |
| `stored`, `unanswered`, `ended`, `won`, `raced`, `unmarked` | history, read by the properties alone |

The generation counter is abstracted: the code compares a generation with the
epoch of a sweep only, so that a marker is either above the last epoch or not.
One sweep runs at a time per replica, started by one ticker
(`session.go:407`), so one epoch is enough.

A step is what another goroutine can see: a statement, a critical section of
`s.mu`, an operation of the local store. Steps under the admission mutex are
separate (others that do not take the mutex run in between): `repersist` reserves the
generation, commits the insert and clears the mark of the id (`setPersisted`) in three
of them, between which another replica may adopt or end the row. The taking and the
giving back of the mutex are merged with the step next to them.

| Function | Actions |
| --- | --- |
| `Get` | `GetSelect` or `GetDegraded`, then `GetMissing` or `GetLocal`, `GetAdopt` |
| `Save`, `persistNew`, `insert` | `SaveAdmit`, `SaveInsert`, `SaveFail`, `SavePublish` |
| `Delete` | `DeleteRow`, `DeleteForget`, `DeleteLocal` |
| `Replace`, `replaceRow`, `replaceLocally` | `ReplaceBegin`, `ReplaceRow` or `ReplaceLocally`, then `ReplaceForget`, `ReplaceDropOld`, `ReplacePublish`, or `ReplaceLocal`, `ReplaceMarkLocal` |
| `Reap`, `repersist`, `pruneGenerations` | `ReapEpoch`, `ReapScan` or `ReapScanFails`, `ReapCount`, `RepersistSnapshot`, `RepersistLock`, `RepersistSkip`, `RepersistReserve`, `RepersistInsert`, `RepersistNote`, `RepersistUnlock`, `ReapLocal`, `BuryForget`, `BuryRow`, `Abandon`, `AbandonRow`, `ReapPrune` |
| `Detach`, a crash, `NewSessionStore` | `Restart` |

A statement may fail (`Fault`); when `LostReplies` holds it may have been applied
all the same. `rows` follows each statement as the code makes it follow. Which
sessions are past a timeout is left open when `Timeouts` holds.

Properties:

- `TypeOK`: with the types, the bound on the generations map. It is not given by
  a single guard: adoptions take slots without the admission mutex.
- `ImplementsRegistry`: the table goes through steps of `SessionRegistry`. Every
  insert on every path (a creation, a login, `repersist` of one replica, that of
  another) is of an id that never had a row.
- `OneWriter`: why that is so. Whoever may still insert an id is the only one,
  and the id never had a row.
- `UnpersistedIsOurs`: what `absenceIsFinal` builds on. A session whose write
  failed is in no other replica's local store, but for two: a row `repersist` has
  committed and not yet noted, and one whose commit was applied while its answer was
  lost (`unanswered`). The comment at `session.go:438` has no such exception
  (`UnwrittenAreOurs`, refuted in `StoreClaims`). It is checked with lost replies.
- `CondemnedWereEndedOrRaced`: a session that has had a row and that a sweep takes
  for ended elsewhere was ended. It excepts a session whose row this replica was
  writing while its scan ran (`raced`), and one without a marker since (`unmarked`):
  its adoption found no slot, which `Get` accepts, or a logout, a login or an eviction
  took the marker off while another request of the replica kept or was adopting the
  session. Two comments deny each of them (`MarkedInTime`, `MarkersStay`, refuted in
  `StoreClaims`). It is checked with one marker for two ids, and proved for any number
  of requests and markers.
- `SingleWinner`: as long as storage answers, no two logins win one session, on
  whatever replicas they run, and a login whose session is held but has no row any
  more gets past its row step only if nobody has ended it: the row is then one this
  process failed to write.
- `CapHolds`, `CounterCoversTable`: `storage.max_sessions` in a deployment of one
  replica, through lost replies and restarts.
- `EndsReachEveryReplica`, `UnpersistedSettles`, `MarkersDrain`: liveness of the
  sweep.

### UserContext

The pools of the logged-in sessions. `uc[s]` is the `UserContext` of session `s`:
`closed`, `mu` (set only by sections that span steps), `server`, `pools`,
`poolUse` (the order kept in `uc.poolLRU`, as the set of pools used since each
one was), `opening`. `task[t]` is a request: where it stands, its database, the
connection at hand, whether `ClosePool` has made its dial stale (in the code, the
generation has moved on), and where it goes after it has thrown a pool away.
`budget` is `PoolBudget.n`. `conns` are connections; a name is used again once
it is closed and nobody holds it. `dbs` are the databases of the server, which
other clients create as they like; the requests drop them. `gone` is history.

| Function | Actions |
| --- | --- |
| `ConnFor` | `ConnBegin`, then `ConnServer`, or `ConnClosed`, `ConnCached`, `ConnWait`, `ConnGivesUp`, `ConnAcquire`, `ConnSpent`, `ConnEvict`, `ConnRefused`, `ConnRetry`, `Dial`, `ConnFailed`, `ConnDialled`, `ConnDiscard` |
| use of the connection | `Query`, `QueryDone` |
| `dropDatabase`, `ClosePool`, `openMaintenanceConn`, `rebindServerConn` | `DropBegin`, `DropExec`, `DropClosePool`, or `MaintBegin`, `MaintDial`, `MaintDrop`, `MaintFail`, `MaintClosePool`, `Rebind`, `CloseOld` |
| `UserContext.Close` | `CloseSession` |

The section of `ConnFor` that finds the budget spent takes the budget's own lock
twice, with an eviction in between. Another session may take the slot in that
time, so the section is three steps under `mu`.

Properties: `BudgetExact` (every slot taken is given back once, on every path)
and `PoolsWithinCap`; `OneDial` (singleflight); `NothingLeaks` (an open
connection has someone who will close it); `DroppedNotCached` (a pool dialled
while its database was dropped is not cached); `ClosedReleasesAll` (after a
logout every connection of the session is closed, and stays closed, whatever its
requests were doing); `WaitsEnd`.

### Custody

What logging in and out amount to for the payload of a login, which holds open
connections and a password: `Open`, `Attach` to a stored session, `Remove` from
the store, `Close`. It has one holder at a time and never goes back to an earlier
one.

### SessionManager

`internal/session/session.go` and `store.go`, with the handlers that log in and
out, the single sign-on and the shutdown of the server. A session object is named
by its id and lives as long as somebody holds it.

| Variable | In the code |
| --- | --- |
| `preAuth`, `auth` | the lists of `memStore`, oldest first |
| `app`, `sso` | `Session.app` (a login's payload) and the pending handshake and verified identity |
| `made`, `opened`, `minted` | sessions, payloads and handshakes made so far |
| `stale` | sessions past a timeout |
| `req` | where each request stands, and the object the middleware gave it |
| `removed` | sessions out of the store that somebody has yet to close |
| `phase`, `cut` | the shutdown, and whether its drain has timed out |
| `closes`, `exchanged`, `denied` | history, read by the properties alone |

| Function | Actions |
| --- | --- |
| `Load` | `LoadHit`, `LoadMiss`, `LoadExpired` |
| `Start`, `Authenticate`, `Destroy` | `Start`, `AuthenticateRead`, `AuthenticateReplace`, `AuthenticateFail`, `Logout` |
| `memStore.Save`, `Replace`, `Delete`, eviction | the operators `Save`, `Replace`, `TakeOut`, `Victims`, part of those actions |
| `Login` | `Dial`, then the steps of `Authenticate` |
| `SSOStart`, `SSOCallback` | `SSOStart`, `SSOBegin`, `SSOConsume`, `SSODeny`, `SSOVerify` |
| `reaper`, `Reap` | `Reap`, `CloseRemoved` |
| `Server.Shutdown`, `Manager.Shutdown` | `Drain`, `Quiet`, `Shutdown`, `ShutdownDone` |

`ImplementsCustody`: every way out of the store (a logout, an eviction, the
reaper, a login that replaces the session, the shutdown) goes through steps of
`Custody`, so that a payload is closed once and never lost. `StoredAreUsable`: a
stored session that is logged in can be used, whatever was evicted while its login
was dialling. `HandshakeOnce`, `NothingOutlivesShutdown`, and `ExpiredLeave` under
the fairness of the reaper. The shutdown does not wait for the reaper's goroutine,
and a `Start` past the drain deadline may leave a session stored, without payload:
the property speaks of payloads.

### SessionExpiry

The timeouts of one stored session that two replicas serve; what `SessionStore`
leaves open under `Timeouts`. `row` is the row's `last_seen`; `copies` are session
objects, each with a `lastSeen` of its own, of which a replica keeps one in its
local store (`kept`) and which only its requests refresh; `touch` (`touched`) writes
the row at most once per `touchEvery`, and before the request that causes it is
judged. `Lookup`, `Recall`, `Adopt`, `Refresh`, `Judge`, `End` are `Get` and `Load`;
`SweepBegin` to `SweepShared` are `Reap`; `Elapse` moves the clock, `Restart_` a
replica.

`TimeoutsHold` says that a session is served only within its timeouts and that its
row leaves only after one of them, as seen by whoever used it last. Three exceptions
are named in it, because the code has them: it may be ended by a copy that was not
the one used last (the claim `InUseNotEnded`, refuted); by a row that could not be
refreshed, or not in time (`Behind`); and an idle session is served again when a
late request has refreshed its row and could not delete it, or not yet. `Behind` is
what a request that takes time can do: one that found the last refresh recent enough
is answered up to `Patience` later, and one that set out before another and writes
the row after it takes `last_seen` back by as much, so that the row lags by
`touchEvery` and up to twice `Patience`; and a sweep may come before the refresh a
request is about to make. With `Patience` 0, as in the run, `Behind` allows nothing
that the timeouts do not. An adopted copy is judged without the margin of
`touchEvery`, so that after a restart or a move a session may end that much early.
The replicas' clocks agree.

### DumpRestore

`dump.ResolveDB` and `buildTeardownPlan` (`dump/graph.go`), the graph algorithms of
`driver/dump.go`, and the run of the script. A catalog says which object needs
which, and which of that lies in a clause that can be deferred. `Resolution` are
the cycles cut, stubs and deferred clauses; `CreationOrder` and `Teardown` the
statements; `Export`, `Import`, `Statement`, `StatementError` the steps.
`DumpsRestore`: a first import rebuilds the catalog, and one over what an earlier
import left, whole or stopped anywhere, is not refused, except at cycles:
`buildTeardownPlan` gives a cycle one DROP at the place of one member
(`graph.go:208`), and what a member that was a stub needs may have been created
after that (the exception `RepeatStopsAtCycles`). The comment of `WriteDB` has no
such exception: `NoDropBlocked` states it as it stands and is refuted in
`ComponentClaims`, as are the other claims named in the sections below.

### ScriptReplay

The text of a dump as tokens: the writer's quoting, frames and markers
(`driver/lexer.go`, `marker.go`, `dump/sql.go`), and the reader (`sqlscript.go`,
`restore.go`, `importer.go`): `Preflight` splits and lexes all sections under one
budget, `Execute` runs a statement. `ScriptReplays`: what runs is what was
written, whatever a value, a name or a body holds.

### AuditTrail

A row edit as `driver.Tx` (`observer.go`, `connection_exec.go`), the import with
its prepared statement, and `audit.FileSink`. `Begin`, `TxExec`, `StmtExec`,
`Commit`, `StmtClose`, `Rollback`, `GiveUp`; the sink's `Write` and `RotateLocked`
with their failing system calls are part of the steps that emit. `TrailIsHonest`:
an edit's lines tell what became of its rows, with one exception in the statement,
`Misled`: a commit whose answer is lost gets a marker though it was applied (against
the claim `MarkedIsUndone`). `DropsHaveACause`: a line is missing only when a call of
its own failed. A torn write glues the next event to its fragment: `lost` counts the
edits it concerns, and the claim `LinesStayReadable` that this cannot be is refuted.

`AuditTrail` and the gates count lines and hits with the operators of `Lists`: the
entries of a list that are left when some are omitted, as a recursive function, so
that `Lists_proofs` can say how they come out when lists are joined, or one grows by
an entry or loses its first.

### LoginThrottle

`auth/ratelimit.go` and the order of `Login`: `ReserveAddress`, `ReserveIdentity`,
`ReserveAccount`, `LoginFails`, `LoginSucceeds`, `Reset`, `Sweep`, `Tick`. A form may
name a user, a predefined server, both or neither; `Reserve` charges the keys of a
group together or none of them, with 0 for no limit; a success resets one key at a
time (`ToReset`, all but the address). `GuessesBounded` bounds the charges of every
window of every key, and says that an attempt refused for one name has not used up
another; dials may bunch later than their charges.

### Migrate

`storage/migrate.go` on replicas of several releases that start at once:
`Read`, `Create`, `Insert`, `Update`, `Reconcile`, `Restart`. Today's list has one
step; the module takes the list as a parameter. `VersionSound`, `RacesResolve`.

### ReplaceProgram

`handlers/programs.go` and `Connection.ReplaceProgram`: `OpenPage`, `LookUp`,
`Resolve`, `ReplaceAtOnce` (an engine with `OR REPLACE` or transactional DDL),
`Drop`, `Create_`, `Restore`, `Arrive` (another client). `ProgramKept`: an object
goes only on purpose or with an answer that says so, with two exceptions: a position
of an old page may name another overload by the time it is read (`Displaced`), and the
list is read twice in one save, so that one overload may be restored in place of
another (`Misread`). `PickedIsMeant` and `RestoredIsDropped` are what the comments say
of that, and are refuted. The last of two saves wins.

### RequestChain

`server/middleware.go` from `recover` to the gates and out again, with `restrict.go`
and the semaphores. One action per layer (`Enter`, `Session`, `Admission`, `CSRF`,
`SSOGate`, `AuthGate`, `RestrictGate`), then the handler (`Prepare`, `Work`,
`StreamEnd`, `Login`, `LoginRecorded`, `LoginAnswered`, `Logout`, `Serve`), `Panic`
anywhere, and `Leave`, the deferred calls. `RequestsAccounted` is `GatesHold` (what
a handler runs has passed each gate with what the gate read; slots and gauge are
what the requests under way hold) and `TrailIsComplete` (each unsafe request has one
event, a torn stream no clean end). A slot cap of 0 is no limit (`Unlimited`).
`answeredBy` is the layer that answered, by which the exceptions are told apart: a login
that `ssoGate` sends to the provider, and one the handler sends home or whose form it
cannot read, leaves no event (`Unrecorded`; a login that is throttled, forged, rejected
or succeeds leaves one, whatever kind of request it is); one that panics after its event
has two; an unsafe request that is sent to a login page is filed as "ok" (`SentAway`).
`LoginsLeaveEvents` and `RejectedNotFiledOk` are what the comments say, and are refuted.

### RowEdits

`handlers/edit.go` and `bulkrows.go`: tokens, forms and statements of inserting,
editing, copying, deleting. `Browse`, `OpenForm`, `Submit`, `Delete`, `Exec`,
`Fails`, `Commits`, and `Alter`, another client. `EditsAreHonest`: what is written
is what was typed; cells left alone stay, whatever was shown of them; one key finds
one row or the user is told; after an error either nothing of the request is there
or all of it. The last is the commit, or a statement outside a transaction, that was
applied while its answer was lost: `Replies` lets it be told as an error, as
`dbError` does, where `Fails` rolls back. Exceptions: several rows of one bulk form
where one is given the key of another (`KeysKept`), NULL primary keys of SQLite
(`nullKeys`). The engine is external: an editor waits for the rows and the keys that
an open transaction of another has written or may bring back by a rollback (`Waits`,
`WaitsForKey`). Bytes are not editable, only made NULL (`edit.go:231`). `Texts` is
what cells and fields may hold; a form has up to `MaxChosen` rows, for
`maxBulkFormRows`; the engine numbers new rows 7, 8 and 9 and then no more, and one
column, `v`, may be dropped by another client.

### RowPages

`handlers/table.go`, `browsesort.go`, `driver.Browse` and `CountRows`: `CountRows`,
`ReadRows`, `Follow` a link, `Typed` an address, `OtherTab`, `Change` by others.
`PagesCover`. Rows past `max_browse_offset` are reachable with an exact count only,
as its comment says; so who goes back from beyond it, and is then given no exact
count, arrives at `max_browse_offset` and misses the rows between.
`TypedUrls` are the addresses somebody may type: `UrlWords` and `PageColumns` bound
what they and a table can name.

### TreeDump

The dump of trees of inheritance and of partitions (`dump_inherit.go`,
`dump_partition.go`, `dump_table.go`, `dump_foreign.go` of the PostgreSQL driver,
`dump/plan.go`): `Dump` plans and writes, `RunDump` restores into an empty database.
`TreesRestored` compares rows, defaults, constraints and links. Exceptions by name,
each a shape the code does not keep: `Orphan` (a partition chosen without its root,
of which nothing comes, while a `Dangling` constraint of its own stops the import),
`Redeclared` (a child that declares a column again without its parent's default gets
it, `Unmerged` if its parents disagree), `Uprooted` (children of a table that was
exported alone), `LeafOnly` (a validated constraint a partition alone has). The first
two are against comments, of which `PartitionsRideAlong` and `DefaultsReestablished`
are refuted.

### SequenceDump

`dump_sequences.go`, `seqrewrite.go` and the planning of an export: which sequences
are emitted, which are replaced and by which name, and the values read at planning
time. `Plan`, `WriteAndRestore`, `Inserts`. `SequencesServe`: after the restores each
default draws from the sequence it should, beyond the rows it has. Exceptions:
`Warned`, `Moved_` (rows written between the two readings; `docs/database-drivers.md`
says that an export is not of one moment), `InHalves`, `Outside` (sequences of
tables or schemas left out of a database-level export are not replaced). The comment at
`dump_sequences.go:814` calls nothing external there: `NothingExternal`, refuted.

### AccessControl

`handlers/access.go`, `driver/mysql/dcl.go`, `driver/postgres/dcl.go`:
`ManageAccount`, `ResolveGrantee`, `GrantPrivilege`, `RevokePrivilege`, `ExecScript`
statement by statement, and `Elsewhere`, other clients. `AccessHolds`: the session's own
account stays; no grant but the one asked for, and no other account, is touched; of a
revoke that has run nothing is left; and "failed" is told when nothing was done, when
all of it was and the answer was lost, or when MySQL had taken one of two patterns.
`accessExecFailed` cannot tell a refusal from a lost answer, so the model has one
answer for both. Exceptions: an overload of the same name that has moved into the
page's place, grants of another grantor and column grants on PostgreSQL, a database
held under two patterns on MySQL. `RoutineIsThePages` and `FailedDidNothing` are what
the comments and the message say of the first and of "failed", and are refuted.
Passwords and attributes are not told apart.

### StructureEdits

`handlers/structure.go`, `columnform.go`, the table operations of `operations.go`,
`confirm.go`, and the editors of the three drivers. `relations` is the server's
catalogue (columns have an id that a rename keeps); `desk[d]` what a designer has
at hand: the page as it was opened, the order posted, the columns read since, the
statement.

| Function | Actions and operators |
| --- | --- |
| `TableStructure`, `TableOperations` | `TableStructure`; `ColumnForm`, `DefaultForForm` |
| `runStructureOp`, `runTableOp` | `LookUpTable`, `ReadColumns`, `BuildOp`, `ConfirmOp`, `ExecOp` |
| `buildAddColumn` to `buildAddFK` | `BuildAddColumn` to `BuildAddFK` |
| `columnSpec`, `columnType`, `buildDefault`, `applyExprDefault`, `preserveColumnAttrs` | `ColumnSpec`, `ColumnSize`, `BuildDefault`, `ApplyExprDefault`, `PreserveColumnAttrs` |
| the statements of the drivers | `Becomes`, `Restated` (MySQL), `Altered` (PostgreSQL), `Without` |
| other clients | `OtherClient` |

`StructureAsAsked`: a change reported as done is the one asked for, and what the
user left alone stays, in that column and in the others. What the code does not keep
is named there, against the comment "a no-JS submit preserves everything the user
did not change" (`structure.go:154`), which `FieldsKept`, `TraitsKept` and
`NewerKept` state as it stands and which is refuted in each of the three: blanks
around a default, and quotes around a MySQL literal; the empty member of a list;
lengths the form cannot show (negative scales, interval fields); on PostgreSQL the
collation, since `ALTER TYPE` is stated without it; on MySQL the attributes TableX
does not read. A form from an old page puts back what others have changed since, an
expression default as a literal of its text. The default of an identity column is
left alone although the change is reported (`postgres/editor.go:66`). PostgreSQL may
lose its last column to two drops at once. Maintenance operations are not modelled.

### Instances

`MCSessionStore`, `MCUserContext`, `MCSessionManager`, `MCSessionExpiry`, `MCDump`
and `MCStructure` hold the values of the constants for TLC. `MCComponents` joins the
fourteen modules above from `SessionExpiry` on, which share no state: `part` is
chosen in `Init`, and the others stay where they began. It makes one run of what
would be fourteen; a behaviour is one of one machine.

`MCStoreClaims` and `MCComponentClaims` take up the comments the code does not keep.
Each claim is an operator of its own, with the words it restates. A run that checked
one would stop at its counterexample; these go on: a behaviour records a claim that
a state or a step refutes (`refuted`), and then begins again from the initial state,
or moves on to the next machine, with the requests, faults and inputs the next claim
needs. What the run checks, `SomeClaimStands` or `SomeClaimOfThemStands`, fails when
all are refuted, and its counterexample is one trace for each of them.

## Runs

| Run | Instance | Shows |
| --- | --- | --- |
| `StoreRefines` | two replicas, one request each, two ids, row cap 1, one marker, one failing statement (not applied), one replica sweeps | `ImplementsRegistry`, `OneWriter`, `CondemnedWereEndedOrRaced` |
| `StoreLogins` | two replicas, one request each, four ids, row cap 1, one marker, no failure, no sweep | `SingleWinner` |
| `StoreCap` | one replica, one request, three ids, row cap, markers and local store of 1, two failing statements that may have been applied, timeouts, one restart | `TypeOK`, `CapHolds`, `CounterCoversTable` |
| `StoreLive` | two replicas, one id, one failing statement that may have been applied, one replica sweeps; weak fairness | `UnpersistedIsOurs`, `EndsReachEveryReplica`, `UnpersistedSettles`, `MarkersDrain` |
| `PoolsSafe` | two sessions, one request each, three databases, a budget of one pool | `TypeOK`, `BudgetExact`, `PoolsWithinCap` |
| `PoolsLive` | one session, two requests, two databases, a budget of two pools; weak fairness | `OneDial`, `ConnectionsOwned` (`NothingLeaks` and `DroppedNotCached`), `ClosedReleasesAll`, `WaitsEnd` |
| `SessionsSafe` | two requests, a store of one session, two sessions started, two logins, one handshake, reaper and shutdown; weak fairness of the reaper | `TypeOK`, `StoredAreUsable`, `HandshakeOnce`, `NothingOutlivesShutdown`, `ImplementsCustody`, `ExpiredLeave` |
| `ComponentsSafe` | fourteen machines side by side, each with the instance below | one property each, two of `AuditTrail` and `Migrate` |
| `StoreClaims` | two requests on one replica and one on another, two ids; for each claim those it needs | a counterexample to each of five claims, see below |
| `ComponentClaims` | nine of the machines, each from one initial state | a counterexample to each of sixteen claims, see below |
| `PoolsWrongDatabase`, `SessionsDenialUndone` | | a counterexample each, see below |

The bounds. Two ids are a pre-auth session and the one a login puts in its place,
or two creations that compete for a cap or a marker. Two replicas are enough for
everything an id can go through: a third adds peers that do what the second does.
One sweeping replica is enough, since a sweep never reads another's state other
than through rows, which requests of the other replica change as well. Caps
of one make "full" happen at once, in each of the ways; the cap of two in
`PoolsLive` leaves a slot for a second dial of the same database, which is what
`OneDial` excludes, and the third id in `StoreCap` holds the only marker while a
login replaces one of the others, which is when `ReplaceLocally` runs. One failing
statement reaches every error path; two are given to the cap, where the failure
of a count at a restart follows the failure of an insert. Three databases are the
login one, the maintenance one, and one that is neither. With
one marker for two ids in `StoreRefines` each way to be without one occurs, and with
as many as ids the way `StoreClaims` refutes `MarkersStay`. `StoreLogins` has four ids
because a login draws one: two logins of one pre-auth session take three, and the
fourth is a session that has the only marker or the only row. `StoreLive` has no row cap
and one id: it is about a write that fails, and the cap is in `StoreCap`.

The instances of `ComponentsSafe`, and why they are enough:

| Machine | Instance |
| --- | --- |
| `DumpRestore` | nine items of every drop class the planner tells apart, every subset of the edges that make and join cycles, one statement error anywhere |
| `ScriptReplay` | texts of up to two tokens out of every kind the lexers tell apart, blocks, three engines, one section or two, budgets below, at and above what suffices |
| `AuditTrail` | two edits, one an import, two rows each, two faults, a file of four bytes, so that a rotation falls into either |
| `LoginThrottle` | three logins, to one account from two addresses, or to a predefined server with and without a user, or to none; caps of 1, a window of 2 in a time of 2: one hit expires while another is in flight (a cap of 0 is covered by the proof) |
| `Migrate` | three replicas of two releases, two steps of two and one statements, two failures, two deaths (proved for all) |
| `ReplaceProgram` | two savers, one who drops, three objects of which two are overloads, two changes by others, one cancellation |
| `RequestChain` | each demand alone under each configuration, and pairs of one session in every order, with one slot of each kind (no limit is covered by the proof) |
| `RowEdits` | two editors, three places for rows, every kind of cell and token; two statements per form |
| `RowPages` | up to seven rows, or two columns, with pages of 2 and 3, offset cap 3, exact counts up to 2, a change between any two readings |
| `TreeDump` | four relations: two parents and a grandchild, a diamond, a parent elsewhere; a partitioned partition with leaves of every kind |
| `SequenceDump` | four tables, every way a column draws from a sequence, two exports, one insert, targets empty, alike or taken |
| `AccessControl` | two accounts, two overloads, two changes by others, grants under every pattern |
| `SessionExpiry` | two replicas, two requests, one sweep at a time each, one error or restart, an idle timeout of 8 with a touch each 2, moves of 1, 3 and 8 |
| `StructureEdits` | one designer with every change on a table of two columns of every type, default and trait; two with a few; one change by another client |

Each bound is a constant of its module. A second fault or visitor is there where
the first only prepares the ground; a machine with more of them repeats steps the
smaller one has.

Fairness. `WF` of each request's next step: a request that has begun runs to its
end, as its goroutine is scheduled, statements and dials have timeouts, and
`uc.mu` and the admission mutex are held for bounded sections and handed on. `WF`
of the sweep: its ticker keeps firing (`session.go:407`). No fairness for
browsers, for failures, for `Close`, or for the creation of databases. The
bounded `MaxFaults` is what "once storage answers" means in `UnpersistedSettles`.
`ExpiredLeave` of `SessionManager` rests on `WF` of the reaper alone: its ticker
fires until the shutdown stops it (`session.go:406`), and it closes what it took out.
`EndsReachEveryReplica` and its siblings are stated of `Sweepers`, the replicas
whose reaper runs in the instance.

Deadlock is checked in the runs of `SessionStore`, `UserContext` and
`SessionManager`, but for `StoreLogins`: with neither sweeps nor failures its requests
stop when the ids are used up. It is not checked in `ComponentsSafe`, each of whose
machines stops when its requests, statements or time have run out, nor in the runs of
the claims, which stop when all are refuted.

Every property has a mutant of the code in `PROJECT.json`: a changed definition
under which the run fails. They are the definitions marked "A mutation of" in the
modules, which nothing else uses.

## Proofs

Eight modules hold them: one for each component, but that `Gates_proofs` is about
`LoginThrottle` and `RequestChain`, `Changes_proofs` about `AuditTrail` and
`ReplaceProgram`, `Replicas_proofs` about `SessionExpiry` and `Migrate`,
`Statements_proofs` about `AccessControl`, `RowEdits` and `RowPages`, and
`Lists_proofs` has the lemmas on lists they use. The theorems hold for every value
of the constants that their modules' assumptions admit. These only exclude what the
code does not have: negative numbers, a request of two sessions, an identity that is
also the name of "none". Stronger hypotheses are in the statement of the theorem.
All of them hold of the specifications with fairness as well, which imply those
without.

### SessionStore_proofs

For any number of replicas, requests and ids, any caps and numbers of markers:

- `TypeCorrect`: `Spec => []TypeOK`, with the bound on the generations map, which
  rests on cardinalities: a hand-over removes a marker before it adds one.
- `InsertedOnce`: `Spec => []OneWriter`, if `~LostReplies`. `OneWriter` is not
  inductive. The strengthening says which ids a request or a sweep may still
  insert, that a new id was drawn by that request alone, and that what a sweep
  read as `unpersisted` before it took the admission mutex is nobody else's.
- `RegistryImplemented`: `Spec => ImplementsRegistry`, if `~LostReplies`. Each
  insert is a `Create` or `Rekey` of an unused id by `InsertedOnce`; every other
  change of the table is an `End` or a stutter.
- `UnwrittenSeenByOne`: `Spec => []UnpersistedIsOurs`, whatever fails or loses its
  answer. What is in a local store but was not written by this process has had a row
  (an adoption reads one: `SeenAreWritten`). An id that has had none is known to one
  replica only (`UnwrittenIsPrivate`), since it was drawn once (`DrawnOnce`). And an id
  that is marked unwritten though it has had a row is one of the two the statement
  excepts: `OneOwner` says that whoever owes a write owes it of an id without a row,
  or of one written by a commit whose answer was lost.
- `OneLoginWins`: `Spec => SingleWinner`. As long as storage answers, a login wins by
  a `DELETE` of the row that it alone can find, or for an id that only its replica
  knows, under the admission mutex of that replica. The invariant says that at
  most one request of a replica is in a section of that mutex, that an id is
  drawn once, which ids have had a row, and that what was won has none.
- `SweepsAreRight`: `Spec => []CondemnedWereEndedOrRaced`, for any number of requests
  on a replica and any number of markers, whatever fails, loses its answer or restarts.
  A sweep compares its scan with the local store as it is later, so the invariant
  (`SweepInv`) says what became since the scan of each session whose row has been
  written, was not seen, and is not ended (`Unseen`): when it is in the local store or
  a request is adopting it, it has a marker newer than the scan or is counted among
  those without (`Covered`); when a request has drawn it and is about to store it
  (`Brings`), it has one; when a request or `repersist` is still to write it
  (`Writes`), it has one or the scan excused it. `DrawnApart` and `WritesNew` say that
  a drawn id is nowhere else and unwritten till then, `FreshStamped` that a newer
  marker is a marker, and `RowsStay` that the row is there for the next scan to see.
- `CapRespected`: `Spec => []CapHolds`, and `CounterCovers`: `Spec =>
  []CounterCoversTable`, if there is one replica. The invariant is that the counter
  covers the table, and that the sections that change both exclude each other.

`InsertedOnce` and `RegistryImplemented` are the two that need `~LostReplies`: a commit
whose reply is lost leaves a row behind which the process takes for unwritten, writes
again, and may thereby bring back after a peer has ended it. `Replicas = {r}` cannot be
dropped: each replica counts for itself between sweeps.

### UserContext_proofs

For any number of sessions, requests and databases (finite sets, each request of
one session, and connection names for the login connections) and any cap, zero
(unlimited) included:

- `TypeCorrect`: `Spec => []TypeOK`, with the order in which the pools were used,
  from which `evictIdlePoolLocked` chooses. Inductive together with `Busy`: a
  request that is not idle knows its database, and in the steps that hand a
  connection on, the connection.
- `DialsOnce`: `Spec => []OneDial`. `OneDial` is not inductive. `Flights` adds that
  the database of a dial under way is in `opening`, so that nobody else starts
  one, and that a request that holds `uc.mu` over the steps of an eviction still
  has neither a pool nor a dial for its database when it retries.
- `BudgetKept` and `CapKept`: `Spec => []BudgetExact` and `[]PoolsWithinCap`. Their
  invariant is `Accounted`, by the effect of each step on two sets: the cached
  pools and the requests that open or discard one. It rests on `Flights`: a pool
  that `ConnDialled` caches replaces no other, whose slot would be lost.
- `NothingLost`: `Spec => []ConnectionsOwned`. `NothingLeaks` is shown by the places
  a step takes a connection from and puts one into. A dropped database is not
  cached because its name stays out of three places: the pools, the dials that
  `ClosePool` has not made stale, and the login connection (`NoneBack`,
  `FreshDials`).

### SessionManager_proofs

For any number of requests, sessions, logins and handshakes, and any size of the
store:

- `TypeCorrect`: `Spec => []TypeOK`, the two lists in insertion order included, each
  session in one of them and once.
- `OneExchange`: `Spec => []HandshakeOnce`. A handshake that was exchanged is in no
  session any more, and each is put into one session.
- `Usable`: `Spec => []StoredAreUsable`. A session that is stored has not been
  closed: who takes one out does so before closing it.
- `ShutdownComplete`: `Spec => []NothingOutlivesShutdown`.
- `PayloadsInCustody`: `Spec => ImplementsCustody`.

The invariant says where a session can be and who has which payload. `Whereabouts`:
a session is in the store or with those who took it out to close it, once made.
`LoginsUnderWay` and `PayloadsAccounted`: each payload that was opened is with the one
login that opened it, or with the session made for it, which is in the store or with
who is to close it, or has been closed, once. `HandshakesUnique` says the like of what
the provider handed out, and `ShutdownOrder` what is done by each phase of a shutdown.

### Gates_proofs

- `ThrottleHolds`: `TSpec => []GuessesBounded`, for any number of logins, addresses,
  users and predefined servers, any caps (0 is none) and windows. `HitsAccount`: for
  every charge that the window still reaches and that was not forgiven, the key is left
  with a hit of that time. That a login refused for one name has charged none of its
  names needs that a group is charged as one.
- `ChainHolds`: `QSpec => []RequestsAccounted`, for any number of requests and slots
  (0 is no limit), and wherever a handler panics. The invariant says of each request by
  how far it is: what it must have passed (`Gated`), which slots it has (`Held`), what
  it has been told and recorded (`Told`), what it leaves behind (`Settled`); `Shared`
  counts the slots. Of logins it says that who is throttled, forged, rejected or let in
  leaves an authentication event; the ways that leave none are those of `Unrecorded`,
  by the layer that answered.

### Changes_proofs

- `TrailHolds`: `ASpec => []TrailIsHonest`, for any number of edits, files,
  generations and faults: of an edit none of whose events is lost, the file has the
  rows, a marker if they were undone, and none if they were applied, unless the
  commit's answer was lost (`Misled`). `WriteTells`: a call of the sink's `Write` moves
  lines to older generations and adds at most one. `Told` then says what the trail of
  an edit is at each of its stages.
- `DropsCaused`: `ASpec => DropsHaveACause`, an action property, from the same lemma.
- `ProgramsStay`: `PSpec => []ProgramKept`, for any number of savers and droppers and
  any list of routines: an object that is missing was dropped by a user who was told so,
  or in the way of `Displaced` or `Misread`, in which a stale position has put another
  of its name in its place. `Sane` says what a save has read and dropped, `Culprit` who
  took away an object that is missing, `Answers` what that user has been told. That no
  other than the page's is meant is not proved but refuted (`PickedIsMeant`).

### Replicas_proofs

- `TimeoutsKept`: `XSpec => TimeoutsHold`, an action property, for any number of
  replicas and requests, any timeouts, any `Patience` and any failures. That a copy
  or a row which is judged has expired follows from the time-stamps being no later
  than the clock (`Stamps`, `VisitAge`, `SweepAge`). That a sweep does not end a
  session by a row which it has outlived needs `Fresh`: unless a refresh has failed
  or is on its way, the row is behind each touch by `Patience` at most, and behind
  each copy by the margin of `touchEvery` and twice `Patience`.
- `MigrationSound`: `MSpec => []VersionSound`; `RacesAreClean`: `MSpec =>
  []RacesResolve`, for any number of replicas, releases, steps and statements per
  step, failures and deaths. The invariant adds `Sound(r)` to them: at each of its
  stages a replica has built what it is about to record, has read a version that was
  recorded, and finds a version in its way only if another has recorded it or one of
  its own statements has failed. It is needed since the record of a version does not
  say who built its tables. A step of one replica leaves the others sound
  (`OthersSound`), because versions and tables only grow.

### Statements_proofs

- `AccessKept`: `LSpec => []AccessHolds`, for any list of overloads, any grants and
  requests, and any number of changes by others. `LSpec` starts from every set of
  the grants that can be stored (`GrantsOn`), for the accounts, columns and privileges
  of the module. `Resolved` says what a request has
  found: the object of its page, or the overload that has moved there, and an account
  that is there unless somebody has been at work. `Revoking` relates the statements
  that are left to the grants that are left: of those the request means, each is
  stored under the pattern of a statement that is still to run, or was granted
  meanwhile; and what was taken was stored under the other pattern. So the last
  statement leaves none, told as done or not, and the first that fails has taken none.
  It says of "failed" that nothing was done, all was, or one pattern of two; that
  nothing was done is refuted (`FailedDidNothing`).
- `EditsKept`: `ESpec => []EditsAreHonest`, for any number of editors and places for
  rows, any texts in the cells and typed, and forms of any number of rows. `ESpec`
  starts from any legal table of the four columns, and any chores. `Formed`: a form
  has the keys of its rows, each once where keys are unique, and no field is both
  NULL and bytes. `Running`: each statement that is left, and each row written, is
  of a row of the form and as typed there; no two statements have one token, and
  none that is left finds a row already written, unless the form changes keys; the
  tally covers the rows written, which are none, or all, when an error has been
  told. That a key finds one row needs more than `Legal` of the rows there are,
  since a rollback puts rows back: `Isolated` says that no two open transactions
  have written one place, and that rows are legal whichever of the transactions are
  taken back.
- `PagesKept`: `GSpec => []PagesCover`, for a table of any size and columns, any page
  sizes, limits and counts, and any addresses typed. The property is about a page and
  the page before it, and between them lies a request: the invariant, `PagesInv`, says
  of each stage what the next needs. `LinkedTo`: until somebody changes the table, a
  request under way carries the sort keys and hidden columns of the page it comes from,
  and its position is where a page of that size begins. `Counted`: a count that is
  not approximate is that of the rows there are. `PageHolds`: a page of one size that
  has a next is full, which is what makes the next one begin where it ends, and its
  last link is the last multiple of the size. The lemmas say what the operators do:
  `ClampedPos` where a position is put, `ClampedSize` that a page size stays itself,
  `SortsKept` and `HiddenKept` that reading a URL undoes writing it.

### Only model-checked

- Liveness: `EndsReachEveryReplica`, `UnpersistedSettles`, `MarkersDrain`,
  `ClosedReleasesAll`, `WaitsEnd`, `ExpiredLeave`. It is out of the prover's reach
  under fairness.
- `DumpsRestore`, `ScriptReplays`, `TreesRestored`: their modules declare RECURSIVE
  operators, with which the prover's SMT backend does not work.
- `SequencesServe`, `StructureAsAsked`: what they say is the outcome of long
  calculations on records that hold names and texts. The instances enumerate these
  cases.

## What the code does against its own words

Each of these is a violation run, or a claim refuted in one. Where a checked property
has an exception that a comment denies, the claim without it is here.

By themselves:

- `PoolsWrongDatabase`. `ConnFor` compares the database of the login connection
  outside the mutex and loads the connection again under it. A drop of that
  database in between hands the request a connection to the maintenance database.
- `SessionsDenialUndone`. `SSOStart` stores back the identity it has read before a
  callback on the same session was turned away and cleared it.

In `StoreClaims`, of `storage/session.go`:

| Claim | Comment | What happens |
| --- | --- | --- |
| `LogoutIsFinal` | 529-531 | `Delete` gives the admission mutex back before it drops the session from the local store; `repersist` finds it there and writes its row again |
| `UnwrittenNotCondemned` | 437-440 | `Save` marks an id unwritten before it stores the session locally; a sweep in between clears the mark and then ends the session, which no other replica ever saw |
| `UnwrittenAreOurs` | 437-440 | a commit whose answer is lost leaves a row; another replica adopts the session that this one takes for unwritten |
| `MarkedInTime` | 304-305 | a marker is stamped before the row commits; a sweep that begins after the stamp and scans before the commit takes the session for ended |
| `MarkersStay` | 406-408 | two requests adopt one session; an eviction drops the marker of the first copy, which the second relies on |

In `ComponentClaims`:

| Claim | Comment | What happens |
| --- | --- | --- |
| `NoDropBlocked` | `dump/sql.go:185` | the members of a cycle are dropped at one place, after something one of them needs |
| `MarkedIsUndone` | `driver/observer.go:130`, `146` | a commit that was applied and whose answer is lost is marked as rolled back |
| `LinesStayReadable` | `audit/sink.go:14` | an event is appended to the fragment of a torn write |
| `PickedIsMeant` | `handlers/programs.go:20` | the position of an old page names another overload |
| `RestoredIsDropped` | `handlers/programs.go:300` | the list moves between its two readings: what is put back is not what was dropped |
| `DefaultsReestablished` | `postgres/dump_inherit.go:103` | a child that declares its column without a default gets its parent's |
| `PartitionsRideAlong` | `postgres/dump_table.go:48` | a partition exported without its root has no rows in the file |
| `NothingExternal` | `postgres/dump_sequences.go:814` | the sequence of a schema left out is not there on restore |
| `LoginsLeaveEvents` | `server/middleware.go:404` | a login sent home, or whose form cannot be read, leaves no event |
| `RejectedNotFiledOk` | `handlers/handlers.go:266` | a mutation sent to the login page is filed as "ok" |
| `RoutineIsThePages` | `handlers/programs.go:20`, `postgres/dcl.go:91` | a privilege is granted on the overload that has moved up |
| `FailedDidNothing` | `handlers/access.go:147` | "failed" is told of a grant that was applied |
| `FieldsKept`, `TraitsKept`, `NewerKept` | `handlers/structure.go:154` | a default in blanks is trimmed; a trait TableX does not read is lost; what others have changed since is put back |
| `InUseNotEnded` | `storage/session.go:748`, `756` | a replica ends a session by the timestamps of a copy that its own requests have not refreshed, while it is in use on another |

Exceptions that no comment denies stay in the properties and are limits of the code,
as the sections on the modules say.

## Not modelled

Sessions: the bytes of cookies and CSRF tokens; in `SessionStore`, times (they are
in `SessionExpiry`); in `SessionManager`, touching (a session may go past a timeout at
any time). The query budget, history and flashes of a `UserContext`. The re-dial of
the engine's own pool after a connection breaks, which `database/sql` does. The
tokens and signatures of OpenID Connect. The host policy and configuration, pure
functions of their input. Redaction and the text of audit events; metrics; headers
and the bytes of compression. CSV, JSON and XML exports. The catalogue queries that
give PostgreSQL's dump its edges, and its text of types, routines and operators;
what the engines make of a statement is modelled where a property needs it and marked
external. Table maintenance, collations, process lists, search and the query
builder: a form turned into one statement. Rendering, assets, packaging: no state.
