--------------------------- MODULE SessionExpiry ---------------------------
(***************************************************************************)
(* The timeouts of one session that is stored in the metadata database and *)
(* served by several replicas. A replica judges a session by the           *)
(* timestamps of the copy it holds, which only its own requests refresh;   *)
(* the row's last_seen is refreshed by every replica, but at most once per *)
(* touchEvery, and before the request that refreshes it has been judged.   *)
(* A row no copy stands behind is judged by its last_seen, plus the lag    *)
(* that is known.                                                          *)
(*                                                                         *)
(* The clocks of the replicas agree. The row has been written, and nobody  *)
(* logs in or out: SessionStore models unwritten rows, the row cap, logins *)
(* and logouts, and what may come between a statement and the bookkeeping  *)
(* after it, which is one step here.                                       *)
(***************************************************************************)
EXTENDS Naturals, Sequences, TLC

CONSTANTS
    Nodes,            \* the replicas
    Visits,           \* requests that carry the session's cookie
    IdleTimeout,
    AbsoluteTimeout,
    Patience,         \* bound: how long a request may take
    Moves,            \* bound: by how much the clock may move, each time that it does
    LastTick,         \* bound: the last tick the moves may lead to
    MaxCopies,        \* bound: the session objects ever made
    MaxErrors,        \* bound: the statements that fail and the restarts
    MaxVisits,        \* bound: the requests made
    MaxSweeps         \* bound: the sweeps made

ASSUME ExpiryAssumption ==
    /\ {IdleTimeout, AbsoluteTimeout, Patience, LastTick} \subseteq Nat
    /\ MaxCopies \in Nat \ {0}
    /\ Moves \in Seq(SUBSET Nat)

VARIABLES
    tick,
    row,       \* the row's last_seen, or Gone
    copies,      \* the session objects made so far, by any replica
    lastSeen,  \* object -> LastSeen; Created is 0 in all of them
    kept,      \* replica -> the object in its local store, or None
    marked,    \* replica -> whether the generation marker of the id is newer
               \*            than the scan its sweep works with
    touched,   \* replica -> when it last set out to refresh the row, or Never
    visit,     \* request -> [at, on, by, env, stamp, begun]
    sweep,     \* replica -> [at, now, env, by the object it took out]
    errors,
    counter,   \* the requests and sweeps made and the moves of the clock
    use,       \* ghost: the last use of the session, [at, by the object]
    missed     \* ghost: a request was not able to refresh the row

xvars == <<tick, row, copies, lastSeen, kept, marked, touched, visit, sweep,
           errors, counter, use, missed>>

Copies == 1..MaxCopies
None == 0
Gone == LastTick + 1
Never == LastTick + 1

\* NewSessionStore: a quarter of the idle timeout, a tick at the least.
TouchEvery == IF IdleTimeout < 4 THEN 1 ELSE IdleTimeout \div 4

\* A mutation of Expired: it takes the two timeouts for one, the larger.
ExpiredByBoth(seen, now) == now > seen + IdleTimeout /\ now > AbsoluteTimeout

\* expired, for a session created at 0.
Expired(seen, now) == now > seen + IdleTimeout \/ now > AbsoluteTimeout

NoVisit == [at |-> "idle", on |-> None, by |-> None, env |-> 0,
          stamp |-> 0, begun |-> 0]

Resting == [at |-> "idle", now |-> 0, env |-> 0, by |-> None]

\* One replica has started the session and shown its page.
XInit(first) ==
    /\ tick = 0 /\ row = 0 /\ copies = 1
    /\ lastSeen = [o \in Copies |-> 0]
    /\ \E n \in first : /\ kept = [m \in Nodes |-> IF m = n THEN 1 ELSE None]
                        /\ marked = [m \in Nodes |-> m = n]
    /\ touched = [n \in Nodes |-> Never]
    /\ visit = [v \in Visits |-> NoVisit]
    /\ sweep = [n \in Nodes |-> Resting]
    /\ errors = 0 /\ counter = [visits |-> 0, sweeps |-> 0, moves |-> 0]
    /\ use = [at |-> 0, by |-> 1]
    /\ missed = FALSE

Counts(what, bound) == /\ counter[what] < bound
                       /\ counter' = [counter EXCEPT ![what] = @ + 1]

\* A request is not kept waiting for longer than Patience.
Elapse(d) ==
    /\ tick + d <= LastTick /\ Counts("moves", Len(Moves)) /\ d \in Moves[counter.moves + 1]
    /\ \A v \in Visits : visit[v].at # "idle" => tick + d <= visit[v].begun + Patience
    /\ tick' = tick + d
    /\ UNCHANGED <<row, copies, lastSeen, kept, marked, touched, visit, sweep, errors, use, missed>>

Proceed(v, r) == visit' = [visit EXCEPT ![v] = r]
ToEnd(v) == visit' = [visit EXCEPT ![v] = NoVisit]
Errs == errors < MaxErrors /\ errors' = errors + 1

\* Manager.Load, Get: no such row is final for a session that was written; an
\* error leaves the local view.
Lookup(v, n) ==
    /\ visit[v].at = "idle"
    /\ Counts("visits", MaxVisits)
    /\ \/ /\ row # Gone
          /\ Proceed(v, [visit[v] EXCEPT !.at = "found", !.on = n, !.env = row, !.begun = tick])
          /\ UNCHANGED <<errors, missed>>
       \/ /\ Errs /\ kept[n] # None
          /\ Proceed(v, [visit[v] EXCEPT !.at = "judge", !.on = n, !.by = kept[n], !.begun = tick])
          /\ missed' = TRUE
    /\ UNCHANGED <<tick, row, copies, lastSeen, kept, marked, touched, sweep, use>>

\* touch: the time is taken down before the row is written.
Throttled(n) == touched[n] # Never /\ tick < touched[n] + TouchEvery
TouchNext(v, n, o) ==
    IF Throttled(n) THEN /\ Proceed(v, [visit[v] EXCEPT !.at = "judge", !.by = o])
                         /\ UNCHANGED touched
    ELSE /\ Proceed(v, [visit[v] EXCEPT !.at = "refresh", !.by = o, !.stamp = tick])
         /\ touched' = [touched EXCEPT ![n] = tick]

\* Get: the local copy is used as it is, whatever the row says.
Recall(v) ==
    LET n == visit[v].on IN
    /\ visit[v].at = "found"
    /\ IF kept[n] # None THEN TouchNext(v, n, kept[n])
       ELSE Proceed(v, [visit[v] EXCEPT !.at = "adopt"]) /\ UNCHANGED touched
    /\ UNCHANGED <<counter, tick, row, copies, lastSeen, kept, marked, sweep, errors, use, missed>>

\* Get: a copy is made from the envelope that was read.
Adopt(v) ==
    LET n == visit[v].on
        o == copies + 1
    IN
    /\ visit[v].at = "adopt" /\ o \in Copies
    /\ copies' = o
    /\ lastSeen' = [lastSeen EXCEPT ![o] = visit[v].env]
    /\ kept' = [kept EXCEPT ![n] = o]
    /\ marked' = [marked EXCEPT ![n] = TRUE]
    /\ TouchNext(v, n, o)
    /\ UNCHANGED <<counter, tick, row, sweep, errors, use, missed>>

\* touch: an UPDATE of a row that has gone is no error.
Refresh(v) ==
    /\ visit[v].at = "refresh"
    /\ Proceed(v, [visit[v] EXCEPT !.at = "judge"])
    /\ \/ /\ row' = IF row = Gone THEN Gone ELSE visit[v].stamp
          /\ UNCHANGED <<errors, missed>>
       \/ Errs /\ missed' = TRUE /\ UNCHANGED row
    /\ UNCHANGED <<counter, tick, copies, lastSeen, kept, marked, touched, sweep, use>>

\* Load: the copy is judged by its own timestamps, and is used or ended.
Judge(v) ==
    LET o == visit[v].by IN
    /\ visit[v].at = "judge"
    /\ IF Expired(lastSeen[o], tick)
       THEN Proceed(v, [visit[v] EXCEPT !.at = "end"]) /\ UNCHANGED <<lastSeen, use>>
       ELSE /\ ToEnd(v)
            /\ lastSeen' = [lastSeen EXCEPT ![o] = tick]
            /\ use' = [at |-> tick, by |-> o]
    /\ UNCHANGED <<counter, tick, row, copies, kept, marked, touched, sweep, errors, missed>>

LetGo(n) == /\ touched' = [touched EXCEPT ![n] = Never]
            /\ marked' = [marked EXCEPT ![n] = FALSE]

\* Delete: whether or not the statement fails, the replica lets go of the copy.
End(v) ==
    LET n == visit[v].on IN
    /\ visit[v].at = "end"
    /\ \/ row' = Gone /\ UNCHANGED errors
       \/ Errs /\ UNCHANGED row
    /\ LetGo(n)
    /\ kept' = [kept EXCEPT ![n] = None]
    /\ ToEnd(v)
    /\ UNCHANGED <<counter, tick, copies, lastSeen, sweep, use, missed>>

\* reaper: the time is taken, then the epoch; the scan follows.
SweepBegin(n) ==
    /\ sweep[n].at = "idle"
    /\ Counts("sweeps", MaxSweeps)
    /\ sweep' = [sweep EXCEPT ![n] = [Resting EXCEPT !.at = "scan", !.now = tick]]
    /\ marked' = [marked EXCEPT ![n] = FALSE]
    /\ UNCHANGED <<tick, row, copies, lastSeen, kept, touched, visit, errors, use, missed>>

SweepScan(n) ==
    /\ sweep[n].at = "scan"
    /\ \/ /\ sweep' = [sweep EXCEPT ![n] = [@ EXCEPT !.at = "local", !.env = row]]
          /\ UNCHANGED <<errors, kept>>
       \/ /\ Errs
          /\ sweep' = [sweep EXCEPT ![n] = Resting]
          /\ kept' = [kept EXCEPT ![n] =
                         IF @ # None /\ Expired(lastSeen[@], sweep[n].now) THEN None ELSE @]
    /\ UNCHANGED <<counter, tick, row, copies, lastSeen, marked, touched, visit, use, missed>>

\* Reap, on the local store: a copy whose row was not in the scan and that was
\* not published since was ended elsewhere.
SweepLocal(n) ==
    LET o == kept[n]
        stored == sweep[n].env # Gone
        dead == /\ o # None
                /\ (~stored /\ ~marked[n]) \/ Expired(lastSeen[o], sweep[n].now)
    IN
    /\ sweep[n].at = "local"
    /\ IF dead THEN kept' = [kept EXCEPT ![n] = None] /\ LetGo(n)
       ELSE UNCHANGED <<kept, touched, marked>>
    /\ sweep' = [sweep EXCEPT ![n] =
                    IF ~stored THEN Resting
                    ELSE IF dead THEN [@ EXCEPT !.at = "bury", !.by = o] ELSE [@ EXCEPT !.at = "shared"]]
    /\ UNCHANGED <<counter, tick, row, copies, lastSeen, visit, errors, use, missed>>

\* Reap: the row of a session that was kept here.
SweepBury(n) ==
    /\ sweep[n].at = "bury"
    /\ \/ row' = Gone /\ UNCHANGED errors
       \/ Errs /\ UNCHANGED row
    /\ sweep' = [sweep EXCEPT ![n] = Resting]
    /\ UNCHANGED <<counter, tick, copies, lastSeen, kept, marked, touched, visit, use, missed>>

\* Reap: the stored last_seen is a lower bound.
Lagged(env) == env + TouchEvery

\* Reap: a row no copy stands behind, deleted if it still has the last_seen that
\* was judged.
SweepShared(n) ==
    LET env == sweep[n].env IN
    /\ sweep[n].at \in {"shared", "abandoned"}
    /\ \/ /\ sweep[n].at = "shared"
          /\ sweep' = [sweep EXCEPT ![n] =
                         IF kept[n] = None /\ Expired(Lagged(env), sweep[n].now)
                         THEN [@ EXCEPT !.at = "abandoned"] ELSE Resting]
          /\ UNCHANGED <<row, errors>>
       \/ /\ sweep[n].at = "abandoned"
          /\ sweep' = [sweep EXCEPT ![n] = Resting]
          /\ \/ row' = (IF row = env THEN Gone ELSE row) /\ UNCHANGED errors
             \/ Errs /\ UNCHANGED row
    /\ UNCHANGED <<counter, tick, copies, lastSeen, kept, marked, touched, visit, use, missed>>

\* Detach and a new process; its requests and its sweep are cut off.
Restart_(n) ==
    /\ Errs
    /\ kept' = [kept EXCEPT ![n] = None]
    /\ LetGo(n)
    /\ visit' = [v \in Visits |-> IF visit[v].on = n THEN NoVisit ELSE visit[v]]
    /\ sweep' = [sweep EXCEPT ![n] = Resting]
    /\ missed' = (missed \/ \E v \in Visits : visit[v].on = n /\ visit[v].at = "refresh")
    /\ UNCHANGED <<counter, tick, row, copies, lastSeen, use>>

XNext == \/ \E d \in UNION {Moves[i] : i \in 1..Len(Moves)} : Elapse(d)
         \/ \E v \in Visits : \/ \E n \in Nodes : Lookup(v, n)
                             \/ Recall(v) \/ Adopt(v) \/ Refresh(v) \/ Judge(v) \/ End(v)
         \/ \E n \in Nodes : \/ SweepBegin(n) \/ SweepScan(n) \/ SweepLocal(n) \/ SweepBury(n)
                            \/ SweepShared(n) \/ Restart_(n)

XSpec == XInit(Nodes) /\ [][XNext]_xvars

\* A request has set out to refresh the row.
Pending == \E v \in Visits : visit[v].at = "refresh"

\* By how much a request that takes its time may make the row lag: one that began
\* before another and refreshes the row after it takes it back, and one that need
\* not refresh it is answered later than it was seen to.
Behind == tick + 2 * Patience > use.at + IdleTimeout \/ (Patience # 0 /\ Pending)

\* A session is served only within the timeouts, and its row leaves only after
\* one of them: reap and load judge by timestamps that lag behind its last use,
\* in copies, rows and scans, while it is used elsewhere. What the code does
\* allow: (1) a replica ends the session by a copy that was not the one used
\* last; (2) a sweep ends it by a row that could not be refreshed, or not in time;
\* (3) an idle session is served again when a request that came too late for it,
\* but has refreshed its row, could not delete it, or not yet.
ServedInTime == use' # use => /\ tick <= AbsoluteTimeout
                              /\ tick <= use.at + IdleTimeout \/ lastSeen[use'.by] > use.at
EndedInTime ==
    row # Gone /\ row' = Gone =>
        \/ Expired(use.at, tick)
        \/ \E v \in Visits : visit[v].at = "end" /\ visit'[v].at = "idle" /\ visit[v].by # use.by
        \/ \E n \in Nodes : /\ sweep[n].at # sweep'[n].at
                            /\ \/ sweep[n].at = "bury" /\ sweep[n].by # use.by
                               \/ sweep[n].at = "abandoned" /\ (missed \/ Behind)
TimeoutsHold == [][ServedInTime /\ EndedInTime]_xvars

\* "being early would end a session another replica is actively using"
\* (storage/session.go:756-757): a session used within the idle timeout, less the
\* lag of a row, is not ended. MCComponentClaims refutes it.
EndsUnused == row # Gone /\ row' = Gone /\ ~missed =>
                  tick + TouchEvery > use.at + IdleTimeout \/ tick > AbsoluteTimeout
InUseNotEnded == [][EndsUnused]_xvars
=============================================================================
