----------------------------- MODULE AuditTrail -----------------------------
(***************************************************************************)
(* What the audit file tells about the row edits of a session. An edit is  *)
(* a driver.Tx: statements are recorded as they run (those of a CSV import *)
(* together, when its prepared statement closes), nothing is recorded for  *)
(* a commit, and a ROLLBACK marker tells that what was recorded was undone.*)
(* Events reach a FileSink, which rotates at a size and whose close,       *)
(* rename, open, stat and write can each fail.                             *)
(***************************************************************************)
EXTENDS Naturals, Sequences, FiniteSets, SequencesExt, Lists

CONSTANTS
    Edits, Imports,  \* transactions; those of Imports run a prepared statement
    MaxRows,         \* bound: statements an edit runs
    MaxFaults,       \* bound: I/O calls that fail
    MaxBytes         \* audit.max_bytes

\* What a torn write leaves is no event of an edit.
ASSUME TrailAssumption == "torn" \notin Edits

LineBytes == 2       \* the size of an event's line
TornBytes == 1       \* what a write that fails leaves behind

VARIABLES
    edit,     \* edit -> [step, stmts, execs, rows, committed, fate]
    handle,   \* the sink's file: "open", "nil" or "stale" (closed, still set)
    size,     \* the length the sink has counted
    closed,   \* Close has been called
    cur, old, \* the lines of the file and of the generation before it
    rotated,  \* lines of generations a later rotation replaced
    emitted, dropped,  \* the logger's counters
    faults,   \* I/O calls that have failed
    lost      \* edits one of whose events was dropped or glued to a torn line

avars == <<edit, handle, size, closed, cur, old, rotated, emitted, dropped, faults, lost>>
sink == <<handle, size, closed, cur, old, rotated, emitted, dropped, faults, lost>>

Torn == [by |-> "torn", what |-> "torn", rows |-> 0]
Intact(lines) == Omit(lines, {Torn})
Bytes(lines) == LineBytes * Len(Intact(lines)) + TornBytes * (Len(lines) - Len(Intact(lines)))

AInit == /\ edit = [e \in Edits |-> [step |-> "new", stmts |-> 0, execs |-> 0, rows |-> 0,
                                     committed |-> FALSE, fate |-> "open"]]
         /\ handle = "open" /\ size = 0 /\ closed = FALSE
         /\ cur = <<>> /\ old = <<>> /\ rotated = <<>>
         /\ emitted = 0 /\ dropped = 0 /\ faults = 0 /\ lost = {}

(***************************************************************************)
(* FileSink.Write, one critical section. A sink is the record of its file; *)
(* each call may fail while MaxFaults allows.                              *)
(***************************************************************************)
Sink == [handle |-> handle, size |-> size, cur |-> cur, old |-> old,
         rotated |-> rotated, faults |-> faults]

\* A file opened in place of one whose length is known or not.
Opened(s, n) == [s EXCEPT !.handle = "open", !.size = n]
Fault(s) == [s EXCEPT !.faults = @ + 1]
Failing(s) == IF s.faults < MaxFaults THEN {TRUE, FALSE} ELSE {FALSE}

\* The reopening of a fileless sink: the length is 0 when Stat fails.
Reopen(s) ==
    {Opened(s, Bytes(s.cur))} \cup
    IF s.faults < MaxFaults THEN {Opened(Fault(s), 0), Fault(s)} ELSE {}

\* rotateLocked: close, rename, open. A close that fails costs nothing, a rename
\* that fails keeps the file, an open that fails leaves the sink without one.
Renamed(s) == [s EXCEPT !.rotated = @ \o s.old, !.old = s.cur, !.cur = <<>>]
\* Mutations of RotateLocked: a file that could not be renamed is truncated; a
\* close that fails ends the rotation with the closed file still in place.
RotateLockedTruncating(s) ==
    LET shut == [s EXCEPT !.handle = "nil"]
        afterClose == {IF f THEN Fault(shut) ELSE shut : f \in Failing(shut)}
    IN  UNION {{Opened(Renamed(c), 0)} \cup
               (IF c.faults < MaxFaults
                THEN {Opened([Fault(c) EXCEPT !.cur = <<>>], 0), Fault(Renamed(c))} ELSE {}) : c \in afterClose}
RotateLockedGivingUp(s) ==
    LET shut == [s EXCEPT !.handle = "nil"]
    IN  {Opened(Renamed(shut), 0)} \cup
        (IF s.faults < MaxFaults
         THEN {[Fault(s) EXCEPT !.handle = "stale"]} \cup Reopen(Fault(shut)) \cup {Fault(Renamed(shut))}
         ELSE {})
RotateLocked(s) ==
    LET shut == [s EXCEPT !.handle = "nil"]
        afterClose == {IF f THEN Fault(shut) ELSE shut : f \in Failing(shut)}
    IN  UNION {{Opened(Renamed(c), 0)} \cup
               (IF c.faults < MaxFaults
                THEN Reopen(Fault(c)) \cup {Fault(Renamed(c))} ELSE {}) : c \in afterClose}

Put(s, l) == [s EXCEPT !.cur = Append(@, l),
                       !.size = @ + IF l = Torn THEN TornBytes ELSE LineBytes]

\* The line is appended whenever a file is open, and it is glued to what a torn
\* write has left before it.
Append_(s, l) ==
    {[s |-> Put(s, l), ok |-> TRUE]} \cup
    IF s.faults < MaxFaults THEN {[s |-> Fault(s), ok |-> FALSE], [s |-> Put(Fault(s), Torn), ok |-> FALSE]}
    ELSE {}

Write(l) ==
    LET ready == IF handle = "nil" THEN Reopen(Sink) ELSE {Sink}
        full(s) == s.handle = "open" /\ s.size + LineBytes > MaxBytes
        turned == UNION {IF full(s) THEN RotateLocked(s) ELSE {s} : s \in ready}
    IN  UNION {IF s.handle = "open" THEN Append_(s, l) ELSE {[s |-> s, ok |-> FALSE]} : s \in turned}

\* Logger.Emit: an event the sink refuses is counted.
Emit(e, what, n) ==
    /\ emitted' = emitted + 1
    /\ IF closed THEN /\ dropped' = dropped + 1
                      /\ lost' = lost \cup {e}
                      /\ UNCHANGED <<handle, size, cur, old, rotated, faults>>
       ELSE \E w \in Write([by |-> e, what |-> what, rows |-> n]) :
            LET glued == w.ok /\ Len(w.s.cur) > 1 /\ w.s.cur[Len(w.s.cur)-1] = Torn IN
            /\ handle' = w.s.handle /\ size' = w.s.size /\ cur' = w.s.cur
            /\ old' = w.s.old /\ rotated' = w.s.rotated /\ faults' = w.s.faults
            /\ dropped' = dropped + IF w.ok THEN 0 ELSE 1
            /\ lost' = IF w.ok /\ ~glued THEN lost ELSE lost \cup {e}
    /\ UNCHANGED closed

CloseSink == /\ ~closed /\ closed' = TRUE /\ handle' = "nil"
             /\ UNCHANGED <<edit, size, cur, old, rotated, emitted, dropped, faults, lost>>

(***************************************************************************)
(* The edits                                                               *)
(***************************************************************************)
To(e, r) == edit' = [edit EXCEPT ![e] = r]

Begin(e) == /\ edit[e].step = "new"
            /\ To(e, [edit[e] EXCEPT !.step = "run"])
            /\ UNCHANGED sink

\* Tx.Exec: the statement is recorded whatever its outcome; an error ends the edit.
TxExec(e) ==
    /\ e \notin Imports /\ edit[e].step = "run" /\ edit[e].stmts < MaxRows
    /\ \E ok \in BOOLEAN :
        /\ To(e, [edit[e] EXCEPT !.stmts = @ + 1, !.rows = @ + IF ok THEN 1 ELSE 0,
                                 !.step = IF ok THEN "run" ELSE "unwind"])
        /\ Emit(e, "stmt", IF ok THEN 1 ELSE 0)

\* Stmt.Exec: a success is added up, a failure recorded at once.
StmtExec(e) ==
    /\ e \in Imports /\ edit[e].step = "run" /\ edit[e].execs < MaxRows
    /\ \/ /\ To(e, [edit[e] EXCEPT !.execs = @ + 1, !.rows = @ + 1])
          /\ UNCHANGED sink
       \/ /\ To(e, [edit[e] EXCEPT !.stmts = @ + 1, !.step = "unwind"])
          /\ Emit(e, "stmt", 0)

\* A row that cannot be read or an edit that hits nothing: no statement fails.
GiveUp(e) == /\ edit[e].step = "run"
             /\ To(e, [edit[e] EXCEPT !.step = "unwind"])
             /\ UNCHANGED sink

\* Tx.Commit: it succeeds, it fails and all is undone, or its answer is lost.
Commit(e) ==
    /\ edit[e].step = "run"
    /\ \E fate \in {"applied", "undone", "unanswered"} :
        To(e, [edit[e] EXCEPT !.step = "unwind", !.committed = (fate = "applied"),
                              !.fate = IF fate = "undone" THEN "undone" ELSE "applied"])
    /\ UNCHANGED sink

\* The deferred calls, last first: Stmt.Close records what its executions did...
StmtClose(e) ==
    /\ e \in Imports /\ edit[e].step = "unwind"
    /\ IF edit[e].execs > 0
       THEN /\ To(e, [edit[e] EXCEPT !.step = "closed", !.stmts = @ + 1, !.execs = 0])
            /\ Emit(e, "stmt", edit[e].execs)
       ELSE /\ To(e, [edit[e] EXCEPT !.step = "closed"])
            /\ UNCHANGED sink

\* A mutation of Rollback: a commit that failed is taken for one.
RollbackUnlessTried(e) ==
    /\ edit[e].step = IF e \in Imports THEN "closed" ELSE "unwind"
    /\ To(e, [edit[e] EXCEPT !.step = "done",
                             !.fate = IF @ = "open" THEN "undone" ELSE @])
    /\ IF edit[e].fate = "open" /\ edit[e].stmts > 0 THEN Emit(e, "ROLLBACK", 0)
       ELSE UNCHANGED sink

\* ... and Tx.Rollback marks what was recorded and not committed.
Rollback(e) ==
    /\ edit[e].step = IF e \in Imports THEN "closed" ELSE "unwind"
    /\ To(e, [edit[e] EXCEPT !.step = "done",
                             !.fate = IF @ = "open" THEN "undone" ELSE @])
    /\ IF ~edit[e].committed /\ edit[e].stmts > 0 THEN Emit(e, "ROLLBACK", 0)
       ELSE UNCHANGED sink

ANext == \/ \E e \in Edits : \/ Begin(e) \/ TxExec(e) \/ StmtExec(e) \/ GiveUp(e)
                             \/ Commit(e) \/ StmtClose(e) \/ Rollback(e)
         \/ CloseSink

ASpec == AInit /\ [][ANext]_avars

(***************************************************************************)
(* Properties                                                              *)
(***************************************************************************)
Lines == rotated \o old \o cur
LinesBy(es) == [by : es, what : {"stmt", "ROLLBACK", "torn"}, rows : Nat]
Trail(e) == Omit(Lines, LinesBy((Edits \cup {"torn"}) \ {e}))
RowsTold(trail) == LET upTo[n \in 0 .. Len(trail)] ==
                         IF n = 0 THEN 0 ELSE upTo[n - 1] + trail[n].rows
                 IN upTo[Len(trail)]
Marks(trail) == {i \in DOMAIN trail : trail[i].what = "ROLLBACK"}

\* Tx.Rollback: a commit that was applied and whose answer was lost is marked as
\* undone. observer.go:130-131 says that a failed commit has undone everything; it
\* has not (MarkedIsUndone, refuted by MCComponentClaims).
Misled(e) == edit[e].fate = "applied" /\ ~edit[e].committed

\* The trail of an edit tells what became of its rows, and of all of them: what
\* was undone has a marker, once and last, and what has none was applied; and what
\* was applied has none, but where the commit's answer has misled the edit.
\* Whoever else writes and rotates in between.
TrailTellsTheFate ==
    \A e \in Edits \ lost : edit[e].step = "done" =>
        LET trail == Trail(e) IN
        /\ RowsTold(trail) = edit[e].rows
        /\ edit[e].fate = "undone" /\ trail # <<>> => Marks(trail) = {Len(trail)}
        /\ edit[e].fate = "applied" /\ ~Misled(e) => Marks(trail) = {}

\* Nothing goes missing unseen: an event is in the file, in the generation kept
\* or in one replaced, or the dropped counter has it; and the sink never thinks
\* its file is longer than it is. An event may share its line with what a failed
\* write has left there, which sink.go:14-16 excludes (LinesStayReadable,
\* refuted by MCComponentClaims).
EventsAccounted ==
    /\ Len(Intact(Lines)) + dropped = emitted
    /\ handle = "open" => size <= Bytes(cur)

\* What the file says of an edit is what became of it, and it says so of all.
TrailIsHonest == TrailTellsTheFate /\ EventsAccounted

\* Tx.Commit: "On failure the engine has rolled the work back" (observer.go:130);
\* Rollback: in every case it marks, "the work is equally undone" (:146).
\* MCComponentClaims refutes it by a commit whose answer is lost.
MarkedIsUndone ==
    \A e \in Edits \ lost : Marks(Trail(e)) # {} => edit[e].fate = "undone"

\* FileSink: "one self-contained JSON object per line [...] which stays readable
\* after a truncated write" (sink.go:14-16): no event follows a torn one on its line.
\* MCComponentClaims refutes it.
LinesStayReadable ==
    \A i \in 2 .. Len(cur) : cur[i] # Torn => cur[i - 1] # Torn

\* A failure costs the events it is in the way of and no later one: an event is
\* dropped only by an I/O call that fails while it is written, or after Close.
DropsHaveACause == [][dropped' # dropped => faults' # faults \/ closed]_avars
=============================================================================
