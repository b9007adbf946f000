--------------------------- MODULE ScriptReplay ---------------------------
(***************************************************************************)
(* A dump script, as it is written and as an import reads it back. A text  *)
(* is a sequence of tokens: a word, a quote, a separator, the opening of a *)
(* comment, a line end. The writer knows the statements, the reader has to *)
(* find them again: it splits the text at \connect lines, lexes every      *)
(* section under one budget of events before it runs anything, then runs   *)
(* the sections in order and stops at the first error.                     *)
(***************************************************************************)
EXTENDS Naturals, Sequences, FiniteSets, SequencesExt

VARIABLES
    job,      \* the import: [engine, backslash, dbs, max], where dbs lists what was
              \* dumped, [db, objects], and max is max_script_statements
    todo,     \* the statements the lexer found, each with its database
    ran,      \* those that have run
    status    \* "new", "running", "refused", "failed" or "done"

svars == <<job, todo, ran, status>>

Words == {"w", "E", "CREATE", "BEGIN", "CASE", "END", "IF", "DELIMITER"}
Space == {" ", "\n"}

\* The grammar of the engine's scripts (LexerProfile). The import's connection
\* may have backslash escapes off while the dump was written with them on.
Profile(j) == [backslash |-> j.engine = "mysql" /\ j.backslash,
               escapeE |-> j.engine = "postgres", dollar |-> j.engine = "postgres",
               nested |-> j.engine = "postgres", delimiter |-> j.engine = "mysql",
               bracket |-> j.engine = "sqlite"]

(***************************************************************************)
(* The writer                                                              *)
(***************************************************************************)
Swap(c, x, by) == FlattenSeq([n \in DOMAIN c |-> IF c[n] = x THEN by ELSE <<c[n]>>])

\* QuoteString: a quote is doubled, a backslash too where it is an escape.
QuoteString(engine, c) ==
    LET escaped == engine = "mysql" \/ (engine = "postgres" /\ "\\" \in ToSet(c))
        body == Swap(IF escaped THEN Swap(c, "\\", <<"\\", "\\">>) ELSE c, "'", <<"'", "'">>)
    IN  (IF engine = "postgres" /\ escaped THEN <<"E", "'">> ELSE <<"'">>) \o body \o <<"'">>

\* ChooseFrameDelimiter: the first token that is nowhere in the body.
ChooseFrameDelimiter(c) ==
    SelectSeq(<<"$$", ";;", "$$1$$">>, LAMBDA d : d \notin ToSet(c))[1]

\* The statement an object is created with: a row, a routine whose body is quoted
\* with dollars, a trigger with a block of statements, or a body sent as it is.
Statement_(engine, o) ==
    CASE o.kind = "row"    -> <<"w", " ">> \o QuoteString(engine, o.text)
      [] o.kind = "dollar" -> <<"CREATE", " ", "$$">> \o o.text \o <<"$$">>
      [] o.kind = "block"  -> <<"CREATE", " ", "BEGIN", " ">> \o o.text \o <<";", "\n", "END">>
      [] o.kind = "frame"  -> o.text

\* writeDumpScript: a comment, a marker, a guard, then the statement, in an opaque
\* frame or ended by a semicolon.
WriteDumpScript(engine, o) ==
    LET d == ChooseFrameDelimiter(o.text)
    IN  <<"--", " ", "w", "'", "\n">> \o
        (IF o.kind # "frame" THEN Statement_(engine, o) \o <<";", "\n">>
         ELSE <<"--", "collation", "\n", "w", " ", "w", ";", "\n", "--", "frame", d, "\n",
                "DELIMITER", " ", d, "\n">> \o o.text \o <<"\n", d, "\n", "DELIMITER", " ", ";", "\n">>)

Text(j) == FlattenSeq([n \in DOMAIN j.dbs |->
    (IF Len(j.dbs) > 1 THEN <<"\\c", " ", j.dbs[n].db, "\n">> ELSE <<>>) \o
    FlattenSeq([m \in DOMAIN j.dbs[n].objects |-> WriteDumpScript(j.engine, j.dbs[n].objects[m])])])

\* What replaying it should run, where.
Intended(j) == FlattenSeq([n \in DOMAIN j.dbs |-> FlattenSeq([m \in DOMAIN j.dbs[n].objects |->
    LET o == j.dbs[n].objects[m]
        on(s) == [db |-> IF Len(j.dbs) > 1 THEN j.dbs[n].db ELSE "", stmt |-> s]
    IN  (IF o.kind = "frame" THEN <<on(<<"w", " ", "w">>)>> ELSE <<>>) \o
        (IF o.text = <<>> /\ o.kind = "frame" THEN <<>> ELSE <<on(Statement_(j.engine, o))>>)])])

(***************************************************************************)
(* The reader                                                              *)
(***************************************************************************)
First(t, i, P(_)) == CHOOSE k \in i..Len(t)+1 :
                        (k > Len(t) \/ P(k)) /\ \A h \in i..k-1 : ~P(h)
Upto(t, i, x) == First(t, i, LAMBDA k : t[k] = x)
After(t, i, x) == IF Upto(t, i, x) > Len(t) THEN Len(t) + 1 ELSE Upto(t, i, x) + 1

\* skipStringLiteral: a doubled quote and, where they escape, a backslash pair
\* are content.
SkipLiteral(t, i, escapes) ==
    LET RECURSIVE End(_)
        End(k) == IF k > Len(t) THEN Len(t) + 1
                  ELSE IF escapes /\ t[k] = "\\" THEN End(k + 2)
                  ELSE IF t[k] # "'" THEN End(k + 1)
                  ELSE IF k < Len(t) /\ t[k+1] = "'" THEN End(k + 2) ELSE k + 1
    IN  End(i + 1)

SkipBlockComment(t, i, nested) ==
    LET RECURSIVE End(_, _)
        End(k, d) == IF d = 0 \/ k > Len(t) THEN k
                     ELSE End(k + 1, IF t[k] = "*/" THEN d - 1
                                     ELSE IF nested /\ t[k] = "/*" THEN d + 1 ELSE d)
    IN  End(i + 1, 1)

\* Where what opens at i ends: a literal, a dollar quote, a bracketed name.
Span(p, t, i) ==
    CASE t[i] = "'" -> SkipLiteral(t, i, p.backslash \/ (p.escapeE /\ i > 1 /\ t[i-1] = "E"
                                          /\ (i = 2 \/ t[i-2] \notin Words)))
      [] t[i] = "$$" /\ p.dollar -> After(t, i + 1, "$$")
      [] t[i] = "[" /\ p.bracket /\ Upto(t, i, "]") <= Len(t) -> After(t, i, "]")
      [] OTHER -> i + 1

LineStart(t, i) == i = 1 \/ t[i-1] = "\n"

\* consumeFrame: the body is what stands before the line that is the delimiter.
ConsumeFrame(t, i) ==
    LET d == t[i+2]
        e == First(t, i + 8, LAMBDA k : t[k] = d /\ LineStart(t, k) /\ (k = Len(t) \/ t[k+1] = "\n"))
    IN  [body |-> SubSeq(t, i + 8, e - 2), next |-> e + 2]
IsFrame(p, t, i) == /\ p.delimiter /\ i + 7 <= Len(t) /\ t[i+1] = "frame"
                    /\ SubSeq(t, i + 3, i + 7) = <<"\n", "DELIMITER", " ", t[i+2], "\n">>

Trim(t) == LET a == First(t, 1, LAMBDA k : t[k] \notin Space)
               z == Len(t) + 1 - First(Reverse(t), 1, LAMBDA k : Reverse(t)[k] \notin Space)
           IN  SubSeq(t, a, z)

\* Without its leading comment a statement is what was written.
RECURSIVE Bare(_)
Bare(t) == IF t # <<>> /\ t[1] = "--" THEN Bare(Trim(SubSeq(t, After(t, 1, "\n"), Len(t)))) ELSE t

\* The nesting of a routine's BEGIN and CASE; an END is told by what follows it.
InRoutine(t, s) == Bare(Trim(SubSeq(t, s.from, s.i)))[1] = "CREATE"
Word(t, s) ==
    LET w == t[s.i]
        lower == s.ended /\ w # "IF" /\ s.depth > 0
        r == [s EXCEPT !.ended = FALSE, !.depth = IF lower THEN @ - 1 ELSE @]
    IN  IF s.ended /\ w \in {"IF", "CASE"} THEN r
        ELSE IF w \in {"BEGIN", "CASE"} /\ InRoutine(t, s) THEN [r EXCEPT !.depth = @ + 1]
        ELSE [r EXCEPT !.ended = (w = "END" /\ r.depth > 0)]

\* scanCapped: the events of a text.
Fresh(s, k) == [s EXCEPT !.i = k, !.from = k, !.depth = 0, !.ended = FALSE, !.content = FALSE]
Flush(t, s, k) == IF ~s.content THEN Fresh(s, k)
                  ELSE [Fresh(s, k) EXCEPT !.out = Append(@, Bare(Trim(SubSeq(t, s.from, s.i - 1))))]
Marker == <<"marker">>

ScanToken(p, t, s) ==
    LET c == t[s.i]
        past == [s EXCEPT !.i = s.i + 1, !.content = @ \/ c \notin Space]
        between == ~s.content /\ s.depth = 0 /\ s.delim = ";" /\ LineStart(t, s.i)
        lowered == IF s.ended /\ s.depth > 0 THEN s.depth - 1 ELSE s.depth
    IN  CASE s.delim # ";" /\ c = s.delim -> Flush(t, s, s.i + 1)
          [] c = "DELIMITER" /\ p.delimiter /\ ~s.content ->
                [Fresh(s, After(t, s.i, "\n")) EXCEPT
                    !.delim = IF s.i + 2 <= Len(t) THEN t[s.i+2] ELSE @]
          [] c \in Words /\ ~(c = "DELIMITER" /\ p.delimiter /\ ~s.content) ->
                [Word(t, s) EXCEPT !.i = s.i + 1, !.content = TRUE]
          [] c \in {"'", "$$", "["} /\ c # s.delim -> [past EXCEPT !.i = Span(p, t, s.i)]
          [] c = "--" -> IF between /\ IsFrame(p, t, s.i)
                THEN LET f == ConsumeFrame(t, s.i) IN
                     [Fresh(s, f.next) EXCEPT !.out = IF f.body = <<>> THEN @ ELSE Append(@, f.body)]
                ELSE [s EXCEPT !.i = After(t, s.i, "\n"),
                               !.out = IF between /\ s.i < Len(t) /\ t[s.i+1] = "collation"
                                       THEN Append(@, Marker) ELSE @]
          [] c = "/*" -> [s EXCEPT !.i = SkipBlockComment(t, s.i, p.nested)]
          [] c = ";" /\ s.delim = ";" ->
                IF lowered > 0 THEN [past EXCEPT !.depth = lowered, !.ended = FALSE]
                ELSE Flush(t, s, s.i + 1)
          [] OTHER -> past

Scan(p, t) ==
    LET RECURSIVE Go(_)
        Go(s) == IF s.i > Len(t) THEN Flush(t, s, s.i).out ELSE Go(ScanToken(p, t, s))
    IN  Go([i |-> 1, from |-> 1, delim |-> ";", depth |-> 0, ended |-> FALSE,
            content |-> FALSE, out |-> <<>>])

\* SplitRestoreSections, with PostgreSQL's quotes: a \connect that is first on its
\* line, outside of them.
SplitRestoreSections(t) ==
    LET pg == Profile([engine |-> "postgres"])
        cut(s, k) == IF Trim(SubSeq(t, s.from, k - 1)) = <<>> THEN s.out
                     ELSE Append(s.out, [db |-> s.db, text |-> Trim(SubSeq(t, s.from, k - 1))])
        to(s, k, first) == [s EXCEPT !.i = k, !.first = first]
        RECURSIVE Go(_)
        Go(s) == IF s.i > Len(t) THEN cut(s, s.i) ELSE
            LET c == t[s.i] IN Go(
            CASE c = "\n" -> to(s, s.i + 1, TRUE)
              [] c = " " -> to(s, s.i + 1, s.first)
              [] c \in {"'", "$$"} -> to(s, Span(pg, t, s.i), FALSE)
              [] c = "--" -> to(s, Upto(t, s.i, "\n"), s.first)
              [] c = "/*" -> to(s, SkipBlockComment(t, s.i, TRUE), FALSE)
              [] c = "\\c" /\ s.first /\ s.i + 2 <= Len(t) /\ t[s.i+1] = " " ->
                    [i |-> s.i + 3, from |-> s.i + 3, db |-> t[s.i+2], first |-> FALSE, out |-> cut(s, s.i)]
              [] OTHER -> to(s, s.i + 1, FALSE))
    IN  Go([i |-> 1, from |-> 1, db |-> "", first |-> TRUE, out |-> <<>>])

Sections(j) == IF j.engine = "postgres" /\ Len(j.dbs) > 1 THEN SplitRestoreSections(Text(j))
               ELSE <<[db |-> "", text |-> Trim(Text(j))]>>

\* A mutation of Consume: a budget that is used up is taken for one without a cap.
ConsumeUncapped(left, events) ==
    {IF l = 0 THEN 0 ELSE l - events : l \in {l \in left : l = 0 \/ events <= l}}

\* EventBudget: what is left after a section. An exhausted budget refuses every
\* event: it is not a budget without a cap.
Consume(left, events) == {l - events : l \in {l \in left : events <= l}}
Overflows(j, secs) ==
    LET found == [n \in DOMAIN secs |-> Len(Scan(Profile(j), secs[n].text))]
    IN  j.max > 0 /\ (Len(secs) > j.max \/ FoldLeft(Consume, {j.max}, found) = {})

Found(j, secs) == FlattenSeq([n \in DOMAIN secs |->
    LET sec == secs[n]
        stmts == SelectSeq(Scan(Profile(j), sec.text), LAMBDA e : e # Marker)
    IN  [m \in DOMAIN stmts |-> [db |-> sec.db, stmt |-> stmts[m]]]])

(***************************************************************************)
(* The import                                                              *)
(***************************************************************************)
SInit(jobs) == job \in jobs /\ todo = <<>> /\ ran = <<>> /\ status = "new"

\* runRestoreScript: sections, preflight, and only then a connection.
Preflight == /\ status = "new"
             /\ \E secs \in {Sections(job)} :
                \/ Overflows(job, secs) /\ status' = "refused" /\ UNCHANGED todo
                \/ ~Overflows(job, secs) /\ status' = "running" /\ todo' = Found(job, secs)
             /\ UNCHANGED <<job, ran>>

\* forEachStatement: the next statement runs or fails; a failure ends the import.
Execute == /\ status = "running"
           /\ IF todo = <<>> THEN status' = "done" /\ UNCHANGED <<todo, ran>>
              ELSE \/ /\ ran' = Append(ran, Head(todo)) /\ todo' = Tail(todo)
                      /\ UNCHANGED status
                   \/ status' = "failed" /\ UNCHANGED <<todo, ran>>
           /\ UNCHANGED job

SNext == Preflight \/ Execute

-----------------------------------------------------------------------------
\* What was dumped is what is replayed: whatever a value, a name, a trigger or a
\* body holds (quotes, separators, comments, directives), the import runs the
\* statements the writer wrote, each once, in order and on its database, up to the
\* first that fails; and a script with more events than max_script_statements
\* runs nothing in any section, one with no more is not refused.
Events(j) == Len(Intended(j)) + Len(SelectSeq(Text(j), LAMBDA c : c = "collation"))
ScriptReplays ==
    /\ IsPrefix(ran, Intended(job))
    /\ status = "done" => ran = Intended(job)
    /\ status = "refused" => ran = <<>> /\ 0 < job.max /\ job.max < Events(job)
    /\ status \notin {"new", "refused"} => job.max = 0 \/ Events(job) <= job.max
=============================================================================
