--------------------------- MODULE Changes_proofs ---------------------------
(***************************************************************************)
(* Proofs about AuditTrail and ReplaceProgram, which tell what was done to *)
(* the rows and to the stored programs of a database.                      *)
(*                                                                         *)
(* Of the trail: a call of FileSink.Write moves lines from the file to its *)
(* older generations and adds at most one, so that the trail of an edit is *)
(* what Emit has appended to it (WriteTells). Told says what that is by    *)
(* how far the edit has come.                                              *)
(*                                                                         *)
(* Of the programs: Sane says what a user has read and dropped by how far  *)
(* the save or the drop has come, Culprit by whose hand an object that is  *)
(* missing has left, and Answers what one step may do to the two.          *)
(***************************************************************************)
EXTENDS AuditTrail, ReplaceProgram, Lists_proofs, TLAPS

(***************************************************************************)
(* The file sink                                                           *)
(***************************************************************************)
Line == LinesBy(Edits \cup {"torn"})
AllLines(s) == s.rotated \o s.old \o s.cur

\* What holds of a sink, whether or not it has a file.
SinkSound(s) ==
    /\ s \in [handle : {"open", "nil"}, size : Nat, cur : Seq(Line), old : Seq(Line),
              rotated : Seq(Line), faults : Nat]
    /\ s.handle = "open" => s.size <= Bytes(s.cur)

\* A torn write's leavings are a line by nobody.
LEMMA TornIsALine == Torn \in Line /\ Torn.by = "torn"
  BY DEF Torn, Line, LinesBy

\* A file has some bytes, and none when it is empty; a line more has a line's
\* bytes more, a torn one fewer.
LEMMA BytesOfLines ==
    ASSUME NEW lines \in Seq(Line), NEW l \in Line
    PROVE  /\ Bytes(lines) \in Nat
           /\ Bytes(<<>>) = 0
           /\ Bytes(Append(lines, l)) = Bytes(lines) + (IF l = Torn THEN TornBytes ELSE LineBytes)
           /\ Len(Intact(Append(lines, l))) = Len(Intact(lines)) + (IF l = Torn THEN 0 ELSE 1)
           /\ Len(Intact(lines)) \in Nat
<1>1. /\ Intact(lines) \in Seq(Line)
      /\ Len(Intact(lines)) <= Len(lines)
  BY OmitProperties DEF Intact
<1>2. Len(Intact(lines)) \in Nat /\ Len(lines) \in Nat /\ Len(Append(lines, l)) = Len(lines) + 1
  BY <1>1, LenProperties, AppendProperties
<1>3. Intact(Append(lines, l)) = IF l = Torn THEN Intact(lines) ELSE Append(Intact(lines), l)
  BY OmitAppend DEF Intact
<1>4. Len(Intact(Append(lines, l))) = Len(Intact(lines)) + (IF l = Torn THEN 0 ELSE 1)
  <2>1. Len(Append(Intact(lines), l)) = Len(Intact(lines)) + 1  BY <1>1, AppendProperties
  <2> QED  BY <1>2, <1>3, <2>1
<1>5. Intact(<<>>) = <<>> /\ Len(<<>>) = 0  BY OmitEmpty DEF Intact
<1>6. Bytes(<<>>) = 0  BY <1>5 DEF Bytes, LineBytes, TornBytes
<1>7. Bytes(lines) = 2 * Len(Intact(lines)) + (Len(lines) - Len(Intact(lines)))
  BY <1>2 DEF Bytes, LineBytes, TornBytes
<1>8. Bytes(Append(lines, l)) = 2 * Len(Intact(Append(lines, l)))
                                + (Len(Append(lines, l)) - Len(Intact(Append(lines, l))))
  <2>1. Len(Intact(Append(lines, l))) \in Nat  BY <1>2, <1>4
  <2> QED  BY <1>2, <2>1 DEF Bytes, LineBytes, TornBytes
<1>9. Bytes(Append(lines, l)) = Bytes(lines) + (IF l = Torn THEN 1 ELSE 2)
  <2> DEFINE many == Len(Intact(lines))
             more == Len(Intact(Append(lines, l)))
  <2>1. Bytes(lines) = 2 * many + (Len(lines) - many)
        /\ Bytes(Append(lines, l)) = 2 * more + (Len(lines) + 1 - more)
        /\ many \in Nat /\ Len(lines) \in Nat
        /\ more = many + (IF l = Torn THEN 0 ELSE 1)
    BY <1>2, <1>4, <1>7, <1>8
  <2> HIDE DEF many, more
  <2>2. CASE l = Torn  BY <2>1, <2>2
  <2>3. CASE l # Torn  BY <2>1, <2>3
  <2> QED  BY <2>2, <2>3
<1>10. Bytes(lines) \in Nat  BY <1>1, <1>2, <1>7
<1> QED  BY <1>2, <1>4, <1>6, <1>9, <1>10 DEF LineBytes, TornBytes

\* A call of the file that fails changes nothing but the count of faults.
LEMMA FaultKeeps ==
    ASSUME NEW s, SinkSound(s)
    PROVE  /\ SinkSound(Fault(s)) /\ AllLines(Fault(s)) = AllLines(s)
           /\ Fault(s).faults = s.faults + 1 /\ Fault(s).faults > s.faults
           /\ Fault(s).handle = s.handle /\ Fault(s).cur = s.cur
<1> DEFINE f == Fault(s)
<1>1. /\ f = [handle |-> s.handle, size |-> s.size, cur |-> s.cur, old |-> s.old,
              rotated |-> s.rotated, faults |-> s.faults + 1]
  BY DEF SinkSound, Fault
<1> HIDE DEF f
<1>2. f.handle = s.handle /\ f.size = s.size /\ f.cur = s.cur /\ f.old = s.old /\ f.rotated = s.rotated
      /\ f.faults = s.faults + 1
  BY <1>1
<1>3. SinkSound(f) /\ f.faults > s.faults
  BY <1>1, <1>2 DEF SinkSound
<1> QED  BY <1>2, <1>3 DEF f, AllLines

\* Opening the file in place of the one a sink had (Write, rotateLocked) keeps its
\* lines.
LEMMA OpenedKeeps ==
    ASSUME NEW s, SinkSound(s), NEW n \in Nat, n <= Bytes(s.cur)
    PROVE  /\ SinkSound(Opened(s, n)) /\ AllLines(Opened(s, n)) = AllLines(s)
           /\ Opened(s, n).faults = s.faults /\ Opened(s, n).handle = "open"
<1> DEFINE f == Opened(s, n)
<1>0. s \in [handle : {"open", "nil"}, size : Nat, cur : Seq(Line), old : Seq(Line),
              rotated : Seq(Line), faults : Nat]
  BY DEF SinkSound
<1> DEFINE g == [s EXCEPT !.handle = "open"]
<1>4. g = [handle |-> "open", size |-> s.size, cur |-> s.cur, old |-> s.old,
           rotated |-> s.rotated, faults |-> s.faults]
  BY <1>0
<1>5. f = [g EXCEPT !.size = n]
  BY DEF Opened
<1> HIDE DEF f, g
<1>1. f = [handle |-> "open", size |-> n, cur |-> s.cur, old |-> s.old,
           rotated |-> s.rotated, faults |-> s.faults]
  BY <1>4, <1>5
<1>2. f.handle = "open" /\ f.size = n /\ f.cur = s.cur /\ f.old = s.old /\ f.rotated = s.rotated
      /\ f.faults = s.faults
  BY <1>1
<1>3. SinkSound(f)
  BY <1>0, <1>1, <1>2 DEF SinkSound
<1> QED  BY <1>2, <1>3 DEF f, AllLines

\* Reopening a sink that has no file (Write, rotateLocked) keeps its lines; it
\* stays without one only by a fault.
LEMMA ReopenKeeps ==
    ASSUME NEW s, SinkSound(s), NEW w \in Reopen(s)
    PROVE  /\ SinkSound(w) /\ AllLines(w) = AllLines(s)
           /\ w.faults >= s.faults
           /\ w.handle = "open" \/ w = Fault(s)
<1>1. Bytes(s.cur) \in Nat  BY BytesOfLines, TornIsALine DEF SinkSound
<1>2. w \in {Opened(s, Bytes(s.cur)), Opened(Fault(s), 0), Fault(s)}  BY DEF Reopen
<1>3. s.faults \in Nat /\ 0 <= Bytes(s.cur) /\ Bytes(s.cur) <= Bytes(s.cur)
  BY <1>1 DEF SinkSound
<1>4. CASE w = Opened(s, Bytes(s.cur))
  BY <1>1, <1>3, <1>4, OpenedKeeps
<1>5. CASE w = Opened(Fault(s), 0)
  <2>1. SinkSound(Fault(s)) /\ AllLines(Fault(s)) = AllLines(s)
        /\ Fault(s).faults > s.faults /\ Fault(s).cur = s.cur
    BY FaultKeeps
  <2>2. /\ SinkSound(w) /\ AllLines(w) = AllLines(Fault(s))
        /\ w.faults = Fault(s).faults /\ w.handle = "open"
    BY <1>3, <1>5, <2>1, OpenedKeeps
  <2>3. w.faults \in Nat  BY <2>2 DEF SinkSound
  <2> QED  BY <1>3, <2>1, <2>2, <2>3
<1>6. CASE w = Fault(s)
  <2>1. SinkSound(w) /\ AllLines(w) = AllLines(s) /\ w.faults > s.faults
    BY <1>6, FaultKeeps
  <2>2. w.faults \in Nat  BY <2>1 DEF SinkSound
  <2> QED  BY <1>3, <1>6, <2>1, <2>2
<1> QED  BY <1>2, <1>4, <1>5, <1>6

\* A rotation moves the lines of the file to the generation before it, and ends
\* with a file open or with one more fault.
LEMMA RotateKeeps ==
    ASSUME NEW s, SinkSound(s), NEW w \in RotateLocked(s)
    PROVE  /\ SinkSound(w) /\ AllLines(w) = AllLines(s)
           /\ w.faults >= s.faults
           /\ w.handle = "open" \/ w.faults > s.faults
<1> DEFINE shut == [s EXCEPT !.handle = "nil"]
<1>1. SinkSound(shut) /\ AllLines(shut) = AllLines(s) /\ shut.faults = s.faults
  BY DEF SinkSound, AllLines
<1>2. PICK c \in {shut, Fault(shut)} :
        w = Opened(Renamed(c), 0) \/ w \in Reopen(Fault(c)) \/ w = Fault(Renamed(c))
  BY DEF RotateLocked, Failing
<1>3. SinkSound(c) /\ AllLines(c) = AllLines(s) /\ c.faults >= s.faults /\ c.handle = "nil"
  <2>1. shut.handle = "nil" BY DEF SinkSound
  <2> HIDE DEF shut
  <2>2. CASE c = shut  BY <1>1, <2>1, <2>2 DEF SinkSound
  <2>3. CASE c = Fault(shut)
    <3>1. /\ SinkSound(c) /\ AllLines(c) = AllLines(shut)
          /\ c.faults > shut.faults /\ c.handle = shut.handle
      BY <1>1, <2>3, FaultKeeps
    <3>2. c.faults \in Nat /\ s.faults \in Nat  BY <1>1, <3>1 DEF SinkSound
    <3> QED  BY <1>1, <2>1, <3>1, <3>2
  <2> QED  BY <1>2, <2>2, <2>3
<1> HIDE DEF shut
<1>4. /\ SinkSound(Renamed(c)) /\ AllLines(Renamed(c)) = AllLines(c)
      /\ Renamed(c).faults = c.faults /\ Renamed(c).handle = "nil"
  <2>1. /\ c.rotated \in Seq(Line) /\ c.old \in Seq(Line) /\ c.cur \in Seq(Line)
        /\ Renamed(c).rotated = c.rotated \o c.old
        /\ Renamed(c).old = c.cur /\ Renamed(c).cur = <<>>
    BY <1>3 DEF SinkSound, Renamed
  <2>2. (c.rotated \o c.old) \in Seq(Line) /\ ((c.rotated \o c.old) \o c.cur) \in Seq(Line)
    BY <2>1, ConcatProperties
  <2>3. ((c.rotated \o c.old) \o c.cur) \o <<>> = (c.rotated \o c.old) \o c.cur
    BY <2>2, ConcatEmptySeq
  <2>4. AllLines(Renamed(c)) = AllLines(c)  BY <2>1, <2>3 DEF AllLines
  <2>5. <<>> \in Seq(Line)  OBVIOUS
  <2>6. SinkSound(Renamed(c)) /\ Renamed(c).faults = c.faults /\ Renamed(c).handle = "nil"
    BY <1>3, <2>2, <2>5 DEF SinkSound, Renamed
  <2> QED  BY <2>4, <2>6
<1>5. CASE w = Opened(Renamed(c), 0)
  <2>1. Bytes(Renamed(c).cur) = 0  BY BytesOfLines, TornIsALine, <1>3 DEF SinkSound, Renamed
  <2>2. SinkSound(w) /\ AllLines(w) = AllLines(Renamed(c)) /\ w.faults = Renamed(c).faults /\ w.handle = "open"
    BY <1>4, <1>5, <2>1, OpenedKeeps
  <2> QED  BY <1>3, <1>4, <2>2
<1>6. CASE w \in Reopen(Fault(c))
  <2>1. SinkSound(Fault(c)) /\ AllLines(Fault(c)) = AllLines(c) /\ Fault(c).faults = c.faults + 1
    BY <1>3, FaultKeeps
  <2>2. w.faults >= Fault(c).faults /\ SinkSound(w) /\ AllLines(w) = AllLines(Fault(c))
    BY <1>6, <2>1, ReopenKeeps
  <2>3. c.faults \in Nat /\ s.faults \in Nat /\ w.faults \in Nat
    BY <1>3, <2>2 DEF SinkSound
  <2> QED  BY <1>3, <2>1, <2>2, <2>3
<1>7. CASE w = Fault(Renamed(c))
  <2>1. SinkSound(w) /\ AllLines(w) = AllLines(Renamed(c)) /\ w.faults = Renamed(c).faults + 1
    BY <1>4, <1>7, FaultKeeps
  <2>3. c.faults \in Nat /\ s.faults \in Nat
    BY <1>3 DEF SinkSound
  <2> QED  BY <1>3, <1>4, <2>1, <2>3
<1> QED  BY <1>2, <1>5, <1>6, <1>7

\* Appending to the second of two lists appends to both.
LEMMA AppendAtEnd ==
    ASSUME NEW S, NEW a \in Seq(S), NEW b \in Seq(S), NEW e \in S
    PROVE  a \o Append(b, e) = Append(a \o b, e)
<1> DEFINE m == <<e>>
<1>1. m \in Seq(S)  OBVIOUS
<1>2. Append(b, e) = b \o m /\ a \o b \in Seq(S)  BY AppendIsConcat, ConcatProperties
<1>3. Append(a \o b, e) = (a \o b) \o m  BY <1>2, AppendIsConcat
<1> HIDE DEF m
<1>4. (a \o b) \o m = a \o (b \o m)  BY <1>1, ConcatAssociative
<1> QED  BY <1>2, <1>3, <1>4

\* A sink with another file, whatever its fields are made of.
LEMMA CurReplaced ==
    ASSUME NEW A, NEW B, NEW C, NEW D,
           NEW s \in [handle : A, size : B, cur : C, old : C, rotated : C, faults : D], NEW new \in C
    PROVE  [s EXCEPT !.cur = new] = [handle |-> s.handle, size |-> s.size, cur |-> new,
                                     old |-> s.old, rotated |-> s.rotated, faults |-> s.faults]
  OBVIOUS

\* A line appended to the file is the last of all lines.
LEMMA PutKeeps ==
    ASSUME NEW s, SinkSound(s), NEW l \in Line
    PROVE  /\ SinkSound(Put(s, l)) /\ AllLines(Put(s, l)) = Append(AllLines(s), l)
           /\ Put(s, l).faults = s.faults
<1> DEFINE more == IF l = Torn THEN TornBytes ELSE LineBytes
           longer == Append(s.cur, l)
           g == [s EXCEPT !.cur = longer]
           f == Put(s, l)
<1>0. s \in [handle : {"open", "nil"}, size : Nat, cur : Seq(Line), old : Seq(Line),
              rotated : Seq(Line), faults : Nat]
  BY DEF SinkSound
<1>1. more \in Nat  BY DEF LineBytes, TornBytes
<1>2. Bytes(Append(s.cur, l)) = Bytes(s.cur) + more /\ Bytes(s.cur) \in Nat
  BY <1>0, BytesOfLines
<1>3. Append(s.cur, l) \in Seq(Line)  BY <1>0, AppendProperties
<1>4. g = [handle |-> s.handle, size |-> s.size, cur |-> longer, old |-> s.old,
           rotated |-> s.rotated, faults |-> s.faults]
  <2> DEFINE A == {"open", "nil"}
             C == Seq(Line)
  <2>1. s \in [handle : A, size : Nat, cur : C, old : C, rotated : C, faults : Nat] /\ longer \in C
    BY <1>0, <1>3
  <2> HIDE DEF A, C, longer
  <2> QED  BY <2>1, CurReplaced
<1>5. f = [g EXCEPT !.size = @ + more]  BY DEF Put
<1>11. longer = Append(s.cur, l)  OBVIOUS
<1> HIDE DEF f, g, more, longer
<1>6. f = [handle |-> s.handle, size |-> s.size + more, cur |-> longer, old |-> s.old,
           rotated |-> s.rotated, faults |-> s.faults]
  BY <1>4, <1>5
<1>7. /\ f.handle = s.handle /\ f.size = s.size + more /\ f.cur = Append(s.cur, l)
      /\ f.old = s.old /\ f.rotated = s.rotated /\ f.faults = s.faults
  BY <1>6, <1>11
<1>8. f \in [handle : {"open", "nil"}, size : Nat, cur : Seq(Line), old : Seq(Line),
             rotated : Seq(Line), faults : Nat]
  BY <1>0, <1>1, <1>3, <1>6, <1>11
<1>9. f.handle = "open" => f.size <= Bytes(f.cur)
  BY <1>0, <1>1, <1>2, <1>7 DEF SinkSound
<1>10. AllLines(f) = Append(AllLines(s), l)
  <2> DEFINE before == s.rotated \o s.old
  <2>1. before \in Seq(Line) /\ s.cur \in Seq(Line)  BY <1>0, ConcatProperties
  <2>2. AllLines(f) = before \o Append(s.cur, l) /\ AllLines(s) = before \o s.cur
    BY <1>7, <1>11 DEF AllLines
  <2> HIDE DEF before
  <2>3. before \o Append(s.cur, l) = Append(before \o s.cur, l)  BY <2>1, AppendAtEnd
  <2> QED  BY <2>2, <2>3
<1> QED  BY <1>7, <1>8, <1>9, <1>10 DEF f, SinkSound

\* What a call of Write leaves of the sink s: the line at the end, or a fault and
\* at most what a torn write leaves.
Wrote(s, l, w) ==
    /\ SinkSound(w.s)
    /\ w.ok => AllLines(w.s) = Append(AllLines(s), l)
    /\ ~w.ok => /\ w.s.faults > s.faults
                /\ AllLines(w.s) = AllLines(s) \/ AllLines(w.s) = Append(AllLines(s), Torn)

\* A write to an open file (the second half of Write).
LEMMA AppendTells ==
    ASSUME NEW s, SinkSound(s), NEW l \in Line, NEW w \in Append_(s, l)
    PROVE  Wrote(s, l, w)
<1>1. w \in {[s |-> Put(s, l), ok |-> TRUE], [s |-> Fault(s), ok |-> FALSE],
             [s |-> Put(Fault(s), Torn), ok |-> FALSE]}
  BY DEF Append_
<1>2. CASE w = [s |-> Put(s, l), ok |-> TRUE]
  <2>1. w.s = Put(s, l) /\ w.ok = TRUE  BY <1>2
  <2> QED  BY <2>1, PutKeeps DEF Wrote
<1>3. CASE w = [s |-> Fault(s), ok |-> FALSE]
  <2>1. w.s = Fault(s) /\ w.ok = FALSE  BY <1>3
  <2> QED  BY <2>1, FaultKeeps DEF Wrote
<1>4. CASE w = [s |-> Put(Fault(s), Torn), ok |-> FALSE]
  <2>1. w.s = Put(Fault(s), Torn) /\ w.ok = FALSE  BY <1>4
  <2>2. SinkSound(Fault(s)) /\ AllLines(Fault(s)) = AllLines(s) /\ Fault(s).faults > s.faults
    BY FaultKeeps
  <2>3. /\ SinkSound(w.s) /\ AllLines(w.s) = Append(AllLines(Fault(s)), Torn)
        /\ w.s.faults = Fault(s).faults
    BY <2>1, <2>2, TornIsALine, PutKeeps
  <2> QED  BY <2>1, <2>2, <2>3 DEF Wrote
<1> QED  BY <1>1, <1>2, <1>3, <1>4

\* FileSink.Write as a whole: reopening a lost file, rotating a full one, and the
\* append.
LEMMA WriteTells ==
    ASSUME SinkSound(Sink), NEW l \in Line, NEW w \in Write(l)
    PROVE  Wrote(Sink, l, w)
<1> DEFINE ready == IF handle = "nil" THEN Reopen(Sink) ELSE {Sink}
           full(s) == s.handle = "open" /\ s.size + LineBytes > MaxBytes
           turned == UNION {IF full(s) THEN RotateLocked(s) ELSE {s} : s \in ready}
<1>1. PICK t \in turned : w \in IF t.handle = "open" THEN Append_(t, l) ELSE {[s |-> t, ok |-> FALSE]}
  BY DEF Write
<1>2. PICK s \in ready : t \in IF full(s) THEN RotateLocked(s) ELSE {s}
  BY <1>1
<1>3. /\ SinkSound(s) /\ AllLines(s) = AllLines(Sink) /\ s.faults >= Sink.faults
      /\ s.handle = "open" \/ s.faults > Sink.faults
  <2>0. Sink.handle = handle /\ Sink.handle \in {"open", "nil"} /\ Sink.faults \in Nat
    BY DEF Sink, SinkSound
  <2>1. CASE handle = "nil"
    <3>1. s \in Reopen(Sink)  BY <2>1, <1>2
    <3>2. /\ SinkSound(s) /\ AllLines(s) = AllLines(Sink) /\ s.faults >= Sink.faults
          /\ s.handle = "open" \/ s = Fault(Sink)
      BY <3>1, ReopenKeeps
    <3> QED  BY <3>2, FaultKeeps
  <2>2. CASE handle # "nil"
    <3>1. s = Sink  BY <2>2, <1>2
    <3> QED  BY <2>0, <2>2, <3>1
  <2> QED  BY <2>1, <2>2
<1>4. /\ SinkSound(t) /\ AllLines(t) = AllLines(Sink) /\ t.faults >= Sink.faults
      /\ t.handle = "open" \/ t.faults > Sink.faults
  <2>1. CASE full(s)
    <3>1. t \in RotateLocked(s)  BY <2>1, <1>2
    <3>2. /\ SinkSound(t) /\ AllLines(t) = AllLines(s) /\ t.faults >= s.faults
          /\ t.handle = "open" \/ t.faults > s.faults
      BY <1>3, <3>1, RotateKeeps
    <3>3. t.faults \in Nat /\ s.faults \in Nat /\ Sink.faults \in Nat
      BY <1>3, <3>2 DEF SinkSound
    <3> QED  BY <1>3, <3>2, <3>3
  <2>2. CASE ~full(s)
    BY <1>2, <1>3, <2>2
  <2> QED  BY <2>1, <2>2
<1> HIDE DEF ready, full, turned
<1>5. CASE t.handle = "open"
  <2>1. Wrote(t, l, w)  BY <1>1, <1>4, <1>5, AppendTells
  <2>2. SinkSound(w.s)  BY <2>1 DEF Wrote
  <2>3. w.s.faults \in Nat /\ t.faults \in Nat /\ Sink.faults \in Nat
    BY <1>4, <2>2 DEF SinkSound
  <2> QED  BY <1>4, <2>1, <2>3 DEF Wrote
<1>6. CASE t.handle # "open"
  <2>1. w.s = t /\ w.ok = FALSE  BY <1>1, <1>6
  <2> QED  BY <1>4, <1>6, <2>1 DEF Wrote
<1> QED  BY <1>5, <1>6

-----------------------------------------------------------------------------
\* One step of the recursion of RowsTold, on the function g it defines.
RowsStep(g, trail, n) == IF n = 0 THEN 0 ELSE g[n - 1] + trail[n].rows

\* The recursive function of RowsTold exists, for a trail of any length.
LEMMA RowsExist ==
    ASSUME NEW trail, NEW m \in Nat
    PROVE  \E g : g = [n \in 0 .. m |-> RowsStep(g, trail, n)]
<1> DEFINE T == {k \in Nat : \E g : g = [n \in 0 .. k |-> RowsStep(g, trail, n)]}
<1>1. 0 \in T
  <2> DEFINE g == [n \in 0 .. 0 |-> 0]
  <2>1. g = [n \in 0 .. 0 |-> RowsStep(g, trail, n)]  BY DEF RowsStep
  <2> QED  BY <2>1
<1>2. ASSUME NEW k \in Nat, k \in T PROVE k + 1 \in T
  <2>1. PICK g : g = [n \in 0 .. k |-> RowsStep(g, trail, n)]  BY <1>2
  <2> DEFINE h == [n \in 0 .. k + 1 |-> RowsStep(g, trail, n)]
  <2>2. \A n \in 0 .. k : h[n] = g[n]  BY <2>1
  <2>3. h = [n \in 0 .. k + 1 |-> RowsStep(g, trail, n)]  OBVIOUS
  <2> HIDE DEF h
  <2>4. \A n \in 0 .. k + 1 : RowsStep(h, trail, n) = RowsStep(g, trail, n)
    <3> SUFFICES ASSUME NEW n \in 0 .. k + 1, n # 0
                 PROVE  h[n - 1] = g[n - 1]
      BY DEF RowsStep
    <3>1. n - 1 \in 0 .. k  OBVIOUS
    <3> QED  BY <3>1, <2>2
  <2>5. h = [n \in 0 .. k + 1 |-> RowsStep(h, trail, n)]  BY <2>3, <2>4
  <2> QED  BY <2>5
<1> HIDE DEF T
<1>3. m \in T  BY <1>1, <1>2, NaturalsBySteps
<1> QED  BY <1>3 DEF T

\* RowsTold, by the steps of its recursion.
LEMMA RowsSteps ==
    ASSUME NEW trail \in Seq(Line)
    PROVE  \E upTo : /\ upTo = [n \in 0 .. Len(trail) |-> RowsStep(upTo, trail, n)]
                     /\ RowsTold(trail) = upTo[Len(trail)]
<1> DEFINE upTo == CHOOSE g : g = [n \in 0 .. Len(trail) |-> RowsStep(g, trail, n)]
<1>1. upTo = [n \in 0 .. Len(trail) |-> RowsStep(upTo, trail, n)]
  BY RowsExist, LenProperties
<1>2. RowsTold(trail) = upTo[Len(trail)]
  BY DEF RowsTold, RowsStep
<1> HIDE DEF upTo
<1> QED  BY <1>1, <1>2

\* An empty trail tells of no row.
LEMMA RowsOfNone == RowsTold(<<>>) = 0
<1>1. <<>> \in Seq(Line) /\ Len(<<>>) = 0  OBVIOUS
<1>2. PICK none : /\ none = [n \in 0 .. Len(<<>>) |-> RowsStep(none, <<>>, n)]
                  /\ RowsTold(<<>>) = none[Len(<<>>)]
  BY <1>1, RowsSteps
<1> QED  BY <1>1, <1>2 DEF RowsStep

\* A line more of a trail tells of as many more rows as it says.
LEMMA RowsOfMore ==
    ASSUME NEW trail \in Seq(Line), NEW l \in Line
    PROVE  RowsTold(Append(trail, l)) = RowsTold(trail) + l.rows /\ RowsTold(trail) \in Nat
<1> DEFINE more == Append(trail, l)
<1>1. /\ Len(trail) \in Nat /\ more \in Seq(Line) /\ Len(more) = Len(trail) + 1 /\ more[Len(trail) + 1] = l
      /\ \A i \in 1 .. Len(trail) : more[i] = trail[i]
  BY LenProperties, AppendProperties
<1> HIDE DEF more
<1>2. PICK f : /\ f = [n \in 0 .. Len(trail) |-> RowsStep(f, trail, n)]
               /\ RowsTold(trail) = f[Len(trail)]
  BY RowsSteps
<1>3. PICK g : /\ g = [n \in 0 .. Len(more) |-> RowsStep(g, more, n)]
               /\ RowsTold(more) = g[Len(more)]
  BY <1>1, RowsSteps
<1> DEFINE Same == {n \in Nat : n <= Len(trail) => g[n] = f[n]}
<1>4. 0 \in Same
  BY <1>1, <1>2, <1>3 DEF RowsStep
<1>5. ASSUME NEW n \in Nat, n \in Same PROVE n + 1 \in Same
  <2> SUFFICES ASSUME n + 1 <= Len(trail) PROVE g[n + 1] = f[n + 1]  OBVIOUS
  <2>1. /\ g[n] = f[n] /\ more[n + 1] = trail[n + 1]
        /\ n + 1 \in 0 .. Len(trail) /\ n + 1 \in 0 .. Len(more) /\ n + 1 # 0 /\ (n + 1) - 1 = n
    BY <1>1, <1>5
  <2>2. f[n + 1] = RowsStep(f, trail, n + 1)  BY <1>2, <2>1
  <2>3. g[n + 1] = RowsStep(g, more, n + 1)  BY <1>3, <2>1
  <2> QED  BY <2>1, <2>2, <2>3 DEF RowsStep
<1> HIDE DEF Same
<1>6. Len(trail) \in Same  BY <1>1, <1>4, <1>5, NaturalsBySteps
<1>7. g[Len(trail)] = f[Len(trail)]  BY <1>1, <1>6 DEF Same
<1>8. Len(more) \in 0 .. Len(more) /\ Len(more) # 0 /\ Len(more) - 1 = Len(trail)  BY <1>1
<1>9. g[Len(more)] = RowsStep(g, more, Len(more))  BY <1>3, <1>8
<1>10. RowsTold(more) = RowsTold(trail) + l.rows
  BY <1>1, <1>2, <1>3, <1>7, <1>8, <1>9 DEF RowsStep
<1> DEFINE Right == {n \in Nat : n <= Len(trail) => f[n] \in Nat}
<1>11. 0 \in Right  BY <1>1, <1>2 DEF RowsStep
<1>12. ASSUME NEW n \in Nat, n \in Right PROVE n + 1 \in Right
  <2> SUFFICES ASSUME n + 1 <= Len(trail) PROVE f[n + 1] \in Nat  OBVIOUS
  <2>1. /\ f[n] \in Nat /\ trail[n + 1] \in Line
        /\ n + 1 \in 0 .. Len(trail) /\ n + 1 # 0 /\ (n + 1) - 1 = n
    BY <1>1, <1>12
  <2>2. f[n + 1] = RowsStep(f, trail, n + 1)  BY <1>2, <2>1
  <2>3. trail[n + 1].rows \in Nat  BY <2>1 DEF Line, LinesBy
  <2> QED  BY <2>1, <2>2, <2>3 DEF RowsStep
<1> HIDE DEF Right
<1>13. Len(trail) \in Right  BY <1>1, <1>11, <1>12, NaturalsBySteps
<1>14. RowsTold(trail) \in Nat  BY <1>1, <1>2, <1>13 DEF Right
<1> QED  BY <1>10, <1>14 DEF more

-----------------------------------------------------------------------------
(***************************************************************************)
(* The trail of an edit                                                    *)
(***************************************************************************)
EditSteps == {"new", "run", "unwind", "closed", "done"}
EditState == [step : EditSteps, stmts : Nat, execs : Nat, rows : Nat, committed : BOOLEAN,
              fate : {"open", "applied", "undone"}]

TrailTypes ==
    /\ SinkSound(Sink)
    /\ closed \in BOOLEAN /\ emitted \in Nat /\ dropped \in Nat /\ lost \subseteq Edits
    /\ edit \in [Edits -> EditState]

\* How an edit stands by its step: what it is told goes with what became of it,
\* and only a prepared statement has executions that are not yet recorded.
Stands(e) ==
    /\ edit[e].step \in {"new", "run"} => edit[e].fate = "open"
    /\ edit[e].committed => edit[e].fate = "applied"
    /\ edit[e].execs > 0 => e \in Imports /\ edit[e].step \notin {"closed", "done"}

\* What the trail of an edit says while all its events have arrived.
Told(e) ==
    /\ edit[e].step # "done" => Len(Trail(e)) = edit[e].stmts /\ Marks(Trail(e)) = {}
    /\ RowsTold(Trail(e)) + edit[e].execs = edit[e].rows
    /\ edit[e].step = "done" =>
          /\ edit[e].fate # "open"
          /\ Marks(Trail(e)) # {} <=> ~edit[e].committed /\ Trail(e) # <<>>
          /\ Marks(Trail(e)) \subseteq {Len(Trail(e))}

TrailInv ==
    /\ TrailTypes /\ EventsAccounted
    /\ \A e \in Edits : Stands(e) /\ (e \notin lost => Told(e))

\* The lines are those of the sink; an edit's trail is a list of lines.
LEMMA TrailsAreLists ==
    ASSUME TrailTypes, NEW e \in Edits
    PROVE  Lines \in Seq(Line) /\ Trail(e) \in Seq(Line) /\ Lines = AllLines(Sink)
<1>1. rotated \in Seq(Line) /\ old \in Seq(Line) /\ cur \in Seq(Line)
  BY DEF TrailTypes, SinkSound, Sink
<1>2. rotated \o old \in Seq(Line)  BY <1>1, ConcatProperties
<1>3. (rotated \o old) \o cur \in Seq(Line)  BY <1>1, <1>2, ConcatProperties
<1>4. Lines \in Seq(Line)  BY <1>3 DEF Lines
<1>5. Trail(e) \in Seq(Line)  BY <1>4, OmitProperties DEF Trail
<1>6. Sink.rotated = rotated /\ Sink.old = old /\ Sink.cur = cur  BY DEF Sink
<1> QED  BY <1>4, <1>5, <1>6 DEF Lines, AllLines

\* A line more is a mark more if it is a ROLLBACK marker.
LEMMA MarksOfMore ==
    ASSUME NEW trail \in Seq(Line), NEW l \in Line
    PROVE  /\ Len(Append(trail, l)) = Len(trail) + 1 /\ Len(trail) \in Nat
           /\ Append(trail, l) # <<>>
           /\ Marks(Append(trail, l)) =
                Marks(trail) \cup (IF l.what = "ROLLBACK" THEN {Len(trail) + 1} ELSE {})
<1> DEFINE m == Append(trail, l)
<1>1. DOMAIN trail = 1 .. Len(trail) /\ Len(trail) \in Nat  BY LenProperties
<1>2. /\ m \in Seq(Line) /\ Len(m) = Len(trail) + 1 /\ m[Len(trail) + 1] = l
      /\ \A i \in 1 .. Len(trail) : m[i] = trail[i]
  BY AppendProperties
<1>3. DOMAIN m = (1 .. Len(trail)) \cup {Len(trail) + 1} /\ m # <<>>
  BY <1>1, <1>2, LenProperties, EmptySeq
<1> HIDE DEF m
<1>4. Marks(m) = Marks(trail) \cup (IF l.what = "ROLLBACK" THEN {Len(trail) + 1} ELSE {})
  BY <1>1, <1>2, <1>3 DEF Marks
<1> QED  BY <1>1, <1>2, <1>3, <1>4 DEF m

\* Logger.Emit: an event of e reaches the end of its trail, or e is lost; the
\* other trails are as they were, and the counters account for it.
LEMMA EmitTells ==
    ASSUME TrailTypes, EventsAccounted, NEW e \in Edits,
           NEW what \in {"stmt", "ROLLBACK"}, NEW n \in Nat, Emit(e, what, n)
    PROVE  /\ SinkSound(Sink') /\ closed' = closed /\ emitted' \in Nat /\ dropped' \in Nat
           /\ EventsAccounted'
           /\ lost \subseteq lost' /\ lost' \subseteq lost \cup {e}
           /\ dropped' # dropped => faults' # faults \/ closed
           /\ \A o \in Edits \ {e} : Trail(o)' = Trail(o)
           /\ e \notin lost' => Trail(e)' = Append(Trail(e), [by |-> e, what |-> what, rows |-> n])
<1> DEFINE l == [by |-> e, what |-> what, rows |-> n]
<1>1. l \in Line /\ l # Torn /\ l.by = e
  BY TrailAssumption DEF Line, LinesBy, Torn
<1>2. Sink \in [handle : {"open", "nil"}, size : Nat, cur : Seq(Line), old : Seq(Line),
                rotated : Seq(Line), faults : Nat]
      /\ Sink.faults = faults /\ Sink.handle = handle /\ Sink.size = size /\ Sink.cur = cur
  BY DEF TrailTypes, SinkSound, Sink
<1>3. Lines \in Seq(Line) /\ Lines = AllLines(Sink)
      /\ \A o \in Edits : Trail(o) = Omit(Lines, LinesBy((Edits \cup {"torn"}) \ {o}))
  BY TrailsAreLists DEF Trail
<1>4. emitted' = emitted + 1 /\ emitted \in Nat /\ dropped \in Nat /\ lost \subseteq Edits /\ closed' = closed
  BY DEF Emit, TrailTypes
<1> HIDE DEF l
<1>5. CASE closed
  <2>1. /\ dropped' = dropped + 1 /\ lost' = lost \cup {e}
        /\ UNCHANGED <<handle, size, cur, old, rotated, faults>>
    BY <1>5 DEF Emit
  <2>2. Sink' = Sink  BY <2>1 DEF Sink
  <2>3. Lines' = Lines  BY <2>1 DEF Lines
  <2>4. \A o \in Edits : Trail(o)' = Trail(o)  BY <2>3 DEF Trail
  <2>5. Len(Intact(Lines)) \in Nat  BY <1>3, TornIsALine, BytesOfLines
  <2>6. EventsAccounted'  BY <1>4, <2>1, <2>3, <2>5 DEF EventsAccounted
  <2>7. SinkSound(Sink')  BY <2>2 DEF TrailTypes
  <2>8. dropped' \in Nat /\ emitted' \in Nat  BY <1>4, <2>1
  <2> QED  BY <1>4, <1>5, <2>1, <2>4, <2>6, <2>7, <2>8
<1>6. CASE ~closed
  <2>1. PICK w \in Write(l) :
          /\ handle' = w.s.handle /\ size' = w.s.size /\ cur' = w.s.cur
          /\ old' = w.s.old /\ rotated' = w.s.rotated /\ faults' = w.s.faults
          /\ dropped' = dropped + (IF w.ok THEN 0 ELSE 1)
          /\ lost \subseteq lost' /\ lost' \subseteq lost \cup {e}
          /\ e \notin lost' => w.ok
    BY <1>6 DEF Emit, l
  <2>2. Wrote(Sink, l, w)  BY <1>1, WriteTells DEF TrailTypes
  <2>3. w.s \in [handle : {"open", "nil"}, size : Nat, cur : Seq(Line), old : Seq(Line),
                 rotated : Seq(Line), faults : Nat]
    BY <2>2 DEF Wrote, SinkSound
  <2>4. Sink' = w.s
    <3>1. Sink' = [handle |-> w.s.handle, size |-> w.s.size, cur |-> w.s.cur, old |-> w.s.old,
                   rotated |-> w.s.rotated, faults |-> w.s.faults]
      BY <2>1 DEF Sink
    <3> QED  BY <2>3, <3>1
  <2>5. Lines' = AllLines(w.s)  BY <2>1 DEF Lines, AllLines
  <2>6. w.ok => Lines' = Append(Lines, l)  BY <1>3, <2>2, <2>5 DEF Wrote
  <2>7. ~w.ok => /\ faults' > faults
                 /\ Lines' = Lines \/ Lines' = Append(Lines, Torn)
    BY <1>2, <1>3, <2>1, <2>2, <2>5 DEF Wrote
  <2>8. ASSUME NEW o \in Edits, o = e => ~w.ok PROVE Trail(o)' = Trail(o)
    <3> DEFINE gone == LinesBy((Edits \cup {"torn"}) \ {o})
    <3>1. Trail(o)' = Omit(Lines', gone) /\ Trail(o) = Omit(Lines, gone)  BY DEF Trail
    <3>2. Torn \in gone  BY TrailAssumption DEF Torn, LinesBy
    <3>3. o # e => l \in gone  BY DEF l, LinesBy
    <3> HIDE DEF gone
    <3>4. CASE Lines' = Lines  BY <3>1, <3>4
    <3>5. CASE Lines' = Append(Lines, Torn)
      <4>1. Omit(Lines', gone) = Omit(Lines, gone)  BY <1>3, <3>2, <3>5, TornIsALine, OmitAppend
      <4> QED  BY <3>1, <4>1
    <3>6. CASE w.ok
      <4>1. l \in gone  BY <2>8, <3>3, <3>6
      <4>2. Omit(Append(Lines, l), gone) = Omit(Lines, gone)  BY <1>1, <1>3, <4>1, OmitAppend
      <4> QED  BY <2>6, <3>1, <3>6, <4>2
    <3> QED  BY <2>7, <3>4, <3>5, <3>6
  <2>9. w.ok => Trail(e)' = Append(Trail(e), l)
    <3> DEFINE gone == LinesBy((Edits \cup {"torn"}) \ {e})
    <3>1. Trail(e)' = Omit(Lines', gone) /\ Trail(e) = Omit(Lines, gone)  BY DEF Trail
    <3>2. l \notin gone  BY <1>1 DEF LinesBy
    <3> HIDE DEF gone
    <3>3. Omit(Append(Lines, l), gone) = Append(Omit(Lines, gone), l)
      BY <1>1, <1>3, <3>2, OmitAppend
    <3> QED  BY <2>6, <3>1, <3>3
  <2>10. EventsAccounted'
    <3>1. Len(Intact(Lines)) \in Nat
          /\ Len(Intact(Append(Lines, l))) = Len(Intact(Lines)) + 1
          /\ Len(Intact(Append(Lines, Torn))) = Len(Intact(Lines))
      BY <1>1, <1>3, TornIsALine, BytesOfLines
    <3>2. Len(Intact(Lines')) = Len(Intact(Lines)) + (IF w.ok THEN 1 ELSE 0)
      <4>1. CASE w.ok  BY <2>6, <3>1, <4>1
      <4>2. CASE ~w.ok
        <5>1. Len(Intact(Lines')) = Len(Intact(Lines))
          <6>1. CASE Lines' = Lines  BY <6>1
          <6>2. CASE Lines' = Append(Lines, Torn)  BY <3>1, <6>2
          <6> QED  BY <2>7, <4>2, <6>1, <6>2
        <5> QED  BY <3>1, <4>2, <5>1
      <4> QED  BY <4>1, <4>2
    <3>3. Len(Intact(Lines')) + dropped' = emitted'
      BY <1>4, <2>1, <3>1, <3>2 DEF EventsAccounted
    <3>4. handle' = "open" => size' <= Bytes(cur')
      BY <2>1, <2>2 DEF Wrote, SinkSound
    <3> QED  BY <3>3, <3>4 DEF EventsAccounted
  <2>11. SinkSound(Sink')  BY <2>2, <2>4 DEF Wrote
  <2>12. dropped' \in Nat /\ emitted' \in Nat  BY <1>4, <2>1
  <2>13. dropped' # dropped => faults' # faults
    <3>1. faults \in Nat /\ faults' \in Nat  BY <1>2, <2>1, <2>3
    <3> QED  BY <1>4, <2>1, <2>7, <3>1
  <2> QED  BY <1>4, <2>1, <2>8, <2>9, <2>10, <2>11, <2>12, <2>13 DEF l
<1> QED  BY <1>5, <1>6

\* A step of an edit keeps the account of the file and the trails of the others:
\* what is left to show is how the edit itself stands.
LEMMA StepKeeps ==
    ASSUME TrailInv, NEW e \in Edits, NEW r \in EditState, To(e, r),
           \/ UNCHANGED sink
           \/ \E what \in {"stmt", "ROLLBACK"}, n \in Nat : Emit(e, what, n),
           Stands(e)', e \notin lost' => Told(e)'
    PROVE  TrailInv' /\ (dropped' # dropped => faults' # faults \/ closed)
<1>1. edit' \in [Edits -> EditState] /\ edit'[e] = r /\ \A o \in Edits \ {e} : edit'[o] = edit[o]
  BY DEF To, TrailInv, TrailTypes
<1> DEFINE OthersKept ==
              /\ SinkSound(Sink') /\ closed' \in BOOLEAN /\ emitted' \in Nat /\ dropped' \in Nat
              /\ EventsAccounted'
              /\ lost \subseteq lost' /\ lost' \subseteq Edits
              /\ dropped' # dropped => faults' # faults \/ closed
              /\ \A o \in Edits \ {e} : Trail(o)' = Trail(o)
<1>2. OthersKept
  <2>1. CASE UNCHANGED sink
    <3>1. Sink' = Sink /\ Lines' = Lines /\ closed' = closed /\ emitted' = emitted
          /\ dropped' = dropped /\ lost' = lost
      BY <2>1 DEF sink, Sink, Lines
    <3>2. EventsAccounted'
      BY <2>1, <3>1 DEF EventsAccounted, TrailInv, sink
    <3>3. \A o \in Edits : Trail(o)' = Trail(o)  BY <3>1 DEF Trail
    <3> QED  BY <3>1, <3>2, <3>3 DEF TrailInv, TrailTypes
  <2>2. ASSUME NEW what \in {"stmt", "ROLLBACK"}, NEW n \in Nat, Emit(e, what, n)
        PROVE  OthersKept
    BY <2>2, EmitTells DEF TrailInv, TrailTypes
  <2> QED  BY <2>1, <2>2
<1>3. ASSUME NEW o \in Edits \ {e} PROVE Stands(o)' /\ (o \notin lost' => Told(o)')
  <2>1. edit'[o] = edit[o] /\ Trail(o)' = Trail(o)  BY <1>1, <1>2, <1>3
  <2>2. Stands(o) /\ (o \notin lost => Told(o))  BY <1>3 DEF TrailInv
  <2>3. Stands(o)'  BY <2>1, <2>2 DEF Stands
  <2>4. o \notin lost' => Told(o)'  BY <1>2, <2>1, <2>2 DEF Told
  <2> QED  BY <2>3, <2>4
<1>4. TrailTypes'  BY <1>1, <1>2 DEF TrailTypes
<1> QED  BY <1>2, <1>3, <1>4 DEF TrailInv

\* What an event appended to the trail of an edit adds to it.
LEMMA TrailGrows ==
    ASSUME TrailTypes, NEW e \in Edits, NEW what \in {"stmt", "ROLLBACK"}, NEW n \in Nat,
           Trail(e)' = Append(Trail(e), [by |-> e, what |-> what, rows |-> n])
    PROVE  /\ Len(Trail(e)') = Len(Trail(e)) + 1 /\ Len(Trail(e)) \in Nat
           /\ Trail(e)' # <<>>
           /\ Marks(Trail(e)') = Marks(Trail(e)) \cup (IF what = "ROLLBACK" THEN {Len(Trail(e)) + 1} ELSE {})
           /\ RowsTold(Trail(e)') = RowsTold(Trail(e)) + n /\ RowsTold(Trail(e)) \in Nat
<1> DEFINE l == [by |-> e, what |-> what, rows |-> n]
<1>1. l \in Line /\ l.what = what /\ l.rows = n  BY DEF Line, LinesBy
<1>2. Trail(e) \in Seq(Line)  BY TrailsAreLists
<1> HIDE DEF l
<1>3. /\ Len(Append(Trail(e), l)) = Len(Trail(e)) + 1 /\ Len(Trail(e)) \in Nat
      /\ Append(Trail(e), l) # <<>>
      /\ Marks(Append(Trail(e), l)) = Marks(Trail(e)) \cup (IF what = "ROLLBACK" THEN {Len(Trail(e)) + 1} ELSE {})
  BY <1>1, <1>2, MarksOfMore
<1>4. RowsTold(Append(Trail(e), l)) = RowsTold(Trail(e)) + n /\ RowsTold(Trail(e)) \in Nat
  BY <1>1, <1>2, RowsOfMore
<1>5. Trail(e)' = Append(Trail(e), l)  BY DEF l
<1> QED  BY <1>3, <1>4, <1>5

\* An edit that emits nothing keeps its trail.
LEMMA TrailStays ==
    ASSUME UNCHANGED sink
    PROVE  lost' = lost /\ \A e \in Edits : Trail(e)' = Trail(e)
<1>1. Lines' = Lines /\ lost' = lost  BY DEF sink, Lines
<1> QED  BY <1>1 DEF Trail

\* BeginObserved: nothing is recorded for it.
LEMMA BeginKeeps ==
    ASSUME TrailInv, NEW e \in Edits, Begin(e)
    PROVE  TrailInv' /\ (dropped' # dropped => faults' # faults \/ closed)
<1> DEFINE r == [edit[e] EXCEPT !.step = "run"]
<1>1. To(e, r) /\ UNCHANGED sink /\ edit[e] \in EditState /\ edit[e].step = "new"
  BY DEF Begin, TrailInv, TrailTypes
<1>2. r \in EditState /\ r.step = "run" /\ r.stmts = edit[e].stmts /\ r.execs = edit[e].execs
      /\ r.rows = edit[e].rows /\ r.committed = edit[e].committed /\ r.fate = edit[e].fate
  BY <1>1 DEF EditState, EditSteps
<1> HIDE DEF r
<1>3. edit'[e] = r  BY <1>1 DEF To, TrailInv, TrailTypes
<1>4. lost' = lost /\ Trail(e)' = Trail(e)  BY <1>1, TrailStays
<1>5. Stands(e) /\ (e \notin lost => Told(e))  BY DEF TrailInv
<1>6. Stands(e)'  BY <1>1, <1>2, <1>3, <1>5 DEF Stands
<1>7. e \notin lost' => Told(e)'  BY <1>1, <1>2, <1>3, <1>4, <1>5 DEF Told
<1> QED  BY <1>1, <1>2, <1>6, <1>7, StepKeeps

\* Tx.Exec: a statement and its event.
LEMMA TxExecKeeps ==
    ASSUME TrailInv, NEW e \in Edits, TxExec(e)
    PROVE  TrailInv' /\ (dropped' # dropped => faults' # faults \/ closed)
<1>1. PICK ok \in BOOLEAN :
        /\ To(e, [edit[e] EXCEPT !.stmts = @ + 1, !.rows = @ + IF ok THEN 1 ELSE 0,
                                 !.step = IF ok THEN "run" ELSE "unwind"])
        /\ Emit(e, "stmt", IF ok THEN 1 ELSE 0)
  BY DEF TxExec
<1> DEFINE n == IF ok THEN 1 ELSE 0
           a == edit[e].stmts + 1
           b == edit[e].rows + n
           c == IF ok THEN "run" ELSE "unwind"
           r == [edit[e] EXCEPT !.stmts = a, !.rows = b, !.step = c]
<1>2. To(e, r) /\ Emit(e, "stmt", n) /\ n \in Nat  BY <1>1
<1>3. edit[e] \in EditState /\ edit[e].step = "run" /\ e \notin Imports  BY DEF TxExec, TrailInv, TrailTypes
<1> HIDE DEF n
<1>4. r \in EditState /\ r.step \in {"run", "unwind"} /\ r.stmts = edit[e].stmts + 1 /\ r.execs = edit[e].execs
      /\ r.rows = edit[e].rows + n /\ r.committed = edit[e].committed /\ r.fate = edit[e].fate
  <2>1. a \in Nat /\ b \in Nat /\ c \in {"run", "unwind"}  BY <1>2, <1>3 DEF EditState
  <2>2. a = edit[e].stmts + 1 /\ b = edit[e].rows + n  OBVIOUS
  <2> HIDE DEF a, b, c
  <2> QED  BY <1>3, <2>1, <2>2 DEF EditState, EditSteps
<1> HIDE DEF r
<1>5. edit'[e] = r  BY <1>2 DEF To, TrailInv, TrailTypes
<1>6. Stands(e) /\ (e \notin lost => Told(e)) /\ TrailTypes /\ EventsAccounted  BY DEF TrailInv
<1>7. /\ lost \subseteq lost'
      /\ e \notin lost' => Trail(e)' = Append(Trail(e), [by |-> e, what |-> "stmt", rows |-> n])
  BY <1>2, <1>6, EmitTells
<1>8. Stands(e)'  BY <1>3, <1>4, <1>5, <1>6 DEF Stands
<1>9. e \notin lost' => Told(e)'
  <2> SUFFICES ASSUME e \notin lost' PROVE Told(e)'  OBVIOUS
  <2>1. /\ Len(Trail(e)') = Len(Trail(e)) + 1 /\ Len(Trail(e)) \in Nat
        /\ Marks(Trail(e)') = Marks(Trail(e))
        /\ RowsTold(Trail(e)') = RowsTold(Trail(e)) + n /\ RowsTold(Trail(e)) \in Nat
    BY <1>2, <1>6, <1>7, TrailGrows
  <2>2. /\ Len(Trail(e)) = edit[e].stmts /\ Marks(Trail(e)) = {}
        /\ RowsTold(Trail(e)) + edit[e].execs = edit[e].rows /\ edit[e].execs = 0
    BY <1>3, <1>6, <1>7 DEF Told, Stands, EditState
  <2> QED  BY <1>2, <1>3, <1>4, <1>5, <2>1, <2>2 DEF Told, EditState
<1> QED  BY <1>2, <1>4, <1>8, <1>9, StepKeeps

\* Stmt.Exec: a success waits for the close, a failure is recorded at once.
LEMMA StmtExecKeeps ==
    ASSUME TrailInv, NEW e \in Edits, StmtExec(e)
    PROVE  TrailInv' /\ (dropped' # dropped => faults' # faults \/ closed)
<1>1. edit[e] \in EditState /\ edit[e].step = "run" /\ e \in Imports  BY DEF StmtExec, TrailInv, TrailTypes
<1>2. Stands(e) /\ (e \notin lost => Told(e)) /\ TrailTypes /\ EventsAccounted  BY DEF TrailInv
<1>3. CASE To(e, [edit[e] EXCEPT !.execs = @ + 1, !.rows = @ + 1]) /\ UNCHANGED sink
  <2> DEFINE a == edit[e].execs + 1
             b == edit[e].rows + 1
             r == [edit[e] EXCEPT !.execs = a, !.rows = b]
  <2>1. a \in Nat /\ b \in Nat  BY <1>1 DEF EditState
  <2>2. To(e, r)  BY <1>3
  <2>3. a = edit[e].execs + 1 /\ b = edit[e].rows + 1  OBVIOUS
  <2> HIDE DEF a, b
  <2>4. r \in EditState /\ r.step = "run" /\ r.stmts = edit[e].stmts /\ r.execs = a
        /\ r.rows = b /\ r.committed = edit[e].committed /\ r.fate = edit[e].fate
    BY <1>1, <2>1 DEF EditState, EditSteps
  <2> HIDE DEF r
  <2>5. edit'[e] = r  BY <2>2 DEF To, TrailInv, TrailTypes
  <2>6. lost' = lost /\ Trail(e)' = Trail(e)  BY <1>3, TrailStays
  <2>7. Stands(e)'  BY <1>1, <1>2, <2>4, <2>5 DEF Stands
  <2>8. e \notin lost' => Told(e)'
    <3>1. RowsTold(Trail(e)) \in Nat  BY <1>2, TrailsAreLists, TornIsALine, RowsOfMore
    <3> QED  BY <1>1, <1>2, <2>3, <2>4, <2>5, <2>6, <3>1 DEF Told, EditState
  <2> QED  BY <1>3, <2>2, <2>4, <2>7, <2>8, StepKeeps
<1>4. CASE To(e, [edit[e] EXCEPT !.stmts = @ + 1, !.step = "unwind"]) /\ Emit(e, "stmt", 0)
  <2> DEFINE a == edit[e].stmts + 1
             r == [edit[e] EXCEPT !.stmts = a, !.step = "unwind"]
  <2>1. a \in Nat  BY <1>1 DEF EditState
  <2>2. To(e, r)  BY <1>4
  <2>3. a = edit[e].stmts + 1  OBVIOUS
  <2> HIDE DEF a
  <2>4. r \in EditState /\ r.step = "unwind" /\ r.stmts = a /\ r.execs = edit[e].execs
        /\ r.rows = edit[e].rows /\ r.committed = edit[e].committed /\ r.fate = edit[e].fate
    BY <1>1, <2>1 DEF EditState, EditSteps
  <2> HIDE DEF r
  <2>5. edit'[e] = r  BY <2>2 DEF To, TrailInv, TrailTypes
  <2>6. /\ lost \subseteq lost'
        /\ e \notin lost' => Trail(e)' = Append(Trail(e), [by |-> e, what |-> "stmt", rows |-> 0])
    BY <1>2, <1>4, EmitTells
  <2>7. Stands(e)'  BY <1>1, <1>2, <2>4, <2>5 DEF Stands
  <2>8. e \notin lost' => Told(e)'
    <3> SUFFICES ASSUME e \notin lost' PROVE Told(e)'  OBVIOUS
    <3>1. /\ Len(Trail(e)') = Len(Trail(e)) + 1 /\ Len(Trail(e)) \in Nat
          /\ Marks(Trail(e)') = Marks(Trail(e))
          /\ RowsTold(Trail(e)') = RowsTold(Trail(e)) + 0 /\ RowsTold(Trail(e)) \in Nat
      BY <1>2, <2>6, TrailGrows
    <3> QED  BY <1>1, <1>2, <2>3, <2>4, <2>5, <2>6, <3>1 DEF Told, EditState
  <2> QED  BY <1>4, <2>2, <2>4, <2>7, <2>8, StepKeeps
<1> QED  BY <1>3, <1>4 DEF StmtExec

\* An edit that gives up of itself (importCSV) records nothing.
LEMMA GiveUpKeeps ==
    ASSUME TrailInv, NEW e \in Edits, GiveUp(e)
    PROVE  TrailInv' /\ (dropped' # dropped => faults' # faults \/ closed)
<1> DEFINE r == [edit[e] EXCEPT !.step = "unwind"]
<1>1. To(e, r) /\ UNCHANGED sink /\ edit[e] \in EditState /\ edit[e].step = "run"
  BY DEF GiveUp, TrailInv, TrailTypes
<1>2. r \in EditState /\ r.step = "unwind" /\ r.stmts = edit[e].stmts /\ r.execs = edit[e].execs
      /\ r.rows = edit[e].rows /\ r.committed = edit[e].committed /\ r.fate = edit[e].fate
  BY <1>1 DEF EditState, EditSteps
<1> HIDE DEF r
<1>3. edit'[e] = r  BY <1>1 DEF To, TrailInv, TrailTypes
<1>4. lost' = lost /\ Trail(e)' = Trail(e)  BY <1>1, TrailStays
<1>5. Stands(e) /\ (e \notin lost => Told(e))  BY DEF TrailInv
<1>6. Stands(e)'  BY <1>1, <1>2, <1>3, <1>5 DEF Stands
<1>7. e \notin lost' => Told(e)'  BY <1>1, <1>2, <1>3, <1>4, <1>5 DEF Told
<1> QED  BY <1>1, <1>2, <1>6, <1>7, StepKeeps

\* Tx.Commit: whatever it is told, the trail has nothing of it.
LEMMA CommitKeeps ==
    ASSUME TrailInv, NEW e \in Edits, Commit(e)
    PROVE  TrailInv' /\ (dropped' # dropped => faults' # faults \/ closed)
<1>1. PICK fate \in {"applied", "undone", "unanswered"} :
        To(e, [edit[e] EXCEPT !.step = "unwind", !.committed = (fate = "applied"),
                              !.fate = IF fate = "undone" THEN "undone" ELSE "applied"])
  BY DEF Commit
<1> DEFINE c == (fate = "applied")
           f == IF fate = "undone" THEN "undone" ELSE "applied"
           r == [edit[e] EXCEPT !.step = "unwind", !.committed = c, !.fate = f]
<1>2. To(e, r) /\ UNCHANGED sink /\ edit[e] \in EditState /\ edit[e].step = "run"
  BY <1>1 DEF Commit, TrailInv, TrailTypes
<1>3. c \in BOOLEAN /\ f \in {"applied", "undone"} /\ (c => f = "applied")  OBVIOUS
<1> HIDE DEF c, f
<1>4. r \in EditState /\ r.step = "unwind" /\ r.stmts = edit[e].stmts /\ r.execs = edit[e].execs
      /\ r.rows = edit[e].rows /\ r.committed = c /\ r.fate = f
  BY <1>2, <1>3 DEF EditState, EditSteps
<1> HIDE DEF r
<1>5. edit'[e] = r  BY <1>2 DEF To, TrailInv, TrailTypes
<1>6. lost' = lost /\ Trail(e)' = Trail(e)  BY <1>2, TrailStays
<1>7. Stands(e) /\ (e \notin lost => Told(e))  BY DEF TrailInv
<1>8. Stands(e)'  BY <1>2, <1>3, <1>4, <1>5, <1>7 DEF Stands
<1>9. e \notin lost' => Told(e)'  BY <1>2, <1>4, <1>5, <1>6, <1>7 DEF Told
<1> QED  BY <1>2, <1>4, <1>8, <1>9, StepKeeps

\* Stmt.Close: what the executions did is one event.
LEMMA StmtCloseKeeps ==
    ASSUME TrailInv, NEW e \in Edits, StmtClose(e)
    PROVE  TrailInv' /\ (dropped' # dropped => faults' # faults \/ closed)
<1>1. edit[e] \in EditState /\ edit[e].step = "unwind" /\ e \in Imports  BY DEF StmtClose, TrailInv, TrailTypes
<1>2. Stands(e) /\ (e \notin lost => Told(e)) /\ TrailTypes /\ EventsAccounted  BY DEF TrailInv
<1>3. CASE edit[e].execs > 0
  <2> DEFINE a == edit[e].stmts + 1
             n == edit[e].execs
             r == [edit[e] EXCEPT !.step = "closed", !.stmts = a, !.execs = 0]
  <2>1. a \in Nat /\ n \in Nat  BY <1>1 DEF EditState
  <2>2. To(e, r) /\ Emit(e, "stmt", n)  BY <1>3 DEF StmtClose
  <2>3. a = edit[e].stmts + 1 /\ n = edit[e].execs  OBVIOUS
  <2> HIDE DEF a, n
  <2>4. r \in EditState /\ r.step = "closed" /\ r.stmts = a /\ r.execs = 0
        /\ r.rows = edit[e].rows /\ r.committed = edit[e].committed /\ r.fate = edit[e].fate
    BY <1>1, <2>1 DEF EditState, EditSteps
  <2> HIDE DEF r
  <2>5. edit'[e] = r  BY <2>2 DEF To, TrailInv, TrailTypes
  <2>6. /\ lost \subseteq lost'
        /\ e \notin lost' => Trail(e)' = Append(Trail(e), [by |-> e, what |-> "stmt", rows |-> n])
    BY <1>2, <2>1, <2>2, EmitTells
  <2>7. Stands(e)'  BY <1>1, <1>2, <2>4, <2>5 DEF Stands
  <2>8. e \notin lost' => Told(e)'
    <3> SUFFICES ASSUME e \notin lost' PROVE Told(e)'  OBVIOUS
    <3>1. /\ Len(Trail(e)') = Len(Trail(e)) + 1 /\ Len(Trail(e)) \in Nat
          /\ Marks(Trail(e)') = Marks(Trail(e))
          /\ RowsTold(Trail(e)') = RowsTold(Trail(e)) + n /\ RowsTold(Trail(e)) \in Nat
      BY <1>2, <2>1, <2>6, TrailGrows
    <3>2. edit[e].rows \in Nat /\ edit[e].stmts \in Nat  BY <1>1 DEF EditState
    <3>3. /\ Len(Trail(e)) = edit[e].stmts /\ Marks(Trail(e)) = {}
          /\ RowsTold(Trail(e)) + n = edit[e].rows
      BY <1>1, <1>2, <2>3, <2>6 DEF Told
    <3>4. /\ Len(Trail(e)') = r.stmts /\ Marks(Trail(e)') = {}
          /\ RowsTold(Trail(e)') + r.execs = r.rows
      BY <2>1, <2>3, <2>4, <3>1, <3>2, <3>3
    <3> QED  BY <2>4, <2>5, <3>4 DEF Told
  <2> QED  BY <2>1, <2>2, <2>4, <2>7, <2>8, StepKeeps
<1>4. CASE ~(edit[e].execs > 0)
  <2> DEFINE r == [edit[e] EXCEPT !.step = "closed"]
  <2>1. To(e, r) /\ UNCHANGED sink  BY <1>4 DEF StmtClose
  <2>2. r \in EditState /\ r.step = "closed" /\ r.stmts = edit[e].stmts /\ r.execs = edit[e].execs
        /\ r.rows = edit[e].rows /\ r.committed = edit[e].committed /\ r.fate = edit[e].fate
    BY <1>1 DEF EditState, EditSteps
  <2> HIDE DEF r
  <2>3. edit'[e] = r  BY <2>1 DEF To, TrailInv, TrailTypes
  <2>4. lost' = lost /\ Trail(e)' = Trail(e)  BY <2>1, TrailStays
  <2>5. Stands(e)'  BY <1>1, <1>2, <1>4, <2>2, <2>3 DEF Stands
  <2>6. e \notin lost' => Told(e)'  BY <1>1, <1>2, <2>2, <2>3, <2>4 DEF Told
  <2> QED  BY <2>1, <2>2, <2>5, <2>6, StepKeeps
<1> QED  BY <1>3, <1>4

\* Tx.Rollback: the marker, unless the edit was told that it is committed or has
\* nothing recorded.
LEMMA RollbackKeeps ==
    ASSUME TrailInv, NEW e \in Edits, Rollback(e)
    PROVE  TrailInv' /\ (dropped' # dropped => faults' # faults \/ closed)
<1> DEFINE f == IF edit[e].fate = "open" THEN "undone" ELSE edit[e].fate
           r == [edit[e] EXCEPT !.step = "done", !.fate = f]
<1>1. /\ edit[e] \in EditState /\ edit[e].step \in {"unwind", "closed"}
      /\ e \in Imports => edit[e].step = "closed"
      /\ To(e, r)
  BY DEF Rollback, TrailInv, TrailTypes
<1>2. Stands(e) /\ (e \notin lost => Told(e)) /\ TrailTypes /\ EventsAccounted  BY DEF TrailInv
<1>3. f \in {"applied", "undone"} /\ (edit[e].fate = "applied" => f = "applied")  BY <1>1 DEF EditState
<1>4. edit[e].execs = 0  BY <1>1, <1>2 DEF Stands, EditState
<1> HIDE DEF f
<1>5. r \in EditState /\ r.step = "done" /\ r.stmts = edit[e].stmts /\ r.execs = edit[e].execs
      /\ r.rows = edit[e].rows /\ r.committed = edit[e].committed /\ r.fate = f
  BY <1>1, <1>3 DEF EditState, EditSteps
<1> HIDE DEF r
<1>6. edit'[e] = r  BY <1>1 DEF To, TrailInv, TrailTypes
<1>7. Stands(e)'  BY <1>2, <1>3, <1>4, <1>5, <1>6 DEF Stands
<1>8. Trail(e) \in Seq(Line)  BY <1>2, TrailsAreLists
<1>9. CASE ~edit[e].committed /\ edit[e].stmts > 0
  <2>1. Emit(e, "ROLLBACK", 0)  BY <1>9 DEF Rollback
  <2>2. /\ lost \subseteq lost'
        /\ e \notin lost' => Trail(e)' = Append(Trail(e), [by |-> e, what |-> "ROLLBACK", rows |-> 0])
    BY <1>2, <2>1, EmitTells
  <2>3. e \notin lost' => Told(e)'
    <3> SUFFICES ASSUME e \notin lost' PROVE Told(e)'  OBVIOUS
    <3>1. /\ Len(Trail(e)') = Len(Trail(e)) + 1 /\ Len(Trail(e)) \in Nat
          /\ Trail(e)' # <<>>
          /\ Marks(Trail(e)') = Marks(Trail(e)) \cup {Len(Trail(e)) + 1}
      BY <1>2, <2>2, TrailGrows
    <3>2. Marks(Trail(e)) = {}  BY <1>1, <1>2, <2>2 DEF Told
    <3>3. Marks(Trail(e)') = {Len(Trail(e)')}  BY <3>1, <3>2
    <3>4. RowsTold(Trail(e)') = RowsTold(Trail(e)) /\ RowsTold(Trail(e)) \in Nat
      <4> DEFINE l == [by |-> e, what |-> "ROLLBACK", rows |-> 0]
      <4>1. l \in Line /\ l.rows = 0  BY DEF Line, LinesBy
      <4>2. Trail(e)' = Append(Trail(e), l)  BY <2>2
      <4> HIDE DEF l
      <4> QED  BY <1>8, <4>1, <4>2, RowsOfMore
    <3>5. RowsTold(Trail(e)) + edit[e].execs = edit[e].rows  BY <1>2, <2>2 DEF Told
    <3> QED  BY <1>3, <1>5, <1>6, <1>9, <3>1, <3>3, <3>4, <3>5 DEF Told
  <2> QED  BY <1>1, <1>5, <1>7, <2>1, <2>3, StepKeeps
<1>10. CASE ~(~edit[e].committed /\ edit[e].stmts > 0)
  <2>1. UNCHANGED sink  BY <1>10 DEF Rollback
  <2>2. lost' = lost /\ Trail(e)' = Trail(e)  BY <2>1, TrailStays
  <2>3. e \notin lost' => Told(e)'
    <3> SUFFICES ASSUME e \notin lost' PROVE Told(e)'  OBVIOUS
    <3>1. Len(Trail(e)) = edit[e].stmts /\ Marks(Trail(e)) = {}
          /\ RowsTold(Trail(e)) + edit[e].execs = edit[e].rows
      BY <1>1, <1>2, <2>2 DEF Told
    <3>2. ~edit[e].committed => Trail(e) = <<>>
      <4>1. edit[e].stmts \in Nat  BY <1>1 DEF EditState
      <4> QED  BY <1>8, <1>10, <3>1, <4>1, EmptySeq
    <3> QED  BY <1>3, <1>5, <1>6, <2>2, <3>1, <3>2 DEF Told
  <2> QED  BY <1>1, <1>5, <1>7, <2>1, <2>3, StepKeeps
<1> QED  BY <1>9, <1>10

\* FileSink.Close leaves the lines alone.
LEMMA CloseSinkKeeps ==
    ASSUME TrailInv, CloseSink
    PROVE  TrailInv' /\ dropped' = dropped
<1>1. /\ closed' = TRUE /\ handle' = "nil"
      /\ UNCHANGED <<edit, size, cur, old, rotated, emitted, dropped, faults, lost>>
  BY DEF CloseSink
<1>2. SinkSound(Sink')  BY <1>1 DEF TrailInv, TrailTypes, SinkSound, Sink
<1>3. Lines' = Lines  BY <1>1 DEF Lines
<1>4. \A o \in Edits : Trail(o)' = Trail(o)  BY <1>3 DEF Trail
<1>5. TrailTypes'  BY <1>1, <1>2 DEF TrailInv, TrailTypes
<1>6. EventsAccounted'  BY <1>1, <1>3 DEF TrailInv, EventsAccounted
<1>7. ASSUME NEW o \in Edits PROVE Stands(o)' /\ (o \notin lost' => Told(o)')
  <2>1. edit'[o] = edit[o] /\ Trail(o)' = Trail(o) /\ lost' = lost  BY <1>1, <1>4
  <2>2. Stands(o) /\ (o \notin lost => Told(o))  BY DEF TrailInv
  <2>3. Stands(o)'  BY <2>1, <2>2 DEF Stands
  <2>4. o \notin lost' => Told(o)'  BY <2>1, <2>2 DEF Told
  <2> QED  BY <2>3, <2>4
<1> QED  BY <1>1, <1>5, <1>6, <1>7 DEF TrailInv

-----------------------------------------------------------------------------
\* An empty file, and no edit begun (OpenFile).
LEMMA TrailStarts == AInit => TrailInv
<1> SUFFICES ASSUME AInit PROVE TrailInv  OBVIOUS
<1>1. /\ handle = "open" /\ size = 0 /\ closed = FALSE /\ cur = <<>> /\ old = <<>> /\ rotated = <<>>
      /\ emitted = 0 /\ dropped = 0 /\ faults = 0 /\ lost = {}
  BY DEF AInit
<1>2. \A e \in Edits : /\ edit[e] \in EditState /\ edit[e].step = "new" /\ edit[e].fate = "open"
                       /\ edit[e].stmts = 0 /\ edit[e].execs = 0 /\ edit[e].rows = 0 /\ edit[e].committed = FALSE
  BY DEF AInit, EditState, EditSteps
<1>3. edit \in [Edits -> EditState]  BY <1>2 DEF AInit
<1>4. <<>> \in Seq(Line) /\ Bytes(<<>>) = 0 /\ Intact(<<>>) = <<>> /\ Len(<<>>) = 0
  <2>1. <<>> \in Seq(Line)  OBVIOUS
  <2> QED  BY <2>1, TornIsALine, BytesOfLines, OmitEmpty DEF Intact
<1>5. SinkSound(Sink)  BY <1>1, <1>4 DEF SinkSound, Sink
<1>6. Lines = <<>>
  <2>1. <<>> \o <<>> = <<>>  BY <1>4, ConcatEmptySeq
  <2> QED  BY <1>1, <2>1 DEF Lines
<1>7. EventsAccounted  BY <1>1, <1>4, <1>6 DEF EventsAccounted
<1>8. ASSUME NEW e \in Edits PROVE Stands(e) /\ Told(e)
  <2>1. Trail(e) = <<>>  BY <1>6, OmitEmpty DEF Trail
  <2>2. Marks(<<>>) = {}  BY DEF Marks
  <2>3. RowsTold(<<>>) = 0  BY RowsOfNone
  <2>4. Told(e)  BY <1>2, <1>4, <2>1, <2>2, <2>3 DEF Told
  <2> QED  BY <1>2, <2>4 DEF Stands
<1> QED  BY <1>1, <1>3, <1>5, <1>7, <1>8 DEF TrailInv, TrailTypes

\* Every step keeps the account of the file and the trails, and drops no event
\* without a cause.
LEMMA TrailSteps ==
    TrailInv /\ [ANext]_avars => TrailInv' /\ (dropped' # dropped => faults' # faults \/ closed)
<1> SUFFICES ASSUME TrailInv, [ANext]_avars
             PROVE  TrailInv' /\ (dropped' # dropped => faults' # faults \/ closed)
  OBVIOUS
<1>1. ASSUME NEW e \in Edits, Begin(e) \/ TxExec(e) \/ StmtExec(e) \/ GiveUp(e)
                              \/ Commit(e) \/ StmtClose(e) \/ Rollback(e)
      PROVE  TrailInv' /\ (dropped' # dropped => faults' # faults \/ closed)
  BY <1>1, BeginKeeps, TxExecKeeps, StmtExecKeeps, GiveUpKeeps, CommitKeeps, StmtCloseKeeps, RollbackKeeps
<1>2. CASE CloseSink  BY <1>2, CloseSinkKeeps
<1>3. CASE UNCHANGED avars
  <2>1. /\ UNCHANGED sink /\ edit' = edit /\ dropped' = dropped /\ closed' = closed
        /\ emitted' = emitted /\ lost' = lost /\ handle' = handle /\ size' = size /\ cur' = cur
    BY <1>3 DEF avars, sink
  <2>2. Sink' = Sink /\ Lines' = Lines  BY <2>1 DEF Sink, Lines, sink
  <2>3. \A e \in Edits : Trail(e)' = Trail(e)  BY <2>1, TrailStays
  <2>4. TrailTypes'  BY <2>1, <2>2 DEF TrailInv, TrailTypes
  <2>5. EventsAccounted'  BY <2>1, <2>2 DEF TrailInv, EventsAccounted
  <2>6. ASSUME NEW o \in Edits PROVE Stands(o)' /\ (o \notin lost' => Told(o)')
    <3>1. Stands(o) /\ (o \notin lost => Told(o))  BY DEF TrailInv
    <3>2. Stands(o)'  BY <2>1, <3>1 DEF Stands
    <3>3. o \notin lost' => Told(o)'  BY <2>1, <2>3, <3>1 DEF Told
    <3> QED  BY <3>2, <3>3
  <2> QED  BY <2>1, <2>4, <2>5, <2>6 DEF TrailInv
<1> QED  BY <1>1, <1>2, <1>3 DEF ANext

\* The audit file tells of every edit all of whose events have arrived on lines of
\* their own how many rows it changed and whether they were undone, but of a commit
\* whose answer was lost, which it takes for undone; and it accounts for every
\* event. However edits interleave, the file rotates and its calls fail: for any
\* number of edits, rows and faults and any size of file.
THEOREM TrailHolds == ASpec => []TrailIsHonest
<1>1. TrailInv => TrailIsHonest
  <2> SUFFICES ASSUME TrailInv PROVE TrailIsHonest  OBVIOUS
  <2>1. ASSUME NEW e \in Edits \ lost, edit[e].step = "done"
        PROVE  /\ RowsTold(Trail(e)) = edit[e].rows
               /\ edit[e].fate = "undone" /\ Trail(e) # <<>> => Marks(Trail(e)) = {Len(Trail(e))}
               /\ edit[e].fate = "applied" /\ ~Misled(e) => Marks(Trail(e)) = {}
    <3>1. Told(e) /\ Stands(e) /\ edit[e] \in EditState  BY DEF TrailInv, TrailTypes
    <3>2. edit[e].execs = 0  BY <2>1, <3>1 DEF Stands, EditState
    <3>3. RowsTold(Trail(e)) \in Nat
      BY TrailsAreLists, TornIsALine, RowsOfMore DEF TrailInv
    <3>4. edit[e].fate = "undone" => ~edit[e].committed  BY <3>1 DEF Stands
    <3> QED  BY <2>1, <3>1, <3>2, <3>3, <3>4 DEF Told, Misled
  <2>2. TrailTellsTheFate  BY <2>1 DEF TrailTellsTheFate
  <2> QED  BY <2>2 DEF TrailIsHonest, TrailInv
<1> QED  BY <1>1, TrailStarts, TrailSteps, PTL DEF ASpec

\* No event is dropped but by a call of the file that fails while it is written,
\* or after Close: a rotation that failed costs no later event.
THEOREM DropsCaused == ASpec => DropsHaveACause
<1>1. TrailInv /\ [ANext]_avars => [dropped' # dropped => faults' # faults \/ closed]_avars
  BY TrailSteps
<1> QED  BY <1>1, TrailStarts, TrailSteps, PTL DEF ASpec, DropsHaveACause

-----------------------------------------------------------------------------
(***************************************************************************)
(* The stored programs                                                     *)
(***************************************************************************)
Objects == ToSet(Programs)
Definitions == {"original", Absent} \cup Users

ProgramTypes ==
    /\ transactional \in BOOLEAN /\ arrived \subseteq Objects
    /\ program \in [Objects -> Definitions]
    /\ meant \in [Users -> Objects \cup {Absent}]
    /\ place \in [Users -> Nat]
    /\ picked \in [Users -> Objects \cup {Absent}]
    /\ step \in [Users -> {"idle", "opened", "looked", "read", "dropped", "rejected", "answered"}]
    /\ saved \in [Savers -> [of : Objects \cup {Absent}, text : Definitions]]
    /\ answer \in [Users -> {"none", "conflict", "saved", "rejected", "cut off", "dropped",
                             "drop cut off", "restored", "lost"}]

\* A user's request by how far it is: what it acts on, what it resolved to, and
\* what a save has read to restore. Only a save on an engine without transactional
\* DDL is ever between its DROP and its CREATE.
Sane(u) ==
    /\ step[u] # "idle" => meant[u] \in Objects /\ place[u] > 0
    /\ step[u] \in {"idle", "opened", "looked"} => picked[u] = Absent
    /\ step[u] \in {"read", "dropped", "rejected"} => picked[u] # Absent
    /\ picked[u] # Absent => NameOf[picked[u]] = NameOf[meant[u]]
    /\ u \in Savers /\ step[u] \in {"looked", "read", "dropped", "rejected"} =>
          saved[u].of \in Objects /\ saved[u].text # Absent
    /\ step[u] = "looked" => u \in Savers
    /\ step[u] \in {"dropped", "rejected"} => u \in Savers /\ ~transactional
    /\ step[u] # "answered" => answer[u] = "none"

\* That u is the one by whose hand o has left.
Culprit(u, o) == picked[u] = o /\ (TookAway(u, o) \/ Displaced(u) \/ Misread(u))

ProgramInv == ProgramTypes /\ ProgramKept /\ \A u \in Users : Sane(u)

\* What a page's reference resolves to is an object that is there and has the name
\* the user meant (pickListed).
LEMMA PickedIsThere ==
    ASSUME ProgramTypes, NEW u \in Users, place[u] > 0, Picked(u) # Absent
    PROVE  /\ Picked(u) \in Objects /\ program[Picked(u)] # Absent
           /\ NameOf[Picked(u)] = NameOf[meant[u]]
<1> DEFINE gone == {o \in ToSet(Programs) : program[o] = Absent}
<1>1. Listing \in Seq(Objects) /\ ToSet(Listing) = Objects \ gone
  <2>1. Programs \in Seq(Objects)  BY ProgramAssumption DEF Objects
  <2> HIDE DEF gone
  <2>2. Omit(Programs, gone) \in Seq(Objects) /\ ToSet(Omit(Programs, gone)) = ToSet(Programs) \ gone
    BY <2>1, OmitProperties
  <2> QED  BY <2>2 DEF Listing, gone, Objects
<1>2. /\ place[u] <= Len(Listing) /\ NameOf[Listing[place[u]]] = NameOf[meant[u]]
      /\ Picked(u) = Listing[place[u]]
  BY DEF Picked
<1>3. place[u] \in 1 .. Len(Listing) /\ DOMAIN Listing = 1 .. Len(Listing)
  <2>1. Len(Listing) \in Nat /\ DOMAIN Listing = 1 .. Len(Listing)  BY <1>1, LenProperties
  <2>2. place[u] \in Nat  BY DEF ProgramTypes
  <2> QED  BY <1>2, <2>1, <2>2
<1>4. Listing[place[u]] \in ToSet(Listing)  BY <1>3 DEF ToSet
<1> QED  BY <1>1, <1>2, <1>4 DEF Objects

\* What the listing shows are objects that are there (ListRoutines and the like).
LEMMA ListedIsThere ==
    ASSUME ProgramTypes, NEW i \in 1 .. Len(Listing)
    PROVE  Listing[i] \in Objects /\ i \in Nat /\ i > 0
<1> DEFINE gone == {o \in ToSet(Programs) : program[o] = Absent}
<1>1. Programs \in Seq(Objects)  BY ProgramAssumption DEF Objects
<1> HIDE DEF gone
<1>2. Omit(Programs, gone) \in Seq(Objects)  BY <1>1, OmitProperties
<1>3. Listing \in Seq(Objects)  BY <1>2 DEF Listing, gone
<1>4. Len(Listing) \in Nat /\ Listing \in [1 .. Len(Listing) -> Objects]  BY <1>3, LenProperties
<1> QED  BY <1>4

\* A step of user u moves no other.
OthersStay(u) ==
    \A v \in Users \ {u} : /\ meant'[v] = meant[v] /\ picked'[v] = picked[v] /\ place'[v] = place[v]
                           /\ step'[v] = step[v] /\ answer'[v] = answer[v]
                           /\ v \in Savers => saved'[v] = saved[v]

\* What a step of u may do: u stays answerable for what it took away, and is for
\* what goes now.
Answers(u) ==
    /\ ProgramTypes' /\ transactional' = transactional /\ arrived' = arrived
    /\ OthersStay(u)
    /\ Sane(u)'
    /\ \A o \in Objects : program'[o] = Absent /\ (program[o] # Absent \/ Culprit(u, o)) => Culprit(u, o)'

\* A page is rendered: nothing is resolved yet.
LEMMA OpenPageAnswers ==
    ASSUME ProgramInv, NEW u \in Users, OpenPage(u)
    PROVE  Answers(u)
<1>1. PICK i \in 1 .. Len(Listing) : /\ place' = [place EXCEPT ![u] = i]
                                     /\ meant' = [meant EXCEPT ![u] = Listing[i]]
  BY DEF OpenPage
<1>2. Listing[i] \in Objects /\ i \in Nat /\ i > 0  BY ListedIsThere DEF ProgramInv
<1>3. /\ step[u] = "idle" /\ step' = [step EXCEPT ![u] = "opened"]
      /\ UNCHANGED <<transactional, program, arrived, picked, saved, answer, cancelled>>
  BY DEF OpenPage, Goes
<1>4. Sane(u) /\ ProgramTypes  BY DEF ProgramInv
<1> DEFINE x == Listing[i]
<1> HIDE DEF x
<1>5. x \in Objects /\ meant' = [meant EXCEPT ![u] = x]  BY <1>1, <1>2 DEF x
<1>6. ProgramTypes'  BY <1>1, <1>2, <1>3, <1>4, <1>5 DEF ProgramTypes
<1>7. Sane(u)'  BY <1>1, <1>2, <1>3, <1>4, <1>5 DEF Sane, ProgramTypes
<1>8. ASSUME NEW o \in Objects, program'[o] = Absent /\ (program[o] # Absent \/ Culprit(u, o))
      PROVE  Culprit(u, o)'
  BY <1>3, <1>4, <1>8, ProgramAssumption DEF Sane, Culprit, Objects
<1> QED  BY <1>1, <1>3, <1>4, <1>5, <1>6, <1>7, <1>8 DEF Answers, OthersStay, ProgramTypes

\* lookupDefinition: the definition read is of an object that is there.
LEMMA LookUpAnswers ==
    ASSUME ProgramInv, NEW u \in Users, LookUp(u)
    PROVE  Answers(u)
<1>1. /\ u \in Savers /\ step[u] = "opened"
      /\ UNCHANGED <<transactional, program, arrived, meant, place, picked, cancelled>>
  BY DEF LookUp
<1>2. Sane(u) /\ ProgramTypes  BY DEF ProgramInv
<1>3. ASSUME NEW o \in Objects, program'[o] = Absent /\ (program[o] # Absent \/ Culprit(u, o))
      PROVE  Culprit(u, o)'
  BY <1>1, <1>2, <1>3, ProgramAssumption DEF Sane, Culprit, Objects
<1>4. CASE Picked(u) = Absent
  <2>1. /\ step' = [step EXCEPT ![u] = "answered"] /\ answer' = [answer EXCEPT ![u] = "conflict"]
        /\ saved' = saved
    BY <1>4 DEF LookUp, Answered
  <2>2. ProgramTypes'  BY <1>1, <1>2, <2>1 DEF ProgramTypes
  <2>3. Sane(u)'  BY <1>1, <1>2, <2>1 DEF Sane, ProgramTypes
  <2>o. OthersStay(u)  BY <1>1, <1>2, <2>1 DEF OthersStay, ProgramTypes
  <2> QED  BY <1>1, <1>3, <2>2, <2>3, <2>o DEF Answers
<1>5. CASE Picked(u) # Absent
  <2> DEFINE x == [of |-> Picked(u), text |-> program[Picked(u)]]
  <2>1. /\ step' = [step EXCEPT ![u] = "looked"] /\ answer' = answer
        /\ saved' = [saved EXCEPT ![u] = x]
    BY <1>5 DEF LookUp, Goes
  <2>2. Picked(u) \in Objects /\ program[Picked(u)] # Absent
    BY <1>1, <1>2, <1>5, PickedIsThere DEF Sane
  <2>3. x \in [of : Objects \cup {Absent}, text : Definitions] /\ x.of \in Objects /\ x.text # Absent
    BY <1>2, <2>2 DEF ProgramTypes
  <2> HIDE DEF x
  <2>4. ProgramTypes'  BY <1>1, <1>2, <2>1, <2>3 DEF ProgramTypes
  <2>5. Sane(u)'  BY <1>1, <1>2, <2>1, <2>3 DEF Sane, ProgramTypes
  <2>o. OthersStay(u)  BY <1>1, <1>2, <2>1 DEF OthersStay, ProgramTypes
  <2> QED  BY <1>1, <1>3, <2>4, <2>5, <2>o DEF Answers
<1> QED  BY <1>4, <1>5

\* replaceProgram and dropProgram resolve what they drop, once.
LEMMA ResolveAnswers ==
    ASSUME ProgramInv, NEW u \in Users, Resolve(u)
    PROVE  Answers(u)
<1>1. /\ step[u] = IF u \in Savers THEN "looked" ELSE "opened"
      /\ UNCHANGED <<transactional, program, arrived, meant, place, saved, cancelled>>
  BY DEF Resolve
<1>2. Sane(u) /\ ProgramTypes  BY DEF ProgramInv
<1>3. picked[u] = Absent /\ place[u] > 0 /\ meant[u] \in Objects  BY <1>1, <1>2 DEF Sane
<1>4. ASSUME NEW o \in Objects, program'[o] = Absent /\ (program[o] # Absent \/ Culprit(u, o))
      PROVE  Culprit(u, o)'
  BY <1>1, <1>3, <1>4, ProgramAssumption DEF Culprit, Objects
<1>5. CASE Picked(u) = Absent
  <2>1. /\ step' = [step EXCEPT ![u] = "answered"] /\ answer' = [answer EXCEPT ![u] = "conflict"]
        /\ picked' = picked
    BY <1>5 DEF Resolve, Answered
  <2>2. ProgramTypes'  BY <1>1, <1>2, <2>1 DEF ProgramTypes
  <2>3. Sane(u)'  BY <1>1, <1>2, <1>3, <2>1 DEF Sane, ProgramTypes
  <2>o. OthersStay(u)  BY <1>1, <1>2, <2>1 DEF OthersStay, ProgramTypes
  <2> QED  BY <1>1, <1>4, <2>2, <2>3, <2>o DEF Answers
<1>6. CASE Picked(u) # Absent
  <2> DEFINE x == Picked(u)
  <2>1. /\ step' = [step EXCEPT ![u] = "read"] /\ answer' = answer
        /\ picked' = [picked EXCEPT ![u] = x]
    BY <1>6 DEF Resolve, Goes
  <2>2. x \in Objects /\ x # Absent /\ NameOf[x] = NameOf[meant[u]]
    BY <1>2, <1>3, <1>6, PickedIsThere
  <2> HIDE DEF x
  <2>3. ProgramTypes'  BY <1>1, <1>2, <2>1, <2>2 DEF ProgramTypes
  <2>4. Sane(u)'  BY <1>1, <1>2, <1>3, <2>1, <2>2 DEF Sane, ProgramTypes
  <2>o. OthersStay(u)  BY <1>1, <1>2, <2>1 DEF OthersStay, ProgramTypes
  <2> QED  BY <1>1, <1>4, <2>3, <2>4, <2>o DEF Answers
<1> QED  BY <1>5, <1>6

\* The object of a statement gets another definition, and only it.
LEMMA WithDefinition ==
    ASSUME ProgramTypes, NEW o \in Objects, NEW text \in Definitions
    PROVE  /\ With(o, text) \in [Objects -> Definitions]
           /\ With(o, text)[o] = text
           /\ \A other \in Objects \ {o} : With(o, text)[other] = program[other]
  BY DEF With, ProgramTypes

\* ReplaceProgram on transactional DDL: what goes and does not come back was not
\* what the user meant.
LEMMA ReplaceAtOnceAnswers ==
    ASSUME ProgramInv, NEW u \in Users, ReplaceAtOnce(u)
    PROVE  Answers(u)
<1> DEFINE gone == With(picked[u], Absent)
           both == [gone EXCEPT ![meant[u]] = u]
<1>1. /\ transactional /\ u \in Savers /\ step[u] = "read"
      /\ UNCHANGED <<transactional, arrived, meant, place, picked, saved>>
      /\ step' = [step EXCEPT ![u] = "answered"]
      /\ \/ program' = program /\ answer' = [answer EXCEPT ![u] = "rejected"]
         \/ /\ program' \in {program, both}
            /\ \E a \in {"saved", "cut off"} : answer' = [answer EXCEPT ![u] = a]
  BY DEF ReplaceAtOnce, Runs, CutOff, Answered
<1>2. Sane(u) /\ ProgramTypes  BY DEF ProgramInv
<1>3. picked[u] \in Objects /\ picked[u] # Absent /\ meant[u] \in Objects
      /\ NameOf[picked[u]] = NameOf[meant[u]] /\ Absent \in Definitions /\ u \in Definitions /\ u # Absent
  BY <1>1, <1>2, ProgramAssumption DEF Sane, ProgramTypes, Definitions
<1>4. /\ gone \in [Objects -> Definitions] /\ gone[picked[u]] = Absent
      /\ \A other \in Objects \ {picked[u]} : gone[other] = program[other]
  BY <1>2, <1>3, WithDefinition
<1> HIDE DEF gone
<1>5. /\ both \in [Objects -> Definitions] /\ both[meant[u]] = u
      /\ \A other \in Objects \ {meant[u]} : both[other] = gone[other]
  BY <1>3, <1>4
<1> HIDE DEF both
<1>6. ProgramTypes'
  <2>1. program' \in [Objects -> Definitions]  BY <1>1, <1>2, <1>5 DEF ProgramTypes
  <2>2. /\ step' \in [Users -> {"idle", "opened", "looked", "read", "dropped", "rejected", "answered"}]
        /\ answer' \in [Users -> {"none", "conflict", "saved", "rejected", "cut off", "dropped",
                                  "drop cut off", "restored", "lost"}]
    BY <1>1, <1>2 DEF ProgramTypes
  <2> QED  BY <1>1, <1>2, <2>1, <2>2 DEF ProgramTypes
<1>7. Sane(u)'  BY <1>1, <1>2 DEF Sane, ProgramTypes
<1>8. ASSUME NEW o \in Objects, program'[o] = Absent /\ (program[o] # Absent \/ Culprit(u, o))
      PROVE  Culprit(u, o)'
  <2>1. program[o] # Absent  BY <1>1, <1>2, <1>8 DEF Culprit, TookAway, Displaced, Misread, Sane
  <2>2. program' = both /\ \E a \in {"saved", "cut off"} : answer' = [answer EXCEPT ![u] = a]
    BY <1>1, <1>8, <2>1
  <2>3. picked[u] = o /\ meant[u] # o  BY <1>3, <1>4, <1>5, <1>8, <2>1, <2>2
  <2>4. answer'[u] \in {"saved", "cut off"}  BY <1>2, <2>2 DEF ProgramTypes
  <2> QED  BY <1>1, <1>3, <2>3, <2>4 DEF Culprit, Displaced
<1>9. \A v \in Users \ {u} : step'[v] = step[v] /\ answer'[v] = answer[v]
  BY <1>1, <1>2 DEF ProgramTypes
<1> QED  BY <1>1, <1>6, <1>7, <1>8, <1>9 DEF Answers, OthersStay

\* The DROP on its own: its answer says so, or leaves it open, or the CREATE is
\* still to come.
LEMMA DropAnswers ==
    ASSUME ProgramInv, NEW u \in Users, Drop(u)
    PROVE  Answers(u)
<1> DEFINE gone == With(picked[u], Absent)
<1>1. /\ step[u] = "read" /\ ~(transactional /\ u \in Savers)
      /\ UNCHANGED <<transactional, arrived, meant, place, picked, saved>>
  BY DEF Drop
<1>2. Sane(u) /\ ProgramTypes  BY DEF ProgramInv
<1>3. picked[u] \in Objects /\ Absent \in Definitions  BY <1>1, <1>2 DEF Sane, ProgramTypes, Definitions
<1>4. /\ gone \in [Objects -> Definitions]
      /\ \A other \in Objects \ {picked[u]} : gone[other] = program[other]
  BY <1>2, <1>3, WithDefinition
<1>5. \/ /\ program' = gone /\ u \in Savers
         /\ step' = [step EXCEPT ![u] = "dropped"] /\ answer' = answer
      \/ /\ program' = gone
         /\ step' = [step EXCEPT ![u] = "answered"] /\ answer' = [answer EXCEPT ![u] = "dropped"]
      \/ /\ program' = program /\ program[picked[u]] = Absent
         /\ step' = [step EXCEPT ![u] = "answered"] /\ answer' = [answer EXCEPT ![u] = "rejected"]
      \/ /\ program' \in {program, gone}
         /\ step' = [step EXCEPT ![u] = "answered"] /\ answer' = [answer EXCEPT ![u] = "drop cut off"]
  BY DEF Drop, Runs, CutOff, Answered, Goes
<1> HIDE DEF gone
<1>6. ProgramTypes'
  <2>1. program' \in [Objects -> Definitions]  BY <1>2, <1>4, <1>5 DEF ProgramTypes
  <2>2. step' \in [Users -> {"idle", "opened", "looked", "read", "dropped", "rejected", "answered"}]
    BY <1>2, <1>5 DEF ProgramTypes
  <2>3. answer' \in [Users -> {"none", "conflict", "saved", "rejected", "cut off", "dropped",
                               "drop cut off", "restored", "lost"}]
    BY <1>2, <1>5 DEF ProgramTypes
  <2> QED  BY <1>1, <1>2, <2>1, <2>2, <2>3 DEF ProgramTypes
<1>7. Sane(u)'  BY <1>1, <1>2, <1>5 DEF Sane, ProgramTypes
<1>8. ASSUME NEW o \in Objects, program'[o] = Absent /\ (program[o] # Absent \/ Culprit(u, o))
      PROVE  Culprit(u, o)'
  <2>1. picked[u] = o /\ (program[o] # Absent \/ Culprit(u, o))
    BY <1>4, <1>5, <1>8 DEF Culprit
  <2>2. CASE TookAway(u, o)'  BY <1>1, <2>1, <2>2 DEF Culprit
  <2>3. CASE ~TookAway(u, o)'
    <3>1. /\ program' = program /\ program[picked[u]] = Absent
          /\ answer'[u] = "rejected"
      BY <1>1, <1>2, <1>5, <2>1, <2>3 DEF TookAway, ProgramTypes
    <3>2. ~ Culprit(u, o)
      BY <1>1, <1>2 DEF Culprit, TookAway, Displaced, Misread, Sane
    <3> QED  BY <2>1, <3>1, <3>2
  <2> QED  BY <2>2, <2>3
<1>9. \A v \in Users \ {u} : step'[v] = step[v] /\ answer'[v] = answer[v]
  BY <1>2, <1>5 DEF ProgramTypes
<1> QED  BY <1>1, <1>6, <1>7, <1>8, <1>9 DEF Answers, OthersStay

\* CreateProgram: the object meant is there again, or the old definition is still
\* to be replayed.
LEMMA CreateAnswers ==
    ASSUME ProgramInv, NEW u \in Users, Create_(u)
    PROVE  Answers(u)
<1> DEFINE made == With(meant[u], u)
<1>1. /\ step[u] = "dropped"
      /\ UNCHANGED <<transactional, arrived, meant, place, picked, saved>>
  BY DEF Create_
<1>2. Sane(u) /\ ProgramTypes  BY DEF ProgramInv
<1>3. /\ picked[u] # Absent /\ meant[u] \in Objects /\ NameOf[picked[u]] = NameOf[meant[u]]
      /\ u \in Savers /\ ~transactional /\ u \in Definitions /\ u # Absent
  BY <1>1, <1>2, ProgramAssumption DEF Sane, Definitions
<1>4. /\ made \in [Objects -> Definitions] /\ made[meant[u]] = u
      /\ \A other \in Objects \ {meant[u]} : made[other] = program[other]
  BY <1>2, <1>3, WithDefinition
<1>5. \/ /\ program' = made
         /\ step' = [step EXCEPT ![u] = "answered"] /\ answer' = [answer EXCEPT ![u] = "saved"]
      \/ /\ program' \in {program, made}
         /\ step' = [step EXCEPT ![u] = "rejected"] /\ answer' = answer
  BY DEF Create_, Runs, CutOff, Answered, Goes
<1> HIDE DEF made
<1>6. ProgramTypes'
  <2>1. program' \in [Objects -> Definitions]  BY <1>2, <1>4, <1>5 DEF ProgramTypes
  <2>2. /\ step' \in [Users -> {"idle", "opened", "looked", "read", "dropped", "rejected", "answered"}]
        /\ answer' \in [Users -> {"none", "conflict", "saved", "rejected", "cut off", "dropped",
                                  "drop cut off", "restored", "lost"}]
    BY <1>2, <1>5 DEF ProgramTypes
  <2> QED  BY <1>1, <1>2, <2>1, <2>2 DEF ProgramTypes
<1>7. Sane(u)'  BY <1>1, <1>2, <1>3, <1>5 DEF Sane, ProgramTypes
<1>8. ASSUME NEW o \in Objects, program'[o] = Absent /\ (program[o] # Absent \/ Culprit(u, o))
      PROVE  Culprit(u, o)'
  <2>1. picked[u] = o /\ Culprit(u, o)  BY <1>3, <1>4, <1>5, <1>8 DEF Culprit
  <2>2. CASE step' = [step EXCEPT ![u] = "rejected"]
    <3>1. step'[u] = "rejected"  BY <1>2, <2>2 DEF ProgramTypes
    <3> QED  BY <1>1, <1>3, <2>1, <3>1 DEF Culprit, TookAway
  <2>3. CASE program' = made /\ answer' = [answer EXCEPT ![u] = "saved"]
    <3>1. picked[u] # meant[u]  BY <1>3, <1>4, <1>8, <2>1, <2>3
    <3>2. answer'[u] = "saved"  BY <1>2, <2>3 DEF ProgramTypes
    <3> QED  BY <1>1, <1>3, <2>1, <3>1, <3>2 DEF Culprit, Displaced
  <2> QED  BY <1>5, <2>2, <2>3
<1>9. \A v \in Users \ {u} : step'[v] = step[v] /\ answer'[v] = answer[v]
  BY <1>2, <1>5 DEF ProgramTypes
<1> QED  BY <1>1, <1>6, <1>7, <1>8, <1>9 DEF Answers, OthersStay

\* ReplaceProgram's replay: what the save dropped is there again, or the user is
\* told that it is lost, or the save had read another object.
LEMMA RestoreAnswers ==
    ASSUME ProgramInv, NEW u \in Users, Restore(u)
    PROVE  Answers(u)
<1> DEFINE back == With(saved[u].of, saved[u].text)
<1>1. /\ step[u] = "rejected"
      /\ UNCHANGED <<transactional, arrived, meant, place, picked, saved>>
  BY DEF Restore
<1>2. Sane(u) /\ ProgramTypes  BY DEF ProgramInv
<1>3. /\ picked[u] # Absent /\ u \in Savers /\ ~transactional
      /\ saved[u].of \in Objects /\ saved[u].text # Absent /\ saved[u].text \in Definitions
  BY <1>1, <1>2 DEF Sane, ProgramTypes
<1>4. /\ back \in [Objects -> Definitions] /\ back[saved[u].of] = saved[u].text
      /\ \A other \in Objects \ {saved[u].of} : back[other] = program[other]
  BY <1>2, <1>3, WithDefinition
<1>5. /\ step' = [step EXCEPT ![u] = "answered"]
      /\ \/ program' = back /\ answer' = [answer EXCEPT ![u] = "restored"]
         \/ program' \in {program, back} /\ answer' = [answer EXCEPT ![u] = "lost"]
  BY DEF Restore, Runs, CutOff, Answered
<1> HIDE DEF back
<1>6. ProgramTypes'
  <2>1. program' \in [Objects -> Definitions]  BY <1>2, <1>4, <1>5 DEF ProgramTypes
  <2>2. /\ step' \in [Users -> {"idle", "opened", "looked", "read", "dropped", "rejected", "answered"}]
        /\ answer' \in [Users -> {"none", "conflict", "saved", "rejected", "cut off", "dropped",
                                  "drop cut off", "restored", "lost"}]
    BY <1>2, <1>5 DEF ProgramTypes
  <2> QED  BY <1>1, <1>2, <2>1, <2>2 DEF ProgramTypes
<1>7. Sane(u)'  BY <1>1, <1>2, <1>5 DEF Sane, ProgramTypes
<1>8. ASSUME NEW o \in Objects, program'[o] = Absent /\ (program[o] # Absent \/ Culprit(u, o))
      PROVE  Culprit(u, o)'
  <2>1. picked[u] = o /\ Culprit(u, o)  BY <1>3, <1>4, <1>5, <1>8 DEF Culprit
  <2>2. CASE answer' = [answer EXCEPT ![u] = "lost"]
    <3>1. answer'[u] = "lost"  BY <1>2, <2>2 DEF ProgramTypes
    <3> QED  BY <1>1, <1>3, <2>1, <3>1 DEF Culprit, TookAway
  <2>3. CASE program' = back /\ answer' = [answer EXCEPT ![u] = "restored"]
    <3>1. picked[u] # saved[u].of  BY <1>3, <1>4, <1>8, <2>1, <2>3
    <3>2. answer'[u] = "restored"  BY <1>2, <2>3 DEF ProgramTypes
    <3> QED  BY <1>1, <1>3, <2>1, <3>1, <3>2 DEF Culprit, Misread
  <2> QED  BY <1>5, <2>2, <2>3
<1>9. \A v \in Users \ {u} : step'[v] = step[v] /\ answer'[v] = answer[v]
  BY <1>2, <1>5 DEF ProgramTypes
<1> QED  BY <1>1, <1>6, <1>7, <1>8, <1>9 DEF Answers, OthersStay

\* A step that its user answers for keeps the invariant.
LEMMA AnswersKeeps ==
    ASSUME ProgramInv, NEW u \in Users, Answers(u)
    PROVE  ProgramInv'
<1>1. ASSUME NEW v \in Users \ {u}
      PROVE  Sane(v)' /\ \A o \in Objects : Culprit(v, o) => Culprit(v, o)'
  <2>1. /\ meant'[v] = meant[v] /\ picked'[v] = picked[v] /\ place'[v] = place[v]
        /\ step'[v] = step[v] /\ answer'[v] = answer[v] /\ (v \in Savers => saved'[v] = saved[v])
        /\ transactional' = transactional
    BY <1>1 DEF Answers, OthersStay
  <2>2. Sane(v)  BY <1>1 DEF ProgramInv
  <2>3. Sane(v)'  BY <2>1, <2>2 DEF Sane
  <2>4. \A o \in Objects : Culprit(v, o) => Culprit(v, o)'
    BY <2>1 DEF Culprit, TookAway, Displaced, Misread
  <2> QED  BY <2>3, <2>4
<1>2. ASSUME NEW o \in arrived', program'[o] = Absent
      PROVE  \E v \in Users : Culprit(v, o)'
  <2>1. o \in Objects /\ o \in arrived  BY <1>2 DEF Answers, OthersStay, ProgramInv, ProgramTypes
  <2>2. CASE program[o] # Absent
    BY <1>2, <2>1, <2>2 DEF Answers, OthersStay
  <2>3. CASE program[o] = Absent
    <3>1. PICK v \in Users : Culprit(v, o)
      BY <2>1, <2>3 DEF ProgramInv, ProgramKept, Culprit
    <3>2. CASE v = u  BY <1>2, <2>1, <3>1, <3>2 DEF Answers, OthersStay
    <3>3. CASE v # u  BY <1>1, <2>1, <3>1, <3>3
    <3> QED  BY <3>2, <3>3
  <2> QED  BY <2>2, <2>3
<1>3. ProgramKept'  BY <1>2 DEF ProgramKept, Culprit
<1>4. ProgramTypes' /\ Sane(u)'  BY DEF Answers, OthersStay
<1> QED  BY <1>1, <1>3, <1>4 DEF ProgramInv

\* What another client creates is there.
LEMMA ArriveKeeps ==
    ASSUME ProgramInv, Arrive
    PROVE  ProgramInv'
<1>1. PICK o \in Objects \ arrived : arrived' = arrived \cup {o} /\ program' = With(o, "original")
  BY DEF Arrive, Objects
<1>2. UNCHANGED <<transactional, meant, place, picked, step, saved, answer, cancelled>>
  BY DEF Arrive
<1>3. /\ program' \in [Objects -> Definitions] /\ program'[o] = "original"
      /\ \A other \in Objects \ {o} : program'[other] = program[other]
  BY <1>1, WithDefinition DEF ProgramInv, Definitions
<1>4. ProgramTypes'  BY <1>1, <1>2, <1>3 DEF ProgramInv, ProgramTypes
<1>5. ASSUME NEW u \in Users PROVE Sane(u)'
  BY <1>2 DEF ProgramInv, Sane
<1>6. ASSUME NEW a \in arrived', program'[a] = Absent
      PROVE  \E v \in Users : Culprit(v, a)'
  <2>1. a \in arrived /\ program[a] = Absent
    BY <1>1, <1>3, <1>6 DEF Absent, ProgramInv, ProgramTypes
  <2>2. PICK v \in Users : Culprit(v, a)
    BY <2>1 DEF ProgramInv, ProgramKept, Culprit
  <2> QED  BY <1>2, <2>2 DEF Culprit, TookAway, Displaced, Misread
<1>7. ProgramKept'  BY <1>6 DEF ProgramKept, Culprit
<1> QED  BY <1>4, <1>5, <1>7 DEF ProgramInv

\* Nobody's page is open yet, and what has arrived is there.
LEMMA ProgramStarts == PInit(BOOLEAN, SUBSET ToSet(Programs)) => ProgramInv
<1> SUFFICES ASSUME PInit(BOOLEAN, SUBSET ToSet(Programs)) PROVE ProgramInv  OBVIOUS
<1> USE DEF PInit
<1>1. ProgramTypes  BY DEF ProgramTypes, Objects, Definitions
<1>2. ProgramKept  BY DEF ProgramKept, Absent
<1>3. \A u \in Users : Sane(u)  BY DEF Sane
<1> QED  BY <1>1, <1>2, <1>3 DEF ProgramInv

\* Every step keeps who is answerable for what has gone.
LEMMA ProgramSteps == ProgramInv /\ [PNext]_pvars => ProgramInv'
<1> SUFFICES ASSUME ProgramInv, [PNext]_pvars PROVE ProgramInv'  OBVIOUS
<1>1. CASE Arrive  BY <1>1, ArriveKeeps
<1>2. ASSUME NEW u \in Users, OpenPage(u) \/ LookUp(u) \/ Resolve(u) \/ ReplaceAtOnce(u)
                              \/ Drop(u) \/ Create_(u) \/ Restore(u)
      PROVE  ProgramInv'
  <2>1. Answers(u)
    BY <1>2, OpenPageAnswers, LookUpAnswers, ResolveAnswers, ReplaceAtOnceAnswers,
       DropAnswers, CreateAnswers, RestoreAnswers
  <2> QED  BY <2>1, AnswersKeeps
<1>3. CASE UNCHANGED pvars
  <2>1. /\ transactional' = transactional /\ program' = program /\ arrived' = arrived /\ meant' = meant
        /\ place' = place /\ picked' = picked /\ step' = step /\ saved' = saved /\ answer' = answer
    BY <1>3 DEF pvars
  <2>2. ProgramTypes'  BY <2>1 DEF ProgramInv, ProgramTypes
  <2>3. \A u \in Users : Sane(u)'  BY <2>1 DEF ProgramInv, Sane
  <2>4. ProgramKept'
    <3>1. \A u \in Users : Displaced(u)' = Displaced(u) /\ Misread(u)' = Misread(u)
      BY <2>1 DEF Displaced, Misread
    <3>2. \A u \in Users : \A o : TookAway(u, o)' = TookAway(u, o)  BY <2>1 DEF TookAway
    <3> QED  BY <2>1, <3>1, <3>2 DEF ProgramInv, ProgramKept
  <2> QED  BY <2>2, <2>3, <2>4 DEF ProgramInv
<1> QED  BY <1>1, <1>2, <1>3 DEF PNext

\* A stored program goes only by the hand of a user who was told so; by a save from a
\* page gone stale, which drops an overload for the one it creates; or by a save that
\* has read another object, which it restores. For any number of users, objects,
\* overloads and cancelled requests, on engines with transactional DDL and without.
THEOREM ProgramsStay == PSpec => []ProgramKept
<1>1. ProgramInv => ProgramKept  BY DEF ProgramInv
<1> QED  BY <1>1, ProgramStarts, ProgramSteps, PTL DEF PSpec
=============================================================================
