------------------------------ MODULE RowPages ------------------------------
(***************************************************************************)
(* Paging through a table that others change, with a count that may be     *)
(* exact, an estimate, a lower bound or missing.                           *)
(*                                                                         *)
(* A page is rendered in two statements: the rows are counted, then read  *)
(* from a position that the count has bounded. Its links carry position,   *)
(* sort keys and hidden columns through a URL, which is read back against  *)
(* the columns the table has by then.                                      *)
(***************************************************************************)
EXTENDS Integers, Sequences, FiniteSets, SequencesExt, Lists

CONSTANTS
    PageSizes,       \* rowsPerPageOptions, ascending
    MaxBrowseOffset,
    MaxExactCount,   \* max_exact_count, 0 for none
    ShowAllRowCap,
    MaxSortKeys,
    MaxSize,         \* a bound on the table
    MaxChanges,      \* a bound on what others do
    MaxPos,          \* the largest position: a 64 bit integer
    UrlWords,        \* the words of an address
    PageColumns,     \* the names a column may have
    TypedUrls        \* the addresses somebody may type

\* The requests there are.
Urls == [pos : Int, rows : Int, exact : BOOLEAN, order : Seq(UrlWords), dir : Seq(UrlWords), hide : Seq(UrlWords)]

ASSUME PagesAssumption ==
    /\ PageSizes \in Seq(Nat \ {0}) /\ PageSizes # <<>> /\ ShowAllRowCap \in Nat \ {0}
    /\ {MaxBrowseOffset, MaxExactCount, MaxSortKeys, MaxSize, MaxChanges, MaxPos} \subseteq Nat
    /\ MaxSize <= MaxPos
    /\ IsFiniteSet(PageColumns) /\ PageColumns \cup {"asc", "desc"} \subseteq UrlWords
    /\ TypedUrls \subseteq Urls

VARIABLES
    height, names, \* the table: its rows, its columns
    view,         \* it is a view
    perPage,      \* the user's page size
    url,          \* the request: [pos, rows, exact, order, dir, hide]
    count,        \* [total, approx], or [total |-> -2] before the count
    changes,      \* how often others have changed it
    steady,       \* nobody has changed the table since the request
    page,         \* the page shown
    came          \* [by, from]: the link followed, and the page it was on

gvars == <<height, names, view, changes, perPage, url, count, steady, page, came>>

Least(a, b) == IF a < b THEN a ELSE b
Most(a, b) == IF a > b THEN a ELSE b
SatAdd(a, b) == IF a > MaxPos - b THEN MaxPos ELSE a + b

\* clampRowsPerPage: the option nearest to n, the smaller of two.
ClampRowsPerPage(n) ==
    LET away(o) == Most(o - n, n - o) IN
    IF n <= 0 THEN PageSizes[1]
    ELSE CHOOSE o \in ToSet(PageSizes) : \A p \in ToSet(PageSizes) :
             away(o) < away(p) \/ (away(o) = away(p) /\ o <= p)

\* A mutation of ClampBrowsePos: an estimate bounds the position.
ClampBrowsePosApprox(c, pos, limit) ==
    IF pos < 0 \/ c.total = 0 THEN 0
    ELSE IF c.total < 0 THEN Least(pos, MaxBrowseOffset)
    ELSE IF pos >= c.total THEN ((c.total - 1) \div limit) * limit ELSE pos

ClampBrowsePos(c, pos, limit) ==
    IF pos < 0 THEN 0
    ELSE IF c.total < 0 \/ c.approx THEN Least(pos, MaxBrowseOffset)
    ELSE IF c.total = 0 THEN 0
    ELSE IF pos >= c.total THEN ((c.total - 1) \div limit) * limit ELSE pos

\* browseNavFor
Pages(c, limit) == IF c.total > 0 THEN (c.total - 1) \div limit + 1 ELSE 0
HasNext(c, pos, limit, more) ==
    IF c.total < 0 \/ c.approx THEN more ELSE c.total - pos > limit

\* tableRowCount: what it may return. An estimate may be wrong either way; a
\* view has none, and is counted no further than the limit.
ExactCount == {[total |-> height, approx |-> FALSE], [total |-> -1, approx |-> FALSE]}
Bounded == IF height > MaxExactCount THEN [total |-> MaxExactCount, approx |-> TRUE]
           ELSE [total |-> height, approx |-> FALSE]
TableRowCount(exact) ==
    IF exact \/ MaxExactCount <= 0 THEN ExactCount
    ELSE IF view THEN {Bounded, [total |-> -1, approx |-> FALSE]}
    ELSE ExactCount \cup {[total |-> n, approx |-> TRUE] : n \in MaxExactCount + 1..MaxSize + 1}

(***************************************************************************)
(* Sort keys and hidden columns                                            *)
(***************************************************************************)
\* parseSorts: the n-th direction belongs to the n-th name, also of those
\* dropped; a column is taken once, and unknown ones are passed over.
Passed(order) == {n \in DOMAIN order : order[n] \notin names \/ \E m \in 1..n - 1 : order[m] = order[n]}
Taken(order) == Omit([n \in DOMAIN order |-> n], Passed(order))
ParseSorts(order, dir) ==
    LET keys == Taken(order) IN
    [n \in 1..Least(Len(keys), MaxSortKeys) |->
        [col |-> order[keys[n]], desc |-> keys[n] <= Len(dir) /\ dir[keys[n]] = "desc"]]

\* parseHidden keeps one column visible.
ParseHidden(hide) ==
    LET known == Taken(hide) IN
    [n \in 1..Least(Len(known), Most(Cardinality(names) - 1, 0)) |-> hide[known[n]]]

\* browseQuery.values, sortParams
Link(pos, rows, exact, sorts, hidden) ==
    [pos |-> pos, rows |-> rows, exact |-> exact, hide |-> hidden,
     order |-> [n \in DOMAIN sorts |-> sorts[n].col],
     dir |-> [n \in DOMAIN sorts |-> IF sorts[n].desc THEN "desc" ELSE "asc"]]

PrimarySortToggle(sorts, c) ==
    <<[col |-> c, desc |-> sorts # <<>> /\ sorts[1].col = c /\ ~sorts[1].desc]>>
AppendSortKey(sorts, c) ==
    IF \E n \in DOMAIN sorts : sorts[n].col = c
    THEN [n \in DOMAIN sorts |-> IF sorts[n].col = c THEN [sorts[n] EXCEPT !.desc = ~@] ELSE sorts[n]]
    ELSE IF Len(sorts) >= MaxSortKeys THEN sorts ELSE Append(sorts, [col |-> c, desc |-> FALSE])

(***************************************************************************)
(* Pages                                                                   *)
(***************************************************************************)
NoPage == [pos |-> -1]
NoUrl == [pos |-> -1]
AllRows == -9  \* the page size "all" of a URL

GInit(tables) ==
    /\ \E t \in tables : height = t.height /\ view = t.view /\ names = t.names /\ perPage = PageSizes[1]
    /\ url = [pos |-> 0, rows |-> 0, exact |-> FALSE, order |-> <<>>, dir |-> <<>>, hide |-> <<>>]
    /\ count = [total |-> -2] /\ steady = TRUE /\ changes = 0 /\ page = NoPage
    /\ came = [by |-> "none", from |-> NoPage]

\* What is kept of the page a link was on.
Left(p) == [pos |-> p.pos, got |-> p.got, all |-> p.all, limit |-> p.limit, approx |-> p.approx,
            sorts |-> p.sorts, hidden |-> p.hidden]

\* The request: a link of the page, or whatever somebody has typed.
Ask(u, by) ==
    /\ url' = u /\ page' = NoPage /\ UNCHANGED count
    /\ came' = [by |-> by, from |-> IF steady /\ by # "typed" THEN Left(page) ELSE NoPage] /\ steady' = TRUE
    /\ UNCHANGED <<height, names, view, changes, perPage>>

\* showBrowse, its first statement.
CountRows ==
    /\ url # NoUrl /\ count.total = -2
    /\ \E c \in TableRowCount(url.exact) : count' = c
    /\ UNCHANGED <<height, names, view, changes, perPage, url, steady, page, came>>

\* Connection.Browse, and scanResult, which stops where the budget of bytes is spent.
RowsFrom(pos, n) == Least(Most(height - pos, 0), n)
ScanResult(n, budgeted) == IF budgeted /\ n > 0 THEN 1..n ELSE {n}

\* showBrowse, its second: one row more than fits is asked for where the count
\* does not tell whether there are more. All rows are cut at a number of rows
\* and of bytes.
ReadRows ==
    /\ count.total > -2
    /\ LET all == url.rows = AllRows
           limit == IF all THEN ShowAllRowCap ELSE ClampRowsPerPage(url.rows)
           pos == IF all THEN 0 ELSE ClampBrowsePos(count, url.pos, limit)
           probing == count.total < 0 \/ count.approx \/ all
           there == RowsFrom(pos, limit + (IF probing THEN 1 ELSE 0))
       IN \E read \in ScanResult(there, all) :
            LET next == HasNext(count, pos, limit, probing /\ read > limit)
                cut == all /\ (read < there \/ read > limit)
            IN  page' = [pos |-> pos, got |-> Least(read, limit), limit |-> limit, all |-> all,
                         rows |-> IF all THEN perPage ELSE limit, exact |-> url.exact,
                         next |-> next, prev |-> pos > 0,
                         last |-> Most(Pages(count, limit) - 1, 0) * limit,
                         whole |-> pos = 0 /\ ~next /\ ~cut /\ read > 0,
                         total |-> count.total, approx |-> count.approx,
                         sorts |-> ParseSorts(url.order, url.dir), hidden |-> ParseHidden(url.hide)]
          /\ perPage' = IF all THEN perPage ELSE limit
    /\ url' = NoUrl /\ count' = [total |-> -2]
    /\ UNCHANGED <<height, names, view, changes, steady, came>>

\* The links of a page, by what they are for. A page of all rows has no next.
Follow ==
    /\ page # NoPage
    /\ LET rows == IF page.all THEN AllRows ELSE page.rows
           to(pos) == Link(pos, rows, page.exact, page.sorts, page.hidden)
           sorted(s) == Link(0, rows, page.exact, s, page.hidden)
           hiding(h) == Link(page.pos, rows, page.exact, page.sorts, h)
       IN \/ page.next /\ ~page.all /\ Ask(to(SatAdd(page.pos, page.limit)), "next")
          \/ page.next /\ ~page.all /\ page.total > 0 /\ Ask(to(page.last), "last")
          \/ page.prev /\ Ask(to(Most(0, page.pos - page.limit)), "prev")
          \/ page.approx /\ Ask([to(page.pos) EXCEPT !.exact = TRUE], "exact")
          \/ Ask([to(0) EXCEPT !.rows = IF page.all THEN page.rows ELSE AllRows], "all")
          \/ \E c \in names : \/ Ask(sorted(PrimarySortToggle(page.sorts, c)), "sort")
                              \/ Ask(sorted(AppendSortKey(page.sorts, c)), "sort")
          \/ \E c \in names \ ToSet(page.hidden) :
                /\ Len(page.hidden) + 1 < Cardinality(names)
                /\ Ask(hiding(Append(page.hidden, c)), "hide")
          \/ \E c \in ToSet(page.hidden) : Ask(hiding(Omit(page.hidden, {c})), "hide")

\* Somebody else inserts or deletes rows, or drops a column.
Change ==
    /\ changes < MaxChanges /\ changes' = changes + 1 /\ steady' = FALSE
    /\ \/ height' \in {n \in {height - 1, height + 1} : n \in 0..MaxSize} /\ UNCHANGED names
       \/ \E c \in names : names' = names \ {c} /\ names # {c} /\ UNCHANGED height
    /\ UNCHANGED <<view, perPage, url, count, page, came>>

\* Another tab of the session sets the page size.
OtherTab == /\ changes < MaxChanges /\ changes' = changes + 1
            /\ perPage' \in ToSet(PageSizes)
            /\ UNCHANGED <<height, names, view, url, count, steady, page, came>>

\* Whatever somebody types for an address.
Typed == page # NoPage /\ \E u \in TypedUrls : Ask(u, "typed")

\* A table of any size and columns.
AnySize == [height : 0..MaxSize, view : BOOLEAN, names : SUBSET PageColumns]

GNext == CountRows \/ OtherTab \/ ReadRows \/ Follow \/ Change \/ Typed

GSpec == GInit(AnySize) /\ [][GNext]_gvars

(***************************************************************************)
(* Properties                                                              *)
(***************************************************************************)
\* Paging leads through the whole table, whatever the count is worth: a next
\* page is offered exactly when rows are left, begins where the page before it
\* ended; the way back leaves no row out; both stay at max_browse_offset only when
\* there is no exact count to go by; the last page has the last row, a
\* page never lies beyond an exact count, and a grid is called the whole result
\* (so that filtering it in the browser is sound) only when it is. A link keeps
\* the sort keys and the hidden columns it does not change, and reading them back
\* never repeats a key or hides every column.
PagesCover == page # NoPage /\ steady =>
    LET end(p) == p.pos + p.got
        old == came.from
    IN  /\ ~page.all => (page.next <=> end(page) < height)
        /\ page.whole => page.got = height
        /\ page.total > 0 /\ ~page.approx => page.got > 0
        /\ Len(page.sorts) <= MaxSortKeys /\ (names # {} => names \ ToSet(page.hidden) # {})
        /\ \A m, n \in DOMAIN page.sorts : page.sorts[m].col = page.sorts[n].col => m = n
        /\ old # NoPage =>
              /\ came.by = "next" =>
                    \/ page.pos = end(old)
                    \/ page.pos = MaxBrowseOffset /\ page.pos < end(old) /\ (page.approx \/ page.total < 0)
              /\ came.by = "prev" =>
                    /\ page.pos < old.pos
                    /\ \/ page.pos + page.limit >= Least(old.pos, height)
                       \/ page.pos = MaxBrowseOffset /\ (page.approx \/ page.total < 0)
              /\ came.by = "last" /\ ~old.approx /\ page.total >= 0 /\ ~page.approx => end(page) = height
              /\ came.by # "sort" => page.sorts = old.sorts
              /\ came.by # "hide" => page.hidden = old.hidden
              /\ came.by = "all" => page.all # old.all
              /\ came.by \notin {"all"} => page.limit = old.limit
=============================================================================
