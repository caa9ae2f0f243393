----------------------------- MODULE AuditExport ------------------------------
(***************************************************************************)
(* audit.Service.Export: a CSV of everything a filter selects, read page   *)
(* by page while other requests keep recording.                            *)
(*                                                                         *)
(* A page is two statements of repository.Query: a count and a select with *)
(* LIMIT and OFFSET.  Neither is in a transaction, so rows may be          *)
(* committed between the pages and between the two statements of a page.   *)
(* The rows the filter selects are numbered by the order of the select     *)
(* (occurred_at, id): a larger number comes first.  A new row may have any *)
(* place in that order, because occurred_at is chosen by the producer.     *)
(***************************************************************************)
EXTENDS Integers, FiniteSets

CONSTANTS
    Rows,        \* the rows the filter may select, as numbers in sort order
    Requested,   \* max_records as callers may send it
    PageLimit,   \* rows per page (100 in the code)
    MaxExport    \* rows per export (10000 in the code)

ASSUME ExportAssumption ==
    /\ Rows \subseteq Int /\ IsFiniteSet(Rows)
    /\ Requested \subseteq Int
    /\ PageLimit \in Nat \ {0}
    /\ MaxExport \in Nat \ {0} /\ MaxExport % PageLimit = 0

VARIABLES
    table,      \* committed rows the filter selects
    start,      \* observation: table when the export began
    pc,         \* where Export is
    max,        \* maxRecords
    page, size, \* filter.Page, filter.PageSize
    total,      \* result.Total of the current page
    exported,   \* rows written so far
    lines,      \* lines[r]: how often row r is in the CSV
    slipped     \* observation: a row was committed between a count and its select

exportVars == <<pc, max, page, size, total, exported, lines>>
vars == <<table, start, pc, max, page, size, total, exported, lines, slipped>>

\* The values of the state of Export; in particular no more rows are written
\* than max_records, also when inserts make pages overlap.
TypeOK ==
    /\ table \subseteq Rows /\ start \subseteq table
    /\ pc \in {"begin", "count", "select", "done", "failed"}
    /\ max \in Requested \cup {MaxExport}
    /\ page \in Nat \ {0}
    /\ size \in 0..PageLimit
    /\ total \in Nat
    /\ exported \in Nat /\ (exported > 0 => exported <= max)
    /\ lines \in [Rows -> Nat]
    /\ slipped \in BOOLEAN

Init ==
    /\ table \in SUBSET Rows
    /\ start = table
    /\ pc = "begin"
    /\ max \in Requested
    /\ page = 1 /\ size = 0 /\ total = 0 /\ exported = 0
    /\ lines = [r \in Rows |-> 0]
    /\ slipped = FALSE
-------------------------------------------------------------------------------
\* max_records: absent means the largest export, larger is refused.
Begin ==
    /\ pc = "begin"
    /\ max' = IF max <= 0 THEN MaxExport ELSE max
    /\ pc' = IF max > MaxExport THEN "failed" ELSE "count"
    /\ UNCHANGED <<table, start, page, size, total, exported, lines, slipped>>

\* Mutant: a page may be larger than the limit.
PageSizeUncapped == max - exported

\* Rows asked for by the next page.
PageSize == IF max - exported < PageLimit THEN max - exported ELSE PageLimit

\* First statement of a page: SELECT count(*).
Count ==
    /\ pc = "count"
    /\ size' = PageSize
    /\ total' = Cardinality(table)
    /\ pc' = "select"
    /\ UNCHANGED <<table, start, max, page, exported, lines, slipped>>

Rank(r) == Cardinality({x \in table : x > r})

\* Mutant: the offset is one page too far.
PageRowsShifted == {r \in table : Rank(r) >= page * size /\ Rank(r) < (page + 1) * size}

\* ORDER BY ... LIMIT size OFFSET (page - 1) * size.
PageRows ==
    LET offset == (page - 1) * size
    IN  {r \in table : offset <= Rank(r) /\ Rank(r) < offset + size}

\* Mutant: the last row counted is not waited for.
LastPageEarly(n) == n < size \/ exported + n + 1 >= total \/ exported + n >= max

\* Whether the loop ends after a page of n rows.
LastPage(n) == n < size \/ exported + n >= total \/ exported + n >= max

\* Second statement of a page, and the lines written for its rows.
Select ==
    /\ pc = "select"
    /\ LET n == Cardinality(PageRows) IN
       /\ lines' = [r \in Rows |-> IF r \in PageRows THEN lines[r] + 1 ELSE lines[r]]
       /\ exported' = exported + n
       /\ IF LastPage(n)
          THEN pc' = "done" /\ UNCHANGED page
          ELSE pc' = "count" /\ page' = page + 1
    /\ UNCHANGED <<table, start, max, size, total, slipped>>

\* A page is refused or fails: the whole export returns an error, without rows.
Fail ==
    /\ pc \in {"count", "select"}
    /\ pc' = "failed"
    /\ lines' = [r \in Rows |-> 0]
    /\ UNCHANGED <<table, start, max, page, size, total, exported, slipped>>

\* Another request commits a row the filter selects.
Insert(r) ==
    /\ r \notin table
    /\ pc \notin {"done", "failed"}
    /\ table' = table \cup {r}
    /\ start' = IF pc = "begin" THEN table' ELSE start
    /\ slipped' = (slipped \/ pc = "select")
    /\ UNCHANGED exportVars

Finished == pc \in {"done", "failed"} /\ UNCHANGED vars

Next ==
    \/ Begin \/ Count \/ Select \/ Fail \/ Finished
    \/ \E r \in Rows : Insert(r)

Spec == Init /\ [][Next]_vars
-------------------------------------------------------------------------------
WholePages == max % PageLimit = 0

\* The first n rows of the query as the table stood when the export began.
FirstRows(n) == {r \in start : Cardinality({x \in start : x > r}) < n}

\* An export that no insert disturbed is the query it was asked for: the first
\* max_records rows, each of them once.
ExportIsTheQuery ==
    pc = "done" /\ table = start =>
        \A r \in Rows : lines[r] = IF r \in FirstRows(max) THEN 1 ELSE 0

\* The same for a max_records that is a multiple of the page size (the default
\* is): pages of one size tile the result.
WholePagesAreTheQuery == WholePages => ExportIsTheQuery

\* Rows committed between pages move rows across page borders, but an export of
\* whole pages that stopped short of max_records still holds every row that was
\* there when it began, unless a row slipped between a count and its select:
\* the stale count then ends the loop too early.
OldRowsCovered ==
    pc = "done" /\ WholePages /\ ~slipped /\ exported < max =>
        \A r \in start : lines[r] > 0
===============================================================================
