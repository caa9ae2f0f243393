--------------------------- MODULE AuditExportProofs ---------------------------
(***************************************************************************)
(* Proofs about AuditExport, for every table, every page size and every    *)
(* limit: what LIMIT and OFFSET select, and from it what an export holds.  *)
(***************************************************************************)
EXTENDS AuditExport, FiniteSetTheorems, TLAPS

USE ExportAssumption

-------------------------------------------------------------------------------
(* Arithmetic of pages. *)

LEMMA Multiple ==
    ASSUME NEW m \in Int, NEW l \in Nat \ {0}, m % l = 0
    PROVE  \E q \in Int : m = q * l
  <1>1. m = l * (m \div l) + (m % l) /\ m \div l \in Int
    OBVIOUS
  <1>2. m = (m \div l) * l
    BY <1>1
  <1>3. QED
    BY <1>1, <1>2

\* Below a multiple of the page size there is room for a whole page.
LEMMA NextPageFits ==
    ASSUME NEW l \in Nat \ {0}, NEW m \in Int, m % l = 0, NEW k \in Int, k * l < m
    PROVE  k * l + l <= m
  <1>1. PICK q \in Int : m = q * l
    BY Multiple
  <1>2. CASE k >= q
    <2>1. PICK d \in Nat : k = q + d
      BY <1>2
    <2>2. k * l = q * l + d * l /\ d * l \in Nat /\ q * l \in Int /\ k * l \in Int
      BY <2>1
    <2>3. QED
      BY <1>1, <2>2
  <1>3. CASE k < q
    <2>1. PICK d \in Nat : q = k + 1 + d
      BY <1>3
    <2>2. q * l = k * l + l + d * l /\ d * l \in Nat /\ k * l \in Int
      BY <2>1
    <2>3. QED
      BY <1>1, <2>2
  <1>4. QED
    BY <1>2, <1>3
-------------------------------------------------------------------------------
(* The order of the rows. *)

\* The number of rows of T that come before r.
RankIn(T, r) == Cardinality({x \in T : x > r})

\* Ranks are positions: each is below the number of rows, and a later row has a
\* larger one.
LEMMA RankBounds ==
    ASSUME NEW T, T \subseteq Int, IsFiniteSet(T), NEW r \in T
    PROVE  RankIn(T, r) \in Nat /\ RankIn(T, r) < Cardinality(T)
  <1> DEFINE B == {x \in T : x > r}
  <1>1. IsFiniteSet(B) /\ Cardinality(B) <= Cardinality(T) /\ (Cardinality(T) = Cardinality(B) => T = B)
    BY FS_Subset
  <1>2. Cardinality(B) \in Nat /\ Cardinality(T) \in Nat
    BY <1>1, FS_CardinalityType
  <1>3. r \notin B
    OBVIOUS
  <1>4. Cardinality(T) # Cardinality(B)
    BY <1>1, <1>3
  <1>5. QED
    BY <1>1, <1>2, <1>4 DEF RankIn

LEMMA RankOrders ==
    ASSUME NEW T, T \subseteq Int, IsFiniteSet(T), NEW r \in T, NEW s \in T, r < s
    PROVE  RankIn(T, s) < RankIn(T, r)
  <1> DEFINE B == {x \in T : x > r}
             C == {x \in T : x > s}
  <1>1. IsFiniteSet(B)
    BY FS_Subset
  <1>2. C \in SUBSET B /\ s \in B /\ s \notin C
    <2>1. r \in Int /\ s \in Int
      OBVIOUS
    <2>2. ASSUME NEW x \in T, x > s PROVE x > r
      <3>1. x \in Int
        OBVIOUS
      <3>2. QED
        BY <2>1, <2>2, <3>1
    <2>3. C \in SUBSET B
      BY <2>2
    <2>4. s \in B
      BY <2>1
    <2>5. s \notin C
      BY <2>1
    <2>6. QED
      BY <2>3, <2>4, <2>5
  <1>3. IsFiniteSet(C) /\ Cardinality(C) <= Cardinality(B) /\ (Cardinality(B) = Cardinality(C) => B = C)
    BY <1>1, <1>2, FS_Subset
  <1>4. Cardinality(B) \in Nat /\ Cardinality(C) \in Nat
    BY <1>1, <1>3, FS_CardinalityType
  <1>5. Cardinality(B) # Cardinality(C)
    BY <1>2, <1>3
  <1>6. QED
    BY <1>3, <1>4, <1>5 DEF RankIn

LEMMA RanksDiffer ==
    ASSUME NEW T, T \subseteq Int, IsFiniteSet(T), NEW r \in T, NEW s \in T,
           RankIn(T, r) = RankIn(T, s)
    PROVE  r = s
  <1>1. r \in Int /\ s \in Int
    OBVIOUS
  <1>2. RankIn(T, r) \in Nat
    BY RankBounds
  <1>3. CASE r < s
    <2>1. RankIn(T, s) < RankIn(T, r)
      BY <1>3, RankOrders
    <2>2. QED
      BY <1>2, <2>1
  <1>4. CASE s < r
    <2>1. RankIn(T, r) < RankIn(T, s)
      BY <1>4, RankOrders
    <2>2. QED
      BY <1>2, <2>1
  <1>5. QED
    BY <1>1, <1>3, <1>4

\* Every position below the number of rows is the rank of a row.
LEMMA RanksFill ==
    ASSUME NEW T, T \subseteq Int, IsFiniteSet(T), NEW i \in Nat, i < Cardinality(T)
    PROVE  \E r \in T : RankIn(T, r) = i
  <1> DEFINE N == Cardinality(T)
             I == 0..(N - 1)
             f == [r \in T |-> RankIn(T, r)]
  <1>1. N \in Nat
    BY FS_CardinalityType
  <1>2. IsFiniteSet(I) /\ Cardinality(I) = N
    <2>1. 0 \in Int /\ N - 1 \in Int
      BY <1>1
    <2>2. IsFiniteSet(I) /\ Cardinality(I) = IF 0 > N - 1 THEN 0 ELSE (N - 1) - 0 + 1
      BY <2>1, FS_Interval
    <2>3. QED
      BY <1>1, <2>2
  <1>3. ASSUME NEW r \in T PROVE RankIn(T, r) \in I
    <2>1. RankIn(T, r) \in Nat /\ RankIn(T, r) < N
      BY RankBounds
    <2>2. QED
      BY <1>1, <2>1
  <1>4. f \in [T -> I]
    <2> HIDE DEF I
    <2> QED
      BY <1>3
  <1>5. ASSUME NEW r \in T, NEW s \in T, f[r] = f[s] PROVE r = s
    <2>1. RankIn(T, r) = RankIn(T, s)
      BY <1>5
    <2>2. QED
      BY <2>1, RanksDiffer
  <1>6. f \in Injection(T, I)
    BY <1>4, <1>5 DEF Injection, IsInjective
  <1>7. f \in Surjection(T, I)
    BY <1>2, <1>6, FS_Injection
  <1>8. i \in I
    BY <1>1
  <1>9. PICK r \in T : f[r] = i
    BY <1>7, <1>8 DEF Surjection
  <1>10. QED
    BY <1>9

\* What LIMIT n OFFSET a returns, by number.
LEMMA WindowSize ==
    ASSUME NEW T, T \subseteq Int, IsFiniteSet(T), NEW a \in Nat, NEW n \in Nat
    PROVE  LET N == Cardinality(T)
               W == {r \in T : a <= RankIn(T, r) /\ RankIn(T, r) < a + n}
           IN  /\ N \in Nat /\ IsFiniteSet(W)
               /\ Cardinality(W) = IF a + n <= N THEN n ELSE IF a <= N THEN N - a ELSE 0
  <1> DEFINE N == Cardinality(T)
             W == {r \in T : a <= RankIn(T, r) /\ RankIn(T, r) < a + n}
             e == IF a + n <= N THEN a + n ELSE N
             I == a..(e - 1)
             f == [r \in W |-> RankIn(T, r)]
  <1>1. N \in Nat
    BY FS_CardinalityType
  <1>2. IsFiniteSet(W)
    BY FS_Subset
  <1>3. IsFiniteSet(I) /\ Cardinality(I) = IF a + n <= N THEN n ELSE IF a <= N THEN N - a ELSE 0
    <2>1. a \in Int /\ e - 1 \in Int
      BY <1>1
    <2>2. IsFiniteSet(I) /\ Cardinality(I) = IF a > e - 1 THEN 0 ELSE (e - 1) - a + 1
      BY <2>1, FS_Interval
    <2>3. QED
      BY <1>1, <2>2
  <1>4. ASSUME NEW r \in W PROVE RankIn(T, r) \in I
    <2>1. RankIn(T, r) \in Nat /\ RankIn(T, r) < N
      BY RankBounds
    <2>2. QED
      BY <1>1, <2>1
  <1>5. f \in [W -> I]
    <2> HIDE DEF I, W
    <2> QED
      BY <1>4
  <1>6. ASSUME NEW r \in W, NEW s \in W, f[r] = f[s] PROVE r = s
    <2>1. RankIn(T, r) = RankIn(T, s) /\ r \in T /\ s \in T
      BY <1>6
    <2>2. QED
      BY <2>1, RanksDiffer
  <1>7. f \in Injection(W, I)
    BY <1>5, <1>6 DEF Injection, IsInjective
  <1>8. ASSUME NEW i \in I PROVE \E r \in W : f[r] = i
    <2>1. i \in Nat /\ i < N /\ a <= i /\ i < a + n
      BY <1>1
    <2>2. PICK r \in T : RankIn(T, r) = i
      BY <2>1, RanksFill
    <2>3. QED
      BY <2>1, <2>2
  <1>9. f \in Surjection(W, I)
    BY <1>5, <1>8 DEF Surjection
  <1>10. Cardinality(W) = Cardinality(I)
    BY <1>3, <1>7, <1>9, FS_Injection
  <1>11. QED
    BY <1>1, <1>2, <1>3, <1>10

\* A new row leaves the rank of an older one or moves it one further.
LEMMA RankGrows ==
    ASSUME NEW T, T \subseteq Int, IsFiniteSet(T), NEW r \in T, NEW x \in Int
    PROVE  RankIn(T, r) <= RankIn(T \cup {x}, r)
  <1> DEFINE B == {y \in T : y > r}
             C == {y \in T \cup {x} : y > r}
  <1>1. IsFiniteSet(T \cup {x})
    BY FS_AddElement
  <1>2. IsFiniteSet(C)
    BY <1>1, FS_Subset
  <1>3. B \in SUBSET C
    OBVIOUS
  <1>4. Cardinality(B) <= Cardinality(C)
    BY <1>2, <1>3, FS_Subset
  <1>5. QED
    BY <1>4 DEF RankIn
-------------------------------------------------------------------------------
(* The inductive invariant.  That an export holds the right rows at its end    *)
(* says nothing about the pages before the last one: what carries it from page *)
(* to page is how the rows written so far lie in the order of the query.       *)

Reading == pc \in {"count", "select"}

\* Nothing is written before the first page, and a slip leaves a trace.
Fresh ==
    /\ pc = "begin" => /\ exported = 0 /\ page = 1 /\ ~slipped /\ table = start
                       /\ \A r \in Rows : lines[r] = 0
    /\ slipped => table # start

\* Between the pages there is still something to ask for, and a count is the
\* count of the table its select reads unless a row slipped in.
Asking ==
    /\ Reading => max \in 1..MaxExport /\ exported < max
    /\ pc = "select" => size = PageSize /\ (~slipped => total = Cardinality(table))

\* Whole pages: the offset of the next page is the number of rows written.
Aligned == Reading /\ WholePages => exported = (page - 1) * PageLimit

\* An undisturbed export holds exactly the rows before the next page.
Tiled ==
    Reading /\ WholePages /\ table = start =>
        \A r \in Rows : lines[r] = IF r \in table /\ RankIn(table, r) < exported THEN 1 ELSE 0

\* A disturbed one holds every old row that is not on the next pages: inserts
\* only move rows to later pages.
Covered ==
    Reading /\ WholePages /\ ~slipped =>
        \A r \in start : lines[r] > 0 \/ RankIn(table, r) >= exported

IInv ==
    /\ TypeOK /\ Fresh /\ Asking /\ Aligned /\ Tiled /\ Covered
    /\ WholePagesAreTheQuery /\ OldRowsCovered

LEMMA TableFacts ==
    ASSUME TypeOK
    PROVE  /\ table \subseteq Int /\ IsFiniteSet(table) /\ Cardinality(table) \in Nat
           /\ \A r \in table : RankIn(table, r) \in Nat /\ RankIn(table, r) < Cardinality(table)
  <1>1. table \subseteq Int /\ IsFiniteSet(table)
    BY FS_Subset DEF TypeOK
  <1>2. QED
    BY <1>1, FS_CardinalityType, RankBounds

\* The size of a page: at least one row, and never more than is left to ask for.
LEMMA PageSizeFits ==
    ASSUME TypeOK, Reading, max \in 1..MaxExport, exported < max
    PROVE  /\ PageSize \in 1..PageLimit
           /\ exported + PageSize <= max
           /\ WholePages /\ exported = (page - 1) * PageLimit => PageSize = PageLimit
  <1>1. max \in Int /\ exported \in Nat /\ page - 1 \in Int
    BY DEF TypeOK
  <1>2. PageSize \in 1..PageLimit /\ exported + PageSize <= max
    BY <1>1 DEF PageSize
  <1>3. ASSUME WholePages, exported = (page - 1) * PageLimit PROVE PageSize = PageLimit
    <2>1. (page - 1) * PageLimit + PageLimit <= max
      BY <1>1, <1>3, NextPageFits DEF WholePages
    <2>2. QED
      BY <1>1, <1>3, <2>1 DEF PageSize
  <1>4. QED
    BY <1>2, <1>3

\* The page a select returns: its offset is a number of rows, it has at most
\* size of them, and fewer only when the table ends in it.
LEMMA PageFacts ==
    ASSUME IInv, pc = "select"
    PROVE  LET a == (page - 1) * size
               n == Cardinality(PageRows)
           IN  /\ a \in Nat /\ n \in 0..size
               /\ n < size => \A r \in table : RankIn(table, r) < a + size
               /\ PageRows = {r \in table : a <= RankIn(table, r) /\ RankIn(table, r) < a + size}
  <1> DEFINE a == (page - 1) * size
             n == Cardinality(PageRows)
             N == Cardinality(table)
  <1>1. page - 1 \in Nat /\ size \in Nat
    BY DEF IInv, TypeOK
  <1>2. a \in Nat
    BY <1>1
  <1>3. PageRows = {r \in table : a <= RankIn(table, r) /\ RankIn(table, r) < a + size}
    BY DEF PageRows, Rank, RankIn
  <1>4. N \in Nat /\ table \subseteq Int /\ IsFiniteSet(table) /\ \A r \in table : RankIn(table, r) \in Nat /\ RankIn(table, r) < N
    BY TableFacts DEF IInv
  <1> HIDE DEF a
  <1>5. n = IF a + size <= N THEN size ELSE IF a <= N THEN N - a ELSE 0
    <2>1. Cardinality({r \in table : a <= RankIn(table, r) /\ RankIn(table, r) < a + size})
            = IF a + size <= N THEN size ELSE IF a <= N THEN N - a ELSE 0
      BY ONLY <1>1, <1>2, <1>4, WindowSize
    <2>2. QED
      BY <1>3, <2>1
  <1>6. n \in 0..size
    BY <1>1, <1>2, <1>4, <1>5
  <1>7. n < size => \A r \in table : RankIn(table, r) < a + size
    BY <1>1, <1>2, <1>4, <1>5
  <1> USE DEF a
  <1>8. QED
    BY <1>2, <1>3, <1>6, <1>7

\* A select that counted the table it reads is the last one only when no row is
\* left behind the page, or max_records is reached.
LEMMA LastPageEnds ==
    ASSUME IInv, pc = "select", ~slipped, WholePages,
           LastPage(Cardinality(PageRows)),
           NEW r \in table
    PROVE  \/ RankIn(table, r) < exported + PageLimit
           \/ exported + Cardinality(PageRows) >= max
  <1> DEFINE n == Cardinality(PageRows)
  <1>1. size = PageLimit /\ exported = (page - 1) * PageLimit /\ total = Cardinality(table)
    BY PageSizeFits DEF IInv, Asking, Aligned, Reading
  <1>2. n \in 0..size /\ (n < size => RankIn(table, r) < exported + size)
    BY <1>1, PageFacts
  <1>3. RankIn(table, r) \in Nat /\ RankIn(table, r) < total /\ exported \in Nat /\ total \in Nat
    BY <1>1, TableFacts DEF IInv, TypeOK
  <1>4. QED
    BY <1>1, <1>2, <1>3 DEF LastPage

LEMMA InitOK == Init => IInv
  <1> SUFFICES ASSUME Init PROVE IInv
    OBVIOUS
  <1>1. TypeOK
    <2>1. lines \in [Rows -> Nat]
      BY DEF Init
    <2>2. 0 \in 0..PageLimit /\ 1 \in Nat \ {0} /\ 0 \in Nat /\ ~ (0 > 0)
      OBVIOUS
    <2>3. table \subseteq Rows /\ start \subseteq table /\ max \in Requested \cup {MaxExport}
      BY DEF Init
    <2>4. QED
      BY <2>1, <2>2, <2>3 DEF Init, TypeOK
  <1>2. Fresh
    BY DEF Init, Fresh
  <1>3. QED
    BY <1>1, <1>2 DEF Init, IInv, Asking, Aligned, Tiled, Covered, Reading,
         WholePagesAreTheQuery, OldRowsCovered, ExportIsTheQuery

LEMMA BeginKeeps ==
    ASSUME IInv, Begin
    PROVE  IInv'
  <1>1. TypeOK'
    BY DEF IInv, TypeOK, Fresh, Begin
  <1>2. Fresh' /\ WholePagesAreTheQuery' /\ OldRowsCovered'
    BY DEF IInv, Fresh, Begin, WholePagesAreTheQuery, OldRowsCovered, ExportIsTheQuery
  <1>3. Asking'
    BY DEF IInv, TypeOK, Fresh, Begin, Asking, Reading
  <1>4. Aligned'
    BY DEF IInv, TypeOK, Fresh, Begin, Aligned, Reading
  <1>5. \A r \in table : RankIn(table, r) \in Nat
    BY TableFacts DEF IInv
  <1>6. Tiled' /\ Covered'
    BY <1>5 DEF IInv, TypeOK, Fresh, Begin, Tiled, Covered, Reading
  <1>7. QED
    BY <1>1, <1>2, <1>3, <1>4, <1>6 DEF IInv

LEMMA CountKeeps ==
    ASSUME IInv, Count
    PROVE  IInv'
  <1>1. PageSize \in 1..PageLimit
    BY PageSizeFits DEF IInv, Asking, Reading, Count
  <1>2. Cardinality(table) \in Nat
    BY TableFacts DEF IInv
  <1>3. TypeOK'
    BY <1>1, <1>2 DEF IInv, TypeOK, Count
  <1>4. Fresh' /\ WholePagesAreTheQuery' /\ OldRowsCovered'
    BY DEF IInv, Fresh, Count, WholePagesAreTheQuery, OldRowsCovered, ExportIsTheQuery
  <1>5. Asking'
    BY DEF IInv, Count, Asking, Reading, PageSize
  <1>6. Aligned' /\ Tiled' /\ Covered'
    BY DEF IInv, Count, Aligned, Tiled, Covered, Reading, WholePages
  <1>7. QED
    BY <1>3, <1>4, <1>5, <1>6 DEF IInv

LEMMA FailKeeps ==
    ASSUME IInv, Fail
    PROVE  IInv'
  <1>1. TypeOK'
    BY DEF IInv, TypeOK, Fail
  <1>2. QED
    BY <1>1 DEF IInv, Fresh, Asking, Aligned, Tiled, Covered, Reading, Fail,
         WholePagesAreTheQuery, OldRowsCovered, ExportIsTheQuery

LEMMA InsertKeeps ==
    ASSUME IInv, NEW x \in Rows, Insert(x)
    PROVE  IInv'
  <1>0. x \in Int /\ table \subseteq Int /\ IsFiniteSet(table)
    BY TableFacts DEF IInv
  <1>1. TypeOK'
    BY DEF IInv, TypeOK, Insert, exportVars
  <1>2. WholePagesAreTheQuery' /\ OldRowsCovered'
    BY DEF IInv, Insert, exportVars, WholePagesAreTheQuery, OldRowsCovered, ExportIsTheQuery
  <1>3. table' # start' \/ pc = "begin"
    BY DEF IInv, TypeOK, Insert
  <1>4. Fresh'
    BY <1>3 DEF IInv, Fresh, Insert, exportVars
  <1>5. Asking'
    BY DEF IInv, Insert, exportVars, Asking, Reading, PageSize
  <1>6. Aligned'
    BY DEF IInv, Insert, exportVars, Aligned, Reading, WholePages
  <1>7. Tiled'
    BY <1>3 DEF IInv, Insert, exportVars, Tiled, Reading
  <1>8. Covered'
    <2> SUFFICES ASSUME Reading, WholePages, ~slipped, NEW r \in start, ~ (lines[r] > 0)
                 PROVE  RankIn(table \cup {x}, r) >= exported
      BY DEF IInv, Insert, exportVars, Covered, Reading, WholePages
    <2>1. RankIn(table, r) >= exported /\ r \in table /\ exported \in Nat
      BY DEF IInv, Covered, TypeOK
    <2>2. RankIn(table, r) <= RankIn(table \cup {x}, r)
      BY <1>0, <2>1, RankGrows
    <2>3. RankIn(table, r) \in Nat
      BY <1>0, <2>1, RankBounds
    <2>4. RankIn(table \cup {x}, r) \in Nat
      <3>1. IsFiniteSet(table \cup {x}) /\ table \cup {x} \subseteq Int /\ r \in table \cup {x}
        BY <1>0, <2>1, FS_AddElement
      <3>2. QED
        BY <3>1, RankBounds
    <2>5. QED
      BY <2>1, <2>2, <2>3, <2>4
  <1>9. QED
    BY <1>1, <1>2, <1>4, <1>5, <1>6, <1>7, <1>8 DEF IInv

LEMMA SelectKeeps ==
    ASSUME IInv, Select
    PROVE  IInv'
  <1> DEFINE n == Cardinality(PageRows)
  <1>0. /\ pc = "select" /\ Reading /\ max \in 1..MaxExport /\ exported < max /\ size = PageSize
        /\ exported \in Nat /\ page \in Nat \ {0} /\ table \subseteq Rows /\ start \subseteq table
        /\ lines \in [Rows -> Nat]
    BY DEF IInv, TypeOK, Select, Asking, Reading
  <1>1. size \in 1..PageLimit /\ exported + size <= max
    BY <1>0, PageSizeFits DEF IInv
  <1>2. n \in 0..size
    BY <1>0, PageFacts
  <1>3. exported' = exported + n /\ exported' \in Nat /\ exported' <= max
    BY <1>0, <1>1, <1>2 DEF Select
  <1>4. \A r \in Rows : lines'[r] = IF r \in PageRows THEN lines[r] + 1 ELSE lines[r]
    BY DEF Select
  <1>5. lines' \in [Rows -> Nat]
    BY <1>0 DEF Select
  <1>6. TypeOK'
    BY <1>0, <1>3, <1>5 DEF IInv, TypeOK, Select
  <1>7. Fresh'
    BY <1>0 DEF IInv, Fresh, Select
  <1>8. pc' = "count" => n = size /\ exported' < max /\ page' = page + 1
    BY <1>0, <1>1, <1>2, <1>3 DEF Select, LastPage
  <1>9. pc' \in {"count", "done"}
    BY DEF Select
  <1>10. Asking'
    BY <1>0, <1>8, <1>9 DEF Asking, Reading, Select
  <1>11. ASSUME WholePages PROVE size = PageLimit /\ exported = (page - 1) * PageLimit
    BY <1>0, <1>11, PageSizeFits DEF IInv, Aligned
  <1>12. UNCHANGED <<table, start, max, slipped, WholePages>>
    BY DEF Select, WholePages
  <1>13. ASSUME Reading', WholePages PROVE exported' = (page' - 1) * PageLimit
    <2>1. n = PageLimit /\ page' = page + 1
      BY <1>8, <1>9, <1>11, <1>13 DEF Reading
    <2>2. page - 1 \in Int /\ page' - 1 = (page - 1) + 1
      BY <1>0, <2>1
    <2>3. ((page - 1) + 1) * PageLimit = (page - 1) * PageLimit + PageLimit
      BY <2>2
    <2>4. QED
      BY <1>3, <1>11, <1>13, <2>1, <2>2, <2>3
  <1>14. Aligned'
    BY <1>12, <1>13 DEF Aligned
  \* With whole pages the page read is the one behind the rows already written.
  <1>15. ASSUME WholePages, NEW r \in Rows
         PROVE  r \in PageRows <=> r \in table /\ exported <= RankIn(table, r)
                                               /\ RankIn(table, r) < exported + PageLimit
    BY <1>0, <1>11, <1>15, PageFacts
  <1>16. \A r \in table : RankIn(table, r) \in Nat
    BY TableFacts DEF IInv
  <1>17. ASSUME WholePages, table = start, NEW r \in Rows
         PROVE  lines'[r] = IF r \in table /\ RankIn(table, r) < exported + PageLimit THEN 1 ELSE 0
    <2>1. lines[r] = IF r \in table /\ RankIn(table, r) < exported THEN 1 ELSE 0
      BY <1>0, <1>17 DEF IInv, Tiled
    <2>2. QED
      BY <1>0, <1>4, <1>15, <1>16, <1>17, <2>1
  <1>18. Tiled'
    <2> SUFFICES ASSUME Reading', WholePages, table = start, NEW r \in Rows
                 PROVE  lines'[r] = IF r \in table /\ RankIn(table, r) < exported' THEN 1 ELSE 0
      BY <1>12 DEF Tiled
    <2>1. exported' = exported + PageLimit
      BY <1>3, <1>8, <1>9, <1>11 DEF Reading
    <2>2. QED
      BY <1>17, <2>1
  \* Old rows are written already, on this page, or further on.
  <1>19. ASSUME WholePages, ~slipped, NEW r \in start
         PROVE  lines'[r] > 0 \/ RankIn(table, r) >= exported + PageLimit
    <2>1. lines[r] > 0 \/ RankIn(table, r) >= exported
      BY <1>0, <1>19 DEF IInv, Covered
    <2>2. r \in table /\ r \in Rows /\ lines[r] \in Nat /\ RankIn(table, r) \in Nat
      BY <1>0, <1>16
    <2>3. CASE r \in PageRows
      BY <1>4, <2>2, <2>3
    <2>4. CASE r \notin PageRows
      <3>1. lines'[r] = lines[r]
        BY <1>4, <2>2, <2>4
      <3>2. ~ (exported <= RankIn(table, r)) \/ ~ (RankIn(table, r) < exported + PageLimit)
        BY <1>15, <1>19, <2>2, <2>4
      <3>3. QED
        BY <1>0, <2>1, <2>2, <3>1, <3>2
    <2>5. QED
      BY <2>3, <2>4
  <1>20. Covered'
    <2> SUFFICES ASSUME Reading', WholePages, ~slipped, NEW r \in start
                 PROVE  lines'[r] > 0 \/ RankIn(table, r) >= exported'
      BY <1>12 DEF Covered
    <2>1. exported' = exported + PageLimit
      BY <1>3, <1>8, <1>9, <1>11 DEF Reading
    <2>2. QED
      BY <1>19, <2>1
  \* At the end nothing is left behind the last page.
  <1>21. ASSUME pc' = "done", WholePages, ~slipped, NEW r \in table
         PROVE  RankIn(table, r) < exported + PageLimit \/ exported' >= max
    <2>1. LastPage(n)
      BY <1>21 DEF Select
    <2>2. QED
      BY <1>0, <1>3, <1>21, <2>1, LastPageEnds
  <1>22. OldRowsCovered'
    <2> SUFFICES ASSUME pc' = "done", WholePages, ~slipped, exported' < max, NEW r \in start
                 PROVE  lines'[r] > 0
      BY <1>12 DEF OldRowsCovered
    <2>1. r \in table /\ RankIn(table, r) \in Nat
      BY <1>0, <1>16
    <2>2. RankIn(table, r) < exported + PageLimit
      BY <1>0, <1>3, <1>21, <2>1
    <2>3. QED
      BY <1>0, <1>19, <2>1, <2>2
  <1>23. WholePagesAreTheQuery'
    <2> SUFFICES ASSUME pc' = "done", WholePages, table = start, NEW r \in Rows
                 PROVE  lines'[r] = IF r \in table /\ RankIn(table, r) < max THEN 1 ELSE 0
      BY <1>12 DEF WholePagesAreTheQuery, ExportIsTheQuery, FirstRows, RankIn
    <2>1. ~slipped
      BY DEF IInv, Fresh
    <2>2. exported + PageLimit <= max
      BY <1>1, <1>11
    <2>3. ASSUME r \in table
          PROVE  RankIn(table, r) < exported + PageLimit <=> RankIn(table, r) < max
      <3>1. RankIn(table, r) \in Nat
        BY <1>16, <2>3
      <3>2. CASE exported' >= max
        BY <1>0, <1>2, <1>3, <1>11, <2>2, <3>1, <3>2
      <3>3. CASE RankIn(table, r) < exported + PageLimit
        BY <1>0, <2>2, <3>1, <3>3
      <3>4. QED
        BY <1>21, <2>1, <2>3, <3>2, <3>3
    <2>4. QED
      BY <1>17, <2>3
  <1>24. QED
    BY <1>6, <1>7, <1>10, <1>14, <1>18, <1>20, <1>22, <1>23 DEF IInv

LEMMA NextKeeps ==
    ASSUME IInv, [Next]_vars
    PROVE  IInv'
  <1>1. CASE UNCHANGED vars
    BY <1>1 DEF IInv, TypeOK, Fresh, Asking, Aligned, Tiled, Covered, Reading, PageSize,
         WholePages, WholePagesAreTheQuery, OldRowsCovered, ExportIsTheQuery, FirstRows, vars
  <1>2. CASE Begin
    BY <1>2, BeginKeeps
  <1>3. CASE Count
    BY <1>3, CountKeeps
  <1>4. CASE Select
    BY <1>4, SelectKeeps
  <1>5. CASE Fail
    BY <1>5, FailKeeps
  <1>6. CASE \E r \in Rows : Insert(r)
    BY <1>6, InsertKeeps
  <1>7. QED
    BY <1>1, <1>2, <1>3, <1>4, <1>5, <1>6 DEF Next, Finished
-------------------------------------------------------------------------------
(* The results. *)

\* What ties Export's counters, the rows written and the order of the query
\* together holds in every state.
THEOREM InvariantHolds == Spec => []IInv
  <1>1. Init => IInv
    BY InitOK
  <1>2. IInv /\ [Next]_vars => IInv'
    BY NextKeeps
  <1>3. QED
    BY <1>1, <1>2, PTL DEF Spec

\* Export's counters keep their ranges, and no export writes more rows than
\* max_records allows, whatever is recorded meanwhile.
THEOREM TypeCorrect == Spec => []TypeOK
  <1>1. IInv => TypeOK
    BY DEF IInv
  <1>2. QED
    BY <1>1, InvariantHolds, PTL

\* For every table, page size and limit: an export of whole pages that nothing
\* disturbed is the query it was asked for, each row once.
THEOREM PagesTile == Spec => []WholePagesAreTheQuery
  <1>1. IInv => WholePagesAreTheQuery
    BY DEF IInv
  <1>2. QED
    BY <1>1, InvariantHolds, PTL

\* However many rows are recorded between its pages, wherever they sort: an
\* export of whole pages that stopped short of max_records holds every row that
\* was there when it began, unless a row slipped between a count and its select.
THEOREM NothingOldIsMissed == Spec => []OldRowsCovered
  <1>1. IInv => OldRowsCovered
    BY DEF IInv
  <1>2. QED
    BY <1>1, InvariantHolds, PTL
===============================================================================
