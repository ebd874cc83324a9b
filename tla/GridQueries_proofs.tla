-------------------------- MODULE GridQueries_proofs --------------------------
(***************************************************************************)
(* The arithmetic of paging: pages divide the rows, the last page is the   *)
(* last, and the server skips what the browser means it to skip unless the *)
(* product overflows.                                                      *)
(***************************************************************************)
EXTENDS GridQueries, TLAPS

\* More pages hold more rows.
LEMMA ProductGrows ==
    ASSUME NEW m \in Int, NEW n \in Int, m <= n, NEW size \in Nat
    PROVE  m * size <= n * size
  <1>1. n * size = m * size + (n - m) * size
    OBVIOUS
  <1>2. (n - m) * size >= 0
    <2>1. n - m \in Nat
      OBVIOUS
    <2> QED
      BY <2>1
  <1>3. m * size \in Int /\ n * size \in Int /\ (n - m) * size \in Int
    OBVIOUS
  <1> QED
    BY <1>1, <1>2, <1>3

\* What \div means.
LEMMA Division ==
    ASSUME NEW n \in Nat, NEW size \in Nat \ {0}
    PROVE  /\ n \div size \in Nat
           /\ (n \div size) * size <= n
           /\ n < (n \div size + 1) * size
  OBVIOUS

\* The button for the next page counts on it: there is a page behind a page exactly if there are rows behind it
\* (Pagination.tsx:21, 58).
THEOREM LastPageIsLast ==
    ASSUME NEW total \in Nat, NEW size \in Nat \ {0}, NEW page \in Nat \ {0}
    PROVE  page < LastPage(total, size) <=> page * size < total
  <1>1. total # Unknown
    BY QueryAssumption DEF QueryAssumption
  <1>2. CASE total = 0
    BY <1>1, <1>2, ProductGrows DEF LastPage
  <1>3. CASE total # 0
    <2> DEFINE last == (total + size - 1) \div size
    <2>1. LastPage(total, size) = last
      BY <1>1, <1>3 DEF LastPage
    <2>2. last \in Nat /\ last * size <= total + size - 1 /\ total + size - 1 < (last + 1) * size
      BY <1>3, Division
    <2>3. (last + 1) * size = last * size + size /\ last * size \in Int
      BY <2>2
    <2>4. last * size - size < total /\ total <= last * size
      BY <2>2, <2>3
    <2> HIDE DEF last
    <2>5. ASSUME page < last PROVE page * size < total
      <3>1. page + 1 <= last
        BY <2>2, <2>5
      <3>2. (page + 1) * size <= last * size
        BY <2>2, <3>1, ProductGrows
      <3>3. (page + 1) * size = page * size + size /\ page * size \in Int
        OBVIOUS
      <3> QED
        BY <2>3, <2>4, <3>2, <3>3
    <2>6. ASSUME last <= page PROVE total <= page * size
      <3>1. last * size <= page * size
        BY <2>2, <2>6, ProductGrows
      <3> QED
        BY <2>3, <2>4, <3>1
    <2> QED
      BY <2>1, <2>2, <2>5, <2>6
  <1> QED
    BY <1>2, <1>3

\* Intervals of one length cover the numbers, each once.
LEMMA Intervals ==
    ASSUME NEW row \in Nat, NEW size \in Nat \ {0}
    PROVE  \E page \in Nat \ {0} :
              /\ (page - 1) * size <= row /\ row < page * size
              /\ \A other \in Nat \ {0} : (other - 1) * size <= row /\ row < other * size => other = page
  <1> DEFINE page == row \div size + 1
  <1>1. row \div size \in Nat /\ page \in Nat \ {0} /\ page - 1 = row \div size
    BY Division
  <1>2. (page - 1) * size <= row /\ row < page * size
    BY <1>1, Division
  <1> HIDE DEF page
  <1>3. ASSUME NEW other \in Nat \ {0}, (other - 1) * size <= row, row < other * size, other # page
        PROVE  FALSE
    <2>1. CASE other < page
      <3>1. other * size <= (page - 1) * size
        BY <1>1, <2>1, ProductGrows
      <3>2. other * size \in Int /\ (page - 1) * size \in Int
        BY <1>1
      <3> QED
        BY <1>2, <1>3, <3>1, <3>2
    <2>2. CASE page < other
      <3>1. page * size <= (other - 1) * size
        BY <1>1, <2>2, ProductGrows
      <3>2. page * size \in Int /\ (other - 1) * size \in Int
        BY <1>1
      <3> QED
        BY <1>2, <1>3, <3>1, <3>2
    <2> QED
      BY <1>1, <1>3, <2>1, <2>2
  <1> QED
    BY <1>1, <1>2, <1>3

Asked(page, size) == [page |-> page, pageSize |-> size]

\* The product of SqlQueryBuilder.cs:39 is what it is meant to be.
Exact(page, size) == Offset(Asked(page, size)) = (page - 1) * size

\* Row number row of n is among those that the server sends for a page.
Serves(page, size, row, n) ==
    /\ Offset(Asked(page, size)) <= row
    /\ row < Offset(Asked(page, size)) + RowsOnPage(Asked(page, size), n)

LEMMA ServedInterval ==
    ASSUME NEW n \in Nat, NEW row \in Nat, row < n, NEW size \in Nat \ {0}, NEW page \in Nat \ {0}, Exact(page, size)
    PROVE  Serves(page, size, row, n) <=> (page - 1) * size <= row /\ row < page * size
  <1> DEFINE skipped == Offset(Asked(page, size))
  <1>1. skipped = (page - 1) * size /\ skipped \in Int /\ page * size = skipped + size
    BY DEF Exact
  <1>2. RowsOnPage(Asked(page, size), n) = IF skipped >= n THEN 0 ELSE Least(size, n - skipped)
    BY DEF RowsOnPage, Asked
  <1> HIDE DEF skipped
  <1>3. Serves(page, size, row, n) <=> skipped <= row /\ row < skipped + RowsOnPage(Asked(page, size), n)
    BY DEF Serves, skipped
  <1>4. CASE skipped >= n
    BY <1>1, <1>2, <1>3, <1>4
  <1>5. CASE skipped < n
    BY <1>1, <1>2, <1>3, <1>5 DEF Least
  <1> QED
    BY <1>1, <1>4, <1>5

\* A table at rest is enumerated exactly once: every row is sent for one page, and for no other, among the pages whose offset
\* does not overflow (SqlQueryBuilder.cs:37-50).
THEOREM EveryRowHasItsPage ==
    ASSUME NEW n \in Nat, NEW row \in Nat, row < n, NEW size \in Nat \ {0}
    PROVE  \E page \in Nat \ {0} :
              /\ (page - 1) * size <= row
              /\ Exact(page, size) => Serves(page, size, row, n)
              /\ \A other \in Nat \ {0} : Exact(other, size) /\ Serves(other, size, row, n) => other = page
  <1>1. PICK page \in Nat \ {0} :
            /\ (page - 1) * size <= row /\ row < page * size
            /\ \A other \in Nat \ {0} : (other - 1) * size <= row /\ row < other * size => other = page
    BY Intervals
  <1>2. Exact(page, size) => Serves(page, size, row, n)
    BY <1>1, ServedInterval
  <1>3. ASSUME NEW other \in Nat \ {0}, Exact(other, size), Serves(other, size, row, n)
        PROVE  other = page
    BY <1>1, <1>3, ServedInterval
  <1> QED
    BY <1>1, <1>2, <1>3

=============================================================================
