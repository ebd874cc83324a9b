------------------------- MODULE KeySelection_proofs -------------------------
(***************************************************************************)
(* The key that SqlMetadataReader chooses, for any indexes.                *)
(***************************************************************************)
EXTENDS KeySelection, TLAPS

\* A table has at most one primary key, and index_ids and numbers of columns are numbers.
Catalogued(indexes) ==
    /\ \A i \in indexes : Cardinality(i.columns) \in Nat /\ i.id \in Nat
    /\ \A i, j \in indexes : i.primary /\ j.primary => i = j

\* A key is never made up: it is that of a primary key or of an index whose columns are not null (SqlMetadataReader.cs:273).
LEMMA KeyIsIndex ==
    ASSUME NEW indexes, SelectBestKey(indexes) # {}
    PROVE  \E i \in Candidates(indexes) : i.columns = SelectBestKey(indexes)
  <1> DEFINE best == {i \in Candidates(indexes) : \A j \in Candidates(indexes) : Better(i, j)}
  <1>1. SelectBestKey(indexes) = IF best = {} THEN {} ELSE (CHOOSE i \in best : TRUE).columns
    BY DEF SelectBestKey
  <1>2. best # {}
    BY <1>1
  <1>3. (CHOOSE i \in best : TRUE) \in best
    BY <1>2
  <1> HIDE DEF best
  <1>4. SelectBestKey(indexes) = (CHOOSE i \in best : TRUE).columns
    BY <1>1, <1>2
  <1>5. (CHOOSE i \in best : TRUE) \in Candidates(indexes)
    BY <1>3 DEF best
  <1> QED
    BY <1>4, <1>5

\* The primary key always wins, whatever other unique indexes there are (SqlMetadataReader.cs:277).
THEOREM PrimaryKeyWins ==
    ASSUME NEW indexes, Catalogued(indexes), NEW pk \in indexes, pk.primary = TRUE
    PROVE  SelectBestKey(indexes) = pk.columns
  <1> DEFINE best == {i \in Candidates(indexes) : \A j \in Candidates(indexes) : Better(i, j)}
  <1>1. pk \in Candidates(indexes) /\ Tier(pk) = 1
    BY DEF Candidates, Tier
  <1>2. \A j \in Candidates(indexes) : Better(pk, j)
    <2> SUFFICES ASSUME NEW j \in Candidates(indexes) PROVE Better(pk, j)
      OBVIOUS
    <2>1. j \in indexes
      BY DEF Candidates
    <2>2. CASE j.primary
      <3>1. j = pk
        BY <2>1, <2>2 DEF Catalogued
      <3> QED
        BY <3>1 DEF Better, Catalogued
    <2>3. CASE ~j.primary
      BY <2>3, <1>1 DEF Better, Tier
    <2> QED
      BY <2>2, <2>3
  <1>3. \A i \in best : i = pk
    <2> SUFFICES ASSUME NEW i \in best PROVE i = pk
      OBVIOUS
    <2>1. i \in indexes /\ Better(i, pk)
      BY <1>1 DEF Candidates
    <2>2. CASE i.primary
      BY <2>1, <2>2 DEF Catalogued
    <2>3. CASE ~i.primary
      <3>1. Tier(i) \in {2, 3}
        BY <2>3 DEF Tier
      <3> QED
        BY <1>1, <2>1, <3>1 DEF Better
    <2> QED
      BY <2>2, <2>3
  <1>4. best = {pk}
    BY <1>1, <1>2, <1>3
  <1> HIDE DEF best
  <1>5. (CHOOSE i \in best : TRUE) = pk
    BY <1>4
  <1>6. SelectBestKey(indexes) = IF best = {} THEN {} ELSE (CHOOSE i \in best : TRUE).columns
    BY DEF SelectBestKey, best
  <1> QED
    BY <1>4, <1>5, <1>6

\* Different rows have the same key only if the table has no primary key and every unique index over the columns of the key
\* is filtered: the reader takes such an index (SqlMetadataReader.cs:226), although SQL Server enforces it for some rows only.
THEOREM KeyTellsRowsApart ==
    ASSUME NEW indexes, Catalogued(indexes), \A i \in indexes : i.primary => ~i.filtered,
           NEW rows, \A i \in indexes : i.filtered \/ Enforced(i, rows),
           SelectBestKey(indexes) # {},
           NEW r \in rows, NEW s \in rows, r # s, \A c \in SelectBestKey(indexes) : r[c] = s[c]
    PROVE  /\ \A i \in indexes : ~i.primary /\ (i.columns = SelectBestKey(indexes) => i.filtered)
           /\ \E i \in indexes : i.columns = SelectBestKey(indexes) /\ i.filtered /\ ~i.hasNullable
  <1>1. \A i \in indexes : i.columns = SelectBestKey(indexes) => i.filtered
    BY DEF Enforced
  <1>2. ASSUME NEW i \in indexes, i.primary PROVE FALSE
    <2>1. i.columns = SelectBestKey(indexes)
      BY <1>2, PrimaryKeyWins
    <2> QED
      BY <1>1, <1>2, <2>1
  <1>3. PICK i \in Candidates(indexes) : i.columns = SelectBestKey(indexes)
    BY KeyIsIndex
  <1> QED
    BY <1>1, <1>2, <1>3 DEF Candidates

\* What may be updated or deleted is a table with a key, and what may be updated has a column that is not part of it
\* (SqlMetadataReader.cs:54-60, 321).
THEOREM WritableHasKey ==
    ASSUME NEW schema, NEW type, NEW columns, NEW indexes,
           NEW op \in {"update", "delete"}, op \in ReadObject(schema, type, columns, indexes).capability
    PROVE  /\ type = "Table"
           /\ ReadObject(schema, type, columns, indexes).keyColumns # {}
           /\ op = "update" => DOMAIN columns \ ReadObject(schema, type, columns, indexes).keyColumns # {}
  <1> DEFINE key == SelectBestKey(indexes)
             final == [c \in DOMAIN columns |-> FinaliseColumn(columns[c], c \in key, type = "Table")]
  <1>1. /\ ReadObject(schema, type, columns, indexes).keyColumns = key
        /\ ReadObject(schema, type, columns, indexes).capability = Capability(final, key, type = "Table")
    BY DEF ReadObject
  <1>2. op \in Capability(final, key, type = "Table")
    BY <1>1
  <1>3. type = "Table" /\ key # {}
    BY <1>2 DEF Capability
  <1>4. op = "update" => \E c \in DOMAIN final : final[c].updatable
    BY <1>2 DEF Capability
  <1>5. \A c \in DOMAIN columns : final[c].updatable => c \notin key
    BY DEF FinaliseColumn
  <1> QED
    BY <1>1, <1>3, <1>4, <1>5

=============================================================================
