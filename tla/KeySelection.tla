---------------------------- MODULE KeySelection ----------------------------
(***************************************************************************)
(* What SqlMetadataReader makes of the system catalogue: the key by which  *)
(* rows are addressed, the columns that can be written, and the operations *)
(* that an object can support.  Pure definitions.  Objects, columns and    *)
(* indexes come from three queries, and may be of different ages.          *)
(***************************************************************************)
EXTENDS Naturals, FiniteSets

CONSTANT NoColumn

SqlColumn == [clrType : {"String", "Number", "Boolean"}, nullable : BOOLEAN, hasDefault : BOOLEAN, maxLength : Nat,
              identity : BOOLEAN, computed : BOOLEAN, rowVersion : BOOLEAN]

\* A unique index of a table over some of its columns: index_id, columns, primary, constraint, hasNullable, and
\* filtered, for which the query does not ask.  Whether columns may be null is looked up with the indexes.
UniqueIndex(id, names, columns) ==
    [id |-> id, columns |-> names, primary |-> FALSE, constraint |-> FALSE, filtered |-> FALSE,
     hasNullable |-> \E c \in names : columns[c].nullable]

\* SQL Server keeps an index unique, over all rows unless it is filtered.
Enforced(index, rows) == \A r, s \in rows : (\A c \in index.columns : r[c] = s[c]) => r = s

\* The primary key first, then unique constraints, then other unique indexes.
Tier(index) == IF index.primary THEN 1 ELSE IF index.constraint THEN 2 ELSE 3

Better(i, j) ==
    \/ Tier(i) < Tier(j)
    \/ Tier(i) = Tier(j) /\ Cardinality(i.columns) < Cardinality(j.columns)
    \/ Tier(i) = Tier(j) /\ Cardinality(i.columns) = Cardinality(j.columns) /\ i.id <= j.id

MutantCandidates(indexes) == indexes

Candidates(indexes) == {i \in indexes : i.primary \/ ~i.hasNullable}

\* No columns if there is no candidate.
SelectBestKey(indexes) ==
    LET best == {i \in Candidates(indexes) : \A j \in Candidates(indexes) : Better(i, j)} IN
    IF best = {} THEN {} ELSE (CHOOSE i \in best : TRUE).columns

FinaliseColumn(column, isKey, isTable) ==
    LET insertable == isTable /\ ~column.computed /\ ~column.rowVersion /\ ~column.identity IN
    [clrType |-> column.clrType, nullable |-> column.nullable, hasDefault |-> column.hasDefault,
     maxLength |-> column.maxLength, insertable |-> insertable, updatable |-> insertable /\ ~isKey,
     sensitivity |-> "Visible"]

RowVersionColumn(columns) ==
    LET versions == {c \in DOMAIN columns : columns[c].rowVersion} IN
    IF versions = {} THEN NoColumn ELSE CHOOSE c \in versions : TRUE

\* What the structure supports, whatever the configuration says.
Capability(columns, keyColumns, isTable) ==
    {"read"}
    \cup {op \in {"create"} : isTable /\ \E c \in DOMAIN columns : columns[c].insertable}
    \cup {op \in {"update"} : isTable /\ keyColumns # {} /\ \E c \in DOMAIN columns : columns[c].updatable}
    \cup {op \in {"delete"} : isTable /\ keyColumns # {}}

\* ObjectMetadata of one object, from the answers of the three queries.
ReadObject(schema, type, columns, indexes) ==
    LET key == SelectBestKey(indexes)
        final == [c \in DOMAIN columns |-> FinaliseColumn(columns[c], c \in key, type = "Table")]
    IN  [schema |-> schema, type |-> type, columns |-> final, keyColumns |-> key,
         rowVersionColumn |-> RowVersionColumn(columns), capability |-> Capability(final, key, type = "Table")]

=============================================================================
