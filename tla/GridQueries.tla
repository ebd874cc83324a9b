----------------------------- MODULE GridQueries -----------------------------
(***************************************************************************)
(* What the grid asks of the server, and what the server makes of it.      *)
(* Pure definitions.  Rows are counted, not named: a filter or a search    *)
(* leaves as many rows as the table says.                                  *)
(***************************************************************************)
EXTENDS Integers, Sequences

CONSTANTS Unknown,        \* null for numbers: no total
          GridColumns,    \* per column of the metadata its clrType, sortable and filterable
          MaxPageSize,    \* MaximumPageSize
          IntLimit        \* the server's int ends before it, 2^31 in the code

QueryAssumption == MaxPageSize \in Nat \ {0} /\ IntLimit \in Nat \ {0} /\ Unknown \notin Int

ASSUME QueryAssumption

-----------------------------------------------------------------------------
\* filterOperators

Numbers == {"Int32", "Int64", "Int16", "Byte", "Decimal", "Double", "Single", "DateTime", "DateTimeOffset"}

NullTests == {"isNull", "isNotNull"}

OperatorsFor(clrType) ==
    NullTests \cup
    (CASE clrType = "Boolean" -> {"isTrue", "isFalse"}
      [] clrType = "Guid" -> {"equals", "doesNotEqual"}
      [] clrType \in Numbers -> {"equals", "doesNotEqual", "greaterThan", "greaterThanOrEqual", "lessThan",
                                 "lessThanOrEqual", "between"}
      [] OTHER -> {"contains", "doesNotContain", "startsWith", "endsWith", "equals", "doesNotEqual", "isEmpty",
                   "isNotEmpty"})

FirstOperator(clrType) ==
    CASE clrType = "Boolean" -> "isTrue"
      [] clrType = "Guid" \/ clrType \in Numbers -> "equals"
      [] OTHER -> "contains"

IsUnary(operator) == operator \in NullTests \cup {"isTrue", "isFalse", "isEmpty", "isNotEmpty"}

IsRange(operator) == operator = "between"

\* A filter that lacks a value is not sent.
Complete(state) ==
    \/ IsUnary(state.operator)
    \/ state.value # "" /\ (IsRange(state.operator) => state.secondValue # "")

BuildFilterSpecs(filters) ==
    LET sent == {c \in DOMAIN filters \cap DOMAIN GridColumns :
                    filters[c].operator \in OperatorsFor(GridColumns[c].clrType) /\ Complete(filters[c])}
    IN  [c \in sent |->
            [operator    |-> filters[c].operator,
             value       |-> IF IsUnary(filters[c].operator) THEN "" ELSE filters[c].value,
             secondValue |-> IF IsRange(filters[c].operator) THEN filters[c].secondValue ELSE ""]]

\* Ascending, descending, not at all; other columns stay with Shift only.
CycleSort(sort, column, multi) ==
    LET existing == SelectSeq(sort, LAMBDA s : s.column = column)
        others == SelectSeq(sort, LAMBDA s : s.column # column)
        next == CASE existing = <<>> -> <<[column |-> column, direction |-> "asc"]>>
                  [] existing # <<>> /\ existing[1].direction = "asc" -> <<[column |-> column, direction |-> "desc"]>>
                  [] OTHER -> <<>>
    IN  IF multi THEN others \o next ELSE next

-----------------------------------------------------------------------------
\* Pagination

Least(m, n) == IF m < n THEN m ELSE n

\* Math.max(1, Math.ceil(total / size))
LastPage(total, size) ==
    IF total = Unknown THEN Unknown ELSE IF total = 0 THEN 1 ELSE (total + size - 1) \div size

MutantNextByRows(page, size, count, total) == count >= size

NextEnabled(page, size, count, total) ==
    count >= size /\ (total # Unknown => page < LastPage(total, size))

LastEnabled(page, size, total) == total # Unknown /\ page < LastPage(total, size)

-----------------------------------------------------------------------------
\* The server

Wrap(n) == ((n + IntLimit) % (2 * IntLimit)) - IntLimit

MutantOffset(query) == Wrap(query.page * query.pageSize)

\* The rows to skip, a product of two ints that is not checked.
Offset(query) == Wrap((query.page - 1) * query.pageSize)

Valid(query) ==
    /\ query.pageSize <= MaxPageSize
    /\ \A c \in DOMAIN query.filters : GridColumns[c].filterable
    /\ \A i \in DOMAIN query.sort :
          query.sort[i].column \in DOMAIN GridColumns /\ GridColumns[query.sort[i].column].sortable

\* SQL Server rejects a negative OFFSET.
Answerable(query) == Valid(query) /\ Offset(query) >= 0

\* Of n rows that match, how many are on the page.
RowsOnPage(query, n) == IF Offset(query) >= n THEN 0 ELSE Least(query.pageSize, n - Offset(query))

IsConstrained(query) == DOMAIN query.filters # {} \/ query.globalSearch # ""

Matching(table, query) == IF IsConstrained(query) THEN table.matching ELSE table.all

=============================================================================
