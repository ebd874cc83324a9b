------------------------ MODULE MCSqlDataManagerPage ------------------------
(* Small databases and configurations for the page. *)
EXTENDS SqlDataManagerPage

CONSTANTS a, b

Two == {a, b}

SomeTexts == {"", "x", "0", "1", "2", "mask", "v1", "v2", "long", "lo.."}
TextLength == [t \in SomeTexts |-> IF t = "" THEN 0 ELSE IF t = "x" THEN 1 ELSE 2]
Shortened == [t \in SomeTexts |-> IF t = "long" THEN "lo.." ELSE t]
SomeNumerals == {"0", "1", "2"}
\* "2" stands for a number that no double represents.
Rounding == [t \in SomeNumerals |-> IF t = "2" THEN "1" ELSE t]

TreeTerms == {"", " ", "a"}
TreeBlanks == {"", " "}
TreeMatches == [t \in {"a"} |-> {a}]

\* Columns as the system catalogue describes them.
Plain(type) == [clrType |-> type, nullable |-> FALSE, hasDefault |-> FALSE, maxLength |-> 0,
                identity |-> FALSE, computed |-> FALSE, rowVersion |-> FALSE]
Nullable(type) == [Plain(type) EXCEPT !.nullable = TRUE]
Id == [Plain("Number") EXCEPT !.identity = TRUE]
Ver == [Plain("String") EXCEPT !.rowVersion = TRUE]
Name == [Nullable("String") EXCEPT !.maxLength = 1]

Num(t) == <<"number", t>>
Str(t) == <<"string", t>>

Row1 == Num("1")
Row2 == Num("2")

PrimaryKey(columns) == [UniqueIndex(1, {"Id"}, columns) EXCEPT !.primary = TRUE]

Stored(schema, type, columns, indexes, behaviors, rows) ==
    [schema |-> schema, type |-> type, columns |-> columns, indexes |-> indexes, behaviors |-> behaviors, rows |-> rows]

Keyed(schema, columns, rows) == Stored(schema, "Table", columns, {PrimaryKey(columns)}, <<>>, rows)

\* Two tables whose columns have the same names; only the first has a rowversion.
People == Keyed("s1", [Id |-> Id, Name |-> Plain("String"), Ver |-> Ver],
                {[Id |-> Row1, Name |-> Str("long"), Ver |-> Str("v1")], [Id |-> Row2, Name |-> Str(""), Ver |-> Str("v2")]})
\* A rowversion that is masked.
Badges == Stored("s1", "Table", [Id |-> Id, Name |-> Name, Ver |-> Ver], {PrimaryKey([Id |-> Id])},
                     [c \in {"Ver"} |-> "Masked"], {[Id |-> Row1, Name |-> Str("x"), Ver |-> Str("v1")]})
Places == Keyed("s2", [Id |-> Id, Name |-> Name], {[Id |-> Row1, Name |-> Null]})
\* Masked columns, and a table whose only editable column is called differently.
SalaryColumns == [Id |-> Id, Pay |-> Nullable("Number"), Name |-> Name]
Salaries == Stored("s2", "Table", SalaryColumns, {PrimaryKey(SalaryColumns)}, [c \in {"Pay", "Name"} |-> "Masked"],
                       {[Id |-> Row1, Pay |-> Num("2"), Name |-> Str("x")]})
Switches == Keyed("s2", [Id |-> Id, Flag |-> [Nullable("Boolean") EXCEPT !.hasDefault = TRUE]],
                  {[Id |-> Row1, Flag |-> True], [Id |-> Row2, Flag |-> Null]})
Notes == Keyed("s2", [Id |-> Id, Flag |-> Nullable("Boolean")], {[Id |-> Row1, Flag |-> True]})
Report == Stored("s2", "View", [Name |-> Plain("String")], {}, <<>>, {[Name |-> Str("x")], [Name |-> Str("")]})
\* No primary key, but three unique indexes, one of them over a column that may be null.
CodeColumns == [Code |-> Nullable("String"), Line |-> Plain("Number"), Part |-> Plain("Number")]
Codes == Stored("s1", "Table", CodeColumns,
                    {[UniqueIndex(1, {"Code"}, CodeColumns) EXCEPT !.constraint = TRUE],
                     UniqueIndex(2, {"Line", "Part"}, CodeColumns), UniqueIndex(3, DOMAIN CodeColumns, CodeColumns)}, <<>>,
                    {[Code |-> Null, Line |-> Row1, Part |-> Num("1")], [Code |-> Str("x"), Line |-> Num("0"), Part |-> Num("1")]})
\* The only index is filtered; and one over a column that the query for columns came too early to see.
PartColumns == [Part |-> Plain("Number"), Name |-> Plain("String")]
Parts == Stored("s2", "Table", PartColumns, {[UniqueIndex(2, {"Part"}, PartColumns) EXCEPT !.filtered = TRUE]}, <<>>,
                    {[Part |-> Row1, Name |-> Str("x")], [Part |-> Row1, Name |-> Str("")]})
Renewed == Stored("s2", "Table", [Name |-> Plain("String")],
                      {UniqueIndex(2, {"Part"}, PartColumns)}, <<>>, {[Part |-> Row1, Name |-> Str("x")]})

Default == [enabled |-> TRUE, deniedSchemas |-> {}, allowedSchemas |-> {}, deniedObjects |-> {}, allowedObjects |-> {},
            readWriteByDefault |-> {"Table"}, objectPermissions |-> <<>>, crud |-> Writes,
            requireAuthentication |-> FALSE, authorized |-> Operations]

Database(first, second, options, tree, limit) ==
    [tables |-> [o \in Two |-> IF o = a THEN first ELSE second], options |-> options, showObjectTree |-> tree,
     limit |-> limit]

Crud(writes) == [Default EXCEPT !.crud = writes]

\* A masked number.
Masks == {Database(Salaries, Report, Crud({"update"}), FALSE, 1)}

Moves == {Database(People, Places, Default, FALSE, 1)}

Embedded ==
    Moves \cup Masks \cup
    {Database(Badges, Report, Crud({"update"}), FALSE, 1),
     Database(Switches, Places, Crud({"create", "update"}), FALSE, 1),
     Database(Notes, Report, Crud({"update"}), FALSE, 2),
     Database(Codes, Parts, Crud({"delete"}), FALSE, 1),
     Database(Codes, Renewed, Crud({"update", "delete"}), FALSE, 1)}

\* Configurations for the tree, with reading only or one more operation.
Rules ==
    {Crud({}),
     [Crud({"create"}) EXCEPT !.deniedObjects = {b}, !.allowedObjects = {a, b}],
     [Crud({"create"}) EXCEPT !.deniedSchemas = {"s2"}, !.allowedSchemas = {"s1", "s2"}],
     [Crud({"delete"}) EXCEPT !.objectPermissions = [o \in {b} |-> Operations], !.readWriteByDefault = {},
                              !.requireAuthentication = TRUE, !.authorized = {"read", "delete"}]}

Standalone == {Database(People, second, options, TRUE, 1) : second \in {Switches, Report}, options \in Rules}

SomeServers == Embedded \cup Standalone

=============================================================================
