---------------------------- MODULE RecordFields ----------------------------
(***************************************************************************)
(* The values of a record on their way from the database to the browser,   *)
(* through the form, and back.  Pure definitions.                          *)
(*                                                                         *)
(* A value is a pair of its type and its text, the latter being what the   *)
(* String function of JavaScript makes of it.  Texts are opaque: Length    *)
(* gives their lengths, and Round what a 64-bit floating point number      *)
(* makes of a numeral, as JSON.parse does with a bigint or a decimal.      *)
(***************************************************************************)
EXTENDS Naturals

CONSTANTS Texts,     \* texts, "" and the mask token among them
          Length,    \* their lengths
          Shorten,   \* a text as RowRepository shortens it for display
          Numerals,  \* the texts that are numbers
          Round,     \* the numeral that the nearest double is printed as
          MaskToken, \* what masked columns show
          Inputs     \* bound: the texts that the user types

FieldAssumption ==
    /\ Length \in [Texts -> Nat] /\ Shorten \in [Texts -> Texts]
    /\ Numerals \subseteq Texts /\ Round \in [Numerals -> Numerals]
    /\ MaskToken \in Texts \ Numerals /\ Inputs \subseteq Texts
    /\ "" \in Texts \ Numerals /\ "NaN" \notin Numerals
    /\ \A n \in Numerals : Round[Round[n]] = Round[n]

ASSUME FieldAssumption

Null == <<"null", "null">>
Undefined == <<"undefined", "undefined">>
NaN == <<"number", "NaN">>
True == <<"boolean", "true">>
False == <<"boolean", "false">>

\* What the database holds in columns of a type.
ValuesOf(clrType) ==
    CASE clrType = "String" -> {"string"} \X Texts
      [] clrType = "Number" -> {"number"} \X Numerals
      [] clrType = "Boolean" -> {True, False}

Values == {Null} \cup ValuesOf("String") \cup ValuesOf("Number") \cup ValuesOf("Boolean")

\* clrType is a class of types: every integer, decimal or floating point type is Number here,
\* and every type that is neither that nor Boolean is String.
Column == [clrType : {"String", "Number", "Boolean"}, nullable : BOOLEAN, hasDefault : BOOLEAN,
           maxLength : Nat, insertable : BOOLEAN, updatable : BOOLEAN,
           sensitivity : {"Visible", "Masked", "Hidden", "ReadOnly"}]

-----------------------------------------------------------------------------
\* From the database to the browser

\* A configured sensitivity tags a column and takes rights away from it; a hidden one can still be
\* given a value in a new record.
ApplySensitivity(column, behavior) ==
    [column EXCEPT !.sensitivity = behavior,
                   !.updatable = @ /\ behavior \notin {"Hidden", "ReadOnly"}]

\* One cell of a page: null stays null, even if masked.
ReadCell(column, value) ==
    CASE value = Null -> Null
      [] value # Null /\ column.sensitivity = "Masked" -> <<"string", MaskToken>>
      [] value # Null /\ column.sensitivity # "Masked" ->
           CASE value[1] = "string" -> <<"string", Shorten[value[2]]>>
             [] value[1] = "number" -> <<"number", Round[value[2]]>>
             [] OTHER -> value

\* A row of the grid; hidden columns are not in the projection.
ReadRow(columns, stored) ==
    [c \in {c \in DOMAIN columns : columns[c].sensitivity # "Hidden"} |-> ReadCell(columns[c], stored[c])]

At(row, c) == IF c \in DOMAIN row THEN row[c] ELSE Undefined

NoRow == <<>>

-----------------------------------------------------------------------------
\* The form

EditableColumns(columns, mode) ==
    {c \in DOMAIN columns : IF mode = "create" THEN columns[c].insertable ELSE columns[c].updatable}

FieldState == [value : Texts, checked : BOOLEAN, isNull : BOOLEAN, touched : BOOLEAN]

MutantNoNullFlag(editable, row) ==
    [c \in editable |-> [value |-> IF At(row, c) \in {Null, Undefined, True, False} THEN "" ELSE At(row, c)[2],
                         checked |-> At(row, c) = True, isNull |-> FALSE, touched |-> FALSE]]

MutantStateOfRow(editable, row) ==
    [c \in editable \cap DOMAIN row |->
        [value |-> IF row[c] \in {Null, True, False} THEN "" ELSE row[c][2],
         checked |-> row[c] = True, isNull |-> row[c] = Null, touched |-> FALSE]]

BuildInitialState(editable, row) ==
    [c \in editable |->
        LET raw == At(row, c) IN
        [value   |-> IF raw \in {Null, Undefined, True, False} THEN "" ELSE raw[2],
         checked |-> raw = True,
         isNull  |-> raw = Null,
         touched |-> FALSE]]

\* Number(text) for a text that is not empty.
ToNumber(text) == IF text \in Numerals THEN <<"number", Round[text]>> ELSE NaN

ReadValue(column, state) ==
    CASE state.isNull -> Null
      [] ~state.isNull /\ column.clrType = "Boolean" -> IF state.checked THEN True ELSE False
      [] ~state.isNull /\ column.clrType = "Number" -> IF state.value = "" THEN Null ELSE ToNumber(state.value)
      [] ~state.isNull /\ column.clrType = "String" -> <<"string", state.value>>

ValuesEqual(a, b) == IF a \in {Null, Undefined} THEN b \in {Null, Undefined} ELSE a[2] = b[2]

Supplied(column, state) == state.isNull \/ state.value # "" \/ column.clrType = "Boolean"

\* What a submit would send: for create what is supplied, for edit what differs.
ComputeChangedFields(columns, fields, mode, row) ==
    LET value(c) == ReadValue(columns[c], fields[c])
        sent == {c \in EditableColumns(columns, mode) :
                    IF mode = "create" THEN Supplied(columns[c], fields[c])
                                       ELSE ~ValuesEqual(At(row, c), value(c))}
    IN  [c \in sent |-> value(c)]

\* The columns that the form complains of before anything is sent.
Validate(columns, fields, mode) ==
    {c \in EditableColumns(columns, mode) :
        LET column == columns[c]  state == fields[c] IN
        \/ mode = "create" /\ ~column.nullable /\ ~column.hasDefault /\ ~Supplied(column, state)
        \/ state.isNull /\ ~column.nullable
        \/ ~state.isNull /\ column.maxLength > 0 /\ Length[state.value] > column.maxLength}

KeyValues(keyColumns, row) == [c \in keyColumns |-> At(row, c)]

\* What an input lets the user type: a number input yields a numeral or nothing.
Typeable(column) ==
    {t \in Inputs : /\ column.clrType = "Number" => t \in Numerals \cup {""}
                    /\ column.maxLength > 0 => Length[t] <= column.maxLength}

-----------------------------------------------------------------------------
\* From the browser to the database

Invalid == <<"invalid", "invalid">>

\* JSON has no undefined and no NaN.
OnTheWire(value) == IF value \in {Undefined, NaN} THEN Null ELSE value

TryCoerce(column, value) ==
    CASE value = Null -> Null
      [] value # Null /\ column.clrType = "String" -> <<"string", value[2]>>
      [] value # Null /\ column.clrType = "Boolean" ->
            IF value[2] \in {"true", "false"} THEN <<"boolean", value[2]>> ELSE Invalid
      [] value # Null /\ column.clrType = "Number" ->
            IF value[2] \in Numerals THEN <<"number", value[2]>> ELSE Invalid

\* A field that RecordValidator accepts: known, editable, of the right type, no null and no length too much.
FieldAccepted(columns, mode, c, value) ==
    /\ c \in EditableColumns(columns, mode)
    /\ LET coerced == TryCoerce(columns[c], OnTheWire(value)) IN
       /\ coerced # Invalid
       /\ coerced = Null => columns[c].nullable
       /\ coerced[1] = "string" /\ columns[c].maxLength > 0 => Length[coerced[2]] <= columns[c].maxLength

ValidateCreate(columns, sent) ==
    /\ \A c \in DOMAIN sent : FieldAccepted(columns, "create", c, sent[c])
    /\ \A c \in EditableColumns(columns, "create") \ DOMAIN sent : columns[c].nullable \/ columns[c].hasDefault

ValidateUpdate(columns, sent) ==
    DOMAIN sent # {} /\ \A c \in DOMAIN sent : FieldAccepted(columns, "edit", c, sent[c])

\* The key as it gets into the WHERE clause, and whether KeyPreparer lets it.
PrepareKey(columns, keyColumns, keys) == [c \in keyColumns |-> TryCoerce(columns[c], OnTheWire(keys[c]))]

KeyAccepted(columns, keyColumns, keys) ==
    /\ keyColumns # {} /\ keyColumns = DOMAIN keys /\ keyColumns \subseteq DOMAIN columns
    /\ \A c \in keyColumns : PrepareKey(columns, keyColumns, keys)[c] \notin {Null, Invalid}

=============================================================================
