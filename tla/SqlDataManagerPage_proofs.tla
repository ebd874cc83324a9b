---------------------- MODULE SqlDataManagerPage_proofs ----------------------
(***************************************************************************)
(* The properties of the page, for any number of objects, tables, rows,    *)
(* values and rules, and whatever the user does: deny beats allow; and the *)
(* inductive invariant PageInv, from which the others follow.              *)
(***************************************************************************)
EXTENDS SqlDataManagerPage, KeySelection_proofs, FiniteSetTheorems

IsDenied(options, subject) ==
    \/ ~options.enabled
    \/ subject.schema \in options.deniedSchemas
    \/ subject.name \in options.deniedObjects

\* What a deny list names has no permission, whatever else is configured for it (ObjectAccessService.cs:42).
LEMMA DeniedHasNothing ==
    ASSUME NEW options, NEW subject, IsDenied(options, subject)
    PROVE  ResolvePermissions(options, subject) = {}
  BY DEF IsDenied, ResolvePermissions, PassesSchemaGate, PassesObjectGate, Passes

\* No permission goes beyond what the object supports and, apart from reading, what the switches leave on.
LEMMA PermittedIsPossible ==
    ASSUME NEW options, NEW subject
    PROVE  ResolvePermissions(options, subject) \subseteq subject.capability \cap ({"read"} \cup options.crud)
  BY DEF ResolvePermissions

\* A longer deny list never grants anything (ObjectAccessService.cs:109-145).
THEOREM DenyingOnlyTakes ==
    ASSUME NEW options, NEW subject, NEW schemas, NEW names,
           NEW more, more.enabled = options.enabled,
           more.deniedSchemas = options.deniedSchemas \cup schemas, more.deniedObjects = options.deniedObjects \cup names,
           more.allowedSchemas = options.allowedSchemas, more.allowedObjects = options.allowedObjects,
           more.readWriteByDefault = options.readWriteByDefault, more.objectPermissions = options.objectPermissions,
           more.crud = options.crud, more.requireAuthentication = options.requireAuthentication,
           more.authorized = options.authorized
    PROVE  ResolvePermissions(more, subject) \subseteq ResolvePermissions(options, subject)
  <1>1. CASE IsDenied(more, subject)
    BY <1>1, DeniedHasNothing
  <1>2. CASE ~IsDenied(more, subject)
    <2>1. Wanted(more, subject) = Wanted(options, subject)
      BY DEF Wanted
    <2>2. PassesSchemaGate(more, subject.schema) => PassesSchemaGate(options, subject.schema)
      BY DEF PassesSchemaGate, Passes
    <2>3. PassesObjectGate(more, subject.name) => PassesObjectGate(options, subject.name)
      BY DEF PassesObjectGate, Passes
    <2> QED
      BY <2>1, <2>2, <2>3 DEF ResolvePermissions
  <1> QED
    BY <1>1, <1>2

-----------------------------------------------------------------------------
\* The page: metadata is there only of objects that may be read.

OnlyReadable ==
    /\ metadata \in [Objects -> {"absent", "asked", "here"}]
    /\ \A o \in Objects : metadata[o] = "here" => "read" \in Permissions(o)

LEMMA InitiallyReadable == Init => OnlyReadable
  BY DEF Init, OnlyReadable

\* Besides the arrival of metadata only navigation touches it, and that asks for what is absent.
LEMMA NavigationAsks ==
    ASSUME OnlyReadable, NEW o \in Objects \cup {None}, Navigate(o)
    PROVE  OnlyReadable'
  <1>1. UNCHANGED server /\ \/ UNCHANGED metadata
                            \/ o \in Objects /\ metadata' = [metadata EXCEPT ![o] = "asked"]
    BY DEF Navigate
  <1>2. \A p \in Objects : Permissions(p)' = Permissions(p)
    BY <1>1 DEF Permissions, SubjectOf, Table
  <1> QED
    BY <1>1, <1>2 DEF OnlyReadable

LEMMA OthersLeaveMetadata ==
    ASSUME OnlyReadable, UNCHANGED <<server, metadata>>
    PROVE  OnlyReadable'
  <1>1. \A p \in Objects : Permissions(p)' = Permissions(p)
    BY DEF Permissions, SubjectOf, Table
  <1> QED
    BY <1>1 DEF OnlyReadable

LEMMA StaysReadable == OnlyReadable /\ [Next]_vars => OnlyReadable'
  <1> SUFFICES ASSUME OnlyReadable, [Next]_vars PROVE OnlyReadable'
    OBVIOUS
  <1>1. CASE \E o \in Objects : SelectObject(o) \/ FollowLink(o)
    BY <1>1, NavigationAsks DEF SelectObject, FollowLink
  <1>2. CASE \E o \in Objects \cup {None} : GoBack(o)
    BY <1>2, NavigationAsks DEF GoBack
  <1>3. ASSUME NEW o \in Objects, MetadataArrives(o) PROVE OnlyReadable'
    <2>1. UNCHANGED server /\ metadata' = [metadata EXCEPT ![o] = "here"] /\ "read" \in Permissions(o)
      BY <1>3 DEF MetadataArrives
    <2>2. \A p \in Objects : Permissions(p)' = Permissions(p)
      BY <2>1 DEF Permissions, SubjectOf, Table
    <2> QED
      BY <2>1, <2>2 DEF OnlyReadable
  <1>4. CASE UseTree
    BY <1>4, OthersLeaveMetadata DEF UseTree, pageVars
  <1>5. CASE OpenCreate \/ OpenDetails \/ OpenEdit \/ OpenDelete \/ CloseDialog
    BY <1>5, OthersLeaveMetadata DEF OpenCreate, OpenDetails, OpenEdit, OpenDelete, Opening, CloseDialog
  <1>6. CASE EditField
    BY <1>6, OthersLeaveMetadata DEF EditField, Edit, Update, OnForm
  <1>7. CASE GoToConfirm \/ GoToEdit \/ Submit
    BY <1>7, OthersLeaveMetadata DEF GoToConfirm, GoToEdit, Submit, OnForm
  <1>8. CASE AnswerSome
    BY <1>8, OthersLeaveMetadata DEF AnswerSome, Answer
  <1>9. CASE ToastTimer
    BY <1>9, OthersLeaveMetadata DEF ToastTimer
  <1>10. CASE UNCHANGED vars
    BY <1>10, OthersLeaveMetadata DEF vars, pageVars
  <1> QED
    BY <1>1, <1>2, <1>3, <1>4, <1>5, <1>6, <1>7, <1>8, <1>9, <1>10 DEF Next

LEMMA ReadableObeysDeny == OnlyReadable => DenyWins
  <1> SUFFICES ASSUME OnlyReadable PROVE DenyWins
    OBVIOUS
  <1>1. ASSUME NEW o, Denied(o) PROVE Permissions(o) = {}
    <2>1. IsDenied(server.options, SubjectOf(o))
      BY <1>1 DEF Denied, IsDenied, SubjectOf
    <2> QED
      BY <2>1, DeniedHasNothing DEF Permissions
  <1>2. ASSUME NEW o \in Objects, Denied(o) PROVE SubjectOf(o) \notin Listed /\ metadata[o] # "here"
    BY <1>1, <1>2 DEF OnlyReadable, Listed, GetVisibleObjects, Permissions
  <1>3. ASSUME NEW r \in Served(Modals)
        PROVE  /\ ~Denied(r.target)
               /\ Needed(r.kind) \in server.options.crud \cap Table(r.target).capability
    <2>1. r.kind \in Modals /\ Permitted(r)
      BY DEF Served, Outcomes
    <2>2. {"read", Needed(r.kind)} \subseteq Permissions(r.target)
      BY <2>1 DEF Permitted
    <2>3. Needed(r.kind) # "read"
      BY <2>1 DEF Modals, Needed
    <2>4. Permissions(r.target) \subseteq Table(r.target).capability \cap ({"read"} \cup server.options.crud)
      BY PermittedIsPossible DEF Permissions, SubjectOf
    <2> QED
      BY <1>1, <2>2, <2>3, <2>4
  <1> QED
    BY <1>2, <1>3 DEF DenyWins

\* Deny beats allow on every way through the page.
THEOREM DenyPrevails == Spec => []DenyWins
  <1>1. Spec => []OnlyReadable
    BY InitiallyReadable, StaysReadable, PTL DEF Spec
  <1> QED
    BY <1>1, ReadableObeysDeny, PTL

-----------------------------------------------------------------------------
\* The parts of the inductive invariant

ColumnNames == UNION {DOMAIN s.tables[o].columns : s \in Described, o \in Objects}

Fields == UNION {[C -> FieldState] : C \in SUBSET ColumnNames}

Forms == [opened : Objects \cup {None}, fields : Fields, step : {"none", "edit", "confirm"},
          error : {"none", "no changes", "lost", "failed", "invalid", "conflict"}, request : Nat \cup {None}]

\* Rows that a dialog may have been opened on.
Records == UNION {{Record(o, stored) : stored \in Table(o).rows} : o \in Objects}

Dialogs == [kind : {"none", "create"}, row : {NoRecord}] \cup [kind : {"details", "edit", "delete"}, row : Records]

PageTypes ==
    /\ server \in Described
    /\ url \in Objects \cup {None}
    /\ metadata \in [Objects -> {"absent", "asked", "here"}]
    /\ dialog \in Dialogs /\ form \in Forms
    /\ toast \in BOOLEAN /\ timers \in Nat /\ (toast => timers > 0)
    /\ blank \in BOOLEAN
    /\ \A r \in requests : r.id \in 1..server.limit
    /\ form.request \in {None} \cup {r.id : r \in requests}
    /\ search \in Terms

\* A field that nobody has touched shows what the row has.
Faithful(fields, row) ==
    \A c \in DOMAIN fields : fields[c].touched \/ fields[c] = BuildInitialState({c}, row)[c]

\* A form knows the columns of the object it was opened for, and whatever the page shows meanwhile it can render.
Usable(f, d, o) ==
    /\ f.opened \in Objects
    /\ DOMAIN f.fields = IF d.kind = "delete" THEN {} ELSE EditableColumns(Columns(f.opened), d.kind)
    /\ Faithful(f.fields, d.row.cells)
    /\ Renders(f, d.kind, o)
    /\ f.step = "none" => f = NoForm

FormInv ==
    form # NoForm => /\ dialog.kind \in Modals /\ Known(url, metadata) /\ ~blank
                     /\ Usable(form, dialog, url)

\* What a request says of its row, and what it changes although nobody touched it.
IsRequest(r) ==
    /\ r.kind \in Modals /\ r.target \in Objects
    /\ r.kind # "create" =>
          /\ r.record \in Records
          /\ r.keys = KeyValues(Table(r.target).keyColumns, r.record.cells)
          /\ r.token = IF Table(r.target).rowVersionColumn = NoColumn THEN Null
                       ELSE OnTheWire(At(r.record.cells, Table(r.target).rowVersionColumn))
    /\ r.kind # "delete" =>
          \A c \in DOMAIN r.changes \ r.touched :
             LET column == Columns(r.target)[c] IN
             \/ column.sensitivity = "Masked" /\ column.clrType # "String"
             \/ r.kind = "create" /\ column.clrType = "Boolean"
             \/ r.kind = "edit" /\ r.target # r.record.of

RequestInv == \A r \in requests : IsRequest(r)

PageInv == PageTypes /\ FormInv /\ RequestInv

-----------------------------------------------------------------------------
\* What the page relies on in its tables

\* A row has what the columns and the key speak of, values have their types, no key is null, and rows share no key unless
\* its index is filtered; a rowversion is neither shortened nor like the mask.
IsTable(t) ==
    /\ t.columns \in [DOMAIN t.columns -> Column]
    /\ \A c \in DOMAIN t.columns : t.columns[c].sensitivity = "Hidden" => ~t.columns[c].updatable
    /\ t.capability \subseteq Operations
    /\ t.capability \cap {"update", "delete"} # {} => t.keyColumns # {}
    /\ t.rowVersionColumn \in DOMAIN t.columns \cup {NoColumn}
    /\ IsFiniteSet(t.rows)
    /\ \A row \in t.rows :
          /\ row \in [DOMAIN row -> Values] /\ DOMAIN t.columns \cup t.keyColumns \subseteq DOMAIN row
          /\ \A c \in DOMAIN t.columns : row[c] \in {Null} \cup ValuesOf(t.columns[c].clrType)
          /\ \A c \in t.keyColumns : row[c] # Null
          /\ t.rowVersionColumn # NoColumn =>
                row[t.rowVersionColumn] \in {"string"} \X {v \in Texts \ {MaskToken} : Shorten[v] = v}
    /\ \/ t.keyColumns = {} \/ t.filtered
       \/ \A row, other \in t.rows : (\A c \in t.keyColumns : row[c] = other[c]) => row = other

LEMMA BehaviorApplied ==
    ASSUME NEW column \in Column, column.sensitivity = "Visible",
           NEW behavior \in {"Visible", "Masked", "Hidden", "ReadOnly"}
    PROVE  LET shown == ApplySensitivity(column, behavior) IN
           /\ shown \in Column /\ shown.clrType = column.clrType
           /\ shown.sensitivity = "Hidden" => ~shown.updatable
BY DEF Column, ApplySensitivity

\* The reader and the metadata service see to the rest of what the page relies on in a table, whatever its indexes are and
\* however its columns are configured (SqlMetadataReader.cs:273, MetadataService.cs:88).
THEOREM TablesAreRead ==
    ASSUME NEW stored, IsStored(stored),
           \A c \in DOMAIN stored.behaviors : stored.behaviors[c] \in {"Visible", "Masked", "Hidden", "ReadOnly"}
    PROVE  IsTable(MetadataOf(stored))
<1> DEFINE columns == stored.columns
           indexes == stored.indexes
           behaviors == stored.behaviors
           rows == stored.rows
<1> DEFINE key == SelectBestKey(indexes)
<1> DEFINE final == [c \in DOMAIN columns |-> FinaliseColumn(columns[c], c \in key, stored.type = "Table")]
<1>0. PICK shown : shown = [c \in DOMAIN columns |->
                              IF c \in DOMAIN behaviors THEN ApplySensitivity(final[c], behaviors[c]) ELSE final[c]]
  OBVIOUS
<1>1. PICK t : t = MetadataOf(stored)
  OBVIOUS
<1>2. PICK filtered : filtered = \A i \in indexes : i.columns = key => i.filtered
  OBVIOUS
<1>3. /\ t.columns = shown /\ t.keyColumns = key /\ t.rows = rows
      /\ t.rowVersionColumn = RowVersionColumn(columns) /\ t.capability = Capability(final, key, stored.type = "Table")
      /\ t.filtered <=> \A i \in indexes : i.columns = key => i.filtered
  BY <1>0, <1>1 DEF MetadataOf, ReadObject
<1>4. \A c \in DOMAIN columns : final[c] \in Column /\ final[c].clrType = columns[c].clrType
  BY DEF IsStored, SqlColumn, FinaliseColumn, Column
<1>5. \A c \in DOMAIN columns : /\ shown[c] \in Column /\ shown[c].clrType = columns[c].clrType
                                /\ shown[c].sensitivity = "Hidden" => ~shown[c].updatable
  <2> SUFFICES ASSUME NEW c \in DOMAIN columns
               PROVE  /\ shown[c] \in Column /\ shown[c].clrType = columns[c].clrType
                      /\ shown[c].sensitivity = "Hidden" => ~shown[c].updatable
    OBVIOUS
  <2>1. PICK column : column = final[c]
    OBVIOUS
  <2>2. column \in Column /\ column.clrType = columns[c].clrType /\ column.sensitivity = "Visible"
    BY <1>4, <2>1 DEF FinaliseColumn
  <2>3. CASE c \in DOMAIN behaviors
    <3>1. shown[c] = ApplySensitivity(column, behaviors[c])
      BY <1>0, <2>1, <2>3
    <3> QED BY <2>2, <2>3, <3>1, BehaviorApplied
  <2>4. CASE c \notin DOMAIN behaviors
    <3>1. shown[c] = column
      BY <1>0, <2>1, <2>4
    <3> QED BY <2>2, <3>1
  <2> QED BY <2>3, <2>4
<1>6. t.columns \in [DOMAIN t.columns -> Column] /\ DOMAIN t.columns = DOMAIN columns
  <2>1. DOMAIN shown = DOMAIN columns /\ shown = [c \in DOMAIN columns |-> shown[c]]
    BY <1>0
  <2> QED BY <1>3, <1>5, <2>1
<1>7. t.capability \subseteq Operations /\ (t.capability \cap {"update", "delete"} # {} => key # {})
  BY <1>3 DEF Capability, Operations
<1>8. RowVersionColumn(columns) # NoColumn =>
         RowVersionColumn(columns) \in DOMAIN columns /\ columns[RowVersionColumn(columns)].rowVersion
  BY DEF RowVersionColumn
<1>9. \A c \in key : \E i \in Candidates(indexes) : c \in i.columns
  BY KeyIsIndex
<1>10. Candidates(indexes) \subseteq indexes
  BY DEF Candidates
<1>11. ASSUME NEW row \in rows
       PROVE  /\ row \in [DOMAIN row -> Values] /\ DOMAIN columns \cup key \subseteq DOMAIN row
              /\ \A c \in DOMAIN columns : row[c] \in {Null} \cup ValuesOf(shown[c].clrType)
              /\ \A c \in key : row[c] # Null
              /\ RowVersionColumn(columns) # NoColumn =>
                    row[RowVersionColumn(columns)] \in {"string"} \X {v \in Texts \ {MaskToken} : Shorten[v] = v}
  <2> HIDE DEF final, key
  <2>1. row \in [DOMAIN row -> Values] /\ DOMAIN columns \cup key \subseteq DOMAIN row
    BY <1>9, <1>10, <1>11 DEF IsStored
  <2>2. \A c \in DOMAIN columns : row[c] \in {Null} \cup ValuesOf(shown[c].clrType)
    BY <1>5, <1>11 DEF IsStored
  <2>3. \A c \in key : row[c] # Null
    <3>1. \A i \in Candidates(indexes) : i \in indexes /\ (i.primary \/ ~i.hasNullable)
      BY DEF Candidates
    <3> QED BY <1>9, <1>11, <3>1 DEF IsStored
  <2>4. \A c \in DOMAIN columns :
           columns[c].rowVersion => row[c] \in {"string"} \X {v \in Texts \ {MaskToken} : Shorten[v] = v}
    BY <1>11 DEF IsStored
  <2> QED BY <1>8, <2>1, <2>2, <2>3, <2>4
<1>12. ASSUME key # {}, ~t.filtered, NEW row \in rows, NEW other \in rows, \A c \in key : row[c] = other[c]
       PROVE  row = other
  BY <1>3, <1>10, <1>12, KeyIsIndex DEF IsStored, Enforced
<1> HIDE DEF final, key
<1>13. \A row \in t.rows :
          /\ row \in [DOMAIN row -> Values] /\ DOMAIN t.columns \cup t.keyColumns \subseteq DOMAIN row
          /\ \A c \in DOMAIN t.columns : row[c] \in {Null} \cup ValuesOf(t.columns[c].clrType)
          /\ \A c \in t.keyColumns : row[c] # Null
          /\ t.rowVersionColumn # NoColumn =>
                row[t.rowVersionColumn] \in {"string"} \X {v \in Texts \ {MaskToken} : Shorten[v] = v}
  BY <1>3, <1>6, <1>11
<1>14. \A c \in DOMAIN t.columns : t.columns[c].sensitivity = "Hidden" => ~t.columns[c].updatable
  BY <1>3, <1>5, <1>6
<1>15. /\ t.capability \subseteq Operations
       /\ t.capability \cap {"update", "delete"} # {} => t.keyColumns # {}
       /\ t.rowVersionColumn \in DOMAIN t.columns \cup {NoColumn}
       /\ IsFiniteSet(t.rows)
  BY <1>3, <1>6, <1>7, <1>8 DEF IsStored
<1>16. \/ t.keyColumns = {} \/ t.filtered
       \/ \A row, other \in t.rows : (\A c \in t.keyColumns : row[c] = other[c]) => row = other
  BY <1>3, <1>12
<1>17. IsTable(t)
  BY <1>6, <1>13, <1>14, <1>15, <1>16 DEF IsTable
<1> QED BY <1>1, <1>17

-----------------------------------------------------------------------------
\* Values

\* What a cell of a page is made of.
LEMMA CellCases ==
    ASSUME NEW column \in Column, NEW v \in {Null} \cup ValuesOf(column.clrType)
    PROVE  \/ v = Null /\ ReadCell(column, v) = Null
           \/ v # Null /\ column.sensitivity = "Masked" /\ ReadCell(column, v) = <<"string", MaskToken>>
           \/ /\ column.clrType = "String"
              /\ \E t \in Texts : v = <<"string", t>> /\ ReadCell(column, v) = <<"string", Shorten[t]>>
           \/ /\ column.clrType = "Number"
              /\ \E n \in Numerals : v = <<"number", n>> /\ ReadCell(column, v) = <<"number", Round[n]>>
           \/ column.clrType = "Boolean" /\ v \in {True, False} /\ ReadCell(column, v) = v
<1>1. column.clrType \in {"String", "Number", "Boolean"}
  BY DEF Column
<1>2. CASE v = Null
  BY <1>2 DEF ReadCell
<1>3. CASE v # Null /\ column.sensitivity = "Masked"
  BY <1>3 DEF ReadCell
<1>4. CASE v # Null /\ column.sensitivity # "Masked"
  <2>1. CASE column.clrType = "String"
    <3>1. PICK t \in Texts : v = <<"string", t>>
      BY <1>4, <2>1 DEF ValuesOf
    <3> QED BY <1>4, <2>1, <3>1 DEF ReadCell
  <2>2. CASE column.clrType = "Number"
    <3>1. PICK n \in Numerals : v = <<"number", n>>
      BY <1>4, <2>2 DEF ValuesOf
    <3> QED BY <1>4, <2>2, <3>1 DEF ReadCell
  <2>3. CASE column.clrType = "Boolean"
    <3>1. v \in {True, False}
      BY <1>4, <2>3 DEF ValuesOf
    <3> QED BY <1>4, <2>3, <3>1 DEF ReadCell, True, False
  <2> QED BY <1>1, <2>1, <2>2, <2>3
<1> QED BY <1>2, <1>3, <1>4

LEMMA CellType ==
    ASSUME NEW column \in Column, NEW v \in {Null} \cup ValuesOf(column.clrType)
    PROVE  ReadCell(column, v) \in Values
<1>1. \A t \in Texts : <<"string", t>> \in Values /\ Shorten[t] \in Texts
  BY FieldAssumption DEF FieldAssumption, Values, ValuesOf
<1>2. \A n \in Numerals : <<"number", n>> \in Values /\ Round[n] \in Numerals
  BY FieldAssumption DEF FieldAssumption, Values, ValuesOf
<1>3. Null \in Values /\ True \in Values /\ False \in Values /\ MaskToken \in Texts
  BY FieldAssumption DEF FieldAssumption, Values, ValuesOf
<1> QED BY <1>1, <1>2, <1>3, CellCases

\* What a field starts with.
Starts(state, raw) ==
    /\ state.value = IF raw \in {Null, Undefined, True, False} THEN "" ELSE raw[2]
    /\ \E checked \in BOOLEAN : state.checked = checked /\ (checked <=> raw = True)
    /\ \E isNull \in BOOLEAN : state.isNull = isNull /\ (isNull <=> raw = Null)
    /\ state = [value |-> state.value, checked |-> state.checked, isNull |-> state.isNull, touched |-> FALSE]

LEMMA InitialField ==
    ASSUME NEW c, NEW row
    PROVE  Starts(BuildInitialState({c}, row)[c], At(row, c))
<1>0. PICK raw : raw = At(row, c)
  OBVIOUS
<1>1. PICK value : value = IF raw \in {Null, Undefined, True, False} THEN "" ELSE raw[2]
  OBVIOUS
<1>2. PICK checked \in BOOLEAN : checked = (raw = True)
  OBVIOUS
<1>3. PICK isNull \in BOOLEAN : isNull = (raw = Null)
  OBVIOUS
<1> DEFINE state == [value |-> value, checked |-> checked, isNull |-> isNull, touched |-> FALSE]
<1>4. BuildInitialState({c}, row)[c] = state
  BY <1>0, <1>1, <1>2, <1>3, Zenon DEF BuildInitialState
<1>5. state.value = value /\ state.checked = checked /\ state.isNull = isNull
  OBVIOUS
<1>6. (checked <=> raw = True) /\ (isNull <=> raw = Null)
  BY <1>2, <1>3
<1>7. Starts(state, raw)
  BY <1>1, <1>5, <1>6 DEF Starts
<1> QED BY <1>0, <1>4, <1>7

LEMMA InitialFieldType ==
    ASSUME NEW c, NEW row, At(row, c) \in Values \cup {Undefined}
    PROVE  BuildInitialState({c}, row)[c] \in FieldState
<1>1. PICK raw : raw = At(row, c)
  OBVIOUS
<1>2. PICK state : state = BuildInitialState({c}, row)[c]
  OBVIOUS
<1>3. Starts(state, raw)
  BY <1>1, <1>2, InitialField
<1>4. state.value \in Texts
  <2>1. CASE raw \in {Null, Undefined, True, False}
    BY <1>3, <2>1, FieldAssumption DEF FieldAssumption, Starts
  <2>2. CASE raw \notin {Null, Undefined, True, False}
    <3>1. raw \in ({"string"} \X Texts) \cup ({"number"} \X Numerals)
      BY <1>1, <2>2 DEF Values, ValuesOf
    <3>2. Numerals \subseteq Texts
      BY FieldAssumption DEF FieldAssumption
    <3>3. raw[2] \in Texts
      BY <3>1, <3>2
    <3> QED BY <1>3, <2>2, <3>3 DEF Starts
  <2> QED BY <2>1, <2>2
<1>5. PICK value \in Texts, checked \in BOOLEAN, isNull \in BOOLEAN :
         state = [value |-> value, checked |-> checked, isNull |-> isNull, touched |-> FALSE]
  BY <1>3, <1>4 DEF Starts
<1>6. [value |-> value, checked |-> checked, isNull |-> isNull, touched |-> FALSE] \in FieldState
  BY <1>5 DEF FieldState
<1> QED BY <1>2, <1>5, <1>6

\* A value survives the way to the server and back.
LEMMA SentBack ==
    ASSUME NEW column \in Column, NEW v \in ValuesOf(column.clrType)
    PROVE  TryCoerce(column, OnTheWire(v)) = v /\ v # Undefined /\ v # Invalid
<1>1. column.clrType \in {"String", "Number", "Boolean"}
  BY DEF Column
<1>2. CASE column.clrType = "String"
  <2>1. PICK t \in Texts : v = <<"string", t>>
    BY <1>2 DEF ValuesOf
  <2> QED BY <1>2, <2>1 DEF TryCoerce, OnTheWire, Undefined, NaN, Null, Invalid
<1>3. CASE column.clrType = "Number"
  <2>1. PICK n \in Numerals : v = <<"number", n>>
    BY <1>3 DEF ValuesOf
  <2>2. n # "NaN"
    BY FieldAssumption DEF FieldAssumption
  <2> QED BY <1>3, <2>1, <2>2 DEF TryCoerce, OnTheWire, Undefined, NaN, Null, Invalid
<1>4. CASE column.clrType = "Boolean"
  <2>1. v \in {True, False}
    BY <1>4 DEF ValuesOf
  <2> QED BY <1>4, <2>1 DEF TryCoerce, OnTheWire, Undefined, NaN, Null, Invalid, True, False
<1> QED BY <1>1, <1>2, <1>3, <1>4

\* A field that nobody touches does not count as changed, unless it shows a mask that its type cannot hold.
LEMMA UntouchedIsEqual ==
    ASSUME NEW column \in Column, NEW v \in {Null} \cup ValuesOf(column.clrType),
           NEW c, NEW row, At(row, c) = ReadCell(column, v),
           ~(column.sensitivity = "Masked" /\ column.clrType # "String")
    PROVE  ValuesEqual(At(row, c), ReadValue(column, BuildInitialState({c}, row)[c]))
<1>0. PICK raw : raw = At(row, c)
  OBVIOUS
<1>1. PICK state : state = BuildInitialState({c}, row)[c]
  OBVIOUS
<1>2. Starts(state, raw)
  BY <1>0, <1>1, InitialField
<1>3. ASSUME raw = Null
      PROVE  ValuesEqual(raw, ReadValue(column, state))
  <2>1. state.isNull
    BY <1>2, <1>3 DEF Starts
  <2>2. ReadValue(column, state) = Null
    BY <2>1 DEF ReadValue
  <2> QED BY <1>3, <2>2 DEF ValuesEqual
<1>4. ASSUME column.clrType = "String", NEW t, raw = <<"string", t>>
      PROVE  ValuesEqual(raw, ReadValue(column, state))
  <2>1. raw \notin {Null, Undefined, True, False}
    BY <1>4 DEF Null, Undefined, True, False
  <2>2. ~state.isNull /\ state.value = t
    BY <1>2, <1>4, <2>1 DEF Starts
  <2>3. ReadValue(column, state) = <<"string", t>>
    BY <1>4, <2>2 DEF ReadValue
  <2> QED BY <1>4, <2>1, <2>3 DEF ValuesEqual
<1>5. ASSUME column.clrType = "Number", NEW n \in Numerals, raw = <<"number", Round[n]>>
      PROVE  ValuesEqual(raw, ReadValue(column, state))
  <2>1. raw \notin {Null, Undefined, True, False}
    BY <1>5 DEF Null, Undefined, True, False
  <2>2. Round[n] \in Numerals /\ Round[n] # "" /\ Round[Round[n]] = Round[n]
    BY FieldAssumption DEF FieldAssumption
  <2>3. ~state.isNull /\ state.value = Round[n]
    BY <1>2, <1>5, <2>1 DEF Starts
  <2>4. ReadValue(column, state) = <<"number", Round[n]>>
    BY <1>5, <2>2, <2>3 DEF ReadValue, ToNumber
  <2> QED BY <1>5, <2>1, <2>4 DEF ValuesEqual
<1>6. ASSUME column.clrType = "Boolean", raw \in {True, False}
      PROVE  ValuesEqual(raw, ReadValue(column, state))
  <2>1. raw \notin {Null, Undefined}
    BY <1>6 DEF Null, Undefined, True, False
  <2>2. True # False
    BY DEF True, False
  <2>3. ReadValue(column, state) = raw
    BY <1>2, <1>6, <2>1, <2>2 DEF ReadValue, Starts
  <2> QED BY <2>1, <2>3 DEF ValuesEqual
<1>7. column.clrType \in {"String", "Number", "Boolean"}
  BY DEF Column
<1>8. ValuesEqual(raw, ReadValue(column, state))
  BY <1>3, <1>4, <1>5, <1>6, <1>7, CellCases, <1>0
<1> QED BY <1>0, <1>1, <1>8

-----------------------------------------------------------------------------
\* Rows and requests

LEMMA ServerFacts ==
    ASSUME NEW s \in Described
    PROVE  s.options \in Options /\ s.limit \in Nat /\ \A o \in Objects : IsTable(s.tables[o])
<1>1. PICK t \in Servers : /\ s.options = t.options /\ s.limit = t.limit
                           /\ \A o \in Objects : s.tables[o] = MetadataOf(t.tables[o])
  BY DEF Described
<1>2. \A o \in Objects : IsTable(MetadataOf(t.tables[o]))
  BY PageAssumption, TablesAreRead DEF PageAssumption
<1> QED BY <1>1, <1>2, PageAssumption DEF PageAssumption

LEMMA TableFacts ==
    ASSUME server \in Described, NEW o \in Objects
    PROVE  IsTable(Table(o))
BY ServerFacts DEF Table

\* The cells of a row that a dialog may have been opened on.
LEMMA RecordFacts ==
    ASSUME server \in Described, NEW row \in Records
    PROVE  /\ row.of \in Objects /\ row.stored \in Table(row.of).rows
           /\ \A c \in DOMAIN Columns(row.of) :
                 IF Columns(row.of)[c].sensitivity = "Hidden" THEN At(row.cells, c) = Undefined
                 ELSE At(row.cells, c) = ReadCell(Columns(row.of)[c], row.stored[c])
           /\ \A c : c \notin DOMAIN Columns(row.of) => At(row.cells, c) = Undefined
           /\ \A c : At(row.cells, c) \in Values \cup {Undefined}
<1>0. PICK o \in Objects : \E stored \in Table(o).rows : row = Record(o, stored)
  BY DEF Records
<1>1. PICK stored \in Table(o).rows : row = Record(o, stored)
  BY <1>0
<1>2. row.of = o /\ row.stored = stored /\ row.cells = ReadRow(Columns(o), stored)
  BY <1>1 DEF Record
<1>3. /\ \A c \in DOMAIN Columns(o) :
            IF Columns(o)[c].sensitivity = "Hidden" THEN At(row.cells, c) = Undefined
            ELSE At(row.cells, c) = ReadCell(Columns(o)[c], stored[c])
      /\ \A c : c \notin DOMAIN Columns(o) => At(row.cells, c) = Undefined
  BY <1>2 DEF ReadRow, At
<1>4. \A c \in DOMAIN Columns(o) :
         Columns(o)[c] \in Column /\ stored[c] \in {Null} \cup ValuesOf(Columns(o)[c].clrType)
  BY TableFacts DEF IsTable, Columns
<1>5. \A c \in DOMAIN Columns(o) : ReadCell(Columns(o)[c], stored[c]) \in Values
  BY <1>4, CellType
<1> QED BY <1>1, <1>2, <1>3, <1>5

\* A key that arrives unaltered leads back to the row.
LEMMA KeyArrives ==
    ASSUME server \in Described, NEW r, IsRequest(r), r.kind # "create", r.target = r.record.of, ~AlteredKey(r),
           NEW c \in Table(r.target).keyColumns
    PROVE  LET t == Table(r.target) IN
           /\ c \in DOMAIN t.columns
           /\ PrepareKey(t.columns, t.keyColumns, r.keys)[c] = r.record.stored[c]
           /\ r.record.stored[c] \notin {Null, Invalid}
<1> DEFINE t == Table(r.target)
<1> DEFINE stored == r.record.stored
<1>1. r.target \in Objects /\ r.record \in Records /\ r.keys = KeyValues(t.keyColumns, r.record.cells)
  BY DEF IsRequest
<1>2. IsTable(t) /\ stored \in t.rows
  BY <1>1, TableFacts, RecordFacts
<1>3. c \in DOMAIN stored /\ stored[c] \in Values /\ stored[c] # Null
  BY <1>2 DEF IsTable
<1>4. r.keys[c] = At(r.record.cells, c) /\ r.keys[c] = stored[c]
  BY <1>1, <1>3 DEF KeyValues, AlteredKey, At
<1>5. Undefined \notin Values
  BY DEF Undefined, Values, ValuesOf, Null, True, False
<1>6. c \in DOMAIN t.columns
  BY <1>1, <1>3, <1>4, <1>5, RecordFacts DEF Columns
<1>7. t.columns[c] \in Column /\ stored[c] \in ValuesOf(t.columns[c].clrType)
  BY <1>2, <1>3, <1>6 DEF IsTable
<1>8. TryCoerce(t.columns[c], OnTheWire(stored[c])) = stored[c] /\ stored[c] # Invalid
  BY <1>7, SentBack
<1>9. PrepareKey(t.columns, t.keyColumns, r.keys)[c] = stored[c]
  BY <1>4, <1>8 DEF PrepareKey
<1> QED BY <1>3, <1>6, <1>8, <1>9

\* A token is the row's own rowversion, or the mask, or there is none.
LEMMA TokenArrives ==
    ASSUME server \in Described, NEW r, IsRequest(r), r.kind # "create", r.target = r.record.of, r.token # Null
    PROVE  LET t == Table(r.target) IN
           /\ \A row \in t.rows : row[t.rowVersionColumn] # <<"string", MaskToken>>
           /\ Masked(r.token) \/ r.record.stored[t.rowVersionColumn] = r.token
<1> DEFINE t == Table(r.target)
<1> DEFINE c == t.rowVersionColumn
<1> DEFINE stored == r.record.stored
<1>1. /\ r.target \in Objects /\ r.record \in Records
      /\ c # NoColumn /\ r.token = OnTheWire(At(r.record.cells, c))
  BY DEF IsRequest
<1>2. IsTable(t) /\ stored \in t.rows
  BY <1>1, TableFacts, RecordFacts
<1>3. c \in DOMAIN t.columns
  BY <1>1, <1>2 DEF IsTable
<1>4. \A row \in t.rows : \E v \in Texts \ {MaskToken} : row[c] = <<"string", v>> /\ Shorten[v] = v
  BY <1>1, <1>2 DEF IsTable
<1>5. PICK v \in Texts \ {MaskToken} : stored[c] = <<"string", v>> /\ Shorten[v] = v
  BY <1>2, <1>4
<1>6. At(r.record.cells, c) # Undefined
  BY <1>1 DEF OnTheWire
<1>7. At(r.record.cells, c) = ReadCell(t.columns[c], stored[c])
  BY <1>1, <1>3, <1>6, RecordFacts DEF Columns
<1>8. ReadCell(t.columns[c], stored[c]) \in {<<"string", MaskToken>>, stored[c]}
  BY <1>5 DEF ReadCell, Null
<1>9. \A w : OnTheWire(<<"string", w>>) = <<"string", w>>
  BY DEF OnTheWire, Undefined, NaN
<1>10. r.token \in {<<"string", MaskToken>>, stored[c]}
  BY <1>1, <1>5, <1>7, <1>8, <1>9
<1> QED BY <1>4, <1>10 DEF Masked

\* So the statement finds the row, unless the token is masked, and then it finds none.
LEMMA RowIsFound ==
    ASSUME server \in Described, NEW r, IsRequest(r), r.kind # "create", r.target = r.record.of, ~AlteredKey(r)
    PROVE  IF Masked(r.token) THEN Found(r) = {} ELSE r.record.stored \in Found(r)
<1> DEFINE t == Table(r.target)
<1> DEFINE stored == r.record.stored
<1>1. stored \in t.rows
  BY RecordFacts DEF IsRequest
<1>2. \A c \in t.keyColumns : stored[c] = PrepareKey(t.columns, t.keyColumns, r.keys)[c]
  BY KeyArrives
<1>3. CASE Masked(r.token)
  <2>1. r.token # Null
    BY <1>3 DEF Masked, Null
  <2> QED BY <1>3, <2>1, TokenArrives DEF Found, Masked
<1>4. CASE ~Masked(r.token)
  <2>1. r.token # Null => stored[t.rowVersionColumn] = r.token
    BY <1>4, TokenArrives
  <2> QED BY <1>1, <1>2, <1>4, <2>1 DEF Found
<1> QED BY <1>3, <1>4


LEMMA ServedIsNotMasked ==
    ASSUME server \in Described, NEW r, IsRequest(r), r.kind # "create", r.target = r.record.of, ~AlteredKey(r),
           "ok" \in Outcomes(r)
    PROVE  Found(r) = {r.record.stored}
<1> DEFINE stored == r.record.stored
<1>1. Cardinality(Found(r)) = 1
  BY DEF Outcomes, TargetsOne
<1>2. r.target \in Objects
  BY DEF IsRequest
<1>3. IsFiniteSet(Table(r.target).rows)
  BY <1>2, TableFacts DEF IsTable
<1>4. Found(r) \subseteq Table(r.target).rows
  BY DEF Found
<1>5. IsFiniteSet(Found(r))
  BY <1>3, <1>4, FS_Subset
<1>6. Found(r) # {}
  BY <1>1, FS_EmptySet
<1>7. stored \in Found(r)
  BY <1>6, RowIsFound
<1>8. PICK x : Found(r) = {x}
  BY <1>1, <1>5, FS_Singleton
<1> QED BY <1>7, <1>8

LEMMA RequestsLeadBack == PageTypes /\ RequestInv => KeyLeadsBack
<1> SUFFICES ASSUME PageTypes, RequestInv,
                    NEW r \in requests, r.kind \in {"edit", "delete"}, Needed(r.kind) \in Permissions(r.target),
                    r.target = r.record.of, ~AlteredKey(r)
             PROVE  /\ KeyAccepted(Columns(r.target), Table(r.target).keyColumns, r.keys)
                    /\ Table(r.target).filtered \/ Masked(r.token) \/ Found(r) = {r.record.stored}
  BY DEF KeyLeadsBack
<1> DEFINE t == Table(r.target)
<1> DEFINE stored == r.record.stored
<1> DEFINE key == PrepareKey(t.columns, t.keyColumns, r.keys)
<1>1. server \in Described /\ IsRequest(r) /\ r.kind # "create"
  BY DEF PageTypes, RequestInv
<1>2. IsTable(t)
  BY <1>1, TableFacts DEF IsRequest
<1>3. \A c \in t.keyColumns : c \in DOMAIN t.columns /\ key[c] = stored[c] /\ stored[c] \notin {Null, Invalid}
  BY <1>1, KeyArrives
<1>4. t.keyColumns # {}
  <2>1. Needed(r.kind) \in {"update", "delete"}
    BY DEF Needed
  <2>2. Needed(r.kind) \in t.capability
    BY PermittedIsPossible DEF Permissions, SubjectOf
  <2> QED BY <1>2, <2>1, <2>2 DEF IsTable
<1>5. DOMAIN r.keys = t.keyColumns
  BY <1>1 DEF IsRequest, KeyValues
<1>6. KeyAccepted(t.columns, t.keyColumns, r.keys)
  BY <1>3, <1>4, <1>5 DEF KeyAccepted
<1>7. ASSUME ~t.filtered, ~Masked(r.token)
      PROVE  Found(r) = {stored}
  <2>1. stored \in Found(r) /\ stored \in t.rows
    BY <1>1, <1>7, RowIsFound DEF Found
  <2>2. ASSUME NEW other \in Found(r)
        PROVE  other = stored
    <3>1. other \in t.rows /\ \A c \in t.keyColumns : other[c] = key[c]
      BY <2>2 DEF Found
    <3>2. \A c \in t.keyColumns : other[c] = stored[c]
      BY <1>3, <3>1
    <3> QED BY <1>2, <1>4, <1>7, <2>1, <3>1, <3>2 DEF IsTable
  <2> QED BY <2>1, <2>2
<1> QED BY <1>6, <1>7 DEF Columns

LEMMA ShownIsChanged == PageTypes /\ RequestInv => ChangedUnlessMoved
<1> SUFFICES ASSUME PageTypes, RequestInv,
                    NEW r \in Served({"edit", "delete"}), r.target = r.record.of, ~AlteredKey(r)
             PROVE  Found(r) = {r.record.stored}
  BY DEF ChangedUnlessMoved
<1>1. r \in requests /\ r.kind # "create" /\ "ok" \in Outcomes(r)
  BY DEF Served
<1>2. server \in Described /\ IsRequest(r)
  BY <1>1 DEF PageTypes, RequestInv
<1> QED BY <1>1, <1>2, ServedIsNotMasked

LEMMA WrittenIsTouched == RequestInv => ShownIsKept
<1> SUFFICES ASSUME RequestInv, NEW r \in Served({"edit"}), r.target = r.record.of,
                    NEW c \in DOMAIN r.changes, Showable(Columns(r.target)[c])
             PROVE  c \in r.touched
  BY DEF ShownIsKept
<1>1. r \in requests /\ r.kind = "edit"
  BY DEF Served
<1> QED BY <1>1 DEF RequestInv, IsRequest, Showable

LEMMA TypesAreRight == PageTypes /\ FormInv => TypeOK
<1> SUFFICES ASSUME PageTypes, FormInv PROVE TypeOK
  OBVIOUS
<1>1. server.options \in Options
  BY ServerFacts DEF PageTypes
<1>2. dialog.kind \in Modals \cup {"none", "details"} /\ dialog.row.of \in Objects \cup {None}
  <2>1. \A row \in Records : row.of \in Objects
    BY RecordFacts DEF PageTypes
  <2>2. NoRecord.of = None
    BY DEF NoRecord
  <2> QED BY <2>1, <2>2 DEF PageTypes, Dialogs, Modals
<1>3. \A c \in DOMAIN form.fields : form.fields[c] \in FieldState
  <2>1. form.fields \in Fields
    BY DEF PageTypes, Forms
  <2>2. PICK C : form.fields \in [C -> FieldState]
    BY <2>1 DEF Fields
  <2> QED BY <2>2
<1>4. form.step \in {"none", "edit", "confirm"}
  BY DEF PageTypes, Forms
<1>5. form # NoForm => dialog.kind \in Modals /\ Known(url, metadata) /\ ~blank
  BY DEF FormInv
<1> QED BY <1>1, <1>2, <1>3, <1>4, <1>5 DEF PageTypes, TypeOK

\* The tree's search: what matches is in the tree, and its nodes are open.
LEMMA SearchIsOpen == search \in Terms => SearchReveals
<1> SUFFICES ASSUME search \in Terms, treeOpen, search \notin Blanks
             PROVE  Shown(Listed) = {o \in Matches[search] : "read" \in Permissions(o)}
  BY DEF SearchReveals
<1>1. Matches[search] \subseteq Objects
  BY PageAssumption DEF PageAssumption
<1>2. \A node : IsOpen(node)
  BY TreeAssumption DEF TreeAssumption, IsOpen
<1>3. Listed = {SubjectOf(o) : o \in {p \in Objects : "read" \in Permissions(p)}}
  BY DEF Listed, GetVisibleObjects, Permissions
<1>4. \A o : SubjectOf(o).name = o
  BY DEF SubjectOf
<1>5. Shown(Listed) = {s.name : s \in {s \in Listed : s.name \in Matches[search]}}
  BY <1>2 DEF Shown, Filtered
<1> QED BY <1>1, <1>3, <1>4, <1>5

-----------------------------------------------------------------------------
\* Forms that are mounted and rendered

LEMMA DialogCells ==
    ASSUME server \in Described, NEW d \in Dialogs, NEW c
    PROVE  At(d.row.cells, c) \in Values \cup {Undefined}
<1>1. CASE d.row = NoRecord
  <2>1. d.row.cells = <<>>
    BY <1>1 DEF NoRecord, NoRow
  <2>2. c \notin DOMAIN <<>>
    OBVIOUS
  <2> QED BY <2>1, <2>2 DEF At
<1>2. CASE d.row \in Records
  BY <1>2, RecordFacts
<1> QED BY <1>1, <1>2 DEF Dialogs

LEMMA InitialStates ==
    ASSUME NEW C, NEW row, NEW c \in C
    PROVE  BuildInitialState(C, row)[c] = BuildInitialState({c}, row)[c]
BY Zenon DEF BuildInitialState

LEMMA EmptyForm == NoForm \in Forms /\ NoForm.request = None /\ NoForm.step = "none"
<1>1. <<>> \in [{} -> FieldState]
  OBVIOUS
<1>2. <<>> \in Fields
  <2>1. {} \in SUBSET ColumnNames
    OBVIOUS
  <2> QED BY <1>1, <2>1 DEF Fields
<1> QED BY <1>2 DEF NoForm, Forms

LEMMA Mounted ==
    ASSUME server \in Described, NEW d \in Dialogs, d.kind \in Modals, NEW o \in Objects
    PROVE  LET g == Mount(d.kind, d.row, o) IN
           g \in Forms /\ Usable(g, d, o) /\ g # NoForm /\ g.request = None
<1> DEFINE editable == EditableColumns(Columns(o), d.kind)
<1> DEFINE fields == IF d.kind = "delete" THEN <<>> ELSE BuildInitialState(editable, d.row.cells)
<1> DEFINE step == IF d.kind = "delete" THEN "confirm" ELSE "edit"
<1>1. PICK g : g = Mount(d.kind, d.row, o)
  OBVIOUS
<1>2. g = [opened |-> o, fields |-> fields, step |-> step, error |-> "none", request |-> None]
  BY <1>1 DEF Mount, NoForm
<1>3. DOMAIN fields = IF d.kind = "delete" THEN {} ELSE editable
  BY DEF BuildInitialState
<1>4. \A c \in DOMAIN fields : fields[c] = BuildInitialState({c}, d.row.cells)[c]
  <2>1. CASE d.kind = "delete"
    BY <1>3, <2>1
  <2>2. CASE d.kind # "delete"
    <3>1. fields = BuildInitialState(editable, d.row.cells) /\ DOMAIN fields = editable
      BY <1>3, <2>2
    <3>2. \A c \in editable : BuildInitialState(editable, d.row.cells)[c] = BuildInitialState({c}, d.row.cells)[c]
      <4> SUFFICES ASSUME NEW c \in editable
                   PROVE  BuildInitialState(editable, d.row.cells)[c] = BuildInitialState({c}, d.row.cells)[c]
        OBVIOUS
      <4> HIDE DEF editable
      <4> QED BY InitialStates
    <3> HIDE DEF fields, editable
    <3> QED BY <3>1, <3>2
  <2> QED BY <2>1, <2>2
<1>5. \A c \in DOMAIN fields : fields[c] \in FieldState
  BY <1>4, DialogCells, InitialFieldType
<1>6. editable \subseteq ColumnNames
  BY DEF EditableColumns, Columns, Table, ColumnNames
<1>7. fields \in Fields
  <2>1. fields \in [DOMAIN fields -> FieldState]
    <3>1. CASE d.kind = "delete"
      BY <3>1
    <3>2. CASE d.kind # "delete"
      <4>1. fields = [c \in editable |-> BuildInitialState(editable, d.row.cells)[c]]
        BY <3>2 DEF BuildInitialState
      <4> QED BY <1>5, <4>1
    <3> QED BY <3>1, <3>2
  <2>2. DOMAIN fields \in SUBSET ColumnNames
    BY <1>3, <1>6
  <2> QED BY <2>1, <2>2 DEF Fields
<1> HIDE DEF fields
<1>8. g \in Forms
  <2>1. step \in {"none", "edit", "confirm"}
    OBVIOUS
  <2> HIDE DEF step
  <2> QED BY <1>2, <1>7, <2>1 DEF Forms
<1>9. g.step = step /\ step # "none" /\ NoForm.step = "none"
  BY <1>2 DEF NoForm
<1>10. Renders(g, d.kind, o)
  BY <1>2, <1>3 DEF Renders
<1>11. Usable(g, d, o)
  BY <1>2, <1>3, <1>4, <1>9, <1>10 DEF Usable, Faithful
<1> QED BY <1>1, <1>2, <1>8, <1>9, <1>11

\* What rendering leaves: no form, the old one or a new one, and each can be rendered.
LEMMA Rendered ==
    ASSUME server \in Described, NEW d \in Dialogs, NEW o \in Objects \cup {None}, NEW queries,
           NEW f \in Forms, NEW p, f # NoForm => Usable(f, d, p),
           Render(d, f, o, queries)
    PROVE  /\ form' \in Forms
           /\ form' # NoForm => d.kind \in Modals /\ Known(o, queries) /\ blank' = blank /\ Usable(form', d, o)
           /\ form'.request \in {None, f.request}
           /\ blank' # blank => f # NoForm /\ blank' = TRUE /\ ~Renders(f, d.kind, o) /\ Known(o, queries)
           /\ d.kind = "none" => form' = NoForm
<1>1. NoForm \in Forms /\ NoForm.request = None
  BY EmptyForm
<1>2. CASE d.kind \notin Modals \/ ~Known(o, queries)
  BY <1>1, <1>2 DEF Render, Modals
<1>3. CASE d.kind \in Modals /\ Known(o, queries)
  <2>1. o \in Objects
    BY <1>3 DEF Known
  <2>2. PICK g : g = IF f = NoForm THEN Mount(d.kind, d.row, o) ELSE f
    OBVIOUS
  <2>3. IF Renders(g, d.kind, o) THEN form' = g /\ UNCHANGED blank ELSE form' = NoForm /\ blank' = TRUE
    BY <1>3, <2>2 DEF Render
  <2>4. d.kind # "none"
    BY <1>3 DEF Modals
  <2>5. CASE f = NoForm
    <3>1. g \in Forms /\ Usable(g, d, o) /\ g.request = None
      BY <1>3, <2>1, <2>2, <2>5, Mounted
    <3>2. Renders(g, d.kind, o)
      BY <3>1 DEF Usable
    <3> QED BY <1>3, <2>3, <2>4, <3>1, <3>2
  <2>6. CASE f # NoForm
    <3>1. g = f /\ Usable(f, d, p)
      BY <2>2, <2>6
    <3>2. Renders(f, d.kind, o) => Usable(f, d, o)
      BY <3>1 DEF Usable
    <3>3. CASE Renders(f, d.kind, o)
      BY <1>3, <2>3, <2>4, <3>1, <3>2, <3>3
    <3>4. CASE ~Renders(f, d.kind, o)
      BY <1>1, <1>3, <2>3, <2>4, <2>6, <3>1, <3>4
    <3> QED BY <3>3, <3>4
  <2> QED BY <2>5, <2>6
<1> QED BY <1>2, <1>3

-----------------------------------------------------------------------------
\* The inductive invariant

LEMMA ServerStays ==
    ASSUME UNCHANGED server
    PROVE  /\ Records' = Records /\ Dialogs' = Dialogs
           /\ \A o : Table(o)' = Table(o) /\ Columns(o)' = Columns(o)
           /\ \A f, d, o : Usable(f, d, o)' = Usable(f, d, o)
           /\ \A r : IsRequest(r)' = IsRequest(r)
<1>1. \A o : Table(o)' = Table(o) /\ Columns(o)' = Columns(o)
  BY DEF Table, Columns
<1>2. Records' = Records
  BY <1>1 DEF Records, Record
<1>3. Dialogs' = Dialogs
  BY <1>2 DEF Dialogs
<1>4. \A f, d, o : Usable(f, d, o)' = Usable(f, d, o)
  BY <1>1 DEF Usable, Renders
<1>5. \A r : IsRequest(r)' = IsRequest(r)
  BY <1>1, <1>2 DEF IsRequest
<1> QED BY <1>1, <1>2, <1>3, <1>4, <1>5

LEMMA PageInitially == Init => PageInv
<1> SUFFICES ASSUME Init PROVE PageInv
  OBVIOUS
<1>1. dialog \in Dialogs
  BY DEF Init, NoDialog, Dialogs
<1>2. metadata \in [Objects -> {"absent", "asked", "here"}]
  BY DEF Init
<1>3. search \in Terms
  BY TreeAssumption DEF Init, TreeInit, TreeAssumption
<1>4. form \in Forms /\ form.request = None
  BY EmptyForm DEF Init
<1>5. PageTypes
  BY <1>1, <1>2, <1>3, <1>4 DEF Init, PageTypes
<1>6. FormInv /\ RequestInv
  BY DEF Init, FormInv, RequestInv
<1> QED BY <1>5, <1>6 DEF PageInv

\* The page renders again, with what it had or with another dialog.
LEMMA RenderKeeps ==
    ASSUME PageInv, ~blank, UNCHANGED server, search' \in Terms,
           url' \in Objects \cup {None}, metadata' \in [Objects -> {"absent", "asked", "here"}], dialog' \in Dialogs,
           toast' \in BOOLEAN, timers' \in Nat, toast' => timers' > 0,
           requests' \subseteq requests, requests' = requests \/ dialog'.kind = "none",
           \/ Render(dialog', NoForm, url', metadata')
           \/ dialog' = dialog /\ Render(dialog', form, url', metadata')
    PROVE  PageInv'
<1>1. server \in Described /\ form \in Forms /\ NoForm \in Forms /\ NoForm.request = None
  BY EmptyForm DEF PageInv, PageTypes
<1>2. PICK f \in Forms : /\ f.request \in {None, form.request}
                         /\ f # NoForm => Usable(f, dialog', url)
                         /\ Render(dialog', f, url', metadata')
  BY <1>1 DEF PageInv, FormInv
<1>3. /\ form' \in Forms
      /\ form' # NoForm => /\ dialog'.kind \in Modals /\ Known(url', metadata') /\ blank' = blank
                           /\ Usable(form', dialog', url')
      /\ form'.request \in {None, f.request}
      /\ blank' \in BOOLEAN
      /\ dialog'.kind = "none" => form' = NoForm
  <2>1. blank \in BOOLEAN
    BY DEF PageInv, PageTypes
  <2>2. blank' = blank \/ blank' = TRUE
    BY <1>1, <1>2, Rendered
  <2> QED BY <1>1, <1>2, <2>1, <2>2, Rendered
<1>4. form'.request \in {None} \cup {r.id : r \in requests'}
  <2>1. form'.request \in {None, form.request}
    BY <1>2, <1>3
  <2> QED BY <1>1, <1>3, <2>1 DEF PageInv, PageTypes
<1>5. PageTypes'
  <2>1. \A r \in requests' : r.id \in 1..server'.limit
    BY DEF PageInv, PageTypes
  <2>2. server' \in Described /\ dialog' \in Dialogs'
    BY <1>1, ServerStays
  <2> QED BY <1>3, <1>4, <2>1, <2>2 DEF PageTypes, Forms, Fields
<1>6. FormInv'
  BY <1>3, ServerStays DEF FormInv
<1>7. RequestInv'
  BY ServerStays DEF PageInv, RequestInv
<1> QED BY <1>5, <1>6, <1>7 DEF PageInv

\* Something happens to the open form, to the requests, or to neither.
LEMMA FormKeeps ==
    ASSUME PageInv, UNCHANGED <<server, url, metadata, dialog, blank>>, search' \in Terms,
           toast' \in BOOLEAN, timers' \in Nat, toast' => timers' > 0,
           form' = form \/ (form # NoForm /\ form' \in Forms /\ Usable(form', dialog, url)),
           form'.request \in {None} \cup {r.id : r \in requests'},
           \A r \in requests' : r \in requests \/ (r.id \in 1..server.limit /\ IsRequest(r))
    PROVE  PageInv'
<1>1. server' \in Described /\ dialog' \in Dialogs' /\ form' \in Forms
  BY ServerStays DEF PageInv, PageTypes
<1>2. \A r \in requests' : r.id \in 1..server'.limit
  BY DEF PageInv, PageTypes
<1>3. PageTypes'
  BY <1>1, <1>2 DEF PageInv, PageTypes, Forms, Fields
<1>4. FormInv'
  BY ServerStays DEF PageInv, FormInv, Known
<1>5. RequestInv'
  BY ServerStays DEF PageInv, RequestInv
<1> QED BY <1>3, <1>4, <1>5 DEF PageInv

\* A form whose fields are as they were is as usable as it was.
LEMMA StillUsable ==
    ASSUME NEW f, NEW g, NEW d, NEW o, Usable(f, d, o),
           g.opened = f.opened, g.fields = f.fields, g.step \in {"edit", "confirm"}
    PROVE  Usable(g, d, o) /\ g # NoForm
<1>1. g.step # "none"
  OBVIOUS
<1>2. g # NoForm
  BY <1>1 DEF NoForm
<1> QED BY <1>1, <1>2 DEF Usable, Renders

LEMMA OpenForm ==
    ASSUME PageInv, form.step # "none"
    PROVE  /\ form # NoForm /\ form \in Forms /\ Usable(form, dialog, url)
           /\ dialog.kind \in Modals /\ Known(url, metadata) /\ ~blank /\ url \in Objects
           /\ dialog \in Dialogs
<1>1. form # NoForm
  BY DEF NoForm
<1> QED BY <1>1 DEF PageInv, PageTypes, FormInv, Known

\* What the three inputs of a field make of it.
LEMMA FieldEdits ==
    ASSUME NEW state \in FieldState, NEW text \in Texts
    PROVE  /\ [[state EXCEPT !.checked = ~@] EXCEPT !.touched = TRUE] \in FieldState
           /\ [[state EXCEPT !.value = text] EXCEPT !.touched = TRUE] \in FieldState
           /\ [[state EXCEPT !.isNull = ~@] EXCEPT !.touched = TRUE] \in FieldState
BY DEF FieldState

\* An edit replaces one field by one that is touched.
LEMMA EditTouches ==
    ASSUME PageInv, EditField
    PROVE  \E c, new : /\ c \in DOMAIN form.fields => new \in FieldState /\ new.touched = TRUE
                       /\ form' = [form EXCEPT !.fields[c] = new]
<1>1. form.step = "edit"
  BY DEF EditField, Editing
<1>2. form \in Forms /\ form # NoForm /\ Usable(form, dialog, url)
  BY <1>1, OpenForm
<1>3. PICK c \in EditableColumns(Columns(url), dialog.kind) : Edit(c)
  BY DEF EditField
<1>4. PICK state : state = form.fields[c]
  OBVIOUS
<1>5. c \in DOMAIN form.fields => state \in FieldState
  <2>1. form.fields \in Fields
    BY <1>2 DEF Forms
  <2>2. PICK C : form.fields \in [C -> FieldState]
    BY <2>1 DEF Fields
  <2> QED BY <1>4, <2>2
<1>6. PICK new : /\ c \in DOMAIN form.fields => new \in FieldState
                 /\ form' = [form EXCEPT !.fields[c] = new]
                 /\ c \in DOMAIN form.fields => new.touched = TRUE
  <2>1. \/ Update(c, [state EXCEPT !.checked = ~@])
        \/ \E text \in Texts : Update(c, [state EXCEPT !.value = text])
        \/ Update(c, [state EXCEPT !.isNull = ~@])
    <3>1. Typeable(Columns(url)[c]) \subseteq Texts
      BY FieldAssumption DEF FieldAssumption, Typeable
    <3> QED BY <1>3, <1>4, <3>1 DEF Edit
  <2>2. CASE Update(c, [state EXCEPT !.checked = ~@])
    <3> DEFINE new == [[state EXCEPT !.checked = ~@] EXCEPT !.touched = TRUE]
    <3>1. form' = [form EXCEPT !.fields[c] = new]
      BY <2>2 DEF Update, OnForm
    <3>2. c \in DOMAIN form.fields => new \in FieldState
      BY <1>5, FieldEdits, FieldAssumption DEF FieldAssumption
    <3>3. c \in DOMAIN form.fields => new.touched = TRUE
      BY <1>5 DEF FieldState
    <3> HIDE DEF new
    <3> QED BY <3>1, <3>2, <3>3
  <2>3. CASE \E text \in Texts : Update(c, [state EXCEPT !.value = text])
    <3>0. PICK text \in Texts : Update(c, [state EXCEPT !.value = text])
      BY <2>3
    <3> DEFINE new == [[state EXCEPT !.value = text] EXCEPT !.touched = TRUE]
    <3>1. form' = [form EXCEPT !.fields[c] = new]
      BY <3>0 DEF Update, OnForm
    <3>2. c \in DOMAIN form.fields => new \in FieldState
      BY <1>5, FieldEdits
    <3>3. c \in DOMAIN form.fields => new.touched = TRUE
      BY <1>5 DEF FieldState
    <3> HIDE DEF new
    <3> QED BY <3>1, <3>2, <3>3
  <2>4. CASE Update(c, [state EXCEPT !.isNull = ~@])
    <3> DEFINE new == [[state EXCEPT !.isNull = ~@] EXCEPT !.touched = TRUE]
    <3>1. form' = [form EXCEPT !.fields[c] = new]
      BY <2>4 DEF Update, OnForm
    <3>2. c \in DOMAIN form.fields => new \in FieldState
      BY <1>5, FieldEdits, FieldAssumption DEF FieldAssumption
    <3>3. c \in DOMAIN form.fields => new.touched = TRUE
      BY <1>5 DEF FieldState
    <3> HIDE DEF new
    <3> QED BY <3>1, <3>2, <3>3
  <2> QED BY <2>1, <2>2, <2>3, <2>4
<1> QED BY <1>6

LEMMA EditKeeps == PageInv /\ EditField => PageInv'
<1> SUFFICES ASSUME PageInv, EditField PROVE PageInv'
  OBVIOUS
<1>1. form.step = "edit" /\ UNCHANGED <<server, treeVars, url, metadata, dialog, toast, timers, requests, blank>>
  BY DEF EditField, Editing, Edit, Update, OnForm
<1>2. form \in Forms /\ form # NoForm /\ Usable(form, dialog, url)
  BY <1>1, OpenForm
<1>3. PICK c, new : /\ c \in DOMAIN form.fields => new \in FieldState /\ new.touched = TRUE
                    /\ form' = [form EXCEPT !.fields[c] = new]
  BY EditTouches
<1>4. PICK fields : fields = [x \in DOMAIN form.fields |-> IF x = c THEN new ELSE form.fields[x]]
  OBVIOUS
<1>5. form' = [form EXCEPT !.fields = fields]
  BY <1>2, <1>3, <1>4 DEF Forms
<1>6. fields \in Fields
  <2>1. form.fields \in Fields
    BY <1>2 DEF Forms
  <2>2. PICK C \in SUBSET ColumnNames : form.fields \in [C -> FieldState]
    BY <2>1 DEF Fields
  <2>3. fields \in [C -> FieldState]
    BY <1>3, <1>4, <2>2
  <2> QED BY <2>2, <2>3 DEF Fields
<1>7. form' \in Forms
  BY <1>2, <1>5, <1>6 DEF Forms
<1>8. /\ form'.fields = fields /\ form'.opened = form.opened /\ form'.step = form.step
      /\ form'.request = form.request
  BY <1>2, <1>5 DEF Forms
<1>9. Usable(form', dialog, url)
  <2>1. DOMAIN fields = DOMAIN form.fields
    BY <1>4
  <2>2. Faithful(fields, dialog.row.cells)
    BY <1>2, <1>3, <1>4 DEF Usable, Faithful
  <2>3. form'.step # "none"
    BY <1>1, <1>8
  <2> QED BY <1>2, <1>8, <2>1, <2>2, <2>3 DEF Usable, Renders
<1>10. form'.request \in {None} \cup {r.id : r \in requests'}
  BY <1>1, <1>8 DEF PageInv, PageTypes
<1>11. UNCHANGED <<server, url, metadata, dialog, blank>> /\ requests' \subseteq requests
  BY <1>1
<1>12. search' \in Terms /\ toast' \in BOOLEAN /\ timers' \in Nat /\ (toast' => timers' > 0)
  BY <1>1 DEF PageInv, PageTypes, treeVars
<1>13. form' = form \/ (form # NoForm /\ form' \in Forms /\ Usable(form', dialog, url))
  BY <1>2, <1>7, <1>9
<1> QED BY <1>10, <1>11, <1>12, <1>13, FormKeeps

\* A step of the form to another of its steps, which leaves its fields alone.
FormMoves ==
    /\ form' \in Forms
    /\ form'.opened = form.opened /\ form'.fields = form.fields /\ form'.step \in {"edit", "confirm"}

LEMMA ConfirmMoves ==
    ASSUME PageInv, GoToConfirm \/ GoToEdit
    PROVE  FormMoves /\ form.step # "none" /\ form'.request = form.request
<1>1. form.step \in {"edit", "confirm"}
  BY DEF GoToConfirm, GoToEdit, Editing
<1>2. form \in Forms
  BY DEF PageInv, PageTypes
<1>3. \A e \in {"none", "no changes"} :
         LET g == [form EXCEPT !.error = e] IN
         /\ g \in Forms /\ g.opened = form.opened /\ g.fields = form.fields /\ g.step = form.step
         /\ g.request = form.request
  BY <1>2 DEF Forms
<1>4. LET g == [form EXCEPT !.error = "none", !.step = "confirm"] IN
      /\ g \in Forms /\ g.opened = form.opened /\ g.fields = form.fields /\ g.step = "confirm"
      /\ g.request = form.request
  BY <1>2 DEF Forms
<1>5. LET g == [form EXCEPT !.step = "edit"] IN
      /\ g \in Forms /\ g.opened = form.opened /\ g.fields = form.fields /\ g.step = "edit"
      /\ g.request = form.request
  BY <1>2 DEF Forms
<1>6. CASE GoToConfirm
  BY <1>1, <1>3, <1>4, <1>6 DEF GoToConfirm, OnForm, FormMoves
<1>7. CASE GoToEdit
  BY <1>1, <1>5, <1>7 DEF GoToEdit, OnForm, FormMoves
<1> QED BY <1>1, <1>6, <1>7

LEMMA SubmitMoves ==
    ASSUME PageInv, Submit
    PROVE  /\ FormMoves /\ form.step = "confirm"
           /\ \E id \in 1..server.limit : form'.request = id /\ requests' = requests \cup {Payload(id)}
<1>1. form.step = "confirm" /\ form \in Forms /\ server \in Described
  BY DEF Submit, PageInv, PageTypes
<1>2. PICK id \in 1..server.limit : /\ requests' = requests \cup {Payload(id)}
                                     /\ form' = [form EXCEPT !.error = "none", !.request = id]
  BY DEF Submit, OnForm
<1>3. id \in Nat
  BY <1>1, ServerFacts
<1>4. LET g == [form EXCEPT !.error = "none", !.request = id] IN
      /\ g \in Forms /\ g.opened = form.opened /\ g.fields = form.fields /\ g.step = "confirm" /\ g.request = id
  BY <1>1, <1>3 DEF Forms
<1> QED BY <1>1, <1>2, <1>4 DEF FormMoves

LEMMA FailMoves ==
    ASSUME PageInv, NEW r \in requests, NEW outcome \in Outcomes(r) \ {"ok"}, Fail(r, outcome), requests' = requests \ {r}
    PROVE  /\ form' = form \/ (FormMoves /\ form.step # "none")
           /\ form'.request \in {None} \cup {s.id : s \in requests'}
<1>1. form \in Forms /\ form.request \in {None} \cup {s.id : s \in requests}
  BY DEF PageInv, PageTypes
<1>2. CASE form.request # r.id
  <2>1. form' = form
    BY <1>2 DEF Fail
  <2> QED BY <1>1, <1>2, <2>1
<1>3. CASE form.request = r.id
  <2>1. r.id \in Nat /\ r.id # None
    BY PageAssumption, ServerFacts DEF PageAssumption, PageInv, PageTypes
  <2>2. form # NoForm
    BY <1>3, <2>1, EmptyForm
  <2>3. form.step # "none"
    BY <2>2 DEF PageInv, FormInv, Usable
  <2>4. PICK step \in {"edit", "confirm"} :
           form' = [form EXCEPT !.request = None, !.error = outcome, !.step = step]
    BY <1>3 DEF Fail
  <2>5. outcome \in {"lost", "failed", "invalid", "conflict"}
    BY DEF Outcomes
  <2>6. LET g == [form EXCEPT !.request = None, !.error = outcome, !.step = step] IN
        /\ g \in Forms /\ g.opened = form.opened /\ g.fields = form.fields /\ g.step = step /\ g.request = None
    BY <1>1, <2>5 DEF Forms
  <2> QED BY <2>3, <2>4, <2>6 DEF FormMoves
<1> QED BY <1>2, <1>3

\* A request says of its row what the dialog knows, and of fields that were not touched only what it must.
LEMMA PayloadIsRequest ==
    ASSUME PageInv, form.step = "confirm", NEW id
    PROVE  IsRequest(Payload(id))
<1>1. /\ form \in Forms /\ Usable(form, dialog, url) /\ dialog \in Dialogs
      /\ dialog.kind \in Modals /\ url \in Objects /\ server \in Described
  BY OpenForm DEF PageInv, PageTypes
<1>2. PICK r : r = Payload(id)
  OBVIOUS
<1>3. /\ r.kind = dialog.kind /\ r.target = url /\ r.record = dialog.row
      /\ r.keys = IF dialog.kind = "create" THEN <<>> ELSE KeyValues(Table(url).keyColumns, dialog.row.cells)
      /\ r.token = IF dialog.kind = "create" \/ Table(url).rowVersionColumn = NoColumn THEN Null
                   ELSE OnTheWire(At(dialog.row.cells, Table(url).rowVersionColumn))
      /\ r.changes = IF dialog.kind = "delete" THEN <<>> ELSE Changed
      /\ r.touched = {c \in DOMAIN form.fields : form.fields[c].touched}
  BY <1>2 DEF Payload
<1>4. dialog.kind # "create" => dialog.row \in Records
  BY <1>1 DEF Dialogs, Modals
<1>5. ASSUME dialog.kind # "delete", NEW c \in DOMAIN Changed, c \notin r.touched
      PROVE  LET column == Columns(url)[c] IN
             \/ column.sensitivity = "Masked" /\ column.clrType # "String"
             \/ dialog.kind = "create" /\ column.clrType = "Boolean"
             \/ dialog.kind = "edit" /\ url # dialog.row.of
  <2> DEFINE column == Columns(url)[c]
  <2>1. /\ c \in EditableColumns(Columns(url), dialog.kind)
        /\ IF dialog.kind = "create" THEN Supplied(column, form.fields[c])
           ELSE ~ValuesEqual(At(dialog.row.cells, c), ReadValue(column, form.fields[c]))
    BY <1>5 DEF Changed, ComputeChangedFields
  <2>2. dialog.kind \in {"create", "edit"}
    BY <1>1, <1>5 DEF Modals
  <2>3. c \in DOMAIN form.fields
    BY <1>1, <2>1, <2>2 DEF Usable, Renders
  <2>4. ~form.fields[c].touched
    BY <1>3, <1>5, <2>3
  <2>5. form.fields[c] = BuildInitialState({c}, dialog.row.cells)[c]
    BY <1>1, <2>3, <2>4 DEF Usable, Faithful
  <2>6. CASE dialog.kind = "create"
    <3>1. dialog.row.cells = <<>>
      BY <1>1, <2>6 DEF Dialogs, NoRecord, NoRow
    <3>2. At(dialog.row.cells, c) = Undefined
      <4>1. c \notin DOMAIN <<>>
        OBVIOUS
      <4> QED BY <3>1, <4>1 DEF At
    <3>3. PICK state : state = form.fields[c]
      OBVIOUS
    <3>4. Starts(state, Undefined)
      BY <2>5, <3>2, <3>3, InitialField
    <3>5. state.value = ""
      BY <3>4 DEF Starts
    <3>6. ~state.isNull
      BY <3>4 DEF Starts, Undefined, Null
    <3>7. Supplied(column, state)
      BY <2>1, <2>6, <3>3
    <3>8. column.clrType = "Boolean"
      BY <3>5, <3>6, <3>7 DEF Supplied
    <3> QED BY <2>6, <3>8
  <2>7. ASSUME dialog.kind = "edit", url = dialog.row.of, ~(column.sensitivity = "Masked" /\ column.clrType # "String")
        PROVE  FALSE
    <3>1. dialog.row \in Records
      BY <1>4, <2>7
    <3>2. c \in DOMAIN Columns(url) /\ column.updatable
      BY <2>1, <2>7 DEF EditableColumns
    <3>3. IsTable(Table(url))
      BY <1>1, TableFacts
    <3>4. column \in Column /\ column.sensitivity # "Hidden"
      BY <3>2, <3>3 DEF IsTable, Columns
    <3>5. At(dialog.row.cells, c) = ReadCell(column, dialog.row.stored[c])
      BY <1>1, <2>7, <3>1, <3>2, <3>4, RecordFacts
    <3>6. dialog.row.stored \in Table(url).rows
      BY <1>1, <2>7, <3>1, RecordFacts
    <3>7. dialog.row.stored[c] \in {Null} \cup ValuesOf(column.clrType)
      BY <3>2, <3>3, <3>6 DEF IsTable, Columns
    <3> HIDE DEF column
    <3>8. ValuesEqual(At(dialog.row.cells, c), ReadValue(column, BuildInitialState({c}, dialog.row.cells)[c]))
      BY <2>7, <3>4, <3>5, <3>7, UntouchedIsEqual
    <3> QED BY <2>1, <2>5, <2>7, <3>8
  <2> QED BY <2>2, <2>6, <2>7
<1>6. IsRequest(r)
  BY <1>1, <1>3, <1>4, <1>5 DEF IsRequest
<1> QED BY <1>2, <1>6

LEMMA NavigateKeeps ==
    ASSUME PageInv, ~blank, NEW o \in Objects \cup {None}, Navigate(o)
    PROVE  PageInv'
<1>1. /\ UNCHANGED server /\ search' = search /\ url' = o /\ dialog' = dialog
      /\ toast' = toast /\ timers' = timers /\ requests' = requests
      /\ Render(dialog', form, url', metadata')
  BY DEF Navigate, treeVars
<1>2. metadata' \in [Objects -> {"absent", "asked", "here"}]
  BY DEF Navigate, PageInv, PageTypes
<1>3. search' \in Terms /\ dialog' \in Dialogs /\ toast' \in BOOLEAN /\ timers' \in Nat /\ (toast' => timers' > 0)
  BY <1>1 DEF PageInv, PageTypes
<1> QED BY <1>1, <1>2, <1>3, RenderKeeps

LEMMA MetadataKeeps ==
    ASSUME PageInv, NEW o \in Objects, MetadataArrives(o)
    PROVE  PageInv'
<1>1. /\ UNCHANGED server /\ search' = search /\ url' = url /\ dialog' = dialog
      /\ toast' = toast /\ timers' = timers /\ requests' = requests
      /\ metadata' = [metadata EXCEPT ![o] = "here"]
  BY DEF MetadataArrives, treeVars
<1>2. metadata' \in [Objects -> {"absent", "asked", "here"}]
  BY <1>1 DEF PageInv, PageTypes
<1>3. /\ search' \in Terms /\ dialog' \in Dialogs /\ toast' \in BOOLEAN /\ timers' \in Nat /\ (toast' => timers' > 0)
      /\ url' \in Objects \cup {None}
  BY <1>1 DEF PageInv, PageTypes
<1>4. CASE url = o /\ ~blank
  <2>1. Render(dialog', form, url', metadata')
    BY <1>1, <1>4 DEF MetadataArrives
  <2> QED BY <1>1, <1>2, <1>3, <1>4, <2>1, RenderKeeps
<1>5. CASE ~(url = o /\ ~blank)
  <2>1. form' = form /\ blank' = blank
    BY <1>5 DEF MetadataArrives
  <2>2. server' \in Described /\ dialog' \in Dialogs'
    BY <1>1, <1>3, ServerStays DEF PageInv, PageTypes
  <2>3. PageTypes'
    BY <1>1, <1>2, <2>1, <2>2 DEF PageInv, PageTypes, Forms, Fields
  <2>4. Known(url, metadata) => Known(url, metadata')
    BY <1>1 DEF Known, PageInv, PageTypes
  <2>5. FormInv'
    BY <1>1, <2>1, <2>4, ServerStays DEF PageInv, FormInv
  <2>6. RequestInv'
    BY <1>1, ServerStays DEF PageInv, RequestInv
  <2> QED BY <2>3, <2>5, <2>6 DEF PageInv
<1> QED BY <1>4, <1>5

LEMMA OpeningKeeps ==
    ASSUME PageInv, NEW d \in Dialogs, SetDialog(d), ~blank, UNCHANGED <<server, treeVars, url, metadata>>,
           toast' \in BOOLEAN, timers' \in Nat, toast' => timers' > 0,
           requests' \subseteq requests, requests' = requests \/ d.kind = "none"
    PROVE  PageInv'
<1>1. dialog' = d /\ Render(dialog', NoForm, url', metadata')
  BY DEF SetDialog
<1>2. search' \in Terms /\ url' \in Objects \cup {None} /\ metadata' \in [Objects -> {"absent", "asked", "here"}]
  BY DEF PageInv, PageTypes, treeVars
<1> QED BY <1>1, <1>2, RenderKeeps

LEMMA DialogsOpen ==
    ASSUME PageInv
    PROVE  /\ OpenCreate => \E d \in Dialogs : Opening(d)
           /\ OpenDetails => \E d \in Dialogs : Opening(d)
           /\ OpenEdit => \E d \in Dialogs : Opening(d)
           /\ OpenDelete => \E d \in Dialogs : Opening(d)
           /\ NoDialog \in Dialogs /\ NoDialog.kind = "none"
<1>1. [kind |-> "create", row |-> NoRecord] \in Dialogs
  BY DEF Dialogs
<1>2. \A stored : url \in Objects /\ stored \in Table(url).rows =>
                     [kind |-> "details", row |-> Record(url, stored)] \in Dialogs
  <2>1. \A stored : url \in Objects /\ stored \in Table(url).rows => Record(url, stored) \in Records
    BY DEF Records
  <2> QED BY <2>1 DEF Dialogs
<1>3. ASSUME dialog.kind = "details", NEW kind \in {"edit", "delete"}
      PROVE  [dialog EXCEPT !.kind = kind] \in Dialogs
  BY <1>3 DEF PageInv, PageTypes, Dialogs
<1>4. url # None => url \in Objects
  BY DEF PageInv, PageTypes
<1>5. OpenCreate => \E d \in Dialogs : Opening(d)
  BY <1>1 DEF OpenCreate
<1>6. OpenDetails => \E d \in Dialogs : Opening(d)
  BY <1>2, <1>4 DEF OpenDetails
<1>7. OpenEdit => \E d \in Dialogs : Opening(d)
  BY <1>3 DEF OpenEdit
<1>8. OpenDelete => \E d \in Dialogs : Opening(d)
  BY <1>3 DEF OpenDelete
<1>9. NoDialog \in Dialogs /\ NoDialog.kind = "none"
  BY DEF Dialogs, NoDialog
<1> QED BY <1>5, <1>6, <1>7, <1>8, <1>9

LEMMA MovesKeep ==
    ASSUME PageInv, FormMoves, form.step # "none", UNCHANGED <<server, treeVars, url, metadata, dialog, toast, timers, blank>>,
           form'.request \in {None} \cup {r.id : r \in requests'},
           \A r \in requests' : r \in requests \/ (r.id \in 1..server.limit /\ IsRequest(r))
    PROVE  PageInv'
<1>1. form # NoForm /\ Usable(form, dialog, url)
  BY OpenForm
<1>2. form' \in Forms /\ Usable(form', dialog, url)
  BY <1>1, StillUsable DEF FormMoves
<1>3. search' \in Terms /\ toast' \in BOOLEAN /\ timers' \in Nat /\ (toast' => timers' > 0)
  BY DEF PageInv, PageTypes, treeVars
<1> QED BY <1>1, <1>2, <1>3, FormKeeps

LEMMA AnswerKeeps ==
    ASSUME PageInv, NEW r \in requests, NEW outcome \in Outcomes(r), Answer(r, outcome)
    PROVE  PageInv'
<1>1. requests' = requests \ {r} /\ UNCHANGED <<server, treeVars, url, metadata>>
  BY DEF Answer
<1>2. CASE blank
  <2>1. UNCHANGED <<dialog, form, toast, timers, blank>>
    BY <1>2 DEF Answer
  <2>2. form.request = None
    BY <1>2, EmptyForm DEF PageInv, FormInv
  <2>3. search' \in Terms /\ toast' \in BOOLEAN /\ timers' \in Nat /\ (toast' => timers' > 0)
    BY <1>1, <2>1 DEF PageInv, PageTypes, treeVars
  <2>4. \A s \in requests' : s \in requests
    BY <1>1
  <2> QED BY <1>1, <2>1, <2>2, <2>3, <2>4, FormKeeps
<1>3. CASE ~blank /\ outcome = "ok"
  <2>1. SetDialog(NoDialog) /\ toast' = TRUE /\ timers' = timers + 1
    BY <1>3 DEF Answer, Succeed
  <2>2. toast' \in BOOLEAN /\ timers' \in Nat /\ (toast' => timers' > 0)
    BY <2>1 DEF PageInv, PageTypes
  <2> QED BY <1>1, <1>3, <2>1, <2>2, DialogsOpen, OpeningKeeps
<1>4. CASE ~blank /\ outcome # "ok"
  <2>1. Fail(r, outcome) /\ UNCHANGED <<dialog, toast, timers, blank>>
    BY <1>4 DEF Answer, Fail
  <2>2. /\ form' = form \/ (FormMoves /\ form.step # "none")
        /\ form'.request \in {None} \cup {s.id : s \in requests'}
    BY <1>1, <1>4, <2>1, FailMoves
  <2>3. \A s \in requests' : s \in requests
    BY <1>1
  <2>4. search' \in Terms /\ toast' \in BOOLEAN /\ timers' \in Nat /\ (toast' => timers' > 0)
    BY <1>1, <2>1 DEF PageInv, PageTypes, treeVars
  <2>5. CASE form' = form
    BY <1>1, <2>1, <2>2, <2>3, <2>4, <2>5, FormKeeps
  <2>6. CASE FormMoves /\ form.step # "none"
    BY <1>1, <2>1, <2>2, <2>3, <2>6, MovesKeep
  <2> QED BY <2>2, <2>5, <2>6
<1> QED BY <1>2, <1>3, <1>4

LEMMA PageStays == PageInv /\ [Next]_vars => PageInv'
<1> SUFFICES ASSUME PageInv, [Next]_vars PROVE PageInv'
  OBVIOUS
<1>1. CASE \E o \in Objects : SelectObject(o) \/ FollowLink(o)
  BY <1>1, NavigateKeeps DEF SelectObject, FollowLink
<1>2. CASE \E o \in Objects : MetadataArrives(o)
  BY <1>2, MetadataKeeps
<1>3. CASE \E o \in Objects \cup {None} : GoBack(o)
  BY <1>3, NavigateKeeps DEF GoBack
<1>4. CASE UseTree
  <2>1. UNCHANGED <<server, pageVars>>
    BY <1>4 DEF UseTree
  <2>2. search' \in Terms
    <3>1. search \in Terms /\ NoTerm \in Terms
      BY TreeAssumption DEF TreeAssumption, PageInv, PageTypes
    <3> QED BY <1>4, <3>1 DEF UseTree, SearchFor, ToggleNode, ToggleTree
  <2>3. toast' \in BOOLEAN /\ timers' \in Nat /\ (toast' => timers' > 0)
    BY <2>1 DEF pageVars, PageInv, PageTypes
  <2>4. form' = form /\ UNCHANGED <<server, url, metadata, dialog, blank>> /\ requests' = requests
    BY <2>1 DEF pageVars
  <2>5. form'.request \in {None} \cup {r.id : r \in requests'}
    BY <2>4 DEF PageInv, PageTypes
  <2> QED BY <2>2, <2>3, <2>4, <2>5, FormKeeps
<1>5. CASE OpenCreate \/ OpenDetails \/ OpenEdit \/ OpenDelete
  <2>1. PICK d \in Dialogs : Opening(d)
    BY <1>5, DialogsOpen
  <2>2. /\ SetDialog(d) /\ ~blank /\ UNCHANGED <<server, treeVars, url, metadata>>
        /\ toast' = toast /\ timers' = timers /\ requests' = requests
    BY <2>1 DEF Opening
  <2>3. toast' \in BOOLEAN /\ timers' \in Nat /\ (toast' => timers' > 0)
    BY <2>2 DEF PageInv, PageTypes
  <2> QED BY <2>2, <2>3, OpeningKeeps
<1>6. CASE CloseDialog
  <2>1. /\ SetDialog(NoDialog) /\ ~blank /\ UNCHANGED <<server, treeVars, url, metadata>>
        /\ toast' = toast /\ timers' = timers /\ requests' = requests
    BY <1>6 DEF CloseDialog
  <2>2. toast' \in BOOLEAN /\ timers' \in Nat /\ (toast' => timers' > 0)
    BY <2>1 DEF PageInv, PageTypes
  <2> QED BY <2>1, <2>2, DialogsOpen, OpeningKeeps
<1>7. CASE EditField
  BY <1>7, EditKeeps
<1>8. CASE GoToConfirm \/ GoToEdit
  <2>1. UNCHANGED <<server, treeVars, url, metadata, dialog, toast, timers, blank>> /\ requests' = requests
    BY <1>8 DEF GoToConfirm, GoToEdit, OnForm
  <2>2. FormMoves /\ form.step # "none" /\ form'.request = form.request
    BY <1>8, ConfirmMoves
  <2>3. form'.request \in {None} \cup {r.id : r \in requests'}
    BY <2>1, <2>2 DEF PageInv, PageTypes
  <2> QED BY <2>1, <2>2, <2>3, MovesKeep
<1>9. CASE Submit
  <2>1. UNCHANGED <<server, treeVars, url, metadata, dialog, toast, timers, blank>>
    BY <1>9 DEF Submit, OnForm
  <2>2. PICK id \in 1..server.limit : form'.request = id /\ requests' = requests \cup {Payload(id)}
    BY <1>9, SubmitMoves
  <2>3. FormMoves /\ form.step = "confirm"
    BY <1>9, SubmitMoves
  <2>4. Payload(id).id = id
    BY DEF Payload
  <2>5. IsRequest(Payload(id))
    BY <2>3, PayloadIsRequest
  <2>6. form'.request \in {None} \cup {r.id : r \in requests'}
    BY <2>2, <2>4
  <2>7. \A r \in requests' : r \in requests \/ (r.id \in 1..server.limit /\ IsRequest(r))
    BY <2>2, <2>4, <2>5
  <2> QED BY <2>1, <2>3, <2>6, <2>7, MovesKeep
<1>10. CASE AnswerSome
  BY <1>10, AnswerKeeps DEF AnswerSome
<1>11. CASE ToastTimer
  <2>1. /\ UNCHANGED <<server, url, metadata, dialog, blank>> /\ form' = form /\ requests' = requests
        /\ search' = search /\ toast' = FALSE /\ timers > 0 /\ timers' = timers - 1
    BY <1>11 DEF ToastTimer, treeVars
  <2>2. search' \in Terms /\ toast' \in BOOLEAN /\ timers' \in Nat /\ (toast' => timers' > 0)
    <3>1. timers \in Nat /\ search \in Terms
      BY DEF PageInv, PageTypes
    <3>2. timers' \in Nat
      BY <2>1, <3>1
    <3>3. ~toast' /\ toast' \in BOOLEAN
      BY <2>1
    <3> QED BY <2>1, <3>1, <3>2, <3>3
  <2>3. form'.request \in {None} \cup {r.id : r \in requests'}
    BY <2>1 DEF PageInv, PageTypes
  <2> QED BY <2>1, <2>2, <2>3, FormKeeps
<1>12. CASE UNCHANGED vars
  <2>1. /\ UNCHANGED <<server, url, metadata, dialog, blank>> /\ form' = form /\ requests' = requests
        /\ search' = search /\ toast' = toast /\ timers' = timers
    BY <1>12 DEF vars, pageVars, treeVars
  <2>2. search' \in Terms /\ toast' \in BOOLEAN /\ timers' \in Nat /\ (toast' => timers' > 0)
    BY <2>1 DEF PageInv, PageTypes
  <2>3. form'.request \in {None} \cup {r.id : r \in requests'}
    BY <2>1 DEF PageInv, PageTypes
  <2> QED BY <2>1, <2>2, <2>3, FormKeeps
<1> QED BY <1>1, <1>2, <1>3, <1>4, <1>5, <1>6, <1>7, <1>8, <1>9, <1>10, <1>11, <1>12 DEF Next

LEMMA PageAlways == Spec => []PageInv
BY PageInitially, PageStays, PTL DEF Spec

-----------------------------------------------------------------------------
\* What steps never do

\* Only rendering an open form for another object makes the page blank.
LEMMA BlankStep ==
    ASSUME PageInv, [Next]_vars, blank' # blank
    PROVE  url' # url /\ form.opened # url'
<1>1. CASE \E o \in Objects \cup {None} : ~blank /\ Navigate(o)
  <2>1. PICK o \in Objects \cup {None} : ~blank /\ o = url' /\ Render(dialog, form, o, metadata')
    BY <1>1 DEF Navigate
  <2>2. /\ server \in Described /\ dialog \in Dialogs /\ form \in Forms
        /\ form # NoForm => Usable(form, dialog, url)
    BY DEF PageInv, PageTypes, FormInv
  <2>3. form # NoForm /\ ~Renders(form, dialog.kind, o)
    BY <2>1, <2>2, Rendered
  <2>4. Usable(form, dialog, url)
    BY <2>2, <2>3
  <2>5. Renders(form, dialog.kind, url) /\ Renders(form, dialog.kind, form.opened)
    <3>1. dialog.kind \in {"create", "edit"} => dialog.kind # "delete"
      OBVIOUS
    <3> QED BY <2>4, <3>1 DEF Usable, Renders
  <2> QED BY <2>1, <2>3, <2>5
<1>2. ASSUME NEW d \in Dialogs, SetDialog(d)
      PROVE  FALSE
  <2>1. Render(d, NoForm, url, metadata)
    BY <1>2 DEF SetDialog
  <2>2. server \in Described /\ NoForm \in Forms /\ url \in Objects \cup {None}
    BY EmptyForm DEF PageInv, PageTypes
  <2> QED BY <2>1, <2>2, Rendered
<1>3. ASSUME NEW o \in Objects, MetadataArrives(o)
      PROVE  FALSE
  <2>1. url = o /\ Render(dialog, form, o, metadata') /\ metadata[o] = "asked"
    BY <1>3 DEF MetadataArrives
  <2>2. form = NoForm
    BY <2>1 DEF PageInv, FormInv, Known
  <2>3. server \in Described /\ dialog \in Dialogs /\ form \in Forms
    BY DEF PageInv, PageTypes
  <2> QED BY <2>1, <2>2, <2>3, Rendered
<1>4. CASE \E o \in Objects : SelectObject(o) \/ FollowLink(o)
  BY <1>1, <1>4 DEF SelectObject, FollowLink
<1>5. CASE \E o \in Objects \cup {None} : GoBack(o)
  BY <1>1, <1>5 DEF GoBack
<1>6. CASE OpenCreate \/ OpenDetails \/ OpenEdit \/ OpenDelete \/ CloseDialog
  BY <1>2, <1>6, DialogsOpen DEF Opening, CloseDialog
<1>7. CASE AnswerSome
  BY <1>2, <1>7, DialogsOpen DEF AnswerSome, Answer, Succeed, Fail
<1>8. CASE UseTree \/ EditField \/ GoToConfirm \/ GoToEdit \/ Submit \/ ToastTimer \/ UNCHANGED vars
  BY <1>8 DEF UseTree, pageVars, EditField, Edit, Update, GoToConfirm, GoToEdit, Submit, OnForm, ToastTimer, vars
<1> QED BY <1>3, <1>4, <1>5, <1>6, <1>7, <1>8 DEF Next

\* Input is lost with the form only, and the form by what the property names.
LEMMA InputStep ==
    ASSUME PageInv, [Next]_vars, HasInput(form), ~HasInput(form')
    PROVE  CloseDialog \/ url' # url \/ \E r \in requests \ requests' : Answer(r, "ok")
<1>1. form # NoForm
  BY DEF HasInput, NoForm
<1>2. form'.fields # form.fields
  BY DEF HasInput
<1>3. /\ form \in Forms /\ Usable(form, dialog, url) /\ Known(url, metadata) /\ ~blank /\ form.step # "none"
      /\ dialog.kind \in Modals
  BY <1>1 DEF PageInv, PageTypes, FormInv, Usable
<1>4. CASE \E o \in Objects : SelectObject(o) \/ FollowLink(o)
  BY <1>1, <1>4 DEF SelectObject, FollowLink, Covered
<1>5. CASE \E o \in Objects \cup {None} : GoBack(o)
  BY <1>5 DEF GoBack, Navigate
<1>6. ASSUME NEW o \in Objects, MetadataArrives(o)
      PROVE  FALSE
  <2>1. url # o
    BY <1>3, <1>6 DEF MetadataArrives, Known
  <2> QED BY <1>2, <1>6, <2>1 DEF MetadataArrives
<1>7. ASSUME OpenCreate \/ OpenDetails \/ OpenEdit \/ OpenDelete
      PROVE  FALSE
  BY <1>1, <1>7 DEF OpenCreate, OpenDetails, OpenEdit, OpenDelete, Opening, Covered
<1>8. ASSUME EditField
      PROVE  FALSE
  <2>1. PICK c, new : /\ c \in DOMAIN form.fields => new.touched = TRUE
                      /\ form' = [form EXCEPT !.fields[c] = new]
    BY <1>8, EditTouches
  <2>2. form'.fields = [form.fields EXCEPT ![c] = new]
    BY <1>3, <2>1 DEF Forms
  <2>3. DOMAIN form'.fields = DOMAIN form.fields
    BY <2>2
  <2>4. PICK x \in DOMAIN form.fields : form.fields[x].touched
    BY DEF HasInput
  <2>5. form'.fields[x] = IF x = c THEN new ELSE form.fields[x]
    BY <2>2, <2>4
  <2>6. form'.fields[x].touched
    BY <2>1, <2>4, <2>5
  <2> QED BY <2>3, <2>4, <2>6 DEF HasInput
<1>9. ASSUME GoToConfirm \/ GoToEdit \/ Submit
      PROVE  FALSE
  BY <1>2, <1>9, ConfirmMoves, SubmitMoves DEF FormMoves
<1>10. CASE AnswerSome
  <2>1. PICK r \in requests : \E outcome \in Outcomes(r) : Answer(r, outcome)
    BY <1>10 DEF AnswerSome
  <2>2. PICK outcome \in Outcomes(r) : Answer(r, outcome)
    BY <2>1
  <2>3. requests' = requests \ {r}
    BY <2>2 DEF Answer
  <2>4. ASSUME outcome # "ok"
        PROVE  FALSE
    <3>1. Fail(r, outcome)
      BY <1>3, <2>2, <2>4 DEF Answer
    <3> QED BY <1>2, <2>3, <2>4, <3>1, FailMoves DEF FormMoves
  <2> QED BY <2>1, <2>2, <2>3, <2>4
<1>11. CASE UseTree \/ ToastTimer \/ UNCHANGED vars
  BY <1>2, <1>11 DEF UseTree, pageVars, ToastTimer, vars
<1> QED BY <1>4, <1>5, <1>6, <1>7, <1>8, <1>9, <1>10, <1>11 DEF Next

-----------------------------------------------------------------------------
\* The theorems

\* Whatever the user, the server and the timers do, the page's state has its types, a form belongs to the dialog and the
\* object that are shown, and a busy form waits for a request that is under way.
THEOREM PageIsTyped == Spec => []TypeOK
<1>1. PageInv => TypeOK
  BY TypesAreRight DEF PageInv
<1> QED BY <1>1, PageAlways, PTL

\* The row that an update or delete changes is the row that its dialog was opened on, unless the page has moved to
\* another object under the dialog or the key was altered (RecordForm.tsx:96, DeleteDialog.tsx:27).
THEOREM ShownRowIsChanged == Spec => []ChangedUnlessMoved
<1>1. PageInv => ChangedUnlessMoved
  BY ShownIsChanged DEF PageInv
<1> QED BY <1>1, PageAlways, PTL

\* The key that the reader chose leads every update and delete back to its row, and to no other
\* (SqlMetadataReader.cs:273), save for filtered indexes and masked rowversions.
THEOREM KeysLeadBack == Spec => []KeyLeadsBack
<1>1. PageInv => KeyLeadsBack
  BY RequestsLeadBack DEF PageInv
<1> QED BY <1>1, PageAlways, PTL

\* An update leaves what the form can show as it is unless the user touches it (RecordForm.tsx:338), on any way through
\* shortened and masked texts, rounded numbers, nulls and empty inputs.
THEOREM ShownValuesAreKept == Spec => []ShownIsKept
<1>1. PageInv => ShownIsKept
  BY WrittenIsTouched DEF PageInv
<1> QED BY <1>1, PageAlways, PTL

\* A search shows exactly the readable objects that match, whatever nodes were closed before (ObjectTree.tsx:20).
THEOREM SearchShowsMatches == Spec => []SearchReveals
<1>1. PageInv => SearchReveals
  BY SearchIsOpen DEF PageInv, PageTypes
<1> QED BY <1>1, PageAlways, PTL

\* What was typed survives answers that are errors, metadata of other objects and toasts (RecordForm.tsx:107).
THEOREM InputIsKept == Spec => InputKept
<1>1. PageInv /\ [Next]_vars =>
         [HasInput(form) /\ ~HasInput(form') =>
             \/ CloseDialog
             \/ url' # url
             \/ \E r \in requests \ requests' : Answer(r, "ok")]_vars
  BY InputStep
<1> QED BY <1>1, PageAlways, PTL DEF Spec, InputKept

\* The page goes blank only when the URL moves under an open form to an object other than the form's own
\* (SqlDataManagerPage.tsx:76).
THEOREM OnlyMovingBlanks == Spec => BlankOnlyByMoving
<1>1. PageInv /\ [Next]_vars => [blank' # blank => url' # url /\ form.opened # url']_vars
  BY BlankStep
<1> QED BY <1>1, PageAlways, PTL DEF Spec, BlankOnlyByMoving

=============================================================================
