-------------------------- MODULE SqlDataManagerPage --------------------------
(***************************************************************************)
(* The page of one browser tab: tree, dialogs, record form, toast, and the *)
(* requests that dialogs send.  The open dialog and the row it was opened  *)
(* on are state of the page; the object comes from the URL.  The two can   *)
(* part: nothing closes a dialog when the URL changes.                     *)
(*                                                                         *)
(* The server answers from a fixed database, with every answer that a      *)
(* changing one could give; RecordMutation looks into that.                *)
(***************************************************************************)
EXTENDS RecordFields, AccessControl, KeySelection, ObjectTree

CONSTANTS None,
          Servers   \* databases with their configuration, and whether the host shows the tree

VARIABLES server,     \* never changes: options, showObjectTree, tables (per object what MetadataOf says),
                       \* and limit, the bound on the requests under way and the toast timers pending at once
          url,        \* the object of the route, or None
          metadata,   \* per object, the query for its metadata: absent, asked or here
          dialog,     \* DialogState: its kind and the row it was opened on
          form,       \* what the mounted RecordForm or DeleteDialog knows, messages at fields left out, or NoForm
          toast, timers,
          requests,   \* mutations under way
          blank       \* a render failed and React has unmounted the page

pageVars == <<url, metadata, dialog, form, toast, timers, requests, blank>>
vars == <<server, treeVars, pageVars>>

-----------------------------------------------------------------------------
\* The server, and what the page knows of it

\* A table or view as the metadata service sees it; behaviors are the configured sensitivities.
MetadataOf(t) ==
    LET read == ReadObject(t.schema, t.type, t.columns, t.indexes) IN
    [schema |-> t.schema, type |-> t.type, capability |-> read.capability,
     columns |-> [c \in DOMAIN t.columns |->
                    IF c \in DOMAIN t.behaviors THEN ApplySensitivity(read.columns[c], t.behaviors[c]) ELSE read.columns[c]],
     keyColumns |-> read.keyColumns, rowVersionColumn |-> read.rowVersionColumn, rows |-> t.rows,
     filtered |-> \A i \in t.indexes : i.columns = read.keyColumns => i.filtered]

Described == {[options |-> s.options, showObjectTree |-> s.showObjectTree, limit |-> s.limit,
               tables |-> [o \in Objects |-> MetadataOf(s.tables[o])]] : s \in Servers}

\* What SQL Server sees to: rows have the types of their columns, columns that are not nullable or in a primary key are not
\* null, an index that is not filtered is unique; and rowversions are eight bytes in base64, neither shortened nor the mask.
IsStored(t) ==
    /\ t.columns \in [DOMAIN t.columns -> SqlColumn]
    /\ IsFiniteSet(t.rows)
    /\ \A row \in t.rows :
          /\ row \in [DOMAIN row -> Values] /\ DOMAIN t.columns \subseteq DOMAIN row
          /\ \A c \in DOMAIN t.columns :
                /\ row[c] \in {Null} \cup ValuesOf(t.columns[c].clrType)
                /\ t.columns[c].rowVersion => row[c] \in {"string"} \X {v \in Texts \ {MaskToken} : Shorten[v] = v}
          /\ \A i \in t.indexes : /\ i.columns \subseteq DOMAIN row
                                  /\ i.primary \/ ~i.hasNullable => \A c \in i.columns : row[c] # Null
    /\ \A i \in t.indexes : i.filtered \/ Enforced(i, t.rows)

PageAssumption ==
    /\ None \notin Objects \cup Nat
    /\ \A s \in Servers : /\ s.options \in Options /\ s.limit \in Nat
                          /\ \A o \in Objects : /\ IsStored(s.tables[o])
                                                /\ \A c \in DOMAIN s.tables[o].behaviors :
                                                      s.tables[o].behaviors[c] \in {"Visible", "Masked", "Hidden", "ReadOnly"}
    /\ \A term \in Terms \ Blanks : Matches[term] \subseteq Objects

ASSUME PageAssumption

Table(o) == server.tables[o]

SubjectOf(o) == [schema |-> Table(o).schema, name |-> o, type |-> Table(o).type, capability |-> Table(o).capability]

Permissions(o) == ResolvePermissions(server.options, SubjectOf(o))

Columns(o) == Table(o).columns

\* Row: what the grid handed to a dialog, and where it came from.
NoRecord == [of |-> None, stored |-> NoRow, cells |-> NoRow]

Record(o, stored) == [of |-> o, stored |-> stored, cells |-> ReadRow(Columns(o), stored)]

Listed == GetVisibleObjects(server.options, {SubjectOf(o) : o \in Objects})

\* metadataQuery.data
Known(o, queries) == o # None /\ queries[o] = "here"

-----------------------------------------------------------------------------
\* Rendering

NoDialog == [kind |-> "none", row |-> NoRecord]

Modals == {"create", "edit", "delete"}

NoForm == [opened |-> None, fields |-> <<>>, step |-> "none", error |-> "none", request |-> None]

\* opened is history: the object whose metadata the form was built from.
Mount(kind, row, o) ==
    [NoForm EXCEPT !.opened = o, !.step = IF kind = "delete" THEN "confirm" ELSE "edit",
                   !.fields = IF kind = "delete" THEN <<>>
                              ELSE BuildInitialState(EditableColumns(Columns(o), kind), row.cells)]

\* A form that has no state for an editable column of its metadata throws when it is rendered.
Renders(f, kind, o) == kind \in {"create", "edit"} => EditableColumns(Columns(o), kind) \subseteq DOMAIN f.fields

\* The page renders dialog d, with old form f of the same kind if there is one, for object o.
Render(d, f, o, queries) ==
    IF d.kind \notin Modals \/ ~Known(o, queries) THEN form' = NoForm /\ UNCHANGED blank
    ELSE LET g == IF f = NoForm THEN Mount(d.kind, d.row, o) ELSE f IN
         IF Renders(g, d.kind, o) THEN form' = g /\ UNCHANGED blank
                                  ELSE form' = NoForm /\ blank' = TRUE

SetDialog(d) ==
    /\ dialog' = d
    /\ Render(d, NoForm, url, metadata)

\* The overlay of a modal covers tree and grid; the drawer covers nothing.
Covered == form # NoForm

-----------------------------------------------------------------------------
\* Moving between objects

\* navigate(routes.object(o)), or going to the root; a metadata query without data starts.
Navigate(o) ==
    /\ url' = o
    /\ metadata' = IF o # None /\ metadata[o] = "absent" THEN [metadata EXCEPT ![o] = "asked"] ELSE metadata
    /\ Render(dialog, form, o, metadata')
    /\ UNCHANGED <<server, treeVars, dialog, toast, timers, requests>>

SelectObject(o) ==
    /\ ~blank /\ ~Covered
    /\ server.showObjectTree /\ o \in Shown(Listed) \ {url}
    /\ Navigate(o)

\* A host that brings its own navigation links to every object that is listed.
FollowLink(o) ==
    /\ ~blank /\ ~Covered
    /\ ~server.showObjectTree /\ o # url /\ SubjectOf(o) \in Listed
    /\ Navigate(o)

\* Back and forward lead to the root or to an object that was visited before, whatever is open.
GoBack(o) ==
    /\ ~blank
    /\ o # url
    /\ o # None => metadata[o] # "absent"
    /\ Navigate(o)

MetadataArrives(o) ==
    /\ metadata[o] = "asked"
    /\ "read" \in Permissions(o)
    /\ metadata' = [metadata EXCEPT ![o] = "here"]
    /\ IF (url = o /\ ~blank) THEN Render(dialog, form, o, metadata') ELSE UNCHANGED <<form, blank>>
    /\ UNCHANGED <<server, treeVars, url, dialog, toast, timers, requests>>

UseTree ==
    /\ ~blank /\ ~Covered /\ server.showObjectTree
    /\ \/ \E term \in Terms : SearchFor(Listed, term)
       \/ \E node \in {NodeOf(s) : s \in Listed} : ToggleNode(Listed, node)
       \/ ToggleTree
    /\ UNCHANGED <<server, pageVars>>

-----------------------------------------------------------------------------
\* Opening and closing dialogs

Opening(d) ==
    /\ ~blank /\ Known(url, metadata) /\ ~Covered
    /\ SetDialog(d)
    /\ UNCHANGED <<server, treeVars, url, metadata, toast, timers, requests>>

OpenCreate ==
    /\ url # None
    /\ SubjectOf(url) \in Listed /\ "create" \in Permissions(url)
    /\ Opening([kind |-> "create", row |-> NoRecord])

OpenDetails ==
    /\ url # None
    /\ SubjectOf(url) \in Listed
    /\ \E stored \in Table(url).rows : Opening([kind |-> "details", row |-> Record(url, stored)])

OpenEdit ==
    /\ url # None
    /\ dialog.kind = "details"
    /\ "update" \in Permissions(url)
    /\ Opening([dialog EXCEPT !.kind = "edit"])

OpenDelete ==
    /\ url # None
    /\ dialog.kind = "details"
    /\ "delete" \in Permissions(url)
    /\ Opening([dialog EXCEPT !.kind = "delete"])

\* Cancel, Escape, the overlay and the cross, the latter three also while a request is under way.
CloseDialog ==
    /\ ~blank
    /\ form # NoForm \/ (dialog.kind = "details" /\ Known(url, metadata))
    /\ SetDialog(NoDialog)
    /\ UNCHANGED <<server, treeVars, url, metadata, toast, timers, requests>>

-----------------------------------------------------------------------------
\* The form

OnForm(f) ==
    /\ form' = f
    /\ UNCHANGED <<server, treeVars, url, metadata, dialog, toast, timers, blank>>

Editing == form.step = "edit"

Busy == form.request # None

Update(c, state) ==
    OnForm([form EXCEPT !.fields[c] = [state EXCEPT !.touched = TRUE]])

\* A field that is null has its input disabled.
Edit(c) ==
    LET column == Columns(url)[c]  state == form.fields[c] IN
    /\ UNCHANGED requests
    /\ \/ column.clrType = "Boolean" /\ ~state.isNull /\ Update(c, [state EXCEPT !.checked = ~@])
       \/ /\ column.clrType # "Boolean" /\ ~state.isNull
          /\ \E text \in Typeable(column) \ {state.value} : Update(c, [state EXCEPT !.value = text])
       \/ column.nullable /\ Update(c, [state EXCEPT !.isNull = ~@])

EditField == Editing /\ \E c \in EditableColumns(Columns(url), dialog.kind) : Edit(c)

Changed == ComputeChangedFields(Columns(url), form.fields, dialog.kind, dialog.row.cells)

GoToConfirm ==
    /\ Editing
    /\ OnForm(IF Validate(Columns(url), form.fields, dialog.kind) # {} THEN [form EXCEPT !.error = "none"]
              ELSE IF dialog.kind = "edit" /\ Changed = <<>> THEN [form EXCEPT !.error = "no changes"]
              ELSE [form EXCEPT !.error = "none", !.step = "confirm"])
    /\ UNCHANGED requests

GoToEdit ==
    /\ form.step = "confirm" /\ dialog.kind # "delete" /\ ~Busy
    /\ OnForm([form EXCEPT !.step = "edit"])
    /\ UNCHANGED requests

\* What a confirmed dialog asks for; the object is the page's, the row the dialog's.
Payload(id) ==
    [id      |-> id,
     kind    |-> dialog.kind,
     target  |-> url,
     record  |-> dialog.row,
     keys    |-> IF dialog.kind = "create" THEN <<>> ELSE KeyValues(Table(url).keyColumns, dialog.row.cells),
     token   |-> IF dialog.kind = "create" \/ Table(url).rowVersionColumn = NoColumn THEN Null
                 ELSE OnTheWire(At(dialog.row.cells, Table(url).rowVersionColumn)),
     changes |-> IF dialog.kind = "delete" THEN <<>> ELSE Changed,
     touched |-> {c \in DOMAIN form.fields : form.fields[c].touched}]

\* Confirm, Delete permanently.
Submit ==
    /\ form.step = "confirm" /\ ~Busy
    /\ LET unused == (1..server.limit) \ {r.id : r \in requests}  id == CHOOSE id \in unused : TRUE IN
          /\ unused # {}
          /\ requests' = requests \cup {Payload(id)}
          /\ OnForm([form EXCEPT !.error = "none", !.request = id])

-----------------------------------------------------------------------------
\* Answers

Needed(kind) == CASE kind = "create" -> "create" [] kind = "edit" -> "update" [] kind = "delete" -> "delete"

Valid(r) ==
    CASE r.kind = "create" -> ValidateCreate(Columns(r.target), r.changes)
      [] r.kind = "edit" -> ValidateUpdate(Columns(r.target), r.changes)
      [] r.kind = "delete" -> TRUE

\* The stored rows that the statement of an update or delete would find.
Found(r) ==
    LET t == Table(r.target)  key == PrepareKey(t.columns, t.keyColumns, r.keys) IN
    {stored \in t.rows : /\ \A c \in t.keyColumns : stored[c] = key[c]
                         /\ r.token # Null => stored[t.rowVersionColumn] = r.token}

Permitted(r) ==
    /\ {"read", Needed(r.kind)} \subseteq Permissions(r.target)
    /\ r.kind # "create" => KeyAccepted(Columns(r.target), Table(r.target).keyColumns, r.keys)

MutantSeveral(r) == Found(r) # {}

\* Neither no row nor several rows.
TargetsOne(r) == Cardinality(Found(r)) = 1

\* A token that is not base64: the server throws before it looks for the row.
Masked(token) == token = <<"string", MaskToken>>

\* The answers that a request may get.  As others change rows, a row may always be gone or newer.
Outcomes(r) ==
    {"lost", "failed"}
    \cup (IF Permitted(r) /\ ~Valid(r) THEN {"invalid"} ELSE {})
    \cup (IF Permitted(r) /\ Valid(r) /\ r.token # Null /\ ~Masked(r.token) THEN {"conflict"} ELSE {})
    \cup (IF Permitted(r) /\ Valid(r) /\ (r.kind = "create" \/ TargetsOne(r)) THEN {"ok"} ELSE {})

\* onCompleted and onClose: whatever is open by now is closed.
Succeed ==
    /\ timers < server.limit
    /\ toast' = TRUE
    /\ timers' = timers + 1
    /\ SetDialog(NoDialog)

MutantStaysBusy(r, outcome) ==
    /\ form' = IF form.request = r.id THEN [form EXCEPT !.error = outcome, !.step = "edit"] ELSE form
    /\ UNCHANGED <<dialog, toast, timers, blank>>

MutantFailureResets(r, outcome) ==
    /\ form' = IF form.request # r.id THEN form ELSE [Mount(dialog.kind, dialog.row, url) EXCEPT !.error = outcome]
    /\ UNCHANGED <<dialog, toast, timers, blank>>

\* The catch block, which reaches the form that sent the request if it is still mounted.
Fail(r, outcome) ==
    /\ form' = IF form.request # r.id THEN form
               ELSE [form EXCEPT !.request = None, !.error = outcome,
                                 !.step = IF r.kind = "delete" THEN "confirm" ELSE "edit"]
    /\ UNCHANGED <<dialog, toast, timers, blank>>

Answer(r, outcome) ==
    /\ outcome \in Outcomes(r)
    /\ requests' = requests \ {r}
    /\ IF blank THEN UNCHANGED <<dialog, form, toast, timers, blank>>
       ELSE IF outcome = "ok" THEN Succeed ELSE Fail(r, outcome)
    /\ UNCHANGED <<server, treeVars, url, metadata>>

AnswerSome == \E r \in requests : \E outcome \in Outcomes(r) : Answer(r, outcome)

\* Each toast has a timer that clears whatever toast is shown when it fires.
ToastTimer ==
    /\ timers > 0
    /\ timers' = timers - 1
    /\ toast' = FALSE
    /\ UNCHANGED <<server, treeVars, url, metadata, dialog, form, requests, blank>>

-----------------------------------------------------------------------------

Init ==
    /\ server \in Described
    /\ url \in Objects \cup {None}
    /\ metadata = [o \in Objects |-> IF o = url THEN "asked" ELSE "absent"]
    /\ dialog = NoDialog /\ form = NoForm
    /\ toast = FALSE /\ timers = 0
    /\ requests = {}
    /\ blank = FALSE
    /\ TreeInit

Next ==
    \/ \E o \in Objects : SelectObject(o) \/ FollowLink(o) \/ MetadataArrives(o)
    \/ \E o \in Objects \cup {None} : GoBack(o)
    \/ UseTree
    \/ OpenCreate \/ OpenDetails \/ OpenEdit \/ OpenDelete \/ CloseDialog
    \/ EditField \/ GoToConfirm \/ GoToEdit \/ Submit
    \/ AnswerSome
    \/ ToastTimer

Spec == Init /\ [][Next]_vars

-----------------------------------------------------------------------------
\* Properties

\* Variables hold what the code can put into them; a busy form has its request under way.
TypeOK ==
    /\ server.options \in Options
    /\ url \in Objects \cup {None}
    /\ metadata \in [Objects -> {"absent", "asked", "here"}]
    /\ dialog.kind \in Modals \cup {"none", "details"}
    /\ dialog.row.of \in Objects \cup {None}
    /\ \A c \in DOMAIN form.fields : form.fields[c] \in FieldState
    /\ form.step \in {"none", "edit", "confirm"}
    /\ form.request \in {None} \cup {r.id : r \in requests}
    /\ form # NoForm => dialog.kind \in Modals /\ Known(url, metadata) /\ ~blank
    /\ {r.id : r \in requests} \subseteq 1..server.limit
    /\ toast => timers > 0

\* Requests that the server may serve: what it would write is what they say.
Served(kinds) == {r \in requests : r.kind \in kinds /\ "ok" \in Outcomes(r)}

\* README.md:165 says that an update or delete always targets exactly one row, and DeleteDialog.tsx:17 that the dialog
\* shows the schema, table and unique key of the row: so the row that is changed is the row the dialog was opened on.
ChangedIsShown ==
    \A r \in Served({"edit", "delete"}) : r.target = r.record.of /\ Found(r) = {r.record.stored}

\* A key that JSON.parse or the shortening of long texts has altered.
AlteredKey(r) == \E c \in DOMAIN r.keys : r.keys[c] # At(r.record.stored, c)

\* What holds of it: an update or delete (RecordForm.tsx:96, DeleteDialog.tsx:27) changes another row than the one
\* it was confirmed for only if the page has moved to another object under the dialog, or if the
\* key is one that does not survive the way to the browser.
ChangedUnlessMoved ==
    \A r \in Served({"edit", "delete"}) :
        \/ r.target # r.record.of
        \/ AlteredKey(r)
        \/ Found(r) = {r.record.stored}

\* A row is found again by the key that the reader chose (SqlMetadataReader.cs:273), and no other row with it, as long as
\* it is as it was shown. Excepted are keys that are altered, those of filtered indexes, which
\* the reader takes for keys although they do not tell all rows apart, and rows whose rowversion is masked, which makes
\* the mask their token (MutationServices.cs:46).
KeyLeadsBack ==
    \A r \in requests :
        /\ r.kind \in {"edit", "delete"} /\ Needed(r.kind) \in Permissions(r.target)
        /\ r.target = r.record.of /\ ~AlteredKey(r)
        => /\ KeyAccepted(Columns(r.target), Table(r.target).keyColumns, r.keys)
           /\ Table(r.target).filtered \/ Masked(r.token) \/ Found(r) = {r.record.stored}

\* A field that the form can show: the mask is a text, which an input for numbers or a checkbox cannot hold.
Showable(column) == column.sensitivity # "Masked" \/ column.clrType = "String"

\* An update leaves what the form can show as it is unless the user touches it (RecordForm.tsx:338): a text that is shortened
\* or masked, a number that JSON.parse rounds, a null, an empty text never come back in place of the value.
ShownIsKept ==
    \A r \in Served({"edit"}) :
        r.target = r.record.of => {c \in DOMAIN r.changes : Showable(Columns(r.target)[c])} \subseteq r.touched

\* "For create, all supplied; for edit, changed only" (RecordForm.tsx:319), and "only send fields the user actually supplied so
\* DB defaults apply" (RecordForm.tsx:332): no field is sent that the user has not touched.
OnlyTouchedIsSent ==
    \A r \in Served({"create", "edit"}) :
        r.kind = "create" \/ r.target = r.record.of => DOMAIN r.changes \subseteq r.touched

Denied(o) ==
    \/ ~server.options.enabled
    \/ Table(o).schema \in server.options.deniedSchemas
    \/ o \in server.options.deniedObjects

\* Deny beats allow, whatever else is configured and wherever the page goes: a denied object is not listed, its metadata
\* never arrives and nothing in it is changed; and no operation happens that a switch forbids
\* or the object does not support.
DenyWins ==
    /\ \A o \in Objects : Denied(o) => SubjectOf(o) \notin Listed /\ metadata[o] # "here"
    /\ \A r \in Served(Modals) : /\ ~Denied(r.target)
                                /\ Needed(r.kind) \in server.options.crud \cap Table(r.target).capability

\* While something is searched the tree shows what matches of the readable objects, and nothing else,
\* however nodes were closed before (ObjectTree.tsx:20).
SearchReveals ==
    treeOpen /\ search \notin Blanks =>
        Shown(Listed) = {o \in Matches[search] : "read" \in Permissions(o)}

HasInput(f) == \E c \in DOMAIN f.fields : f.fields[c].touched

\* What was typed is lost only if the user closes the form, its own request succeeds, the page moves to another
\* object, or a request that was left behind by a dialog closed earlier succeeds: never by an answer that
\* is an error, by other objects' metadata or by a toast.
InputKept ==
    [][HasInput(form) /\ ~HasInput(form') =>
          \/ CloseDialog
          \/ url' # url
          \/ \E r \in requests \ requests' : Answer(r, "ok")]_vars

\* The page goes blank only if the URL moves under an open form to an object that has other columns.
BlankOnlyByMoving == [][blank' # blank => url' # url /\ form.opened # url']_vars

=============================================================================
