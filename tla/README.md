# Formal models of SQL Data Manager

SQL Data Manager is an ASP.NET Core module with a React client that lets users browse, create,
update and delete the rows of any table of a SQL Server database. This directory holds TLA+ models of
the parts of it where order, concurrency and failure matter, the TLC runs that check them on small
instances, and theorems about them that TLAPS proves for every instance.

Paths below are relative to `src/SqlDataManager/src/` (server, C#; the prefix `SqlDataManager.` of its
projects is left out) and, marked *client*, to
`src/SqlDataManager/client/sql-data-manager-client/src/features/sql-data-manager/` (TypeScript).

| Read this | for |
|---|---|
| `MetadataCatalog.tla`, `MetadataCatalog_proofs.tla` | the metadata cache shared by all requests |
| `OptimisticTable.tla` | what creating, updating and deleting records promises |
| `RecordMutation.tla`, `RecordMutation_proofs.tla` | how dialogs, services and transactions keep that promise |
| `SettingsStore.tla`, `SettingsStore_proofs.tla` | the settings file of a user, call by call on the file system |
| `LayoutSync.tla`, `LayoutSync_proofs.tla` | the grid layouts of a browser tab, on their way to that file |
| `SqlDataManagerPage.tla`, `SqlDataManagerPage_proofs.tla` | the page of a browser tab: tree, dialogs, form, requests; it is put together from the next four |
| `RecordFields.tla` | values on their way from the database through the form and back |
| `AccessControl.tla` | which operations are permitted on which object |
| `KeySelection.tla`, `KeySelection_proofs.tla` | which key addresses the rows of a table, and what can be written |
| `ObjectTree.tla` | the tree beside the grid |
| `QueryView.tla` | what a table loaded in the background promises |
| `GridView.tla`, `GridView_proofs.tla` | the grid of one object: how it keeps that promise |
| `GridQueries.tla`, `GridQueries_proofs.tla` | filters, sorts, pages and offsets, in browser and server |
| `MC*.tla`, `MC*.cfg` | the instances that TLC checks |
| `PROJECT.json` | components, runs, mutants, the source lines of each definition, hazards, findings, theorems |

To repeat a run: `tlc -workers 2 -config MCRecordMutation.cfg MCRecordMutation`. To repeat the
proofs: `tlapm MetadataCatalog_proofs.tla`.

## 1. Inventory

### The components

**Metadata catalog cache** (`Infrastructure/Metadata/CachedMetadataCatalog.cs`). A singleton. State:
`_cache` (list of objects, or null), `_loadedAt`, and `_gate`, a `SemaphoreSlim(1, 1)`. Operations:
`GetAllObjectsAsync` (check without the gate, wait for the gate, check again, reload),
`GetObjectAsync` (a search in the former's result), `Invalidate` (two writes, no lock). Every other
server component calls it. *Hard:* fields read and written without a lock; requests queue,
are cancelled and fail; a refresh at any moment. *Correct when* one request reloads at a time and only
if need be, nobody gets an expired catalogue or one that a completed refresh dropped, no permit is
lost, every call returns.

**System catalog reader** (`Infrastructure/Metadata/SqlMetadataReader.cs`). No state. Reads objects,
columns and keys by three queries in no transaction, and picks a stable key per object. *Hard:* DDL
between the queries; which key is stable. *Correct when* an object that is called updatable has a key
that identifies its rows.

**Record mutation services and repository** (`Application/Services/MutationServices.cs`,
`Infrastructure/Repositories/MutationRepository.cs`, `Infrastructure/Sql/SqlErrorTranslator.cs`). State: the
rows of the database, one transaction per request, audit events. Operations: create, update, delete;
each is validated, run in a transaction, judged by the number of rows affected, committed or
rolled back, and audited. *Hard:* two requests for one row, retries after a lost answer,
commits that the server does not hear of, crashes, a key that is not unique. *Correct when* a change is
atomic, on one row, on the version the user saw, and answers and audit events tell the truth.

**Record dialogs** (*client* `forms/RecordForm.tsx`, `dialogs/DeleteDialog.tsx`,
`components/SqlDataManagerPage.tsx`). State: which dialog is open, on which row, with which token, the request it
awaits, the values typed. *Hard:* the row is as old as the grid; closing a dialog does not stop its
request; an answer acts on whatever dialog is open by then; the object comes from the URL and the row from the
dialog, and either can change without the other. *Correct when* a retry cannot repeat a
change, nothing that was typed is lost, nothing is sent to another record, and nothing is written that the user has not touched.

**JSON settings store** (`Infrastructure/Settings/JsonFileSettingsStore.cs`). State: per user a live
file, a `.tmp` file, a `.bak` file. Operations: get, save (write, verify, swap), reset, reset
of one object. *Hard:* no lock; overlapping requests share the `.tmp` file; crashes, failing
writes and aborts between any two calls. *Correct when* the live file is always whole and holds the last
change that succeeded.

**Layout synchronisation** (*client* `hooks/useObjectLayout.ts`, `grid/DataGrid.tsx`). State: the
query cache, one debounce timer per grid, the requests under way. Every save sends the
layouts of all objects. *Hard:* timers that outlive their grid, answers out of order, a
load that fails. *Correct when* a stored layout is not lost and not filed under another object.

**Access control and metadata service** (`Application/Services/ObjectAccessService.cs`,
`MetadataService.cs`, `Application/Configuration/SqlDataManagerOptions.cs`). Pure: configuration and metadata to permissions and sensitivity.
*Hard:* four lists, an entry per object, a default per type, switches, the structure and policies apply at once, and
the browser holds what it was told earlier. *Correct when* a deny rule wins and a denied object is never readable or writable.

**Row queries** (`Application/Services/RowQueryService.cs`,
`Infrastructure/Repositories/RowRepository.cs`, `Infrastructure/Sql/SqlQueryBuilder.cs`). Rows and
total of a page by two queries in no transaction. *Hard:* rows move between pages; 32-bit arithmetic in the
offset. *Correct when* a table at rest is enumerated exactly once.

**Grid paging and filters** (*client* `grid/DataGrid.tsx`, `grid/Pagination.tsx`, `grid/GridToolbar.tsx`,
`hooks/useDebounce.ts`, `hooks/queries.ts`). State: page, page size, sort, filters and search, the two
debounced copies, one cache entry per query that was ever on screen. *Hard:* answers come late and out of order, for
queries that have been left; a mutation invalidates entries while they load; pages are clicked on what an older answer
said; the stored layout arrives after the first clicks. *Correct when* the grid comes to rest on the page that it says, with rows
that include the user's own changes, and not on an empty page.

**Key and value preparation** (`Application/Utilities/KeyPreparer.cs`, `SqlValueConverter.cs`,
`Application/Services/RecordValidator.cs`). Values travel from row to form
to parameter. *Hard:* masks, shortened texts, numbers that no double represents, null, undefined and NaN.
*Correct when* an unchanged field stays unchanged and a key leads back to its row.

**Navigation** (*client* `components/ObjectTree.tsx`, `components/NavigationRail.tsx`, `utilities/routing.ts`). State: the search text,
which nodes are closed, the URL. *Correct when* a search shows every match.

**SQL text generation, connections and health, HTTP endpoints and middleware, contracts and
mapping, module information and defaults, theme and formatting**: no state that
outlives a call; see section 7.

### How they interact

    browser tab                      server process                        SQL Server / disk
    -----------                      --------------                        -----------------
    RecordForm, DeleteDialog --HTTP--> MutationServices --> MutationRepository --> rows, locks
                                          |   \--> audit writer (of the host)
                                          v
    DataGrid --HTTP--> RowRepository --> CachedMetadataCatalog --> SqlMetadataReader --> sys.*
                                          ^
    "refresh metadata" --HTTP------------/ Invalidate
    useObjectLayout --HTTP--> UserSettingsService --> JsonFileSettingsStore ------> <user>.json

Requests share three things: the cached catalogue, the rows, and the settings file. Each has a model
in which requests interleave at every access to what they share. Within a tab, the page, the grid, the timers and the
answers share the page's state and the query cache; they are modelled in `SqlDataManagerPage`, `GridView` and
`LayoutSync`, in which every render, click, timer and answer is a step.

| Module | is composed of |
|---|---|
| `SqlDataManagerPage` | `RecordFields` (values), `AccessControl` (permissions), `KeySelection` (keys), `ObjectTree` (the tree's state and actions) |
| `GridView` | `GridQueries` (what is asked and answered); implements `QueryView` |
| `RecordMutation` | implements `OptimisticTable` |

The hazards, each at its line with the properties that would catch it or the reason none does yet,
are in `PROJECT.json`.

## 2. The models

`PROJECT.json` "map" gives the source lines of every definition. Definitions called `Mutant...` are not
part of the models: each is a plausible bug, and replaces the definition below it to show that a property
would notice.

### MetadataCatalog

Requests are `Callers`, `POST /metadata/refresh` calls are `Refreshers`. `pc[c]` walks through
`GetAllObjectsAsync`; every access to `_cache` or `_loadedAt` is one step, since both are plain fields.

| Code | Model |
|---|---|
| `IsFresh` before the gate, `return _cache` | `CheckWithoutGate`: `look1`, `clock1`, `judge1`, `take1` |
| `_gate.WaitAsync(ct)` | `EnterGate`, `CancelEntry` |
| second `IsFresh` and return | `CheckInsideGate` |
| `ReadAllAsync`: three queries | `RunQuery` three times, `QueryFails` |
| `_cache = ...; _loadedAt = ...; return _cache` | `StoreCache`, `StampCache`, `TakeLoaded` |
| `finally { _gate.Release(); }` | `Release` |
| `Invalidate` | `ClearCache`, `ClearLoadedAt` |

A catalogue is the version of the schema that each query saw, with two history fields: how many refreshes
had cleared the cache when the first query ran and when the result was stored. The semaphore, outside `src/`, is
a permit count and a FIFO queue; `Release` hands the permit to the oldest waiter. History variables
(`stamp`, `cleared`, `ticket`, `refreshed`, `served`, `began`) are read by no guard.

Assumed: the clock does not go backwards (`TimeProvider`), and fields are written in program order
(x64; the .NET memory model orders the writes to a reference field). `_loadedAt` is a two-word struct and
may be torn, but its second word, the offset from UTC, is always 0, so a tear is harmless. The TTL is not
validated by the code; a negative one means "never fresh" and is left out.

### OptimisticTable and RecordMutation

`OptimisticTable` is the promise: a request takes effect in one step or not at all, on one row, and an update
or delete only on a row that still has the key and the rowversion the request was made for.

`RecordMutation` is the code. A user has the page open; `page[u]` is the open dialog, the key and the token
of its row, and the request whose answer the dialog waits for.

| Code | Model |
|---|---|
| clicking a row, Edit, Delete, New | `OpenRecord`, `ReopenRecord`, `OpenCreate` |
| Cancel, Escape | `CloseDialog` |
| the submit button, disabled while its mutation is pending | `Submit` |
| `onSuccess` / `onError` | `Receive` |
| a broken connection, a proxy's timeout | `LoseAnswer` |
| authorisation, metadata, key and value validation | `Refuse` |
| `BeginTransactionAsync` | `Begin` |
| `ExecuteNonQueryAsync` / the INSERT | `Execute`, `Duplicate` (errors 2627, 2601) |
| `affected == 0`, `affected > 1` | `NothingAffected`, `TooManyAffected` |
| `CommitAsync` | `Commit`, `CommitUnheard` (took effect, but threw) |
| other `SqlException`s, timeout, deadlock victim, abort | `SqlFails` |
| the audit event | `Audit`, `AuditFails` |
| the process ends | `Crash` |

The database is external: READ COMMITTED, exclusive row locks until the end of the transaction, a changed row
invisible before commit, a new rowversion with every write. `Blocked` is the wait for a lock; a deadlock is
broken by SQL Server, which is `SqlFails`. A rowversion is named by its writer, so it never recurs. Whether the
table has a rowversion and a unique index is chosen in `Init`, as the code serves any table (`IX_` filtered or
disabled indexes make keys that are not unique). Values other than key and token do not matter to the
properties and are left out.

One page suffices for races on the server: a dialog that is closed leaves its request running, so one user can have
all requests in flight at once.
`ReopenRecord` (the same, now old, row of a grid that has not been reloaded) is possible only with a token,
because without one an old row and a new one send the same request.

### SettingsStore

The three names `live`, `tmp` and `bak` refer to files; a file has a content and stays while somebody has it
open. Every call of `System.IO` is a step, and `File.Replace` is three: unlink the backup, link the live file to the
backup's name, rename `.tmp` to the live name. That is what .NET does on Linux, where `docker/Dockerfile` runs the
server; on Windows one call replaces, so fewer interleavings exist. `FileShare.None` and `FileShare.Read` are
advisory locks among requests of this process (`BeingWritten`, `BeingRead`) and do not prevent renames.

`Look`, `Open`, `Read` are `GetAsync`; `Create`, `Write`, `Reopen`, `Verify`, `Swap`, ..., `Cleanup` are
`SaveAsync`; `Delete` is `ResetAsync`; `ResetObjectAsync` reads and then saves. Between any two steps a request
of another kind may act, a write may fail, the request be aborted or the process crash. A file that is half written
holds `Partial`, which parses as "no settings". Settings are the set of objects that have a layout.

The history variable `overlapped` records whether two changes ever ran at once; `expected` is the set of
settings that the changes answered so far may have left (a change that a crash cut short may or may not have been
made); `seen` is what was current during each read.

### LayoutSync

One tab. A layout is the set of choices that made it, so a lost choice is a missing element. `Select` mounts a grid
(`key={fullName}`), `Choose` is a change of the layout: grid, cache and timer at once. `Fire` is the
debounced PUT; `StorePut`, `Acknowledge`, `GiveUp`, `LoseTouch` are its fates. `Fetch`, `ServeGet`, `Loaded`,
`FetchFails` are the GET. `Reload` is the browser's. `overlapped` records whether the user ever acted, or
something else began, before what was under way had ended.

TanStack Query is external and modelled as used: `setQueryData` on success, no cancellation of a GET by a PUT, a
stale query refetches after 30 s (`staleTime`), so `Fetch` happens only when no 600 ms timer is pending. Timers
fire in the order they were set, as all have the same delay. A change of the cache is rendered at once. On the server a
save is one step here, because `SettingsStore` looks into it.

### SqlDataManagerPage

One tab and a server that answers from a fixed database. `url` is the object of the route, `metadata` the state of the
metadata query per object, `dialog` is `DialogState` (kind and row), `form` what the mounted `RecordForm` or `DeleteDialog` knows.

| Code | Model |
|---|---|
| clicks in the tree, links of a host, back and forward | `SelectObject`, `FollowLink`, `GoBack`, all `Navigate` |
| the answer to `GET .../metadata` | `MetadataArrives` |
| Create in the toolbar, a row, Edit and Delete in the drawer | `OpenCreate`, `OpenDetails`, `OpenEdit`, `OpenDelete` |
| Cancel, Escape, overlay, cross | `CloseDialog` |
| a field, Review, Back, Confirm | `EditField`, `GoToConfirm`, `GoToEdit`, `Submit` |
| the answer to a mutation | `Answer`: `Succeed` (toast, close) or `Fail` (the catch block) |
| `setTimeout(() => setToast(null))` | `ToastTimer` |
| search field, nodes, rail of the tree | `UseTree` (actions of `ObjectTree`) |

`Render` is what React makes of a change of dialog, URL or metadata: a form of the same kind keeps its state although its
metadata has changed (there is no `key` on the dialogs), and a form that lacks the state of a field throws, which unmounts
the page (`blank`; there is no error boundary). The overlay of a modal covers tree and grid (`Covered`); the drawer covers nothing.

The database does not change in this model. Instead `Outcomes` gives a request every answer that it could get if others
changed rows meanwhile: lost, failed, conflict. An "ok" is possible only if the request is permitted, valid and finds one row.

A value is a pair of type and text (`RecordFields`). `ReadCell` is what the server sends (masks, shortening, doubles),
`BuildInitialState`, `ReadValue` and `ComputeChangedFields` what the form makes of it, `OnTheWire` what JSON makes of that, and
`TryCoerce` what the server reads. Types are classes: every number is `Number`, and whatever is neither number nor Boolean is
`String`, so that dates and GUIDs that do not parse are not told apart from texts.

Tables are not written down with their keys and rights: `MetadataOf` computes them from columns, unique indexes and
configuration by `ReadObject` (`KeySelection`) and `ApplySensitivity`, and `ResolvePermissions` (`AccessControl`) decides. An
index may know a column that the columns do not: the three queries of the reader are of different ages.

`PageAssumption` says only what SQL Server guarantees of stored rows and indexes (`IsStored`), and that a configured sensitivity is one
of the four; TLC evaluates it for the databases of the runs. What dialogs and mutations rely on (`IsTable`) is proved of whatever
`MetadataOf` returns (section 5). `Badges` has a rowversion column that is configured as masked: the mask is then the token, which is
not base64, and `DecodeToken` throws before any row is looked for.

### QueryView and GridView

`QueryView` is the promise of a table that is loaded in the background: it shows the answer to the query on screen or, until
that comes, what was there before; never a late answer to a query that has been left, and never an older answer after a newer
one to the same query.

`GridView` is `DataGrid` with the query cache. `view` holds what the user set and the two debounced copies; `OnScreen` is the query
that results. `cache` has an entry per query: data, whether it is invalid, whether the last load failed, and how far a load
is. Rows are counted, not named; every change of the table raises `version`, and an answer carries the version it was read at.

| Code | Model |
|---|---|
| header, page size, filter cell, clear, search, reset, refresh | `HandleSort`, `ChangePageSize`, `SetFilter`, `ClearFilters`, `GlobalSearch`, `ResetLayout`, `Refresh` |
| page buttons and field | `FirstPage`, `PreviousPage`, `NextPage`, `GoToLastPage`, `JumpTo` |
| the effect that applies the stored layout | `LayoutArrives` |
| `useDebounce` | `DebounceFilters`, `DebounceSearch` |
| SELECT, then COUNT and answer, or an error | `ReadRows`, `Arrive`, `LoadFails` |
| `useInvalidateAfterMutation` | `Acknowledge` |
| rows written by this tab, by others | `OwnChange`, `OthersChange` |

TanStack Query is external and modelled as used: `Observe` (a query is loaded when it comes on screen without data, invalid, or
older than 30 s, the latter being a free choice), `Refetch` (a load under way is replaced, unless it is the first one), `Placeholder`
(`keepPreviousData`), one retry inside `LoadFails`. Entries that are dropped after five minutes off screen are not modelled.
`overtaken`, `acked` and `strayed` are history. Which sorts, tables, layouts and texts there may be are parameters;
`GridAssumption` says that the page sizes among them are positive and that a click on a header leads from a sort to a sort.

## 3. The runs

| Run | Instance | Shows |
|---|---|---|
| `catalog` | 2 callers, a third at the start, 1 refresh, TTL 1, clock to 2, 2 schema versions; 455 k states | `TypeOK`, `GateInv`, `SingleReload`, `ReloadOnlyWhenStale`, `FreshWhenTaken`, `CallsSeeNewerSchema`, `NullOnlyAcrossRefresh`; `CallsReturn` under fairness |
| `catalog_null` | the same, no clock | **violation** of `NeverNull` |
| `catalog_refresh` | the same, no clock | **violation** of `RefreshDropsCache` |
| `mutation` | 1 page, 2 requests, 2 rows, 2 keys; 324 k states | `TypeOK`, `TokenSpentOnce`, `StatementStillHolds`, `ConflictIsReal`, `AnswerIsTrue`, `AuditIsTrue`, `PromiseKept`; `RequestsSettle` under fairness |
| `settings` | 2 requests, 1 object, 5 files; 400 k states | `TypeOK`, `LiveIsWhole`, `LastChangeStays`, `ReadIsCurrent` |
| `settings_savers` | the same | **violation** of `CrashKeepsLiveWhole` |
| `layout` | 2 objects, 3 choices; 370 k states | `TypeOK`, `LayoutsStayApart`, `GridShowsStored`, `SavesKeepChoices` |
| `layout_hurry` | the same | **violation** of `LayoutsSurvive` |
| `page` | 15 databases of two tables or views with a configuration each, 1 request under way (2 in one); 206 k states | `TypeOK`, `ChangedUnlessMoved`, `KeyLeadsBack`, `ShownIsKept`, `DenyWins`, `SearchReveals`, `InputKept`, `BlankOnlyByMoving` |
| `page_moves` | one database of two tables | **violation** of `ChangedIsShown` |
| `page_untouched` | a table with a masked number | **violation** of `OnlyTouchedIsSent` |
| `grid` | 3 starts with up to 3 rows, page sizes 1 and 3, 3 layouts, 2 clicks, or 1 click and 1 change, 1 lost load; 291 k states | `TypeOK`, `PageIsShown`, `ReadYourWrites`, `NotStranded`, `NextMeansMore`; that `QueryView` is implemented (`ViewKept`); `Settles` under fairness |

**Why these bounds.** *Catalogue:* the races are between one reader, one reloader and a refresh; a cached
catalogue can be loaded, expire and be loaded again within three clock readings, and two schema versions tell old from new. A queue
with an order needs two waiters behind one holder: a third caller, which takes part only until time passes or something is refreshed or
altered (`ThirdIsEarly`), as the gate depends on none of these. That this holds for any number of callers and refreshes is proved, save for
`CallsReturn`. *Mutations:* every property is about one or two requests; two rows and
two keys allow duplicates, wrong rows and several rows with one key. What the bounds leave open here is
settled by the proofs. *Settings:* two requests suffice for one change to meet a reader or another change, and each
request may be used again and again; five files are three names and two open files without a name, the most
that two requests can hold. One object means settings with or without a layout, and removal of one object among
several is not told apart from removal of all. *Layouts:* two objects for mix-ups, three choices so that two saves
can meet after a first one was stored. *Page:* what goes wrong needs a dialog of one object and a move to another, so two
objects; the databases are chosen so that each kind of column, key and rule occurs: two tables with equal
column names, with and without a rowversion; masked columns, a rowversion among them; a long text and a number that no double represents; Booleans
with and without defaults; a table without primary key but three unique indexes; a filtered index; a key over a column that is not
known; a view; and for the tree, deny and allow lists at once, entries per object, policies. Two requests are
needed where a request left behind meets a second form (`Notes`); elsewhere one is. *Grid:* three rows and page size 1 make a
first, a middle and a last page; a filter leaves one row or none; `IntLimit` is 16, so that page 12 of size 3 overflows as page
21 474 838 of size 100 does with 2^31; the three layouts are none, one with a dropped column and one with a
page size above the maximum. Two clicks in a row with every load and timer between them are what each property needs; the budget is a
constant per start.

**Symmetry and view.** Symmetry sets permute requests, files, objects and choices; no definition distinguishes them. `SavesKeepChoices`, which
is checked under symmetry, only speaks of single steps. In `mutation`, which checks liveness too, the instance numbers requests, rows and keys instead and explores
only behaviours that use them in order (`OrderedSpec`): unused requests are alike, and so are rows and keys at the start, so every
behaviour is one of these with other names. In `MCSettingsStore` a view
leaves out what files hold that have no name and are not open: nothing can read them, and `Create` gives them
new content before they are named again.

**Deadlock** is checked except in the runs of `RecordMutation`, where the requests of an instance are used up:
each is made at most once, so the system stops when all are over; of the page, which stops for good when it has gone blank and its requests are over; and of the grid,
where clicks and changes are budgeted. All bounds are constants: those named `Max...`, `Third`, the sets of requests and choices,
the `limit` of each member of `Servers` and the budget of each member of `Starts`.

**Fairness.** *Catalogue:* weak fairness of `Proceed(c) \/ QueryFails(c)` for each caller, because the
scheduler runs every ready continuation and a query answers or fails by its command timeout; and of
`ClearLoadedAt`, the second statement of a synchronous method. Nobody has to call, refresh or cancel, the clock need
not advance. A waiter needs no strong fairness, as `Release` hands it the permit. *Mutations:* weak
fairness of `Handle(q)` for each request, for the same reason; a blocked statement has `SqlFails` (timeout)
enabled, so no fairness of the lock is assumed. Users, networks and crashes are under no obligation.
*Grid:* weak fairness of
`Background`, that is of loads (which answer or fail by their timeout), debounce timers and acknowledgements together: the
browser runs whatever is due. The user, the settings request and others who change rows are under no obligation.
`SettingsStore`, `LayoutSync` and the page state safety only.

## 4. What the violations show

1. `GetAllObjectsAsync` may return null: `IsFresh` looks at `_cache`, `Invalidate` clears it, `return _cache`
   reads it again (`CachedMetadataCatalog.cs:32`). Callers dereference it. `NullOnlyAcrossRefresh` shows that
   nothing else leads there.
2. Two saves of a user use the same `.tmp` file. One may verify it, the other truncate it, and the first
   move it into place half written; a crash now leaves an invalid live file, which the class comment excludes. Without
   overlapping changes the comment is right: `LiveIsWhole`.
3. A layout save that is overtaken by a later one undoes it. Without overlaps no choice is lost
   (`SavesKeepChoices`). The same property fails in two more ways once things overlap: a choice made before the
   settings are loaded, or after loading failed, is merged into nothing and replaces all other
   layouts; and the answer to an older save puts older settings into the cache.
4. The drawer with a row's details stays open when the page moves to another object (a click in the tree, which it does not cover, or
   back and forward). Edit and Delete then combine the new object with the old row: the request goes to the row of the *new*
   table that has the same key values, and with integer keys there usually is one. `ChangedUnlessMoved` shows what else could lead to a
   wrong row: only keys that do not survive the way to the browser. `JSON.parse` rounds bigint and decimal keys, and the request goes to the row
   that has the rounded key, if there is one; `ChangedIsShown` forbids that as well.
5. A refresh does not always make the next read query the database, as `Repositories.cs:21` says it does. `Invalidate` does not wait for the gate: a reload that
   had queried before the refresh stores its result after it (`CachedMetadataCatalog.cs:43`), and every call gets that for a
   whole TTL (`RefreshDropsCache`). No older metadata than before is served, though: `CallsSeeNewerSchema`.
6. A form sends more than what was touched (`OnlyTouchedIsSent`). It reads a masked number as NaN, which JSON sends as null, and neither equals the
   mask: whoever edits any field of the record overwrites that column without having seen it, although only what was changed should be sent
   (`RecordForm.tsx:319`). Everything that the form can show is safe: `ShownIsKept`. The property fails in two more ways: a
   masked Boolean is sent as false, and a new record has false in every Boolean that was left alone, although the comment wants
   "DB defaults" to apply (`RecordForm.tsx:332`).

Exceptions that the passing properties name are behaviour of the code that a reader should know of:

- `ConflictIsReal` says that the token was spent, not by whom: a user whose answer was lost and who retries is told that
  *another user* changed the record (`RecordForm.tsx:111`).
- `ReadYourWrites` excepts a first load that was under way when a change was acknowledged: it is not repeated, and its rows count as fresh.
- `NotStranded` excepts clearing filters, searching and resetting the layout on a later page, none of which returns to page 1, and
  turning the page before a filter has been applied.
- `KeyLeadsBack` excepts filtered unique indexes, which the reader takes for keys, and tables whose rowversion is configured as
  masked: no update or delete of them succeeds, as the mask is no token (`MutationServices.cs:46`).
- `AuditIsTrue` says that no success goes unaudited, not that no commit does: the process may end, or the writer throw, between the
  two (`MutationServices.cs:116`).
- `InputKept` excepts the success of a request whose dialog was closed: it closes the dialog that is open by then.
- `BlankOnlyByMoving`: back or forward under an open form to an object with other columns unmounts the page.
- `PageIsShown` excepts pages so far out that the offset overflows; with some page numbers the product wraps to a page that exists.

## 5. What is proved

TLAPS proves these for all values of the constants, so for any number of requests, refreshes, rows, keys, objects, choices and
queries and any clock. The assumptions are the `ASSUME`s of the modules, which TLC evaluates in the runs: naturals are naturals
(`ConstantsAssumption`, `QueryAssumption`), model values differ from the data they stand beside (`NullAssumption`, `Distinct`,
and the first lines of `GridAssumption` and `PageAssumption`), and what sections 2 and the modules say of texts
(`FieldAssumption`), the tree (`TreeAssumption`), grids (`GridAssumption`) and tables (`PageAssumption`).

**MetadataCatalog_proofs.** `Inductive` establishes one inductive invariant; the theorems read the properties off it:
`TypeCorrect`, `GateIsSound`, `ReloadsAreExclusive`, `StampedeGuard`, `NeverExpired`, `SchemaMovesForward`,
`NullNeedsRefresh`. None of these properties is inductive by itself:

- `SingleReload` needs `GateInv`: that nobody is inside when a permit is free, or when it is handed to a waiter.
- `ReloadOnlyWhenStale` rests on `GateInv` as well: only the request inside writes `_cache` and advances
  `_loadedAt`, and time passing or an `Invalidate` makes a stale cache no fresher.
- `FreshWhenTaken` needs `AgeInv`: a catalogue in the cache got its own stamp no earlier than `_loadedAt` says. It
  holds because a reload writes `_cache` before `_loadedAt`, and it is what makes reading two fields
  without a lock safe: a catalogue may be judged by an older time than its own, never by a newer one.
- `NullOnlyAcrossRefresh` needs `RefreshInv`: a request that saw the cache set and finds it empty was overtaken by a refresh.
- `CallsSeeNewerSchema` needs `SchemaInv`, the order of what is served, cached and being read: what a reload
  reads is never older than what the cache holds, and that never older than what any call returned.

**RecordMutation_proofs.** Again one invariant (`Inductive`). To the properties themselves it adds:

- `StageInv`: a handler's place tells what its transaction, its changes and its answer are;
- `VersionInv`: a version is on one row only, and was there from the start or written by a committed request; a
  token, in a dialog or in a request, is such a version, and a row that still has it still has the key;
- `SpentInv`: once a request was committed, or was refused for its token, no row has the token;
- `LockInv`: open transactions have changed different rows, and rows with one key only if the database allows it;
- `AuditInv`: a handler that has not ended has audited nothing.

`TokenSpentOnce`, say, is not inductive: that a second commit with the token is impossible follows from the row that its
statement found when it ran (`StatementStillHolds`), which is still there at the commit because of the locks
(`LockInv`), while the first commit left no row with the token (`SpentInv`), and no later write brings it back
(`VersionInv`). The theorems are `TypeCorrect`, `NoLostUpdate` (`TokenSpentOnce`), `CountedIsCommitted`
(`StatementStillHolds`), `NoFalseConflict` (`ConflictIsReal`), `AnswersAreTrue`, `AuditsAreTrue`, and `KeepsPromise`:
**RecordMutation implements OptimisticTable**; initial states map to initial states and every step to a step or a
stutter. The refinement mapping is the identity on the table, the requests and `applied`; `Submit` is `Ask`, and the
commit is the step that takes effect.

**SettingsStore_proofs.** `InductiveInvariant` joins to the types

- `StageInv`: a request's place tells what it does, and whether it has a file open;
- `LockInv`: who writes a file has it open alone, and the live file is not the one called `.tmp`;
- `ReadInv`: what a `GetAsync` has open or answers was current during it;
- `SoleInv`, as long as changes have not overlapped: there is one at a time, `.tmp` is its own file and whole once it was
  written, the live file is whole, and a change has an effect only when it succeeds.

`LiveIsWhole` alone is not inductive: a rename keeps the live file whole only because what is called `.tmp` then is what its
change wrote and verified. `LastChangeStays` needs that a change which failed or was aborted has left the live file as it was, at
each of the places where it may end. The theorems are `TypeCorrect`, `LiveFileIsWhole`, `NoChangeLost` and `AnswersWereCurrent`.

**LayoutSync_proofs.** Two invariants. `HonestInv`: in the store, the cache, every answer, timer and request, a choice is filed
only under an object that it was made for; it needs no absence of overlaps, and gives `NoMixup`. `CalmInv`, as long as nothing has
overlapped: only one thing is under way, and each copy of the settings contains what is stored. Without it
a save could lose what another one stored, as the violation shows. It gives `GridIsComplete` and the action property
`NoChoiceLost`. `TypeCorrect` includes that the mounted grid has one timer at most.

**GridView_proofs.** `InductiveInvariant` consists of the types and

- `CacheInv`: the data of an entry answer its own query, rows that were read are not older than the data they will
  replace, and an answer as young as the table tells what is in it;
- `FreshInv`: an entry older than the last acknowledged change is invalid or was being loaded at the acknowledgement, and the entry on
  screen is loaded if it is invalid, unless that failed;
- `ShownInv`: what is shown is the data of the entry on screen or, if that has none, of an entry that was there before;
- `PageInv`: who has not strayed is on page 1 or on a page with rows.

At rest, `CacheInv` and `ShownInv` give `RestShowsPage`, with `FreshInv` `OwnChangesAreRead`, with `PageInv` `NobodyStranded`, and
with the arithmetic of pages `NextTellsMore`. `ScreenKeepsPromise`: **GridView implements QueryView**; the mapping is the identity on what is shown and
the query on screen. It needs `CacheInv`, for a late answer is put into the entry of its own query, and that entry's data only grow younger.

**SqlDataManagerPage_proofs.** `DenyPrevails` is `DenyWins` for any configuration, objects and tables. That metadata of a denied
object is never there is not inductive by itself; `OnlyReadable`, metadata is there only if reading is permitted, is: the
configuration never changes, metadata arrives only with the permission, and everything else keeps it or asks for it. Two lemmas about
`ResolvePermissions` (`DeniedHasNothing`, `PermittedIsPossible`) do the rest. `DenyingOnlyTakes`: a longer deny list grants nothing.

The other properties follow from `PageInv`, which has two parts besides the types:

- `FormInv`: a form is there only under a dialog of its kind and an object whose metadata is known; it has a field for every editable
  column of the object it was opened for *and* of the object that is shown; and a field nobody has touched shows what the row has;
- `RequestInv`: a request carries the key and the token of the dialog's row, by the metadata of the object it goes to; and a field it changes
  although nobody touched it is a masked number or Boolean.

The properties speak of requests that the server may serve, and say nothing of where their contents come from. So the argument
follows the values: a cell is a null, a mask, or a value of the column's type shortened or rounded (`CellCases`); the form makes of it a text and a
flag, and of these a value that counts as equal again (`UntouchedIsEqual`, for which rounding twice must be rounding once); a key that has not been altered
passes JSON and coercion unchanged (`SentBack`, `KeyArrives`), and so does a token (`TokenArrives`); so the statement finds the row
(`RowIsFound`). Keys being unique, it finds no other. The theorems are `PageIsTyped`, `ShownRowIsChanged`, `KeysLeadBack`, `ShownValuesAreKept`, `SearchShowsMatches`, and the action
properties `InputIsKept` and `OnlyMovingBlanks`.

What a table must be like for that is `IsTable`: values have their columns' types, no key is null, rows share no key unless its index is
filtered, what is hidden cannot be updated. `TablesAreRead` derives it from what SQL Server keeps (`IsStored`), by `SelectBestKey`,
`FinaliseColumn`, `Capability` and `ApplySensitivity`, for any columns, unique indexes and sensitivities; so the theorems about requests rest on
the code of the reader too, and a reader that takes an index over nullable columns for a key breaks `KeyLeadsBack` in the run.

**GridQueries_proofs.** `LastPageIsLast`: what Pagination compares the page with is right for every total and size.
`EveryRowHasItsPage`: a table at rest is enumerated exactly once by the pages whose offset does not overflow.

**KeySelection_proofs.** For any unique indexes: `PrimaryKeyWins`; `KeyTellsRowsApart`: two rows share the chosen key only if there is no
primary key and every index over its columns is filtered, which the reader accepts (`SqlMetadataReader.cs:226`) although SQL Server
enforces such an index for some rows only; `WritableHasKey`.

## 6. What is only model-checked

Liveness (`CallsReturn`, `RequestsSettle`, `Settles`), which TLAPS does not prove here because it rests on fairness and
ENABLED; and of course the six violations. Every invariant and every action property that a passing run checks is also stated by a theorem.

## 7. What is not modelled, and why

- *Row queries*: the WHERE text, and the order of rows: rows are counted. A table without a key has an unstable
  order, which the grid says; nothing is claimed for it. Reading a single row has an endpoint that the client does not use.
- *The page*: that metadata is read again in the background after 30 s, so that columns or rights change under an open form; a
  reload of the page; texts of toasts and messages at fields; the word DELETE, which the page never asks for; the focus that `Modal` moves. The database
  is fixed there: what changes of rows do to requests is in RecordMutation.
- *The grid*: which columns are hidden (LayoutSync has that), which row is clicked, cache entries that are dropped after five minutes, and
  page numbers that are not integers, which the server rejects as it rejects overflowing ones.
- *Values*: dates, GUIDs and other types with a syntax of their own are texts here; fields of `byte[]` other than rowversions are too.
- *SQL text generation*: quoting and type names, string functions without state, covered by unit tests.
- *Connections and health checks*: pure I/O; a connection that fails is an outcome in the models.
- *Endpoints and middleware*: they hand a request to a service and turn an exception into an answer; rate
  limits and request sizes belong to the framework.
- *Contracts and mapping*: field-by-field copies. *Theme, formatting*: presentation.
- *Module information and defaults*: configuration. `AnonymousCurrentUser` makes all users of the standalone host one
  user, so that they share one settings file; the models have one user per file and do not care how many people that is.
- `GetPath` of the settings store may map two user ids to one path; `SettingsStore` is about one path.
- Under `SET NOCOUNT ON` or with triggers `ExecuteNonQueryAsync` may answer -1, which the code treats as success. The model has
  the default options.

## 8. Plan

Done, in this order: MetadataCatalog, OptimisticTable and RecordMutation, their proofs, SettingsStore, LayoutSync,
AccessControl, RecordFields, KeySelection, ObjectTree and SqlDataManagerPage, GridQueries, QueryView and GridView, the first proofs about these.

To be proved next:

1. That the pure definitions meet in the middle: what the form accepts (`Validate`) the server accepts (`ValidateCreate`, `ValidateUpdate`), as far as that
   is so, and what `CycleSort` does to any sequence of sorts.
2. More of `QueryView` and `OptimisticTable` themselves: what follows from the promises alone, for a reader who does not look into the modules that keep them.

To be modelled, if anything: several tabs in `LayoutSync`; the -1 of `ExecuteNonQueryAsync` in `RecordMutation`; metadata that changes under an open page.
