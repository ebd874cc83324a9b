------------------------------- MODULE GridView -------------------------------
(***************************************************************************)
(* The grid of one object: what the user sets, what is debounced, the      *)
(* queries that result, their cache in TanStack Query, and the server that *)
(* answers while rows come and go.                                         *)
(***************************************************************************)
EXTENDS GridQueries

CONSTANTS None,
          Tables,        \* how many rows there may be: all, and those that a filter or search leaves
          Starts,        \* how it may begin: the table, whether totals are counted, and the budget
          PageSizes,     \* allowedPageSizes
          DefaultPageSize,
          Sorts,         \* the sorts that there may be
          Layouts,       \* layouts that may be stored: a sort and a page size
          Jumps,         \* bound: pages that are typed into the page field
          Operators,     \* bound: filter operators that are picked
          FilterTexts, SearchTexts  \* bound: texts that are typed, "" among them

\* What the filter cells hold per column, and what is sent of it.
FilterStates ==
    [operator : Operators \cup {FirstOperator(GridColumns[c].clrType) : c \in DOMAIN GridColumns},
     value : FilterTexts, secondValue : FilterTexts]

Filters == UNION {[C -> FilterStates] : C \in SUBSET DOMAIN GridColumns}

Queries == [page : Nat \ {0}, pageSize : Nat \ {0}, sort : Sorts, filters : Filters, globalSearch : SearchTexts]

\* Answers; version is that of the rows, overtaken that of the entry.
Results == [query : Queries, skipped : Int, count : Nat, version : Nat, total : Nat \cup {Unknown}, overtaken : BOOLEAN]

Entries == [data : Results \cup {None}, invalid : BOOLEAN, failed : BOOLEAN, load : {"none", "asked", "read"},
            rows : [count : Nat, version : Nat] \cup {None}, overtaken : BOOLEAN]

Views == [page : Nat \ {0}, pageSize : Nat \ {0}, sort : Sorts, filters : Filters, search : SearchTexts,
          debouncedFilters : Filters, debouncedSearch : SearchTexts]

Budgets == [clicks : Nat, own : Nat, others : Nat, failures : Nat]

Sortable == {c \in DOMAIN GridColumns : GridColumns[c].sortable}

\* Page sizes are configured to be positive, and clicking a header leads from a sort to a sort.
GridAssumption ==
    /\ None \notin Queries \cup Results \cup [count : Nat, version : Nat]
    /\ Tables \subseteq [all : Nat, matching : Nat]
    /\ Starts \subseteq [table : Tables, counting : BOOLEAN, budget : Budgets]
    /\ DefaultPageSize \in Nat \ {0} /\ PageSizes \subseteq Nat \ {0} /\ Jumps \subseteq Nat \ {0}
    /\ <<>> \in Sorts
    /\ \A sort \in Sorts, c \in Sortable, multi \in BOOLEAN : CycleSort(sort, c, multi) \in Sorts
    /\ Layouts \subseteq [sort : Sorts, pageSize : Nat \ {0}]
    /\ "" \in FilterTexts /\ "" \in SearchTexts

ASSUME GridAssumption

VARIABLES table, version,  \* the rows, and how often they have changed
          counting,        \* ExactRowCountMode is not Disabled
          view,            \* state of DataGrid: page, pageSize, sort, filters, search, and the debounced two
          loaded,          \* the stored layout has been applied
          cache,           \* per query that was ever on screen its data, flags and load
          last, shown,     \* of the query observer: the last query that had data, and the data it presents
          unheard,         \* own changes that are committed but not acknowledged yet
          acked,           \* history: the version after the last own change that was acknowledged
          strayed,         \* history: the page was chosen without the facts, or the facts have changed since
          budget           \* bound: clicks in the grid, own changes, others' changes and lost loads still to come

serverVars == <<table, version, counting>>
historyVars == <<acked, strayed>>
vars == <<table, version, counting, view, loaded, cache, last, shown, unheard, acked, strayed, budget>>

-----------------------------------------------------------------------------
\* Queries and their cache

Query(v) ==
    [page |-> v.page, pageSize |-> v.pageSize, sort |-> v.sort,
     filters |-> BuildFilterSpecs(v.debouncedFilters), globalSearch |-> v.debouncedSearch]

OnScreen == Query(view)

\* load is none, asked, or read when the server has read the rows but not yet counted them; overtaken is history:
\* the table was invalidated during the load, which went on nevertheless.
NewEntry == [data |-> None, invalid |-> FALSE, failed |-> FALSE, load |-> "none", rows |-> None, overtaken |-> FALSE]

Start(e) == [e EXCEPT !.load = "asked", !.rows = None, !.overtaken = FALSE, !.failed = @ /\ e.data # None]

\* A query without data is not asked anew as long as its first load is under way.
Refetch(e) == IF e.load # "none" /\ e.data = None THEN e ELSE Start(e)

Bind(f, key, value) == [k \in DOMAIN f \cup {key} |-> IF k = key THEN value ELSE f[k]]

MutantObserveLazily(q, aged) ==
    Bind(cache, q, IF q \notin DOMAIN cache THEN NewEntry
                   ELSE IF cache[q].load = "none" /\ (cache[q].invalid \/ aged) THEN Start(cache[q]) ELSE cache[q])

\* The observer turns to a query: it is loaded if there is no data, or if that is invalid or has aged.
Observe(q, aged) ==
    LET e == IF q \in DOMAIN cache THEN cache[q] ELSE NewEntry IN
    Bind(cache, q, IF e.load = "none" /\ (e.data = None \/ e.invalid \/ aged) THEN Start(e) ELSE e)

\* keepPreviousData, computed once and kept until there is data or an error.
Placeholder(c) ==
    IF shown # None /\ shown.query # OnScreen THEN shown
    ELSE IF last = None THEN None ELSE c[last].data

Present(q, c) ==
    IF c[q].data # None THEN c[q].data ELSE IF c[q].failed THEN None ELSE Placeholder(c)

Render(v, c) ==
    /\ view' = v
    /\ cache' = c
    /\ shown' = Present(Query(v), c)
    /\ last' = IF c[Query(v)].data # None THEN Query(v) ELSE last

Show(v) ==
    IF Query(v) = OnScreen THEN Render(v, cache)
    ELSE \E aged \in BOOLEAN : Render(v, Observe(Query(v), aged))

-----------------------------------------------------------------------------
\* The user

Spend(what) == budget[what] > 0 /\ budget' = [budget EXCEPT ![what] = @ - 1]

Click(v, astray) ==
    /\ Spend("clicks")
    /\ Show(v)
    /\ strayed' = (v.page # 1 /\ astray)
    /\ UNCHANGED <<serverVars, loaded, unheard, acked>>

HandleSort ==
    \E c \in Sortable, multi \in BOOLEAN :
        Click([view EXCEPT !.sort = CycleSort(@, c, multi), !.page = 1], strayed)

MutantSizeKeepsPage == \E size \in PageSizes \ {view.pageSize} : Click([view EXCEPT !.pageSize = size], strayed)

ChangePageSize ==
    \E size \in PageSizes \ {view.pageSize} : Click([view EXCEPT !.pageSize = size, !.page = 1], strayed)

\* The filter cell of a column: one of its fields is changed.
SetFilter ==
    \E c \in {c \in DOMAIN GridColumns : GridColumns[c].filterable} :
        LET type == GridColumns[c].clrType
            old == IF c \in DOMAIN view.filters THEN view.filters[c]
                   ELSE [operator |-> FirstOperator(type), value |-> "", secondValue |-> ""]
        IN  \E new \in {[old EXCEPT !.operator = op] : op \in Operators \cap OperatorsFor(type)}
                       \cup {[old EXCEPT !.value = t] : t \in IF IsUnary(old.operator) THEN {} ELSE FilterTexts}
                       \cup {[old EXCEPT !.secondValue = t] : t \in IF IsRange(old.operator) THEN FilterTexts ELSE {}} :
            /\ new # old
            /\ Click([view EXCEPT !.filters = Bind(@, c, new), !.page = 1], strayed)

\* The toolbar; none of these returns to the first page.
ClearFilters ==
    /\ DOMAIN BuildFilterSpecs(view.debouncedFilters) # {}
    /\ Click([view EXCEPT !.filters = <<>>], TRUE)

GlobalSearch == \E t \in SearchTexts \ {view.search} : Click([view EXCEPT !.search = t], TRUE)

ResetLayout == Click([view EXCEPT !.sort = <<>>, !.pageSize = DefaultPageSize], TRUE)

Refresh ==
    /\ Spend("clicks")
    /\ Render(view, [cache EXCEPT ![OnScreen] = Refetch(@)])
    /\ UNCHANGED <<serverVars, loaded, unheard, historyVars>>

Count == IF shown = None THEN 0 ELSE shown.count

Total == IF shown = None THEN Unknown ELSE shown.total

\* History: what the grid presents is up to date and belongs to the filters that are set.
Informed ==
    /\ view.filters = view.debouncedFilters /\ view.search = view.debouncedSearch
    /\ shown # None
    /\ shown.version = version
    /\ shown.query.filters = OnScreen.filters /\ shown.query.globalSearch = OnScreen.globalSearch

TurnTo(page) == page # view.page /\ Click([view EXCEPT !.page = page], strayed \/ ~Informed)

FirstPage == view.page > 1 /\ TurnTo(1)

PreviousPage == view.page > 1 /\ TurnTo(view.page - 1)

NextPage == NextEnabled(view.page, view.pageSize, Count, Total) /\ TurnTo(view.page + 1)

GoToLastPage == LastEnabled(view.page, view.pageSize, Total) /\ TurnTo(LastPage(Total, view.pageSize))

JumpTo == \E page \in Jumps \ {view.page} : Click([view EXCEPT !.page = page], TRUE)

-----------------------------------------------------------------------------
\* Timers and layout

DebounceFilters ==
    /\ view.debouncedFilters # view.filters
    /\ Show([view EXCEPT !.debouncedFilters = view.filters])
    /\ UNCHANGED <<serverVars, loaded, unheard, historyVars, budget>>

DebounceSearch ==
    /\ view.debouncedSearch # view.search
    /\ Show([view EXCEPT !.debouncedSearch = view.search])
    /\ UNCHANGED <<serverVars, loaded, unheard, historyVars, budget>>

\* The settings arrive: the grid starts over with the stored layout, whatever was clicked before.
LayoutArrives ==
    /\ ~loaded
    /\ loaded' = TRUE
    /\ \E layout \in Layouts :
          Show([view EXCEPT !.page = 1, !.pageSize = layout.pageSize, !.sort = layout.sort,
                            !.filters = <<>>, !.search = ""])
    /\ strayed' = FALSE
    /\ UNCHANGED <<serverVars, unheard, acked, budget>>

-----------------------------------------------------------------------------
\* The server: rows and total are two queries

ReadRows(q) ==
    /\ cache[q].load = "asked"
    /\ Answerable(q)
    /\ cache' = [cache EXCEPT ![q].load = "read",
                              ![q].rows = [count |-> RowsOnPage(q, Matching(table, q)), version |-> version]]
    /\ UNCHANGED <<serverVars, view, loaded, last, shown, unheard, historyVars, budget>>

MutantArriveLate(q) ==
    /\ cache[q].load = "read"
    /\ LET e == cache[q]
           answer == [query |-> q, skipped |-> Offset(q), count |-> e.rows.count, version |-> e.rows.version,
                      total |-> IF counting THEN Matching(table, q) ELSE Unknown, overtaken |-> e.overtaken]
       IN  /\ cache' = [cache EXCEPT ![q] = [NewEntry EXCEPT !.data = answer]]
           /\ shown' = answer /\ last' = q
    /\ UNCHANGED <<serverVars, view, loaded, unheard, historyVars, budget>>

\* Success: the entry is valid again, even if it was invalidated during the load.
Arrive(q) ==
    /\ cache[q].load = "read"
    /\ LET e == cache[q]
           answer == [query |-> q, skipped |-> Offset(q), count |-> e.rows.count, version |-> e.rows.version,
                      total |-> IF counting THEN Matching(table, q) ELSE Unknown, overtaken |-> e.overtaken]
       IN  Render(view, [cache EXCEPT ![q] = [NewEntry EXCEPT !.data = answer]])
    /\ UNCHANGED <<serverVars, loaded, unheard, historyVars, budget>>

MutantRetryForever(q) ==
    /\ cache[q].load # "none"
    /\ Spend("failures") \/ (~Answerable(q) /\ UNCHANGED budget)
    /\ Render(view, [cache EXCEPT ![q] = [@ EXCEPT !.load = "asked", !.rows = None]])
    /\ UNCHANGED <<serverVars, loaded, unheard, historyVars>>

\* The server rejects the query, or its answer is lost, both after one retry that a load does by itself.
LoadFails(q) ==
    /\ cache[q].load # "none"
    /\ Spend("failures") \/ (~Answerable(q) /\ UNCHANGED budget)
    /\ LET e == [cache[q] EXCEPT !.load = "none", !.rows = None, !.failed = TRUE, !.invalid = @ \/ cache[q].data # None]
       IN  Render(view, [cache EXCEPT ![q] = e])
    /\ UNCHANGED <<serverVars, loaded, unheard, historyVars>>

Load(q) == ReadRows(q) \/ Arrive(q) \/ LoadFails(q)

Change ==
    /\ version' = version + 1
    /\ table' \in Tables \ {table}
    /\ strayed' = (view.page # 1)
    /\ UNCHANGED <<counting, view, loaded, cache, last, shown, acked>>

OwnChange == Spend("own") /\ Change /\ unheard' = unheard \cup {version'}

OthersChange == Spend("others") /\ Change /\ UNCHANGED unheard

MutantInvalidateScreen(c) == [c EXCEPT ![OnScreen] = Refetch([@ EXCEPT !.invalid = TRUE])]

\* invalidateQueries: all entries of the object, of which the one on screen is asked for anew.
Invalidate(c) ==
    [q \in DOMAIN c |->
        LET e == [c[q] EXCEPT !.invalid = TRUE, !.overtaken = @ \/ c[q].load # "none"]
        IN  IF q = OnScreen THEN Refetch(e) ELSE e]

\* onSuccess of an own mutation.
Acknowledge ==
    \E v \in unheard :
        /\ unheard' = unheard \ {v}
        /\ acked' = IF v > acked THEN v ELSE acked
        /\ Render(view, Invalidate(cache))
        /\ UNCHANGED <<serverVars, loaded, strayed, budget>>

-----------------------------------------------------------------------------

Init ==
    /\ \E s \in Starts : table = s.table /\ counting = s.counting /\ budget = s.budget
    /\ version = 0
    /\ view = [page |-> 1, pageSize |-> DefaultPageSize, sort |-> <<>>, filters |-> <<>>, search |-> "",
               debouncedFilters |-> <<>>, debouncedSearch |-> ""]
    /\ loaded = FALSE
    /\ cache = [q \in {OnScreen} |-> Start(NewEntry)]
    /\ last = None /\ shown = None
    /\ unheard = {} /\ acked = 0
    /\ strayed = FALSE

User ==
    \/ HandleSort \/ ChangePageSize \/ SetFilter \/ ClearFilters \/ GlobalSearch \/ ResetLayout \/ Refresh
    \/ FirstPage \/ PreviousPage \/ NextPage \/ GoToLastPage \/ JumpTo

Background ==
    \/ \E q \in DOMAIN cache : Load(q)
    \/ DebounceFilters \/ DebounceSearch
    \/ Acknowledge

Next == User \/ Background \/ LayoutArrives \/ OwnChange \/ OthersChange

\* Loads end, timers fire, and mutations are acknowledged.
Spec == Init /\ [][Next]_vars /\ WF_vars(Background)

-----------------------------------------------------------------------------
\* Properties

\* Variables hold what the code can put into them, and the grid always has an entry for the query on screen.
TypeOK ==
    /\ table \in Tables /\ version \in Nat /\ counting \in BOOLEAN
    /\ view \in Views /\ loaded \in BOOLEAN
    /\ OnScreen \in DOMAIN cache /\ DOMAIN cache \subseteq Queries
    /\ \A q \in DOMAIN cache : /\ cache[q] \in Entries
                               /\ cache[q].data # None => cache[q].data.query = q
                               /\ cache[q].load = "none" => cache[q].data # None \/ cache[q].failed
                               /\ cache[q].load = "read" => cache[q].rows # None
    /\ shown \in Results \cup {None}
    /\ last # None => last \in DOMAIN cache /\ cache[last].data # None
    /\ unheard \subseteq 1..version /\ acked \in 0..version
    /\ strayed \in BOOLEAN /\ budget \in Budgets

Settled ==
    /\ view.filters = view.debouncedFilters /\ view.search = view.debouncedSearch
    /\ cache[OnScreen].load = "none"
    /\ unheard = {}

Overflows(q) == (q.page - 1) * q.pageSize >= IntLimit

\* A grid at rest shows the page that its page field says, of the rows that its filters leave, or nothing if the last
\* attempt failed and there was no earlier one (DataGrid.tsx:67). Excepted are pages so far out
\* that the server's product overflows and may land on another page (SqlQueryBuilder.cs:39).
PageIsShown ==
    Settled =>
        \/ shown = None /\ cache[OnScreen].failed
        \/ /\ shown # None
           /\ shown.query.filters = BuildFilterSpecs(view.filters) /\ shown.query.globalSearch = view.search
           /\ shown.query.sort = view.sort
           /\ Overflows(OnScreen) \/ shown.skipped = (view.page - 1) * view.pageSize

\* Once an own change is acknowledged, a grid at rest shows rows that were read after it (queries.ts:56), unless loading
\* failed, or the answer was being loaded when the change was acknowledged: TanStack Query does not repeat a first load.
ReadYourWrites ==
    Settled /\ shown # None => shown.version >= acked \/ shown.overtaken \/ cache[OnScreen].failed

\* With totals that nobody has changed since, the grid is at rest on an empty page although rows match only if the page
\* was typed, the table changed while a later page was open, a search, clearing of filters or reset happened on a later
\* page, or the page was turned while what was shown did not belong to the filters (DataGrid.tsx:105).
NotStranded ==
    Settled /\ counting /\ shown # None /\ shown.version = version => shown.count > 0 \/ shown.total = 0 \/ strayed

\* With totals, the button for the next page can be pressed exactly if there are rows behind those that are shown
\* (Pagination.tsx:58), provided that nobody has changed the table and the page exists.
NextMeansMore ==
    Settled /\ counting /\ shown # None /\ shown.version = version /\ ~cache[OnScreen].failed /\ ~Overflows(OnScreen) =>
        (NextEnabled(view.page, view.pageSize, Count, Total)
            <=> view.page * view.pageSize < Matching(table, OnScreen))

\* DataGrid and TanStack Query implement QueryView.
View == INSTANCE QueryView WITH Nothing <- None, wanted <- OnScreen, shown <- shown, kept <- last

ViewKept == View!Spec

\* When the user lets go, the grid comes to rest (DataGrid.tsx:67).
Settles == []<>Settled

=============================================================================
