---------------------------- MODULE GridView_proofs ----------------------------
(* Proofs about GridView, for every table, layout, page size and budget, and any *)
(* number of queries in the cache.                                               *)
EXTENDS GridView, GridQueries_proofs

-----------------------------------------------------------------------------
\* The parts of the inductive invariant

\* What TypeOK says of an entry.
WellTyped(q, e) ==
    /\ q \in Queries /\ e \in Entries
    /\ e.data # None => e.data.query = q
    /\ e.load = "none" => e.data # None \/ e.failed
    /\ e.load = "read" => e.rows # None

\* An answer as young as the table tells what is in it.
TrueAnswer(a) ==
    /\ a.skipped = Offset(a.query)
    /\ a.version <= version
    /\ a.version = version => /\ a.count = RowsOnPage(a.query, Matching(table, a.query))
                              /\ a.total = IF counting THEN Matching(table, a.query) ELSE Unknown

\* So do rows whose total is still to be read; they are not older than the data they will replace.
TrueEntry(q, e) ==
    /\ e.data # None => TrueAnswer(e.data)
    /\ e.load = "read" => /\ e.rows.version <= version
                          /\ e.data # None => e.data.version <= e.rows.version
                          /\ e.rows.version = version => e.rows.count = RowsOnPage(q, Matching(table, q))

Good(q, e) == WellTyped(q, e) /\ TrueEntry(q, e)

CacheInv == \A q \in DOMAIN cache : Good(q, cache[q])

\* An entry that is older than the last own change is invalid, or was being loaded when it was acknowledged.
Fresh(e) ==
    /\ e.data # None => e.invalid \/ e.data.version >= acked \/ e.data.overtaken
    /\ e.load = "read" => e.overtaken \/ e.rows.version >= acked

FreshInv ==
    /\ \A q \in DOMAIN cache : Fresh(cache[q])
    /\ cache[OnScreen].invalid /\ cache[OnScreen].load = "none" => cache[OnScreen].failed

\* What is shown is what the entry on screen has; if that has nothing, it is the data of some other entry, or was.
ShownInv ==
    /\ cache[OnScreen].data # None => shown = cache[OnScreen].data /\ last = OnScreen
    /\ cache[OnScreen].data = None /\ cache[OnScreen].failed => shown = None
    /\ shown # None => TrueAnswer(shown) /\ shown.query \in DOMAIN cache /\ cache[shown.query].data # None
    /\ last # None => last \in DOMAIN cache /\ cache[last].data # None

\* Who has not strayed is on the first page, or on one with rows.
PageInv ==
    ~strayed /\ view.page # 1 =>
        /\ view.filters = view.debouncedFilters /\ view.search = view.debouncedSearch
        /\ counting => (view.page - 1) * view.pageSize < Matching(table, OnScreen)

IndInv == TypeOK /\ CacheInv /\ FreshInv /\ ShownInv /\ PageInv

-----------------------------------------------------------------------------
\* Numbers

LEMMA WrapType == ASSUME NEW n \in Int PROVE Wrap(n) \in Int
BY QueryAssumption DEF QueryAssumption, Wrap

\* Below the limit nothing wraps.
LEMMA WrapExact == ASSUME NEW n \in Nat, n < IntLimit PROVE Wrap(n) = n
BY QueryAssumption DEF QueryAssumption, Wrap

\* A product that overflows comes out smaller.
LEMMA WrapBelow == ASSUME NEW n \in Nat PROVE Wrap(n) <= n
BY QueryAssumption DEF QueryAssumption, Wrap

LEMMA OffsetFacts ==
    ASSUME NEW q \in Queries
    PROVE  /\ (q.page - 1) * q.pageSize \in Nat
           /\ Offset(q) \in Int
           /\ Offset(q) <= (q.page - 1) * q.pageSize
           /\ ~Overflows(q) => Offset(q) = (q.page - 1) * q.pageSize
<1>1. q.page - 1 \in Nat /\ q.pageSize \in Nat
  BY DEF Queries
<1>2. (q.page - 1) * q.pageSize \in Nat
  BY <1>1
<1>3. IntLimit \in Nat
  BY QueryAssumption DEF QueryAssumption
<1> QED BY <1>2, <1>3, WrapType, WrapExact, WrapBelow DEF Offset, Overflows

LEMMA MatchingType ==
    ASSUME TypeOK, NEW q
    PROVE  Matching(table, q) \in Nat
BY GridAssumption DEF GridAssumption, TypeOK, Matching

LEMMA RowsOnPageType ==
    ASSUME NEW q \in Queries, NEW n \in Nat
    PROVE  RowsOnPage(q, n) \in Nat
<1>1. Offset(q) \in Int /\ q.pageSize \in Nat
  BY OffsetFacts DEF Queries
<1> QED BY <1>1 DEF RowsOnPage, Least

-----------------------------------------------------------------------------
\* Views and queries

LEMMA ConstantTypes ==
    /\ None \notin Queries /\ None \notin Results /\ None \notin [count : Nat, version : Nat]
    /\ DefaultPageSize \in Nat \ {0} /\ PageSizes \subseteq Nat \ {0} /\ Jumps \subseteq Nat \ {0}
    /\ <<>> \in Sorts /\ "" \in FilterTexts /\ "" \in SearchTexts
BY GridAssumption DEF GridAssumption

LEMMA NoFilters == <<>> \in Filters
<1>1. <<>> \in [{} -> FilterStates]
  OBVIOUS
<1> QED BY <1>1 DEF Filters

LEMMA FiltersDomain ==
    ASSUME NEW f \in Filters
    PROVE  DOMAIN f \subseteq DOMAIN GridColumns /\ f \in [DOMAIN f -> FilterStates]
BY DEF Filters

\* What is sent of filters are filters.
LEMMA BuildFilterSpecsType ==
    ASSUME NEW f \in Filters
    PROVE  BuildFilterSpecs(f) \in Filters
<1> DEFINE sent == {c \in DOMAIN f \cap DOMAIN GridColumns :
                       f[c].operator \in OperatorsFor(GridColumns[c].clrType) /\ Complete(f[c])}
<1> DEFINE spec(c) ==
        [operator    |-> f[c].operator,
         value       |-> IF IsUnary(f[c].operator) THEN "" ELSE f[c].value,
         secondValue |-> IF IsRange(f[c].operator) THEN f[c].secondValue ELSE ""]
<1>1. \A c \in sent : spec(c) \in FilterStates
  BY FiltersDomain, ConstantTypes DEF FilterStates
<1>2. BuildFilterSpecs(f) = [c \in sent |-> spec(c)]
  BY DEF BuildFilterSpecs
<1>3. sent \in SUBSET DOMAIN GridColumns
  OBVIOUS
<1> HIDE DEF sent, spec
<1>4. BuildFilterSpecs(f) \in [sent -> FilterStates]
  BY <1>1, <1>2
<1> QED BY <1>3, <1>4 DEF Filters

LEMMA QueryType ==
    ASSUME NEW v \in Views
    PROVE  Query(v) \in Queries
<1>1. BuildFilterSpecs(v.debouncedFilters) \in Filters
  BY BuildFilterSpecsType DEF Views
<1> QED BY <1>1 DEF Query, Queries, Views

\* Another cell is filled in.
LEMMA BindFilters ==
    ASSUME NEW f \in Filters, NEW c \in DOMAIN GridColumns, NEW state \in FilterStates
    PROVE  Bind(f, c, state) \in Filters
<1>1. Bind(f, c, state) \in [DOMAIN f \cup {c} -> FilterStates]
  BY FiltersDomain DEF Bind
<1>2. DOMAIN f \cup {c} \in SUBSET DOMAIN GridColumns
  BY FiltersDomain
<1> QED BY <1>1, <1>2 DEF Filters

-----------------------------------------------------------------------------
\* Entries

LEMMA ResultFacts ==
    ASSUME NEW a \in Results
    PROVE  /\ a # None /\ a.query \in Queries
           /\ a.count \in Nat /\ a.version \in Nat /\ a.overtaken \in BOOLEAN
BY ConstantTypes DEF Results

LEMMA EntryFacts ==
    ASSUME NEW e \in Entries
    PROVE  /\ e.data # None => e.data \in Results
           /\ e.rows # None => e.rows \in [count : Nat, version : Nat]
           /\ e.invalid \in BOOLEAN /\ e.failed \in BOOLEAN /\ e.overtaken \in BOOLEAN
           /\ e.load \in {"none", "asked", "read"}
BY DEF Entries

LEMMA NewEntryFacts ==
    /\ NewEntry \in Entries
    /\ NewEntry.data = None /\ NewEntry.load = "none" /\ ~NewEntry.invalid /\ ~NewEntry.failed
BY DEF NewEntry, Entries

LEMMA StartFacts ==
    ASSUME NEW e \in Entries
    PROVE  /\ Start(e) \in Entries
           /\ Start(e).data = e.data /\ Start(e).invalid = e.invalid /\ Start(e).load = "asked"
           /\ Start(e).failed => e.failed
BY DEF Start, Entries

LEMMA RefetchFacts ==
    ASSUME NEW e \in Entries
    PROVE  /\ Refetch(e) \in Entries
           /\ Refetch(e).data = e.data /\ Refetch(e).invalid = e.invalid
           /\ Refetch(e).load # "none"
           /\ Refetch(e) = e \/ Refetch(e).load = "asked"
           /\ Refetch(e).failed => e.failed
BY StartFacts DEF Refetch, Entries

\* An entry that is asked for is as good as it was before.
LEMMA GoodAsked ==
    ASSUME NEW q \in Queries, NEW e, NEW f \in Entries, f.load = "asked", f.data = e.data,
           e.data # None => e.data.query = q /\ TrueAnswer(e.data)
    PROVE  Good(q, f)
BY DEF Good, WellTyped, TrueEntry

LEMMA GoodSame ==
    ASSUME NEW q, NEW e, Good(q, e), NEW f \in Entries,
           f.load = e.load, f.data = e.data, f.rows = e.rows, f.failed = e.failed
    PROVE  Good(q, f)
BY DEF Good, WellTyped, TrueEntry

-----------------------------------------------------------------------------
\* Rendering

\* A cache in which nothing is lost and no data are replaced by older ones.
Keeps(c) ==
    \A q \in DOMAIN cache :
        /\ q \in DOMAIN c
        /\ cache[q].data # None => c[q].data # None /\ c[q].data.version >= cache[q].data.version

Renders(v, c) ==
    /\ TypeOK /\ CacheInv /\ ShownInv
    /\ v \in Views /\ Render(v, c) /\ UNCHANGED serverVars
    /\ \A q \in DOMAIN c : Good(q, c[q])
    /\ Query(v) \in DOMAIN c
    /\ Keeps(c)
    /\ Query(v) # OnScreen => \A q \in DOMAIN cache : c[q].data = cache[q].data

\* What is shown next: the data of the new query, nothing, what was shown, or the data of the last query.
LEMMA Presented ==
    ASSUME NEW v, NEW c, Renders(v, c)
    PROVE  /\ OnScreen' = Query(v) /\ cache' = c
           /\ \/ /\ c[Query(v)].data # None
                 /\ shown' = c[Query(v)].data /\ last' = Query(v)
              \/ /\ c[Query(v)].data = None /\ c[Query(v)].failed
                 /\ shown' = None /\ last' = last
              \/ /\ c[Query(v)].data = None /\ ~c[Query(v)].failed
                 /\ shown' = shown /\ last' = last
              \/ /\ c[Query(v)].data = None /\ ~c[Query(v)].failed
                 /\ shown = None /\ last # None
                 /\ shown' = c[last].data /\ last' = last
<1> DEFINE p == Query(v)
<1>1. view' = v /\ cache' = c /\ shown' = Present(p, c) /\ last' = IF c[p].data # None THEN p ELSE last
  BY DEF Renders, Render
<1>2. OnScreen' = p
  BY <1>1 DEF OnScreen
<1> HIDE DEF p
<1>3. CASE c[p].data # None
  BY <1>1, <1>2, <1>3 DEF Present, p
<1>4. CASE c[p].data = None /\ c[p].failed
  BY <1>1, <1>2, <1>4 DEF Present, p
<1>5. CASE c[p].data = None /\ ~c[p].failed
  <2>1. shown' = Placeholder(c) /\ last' = last
    BY <1>1, <1>5 DEF Present
  <2>2. CASE shown # None /\ shown.query = OnScreen
    <3>1. cache[OnScreen].data # None
      BY <2>2 DEF Renders, ShownInv
    <3>2. shown = cache[OnScreen].data /\ last = OnScreen
      BY <3>1 DEF Renders, ShownInv
    <3>3. c[OnScreen].data # None
      BY <3>1 DEF Renders, Keeps, TypeOK
    <3>4. p # OnScreen
      BY <1>5, <3>3
    <3>5. shown' = c[OnScreen].data
      <4>1. last # None
        BY <3>2, ConstantTypes DEF Renders, TypeOK
      <4> QED BY <2>1, <2>2, <3>2, <4>1 DEF Placeholder
    <3>6. shown' = shown
      BY <3>2, <3>4, <3>5 DEF Renders, TypeOK, p
    <3> QED BY <1>1, <1>2, <1>5, <2>1, <3>6 DEF p
  <2>3. CASE shown # None /\ shown.query # OnScreen
    BY <1>1, <1>2, <1>5, <2>1, <2>3 DEF Placeholder, p
  <2>4. CASE shown = None
    BY <1>1, <1>2, <1>5, <2>1, <2>4 DEF Placeholder, p
  <2> QED BY <2>2, <2>3, <2>4
<1> QED BY <1>3, <1>4, <1>5

\* The invariants about what is shown survive.
LEMMA RenderedShown ==
    ASSUME NEW v, NEW c, Renders(v, c)
    PROVE  CacheInv' /\ ShownInv' /\ shown' \in Results \cup {None} /\ OnScreen' \in DOMAIN cache'
<1>1. OnScreen' = Query(v) /\ cache' = c
  BY Presented
<1>2. \A a : TrueAnswer(a) => TrueAnswer(a)'
  BY DEF Renders, serverVars, TrueAnswer
<1>3. \A q \in DOMAIN c : Good(q, c[q])'
  BY <1>1, <1>2 DEF Renders, serverVars, Good, WellTyped, TrueEntry
<1>4. CacheInv'
  BY <1>1, <1>3 DEF CacheInv
<1>5. \A q \in DOMAIN c : c[q].data # None => /\ c[q].data \in Results /\ c[q].data.query = q
                                              /\ TrueAnswer(c[q].data)'
  BY <1>2, EntryFacts DEF Renders, Good, WellTyped, TrueEntry
<1>6. shown # None => /\ shown \in Results /\ TrueAnswer(shown)
                      /\ shown.query \in DOMAIN c /\ c[shown.query].data # None
  <2>1. shown # None => shown \in Results
    BY DEF Renders, TypeOK
  <2>2. shown # None => TrueAnswer(shown) /\ shown.query \in DOMAIN cache /\ cache[shown.query].data # None
    BY DEF Renders, ShownInv
  <2> QED BY <2>1, <2>2 DEF Renders, Keeps
<1>7. last # None => last \in DOMAIN c /\ c[last].data # None
  BY DEF Renders, ShownInv, Keeps
<1>8. Query(v) \in DOMAIN c
  BY DEF Renders
<1>9. shown' # None => /\ shown' \in Results /\ TrueAnswer(shown)'
                       /\ shown'.query \in DOMAIN c /\ c[shown'.query].data # None
  <2>1. CASE c[Query(v)].data # None
    BY <1>1, <1>2, <1>5, <1>8, <2>1, Presented
  <2>2. CASE c[Query(v)].data = None
    <3>1. CASE shown' = None
      BY <3>1
    <3>2. CASE shown' = shown /\ shown # None
      BY <1>2, <1>6, <3>2
    <3>3. CASE last # None /\ shown' = c[last].data
      BY <1>5, <1>7, <3>3
    <3> QED BY <2>2, <3>1, <3>2, <3>3, Presented
  <2> QED BY <2>1, <2>2
<1>10. last' # None => last' \in DOMAIN c /\ c[last'].data # None
  BY <1>7, <1>8, Presented
<1>11. /\ c[Query(v)].data # None => shown' = c[Query(v)].data /\ last' = Query(v)
       /\ c[Query(v)].data = None /\ c[Query(v)].failed => shown' = None
  BY Presented
<1>12. ShownInv'
  BY <1>1, <1>9, <1>10, <1>11 DEF ShownInv
<1> QED BY <1>1, <1>4, <1>8, <1>9, <1>12

\* The step is one of the promise.
LEMMA RenderedView ==
    ASSUME NEW v, NEW c, Renders(v, c)
    PROVE  [View!Next]_<<OnScreen, shown, last>>
<1> DEFINE p == Query(v)
<1>1. OnScreen' = p /\ p \in DOMAIN c
  BY Presented DEF Renders
<1>2. \A q \in DOMAIN c : c[q].data # None => c[q].data.query = q
  BY DEF Renders, Good, WellTyped
<1>3. shown # None => shown.query \in DOMAIN c /\ c[shown.query].data # None
  BY DEF Renders, ShownInv, Keeps
<1>4. last # None => last \in DOMAIN c /\ c[last].data # None
  BY DEF Renders, ShownInv, Keeps
<1>5. shown # None /\ shown.query = OnScreen =>
          /\ cache[OnScreen].data = shown
          /\ c[OnScreen].data # None /\ c[OnScreen].data.version >= shown.version
  BY DEF Renders, ShownInv, Keeps, TypeOK
<1>6. \/ /\ c[p].data # None
         /\ shown' = c[p].data /\ last' = p
      \/ /\ c[p].data = None /\ c[p].failed
         /\ shown' = None /\ last' = last
      \/ /\ c[p].data = None /\ ~c[p].failed
         /\ shown' = shown /\ last' = last
      \/ /\ c[p].data = None /\ ~c[p].failed
         /\ shown = None /\ last # None
         /\ shown' = c[last].data /\ last' = last
  BY Presented
<1>7. \A q \in DOMAIN c : c[q].data # None => c[q].data.version \in Int
  BY EntryFacts, ResultFacts DEF Renders, Good, WellTyped
<1>8. shown # None => shown.version \in Int
  BY ResultFacts DEF Renders, TypeOK
<1> HIDE DEF p
<1> USE DEF View!Answers, View!Keep, View!Older
<1>9. CASE c[p].data # None /\ shown' = c[p].data /\ last' = p
  <2>1. View!Answers(shown', p) /\ View!Keep
    BY <1>1, <1>2, <1>9
  <2>2. CASE p # OnScreen
    BY <1>1, <2>1, <2>2 DEF View!Next, View!Want
  <2>3. CASE p = OnScreen
    <3>1. ~View!Older(shown', shown)
      <4> SUFFICES ASSUME shown # None, shown.query = OnScreen, shown'.version < shown.version PROVE FALSE
        BY <1>1, <1>2, <1>9, <2>3
      <4> QED BY <1>1, <1>5, <1>7, <1>8, <1>9, <2>3
    <3> QED BY <1>1, <2>1, <2>3, <3>1 DEF View!Next, View!Answer
  <2> QED BY <2>2, <2>3
<1>10. CASE c[p].data = None /\ shown' \in {None, shown} /\ last' = last
  <2>1. ~View!Answers(shown', p)
    BY <1>3, <1>10
  <2>2. CASE p # OnScreen
    BY <1>1, <1>10, <2>1, <2>2 DEF View!Next, View!Want
  <2>3. CASE p = OnScreen
    BY <1>1, <1>10, <2>3 DEF View!Next, View!Fail
  <2> QED BY <2>2, <2>3
<1>11. CASE c[p].data = None /\ shown = None /\ last # None /\ shown' = c[last].data /\ last' = last
  <2>1. View!Answers(shown', last)
    BY <1>2, <1>4, <1>11
  <2>2. last # p
    BY <1>11, <1>4
  <2>3. ~View!Answers(shown', p)
    BY <2>1, <2>2
  <2>4. CASE p # OnScreen
    BY <1>1, <1>11, <2>1, <2>3, <2>4 DEF View!Next, View!Want
  <2>5. CASE p = OnScreen
    BY <1>1, <1>11, <2>1, <2>5 DEF View!Next, View!Retry
  <2> QED BY <2>4, <2>5
<1> QED BY <1>6, <1>9, <1>10, <1>11

-----------------------------------------------------------------------------
\* The steps that render

\* The invariants that a step on the cache has to keep, and its place in the promise.
Core == /\ view \in Views /\ OnScreen \in DOMAIN cache /\ shown \in Results \cup {None}
        /\ CacheInv /\ ShownInv /\ FreshInv

Kept == Core' /\ [View!Next]_<<OnScreen, shown, last>>

LEMMA RendersKept ==
    ASSUME NEW v, NEW c, Renders(v, c), FreshInv'
    PROVE  Kept
<1>1. view' \in Views
  BY DEF Renders, Render
<1> QED BY <1>1, RenderedShown, RenderedView DEF Kept, Core

LEMMA CacheEntries ==
    ASSUME TypeOK, CacheInv, NEW q \in DOMAIN cache
    PROVE  q \in Queries /\ cache[q] \in Entries /\ Good(q, cache[q])
BY DEF CacheInv, Good, WellTyped

LEMMA FreshAsked ==
    ASSUME NEW e, Fresh(e), NEW f, f.load = "asked", f.data = e.data, f.invalid = e.invalid
    PROVE  Fresh(f)
BY DEF Fresh

\* The observer turns to a query.
LEMMA ObserveFacts ==
    ASSUME TypeOK, CacheInv, FreshInv, NEW q \in Queries, NEW aged \in BOOLEAN,
           NEW c, c = Observe(q, aged)
    PROVE  /\ DOMAIN c = DOMAIN cache \cup {q}
           /\ \A r \in DOMAIN c : Good(r, c[r]) /\ Fresh(c[r])
           /\ \A r \in DOMAIN cache : c[r].data = cache[r].data
           /\ c[q].load = "none" => ~c[q].invalid
<1> DEFINE e == IF q \in DOMAIN cache THEN cache[q] ELSE NewEntry
<1> DEFINE f == IF e.load = "none" /\ (e.data = None \/ e.invalid \/ aged) THEN Start(e) ELSE e
<1>1. c = [r \in DOMAIN cache \cup {q} |-> IF r = q THEN f ELSE cache[r]]
  BY DEF Observe, Bind
<1>2. /\ e \in Entries
      /\ e.data # None => e.data.query = q /\ TrueAnswer(e.data)
      /\ Fresh(e)
      /\ e.load # "none" => Good(q, e)
  <2>1. CASE q \in DOMAIN cache
    BY <2>1, CacheEntries DEF FreshInv, Good, WellTyped, TrueEntry
  <2>2. CASE q \notin DOMAIN cache
    BY <2>2, NewEntryFacts DEF Fresh
  <2> QED BY <2>1, <2>2
<1>3. e.data # None => Good(q, e)
  BY CacheEntries, NewEntryFacts
<1> HIDE DEF e
<1>4. /\ f.data = e.data /\ Good(q, f) /\ Fresh(f)
      /\ f.load = "none" => ~f.invalid
  <2>1. CASE e.load = "none" /\ (e.data = None \/ e.invalid \/ aged)
    <3>1. /\ f = Start(e) /\ f \in Entries
          /\ f.data = e.data /\ f.invalid = e.invalid /\ f.load = "asked"
      BY <1>2, <2>1, StartFacts
    <3> HIDE DEF f
    <3>2. Good(q, f)
      BY <1>2, <3>1, GoodAsked
    <3>3. Fresh(f)
      BY <1>2, <3>1, FreshAsked
    <3> QED BY <3>1, <3>2, <3>3
  <2>2. CASE ~(e.load = "none" /\ (e.data = None \/ e.invalid \/ aged))
    BY <1>2, <1>3, <2>2
  <2> QED BY <2>1, <2>2
<1>5. q \in DOMAIN cache => f.data = cache[q].data
  BY <1>4 DEF e
<1> HIDE DEF f
<1>6. \A r \in DOMAIN cache : r # q => Good(r, cache[r]) /\ Fresh(cache[r])
  BY CacheEntries DEF FreshInv
<1> QED BY <1>1, <1>4, <1>5, <1>6

LEMMA SameData ==
    ASSUME TypeOK, CacheInv, NEW c, DOMAIN cache \subseteq DOMAIN c,
           \A r \in DOMAIN cache : c[r].data = cache[r].data
    PROVE  Keeps(c)
<1> SUFFICES ASSUME NEW q \in DOMAIN cache, cache[q].data # None
             PROVE  c[q].data.version >= cache[q].data.version
  BY DEF Keeps
<1>1. cache[q].data.version \in Nat
  BY CacheEntries, EntryFacts, ResultFacts
<1> QED BY <1>1

LEMMA ShowKept ==
    ASSUME TypeOK, CacheInv, FreshInv, ShownInv, NEW v \in Views, Show(v),
           UNCHANGED <<serverVars, acked>>
    PROVE  Kept /\ view' = v
<1>1. \A q \in DOMAIN cache : Good(q, cache[q])
  BY CacheEntries
<1>2. Query(v) \in Queries
  BY QueryType
<1>3. CASE Query(v) = OnScreen /\ Render(v, cache)
  <2>1. Keeps(cache)
    BY SameData
  <2>2. PICK c : c = cache
    OBVIOUS
  <2>3. Renders(v, c)
    BY <1>1, <1>3, <2>1, <2>2 DEF Renders, TypeOK
  <2>4. OnScreen' = OnScreen /\ cache' = cache /\ view' = v
    BY <1>3 DEF Render, OnScreen
  <2>5. FreshInv'
    BY <2>4 DEF FreshInv, Fresh
  <2> QED BY <2>3, <2>4, <2>5, RendersKept
<1>4. CASE Query(v) # OnScreen
  <2>1. PICK aged \in BOOLEAN : Render(v, Observe(Query(v), aged))
    BY <1>4 DEF Show
  <2>2. PICK c : c = Observe(Query(v), aged)
    OBVIOUS
  <2>3. /\ DOMAIN c = DOMAIN cache \cup {Query(v)}
        /\ \A r \in DOMAIN c : Good(r, c[r]) /\ Fresh(c[r])
        /\ \A r \in DOMAIN cache : c[r].data = cache[r].data
        /\ c[Query(v)].load = "none" => ~c[Query(v)].invalid
    BY <1>2, <2>2, ObserveFacts
  <2>4. Keeps(c)
    BY <2>3, SameData
  <2>5. Renders(v, c)
    BY <2>1, <2>2, <2>3, <2>4 DEF Renders
  <2>6. OnScreen' = Query(v) /\ cache' = c /\ view' = v
    BY <2>1, <2>2 DEF Render, OnScreen
  <2>7. FreshInv'
    BY <2>3, <2>6 DEF FreshInv, Fresh
  <2> QED BY <2>5, <2>6, <2>7, RendersKept
<1> QED BY <1>3, <1>4 DEF Show

LEMMA RefetchGood ==
    ASSUME NEW q, NEW e, Good(q, e)
    PROVE  Good(q, Refetch(e))
<1>1. q \in Queries /\ e \in Entries /\ (e.data # None => e.data.query = q /\ TrueAnswer(e.data))
  BY DEF Good, WellTyped, TrueEntry
<1>2. CASE Refetch(e) = e
  BY <1>2
<1>3. CASE Refetch(e).load = "asked"
  BY <1>1, <1>3, RefetchFacts, GoodAsked
<1> QED BY <1>1, <1>2, <1>3, RefetchFacts

LEMMA RefreshKept ==
    ASSUME TypeOK, CacheInv, FreshInv, ShownInv, Refresh
    PROVE  Kept
<1>1. PICK c : c = [cache EXCEPT ![OnScreen] = Refetch(cache[OnScreen])]
  OBVIOUS
<1>2. Render(view, c) /\ UNCHANGED <<serverVars, acked>>
  BY <1>1 DEF Refresh, historyVars
<1>3. OnScreen \in DOMAIN cache /\ cache[OnScreen] \in Entries /\ view \in Views
  BY CacheEntries DEF TypeOK
<1>4. /\ DOMAIN c = DOMAIN cache
      /\ \A q \in DOMAIN cache : c[q] = IF q = OnScreen THEN Refetch(cache[q]) ELSE cache[q]
  BY <1>1
<1>5. \A q \in DOMAIN cache : c[q].data = cache[q].data /\ Good(q, c[q])
  BY <1>4, CacheEntries, RefetchFacts, RefetchGood
<1>6. Keeps(c)
  BY <1>4, <1>5, SameData
<1>7. Query(view) = OnScreen
  BY DEF OnScreen
<1>8. Renders(view, c)
  BY <1>2, <1>3, <1>4, <1>5, <1>6, <1>7 DEF Renders
<1>9. OnScreen' = OnScreen /\ cache' = c
  BY <1>2 DEF Render, OnScreen
<1>10. c[OnScreen].load # "none" /\ Fresh(c[OnScreen])
  BY <1>3, <1>4, RefetchFacts DEF FreshInv, Fresh
<1>11. FreshInv'
  BY <1>2, <1>4, <1>9, <1>10 DEF FreshInv, Fresh
<1> QED BY <1>8, <1>11, RendersKept

LEMMA StaleFacts ==
    ASSUME NEW q, NEW e, Good(q, e)
    PROVE  LET f == [e EXCEPT !.invalid = TRUE, !.overtaken = @ \/ e.load # "none"] IN
           /\ f \in Entries /\ f.invalid /\ (e.load # "none" => f.overtaken)
           /\ f.data = e.data /\ f.load = e.load
           /\ Good(q, f)
<1> DEFINE f == [e EXCEPT !.invalid = TRUE, !.overtaken = @ \/ e.load # "none"]
<1>1. e \in Entries
  BY DEF Good, WellTyped
<1>2. /\ f \in Entries /\ f.invalid /\ (e.load # "none" => f.overtaken)
      /\ f.data = e.data /\ f.load = e.load /\ f.rows = e.rows /\ f.failed = e.failed
  BY <1>1 DEF Entries
<1>3. Good(q, f)
  BY <1>2, GoodSame
<1> QED BY <1>2, <1>3

LEMMA InvalidatedEntry ==
    ASSUME TypeOK, CacheInv, NEW q \in DOMAIN cache
    PROVE  LET f == Invalidate(cache)[q] IN
           /\ f.data = cache[q].data /\ Good(q, f)
           /\ f.invalid /\ (f.load = "read" => f.overtaken)
           /\ q = OnScreen => f.load # "none"
<1> DEFINE e == [cache[q] EXCEPT !.invalid = TRUE, !.overtaken = @ \/ cache[q].load # "none"]
<1>1. /\ e \in Entries /\ e.invalid /\ (cache[q].load # "none" => e.overtaken)
      /\ e.data = cache[q].data /\ e.load = cache[q].load
      /\ Good(q, e)
  BY CacheEntries, StaleFacts
<1>2. Invalidate(cache)[q] = IF q = OnScreen THEN Refetch(e) ELSE e
  BY DEF Invalidate
<1> HIDE DEF e
<1>3. CASE q = OnScreen
  BY <1>1, <1>2, <1>3, RefetchFacts, RefetchGood
<1>4. CASE q # OnScreen
  BY <1>1, <1>2, <1>4
<1> QED BY <1>3, <1>4

LEMMA AcknowledgeKept ==
    ASSUME TypeOK, CacheInv, FreshInv, ShownInv, Acknowledge
    PROVE  Kept
<1>1. PICK c : c = Invalidate(cache)
  OBVIOUS
<1>2. Render(view, c) /\ UNCHANGED serverVars
  BY <1>1 DEF Acknowledge
<1>3. OnScreen \in DOMAIN cache /\ view \in Views
  BY DEF TypeOK
<1>4. DOMAIN c = DOMAIN cache
  BY <1>1 DEF Invalidate
<1>5. \A q \in DOMAIN cache : /\ c[q].data = cache[q].data /\ Good(q, c[q])
                              /\ c[q].invalid /\ (c[q].load = "read" => c[q].overtaken)
                              /\ q = OnScreen => c[q].load # "none"
  BY <1>1, InvalidatedEntry
<1>6. Keeps(c)
  BY <1>4, <1>5, SameData
<1>7. Query(view) = OnScreen
  BY DEF OnScreen
<1>8. Renders(view, c)
  BY <1>2, <1>3, <1>4, <1>5, <1>6, <1>7 DEF Renders
<1>9. OnScreen' = OnScreen /\ cache' = c
  BY <1>2 DEF Render, OnScreen
<1>10. FreshInv'
  BY <1>3, <1>4, <1>5, <1>9 DEF FreshInv, Fresh
<1> QED BY <1>8, <1>10, RendersKept

\* The answer to a query: at most as old as the data it replaces, and true if it is as young as the table.
LEMMA AnswerFacts ==
    ASSUME TypeOK, CacheInv, NEW q \in DOMAIN cache, cache[q].load = "read", NEW a,
           a = [query |-> q, skipped |-> Offset(q), count |-> cache[q].rows.count,
                version |-> cache[q].rows.version,
                total |-> IF counting THEN Matching(table, q) ELSE Unknown,
                overtaken |-> cache[q].overtaken]
    PROVE  /\ a \in Results /\ TrueAnswer(a)
           /\ cache[q].data # None => a.version >= cache[q].data.version
<1>1. q \in Queries /\ cache[q] \in Entries /\ Good(q, cache[q])
  BY CacheEntries
<1>2. cache[q].rows \in [count : Nat, version : Nat] /\ cache[q].overtaken \in BOOLEAN
  BY <1>1, EntryFacts DEF Good, WellTyped
<1>3. Matching(table, q) \in Nat /\ Offset(q) \in Int
  BY <1>1, MatchingType, OffsetFacts
<1>4. a \in Results
  BY <1>1, <1>2, <1>3 DEF Results
<1>5. /\ cache[q].rows.version <= version
      /\ cache[q].data # None => cache[q].data.version <= cache[q].rows.version
      /\ cache[q].rows.version = version => cache[q].rows.count = RowsOnPage(q, Matching(table, q))
  BY <1>1 DEF Good, TrueEntry
<1>6. TrueAnswer(a)
  BY <1>5 DEF TrueAnswer
<1>7. cache[q].data # None => a.version >= cache[q].data.version
  BY <1>1, <1>2, <1>5, EntryFacts, ResultFacts
<1> QED BY <1>4, <1>6, <1>7

LEMMA ArriveKept ==
    ASSUME TypeOK, CacheInv, FreshInv, ShownInv, NEW q \in DOMAIN cache, Arrive(q)
    PROVE  Kept
<1>1. PICK a : a = [query |-> q, skipped |-> Offset(q), count |-> cache[q].rows.count,
                    version |-> cache[q].rows.version,
                    total |-> IF counting THEN Matching(table, q) ELSE Unknown,
                    overtaken |-> cache[q].overtaken]
  OBVIOUS
<1>2. PICK f : f = [NewEntry EXCEPT !.data = a]
  OBVIOUS
<1>3. PICK c : c = [cache EXCEPT ![q] = f]
  OBVIOUS
<1>4. cache[q].load = "read" /\ Render(view, c) /\ UNCHANGED <<serverVars, acked>>
  BY <1>1, <1>2, <1>3 DEF Arrive, historyVars
<1>5. /\ a \in Results /\ a # None /\ TrueAnswer(a) /\ a.query = q
      /\ cache[q].data # None => a.version >= cache[q].data.version
  BY <1>1, <1>4, AnswerFacts, ResultFacts
<1>6. f \in Entries /\ f.data = a /\ f.load = "none" /\ ~f.invalid
  BY <1>2, <1>5 DEF NewEntry, Entries
<1>7. Good(q, f)
  BY <1>5, <1>6, CacheEntries DEF Good, WellTyped, TrueEntry
<1>8. Fresh(f)
  <2>1. cache[q].overtaken \/ cache[q].rows.version >= acked
    BY <1>4 DEF FreshInv, Fresh
  <2> QED BY <1>1, <1>6, <2>1 DEF Fresh
<1>9. OnScreen \in DOMAIN cache /\ view \in Views /\ Query(view) = OnScreen
  BY DEF TypeOK, OnScreen
<1>10. DOMAIN c = DOMAIN cache /\ \A r \in DOMAIN cache : c[r] = IF r = q THEN f ELSE cache[r]
  BY <1>3
<1>11. \A r \in DOMAIN c : Good(r, c[r]) /\ Fresh(c[r])
  BY <1>7, <1>8, <1>10, CacheEntries DEF FreshInv
<1>12. Keeps(c)
  <2> SUFFICES ASSUME NEW r \in DOMAIN cache, cache[r].data # None
               PROVE  c[r].data # None /\ c[r].data.version >= cache[r].data.version
    BY <1>10 DEF Keeps
  <2>1. cache[r].data.version \in Nat
    BY CacheEntries, EntryFacts, ResultFacts
  <2> QED BY <1>5, <1>6, <1>10, <2>1
<1>13. Renders(view, c)
  BY <1>4, <1>9, <1>10, <1>11, <1>12 DEF Renders
<1>14. OnScreen' = OnScreen /\ cache' = c
  BY <1>4 DEF Render, OnScreen
<1>15. FreshInv'
  BY <1>4, <1>6, <1>9, <1>10, <1>11, <1>14 DEF FreshInv, Fresh
<1> QED BY <1>13, <1>15, RendersKept

LEMMA LoadFailsKept ==
    ASSUME TypeOK, CacheInv, FreshInv, ShownInv, NEW q \in DOMAIN cache, LoadFails(q)
    PROVE  Kept
<1> DEFINE f == [cache[q] EXCEPT !.load = "none", !.rows = None, !.failed = TRUE,
                                 !.invalid = @ \/ cache[q].data # None]
<1> DEFINE c == [cache EXCEPT ![q] = f]
<1>3. Render(view, c) /\ UNCHANGED <<serverVars, acked>>
  BY DEF LoadFails, historyVars
<1>4. q \in Queries /\ cache[q] \in Entries /\ Good(q, cache[q])
  BY CacheEntries
<1>5. /\ f \in Entries /\ f.data = cache[q].data /\ f.load = "none" /\ f.failed
      /\ cache[q].invalid => f.invalid
  BY <1>4 DEF Entries
<1> HIDE DEF f
<1>6. Good(q, f) /\ Fresh(f)
  BY <1>4, <1>5 DEF Good, WellTyped, TrueEntry, FreshInv, Fresh
<1>7. OnScreen \in DOMAIN cache /\ view \in Views /\ Query(view) = OnScreen
  BY DEF TypeOK, OnScreen
<1>8. DOMAIN c = DOMAIN cache /\ \A r \in DOMAIN cache : c[r] = IF r = q THEN f ELSE cache[r]
  OBVIOUS
<1> HIDE DEF c
<1>9. \A r \in DOMAIN c : Good(r, c[r]) /\ Fresh(c[r]) /\ c[r].data = cache[r].data
  BY <1>5, <1>6, <1>8, CacheEntries DEF FreshInv
<1>10. Keeps(c)
  BY <1>8, <1>9, SameData
<1>11. Renders(view, c)
  BY <1>3, <1>7, <1>8, <1>9, <1>10 DEF Renders
<1>12. OnScreen' = OnScreen /\ cache' = c
  BY <1>3 DEF Render, OnScreen
<1>13. FreshInv'
  BY <1>3, <1>5, <1>7, <1>8, <1>9, <1>12 DEF FreshInv, Fresh
<1> QED BY <1>11, <1>13, RendersKept

-----------------------------------------------------------------------------
\* The steps of the server

LEMMA ReadRowsKept ==
    ASSUME TypeOK, CacheInv, FreshInv, ShownInv, NEW q \in DOMAIN cache, ReadRows(q)
    PROVE  Kept
<1>1. PICK rows : rows = [count |-> RowsOnPage(q, Matching(table, q)), version |-> version]
  OBVIOUS
<1>2. PICK f : f = [cache[q] EXCEPT !.load = "read", !.rows = rows]
  OBVIOUS
<1>3. q \in Queries /\ cache[q] \in Entries /\ Good(q, cache[q])
  BY CacheEntries
<1>4. cache' = [cache EXCEPT ![q] = f] /\ UNCHANGED <<serverVars, view, last, shown, acked>>
  BY <1>1, <1>2 DEF ReadRows, historyVars
<1>5. rows \in [count : Nat, version : Nat]
  BY <1>1, <1>3, MatchingType, RowsOnPageType DEF TypeOK
<1>6. /\ f \in Entries /\ f.data = cache[q].data /\ f.load = "read" /\ f.rows = rows
      /\ f.failed = cache[q].failed /\ f.invalid = cache[q].invalid
  BY <1>2, <1>3, <1>5 DEF Entries
<1>7. Good(q, f)
  <2>1. cache[q].data # None => cache[q].data.query = q /\ TrueAnswer(cache[q].data)
    BY <1>3 DEF Good, WellTyped, TrueEntry
  <2>2. rows # None /\ rows.version = version /\ version \in Nat
    BY <1>1, <1>5, ConstantTypes DEF TypeOK
  <2>3. cache[q].data # None => cache[q].data.version <= version
    BY <2>1 DEF TrueAnswer
  <2>4. WellTyped(q, f)
    BY <1>3, <1>6, <2>1, <2>2 DEF WellTyped
  <2>5. TrueEntry(q, f)
    BY <1>1, <1>6, <2>1, <2>2, <2>3 DEF TrueEntry
  <2> QED BY <2>4, <2>5 DEF Good
<1>8. Fresh(f)
  BY <1>1, <1>6 DEF TypeOK, FreshInv, Fresh
<1>9. OnScreen' = OnScreen /\ OnScreen \in DOMAIN cache
  BY <1>4 DEF OnScreen, TypeOK
<1>10. \A r \in DOMAIN cache : cache'[r] = IF r = q THEN f ELSE cache[r]
  BY <1>4
<1>11. DOMAIN cache' = DOMAIN cache
  BY <1>4
<1>12. \A r \in DOMAIN cache : /\ Good(r, cache'[r]) /\ Fresh(cache'[r])
                               /\ cache'[r].data = cache[r].data /\ cache'[r].failed = cache[r].failed
  BY <1>6, <1>7, <1>8, <1>10, CacheEntries DEF FreshInv
<1>13. CacheInv'
  BY <1>4, <1>11, <1>12 DEF CacheInv, Good, WellTyped, TrueEntry, TrueAnswer, serverVars
<1>14. ShownInv'
  BY <1>4, <1>9, <1>11, <1>12 DEF ShownInv, TrueAnswer, serverVars
<1>15. FreshInv'
  BY <1>4, <1>6, <1>9, <1>10, <1>11, <1>12 DEF FreshInv, Fresh
<1> QED BY <1>4, <1>9, <1>11, <1>13, <1>14, <1>15 DEF Kept, Core, TypeOK

\* What has been read is older than the change.
LEMMA ChangeKept ==
    ASSUME TypeOK, CacheInv, FreshInv, ShownInv, Change
    PROVE  Kept
<1>1. version' = version + 1 /\ version \in Nat /\ UNCHANGED <<view, cache, last, shown, acked>>
  BY DEF Change, TypeOK
<1>2. OnScreen' = OnScreen
  BY <1>1 DEF OnScreen
<1>3. ASSUME NEW a \in Results, TrueAnswer(a) PROVE TrueAnswer(a)'
  BY <1>1, <1>3, ResultFacts DEF TrueAnswer
<1>4. ASSUME NEW q \in DOMAIN cache PROVE Good(q, cache[q])'
  <2>1. cache[q] \in Entries /\ Good(q, cache[q])
    BY CacheEntries
  <2>2. cache[q].data # None => cache[q].data \in Results /\ TrueAnswer(cache[q].data)
    BY <2>1, EntryFacts DEF Good, TrueEntry
  <2>3. cache[q].data # None => TrueAnswer(cache[q].data)'
    BY <1>1, <2>2, ResultFacts DEF TrueAnswer
  <2>4. cache[q].load = "read" => cache[q].rows.version \in Nat /\ cache[q].rows.version <= version
    BY <2>1, EntryFacts DEF Good, WellTyped, TrueEntry
  <2> QED BY <1>1, <2>1, <2>3, <2>4 DEF Good, WellTyped, TrueEntry
<1>5. CacheInv'
  BY <1>1, <1>4 DEF CacheInv
<1>6. shown # None => TrueAnswer(shown)'
  BY <1>1, ResultFacts DEF TypeOK, ShownInv, TrueAnswer
<1>7. ShownInv'
  BY <1>1, <1>2, <1>6 DEF ShownInv
<1>8. FreshInv'
  BY <1>1, <1>2 DEF FreshInv, Fresh
<1> QED BY <1>1, <1>2, <1>5, <1>7, <1>8 DEF Kept, Core, TypeOK

-----------------------------------------------------------------------------
\* The page that is open

\* A view that is chosen astray, or is on the first page, or on one with rows.
Safe(v, astray) ==
    v.page # 1 /\ ~astray =>
        /\ v.filters = v.debouncedFilters /\ v.search = v.debouncedSearch
        /\ counting => (v.page - 1) * v.pageSize < Matching(table, Query(v))

\* Rows are counted by filters and search alone.
LEMMA MatchingBy ==
    ASSUME NEW q, NEW r, q.filters = r.filters, q.globalSearch = r.globalSearch
    PROVE  Matching(table, q) = Matching(table, r)
BY DEF Matching, IsConstrained

LEMMA PagedView ==
    ASSUME TypeOK, NEW page \in Nat \ {0}
    PROVE  LET v == [view EXCEPT !.page = page] IN
           /\ v \in Views /\ v.page = page /\ v.pageSize = view.pageSize
           /\ v.filters = view.filters /\ v.debouncedFilters = view.debouncedFilters
           /\ v.search = view.search /\ v.debouncedSearch = view.debouncedSearch
           /\ Matching(table, Query(v)) = Matching(table, OnScreen)
<1> DEFINE v == [view EXCEPT !.page = page]
<1>1. /\ v \in Views /\ v.page = page /\ v.pageSize = view.pageSize
      /\ v.filters = view.filters /\ v.debouncedFilters = view.debouncedFilters
      /\ v.search = view.search /\ v.debouncedSearch = view.debouncedSearch
  BY DEF TypeOK, Views
<1> HIDE DEF v
<1>2. Query(v).filters = OnScreen.filters /\ Query(v).globalSearch = OnScreen.globalSearch
  BY <1>1 DEF Query, OnScreen
<1>3. Matching(table, Query(v)) = Matching(table, OnScreen)
  BY <1>2, MatchingBy
<1> QED BY <1>1, <1>3 DEF v

\* What the buttons know, if they know it.
LEMMA InformedTotal ==
    ASSUME TypeOK, ShownInv, Informed
    PROVE  /\ Total = IF counting THEN Matching(table, OnScreen) ELSE Unknown
           /\ view.filters = view.debouncedFilters /\ view.search = view.debouncedSearch
<1>1. TrueAnswer(shown) /\ shown # None /\ shown.version = version
  BY DEF ShownInv, Informed
<1>2. Matching(table, shown.query) = Matching(table, OnScreen)
  BY MatchingBy DEF Informed
<1> QED BY <1>1, <1>2 DEF TrueAnswer, Total, Informed

\* Turning back stays on pages with rows, turning forth reaches only such.
LEMMA TurnSafe ==
    ASSUME TypeOK, ShownInv, PageInv, NEW page \in Nat \ {0},
           \/ page <= view.page
           \/ page - 1 < LastPage(Total, view.pageSize) /\ Total # Unknown
           \/ Total = Unknown
    PROVE  Safe([view EXCEPT !.page = page], strayed \/ ~Informed)
<1> DEFINE v == [view EXCEPT !.page = page]
<1>1. /\ v.page = page /\ v.pageSize = view.pageSize
      /\ v.filters = view.filters /\ v.debouncedFilters = view.debouncedFilters
      /\ v.search = view.search /\ v.debouncedSearch = view.debouncedSearch
      /\ Matching(table, Query(v)) = Matching(table, OnScreen)
  BY PagedView
<1> SUFFICES ASSUME page # 1, ~strayed, Informed PROVE Safe(v, FALSE)
  BY <1>1 DEF Safe
<1>2. /\ Total = IF counting THEN Matching(table, OnScreen) ELSE Unknown
      /\ view.filters = view.debouncedFilters /\ view.search = view.debouncedSearch
  BY InformedTotal
<1>3. /\ view.pageSize \in Nat \ {0} /\ view.page \in Nat \ {0} /\ Matching(table, OnScreen) \in Nat
      /\ page - 1 \in Nat \ {0}
  BY MatchingType DEF TypeOK, Views
<1>4. ASSUME counting PROVE (page - 1) * view.pageSize < Matching(table, OnScreen)
  <2>1. Total = Matching(table, OnScreen) /\ Total # Unknown
    BY <1>2, <1>3, <1>4, QueryAssumption DEF QueryAssumption
  <2>2. CASE page <= view.page
    <3>1. (view.page - 1) * view.pageSize < Matching(table, OnScreen)
      BY <1>3, <1>4, <2>2 DEF PageInv
    <3>2. (page - 1) * view.pageSize <= (view.page - 1) * view.pageSize
      BY <1>3, <2>2, ProductGrows
    <3>3. (page - 1) * view.pageSize \in Int /\ (view.page - 1) * view.pageSize \in Int
      BY <1>3
    <3> QED BY <1>3, <3>1, <3>2, <3>3
  <2>3. CASE page - 1 < LastPage(Total, view.pageSize)
    BY <1>3, <2>1, <2>3, LastPageIsLast
  <2> QED BY <2>1, <2>2, <2>3
<1> HIDE DEF v
<1> QED BY <1>1, <1>2, <1>4 DEF Safe

LEMMA TurnToClicks ==
    ASSUME TypeOK, ShownInv, PageInv,
           FirstPage \/ PreviousPage \/ NextPage \/ GoToLastPage \/ JumpTo
    PROVE  \E v \in Views, astray \in BOOLEAN : Click(v, astray) /\ Safe(v, astray)
<1>1. /\ view.page \in Nat \ {0} /\ view.pageSize \in Nat \ {0}
      /\ (strayed \/ ~Informed) \in BOOLEAN
  BY DEF TypeOK, Views
<1>2. Total \in Nat \cup {Unknown}
  BY DEF Total, TypeOK, Results
<1>3. ASSUME NEW page \in Nat \ {0}, TurnTo(page), Safe([view EXCEPT !.page = page], strayed \/ ~Informed)
      PROVE  \E v \in Views, astray \in BOOLEAN : Click(v, astray) /\ Safe(v, astray)
  BY <1>1, <1>3, PagedView DEF TurnTo
<1>4. CASE FirstPage
  <2>1. 1 \in Nat \ {0} /\ 1 <= view.page
    BY <1>1
  <2>2. Safe([view EXCEPT !.page = 1], strayed \/ ~Informed)
    BY <2>1, TurnSafe
  <2> QED BY <1>3, <1>4, <2>1, <2>2 DEF FirstPage
<1>5. CASE PreviousPage
  <2>1. view.page - 1 \in Nat \ {0} /\ view.page - 1 <= view.page
    BY <1>1, <1>5 DEF PreviousPage
  <2>2. Safe([view EXCEPT !.page = view.page - 1], strayed \/ ~Informed)
    BY <2>1, TurnSafe
  <2> QED BY <1>3, <1>5, <2>1, <2>2 DEF PreviousPage
<1>6. CASE NextPage
  <2>1. view.page + 1 \in Nat \ {0} /\ (view.page + 1) - 1 = view.page
    BY <1>1
  <2>2. Total # Unknown => view.page < LastPage(Total, view.pageSize)
    BY <1>6 DEF NextPage, NextEnabled
  <2>3. Safe([view EXCEPT !.page = view.page + 1], strayed \/ ~Informed)
    BY <2>1, <2>2, TurnSafe
  <2> QED BY <1>3, <1>6, <2>1, <2>3 DEF NextPage
<1>7. CASE GoToLastPage
  <2> DEFINE n == LastPage(Total, view.pageSize)
  <2>1. Total # Unknown /\ view.page < n
    BY <1>7 DEF GoToLastPage, LastEnabled
  <2>2. n \in Int
    BY <1>1, <1>2, <2>1 DEF LastPage
  <2>3. n \in Nat \ {0} /\ n - 1 < n
    BY <1>1, <2>1, <2>2
  <2>4. Safe([view EXCEPT !.page = n], strayed \/ ~Informed)
    BY <2>1, <2>3, TurnSafe
  <2> HIDE DEF n
  <2> QED BY <1>3, <1>7, <2>3, <2>4 DEF GoToLastPage, n
<1>8. CASE JumpTo
  <2>1. PICK page \in Jumps : Click([view EXCEPT !.page = page], TRUE)
    BY <1>8 DEF JumpTo
  <2>2. page \in Nat \ {0}
    BY ConstantTypes
  <2> QED BY <2>1, <2>2, PagedView DEF Safe
<1> QED BY <1>4, <1>5, <1>6, <1>7, <1>8

\* Whatever is chosen with the first page makes a view.
LEMMA FirstPages ==
    ASSUME NEW v \in Views
    PROVE  /\ \A sort \in Sorts : /\ [v EXCEPT !.sort = sort, !.page = 1] \in Views
                                 /\ [v EXCEPT !.sort = sort, !.page = 1].page = 1
           /\ \A size \in Nat \ {0} : /\ [v EXCEPT !.pageSize = size, !.page = 1] \in Views
                                     /\ [v EXCEPT !.pageSize = size, !.page = 1].page = 1
           /\ \A filters \in Filters : /\ [v EXCEPT !.filters = filters, !.page = 1] \in Views
                                      /\ [v EXCEPT !.filters = filters, !.page = 1].page = 1
<1>1. 1 \in Nat \ {0}
  OBVIOUS
<1>2. ASSUME NEW sort \in Sorts
      PROVE  /\ [v EXCEPT !.sort = sort, !.page = 1] \in Views
             /\ [v EXCEPT !.sort = sort, !.page = 1].page = 1
  BY <1>1 DEF Views
<1>3. ASSUME NEW size \in Nat \ {0}
      PROVE  /\ [v EXCEPT !.pageSize = size, !.page = 1] \in Views
             /\ [v EXCEPT !.pageSize = size, !.page = 1].page = 1
  BY <1>1 DEF Views
<1>4. ASSUME NEW filters \in Filters
      PROVE  /\ [v EXCEPT !.filters = filters, !.page = 1] \in Views
             /\ [v EXCEPT !.filters = filters, !.page = 1].page = 1
  BY <1>1 DEF Views
<1> QED BY <1>2, <1>3, <1>4

\* The user's other clicks lead to the first page, or they may lead astray.
LEMMA OtherClicks ==
    ASSUME TypeOK,
           HandleSort \/ ChangePageSize \/ SetFilter \/ ClearFilters \/ GlobalSearch \/ ResetLayout
    PROVE  \E v \in Views, astray \in BOOLEAN : Click(v, astray) /\ Safe(v, astray)
<1>1. /\ view \in Views /\ strayed \in BOOLEAN
  BY DEF TypeOK
<1>2. CASE HandleSort
  <2>1. PICK c \in Sortable, multi \in BOOLEAN :
           Click([view EXCEPT !.sort = CycleSort(view.sort, c, multi), !.page = 1], strayed)
    BY <1>2 DEF HandleSort
  <2>2. PICK sort \in Sorts : sort = CycleSort(view.sort, c, multi)
    BY <1>1, GridAssumption DEF GridAssumption, Views
  <2>3. [view EXCEPT !.sort = sort, !.page = 1] \in Views /\ [view EXCEPT !.sort = sort, !.page = 1].page = 1
    BY <1>1, FirstPages
  <2> QED BY <1>1, <2>1, <2>2, <2>3 DEF Safe
<1>3. CASE ChangePageSize
  <2>1. PICK size \in PageSizes : Click([view EXCEPT !.pageSize = size, !.page = 1], strayed)
    BY <1>3 DEF ChangePageSize
  <2>2. /\ [view EXCEPT !.pageSize = size, !.page = 1] \in Views
        /\ [view EXCEPT !.pageSize = size, !.page = 1].page = 1
    BY <1>1, ConstantTypes, FirstPages
  <2> QED BY <1>1, <2>1, <2>2 DEF Safe
<1>4. CASE SetFilter
  <2> DEFINE Old(c) == IF c \in DOMAIN view.filters THEN view.filters[c]
                       ELSE [operator |-> FirstOperator(GridColumns[c].clrType), value |-> "", secondValue |-> ""]
             Edits(c) == {[Old(c) EXCEPT !.operator = op] : op \in Operators}
                         \cup {[Old(c) EXCEPT !.value = t] : t \in FilterTexts}
                         \cup {[Old(c) EXCEPT !.secondValue = t] : t \in FilterTexts}
  <2>1. PICK c \in DOMAIN GridColumns :
           \E new \in Edits(c) : Click([view EXCEPT !.filters = Bind(@, c, new), !.page = 1], strayed)
    BY <1>4 DEF SetFilter
  <2>2. view.filters \in Filters
    BY <1>1 DEF Views
  <2>3. Old(c) \in FilterStates
    <3>1. CASE c \in DOMAIN view.filters
      BY <2>2, <3>1, FiltersDomain
    <3>2. CASE c \notin DOMAIN view.filters
      BY <3>2, ConstantTypes DEF FilterStates
    <3> QED BY <3>1, <3>2
  <2> HIDE DEF Old
  <2>4. PICK new \in Edits(c) : Click([view EXCEPT !.filters = Bind(@, c, new), !.page = 1], strayed)
    BY <2>1
  <2>5. new \in FilterStates
    BY <2>3, <2>4 DEF FilterStates
  <2>6. PICK filters \in Filters : filters = Bind(view.filters, c, new)
    BY <2>2, <2>5, BindFilters
  <2>7. /\ [view EXCEPT !.filters = filters, !.page = 1] \in Views
        /\ [view EXCEPT !.filters = filters, !.page = 1].page = 1
    BY <1>1, FirstPages
  <2> QED BY <1>1, <2>4, <2>6, <2>7 DEF Safe
<1>5. CASE ClearFilters
  <2>1. [view EXCEPT !.filters = <<>>] \in Views
    BY <1>1, NoFilters DEF Views
  <2> QED BY <1>5, <2>1 DEF ClearFilters, Safe
<1>6. CASE GlobalSearch
  <2>1. \A t \in SearchTexts : [view EXCEPT !.search = t] \in Views
    BY <1>1 DEF Views
  <2> QED BY <1>6, <2>1 DEF GlobalSearch, Safe
<1>7. CASE ResetLayout
  <2>1. [view EXCEPT !.sort = <<>>, !.pageSize = DefaultPageSize] \in Views
    BY <1>1, ConstantTypes DEF Views
  <2> QED BY <1>7, <2>1 DEF ResetLayout, Safe
<1> QED BY <1>2, <1>3, <1>4, <1>5, <1>6, <1>7

-----------------------------------------------------------------------------
\* The invariant

\* What TypeOK says of the variables that no step of the cache changes.
RestTypes ==
    /\ table \in Tables /\ version \in Nat /\ counting \in BOOLEAN /\ loaded \in BOOLEAN
    /\ unheard \subseteq 1..version /\ acked \in 0..version
    /\ strayed \in BOOLEAN /\ budget \in Budgets

LEMMA TypesOfParts ==
    ASSUME Core, RestTypes
    PROVE  TypeOK
BY DEF Core, RestTypes, TypeOK, CacheInv, Good, WellTyped, ShownInv

LEMMA SpendType ==
    ASSUME TypeOK, NEW what \in {"clicks", "own", "others", "failures"}, Spend(what)
    PROVE  budget' \in Budgets
<1>1. budget \in Budgets
  BY DEF TypeOK
<1>2. budget[what] \in Nat /\ budget[what] > 0
  BY <1>1 DEF Spend, Budgets
<1>3. budget[what] - 1 \in Nat
  BY <1>2
<1> QED BY <1>1, <1>3 DEF Spend, Budgets

LEMMA ClickStep ==
    ASSUME IndInv, NEW v \in Views, NEW astray \in BOOLEAN, Click(v, astray), Safe(v, astray)
    PROVE  Kept /\ RestTypes' /\ PageInv'
<1>1. Kept /\ view' = v
  BY ShowKept DEF IndInv, Click
<1>2. RestTypes'
  BY SpendType DEF IndInv, Click, serverVars, TypeOK, RestTypes
<1>3. PageInv'
  BY <1>1 DEF Click, Safe, PageInv, OnScreen, serverVars
<1> QED BY <1>1, <1>2, <1>3

LEMMA UserStep ==
    ASSUME IndInv, User
    PROVE  Kept /\ RestTypes' /\ PageInv'
<1>1. CASE Refresh
  <2>1. Kept
    BY <1>1, RefreshKept DEF IndInv
  <2>2. RestTypes'
    BY <1>1, SpendType DEF IndInv, Refresh, serverVars, historyVars, TypeOK, RestTypes
  <2>3. PageInv'
    BY <1>1 DEF IndInv, Refresh, Render, serverVars, historyVars, PageInv, OnScreen
  <2> QED BY <2>1, <2>2, <2>3
<1>2. CASE ~Refresh
  BY <1>2, TurnToClicks, OtherClicks, ClickStep DEF IndInv, User
<1> QED BY <1>1, <1>2

\* Texts that are still to be sent have led astray already, or the first page is open.
LEMMA DebounceStep ==
    ASSUME IndInv, DebounceFilters \/ DebounceSearch
    PROVE  Kept /\ RestTypes' /\ PageInv'
<1>1. /\ [view EXCEPT !.debouncedFilters = view.filters] \in Views
      /\ [view EXCEPT !.debouncedFilters = view.filters].page = view.page
      /\ [view EXCEPT !.debouncedSearch = view.search] \in Views
      /\ [view EXCEPT !.debouncedSearch = view.search].page = view.page
  BY DEF IndInv, TypeOK, Views
<1>2. UNCHANGED <<serverVars, loaded, unheard, historyVars, budget>>
  BY DEF DebounceFilters, DebounceSearch
<1>3. PICK v \in Views : Show(v) /\ v.page = view.page
  BY <1>1 DEF DebounceFilters, DebounceSearch
<1>4. Kept /\ view' = v
  BY <1>2, <1>3, ShowKept DEF IndInv, historyVars
<1>5. RestTypes'
  BY <1>2 DEF IndInv, serverVars, historyVars, TypeOK, RestTypes
<1>6. strayed \/ view.page = 1
  BY DEF IndInv, PageInv, DebounceFilters, DebounceSearch
<1>7. PageInv'
  BY <1>2, <1>3, <1>4, <1>6 DEF PageInv, historyVars
<1> QED BY <1>4, <1>5, <1>7

LEMMA LayoutStep ==
    ASSUME IndInv, LayoutArrives
    PROVE  Kept /\ RestTypes' /\ PageInv'
<1>1. PICK layout \in Layouts :
         Show([view EXCEPT !.page = 1, !.pageSize = layout.pageSize, !.sort = layout.sort,
                           !.filters = <<>>, !.search = ""])
  BY DEF LayoutArrives
<1>2. layout.sort \in Sorts /\ layout.pageSize \in Nat \ {0} /\ 1 \in Nat \ {0}
  <2>1. layout \in [sort : Sorts, pageSize : Nat \ {0}]
    BY GridAssumption DEF GridAssumption
  <2> QED BY <2>1
<1> DEFINE v == [view EXCEPT !.page = 1, !.pageSize = layout.pageSize, !.sort = layout.sort,
                             !.filters = <<>>, !.search = ""]
<1>3. v \in Views /\ v.page = 1
  BY <1>2, NoFilters, ConstantTypes DEF IndInv, TypeOK, Views
<1> HIDE DEF v
<1>4. UNCHANGED <<serverVars, unheard, acked, budget>> /\ loaded' = TRUE /\ strayed' = FALSE
  BY DEF LayoutArrives
<1>5. Kept /\ view' = v
  BY <1>1, <1>3, <1>4, ShowKept DEF IndInv, v
<1>6. RestTypes'
  BY <1>4 DEF IndInv, serverVars, TypeOK, RestTypes
<1>7. PageInv'
  BY <1>3, <1>5 DEF PageInv
<1> QED BY <1>5, <1>6, <1>7

\* Loads and acknowledgements leave the view alone.
LEMMA LoadStep ==
    ASSUME IndInv, NEW q \in DOMAIN cache, Load(q)
    PROVE  Kept /\ RestTypes' /\ PageInv'
<1>1. Kept
  BY ReadRowsKept, ArriveKept, LoadFailsKept DEF IndInv, Load
<1>2. UNCHANGED <<table, version, counting, view, loaded, unheard, acked, strayed>>
  BY DEF Load, ReadRows, Arrive, LoadFails, Render, serverVars, historyVars
<1>3. budget' \in Budgets
  BY SpendType DEF IndInv, TypeOK, Load, ReadRows, Arrive, LoadFails
<1>4. RestTypes'
  BY <1>2, <1>3 DEF IndInv, TypeOK, RestTypes
<1>5. PageInv'
  BY <1>2 DEF IndInv, PageInv, OnScreen
<1> QED BY <1>1, <1>4, <1>5

LEMMA AcknowledgeStep ==
    ASSUME IndInv, Acknowledge
    PROVE  Kept /\ RestTypes' /\ PageInv'
<1>1. Kept
  BY AcknowledgeKept DEF IndInv
<1>2. UNCHANGED <<table, version, counting, view, loaded, strayed, budget>>
  BY DEF Acknowledge, Render, serverVars
<1>3. unheard' \subseteq 1..version /\ acked' \in 0..version
  BY DEF IndInv, TypeOK, Acknowledge
<1>4. RestTypes'
  BY <1>2, <1>3 DEF IndInv, TypeOK, RestTypes
<1>5. PageInv'
  BY <1>2 DEF IndInv, PageInv, OnScreen
<1> QED BY <1>1, <1>4, <1>5

LEMMA ChangeStep ==
    ASSUME IndInv, OwnChange \/ OthersChange
    PROVE  Kept /\ RestTypes' /\ PageInv'
<1>1. Change
  BY DEF OwnChange, OthersChange
<1>2. Kept
  BY <1>1, ChangeKept DEF IndInv
<1>3. budget' \in Budgets
  BY SpendType DEF IndInv, OwnChange, OthersChange
<1>4. version' = version + 1 /\ version \in Nat
  BY <1>1 DEF IndInv, TypeOK, Change
<1>5. unheard' \subseteq 1..version'
  <2>1. unheard \subseteq 1..version
    BY DEF IndInv, TypeOK
  <2>2. unheard' \subseteq unheard \cup {version'}
    BY DEF OwnChange, OthersChange
  <2> QED BY <1>4, <2>1, <2>2
<1>6. acked' \in 0..version'
  BY <1>1, <1>4 DEF IndInv, TypeOK, Change
<1>7. RestTypes'
  BY <1>1, <1>3, <1>4, <1>5, <1>6 DEF IndInv, TypeOK, RestTypes, Change
<1>8. PageInv'
  BY <1>1 DEF Change, PageInv
<1> QED BY <1>2, <1>7, <1>8

LEMMA NextStep ==
    ASSUME IndInv, Next
    PROVE  IndInv' /\ [View!Next]_<<OnScreen, shown, last>>
<1>1. Kept /\ RestTypes' /\ PageInv'
  BY UserStep, DebounceStep, LayoutStep, LoadStep, AcknowledgeStep, ChangeStep
     DEF IndInv, Next, Background
<1>2. Core' /\ RestTypes' => TypeOK'
  BY TypesOfParts, PTL
<1> QED BY <1>1, <1>2 DEF Kept, Core, IndInv

LEMMA InitialStates ==
    ASSUME Init
    PROVE  IndInv /\ View!Init
<1>1. /\ table \in Tables /\ counting \in BOOLEAN /\ budget \in Budgets
  <2>1. PICK s \in Starts : table = s.table /\ counting = s.counting /\ budget = s.budget
    BY DEF Init
  <2>2. s \in [table : Tables, counting : BOOLEAN, budget : Budgets]
    BY GridAssumption DEF GridAssumption
  <2> QED BY <2>1, <2>2
<1>2. view \in Views /\ view.page = 1
  <2>1. 1 \in Nat \ {0}
    OBVIOUS
  <2> QED BY <2>1, NoFilters, ConstantTypes DEF Init, Views
<1>3. OnScreen \in Queries
  BY <1>2, QueryType DEF OnScreen
<1>4. PICK e : e = Start(NewEntry)
  OBVIOUS
<1>5. /\ e \in Entries /\ e.data = None /\ e.load = "asked" /\ ~e.failed
      /\ Good(OnScreen, e) /\ Fresh(e)
  <2>1. e \in Entries /\ e.data = None /\ e.load = "asked" /\ ~e.failed
    BY <1>4, NewEntryFacts, StartFacts
  <2> QED BY <1>3, <2>1 DEF Good, WellTyped, TrueEntry, Fresh
<1>6. DOMAIN cache = {OnScreen} /\ cache[OnScreen] = e
  BY <1>4 DEF Init
<1>7. /\ version = 0 /\ loaded = FALSE /\ unheard = {} /\ acked = 0 /\ strayed = FALSE
      /\ shown = None /\ last = None
  BY DEF Init
<1>8. CacheInv /\ FreshInv
  BY <1>5, <1>6 DEF CacheInv, FreshInv
<1>9. ShownInv /\ PageInv
  BY <1>2, <1>5, <1>6, <1>7 DEF ShownInv, PageInv
<1>10. RestTypes
  <2>1. unheard \subseteq 1..version /\ acked \in 0..version
    BY <1>7
  <2> QED BY <1>1, <1>7, <2>1 DEF RestTypes
<1>11. TypeOK
  BY <1>2, <1>6, <1>7, <1>8, <1>9, <1>10, TypesOfParts DEF Core
<1> QED BY <1>7, <1>8, <1>9, <1>11 DEF IndInv, View!Init

LEMMA Stuttering ==
    ASSUME IndInv, UNCHANGED vars
    PROVE  IndInv' /\ UNCHANGED <<OnScreen, shown, last>>
<1>1. UNCHANGED <<table, version, counting, view, loaded, cache, last, shown, unheard, acked, strayed, budget>>
  BY DEF vars
<1>2. OnScreen' = OnScreen
  BY <1>1 DEF OnScreen
<1>3. TypeOK'
  BY <1>1, <1>2 DEF IndInv, TypeOK
<1>4. CacheInv' /\ FreshInv'
  BY <1>1, <1>2 DEF IndInv, CacheInv, Good, WellTyped, TrueEntry, TrueAnswer, FreshInv, Fresh
<1>5. ShownInv' /\ PageInv'
  BY <1>1, <1>2 DEF IndInv, ShownInv, TrueAnswer, PageInv
<1> QED BY <1>1, <1>2, <1>3, <1>4, <1>5 DEF IndInv

LEMMA InductiveInvariant == Spec => []IndInv
<1>1. Init => IndInv
  BY InitialStates
<1>2. IndInv /\ [Next]_vars => IndInv'
  BY NextStep, Stuttering
<1> QED BY <1>1, <1>2, PTL DEF Spec

-----------------------------------------------------------------------------
\* The theorems

\* What the variables hold is what the code can put into them: every entry of the cache belongs to its query, a load
\* that is over has left data or an error, and there is always an entry for the query on screen (DataGrid.tsx:67).
THEOREM TypeCorrect == Spec => []TypeOK
<1>1. IndInv => TypeOK
  BY DEF IndInv
<1> QED BY <1>1, InductiveInvariant, PTL

\* A grid at rest shows the entry on screen, which tells the truth unless rows have changed since it was read.
LEMMA AtRest ==
    ASSUME IndInv, Settled
    PROVE  /\ OnScreen \in Queries /\ cache[OnScreen] \in Entries
           /\ shown = None => cache[OnScreen].failed
           /\ shown # None => /\ shown = cache[OnScreen].data
                              /\ shown.query = OnScreen /\ TrueAnswer(shown)
<1>1. OnScreen \in DOMAIN cache /\ cache[OnScreen].load = "none"
  BY DEF IndInv, TypeOK, Settled
<1>2. OnScreen \in Queries /\ cache[OnScreen] \in Entries /\ WellTyped(OnScreen, cache[OnScreen])
  BY <1>1, CacheEntries DEF IndInv, Good
<1>3. cache[OnScreen].data # None => cache[OnScreen].data.query = OnScreen
  BY <1>2 DEF WellTyped
<1>4. cache[OnScreen].data # None \/ cache[OnScreen].failed
  BY <1>1, <1>2 DEF WellTyped
<1> QED BY <1>2, <1>3, <1>4 DEF IndInv, ShownInv

\* Whatever was clicked, debounced, invalidated and lost before: a grid at rest shows the page that its page field says,
\* of the filters and the sort that are set, or nothing after a failure (DataGrid.tsx:67, SqlQueryBuilder.cs:39).
THEOREM RestShowsPage == Spec => []PageIsShown
<1>1. IndInv => PageIsShown
  <2> SUFFICES ASSUME IndInv, Settled
               PROVE  \/ shown = None /\ cache[OnScreen].failed
                      \/ /\ shown # None
                         /\ shown.query.filters = BuildFilterSpecs(view.filters)
                         /\ shown.query.globalSearch = view.search
                         /\ shown.query.sort = view.sort
                         /\ Overflows(OnScreen) \/ shown.skipped = (view.page - 1) * view.pageSize
    BY DEF PageIsShown
  <2>1. CASE shown = None
    BY <2>1, AtRest
  <2>2. CASE shown # None
    <3>1. shown.query = OnScreen /\ shown.skipped = Offset(OnScreen) /\ OnScreen \in Queries
      BY <2>2, AtRest DEF TrueAnswer
    <3>2. /\ OnScreen.filters = BuildFilterSpecs(view.filters) /\ OnScreen.globalSearch = view.search
          /\ OnScreen.sort = view.sort /\ OnScreen.page = view.page /\ OnScreen.pageSize = view.pageSize
      BY DEF OnScreen, Query, Settled
    <3>3. ~Overflows(OnScreen) => Offset(OnScreen) = (OnScreen.page - 1) * OnScreen.pageSize
      BY <3>1, OffsetFacts
    <3> QED BY <2>2, <3>1, <3>2, <3>3
  <2> QED BY <2>1, <2>2
<1> QED BY <1>1, InductiveInvariant, PTL

\* However changes, loads and acknowledgements are interleaved, a grid at rest shows rows that were read after the last
\* acknowledged change of its user, with the exceptions that the property names (queries.ts:56).
THEOREM OwnChangesAreRead == Spec => []ReadYourWrites
<1>1. IndInv => ReadYourWrites
  <2> SUFFICES ASSUME IndInv, Settled, shown # None
               PROVE  shown.version >= acked \/ shown.overtaken \/ cache[OnScreen].failed
    BY DEF ReadYourWrites
  <2>1. shown = cache[OnScreen].data /\ cache[OnScreen].load = "none" /\ OnScreen \in DOMAIN cache
    BY AtRest DEF Settled, IndInv, TypeOK
  <2>2. cache[OnScreen].invalid \/ shown.version >= acked \/ shown.overtaken
    BY <2>1 DEF IndInv, FreshInv, Fresh
  <2>3. cache[OnScreen].invalid => cache[OnScreen].failed
    BY <2>1 DEF IndInv, FreshInv
  <2> QED BY <2>2, <2>3
<1> QED BY <1>1, InductiveInvariant, PTL

\* What a grid at rest with totals shows of a table that has not changed since.
LEMMA RestCounts ==
    ASSUME IndInv, Settled, counting, shown # None, shown.version = version
    PROVE  /\ shown.count = RowsOnPage(OnScreen, Matching(table, OnScreen))
           /\ shown.total = Matching(table, OnScreen)
           /\ Matching(table, OnScreen) \in Nat /\ OnScreen \in Queries
           /\ OnScreen.page = view.page /\ OnScreen.pageSize = view.pageSize
           /\ view.page \in Nat \ {0} /\ view.pageSize \in Nat \ {0}
<1>1. shown.query = OnScreen /\ TrueAnswer(shown) /\ OnScreen \in Queries
  BY AtRest
<1>2. OnScreen.page = view.page /\ OnScreen.pageSize = view.pageSize
  BY DEF OnScreen, Query
<1>3. view.page \in Nat \ {0} /\ view.pageSize \in Nat \ {0}
  BY DEF IndInv, TypeOK, Views
<1>4. Matching(table, OnScreen) \in Nat
  BY MatchingType DEF IndInv
<1> QED BY <1>1, <1>2, <1>3, <1>4 DEF TrueAnswer

\* An empty page although rows match is only reached in the ways that the property names (DataGrid.tsx:105): sorting,
\* filtering, another page size and the buttons do not lead there.
THEOREM NobodyStranded == Spec => []NotStranded
<1>1. IndInv => NotStranded
  <2> SUFFICES ASSUME IndInv, Settled, counting, shown # None, shown.version = version, shown.total # 0, ~strayed
               PROVE  shown.count > 0
    BY DEF NotStranded
  <2> DEFINE n == Matching(table, OnScreen)
  <2> DEFINE before == (OnScreen.page - 1) * OnScreen.pageSize
  <2>1. /\ shown.count = RowsOnPage(OnScreen, n) /\ n \in Nat \ {0} /\ OnScreen \in Queries
        /\ OnScreen.page = view.page /\ OnScreen.pageSize = view.pageSize
        /\ view.page \in Nat \ {0} /\ view.pageSize \in Nat \ {0}
    BY RestCounts
  <2>2. Offset(OnScreen) \in Int /\ before \in Nat /\ Offset(OnScreen) <= before
    BY <2>1, OffsetFacts
  <2>3. before < n
    <3>1. CASE view.page = 1
      <4>1. before = 0
        BY <2>1, <3>1
      <4> QED BY <2>1, <4>1
    <3>2. CASE view.page # 1
      <4>1. (view.page - 1) * view.pageSize < n
        BY <3>2 DEF IndInv, PageInv
      <4> QED BY <2>1, <4>1
    <3> QED BY <3>1, <3>2
  <2> HIDE DEF n, before
  <2>4. Offset(OnScreen) < n
    BY <2>1, <2>2, <2>3
  <2> QED BY <2>1, <2>2, <2>4 DEF RowsOnPage, Least
<1> QED BY <1>1, InductiveInvariant, PTL

\* At rest and with totals, the button for the next page tells exactly whether there are more rows
\* (Pagination.tsx:21, 58).
THEOREM NextTellsMore == Spec => []NextMeansMore
<1>1. IndInv => NextMeansMore
  <2> SUFFICES ASSUME IndInv, Settled, counting, shown # None, shown.version = version, ~Overflows(OnScreen)
               PROVE  NextEnabled(view.page, view.pageSize, Count, Total)
                         <=> view.page * view.pageSize < Matching(table, OnScreen)
    BY DEF NextMeansMore
  <2> DEFINE n == Matching(table, OnScreen)
  <2>1. /\ shown.count = RowsOnPage(OnScreen, n) /\ shown.total = n /\ n \in Nat /\ OnScreen \in Queries
        /\ OnScreen.page = view.page /\ OnScreen.pageSize = view.pageSize
        /\ view.page \in Nat \ {0} /\ view.pageSize \in Nat \ {0}
    BY RestCounts
  <2>2. Count = RowsOnPage(OnScreen, n) /\ Total = n /\ n # Unknown
    BY <2>1, QueryAssumption DEF Count, Total, QueryAssumption
  <2> DEFINE behind == view.page * view.pageSize
  <2>3. Offset(OnScreen) = behind - view.pageSize /\ behind \in Int
    <3>1. Offset(OnScreen) = (view.page - 1) * view.pageSize
      BY <2>1, OffsetFacts
    <3>2. (view.page - 1) * view.pageSize = view.page * view.pageSize - view.pageSize
      BY <2>1
    <3> QED BY <2>1, <3>1, <3>2
  <2>4. view.page < LastPage(n, view.pageSize) <=> behind < n
    BY <2>1, LastPageIsLast
  <2> HIDE DEF n, behind
  <2>5. behind < n => Count >= view.pageSize
    BY <2>1, <2>2, <2>3 DEF RowsOnPage, Least
  <2>6. NextEnabled(view.page, view.pageSize, Count, Total) <=> behind < n
    BY <2>2, <2>4, <2>5 DEF NextEnabled
  <2> QED BY <2>6 DEF n, behind
<1> QED BY <1>1, InductiveInvariant, PTL

\* DataGrid and TanStack Query keep the promise of QueryView: every step that renders shows the answer to the query on
\* screen, or what was there before, and never an answer to a query that has been left (DataGrid.tsx:67).
THEOREM ScreenKeepsPromise == Spec => ViewKept
<1>1. Init => View!Init
  BY InitialStates
<1>2. IndInv /\ [Next]_vars => [View!Next]_<<OnScreen, shown, last>>
  BY NextStep, Stuttering
<1> QED BY <1>1, <1>2, InductiveInvariant, PTL DEF Spec, ViewKept, View!Spec

=============================================================================
