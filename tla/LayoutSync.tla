----------------------------- MODULE LayoutSync -----------------------------
(***************************************************************************)
(* The grid layouts of one user, between one browser tab and the settings  *)
(* store: useObjectLayout.ts, as DataGrid.tsx uses it.                     *)
(*                                                                         *)
(* The tab keeps the settings of all objects in the query cache.  A choice *)
(* in a grid (a column hidden, a sort, a page size) replaces the layout of *)
(* its object in what the cache holds, and the whole is sent to the server *)
(* 600 ms later.  Each mounted grid has a debounce timer of its own, which *)
(* is not cleared when the grid goes.  Requests are answered in any order. *)
(*                                                                         *)
(* A layout is the set of choices that made it, so that a lost choice is   *)
(* a missing element.  On the server a save is one step (SettingsStore).   *)
(***************************************************************************)
EXTENDS Naturals, Sequences

CONSTANTS
    Objects,        \* tables and views
    Choices,        \* changes of a layout, each made at most once
    NotLoaded,      \* the cache before any settings are in it
    None            \* no grid is on the page

ASSUME DistinctValues ==
    /\ None \notin Objects
    /\ NotLoaded \notin [Objects -> SUBSET Choices]

VARIABLES
    stored,     \* the settings on the server
    cache,      \* the settings in the query cache
    fetch,      \* the GET: "none", "asked", "answered"
    fetched,    \* what the answer to the GET holds
    grid,       \* the object whose grid is mounted
    shown,      \* the layout that grid shows
    timers,     \* pending debounce timers, the next to fire first
    puts,       \* the PUTs under way
    \* History, read by no guard.
    made,       \* the choices made for each object
    overlapped  \* did anything begin before what was under way had ended?

tab  == <<cache, fetch, fetched, grid, shown, timers>>
vars == <<stored, tab, puts, made, overlapped>>

---------------------------------------------------------------------------
(* Values *)

Layouts  == SUBSET Choices
Settings == [Objects -> Layouts]

\* GET answers new UserSettingsDto() when nothing is stored.
NoSettings == [o \in Objects |-> {}]

\* own: does the timer belong to the grid that is mounted?
Timers == [settings : Settings, own : BOOLEAN]

\* listening: will the tab hear of the answer?
Puts == [settings : Settings, at : {"sent", "stored", "failed"}, listening : BOOLEAN]

Init ==
    /\ stored = NoSettings
    /\ cache = NotLoaded
    /\ fetch = "none"
    /\ fetched = NoSettings
    /\ grid = None
    /\ shown = {}
    /\ timers = <<>>
    /\ puts = {}
    /\ made = NoSettings
    /\ overlapped = FALSE

\* The settings are loaded, and no request is under way.
Settled == cache # NotLoaded /\ fetch = "none" /\ puts = {}

\* History: this step overlaps what is under way, if quiet does not hold.
Begins(quiet) == overlapped' = (overlapped \/ ~quiet)

---------------------------------------------------------------------------
(* The grid *)

MutantNoKey(o) ==
    /\ grid # o
    /\ grid' = o
    /\ timers' = [i \in DOMAIN timers |-> [timers[i] EXCEPT !.own = FALSE]]
    /\ Begins(grid = None \/ (Settled /\ timers = <<>>))
    /\ UNCHANGED <<stored, cache, fetch, fetched, shown, puts, made>>

\* The user goes to an object.  key={fullName} mounts a new grid, which applies
\* the layout in the cache, or waits for it with the default one.
Select(o) ==
    /\ grid # o
    /\ grid' = o
    /\ shown' = IF cache = NotLoaded THEN {} ELSE cache[o]
    /\ timers' = [i \in DOMAIN timers |-> [timers[i] EXCEPT !.own = FALSE]]
    /\ Begins(grid = None \/ (Settled /\ timers = <<>>))
    /\ UNCHANGED <<stored, cache, fetch, fetched, puts, made>>

MutantNoMerge(o, layout) == [p \in Objects |-> IF p = o THEN layout ELSE {}]

\* { ...current, objectLayouts: { ...current.objectLayouts, [o]: layout } }
Merge(o, layout) ==
    [p \in Objects |-> IF p = o THEN layout
                       ELSE IF cache = NotLoaded THEN {} ELSE cache[p]]

\* The timers of grids that are gone: that of the mounted one, if it is pending,
\* was set last.
Foreign ==
    IF timers # <<>> /\ timers[Len(timers)].own
    THEN SubSeq(timers, 1, Len(timers) - 1) ELSE timers

\* The user changes the layout: the cache at once, the server when the timer
\* fires.  The grid's previous timer is cleared.
Choose(c) ==
    LET merged == Merge(grid, shown \cup {c}) IN
    /\ grid # None
    /\ \A o \in Objects : c \notin made[o]
    /\ shown' = shown \cup {c}
    /\ cache' = merged
    /\ timers' = Append(Foreign, [settings |-> merged, own |-> TRUE])
    /\ made' = [made EXCEPT ![grid] = @ \cup {c}]
    /\ Begins(Settled)
    /\ UNCHANGED <<stored, fetch, fetched, grid, puts>>

\* The page is loaded anew: the timers are gone, the requests go on unheard.
Reload ==
    /\ grid # None
    /\ cache' = NotLoaded
    /\ fetch' = "none"
    /\ fetched' = NoSettings
    /\ grid' = None
    /\ shown' = {}
    /\ timers' = <<>>
    /\ puts' = {[p EXCEPT !.listening = FALSE] : p \in puts}
    /\ Begins(puts = {})
    /\ UNCHANGED <<stored, made>>

---------------------------------------------------------------------------
(* GET /settings *)

\* On mounting or reconnecting, if the settings are not loaded or older than
\* staleTime.  That is 30 s, so no timer is pending.
Fetch ==
    /\ grid # None
    /\ fetch = "none"
    /\ timers = <<>>
    /\ fetch' = "asked"
    /\ Begins(puts = {})
    /\ UNCHANGED <<stored, cache, fetched, grid, shown, timers, puts, made>>

MutantServeNull ==
    /\ fetch = "asked"
    /\ fetch' = "answered"
    /\ fetched' = NotLoaded
    /\ UNCHANGED <<stored, cache, grid, shown, timers, puts, made, overlapped>>

ServeGet ==
    /\ fetch = "asked"
    /\ fetch' = "answered"
    /\ fetched' = stored
    /\ UNCHANGED <<stored, cache, grid, shown, timers, puts, made, overlapped>>

\* Also after the retry: what is in the cache stays.
FetchFails ==
    /\ fetch # "none"
    /\ fetch' = "none"
    /\ fetched' = NoSettings
    /\ UNCHANGED <<stored, cache, grid, shown, timers, puts, made, overlapped>>

MutantNotApplied ==
    /\ fetch = "answered"
    /\ fetch' = "none"
    /\ fetched' = NoSettings
    /\ cache' = fetched
    /\ UNCHANGED <<stored, grid, shown, timers, puts, made, overlapped>>

\* The answer replaces what is in the cache.  A grid that has not applied a
\* layout yet does so now, one that has does not do it again.
Loaded ==
    /\ fetch = "answered"
    /\ fetch' = "none"
    /\ fetched' = NoSettings
    /\ cache' = fetched
    /\ shown' = IF cache = NotLoaded /\ grid # None THEN fetched[grid] ELSE shown
    /\ UNCHANGED <<stored, grid, timers, puts, made, overlapped>>

---------------------------------------------------------------------------
(* PUT /settings *)

Fire ==
    /\ timers # <<>>
    /\ timers' = Tail(timers)
    /\ puts' = puts \cup {[settings |-> Head(timers).settings, at |-> "sent",
                           listening |-> TRUE]}
    /\ Begins(puts = {} /\ fetch = "none")
    /\ UNCHANGED <<stored, cache, fetch, fetched, grid, shown, made>>

Becomes(p, there) == puts' = (puts \ {p}) \cup {[p EXCEPT !.at = there]}

\* SaveAsync, which replaces all that was stored.
StorePut(p) ==
    /\ p.at = "sent"
    /\ stored' = p.settings
    /\ Becomes(p, "stored")
    /\ UNCHANGED <<tab, made, overlapped>>

StoreFails(p) ==
    /\ p.at = "sent"
    /\ Becomes(p, "failed")
    /\ UNCHANGED <<stored, tab, made, overlapped>>

\* onSuccess: the cache becomes what was sent.
Acknowledge(p) ==
    /\ p.at = "stored"
    /\ p.listening
    /\ cache' = p.settings
    /\ puts' = puts \ {p}
    /\ UNCHANGED <<stored, fetch, fetched, grid, shown, timers, made, overlapped>>

\* An error, or no answer: nothing is done about it, and nothing sent again.
GiveUp(p) ==
    /\ p.at # "sent"
    /\ puts' = puts \ {p}
    /\ UNCHANGED <<stored, tab, made, overlapped>>

\* The connection breaks while the server is at work.
LoseTouch(p) ==
    /\ p.at = "sent"
    /\ p.listening
    /\ puts' = (puts \ {p}) \cup {[p EXCEPT !.listening = FALSE]}
    /\ UNCHANGED <<stored, tab, made, overlapped>>

---------------------------------------------------------------------------
(* The specification *)

Next ==
    \/ \E o \in Objects : Select(o)
    \/ \E c \in Choices : Choose(c)
    \/ Reload
    \/ Fetch \/ ServeGet \/ FetchFails \/ Loaded
    \/ Fire
    \/ \E p \in puts :
          StorePut(p) \/ StoreFails(p) \/ Acknowledge(p) \/ GiveUp(p) \/ LoseTouch(p)

Spec == Init /\ [][Next]_vars

---------------------------------------------------------------------------
(* Properties *)

\* Every variable has its type: what is fetched, stored and sent is a layout for
\* every object, never the absence of settings; and the mounted grid has at most
\* one timer, the last.
TypeOK ==
    /\ stored \in Settings
    /\ cache \in {NotLoaded} \cup Settings
    /\ fetch \in {"none", "asked", "answered"}
    /\ fetched \in Settings
    /\ grid \in Objects \cup {None}
    /\ shown \in Layouts
    /\ timers \in Seq(Timers)
    /\ \A i \in DOMAIN timers : timers[i].own => i = Len(timers)
    /\ puts \subseteq Puts
    /\ made \in Settings
    /\ overlapped \in BOOLEAN

\* No layout is saved under another object: whatever grids come and go while
\* timers and requests are pending, the server holds for an object only choices
\* that were made for it.
LayoutsStayApart ==
    \A o \in Objects : stored[o] \subseteq made[o]

\* No stored choice is lost.
NothingLost ==
    \A o \in Objects : stored[o] \subseteq stored'[o]

\* As long as the user waits for what is loading or being saved, and nothing else
\* overlaps, a save never loses a choice that an earlier one stored, for this or
\* another object, although every save replaces all settings, saves and loads
\* fail, answers get lost and pages are reloaded.
SavesKeepChoices ==
    [][~overlapped' => NothingLost]_vars

\* As long as nothing overlaps, the grid shows every choice that the server has
\* for its object, so that its next save has them too.
GridShowsStored ==
    ~overlapped /\ grid # None /\ cache # NotLoaded => stored[grid] \subseteq shown

\* "Persisting here is what makes column hiding / ordering survive pagination,
\* sorting, refresh and even a backend restart" (useObjectLayout.ts:9): what was
\* stored survives.
LayoutsSurvive ==
    [][NothingLost]_vars

=============================================================================
