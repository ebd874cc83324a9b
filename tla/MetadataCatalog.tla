------------------------- MODULE MetadataCatalog -------------------------
(***************************************************************************)
(* The metadata cache shared by every request: CachedMetadataCatalog.cs.   *)
(*                                                                         *)
(* Requests (Callers) run GetAllObjectsAsync concurrently; administrators  *)
(* (Refreshers) run Invalidate, which takes no lock.  The two fields       *)
(* _cache and _loadedAt are plain fields, so each of their reads and       *)
(* writes is a step of its own here.  The gate is a SemaphoreSlim(1, 1):   *)
(* a permit count and a FIFO queue of asynchronous waiters, to the head of *)
(* which Release hands the permit.                                         *)
(*                                                                         *)
(* A catalogue is abstracted to the version of the database schema that    *)
(* each of the three queries of SqlMetadataReader.ReadAllAsync saw.        *)
(***************************************************************************)
EXTENDS Integers, Sequences, SequencesExt

CONSTANTS
    Callers,        \* requests that may be inside GetAllObjectsAsync
    Refreshers,     \* requests that may be inside POST /metadata/refresh
    TTL,            \* Connection.MetadataCacheSeconds, in clock ticks
    Null,           \* the null reference
    NoValue,        \* what a call that is not over, or that threw, returns
    MaxTime,        \* bound: last clock reading
    MaxSchema,      \* bound: last version of the schema
    MaxRefreshes    \* bound: how often Invalidate starts

ASSUME ConstantsAssumption ==
    /\ TTL \in Nat
    /\ MaxTime \in Nat
    /\ MaxSchema \in Nat
    /\ MaxRefreshes \in Nat
    /\ NoValue # Null

VARIABLES
    now,            \* timeProvider.GetUtcNow()
    schema,         \* version of the database schema (external)
    cache,          \* _cache
    loadedAt,       \* _loadedAt
    permits,        \* the free permits of _gate
    waiters,        \* the requests queued in _gate.WaitAsync, oldest first
    pc,             \* where each request is
    seenAt,         \* the clock reading of a request's last IsFresh
    draft,          \* what a request's ReadAllAsync has read so far
    reply,          \* what a request's call returns: a catalogue, Null, NoValue
    refresh,        \* where each Invalidate is
    \* History: observers of the above, read by no guard.
    stamp,          \* when the catalogue in cache got its own _loadedAt, or Null
    cleared,        \* how many Invalidates have cleared _cache
    ticket,         \* which of these each running Invalidate is
    refreshed,      \* the newest Invalidate that has completed
    served,         \* newest object-list version a completed call returned
    began           \* cleared, refreshed and served when each call began

fields   == <<cache, loadedAt>>
gate     == <<permits, waiters>>
observed == <<stamp, cleared, ticket, refreshed, served, began>>
vars == <<now, schema, fields, gate, pc, seenAt, draft, reply, refresh, observed>>

---------------------------------------------------------------------------
(* Values *)

Versions == 0..MaxSchema
Times    == 0..MaxTime
Epochs   == 0..MaxRefreshes

\* read: the schema version seen by the object, column and key queries.
\* since: how many Invalidates had cleared the cache when the first of these ran.
Catalogues == [read : [1..3 -> Versions], since : Epochs]

ASSUME NullAssumption == Null \notin Catalogues /\ NoValue \notin Catalogues

NoDraft == [read |-> <<>>, since |-> 0]

\* default(DateTimeOffset): so long ago that no catalogue is fresh by it.
LongAgo == 0 - TTL

FirstCheck  == {"look1", "clock1", "judge1", "take1"}
SecondCheck == {"look2", "clock2", "judge2", "take2"}
Reload      == {"query", "store", "stamp", "takeLoaded"}
InsideGate  == SecondCheck \cup Reload \cup {"release"}
Locations   == {"idle", "enter", "wait", "done"} \cup FirstCheck \cup InsideGate

Init ==
    /\ now = 0
    /\ schema = 0
    /\ cache = Null
    /\ loadedAt = LongAgo
    /\ permits = 1
    /\ waiters = <<>>
    /\ pc = [c \in Callers |-> "idle"]
    /\ seenAt = [c \in Callers |-> 0]
    /\ draft = [c \in Callers |-> NoDraft]
    /\ reply = [c \in Callers |-> NoValue]
    /\ refresh = [r \in Refreshers |-> "idle"]
    /\ stamp = Null
    /\ cleared = 0
    /\ ticket = [r \in Refreshers |-> 0]
    /\ refreshed = 0
    /\ served = 0
    /\ began = [c \in Callers |-> [cleared |-> 0, refreshed |-> 0, served |-> 0]]

---------------------------------------------------------------------------
(* The clock and the database, which the code only reads. *)

Tick ==
    /\ now < MaxTime
    /\ now' = now + 1
    /\ UNCHANGED <<schema, fields, gate, pc, seenAt, draft, reply, refresh, observed>>

AlterSchema ==
    /\ schema < MaxSchema
    /\ schema' = schema + 1
    /\ UNCHANGED <<now, fields, gate, pc, seenAt, draft, reply, refresh, observed>>

---------------------------------------------------------------------------
(* IsFresh: is _cache set, and is the clock less than TTL past _loadedAt?  *)
(* Each field is read on its own, without the gate in the first check.     *)

Goto(c, here, there) ==
    /\ pc[c] = here
    /\ pc' = [pc EXCEPT ![c] = there]

SeeCache(c, look, clock, stale) ==
    /\ Goto(c, look, IF cache = Null THEN stale ELSE clock)
    /\ UNCHANGED <<now, schema, fields, gate, seenAt, draft, reply, refresh, observed>>

SeeClock(c, clock, judge) ==
    /\ Goto(c, clock, judge)
    /\ seenAt' = [seenAt EXCEPT ![c] = now]
    /\ UNCHANGED <<now, schema, fields, gate, draft, reply, refresh, observed>>

JudgeAge(c, judge, fresh, stale) ==
    LET isFresh == seenAt[c] - loadedAt < TTL IN
    /\ Goto(c, judge, IF isFresh THEN fresh ELSE stale)
    /\ seenAt' = [seenAt EXCEPT ![c] = IF isFresh THEN @ ELSE 0]
    /\ UNCHANGED <<now, schema, fields, gate, draft, reply, refresh, observed>>

\* return _cache: the field is read again, after the check.
Take(c, take, there) ==
    /\ Goto(c, take, there)
    /\ reply' = [reply EXCEPT ![c] = cache]
    /\ seenAt' = [seenAt EXCEPT ![c] = 0]
    /\ UNCHANGED <<now, schema, fields, gate, draft, refresh, observed>>

CheckWithoutGate(c) ==
    \/ SeeCache(c, "look1", "clock1", "enter")
    \/ SeeClock(c, "clock1", "judge1")
    \/ JudgeAge(c, "judge1", "take1", "enter")
    \/ Take(c, "take1", "done")

MutantNoSecondCheck(c) ==
    SeeCache(c, "look2", "query", "query")

CheckInsideGate(c) ==
    \/ SeeCache(c, "look2", "clock2", "query")
    \/ SeeClock(c, "clock2", "judge2")
    \/ JudgeAge(c, "judge2", "take2", "query")
    \/ Take(c, "take2", "release")

---------------------------------------------------------------------------
(* The gate. *)

GetAllObjects(c) ==
    /\ Goto(c, "idle", "look1")
    /\ began' = [began EXCEPT ![c] = [cleared   |-> cleared,
                                      refreshed |-> refreshed,
                                      served    |-> served]]
    /\ UNCHANGED <<now, schema, fields, gate, seenAt, draft, reply, refresh,
                   stamp, cleared, ticket, refreshed, served>>

MutantEnterWithoutPermit(c) ==
    /\ Goto(c, "enter", "look2")
    /\ UNCHANGED <<now, schema, fields, gate, seenAt, draft, reply, refresh, observed>>

EnterGate(c) ==
    /\ \/ /\ permits > 0
          /\ Goto(c, "enter", "look2")
          /\ permits' = permits - 1
          /\ UNCHANGED waiters
       \/ /\ permits = 0
          /\ Goto(c, "enter", "wait")
          /\ waiters' = Append(waiters, c)
          /\ UNCHANGED permits
    /\ UNCHANGED <<now, schema, fields, seenAt, draft, reply, refresh, observed>>

MutantCancelReleases(c) ==
    /\ Goto(c, "enter", "release")
    /\ UNCHANGED <<now, schema, fields, gate, seenAt, draft, reply, refresh, observed>>

\* The request is aborted before it holds the gate: WaitAsync throws outside
\* the try block, so nothing is released.
CancelEntry(c) ==
    /\ \/ /\ Goto(c, "enter", "done")
          /\ UNCHANGED waiters
       \/ /\ Goto(c, "wait", "done")
          /\ \E i \in DOMAIN waiters :
                /\ waiters[i] = c
                /\ waiters' = RemoveAt(waiters, i)
    /\ UNCHANGED <<now, schema, fields, permits, seenAt, draft, reply, refresh, observed>>

\* finally { _gate.Release(); }: the permit goes to the oldest waiter, if any.
Release(c) ==
    /\ pc[c] = "release"
    /\ \/ /\ waiters = <<>>
          /\ permits' = permits + 1
          /\ pc' = [pc EXCEPT ![c] = "done"]
          /\ UNCHANGED waiters
       \/ /\ waiters # <<>>
          /\ pc' = [pc EXCEPT ![c] = "done", ![Head(waiters)] = "look2"]
          /\ waiters' = Tail(waiters)
          /\ UNCHANGED permits
    /\ UNCHANGED <<now, schema, fields, seenAt, draft, reply, refresh, observed>>

---------------------------------------------------------------------------
(* The reload: ReadAllAsync, then the two fields, then return _cache. *)

MutantNoKeyQuery(c) ==
    LET read == Append(draft[c].read, schema) IN
    /\ Goto(c, "query", IF Len(read) = 2 THEN "store" ELSE "query")
    /\ draft' = [draft EXCEPT ![c] = [read |-> read, since |-> cleared]]
    /\ UNCHANGED <<now, schema, fields, gate, seenAt, reply, refresh, observed>>

\* The object, column and key queries, in this order and in no transaction.
RunQuery(c) ==
    LET read == Append(draft[c].read, schema) IN
    /\ Goto(c, "query", IF Len(read) = 3 THEN "store" ELSE "query")
    /\ draft' = [draft EXCEPT ![c] =
                    [read  |-> read,
                     since |-> IF Len(read) = 1 THEN cleared ELSE draft[c].since]]
    /\ UNCHANGED <<now, schema, fields, gate, seenAt, reply, refresh, observed>>

MutantFailureKeepsGate(c) ==
    /\ Goto(c, "query", "done")
    /\ draft' = [draft EXCEPT ![c] = NoDraft]
    /\ UNCHANGED <<now, schema, fields, gate, seenAt, reply, refresh, observed>>

MutantFailureReturnsCache(c) ==
    /\ Goto(c, "query", "takeLoaded")
    /\ draft' = [draft EXCEPT ![c] = NoDraft]
    /\ UNCHANGED <<now, schema, fields, gate, seenAt, reply, refresh, observed>>

\* A query fails, or the request is aborted meanwhile.
QueryFails(c) ==
    /\ Goto(c, "query", "release")
    /\ draft' = [draft EXCEPT ![c] = NoDraft]
    /\ UNCHANGED <<now, schema, fields, gate, seenAt, reply, refresh, observed>>

StoreCache(c) ==
    /\ Goto(c, "store", "stamp")
    /\ cache' = draft[c]
    /\ draft' = [draft EXCEPT ![c] = NoDraft]
    /\ stamp' = Null
    /\ UNCHANGED <<now, schema, loadedAt, gate, seenAt, reply, refresh,
                   cleared, ticket, refreshed, served, began>>

StampCache(c) ==
    /\ Goto(c, "stamp", "takeLoaded")
    /\ loadedAt' = now
    /\ stamp' = IF cache = Null THEN Null ELSE now
    /\ UNCHANGED <<now, schema, cache, gate, seenAt, draft, reply, refresh,
                   cleared, ticket, refreshed, served, began>>

MutantStampFirst(c) ==
    \/ /\ Goto(c, "store", "stamp")
       /\ loadedAt' = now
       /\ UNCHANGED <<now, schema, cache, gate, seenAt, draft, reply, refresh, observed>>
    \/ /\ Goto(c, "stamp", "takeLoaded")
       /\ cache' = draft[c]
       /\ draft' = [draft EXCEPT ![c] = NoDraft]
       /\ stamp' = now
       /\ UNCHANGED <<now, schema, loadedAt, gate, seenAt, reply, refresh,
                      cleared, ticket, refreshed, served, began>>

Publish(c) == StoreCache(c) \/ StampCache(c)

TakeLoaded(c) == Take(c, "takeLoaded", "release")

\* The caller has its answer and the request goes on, or ends.
Return(c) ==
    /\ Goto(c, "done", "idle")
    /\ reply' = [reply EXCEPT ![c] = NoValue]
    /\ served' = IF reply[c] \in {Null, NoValue} \/ reply[c].read[1] < served
                 THEN served
                 ELSE reply[c].read[1]
    /\ began' = [began EXCEPT ![c] = [cleared |-> 0, refreshed |-> 0, served |-> 0]]
    /\ UNCHANGED <<now, schema, fields, gate, seenAt, draft, refresh,
                   stamp, cleared, ticket, refreshed>>

---------------------------------------------------------------------------
(* Invalidate: two writes, taking no lock. *)

ClearCache(r) ==
    /\ refresh[r] = "idle"
    /\ cleared < MaxRefreshes
    /\ refresh' = [refresh EXCEPT ![r] = "clearing"]
    /\ cache' = Null
    /\ stamp' = Null
    /\ cleared' = cleared + 1
    /\ ticket' = [ticket EXCEPT ![r] = cleared + 1]
    /\ UNCHANGED <<now, schema, loadedAt, gate, pc, seenAt, draft, reply,
                   refreshed, served, began>>

ClearLoadedAt(r) ==
    /\ refresh[r] = "clearing"
    /\ refresh' = [refresh EXCEPT ![r] = "idle"]
    /\ loadedAt' = LongAgo
    /\ ticket' = [ticket EXCEPT ![r] = 0]
    /\ refreshed' = IF ticket[r] > refreshed THEN ticket[r] ELSE refreshed
    /\ UNCHANGED <<now, schema, cache, gate, pc, seenAt, draft, reply,
                   stamp, cleared, served, began>>

---------------------------------------------------------------------------
(* The specification *)

\* What a request does once GetAllObjectsAsync is called, failures apart.
Proceed(c) ==
    \/ CheckWithoutGate(c) \/ EnterGate(c) \/ CheckInsideGate(c)
    \/ RunQuery(c) \/ Publish(c) \/ TakeLoaded(c)
    \/ Release(c) \/ Return(c)

Next ==
    \/ Tick
    \/ AlterSchema
    \/ \E c \in Callers :
          GetAllObjects(c) \/ Proceed(c) \/ CancelEntry(c) \/ QueryFails(c)
    \/ \E r \in Refreshers : ClearCache(r) \/ ClearLoadedAt(r)

\* The scheduler runs every ready continuation, and every query answers or
\* fails (command timeout); nobody is obliged to call, to refresh or to abort.
Fairness ==
    /\ \A c \in Callers : WF_vars(Proceed(c) \/ QueryFails(c))
    /\ \A r \in Refreshers : WF_vars(ClearLoadedAt(r))

Spec == Init /\ [][Next]_vars /\ Fairness

---------------------------------------------------------------------------
(* Properties *)

Answered(c) == pc[c] = "done" /\ reply[c] # NoValue /\ reply[c] # Null

\* Every variable has its type: what is cached or returned comes from three
\* queries, and the gate never has less than no permit.
TypeOK ==
    /\ now \in Times
    /\ schema \in Versions
    /\ cache \in Catalogues \cup {Null}
    /\ loadedAt \in Times \cup {LongAgo}
    /\ permits \in Nat
    /\ waiters \in Seq(Callers)
    /\ pc \in [Callers -> Locations]
    /\ seenAt \in [Callers -> Times]
    /\ draft \in [Callers -> [read : Seq(Versions), since : Epochs]]
    /\ reply \in [Callers -> Catalogues \cup {Null, NoValue}]
    /\ refresh \in [Refreshers -> {"idle", "clearing"}]
    /\ stamp \in Times \cup {Null}
    /\ cleared \in Epochs
    /\ ticket \in [Refreshers -> Epochs]
    /\ refreshed \in Epochs
    /\ served \in Versions
    /\ began \in [Callers -> [cleared : Epochs, refreshed : Epochs, served : Versions]]

\* At most one request at a time is between WaitAsync and Release: "concurrent
\* callers share one database round-trip".
SingleReload ==
    \A c, d \in Callers :
        pc[c] \in InsideGate /\ pc[d] \in InsideGate => c = d

\* No permit is lost or forged: the gate is free exactly when nobody is inside,
\* a request queues only behind somebody inside, and the queue holds each
\* waiting request once.
GateInv ==
    /\ permits = IF \E c \in Callers : pc[c] \in InsideGate THEN 0 ELSE 1
    /\ permits = 1 => waiters = <<>>
    /\ \A c \in Callers : pc[c] = "wait" <=> \E i \in DOMAIN waiters : waiters[i] = c
    /\ \A i, j \in DOMAIN waiters : waiters[i] = waiters[j] => i = j

\* The stampede guard: as long as a request queries the database, the cache is
\* empty or expired.  Requests that queued behind a reload use its result
\* instead of reading again, and nobody refills the cache behind a reload.
ReloadOnlyWhenStale ==
    \A c \in Callers :
        pc[c] \in {"query", "store"} => cache = Null \/ now - loadedAt >= TTL

\* A request never returns a catalogue that had expired when the request read
\* the clock, although _cache and _loadedAt are read and written separately.
FreshWhenTaken ==
    \A c \in Callers :
        pc[c] \in {"take1", "take2"} =>
            stamp = Null \/ seenAt[c] - stamp < TTL

\* Time does not go backwards for callers: a call that starts after another
\* one returned gets metadata at least as new.
CallsSeeNewerSchema ==
    \A c \in Callers :
        Answered(c) => reply[c].read[1] >= began[c].served

\* A call returns a null catalogue only if a refresh cleared it meanwhile.
NullOnlyAcrossRefresh ==
    \A c \in Callers :
        pc[c] = "done" /\ reply[c] = Null => cleared > began[c].cleared

\* Every call completes, whatever the others, the database and the refreshes do.
CallsReturn ==
    \A c \in Callers : pc[c] # "idle" ~> pc[c] = "idle"

\* GetAllObjectsAsync returns a non-nullable list ("All tables and views in the
\* database"): a completed call never yields null.
NeverNull ==
    \A c \in Callers : pc[c] = "done" => reply[c] # Null

\* Invalidate "clears the cache so the next read re-queries SQL Server"
\* (Repositories.cs:21): a call that starts after a refresh completed returns
\* what was queried after that refresh cleared the cache.
RefreshDropsCache ==
    \A c \in Callers :
        Answered(c) => reply[c].since >= began[c].refreshed

==========================================================================
