-------------------------- MODULE RecordMutation --------------------------
(***************************************************************************)
(* Creating, updating and deleting records, from the dialog in the browser *)
(* to the committed row and the audit event: RecordForm and DeleteDialog,  *)
(* MutationServices.cs, MutationRepository.cs, SqlErrorTranslator.cs.      *)
(*                                                                         *)
(* Each user has the page open once.  The row a dialog works on is the one *)
(* the grid showed when the user clicked it; its key and rowversion are    *)
(* sent with every submission, however late.  A submission is a request of *)
(* its own: a retry after an error is another request with the same key    *)
(* and token.  Requests interleave at every await; the server may crash,   *)
(* an answer may be lost, and a commit may succeed without the server      *)
(* hearing of it.                                                          *)
(*                                                                         *)
(* SQL Server runs at READ COMMITTED: a row a transaction has changed is   *)
(* locked until the transaction ends, and nobody sees the change before.   *)
(***************************************************************************)
EXTENDS Integers, FiniteSets

CONSTANTS
    Users,      \* who has the page open
    Requests,   \* create, update and delete requests, each made at most once
    Rows,       \* slots of the table
    Keys,       \* values of the stable key
    Absent,     \* the content of an empty slot
    None,       \* a request that has not been made; no request awaited
    NoToken     \* the concurrency token of a request that has none

VARIABLES
    \* The database (external).
    table,      \* the committed content of each slot
    unique,     \* does it enforce that the stable key is unique?
    versioned,  \* has the table a rowversion that the client gets to see?
    tx,         \* each request's transaction: "none", "open", "closed"
    hit,        \* the rows that each request's statement has changed
    \* The browser.
    page,       \* each user's dialog, the row it is for, the request it awaits
    request,    \* what each request asks for, or None
    heard,      \* is the client done with the request: answered or given up?
    \* The server.
    pc,         \* where the handler of each request is
    reply,      \* the outcome of each request, "none" until there is one
    audits,     \* how many audit events each request has written (external)
    \* History, read by no guard.
    applied     \* the requests whose change was committed

database == <<table, unique, versioned, tx, hit, applied>>
browser  == <<page, request, heard>>
server   == <<pc, reply, audits>>
vars     == <<database, browser, server>>

---------------------------------------------------------------------------
(* Values *)

\* A rowversion is identified by what wrote it: the request, or, for a row
\* that was there from the start, the row itself.
Versions == Rows \cup Requests
Tokens   == Versions \cup {NoToken}

ASSUME Distinct ==
    /\ Rows \cap Requests = {}
    /\ NoToken \notin Versions
    /\ None \notin Requests
    /\ Absent \notin [key : Keys, version : Versions]
    /\ None \notin [by : Users, op : {"create", "update", "delete"},
                    key : Keys, token : Tokens]

Records   == [key : Keys, version : Versions]
Submitted == [by : Users, op : {"create", "update", "delete"},
              key : Keys, token : Tokens]
Dialogs   == {"none", "create", "update", "delete"}
Pages     == [dialog : Dialogs, key : Keys \cup {None},
              token : Tokens, awaits : Requests \cup {None}]

\* The handler still runs in the server process.
Running == {"sent", "begun", "executed", "committed"}

\* Outcomes that say the record was not changed.
Refusals == {"refused", "duplicate", "notFound", "conflict", "tooMany"}
Replies  == Refusals \cup {"none", "ok", "failed"}

Init ==
    /\ unique \in BOOLEAN
    /\ versioned \in BOOLEAN
    /\ table \in [Rows -> [key : Keys, version : Rows] \cup {Absent}]
    /\ \A r \in Rows : table[r] # Absent => table[r].version = r
    /\ unique => \A r, s \in Rows :
                    table[r] # Absent /\ table[s] # Absent /\ table[r].key = table[s].key
                        => r = s
    /\ tx = [q \in Requests |-> "none"]
    /\ hit = [q \in Requests |-> {}]
    /\ page = [u \in Users |-> [dialog |-> "none", key |-> None,
                                token |-> NoToken, awaits |-> None]]
    /\ request = [q \in Requests |-> None]
    /\ heard = [q \in Requests |-> FALSE]
    /\ pc = [q \in Requests |-> "unused"]
    /\ reply = [q \in Requests |-> "none"]
    /\ audits = [q \in Requests |-> 0]
    /\ applied = {}

---------------------------------------------------------------------------
(* The browser *)

\* Bound: once every request of the instance is made, no dialog is opened.
MayOpen(u) ==
    /\ page[u].dialog = "none"
    /\ \E q \in Requests : request[q] = None

\* The user clicks a row of the grid, or Edit or Delete in its details.  The
\* grid may have been loaded long before the dialog is submitted.
OpenRecord(u) ==
    \E r \in Rows, op \in {"update", "delete"} :
        /\ MayOpen(u)
        /\ table[r] # Absent
        /\ page' = [page EXCEPT ![u] =
                      [dialog |-> op,
                       key    |-> table[r].key,
                       token  |-> IF versioned THEN table[r].version ELSE NoToken,
                       awaits |-> None]]
        /\ UNCHANGED <<database, request, heard, server>>

\* The same row again, before the grid has been reloaded.  Only with a token does
\* it matter that the row is an old one.
ReopenRecord(u) ==
    \E op \in {"update", "delete"} :
        /\ MayOpen(u)
        /\ page[u].token # NoToken
        /\ page' = [page EXCEPT ![u].dialog = op]
        /\ UNCHANGED <<database, request, heard, server>>

OpenCreate(u) ==
    \E k \in Keys :
        /\ MayOpen(u)
        /\ page' = [page EXCEPT ![u] = [dialog |-> "create", key |-> k,
                                        token |-> NoToken, awaits |-> None]]
        /\ UNCHANGED <<database, request, heard, server>>

\* Cancel, Escape or a click outside: possible while a request is pending,
\* which goes on.
CloseDialog(u) ==
    /\ page[u].dialog # "none"
    /\ page' = [page EXCEPT ![u] = [@ EXCEPT !.dialog = "none", !.awaits = None]]
    /\ UNCHANGED <<database, request, heard, server>>

MutantSubmitClosed(u, q) ==
    /\ page[u].awaits = None
    /\ request[q] = None
    /\ request' = [request EXCEPT ![q] = [by    |-> u,
                                          op    |-> page[u].dialog,
                                          key   |-> page[u].key,
                                          token |-> page[u].token]]
    /\ page' = [page EXCEPT ![u].awaits = q]
    /\ pc' = [pc EXCEPT ![q] = "sent"]
    /\ UNCHANGED <<database, heard, reply, audits>>

\* The button is disabled while the dialog's own request is pending.
Submit(u, q) ==
    /\ page[u].dialog # "none"
    /\ page[u].awaits = None
    /\ request[q] = None
    /\ request' = [request EXCEPT ![q] = [by    |-> u,
                                          op    |-> page[u].dialog,
                                          key   |-> page[u].key,
                                          token |-> page[u].token]]
    /\ page' = [page EXCEPT ![u].awaits = q]
    /\ pc' = [pc EXCEPT ![q] = "sent"]
    /\ UNCHANGED <<database, heard, reply, audits>>

\* The answer arrives.  On success the continuation closes whatever dialog is
\* open by now; otherwise the dialog stays, with the same row.
Receive(q) ==
    LET u == request[q].by IN
    /\ pc[q] = "answered"
    /\ ~heard[q]
    /\ heard' = [heard EXCEPT ![q] = TRUE]
    /\ \/ /\ reply[q] = "ok"
          /\ page' = [page EXCEPT ![u] = [@ EXCEPT !.dialog = "none", !.awaits = None]]
       \/ /\ reply[q] # "ok"
          /\ page' = [page EXCEPT ![u].awaits = IF @ = q THEN None ELSE @]
    /\ UNCHANGED <<database, request, server>>

\* The connection breaks or a proxy gives up; the server may still be at work.
LoseAnswer(q) ==
    LET u == request[q].by IN
    /\ request[q] # None
    /\ ~heard[q]
    /\ heard' = [heard EXCEPT ![q] = TRUE]
    /\ page' = [page EXCEPT ![u].awaits = IF @ = q THEN None ELSE @]
    /\ UNCHANGED <<database, request, server>>

---------------------------------------------------------------------------
(* The server, and the transaction it runs. *)

Holds(q) == tx[q] = "open" /\ hit[q] # {}

\* The row the request was made for: WHERE key = @k AND rowversion = @rowversion,
\* the second part only with a token (BuildKeyWhere).
Matches(q, r) ==
    /\ table[r] # Absent
    /\ table[r].key = request[q].key
    /\ request[q].token \in {NoToken, table[r].version}

MutantNoLocks(q) == FALSE

\* The statement waits for a lock: somebody has changed a row with this key and
\* not committed.  An INSERT waits only where a unique index makes it look.
Blocked(q) ==
    \E p \in Requests \ {q} :
        /\ Holds(p)
        /\ request[p].key = request[q].key
        /\ \/ request[q].op # "create"
           \/ unique

KeyTaken(q) ==
    \E r \in Rows : table[r] # Absent /\ table[r].key = request[q].key

Answer(q, here, outcome) ==
    /\ pc[q] = here
    /\ pc' = [pc EXCEPT ![q] = "answered"]
    /\ reply' = [reply EXCEPT ![q] = outcome]

\* Rollback or commit ends the transaction and gives up its locks.
EndTx(q) ==
    /\ tx' = [tx EXCEPT ![q] = "closed"]
    /\ hit' = [hit EXCEPT ![q] = {}]

\* No metadata, no permission, a bad key or invalid values: nothing is opened.
Refuse(q) ==
    /\ Answer(q, "sent", "refused")
    /\ UNCHANGED <<database, browser, audits>>

Begin(q) ==
    /\ pc[q] = "sent"
    /\ pc' = [pc EXCEPT ![q] = "begun"]
    /\ tx' = [tx EXCEPT ![q] = "open"]
    /\ UNCHANGED <<table, unique, versioned, hit, applied, browser, reply, audits>>

MutantNoToken(q) ==
    /\ pc[q] = "begun"
    /\ ~Blocked(q)
    /\ request[q].op # "create"
    /\ hit' = [hit EXCEPT ![q] = {r \in Rows : table[r] # Absent /\ table[r].key = request[q].key}]
    /\ pc' = [pc EXCEPT ![q] = "executed"]
    /\ UNCHANGED <<table, unique, versioned, tx, applied, browser, reply, audits>>

Execute(q) ==
    /\ pc[q] = "begun"
    /\ ~Blocked(q)
    /\ \/ /\ request[q].op # "create"
          /\ hit' = [hit EXCEPT ![q] = {r \in Rows : Matches(q, r)}]
       \/ \E r \in Rows :
             /\ request[q].op = "create"
             /\ ~(unique /\ KeyTaken(q))
             /\ table[r] = Absent
             /\ \A p \in Requests : r \notin hit[p]
             /\ hit' = [hit EXCEPT ![q] = {r}]
    /\ pc' = [pc EXCEPT ![q] = "executed"]
    /\ UNCHANGED <<table, unique, versioned, tx, applied, browser, reply, audits>>

\* SqlException 2627 or 2601.
Duplicate(q) ==
    /\ Answer(q, "begun", "duplicate")
    /\ ~Blocked(q)
    /\ request[q].op = "create"
    /\ unique /\ KeyTaken(q)
    /\ EndTx(q)
    /\ UNCHANGED <<table, unique, versioned, applied, browser, audits>>

MutantSilentOverwrite(q) ==
    /\ hit[q] = {}
    /\ Answer(q, "executed", "ok")
    /\ EndTx(q)
    /\ UNCHANGED <<table, unique, versioned, applied, browser, audits>>

\* affected == 0
NothingAffected(q) ==
    /\ hit[q] = {}
    /\ Answer(q, "executed",
              IF request[q].token # NoToken THEN "conflict" ELSE "notFound")
    /\ EndTx(q)
    /\ UNCHANGED <<table, unique, versioned, applied, browser, audits>>

\* affected > 1
TooManyAffected(q) ==
    /\ \E r, s \in hit[q] : r # s
    /\ Answer(q, "executed", "tooMany")
    /\ EndTx(q)
    /\ UNCHANGED <<table, unique, versioned, applied, browser, audits>>

\* What a row the statement has changed becomes.
Outcome(q) ==
    IF request[q].op = "delete" THEN Absent ELSE [key |-> request[q].key, version |-> q]

Apply(q) ==
    /\ table' = [r \in Rows |-> IF r \in hit[q] THEN Outcome(q) ELSE table[r]]
    /\ applied' = applied \cup {q}
    /\ EndTx(q)
    /\ UNCHANGED <<unique, versioned, browser, audits>>

MutantCommitAny(q) ==
    /\ pc[q] = "executed"
    /\ hit[q] # {}
    /\ pc' = [pc EXCEPT ![q] = "committed"]
    /\ Apply(q)
    /\ UNCHANGED reply

Commit(q) ==
    /\ pc[q] = "executed"
    /\ \E r \in Rows : hit[q] = {r}
    /\ pc' = [pc EXCEPT ![q] = "committed"]
    /\ Apply(q)
    /\ UNCHANGED reply

\* The commit is durable, but CommitAsync throws: the connection broke.
CommitUnheard(q) ==
    /\ \E r \in Rows : hit[q] = {r}
    /\ Answer(q, "executed", "failed")
    /\ Apply(q)

\* The audit event, after the commit; then the answer.
Audit(q) ==
    /\ Answer(q, "committed", "ok")
    /\ audits' = [audits EXCEPT ![q] = @ + 1]
    /\ UNCHANGED <<database, browser>>

MutantAuditRetried(q) ==
    /\ pc[q] = "committed"
    /\ audits' = [audits EXCEPT ![q] = @ + 1]
    /\ UNCHANGED <<database, browser, pc, reply>>

\* The host's audit writer throws, before or after it has stored the event.
AuditFails(q) ==
    /\ Answer(q, "committed", "failed")
    /\ \/ UNCHANGED audits
       \/ audits' = [audits EXCEPT ![q] = @ + 1]
    /\ UNCHANGED <<database, browser>>

MutantNoRollback(q) ==
    /\ \/ Answer(q, "sent", "failed")
       \/ Answer(q, "begun", "failed")
       \/ Answer(q, "executed", "failed")
    /\ UNCHANGED <<table, unique, versioned, tx, hit, applied, browser, audits>>

MutantTimeoutIsConflict(q) ==
    /\ \/ Answer(q, "begun", "conflict")
       \/ Answer(q, "executed", "conflict")
    /\ EndTx(q)
    /\ UNCHANGED <<table, unique, versioned, applied, browser, audits>>

\* No connection, a constraint, a timeout, a deadlock, or the request aborted.
SqlFails(q) ==
    /\ \/ /\ Answer(q, "sent", "failed")
          /\ UNCHANGED <<tx, hit>>
       \/ /\ \/ Answer(q, "begun", "failed")
             \/ Answer(q, "executed", "failed")
          /\ EndTx(q)
    /\ UNCHANGED <<table, unique, versioned, applied, browser, audits>>

\* The server process ends; SQL Server rolls its open transactions back.
Crash ==
    /\ \E q \in Requests : pc[q] \in Running
    /\ pc' = [q \in Requests |-> IF pc[q] \in Running THEN "died" ELSE pc[q]]
    /\ tx' = [q \in Requests |-> IF tx[q] = "open" THEN "closed" ELSE tx[q]]
    /\ hit' = [q \in Requests |-> {}]
    /\ UNCHANGED <<table, unique, versioned, applied, browser, reply, audits>>

---------------------------------------------------------------------------
(* The specification *)

Handle(q) ==
    \/ Refuse(q) \/ Begin(q)
    \/ Execute(q) \/ Duplicate(q)
    \/ NothingAffected(q) \/ TooManyAffected(q)
    \/ Commit(q) \/ CommitUnheard(q) \/ SqlFails(q)
    \/ Audit(q) \/ AuditFails(q)

Browse(u) ==
    \/ OpenRecord(u) \/ ReopenRecord(u) \/ OpenCreate(u) \/ CloseDialog(u)
    \/ \E q \in Requests : Submit(u, q)

Next ==
    \/ \E u \in Users : Browse(u)
    \/ \E q \in Requests : Handle(q) \/ Receive(q) \/ LoseAnswer(q)
    \/ Crash

\* The server runs every ready continuation, and every statement ends: it
\* finishes, fails or reaches its command timeout.  Users do as they please.
Fairness == \A q \in Requests : WF_vars(Handle(q))

Spec == Init /\ [][Next]_vars /\ Fairness

---------------------------------------------------------------------------
(* Properties *)

\* Every variable has its type: what is submitted is a create, an update or a
\* delete, with a key and perhaps a token, of a dialog that was open.
TypeOK ==
    /\ unique \in BOOLEAN
    /\ versioned \in BOOLEAN
    /\ table \in [Rows -> Records \cup {Absent}]
    /\ tx \in [Requests -> {"none", "open", "closed"}]
    /\ hit \in [Requests -> SUBSET Rows]
    /\ page \in [Users -> Pages]
    /\ request \in [Requests -> Submitted \cup {None}]
    /\ heard \in [Requests -> BOOLEAN]
    /\ pc \in [Requests -> Running \cup {"unused", "answered", "died"}]
    /\ reply \in [Requests -> Replies]
    /\ audits \in [Requests -> Nat]
    /\ applied \in SUBSET Requests

\* No lost update: a rowversion that was read once is spent by at most one
\* committed change, whoever retries, duplicates or delays a submission.
TokenSpentOnce ==
    \A p, q \in applied :
        request[p].token = request[q].token => p = q \/ request[p].token = NoToken

\* What the statement found is still so when the transaction commits: the rows
\* it changed still match, they are all that match where the key is unique or a
\* token is given, and the slot and the key of an INSERT are still free.
StatementStillHolds ==
    \A q \in Requests :
        Holds(q) =>
            \/ /\ request[q].op # "create"
               /\ \A r \in hit[q] : Matches(q, r)
               /\ \/ ~unique /\ request[q].token = NoToken
                  \/ \A r \in Rows : Matches(q, r) => r \in hit[q]
            \/ /\ request[q].op = "create"
               /\ \A r \in hit[q] : table[r] = Absent
               /\ ~(unique /\ KeyTaken(q))

\* A 409 for concurrency is never a false alarm: no row has the token any more.
ConflictIsReal ==
    \A q \in Requests, r \in Rows :
        reply[q] = "conflict" =>
            table[r] = Absent \/ table[r].version # request[q].token

\* A success was committed; an outcome that names a reason changed nothing,
\* and is safe to retry.
AnswerIsTrue ==
    \A q \in Requests :
        /\ reply[q] = "ok" => q \in applied
        /\ reply[q] \in Refusals => q \notin applied

\* Nothing is audited that was not committed, nothing twice, and no success
\* goes without its audit event.
AuditIsTrue ==
    \A q \in Requests :
        /\ audits[q] > 0 => q \in applied
        /\ audits[q] <= 1
        /\ reply[q] = "ok" => audits[q] = 1

\* Every request comes to an end and leaves no transaction open, so no lock
\* outlives its request.
RequestsSettle ==
    \A q \in Requests :
        pc[q] = "sent" ~> pc[q] \in {"answered", "died"} /\ tx[q] # "open"

Promise == INSTANCE OptimisticTable

\* Creating, updating and deleting is atomic, on one row, and optimistic: the
\* handlers and transactions of MutationRepository implement OptimisticTable.
PromiseKept == Promise!Spec

==========================================================================
