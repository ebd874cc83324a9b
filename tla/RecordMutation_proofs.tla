---------------------- MODULE RecordMutation_proofs ----------------------
(* Proofs about RecordMutation, for every number of users, requests, rows *)
(* and keys, with and without a rowversion and a unique key.              *)
EXTENDS RecordMutation, TLAPS

---------------------------------------------------------------------------
(* The parts of the inductive invariant *)

\* Where a handler is tells what its transaction and its answer are.
StageInv ==
    \A q \in Requests :
        /\ request[q] = None <=> pc[q] = "unused"
        /\ tx[q] = "open" <=> pc[q] \in {"begun", "executed"}
        /\ hit[q] # {} => pc[q] = "executed"
        /\ reply[q] # "none" => pc[q] = "answered"
        /\ pc[q] = "committed" => q \in applied
        /\ q \in applied => pc[q] \in {"committed", "answered", "died"}

\* A version was written by a row's creation or by a committed request.
Known == Rows \cup applied

\* Each version is on one row; tokens are versions that were read; a row keeps
\* its key as long as it keeps its version.
VersionInv ==
    /\ \A r \in Rows : table[r] # Absent => table[r].version \in {r} \cup applied
    /\ \A r, s \in Rows :
          table[r] # Absent /\ table[s] # Absent /\ table[r].version = table[s].version
              => r = s
    /\ \A u \in Users :
          /\ page[u].token \in Known \cup {NoToken}
          /\ page[u].dialog = "create" => page[u].token = NoToken
          /\ page[u].dialog # "none" => page[u].key \in Keys
          /\ page[u].token # NoToken => page[u].key \in Keys
          /\ \A r \in Rows :
                table[r] # Absent /\ table[r].version = page[u].token
                    => table[r].key = page[u].key
    /\ \A q \in Requests :
          request[q] # None =>
              /\ request[q].token \in Known \cup {NoToken}
              /\ request[q].op = "create" => request[q].token = NoToken
              /\ \A r \in Rows :
                    table[r] # Absent /\ table[r].version = request[q].token
                        => table[r].key = request[q].key

\* No row has the token of the request.
Spent(q) ==
    \A r \in Rows : table[r] # Absent => table[r].version # request[q].token

\* A token is spent once a request with it was committed, or found no row.
SpentInv ==
    \A q \in Requests :
        /\ q \in applied => Spent(q)
        /\ reply[q] = "conflict" => Spent(q)
        /\ pc[q] = "executed" /\ hit[q] = {} =>
              request[q].op # "create" /\ (request[q].token # NoToken => Spent(q))

\* Transactions that are open at the same time have changed different rows, and
\* the same key only where the database lets it be inserted twice.
LockInv ==
    \A p, q \in Requests :
        p # q /\ Holds(p) /\ Holds(q) =>
            /\ hit[p] \cap hit[q] = {}
            /\ request[p].key = request[q].key =>
                  /\ ~unique
                  /\ request[p].op = "create" \/ request[q].op = "create"

\* The audit event is written after the commit, and once.
AuditInv ==
    \A q \in Requests : pc[q] # "answered" => audits[q] = 0

IndInv ==
    /\ TypeOK
    /\ StageInv
    /\ VersionInv
    /\ SpentInv
    /\ LockInv
    /\ StatementStillHolds
    /\ TokenSpentOnce
    /\ AnswerIsTrue
    /\ AuditInv
    /\ AuditIsTrue

---------------------------------------------------------------------------
(* The initial states *)

\* A model value is no record and no version.
LEMMA Apart ==
    /\ Absent \notin Records
    /\ None \notin Submitted
    /\ None \notin Requests
    /\ NoToken \notin Rows /\ NoToken \notin Requests
    /\ \A r \in Rows : r \notin Requests
BY Distinct DEF Records, Submitted, Versions

\* No dialog, no request, no transaction: every part of the invariant holds.
LEMMA InitInd == Init => IndInv
<1> SUFFICES ASSUME Init PROVE IndInv
  OBVIOUS
<1>1. TypeOK
  <2>1. table \in [Rows -> Records \cup {Absent}]
    <3>1. [key : Keys, version : Rows] \subseteq Records
      BY DEF Records, Versions
    <3> QED BY <3>1 DEF Init
  <2> QED BY <2>1 DEF Init, TypeOK, Dialogs, Pages, Tokens, Replies, Running
<1>2. StageInv
  BY DEF Init, StageInv
<1>3. VersionInv
  BY Apart DEF Init, VersionInv, Known
<1>4. SpentInv
  BY DEF Init, SpentInv
<1>5. LockInv /\ StatementStillHolds
  BY DEF Init, LockInv, StatementStillHolds, Holds
<1>6. TokenSpentOnce /\ AnswerIsTrue
  BY DEF Init, TokenSpentOnce, AnswerIsTrue, Refusals
<1>7. AuditInv /\ AuditIsTrue
  BY DEF Init, AuditInv, AuditIsTrue
<1> QED BY <1>1, <1>2, <1>3, <1>4, <1>5, <1>6, <1>7 DEF IndInv

---------------------------------------------------------------------------
(* Types *)

\* What the row of a dialog is made of.
LEMMA RowType ==
    ASSUME TypeOK, NEW r \in Rows, table[r] # Absent
    PROVE  table[r].key \in Keys /\ table[r].version \in Versions
BY DEF TypeOK, Records

\* A dialog that is open has what a request needs.
LEMMA SubmitType ==
    ASSUME TypeOK, VersionInv, NEW u \in Users, page[u].dialog # "none"
    PROVE  [by |-> u, op |-> page[u].dialog, key |-> page[u].key,
            token |-> page[u].token] \in Submitted
<1>1. page[u].dialog \in {"create", "update", "delete"} /\ page[u].token \in Tokens
  BY DEF TypeOK, Dialogs, Pages
<1>2. page[u].key \in Keys
  BY DEF VersionInv
<1> QED BY <1>1, <1>2 DEF Submitted

\* A page whose dialog has been closed is a page.
LEMMA ClosedType ==
    ASSUME NEW p \in Pages
    PROVE  [p EXCEPT !.dialog = "none", !.awaits = None] \in Pages
BY DEF Pages, Dialogs

\* A page that begins to await a request, or stops awaiting one, is a page.
LEMMA AwaitsType ==
    ASSUME NEW p \in Pages, NEW q \in Requests
    PROVE  /\ [p EXCEPT !.awaits = q] \in Pages
           /\ [p EXCEPT !.awaits = IF @ = q THEN None ELSE @] \in Pages
BY DEF Pages

\* Every step of the browser and of the server keeps every variable's type.
LEMMA TypeStep == TypeOK /\ StageInv /\ VersionInv /\ [Next]_vars => TypeOK'
<1> SUFFICES ASSUME TypeOK, StageInv, VersionInv, [Next]_vars PROVE TypeOK'
  OBVIOUS
<1> USE DEF TypeOK, database, browser, server
<1>1. ASSUME NEW u \in Users, OpenRecord(u) PROVE TypeOK'
  <2>1. PICK r \in Rows, op \in {"update", "delete"} :
           /\ table[r] # Absent
           /\ page' = [page EXCEPT ![u] =
                         [dialog |-> op,
                          key    |-> table[r].key,
                          token  |-> IF versioned THEN table[r].version ELSE NoToken,
                          awaits |-> None]]
    BY <1>1 DEF OpenRecord
  <2>2. table[r].key \in Keys /\ table[r].version \in Tokens /\ NoToken \in Tokens
    BY <2>1, RowType DEF Tokens
  <2>3. page' \in [Users -> Pages]
    BY <2>1, <2>2 DEF Dialogs, Pages
  <2> QED BY <1>1, <2>3 DEF OpenRecord
<1>2. ASSUME NEW u \in Users, ReopenRecord(u) \/ OpenCreate(u) \/ CloseDialog(u)
      PROVE  TypeOK'
  <2>1. CASE ReopenRecord(u)
    <3>1. \A op \in Dialogs : [page[u] EXCEPT !.dialog = op] \in Pages
      BY DEF Pages
    <3>2. page' \in [Users -> Pages]
      BY <2>1, <3>1 DEF ReopenRecord, Dialogs
    <3> QED BY <2>1, <3>2 DEF ReopenRecord
  <2>2. CASE OpenCreate(u)
    BY <2>2 DEF OpenCreate, Dialogs, Pages, Tokens
  <2>3. CASE CloseDialog(u)
    BY <2>3, ClosedType DEF CloseDialog
  <2> QED BY <1>2, <2>1, <2>2, <2>3
<1>3. ASSUME NEW u \in Users, NEW q \in Requests, Submit(u, q) PROVE TypeOK'
  BY <1>3, SubmitType, AwaitsType DEF Submit, Running
<1>4. ASSUME NEW q \in Requests, Receive(q) \/ LoseAnswer(q) PROVE TypeOK'
  <2>1. request[q].by \in Users
    BY <1>4 DEF Receive, LoseAnswer, StageInv, Submitted
  <2>2. CASE Receive(q)
    <3>1. PICK u \in Users :
             \/ page' = [page EXCEPT ![u] = [@ EXCEPT !.dialog = "none", !.awaits = None]]
             \/ page' = [page EXCEPT ![u].awaits = IF @ = q THEN None ELSE @]
      BY <2>1, <2>2 DEF Receive
    <3>2. page' \in [Users -> Pages]
      <4>1. [page[u] EXCEPT !.dialog = "none", !.awaits = None] \in Pages
        BY ClosedType
      <4>2. [page[u] EXCEPT !.awaits = IF @ = q THEN None ELSE @] \in Pages
        BY AwaitsType
      <4> QED BY <3>1, <4>1, <4>2
    <3>3. heard' = [heard EXCEPT ![q] = TRUE] /\ UNCHANGED <<database, request, server>>
      BY <2>2 DEF Receive
    <3> QED BY <3>2, <3>3
  <2>3. CASE LoseAnswer(q)
    BY <2>1, <2>3, AwaitsType DEF LoseAnswer
  <2> QED BY <1>4, <2>2, <2>3
<1>5. ASSUME NEW q \in Requests, Refuse(q) \/ Begin(q) \/ Execute(q) PROVE TypeOK'
  BY <1>5 DEF Refuse, Begin, Execute, Answer, Running, Replies, Refusals
<1>6. ASSUME NEW q \in Requests,
             Duplicate(q) \/ NothingAffected(q) \/ TooManyAffected(q) \/ SqlFails(q)
      PROVE  TypeOK'
  <2>1. CASE Duplicate(q) \/ TooManyAffected(q)
    BY <2>1 DEF Duplicate, TooManyAffected, Answer, EndTx, Running, Replies, Refusals
  <2>2. CASE NothingAffected(q)
    BY <2>2 DEF NothingAffected, Answer, EndTx, Running, Replies, Refusals
  <2>3. CASE SqlFails(q)
    BY <2>3 DEF SqlFails, Answer, EndTx, Running, Replies
  <2> QED BY <1>6, <2>1, <2>2, <2>3
<1>7. ASSUME NEW q \in Requests, Commit(q) \/ CommitUnheard(q) PROVE TypeOK'
  <2>1. pc[q] = "executed" /\ Apply(q)
    BY <1>7 DEF Commit, CommitUnheard, Answer
  <2>2. request[q].key \in Keys /\ q \in Versions
    BY <2>1 DEF StageInv, Submitted, Versions
  <2>3. table' \in [Rows -> Records \cup {Absent}]
    BY <2>1, <2>2 DEF Apply, Outcome, Records
  <2>4. applied' \in SUBSET Requests
    BY <2>1 DEF Apply
  <2> QED BY <1>7, <2>1, <2>3, <2>4
          DEF Commit, CommitUnheard, Apply, Answer, EndTx, Running, Replies
<1>8. ASSUME NEW q \in Requests, Audit(q) \/ AuditFails(q) PROVE TypeOK'
  BY <1>8 DEF Audit, AuditFails, Answer, Running, Replies
<1>9. CASE Crash
  BY <1>9 DEF Crash, Running
<1>10. CASE UNCHANGED vars
  BY <1>10 DEF vars
<1> QED
  BY <1>1, <1>2, <1>3, <1>4, <1>5, <1>6, <1>7, <1>8, <1>9, <1>10
     DEF Next, Browse, Handle

---------------------------------------------------------------------------
(* Handlers and transactions *)

\* What the steps of a handler leave alone.
LEMMA StageStep == TypeOK /\ StageInv /\ VersionInv /\ [Next]_vars => StageInv'
<1> SUFFICES ASSUME TypeOK, StageInv, VersionInv, [Next]_vars PROVE StageInv'
  OBVIOUS
<1>a. /\ tx \in [Requests -> {"none", "open", "closed"}]
      /\ hit \in [Requests -> SUBSET Rows]
      /\ request \in [Requests -> Submitted \cup {None}]
      /\ pc \in [Requests -> Running \cup {"unused", "answered", "died"}]
      /\ reply \in [Requests -> Replies]
      /\ applied \in SUBSET Requests
  BY DEF TypeOK
<1> USE <1>a DEF StageInv, database, browser, server
<1>1. ASSUME NEW u \in Users,
             OpenRecord(u) \/ ReopenRecord(u) \/ OpenCreate(u) \/ CloseDialog(u)
      PROVE  StageInv'
  BY <1>1 DEF OpenRecord, ReopenRecord, OpenCreate, CloseDialog
<1>2. ASSUME NEW u \in Users, NEW q \in Requests, Submit(u, q) PROVE StageInv'
  <2>1. request'[q] # None
    BY <1>2, SubmitType, Apart DEF Submit
  <2> QED BY <1>2, <2>1 DEF Submit
<1>3. ASSUME NEW q \in Requests, Receive(q) \/ LoseAnswer(q) PROVE StageInv'
  BY <1>3 DEF Receive, LoseAnswer
<1>4. ASSUME NEW q \in Requests, Refuse(q) \/ Begin(q) PROVE StageInv'
  BY <1>4 DEF Refuse, Begin, Answer
<1>5. ASSUME NEW q \in Requests, Execute(q) PROVE StageInv'
  BY <1>5 DEF Execute
<1>6. ASSUME NEW q \in Requests,
             Duplicate(q) \/ NothingAffected(q) \/ TooManyAffected(q) \/ SqlFails(q)
      PROVE  StageInv'
  BY <1>6 DEF Duplicate, NothingAffected, TooManyAffected, SqlFails, Answer, EndTx
<1>7. ASSUME NEW q \in Requests, Commit(q) \/ CommitUnheard(q) PROVE StageInv'
  BY <1>7 DEF Commit, CommitUnheard, Apply, Answer, EndTx
<1>8. ASSUME NEW q \in Requests, Audit(q) \/ AuditFails(q) PROVE StageInv'
  BY <1>8 DEF Audit, AuditFails, Answer
<1>9. CASE Crash
  BY <1>9 DEF Crash, Running
<1>10. CASE UNCHANGED vars
  BY <1>10 DEF vars
<1> QED
  BY <1>1, <1>2, <1>3, <1>4, <1>5, <1>6, <1>7, <1>8, <1>9, <1>10
     DEF Next, Browse, Handle

\* The audit event comes after the commit, and the answer after both.
LEMMA AuditStep ==
    /\ TypeOK /\ StageInv /\ AnswerIsTrue /\ AuditInv /\ AuditIsTrue
    /\ [Next]_vars
    => (AnswerIsTrue /\ AuditInv /\ AuditIsTrue)'
<1> SUFFICES ASSUME TypeOK, StageInv, AnswerIsTrue, AuditInv, AuditIsTrue, [Next]_vars
             PROVE  (AnswerIsTrue /\ AuditInv /\ AuditIsTrue)'
  OBVIOUS
<1>a. /\ pc \in [Requests -> Running \cup {"unused", "answered", "died"}]
      /\ reply \in [Requests -> Replies]
      /\ audits \in [Requests -> Nat]
      /\ applied \in SUBSET Requests
  BY DEF TypeOK
<1> USE <1>a DEF StageInv, AnswerIsTrue, AuditInv, AuditIsTrue, Refusals,
                 database, browser, server
<1>1. ASSUME NEW u \in Users,
             OpenRecord(u) \/ ReopenRecord(u) \/ OpenCreate(u) \/ CloseDialog(u)
      PROVE  (AnswerIsTrue /\ AuditInv /\ AuditIsTrue)'
  BY <1>1 DEF OpenRecord, ReopenRecord, OpenCreate, CloseDialog
<1>2. ASSUME NEW u \in Users, NEW q \in Requests, Submit(u, q)
      PROVE  (AnswerIsTrue /\ AuditInv /\ AuditIsTrue)'
  BY <1>2 DEF Submit
<1>3. ASSUME NEW q \in Requests, Receive(q) \/ LoseAnswer(q)
      PROVE  (AnswerIsTrue /\ AuditInv /\ AuditIsTrue)'
  BY <1>3 DEF Receive, LoseAnswer
<1>4. ASSUME NEW q \in Requests, Refuse(q) \/ Begin(q) \/ Execute(q)
      PROVE  (AnswerIsTrue /\ AuditInv /\ AuditIsTrue)'
  BY <1>4 DEF Refuse, Begin, Execute, Answer
<1>5. ASSUME NEW q \in Requests,
             Duplicate(q) \/ NothingAffected(q) \/ TooManyAffected(q) \/ SqlFails(q)
      PROVE  (AnswerIsTrue /\ AuditInv /\ AuditIsTrue)'
  BY <1>5 DEF Duplicate, NothingAffected, TooManyAffected, SqlFails, Answer, EndTx
<1>6. ASSUME NEW q \in Requests, Commit(q) \/ CommitUnheard(q)
      PROVE  (AnswerIsTrue /\ AuditInv /\ AuditIsTrue)'
  BY <1>6 DEF Commit, CommitUnheard, Apply, Answer, EndTx
<1>7. ASSUME NEW q \in Requests, Audit(q) \/ AuditFails(q)
      PROVE  (AnswerIsTrue /\ AuditInv /\ AuditIsTrue)'
  BY <1>7 DEF Audit, AuditFails, Answer
<1>8. CASE Crash
  BY <1>8 DEF Crash, Running
<1>9. CASE UNCHANGED vars
  BY <1>9 DEF vars
<1> QED
  BY <1>1, <1>2, <1>3, <1>4, <1>5, <1>6, <1>7, <1>8, <1>9
     DEF Next, Browse, Handle

---------------------------------------------------------------------------
(* The table *)

\* A commit writes the rows its statement has changed, and no other.
LEMMA ApplyEffect ==
    ASSUME TypeOK, StageInv, NEW q \in Requests,
           Commit(q) \/ CommitUnheard(q)
    PROVE  /\ pc[q] = "executed" /\ tx[q] = "open" /\ q \notin applied
           /\ request[q] \in Submitted /\ request[q] # None
           /\ \E r \in Rows : hit[q] = {r}
           /\ applied' = applied \cup {q}
           /\ hit' = [hit EXCEPT ![q] = {}]
           /\ tx' = [tx EXCEPT ![q] = "closed"]
           /\ UNCHANGED <<unique, versioned, page, request>>
           /\ \A r \in Rows \ hit[q] : table'[r] = table[r]
           /\ \A r \in hit[q] :
                 \/ request[q].op = "delete" /\ table'[r] = Absent
                 \/ /\ request[q].op # "delete"
                    /\ table'[r] # Absent
                    /\ table'[r].key = request[q].key
                    /\ table'[r].version = q
<1>1. /\ pc[q] = "executed"
      /\ Apply(q)
      /\ \E r \in Rows : hit[q] = {r}
  BY DEF Commit, CommitUnheard, Answer
<1>2. tx[q] = "open" /\ q \notin applied /\ request[q] # None
  BY <1>1 DEF StageInv
<1>3. request[q] \in Submitted
  BY <1>2 DEF TypeOK
<1>4. [key |-> request[q].key, version |-> q] # Absent
  BY <1>3, Apart DEF Records, Submitted, Versions
<1>5. hit[q] \subseteq Rows
  BY <1>1
<1>6. /\ applied' = applied \cup {q}
      /\ hit' = [hit EXCEPT ![q] = {}]
      /\ tx' = [tx EXCEPT ![q] = "closed"]
      /\ UNCHANGED <<unique, versioned, page, request>>
  BY <1>1 DEF Apply, EndTx, browser
<1>7. ASSUME NEW r \in Rows, r \notin hit[q] PROVE table'[r] = table[r]
  BY <1>1, <1>7 DEF Apply
<1>8. ASSUME NEW r \in hit[q]
      PROVE  \/ request[q].op = "delete" /\ table'[r] = Absent
             \/ /\ request[q].op # "delete"
                /\ table'[r] # Absent
                /\ table'[r].key = request[q].key
                /\ table'[r].version = q
  <2>1. r \in Rows
    BY <1>5
  <2>2. CASE request[q].op = "delete"
    BY <1>1, <2>1, <2>2 DEF Apply, Outcome
  <2>3. CASE request[q].op # "delete"
    <3>1. table'[r] = [key |-> request[q].key, version |-> q]
      BY <1>1, <2>1, <2>3 DEF Apply, Outcome
    <3> QED BY <1>4, <2>3, <3>1
  <2> QED BY <2>2, <2>3
<1> QED BY <1>1, <1>2, <1>3, <1>6, <1>7, <1>8

\* Only a commit changes the table.
LEMMA TableChanges ==
    ASSUME [Next]_vars
    PROVE  \/ \E q \in Requests : Commit(q) \/ CommitUnheard(q)
           \/ UNCHANGED <<table, unique, applied>>
<1> USE DEF database, browser, server
<1>1. ASSUME NEW u \in Users, Browse(u) PROVE UNCHANGED <<table, unique, applied>>
  BY <1>1 DEF Browse, OpenRecord, ReopenRecord, OpenCreate, CloseDialog, Submit
<1>2. ASSUME NEW q \in Requests, Receive(q) \/ LoseAnswer(q)
      PROVE  UNCHANGED <<table, unique, applied>>
  BY <1>2 DEF Receive, LoseAnswer
<1>3. ASSUME NEW q \in Requests,
             \/ Refuse(q) \/ Begin(q) \/ Execute(q) \/ Duplicate(q)
             \/ NothingAffected(q) \/ TooManyAffected(q) \/ SqlFails(q)
             \/ Audit(q) \/ AuditFails(q)
      PROVE  UNCHANGED <<table, unique, applied>>
  BY <1>3 DEF Refuse, Begin, Execute, Duplicate, NothingAffected, TooManyAffected,
              SqlFails, Audit, AuditFails
<1>4. CASE Crash \/ UNCHANGED vars
  BY <1>4 DEF Crash, vars
<1> QED BY <1>1, <1>2, <1>3, <1>4 DEF Next, Handle

\* A commit writes a version nobody has seen, and keeps the key of the row.
LEMMA VersionCommit ==
    ASSUME TypeOK, StageInv, VersionInv, StatementStillHolds, NEW q \in Requests,
           Commit(q) \/ CommitUnheard(q)
    PROVE  VersionInv'
<1>1. PICK s \in Rows : hit[q] = {s}
  BY ApplyEffect
<1>2. /\ applied' = applied \cup {q} /\ q \notin applied /\ q \notin Rows
      /\ page' = page /\ request' = request
      /\ \A r \in Rows : r # s => table'[r] = table[r]
      /\ table'[s] # Absent => table'[s].version = q
  BY <1>1, ApplyEffect, Apart
<1>3. q \notin Known \cup {NoToken}
  BY <1>2, Apart DEF Known
<1>4. \A r \in Rows : table'[r] # Absent => table'[r].version \in {r} \cup applied'
  BY <1>2 DEF VersionInv
<1>5. ASSUME NEW r \in Rows, NEW t \in Rows, table'[r] # Absent, table'[t] # Absent,
             table'[r].version = table'[t].version
      PROVE  r = t
  <2>1. \A w \in Rows : table[w] # Absent => table[w].version # q
    BY <1>2, Apart DEF VersionInv
  <2> QED BY <1>2, <1>5, <2>1 DEF VersionInv
<1>6. Known \subseteq Known'
  BY <1>2 DEF Known
<1>7. ASSUME NEW r \in Rows, NEW k, NEW t \in Known \cup {NoToken},
             \A w \in Rows : table[w] # Absent /\ table[w].version = t => table[w].key = k
      PROVE  table'[r] # Absent /\ table'[r].version = t => table'[r].key = k
  <2>1. CASE r = s
    BY <1>2, <1>3, <2>1
  <2>2. CASE r # s
    BY <1>2, <1>7, <2>2
  <2> QED BY <2>1, <2>2
<1>8. ASSUME NEW u \in Users
      PROVE  /\ page'[u].token \in Known' \cup {NoToken}
             /\ page'[u].dialog = "create" => page'[u].token = NoToken
             /\ page'[u].dialog # "none" => page'[u].key \in Keys
             /\ page'[u].token # NoToken => page'[u].key \in Keys
             /\ \A r \in Rows :
                   table'[r] # Absent /\ table'[r].version = page'[u].token
                       => table'[r].key = page'[u].key
  BY <1>2, <1>6, <1>7 DEF VersionInv
<1>9. ASSUME NEW p \in Requests, request'[p] # None
      PROVE  /\ request'[p].token \in Known' \cup {NoToken}
             /\ request'[p].op = "create" => request'[p].token = NoToken
             /\ \A r \in Rows :
                   table'[r] # Absent /\ table'[r].version = request'[p].token
                       => table'[r].key = request'[p].key
  BY <1>2, <1>6, <1>7, <1>9 DEF VersionInv
<1> QED BY <1>4, <1>5, <1>8, <1>9 DEF VersionInv

\* Dialogs and requests keep the key and the token of a row that was there.
LEMMA VersionStep ==
    /\ TypeOK /\ StageInv /\ VersionInv /\ StatementStillHolds
    /\ [Next]_vars
    => VersionInv'
<1> SUFFICES ASSUME TypeOK, StageInv, VersionInv, StatementStillHolds, [Next]_vars
             PROVE  VersionInv'
  OBVIOUS
<1>a. /\ page \in [Users -> Pages]
      /\ request \in [Requests -> Submitted \cup {None}]
      /\ \A r \in Rows : table[r] # Absent => table[r].key \in Keys
  BY RowType DEF TypeOK
<1> USE <1>a DEF Known, database, browser, server
<1>1. ASSUME NEW u \in Users, OpenRecord(u) PROVE VersionInv'
  <2>1. PICK r \in Rows, op \in {"update", "delete"} :
           /\ table[r] # Absent
           /\ page' = [page EXCEPT ![u] =
                         [dialog |-> op,
                          key    |-> table[r].key,
                          token  |-> IF versioned THEN table[r].version ELSE NoToken,
                          awaits |-> None]]
           /\ UNCHANGED <<database, request>>
    BY <1>1 DEF OpenRecord
  <2>2. /\ page'[u].dialog \in {"update", "delete"}
        /\ page'[u].key = table[r].key
        /\ page'[u].token \in {table[r].version, NoToken}
        /\ \A v \in Users : v # u => page'[v] = page[v]
    BY <2>1
  <2>3. \A w \in Rows : table[w] # Absent => table[w].version # NoToken
    BY Apart DEF VersionInv, TypeOK
  <2>4. \A w \in Rows : table[w] # Absent /\ table[w].version = page'[u].token => w = r
    BY <2>1, <2>2, <2>3 DEF VersionInv
  <2> QED BY <2>1, <2>2, <2>4 DEF VersionInv
<1>2. ASSUME NEW u \in Users, ReopenRecord(u) \/ CloseDialog(u) PROVE VersionInv'
  <2>1. /\ page'[u].key = page[u].key /\ page'[u].token = page[u].token
        /\ \/ page'[u].dialog = "none"
           \/ page'[u].dialog \in {"update", "delete"} /\ page[u].token # NoToken
        /\ \A v \in Users : v # u => page'[v] = page[v]
        /\ UNCHANGED <<database, request>>
    BY <1>2 DEF ReopenRecord, CloseDialog, Pages
  <2> QED BY <2>1 DEF VersionInv
<1>3. ASSUME NEW u \in Users, OpenCreate(u) PROVE VersionInv'
  <2>1. /\ page'[u].key \in Keys /\ page'[u].token = NoToken
        /\ \A v \in Users : v # u => page'[v] = page[v]
        /\ UNCHANGED <<database, request>>
    BY <1>3 DEF OpenCreate
  <2>2. \A w \in Rows : table[w] # Absent => table[w].version # NoToken
    BY Apart DEF VersionInv, TypeOK
  <2> QED BY <2>1, <2>2 DEF VersionInv
<1>4. ASSUME NEW u \in Users, NEW q \in Requests, Submit(u, q) PROVE VersionInv'
  <2>1. /\ request'[q].op = page[u].dialog
        /\ request'[q].key = page[u].key
        /\ request'[q].token = page[u].token
        /\ \A p \in Requests : p # q => request'[p] = request[p]
        /\ \A v \in Users : /\ page'[v].dialog = page[v].dialog
                            /\ page'[v].key = page[v].key
                            /\ page'[v].token = page[v].token
        /\ UNCHANGED database
    BY <1>4 DEF Submit, Pages
  <2> QED BY <2>1 DEF VersionInv
<1>5. ASSUME NEW q \in Requests, Receive(q) \/ LoseAnswer(q) PROVE VersionInv'
  <2>1. /\ \A v \in Users : /\ page'[v].dialog \in {"none", page[v].dialog}
                            /\ page'[v].key = page[v].key
                            /\ page'[v].token = page[v].token
        /\ UNCHANGED <<database, request>>
    <3>1. PICK u :
             \/ page' = [page EXCEPT ![u] = [@ EXCEPT !.dialog = "none", !.awaits = None]]
             \/ page' = [page EXCEPT ![u].awaits = IF @ = q THEN None ELSE @]
      BY <1>5 DEF Receive, LoseAnswer
    <3>2. CASE page' = [page EXCEPT ![u] = [@ EXCEPT !.dialog = "none", !.awaits = None]]
      BY <1>5, <3>2 DEF Receive, LoseAnswer, Pages
    <3>3. CASE page' = [page EXCEPT ![u].awaits = IF @ = q THEN None ELSE @]
      BY <1>5, <3>3 DEF Receive, LoseAnswer, Pages
    <3> QED BY <3>1, <3>2, <3>3
  <2> QED BY <2>1 DEF VersionInv
<1>6. ASSUME NEW q \in Requests, Commit(q) \/ CommitUnheard(q) PROVE VersionInv'
  BY <1>6, VersionCommit
<1>7. ASSUME NEW q \in Requests,
             \/ Refuse(q) \/ Begin(q) \/ Execute(q) \/ Duplicate(q)
             \/ NothingAffected(q) \/ TooManyAffected(q) \/ SqlFails(q)
             \/ Audit(q) \/ AuditFails(q)
      PROVE  VersionInv'
  <2>1. UNCHANGED <<table, applied, page, request>>
    BY <1>7 DEF Refuse, Begin, Execute, Duplicate, NothingAffected,
                TooManyAffected, SqlFails, Audit, AuditFails
  <2> QED BY <2>1 DEF VersionInv
<1>8. CASE Crash \/ UNCHANGED vars
  BY <1>8 DEF Crash, vars, VersionInv
<1> QED BY <1>1, <1>2, <1>3, <1>4, <1>5, <1>6, <1>7, <1>8 DEF Next, Browse, Handle

---------------------------------------------------------------------------
(* Locks, and what a statement found *)

\* Only a statement takes locks; a transaction that holds some was begun for a
\* request that has been made.
LEMMA LocksShrink ==
    ASSUME TypeOK, StageInv, [Next]_vars
    PROVE  \/ \E q \in Requests : Execute(q)
           \/ /\ unique' = unique
              /\ \A p \in Requests :
                    Holds(p)' => /\ Holds(p)
                                 /\ hit'[p] = hit[p]
                                 /\ request'[p] = request[p]
<1>a. /\ tx \in [Requests -> {"none", "open", "closed"}]
      /\ hit \in [Requests -> SUBSET Rows]
      /\ request \in [Requests -> Submitted \cup {None}]
  BY DEF TypeOK
<1> USE <1>a DEF Holds, database, browser, server
<1> DEFINE Shrink == /\ unique' = unique
                     /\ \A p \in Requests :
                           Holds(p)' => /\ Holds(p)
                                        /\ hit'[p] = hit[p]
                                        /\ request'[p] = request[p]
<1>1. ASSUME NEW u \in Users,
             OpenRecord(u) \/ ReopenRecord(u) \/ OpenCreate(u) \/ CloseDialog(u)
      PROVE  Shrink
  BY <1>1 DEF OpenRecord, ReopenRecord, OpenCreate, CloseDialog
<1>2. ASSUME NEW u \in Users, NEW q \in Requests, Submit(u, q) PROVE Shrink
  <2>1. ~Holds(q)
    BY <1>2 DEF Submit, StageInv
  <2> QED BY <1>2, <2>1 DEF Submit
<1>3. ASSUME NEW q \in Requests, Receive(q) \/ LoseAnswer(q) PROVE Shrink
  BY <1>3 DEF Receive, LoseAnswer
<1>4. ASSUME NEW q \in Requests, Refuse(q) \/ Audit(q) \/ AuditFails(q) PROVE Shrink
  BY <1>4 DEF Refuse, Audit, AuditFails
<1>5. ASSUME NEW q \in Requests, Begin(q) PROVE Shrink
  <2>1. hit[q] = {}
    BY <1>5 DEF Begin, StageInv
  <2> QED BY <1>5, <2>1 DEF Begin
<1>6. ASSUME NEW q \in Requests,
             Duplicate(q) \/ NothingAffected(q) \/ TooManyAffected(q)
      PROVE  Shrink
  BY <1>6 DEF Duplicate, NothingAffected, TooManyAffected, EndTx
<1>7. ASSUME NEW q \in Requests, SqlFails(q) PROVE Shrink
  BY <1>7 DEF SqlFails, EndTx
<1>8. ASSUME NEW q \in Requests, Commit(q) \/ CommitUnheard(q) PROVE Shrink
  BY <1>8 DEF Commit, CommitUnheard, Apply, EndTx
<1>9. CASE Crash \/ UNCHANGED vars
  BY <1>9 DEF Crash, vars
<1> QED
  BY <1>1, <1>2, <1>3, <1>4, <1>5, <1>6, <1>7, <1>8, <1>9 DEF Next, Browse, Handle

\* A statement runs only when nobody holds its key, so it changes rows that no
\* other open transaction has changed.
LEMMA LockStep ==
    /\ TypeOK /\ StageInv /\ LockInv /\ StatementStillHolds
    /\ [Next]_vars
    => LockInv'
<1> SUFFICES ASSUME TypeOK, StageInv, LockInv, StatementStillHolds, [Next]_vars
             PROVE  LockInv'
  OBVIOUS
<1>a. hit \in [Requests -> SUBSET Rows]
  BY DEF TypeOK
<1>1. ASSUME NEW q \in Requests, Execute(q) PROVE LockInv'
  <2>1. /\ ~Blocked(q)
        /\ UNCHANGED <<unique, tx, request>>
        /\ \A p \in Requests : p # q => hit'[p] = hit[p]
    BY <1>1, <1>a DEF Execute, browser
  <2>2. ASSUME NEW p \in Requests, p # q, Holds(p)
        PROVE  /\ hit[p] \cap hit'[q] = {}
               /\ request[p].key = request[q].key =>
                     ~unique /\ request[q].op = "create"
    <3>1. request[p].key = request[q].key => ~unique /\ request[q].op = "create"
      BY <2>1, <2>2 DEF Blocked
    <3>2. CASE request[q].op = "create"
      BY <1>1, <1>a, <3>1, <3>2 DEF Execute
    <3>3. CASE request[q].op # "create"
      <4>1. hit'[q] = {r \in Rows : Matches(q, r)}
        BY <1>1, <1>a, <3>3 DEF Execute
      <4>2. \A r \in hit[p] : table[r] = Absent \/ Matches(p, r)
        BY <2>2 DEF StatementStillHolds
      <4>3. \A r \in hit[p] : ~Matches(q, r)
        BY <3>1, <3>3, <4>2 DEF Matches
      <4> QED BY <3>1, <4>1, <4>3
    <3> QED BY <3>2, <3>3
  <2>3. \A p \in Requests : p # q => (Holds(p)' <=> Holds(p))
    BY <2>1 DEF Holds
  <2> QED BY <2>1, <2>2, <2>3 DEF LockInv
<1>2. CASE ~ \E q \in Requests : Execute(q)
  BY <1>2, LocksShrink DEF LockInv
<1> QED BY <1>1, <1>2

\* A statement that has changed rows keeps everybody from committing a change
\* that would matter to it.
LEMMA StatementStep ==
    /\ TypeOK /\ StageInv /\ VersionInv /\ LockInv /\ StatementStillHolds
    /\ [Next]_vars
    => StatementStillHolds'
<1> SUFFICES ASSUME TypeOK, StageInv, VersionInv, LockInv, StatementStillHolds,
                    [Next]_vars
             PROVE  StatementStillHolds'
  OBVIOUS
<1>a. hit \in [Requests -> SUBSET Rows]
  BY DEF TypeOK
<1>1. ASSUME NEW q \in Requests, Execute(q) PROVE StatementStillHolds'
  <2>1. /\ UNCHANGED <<table, unique, tx, request>>
        /\ \A p \in Requests : p # q => hit'[p] = hit[p]
    BY <1>1, <1>a DEF Execute, browser
  <2>2. CASE request[q].op # "create"
    <3>1. hit'[q] = {r \in Rows : Matches(q, r)}
      BY <1>1, <1>a, <2>2 DEF Execute
    <3> QED BY <2>1, <2>2, <3>1 DEF StatementStillHolds, Holds, Matches, KeyTaken
  <2>3. CASE request[q].op = "create"
    <3>1. \E r \in Rows : hit'[q] = {r} /\ table[r] = Absent
      BY <1>1, <1>a, <2>3 DEF Execute
    <3>2. ~(unique /\ KeyTaken(q))
      BY <1>1, <2>3 DEF Execute
    <3> QED BY <2>1, <2>3, <3>1, <3>2 DEF StatementStillHolds, Holds, Matches, KeyTaken
  <2> QED BY <2>2, <2>3
<1>2. ASSUME NEW q \in Requests, Commit(q) \/ CommitUnheard(q)
      PROVE  StatementStillHolds'
  <2>1. PICK s \in Rows : hit[q] = {s}
    BY <1>2, ApplyEffect
  <2>2. /\ tx[q] = "open" /\ q \notin applied /\ request[q] # None
        /\ hit' = [hit EXCEPT ![q] = {}]
        /\ tx' = [tx EXCEPT ![q] = "closed"]
        /\ UNCHANGED <<unique, request>>
        /\ \A r \in Rows : r # s => table'[r] = table[r]
        /\ \/ table'[s] = Absent
           \/ /\ table'[s] # Absent
              /\ table'[s].key = request[q].key
              /\ table'[s].version = q
    BY <1>2, <2>1, ApplyEffect
  <2>3. Holds(q)
    BY <2>1, <2>2 DEF Holds
  <2>4. ASSUME NEW p \in Requests, Holds(p)'
        PROVE  /\ p # q /\ Holds(p) /\ hit'[p] = hit[p] /\ s \notin hit[p]
               /\ \A r \in hit[p] : table'[r] = table[r]
               /\ request[p].key = request[q].key => ~unique
    <3>1. p # q /\ Holds(p) /\ hit'[p] = hit[p]
      BY <1>a, <2>2, <2>4 DEF Holds, TypeOK
    <3>2. s \notin hit[p]
      BY <2>1, <2>3, <3>1 DEF LockInv
    <3>3. request[p].key = request[q].key => ~unique
      BY <2>3, <3>1 DEF LockInv
    <3> QED BY <1>a, <2>2, <3>1, <3>2, <3>3
  <2>5. ASSUME NEW p \in Requests, Holds(p)', request[p].op # "create"
        PROVE  /\ \A r \in hit'[p] : Matches(p, r)'
               /\ \/ ~unique' /\ request'[p].token = NoToken
                  \/ \A r \in Rows : Matches(p, r)' => r \in hit'[p]
    <3>1. /\ \A r \in hit[p] : Matches(p, r)
          /\ \/ ~unique /\ request[p].token = NoToken
             \/ \A r \in Rows : Matches(p, r) => r \in hit[p]
      BY <2>4, <2>5 DEF StatementStillHolds
    <3>2. \A r \in hit'[p] : Matches(p, r)'
      BY <2>2, <2>4, <2>5, <3>1 DEF Matches
    <3>3. request[p] # None
      BY <2>4, <2>5 DEF Holds, StageInv
    <3>4. request[p].token # q
      BY <2>2, <3>3, Apart DEF VersionInv, Known
    <3>5. unique \/ request[p].token # NoToken => ~Matches(p, s)'
      BY <2>2, <2>4, <2>5, <3>4 DEF Matches
    <3>6. \A r \in Rows : r # s => (Matches(p, r)' <=> Matches(p, r))
      BY <2>2 DEF Matches
    <3> QED BY <2>2, <2>4, <2>5, <3>1, <3>2, <3>5, <3>6
  <2>6. ASSUME NEW p \in Requests, Holds(p)', request[p].op = "create"
        PROVE  /\ \A r \in hit'[p] : table'[r] = Absent
               /\ ~(unique /\ KeyTaken(p))'
    <3>1. /\ \A r \in hit[p] : table[r] = Absent
          /\ ~(unique /\ KeyTaken(p))
      BY <2>4, <2>6 DEF StatementStillHolds
    <3> QED BY <2>2, <2>4, <2>6, <3>1 DEF KeyTaken
  <2> QED BY <2>2, <2>5, <2>6 DEF StatementStillHolds
<1>3. CASE /\ ~ \E q \in Requests : Execute(q)
           /\ UNCHANGED <<table, unique, applied>>
  <2>1. \A p \in Requests :
           Holds(p)' => Holds(p) /\ hit'[p] = hit[p] /\ request'[p] = request[p]
    BY <1>3, LocksShrink
  <2> QED BY <1>3, <2>1 DEF StatementStillHolds, Matches, KeyTaken
<1> QED BY <1>1, <1>2, <1>3, TableChanges

---------------------------------------------------------------------------
(* Tokens *)

\* A commit spends its token, and never brings a spent one back.
LEMMA SpentCommit ==
    ASSUME TypeOK, StageInv, VersionInv, SpentInv, StatementStillHolds,
           NEW q \in Requests, Commit(q) \/ CommitUnheard(q)
    PROVE  /\ \A p \in Requests : request[p] # None /\ Spent(p) => Spent(p)'
           /\ Spent(q)'
<1>1. PICK s \in Rows : hit[q] = {s}
  BY ApplyEffect
<1>2. /\ tx[q] = "open" /\ q \notin applied /\ request[q] # None /\ request' = request
      /\ \A r \in Rows : r # s => table'[r] = table[r]
      /\ table'[s] # Absent => table'[s].version = q
  BY <1>1, ApplyEffect
<1>3. \A p \in Requests : request[p] # None => request[p].token # q
  BY <1>2, Apart DEF VersionInv, Known
<1>4. \A p \in Requests : request[p] # None /\ Spent(p) => Spent(p)'
  BY <1>2, <1>3 DEF Spent
<1>5. ASSUME NEW r \in Rows, table'[r] # Absent, table'[r].version = request[q].token
      PROVE  FALSE
  <2>1. r # s
    BY <1>2, <1>3, <1>5
  <2>2. table[r] # Absent /\ table[r].version = request[q].token
    BY <1>2, <1>5, <2>1
  <2>3. request[q].token # NoToken
    BY <2>2, Apart DEF VersionInv, TypeOK
  <2>4. request[q].op # "create"
    BY <1>2, <2>3 DEF VersionInv
  <2>5. Matches(q, s)
    BY <1>1, <1>2, <2>4 DEF StatementStillHolds, Holds
  <2>6. table[s].version = request[q].token /\ table[s] # Absent
    BY <2>3, <2>5 DEF Matches
  <2> QED BY <2>1, <2>2, <2>6 DEF VersionInv
<1>6. Spent(q)'
  BY <1>2, <1>5 DEF Spent
<1> QED BY <1>4, <1>6

\* A statement that finds no row for a token finds the token spent.
LEMMA SpentMissed ==
    ASSUME TypeOK, StageInv, VersionInv, NEW q \in Requests, Execute(q),
           hit'[q] = {}
    PROVE  request[q].op # "create" /\ (request[q].token # NoToken => Spent(q))
<1>1. hit \in [Requests -> SUBSET Rows]
  BY DEF TypeOK
<1>2. request[q].op # "create" /\ hit'[q] = {r \in Rows : Matches(q, r)}
  BY <1>1 DEF Execute
<1>3. request[q] # None
  BY DEF Execute, StageInv
<1>4. ASSUME NEW r \in Rows, table[r] # Absent, table[r].version = request[q].token
      PROVE  FALSE
  <2>1. table[r].key = request[q].key
    BY <1>3, <1>4 DEF VersionInv
  <2> QED BY <1>2, <1>4, <2>1 DEF Matches
<1> QED BY <1>2, <1>4 DEF Spent

\* No step makes a spent token usable again.
LEMMA SpentStep ==
    /\ TypeOK /\ StageInv /\ VersionInv /\ SpentInv /\ StatementStillHolds
    /\ [Next]_vars
    => SpentInv'
<1> SUFFICES ASSUME TypeOK, StageInv, VersionInv, SpentInv, StatementStillHolds,
                    [Next]_vars
             PROVE  SpentInv'
  OBVIOUS
<1>a. /\ hit \in [Requests -> SUBSET Rows]
      /\ pc \in [Requests -> Running \cup {"unused", "answered", "died"}]
      /\ reply \in [Requests -> Replies]
      /\ request \in [Requests -> Submitted \cup {None}]
  BY DEF TypeOK
<1> USE <1>a DEF database, browser, server
<1>1. ASSUME NEW u \in Users,
             OpenRecord(u) \/ ReopenRecord(u) \/ OpenCreate(u) \/ CloseDialog(u)
      PROVE  SpentInv'
  BY <1>1 DEF OpenRecord, ReopenRecord, OpenCreate, CloseDialog, SpentInv, Spent
<1>2. ASSUME NEW u \in Users, NEW q \in Requests, Submit(u, q) PROVE SpentInv'
  <2>1. q \notin applied /\ reply[q] = "none"
    BY <1>2 DEF Submit, StageInv
  <2> QED BY <1>2, <2>1 DEF Submit, SpentInv, Spent
<1>3. ASSUME NEW q \in Requests,
             \/ Receive(q) \/ LoseAnswer(q) \/ Refuse(q) \/ Begin(q)
             \/ Audit(q) \/ AuditFails(q)
      PROVE  SpentInv'
  BY <1>3 DEF Receive, LoseAnswer, Refuse, Begin, Audit, AuditFails, Answer,
              SpentInv, Spent
<1>4. ASSUME NEW q \in Requests, Execute(q) PROVE SpentInv'
  <2>1. hit'[q] = {} =>
           request[q].op # "create" /\ (request[q].token # NoToken => Spent(q))
    BY <1>4, SpentMissed
  <2> QED BY <1>4, <2>1 DEF Execute, SpentInv, Spent
<1>5. ASSUME NEW q \in Requests, Duplicate(q) \/ TooManyAffected(q) \/ SqlFails(q)
      PROVE  SpentInv'
  BY <1>5 DEF Duplicate, TooManyAffected, SqlFails, Answer, EndTx, SpentInv, Spent
<1>6. ASSUME NEW q \in Requests, NothingAffected(q) PROVE SpentInv'
  BY <1>6 DEF NothingAffected, Answer, EndTx, SpentInv, Spent
<1>7. ASSUME NEW q \in Requests, Commit(q) \/ CommitUnheard(q) PROVE SpentInv'
  <2>1. /\ \A p \in Requests : request[p] # None /\ Spent(p) => Spent(p)'
        /\ Spent(q)'
        /\ request' = request /\ applied' = applied \cup {q}
        /\ hit' = [hit EXCEPT ![q] = {}]
    BY <1>7, SpentCommit, ApplyEffect
  <2>2. /\ \A p \in Requests : p # q => pc'[p] = pc[p] /\ reply'[p] = reply[p]
        /\ pc'[q] # "executed" /\ reply'[q] \in {reply[q], "failed"}
    BY <1>7 DEF Commit, CommitUnheard, Answer
  <2>3. \A p \in applied : request[p] # None
    BY DEF StageInv, TypeOK
  <2>4. \A p \in Requests :
           reply[p] = "conflict" \/ pc[p] = "executed" => request[p] # None
    BY DEF StageInv
  <2> QED BY <2>1, <2>2, <2>3, <2>4 DEF SpentInv
<1>8. CASE Crash
  BY <1>8 DEF Crash, Running, SpentInv, Spent
<1>9. CASE UNCHANGED vars
  BY <1>9 DEF vars, SpentInv, Spent
<1> QED
  BY <1>1, <1>2, <1>3, <1>4, <1>5, <1>6, <1>7, <1>8, <1>9 DEF Next, Browse, Handle

\* A request cannot commit with a token that another has spent.
LEMMA TokenStep ==
    /\ TypeOK /\ StageInv /\ VersionInv /\ SpentInv /\ StatementStillHolds
    /\ TokenSpentOnce /\ [Next]_vars
    => TokenSpentOnce'
<1> SUFFICES ASSUME TypeOK, StageInv, VersionInv, SpentInv, StatementStillHolds,
                    TokenSpentOnce, [Next]_vars
             PROVE  TokenSpentOnce'
  OBVIOUS
<1>1. \A p \in applied : request'[p] = request[p]
  <2>1. \A p \in applied : request[p] # None
    BY DEF StageInv, TypeOK
  <2>2. \A p \in Requests : request[p] # None => request'[p] = request[p]
    <3>1. ASSUME NEW u \in Users, Browse(u)
          PROVE  \A p \in Requests : request[p] # None => request'[p] = request[p]
      BY <3>1 DEF Browse, OpenRecord, ReopenRecord, OpenCreate, CloseDialog, Submit, TypeOK
    <3>2. ASSUME NEW q \in Requests, Handle(q) \/ Receive(q) \/ LoseAnswer(q)
          PROVE  request' = request
      BY <3>2 DEF Handle, Refuse, Begin, Execute, Duplicate, NothingAffected,
                  TooManyAffected, Commit, CommitUnheard, Apply, SqlFails,
                  Audit, AuditFails, Receive, LoseAnswer, browser
    <3>3. CASE Crash \/ UNCHANGED vars
      BY <3>3 DEF Crash, vars, browser
    <3> QED BY <3>1, <3>2, <3>3 DEF Next
  <2> QED BY <2>1, <2>2 DEF TypeOK
<1>2. ASSUME NEW q \in Requests, Commit(q) \/ CommitUnheard(q)
      PROVE  TokenSpentOnce'
  <2>1. PICK s \in Rows : hit[q] = {s}
    BY <1>2, ApplyEffect
  <2>2. /\ tx[q] = "open" /\ request[q] # None /\ applied' = applied \cup {q}
        /\ request' = request
    BY <1>2, ApplyEffect
  <2>3. ASSUME NEW p \in applied, request[p].token = request[q].token
        PROVE  request[q].token = NoToken
    <3>1. SUFFICES ASSUME request[q].token # NoToken PROVE FALSE
      OBVIOUS
    <3>2. request[q].op # "create"
      BY <2>2, <3>1 DEF VersionInv
    <3>3. Matches(q, s)
      BY <2>1, <2>2, <3>2 DEF StatementStillHolds, Holds
    <3>4. Spent(p)
      BY DEF SpentInv, TypeOK
    <3> QED BY <2>3, <3>1, <3>3, <3>4 DEF Matches, Spent
  <2> QED BY <2>2, <2>3 DEF TokenSpentOnce
<1>3. CASE UNCHANGED <<table, unique, applied>>
  BY <1>1, <1>3 DEF TokenSpentOnce
<1> QED BY <1>2, <1>3, TableChanges

---------------------------------------------------------------------------
(* Theorems *)

\* Every step keeps the inductive invariant.
LEMMA NextInd == IndInv /\ [Next]_vars => IndInv'
BY TypeStep, StageStep, AuditStep, VersionStep, LockStep, StatementStep, SpentStep,
   TokenStep
   DEF IndInv

\* The inductive invariant holds in every reachable state.
THEOREM Inductive == Spec => []IndInv
BY InitInd, NextInd, PTL DEF Spec

\* Requests, pages, transactions and rows keep their types.
THEOREM TypeCorrect == Spec => []TypeOK
<1>1. IndInv => TypeOK
  BY DEF IndInv
<1> QED BY Inductive, <1>1, PTL

\* No lost update: BuildKeyWhere's rowversion lets at most one of the requests
\* that carry the same token commit.
THEOREM NoLostUpdate == Spec => []TokenSpentOnce
<1>1. IndInv => TokenSpentOnce
  BY DEF IndInv
<1> QED BY Inductive, <1>1, PTL

\* What ExecuteNonQueryAsync counted is still true at CommitAsync.
THEOREM CountedIsCommitted == Spec => []StatementStillHolds
<1>1. IndInv => StatementStillHolds
  BY DEF IndInv
<1> QED BY Inductive, <1>1, PTL

\* Zero affected rows with a token, hence a 409, means that the token is spent.
THEOREM NoFalseConflict == Spec => []ConflictIsReal
<1>1. IndInv => ConflictIsReal
  BY DEF IndInv, SpentInv, Spent, ConflictIsReal
<1> QED BY Inductive, <1>1, PTL

\* The outcome that MutationRepository reports is what happened to the record.
THEOREM AnswersAreTrue == Spec => []AnswerIsTrue
<1>1. IndInv => AnswerIsTrue
  BY DEF IndInv
<1> QED BY Inductive, <1>1, PTL

\* AuditAsync runs once, and only after the commit.
THEOREM AuditsAreTrue == Spec => []AuditIsTrue
<1>1. IndInv => AuditIsTrue
  BY DEF IndInv
<1> QED BY Inductive, <1>1, PTL

\* A commit is the atomic step of OptimisticTable.
LEMMA CommitIsAtomic ==
    ASSUME IndInv, NEW q \in Requests, Commit(q) \/ CommitUnheard(q)
    PROVE  Promise!Apply(q)
<1>1. TypeOK /\ StageInv /\ StatementStillHolds
  BY DEF IndInv
<1>2. PICK s \in Rows : hit[q] = {s}
  BY <1>1, ApplyEffect
<1>3. /\ tx[q] = "open" /\ q \notin applied /\ request[q] # None
      /\ request[q] \in Submitted
      /\ applied' = applied \cup {q}
      /\ UNCHANGED <<unique, request>>
  BY <1>1, ApplyEffect
<1>4. table' = [table EXCEPT ![s] = Outcome(q)]
  <2>1. Apply(q)
    BY DEF Commit, CommitUnheard
  <2> QED BY <1>1, <1>2, <2>1 DEF Apply, TypeOK
<1>5. Holds(q)
  BY <1>2, <1>3 DEF Holds
<1>6. CASE request[q].op = "create"
  <2>1. table[s] = Absent /\ ~(unique /\ KeyTaken(q))
    BY <1>1, <1>2, <1>5, <1>6 DEF StatementStillHolds
  <2>2. Outcome(q) = Promise!Written(q, request[q].key)
    BY <1>6 DEF Outcome, Promise!Written
  <2> QED BY <1>3, <1>4, <1>6, <2>1, <2>2 DEF Promise!Apply, KeyTaken
<1>7. CASE request[q].op # "create"
  <2>1. Promise!Matches(q, s)
    BY <1>1, <1>2, <1>5, <1>7 DEF StatementStillHolds, Matches, Promise!Matches
  <2>2. request[q].op \in {"update", "delete"}
    BY <1>3, <1>7 DEF Submitted
  <2>3. CASE request[q].op = "update"
    <3>1. Outcome(q) = Promise!Written(q, request[q].key)
      BY <2>3 DEF Outcome, Promise!Written
    <3> QED BY <1>3, <1>4, <2>1, <2>3, <3>1 DEF Promise!Apply
  <2>4. CASE request[q].op = "delete"
    <3>1. Outcome(q) = Absent
      BY <2>4 DEF Outcome
    <3> QED BY <1>3, <1>4, <2>1, <2>4, <3>1 DEF Promise!Apply
  <2> QED BY <2>2, <2>3, <2>4
<1> QED BY <1>6, <1>7

\* Every step is a step of OptimisticTable or leaves its variables alone.
LEMMA StepRefines ==
    IndInv /\ [Next]_vars => [Promise!Next]_<<table, unique, request, applied>>
<1> SUFFICES ASSUME IndInv, [Next]_vars
             PROVE  Promise!Next \/ UNCHANGED <<table, unique, request, applied>>
  OBVIOUS
<1> USE DEF database, browser, server
<1>1. ASSUME NEW u \in Users,
             OpenRecord(u) \/ ReopenRecord(u) \/ OpenCreate(u) \/ CloseDialog(u)
      PROVE  UNCHANGED <<table, unique, request, applied>>
  BY <1>1 DEF OpenRecord, ReopenRecord, OpenCreate, CloseDialog
<1>2. ASSUME NEW u \in Users, NEW q \in Requests, Submit(u, q) PROVE Promise!Next
  <2>1. TypeOK /\ VersionInv
    BY DEF IndInv
  <2>2. request'[q] # None
    BY <1>2, <2>1, SubmitType, Apart DEF Submit, TypeOK
  <2>3. Promise!Ask(q)
    BY <1>2, <2>1, <2>2 DEF Submit, TypeOK, Promise!Ask
  <2> QED BY <2>3 DEF Promise!Next
<1>3. ASSUME NEW q \in Requests, Commit(q) \/ CommitUnheard(q) PROVE Promise!Next
  BY <1>3, CommitIsAtomic DEF Promise!Next
<1>4. ASSUME NEW q \in Requests,
             \/ Refuse(q) \/ Begin(q) \/ Execute(q) \/ Duplicate(q)
             \/ NothingAffected(q) \/ TooManyAffected(q) \/ SqlFails(q)
             \/ Audit(q) \/ AuditFails(q) \/ Receive(q) \/ LoseAnswer(q)
      PROVE  UNCHANGED <<table, unique, request, applied>>
  BY <1>4 DEF Refuse, Begin, Execute, Duplicate, NothingAffected, TooManyAffected,
              SqlFails, Audit, AuditFails, Receive, LoseAnswer
<1>5. CASE Crash \/ UNCHANGED vars
  BY <1>5 DEF Crash, vars
<1> QED BY <1>1, <1>2, <1>3, <1>4, <1>5 DEF Next, Browse, Handle

\* MutationRepository implements OptimisticTable: each committed request takes
\* effect in one step, on one row, which still has the key and the rowversion.
THEOREM KeepsPromise == Spec => PromiseKept
<1>1. Init => Promise!Init
  BY DEF Init, Promise!Init
<1>2. IndInv /\ [Next]_vars => [Promise!Next]_<<table, unique, request, applied>>
  BY StepRefines
<1> QED BY Inductive, <1>1, <1>2, PTL DEF Spec, PromiseKept, Promise!Spec

==========================================================================
