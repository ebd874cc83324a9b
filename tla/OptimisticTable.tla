------------------------- MODULE OptimisticTable -------------------------
(***************************************************************************)
(* What creating, updating and deleting records promises, apart from how   *)
(* MutationRepository does it: a request that takes effect does so in one  *)
(* step, on one row, and an update or a delete only on a row that still    *)
(* has the key and the rowversion the request was made for.  Whether and   *)
(* when a request takes effect is left open.                               *)
(***************************************************************************)
CONSTANTS
    Rows,       \* slots of the table
    Requests,   \* create, update and delete requests, each made at most once
    Absent,     \* the content of an empty slot
    None,       \* a request that has not been made
    NoToken     \* the concurrency token of a request that has none

VARIABLES
    table,      \* the committed content of each slot
    unique,     \* does the database enforce that the stable key is unique?
    request,    \* what each request asks for, or None
    applied     \* the requests that have taken effect

\* A rowversion is identified by what wrote it: the request, or, for a row
\* that was there from the start, the row itself.  It is never used twice.
Written(q, key) == [key |-> key, version |-> q]

\* The row the request was made for, as WHERE key = @k AND rowversion = @rv
\* finds it.
Matches(q, r) ==
    /\ table[r] # Absent
    /\ table[r].key = request[q].key
    /\ request[q].token \in {NoToken, table[r].version}

Init ==
    /\ unique \in BOOLEAN
    /\ \A r \in Rows : table[r] # Absent => table[r].version = r
    /\ request = [q \in Requests |-> None]
    /\ applied = {}

Ask(q) ==
    /\ request[q] = None
    /\ request'[q] # None
    /\ \A p \in Requests \ {q} : request'[p] = request[p]
    /\ UNCHANGED <<table, unique, applied>>

Apply(q) ==
    /\ q \notin applied
    /\ request[q] # None
    /\ \E r \in Rows :
          \/ /\ request[q].op = "create"
             /\ table[r] = Absent
             /\ unique => \A s \in Rows \ {r} :
                             table[s] = Absent \/ table[s].key # request[q].key
             /\ table' = [table EXCEPT ![r] = Written(q, request[q].key)]
          \/ /\ request[q].op = "update"
             /\ Matches(q, r)
             /\ table' = [table EXCEPT ![r] = Written(q, request[q].key)]
          \/ /\ request[q].op = "delete"
             /\ Matches(q, r)
             /\ table' = [table EXCEPT ![r] = Absent]
    /\ applied' = applied \cup {q}
    /\ UNCHANGED <<unique, request>>

Next == \E q \in Requests : Ask(q) \/ Apply(q)

Spec == Init /\ [][Next]_<<table, unique, request, applied>>

==========================================================================
