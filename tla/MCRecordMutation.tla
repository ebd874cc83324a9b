------------------------- MODULE MCRecordMutation -------------------------
(* Instances of RecordMutation for TLC. Requests, rows and keys are numbers, *)
(* and of behaviours that only differ in these names one is explored.        *)
EXTENDS RecordMutation, Integers

\* Unused requests are alike: the first of them is made next.
FirstUnusedAsks ==
    \A p, q \in Requests : p < q /\ pc[q] = "unused" /\ pc'[q] # "unused" => pc[p] # "unused"

\* The first rows are filled, and the first row has the first key.
OrderedInit ==
    /\ Init
    /\ \A r, s \in Rows : r < s /\ table[r] = Absent => table[s] = Absent
    /\ \A r \in Rows : (\A s \in Rows : r =< s) /\ table[r] # Absent => \A k \in Keys : table[r].key =< k

OrderedSpec == OrderedInit /\ [][Next /\ FirstUnusedAsks]_vars /\ Fairness

==========================================================================
