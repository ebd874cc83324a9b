------------------------------ MODULE QueryView ------------------------------
(***************************************************************************)
(* What a table whose content is asked for in the background promises to   *)
(* whoever looks at it: the answer to the query on screen, or, as long as  *)
(* that has not come, what was there before.  A late answer to a query     *)
(* that has been left is never displayed, nor is an answer replaced by an  *)
(* older one to the same query.                                            *)
(***************************************************************************)
EXTENDS Integers

CONSTANT Nothing

VARIABLES wanted,   \* the query on screen
          shown,    \* an answer, which knows its query and its version, or Nothing
          kept      \* the query that was last answered while it was on screen, or Nothing

Answers(answer, query) == answer # Nothing /\ answer.query = query

Older(answer, other) == other # Nothing /\ Answers(answer, other.query) /\ answer.version < other.version

Keep == kept' = IF Answers(shown', wanted') THEN wanted' ELSE kept

Init == shown = Nothing /\ kept = Nothing

\* Another query, whose answer may be there already.
Want ==
    /\ wanted' # wanted
    /\ shown' = shown \/ shown' = Nothing \/ Answers(shown', wanted') \/ Answers(shown', kept)
    /\ Keep

Answer ==
    /\ Answers(shown', wanted)
    /\ ~Older(shown', shown)
    /\ UNCHANGED wanted
    /\ Keep

Fail == shown' = Nothing /\ UNCHANGED <<wanted, kept>>

\* After a failure the query is asked again, and what was there before is back meanwhile.
Retry == shown = Nothing /\ Answers(shown', kept) /\ UNCHANGED <<wanted, kept>>

Next == Want \/ Answer \/ Fail \/ Retry

Spec == Init /\ [][Next]_<<wanted, shown, kept>>

=============================================================================
