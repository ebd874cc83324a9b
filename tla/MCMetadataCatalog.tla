------------------------ MODULE MCMetadataCatalog ------------------------
(* Instances of MetadataCatalog for TLC. *)
EXTENDS MetadataCatalog

CONSTANT Third      \* a caller that only calls at the start

\* Three callers meet before time passes and anything is refreshed or altered,
\* so that two can queue behind one; two meet whatever happens. Only calls, the
\* clock, the schema and refreshes are held back, none of which is ever due.
ThirdIsEarly ==
    pc'[Third] # "idle" => now' = 0 /\ schema' = 0 /\ cleared' = 0

BoundedSpec == Init /\ [][Next /\ ThirdIsEarly]_vars /\ Fairness

==========================================================================
