------------------------- MODULE MCSettingsStore -------------------------
(* Instances of SettingsStore for TLC. *)
EXTENDS SettingsStore, TLC

Symmetry == Permutations(Requests) \cup Permutations(Files) \cup Permutations(Objects)

\* A file with no name that nobody has open is gone: what it held is not state.
\* Create gives it new content before it is named again.
InUse == {f \in Files : ~Unused(f)}
View  == <<live, tmp, bak, [f \in InUse |-> content[f]],
           handle, pc, op, arg, loaded, reply, past, seen>>

==========================================================================
