----------------------------- MODULE ObjectTree -----------------------------
(***************************************************************************)
(* The tree beside the grid: objects grouped by type and schema, a search  *)
(* field, schema nodes that open and close.  A node's state lives as long  *)
(* as the node is rendered.  What the tree is given, a set of subjects of  *)
(* AccessControl, is a parameter of its operators.                         *)
(***************************************************************************)

CONSTANTS Terms,    \* what can be typed into the search field
          NoTerm,   \* the empty text
          Blanks,   \* texts that trim to the empty one
          Matches   \* the names of the objects that a term finds

TreeAssumption == NoTerm \in Blanks /\ Blanks \subseteq Terms

ASSUME TreeAssumption

VARIABLES treeOpen,   \* the panel is there
          search,
          collapsed   \* the nodes that are closed

treeVars == <<treeOpen, search, collapsed>>

NodeOf(subject) == <<subject.type, subject.schema>>

Filtered(subjects, term) ==
    IF term \in Blanks THEN subjects ELSE {s \in subjects : s.name \in Matches[term]}

Nodes(subjects, term) == {NodeOf(s) : s \in Filtered(subjects, term)}

MutantOpenUnlessClosed(node) == node \notin collapsed

IsOpen(node) == search # NoTerm \/ node \notin collapsed

\* The names that can be clicked.
Shown(subjects) == {s.name : s \in {s \in Filtered(subjects, search) : treeOpen /\ IsOpen(NodeOf(s))}}

TreeInit == treeOpen = TRUE /\ search = NoTerm /\ collapsed = {}

\* Typing; nodes that disappear forget that they were closed.
SearchFor(subjects, term) ==
    /\ treeOpen
    /\ term # search
    /\ search' = term
    /\ collapsed' = collapsed \cap Nodes(subjects, term)
    /\ UNCHANGED treeOpen

\* Clicking a node, which has no visible effect as long as something is searched.
ToggleNode(subjects, node) ==
    /\ treeOpen
    /\ node \in Nodes(subjects, search)
    /\ collapsed' = IF node \in collapsed THEN collapsed \ {node} ELSE collapsed \cup {node}
    /\ UNCHANGED <<treeOpen, search>>

\* The button of the navigation rail: the tree is unmounted, or mounted anew.
ToggleTree ==
    /\ treeOpen' = ~treeOpen
    /\ search' = NoTerm
    /\ collapsed' = {}

=============================================================================
