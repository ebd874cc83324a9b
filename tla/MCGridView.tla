------------------------------ MODULE MCGridView ------------------------------
(* A small table for the grid. *)
EXTENDS GridView

SomeColumns == [Id |-> [clrType |-> "Guid", sortable |-> TRUE, filterable |-> TRUE],
                Doc |-> [clrType |-> "String", sortable |-> FALSE, filterable |-> FALSE]]

SomeTables == {[all |-> 3, matching |-> 1], [all |-> 2, matching |-> 0]}

By(column, direction) == [column |-> column, direction |-> direction]

\* What headers make of no sort and of a sort by a column that is gone.
SomeSorts == {<<>>, <<By("Id", "asc")>>, <<By("Id", "desc")>>, <<By("Gone", "asc")>>} \cup
             {<<By("Gone", "asc"), By("Id", d)>> : d \in {"asc", "desc"}}

\* Nothing stored, a sort by a column that has been dropped since, and a page size that is not allowed any more.
SomeLayouts == {[sort |-> <<>>, pageSize |-> 1],
                [sort |-> <<[column |-> "Gone", direction |-> "asc"]>>, pageSize |-> 1],
                [sort |-> <<>>, pageSize |-> 4]}

Budget(clicks, own, others, failures) ==
    [clicks |-> clicks, own |-> own, others |-> others, failures |-> failures]

SomeStarts ==
    {[table |-> [all |-> 3, matching |-> 1], counting |-> TRUE, budget |-> Budget(2, 0, 0, 1)],
     [table |-> [all |-> 3, matching |-> 1], counting |-> TRUE, budget |-> Budget(1, 1, 0, 1)],
     [table |-> [all |-> 2, matching |-> 0], counting |-> FALSE, budget |-> Budget(1, 0, 1, 1)]}

=============================================================================
