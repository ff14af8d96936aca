------------------------ MODULE MCWorkPartitionStore ------------------------
\* TLC instances of WorkPartitionStore.
EXTENDS WorkPartitionStore, TLC

\* The state.edn an upgraded installation brings: one item, no chart.
MCLegacy == [EmptyLedger EXCEPT !.evidence = {[item |-> CHOOSE i \in Item : TRUE, org |-> None]}]

Symmetry == Permutations(Proc) \cup Permutations(Gen) \cup Permutations(Org)
=============================================================================
