--------------------------- MODULE MCStateJournal ---------------------------
\* TLC instances of StateJournal.
EXTENDS StateJournal, TLC

Symmetry == Permutations(Proc)
=============================================================================
