---------------------------- MODULE AtomicLedger ----------------------------
(***************************************************************************)
(* What the partitioned store promises its callers: one ledger, changed by *)
(* whole transactions, each applied to the value the previous one left.    *)
(* Files, generations, crashes and cooperating processes are invisible.    *)
(***************************************************************************)
EXTENDS WorkLedger

CONSTANT Legacy          \* the ledger of a state.edn written before partitions

VARIABLE ledger

Init == ledger = Legacy
Next == ledger' \in Updates(ledger)
Spec == Init /\ [][Next]_ledger

=============================================================================
