---------------------------- MODULE AtomicStore ----------------------------
(***************************************************************************)
(* What store.cljk promises the processes that share a data directory: one *)
(* state, in two partitions (the main store and governed work), changed by *)
(* whole transactions, each computed from what the previous one left.      *)
(***************************************************************************)
EXTENDS Integers, Sequences

CONSTANTS
  Window,     \* store-core's retention: a transcript keeps this many entries
  MaxTxns     \* bound: transactions issued

\* append-message with retain-window: the new entry, and the oldest entries
\* beyond the window dropped.
AppendEntry(log, n) ==
  LET all == Append(log, n)
  IN  IF Len(all) > Window THEN SubSeq(all, Len(all) - Window + 1, Len(all)) ELSE all

VARIABLES main, work

Init == main = <<>> /\ work = 0

MainTransaction == \E n \in 1..MaxTxns : main' = AppendEntry(main, n) /\ UNCHANGED work
WorkTransaction == \E n \in 1..MaxTxns : work' = n /\ UNCHANGED main

Next == MainTransaction \/ WorkTransaction
Spec == Init /\ [][Next]_<<main, work>>
=============================================================================
