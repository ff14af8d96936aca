----------------------------- MODULE WorkLedger -----------------------------
(***************************************************************************)
(* The governed-work ledger (the value of :work-governance) as the storage *)
(* layer sees it: which organizations have a chart, which have staff, who  *)
(* owns each WorkItem, which items carry a source basis and which evidence *)
(* records name which item or organization.  Titles, hashes, receipts'     *)
(* contents and vector order are abstracted: the storage layer copies them *)
(* and decides nothing from them.                                          *)
(***************************************************************************)

CONSTANTS
  Org,     \* organizations (tenants)
  Item,    \* WorkItem ids
  None     \* "no organization" / "no item" / absent WorkItem

ASSUME NoneAssumption == None \notin Org \cup Item

(***************************************************************************)
(* An evidence record (approval, execution, verification or projection     *)
(* receipt, audit event, dead letter) names an item, or an organization    *)
(* when it is the audit of an organization chart.                          *)
(***************************************************************************)
Evidence == [item : Item \cup {None}, org : Org \cup {None}]

Ledger == [orgs     : SUBSET Org,           \* keys of :organizations
           seats    : SUBSET Org,           \* orgs with performers, units, ...
           owner    : [Item -> Org \cup {None}],
           bases    : SUBSET Item,          \* keys of :source-bases
           evidence : SUBSET Evidence]

EmptyLedger == [orgs |-> {}, seats |-> {}, owner |-> [i \in Item |-> None],
                bases |-> {}, evidence |-> {}]

(***************************************************************************)
(* The updates a transaction applies (work_runtime.cljk).                  *)
(***************************************************************************)
PutOrganization(l, o, staffed) ==   \* replacement of o's whole chart
  [l EXCEPT !.orgs     = @ \cup {o},
            !.seats    = IF staffed THEN @ \cup {o} ELSE @ \ {o},
            !.evidence = @ \cup {[item |-> None, org |-> o]}]

PutPerformer(l, o) == [l EXCEPT !.seats = @ \cup {o}]

PutWorkItem(l, i, o, sourced) ==
  [l EXCEPT !.owner[i] = o,
            !.bases    = IF sourced THEN @ \cup {i} ELSE @]

RecordEvidence(l, i) ==
  [l EXCEPT !.evidence = @ \cup {[item |-> i, org |-> None]}]

\* Every value a transaction may leave; l itself when it touched only the
\* main state, or re-recorded what was there.
Updates(l) ==
  {l} \cup {PutOrganization(l, o, s) : o \in Org, s \in BOOLEAN}
      \cup {PutPerformer(l, o) : o \in Org}
      \cup {PutWorkItem(l, i, o, s) : i \in Item, o \in Org, s \in BOOLEAN}
      \cup {RecordEvidence(l, i) : i \in Item}

=============================================================================
