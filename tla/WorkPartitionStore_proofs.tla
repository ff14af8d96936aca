--------------------- MODULE WorkPartitionStore_proofs ---------------------
(***************************************************************************)
(* Proofs about the partitioned ledger store, for any sets of              *)
(* organizations, items, processes and generations and any bounds.         *)
(*                                                                         *)
(* The inductive invariant ties the files of two generations to ledgers:   *)
(* those the manifest names hold the fragments of the committed ledger (or *)
(* were torn by a power loss), and those the running transaction has       *)
(* written so far hold the fragments of the ledger it will commit.         *)
(***************************************************************************)
EXTENDS WorkPartitionStore, FiniteSetTheorems, TLAPS

\* The files of generation g hold the fragments of l for the parts in ps.
Holds(g, l, ps) == \A p \in ps : files[g][p] = Whole(Fragment(l, p))

LedgersOK ==
  /\ AuditsNameCharts(committed)
  /\ AuditsNameCharts(txn.new)

LockOK == lock = None <=> txn.phase = "none"

WritingOK ==
  txn.phase = "write" =>
    /\ txn.gen \in Gen
    /\ txn.gen # manifest.gen
    /\ txn.replaces = manifest
    /\ txn.new \in Updates(committed)
    /\ txn.todo \subseteq OrganizationIds(txn.new) \cup {Global}
    /\ Holds(txn.gen, txn.new, (OrganizationIds(txn.new) \cup {Global}) \ txn.todo)

SelectedOK ==
  /\ manifest.gen = None => committed = Legacy
  /\ manifest.gen # None =>
       /\ manifest.orgs = OrganizationIds(committed)
       /\ \A p \in PartsOf(manifest) :
            \/ files[manifest.gen][p] = Whole(Fragment(committed, p))
            \/ files[manifest.gen][p] = Torn

\* The files of the previous generation outlive the transaction that
\* replaced it, and the collection knows which generation that is.
ReplacedOK ==
  /\ txn.phase = "collect" => txn.replaces = previous
  /\ \A f \in Named(previous) : files[f[1]][f[2]] # NoFile

IInv == TypeOK /\ LedgersOK /\ LockOK /\ WritingOK /\ SelectedOK /\ ReplacedOK
-----------------------------------------------------------------------------
(***************************************************************************)
(* Lemmas about ledgers and fragments.                                     *)
(***************************************************************************)

\* Every organization a ledger names is an organization.
LEMMA OrganizationIdsType ==
  ASSUME NEW l \in Ledger
  PROVE  OrganizationIds(l) \subseteq Org
BY DEF Ledger, OrganizationIds

\* Splitting yields ledgers (persist-ledger! writes maps of the same shape).
LEMMA FragmentType ==
  ASSUME NEW l \in Ledger, NEW p \in Part
  PROVE  Fragment(l, p) \in Ledger
<1>1. CASE p = Global
  BY <1>1 DEF Ledger, Fragment, GlobalFragment
<1>2. CASE p # Global
  <2>1. p \in Org
    BY <1>2 DEF Part
  <2> QED
    BY <1>2, <2>1 DEF Ledger, Fragment, TenantFragment
<1> QED
  BY <1>1, <1>2

\* A transaction's update leaves a ledger, and one whose audits name charts.
LEMMA UpdatesType ==
  ASSUME NEW l \in Ledger, AuditsNameCharts(l), NEW n \in Updates(l)
  PROVE  n \in Ledger /\ AuditsNameCharts(n)
<1>1. CASE n = l
  BY <1>1
<1>2. ASSUME NEW o \in Org, NEW s \in BOOLEAN, n = PutOrganization(l, o, s)
      PROVE  n \in Ledger /\ AuditsNameCharts(n)
  <2> DEFINE e0 == [item |-> None, org |-> o]
  <2>1. e0 \in Evidence
    BY DEF Evidence
  <2>2. l.evidence \subseteq Evidence /\ l.orgs \subseteq Org /\ l.seats \subseteq Org
    BY DEF Ledger
  <2>3. n = [l EXCEPT !.orgs     = @ \cup {o},
                      !.seats    = IF s THEN @ \cup {o} ELSE @ \ {o},
                      !.evidence = @ \cup {e0}]
    BY <1>2 DEF PutOrganization
  <2>4. /\ n.orgs = l.orgs \cup {o}
        /\ n.evidence = l.evidence \cup {e0}
    BY <2>3 DEF Ledger
  <2>5. e0.org = o
    OBVIOUS
  <2> HIDE DEF e0
  <2>6. l.seats \cup {o} \in SUBSET Org /\ l.seats \ {o} \in SUBSET Org
    BY <2>2
  <2>7. n \in Ledger
    BY <2>1, <2>2, <2>3, <2>6 DEF Ledger
  <2>8. AuditsNameCharts(n)
    BY <2>4, <2>5 DEF AuditsNameCharts
  <2> QED
    BY <2>7, <2>8
<1>3. ASSUME NEW o \in Org, n = PutPerformer(l, o)
      PROVE  n \in Ledger /\ AuditsNameCharts(n)
  BY <1>3 DEF Ledger, PutPerformer, AuditsNameCharts
<1>4. ASSUME NEW i \in Item, NEW o \in Org, NEW s \in BOOLEAN,
             n = PutWorkItem(l, i, o, s)
      PROVE  n \in Ledger /\ AuditsNameCharts(n)
  BY <1>4 DEF Ledger, PutWorkItem, AuditsNameCharts
<1>5. ASSUME NEW i \in Item, n = RecordEvidence(l, i)
      PROVE  n \in Ledger /\ AuditsNameCharts(n)
  <2> DEFINE e0 == [item |-> i, org |-> None]
  <2>1. e0 \in Evidence /\ e0.org = None
    BY DEF Evidence
  <2>2. n = [l EXCEPT !.evidence = @ \cup {e0}]
    BY <1>5 DEF RecordEvidence
  <2> HIDE DEF e0
  <2>3. n.orgs = l.orgs /\ n.evidence = l.evidence \cup {e0}
    BY <2>2 DEF Ledger
  <2>4. n \in Ledger
    BY <2>1, <2>2 DEF Ledger
  <2>5. AuditsNameCharts(n)
    BY <2>1, <2>3 DEF AuditsNameCharts
  <2> QED
    BY <2>4, <2>5
<1> QED
  BY <1>1, <1>2, <1>3, <1>4, <1>5 DEF Updates

\* The fields of a tenant fragment, one by one.
LEMMA TenantFields ==
  ASSUME NEW l, NEW p
  PROVE  /\ TenantFragment(l, p).orgs = l.orgs \cap {p}
         /\ TenantFragment(l, p).seats = l.seats \cap {p}
         /\ \A i \in Item :
              TenantFragment(l, p).owner[i] = IF l.owner[i] = p THEN p ELSE None
         /\ TenantFragment(l, p).bases = {i \in l.bases : l.owner[i] = p}
         /\ TenantFragment(l, p).evidence =
              {e \in l.evidence : RecordOrganization(l, e) = p}
<1>1. TenantFragment(l, p).orgs = l.orgs \cap {p}
  BY DEF TenantFragment
<1>2. TenantFragment(l, p).seats = l.seats \cap {p}
  BY DEF TenantFragment
<1>3. \A i \in Item :
        TenantFragment(l, p).owner[i] = IF l.owner[i] = p THEN p ELSE None
  BY DEF TenantFragment
<1>4. TenantFragment(l, p).bases = {i \in l.bases : l.owner[i] = p}
  BY DEF TenantFragment
<1>5. TenantFragment(l, p).evidence =
        {e \in l.evidence : RecordOrganization(l, e) = p}
  BY DEF TenantFragment
<1> QED
  BY <1>1, <1>2, <1>3, <1>4, <1>5

\* Merging what was split gives the ledger back: no record is lost, and none
\* moves to another organization (merge-fragment against global-fragment and
\* tenant-fragment, which decide separately where a record goes).
LEMMA RoundTrip ==
  ASSUME NEW l \in Ledger, AuditsNameCharts(l), NEW frag,
         \A p \in OrganizationIds(l) \cup {Global} : frag[p] = Fragment(l, p)
  PROVE  MergeFragments(frag, OrganizationIds(l) \cup {Global}) = l
<1> DEFINE ids   == OrganizationIds(l)
           parts == ids \cup {Global}
           m     == MergeFragments(frag, parts)
<1>1. ids \subseteq Org /\ Global \notin ids /\ None \notin ids
  BY OrganizationIdsType, GlobalAssumption, NoneAssumption
<1>2. frag[Global] = GlobalFragment(l)
  BY DEF Fragment
<1>3. \A p \in ids : frag[p] = TenantFragment(l, p)
  BY <1>1 DEF Fragment
<1>4. m.orgs = l.orgs
  <2>1. l.orgs \subseteq ids
    BY DEF OrganizationIds
  <2>2. frag[Global].orgs = {}
    BY <1>2 DEF GlobalFragment
  <2>3. \A p \in ids : frag[p].orgs = l.orgs \cap {p}
    BY <1>3, TenantFields
  <2>4. m.orgs = UNION {frag[p].orgs : p \in parts}
    BY DEF MergeFragments
  <2> HIDE DEF m, ids
  <2>5. ASSUME NEW o \in l.orgs PROVE o \in m.orgs
    <3>1. o \in ids /\ o \in frag[o].orgs
      BY <2>1, <2>3
    <3> QED
      BY <3>1, <2>4
  <2>6. ASSUME NEW o \in m.orgs PROVE o \in l.orgs
    <3>1. PICK p \in parts : o \in frag[p].orgs
      BY <2>4
    <3> QED
      BY <3>1, <2>2, <2>3
  <2>7. \A o : o \in m.orgs <=> o \in l.orgs
    BY <2>5, <2>6
  <2> QED
    BY <2>7, SetExtensionality
<1>5. m.seats = l.seats
  <2>1. l.seats \subseteq ids
    BY DEF OrganizationIds
  <2>2. frag[Global].seats = {}
    BY <1>2, <2>1 DEF GlobalFragment
  <2>3. \A p \in ids : frag[p].seats = l.seats \cap {p}
    BY <1>3, TenantFields
  <2>4. m.seats = UNION {frag[p].seats : p \in parts}
    BY DEF MergeFragments
  <2> HIDE DEF m, ids
  <2>5. ASSUME NEW o \in l.seats PROVE o \in m.seats
    <3>1. o \in ids /\ o \in frag[o].seats
      BY <2>1, <2>3
    <3> QED
      BY <3>1, <2>4
  <2>6. ASSUME NEW o \in m.seats PROVE o \in l.seats
    <3>1. PICK p \in parts : o \in frag[p].seats
      BY <2>4
    <3> QED
      BY <3>1, <2>2, <2>3
  <2>7. \A o : o \in m.seats <=> o \in l.seats
    BY <2>5, <2>6
  <2> QED
    BY <2>7, SetExtensionality
<1>6. \A i \in Item : l.owner[i] \in ids \cup {None}
  BY DEF OrganizationIds, Ledger
<1>7. m.owner = l.owner
  <2>1. \A i \in Item : frag[Global].owner[i] = None
    BY <1>2, <1>6, <1>1 DEF GlobalFragment
  <2>2. \A p \in ids : \A i \in Item :
          frag[p].owner[i] = IF l.owner[i] = p THEN p ELSE None
    BY <1>3, TenantFields
  <2>3. m.owner = [i \in Item |->
                     IF \E p \in parts : frag[p].owner[i] # None
                     THEN frag[CHOOSE p \in parts : frag[p].owner[i] # None].owner[i]
                     ELSE None]
    BY DEF MergeFragments
  <2>4. ASSUME NEW i \in Item
        PROVE  m.owner[i] = l.owner[i]
    <3>1. CASE l.owner[i] = None
      <4>1. ~ \E p \in parts : frag[p].owner[i] # None
        BY <2>1, <2>2, <3>1, <1>1
      <4> QED
        BY <4>1, <2>3, <3>1
    <3>2. CASE l.owner[i] # None
      <4> DEFINE q == CHOOSE p \in parts : frag[p].owner[i] # None
      <4>1. l.owner[i] \in ids
        BY <3>2, <1>6
      <4>2. frag[l.owner[i]].owner[i] # None
        BY <4>1, <2>2, <3>2
      <4>3. q \in parts /\ frag[q].owner[i] # None
        BY <4>1, <4>2
      <4>4. frag[q].owner[i] = l.owner[i]
        BY <4>3, <2>1, <2>2
      <4>5. \E p \in parts : frag[p].owner[i] # None
        BY <4>3
      <4> HIDE DEF m, parts
      <4>6. m.owner[i] = frag[q].owner[i]
        BY <4>5, <2>3
      <4> QED
        BY <4>4, <4>6
    <3> QED
      BY <3>1, <3>2
  <2>5. l.owner \in [Item -> Org \cup {None}]
    BY DEF Ledger
  <2> HIDE DEF m, parts
  <2> QED
    BY <2>3, <2>4, <2>5
<1>8. m.bases = l.bases
  <2>1. frag[Global].bases = {i \in l.bases : l.owner[i] \notin ids}
    BY <1>2 DEF GlobalFragment
  <2>2. \A p \in ids : frag[p].bases = {i \in l.bases : l.owner[i] = p}
    BY <1>3, TenantFields
  <2>3. m.bases = UNION {frag[p].bases : p \in parts}
    BY DEF MergeFragments
  <2>4. l.bases \subseteq Item
    BY DEF Ledger
  <2> HIDE DEF m
  <2>5. ASSUME NEW i \in l.bases PROVE i \in m.bases
    <3>1. CASE l.owner[i] \in ids
      BY <3>1, <2>2, <2>3
    <3>2. CASE l.owner[i] \notin ids
      BY <3>2, <2>1, <2>3
    <3> QED
      BY <3>1, <3>2
  <2>6. ASSUME NEW i \in m.bases PROVE i \in l.bases
    <3>1. PICK p \in parts : i \in frag[p].bases
      BY <2>3
    <3> QED
      BY <3>1, <2>1, <2>2
  <2>7. \A i : i \in m.bases <=> i \in l.bases
    BY <2>5, <2>6
  <2> QED
    BY <2>7, SetExtensionality
<1>9. m.evidence = l.evidence
  <2>1. frag[Global].evidence = {e \in l.evidence : RecordOrganization(l, e) = None}
    BY <1>2 DEF GlobalFragment
  <2>2. \A p \in ids :
          frag[p].evidence = {e \in l.evidence : RecordOrganization(l, e) = p}
    BY <1>3, TenantFields
  <2>3. m.evidence = UNION {frag[p].evidence : p \in parts}
    BY DEF MergeFragments
  <2>4. ASSUME NEW e \in l.evidence
        PROVE  RecordOrganization(l, e) \in ids \cup {None}
    <3>1. e.item \in Item \cup {None}
      BY DEF Ledger, Evidence
    <3>2. l.orgs \subseteq ids
      BY DEF OrganizationIds
    <3> QED
      BY <3>1, <3>2, <1>6 DEF RecordOrganization, AuditsNameCharts
  <2> HIDE DEF m
  <2>5. ASSUME NEW e \in l.evidence PROVE e \in m.evidence
    BY <2>1, <2>2, <2>3, <2>4
  <2>6. ASSUME NEW e \in m.evidence PROVE e \in l.evidence
    <3>1. PICK p \in parts : e \in frag[p].evidence
      BY <2>3
    <3> QED
      BY <3>1, <2>1, <2>2
  <2>7. \A e : e \in m.evidence <=> e \in l.evidence
    BY <2>5, <2>6
  <2> QED
    BY <2>7, SetExtensionality
<1>10. m = [orgs |-> m.orgs, seats |-> m.seats, owner |-> m.owner,
            bases |-> m.bases, evidence |-> m.evidence]
  BY DEF MergeFragments
<1>11. l = [orgs |-> l.orgs, seats |-> l.seats, owner |-> l.owner,
            bases |-> l.bases, evidence |-> l.evidence]
  BY DEF Ledger
<1> HIDE DEF m
<1>12. m = l
  BY <1>4, <1>5, <1>7, <1>8, <1>9, <1>10, <1>11
<1> QED
  BY <1>12 DEF m
-----------------------------------------------------------------------------
(***************************************************************************)
(* What the invariant says of a reader.                                    *)
(***************************************************************************)

\* load-ledger, when it accepts the files, returns the committed ledger.
LEMMA LoadsCommitted ==
  ASSUME IInv, Complete(manifest)
  PROVE  LoadLedger = committed
<1>1. CASE manifest.gen = None
  BY <1>1 DEF IInv, SelectedOK, LoadLedger, LoadGeneration
<1>2. CASE manifest.gen # None
  <2> DEFINE frag == [p \in Part |-> files[manifest.gen][p].data]
  <2>1. committed \in Ledger /\ AuditsNameCharts(committed)
    BY DEF IInv, TypeOK, LedgersOK
  <2>2. PartsOf(manifest) = OrganizationIds(committed) \cup {Global}
    BY <1>2 DEF IInv, SelectedOK, PartsOf
  <2>3. OrganizationIds(committed) \cup {Global} \subseteq Part
    BY <2>1, OrganizationIdsType DEF Part
  <2>4. ASSUME NEW p \in OrganizationIds(committed) \cup {Global}
        PROVE  frag[p] = Fragment(committed, p)
    <3>1. files[manifest.gen][p].state = "whole"
      BY <1>2, <2>2 DEF Complete
    <3>2. files[manifest.gen][p] # Torn
      BY <3>1 DEF Torn
    <3>3. files[manifest.gen][p] = Whole(Fragment(committed, p))
      BY <1>2, <2>2, <3>2 DEF IInv, SelectedOK
    <3> QED
      BY <2>3, <3>3 DEF Whole
  <2> HIDE DEF frag
  <2>5. MergeFragments(frag, OrganizationIds(committed) \cup {Global}) = committed
    BY <2>1, <2>4, RoundTrip
  <2> QED
    BY <1>2, <2>2, <2>5 DEF LoadLedger, LoadGeneration, frag
<1> QED
  BY <1>1, <1>2

\* Whole, torn and absent files differ.
LEMMA FileStates ==
  ASSUME NEW l
  PROVE  Whole(l) # NoFile /\ Whole(l) # Torn /\ Torn # NoFile
BY DEF Whole, NoFile, Torn

\* The two constant file values are files.
LEMMA FileType ==
  /\ \A l \in Ledger : Whole(l) \in File
  /\ NoFile \in File /\ Torn \in File
<1>1. EmptyLedger \in Ledger
  BY DEF EmptyLedger, Ledger, Evidence
<1> QED
  BY <1>1 DEF Whole, NoFile, Torn, File

\* The idle transaction and the absent manifest are of their types.
LEMMA NoTxnType == NoTxn \in Txn /\ NoManifest \in Manifest
<1>1. EmptyLedger \in Ledger
  BY DEF EmptyLedger, Ledger, Evidence
<1> QED
  BY <1>1 DEF NoTxn, Txn, NoManifest, Manifest

-----------------------------------------------------------------------------
(***************************************************************************)
(* The invariant holds initially and every step preserves it.              *)
(***************************************************************************)
\* An empty directory satisfies the invariant.
LEMMA InitIInv == Init => IInv
<1> SUFFICES ASSUME Init PROVE IInv
  OBVIOUS
<1> USE DEF Init
<1>1. TypeOK
  <2>1. files \in [Gen -> [Part -> File]]
    BY FileType
  <2> QED
    BY <2>1, NoTxnType, LegacyAssumption, BoundsAssumption DEF TypeOK
<1>2. LedgersOK
  BY LegacyAuditsNameCharts DEF LedgersOK, NoTxn, EmptyLedger, AuditsNameCharts
<1>3. LockOK /\ WritingOK
  BY DEF LockOK, WritingOK, NoTxn
<1>4. SelectedOK
  BY DEF SelectedOK, NoManifest
<1>5. ReplacedOK
  BY DEF ReplacedOK, NoTxn, NoManifest, Named
<1> QED
  BY <1>1, <1>2, <1>3, <1>4, <1>5 DEF IInv

\* Begin: the ledger is read back, and no file of the new generation exists.
LEMMA BeginStep ==
  ASSUME IInv, NEW p \in Proc, Begin(p)
  PROVE  IInv'
<1> PICK l \in Updates(LoadLedger), g \in Gen :
      /\ FreshGen(g)
      /\ txn' = [phase |-> "write", new |-> l, gen |-> g, replaces |-> manifest,
                  todo |-> OrganizationIds(l) \cup {Global}]
  BY DEF Begin
<1>1. /\ lock' = p /\ lock = None /\ Complete(manifest)
      /\ UNCHANGED <<files, dirty, manifest, previous, committed, crashes, powerLosses>>
  BY DEF Begin
<1>2. LoadLedger = committed
  BY <1>1, LoadsCommitted
<1>3. l \in Updates(committed) /\ l \in Ledger /\ AuditsNameCharts(l)
  BY <1>2, UpdatesType DEF IInv, TypeOK, LedgersOK
<1>4. OrganizationIds(l) \cup {Global} \subseteq Part
  BY <1>3, OrganizationIdsType DEF Part
<1>5. g # manifest.gen
  <2> SUFFICES ASSUME g = manifest.gen PROVE FALSE
    OBVIOUS
  <2>1. manifest.gen # None
    BY NoneAssumptions
  <2>2. files[g][Global] # NoFile
    BY <2>1, FileStates DEF IInv, SelectedOK, PartsOf
  <2> QED
    BY <2>2 DEF FreshGen, Part
<1>6. TypeOK'
  BY <1>1, <1>3, <1>4 DEF IInv, TypeOK, Txn
<1>7. LedgersOK'
  BY <1>1, <1>3 DEF IInv, LedgersOK, AuditsNameCharts
<1>8. LockOK'
  BY <1>1, NoneAssumptions DEF LockOK
<1>9. WritingOK'
  BY <1>1, <1>3, <1>5 DEF WritingOK, Holds
<1>10. SelectedOK'
  BY <1>1 DEF IInv, SelectedOK, PartsOf
<1>11. ReplacedOK'
  BY <1>1 DEF IInv, ReplacedOK, Named, PartsOf
<1> QED
  BY <1>6, <1>7, <1>8, <1>9, <1>10, <1>11 DEF IInv

\* The files the transaction has written so far are those of its ledger, and
\* no file of the selected or the previous generation is touched.
LEMMA WriteFragmentStep ==
  ASSUME IInv, NEW p \in Proc, WriteFragment(p)
  PROVE  IInv'
<1> PICK q \in txn.todo :
      /\ files' = [files EXCEPT ![txn.gen][q] = Whole(Fragment(txn.new, q))]
      /\ dirty' = dirty \cup {<<txn.gen, q>>}
      /\ txn' = [txn EXCEPT !.todo = @ \ {q}]
  BY DEF WriteFragment
<1>1. /\ lock = p /\ txn.phase = "write"
      /\ UNCHANGED <<manifest, previous, committed, lock, crashes, powerLosses>>
  BY DEF WriteFragment
<1>2. /\ txn.gen \in Gen /\ txn.gen # manifest.gen
      /\ txn \in Txn /\ q \in Part /\ files \in [Gen -> [Part -> File]]
  BY <1>1 DEF IInv, TypeOK, WritingOK, Txn
<1>3. Whole(Fragment(txn.new, q)) \in File
  BY <1>2, FragmentType, FileType DEF Txn
<1>4. /\ txn'.phase = txn.phase /\ txn'.new = txn.new /\ txn'.gen = txn.gen
      /\ txn'.replaces = txn.replaces /\ txn'.todo = txn.todo \ {q}
  BY <1>2 DEF Txn
<1>5. \A g \in Gen, r \in Part :
        files'[g][r] = IF g = txn.gen /\ r = q THEN Whole(Fragment(txn.new, q))
                                               ELSE files[g][r]
  BY <1>2
<1>6. TypeOK'
  <2>1. files' \in [Gen -> [Part -> File]]
    BY <1>2, <1>3
  <2>2. txn' \in Txn
    BY <1>2 DEF Txn
  <2>3. dirty' \subseteq Gen \X Part
    BY <1>2 DEF IInv, TypeOK
  <2> QED
    BY <1>1, <2>1, <2>2, <2>3 DEF IInv, TypeOK
<1>7. LedgersOK'
  BY <1>1, <1>4 DEF IInv, LedgersOK, AuditsNameCharts
<1>8. LockOK'
  BY <1>1, <1>4 DEF IInv, LockOK
<1>9. WritingOK'
  <2>1. OrganizationIds(txn.new) \cup {Global} \subseteq Part
    BY <1>2, OrganizationIdsType DEF Part, Txn
  <2>2. ASSUME NEW r \in (OrganizationIds(txn.new) \cup {Global}) \ txn'.todo
        PROVE  files'[txn.gen][r] = Whole(Fragment(txn.new, r))
    <3>1. CASE r = q
      BY <3>1, <1>2, <1>5
    <3>2. CASE r # q
      BY <3>2, <1>1, <1>2, <1>4, <1>5, <2>1 DEF IInv, WritingOK, Holds
    <3> QED
      BY <3>1, <3>2
  <2> QED
    BY <1>1, <1>2, <1>4, <2>2 DEF IInv, WritingOK, Holds
<1>10. SelectedOK'
  <2>1. manifest.gen # None => manifest.gen \in Gen /\ PartsOf(manifest) \subseteq Part
    BY DEF IInv, TypeOK, Manifest, PartsOf, Part
  <2>2. \A r \in PartsOf(manifest) :
          manifest.gen # None => files'[manifest.gen][r] = files[manifest.gen][r]
    BY <1>2, <1>5, <2>1
  <2> QED
    BY <1>1, <2>2 DEF IInv, SelectedOK, PartsOf
<1>11. ReplacedOK'
  <2>1. \A f \in Named(previous) : f[1] \in Gen /\ f[2] \in Part
    BY DEF IInv, TypeOK, Manifest, Named, PartsOf, Part
  <2>2. \A f \in Named(previous) : files'[f[1]][f[2]] # NoFile
    BY <1>5, <2>1, FileStates DEF IInv, ReplacedOK
  <2> QED
    BY <1>1, <1>4, <2>2 DEF IInv, ReplacedOK, Named, PartsOf
<1> QED
  BY <1>6, <1>7, <1>8, <1>9, <1>10, <1>11 DEF IInv

\* The commit: the files of the new generation are all there, so the manifest
\* may name them.
LEMMA SwapManifestStep ==
  ASSUME IInv, NEW p \in Proc, SwapManifest(p)
  PROVE  IInv'
<1>1. /\ lock = p /\ txn.phase = "write" /\ txn.todo = {}
      /\ manifest' = [gen |-> txn.gen, orgs |-> OrganizationIds(txn.new)]
      /\ previous' = manifest
      /\ committed' = txn.new
      /\ txn' = [txn EXCEPT !.phase = "collect"]
      /\ UNCHANGED <<files, dirty, lock, crashes, powerLosses>>
  BY DEF SwapManifest
<1>2. /\ txn.gen \in Gen /\ txn.gen # None /\ txn.replaces = manifest
      /\ txn \in Txn /\ txn.new \in Ledger /\ AuditsNameCharts(txn.new)
  BY <1>1, NoneAssumptions DEF IInv, TypeOK, WritingOK, LedgersOK, Txn
<1>3. /\ txn'.phase = "collect" /\ txn'.new = txn.new
      /\ txn'.replaces = txn.replaces
  BY <1>1, <1>2 DEF Txn
<1>4. TypeOK'
  <2>1. manifest' \in Manifest
    BY <1>1, <1>2, OrganizationIdsType DEF Manifest
  <2>2. txn' \in Txn
    BY <1>1, <1>2 DEF Txn
  <2> QED
    BY <1>1, <1>2, <2>1, <2>2 DEF IInv, TypeOK
<1>5. LedgersOK'
  BY <1>1, <1>2, <1>3 DEF LedgersOK, AuditsNameCharts
<1>6. LockOK' /\ WritingOK'
  BY <1>1, <1>3 DEF IInv, LockOK, WritingOK
<1>7. SelectedOK'
  BY <1>1, <1>2 DEF IInv, WritingOK, Holds, SelectedOK, PartsOf
<1>8. ReplacedOK'
  <2>1. \A f \in Named(manifest) : files[f[1]][f[2]] # NoFile
    BY FileStates DEF IInv, SelectedOK, Named
  <2> QED
    BY <1>1, <1>2, <1>3, <2>1 DEF ReplacedOK, Named, PartsOf
<1> QED
  BY <1>4, <1>5, <1>6, <1>7, <1>8 DEF IInv

\* The collection spares the selected and the previous generation.
LEMMA CollectFileStep ==
  ASSUME IInv, NEW p \in Proc, CollectFile(p)
  PROVE  IInv'
<1> PICK f \in Garbage :
      /\ files' = [files EXCEPT ![f[1]][f[2]] = NoFile]
      /\ dirty' = dirty \ {f}
  BY DEF CollectFile
<1>1. /\ lock = p /\ txn.phase = "collect"
      /\ UNCHANGED <<manifest, previous, committed, lock, txn, crashes, powerLosses>>
  BY DEF CollectFile
<1>2. /\ f \in Gen \X Part /\ f \notin Named(manifest) /\ f \notin Named(previous)
  BY <1>1 DEF Garbage, Retained, IInv, ReplacedOK
<1>3. f = <<f[1], f[2]>> /\ f[1] \in Gen /\ f[2] \in Part
  BY <1>2
<1>4. files \in [Gen -> [Part -> File]]
  BY DEF IInv, TypeOK
<1>5. \A g \in Gen, r \in Part :
        files'[g][r] = IF g = f[1] /\ r = f[2] THEN NoFile ELSE files[g][r]
  BY <1>3, <1>4
<1>6. \A g \in Gen, r \in Part :
        <<g, r>> \in Named(manifest) \cup Named(previous) => files'[g][r] = files[g][r]
  BY <1>2, <1>3, <1>5
<1>7. TypeOK'
  <2>1. files' \in [Gen -> [Part -> File]]
    BY <1>3, <1>4, FileType
  <2> QED
    BY <1>1, <2>1 DEF IInv, TypeOK
<1>8. LedgersOK' /\ LockOK' /\ WritingOK'
  BY <1>1 DEF IInv, LedgersOK, AuditsNameCharts, LockOK, WritingOK
<1>9. SelectedOK'
  <2>1. ASSUME NEW r \in PartsOf(manifest), manifest.gen # None
        PROVE  files'[manifest.gen][r] = files[manifest.gen][r]
    <3>1. <<manifest.gen, r>> \in Named(manifest)
      BY <2>1 DEF Named
    <3>2. manifest.gen \in Gen /\ r \in Part
      BY <2>1 DEF IInv, TypeOK, Manifest, PartsOf, Part
    <3> QED
      BY <3>1, <3>2, <1>6
  <2> QED
    BY <1>1, <2>1 DEF IInv, SelectedOK, PartsOf
<1>10. ReplacedOK'
  <2>1. ASSUME NEW h \in Named(previous)
        PROVE  files'[h[1]][h[2]] # NoFile
    <3>1. h[1] \in Gen /\ h[2] \in Part /\ h = <<h[1], h[2]>>
      BY DEF IInv, TypeOK, Manifest, Named, PartsOf, Part
    <3>2. files'[h[1]][h[2]] = files[h[1]][h[2]]
      BY <3>1, <1>6
    <3> QED
      BY <3>2 DEF IInv, ReplacedOK
  <2> QED
    BY <1>1, <2>1 DEF IInv, ReplacedOK, Named, PartsOf
<1> QED
  BY <1>7, <1>8, <1>9, <1>10 DEF IInv

\* The transaction ends, orderly or not: the files it leaves are not named.
LEMMA EndStep ==
  ASSUME IInv, NEW p \in Proc, Finish(p) \/ Crash(p)
  PROVE  IInv'
<1>1. /\ lock' = None /\ txn' = NoTxn /\ crashes' \in 0..MaxCrashes
      /\ UNCHANGED <<files, dirty, manifest, previous, committed, powerLosses>>
  BY BoundsAssumption DEF Finish, Crash, IInv, TypeOK
<1>2. NoTxn.phase = "none" /\ NoTxn.new = EmptyLedger
  BY DEF NoTxn
<1>3. TypeOK'
  BY <1>1, NoTxnType DEF IInv, TypeOK
<1>4. LedgersOK'
  BY <1>1, <1>2 DEF IInv, LedgersOK, AuditsNameCharts, EmptyLedger
<1>5. LockOK' /\ WritingOK'
  BY <1>1, <1>2 DEF LockOK, WritingOK
<1>6. SelectedOK'
  BY <1>1 DEF IInv, SelectedOK, PartsOf
<1>7. ReplacedOK'
  BY <1>1, <1>2 DEF IInv, ReplacedOK, Named, PartsOf
<1> QED
  BY <1>3, <1>4, <1>5, <1>6, <1>7 DEF IInv

\* A power loss tears files but changes none of them into another fragment.
LEMMA PowerLossStep ==
  ASSUME IInv, PowerLoss
  PROVE  IInv'
<1> PICK lost \in SUBSET dirty :
      files' = [g \in Gen |-> [q \in Part |->
                  IF <<g, q>> \in lost THEN Torn ELSE files[g][q]]]
  BY DEF PowerLoss
<1>1. /\ lock' = None /\ txn' = NoTxn /\ dirty' = {}
      /\ powerLosses' \in 0..MaxPowerLoss
      /\ UNCHANGED <<manifest, previous, committed, crashes>>
  BY BoundsAssumption DEF PowerLoss, IInv, TypeOK
<1>2. NoTxn.phase = "none" /\ NoTxn.new = EmptyLedger
  BY DEF NoTxn
<1>3. \A g \in Gen, q \in Part :
        files'[g][q] = files[g][q] \/ files'[g][q] = Torn
  OBVIOUS
<1>4. TypeOK'
  <2>1. files' \in [Gen -> [Part -> File]]
    BY FileType DEF IInv, TypeOK
  <2> QED
    BY <1>1, <2>1, NoTxnType DEF IInv, TypeOK
<1>5. LedgersOK'
  BY <1>1, <1>2 DEF IInv, LedgersOK, AuditsNameCharts, EmptyLedger
<1>6. LockOK' /\ WritingOK'
  BY <1>1, <1>2 DEF LockOK, WritingOK
<1>7. SelectedOK'
  <2>1. manifest.gen # None => manifest.gen \in Gen /\ PartsOf(manifest) \subseteq Part
    BY DEF IInv, TypeOK, Manifest, PartsOf, Part
  <2> QED
    BY <1>1, <1>3, <2>1 DEF IInv, SelectedOK, PartsOf
<1>8. ReplacedOK'
  <2>1. \A f \in Named(previous) : f[1] \in Gen /\ f[2] \in Part
    BY DEF IInv, TypeOK, Manifest, Named, PartsOf, Part
  <2>2. \A f \in Named(previous) : files'[f[1]][f[2]] # NoFile
    BY <1>3, <2>1, FileStates DEF IInv, ReplacedOK
  <2> QED
    BY <1>1, <1>2, <2>2 DEF IInv, ReplacedOK, Named, PartsOf
<1> QED
  BY <1>4, <1>5, <1>6, <1>7, <1>8 DEF IInv

\* Only the bookkeeping of what is on the platter changes, or nothing does.
LEMMA WriteBackStep ==
  ASSUME IInv, WriteBack \/ UNCHANGED vars
  PROVE  IInv'
<1>1. /\ dirty' \subseteq dirty
      /\ UNCHANGED <<files, manifest, previous, committed, lock, txn, crashes, powerLosses>>
  BY DEF WriteBack, vars
<1>2. TypeOK'
  BY <1>1 DEF IInv, TypeOK
<1>3. LedgersOK' /\ LockOK' /\ WritingOK'
  BY <1>1 DEF IInv, LedgersOK, AuditsNameCharts, LockOK, WritingOK, Holds
<1>4. SelectedOK' /\ ReplacedOK'
  BY <1>1 DEF IInv, SelectedOK, ReplacedOK, Named, PartsOf
<1> QED
  BY <1>2, <1>3, <1>4 DEF IInv

\* Every step of the store keeps the invariant.
LEMMA StepIInv == IInv /\ [Next]_vars => IInv'
<1> SUFFICES ASSUME IInv, [Next]_vars PROVE IInv'
  OBVIOUS
<1>1. ASSUME NEW p \in Proc, Begin(p) PROVE IInv'
  BY <1>1, BeginStep
<1>2. ASSUME NEW p \in Proc, WriteFragment(p) PROVE IInv'
  BY <1>2, WriteFragmentStep
<1>3. ASSUME NEW p \in Proc, SwapManifest(p) PROVE IInv'
  BY <1>3, SwapManifestStep
<1>4. ASSUME NEW p \in Proc, CollectFile(p) PROVE IInv'
  BY <1>4, CollectFileStep
<1>5. ASSUME NEW p \in Proc, Finish(p) \/ Crash(p) PROVE IInv'
  BY <1>5, EndStep
<1>6. CASE PowerLoss
  BY <1>6, PowerLossStep
<1>7. CASE WriteBack \/ UNCHANGED vars
  BY <1>7, WriteBackStep
<1> QED
  BY <1>1, <1>2, <1>3, <1>4, <1>5, <1>6, <1>7 DEF Next

\* The invariant holds throughout.
LEMMA Invariance == Spec => []IInv
BY InitIInv, StepIInv, PTL DEF Spec
-----------------------------------------------------------------------------
(***************************************************************************)
(* Theorems.                                                               *)
(***************************************************************************)

\* Every variable keeps its type (files, manifests and transactions of
\* persist-ledger! for any number of organizations, processes and crashes).
THEOREM TypeCorrect == Spec => []TypeOK
<1>1. IInv => TypeOK
  BY DEF IInv
<1> QED
  BY <1>1, Invariance, PTL

\* Readers see one complete generation, never a mixture: whatever load-ledger
\* accepts is the ledger of the last committed transaction, whatever processes
\* crashed and even after power losses tore files.
THEOREM ReadersSeeCommitted == Spec => []ReadsCommitted
<1>1. IInv => ReadsCommitted
  BY LoadsCommitted DEF ReadsCommitted
<1> QED
  BY <1>1, Invariance, PTL

\* Between transactions the generation the manifest replaced last is complete
\* on disk (the retention rule of persist-ledger!'s collection).
THEOREM PreviousGenerationKept == Spec => []PreviousKept
<1>1. IInv => PreviousKept
  BY DEF IInv, ReplacedOK, PreviousKept
<1> QED
  BY <1>1, Invariance, PTL

\* Until power is lost no file is torn: what AlwaysLoadable adds to IInv.
Untorn == IInv /\ (powerLosses = 0 => \A g \in Gen, p \in Part : files[g][p] # Torn)

\* No step but a power loss tears a file.
LEMMA UntornStep == Untorn /\ [Next]_vars => Untorn'
<1> SUFFICES ASSUME Untorn, [Next]_vars PROVE Untorn'
  OBVIOUS
<1>1. IInv'
  BY StepIInv DEF Untorn
<1>2. files \in [Gen -> [Part -> File]] /\ txn \in Txn /\ powerLosses \in 0..MaxPowerLoss
  BY DEF Untorn, IInv, TypeOK
<1>3. PowerLoss => powerLosses' # 0
  BY <1>2, BoundsAssumption DEF PowerLoss
<1>4. ~PowerLoss => powerLosses' = powerLosses
  BY DEF Next, Begin, WriteFragment, SwapManifest, CollectFile, Finish,
         Crash, WriteBack, vars
<1>5. ASSUME powerLosses' = 0, NEW g \in Gen, NEW q \in Part
      PROVE  files'[g][q] # Torn
  <2>. ~PowerLoss /\ powerLosses = 0
    BY <1>3, <1>4, <1>5
  <2>. files[g][q] # Torn
    BY DEF Untorn
  <2>1. CASE UNCHANGED files
    BY <2>1
  <2>2. ASSUME NEW p \in Proc, WriteFragment(p)
        PROVE  files'[g][q] # Torn
    <3>1. PICK r \in txn.todo :
            files' = [files EXCEPT ![txn.gen][r] = Whole(Fragment(txn.new, r))]
      BY <2>2 DEF WriteFragment
    <3> QED
      BY <3>1, <1>2, FileStates
  <2>3. ASSUME NEW p \in Proc, CollectFile(p)
        PROVE  files'[g][q] # Torn
    <3>1. PICK f \in Garbage : files' = [files EXCEPT ![f[1]][f[2]] = NoFile]
      BY <2>3 DEF CollectFile
    <3> QED
      BY <3>1, <1>2, FileStates
  <2> QED
    BY <2>1, <2>2, <2>3 DEF Next, Begin, SwapManifest, Finish, Crash,
                            WriteBack, vars
<1> QED
  BY <1>1, <1>5 DEF Untorn

\* Until power is lost load-ledger never refuses the files: a crash of the
\* writer at any point leaves a readable ledger.
THEOREM LoadableUnlessPowerLost == Spec => []AlwaysLoadable
<1>1. Init => Untorn
  BY InitIInv, FileStates DEF Init, Untorn
<1>2. Untorn => AlwaysLoadable
  <2> SUFFICES ASSUME Untorn, powerLosses = 0, manifest.gen # None,
                      NEW p \in PartsOf(manifest)
               PROVE  files[manifest.gen][p].state = "whole"
    BY DEF AlwaysLoadable, Complete
  <2>1. manifest.gen \in Gen /\ p \in Part
    BY DEF Untorn, IInv, TypeOK, Manifest, PartsOf, Part
  <2>2. files[manifest.gen][p] = Whole(Fragment(committed, p))
    BY <2>1 DEF Untorn, IInv, SelectedOK
  <2> QED
    BY <2>2 DEF Whole
<1> QED
  BY <1>1, <1>2, UntornStep, PTL DEF Spec

\* The partitioned store implements the atomic ledger: every commit applies
\* one update to the ledger the last commit left, and no other step of any
\* process, crash or power loss changes it.
THEOREM StoreImplementsAtomicLedger == Spec => ImplementsAtomicLedger
<1>1. Init => Atomic!Init
  BY DEF Init, Atomic!Init
<1>2. IInv /\ [Next]_vars => [Atomic!Next]_committed
  <2>0. Updates(committed) = Atomic!Updates(committed)
    BY DEF Updates, PutOrganization, PutPerformer, PutWorkItem, RecordEvidence,
           Atomic!Updates, Atomic!PutOrganization, Atomic!PutPerformer,
           Atomic!PutWorkItem, Atomic!RecordEvidence
  <2> SUFFICES ASSUME IInv, [Next]_vars, committed' # committed
               PROVE  committed' \in Updates(committed)
    BY <2>0 DEF Atomic!Next
  <2>1. PICK p \in Proc : SwapManifest(p)
    BY DEF Next, Begin, WriteFragment, CollectFile, Finish, Crash, WriteBack,
           PowerLoss, vars
  <2> QED
    BY <2>1 DEF SwapManifest, IInv, WritingOK
<1> QED
  BY <1>1, <1>2, Invariance, PTL DEF Spec, ImplementsAtomicLedger, Atomic!Spec

-----------------------------------------------------------------------------
(***************************************************************************)
(* Generations on disk.  The ones nobody needs are the orphans: every      *)
(* crash leaves one more at most, since a collection under way has to      *)
(* delete one that was replaced, and one that is finished leaves none.     *)
(***************************************************************************)
OnDisk == {g \in Gen : ~FreshGen(g)}
Needed == {manifest.gen, previous.gen} \cup (IF txn.phase = "write" THEN {txn.gen} ELSE {})
Orphans == OnDisk \ Needed
Losses == crashes + powerLosses + (IF txn.phase = "collect" THEN 1 ELSE 0)

OrphansOK ==
  /\ \A f \in dirty : files[f[1]][f[2]] # NoFile
  /\ IsFiniteSet(OnDisk)
  /\ Cardinality(Orphans) <= Losses

Counted == IInv /\ OrphansOK

\* One more element is one more.
LEMMA OneMore ==
  ASSUME NEW S, IsFiniteSet(S), NEW x, NEW T \in SUBSET (S \cup {x})
  PROVE  /\ IsFiniteSet(T) /\ Cardinality(T) <= Cardinality(S) + 1
         /\ Cardinality(T) \in Nat /\ Cardinality(S) \in Nat
         /\ T \subseteq S => Cardinality(T) <= Cardinality(S)
<1>1. IsFiniteSet(S \cup {x}) /\ Cardinality(S \cup {x}) <= Cardinality(S) + 1
      /\ Cardinality(S) \in Nat /\ Cardinality(S \cup {x}) \in Nat
  BY FS_AddElement, FS_CardinalityType
<1>2. IsFiniteSet(T) /\ Cardinality(T) <= Cardinality(S \cup {x})
  BY <1>1, FS_Subset
<1>3. Cardinality(T) \in Nat
  BY <1>2, FS_CardinalityType
<1>4. T \subseteq S => Cardinality(T) <= Cardinality(S)
  BY FS_Subset
<1> QED BY <1>1, <1>2, <1>3, <1>4

LEMMA LossTypes ==
  ASSUME IInv
  PROVE  crashes \in Nat /\ powerLosses \in Nat /\ txn.phase \in {"none", "write", "collect"}
         /\ Losses \in Nat
<1>1. crashes \in Nat /\ powerLosses \in Nat
  BY BoundsAssumption DEF IInv, TypeOK
<1>2. txn.phase \in {"none", "write", "collect"}
  BY DEF IInv, TypeOK, Txn
<1> QED BY <1>1, <1>2 DEF Losses

\* A step that adds at most one orphan and, if it adds one, one loss.
LEMMA OrphansCounted ==
  ASSUME OrphansOK, IInv, IInv', NEW g, OnDisk' \subseteq OnDisk \cup {g},
         Orphans' \subseteq Orphans \cup {g},
         \A f \in dirty' : files'[f[1]][f[2]] # NoFile,
         \/ Losses' >= Losses + 1
         \/ Losses' >= Losses /\ Orphans' \subseteq Orphans
  PROVE  OrphansOK'
<1>1. IsFiniteSet(OnDisk')
  BY OneMore DEF OrphansOK
<1>2. IsFiniteSet(Orphans)
  BY FS_Subset DEF OrphansOK, Orphans
<1>3. /\ Cardinality(Orphans') <= Cardinality(Orphans) + 1
      /\ Orphans' \subseteq Orphans => Cardinality(Orphans') <= Cardinality(Orphans)
      /\ Cardinality(Orphans') \in Nat /\ Cardinality(Orphans) \in Nat
  BY <1>2, OneMore
<1>4. Losses \in Nat /\ Losses' \in Nat
  <2>1. crashes' \in Nat /\ powerLosses' \in Nat
    BY BoundsAssumption DEF IInv, TypeOK
  <2>2. Losses' = crashes' + powerLosses' + 1 \/ Losses' = crashes' + powerLosses' + 0
    BY DEF Losses
  <2>3. Losses' \in Nat
    BY <2>1, <2>2
  <2> QED BY <2>3, LossTypes
<1>5. Cardinality(Orphans) <= Losses
  BY DEF OrphansOK
<1>6. Cardinality(Orphans') <= Losses'
  <2>1. CASE Losses' >= Losses + 1
    BY <1>3, <1>4, <1>5, <2>1
  <2>2. CASE Losses' >= Losses /\ Orphans' \subseteq Orphans
    BY <1>3, <1>4, <1>5, <2>2
  <2> QED BY <2>1, <2>2
<1> QED BY <1>1, <1>6 DEF OrphansOK

LEMMA OrphansInit == Init => OrphansOK
<1> SUFFICES ASSUME Init PROVE OrphansOK
  OBVIOUS
<1>1. \A g \in Gen : FreshGen(g)
  BY DEF Init, FreshGen
<1>2. OnDisk = {} /\ Orphans = {}
  BY <1>1 DEF OnDisk, Orphans
<1>3. Losses = 0
  BY DEF Init, Losses, NoTxn
<1> QED BY <1>2, <1>3, FS_EmptySet DEF OrphansOK, Init

LEMMA OrphansStep ==
  ASSUME Counted, IInv', [Next]_vars
  PROVE  OrphansOK'
<1>1. IInv /\ OrphansOK /\ files \in [Gen -> [Part -> File]] /\ txn \in Txn
      /\ dirty \subseteq Gen \X Part
  BY DEF Counted, IInv, TypeOK
<1>2. crashes \in Nat /\ powerLosses \in Nat
  BY <1>1, LossTypes
<1>3. ASSUME NEW p \in Proc, Begin(p) PROVE OrphansOK'
  <2>1. /\ lock = None /\ txn'.phase = "write"
        /\ UNCHANGED <<files, dirty, manifest, previous, crashes, powerLosses>>
    BY <1>3 DEF Begin
  <2>2. txn.phase = "none"
    BY <1>1, <2>1 DEF IInv, LockOK
  <2>3. OnDisk' = OnDisk
    BY <2>1 DEF OnDisk, FreshGen
  <2>4. Orphans' \subseteq Orphans
    BY <2>1, <2>2, <2>3 DEF Orphans, Needed
  <2>5. Losses' = Losses
    BY <2>1, <2>2 DEF Losses
  <2>6. Losses \in Nat
    BY <1>1, LossTypes
  <2> QED BY <1>1, <2>1, <2>3, <2>4, <2>5, <2>6, OrphansCounted DEF OrphansOK
<1>4. ASSUME NEW p \in Proc, WriteFragment(p) PROVE OrphansOK'
  <2>1. PICK q \in txn.todo :
          /\ files' = [files EXCEPT ![txn.gen][q] = Whole(Fragment(txn.new, q))]
          /\ dirty' = dirty \cup {<<txn.gen, q>>}
          /\ txn' = [txn EXCEPT !.todo = @ \ {q}]
    BY <1>4 DEF WriteFragment
  <2>2. /\ txn.phase = "write"
        /\ UNCHANGED <<manifest, previous, committed, lock, crashes, powerLosses>>
    BY <1>4 DEF WriteFragment
  <2>3. txn.gen \in Gen /\ q \in Part
    BY <1>1, <2>2 DEF IInv, WritingOK, Txn
  <2>4. txn'.phase = "write" /\ txn'.gen = txn.gen
    BY <1>1, <2>1, <2>2 DEF Txn
  <2>5. \A g \in Gen, r \in Part :
          files'[g][r] = IF g = txn.gen /\ r = q THEN Whole(Fragment(txn.new, q))
                         ELSE files[g][r]
    BY <1>1, <2>1, <2>3
  <2>6. \A f \in dirty' : files'[f[1]][f[2]] # NoFile
    <3> SUFFICES ASSUME NEW f \in dirty' PROVE files'[f[1]][f[2]] # NoFile
      OBVIOUS
    <3>1. CASE f = <<txn.gen, q>>
      BY <2>3, <2>5, <3>1, FileStates
    <3>2. CASE f \in dirty
      <4>1. f[1] \in Gen /\ f[2] \in Part /\ files[f[1]][f[2]] # NoFile
        BY <1>1, <3>2 DEF OrphansOK
      <4> QED BY <2>5, <4>1, FileStates
    <3> QED BY <2>1, <3>1, <3>2
  <2>7. OnDisk' \subseteq OnDisk \cup {txn.gen}
    BY <2>5 DEF OnDisk, FreshGen
  <2>8. Orphans' \subseteq Orphans
    BY <2>2, <2>4, <2>7 DEF Orphans, Needed
  <2>9. Losses' = Losses
    BY <2>2, <2>4 DEF Losses
  <2>10. Losses \in Nat
    BY <1>1, LossTypes
  <2> QED BY <1>1, <2>6, <2>7, <2>8, <2>9, <2>10, OrphansCounted
<1>5. ASSUME NEW p \in Proc, SwapManifest(p) PROVE OrphansOK'
  <2>1. /\ txn.phase = "write" /\ txn' = [txn EXCEPT !.phase = "collect"]
        /\ manifest' = [gen |-> txn.gen, orgs |-> OrganizationIds(txn.new)]
        /\ previous' = manifest
        /\ UNCHANGED <<files, dirty, lock, crashes, powerLosses>>
    BY <1>5 DEF SwapManifest
  <2>2. txn'.phase = "collect" /\ manifest'.gen = txn.gen
    BY <1>1, <2>1 DEF Txn
  <2>3. OnDisk' = OnDisk
    BY <2>1 DEF OnDisk, FreshGen
  <2>4. Orphans' \subseteq Orphans \cup {previous.gen}
    BY <2>1, <2>2, <2>3 DEF Orphans, Needed
  <2>5. Losses' = crashes + powerLosses + 1 /\ Losses = crashes + powerLosses + 0
    BY <2>1, <2>2 DEF Losses
  <2>6. Losses' >= Losses + 1
    BY <1>2, <2>5
  <2>7. \A f \in dirty' : files'[f[1]][f[2]] # NoFile
    BY <1>1, <2>1 DEF OrphansOK
  <2> QED BY <1>1, <2>3, <2>4, <2>6, <2>7, OrphansCounted
<1>6. ASSUME NEW p \in Proc, CollectFile(p) PROVE OrphansOK'
  <2>1. PICK f \in Garbage : /\ files' = [files EXCEPT ![f[1]][f[2]] = NoFile]
                             /\ dirty' = dirty \ {f}
    BY <1>6 DEF CollectFile
  <2>2. UNCHANGED <<manifest, previous, lock, txn, crashes, powerLosses>>
    BY <1>6 DEF CollectFile
  <2>3. f \in Gen \X Part
    BY DEF Garbage
  <2>4. f = <<f[1], f[2]>> /\ f[1] \in Gen /\ f[2] \in Part
    BY <2>3
  <2>5. \A g \in Gen, r \in Part :
          files'[g][r] = IF g = f[1] /\ r = f[2] THEN NoFile ELSE files[g][r]
    BY <1>1, <2>1, <2>4
  <2>6. OnDisk' \subseteq OnDisk
    BY <2>5 DEF OnDisk, FreshGen
  <2>7. Orphans' \subseteq Orphans /\ Losses' = Losses
    BY <2>2, <2>6 DEF Orphans, Needed, Losses
  <2>8. \A h \in dirty' : files'[h[1]][h[2]] # NoFile
    <3> SUFFICES ASSUME NEW h \in dirty, h # f PROVE files'[h[1]][h[2]] # NoFile
      BY <2>1
    <3>1. h = <<h[1], h[2]>> /\ h[1] \in Gen /\ h[2] \in Part /\ files[h[1]][h[2]] # NoFile
      BY <1>1 DEF OrphansOK
    <3>2. ~(h[1] = f[1] /\ h[2] = f[2])
      BY <2>4, <3>1
    <3> QED BY <2>5, <3>1, <3>2
  <2>9. Losses \in Nat
    BY <1>1, LossTypes
  <2> QED BY <1>1, <2>6, <2>7, <2>8, <2>9, OrphansCounted
<1>7. ASSUME NEW p \in Proc, Finish(p) PROVE OrphansOK'
  <2>1. /\ txn.phase = "collect" /\ Garbage = {} /\ txn' = NoTxn
        /\ UNCHANGED <<files, dirty, manifest, previous, crashes, powerLosses>>
    BY <1>7 DEF Finish
  <2>2. txn.replaces = previous
    BY <1>1, <2>1 DEF IInv, ReplacedOK
  <2>3. OnDisk' = OnDisk
    BY <2>1 DEF OnDisk, FreshGen
  <2>4. OnDisk \subseteq {manifest.gen, previous.gen}
    <3> SUFFICES ASSUME NEW g \in Gen, ~FreshGen(g)
                 PROVE  g \in {manifest.gen, previous.gen}
      BY DEF OnDisk
    <3>1. PICK q \in Part : files[g][q] # NoFile
      BY DEF FreshGen
    <3>2. <<g, q>> \in Named(manifest) \cup Named(previous)
      BY <2>1, <2>2, <3>1 DEF Garbage, Retained
    <3> QED BY <3>2 DEF Named
  <2>5. txn'.phase = "none"
    BY <2>1 DEF NoTxn
  <2>6. Orphans' = {}
    BY <2>1, <2>3, <2>4 DEF Orphans, Needed
  <2>7. Cardinality(Orphans') = 0
    BY <2>6, FS_EmptySet
  <2>8. Losses' = crashes + powerLosses + 0
    BY <2>1, <2>5 DEF Losses
  <2>9. Cardinality(Orphans') <= Losses'
    BY <1>2, <2>7, <2>8
  <2> QED BY <1>1, <2>1, <2>3, <2>9 DEF OrphansOK
<1>8. ASSUME NEW g, g = txn.gen, OnDisk' \subseteq OnDisk, txn' = NoTxn,
             UNCHANGED <<manifest, previous>>,
             \A f \in dirty' : files'[f[1]][f[2]] # NoFile,
             crashes' + powerLosses' >= crashes + powerLosses + 1,
             crashes' \in Nat, powerLosses' \in Nat
      PROVE  OrphansOK'
  <2>1. txn'.phase = "none"
    BY <1>8 DEF NoTxn
  <2>2. Losses' = crashes' + powerLosses' + 0
    BY <2>1 DEF Losses
  <2>3. /\ crashes' + powerLosses' >= crashes + powerLosses + 1
        /\ crashes' \in Nat /\ powerLosses' \in Nat
    BY <1>8
  <2>4. CASE txn.phase = "collect"
    <3>1. Losses = crashes + powerLosses + 1
      BY <2>4 DEF Losses
    <3>2. Losses' >= Losses
      <4>1. \A a, b, c, d \in Nat : a + b >= c + d + 1 => a + b + 0 >= c + d + 1
        OBVIOUS
      <4> QED BY <1>2, <2>2, <2>3, <3>1, <4>1
    <3>3. Orphans' \subseteq Orphans
      BY <1>8, <2>1, <2>4 DEF Orphans, Needed
    <3> QED BY <1>1, <1>8, <3>2, <3>3, OrphansCounted
  <2>5. CASE txn.phase # "collect"
    <3>1. Losses = crashes + powerLosses + 0
      BY <2>5 DEF Losses
    <3>2. Losses' >= Losses + 1
      <4>1. \A a, b, c, d \in Nat : a + b >= c + d + 1 => a + b + 0 >= c + d + 0 + 1
        OBVIOUS
      <4> QED BY <1>2, <2>2, <2>3, <3>1, <4>1
    <3>3. Orphans' \subseteq Orphans \cup {g}
      BY <1>8, <2>1, <2>5 DEF Orphans, Needed
    <3>4. OnDisk' \subseteq OnDisk \cup {g}
      BY <1>8
    <3> QED BY <1>1, <1>8, <3>2, <3>3, <3>4, OrphansCounted
  <2> QED BY <2>4, <2>5
<1>9. ASSUME NEW p \in Proc, Crash(p) PROVE OrphansOK'
  <2>1. /\ txn' = NoTxn /\ crashes' = crashes + 1
        /\ UNCHANGED <<files, dirty, manifest, previous, powerLosses>>
    BY <1>9 DEF Crash
  <2>2. OnDisk' = OnDisk
    BY <2>1 DEF OnDisk, FreshGen
  <2>3. crashes' + powerLosses' >= crashes + powerLosses + 1
        /\ crashes' \in Nat /\ powerLosses' \in Nat
    BY <1>2, <2>1
  <2>4. \A f \in dirty' : files'[f[1]][f[2]] # NoFile
    BY <1>1, <2>1 DEF OrphansOK
  <2> QED BY <1>8, <2>1, <2>2, <2>3, <2>4
<1>10. CASE PowerLoss
  <2>1. PICK lost \in SUBSET dirty :
          files' = [g \in Gen |-> [q \in Part |->
                      IF <<g, q>> \in lost THEN Torn ELSE files[g][q]]]
    BY <1>10 DEF PowerLoss
  <2>2. /\ txn' = NoTxn /\ powerLosses' = powerLosses + 1 /\ dirty' = {}
        /\ UNCHANGED <<manifest, previous, crashes>>
    BY <1>10 DEF PowerLoss
  <2>3. ASSUME NEW g \in Gen, NEW q \in Part, files[g][q] = NoFile
        PROVE  files'[g][q] = NoFile
    <3>1. <<g, q>> \notin lost
      BY <1>1, <2>3 DEF OrphansOK
    <3> QED BY <2>1, <2>3, <3>1
  <2>4. OnDisk' \subseteq OnDisk
    BY <2>3 DEF OnDisk, FreshGen
  <2>5. crashes' + powerLosses' >= crashes + powerLosses + 1
        /\ crashes' \in Nat /\ powerLosses' \in Nat
    BY <1>2, <2>2
  <2> QED BY <1>8, <2>2, <2>4, <2>5
<1>11. CASE WriteBack \/ UNCHANGED vars
  <2>1. /\ dirty' \subseteq dirty
        /\ UNCHANGED <<files, manifest, previous, txn, crashes, powerLosses>>
    BY <1>11 DEF WriteBack, vars
  <2>2. OnDisk' = OnDisk /\ Orphans' = Orphans /\ Losses' = Losses
    BY <2>1 DEF OnDisk, FreshGen, Orphans, Needed, Losses
  <2> QED BY <1>1, <2>1, <2>2 DEF OrphansOK
<1> QED BY <1>3, <1>4, <1>5, <1>6, <1>7, <1>9, <1>10, <1>11 DEF Next

\* Generations do not pile up: between transactions there are the selected one,
\* the previous one, and one more for each crash or power loss at most
\* (persist-ledger!'s collection against processes that die before it ends).
THEOREM OrphansDoNotPileUp == Spec => []OrphansBounded
<1>1. Init => Counted
  BY InitIInv, OrphansInit DEF Counted
<1>2. Counted /\ [Next]_vars => Counted'
  <2> SUFFICES ASSUME Counted, [Next]_vars PROVE Counted'
    OBVIOUS
  <2>1. IInv'
    BY StepIInv DEF Counted
  <2> QED BY <2>1, OrphansStep DEF Counted
<1>3. ASSUME Counted, lock = None
      PROVE  Cardinality(OnDisk) <= 2 + crashes + powerLosses
  <2>1. txn.phase = "none"
    BY <1>3 DEF Counted, IInv, LockOK
  <2>2. /\ IsFiniteSet(OnDisk) /\ Cardinality(Orphans) <= crashes + powerLosses + 0
    BY <1>3, <2>1 DEF Counted, OrphansOK, Losses
  <2>3. crashes \in Nat /\ powerLosses \in Nat
    BY <1>3, LossTypes DEF Counted
  <2>4. IsFiniteSet(Orphans)
    BY <2>2, FS_Subset DEF Orphans
  <2> DEFINE One == Orphans \cup {manifest.gen}
             Two == One \cup {previous.gen}
  <2>5. IsFiniteSet(One) /\ Cardinality(One) <= Cardinality(Orphans) + 1
        /\ Cardinality(One) \in Nat /\ Cardinality(Orphans) \in Nat
    BY <2>4, OneMore
  <2>6. OnDisk \in SUBSET Two
    BY <2>1 DEF Orphans, Needed
  <2> HIDE DEF One
  <2>7. Cardinality(OnDisk) <= Cardinality(One) + 1 /\ Cardinality(OnDisk) \in Nat
    BY <2>5, <2>6, OneMore
  <2> QED BY <2>2, <2>3, <2>5, <2>7
<1>4. Counted => OrphansBounded
  BY <1>3 DEF OrphansBounded, OnDisk
<1> QED BY <1>1, <1>2, <1>4, PTL DEF Spec
=============================================================================
