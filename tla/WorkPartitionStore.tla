------------------------- MODULE WorkPartitionStore -------------------------
(***************************************************************************)
(* work_partition_store.cljk under the store lock of store.cljk: the work  *)
(* ledger on disk as generations of files.                                 *)
(*                                                                         *)
(* A generation is one global file plus one file per organization; the     *)
(* manifest names the generation readers use.  persist-ledger! writes the  *)
(* files of a new generation one at a time, replaces the manifest (the     *)
(* commit point), and then deletes every generation file that neither the  *)
(* new manifest nor the one it replaced names.  Several processes share    *)
(* the directory; each transaction runs load, update, persist under one    *)
(* cross-process lock, which the operating system frees when the holder    *)
(* dies.  A process can die (or the write can throw) between any two file  *)
(* operations.  The files are written without fsync, so a power loss may   *)
(* tear those the operating system has not written back yet.               *)
(***************************************************************************)
EXTENDS WorkLedger, Naturals, FiniteSets

CONSTANTS
  Proc,         \* processes sharing the data directory
  Gen,          \* generation ids (random UUIDs; a name without files is free)
  Global,       \* the part of a generation that belongs to no organization
  Legacy,       \* the ledger read from state.edn when no manifest exists
  MaxCrashes,   \* bound: deaths of a lock holder
  MaxPowerLoss  \* bound: power losses

ASSUME GlobalAssumption == Global \notin Org \cup {None}
ASSUME LegacyAssumption == Legacy \in Ledger
ASSUME NoneAssumptions == None \notin Gen \cup Proc
ASSUME BoundsAssumption == MaxCrashes \in Nat /\ MaxPowerLoss \in Nat

VARIABLES
  files,      \* files[g][p]: content of part p of generation g
  dirty,      \* files whose bytes are not known to be on the platter
  manifest,   \* the manifest on disk: [gen, orgs], gen = None when there is none
  previous,   \* (history) the manifest the current one replaced
  committed,  \* (history) the ledger of the last transaction that committed
  lock,       \* holder of the store lock, None when free
  txn,        \* the transaction of the lock holder
  crashes, powerLosses

vars == <<files, dirty, manifest, previous, committed, lock, txn, crashes, powerLosses>>

Part == Org \cup {Global}

NoManifest == [gen |-> None, orgs |-> {}]
Manifest == [gen : Gen \cup {None}, orgs : SUBSET Org]

\* An audit event that names an organization was recorded with its chart
\* (put-organization! appends both), and a chart is never deleted.
AuditsNameCharts(l) == \A e \in l.evidence : e.org # None => e.org \in l.orgs

ASSUME LegacyAuditsNameCharts == AuditsNameCharts(Legacy)

(***************************************************************************)
(* Splitting a ledger into fragments, and merging fragments.               *)
(***************************************************************************)

\* organization-ids: every organization any chart, seat or item names.
OrganizationIds(l) ==
  l.orgs \cup l.seats \cup ({l.owner[i] : i \in Item} \ {None})

\* record-organization: the organization an evidence record belongs to.
RecordOrganization(l, e) ==
  IF e.org # None THEN e.org
  ELSE IF e.item # None THEN l.owner[e.item] ELSE None

TenantFragment(l, o) ==
  [orgs     |-> l.orgs \cap {o},
   seats    |-> l.seats \cap {o},
   owner    |-> [i \in Item |-> IF l.owner[i] = o THEN o ELSE None],
   bases    |-> {i \in l.bases : l.owner[i] = o},
   evidence |-> {e \in l.evidence : RecordOrganization(l, e) = o}]

\* Mutation: keeps only records that name neither an item nor an organization.
GlobalFragment_DropsUnknownItems(l) ==
  LET ids == OrganizationIds(l) IN
  [orgs     |-> {},
   seats    |-> l.seats \ ids,
   owner    |-> [i \in Item |-> IF l.owner[i] \in ids THEN None ELSE l.owner[i]],
   bases    |-> {i \in l.bases : l.owner[i] \notin ids},
   evidence |-> {e \in l.evidence : e.org = None /\ e.item = None}]

GlobalFragment(l) ==
  LET ids == OrganizationIds(l) IN
  [orgs     |-> {},
   seats    |-> l.seats \ ids,
   owner    |-> [i \in Item |-> IF l.owner[i] \in ids THEN None ELSE l.owner[i]],
   bases    |-> {i \in l.bases : l.owner[i] \notin ids},
   evidence |-> {e \in l.evidence : RecordOrganization(l, e) = None}]

Fragment(l, p) == IF p = Global THEN GlobalFragment(l) ELSE TenantFragment(l, p)

\* merge-fragment, over all parts of a generation: maps are merged (no item is
\* in two fragments) and vectors concatenated.
MergeFragments(frag, parts) ==
  [orgs     |-> UNION {frag[p].orgs : p \in parts},
   seats    |-> UNION {frag[p].seats : p \in parts},
   owner    |-> [i \in Item |->
                   IF \E p \in parts : frag[p].owner[i] # None
                   THEN frag[CHOOSE p \in parts : frag[p].owner[i] # None].owner[i]
                   ELSE None],
   bases    |-> UNION {frag[p].bases : p \in parts},
   evidence |-> UNION {frag[p].evidence : p \in parts}]

(***************************************************************************)
(* Files.  A file is absent, torn, or holds a whole fragment.              *)
(***************************************************************************)
NoFile == [state |-> "absent", data |-> EmptyLedger]
Torn   == [state |-> "torn", data |-> EmptyLedger]
File   == [state : {"absent", "torn", "whole"}, data : Ledger]
Whole(l) == [state |-> "whole", data |-> l]

PartsOf(m) == m.orgs \cup {Global}

\* What load-ledger accepts: every file the manifest names is readable and is
\* of the manifest's generation.
Complete(m) == m.gen # None => \A p \in PartsOf(m) : files[m.gen][p].state = "whole"

LoadGeneration(m) ==
  IF m.gen = None
  THEN Legacy
  ELSE MergeFragments([p \in Part |-> files[m.gen][p].data], PartsOf(m))

LoadLedger == LoadGeneration(manifest)

FreshGen(g) == \A p \in Part : files[g][p] = NoFile

-----------------------------------------------------------------------------
NoTxn == [phase |-> "none", new |-> EmptyLedger, gen |-> None,
          replaces |-> NoManifest, todo |-> {}]
Txn   == [phase : {"none", "write", "collect"}, new : Ledger, gen : Gen \cup {None},
          replaces : Manifest, todo : SUBSET Part]

Init ==
  /\ files = [g \in Gen |-> [p \in Part |-> NoFile]]
  /\ dirty = {}
  /\ manifest = NoManifest
  /\ previous = NoManifest
  /\ committed = Legacy
  /\ lock = None
  /\ txn = NoTxn
  /\ crashes = 0
  /\ powerLosses = 0

\* Mutation: the update is computed from what the process loaded one
\* transaction ago, before it took the lock.
Begin_StaleLoad(p) ==
  /\ lock = None
  /\ Complete(manifest)
  /\ \E l \in Updates(LoadGeneration(previous)), g \in Gen :
       /\ FreshGen(g)
       /\ txn' = [phase |-> "write", new |-> l, gen |-> g, replaces |-> manifest,
                  todo |-> OrganizationIds(l) \cup {Global}]
  /\ lock' = p
  /\ UNCHANGED <<files, dirty, manifest, previous, committed, crashes, powerLosses>>

\* with-store-lock: read the durable ledger, apply the update, and enter
\* persist-ledger! with a fresh generation id and the manifest it will replace.
Begin(p) ==
  /\ lock = None
  /\ Complete(manifest)               \* otherwise load-ledger throws
  /\ \E l \in Updates(LoadLedger), g \in Gen :
       /\ FreshGen(g)
       /\ txn' = [phase |-> "write", new |-> l, gen |-> g, replaces |-> manifest,
                  todo |-> OrganizationIds(l) \cup {Global}]
  /\ lock' = p
  /\ UNCHANGED <<files, dirty, manifest, previous, committed, crashes, powerLosses>>

\* atomic-write! of one file of the new generation: the global file first.
WriteFragment(p) ==
  /\ lock = p
  /\ txn.phase = "write"
  /\ \E q \in txn.todo :
       /\ Global \in txn.todo => q = Global
       /\ files' = [files EXCEPT ![txn.gen][q] = Whole(Fragment(txn.new, q))]
       /\ dirty' = dirty \cup {<<txn.gen, q>>}
       /\ txn' = [txn EXCEPT !.todo = @ \ {q}]
  /\ UNCHANGED <<manifest, previous, committed, lock, crashes, powerLosses>>

\* Mutation: the manifest is replaced before every tenant file is written.
SwapManifest_Early(p) ==
  /\ lock = p
  /\ txn.phase = "write"
  /\ Global \notin txn.todo
  /\ manifest' = [gen |-> txn.gen, orgs |-> OrganizationIds(txn.new)]
  /\ previous' = manifest
  /\ committed' = txn.new
  /\ txn' = [txn EXCEPT !.phase = "collect"]
  /\ UNCHANGED <<files, dirty, lock, crashes, powerLosses>>

\* Mutation: the manifest lists the global part among the tenants.
SwapManifest_GlobalTenant(p) ==
  /\ lock = p
  /\ txn.phase = "write"
  /\ txn.todo = {}
  /\ manifest' = [gen |-> txn.gen, orgs |-> OrganizationIds(txn.new) \cup {Global}]
  /\ previous' = manifest
  /\ committed' = txn.new
  /\ txn' = [txn EXCEPT !.phase = "collect"]
  /\ UNCHANGED <<files, dirty, lock, crashes, powerLosses>>

\* atomic-write! of the manifest: the commit point.
SwapManifest(p) ==
  /\ lock = p
  /\ txn.phase = "write"
  /\ txn.todo = {}
  /\ manifest' = [gen |-> txn.gen, orgs |-> OrganizationIds(txn.new)]
  /\ previous' = manifest
  /\ committed' = txn.new
  /\ txn' = [txn EXCEPT !.phase = "collect"]
  /\ UNCHANGED <<files, dirty, lock, crashes, powerLosses>>

Named(m) == IF m.gen = None THEN {} ELSE {m.gen} \X PartsOf(m)
\* Mutation: only the selected generation survives a collection.
Retained_CurrentOnly == Named(manifest)

Retained == Named(manifest) \cup Named(txn.replaces)

\* Mutation: the file-name pattern of the collection misses the global files.
Garbage_TenantsOnly ==
  {f \in Gen \X Org : files[f[1]][f[2]] # NoFile /\ f \notin Retained}

Garbage == {f \in Gen \X Part : files[f[1]][f[2]] # NoFile /\ f \notin Retained}

\* One Files/deleteIfExists of the collection loop.
CollectFile(p) ==
  /\ lock = p
  /\ txn.phase = "collect"
  /\ \E f \in Garbage :
       /\ files' = [files EXCEPT ![f[1]][f[2]] = NoFile]
       /\ dirty' = dirty \ {f}
  /\ UNCHANGED <<manifest, previous, committed, lock, txn, crashes, powerLosses>>

\* Nothing left to collect: the transaction returns and the lock is released.
Finish(p) ==
  /\ lock = p
  /\ txn.phase = "collect"
  /\ Garbage = {}
  /\ lock' = None
  /\ txn' = NoTxn
  /\ UNCHANGED <<files, dirty, manifest, previous, committed, crashes, powerLosses>>

\* The holder dies, or a file operation throws out of the transaction.
Crash(p) ==
  /\ crashes < MaxCrashes
  /\ lock = p
  /\ lock' = None
  /\ txn' = NoTxn
  /\ crashes' = crashes + 1
  /\ UNCHANGED <<files, dirty, manifest, previous, committed, powerLosses>>

\* The operating system writes a file back on its own.
WriteBack ==
  /\ powerLosses < MaxPowerLoss       \* afterwards nothing depends on it
  /\ \E f \in dirty : dirty' = dirty \ {f}
  /\ UNCHANGED <<files, manifest, previous, committed, lock, txn, crashes, powerLosses>>

\* Power is lost: any files not written back are torn, and every process dies.
PowerLoss ==
  /\ powerLosses < MaxPowerLoss
  /\ \E lost \in SUBSET dirty :
       files' = [g \in Gen |-> [q \in Part |->
                   IF <<g, q>> \in lost THEN Torn ELSE files[g][q]]]
  /\ dirty' = {}
  /\ lock' = None
  /\ txn' = NoTxn
  /\ powerLosses' = powerLosses + 1
  /\ UNCHANGED <<manifest, previous, committed, crashes>>

Next ==
  \/ \E p \in Proc : \/ Begin(p)
                     \/ WriteFragment(p)
                     \/ SwapManifest(p)
                     \/ CollectFile(p)
                     \/ Finish(p)
                     \/ Crash(p)
  \/ WriteBack
  \/ PowerLoss

Spec == Init /\ [][Next]_vars
-----------------------------------------------------------------------------
(***************************************************************************)
(* Properties.                                                             *)
(***************************************************************************)
\* The variables have their types; in particular the manifest names organizations
\* only, and what was committed is a ledger (persist-ledger!).
TypeOK ==
  /\ files \in [Gen -> [Part -> File]]
  /\ dirty \subseteq Gen \X Part
  /\ manifest \in Manifest
  /\ previous \in Manifest
  /\ committed \in Ledger
  /\ lock \in Proc \cup {None}
  /\ txn \in Txn
  /\ crashes \in 0..MaxCrashes
  /\ powerLosses \in 0..MaxPowerLoss

\* Readers see one complete generation, never a mixture of tenant files: if
\* load-ledger accepts what is on disk, it returns exactly the ledger the last
\* committed transaction left, whatever crashes, half-written generations and
\* collections came in between (load-ledger against persist-ledger!).
ReadsCommitted == Complete(manifest) => LoadLedger = committed

\* Until power is lost the manifest never names a file that is missing or
\* unreadable, so no crash of a process leaves a ledger load-ledger refuses.
AlwaysLoadable == powerLosses = 0 => Complete(manifest)

\* "Keep the selected generation and one previous complete generation": once a
\* transaction is over, every file of the generation it replaced is still there.
PreviousKept == lock = None => \A f \in Named(previous) : files[f[1]][f[2]] # NoFile

\* Crashed transactions do not pile generations up on disk: between two
\* transactions there are at most the selected and the previous generation,
\* and one unfinished or uncollected generation per crash or power loss.
OrphansBounded ==
  lock = None => Cardinality({g \in Gen : ~FreshGen(g)}) <= 2 + crashes + powerLosses

\* Every transaction is applied to the ledger the last committed one left, as
\* a whole or not at all: the partitioned store implements the atomic ledger.
Atomic == INSTANCE AtomicLedger WITH ledger <- committed
ImplementsAtomicLedger == Atomic!Spec
=============================================================================
