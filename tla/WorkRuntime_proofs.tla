------------------------- MODULE WorkRuntime_proofs -------------------------
(***************************************************************************)
(* The work runtime, for any number of items, threads whose ticks overlap, *)
(* leases, crashes and edits.                                              *)
(*                                                                         *)
(* First part: types and ownership.                                        *)
(* TypeOK is not inductive: that a receipt is about a run that has a name  *)
(* depends on where the thread that records it came from.  Sound says what *)
(* a thread at each position has in hand, and ItemsPlanned that a planned  *)
(* dispatch knows its run; TypeInv is TypeOK with both.                    *)
(* LeasesUnique is not inductive either: two threads could hold copies of  *)
(* one token.  OwnInv explains every token and every run that an item or a *)
(* thread names by one assignment of leases to items, granted before the   *)
(* fence; a step keeps the assignment or extends it by the lease it grants.*)
(*                                                                         *)
(* Second part: what may be done to the item and the lease of a run.       *)
(* LeasedContentFixed is a conjunct of an inductive invariant that adds    *)
(* the shape of items and threads and that no tick is ahead of the clock.  *)
(* What a step may do to one item's lease is the action LeaseStep; all the *)
(* case analysis is in showing that every action is one.                   *)
(***************************************************************************)
EXTENDS WorkRuntime, TLAPS

\* The type of a thread record.
ThreadType ==
  [pc : Position, now : 0..MaxClock, todo : SUBSET Views, cur : Views, seen : RunStatus,
   from : {"none", "recover", "sync", "plan"}]

\* What thread t holds after its step; the other threads are as they were.
Moved(t, pc, todo, cur, seen, from) ==
  /\ thr' \in [Thread -> ThreadType]
  /\ thr'[t] = [pc |-> pc, now |-> thr[t].now, todo |-> todo, cur |-> cur, seen |-> seen,
                from |-> from]
  /\ \A u \in Thread : u # t => thr'[u] = thr[u]

\* A view of an item is made of what the ledger holds of it.
LEMMA NoViewType == ASSUME RuntimeAssumption PROVE NoView \in Views
<1> DEFINE x == CHOOSE i \in Item : TRUE
<1>1. x \in Item
  BY DEF RuntimeAssumption
<1>2. 0 \in 0..MaxTokens /\ 0 \in 0..(2 * MaxTokens) /\ 0 \in Content /\ 0 \in 0..MaxEdits
  BY DEF RuntimeAssumption, Content
<1>3. NoView = [item |-> x, token |-> 0, run |-> 0, id |-> 0, obs |-> "none", content |-> 0,
                basis |-> 0]
  BY DEF NoView
<1> QED BY <1>1, <1>2, <1>3 DEF Views, RunStatus

\* So is a thread that does nothing.
LEMMA IdleType == ASSUME RuntimeAssumption PROVE Idle \in ThreadType
<1>1. 0 \in 0..MaxClock
  BY DEF RuntimeAssumption
<1>2. {} \in SUBSET Views /\ "none" \in RunStatus /\ "idle" \in Position
  BY DEF RunStatus, Position
<1>3. NoView \in Views
  BY NoViewType
<1> QED BY <1>1, <1>2, <1>3 DEF Idle, ThreadType

\* What each way to move a thread makes of it.
LEMMA GotoMoves ==
  ASSUME thr \in [Thread -> ThreadType], NEW t \in Thread, NEW pc \in Position, Goto(t, pc)
  PROVE  Moved(t, pc, thr[t].todo, Cur(t), thr[t].seen, thr[t].from)
BY DEF Goto, Moved, ThreadType, Cur

\* It goes on with another view in hand ...
LEMMA ContinueMoves ==
  ASSUME thr \in [Thread -> ThreadType], NEW t \in Thread, NEW pc \in Position, NEW w \in Views,
         NEW s \in RunStatus, Continue(t, w, pc, s)
  PROVE  Moved(t, pc, thr[t].todo, w, s, thr[t].from)
BY ZenonT(30) DEF Continue, Moved, ThreadType

\* ... or starts a pass ...
LEMMA ReadMoves ==
  ASSUME thr \in [Thread -> ThreadType], NEW t \in Thread, NEW pc \in Position,
         NEW views \in SUBSET Views, Read(t, pc, views)
  PROVE  Moved(t, pc, views, Cur(t), thr[t].seen, thr[t].from)
BY DEF Read, Moved, ThreadType, Cur

\* ... or goes back to its pass with nothing in hand ...
LEMMA LoopMoves ==
  ASSUME RuntimeAssumption, thr \in [Thread -> ThreadType], NEW t \in Thread, NEW pc \in Position,
         Loop(t, pc)
  PROVE  Moved(t, pc, thr[t].todo, NoView, "none", "none")
BY NoViewType DEF Loop, Moved, ThreadType, Idle, RunStatus

\* ... or leaves out the next of its list ...
LEMMA SkipMoves ==
  ASSUME thr \in [Thread -> ThreadType], NEW t \in Thread, NEW v, Skip(t, v)
  PROVE  Moved(t, thr[t].pc, thr[t].todo \ {v}, Cur(t), thr[t].seen, thr[t].from)
BY DEF Skip, Moved, ThreadType, Cur

\* ... or takes it in hand.
LEMMA TakeMoves ==
  ASSUME thr \in [Thread -> ThreadType], NEW t \in Thread, NEW pc \in Position, NEW v,
         NEW w \in Views, NEW s \in RunStatus, thr[t].pc \in {"recover", "sync", "plan"},
         Take(t, v, w, pc, s)
  PROVE  Moved(t, pc, thr[t].todo \ {v}, w, s, thr[t].pc)
<1> DEFINE r == [pc |-> pc, now |-> thr[t].now, todo |-> thr[t].todo \ {v}, cur |-> w,
                 seen |-> s, from |-> thr[t].pc]
<1>1. thr[t] \in ThreadType
  OBVIOUS
<1>2. /\ thr' = [u \in Thread |-> thr'[u]]
      /\ \A u \in Thread : u # t => thr'[u] = thr[u]
      /\ thr'[t] = [thr[t] EXCEPT !.pc = pc, !.todo = @ \ {v}, !.cur = w, !.seen = s,
                                  !.from = thr[t].pc]
  BY DEF Take
<1>3. r \in ThreadType
  BY <1>1 DEF ThreadType
<1>5. thr'[t] = r
  BY <1>1, <1>2 DEF ThreadType
<1> HIDE DEF r
<1>4. thr' \in [Thread -> ThreadType] /\ thr'[t] = r /\ \A u \in Thread : u # t => thr'[u] = thr[u]
  BY <1>2, <1>3, <1>5
<1> QED BY <1>4 DEF Moved, r

-----------------------------------------------------------------------------
(***************************************************************************)
(* Types.                                                                  *)
(***************************************************************************)
Passes == {"recover", "sync", "plan"}

\* The pass over a list of views in which a thread is that is at pc.
PassOf(pc, from) == IF pc \in Passes THEN pc ELSE from

\* Where a thread came from, and that what it has in hand names a run.
Sound(pc, todo, cur, from) ==
  /\ pc \in {"idle", "sources", "renew", "released"} \cup Passes => from = "none"
  /\ pc \in {"recovered", "recoverMark"} => from = "recover"
  /\ pc \in {"observed", "syncMark"} => from = "sync"
  /\ pc \in {"prepare", "dispatchMark"} => from = "plan"
  /\ pc \in Dispatching => from \in {"recover", "plan"}
  /\ PassOf(pc, from) = "recover" => \A v \in todo : v.run \in Token
  /\ PassOf(pc, from) = "sync" => \A v \in todo : v.run \in RunId
  /\ pc \in {"create", "execute", "submitted", "admit", "catch", "fail", "recovered",
             "dispatched"} => cur.run \in Token
  /\ pc \in {"failed", "observed"} => cur.run \in RunId
  /\ pc = "prepare" => cur.token \in Token
  /\ pc = "dispatch" => /\ cur.run \in 0..MaxTokens
                        /\ cur.run = 0 => cur.token \in Token
SoundThread(t) == Sound(thr[t].pc, thr[t].todo, thr[t].cur, thr[t].from)

\* A dispatch that is planned knows its run.
ItemsPlanned == \A i \in Item : items[i].record.status = "planned" => items[i].record.run # 0

LedgerOK ==
  /\ items \in [Item -> ItemType] /\ ItemsPlanned
  /\ bases \in [Item -> 0..MaxEdits]
  /\ fencing \in 0..MaxTokens
  /\ receipts \subseteq [item : Item, run : RunId, status : RunStatus, token : Token]
  /\ verified \subseteq [item : Item, run : RunId, content : Content]
AgentsOK ==
  /\ runs \in [RunId -> RunStatus]
  /\ executions \in [Token -> Nat]
  /\ reports \in [Token -> {"none", "admitted"} \cup Terminal]
WorldOK ==
  /\ source \in [Item -> 0..MaxEdits]
  /\ clock \in 0..MaxClock
  /\ edits \in 0..MaxEdits /\ puts \in 0..MaxPuts /\ crashes \in 0..MaxCrashes
ThreadsOK == thr \in [Thread -> ThreadType] /\ \A t \in Thread : SoundThread(t)

TypeInv == LedgerOK /\ AgentsOK /\ WorldOK /\ ThreadsOK

\* What a thread has after its step is sound: so are all of them.
LEMMA SoundStep ==
  ASSUME ThreadsOK, NEW t \in Thread, NEW pc, NEW todo, NEW cur, NEW seen,
         NEW from, Moved(t, pc, todo, cur, seen, from), Sound(pc, todo, cur, from)
  PROVE  ThreadsOK'
<1>1. ASSUME NEW u \in Thread
      PROVE  Sound(thr'[u].pc, thr'[u].todo, thr'[u].cur, thr'[u].from)
  <2>1. CASE u = t
    BY <2>1 DEF Moved
  <2>2. CASE u # t
    BY <2>2 DEF Moved, ThreadsOK, SoundThread
  <2> QED BY <2>1, <2>2
<1>2. (thr \in [Thread -> ThreadType])'
  BY DEF Moved, ThreadType
<1> QED BY <1>1, <1>2 DEF ThreadsOK, SoundThread, Sound, PassOf

\* What the transition table lets happen is a status.
LEMMA MoveType ==
  ASSUME NEW from, NEW to, Move(from, to) # "illegal"
  PROVE  /\ from \in Status /\ to \in WorkTransitions[from]
         /\ Move(from, to) = to /\ to \in Status
<1>1. from \in Status /\ Move(from, to) = to /\ to \in WorkTransitions[from]
  BY DEF Move
<1>2. WorkTransitions[from] \subseteq Status
  BY <1>1 DEF WorkTransitions, Status
<1> QED BY <1>1, <1>2

\* So is what advance-for-run makes of one.
LEMMA AdvancedType ==
  ASSUME NEW st \in Status, NEW rs, Advanced(st, rs) # "illegal"
  PROVE  Advanced(st, rs) \in Status
<1>1. \/ Advanced(st, rs) = st
      \/ \E x, y : Advanced(st, rs) = Move(x, y)
  BY DEF Advanced
<1> QED BY <1>1, MoveType

\* Types do not depend on what a step leaves alone.
LEMMA Untouched ==
  /\ LedgerOK /\ UNCHANGED ledger => LedgerOK'
  /\ AgentsOK /\ UNCHANGED <<agents, reports>> => AgentsOK'
  /\ WorldOK /\ UNCHANGED world => WorldOK'
  /\ ThreadsOK /\ UNCHANGED thr => ThreadsOK'
BY DEF LedgerOK, ItemsPlanned, AgentsOK, WorldOK, ThreadsOK, ThreadType, SoundThread, Sound,
       PassOf, ledger, agents, world

\* Replacing an item by one of the right shape.
LEMMA ItemStep ==
  ASSUME items \in [Item -> ItemType], ItemsPlanned, NEW i, NEW x,
         i \in Item => x \in ItemType /\ (x.record.status = "planned" => x.record.run # 0),
         items' = [items EXCEPT ![i] = x]
  PROVE  items' \in [Item -> ItemType] /\ ItemsPlanned'
<1>1. ASSUME NEW j \in Item
      PROVE  /\ items'[j] \in ItemType
             /\ items'[j].record.status = "planned" => items'[j].record.run # 0
  BY <1>1 DEF ItemsPlanned
<1> QED BY <1>1 DEF ItemsPlanned
(***************************************************************************)
(* The actions of a tick keep the types.                                   *)
(***************************************************************************)

\* A tick starts.
LEMMA StartTypes ==
  ASSUME RuntimeAssumption, TypeInv, NEW t \in Thread, StartTick(t)
  PROVE  ThreadsOK'
<1> DEFINE cards == {[NoView EXCEPT !.item = i, !.basis = source[i]] :
                       i \in {j \in Item : source[j] # bases[j]}}
           r == [Idle EXCEPT !.pc = "sources", !.now = clock, !.todo = cards]
<1>1. thr' = [thr EXCEPT ![t] = r]
  BY DEF StartTick
<1>2. ASSUME NEW i \in Item PROVE [NoView EXCEPT !.item = i, !.basis = source[i]] \in Views
  <2>1. source[i] \in 0..MaxEdits
    BY DEF TypeInv, WorldOK
  <2> QED BY <2>1, NoViewType DEF Views
<1>3. cards \subseteq Views
  BY <1>2
<1> HIDE DEF cards
<1>4. r \in ThreadType
  BY <1>3, IdleType DEF ThreadType, TypeInv, WorldOK, Position
<1>5. r.pc = "sources" /\ r.from = "none"
  BY DEF Idle
<1>6. Sound(r.pc, r.todo, r.cur, r.from)
  BY <1>5 DEF Sound, PassOf, Passes, Dispatching
<1> HIDE DEF r
<1>7. thr' \in [Thread -> ThreadType] /\ thr'[t] = r /\ \A u \in Thread : u # t => thr'[u] = thr[u]
  BY <1>1, <1>4 DEF TypeInv, ThreadsOK
<1>8. ASSUME NEW u \in Thread PROVE Sound(thr'[u].pc, thr'[u].todo, thr'[u].cur, thr'[u].from)
  <2>1. CASE u = t
    BY <1>6, <1>7, <2>1
  <2>2. CASE u # t
    BY <1>7, <2>2 DEF TypeInv, ThreadsOK, SoundThread
  <2> QED BY <2>1, <2>2
<1> QED BY <1>7, <1>8 DEF ThreadsOK, ThreadType, SoundThread, Sound, PassOf

\* A tick reads the items and starts a pass.
LEMMA ReadTypes ==
  ASSUME RuntimeAssumption, TypeInv, NEW t \in Thread,
         BeginRenew(t) \/ BeginRecover(t) \/ BeginSync(t) \/ BeginPlan(t)
  PROVE  ThreadsOK'
<1>1. ThreadsOK /\ thr \in [Thread -> ThreadType] /\ NoView \in Views
  BY NoViewType DEF TypeInv, ThreadsOK
<1>2. ASSUME NEW i \in Item
      PROVE  /\ items[i] \in ItemType /\ bases[i] \in 0..MaxEdits
             /\ items[i].record.status = "planned" => items[i].record.run # 0
  BY DEF TypeInv, LedgerOK, ItemsPlanned
<1>3. MaxTokens \in Nat
  BY DEF RuntimeAssumption
<1>4. CASE BeginRenew(t)
  <2> DEFINE view(i) == [NoView EXCEPT !.item = i, !.token = items[i].lease.token]
             views == {view(i) : i \in {j \in Item : /\ items[j].lease.token # 0
                                                     /\ items[j].run # 0
                                                     /\ runs[items[j].run] \in Active}}
  <2>1. Read(t, "renew", views)
    BY <1>4 DEF BeginRenew
  <2>2. ASSUME NEW i \in Item PROVE view(i) \in Views
    BY <1>1, <1>2 DEF Views, ItemType
  <2>3. views \in SUBSET Views
    BY <2>2
  <2> HIDE DEF views
  <2>4. At(t, "sources") /\ SoundThread(t)
    BY <1>1, <1>4 DEF BeginRenew, ThreadsOK
  <2>5. Moved(t, "renew", views, Cur(t), thr[t].seen, thr[t].from)
    BY <1>1, <2>1, <2>3, ReadMoves DEF Position
  <2>6. Sound("renew", views, Cur(t), thr[t].from)
    BY <2>4 DEF SoundThread, Sound, PassOf, Passes, Dispatching, At
  <2> QED BY <1>1, <2>5, <2>6, SoundStep
<1>5. CASE BeginRecover(t)
  <2> DEFINE view(i) == [NoView EXCEPT !.item = i, !.token = items[i].lease.token,
                                       !.run = items[i].record.run, !.id = items[i].record.id]
             views == {view(i) : i \in {j \in Item : /\ items[j].record.status = "planned"
                                                     /\ items[j].status \in {"leased", "running"}}}
  <2>1. Read(t, "recover", views)
    BY <1>5 DEF BeginRecover
  <2>2. ASSUME NEW i \in Item
        PROVE  view(i) \in Views /\ (items[i].record.status = "planned" => view(i).run \in Token)
    <3>1. /\ items[i].record.run \in 0..MaxTokens /\ items[i].record.id \in 0..MaxTokens
          /\ items[i].lease.token \in 0..MaxTokens
      BY <1>2 DEF ItemType
    <3>2. items[i].record.run \in 0..(2 * MaxTokens)
      BY <1>3, <3>1
    <3>3. view(i) \in Views /\ view(i).run = items[i].record.run
      BY <1>1, <3>1, <3>2 DEF Views
    <3>4. items[i].record.run # 0 => items[i].record.run \in Token
      BY <1>3, <3>1 DEF Token
    <3> HIDE DEF view
    <3> QED BY <1>2, <3>3, <3>4
  <2>3. views \in SUBSET Views /\ \A v \in views : v.run \in Token
    BY <2>2
  <2> HIDE DEF views
  <2>4. At(t, "released") /\ SoundThread(t)
    BY <1>1, <1>5 DEF BeginRecover, ThreadsOK
  <2>5. Moved(t, "recover", views, Cur(t), thr[t].seen, thr[t].from)
    BY <1>1, <2>1, <2>3, ReadMoves DEF Position
  <2>6. Sound("recover", views, Cur(t), thr[t].from)
    BY <2>3, <2>4 DEF SoundThread, Sound, PassOf, Passes, Dispatching, At
  <2> QED BY <1>1, <2>5, <2>6, SoundStep
<1>6. CASE BeginSync(t)
  <2> DEFINE view(i) == [NoView EXCEPT !.item = i, !.run = items[i].run, !.obs = items[i].obs,
                                       !.id = items[i].record.id]
             views == {view(i) : i \in {j \in Item : items[j].run # 0}}
  <2>1. Read(t, "sync", views)
    BY <1>6 DEF BeginSync
  <2>2. ASSUME NEW i \in Item
        PROVE  view(i) \in Views /\ (items[i].run # 0 => view(i).run \in RunId)
    <3>1. /\ items[i].run \in 0..(2 * MaxTokens) /\ items[i].record.id \in 0..MaxTokens
          /\ items[i].obs \in RunStatus
      BY <1>2 DEF ItemType
    <3>2. view(i) \in Views /\ view(i).run = items[i].run
      BY <1>1, <3>1 DEF Views
    <3>3. items[i].run # 0 => items[i].run \in RunId
      BY <1>3, <3>1 DEF RunId
    <3> HIDE DEF view
    <3> QED BY <3>2, <3>3
  <2>3. views \in SUBSET Views /\ \A v \in views : v.run \in RunId
    BY <2>2
  <2> HIDE DEF views
  <2>4. At(t, "recover") /\ SoundThread(t)
    BY <1>1, <1>6 DEF BeginSync, ThreadsOK
  <2>5. Moved(t, "sync", views, Cur(t), thr[t].seen, thr[t].from)
    BY <1>1, <2>1, <2>3, ReadMoves DEF Position
  <2>6. Sound("sync", views, Cur(t), thr[t].from)
    BY <2>3, <2>4 DEF SoundThread, Sound, PassOf, Passes, Dispatching, At
  <2> QED BY <1>1, <2>5, <2>6, SoundStep
<1>7. CASE BeginPlan(t)
  <2> DEFINE view(i) == [NoView EXCEPT !.item = i, !.content = items[i].content,
                                       !.basis = bases[i]]
             views == {view(i) : i \in {j \in Item : Plannable(j)}}
  <2>1. Read(t, "plan", views)
    BY <1>7 DEF BeginPlan
  <2>2. ASSUME NEW i \in Item PROVE view(i) \in Views
    BY <1>1, <1>2 DEF Views, ItemType
  <2>3. views \in SUBSET Views
    BY <2>2
  <2> HIDE DEF views
  <2>4. At(t, "sync") /\ SoundThread(t)
    BY <1>1, <1>7 DEF BeginPlan, ThreadsOK
  <2>5. Moved(t, "plan", views, Cur(t), thr[t].seen, thr[t].from)
    BY <1>1, <2>1, <2>3, ReadMoves DEF Position
  <2>6. Sound("plan", views, Cur(t), thr[t].from)
    BY <2>4 DEF SoundThread, Sound, PassOf, Passes, Dispatching, At
  <2> QED BY <1>1, <2>5, <2>6, SoundStep
<1> QED BY <1>4, <1>5, <1>6, <1>7
\* The shape of an item.
Shaped(it) == it \in ItemType /\ (it.record.status = "planned" => it.record.run # 0)
LeaseType  == [token : 0..MaxTokens, exp : Time, content : Content]
RecordType == [id : 0..MaxTokens, run : 0..MaxTokens, status : {"none", "planned", "observed"}]

\* What is known of a thread.
LEMMA ThreadFacts ==
  ASSUME TypeInv, NEW t \in Thread
  PROVE  /\ ThreadsOK /\ thr \in [Thread -> ThreadType]
         /\ thr[t].now \in 0..MaxClock /\ thr[t].todo \in SUBSET Views /\ Cur(t) \in Views
         /\ thr[t].seen \in RunStatus /\ thr[t].from \in {"none", "recover", "sync", "plan"}
         /\ Sound(thr[t].pc, thr[t].todo, Cur(t), thr[t].from)
BY DEF TypeInv, ThreadsOK, ThreadType, SoundThread, Cur

\* What is known of an item.
LEMMA ItemFacts ==
  ASSUME TypeInv, NEW i \in Item
  PROVE  /\ items \in [Item -> ItemType] /\ ItemsPlanned /\ items[i] \in ItemType /\ Shaped(items[i])
         /\ items[i].record.status = "planned" => items[i].record.run # 0
BY DEF TypeInv, LedgerOK, ItemsPlanned, Shaped

\* The fields of an item.
LEMMA ItemShape ==
  ASSUME NEW it, Shaped(it)
  PROVE  /\ it = [status |-> it.status, content |-> it.content, lease |-> it.lease, run |-> it.run,
                  record |-> it.record, obs |-> it.obs, recovery |-> it.recovery]
         /\ it.status \in Status /\ it.content \in Content /\ it.run \in 0..(2 * MaxTokens)
         /\ it.lease \in LeaseType /\ it.record \in RecordType
         /\ it.record.status = "planned" => it.record.run # 0
         /\ it.obs \in RunStatus /\ it.recovery \in {"none", "lease-expired", "orphaned-run"}
BY DEF Shaped, ItemType, LeaseType, RecordType

\* An item keeps its shape under a new lease, ...
LEMMA LeasedShape ==
  ASSUME NEW it, Shaped(it),
         NEW st \in Status, NEW l \in LeaseType, NEW x, x = [it EXCEPT !.status = st, !.lease = l]
  PROVE  Shaped(x)
<1>0. it = [status |-> it.status, content |-> it.content, lease |-> it.lease, run |-> it.run,
            record |-> it.record, obs |-> it.obs, recovery |-> it.recovery]
  BY ItemShape
<1>1. x = [status |-> st, content |-> it.content, lease |-> l, run |-> it.run,
         record |-> it.record, obs |-> it.obs, recovery |-> it.recovery]
  BY <1>0
<1>2. x \in ItemType
  BY <1>1, ItemShape DEF ItemType, LeaseType, RecordType
<1>3. x.record.status = "planned" => x.record.run # 0
  BY <1>1, ItemShape
<1> QED BY <1>2, <1>3 DEF Shaped

\* ... when a dispatch is prepared, ...
LEMMA PreparedShape ==
  ASSUME NEW it, Shaped(it),
         NEW r \in 0..(2 * MaxTokens), NEW rec \in RecordType,
         rec.status = "planned" => rec.run # 0, NEW x, x = [it EXCEPT !.run = r, !.record = rec]
  PROVE  Shaped(x)
<1>0. it = [status |-> it.status, content |-> it.content, lease |-> it.lease, run |-> it.run,
            record |-> it.record, obs |-> it.obs, recovery |-> it.recovery]
  BY ItemShape
<1>1. x = [status |-> it.status, content |-> it.content, lease |-> it.lease, run |-> r,
         record |-> rec, obs |-> it.obs, recovery |-> it.recovery]
  BY <1>0
<1>2. x \in ItemType
  BY <1>1, ItemShape DEF ItemType, LeaseType, RecordType
<1>3. x.record.status = "planned" => x.record.run # 0
  BY <1>1, ItemShape
<1> QED BY <1>2, <1>3 DEF Shaped

\* ... when the outcome of a run is folded into it, ...
LEMMA FoldedShape ==
  ASSUME NEW it, Shaped(it),
         NEW st \in Status, NEW r \in 0..(2 * MaxTokens), NEW x, x = [it EXCEPT !.status = st, !.run = r]
  PROVE  Shaped(x)
<1>0. it = [status |-> it.status, content |-> it.content, lease |-> it.lease, run |-> it.run,
            record |-> it.record, obs |-> it.obs, recovery |-> it.recovery]
  BY ItemShape
<1>1. x = [status |-> st, content |-> it.content, lease |-> it.lease, run |-> r,
         record |-> it.record, obs |-> it.obs, recovery |-> it.recovery]
  BY <1>0
<1>2. x \in ItemType
  BY <1>1, ItemShape DEF ItemType, LeaseType, RecordType
<1>3. x.record.status = "planned" => x.record.run # 0
  BY <1>1, ItemShape
<1> QED BY <1>2, <1>3 DEF Shaped

\* ... and when a run is observed.
LEMMA ObservedShape ==
  ASSUME NEW it, Shaped(it),
         NEW o \in RunStatus, NEW x, x = [it EXCEPT !.obs = o]
  PROVE  Shaped(x)
<1>0. it = [status |-> it.status, content |-> it.content, lease |-> it.lease, run |-> it.run,
            record |-> it.record, obs |-> it.obs, recovery |-> it.recovery]
  BY ItemShape
<1>1. x = [status |-> it.status, content |-> it.content, lease |-> it.lease, run |-> it.run,
         record |-> it.record, obs |-> o, recovery |-> it.recovery]
  BY <1>0
<1>2. x \in ItemType
  BY <1>1, ItemShape DEF ItemType, LeaseType, RecordType
<1>3. x.record.status = "planned" => x.record.run # 0
  BY <1>1, ItemShape
<1> QED BY <1>2, <1>3 DEF Shaped

\* A new item is one.
LEMMA NewItemType ==
  ASSUME RuntimeAssumption, NEW c \in Content
  PROVE  NewItem(c) \in ItemType /\ NewItem(c).record.status = "none"
<1>1. 0 \in 0..MaxTokens /\ 0 \in 0..(2 * MaxTokens) /\ 0 \in Content /\ 0 \in Time
  BY DEF RuntimeAssumption, Content, Time
<1>2. NoLease \in [token : 0..MaxTokens, exp : Time, content : Content]
  BY <1>1 DEF NoLease
<1>3. NoRecord \in [id : 0..MaxTokens, run : 0..MaxTokens,
                    status : {"none", "planned", "observed"}] /\ NoRecord.status = "none"
  BY <1>1 DEF NoRecord
<1>4. "ready" \in Status /\ "none" \in RunStatus
  BY DEF Status, RunStatus
<1> QED BY <1>1, <1>2, <1>3, <1>4 DEF NewItem, ItemType

\* A renewal keeps the types.
LEMMA RenewTypes ==
  ASSUME RuntimeAssumption, TypeInv, NEW i \in Item, NEW k, NEW now \in 0..MaxClock,
         RenewLease(i, k, now)
  PROVE  items' \in [Item -> ItemType] /\ ItemsPlanned'
<1> DEFINE x == [items[i] EXCEPT !.lease.exp = now + LeaseMs]
<1>1. items \in [Item -> ItemType] /\ ItemsPlanned
  BY ItemFacts
<1>2. CASE items' = items
  BY <1>1, <1>2 DEF ItemsPlanned
<1>3. CASE items' = [items EXCEPT ![i].lease.exp = now + LeaseMs]
  <2>1. now + LeaseMs \in Time
    BY DEF RuntimeAssumption, Time
  <2>2. x \in ItemType /\ (x.record.status = "planned" => x.record.run # 0)
    BY <2>1, ItemFacts DEF ItemType
  <2>3. items' = [items EXCEPT ![i] = x]
    BY <1>3
  <2> HIDE DEF x
  <2> QED BY <1>1, <2>2, <2>3, ItemStep
<1> QED BY <1>2, <1>3 DEF RenewLease

\* ingest-work-item!
LEMMA IngestTypes ==
  ASSUME RuntimeAssumption, TypeInv, NEW t \in Thread, Ingest(t)
  PROVE  LedgerOK' /\ ThreadsOK'
<1>1. PICK v \in thr[t].todo :
        /\ IF v.basis = bases[v.item] \/ ExecutionStarted(v.item)
           THEN UNCHANGED <<items, bases>>
           ELSE /\ items' = [items EXCEPT ![v.item] = NewItem(v.basis)]
                /\ bases' = [bases EXCEPT ![v.item] = v.basis]
        /\ Skip(t, v)
  BY DEF Ingest
<1>2. v \in Views
  BY ThreadFacts
<1>3. v.item \in Item /\ v.basis \in 0..MaxEdits /\ v.basis \in Content
  BY <1>2 DEF Views, Content, RuntimeAssumption
<1>4. items' \in [Item -> ItemType] /\ ItemsPlanned' /\ bases' \in [Item -> 0..MaxEdits]
  <2>1. CASE UNCHANGED <<items, bases>>
    BY <2>1 DEF TypeInv, LedgerOK, ItemsPlanned
  <2>2. CASE /\ items' = [items EXCEPT ![v.item] = NewItem(v.basis)]
             /\ bases' = [bases EXCEPT ![v.item] = v.basis]
    <3>1. NewItem(v.basis) \in ItemType /\ NewItem(v.basis).record.status = "none"
      BY <1>3, NewItemType
    <3>2. items' \in [Item -> ItemType] /\ ItemsPlanned'
      BY <1>3, <2>2, <3>1, ItemStep DEF TypeInv, LedgerOK
    <3> QED BY <1>3, <2>2, <3>2 DEF TypeInv, LedgerOK
  <2> QED BY <1>1, <2>1, <2>2
<1>5. LedgerOK'
  BY <1>4 DEF Ingest, TypeInv, LedgerOK
<1>6. Moved(t, thr[t].pc, thr[t].todo \ {v}, Cur(t), thr[t].seen, thr[t].from)
  BY <1>1, ThreadFacts, SkipMoves
<1>7. Sound(thr[t].pc, thr[t].todo \ {v}, Cur(t), thr[t].from)
  BY ThreadFacts DEF Sound
<1> QED BY <1>5, <1>6, <1>7, ThreadFacts, SoundStep

\* renew-active-leases! and release-expired-leases!
LEMMA LeaseEndTypes ==
  ASSUME RuntimeAssumption, TypeInv, NEW t \in Thread, Renew(t) \/ ReleaseExpired(t)
  PROVE  LedgerOK' /\ ThreadsOK'
<1>1. CASE Renew(t)
  <2>1. PICK v \in thr[t].todo : RenewLease(v.item, v.token, thr[t].now) /\ Skip(t, v)
    BY <1>1 DEF Renew
  <2>2. v.item \in Item /\ thr[t].now \in 0..MaxClock
    BY ThreadFacts DEF Views
  <2>3. items' \in [Item -> ItemType] /\ ItemsPlanned'
    BY <2>1, <2>2, RenewTypes
  <2>4. LedgerOK'
    BY <1>1, <2>3 DEF Renew, TypeInv, LedgerOK
  <2>5. Moved(t, thr[t].pc, thr[t].todo \ {v}, Cur(t), thr[t].seen, thr[t].from)
    BY <2>1, ThreadFacts, SkipMoves
  <2>6. Sound(thr[t].pc, thr[t].todo \ {v}, Cur(t), thr[t].from)
    BY ThreadFacts DEF Sound
  <2> QED BY <2>4, <2>5, <2>6, ThreadFacts, SoundStep
<1>2. CASE ReleaseExpired(t)
  <2>1. ASSUME NEW i \in Item
        PROVE  /\ items'[i] \in ItemType
               /\ items'[i].record.status = "planned" => items'[i].record.run # 0
    <3>1. items'[i] = Released(items[i], thr[t].now)
      BY <1>2 DEF ReleaseExpired
    <3>2. items[i] \in ItemType /\ (items[i].record.status = "planned" => items[i].record.run # 0)
      BY ItemFacts
    <3>3. CASE items'[i] = items[i]
      BY <3>2, <3>3
    <3>4. 0 \in 0..MaxTokens /\ 0 \in 0..(2 * MaxTokens) /\ 0 \in Content /\ 0 \in Time
      BY DEF RuntimeAssumption, Content, Time
    <3>5. NoLease \in [token : 0..MaxTokens, exp : Time, content : Content]
      BY <3>4 DEF NoLease
    <3>6. NoRecord \in [id : 0..MaxTokens, run : 0..MaxTokens,
                        status : {"none", "planned", "observed"}] /\ NoRecord.status = "none"
      BY <3>4 DEF NoRecord
    <3>7. CASE items'[i] = [items[i] EXCEPT !.status = "ready", !.lease = NoLease, !.run = 0,
                                            !.record = NoRecord, !.recovery = "lease-expired"]
      <4>1. "ready" \in Status
        BY DEF Status
      <4>2. items'[i] \in ItemType
        <5>1. items'[i] = [status |-> "ready", content |-> items[i].content, lease |-> NoLease,
                           run |-> 0, record |-> NoRecord, obs |-> items[i].obs,
                           recovery |-> "lease-expired"]
          BY <3>2, <3>7 DEF ItemType
        <5>2. items[i].content \in Content /\ items[i].obs \in RunStatus
          BY <3>2 DEF ItemType
        <5> QED BY <3>4, <3>5, <3>6, <4>1, <5>1, <5>2 DEF ItemType
      <4>3. items'[i].record = NoRecord
        BY <3>2, <3>7 DEF ItemType
      <4> QED BY <3>6, <4>2, <4>3
    <3>8. CASE items'[i] = [items[i] EXCEPT !.status = "held", !.lease = NoLease,
                                            !.recovery = "orphaned-run"]
      BY <3>2, <3>5, <3>8, ZenonT(30) DEF ItemType, Status
    <3>9. \/ items'[i] = items[i]
          \/ items'[i] = [items[i] EXCEPT !.status = "ready", !.lease = NoLease, !.run = 0,
                                          !.record = NoRecord, !.recovery = "lease-expired"]
          \/ items'[i] = [items[i] EXCEPT !.status = "held", !.lease = NoLease,
                                          !.recovery = "orphaned-run"]
      BY <3>1 DEF Released
    <3> QED BY <3>3, <3>7, <3>8, <3>9
  <2>2. items' \in [Item -> ItemType] /\ ItemsPlanned'
    BY <1>2, <2>1 DEF ReleaseExpired, ItemsPlanned
  <2>3. LedgerOK'
    BY <1>2, <2>2 DEF ReleaseExpired, TypeInv, LedgerOK
  <2>4. At(t, "renew") /\ Goto(t, "released")
    BY <1>2 DEF ReleaseExpired
  <2>5. Moved(t, "released", thr[t].todo, Cur(t), thr[t].seen, thr[t].from)
    BY <2>4, ThreadFacts, GotoMoves DEF Position
  <2>6. Sound("released", thr[t].todo, Cur(t), thr[t].from)
    BY <2>4, ThreadFacts DEF Sound, PassOf, Passes, Dispatching, At
  <2> QED BY <2>3, <2>5, <2>6, ThreadFacts, SoundStep
<1> QED BY <1>1, <1>2
\* lease!
LEMMA LeaseTypes ==
  ASSUME RuntimeAssumption, TypeInv, NEW t \in Thread, Lease(t)
  PROVE  LedgerOK' /\ ThreadsOK'
<1>1. PICK v \in thr[t].todo :
        IF LeaseGranted(v, thr[t].now)
        THEN /\ fencing < MaxTokens
             /\ fencing' = NextToken(v.item)
             /\ items' = [items EXCEPT ![v.item].status = "leased",
                            ![v.item].lease = [token |-> NextToken(v.item), content |-> v.content,
                                               exp |-> thr[t].now + LeaseMs]]
             /\ Take(t, v, [NoView EXCEPT !.item = v.item, !.token = NextToken(v.item)],
                     "prepare", "none")
        ELSE /\ UNCHANGED <<items, fencing>>
             /\ Skip(t, v)
  BY DEF Lease
<1>2. v \in Views /\ v.item \in Item /\ v.content \in Content
  BY ThreadFacts DEF Views
<1>3. At(t, "plan")
  BY DEF Lease
<1>4. CASE ~LeaseGranted(v, thr[t].now)
  <2>1. LedgerOK'
    BY <1>1, <1>4 DEF Lease, TypeInv, LedgerOK, ItemsPlanned
  <2>2. Moved(t, thr[t].pc, thr[t].todo \ {v}, Cur(t), thr[t].seen, thr[t].from)
    BY <1>1, <1>4, ThreadFacts, SkipMoves
  <2>3. Sound(thr[t].pc, thr[t].todo \ {v}, Cur(t), thr[t].from)
    BY ThreadFacts DEF Sound
  <2> QED BY <2>1, <2>2, <2>3, ThreadFacts, SoundStep
<1>5. CASE LeaseGranted(v, thr[t].now)
  <2> DEFINE k == NextToken(v.item)
             l == [token |-> k, content |-> v.content, exp |-> thr[t].now + LeaseMs]
             w == [NoView EXCEPT !.item = v.item, !.token = k]
             x == [items[v.item] EXCEPT !.status = "leased", !.lease = l]
  <2>1. k \in Token /\ k \in 0..MaxTokens
    BY <1>1, <1>5 DEF NextToken, Token, TypeInv, LedgerOK, RuntimeAssumption
  <2>2. l \in [token : 0..MaxTokens, exp : Time, content : Content]
    BY <1>2, <2>1, ThreadFacts DEF Time, RuntimeAssumption
  <2>3. items' = [items EXCEPT ![v.item] = x] /\ fencing' = k
    BY <1>1, <1>5
  <2>4. Take(t, v, w, "prepare", "none")
    BY <1>1, <1>5
  <2>5. w \in Views /\ w.token = k
    BY <1>2, <2>1, NoViewType DEF Views
  <2> HIDE DEF k, l, w
  <2>6. Shaped(x)
    BY <1>2, <2>2, ItemFacts, LeasedShape DEF LeaseType, Status
  <2> HIDE DEF x
  <2>7. items' \in [Item -> ItemType] /\ ItemsPlanned'
    BY <1>2, <2>3, <2>6, ItemFacts, ItemStep DEF Shaped
  <2>8. LedgerOK'
    BY <2>1, <2>3, <2>7 DEF Lease, TypeInv, LedgerOK
  <2>9. Moved(t, "prepare", thr[t].todo \ {v}, w, "none", thr[t].pc)
    BY <1>3, <2>4, <2>5, ThreadFacts, TakeMoves DEF Position, RunStatus, At
  <2>10. Sound("prepare", thr[t].todo \ {v}, w, thr[t].pc)
    BY <1>3, <2>1, <2>5 DEF Sound, PassOf, Passes, Dispatching, At
  <2> QED BY <2>8, <2>9, <2>10, ThreadFacts, SoundStep
<1> QED BY <1>4, <1>5

\* prepare-dispatch!
LEMMA PrepareTypes ==
  ASSUME RuntimeAssumption, TypeInv, NEW t \in Thread, Prepare(t)
  PROVE  LedgerOK' /\ ThreadsOK'
<1> DEFINE i == Cur(t).item
           old == items[i].record
           record == IF old = NoRecord
                     THEN [id |-> Cur(t).token, run |-> Cur(t).token, status |-> "planned"]
                     ELSE old
           w == [Cur(t) EXCEPT !.run = record.run, !.id = record.id]
           x == [items[i] EXCEPT !.run = record.run, !.record = record]
<1>1. At(t, "prepare") /\ Cur(t).token \in Token /\ Cur(t) \in Views /\ i \in Item
  BY ThreadFacts DEF Prepare, Sound, At, Views
<1>2. MaxTokens \in Nat /\ Cur(t).token \in 0..MaxTokens /\ Cur(t).token # 0
  BY <1>1 DEF Token, RuntimeAssumption
<1>3. /\ record \in [id : 0..MaxTokens, run : 0..MaxTokens, status : {"none", "planned", "observed"}]
      /\ record.status = "planned" => record.run # 0
  BY <1>1, <1>2, ItemFacts DEF ItemType
<1>4. CASE Fenced(i, Cur(t).token)
  <2>1. items' = [items EXCEPT ![i] = x]
    BY <1>4 DEF Prepare
  <2>2. Continue(t, w, "dispatch", "none")
    BY <1>4 DEF Prepare
  <2> HIDE DEF record
  <2>3. record.run \in 0..MaxTokens /\ record.id \in 0..MaxTokens
    BY <1>3
  <2>4. record.run \in 0..(2 * MaxTokens)
    BY <1>2, <2>3
  <2>5. w \in Views /\ w.run = record.run /\ w.token = Cur(t).token
    BY <1>1, <2>3, <2>4 DEF Views
  <2>6. Shaped(x)
    BY <1>1, <1>3, <2>4, ItemFacts, PreparedShape DEF RecordType
  <2> HIDE DEF x, w
  <2>7. items' \in [Item -> ItemType] /\ ItemsPlanned'
    BY <1>1, <2>1, <2>6, ItemFacts, ItemStep DEF Shaped
  <2>8. LedgerOK'
    BY <2>7 DEF Prepare, TypeInv, LedgerOK
  <2>9. Moved(t, "dispatch", thr[t].todo, w, "none", thr[t].from)
    BY <2>2, <2>5, ThreadFacts, ContinueMoves DEF Position, Dispatching, RunStatus
  <2>10. Sound("dispatch", thr[t].todo, w, thr[t].from)
    BY <1>1, <2>3, <2>5, ThreadFacts DEF Sound, PassOf, Passes, Dispatching, At
  <2> QED BY <2>8, <2>9, <2>10, ThreadFacts, SoundStep
<1>5. CASE ~Fenced(i, Cur(t).token)
  <2>1. UNCHANGED items /\ Loop(t, "plan")
    BY <1>5 DEF Prepare
  <2>2. LedgerOK'
    BY <2>1 DEF Prepare, TypeInv, LedgerOK, ItemsPlanned
  <2>3. Moved(t, "plan", thr[t].todo, NoView, "none", "none")
    BY <2>1, ThreadFacts, LoopMoves DEF Position
  <2>4. Sound("plan", thr[t].todo, NoView, "none")
    BY DEF Sound, PassOf, Passes, Dispatching
  <2> QED BY <2>2, <2>3, <2>4, ThreadFacts, SoundStep
<1> QED BY <1>4, <1>5

\* apply-run-receipt!
LEMMA FoldTypes ==
  ASSUME RuntimeAssumption, TypeInv, NEW t \in Thread, FoldReceipt(t)
  PROVE  LedgerOK' /\ ThreadsOK'
<1> DEFINE i == Cur(t).item
           next == CASE At(t, "recovered") -> "recoverMark"
                     [] At(t, "observed") -> "syncMark"
                     [] OTHER -> "mark"
           throw == IF At(t, "dispatched") THEN "catch" ELSE "aborted"
<1>1. /\ thr[t].pc \in {"recovered", "observed", "dispatched", "failed"}
      /\ IF CanApply(i, thr[t].seen)
         THEN ApplyRunReceipt(i, Cur(t).run, thr[t].seen) /\ Goto(t, next)
         ELSE UNCHANGED <<items, receipts>> /\ Goto(t, throw)
  BY DEF FoldReceipt
<1>2. i \in Item /\ thr[t].seen \in RunStatus /\ Cur(t).run \in RunId
      /\ Cur(t).run \in 0..(2 * MaxTokens)
  BY <1>1, ThreadFacts DEF Sound, Views, Token, RunId, RuntimeAssumption
<1>3. next \in Position /\ throw \in Position
  BY DEF Position, Dispatching
<1>4. CASE CanApply(i, thr[t].seen)
  <2> DEFINE x == [items[i] EXCEPT !.status = Advanced(@, thr[t].seen), !.run = Cur(t).run]
             rc == [item |-> i, run |-> Cur(t).run, status |-> thr[t].seen,
                    token |-> items[i].lease.token]
  <2>1. items' = [items EXCEPT ![i] = x] /\ receipts' \subseteq receipts \cup {rc}
    BY <1>1, <1>4 DEF ApplyRunReceipt
  <2>2. Advanced(items[i].status, thr[t].seen) \in Status
    BY <1>2, <1>4, ItemFacts, AdvancedType DEF CanApply, ItemType
  <2>3. Shaped(x)
    BY <1>2, <2>2, ItemFacts, FoldedShape
  <2> HIDE DEF x
  <2>4. items' \in [Item -> ItemType] /\ ItemsPlanned'
    BY <1>2, <2>1, <2>3, ItemFacts, ItemStep DEF Shaped
  <2>5. items[i].lease.token \in Token
    BY <1>2, <1>4, ItemFacts DEF CanApply, ReceiptValid, ItemType, Token, RuntimeAssumption
  <2>6. rc \in [item : Item, run : RunId, status : RunStatus, token : Token]
    BY <1>2, <2>5
  <2>7. LedgerOK'
    BY <2>1, <2>4, <2>6 DEF FoldReceipt, TypeInv, LedgerOK
  <2>8. Moved(t, next, thr[t].todo, Cur(t), thr[t].seen, thr[t].from)
    BY <1>1, <1>3, <1>4, ThreadFacts, GotoMoves
  <2>9. Sound(next, thr[t].todo, Cur(t), thr[t].from)
    BY <1>1, ThreadFacts DEF Sound, PassOf, Passes, Dispatching, At
  <2> QED BY <2>7, <2>8, <2>9, ThreadFacts, SoundStep
<1>5. CASE ~CanApply(i, thr[t].seen)
  <2>1. LedgerOK'
    BY <1>1, <1>5 DEF FoldReceipt, TypeInv, LedgerOK, ItemsPlanned
  <2>2. Moved(t, throw, thr[t].todo, Cur(t), thr[t].seen, thr[t].from)
    BY <1>1, <1>3, <1>5, ThreadFacts, GotoMoves
  <2>3. Sound(throw, thr[t].todo, Cur(t), thr[t].from)
    BY <1>1, ThreadFacts DEF Sound, PassOf, Passes, Dispatching, At
  <2> QED BY <2>1, <2>2, <2>3, ThreadFacts, SoundStep
<1> QED BY <1>4, <1>5

\* record-dispatch-status! and the observed status.
LEMMA MarkTypes ==
  ASSUME RuntimeAssumption, TypeInv, NEW t \in Thread, Mark(t) \/ SetObserved(t)
  PROVE  LedgerOK' /\ ThreadsOK'
<1> DEFINE i == Cur(t).item
<1>0. i \in Item
  BY ThreadFacts DEF Views
<1>1. CASE Mark(t)
  <2> DEFINE x == [items[i] EXCEPT !.record.status = "observed"]
  <2>1. items' = [items EXCEPT ![i] = x]
    BY <1>1 DEF Mark
  <2>2. x \in ItemType /\ x.record.status # "planned"
    BY <1>0, ItemFacts DEF ItemType
  <2> HIDE DEF x
  <2>3. items' \in [Item -> ItemType] /\ ItemsPlanned'
    BY <2>1, <2>2, ItemFacts, ItemStep
  <2>4. LedgerOK'
    BY <1>1, <2>3 DEF Mark, TypeInv, LedgerOK
  <2>5. CASE At(t, "mark") /\ thr[t].from = "plan"
    <3>1. Moved(t, "dispatchMark", thr[t].todo, Cur(t), thr[t].seen, thr[t].from)
      BY <1>1, <2>5, ThreadFacts, GotoMoves DEF Mark, Position
    <3>2. Sound("dispatchMark", thr[t].todo, Cur(t), thr[t].from)
      BY <2>5 DEF Sound, PassOf, Passes, Dispatching
    <3> QED BY <2>4, <3>1, <3>2, ThreadFacts, SoundStep
  <2>6. CASE ~(At(t, "mark") /\ thr[t].from = "plan")
    <3>1. Moved(t, "recover", thr[t].todo, NoView, "none", "none")
      BY <1>1, <2>6, ThreadFacts, LoopMoves DEF Mark, Position
    <3>2. thr[t].from = "recover" /\ thr[t].pc \notin Passes
      BY <1>1, <2>6, ThreadFacts DEF Mark, At, Sound, Dispatching, Passes
    <3>3. Sound("recover", thr[t].todo, NoView, "none")
      BY <3>2, ThreadFacts DEF Sound, PassOf, Passes, Dispatching
    <3> QED BY <2>4, <3>1, <3>3, ThreadFacts, SoundStep
  <2> QED BY <2>5, <2>6
<1>2. CASE SetObserved(t)
  <2> DEFINE x == [items[i] EXCEPT !.obs = thr[t].seen]
             pass == IF At(t, "syncMark") THEN "sync" ELSE "plan"
  <2>1. items' = [items EXCEPT ![i] = x]
    BY <1>2 DEF SetObserved
  <2>2. Shaped(x)
    BY <1>0, ItemFacts, ThreadFacts, ObservedShape
  <2> HIDE DEF x
  <2>3. items' \in [Item -> ItemType] /\ ItemsPlanned'
    BY <2>1, <2>2, ItemFacts, ItemStep DEF Shaped
  <2>4. LedgerOK'
    BY <1>2, <2>3 DEF SetObserved, TypeInv, LedgerOK
  <2>5. pass \in Position
    BY DEF Position
  <2>6. Moved(t, pass, thr[t].todo, NoView, "none", "none")
    BY <1>2, <2>5, ThreadFacts, LoopMoves DEF SetObserved
  <2>7. Sound(pass, thr[t].todo, NoView, "none")
    BY <1>2, ThreadFacts DEF SetObserved, At, Sound, PassOf, Passes, Dispatching
  <2> QED BY <2>4, <2>6, <2>7, ThreadFacts, SoundStep
<1> QED BY <1>1, <1>2
\* sync-linked-runs! learns status rs of the run of view v.
Asked(t, v, rs) ==
  /\ rs \in {reports[v.id], runs[v.run]}
  /\ rs = runs[v.run] \/ (rs \in Terminal /\ runs[v.run] \in Active)
  /\ runs' = [runs EXCEPT ![v.run] = rs]
  /\ IF rs \in {"none", v.obs} THEN Skip(t, v) ELSE Take(t, v, v, "observed", rs)

\* recover-prepared-dispatches! takes the next prepared item, sync-linked-runs! the next run.
LEMMA TakeTypes ==
  ASSUME RuntimeAssumption, TypeInv, NEW t \in Thread, Recover(t) \/ Sync(t)
  PROVE  AgentsOK' /\ ThreadsOK'
<1>1. CASE Recover(t)
  <2>1. PICK v \in thr[t].todo :
          Take(t, v, v, IF runs[v.run] # "none" THEN "recovered" ELSE "dispatch", runs[v.run])
    BY <1>1 DEF Recover
  <2> DEFINE pc == IF runs[v.run] # "none" THEN "recovered" ELSE "dispatch"
  <2>2. At(t, "recover") /\ v \in Views /\ v.run \in Token
    BY <1>1, ThreadFacts DEF Recover, At, Sound, PassOf, Passes
  <2>3. v.run \in RunId /\ v.run \in 0..MaxTokens /\ v.run # 0
    BY <2>2 DEF Token, RunId, RuntimeAssumption
  <2>4. runs[v.run] \in RunStatus /\ pc \in Position
    BY <2>3 DEF TypeInv, AgentsOK, Position, Dispatching
  <2>5. Moved(t, pc, thr[t].todo \ {v}, v, runs[v.run], thr[t].pc)
    BY <2>1, <2>2, <2>4, ThreadFacts, TakeMoves DEF At
  <2>6. Sound(pc, thr[t].todo \ {v}, v, thr[t].pc)
    BY <2>2, <2>3, ThreadFacts DEF Sound, PassOf, Passes, Dispatching, At
  <2>7. AgentsOK'
    BY <1>1, Untouched DEF Recover, TypeInv
  <2> QED BY <2>5, <2>6, <2>7, ThreadFacts, SoundStep
<1>2. CASE Sync(t)
  <2>0. PICK v \in thr[t].todo : \E rs : Asked(t, v, rs)
    BY <1>2 DEF Sync, Asked
  <2>1. PICK rs : Asked(t, v, rs)
    BY <2>0
  <2>2. At(t, "sync") /\ v \in Views /\ v.run \in RunId
    BY <1>2, ThreadFacts DEF Sync, At, Sound, PassOf, Passes
  <2>3. rs \in RunStatus
    BY <2>1, <2>2 DEF TypeInv, AgentsOK, RunStatus, Asked
  <2>4. AgentsOK'
    BY <1>2, <2>1, <2>3 DEF Sync, Asked, TypeInv, AgentsOK
  <2>5. CASE rs \in {"none", v.obs}
    <3>1. Moved(t, thr[t].pc, thr[t].todo \ {v}, Cur(t), thr[t].seen, thr[t].from)
      BY <2>1, <2>5, ThreadFacts, SkipMoves DEF Asked
    <3>2. Sound(thr[t].pc, thr[t].todo \ {v}, Cur(t), thr[t].from)
      BY ThreadFacts DEF Sound
    <3> QED BY <2>4, <3>1, <3>2, ThreadFacts, SoundStep
  <2>6. CASE rs \notin {"none", v.obs}
    <3>1. Moved(t, "observed", thr[t].todo \ {v}, v, rs, thr[t].pc)
      BY <2>1, <2>2, <2>3, <2>6, ThreadFacts, TakeMoves DEF Asked, At, Position
    <3>2. Sound("observed", thr[t].todo \ {v}, v, thr[t].pc)
      BY <2>2, ThreadFacts DEF Sound, PassOf, Passes, Dispatching, At
    <3> QED BY <2>4, <3>1, <3>2, ThreadFacts, SoundStep
  <2> QED BY <2>5, <2>6
<1> QED BY <1>1, <1>2

\* A dispatch asks whether its run exists.
LEMMA CheckTypes ==
  ASSUME RuntimeAssumption, TypeInv, NEW t \in Thread, CheckRun(t)
  PROVE  ThreadsOK'
<1> DEFINE r == Cur(t).run
           found == IF At(t, "catch") THEN "failed" ELSE "dispatched"
           missing == CASE At(t, "dispatch")  -> "create"
                        [] At(t, "submitted") -> "admit"
                        [] At(t, "catch")     -> "fail"
<1>1. /\ thr[t].pc \in {"dispatch", "submitted", "catch"} /\ r # 0
      /\ IF RunExists(r) THEN Continue(t, Cur(t), found, runs[r])
                         ELSE Continue(t, Cur(t), missing, "none")
  BY DEF CheckRun, At
<1>2. r \in Token /\ r \in RunId
  BY <1>1, ThreadFacts DEF Sound, Token, RunId, RuntimeAssumption
<1>3. runs[r] \in RunStatus /\ "none" \in RunStatus /\ found \in Position /\ missing \in Position
  BY <1>1, <1>2 DEF TypeInv, AgentsOK, Position, Dispatching, RunStatus, At
<1>4. CASE RunExists(r)
  <2>1. Moved(t, found, thr[t].todo, Cur(t), runs[r], thr[t].from)
    BY <1>1, <1>3, <1>4, ThreadFacts, ContinueMoves
  <2>2. Sound(found, thr[t].todo, Cur(t), thr[t].from)
    BY <1>1, <1>2, ThreadFacts DEF Sound, PassOf, Passes, Dispatching, At
  <2> QED BY <2>1, <2>2, ThreadFacts, SoundStep
<1>5. CASE ~RunExists(r)
  <2>1. Moved(t, missing, thr[t].todo, Cur(t), "none", thr[t].from)
    BY <1>1, <1>3, <1>5, ThreadFacts, ContinueMoves
  <2>2. Sound(missing, thr[t].todo, Cur(t), thr[t].from)
    BY <1>1, <1>2, ThreadFacts DEF Sound, PassOf, Passes, Dispatching, At
  <2> QED BY <2>1, <2>2, ThreadFacts, SoundStep
<1> QED BY <1>4, <1>5

\* A tick ends, or its process does.
LEMMA EndTypes ==
  ASSUME RuntimeAssumption, TypeInv, NEW t \in Thread, thr' = [thr EXCEPT ![t] = Idle]
  PROVE  ThreadsOK'
<1>2. thr' \in [Thread -> ThreadType]
  BY IdleType, ThreadFacts
<1>3. Sound(Idle.pc, Idle.todo, Idle.cur, Idle.from)
  BY DEF Idle, Sound, PassOf, Passes, Dispatching
<1>4. ASSUME NEW u \in Thread PROVE Sound(thr'[u].pc, thr'[u].todo, thr'[u].cur, thr'[u].from)
  <2>1. CASE u = t
    BY <1>3, <2>1, ThreadFacts
  <2>2. CASE u # t
    BY <2>2, ThreadFacts DEF ThreadsOK, SoundThread
  <2> QED BY <2>1, <2>2
<1> QED BY <1>2, <1>4 DEF ThreadsOK, ThreadType, SoundThread, Sound, PassOf

\* What a dispatch does to agent control and to the external supervisor.
LEMMA DispatchTypes ==
  ASSUME RuntimeAssumption, TypeInv, NEW t \in Thread,
         DispatchUnnamed(t) \/ Create(t) \/ Execute(t) \/ Submit(t) \/ Admit(t) \/ Fail(t)
  PROVE  AgentsOK' /\ ThreadsOK'
<1>0. /\ runs \in [RunId -> RunStatus] /\ executions \in [Token -> Nat]
      /\ reports \in [Token -> {"none", "admitted"} \cup Terminal]
      /\ {"failed", "held", "running", "none"} \subseteq RunStatus
  BY DEF TypeInv, AgentsOK, RunStatus, Terminal
<1>1. CASE DispatchUnnamed(t)
  <2> DEFINE r == Stray(Cur(t).token)
             w == [Cur(t) EXCEPT !.run = r]
  <2>1. Cur(t).token \in Token /\ thr[t].pc = "dispatch" /\ Cur(t).run = 0
    BY <1>1, ThreadFacts DEF DispatchUnnamed, At, Sound
  <2>2. r \in RunId /\ r \in 0..(2 * MaxTokens)
    BY <2>1 DEF Stray, Token, RunId, RuntimeAssumption
  <2>3. w \in Views /\ w.run = r
    BY <2>2, ThreadFacts DEF Views
  <2>4. CASE runs' = [runs EXCEPT ![r] = "failed"] /\ Continue(t, w, "failed", "failed")
    <3>1. AgentsOK'
      BY <1>0, <1>1, <2>4 DEF DispatchUnnamed, AgentsOK
    <3>2. Moved(t, "failed", thr[t].todo, w, "failed", thr[t].from)
      BY <1>0, <2>3, <2>4, ThreadFacts, ContinueMoves DEF Position, Dispatching
    <3>3. Sound("failed", thr[t].todo, w, thr[t].from)
      BY <2>1, <2>2, <2>3, ThreadFacts DEF Sound, PassOf, Passes, Dispatching
    <3> QED BY <3>1, <3>2, <3>3, ThreadFacts, SoundStep
  <2>5. CASE UNCHANGED runs /\ Goto(t, "aborted")
    <3>1. AgentsOK'
      BY <1>0, <1>1, <2>5 DEF DispatchUnnamed, AgentsOK
    <3>2. Moved(t, "aborted", thr[t].todo, Cur(t), thr[t].seen, thr[t].from)
      BY <2>5, ThreadFacts, GotoMoves DEF Position
    <3>3. Sound("aborted", thr[t].todo, Cur(t), thr[t].from)
      BY <2>1, ThreadFacts DEF Sound, PassOf, Passes, Dispatching
    <3> QED BY <3>1, <3>2, <3>3, ThreadFacts, SoundStep
  <2> QED BY <1>1, <2>4, <2>5 DEF DispatchUnnamed
<1>2. CASE Create(t)
  <2>1. PICK pc \in {"execute", "catch"} : Goto(t, pc)
    BY <1>2 DEF Create
  <2>2. thr[t].pc = "create" /\ Cur(t).run \in Token
    BY <1>2, ThreadFacts DEF Create, At, Sound
  <2>3. AgentsOK'
    BY <1>0, <1>2 DEF Create, AgentsOK, agents
  <2>4. Moved(t, pc, thr[t].todo, Cur(t), thr[t].seen, thr[t].from)
    BY <2>1, ThreadFacts, GotoMoves DEF Position, Dispatching
  <2>5. Sound(pc, thr[t].todo, Cur(t), thr[t].from)
    BY <2>1, <2>2, ThreadFacts DEF Sound, PassOf, Passes, Dispatching
  <2> QED BY <2>3, <2>4, <2>5, ThreadFacts, SoundStep
<1>3. CASE Submit(t)
  <2>1. PICK pc \in {"submitted", "catch"} : Goto(t, pc)
    BY <1>3 DEF Submit
  <2>2. thr[t].pc = "dispatch" /\ Cur(t).run \in Token
    BY <1>3, ThreadFacts DEF Submit, At, Sound, Token, RuntimeAssumption
  <2>3. AgentsOK'
    BY <1>0, <1>3 DEF Submit, AgentsOK, agents
  <2>4. Moved(t, pc, thr[t].todo, Cur(t), thr[t].seen, thr[t].from)
    BY <2>1, ThreadFacts, GotoMoves DEF Position, Dispatching
  <2>5. Sound(pc, thr[t].todo, Cur(t), thr[t].from)
    BY <2>1, <2>2, ThreadFacts DEF Sound, PassOf, Passes, Dispatching
  <2> QED BY <2>3, <2>4, <2>5, ThreadFacts, SoundStep
<1>4. CASE Execute(t) \/ Admit(t) \/ Fail(t)
  <2>1. PICK rs \in RunStatus, pc \in {"dispatched", "failed"} :
          runs' = [runs EXCEPT ![Cur(t).run] = rs] /\ Continue(t, Cur(t), pc, rs)
    <3>1. CASE Execute(t)
      BY <3>1 DEF Execute, RuntimeAssumption, RunStatus, Terminal
    <3>2. CASE Admit(t)
      BY <1>0, <3>2 DEF Admit
    <3>3. CASE Fail(t)
      BY <1>0, <3>3 DEF Fail
    <3> QED BY <1>4, <3>1, <3>2, <3>3
  <2>2. thr[t].pc \in {"execute", "admit", "fail"} /\ Cur(t).run \in Token
    BY <1>4, ThreadFacts DEF Execute, Admit, Fail, At, Sound
  <2>3. Cur(t).run \in RunId
    BY <2>2 DEF Token, RunId, RuntimeAssumption
  <2>4. AgentsOK'
    BY <1>0, <1>4, <2>1 DEF Execute, Admit, Fail, AgentsOK
  <2>5. Moved(t, pc, thr[t].todo, Cur(t), rs, thr[t].from)
    BY <2>1, ThreadFacts, ContinueMoves DEF Position, Dispatching
  <2>6. Sound(pc, thr[t].todo, Cur(t), thr[t].from)
    BY <2>1, <2>2, <2>3, ThreadFacts DEF Sound, PassOf, Passes, Dispatching
  <2> QED BY <2>4, <2>5, <2>6, ThreadFacts, SoundStep
<1> QED BY <1>1, <1>2, <1>3, <1>4
\* What happens around the ticks.
LEMMA AroundTypes ==
  ASSUME RuntimeAssumption, TypeInv,
         \/ \E t \in Thread : Heartbeat(t) \/ Crash(t)
         \/ \E i \in Item : SourceEdit(i) \/ PutWorkItem(i) \/ RecordVerification(i) \/ CompleteWork(i)
         \/ \E d \in Token : Report(d)
         \/ TimePasses
  PROVE  TypeInv'
<1>1. ASSUME NEW t \in Thread, Heartbeat(t) PROVE TypeInv'
  <2>1. Cur(t).item \in Item /\ clock \in 0..MaxClock
    BY ThreadFacts DEF Views, TypeInv, WorldOK
  <2>2. items' \in [Item -> ItemType] /\ ItemsPlanned'
    BY <1>1, <2>1, RenewTypes DEF Heartbeat
  <2>3. LedgerOK'
    BY <1>1, <2>2 DEF Heartbeat, TypeInv, LedgerOK
  <2> QED BY <1>1, <2>3, Untouched DEF Heartbeat, TypeInv
<1>2. ASSUME NEW t \in Thread, Crash(t) PROVE TypeInv'
  <2>1. ThreadsOK'
    BY <1>2, EndTypes DEF Crash
  <2>2. WorldOK'
    BY <1>2 DEF Crash, TypeInv, WorldOK, RuntimeAssumption
  <2> QED BY <1>2, <2>1, <2>2, Untouched DEF Crash, TypeInv
<1>3. ASSUME NEW i \in Item, SourceEdit(i) PROVE TypeInv'
  <2>1. WorldOK'
    BY <1>3 DEF SourceEdit, TypeInv, WorldOK, RuntimeAssumption
  <2> QED BY <1>3, <2>1, Untouched DEF SourceEdit, TypeInv
<1>4. ASSUME NEW i \in Item, PutWorkItem(i) PROVE TypeInv'
  <2> DEFINE c == MaxEdits + puts + 1
  <2>1. c \in Content
    BY <1>4 DEF PutWorkItem, Content, TypeInv, WorldOK, RuntimeAssumption
  <2>2. items' = [items EXCEPT ![i] = NewItem(c)]
    BY <1>4 DEF PutWorkItem
  <2> HIDE DEF c
  <2>3. items' \in [Item -> ItemType] /\ ItemsPlanned'
    BY <2>1, <2>2, NewItemType, ItemFacts, ItemStep
  <2>4. LedgerOK'
    BY <1>4, <2>3 DEF PutWorkItem, TypeInv, LedgerOK
  <2>5. WorldOK'
    BY <1>4 DEF PutWorkItem, TypeInv, WorldOK, RuntimeAssumption
  <2> QED BY <1>4, <2>4, <2>5, Untouched DEF PutWorkItem, TypeInv
<1>5. ASSUME NEW i \in Item, RecordVerification(i) PROVE TypeInv'
  <2>1. items[i].run \in RunId /\ items[i].content \in Content
    BY <1>5, ItemFacts DEF RecordVerification, ItemType, RunId, RuntimeAssumption
  <2>2. LedgerOK'
    BY <1>5, <2>1 DEF RecordVerification, TypeInv, LedgerOK, ItemsPlanned
  <2> QED BY <1>5, <2>2, Untouched DEF RecordVerification, TypeInv
<1>6. ASSUME NEW i \in Item, CompleteWork(i) PROVE TypeInv'
  <2> DEFINE x == [items[i] EXCEPT !.status = "done"]
  <2>1. items' = [items EXCEPT ![i] = x]
    BY <1>6 DEF CompleteWork
  <2>2. x \in ItemType /\ (x.record.status = "planned" => x.record.run # 0)
    BY ItemFacts DEF ItemType, Status
  <2> HIDE DEF x
  <2>3. items' \in [Item -> ItemType] /\ ItemsPlanned'
    BY <2>1, <2>2, ItemFacts, ItemStep
  <2>4. LedgerOK'
    BY <1>6, <2>3 DEF CompleteWork, TypeInv, LedgerOK
  <2> QED BY <1>6, <2>4, Untouched DEF CompleteWork, TypeInv
<1>7. ASSUME NEW d \in Token, Report(d) PROVE TypeInv'
  <2>1. AgentsOK'
    BY <1>7 DEF Report, TypeInv, AgentsOK, agents, RuntimeAssumption, Terminal
  <2> QED BY <1>7, <2>1, Untouched DEF Report, TypeInv
<1>8. ASSUME TimePasses PROVE TypeInv'
  <2>1. WorldOK'
    BY <1>8 DEF TimePasses, TypeInv, WorldOK, RuntimeAssumption
  <2> QED BY <1>8, <2>1, Untouched DEF TimePasses, TypeInv
<1> QED BY <1>1, <1>2, <1>3, <1>4, <1>5, <1>6, <1>7, <1>8

\* Every step keeps the types.
LEMMA TypeStep ==
  ASSUME RuntimeAssumption, TypeInv, [Next]_vars
  PROVE  TypeInv'
<1>1. ASSUME NEW t \in Thread, Tick(t) PROVE TypeInv'
  <2>1. CASE StartTick(t)
    BY <2>1, StartTypes, Untouched DEF StartTick, TypeInv
  <2>2. CASE BeginRenew(t) \/ BeginRecover(t) \/ BeginSync(t) \/ BeginPlan(t)
    BY <2>2, ReadTypes, Untouched DEF BeginRenew, BeginRecover, BeginSync, BeginPlan, TypeInv
  <2>3. CASE Ingest(t)
    BY <2>3, IngestTypes, Untouched DEF Ingest, TypeInv
  <2>4. CASE Renew(t) \/ ReleaseExpired(t)
    BY <2>4, LeaseEndTypes, Untouched DEF Renew, ReleaseExpired, TypeInv
  <2>5. CASE Lease(t)
    BY <2>5, LeaseTypes, Untouched DEF Lease, TypeInv
  <2>6. CASE Prepare(t)
    BY <2>6, PrepareTypes, Untouched DEF Prepare, TypeInv
  <2>7. CASE FoldReceipt(t)
    BY <2>7, FoldTypes, Untouched DEF FoldReceipt, TypeInv
  <2>8. CASE Mark(t) \/ SetObserved(t)
    BY <2>8, MarkTypes, Untouched DEF Mark, SetObserved, TypeInv
  <2>9. CASE Recover(t) \/ Sync(t)
    BY <2>9, TakeTypes, Untouched DEF Recover, Sync, TypeInv
  <2>10. CASE CheckRun(t)
    BY <2>10, CheckTypes, Untouched DEF CheckRun, TypeInv
  <2>11. CASE FinishTick(t)
    BY <2>11, EndTypes, Untouched DEF FinishTick, TypeInv
  <2>12. CASE DispatchUnnamed(t) \/ Create(t) \/ Execute(t) \/ Submit(t) \/ Admit(t) \/ Fail(t)
    <3>1. UNCHANGED <<ledger, world>>
      BY <2>12 DEF DispatchUnnamed, Create, Execute, Submit, Admit, Fail
    <3> QED BY <2>12, <3>1, DispatchTypes, Untouched DEF TypeInv
  <2> QED BY <1>1, <2>1, <2>2, <2>3, <2>4, <2>5, <2>6, <2>7, <2>8, <2>9, <2>10, <2>11, <2>12 DEF Tick
<1>2. CASE UNCHANGED vars
  BY <1>2, Untouched DEF vars, TypeInv
<1> QED BY <1>1, <1>2, AroundTypes DEF Next

\* Initially the types hold.
LEMMA InitTypes == ASSUME RuntimeAssumption, Init PROVE TypeInv
<1>1. /\ 0 \in 0..MaxTokens /\ 0 \in 0..MaxEdits /\ 0 \in 0..MaxClock /\ 0 \in 0..MaxPuts
      /\ 0 \in 0..MaxCrashes /\ 0 \in Content /\ "none" \in RunStatus
  BY DEF RuntimeAssumption, Content, RunStatus
<1>2. NewItem(0) \in ItemType /\ NewItem(0).record.status = "none"
  BY <1>1, NewItemType
<1>3. LedgerOK
  BY <1>1, <1>2 DEF Init, LedgerOK, ItemsPlanned
<1>4. AgentsOK /\ WorldOK
  BY <1>1 DEF Init, AgentsOK, WorldOK
<1>5. Sound(Idle.pc, Idle.todo, Idle.cur, Idle.from)
  BY DEF Idle, Sound, PassOf, Passes, Dispatching
<1>6. ThreadsOK
  BY <1>5, IdleType DEF Init, ThreadsOK, SoundThread
<1> QED BY <1>3, <1>4, <1>6 DEF TypeInv

\* The types hold throughout.
LEMMA TypesInvariant == Spec => []TypeInv
<1>1. RuntimeAssumption
  BY RuntimeAssumption
<1>2. Init => TypeInv
  BY <1>1, InitTypes
<1>3. TypeInv /\ [Next]_vars => TypeInv'
  BY <1>1, TypeStep
<1> QED BY <1>2, <1>3, PTL DEF Spec

\* For any number of items, threads, crashes and edits, every variable has its
\* type: an exception of the transition table never becomes a status, and no
\* executor, supervisor or receipt is ever asked about a run without a name.
THEOREM TypeCorrect == Spec => []TypeOK
<1>1. TypeInv => TypeOK
  BY DEF TypeInv, LedgerOK, AgentsOK, WorldOK, ThreadsOK, ThreadType, TypeOK
<1> QED BY <1>1, TypesInvariant, PTL
-----------------------------------------------------------------------------
(***************************************************************************)
(* Leases and runs belong to one item each.  An assignment o of lease      *)
(* tokens to items explains every token and run that an item names and     *)
(* every one that a thread remembers: the fence that lease! counts up is   *)
(* what lets o be extended by a new lease.                                 *)
(***************************************************************************)

\* Token or run k, if any, was granted before fence f, to item i.
Names(o, f, k, i) == k # 0 => LeaseOf(k) <= f /\ o[LeaseOf(k)] = i

OwnedItem(o, f, i, it) ==
  /\ Names(o, f, it.lease.token, i)
  /\ Names(o, f, it.run, i)
  /\ Names(o, f, it.record.run, i)
OwnedView(o, f, v) == Names(o, f, v.token, v.item) /\ Names(o, f, v.run, v.item)

OwnedItems(o)   == \A i \in Item : OwnedItem(o, fencing, i, items[i])
OwnedThreads(o) == \A t \in Thread : \A v \in thr[t].todo \cup {Cur(t)} : OwnedView(o, fencing, v)
Owned(o)        == OwnedItems(o) /\ OwnedThreads(o)

OwnInv == TypeInv /\ \E o \in [Token -> Item] : Owned(o)

\* What thread t remembers after its step it remembered before, or is in new.
Remembers(t, new) ==
  /\ \A u \in Thread : u # t => thr'[u] = thr[u]
  /\ \A v \in thr'[t].todo \cup {thr'[t].cur} : v \in thr[t].todo \cup {Cur(t), NoView} \cup new

\* The ways to move a thread, by what it remembers afterwards.
LEMMA MoveRemembers ==
  ASSUME TypeInv, NEW t \in Thread
  PROVE  /\ \A pc : Goto(t, pc) => Remembers(t, {})
         /\ \A pc : Loop(t, pc) => Remembers(t, {})
         /\ \A v : Skip(t, v) => Remembers(t, {})
         /\ thr' = [thr EXCEPT ![t] = Idle] => Remembers(t, {})
         /\ \A pc, views : Read(t, pc, views) => Remembers(t, views)
         /\ \A w, pc, s : Continue(t, w, pc, s) => Remembers(t, {w})
         /\ \A v, w, pc, s : Take(t, v, w, pc, s) => Remembers(t, {w})
<1>1. thr \in [Thread -> ThreadType] /\ thr[t] \in ThreadType
  BY DEF TypeInv, ThreadsOK
<1>2. \A pc : Goto(t, pc) => Remembers(t, {})
  BY <1>1 DEF Goto, Remembers, Cur, ThreadType
<1>3. \A pc : Loop(t, pc) => Remembers(t, {})
  BY <1>1 DEF Loop, Idle, Remembers, Cur, ThreadType
<1>4. \A v : Skip(t, v) => Remembers(t, {})
  BY <1>1 DEF Skip, Remembers, Cur, ThreadType
<1>5. thr' = [thr EXCEPT ![t] = Idle] => Remembers(t, {})
  BY <1>1 DEF Idle, Remembers, Cur, ThreadType
<1>6. \A pc, views : Read(t, pc, views) => Remembers(t, views)
  BY <1>1 DEF Read, Remembers, Cur, ThreadType
<1>7. \A w, pc, s : Continue(t, w, pc, s) => Remembers(t, {w})
  BY <1>1 DEF Continue, Remembers, Cur, ThreadType
<1>8. \A v, w, pc, s : Take(t, v, w, pc, s) => Remembers(t, {w})
  BY <1>1 DEF Take, Remembers, Cur, ThreadType
<1> QED BY <1>2, <1>3, <1>4, <1>5, <1>6, <1>7, <1>8

\* Threads stay explained if what is new to them is, before the same fence.
LEMMA OwnedThreadStep ==
  ASSUME TypeInv, NEW o, OwnedThreads(o), fencing' = fencing, NEW t \in Thread, NEW new,
         Remembers(t, new), \A v \in new : OwnedView(o, fencing, v)
  PROVE  OwnedThreads(o)'
<1>1. OwnedView(o, fencing, NoView)
  BY DEF NoView, OwnedView, Names
<1>2. ASSUME NEW u \in Thread, NEW v \in thr'[u].todo \cup {thr'[u].cur}
      PROVE  OwnedView(o, fencing, v)
  <2>1. CASE u = t
    BY <1>1, <1>2, <2>1 DEF Remembers, OwnedThreads
  <2>2. CASE u # t
    BY <1>2, <2>2 DEF Remembers, OwnedThreads, Cur
  <2> QED BY <2>1, <2>2
<1> QED BY <1>2 DEF OwnedThreads, Cur, OwnedView, Names

\* Items stay explained if each names what it named, or nothing, or what is explained.
LEMMA OwnedItemStep ==
  ASSUME NEW o, fencing' = fencing, \A i \in Item : OwnedItem(o, fencing, i, items'[i])
  PROVE  OwnedItems(o)'
BY DEF OwnedItems, OwnedItem, Names

\* A fresh item names nothing.
LEMMA OwnedNew == ASSUME NEW o, NEW f, NEW i, NEW c PROVE OwnedItem(o, f, i, NewItem(c))
BY DEF OwnedItem, NewItem, NoLease, NoRecord, Names
\* Of one lease, the run and the run with an id of its own.
LEMMA LeaseOfRuns ==
  ASSUME RuntimeAssumption, NEW k \in Token
  PROVE  LeaseOf(k) = k /\ LeaseOf(Stray(k)) = k /\ Stray(k) \in RunId /\ k \in RunId /\ k # 0
BY DEF RuntimeAssumption, LeaseOf, Stray, Token, RunId

\* Every tick step but a new lease keeps what explains tokens and runs.
LEMMA OwnedTick ==
  ASSUME RuntimeAssumption, TypeInv, NEW o, Owned(o), NEW t \in Thread, Tick(t), ~Lease(t)
  PROVE  Owned(o)'
<1>1. OwnedItems(o) /\ OwnedThreads(o) /\ OwnedView(o, fencing, Cur(t)) /\ Cur(t).item \in Item
  BY ThreadFacts DEF Owned, OwnedThreads, Views
<1>2. \A v \in thr[t].todo : OwnedView(o, fencing, v) /\ v \in Views
  BY ThreadFacts DEF Owned, OwnedThreads
<1>i. ASSUME NEW i \in Item PROVE OwnedItem(o, fencing, i, items[i]) /\ items[i] \in ItemType
  BY <1>1, ItemFacts DEF OwnedItems
<1>f. items \in [Item -> ItemType]
  BY ItemFacts DEF TypeInv, LedgerOK
<1>3. CASE UNCHANGED <<items, fencing>> /\ Remembers(t, {})
  <2>1. OwnedItems(o)'
    BY <1>3, <1>i, OwnedItemStep
  <2> QED BY <1>1, <1>3, <2>1, OwnedThreadStep DEF Owned
<1>4. CASE StartTick(t)
  <2> DEFINE view(i) == [NoView EXCEPT !.item = i, !.basis = source[i]]
             cards == {view(i) : i \in {j \in Item : source[j] # bases[j]}}
  <2>1. thr' = [thr EXCEPT ![t] = [Idle EXCEPT !.pc = "sources", !.now = clock, !.todo = cards]]
    BY <1>4 DEF StartTick
  <2>2. \A i \in Item : OwnedView(o, fencing, view(i))
    BY DEF OwnedView, Names, NoView
  <2>3. \A v \in cards : OwnedView(o, fencing, v)
    BY <2>2
  <2> HIDE DEF cards
  <2>4. Remembers(t, cards)
    BY <2>1, ThreadFacts DEF Remembers, Idle
  <2>5. UNCHANGED <<items, fencing>>
    BY <1>4 DEF StartTick, ledger
  <2>6. OwnedItems(o)'
    BY <2>5, <1>i, OwnedItemStep
  <2> QED BY <1>1, <2>3, <2>4, <2>5, <2>6, OwnedThreadStep DEF Owned
<1>5. CASE BeginRenew(t) \/ BeginRecover(t) \/ BeginSync(t) \/ BeginPlan(t)
  <2>1. PICK pc, views : /\ Read(t, pc, views)
                         /\ \A v \in views : \E i \in Item :
                              /\ v.item = i
                              /\ v.token \in {0, items[i].lease.token}
                              /\ v.run \in {0, items[i].run, items[i].record.run}
    <3>1. CASE BeginRenew(t)
      <4> DEFINE views == {[NoView EXCEPT !.item = i, !.token = items[i].lease.token] :
                             i \in {j \in Item : /\ items[j].lease.token # 0
                                                 /\ items[j].run # 0
                                                 /\ runs[items[j].run] \in Active}}
      <4>1. Read(t, "renew", views)
        BY <3>1 DEF BeginRenew
      <4>2. ASSUME NEW v \in views
            PROVE  \E i \in Item : /\ v.item = i
                                   /\ v.token \in {0, items[i].lease.token}
                                   /\ v.run \in {0, items[i].run, items[i].record.run}
        BY DEF NoView
      <4> QED BY <4>1, <4>2
    <3>2. CASE BeginRecover(t)
      <4> DEFINE views == {[NoView EXCEPT !.item = i, !.token = items[i].lease.token,
                                          !.run = items[i].record.run, !.id = items[i].record.id] :
                             i \in {j \in Item : /\ items[j].record.status = "planned"
                                                 /\ items[j].status \in {"leased", "running"}}}
      <4>1. Read(t, "recover", views)
        BY <3>2 DEF BeginRecover
      <4>2. ASSUME NEW v \in views
            PROVE  \E i \in Item : /\ v.item = i
                                   /\ v.token \in {0, items[i].lease.token}
                                   /\ v.run \in {0, items[i].run, items[i].record.run}
        BY DEF NoView
      <4> QED BY <4>1, <4>2
    <3>3. CASE BeginSync(t)
      <4> DEFINE views == {[NoView EXCEPT !.item = i, !.run = items[i].run, !.obs = items[i].obs,
                                          !.id = items[i].record.id] :
                             i \in {j \in Item : items[j].run # 0}}
      <4>1. Read(t, "sync", views)
        BY <3>3 DEF BeginSync
      <4>2. ASSUME NEW v \in views
            PROVE  \E i \in Item : /\ v.item = i
                                   /\ v.token \in {0, items[i].lease.token}
                                   /\ v.run \in {0, items[i].run, items[i].record.run}
        BY DEF NoView
      <4> QED BY <4>1, <4>2
    <3>4. CASE BeginPlan(t)
      <4> DEFINE views == {[NoView EXCEPT !.item = i, !.content = items[i].content,
                                          !.basis = bases[i]] :
                             i \in {j \in Item : Plannable(j)}}
      <4>1. Read(t, "plan", views)
        BY <3>4 DEF BeginPlan
      <4>2. ASSUME NEW v \in views
            PROVE  \E i \in Item : /\ v.item = i
                                   /\ v.token \in {0, items[i].lease.token}
                                   /\ v.run \in {0, items[i].run, items[i].record.run}
        BY DEF NoView
      <4> QED BY <4>1, <4>2
    <3> QED BY <1>5, <3>1, <3>2, <3>3, <3>4
  <2>2. ASSUME NEW v \in views PROVE OwnedView(o, fencing, v)
    BY <1>i, <2>1 DEF OwnedItem, OwnedView, Names
  <2>3. Remembers(t, views)
    BY <2>1, MoveRemembers
  <2>4. UNCHANGED <<items, fencing>>
    BY <1>5 DEF BeginRenew, BeginRecover, BeginSync, BeginPlan, ledger
  <2>5. OwnedItems(o)'
    BY <2>4, <1>i, OwnedItemStep
  <2> QED BY <1>1, <2>2, <2>3, <2>4, <2>5, OwnedThreadStep DEF Owned
<1>6. CASE Ingest(t)
  <2>1. PICK v \in thr[t].todo :
          /\ items' = items \/ items' = [items EXCEPT ![v.item] = NewItem(v.basis)]
          /\ Skip(t, v)
    BY <1>6 DEF Ingest
  <2>2. \A i \in Item : OwnedItem(o, fencing, i, items'[i])
    BY <1>i, <1>f, <2>1, OwnedNew
  <2>3. fencing' = fencing /\ Remembers(t, {})
    BY <1>6, <2>1, MoveRemembers DEF Ingest
  <2> QED BY <1>1, <2>2, <2>3, OwnedItemStep, OwnedThreadStep DEF Owned
<1>7. CASE Renew(t)
  <2>1. PICK v \in thr[t].todo : RenewLease(v.item, v.token, thr[t].now) /\ Skip(t, v)
    BY <1>7 DEF Renew
  <2>2. ASSUME NEW i \in Item PROVE OwnedItem(o, fencing, i, items'[i])
    <3>1. /\ items'[i].lease.token = items[i].lease.token
          /\ items'[i].run = items[i].run /\ items'[i].record = items[i].record
      BY <1>i, <1>f, <2>1 DEF RenewLease, ItemType
    <3> QED BY <1>i, <3>1 DEF OwnedItem
  <2>3. fencing' = fencing /\ Remembers(t, {})
    BY <1>7, <2>1, MoveRemembers DEF Renew
  <2> QED BY <1>1, <2>2, <2>3, OwnedItemStep, OwnedThreadStep DEF Owned
<1>8. CASE ReleaseExpired(t)
  <2>1. ASSUME NEW i \in Item PROVE OwnedItem(o, fencing, i, items'[i])
    <3>1. items'[i] = Released(items[i], thr[t].now)
      BY <1>8 DEF ReleaseExpired
    <3>2. /\ items'[i].lease.token \in {0, items[i].lease.token}
          /\ items'[i].run \in {0, items[i].run}
          /\ items'[i].record.run \in {0, items[i].record.run}
      BY <1>i, <3>1 DEF Released, NoLease, NoRecord, ItemType
    <3> QED BY <1>i, <3>2 DEF OwnedItem, Names
  <2>2. fencing' = fencing /\ Remembers(t, {})
    BY <1>8, MoveRemembers DEF ReleaseExpired
  <2> QED BY <1>1, <2>1, <2>2, OwnedItemStep, OwnedThreadStep DEF Owned
<1>9. CASE Recover(t) \/ Sync(t)
  <2>1. PICK v \in thr[t].todo : Skip(t, v) \/ \E pc, s : Take(t, v, v, pc, s)
    BY <1>9 DEF Recover, Sync
  <2>2. UNCHANGED <<items, fencing>> /\ Remembers(t, {v})
    BY <1>9, <2>1, MoveRemembers DEF Recover, Sync, ledger, Remembers
  <2>3. OwnedItems(o)'
    BY <2>2, <1>i, OwnedItemStep
  <2> QED BY <1>1, <1>2, <2>2, <2>3, OwnedThreadStep DEF Owned
<1>10. CASE Prepare(t)
  <2> DEFINE i == Cur(t).item
             old == items[i].record
             record == IF old = NoRecord
                       THEN [id |-> Cur(t).token, run |-> Cur(t).token, status |-> "planned"]
                       ELSE old
             w == [Cur(t) EXCEPT !.run = record.run, !.id = record.id]
  <2>1. fencing' = fencing
    BY <1>10 DEF Prepare
  <2>2. Cur(t).token \in Token
    BY <1>10, ThreadFacts DEF Prepare, At, Sound
  <2>3. Names(o, fencing, record.run, i)
    BY <1>1, <1>i DEF OwnedView, OwnedItem
  <2>4. \/ items' = items /\ Loop(t, "plan")
        \/ /\ items' = [items EXCEPT ![i].run = record.run, ![i].record = record]
           /\ Continue(t, w, "dispatch", "none")
    BY <1>10 DEF Prepare
  <2> HIDE DEF record
  <2>5. CASE items' = items /\ Loop(t, "plan")
    BY <1>3, <2>1, <2>5, MoveRemembers
  <2>6. CASE /\ items' = [items EXCEPT ![i].run = record.run, ![i].record = record]
             /\ Continue(t, w, "dispatch", "none")
    <3>1. ASSUME NEW j \in Item PROVE OwnedItem(o, fencing, j, items'[j])
      <4>1. CASE j # i
        BY <1>i, <1>f, <2>6, <4>1
      <4>2. CASE j = i
        <5>1. /\ items'[j].lease = items[j].lease /\ items'[j].run = record.run
              /\ items'[j].record = record
          BY <1>i, <1>f, <2>6, <4>2 DEF ItemType
        <5> QED BY <1>i, <2>3, <4>2, <5>1 DEF OwnedItem
      <4> QED BY <4>1, <4>2
    <3>2. w.item = i /\ w.token = Cur(t).token /\ w.run = record.run
      BY ThreadFacts DEF Views
    <3>3. OwnedView(o, fencing, w)
      BY <1>1, <2>3, <3>2 DEF OwnedView
    <3>4. Remembers(t, {w})
      BY <2>6, MoveRemembers
    <3> QED BY <1>1, <2>1, <3>1, <3>3, <3>4, OwnedItemStep, OwnedThreadStep DEF Owned
  <2> QED BY <2>4, <2>5, <2>6
<1>11. CASE CheckRun(t) \/ Create(t) \/ Execute(t) \/ Submit(t) \/ Admit(t) \/ Fail(t) \/ FinishTick(t)
  <2>1. UNCHANGED <<items, fencing>>
    BY <1>11 DEF CheckRun, Create, Execute, Submit, Admit, Fail, FinishTick, ledger
  <2>2. \/ \E pc, s : Continue(t, Cur(t), pc, s)
        \/ \E pc : Goto(t, pc)
        \/ thr' = [thr EXCEPT ![t] = Idle]
    BY <1>11 DEF CheckRun, Create, Execute, Submit, Admit, Fail, FinishTick
  <2>3. Remembers(t, {Cur(t)})
    BY <2>2, MoveRemembers DEF Remembers
  <2>4. OwnedItems(o)'
    BY <2>1, <1>i, OwnedItemStep
  <2> QED BY <1>1, <2>1, <2>3, <2>4, OwnedThreadStep DEF Owned
<1>12. CASE DispatchUnnamed(t)
  <2> DEFINE w == [Cur(t) EXCEPT !.run = Stray(Cur(t).token)]
  <2>1. UNCHANGED <<items, fencing>>
    BY <1>12 DEF DispatchUnnamed, ledger
  <2>2. Cur(t).token \in Token
    BY <1>12, ThreadFacts DEF DispatchUnnamed, At, Sound
  <2>3. w.item = Cur(t).item /\ w.token = Cur(t).token /\ w.run = Stray(Cur(t).token)
    BY ThreadFacts DEF Views
  <2>4. OwnedView(o, fencing, w)
    BY <1>1, <2>2, <2>3, LeaseOfRuns DEF OwnedView, Names
  <2>5. Continue(t, w, "failed", "failed") \/ Goto(t, "aborted")
    BY <1>12 DEF DispatchUnnamed
  <2> HIDE DEF w
  <2>6. Remembers(t, {w})
    BY <2>5, MoveRemembers DEF Remembers
  <2>7. OwnedItems(o)'
    BY <2>1, <1>i, OwnedItemStep
  <2> QED BY <1>1, <2>1, <2>4, <2>6, <2>7, OwnedThreadStep DEF Owned
<1>13. CASE FoldReceipt(t)
  <2>1. /\ fencing' = fencing /\ \E pc : Goto(t, pc)
        /\ \/ items' = items
           \/ \E st : items' = [items EXCEPT ![Cur(t).item].status = st, ![Cur(t).item].run = Cur(t).run]
    BY <1>13 DEF FoldReceipt, ApplyRunReceipt
  <2>2. ASSUME NEW j \in Item PROVE OwnedItem(o, fencing, j, items'[j])
    <3>1. /\ items'[j].lease = items[j].lease /\ items'[j].record = items[j].record
          /\ items'[j].run = items[j].run \/ (j = Cur(t).item /\ items'[j].run = Cur(t).run)
      <4>1. CASE items' = items
        BY <4>1
      <4>2. ASSUME NEW st, items' = [items EXCEPT ![Cur(t).item].status = st,
                                                  ![Cur(t).item].run = Cur(t).run]
            PROVE  /\ items'[j].lease = items[j].lease /\ items'[j].record = items[j].record
                   /\ \/ items'[j].run = items[j].run
                      \/ j = Cur(t).item /\ items'[j].run = Cur(t).run
        BY <1>i, <1>f, <1>1, <4>2 DEF ItemType
      <4> QED BY <2>1, <4>1, <4>2
    <3> QED BY <1>1, <1>i, <3>1 DEF OwnedItem, OwnedView
  <2>3. Remembers(t, {})
    BY <2>1, MoveRemembers
  <2> QED BY <1>1, <2>1, <2>2, <2>3, OwnedItemStep, OwnedThreadStep DEF Owned
<1>14. CASE Mark(t) \/ SetObserved(t)
  <2>1. /\ fencing' = fencing
        /\ (\E pc : Goto(t, pc)) \/ (\E pc : Loop(t, pc))
        /\ \/ items' = [items EXCEPT ![Cur(t).item].record.status = "observed"]
           \/ items' = [items EXCEPT ![Cur(t).item].obs = thr[t].seen]
    BY <1>14 DEF Mark, SetObserved
  <2>2. ASSUME NEW j \in Item PROVE OwnedItem(o, fencing, j, items'[j])
    <3>1. /\ items'[j].lease = items[j].lease /\ items'[j].run = items[j].run
          /\ items'[j].record.run = items[j].record.run
      BY <1>i, <1>f, <2>1 DEF ItemType
    <3> QED BY <1>i, <3>1 DEF OwnedItem
  <2>3. Remembers(t, {})
    BY <2>1, MoveRemembers
  <2> QED BY <1>1, <2>1, <2>2, <2>3, OwnedItemStep, OwnedThreadStep DEF Owned
<1> QED BY <1>4, <1>5, <1>6, <1>7, <1>8, <1>9, <1>10, <1>11, <1>12, <1>13, <1>14 DEF Tick
\* A new lease: the assignment is extended by its token, which no item or thread names yet.
LEMMA OwnedLease ==
  ASSUME RuntimeAssumption, TypeInv, NEW o \in [Token -> Item], Owned(o), NEW t \in Thread, Lease(t)
  PROVE  \E p \in [Token -> Item] : Owned(p)'
<1>1. PICK v \in thr[t].todo :
        IF LeaseGranted(v, thr[t].now)
        THEN /\ fencing < MaxTokens
             /\ fencing' = NextToken(v.item)
             /\ items' = [items EXCEPT ![v.item].status = "leased",
                            ![v.item].lease = [token |-> NextToken(v.item), content |-> v.content,
                                               exp |-> thr[t].now + LeaseMs]]
             /\ Take(t, v, [NoView EXCEPT !.item = v.item, !.token = NextToken(v.item)],
                     "prepare", "none")
        ELSE /\ UNCHANGED <<items, fencing>>
             /\ Skip(t, v)
  BY DEF Lease
<1>i. ASSUME NEW i \in Item
      PROVE  /\ OwnedItem(o, fencing, i, items[i]) /\ items[i] \in ItemType
             /\ items \in [Item -> ItemType]
  BY ItemFacts DEF Owned, OwnedItems
<1>2. CASE ~LeaseGranted(v, thr[t].now)
  <2>1. UNCHANGED <<items, fencing>> /\ Remembers(t, {})
    BY <1>1, <1>2, MoveRemembers
  <2>2. OwnedItems(o)'
    BY <1>i, <2>1, OwnedItemStep
  <2> QED BY <2>1, <2>2, OwnedThreadStep DEF Owned
<1>3. CASE LeaseGranted(v, thr[t].now)
  <2>0. PICK k : k = fencing + 1
    OBVIOUS
  <2> DEFINE l == [token |-> k, content |-> v.content, exp |-> thr[t].now + LeaseMs]
             w == [NoView EXCEPT !.item = v.item, !.token = k]
             p == [o EXCEPT ![k] = v.item]
  <2>1. /\ k \in Token /\ LeaseOf(k) = k /\ fencing \in Nat /\ fencing' = k
        /\ v.item \in Item
    <3>1. fencing \in 0..MaxTokens /\ fencing < MaxTokens /\ MaxTokens \in Nat
      BY <1>1, <1>3 DEF TypeInv, LedgerOK, RuntimeAssumption
    <3>2. k \in Token /\ fencing \in Nat
      BY <2>0, <3>1 DEF Token
    <3>3. v.item \in Item
      BY ThreadFacts DEF Views
    <3> QED BY <1>1, <1>3, <2>0, <3>2, <3>3, LeaseOfRuns DEF NextToken
  <2>2. p \in [Token -> Item] /\ p[k] = v.item
    BY <2>1
  <2>3. ASSUME NEW i, NEW r, r = 0 \/ LeaseOf(r) \in Token, Names(o, fencing, r, i)
        PROVE  Names(p, k, r, i)
    <3>1. CASE r = 0
      BY <3>1 DEF Names
    <3>2. CASE r # 0
      <4>1. LeaseOf(r) <= fencing /\ o[LeaseOf(r)] = i /\ LeaseOf(r) \in Token
        BY <2>3, <3>2 DEF Names
      <4>2. LeaseOf(r) <= k /\ LeaseOf(r) # k
        BY <2>0, <2>1, <4>1 DEF Token
      <4> QED BY <4>1, <4>2 DEF Names
    <3> QED BY <3>1, <3>2
  <2>4. ASSUME NEW r \in 0..(2 * MaxTokens) PROVE r = 0 \/ LeaseOf(r) \in Token
    BY DEF LeaseOf, Token, RuntimeAssumption
  <2>5. 0..MaxTokens \subseteq 0..(2 * MaxTokens)
    BY DEF RuntimeAssumption
  <2>6. /\ items' = [items EXCEPT ![v.item].status = "leased", ![v.item].lease = l]
        /\ Take(t, v, w, "prepare", "none")
    BY <1>1, <1>3, <2>0 DEF NextToken
  <2>7. w.token = k /\ w.run = 0 /\ w.item = v.item /\ l.token = k
    BY DEF NoView
  <2> HIDE DEF p, l, w
  <2>8. ASSUME NEW i \in Item PROVE OwnedItem(p, k, i, items'[i])
    <3>1. /\ items[i].lease.token \in 0..(2 * MaxTokens) /\ items[i].run \in 0..(2 * MaxTokens)
          /\ items[i].record.run \in 0..(2 * MaxTokens)
      <4>1. items[i].lease.token \in 0..MaxTokens /\ items[i].record.run \in 0..MaxTokens
        BY <1>i DEF ItemType
      <4>2. items[i].run \in 0..(2 * MaxTokens)
        BY <1>i DEF ItemType
      <4> QED BY <2>5, <4>1, <4>2
    <3>2. OwnedItem(p, k, i, items[i])
      BY <1>i, <2>3, <2>4, <3>1 DEF OwnedItem
    <3>3. /\ items'[i].run = items[i].run /\ items'[i].record = items[i].record
          /\ items'[i].lease = IF i = v.item THEN l ELSE items[i].lease
      BY <1>i, <2>6 DEF ItemType
    <3>4. Names(p, k, k, v.item)
      BY <2>1, <2>2 DEF Names, Token
    <3> QED BY <2>7, <3>2, <3>3, <3>4 DEF OwnedItem
  <2>9. Remembers(t, {w})
    BY <2>6, MoveRemembers
  <2>10. ASSUME NEW u \in Thread, NEW x \in thr[u].todo \cup {Cur(u)} PROVE OwnedView(p, k, x)
    <3>1. x.token \in 0..MaxTokens /\ x.run \in 0..(2 * MaxTokens) /\ OwnedView(o, fencing, x)
      BY ThreadFacts DEF Views, Owned, OwnedThreads
    <3> QED BY <2>3, <2>4, <2>5, <3>1 DEF OwnedView
  <2>11. OwnedView(p, k, w) /\ OwnedView(p, k, NoView)
    BY <2>1, <2>2, <2>7 DEF OwnedView, Names, NoView, Token
  <2>12. ASSUME NEW u \in Thread, NEW x \in thr'[u].todo \cup {thr'[u].cur}
         PROVE  OwnedView(p, k, x)
    <3>1. CASE u = t
      BY <2>9, <2>10, <2>11, <2>12, <3>1 DEF Remembers
    <3>2. CASE u # t
      BY <2>9, <2>10, <2>12, <3>2 DEF Remembers, Cur
    <3> QED BY <3>1, <3>2
  <2>13. OwnedItems(p)'
    BY <2>1, <2>8 DEF OwnedItems, OwnedItem, Names
  <2>14. OwnedThreads(p)'
    BY <2>1, <2>12 DEF OwnedThreads, Cur, OwnedView, Names
  <2> QED BY <2>2, <2>13, <2>14 DEF Owned
<1> QED BY <1>2, <1>3

\* Every step keeps an assignment, or a lease extends it.
LEMMA OwnedStep ==
  ASSUME RuntimeAssumption, OwnInv, [Next]_vars
  PROVE  OwnInv'
<1>1. TypeInv /\ TypeInv'
  BY TypeStep DEF OwnInv
<1>2. PICK o \in [Token -> Item] : Owned(o)
  BY DEF OwnInv
<1>3. ASSUME NEW t \in Thread, Tick(t) PROVE \E p \in [Token -> Item] : Owned(p)'
  <2>1. CASE Lease(t)
    BY <1>1, <1>2, <2>1, OwnedLease
  <2>2. CASE ~Lease(t)
    <3>1. Owned(o)'
      BY <1>1, <1>2, <1>3, <2>2, OwnedTick
    <3> QED BY <3>1
  <2> QED BY <2>1, <2>2
<1>4. ASSUME NEW t \in Thread, Heartbeat(t) \/ Crash(t) PROVE Owned(o)'
  <2>1. ASSUME NEW i \in Item PROVE OwnedItem(o, fencing, i, items'[i])
    <3>1. /\ items'[i].lease.token = items[i].lease.token
          /\ items'[i].run = items[i].run /\ items'[i].record = items[i].record
      BY <1>1, <1>4, ItemFacts DEF Heartbeat, Crash, RenewLease, ItemType, ledger
    <3>2. OwnedItem(o, fencing, i, items[i])
      BY <1>2 DEF Owned, OwnedItems
    <3> QED BY <3>1, <3>2 DEF OwnedItem
  <2>2. fencing' = fencing /\ Remembers(t, {})
    BY <1>1, <1>4, MoveRemembers DEF Heartbeat, Crash, ledger, Remembers, Cur
  <2> QED BY <1>1, <1>2, <2>1, <2>2, OwnedItemStep, OwnedThreadStep DEF Owned
<1>5. ASSUME NEW i \in Item, PutWorkItem(i) \/ CompleteWork(i) PROVE Owned(o)'
  <2>1. ASSUME NEW j \in Item PROVE OwnedItem(o, fencing, j, items'[j])
    <3>1. OwnedItem(o, fencing, j, items[j]) /\ items[j] \in ItemType /\ items \in [Item -> ItemType]
      BY <1>1, <1>2, ItemFacts DEF Owned, OwnedItems
    <3>2. CASE PutWorkItem(i)
      BY <3>1, <3>2, OwnedNew DEF PutWorkItem
    <3>3. CASE CompleteWork(i)
      <4>1. /\ items'[j].lease = items[j].lease
            /\ items'[j].run = items[j].run /\ items'[j].record = items[j].record
        BY <3>1, <3>3 DEF CompleteWork, ItemType
      <4> QED BY <3>1, <4>1 DEF OwnedItem
    <3> QED BY <1>5, <3>2, <3>3
  <2>2. UNCHANGED <<fencing, thr>>
    BY <1>5 DEF PutWorkItem, CompleteWork
  <2>3. OwnedItems(o)'
    BY <2>1, <2>2, OwnedItemStep
  <2>4. OwnedThreads(o)'
    BY <1>2, <2>2 DEF Owned, OwnedThreads, OwnedView, Names, Cur
  <2> QED BY <2>3, <2>4 DEF Owned
<1>6. ASSUME \/ \E i \in Item : SourceEdit(i) \/ RecordVerification(i)
             \/ \E d \in Token : Report(d)
             \/ TimePasses
             \/ UNCHANGED vars
      PROVE  Owned(o)'
  <2>1. UNCHANGED <<items, fencing, thr>>
    BY <1>6 DEF SourceEdit, RecordVerification, Report, TimePasses, vars, ledger
  <2> QED BY <1>2, <2>1 DEF Owned, OwnedItems, OwnedThreads, OwnedItem, OwnedView, Names, Cur
<1>7. \E p \in [Token -> Item] : Owned(p)'
  BY <1>2, <1>3, <1>4, <1>5, <1>6 DEF Next
<1> QED BY <1>1, <1>7 DEF OwnInv

\* Initially nothing is granted.
LEMMA OwnedInit == ASSUME RuntimeAssumption, Init PROVE OwnInv
<1> DEFINE o == [k \in Token |-> CHOOSE i \in Item : TRUE]
<1>1. o \in [Token -> Item]
  BY DEF RuntimeAssumption
<1> HIDE DEF o
<1>2. OwnedItems(o)
  BY OwnedNew DEF Init, OwnedItems
<1>3. OwnedView(o, fencing, NoView)
  BY DEF OwnedView, Names, NoView
<1>4. \A t \in Thread : thr[t].todo = {} /\ Cur(t) = NoView
  BY DEF Init, Idle, Cur
<1>5. OwnedThreads(o)
  BY <1>3, <1>4 DEF OwnedThreads
<1> QED BY <1>1, <1>2, <1>5, InitTypes DEF OwnInv, Owned

\* For any number of items and threads, however their ticks interleave and die: no
\* two items hold the same lease or are linked to the same AgentRun (the fencing
\* sequence of lease!, prepare-dispatch!).
THEOREM LeasesBelongToOne == Spec => []LeasesUnique
<1>1. RuntimeAssumption
  BY RuntimeAssumption
<1>2. Init => OwnInv
  BY <1>1, OwnedInit
<1>3. OwnInv /\ [Next]_vars => OwnInv'
  BY <1>1, OwnedStep
<1>4. OwnInv => LeasesUnique
  <2> SUFFICES ASSUME NEW o \in [Token -> Item], Owned(o), NEW i \in Item, NEW j \in Item, i # j
               PROVE  /\ items[i].lease.token # 0 => items[i].lease.token # items[j].lease.token
                      /\ items[i].run # 0 => items[i].run # items[j].run
    BY DEF OwnInv, LeasesUnique
  <2> QED BY DEF Owned, OwnedItems, OwnedItem, Names
<1> QED BY <1>2, <1>3, <1>4, PTL DEF Spec

-----------------------------------------------------------------------------
(***************************************************************************)
(* Second part: the content and the expiry of a lease.                     *)
(***************************************************************************)
IsItem(x) ==
  DOMAIN x = {"status", "content", "lease", "run", "record", "obs", "recovery"}
IsLease(l) == DOMAIN l = {"token", "exp", "content"} /\ l.exp \in Nat
IsThread(x) == DOMAIN x = {"pc", "now", "todo", "cur", "seen", "from"}

ItemsOK ==
  /\ DOMAIN items = Item
  /\ \A i \in Item : IsItem(items[i]) /\ IsLease(items[i].lease)

\* No tick works with a time that is still to come.
TimeOK ==
  /\ clock \in Nat
  /\ DOMAIN thr = Thread
  /\ \A t \in Thread : IsThread(thr[t]) /\ thr[t].now \in Nat /\ thr[t].now <= clock

IInv == ItemsOK /\ TimeOK /\ LeasedContentFixed

-----------------------------------------------------------------------------
(***************************************************************************)
(* What a step may do to the lease of one item.                            *)
(***************************************************************************)
Kept(i) == items'[i].lease = items[i].lease /\ items'[i].content = items[i].content
Lapsed(i) == items[i].lease.token = 0 \/ items[i].lease.exp <= clock
Renewed(i) ==
  /\ items'[i].content = items[i].content
  /\ items'[i].lease.token = items[i].lease.token
  /\ items'[i].lease.content = items[i].lease.content
Dropped(i) == items'[i].lease = NoLease /\ (Lapsed(i) \/ puts' # puts)
Granted(i) == Lapsed(i) /\ items'[i].lease.content = items'[i].content

LeaseStep ==
  /\ ItemsOK'
  /\ \A i \in Item : Kept(i) \/ Renewed(i) \/ Dropped(i) \/ Granted(i)

\* A step that leaves the items alone is a lease step.
LEMMA SameItems == ASSUME ItemsOK, UNCHANGED items PROVE LeaseStep
BY DEF LeaseStep, ItemsOK, Kept

\* So is one that touches other fields of one item than its lease and content.
LEMMA OtherFields ==
  ASSUME ItemsOK, NEW x, NEW y,
         \/ items' = [items EXCEPT ![x].status = y]
         \/ items' = [items EXCEPT ![x].obs = y]
         \/ items' = [items EXCEPT ![x].record.status = y]
         \/ \E z : items' = [items EXCEPT ![x].status = y, ![x].run = z]
         \/ \E z : items' = [items EXCEPT ![x].run = y, ![x].record = z]
  PROVE  LeaseStep
<1>1. \A i \in Item : IsItem(items'[i]) /\ items'[i].lease = items[i].lease
                      /\ items'[i].content = items[i].content
  BY DEF ItemsOK, IsItem
<1>2. DOMAIN items' = Item
  BY DEF ItemsOK
<1> QED BY <1>1, <1>2 DEF LeaseStep, ItemsOK, Kept

\* Overwriting an item takes its lease away: legal if it has none, or for put.
LEMMA Overwritten ==
  ASSUME ItemsOK, NEW x, NEW c, items' = [items EXCEPT ![x] = NewItem(c)],
         x \in Item => items[x].lease.token = 0 \/ puts' # puts
  PROVE  LeaseStep
<1>1. IsItem(NewItem(c)) /\ NewItem(c).lease = NoLease /\ IsLease(NoLease)
  BY DEF NewItem, IsItem, IsLease, NoLease
<1>2. DOMAIN items' = Item
  BY DEF ItemsOK
<1>3. \A i \in Item : IsItem(items'[i]) /\ IsLease(items'[i].lease)
  BY <1>1 DEF ItemsOK
<1>4. \A i \in Item : Kept(i) \/ Dropped(i)
  BY <1>1 DEF ItemsOK, Kept, Dropped, Lapsed
<1> QED BY <1>2, <1>3, <1>4 DEF LeaseStep, ItemsOK

\* renew-lease! changes the end of a lease and nothing else.
LEMMA RenewalStep ==
  ASSUME RuntimeAssumption, ItemsOK, NEW x, NEW k, NEW now \in Nat, RenewLease(x, k, now)
  PROVE  LeaseStep
<1>1. CASE items' = items
  BY <1>1 DEF LeaseStep, ItemsOK, Kept
<1>2. CASE items' = [items EXCEPT ![x].lease.exp = now + LeaseMs]
  <2>1. now + LeaseMs \in Nat
    BY DEF RuntimeAssumption
  <2>2. ASSUME NEW i \in Item, i = x
        PROVE  IsItem(items'[i]) /\ IsLease(items'[i].lease) /\ Renewed(i)
    <3> DEFINE l == [items[i].lease EXCEPT !.exp = now + LeaseMs]
    <3>1. items'[i] = [items[i] EXCEPT !.lease = l]
      BY <1>2, <2>2 DEF ItemsOK
    <3>2. l.token = items[i].lease.token /\ l.content = items[i].lease.content /\ IsLease(l)
      BY <2>1 DEF ItemsOK, IsLease
    <3> HIDE DEF l
    <3>3. /\ IsItem(items'[i]) /\ items'[i].lease = l
          /\ items'[i].content = items[i].content
      BY <3>1 DEF ItemsOK, IsItem
    <3> QED BY <3>2, <3>3 DEF Renewed
  <2>3. ASSUME NEW i \in Item, i # x
        PROVE  IsItem(items'[i]) /\ IsLease(items'[i].lease) /\ Renewed(i)
    <3>1. items'[i] = items[i]
      BY <1>2, <2>3 DEF ItemsOK
    <3> QED BY <3>1 DEF ItemsOK, Renewed
  <2>4. DOMAIN items' = Item
    BY <1>2 DEF ItemsOK
  <2> QED BY <2>2, <2>3, <2>4 DEF LeaseStep, ItemsOK
<1> QED BY <1>1, <1>2 DEF RenewLease

\* release-expired-leases! drops leases that have lapsed at a time that has come.
LEMMA ReleaseStep ==
  ASSUME ItemsOK, TimeOK, NEW t \in Thread, ReleaseExpired(t)
  PROVE  LeaseStep
<1> DEFINE now == thr[t].now
<1>1. now \in Nat /\ now <= clock /\ clock \in Nat
  BY DEF TimeOK
<1>2. ASSUME NEW i \in Item
      PROVE  /\ IsItem(items'[i]) /\ IsLease(items'[i].lease)
             /\ Kept(i) \/ Dropped(i)
  <2>1. items'[i] = Released(items[i], now)
    BY DEF ReleaseExpired
  <2>2. IsItem(items[i]) /\ IsLease(items[i].lease)
    BY DEF ItemsOK
  <2>0. IsLease(NoLease)
    BY DEF IsLease, NoLease
  <2>3. CASE items[i].lease.token = 0 \/ Live(items[i].lease, now)
    BY <2>1, <2>2, <2>3 DEF Released, Kept
  <2>4. CASE ~(items[i].lease.token = 0 \/ Live(items[i].lease, now))
    <3>1. items[i].lease.exp <= clock
      BY <1>1, <2>2, <2>4 DEF Live, IsLease
    <3>2. CASE items[i].status = "leased"
      BY <2>0, <2>1, <2>2, <2>4, <3>1, <3>2 DEF Released, IsItem, Dropped, Lapsed
    <3>3. CASE items[i].status \in {"running", "held"}
      BY <2>0, <2>1, <2>2, <2>4, <3>1, <3>3 DEF Released, IsItem, Dropped, Lapsed
    <3>4. CASE items[i].status \notin {"leased", "running", "held"}
      BY <2>1, <2>2, <2>4, <3>4 DEF Released, Kept
    <3> QED BY <3>2, <3>3, <3>4
  <2> QED BY <2>3, <2>4
<1>3. DOMAIN items' = Item
  BY DEF ReleaseExpired
<1> QED BY <1>2, <1>3 DEF LeaseStep, ItemsOK

\* lease! grants what has lapsed at a time that has come, for the content it compared.
LEMMA LeaseGrant ==
  ASSUME RuntimeAssumption, ItemsOK, TimeOK, NEW t \in Thread, Lease(t)
  PROVE  LeaseStep
<1>1. PICK v \in thr[t].todo :
        IF LeaseGranted(v, thr[t].now)
        THEN items' = [items EXCEPT ![v.item].status = "leased",
                         ![v.item].lease = [token |-> NextToken(v.item), content |-> v.content,
                                            exp |-> thr[t].now + LeaseMs]]
        ELSE items' = items
  BY DEF Lease
<1> DEFINE now == thr[t].now
           l   == [token |-> NextToken(v.item), content |-> v.content, exp |-> now + LeaseMs]
<1>2. now \in Nat /\ now <= clock /\ clock \in Nat /\ now + LeaseMs \in Nat
  BY DEF TimeOK, RuntimeAssumption
<1>3. CASE ~LeaseGranted(v, now)
  BY <1>1, <1>3 DEF LeaseStep, ItemsOK, Kept
<1>4. CASE LeaseGranted(v, now)
  <2>1. items' = [items EXCEPT ![v.item].status = "leased", ![v.item].lease = l]
    BY <1>1, <1>4
  <2>2. IsLease(l) /\ l.content = v.content
    BY <1>2 DEF IsLease
  <2> HIDE DEF l
  <2>3. \A i \in Item : IsItem(items'[i]) /\ items'[i].content = items[i].content
    BY <2>1 DEF ItemsOK, IsItem
  <2>4. \A i \in Item : items'[i].lease = IF i = v.item THEN l ELSE items[i].lease
    BY <2>1 DEF ItemsOK, IsItem
  <2>5. \A i \in Item : IsLease(items'[i].lease)
    BY <2>2, <2>4 DEF ItemsOK
  <2>6. ASSUME NEW i \in Item, i = v.item PROVE Granted(i)
    <3>1. ~Live(items[i].lease, now) /\ v.content = items[i].content
      BY <1>4, <2>6 DEF LeaseGranted
    <3>2. Lapsed(i)
      BY <1>2, <3>1 DEF Lapsed, Live, ItemsOK, IsLease
    <3> QED BY <2>2, <2>3, <2>4, <2>6, <3>1, <3>2 DEF Granted
  <2>7. \A i \in Item : i # v.item => Kept(i)
    BY <2>3, <2>4 DEF Kept
  <2>8. DOMAIN items' = Item
    BY <2>1 DEF ItemsOK
  <2> QED BY <2>3, <2>5, <2>6, <2>7, <2>8 DEF LeaseStep, ItemsOK
<1> QED BY <1>3, <1>4

\* Every step of the runtime is a lease step.
LEMMA EveryLeaseStep ==
  ASSUME RuntimeAssumption, IInv, [Next]_vars
  PROVE  LeaseStep
<1> USE DEF IInv
<1>1. ASSUME NEW t \in Thread, Tick(t) PROVE LeaseStep
  <2>1. CASE Ingest(t)
    <3>1. PICK v \in thr[t].todo :
            IF v.basis = bases[v.item] \/ ExecutionStarted(v.item)
            THEN items' = items
            ELSE items' = [items EXCEPT ![v.item] = NewItem(v.basis)]
      BY <2>1 DEF Ingest
    <3>2. CASE v.basis = bases[v.item] \/ ExecutionStarted(v.item)
      BY <3>1, <3>2, SameItems
    <3>3. CASE ~(v.basis = bases[v.item] \/ ExecutionStarted(v.item))
      <4>1. items[v.item].lease.token = 0
        BY <3>3 DEF ExecutionStarted
      <4> QED BY <3>1, <3>3, <4>1, Overwritten
    <3> QED BY <3>2, <3>3
  <2>2. CASE Renew(t)
    <3>1. PICK v \in thr[t].todo : RenewLease(v.item, v.token, thr[t].now)
      BY <2>2 DEF Renew
    <3>2. thr[t].now \in Nat
      BY DEF TimeOK
    <3> QED BY <3>1, <3>2, RenewalStep
  <2>3. CASE ReleaseExpired(t)
    BY <2>3, ReleaseStep
  <2>4. CASE Lease(t)
    BY <2>4, LeaseGrant
  <2>5. CASE Prepare(t)
    <3> DEFINE i == Cur(t).item
               old == items[i].record
               record == IF old = NoRecord
                         THEN [id |-> Cur(t).token, run |-> Cur(t).token, status |-> "planned"]
                         ELSE old
    <3>1. \/ items' = items
          \/ items' = [items EXCEPT ![i].run = record.run, ![i].record = record]
      BY <2>5 DEF Prepare
    <3> HIDE DEF record
    <3> QED BY <3>1, SameItems, OtherFields
  <2>6. CASE FoldReceipt(t)
    <3>1. \/ items' = items
          \/ \E y, z : items' = [items EXCEPT ![Cur(t).item].status = y, ![Cur(t).item].run = z]
      BY <2>6 DEF FoldReceipt, ApplyRunReceipt
    <3> QED BY <3>1, SameItems, OtherFields
  <2>7. CASE Mark(t)
    BY <2>7, OtherFields DEF Mark
  <2>8. CASE SetObserved(t)
    BY <2>8, OtherFields DEF SetObserved
  <2>9. CASE StartTick(t) \/ BeginRenew(t) \/ BeginRecover(t) \/ Recover(t) \/ BeginSync(t)
             \/ Sync(t) \/ BeginPlan(t) \/ FinishTick(t)
    <3>1. UNCHANGED items
      BY <2>9 DEF StartTick, BeginRenew, BeginRecover, Recover, BeginSync, Sync, BeginPlan,
                  FinishTick, ledger
    <3> QED BY <3>1, SameItems
  <2>10. CASE CheckRun(t) \/ DispatchUnnamed(t) \/ Create(t) \/ Execute(t) \/ Submit(t)
              \/ Admit(t) \/ Fail(t)
    <3>1. UNCHANGED items
      BY <2>10 DEF CheckRun, DispatchUnnamed, Create, Execute, Submit, Admit, Fail, ledger
    <3> QED BY <3>1, SameItems
  <2> QED BY <1>1, <2>1, <2>2, <2>3, <2>4, <2>5, <2>6, <2>7, <2>8, <2>9, <2>10 DEF Tick
<1>2. ASSUME NEW t \in Thread, Heartbeat(t) PROVE LeaseStep
  <2>1. clock \in Nat
    BY DEF TimeOK
  <2> QED BY <1>2, <2>1, RenewalStep DEF Heartbeat
<1>3. ASSUME NEW i \in Item, PutWorkItem(i) PROVE LeaseStep
  <2>1. puts' # puts
    BY <1>3 DEF PutWorkItem, RuntimeAssumption
  <2> QED BY <1>3, <2>1, Overwritten DEF PutWorkItem
<1>4. ASSUME NEW i \in Item, CompleteWork(i) PROVE LeaseStep
  BY <1>4, OtherFields DEF CompleteWork
<1>5. ASSUME \/ \E t \in Thread : Crash(t)
             \/ \E i \in Item : SourceEdit(i) \/ RecordVerification(i)
             \/ \E d \in Token : Report(d)
             \/ TimePasses
             \/ UNCHANGED vars
      PROVE  LeaseStep
  <2>1. UNCHANGED items
    BY <1>5 DEF Crash, SourceEdit, RecordVerification, Report, TimePasses, vars, ledger
  <2> QED BY <2>1, SameItems
<1> QED BY <1>1, <1>2, <1>3, <1>4, <1>5 DEF Next

-----------------------------------------------------------------------------
(***************************************************************************)
(* No tick is ahead of the clock.                                          *)
(***************************************************************************)

\* A step of one thread keeps its time, takes the clock's, or resets it.
Moves(t) ==
  /\ DOMAIN thr' = Thread /\ \A u \in Thread : u # t => thr'[u] = thr[u]
  /\ IsThread(thr'[t]) /\ thr'[t].now \in {thr[t].now, clock, 0}

\* A step that moves one thread this way keeps the ticks within the clock.
LEMMA ThreadStep ==
  ASSUME TimeOK, clock' = clock, NEW t \in Thread, Moves(t)
  PROVE  TimeOK'
<1>1. ASSUME NEW u \in Thread
      PROVE  IsThread(thr'[u]) /\ thr'[u].now \in Nat /\ thr'[u].now <= clock
  BY DEF TimeOK, Moves
<1>2. DOMAIN thr' = Thread
  BY DEF Moves
<1> QED BY <1>1, <1>2 DEF TimeOK, IsThread

\* The ways of moving a thread are such steps.
LEMMA MoveStep ==
  ASSUME TimeOK, NEW t \in Thread,
         \/ \E pc : Goto(t, pc)
         \/ \E pc, views : Read(t, pc, views)
         \/ \E pc : Loop(t, pc)
         \/ \E v : Skip(t, v)
         \/ \E v, w, pc, s : Take(t, v, w, pc, s)
         \/ \E w, pc, s : Continue(t, w, pc, s)
         \/ thr' = [thr EXCEPT ![t] = Idle]
  PROVE  Moves(t)
<1>1. DOMAIN thr = Thread /\ IsThread(thr[t])
  BY DEF TimeOK
<1>2. CASE \E pc : Goto(t, pc)
  BY <1>1, <1>2 DEF Goto, Moves, IsThread
<1>3. CASE \E pc, views : Read(t, pc, views)
  BY <1>1, <1>3 DEF Read, Moves, IsThread
<1>4. CASE \E pc : Loop(t, pc)
  BY <1>1, <1>4 DEF Loop, Moves, IsThread, Idle
<1>5. CASE \E v : Skip(t, v)
  BY <1>1, <1>5 DEF Skip, Moves, IsThread
<1>6. CASE \E v, w, pc, s : Take(t, v, w, pc, s)
  <2>1. PICK v, w, pc, s : Take(t, v, w, pc, s)
    BY <1>6
  <2>2. DOMAIN thr' = Thread /\ \A u \in Thread : u # t => thr'[u] = thr[u]
    BY <1>1, <2>1 DEF Take
  <2>3. DOMAIN thr'[t] = DOMAIN thr[t] /\ thr'[t].now = thr[t].now
    BY <1>1, <2>1 DEF Take, IsThread
  <2> QED BY <1>1, <2>2, <2>3 DEF Moves, IsThread
<1>7. CASE \E w, pc, s : Continue(t, w, pc, s)
  BY <1>1, <1>7 DEF Continue, Moves, IsThread
<1>8. CASE thr' = [thr EXCEPT ![t] = Idle]
  BY <1>1, <1>8 DEF Moves, IsThread, Idle
<1> QED BY <1>2, <1>3, <1>4, <1>5, <1>6, <1>7, <1>8

\* Every step keeps the ticks within the clock.
LEMMA TimeStep ==
  ASSUME TimeOK, [Next]_vars
  PROVE  TimeOK'
<1>1. ASSUME NEW t \in Thread, Tick(t) PROVE TimeOK'
  <2>0. clock' = clock
    BY <1>1 DEF Tick, StartTick, Ingest, BeginRenew, Renew, ReleaseExpired, BeginRecover,
       Recover, BeginSync, Sync, BeginPlan, Lease, Prepare, CheckRun, DispatchUnnamed, Create,
       Execute, Submit, Admit, Fail, FoldReceipt, Mark, SetObserved, FinishTick, world
  <2>1. CASE StartTick(t)
    <3>1. Moves(t)
      BY <2>1 DEF StartTick, Idle, IsThread, TimeOK, Moves
    <3> QED BY <2>0, <3>1, ThreadStep
  <2>2. CASE Ingest(t) \/ Renew(t)
    <3>1. \E v : Skip(t, v)
      BY <2>2 DEF Ingest, Renew
    <3> QED BY <2>0, <3>1, MoveStep, ThreadStep
  <2>3. CASE BeginRenew(t) \/ BeginRecover(t) \/ BeginSync(t) \/ BeginPlan(t)
    <3>1. \E pc, views : Read(t, pc, views)
      BY <2>3 DEF BeginRenew, BeginRecover, BeginSync, BeginPlan
    <3> QED BY <2>0, <3>1, MoveStep, ThreadStep
  <2>4. CASE Recover(t) \/ Sync(t) \/ Lease(t)
    <3>1. (\E v : Skip(t, v)) \/ (\E v, w, pc, s : Take(t, v, w, pc, s))
      BY <2>4 DEF Recover, Sync, Lease
    <3> QED BY <2>0, <3>1, MoveStep, ThreadStep
  <2>5. CASE ReleaseExpired(t) \/ Submit(t) \/ FoldReceipt(t)
    <3>1. \E pc : Goto(t, pc)
      BY <2>5 DEF ReleaseExpired, Submit, FoldReceipt
    <3> QED BY <2>0, <3>1, MoveStep, ThreadStep
  <2>6. CASE Prepare(t)
    <3>1. \/ \E pc : Loop(t, pc)
          \/ \E w, pc, s : Continue(t, w, pc, s)
      BY <2>6 DEF Prepare
    <3> QED BY <2>0, <3>1, MoveStep, ThreadStep
  <2>7. CASE CheckRun(t) \/ Execute(t) \/ Admit(t) \/ Fail(t)
    <3>1. \E w, pc, s : Continue(t, w, pc, s)
      BY <2>7 DEF CheckRun, Execute, Admit, Fail
    <3> QED BY <2>0, <3>1, MoveStep, ThreadStep
  <2>8. CASE DispatchUnnamed(t)
    <3>1. \/ \E pc : Goto(t, pc)
          \/ \E w, pc, s : Continue(t, w, pc, s)
      BY <2>8 DEF DispatchUnnamed
    <3> QED BY <2>0, <3>1, MoveStep, ThreadStep
  <2>9. CASE Create(t)
    <3>1. \E pc : Goto(t, pc)
      BY <2>9 DEF Create
    <3> QED BY <2>0, <3>1, MoveStep, ThreadStep
  <2>10. CASE Mark(t) \/ SetObserved(t)
    <3>1. (\E pc : Goto(t, pc)) \/ (\E pc : Loop(t, pc))
      BY <2>10 DEF Mark, SetObserved
    <3> QED BY <2>0, <3>1, MoveStep, ThreadStep
  <2>11. CASE FinishTick(t)
    BY <2>0, <2>11, MoveStep, ThreadStep DEF FinishTick
  <2> QED BY <1>1, <2>1, <2>2, <2>3, <2>4, <2>5, <2>6, <2>7, <2>8, <2>9, <2>10, <2>11 DEF Tick
<1>2. ASSUME NEW t \in Thread, Crash(t) PROVE TimeOK'
  <2>1. clock' = clock /\ thr' = [thr EXCEPT ![t] = Idle]
    BY <1>2 DEF Crash
  <2> QED BY <2>1, MoveStep, ThreadStep
<1>3. CASE TimePasses
  BY <1>3 DEF TimePasses, TimeOK, IsThread
<1>4. ASSUME \/ \E t \in Thread : Heartbeat(t)
             \/ \E i \in Item : SourceEdit(i) \/ PutWorkItem(i) \/ RecordVerification(i)
                                \/ CompleteWork(i)
             \/ \E d \in Token : Report(d)
             \/ UNCHANGED vars
      PROVE  TimeOK'
  <2>1. UNCHANGED <<clock, thr>>
    BY <1>4 DEF Heartbeat, SourceEdit, PutWorkItem, RecordVerification, CompleteWork, Report,
                vars, world
  <2> QED BY <2>1 DEF TimeOK, IsThread
<1> QED BY <1>1, <1>2, <1>3, <1>4 DEF Next

-----------------------------------------------------------------------------
(***************************************************************************)
(* The invariant and the theorems.                                         *)
(***************************************************************************)

\* Initially no item is leased and no tick runs.
LEMMA InitIInv == ASSUME Init PROVE IInv
<1>1. ItemsOK /\ LeasedContentFixed
  BY DEF Init, NewItem, NoLease, ItemsOK, IsItem, IsLease, LeasedContentFixed
<1>2. TimeOK
  BY DEF Init, Idle, TimeOK, IsThread
<1> QED BY <1>1, <1>2 DEF IInv

\* A step keeps the invariant.
LEMMA StepIInv == ASSUME RuntimeAssumption, IInv, [Next]_vars PROVE IInv'
<1>1. LeaseStep
  BY EveryLeaseStep
<1>2. LeasedContentFixed'
  <2> SUFFICES ASSUME NEW i \in Item, items'[i].lease.token # 0
               PROVE  items'[i].lease.content = items'[i].content
    BY DEF LeasedContentFixed
  <2>1. NoLease.token = 0
    BY DEF NoLease
  <2> QED BY <1>1, <2>1 DEF LeaseStep, Kept, Renewed, Dropped, Granted, IInv, LeasedContentFixed
<1> QED BY <1>1, <1>2, TimeStep DEF LeaseStep, IInv

\* The invariant holds throughout.
THEOREM Invariance == Spec => []IInv
<1>1. RuntimeAssumption
  BY RuntimeAssumption
<1>2. Init => IInv
  BY InitIInv
<1>3. IInv /\ [Next]_vars => IInv'
  BY <1>1, StepIInv
<1> QED BY <1>2, <1>3, PTL DEF Spec

\* For any number of items, threads, edits and crashes: the content of an item
\* does not change under its lease (lease!, ingest-work-item!, put-work-item!).
THEOREM LeaseProtectsContent == Spec => []LeasedContentFixed
<1>1. IInv => LeasedContentFixed
  BY DEF IInv
<1> QED BY <1>1, Invariance, PTL

\* A lease is taken away or replaced only after it expired by the real clock, or
\* by an administrator, whatever times the ticks of other threads work with
\* (lease!, release-expired-leases!).
THEOREM LeaseOutlivesOtherTicks == Spec => NoEarlyTakeover
<1>1. RuntimeAssumption
  BY RuntimeAssumption
<1>2. ASSUME IInv, [Next]_vars, NEW i \in Item,
             items[i].lease.token # 0, items'[i].lease.token # items[i].lease.token
      PROVE  items[i].lease.exp <= clock \/ puts' # puts
  <2>1. LeaseStep
    BY <1>1, <1>2, EveryLeaseStep
  <2> QED BY <1>2, <2>1 DEF LeaseStep, Kept, Renewed, Dropped, Granted, Lapsed
<1>3. IInv /\ [Next]_vars =>
        [\A i \in Item :
           items[i].lease.token # 0 /\ items'[i].lease.token # items[i].lease.token
             => items[i].lease.exp <= clock \/ puts' # puts]_vars
  BY <1>2
<1> QED BY <1>3, Invariance, PTL DEF Spec, NoEarlyTakeover
=============================================================================
