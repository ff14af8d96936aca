---------------------------- MODULE WorkRuntime ----------------------------
(***************************************************************************)
(* The governed-work runtime: work_runtime.cljk's finite reconcile tick,   *)
(* with the transition table of work_governance.cljk, the AgentRuns of     *)
(* agent_control.cljk, the external executor of work_organism_dispatch and *)
(* the supervision of work_reconciler.                                     *)
(*                                                                         *)
(* A tick ingests changed source items, renews leases of active runs,      *)
(* releases expired leases, resumes dispatches that were prepared but not  *)
(* observed, folds the outcomes of linked runs into their items, and then  *)
(* plans, leases, prepares and dispatches ready items one after another.   *)
(* Every update-ledger! and every save-run! is one atomic transaction (see *)
(* StateJournal and WorkPartitionStore); between transactions a tick works *)
(* on what it read earlier.  The scheduler's ticks and those of            *)
(* POST /api/work-governance/reconcile may overlap; each is a thread here. *)
(* A thread uses the time at which its tick started; the heartbeat of a    *)
(* dispatch uses the current time.  A thread may die with its process, or  *)
(* end its tick by an exception, between any two transactions.             *)
(*                                                                         *)
(* Left out: approvals, capacity and priorities of the planner (every      *)
(* plannable item is selected), GitHub write-back, failing source fetches  *)
(* (a later edit), audit events, cards the board or an administrator puts  *)
(* in a status other than ready.                                           *)
(***************************************************************************)
EXTENDS Naturals, FiniteSets

CONSTANTS
  Item,        \* WorkItem ids
  Thread,      \* threads that run reconcile ticks
  Organism,    \* items whose executor is an externally supervised worker
  Outcome,     \* terminal statuses the executors of this instance report
  LeaseMs,     \* lease duration
  MaxClock,    \* bound: the clock stops there
  MaxTokens,   \* bound: leases granted
  MaxCrashes,  \* bound: threads that die
  MaxEdits,    \* bound: changes of cards on the board
  MaxPuts      \* bound: items replaced by an administrator

ASSUME RuntimeAssumption ==
  /\ Item # {}                  \* so that NoView can name one
  /\ Organism \subseteq Item
  /\ Outcome \subseteq {"succeeded", "failed", "rejected", "cancelled"}
  /\ LeaseMs \in Nat \ {0} /\ MaxClock \in Nat /\ MaxTokens \in Nat
  /\ MaxCrashes \in Nat /\ MaxEdits \in Nat /\ MaxPuts \in Nat

VARIABLES
  items,       \* :work-items of the ledger
  bases,       \* :source-bases of the ledger
  fencing,     \* [:runtime :fencing-sequence]
  receipts,    \* :execution-receipts
  verified,    \* <<item, run, content>> with every required verification receipt
  runs,        \* status of the AgentRuns of agent control, by run id
  executions,  \* (history) how often the local executor was started for a run
  reports,     \* what the external supervisor's receipts say, by dispatch id
  source,      \* version of each card on the GitHub board
  clock,
  thr,         \* per thread: program position and what it has read
  edits, puts, crashes

ledger == <<items, bases, fencing, receipts, verified>>
agents == <<runs, executions>>
world  == <<source, clock, edits, puts, crashes>>
vars   == <<ledger, agents, reports, world, thr>>

-----------------------------------------------------------------------------
(***************************************************************************)
(* Items, leases, dispatch records.  Lease ids are minted with a fencing   *)
(* token and run ids with a lease id, so the token stands for all three;   *)
(* 0 is none.  A dispatch whose record has lost its run id ends in a run   *)
(* with an id of its own: Stray(k) for the one of lease k.                 *)
(***************************************************************************)
Token    == 1..MaxTokens
Stray(k) == MaxTokens + k
RunId    == 1..(2 * MaxTokens)
LeaseOf(r) == IF r \in Token THEN r ELSE r - MaxTokens
Status   == {"ready", "leased", "running", "held", "review", "done", "failed",
             "rejected", "cancelled"}
Terminal == {"succeeded", "failed", "rejected", "cancelled"}
Active   == {"running", "held"}         \* active-run-statuses

\* Mutation: the table has no way from leased to failed.
WorkTransitions_LeasedCannotFail ==
  [s \in Status |->
     CASE s = "ready"   -> {"leased", "held", "cancelled"}
       [] s = "leased"  -> {"running", "ready", "cancelled"}
       [] s = "running" -> {"held", "review", "done", "failed", "cancelled"}
       [] s = "held"    -> {"ready", "leased", "running", "rejected", "cancelled"}
       [] s = "review"  -> {"done", "held", "failed", "cancelled"}
       [] s = "failed"  -> {"ready", "cancelled"}
       [] OTHER         -> {}]

\* work-transitions (backlog is before the lifecycle modelled here).
WorkTransitions ==
  [s \in Status |->
     CASE s = "ready"   -> {"leased", "held", "cancelled"}
       [] s = "leased"  -> {"running", "ready", "failed", "cancelled"}
       [] s = "running" -> {"held", "review", "done", "failed", "cancelled"}
       [] s = "held"    -> {"ready", "leased", "running", "rejected", "cancelled"}
       [] s = "review"  -> {"done", "held", "failed", "cancelled"}
       [] s = "failed"  -> {"ready", "cancelled"}
       [] OTHER         -> {}]

\* transition-work; "illegal" stands for the exception.
Move(from, to) ==
  IF from \in Status /\ to \in WorkTransitions[from] THEN to ELSE "illegal"

NoLease  == [token |-> 0, exp |-> 0, content |-> 0]
NoRecord == [id |-> 0, run |-> 0, status |-> "none"]

NewItem(content) ==
  [status |-> "ready", content |-> content, lease |-> NoLease, run |-> 0,
   record |-> NoRecord, obs |-> "none", recovery |-> "none"]

Live(lease, now) == lease.token # 0 /\ lease.exp > now

\* Mutation: an admission counts as success.
Advanced_AdmissionIsSuccess(st, rs) ==
  LET started(from) == IF st \in from THEN Move(st, "running") ELSE st IN
  CASE rs = "running" -> started({"leased"})
    [] rs \in {"held", "succeeded"} ->
         IF st = "review" THEN st ELSE Move(started({"leased", "held"}), "review")
    [] OTHER -> Move(st, rs)

\* advance-for-run: the status an item takes when its run has status rs.
Advanced(st, rs) ==
  LET started(from) == IF st \in from THEN Move(st, "running") ELSE st IN
  CASE rs = "running"   -> started({"leased"})
    [] rs = "held"      -> IF st = "held" THEN st ELSE Move(started({"leased"}), "held")
    [] rs = "succeeded" -> IF st = "review" THEN st
                           ELSE Move(started({"leased", "held"}), "review")
    [] OTHER            -> Move(st, rs)

\* valid-receipt? of a receipt just made from the item's current lease: what is
\* left to fail is a missing lease, or a lease on other content.
ReceiptValid(i) ==
  /\ items[i].lease.token # 0
  /\ items[i].lease.content = items[i].content

\* Mutation: the transition table is not consulted.
CanApply_AnyMove(i, rs) == ReceiptValid(i)

\* apply-run-receipt! succeeds, or throws and changes nothing.
CanApply(i, rs) == ReceiptValid(i) /\ Advanced(items[i].status, rs) # "illegal"

ApplyRunReceipt(i, r, rs) ==
  /\ items' = [items EXCEPT ![i].status = Advanced(@, rs), ![i].run = r]
  /\ receipts' =
       IF \E v \in receipts : v.item = i /\ v.run = r /\ v.status = rs
       THEN receipts
       ELSE receipts \cup {[item |-> i, run |-> r, status |-> rs,
                            token |-> items[i].lease.token]}

(***************************************************************************)
(* Threads.  A view is what a thread has read of an item and acts on later.*)
(***************************************************************************)
NoView == [item |-> CHOOSE i \in Item : TRUE, token |-> 0, run |-> 0, id |-> 0,
           obs |-> "none", content |-> 0, basis |-> 0]
Idle   == [pc |-> "idle", now |-> 0, todo |-> {}, cur |-> NoView, seen |-> "none",
           from |-> "none"]

At(t, pc) == thr[t].pc = pc
Cur(t)    == thr[t].cur
Goto(t, pc) == thr' = [thr EXCEPT ![t].pc = pc]
\* Continue with w in hand, having seen run status s.
Continue(t, w, pc, s) ==
  thr' = [thr EXCEPT ![t].pc = pc, ![t].cur = w, ![t].seen = s]
\* Start a pass over views; go back to it with nothing in hand.
Read(t, pc, views) == thr' = [thr EXCEPT ![t].pc = pc, ![t].todo = views]
Loop(t, pc) == thr' = [thr EXCEPT ![t] = [Idle EXCEPT !.pc = pc, !.now = thr[t].now,
                                                      !.todo = thr[t].todo]]
\* Take v off the list; skip it, or continue with w in hand.
Skip(t, v) == thr' = [thr EXCEPT ![t].todo = @ \ {v}]
Take(t, v, w, pc, s) ==
  thr' = [thr EXCEPT ![t].pc = pc, ![t].todo = @ \ {v}, ![t].cur = w, ![t].seen = s,
                     ![t].from = thr[t].pc]

Init ==
  /\ items = [i \in Item |-> NewItem(0)]
  /\ bases = [i \in Item |-> 0]
  /\ fencing = 0
  /\ receipts = {} /\ verified = {}
  /\ runs = [r \in RunId |-> "none"]
  /\ executions = [r \in Token |-> 0]
  /\ reports = [r \in Token |-> "none"]
  /\ source = [i \in Item |-> 0]
  /\ clock = 0
  /\ thr = [t \in Thread |-> Idle]
  /\ edits = 0 /\ puts = 0 /\ crashes = 0

-----------------------------------------------------------------------------
(***************************************************************************)
(* One reconcile tick.                                                     *)
(***************************************************************************)

\* A tick starts: it keeps the time, and fetches the cards that changed.
StartTick(t) ==
  /\ At(t, "idle")
  /\ thr' = [thr EXCEPT ![t] =
               [Idle EXCEPT !.pc = "sources", !.now = clock,
                            !.todo = {[NoView EXCEPT !.item = i, !.basis = source[i]] :
                                        i \in {j \in Item : source[j] # bases[j]}}]]
  /\ UNCHANGED <<ledger, agents, reports, world>>

ExecutionStarted(i) ==
  \/ items[i].lease.token # 0
  \/ items[i].run # 0
  \/ items[i].status \in {"running", "held", "review", "done"}

\* ingest-work-item!: an item whose execution has begun is not overwritten.
Ingest(t) ==
  /\ At(t, "sources")
  /\ \E v \in thr[t].todo :
       /\ IF v.basis = bases[v.item] \/ ExecutionStarted(v.item)
          THEN UNCHANGED <<items, bases>>
          ELSE /\ items' = [items EXCEPT ![v.item] = NewItem(v.basis)]
               /\ bases' = [bases EXCEPT ![v.item] = v.basis]
       /\ Skip(t, v)
  /\ UNCHANGED <<fencing, receipts, verified, agents, reports, world>>

\* renew-active-leases! reads items and runs once ...
BeginRenew(t) ==
  /\ At(t, "sources") /\ thr[t].todo = {}
  /\ Read(t, "renew", {[NoView EXCEPT !.item = i, !.token = items[i].lease.token] :
                         i \in {j \in Item : /\ items[j].lease.token # 0
                                             /\ items[j].run # 0
                                             /\ runs[items[j].run] \in Active}})
  /\ UNCHANGED <<ledger, agents, reports, world>>

\* Mutation: the extension counts from zero, not from the time of the renewal.
RenewLease_Relative(i, token, now) ==
  items' = IF /\ items[i].lease.token # 0 /\ items[i].lease.token = token
              /\ items[i].status \in {"leased", "running", "held"}
           THEN [items EXCEPT ![i].lease.exp = LeaseMs]
           ELSE items

\* renew-lease!: only the fenced lease is extended.
RenewLease(i, token, now) ==
  items' = IF /\ items[i].lease.token # 0 /\ items[i].lease.token = token
              /\ items[i].status \in {"leased", "running", "held"}
           THEN [items EXCEPT ![i].lease.exp = now + LeaseMs]
           ELSE items

\* ... and renews lease by lease.
Renew(t) ==
  /\ At(t, "renew")
  /\ \E v \in thr[t].todo : RenewLease(v.item, v.token, thr[t].now) /\ Skip(t, v)
  /\ UNCHANGED <<bases, fencing, receipts, verified, agents, reports, world>>

\* Mutation: the run and the dispatch record of a released item are kept.
Released_KeepsRecord(it, now) ==
  IF it.lease.token = 0 \/ Live(it.lease, now) THEN it ELSE
  CASE it.status = "leased" ->
         [it EXCEPT !.status = "ready", !.lease = NoLease, !.recovery = "lease-expired"]
    [] it.status \in {"running", "held"} ->
         [it EXCEPT !.status = "held", !.lease = NoLease, !.recovery = "orphaned-run"]
    [] OTHER -> it

\* Mutation: a new tick takes every leased item for abandoned.
Released_Unexpired(it, now) ==
  IF it.lease.token = 0 THEN it ELSE
  CASE it.status = "leased" ->
         [it EXCEPT !.status = "ready", !.lease = NoLease, !.run = 0,
                    !.record = NoRecord, !.recovery = "lease-expired"]
    [] it.status \in {"running", "held"} ->
         [it EXCEPT !.status = "held", !.lease = NoLease, !.recovery = "orphaned-run"]
    [] OTHER -> it

\* release-expired-leases!, for one item.
Released(it, now) ==
  IF it.lease.token = 0 \/ Live(it.lease, now) THEN it ELSE
  CASE it.status = "leased" ->
         [it EXCEPT !.status = "ready", !.lease = NoLease, !.run = 0,
                    !.record = NoRecord, !.recovery = "lease-expired"]
    [] it.status \in {"running", "held"} ->
         [it EXCEPT !.status = "held", !.lease = NoLease, !.recovery = "orphaned-run"]
    [] OTHER -> it

ReleaseExpired(t) ==
  /\ At(t, "renew") /\ thr[t].todo = {}
  /\ items' = [i \in Item |-> Released(items[i], thr[t].now)]
  /\ Goto(t, "released")
  /\ UNCHANGED <<bases, fencing, receipts, verified, agents, reports, world>>

\* recover-prepared-dispatches! reads the ledger once ...
BeginRecover(t) ==
  /\ At(t, "released")
  /\ Read(t, "recover",
          {[NoView EXCEPT !.item = i, !.token = items[i].lease.token,
                          !.run = items[i].record.run, !.id = items[i].record.id] :
             i \in {j \in Item : /\ items[j].record.status = "planned"
                                 /\ items[j].status \in {"leased", "running"}}})
  /\ UNCHANGED <<ledger, agents, reports, world>>

\* ... and per prepared item either takes the run that exists, or dispatches.
Recover(t) ==
  /\ At(t, "recover")
  /\ \E v \in thr[t].todo :
       Take(t, v, v, IF runs[v.run] # "none" THEN "recovered" ELSE "dispatch", runs[v.run])
  /\ UNCHANGED <<ledger, agents, reports, world>>

\* sync-linked-runs! reads the items once ...
BeginSync(t) ==
  /\ At(t, "recover") /\ thr[t].todo = {}
  /\ Read(t, "sync",
          {[NoView EXCEPT !.item = i, !.run = items[i].run, !.obs = items[i].obs,
                          !.id = items[i].record.id] :
             i \in {j \in Item : items[j].run # 0}})
  /\ UNCHANGED <<ledger, agents, reports, world>>

\* ... asks the supervisor of an external run for its outcome (observe! makes it
\* the status of a run that has not ended), and skips an item whose run still has
\* the status it had when the item was last observed.
Sync(t) ==
  /\ At(t, "sync")
  /\ \E v \in thr[t].todo :
       LET told == /\ v.item \in Organism /\ v.id # 0
                   /\ runs[v.run] \in Active /\ reports[v.id] \in Terminal
           rs == IF told THEN reports[v.id] ELSE runs[v.run]
       IN  /\ runs' = [runs EXCEPT ![v.run] = rs]
           /\ IF rs \in {"none", v.obs} THEN Skip(t, v) ELSE Take(t, v, v, "observed", rs)
  /\ UNCHANGED <<ledger, executions, reports, world>>

\* What reconcile-plan may dispatch: ready or held, not orphaned, and not
\* linked to a run that was last seen active.
Plannable(i) ==
  /\ items[i].status \in {"ready", "held"}
  /\ items[i].recovery # "orphaned-run"
  /\ ~(items[i].run # 0 /\ items[i].obs \in Active)

BeginPlan(t) ==
  /\ At(t, "sync") /\ thr[t].todo = {}
  /\ Read(t, "plan", {[NoView EXCEPT !.item = i, !.content = items[i].content,
                                     !.basis = bases[i]] :
                        i \in {j \in Item : Plannable(j)}})
  /\ UNCHANGED <<ledger, agents, reports, world>>

\* Mutation: the lease is granted on what the planner saw.
LeaseGranted_Unchecked(v, now) ==
  items[v.item].status \in {"ready", "held"} /\ ~Live(items[v.item].lease, now)

\* lease!: compare-and-set against what the planner saw.
LeaseGranted(v, now) ==
  /\ items[v.item].status \in {"ready", "held"}
  /\ ~Live(items[v.item].lease, now)
  /\ v.content = items[v.item].content
  /\ v.basis = bases[v.item]

\* Mutation: every item counts its own leases.
NextToken_OfItem(i) == items[i].lease.token + 1

NextToken(i) == fencing + 1

Lease(t) ==
  /\ At(t, "plan")
  /\ \E v \in thr[t].todo :
       IF LeaseGranted(v, thr[t].now)
       THEN /\ fencing < MaxTokens
            /\ fencing' = NextToken(v.item)
            /\ items' = [items EXCEPT ![v.item].status = "leased",
                           ![v.item].lease = [token |-> NextToken(v.item), content |-> v.content,
                                              exp |-> thr[t].now + LeaseMs]]
            /\ Take(t, v, [NoView EXCEPT !.item = v.item, !.token = NextToken(v.item)],
                    "prepare", "none")
       ELSE /\ UNCHANGED <<items, fencing>>
            /\ Skip(t, v)
  /\ UNCHANGED <<bases, receipts, verified, agents, reports, world>>

Fenced(i, token) == items[i].lease.token = token

\* prepare-dispatch!: the run id is persisted under the fenced lease.  A dispatch
\* record that is there already is kept.
Prepare(t) ==
  /\ At(t, "prepare")
  /\ LET i == Cur(t).item
         old == items[i].record
         record == IF old = NoRecord
                   THEN [id |-> Cur(t).token, run |-> Cur(t).token, status |-> "planned"]
                   ELSE old
     IN  IF Fenced(i, Cur(t).token)
         THEN /\ items' = [items EXCEPT ![i].run = record.run, ![i].record = record]
              /\ Continue(t, [Cur(t) EXCEPT !.run = record.run, !.id = record.id],
                          "dispatch", "none")
         ELSE UNCHANGED items /\ Loop(t, "plan")
  /\ UNCHANGED <<bases, fencing, receipts, verified, agents, reports, world>>

-----------------------------------------------------------------------------
(***************************************************************************)
(* dispatch-prepared!, under its heartbeat.  Agent control asks whether    *)
(* the run exists before it saves one: two steps.                          *)
(***************************************************************************)
IsLocal(t) == Cur(t).item \notin Organism

\* Mutation: the executor is asked without looking for an earlier run.
RunExists_Never(r) == FALSE

RunExists(r) == runs[r] # "none"

CheckRun(t) ==
  /\ \/ At(t, "dispatch") /\ IsLocal(t)
     \/ thr[t].pc \in {"submitted", "catch"}
  /\ Cur(t).run # 0
  /\ LET r == Cur(t).run
         found == IF At(t, "catch") THEN "failed" ELSE "dispatched"
         missing == CASE At(t, "dispatch")  -> "create"
                      [] At(t, "submitted") -> "admit"
                      [] At(t, "catch")     -> "fail"
     IN  IF RunExists(r) THEN Continue(t, Cur(t), found, runs[r])
                         ELSE Continue(t, Cur(t), missing, "none")
  /\ UNCHANGED <<ledger, agents, reports, world>>

\* The record has lost its run id: whatever ran, the dispatch ends by a failed
\* run with an id of its own, or by an exception (the AgentRun library decides).
DispatchUnnamed(t) ==
  /\ At(t, "dispatch") /\ Cur(t).run = 0
  /\ \/ /\ runs' = [runs EXCEPT ![Stray(Cur(t).token)] = "failed"]
        /\ Continue(t, [Cur(t) EXCEPT !.run = Stray(Cur(t).token)], "failed", "failed")
     \/ UNCHANGED runs /\ Goto(t, "aborted")
  /\ UNCHANGED <<ledger, executions, reports, world>>

\* Mutation: the run is saved only when the executor returns.
Create_SavedLate(t) ==
  /\ At(t, "create")
  /\ \/ /\ executions' = [executions EXCEPT ![Cur(t).run] = @ + 1]
        /\ UNCHANGED runs
        /\ Goto(t, "execute")
     \/ UNCHANGED agents /\ Goto(t, "catch")
  /\ UNCHANGED <<ledger, reports, world>>

\* create-run! saves the run as running before the executor's first turn, or
\* refuses (settings, provider) ...
Create(t) ==
  /\ At(t, "create")
  /\ \/ /\ runs' = [runs EXCEPT ![Cur(t).run] = "running"]
        /\ executions' = [executions EXCEPT ![Cur(t).run] = @ + 1]
        /\ Goto(t, "execute")
     \/ UNCHANGED agents /\ Goto(t, "catch")
  /\ UNCHANGED <<ledger, reports, world>>

\* ... and advance! saves how it ended.
Execute(t) ==
  /\ At(t, "execute")
  /\ \E rs \in Outcome :
       /\ runs' = [runs EXCEPT ![Cur(t).run] = rs]
       /\ Continue(t, Cur(t), "dispatched", rs)
  /\ UNCHANGED <<ledger, executions, reports, world>>

\* organism dispatch: submit-intent! writes the intent and an admission receipt
\* under the intent's id, over whatever receipt is there; a closed intent (its
\* lease has expired) or an unfit worker is rejected.
Submit(t) ==
  /\ At(t, "dispatch") /\ ~IsLocal(t) /\ Cur(t).run # 0
  /\ \/ /\ reports' = [reports EXCEPT ![Cur(t).id] = "admitted"]
        /\ Goto(t, "submitted")
     \/ UNCHANGED reports /\ Goto(t, "catch")
  /\ UNCHANGED <<ledger, agents, world>>

\* record-external-admission!: admission is held, never success.
Admit(t) ==
  /\ At(t, "admit")
  /\ runs' = [runs EXCEPT ![Cur(t).run] = "held"]
  /\ Continue(t, Cur(t), "dispatched", "held")
  /\ UNCHANGED <<ledger, executions, reports, world>>

\* record-dispatch-failure!: the failure becomes a failed run.
Fail(t) ==
  /\ At(t, "fail")
  /\ runs' = [runs EXCEPT ![Cur(t).run] = "failed"]
  /\ Continue(t, Cur(t), "failed", "failed")
  /\ UNCHANGED <<ledger, executions, reports, world>>

\* The four calls of apply-run-receipt!: on a recovered run, on a linked run, and
\* twice in dispatch-prepared!, where an exception of the first leads to the second.
FoldReceipt(t) ==
  /\ thr[t].pc \in {"recovered", "observed", "dispatched", "failed"}
  /\ LET next  == CASE At(t, "recovered") -> "recoverMark"
                    [] At(t, "observed")  -> "syncMark"
                    [] OTHER              -> "mark"
         throw == IF At(t, "dispatched") THEN "catch" ELSE "aborted"
     IN  IF CanApply(Cur(t).item, thr[t].seen)
         THEN ApplyRunReceipt(Cur(t).item, Cur(t).run, thr[t].seen) /\ Goto(t, next)
         ELSE UNCHANGED <<items, receipts>> /\ Goto(t, throw)
  /\ UNCHANGED <<bases, fencing, verified, agents, reports, world>>

\* record-dispatch-status! (observed or failed: nothing tells them apart later).
\* It merges into the record, which makes one of no record.
Mark(t) ==
  /\ thr[t].pc \in {"recoverMark", "mark"}
  /\ items' = [items EXCEPT ![Cur(t).item].record.status = "observed"]
  /\ IF At(t, "mark") /\ thr[t].from = "plan" THEN Goto(t, "dispatchMark") ELSE Loop(t, "recover")
  /\ UNCHANGED <<bases, fencing, receipts, verified, agents, reports, world>>

\* :work.item/observed-run-status, after a sync or a dispatch.
SetObserved(t) ==
  /\ thr[t].pc \in {"syncMark", "dispatchMark"}
  /\ items' = [items EXCEPT ![Cur(t).item].obs = thr[t].seen]
  /\ Loop(t, IF At(t, "syncMark") THEN "sync" ELSE "plan")
  /\ UNCHANGED <<bases, fencing, receipts, verified, agents, reports, world>>

\* The tick ends, or an exception ended it and the supervisor records that.
FinishTick(t) ==
  /\ \/ At(t, "plan") /\ thr[t].todo = {}
     \/ At(t, "aborted")
  /\ thr' = [thr EXCEPT ![t] = Idle]
  /\ UNCHANGED <<ledger, agents, reports, world>>

Tick(t) ==
  \/ StartTick(t) \/ Ingest(t) \/ BeginRenew(t) \/ Renew(t) \/ ReleaseExpired(t)
  \/ BeginRecover(t) \/ Recover(t) \/ BeginSync(t) \/ Sync(t)
  \/ BeginPlan(t) \/ Lease(t) \/ Prepare(t)
  \/ CheckRun(t) \/ DispatchUnnamed(t) \/ Create(t) \/ Execute(t)
  \/ Submit(t) \/ Admit(t) \/ Fail(t)
  \/ FoldReceipt(t) \/ Mark(t) \/ SetObserved(t) \/ FinishTick(t)

-----------------------------------------------------------------------------
(***************************************************************************)
(* Around the ticks.                                                       *)
(***************************************************************************)

\* Inside dispatch-prepared!.
Dispatching == {"dispatch", "create", "execute", "submitted", "admit", "dispatched",
                "catch", "fail", "failed", "mark"}

\* The heartbeat of a running dispatch renews its lease, by the current time.
Heartbeat(t) ==
  /\ thr[t].pc \in Dispatching
  /\ RenewLease(Cur(t).item, Cur(t).token, clock)
  /\ UNCHANGED <<bases, fencing, receipts, verified, agents, reports, world, thr>>

\* The process of the thread dies.
Crash(t) ==
  /\ ~At(t, "idle") /\ crashes < MaxCrashes
  /\ crashes' = crashes + 1
  /\ thr' = [thr EXCEPT ![t] = Idle]
  /\ UNCHANGED <<ledger, agents, reports, source, clock, edits, puts>>

TimePasses ==
  /\ clock < MaxClock
  /\ clock' = clock + 1
  /\ UNCHANGED <<ledger, agents, reports, thr, source, edits, puts, crashes>>

\* The external supervisor writes the outcome of an admitted intent.
Report(d) ==
  /\ reports[d] = "admitted"
  /\ \E rs \in Outcome : reports' = [reports EXCEPT ![d] = rs]
  /\ UNCHANGED <<ledger, agents, world, thr>>

\* A card changes on the board.
SourceEdit(i) ==
  /\ edits < MaxEdits
  /\ edits' = edits + 1
  /\ source' = [source EXCEPT ![i] = edits + 1]
  /\ UNCHANGED <<ledger, agents, reports, clock, puts, crashes, thr>>

\* put-work-item!: an administrator replaces the item, whatever its state.
PutWorkItem(i) ==
  /\ puts < MaxPuts
  /\ puts' = puts + 1
  /\ items' = [items EXCEPT ![i] = NewItem(MaxEdits + puts + 1)]
  /\ UNCHANGED <<bases, fencing, receipts, verified, agents, reports, source,
                 clock, edits, crashes, thr>>

\* record-verification!, once the last required kind is there.
RecordVerification(i) ==
  /\ items[i].run # 0
  /\ verified' = verified \cup {[item |-> i, run |-> items[i].run, content |-> items[i].content]}
  /\ UNCHANGED <<items, bases, fencing, receipts, agents, reports, world, thr>>

\* complete-work!
CompleteWork(i) ==
  /\ items[i].status = "review"
  /\ \E rc \in receipts : rc.item = i /\ rc.run = items[i].run /\ rc.status = "succeeded"
  /\ [item |-> i, run |-> items[i].run, content |-> items[i].content] \in verified
  /\ items' = [items EXCEPT ![i].status = "done"]
  /\ UNCHANGED <<bases, fencing, receipts, verified, agents, reports, world, thr>>

Next ==
  \/ \E t \in Thread : Tick(t) \/ Heartbeat(t) \/ Crash(t)
  \/ \E i \in Item : SourceEdit(i) \/ PutWorkItem(i) \/ RecordVerification(i) \/ CompleteWork(i)
  \/ \E d \in Token : Report(d)
  \/ TimePasses

Spec == Init /\ [][Next]_vars

\* The supervised scheduler runs ticks for ever, and an executor returns.
FairSpec == Spec /\ \A t \in Thread : WF_vars(Tick(t))

-----------------------------------------------------------------------------
(***************************************************************************)
(* Properties.                                                             *)
(***************************************************************************)
Content   == 0..(MaxEdits + MaxPuts)
Time      == 0..(MaxClock + LeaseMs)
RunStatus == {"none", "running", "held"} \cup Terminal
Position  == {"idle", "sources", "renew", "released", "recover", "recovered", "recoverMark",
              "sync", "observed", "syncMark", "plan", "prepare", "dispatchMark", "aborted"}
             \cup Dispatching
Views == [item : Item, token : 0..MaxTokens, run : 0..(2 * MaxTokens), id : 0..MaxTokens,
          obs : RunStatus, content : Content, basis : 0..MaxEdits]
ItemType == [status : Status, content : Content,
             lease : [token : 0..MaxTokens, exp : Time, content : Content],
             run : 0..(2 * MaxTokens),
             record : [id : 0..MaxTokens, run : 0..MaxTokens,
                       status : {"none", "planned", "observed"}],
             obs : RunStatus, recovery : {"none", "lease-expired", "orphaned-run"}]

\* The variables have their types; in particular no exception of the transition
\* table ever reaches the ledger as a status.
TypeOK ==
  /\ items \in [Item -> ItemType]
  /\ bases \in [Item -> 0..MaxEdits]
  /\ fencing \in 0..MaxTokens
  /\ receipts \subseteq [item : Item, run : RunId, status : RunStatus, token : Token]
  /\ verified \subseteq [item : Item, run : RunId, content : Content]
  /\ runs \in [RunId -> RunStatus]
  /\ executions \in [Token -> Nat]
  /\ reports \in [Token -> {"none", "admitted"} \cup Terminal]
  /\ source \in [Item -> 0..MaxEdits]
  /\ clock \in 0..MaxClock
  /\ thr \in [Thread -> [pc : Position, now : 0..MaxClock, todo : SUBSET Views,
                         cur : Views, seen : RunStatus,
                         from : {"none", "recover", "sync", "plan"}]]
  /\ edits \in 0..MaxEdits /\ puts \in 0..MaxPuts /\ crashes \in 0..MaxCrashes

\* The content of an item does not change under its lease: neither a card edited
\* on the board while ticks ingest, plan and dispatch, nor an administrator, makes
\* a leased item something else than what was admitted (ingest-work-item!, lease!).
LeasedContentFixed ==
  \A i \in Item : items[i].lease.token # 0 => items[i].lease.content = items[i].content

\* No two items hold the same lease, or are linked to the same AgentRun, however
\* the ticks of several threads interleave (the fencing sequence of lease!).
LeasesUnique ==
  \A i, j \in Item : i # j =>
    /\ items[i].lease.token # 0 => items[i].lease.token # items[j].lease.token
    /\ items[i].run # 0 => items[i].run # items[j].run

\* A lease is taken away or replaced only after it has expired by the real clock,
\* although every tick judges by the time at which it started; only an
\* administrator's put-work-item! may do it before.
NoEarlyTakeover ==
  [][\A i \in Item :
       items[i].lease.token # 0 /\ items'[i].lease.token # items[i].lease.token
         => items[i].lease.exp <= clock \/ puts' # puts]_vars

\* renew-lease! extends: it never makes the lease it renews end earlier.
RenewalExtends ==
  [][\A i \in Item :
       items[i].lease.token # 0 /\ items'[i].lease.token = items[i].lease.token
         => items'[i].lease.exp >= items[i].lease.exp]_vars

\* A receipt certifies a run under the very lease for which the run was started:
\* no receipt is recorded under a later lease of the item, which may cover other
\* content and another executor (valid-receipt?).
ReceiptsMatchLease == \A rc \in receipts : rc.token = LeaseOf(rc.run)

\* The local executor is started at most once for one AgentRun id, across crashes
\* at any point of the dispatch and its recovery by later ticks.
ExecutedOnce == \A r \in Token : executions[r] <= 1

\* The first durable outcome of an AgentRun stays (record-dispatch-failure!,
\* record-external-admission!, create-run!).
TerminalRunsStable ==
  [][\A r \in RunId : runs[r] \in Terminal => runs'[r] = runs[r]]_vars

\* Work is in review or done only on a run that did succeed and whose receipt is
\* in the ledger: the AgentRun and the WorkItem are saved by different transactions.
ReviewIsEarned ==
  \A i \in Item : items[i].status \in {"review", "done"} =>
    /\ items[i].run # 0 /\ runs[items[i].run] = "succeeded"
    /\ \E rc \in receipts :
         rc.item = i /\ rc.run = items[i].run /\ rc.status = "succeeded"

\* A ready item is executed and gets its outcome.
ReadyIsExecuted ==
  \A i \in Item : items[i].status = "ready" ~> items[i].status \in {"review", "done", "failed"}

\* Ticks keep computing plans: no item, whatever became of its run, stops the
\* reconciler for all of them (sync-linked-runs! runs before the plan).
TicksPlan == []<>(\E t \in Thread : At(t, "plan"))

\* Running work whose local executor is gone keeps no lease alive: once it has
\* expired, its lease is not renewed, so that the item can be held.
Abandoned(i) ==
  /\ i \notin Organism /\ items[i].status = "running"
  /\ \A t \in Thread : Cur(t).item = i => thr[t].pc \notin Dispatching
OrphansExpire ==
  [][\A i \in Item :
       Abandoned(i) /\ items[i].lease.token # 0 /\ items[i].lease.exp <= clock
         => items'[i].lease.exp = items[i].lease.exp \/ items'[i].lease.token = 0]_vars
=============================================================================
