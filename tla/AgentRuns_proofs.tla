-------------------------- MODULE AgentRuns_proofs --------------------------
(***************************************************************************)
(* What one reconciler, that may die and start again at any point, does to *)
(* AgentRuns: it starts the executor of a run once, keeps the first        *)
(* outcome, and brings work to review only on a run that succeeded.        *)
(*                                                                         *)
(* Sole is a hypothesis of the theorems, not an assumption on the          *)
(* constants: with two threads whose ticks overlap the statements are      *)
(* false (see the run runtime_double_execution).                           *)
(***************************************************************************)
EXTENDS WorkRuntime_proofs

\* Ticks do not overlap.
Sole == \A t, u \in Thread : t = u

(***************************************************************************)
(* Runs.  A run without a status was never started; a thread that is about *)
(* to save a run has it in hand as the last look at agent control left it. *)
(***************************************************************************)
RunsOK ==
  /\ \A r \in Token : /\ executions[r] <= 1
                      /\ runs[r] = "none" => executions[r] = 0
  /\ \A k \in Token : runs[Stray(k)] \in {"none", "failed"}

Saving == {"create", "admit", "fail"}
Saved  == {"recovered", "observed", "dispatched", "failed"}

HandOK(pc, cur, seen) ==
  /\ pc \in Saving => runs[cur.run] = "none"
  /\ pc = "execute" => runs[cur.run] = "running"
  /\ pc \in Saved => seen = runs[cur.run]

RunInv == TypeInv /\ RunsOK /\ \A t \in Thread : HandOK(thr[t].pc, Cur(t), thr[t].seen)

\* Positions at which a thread has no run in hand whose status it relies on.
Elsewhere == Position \ (Saving \cup Saved \cup {"execute"})

\* A thread that is elsewhere after a step, which leaves agent control alone.
LEMMA ElsewhereStep ==
  ASSUME Sole, RunInv, TypeInv', UNCHANGED agents, NEW t \in Thread, thr'[t].pc \in Elsewhere
  PROVE  RunInv'
<1>1. RunsOK'
  BY DEF RunInv, RunsOK, agents
<1>2. ASSUME NEW u \in Thread PROVE HandOK(thr[u].pc, Cur(u), thr[u].seen)'
  <2>1. thr'[u].pc \in Elsewhere
    BY DEF Sole
  <2> QED BY <2>1 DEF Elsewhere, HandOK, Saving, Saved
<1> QED BY <1>1, <1>2 DEF RunInv

\* The other ways to keep the invariant: the thread relies on what the runs are now.
LEMMA HandStep ==
  ASSUME Sole, RunInv, TypeInv', RunsOK', NEW t \in Thread, NEW pc, NEW todo, NEW cur, NEW seen,
         NEW from, Moved(t, pc, todo, cur, seen, from),
         /\ pc \in Saving => runs'[cur.run] = "none"
         /\ pc = "execute" => runs'[cur.run] = "running"
         /\ pc \in Saved => seen = runs'[cur.run]
  PROVE  RunInv'
<1>1. ASSUME NEW u \in Thread PROVE HandOK(thr[u].pc, Cur(u), thr[u].seen)'
  <2>1. u = t
    BY DEF Sole
  <2>2. thr'[u].pc = pc /\ thr'[u].cur = cur /\ thr'[u].seen = seen
    BY <2>1 DEF Moved
  <2> QED BY <2>2 DEF HandOK, Cur
<1> QED BY <1>1 DEF RunInv

\* Where each way to move a thread leaves it.
LEMMA MovesTo ==
  ASSUME TypeInv, NEW t \in Thread
  PROVE  /\ \A pc : Goto(t, pc) => thr'[t].pc = pc
         /\ \A pc : Loop(t, pc) => thr'[t].pc = pc
         /\ \A v : Skip(t, v) => thr'[t].pc = thr[t].pc
         /\ thr' = [thr EXCEPT ![t] = Idle] => thr'[t].pc = "idle"
         /\ \A pc, views : Read(t, pc, views) => thr'[t].pc = pc
         /\ \A w, pc, s : Continue(t, w, pc, s) => thr'[t].pc = pc
         /\ \A v, w, pc, s : Take(t, v, w, pc, s) => thr'[t].pc = pc
<1>1. thr \in [Thread -> ThreadType] /\ thr[t] \in ThreadType
  BY DEF TypeInv, ThreadsOK
<1>2. \A pc : Goto(t, pc) => thr'[t].pc = pc
  BY <1>1 DEF Goto, ThreadType
<1>3. \A pc : Loop(t, pc) => thr'[t].pc = pc
  BY <1>1 DEF Loop, Idle, ThreadType
<1>4. \A v : Skip(t, v) => thr'[t].pc = thr[t].pc
  BY <1>1 DEF Skip, ThreadType
<1>5. thr' = [thr EXCEPT ![t] = Idle] => thr'[t].pc = "idle"
  BY <1>1 DEF Idle, ThreadType
<1>6. \A pc, views : Read(t, pc, views) => thr'[t].pc = pc
  BY <1>1 DEF Read, ThreadType
<1>7. \A w, pc, s : Continue(t, w, pc, s) => thr'[t].pc = pc
  BY <1>1 DEF Continue, ThreadType
<1>8. \A v, w, pc, s : Take(t, v, w, pc, s) => thr'[t].pc = pc
  BY <1>1 DEF Take, ThreadType
<1> QED BY <1>2, <1>3, <1>4, <1>5, <1>6, <1>7, <1>8

\* What the steps that leave agent control alone end at.
LEMMA Positions ==
  ASSUME RuntimeAssumption, TypeInv, NEW t \in Thread,
         \/ StartTick(t) \/ Ingest(t) \/ BeginRenew(t) \/ Renew(t) \/ ReleaseExpired(t)
         \/ BeginRecover(t) \/ BeginSync(t) \/ BeginPlan(t) \/ Lease(t) \/ Prepare(t)
         \/ Submit(t) \/ FoldReceipt(t) \/ Mark(t) \/ SetObserved(t) \/ FinishTick(t) \/ Crash(t)
  PROVE  UNCHANGED agents /\ thr'[t].pc \in Elsewhere
<1>1. thr[t] \in ThreadType /\ thr \in [Thread -> ThreadType]
  BY DEF TypeInv, ThreadsOK
<1>2. UNCHANGED agents
  BY DEF StartTick, Ingest, BeginRenew, Renew, ReleaseExpired, BeginRecover, BeginSync, BeginPlan,
         Lease, Prepare, Submit, FoldReceipt, Mark, SetObserved, FinishTick, Crash
<1> DEFINE P == {"sources", "renew", "released", "recover", "sync", "plan", "prepare",
                 "dispatch", "submitted", "catch", "aborted", "recoverMark", "syncMark",
                 "mark", "dispatchMark", "idle"}
<1>3. thr'[t].pc \in P
  <2>1. CASE StartTick(t)
    BY <1>1, <2>1 DEF StartTick, Idle
  <2>2. CASE FinishTick(t) \/ Crash(t)
    BY <2>2, MovesTo DEF FinishTick, Crash
  <2>3. CASE Ingest(t) \/ Renew(t) \/ Lease(t)
    <3>1. \/ thr[t].pc \in {"sources", "renew", "plan"} /\ \E v : Skip(t, v)
          \/ \E v, w, s : Take(t, v, w, "prepare", s)
      BY <2>3 DEF Ingest, Renew, Lease, At
    <3> QED BY <3>1, MovesTo
  <2>4. CASE BeginRenew(t) \/ BeginRecover(t) \/ BeginSync(t) \/ BeginPlan(t)
    <3>1. \E pc \in P : \E views : Read(t, pc, views)
      BY <2>4 DEF BeginRenew, BeginRecover, BeginSync, BeginPlan
    <3> QED BY <3>1, MovesTo
  <2>5. CASE ReleaseExpired(t) \/ Submit(t) \/ FoldReceipt(t)
    <3>1. \E pc \in P : Goto(t, pc)
      BY <2>5 DEF ReleaseExpired, Submit, FoldReceipt
    <3> QED BY <3>1, MovesTo
  <2>6. CASE Prepare(t)
    <3>1. (\E w, s : Continue(t, w, "dispatch", s)) \/ Loop(t, "plan")
      BY <2>6 DEF Prepare
    <3> QED BY <3>1, MovesTo
  <2>7. CASE Mark(t) \/ SetObserved(t)
    <3>1. \E pc \in P : Goto(t, pc) \/ Loop(t, pc)
      BY <2>7 DEF Mark, SetObserved
    <3> QED BY <3>1, MovesTo
  <2> QED BY <2>1, <2>2, <2>3, <2>4, <2>5, <2>6, <2>7
<1> QED BY <1>2, <1>3 DEF Elsewhere, Position, Dispatching, Saving, Saved

\* The runs that agent control keeps: a status once terminal stays.
KeepsOutcomes == \A r \in RunId : runs[r] \in Terminal => runs'[r] = runs[r]

\* A tick of the only reconciler keeps the invariant and the outcomes.
LEMMA RunTick ==
  ASSUME RuntimeAssumption, Sole, RunInv, TypeInv', NEW t \in Thread, Tick(t)
  PROVE  RunInv' /\ KeepsOutcomes
<1>0. /\ TypeInv /\ RunsOK /\ HandOK(thr[t].pc, Cur(t), thr[t].seen)
      /\ runs \in [RunId -> RunStatus] /\ executions \in [Token -> Nat]
  BY DEF RunInv, TypeInv, AgentsOK
<1>r. \A k \in Token : k \in RunId /\ Stray(k) \in RunId /\ Stray(k) \notin Token
  BY DEF RuntimeAssumption, Token, Stray, RunId
<1>1. CASE \/ StartTick(t) \/ Ingest(t) \/ BeginRenew(t) \/ Renew(t) \/ ReleaseExpired(t)
           \/ BeginRecover(t) \/ BeginSync(t) \/ BeginPlan(t) \/ Lease(t) \/ Prepare(t)
           \/ Submit(t) \/ FoldReceipt(t) \/ Mark(t) \/ SetObserved(t) \/ FinishTick(t)
  BY <1>0, <1>1, Positions, ElsewhereStep DEF KeepsOutcomes, agents
<1>2. CASE Recover(t)
  <2>1. PICK v \in thr[t].todo :
          Take(t, v, v, IF runs[v.run] # "none" THEN "recovered" ELSE "dispatch", runs[v.run])
    BY <1>2 DEF Recover
  <2>2. At(t, "recover") /\ v \in Views /\ v.run \in Token
    BY <1>0, <1>2, ThreadFacts DEF Recover, At, Sound, PassOf, Passes
  <2> DEFINE pc == IF runs[v.run] # "none" THEN "recovered" ELSE "dispatch"
  <2>3. runs[v.run] \in RunStatus /\ pc \in Position
    BY <1>0, <1>r, <2>2 DEF Position, Dispatching
  <2>4. Moved(t, pc, thr[t].todo \ {v}, v, runs[v.run], thr[t].pc)
    BY <1>0, <2>1, <2>2, <2>3, ThreadFacts, TakeMoves DEF At
  <2>5. UNCHANGED agents
    BY <1>2 DEF Recover
  <2>6. RunsOK'
    BY <1>0, <2>5 DEF RunsOK, agents
  <2>7. RunInv'
    BY <2>4, <2>5, <2>6, HandStep DEF agents, Saving, Saved
  <2> QED BY <2>5, <2>7 DEF KeepsOutcomes, agents
<1>3. CASE Sync(t)
  <2>0. PICK v \in thr[t].todo : \E rs : Asked(t, v, rs)
    BY <1>3 DEF Sync, Asked
  <2>1. PICK rs :
          /\ rs \in {reports[v.id], runs[v.run]}
          /\ rs = runs[v.run] \/ (rs \in Terminal /\ runs[v.run] \in Active)
          /\ runs' = [runs EXCEPT ![v.run] = rs]
          /\ IF rs \in {"none", v.obs} THEN Skip(t, v) ELSE Take(t, v, v, "observed", rs)
    BY <2>0 DEF Asked
  <2>2. At(t, "sync") /\ v \in Views /\ v.run \in RunId /\ UNCHANGED executions
    BY <1>0, <1>3, ThreadFacts DEF Sync, At, Sound, PassOf, Passes
  <2>3. rs \in RunStatus
    BY <1>0, <2>1, <2>2 DEF RunStatus
  <2>4. KeepsOutcomes
    BY <1>0, <2>1, <2>2 DEF KeepsOutcomes, Active, Terminal
  <2>5. RunsOK'
    <3>1. \A r \in RunId : runs'[r] = runs[r] \/ (runs[r] \in Active /\ runs'[r] \in Terminal)
      BY <1>0, <2>1, <2>2
    <3>2. \A r \in RunId : runs[r] \in {"none", "failed"} => runs'[r] = runs[r]
      BY <3>1 DEF Active
    <3>3. \A r \in RunId : runs'[r] = "none" => runs[r] = "none"
      BY <3>1 DEF Terminal
    <3> QED BY <1>0, <1>r, <2>2, <3>2, <3>3 DEF RunsOK
  <2>6. CASE rs \in {"none", v.obs}
    <3>1. Moved(t, thr[t].pc, thr[t].todo \ {v}, Cur(t), thr[t].seen, thr[t].from)
      BY <1>0, <2>1, <2>6, ThreadFacts, SkipMoves
    <3>2. RunInv'
      BY <2>2, <2>5, <3>1, HandStep DEF At, Saving, Saved
    <3> QED BY <2>4, <3>2
  <2>7. CASE rs \notin {"none", v.obs}
    <3>1. Moved(t, "observed", thr[t].todo \ {v}, v, rs, thr[t].pc)
      BY <1>0, <2>1, <2>2, <2>3, <2>7, ThreadFacts, TakeMoves DEF At, Position
    <3>2. runs'[v.run] = rs
      BY <1>0, <2>1, <2>2
    <3>3. RunInv'
      BY <2>5, <3>1, <3>2, HandStep DEF Saving, Saved
    <3> QED BY <2>4, <3>3
  <2> QED BY <2>6, <2>7
<1>4. CASE CheckRun(t)
  <2> DEFINE r == Cur(t).run
             found == IF At(t, "catch") THEN "failed" ELSE "dispatched"
             missing == CASE At(t, "dispatch")  -> "create"
                          [] At(t, "submitted") -> "admit"
                          [] At(t, "catch")     -> "fail"
  <2>1. /\ thr[t].pc \in {"dispatch", "submitted", "catch"} /\ r # 0 /\ UNCHANGED agents
        /\ IF RunExists(r) THEN Continue(t, Cur(t), found, runs[r])
                           ELSE Continue(t, Cur(t), missing, "none")
    BY <1>4 DEF CheckRun, At
  <2>2. r \in Token
    BY <1>0, <2>1, ThreadFacts DEF Sound, Token, RuntimeAssumption
  <2>3. /\ runs[r] \in RunStatus /\ "none" \in RunStatus
        /\ found \in Position /\ missing \in {"create", "admit", "fail"} /\ missing \in Position
    BY <1>0, <1>r, <2>1, <2>2 DEF Position, Dispatching, RunStatus, At
  <2>4. RunsOK' /\ UNCHANGED runs
    BY <1>0, <2>1 DEF RunsOK, agents
  <2>5. CASE RunExists(r)
    <3>1. Moved(t, found, thr[t].todo, Cur(t), runs[r], thr[t].from)
      BY <1>0, <2>1, <2>3, <2>5, ThreadFacts, ContinueMoves
    <3>2. RunInv'
      BY <2>4, <3>1, HandStep DEF Saving, Saved
    <3> QED BY <2>4, <3>2 DEF KeepsOutcomes
  <2>6. CASE ~RunExists(r)
    <3>1. Moved(t, missing, thr[t].todo, Cur(t), "none", thr[t].from)
      BY <1>0, <2>1, <2>3, <2>6, ThreadFacts, ContinueMoves
    <3>2. RunInv'
      BY <2>3, <2>4, <2>6, <3>1, HandStep DEF Saving, Saved, RunExists
    <3> QED BY <2>4, <3>2 DEF KeepsOutcomes
  <2> QED BY <2>5, <2>6
<1>5. CASE DispatchUnnamed(t)
  <2> DEFINE k == Cur(t).token
             w == [Cur(t) EXCEPT !.run = Stray(k)]
  <2>1. k \in Token /\ UNCHANGED executions
    BY <1>0, <1>5, ThreadFacts DEF DispatchUnnamed, At, Sound
  <2>2. w \in Views /\ w.run = Stray(k)
    <3>1. Stray(k) \in 0..(2 * MaxTokens)
      BY <1>r, <2>1 DEF RunId, RuntimeAssumption
    <3> QED BY <1>0, <3>1, ThreadFacts DEF Views
  <2>3. "failed" \in Position /\ "aborted" \in Position /\ "failed" \in RunStatus
    BY DEF Position, Dispatching, RunStatus, Terminal
  <2>4. CASE runs' = [runs EXCEPT ![Stray(k)] = "failed"] /\ Continue(t, w, "failed", "failed")
    <3>1. RunsOK'
      BY <1>0, <1>r, <2>1, <2>4 DEF RunsOK
    <3>2. KeepsOutcomes
      BY <1>0, <1>r, <2>1, <2>4 DEF KeepsOutcomes, RunsOK, Terminal
    <3>3. Moved(t, "failed", thr[t].todo, w, "failed", thr[t].from)
      BY <1>0, <2>2, <2>3, <2>4, ThreadFacts, ContinueMoves
    <3>4. runs'[w.run] = "failed"
      BY <1>0, <1>r, <2>1, <2>2, <2>4
    <3> HIDE DEF w
    <3>5. RunInv'
      BY <3>1, <3>3, <3>4, HandStep DEF Saving, Saved
    <3> QED BY <3>2, <3>5
  <2>5. CASE UNCHANGED runs /\ Goto(t, "aborted")
    <3>1. thr'[t].pc \in Elsewhere
      BY <1>0, <2>3, <2>5, MovesTo DEF Elsewhere, Saving, Saved
    <3> QED BY <2>1, <2>5, <3>1, ElsewhereStep DEF KeepsOutcomes, agents
  <2> QED BY <1>5, <2>4, <2>5 DEF DispatchUnnamed
<1>6. CASE Create(t)
  <2> DEFINE r == Cur(t).run
  <2>1. thr[t].pc = "create" /\ r \in Token /\ runs[r] = "none" /\ executions[r] = 0
    BY <1>0, <1>6, ThreadFacts DEF Create, At, Sound, HandOK, Saving, RunsOK
  <2>2. "execute" \in Position /\ "catch" \in Position
    BY DEF Position, Dispatching
  <2>3. CASE /\ runs' = [runs EXCEPT ![r] = "running"] /\ Goto(t, "execute")
             /\ executions' = [executions EXCEPT ![r] = @ + 1]
    <3>1. RunsOK'
      BY <1>0, <1>r, <2>1, <2>3 DEF RunsOK
    <3>2. KeepsOutcomes
      BY <1>0, <1>r, <2>1, <2>3 DEF KeepsOutcomes, Terminal
    <3>3. Moved(t, "execute", thr[t].todo, Cur(t), thr[t].seen, thr[t].from)
      BY <1>0, <2>2, <2>3, ThreadFacts, GotoMoves
    <3>4. runs'[r] = "running"
      BY <1>0, <1>r, <2>1, <2>3
    <3>5. RunInv'
      BY <3>1, <3>3, <3>4, HandStep DEF Saving, Saved
    <3> QED BY <3>2, <3>5
  <2>4. CASE UNCHANGED agents /\ Goto(t, "catch")
    <3>1. thr'[t].pc \in Elsewhere
      BY <1>0, <2>2, <2>4, MovesTo DEF Elsewhere, Saving, Saved
    <3> QED BY <2>4, <3>1, ElsewhereStep DEF KeepsOutcomes, agents
  <2> QED BY <1>6, <2>3, <2>4 DEF Create
<1>7. CASE Execute(t) \/ Admit(t) \/ Fail(t)
  <2> DEFINE r == Cur(t).run
  <2>1. PICK rs \in RunStatus, pc \in {"dispatched", "failed"} :
          runs' = [runs EXCEPT ![r] = rs] /\ Continue(t, Cur(t), pc, rs) /\ rs # "none"
    <3>1. CASE Execute(t)
      BY <3>1 DEF Execute, RuntimeAssumption, RunStatus, Terminal
    <3>2. CASE Admit(t)
      BY <3>2 DEF Admit, RunStatus
    <3>3. CASE Fail(t)
      BY <3>3 DEF Fail, RunStatus, Terminal
    <3> QED BY <1>7, <3>1, <3>2, <3>3
  <2>2. thr[t].pc \in {"execute", "admit", "fail"} /\ r \in Token /\ UNCHANGED executions
    BY <1>0, <1>7, ThreadFacts DEF Execute, Admit, Fail, At, Sound
  <2>3. runs[r] \in {"none", "running"}
    BY <1>0, <2>2 DEF HandOK, Saving
  <2>4. RunsOK'
    BY <1>0, <1>r, <2>1, <2>2 DEF RunsOK
  <2>5. KeepsOutcomes
    BY <1>0, <1>r, <2>1, <2>2, <2>3 DEF KeepsOutcomes, Terminal
  <2>6. Moved(t, pc, thr[t].todo, Cur(t), rs, thr[t].from)
    BY <1>0, <2>1, ThreadFacts, ContinueMoves DEF Position, Dispatching
  <2>7. runs'[r] = rs
    BY <1>0, <1>r, <2>1, <2>2
  <2>8. RunInv'
    BY <2>1, <2>4, <2>6, <2>7, HandStep DEF Saving, Saved
  <2> QED BY <2>5, <2>8
<1> QED BY <1>1, <1>2, <1>3, <1>4, <1>5, <1>6, <1>7 DEF Tick
\* Every step of the runtime with one reconciler does.
LEMMA RunStep ==
  ASSUME RuntimeAssumption, Sole, RunInv, [Next]_vars
  PROVE  RunInv' /\ KeepsOutcomes
<1>1. TypeInv'
  BY TypeStep DEF RunInv
<1>2. ASSUME NEW t \in Thread, Tick(t) PROVE RunInv' /\ KeepsOutcomes
  BY <1>1, <1>2, RunTick
<1>3. ASSUME NEW t \in Thread, Crash(t) PROVE RunInv' /\ KeepsOutcomes
  <2>1. UNCHANGED agents /\ thr'[t].pc \in Elsewhere
    BY <1>3, Positions DEF RunInv
  <2> QED BY <1>1, <2>1, ElsewhereStep DEF KeepsOutcomes, agents
<1>4. ASSUME \/ \E t \in Thread : Heartbeat(t)
             \/ \E i \in Item : SourceEdit(i) \/ PutWorkItem(i) \/ RecordVerification(i)
                                \/ CompleteWork(i)
             \/ \E d \in Token : Report(d)
             \/ TimePasses
             \/ UNCHANGED vars
      PROVE  RunInv' /\ KeepsOutcomes
  <2>1. UNCHANGED <<runs, executions, thr>>
    BY <1>4 DEF Heartbeat, SourceEdit, PutWorkItem, RecordVerification, CompleteWork, Report,
                TimePasses, vars, agents
  <2> QED BY <1>1, <2>1 DEF RunInv, RunsOK, HandOK, Cur, KeepsOutcomes
<1> QED BY <1>2, <1>3, <1>4 DEF Next

\* Initially no run exists.
LEMMA RunInit == ASSUME RuntimeAssumption, Init PROVE RunInv
<1>1. \A k \in Token : k \in RunId /\ Stray(k) \in RunId
  BY DEF RuntimeAssumption, Token, Stray, RunId
<1>2. RunsOK
  BY <1>1 DEF Init, RunsOK
<1>3. \A t \in Thread : thr[t].pc = "idle"
  BY DEF Init, Idle
<1> QED BY <1>2, <1>3, InitTypes DEF RunInv, HandOK, Saving, Saved

\* The invariant holds throughout.
LEMMA RunsInvariant == Sole => (Spec => []RunInv)
<1> SUFFICES ASSUME Sole PROVE Spec => []RunInv
  OBVIOUS
<1>1. RuntimeAssumption
  BY RuntimeAssumption
<1>2. Init => RunInv
  BY <1>1, RunInit
<1>3. RunInv /\ [Next]_vars => RunInv'
  BY <1>1, RunStep
<1> QED BY <1>2, <1>3, PTL DEF Spec

\* With ticks that do not overlap the local executor is started at most once for an
\* AgentRun, wherever the process dies and whatever a later tick recovers
\* (create-run!, dispatch-prepared!, recover-prepared-dispatches!).
THEOREM OneExecution == Sole => (Spec => []ExecutedOnce)
<1>1. RunInv => ExecutedOnce
  BY DEF RunInv, RunsOK, ExecutedOnce
<1> QED BY <1>1, RunsInvariant, PTL

\* With ticks that do not overlap the first durable outcome of an AgentRun stays
\* (record-dispatch-failure!, record-external-admission!, sync-linked-runs!).
THEOREM OutcomesStay == Sole => (Spec => TerminalRunsStable)
<1> SUFFICES ASSUME Sole PROVE Spec => TerminalRunsStable
  OBVIOUS
<1>1. RuntimeAssumption
  BY RuntimeAssumption
<1>2. RunInv /\ [Next]_vars => [\A r \in RunId : runs[r] \in Terminal => runs'[r] = runs[r]]_vars
  BY <1>1, RunStep DEF KeepsOutcomes
<1> QED BY <1>2, RunsInvariant, PTL DEF Spec, TerminalRunsStable
-----------------------------------------------------------------------------
(***************************************************************************)
(* Receipts and reviews.  Between two transactions a tick works on views   *)
(* it read earlier; what it may rely on of the item behind a view:         *)
(*   Handed  a dispatch (or its recovery) still has the lease of its item, *)
(*   Linked  a linked run is still the run of its item,                    *)
(*   ToPlan  what was planned may still be leased;                         *)
(* unless an administrator has made the item ready again.                  *)
(***************************************************************************)
Handed(its, v) ==
  \/ its[v.item].status = "ready"
  \/ its[v.item].status \in {"leased", "running"} /\ its[v.item].lease.token = v.token
Linked(its, v) == its[v.item].status = "ready" \/ its[v.item].run = v.run
ToPlan(its, v) ==
  \/ its[v.item].status = "ready"
  \/ its[v.item].status = "held" /\ its[v.item].recovery # "orphaned-run"

\* The list of a pass: one view per item, each good for what the pass does with it.
ListOK(its, pass, todo) ==
  /\ \A v, w \in todo : v.item = w.item => v = w
  /\ pass = "recover" => \A v \in todo : Handed(its, v) /\ v.run = v.token
  /\ pass = "sync" => \A v \in todo : Linked(its, v)
  /\ pass = "plan" => \A v \in todo : ToPlan(its, v)

InHand == (Dispatching \ {"mark"}) \cup {"recovered", "prepare"}
Busy   == InHand \cup {"observed", "recoverMark", "syncMark", "mark", "dispatchMark"}

\* The view in hand is not on the list any more, and names a run of its lease.
CurOK(its, pc, todo, cur) ==
  /\ pc \in Busy => \A v \in todo : v.item # cur.item
  /\ pc \in InHand => Handed(its, cur) /\ (cur.run # 0 => LeaseOf(cur.run) = cur.token)
  /\ pc = "observed" => Linked(its, cur)

Watch(its, pc, todo, cur, from) ==
  ListOK(its, PassOf(pc, from), todo) /\ CurOK(its, pc, todo, cur)

\* Lease, run and dispatch record of one item fit together.
Consistent(it) ==
  /\ it.status = "ready" => it.lease.token = 0 /\ it.run = 0 /\ it.record.run = 0
  /\ it.lease.token # 0 => /\ it.run \in {0, it.lease.token, Stray(it.lease.token)}
                           /\ it.record.run \in {0, it.lease.token}
  /\ it.status \in {"leased", "running"} => it.lease.token # 0
  /\ it.status = "held" /\ it.recovery # "orphaned-run" => it.lease.token # 0

Earned(i) ==
  /\ items[i].run # 0 /\ runs[items[i].run] = "succeeded"
  /\ \E rc \in receipts : rc.item = i /\ rc.run = items[i].run /\ rc.status = "succeeded"

Books ==
  /\ \A i \in Item : Consistent(items[i])
  /\ \A i \in Item : items[i].status \in {"review", "done"} => Earned(i)
  /\ ReceiptsMatchLease

\* From release-expired-leases! on, what is leased is leased beyond the tick's time.
Beyond == Position \ {"idle", "sources", "renew", "aborted"}
Outlasts(it, now) ==
  it.lease.token # 0 /\ it.status \in {"leased", "running", "held"} => it.lease.exp > now

ThreadWatch(t) ==
  /\ Watch(items, thr[t].pc, thr[t].todo, Cur(t), thr[t].from)
  /\ thr[t].now <= clock
  /\ thr[t].pc \in Beyond => \A i \in Item : Outlasts(items[i], thr[t].now)

MatchInv == RunInv /\ Books /\ \A t \in Thread : ThreadWatch(t)

\* A change of an item that a view of it survives.
Fits(a, b) ==
  \/ b.status = "ready"
  \/ /\ b.status = a.status /\ b.lease.token = a.lease.token /\ b.run = a.run
     /\ b.recovery = a.recovery
  \/ a.status = "review" /\ b.status = "done" /\ b.run = a.run

LEMMA FitsView ==
  ASSUME NEW old, NEW new, NEW v, Fits(old[v.item], new[v.item])
  PROVE  /\ Handed(old, v) => Handed(new, v)
         /\ Linked(old, v) => Linked(new, v)
         /\ ToPlan(old, v) => ToPlan(new, v)
BY DEF Fits, Handed, Linked, ToPlan

\* A list survives changes that fit, and losing views.
LEMMA FitsList ==
  ASSUME NEW old, NEW new, NEW pass, NEW todo, NEW rest, ListOK(old, pass, todo), rest \subseteq todo,
         \A v \in rest : Fits(old[v.item], new[v.item])
  PROVE  ListOK(new, pass, rest)
BY FitsView DEF ListOK

\* What the transition table makes of the status of an item whose run ended, or did not.
LEMMA AdvancedFacts ==
  ASSUME NEW st \in Status, NEW rs \in RunStatus, NEW res, res = Advanced(st, rs), res # "illegal"
  PROVE  /\ res = "review" => rs = "succeeded" \/ (st = "review" /\ rs = "running")
         /\ res = "done" => st = "done" /\ rs = "running"
         /\ res = "ready" => st = "ready"
         /\ res \in {"leased", "running", "held"} => st \in {"ready", "leased", "running", "held", "review"}
<1>1. CASE rs = "running"
  <2>1. res = st \/ (st = "leased" /\ res = Move(st, "running"))
    BY <1>1 DEF Advanced
  <2>2. CASE res = st
    BY <1>1, <2>2
  <2>3. CASE st = "leased" /\ res = Move(st, "running")
    BY <1>1, <2>3, MoveType
  <2> QED BY <2>1, <2>2, <2>3
<1>2. CASE rs = "held"
  <2>1. (st = "held" /\ res = "held") \/ \E from : res = Move(from, "held")
    BY <1>2 DEF Advanced
  <2>2. res = "held"
    BY <2>1, MoveType
  <2>3. st \in {"ready", "leased", "running", "held", "review"}
    <3> SUFFICES ASSUME st \in {"done", "failed", "rejected", "cancelled"} PROVE FALSE
      BY DEF Status
    <3>1. res = Move(st, "held")
      BY <1>2 DEF Advanced
    <3>2. "held" \in WorkTransitions[st]
      BY <3>1, MoveType
    <3> QED BY <3>2 DEF WorkTransitions, Status
  <2> QED BY <2>2, <2>3
<1>3. CASE rs = "succeeded"
  <2>1. (st = "review" /\ res = "review") \/ \E from : res = Move(from, "review")
    BY <1>3 DEF Advanced
  <2>2. res = "review"
    BY <2>1, MoveType
  <2> QED BY <1>3, <2>2
<1>4. CASE rs \notin {"running", "held", "succeeded"}
  <2>1. res = Move(st, rs)
    BY <1>4 DEF Advanced
  <2>2. res = rs
    BY <2>1, MoveType
  <2>3. rs \in {"none", "failed", "rejected", "cancelled"}
    BY <1>4 DEF RunStatus, Terminal
  <2> QED BY <2>2, <2>3
<1> QED BY <1>1, <1>2, <1>3, <1>4

\* Done is the end.
LEMMA DoneStays == ASSUME NEW rs, rs # "running" PROVE Advanced("done", rs) = "illegal"
<1>1. WorkTransitions["done"] = {}
  BY DEF WorkTransitions, Status
<1> QED BY <1>1 DEF Advanced, Move

\* A sole thread works on with what it has in hand.
LEMMA WatchStep ==
  ASSUME Sole, NEW t \in Thread, NEW pc, NEW todo, NEW cur, NEW from,
         thr'[t].pc = pc, thr'[t].todo = todo, thr'[t].cur = cur, thr'[t].from = from,
         thr'[t].now <= clock', Watch(items', pc, todo, cur, from),
         pc \in Beyond => \A i \in Item : Outlasts(items'[i], thr'[t].now)
  PROVE  (\A u \in Thread : ThreadWatch(u))'
<1>1. ASSUME NEW u \in Thread
      PROVE  /\ Watch(items', thr'[u].pc, thr'[u].todo, thr'[u].cur, thr'[u].from)
             /\ thr'[u].now <= clock'
             /\ thr'[u].pc \in Beyond => \A i \in Item : Outlasts(items'[i], thr'[u].now)
  BY DEF Sole
<1> QED BY <1>1 DEF ThreadWatch, Cur, Watch, ListOK, CurOK, Handed, Linked, ToPlan, PassOf, Outlasts

\* Where the thread is no more in a pass than its list allows, and has nothing in hand.
LEMMA NothingInHand ==
  ASSUME NEW its, NEW pc, NEW todo, NEW cur, NEW from, pc \notin Busy,
         ListOK(its, PassOf(pc, from), todo)
  PROVE  Watch(its, pc, todo, cur, from)
BY DEF Watch, CurOK, InHand, Busy

\* An item that was brought to review by a run that succeeded remains so.
LEMMA BooksStep ==
  ASSUME RuntimeAssumption, TypeInv, Books, KeepsOutcomes, receipts \subseteq receipts',
         \A rc \in receipts' : rc \in receipts \/ rc.token = LeaseOf(rc.run),
         \A i \in Item : Consistent(items'[i]),
         \A i \in Item : items'[i].status \in {"review", "done"} =>
            \/ Earned(i)'
            \/ items[i].status \in {"review", "done"} /\ items'[i].run = items[i].run
  PROVE  Books'
<1>1. ASSUME NEW i \in Item, Earned(i), items'[i].run = items[i].run PROVE Earned(i)'
  <2>1. items[i].run \in RunId
    <3>1. items[i].run \in 0..(2 * MaxTokens) /\ items[i].run # 0
      BY <1>1, ItemFacts DEF ItemType, Earned
    <3> QED BY <3>1 DEF RunId, RuntimeAssumption
  <2>2. runs'[items'[i].run] = "succeeded"
    BY <1>1, <2>1 DEF KeepsOutcomes, Terminal, Earned
  <2> QED BY <1>1, <2>2 DEF Earned
<1>2. ASSUME NEW i \in Item, items'[i].status \in {"review", "done"} PROVE Earned(i)'
  BY <1>1, <1>2 DEF Books
<1>3. ReceiptsMatchLease'
  BY DEF Books, ReceiptsMatchLease, LeaseOf
<1>4. (\A i \in Item : Consistent(items[i]))'
  BY DEF Consistent, Stray
<1> QED BY <1>2, <1>3, <1>4 DEF Books

\* A step that leaves items and receipts alone.
LEMMA SameBooks ==
  ASSUME RuntimeAssumption, TypeInv, Books, KeepsOutcomes, UNCHANGED <<items, receipts>>
  PROVE  Books'
BY BooksStep DEF Books

\* A step that leaves the receipts alone and only makes done what was in review.
LEMMA SameReviews ==
  ASSUME RuntimeAssumption, TypeInv, Books, KeepsOutcomes, UNCHANGED receipts,
         \A i \in Item : Consistent(items'[i]),
         \A i \in Item : items'[i].status \in {"review", "done"} =>
            items[i].status \in {"review", "done"} /\ items'[i].run = items[i].run
  PROVE  Books'
BY BooksStep DEF Books

\* A dispatch goes on to its next step.
LEMMA HandedOn ==
  ASSUME NEW its, NEW pc, NEW pd, NEW todo, NEW cur, NEW from, Watch(its, pc, todo, cur, from),
         pc \in InHand, pd \in InHand \cup {"aborted"}
  PROVE  Watch(its, pd, todo, cur, from)
<1>1. PassOf(pc, from) = from /\ PassOf(pd, from) = from
  BY DEF PassOf, Passes, InHand, Dispatching
<1>2. pd # "observed" /\ (pd \in Busy => pd \in InHand)
  BY DEF InHand, Busy, Dispatching
<1>3. pc \in Busy
  BY DEF Busy
<1> QED BY <1>1, <1>2, <1>3 DEF Watch, CurOK

\* What is known of a thread and its items in a step of the matching invariant.
LEMMA MatchFacts ==
  ASSUME MatchInv, NEW t \in Thread
  PROVE  /\ TypeInv /\ Books /\ RunsOK /\ HandOK(thr[t].pc, Cur(t), thr[t].seen)
         /\ Watch(items, thr[t].pc, thr[t].todo, Cur(t), thr[t].from)
         /\ thr[t].now <= clock
         /\ thr[t].pc \in Beyond => \A i \in Item : Outlasts(items[i], thr[t].now)
BY DEF MatchInv, RunInv, ThreadWatch

\* The steps of a dispatch between its lease and its receipt.
LEMMA DispatchMatch ==
  ASSUME RuntimeAssumption, Sole, MatchInv, KeepsOutcomes, NEW t \in Thread,
         CheckRun(t) \/ DispatchUnnamed(t) \/ Create(t) \/ Execute(t) \/ Submit(t) \/ Admit(t) \/ Fail(t)
  PROVE  Books' /\ (\A u \in Thread : ThreadWatch(u))'
<1>0. /\ UNCHANGED <<items, receipts, clock>>
      /\ thr[t].pc \in InHand /\ thr[t].pc \in Beyond /\ thr[t].pc \in Dispatching
  BY DEF CheckRun, DispatchUnnamed, Create, Execute, Submit, Admit, Fail, ledger, world,
         At, InHand, Beyond, Position, Dispatching
<1>1. Books'
  BY <1>0, SameBooks, MatchFacts
<1>2. CASE \E pc \in (InHand \cap Position) \cup {"aborted"}, s \in RunStatus :
             Continue(t, Cur(t), pc, s) \/ Goto(t, pc)
  <2>1. PICK pc \in (InHand \cap Position) \cup {"aborted"}, s \in RunStatus :
          Continue(t, Cur(t), pc, s) \/ Goto(t, pc)
    BY <1>2
  <2>2. pc \in Position
    BY DEF Position
  <2>3. \E seen : Moved(t, pc, thr[t].todo, Cur(t), seen, thr[t].from)
    BY <2>1, <2>2, MatchFacts, ThreadFacts, ContinueMoves, GotoMoves
  <2>4. Watch(items', pc, thr[t].todo, Cur(t), thr[t].from)
    BY <1>0, HandedOn, MatchFacts
  <2>5. /\ thr'[t].pc = pc /\ thr'[t].todo = thr[t].todo /\ thr'[t].cur = Cur(t)
        /\ thr'[t].from = thr[t].from /\ thr'[t].now = thr[t].now
    BY <2>3 DEF Moved
  <2> QED BY <1>0, <1>1, <2>4, <2>5, WatchStep, MatchFacts
<1>3. CASE DispatchUnnamed(t) /\ ~Goto(t, "aborted")
  <2> DEFINE w == [Cur(t) EXCEPT !.run = Stray(Cur(t).token)]
  <2>1. Continue(t, w, "failed", "failed") /\ Cur(t).token \in Token
    BY <1>3, MatchFacts, ThreadFacts DEF DispatchUnnamed, At, Sound
  <2>2. w.item = Cur(t).item /\ w.token = Cur(t).token /\ w.run = Stray(Cur(t).token)
    BY MatchFacts, ThreadFacts DEF Views
  <2>3. LeaseOf(w.run) = w.token
    BY <2>1, <2>2, LeaseOfRuns
  <2>4. w \in Views
    <3>1. Stray(Cur(t).token) \in 0..(2 * MaxTokens)
      BY <2>1, LeaseOfRuns DEF RunId, RuntimeAssumption
    <3> QED BY <3>1, MatchFacts, ThreadFacts DEF Views
  <2> HIDE DEF w
  <2>5. Moved(t, "failed", thr[t].todo, w, "failed", thr[t].from)
    BY <2>1, <2>4, MatchFacts, ThreadFacts, ContinueMoves DEF Position, Dispatching, RunStatus, Terminal
  <2>6. Watch(items, "failed", thr[t].todo, Cur(t), thr[t].from)
    BY <1>0, HandedOn, MatchFacts DEF InHand, Dispatching
  <2>7. Watch(items, "failed", thr[t].todo, w, thr[t].from)
    BY <2>2, <2>3, <2>6 DEF Watch, CurOK, Handed, Busy, InHand, Dispatching
  <2>8. /\ thr'[t].pc = "failed" /\ thr'[t].todo = thr[t].todo /\ thr'[t].cur = w
        /\ thr'[t].from = thr[t].from /\ thr'[t].now = thr[t].now
    BY <2>5 DEF Moved
  <2> QED BY <1>0, <1>1, <2>7, <2>8, WatchStep, MatchFacts
<1> DEFINE H == InHand \cap Position
<1>4. {"dispatched", "failed", "create", "admit", "fail", "execute", "catch", "submitted"} \subseteq H
  BY DEF InHand, Position, Dispatching
<1> HIDE DEF H
<1>5. CASE CheckRun(t)
  <2>1. PICK pc \in {"failed", "dispatched", "create", "admit", "fail"},
             s \in {"none", runs[Cur(t).run]} : Continue(t, Cur(t), pc, s)
    BY <1>5 DEF CheckRun, At
  <2>2. Cur(t).run \in RunId
    BY <1>5, MatchFacts, ThreadFacts, LeaseOfRuns DEF CheckRun, At, Sound, Token, RunId, RuntimeAssumption
  <2>3. s \in RunStatus
    BY <2>1, <2>2, MatchFacts DEF TypeInv, AgentsOK, RunStatus
  <2> QED BY <1>2, <1>4, <2>1, <2>3 DEF H
<1>6. CASE Create(t) \/ Submit(t) \/ (DispatchUnnamed(t) /\ Goto(t, "aborted"))
  <2>1. \E pc \in H \cup {"aborted"} : Goto(t, pc)
    BY <1>4, <1>6 DEF Create, Submit
  <2> QED BY <1>2, <2>1 DEF H, RunStatus
<1>7. CASE Execute(t) \/ Admit(t) \/ Fail(t)
  <2>1. PICK pc \in {"dispatched", "failed"}, s \in RunStatus : Continue(t, Cur(t), pc, s)
    BY <1>7 DEF Execute, Admit, Fail, RuntimeAssumption, RunStatus, Terminal
  <2> QED BY <1>2, <1>4, <2>1 DEF H
<1> QED BY <1>3, <1>5, <1>6, <1>7

\* A tick starts or ends, or its process dies.
LEMMA EndsMatch ==
  ASSUME RuntimeAssumption, Sole, MatchInv, KeepsOutcomes, NEW t \in Thread,
         StartTick(t) \/ FinishTick(t) \/ Crash(t)
  PROVE  Books' /\ (\A u \in Thread : ThreadWatch(u))'
<1>0. UNCHANGED <<items, receipts, clock>> /\ thr \in [Thread -> ThreadType] /\ clock \in Nat
  BY MatchFacts, ThreadFacts DEF StartTick, FinishTick, Crash, ledger, world, TypeInv, WorldOK,
     RuntimeAssumption
<1>1. Books'
  BY <1>0, SameBooks, MatchFacts
<1>2. CASE StartTick(t)
  <2> DEFINE card(i) == [NoView EXCEPT !.item = i, !.basis = source[i]]
             cards == {card(i) : i \in {j \in Item : source[j] # bases[j]}}
  <2>1. thr' = [thr EXCEPT ![t] = [Idle EXCEPT !.pc = "sources", !.now = clock, !.todo = cards]]
    BY <1>2 DEF StartTick
  <2>2. \A i \in Item : card(i).item = i
    BY DEF NoView
  <2> HIDE DEF card
  <2>3. \A v, w \in cards : v.item = w.item => v = w
    BY <2>2
  <2> HIDE DEF cards
  <2>4. /\ thr'[t].pc = "sources" /\ thr'[t].todo = cards /\ thr'[t].cur = NoView
        /\ thr'[t].from = "none" /\ thr'[t].now = clock
    BY <1>0, <2>1 DEF Idle
  <2>5. Watch(items', "sources", cards, NoView, "none")
    BY <2>3, NothingInHand DEF ListOK, PassOf, Passes, Busy, InHand, Dispatching
  <2> QED BY <1>0, <1>1, <2>4, <2>5, WatchStep DEF Beyond
<1>3. CASE FinishTick(t) \/ Crash(t)
  <2>1. thr' = [thr EXCEPT ![t] = Idle]
    BY <1>3 DEF FinishTick, Crash
  <2>2. /\ thr'[t].pc = "idle" /\ thr'[t].todo = {} /\ thr'[t].cur = NoView
        /\ thr'[t].from = "none" /\ thr'[t].now = 0
    BY <1>0, <2>1 DEF Idle
  <2>3. Watch(items', "idle", {}, NoView, "none")
    BY NothingInHand DEF ListOK, Busy, InHand, Dispatching
  <2>4. thr'[t].now <= clock' /\ "idle" \notin Beyond
    BY <1>0, <2>2 DEF Beyond
  <2> QED BY <1>1, <2>2, <2>3, <2>4, WatchStep
<1> QED BY <1>2, <1>3

\* A pass starts with what it read in one transaction.
LEMMA BeginMatch ==
  ASSUME RuntimeAssumption, Sole, MatchInv, KeepsOutcomes, NEW t \in Thread,
         BeginRenew(t) \/ BeginRecover(t) \/ BeginSync(t) \/ BeginPlan(t)
  PROVE  Books' /\ (\A u \in Thread : ThreadWatch(u))'
<1>0. /\ UNCHANGED <<items, receipts, clock>>
      /\ thr[t].pc \in {"sources", "released", "recover", "sync"} /\ thr[t].from = "none"
      /\ thr \in [Thread -> ThreadType]
  <2>1. /\ UNCHANGED <<items, receipts, clock>>
        /\ thr[t].pc \in {"sources", "released", "recover", "sync"}
    BY DEF BeginRenew, BeginRecover, BeginSync, BeginPlan, ledger, world, At
  <2> QED BY <2>1, MatchFacts, ThreadFacts DEF Sound, Passes
<1>1. Books'
  BY <1>0, SameBooks, MatchFacts
<1>2. ASSUME NEW pc \in {"renew", "recover", "sync", "plan"}, NEW views, Read(t, pc, views),
             ListOK(items, PassOf(pc, "none"), views), pc # "renew" => thr[t].pc \in Beyond
      PROVE  (\A u \in Thread : ThreadWatch(u))'
  <2>1. /\ thr'[t].pc = pc /\ thr'[t].todo = views /\ thr'[t].cur = Cur(t)
        /\ thr'[t].from = "none" /\ thr'[t].now = thr[t].now
    BY <1>0, <1>2 DEF Read, ThreadType, Cur
  <2>2. Watch(items', pc, views, Cur(t), "none")
    BY <1>0, <1>2, NothingInHand DEF Busy, InHand, Dispatching
  <2>3. pc \in Beyond => \A i \in Item : Outlasts(items[i], thr[t].now)
    BY <1>2, MatchFacts DEF Beyond
  <2> QED BY <1>0, <2>1, <2>2, <2>3, WatchStep, MatchFacts
<1>3. ASSUME NEW i \in Item PROVE Consistent(items[i]) /\ Shaped(items[i])
  BY MatchFacts, ItemFacts DEF Books
<1>4. CASE BeginRenew(t)
  <2> DEFINE view(i) == [NoView EXCEPT !.item = i, !.token = items[i].lease.token]
             views == {view(i) : i \in {j \in Item : /\ items[j].lease.token # 0
                                                     /\ items[j].run # 0
                                                     /\ runs[items[j].run] \in Active}}
  <2>1. Read(t, "renew", views)
    BY <1>4 DEF BeginRenew
  <2>2. \A i \in Item : view(i).item = i
    BY DEF NoView
  <2> HIDE DEF view
  <2>3. ListOK(items, PassOf("renew", "none"), views)
    BY <2>2 DEF ListOK, PassOf, Passes
  <2> QED BY <1>1, <1>2, <2>1, <2>3
<1>5. CASE BeginRecover(t)
  <2> DEFINE view(i) == [NoView EXCEPT !.item = i, !.token = items[i].lease.token,
                                       !.run = items[i].record.run, !.id = items[i].record.id]
             views == {view(i) : i \in {j \in Item : /\ items[j].record.status = "planned"
                                                     /\ items[j].status \in {"leased", "running"}}}
  <2>1. Read(t, "recover", views) /\ thr[t].pc = "released"
    BY <1>5 DEF BeginRecover, At
  <2>2. \A i \in Item : /\ view(i).item = i /\ view(i).token = items[i].lease.token
                         /\ view(i).run = items[i].record.run
    BY DEF NoView
  <2>3. ASSUME NEW i \in Item, items[i].record.status = "planned",
               items[i].status \in {"leased", "running"}
        PROVE  items[i].record.run = items[i].lease.token
    BY <1>3, <2>3 DEF Consistent, Shaped
  <2> HIDE DEF view
  <2>4. ASSUME NEW v \in views PROVE Handed(items, v) /\ v.run = v.token
    BY <2>2, <2>3 DEF Handed
  <2>5. ListOK(items, PassOf("recover", "none"), views)
    BY <2>2, <2>4 DEF ListOK, PassOf, Passes
  <2> QED BY <1>1, <1>2, <2>1, <2>5 DEF Beyond, Position
<1>6. CASE BeginSync(t)
  <2> DEFINE view(i) == [NoView EXCEPT !.item = i, !.run = items[i].run, !.obs = items[i].obs,
                                       !.id = items[i].record.id]
             views == {view(i) : i \in {j \in Item : items[j].run # 0}}
  <2>1. Read(t, "sync", views) /\ thr[t].pc = "recover"
    BY <1>6 DEF BeginSync, At
  <2>2. \A i \in Item : view(i).item = i /\ view(i).run = items[i].run
    BY DEF NoView
  <2> HIDE DEF view
  <2>3. ListOK(items, PassOf("sync", "none"), views)
    BY <2>2 DEF ListOK, PassOf, Passes, Linked
  <2> QED BY <1>1, <1>2, <2>1, <2>3 DEF Beyond, Position
<1>7. CASE BeginPlan(t)
  <2> DEFINE view(i) == [NoView EXCEPT !.item = i, !.content = items[i].content,
                                       !.basis = bases[i]]
             views == {view(i) : i \in {j \in Item : Plannable(j)}}
  <2>1. Read(t, "plan", views) /\ thr[t].pc = "sync"
    BY <1>7 DEF BeginPlan, At
  <2>2. \A i \in Item : view(i).item = i
    BY DEF NoView
  <2> HIDE DEF view
  <2>3. ListOK(items, PassOf("plan", "none"), views)
    BY <2>2 DEF ListOK, PassOf, Passes, ToPlan, Plannable
  <2> QED BY <1>1, <1>2, <2>1, <2>3 DEF Beyond, Position
<1> QED BY <1>4, <1>5, <1>6, <1>7

\* A fresh item fits together.
LEMMA NewConsistent ==
  ASSUME NEW c
  PROVE  Consistent(NewItem(c)) /\ NewItem(c).status = "ready" /\ NewItem(c).lease = NoLease
BY DEF Consistent, NewItem, NoLease, NoRecord

\* A renewal changes nothing but the expiry of a lease.
LEMMA RenewedItem ==
  ASSUME TypeInv, NEW i, NEW token, NEW now, RenewLease(i, token, now), NEW j \in Item
  PROVE  /\ items'[j].status = items[j].status /\ items'[j].lease.token = items[j].lease.token
         /\ items'[j].run = items[j].run /\ items'[j].record = items[j].record
         /\ items'[j].recovery = items[j].recovery
         /\ items'[j].lease.exp \in {items[j].lease.exp, now + LeaseMs}
BY ItemFacts DEF RenewLease, ItemType

\* So what fits together does so afterwards.
LEMMA RenewedConsistent ==
  ASSUME NEW a, NEW b, Consistent(a), b.status = a.status, b.lease.token = a.lease.token,
         b.run = a.run, b.record.run = a.record.run, b.recovery = a.recovery
  PROVE  Consistent(b)
BY DEF Consistent

\* A tick ingests cards, renews leases and releases what has expired.
LEMMA EarlyMatch ==
  ASSUME RuntimeAssumption, Sole, MatchInv, KeepsOutcomes, NEW t \in Thread,
         Ingest(t) \/ Renew(t) \/ ReleaseExpired(t)
  PROVE  Books' /\ (\A u \in Thread : ThreadWatch(u))'
<1>0. /\ UNCHANGED <<receipts, clock>> /\ thr[t].from = "none" /\ thr \in [Thread -> ThreadType]
      /\ items \in [Item -> ItemType]
  <2>1. UNCHANGED <<receipts, clock>> /\ thr[t].pc \in {"sources", "renew"}
    BY DEF Ingest, Renew, ReleaseExpired, world, At
  <2> QED BY <2>1, MatchFacts, ThreadFacts DEF Sound, TypeInv, LedgerOK
<1>1. ASSUME NEW i \in Item PROVE Consistent(items[i]) /\ items[i] \in ItemType
  BY MatchFacts, ItemFacts DEF Books
<1>2. ASSUME NEW v \in thr[t].todo, Skip(t, v), thr[t].pc \in {"sources", "renew"}
      PROVE  (\A u \in Thread : ThreadWatch(u))'
  <2>1. /\ thr'[t].pc = thr[t].pc /\ thr'[t].todo = thr[t].todo \ {v} /\ thr'[t].cur = Cur(t)
        /\ thr'[t].from = "none" /\ thr'[t].now = thr[t].now
    BY <1>0, <1>2 DEF Skip, ThreadType, Cur
  <2>2. ListOK(items, "none", thr[t].todo)
    BY <1>0, <1>2, MatchFacts DEF Watch, PassOf, Passes
  <2>3. ListOK(items', "none", thr[t].todo \ {v})
    BY <2>2 DEF ListOK
  <2>4. Watch(items', thr[t].pc, thr[t].todo \ {v}, Cur(t), "none")
    BY <1>2, <2>3, NothingInHand DEF PassOf, Passes, Busy, InHand, Dispatching
  <2> QED BY <1>0, <1>2, <2>1, <2>4, WatchStep, MatchFacts DEF Beyond
<1>3. CASE Ingest(t)
  <2>1. PICK v \in thr[t].todo :
          /\ items' = items \/ items' = [items EXCEPT ![v.item] = NewItem(v.basis)]
          /\ Skip(t, v) /\ thr[t].pc = "sources"
    BY <1>3 DEF Ingest, At
  <2>2. ASSUME NEW i \in Item
        PROVE  items'[i] = items[i] \/ \E c : items'[i] = NewItem(c)
    BY <1>0, <2>1
  <2>3. ASSUME NEW i \in Item PROVE Consistent(items'[i])
    BY <1>1, <2>2, NewConsistent
  <2>4. ASSUME NEW i \in Item, items'[i].status \in {"review", "done"}
        PROVE  items'[i] = items[i]
    BY <2>2, <2>4, NewConsistent
  <2>5. Books'
    BY <1>0, <2>3, <2>4, SameReviews, MatchFacts
  <2> QED BY <1>2, <2>1, <2>5
<1>4. CASE Renew(t)
  <2>1. PICK v \in thr[t].todo :
          RenewLease(v.item, v.token, thr[t].now) /\ Skip(t, v) /\ thr[t].pc = "renew"
    BY <1>4 DEF Renew, At
  <2>2. ASSUME NEW i \in Item
        PROVE  /\ Consistent(items'[i])
               /\ items'[i].status = items[i].status /\ items'[i].run = items[i].run
    BY <1>1, <2>1, MatchFacts, RenewedItem, RenewedConsistent
  <2>3. Books'
    BY <1>0, <2>2, SameReviews, MatchFacts
  <2> QED BY <1>2, <2>1, <2>3
<1>5. CASE ReleaseExpired(t)
  <2>1. /\ thr[t].pc = "renew" /\ thr[t].todo = {} /\ Goto(t, "released")
        /\ \A i \in Item : items'[i] = Released(items[i], thr[t].now)
    BY <1>5 DEF ReleaseExpired, At
  <2>2. ASSUME NEW i \in Item, NEW x, x = Released(items[i], thr[t].now)
        PROVE  /\ Consistent(x) /\ Outlasts(x, thr[t].now)
               /\ x.status \in {"review", "done"} => x = items[i]
    <3>1. /\ items[i].lease.exp \in Nat /\ thr[t].now \in Nat
          /\ items[i] = [status |-> items[i].status, content |-> items[i].content,
                         lease |-> items[i].lease, run |-> items[i].run, record |-> items[i].record,
                         obs |-> items[i].obs, recovery |-> items[i].recovery]
      <4>1. items[i].lease.exp \in Time
        BY <1>1 DEF ItemType
      <4>2. thr[t].now \in 0..MaxClock
        BY MatchFacts, ThreadFacts
      <4> QED BY <1>1, <4>1, <4>2 DEF Time, RuntimeAssumption, ItemType
    <3>2. CASE items[i].lease.token = 0 \/ items[i].lease.exp > thr[t].now
      BY <1>1, <2>2, <3>1, <3>2 DEF Released, Live, Outlasts
    <3>3. CASE items[i].lease.token # 0 /\ ~(items[i].lease.exp > thr[t].now)
      <4>1. CASE items[i].status = "leased"
        <5>1. x = [status |-> "ready", content |-> items[i].content, lease |-> NoLease, run |-> 0,
                   record |-> NoRecord, obs |-> items[i].obs, recovery |-> "lease-expired"]
          BY <2>2, <3>1, <3>3, <4>1 DEF Released, Live
        <5> QED BY <5>1 DEF Consistent, Outlasts, NoLease, NoRecord
      <4>2. CASE items[i].status \in {"running", "held"}
        <5>1. x = [status |-> "held", content |-> items[i].content, lease |-> NoLease,
                   run |-> items[i].run, record |-> items[i].record, obs |-> items[i].obs,
                   recovery |-> "orphaned-run"]
          BY <2>2, <3>1, <3>3, <4>2 DEF Released, Live
        <5> QED BY <5>1 DEF Consistent, Outlasts, NoLease
      <4>3. CASE items[i].status \notin {"leased", "running", "held"}
        <5>1. x = items[i]
          BY <2>2, <3>3, <4>3 DEF Released, Live
        <5> QED BY <1>1, <4>3, <5>1 DEF Outlasts
      <4> QED BY <4>1, <4>2, <4>3
    <3> QED BY <3>2, <3>3
  <2>3. Books'
    BY <1>0, <2>1, <2>2, SameReviews, MatchFacts
  <2>4. /\ thr'[t].pc = "released" /\ thr'[t].todo = {} /\ thr'[t].cur = Cur(t)
        /\ thr'[t].from = "none" /\ thr'[t].now = thr[t].now
    BY <1>0, <2>1 DEF Goto, ThreadType, Cur
  <2>5. Watch(items', "released", {}, Cur(t), "none")
    BY NothingInHand DEF ListOK, Busy, InHand, Dispatching
  <2> QED BY <1>0, <2>1, <2>2, <2>3, <2>4, <2>5, WatchStep, MatchFacts
<1> QED BY <1>3, <1>4, <1>5

\* The next view of a list is taken in hand: no other view is of its item.
LEMMA TakenMatch ==
  ASSUME RuntimeAssumption, Sole, MatchInv, KeepsOutcomes, NEW t \in Thread, Recover(t) \/ Sync(t)
  PROVE  Books' /\ (\A u \in Thread : ThreadWatch(u))'
<1>0. UNCHANGED <<items, receipts, clock>> /\ thr \in [Thread -> ThreadType]
  BY MatchFacts, ThreadFacts DEF Recover, Sync, ledger, world
<1>1. Books'
  BY <1>0, SameBooks, MatchFacts
<1>2. CASE Recover(t)
  <2>1. PICK v \in thr[t].todo, pc \in {"recovered", "dispatch"} :
          Take(t, v, v, pc, runs[v.run]) /\ thr[t].pc = "recover"
    BY <1>2 DEF Recover, At
  <2>2. /\ thr'[t].pc = pc /\ thr'[t].todo = thr[t].todo \ {v} /\ thr'[t].cur = v
        /\ thr'[t].from = "recover" /\ thr'[t].now = thr[t].now
    BY <1>0, <2>1 DEF Take, ThreadType
  <2>3. v.run \in Token /\ ListOK(items, "recover", thr[t].todo)
    BY <2>1, MatchFacts, ThreadFacts DEF Sound, Watch, PassOf, Passes
  <2>4. LeaseOf(v.run) = v.token /\ Handed(items, v)
    BY <2>3, LeaseOfRuns DEF ListOK
  <2>5. Watch(items', pc, thr[t].todo \ {v}, v, "recover")
    BY <1>0, <2>3, <2>4 DEF Watch, ListOK, CurOK, PassOf, Passes
  <2>6. \A i \in Item : Outlasts(items[i], thr[t].now)
    BY <2>1, MatchFacts DEF Beyond, Position
  <2> QED BY <1>0, <1>1, <2>2, <2>5, <2>6, WatchStep, MatchFacts
<1>3. CASE Sync(t)
  <2>1. PICK v \in thr[t].todo : /\ Skip(t, v) \/ \E rs : Take(t, v, v, "observed", rs)
                                /\ thr[t].pc = "sync"
    BY <1>3 DEF Sync, At
  <2>2. ListOK(items, "sync", thr[t].todo) /\ thr[t].from = "none"
    BY <2>1, MatchFacts, ThreadFacts DEF Sound, Watch, PassOf, Passes
  <2>3. ListOK(items', "sync", thr[t].todo \ {v})
    BY <1>0, <2>2 DEF ListOK
  <2>4. \A i \in Item : Outlasts(items[i], thr[t].now)
    BY <2>1, MatchFacts DEF Beyond, Position
  <2>5. CASE Skip(t, v)
    <3>1. /\ thr'[t].pc = "sync" /\ thr'[t].todo = thr[t].todo \ {v} /\ thr'[t].cur = Cur(t)
          /\ thr'[t].from = "none" /\ thr'[t].now = thr[t].now
      BY <1>0, <2>1, <2>2, <2>5 DEF Skip, ThreadType, Cur
    <3>2. Watch(items', "sync", thr[t].todo \ {v}, Cur(t), "none")
      BY <2>3, NothingInHand DEF PassOf, Passes, Busy, InHand, Dispatching
    <3> QED BY <1>0, <1>1, <2>4, <3>1, <3>2, WatchStep, MatchFacts
  <2>6. ASSUME NEW rs, Take(t, v, v, "observed", rs)
        PROVE  Books' /\ (\A u \in Thread : ThreadWatch(u))'
    <3>0. thr[t].pc = "sync" /\ thr[t].todo \in SUBSET Views /\ v \in Views
      BY <2>1, MatchFacts, ThreadFacts
    <3>1. /\ thr'[t].pc = "observed" /\ thr'[t].todo = thr[t].todo \ {v} /\ thr'[t].cur = v
          /\ thr'[t].from = "sync" /\ thr'[t].now = thr[t].now
      BY <1>0, <2>6, <3>0 DEF Take, ThreadType
    <3>2. Watch(items', "observed", thr[t].todo \ {v}, v, "sync")
      BY <1>0, <2>2, <2>3 DEF Watch, ListOK, CurOK, PassOf, Passes, InHand, Dispatching
    <3> QED BY <1>0, <1>1, <2>4, <3>1, <3>2, WatchStep, MatchFacts
  <2> QED BY <2>1, <2>5, <2>6
<1> QED BY <1>2, <1>3

\* A lease is granted only on a ready item: what the plan saw held still has a lease
\* that outlasts the tick.
LEMMA LeaseMatch ==
  ASSUME RuntimeAssumption, Sole, MatchInv, KeepsOutcomes, NEW t \in Thread, Lease(t)
  PROVE  Books' /\ (\A u \in Thread : ThreadWatch(u))'
<1>0. /\ UNCHANGED <<receipts, clock>> /\ thr[t].pc = "plan" /\ thr[t].from = "none"
      /\ thr \in [Thread -> ThreadType] /\ items \in [Item -> ItemType]
      /\ ListOK(items, "plan", thr[t].todo)
      /\ \A i \in Item : Outlasts(items[i], thr[t].now)
  <2>1. UNCHANGED <<receipts, clock>> /\ thr[t].pc = "plan"
    BY DEF Lease, world, At
  <2> QED BY <2>1, MatchFacts, ThreadFacts
          DEF Sound, TypeInv, LedgerOK, Passes, PassOf, Watch, Beyond, Position
<1>1. ASSUME NEW i \in Item PROVE Consistent(items[i]) /\ items[i] \in ItemType
  BY MatchFacts, ItemFacts DEF Books
<1>2. PICK v \in thr[t].todo :
        IF LeaseGranted(v, thr[t].now)
        THEN /\ fencing < MaxTokens
             /\ items' = [items EXCEPT ![v.item].status = "leased",
                            ![v.item].lease = [token |-> NextToken(v.item), content |-> v.content,
                                               exp |-> thr[t].now + LeaseMs]]
             /\ Take(t, v, [NoView EXCEPT !.item = v.item, !.token = NextToken(v.item)],
                     "prepare", "none")
        ELSE UNCHANGED items /\ Skip(t, v)
  BY DEF Lease
<1>3. v.item \in Item /\ thr[t].now \in Nat
  <2>1. v.item \in Item /\ thr[t].now \in 0..MaxClock
    BY MatchFacts, ThreadFacts DEF Views
  <2> QED BY <2>1 DEF RuntimeAssumption
<1>4. CASE ~LeaseGranted(v, thr[t].now)
  <2>1. Books'
    BY <1>0, <1>2, <1>4, SameBooks, MatchFacts
  <2>2. /\ thr'[t].pc = "plan" /\ thr'[t].todo = thr[t].todo \ {v} /\ thr'[t].cur = Cur(t)
        /\ thr'[t].from = "none" /\ thr'[t].now = thr[t].now
    BY <1>0, <1>2, <1>4 DEF Skip, ThreadType, Cur
  <2>3. ListOK(items', "plan", thr[t].todo \ {v})
    BY <1>0, <1>2, <1>4 DEF ListOK
  <2>4. Watch(items', "plan", thr[t].todo \ {v}, Cur(t), "none")
    BY <2>3, NothingInHand DEF PassOf, Passes, Busy, InHand, Dispatching
  <2> QED BY <1>0, <1>2, <1>4, <2>1, <2>2, <2>4, WatchStep, MatchFacts
<1>5. CASE LeaseGranted(v, thr[t].now)
  <2>0. PICK k : k = fencing + 1
    OBVIOUS
  <2> DEFINE l == [token |-> k, content |-> v.content, exp |-> thr[t].now + LeaseMs]
             w == [NoView EXCEPT !.item = v.item, !.token = k]
             a == items[v.item]
  <2>1. /\ items' = [items EXCEPT ![v.item].status = "leased", ![v.item].lease = l]
        /\ Take(t, v, w, "prepare", "none")
    BY <1>2, <1>5, <2>0 DEF NextToken
  <2>2. a.status = "ready"
    <3>1. /\ ToPlan(items, v) /\ Outlasts(a, thr[t].now) /\ ~Live(a.lease, thr[t].now)
          /\ a.status \in {"ready", "held"}
      BY <1>0, <1>3, <1>5 DEF ListOK, LeaseGranted
    <3> QED BY <1>1, <1>3, <3>1 DEF ToPlan, Outlasts, Live, Consistent
  <2>3. a.run = 0 /\ a.record.run = 0
    BY <1>1, <1>3, <2>2 DEF Consistent
  <2>4. k # 0 /\ l.token = k /\ l.exp = thr[t].now + LeaseMs /\ thr[t].now + LeaseMs > thr[t].now
    <3>1. fencing \in 0..MaxTokens
      BY MatchFacts DEF TypeInv, LedgerOK
    <3> QED BY <1>3, <2>0, <3>1 DEF RuntimeAssumption
  <2>5. w.item = v.item /\ w.token = k /\ w.run = 0
    BY DEF NoView
  <2> HIDE DEF l, w
  <2>6. /\ items'[v.item].status = "leased" /\ items'[v.item].lease = l
        /\ items'[v.item].run = a.run /\ items'[v.item].record = a.record
        /\ \A i \in Item : i # v.item => items'[i] = items[i]
    BY <1>0, <1>1, <1>3, <2>1 DEF ItemType
  <2>7. ASSUME NEW i \in Item
        PROVE  /\ Consistent(items'[i]) /\ Outlasts(items'[i], thr[t].now)
               /\ items'[i].status \in {"review", "done"} => items'[i] = items[i]
    <3>1. CASE i # v.item
      BY <1>0, <1>1, <2>6, <3>1
    <3>2. CASE i = v.item
      BY <2>3, <2>4, <2>6, <3>2 DEF Consistent, Outlasts
    <3> QED BY <3>1, <3>2
  <2>8. Books'
    BY <1>0, <2>7, SameReviews, MatchFacts
  <2>9. /\ thr'[t].pc = "prepare" /\ thr'[t].todo = thr[t].todo \ {v} /\ thr'[t].cur = w
        /\ thr'[t].from = "plan" /\ thr'[t].now = thr[t].now
    BY <1>0, <2>1 DEF Take, ThreadType
  <2>10. \A x \in thr[t].todo \ {v} : x.item # v.item /\ x.item \in Item
    BY <1>0, MatchFacts, ThreadFacts DEF ListOK, Views
  <2>11. ListOK(items', "plan", thr[t].todo \ {v})
    BY <1>0, <2>6, <2>10 DEF ListOK, ToPlan
  <2>12. Handed(items', w)
    BY <2>4, <2>5, <2>6 DEF Handed
  <2>13. Watch(items', "prepare", thr[t].todo \ {v}, w, "plan")
    BY <2>5, <2>10, <2>11, <2>12 DEF Watch, CurOK, PassOf, Passes
  <2> QED BY <1>0, <2>7, <2>8, <2>9, <2>13, WatchStep, MatchFacts
<1> QED BY <1>4, <1>5

\* A dispatch is prepared under the lease just granted, or not at all.
LEMMA PrepareMatch ==
  ASSUME RuntimeAssumption, Sole, MatchInv, KeepsOutcomes, NEW t \in Thread, Prepare(t)
  PROVE  Books' /\ (\A u \in Thread : ThreadWatch(u))'
<1> DEFINE c == Cur(t).item
           k == Cur(t).token
           old == items[c].record
           record == IF old = NoRecord THEN [id |-> k, run |-> k, status |-> "planned"] ELSE old
           w == [Cur(t) EXCEPT !.run = record.run, !.id = record.id]
<1>0. /\ UNCHANGED <<receipts, clock>> /\ thr[t].pc = "prepare" /\ thr[t].from = "plan"
      /\ thr \in [Thread -> ThreadType] /\ items \in [Item -> ItemType]
      /\ c \in Item /\ k \in Token
      /\ \A i \in Item : Outlasts(items[i], thr[t].now)
  <2>1. UNCHANGED <<receipts, clock>> /\ thr[t].pc = "prepare"
    BY DEF Prepare, world, At
  <2> QED BY <2>1, MatchFacts, ThreadFacts DEF Sound, TypeInv, LedgerOK, Views, Beyond, Position
<1>1. /\ ListOK(items, "plan", thr[t].todo) /\ Handed(items, Cur(t))
      /\ \A v \in thr[t].todo : v.item # c
  BY <1>0, MatchFacts DEF Watch, CurOK, PassOf, Passes, Busy, InHand
<1>2. ASSUME NEW i \in Item PROVE Consistent(items[i]) /\ items[i] \in ItemType
  BY MatchFacts, ItemFacts DEF Books
<1>3. \/ items[c].lease.token # k /\ UNCHANGED items /\ Loop(t, "plan")
      \/ /\ items[c].lease.token = k
         /\ items' = [items EXCEPT ![c].run = record.run, ![c].record = record]
         /\ Continue(t, w, "dispatch", "none")
  BY DEF Prepare, Fenced
<1>4. w.item = c /\ w.token = k /\ w.run = record.run
  BY MatchFacts, ThreadFacts DEF Views
<1>5. CASE UNCHANGED items /\ Loop(t, "plan")
  <2>1. Books'
    BY <1>0, <1>5, SameBooks, MatchFacts
  <2>2. /\ thr'[t].pc = "plan" /\ thr'[t].todo = thr[t].todo /\ thr'[t].cur = NoView
        /\ thr'[t].from = "none" /\ thr'[t].now = thr[t].now
    BY <1>0, <1>5 DEF Loop, Idle, ThreadType
  <2>3. Watch(items', "plan", thr[t].todo, NoView, "none")
    BY <1>1, <1>5, NothingInHand DEF PassOf, Passes, Busy, InHand, Dispatching
  <2> QED BY <1>0, <1>5, <2>1, <2>2, <2>3, WatchStep, MatchFacts
<1>6. CASE /\ items[c].lease.token = k
           /\ items' = [items EXCEPT ![c].run = record.run, ![c].record = record]
           /\ Continue(t, w, "dispatch", "none")
  <2>1. k # 0 /\ LeaseOf(k) = k
    BY <1>0, LeaseOfRuns
  <2>2. items[c].status \in {"leased", "running"} /\ record.run \in {0, k}
    BY <1>0, <1>1, <1>2, <1>6, <2>1 DEF Handed, Consistent
  <2> HIDE DEF record, w
  <2>3. /\ items'[c].status = items[c].status /\ items'[c].lease = items[c].lease
        /\ items'[c].run = record.run /\ items'[c].record = record
        /\ items'[c].recovery = items[c].recovery
        /\ \A i \in Item : i # c => items'[i] = items[i]
    BY <1>0, <1>2, <1>6 DEF ItemType
  <2>4. ASSUME NEW i \in Item
        PROVE  /\ Consistent(items'[i]) /\ Outlasts(items'[i], thr[t].now)
               /\ items'[i].status \in {"review", "done"} => items'[i] = items[i]
    <3>1. CASE i # c
      BY <1>0, <1>2, <2>3, <3>1
    <3>2. CASE i = c
      BY <1>0, <1>6, <2>1, <2>2, <2>3, <3>2 DEF Consistent, Outlasts
    <3> QED BY <3>1, <3>2
  <2>5. Books'
    BY <1>0, <2>4, SameReviews, MatchFacts
  <2>6. /\ thr'[t].pc = "dispatch" /\ thr'[t].todo = thr[t].todo /\ thr'[t].cur = w
        /\ thr'[t].from = "plan" /\ thr'[t].now = thr[t].now
    BY <1>0, <1>6 DEF Continue, ThreadType
  <2>7. \A x \in thr[t].todo : x.item \in Item
    BY MatchFacts, ThreadFacts DEF Views
  <2>8. ListOK(items', "plan", thr[t].todo)
    BY <1>1, <2>3, <2>7 DEF ListOK, ToPlan
  <2>9. Handed(items', w) /\ (w.run # 0 => LeaseOf(w.run) = w.token)
    BY <1>4, <1>6, <2>1, <2>2, <2>3 DEF Handed
  <2>10. Watch(items', "dispatch", thr[t].todo, w, "plan")
    BY <1>1, <1>4, <2>8, <2>9 DEF Watch, CurOK, PassOf, Passes
  <2> QED BY <1>0, <2>4, <2>5, <2>6, <2>10, WatchStep, MatchFacts
<1> QED BY <1>3, <1>5, <1>6

\* The run in hand, when a receipt is about to be made of it, is one of the lease that
\* the item has now; a review that was earned by it is not taken back.
LEMMA RunInHand ==
  ASSUME RuntimeAssumption, MatchInv, NEW t \in Thread,
         thr[t].pc \in {"recovered", "observed", "dispatched", "failed"}, ReceiptValid(Cur(t).item)
  PROVE  LET it == items[Cur(t).item]
             k  == it.lease.token
             r  == Cur(t).run
         IN  /\ r \in RunId /\ r # 0 /\ k # 0 /\ r \in {k, Stray(k)} /\ LeaseOf(r) = k
             /\ it.status # "ready" /\ thr[t].seen = runs[r]
             /\ it.status \in {"review", "done"} => thr[t].seen = "succeeded"
<1> DEFINE it == items[Cur(t).item]
           k  == it.lease.token
           r  == Cur(t).run
<1>1. Cur(t).item \in Item /\ r \in 0..(2 * MaxTokens)
  BY MatchFacts, ThreadFacts DEF Views
<1>2. it \in ItemType /\ Consistent(it) /\ (it.status \in {"review", "done"} => Earned(Cur(t).item))
  BY <1>1, MatchFacts, ItemFacts DEF Books
<1>3. k # 0 /\ it.status # "ready"
  BY <1>2 DEF ReceiptValid, Consistent
<1>4. k \in Token
  <2>1. k \in 0..MaxTokens
    BY <1>2 DEF ItemType
  <2> QED BY <1>3, <2>1 DEF Token, RuntimeAssumption
<1>5. r \in RunId /\ r # 0
  <2>1. r \in Token \/ r \in RunId
    BY MatchFacts, ThreadFacts DEF Sound
  <2> QED BY <2>1 DEF Token, RunId, RuntimeAssumption
<1>6. thr[t].seen = runs[r]
  BY MatchFacts DEF HandOK, Saved
<1>7. CASE thr[t].pc = "observed"
  <2>1. it.run = r
    BY <1>3, <1>7, MatchFacts DEF Watch, CurOK, Linked
  <2>2. r \in {k, Stray(k)}
    BY <1>2, <1>3, <1>5, <2>1 DEF Consistent
  <2>3. it.status \in {"review", "done"} => thr[t].seen = "succeeded"
    BY <1>2, <1>6, <2>1 DEF Earned
  <2> QED BY <1>3, <1>4, <1>5, <1>6, <2>2, <2>3, LeaseOfRuns
<1>8. CASE thr[t].pc # "observed"
  <2>1. /\ it.status \in {"leased", "running"} /\ k = Cur(t).token /\ LeaseOf(r) = Cur(t).token
    BY <1>3, <1>5, <1>8, MatchFacts DEF Watch, CurOK, Handed, InHand, Dispatching
  <2>2. r \in {k, Stray(k)}
    BY <1>4, <1>5, <2>1 DEF LeaseOf, Stray, Token, RunId, RuntimeAssumption
  <2> QED BY <1>3, <1>4, <1>5, <1>6, <2>1, <2>2
<1> QED BY <1>7, <1>8

\* apply-run-receipt! certifies a run under the lease it was started for.
LEMMA FoldMatch ==
  ASSUME RuntimeAssumption, Sole, MatchInv, KeepsOutcomes, NEW t \in Thread, FoldReceipt(t)
  PROVE  Books' /\ (\A u \in Thread : ThreadWatch(u))'
<1> DEFINE c  == Cur(t).item
           r  == Cur(t).run
           rs == thr[t].seen
           k  == items[c].lease.token
           next  == CASE At(t, "recovered") -> "recoverMark"
                      [] At(t, "observed")  -> "syncMark"
                      [] OTHER              -> "mark"
           throw == IF At(t, "dispatched") THEN "catch" ELSE "aborted"
<1>0. /\ UNCHANGED <<clock, runs>> /\ thr[t].pc \in {"recovered", "observed", "dispatched", "failed"}
      /\ thr \in [Thread -> ThreadType] /\ items \in [Item -> ItemType]
      /\ c \in Item /\ rs \in RunStatus
  <2>1. /\ UNCHANGED <<clock, runs>>
        /\ thr[t].pc \in {"recovered", "observed", "dispatched", "failed"}
    BY DEF FoldReceipt, world, agents
  <2> QED BY <2>1, MatchFacts, ThreadFacts DEF TypeInv, LedgerOK, Views
<1>1. /\ \A i \in Item : Outlasts(items[i], thr[t].now)
      /\ \A v \in thr[t].todo : v.item # c
      /\ ListOK(items, thr[t].from, thr[t].todo)
      /\ PassOf(thr[t].pc, thr[t].from) = thr[t].from
  BY <1>0, MatchFacts DEF Beyond, Position, Dispatching, Watch, CurOK, PassOf, Passes, Busy, InHand
<1>2. ASSUME NEW i \in Item PROVE Consistent(items[i]) /\ items[i] \in ItemType
  BY MatchFacts, ItemFacts DEF Books
<1>3. CASE ~CanApply(c, rs)
  <2>1. UNCHANGED <<items, receipts>> /\ Goto(t, throw)
    BY <1>3 DEF FoldReceipt
  <2>2. Books'
    BY <2>1, SameBooks, MatchFacts
  <2>3. /\ thr'[t].pc = throw /\ thr'[t].todo = thr[t].todo /\ thr'[t].cur = Cur(t)
        /\ thr'[t].from = thr[t].from /\ thr'[t].now = thr[t].now
    BY <1>0, <2>1 DEF Goto, ThreadType, Cur
  <2>4. CASE At(t, "dispatched")
    <3>1. Watch(items', "catch", thr[t].todo, Cur(t), thr[t].from)
      BY <2>1, <2>4, HandedOn, MatchFacts DEF InHand, Dispatching, At
    <3> QED BY <1>0, <1>1, <2>1, <2>2, <2>3, <2>4, <3>1, WatchStep, MatchFacts
  <2>5. CASE ~At(t, "dispatched")
    <3>1. Watch(items', "aborted", thr[t].todo, Cur(t), thr[t].from)
      BY <1>1, <2>1, NothingInHand DEF PassOf, Passes, Busy, InHand, Dispatching
    <3> QED BY <1>0, <1>1, <2>1, <2>2, <2>3, <2>5, <3>1, WatchStep, MatchFacts
  <2> QED BY <2>4, <2>5
<1>4. CASE CanApply(c, rs)
  <2>1. /\ items' = [items EXCEPT ![c].status = Advanced(@, rs), ![c].run = r]
        /\ \/ /\ receipts' = receipts
              /\ \E v \in receipts : v.item = c /\ v.run = r /\ v.status = rs
           \/ receipts' = receipts \cup {[item |-> c, run |-> r, status |-> rs, token |-> k]}
        /\ Goto(t, next)
    BY <1>4 DEF FoldReceipt, ApplyRunReceipt
  <2>2. PICK st : st = Advanced(items[c].status, rs)
    OBVIOUS
  <2>3. /\ items'[c].status = st /\ items'[c].run = r /\ items'[c].lease = items[c].lease
        /\ items'[c].record = items[c].record /\ items'[c].recovery = items[c].recovery
        /\ \A i \in Item : i # c => items'[i] = items[i]
    BY <1>0, <1>2, <2>1, <2>2 DEF ItemType
  <2>4. /\ r \in RunId /\ r # 0 /\ k # 0 /\ r \in {k, Stray(k)} /\ LeaseOf(r) = k
        /\ items[c].status # "ready" /\ rs = runs[r]
        /\ items[c].status \in {"review", "done"} => rs = "succeeded"
    BY <1>0, <1>4, RunInHand DEF CanApply
  <2>5. /\ st \in {"review", "done"} => rs = "succeeded"
        /\ st # "ready"
        /\ st \in {"leased", "running", "held"} => items[c].status \in {"leased", "running", "held"}
    <3>1. items[c].status \in Status /\ st # "illegal"
      BY <1>0, <1>2, <1>4, <2>2 DEF ItemType, CanApply
    <3>2. st \in {"leased", "running", "held"} =>
            items[c].status \in {"leased", "running", "held"} \/ rs = "succeeded"
      BY <1>0, <2>2, <2>4, <3>1, AdvancedFacts
    <3>3. rs = "succeeded" => st = "review"
      <4> SUFFICES ASSUME rs = "succeeded" PROVE st = "review"
        OBVIOUS
      <4>1. (items[c].status = "review" /\ st = "review") \/ \E from : st = Move(from, "review")
        BY <2>2 DEF Advanced
      <4> QED BY <3>1, <4>1, MoveType
    <3> QED BY <1>0, <2>2, <2>4, <3>1, <3>2, <3>3, AdvancedFacts
  <2>6. /\ receipts \subseteq receipts'
        /\ \A rc \in receipts' : rc \in receipts \/ rc.token = LeaseOf(rc.run)
        /\ \E rc \in receipts' : rc.item = c /\ rc.run = r /\ rc.status = rs
    <3> DEFINE new == [item |-> c, run |-> r, status |-> rs, token |-> k]
    <3>1. new.item = c /\ new.run = r /\ new.status = rs /\ new.token = k
      OBVIOUS
    <3>2. CASE receipts' = receipts \cup {new}
      <4> HIDE DEF new
      <4> QED BY <2>4, <3>1, <3>2
    <3> QED BY <2>1, <3>2
  <2>7. ASSUME NEW i \in Item
        PROVE  /\ Consistent(items'[i]) /\ Outlasts(items'[i], thr[t].now)
               /\ items'[i].status \in {"review", "done"} => items'[i] = items[i] \/ Earned(i)'
    <3>1. CASE i # c
      BY <1>1, <1>2, <2>3, <3>1
    <3>2. CASE i = c
      <4>1. Consistent(items'[i])
        BY <1>2, <2>3, <2>4, <2>5, <3>2 DEF Consistent
      <4>2. Outlasts(items'[i], thr[t].now)
        BY <1>0, <1>1, <2>3, <2>5, <3>2 DEF Outlasts
      <4>3. items'[i].status \in {"review", "done"} => Earned(i)'
        BY <1>0, <2>3, <2>4, <2>5, <2>6, <3>2 DEF Earned
      <4> QED BY <4>1, <4>2, <4>3
    <3> QED BY <3>1, <3>2
  <2>8. Books'
    BY <2>6, <2>7, BooksStep, MatchFacts
  <2>9. /\ thr'[t].pc = next /\ thr'[t].todo = thr[t].todo /\ thr'[t].cur = Cur(t)
        /\ thr'[t].from = thr[t].from /\ thr'[t].now = thr[t].now
    BY <1>0, <2>1 DEF Goto, ThreadType, Cur
  <2>10. ListOK(items', thr[t].from, thr[t].todo)
    <3>1. \A v \in thr[t].todo : items'[v.item] = items[v.item]
      BY <1>1, <2>3, MatchFacts, ThreadFacts DEF Views
    <3> QED BY <1>1, <3>1 DEF ListOK, Handed, Linked, ToPlan
  <2>11. next \in {"recoverMark", "syncMark", "mark"}
    OBVIOUS
  <2> HIDE DEF next
  <2>12. Watch(items', next, thr[t].todo, Cur(t), thr[t].from)
    <3>1. /\ PassOf(next, thr[t].from) = thr[t].from
          /\ next \notin InHand /\ next # "observed"
      BY <2>11 DEF PassOf, Passes, InHand, Dispatching
    <3> QED BY <1>1, <2>10, <3>1 DEF Watch, CurOK
  <2> QED BY <1>0, <2>7, <2>8, <2>9, <2>12, WatchStep, MatchFacts
<1> QED BY <1>3, <1>4

\* The dispatch record is marked, and the run's status noted on the item.
LEMMA MarkMatch ==
  ASSUME RuntimeAssumption, Sole, MatchInv, KeepsOutcomes, NEW t \in Thread, Mark(t) \/ SetObserved(t)
  PROVE  Books' /\ (\A u \in Thread : ThreadWatch(u))'
<1> DEFINE c == Cur(t).item
<1>0. /\ UNCHANGED <<receipts, clock>>
      /\ thr[t].pc \in {"recoverMark", "mark", "syncMark", "dispatchMark"}
      /\ thr \in [Thread -> ThreadType] /\ items \in [Item -> ItemType] /\ c \in Item
      /\ ListOK(items, thr[t].from, thr[t].todo)
      /\ \A v \in thr[t].todo : v.item # c
      /\ \A i \in Item : Outlasts(items[i], thr[t].now)
  <2>1. /\ UNCHANGED <<receipts, clock>>
        /\ thr[t].pc \in {"recoverMark", "mark", "syncMark", "dispatchMark"}
    BY DEF Mark, SetObserved, world
  <2> QED BY <2>1, MatchFacts, ThreadFacts DEF TypeInv, LedgerOK, Views, Watch, CurOK, PassOf, Passes,
     Busy, Beyond, Position, Dispatching
<1>1. ASSUME NEW i \in Item PROVE Consistent(items[i]) /\ items[i] \in ItemType
  BY MatchFacts, ItemFacts DEF Books
<1>2. \/ items' = [items EXCEPT ![c].record.status = "observed"]
      \/ items' = [items EXCEPT ![c].obs = thr[t].seen]
  BY DEF Mark, SetObserved
<1>3. ASSUME NEW i \in Item
      PROVE  /\ items'[i].status = items[i].status /\ items'[i].lease = items[i].lease
             /\ items'[i].run = items[i].run /\ items'[i].record.run = items[i].record.run
             /\ items'[i].recovery = items[i].recovery
  <2>1. CASE i # c
    BY <1>0, <1>2, <2>1
  <2>2. CASE i = c /\ items' = [items EXCEPT ![c].obs = thr[t].seen]
    BY <1>0, <1>1, <2>2 DEF ItemType
  <2>3. CASE i = c /\ items' = [items EXCEPT ![c].record.status = "observed"]
    <3>1. items'[c] = [items[c] EXCEPT !.record = [items[c].record EXCEPT !.status = "observed"]]
      BY <1>0, <2>3
    <3>2. items[c].record = [id |-> items[c].record.id, run |-> items[c].record.run,
                             status |-> items[c].record.status]
      BY <1>0, <1>1 DEF ItemType
    <3>3. [items[c].record EXCEPT !.status = "observed"].run = items[c].record.run
      BY <3>2
    <3> QED BY <1>0, <1>1, <2>3, <3>1, <3>3 DEF ItemType
  <2> QED BY <1>2, <2>1, <2>2, <2>3
<1>4. ASSUME NEW i \in Item PROVE Consistent(items'[i]) /\ Outlasts(items'[i], thr[t].now)
  <2>1. Outlasts(items[i], thr[t].now)
    BY <1>0
  <2> QED BY <1>1, <1>3, <2>1, RenewedConsistent DEF Outlasts
<1>5. Books'
  BY <1>0, <1>3, <1>4, SameReviews, MatchFacts
<1>6. ListOK(items', thr[t].from, thr[t].todo)
  <2>1. \A v \in thr[t].todo : v.item \in Item
    BY MatchFacts, ThreadFacts DEF Views
  <2> QED BY <1>0, <1>3, <2>1 DEF ListOK, Handed, Linked, ToPlan
<1>7. CASE thr[t].pc = "mark" /\ thr[t].from = "plan" /\ Goto(t, "dispatchMark")
  <2>1. /\ thr'[t].pc = "dispatchMark" /\ thr'[t].todo = thr[t].todo /\ thr'[t].cur = Cur(t)
        /\ thr'[t].from = "plan" /\ thr'[t].now = thr[t].now
    BY <1>0, <1>7 DEF Goto, ThreadType, Cur
  <2>2. Watch(items', "dispatchMark", thr[t].todo, Cur(t), "plan")
    BY <1>0, <1>6, <1>7 DEF Watch, CurOK, PassOf, Passes, InHand, Dispatching
  <2> QED BY <1>0, <1>4, <1>5, <2>1, <2>2, WatchStep, MatchFacts
<1>8. CASE Loop(t, thr[t].from) /\ thr[t].from \in Passes
  <2>1. /\ thr'[t].pc = thr[t].from /\ thr'[t].todo = thr[t].todo /\ thr'[t].cur = NoView
        /\ thr'[t].from = "none" /\ thr'[t].now = thr[t].now
    BY <1>0, <1>8 DEF Loop, Idle, ThreadType
  <2>2. Watch(items', thr[t].from, thr[t].todo, NoView, "none")
    BY <1>6, <1>8, NothingInHand DEF PassOf, Passes, Busy, InHand, Dispatching
  <2> QED BY <1>0, <1>4, <1>5, <2>1, <2>2, WatchStep, MatchFacts
<1>9. CASE Mark(t)
  <2>1. /\ thr[t].pc = "recoverMark" => thr[t].from = "recover"
        /\ thr[t].pc = "mark" => thr[t].from \in {"recover", "plan"}
    BY MatchFacts, ThreadFacts DEF Sound, Dispatching
  <2> QED BY <1>7, <1>8, <1>9, <2>1 DEF Mark, At, Passes
<1>10. CASE SetObserved(t)
  <2>1. /\ thr[t].pc = "syncMark" => thr[t].from = "sync"
        /\ thr[t].pc = "dispatchMark" => thr[t].from = "plan"
    BY MatchFacts, ThreadFacts DEF Sound
  <2> QED BY <1>8, <1>10, <2>1 DEF SetObserved, At, Passes
<1> QED BY <1>9, <1>10

\* What happens around the ticks leaves what a thread relies on, or makes the item ready.
LEMMA AroundMatch ==
  ASSUME RuntimeAssumption, Sole, MatchInv, KeepsOutcomes,
         \/ \E t \in Thread : Heartbeat(t)
         \/ \E i \in Item : SourceEdit(i) \/ PutWorkItem(i) \/ RecordVerification(i) \/ CompleteWork(i)
         \/ \E d \in Token : Report(d)
         \/ TimePasses
         \/ UNCHANGED vars
  PROVE  Books' /\ (\A u \in Thread : ThreadWatch(u))'
<1>0. TypeInv /\ Books /\ items \in [Item -> ItemType] /\ UNCHANGED <<thr, receipts>>
  BY DEF MatchInv, RunInv, TypeInv, LedgerOK, Heartbeat, SourceEdit, PutWorkItem, RecordVerification,
         CompleteWork, Report, TimePasses, vars, ledger
<1>1. ASSUME NEW i \in Item PROVE Consistent(items[i]) /\ items[i] \in ItemType
  BY <1>0, ItemFacts DEF Books
<1>2. clock \in Nat /\ clock' \in Nat /\ clock <= clock'
  <2>1. clock \in Nat
    BY <1>0 DEF TypeInv, WorldOK, RuntimeAssumption
  <2>2. clock' = clock \/ clock' = clock + 1
    BY DEF Heartbeat, SourceEdit, PutWorkItem, RecordVerification, CompleteWork, Report,
           TimePasses, vars, world
  <2> QED BY <2>1, <2>2
<1>3. ASSUME NEW i \in Item
      PROVE  /\ Consistent(items'[i]) /\ Fits(items[i], items'[i])
             /\ \A t \in Thread : Outlasts(items[i], thr[t].now) => Outlasts(items'[i], thr[t].now)
             /\ items'[i].status \in {"review", "done"} =>
                  items[i].status \in {"review", "done"} /\ items'[i].run = items[i].run
  <2>1. CASE items'[i] = items[i]
    BY <1>1, <2>1 DEF Fits
  <2>2. CASE \E u \in Thread : Heartbeat(u)
    <3>1. PICK u \in Thread : RenewLease(Cur(u).item, Cur(u).token, clock)
      BY <2>2 DEF Heartbeat
    <3>2. /\ items'[i].status = items[i].status /\ items'[i].lease.token = items[i].lease.token
          /\ items'[i].run = items[i].run /\ items'[i].record = items[i].record
          /\ items'[i].recovery = items[i].recovery
          /\ items'[i].lease.exp \in {items[i].lease.exp, clock + LeaseMs}
      BY <1>0, <3>1, RenewedItem
    <3>3. \A t \in Thread : thr[t].now <= clock /\ thr[t].now \in Nat
      <4>1. \A t \in Thread : thr[t].now <= clock /\ thr[t].now \in 0..MaxClock
        BY MatchFacts, ThreadFacts
      <4> QED BY <4>1 DEF RuntimeAssumption
    <3>4. \A t \in Thread : clock + LeaseMs > thr[t].now
      BY <1>2, <3>3 DEF RuntimeAssumption
    <3> QED BY <1>1, <3>2, <3>4, RenewedConsistent DEF Fits, Outlasts
  <2>3. CASE \E c : items'[i] = NewItem(c)
    BY <2>3, NewConsistent DEF Fits, NewItem, Outlasts, NoLease
  <2>4. CASE /\ items[i].status = "review" /\ items'[i].status = "done"
             /\ items'[i].run = items[i].run /\ items'[i].lease = items[i].lease
             /\ items'[i].record = items[i].record
    BY <1>1, <2>4 DEF Fits, Outlasts, Consistent
  <2>5. CASE \E j \in Item : PutWorkItem(j)
    BY <1>0, <2>1, <2>3, <2>5 DEF PutWorkItem
  <2>6. CASE \E j \in Item : CompleteWork(j)
    <3>1. PICK j \in Item : items[j].status = "review" /\ items' = [items EXCEPT ![j].status = "done"]
      BY <2>6 DEF CompleteWork
    <3> QED BY <1>0, <1>1, <2>1, <2>4, <3>1 DEF ItemType
  <2>7. CASE \/ \E j \in Item : SourceEdit(j) \/ RecordVerification(j)
             \/ \E d \in Token : Report(d)
             \/ TimePasses
             \/ UNCHANGED vars
    BY <2>1, <2>7 DEF SourceEdit, RecordVerification, Report, TimePasses, vars, ledger
  <2> QED BY <2>2, <2>5, <2>6, <2>7
<1>4. Books'
  BY <1>0, <1>3, SameReviews
<1>5. ASSUME NEW u \in Thread
      PROVE  /\ Watch(items', thr[u].pc, thr[u].todo, Cur(u), thr[u].from)
             /\ thr[u].now <= clock'
             /\ thr[u].pc \in Beyond => \A i \in Item : Outlasts(items'[i], thr[u].now)
  <2>1. /\ Watch(items, thr[u].pc, thr[u].todo, Cur(u), thr[u].from)
        /\ thr[u].now <= clock /\ thr[u].now \in Nat
        /\ thr[u].pc \in Beyond => \A i \in Item : Outlasts(items[i], thr[u].now)
        /\ Cur(u).item \in Item /\ \A v \in thr[u].todo : v.item \in Item
    BY MatchFacts, ThreadFacts DEF Views
  <2>2. ListOK(items', PassOf(thr[u].pc, thr[u].from), thr[u].todo)
    BY <1>3, <2>1, FitsList DEF Watch
  <2>3. CurOK(items', thr[u].pc, thr[u].todo, Cur(u))
    BY <1>3, <2>1, FitsView DEF Watch, CurOK
  <2> QED BY <1>2, <1>3, <2>1, <2>2, <2>3 DEF Watch
<1> QED BY <1>0, <1>4, <1>5 DEF ThreadWatch, Cur, Watch, ListOK, CurOK, Handed, Linked, ToPlan, PassOf,
     Outlasts

\* Every step of the runtime with one reconciler keeps the invariant.
LEMMA MatchStep ==
  ASSUME RuntimeAssumption, Sole, MatchInv, [Next]_vars
  PROVE  MatchInv'
<1>1. RunInv' /\ KeepsOutcomes
  BY RunStep DEF MatchInv
<1>2. ASSUME NEW t \in Thread, Tick(t) \/ Crash(t) PROVE Books' /\ (\A u \in Thread : ThreadWatch(u))'
  BY <1>1, <1>2, EndsMatch, BeginMatch, EarlyMatch, TakenMatch, LeaseMatch, PrepareMatch, DispatchMatch,
     FoldMatch, MarkMatch DEF Tick
<1>3. Books' /\ (\A u \in Thread : ThreadWatch(u))'
  BY <1>1, <1>2, AroundMatch DEF Next
<1> QED BY <1>1, <1>3 DEF MatchInv

\* It holds initially.
LEMMA MatchInit == ASSUME RuntimeAssumption, Init PROVE MatchInv
<1>1. ASSUME NEW i \in Item
      PROVE  Consistent(items[i]) /\ items[i].status = "ready" /\ items[i].lease.token = 0
  BY NewConsistent DEF Init, NewItem, NoLease
<1>2. Books
  BY <1>1 DEF Init, Books, ReceiptsMatchLease
<1>3. ASSUME NEW t \in Thread PROVE ThreadWatch(t)
  <2>1. thr[t].pc = "idle" /\ thr[t].todo = {} /\ thr[t].now = 0 /\ clock = 0
    BY DEF Init, Idle
  <2>2. Watch(items, thr[t].pc, thr[t].todo, Cur(t), thr[t].from)
    BY <2>1, NothingInHand DEF ListOK, Busy, InHand, Dispatching
  <2> QED BY <2>1, <2>2 DEF ThreadWatch, Beyond
<1> QED BY <1>2, <1>3, RunInit DEF MatchInv

\* The invariant holds throughout.
LEMMA Matching == Sole => (Spec => []MatchInv)
<1> SUFFICES ASSUME Sole PROVE Spec => []MatchInv
  OBVIOUS
<1>1. RuntimeAssumption
  BY RuntimeAssumption
<1>2. Init => MatchInv
  BY <1>1, MatchInit
<1>3. MatchInv /\ [Next]_vars => MatchInv'
  BY <1>1, MatchStep
<1> QED BY <1>2, <1>3, PTL DEF Spec

\* With ticks that do not overlap, work is in review or done only on a run that did
\* succeed, with its receipt in the ledger, wherever the process died between saving
\* the AgentRun and saving the WorkItem (apply-run-receipt!, complete-work!).
THEOREM ReviewsAreEarned == Sole => (Spec => []ReviewIsEarned)
<1>1. MatchInv => ReviewIsEarned
  BY DEF MatchInv, Books, ReviewIsEarned, Earned
<1> QED BY <1>1, Matching, PTL

\* With ticks that do not overlap a receipt certifies a run under the very lease for
\* which it was started, although a recovered dispatch, a synced run and a dispatch that
\* failed make it from what they read some transactions earlier (valid-receipt?).
THEOREM ReceiptsOfTheirLease == Sole => (Spec => []ReceiptsMatchLease)
<1>1. MatchInv => ReceiptsMatchLease
  BY DEF MatchInv, Books
<1> QED BY <1>1, Matching, PTL
-----------------------------------------------------------------------------
(***************************************************************************)
(* Renewals.  A tick renews by the time at which it started; that is never *)
(* earlier than what a heartbeat or a lease already promised, because no   *)
(* promise reaches further than the time at which a sole tick starts.      *)
(***************************************************************************)
Promised ==
  /\ \A i \in Item : items[i].lease.exp <= clock + LeaseMs
  /\ \A t \in Thread : thr[t].pc \in {"sources", "renew"} =>
       \A i \in Item : items[i].lease.exp <= thr[t].now + LeaseMs

RenewInv == MatchInv /\ OwnInv /\ Promised

\* The lease of an item after a step: as it was, gone, extended, or new.
Extended(i) ==
  items[i].lease.token # 0 /\ items'[i].lease.token = items[i].lease.token
    => items'[i].lease.exp >= items[i].lease.exp
Promise(i, till) == items'[i].lease.exp = items[i].lease.exp \/ items'[i].lease.exp <= till

\* What each step may promise, and that what it renews is extended.
LEMMA PromiseStep ==
  ASSUME RuntimeAssumption, Sole, RenewInv, [Next]_vars, NEW i \in Item
  PROVE  /\ Extended(i) /\ clock' >= clock /\ clock \in Nat /\ clock' \in Nat
         /\ items[i].lease.exp \in Nat /\ items'[i].lease.exp \in Nat
         /\ Promise(i, clock + LeaseMs)
         /\ \A t \in Thread :
              (thr'[t].pc \in {"sources", "renew"} =>
                 \/ thr'[t].now = clock /\ items'[i] = items[i]
                 \/ /\ thr[t].pc \in {"sources", "renew"} /\ thr'[t].now = thr[t].now
                    /\ thr[t].now \in Nat /\ Promise(i, thr[t].now + LeaseMs))
<1>0. TypeInv /\ TypeInv' /\ items[i] \in ItemType /\ items'[i] \in ItemType
      /\ items \in [Item -> ItemType] /\ thr \in [Thread -> ThreadType]
      /\ fencing \in Nat /\ LeaseMs \in Nat /\ clock \in Nat
  <2>1. TypeInv /\ TypeInv'
    BY TypeStep DEF RenewInv, MatchInv, RunInv
  <2>2. items' \in [Item -> ItemType]
    BY <2>1 DEF TypeInv, LedgerOK
  <2>3. items \in [Item -> ItemType] /\ thr \in [Thread -> ThreadType] /\ fencing \in 0..MaxTokens
        /\ clock \in 0..MaxClock
    BY <2>1 DEF TypeInv, LedgerOK, ThreadsOK, WorldOK
  <2> QED BY <2>1, <2>2, <2>3 DEF RuntimeAssumption
<1>1. clock' \in Nat /\ clock' >= clock /\ items[i].lease.exp \in Nat /\ items'[i].lease.exp \in Nat
  <2>1. clock' = clock \/ clock' = clock + 1
    BY DEF Next, Tick, StartTick, Ingest, BeginRenew, Renew, ReleaseExpired, BeginRecover, Recover,
       BeginSync, Sync, BeginPlan, Lease, Prepare, CheckRun, DispatchUnnamed, Create, Execute, Submit,
       Admit, Fail, FoldReceipt, Mark, SetObserved, FinishTick, Crash, Heartbeat, SourceEdit,
       PutWorkItem, RecordVerification, CompleteWork, Report, TimePasses, vars, world
  <2>2. items[i].lease.exp \in Time /\ items'[i].lease.exp \in Time
    BY <1>0 DEF ItemType
  <2> QED BY <1>0, <2>1, <2>2 DEF Time, RuntimeAssumption
<1>2. \A t \in Thread : thr[t].now \in Nat /\ thr[t].now <= clock
  <2>1. \A t \in Thread : thr[t].now \in 0..MaxClock /\ thr[t].now <= clock
    BY <1>0, MatchFacts, ThreadFacts DEF RenewInv
  <2> QED BY <2>1 DEF RuntimeAssumption
<1>3. ASSUME items'[i].lease = items[i].lease \/ items'[i].lease = NoLease
      PROVE  Extended(i) /\ \A till \in Nat : Promise(i, till)
  BY <1>1, <1>3 DEF Extended, Promise, NoLease
<1>4. ASSUME NEW t \in Thread, Tick(t) \/ Crash(t),
             ~(StartTick(t) \/ Ingest(t) \/ BeginRenew(t) \/ Renew(t))
      PROVE  \A u \in Thread : thr'[u].pc \notin {"sources", "renew"}
  <2>1. CASE CheckRun(t) \/ DispatchUnnamed(t) \/ Create(t) \/ Execute(t) \/ Admit(t) \/ Fail(t)
             \/ Submit(t) \/ Recover(t) \/ Sync(t) \/ Lease(t) \/ Prepare(t)
    <3>1. \/ \E pc : /\ pc \notin {"sources", "renew"}
                    /\ \/ Goto(t, pc) \/ Loop(t, pc) \/ (\E w, s : Continue(t, w, pc, s))
                       \/ \E v, w, s : Take(t, v, w, pc, s)
          \/ thr[t].pc \in {"sync", "plan"} /\ \E v : Skip(t, v)
      BY <2>1 DEF CheckRun, DispatchUnnamed, Create, Execute, Admit, Fail, Submit, Recover, Sync, Lease,
         Prepare, At
    <3>2. thr'[t].pc \notin {"sources", "renew"}
      BY <1>0, <3>1, MovesTo
    <3> QED BY <3>2 DEF Sole
  <2>2. CASE ReleaseExpired(t) \/ BeginRecover(t) \/ BeginSync(t) \/ BeginPlan(t) \/ FoldReceipt(t)
             \/ Mark(t) \/ SetObserved(t) \/ FinishTick(t) \/ Crash(t)
    <3>1. \/ \E pc : /\ pc \notin {"sources", "renew"}
                    /\ (Goto(t, pc) \/ Loop(t, pc) \/ \E views : Read(t, pc, views))
          \/ thr' = [thr EXCEPT ![t] = Idle]
      BY <2>2 DEF ReleaseExpired, BeginRecover, BeginSync, BeginPlan, FoldReceipt, Mark, SetObserved,
         FinishTick, Crash
    <3>2. thr'[t].pc \notin {"sources", "renew"}
      BY <1>0, <3>1, MovesTo
    <3> QED BY <3>2 DEF Sole
  <2> QED BY <1>4, <2>1, <2>2 DEF Tick
<1>5. ASSUME NEW t \in Thread, StartTick(t)
      PROVE  items' = items /\ \A u \in Thread : thr'[u].now = clock
  <2>1. items' = items /\ thr'[t].now = clock
    BY <1>0, <1>5 DEF StartTick, Idle, ledger, ThreadType
  <2> QED BY <2>1 DEF Sole
<1>6. ASSUME NEW t \in Thread, Ingest(t) \/ BeginRenew(t) \/ Renew(t)
      PROVE  /\ \A u \in Thread : thr[u].pc \in {"sources", "renew"} /\ thr'[u].now = thr[u].now
             /\ Promise(i, thr[t].now + LeaseMs)
             /\ Renew(t) \/ items'[i].lease \in {items[i].lease, NoLease}
  <2>1. thr[t].pc \in {"sources", "renew"} /\ thr'[t].now = thr[t].now
    <3>1. /\ thr[t].pc \in {"sources", "renew"}
          /\ (\E v : Skip(t, v)) \/ (\E views : Read(t, "renew", views))
      BY <1>6 DEF Ingest, BeginRenew, Renew, At
    <3>2. \A v : Skip(t, v) => thr'[t].now = thr[t].now
      BY <1>0 DEF Skip, ThreadType
    <3>3. \A views : Read(t, "renew", views) => thr'[t].now = thr[t].now
      BY <1>0 DEF Read, ThreadType
    <3> QED BY <3>1, <3>2, <3>3
  <2>2. Renew(t) \/ items'[i].lease \in {items[i].lease, NoLease}
    <3>1. CASE Ingest(t)
      <4>1. items' = items \/ \E j, c : items' = [items EXCEPT ![j] = NewItem(c)]
        BY <3>1 DEF Ingest
      <4>2. ASSUME NEW j, NEW c, items' = [items EXCEPT ![j] = NewItem(c)]
            PROVE  items'[i].lease \in {items[i].lease, NoLease}
        BY <1>0, <4>2, NewConsistent
      <4> QED BY <4>1, <4>2
    <3>2. CASE BeginRenew(t)
      BY <3>2 DEF BeginRenew, ledger
    <3> QED BY <1>6, <3>1, <3>2
  <2>3. thr[t].now + LeaseMs \in Nat
    BY <1>0, <1>2
  <2>4. Renew(t) => Promise(i, thr[t].now + LeaseMs)
    BY <1>0, <2>3, RenewedItem DEF Renew, Promise
  <2> QED BY <1>3, <2>1, <2>2, <2>3, <2>4 DEF Sole
<1>7. ASSUME NEW t \in Thread, Renew(t) PROVE Extended(i) /\ Promise(i, clock + LeaseMs)
  <2>1. thr[t].pc = "renew" /\ items[i].lease.exp <= thr[t].now + LeaseMs
    BY <1>7 DEF Renew, At, RenewInv, Promised
  <2>2. items'[i].lease.exp \in {items[i].lease.exp, thr[t].now + LeaseMs}
    BY <1>0, <1>7, RenewedItem DEF Renew
  <2> QED BY <1>0, <1>1, <1>2, <2>1, <2>2 DEF Extended, Promise
<1>8. ASSUME NEW t \in Thread, Heartbeat(t)
      PROVE  /\ Extended(i) /\ Promise(i, clock + LeaseMs)
             /\ \A u \in Thread : thr'[u].pc \notin {"sources", "renew"}
  <2>1. items[i].lease.exp <= clock + LeaseMs
    BY DEF RenewInv, Promised
  <2>2. items'[i].lease.exp \in {items[i].lease.exp, clock + LeaseMs}
    BY <1>0, <1>8, RenewedItem DEF Heartbeat
  <2>3. thr'[t].pc \notin {"sources", "renew"}
    BY <1>8 DEF Heartbeat, Dispatching
  <2>4. \A u \in Thread : thr'[u].pc \notin {"sources", "renew"}
    BY <2>3 DEF Sole
  <2> QED BY <1>0, <1>1, <2>1, <2>2, <2>4 DEF Extended, Promise
<1>9. ASSUME NEW t \in Thread, Lease(t) PROVE Extended(i) /\ Promise(i, clock + LeaseMs)
  <2>1. \/ items'[i].lease = items[i].lease
        \/ /\ items'[i].lease.token = fencing + 1
           /\ items'[i].lease.exp = thr[t].now + LeaseMs
    <3>1. PICK v \in thr[t].todo :
            \/ items' = items
            \/ items' = [items EXCEPT ![v.item].status = "leased",
                           ![v.item].lease = [token |-> fencing + 1, content |-> v.content,
                                              exp |-> thr[t].now + LeaseMs]]
      BY <1>9 DEF Lease, NextToken
    <3>2. CASE items' = items \/ i # v.item
      BY <1>0, <3>1, <3>2
    <3>3. CASE i = v.item /\ items' # items
      <4>1. items'[i].lease = [token |-> fencing + 1, content |-> v.content,
                               exp |-> thr[t].now + LeaseMs]
        BY <1>0, <3>1, <3>3 DEF ItemType
      <4> QED BY <4>1
    <3> QED BY <3>2, <3>3
  <2>2. CASE items'[i].lease = items[i].lease
    BY <1>0, <1>1, <1>3, <2>2
  <2>3. CASE /\ items'[i].lease.token = fencing + 1
             /\ items'[i].lease.exp = thr[t].now + LeaseMs
    <3>1. items[i].lease.token # 0 => items[i].lease.token <= fencing
      <4>1. items[i].lease.token # 0 => items[i].lease.token \in Token
        <5>1. items[i].lease.token \in 0..MaxTokens
          BY <1>0 DEF ItemType
        <5> QED BY <5>1 DEF Token, RuntimeAssumption
      <4>2. items[i].lease.token # 0 => LeaseOf(items[i].lease.token) <= fencing
        BY DEF RenewInv, OwnInv, Owned, OwnedItems, OwnedItem, Names
      <4> QED BY <4>1, <4>2, LeaseOfRuns
    <3>2. items'[i].lease.token = items[i].lease.token => items[i].lease.token = 0
      BY <1>0, <2>3, <3>1
    <3> QED BY <1>0, <1>1, <1>2, <2>3, <3>2 DEF Extended, Promise
  <2> QED BY <2>1, <2>2, <2>3
<1>10. ASSUME NEW t \in Thread, Tick(t) \/ Crash(t), ~Renew(t), ~Lease(t)
       PROVE  Extended(i) /\ Promise(i, clock + LeaseMs)
  <2>1. CASE \/ StartTick(t) \/ BeginRenew(t) \/ BeginRecover(t) \/ Recover(t) \/ BeginSync(t)
             \/ Sync(t) \/ BeginPlan(t) \/ CheckRun(t) \/ DispatchUnnamed(t) \/ Create(t) \/ Execute(t)
             \/ Submit(t) \/ Admit(t) \/ Fail(t) \/ FinishTick(t) \/ Crash(t)
    <3>1. items' = items
      BY <2>1 DEF StartTick, BeginRenew, BeginRecover, Recover, BeginSync, Sync, BeginPlan,
         CheckRun, DispatchUnnamed, Create, Execute, Submit, Admit, Fail, FinishTick, Crash, ledger
    <3> QED BY <1>0, <1>3, <3>1
  <2>2. CASE Ingest(t)
    <3>1. items'[i].lease \in {items[i].lease, NoLease}
      BY <1>6, <1>10, <2>2
    <3> QED BY <1>0, <1>3, <3>1
  <2>3. CASE ReleaseExpired(t)
    <3>1. items'[i].lease \in {items[i].lease, NoLease}
      BY <1>0, <2>3 DEF ReleaseExpired, Released, ItemType
    <3> QED BY <1>0, <1>3, <3>1
  <2>4. CASE Prepare(t) \/ FoldReceipt(t) \/ Mark(t) \/ SetObserved(t)
    <3>1. items'[i].lease = items[i].lease
      BY <1>0, <2>4 DEF Prepare, FoldReceipt, ApplyRunReceipt, Mark, SetObserved, ItemType
    <3> QED BY <1>0, <1>3, <3>1
  <2> QED BY <1>10, <2>1, <2>2, <2>3, <2>4 DEF Tick
<1>11. ASSUME \/ \E j \in Item : SourceEdit(j) \/ PutWorkItem(j) \/ RecordVerification(j) \/ CompleteWork(j)
              \/ \E d \in Token : Report(d)
              \/ TimePasses
              \/ UNCHANGED vars
       PROVE  thr' = thr /\ Extended(i) /\ \A till \in Nat : Promise(i, till)
  <2>1. thr' = thr /\ items'[i].lease \in {items[i].lease, NoLease}
    <3>1. \/ UNCHANGED <<items, thr>>
          \/ thr' = thr /\ \E j \in Item, c \in Nat : items' = [items EXCEPT ![j] = NewItem(c)]
          \/ thr' = thr /\ \E j \in Item : items' = [items EXCEPT ![j].status = "done"]
      <4>1. MaxEdits + puts + 1 \in Nat
        BY <1>0 DEF TypeInv, WorldOK, RuntimeAssumption
      <4> QED BY <1>11, <4>1 DEF SourceEdit, PutWorkItem, RecordVerification, CompleteWork, Report,
              TimePasses, vars, ledger
    <3>2. ASSUME NEW j, NEW c, items' = [items EXCEPT ![j] = NewItem(c)]
          PROVE  items'[i].lease \in {items[i].lease, NoLease}
      BY <1>0, <3>2, NewConsistent
    <3>3. ASSUME NEW j, items' = [items EXCEPT ![j].status = "done"]
          PROVE  items'[i].lease = items[i].lease
      BY <1>0, <3>3 DEF ItemType
    <3> QED BY <3>1, <3>2, <3>3
  <2> QED BY <1>3, <2>1
<1>12. Extended(i) /\ Promise(i, clock + LeaseMs)
  BY <1>0, <1>7, <1>8, <1>9, <1>10, <1>11 DEF Next
<1>13. ASSUME NEW u \in Thread, thr'[u].pc \in {"sources", "renew"}
       PROVE  \/ thr'[u].now = clock /\ items'[i] = items[i]
              \/ /\ thr[u].pc \in {"sources", "renew"} /\ thr'[u].now = thr[u].now
                 /\ thr[u].now \in Nat /\ Promise(i, thr[u].now + LeaseMs)
  <2>1. ASSUME NEW t \in Thread, Tick(t) \/ Crash(t)
        PROVE  \/ thr'[u].now = clock /\ items'[i] = items[i]
               \/ /\ thr[u].pc \in {"sources", "renew"} /\ thr'[u].now = thr[u].now
                  /\ thr[u].now \in Nat /\ Promise(i, thr[u].now + LeaseMs)
    <3>1. t = u
      BY DEF Sole
    <3> QED BY <1>2, <1>4, <1>5, <1>6, <1>13, <2>1, <3>1
  <2> QED BY <1>0, <1>2, <1>8, <1>11, <1>13, <2>1 DEF Next
<1> QED BY <1>0, <1>1, <1>12, <1>13

\* With ticks that do not overlap renew-lease! only ever extends the lease it renews,
\* although one tick renews by the time at which it started and a heartbeat by the
\* current time (renew-active-leases!, the dispatch heartbeat).
THEOREM RenewalsExtend == Sole => (Spec => RenewalExtends)
<1> SUFFICES ASSUME Sole PROVE Spec => RenewalExtends
  OBVIOUS
<1>1. RuntimeAssumption
  BY RuntimeAssumption
<1>2. Init => RenewInv
  <2> SUFFICES ASSUME Init PROVE RenewInv
    OBVIOUS
  <2>1. \A i \in Item : items[i].lease.exp = 0
    BY DEF Init, NewItem, NoLease
  <2>2. clock = 0 /\ \A t \in Thread : thr[t].now = 0
    BY DEF Init, Idle
  <2>3. Promised
    BY <1>1, <2>1, <2>2 DEF Promised, RuntimeAssumption
  <2> QED BY <1>1, <2>3, MatchInit, OwnedInit DEF RenewInv
<1>3. RenewInv /\ [Next]_vars => RenewInv' /\ \A i \in Item : Extended(i)
  <2> SUFFICES ASSUME RenewInv, [Next]_vars PROVE RenewInv' /\ \A i \in Item : Extended(i)
    OBVIOUS
  <2>1. MatchInv' /\ OwnInv'
    BY <1>1, MatchStep, OwnedStep DEF RenewInv
  <2>2. ASSUME NEW i \in Item PROVE Extended(i)
    BY <1>1, PromiseStep
  <2>3. LeaseMs \in Nat
    BY <1>1 DEF RuntimeAssumption
  <2>4. ASSUME NEW i \in Item PROVE items'[i].lease.exp <= clock' + LeaseMs
    <3>1. items[i].lease.exp <= clock + LeaseMs
      BY DEF RenewInv, Promised
    <3> QED BY <1>1, <2>3, <3>1, PromiseStep DEF Promise
  <2>5. ASSUME NEW t \in Thread, thr'[t].pc \in {"sources", "renew"}, NEW i \in Item
        PROVE  items'[i].lease.exp <= thr'[t].now + LeaseMs
    <3>1. items[i].lease.exp <= clock + LeaseMs
      BY DEF RenewInv, Promised
    <3>2. thr[t].pc \in {"sources", "renew"} => items[i].lease.exp <= thr[t].now + LeaseMs
      BY DEF RenewInv, Promised
    <3>3. \/ thr'[t].now = clock /\ items'[i] = items[i]
          \/ /\ thr[t].pc \in {"sources", "renew"} /\ thr'[t].now = thr[t].now
             /\ thr[t].now \in Nat /\ Promise(i, thr[t].now + LeaseMs)
      BY <1>1, <2>5, PromiseStep
    <3> QED BY <2>3, <3>1, <3>2, <3>3 DEF Promise
  <2> QED BY <2>1, <2>2, <2>4, <2>5 DEF RenewInv, Promised
<1>4. RenewInv /\ [Next]_vars =>
        [\A i \in Item :
           items[i].lease.token # 0 /\ items'[i].lease.token = items[i].lease.token
             => items'[i].lease.exp >= items[i].lease.exp]_vars
  BY <1>3 DEF Extended
<1> QED BY <1>2, <1>3, <1>4, PTL DEF Spec, RenewalExtends
=============================================================================
