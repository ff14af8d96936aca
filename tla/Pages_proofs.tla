---------------------------- MODULE Pages_proofs ----------------------------
(***************************************************************************)
(* What the pages of the application keep true, for any numbers of Bots,   *)
(* sessions, sites, wallets and requests, in any order of their answers.   *)
(* The pages share no state, so each has an inductive invariant of its own *)
(* and a step of one page is a stutter of all the others.                  *)
(***************************************************************************)
EXTENDS Pages, TLAPS, FiniteSetTheorems, SequenceTheorems

(***************************************************************************)
(* The console of Bots.                                                    *)
(***************************************************************************)

\* A Bot whose goal is being polled is waited for with one question at a time, and
\* nothing but the answer ends its polling.
Polled ==
  \A r \in inflight : r.kind = "poll" =>
    /\ active[r.bot] # None /\ active[r.bot].phase = "polling"
    /\ \A s \in inflight : s.kind = "poll" /\ s.bot = r.bot => s = r

\* What asks for a run to be aborted names a run the person stopped: the request, the
\* timer that its answer sets, and the mark on the run itself.
StopsAreAsked ==
  /\ \A r \in inflight : r.kind = "cancel" => r.run \in stopped
  /\ \A t \in stopTimers : t.run \in stopped
  /\ \A b \in Bot : active[b] # None /\ active[b].abort => active[b].id \in stopped

\* The field for a name is open for the Bot in the header, whose title is above it.
FieldIsSelected == field.open => field.bot = selected /\ field.title = selected

ConsoleInd ==
  /\ ConsoleTypeOK /\ sent <= acts
  /\ Polled /\ StopsAreAsked /\ FieldIsSelected
  /\ AbortsOnlyStopped /\ RoutinesOfSelected /\ NamesUnderOwnTitle /\ PollingAlive

\* The requests of the page.
LEMMA Reads ==
  ASSUME ConsoleTypeOK, NEW kind \in Kind, NEW b \in Bot, NEW run \in RunId
  PROVE  /\ Read(kind, b, run) \in Request
         /\ Read(kind, b, run).kind = kind /\ Read(kind, b, run).bot = b /\ Read(kind, b, run).run = run
<1>1. Seen(b) \in View
  BY DEF ConsoleTypeOK, Seen, View
<1>2. (lastTurn[b] = [run |-> run, running |-> FALSE]) \in BOOLEAN
  OBVIOUS
<1> QED
  BY <1>1, <1>2 DEF Read, Request

LEMMA Writes ==
  ASSUME NEW kind \in Kind, NEW b \in Bot, NEW run \in RunId
  PROVE  /\ Write(kind, b, run) \in Request
         /\ Write(kind, b, run).kind = kind /\ Write(kind, b, run).bot = b /\ Write(kind, b, run).run = run
BY DEF Write, Request

\* What the server makes of a request differs from it in its answer alone.
LEMMA Handled ==
  ASSUME ConsoleTypeOK, NEW r \in inflight, Handle(r)
  PROVE  /\ threads' \in [Bot -> Nat]
         /\ lastTurn' \in [Bot -> [run : RunId, running : BOOLEAN]]
         /\ \E s \in Request : /\ s.kind = r.kind /\ s.bot = r.bot /\ s.run = r.run
                               /\ inflight' = (inflight \ {r}) \cup {s}
<1>1. r \in Request /\ r.bot \in Bot
  BY DEF ConsoleTypeOK, Request
<1>2. threads' \in [Bot -> Nat]
  BY <1>1 DEF ConsoleTypeOK, Handle
<1>3. lastTurn' \in [Bot -> [run : RunId, running : BOOLEAN]]
  <2>1. lastTurn[r.bot] \in [run : RunId, running : BOOLEAN]
    BY <1>1 DEF ConsoleTypeOK
  <2>2. [lastTurn[r.bot] EXCEPT !.running = FALSE] \in [run : RunId, running : BOOLEAN]
    BY <2>1
  <2>3. [lastTurn EXCEPT ![r.bot].running = FALSE]
          \in [Bot -> [run : RunId, running : BOOLEAN]]
    BY <2>2, <1>1 DEF ConsoleTypeOK
  <2> QED
    BY <2>3 DEF Handle, ConsoleTypeOK
<1>4. [bot |-> r.bot, ver |-> threads'[r.bot]] \in View
  BY <1>1, <1>2 DEF View
<1> DEFINE s == [r EXCEPT !.ans = [bot |-> r.bot, ver |-> threads'[r.bot]]]
<1>5. s \in Request /\ s.kind = r.kind /\ s.bot = r.bot /\ s.run = r.run
  BY <1>1, <1>4 DEF Request
<1>6. inflight' = (inflight \ {r}) \cup {s}
  BY DEF Handle
<1> QED
  BY <1>2, <1>3, <1>5, <1>6

\* What the person or the resident does is counted, up to the bound.
LEMMA OneMore ==
  ASSUME ConsoleTypeOK, sent <= acts, Act
  PROVE  acts' \in 0..MaxActs /\ sent <= acts' /\ sent + 1 <= acts'
BY ConsoleAssumption DEF ConsoleTypeOK, RunId, Act

\* Every step keeps the types; a run that is polled is there when the answer comes.
LEMMA ConsoleTypes ==
  ASSUME ConsoleInd, ConsoleNext
  PROVE  ConsoleTypeOK' /\ (sent <= acts)'
<1> USE ConsoleAssumption DEF ConsoleInd, consoleServer, console, sync, ConsoleTypeOK, RunId, View, Polled, FieldIsSelected
<1>1. ASSUME NEW b \in Bot, SelectBot(b)
      PROVE  ConsoleTypeOK' /\ (sent <= acts)'
  <2>1. Read("select", b, 0) \in Request
    BY Reads DEF Kind, RunId
  <2> QED
    BY <1>1, <2>1, OneMore DEF SelectBot, NoField, NoTrajectory
<1>2. ASSUME NEW goal \in BOOLEAN, Send(goal)
      PROVE  ConsoleTypeOK' /\ (sent <= acts)'
  BY <1>2, OneMore DEF Send, Phase, Run, Kind, Request
<1>3. ASSUME NEW b \in Bot, Decide(b)
      PROVE  ConsoleTypeOK' /\ (sent <= acts)'
  <2>0. 0 \in RunId /\ "decide" \in Kind
    BY DEF RunId, Kind
  <2>1. Write("decide", b, 0) \in Request
    BY <2>0, Writes
  <2>2. acts' \in 0..MaxActs /\ (sent <= acts)'
    BY <1>3, OneMore DEF Decide
  <2>3. /\ inflight' = inflight \cup {Write("decide", b, 0)}
        /\ UNCHANGED <<consoleServer, console, sync, stopTimers, stopped, aborted, sent>>
    BY <1>3 DEF Decide
  <2>4. inflight' \subseteq Request
    BY <2>1, <2>3
  <2>5. sent' \in RunId
    BY <2>3
  <2> QED
    BY <2>2, <2>3, <2>4, <2>5
<1>4. ASSUME FollowUp
      PROVE  ConsoleTypeOK' /\ (sent <= acts)'
  <2>1. Write("followup", selected, active[selected].id) \in Request
    BY <1>4, Writes DEF FollowUp, Kind, Run
  <2> QED
    BY <1>4, <2>1, OneMore DEF FollowUp
<1>5. ASSUME StopRun
      PROVE  ConsoleTypeOK' /\ (sent <= acts)'
  <2>1. active[selected].id \in RunId
    BY <1>5 DEF StopRun, Run
  <2>2. Write("cancel", selected, active[selected].id) \in Request
    BY <2>1, Writes DEF Kind
  <2>3. acts' \in 0..MaxActs /\ (sent <= acts)'
    BY <1>5, OneMore DEF StopRun
  <2>4. /\ inflight' = inflight \cup {Write("cancel", selected, active[selected].id)}
        /\ stopped' = stopped \cup {active[selected].id}
        /\ UNCHANGED <<consoleServer, console, sync, stopTimers, aborted, sent>>
    BY <1>5 DEF StopRun
  <2>5. inflight' \subseteq Request
    BY <2>2, <2>4
  <2>6. stopped' \subseteq RunId
    BY <2>1, <2>4
  <2> QED
    BY <2>3, <2>4, <2>5, <2>6
<1>6. ASSUME RenameOpen
      PROVE  ConsoleTypeOK' /\ (sent <= acts)'
  BY <1>6, OneMore DEF RenameOpen, Phase, Run, Kind, Request
<1>7. ASSUME RenameType
      PROVE  ConsoleTypeOK' /\ (sent <= acts)'
  BY <1>7 DEF RenameType, Phase, Run, Kind, Request
<1>8. ASSUME LoadRoutines
      PROVE  ConsoleTypeOK' /\ (sent <= acts)'
  <2>1. Read("routines", selected, 0) \in Request
    BY Reads DEF Kind, RunId
  <2> QED
    BY <1>8, <2>1, OneMore DEF LoadRoutines
<1>9. ASSUME TrajectoryOpen
      PROVE  ConsoleTypeOK' /\ (sent <= acts)'
  <2>1. lastTurn[selected].run \in RunId
    OBVIOUS
  <2>2. Read("trajectory", selected, lastTurn[selected].run) \in Request
    BY <2>1, Reads DEF Kind
  <2>3. trajectory' \in [open : BOOLEAN, run : (Bot \X RunId) \cup {None}, data : Bot \cup {None}]
    BY <1>9, <2>1 DEF TrajectoryOpen
  <2> QED
    BY <1>9, <2>2, <2>3, OneMore DEF TrajectoryOpen
<1>10. ASSUME Leave
      PROVE  ConsoleTypeOK' /\ (sent <= acts)'
  <2>1. acts' \in 0..MaxActs /\ (sent <= acts)'
    BY <1>10, OneMore DEF Leave
  <2> QED
    BY <1>10, <2>1 DEF Leave
<1>11. ASSUME NEW r \in inflight, Handle(r)
      PROVE  ConsoleTypeOK' /\ (sent <= acts)'
  <2>1. PICK s \in Request : inflight' = (inflight \ {r}) \cup {s}
    BY <1>11, Handled
  <2>3. UNCHANGED <<named, console, sync, stopTimers, stopped, aborted, sent, acts>>
    BY <1>11 DEF Handle
  <2>2. /\ threads' \in [Bot -> Nat]
        /\ lastTurn' \in [Bot -> [run : RunId, running : BOOLEAN]]
    BY <1>11, Handled
  <2> QED
    BY <2>1, <2>2, <2>3
<1>12. ASSUME NEW r \in inflight, ThreadArrives(r)
      PROVE  ConsoleTypeOK' /\ (sent <= acts)'
  BY <1>12 DEF ThreadArrives, Phase, Run, Kind, Request
<1>13. ASSUME NEW r \in inflight, SyncArrives(r)
      PROVE  ConsoleTypeOK' /\ (sent <= acts)'
  BY <1>13 DEF SyncArrives, Phase, Run, Kind, Request
<1>14. ASSUME NEW r \in inflight, PollArrives(r)
      PROVE  ConsoleTypeOK' /\ (sent <= acts)'
  <2>1. r \in Request /\ r.bot \in Bot /\ active[r.bot] \in Run
    BY <1>14 DEF PollArrives, Request
  <2>2. shown' \in View \cup {None}
    BY <1>14, <2>1 DEF PollArrives, Request
  <2>3. active' \in [Bot -> Run \cup {None}]
    <3>1. [active[r.bot] EXCEPT !.phase = "ending"] \in Run
      BY <2>1 DEF Run, Phase
    <3>2. [active EXCEPT ![r.bot].phase = "ending"] \in [Bot -> Run \cup {None}]
      BY <2>1, <3>1
    <3> QED
      BY <1>14, <3>2 DEF PollArrives
  <2>4. inflight' \subseteq Request
    BY <1>14 DEF PollArrives
  <2>5. /\ UNCHANGED <<threads, lastTurn, named, selected, version, routines, field, trajectory>>
        /\ UNCHANGED <<timer, syncing, visible, stopTimers, stopped, aborted, sent, acts>>
    BY <1>14 DEF PollArrives
  <2> QED
    BY <2>2, <2>3, <2>4, <2>5
<1>15. ASSUME NEW r \in inflight, FollowUpArrives(r)
      PROVE  ConsoleTypeOK' /\ (sent <= acts)'
  BY <1>15 DEF FollowUpArrives, Phase, Run, Kind, Request
<1>16. ASSUME NEW r \in inflight, CancelArrives(r)
      PROVE  ConsoleTypeOK' /\ (sent <= acts)'
  BY <1>16 DEF CancelArrives, Phase, Run, Kind, Request
<1>17. ASSUME NEW r \in inflight, DecideArrives(r)
      PROVE  ConsoleTypeOK' /\ (sent <= acts)'
  BY <1>17 DEF DecideArrives, Phase, Run, Kind, Request
<1>18. ASSUME NEW r \in inflight, RoutinesArrive(r)
      PROVE  ConsoleTypeOK' /\ (sent <= acts)'
  BY <1>18 DEF RoutinesArrive, Phase, Run, Kind, Request
<1>19. ASSUME NEW r \in inflight, TrajectoryArrives(r)
      PROVE  ConsoleTypeOK' /\ (sent <= acts)'
  BY <1>19 DEF TrajectoryArrives, Phase, Run, Kind, Request
<1>20. ASSUME NEW b \in Bot, StreamOpens(b)
      PROVE  ConsoleTypeOK' /\ (sent <= acts)'
  BY <1>20 DEF StreamOpens, Touch, Phase, Run, Kind, Request
<1>21. ASSUME NEW b \in Bot, RunFinishes(b)
      PROVE  ConsoleTypeOK' /\ (sent <= acts)'
  <2>1. [lastTurn[b] EXCEPT !.running = FALSE] \in [run : RunId, running : BOOLEAN]
    <3>1. lastTurn[b] \in [run : RunId, running : BOOLEAN]
      OBVIOUS
    <3> QED
      BY <3>1
  <2>2. lastTurn' = [lastTurn EXCEPT ![b] = [lastTurn[b] EXCEPT !.running = FALSE]]
    BY <1>21 DEF RunFinishes
  <2> QED
    BY <1>21, <2>1, <2>2 DEF RunFinishes, Touch
<1>22. ASSUME NEW b \in Bot, StreamCloses(b)
      PROVE  ConsoleTypeOK' /\ (sent <= acts)'
  <2>1. active[b] \in Run
    BY <1>22 DEF StreamCloses
  <2>2. Seen(b) \in View
    BY DEF Seen, View
  <2>3. [[[active[b] EXCEPT !.phase = "answered"] EXCEPT !.msgs = Seen(b)]
           EXCEPT !.goal = lastTurn[b].running] \in Run
    BY <2>1, <2>2 DEF Run, Phase
  <2>4. active' = [active EXCEPT ![b] = [[[active[b] EXCEPT !.phase = "answered"]
                     EXCEPT !.msgs = Seen(b)] EXCEPT !.goal = lastTurn[b].running]]
    BY <1>22 DEF StreamCloses
  <2>5. active' \in [Bot -> Run \cup {None}]
    BY <2>3, <2>4
  <2> QED
    BY <1>22, <2>5 DEF StreamCloses
<1>23. ASSUME NEW b \in Bot, StreamDone(b)
      PROVE  ConsoleTypeOK' /\ (sent <= acts)'
  BY <1>23 DEF StreamDone, Phase, Run, Kind, Request
<1>24. ASSUME NEW b \in Bot, Poll(b)
      PROVE  ConsoleTypeOK' /\ (sent <= acts)'
  <2>1. active[b] \in Run /\ active[b].id \in RunId
    BY <1>24 DEF Poll, Run
  <2>2. Read("refresh", b, 0) \in Request /\ Read("poll", b, active[b].id) \in Request
    BY <2>1, Reads DEF Kind, RunId
  <2>3. [active[b] EXCEPT !.phase = "ending"] \in Run
    BY <2>1 DEF Run, Phase
  <2> QED
    <3>1. active' \in {active, [active EXCEPT ![b] = [active[b] EXCEPT !.phase = "ending"]]}
      BY <1>24 DEF Poll
    <3>2. active' \in [Bot -> Run \cup {None}]
      BY <2>3, <3>1
    <3>3. inflight' \subseteq Request
      BY <1>24, <2>2 DEF Poll
    <3>4. aborted' \subseteq RunId
      BY <1>24, <2>1 DEF Poll
    <3> QED
      BY <1>24, <3>2, <3>3, <3>4 DEF Poll
<1>25. ASSUME NEW b \in Bot, Forget(b)
      PROVE  ConsoleTypeOK' /\ (sent <= acts)'
  BY <1>25 DEF Forget, Phase, Run, Kind, Request
<1>26. ASSUME NEW b \in Bot, StreamFails(b)
      PROVE  ConsoleTypeOK' /\ (sent <= acts)'
  <2>1. active[b] \in Run
    BY <1>26 DEF StreamFails
  <2>2. Read("refresh", b, 0) \in Request
    BY Reads DEF Kind, RunId
  <2>3. [active[b] EXCEPT !.phase = "ending"] \in Run
    BY <2>1 DEF Run, Phase
  <2> QED
    BY <1>26, <2>2, <2>3 DEF StreamFails
<1>27. ASSUME NEW b \in Bot, ResidentSpeaks(b)
      PROVE  ConsoleTypeOK' /\ (sent <= acts)'
  BY <1>27, OneMore DEF ResidentSpeaks, Touch, Phase, Run, Kind, Request
<1>28. ASSUME NEW t \in stopTimers, StopTimer(t)
      PROVE  ConsoleTypeOK' /\ (sent <= acts)'
  <2>1. CASE ~RunOf(t.bot, t.run)
    BY <1>28, <2>1 DEF StopTimer
  <2>2. CASE RunOf(t.bot, t.run)
    <3>1. t.bot \in Bot /\ active[t.bot] \in Run
      BY <2>2 DEF RunOf
    <3>2. Read("refresh", selected, 0) \in Request
      BY Reads DEF Kind, RunId
    <3>3. active[t.bot].id \in RunId
      BY <3>1 DEF Run
    <3>4. [active[t.bot] EXCEPT !.abort = TRUE] \in Run
      BY <3>1 DEF Run
    <3>5. [[active[t.bot] EXCEPT !.phase = "ending"] EXCEPT !.abort = TRUE] \in Run
      BY <3>1 DEF Run, Phase
    <3>6. active' \in [Bot -> Run \cup {None}]
      <4>1. CASE active[t.bot].phase \in {"opening", "streaming"}
        <5>1. active' = [active EXCEPT ![t.bot] = [[active[t.bot] EXCEPT !.phase = "ending"] EXCEPT !.abort = TRUE]]
          BY <1>28, <2>2, <4>1, <3>1 DEF StopTimer
        <5> QED
          BY <5>1, <3>5, <3>1
      <4>2. CASE active[t.bot].phase \notin {"opening", "streaming"}
        <5>1. active' = [active EXCEPT ![t.bot] = [active[t.bot] EXCEPT !.abort = TRUE]]
          BY <1>28, <2>2, <4>2 DEF StopTimer
        <5> QED
          BY <5>1, <3>4, <3>1
      <4> QED
        BY <4>1, <4>2
    <3> QED
      BY <1>28, <2>2, <3>2, <3>3, <3>6 DEF StopTimer
  <2> QED
    BY <2>1, <2>2
<1>29. ASSUME SyncTick
      PROVE  ConsoleTypeOK' /\ (sent <= acts)'
  <2>1. Read("sync", selected, 0) \in Request
    BY Reads DEF Kind, RunId
  <2>2. timer' \in BOOLEAN /\ syncing' \in BOOLEAN /\ inflight' \subseteq Request
    BY <1>29, <2>1 DEF SyncTick
  <2>3. UNCHANGED <<consoleServer, console, visible, stopTimers, stopped, aborted, sent, acts>>
    BY <1>29 DEF SyncTick
  <2> QED
    BY <2>2, <2>3
<1>30. ASSUME Return
      PROVE  ConsoleTypeOK' /\ (sent <= acts)'
  BY <1>30 DEF Return, Phase, Run, Kind, Request
<1>31. ASSUME RenameCommit
      PROVE  ConsoleTypeOK' /\ (sent <= acts)'
  BY <1>31 DEF RenameCommit, NoField, Phase, Run, Kind, Request
<1> QED
  BY <1>1, <1>2, <1>3, <1>4, <1>5, <1>6, <1>7, <1>8, <1>9, <1>10, <1>11, <1>12, <1>13, <1>14, <1>15, <1>16, <1>17, <1>18, <1>19, <1>20, <1>21, <1>22, <1>23, <1>24, <1>25, <1>26, <1>27, <1>28, <1>29, <1>30, <1>31 DEF ConsoleNext, Owner, Lands, Runs

\* No step but the answer itself ends a polling, and none asks a second time.
LEMMA ConsolePolls ==
  ASSUME ConsoleInd, ConsoleNext
  PROVE  Polled'
<1> USE ConsoleAssumption DEF ConsoleInd, consoleServer, console, sync, ConsoleTypeOK, RunId, View, Polled
<1>1. ASSUME NEW b \in Bot, SelectBot(b)
      PROVE  Polled'
  BY <1>1 DEF SelectBot, Read, Seen, Act, NoField, NoTrajectory, Phase, Run, Kind, Request
<1>2. ASSUME NEW goal \in BOOLEAN, Send(goal)
      PROVE  Polled'
  BY <1>2 DEF Send, Act, Phase, Run, Kind, Request
<1>3. ASSUME NEW b \in Bot, Decide(b)
      PROVE  Polled'
  BY <1>3 DEF Decide, Write, Act, Phase, Run, Kind, Request
<1>4. ASSUME FollowUp
      PROVE  Polled'
  BY <1>4 DEF FollowUp, Write, Act, Phase, Run, Kind, Request
<1>5. ASSUME StopRun
      PROVE  Polled'
  BY <1>5 DEF StopRun, Write, Act, Phase, Run, Kind, Request
<1>6. ASSUME RenameOpen
      PROVE  Polled'
  BY <1>6 DEF RenameOpen, Act, Phase, Run, Kind, Request
<1>7. ASSUME RenameType
      PROVE  Polled'
  BY <1>7 DEF RenameType, Phase, Run, Kind, Request
<1>8. ASSUME LoadRoutines
      PROVE  Polled'
  BY <1>8 DEF LoadRoutines, Read, Seen, Act, Phase, Run, Kind, Request
<1>9. ASSUME TrajectoryOpen
      PROVE  Polled'
  BY <1>9 DEF TrajectoryOpen, Read, Seen, Act, Phase, Run, Kind, Request
<1>10. ASSUME Leave
      PROVE  Polled'
  BY <1>10 DEF Leave, Act, Phase, Run, Kind, Request
<1>11. ASSUME NEW r \in inflight, Handle(r)
      PROVE  Polled'
  <2>1. PICK s \in Request : /\ s.kind = r.kind /\ s.bot = r.bot
                             /\ inflight' = (inflight \ {r}) \cup {s}
    BY <1>11, Handled
  <2>2. active' = active
    BY <1>11 DEF Handle
  <2> QED
    BY <2>1, <2>2
<1>12. ASSUME NEW r \in inflight, ThreadArrives(r)
      PROVE  Polled'
  BY <1>12 DEF ThreadArrives, Phase, Run, Kind, Request
<1>13. ASSUME NEW r \in inflight, SyncArrives(r)
      PROVE  Polled'
  BY <1>13 DEF SyncArrives, Phase, Run, Kind, Request
<1>14. ASSUME NEW r \in inflight, PollArrives(r)
      PROVE  Polled'
  BY <1>14 DEF PollArrives, Phase, Run, Kind, Request
<1>15. ASSUME NEW r \in inflight, FollowUpArrives(r)
      PROVE  Polled'
  BY <1>15 DEF FollowUpArrives, Phase, Run, Kind, Request
<1>16. ASSUME NEW r \in inflight, CancelArrives(r)
      PROVE  Polled'
  BY <1>16 DEF CancelArrives, Phase, Run, Kind, Request
<1>17. ASSUME NEW r \in inflight, DecideArrives(r)
      PROVE  Polled'
  BY <1>17 DEF DecideArrives, Phase, Run, Kind, Request
<1>18. ASSUME NEW r \in inflight, RoutinesArrive(r)
      PROVE  Polled'
  BY <1>18 DEF RoutinesArrive, Phase, Run, Kind, Request
<1>19. ASSUME NEW r \in inflight, TrajectoryArrives(r)
      PROVE  Polled'
  BY <1>19 DEF TrajectoryArrives, Phase, Run, Kind, Request
<1>20. ASSUME NEW b \in Bot, StreamOpens(b)
      PROVE  Polled'
  BY <1>20 DEF StreamOpens, Touch, Phase, Run, Kind, Request
<1>21. ASSUME NEW b \in Bot, RunFinishes(b)
      PROVE  Polled'
  BY <1>21 DEF RunFinishes, Touch, Phase, Run, Kind, Request
<1>22. ASSUME NEW b \in Bot, StreamCloses(b)
      PROVE  Polled'
  BY <1>22 DEF StreamCloses, Seen, Phase, Run, Kind, Request
<1>23. ASSUME NEW b \in Bot, StreamDone(b)
      PROVE  Polled'
  BY <1>23 DEF StreamDone, Phase, Run, Kind, Request
<1>24. ASSUME NEW b \in Bot, Poll(b)
      PROVE  Polled'
  BY <1>24 DEF Poll, Read, Seen, Phase, Run, Kind, Request
<1>25. ASSUME NEW b \in Bot, Forget(b)
      PROVE  Polled'
  BY <1>25 DEF Forget, Phase, Run, Kind, Request
<1>26. ASSUME NEW b \in Bot, StreamFails(b)
      PROVE  Polled'
  BY <1>26 DEF StreamFails, Read, Seen, Phase, Run, Kind, Request
<1>27. ASSUME NEW b \in Bot, ResidentSpeaks(b)
      PROVE  Polled'
  BY <1>27 DEF ResidentSpeaks, Act, Touch, Phase, Run, Kind, Request
<1>28. ASSUME NEW t \in stopTimers, StopTimer(t)
      PROVE  Polled'
  <2>1. t.bot \in Bot /\ Read("refresh", selected, 0).kind = "refresh"
    BY Reads DEF Kind, RunId
  <2>2. ASSUME NEW c \in Bot, active[c] # None, active[c].phase = "polling"
        PROVE  active'[c] # None /\ active'[c].phase = "polling"
    <3>1. active[c] \in Run
      BY <2>2
    <3>2. [active[c] EXCEPT !.abort = TRUE] \in Run /\ [active[c] EXCEPT !.abort = TRUE].phase = "polling"
      BY <2>2, <3>1 DEF Run
    <3>3. active'[c] \in {active[c], [active[c] EXCEPT !.abort = TRUE]}
      BY <1>28, <2>1, <2>2, <3>1 DEF StopTimer, RunOf
    <3> QED
      BY <2>2, <3>2, <3>3, NoRunAssumption
  <2>3. inflight' \subseteq inflight \cup {Read("refresh", selected, 0)}
    BY <1>28 DEF StopTimer
  <2> QED
    BY <2>1, <2>2, <2>3 DEF Request
<1>29. ASSUME SyncTick
      PROVE  Polled'
  <2>1. Read("sync", selected, 0).kind = "sync"
    BY Reads DEF Kind, RunId
  <2>2. inflight' \subseteq inflight \cup {Read("sync", selected, 0)} /\ active' = active
    BY <1>29 DEF SyncTick
  <2> QED
    BY <2>1, <2>2
<1>30. ASSUME Return
      PROVE  Polled'
  BY <1>30 DEF Return, Phase, Run, Kind, Request
<1>31. ASSUME RenameCommit
      PROVE  Polled'
  BY <1>31 DEF RenameCommit, NoField, Phase, Run, Kind, Request
<1> QED
  BY <1>1, <1>2, <1>3, <1>4, <1>5, <1>6, <1>7, <1>8, <1>9, <1>10, <1>11, <1>12, <1>13, <1>14, <1>15, <1>16, <1>17, <1>18, <1>19, <1>20, <1>21, <1>22, <1>23, <1>24, <1>25, <1>26, <1>27, <1>28, <1>29, <1>30, <1>31 DEF ConsoleNext, Owner, Lands, Runs

\* What is aborted was asked to be: the timer compares run ids.
LEMMA ConsoleStops ==
  ASSUME ConsoleInd, ConsoleNext
  PROVE  StopsAreAsked' /\ AbortsOnlyStopped'
<1> USE ConsoleAssumption DEF ConsoleInd, consoleServer, console, sync, ConsoleTypeOK, RunId, View, StopsAreAsked, AbortsOnlyStopped
<1>1. ASSUME NEW b \in Bot, SelectBot(b)
      PROVE  StopsAreAsked' /\ AbortsOnlyStopped'
  BY <1>1 DEF SelectBot, Read, Seen, Act, NoField, NoTrajectory, Phase, Run, Kind, Request
<1>2. ASSUME NEW goal \in BOOLEAN, Send(goal)
      PROVE  StopsAreAsked' /\ AbortsOnlyStopped'
  BY <1>2 DEF Send, Act, Phase, Run, Kind, Request
<1>3. ASSUME NEW b \in Bot, Decide(b)
      PROVE  StopsAreAsked' /\ AbortsOnlyStopped'
  BY <1>3 DEF Decide, Write, Act, Phase, Run, Kind, Request
<1>4. ASSUME FollowUp
      PROVE  StopsAreAsked' /\ AbortsOnlyStopped'
  BY <1>4 DEF FollowUp, Write, Act, Phase, Run, Kind, Request
<1>5. ASSUME StopRun
      PROVE  StopsAreAsked' /\ AbortsOnlyStopped'
  BY <1>5 DEF StopRun, Write, Act, Phase, Run, Kind, Request
<1>6. ASSUME RenameOpen
      PROVE  StopsAreAsked' /\ AbortsOnlyStopped'
  BY <1>6 DEF RenameOpen, Act, Phase, Run, Kind, Request
<1>7. ASSUME RenameType
      PROVE  StopsAreAsked' /\ AbortsOnlyStopped'
  BY <1>7 DEF RenameType, Phase, Run, Kind, Request
<1>8. ASSUME LoadRoutines
      PROVE  StopsAreAsked' /\ AbortsOnlyStopped'
  BY <1>8 DEF LoadRoutines, Read, Seen, Act, Phase, Run, Kind, Request
<1>9. ASSUME TrajectoryOpen
      PROVE  StopsAreAsked' /\ AbortsOnlyStopped'
  BY <1>9 DEF TrajectoryOpen, Read, Seen, Act, Phase, Run, Kind, Request
<1>10. ASSUME Leave
      PROVE  StopsAreAsked' /\ AbortsOnlyStopped'
  BY <1>10 DEF Leave, Act, Phase, Run, Kind, Request
<1>11. ASSUME NEW r \in inflight, Handle(r)
      PROVE  StopsAreAsked' /\ AbortsOnlyStopped'
  BY <1>11 DEF Handle, Phase, Run, Kind, Request
<1>12. ASSUME NEW r \in inflight, ThreadArrives(r)
      PROVE  StopsAreAsked' /\ AbortsOnlyStopped'
  BY <1>12 DEF ThreadArrives, Phase, Run, Kind, Request
<1>13. ASSUME NEW r \in inflight, SyncArrives(r)
      PROVE  StopsAreAsked' /\ AbortsOnlyStopped'
  BY <1>13 DEF SyncArrives, Phase, Run, Kind, Request
<1>14. ASSUME NEW r \in inflight, PollArrives(r)
      PROVE  StopsAreAsked' /\ AbortsOnlyStopped'
  <2>1. ASSUME NEW c \in Bot, active'[c] # None, active'[c].abort
        PROVE  active[c] # None /\ active[c].abort /\ active'[c].id = active[c].id
    BY <1>14, <2>1 DEF PollArrives, Run, Polled, Request
  <2> QED
    BY <1>14, <2>1 DEF PollArrives
<1>15. ASSUME NEW r \in inflight, FollowUpArrives(r)
      PROVE  StopsAreAsked' /\ AbortsOnlyStopped'
  BY <1>15 DEF FollowUpArrives, Phase, Run, Kind, Request
<1>16. ASSUME NEW r \in inflight, CancelArrives(r)
      PROVE  StopsAreAsked' /\ AbortsOnlyStopped'
  BY <1>16 DEF CancelArrives, Phase, Run, Kind, Request
<1>17. ASSUME NEW r \in inflight, DecideArrives(r)
      PROVE  StopsAreAsked' /\ AbortsOnlyStopped'
  BY <1>17 DEF DecideArrives, Phase, Run, Kind, Request
<1>18. ASSUME NEW r \in inflight, RoutinesArrive(r)
      PROVE  StopsAreAsked' /\ AbortsOnlyStopped'
  BY <1>18 DEF RoutinesArrive, Phase, Run, Kind, Request
<1>19. ASSUME NEW r \in inflight, TrajectoryArrives(r)
      PROVE  StopsAreAsked' /\ AbortsOnlyStopped'
  BY <1>19 DEF TrajectoryArrives, Phase, Run, Kind, Request
<1>20. ASSUME NEW b \in Bot, StreamOpens(b)
      PROVE  StopsAreAsked' /\ AbortsOnlyStopped'
  BY <1>20 DEF StreamOpens, Touch, Phase, Run, Kind, Request
<1>21. ASSUME NEW b \in Bot, RunFinishes(b)
      PROVE  StopsAreAsked' /\ AbortsOnlyStopped'
  BY <1>21 DEF RunFinishes, Touch, Phase, Run, Kind, Request
<1>22. ASSUME NEW b \in Bot, StreamCloses(b)
      PROVE  StopsAreAsked' /\ AbortsOnlyStopped'
  BY <1>22 DEF StreamCloses, Seen, Phase, Run, Kind, Request
<1>23. ASSUME NEW b \in Bot, StreamDone(b)
      PROVE  StopsAreAsked' /\ AbortsOnlyStopped'
  BY <1>23 DEF StreamDone, Phase, Run, Kind, Request
<1>24. ASSUME NEW b \in Bot, Poll(b)
      PROVE  StopsAreAsked' /\ AbortsOnlyStopped'
  BY <1>24 DEF Poll, Read, Seen, Phase, Run, Kind, Request
<1>25. ASSUME NEW b \in Bot, Forget(b)
      PROVE  StopsAreAsked' /\ AbortsOnlyStopped'
  BY <1>25 DEF Forget, Phase, Run, Kind, Request
<1>26. ASSUME NEW b \in Bot, StreamFails(b)
      PROVE  StopsAreAsked' /\ AbortsOnlyStopped'
  BY <1>26 DEF StreamFails, Read, Seen, Phase, Run, Kind, Request
<1>27. ASSUME NEW b \in Bot, ResidentSpeaks(b)
      PROVE  StopsAreAsked' /\ AbortsOnlyStopped'
  BY <1>27 DEF ResidentSpeaks, Act, Touch, Phase, Run, Kind, Request
<1>28. ASSUME NEW t \in stopTimers, StopTimer(t)
      PROVE  StopsAreAsked' /\ AbortsOnlyStopped'
  <2>1. t.bot \in Bot /\ t.run \in stopped /\ stopTimers' \subseteq stopTimers /\ UNCHANGED stopped
    BY <1>28 DEF StopTimer
  <2>2. \A r \in inflight' : r.kind = "cancel" => r \in inflight
    BY <1>28 DEF StopTimer, Read
  <2>3. CASE RunOf(t.bot, t.run)
    <3>1. active[t.bot] \in Run /\ active[t.bot].id = t.run
      BY <2>1, <2>3 DEF RunOf
    <3>2. aborted' \subseteq aborted \cup {t.run}
      BY <1>28, <2>3, <3>1 DEF StopTimer
    <3>3. \A b \in Bot : /\ b # t.bot => active'[b] = active[b]
                         /\ active'[t.bot].id = t.run
      BY <1>28, <2>1, <2>3, <3>1 DEF StopTimer, Run
    <3> QED
      BY <2>1, <2>2, <3>2, <3>3
  <2>4. CASE ~ RunOf(t.bot, t.run)
    <3>1. UNCHANGED <<active, aborted>>
      BY <1>28, <2>4 DEF StopTimer
    <3> QED
      BY <2>1, <2>2, <3>1
  <2> QED
    BY <2>3, <2>4
<1>29. ASSUME SyncTick
      PROVE  StopsAreAsked' /\ AbortsOnlyStopped'
  <2>1. Read("sync", selected, 0).kind = "sync"
    BY Reads DEF Kind, RunId
  <2>2. inflight' \subseteq inflight \cup {Read("sync", selected, 0)} /\ active' = active
    BY <1>29 DEF SyncTick
  <2>3. UNCHANGED <<stopTimers, stopped, aborted>>
    BY <1>29 DEF SyncTick
  <2> QED
    BY <2>1, <2>2, <2>3
<1>30. ASSUME Return
      PROVE  StopsAreAsked' /\ AbortsOnlyStopped'
  BY <1>30 DEF Return, Phase, Run, Kind, Request
<1>31. ASSUME RenameCommit
      PROVE  StopsAreAsked' /\ AbortsOnlyStopped'
  BY <1>31 DEF RenameCommit, NoField, Phase, Run, Kind, Request
<1> QED
  BY <1>1, <1>2, <1>3, <1>4, <1>5, <1>6, <1>7, <1>8, <1>9, <1>10, <1>11, <1>12, <1>13, <1>14, <1>15, <1>16, <1>17, <1>18, <1>19, <1>20, <1>21, <1>22, <1>23, <1>24, <1>25, <1>26, <1>27, <1>28, <1>29, <1>30, <1>31 DEF ConsoleNext, Owner, Lands, Runs

\* The field closes when another Bot is selected, and a name is saved as it was typed.
LEMMA ConsoleNames ==
  ASSUME ConsoleInd, ConsoleNext
  PROVE  FieldIsSelected' /\ NamesUnderOwnTitle'
<1> USE ConsoleAssumption DEF ConsoleInd, consoleServer, console, sync, ConsoleTypeOK, RunId, View, FieldIsSelected, NamesUnderOwnTitle
<1>1. ASSUME NEW b \in Bot, SelectBot(b)
      PROVE  FieldIsSelected' /\ NamesUnderOwnTitle'
  BY <1>1 DEF SelectBot, Read, Seen, Act, NoField, NoTrajectory, Phase, Run, Kind, Request
<1>2. ASSUME NEW goal \in BOOLEAN, Send(goal)
      PROVE  FieldIsSelected' /\ NamesUnderOwnTitle'
  BY <1>2 DEF Send, Act, Phase, Run, Kind, Request
<1>3. ASSUME NEW b \in Bot, Decide(b)
      PROVE  FieldIsSelected' /\ NamesUnderOwnTitle'
  BY <1>3 DEF Decide, Write, Act, Phase, Run, Kind, Request
<1>4. ASSUME FollowUp
      PROVE  FieldIsSelected' /\ NamesUnderOwnTitle'
  BY <1>4 DEF FollowUp, Write, Act, Phase, Run, Kind, Request
<1>5. ASSUME StopRun
      PROVE  FieldIsSelected' /\ NamesUnderOwnTitle'
  BY <1>5 DEF StopRun, Write, Act, Phase, Run, Kind, Request
<1>6. ASSUME RenameOpen
      PROVE  FieldIsSelected' /\ NamesUnderOwnTitle'
  BY <1>6 DEF RenameOpen, Act, Phase, Run, Kind, Request
<1>7. ASSUME RenameType
      PROVE  FieldIsSelected' /\ NamesUnderOwnTitle'
  BY <1>7 DEF RenameType, Phase, Run, Kind, Request
<1>8. ASSUME LoadRoutines
      PROVE  FieldIsSelected' /\ NamesUnderOwnTitle'
  BY <1>8 DEF LoadRoutines, Read, Seen, Act, Phase, Run, Kind, Request
<1>9. ASSUME TrajectoryOpen
      PROVE  FieldIsSelected' /\ NamesUnderOwnTitle'
  BY <1>9 DEF TrajectoryOpen, Read, Seen, Act, Phase, Run, Kind, Request
<1>10. ASSUME Leave
      PROVE  FieldIsSelected' /\ NamesUnderOwnTitle'
  BY <1>10 DEF Leave, Act, Phase, Run, Kind, Request
<1>11. ASSUME NEW r \in inflight, Handle(r)
      PROVE  FieldIsSelected' /\ NamesUnderOwnTitle'
  BY <1>11 DEF Handle, Phase, Run, Kind, Request
<1>12. ASSUME NEW r \in inflight, ThreadArrives(r)
      PROVE  FieldIsSelected' /\ NamesUnderOwnTitle'
  BY <1>12 DEF ThreadArrives, Phase, Run, Kind, Request
<1>13. ASSUME NEW r \in inflight, SyncArrives(r)
      PROVE  FieldIsSelected' /\ NamesUnderOwnTitle'
  BY <1>13 DEF SyncArrives, Phase, Run, Kind, Request
<1>14. ASSUME NEW r \in inflight, PollArrives(r)
      PROVE  FieldIsSelected' /\ NamesUnderOwnTitle'
  BY <1>14 DEF PollArrives, Phase, Run, Kind, Request
<1>15. ASSUME NEW r \in inflight, FollowUpArrives(r)
      PROVE  FieldIsSelected' /\ NamesUnderOwnTitle'
  BY <1>15 DEF FollowUpArrives, Phase, Run, Kind, Request
<1>16. ASSUME NEW r \in inflight, CancelArrives(r)
      PROVE  FieldIsSelected' /\ NamesUnderOwnTitle'
  BY <1>16 DEF CancelArrives, Phase, Run, Kind, Request
<1>17. ASSUME NEW r \in inflight, DecideArrives(r)
      PROVE  FieldIsSelected' /\ NamesUnderOwnTitle'
  BY <1>17 DEF DecideArrives, Phase, Run, Kind, Request
<1>18. ASSUME NEW r \in inflight, RoutinesArrive(r)
      PROVE  FieldIsSelected' /\ NamesUnderOwnTitle'
  BY <1>18 DEF RoutinesArrive, Phase, Run, Kind, Request
<1>19. ASSUME NEW r \in inflight, TrajectoryArrives(r)
      PROVE  FieldIsSelected' /\ NamesUnderOwnTitle'
  BY <1>19 DEF TrajectoryArrives, Phase, Run, Kind, Request
<1>20. ASSUME NEW b \in Bot, StreamOpens(b)
      PROVE  FieldIsSelected' /\ NamesUnderOwnTitle'
  BY <1>20 DEF StreamOpens, Touch, Phase, Run, Kind, Request
<1>21. ASSUME NEW b \in Bot, RunFinishes(b)
      PROVE  FieldIsSelected' /\ NamesUnderOwnTitle'
  BY <1>21 DEF RunFinishes, Touch, Phase, Run, Kind, Request
<1>22. ASSUME NEW b \in Bot, StreamCloses(b)
      PROVE  FieldIsSelected' /\ NamesUnderOwnTitle'
  BY <1>22 DEF StreamCloses, Seen, Phase, Run, Kind, Request
<1>23. ASSUME NEW b \in Bot, StreamDone(b)
      PROVE  FieldIsSelected' /\ NamesUnderOwnTitle'
  BY <1>23 DEF StreamDone, Phase, Run, Kind, Request
<1>24. ASSUME NEW b \in Bot, Poll(b)
      PROVE  FieldIsSelected' /\ NamesUnderOwnTitle'
  BY <1>24 DEF Poll, Read, Seen, Phase, Run, Kind, Request
<1>25. ASSUME NEW b \in Bot, Forget(b)
      PROVE  FieldIsSelected' /\ NamesUnderOwnTitle'
  BY <1>25 DEF Forget, Phase, Run, Kind, Request
<1>26. ASSUME NEW b \in Bot, StreamFails(b)
      PROVE  FieldIsSelected' /\ NamesUnderOwnTitle'
  BY <1>26 DEF StreamFails, Read, Seen, Phase, Run, Kind, Request
<1>27. ASSUME NEW b \in Bot, ResidentSpeaks(b)
      PROVE  FieldIsSelected' /\ NamesUnderOwnTitle'
  BY <1>27 DEF ResidentSpeaks, Act, Touch, Phase, Run, Kind, Request
<1>28. ASSUME NEW t \in stopTimers, StopTimer(t)
      PROVE  FieldIsSelected' /\ NamesUnderOwnTitle'
  BY <1>28 DEF StopTimer, Read, Seen, RunOf, Phase, Run, Kind, Request
<1>29. ASSUME SyncTick
      PROVE  FieldIsSelected' /\ NamesUnderOwnTitle'
  BY <1>29 DEF SyncTick, Read, Seen, Phase, Run, Kind, Request
<1>30. ASSUME Return
      PROVE  FieldIsSelected' /\ NamesUnderOwnTitle'
  BY <1>30 DEF Return, Phase, Run, Kind, Request
<1>31. ASSUME RenameCommit
      PROVE  FieldIsSelected' /\ NamesUnderOwnTitle'
  BY <1>31 DEF RenameCommit, NoField, Phase, Run, Kind, Request
<1> QED
  BY <1>1, <1>2, <1>3, <1>4, <1>5, <1>6, <1>7, <1>8, <1>9, <1>10, <1>11, <1>12, <1>13, <1>14, <1>15, <1>16, <1>17, <1>18, <1>19, <1>20, <1>21, <1>22, <1>23, <1>24, <1>25, <1>26, <1>27, <1>28, <1>29, <1>30, <1>31 DEF ConsoleNext, Owner, Lands, Runs

\* Routines that come late are dropped, and each way of ending a synchronization sets the
\* timer again.
LEMMA ConsoleRest ==
  ASSUME ConsoleInd, ConsoleNext
  PROVE  RoutinesOfSelected' /\ PollingAlive'
<1> USE ConsoleAssumption DEF ConsoleInd, consoleServer, console, sync, ConsoleTypeOK, RunId, View, RoutinesOfSelected, PollingAlive
<1>1. ASSUME NEW b \in Bot, SelectBot(b)
      PROVE  RoutinesOfSelected' /\ PollingAlive'
  BY <1>1 DEF SelectBot, Read, Seen, Act, NoField, NoTrajectory, Phase, Run, Kind, Request
<1>2. ASSUME NEW goal \in BOOLEAN, Send(goal)
      PROVE  RoutinesOfSelected' /\ PollingAlive'
  BY <1>2 DEF Send, Act, Phase, Run, Kind, Request
<1>3. ASSUME NEW b \in Bot, Decide(b)
      PROVE  RoutinesOfSelected' /\ PollingAlive'
  BY <1>3 DEF Decide, Write, Act, Phase, Run, Kind, Request
<1>4. ASSUME FollowUp
      PROVE  RoutinesOfSelected' /\ PollingAlive'
  BY <1>4 DEF FollowUp, Write, Act, Phase, Run, Kind, Request
<1>5. ASSUME StopRun
      PROVE  RoutinesOfSelected' /\ PollingAlive'
  BY <1>5 DEF StopRun, Write, Act, Phase, Run, Kind, Request
<1>6. ASSUME RenameOpen
      PROVE  RoutinesOfSelected' /\ PollingAlive'
  BY <1>6 DEF RenameOpen, Act, Phase, Run, Kind, Request
<1>7. ASSUME RenameType
      PROVE  RoutinesOfSelected' /\ PollingAlive'
  BY <1>7 DEF RenameType, Phase, Run, Kind, Request
<1>8. ASSUME LoadRoutines
      PROVE  RoutinesOfSelected' /\ PollingAlive'
  BY <1>8 DEF LoadRoutines, Read, Seen, Act, Phase, Run, Kind, Request
<1>9. ASSUME TrajectoryOpen
      PROVE  RoutinesOfSelected' /\ PollingAlive'
  BY <1>9 DEF TrajectoryOpen, Read, Seen, Act, Phase, Run, Kind, Request
<1>10. ASSUME Leave
      PROVE  RoutinesOfSelected' /\ PollingAlive'
  BY <1>10 DEF Leave, Act, Phase, Run, Kind, Request
<1>11. ASSUME NEW r \in inflight, Handle(r)
      PROVE  RoutinesOfSelected' /\ PollingAlive'
  BY <1>11 DEF Handle, Phase, Run, Kind, Request
<1>12. ASSUME NEW r \in inflight, ThreadArrives(r)
      PROVE  RoutinesOfSelected' /\ PollingAlive'
  BY <1>12 DEF ThreadArrives, Phase, Run, Kind, Request
<1>13. ASSUME NEW r \in inflight, SyncArrives(r)
      PROVE  RoutinesOfSelected' /\ PollingAlive'
  BY <1>13 DEF SyncArrives, Phase, Run, Kind, Request
<1>14. ASSUME NEW r \in inflight, PollArrives(r)
      PROVE  RoutinesOfSelected' /\ PollingAlive'
  BY <1>14 DEF PollArrives, Phase, Run, Kind, Request
<1>15. ASSUME NEW r \in inflight, FollowUpArrives(r)
      PROVE  RoutinesOfSelected' /\ PollingAlive'
  BY <1>15 DEF FollowUpArrives, Phase, Run, Kind, Request
<1>16. ASSUME NEW r \in inflight, CancelArrives(r)
      PROVE  RoutinesOfSelected' /\ PollingAlive'
  BY <1>16 DEF CancelArrives, Phase, Run, Kind, Request
<1>17. ASSUME NEW r \in inflight, DecideArrives(r)
      PROVE  RoutinesOfSelected' /\ PollingAlive'
  BY <1>17 DEF DecideArrives, Phase, Run, Kind, Request
<1>18. ASSUME NEW r \in inflight, RoutinesArrive(r)
      PROVE  RoutinesOfSelected' /\ PollingAlive'
  BY <1>18 DEF RoutinesArrive, Phase, Run, Kind, Request
<1>19. ASSUME NEW r \in inflight, TrajectoryArrives(r)
      PROVE  RoutinesOfSelected' /\ PollingAlive'
  BY <1>19 DEF TrajectoryArrives, Phase, Run, Kind, Request
<1>20. ASSUME NEW b \in Bot, StreamOpens(b)
      PROVE  RoutinesOfSelected' /\ PollingAlive'
  BY <1>20 DEF StreamOpens, Touch, Phase, Run, Kind, Request
<1>21. ASSUME NEW b \in Bot, RunFinishes(b)
      PROVE  RoutinesOfSelected' /\ PollingAlive'
  BY <1>21 DEF RunFinishes, Touch, Phase, Run, Kind, Request
<1>22. ASSUME NEW b \in Bot, StreamCloses(b)
      PROVE  RoutinesOfSelected' /\ PollingAlive'
  BY <1>22 DEF StreamCloses, Seen, Phase, Run, Kind, Request
<1>23. ASSUME NEW b \in Bot, StreamDone(b)
      PROVE  RoutinesOfSelected' /\ PollingAlive'
  BY <1>23 DEF StreamDone, Phase, Run, Kind, Request
<1>24. ASSUME NEW b \in Bot, Poll(b)
      PROVE  RoutinesOfSelected' /\ PollingAlive'
  BY <1>24 DEF Poll, Read, Seen, Phase, Run, Kind, Request
<1>25. ASSUME NEW b \in Bot, Forget(b)
      PROVE  RoutinesOfSelected' /\ PollingAlive'
  BY <1>25 DEF Forget, Phase, Run, Kind, Request
<1>26. ASSUME NEW b \in Bot, StreamFails(b)
      PROVE  RoutinesOfSelected' /\ PollingAlive'
  BY <1>26 DEF StreamFails, Read, Seen, Phase, Run, Kind, Request
<1>27. ASSUME NEW b \in Bot, ResidentSpeaks(b)
      PROVE  RoutinesOfSelected' /\ PollingAlive'
  BY <1>27 DEF ResidentSpeaks, Act, Touch, Phase, Run, Kind, Request
<1>28. ASSUME NEW t \in stopTimers, StopTimer(t)
      PROVE  RoutinesOfSelected' /\ PollingAlive'
  BY <1>28 DEF StopTimer, Read, Seen, RunOf, Phase, Run, Kind, Request
<1>29. ASSUME SyncTick
      PROVE  RoutinesOfSelected' /\ PollingAlive'
  BY <1>29 DEF SyncTick, Read, Seen, Phase, Run, Kind, Request
<1>30. ASSUME Return
      PROVE  RoutinesOfSelected' /\ PollingAlive'
  BY <1>30 DEF Return, Phase, Run, Kind, Request
<1>31. ASSUME RenameCommit
      PROVE  RoutinesOfSelected' /\ PollingAlive'
  BY <1>31 DEF RenameCommit, NoField, Phase, Run, Kind, Request
<1> QED
  BY <1>1, <1>2, <1>3, <1>4, <1>5, <1>6, <1>7, <1>8, <1>9, <1>10, <1>11, <1>12, <1>13, <1>14, <1>15, <1>16, <1>17, <1>18, <1>19, <1>20, <1>21, <1>22, <1>23, <1>24, <1>25, <1>26, <1>27, <1>28, <1>29, <1>30, <1>31 DEF ConsoleNext, Owner, Lands, Runs

\* The console's own invariant: established when the page is loaded, kept by each step.
LEMMA ConsoleStarts == ASSUME ConsoleInit PROVE ConsoleInd
<1> USE ConsoleAssumption DEF ConsoleInit
<1>1. Read("select", selected, 0) \in Request /\ Read("select", selected, 0).kind = "select"
  <2>1. [bot |-> selected, ver |-> 0] \in View
    BY DEF View
  <2> QED
    BY <2>1 DEF Read, Seen, Request, Kind, RunId
<1>2. ConsoleTypeOK /\ sent <= acts
  <2>1. 0 \in RunId /\ sent \in RunId /\ acts \in 0..MaxActs /\ sent <= acts
    BY DEF RunId
  <2>2. threads \in [Bot -> Nat] /\ lastTurn \in [Bot -> [run : RunId, running : BOOLEAN]]
    BY <2>1
  <2>3. named \in [Bot -> Bot] /\ active \in [Bot -> Run \cup {None}]
    OBVIOUS
  <2>4. field \in [open : BOOLEAN, bot : Bot \cup {None}, title : Bot \cup {None}]
    BY DEF NoField
  <2>5. trajectory \in [open : BOOLEAN, run : (Bot \X RunId) \cup {None}, data : Bot \cup {None}]
    BY DEF NoTrajectory
  <2> QED
    BY <1>1, <2>1, <2>2, <2>3, <2>4, <2>5 DEF ConsoleTypeOK
<1> QED
  BY <1>1, <1>2 DEF ConsoleInd, Polled, StopsAreAsked, FieldIsSelected, NoField,
                    AbortsOnlyStopped, RoutinesOfSelected, NamesUnderOwnTitle, PollingAlive

LEMMA ConsoleGoesOn == ASSUME ConsoleInd, [ConsoleNext]_consoleVars PROVE ConsoleInd'
<1>1. CASE ConsoleNext
  BY <1>1, ConsoleTypes, ConsolePolls, ConsoleStops, ConsoleNames, ConsoleRest DEF ConsoleInd
<1>2. CASE UNCHANGED consoleVars
  BY <1>2 DEF ConsoleInd, consoleVars, consoleServer, console, sync, ConsoleTypeOK, Polled,
              StopsAreAsked, FieldIsSelected, AbortsOnlyStopped, RoutinesOfSelected,
              NamesUnderOwnTitle, PollingAlive
<1> QED
  BY <1>1, <1>2

\* No late answer, timer or selection aborts a run nobody stopped, shows routines of
\* another Bot, saves a name under another title or ends the synchronization for good.
THEOREM ConsoleKeepsOrder == PagesSpec => []ConsoleInv
<1>1. PagesInit => ConsoleInd
  BY ConsoleStarts DEF PagesInit
<1>2. ConsoleInd /\ [PagesNext]_pageVars => ConsoleInd'
  <2>1. [PagesNext]_pageVars => [ConsoleNext]_consoleVars
    BY DEF PagesNext, pageVars, Console, Talk, Projects, Phone, Shop, Purse
  <2> QED
    BY <2>1, ConsoleGoesOn
<1>3. ConsoleInd => ConsoleInv
  BY DEF ConsoleInd, ConsoleInv
<1> QED
  BY <1>1, <1>2, <1>3, PTL DEF PagesSpec


(***************************************************************************)
(* The wallet.                                                             *)
(***************************************************************************)

Operations == [Passkey -> {"none", "submitted", "confirmed"}]
WalletAnswers == [recorded : BOOLEAN, operation : Operations]

\* The counters of the transfer.  What was clicked or broadcast is at most MaxSends,
\* what waits for the server was broadcast, and a button on screen counts as a broadcast
\* that may still come: each way of putting one back is counted as a loss or a redraw.
SendsCounted ==
  /\ sending \in Nat /\ posting \in Nat /\ reloading \in Nat /\ broadcasts \in Nat /\ lost \in Nat
  /\ redrawn \in 0..MaxSends
  /\ sending + broadcasts <= MaxSends
  /\ posting + reloading <= broadcasts
  /\ sending + broadcasts + (IF rowOn THEN 1 ELSE 0) <= 1 + lost + redrawn

\* The ceremony of a passkey excludes those of the others, and holds the flag.
Alone ==
  /\ \A p, q \in Passkey : ceremony[p] # "none" /\ ceremony[q] # "none" => p = q
  /\ busy <=> \E p \in Passkey : ceremony[p] # "none"

WalletTyped ==
  /\ announced \subseteq Provider /\ reading \in BOOLEAN
  /\ chosen \in announced \cup {NoProvider} /\ (chosen = NoProvider => announced = {})
  /\ recorded \in BOOLEAN /\ operation \in Operations
  /\ walletState \in WalletAnswers /\ loading \subseteq WalletAnswers
  /\ rowOn \in BOOLEAN /\ walletActs \in 0..MaxWalletActs
  /\ busy \in BOOLEAN /\ polling \subseteq Passkey
  /\ ceremony \in [Passkey -> {"none", "starting", "signing", "polling"}]
  /\ ownerRow \in [Passkey -> {"add", "off", "receipt", "owner"}]

WalletInd == WalletTyped /\ SendsCounted /\ Alone

\* The rows of the passkeys have one of their buttons.
LEMMA RowsDrawn ==
  ASSUME NEW state \in WalletAnswers
  PROVE  /\ OwnerRow(state, FALSE) \in [Passkey -> {"add", "off", "receipt", "owner"}]
         /\ OwnerRow(state, busy) \in [Passkey -> {"add", "off", "receipt", "owner"}]
BY DEF OwnerRow, WalletAnswers, Operations

\* What drawing the page does to the transfer's row keeps the count of the buttons.
RowDrawn(state) ==
  /\ rowOn' = ~state.recorded
  /\ redrawn' = IF ~state.recorded /\ Clicks + broadcasts > 0 /\ redrawn < MaxSends
                THEN redrawn + 1 ELSE redrawn

LEMMA DrawCounts ==
  ASSUME SendsCounted, WalletTyped, NEW state \in WalletAnswers,
         RowDrawn(state),
         UNCHANGED <<sending, posting, broadcasts, lost>>, NEW left \in Nat, left <= reloading, reloading' = left
  PROVE  SendsCounted' /\ rowOn' \in BOOLEAN
<1>2. state.recorded \in BOOLEAN
  BY DEF WalletAnswers
<1>3. rowOn' \in BOOLEAN /\ rowOn' = ~state.recorded
  BY <1>2 DEF RowDrawn
<1> DEFINE N == sending + broadcasts
<1>4. /\ sending \in Nat /\ posting \in Nat /\ reloading \in Nat /\ broadcasts \in Nat
      /\ lost \in Nat /\ redrawn \in Nat /\ redrawn <= MaxSends /\ posting + reloading <= broadcasts
  BY WalletAssumption DEF SendsCounted
<1>5. N \in Nat /\ N <= MaxSends /\ N <= 1 + lost + redrawn
  BY <1>4 DEF SendsCounted, WalletTyped
<1>6. redrawn' \in 0..MaxSends /\ N + (IF rowOn' THEN 1 ELSE 0) <= 1 + lost + redrawn'
  <2>1. CASE state.recorded
    <3>1. redrawn' = redrawn /\ ~rowOn'
      BY <2>1, <1>3 DEF RowDrawn
    <3> QED
      BY <3>1, <1>4, <1>5, WalletAssumption
  <2>2. CASE ~state.recorded /\ Clicks + broadcasts > 0 /\ redrawn < MaxSends
    <3>1. redrawn' = redrawn + 1
      BY <2>2 DEF RowDrawn
    <3> QED
      BY <3>1, <2>2, <1>3, <1>4, <1>5, WalletAssumption
  <2>3. CASE ~state.recorded /\ ~(Clicks + broadcasts > 0 /\ redrawn < MaxSends)
    <3>1. redrawn' = redrawn
      BY <2>3 DEF RowDrawn
    <3>2. N = 0 \/ redrawn = MaxSends
      BY <2>3, <1>4, WalletAssumption DEF Clicks
    <3> QED
      BY <3>1, <3>2, <1>3, <1>4, <1>5, WalletAssumption
  <2> QED
    BY <1>2, <2>1, <2>2, <2>3
<1>7. /\ redrawn' \in 0..MaxSends /\ sending' + broadcasts' <= MaxSends
      /\ sending' + broadcasts' + (IF rowOn' THEN 1 ELSE 0) <= 1 + lost' + redrawn'
  BY <1>5, <1>6
<1>8. /\ sending' \in Nat /\ posting' \in Nat /\ broadcasts' \in Nat /\ lost' \in Nat
      /\ posting' = posting /\ broadcasts' = broadcasts
  BY <1>4
<1>9. posting' + reloading' <= broadcasts'
  <2>1. posting + left <= broadcasts
    BY <1>4
  <2> QED
    BY <2>1, <1>8
<1> QED
  BY <1>3, <1>7, <1>8, <1>9 DEF SendsCounted

\* An answer as the server gives it now, also with one operation confirmed.
LEMMA AnswersAreTyped ==
  ASSUME WalletTyped, NEW p \in Passkey
  PROVE  /\ Answer \in WalletAnswers
         /\ [Answer EXCEPT !.operation[p] = "confirmed"] \in WalletAnswers
         /\ [operation EXCEPT ![p] = "confirmed"] \in Operations
<1>1. recorded \in BOOLEAN /\ operation \in Operations
  BY DEF WalletTyped
<1>2. Answer \in WalletAnswers
  BY <1>1 DEF Answer, WalletAnswers
<1>3. [operation EXCEPT ![p] = "confirmed"] \in Operations
  BY <1>1 DEF Operations
<1>4. [Answer EXCEPT !.operation[p] = "confirmed"]
        = [recorded |-> recorded, operation |-> [operation EXCEPT ![p] = "confirmed"]]
  BY <1>1 DEF Answer
<1> QED
  BY <1>1, <1>2, <1>3, <1>4 DEF WalletAnswers

\* Every step keeps types and counters.
LEMMA WalletTypes ==
  ASSUME WalletInd, WalletNext
  PROVE  WalletTyped' /\ SendsCounted'
<1> USE WalletAssumption, NoProviderAssumption DEF WalletInd, wallets, server, transfer, owners
<1>0. WalletAct => walletActs' \in 0..MaxWalletActs
  BY DEF WalletAct, WalletTyped
<1>1. ASSUME NEW w \in Provider, Announce(w) \/ ChooseProvider(w)
      PROVE  WalletTyped' /\ SendsCounted'
  <2>1. CASE Announce(w)
    <3>1. announced' \subseteq Provider /\ chosen' \in announced' /\ chosen' # NoProvider
      BY <2>1 DEF Announce, WalletTyped
    <3>2. walletActs' \in 0..MaxWalletActs
      BY <1>0, <2>1 DEF Announce
    <3> QED
      BY <2>1, <3>1, <3>2 DEF Announce, WalletTyped, SendsCounted
  <2>2. CASE ChooseProvider(w)
    <3>1. chosen' \in announced' /\ chosen' # NoProvider
      BY <2>2 DEF ChooseProvider, WalletTyped
    <3>2. walletActs' \in 0..MaxWalletActs
      BY <1>0, <2>2 DEF ChooseProvider
    <3> QED
      BY <2>2, <3>1, <3>2 DEF ChooseProvider, WalletTyped, SendsCounted
  <2> QED
    BY <1>1, <2>1, <2>2
<1>2. CASE BalancesArrive
  <2>1. walletState \in WalletAnswers /\ busy \in BOOLEAN
    BY DEF WalletTyped
  <2>2. Draw(walletState, busy)
    BY <1>2 DEF BalancesArrive
  <2>3. SendsCounted' /\ rowOn' \in BOOLEAN /\ ownerRow' \in [Passkey -> {"add", "off", "receipt", "owner"}]
    <3>1. UNCHANGED <<sending, posting, broadcasts, lost>> /\ reloading' \in Nat /\ reloading' <= reloading
      BY <1>2 DEF BalancesArrive, SendsCounted
    <3>5. RowDrawn(walletState) /\ ownerRow' \in [Passkey -> {"add", "off", "receipt", "owner"}]
      BY <2>1, <2>2, RowsDrawn DEF Draw, RowDrawn
    <3> QED
      BY <2>1, <3>1, <3>5, DrawCounts
  <2> QED
    BY <1>2, <2>3 DEF BalancesArrive, WalletTyped
<1>3. CASE Load
  <2>1. Answer \in WalletAnswers
    BY DEF Answer, WalletAnswers, WalletTyped
  <2> QED
    BY <1>0, <1>3, <2>1 DEF Load, WalletTyped, SendsCounted
<1>4. CASE LoadArrives
  <2>1. PICK a \in loading : /\ loading' = loading \ {a} /\ walletState' = a /\ Draw(a, busy)
                             /\ UNCHANGED <<wallets, server, walletActs, sending, posting, reloading,
                                            broadcasts, lost, busy, ceremony, polling>>
    BY <1>4 DEF LoadArrives
  <2>2. a \in WalletAnswers /\ busy \in BOOLEAN
    BY DEF WalletTyped
  <2>3. SendsCounted' /\ rowOn' \in BOOLEAN /\ ownerRow' \in [Passkey -> {"add", "off", "receipt", "owner"}]
    <3>1. RowDrawn(a) /\ ownerRow' \in [Passkey -> {"add", "off", "receipt", "owner"}]
      BY <2>1, <2>2, RowsDrawn DEF Draw, RowDrawn
    <3>2. UNCHANGED <<sending, posting, broadcasts, lost>> /\ reloading' \in Nat /\ reloading' <= reloading
      BY <2>1 DEF SendsCounted
    <3> QED
      BY <2>2, <3>1, <3>2, DrawCounts
  <2> QED
    BY <2>1, <2>2, <2>3 DEF WalletTyped
<1>5. CASE SubmitClick \/ SendRefused \/ SendBroadcast \/ SendRecorded \/ SendUnrecorded \/ SendReloadFails
  <2>1. WalletTyped'
    BY <1>0, <1>5 DEF SubmitClick, SendRefused, SendBroadcast, SendRecorded, SendUnrecorded,
                      SendReloadFails, WalletTyped
  <2>2. SendsCounted'
    <3>1. CASE SubmitClick
      BY <3>1 DEF SubmitClick, WalletTyped, SendsCounted
    <3>2. CASE SendRefused
      BY <3>2 DEF SendRefused, WalletTyped, SendsCounted
    <3>3. CASE SendBroadcast
      BY <3>3 DEF SendBroadcast, WalletTyped, SendsCounted
    <3>4. CASE SendRecorded
      BY <3>4 DEF SendRecorded, WalletTyped, SendsCounted
    <3>5. CASE SendUnrecorded
      BY <3>5 DEF SendUnrecorded, WalletTyped, SendsCounted
    <3>6. CASE SendReloadFails
      BY <3>6 DEF SendReloadFails, WalletTyped, SendsCounted
    <3> QED
      BY <1>5, <3>1, <3>2, <3>3, <3>4, <3>5, <3>6
  <2> QED
    BY <2>1, <2>2
<1>6. CASE SendReloaded
  <2>1. Answer \in WalletAnswers /\ busy \in BOOLEAN
    BY DEF Answer, WalletAnswers, WalletTyped
  <2>2. Draw(Answer, busy) /\ reloading' \in Nat /\ reloading' <= reloading
    BY <1>6 DEF SendReloaded, SendsCounted
  <2>3. SendsCounted' /\ rowOn' \in BOOLEAN /\ ownerRow' \in [Passkey -> {"add", "off", "receipt", "owner"}]
    <3>1. UNCHANGED <<sending, posting, broadcasts, lost>> /\ reloading' \in Nat /\ reloading' <= reloading
      BY <1>6 DEF SendReloaded, SendsCounted
    <3>5. RowDrawn(Answer) /\ ownerRow' \in [Passkey -> {"add", "off", "receipt", "owner"}]
      BY <2>1, <2>2, RowsDrawn DEF Draw, RowDrawn
    <3> QED
      BY <2>1, <3>1, <3>5, DrawCounts
  <2> QED
    BY <1>6, <2>1, <2>3 DEF SendReloaded, WalletTyped
<1>7. ASSUME NEW p \in Passkey, OwnerClick(p) \/ OwnerStarted(p) \/ OwnerSubmitted(p) \/ ReceiptClick(p)
      PROVE  WalletTyped' /\ SendsCounted'
  <2>1. SendsCounted'
    BY <1>7 DEF OwnerClick, OwnerStarted, OwnerSubmitted, ReceiptClick, SendsCounted
  <2>2. CASE OwnerClick(p)
    BY <1>0, <2>1, <2>2 DEF OwnerClick, Step, WalletTyped
  <2>3. CASE OwnerStarted(p)
    BY <2>1, <2>3 DEF OwnerStarted, Step, WalletTyped
  <2>4. CASE OwnerSubmitted(p)
    BY <2>1, <2>4 DEF OwnerSubmitted, Step, WalletTyped, Operations
  <2>5. CASE ReceiptClick(p)
    BY <1>0, <2>1, <2>5 DEF ReceiptClick, WalletTyped
  <2> QED
    BY <1>7, <2>2, <2>3, <2>4, <2>5
<1>8. ASSUME NEW p \in Passkey, OwnerConfirmed(p)
      PROVE  WalletTyped' /\ SendsCounted'
  <2>1. walletState' \in WalletAnswers /\ operation' \in Operations
    BY <1>8, AnswersAreTyped DEF OwnerConfirmed
  <2>2. Draw(walletState', FALSE)
    BY <1>8 DEF OwnerConfirmed
  <2>3. SendsCounted' /\ rowOn' \in BOOLEAN /\ ownerRow' \in [Passkey -> {"add", "off", "receipt", "owner"}]
    <3>1. UNCHANGED <<sending, posting, reloading, broadcasts, lost>>
      BY <1>8 DEF OwnerConfirmed
    <3>2. reloading' \in Nat /\ reloading' <= reloading
      BY <3>1 DEF SendsCounted
    <3>5. RowDrawn(walletState') /\ ownerRow' \in [Passkey -> {"add", "off", "receipt", "owner"}]
      BY <2>1, <2>2, RowsDrawn DEF Draw, RowDrawn
    <3> QED
      BY <2>1, <3>1, <3>2, <3>5, DrawCounts
  <2> QED
    BY <1>8, <2>1, <2>3 DEF OwnerConfirmed, Step, WalletTyped
<1>9. ASSUME NEW p \in Passkey, OwnerFails(p)
      PROVE  WalletTyped' /\ SendsCounted'
  <2>1. walletState \in WalletAnswers
    BY DEF WalletTyped
  <2>2. Draw(walletState, FALSE)
    BY <1>9 DEF OwnerFails
  <2>3. SendsCounted' /\ rowOn' \in BOOLEAN /\ ownerRow' \in [Passkey -> {"add", "off", "receipt", "owner"}]
    <3>1. UNCHANGED <<sending, posting, reloading, broadcasts, lost>>
      BY <1>9 DEF OwnerFails
    <3>2. reloading' \in Nat /\ reloading' <= reloading
      BY <3>1 DEF SendsCounted
    <3>5. RowDrawn(walletState) /\ ownerRow' \in [Passkey -> {"add", "off", "receipt", "owner"}]
      BY <2>1, <2>2, RowsDrawn DEF Draw, RowDrawn
    <3> QED
      BY <2>1, <3>1, <3>2, <3>5, DrawCounts
  <2> QED
    BY <1>9, <2>3 DEF OwnerFails, Step, WalletTyped
<1>10. ASSUME NEW p \in Passkey, ReceiptArrives(p)
       PROVE  WalletTyped' /\ SendsCounted'
  <2>1. CASE operation[p] = "submitted"
    <3>1. walletState' \in WalletAnswers /\ operation' \in Operations
      BY <1>10, <2>1, AnswersAreTyped DEF ReceiptArrives
    <3>2. Draw(walletState', busy) /\ busy \in BOOLEAN
      BY <1>10, <2>1 DEF ReceiptArrives, WalletTyped
    <3>3. SendsCounted' /\ rowOn' \in BOOLEAN /\ ownerRow' \in [Passkey -> {"add", "off", "receipt", "owner"}]
      <4>1. UNCHANGED <<sending, posting, broadcasts, lost>> /\ reloading' \in Nat /\ reloading' <= reloading
        BY <1>10 DEF ReceiptArrives, SendsCounted
      <4>2. RowDrawn(walletState') /\ ownerRow' \in [Passkey -> {"add", "off", "receipt", "owner"}]
        BY <3>1, <3>2, RowsDrawn DEF Draw, RowDrawn
      <4> QED
        BY <3>1, <4>1, <4>2, DrawCounts
    <3> QED
      BY <1>10, <3>1, <3>3 DEF ReceiptArrives, WalletTyped
  <2>2. CASE operation[p] # "submitted"
    BY <1>10, <2>2 DEF ReceiptArrives, WalletTyped, SendsCounted
  <2> QED
    BY <2>1, <2>2
<1> QED
  BY <1>1, <1>2, <1>3, <1>4, <1>5, <1>6, <1>7, <1>8, <1>9, <1>10 DEF WalletNext

\* A ceremony begins when none is under way, and ends with the flag.
LEMMA WalletAlone ==
  ASSUME WalletInd, WalletNext
  PROVE  Alone'
<1> USE DEF WalletInd, wallets, server, transfer, owners
<1>1. ASSUME NEW p \in Passkey,
             OwnerClick(p) \/ OwnerStarted(p) \/ OwnerSubmitted(p) \/ OwnerConfirmed(p) \/ OwnerFails(p)
      PROVE  Alone'
  <2>1. ASSUME NEW to \in {"none", "starting", "signing", "polling"}, Step(p, to)
        PROVE  \A q \in Passkey : ceremony'[q] = IF q = p THEN to ELSE ceremony[q]
    BY <2>1 DEF Step, WalletTyped
  <2>2. CASE OwnerClick(p)
    BY <2>1, <2>2 DEF OwnerClick, Alone
  <2>3. CASE OwnerStarted(p)
    BY <2>1, <2>3 DEF OwnerStarted, Alone
  <2>4. CASE OwnerSubmitted(p)
    BY <2>1, <2>4 DEF OwnerSubmitted, Alone
  <2>5. CASE OwnerConfirmed(p) \/ OwnerFails(p)
    BY <2>1, <2>5 DEF OwnerConfirmed, OwnerFails, Alone
  <2> QED
    BY <1>1, <2>2, <2>3, <2>4, <2>5
<1>2. UNCHANGED <<busy, ceremony>> => Alone'
  BY DEF Alone
<1>3. ASSUME NEW w \in Provider, Announce(w) \/ ChooseProvider(w)
      PROVE  Alone'
  BY <1>2, <1>3 DEF Announce, ChooseProvider
<1>4. ASSUME NEW p \in Passkey, ReceiptClick(p) \/ ReceiptArrives(p)
      PROVE  Alone'
  BY <1>2, <1>4 DEF ReceiptClick, ReceiptArrives
<1>5. CASE BalancesArrive \/ Load \/ LoadArrives \/ SubmitClick \/ SendRefused \/ SendBroadcast
           \/ SendRecorded \/ SendReloaded \/ SendUnrecorded \/ SendReloadFails
  BY <1>2, <1>5 DEF BalancesArrive, Load, LoadArrives, SubmitClick, SendRefused, SendBroadcast,
                    SendRecorded, SendReloaded, SendUnrecorded, SendReloadFails
<1> QED
  BY <1>1, <1>3, <1>4, <1>5 DEF WalletNext

LEMMA WalletGoesOn == ASSUME WalletInd, [WalletNext]_walletVars PROVE WalletInd'
<1>1. CASE WalletNext
  BY <1>1, WalletTypes, WalletAlone DEF WalletInd
<1>2. CASE UNCHANGED walletVars
  BY <1>2 DEF WalletInd, walletVars, wallets, server, transfer, owners, WalletTyped, SendsCounted, Alone
<1> QED
  BY <1>1, <1>2

LEMMA WalletStarts == ASSUME WalletInit PROVE WalletInd
<1> USE WalletAssumption DEF WalletInit
<1>1. operation \in Operations /\ walletState \in WalletAnswers
  BY DEF Operations, WalletAnswers, Answer
<1>2. ownerRow \in [Passkey -> {"add", "off", "receipt", "owner"}]
  BY <1>1, RowsDrawn
<1>3. WalletTyped
  <2>1. ceremony \in [Passkey -> {"none", "starting", "signing", "polling"}]
    OBVIOUS
  <2>2. announced \subseteq Provider /\ chosen \in announced \cup {NoProvider} /\ announced = {}
    OBVIOUS
  <2>3. walletActs \in 0..MaxWalletActs /\ loading \subseteq WalletAnswers /\ polling \subseteq Passkey
    OBVIOUS
  <2>4. reading \in BOOLEAN /\ recorded \in BOOLEAN /\ rowOn \in BOOLEAN /\ busy \in BOOLEAN
    OBVIOUS
  <2> HIDE DEF WalletInit
  <2> QED
    BY <1>1, <1>2, <2>1, <2>2, <2>3, <2>4 DEF WalletTyped
<1>4. SendsCounted /\ Alone
  BY DEF SendsCounted, Alone
<1> QED
  BY <1>3, <1>4 DEF WalletInd

LEMMA WalletHolds == ASSUME WalletInd PROVE WalletInv
<1>1. sending + posting + reloading \in 0..MaxSends /\ broadcasts \in 0..MaxSends
  BY WalletAssumption DEF WalletInd, SendsCounted
<1>2. WalletTypeOK
  BY <1>1 DEF WalletInd, WalletTyped, SendsCounted, WalletTypeOK, Operations, WalletAnswers
<1>3. SentAgainOnlyAfterLoss
  BY WalletAssumption DEF WalletInd, WalletTyped, SendsCounted, SentAgainOnlyAfterLoss
<1>4. Cardinality({p \in Passkey : ceremony[p] # "none"}) <= 1
  <2> DEFINE under == {p \in Passkey : ceremony[p] # "none"}
  <2>1. CASE under = {}
    BY <2>1, FS_EmptySet
  <2>2. CASE under # {}
    <3>1. PICK p \in under : TRUE
      BY <2>2
    <3>2. under = {p}
      BY <3>1 DEF WalletInd, Alone
    <3> QED
      BY <3>2, FS_Singleton
  <2> QED
    BY <2>1, <2>2
<1> QED
  BY <1>2, <1>3, <1>4 DEF WalletInv, OneCeremony, WalletInd, Alone

\* However answers, balances and losses redraw the wallet: one owner is added at a time,
\* and the transfer is broadcast again only after a loss that put its button back.
THEOREM WalletSpendsOnce == PagesSpec => []WalletInv
<1>1. PagesInit => WalletInd
  BY WalletStarts DEF PagesInit
<1>2. WalletInd /\ [PagesNext]_pageVars => WalletInd'
  <2>1. [PagesNext]_pageVars => [WalletNext]_walletVars
    BY DEF PagesNext, pageVars, Console, Talk, Projects, Phone, Shop, Purse
  <2> QED
    BY <2>1, WalletGoesOn
<1>3. WalletInd => WalletInv
  BY WalletHolds
<1> QED
  BY <1>1, <1>2, <1>3, PTL DEF PagesSpec


(***************************************************************************)
(* The projects and their sites.                                           *)
(***************************************************************************)

\* Requests name sites that there are or none, and what a save posts is a site's text.
AskedTyped ==
  \A r \in asked :
    /\ r.project \in Project \cup {NoProject} /\ r.site \in ProjectSite \cup {NoSite}
    /\ r.kind = "save" => r.site \in ProjectSite /\ r.text \in ProjectSite

\* Sites are of projects that there are, the selected one too, and an open editor has
\* the text of one.
SitesExist ==
  /\ \A s \in sites : s[1] \in projects
  /\ listed \subseteq projects
  /\ selectedSite \in sites \cup {NoSite}
  /\ panel => box \in ProjectSite

\* A remembered project that is not there yet has nothing on screen, and the rows
\* from which a site of the selected project was chosen are still that project's.
SelectionHasRows ==
  /\ selectedProject \notin projects => rows = {} /\ selectedSite = NoSite /\ boardOf \notin Project
  /\ selectedSite # NoSite /\ selectedSite[1] = selectedProject => rows = {} \/ rowsOf = selectedProject

ProjectInd == ProjectInv /\ AskedTyped /\ SitesExist /\ SelectionHasRows

\* No site is the site of no project.
LEMMA SitesHaveProjects ==
  /\ \A s \in ProjectSite : s[1] \in Project /\ s # NoSite
  /\ NoSite[1] = NoProject /\ NoProject \notin Project /\ Failed \notin Project
BY NoProjectAssumption DEF ProjectSite, NoSite

\* What the lists of a project ask for.
LEMMA ListsAsk ==
  ASSUME NEW p
  PROVE  /\ p # NoProject => Reading("board", p) \in Lists(p) /\ Reading("sites", p) \in Lists(p)
         /\ \A r \in Lists(p) : r.kind \in {"board", "sites"} /\ r.project = p /\ r.site = NoSite
BY DEF Lists, Reading

\* Asking alone changes nothing that is on screen.
LEMMA AskingOnly ==
  ASSUME ProjectInd, NEW q, asked' = asked \cup {q},
         q.project \in Project \cup {NoProject}, q.site \in ProjectSite \cup {NoSite},
         q.kind = "save" => q.site \in ProjectSite /\ q.text \in ProjectSite,
         projectActs' \in 0..MaxProjectActs,
         UNCHANGED <<projectServer, boards, siteRows, siteEditor>>
  PROVE  ProjectInd'
BY DEF ProjectInd, ProjectInv, ProjectTypeOK, ShownIsSelected, TextIsOfItsSite, AskedTyped, SitesExist,
       SelectionHasRows, projectServer, boards, siteRows, siteEditor, Reading

LEMMA ProjectGoesOn == ASSUME ProjectInd, [ProjectNext]_projectVars PROVE ProjectInd'
<1> USE SitesHaveProjects, ProjectAssumption
<1> USE DEF projectServer, boards, siteRows, siteEditor
<1>a. ProjectAct => projectActs' \in 0..MaxProjectActs
  BY DEF ProjectAct, ProjectInd, ProjectInv, ProjectTypeOK
<1>1. CASE ListProjects
  <2>1. asked' = asked \cup {Reading("projects", NoProject)} /\ UNCHANGED <<projectServer, boards, siteRows, siteEditor>>
    BY <1>1 DEF ListProjects, Asks
  <2> QED
    BY <1>1, <1>a, <2>1, AskingOnly DEF ListProjects, Reading
<1>2. CASE MoveIssue
  <2> DEFINE r == [Reading("move", selectedProject) EXCEPT !.text = <<boardOf, 0>>]
  <2>1. asked' = asked \cup {r} /\ UNCHANGED <<projectServer, boards, siteRows, siteEditor>>
    BY <1>2 DEF MoveIssue, Asks
  <2>2. r.kind = "move" /\ r.project \in Project \cup {NoProject} /\ r.site = NoSite
    BY DEF Reading, ProjectInd, ProjectInv, ProjectTypeOK
  <2> HIDE DEF r
  <2> QED
    <3>1. projectActs' \in 0..MaxProjectActs
      BY <1>2, <1>a DEF MoveIssue
    <3> QED
      BY <2>1, <2>2, <3>1, AskingOnly
<1>3. CASE OpenProjectPage \/ LoadProjectPage
  <2>1. /\ listed' = {} /\ boardOf' = NoProject /\ rowsOf' = NoProject /\ rows' = {}
        /\ selectedSite' = NoSite /\ panel' = FALSE /\ box' = NoSite /\ unread' = {}
        /\ asked' = {Reading("projects", NoProject)} /\ html' = html
    BY <1>3 DEF OpenProjectPage, LoadProjectPage, Loaded
  <2>2. /\ projects' \subseteq Project /\ sites' \subseteq ProjectSite
        /\ selectedProject' \in Project \cup {NoProject} /\ \A s \in sites' : s[1] \in projects'
    <3>1. CASE OpenProjectPage
      <4>1. PICK numbers \in SUBSET SiteNumber : sites' = projects' \X numbers
        BY <3>1 DEF OpenProjectPage
      <4> QED
        BY <3>1, <4>1 DEF OpenProjectPage, ProjectSite
    <3>2. CASE LoadProjectPage
      BY <3>2 DEF LoadProjectPage, ProjectInd, ProjectInv, ProjectTypeOK, SitesExist
    <3> QED
      BY <1>3, <3>1, <3>2
  <2>3. ProjectTypeOK'
    BY <1>3, <1>a, <2>1, <2>2 DEF OpenProjectPage, LoadProjectPage, ProjectInd, ProjectInv, ProjectTypeOK
  <2>4. AskedTyped'
    BY <2>1 DEF AskedTyped, Reading
  <2> QED
    BY <2>1, <2>2, <2>3, <2>4 DEF ProjectInd, ProjectInv, ShownIsSelected, TextIsOfItsSite, SitesExist, SelectionHasRows
<1>4. ASSUME NEW p \in listed, SelectProject(p)
      PROVE  ProjectInd'
  <2>1. /\ selectedProject' = p /\ selectedSite' = NoSite /\ panel' = FALSE /\ asked' = asked \cup Lists(p)
        /\ UNCHANGED <<projectServer, listed, boardOf, siteRows, box, unread>>
    BY <1>4 DEF SelectProject, Asks
  <2>2. p \in Project /\ p # NoProject
    BY DEF ProjectInd, ProjectInv, ProjectTypeOK
  <2>3. ProjectTypeOK'
    BY <1>4, <1>a, <2>1, <2>2 DEF SelectProject, ProjectInd, ProjectInv, ProjectTypeOK
  <2>4. AskedTyped'
    BY <2>1, <2>2, ListsAsk DEF AskedTyped, ProjectInd
  <2>5. ShownIsSelected'
    BY <2>1, <2>2, ListsAsk DEF ShownIsSelected, Reading
  <2>6. p \in projects
    BY DEF ProjectInd, SitesExist
  <2> QED
    BY <2>1, <2>2, <2>3, <2>4, <2>5, <2>6 DEF ProjectInd, ProjectInv, TextIsOfItsSite, SitesExist, SelectionHasRows
<1>5. ASSUME NEW s \in rows, SelectSite(s)
      PROVE  ProjectInd'
  <2> DEFINE q == OfSite("site", s, NoSite)
  <2>1. /\ selectedSite' = s /\ asked' = asked \cup {q}
        /\ UNCHANGED <<projectServer, boards, siteRows, panel, box, unread>>
    BY <1>5 DEF SelectSite, Asks
  <2>2. /\ q.kind = "site" /\ q.site = s /\ q.project = selectedProject
    BY DEF OfSite
  <2> HIDE DEF q
  <2>3. s \in sites /\ s[1] = rowsOf /\ s \in ProjectSite
    BY DEF ProjectInd, ProjectInv, ProjectTypeOK
  <2>4. panel => s[1] = selectedProject
    BY <2>3 DEF ProjectInd, ProjectInv, ProjectTypeOK, SelectionHasRows
  <2>5. ProjectTypeOK'
    BY <1>5, <1>a, <2>1, <2>3, <2>4 DEF SelectSite, ProjectInd, ProjectInv, ProjectTypeOK
  <2>6. AskedTyped'
    BY <2>1, <2>2, <2>3 DEF AskedTyped, ProjectInd, ProjectInv, ProjectTypeOK
  <2>7. ShownIsSelected' /\ TextIsOfItsSite'
    BY <2>1, <2>2 DEF ProjectInd, ProjectInv, ShownIsSelected, TextIsOfItsSite, Reading
  <2>8. SitesExist' /\ SelectionHasRows'
    BY <2>1, <2>3 DEF ProjectInd, SitesExist, SelectionHasRows
  <2> QED
    BY <2>5, <2>6, <2>7, <2>8 DEF ProjectInd, ProjectInv
<1>6. ASSUME NEW kind \in {"create project", "create issue", "create site"}, Create(kind)
      PROVE  ProjectInd'
  <2>1. /\ asked' = asked \cup {Reading(kind, selectedProject)}
        /\ UNCHANGED <<projectServer, boards, siteRows, siteEditor>>
    BY <1>6 DEF Create, Asks
  <2> DEFINE q == Reading(kind, selectedProject)
  <2>2. q.kind # "save" /\ q.project \in Project \cup {NoProject} /\ q.site = NoSite
    BY DEF Reading, ProjectInd, ProjectInv, ProjectTypeOK
  <2>3. projectActs' \in 0..MaxProjectActs /\ asked' = asked \cup {q}
    BY <1>6, <1>a, <2>1 DEF Create
  <2> HIDE DEF q
  <2> QED
    BY <2>1, <2>2, <2>3, AskingOnly
<1>7. ASSUME NEW kind \in {"save", "publish"}, SiteButton(kind)
      PROVE  ProjectInd'
  <2> DEFINE q == OfSite(kind, selectedSite, box)
  <2>1. /\ asked' = asked \cup {q} /\ panel /\ selectedSite # NoSite
        /\ UNCHANGED <<projectServer, boards, siteRows, siteEditor>>
    BY <1>7 DEF SiteButton, Asks
  <2>2. q.site = selectedSite /\ q.text = box /\ q.project = selectedProject
    BY DEF OfSite
  <2> HIDE DEF q
  <2>3. selectedSite \in ProjectSite /\ box \in ProjectSite /\ selectedProject \in Project \cup {NoProject}
    BY <2>1 DEF ProjectInd, ProjectInv, ProjectTypeOK, SitesExist
  <2> QED
    <3>1. projectActs' \in 0..MaxProjectActs
      BY <1>7, <1>a DEF SiteButton
    <3> QED
      BY <2>1, <2>2, <2>3, <3>1, AskingOnly
<1>8. ASSUME NEW r \in asked, ProjectsArrive(r)
      PROVE  ProjectInd'
  <2>1. /\ r.kind = "projects" /\ listed' = projects /\ asked' = (asked \ {r}) \cup Lists(selectedProject')
        /\ UNCHANGED <<projectServer, selectedSite, box, unread, projectActs>>
    BY <1>8 DEF ProjectsArrive, Ends
  <2>2. /\ selectedProject \in projects => selectedProject' = selectedProject
        /\ selectedProject \notin projects =>
             selectedProject' \in (IF projects = {} THEN {NoProject} ELSE projects)
    BY <1>8 DEF ProjectsArrive
  <2>3. /\ selectedProject' = NoProject =>
             boardOf' = NoProject /\ rowsOf' = NoProject /\ rows' = {} /\ panel' = FALSE
        /\ selectedProject' # NoProject => UNCHANGED <<boardOf, siteRows, panel>>
    BY <1>8 DEF ProjectsArrive
  <2>4. /\ projects \subseteq Project /\ selectedProject' \in Project \cup {NoProject}
        /\ selectedProject' # NoProject => selectedProject' \in projects
        /\ selectedProject' = NoProject => projects = {}
    BY <2>2 DEF ProjectInd, ProjectInv, ProjectTypeOK
  <2>5. selectedSite # NoSite => selectedProject' = selectedProject
    BY <2>2 DEF ProjectInd, SelectionHasRows
  <2>6. ProjectTypeOK'
    BY <2>1, <2>3, <2>4, <2>5 DEF ProjectInd, ProjectInv, ProjectTypeOK
  <2>7. AskedTyped'
    BY <2>1, <2>4, ListsAsk DEF AskedTyped, ProjectInd
  <2>8. ShownIsSelected'
    BY <2>1, <2>3, <2>4, <2>6, ListsAsk DEF ShownIsSelected, ProjectTypeOK
  <2>9. TextIsOfItsSite'
    <3>1. \A q \in asked : q.kind = "site" => q \in asked'
      BY <2>1
    <3> QED
      BY <2>1, <2>3, <3>1 DEF TextIsOfItsSite, ProjectInd, ProjectInv
  <2>10. SitesExist' /\ SelectionHasRows'
    BY <2>1, <2>3, <2>4, <2>5 DEF ProjectInd, SitesExist, SelectionHasRows
  <2> QED
    BY <2>6, <2>7, <2>8, <2>9, <2>10 DEF ProjectInd, ProjectInv
<1>9. ASSUME NEW r \in asked, BoardArrives(r)
      PROVE  ProjectInd'
  <2>1. /\ r.kind = "board" /\ asked' = asked \ {r}
        /\ UNCHANGED <<projectServer, listed, selectedProject, siteRows, siteEditor, projectActs>>
    BY <1>9 DEF BoardArrives, Ends
  <2>2. \/ boardOf' = Failed
        \/ boardOf' = boardOf /\ ~(r.project = selectedProject /\ r.project \in projects)
        \/ boardOf' = selectedProject /\ selectedProject \in projects
    BY <1>9 DEF BoardArrives
  <2>3. ProjectTypeOK'
    BY <2>1, <2>2 DEF ProjectInd, ProjectInv, ProjectTypeOK
  <2>4. ShownIsSelected'
    <3>1. Reading("sites", selectedProject).kind = "sites" /\ Reading("board", selectedProject).project = selectedProject
      BY DEF Reading
    <3>2. Reading("sites", selectedProject) \in asked => Reading("sites", selectedProject) \in asked'
      BY <2>1, <3>1
    <3>3. ASSUME boardOf' \in Project
          PROVE  boardOf' = selectedProject \/ Reading("board", selectedProject) \in asked'
      BY <2>1, <2>2, <3>1, <3>3 DEF ProjectInd, ProjectInv, ShownIsSelected, SelectionHasRows
    <3> QED
      BY <2>1, <3>2, <3>3 DEF ProjectInd, ProjectInv, ShownIsSelected, Reading
  <2>5. TextIsOfItsSite'
    BY <2>1 DEF ProjectInd, ProjectInv, TextIsOfItsSite
  <2>6. AskedTyped' /\ SitesExist' /\ SelectionHasRows'
    BY <2>1, <2>2 DEF ProjectInd, AskedTyped, SitesExist, SelectionHasRows
  <2> QED
    BY <2>3, <2>4, <2>5, <2>6 DEF ProjectInd, ProjectInv
<1>10. ASSUME NEW r \in asked, MoveArrives(r)
       PROVE  ProjectInd'
  <2>1. PICK more \in {{}, Lists(selectedProject) \ {Reading("sites", selectedProject)}} :
          asked' = (asked \ {r}) \cup more
    BY <1>10 DEF MoveArrives, Ends
  <2>2. /\ r.kind = "move"
        /\ UNCHANGED <<projectServer, boards, siteRows, siteEditor, projectActs>>
    BY <1>10 DEF MoveArrives
  <2>3. \A q \in more : q.kind = "board" /\ q.project \in Project \cup {NoProject} /\ q.site = NoSite
    <3>1. selectedProject \in Project \cup {NoProject}
      BY DEF ProjectInd, ProjectInv, ProjectTypeOK
    <3> QED
      BY <2>1, <3>1 DEF Lists, Reading
  <2>4. \A q \in asked : q.kind # "move" => q \in asked'
    BY <2>1, <2>2
  <2>5. Reading("board", selectedProject).kind = "board" /\ Reading("sites", selectedProject).kind = "sites"
    BY DEF Reading
  <2>6. ProjectTypeOK' /\ AskedTyped'
    BY <2>1, <2>2, <2>3 DEF ProjectInd, ProjectInv, ProjectTypeOK, AskedTyped
  <2>7. ShownIsSelected'
    BY <2>2, <2>4, <2>5 DEF ProjectInd, ProjectInv, ShownIsSelected, Reading
  <2>8. TextIsOfItsSite'
    BY <2>2, <2>4 DEF ProjectInd, ProjectInv, TextIsOfItsSite
  <2>9. SitesExist' /\ SelectionHasRows'
    BY <2>2 DEF ProjectInd, SitesExist, SelectionHasRows
  <2> QED
    BY <2>6, <2>7, <2>8, <2>9 DEF ProjectInd, ProjectInv
<1>11. ASSUME NEW r \in asked, CreateArrives(r)
       PROVE  ProjectInd'
  <2>1. /\ r.kind \in {"create project", "create issue", "create site"} /\ asked' = asked \ {r}
        /\ UNCHANGED <<html, boards, siteRows, siteEditor, projectActs>>
    BY <1>11 DEF CreateArrives, Ends
  <2>2. /\ projects \subseteq projects' /\ projects' \subseteq Project
        /\ sites \subseteq sites' /\ sites' \subseteq ProjectSite /\ \A s \in sites' : s[1] \in projects'
    <3>1. projects \subseteq Project /\ sites \subseteq ProjectSite /\ \A s \in sites : s[1] \in projects
      BY DEF ProjectInd, ProjectInv, ProjectTypeOK, SitesExist
    <3>2. CASE r.kind = "create project" /\ (\E p \in Project \ projects : projects' = projects \cup {p})
               /\ UNCHANGED sites
      BY <3>1, <3>2
    <3>3. CASE r.kind = "create site" /\ r.project \in projects
               /\ (\E n \in SiteNumber : sites' = sites \cup {<<r.project, n>>}) /\ UNCHANGED projects
      <4>1. PICK n \in SiteNumber : sites' = sites \cup {<<r.project, n>>}
        BY <3>3
      <4>2. <<r.project, n>> \in ProjectSite /\ <<r.project, n>>[1] = r.project
        BY <3>1, <3>3 DEF ProjectSite
      <4> QED
        BY <3>1, <3>3, <4>1, <4>2
    <3>4. CASE UNCHANGED <<projects, sites>>
      BY <3>1, <3>4
    <3> QED
      BY <1>11, <3>2, <3>3, <3>4 DEF CreateArrives
  <2>3. ProjectTypeOK' /\ AskedTyped'
    BY <2>1, <2>2 DEF ProjectInd, ProjectInv, ProjectTypeOK, AskedTyped
  <2>4. \A q \in asked : q.kind \in {"board", "sites", "site"} => q \in asked'
    BY <2>1
  <2>5. Reading("board", selectedProject).kind = "board" /\ Reading("sites", selectedProject).kind = "sites"
    BY DEF Reading
  <2>6. ShownIsSelected'
    BY <2>1, <2>4, <2>5 DEF ProjectInd, ProjectInv, ShownIsSelected, Reading
  <2>7. TextIsOfItsSite'
    BY <2>1, <2>4 DEF ProjectInd, ProjectInv, TextIsOfItsSite
  <2>8. SitesExist' /\ SelectionHasRows'
    BY <2>1, <2>2 DEF ProjectInd, SitesExist, SelectionHasRows
  <2> QED
    BY <2>3, <2>6, <2>7, <2>8 DEF ProjectInd, ProjectInv
<1>12. ASSUME NEW r \in asked, SitesArrive(r)
       PROVE  ProjectInd'
  <2> DEFINE of == {s \in sites : s[1] = r.project}
  <2>1. /\ r.kind = "sites" /\ asked' = asked \ {r}
        /\ UNCHANGED <<projectServer, boards, box, unread, projectActs>>
    BY <1>12 DEF SitesArrive, Ends
  <2>2. \A q \in asked : q.kind # "sites" => q \in asked'
    BY <2>1
  <2>3. Reading("board", selectedProject).kind = "board"
        /\ Reading("sites", selectedProject).project = selectedProject
    BY DEF Reading
  <2>4. of \subseteq sites /\ \A s \in of : s[1] = r.project
    OBVIOUS
  <2>5. r.project \in Project \cup {NoProject}
    BY DEF ProjectInd, AskedTyped
  <2>6. AskedTyped'
    BY <2>1 DEF AskedTyped, ProjectInd
  <2>7. CASE /\ r.project = selectedProject /\ rowsOf' = r.project /\ rows' = of
             /\ IF selectedSite \in of THEN UNCHANGED <<selectedSite, panel>>
                ELSE selectedSite' = NoSite /\ panel' = IF selectedSite = NoSite THEN panel ELSE FALSE
    <3>1. panel' => panel /\ selectedSite' = selectedSite /\ selectedSite # NoSite
      BY <2>7 DEF ProjectInd, ProjectInv, ProjectTypeOK
    <3>2. selectedSite' \in {selectedSite, NoSite}
      BY <2>7
    <3>3. selectedProject \notin projects => of = {}
      BY <2>7 DEF ProjectInd, SitesExist
    <3>4. panel' \in {panel, FALSE}
      BY <2>7
    <3>5. selectedSite' \in of \cup {NoSite}
      BY <2>7
    <3> HIDE DEF of
    <3>6. ProjectTypeOK'
      BY <2>1, <2>4, <2>5, <2>7, <3>1, <3>2 DEF ProjectInd, ProjectInv, ProjectTypeOK
    <3>7. ShownIsSelected'
      BY <2>1, <2>2, <2>3, <2>7 DEF ProjectInd, ProjectInv, ShownIsSelected, Reading
    <3>8. TextIsOfItsSite'
      BY <2>1, <2>2, <3>1 DEF ProjectInd, ProjectInv, TextIsOfItsSite
    <3>9. SitesExist' /\ SelectionHasRows'
      BY <2>1, <2>7, <3>1, <3>2, <3>3, <3>5 DEF ProjectInd, SitesExist, SelectionHasRows
    <3> QED
      BY <2>6, <3>6, <3>7, <3>8, <3>9 DEF ProjectInd, ProjectInv
  <2>8. CASE r.project # selectedProject /\ UNCHANGED <<siteRows, selectedSite, panel>>
    <3>1. Reading("sites", selectedProject) \in asked => Reading("sites", selectedProject) \in asked'
      BY <2>1, <2>3, <2>8
    <3>2. ProjectTypeOK' /\ ShownIsSelected' /\ TextIsOfItsSite'
      BY <2>1, <2>2, <2>3, <2>8, <3>1
         DEF ProjectInd, ProjectInv, ProjectTypeOK, ShownIsSelected, TextIsOfItsSite, Reading
    <3> QED
      BY <2>1, <2>6, <2>8, <3>2 DEF ProjectInd, ProjectInv, SitesExist, SelectionHasRows
  <2>9. CASE rowsOf' = Failed /\ rows' = {} /\ UNCHANGED <<selectedSite, panel>>
    <3>1. ProjectTypeOK' /\ ShownIsSelected' /\ TextIsOfItsSite'
      BY <2>1, <2>2, <2>3, <2>9
         DEF ProjectInd, ProjectInv, ProjectTypeOK, ShownIsSelected, TextIsOfItsSite, Reading
    <3> QED
      BY <2>1, <2>6, <2>9, <3>1 DEF ProjectInd, ProjectInv, SitesExist, SelectionHasRows
  <2> QED
    BY <1>12, <2>7, <2>8, <2>9 DEF SitesArrive
<1>13. ASSUME NEW r \in asked, SiteArrives(r)
       PROVE  ProjectInd'
  <2>1. /\ r.kind = "site" /\ asked' = asked \ {r}
        /\ UNCHANGED <<projectServer, boards, siteRows, selectedSite, projectActs>>
    BY <1>13 DEF SiteArrives, Ends
  <2>2. r.site \in ProjectSite \cup {NoSite}
    BY DEF ProjectInd, AskedTyped
  <2>3. \A q \in asked : q.kind # "site" \/ q.site # r.site => q \in asked'
    BY <2>1
  <2>4. AskedTyped'
    BY <2>1 DEF AskedTyped, ProjectInd
  <2>5. Reading("board", selectedProject).kind = "board" /\ Reading("sites", selectedProject).kind = "sites"
    BY DEF Reading
  <2>6. ShownIsSelected'
    BY <2>1, <2>3, <2>5 DEF ProjectInd, ProjectInv, ShownIsSelected, Reading
  <2>7. \/ unread' = unread \cup {r.site} /\ UNCHANGED <<panel, box>>
        \/ /\ r.site \in sites /\ r.site[1] = r.project /\ unread' = unread \ {r.site}
           /\ IF r.project = selectedProject /\ r.site = selectedSite
              THEN panel' = TRUE /\ box' = r.site ELSE UNCHANGED <<panel, box>>
    <3>1. PICK ok \in IF r.site \in sites /\ r.site[1] = r.project THEN BOOLEAN ELSE {FALSE} :
            /\ unread' = IF ok THEN unread \ {r.site} ELSE unread \cup {r.site}
            /\ IF ok /\ Answers(r) THEN panel' = TRUE /\ box' = r.site ELSE UNCHANGED <<panel, box>>
      BY <1>13 DEF SiteArrives
    <3> QED
      BY <3>1 DEF Answers
  <2>8. CASE unread' = unread \cup {r.site} /\ UNCHANGED <<panel, box>>
    <3>1. ProjectTypeOK'
      BY <2>1, <2>2, <2>8 DEF ProjectInd, ProjectInv, ProjectTypeOK
    <3>2. TextIsOfItsSite'
      BY <2>1, <2>3, <2>8 DEF ProjectInd, ProjectInv, TextIsOfItsSite
    <3> QED
      BY <2>1, <2>4, <2>6, <2>8, <3>1, <3>2 DEF ProjectInd, ProjectInv, SitesExist, SelectionHasRows
  <2>9. CASE /\ r.site \in sites /\ r.site[1] = r.project /\ unread' = unread \ {r.site}
             /\ r.project = selectedProject /\ r.site = selectedSite /\ panel' = TRUE /\ box' = r.site
    <3>1. r.site \in ProjectSite
      BY <2>9 DEF ProjectInd, ProjectInv, ProjectTypeOK
    <3>2. ProjectTypeOK'
      BY <2>1, <2>9, <3>1 DEF ProjectInd, ProjectInv, ProjectTypeOK
    <3>3. TextIsOfItsSite'
      BY <2>1, <2>9 DEF TextIsOfItsSite
    <3> QED
      BY <2>1, <2>4, <2>6, <2>9, <3>1, <3>2, <3>3 DEF ProjectInd, ProjectInv, SitesExist, SelectionHasRows
  <2>10. CASE /\ r.site \in sites /\ r.site[1] = r.project /\ unread' = unread \ {r.site}
              /\ ~(r.project = selectedProject /\ r.site = selectedSite) /\ UNCHANGED <<panel, box>>
    <3>1. ProjectTypeOK'
      BY <2>1, <2>10 DEF ProjectInd, ProjectInv, ProjectTypeOK
    <3>2. panel => r.site # selectedSite
      BY <2>10 DEF ProjectInd, ProjectInv, ProjectTypeOK
    <3>3. TextIsOfItsSite'
      BY <2>1, <2>3, <2>10, <3>2 DEF ProjectInd, ProjectInv, TextIsOfItsSite
    <3> QED
      BY <2>1, <2>4, <2>6, <2>10, <3>1, <3>3 DEF ProjectInd, ProjectInv, SitesExist, SelectionHasRows
  <2> QED
    BY <2>7, <2>8, <2>9, <2>10
<1>14. ASSUME NEW r \in asked, SiteButtonArrives(r)
       PROVE  ProjectInd'
  <2>1. /\ r.kind \in {"save", "publish"}
        /\ UNCHANGED <<projects, sites, boards, siteRows, siteEditor, projectActs>>
    BY <1>14 DEF SiteButtonArrives
  <2>2. PICK ok \in IF r.site[1] = r.project THEN BOOLEAN ELSE {FALSE} :
          /\ html' = IF ok /\ r.kind = "save" THEN [html EXCEPT ![r.site] = r.text] ELSE html
          /\ asked' = (asked \ {r})
               \cup ((IF ok THEN Lists(selectedProject) \ {Reading("board", selectedProject)} ELSE {})
                     \cup (IF ok /\ r.kind = "save" /\ selectedSite # NoSite
                           THEN {OfSite("site", selectedSite, NoSite)} ELSE {}))
    BY <1>14 DEF SiteButtonArrives, Ends
  <2>3. /\ selectedProject \in Project \cup {NoProject} /\ selectedSite \in ProjectSite \cup {NoSite}
        /\ r.kind = "save" => r.site \in ProjectSite /\ r.text \in ProjectSite
    BY DEF ProjectInd, ProjectInv, ProjectTypeOK, AskedTyped
  <2>4. html' \in [ProjectSite -> ProjectSite]
    BY <2>2, <2>3 DEF ProjectInd, ProjectInv, ProjectTypeOK
  <2>5. \A q \in asked' : q \in asked \/ /\ q.kind \in {"sites", "site", "board"} /\ q.project = selectedProject
                                         /\ q.site \in {selectedSite, NoSite}
    BY <2>2, ListsAsk DEF OfSite
  <2>6. \A q \in asked : q.kind \notin {"save", "publish"} => q \in asked'
    BY <2>1, <2>2
  <2>7. Reading("board", selectedProject).kind = "board" /\ Reading("sites", selectedProject).kind = "sites"
    BY DEF Reading
  <2>8. ProjectTypeOK'
    BY <2>1, <2>4 DEF ProjectInd, ProjectInv, ProjectTypeOK
  <2>9. AskedTyped'
    BY <2>3, <2>5 DEF ProjectInd, AskedTyped
  <2>10. ShownIsSelected' /\ TextIsOfItsSite'
    BY <2>1, <2>6, <2>7 DEF ProjectInd, ProjectInv, ShownIsSelected, TextIsOfItsSite, Reading
  <2> QED
    BY <2>1, <2>8, <2>9, <2>10 DEF ProjectInd, ProjectInv, SitesExist, SelectionHasRows
<1>15. CASE UNCHANGED projectVars
  BY <1>15 DEF projectVars, ProjectInd, ProjectInv, ProjectTypeOK, ShownIsSelected, TextIsOfItsSite, AskedTyped,
               SitesExist, SelectionHasRows, Reading
<1> QED
  BY <1>1, <1>2, <1>3, <1>4, <1>5, <1>6, <1>7, <1>8, <1>9, <1>10, <1>11, <1>12, <1>13, <1>14, <1>15
     DEF ProjectNext

LEMMA ProjectStarts == ASSUME ProjectInit PROVE ProjectInd
<1>1. html \in [ProjectSite -> ProjectSite]
  BY DEF ProjectInit
<1> QED
  BY <1>1, SitesHaveProjects, ProjectAssumption
     DEF ProjectInit, ProjectInd, ProjectInv, ProjectTypeOK, ShownIsSelected, TextIsOfItsSite,
         AskedTyped, SitesExist, SelectionHasRows

\* However late lists, boards and sites are answered, what is on screen, and in the editor,
\* is of what is selected or being read for it.
THEOREM PagesShowTheirProject == PagesSpec => []ProjectInv
<1>1. PagesInit => ProjectInd
  BY ProjectStarts DEF PagesInit
<1>2. ProjectInd /\ [PagesNext]_pageVars => ProjectInd'
  <2>1. [PagesNext]_pageVars => [ProjectNext]_projectVars
    BY DEF PagesNext, pageVars, Console, Talk, Projects, Phone, Shop, Purse
  <2> QED
    BY <2>1, ProjectGoesOn
<1>3. ProjectInd => ProjectInv
  BY DEF ProjectInd
<1> QED
  BY <1>1, <1>2, <1>3, PTL DEF PagesSpec


(***************************************************************************)
(* The chat.                                                               *)
(***************************************************************************)

Rows == [role : {"user", "assistant"}, text : {"prompt", "typing", "partial", "answer", "error"},
         prompt : Prompt, session : 1..MaxSessions, turn : 0..MaxTurns]
Messages == [role : {"user", "assistant"}, prompt : Prompt]
Requests == [turn : 1..MaxTurns, stage : {"sent", "taken", "streaming"}, session : 1..MaxSessions,
             prompt : Prompt, aborted : BOOLEAN]

\* Types; a history on its way is of a chat that has been opened.
ChatTyped ==
  /\ thread \in Seq(Rows) /\ request \in Requests \cup {NoRequest}
  /\ log \in [1..MaxSessions -> Seq(Messages)] /\ savedRefs \in [1..MaxSessions -> SUBSET Ref]
  /\ posted \subseteq Ref
  /\ \A l \in loads : /\ l.session \in 1..session /\ l.messages \in Seq(Messages) /\ l.refs \subseteq Ref

\* Only rows of the assistant wait, so an answer that ends takes the waiting from all of them.
AssistantWaits == \A i \in DOMAIN thread : thread[i].text \in {"typing", "partial"} => thread[i].role = "assistant"

ChatInd == ChatInv /\ ChatTyped /\ AssistantWaits

\* Putting a text into the live row keeps the rows, and all else that is in them.
LEMMA PutsText ==
  ASSUME ChatInd, NEW text \in {"partial", "answer", "error"}, thread' = Put(text)
  PROVE  /\ thread' \in Seq(Rows) /\ DOMAIN thread' = DOMAIN thread
         /\ \A i \in DOMAIN thread :
              /\ thread'[i].role = thread[i].role /\ thread'[i].turn = thread[i].turn
              /\ thread'[i].session = thread[i].session
              /\ thread'[i].text = IF thread[i].turn = request.turn /\ thread[i].role = "assistant"
                                  THEN text ELSE thread[i].text
<1>1. thread \in Seq(Rows)
  BY DEF ChatInd, ChatTyped
<1>2. DOMAIN thread = 1..Len(thread) /\ Len(thread) \in Nat /\ \A i \in 1..Len(thread) : thread[i] \in Rows
  BY <1>1
<1>3. \A i \in 1..Len(thread) : thread'[i] = IF thread[i].turn = request.turn /\ thread[i].role = "assistant"
                                            THEN [thread[i] EXCEPT !.text = text] ELSE thread[i]
  BY <1>2 DEF Put
<1>4. \A i \in 1..Len(thread) : thread'[i] \in Rows
  BY <1>2, <1>3 DEF Rows
<1>5. DOMAIN thread' = 1..Len(thread)
  BY <1>2 DEF Put
<1>6. thread' \in [1..Len(thread) -> Rows]
  <2>1. thread' = [i \in 1..Len(thread) |-> thread'[i]]
    BY <1>2, <1>3 DEF Put
  <2> QED
    BY <2>1, <1>4
<1>7. thread' \in Seq(Rows)
  BY <1>2, <1>6, SeqDef
<1> QED
  BY <1>2, <1>3, <1>5, <1>7 DEF Rows

\* The rows a prompt adds.
LEMMA SubmitGoesOn ==
  ASSUME ChatInd, NEW value \in Prompt, SubmitOf(value)
  PROVE  ChatInd'
<1> DEFINE asking == Row("user", "prompt", value, session, turns')
           answering == Row("assistant", "typing", value, session, turns')
<1>1. /\ ~generating /\ turns' = turns + 1 /\ turns < MaxTurns
      /\ thread' = thread \o <<asking, answering>>
      /\ prompt' = NoPrompt /\ lastPrompt' = value /\ controller' = TRUE /\ generating' = TRUE
      /\ request' = [turn |-> turns', stage |-> "sent", session |-> session, prompt |-> value, aborted |-> FALSE]
      /\ UNCHANGED <<chatServer, session, shownOf, history, context>>
  BY DEF SubmitOf, MaySubmit
<1>2. turns' \in 1..MaxTurns /\ turns \in 0..MaxTurns /\ session \in 1..MaxSessions
  BY <1>1, ChatAssumption DEF ChatInd, ChatInv, ChatTypeOK
<1>3. asking \in Rows /\ answering \in Rows
  BY <1>2 DEF Rows, Row
<1>4. thread \in Seq(Rows) /\ request = NoRequest
  BY <1>1 DEF ChatInd, ChatTyped, ChatInv, ChatTypeOK
<1>5. /\ asking.text = "prompt" /\ asking.session = session /\ asking.role = "user"
      /\ answering.text = "typing" /\ answering.session = session /\ answering.turn = turns'
      /\ answering.role = "assistant"
  BY DEF Row
<1> HIDE DEF asking, answering
<1>6. /\ thread' \in Seq(Rows)
      /\ \A i \in DOMAIN thread' :
           \/ i \in DOMAIN thread /\ thread'[i] = thread[i]
           \/ thread'[i] \in {asking, answering}
  <2>1. <<asking, answering>> \in Seq(Rows)
    BY <1>3
  <2>2. thread' \in Seq(Rows) /\ Len(thread') = Len(thread) + 2
    BY <1>1, <1>4, <2>1
  <2>3. ASSUME NEW i \in 1..Len(thread')
        PROVE  \/ i \in DOMAIN thread /\ thread'[i] = thread[i]
               \/ thread'[i] \in {asking, answering}
    <3>1. CASE i <= Len(thread)
      BY <1>1, <1>4, <2>1, <2>2, <3>1
    <3>2. CASE i = Len(thread) + 1
      BY <1>1, <1>4, <2>1, <2>2, <3>2
    <3>3. CASE i = Len(thread) + 2
      BY <1>1, <1>4, <2>1, <2>2, <3>3
    <3> QED
      BY <1>4, <2>2, <3>1, <3>2, <3>3
  <2> QED
    BY <2>2, <2>3
<1>7. request' \in Requests /\ request' # NoRequest /\ request'.turn = turns'
  BY <1>1, <1>2 DEF Requests, NoRequest
<1>8. ChatTypeOK'
  <2>1. {prompt', lastPrompt'} \subseteq Prompt \cup {NoPrompt}
    BY <1>1
  <2>2. \A i \in DOMAIN thread' : thread'[i].role \in {"user", "assistant"}
    BY <1>5, <1>6 DEF ChatInd, ChatInv, ChatTypeOK
  <2>3. turns' \in 0..MaxTurns /\ session' = session /\ shownOf' = shownOf
    BY <1>1, <1>2
  <2>4. UNCHANGED <<refs, draft, open, saving, loaded>>
    BY <1>1 DEF history, context
  <2> QED
    BY <1>1, <1>7, <2>1, <2>2, <2>3, <2>4 DEF ChatInd, ChatInv, ChatTypeOK
<1>9. NothingLeftWaiting'
  BY <1>4, <1>5, <1>6, <1>7 DEF ChatInd, ChatInv, NothingLeftWaiting
<1>10. OneConversation'
  BY <1>1, <1>5, <1>6 DEF ChatInd, ChatInv, OneConversation
<1>11. ChatTyped' /\ AssistantWaits'
  BY <1>1, <1>5, <1>6, <1>7 DEF ChatInd, ChatTyped, AssistantWaits, chatServer, history, context
<1> QED
  BY <1>8, <1>9, <1>10, <1>11 DEF ChatInd, ChatInv

\* An answer that goes on, or ends, with a text put into its row.
LEMMA AnswerGoesOn ==
  ASSUME ChatInd, NEW text \in {"partial", "answer", "error"}, thread' = Put(text), request # NoRequest,
         \/ /\ text = "partial" /\ request' \in Requests /\ request'.turn = request.turn
            /\ UNCHANGED <<generating, controller, turns>>
         \/ text # "partial" /\ Finally,
         log' \in [1..MaxSessions -> Seq(Messages)],
         UNCHANGED <<savedRefs, session, shownOf, composer, history, context>>
  PROVE  ChatInd'
<1>1. /\ thread' \in Seq(Rows) /\ DOMAIN thread' = DOMAIN thread
      /\ \A i \in DOMAIN thread :
           /\ thread'[i].role = thread[i].role /\ thread'[i].turn = thread[i].turn
           /\ thread'[i].session = thread[i].session
           /\ thread'[i].text = IF thread[i].turn = request.turn /\ thread[i].role = "assistant"
                               THEN text ELSE thread[i].text
  BY PutsText
<1>2. generating /\ controller /\ request.turn = turns
  BY DEF ChatInd, ChatInv, ChatTypeOK
<1>3. \/ /\ text = "partial" /\ request' \in Requests /\ request'.turn = turns /\ request' # NoRequest
         /\ generating' = generating /\ controller' = controller /\ turns' = turns
      \/ text # "partial" /\ request' = NoRequest /\ generating' = FALSE /\ controller' = FALSE /\ turns' = turns
  <2>1. \A q \in Requests : q # NoRequest
    BY DEF Requests, NoRequest
  <2> QED
    BY <1>2, <2>1 DEF Finally
<1>4. ChatTypeOK'
  BY <1>1, <1>2, <1>3 DEF ChatInd, ChatInv, ChatTypeOK, composer, history, context
<1>5. NothingLeftWaiting'
  BY <1>1, <1>2, <1>3 DEF ChatInd, ChatInv, NothingLeftWaiting, AssistantWaits
<1>6. OneConversation'
  BY <1>1 DEF ChatInd, ChatInv, OneConversation
<1>7. AssistantWaits'
  BY <1>1 DEF ChatInd, AssistantWaits
<1>8. ChatTyped'
  BY <1>1, <1>3 DEF ChatInd, ChatTyped, history, context
<1> QED
  BY <1>4, <1>5, <1>6, <1>7, <1>8 DEF ChatInd, ChatInv

\* What is said is appended to the messages of the session.
LEMMA LogGrows ==
  ASSUME ChatInd, request # NoRequest, NEW role \in {"user", "assistant"}
  PROVE  [log EXCEPT ![request.session] = Append(@, Said(role))] \in [1..MaxSessions -> Seq(Messages)]
<1>1. request \in Requests
  BY DEF ChatInd, ChatTyped
<1>2. Said(role) \in Messages /\ request.session \in 1..MaxSessions
  BY <1>1 DEF Said, Messages, Requests
<1> QED
  BY <1>2 DEF ChatInd, ChatTyped

LEMMA LogAfterFailure ==
  ASSUME ChatInd, request # NoRequest, log' \in LogsAfterFailure
  PROVE  log' \in [1..MaxSessions -> Seq(Messages)]
<1>1. request \in Requests
  BY DEF ChatInd, ChatTyped
<1>2. Said("user") \in Messages /\ Said("assistant") \in Messages /\ request.session \in 1..MaxSessions
  BY <1>1 DEF Said, Messages, Requests
<1> DEFINE said == IF request.stage = "sent" THEN <<Said("user")>> ELSE <<>>
           answered == Append(said, Said("assistant"))
<1>3. said \in Seq(Messages)
  BY <1>2
<1>4. answered \in Seq(Messages)
  BY <1>2, <1>3
<1>5. PICK more \in {<<>>, said, answered} : log' = [log EXCEPT ![request.session] = @ \o more]
  BY DEF LogsAfterFailure
<1> HIDE DEF said, answered
<1>6. more \in Seq(Messages)
  <2>1. <<>> \in Seq(Messages)
    OBVIOUS
  <2> QED
    BY <1>3, <1>4, <1>5, <2>1
<1>7. log[request.session] \o more \in Seq(Messages)
  BY <1>2, <1>6 DEF ChatInd, ChatTyped
<1> QED
  BY <1>2, <1>5, <1>7 DEF ChatInd, ChatTyped

\* The rows of a history are of the session that was asked for, and nobody waits for them.
LEMMA HistoryGoesOn ==
  ASSUME ChatInd, NEW l \in loads, HistoryArrives(l)
  PROVE  ChatInd'
<1> DEFINE Drawn(i) == Row(l.messages[i].role, IF l.messages[i].role = "user" THEN "prompt" ELSE "answer",
                           l.messages[i].prompt, l.session, 0)
<1>1. /\ loads' = loads \ {l} /\ shownOf' = l.session /\ refs' = l.refs
      /\ thread' = [i \in DOMAIN l.messages |-> Drawn(i)]
      /\ UNCHANGED <<chatServer, session, prompt, turn, loaded>>
  BY DEF HistoryArrives
<1>2. lastPrompt' = lastPrompt \/ \E i \in DOMAIN l.messages : lastPrompt' = l.messages[i].prompt
  BY DEF HistoryArrives
<1>3. draft' = draft /\ posted' = posted /\ saving' \in {saving, "no"} /\ open' \in {open, FALSE}
  BY DEF HistoryArrives, Closed, context
<1>4. /\ l.session \in 1..session /\ l.messages \in Seq(Messages) /\ l.refs \subseteq Ref
      /\ session \in 1..MaxSessions
  BY DEF ChatInd, ChatTyped, ChatInv, ChatTypeOK
<1>5. /\ DOMAIN l.messages = 1..Len(l.messages) /\ Len(l.messages) \in Nat
      /\ \A i \in 1..Len(l.messages) : l.messages[i] \in Messages
  BY <1>4
<1>6. ASSUME NEW i \in 1..Len(l.messages)
      PROVE  /\ Drawn(i) \in Rows /\ Drawn(i).session = l.session
             /\ Drawn(i).text \in {"prompt", "answer"}
  <2>1. l.session \in 1..MaxSessions /\ 0 \in 0..MaxTurns
    BY <1>4, ChatAssumption
  <2> QED
    BY <2>1, <1>5 DEF Row, Rows, Messages
<1> HIDE DEF Drawn
<1>7. thread' \in [1..Len(l.messages) -> Rows]
  BY <1>1, <1>5, <1>6
<1>8. thread' \in Seq(Rows)
  BY <1>5, <1>7, SeqDef
<1>9. \A i \in DOMAIN thread' : thread'[i].session = l.session /\ thread'[i].text \in {"prompt", "answer"}
                               /\ thread'[i].role \in {"user", "assistant"}
  BY <1>1, <1>5, <1>6 DEF Rows
<1>10. ChatTypeOK'
  <2>1. {prompt', lastPrompt'} \subseteq Prompt \cup {NoPrompt}
    BY <1>1, <1>2, <1>5 DEF ChatInd, ChatInv, ChatTypeOK, Messages
  <2>2. UNCHANGED <<session, generating, controller, request, turns, loaded>>
    BY <1>1 DEF turn
  <2> QED
    BY <1>1, <1>3, <1>4, <1>9, <2>1, <2>2 DEF ChatInd, ChatInv, ChatTypeOK
<1>11. NothingLeftWaiting' /\ OneConversation' /\ AssistantWaits'
  BY <1>1, <1>9 DEF NothingLeftWaiting, OneConversation, AssistantWaits
<1>12. ChatTyped'
  BY <1>1, <1>3, <1>8 DEF ChatInd, ChatTyped, turn, chatServer
<1> QED
  BY <1>10, <1>11, <1>12 DEF ChatInd, ChatInv

\* A snapshot of the session's messages and references.
LEMMA SnapshotTyped ==
  ASSUME ChatInd, NEW closing
  PROVE  /\ Snapshot(closing).session \in 1..session /\ Snapshot(closing).messages \in Seq(Messages)
         /\ Snapshot(closing).refs \subseteq Ref
BY ChatAssumption DEF ChatInd, ChatTyped, ChatInv, ChatTypeOK, Snapshot

LEMMA ChatGoesOn == ASSUME ChatInd, [ChatNext]_chatVars PROVE ChatInd'
<1> USE ChatAssumption
<1> USE DEF chatServer, screen, composer, turn, history, context
<1>1. ASSUME NEW p \in Prompt, FillPrompt(p)
      PROVE  ChatInd'
  BY <1>1 DEF FillPrompt, ChatInd, ChatInv, ChatTypeOK, NothingLeftWaiting, OneConversation, ChatTyped, AssistantWaits
<1>2. ASSUME NEW i \in DOMAIN thread, AskAgain(i)
      PROVE  ChatInd'
  <2>1. thread \in Seq(Rows) /\ thread[i] \in Rows
    BY DEF ChatInd, ChatTyped
  <2>2. PICK value \in Prompt : IF generating THEN FillPrompt(value) ELSE SubmitOf(value)
    BY <1>2, <2>1 DEF AskAgain, Rows, ChatInd, ChatInv, ChatTypeOK
  <2> QED
    BY <1>1, <2>2, SubmitGoesOn
<1>3. ASSUME NEW r \in Ref, ChooseRef(r)
      PROVE  ChatInd'
  BY <1>3 DEF ChooseRef, ChatInd, ChatInv, ChatTypeOK, NothingLeftWaiting, OneConversation, ChatTyped, AssistantWaits
<1>4. ASSUME NEW l \in loads, HistoryArrives(l)
      PROVE  ChatInd'
  BY <1>4, HistoryGoesOn
<1>5. ASSUME NEW l \in loads, HistoryFails(l)
      PROVE  ChatInd'
  BY <1>5 DEF HistoryFails, Closed, ChatInd, ChatInv, ChatTypeOK, NothingLeftWaiting, OneConversation, ChatTyped,
              AssistantWaits
<1>6. CASE Submit
  <2>1. prompt \in Prompt
    BY <1>6 DEF Submit, SubmitOf, MaySubmit, ChatInd, ChatInv, ChatTypeOK
  <2> QED
    BY <1>6, <2>1, SubmitGoesOn DEF Submit
<1>7. CASE ServerTakes
  <2>1. request # NoRequest /\ request \in Requests
    BY <1>7 DEF ServerTakes, AtStage, NoRequest, ChatInd, ChatTyped
  <2>2. request' \in Requests /\ request'.turn = request.turn /\ request' # NoRequest
    BY <1>7, <2>1 DEF ServerTakes, Requests, NoRequest
  <2>3. log' \in [1..MaxSessions -> Seq(Messages)]
    BY <1>7, <2>1, LogGrows DEF ServerTakes
  <2> QED
    BY <1>7, <2>1, <2>2, <2>3
       DEF ServerTakes, ChatInd, ChatInv, ChatTypeOK, NothingLeftWaiting, OneConversation, ChatTyped, AssistantWaits
<1>8. CASE Delta
  <2>1. request # NoRequest /\ request \in Requests
    BY <1>8 DEF Delta, AtStage, NoRequest, ChatInd, ChatTyped
  <2>2. request' \in Requests /\ request'.turn = request.turn
    BY <1>8, <2>1 DEF Delta, Requests
  <2>3. log' \in [1..MaxSessions -> Seq(Messages)]
    BY <1>8 DEF Delta, ChatInd, ChatTyped
  <2> QED
    BY <1>8, <2>1, <2>2, <2>3, AnswerGoesOn DEF Delta
<1>9. CASE Done
  <2>1. request # NoRequest
    BY <1>9 DEF Done, AtStage, NoRequest
  <2>2. log' \in [1..MaxSessions -> Seq(Messages)]
    BY <1>9, <2>1, LogGrows DEF Done
  <2> QED
    BY <1>9, <2>1, <2>2, AnswerGoesOn DEF Done
<1>10. CASE AnswerFails
  <2>1. log' \in [1..MaxSessions -> Seq(Messages)]
    BY <1>10, LogAfterFailure DEF AnswerFails
  <2> QED
    BY <1>10, <2>1, AnswerGoesOn DEF AnswerFails
<1>11. ASSUME request # NoRequest, request' = [request EXCEPT !.aborted = TRUE]
       PROVE  request' \in Requests /\ request' # NoRequest /\ request'.turn = request.turn
  BY <1>11 DEF ChatInd, ChatTyped, Requests, NoRequest
<1>12. CASE Stop
  <2>1. request # NoRequest
    BY <1>12 DEF Stop, ChatInd, ChatInv, ChatTypeOK
  <2>2. request' \in Requests /\ request' # NoRequest /\ request'.turn = request.turn
    BY <1>11, <1>12, <2>1 DEF Stop
  <2> QED
    BY <1>12, <2>1, <2>2
       DEF Stop, ChatInd, ChatInv, ChatTypeOK, NothingLeftWaiting, OneConversation, ChatTyped, AssistantWaits
<1>13. CASE NewChat
  <2>1. IF controller THEN request # NoRequest /\ request' = [request EXCEPT !.aborted = TRUE]
        ELSE request = NoRequest /\ request' = NoRequest
    BY <1>13 DEF NewChat, ChatInd, ChatInv, ChatTypeOK
  <2>2. request' \in Requests \cup {NoRequest} /\ request'.turn = request.turn
        /\ (request' # NoRequest) = (request # NoRequest)
    BY <1>11, <2>1
  <2>3. thread' = <<>> /\ session' \in 1..MaxSessions /\ session < session' /\ shownOf' = session'
    BY <1>13 DEF NewChat, ChatInd, ChatInv, ChatTypeOK
  <2>4. ChatTypeOK'
    BY <1>13, <2>2, <2>3 DEF NewChat, ChatInd, ChatInv, ChatTypeOK
  <2>5. ChatTyped'
    BY <1>13, <2>2, <2>3 DEF NewChat, ChatInd, ChatInv, ChatTypeOK, ChatTyped
  <2> QED
    BY <2>3, <2>4, <2>5 DEF ChatInd, ChatInv, NothingLeftWaiting, OneConversation, AssistantWaits
<1>14. CASE LoadSession \/ SaveArrives
  <2>1. PICK closing \in BOOLEAN : loads' = loads \cup {Snapshot(closing)}
    BY <1>14 DEF LoadSession, SaveArrives
  <2>2. \A l \in loads' : l.session \in 1..session /\ l.messages \in Seq(Messages) /\ l.refs \subseteq Ref
    BY <2>1, SnapshotTyped DEF ChatInd, ChatTyped
  <2>3. ChatTypeOK'
    <3>1. CASE LoadSession
      BY <3>1 DEF LoadSession, ChatInd, ChatInv, ChatTypeOK
    <3>2. CASE SaveArrives
      BY <3>2 DEF SaveArrives, ChatInd, ChatInv, ChatTypeOK, ChatTyped
    <3> QED
      BY <1>14, <3>1, <3>2
  <2>4. UNCHANGED <<log, savedRefs, session, thread, shownOf, request, posted>>
    BY <1>14 DEF LoadSession, SaveArrives
  <2> QED
    BY <2>2, <2>3, <2>4 DEF ChatInd, ChatInv, NothingLeftWaiting, OneConversation, ChatTyped, AssistantWaits
<1>15. CASE OpenContext \/ CloseContext \/ SaveFails
  <2>1. ChatTypeOK'
    <3>1. UNCHANGED <<chatServer, screen, composer, turn, history>> /\ draft' \in {draft, refs}
          /\ open' \in BOOLEAN /\ saving' \in {saving, "no"}
      BY <1>15 DEF OpenContext, CloseContext, SaveFails, ChatInd, ChatInv, ChatTypeOK
    <3> QED
      BY <3>1 DEF ChatInd, ChatInv, ChatTypeOK
  <2>2. UNCHANGED <<log, savedRefs, session, thread, shownOf, request, loads, posted>>
    BY <1>15 DEF OpenContext, CloseContext, SaveFails
  <2> QED
    BY <2>1, <2>2 DEF ChatInd, ChatInv, NothingLeftWaiting, OneConversation, ChatTyped, AssistantWaits
<1>16. CASE SaveContext
  <2>1. savedRefs' \in [1..MaxSessions -> SUBSET Ref] /\ loaded' \in 0..MaxLoads
    BY <1>16 DEF SaveContext, ChatInd, ChatInv, ChatTypeOK, ChatTyped
  <2> QED
    BY <1>16, <2>1
       DEF SaveContext, ChatInd, ChatInv, ChatTypeOK, NothingLeftWaiting, OneConversation, ChatTyped, AssistantWaits
<1>17. CASE UNCHANGED chatVars
  BY <1>17 DEF chatVars, ChatInd, ChatInv, ChatTypeOK, NothingLeftWaiting, OneConversation, ChatTyped, AssistantWaits
<1> QED
  BY <1>1, <1>2, <1>3, <1>4, <1>5, <1>6, <1>7, <1>8, <1>9, <1>10, <1>12, <1>13, <1>14, <1>15, <1>16, <1>17
     DEF ChatNext

LEMMA ChatStarts == ASSUME ChatInit PROVE ChatInd
<1>1. thread \in Seq(Rows) /\ log \in [1..MaxSessions -> Seq(Messages)]
  BY DEF ChatInit
<1>2. ChatTypeOK
  <2>1. session \in 1..MaxSessions /\ shownOf \in 1..session /\ turns \in 0..MaxTurns /\ loaded \in 0..MaxLoads
    BY ChatAssumption DEF ChatInit
  <2>2. \A i \in DOMAIN thread : thread[i].role \in {"user", "assistant"}
    BY DEF ChatInit
  <2>3. {prompt, lastPrompt} \subseteq Prompt \cup {NoPrompt} /\ refs \subseteq Ref /\ draft \subseteq Ref
    BY DEF ChatInit
  <2> QED
    BY <2>1, <2>2, <2>3 DEF ChatInit, ChatTypeOK
<1> QED
  BY <1>1, <1>2 DEF ChatInit, ChatInd, ChatInv, NothingLeftWaiting, OneConversation, ChatTyped, AssistantWaits

\* However an answer ends and whatever chat is open by then, no row is left waiting, and
\* the thread is of one conversation.
THEOREM ChatsAnswer == PagesSpec => []ChatInv
<1>1. PagesInit => ChatInd
  BY ChatStarts DEF PagesInit
<1>2. ChatInd /\ [PagesNext]_pageVars => ChatInd'
  <2>1. [PagesNext]_pageVars => [ChatNext]_chatVars
    BY DEF PagesNext, pageVars, Console, Talk, Projects, Phone, Shop, Purse
  <2> QED
    BY <2>1, ChatGoesOn
<1>3. ChatInd => ChatInv
  BY DEF ChatInd
<1> QED
  BY <1>1, <1>2, <1>3, PTL DEF PagesSpec

(***************************************************************************)
(* The mobile app.                                                         *)
(***************************************************************************)

Effect == {"none", "search", "pairing-save", "terminal-request"}

Guest == [pane : Pane, opened : BOOLEAN, phase : {"loading", "ready", "error"}, roles : BOOLEAN,
          query : Query, applied : Query, shown : Query \cup {NoActors},
          base : Base, token : Token, baseDraft : Base, tokenDraft : Token,
          busy : BOOLEAN, sent : Nat, command : Nat, effect : Effect, effectId : Nat]

\* Types; every search that was sent, or is about to be, has an effect of its own.
MobileTyped ==
  /\ app \in Guest /\ queued \in Effect /\ tried \in Nat /\ requestSequence \in Nat
  /\ \A r \in searches : r.number \in Nat /\ r.id \in Nat /\ r.of \in Query
  /\ requestSequence + (IF queued = "search" THEN 1 ELSE 0) <= lastEffectId

\* A search of the latest effect is the search in force: whatever changes what is in
\* force asks for an effect of its own.
SearchInForce == \A r \in searches : r.id = app.effectId => r.of = app.applied

\* A command is under way, or about to be sent, only while the terminal is busy.
OneCommand ==
  /\ \A a, b \in commands : a = b
  /\ queued = "terminal-request" => commands = {}
  /\ ~app.busy => commands = {} /\ queued # "terminal-request"

MobileInd == MobileInv /\ MobileTyped /\ SearchInForce /\ OneCommand

\* At most one command, said of the set and of its size.
LEMMA CommandCount ==
  ASSUME NEW S, \A a, b \in S : a = b
  PROVE  Cardinality(S) <= 1
<1>1. CASE S = {}
  BY <1>1, FS_EmptySet
<1>2. CASE S # {}
  <2>1. PICK a \in S : TRUE
    BY <1>2
  <2>2. S = {a}
    BY <2>1
  <2> QED
    BY <2>2, FS_Singleton
<1> QED
  BY <1>1, <1>2

\* What the guest's steps return, field by field.
LEMMA Issued ==
  ASSUME NEW s \in Guest, NEW name \in Effect
  PROVE  /\ IssueEffect(s, name) \in Guest /\ IssueEffect(s, name).effect = name
         /\ IssueEffect(s, name).effectId = s.effectId + 1
         /\ IssueEffect(s, name).base = s.base /\ IssueEffect(s, name).token = s.token
         /\ IssueEffect(s, name).shown = s.shown /\ IssueEffect(s, name).opened = s.opened
         /\ IssueEffect(s, name).phase = s.phase /\ IssueEffect(s, name).applied = s.applied
         /\ IssueEffect(s, name).busy = s.busy /\ IssueEffect(s, name).sent = s.sent
<1>1. s.effectId + 1 \in Nat
  BY DEF Guest
<1> DEFINE labelled == [s EXCEPT !.effect = name]
<1>2. /\ labelled \in Guest /\ labelled.effect = name /\ labelled.effectId = s.effectId
      /\ labelled.base = s.base /\ labelled.token = s.token /\ labelled.shown = s.shown
      /\ labelled.opened = s.opened /\ labelled.phase = s.phase /\ labelled.applied = s.applied
      /\ labelled.busy = s.busy /\ labelled.sent = s.sent
  BY DEF Guest
<1>3. IssueEffect(s, name) = [labelled EXCEPT !.effectId = s.effectId + 1]
  BY DEF IssueEffect, Guest
<1> HIDE DEF labelled
<1> QED
  BY <1>1, <1>2, <1>3 DEF Guest

LEMMA Searching ==
  ASSUME NEW s \in Guest
  PROVE  /\ StartSearch(s) \in Guest /\ StartSearch(s).effect = "search"
         /\ StartSearch(s).effectId = s.effectId + 1
         /\ StartSearch(s).base = s.base /\ StartSearch(s).token = s.token
         /\ StartSearch(s).shown = s.shown /\ ~StartSearch(s).opened /\ StartSearch(s).phase = "loading"
         /\ StartSearch(s).busy = s.busy /\ StartSearch(s).sent = s.sent
<1> DEFINE waiting == [s EXCEPT !.phase = "loading"]
           closed == [waiting EXCEPT !.opened = FALSE]
           asking == [closed EXCEPT !.applied = s.query]
<1>1. /\ waiting \in Guest /\ waiting.effectId = s.effectId
      /\ waiting.base = s.base /\ waiting.token = s.token /\ waiting.shown = s.shown
      /\ waiting.phase = "loading" /\ waiting.busy = s.busy /\ waiting.sent = s.sent
      /\ waiting.query = s.query
  BY DEF Guest
<1>2. asking = [s EXCEPT !.phase = "loading", !.opened = FALSE, !.applied = s.query]
  BY DEF Guest
<1> HIDE DEF waiting
<1>3. /\ closed \in Guest /\ closed.effectId = s.effectId
      /\ closed.base = s.base /\ closed.token = s.token /\ closed.shown = s.shown /\ ~closed.opened
      /\ closed.phase = "loading" /\ closed.busy = s.busy /\ closed.sent = s.sent
      /\ closed.query = s.query
  BY <1>1 DEF Guest
<1> HIDE DEF closed
<1>4. /\ asking \in Guest /\ asking.effectId = s.effectId
      /\ asking.base = s.base /\ asking.token = s.token /\ asking.shown = s.shown /\ ~asking.opened
      /\ asking.phase = "loading" /\ asking.busy = s.busy /\ asking.sent = s.sent
  BY <1>3 DEF Guest
<1> HIDE DEF asking
<1>5. StartSearch(s) = IssueEffect(asking, "search") /\ "search" \in Effect
  BY <1>2 DEF StartSearch, Effect
<1> QED
  BY <1>4, <1>5, Issued

LEMMA Requesting ==
  ASSUME NEW s \in Guest
  PROVE  /\ RequestState(s) \in Guest /\ RequestState(s).effect = "terminal-request"
         /\ RequestState(s).effectId = s.effectId + 1
         /\ RequestState(s).base = s.base /\ RequestState(s).token = s.token
         /\ RequestState(s).shown = s.shown /\ RequestState(s).opened = s.opened
         /\ RequestState(s).phase = s.phase /\ RequestState(s).applied = s.applied
         /\ RequestState(s).busy = TRUE /\ RequestState(s).sent = s.sent + 1
<1> DEFINE occupied == [s EXCEPT !.busy = TRUE]
           counted == [occupied EXCEPT !.sent = s.sent + 1]
           labelled == [counted EXCEPT !.command = s.effectId + 1]
<1>1. /\ occupied \in Guest /\ occupied.effectId = s.effectId
      /\ occupied.base = s.base /\ occupied.token = s.token /\ occupied.shown = s.shown
      /\ occupied.opened = s.opened /\ occupied.phase = s.phase /\ occupied.applied = s.applied
      /\ occupied.busy = TRUE /\ occupied.sent = s.sent
  BY DEF Guest
<1>2. labelled = [s EXCEPT !.busy = TRUE, !.sent = @ + 1, !.command = s.effectId + 1]
  BY DEF Guest
<1>3. s.sent + 1 \in Nat /\ s.effectId + 1 \in Nat
  BY DEF Guest
<1> HIDE DEF occupied
<1>4. /\ counted \in Guest /\ counted.effectId = s.effectId
      /\ counted.base = s.base /\ counted.token = s.token /\ counted.shown = s.shown
      /\ counted.opened = s.opened /\ counted.phase = s.phase /\ counted.applied = s.applied
      /\ counted.busy = TRUE /\ counted.sent = s.sent + 1
  BY <1>1, <1>3 DEF Guest
<1> HIDE DEF counted
<1>5. /\ labelled \in Guest /\ labelled.effectId = s.effectId
      /\ labelled.base = s.base /\ labelled.token = s.token /\ labelled.shown = s.shown
      /\ labelled.opened = s.opened /\ labelled.phase = s.phase /\ labelled.applied = s.applied
      /\ labelled.busy = TRUE /\ labelled.sent = s.sent + 1
  BY <1>3, <1>4 DEF Guest
<1> HIDE DEF labelled
<1>6. RequestState(s) = IssueEffect(labelled, "terminal-request") /\ "terminal-request" \in Effect
  BY <1>2 DEF RequestState, Effect
<1> QED
  BY <1>5, <1>6, Issued

\* A drawn answer shows its search, as read or as an error.
LEMMA Drawn ==
  ASSUME NEW s \in Guest, NEW q \in Query,
         NEW next \in {FleetCount(FleetStart(s, q)), FleetError(FleetStart(s, q))}
  PROVE  /\ next \in Guest /\ next.effectId = s.effectId /\ next.applied = s.applied
         /\ next.base = s.base /\ next.token = s.token /\ next.busy = s.busy /\ next.sent = s.sent
         /\ ~next.opened /\ next.shown = q
<1> DEFINE showing == [s EXCEPT !.shown = q]
           started == [showing EXCEPT !.opened = FALSE]
<1>1. /\ showing \in Guest /\ showing.effectId = s.effectId /\ showing.applied = s.applied
      /\ showing.base = s.base /\ showing.token = s.token /\ showing.busy = s.busy
      /\ showing.sent = s.sent /\ showing.shown = q
  BY DEF Guest
<1>2. started = FleetStart(s, q)
  BY DEF FleetStart, Guest
<1> HIDE DEF showing
<1>3. /\ started \in Guest /\ started.effectId = s.effectId /\ started.applied = s.applied
      /\ started.base = s.base /\ started.token = s.token /\ started.busy = s.busy
      /\ started.sent = s.sent /\ started.shown = q /\ ~started.opened
  BY <1>1 DEF Guest
<1> HIDE DEF started
<1>4. PICK phase \in {"ready", "error"} : next = [started EXCEPT !.phase = phase, !.effect = "none"]
  BY <1>2 DEF FleetCount, FleetError
<1> DEFINE ended == [started EXCEPT !.phase = phase]
<1>5. /\ ended \in Guest /\ ended.effectId = s.effectId /\ ended.applied = s.applied
      /\ ended.base = s.base /\ ended.token = s.token /\ ended.busy = s.busy
      /\ ended.sent = s.sent /\ ended.shown = q /\ ~ended.opened
  BY <1>3 DEF Guest
<1>6. next = [ended EXCEPT !.effect = "none"]
  BY <1>3, <1>4 DEF Guest
<1> HIDE DEF ended
<1>7. "none" \in Effect
  BY DEF Effect
<1> QED
  BY <1>5, <1>6, <1>7 DEF Guest

\* What the screen and its host have in common with the properties.
ScreenKept ==
  /\ app'.phase = app.phase /\ app'.shown = app.shown /\ app'.applied = app.applied
  /\ app'.base = app.base /\ app'.token = app.token
  /\ app'.busy = app.busy /\ app'.sent = app.sent /\ app'.effectId = app.effectId

\* An event that asks for no effect is not taken for one.
LEMMA NothingAsked ==
  ASSUME MobileInd, NEW next \in Guest, next.effectId = app.effectId, Dispatch(next)
  PROVE  app' = next /\ queued' = queued /\ lastEffectId' = lastEffectId
BY DEF MobileInd, MobileInv, MobileTypeOK, Guest, Dispatch, ObserveEffect

\* An event that asks for one has it started, once.
LEMMA EffectAsked ==
  ASSUME MobileInd, NEW next \in Guest, next.effectId = app.effectId + 1, next.effect # "none", Dispatch(next)
  PROVE  app' = next /\ queued' = next.effect /\ lastEffectId' = app.effectId + 1
BY DEF MobileInd, MobileInv, MobileTypeOK, MobileTyped, Guest, Dispatch, ObserveEffect

\* An event that leaves alone what the properties are about.
LEMMA ScreenGoesOn ==
  ASSUME MobileInd, app' \in Guest, ScreenKept, app'.opened => app.opened \/ app.phase = "ready",
         UNCHANGED <<queued, lastEffectId, stored, requestSequence, searches, commands, tried, starts>>
  PROVE  MobileInd'
<1>1. app.phase = "ready" => app.shown # NoActors
  BY NoActorsAssumption DEF MobileInd, MobileInv, MobileTypeOK, FleetIsOfItsSearch
<1>2. MobileTypeOK'
  BY <1>1 DEF ScreenKept, MobileInd, MobileInv, MobileTypeOK, Guest, Effect
<1>3. SentOnce' /\ FleetIsOfItsSearch' /\ PairingIsStored'
  BY DEF ScreenKept, MobileInd, MobileInv, SentOnce, FleetIsOfItsSearch, PairingIsStored
<1>4. MobileTyped' /\ SearchInForce' /\ OneCommand'
  BY DEF ScreenKept, MobileInd, MobileTyped, SearchInForce, OneCommand
<1> QED
  BY <1>2, <1>3, <1>4 DEF MobileInd, MobileInv

\* An event that asks for an effect: a search, which leaves nothing shown as read, a
\* pairing to be stored, or a command of an idle terminal.
LEMMA EffectGoesOn ==
  ASSUME MobileInd, app' \in Guest, queued = "none", Room,
         app'.effectId = app.effectId + 1, app'.effect = queued', lastEffectId' = app.effectId + 1,
         app'.base = app.base, app'.token = app.token, app'.shown = app.shown,
         app'.opened => app.opened,
         \/ /\ queued' = "search" /\ app'.phase = "loading"
            /\ app'.busy = app.busy /\ app'.sent = app.sent
         \/ /\ queued' = "pairing-save" /\ app'.phase = app.phase /\ app'.applied = app.applied
            /\ app'.busy = app.busy /\ app'.sent = app.sent
         \/ /\ queued' = "terminal-request" /\ app'.phase = app.phase /\ app'.applied = app.applied
            /\ ~app.busy /\ app'.busy = TRUE /\ app'.sent = app.sent + 1,
         UNCHANGED <<stored, requestSequence, searches, commands, tried, starts>>
  PROVE  MobileInd'
<1>1. app.effectId \in 1..MaxEffects /\ app.effectId < MaxEffects /\ lastEffectId = app.effectId
  BY DEF Room, MobileInd, MobileInv, MobileTypeOK
<1>2. MobileTypeOK'
  <2>1. app'.effectId \in 1..MaxEffects
    BY <1>1, MobileAssumption
  <2>2. requestSequence' <= lastEffectId' /\ lastEffectId' = app'.effectId
    BY <1>1 DEF MobileInd, MobileInv, MobileTypeOK, MobileTyped
  <2>3. \A r \in searches' : r.number \in 1..requestSequence' /\ r.id \in 1..lastEffectId'
    BY <1>1 DEF MobileInd, MobileInv, MobileTypeOK
  <2> QED
    BY <2>1, <2>2, <2>3 DEF MobileInd, MobileInv, MobileTypeOK, Guest, Effect
<1>3. SentOnce'
  BY DEF MobileInd, MobileInv, SentOnce, MobileTyped, Guest
<1>4. FleetIsOfItsSearch' /\ PairingIsStored'
  BY DEF MobileInd, MobileInv, FleetIsOfItsSearch, PairingIsStored
<1>5. MobileTyped'
  <2>1. requestSequence' + (IF queued' = "search" THEN 1 ELSE 0) <= lastEffectId'
    BY <1>1 DEF MobileInd, MobileTyped
  <2> QED
    BY <2>1 DEF MobileInd, MobileTyped, Effect
<1>6. SearchInForce'
  BY <1>1 DEF MobileInd, MobileInv, MobileTypeOK, SearchInForce
<1>7. OneCommand'
  BY DEF MobileInd, OneCommand
<1> QED
  BY <1>2, <1>3, <1>4, <1>5, <1>6, <1>7 DEF MobileInd, MobileInv

\* The app starts on what is stored.
LEMMA StartedGuest ==
  ASSUME stored \in Pairing
  PROVE  /\ Started(stored) \in Guest
         /\ Started(stored).phase = "loading" /\ ~Started(stored).opened
         /\ Started(stored).base = stored.base /\ Started(stored).token = stored.token
         /\ ~Started(stored).busy /\ Started(stored).sent = 0 /\ Started(stored).effectId = 1
BY MobileAssumption DEF Started, Guest, Effect, Pairing, Pane, Token, Base

LEMMA AppStarts ==
  ASSUME stored' \in Pairing, stored'.token = Trim(stored'.token), app' = Started(stored'),
         requestSequence' = 0, lastEffectId' = 1, queued' \in {"none", "search"},
         searches' = {}, commands' = {}, tried' = 0, starts' \in 0..MaxStarts
  PROVE  MobileInd'
<1>1. /\ app' \in Guest /\ app'.phase = "loading" /\ ~app'.opened
      /\ app'.base = stored'.base /\ app'.token = stored'.token
      /\ ~app'.busy /\ app'.sent = 0 /\ app'.effectId = 1
  BY MobileAssumption DEF Started, Guest, Effect, Pairing, Pane, Token, Base
<1>2. Cardinality(commands') <= 1
  BY FS_EmptySet
<1>3. 1 \in 1..MaxEffects
  BY MobileAssumption
<1>4. MobileTypeOK'
  BY <1>1, <1>2, <1>3 DEF MobileTypeOK, Guest, Effect
<1>5. stored' = [base |-> stored'.base, token |-> stored'.token]
  BY DEF Pairing
<1>6. SentOnce' /\ FleetIsOfItsSearch' /\ PairingIsStored'
  BY <1>1, <1>5 DEF SentOnce, FleetIsOfItsSearch, PairingIsStored
<1>7. MobileTyped' /\ SearchInForce' /\ OneCommand'
  BY <1>1 DEF MobileTyped, SearchInForce, OneCommand, Effect
<1> QED
  BY <1>4, <1>6, <1>7 DEF MobileInd, MobileInv

\* The answer of a search, drawn or refused; one that was overtaken is not drawn.
LEMMA AnswerDrawn ==
  ASSUME MobileInd, NEW r \in searches, queued = "none",
         NEW next, Answered(r, next),
         \/ next = app
         \/ next = FleetError(app)
         \/ Current(r) /\ next \in {FleetCount(FleetStart(app, r.of)), FleetError(FleetStart(app, r.of))}
  PROVE  MobileInd'
<1>1. app \in Guest /\ r.of \in Query
  BY DEF MobileInd, MobileTyped
<1>2. /\ next \in Guest /\ next.effectId = app.effectId /\ next.applied = app.applied
      /\ next.base = app.base /\ next.token = app.token
      /\ next.busy = app.busy /\ next.sent = app.sent
      /\ next.opened => next.shown # NoActors
      /\ next.phase = "ready" => next.shown = app.applied
  <2>1. CASE next = app
    BY <1>1, <2>1 DEF MobileInd, MobileInv, MobileTypeOK, FleetIsOfItsSearch
  <2>2. CASE next = FleetError(app)
    BY <1>1, <2>2 DEF MobileInd, MobileInv, MobileTypeOK, FleetError, Guest, Effect
  <2>3. CASE Current(r) /\ next \in {FleetCount(FleetStart(app, r.of)), FleetError(FleetStart(app, r.of))}
    <3>1. r.of = app.applied
      BY <2>3 DEF Current, MobileInd, SearchInForce
    <3> QED
      BY <1>1, <2>3, <3>1, Drawn
  <2> QED
    BY <2>1, <2>2, <2>3
<1>3. /\ app' = next /\ queued' = queued /\ lastEffectId' = lastEffectId /\ searches' = searches \ {r}
      /\ UNCHANGED <<stored, requestSequence, commands, tried, starts>>
  BY <1>2, NothingAsked DEF Answered
<1>4. MobileTypeOK'
  BY <1>2, <1>3 DEF MobileInd, MobileInv, MobileTypeOK, Guest, Effect
<1>5. SentOnce' /\ FleetIsOfItsSearch' /\ PairingIsStored'
  BY <1>2, <1>3 DEF MobileInd, MobileInv, SentOnce, FleetIsOfItsSearch, PairingIsStored
<1>6. MobileTyped' /\ SearchInForce' /\ OneCommand'
  BY <1>2, <1>3 DEF MobileInd, MobileTyped, SearchInForce, OneCommand
<1> QED
  BY <1>4, <1>5, <1>6 DEF MobileInd, MobileInv

\* A command that ended, or was never sent, makes the terminal idle.
LEMMA TerminalIdle ==
  ASSUME MobileInd, app' = TerminalResult(app), commands' = {}, queued' = "none",
         tried' = tried + (IF queued = "terminal-request" THEN 1 ELSE 0),
         queued # "search",
         UNCHANGED <<lastEffectId, stored, requestSequence, searches, starts>>
  PROVE  MobileInd'
<1>1. app \in Guest
  BY DEF MobileInd, MobileTyped
<1>2. app' \in Guest /\ app' = [app EXCEPT !.busy = FALSE]
  BY <1>1 DEF TerminalResult, Guest
<1>3. Cardinality(commands') <= 1
  BY FS_EmptySet
<1>4. MobileTypeOK'
  BY <1>1, <1>2, <1>3 DEF MobileInd, MobileInv, MobileTypeOK, Guest, Effect
<1>5. SentOnce' /\ FleetIsOfItsSearch' /\ PairingIsStored'
  BY <1>1, <1>2 DEF MobileInd, MobileInv, SentOnce, FleetIsOfItsSearch, PairingIsStored, MobileTyped, Guest
<1>6. MobileTyped' /\ SearchInForce' /\ OneCommand'
  BY <1>1, <1>2 DEF MobileInd, MobileTyped, SearchInForce, OneCommand, Guest, Effect
<1> QED
  BY <1>4, <1>5, <1>6 DEF MobileInd, MobileInv

LEMMA PhoneGoesOn == ASSUME MobileInd, [MobileNext]_mobileVars PROVE MobileInd'
<1>1. app \in Guest
  BY DEF MobileInd, MobileTyped
<1>2. ASSUME NEW next \in Guest, next.effectId = app.effectId, Event(next)
      PROVE  app' = next /\ UNCHANGED <<queued, lastEffectId, stored, requestSequence, searches, commands, tried, starts>>
  BY <1>2, NothingAsked DEF Event, mobileHost
<1>3. ASSUME NEW next \in Guest, next.effectId = app.effectId + 1, next.effect # "none", Event(next)
      PROVE  /\ app' = next /\ queued = "none" /\ queued' = next.effect /\ lastEffectId' = app.effectId + 1
             /\ UNCHANGED <<stored, requestSequence, searches, commands, tried, starts>>
  BY <1>3, EffectAsked DEF Event, mobileHost
<1>4. ASSUME NEW q \in Query, TypeQuery(q)
      PROVE  MobileInd'
  <2> DEFINE next == [app EXCEPT !.query = q]
  <2>1. next \in Guest /\ next.effectId = app.effectId
    BY <1>1 DEF Guest
  <2>2. app' = next /\ UNCHANGED <<queued, lastEffectId, stored, requestSequence, searches, commands, tried, starts>>
    BY <1>2, <1>4, <2>1 DEF TypeQuery
  <2>3. ScreenKept /\ app'.opened = app.opened
    BY <1>1, <2>2 DEF ScreenKept, Guest
  <2> QED
    BY <2>1, <2>2, <2>3, ScreenGoesOn
<1>5. ASSUME NEW b \in Base, TypeBase(b)
      PROVE  MobileInd'
  <2> DEFINE next == [app EXCEPT !.baseDraft = b]
  <2>1. next \in Guest /\ next.effectId = app.effectId
    BY <1>1 DEF Guest
  <2>2. app' = next /\ UNCHANGED <<queued, lastEffectId, stored, requestSequence, searches, commands, tried, starts>>
    BY <1>2, <1>5, <2>1 DEF TypeBase
  <2>3. ScreenKept /\ app'.opened = app.opened
    BY <1>1, <2>2 DEF ScreenKept, Guest
  <2> QED
    BY <2>1, <2>2, <2>3, ScreenGoesOn
<1>6. ASSUME NEW t \in Token, TypeToken(t)
      PROVE  MobileInd'
  <2> DEFINE next == [app EXCEPT !.tokenDraft = t]
  <2>1. next \in Guest /\ next.effectId = app.effectId
    BY <1>1 DEF Guest
  <2>2. app' = next /\ UNCHANGED <<queued, lastEffectId, stored, requestSequence, searches, commands, tried, starts>>
    BY <1>2, <1>6, <2>1 DEF TypeToken
  <2>3. ScreenKept /\ app'.opened = app.opened
    BY <1>1, <2>2 DEF ScreenKept, Guest
  <2> QED
    BY <2>1, <2>2, <2>3, ScreenGoesOn
<1>7. ASSUME NEW p \in Pane, ShowPane(p)
      PROVE  MobileInd'
  <2> DEFINE next == [app EXCEPT !.pane = p, !.opened = FALSE]
  <2>1. next \in Guest /\ next.effectId = app.effectId
    BY <1>1 DEF Guest
  <2>2. app' = next /\ UNCHANGED <<queued, lastEffectId, stored, requestSequence, searches, commands, tried, starts>>
    BY <1>2, <1>7, <2>1 DEF ShowPane
  <2>3. ScreenKept /\ app'.opened = FALSE
    BY <1>1, <2>2 DEF ScreenKept, Guest
  <2> QED
    BY <2>1, <2>2, <2>3, ScreenGoesOn
<1>8. CASE OpenActor \/ Back
  <2>1. PICK on \in BOOLEAN : Event([app EXCEPT !.opened = on]) /\ (on => app.phase = "ready")
    BY <1>8 DEF OpenActor, Back
  <2> DEFINE next == [app EXCEPT !.opened = on]
  <2>2. next \in Guest /\ next.effectId = app.effectId
    BY <1>1 DEF Guest
  <2>3. app' = next /\ UNCHANGED <<queued, lastEffectId, stored, requestSequence, searches, commands, tried, starts>>
    BY <1>2, <2>1, <2>2
  <2>4. ScreenKept /\ app'.opened = on
    BY <1>1, <2>3 DEF ScreenKept, Guest
  <2> QED
    BY <2>1, <2>2, <2>3, <2>4, ScreenGoesOn
<1>9. ASSUME NEW q \in Query, Room, Event(StartSearch([app EXCEPT !.query = q]))
      PROVE  MobileInd'
  <2> DEFINE next == StartSearch([app EXCEPT !.query = q])
  <2> DEFINE typed == [app EXCEPT !.query = q]
  <2>0. /\ typed \in Guest /\ typed.effectId = app.effectId
        /\ typed.base = app.base /\ typed.token = app.token /\ typed.shown = app.shown
        /\ typed.busy = app.busy /\ typed.sent = app.sent
    BY <1>1 DEF Guest
  <2> HIDE DEF typed
  <2>1. /\ next \in Guest /\ next.effectId = app.effectId + 1 /\ next.effect = "search"
        /\ next.base = app.base /\ next.token = app.token /\ next.shown = app.shown /\ ~next.opened
        /\ next.phase = "loading" /\ next.busy = app.busy /\ next.sent = app.sent
    <3>1. next = StartSearch(typed)
      BY DEF typed
    <3> HIDE DEF next
    <3> QED
      BY <2>0, <3>1, Searching
  <2> HIDE DEF next
  <2>2. /\ app' = next /\ queued = "none" /\ queued' = next.effect /\ lastEffectId' = app.effectId + 1
        /\ UNCHANGED <<stored, requestSequence, searches, commands, tried, starts>>
    BY <1>3, <1>9, <2>1 DEF next
  <2> QED
    BY <1>9, <2>1, <2>2, EffectGoesOn
<1>10. ASSUME NEW q \in Query, ChangeRole(q)
       PROVE  MobileInd'
  BY <1>9, <1>10 DEF ChangeRole
<1>11. CASE Search
  <2>1. app.query \in Query /\ [app EXCEPT !.query = app.query] = app
    BY <1>1 DEF Guest
  <2> QED
    BY <1>9, <1>11, <2>1 DEF Search
<1>12. CASE PairSave
  <2> DEFINE next == IssueEffect(app, "pairing-save")
  <2>1. /\ next \in Guest /\ next.effectId = app.effectId + 1 /\ next.effect = "pairing-save"
        /\ next.base = app.base /\ next.token = app.token /\ next.shown = app.shown
        /\ next.opened = app.opened /\ next.phase = app.phase /\ next.applied = app.applied
        /\ next.busy = app.busy /\ next.sent = app.sent
    BY <1>1, Issued DEF Effect
  <2> HIDE DEF next
  <2>2. /\ app' = next /\ queued = "none" /\ queued' = next.effect /\ lastEffectId' = app.effectId + 1
        /\ UNCHANGED <<stored, requestSequence, searches, commands, tried, starts>>
    BY <1>3, <1>12, <2>1 DEF next, PairSave
  <2>3. Room
    BY <1>12 DEF PairSave
  <2> QED
    BY <2>1, <2>2, <2>3, EffectGoesOn
<1>13. CASE PlanTerminal
  <2> DEFINE next == RequestState(app)
  <2>1. /\ next \in Guest /\ next.effectId = app.effectId + 1 /\ next.effect = "terminal-request"
        /\ next.base = app.base /\ next.token = app.token /\ next.shown = app.shown
        /\ next.opened = app.opened /\ next.phase = app.phase /\ next.applied = app.applied
        /\ next.busy = TRUE /\ next.sent = app.sent + 1
    BY <1>1, Requesting
  <2> HIDE DEF next
  <2>2. /\ app' = next /\ queued = "none" /\ queued' = next.effect /\ lastEffectId' = app.effectId + 1
        /\ UNCHANGED <<stored, requestSequence, searches, commands, tried, starts>>
    BY <1>3, <1>13, <2>1 DEF next, PlanTerminal
  <2>3. Room /\ ~app.busy
    BY <1>13 DEF PlanTerminal
  <2> QED
    BY <2>1, <2>2, <2>3, EffectGoesOn
<1>14. CASE StartApp
  <2>1. stored \in Pairing /\ stored.token = Trim(stored.token) /\ starts + 1 \in 0..MaxStarts
    BY <1>14, MobileAssumption DEF StartApp, MobileInd, MobileInv, MobileTypeOK, PairingIsStored, Trim
  <2> QED
    BY <1>14, <2>1, AppStarts DEF StartApp
<1>15. CASE SavePairing
  <2>1. app' = PairingSaved(app) /\ app' \in Guest
    BY <1>1, <1>15 DEF SavePairing, PairingSaved, Guest, Effect, Token
  <2>2. /\ app'.phase = app.phase /\ app'.shown = app.shown /\ app'.applied = app.applied
        /\ app'.busy = app.busy /\ app'.sent = app.sent /\ app'.effectId = app.effectId
        /\ app'.opened = app.opened /\ app'.base = app.baseDraft /\ app'.token = app.tokenDraft
    BY <1>1, <2>1 DEF PairingSaved, Guest
  <2>3. /\ stored' = [base |-> app.baseDraft, token |-> Trim(app.tokenDraft)] /\ stored' \in Pairing
        /\ queued = "pairing-save" /\ queued' = "none"
        /\ UNCHANGED <<lastEffectId, requestSequence, searches, commands, tried, starts>>
    BY <1>1, <1>15 DEF SavePairing, Trim, Guest, Base, Token, Pairing
  <2>4. MobileTypeOK'
    BY <2>1, <2>2, <2>3 DEF MobileInd, MobileInv, MobileTypeOK, Guest, Effect
  <2>5. SentOnce' /\ FleetIsOfItsSearch' /\ PairingIsStored'
    BY <2>2, <2>3 DEF MobileInd, MobileInv, SentOnce, FleetIsOfItsSearch, PairingIsStored
  <2>6. MobileTyped' /\ SearchInForce' /\ OneCommand'
    BY <2>1, <2>2, <2>3 DEF MobileInd, MobileTyped, SearchInForce, OneCommand, Effect
  <2> QED
    BY <2>4, <2>5, <2>6 DEF MobileInd, MobileInv
<1>16. CASE SendCommand
  <2>1. /\ queued = "terminal-request" /\ queued' = "none" /\ tried' = tried + 1 /\ commands = {} /\ app.busy
        /\ UNCHANGED <<lastEffectId, stored, requestSequence, searches, starts>>
    BY <1>16 DEF SendCommand, MobileInd, OneCommand
  <2>2. CASE app' = TerminalResult(app) /\ commands' = commands
    BY <2>1, <2>2, TerminalIdle
  <2>3. CASE app' = app /\ commands' = commands \cup {app.effectId}
    <3>1. commands' = {app.effectId}
      BY <2>1, <2>3
    <3>2. Cardinality(commands') <= 1
      BY <3>1, CommandCount
    <3>3. MobileTypeOK'
      BY <2>1, <2>3, <3>2 DEF MobileInd, MobileInv, MobileTypeOK
    <3>4. SentOnce' /\ FleetIsOfItsSearch' /\ PairingIsStored'
      BY <2>1, <2>3 DEF MobileInd, MobileInv, SentOnce, FleetIsOfItsSearch, PairingIsStored, MobileTyped
    <3>5. MobileTyped' /\ SearchInForce' /\ OneCommand'
      BY <2>1, <2>3, <3>1 DEF MobileInd, MobileTyped, SearchInForce, OneCommand, Effect
    <3> QED
      BY <3>3, <3>4, <3>5 DEF MobileInd, MobileInv
  <2> QED
    BY <1>16, <2>2, <2>3 DEF SendCommand
<1>17. CASE LoadFleet
  <2>1. /\ queued = "search" /\ queued' = "none" /\ requestSequence' = requestSequence + 1
        /\ searches' = searches \cup {[number |-> requestSequence', id |-> app.effectId, of |-> app.applied]}
        /\ UNCHANGED <<app, lastEffectId, stored, commands, tried, starts>>
    BY <1>17 DEF LoadFleet
  <2>2. requestSequence \in Nat /\ lastEffectId \in 1..MaxEffects /\ requestSequence' <= lastEffectId
        /\ lastEffectId = app.effectId
    BY <2>1 DEF MobileInd, MobileInv, MobileTypeOK, MobileTyped
  <2>3. \A r \in searches' : \/ r \in searches
                             \/ r.number = requestSequence' /\ r.id = app.effectId /\ r.of = app.applied
    BY <2>1
  <2>4. \A r \in searches' : r.number \in 1..requestSequence' /\ r.id \in 1..lastEffectId'
    BY <2>1, <2>2, <2>3 DEF MobileInd, MobileInv, MobileTypeOK
  <2>5. MobileTypeOK'
    BY <2>1, <2>2, <2>4 DEF MobileInd, MobileInv, MobileTypeOK
  <2>6. SentOnce' /\ FleetIsOfItsSearch' /\ PairingIsStored'
    BY <2>1 DEF MobileInd, MobileInv, SentOnce, FleetIsOfItsSearch, PairingIsStored
  <2>7. MobileTyped'
    <3>1. \A r \in searches' : r.number \in Nat /\ r.id \in Nat /\ r.of \in Query
      BY <1>1, <2>2, <2>1, <2>3 DEF MobileInd, MobileTyped, Guest
    <3> QED
      BY <2>1, <2>2, <3>1 DEF MobileInd, MobileTyped, Effect
  <2>8. SearchInForce' /\ OneCommand'
    BY <2>1, <2>3 DEF MobileInd, SearchInForce, OneCommand
  <2> QED
    BY <2>5, <2>6, <2>7, <2>8 DEF MobileInd, MobileInv
<1>18. CASE FacetsArrive
  <2>1. PICK known \in BOOLEAN : Dispatch([app EXCEPT !.roles = known])
    BY <1>18 DEF FacetsArrive
  <2> DEFINE next == [app EXCEPT !.roles = known]
  <2>2. next \in Guest /\ next.effectId = app.effectId
    BY <1>1 DEF Guest
  <2>3. app' = next /\ UNCHANGED <<queued, lastEffectId, stored, requestSequence, searches, commands, tried, starts>>
    BY <1>18, <2>1, <2>2, NothingAsked DEF FacetsArrive
  <2>4. ScreenKept /\ app'.opened = app.opened
    BY <1>1, <2>3 DEF ScreenKept, Guest
  <2> QED
    BY <2>2, <2>3, <2>4, ScreenGoesOn
<1>19. ASSUME NEW r \in searches, FleetArrives(r) \/ FleetFails(r)
       PROVE  MobileInd'
  <2>1. queued = "none"
    BY <1>19 DEF FleetArrives, FleetFails
  <2>2. CASE FleetFails(r)
    BY <2>1, <2>2, AnswerDrawn DEF FleetFails
  <2>3. CASE FleetArrives(r)
    <3>1. PICK next \in IF Current(r) THEN {FleetCount(FleetStart(app, r.of)), FleetError(FleetStart(app, r.of))}
                        ELSE {app} : Answered(r, next)
      BY <2>3 DEF FleetArrives
    <3> QED
      BY <2>1, <3>1, AnswerDrawn
  <2> QED
    BY <1>19, <2>2, <2>3
<1>20. ASSUME NEW id \in commands, CommandReturns(id)
       PROVE  MobileInd'
  <2>1. /\ queued = "none" /\ commands' = commands \ {id}
        /\ UNCHANGED <<stored, requestSequence, searches, facets, tried, starts>>
    BY <1>20 DEF CommandReturns
  <2>2. commands' = {}
    BY <1>20, <2>1 DEF MobileInd, OneCommand
  <2>3. CASE app.effectId = id
    <3>1. TerminalResult(app) \in Guest /\ TerminalResult(app).effectId = app.effectId
      BY <1>1 DEF TerminalResult, Guest
    <3>2. app' = TerminalResult(app) /\ queued' = queued /\ lastEffectId' = lastEffectId
      BY <1>20, <2>3, <3>1, NothingAsked DEF CommandReturns
    <3>3. tried' = tried + 0 /\ tried \in Nat
      BY <2>1 DEF MobileInd, MobileTyped
    <3> QED
      BY <2>1, <2>2, <3>2, <3>3, TerminalIdle
  <2>4. CASE app.effectId # id
    <3>1. app' = app /\ queued' = queued /\ lastEffectId' = lastEffectId
      BY <1>1, <1>20, <2>4, NothingAsked DEF CommandReturns
    <3>2. Cardinality(commands') <= 1
      BY <2>2, FS_EmptySet
    <3>3. MobileTypeOK'
      BY <2>1, <3>1, <3>2 DEF MobileInd, MobileInv, MobileTypeOK
    <3>4. SentOnce' /\ FleetIsOfItsSearch' /\ PairingIsStored'
      BY <2>1, <3>1 DEF MobileInd, MobileInv, SentOnce, FleetIsOfItsSearch, PairingIsStored
    <3>5. MobileTyped' /\ SearchInForce' /\ OneCommand'
      BY <2>1, <2>2, <3>1 DEF MobileInd, MobileTyped, SearchInForce, OneCommand
    <3> QED
      BY <3>3, <3>4, <3>5 DEF MobileInd, MobileInv
  <2> QED
    BY <2>3, <2>4
<1>21. CASE UNCHANGED mobileVars
  <2>1. UNCHANGED <<app, queued, lastEffectId, stored, requestSequence, searches, commands, tried, starts>>
    BY <1>21 DEF mobileVars, mobileHost
  <2> QED
    BY <1>1, <2>1, ScreenGoesOn DEF ScreenKept
<1> QED
  BY <1>4, <1>5, <1>6, <1>7, <1>8, <1>10, <1>11, <1>12, <1>13, <1>14, <1>15, <1>16, <1>17, <1>18, <1>19, <1>20, <1>21
     DEF MobileNext, Person, Host

\* Whatever is searched for, paired and sent in whichever order the answers arrive, each
\* effect of the guest happens once, for the state that asked for it.
THEOREM EffectsHappenOnce == PagesSpec => []MobileInv
<1>1. PagesInit => MobileInd
  <2> SUFFICES ASSUME PagesInit PROVE MobileInd
    OBVIOUS
  <2>1. /\ stored = [base |-> "https", token |-> "none"] /\ app = Started(stored)
        /\ requestSequence = 0 /\ lastEffectId = 1 /\ queued = "none"
        /\ searches = {} /\ commands = {} /\ tried = 0 /\ starts = 0
    BY DEF PagesInit, MobileInit
  <2>2. stored \in Pairing /\ stored.token = Trim(stored.token)
    BY <2>1 DEF Pairing, Base, Token, Trim
  <2>3. /\ app \in Guest /\ app.phase = "loading" /\ ~app.opened
        /\ app.base = stored.base /\ app.token = stored.token
        /\ ~app.busy /\ app.sent = 0 /\ app.effectId = 1
    BY <2>1, <2>2, StartedGuest
  <2>4. Cardinality(commands) <= 1 /\ 1 \in 1..MaxEffects /\ 0 \in 0..MaxStarts
    BY <2>1, FS_EmptySet, MobileAssumption
  <2>5. MobileTypeOK
    BY <2>1, <2>2, <2>3, <2>4 DEF MobileTypeOK, Guest, Effect
  <2>6. SentOnce /\ FleetIsOfItsSearch /\ PairingIsStored
    BY <2>1, <2>2, <2>3 DEF SentOnce, FleetIsOfItsSearch, PairingIsStored
  <2>7. MobileTyped /\ SearchInForce /\ OneCommand
    BY <2>1, <2>3 DEF MobileTyped, SearchInForce, OneCommand, Effect
  <2> QED
    BY <2>5, <2>6, <2>7 DEF MobileInd, MobileInv
<1>2. MobileInd /\ [PagesNext]_pageVars => MobileInd'
  <2>1. [PagesNext]_pageVars => [MobileNext]_mobileVars
    BY DEF PagesNext, pageVars, Console, Talk, Projects, Phone, Shop, Purse
  <2> QED
    BY <2>1, PhoneGoesOn
<1>3. MobileInd => MobileInv
  BY DEF MobileInd
<1> QED
  BY <1>1, <1>2, <1>3, PTL DEF PagesSpec

(***************************************************************************)
(* The storefront: its payments.                                           *)
(***************************************************************************)

OrderStatus == {"none", "asked", "placed", "refused", "gone", "awaiting", "expired", "paid"}
OrderRecords == [status : OrderStatus, quantity : Int]
Broadcasts == [order : Order \cup {0}, fate : {"none", "pending", "mined", "reverted"}]
Buttons == [at : {"idle", "wallet", "confirming", "verifying", "verified", "reloading", "done"},
            tx : Tx \cup {0}]

PaymentsTyped ==
  /\ order \in [Order -> OrderRecords] /\ cart \in Int
  /\ usedBy \in [Tx -> Order \cup {0}] /\ chain \in [Tx -> Broadcasts]
  /\ pay \in [Order -> Buttons]

\* A button remembers the transaction it sent until its payment is done, and is never
\* in the wallet with one; what is verified was sent by this button and succeeded.
ButtonsRemember ==
  /\ \A t \in Tx : chain[t].fate = "none" => chain[t].order = 0
  /\ \A o \in Order, t \in Tx : chain[t].order = o => pay[o].tx = t \/ pay[o].at \in {"reloading", "done"}
  /\ \A o \in Order : At(o, "wallet") => pay[o].tx = 0
  /\ \A o \in Order : pay[o].tx # 0 => chain[pay[o].tx].order = o
  /\ \A o \in Order : pay[o].at \in {"verifying", "verified"} =>
       pay[o].tx # 0 /\ chain[pay[o].tx].fate = "mined"

OneEach == \A o \in Order : \A t, u \in Tx : chain[t].order = o /\ chain[u].order = o => t = u

PaymentsInd == PaymentsTyped /\ ButtonsRemember /\ OneEach /\ PaidByItsOwn

\* The status of an order changes, to one that is not "paid".
LEMMA StatusGoesOn ==
  ASSUME PaymentsInd, NEW o \in Order, NEW status \in OrderStatus \ {"paid"}, NEW quantity \in Int,
         order[o].status # "paid", order' = [order EXCEPT ![o] = [status |-> status, quantity |-> quantity]],
         cart' \in Int, UNCHANGED <<usedBy, chain, pay>>
  PROVE  PaymentsInd'
<1>1. order' \in [Order -> OrderRecords]
  BY DEF PaymentsInd, PaymentsTyped, OrderRecords
<1>2. PaymentsTyped'
  BY <1>1 DEF PaymentsInd, PaymentsTyped
<1>3. PaidByItsOwn'
  <2>1. \A q \in Order : order'[q].status = "paid" => order[q].status = "paid"
    BY DEF PaymentsInd, PaymentsTyped
  <2> QED
    BY <2>1 DEF PaymentsInd, PaidByItsOwn
<1> QED
  BY <1>2, <1>3 DEF PaymentsInd, ButtonsRemember, OneEach, At

\* A button moves on, with the transaction it remembers.
LEMMA ButtonGoesOn ==
  ASSUME PaymentsInd, NEW o \in Order, NEW at \in {"idle", "wallet", "confirming", "verifying", "done"},
         GoesTo(o, at),
         at = "wallet" => pay[o].tx = 0,
         at = "verifying" => pay[o].tx # 0 /\ chain[pay[o].tx].fate = "mined",
         pay[o].at = "reloading" => at = "done", pay[o].at # "done",
         cart' \in Int, UNCHANGED <<order, usedBy, chain>>
  PROVE  PaymentsInd'
<1>1. /\ pay' \in [Order -> Buttons]
      /\ \A q \in Order : pay'[q].tx = pay[q].tx /\ pay'[q].at = IF q = o THEN at ELSE pay[q].at
  BY DEF PaymentsInd, PaymentsTyped, Buttons, GoesTo
<1>2. PaymentsTyped' /\ OneEach' /\ PaidByItsOwn'
  BY <1>1 DEF PaymentsInd, PaymentsTyped, OneEach, PaidByItsOwn
<1>3. ButtonsRemember'
  BY <1>1 DEF PaymentsInd, ButtonsRemember, At
<1> QED
  BY <1>2, <1>3 DEF PaymentsInd

\* The wallet sends a transaction for an order that has none.
LEMMA BroadcastGoesOn ==
  ASSUME PaymentsInd, NEW o \in Order, Broadcast(o)
  PROVE  PaymentsInd'
<1>1. PICK t \in NextTx :
        /\ chain' = [chain EXCEPT ![t] = [order |-> o, fate |-> "pending"]]
        /\ pay' = [pay EXCEPT ![o] = [at |-> "confirming", tx |-> t]]
  BY DEF Broadcast
<1>2. /\ t \in Tx /\ t # 0 /\ chain[t].fate = "none" /\ chain[t].order = 0 /\ At(o, "wallet") /\ pay[o].tx = 0
      /\ UNCHANGED <<order, usedBy, cart>> /\ o # 0
  BY StorefrontAssumption DEF Broadcast, NextTx, PaymentsInd, ButtonsRemember, shop, buyer, Tx
<1>3. /\ chain' \in [Tx -> Broadcasts] /\ pay' \in [Order -> Buttons]
      /\ \A u \in Tx : chain'[u] = IF u = t THEN [order |-> o, fate |-> "pending"] ELSE chain[u]
      /\ \A q \in Order : pay'[q] = IF q = o THEN [at |-> "confirming", tx |-> t] ELSE pay[q]
  BY <1>1, <1>2 DEF PaymentsInd, PaymentsTyped, Broadcasts, Buttons
<1>4. \A u \in Tx : chain[u].order # o
  BY <1>2 DEF PaymentsInd, ButtonsRemember, At, Tx
<1>5. \A q \in Order : pay[q].tx # t
  BY <1>2, StorefrontAssumption DEF PaymentsInd, ButtonsRemember, Tx
<1>6. PaymentsTyped'
  BY <1>2, <1>3 DEF PaymentsInd, PaymentsTyped
<1>7. OneEach'
  BY <1>2, <1>3, <1>4 DEF PaymentsInd, OneEach
<1>8. PaidByItsOwn'
  <2>1. \A u \in Tx, q \in Order : chain[u] = [order |-> q, fate |-> "mined"] => chain'[u] = chain[u]
    BY <1>2, <1>3
  <2> SUFFICES ASSUME NEW q \in Order, order'[q].status = "paid"
               PROVE  \E u \in Tx : usedBy'[u] = q /\ chain'[u] = [order |-> q, fate |-> "mined"]
    BY DEF PaidByItsOwn
  <2>2. order[q].status = "paid" /\ usedBy' = usedBy
    BY <1>2
  <2>3. PICK u \in Tx : usedBy[u] = q /\ chain[u] = [order |-> q, fate |-> "mined"]
    BY <2>2 DEF PaymentsInd, PaidByItsOwn
  <2> QED
    BY <2>1, <2>2, <2>3
<1>9. ButtonsRemember'
  <2>1. \A u \in Tx : chain'[u].fate = "none" => chain'[u].order = 0
    BY <1>3 DEF PaymentsInd, ButtonsRemember
  <2>2. \A q \in Order, u \in Tx : chain'[u].order = q => pay'[q].tx = u \/ pay'[q].at \in {"reloading", "done"}
    BY <1>3, <1>4 DEF PaymentsInd, ButtonsRemember
  <2>3. \A q \in Order : pay'[q].at = "wallet" => pay'[q].tx = 0
    BY <1>3 DEF PaymentsInd, ButtonsRemember, At
  <2>4. \A q \in Order : pay'[q].tx # 0 => chain'[pay'[q].tx].order = q
    BY <1>2, <1>3, <1>5 DEF PaymentsInd, PaymentsTyped, Buttons, ButtonsRemember
  <2>5. \A q \in Order : pay'[q].at \in {"verifying", "verified"} =>
                           pay'[q].tx # 0 /\ chain'[pay'[q].tx].fate = "mined"
    BY <1>2, <1>3, <1>5 DEF PaymentsInd, PaymentsTyped, Buttons, ButtonsRemember
  <2> QED
    BY <2>1, <2>2, <2>3, <2>4, <2>5 DEF ButtonsRemember, At
<1> QED
  BY <1>6, <1>7, <1>8, <1>9 DEF PaymentsInd

\* The server captures a payment whose transaction was sent for the order.
LEMMA CaptureGoesOn ==
  ASSUME PaymentsInd, NEW o \in Order, Capture(o)
  PROVE  PaymentsInd'
<1> DEFINE t == pay[o].tx
<1>1. /\ At(o, "verifying") /\ usedBy[t] \in {0, o} /\ UNCHANGED <<chain, cart>>
      /\ order' = [order EXCEPT ![o].status = "paid"]
      /\ usedBy' = [usedBy EXCEPT ![t] = o]
      /\ pay' = [pay EXCEPT ![o].at = "verified"]
  BY DEF Capture, GoesTo, buyer
<1>2. t \in Tx /\ t # 0 /\ chain[t].fate = "mined" /\ chain[t].order = o
  BY <1>1 DEF PaymentsInd, PaymentsTyped, Buttons, ButtonsRemember, At
<1>3. chain[t] = [order |-> o, fate |-> "mined"]
  BY <1>2 DEF PaymentsInd, PaymentsTyped, Broadcasts
<1> HIDE DEF t
<1>4. /\ pay' \in [Order -> Buttons]
      /\ \A q \in Order : pay'[q].tx = pay[q].tx /\ pay'[q].at = IF q = o THEN "verified" ELSE pay[q].at
  BY <1>1 DEF PaymentsInd, PaymentsTyped, Buttons
<1>5. /\ order' \in [Order -> OrderRecords]
      /\ \A q \in Order : q # o => order'[q] = order[q]
  BY <1>1 DEF PaymentsInd, PaymentsTyped, OrderRecords, OrderStatus
<1>6. /\ usedBy' \in [Tx -> Order \cup {0}]
      /\ \A u \in Tx : usedBy'[u] = IF u = t THEN o ELSE usedBy[u]
  BY <1>1, <1>2 DEF PaymentsInd, PaymentsTyped
<1>7. PaymentsTyped' /\ OneEach'
  BY <1>1, <1>4, <1>5, <1>6 DEF PaymentsInd, PaymentsTyped, OneEach
<1>8. ButtonsRemember'
  <2>1. \A q \in Order : pay'[q].at \in {"verifying", "verified"} => pay[q].at \in {"verifying", "verified"}
    BY <1>1, <1>4 DEF At
  <2>2. \A q \in Order : /\ pay'[q].at \in {"reloading", "done"} <=> pay[q].at \in {"reloading", "done"}
                         /\ pay'[q].at = "wallet" <=> pay[q].at = "wallet"
    BY <1>1, <1>4 DEF At
  <2> QED
    BY <1>1, <1>4, <2>1, <2>2 DEF PaymentsInd, ButtonsRemember, At
<1>9. PaidByItsOwn'
  <2>1. ASSUME NEW q \in Order, order'[q].status = "paid", q # o
        PROVE  \E u \in Tx : usedBy'[u] = q /\ chain'[u] = [order |-> q, fate |-> "mined"]
    <3>1. PICK u \in Tx : usedBy[u] = q /\ chain[u] = [order |-> q, fate |-> "mined"]
      BY <1>5, <2>1 DEF PaymentsInd, PaidByItsOwn
    <3>2. u # t
      BY <1>3, <2>1, <3>1
    <3> QED
      BY <1>1, <1>6, <3>1, <3>2
  <2>2. \E u \in Tx : usedBy'[u] = o /\ chain'[u] = [order |-> o, fate |-> "mined"]
    BY <1>1, <1>2, <1>3, <1>6
  <2> QED
    BY <2>1, <2>2 DEF PaidByItsOwn
<1> QED
  BY <1>7, <1>8, <1>9 DEF PaymentsInd

\* A paid order answered again, and its receipt: the transaction is given back.
LEMMA VerifiedGoesOn ==
  ASSUME PaymentsInd, NEW o \in Order, AlreadyPaid(o) \/ PaidArrives(o)
  PROVE  PaymentsInd'
<1>1. CASE AlreadyPaid(o)
  <2>1. /\ pay' \in [Order -> Buttons]
        /\ \A q \in Order : pay'[q].tx = pay[q].tx /\ pay'[q].at = IF q = o THEN "verified" ELSE pay[q].at
    BY <1>1 DEF AlreadyPaid, GoesTo, PaymentsInd, PaymentsTyped, Buttons
  <2>2. UNCHANGED <<order, usedBy, chain, cart>> /\ pay[o].at = "verifying"
    BY <1>1 DEF AlreadyPaid, shop, buyer, At
  <2>3. ButtonsRemember'
    BY <2>1, <2>2 DEF PaymentsInd, ButtonsRemember, At
  <2> QED
    BY <2>1, <2>2, <2>3 DEF PaymentsInd, PaymentsTyped, OneEach, PaidByItsOwn
<1>2. CASE PaidArrives(o)
  <2>1. /\ pay' \in [Order -> Buttons]
        /\ \A q \in Order : pay'[q] = IF q = o THEN [at |-> "reloading", tx |-> 0] ELSE pay[q]
    BY <1>2 DEF PaidArrives, PaymentsInd, PaymentsTyped, Buttons
  <2>2. UNCHANGED <<order, usedBy, chain>> /\ cart' = 0
    BY <1>2 DEF PaidArrives, shop
  <2>3. ButtonsRemember'
    BY <2>1, <2>2 DEF PaymentsInd, ButtonsRemember, At
  <2> QED
    BY <2>1, <2>2, <2>3 DEF PaymentsInd, PaymentsTyped, OneEach, PaidByItsOwn
<1> QED
  BY <1>1, <1>2

\* The chain includes a transaction.
LEMMA IncludedGoesOn ==
  ASSUME PaymentsInd, NEW t \in Tx, Included(t)
  PROVE  PaymentsInd'
<1>1. PICK fate \in {"mined", "reverted"} : chain' = [chain EXCEPT ![t].fate = fate]
  BY DEF Included
<1>2. chain[t].fate = "pending" /\ UNCHANGED <<order, usedBy, pay, cart>>
  BY DEF Included, shop, buyer
<1>3. /\ chain' \in [Tx -> Broadcasts]
      /\ \A u \in Tx : chain'[u].order = chain[u].order /\ (u # t => chain'[u] = chain[u])
      /\ chain'[t].fate = fate
  BY <1>1 DEF PaymentsInd, PaymentsTyped, Broadcasts
<1>4. PaymentsTyped' /\ OneEach'
  BY <1>2, <1>3 DEF PaymentsInd, PaymentsTyped, OneEach
<1>5. PaidByItsOwn'
  <2>1. \A u \in Tx, q \in Order : chain[u] = [order |-> q, fate |-> "mined"] => chain'[u] = chain[u]
    BY <1>2, <1>3
  <2> QED
    BY <1>2, <2>1 DEF PaymentsInd, PaidByItsOwn
<1>6. ButtonsRemember'
  <2>1. \A q \in Order : pay[q].tx # 0 => pay[q].tx \in Tx
    BY DEF PaymentsInd, PaymentsTyped, Buttons
  <2>2. \A u \in Tx : chain[u].fate = "mined" => chain'[u].fate = "mined"
    BY <1>2, <1>3
  <2>3. \A u \in Tx : chain'[u].fate = "none" => chain[u].fate = "none"
    BY <1>2, <1>3
  <2> QED
    BY <1>2, <1>3, <2>1, <2>2, <2>3 DEF PaymentsInd, ButtonsRemember, At
<1> QED
  BY <1>4, <1>5, <1>6 DEF PaymentsInd

LEMMA ShopGoesOn == ASSUME PaymentsInd, [StoreNext]_storeVars PROVE PaymentsInd'
<1>1. /\ cart \in Int
      /\ \A o \in Order : /\ order[o].status \in OrderStatus /\ order[o].quantity \in Int
                          /\ order[o] = [status |-> order[o].status, quantity |-> order[o].quantity]
                          /\ pay[o].tx \in Tx \cup {0}
  BY DEF PaymentsInd, PaymentsTyped, OrderRecords, Buttons
<1>2. ASSUME UNCHANGED <<order, usedBy, chain, pay>>, cart' \in Int
      PROVE  PaymentsInd'
  BY <1>2 DEF PaymentsInd, PaymentsTyped, ButtonsRemember, OneEach, PaidByItsOwn, At
<1>3. CASE AddToCart \/ TakeFromCart \/ Restock \/ UNCHANGED storeVars
  <2>1. UNCHANGED <<order, usedBy, chain, pay>> /\ cart' \in Int
    BY <1>1, <1>3 DEF AddToCart, TakeFromCart, Restock, storeVars, shop, buyer
  <2> QED
    BY <1>2, <2>1
<1>4. ASSUME NEW o \in Order, Checkout(o) \/ PlaceOrder(o) \/ OrderArrives(o) \/ CheckoutFails(o) \/ Expire(o)
      PROVE  PaymentsInd'
  <2>1. /\ UNCHANGED <<usedBy, chain, pay, cart>> /\ order[o].status # "paid"
    BY <1>4 DEF Checkout, PlaceOrder, OrderArrives, CheckoutFails, Expire, buyer
  <2>2. \E status \in OrderStatus \ {"paid"}, quantity \in Int :
          order' = [order EXCEPT ![o] = [status |-> status, quantity |-> quantity]]
    <3>1. CASE Checkout(o)
      BY <1>1, <3>1 DEF Checkout, OrderStatus
    <3>2. CASE PlaceOrder(o) \/ OrderArrives(o) \/ CheckoutFails(o) \/ Expire(o)
      <4>1. PICK status \in {"placed", "refused", "awaiting", "gone", "expired"} :
              order' = [order EXCEPT ![o].status = status]
        BY <3>2 DEF PlaceOrder, OrderArrives, CheckoutFails, Expire
      <4>2. order' = [order EXCEPT ![o] = [status |-> status, quantity |-> order[o].quantity]]
        <5>1. [order[o] EXCEPT !.status = status] = [status |-> status, quantity |-> order[o].quantity]
          <6>1. \A r \in OrderRecords :
                  [r EXCEPT !.status = status] = [status |-> status, quantity |-> r.quantity]
            BY DEF OrderRecords
          <6> QED
            BY <6>1 DEF PaymentsInd, PaymentsTyped
        <5>2. order' = [order EXCEPT ![o] = [order[o] EXCEPT !.status = status]]
          BY <4>1 DEF PaymentsInd, PaymentsTyped
        <5> QED
          BY <5>1, <5>2
      <4> QED
        BY <1>1, <4>2 DEF OrderStatus
    <3> QED
      BY <1>4, <3>1, <3>2
  <2> QED
    BY <1>1, <2>1, <2>2, StatusGoesOn
<1>5. ASSUME NEW o \in Order, PayClick(o) \/ WalletRefuses(o) \/ Confirmed(o) \/ Refused(o) \/ Unverified(o)
                              \/ Reloaded(o) \/ ReloadFails(o)
      PROVE  PaymentsInd'
  <2>1. UNCHANGED <<order, usedBy, chain, cart>>
    BY <1>5 DEF PayClick, WalletRefuses, Confirmed, Refused, Unverified, Reloaded, ReloadFails, shop, buyer
  <2>2. \E at \in {"idle", "wallet", "confirming", "verifying", "done"} :
          /\ GoesTo(o, at)
          /\ at = "wallet" => pay[o].tx = 0
          /\ at = "verifying" => pay[o].tx # 0 /\ chain[pay[o].tx].fate = "mined"
          /\ pay[o].at = "reloading" => at = "done"
          /\ pay[o].at # "done"
    <3>1. CASE PayClick(o)
      BY <3>1 DEF PayClick, At
    <3>2. CASE WalletRefuses(o) \/ Refused(o) \/ Unverified(o)
      BY <3>2 DEF WalletRefuses, Refused, Unverified, At
    <3>3. CASE Confirmed(o)
      BY <3>3 DEF Confirmed, At
    <3>4. CASE Reloaded(o) \/ ReloadFails(o)
      BY <3>4 DEF Reloaded, ReloadFails, At
    <3> QED
      BY <1>5, <3>1, <3>2, <3>3, <3>4
  <2> QED
    BY <1>1, <2>1, <2>2, ButtonGoesOn
<1>6. ASSUME NEW o \in Order, AlreadyPaid(o) \/ PaidArrives(o)
      PROVE  PaymentsInd'
  BY <1>6, VerifiedGoesOn
<1> QED
  BY <1>3, <1>4, <1>5, <1>6, BroadcastGoesOn, CaptureGoesOn, IncludedGoesOn DEF StoreNext

\* An order's money is sent once and pays that order, whatever times out, is lost, is
\* clicked again or replaces the card meanwhile.
THEOREM PaymentsAreTheirOwn == PagesSpec => [](OneBroadcast /\ PaidByItsOwn)
<1>1. PagesInit => PaymentsInd
  <2> SUFFICES ASSUME PagesInit PROVE PaymentsInd
    OBVIOUS
  <2>1. /\ order = [o \in Order |-> Orderless] /\ usedBy = [t \in Tx |-> 0] /\ cart = 0
        /\ chain = [t \in Tx |-> [order |-> 0, fate |-> "none"]]
        /\ pay = [o \in Order |-> [at |-> "idle", tx |-> 0]]
    BY DEF PagesInit, StoreInit
  <2>2. PaymentsTyped
    <3>1. Orderless \in OrderRecords
      BY DEF Orderless, OrderRecords, OrderStatus
    <3>2. [order |-> 0, fate |-> "none"] \in Broadcasts /\ [at |-> "idle", tx |-> 0] \in Buttons
      BY DEF Broadcasts, Buttons
    <3> QED
      BY <2>1, <3>1, <3>2 DEF PaymentsTyped
  <2>3. ButtonsRemember /\ OneEach
    BY <2>1, StorefrontAssumption DEF ButtonsRemember, OneEach, At
  <2>4. PaidByItsOwn
    BY <2>1 DEF PaidByItsOwn, Orderless
  <2> QED
    BY <2>2, <2>3, <2>4 DEF PaymentsInd
<1>2. PaymentsInd /\ [PagesNext]_pageVars => PaymentsInd'
  <2>1. [PagesNext]_pageVars => [StoreNext]_storeVars
    BY DEF PagesNext, pageVars, Console, Talk, Projects, Phone, Shop, Purse
  <2> QED
    BY <2>1, ShopGoesOn
<1>3. PaymentsInd => OneBroadcast /\ PaidByItsOwn
  <2>1. ASSUME PaymentsInd, NEW o \in Order
        PROVE  Cardinality({t \in Tx : chain[t].order = o}) <= 1
    <3>1. \A t, u \in {v \in Tx : chain[v].order = o} : t = u
      BY <2>1 DEF PaymentsInd, OneEach
    <3> QED
      BY <3>1, CommandCount
  <2> QED
    BY <2>1 DEF PaymentsInd, OneBroadcast
<1> QED
  BY <1>1, <1>2, <1>3, PTL DEF PagesSpec

(***************************************************************************)
(* Sums over finite sets: they exist, do not depend on the order in which  *)
(* elements are taken, and grow by what is added.                          *)
(***************************************************************************)
LEMMA OverSubsets ==
  ASSUME NEW S, IsFiniteSet(S), NEW P,
         \A T \in SUBSET S : (\A U \in SUBSET T : U # T => U \in P) => T \in P
  PROVE  \A T \in SUBSET S : T \in P
<1> DEFINE Left == {T \in SUBSET S : T \notin P}
           R == StrictSubsetOrdering(S)
<1> SUFFICES ASSUME Left # {} PROVE FALSE
  OBVIOUS
<1>1. IsWellFoundedOn(R, SUBSET S)
  <2>1. FiniteSubsetsOf(S) = SUBSET S
    BY FS_FiniteSubsetsOfFinite
  <2>2. IsWellFoundedOn(StrictSubsetOrdering(S), FiniteSubsetsOf(S))
    BY FS_StrictSubsetOrderingWellFounded
  <2> QED BY <2>1, <2>2
<1>2. Left \subseteq SUBSET S
  OBVIOUS
<1>3. PICK T \in Left : \A U \in Left : ~ (<<U, T>> \in R)
  <2> HIDE DEF Left, R
  <2> QED BY <1>1, <1>2, WFMin
<1>4. T \in SUBSET S /\ T \notin P
  BY <1>3
<1>5. ASSUME NEW U \in SUBSET T, U # T PROVE U \in P
  <2>1. U \in SUBSET S
    BY <1>4
  <2>2. <<U, T>> \in R
    BY <1>4, <1>5, <2>1 DEF StrictSubsetOrdering
  <2>3. U \notin Left
    BY <1>3, <2>2
  <2> QED BY <2>1, <2>3
<1> QED BY <1>4, <1>5

LEMMA CountsUpTo ==
  ASSUME NEW n \in Nat, NEW T, 0 \in T, \A i \in 1..n : i - 1 \in T => i \in T
  PROVE  \A i \in 0..n : i \in T
<1> DEFINE Left == {i \in 0..n : i \notin T}
<1> SUFFICES ASSUME Left # {} PROVE FALSE
  OBVIOUS
<1> DEFINE R == {p \in Nat \X Nat : p[1] < p[2]}
<1>1. IsWellFoundedOn(R, Nat)
  BY NatLessThanWellFounded DEF OpToRel
<1>2. ASSUME NEW x \in Nat, NEW y \in Nat, y < x PROVE <<y, x>> \in R
  BY <1>2
<1>3. PICK x \in Left : \A y \in Left : ~ (<<y, x>> \in R)
  <2>1. Left \subseteq Nat
    OBVIOUS
  <2> HIDE DEF Left, R
  <2> QED BY <1>1, <2>1, WFMin
<1> HIDE DEF R
<1>4. x \in 0..n /\ x \notin T
  BY <1>3
<1>5. x \in Nat /\ x \in 1..n /\ x - 1 \in 0..n /\ x - 1 \in Nat /\ x - 1 < x
  BY <1>4
<1>6. x - 1 \in Left
  BY <1>4, <1>5
<1>7. <<x - 1, x>> \in R
  BY <1>2, <1>5
<1> QED BY <1>3, <1>6, <1>7

OneOf(T) == CHOOSE x \in T : TRUE

\* r[T] is the sum of q over T, for each T \subseteq S.
SumsOf(q, S, r) ==
  /\ r \in [SUBSET S -> Nat]
  /\ \A T \in SUBSET S : r[T] = IF T = {} THEN 0 ELSE q[OneOf(T)] + r[T \ {OneOf(T)}]

LEMMA OneOfIsOne ==
  ASSUME NEW T, T # {}
  PROVE  OneOf(T) \in T
BY DEF OneOf

LEMMA SumExists ==
  ASSUME NEW S, IsFiniteSet(S), NEW q, q \in [S -> Nat]
  PROVE  \E r : SumsOf(q, S, r)
<1> DEFINE N == Cardinality(S)
           Small(n) == {T \in SUBSET S : Cardinality(T) <= n}
           Sums(n, r) == /\ r \in [Small(n) -> Nat]
                         /\ \A T \in Small(n) :
                              r[T] = IF T = {} THEN 0 ELSE q[OneOf(T)] + r[T \ {OneOf(T)}]
           Summed == {n \in 0..N : \E r : Sums(n, r)}
<1>1. N \in Nat
  BY FS_CardinalityType
<1>2. ASSUME NEW T \in SUBSET S
      PROVE  Cardinality(T) \in Nat /\ Cardinality(T) <= N /\ (Cardinality(T) = 0 <=> T = {})
  <2>1. IsFiniteSet(T) /\ Cardinality(T) <= N
    BY FS_Subset
  <2> QED BY <2>1, FS_CardinalityType, FS_EmptySet
<1>3. ASSUME NEW T \in SUBSET S, T # {}
      PROVE  /\ OneOf(T) \in S /\ T \ {OneOf(T)} \in SUBSET S
             /\ Cardinality(T \ {OneOf(T)}) = Cardinality(T) - 1
  <2>1. OneOf(T) \in T
    BY <1>3, OneOfIsOne
  <2>2. IsFiniteSet(T)
    BY FS_Subset
  <2> QED BY <2>1, <2>2, FS_RemoveElement
<1>4. 0 \in Summed
  <2> DEFINE r0 == [T \in Small(0) |-> 0]
  <2>1. \A T \in Small(0) : T = {}
    BY <1>2
  <2>2. Sums(0, r0)
    BY <2>1
  <2> HIDE DEF Sums
  <2>3. \E r : Sums(0, r)
    BY <2>2
  <2> QED BY <1>1, <2>3
<1>5. ASSUME NEW n \in 1..N, n - 1 \in Summed PROVE n \in Summed
  <2>1. PICK r : Sums(n - 1, r)
    BY <1>5
  <2> DEFINE more == [T \in Small(n) |->
                       IF T \in Small(n - 1) THEN r[T] ELSE q[OneOf(T)] + r[T \ {OneOf(T)}]]
  <2>2. ASSUME NEW T \in Small(n), T # {}
        PROVE  /\ T \ {OneOf(T)} \in Small(n - 1) /\ T \ {OneOf(T)} \in Small(n)
               /\ r[T \ {OneOf(T)}] \in Nat /\ q[OneOf(T)] \in Nat
    <3>1. /\ T \in SUBSET S /\ Cardinality(T) <= n /\ Cardinality(T) \in Nat
          /\ OneOf(T) \in S /\ T \ {OneOf(T)} \in SUBSET S
          /\ Cardinality(T \ {OneOf(T)}) = Cardinality(T) - 1
      BY <1>2, <1>3, <2>2
    <3>2. Cardinality(T \ {OneOf(T)}) <= n - 1 /\ Cardinality(T \ {OneOf(T)}) <= n
      BY <1>1, <3>1
    <3> QED BY <2>1, <3>1, <3>2
  <2>3. \A T \in Small(n) : T \notin Small(n - 1) => T # {}
    <3>1. {} \in Small(n - 1)
      BY <1>1, FS_EmptySet
    <3> QED BY <3>1
  <2>4. more \in [Small(n) -> Nat]
    <3> SUFFICES ASSUME NEW T \in Small(n) PROVE more[T] \in Nat
      OBVIOUS
    <3>1. CASE T \in Small(n - 1)
      BY <2>1, <3>1
    <3>2. CASE T \notin Small(n - 1)
      <4>1. r[T \ {OneOf(T)}] \in Nat /\ q[OneOf(T)] \in Nat
        BY <2>2, <2>3, <3>2
      <4> QED BY <3>2, <4>1
    <3> QED BY <3>1, <3>2
  <2>5. ASSUME NEW T \in Small(n)
        PROVE  more[T] = IF T = {} THEN 0 ELSE q[OneOf(T)] + more[T \ {OneOf(T)}]
    <3>1. T # {} => more[T \ {OneOf(T)}] = r[T \ {OneOf(T)}]
      BY <2>2
    <3>2. CASE T \in Small(n - 1)
      BY <2>1, <3>1, <3>2
    <3>3. CASE T \notin Small(n - 1)
      BY <2>3, <3>1, <3>3
    <3> QED BY <3>2, <3>3
  <2>6. Sums(n, more)
    <3> HIDE DEF more
    <3> QED BY <2>4, <2>5
  <2> HIDE DEF Sums, more
  <2>7. \E r2 : Sums(n, r2)
    BY <2>6
  <2>8. n \in 0..N
    BY <1>1
  <2> QED BY <2>7, <2>8
<1>6. N \in Summed
  <2> HIDE DEF Summed
  <2>1. \A n \in 0..N : n \in Summed
    BY <1>1, <1>4, <1>5, CountsUpTo
  <2> QED BY <1>1, <2>1
<1>7. PICK r : Sums(N, r)
  BY <1>6
<1>8. Small(N) = SUBSET S
  BY <1>2
<1>9. SumsOf(q, S, r)
  BY <1>7, <1>8 DEF SumsOf
<1> QED BY <1>9

LEMMA SumAdds ==
  ASSUME NEW S, IsFiniteSet(S), NEW q, q \in [S -> Nat], NEW r, SumsOf(q, S, r)
  PROVE  \A T \in SUBSET S : \A x \in S \ T : r[T \cup {x}] = r[T] + q[x]
<1> DEFINE P == {T \in SUBSET S : \A x \in S \ T : r[T \cup {x}] = r[T] + q[x]}
<1>1. ASSUME NEW T \in SUBSET S, \A U \in SUBSET T : U # T => U \in P
      PROVE  T \in P
  <2> SUFFICES ASSUME NEW x \in S \ T PROVE r[T \cup {x}] = r[T] + q[x]
    OBVIOUS
  <2> DEFINE W == T \cup {x}
             c == OneOf(W)
             U == T \ {c}
  <2>1. c \in W /\ W \in SUBSET S /\ W # {}
    BY OneOfIsOne
  <2>2. r[W] = q[c] + r[W \ {c}]
    BY <2>1 DEF SumsOf
  <2>3. q[x] \in Nat /\ q[c] \in Nat /\ r[T] \in Nat /\ r[U] \in Nat
    BY <2>1 DEF SumsOf
  <2> HIDE DEF c
  <2>4. CASE c = x
    <3>1. W \ {c} = T
      BY <2>4
    <3>2. r[W] = q[x] + r[T]
      BY <2>2, <2>4, <3>1
    <3>3. \A m, n \in Nat : m + n = n + m
      OBVIOUS
    <3> QED BY <2>3, <3>2, <3>3
  <2>5. CASE c # x
    <3>1. c \in T /\ U \in SUBSET T /\ U # T /\ W \ {c} = U \cup {x} /\ U \cup {c} = T
          /\ x \in S \ U /\ c \in S \ U
      BY <2>1, <2>5
    <3>2. U \in P
      BY <1>1, <3>1
    <3>3. r[U \cup {x}] = r[U] + q[x] /\ r[U \cup {c}] = r[U] + q[c]
      BY <3>1, <3>2
    <3>4. r[W] = q[c] + (r[U] + q[x]) /\ r[T] = r[U] + q[c]
      BY <2>2, <3>1, <3>3
    <3> HIDE DEF W, U
    <3>5. r[W] = r[T] + q[x]
      BY <2>3, <3>4
    <3> QED BY <3>5 DEF W
  <2> QED BY <2>4, <2>5
<1>2. \A T \in SUBSET S : T \in P
  <2> HIDE DEF P
  <2> QED BY <1>1, OverSubsets
<1> QED BY <1>2

LEMMA SumAgrees ==
  ASSUME NEW S, NEW q, NEW r, SumsOf(q, S, r), NEW V, NEW p, NEW s, SumsOf(p, V, s),
         NEW W, IsFiniteSet(W), W \subseteq S, W \subseteq V, \A x \in W : q[x] = p[x]
  PROVE  r[W] = s[W]
<1> DEFINE P == {T \in SUBSET W : r[T] = s[T]}
<1>1. ASSUME NEW T \in SUBSET W, \A U \in SUBSET T : U # T => U \in P
      PROVE  T \in P
  <2>1. CASE T = {}
    BY <2>1 DEF SumsOf
  <2>2. CASE T # {}
    <3> DEFINE c == OneOf(T)
    <3>1. c \in T
      BY <2>2, OneOfIsOne
    <3>2. T \in SUBSET S /\ T \in SUBSET V /\ T \ {c} \in SUBSET T /\ T \ {c} # T
      BY <3>1
    <3>3. r[T] = q[c] + r[T \ {c}] /\ s[T] = p[c] + s[T \ {c}]
      BY <2>2, <3>2 DEF SumsOf
    <3>4. r[T \ {c}] = s[T \ {c}]
      BY <1>1, <3>2
    <3> QED BY <3>1, <3>3, <3>4
  <2> QED BY <2>1, <2>2
<1>2. \A T \in SUBSET W : T \in P
  <2> HIDE DEF P
  <2> QED BY <1>1, OverSubsets
<1> QED BY <1>2

(***************************************************************************)
(* What is reserved.                                                       *)
(***************************************************************************)
Reservations == [Order -> [status : OrderStatus, quantity : Nat]]
Reserving(ord) == {o \in Order : ord[o].status \in {"placed", "awaiting"}}
ReservedBy(ord) == MapThenSumSet(LAMBDA o : ord[o].quantity, Reserving(ord))
Held(r) == IF r.status \in {"placed", "awaiting"} THEN r.quantity ELSE 0

LEMMA ReservedIsSum ==
  ASSUME IsFiniteSet(Order), NEW ord \in Reservations
  PROVE  LET q == [o \in Reserving(ord) |-> ord[o].quantity]
         IN  \E r : SumsOf(q, Reserving(ord), r) /\ ReservedBy(ord) = r[Reserving(ord)]
<1> DEFINE S == Reserving(ord)
           q == [o \in S |-> ord[o].quantity]
           Is(f) == f = [s \in SUBSET S |->
                          IF s = {} THEN 0
                          ELSE ord[CHOOSE x \in s : TRUE].quantity + f[s \ {CHOOSE x \in s : TRUE}]]
           u == CHOOSE f : Is(f)
<1>1. ReservedBy(ord) = u[S]
  BY DEF ReservedBy, MapThenSumSet, MapThenFoldSet
<1>2. IsFiniteSet(S) /\ q \in [S -> Nat]
  BY FS_Subset DEF Reserving, Reservations
<1>3. PICK r : SumsOf(q, S, r)
  <2> HIDE DEF S, q
  <2> QED BY <1>2, SumExists
<1>4. Is(r)
  <2>1. \A s \in SUBSET S : s # {} => OneOf(s) \in S /\ q[OneOf(s)] = ord[OneOf(s)].quantity
    BY OneOfIsOne
  <2>2. r = [s \in SUBSET S |-> r[s]]
    BY <1>3 DEF SumsOf
  <2>3. \A s \in SUBSET S : r[s] = IF s = {} THEN 0 ELSE ord[OneOf(s)].quantity + r[s \ {OneOf(s)}]
    BY <1>3, <2>1 DEF SumsOf
  <2> QED BY <2>2, <2>3 DEF OneOf
<1>5. Is(u)
  <2> HIDE DEF Is
  <2> QED BY <1>4
<1>6. \A s \in SUBSET S : u[s] = IF s = {} THEN 0 ELSE ord[OneOf(s)].quantity + u[s \ {OneOf(s)}]
  <2> HIDE DEF u, S
  <2> QED BY <1>5 DEF OneOf
<1>7. \A s \in SUBSET S : u[s] = r[s]
  <2> DEFINE P == {s \in SUBSET S : u[s] = r[s]}
  <2>1. ASSUME NEW T \in SUBSET S, \A U \in SUBSET T : U # T => U \in P
        PROVE  T \in P
    <3>1. CASE T = {}
      BY <1>3, <1>6, <3>1 DEF SumsOf
    <3>2. CASE T # {}
      <4> DEFINE c == OneOf(T)
      <4>1. c \in T /\ c \in S
        BY <3>2, OneOfIsOne
      <4>2. T \ {c} \in SUBSET T /\ T \ {c} # T
        BY <4>1
      <4>3. r[T] = q[c] + r[T \ {c}] /\ u[T] = ord[c].quantity + u[T \ {c}]
        BY <1>3, <1>6, <3>2 DEF SumsOf
      <4>4. u[T \ {c}] = r[T \ {c}]
        BY <2>1, <4>2
      <4> QED BY <4>1, <4>3, <4>4
    <3> QED BY <3>1, <3>2
  <2>2. \A s \in SUBSET S : s \in P
    <3> HIDE DEF P, S
    <3> QED BY <1>2, <2>1, OverSubsets
  <2> QED BY <2>2
<1>8. ReservedBy(ord) = r[S]
  BY <1>1, <1>7
<1> QED BY <1>3, <1>8

\* Orders that differ in one order reserve the same but for that order.
LEMMA ReservedParts ==
  ASSUME IsFiniteSet(Order), NEW a \in Reservations, NEW b \in Reservations, NEW o \in Order,
         \A p \in Order : p # o => a[p] = b[p]
  PROVE  \E n \in Nat : ReservedBy(a) = n + Held(a[o]) /\ ReservedBy(b) = n + Held(b[o])
<1> DEFINE Q(ord) == [p \in Reserving(ord) |-> ord[p].quantity]
           Rest == Reserving(a) \ {o}
<1>1. PICK r : SumsOf(Q(a), Reserving(a), r) /\ ReservedBy(a) = r[Reserving(a)]
  BY ReservedIsSum
<1>2. PICK s : SumsOf(Q(b), Reserving(b), s) /\ ReservedBy(b) = s[Reserving(b)]
  BY ReservedIsSum
<1>3. Rest = Reserving(b) \ {o}
  BY DEF Reserving
<1>4. /\ IsFiniteSet(Reserving(a)) /\ IsFiniteSet(Reserving(b)) /\ IsFiniteSet(Rest)
      /\ Q(a) \in [Reserving(a) -> Nat] /\ Q(b) \in [Reserving(b) -> Nat]
  BY FS_Subset DEF Reserving, Reservations
<1>5. r[Rest] \in Nat /\ Rest \in SUBSET Reserving(a) /\ Rest \in SUBSET Reserving(b)
  BY <1>1, <1>3 DEF SumsOf
<1>6. ReservedBy(a) = r[Rest] + Held(a[o])
  <2>1. CASE o \in Reserving(a)
    <3>1. r[Rest \cup {o}] = r[Rest] + Q(a)[o]
      <4>1. o \in Reserving(a) \ Rest /\ Rest \in SUBSET Reserving(a)
        BY <1>5, <2>1
      <4> HIDE DEF Q, Rest
      <4> QED BY <1>1, <1>4, <4>1, SumAdds
    <3>2. Rest \cup {o} = Reserving(a) /\ Held(a[o]) = Q(a)[o]
      BY <2>1 DEF Held, Reserving
    <3> QED BY <1>1, <3>1, <3>2
  <2>2. CASE o \notin Reserving(a)
    <3>1. Rest = Reserving(a) /\ Held(a[o]) = 0
      BY <2>2 DEF Held, Reserving
    <3>2. \A m \in Nat : m + 0 = m
      OBVIOUS
    <3> HIDE DEF Q, Rest
    <3> QED BY <1>1, <1>5, <3>1, <3>2
  <2> QED BY <2>1, <2>2
<1>7. ReservedBy(b) = s[Rest] + Held(b[o])
  <2>0. s[Rest] \in Nat
    BY <1>2, <1>5 DEF SumsOf
  <2>1. CASE o \in Reserving(b)
    <3>1. s[Rest \cup {o}] = s[Rest] + Q(b)[o]
      <4>1. o \in Reserving(b) \ Rest /\ Rest \in SUBSET Reserving(b)
        BY <1>5, <2>1
      <4> HIDE DEF Q, Rest
      <4> QED BY <1>2, <1>4, <4>1, SumAdds
    <3>2. Rest \cup {o} = Reserving(b) /\ Held(b[o]) = Q(b)[o]
      BY <1>3, <2>1 DEF Held, Reserving
    <3> QED BY <1>2, <3>1, <3>2
  <2>2. CASE o \notin Reserving(b)
    <3>1. Rest = Reserving(b) /\ Held(b[o]) = 0
      BY <1>3, <2>2 DEF Held, Reserving
    <3>2. \A m \in Nat : m + 0 = m
      OBVIOUS
    <3> HIDE DEF Q, Rest
    <3> QED BY <1>2, <2>0, <3>1, <3>2
  <2> QED BY <2>1, <2>2
<1>8. r[Rest] = s[Rest]
  <2>1. \A p \in Rest : Q(a)[p] = Q(b)[p]
    BY <1>3 DEF Reserving
  <2>2. Rest \subseteq Reserving(a) /\ Rest \subseteq Reserving(b)
    BY <1>5
  <2> HIDE DEF Q, Rest
  <2> QED BY <1>1, <1>2, <1>4, <2>1, <2>2, SumAgrees
<1> QED BY <1>5, <1>6, <1>7, <1>8

(***************************************************************************)
(* The shelf.                                                              *)
(***************************************************************************)
StoreOrders == [status : OrderStatus, quantity : 0..Stock]

LEMMA ReservedNow ==
  ASSUME order \in [Order -> StoreOrders]
  PROVE  Reserved = ReservedBy(order) /\ Reserved \in Nat /\ order \in Reservations
<1>1. order \in Reservations
  BY StorefrontAssumption DEF StoreOrders, Reservations
<1>2. Reserved = ReservedBy(order)
  BY DEF Reserved, ReservedBy, Reserving
<1>3. PICK r : SumsOf([o \in Reserving(order) |-> order[o].quantity], Reserving(order), r)
               /\ ReservedBy(order) = r[Reserving(order)]
  BY <1>1, StorefrontAssumption, ReservedIsSum
<1> QED BY <1>1, <1>2, <1>3 DEF SumsOf

\* What one order holds changes, what the others hold does not.
LEMMA ReservedNext ==
  ASSUME order \in [Order -> StoreOrders], order' \in [Order -> StoreOrders], NEW o \in Order,
         \A p \in Order : p # o => order'[p] = order[p]
  PROVE  \E n \in Nat : Reserved = n + Held(order[o]) /\ Reserved' = n + Held(order'[o])
<1>1. order \in Reservations /\ order' \in Reservations
  BY StorefrontAssumption DEF StoreOrders, Reservations
<1>2. Reserved = ReservedBy(order) /\ Reserved' = ReservedBy(order')
  BY DEF Reserved, ReservedBy, Reserving, MapThenSumSet, MapThenFoldSet
<1>3. \A p \in Order : p # o => order[p] = order'[p]
  OBVIOUS
<1>4. IsFiniteSet(Order)
  BY StorefrontAssumption
<1>5. \E n \in Nat : ReservedBy(order) = n + Held(order[o]) /\ ReservedBy(order') = n + Held(order'[o])
  BY <1>1, <1>3, <1>4, ReservedParts
<1> QED BY <1>2, <1>5

LEMMA StatusChanges ==
  ASSUME order \in [Order -> StoreOrders], NEW o \in Order, NEW status \in OrderStatus,
         order' = [order EXCEPT ![o].status = status]
  PROVE  /\ order' \in [Order -> StoreOrders]
         /\ order'[o].status = status /\ order'[o].quantity = order[o].quantity
         /\ \A p \in Order : p # o => order'[p] = order[p]
BY DEF StoreOrders

\* An order that holds no more than it did leaves the shelf enough.
LEMMA ReservesNoMore ==
  ASSUME ReservedIsOnShelf, order \in [Order -> StoreOrders], order' \in [Order -> StoreOrders],
         NEW o \in Order, \A p \in Order : p # o => order'[p] = order[p],
         order'[o].status \in {"placed", "awaiting"} =>
           order[o].status \in {"placed", "awaiting"} /\ order'[o].quantity = order[o].quantity,
         shelf \in Int, UNCHANGED <<shelf, restocks>>
  PROVE  ReservedIsOnShelf'
<1>1. PICK n \in Nat : Reserved = n + Held(order[o]) /\ Reserved' = n + Held(order'[o])
  BY ReservedNext
<1>2. Held(order[o]) \in Nat /\ Held(order'[o]) \in Nat /\ Held(order'[o]) <= Held(order[o])
  BY StorefrontAssumption DEF Held, StoreOrders
<1>3. \A h, k \in Nat : k <= h => \A m \in Int : n + h <= m => n + k <= m
  OBVIOUS
<1>4. restocks = 0 => n + Held(order[o]) <= shelf
  BY <1>1 DEF ReservedIsOnShelf
<1>5. restocks = 0 => n + Held(order'[o]) <= shelf
  <2> HIDE DEF Held
  <2> QED BY <1>2, <1>3, <1>4
<1> QED BY <1>1, <1>5 DEF ReservedIsOnShelf

\* An order is placed only on what is available.
LEMMA PlacesWhatIsThere ==
  ASSUME StoreTypeOK, ReservedIsOnShelf, NEW o \in Order, PlaceOrder(o)
  PROVE  order' \in [Order -> StoreOrders] /\ ReservedIsOnShelf'
<1>1. order \in [Order -> StoreOrders] /\ shelf \in Int /\ order[o].quantity \in Int
      /\ UNCHANGED <<shelf, restocks>> /\ order[o].status = "asked"
  BY StorefrontAssumption DEF StoreTypeOK, StoreOrders, OrderStatus, PlaceOrder
<1>2. CASE order[o].quantity \in 1..Available
  <2>1. order' = [order EXCEPT ![o].status = "placed"]
    BY <1>2 DEF PlaceOrder
  <2>2. /\ order' \in [Order -> StoreOrders]
        /\ order'[o].status = "placed" /\ order'[o].quantity = order[o].quantity
        /\ \A p \in Order : p # o => order'[p] = order[p]
    BY <1>1, <2>1, StatusChanges DEF OrderStatus
  <2>3. PICK n \in Nat : Reserved = n + Held(order[o]) /\ Reserved' = n + Held(order'[o])
    BY <1>1, <2>2, ReservedNext
  <2>4. Held(order[o]) = 0 /\ Held(order'[o]) = order[o].quantity
    BY <1>1, <2>2 DEF Held
  <2>5. Reserved = n /\ Reserved' = n + order[o].quantity
    <3> HIDE DEF Held
    <3> QED BY <2>3, <2>4
  <2>6. order[o].quantity \in 1..(IF shelf > n THEN shelf - n ELSE 0)
    BY <1>2, <2>5 DEF Available
  <2>7. \A m, k \in Int : k \in 1..(IF m > n THEN m - n ELSE 0) => n + k <= m
    OBVIOUS
  <2>8. n + order[o].quantity <= shelf
    BY <1>1, <2>6, <2>7
  <2> QED BY <1>1, <2>2, <2>5, <2>8 DEF ReservedIsOnShelf
<1>3. CASE order[o].quantity \notin 1..Available
  <2>1. order' = [order EXCEPT ![o].status = "refused"]
    BY <1>3 DEF PlaceOrder
  <2>2. /\ order' \in [Order -> StoreOrders] /\ order'[o].status = "refused"
        /\ \A p \in Order : p # o => order'[p] = order[p]
    BY <1>1, <2>1, StatusChanges DEF OrderStatus
  <2> QED BY <1>1, <2>2, ReservesNoMore
<1> QED BY <1>2, <1>3

\* What is captured was reserved, and leaves the shelf as it leaves the reservations.
LEMMA CapturesWhatItHeld ==
  ASSUME StoreTypeOK, ReservedIsOnShelf, NEW o \in Order, Capture(o)
  PROVE  order' \in [Order -> StoreOrders] /\ shelf' \in 0..Stock /\ ReservedIsOnShelf'
<1>1. order \in [Order -> StoreOrders] /\ shelf \in 0..Stock /\ order[o].quantity \in 0..Stock
      /\ order[o].status = "awaiting" /\ shelf >= order[o].quantity
      /\ shelf' = shelf - order[o].quantity /\ restocks' = restocks
      /\ order' = [order EXCEPT ![o].status = "paid"]
  BY DEF StoreTypeOK, StoreOrders, OrderStatus, Capture
<1>2. /\ order' \in [Order -> StoreOrders] /\ order'[o].status = "paid"
      /\ \A p \in Order : p # o => order'[p] = order[p]
  BY <1>1, StatusChanges DEF OrderStatus
<1>3. PICK n \in Nat : Reserved = n + Held(order[o]) /\ Reserved' = n + Held(order'[o])
  BY <1>1, <1>2, ReservedNext
<1>4. Held(order[o]) = order[o].quantity /\ Held(order'[o]) = 0
  BY <1>1, <1>2 DEF Held
<1>5. Reserved = n + order[o].quantity /\ Reserved' = n
  <2> HIDE DEF Held
  <2> QED BY <1>3, <1>4
<1>6. \A m, k \in 0..Stock : m >= k => m - k \in 0..Stock /\ (n + k <= m => n <= m - k)
  BY StorefrontAssumption
<1>7. shelf' \in 0..Stock /\ (n + order[o].quantity <= shelf => n <= shelf')
  BY <1>1, <1>6
<1> QED BY <1>1, <1>2, <1>5, <1>7 DEF ReservedIsOnShelf

\* The other steps of an order hold nothing that was not held before.
LEMMA OrdersGoOn ==
  ASSUME StoreTypeOK, ReservedIsOnShelf, NEW o \in Order,
         Checkout(o) \/ OrderArrives(o) \/ CheckoutFails(o) \/ Expire(o)
  PROVE  order' \in [Order -> StoreOrders] /\ ReservedIsOnShelf'
<1>1. order \in [Order -> StoreOrders] /\ shelf \in Int /\ cart \in 0..Stock
      /\ order[o].quantity \in 0..Stock /\ UNCHANGED <<shelf, restocks>>
  BY StorefrontAssumption
  DEF StoreTypeOK, StoreOrders, OrderStatus, Checkout, OrderArrives, CheckoutFails, Expire
<1>2. CASE Checkout(o)
  <2>1. order' = [order EXCEPT ![o] = [status |-> "asked", quantity |-> cart]]
    BY <1>2 DEF Checkout
  <2>2. /\ order' \in [Order -> StoreOrders] /\ order'[o].status = "asked"
        /\ \A p \in Order : p # o => order'[p] = order[p]
    BY <1>1, <2>1 DEF StoreOrders, OrderStatus
  <2> QED BY <1>1, <2>2, ReservesNoMore
<1>3. CASE OrderArrives(o) \/ CheckoutFails(o) \/ Expire(o)
  <2>1. PICK status \in OrderStatus :
          /\ order' = [order EXCEPT ![o].status = status]
          /\ status \in {"placed", "awaiting"} => order[o].status \in {"placed", "awaiting"}
    <3>1. CASE OrderArrives(o)
      BY <3>1 DEF OrderArrives, OrderStatus
    <3>2. CASE CheckoutFails(o) /\ order[o].status = "placed"
      BY <3>2 DEF CheckoutFails, OrderStatus
    <3>3. CASE CheckoutFails(o) /\ order[o].status # "placed"
      BY <3>3 DEF CheckoutFails, OrderStatus
    <3>4. CASE Expire(o)
      BY <3>4 DEF Expire, OrderStatus
    <3> QED BY <1>3, <3>1, <3>2, <3>3, <3>4
  <2>2. /\ order' \in [Order -> StoreOrders]
        /\ order'[o].status = status /\ order'[o].quantity = order[o].quantity
        /\ \A p \in Order : p # o => order'[p] = order[p]
    BY <1>1, <2>1, StatusChanges
  <2> QED BY <1>1, <2>1, <2>2, ReservesNoMore
<1> QED BY <1>2, <1>3

\* What the page and the chain keep has its type.
PageTyped ==
  /\ usedBy \in [Tx -> Order \cup {0}] /\ chain \in [Tx -> Broadcasts]
  /\ cart \in 0..Stock /\ catalog \in 0..Stock /\ checkoutOn \in BOOLEAN
  /\ card \in [of : Order \cup {0}, paid : BOOLEAN]
  /\ pay \in [Order -> Buttons]

ShelfTyped == shelf \in 0..Stock /\ restocks \in 0..MaxRestocks /\ order \in [Order -> StoreOrders]

LEMMA StoreTypes == StoreTypeOK <=> ShelfTyped /\ PageTyped
BY DEF StoreTypeOK, ShelfTyped, PageTyped, StoreOrders, OrderStatus, Broadcasts, Buttons

LEMMA PageStaysTyped ==
  ASSUME ShelfTyped, PageTyped, [StoreNext]_storeVars
  PROVE  PageTyped'
<1>1. /\ cart \in 0..Stock /\ catalog \in 0..Stock /\ checkoutOn \in BOOLEAN
      /\ \A m \in 0..Stock : (m > 0) \in BOOLEAN
  BY DEF PageTyped
<1>2. CASE AddToCart \/ TakeFromCart \/ Restock \/ UNCHANGED storeVars
  <2>1. UNCHANGED <<usedBy, chain, catalog, card, pay>>
    BY <1>2 DEF AddToCart, TakeFromCart, Restock, storeVars, shop, buyer
  <2>2. cart' \in 0..Stock /\ checkoutOn' \in BOOLEAN
    <3>1. CASE AddToCart
      <4>1. \A m, k \in 0..Stock : m < k => m + 1 \in 0..Stock
        BY StorefrontAssumption
      <4> QED BY <1>1, <3>1, <4>1 DEF AddToCart
    <3>2. CASE TakeFromCart
      <4>1. \A m \in 0..Stock : m > 0 => m - 1 \in 0..Stock
        BY StorefrontAssumption
      <4>2. cart' \in 0..Stock
        BY <1>1, <3>2, <4>1 DEF TakeFromCart
      <4>3. checkoutOn' = (cart' > 0)
        BY <3>2 DEF TakeFromCart
      <4>4. (cart' > 0) \in BOOLEAN
        BY <1>1, <4>2
      <4> QED BY <4>2, <4>3, <4>4
    <3>3. CASE Restock \/ UNCHANGED storeVars
      BY <1>1, <3>3 DEF Restock, storeVars, buyer
    <3> QED BY <1>2, <3>1, <3>2, <3>3
  <2> QED BY <2>1, <2>2 DEF PageTyped
<1>3. ASSUME NEW o \in Order, Checkout(o) \/ PlaceOrder(o) \/ OrderArrives(o) \/ CheckoutFails(o) \/ Expire(o)
      PROVE  PageTyped'
  <2>1. UNCHANGED <<usedBy, chain, cart, catalog, pay>>
    BY <1>3 DEF Checkout, PlaceOrder, OrderArrives, CheckoutFails, Expire, buyer
  <2>2. checkoutOn' \in BOOLEAN
    BY <1>1, <1>3 DEF Checkout, PlaceOrder, OrderArrives, CheckoutFails, Expire, buyer
  <2>3. card' \in [of : Order \cup {0}, paid : BOOLEAN]
    <3>1. CASE OrderArrives(o)
      BY <3>1 DEF OrderArrives
    <3>2. CASE Checkout(o) \/ PlaceOrder(o) \/ CheckoutFails(o) \/ Expire(o)
      BY <3>2 DEF PageTyped, Checkout, PlaceOrder, CheckoutFails, Expire, buyer
    <3> QED BY <1>3, <3>1, <3>2
  <2> QED BY <2>1, <2>2, <2>3 DEF PageTyped
<1>4. ASSUME NEW o \in Order,
             PayClick(o) \/ WalletRefuses(o) \/ Confirmed(o) \/ Refused(o) \/ AlreadyPaid(o) \/ Unverified(o)
               \/ ReloadFails(o)
      PROVE  PageTyped'
  <2>1. UNCHANGED <<usedBy, chain, buyer>>
    BY <1>4 DEF PayClick, WalletRefuses, Confirmed, Refused, AlreadyPaid, Unverified, ReloadFails, shop
  <2>2. PICK at \in {"idle", "wallet", "confirming", "verifying", "verified", "done"} : GoesTo(o, at)
    BY <1>4 DEF PayClick, WalletRefuses, Confirmed, Refused, AlreadyPaid, Unverified, ReloadFails
  <2>3. pay' \in [Order -> Buttons]
    BY <2>2 DEF GoesTo, PageTyped, Buttons
  <2> QED BY <2>1, <2>3 DEF PageTyped, buyer
<1>5. ASSUME NEW o \in Order, Broadcast(o) PROVE PageTyped'
  <2>1. PICK t \in NextTx : /\ chain' = [chain EXCEPT ![t] = [order |-> o, fate |-> "pending"]]
                            /\ pay' = [pay EXCEPT ![o] = [at |-> "confirming", tx |-> t]]
    BY <1>5 DEF Broadcast
  <2>2. UNCHANGED <<shop, buyer>> /\ t \in Tx
    BY <1>5 DEF Broadcast, NextTx
  <2>3. chain' \in [Tx -> Broadcasts] /\ pay' \in [Order -> Buttons]
    BY <2>1, <2>2 DEF PageTyped, Broadcasts, Buttons
  <2> QED BY <2>2, <2>3 DEF PageTyped, shop, buyer
<1>6. ASSUME NEW o \in Order, Capture(o) PROVE PageTyped'
  <2>1. usedBy' \in [Tx -> Order \cup {0}]
    BY <1>6 DEF Capture, PageTyped
  <2>2. pay' \in [Order -> Buttons]
    BY <1>6 DEF Capture, GoesTo, PageTyped, Buttons
  <2> QED BY <1>6, <2>1, <2>2 DEF Capture, PageTyped, buyer
<1>7. ASSUME NEW o \in Order, PaidArrives(o) PROVE PageTyped'
  <2>1. pay' \in [Order -> Buttons]
    BY <1>7 DEF PaidArrives, PageTyped, Buttons
  <2>2. cart' \in 0..Stock
    BY <1>7, StorefrontAssumption DEF PaidArrives
  <2>3. card' \in [of : Order \cup {0}, paid : BOOLEAN]
    BY <1>7 DEF PaidArrives
  <2> QED BY <1>7, <2>1, <2>2, <2>3 DEF PaidArrives, PageTyped, shop
<1>8. ASSUME NEW o \in Order, Reloaded(o) PROVE PageTyped'
  <2>1. pay' \in [Order -> Buttons]
    BY <1>8 DEF Reloaded, GoesTo, PageTyped, Buttons
  <2>2. Available \in 0..Stock
    <3>1. Reserved \in Nat /\ shelf \in 0..Stock
      BY ReservedNow DEF ShelfTyped
    <3> QED BY <3>1, StorefrontAssumption DEF Available
  <2> QED BY <1>1, <1>8, <2>1, <2>2 DEF Reloaded, PageTyped, shop
<1>9. ASSUME NEW t \in Tx, Included(t) PROVE PageTyped'
  <2>1. PICK fate \in {"mined", "reverted"} : chain' = [chain EXCEPT ![t].fate = fate]
    BY <1>9 DEF Included
  <2>2. chain' \in [Tx -> Broadcasts]
    BY <2>1 DEF PageTyped, Broadcasts
  <2> QED BY <1>9, <2>2 DEF Included, PageTyped, shop, buyer
<1> QED BY <1>2, <1>3, <1>4, <1>5, <1>6, <1>7, <1>8, <1>9 DEF StoreNext

LEMMA ShelfGoesOn ==
  ASSUME StoreTypeOK, ReservedIsOnShelf, [StoreNext]_storeVars
  PROVE  StoreTypeOK' /\ ReservedIsOnShelf'
<1>1. ShelfTyped /\ PageTyped
  BY StoreTypes
<1>2. PageTyped'
  BY <1>1, PageStaysTyped
<1>3. ASSUME UNCHANGED <<shelf, order, restocks>>
      PROVE  ShelfTyped' /\ ReservedIsOnShelf'
  BY <1>1, <1>3 DEF ShelfTyped, ReservedIsOnShelf, Reserved, MapThenSumSet, MapThenFoldSet
<1>4. ASSUME Restock
      PROVE  ShelfTyped' /\ ReservedIsOnShelf'
  <2>1. \A m \in 0..MaxRestocks : m < MaxRestocks => m + 1 \in 0..MaxRestocks /\ m + 1 # 0
    BY StorefrontAssumption
  <2>2. restocks' \in 0..MaxRestocks /\ restocks' # 0
    BY <1>1, <1>4, <2>1 DEF Restock, ShelfTyped
  <2> QED BY <1>1, <1>4, <2>2 DEF Restock, ShelfTyped, ReservedIsOnShelf
<1>5. ASSUME NEW o \in Order, Checkout(o) \/ PlaceOrder(o) \/ OrderArrives(o) \/ CheckoutFails(o) \/ Expire(o)
      PROVE  ShelfTyped' /\ ReservedIsOnShelf'
  <2>1. UNCHANGED <<shelf, restocks>>
    BY <1>5 DEF Checkout, PlaceOrder, OrderArrives, CheckoutFails, Expire
  <2>2. order' \in [Order -> StoreOrders] /\ ReservedIsOnShelf'
    BY <1>5, PlacesWhatIsThere, OrdersGoOn
  <2> QED BY <1>1, <2>1, <2>2 DEF ShelfTyped
<1>6. ASSUME NEW o \in Order, Capture(o)
      PROVE  ShelfTyped' /\ ReservedIsOnShelf'
  BY <1>1, <1>6, CapturesWhatItHeld DEF ShelfTyped, Capture
<1>7. ShelfTyped' /\ ReservedIsOnShelf'
  <2>1. \/ Restock \/ UNCHANGED <<shelf, order, restocks>>
        \/ \E o \in Order : Checkout(o) \/ PlaceOrder(o) \/ OrderArrives(o) \/ CheckoutFails(o) \/ Expire(o)
                              \/ Capture(o)
    BY DEF StoreNext, storeVars, shop, AddToCart, TakeFromCart, PayClick, WalletRefuses, Broadcast, Confirmed,
           Refused, AlreadyPaid, Unverified, PaidArrives, Reloaded, ReloadFails, Included
  <2> QED BY <1>3, <1>4, <1>5, <1>6, <2>1
<1> QED
  BY <1>2, <1>7
  DEF StoreTypeOK, ShelfTyped, PageTyped, StoreOrders, OrderStatus, Broadcasts, Buttons

\* The storefront keeps its promises: an order's money is sent once and pays that
\* order, and what live orders hold is on the shelf unless the merchant changed it.
THEOREM ReservationsAreHeld == PagesSpec => []StoreInv
<1>1. PagesInit => StoreTypeOK /\ ReservedIsOnShelf
  <2> SUFFICES ASSUME PagesInit PROVE StoreTypeOK /\ ReservedIsOnShelf
    OBVIOUS
  <2>1. /\ order = [o \in Order |-> Orderless] /\ usedBy = [t \in Tx |-> 0] /\ cart = 0 /\ catalog = Stock
        /\ chain = [t \in Tx |-> [order |-> 0, fate |-> "none"]] /\ checkoutOn = FALSE
        /\ pay = [o \in Order |-> [at |-> "idle", tx |-> 0]] /\ card = NoOrder
        /\ shelf = Stock /\ restocks = 0
    BY DEF PagesInit, StoreInit
  <2>2. Orderless \in StoreOrders /\ [order |-> 0, fate |-> "none"] \in Broadcasts
        /\ [at |-> "idle", tx |-> 0] \in Buttons /\ NoOrder \in [of : Order \cup {0}, paid : BOOLEAN]
    BY StorefrontAssumption DEF Orderless, StoreOrders, OrderStatus, Broadcasts, Buttons, NoOrder
  <2>3. ShelfTyped
    BY <2>1, <2>2, StorefrontAssumption DEF ShelfTyped
  <2>4. PageTyped
    <3>0. 0 \in 0..Stock /\ Stock \in 0..Stock
      BY StorefrontAssumption
    <3>1. cart \in 0..Stock /\ catalog \in 0..Stock /\ checkoutOn \in BOOLEAN
      BY <2>1, <3>0
    <3>2. usedBy \in [Tx -> Order \cup {0}] /\ chain \in [Tx -> Broadcasts] /\ pay \in [Order -> Buttons]
      BY <2>1, <2>2
    <3>3. card \in [of : Order \cup {0}, paid : BOOLEAN]
      BY <2>1, <2>2
    <3> QED
      BY <3>1, <3>2, <3>3 DEF PageTyped
  <2>5. Reserved = 0
    <3>1. Reserving(order) = {}
      BY <2>1 DEF Reserving, Orderless
    <3>2. PICK r : SumsOf([o \in Reserving(order) |-> order[o].quantity], Reserving(order), r)
                   /\ ReservedBy(order) = r[Reserving(order)]
      BY <2>3, ReservedNow, ReservedIsSum, StorefrontAssumption DEF ShelfTyped
    <3>3. ReservedBy(order) = 0
      BY <3>1, <3>2 DEF SumsOf
    <3> QED
      BY <2>3, <3>3, ReservedNow DEF ShelfTyped
  <2>6. ReservedIsOnShelf
    BY <2>1, <2>5, StorefrontAssumption DEF ReservedIsOnShelf
  <2> QED
    BY <2>3, <2>4, <2>6, StoreTypes
<1>2. StoreTypeOK /\ ReservedIsOnShelf /\ [PagesNext]_pageVars => (StoreTypeOK /\ ReservedIsOnShelf)'
  <2>1. [PagesNext]_pageVars => [StoreNext]_storeVars
    BY DEF PagesNext, pageVars, Console, Talk, Projects, Phone, Shop, Purse
  <2> QED
    BY <2>1, ShelfGoesOn
<1>3. OneBroadcast /\ PaidByItsOwn /\ StoreTypeOK /\ ReservedIsOnShelf => StoreInv
  BY DEF StoreInv
<1> QED
  BY <1>1, <1>2, <1>3, PaymentsAreTheirOwn, PTL DEF PagesSpec
=============================================================================
