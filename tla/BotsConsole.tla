---------------------------- MODULE BotsConsole ----------------------------
(***************************************************************************)
(* The Bots page of interaction.js: one conversation on screen, runs of    *)
(* several Bots streaming behind it, a timer that synchronizes the thread, *)
(* and answers of requests that land after the person has moved on.        *)
(*                                                                         *)
(* A conversation is a version number that every change increments.  What  *)
(* the page shows is the pair of a Bot and a version: whose messages they  *)
(* are, and how old.  A request is handled by the resident server at some  *)
(* moment and its answer applied at a later one, in any order.             *)
(***************************************************************************)
EXTENDS Naturals, FiniteSets

CONSTANTS
  Bot,
  None,
  MaxActs       \* bound: how often the person, or the resident, does anything

ASSUME ConsoleAssumption ==
  /\ None \notin Bot
  /\ MaxActs \in Nat

VARIABLES
  threads,       \* server: version of each Bot's conversation
  lastTurn,     \* server: the last run of each Bot and whether it is running
  named,        \* server: under whose title the name of each Bot was typed
  selected,     \* botsState.selected
  shown,        \* botsState.messages: whose, and which version
  version,      \* botsState.threadVersion
  active,       \* botsState.activeRuns
  routines,     \* botsState.routines: whose
  field,        \* botsRenameState: the Bot it was opened for, the title above it
  trajectory,   \* botsTrajectoryState
  timer,        \* botsState.syncTimer is set
  syncing,      \* botsState.syncing
  visible,      \* botsVisible(); of a hidden document the timer is only slower
  inflight,     \* requests that have not been answered to the page
  stopTimers,   \* runs whose cancellation was accepted less than 3 s ago
  stopped,      \* history: runs the person asked to stop
  aborted,      \* history: runs the page aborted
  sent,         \* run ids given out (crypto.randomUUID)
  acts          \* what the person and the resident did so far

consoleServer == <<threads, lastTurn, named>>
console == <<selected, shown, version, active, routines, field, trajectory>>
sync    == <<timer, syncing, visible>>
consoleVars ==
  <<consoleServer, console, sync, inflight, stopTimers, stopped, aborted, sent, acts>>

RunId    == 0..MaxActs   \* 0: the last run before this page was loaded
View     == [bot : Bot, ver : Nat]
Phase    == {"opening", "streaming", "answered", "polling", "ending"}
Run      == [id : RunId, goal : BOOLEAN, phase : Phase, msgs : View \cup {None}, abort : BOOLEAN]
ASSUME NoRunAssumption == None \notin Run
Kind     == {"select", "refresh", "sync", "poll", "decide", "followup", "cancel", "routines", "trajectory"}
\* ans: the conversation the server saw; None until it has handled a write
Request  == [kind : Kind, bot : Bot, run : RunId, ans : View \cup {None}, over : BOOLEAN]
NoField  == [open |-> FALSE, bot |-> None, title |-> None]
NoTrajectory == [open |-> FALSE, run |-> None, data |-> None]

Seen(b)         == [bot |-> b, ver |-> threads[b]]
\* A read is answered with what the server held when it was asked, a write
\* when the server gets to it.
Read(kind, b, r) ==
  [kind |-> kind, bot |-> b, run |-> r, ans |-> Seen(b), over |-> lastTurn[b] = [run |-> r, running |-> FALSE]]
Write(kind, b, r) == [kind |-> kind, bot |-> b, run |-> r, ans |-> None, over |-> FALSE]
Act             == acts < MaxActs /\ acts' = acts + 1
Touch(b)        == threads' = [threads EXCEPT ![b] = @ + 1]
RunOf(b, id)    == active[b] # None /\ active[b].id = id

\* Loading the page selects the Bot used last.
ConsoleInit ==
  /\ threads = [b \in Bot |-> 0]
  /\ lastTurn = [b \in Bot |-> [run |-> 0, running |-> FALSE]]
  /\ named = [b \in Bot |-> b]
  /\ selected \in Bot /\ shown = None /\ version = None
  /\ active = [b \in Bot |-> None]
  /\ routines = None /\ field = NoField /\ trajectory = NoTrajectory
  /\ timer = TRUE /\ syncing = FALSE /\ visible = TRUE
  /\ inflight = {Read("select", selected, 0)} /\ stopTimers = {} /\ stopped = {} /\ aborted = {}
  /\ sent = 0 /\ acts = 0

(***************************************************************************)
(* The resident server: what each request does when it is handled.         *)
(***************************************************************************)

\* The resident, another window or a routine adds to a conversation.
ResidentSpeaks(b) ==
  /\ Act
  /\ Touch(b)
  /\ UNCHANGED <<lastTurn, named, console, sync, inflight, stopTimers, stopped, aborted, sent>>

Handle(r) ==
  /\ r \in inflight /\ r.ans = None
  /\ threads' = [threads EXCEPT ![r.bot] =
                  IF \/ r.kind = "decide"
                     \/ r.kind \in {"cancel", "followup"} /\ lastTurn[r.bot] = [run |-> r.run, running |-> TRUE]
                  THEN @ + 1 ELSE @]
  /\ lastTurn' = IF r.kind = "cancel" /\ lastTurn[r.bot].run = r.run
             THEN [lastTurn EXCEPT ![r.bot].running = FALSE] ELSE lastTurn
  /\ inflight' = (inflight \ {r}) \cup
       {[r EXCEPT !.ans = [bot |-> r.bot, ver |-> threads'[r.bot]]]}
  /\ UNCHANGED <<named, console, sync, stopTimers, stopped, aborted, sent, acts>>

(***************************************************************************)
(* Selecting, reading and synchronizing a conversation.                    *)
(***************************************************************************)

\* Choosing a Bot closes the rename field and the trajectory of the one before
\* and asks for its messages.
SelectBot(b) ==
  /\ Act
  /\ selected' = b
  /\ routines' = None
  /\ field' = NoField
  /\ trajectory' = NoTrajectory
  /\ inflight' = inflight \cup {Read("select", b, 0)}
  /\ UNCHANGED <<consoleServer, shown, version, active, sync, stopTimers, stopped, aborted, sent>>

\* The messages arrive: neither selectBot nor refreshBotsThread looks at what
\* is selected by now.
ThreadArrives(r) ==
  /\ r \in inflight /\ r.ans # None /\ r.kind \in {"select", "refresh"}
  /\ shown' = r.ans
  /\ version' = r.ans
  /\ inflight' = inflight \ {r}
  /\ UNCHANGED <<consoleServer, selected, active, routines, field, trajectory, sync,
                 stopTimers, stopped, aborted, sent, acts>>

\* The timer fires: synchronizing starts, or is put off while another is out.
SyncTick ==
  /\ timer /\ visible
  /\ IF syncing \/ active[selected] # None
     THEN UNCHANGED <<timer, syncing, inflight>>
     ELSE /\ timer' = FALSE
          /\ syncing' = TRUE
          /\ inflight' = inflight \cup {Read("sync", selected, 0)}
  /\ UNCHANGED <<consoleServer, console, visible, stopTimers, stopped, aborted, sent, acts>>

\* Mutant: versions of two Bots are compared by their number.
SyncArrives_BareVersion(r) ==
  /\ r \in inflight /\ r.ans # None /\ r.kind = "sync"
  /\ IF selected = r.bot /\ (version = None \/ version.ver # r.ans.ver)
     THEN shown' = r.ans /\ version' = r.ans
     ELSE UNCHANGED <<shown, version>>
  /\ syncing' = FALSE
  /\ timer' = visible
  /\ inflight' = inflight \ {r}
  /\ UNCHANGED <<consoleServer, selected, active, routines, field, trajectory, visible,
                 stopTimers, stopped, aborted, sent, acts>>

\* Synchronized messages are dropped when another Bot is selected or when they
\* are the version already on screen; either way the timer is set again.
SyncArrives(r) ==
  /\ r \in inflight /\ r.ans # None /\ r.kind = "sync"
  /\ IF selected = r.bot /\ version # r.ans
     THEN shown' = r.ans /\ version' = r.ans
     ELSE UNCHANGED <<shown, version>>
  /\ syncing' = FALSE
  /\ timer' = visible
  /\ inflight' = inflight \ {r}
  /\ UNCHANGED <<consoleServer, selected, active, routines, field, trajectory, visible,
                 stopTimers, stopped, aborted, sent, acts>>

\* The person turns to another view, which stops the timer ...
Leave ==
  /\ visible
  /\ Act
  /\ visible' = FALSE /\ timer' = FALSE
  /\ UNCHANGED <<consoleServer, console, syncing, inflight, stopTimers, stopped, aborted, sent>>

\* ... and comes back, which sets it.
Return ==
  /\ ~visible
  /\ visible' = TRUE /\ timer' = TRUE
  /\ UNCHANGED <<consoleServer, console, syncing, inflight, stopTimers, stopped, aborted, sent, acts>>

(***************************************************************************)
(* Runs.                                                                   *)
(***************************************************************************)

\* Sending to a Bot whose run goes on adds a message to that run ...
FollowUp ==
  /\ active[selected] # None
  /\ Act
  /\ inflight' = inflight \cup {Write("followup", selected, active[selected].id)}
  /\ UNCHANGED <<consoleServer, console, sync, stopTimers, stopped, aborted, sent>>

FollowUpArrives(r) ==
  /\ r \in inflight /\ r.ans # None /\ r.kind = "followup"
  /\ inflight' = inflight \ {r}
  /\ UNCHANGED <<consoleServer, console, sync, stopTimers, stopped, aborted, sent, acts>>

\* ... and to a Bot without a run opens one and its stream.
Send(goal) ==
  /\ active[selected] = None
  /\ Act
  /\ sent' = sent + 1
  /\ active' = [active EXCEPT ![selected] =
                  [id |-> sent', goal |-> goal, phase |-> "opening", msgs |-> None, abort |-> FALSE]]
  /\ UNCHANGED <<consoleServer, selected, shown, version, routines, field, trajectory, sync,
                 inflight, stopTimers, stopped, aborted>>

\* The server accepts the message and starts the run ...
StreamOpens(b) ==
  /\ active[b] # None /\ active[b].phase = "opening" /\ ~lastTurn[b].running
  /\ Touch(b)
  /\ lastTurn' = [lastTurn EXCEPT ![b] = [run |-> active[b].id, running |-> TRUE]]
  /\ active' = [active EXCEPT ![b].phase = "streaming"]
  /\ UNCHANGED <<named, selected, shown, version, routines, field, trajectory, sync,
                 inflight, stopTimers, stopped, aborted, sent, acts>>

\* ... finishes it ...
RunFinishes(b) ==
  /\ lastTurn[b].running
  /\ Touch(b)
  /\ lastTurn' = [lastTurn EXCEPT ![b].running = FALSE]
  /\ UNCHANGED <<named, console, sync, inflight, stopTimers, stopped, aborted, sent, acts>>

\* ... and closes the stream with a done frame: of a goal also while the run
\* goes on in the background.
StreamCloses(b) ==
  /\ active[b] # None /\ active[b].phase = "streaming"
  /\ active[b].goal \/ ~lastTurn[b].running
  /\ active' = [active EXCEPT ![b].phase = "answered", ![b].msgs = Seen(b),
                              ![b].goal = lastTurn[b].running]
  /\ UNCHANGED <<consoleServer, selected, shown, version, routines, field, trajectory, sync,
                 inflight, stopTimers, stopped, aborted, sent, acts>>

\* The done frame puts the messages on screen if the Bot is still selected; a
\* run that is not over is polled.
StreamDone(b) ==
  /\ active[b] # None /\ active[b].phase = "answered"
  /\ shown' = IF selected = b THEN active[b].msgs ELSE shown
  /\ active' = [active EXCEPT ![b].msgs = None,
                              ![b].phase = IF active[b].goal THEN "polling" ELSE "ending"]
  /\ UNCHANGED <<consoleServer, selected, version, routines, field, trajectory, sync,
                 inflight, stopTimers, stopped, aborted, sent, acts>>

\* The stream is refused or breaks off, or a goal is polled in vain (1200
\* times, or a poll fails); what is on screen is read again.
StreamFails(b) ==
  /\ active[b] # None /\ active[b].phase \in {"opening", "streaming", "polling"}
  /\ ~\E r \in inflight : r.kind = "poll" /\ r.bot = b
  /\ active' = [active EXCEPT ![b].phase = "ending"]
  /\ inflight' = IF selected = b THEN inflight \cup {Read("refresh", b, 0)} ELSE inflight
  /\ UNCHANGED <<consoleServer, selected, shown, version, routines, field, trajectory, sync,
                 stopTimers, stopped, aborted, sent, acts>>

\* A background goal is asked for once a second; a stop is noticed only here,
\* between two questions.
Poll(b) ==
  /\ active[b] # None /\ active[b].phase = "polling"
  /\ ~\E r \in inflight : r.kind = "poll" /\ r.bot = b
  /\ IF active[b].abort
     THEN /\ active' = [active EXCEPT ![b].phase = "ending"]
          /\ inflight' = IF selected = b THEN inflight \cup {Read("refresh", b, 0)} ELSE inflight
          /\ aborted' = aborted \cup {active[b].id}
     ELSE /\ inflight' = inflight \cup {Read("poll", b, active[b].id)}
          /\ UNCHANGED <<active, aborted>>
  /\ UNCHANGED <<consoleServer, selected, shown, version, routines, field, trajectory, sync,
                 stopTimers, stopped, sent, acts>>

PollArrives(r) ==
  /\ r \in inflight /\ r.ans # None /\ r.kind = "poll"
  /\ shown' = IF selected = r.bot THEN r.ans ELSE shown
  /\ active' = IF r.over THEN [active EXCEPT ![r.bot].phase = "ending"] ELSE active
  /\ inflight' = inflight \ {r}
  /\ UNCHANGED <<consoleServer, selected, version, routines, field, trajectory, sync,
                 stopTimers, stopped, aborted, sent, acts>>

\* The list has been read again (or the thread, after a failure): the run is
\* forgotten, whatever is selected.
Forget(b) ==
  /\ active[b] # None /\ active[b].phase = "ending"
  /\ active' = [active EXCEPT ![b] = None]
  /\ UNCHANGED <<consoleServer, selected, shown, version, routines, field, trajectory, sync,
                 inflight, stopTimers, stopped, aborted, sent, acts>>

\* Stop asks the server first ...
StopRun ==
  /\ active[selected] # None
  /\ Act
  /\ inflight' = inflight \cup {Write("cancel", selected, active[selected].id)}
  /\ stopped' = stopped \cup {active[selected].id}
  /\ UNCHANGED <<consoleServer, console, sync, stopTimers, aborted, sent>>

CancelArrives(r) ==
  /\ r \in inflight /\ r.ans # None /\ r.kind = "cancel"
  /\ inflight' = inflight \ {r}
  /\ stopTimers' = stopTimers \cup {[bot |-> r.bot, run |-> r.run]}
  /\ UNCHANGED <<consoleServer, console, sync, stopped, aborted, sent, acts>>

\* Mutant: the stop timer does not compare run ids.
StopTimer_AnyRun(t) ==
  /\ t \in stopTimers
  /\ stopTimers' = stopTimers \ {t}
  /\ IF active[t.bot] # None /\ active[t.bot].phase \in {"opening", "streaming"}
     THEN /\ active' = [active EXCEPT ![t.bot].phase = "ending", ![t.bot].abort = TRUE]
          /\ aborted' = aborted \cup {active[t.bot].id}
     ELSE UNCHANGED <<active, aborted>>
  /\ UNCHANGED <<consoleServer, selected, shown, version, routines, field, trajectory, sync,
                 inflight, stopped, sent, acts>>

\* ... and aborts three seconds later what is then still the same run.
StopTimer(t) ==
  /\ t \in stopTimers
  /\ stopTimers' = stopTimers \ {t}
  /\ IF RunOf(t.bot, t.run)
     THEN /\ inflight' = inflight \cup {Read("refresh", selected, 0)}
          /\ IF active[t.bot].phase \in {"opening", "streaming"}
             THEN /\ active' = [active EXCEPT ![t.bot].phase = "ending", ![t.bot].abort = TRUE]
                  /\ aborted' = aborted \cup {active[t.bot].id}
             ELSE /\ active' = [active EXCEPT ![t.bot].abort = TRUE]
                  /\ UNCHANGED aborted
     ELSE UNCHANGED <<inflight, active, aborted>>
  /\ UNCHANGED <<consoleServer, selected, shown, version, routines, field, trajectory, sync,
                 stopped, sent, acts>>

(***************************************************************************)
(* Cards, names, routines, the trajectory.                                 *)
(***************************************************************************)

\* A decision on a card goes to the Bot that was in the header when the card
\* was drawn: the one selected now, or still the one the thread is of.
Decide(b) ==
  /\ shown # None /\ b \in {selected, shown.bot}
  /\ Act
  /\ inflight' = inflight \cup {Write("decide", b, 0)}
  /\ UNCHANGED <<consoleServer, console, sync, stopTimers, stopped, aborted, sent>>

\* Its answer replaces the messages, and nothing else.
DecideArrives(r) ==
  /\ r \in inflight /\ r.ans # None /\ r.kind = "decide"
  /\ shown' = r.ans
  /\ inflight' = inflight \ {r}
  /\ UNCHANGED <<consoleServer, selected, version, active, routines, field, trajectory, sync,
                 stopTimers, stopped, aborted, sent, acts>>

RenameOpen ==
  /\ ~field.open
  /\ Act
  /\ field' = [open |-> TRUE, bot |-> selected, title |-> selected]
  /\ UNCHANGED <<consoleServer, selected, shown, version, active, routines, trajectory, sync,
                 inflight, stopTimers, stopped, aborted, sent>>

\* Typing happens under the title that is on screen.
RenameType ==
  /\ field.open
  /\ field' = [field EXCEPT !.title = selected]
  /\ UNCHANGED <<consoleServer, selected, shown, version, active, routines, trajectory, sync,
                 inflight, stopTimers, stopped, aborted, sent, acts>>

\* Enter or blur saves the name of the Bot the field was opened for; the list
\* the answer brings is read by applyBotsOverview, which redraws what is shown.
RenameCommit ==
  /\ field.open
  /\ named' = [named EXCEPT ![field.bot] = field.title]
  /\ field' = NoField
  /\ UNCHANGED <<threads, lastTurn, selected, shown, version, active, routines, trajectory, sync,
                 inflight, stopTimers, stopped, aborted, sent, acts>>

LoadRoutines ==
  /\ Act
  /\ inflight' = inflight \cup {Read("routines", selected, 0)}
  /\ UNCHANGED <<consoleServer, console, sync, stopTimers, stopped, aborted, sent>>

RoutinesArrive(r) ==
  /\ r \in inflight /\ r.ans # None /\ r.kind = "routines"
  /\ routines' = IF selected = r.bot THEN r.bot ELSE routines
  /\ inflight' = inflight \ {r}
  /\ UNCHANGED <<consoleServer, selected, shown, version, active, field, trajectory, sync,
                 stopTimers, stopped, aborted, sent, acts>>

\* The steps of the run in the header are opened and asked for.
TrajectoryOpen ==
  /\ Act
  /\ LET run == <<selected, lastTurn[selected].run>>
     IN trajectory' = [open |-> TRUE, run |-> run,
                       data |-> IF run # trajectory.run THEN None ELSE trajectory.data]
  /\ inflight' = inflight \cup {Read("trajectory", selected, lastTurn[selected].run)}
  /\ UNCHANGED <<consoleServer, selected, shown, version, active, routines, field, sync,
                 stopTimers, stopped, aborted, sent>>

\* They are shown in the panel that is there when they arrive.
TrajectoryArrives(r) ==
  /\ r \in inflight /\ r.ans # None /\ r.kind = "trajectory"
  /\ trajectory' = [trajectory EXCEPT !.data = r.bot]
  /\ inflight' = inflight \ {r}
  /\ UNCHANGED <<consoleServer, selected, shown, version, active, routines, field, sync,
                 stopTimers, stopped, aborted, sent, acts>>

(***************************************************************************)
(* The page, and the properties it is checked for.                         *)
(***************************************************************************)

Owner ==
  \/ \E b \in Bot : SelectBot(b)
  \/ \E goal \in BOOLEAN : Send(goal)
  \/ \E b \in Bot : Decide(b)
  \/ FollowUp \/ StopRun \/ RenameOpen \/ RenameType \/ LoadRoutines \/ TrajectoryOpen
  \/ Leave

Lands(r) ==
  \/ Handle(r) \/ ThreadArrives(r) \/ SyncArrives(r) \/ PollArrives(r)
  \/ FollowUpArrives(r) \/ CancelArrives(r) \/ DecideArrives(r) \/ RoutinesArrive(r) \/ TrajectoryArrives(r)

Runs(b) ==
  \/ StreamOpens(b) \/ RunFinishes(b) \/ StreamCloses(b) \/ StreamDone(b)
  \/ Poll(b) \/ Forget(b)

ConsoleNext ==
  \/ Owner
  \/ \E r \in inflight : Lands(r)
  \/ \E b \in Bot : Runs(b) \/ StreamFails(b) \/ ResidentSpeaks(b)
  \/ \E t \in stopTimers : StopTimer(t)
  \/ SyncTick \/ Return \/ RenameCommit

ConsoleSpec == ConsoleInit /\ [][ConsoleNext]_consoleVars

\* Requests are answered, timers fire, runs go on and end, a stream that the
\* server keeps refusing fails, and the person comes back to the page.
ConsoleFairness ==
  /\ WF_consoleVars(\E r \in inflight : r.kind \notin {"sync", "poll"} /\ Lands(r))
  /\ WF_consoleVars(\E r \in inflight : SyncArrives(r))
  /\ \A b \in Bot : WF_consoleVars(\E r \in inflight : r.bot = b /\ PollArrives(r))
  /\ \A b \in Bot : WF_consoleVars(Runs(b)) /\ WF_consoleVars(StreamFails(b) /\ active[b].phase = "opening")
  /\ \A b \in Bot : WF_consoleVars(RunFinishes(b))
  /\ WF_consoleVars(SyncTick)
  /\ WF_consoleVars(Return)

ConsoleFairSpec == ConsoleSpec /\ ConsoleFairness

\* Types; the runs the page knows of are runs that were started, and a stop timer is
\* only ever set for one of them.
ConsoleTypeOK ==
  /\ threads \in [Bot -> Nat]
  /\ lastTurn \in [Bot -> [run : RunId, running : BOOLEAN]]
  /\ named \in [Bot -> Bot]
  /\ selected \in Bot
  /\ shown \in View \cup {None} /\ version \in View \cup {None}
  /\ active \in [Bot -> Run \cup {None}]
  /\ routines \in Bot \cup {None}
  /\ field \in [open : BOOLEAN, bot : Bot \cup {None}, title : Bot \cup {None}]
  /\ trajectory \in [open : BOOLEAN, run : (Bot \X RunId) \cup {None}, data : Bot \cup {None}]
  /\ timer \in BOOLEAN /\ syncing \in BOOLEAN /\ visible \in BOOLEAN
  /\ inflight \subseteq Request
  /\ stopTimers \subseteq [bot : Bot, run : RunId]
  /\ stopped \subseteq RunId /\ aborted \subseteq RunId
  /\ sent \in RunId
  /\ acts \in 0..MaxActs

\* Only a run the person asked to stop is ever aborted: the timer set by one
\* stop does not abort the run that was started after it.
AbortsOnlyStopped == aborted \subseteq stopped

\* The routines in the panel are those of the Bot in the header, whenever they
\* were asked for (the guard in loadBotRoutines).
RoutinesOfSelected == routines \in {None, selected}

\* A name typed under one Bot's title is never saved for another Bot, though
\* commit saves for the Bot the field was opened for (comment in selectBot).
NamesUnderOwnTitle == \A b \in Bot : named[b] = b

\* While the page is visible either the timer is set or a synchronization is
\* out: no order of leaving, coming back and late answers stops it for good.
PollingAlive == visible => timer \/ syncing

\* Every run leaves activeRuns, whatever was selected when it ended, whether
\* it was stopped, failed, or became a background goal: its Bot can be sent
\* to again.
RunsEnd == \A b \in Bot : active[b] # None ~> active[b] = None

\* Once the person rests, messages on screen with their version noted become
\* the newest of the Bot in the header, whatever late answer was drawn before.
Settles == <>[](shown = version => shown = Seen(selected))

\* "a trajectory left open would show the previous Bot's run under this one's
\* header" (comment in selectBot): the steps in an open panel are those of the
\* Bot in the header.
TrajectoryUnderOwnHeader == trajectory.open /\ trajectory.data # None => trajectory.data = selected

\* What a late answer, a timer or a selection may never do to the console.
ConsoleInv ==
  ConsoleTypeOK /\ AbortsOnlyStopped /\ RoutinesOfSelected /\ NamesUnderOwnTitle /\ PollingAlive
=============================================================================
