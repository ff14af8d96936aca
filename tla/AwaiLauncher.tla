---------------------------- MODULE AwaiLauncher ----------------------------
(***************************************************************************)
(* awai-launcher.js: the page that lists Awai apps.  On a public domain it *)
(* reads the registry, a domain proof and an install plan through          *)
(* PublicGateway; on 127.0.0.1 it asks the local host and also stages,     *)
(* installs and launches, and passes the operations of the app on screen.  *)
(***************************************************************************)
EXTENDS PublicGateway

CONSTANTS
  App,          \* apps with a card on the page
  MaxLoads,     \* bound: how often the list is loaded
  MaxBusy,      \* bound: requests under way when a button is pressed
  MaxVisits,    \* bound: requests of other visitors
  MaxLaunches,  \* bound: launches
  MaxOps, OpId  \* operations in flight on a port, and the ids an app uses

ASSUME LauncherAssumption ==
  /\ MaxLoads \in Nat \ {0} /\ MaxOps \in Nat \ {0}
  /\ MaxVisits \in Nat /\ MaxLaunches \in Nat

VARIABLES
  local,        \* localInstaller
  loads,        \* how often load was called: the cards on the page are of that one
  cards,        \* whether there are cards
  busy,         \* buttons that are disabled while their request is under way
  asked,        \* requests to the local host
  planReady, installOn, \* of the card: planReady, the install button enabled
  staged,       \* on the local host: the content is verified and stored
  launches,     \* how often an app was launched
  frame,        \* the port of the frame on screen, 0 for none
  open,         \* ports that are open
  inFlight,     \* the operations of each port
  visits

page  == <<loads, cards, busy, planReady, installOn>>
host  == <<asked, staged, launches, frame, open, inFlight>>
vars  == <<gateway, local, page, host, visits>>

Public == {"registry", "proof", "plan"}
Button == Public \cup {"stage", "install"} \cup App
Ports  == 1..MaxLaunches
Of(b)  == <<b, loads>>

\* The requests of the page have callers; an app is not one of the other buttons.
ASSUME ButtonAssumption ==
  /\ Public \X (1..MaxLoads) \subseteq Caller
  /\ App \cap (Public \cup {"stage", "install"}) = {}

Init ==
  /\ GatewayInit
  /\ local \in BOOLEAN
  /\ loads = 0 /\ cards = FALSE /\ busy = {}
  /\ asked = {} /\ planReady = FALSE /\ installOn = FALSE /\ staged = FALSE
  /\ launches = 0 /\ frame = 0 /\ open = {} /\ inFlight = [p \in Ports |-> {}]
  /\ visits = 0

\* fetch: through the gateway, or to the local host.
Fetch(c) ==
  IF local THEN /\ asked' = asked \cup {c}
                /\ UNCHANGED gateway
  ELSE /\ Arrive(c, Ours(c[1]))
       /\ UNCHANGED asked

(***************************************************************************)
(* The buttons.                                                            *)
(***************************************************************************)

\* load, at first and when the retry button is pressed: the cards are gone,
\* the closures of their requests go on.
Load ==
  /\ loads < MaxLoads /\ Of("registry") \notin busy
  /\ loads' = loads + 1 /\ cards' = FALSE
  /\ busy' = busy \cup {<<"registry", loads'>>}
  /\ planReady' = FALSE /\ installOn' = FALSE
  /\ Fetch(<<"registry", loads'>>)
  /\ UNCHANGED <<local, staged, launches, frame, open, inFlight, visits>>

Offered(b) ==
  \/ b = "proof"
  \/ b = "plan" /\ ~planReady
  \/ b = "stage" /\ local /\ planReady
  \/ b = "install" /\ installOn
  \/ b \in App /\ local /\ launches < MaxLaunches

Press(b) ==
  /\ cards /\ b # "registry" /\ Offered(b) /\ Of(b) \notin busy
  /\ Cardinality(busy) < MaxBusy
  /\ busy' = busy \cup {Of(b)}
  /\ installOn' = (installOn /\ b # "install")
  /\ Fetch(Of(b))
  /\ UNCHANGED <<local, loads, cards, planReady, staged, launches, frame, open, inFlight, visits>>

\* Mutant: the end of staging enables the install button, however it ended.
InstallAfter_Finally(b, v) == IF b \in {"stage", "install"} THEN TRUE ELSE installOn

\* Staged content enables the install button; a failed install does again.
InstallAfter(b, v) ==
  \/ installOn
  \/ b = "stage" /\ v = "ok"
  \/ b = "install" /\ v # "ok"

Freed(c, v) == {c}

\* What a handler does with its answer.  A handler of a card that is gone
\* writes into nodes nobody sees.
React(c, v) ==
  /\ busy' = busy \ Freed(c, v)
  /\ LET shown == c[2] = loads
     IN /\ cards' = (cards \/ (c[1] = "registry" /\ v = "ok" /\ shown))
        /\ planReady' = (planReady \/ (c[1] = "plan" /\ v = "ok" /\ shown))
        /\ installOn' = IF shown THEN InstallAfter(c[1], v) ELSE installOn
  /\ UNCHANGED <<local, loads, visits>>

\* activeHostPort.close()
Closed == open

\* A launch that is ready replaces the frame and its port; an app without a
\* cell capability gets no port.
Launched(ready, ports) ==
  IF ~ready THEN UNCHANGED <<launches, frame, open, inFlight>>
  ELSE /\ launches' = launches + 1
       /\ frame' = launches'
       /\ open' = (open \ Closed) \cup (IF ports THEN {launches'} ELSE {})
       /\ UNCHANGED inFlight

AnswerThroughGateway(c) ==
  /\ ~local /\ verdict[c] # "none" /\ c[2] # 0
  /\ React(c, verdict[c])
  /\ Answer(c, "none")
  /\ UNCHANGED <<host, active, conn, buckets, now>>

\* The host answers, or the page gives up on it; content it stored stays
\* stored, whether its answer arrives or not.
HostAnswers(c, v, ports) ==
  /\ c \in asked
  /\ asked' = asked \ {c}
  /\ staged' \in {staged \/ (c[1] = "stage" /\ v = "ok"), staged \/ (c[1] = "stage" /\ v # "refused")}
  /\ React(c, v)
  /\ Launched(c[1] \in App /\ v = "ok" /\ launches < MaxLaunches, ports)
  /\ UNCHANGED gateway

(***************************************************************************)
(* Operations of the app on screen.                                        *)
(***************************************************************************)

\* An id that is in flight, or one too many, is refused.
Accepts(p, id) == id \notin inFlight[p] /\ Cardinality(inFlight[p]) < MaxOps

Operation(p, id) ==
  /\ p \in open /\ Accepts(p, id)
  /\ inFlight' = [inFlight EXCEPT ![p] = @ \cup {id}]
  /\ UNCHANGED <<gateway, local, page, asked, staged, launches, frame, open, visits>>

\* The host answers, refuses or is not there: a reply in each case, which a
\* closed port drops.
OperationEnds(p, id) ==
  /\ id \in inFlight[p]
  /\ inFlight' = [inFlight EXCEPT ![p] = @ \ {id}]
  /\ UNCHANGED <<gateway, local, page, asked, staged, launches, frame, open, visits>>

\* Somebody else calls the gateway.
Visit(c, r) ==
  /\ ~local /\ c[2] = 0 /\ visits < MaxVisits
  /\ visits' = visits + 1
  /\ Arrive(c, r)
  /\ UNCHANGED <<local, page, host>>

VisitorAnswered(c) ==
  /\ c[2] = 0 /\ verdict[c] # "none"
  /\ Answer(c, "none")
  /\ UNCHANGED <<local, page, host, visits, active, conn, buckets, now>>

InGateway(A) == ~local /\ A /\ UNCHANGED <<local, page, host, visits>>

Next ==
  \/ Load \/ \E b \in Button : Press(b)
  \/ \E c \in Caller :
       \/ AnswerThroughGateway(c) \/ VisitorAnswered(c)
       \/ InGateway(Serve(c))
       \/ \E r \in Request : r.target = c[1] /\ Visit(c, r)
  \/ InGateway(Tick)
  \/ \E c \in asked, v \in Verdict \ {"none"}, ports \in BOOLEAN : HostAnswers(c, v, ports)
  \/ \E p \in Ports, id \in OpId : Operation(p, id) \/ OperationEnds(p, id)

\* Timers of the gateway and of the page run out, and what they caused is
\* handled; nothing is assumed of the upstream.
Fairness ==
  /\ \A c \in Caller :
       /\ WF_vars(InGateway(CallerLeaves(c))) /\ WF_vars(InGateway(AbortHeard(c)))
       /\ WF_vars(AnswerThroughGateway(c)) /\ WF_vars(VisitorAnswered(c))
  /\ \A c \in Button \X (1..MaxLoads) : WF_vars(\E v \in Verdict \ {"none"}, ports \in BOOLEAN : HostAnswers(c, v, ports))

Spec == Init /\ [][Next]_vars /\ Fairness

(***************************************************************************)
(* Properties.                                                             *)
(***************************************************************************)

\* Types and bounds; a request at the host belongs to a button that is off until it is
\* answered, and what the gateway holds is never more than its table.
TypeOK ==
  /\ GatewayTypeOK
  /\ local \in BOOLEAN /\ loads \in 0..MaxLoads /\ cards \in BOOLEAN
  /\ busy \subseteq Button \X (1..MaxLoads)
  /\ asked \subseteq busy
  /\ planReady \in BOOLEAN /\ installOn \in BOOLEAN /\ staged \in BOOLEAN
  /\ frame \in 0..MaxLaunches /\ open \subseteq Ports
  /\ inFlight \in [Ports -> SUBSET OpId] /\ visits \in 0..MaxVisits

\* The install button is only ever enabled on content the host has verified
\* and stored, also after a list was reloaded under a running request.
InstallOnlyStaged == installOn => staged /\ planReady

\* The only port that is open belongs to the app on screen, whatever order two
\* launches were answered in.
PortOfFrame == open \subseteq {frame}

\* An app never has more operations at the host than the page allows it.
OperationsBounded == \A p \in Ports : Cardinality(inFlight[p]) <= MaxOps

\* Every button that waits for an answer can be pressed again.
ButtonsReturn == \A b \in Button : []<>(\A n \in 1..MaxLoads : <<b, n>> \notin busy)

\* The gateway gives out no more than it has, to nobody more than the rate.
GatewayInv == GatewayTypeOK /\ SlotsCounted /\ AdmittedWithinRate

\* The launcher installs what is staged and serves the app on screen.
LauncherInv == TypeOK /\ InstallOnlyStaged /\ PortOfFrame /\ OperationsBounded

\* Slots and buttons that wait for an answer come back, whatever ends it.
WaitsEnd == SlotsComeBack /\ ButtonsReturn
=============================================================================
