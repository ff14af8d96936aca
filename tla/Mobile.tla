------------------------------- MODULE Mobile -------------------------------
(***************************************************************************)
(* The mobile app: the guest (app.kotoba) that owns the screen's state and *)
(* asks for one effect at a time, and its host (main.mjs) that runs the    *)
(* effects: the search of the fleet, the pairing, and the commands sent to *)
(* the paired ingress.                                                     *)
(***************************************************************************)
EXTENDS Integers, FiniteSets

CONSTANTS
  Query,        \* searches a person asks for: words and a role
  Everything,   \* the search without words or a role
  MaxEffects,   \* bound: effects of one start of the app
  MaxStarts     \* bound: starts of the app

ASSUME MobileAssumption == Everything \in Query /\ MaxEffects \in Nat \ {0} /\ MaxStarts \in Nat

VARIABLES
  app,              \* the guest's state
  stored,           \* the pairing in localStorage
  requestSequence, lastEffectId,
  queued,           \* the effect whose microtask has not run, "none" for none
  searches,         \* searches under way
  commands,         \* commands under way
  facets,           \* the roles are being read
  tried,            \* commands of this start that were sent, or refused by the host
  starts

mobileHost == <<stored, requestSequence, searches, commands, facets, tried, starts>>
mobileVars == <<app, queued, lastEffectId, mobileHost>>

Pane    == {"fleet", "terminal", "about"}
Base    == {"none", "http", "https"}          \* nothing, not an HTTPS origin, an HTTPS origin
Token   == {"none", "blank", "token"}
Pairing == [base : Base, token : Token]
NoActors == "no actors"

ASSUME NoActorsAssumption == NoActors \notin Query

Trim(t) == IF t = "blank" THEN "none" ELSE t
Paired(s) == s.base # "none" /\ s.token # "none"

(***************************************************************************)
(* The guest.                                                              *)
(***************************************************************************)
\* init, and the event "pairing" with which the host starts it.
Started(pairing) ==
  [pane |-> "fleet", opened |-> FALSE, phase |-> "loading", roles |-> FALSE,
   query |-> Everything, applied |-> Everything, shown |-> NoActors,
   base |-> pairing.base, token |-> pairing.token, baseDraft |-> pairing.base, tokenDraft |-> "none",
   busy |-> FALSE, sent |-> 0, command |-> 0, effect |-> "search", effectId |-> 1]

IssueEffect(s, name) == [s EXCEPT !.effect = name, !.effectId = @ + 1]

StartSearch(s) ==
  IssueEffect([s EXCEPT !.phase = "loading", !.opened = FALSE, !.applied = s.query], "search")

PairingSaved(s) ==
  [s EXCEPT !.base = s.baseDraft, !.token = s.tokenDraft, !.tokenDraft = "none", !.effect = "none"]

RequestState(s) ==
  IssueEffect([s EXCEPT !.busy = TRUE, !.sent = @ + 1, !.command = s.effectId + 1], "terminal-request")

TerminalResult(s) == [s EXCEPT !.busy = FALSE]

FleetStart(s, list) == [s EXCEPT !.shown = list, !.opened = FALSE]
FleetCount(s) == [s EXCEPT !.phase = "ready", !.effect = "none"]
FleetError(s) == [s EXCEPT !.phase = "error", !.effect = "none"]

(***************************************************************************)
(* The host: dispatch and observeEffect.                                   *)
(***************************************************************************)
\* Mutant: an effect that is still in the state is seen again.
ObserveEffect_Again(next) ==
  IF next.effect = "none" \/ next.effectId < lastEffectId
  THEN UNCHANGED <<queued, lastEffectId>>
  ELSE queued' = next.effect /\ lastEffectId' = next.effectId

\* An effect is started once; its microtask runs before the next event.
ObserveEffect(next) ==
  IF next.effect = "none" \/ next.effectId <= lastEffectId
  THEN UNCHANGED <<queued, lastEffectId>>
  ELSE queued' = next.effect /\ lastEffectId' = next.effectId

Dispatch(next) == app' = next /\ ObserveEffect(next)

\* An event of the person at the phone.
Event(next) == starts > 0 /\ queued = "none" /\ Dispatch(next) /\ UNCHANGED mobileHost

Room == app.effectId < MaxEffects

MobileInit ==
  /\ stored = [base |-> "https", token |-> "none"]
  /\ app = Started(stored)
  /\ requestSequence = 0 /\ lastEffectId = 1 /\ queued = "none"
  /\ searches = {} /\ commands = {} /\ facets = FALSE /\ tried = 0 /\ starts = 0

OnFleet    == app.pane = "fleet" /\ ~app.opened
OnTerminal == app.pane = "terminal"

TypeQuery(q)  == OnFleet /\ q # app.query /\ Event([app EXCEPT !.query = q])
Search        == OnFleet /\ Room /\ Event(StartSearch(app))
ChangeRole(q) == OnFleet /\ app.roles /\ Room /\ Event(StartSearch([app EXCEPT !.query = q]))
OpenActor     == OnFleet /\ app.phase = "ready" /\ Event([app EXCEPT !.opened = TRUE])
ShowPane(p)   == p # app.pane /\ Event([app EXCEPT !.pane = p, !.opened = FALSE])
Back          == app.opened /\ Event([app EXCEPT !.opened = FALSE])
TypeBase(b)   == OnTerminal /\ ~Paired(app) /\ Event([app EXCEPT !.baseDraft = b])
TypeToken(t)  == OnTerminal /\ ~Paired(app) /\ Event([app EXCEPT !.tokenDraft = t])
PairSave      == OnTerminal /\ ~Paired(app) /\ Room /\ Event(IssueEffect(app, "pairing-save"))

\* A line that names an offered command; another one only adds to the transcript.
PlanTerminal == OnTerminal /\ ~app.busy /\ Paired(app) /\ Room /\ Event(RequestState(app))

(***************************************************************************)
(* The host: the microtask of an effect.                                   *)
(***************************************************************************)

SavePairing ==
  /\ queued = "pairing-save"
  /\ stored' = [base |-> Trim(app.baseDraft), token |-> Trim(app.tokenDraft)]
  /\ app' = PairingSaved(app)
  /\ queued' = "none"
  /\ UNCHANGED <<lastEffectId, requestSequence, searches, commands, facets, tried, starts>>

\* sendTerminalRequest: refused before anything is sent, or fetched.
SendCommand ==
  /\ queued = "terminal-request"
  /\ tried' = tried + 1
  /\ IF app.base = "https" /\ Trim(app.token) # "none"
     THEN commands' = commands \cup {app.effectId} /\ UNCHANGED app
     ELSE app' = TerminalResult(app) /\ UNCHANGED commands
  /\ queued' = "none"
  /\ UNCHANGED <<lastEffectId, stored, requestSequence, searches, facets, starts>>

\* loadFleet
LoadFleet ==
  /\ queued = "search"
  /\ requestSequence' = requestSequence + 1
  /\ searches' = searches \cup {[number |-> requestSequence', id |-> app.effectId, of |-> app.applied]}
  /\ queued' = "none"
  /\ UNCHANGED <<app, lastEffectId, stored, commands, facets, tried, starts>>

(***************************************************************************)
(* The host: answers.                                                      *)
(***************************************************************************)

Current(r) == r.number = requestSequence /\ r.id = app.effectId

Answered(r, next) ==
  /\ Dispatch(next)
  /\ searches' = searches \ {r}
  /\ UNCHANGED <<stored, requestSequence, commands, facets, tried, starts>>

\* A readable answer: drawn actor by actor; one that is too large ends it as an error.
FleetArrives(r) ==
  /\ queued = "none"
  /\ \E next \in IF Current(r)
                 THEN {FleetCount(FleetStart(app, r.of)), FleetError(FleetStart(app, r.of))}
                 ELSE {app} : Answered(r, next)

\* Another status, an answer that cannot be read, or none.
FleetFails(r) ==
  /\ queued = "none"
  /\ Answered(r, IF r.number = requestSequence THEN FleetError(app) ELSE app)

\* loadRoleFacets: the roles, or nothing.
FacetsArrive ==
  /\ queued = "none" /\ facets
  /\ facets' = FALSE
  /\ \E known \in BOOLEAN : Dispatch([app EXCEPT !.roles = known])
  /\ UNCHANGED <<stored, requestSequence, searches, commands, tried, starts>>

\* An answer or a failure is told to the guest while its effect is the latest one.
CommandReturns(id) ==
  /\ queued = "none" /\ id \in commands
  /\ commands' = commands \ {id}
  /\ Dispatch(IF app.effectId = id THEN TerminalResult(app) ELSE app)
  /\ UNCHANGED <<stored, requestSequence, searches, facets, tried, starts>>

\* A person starts the app; the system may have ended it at any point.
StartApp ==
  /\ starts < MaxStarts
  /\ starts' = starts + 1
  /\ app' = Started(stored)
  /\ requestSequence' = 0 /\ lastEffectId' = 1 /\ queued' = "search"
  /\ searches' = {} /\ commands' = {} /\ facets' = TRUE /\ tried' = 0
  /\ UNCHANGED stored

Person ==
  \/ \E q \in Query : TypeQuery(q) \/ ChangeRole(q)
  \/ \E p \in Pane : ShowPane(p)
  \/ \E b \in Base : TypeBase(b)
  \/ \E t \in Token : TypeToken(t)
  \/ Search \/ OpenActor \/ Back \/ PairSave \/ PlanTerminal \/ StartApp

Host ==
  \/ SavePairing \/ SendCommand \/ LoadFleet \/ FacetsArrive
  \/ \E r \in searches : FleetArrives(r) \/ FleetFails(r)
  \/ \E id \in commands : CommandReturns(id)

MobileNext == Person \/ Host

\* Microtasks run, and requests end.
MobileFairness == WF_mobileVars(Host)

MobileSpec == MobileInit /\ [][MobileNext]_mobileVars /\ MobileFairness

(***************************************************************************)
(* Properties.                                                             *)
(***************************************************************************)
\* Types and bounds; one command at a time is under way, whether it is sent with
\* the button or with Enter, and whatever is searched for meanwhile.
MobileTypeOK ==
  /\ app.pane \in Pane /\ app.opened \in BOOLEAN /\ app.phase \in {"loading", "ready", "error"}
  /\ app.roles \in BOOLEAN /\ {app.query, app.applied} \subseteq Query
  /\ app.shown \in Query \cup {NoActors}
  /\ {app.base, app.baseDraft} \subseteq Base /\ {app.token, app.tokenDraft} \subseteq Token
  /\ app.busy \in BOOLEAN /\ app.effectId \in 1..MaxEffects
  /\ app.effect \in {"none", "search", "pairing-save", "terminal-request"}
  /\ stored \in Pairing /\ starts \in 0..MaxStarts
  /\ requestSequence <= lastEffectId /\ lastEffectId = app.effectId
  /\ \A r \in searches : r.number \in 1..requestSequence /\ r.id \in 1..lastEffectId
  /\ Cardinality(commands) <= 1 /\ (app.opened => app.shown # NoActors)

\* Every line the transcript shows as sent was tried once: an effect that stays in
\* the guest's state is not run again by the events that follow it, so no message
\* is posted twice.
SentOnce ==
  tried + (IF queued = "terminal-request" THEN 1 ELSE 0) = app.sent

\* A list that is shown as read answers the search in force, in whichever order the
\* answers of several searches arrive and whatever else was asked for in between.
FleetIsOfItsSearch ==
  app.phase = "ready" => app.shown = app.applied

\* What is in force is what the next start will read, but for a token of blanks.
PairingIsStored ==
  stored = [base |-> app.base, token |-> Trim(app.token)]

\* The screen waits for effect n, and n is the latest one.
Awaited(n) ==
  /\ starts > 0 /\ app.effectId = n
  /\ \/ app.busy /\ app.command = n
     \/ app.phase = "loading" /\ app.effect = "search"

\* A search or a command ends on the screen unless another effect is asked for first.
\* (If one is, the search stays on "loading" and the terminal busy: CommandIsAwaited.)
EffectsEnd == \A n \in 1..MaxEffects : Awaited(n) ~> ~Awaited(n)

\* The terminal is busy only while a command is out; README.md of mobile/ has it that
\* "a request that went out and did not come back" is told apart from the others.
CommandIsAwaited ==
  app.busy => commands # {} \/ queued = "terminal-request"

\* Effects happen once, for the state that asked for them.
MobileInv == MobileTypeOK /\ SentOnce /\ FleetIsOfItsSearch /\ PairingIsStored
=============================================================================
