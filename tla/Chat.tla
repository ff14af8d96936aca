-------------------------------- MODULE Chat --------------------------------
(***************************************************************************)
(* The chat page of interaction.js: one answer at a time is streamed into  *)
(* the last row of the thread, it may be stopped, asked again or left for a *)
(* new chat, and the history and the context references of the session are  *)
(* read and written meanwhile.                                              *)
(***************************************************************************)
EXTENDS Integers, Sequences

CONSTANTS
  Prompt,      \* what a person asks
  Ref,         \* context references
  MaxTurns,    \* bound: prompts sent
  MaxSessions, \* bound: chats
  MaxLoads     \* bound: histories read and contexts saved

ASSUME ChatAssumption == {MaxTurns, MaxSessions, MaxLoads} \subseteq Nat /\ MaxSessions > 0

VARIABLES
  session,      \* sessionId
  thread,       \* the rows on screen
  shownOf,      \* ghost: the session whose history or start drew the thread
  prompt,       \* the text of the composer
  lastPrompt,
  generating, controller,
  request,      \* the prompt under way
  log, savedRefs, \* on the server: messages and references of each session
  loads, loaded,  \* histories under way, as the server answered, and how many were asked for
  refs,         \* chatContextRefs
  draft, open, saving, posted, \* the context panel, and what its save posted
  turns         \* prompts sent

chatServer == <<log, savedRefs>>
screen     == <<session, thread, shownOf>>
composer   == <<prompt, lastPrompt>>
turn       == <<generating, controller, request, turns>>
history    == <<loads, loaded, refs>>
context    == <<draft, open, saving, posted>>
chatVars   == <<chatServer, screen, composer, turn, history, context>>

NoPrompt  == "no prompt"
NoRequest == [turn |-> 0, stage |-> "none", aborted |-> FALSE]

Row(role, text, of, s, t) == [role |-> role, text |-> text, prompt |-> of, session |-> s, turn |-> t]

\* The live row of the answer under way gets a text; a row that was removed gets it unseen.
Put(text) ==
  [i \in DOMAIN thread |->
     IF thread[i].turn = request.turn /\ thread[i].role = "assistant"
     THEN [thread[i] EXCEPT !.text = text] ELSE thread[i]]

ChatInit ==
  /\ session = 1 /\ thread = <<>> /\ shownOf = 1
  /\ prompt = NoPrompt /\ lastPrompt = NoPrompt
  /\ generating = FALSE /\ controller = FALSE /\ request = NoRequest /\ turns = 0
  /\ log = [s \in 1..MaxSessions |-> <<>>] /\ savedRefs = [s \in 1..MaxSessions |-> {}]
  /\ loads = {} /\ loaded = 0 /\ refs = {}
  /\ draft = {} /\ open = FALSE /\ saving = "no" /\ posted = {}

(***************************************************************************)
(* Asking.                                                                 *)
(***************************************************************************)
\* Typed, or from a suggestion card, which works while an answer is under way.
FillPrompt(p) ==
  /\ prompt' = p
  /\ UNCHANGED <<chatServer, screen, lastPrompt, turn, history, context>>

\* Mutant: the buttons under a row send whether or not an answer is under way.
MaySubmit_Always(value) == value # NoPrompt /\ turns < MaxTurns

MaySubmit(value) == value # NoPrompt /\ ~generating /\ turns < MaxTurns

\* The handler of `submit`, for the value it reads.
SubmitOf(value) ==
  /\ MaySubmit(value)
  /\ turns' = turns + 1
  /\ thread' = thread \o <<Row("user", "prompt", value, session, turns'),
                           Row("assistant", "typing", value, session, turns')>>
  /\ prompt' = NoPrompt /\ lastPrompt' = value
  /\ controller' = TRUE /\ generating' = TRUE
  /\ request' = [turn |-> turns', stage |-> "sent", session |-> session, prompt |-> value,
                 aborted |-> FALSE]
  /\ UNCHANGED <<chatServer, session, shownOf, history, context>>

Submit == SubmitOf(prompt)

\* The buttons of a row: a row of this page asks its own prompt again, a row that was
\* read from the history asks whatever was asked last.
AskAgain(i) ==
  LET row   == thread[i]
      value == IF row.turn # 0 THEN row.prompt ELSE lastPrompt
  IN  /\ row.role = "assistant" /\ row.text \in {"answer", "error"} /\ value # NoPrompt
      /\ IF generating THEN FillPrompt(value) ELSE SubmitOf(value)

(***************************************************************************)
(* The answer.                                                             *)
(***************************************************************************)
AtStage(stage) == request.stage = stage /\ ~request.aborted
Said(role) == [role |-> role, prompt |-> request.prompt]

\* The server takes the prompt into the session.
ServerTakes ==
  /\ AtStage("sent")
  /\ request' = [request EXCEPT !.stage = "taken"]
  /\ log' = [log EXCEPT ![request.session] = Append(@, Said("user"))]
  /\ UNCHANGED <<savedRefs, screen, composer, generating, controller, turns, history, context>>

\* parseStream: the first delta takes the place of the dots.
Delta ==
  /\ AtStage("taken")
  /\ request' = [request EXCEPT !.stage = "streaming"]
  /\ thread' = Put("partial")
  /\ UNCHANGED <<chatServer, session, shownOf, composer, generating, controller, turns, history, context>>

Finally == request' = NoRequest /\ controller' = FALSE /\ generating' = FALSE /\ UNCHANGED turns

\* The answer is complete, and part of the session.
Done ==
  /\ AtStage("streaming")
  /\ thread' = Put("answer")
  /\ log' = [log EXCEPT ![request.session] = Append(@, Said("assistant"))]
  /\ Finally
  /\ UNCHANGED <<savedRefs, session, shownOf, composer, history, context>>

\* What the session may have got by the time an answer has failed: the server, which
\* is not told that nobody reads, may have taken the prompt and completed the answer.
LogsAfterFailure ==
  LET asked    == IF request.stage = "sent" THEN <<Said("user")>> ELSE <<>>
      answered == Append(asked, Said("assistant"))
  IN  {[log EXCEPT ![request.session] = @ \o more] : more \in {<<>>, asked, answered}}

\* Mutant: the state is reset where the answer succeeds.
AnswerFails_NotReset ==
  /\ request # NoRequest
  /\ thread' = Put("error")
  /\ request' = NoRequest
  /\ UNCHANGED <<chatServer, session, shownOf, composer, generating, controller, turns, history, context>>

\* Stopped, refused, broken off or empty: the row says so and can be asked again.
AnswerFails ==
  /\ request # NoRequest
  /\ thread' = Put("error")
  /\ log' \in LogsAfterFailure
  /\ Finally
  /\ UNCHANGED <<savedRefs, session, shownOf, composer, history, context>>

\* The stop button and Escape.
Stop ==
  /\ controller /\ ~request.aborted
  /\ request' = [request EXCEPT !.aborted = TRUE]
  /\ UNCHANGED <<chatServer, screen, composer, generating, controller, turns, history, context>>

\* The button for a new chat: what is under way is stopped, the session is another one.
NewChat ==
  /\ session < MaxSessions
  /\ session' = session + 1 /\ shownOf' = session' /\ thread' = <<>> /\ refs' = {} /\ prompt' = NoPrompt
  /\ request' = IF controller THEN [request EXCEPT !.aborted = TRUE] ELSE request
  /\ UNCHANGED <<chatServer, lastPrompt, generating, controller, turns, loads, loaded, context>>

(***************************************************************************)
(* History and context.                                                    *)
(***************************************************************************)
Snapshot(closing) == [session |-> session, messages |-> log[session], refs |-> savedRefs[session],
                     closing |-> closing]

\* loadSession, for loadLocalProjects, which the page and changes of organisms call.
LoadSession ==
  /\ loaded < MaxLoads /\ loaded' = loaded + 1
  /\ loads' = loads \cup {Snapshot(FALSE)}
  /\ UNCHANGED <<chatServer, screen, composer, turn, refs, context>>

\* The load that ends a save closes the panel, whether or not it could be read.
Closed(l) ==
  IF l.closing THEN saving' = "no" /\ open' = FALSE /\ UNCHANGED <<draft, posted>> ELSE UNCHANGED context

\* The rows are replaced by those of the session that was asked for.
HistoryArrives(l) ==
  LET asked == {i \in DOMAIN l.messages : l.messages[i].role = "user"}
  IN  /\ loads' = loads \ {l}
      /\ thread' = [i \in DOMAIN l.messages |->
                      Row(l.messages[i].role, IF l.messages[i].role = "user" THEN "prompt" ELSE "answer",
                          l.messages[i].prompt, l.session, 0)]
      /\ shownOf' = l.session /\ refs' = l.refs
      /\ IF asked = {} THEN UNCHANGED lastPrompt
         ELSE \E i \in asked : (\A j \in asked : j <= i) /\ lastPrompt' = l.messages[i].prompt
      /\ Closed(l)
      /\ UNCHANGED <<chatServer, session, prompt, turn, loaded>>

HistoryFails(l) ==
  /\ loads' = loads \ {l}
  /\ Closed(l)
  /\ UNCHANGED <<chatServer, screen, composer, turn, loaded, refs>>

\* openContextPanel, its check boxes, and the button that closes it.
OpenContext ==
  /\ ~open
  /\ open' = TRUE /\ draft' = refs
  /\ UNCHANGED <<chatServer, screen, composer, turn, history, saving, posted>>

ChooseRef(r) ==
  /\ open
  /\ draft' = IF r \in draft THEN draft \ {r} ELSE draft \cup {r}
  /\ UNCHANGED <<chatServer, screen, composer, turn, history, open, saving, posted>>

CloseContext ==
  /\ open
  /\ open' = FALSE
  /\ UNCHANGED <<chatServer, screen, composer, turn, history, draft, saving, posted>>

\* Save: the references are posted for the session of this moment.
SaveContext ==
  /\ open /\ saving = "no" /\ loaded < MaxLoads
  /\ loaded' = loaded + 1
  /\ saving' = "post" /\ posted' = draft
  /\ savedRefs' = [savedRefs EXCEPT ![session] = draft]
  /\ UNCHANGED <<log, screen, composer, turn, loads, refs, draft, open>>

\* The answer lists what was posted, and the history is read again.
SaveArrives ==
  /\ saving = "post"
  /\ saving' = "load"
  /\ refs' = posted
  /\ loads' = loads \cup {Snapshot(TRUE)}
  /\ UNCHANGED <<chatServer, screen, composer, turn, loaded, draft, open, posted>>

SaveFails ==
  /\ saving = "post"
  /\ saving' = "no"
  /\ UNCHANGED <<chatServer, screen, composer, turn, history, draft, open, posted>>

ChatNext ==
  \/ \E p \in Prompt : FillPrompt(p)
  \/ \E i \in DOMAIN thread : AskAgain(i)
  \/ \E r \in Ref : ChooseRef(r)
  \/ \E l \in loads : HistoryArrives(l) \/ HistoryFails(l)
  \/ Submit \/ ServerTakes \/ Delta \/ Done \/ AnswerFails \/ Stop \/ NewChat
  \/ LoadSession \/ OpenContext \/ CloseContext \/ SaveContext \/ SaveArrives \/ SaveFails

\* A stream ends, or breaks off.
ChatFairness == WF_chatVars(ServerTakes \/ Delta \/ Done \/ AnswerFails)

ChatSpec == ChatInit /\ [][ChatNext]_chatVars /\ ChatFairness

(***************************************************************************)
(* Properties.                                                             *)
(***************************************************************************)
\* Types; one answer is under way exactly while the page says so and can stop it,
\* although Enter and the buttons under every row submit the form past the hidden
\* send button.
ChatTypeOK ==
  /\ session \in 1..MaxSessions /\ shownOf \in 1..session /\ turns \in 0..MaxTurns
  /\ {prompt, lastPrompt} \subseteq Prompt \cup {NoPrompt}
  /\ refs \subseteq Ref /\ draft \subseteq Ref /\ open \in BOOLEAN
  /\ saving \in {"no", "post", "load"} /\ loaded \in 0..MaxLoads
  /\ generating \in BOOLEAN /\ controller = generating /\ (generating <=> request # NoRequest)
  /\ \A i \in DOMAIN thread : thread[i].role \in {"user", "assistant"}
  /\ request # NoRequest => request.turn = turns

\* A row that shows the dots or part of an answer is the one being answered: whatever
\* stops an answer, no row is left waiting.
NothingLeftWaiting ==
  \A i \in DOMAIN thread :
    thread[i].text \in {"typing", "partial"} => request # NoRequest /\ thread[i].turn = request.turn

\* The rows of a thread are of the chat that is open, the answer that was under way when
\* the previous one was left included; unless a history that was asked for in the
\* previous chat was drawn over them.
OneConversation ==
  shownOf = session => \A i \in DOMAIN thread : thread[i].session = session

\* An answer ends, and the page can ask again.
GenerationEnds == generating ~> ~generating

\* What is on screen is one conversation that nobody waits for in vain.
ChatInv == ChatTypeOK /\ NothingLeftWaiting /\ OneConversation
=============================================================================
