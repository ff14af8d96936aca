---------------------------- MODULE AgencyTools ----------------------------
(* The agency bots' MCP tools (agency_tools.mjs): an owner signs exact        *)
(* actions outside the bot, processes of the bot carry them out by calls to   *)
(* a mail provider (JMAP or Resend) and to the bot's own event repository.    *)
(* A signature is valid for a while and is never used up, so a call may be    *)
(* repeated, by one process or by two, and any answer may be lost: what keeps *)
(* an effect from happening twice is the provider's state and its memory of   *)
(* keys.  Every process serves one call at a time (itonami-agency-mcp.mjs).   *)
EXTENDS Naturals, FiniteSets

CONSTANTS Node,        \* processes that serve the same bot
          Life,        \* how long a grant is valid
          Age,         \* how old an action may be when it is submitted
          Window,      \* how long the provider remembers an idempotency key
          PageLimit,   \* events on one page of the repository
          MaxPages,    \* pages a preflight reads before it gives up
          MaxNow, MaxGrants, MaxDrafts, Op, Key     \* bounds

(* An action is signed within Age of its date and carried out within Life of  *)
(* the signature, all of it while the provider still remembers the key.       *)
ASSUME AgencyAssumption ==
  /\ {Life, Age, Window, PageLimit, MaxPages} \subseteq Nat \ {0}
  /\ Age + Life <= Window + 1
  /\ Key \subseteq Nat \ {0} /\ Op \subseteq Nat     \* 0 is the cursor of the first page
  /\ {MaxNow, MaxGrants, MaxDrafts} \subseteq Nat

VARIABLES now,
          transport,   \* the host's configuration: "jmap" or "resend"
          pds,         \* how the event repository pages
          grants,      \* the signed envelopes handed to the bot
          call,        \* what each process is doing
          events,      \* records of the event repository: [key, kind]
          mail,        \* the JMAP account
          sent,        \* how often the provider sent a draft
          posted       \* per operation: when its key was taken and how often it was sent

agencyVars == <<now, transport, pds, grants, call, events, mail, sent, posted>>

Draft == 1..MaxDrafts
Never == MaxNow + 1
NoCall == [step |-> "idle"]
Suppressed == \E e \in events : e.kind = "suppression"

(* createAgency refuses a configuration that grants a tool of the other mail  *)
(* transport, and agency-authorize.mjs signs only tools that are granted.      *)
Tools == {"suppression", "lead"}
         \cup IF transport = "jmap" THEN {"draft", "send"} ELSE {"submit"}

Act == [tool : {"draft", "send", "submit", "suppression", "lead"}, id : Nat, state : Nat]

(* Types; a call under way works with a grant that was signed for the         *)
(* transport in use, and a key of the repository has one event.               *)
AgencyTypeOK ==
  /\ now \in 0..MaxNow
  /\ transport \in {"jmap", "resend"}
  /\ pds \in {"cursor", "bounded", "stuck"}
  /\ \A g \in grants : g.act \in Act /\ g.from \in 0..now
  /\ \A g \in grants : g.act.tool = "submit" => transport = "resend"
  /\ \A g \in grants : g.act.tool \in {"draft", "send"} => transport = "jmap"
  /\ \A n \in Node : call[n] # NoCall =>
       \/ call[n].step = "readback"
       \/ /\ call[n].step \in {"email", "pages", "history", "effect", "prior"}
          /\ call[n].grant \in grants
          /\ call[n].seen \subseteq Key /\ Cardinality(call[n].seen) <= MaxPages
  /\ \A e, f \in events : e.key = f.key => e = f
  /\ mail.drafts \in SUBSET Draft /\ mail.flagged \subseteq mail.drafts
  /\ mail.submissions \subseteq mail.drafts

AgencyInit ==
  /\ now = 0 /\ grants = {} /\ events = {}
  /\ transport \in {"jmap", "resend"}
  /\ pds \in {"cursor", "bounded", "stuck"}
  /\ call = [n \in Node |-> NoCall]
  /\ mail = [emailState |-> 0, subState |-> 0, drafts |-> {}, flagged |-> {},
             submissions |-> {}, origin |-> [d \in Draft |-> MaxNow],
             discarded |-> FALSE, flagKept |-> FALSE]
  /\ sent = [d \in Draft |-> 0]
  /\ posted = [o \in Op |-> [at |-> Never, times |-> 0]]

-----------------------------------------------------------------------------
(* The owner.  agency-authorize.mjs signs the exact arguments: a draft names   *)
(* the mail state it was written against, a send its draft and the submission  *)
(* state, a submission its operation and its date.  An event's key is a MAC of *)
(* the arguments and of the signature: one key per signature, spread over the  *)
(* key space.                                                                  *)
Signable ==
  LET keys == Key \ {g.act.id : g \in {h \in grants : h.act.tool \in {"suppression", "lead"}}}
      fresh == {o \in Op : \A g \in grants : g.act.tool = "submit" => g.act.id # o}
  IN  {act \in [tool : {"suppression", "lead"}, id : keys, state : {0}]
              \cup [tool : {"draft"}, id : {0}, state : {mail.emailState}]
              \cup [tool : {"send"}, id : mail.drafts, state : {mail.subState}]
              \cup [tool : {"submit"}, id : fresh, state : {now}] : act.tool \in Tools}

Sign(act) ==
  /\ Cardinality(grants) < MaxGrants
  /\ \/ act \in Signable
     \/ /\ act.tool \in {"draft", "send", "submit"}     \* the same action, signed again
        /\ \E g \in grants : g.act = act /\ g.from < now
  /\ grants' = grants \cup {[act |-> act, from |-> now]}
  /\ UNCHANGED <<now, transport, pds, call, events, mail, sent, posted>>

Tick ==
  /\ now < MaxNow
  /\ now' = now + 1
  /\ UNCHANGED <<transport, pds, grants, call, events, mail, sent, posted>>

-----------------------------------------------------------------------------
(* A call begins, and is authorised a first time before anything is read.     *)
Authorized(g) == g.from <= now /\ now < g.from + Life

TooOld(act) == act.tool = "submit" /\ now - act.state >= Age

FirstStep(act) == CASE act.tool = "draft" -> "effect"
                    [] act.tool = "send" -> "email"
                    [] act.tool = "submit" -> "pages"
                    [] OTHER -> "prior"

Begin(n, g) ==
  /\ call[n] = NoCall /\ g \in grants
  /\ Authorized(g) /\ ~TooOld(g.act)
  /\ call' = [call EXCEPT ![n] = [step |-> FirstStep(g.act), grant |-> g, cursor |-> 0,
                                  seen |-> {}, warned |-> Suppressed]]
  /\ UNCHANGED <<now, transport, pds, grants, events, mail, sent, posted>>

(* A call ends: with its answer, with a refusal, or because a request was not *)
(* answered (transport_outcome_unknown_do_not_retry_writes).                  *)
Ends(n) == call' = [call EXCEPT ![n] = NoCall]
Goes(n, step) == call' = [call EXCEPT ![n].step = step, ![n].cursor = 0, ![n].seen = {}]

\* A read that fails ends the call; nothing is written before the effect.
ReadFails(n) ==
  /\ call[n] # NoCall /\ call[n].step # "effect"
  /\ Ends(n)
  /\ UNCHANGED <<now, transport, pds, grants, events, mail, sent, posted>>

-----------------------------------------------------------------------------
(* The repository's pages, in key order.  The owner of the repository may     *)
(* serve cursors, serve one bounded page without any, or answer the same page *)
(* and cursor again.                                                          *)
FirstPage(es) == {e \in es : Cardinality({f \in es : f.key < e.key}) < PageLimit}
PageAfter(c) == FirstPage(IF pds = "cursor" THEN {e \in events : e.key > c} ELSE events)
CursorOf(page) ==
  IF pds = "bounded" \/ Cardinality(page) < PageLimit THEN 0
  ELSE CHOOSE k \in Key : (\E e \in page : e.key = k) /\ \A e \in page : e.key <= k

\* Mutant: a full page without a cursor counts as the end of the history.
PageComplete_Full(page) == CursorOf(page) = 0
PageComplete(page) == CursorOf(page) = 0 /\ Cardinality(page) < PageLimit

Followed(c, cursor) == cursor \notin c.seen /\ Cardinality(c.seen) + 1 <= MaxPages

AfterPages(act) == IF act.tool = "send" THEN "history" ELSE "effect"

(* One round of the suppression preflight.                                    *)
ReadPage(n) ==
  LET c == call[n]
      page == PageAfter(c.cursor)
      cursor == CursorOf(page)
      refused == \/ cursor = 0 /\ ~PageComplete(page)
                 \/ \E e \in page : e.kind = "suppression"
                 \/ ~Followed(c, cursor)
  IN  /\ c # NoCall /\ c.step = "pages"
      /\ \/ /\ refused
            /\ Ends(n)
         \/ /\ ~refused /\ cursor = 0
            /\ Goes(n, AfterPages(c.grant.act))
         \/ /\ ~refused /\ cursor # 0
            /\ call' = [call EXCEPT ![n].cursor = cursor, ![n].seen = @ \cup {cursor}]
      /\ UNCHANGED <<now, transport, pds, grants, events, mail, sent, posted>>

-----------------------------------------------------------------------------
(* agency_mail_send reads the draft, then the suppressions, then what was      *)
(* submitted already.  The hash covers the keywords, so a draft whose $draft   *)
(* keyword was cleared is refused twice over.                                  *)
Unsent(d) == d \in mail.flagged

ReadEmail(n) ==
  /\ call[n] # NoCall /\ call[n].step = "email"
  /\ IF Unsent(call[n].grant.act.id) THEN Goes(n, "pages") ELSE Ends(n)
  /\ UNCHANGED <<now, transport, pds, grants, events, mail, sent, posted>>

ReadHistory(n) ==
  /\ call[n] # NoCall /\ call[n].step = "history"
  /\ LET act == call[n].grant.act
     IN  IF act.state = mail.subState /\ act.id \notin mail.submissions
         THEN Goes(n, "effect") ELSE Ends(n)
  /\ UNCHANGED <<now, transport, pds, grants, events, mail, sent, posted>>

(* createRecord reads the record's key first: what is there already is        *)
(* verified and not written again.                                            *)
ReadPrior(n) ==
  /\ call[n] # NoCall /\ call[n].step = "prior"
  /\ IF \E e \in events : e.key = call[n].grant.act.id THEN Ends(n) ELSE Goes(n, "effect")
  /\ UNCHANGED <<now, transport, pds, grants, events, mail, sent, posted>>

-----------------------------------------------------------------------------
(* The effect.  The grant is authorised again, and the request leaves in the  *)
(* same turn; its answer arrives, or is lost after the provider acted, or the *)
(* request is lost before.                                                    *)
StillAuthorized(g) == Authorized(g)

ReadyFor(n, tools) ==
  call[n] # NoCall /\ call[n].step = "effect" /\ call[n].grant.act.tool \in tools

RefusedCall(n) ==
  /\ call[n] # NoCall /\ call[n].step = "effect"
  /\ Ends(n)                       \* no longer authorised, refused or lost on the way
  /\ UNCHANGED <<now, transport, pds, grants, events, mail, sent, posted>>

Answered(n) == \/ Ends(n)
               \/ call' = [call EXCEPT ![n] = [step |-> "readback"]]

InState(state, current) == state = current

EmailSet(n) ==
  LET g == call[n].grant
      d == CHOOSE d \in Draft : d \notin mail.drafts
  IN  /\ ReadyFor(n, {"draft"}) /\ StillAuthorized(g)
      /\ InState(g.act.state, mail.emailState)
      /\ mail.drafts # Draft
      /\ mail' = [mail EXCEPT !.emailState = @ + 1, !.drafts = @ \cup {d},
                              !.flagged = @ \cup {d}, !.origin[d] = g.act.state]
      /\ Answered(n)
      /\ UNCHANGED <<now, transport, pds, grants, events, sent, posted>>

(* The provider clears $draft in a second step of the same request, which may *)
(* fail on its own.                                                           *)
\* Mutant: the submission does not carry the state its history was read in.
SubmissionInState_Any(act) == TRUE
SubmissionInState(act) == act.state = mail.subState

SubmissionSet(n) ==
  LET g == call[n].grant
      d == g.act.id
  IN  /\ ReadyFor(n, {"send"}) /\ StillAuthorized(g)
      /\ SubmissionInState(g.act)
      /\ sent' = [sent EXCEPT ![d] = @ + 1]
      /\ \E cleared \in BOOLEAN :
           mail' = [mail EXCEPT !.subState = @ + 1, !.submissions = @ \cup {d},
                                !.emailState = IF cleared THEN @ + 1 ELSE @,
                                !.flagged = IF cleared THEN @ \ {d} ELSE @,
                                !.flagKept = @ \/ ~cleared]
      /\ Answered(n)
      /\ UNCHANGED <<now, transport, pds, grants, events, posted>>

(* Resend answers a key it remembers with the message it already sent.        *)
PostEmail(n) ==
  LET g == call[n].grant
      p == posted[g.act.id]
      known == p.times > 0 /\ now < p.at + Window
  IN  /\ ReadyFor(n, {"submit"}) /\ StillAuthorized(g)
      /\ posted' = IF known THEN posted
                   ELSE [posted EXCEPT ![g.act.id] = [at |-> now, times |-> p.times + 1]]
      /\ Answered(n)
      /\ UNCHANGED <<now, transport, pds, grants, events, mail, sent>>

CreateRecord(n) ==
  LET g == call[n].grant
  IN  /\ ReadyFor(n, {"suppression", "lead"}) /\ StillAuthorized(g)
      /\ events' = events \cup {[key |-> g.act.id, kind |-> g.act.tool]}
      /\ Answered(n)
      /\ UNCHANGED <<now, transport, pds, grants, mail, sent, posted>>

Readback(n) ==
  /\ call[n] # NoCall /\ call[n].step = "readback"
  /\ Ends(n)
  /\ UNCHANGED <<now, transport, pds, grants, events, mail, sent, posted>>

(* A provider may discard submissions it has delivered.                       *)
Discard(d) ==
  /\ d \in mail.submissions
  /\ mail' = [mail EXCEPT !.submissions = @ \ {d}, !.subState = @ + 1, !.discarded = TRUE]
  /\ UNCHANGED <<now, transport, pds, grants, call, events, sent, posted>>

-----------------------------------------------------------------------------
Step(n) == \/ ReadFails(n) \/ ReadPage(n) \/ ReadEmail(n) \/ ReadHistory(n) \/ ReadPrior(n)
           \/ RefusedCall(n) \/ EmailSet(n) \/ SubmissionSet(n) \/ PostEmail(n)
           \/ CreateRecord(n) \/ Readback(n)

AgencyNext ==
  \/ Tick
  \/ \E act \in Signable \cup {g.act : g \in grants} : Sign(act)
  \/ \E n \in Node : Step(n) \/ \E g \in grants : Begin(n, g)
  \/ \E d \in Draft : Discard(d)

AgencySpec == AgencyInit /\ [][AgencyNext]_agencyVars

-----------------------------------------------------------------------------
(* A draft is handed to the recipient once, however often its grants are used *)
(* and by however many processes, as long as the provider keeps one of its    *)
(* two records of it: the submission, or the cleared $draft keyword.          *)
SubmittedOnce ==
  ~(mail.discarded /\ mail.flagKept) => \A d \in Draft : sent[d] <= 1

(* An operation submitted through Resend is mailed once: a repetition that is *)
(* still authorised falls in the day for which the provider remembers its key.*)
ResentOnce == \A o \in Op : posted[o].times <= 1

(* One approved action saves one draft: the mail state it was written against *)
(* is over once it was used.                                                  *)
OneDraftPerAction ==
  \A d, e \in mail.drafts : mail.origin[d] = mail.origin[e] => d = e

(* A message is never mailed by a call that began when the recipient was      *)
(* already on the suppression list, however the repository pages its events.  *)
SuppressedNotMailed ==
  [][\A n \in Node : (sent' # sent \/ posted' # posted) /\ call'[n] # call[n]
        => ~call[n].warned]_agencyVars

(* What was signed once happens once, whatever is repeated.                   *)
AgencyInv == AgencyTypeOK /\ SubmittedOnce /\ ResentOnce /\ OneDraftPerAction
=============================================================================
