------------------------ MODULE Correspondence_proofs ------------------------
(***************************************************************************)
(* What Correspondence keeps of every message that leaves in somebody's    *)
(* name: what an owner signed happens once (AgencyTools), for any number   *)
(* of processes, grants, drafts, operations and events; and sealed         *)
(* messages open, each under a key of its own that is then forgotten       *)
(* (Messenger), for any conversations, slots, prekeys and messages.        *)
(***************************************************************************)
EXTENDS Correspondence, TLAPS, FiniteSetTheorems, WellFoundedInduction

\* A family of subsets of a finite set has a minimal member.
LEMMA Minimal ==
  ASSUME NEW S, IsFiniteSet(S), NEW F, F \subseteq SUBSET S, F # {}
  PROVE  \E x \in F : \A y \in F : y \subseteq x => y = x
<1>1. F \subseteq FiniteSubsetsOf(S)
  BY FS_FiniteSubsetsOfFinite
<1>2. PICK x \in F : \A y \in F : ~ (<<y, x>> \in StrictSubsetOrdering(S))
  BY <1>1, WFMin, FS_StrictSubsetOrderingWellFounded
<1>3. ASSUME NEW y \in F, y \subseteq x, y # x PROVE <<y, x>> \in StrictSubsetOrdering(S)
  <2> DEFINE pr == <<y, x>>
  <2>1. pr \in (SUBSET S) \X (SUBSET S) /\ pr[1] \subseteq pr[2] /\ pr[1] # pr[2]
    BY <1>3
  <2> HIDE DEF pr
  <2>2. pr \in StrictSubsetOrdering(S)
    BY <2>1 DEF StrictSubsetOrdering
  <2> QED BY <2>2 DEF pr
<1>4. ASSUME NEW y \in F, y \subseteq x PROVE y = x
  <2>1. ~ (<<y, x>> \in StrictSubsetOrdering(S))
    BY <1>2
  <2> QED BY <1>3, <1>4, <2>1
<1> QED BY <1>4

Keyed(es) == IsFiniteSet(es) /\ \A e \in es : e.key \in Nat
Before(es, e) == {f \in es : f.key < e.key}

\* Events that are not on a page come after all that are.
LEMMA PageIsFirst ==
  ASSUME AgencyAssumption, NEW es, Keyed(es), NEW e \in es \ FirstPage(es), NEW x \in FirstPage(es)
  PROVE  x.key < e.key
<1> SUFFICES ASSUME e.key <= x.key PROVE FALSE
  BY DEF Keyed, FirstPage
<1>1. Before(es, e) \subseteq Before(es, x)
  BY DEF Keyed, Before, FirstPage
<1>2. IsFiniteSet(Before(es, x)) /\ Before(es, x) \subseteq es
  BY FS_Subset DEF Keyed, Before
<1>3. /\ Cardinality(Before(es, e)) <= Cardinality(Before(es, x))
      /\ Cardinality(Before(es, e)) \in Nat /\ Cardinality(Before(es, x)) \in Nat
  BY <1>1, <1>2, FS_Subset, FS_CardinalityType
<1>4. Cardinality(Before(es, x)) < PageLimit /\ ~(Cardinality(Before(es, e)) < PageLimit)
  BY DEF FirstPage, Before
<1> QED BY <1>3, <1>4 DEF AgencyAssumption

\* A page that is not full is all there is.
LEMMA PageIsWhole ==
  ASSUME AgencyAssumption, NEW es, Keyed(es), Cardinality(FirstPage(es)) < PageLimit
  PROVE  FirstPage(es) = es
<1> SUFFICES ASSUME es \ FirstPage(es) # {} PROVE FALSE
  BY DEF FirstPage
<1>1. PICK b \in {Before(es, e) : e \in es \ FirstPage(es)} :
        \A y \in {Before(es, e) : e \in es \ FirstPage(es)} : y \subseteq b => y = b
  <2> DEFINE F == {Before(es, e) : e \in es \ FirstPage(es)}
  <2>1. F \subseteq SUBSET es /\ F # {} /\ IsFiniteSet(es)
    BY DEF Keyed, Before
  <2> HIDE DEF F
  <2>2. \E b \in F : \A y \in F : y \subseteq b => y = b
    BY <2>1, Minimal
  <2> QED BY <2>2 DEF F
<1>2. PICK e \in es \ FirstPage(es) : b = Before(es, e)
  BY <1>1
<1>3. Before(es, e) \subseteq FirstPage(es)
  <2> SUFFICES ASSUME NEW f \in Before(es, e), f \notin FirstPage(es) PROVE FALSE
    OBVIOUS
  <2>1. f \in es /\ f.key < e.key /\ f.key \in Nat /\ e.key \in Nat
    BY DEF Before, Keyed
  <2>2. Before(es, f) \subseteq Before(es, e)
    BY <2>1 DEF Before, Keyed
  <2>3. Before(es, f) = Before(es, e)
    BY <1>1, <1>2, <2>1, <2>2
  <2> QED BY <2>1, <2>3 DEF Before
<1>4. IsFiniteSet(FirstPage(es)) /\ Cardinality(FirstPage(es)) \in Nat
  BY FS_Subset, FS_CardinalityType DEF FirstPage, Keyed
<1>5. /\ Cardinality(Before(es, e)) <= Cardinality(FirstPage(es))
      /\ Cardinality(Before(es, e)) \in Nat
  BY <1>3, <1>4, FS_Subset, FS_CardinalityType
<1>6. ~(Cardinality(Before(es, e)) < PageLimit)
  BY <1>2 DEF FirstPage, Before
<1> QED BY <1>4, <1>5, <1>6 DEF AgencyAssumption

After(es, e) == {f \in es : e.key < f.key}

\* The last key of a page is a key of the page.
LEMMA LastOfPage ==
  ASSUME NEW pg, Keyed(pg), pg # {}
  PROVE  \E e \in pg : \A f \in pg : f.key <= e.key
<1>1. PICK b \in {After(pg, e) : e \in pg} :
        \A y \in {After(pg, e) : e \in pg} : y \subseteq b => y = b
  <2> DEFINE F == {After(pg, e) : e \in pg}
  <2>1. F \subseteq SUBSET pg /\ F # {} /\ IsFiniteSet(pg)
    BY DEF Keyed, After
  <2> HIDE DEF F
  <2>2. \E b \in F : \A y \in F : y \subseteq b => y = b
    BY <2>1, Minimal
  <2> QED BY <2>2 DEF F
<1>2. PICK e \in pg : b = After(pg, e)
  BY <1>1
<1>3. ASSUME NEW f \in pg, ~(f.key <= e.key) PROVE FALSE
  <2>1. e.key < f.key /\ f.key \in Nat /\ e.key \in Nat
    BY <1>3 DEF Keyed
  <2>2. After(pg, f) \subseteq After(pg, e)
    BY <2>1 DEF After, Keyed
  <2>3. After(pg, f) = After(pg, e)
    BY <1>1, <1>2, <2>2
  <2> QED BY <2>1, <2>3 DEF After
<1> QED BY <1>3

LEMMA CursorIsKey ==
  ASSUME AgencyAssumption, NEW es, Keyed(es), \A e \in es : e.key \in Key,
         CursorOf(FirstPage(es)) # 0
  PROVE  /\ CursorOf(FirstPage(es)) \in Key
         /\ \E e \in FirstPage(es) : e.key = CursorOf(FirstPage(es))
<1> DEFINE pg == FirstPage(es)
<1>1. IsFiniteSet(pg) /\ pg \subseteq es
  BY FS_Subset DEF Keyed, FirstPage
<1>2. Keyed(pg)
  BY <1>1 DEF Keyed
<1>3. pg # {}
  <2> SUFFICES ASSUME pg = {} PROVE FALSE
    OBVIOUS
  <2>1. Cardinality(pg) = 0
    BY FS_EmptySet
  <2> QED BY <2>1 DEF CursorOf, AgencyAssumption
<1>4. PICK e \in pg : \A f \in pg : f.key <= e.key
  BY <1>2, <1>3, LastOfPage
<1>5. e.key \in Key /\ (\E f \in pg : f.key = e.key) /\ \A f \in pg : f.key <= e.key
  BY <1>1, <1>4
<1>6. CursorOf(pg) = CHOOSE k \in Key : (\E f \in pg : f.key = k) /\ \A f \in pg : f.key <= k
  BY DEF CursorOf
<1> QED BY <1>5, <1>6
---------------------------------------------------------------------------
(* What is signed, called, saved and sent.                                 *)

EventTools == {"suppression", "lead"}
Steps == {"email", "pages", "history", "effect", "prior"}
Grant == [act : Act, from : Nat]
Back == [step |-> "readback"]
Under(gs) ==
  [step : Steps, grant : gs, cursor : Key \cup {0},
   seen : {S \in SUBSET Key : IsFiniteSet(S) /\ Cardinality(S) <= MaxPages}, warned : BOOLEAN]
Calls(gs) == {NoCall, Back} \cup Under(gs)
Mailbox ==
  [emailState : Nat, subState : Nat, drafts : SUBSET Draft, flagged : SUBSET Draft,
   submissions : SUBSET Draft, origin : [Draft -> Nat], discarded : BOOLEAN, flagKept : BOOLEAN]

\* Types, with what AgencyTypeOK takes for granted.
AgencyTyped ==
  /\ now \in 0 .. MaxNow
  /\ transport \in {"jmap", "resend"} /\ pds \in {"cursor", "bounded", "stuck"}
  /\ grants \subseteq Grant
  /\ call \in [Node -> Calls(grants)]
  /\ IsFiniteSet(events) /\ events \subseteq [key : Key, kind : EventTools]
  /\ mail \in Mailbox /\ mail.flagged \subseteq mail.drafts /\ mail.submissions \subseteq mail.drafts
  /\ sent \in [Draft -> Nat]
  /\ posted \in [Op -> [at : Nat, times : Nat]]

\* A grant was signed for the transport in use, not in the future, and for
\* something that existed then.
Signed1(g) ==
  /\ g.from <= now
  /\ g.act.tool = "draft" => transport = "jmap" /\ g.act.state <= mail.emailState
  /\ g.act.tool = "send" =>
       transport = "jmap" /\ g.act.state <= mail.subState /\ g.act.id \in mail.drafts
  /\ g.act.tool = "submit" =>
       transport = "resend" /\ g.act.id \in Op /\ g.act.state <= g.from
  /\ g.act.tool \in EventTools => g.act.id \in Key
Proper == \A g \in grants : Signed1(g)

\* A key of the repository names one event, an operation has one date.
SignedOnce ==
  \A g, h \in grants : g.act.id = h.act.id =>
    /\ g.act.tool \in EventTools /\ h.act.tool \in EventTools => g.act.tool = h.act.tool
    /\ g.act.tool = "submit" /\ h.act.tool = "submit" => g.act.state = h.act.state

\* Every event was signed.
EventsSigned ==
  \A e \in events : \E g \in grants : g.act.tool = e.kind /\ g.act.id = e.key

\* A step is one of its tool's.
StepOfTool(c) ==
  /\ c.step = "prior" => c.grant.act.tool \in EventTools
  /\ c.step \in {"email", "history"} => c.grant.act.tool = "send"
  /\ c.step = "pages" => c.grant.act.tool \in {"send", "submit"}

\* A call that has read the draft and the submissions knows that it was not
\* sent, unless the provider's state has moved on.
StillUnsent(c) ==
  c.grant.act.tool = "send" =>
    /\ c.step \in {"pages", "history", "effect"} =>
         c.grant.act.id \in mail.flagged \/ c.grant.act.state < mail.subState
    /\ c.step = "effect" =>
         c.grant.act.id \notin mail.submissions \/ c.grant.act.state < mail.subState

\* A submission was begun within Age of its date.
BegunInTime(c) ==
  c.grant.act.tool = "submit" => c.grant.from < c.grant.act.state + Age

\* A suppression that was there at the beginning is still ahead of the call,
\* and the call does not get past it.
Ahead(c) ==
  c.warned =>
    /\ c.step \in {"email", "pages"} =>
         \E e \in events : /\ e.kind = "suppression"
                           /\ c.step = "pages" /\ pds = "cursor" => c.cursor < e.key
    /\ c.grant.act.tool \in {"send", "submit"} => c.step \in {"email", "pages"}

CallOK(c) ==
  c \in Under(grants) => StepOfTool(c) /\ StillUnsent(c) /\ BegunInTime(c) /\ Ahead(c)
CallsOK == \A n \in Node : CallOK(call[n])

\* What was sent is a draft; the provider keeps one of its two records.
SentOnce1 ==
  \A d \in Draft : sent[d] > 0 =>
    /\ d \in mail.drafts
    /\ d \in mail.submissions \/ mail.discarded
    /\ d \notin mail.flagged \/ mail.flagKept
    /\ ~(mail.discarded /\ mail.flagKept) => sent[d] = 1

\* What was posted was signed, at the date of the operation or later.
PostedOnce ==
  \A o \in Op : posted[o].times > 0 =>
    /\ posted[o].times = 1
    /\ \E g \in grants : /\ g.act.tool = "submit" /\ g.act.id = o
                         /\ g.act.state <= posted[o].at

\* A draft was saved in a state the account is past.
DraftsDated ==
  /\ \A d \in mail.drafts : mail.origin[d] < mail.emailState
  /\ OneDraftPerAction

AgencyInd ==
  /\ AgencyTyped /\ Proper /\ SignedOnce /\ EventsSigned /\ CallsOK
  /\ SentOnce1 /\ PostedOnce /\ DraftsDated

---------------------------------------------------------------------------
(* Calls, one at a time.                                                   *)

LEMMA KeysArePositive ==
  ASSUME AgencyAssumption
  PROVE  \A k \in Key : k \in Nat /\ 0 < k
<1>1. Key \subseteq Nat \ {0}
  BY DEF AgencyAssumption
<1> QED BY <1>1

LEMMA IdleIsNotUnder ==
  ASSUME NEW gs
  PROVE  /\ NoCall \notin Under(gs) /\ Back \notin Under(gs) /\ NoCall # Back
         /\ \A c \in Under(gs) : c # NoCall /\ c.step # "readback"
  BY DEF NoCall, Back, Under, Steps

Stepped(c, step) == [c EXCEPT !.step = step, !.cursor = 0, !.seen = {}]

LEMMA SteppedIs ==
  ASSUME AgencyAssumption, NEW gs, NEW c \in Under(gs), NEW step \in Steps
  PROVE  /\ Stepped(c, step) \in Under(gs)
         /\ Stepped(c, step).step = step /\ Stepped(c, step).cursor = 0
         /\ Stepped(c, step).grant = c.grant /\ Stepped(c, step).warned = c.warned
<1> DEFINE c1 == [c EXCEPT !.step = step]
           c2 == [c1 EXCEPT !.cursor = 0]
           c3 == [c2 EXCEPT !.seen = {}]
<1>1. c1 \in Under(gs) /\ c1.step = step /\ c1.grant = c.grant /\ c1.warned = c.warned
  BY DEF Under
<1>2. c2 \in Under(gs) /\ c2.step = step /\ c2.grant = c.grant /\ c2.warned = c.warned /\ c2.cursor = 0
  BY <1>1 DEF Under
<1>3. {} \in {S \in SUBSET Key : IsFiniteSet(S) /\ Cardinality(S) <= MaxPages}
  BY FS_EmptySet DEF AgencyAssumption
<1> HIDE DEF c2
<1>4. c3 \in Under(gs) /\ c3.step = step /\ c3.grant = c.grant /\ c3.warned = c.warned /\ c3.cursor = 0
  BY <1>2, <1>3 DEF Under
<1>5. Stepped(c, step) = c3
  BY DEF Stepped, c2
<1> QED BY <1>4, <1>5

LEMMA GoesIs ==
  ASSUME AgencyTyped, NEW n \in Node, call[n] \in Under(grants), NEW step, Goes(n, step)
  PROVE  call' = [call EXCEPT ![n] = Stepped(call[n], step)]
  BY DEF Goes, Stepped, AgencyTyped

LEMMA CallTyped ==
  ASSUME AgencyTyped, NEW n \in Node, call[n] # NoCall, call[n].step # "readback"
  PROVE  call[n] \in Under(grants)
  BY DEF AgencyTyped, Calls, Back

Rest == <<now, transport, pds, grants, events, mail, sent, posted>>

\* A step that only moves one call on keeps the invariant if the call stays
\* as it should be.
LEMMA OnlyCall ==
  ASSUME AgencyInd, UNCHANGED Rest, NEW n \in Node, NEW c \in Calls(grants), CallOK(c),
         call' = [call EXCEPT ![n] = c]
  PROVE  AgencyInd'
<1>1. now' = now /\ transport' = transport /\ pds' = pds /\ grants' = grants /\ events' = events
      /\ mail' = mail /\ sent' = sent /\ posted' = posted
  BY DEF Rest
<1>2. call' \in [Node -> Calls(grants)]
  BY DEF AgencyInd, AgencyTyped
<1>3. AgencyTyped'
  BY <1>1, <1>2 DEF AgencyInd, AgencyTyped, Calls, Under, Draft, Mailbox
<1>4. Proper' /\ SignedOnce' /\ EventsSigned'
  BY <1>1 DEF AgencyInd, Proper, Signed1, SignedOnce, EventsSigned
<1>5. SentOnce1' /\ PostedOnce' /\ DraftsDated'
  BY <1>1 DEF AgencyInd, SentOnce1, PostedOnce, DraftsDated, OneDraftPerAction, Draft
<1>6. ASSUME NEW m \in Node PROVE CallOK(call[m])'
  <2>1. call'[m] = c \/ call'[m] = call[m]
    BY DEF AgencyInd, AgencyTyped
  <2>2. CallOK(call[m])
    BY DEF AgencyInd, CallsOK
  <2> QED
    BY <1>1, <2>1, <2>2 DEF CallOK, StepOfTool, StillUnsent, BegunInTime, Ahead, Under
<1> QED BY <1>3, <1>4, <1>5, <1>6 DEF AgencyInd, CallsOK

LEMMA CallEnds ==
  ASSUME AgencyInd, UNCHANGED Rest, NEW n \in Node, Ends(n)
  PROVE  AgencyInd'
<1>1. NoCall \in Calls(grants) /\ CallOK(NoCall)
  BY IdleIsNotUnder DEF Calls, CallOK
<1> QED BY <1>1, OnlyCall DEF Ends

LEMMA CallGoes ==
  ASSUME AgencyAssumption, AgencyInd, UNCHANGED Rest, NEW n \in Node, NEW step \in Steps, Goes(n, step),
         call[n] \in Under(grants), CallOK(Stepped(call[n], step))
  PROVE  AgencyInd'
<1>1. Stepped(call[n], step) \in Calls(grants)
  BY SteppedIs DEF Calls
<1>2. call' = [call EXCEPT ![n] = Stepped(call[n], step)]
  BY GoesIs DEF AgencyInd
<1> QED BY <1>1, <1>2, OnlyCall

LEMMA Begins ==
  ASSUME AgencyAssumption, AgencyInd, NEW n \in Node, NEW g \in grants, Begin(n, g)
  PROVE  AgencyInd'
<1> DEFINE c == [step |-> FirstStep(g.act), grant |-> g, cursor |-> 0, seen |-> {}, warned |-> Suppressed]
<1>1. g \in Grant /\ Signed1(g) /\ g.act.tool \in EventTools \cup {"draft", "send", "submit"}
  BY DEF AgencyInd, AgencyTyped, Proper, Grant, Act, EventTools
<1>2. /\ g.act.tool = "draft" => FirstStep(g.act) = "effect"
      /\ g.act.tool = "send" => FirstStep(g.act) = "email"
      /\ g.act.tool = "submit" => FirstStep(g.act) = "pages"
      /\ g.act.tool \in EventTools => FirstStep(g.act) = "prior"
  BY DEF FirstStep, EventTools
<1>3. {} \in {S \in SUBSET Key : IsFiniteSet(S) /\ Cardinality(S) <= MaxPages}
  BY FS_EmptySet DEF AgencyAssumption
<1>4. c \in Under(grants)
  BY <1>1, <1>2, <1>3 DEF Under, Steps, Suppressed
<1>5. c.step = FirstStep(g.act) /\ c.grant = g /\ c.cursor = 0 /\ c.warned = Suppressed
  OBVIOUS
<1> HIDE DEF c
<1>6. StepOfTool(c)
  BY <1>1, <1>2, <1>5 DEF StepOfTool, EventTools
<1>7. StillUnsent(c)
  BY <1>2, <1>5 DEF StillUnsent
<1>8. BegunInTime(c)
  <2> SUFFICES ASSUME g.act.tool = "submit" PROVE g.from < g.act.state + Age
    BY <1>5 DEF BegunInTime
  <2>1. g.from <= now /\ ~(now - g.act.state >= Age)
    BY DEF Begin, Authorized, TooOld
  <2>2. g.from \in Nat /\ g.act.state \in Nat /\ now \in Nat /\ Age \in Nat
    BY <1>1 DEF Grant, Act, AgencyInd, AgencyTyped, AgencyAssumption
  <2> QED BY <2>1, <2>2
<1>9. Ahead(c)
  <2> SUFFICES ASSUME Suppressed
      PROVE  /\ c.step \in {"email", "pages"} =>
                  \E e \in events : /\ e.kind = "suppression"
                                    /\ c.step = "pages" /\ pds = "cursor" => c.cursor < e.key
             /\ g.act.tool \in {"send", "submit"} => c.step \in {"email", "pages"}
    BY <1>5 DEF Ahead
  <2>1. PICK e \in events : e.kind = "suppression"
    BY DEF Suppressed
  <2>2. e.key \in Key
    BY DEF AgencyInd, AgencyTyped
  <2>3. 0 < e.key
    BY <2>2, KeysArePositive
  <2> QED BY <1>2, <1>5, <2>1, <2>3
<1>10. CallOK(c) /\ c \in Calls(grants)
  BY <1>4, <1>6, <1>7, <1>8, <1>9 DEF CallOK, Calls
<1>11. call' = [call EXCEPT ![n] = c] /\ UNCHANGED Rest
  BY DEF Begin, Rest, c
<1> QED BY <1>10, <1>11, OnlyCall

---------------------------------------------------------------------------
(* The reads.                                                              *)

LEMMA CallFacts ==
  ASSUME AgencyInd, NEW n \in Node, call[n] # NoCall, call[n].step # "readback"
  PROVE  /\ call[n] \in Under(grants) /\ call[n].grant \in grants
         /\ StepOfTool(call[n]) /\ StillUnsent(call[n]) /\ BegunInTime(call[n]) /\ Ahead(call[n])
<1>1. call[n] \in Under(grants)
  BY CallTyped DEF AgencyInd
<1>2. CallOK(call[n])
  BY DEF AgencyInd, CallsOK
<1> QED BY <1>1, <1>2 DEF CallOK, Under

\* A page without a suppression does not hold the one that is still ahead.
LEMMA PageGoesPast ==
  ASSUME AgencyAssumption, AgencyInd, NEW n \in Node, call[n] # NoCall, call[n].step = "pages",
         NEW page1, page1 = PageAfter(call[n].cursor),
         NEW cursor, cursor = CursorOf(page1),
         \A e \in page1 : e.kind # "suppression"
  PROVE  /\ cursor # 0 => cursor \in Key
         /\ cursor = 0 /\ PageComplete(page1) => ~call[n].warned
         /\ cursor # 0 /\ call[n].warned =>
              \E e \in events : e.kind = "suppression" /\ (pds = "cursor" => cursor < e.key)
<1> DEFINE es == IF pds = "cursor" THEN {e \in events : e.key > call[n].cursor} ELSE events
<1>1. /\ IsFiniteSet(events) /\ \A e \in events : e.key \in Key /\ e.key \in Nat
      /\ call[n] \in Under(grants) /\ call[n].cursor \in Nat
  <2>1. IsFiniteSet(events) /\ \A e \in events : e.key \in Key
    BY DEF AgencyInd, AgencyTyped
  <2>2. call[n] \in Under(grants)
    BY CallFacts
  <2>3. call[n].cursor \in Key \cup {0}
    BY <2>2 DEF Under
  <2>4. \A k \in Key : k \in Nat
    BY KeysArePositive
  <2>5. call[n].cursor \in Nat
    <3>1. Key \cup {0} \subseteq Nat
      BY <2>4
    <3> QED BY <2>3, <3>1
  <2>6. \A e \in events : e.key \in Key /\ e.key \in Nat
    BY <2>1, <2>4
  <2> QED BY <2>1, <2>2, <2>5, <2>6
<1>2. es \subseteq events /\ IsFiniteSet(es)
  BY <1>1, FS_Subset
<1>3. Keyed(es) /\ \A e \in es : e.key \in Key
  BY <1>1, <1>2 DEF Keyed
<1>4. page1 = FirstPage(es)
  BY DEF PageAfter
<1>5. call[n].warned => \E e \in es : e.kind = "suppression"
  <2> SUFFICES ASSUME call[n].warned PROVE \E e \in es : e.kind = "suppression"
    OBVIOUS
  <2>1. PICK e \in events : e.kind = "suppression" /\ (pds = "cursor" => call[n].cursor < e.key)
    BY CallFacts DEF Ahead
  <2> QED BY <1>1, <2>1
<1> HIDE DEF es
<1>6. page1 \subseteq es
  BY <1>4 DEF FirstPage
<1>7. cursor # 0 => cursor \in Key /\ \E x \in page1 : x.key = cursor
  BY <1>3, <1>4, CursorIsKey
<1>8. cursor = 0 /\ PageComplete(page1) => ~call[n].warned
  BY <1>3, <1>4, <1>5, PageIsWhole DEF PageComplete
<1>9. ASSUME cursor # 0, call[n].warned
      PROVE  \E e \in events : e.kind = "suppression" /\ (pds = "cursor" => cursor < e.key)
  <2>1. PICK e \in es : e.kind = "suppression"
    BY <1>5, <1>9
  <2>2. PICK x \in page1 : x.key = cursor
    BY <1>7, <1>9
  <2>3. e \in es \ FirstPage(es)
    BY <1>4, <2>1
  <2>4. x.key < e.key
    BY <1>3, <1>4, <2>2, <2>3, PageIsFirst
  <2> QED BY <1>2, <2>1, <2>2, <2>4
<1> QED BY <1>7, <1>8, <1>9

LEMMA PageRead ==
  ASSUME AgencyAssumption, AgencyInd, NEW n \in Node, ReadPage(n)
  PROVE  AgencyInd'
<1> DEFINE c == call[n]
           page1 == PageAfter(c.cursor)
           cursor == CursorOf(page1)
           d == [c EXCEPT !.cursor = cursor, !.seen = @ \cup {cursor}]
<1>1. c # NoCall /\ c.step = "pages" /\ UNCHANGED Rest
  BY DEF ReadPage, Rest
<1>2. c \in Under(grants) /\ StepOfTool(c) /\ StillUnsent(c) /\ BegunInTime(c) /\ Ahead(c)
  BY <1>1, CallFacts
<1>3. c.grant \in grants /\ c.grant.act.tool \in {"send", "submit"}
  BY <1>1, <1>2 DEF Under, StepOfTool
<1>4. CASE Ends(n)
  BY <1>1, <1>4, CallEnds
<1>5. CASE /\ \A e \in page1 : e.kind # "suppression"
           /\ cursor = 0 /\ PageComplete(page1) /\ Goes(n, AfterPages(c.grant.act))
  <2> DEFINE to == AfterPages(c.grant.act)
             s == Stepped(c, to)
  <2>1. ~c.warned
    BY <1>1, <1>5, PageGoesPast
  <2>2. /\ to \in Steps
        /\ c.grant.act.tool = "send" => to = "history"
        /\ c.grant.act.tool = "submit" => to = "effect"
    BY <1>3 DEF AfterPages, Steps
  <2>3. s \in Under(grants) /\ s.step = to /\ s.grant = c.grant /\ s.warned = c.warned
    BY <1>2, <2>2, SteppedIs
  <2> HIDE DEF s, to
  <2>4. StepOfTool(s) /\ StillUnsent(s) /\ BegunInTime(s) /\ Ahead(s)
    BY <1>1, <1>2, <1>3, <2>1, <2>2, <2>3 DEF StepOfTool, StillUnsent, BegunInTime, Ahead, EventTools
  <2> QED BY <1>1, <1>2, <1>5, <2>2, <2>4, CallGoes DEF CallOK, s, to
<1>6. CASE /\ \A e \in page1 : e.kind # "suppression"
           /\ cursor # 0 /\ Followed(c, cursor) /\ call' = [call EXCEPT ![n].cursor = cursor, ![n].seen = @ \cup {cursor}]
  <2>1. /\ cursor \in Key
        /\ c.warned => \E e \in events : e.kind = "suppression" /\ (pds = "cursor" => cursor < e.key)
    BY <1>1, <1>6, PageGoesPast
  <2> HIDE DEF cursor
  <2>2. c.seen \cup {cursor} \in {S \in SUBSET Key : IsFiniteSet(S) /\ Cardinality(S) <= MaxPages}
    <3>1. c.seen \in SUBSET Key /\ IsFiniteSet(c.seen)
      BY <1>2 DEF Under
    <3>2. IsFiniteSet(c.seen \cup {cursor}) /\ Cardinality(c.seen \cup {cursor}) = Cardinality(c.seen) + 1
      BY <1>6, <3>1, FS_AddElement DEF Followed
    <3> QED BY <1>6, <2>1, <3>1, <3>2 DEF Followed
  <2>3. d \in Under(grants) /\ d.step = c.step /\ d.grant = c.grant /\ d.warned = c.warned /\ d.cursor = cursor
    <3> DEFINE c1 == [c EXCEPT !.cursor = cursor]
               c2 == [c1 EXCEPT !.seen = c.seen \cup {cursor}]
    <3>1. c1 \in Under(grants) /\ c1.step = c.step /\ c1.grant = c.grant /\ c1.warned = c.warned /\ c1.cursor = cursor
      BY <1>2, <2>1 DEF Under
    <3> HIDE DEF c1
    <3>2. c2 \in Under(grants) /\ c2.step = c.step /\ c2.grant = c.grant /\ c2.warned = c.warned /\ c2.cursor = cursor
      BY <2>2, <3>1 DEF Under
    <3>3. d = c2
      BY DEF c1
    <3> QED BY <3>2, <3>3
  <2>4. call' = [call EXCEPT ![n] = d]
    BY <1>6 DEF AgencyInd, AgencyTyped
  <2> HIDE DEF d
  <2>5. StepOfTool(d) /\ StillUnsent(d) /\ BegunInTime(d)
    BY <1>1, <1>2, <2>3 DEF StepOfTool, StillUnsent, BegunInTime
  <2>6. Ahead(d)
    BY <1>1, <2>1, <2>3 DEF Ahead
  <2> QED BY <1>1, <2>3, <2>4, <2>5, <2>6, OnlyCall DEF CallOK, Calls
<1>7. \/ Ends(n)
      \/ /\ \A e \in page1 : e.kind # "suppression"
         /\ cursor = 0 /\ PageComplete(page1) /\ Goes(n, AfterPages(c.grant.act))
      \/ /\ \A e \in page1 : e.kind # "suppression"
         /\ cursor # 0 /\ Followed(c, cursor) /\ call' = [call EXCEPT ![n].cursor = cursor, ![n].seen = @ \cup {cursor}]
  BY DEF ReadPage
<1> QED BY <1>4, <1>5, <1>6, <1>7

LEMMA EmailRead ==
  ASSUME AgencyAssumption, AgencyInd, NEW n \in Node, ReadEmail(n)
  PROVE  AgencyInd'
<1> DEFINE c == call[n]
<1>1. c # NoCall /\ c.step = "email" /\ UNCHANGED Rest
  BY DEF ReadEmail, Rest
<1>2. c \in Under(grants) /\ StepOfTool(c) /\ StillUnsent(c) /\ BegunInTime(c) /\ Ahead(c)
  BY <1>1, CallFacts
<1>3. c.grant.act.tool = "send"
  BY <1>1, <1>2 DEF StepOfTool
<1>4. CASE Ends(n)
  BY <1>1, <1>4, CallEnds
<1>5. CASE c.grant.act.id \in mail.flagged /\ Goes(n, "pages")
  <2> DEFINE s == Stepped(c, "pages")
  <2>1. /\ s \in Under(grants) /\ s.step = "pages" /\ s.grant = c.grant /\ s.warned = c.warned
        /\ s.cursor = 0 /\ "pages" \in Steps
    BY <1>2, SteppedIs DEF Steps
  <2> HIDE DEF s
  <2>2. StepOfTool(s) /\ StillUnsent(s) /\ BegunInTime(s)
    BY <1>2, <1>3, <1>5, <2>1 DEF StepOfTool, StillUnsent, BegunInTime
  <2>3. \A e \in events : 0 < e.key
    BY KeysArePositive DEF AgencyInd, AgencyTyped
  <2>4. Ahead(s)
    BY <1>1, <1>2, <2>1, <2>3 DEF Ahead
  <2> QED BY <1>1, <1>2, <1>5, <2>1, <2>2, <2>4, CallGoes DEF CallOK, s
<1> QED BY <1>4, <1>5 DEF ReadEmail, Unsent

LEMMA HistoryRead ==
  ASSUME AgencyAssumption, AgencyInd, NEW n \in Node, ReadHistory(n)
  PROVE  AgencyInd'
<1> DEFINE c == call[n]
<1>1. c # NoCall /\ c.step = "history" /\ UNCHANGED Rest
  BY DEF ReadHistory, Rest
<1>2. c \in Under(grants) /\ StepOfTool(c) /\ StillUnsent(c) /\ BegunInTime(c) /\ Ahead(c)
  BY <1>1, CallFacts
<1>3. c.grant.act.tool = "send"
  BY <1>1, <1>2 DEF StepOfTool
<1>4. CASE Ends(n)
  BY <1>1, <1>4, CallEnds
<1>5. CASE c.grant.act.id \notin mail.submissions /\ Goes(n, "effect")
  <2> DEFINE s == Stepped(c, "effect")
  <2>1. /\ s \in Under(grants) /\ s.step = "effect" /\ s.grant = c.grant /\ s.warned = c.warned
        /\ "effect" \in Steps
    BY <1>2, SteppedIs DEF Steps
  <2> HIDE DEF s
  <2>2. StepOfTool(s) /\ StillUnsent(s) /\ BegunInTime(s) /\ Ahead(s)
    BY <1>1, <1>2, <1>3, <1>5, <2>1 DEF StepOfTool, StillUnsent, BegunInTime, Ahead
  <2> QED BY <1>1, <1>2, <1>5, <2>1, <2>2, CallGoes DEF CallOK, s
<1> QED BY <1>4, <1>5 DEF ReadHistory

LEMMA PriorRead ==
  ASSUME AgencyAssumption, AgencyInd, NEW n \in Node, ReadPrior(n)
  PROVE  AgencyInd'
<1> DEFINE c == call[n]
<1>1. c # NoCall /\ c.step = "prior" /\ UNCHANGED Rest
  BY DEF ReadPrior, Rest
<1>2. c \in Under(grants) /\ StepOfTool(c) /\ StillUnsent(c) /\ BegunInTime(c) /\ Ahead(c)
  BY <1>1, CallFacts
<1>3. c.grant.act.tool \in EventTools
  BY <1>1, <1>2 DEF StepOfTool
<1>4. CASE Ends(n)
  BY <1>1, <1>4, CallEnds
<1>5. CASE Goes(n, "effect")
  <2> DEFINE s == Stepped(c, "effect")
  <2>1. /\ s \in Under(grants) /\ s.step = "effect" /\ s.grant = c.grant /\ s.warned = c.warned
        /\ "effect" \in Steps
    BY <1>2, SteppedIs DEF Steps
  <2> HIDE DEF s
  <2>2. StepOfTool(s) /\ StillUnsent(s) /\ BegunInTime(s) /\ Ahead(s)
    BY <1>1, <1>2, <1>3, <2>1 DEF StepOfTool, StillUnsent, BegunInTime, Ahead, EventTools
  <2> QED BY <1>1, <1>2, <1>5, <2>1, <2>2, CallGoes DEF CallOK, s
<1> QED BY <1>4, <1>5 DEF ReadPrior

---------------------------------------------------------------------------
(* The owner, the clock and the effects.                                   *)

\* What the world may do to a call under way.
Moves ==
  /\ grants \subseteq grants' /\ events \subseteq events' /\ pds' = pds
  /\ mail'.subState \in Nat /\ mail.subState <= mail'.subState
  /\ mail'.subState = mail.subState =>
       mail.flagged \subseteq mail'.flagged /\ mail'.submissions \subseteq mail.submissions

LEMMA CallKeeps ==
  ASSUME AgencyInd, Moves, NEW c \in Calls(grants), CallOK(c)
  PROVE  c \in Calls(grants)' /\ CallOK(c)'
<1>1. c \in Calls(grants)'
  BY DEF Calls, Under, Moves
<1>2. CASE c \in Under(grants)
  <2>1. StepOfTool(c) /\ StillUnsent(c) /\ BegunInTime(c) /\ Ahead(c)
    BY <1>2 DEF CallOK
  <2>2. /\ c.grant.act.tool = "send" => c.grant.act.state <= mail.subState
        /\ c.grant.act.state \in Nat /\ mail.subState \in Nat
    BY <1>2 DEF Under, AgencyInd, AgencyTyped, Proper, Signed1, Grant, Act, Mailbox
  <2>3. StillUnsent(c)'
    <3> SUFFICES ASSUME c.grant.act.tool = "send" PROVE StillUnsent(c)'
      BY DEF StillUnsent
    <3>1. CASE mail'.subState = mail.subState
      BY <2>1, <3>1 DEF StillUnsent, Moves
    <3>2. CASE mail'.subState # mail.subState
      <4>1. c.grant.act.state < mail'.subState
        BY <2>2, <3>2 DEF Moves
      <4> QED BY <4>1 DEF StillUnsent
    <3> QED BY <3>1, <3>2
  <2>4. StepOfTool(c)' /\ BegunInTime(c)'
    BY <2>1 DEF StepOfTool, BegunInTime
  <2>5. Ahead(c)'
    BY <2>1 DEF Ahead, Moves
  <2> QED BY <1>1, <2>3, <2>4, <2>5 DEF CallOK
<1>3. CASE c \notin Under(grants)
  <2>1. c \notin Under(grants')
    BY <1>3, IdleIsNotUnder DEF Calls
  <2> QED BY <1>1, <2>1 DEF CallOK, Under
<1> QED BY <1>2, <1>3

LEMMA CallsAfter ==
  ASSUME AgencyInd, Moves, UNCHANGED call \/ \E n \in Node : Answered(n)
  PROVE  call' \in [Node -> Calls(grants)'] /\ CallsOK'
<1>1. NoCall \in Calls(grants) /\ Back \in Calls(grants) /\ CallOK(NoCall) /\ CallOK(Back)
  BY IdleIsNotUnder DEF Calls, CallOK
<1>2. \A m \in Node : call[m] \in Calls(grants) /\ CallOK(call[m])
  BY DEF AgencyInd, AgencyTyped, CallsOK
<1>3. ASSUME NEW m \in Node PROVE call'[m] \in {call[m], NoCall, Back}
  BY DEF Answered, Ends, Back, AgencyInd, AgencyTyped
<1>4. DOMAIN call' = Node /\ call' = [m \in Node |-> call'[m]]
  BY DEF Answered, Ends, AgencyInd, AgencyTyped
<1>5. ASSUME NEW m \in Node PROVE call'[m] \in Calls(grants)' /\ CallOK(call[m])'
  <2> DEFINE c == call'[m]
  <2>1. c \in Calls(grants) /\ CallOK(c)
    BY <1>1, <1>2, <1>3
  <2> QED BY <2>1, CallKeeps
<1> QED BY <1>4, <1>5 DEF CallsOK

LEMMA TimePassesOnCalls ==
  ASSUME AgencyAssumption, AgencyInd, Tick
  PROVE  AgencyInd'
<1>1. /\ now' = now + 1 /\ now' \in 0 .. MaxNow /\ now \in Nat
      /\ transport' = transport /\ pds' = pds /\ grants' = grants /\ call' = call
      /\ events' = events /\ mail' = mail /\ sent' = sent /\ posted' = posted
  BY DEF Tick, AgencyInd, AgencyTyped, AgencyAssumption
<1>2. AgencyTyped'
  BY <1>1 DEF AgencyInd, AgencyTyped, Calls, Under, Draft, Mailbox
<1>3. Proper'
  <2> SUFFICES ASSUME NEW g \in grants PROVE Signed1(g)'
    BY <1>1 DEF Proper
  <2>1. Signed1(g) /\ g.from \in Nat
    BY DEF AgencyInd, AgencyTyped, Proper, Grant
  <2>2. g.from <= now'
    BY <1>1, <2>1 DEF Signed1
  <2> QED BY <1>1, <2>1, <2>2 DEF Signed1
<1>4. SignedOnce' /\ EventsSigned' /\ SentOnce1' /\ PostedOnce' /\ DraftsDated'
  BY <1>1 DEF AgencyInd, SignedOnce, EventsSigned, SentOnce1, PostedOnce, DraftsDated,
              OneDraftPerAction, Draft
<1>5. CallsOK'
  BY <1>1 DEF AgencyInd, CallsOK, CallOK, StepOfTool, StillUnsent, BegunInTime, Ahead, Under
<1> QED BY <1>2, <1>3, <1>4, <1>5 DEF AgencyInd

LEMMA Signing ==
  ASSUME AgencyAssumption, AgencyInd, NEW act \in Signable \cup {g.act : g \in grants}, Sign(act)
  PROVE  AgencyInd'
<1> DEFINE h == [act |-> act, from |-> now]
<1>1. /\ grants' = grants \cup {h} /\ transport' = transport /\ pds' = pds /\ now' = now /\ call' = call
      /\ events' = events /\ mail' = mail /\ sent' = sent /\ posted' = posted
  BY DEF Sign
<1>2. \A g \in grants : g.act \in Act /\ g.from \in Nat /\ Signed1(g)
  BY DEF AgencyInd, AgencyTyped, Proper, Grant
<1>3. now \in Nat /\ mail.emailState \in Nat /\ mail.subState \in Nat /\ mail.drafts \subseteq Draft
  BY DEF AgencyInd, AgencyTyped, Mailbox, AgencyAssumption
<1>n. Draft \subseteq Nat /\ Key \subseteq Nat /\ Op \subseteq Nat
  BY DEF Draft, AgencyAssumption
\* What is signed for the first time.
<1>4. ASSUME act \in Signable
      PROVE  /\ act \in Act /\ Signed1(h)
             /\ act.tool \in EventTools => \A g \in grants : g.act.tool \in EventTools => g.act.id # act.id
             /\ act.tool = "submit" => \A g \in grants : g.act.tool = "submit" => g.act.id # act.id
  <2>1. act.tool \in Tools
    BY <1>4 DEF Signable
  <2>2. \/ act \in [tool : {"suppression", "lead"},
                    id : Key \ {g.act.id : g \in {k \in grants : k.act.tool \in {"suppression", "lead"}}},
                    state : {0}]
        \/ act \in [tool : {"draft"}, id : {0}, state : {mail.emailState}]
        \/ act \in [tool : {"send"}, id : mail.drafts, state : {mail.subState}]
        \/ act \in [tool : {"submit"},
                    id : {o \in Op : \A g \in grants : g.act.tool = "submit" => g.act.id # o}, state : {now}]
    BY <1>4 DEF Signable
  <2>3. act \in Act
    <3>1. 0 \in Nat /\ mail.drafts \subseteq Nat
      BY <1>3, <1>n
    <3>2. /\ act = [tool |-> act.tool, id |-> act.id, state |-> act.state]
          /\ act.tool \in {"draft", "send", "submit", "suppression", "lead"}
          /\ act.id \in Nat /\ act.state \in Nat
      BY <1>3, <1>n, <2>2, <3>1
    <3> QED BY <3>2 DEF Act
  <2>4. /\ act.tool \in {"draft", "send"} => transport = "jmap"
        /\ act.tool = "submit" => transport = "resend"
    BY <2>1 DEF Tools, AgencyInd, AgencyTyped
  <2>5. h.act = act /\ h.from = now
    OBVIOUS
  <2> HIDE DEF h
  <2>6. Signed1(h)
    BY <1>3, <2>2, <2>4, <2>5 DEF Signed1, EventTools
  <2> QED BY <2>2, <2>3, <2>6 DEF EventTools
\* What is signed again.
<1>5. ASSUME act \notin Signable
      PROVE  act \in Act /\ Signed1(h) /\ act.tool \notin EventTools /\ \E g \in grants : g.act = act
  <2>1. PICK g \in grants : g.act = act /\ g.from < now
    BY <1>5 DEF Sign
  <2>2. act.tool \in {"draft", "send", "submit"}
    BY <1>5 DEF Sign
  <2>3. h.act = act /\ h.from = now /\ Signed1(g) /\ g.act = act /\ g.from < now /\ g.from \in Nat /\ act \in Act
    BY <1>2, <2>1
  <2> HIDE DEF h
  <2>4. act.tool = "submit" => act.state <= now
    <3>1. act.state \in Nat
      BY <2>3 DEF Act
    <3>2. act.tool = "submit" => act.state <= g.from
      BY <2>3 DEF Signed1
    <3> QED BY <1>3, <2>3, <3>1, <3>2
  <2>5. Signed1(h)
    BY <1>3, <2>2, <2>3, <2>4 DEF Signed1, EventTools
  <2> QED BY <2>1, <2>2, <2>3, <2>5 DEF EventTools
<1>6. h \in Grant /\ Signed1(h) /\ act \in Act
  BY <1>3, <1>4, <1>5 DEF Grant
<1>7. Moves
  <2>1. grants \subseteq grants'
    BY <1>1
  <2> QED BY <1>1, <1>3, <2>1 DEF Moves
<1>8. call' \in [Node -> Calls(grants)'] /\ CallsOK'
  BY <1>1, <1>7, CallsAfter
<1>9. AgencyTyped'
  BY <1>1, <1>6, <1>8 DEF AgencyInd, AgencyTyped, Calls, Under, Draft, Mailbox
<1>10. Proper'
  <2> SUFFICES ASSUME NEW g \in grants' PROVE Signed1(g)'
    BY DEF Proper
  <2>1. Signed1(g)
    BY <1>1, <1>2, <1>6
  <2> QED BY <1>1, <2>1 DEF Signed1
<1>11. SignedOnce'
  <2> SUFFICES ASSUME NEW g \in grants', NEW k \in grants', g.act.id = k.act.id
      PROVE  /\ g.act.tool \in EventTools /\ k.act.tool \in EventTools => g.act.tool = k.act.tool
             /\ g.act.tool = "submit" /\ k.act.tool = "submit" => g.act.state = k.act.state
    BY DEF SignedOnce
  <2>1. SignedOnce
    BY DEF AgencyInd
  <2>2. \/ g \in grants \/ g.act = act
    BY <1>1
  <2>3. \/ k \in grants \/ k.act = act
    BY <1>1
  <2>4. CASE act \in Signable
    BY <1>4, <2>1, <2>2, <2>3, <2>4 DEF SignedOnce
  <2>5. CASE act \notin Signable
    <3>1. PICK i \in grants : i.act = act
      BY <1>5, <2>5
    <3>2. PICK x \in grants : x.act = g.act
      BY <2>2, <3>1
    <3>3. PICK y \in grants : y.act = k.act
      BY <2>3, <3>1
    <3> QED BY <2>1, <3>2, <3>3 DEF SignedOnce
  <2> QED BY <2>4, <2>5
<1>12. EventsSigned' /\ PostedOnce'
  <2>1. grants \subseteq grants' /\ EventsSigned /\ PostedOnce
    BY <1>1 DEF AgencyInd
  <2>2. EventsSigned'
    BY <1>1, <2>1 DEF EventsSigned
  <2>3. PostedOnce'
    BY <1>1, <2>1 DEF PostedOnce
  <2> QED BY <2>2, <2>3
<1>13. SentOnce1' /\ DraftsDated'
  BY <1>1 DEF AgencyInd, SentOnce1, DraftsDated, OneDraftPerAction, Draft
<1> QED BY <1>8, <1>9, <1>10, <1>11, <1>12, <1>13 DEF AgencyInd

\* Every draft is sent at most once while one of the records stands.
LEMMA DraftSaved ==
  ASSUME AgencyAssumption, AgencyInd, NEW n \in Node, EmailSet(n)
  PROVE  AgencyInd'
<1> DEFINE g == call[n].grant
           d == CHOOSE d \in Draft : d \notin mail.drafts
           m1 == [mail EXCEPT !.emailState = @ + 1]
           m2 == [m1 EXCEPT !.drafts = @ \cup {d}]
           m3 == [m2 EXCEPT !.flagged = @ \cup {d}]
           m4 == [m3 EXCEPT !.origin[d] = g.act.state]
<1>1. /\ g.act.state = mail.emailState /\ mail.drafts # Draft /\ Answered(n)
      /\ now' = now /\ transport' = transport /\ pds' = pds /\ grants' = grants /\ events' = events
      /\ sent' = sent /\ posted' = posted
  BY DEF EmailSet, InState
<1>2. /\ mail \in Mailbox /\ mail.emailState \in Nat /\ mail.subState \in Nat
      /\ mail.drafts \subseteq Draft /\ mail.flagged \subseteq mail.drafts
      /\ mail.submissions \subseteq mail.drafts /\ mail.origin \in [Draft -> Nat]
  BY DEF AgencyInd, AgencyTyped, Mailbox
<1>3. d \in Draft /\ d \notin mail.drafts
  BY <1>1, <1>2
<1>4. mail' = m4
  BY DEF EmailSet
<1> HIDE DEF d, g
<1>5. /\ m1 \in Mailbox /\ m1.emailState = mail.emailState + 1 /\ m1.subState = mail.subState
      /\ m1.drafts = mail.drafts /\ m1.flagged = mail.flagged /\ m1.submissions = mail.submissions
      /\ m1.origin = mail.origin /\ m1.discarded = mail.discarded /\ m1.flagKept = mail.flagKept
  BY <1>2 DEF Mailbox
<1> HIDE DEF m1
<1>6. /\ m2 \in Mailbox /\ m2.emailState = mail.emailState + 1 /\ m2.subState = mail.subState
      /\ m2.drafts = mail.drafts \cup {d} /\ m2.flagged = mail.flagged /\ m2.submissions = mail.submissions
      /\ m2.origin = mail.origin /\ m2.discarded = mail.discarded /\ m2.flagKept = mail.flagKept
  BY <1>3, <1>5 DEF Mailbox
<1> HIDE DEF m2
<1>7. /\ m3 \in Mailbox /\ m3.emailState = mail.emailState + 1 /\ m3.subState = mail.subState
      /\ m3.drafts = mail.drafts \cup {d} /\ m3.flagged = mail.flagged \cup {d}
      /\ m3.submissions = mail.submissions
      /\ m3.origin = mail.origin /\ m3.discarded = mail.discarded /\ m3.flagKept = mail.flagKept
  BY <1>3, <1>6 DEF Mailbox
<1> HIDE DEF m3
<1>8. /\ m4 \in Mailbox /\ m4.emailState = mail.emailState + 1 /\ m4.subState = mail.subState
      /\ m4.drafts = mail.drafts \cup {d} /\ m4.flagged = mail.flagged \cup {d}
      /\ m4.submissions = mail.submissions
      /\ m4.origin = [mail.origin EXCEPT ![d] = g.act.state]
      /\ m4.discarded = mail.discarded /\ m4.flagKept = mail.flagKept
  BY <1>1, <1>2, <1>3, <1>7 DEF Mailbox
<1>9. /\ mail' \in Mailbox /\ mail'.emailState = mail.emailState + 1 /\ mail'.subState = mail.subState
      /\ mail'.drafts = mail.drafts \cup {d} /\ mail'.flagged = mail.flagged \cup {d}
      /\ mail'.submissions = mail.submissions
      /\ mail'.origin = [mail.origin EXCEPT ![d] = g.act.state]
      /\ mail'.discarded = mail.discarded /\ mail'.flagKept = mail.flagKept
  BY <1>4, <1>8
<1> HIDE DEF m4
<1>10. Moves
  BY <1>1, <1>2, <1>9 DEF Moves
<1>11. call' \in [Node -> Calls(grants)'] /\ CallsOK'
  BY <1>1, <1>10, CallsAfter
<1>12. AgencyTyped'
  <2>1. mail'.flagged \subseteq mail'.drafts /\ mail'.submissions \subseteq mail'.drafts
    BY <1>2, <1>9
  <2>2. mail' \in Mailbox'
    BY <1>9 DEF Mailbox, Draft
  <2> QED BY <1>1, <1>11, <2>1, <2>2 DEF AgencyInd, AgencyTyped, Draft
<1>13. Proper'
  <2> SUFFICES ASSUME NEW k \in grants PROVE Signed1(k)'
    BY <1>1 DEF Proper
  <2>1. Signed1(k) /\ k.act.state \in Nat
    BY DEF AgencyInd, AgencyTyped, Proper, Grant, Act
  <2>2. k.act.tool = "draft" => k.act.state <= mail'.emailState
    BY <1>2, <1>9, <2>1 DEF Signed1
  <2> QED BY <1>1, <1>9, <2>1, <2>2 DEF Signed1
<1>14. SignedOnce' /\ EventsSigned' /\ PostedOnce'
  BY <1>1 DEF AgencyInd, SignedOnce, EventsSigned, PostedOnce
<1>15. SentOnce1'
  <2> SUFFICES ASSUME NEW e \in Draft, sent[e] > 0
      PROVE  /\ e \in mail'.drafts
             /\ e \in mail'.submissions \/ mail'.discarded
             /\ e \notin mail'.flagged \/ mail'.flagKept
             /\ ~(mail'.discarded /\ mail'.flagKept) => sent[e] = 1
    BY <1>1 DEF SentOnce1, Draft
  <2>1. /\ e \in mail.drafts
        /\ e \in mail.submissions \/ mail.discarded
        /\ e \notin mail.flagged \/ mail.flagKept
        /\ ~(mail.discarded /\ mail.flagKept) => sent[e] = 1
    BY DEF AgencyInd, SentOnce1
  <2> QED BY <1>3, <1>9, <2>1
<1>16. DraftsDated'
  <2>1. \A e \in mail.drafts : mail.origin[e] < mail.emailState /\ mail.origin[e] \in Nat /\ mail'.origin[e] = mail.origin[e]
    BY <1>2, <1>3, <1>9 DEF AgencyInd, DraftsDated
  <2>2. mail'.origin[d] = mail.emailState
    BY <1>1, <1>2, <1>3, <1>9
  <2>3. \A e \in mail'.drafts : mail'.origin[e] < mail'.emailState
    BY <1>2, <1>9, <2>1, <2>2
  <2>4. ASSUME NEW e \in mail'.drafts, NEW f \in mail'.drafts, mail'.origin[e] = mail'.origin[f]
        PROVE  e = f
    <3>1. CASE e = d /\ f # d
      BY <1>2, <1>9, <2>1, <2>2, <2>4, <3>1
    <3>2. CASE f = d /\ e # d
      BY <1>2, <1>9, <2>1, <2>2, <2>4, <3>2
    <3>3. CASE e # d /\ f # d
      <4>1. e \in mail.drafts /\ f \in mail.drafts /\ mail.origin[e] = mail.origin[f]
        BY <1>9, <2>1, <2>4, <3>3
      <4> QED BY <4>1 DEF AgencyInd, DraftsDated, OneDraftPerAction
    <3> QED BY <3>1, <3>2, <3>3
  <2> QED BY <2>3, <2>4 DEF DraftsDated, OneDraftPerAction
<1> QED BY <1>11, <1>12, <1>13, <1>14, <1>15, <1>16 DEF AgencyInd

LEMMA DraftSent ==
  ASSUME AgencyAssumption, AgencyInd, NEW n \in Node, SubmissionSet(n)
  PROVE  AgencyInd'
<1> DEFINE g == call[n].grant
           d == g.act.id
<1>0. PICK cleared \in BOOLEAN :
        mail' = [mail EXCEPT !.subState = @ + 1, !.submissions = @ \cup {d},
                             !.emailState = IF cleared THEN @ + 1 ELSE @,
                             !.flagged = IF cleared THEN @ \ {d} ELSE @,
                             !.flagKept = @ \/ ~cleared]
  BY DEF SubmissionSet
<1> DEFINE m1 == [mail EXCEPT !.subState = @ + 1]
           m2 == [m1 EXCEPT !.submissions = @ \cup {d}]
           m3 == [m2 EXCEPT !.emailState = IF cleared THEN @ + 1 ELSE @]
           m4 == [m3 EXCEPT !.flagged = IF cleared THEN @ \ {d} ELSE @]
           m5 == [m4 EXCEPT !.flagKept = @ \/ ~cleared]
<1>1. /\ call[n] # NoCall /\ call[n].step = "effect" /\ g.act.tool = "send" /\ g.act.state = mail.subState
      /\ Answered(n) /\ sent' = [sent EXCEPT ![d] = @ + 1]
      /\ now' = now /\ transport' = transport /\ pds' = pds /\ grants' = grants /\ events' = events
      /\ posted' = posted
  BY DEF SubmissionSet, ReadyFor, SubmissionInState
<1>2. /\ mail \in Mailbox /\ mail.emailState \in Nat /\ mail.subState \in Nat
      /\ mail.drafts \subseteq Draft /\ mail.flagged \subseteq mail.drafts
      /\ mail.submissions \subseteq mail.drafts /\ mail.origin \in [Draft -> Nat]
      /\ mail.discarded \in BOOLEAN /\ mail.flagKept \in BOOLEAN
      /\ sent \in [Draft -> Nat]
  BY DEF AgencyInd, AgencyTyped, Mailbox
<1>3. /\ g \in grants /\ StillUnsent(call[n]) /\ Signed1(g)
  BY <1>1, CallFacts DEF AgencyInd, Proper
<1>4. d \in mail.drafts /\ d \in Draft
  BY <1>1, <1>2, <1>3 DEF Signed1
<1>5. d \in mail.flagged /\ d \notin mail.submissions
  <2>1. ~(mail.subState < mail.subState)
    BY <1>2
  <2> QED BY <1>1, <1>3, <2>1 DEF StillUnsent
<1>6. mail' = m5
  BY <1>0
<1> HIDE DEF d, g
<1>7. /\ m1 \in Mailbox /\ m1.subState = mail.subState + 1 /\ m1.emailState = mail.emailState
      /\ m1.drafts = mail.drafts /\ m1.flagged = mail.flagged /\ m1.submissions = mail.submissions
      /\ m1.origin = mail.origin /\ m1.discarded = mail.discarded /\ m1.flagKept = mail.flagKept
  BY <1>2 DEF Mailbox
<1> HIDE DEF m1
<1>8. /\ m2 \in Mailbox /\ m2.subState = mail.subState + 1 /\ m2.emailState = mail.emailState
      /\ m2.drafts = mail.drafts /\ m2.flagged = mail.flagged /\ m2.submissions = mail.submissions \cup {d}
      /\ m2.origin = mail.origin /\ m2.discarded = mail.discarded /\ m2.flagKept = mail.flagKept
  BY <1>4, <1>7 DEF Mailbox
<1> HIDE DEF m2
<1>9. /\ m3 \in Mailbox /\ m3.subState = mail.subState + 1 /\ m3.emailState >= mail.emailState
      /\ m3.drafts = mail.drafts /\ m3.flagged = mail.flagged /\ m3.submissions = mail.submissions \cup {d}
      /\ m3.origin = mail.origin /\ m3.discarded = mail.discarded /\ m3.flagKept = mail.flagKept
  BY <1>2, <1>8 DEF Mailbox
<1> HIDE DEF m3
<1>10. /\ m4 \in Mailbox /\ m4.subState = mail.subState + 1 /\ m4.emailState >= mail.emailState
       /\ m4.drafts = mail.drafts /\ m4.flagged = (IF cleared THEN mail.flagged \ {d} ELSE mail.flagged)
       /\ m4.submissions = mail.submissions \cup {d}
       /\ m4.origin = mail.origin /\ m4.discarded = mail.discarded /\ m4.flagKept = mail.flagKept
  BY <1>9 DEF Mailbox
<1> HIDE DEF m4
<1>11. /\ m5 \in Mailbox /\ m5.subState = mail.subState + 1 /\ m5.emailState >= mail.emailState
       /\ m5.drafts = mail.drafts /\ m5.flagged = (IF cleared THEN mail.flagged \ {d} ELSE mail.flagged)
       /\ m5.submissions = mail.submissions \cup {d}
       /\ m5.origin = mail.origin /\ m5.discarded = mail.discarded
  BY <1>10 DEF Mailbox
<1>12. m5.flagKept <=> mail.flagKept \/ ~cleared
  BY <1>10 DEF Mailbox
<1>13. /\ mail' \in Mailbox /\ mail'.subState = mail.subState + 1 /\ mail'.emailState >= mail.emailState
       /\ mail'.drafts = mail.drafts /\ mail'.flagged = (IF cleared THEN mail.flagged \ {d} ELSE mail.flagged)
       /\ mail'.submissions = mail.submissions \cup {d}
       /\ mail'.origin = mail.origin /\ mail'.discarded = mail.discarded
       /\ mail'.flagKept <=> mail.flagKept \/ ~cleared
       /\ mail'.emailState \in Nat
  <2>1. m5.emailState \in Nat
    BY <1>11 DEF Mailbox
  <2> HIDE DEF m5
  <2> QED BY <1>6, <1>11, <1>12, <2>1
<1> HIDE DEF m5
<1>14. Moves
  BY <1>1, <1>2, <1>13 DEF Moves
<1>15. call' \in [Node -> Calls(grants)'] /\ CallsOK'
  BY <1>1, <1>14, CallsAfter
<1>16. AgencyTyped'
  <2>1. mail'.flagged \subseteq mail'.drafts /\ mail'.submissions \subseteq mail'.drafts
    BY <1>2, <1>4, <1>13
  <2>2. mail' \in Mailbox'
    BY <1>13 DEF Mailbox, Draft
  <2>3. sent' \in [Draft -> Nat]
    BY <1>1, <1>2, <1>4
  <2> QED BY <1>1, <1>15, <2>1, <2>2, <2>3 DEF AgencyInd, AgencyTyped, Draft
<1>17. Proper'
  <2> SUFFICES ASSUME NEW k \in grants PROVE Signed1(k)'
    BY <1>1 DEF Proper
  <2>1. Signed1(k) /\ k.act.state \in Nat
    BY DEF AgencyInd, AgencyTyped, Proper, Grant, Act
  <2>2. k.act.tool = "draft" => k.act.state <= mail'.emailState
    BY <1>2, <1>13, <2>1 DEF Signed1
  <2>3. k.act.tool = "send" => k.act.state <= mail'.subState
    BY <1>2, <1>13, <2>1 DEF Signed1
  <2> QED BY <1>1, <1>13, <2>1, <2>2, <2>3 DEF Signed1
<1>18. SignedOnce' /\ EventsSigned' /\ PostedOnce'
  BY <1>1 DEF AgencyInd, SignedOnce, EventsSigned, PostedOnce
<1>19. SentOnce1'
  <2> SUFFICES ASSUME NEW e \in Draft, sent'[e] > 0
      PROVE  /\ e \in mail'.drafts
             /\ e \in mail'.submissions \/ mail'.discarded
             /\ e \notin mail'.flagged \/ mail'.flagKept
             /\ ~(mail'.discarded /\ mail'.flagKept) => sent'[e] = 1
    BY <1>1 DEF SentOnce1, Draft
  <2>1. sent[e] > 0 =>
          /\ e \in mail.drafts
          /\ e \in mail.submissions \/ mail.discarded
          /\ e \notin mail.flagged \/ mail.flagKept
          /\ ~(mail.discarded /\ mail.flagKept) => sent[e] = 1
    BY DEF AgencyInd, SentOnce1
  <2>2. CASE e # d
    <3>1. sent'[e] = sent[e]
      BY <1>1, <1>2, <2>2
    <3> QED BY <1>13, <2>1, <2>2, <3>1
  <2>3. CASE e = d
    <3>1. sent'[e] = sent[e] + 1 /\ sent[e] \in Nat
      BY <1>1, <1>2, <2>3
    <3>2. e \in mail'.drafts /\ e \in mail'.submissions /\ (e \notin mail'.flagged \/ mail'.flagKept)
      BY <1>4, <1>13, <2>3
    <3>3. ~(mail'.discarded /\ mail'.flagKept) => ~(sent[e] > 0)
      BY <1>5, <1>13, <2>1, <2>3
    <3>4. ~(mail'.discarded /\ mail'.flagKept) => sent'[e] = 1
      BY <3>1, <3>3
    <3> QED BY <3>2, <3>4
  <2> QED BY <2>2, <2>3
<1>20. DraftsDated'
  <2>1. \A e \in mail.drafts : mail.origin[e] < mail'.emailState
    BY <1>2, <1>13 DEF AgencyInd, DraftsDated
  <2> QED BY <1>13, <2>1 DEF AgencyInd, DraftsDated, OneDraftPerAction
<1> QED BY <1>15, <1>16, <1>17, <1>18, <1>19, <1>20 DEF AgencyInd

\* The key of an operation is remembered for as long as the operation can be
\* submitted.
LEMMA OperationPosted ==
  ASSUME AgencyAssumption, AgencyInd, NEW n \in Node, PostEmail(n)
  PROVE  AgencyInd'
<1> DEFINE g == call[n].grant
           o == g.act.id
           known == posted[o].times > 0 /\ now < posted[o].at + Window
<1>1. /\ call[n] # NoCall /\ call[n].step = "effect" /\ g.act.tool = "submit"
      /\ Authorized(g) /\ Answered(n)
      /\ posted' = IF known THEN posted
                   ELSE [posted EXCEPT ![o] = [at |-> now, times |-> posted[o].times + 1]]
      /\ now' = now /\ transport' = transport /\ pds' = pds /\ grants' = grants /\ events' = events
      /\ mail' = mail /\ sent' = sent
  BY DEF PostEmail, ReadyFor, StillAuthorized
<1>2. g \in grants /\ BegunInTime(call[n]) /\ Signed1(g) /\ g \in Grant
  BY <1>1, CallFacts DEF AgencyInd, AgencyTyped, Proper
<1>3. /\ o \in Op /\ g.act.state \in Nat /\ g.from \in Nat /\ now \in Nat /\ g.act.state <= g.from
      /\ g.from < g.act.state + Age
  BY <1>1, <1>2 DEF Signed1, BegunInTime, Grant, Act, AgencyInd, AgencyTyped
<1>4. /\ posted \in [Op -> [at : Nat, times : Nat]]
      /\ posted[o] \in [at : Nat, times : Nat] /\ posted[o].times \in Nat /\ posted[o].at \in Nat
  <2>1. posted \in [Op -> [at : Nat, times : Nat]]
    BY DEF AgencyInd, AgencyTyped
  <2>2. posted[o] \in [at : Nat, times : Nat]
    BY <1>3, <2>1
  <2> QED BY <2>1, <2>2
<1>5. g.from <= now /\ now < g.from + Life
  BY <1>1 DEF Authorized
<1>n. Age \in Nat /\ Life \in Nat /\ Window \in Nat /\ Age + Life <= Window + 1
  BY DEF AgencyAssumption
<1>6. ASSUME ~known PROVE posted[o].times = 0
  <2> SUFFICES ASSUME posted[o].times > 0 PROVE FALSE
    BY <1>4
  <2>1. PICK k \in grants : k.act.tool = "submit" /\ k.act.id = o /\ k.act.state <= posted[o].at
    BY <1>3 DEF AgencyInd, PostedOnce
  <2>2. k.act.state = g.act.state
    BY <1>1, <1>2, <2>1 DEF AgencyInd, SignedOnce
  <2>3. ~(now < posted[o].at + Window) /\ posted[o].at \in Nat
    BY <1>3, <1>4, <1>6
  <2>4. g.act.state <= posted[o].at
    BY <2>1, <2>2
  <2> HIDE DEF known, g, o
  <2> QED BY <1>3, <1>5, <1>n, <2>3, <2>4
<1>7. Moves
  BY <1>1 DEF Moves, AgencyInd, AgencyTyped, Mailbox
<1>8. call' \in [Node -> Calls(grants)'] /\ CallsOK'
  BY <1>1, <1>7, CallsAfter
<1>9. posted' \in [Op -> [at : Nat, times : Nat]]
  <2> DEFINE r == [at |-> now, times |-> posted[o].times + 1]
  <2>1. r \in [at : Nat, times : Nat]
    BY <1>3, <1>4
  <2>2. posted' = posted \/ posted' = [posted EXCEPT ![o] = r]
    BY <1>1
  <2> HIDE DEF r, o
  <2> QED BY <1>3, <1>4, <2>1, <2>2
<1>10. AgencyTyped'
  BY <1>1, <1>8, <1>9 DEF AgencyInd, AgencyTyped, Draft, Mailbox
<1>11. Proper' /\ SignedOnce' /\ EventsSigned' /\ SentOnce1' /\ DraftsDated'
  BY <1>1 DEF AgencyInd, Proper, Signed1, SignedOnce, EventsSigned, SentOnce1, DraftsDated,
              OneDraftPerAction, Draft
<1>12. PostedOnce'
  <2> SUFFICES ASSUME NEW p \in Op, posted'[p].times > 0
      PROVE  /\ posted'[p].times = 1
             /\ \E k \in grants : /\ k.act.tool = "submit" /\ k.act.id = p
                                  /\ k.act.state <= posted'[p].at
    BY <1>1 DEF PostedOnce
  <2>1. CASE known \/ p # o
    <3>1. posted'[p] = posted[p]
      BY <1>1, <1>4, <2>1
    <3> QED BY <3>1 DEF AgencyInd, PostedOnce
  <2>2. CASE ~known /\ p = o
    <3>1. posted'[p] = [at |-> now, times |-> posted[o].times + 1]
      BY <1>1, <1>4, <2>2
    <3>2. posted'[p].times = 1 /\ posted'[p].at = now
      BY <1>6, <2>2, <3>1
    <3>3. g.act.state <= now
      BY <1>3, <1>5
    <3> QED BY <1>1, <1>2, <2>2, <3>2, <3>3
  <2> QED BY <2>1, <2>2
<1> QED BY <1>8, <1>10, <1>11, <1>12 DEF AgencyInd

LEMMA RecordCreated ==
  ASSUME AgencyAssumption, AgencyInd, NEW n \in Node, CreateRecord(n)
  PROVE  AgencyInd'
<1> DEFINE g == call[n].grant
           e == [key |-> g.act.id, kind |-> g.act.tool]
<1>1. /\ call[n] # NoCall /\ call[n].step = "effect" /\ g.act.tool \in EventTools /\ Answered(n)
      /\ events' = events \cup {e}
      /\ now' = now /\ transport' = transport /\ pds' = pds /\ grants' = grants
      /\ mail' = mail /\ sent' = sent /\ posted' = posted
  BY DEF CreateRecord, ReadyFor, EventTools
<1>2. g \in grants /\ Signed1(g)
  BY <1>1, CallFacts DEF AgencyInd, Proper
<1>3. g.act.id \in Key
  BY <1>1, <1>2 DEF Signed1
<1>4. IsFiniteSet(events') /\ events' \subseteq [key : Key, kind : EventTools]
  <2>1. IsFiniteSet(events \cup {e})
    BY FS_AddElement DEF AgencyInd, AgencyTyped
  <2>2. e \in [key : Key, kind : EventTools]
    BY <1>1, <1>3
  <2> QED BY <1>1, <2>1, <2>2 DEF AgencyInd, AgencyTyped
<1>5. Moves
  BY <1>1 DEF Moves, AgencyInd, AgencyTyped, Mailbox
<1>6. call' \in [Node -> Calls(grants)'] /\ CallsOK'
  BY <1>1, <1>5, CallsAfter
<1>7. AgencyTyped'
  BY <1>1, <1>4, <1>6 DEF AgencyInd, AgencyTyped, Draft, Mailbox
<1>8. EventsSigned'
  <2> SUFFICES ASSUME NEW f \in events'
      PROVE  \E k \in grants : k.act.tool = f.kind /\ k.act.id = f.key
    BY <1>1 DEF EventsSigned
  <2>1. CASE f \in events
    BY <2>1 DEF AgencyInd, EventsSigned
  <2>2. CASE f = e
    <3>1. g.act.tool = f.kind /\ g.act.id = f.key
      BY <2>2
    <3> QED BY <1>2, <3>1
  <2> QED BY <1>1, <2>1, <2>2
<1>9. Proper' /\ SignedOnce' /\ SentOnce1' /\ PostedOnce' /\ DraftsDated'
  BY <1>1 DEF AgencyInd, Proper, Signed1, SignedOnce, PostedOnce, SentOnce1, DraftsDated,
              OneDraftPerAction, Draft
<1> QED BY <1>6, <1>7, <1>8, <1>9 DEF AgencyInd

LEMMA SubmissionDiscarded ==
  ASSUME AgencyAssumption, AgencyInd, NEW d \in Draft, Discard(d)
  PROVE  AgencyInd'
<1> DEFINE m1 == [mail EXCEPT !.submissions = @ \ {d}]
           m2 == [m1 EXCEPT !.subState = @ + 1]
           m3 == [m2 EXCEPT !.discarded = TRUE]
<1>1. /\ mail' = m3 /\ now' = now /\ transport' = transport /\ pds' = pds /\ grants' = grants
      /\ call' = call /\ events' = events /\ sent' = sent /\ posted' = posted
  BY DEF Discard
<1>2. /\ mail \in Mailbox /\ mail.emailState \in Nat /\ mail.subState \in Nat
      /\ mail.drafts \subseteq Draft /\ mail.flagged \subseteq mail.drafts
      /\ mail.submissions \subseteq mail.drafts
  BY DEF AgencyInd, AgencyTyped, Mailbox
<1>3. /\ m1 \in Mailbox /\ m1.emailState = mail.emailState /\ m1.subState = mail.subState
      /\ m1.drafts = mail.drafts /\ m1.flagged = mail.flagged /\ m1.submissions = mail.submissions \ {d}
      /\ m1.origin = mail.origin /\ m1.flagKept = mail.flagKept
  BY <1>2 DEF Mailbox
<1> HIDE DEF m1
<1>4. /\ m2 \in Mailbox /\ m2.emailState = mail.emailState /\ m2.subState = mail.subState + 1
      /\ m2.drafts = mail.drafts /\ m2.flagged = mail.flagged /\ m2.submissions = mail.submissions \ {d}
      /\ m2.origin = mail.origin /\ m2.flagKept = mail.flagKept
  BY <1>2, <1>3 DEF Mailbox
<1> HIDE DEF m2
<1>5. /\ mail' \in Mailbox /\ mail'.emailState = mail.emailState /\ mail'.subState = mail.subState + 1
      /\ mail'.drafts = mail.drafts /\ mail'.flagged = mail.flagged
      /\ mail'.submissions = mail.submissions \ {d}
      /\ mail'.origin = mail.origin /\ mail'.discarded /\ mail'.flagKept = mail.flagKept
  BY <1>1, <1>4 DEF Mailbox
<1> HIDE DEF m3
<1>6. Moves
  BY <1>1, <1>2, <1>5 DEF Moves
<1>7. call' \in [Node -> Calls(grants)'] /\ CallsOK'
  BY <1>1, <1>6, CallsAfter
<1>8. AgencyTyped'
  <2>1. mail' \in Mailbox' /\ mail'.flagged \subseteq mail'.drafts /\ mail'.submissions \subseteq mail'.drafts
    BY <1>2, <1>5 DEF Mailbox, Draft
  <2> QED BY <1>1, <1>7, <2>1 DEF AgencyInd, AgencyTyped, Draft
<1>9. Proper'
  <2> SUFFICES ASSUME NEW k \in grants PROVE Signed1(k)'
    BY <1>1 DEF Proper
  <2>1. Signed1(k) /\ k.act.state \in Nat
    BY DEF AgencyInd, AgencyTyped, Proper, Grant, Act
  <2>2. k.act.tool = "send" => k.act.state <= mail'.subState
    BY <1>2, <1>5, <2>1 DEF Signed1
  <2> QED BY <1>1, <1>5, <2>1, <2>2 DEF Signed1
<1>10. SignedOnce' /\ EventsSigned' /\ PostedOnce' /\ DraftsDated'
  <2>1. SignedOnce' /\ EventsSigned' /\ PostedOnce'
    BY <1>1 DEF AgencyInd, SignedOnce, EventsSigned, PostedOnce
  <2>2. DraftsDated'
    BY <1>5 DEF AgencyInd, DraftsDated, OneDraftPerAction
  <2> QED BY <2>1, <2>2
<1>11. SentOnce1'
  BY <1>1, <1>5 DEF AgencyInd, SentOnce1, Draft
<1> QED BY <1>7, <1>8, <1>9, <1>10, <1>11 DEF AgencyInd

LEMMA AgencyStarts ==
  ASSUME AgencyAssumption, AgencyInit
  PROVE  AgencyInd
<1>1. NoCall \in Calls(grants) /\ CallOK(NoCall)
  BY IdleIsNotUnder DEF Calls, CallOK
<1>2. mail \in Mailbox /\ sent \in [Draft -> Nat] /\ posted \in [Op -> [at : Nat, times : Nat]]
  <2>1. MaxNow \in Nat /\ Never \in Nat
    BY DEF Never, AgencyAssumption
  <2> QED BY <2>1 DEF AgencyInit, Mailbox
<1>3. AgencyTyped
  <2>1. IsFiniteSet(events) /\ now \in 0 .. MaxNow
    BY FS_EmptySet DEF AgencyInit, AgencyAssumption
  <2> QED BY <1>1, <1>2, <2>1 DEF AgencyInit, AgencyTyped
<1>4. CallsOK
  BY <1>1 DEF AgencyInit, CallsOK
<1>5. Proper /\ SignedOnce /\ EventsSigned /\ SentOnce1 /\ PostedOnce /\ DraftsDated
  BY DEF AgencyInit, Proper, SignedOnce, EventsSigned, SentOnce1, PostedOnce, DraftsDated, OneDraftPerAction
<1> QED BY <1>3, <1>4, <1>5 DEF AgencyInd

LEMMA AgencyKeeps ==
  ASSUME AgencyAssumption, AgencyInd, [AgencyNext]_agencyVars
  PROVE  AgencyInd'
<1>1. CASE Tick
  BY <1>1, TimePassesOnCalls
<1>2. ASSUME NEW act \in Signable \cup {g.act : g \in grants}, Sign(act) PROVE AgencyInd'
  BY <1>2, Signing
<1>3. ASSUME NEW n \in Node, NEW g \in grants, Begin(n, g) PROVE AgencyInd'
  BY <1>3, Begins
<1>4. ASSUME NEW d \in Draft, Discard(d) PROVE AgencyInd'
  BY <1>4, SubmissionDiscarded
<1>5. ASSUME NEW n \in Node, Step(n) PROVE AgencyInd'
  <2>1. CASE ReadFails(n) \/ RefusedCall(n) \/ Readback(n)
    <3>1. Ends(n) /\ UNCHANGED Rest
      BY <2>1 DEF ReadFails, RefusedCall, Readback, Rest
    <3> QED BY <3>1, CallEnds
  <2>2. CASE ReadPage(n)
    BY <2>2, PageRead
  <2>3. CASE ReadEmail(n)
    BY <2>3, EmailRead
  <2>4. CASE ReadHistory(n)
    BY <2>4, HistoryRead
  <2>5. CASE ReadPrior(n)
    BY <2>5, PriorRead
  <2>6. CASE EmailSet(n)
    BY <2>6, DraftSaved
  <2>7. CASE SubmissionSet(n)
    BY <2>7, DraftSent
  <2>8. CASE PostEmail(n)
    BY <2>8, OperationPosted
  <2>9. CASE CreateRecord(n)
    BY <2>9, RecordCreated
  <2> QED BY <1>5, <2>1, <2>2, <2>3, <2>4, <2>5, <2>6, <2>7, <2>8, <2>9 DEF Step
<1>6. CASE UNCHANGED agencyVars
  <2>1. /\ now' = now /\ transport' = transport /\ pds' = pds /\ grants' = grants /\ call' = call
        /\ events' = events /\ mail' = mail /\ sent' = sent /\ posted' = posted
    BY <1>6 DEF agencyVars
  <2>2. AgencyTyped'
    BY <2>1 DEF AgencyInd, AgencyTyped, Calls, Under, Mailbox, Draft
  <2>3. CallsOK'
    BY <2>1 DEF AgencyInd, CallsOK, CallOK, StepOfTool, StillUnsent, BegunInTime, Ahead, Under
  <2> QED
    BY <2>1, <2>2, <2>3 DEF AgencyInd, Proper, Signed1, SignedOnce, EventsSigned, SentOnce1, PostedOnce,
       DraftsDated, OneDraftPerAction, Draft
<1> QED BY <1>1, <1>2, <1>3, <1>4, <1>5, <1>6 DEF AgencyNext

LEMMA AgencyIsRight ==
  ASSUME AgencyAssumption, AgencyInd
  PROVE  AgencyInv
<1>1. AgencyTypeOK
  <2>1. \A g \in grants : /\ g.act \in Act /\ g.from \in 0 .. now
                          /\ g.act.tool = "submit" => transport = "resend"
                          /\ g.act.tool \in {"draft", "send"} => transport = "jmap"
    <3> SUFFICES ASSUME NEW g \in grants
        PROVE  /\ g.act \in Act /\ g.from \in 0 .. now
               /\ g.act.tool = "submit" => transport = "resend"
               /\ g.act.tool \in {"draft", "send"} => transport = "jmap"
      OBVIOUS
    <3>1. g \in Grant /\ Signed1(g) /\ now \in Nat
      BY DEF AgencyInd, AgencyTyped, Proper, AgencyAssumption
    <3> QED BY <3>1 DEF Grant, Signed1
  <2>2. ASSUME NEW n \in Node, call[n] # NoCall
        PROVE  \/ call[n].step = "readback"
               \/ /\ call[n].step \in {"email", "pages", "history", "effect", "prior"}
                  /\ call[n].grant \in grants
                  /\ call[n].seen \subseteq Key /\ Cardinality(call[n].seen) <= MaxPages
    <3>1. CASE call[n].step # "readback"
      <4>1. call[n] \in Under(grants)
        BY <2>2, <3>1, CallTyped DEF AgencyInd
      <4> QED BY <4>1 DEF Under, Steps
    <3> QED BY <3>1
  <2>3. ASSUME NEW e \in events, NEW f \in events, e.key = f.key PROVE e = f
    <3>1. PICK g \in grants : g.act.tool = e.kind /\ g.act.id = e.key
      BY DEF AgencyInd, EventsSigned
    <3>2. PICK h \in grants : h.act.tool = f.kind /\ h.act.id = f.key
      BY DEF AgencyInd, EventsSigned
    <3>3. e \in [key : Key, kind : EventTools] /\ f \in [key : Key, kind : EventTools]
      BY DEF AgencyInd, AgencyTyped
    <3>4. e.kind = f.kind
      BY <2>3, <3>1, <3>2, <3>3 DEF AgencyInd, SignedOnce
    <3> QED BY <2>3, <3>3, <3>4
  <2>4. /\ now \in 0 .. MaxNow /\ transport \in {"jmap", "resend"} /\ pds \in {"cursor", "bounded", "stuck"}
        /\ mail.drafts \in SUBSET Draft /\ mail.flagged \subseteq mail.drafts
        /\ mail.submissions \subseteq mail.drafts
    BY DEF AgencyInd, AgencyTyped, Mailbox
  <2> QED BY <2>1, <2>2, <2>3, <2>4 DEF AgencyTypeOK
<1>2. SubmittedOnce
  <2> SUFFICES ASSUME ~(mail.discarded /\ mail.flagKept), NEW d \in Draft PROVE sent[d] <= 1
    BY DEF SubmittedOnce
  <2>1. sent[d] \in Nat
    BY DEF AgencyInd, AgencyTyped
  <2>2. sent[d] > 0 => sent[d] = 1
    BY DEF AgencyInd, SentOnce1
  <2> QED BY <2>1, <2>2
<1>3. ResentOnce
  <2> SUFFICES ASSUME NEW o \in Op PROVE posted[o].times <= 1
    BY DEF ResentOnce
  <2>1. posted[o].times \in Nat
    BY DEF AgencyInd, AgencyTyped
  <2>2. posted[o].times > 0 => posted[o].times = 1
    BY DEF AgencyInd, PostedOnce
  <2> QED BY <2>1, <2>2
<1>4. OneDraftPerAction
  BY DEF AgencyInd, DraftsDated
<1> QED BY <1>1, <1>2, <1>3, <1>4 DEF AgencyInv

LEMMA MailedUnwarned ==
  ASSUME AgencyAssumption, AgencyInd, [AgencyNext]_agencyVars,
         NEW n \in Node, sent' # sent \/ posted' # posted, call'[n] # call[n]
  PROVE  ~call[n].warned
<1>1. PICK m \in Node : SubmissionSet(m) \/ PostEmail(m)
  BY DEF AgencyNext, agencyVars, Tick, Sign, Begin, Discard, Step, ReadFails, ReadPage, ReadEmail,
         ReadHistory, ReadPrior, RefusedCall, EmailSet, CreateRecord, Readback
<1>2. /\ call[m] # NoCall /\ call[m].step = "effect" /\ call[m].grant.act.tool \in {"send", "submit"}
      /\ Answered(m)
  BY <1>1 DEF SubmissionSet, PostEmail, ReadyFor
<1>3. n = m
  BY <1>2, Zenon DEF Answered, Ends, AgencyInd, AgencyTyped
<1>4. Ahead(call[m])
  BY <1>2, CallFacts
<1> QED BY <1>2, <1>3, <1>4 DEF Ahead

LEMMA AgencyAlways == CorrespondenceSpec => []AgencyInd
<1>1. AgencyAssumption
  BY AgencyAssumption
<1>2. CorrespondenceInit => AgencyInd
  BY <1>1, AgencyStarts DEF CorrespondenceInit
<1>3. AgencyInd /\ [CorrespondenceNext]_correspondenceVars => AgencyInd'
  <2>1. [CorrespondenceNext]_correspondenceVars => [AgencyNext]_agencyVars
    BY DEF CorrespondenceNext, correspondenceVars, Messages, Agency
  <2> QED BY <1>1, <2>1, AgencyKeeps
<1> QED BY <1>2, <1>3, PTL DEF CorrespondenceSpec

\* What an owner signed happens once, whatever is repeated by one process or
\* by two and whichever answers are lost (agency_tools.mjs).
THEOREM SignedHappensOnce == CorrespondenceSpec => []AgencyInv
<1>1. AgencyAssumption
  BY AgencyAssumption
<1>2. AgencyInd => AgencyInv
  BY <1>1, AgencyIsRight
<1> QED BY <1>2, AgencyAlways, PTL

\* The suppression preflight reads its pages while the list grows, and never
\* lets a message go to a recipient who was on the list when it began.
THEOREM SuppressionsHold == CorrespondenceSpec => SuppressedNotMailed
<1> DEFINE Unwarned == \A n \in Node : (sent' # sent \/ posted' # posted) /\ call'[n] # call[n]
                                          => ~call[n].warned
<1>1. AgencyAssumption
  BY AgencyAssumption
<1>2. AgencyInd /\ [CorrespondenceNext]_correspondenceVars => [Unwarned]_agencyVars
  <2>1. [CorrespondenceNext]_correspondenceVars => [AgencyNext]_agencyVars
    BY DEF CorrespondenceNext, correspondenceVars, Messages, Agency
  <2> QED BY <1>1, <2>1, MailedUnwarned
<1> QED BY <1>2, AgencyAlways, PTL DEF CorrespondenceSpec, SuppressedNotMailed

PairT == Person \X Nat
MixT == (PairT \X Nat) \cup SUBSET PairT
ChainT == Seq(MixT)
KeyT == [chain : ChainT, n : Nat]
HeaderT == [dh : PairT, pn : Nat, n : Nat]
SkipT == [dh : PairT, n : Nat, key : KeyT]
SessionT == [root : ChainT, sends : ChainT, recvs : ChainT, self : PairT,
             peer : PairT \cup {NoKey}, ns : Nat, nr : Nat, pn : Nat, skipped : SUBSET SkipT]

\* The last thing mixed into a chain.
Newest(c) == c[Len(c)]

\* A key that p keeps is filed under what the other side sent.
FiledUnder(k, p) ==
  /\ k.key.n = k.n /\ k.dh[1] # p
  /\ k.key.chain # <<>> /\ \E x \in PairT : x[1] = p /\ Newest(k.key.chain) = {x, k.dh}

\* A session of p: its receiving chain and the chains of the kept keys are older than
\* its root, and the next key of the receiving chain is not kept yet.
SessionIn(s, p) ==
  /\ s \in SessionT /\ s.self[1] = p
  /\ s.peer # NoKey => s.peer[1] # p
  /\ s.recvs # NoChain =>
       /\ Len(s.recvs) < Len(s.root) /\ s.peer # NoKey
       /\ \E x \in PairT : x[1] = p /\ Newest(s.recvs) = {x, s.peer}
  /\ \A k \in s.skipped :
       /\ FiledUnder(k, p) /\ Len(k.key.chain) < Len(s.root)
       /\ k.key.chain = s.recvs => k.n < s.nr

\* How a session of one browser goes on.
Further(s, t) ==
  \/ Len(s.root) < Len(t.root)
  \/ /\ Len(s.root) = Len(t.root) /\ s.ns <= t.ns /\ s.nr <= t.nr
     /\ s.nr = t.nr => t.skipped \subseteq s.skipped
     /\ s.ns < t.ns \/ s.nr < t.nr \/ t.skipped # s.skipped

\* A key that is behind the session: of an older chain than its root, and gone.
Past(s, key) == Len(key.chain) < Len(s.root) /\ ~Leads(s, key)

LEMMA SkipKeysIs ==
  ASSUME NEW s \in SessionT, NEW until \in Nat, s.recvs # NoChain => s.peer \in PairT
  PROVE  LET t == SkipKeys(s, until)
         IN  /\ t \in SessionT
             /\ t.root = s.root /\ t.sends = s.sends /\ t.recvs = s.recvs /\ t.self = s.self
             /\ t.peer = s.peer /\ t.ns = s.ns /\ t.pn = s.pn
             /\ s.nr <= t.nr /\ s.skipped \subseteq t.skipped
             /\ \A k \in t.skipped \ s.skipped :
                  /\ s.recvs # NoChain /\ k.dh = s.peer /\ k.key = KdfCK(s.recvs, k.n)
                  /\ s.nr <= k.n /\ k.n < t.nr
<1> DEFINE t == SkipKeys(s, until)
           add == {[dh |-> s.peer, n |-> k, key |-> KdfCK(s.recvs, k)] : k \in s.nr .. until - 1}
<1>1. CASE s.recvs = NoChain \/ until <= s.nr
  <2>1. t = s
    BY <1>1 DEF SkipKeys
  <2>2. s.nr \in Nat
    BY DEF SessionT
  <2> QED BY <2>1, <2>2
<1>2. CASE ~ (s.recvs = NoChain \/ until <= s.nr)
  <2>1. t = [s EXCEPT !.nr = until, !.skipped = s.skipped \cup add]
    BY <1>2 DEF SkipKeys
  <2>2. /\ s.recvs \in ChainT /\ s.peer \in PairT /\ s.nr \in Nat /\ s.skipped \subseteq SkipT
        /\ s.nr < until
    BY <1>2 DEF SessionT
  <2>3. ASSUME NEW k \in add
        PROVE  k \in SkipT /\ k.dh = s.peer /\ k.key = KdfCK(s.recvs, k.n) /\ s.nr <= k.n /\ k.n < until
    <3>1. PICK n \in s.nr .. until - 1 : k = [dh |-> s.peer, n |-> n, key |-> KdfCK(s.recvs, n)]
      OBVIOUS
    <3>2. n \in Nat /\ s.nr <= n /\ n < until
      BY <2>2
    <3> QED BY <2>2, <3>1, <3>2 DEF SkipT, KeyT, KdfCK
  <2> HIDE DEF add
  <2>4. t \in SessionT
    BY <2>1, <2>2, <2>3 DEF SessionT
  <2>5. /\ t.root = s.root /\ t.sends = s.sends /\ t.recvs = s.recvs /\ t.self = s.self
        /\ t.peer = s.peer /\ t.ns = s.ns /\ t.pn = s.pn /\ t.nr = until /\ t.skipped = s.skipped \cup add
    BY <2>1 DEF SessionT
  <2> HIDE DEF t
  <2> QED BY <1>2, <2>2, <2>3, <2>4, <2>5 DEF t
<1> QED BY <1>1, <1>2

LEMMA FromChainIs ==
  ASSUME NEW s \in SessionT, NEW header \in HeaderT, NEW key \in KeyT, key.chain # <<>>,
         s.recvs # NoChain => s.peer \in PairT, FromChain(s, header, key).ok
  PROVE  LET t == FromChain(s, header, key).next
         IN  /\ t \in SessionT
             /\ t.root = s.root /\ t.sends = s.sends /\ t.recvs = s.recvs /\ t.self = s.self
             /\ t.peer = s.peer /\ t.ns = s.ns
             /\ s.recvs # NoChain /\ key.chain = s.recvs /\ s.nr <= key.n /\ t.nr = key.n + 1
             /\ s.skipped \subseteq t.skipped
             /\ \A k \in t.skipped \ s.skipped :
                  /\ k.dh = s.peer /\ k.key = KdfCK(s.recvs, k.n) /\ s.nr <= k.n /\ k.n < key.n
<1> DEFINE a == SkipKeys(s, header.n)
           t == FromChain(s, header, key).next
<1>1. header.n \in Nat /\ s.nr \in Nat
  BY DEF HeaderT, SessionT
<1>2. /\ a \in SessionT
      /\ a.root = s.root /\ a.sends = s.sends /\ a.recvs = s.recvs /\ a.self = s.self
      /\ a.peer = s.peer /\ a.ns = s.ns /\ a.pn = s.pn
      /\ s.nr <= a.nr /\ s.skipped \subseteq a.skipped
      /\ \A k \in a.skipped \ s.skipped :
           /\ s.recvs # NoChain /\ k.dh = s.peer /\ k.key = KdfCK(s.recvs, k.n)
           /\ s.nr <= k.n /\ k.n < a.nr
  BY <1>1, SkipKeysIs
<1>3. ~TooFar(s, header.n) /\ KdfCK(a.recvs, a.nr) = key
  BY DEF FromChain, Gap, Fails
<1>4. FromChain(s, header, key) = [ok |-> TRUE, next |-> [a EXCEPT !.nr = a.nr + 1]]
  BY <1>3 DEF FromChain
<1>5. t = [a EXCEPT !.nr = a.nr + 1]
  BY <1>4
<1> HIDE DEF a, t
<1>6. a.nr \in Nat /\ a.nr + 1 \in Nat /\ s.nr \in Nat
  BY <1>1, <1>2 DEF SessionT
<1>7. t \in SessionT
  BY <1>2, <1>5, <1>6 DEF SessionT
<1>8. /\ t.root = a.root /\ t.sends = a.sends /\ t.recvs = a.recvs /\ t.self = a.self
      /\ t.peer = a.peer /\ t.ns = a.ns /\ t.nr = a.nr + 1 /\ t.skipped = a.skipped
  BY <1>2, <1>5 DEF SessionT
<1>9. key.chain = s.recvs /\ key.n = a.nr /\ s.recvs # NoChain
  BY <1>2, <1>3 DEF KdfCK, NoChain
<1> QED BY <1>2, <1>6, <1>7, <1>8, <1>9 DEF t

\* A chain is longer by what is mixed into it.
LEMMA Mixing ==
  ASSUME NEW c \in ChainT, NEW out \in MixT
  PROVE  /\ KdfRK(c, out) \in ChainT /\ Len(KdfRK(c, out)) = Len(c) + 1
         /\ Newest(KdfRK(c, out)) = out /\ KdfRK(c, out) # <<>>
BY DEF ChainT, KdfRK, Newest

LEMMA Agreements ==
  ASSUME NEW x \in PairT, NEW y \in PairT
  PROVE  DH(x, y) \in MixT
BY DEF MixT, DH

LEMMA DhRatchetIs ==
  ASSUME NEW s \in SessionT, NEW header \in HeaderT, NEW pair \in PairT, s.recvs # NoChain => s.peer \in PairT
  PROVE  LET d == DhRatchet(s, header, pair)
         IN  /\ d \in SessionT
             /\ d.recvs = KdfRK(s.root, DH(s.self, header.dh))
             /\ d.sends = KdfRK(d.recvs, DH(pair, header.dh)) /\ d.root = d.sends
             /\ d.self = pair /\ d.peer = header.dh /\ d.ns = 0 /\ d.nr = 0
             /\ s.skipped \subseteq d.skipped
             /\ \A k \in d.skipped \ s.skipped :
                  /\ s.recvs # NoChain /\ k.dh = s.peer /\ k.key = KdfCK(s.recvs, k.n) /\ s.nr <= k.n
<1> DEFINE a == SkipKeys(s, header.pn)
           recvChain == KdfRK(s.root, DH(s.self, header.dh))
           sendChain == KdfRK(recvChain, DH(pair, header.dh))
           d == DhRatchet(s, header, pair)
<1>1. /\ header.pn \in Nat /\ header.dh \in PairT /\ s.root \in ChainT /\ s.self \in PairT
  BY DEF HeaderT, SessionT
<1>2. /\ a \in SessionT
      /\ a.root = s.root /\ a.self = s.self
      /\ s.skipped \subseteq a.skipped
      /\ \A k \in a.skipped \ s.skipped :
           /\ s.recvs # NoChain /\ k.dh = s.peer /\ k.key = KdfCK(s.recvs, k.n) /\ s.nr <= k.n
  BY <1>1, SkipKeysIs
<1>3. recvChain \in ChainT /\ sendChain \in ChainT
  <2>1. DH(s.self, header.dh) \in MixT /\ DH(pair, header.dh) \in MixT
    BY <1>1, Agreements
  <2> QED BY <1>1, <2>1, Mixing
<1>4. d = [a EXCEPT !.pn = a.ns, !.ns = 0, !.nr = 0, !.peer = header.dh,
                    !.recvs = recvChain, !.self = pair, !.root = sendChain, !.sends = sendChain]
  BY <1>2 DEF DhRatchet
<1> HIDE DEF a, recvChain, sendChain, d
<1>5. a.ns \in Nat /\ 0 \in Nat
  BY <1>2 DEF SessionT
<1>6. d \in SessionT
  BY <1>1, <1>2, <1>3, <1>4, <1>5 DEF SessionT
<1>7. /\ d.recvs = recvChain /\ d.sends = sendChain /\ d.root = sendChain /\ d.self = pair /\ d.peer = header.dh
      /\ d.ns = 0 /\ d.nr = 0 /\ d.skipped = a.skipped
  BY <1>2, <1>4 DEF SessionT
<1> QED BY <1>2, <1>6, <1>7 DEF d, recvChain, sendChain

\* A key taken from the chain, and those passed over, are behind the session.
LEMMA ChainGoesOn ==
  ASSUME NEW p \in Person, NEW s, SessionIn(s, p), NEW header \in HeaderT, NEW key \in KeyT, key.chain # <<>>,
         FromChain(s, header, key).ok
  PROVE  LET t == FromChain(s, header, key).next
         IN  /\ SessionIn(t, p)
             /\ t.root = s.root /\ t.sends = s.sends /\ t.self = s.self /\ t.ns = s.ns /\ s.nr < t.nr
             /\ Past(t, key) /\ \A k \in KeyT : Past(s, k) => Past(t, k)
<1> DEFINE t == FromChain(s, header, key).next
<1>0. s \in SessionT /\ (s.recvs # NoChain => s.peer \in PairT)
  BY DEF SessionIn, SessionT
<1>1. /\ t \in SessionT
      /\ t.root = s.root /\ t.sends = s.sends /\ t.recvs = s.recvs /\ t.self = s.self
      /\ t.peer = s.peer /\ t.ns = s.ns
      /\ s.recvs # NoChain /\ key.chain = s.recvs /\ s.nr <= key.n /\ t.nr = key.n + 1
      /\ s.skipped \subseteq t.skipped
      /\ \A k \in t.skipped \ s.skipped :
           /\ k.dh = s.peer /\ k.key = KdfCK(s.recvs, k.n) /\ s.nr <= k.n /\ k.n < key.n
  BY <1>0, FromChainIs
<1> HIDE DEF t
<1>2. /\ key.n \in Nat /\ s.nr \in Nat /\ t.nr \in Nat /\ s.nr < t.nr /\ s.skipped \subseteq SkipT
      /\ t.skipped \subseteq SkipT
  BY <1>0, <1>1 DEF SessionT, KeyT
<1>3. \A k \in t.skipped : k.n \in Nat /\ k.key \in KeyT /\ k.key.n \in Nat
  BY <1>2 DEF SkipT, KeyT
<1>4. \A k \in t.skipped \ s.skipped : k.key.chain = s.recvs /\ k.key.n = k.n /\ k.n < key.n
  <2>1. \A c, n : KdfCK(c, n).chain = c /\ KdfCK(c, n).n = n
    BY DEF KdfCK
  <2> QED BY <1>1, <2>1
<1>5. \A k \in s.skipped : k.key.n = k.n /\ (k.key.chain = s.recvs => k.n < s.nr) /\ Len(k.key.chain) < Len(s.root)
  BY DEF SessionIn, FiledUnder
<1>6. Len(s.recvs) < Len(s.root)
  BY <1>1 DEF SessionIn
<1>7. SessionIn(t, p)
  <2>1. t.self[1] = p /\ (t.peer # NoKey => t.peer[1] # p)
    BY <1>1 DEF SessionIn
  <2>2. t.recvs # NoChain =>
          /\ Len(t.recvs) < Len(t.root) /\ t.peer # NoKey
          /\ \E x \in PairT : x[1] = p /\ Newest(t.recvs) = {x, t.peer}
    BY <1>1 DEF SessionIn
  <2>3. ASSUME NEW k \in t.skipped
        PROVE  FiledUnder(k, p) /\ Len(k.key.chain) < Len(t.root) /\ (k.key.chain = t.recvs => k.n < t.nr)
    <3>1. CASE k \in s.skipped
      <4>1. FiledUnder(k, p)
        BY <3>1 DEF SessionIn
      <4>2. k.key.chain = s.recvs => k.n < t.nr
        BY <1>2, <1>3, <1>5, <3>1
      <4> QED BY <1>1, <1>5, <3>1, <4>1, <4>2
    <3>2. CASE k \notin s.skipped
      <4>1. k.key.chain = s.recvs /\ k.key.n = k.n /\ k.n < key.n /\ k.dh = s.peer
        BY <1>1, <1>4, <3>2
      <4>2. k.n < t.nr
        BY <1>1, <1>2, <1>3, <4>1
      <4>3. FiledUnder(k, p)
        BY <1>1, <4>1 DEF FiledUnder, SessionIn, NoChain
      <4> QED BY <1>1, <1>6, <4>1, <4>2, <4>3
    <3> QED BY <3>1, <3>2
  <2> QED BY <1>1, <2>1, <2>2, <2>3 DEF SessionIn
<1>8. Past(t, key)
  <2>1. \A k \in t.skipped : k.key # key
    <3>1. \A k \in s.skipped : k.key.chain = s.recvs => k.key.n < s.nr
      BY <1>5
    <3>2. \A k \in s.skipped : k.key.chain # s.recvs \/ k.key.n # key.n
      BY <1>1, <1>2, <1>3, <3>1
    <3>3. \A k \in t.skipped \ s.skipped : k.key.n # key.n
      BY <1>2, <1>3, <1>4
    <3> QED BY <1>1, <3>2, <3>3
  <2>2. ~ (key.n >= t.nr)
    BY <1>1, <1>2
  <2> QED BY <1>1, <1>6, <2>1, <2>2 DEF Past, Leads
<1>9. ASSUME NEW k \in KeyT, Past(s, k) PROVE Past(t, k)
  <2>1. k.n \in Nat
    BY DEF KeyT
  <2>2. ~ (k.chain = s.recvs /\ k.n >= s.nr) /\ \A e \in s.skipped : e.key # k
    BY <1>9 DEF Past, Leads
  <2>3. ~ (k.chain = t.recvs /\ k.n >= t.nr)
    <3>1. k.n >= t.nr => k.n >= s.nr
      BY <1>2, <2>1
    <3> QED BY <1>1, <2>2, <3>1
  <2>4. \A e \in t.skipped \ s.skipped : e.key # k
    <3>1. \A e \in t.skipped \ s.skipped : e.key.chain = s.recvs /\ e.key.n >= s.nr
      BY <1>1, <1>2, <1>3, <1>4
    <3> QED BY <2>2, <3>1
  <2> QED BY <1>1, <1>9, <2>2, <2>3, <2>4 DEF Past, Leads
<1> QED BY <1>1, <1>2, <1>7, <1>8, <1>9 DEF t

\* A ratchet step starts chains longer than anything the session led to.
LEMMA RatchetGoesOn ==
  ASSUME NEW p \in Person, NEW s, SessionIn(s, p), NEW header \in HeaderT, header.dh[1] # p,
         NEW pair \in PairT, pair[1] = p
  PROVE  LET d == DhRatchet(s, header, pair)
         IN  /\ SessionIn(d, p)
             /\ Len(s.root) < Len(d.root) /\ d.self = pair /\ d.ns = 0
             /\ d.sends # <<>> /\ Newest(d.sends) = DH(pair, header.dh)
             /\ \A k \in KeyT : Past(s, k) => Past(d, k)
<1> DEFINE d == DhRatchet(s, header, pair)
<1>0. s \in SessionT /\ (s.recvs # NoChain => s.peer \in PairT) /\ s.root \in ChainT /\ s.self \in PairT
      /\ header.dh \in PairT
  BY DEF SessionIn, SessionT, HeaderT
<1>1. /\ d \in SessionT
      /\ d.recvs = KdfRK(s.root, DH(s.self, header.dh))
      /\ d.sends = KdfRK(d.recvs, DH(pair, header.dh)) /\ d.root = d.sends
      /\ d.self = pair /\ d.peer = header.dh /\ d.ns = 0 /\ d.nr = 0
      /\ s.skipped \subseteq d.skipped
      /\ \A k \in d.skipped \ s.skipped :
           /\ s.recvs # NoChain /\ k.dh = s.peer /\ k.key = KdfCK(s.recvs, k.n) /\ s.nr <= k.n
  BY <1>0, DhRatchetIs
<1> HIDE DEF d
<1>2. /\ d.recvs \in ChainT /\ Len(d.recvs) = Len(s.root) + 1 /\ Newest(d.recvs) = DH(s.self, header.dh)
      /\ Len(d.root) = Len(d.recvs) + 1 /\ d.sends # <<>> /\ Newest(d.sends) = DH(pair, header.dh)
      /\ d.recvs # <<>>
  <2>1. DH(s.self, header.dh) \in MixT /\ DH(pair, header.dh) \in MixT
    BY <1>0, Agreements
  <2>2. /\ d.recvs \in ChainT /\ Len(d.recvs) = Len(s.root) + 1 /\ Newest(d.recvs) = DH(s.self, header.dh)
        /\ d.recvs # <<>>
    BY <1>0, <1>1, <2>1, Mixing
  <2>3. Len(d.sends) = Len(d.recvs) + 1 /\ d.sends # <<>> /\ Newest(d.sends) = DH(pair, header.dh)
    BY <1>1, <2>1, <2>2, Mixing
  <2> QED BY <1>1, <2>2, <2>3
<1>3. Len(s.root) \in Nat /\ Len(d.recvs) \in Nat /\ Len(d.root) \in Nat
      /\ Len(s.root) < Len(d.recvs) /\ Len(d.recvs) < Len(d.root) /\ Len(s.root) < Len(d.root)
  <2>1. Len(s.root) \in Nat
    BY <1>0 DEF ChainT
  <2> QED BY <1>2, <2>1
<1>4. \A k \in d.skipped : k.n \in Nat /\ k.key \in KeyT /\ k.key.n \in Nat /\ Len(k.key.chain) \in Nat
  BY <1>1 DEF SessionT, SkipT, KeyT, ChainT
<1>5. \A k \in d.skipped \ s.skipped : k.key.chain = s.recvs /\ k.key.n = k.n /\ Len(k.key.chain) < Len(s.root)
  <2>1. \A c, n : KdfCK(c, n).chain = c /\ KdfCK(c, n).n = n
    BY DEF KdfCK
  <2> QED BY <1>1, <2>1 DEF SessionIn
<1>6. \A k \in d.skipped : Len(k.key.chain) < Len(s.root)
  BY <1>5 DEF SessionIn
<1>7. SessionIn(d, p)
  <2>1. d.self[1] = p /\ d.peer[1] # p /\ d.peer # NoKey
    <3>1. header.dh # <<>>
      BY <1>0 DEF PairT
    <3> QED BY <1>1, <3>1 DEF NoKey
  <2>2. \E x \in PairT : x[1] = p /\ Newest(d.recvs) = {x, d.peer}
    BY <1>0, <1>1, <1>2 DEF DH, SessionIn
  <2>3. ASSUME NEW k \in d.skipped
        PROVE  FiledUnder(k, p) /\ Len(k.key.chain) < Len(d.root) /\ (k.key.chain = d.recvs => k.n < d.nr)
    <3>1. Len(k.key.chain) < Len(d.root) /\ k.key.chain # d.recvs
      BY <1>3, <1>4, <1>6
    <3>2. CASE k \in s.skipped
      BY <3>1, <3>2 DEF SessionIn
    <3>3. CASE k \notin s.skipped
      <4>1. s.recvs # NoChain /\ k.key.chain = s.recvs /\ k.key.n = k.n /\ k.dh = s.peer
        BY <1>1, <1>5, <3>3
      <4>2. FiledUnder(k, p)
        BY <4>1 DEF FiledUnder, SessionIn, NoChain
      <4> QED BY <3>1, <4>2
    <3> QED BY <3>2, <3>3
  <2> QED BY <1>1, <1>3, <2>1, <2>2, <2>3 DEF SessionIn
<1>8. ASSUME NEW k \in KeyT, Past(s, k) PROVE Past(d, k)
  <2>1. k.n \in Nat /\ Len(k.chain) \in Nat
    BY DEF KeyT, ChainT
  <2>2. ~ (k.chain = s.recvs /\ k.n >= s.nr) /\ (\A e \in s.skipped : e.key # k) /\ Len(k.chain) < Len(s.root)
    BY <1>8 DEF Past, Leads
  <2>3. Len(k.chain) < Len(d.root) /\ k.chain # d.recvs
    BY <1>3, <2>1, <2>2
  <2>4. \A e \in d.skipped \ s.skipped : e.key # k
    <3>1. s.nr \in Nat
      BY <1>0 DEF SessionT
    <3>2. \A e \in d.skipped \ s.skipped : e.key.chain = s.recvs /\ e.key.n >= s.nr
      BY <1>1, <1>4, <1>5, <3>1
    <3> QED BY <2>2, <3>2
  <2> QED BY <2>2, <2>3, <2>4 DEF Past, Leads
<1> QED BY <1>1, <1>2, <1>3, <1>7, <1>8 DEF d

\* A kept key is used once: nothing else is filed where it was.
LEMMA KeptGoesOn ==
  ASSUME NEW p \in Person, NEW s, SessionIn(s, p), NEW header \in HeaderT, NEW key \in KeyT,
         FromKept(s, header, key).ok
  PROVE  LET t == FromKept(s, header, key).next
         IN  /\ SessionIn(t, p) /\ Further(s, t) /\ s.skipped # {}
             /\ t.root = s.root /\ t.sends = s.sends /\ t.self = s.self /\ t.ns = s.ns
             /\ Past(t, key) /\ \A k \in KeyT : Past(s, k) => Past(t, k)
<1> DEFINE t == FromKept(s, header, key).next
           kept == Kept(s, header)
<1>1. PICK k \in kept : k.key = key
  BY DEF FromKept, Fails
<1>2. FromKept(s, header, key) = [ok |-> TRUE, next |-> [s EXCEPT !.skipped = s.skipped \ kept]]
  BY <1>1 DEF FromKept
<1>3. t = [s EXCEPT !.skipped = s.skipped \ kept]
  BY <1>2
<1>4. s \in SessionT /\ k \in s.skipped /\ k.dh = header.dh /\ k.n = header.n /\ kept \subseteq s.skipped
  BY <1>1 DEF SessionIn, Kept
<1>5. \A e \in s.skipped : e.dh = header.dh /\ e.n = header.n => e \in kept
  BY DEF Kept
<1> HIDE DEF t, kept
<1>6. t \in SessionT
  BY <1>3, <1>4 DEF SessionT
<1>7. /\ t.root = s.root /\ t.sends = s.sends /\ t.recvs = s.recvs /\ t.self = s.self
      /\ t.peer = s.peer /\ t.ns = s.ns /\ t.nr = s.nr /\ t.skipped = s.skipped \ kept
  BY <1>3, <1>4 DEF SessionT
<1>8. SessionIn(t, p)
  BY <1>6, <1>7 DEF SessionIn
<1>9. Further(s, t)
  <2>1. t.skipped \subseteq s.skipped /\ t.skipped # s.skipped
    BY <1>1, <1>4, <1>7
  <2>2. s.ns <= s.ns /\ s.nr <= s.nr
    BY <1>4 DEF SessionT
  <2> QED BY <1>7, <2>1, <2>2 DEF Further
<1>10. Past(t, key)
  <2>1. FiledUnder(k, p) /\ Len(key.chain) < Len(s.root) /\ (key.chain = s.recvs => k.n < s.nr)
    BY <1>1, <1>4 DEF SessionIn
  <2>2. ~ (key.chain = t.recvs /\ key.n >= t.nr)
    <3>1. key.n = k.n /\ k.n \in Nat /\ s.nr \in Nat
      BY <1>1, <1>4, <2>1 DEF FiledUnder, KeyT, SessionT
    <3> QED BY <1>7, <2>1, <3>1
  <2>3. ASSUME NEW e \in t.skipped, e.key = key PROVE FALSE
    <3>1. e \in s.skipped /\ e \notin kept /\ FiledUnder(e, p)
      BY <1>7, <2>3 DEF SessionIn
    <3>2. e.n = k.n
      BY <1>1, <2>1, <2>3, <3>1 DEF FiledUnder
    <3>3. PICK x \in PairT : x[1] = p /\ Newest(key.chain) = {x, k.dh}
      BY <1>1, <2>1 DEF FiledUnder
    <3>4. PICK y \in PairT : y[1] = p /\ Newest(key.chain) = {y, e.dh}
      BY <2>3, <3>1 DEF FiledUnder
    <3>5. k.dh[1] # p /\ e.dh[1] # p
      BY <2>1, <3>1 DEF FiledUnder
    <3>6. e.dh = k.dh
      BY <3>3, <3>4, <3>5
    <3> QED BY <1>4, <1>5, <3>1, <3>2, <3>6
  <2> QED BY <1>7, <2>1, <2>2, <2>3 DEF Past, Leads
<1>11. \A e \in KeyT : Past(s, e) => Past(t, e)
  BY <1>7 DEF Past, Leads
<1> QED BY <1>4, <1>7, <1>8, <1>9, <1>10, <1>11 DEF t

\* ratchetDecrypt, of any session and any message of the other side.
LEMMA DecryptGoesOn ==
  ASSUME NEW p \in Person, NEW s, SessionIn(s, p), NEW header \in HeaderT, header.dh[1] # p,
         NEW key \in KeyT, key.chain # <<>>, NEW pair \in PairT, pair[1] = p,
         RatchetDecrypt(s, header, key, pair).ok
  PROVE  LET t == RatchetDecrypt(s, header, key, pair).next
         IN  /\ SessionIn(t, p) /\ Further(s, t)
             /\ \/ /\ t.root = s.root /\ t.sends = s.sends /\ t.self = s.self /\ t.ns = s.ns
                   /\ s.skipped # {} \/ s.peer # NoKey
                \/ t.self = pair /\ t.ns = 0 /\ t.sends # <<>> /\ Newest(t.sends) = DH(pair, header.dh)
             /\ Past(t, key) /\ \A k \in KeyT : Past(s, k) => Past(t, k)
<1>0. header.dh # NoKey
  BY DEF HeaderT, PairT, NoKey
<1>1. CASE Kept(s, header) # {}
  <2>1. RatchetDecrypt(s, header, key, pair) = FromKept(s, header, key)
    BY <1>1 DEF RatchetDecrypt
  <2> QED BY <2>1, KeptGoesOn
<1>2. CASE Kept(s, header) = {} /\ s.peer = header.dh
  <2>1. RatchetDecrypt(s, header, key, pair) = FromChain(s, header, key)
    BY <1>2 DEF RatchetDecrypt
  <2> DEFINE t == FromChain(s, header, key).next
  <2>2. /\ SessionIn(t, p)
        /\ t.root = s.root /\ t.sends = s.sends /\ t.self = s.self /\ t.ns = s.ns /\ s.nr < t.nr
        /\ Past(t, key) /\ \A k \in KeyT : Past(s, k) => Past(t, k)
    BY <2>1, ChainGoesOn
  <2> HIDE DEF t
  <2>3. Further(s, t)
    <3>1. s.ns \in Nat /\ s.nr \in Nat /\ t.nr \in Nat /\ s.ns <= s.ns
      BY <2>2 DEF SessionIn, SessionT
    <3>2. s.nr <= t.nr /\ s.nr # t.nr
      BY <2>2, <3>1
    <3> QED BY <2>2, <3>1, <3>2 DEF Further
  <2> QED BY <1>0, <1>2, <2>1, <2>2, <2>3 DEF t
<1>3. CASE Kept(s, header) = {} /\ s.peer # header.dh
  <2> DEFINE d == DhRatchet(s, header, pair)
             t == FromChain(d, header, key).next
  <2>1. ~TooFar(s, header.pn)
    BY <1>3 DEF RatchetDecrypt, Gap
  <2>2. RatchetDecrypt(s, header, key, pair) = FromChain(d, header, key)
    BY <1>3, <2>1 DEF RatchetDecrypt
  <2>3. /\ SessionIn(d, p)
        /\ Len(s.root) < Len(d.root) /\ d.self = pair /\ d.ns = 0
        /\ d.sends # <<>> /\ Newest(d.sends) = DH(pair, header.dh)
        /\ \A k \in KeyT : Past(s, k) => Past(d, k)
    BY RatchetGoesOn
  <2> HIDE DEF d
  <2>4. /\ SessionIn(t, p)
        /\ t.root = d.root /\ t.sends = d.sends /\ t.self = d.self /\ t.ns = d.ns
        /\ Past(t, key) /\ \A k \in KeyT : Past(d, k) => Past(t, k)
    BY <2>2, <2>3, ChainGoesOn
  <2> HIDE DEF t
  <2>5. Further(s, t)
    BY <2>3, <2>4 DEF Further
  <2>6. \A k \in KeyT : Past(s, k) => Past(t, k)
    BY <2>3, <2>4
  <2> QED BY <2>2, <2>3, <2>4, <2>5, <2>6 DEF t
<1> QED BY <1>1, <1>2, <1>3

\* ratchetEncrypt takes the next key of the sending chain.
LEMMA EncryptGoesOn ==
  ASSUME NEW p \in Person, NEW s, SessionIn(s, p)
  PROVE  LET r == RatchetEncrypt(s)
         IN  /\ SessionIn(r.next, p) /\ Further(s, r.next)
             /\ r.next.sends = s.sends /\ r.next.self = s.self /\ r.next.root = s.root
             /\ r.header \in HeaderT /\ r.header.dh = s.self
             /\ r.key \in KeyT /\ r.key.chain = s.sends /\ r.key.n = s.ns /\ r.next.ns = s.ns + 1
             /\ \A k \in KeyT : Past(s, k) => Past(r.next, k)
<1> DEFINE t == [s EXCEPT !.ns = s.ns + 1]
<1>1. /\ RatchetEncrypt(s).next = t /\ RatchetEncrypt(s).key = [chain |-> s.sends, n |-> s.ns]
      /\ RatchetEncrypt(s).header = [dh |-> s.self, pn |-> s.pn, n |-> s.ns]
  BY DEF RatchetEncrypt, KdfCK
<1>2. /\ s \in SessionT /\ s.ns \in Nat /\ s.ns + 1 \in Nat /\ s.nr \in Nat /\ s.pn \in Nat
      /\ s.self \in PairT /\ s.sends \in ChainT /\ s.nr <= s.nr /\ s.ns <= s.ns + 1 /\ s.ns < s.ns + 1
  BY DEF SessionIn, SessionT
<1>3. t \in SessionT
  BY <1>2 DEF SessionT
<1>4. /\ t.root = s.root /\ t.sends = s.sends /\ t.recvs = s.recvs /\ t.self = s.self
      /\ t.peer = s.peer /\ t.ns = s.ns + 1 /\ t.nr = s.nr /\ t.skipped = s.skipped
  BY <1>2 DEF SessionT
<1> HIDE DEF t
<1>5. SessionIn(t, p)
  BY <1>3, <1>4 DEF SessionIn
<1>6. Further(s, t)
  BY <1>2, <1>4 DEF Further
<1>7. \A k \in KeyT : Past(s, k) => Past(t, k)
  BY <1>4 DEF Past, Leads
<1>8. RatchetEncrypt(s).key \in KeyT /\ RatchetEncrypt(s).header \in HeaderT
  BY <1>1, <1>2 DEF KeyT, HeaderT
<1> QED BY <1>1, <1>4, <1>5, <1>6, <1>7, <1>8

\* The secret of a handshake is a chain of one mix.
LEMMA SecretIsChain ==
  ASSUME NEW x \in PairT, NEW otk \in Nat
  PROVE  Secret(x, otk) \in ChainT /\ Len(Secret(x, otk)) = 1
<1>1. <<x, otk>> \in MixT
  BY DEF MixT
<1> QED BY <1>1 DEF Secret, ChainT

\* A session begun by writing, and one begun by being written to.
LEMMA SendingStarts ==
  ASSUME NEW p \in Person, NEW q \in Person, q # p, NEW secret \in ChainT, NEW pair \in PairT, pair[1] = p
  PROVE  LET s == StartSending(secret, pair, q)
         IN  /\ SessionIn(s, p) /\ s.self = pair /\ s.ns = 0
             /\ s.sends # <<>> /\ Newest(s.sends) = DH(pair, Signed(q))
<1> DEFINE chain == KdfRK(secret, DH(pair, Signed(q)))
           s == StartSending(secret, pair, q)
<1>1. Signed(q) \in PairT /\ Signed(q)[1] = q /\ Signed(q) # NoKey
  BY DEF Signed, PairT, NoKey
<1>2. chain \in ChainT /\ Newest(chain) = DH(pair, Signed(q)) /\ chain # <<>>
  BY <1>1, Agreements, Mixing
<1>3. NoChain \in ChainT
  BY DEF NoChain, ChainT
<1> HIDE DEF chain
<1>4. s = [root |-> chain, sends |-> chain, recvs |-> NoChain, self |-> pair,
           peer |-> Signed(q), ns |-> 0, nr |-> 0, pn |-> 0, skipped |-> {}]
  BY DEF StartSending, chain
<1>5. s \in SessionT
  BY <1>1, <1>2, <1>3, <1>4 DEF SessionT
<1>6. s.self = pair /\ s.peer = Signed(q) /\ s.recvs = NoChain /\ s.skipped = {} /\ s.sends = chain /\ s.ns = 0
  BY <1>4
<1> HIDE DEF s
<1> QED BY <1>1, <1>2, <1>5, <1>6 DEF SessionIn, s

\* A session begun by reading is well formed and has received nothing.
LEMMA ReceivingStarts ==
  ASSUME NEW p \in Person, NEW secret \in ChainT
  PROVE  LET s == StartReceiving(secret, p)
         IN  SessionIn(s, p) /\ s.peer = NoKey /\ s.skipped = {}
<1> DEFINE s == StartReceiving(secret, p)
<1>1. Signed(p) \in PairT /\ Signed(p)[1] = p
  BY DEF Signed, PairT
<1>2. NoChain \in ChainT
  BY DEF NoChain, ChainT
<1>3. s = [root |-> secret, sends |-> NoChain, recvs |-> NoChain, self |-> Signed(p),
           peer |-> NoKey, ns |-> 0, nr |-> 0, pn |-> 0, skipped |-> {}]
  BY DEF StartReceiving
<1>4. s \in SessionT
  BY <1>1, <1>2, <1>3 DEF SessionT
<1>5. s.self = Signed(p) /\ s.peer = NoKey /\ s.recvs = NoChain /\ s.skipped = {}
  BY <1>3
<1> HIDE DEF s
<1> QED BY <1>1, <1>4, <1>5 DEF SessionIn, s

\* The counters a session is compared by are numbers.
LEMMA SessionNumbers ==
  ASSUME NEW p \in Person, NEW s, SessionIn(s, p)
  PROVE  Len(s.root) \in Nat /\ s.ns \in Nat /\ s.nr \in Nat
BY DEF SessionIn, SessionT, ChainT

\* To be further is transitive ...
LEMMA FurtherGoesOn ==
  ASSUME NEW p \in Person, NEW q \in Person, NEW r \in Person, NEW s, NEW t, NEW u,
         SessionIn(s, p), SessionIn(t, q), SessionIn(u, r), Further(s, t), Further(t, u)
  PROVE  Further(s, u)
<1>1. /\ Len(s.root) \in Nat /\ Len(t.root) \in Nat /\ Len(u.root) \in Nat
      /\ s.ns \in Nat /\ t.ns \in Nat /\ u.ns \in Nat /\ s.nr \in Nat /\ t.nr \in Nat /\ u.nr \in Nat
  BY SessionNumbers
<1>2. CASE Len(s.root) < Len(t.root) \/ Len(t.root) < Len(u.root)
  BY <1>1, <1>2 DEF Further
<1>3. CASE Len(s.root) = Len(t.root) /\ Len(t.root) = Len(u.root)
  <2>1. /\ s.ns <= t.ns /\ s.nr <= t.nr /\ (s.nr = t.nr => t.skipped \subseteq s.skipped)
        /\ s.ns < t.ns \/ s.nr < t.nr \/ t.skipped # s.skipped
        /\ t.ns <= u.ns /\ t.nr <= u.nr /\ (t.nr = u.nr => u.skipped \subseteq t.skipped)
        /\ t.ns < u.ns \/ t.nr < u.nr \/ u.skipped # t.skipped
    BY <1>1, <1>3 DEF Further
  <2>2. s.ns <= u.ns /\ s.nr <= u.nr /\ (s.nr = u.nr => s.nr = t.nr /\ t.nr = u.nr)
    BY <1>1, <2>1
  <2>3. s.nr = u.nr => u.skipped \subseteq s.skipped
    BY <2>1, <2>2
  <2>4. s.ns < t.ns => s.ns < u.ns
    BY <1>1, <2>1
  <2>5. s.nr < t.nr => s.nr < u.nr
    BY <1>1, <2>1
  <2>6. s.nr = u.nr \/ s.nr < u.nr
    BY <1>1, <2>2
  <2>7. s.ns < u.ns \/ s.nr < u.nr \/ u.skipped # s.skipped
    <3>1. CASE s.nr = u.nr /\ t.skipped # s.skipped
      BY <2>1, <2>2, <3>1
    <3>2. CASE ~ (s.nr = u.nr /\ t.skipped # s.skipped)
      BY <2>1, <2>4, <2>5, <2>6, <3>2
    <3> QED BY <3>1, <3>2
  <2> QED BY <1>3, <2>2, <2>3, <2>7 DEF Further
<1>4. CASE ~ (Len(s.root) < Len(t.root) \/ Len(t.root) < Len(u.root))
  <2>1. Len(s.root) = Len(t.root) /\ Len(t.root) = Len(u.root)
    BY <1>4 DEF Further
  <2> QED BY <1>3, <2>1
<1> QED BY <1>2, <1>4

\* ... and irreflexive: a session that went further is another one.
LEMMA FurtherIsNew ==
  ASSUME NEW p \in Person, NEW s, SessionIn(s, p)
  PROVE  ~Further(s, s)
<1>1. Len(s.root) \in Nat /\ s.ns \in Nat /\ s.nr \in Nat
  BY DEF SessionIn, SessionT, ChainT
<1> QED BY <1>1 DEF Further

---------------------------------------------------------------------------

PrekeyT == [ephemeral : PairT, otk : Nat]
MessageT == [from : Person, at : Conv, conv : Conv, prekey : PrekeyT \cup {None}, header : HeaderT,
             key : KeyT, number : Int, status : {"accepted", "quarantined"}]

\* The keys that devices have generated, their signed prekeys first; a chain that ends
\* in an agreement of such keys.
Made == {x \in PairT : x[2] <= generated[x[1]]}
Young(c) == c \in ChainT /\ c # <<>> /\ Newest(c) \subseteq Made

SessionOK(s, p) == SessionIn(s, p) /\ s.self \in Made /\ Young(s.sends)

\* What p can read of the log.
Readable(p, i) == i \in DOMAIN log /\ log[i].status = "accepted" /\ log[i].from # p

Writing(j) == j.at \in {"bundles", "seal", "put", "post"}
Holding(j) == j.at \in {"put", "keep"}
Posting(j) == j.at = "post"

\* A packet that p has sealed.
PacketOK(p, j) ==
  /\ j.prekey \in PrekeyT \cup {None}
  /\ j.header \in HeaderT /\ j.header.dh \in Made /\ j.header.dh[1] = p
  /\ j.key \in KeyT /\ Young(j.key.chain)

JobOK(p, j) ==
  /\ j.at \in {"idle", "fetch", "walk", "keep", "bundles", "seal", "put", "post"}
  /\ j.at = "fetch" => j.conv \in Conv
  /\ Writing(j) => j.conv \in Conv /\ j.number \in Int
  /\ j.at \in {"walk", "keep"} => j.todo \in Seq(Nat) /\ \A k \in DOMAIN j.todo : Readable(p, j.todo[k])
  /\ j.at = "walk" => j = [at |-> "walk", todo |-> j.todo]
  /\ j.at = "keep" => j.todo # <<>>
  /\ j.at = "seal" => j.otk \in Nat
  /\ j.at \in {"put", "post"} => PacketOK(p, j)
  /\ Holding(j) => /\ SessionOK(j.next, p)
                   /\ j.base # None => SessionOK(j.base, p) /\ Further(j.base, j.next)
  /\ ~verified[p] => j.at \notin {"seal", "put", "post", "keep"}

Busy == {w \in Person \X Nat : w[2] \in Slots[w[1]] /\ Writing(job[w[1]][w[2]])}

WhereOK ==
  /\ oneTime \in [Person -> SUBSET Prekeys] /\ verified \in [Person -> BOOLEAN]
  /\ groupCounter \in [Person -> Int]
  /\ selected \in [Person -> Conv] /\ canSend \in [Person -> BOOLEAN]
  /\ admits \in [Person -> BOOLEAN] /\ opened \in [Person -> SUBSET (DOMAIN log)]
  /\ clicks \in 0..MaxClicks /\ sends \in 0..MaxSends

SessionsOK ==
  /\ DOMAIN session = Person
  /\ \A p \in Person : session[p] # None => SessionOK(session[p], p) /\ verified[p]

JobsOK ==
  /\ DOMAIN job = Person
  /\ \A p \in Person : DOMAIN job[p] = Slots[p] /\ \A s \in Slots[p] : JobOK(p, job[p][s])

LogOK ==
  /\ log \in Seq(MessageT) /\ generated \in [Person -> Nat]
  /\ \A i \in DOMAIN log : log[i].header.dh \in Made /\ log[i].header.dh[1] = log[i].from
                           /\ Young(log[i].key.chain)

RoomOK == IsFiniteSet(Busy) /\ Len(log) + Cardinality(Busy) <= sends

TypedInd == WhereOK /\ SessionsOK /\ JobsOK /\ LogOK /\ RoomOK

\* Keys are only generated, messages only appended and accepted, people only verified.
Grows ==
  /\ generated' \in [Person -> Nat] /\ \A q \in Person : generated[q] <= generated'[q]
  /\ log' \in Seq(MessageT) /\ Len(log) <= Len(log')
  /\ \A i \in DOMAIN log : /\ log'[i].from = log[i].from /\ log'[i].key = log[i].key
                           /\ log[i].status = "accepted" => log'[i].status = "accepted"
  /\ \A q \in Person : verified[q] => verified'[q]

\* Keys once generated stay generated, and the log only grows.
LEMMA MadeStays ==
  ASSUME LogOK, Grows
  PROVE  Made \subseteq Made' /\ DOMAIN log \subseteq DOMAIN log'
<1>1. \A x \in PairT : x[1] \in Person /\ x[2] \in Nat
  BY DEF PairT
<1>2. \A a, b, c \in Nat : a <= b /\ b <= c => a <= c
  OBVIOUS
<1>3. \A q \in Person : generated[q] \in Nat /\ generated'[q] \in Nat /\ generated[q] <= generated'[q]
  BY DEF LogOK, Grows
<1>4. ASSUME NEW x \in PairT, x[2] <= generated[x[1]] PROVE x[2] <= generated'[x[1]]
  BY <1>1, <1>2, <1>3, <1>4
<1>5. DOMAIN log = 1..Len(log) /\ DOMAIN log' = 1..Len(log') /\ Len(log) \in Nat /\ Len(log') \in Nat
  BY DEF LogOK, Grows
<1>6. Len(log) <= Len(log')
  BY DEF Grows
<1> QED BY <1>4, <1>5, <1>6 DEF Made

\* A well-formed session stays so,
LEMMA SessionStays ==
  ASSUME LogOK, Grows, NEW p \in Person, NEW s, SessionOK(s, p)
  PROVE  SessionOK(s, p)'
BY MadeStays DEF SessionOK, Young

\* a message that may be read stays readable,
LEMMA ReadableStays ==
  ASSUME LogOK, Grows, NEW p, NEW i, Readable(p, i)
  PROVE  Readable(p, i)'
BY MadeStays DEF Readable, Grows

\* and so a job of a page stays what it was.
LEMMA JobStays ==
  ASSUME LogOK, Grows, NEW p \in Person, NEW j, JobOK(p, j)
  PROVE  JobOK(p, j)'
<1>1. /\ j.at \in {"idle", "fetch", "walk", "keep", "bundles", "seal", "put", "post"}
      /\ j.at = "fetch" => j.conv \in Conv
      /\ Writing(j) => j.conv \in Conv /\ j.number \in Int
      /\ j.at = "walk" => j = [at |-> "walk", todo |-> j.todo]
      /\ j.at = "keep" => j.todo # <<>>
      /\ j.at = "seal" => j.otk \in Nat
  BY DEF JobOK
<1>2. j.at \in {"walk", "keep"} => j.todo \in Seq(Nat) /\ \A k \in DOMAIN j.todo : Readable(p, j.todo[k])'
  BY ReadableStays DEF JobOK
<1>3. j.at \in {"put", "post"} => PacketOK(p, j)'
  BY MadeStays DEF JobOK, PacketOK, Young
<1>4. Holding(j) => /\ SessionOK(j.next, p)'
                    /\ j.base # None => SessionOK(j.base, p)' /\ Further(j.base, j.next)
  BY SessionStays DEF JobOK
<1>5. ~verified'[p] => j.at \notin {"seal", "put", "post", "keep"}
  BY DEF JobOK, Grows
<1> QED BY <1>1, <1>2, <1>3, <1>4, <1>5 DEF JobOK, Writing, Holding

\* One job of one page goes on.
LEMMA JobBecomes ==
  ASSUME JobsOK, NEW p \in Person, NEW s \in Slots[p], NEW j, Becomes(p, s, j)
  PROVE  /\ DOMAIN job' = Person /\ \A q \in Person : DOMAIN job'[q] = Slots[q]
         /\ job'[p][s] = j
         /\ \A q \in Person : \A t \in Slots[q] : q # p \/ t # s => job'[q][t] = job[q][t]
BY DEF JobsOK, Becomes

\* One slot takes a new job, all others keep theirs.
LEMMA JobsGoOn ==
  ASSUME JobsOK, LogOK, Grows, NEW p \in Person, NEW s \in Slots[p], NEW j, Becomes(p, s, j), JobOK(p, j)'
  PROVE  JobsOK'
<1>1. ASSUME NEW q \in Person, NEW t \in Slots[q] PROVE JobOK(q, job[q][t])'
  <2>1. CASE q = p /\ t = s
    <3>1. job'[q][t] = j
      BY <2>1, JobBecomes
    <3> QED BY <2>1, <3>1
  <2>2. CASE q # p \/ t # s
    <3>1. PICK k : k = job[q][t]
      OBVIOUS
    <3>2. job'[q][t] = k /\ JobOK(q, k)
      BY <2>2, <3>1, JobBecomes DEF JobsOK
    <3>3. JobOK(q, k)'
      BY <3>2, JobStays
    <3> QED BY <3>2, <3>3
  <2> QED BY <2>1, <2>2
<1> QED BY <1>1, JobBecomes DEF JobsOK

\* What is being written is in the room it was given.
LEMMA BusyBecomes ==
  ASSUME JobsOK, NEW p \in Person, NEW s \in Slots[p], NEW j, Becomes(p, s, j)
  PROVE  /\ Busy' \subseteq Busy \cup {<<p, s>>}
         /\ (Writing(j) => Writing(job[p][s])) => Busy' \subseteq Busy
         /\ Writing(job[p][s]) /\ ~Writing(j) => <<p, s>> \in Busy /\ Busy' \subseteq Busy \ {<<p, s>>}
<1>1. /\ job'[p][s] = j
      /\ \A q \in Person : \A t \in Slots[q] : q # p \/ t # s => job'[q][t] = job[q][t]
  BY JobBecomes
<1>2. s \in Nat
  BY MessengerAssumption
<1>3. ASSUME NEW w \in Busy' PROVE w \in Person \X Nat /\ w[2] \in Slots[w[1]] /\ Writing(job[w[1]][w[2]])'
  BY <1>3 DEF Busy
<1>4. ASSUME NEW w \in Busy', w # <<p, s>> PROVE w \in Busy
  <2>1. w \in Person \X Nat /\ w[2] \in Slots[w[1]] /\ Writing(job[w[1]][w[2]])'
    BY <1>3
  <2>2. w[1] # p \/ w[2] # s
    BY <1>4, <2>1
  <2>3. job'[w[1]][w[2]] = job[w[1]][w[2]]
    BY <1>1, <2>1, <2>2
  <2> QED BY <2>1, <2>3 DEF Busy, Writing
<1>5. <<p, s>> \in Busy' => Writing(j)
  BY <1>1, <1>3 DEF Writing
<1>6. Writing(job[p][s]) => <<p, s>> \in Busy
  BY <1>2 DEF Busy
<1> QED BY <1>4, <1>5, <1>6

\* There is room in the log for every send under way.
LEMMA RoomStays ==
  ASSUME TypedInd, Busy' \subseteq Busy, Len(log') = Len(log), sends' = sends
  PROVE  RoomOK'
<1>1. IsFiniteSet(Busy) /\ Len(log) + Cardinality(Busy) <= sends
  BY DEF TypedInd, RoomOK
<1>2. IsFiniteSet(Busy') /\ Cardinality(Busy') <= Cardinality(Busy)
  BY <1>1, FS_Subset
<1>3. Cardinality(Busy) \in Nat /\ Cardinality(Busy') \in Nat /\ Len(log) \in Nat /\ sends \in Nat
  BY <1>1, <1>2, FS_CardinalityType DEF TypedInd, LogOK, WhereOK
<1>4. \A a, b, c, d \in Nat : a + b <= d /\ c <= b => a + c <= d
  OBVIOUS
<1>5. Len(log) + Cardinality(Busy') <= sends
  BY <1>1, <1>2, <1>3, <1>4
<1> QED BY <1>2, <1>5 DEF RoomOK

\* A page works on with the log and the database as they are.
LEMMA PageGoesOn ==
  ASSUME TypedInd, NEW p \in Person, NEW s \in Slots[p], NEW j, Becomes(p, s, j), JobOK(p, j),
         Writing(j) => Writing(job[p][s]), UNCHANGED <<session, generated, verified, log, sends>>, WhereOK'
  PROVE  TypedInd'
<1>1. Grows
  BY DEF TypedInd, LogOK, Grows
<1>2. LogOK'
  BY DEF TypedInd, LogOK, Made, Young
<1>3. JobOK(p, j)'
  BY <1>1, JobStays DEF TypedInd
<1>4. JobsOK'
  BY <1>1, <1>3, JobsGoOn DEF TypedInd
<1>5. SessionsOK'
  <2>1. \A q \in Person : session[q] # None => SessionOK(session[q], q)'
    BY <1>1, SessionStays DEF TypedInd, SessionsOK
  <2> QED BY <2>1 DEF TypedInd, SessionsOK
<1>6. RoomOK'
  <2>1. Busy' \subseteq Busy
    BY BusyBecomes DEF TypedInd
  <2> QED BY <2>1, RoomStays
<1> QED BY <1>2, <1>4, <1>5, <1>6 DEF TypedInd

\* A page that waits or loads is in order.
LEMMA LoadingOK ==
  ASSUME NEW p \in Person, NEW c \in Conv
  PROVE  JobOK(p, Loading(c)) /\ JobOK(p, Idle) /\ ~Writing(Loading(c)) /\ ~Writing(Idle)
BY DEF JobOK, Loading, Idle, Writing, Holding

\* A new job gets one of the page's slots.
LEMMA FreeIsSlot == ASSUME NEW p \in Person PROVE Free(p) \subseteq Slots[p]
BY DEF Free

\* The page opens on a conversation.
LEMMA ConvExists == FirstConv \in Conv
BY MessengerAssumption DEF FirstConv

\* Clicks are counted within their bound.
LEMMA ClickCounts ==
  ASSUME clicks \in 0..MaxClicks, Clicked
  PROVE  clicks' \in 0..MaxClicks
BY MessengerAssumption DEF Clicked

\* Choosing a conversation keeps the types.
LEMMA SelectTyped ==
  ASSUME TypedInd, NEW p \in Person, NEW c \in Conv, Select(p, c)
  PROVE  TypedInd'
<1>1. PICK s \in Slots[p] : Becomes(p, s, Loading(c))
  BY FreeIsSlot DEF Select, StartLoad
<1>2. UNCHANGED <<session, generated, verified, log, sends>>
  BY DEF Select, database, server
<1>3. WhereOK'
  BY ClickCounts DEF Select, TypedInd, WhereOK, database, server
<1> QED BY <1>1, <1>2, <1>3, LoadingOK, PageGoesOn

\* Asking for a bundle keeps the types.
LEMMA BundlesTyped ==
  ASSUME TypedInd, NEW p \in Person, NEW s \in Slots[p], Bundles(p, s)
  PROVE  TypedInd'
<1> DEFINE old == job[p][s]
<1>1. PICK otk \in 0..MaxPrekeys :
        Becomes(p, s, [at |-> "seal", conv |-> old.conv, number |-> old.number, otk |-> otk])
  BY DEF Bundles
<1>2. JobOK(p, old) /\ old.at = "bundles" /\ verified[p]
  BY DEF TypedInd, JobsOK, Bundles
<1> DEFINE j == [at |-> "seal", conv |-> old.conv, number |-> old.number, otk |-> otk]
<1>3. JobOK(p, j)
  BY <1>2, MessengerAssumption DEF JobOK, Writing, Holding
<1>4. Writing(old)
  BY <1>2 DEF Writing
<1>5. UNCHANGED <<session, generated, verified, log, sends>>
  BY DEF Bundles, database
<1>6. WhereOK'
  BY DEF Bundles, TypedInd, WhereOK, database
<1> HIDE DEF j
<1> QED BY <1>1, <1>3, <1>4, <1>5, <1>6, PageGoesOn DEF j

\* A load that ends or a send that fails keeps the types.
LEMMA LoadsTyped ==
  ASSUME TypedInd, NEW p \in Person, NEW s \in Slots[p], SendFails(p, s) \/ Loaded(p, s) \/ LoadFails(p, s)
  PROVE  TypedInd'
<1>1. Becomes(p, s, Idle)
  BY DEF SendFails, Loaded, LoadFails
<1>2. UNCHANGED <<session, generated, verified, log, sends>>
  BY DEF SendFails, Loaded, LoadFails, database, server, history
<1>3. WhereOK'
  <2>1. canSend' \in [Person -> BOOLEAN]
    BY DEF SendFails, Loaded, LoadFails, TypedInd, WhereOK
  <2>2. UNCHANGED <<oneTime, verified, groupCounter, selected, admits, opened, log, clicks, sends>>
    BY DEF SendFails, Loaded, LoadFails, database, server, history
  <2> QED BY <2>1, <2>2 DEF TypedInd, WhereOK
<1> QED BY <1>1, <1>2, <1>3, ConvExists, LoadingOK, PageGoesOn

\* Some places of the log can be put in their order.
Ordered(ids) == \E f \in [1 .. Cardinality(ids) -> ids] : \A i, k \in DOMAIN f : i < k => f[i] < f[k]

\* A list in order stays in order with a greater number at its end.
LEMMA AddsGreatest ==
  ASSUME NEW m \in Nat, NEW U \in SUBSET (1..(m - 1)), Ordered(U)
  PROVE  Ordered(U \cup {m})
<1> DEFINE ids == U \cup {m}
           c == Cardinality(U)
<1>1. \A u \in U : u \in Nat /\ u < m
  BY SMT
<1>2. IsFiniteSet(U) /\ c \in Nat
  <2>1. m - 1 \in Int
    OBVIOUS
  <2>2. IsFiniteSet(1..(m - 1))
    BY <2>1, FS_Interval
  <2>3. IsFiniteSet(U)
    BY <2>2, FS_Subset
  <2> QED BY <2>3, FS_CardinalityType
<1>3. m \notin U
  BY <1>1
<1>4. Cardinality(ids) = c + 1
  BY <1>2, <1>3, FS_AddElement
<1>5. PICK g \in [1..c -> U] : \A i, k \in DOMAIN g : i < k => g[i] < g[k]
  BY DEF Ordered
<1> DEFINE f == [i \in 1..(c + 1) |-> IF i = c + 1 THEN m ELSE g[i]]
<1> HIDE DEF c
<1>6. \A i \in 1..(c + 1) : i # c + 1 => i \in 1..c
  BY <1>2
<1>7. \A i \in 1..c : g[i] \in U
  BY <1>5
<1>8. f \in [1..(c + 1) -> ids] /\ DOMAIN f = 1..(c + 1)
  BY <1>6, <1>7
<1>9. ASSUME NEW i \in 1..(c + 1), NEW k \in 1..(c + 1), i < k PROVE f[i] < f[k]
  <2>1. i \in 1..c /\ i # c + 1
    BY <1>2, <1>9
  <2>2. f[i] = g[i] /\ g[i] < m
    BY <1>1, <1>7, <2>1
  <2>3. CASE k = c + 1
    <3>1. f[k] = m
      BY <2>3
    <3> HIDE DEF f
    <3> QED BY <2>2, <3>1
  <2>4. CASE k # c + 1
    <3>1. k \in 1..c /\ f[k] = g[k]
      BY <1>6, <2>4
    <3>2. g[i] < g[k]
      BY <1>5, <1>9, <2>1, <3>1
    <3> HIDE DEF f
    <3> QED BY <2>2, <3>1, <3>2
  <2> QED BY <2>3, <2>4
<1> HIDE DEF f
<1>10. \A i, k \in DOMAIN f : i < k => f[i] < f[k]
  BY <1>8, <1>9
<1>11. f \in [1..Cardinality(ids) -> ids]
  BY <1>4, <1>8
<1> HIDE DEF ids
<1>12. Ordered(ids)
  BY <1>10, <1>11 DEF Ordered
<1> QED BY <1>12 DEF ids

\* Every set of places in the log has a list in order, by induction on its greatest.
LEMMA InOrderExists ==
  ASSUME NEW n \in Nat
  PROVE  \A ids \in SUBSET (1..n) : Ordered(ids)
<1> DEFINE Bad == {m \in 0..n : \E ids \in SUBSET (1..m) : ~Ordered(ids)}
           F == {1..m : m \in Bad}
<1>1. ASSUME Bad # {} PROVE FALSE
  <2>1. F # {}
    BY <1>1
  <2>2. F \subseteq SUBSET (1..n)
    <3>1. \A m \in 0..n : 1..m \subseteq 1..n
      OBVIOUS
    <3>2. Bad \subseteq 0..n
      OBVIOUS
    <3> HIDE DEF Bad
    <3> QED BY <3>1, <3>2
  <2>3. PICK x \in F : \A y \in F : y \subseteq x => y = x
    <3>1. IsFiniteSet(1..n)
      BY FS_Interval
    <3> DEFINE S == 1..n
    <3>2. IsFiniteSet(S) /\ F \subseteq SUBSET S
      BY <2>2, <3>1
    <3> HIDE DEF F, S
    <3> QED BY <2>1, <3>2, Minimal
  <2>4. PICK m \in Bad : x = 1..m
    OBVIOUS
  <2>5. m \in Nat /\ m <= n
    OBVIOUS
  <2>6. PICK ids \in SUBSET (1..m) : ~Ordered(ids)
    OBVIOUS
  <2>7. m # 0
    <3> SUFFICES ASSUME m = 0 PROVE FALSE
      OBVIOUS
    <3>1. 1..0 = {}
      OBVIOUS
    <3>2. ids = {} /\ Cardinality(ids) = 0
      BY <3>1, FS_EmptySet
    <3> DEFINE f == [i \in {} |-> i]
    <3>3. f \in [{} -> {}] /\ DOMAIN f = {}
      OBVIOUS
    <3>4. Ordered(ids)
      <4> HIDE DEF f
      <4> QED BY <3>1, <3>2, <3>3 DEF Ordered
    <3> QED BY <2>6, <3>4
  <2>8. m - 1 \in 0..n /\ 1..(m - 1) \subseteq 1..m /\ m \in 1..m /\ m \notin 1..(m - 1)
    BY <2>5, <2>7
  <2>9. m - 1 \notin Bad
    <3>1. 1..(m - 1) \notin F
      BY <2>3, <2>4, <2>8
    <3> QED BY <3>1
  <2>10. \A U \in SUBSET (1..(m - 1)) : Ordered(U)
    BY <2>8, <2>9
  <2> DEFINE U == ids \ {m}
  <2>11. U \in SUBSET (1..(m - 1))
    <3>1. \A i \in 1..m : i # m => i \in 1..(m - 1)
      BY <2>5
    <3> QED BY <3>1
  <2>12. Ordered(U) /\ Ordered(U \cup {m})
    <3> HIDE DEF U
    <3>1. Ordered(U)
      BY <2>10, <2>11
    <3> QED BY <2>5, <2>11, <3>1, AddsGreatest
  <2>13. ids = U \/ ids = U \cup {m}
    OBVIOUS
  <2> QED BY <2>6, <2>12, <2>13
<1>2. \A ids \in SUBSET (1..n) : n \in 0..n
  OBVIOUS
<1> QED BY <1>1, <1>2

\* The list a page walks through names messages it may read.
LEMMA InOrderIs ==
  ASSUME LogOK, NEW p \in Person, NEW c
  PROVE  InOrder(Visible(p, c)) \in Seq(Nat) /\ \A k \in DOMAIN InOrder(Visible(p, c)) :
           Readable(p, InOrder(Visible(p, c))[k])
<1> DEFINE ids == Visible(p, c)
           f == InOrder(ids)
<1>1. DOMAIN log = 1..Len(log) /\ Len(log) \in Nat
  BY DEF LogOK
<1>2. ids \in SUBSET (1..Len(log)) /\ ids \subseteq Nat
  BY <1>1 DEF Visible
<1>3. f \in [1 .. Cardinality(ids) -> ids]
  <2>1. \E g \in [1 .. Cardinality(ids) -> ids] : \A i, k \in DOMAIN g : i < k => g[i] < g[k]
    <3> HIDE DEF ids
    <3> QED BY <1>1, <1>2, InOrderExists DEF Ordered
  <2> HIDE DEF ids
  <2> QED BY <2>1 DEF InOrder
<1>4. Cardinality(ids) \in Nat
  <2>1. IsFiniteSet(1..Len(log))
    BY <1>1, FS_Interval
  <2>2. IsFiniteSet(ids)
    BY <1>2, <2>1, FS_Subset
  <2> QED BY <2>2, FS_CardinalityType
<1>5. f \in Seq(Nat)
  BY <1>2, <1>3, <1>4
<1>6. \A i \in ids : Readable(p, i)
  BY DEF Visible, Readable
<1> QED BY <1>3, <1>5, <1>6

\* The answer to the list of messages keeps the types.
LEMMA FetchedTyped ==
  ASSUME TypedInd, NEW p \in Person, NEW s \in Slots[p], Fetched(p, s)
  PROVE  TypedInd'
<1> DEFINE todo == InOrder(Visible(p, job[p][s].conv))
           j == [at |-> "walk", todo |-> todo]
<1>1. todo \in Seq(Nat) /\ \A k \in DOMAIN todo : Readable(p, todo[k])
  BY InOrderIs DEF TypedInd
<1>2. Becomes(p, s, j)
  BY DEF Fetched
<1> HIDE DEF todo
<1>3. JobOK(p, j) /\ ~Writing(j)
  BY <1>1 DEF JobOK, Writing, Holding
<1>4. UNCHANGED <<session, generated, verified, log, sends>>
  BY DEF Fetched, database, server, history
<1>5. WhereOK'
  BY DEF Fetched, TypedInd, WhereOK, database, server, history
<1>6. PICK k : k = j
  OBVIOUS
<1>7. Becomes(p, s, k) /\ JobOK(p, k) /\ ~Writing(k)
  BY <1>2, <1>3, <1>6
<1> QED BY <1>4, <1>5, <1>7, PageGoesOn

\* A page works on while the log and the database grow.
LEMMA GoesOn ==
  ASSUME TypedInd, Grows, LogOK', SessionsOK', WhereOK',
         NEW p \in Person, NEW s \in Slots[p], NEW j, Becomes(p, s, j), JobOK(p, j)',
         Writing(j) => Writing(job[p][s]), Len(log') = Len(log), sends' = sends
  PROVE  TypedInd'
<1>1. JobsOK'
  BY JobsGoOn DEF TypedInd
<1>2. Busy' \subseteq Busy
  BY BusyBecomes DEF TypedInd
<1>3. RoomOK'
  BY <1>2, RoomStays
<1> QED BY <1>1, <1>3 DEF TypedInd

\* Sessions nobody writes stay well formed,
LEMMA SessionsStay ==
  ASSUME TypedInd, Grows, UNCHANGED session
  PROVE  SessionsOK'
<1>1. \A q \in Person : session[q] # None => SessionOK(session[q], q)'
  BY SessionStays DEF TypedInd, SessionsOK
<1> QED BY <1>1 DEF TypedInd, SessionsOK, Grows

\* and so do jobs nobody moves.
LEMMA JobsStay ==
  ASSUME TypedInd, Grows, UNCHANGED job
  PROVE  JobsOK'
<1>1. ASSUME NEW q \in Person, NEW t \in Slots[q] PROVE JobOK(q, job[q][t])'
  <2>1. PICK k : k = job[q][t]
    OBVIOUS
  <2>2. JobOK(q, k)'
    BY <2>1, JobStays DEF TypedInd, JobsOK
  <2> QED BY <2>1, <2>2
<1> QED BY <1>1 DEF TypedInd, JobsOK

\* New keys are generated, and the log is as it is.
LEMMA LogStays ==
  ASSUME TypedInd, Grows, UNCHANGED log
  PROVE  LogOK'
<1>1. Made \subseteq Made'
  BY MadeStays DEF TypedInd
<1>2. generated' \in [Person -> Nat]
  BY DEF Grows
<1> QED BY <1>1, <1>2 DEF TypedInd, LogOK, Young

\* A step that generates no key and writes no message only goes on.
LEMMA QuietGrows ==
  ASSUME TypedInd, UNCHANGED <<log, verified, generated>>
  PROVE  Grows
BY DEF TypedInd, LogOK, Grows

\* Registrations keep the types.
LEMMA RegisterTyped ==
  ASSUME TypedInd, UNCHANGED <<session, oneTime, verified, generated, groupCounter, selected, canSend, job,
                               log, admits, clicks, sends, opened>>
  PROVE  TypedInd'
<1>1. Grows
  BY QuietGrows
<1>2. LogOK' /\ SessionsOK' /\ JobsOK'
  BY <1>1, LogStays, SessionsStay, JobsStay
<1>3. WhereOK'
  BY DEF TypedInd, WhereOK
<1>4. Busy' = Busy
  BY DEF Busy
<1>5. RoomOK'
  BY <1>4 DEF TypedInd, RoomOK
<1> QED BY <1>2, <1>3, <1>5 DEF TypedInd

\* Comparing a fingerprint keeps the types.
LEMMA VerifyTyped ==
  ASSUME TypedInd, NEW p \in Person, Verify(p)
  PROVE  TypedInd'
<1>1. verified' \in [Person -> BOOLEAN] /\ \A q \in Person : verified[q] => verified'[q]
  BY DEF Verify, TypedInd, WhereOK
<1>2. UNCHANGED <<oneTime, generated, groupCounter, selected, canSend, job, log, admits, sends, opened>>
  BY DEF Verify, page, server
<1>3. Grows
  BY <1>1, <1>2 DEF TypedInd, LogOK, Grows
<1>4. LogOK' /\ JobsOK'
  BY <1>2, <1>3, LogStays, JobsStay
<1>5. SessionsOK'
  <2>1. /\ DOMAIN session' = Person
        /\ \A q \in Person : session'[q] # None => session'[q] = session[q]
    BY DEF Verify, TypedInd, SessionsOK
  <2>2. ASSUME NEW q \in Person, session'[q] # None PROVE (SessionOK(session[q], q) /\ verified[q])'
    <3>1. PICK k : k = session'[q]
      OBVIOUS
    <3>2. SessionOK(k, q) /\ verified[q]
      BY <2>1, <2>2, <3>1 DEF TypedInd, SessionsOK
    <3>3. SessionOK(k, q)'
      BY <1>3, <3>2, SessionStays DEF TypedInd
    <3> QED BY <1>1, <3>1, <3>2, <3>3
  <2> QED BY <2>1, <2>2 DEF SessionsOK
<1>6. WhereOK'
  <2>1. clicks' \in 0..MaxClicks
    BY ClickCounts DEF Verify, TypedInd, WhereOK
  <2> QED BY <1>1, <1>2, <2>1 DEF TypedInd, WhereOK
<1>7. RoomOK'
  <2>1. Busy' = Busy
    BY <1>2 DEF Busy
  <2> QED BY <1>2, <2>1 DEF TypedInd, RoomOK
<1> QED BY <1>4, <1>5, <1>6, <1>7 DEF TypedInd

\* Quarantined messages are accepted, none is taken back.
LEMMA TrustTyped ==
  ASSUME TypedInd, NEW p \in Person, Trust(p)
  PROVE  TypedInd'
<1>1. PICK s \in Slots[p] : Becomes(p, s, Loading(selected[p]))
  BY FreeIsSlot DEF Trust, StartLoad
<1>2. UNCHANGED <<session, generated, verified, oneTime, groupCounter, selected, canSend, sends, opened>>
  BY DEF Trust, database
<1>3. /\ log \in Seq(MessageT) /\ Len(log) \in Nat /\ DOMAIN log = 1..Len(log)
      /\ \A i \in DOMAIN log : log[i] \in MessageT
  BY DEF TypedInd, LogOK
<1>4. /\ DOMAIN log' = DOMAIN log
      /\ \A i \in DOMAIN log : log'[i] = log[i] \/ log'[i] = [log[i] EXCEPT !.status = "accepted"]
  BY <1>3 DEF Trust
<1>5. ASSUME NEW i \in DOMAIN log
      PROVE  /\ log'[i] \in MessageT /\ log'[i].from = log[i].from /\ log'[i].key = log[i].key
             /\ log'[i].header = log[i].header
             /\ log[i].status = "accepted" => log'[i].status = "accepted"
  BY <1>3, <1>4 DEF MessageT
<1>6. log' \in Seq(MessageT) /\ Len(log') = Len(log)
  <2>1. log' = [i \in 1..Len(log) |-> log'[i]]
    BY <1>3, <1>4 DEF Trust
  <2> QED BY <1>3, <1>5, <2>1
<1>7. Grows
  BY <1>2, <1>3, <1>5, <1>6 DEF TypedInd, LogOK, Grows
<1>8. LogOK'
  <2>1. Made' = Made
    BY <1>2 DEF Made
  <2>2. \A i \in DOMAIN log' : log'[i].header.dh \in Made /\ log'[i].header.dh[1] = log'[i].from
                               /\ Young(log'[i].key.chain)
    BY <1>4, <1>5 DEF TypedInd, LogOK
  <2> QED BY <1>2, <1>6, <2>1, <2>2 DEF TypedInd, LogOK, Young
<1>9. SessionsOK'
  BY <1>2, <1>7, SessionsStay
<1>10. WhereOK'
  <2>1. clicks' \in 0..MaxClicks
    BY ClickCounts DEF Trust, TypedInd, WhereOK
  <2>2. admits' \in [Person -> BOOLEAN]
    BY DEF Trust, TypedInd, WhereOK
  <2> QED BY <1>2, <1>4, <2>1, <2>2 DEF TypedInd, WhereOK
<1>11. selected[p] \in Conv
  BY DEF TypedInd, WhereOK
<1>12. JobOK(p, Loading(selected[p])) /\ ~Writing(Loading(selected[p]))
  BY <1>11, LoadingOK
<1>13. PICK j : j = Loading(selected[p])
  OBVIOUS
<1>14. JobOK(p, j)'
  BY <1>7, <1>12, <1>13, JobStays DEF TypedInd
<1> QED BY <1>1, <1>2, <1>6, <1>7, <1>8, <1>9, <1>10, <1>12, <1>13, <1>14, GoesOn

\* Loading the page afresh keeps the types.
LEMMA ReloadTyped ==
  ASSUME TypedInd, NEW p \in Person, Reload(p)
  PROVE  TypedInd'
<1>1. UNCHANGED <<session, generated, verified, oneTime, groupCounter, log, admits, sends, opened>>
  BY DEF Reload, database, server
<1>2. Grows
  BY <1>1, QuietGrows
<1>3. LogOK' /\ SessionsOK'
  BY <1>1, <1>2, LogStays, SessionsStay
<1>4. /\ DOMAIN job' = Person /\ \A q \in Person : DOMAIN job'[q] = Slots[q]
      /\ \A q \in Person : \A t \in Slots[q] :
           job'[q][t] = job[q][t] \/ job'[q][t] = Idle \/ job'[q][t] = Loading(FirstConv)
  BY DEF Reload, TypedInd, JobsOK
<1>5. JobsOK'
  <2>1. ASSUME NEW q \in Person, NEW t \in Slots[q] PROVE JobOK(q, job[q][t])'
    <3>1. PICK k : k = job'[q][t]
      OBVIOUS
    <3>2. JobOK(q, k)
      BY <1>4, <3>1, ConvExists, LoadingOK DEF TypedInd, JobsOK
    <3>3. JobOK(q, k)'
      BY <1>2, <3>2, JobStays DEF TypedInd
    <3> QED BY <3>1, <3>3
  <2> QED BY <1>4, <2>1 DEF JobsOK
<1>6. Busy' \subseteq Busy
  <2>1. \A q \in Person : \A t \in Slots[q] : Writing(job'[q][t]) => Writing(job[q][t])
    BY <1>4, ConvExists, LoadingOK
  <2> QED BY <2>1 DEF Busy, Writing
<1>7. RoomOK'
  BY <1>1, <1>6, RoomStays
<1>8. WhereOK'
  <2>1. clicks' \in 0..MaxClicks
    BY ClickCounts DEF Reload, TypedInd, WhereOK
  <2>2. selected' \in [Person -> Conv] /\ canSend' \in [Person -> BOOLEAN]
    BY ConvExists DEF Reload, TypedInd, WhereOK
  <2> QED BY <1>1, <2>1, <2>2 DEF TypedInd, WhereOK
<1> QED BY <1>3, <1>5, <1>7, <1>8 DEF TypedInd

\* A message that is begun gets its room in the log.
LEMMA SendClickTyped ==
  ASSUME TypedInd, NEW p \in Person, SendClick(p)
  PROVE  TypedInd'
<1> DEFINE j == [at |-> "bundles", conv |-> selected[p],
                 number |-> IF selected[p] \in Groups THEN groupCounter[p] ELSE -1]
<1>1. PICK s \in Slots[p] : Becomes(p, s, j)
  BY FreeIsSlot DEF SendClick
<1>2. UNCHANGED <<session, generated, verified, oneTime, groupCounter, selected, log, admits, clicks, opened>>
  BY DEF SendClick, database, server
<1>3. Grows
  BY <1>2, QuietGrows
<1>4. LogOK' /\ SessionsOK'
  BY <1>2, <1>3, LogStays, SessionsStay
<1>5. JobOK(p, j)
  <2>1. selected[p] \in Conv /\ groupCounter[p] \in Int
    BY DEF TypedInd, WhereOK
  <2> QED BY <2>1 DEF JobOK, Writing, Holding
<1>6. JobsOK' /\ Busy' \subseteq Busy \cup {<<p, s>>}
  <2> HIDE DEF j
  <2>1. JobOK(p, j)'
    <3>1. PICK k : k = j
      OBVIOUS
    <3>2. JobOK(p, k)'
      BY <1>3, <1>5, <3>1, JobStays DEF TypedInd
    <3>3. j' = j
      BY <1>2 DEF j
    <3> QED BY <3>1, <3>2, <3>3
  <2>2. PICK k : k = j
    OBVIOUS
  <2>3. j' = j
    BY <1>2 DEF j
  <2>4. Becomes(p, s, k) /\ JobOK(p, k)'
    BY <1>1, <2>1, <2>2, <2>3
  <2> QED BY <1>3, <2>4, JobsGoOn, BusyBecomes DEF TypedInd
<1>7. RoomOK'
  <2>1. IsFiniteSet(Busy) /\ Len(log) + Cardinality(Busy) <= sends
    BY DEF TypedInd, RoomOK
  <2>2. /\ IsFiniteSet(Busy \cup {<<p, s>>})
        /\ Cardinality(Busy \cup {<<p, s>>}) <= Cardinality(Busy) + 1
    <3>1. /\ IsFiniteSet(Busy \cup {<<p, s>>}) /\ Cardinality(Busy) \in Nat
          /\ \/ Cardinality(Busy \cup {<<p, s>>}) = Cardinality(Busy)
             \/ Cardinality(Busy \cup {<<p, s>>}) = Cardinality(Busy) + 1
      BY <2>1, FS_AddElement, FS_CardinalityType, Zenon
    <3> QED BY <3>1
  <2>3. IsFiniteSet(Busy') /\ Cardinality(Busy') <= Cardinality(Busy \cup {<<p, s>>})
    BY <1>6, <2>2, FS_Subset
  <2>4. /\ Cardinality(Busy) \in Nat /\ Cardinality(Busy') \in Nat /\ Cardinality(Busy \cup {<<p, s>>}) \in Nat
        /\ Len(log) \in Nat /\ sends \in Nat
    BY <2>1, <2>2, <2>3, FS_CardinalityType DEF TypedInd, LogOK, WhereOK
  <2>5. sends' = sends + 1
    BY DEF SendClick
  <2>6. \A a, b, c, d, e \in Nat : a + b <= e /\ c <= b + 1 /\ d <= c => a + d <= e + 1
    OBVIOUS
  <2>7. Len(log) + Cardinality(Busy') <= sends'
    BY <2>1, <2>2, <2>3, <2>4, <2>5, <2>6
  <2> QED BY <1>2, <2>3, <2>7 DEF RoomOK
<1>8. WhereOK'
  <2>1. sends' \in 0..MaxSends
    BY MessengerAssumption DEF SendClick, TypedInd, WhereOK
  <2>2. canSend' \in [Person -> BOOLEAN]
    BY DEF SendClick, TypedInd, WhereOK
  <2> QED BY <1>2, <2>1, <2>2 DEF TypedInd, WhereOK
<1> QED BY <1>4, <1>6, <1>7, <1>8 DEF TypedInd

---------------------------------------------------------------------------
(* What sealing and opening leave to be written.                           *)

\* A key that is generated next was never generated before.
LEMMA FreshIsNew ==
  ASSUME TypedInd, NEW p \in Person, NEW k \in {1, 2}
  PROVE  /\ Fresh(p, k) \in PairT \ Made /\ Fresh(p, k)[1] = p /\ Signed(p) \in Made /\ Signed(p) \in PairT
         /\ Signed(p)[1] = p
<1>1. generated[p] \in Nat
  BY DEF TypedInd, LogOK
<1> QED BY <1>1 DEF PairT, Fresh, Made, Signed

\* Of two people each is the other's peer.
LEMMA PeerIsOther ==
  ASSUME NEW p \in Person
  PROVE  Peer(p) \in Person /\ Peer(p) # p /\ Peer(Peer(p)) = p /\ \A q \in Person : q = p \/ q = Peer(p)
<1>1. PICK x, y \in Person : x # y /\ Person = {x, y}
  BY MessengerAssumption
<1>2. \A q \in Person : Peer(q) \in Person /\ Peer(q) # q
  BY <1>1 DEF Peer
<1> QED BY <1>1, <1>2

\* A new key of p is generated for a fresh pair.
LEMMA Generates ==
  ASSUME TypedInd, NEW p \in Person, NEW k \in {1, 2}, generated' = [generated EXCEPT ![p] = @ + k],
         UNCHANGED <<log, verified>>
  PROVE  Grows /\ \A l \in {1, 2} : l <= k => Fresh(p, l) \in Made'
<1>1. generated \in [Person -> Nat]
  BY DEF TypedInd, LogOK
<1>2. /\ generated' \in [Person -> Nat] /\ generated'[p] = generated[p] + k
      /\ \A q \in Person : q # p => generated'[q] = generated[q]
  BY <1>1
<1>3. \A q \in Person : generated[q] <= generated'[q]
  BY <1>1, <1>2
<1>4. Grows
  BY <1>2, <1>3 DEF TypedInd, LogOK, Grows
<1>5. \A l \in {1, 2} : l <= k => Fresh(p, l) \in Made'
  <2>1. ASSUME NEW l \in {1, 2}, l <= k PROVE generated[p] + l \in Nat /\ generated[p] + l <= generated'[p]
    BY <1>1, <1>2, <2>1
  <2> QED BY <2>1 DEF Fresh, Made, PairT
<1> QED BY <1>4, <1>5

\* What encryptPacket holds: a packet of the next session, not written yet.
LEMMA SealMakes ==
  ASSUME TypedInd, NEW p \in Person, NEW s \in Slots[p], Seal(p, s)
  PROVE  /\ Grows
         /\ \E k : /\ Becomes(p, s, k) /\ k.at = "put" /\ k.base = session[p]
                   /\ k.conv \in Conv /\ k.number \in Int
                   /\ PacketOK(p, k)' /\ SessionOK(k.next, p)'
                   /\ k.key.chain = k.next.sends /\ k.next.ns = k.key.n + 1
                   /\ session[p] # None =>
                        /\ Further(session[p], k.next) /\ k.next.sends = session[p].sends
                        /\ k.key = KdfCK(session[p].sends, session[p].ns)
                        /\ \A key \in KeyT : Past(session[p], key) => Past(k.next, key)
                   /\ session[p] = None => k.key.n = 0 /\ Fresh(p, 2) \in Newest(k.next.sends)
<1> DEFINE old == job[p][s]
           eph == Fresh(p, 1)
           t == StartSending(Secret(eph, old.otk), Fresh(p, 2), Peer(p))
<1>1. old.at = "seal" /\ old.conv \in Conv /\ old.number \in Int /\ old.otk \in Nat /\ verified[p]
  BY DEF Seal, TypedInd, JobsOK, JobOK, Writing
<1>2. UNCHANGED <<log, verified>>
  BY DEF Seal, server
<1>3. CASE session[p] # None
  <2> DEFINE k == Sealed(old, session[p], None, session[p])
  <2>1. Becomes(p, s, k) /\ generated' = generated
    BY <1>3 DEF Seal
  <2>2. Grows
    BY <1>2, <2>1, QuietGrows
  <2>3. SessionOK(session[p], p) /\ SessionIn(session[p], p)
    BY <1>3 DEF TypedInd, SessionsOK, SessionOK
  <2> DEFINE r == RatchetEncrypt(session[p])
  <2>4. /\ k.at = "put" /\ k.base = session[p] /\ k.conv = old.conv /\ k.number = old.number
        /\ k.next = r.next /\ k.prekey = None /\ k.header = r.header /\ k.key = r.key
    BY DEF Sealed
  <2>5. /\ SessionIn(r.next, p) /\ Further(session[p], r.next)
        /\ r.next.sends = session[p].sends /\ r.next.self = session[p].self
        /\ r.header \in HeaderT /\ r.header.dh = session[p].self
        /\ r.key \in KeyT /\ r.key.chain = session[p].sends /\ r.key.n = session[p].ns /\ r.next.ns = session[p].ns + 1
        /\ \A key \in KeyT : Past(session[p], key) => Past(r.next, key)
    BY <2>3, EncryptGoesOn
  <2>6. r.key = KdfCK(session[p].sends, session[p].ns)
    BY DEF RatchetEncrypt
  <2> HIDE DEF r, k
  <2>7. PICK x : x = k
    OBVIOUS
  <2>8. SessionOK(x.next, p) /\ PacketOK(p, x)
    <3>1. session[p].self \in Made /\ session[p].self[1] = p /\ Young(session[p].sends)
      BY <2>3 DEF SessionOK, SessionIn
    <3>2. SessionOK(x.next, p)
      BY <2>4, <2>5, <2>7, <3>1 DEF SessionOK
    <3>3. PacketOK(p, x)
      BY <2>4, <2>5, <2>7, <3>1 DEF PacketOK
    <3> QED BY <3>2, <3>3
  <2>9. SessionOK(x.next, p)' /\ PacketOK(p, x)'
    <3>1. LogOK
      BY DEF TypedInd
    <3>2. SessionOK(x.next, p)'
      <4>1. PICK y : y = x.next
        OBVIOUS
      <4>2. SessionOK(y, p)'
        BY <2>2, <2>8, <3>1, <4>1, SessionStays
      <4> QED BY <4>1, <4>2
    <3>3. Made \subseteq Made'
      BY <2>2, <3>1, MadeStays
    <3> QED BY <2>8, <3>2, <3>3 DEF PacketOK, Young
  <2>10. /\ Becomes(p, s, x) /\ x.at = "put" /\ x.base = session[p] /\ x.conv \in Conv /\ x.number \in Int
         /\ x.key.chain = x.next.sends /\ x.next.ns = x.key.n + 1
         /\ Further(session[p], x.next) /\ x.next.sends = session[p].sends
         /\ x.key = KdfCK(session[p].sends, session[p].ns)
         /\ \A key \in KeyT : Past(session[p], key) => Past(x.next, key)
    BY <1>1, <2>1, <2>4, <2>5, <2>6, <2>7
  <2> QED BY <1>3, <2>2, <2>9, <2>10
<1>4. CASE session[p] = None
  <2> DEFINE pre == [ephemeral |-> eph, otk |-> old.otk]
             k == Sealed(old, None, pre, t)
  <2>1. Becomes(p, s, k) /\ generated' = [generated EXCEPT ![p] = @ + 2]
    BY <1>4 DEF Seal
  <2>2. Grows /\ eph \in Made' /\ Fresh(p, 2) \in Made' /\ Made \subseteq Made'
    <3>1. LogOK
      BY DEF TypedInd
    <3>2. Grows /\ \A l \in {1, 2} : l <= 2 => Fresh(p, l) \in Made'
      BY <1>2, <2>1, Generates
    <3> QED BY <3>1, <3>2, MadeStays
  <2>3. Peer(p) \in Person /\ Peer(p) # p
    BY PeerIsOther
  <2>4. /\ eph \in PairT /\ Fresh(p, 2) \in PairT /\ Fresh(p, 2)[1] = p
        /\ Signed(Peer(p)) \in Made
    BY <2>3, FreshIsNew
  <2>5. Secret(eph, old.otk) \in ChainT
    BY <1>1, <2>4, SecretIsChain
  <2>6. /\ SessionIn(t, p) /\ t.self = Fresh(p, 2) /\ t.ns = 0
        /\ t.sends # <<>> /\ Newest(t.sends) = DH(Fresh(p, 2), Signed(Peer(p)))
    <3> DEFINE a == Secret(eph, old.otk)
               b == Fresh(p, 2)
               q == Peer(p)
    <3>1. a \in ChainT /\ b \in PairT /\ b[1] = p /\ q \in Person /\ q # p
      BY <2>3, <2>4, <2>5
    <3> HIDE DEF a, b, q
    <3>2. /\ SessionIn(StartSending(a, b, q), p) /\ StartSending(a, b, q).self = b /\ StartSending(a, b, q).ns = 0
          /\ StartSending(a, b, q).sends # <<>> /\ Newest(StartSending(a, b, q).sends) = DH(b, Signed(q))
      BY <3>1, SendingStarts
    <3> QED BY <3>2 DEF a, b, q
  <2> DEFINE r == RatchetEncrypt(t)
  <2>7. /\ k.at = "put" /\ k.base = None /\ k.conv = old.conv /\ k.number = old.number
        /\ k.next = r.next /\ k.prekey = pre /\ k.header = r.header /\ k.key = r.key
    BY DEF Sealed
  <2> HIDE DEF t, k
  <2>8. /\ SessionIn(r.next, p) /\ r.next.sends = t.sends /\ r.next.self = t.self
        /\ r.header \in HeaderT /\ r.header.dh = t.self
        /\ r.key \in KeyT /\ r.key.chain = t.sends /\ r.key.n = t.ns /\ r.next.ns = t.ns + 1
    BY <2>6, EncryptGoesOn
  <2> HIDE DEF r
  <2>9. pre \in PrekeyT
    BY <1>1, <2>4 DEF PrekeyT
  <2>10. PICK x : x = k
    OBVIOUS
  <2>11. t.sends \in ChainT /\ Newest(t.sends) \subseteq Made' /\ Fresh(p, 2) \in Newest(t.sends)
    <3>1. t.sends \in ChainT
      BY <2>6 DEF SessionIn, SessionT
    <3> QED BY <2>2, <2>4, <2>6, <3>1 DEF DH
  <2>12. SessionOK(x.next, p)'
    BY <2>2, <2>6, <2>7, <2>8, <2>10, <2>11 DEF SessionOK, Young
  <2>13. PacketOK(p, x)'
    BY <2>2, <2>4, <2>6, <2>7, <2>8, <2>9, <2>10, <2>11 DEF PacketOK, Young
  <2>14. /\ Becomes(p, s, x) /\ x.at = "put" /\ x.base = session[p] /\ x.conv \in Conv /\ x.number \in Int
         /\ x.key.chain = x.next.sends /\ x.next.ns = x.key.n + 1
         /\ x.key.n = 0 /\ Fresh(p, 2) \in Newest(x.next.sends)
    BY <1>1, <1>4, <2>1, <2>6, <2>7, <2>8, <2>10, <2>11
  <2> QED BY <1>4, <2>2, <2>12, <2>13, <2>14
<1> QED BY <1>3, <1>4

\* Sealing keeps the types.
LEMMA SealTyped ==
  ASSUME TypedInd, NEW p \in Person, NEW s \in Slots[p], Seal(p, s)
  PROVE  TypedInd'
<1>1. PICK k : /\ Becomes(p, s, k) /\ k.at = "put" /\ k.base = session[p]
               /\ k.conv \in Conv /\ k.number \in Int
               /\ PacketOK(p, k)' /\ SessionOK(k.next, p)'
               /\ session[p] # None => Further(session[p], k.next)
  BY SealMakes
<1>2. Grows
  BY SealMakes
<1>3. UNCHANGED <<session, oneTime, verified, groupCounter, selected, canSend, log, admits, clicks, sends, opened>>
  BY DEF Seal, server
<1>4. LogOK' /\ SessionsOK'
  BY <1>2, <1>3, LogStays, SessionsStay
<1>5. job[p][s].at = "seal" /\ verified[p]
  BY DEF Seal, TypedInd, JobsOK, JobOK
<1>6. JobOK(p, k)'
  <2>1. session[p] # None => SessionOK(session[p], p)'
    BY <1>3, <1>4 DEF SessionsOK
  <2>2. verified'[p]
    BY <1>3, <1>5
  <2>3. k.base # None => SessionOK(k.base, p)' /\ Further(k.base, k.next)
    <3>1. PICK b : b = k.base
      OBVIOUS
    <3>2. b # None => SessionOK(b, p)'
      BY <1>1, <1>2, <3>1, SessionStays DEF TypedInd, SessionsOK
    <3> QED BY <1>1, <3>1, <3>2
  <2> QED BY <1>1, <2>2, <2>3 DEF JobOK, Writing, Holding
<1>7. Writing(job[p][s])
  BY <1>5 DEF Writing
<1>8. WhereOK'
  BY <1>3 DEF TypedInd, WhereOK
<1> QED BY <1>1, <1>2, <1>3, <1>4, <1>6, <1>7, <1>8, GoesOn

\* The message that comes next is of the other side.
LEMMA HeadIs ==
  ASSUME TypedInd, NEW p \in Person, NEW s \in Slots[p], job[p][s].at \in {"walk", "keep"}, job[p][s].todo # <<>>
  PROVE  LET i == Head(job[p][s].todo)
         IN  /\ i \in DOMAIN log /\ log[i].status = "accepted" /\ log[i].from # p /\ log[i] \in MessageT
             /\ log[i].header \in HeaderT /\ log[i].header.dh[1] # p /\ log[i].header.dh \in Made
             /\ log[i].key \in KeyT /\ log[i].key.chain # <<>>
             /\ Tail(job[p][s].todo) \in Seq(Nat)
             /\ \A k \in DOMAIN Tail(job[p][s].todo) : Readable(p, Tail(job[p][s].todo)[k])
<1> DEFINE todo == job[p][s].todo
<1>1. todo \in Seq(Nat) /\ todo # <<>> /\ \A k \in DOMAIN todo : Readable(p, todo[k])
  BY DEF TypedInd, JobsOK, JobOK
<1> HIDE DEF todo
<1>2. Head(todo) = todo[1] /\ 1 \in DOMAIN todo
  BY <1>1
<1>3. Readable(p, Head(todo))
  BY <1>1, <1>2
<1>4. Tail(todo) \in Seq(Nat) /\ \A k \in DOMAIN Tail(todo) : k + 1 \in DOMAIN todo /\ Tail(todo)[k] = todo[k + 1]
  BY <1>1
<1>5. \A k \in DOMAIN Tail(todo) : Readable(p, Tail(todo)[k])
  BY <1>1, <1>4
<1>6. PICK i : i = Head(todo)
  OBVIOUS
<1>7. /\ i \in DOMAIN log /\ log[i].status = "accepted" /\ log[i].from # p
      /\ log[i].header.dh \in Made /\ log[i].header.dh[1] = log[i].from /\ Young(log[i].key.chain)
      /\ log \in Seq(MessageT)
  BY <1>3, <1>6 DEF Readable, TypedInd, LogOK
<1>8. log[i] \in MessageT
  BY <1>7
<1>9. log[i].header \in HeaderT /\ log[i].key \in KeyT /\ log[i].key.chain # <<>>
  BY <1>7, <1>8 DEF MessageT, Young
<1> QED BY <1>4, <1>5, <1>6, <1>7, <1>8, <1>9 DEF todo

\* A message that is passed over leaves the rest of the list.
LEMMA Passes ==
  ASSUME NEW j, NEW todo, j = [at |-> "walk", todo |-> todo]
  PROVE  [j EXCEPT !.todo = Tail(@)] = [at |-> "walk", todo |-> Tail(todo)]
<1>1. j.todo = todo
  OBVIOUS
<1>2. \A x : [j EXCEPT !.todo = x] = [at |-> "walk", todo |-> x]
  <2>1. ASSUME NEW x PROVE [j EXCEPT !.todo = x] = [at |-> "walk", todo |-> x]
    <3>1. [[at |-> "walk", todo |-> todo] EXCEPT !.todo = x] = [at |-> "walk", todo |-> x]
      OBVIOUS
    <3> QED BY <3>1
  <2> QED BY <2>1
<1> QED BY <1>1, <1>2

\* Passing over a message keeps the types.
LEMMA PassedTyped ==
  ASSUME TypedInd, NEW p \in Person, NEW s \in Slots[p], job[p][s].at = "walk", job[p][s].todo # <<>>,
         Becomes(p, s, [job[p][s] EXCEPT !.todo = Tail(@)]),
         UNCHANGED <<session, oneTime, verified, generated, groupCounter, selected, canSend,
                     log, admits, clicks, sends, opened>>
  PROVE  TypedInd'
<1> DEFINE old == job[p][s]
           j == [old EXCEPT !.todo = Tail(@)]
<1>1. old = [at |-> "walk", todo |-> old.todo]
  BY DEF TypedInd, JobsOK, JobOK
<1>2. j.at = "walk" /\ j.todo = Tail(old.todo) /\ j = [at |-> "walk", todo |-> j.todo]
  <2>1. j = [at |-> "walk", todo |-> Tail(old.todo)]
    BY <1>1, Passes
  <2> HIDE DEF j
  <2> QED BY <2>1
<1>3. j.todo \in Seq(Nat) /\ \A k \in DOMAIN j.todo : Readable(p, j.todo[k])
  BY <1>2, HeadIs
<1>4. WhereOK'
  BY DEF TypedInd, WhereOK
<1>5. PICK k : k = j
  OBVIOUS
<1>6. Becomes(p, s, k) /\ JobOK(p, k) /\ ~Writing(k)
  <2>1. Becomes(p, s, k)
    BY <1>5
  <2> HIDE DEF j
  <2> QED BY <1>2, <1>3, <1>5, <2>1 DEF JobOK, Writing, Holding
<1> QED BY <1>4, <1>6, PageGoesOn

\* The session a message is tried with.
LEMMA SessionForIs ==
  ASSUME TypedInd, NEW p \in Person, NEW m \in MessageT, ~Refused(p, m)
  PROVE  /\ SessionIn(SessionFor(p, m), p) /\ SessionFor(p, m).self \in Made
         /\ SessionFor(p, m).self[2] < Fresh(p, 1)[2]
         /\ session[p] # None => SessionFor(p, m) = session[p] /\ SessionOK(session[p], p)
         /\ session[p] = None => /\ SessionFor(p, m).peer = NoKey /\ SessionFor(p, m).skipped = {}
                                 /\ m.prekey \in PrekeyT
<1>1. PICK b : b = SessionFor(p, m)
  OBVIOUS
<1>3. ASSUME session[p] = None PROVE SessionIn(b, p) /\ b.self \in Made /\ b.peer = NoKey /\ b.skipped = {} /\ m.prekey \in PrekeyT
  <2>1. m.prekey \in PrekeyT
    BY <1>3 DEF Refused, MessageT
  <2>2. PICK x : x = Secret(m.prekey.ephemeral, m.prekey.otk)
    OBVIOUS
  <2>3. x \in ChainT
    BY <2>1, <2>2, SecretIsChain DEF PrekeyT
  <2>4. b = StartReceiving(x, p)
    BY <1>1, <1>3, <2>2 DEF SessionFor
  <2>5. b.self = Signed(p) /\ Signed(p) \in Made
    BY <2>4, FreshIsNew DEF StartReceiving
  <2>6. SessionIn(b, p) /\ b.peer = NoKey /\ b.skipped = {}
    BY <2>3, <2>4, ReceivingStarts
  <2> QED BY <2>1, <2>5, <2>6
<1>4. ASSUME session[p] # None PROVE b = session[p] /\ SessionOK(b, p) /\ SessionIn(b, p) /\ b.self \in Made
  BY <1>1, <1>4 DEF SessionFor, TypedInd, SessionsOK, SessionOK
<1>5. SessionIn(b, p) /\ b.self \in Made
  BY <1>3, <1>4
<1>6. b.self[2] < Fresh(p, 1)[2]
  <2>1. b.self[1] = p
    BY <1>5 DEF SessionIn
  <2>2. b.self[2] <= generated[p] /\ b.self[2] \in Nat /\ generated[p] \in Nat
    BY <1>5, <2>1 DEF Made, PairT, TypedInd, LogOK
  <2>3. Fresh(p, 1)[2] = generated[p] + 1
    BY DEF Fresh
  <2> QED BY <2>2, <2>3
<1>7. session[p] # None => b = session[p] /\ SessionOK(session[p], p)
  BY <1>4
<1>8. session[p] = None => b.peer = NoKey /\ b.skipped = {} /\ m.prekey \in PrekeyT
  BY <1>3
<1> QED BY <1>1, <1>5, <1>6, <1>7, <1>8, Zenon

\* What opening a message leaves alone, and the two ways it goes.
LEMMA OpenWalks ==
  ASSUME NEW p \in Person, NEW s \in Slots[p], Open(p, s)
  PROVE  /\ job[p][s].at = "walk" /\ job[p][s].todo # <<>>
         /\ UNCHANGED <<session, groupCounter, verified, selected, canSend, log, admits, clicks, sends>>
         /\ UNCHANGED <<handedOut, opened, begun, raced>>
         /\ oneTime' = oneTime \/ \E k : oneTime' = [oneTime EXCEPT ![p] = @ \ {k}]
<1>1. job[p][s].at = "walk" /\ job[p][s].todo # <<>>
  BY Zenon DEF Open
<1>2. UNCHANGED <<session, groupCounter, verified, selected, canSend, server, clicks, sends,
                  handedOut, opened, begun, raced>>
  BY Zenon DEF Open
<1>3. oneTime' = oneTime \/ \E k : oneTime' = [oneTime EXCEPT ![p] = @ \ {k}]
  BY Zenon DEF Open
<1> QED BY <1>1, <1>2, <1>3 DEF server

\* What decryptPacket holds: a session that is past the opened message's key.
LEMMA OpenMakes ==
  ASSUME TypedInd, NEW p \in Person, NEW s \in Slots[p], Open(p, s),
         ~ Becomes(p, s, [job[p][s] EXCEPT !.todo = Tail(@)])
  PROVE  /\ Grows /\ verified[p]
         /\ \E k : /\ Becomes(p, s, k) /\ k.at = "keep" /\ k.base = session[p] /\ k.todo = job[p][s].todo
                   /\ SessionOK(k.next, p)'
                   /\ Past(k.next, log[Head(job[p][s].todo)].key)
                   /\ session[p] # None =>
                        /\ Further(session[p], k.next)
                        /\ \A key \in KeyT : Past(session[p], key) => Past(k.next, key)
                   /\ \/ session[p] # None /\ k.next.sends = session[p].sends /\ k.next.ns = session[p].ns
                      \/ k.next.ns = 0 /\ Fresh(p, 1) \in Newest(k.next.sends)
<1>1. job[p][s].at = "walk" /\ job[p][s].todo # <<>>
  BY OpenWalks
<1>2. PICK m : m = log[Head(job[p][s].todo)]
  OBVIOUS
<1>3. /\ m \in MessageT /\ m.header \in HeaderT /\ m.header.dh[1] # p /\ m.header.dh \in Made
      /\ m.key \in KeyT /\ m.key.chain # <<>>
  BY <1>1, <1>2, HeadIs
<1>4. PICK base : base = SessionFor(p, m)
  OBVIOUS
<1>5. PICK pair : pair = Fresh(p, 1)
  OBVIOUS
<1>6. PICK r : r = RatchetDecrypt(base, m.header, m.key, pair)
  OBVIOUS
<1>7. PICK k : k = [at |-> "keep", todo |-> job[p][s].todo, base |-> session[p], next |-> r.next]
  OBVIOUS
<1>8. /\ ~Refused(p, m) /\ r.ok /\ Becomes(p, s, k) /\ UNCHANGED <<log, verified>>
      /\ generated' = [generated EXCEPT ![p] = IF r.next.self = pair THEN @ + 1 ELSE @]
  <2>1. UNCHANGED <<log, verified>>
    BY OpenWalks
  <2> QED BY <1>2, <1>4, <1>5, <1>6, <1>7, <2>1, Zenon DEF Open
<1>9. PICK t : t = r.next
  OBVIOUS
<1>10. pair \in PairT /\ pair[1] = p
  BY <1>5, FreshIsNew
<1>11. verified[p]
  BY <1>8 DEF Refused, TypedInd, SessionsOK
<1>12. /\ SessionIn(base, p)
       /\ session[p] # None => base = session[p] /\ SessionOK(base, p)
       /\ session[p] = None => base.peer = NoKey /\ base.skipped = {}
  BY <1>3, <1>4, <1>8, SessionForIs
<1>13. /\ SessionIn(t, p) /\ Further(base, t)
       /\ \/ /\ t.root = base.root /\ t.sends = base.sends /\ t.self = base.self /\ t.ns = base.ns
             /\ base.skipped # {} \/ base.peer # NoKey
          \/ t.self = pair /\ t.ns = 0 /\ t.sends # <<>> /\ Newest(t.sends) = DH(pair, m.header.dh)
       /\ Past(t, m.key) /\ \A key \in KeyT : Past(base, key) => Past(t, key)
  <2>1. PICK h \in HeaderT, key \in KeyT : h = m.header /\ key = m.key
    BY <1>3
  <2>2. r = RatchetDecrypt(base, h, key, pair) /\ r.ok /\ h.dh[1] # p /\ key.chain # <<>>
    BY <1>3, <1>6, <1>8, <2>1
  <2>3. RatchetDecrypt(base, h, key, pair).ok
    BY <2>2
  <2>4. LET u == RatchetDecrypt(base, h, key, pair).next
        IN  /\ SessionIn(u, p) /\ Further(base, u)
            /\ \/ /\ u.root = base.root /\ u.sends = base.sends /\ u.self = base.self /\ u.ns = base.ns
                  /\ base.skipped # {} \/ base.peer # NoKey
               \/ u.self = pair /\ u.ns = 0 /\ u.sends # <<>> /\ Newest(u.sends) = DH(pair, h.dh)
            /\ Past(u, key) /\ \A l \in KeyT : Past(base, l) => Past(u, l)
    BY <1>10, <1>12, <2>2, <2>3, DecryptGoesOn
  <2>5. t = RatchetDecrypt(base, h, key, pair).next
    BY <1>9, <2>2
  <2> QED BY <2>1, <2>4, <2>5
<1>14. k.at = "keep" /\ k.base = session[p] /\ k.todo = job[p][s].todo /\ k.next = t
  BY <1>7, <1>9
<1>15. Grows /\ (t.self = pair => pair \in Made')
  <2>1. CASE t.self = pair
    <3>1. generated' = [generated EXCEPT ![p] = @ + 1]
      BY <1>8, <1>9, <2>1
    <3>2. Grows /\ \A l \in {1, 2} : l <= 1 => Fresh(p, l) \in Made'
      BY <1>8, <3>1, Generates
    <3> QED BY <1>5, <3>2
  <2>2. CASE t.self # pair
    <3>1. generated' = generated
      BY <1>8, <1>9, <2>2 DEF TypedInd, LogOK
    <3> QED BY <1>8, <2>2, <3>1, QuietGrows
  <2> QED BY <2>1, <2>2
<1>16. Made \subseteq Made'
  BY <1>15, MadeStays DEF TypedInd
<1>17. t.sends \in ChainT
  BY <1>13 DEF SessionIn, SessionT
<1>18. \/ session[p] # None /\ t.sends = session[p].sends /\ t.ns = session[p].ns /\ t.self = base.self
          /\ SessionOK(base, p)
       \/ t.self = pair /\ t.ns = 0 /\ t.sends # <<>> /\ Newest(t.sends) = DH(pair, m.header.dh)
  BY <1>12, <1>13
<1>19. t.self \in Made' /\ t.sends # <<>> /\ Newest(t.sends) \subseteq Made'
  <2>1. CASE session[p] # None /\ t.sends = session[p].sends /\ t.self = base.self /\ SessionOK(base, p)
    BY <1>12, <1>16, <2>1 DEF SessionOK, Young
  <2>2. CASE t.self = pair /\ t.sends # <<>> /\ Newest(t.sends) = DH(pair, m.header.dh)
    BY <1>3, <1>15, <1>16, <2>2 DEF DH
  <2> QED BY <1>18, <2>1, <2>2
<1>20. SessionOK(k.next, p)'
  BY <1>13, <1>14, <1>17, <1>19 DEF SessionOK, Young
<1>21. \/ session[p] # None /\ k.next.sends = session[p].sends /\ k.next.ns = session[p].ns
       \/ k.next.ns = 0 /\ Fresh(p, 1) \in Newest(k.next.sends)
  BY <1>5, <1>14, <1>18 DEF DH
<1>22. /\ Past(k.next, log[Head(job[p][s].todo)].key)
       /\ session[p] # None =>
            /\ Further(session[p], k.next)
            /\ \A key \in KeyT : Past(session[p], key) => Past(k.next, key)
  BY <1>2, <1>12, <1>13, <1>14
<1> QED BY <1>8, <1>11, <1>14, <1>15, <1>20, <1>21, <1>22, Zenon

\* Opening keeps the types.
LEMMA OpenTyped ==
  ASSUME TypedInd, NEW p \in Person, NEW s \in Slots[p], Open(p, s)
  PROVE  TypedInd'
<1>1. /\ job[p][s].at = "walk" /\ job[p][s].todo # <<>>
      /\ UNCHANGED <<session, groupCounter, verified, selected, canSend, log, admits, clicks, sends, opened>>
  BY OpenWalks
<1>2. oneTime' \in [Person -> SUBSET Prekeys]
  <2>1. oneTime \in [Person -> SUBSET Prekeys]
    BY DEF TypedInd, WhereOK
  <2> QED BY <2>1, OpenWalks
<1>3. WhereOK'
  BY <1>1, <1>2 DEF TypedInd, WhereOK
<1>4. CASE Becomes(p, s, [job[p][s] EXCEPT !.todo = Tail(@)])
  <2>1. UNCHANGED <<generated, oneTime>>
    <3>1. \A n : [at |-> "keep", todo |-> job[p][s].todo, base |-> session[p], next |-> n].at # "walk"
      OBVIOUS
    <3>2. job[p][s] = [at |-> "walk", todo |-> job[p][s].todo]
      BY <1>1 DEF TypedInd, JobsOK, JobOK
    <3>3. PICK x : x = [job[p][s] EXCEPT !.todo = Tail(@)]
      OBVIOUS
    <3>4. x = [at |-> "walk", todo |-> Tail(job[p][s].todo)]
      BY <3>2, <3>3, Passes
    <3>5. \A j : Becomes(p, s, j) => job'[p][s] = j
      BY JobBecomes DEF TypedInd
    <3>6. Becomes(p, s, x)
      BY <1>4, <3>3
    <3>7. job'[p][s].at = "walk"
      BY <3>4, <3>5, <3>6
    <3> QED BY <3>1, <3>5, <3>7, Zenon DEF Open
  <2> QED BY <1>1, <1>4, <2>1, PassedTyped
<1>5. CASE ~ Becomes(p, s, [job[p][s] EXCEPT !.todo = Tail(@)])
  <2>1. Grows /\ verified[p]
    BY <1>5, OpenMakes
  <2>2. PICK k : /\ Becomes(p, s, k) /\ k.at = "keep" /\ k.base = session[p] /\ k.todo = job[p][s].todo
                 /\ SessionOK(k.next, p)'
                 /\ session[p] # None => Further(session[p], k.next)
    BY <1>5, OpenMakes
  <2>3. LogOK' /\ SessionsOK'
    BY <1>1, <2>1, LogStays, SessionsStay
  <2>4. k.base # None => SessionOK(k.base, p)' /\ Further(k.base, k.next)
    <3>1. PICK b : b = k.base
      OBVIOUS
    <3>2. b # None => SessionOK(b, p)'
      BY <2>1, <2>2, <3>1, SessionStays DEF TypedInd, SessionsOK
    <3> QED BY <2>2, <3>1, <3>2
  <2>5. k.todo \in Seq(Nat) /\ \A n \in DOMAIN k.todo : Readable(p, k.todo[n])'
    BY <1>1, <2>1, <2>2, ReadableStays DEF TypedInd, JobsOK, JobOK
  <2>6. verified'[p]
    BY <1>1, <2>1
  <2>7. JobOK(p, k)'
    BY <1>1, <2>2, <2>4, <2>5, <2>6 DEF JobOK, Writing, Holding
  <2>8. ~Writing(k)
    BY <2>2 DEF Writing
  <2> QED BY <1>1, <1>3, <2>1, <2>2, <2>3, <2>7, <2>8, GoesOn
<1> QED BY <1>4, <1>5, Zenon

\* Writing the session of a packet keeps the types.
LEMMA PutSessionTyped ==
  ASSUME TypedInd, NEW p \in Person, NEW s \in Slots[p], PutSession(p, s)
  PROVE  TypedInd'
<1> DEFINE old == job[p][s]
           j == [at |-> "post", conv |-> old.conv, number |-> old.number,
                 prekey |-> old.prekey, header |-> old.header, key |-> old.key]
<1>1. old.at = "put" /\ JobOK(p, old)
  BY DEF PutSession, TypedInd, JobsOK
<1>2. /\ old.conv \in Conv /\ old.number \in Int /\ PacketOK(p, old) /\ SessionOK(old.next, p) /\ verified[p]
  BY <1>1 DEF JobOK, Writing, Holding
<1>3. /\ Becomes(p, s, j) /\ session' = [session EXCEPT ![p] = old.next]
      /\ UNCHANGED <<oneTime, verified, generated, selected, canSend, log, admits, clicks, sends, opened>>
  BY DEF PutSession, server
<1>4. Grows
  BY <1>3, QuietGrows
<1>5. LogOK'
  BY <1>3, <1>4, LogStays
<1>6. SessionsOK'
  <2>1. /\ DOMAIN session' = Person /\ session'[p] = old.next
        /\ \A q \in Person : q # p => session'[q] = session[q]
    BY <1>3 DEF TypedInd, SessionsOK
  <2>2. ASSUME NEW q \in Person, session'[q] # None PROVE (SessionOK(session[q], q) /\ verified[q])'
    <3>1. PICK k : k = session'[q]
      OBVIOUS
    <3>2. SessionOK(k, q) /\ verified[q]
      BY <1>2, <2>1, <2>2, <3>1 DEF TypedInd, SessionsOK
    <3>3. SessionOK(k, q)'
      BY <1>4, <3>2, SessionStays DEF TypedInd
    <3> QED BY <1>3, <3>1, <3>2, <3>3
  <2> QED BY <2>1, <2>2 DEF SessionsOK
<1>7. WhereOK'
  <2>1. groupCounter' \in [Person -> Int]
    BY <1>2 DEF PutSession, PutGroup, TypedInd, WhereOK
  <2> QED BY <1>3, <2>1 DEF TypedInd, WhereOK
<1>8. JobOK(p, j)
  BY <1>2 DEF JobOK, PacketOK, Writing, Holding
<1>9. PICK k : k = j
  OBVIOUS
<1>10. Becomes(p, s, k) /\ JobOK(p, k)
  BY <1>3, <1>8, <1>9
<1>11. JobOK(p, k)'
  BY <1>4, <1>10, JobStays DEF TypedInd
<1>12. Writing(old)
  BY <1>1 DEF Writing
<1> QED BY <1>3, <1>4, <1>5, <1>6, <1>7, <1>10, <1>11, <1>12, GoesOn

\* Writing the session of an opened message keeps the types.
LEMMA KeepTyped ==
  ASSUME TypedInd, NEW p \in Person, NEW s \in Slots[p], Keep(p, s)
  PROVE  TypedInd'
<1> DEFINE old == job[p][s]
           j == [at |-> "walk", todo |-> Tail(old.todo)]
<1>1. old.at = "keep" /\ JobOK(p, old)
  BY DEF Keep, TypedInd, JobsOK
<1>2. old.todo # <<>> /\ SessionOK(old.next, p) /\ verified[p]
  BY <1>1 DEF JobOK, Holding
<1>3. /\ Becomes(p, s, j) /\ session' = [session EXCEPT ![p] = old.next]
      /\ opened' = [opened EXCEPT ![p] = @ \cup {Head(old.todo)}]
      /\ UNCHANGED <<oneTime, verified, generated, groupCounter, selected, canSend, log, admits, clicks, sends>>
  BY DEF Keep, server
<1>4. Grows
  BY <1>3, QuietGrows
<1>5. LogOK'
  BY <1>3, <1>4, LogStays
<1>6. SessionsOK'
  <2>1. /\ DOMAIN session' = Person /\ session'[p] = old.next
        /\ \A q \in Person : q # p => session'[q] = session[q]
    BY <1>3 DEF TypedInd, SessionsOK
  <2>2. ASSUME NEW q \in Person, session'[q] # None PROVE (SessionOK(session[q], q) /\ verified[q])'
    <3>1. PICK k : k = session'[q]
      OBVIOUS
    <3>2. SessionOK(k, q) /\ verified[q]
      BY <1>2, <2>1, <2>2, <3>1 DEF TypedInd, SessionsOK
    <3>3. SessionOK(k, q)'
      BY <1>4, <3>2, SessionStays DEF TypedInd
    <3> QED BY <1>3, <3>1, <3>2, <3>3
  <2> QED BY <2>1, <2>2 DEF SessionsOK
<1>7. /\ Head(old.todo) \in DOMAIN log /\ Tail(old.todo) \in Seq(Nat)
      /\ \A k \in DOMAIN Tail(old.todo) : Readable(p, Tail(old.todo)[k])
  BY <1>1, <1>2, HeadIs
<1>8. WhereOK'
  <2>1. opened' \in [Person -> SUBSET (DOMAIN log)]
    BY <1>3, <1>7 DEF TypedInd, WhereOK
  <2> QED BY <1>3, <2>1 DEF TypedInd, WhereOK
<1>9. JobOK(p, j) /\ ~Writing(j)
  BY <1>7 DEF JobOK, Writing, Holding
<1>10. PICK k : k = j
  OBVIOUS
<1>11. Becomes(p, s, k) /\ JobOK(p, k) /\ ~Writing(k)
  BY <1>3, <1>9, <1>10
<1>12. JobOK(p, k)'
  BY <1>4, <1>11, JobStays DEF TypedInd
<1> QED BY <1>3, <1>4, <1>5, <1>6, <1>8, <1>11, <1>12, GoesOn

\* The log as a message is appended.
LEMMA PostMakes ==
  ASSUME TypedInd, NEW p \in Person, NEW s \in Slots[p], Post(p, s)
  PROVE  LET n == Len(log) + 1
         IN  /\ Grows /\ LogOK' /\ Len(log') = n /\ DOMAIN log' = DOMAIN log \cup {n} /\ n \notin DOMAIN log
             /\ log'[n].key = job[p][s].key /\ \A i \in DOMAIN log : log'[i] = log[i]
<1> DEFINE old == job[p][s]
           m == Message(p, selected[p], old)
           n == Len(log) + 1
<1>1. old.at = "post" /\ JobOK(p, old) /\ log' = Append(log, m) /\ UNCHANGED <<generated, verified>>
  BY DEF Post, TypedInd, JobsOK, database
<1>2. old.conv \in Conv /\ old.number \in Int /\ PacketOK(p, old)
  BY <1>1 DEF JobOK, Writing
<1>3. /\ m.from = p /\ m.header = old.header /\ m.key = old.key /\ m.status \in {"accepted", "quarantined"}
      /\ m \in MessageT
  <2>1. selected[p] \in Conv
    BY DEF TypedInd, WhereOK
  <2>2. /\ old.prekey \in PrekeyT \cup {None} /\ old.header \in HeaderT /\ old.key \in KeyT
    BY <1>2 DEF PacketOK
  <2> QED BY <1>2, <2>1, <2>2 DEF Message, MessageT
<1>4. log \in Seq(MessageT) /\ Len(log) \in Nat /\ DOMAIN log = 1..Len(log)
  BY DEF TypedInd, LogOK
<1> HIDE DEF m
<1>5. /\ log' \in Seq(MessageT) /\ Len(log') = n /\ log'[n] = m /\ DOMAIN log' = 1..n
      /\ \A i \in DOMAIN log : log'[i] = log[i]
  BY <1>1, <1>3, <1>4
<1>6. DOMAIN log' = DOMAIN log \cup {n} /\ n \notin DOMAIN log /\ Len(log) <= n
  BY <1>4, <1>5
<1> HIDE DEF n
<1>7. Grows
  BY <1>1, <1>5, <1>6 DEF TypedInd, LogOK, Grows
<1>8. LogOK'
  <2>1. Made' = Made
    BY <1>1 DEF Made
  <2>2. ASSUME NEW i \in DOMAIN log'
        PROVE  /\ log'[i].header.dh \in Made /\ log'[i].header.dh[1] = log'[i].from
               /\ Young(log'[i].key.chain)
    <3>1. CASE i = n
      BY <1>2, <1>3, <1>5, <3>1 DEF PacketOK
    <3>2. CASE i \in DOMAIN log
      BY <1>5, <3>2 DEF TypedInd, LogOK
    <3> QED BY <1>6, <3>1, <3>2
  <2> QED BY <1>1, <1>5, <2>1, <2>2 DEF TypedInd, LogOK, Young
<1>9. log'[n].key = old.key
  BY <1>3, <1>5
<1> QED BY <1>5, <1>6, <1>7, <1>8, <1>9 DEF n

\* Sending the packet keeps the types.
LEMMA PostTyped ==
  ASSUME TypedInd, NEW p \in Person, NEW s \in Slots[p], Post(p, s)
  PROVE  TypedInd'
<1> DEFINE j == Loading(selected[p])
<1>1. /\ Becomes(p, s, j) /\ job[p][s].at = "post"
      /\ UNCHANGED <<session, oneTime, verified, generated, groupCounter, selected, admits, clicks, sends, opened>>
  BY DEF Post, database, history
<1>2. Grows /\ LogOK' /\ Len(log') = Len(log) + 1 /\ DOMAIN log \subseteq DOMAIN log'
  BY PostMakes
<1>3. SessionsOK'
  BY <1>1, <1>2, SessionsStay
<1>4. WhereOK'
  <2>1. canSend' \in [Person -> BOOLEAN]
    BY DEF Post, TypedInd, WhereOK
  <2>2. opened' \in [Person -> SUBSET (DOMAIN log')]
    BY <1>1, <1>2 DEF TypedInd, WhereOK
  <2> QED BY <1>1, <2>1, <2>2 DEF TypedInd, WhereOK
<1>5. JobOK(p, j) /\ ~Writing(j)
  BY LoadingOK DEF TypedInd, WhereOK
<1>6. PICK k : k = j
  OBVIOUS
<1>7. Becomes(p, s, k) /\ JobOK(p, k) /\ ~Writing(k)
  BY <1>1, <1>5, <1>6
<1>8. JobOK(p, k)'
  BY <1>2, <1>7, JobStays DEF TypedInd
<1>9. JobsOK'
  BY <1>2, <1>7, <1>8, JobsGoOn DEF TypedInd
<1>10. RoomOK'
  <2>1. <<p, s>> \in Busy /\ Busy' \subseteq Busy \ {<<p, s>>}
    BY <1>1, <1>7, BusyBecomes DEF TypedInd, Writing
  <2>2. IsFiniteSet(Busy) /\ Len(log) + Cardinality(Busy) <= sends
    BY DEF TypedInd, RoomOK
  <2> DEFINE x == <<p, s>>
             B == Busy
  <2>3. IsFiniteSet(B \ {x}) /\ Cardinality(B \ {x}) = Cardinality(B) - 1
    <3>1. x \in B /\ IsFiniteSet(B)
      BY <2>1, <2>2
    <3> HIDE DEF x, B
    <3> QED BY <3>1, FS_RemoveElement
  <2>4. IsFiniteSet(Busy') /\ Cardinality(Busy') <= Cardinality(B \ {x})
    BY <2>1, <2>3, FS_Subset
  <2>5. /\ Cardinality(Busy) \in Nat /\ Cardinality(Busy') \in Nat /\ Cardinality(B \ {x}) \in Nat
        /\ Len(log) \in Nat /\ sends \in Nat
    BY <2>2, <2>3, <2>4, FS_CardinalityType DEF TypedInd, LogOK, WhereOK
  <2>6. \A a, b, c, d, e \in Nat : a + b <= e /\ c = b - 1 /\ d <= c => (a + 1) + d <= e
    OBVIOUS
  <2>7. Len(log) + 1 + Cardinality(Busy') <= sends
    <3> HIDE DEF x
    <3> QED BY <2>2, <2>3, <2>4, <2>5, <2>6
  <2> QED BY <1>1, <1>2, <2>4, <2>7 DEF RoomOK
<1> QED BY <1>2, <1>3, <1>4, <1>9, <1>10 DEF TypedInd

---------------------------------------------------------------------------

\* The types hold at first ...
LEMMA TypedInit == ASSUME Init PROVE TypedInd
<1>1. WhereOK
  <2>1. 0 \in 0..MaxClicks /\ 0 \in 0..MaxSends
    BY MessengerAssumption
  <2>2. oneTime \in [Person -> SUBSET Prekeys] /\ groupCounter \in [Person -> Int] /\ canSend \in [Person -> BOOLEAN]
    BY DEF Init
  <2>3. selected \in [Person -> Conv] /\ opened \in [Person -> SUBSET (DOMAIN log)]
    BY ConvExists DEF Init
  <2>4. verified \in [Person -> BOOLEAN] /\ admits \in [Person -> BOOLEAN]
    BY DEF Init
  <2> QED BY <2>1, <2>2, <2>3, <2>4 DEF Init, WhereOK
<1>2. SessionsOK
  BY DEF Init, SessionsOK
<1>3. JobsOK
  <2>1. \A p \in Person : JobOK(p, Idle)
    BY ConvExists, LoadingOK
  <2> QED BY <2>1 DEF Init, JobsOK
<1>4. LogOK
  BY DEF Init, LogOK
<1>5. RoomOK
  <2>1. \A p \in Person : \A s \in Slots[p] : job[p][s] = Idle
    BY DEF Init
  <2>2. ~Writing(Idle)
    BY DEF Idle, Writing
  <2>3. Busy = {}
    BY <2>1, <2>2 DEF Busy
  <2>4. log = <<>> /\ sends = 0
    BY DEF Init
  <2> QED BY <2>3, <2>4, FS_EmptySet DEF RoomOK
<1> QED BY <1>1, <1>2, <1>3, <1>4, <1>5 DEF TypedInd

\* ... and after every step.
LEMMA TypedNext == ASSUME TypedInd, [Next]_vars PROVE TypedInd'
<1>1. CASE RegisterWrites
  BY <1>1, RegisterTyped DEF RegisterWrites, database, page
<1>2. ASSUME NEW p \in Person, RegisterReads(p) PROVE TypedInd'
  BY <1>2, RegisterTyped DEF RegisterReads, database, page, history
<1>3. ASSUME NEW p \in Person, (\E c \in Conv : Select(p, c)) \/ Trust(p) \/ Verify(p) \/ Reload(p) \/ SendClick(p)
      PROVE  TypedInd'
  BY <1>3, SelectTyped, TrustTyped, VerifyTyped, ReloadTyped, SendClickTyped
<1>4. ASSUME NEW p \in Person, NEW s \in Slots[p],
             \/ Bundles(p, s) \/ Seal(p, s) \/ PutSession(p, s) \/ Post(p, s) \/ SendFails(p, s)
             \/ Fetched(p, s) \/ Open(p, s) \/ Keep(p, s) \/ Loaded(p, s) \/ LoadFails(p, s)
      PROVE  TypedInd'
  BY <1>4, BundlesTyped, SealTyped, PutSessionTyped, PostTyped, FetchedTyped, OpenTyped, KeepTyped, LoadsTyped
<1>5. CASE UNCHANGED vars
  BY <1>5, RegisterTyped DEF vars, database, page, server, history
<1> QED BY <1>1, <1>2, <1>3, <1>4, <1>5 DEF Next

---------------------------------------------------------------------------
(* The prekeys of the server.                                              *)

\* A prekey that is offered was never handed out, unless a registration brought it back.
PrekeysIn ==
  \A p \in Person :
    /\ offered[p] \cap consumed[p] = {}
    /\ \A k \in Prekeys : handedOut[p][k] <= 1 /\ (k \notin consumed[p] => handedOut[p][k] = 0)

ServerOK ==
  /\ offered \in [Person -> SUBSET Prekeys] /\ consumed \in [Person -> SUBSET Prekeys]
  /\ handedOut \in [Person -> [Prekeys -> Nat]]
  /\ registering # None =>
       registering \in [of : Person, submitted : SUBSET Prekeys, consumed : SUBSET Prekeys]
  /\ "registration" \notin raced => PrekeysIn

\* A set of prekeys that is not empty has a least one.
LEMMA LeastPrekey ==
  ASSUME NEW S \in SUBSET Prekeys, S # {}
  PROVE  \E k \in S : \A l \in S : k <= l
<1> DEFINE F == {1..k : k \in S}
           T == Prekeys
<1>1. IsFiniteSet(T)
  <2>1. MaxPrekeys \in Int
    BY MessengerAssumption
  <2> QED BY <2>1, FS_Interval DEF Prekeys
<1>2. F \subseteq SUBSET T /\ F # {}
  <2>1. MaxPrekeys \in Nat
    BY MessengerAssumption
  <2>2. \A k \in Prekeys : k \in Nat /\ 1..k \subseteq Prekeys
    BY <2>1 DEF Prekeys
  <2> HIDE DEF T
  <2>3. T = Prekeys
    BY DEF T
  <2> QED BY <2>2, <2>3
<1>3. PICK x \in F : \A y \in F : y \subseteq x => y = x
  <2> HIDE DEF F, T
  <2> QED BY <1>1, <1>2, Minimal
<1>4. PICK k \in S : x = 1..k
  OBVIOUS
<1>5. ASSUME NEW l \in S PROVE k <= l
  <2>1. k \in Nat /\ l \in Nat /\ 1 <= k
    BY DEF Prekeys
  <2>2. CASE l < k
    <3>1. 1..l \subseteq 1..k /\ k \in 1..k /\ k \notin 1..l
      BY <2>1, <2>2
    <3> QED BY <1>3, <1>4, <3>1
  <2> QED BY <2>1, <2>2
<1> QED BY <1>5

\* Handing out a prekey takes it from what is offered.
LEMMA ConsumeKeeps ==
  ASSUME ServerOK, NEW q \in Person, NEW otk \in 0..MaxPrekeys, Consume(q, otk),
         UNCHANGED <<registering, raced>>
  PROVE  ServerOK'
<1>1. otk \in offered[q] \/ otk = 0
  <2>1. offered[q] \in SUBSET Prekeys
    BY DEF ServerOK
  <2> QED BY <2>1, LeastPrekey DEF Consume
<1>2. 0 \notin Prekeys
  BY DEF Prekeys
<1>3. /\ offered' = [offered EXCEPT ![q] = @ \ {otk}]
      /\ consumed' = [consumed EXCEPT ![q] = @ \cup ({otk} \cap Prekeys)]
      /\ handedOut' = [handedOut EXCEPT ![q] = [k \in Prekeys |-> IF k = otk THEN @[k] + 1 ELSE @[k]]]
  BY DEF Consume
<1>4. /\ offered \in [Person -> SUBSET Prekeys] /\ consumed \in [Person -> SUBSET Prekeys]
      /\ handedOut \in [Person -> [Prekeys -> Nat]]
  BY DEF ServerOK
<1>5. offered' \in [Person -> SUBSET Prekeys] /\ consumed' \in [Person -> SUBSET Prekeys]
  BY <1>3, <1>4
<1>6. /\ handedOut'[q] = [k \in Prekeys |-> IF k = otk THEN handedOut[q][k] + 1 ELSE handedOut[q][k]]
      /\ \A p \in Person : p # q => handedOut'[p] = handedOut[p]
      /\ DOMAIN handedOut' = Person /\ handedOut' = [p \in Person |-> handedOut'[p]]
  BY <1>3, <1>4
<1>7. \A k \in Prekeys : handedOut[q][k] \in Nat
  BY <1>4
<1>8. handedOut' \in [Person -> [Prekeys -> Nat]]
  <2>1. handedOut'[q] \in [Prekeys -> Nat]
    BY <1>6, <1>7
  <2> QED BY <1>4, <1>6, <2>1
<1>9. ASSUME PrekeysIn, NEW p \in Person
      PROVE  /\ offered'[p] \cap consumed'[p] = {}
             /\ \A k \in Prekeys : handedOut'[p][k] <= 1 /\ (k \notin consumed'[p] => handedOut'[p][k] = 0)
  <2>1. CASE p # q
    BY <1>3, <1>4, <1>6, <1>9, <2>1 DEF PrekeysIn
  <2>2. CASE p = q
    <3>1. offered'[q] = offered[q] \ {otk} /\ consumed'[q] = consumed[q] \cup ({otk} \cap Prekeys)
      BY <1>3, <1>4
    <3>2. offered'[q] \cap consumed'[q] = {}
      BY <1>9, <3>1 DEF PrekeysIn
    <3>3. ASSUME NEW k \in Prekeys PROVE handedOut'[q][k] <= 1 /\ (k \notin consumed'[q] => handedOut'[q][k] = 0)
      <4>1. CASE k = otk
        <5>1. k \in offered[q] /\ k \notin consumed[q]
          BY <1>1, <1>2, <1>9, <4>1 DEF PrekeysIn
        <5>2. handedOut[q][k] = 0 /\ handedOut'[q][k] = handedOut[q][k] + 1
          BY <1>6, <1>9, <4>1, <5>1 DEF PrekeysIn
        <5>3. k \in consumed'[q]
          BY <3>1, <4>1
        <5> QED BY <5>2, <5>3
      <4>2. CASE k # otk
        BY <1>6, <1>9, <3>1, <4>2 DEF PrekeysIn
      <4> QED BY <4>1, <4>2
    <3> QED BY <2>2, <3>2, <3>3
  <2> QED BY <2>1, <2>2
<1> QED BY <1>5, <1>8, <1>9 DEF ServerOK, PrekeysIn

\* The prekeys of the server stay as they are.
LEMMA ServerStays ==
  ASSUME ServerOK, UNCHANGED <<offered, consumed, registering, handedOut>>,
         raced' = raced \/ raced' = raced \cup {"session"}
  PROVE  ServerOK'
BY DEF ServerOK, PrekeysIn

\* Every step keeps the prekeys of the server in order ...
LEMMA ServerNext == ASSUME TypedInd, ServerOK, [Next]_vars PROVE ServerOK'
<1>1. CASE RegisterWrites
  <2> DEFINE p == registering.of
             rest == registering.submitted \ registering.consumed
  <2>1. p \in Person /\ rest \in SUBSET Prekeys /\ registering.consumed \in SUBSET Prekeys
    BY <1>1 DEF RegisterWrites, ServerOK
  <2>2. /\ offered' = [offered EXCEPT ![p] = rest]
        /\ consumed' = [consumed EXCEPT ![p] = registering.consumed]
        /\ raced' = IF consumed[p] # registering.consumed THEN raced \cup {"registration"} ELSE raced
        /\ registering' = None /\ handedOut' = handedOut
    BY <1>1 DEF RegisterWrites
  <2>3. rest \cap registering.consumed = {}
    OBVIOUS
  <2> HIDE DEF p, rest
  <2>4. "registration" \notin raced' => PrekeysIn'
    BY <2>1, <2>2, <2>3 DEF ServerOK, PrekeysIn
  <2> QED BY <2>1, <2>2, <2>4 DEF ServerOK
<1>2. ASSUME NEW p \in Person, RegisterReads(p) PROVE ServerOK'
  <2>1. /\ registering' = [of |-> p, submitted |-> oneTime[p], consumed |-> consumed[p]]
        /\ UNCHANGED <<offered, consumed, handedOut, raced>>
    BY <1>2 DEF RegisterReads, history
  <2>2. oneTime[p] \in SUBSET Prekeys /\ consumed[p] \in SUBSET Prekeys
    BY DEF TypedInd, WhereOK, ServerOK
  <2>3. registering' \in [of : Person, submitted : SUBSET Prekeys, consumed : SUBSET Prekeys]
    BY <2>1, <2>2
  <2> QED BY <2>1, <2>3 DEF ServerOK, PrekeysIn
<1>3. ASSUME NEW p \in Person, (\E c \in Conv : Select(p, c)) \/ Trust(p) \/ Verify(p) \/ Reload(p) \/ SendClick(p)
      PROVE  ServerOK'
  BY <1>3, ServerStays DEF Select, Trust, Verify, Reload, SendClick, server
<1>4. ASSUME NEW p \in Person, NEW s \in Slots[p], Bundles(p, s) PROVE ServerOK'
  <2>1. UNCHANGED <<registering, raced>>
    BY <1>4 DEF Bundles
  <2>2. CASE session[p] = None
    BY <1>4, <2>1, <2>2, PeerIsOther, ConsumeKeeps DEF Bundles
  <2>3. CASE session[p] # None
    BY <1>4, <2>1, <2>3, ServerStays DEF Bundles
  <2> QED BY <2>2, <2>3
<1>5. ASSUME NEW p \in Person, NEW s \in Slots[p],
             \/ Seal(p, s) \/ PutSession(p, s) \/ Post(p, s) \/ SendFails(p, s)
      PROVE  ServerOK'
  <2>1. CASE Seal(p, s) \/ PutSession(p, s)
    BY <2>1, ServerStays DEF Seal, PutSession, WasRaced, server
  <2>2. CASE Post(p, s) \/ SendFails(p, s)
    BY <2>2, ServerStays DEF Post, SendFails, server, history
  <2> QED BY <1>5, <2>1, <2>2, Zenon
<1>6. ASSUME NEW p \in Person, NEW s \in Slots[p],
             \/ Fetched(p, s) \/ Open(p, s) \/ Keep(p, s) \/ Loaded(p, s) \/ LoadFails(p, s)
      PROVE  ServerOK'
  <2>1. CASE Open(p, s)
    <3>1. UNCHANGED <<server, handedOut, raced>>
      BY <2>1, Zenon DEF Open
    <3> QED BY <3>1, ServerStays DEF server
  <2>2. CASE Keep(p, s)
    BY <2>2, ServerStays DEF Keep, WasRaced, server
  <2>3. CASE Fetched(p, s) \/ Loaded(p, s) \/ LoadFails(p, s)
    BY <2>3, ServerStays DEF Fetched, Loaded, LoadFails, server, history
  <2> QED BY <1>6, <2>1, <2>2, <2>3, Zenon
<1>7. CASE UNCHANGED vars
  BY <1>7, ServerStays DEF vars, server, history
<1> QED BY <1>1, <1>2, <1>3, <1>4, <1>5, <1>6, <1>7 DEF Next

\* ... which they are at first.
LEMMA ServerInit == ASSUME Init PROVE ServerOK
BY DEF Init, ServerOK, PrekeysIn

\* The checked types follow from the inductive ones.
LEMMA TypeOKFollows == ASSUME TypedInd, ServerOK PROVE TypeOK
<1>1. /\ offered \in [Person -> SUBSET Prekeys] /\ consumed \in [Person -> SUBSET Prekeys]
      /\ oneTime \in [Person -> SUBSET Prekeys] /\ selected \in [Person -> Conv] /\ canSend \in [Person -> BOOLEAN]
  BY DEF TypedInd, WhereOK, ServerOK
<1>2. clicks <= MaxClicks /\ sends <= MaxSends /\ sends \in Nat
  BY MessengerAssumption DEF TypedInd, WhereOK
<1>3. Len(log) <= sends
  <2>1. IsFiniteSet(Busy) /\ Len(log) + Cardinality(Busy) <= sends
    BY DEF TypedInd, RoomOK
  <2>2. Cardinality(Busy) \in Nat /\ Len(log) \in Nat
    BY <2>1, FS_CardinalityType DEF TypedInd, LogOK
  <2>3. \A a, b, c \in Nat : a + b <= c => a <= c
    OBVIOUS
  <2> QED BY <1>2, <2>1, <2>2, <2>3
<1>4. ASSUME NEW p \in Person, NEW s \in Slots[p], job[p][s].at \in {"walk", "keep"}, NEW i \in DOMAIN job[p][s].todo
      PROVE  log[job[p][s].todo[i]].status = "accepted"
  <2>1. PICK j : j = job[p][s]
    OBVIOUS
  <2>2. JobOK(p, j) /\ j.at \in {"walk", "keep"} /\ i \in DOMAIN j.todo
    BY <1>4, <2>1 DEF TypedInd, JobsOK
  <2>3. Readable(p, j.todo[i])
    BY <2>2 DEF JobOK
  <2> QED BY <2>1, <2>3 DEF Readable
<1> QED BY <1>1, <1>2, <1>3, <1>4 DEF TypeOK

\* A prekey that is handed out is never offered again.
LEMMA PrekeysOnceFollows == ASSUME ServerOK PROVE PrekeysOnce
BY DEF ServerOK, PrekeysIn, PrekeysOnce

---------------------------------------------------------------------------
(* The chains of the keys.                                                 *)

\* A key has left in a message, or will without being looked at again.
Used(key) ==
  \/ \E i \in DOMAIN log : log[i].key = key
  \/ \E q \in Person : \E t \in Slots[q] : Posting(job[q][t]) /\ job[q][t].key = key

UsedOnce ==
  /\ \A i, k \in DOMAIN log : i # k => log[i].key # log[k].key
  /\ \A q \in Person : \A t \in Slots[q] : Posting(job[q][t]) =>
       \A i \in DOMAIN log : job[q][t].key # log[i].key
  /\ \A q, r \in Person : \A t \in Slots[q] : \A u \in Slots[r] :
       Posting(job[q][t]) /\ Posting(job[r][u]) /\ job[q][t].key = job[r][u].key => q = r /\ t = u

\* A session is ahead of what was used of its sending chain, which is its own.
SessionAhead(p) ==
  session[p] # None =>
    /\ \A key \in KeyT : Used(key) /\ key.chain = session[p].sends => key.n < session[p].ns
    /\ \A q \in Person : q # p /\ session[q] # None => session[q].sends # session[p].sends

\* The job brings a sending chain of its own, and nothing else knows of it.
OwnChain(j) == j.base = None \/ j.next.sends # j.base.sends
Alone(p, s, c) ==
  /\ \A key \in KeyT : Used(key) => key.chain # c
  /\ \A q \in Person : session[q] # None => session[q].sends # c
  /\ \A q \in Person : \A t \in Slots[q] : Holding(job[q][t]) /\ job[q][t].next.sends = c => q = p /\ t = s

\* What a job holds is of this session or of an earlier one.
HeldOK(p, s, j) ==
  Holding(j) =>
    /\ OwnChain(j) => Alone(p, s, j.next.sends)
    /\ j.base # None => session[p] # None /\ (j.base = session[p] \/ Further(j.base, session[p]))

\* What a job holds, by what it is for.
Shape(j) ==
  /\ j.at = "put" =>
       /\ j.key.chain = j.next.sends /\ j.next.ns = j.key.n + 1
       /\ j.base = None => j.key.n = 0
       /\ j.base # None => j.key = KdfCK(j.base.sends, j.base.ns) /\ j.next.sends = j.base.sends
  /\ j.at = "keep" => IF OwnChain(j) THEN j.next.ns = 0 ELSE j.next.ns = j.base.ns

Held == \A p \in Person : \A s \in Slots[p] : HeldOK(p, s, job[p][s]) /\ Shape(job[p][s])

ChainsOK == UsedOnce /\ (\A p \in Person : SessionAhead(p)) /\ Held

\* A key that seals a message comes from generated keys.
LEMMA UsedIsKey ==
  ASSUME TypedInd, NEW key, Used(key)
  PROVE  key \in KeyT /\ Young(key.chain)
<1>1. ASSUME NEW i \in DOMAIN log, log[i].key = key PROVE key \in KeyT /\ Young(key.chain)
  <2>1. log[i] \in MessageT /\ Young(log[i].key.chain)
    BY DEF TypedInd, LogOK
  <2>2. log[i].key \in KeyT
    BY <2>1 DEF MessageT
  <2> QED BY <1>1, <2>1, <2>2
<1>2. ASSUME NEW q \in Person, NEW t \in Slots[q], Posting(job[q][t]), job[q][t].key = key
      PROVE  key \in KeyT /\ Young(key.chain)
  <2>1. PICK j : j = job[q][t]
    OBVIOUS
  <2>2. JobOK(q, j) /\ j.at = "post"
    BY <1>2, <2>1 DEF TypedInd, JobsOK, Posting
  <2>3. PacketOK(q, j)
    BY <2>2 DEF JobOK
  <2> QED BY <1>2, <2>1, <2>3 DEF PacketOK
<1> QED BY <1>1, <1>2 DEF Used

\* Jobs go on or let go, and nothing else is used.
LEMMA SettledStays ==
  ASSUME \A p \in Person : SessionAhead(p), Held, \A q \in Person : session'[q] = session[q],
         \A q \in Person : \A t \in Slots[q] : job'[q][t] = job[q][t] \/ ~Holding(job'[q][t]),
         \A key \in KeyT : Used(key)' => Used(key)
  PROVE  (\A p \in Person : SessionAhead(p)') /\ Held'
<1>1. \A p \in Person : SessionAhead(p)'
  BY DEF SessionAhead
<1>2. ASSUME NEW p \in Person, NEW s \in Slots[p] PROVE (HeldOK(p, s, job[p][s]) /\ Shape(job[p][s]))'
  <2>1. PICK k : k = job'[p][s]
    OBVIOUS
  <2>2. CASE Holding(k)
    <3>1. k = job[p][s]
      BY <2>1, <2>2
    <3>2. HeldOK(p, s, k) /\ Shape(k)
      BY <3>1 DEF Held
    <3>3. ASSUME NEW c, Alone(p, s, c) PROVE Alone(p, s, c)'
      <4>1. \A q \in Person : \A t \in Slots[q] : Holding(job'[q][t]) => job'[q][t] = job[q][t]
        OBVIOUS
      <4>2. \A q \in Person : \A t \in Slots[q] :
              Holding(job'[q][t]) /\ job'[q][t].next.sends = c => q = p /\ t = s
        BY <3>3, <4>1 DEF Alone
      <4> QED BY <3>3, <4>2 DEF Alone, Holding
    <3>4. HeldOK(p, s, k)'
      BY <3>2, <3>3 DEF HeldOK
    <3> QED BY <2>1, <3>2, <3>4
  <2>3. CASE ~Holding(k)
    <3>1. HeldOK(p, s, k)' /\ Shape(k)
      BY <2>3 DEF HeldOK, Shape, Holding
    <3> QED BY <2>1, <3>1
  <2> QED BY <2>2, <2>3
<1> QED BY <1>1, <1>2 DEF Held

\* Only these move the session or the keys: the others are quiet.
Quiet ==
  /\ \A q \in Person : session'[q] = session[q] /\ opened'[q] = opened[q]
  /\ DOMAIN log' = DOMAIN log /\ \A i \in DOMAIN log : log'[i].key = log[i].key
  /\ \A q \in Person : \A t \in Slots[q] :
       job'[q][t] = job[q][t] \/ (~Holding(job'[q][t]) /\ ~Posting(job'[q][t]))

\* A step that writes no session and seals nothing leaves the chains in order.
LEMMA QuietChains ==
  ASSUME ChainsOK, Quiet
  PROVE  ChainsOK'
<1>1. ASSUME NEW q \in Person, NEW t \in Slots[q], Posting(job'[q][t]) PROVE job'[q][t] = job[q][t]
  BY <1>1 DEF Quiet
<1>2. ASSUME NEW key, Used(key)' PROVE Used(key)
  <2>1. CASE \E i \in DOMAIN log' : log'[i].key = key
    BY <2>1 DEF Quiet, Used
  <2>2. CASE \E q \in Person : \E t \in Slots[q] : Posting(job'[q][t]) /\ job'[q][t].key = key
    BY <1>1, <2>2 DEF Used
  <2> QED BY <1>2, <2>1, <2>2 DEF Used, Posting
<1>3. UsedOnce'
  <2>1. \A i, k \in DOMAIN log' : i # k => log'[i].key # log'[k].key
    BY DEF Quiet, ChainsOK, UsedOnce
  <2>2. ASSUME NEW q \in Person, NEW t \in Slots[q], Posting(job'[q][t]), NEW i \in DOMAIN log'
        PROVE  job'[q][t].key # log'[i].key
    BY <1>1, <2>2 DEF Quiet, ChainsOK, UsedOnce
  <2>3. ASSUME NEW q \in Person, NEW r \in Person, NEW t \in Slots[q], NEW u \in Slots[r],
               Posting(job'[q][t]), Posting(job'[r][u]), job'[q][t].key = job'[r][u].key
        PROVE  q = r /\ t = u
    BY <1>1, <2>3 DEF ChainsOK, UsedOnce
  <2> QED BY <2>1, <2>2, <2>3 DEF UsedOnce, Posting
<1>4. (\A p \in Person : SessionAhead(p)') /\ Held'
  <2>1. /\ \A q \in Person : session'[q] = session[q]
        /\ \A q \in Person : \A t \in Slots[q] : job'[q][t] = job[q][t] \/ ~Holding(job'[q][t])
    BY DEF Quiet
  <2>2. \A key \in KeyT : Used(key)' => Used(key)
    BY <1>2
  <2>3. (\A p \in Person : SessionAhead(p)) /\ Held
    BY DEF ChainsOK
  <2> QED BY <2>1, <2>2, <2>3, SettledStays
<1> QED BY <1>3, <1>4 DEF ChainsOK

\* A session is not the lack of one.
LEMMA SessionIsNotNone ==
  ASSUME NEW p \in Person, NEW s, SessionIn(s, p)
  PROVE  s # None
<1>1. DOMAIN s = {"root", "sends", "recvs", "self", "peer", "ns", "nr", "pn", "skipped"}
  BY DEF SessionIn, SessionT
<1>2. DOMAIN None = {"none"}
  BY DEF None
<1> QED BY <1>1, <1>2

\* A job gets hold of a session that goes on from the one of the database, or that
\* brings a chain of a key nobody had before.
LEMMA HoldsChains ==
  ASSUME TypedInd, ChainsOK, UNCHANGED <<session, log>>,
         NEW p \in Person, NEW s \in Slots[p], NEW k, Becomes(p, s, k), Holding(k), Shape(k), k.base = session[p],
         ~Holding(job[p][s]), ~Posting(job[p][s]), session[p] # None => Further(session[p], k.next),
         NEW x, x \notin Made,
         \/ session[p] # None /\ k.next.sends = session[p].sends
         \/ x \in Newest(k.next.sends)
  PROVE  ChainsOK'
<1>1. /\ job'[p][s] = k
      /\ \A q \in Person : \A t \in Slots[q] : q # p \/ t # s => job'[q][t] = job[q][t]
  BY JobBecomes DEF TypedInd
<1>2. ~Posting(k)
  BY DEF Holding, Posting
<1>3. \A q \in Person : \A t \in Slots[q] : Posting(job'[q][t]) => job'[q][t] = job[q][t]
  BY <1>1, <1>2
<1>4. \A q \in Person : \A t \in Slots[q] : Posting(job'[q][t]) => Posting(job[q][t])
  BY <1>3
<1>5. ASSUME NEW key, Used(key)' PROVE Used(key)
  BY <1>3, <1>4, <1>5 DEF Used, Posting
<1>6. UsedOnce'
  <2>1. \A q \in Person : \A t \in Slots[q] : Posting(job'[q][t]) => \A i \in DOMAIN log' : job'[q][t].key # log'[i].key
    BY <1>3, <1>4 DEF ChainsOK, UsedOnce
  <2>2. \A q, r \in Person : \A t \in Slots[q] : \A u \in Slots[r] :
         Posting(job'[q][t]) /\ Posting(job'[r][u]) /\ job'[q][t].key = job'[r][u].key => q = r /\ t = u
    BY <1>3, <1>4 DEF ChainsOK, UsedOnce
  <2> QED BY <2>1, <2>2 DEF ChainsOK, UsedOnce, Posting
<1>7. \A q \in Person : SessionAhead(q)'
  BY <1>5 DEF ChainsOK, SessionAhead
<1>8. \A q \in Person : session[q] # None => Young(session[q].sends)
  BY DEF TypedInd, SessionsOK, SessionOK
<1>9. ASSUME NEW q \in Person, NEW t \in Slots[q], Holding(job[q][t]) PROVE Young(job[q][t].next.sends)
  <2>1. PICK j : j = job[q][t]
    OBVIOUS
  <2>2. JobOK(q, j) /\ Holding(j)
    BY <1>9, <2>1 DEF TypedInd, JobsOK
  <2>3. SessionOK(j.next, q)
    BY <2>2 DEF JobOK
  <2> QED BY <2>1, <2>3 DEF SessionOK
<1>10. ASSUME x \in Newest(k.next.sends) PROVE ~Young(k.next.sends)
  BY <1>10 DEF Young
<1>11. ASSUME OwnChain(k) PROVE Alone(p, s, k.next.sends)'
  <2>1. ~Young(k.next.sends)
    BY <1>10, <1>11 DEF OwnChain
  <2>2. \A key \in KeyT : Used(key)' => key.chain # k.next.sends
    BY <1>5, <2>1, UsedIsKey
  <2>3. \A q \in Person : session'[q] # None => session'[q].sends # k.next.sends
    BY <1>8, <2>1
  <2>4. ASSUME NEW q \in Person, NEW t \in Slots[q], Holding(job'[q][t]), job'[q][t].next.sends = k.next.sends, q # p \/ t # s
        PROVE  FALSE
    <3>1. job'[q][t] = job[q][t]
      BY <1>1, <2>4
    <3> QED BY <1>9, <2>1, <2>4, <3>1
  <2> QED BY <2>2, <2>3, <2>4 DEF Alone, Holding
<1>12. ASSUME NEW q \in Person, NEW t \in Slots[q] PROVE (HeldOK(q, t, job[q][t]) /\ Shape(job[q][t]))'
  <2>1. CASE q = p /\ t = s
    <3>1. k.base # None => session'[p] # None /\ k.base = session'[p]
      OBVIOUS
    <3>2. HeldOK(p, s, k)'
      BY <1>11, <3>1 DEF HeldOK
    <3> QED BY <1>1, <2>1, <3>2
  <2>2. CASE q # p \/ t # s
    <3>1. PICK j : j = job[q][t]
      OBVIOUS
    <3>2. job'[q][t] = j
      BY <1>1, <2>2, <3>1
    <3>3. HeldOK(q, t, j) /\ Shape(j)
      BY <3>1 DEF ChainsOK, Held
    <3>4. ASSUME Holding(j), Alone(q, t, j.next.sends) PROVE Alone(q, t, j.next.sends)'
      <4>1. k.next.sends # j.next.sends
        <5>1. Young(j.next.sends)
          BY <1>9, <3>1, <3>4
        <5>2. CASE x \in Newest(k.next.sends)
          BY <1>10, <5>1, <5>2
        <5>3. CASE session[p] # None /\ k.next.sends = session[p].sends
          BY <3>4, <5>3 DEF Alone
        <5> QED BY <5>2, <5>3
      <4>2. \A r \in Person : \A u \in Slots[r] :
              Holding(job'[r][u]) /\ job'[r][u].next.sends = j.next.sends => r = q /\ u = t
        BY <1>1, <3>4, <4>1 DEF Alone
      <4>3. \A key \in KeyT : Used(key)' => key.chain # j.next.sends
        BY <1>5, <3>4 DEF Alone
      <4>4. \A r \in Person : session'[r] # None => session'[r].sends # j.next.sends
        BY <3>4 DEF Alone
      <4> QED BY <4>2, <4>3, <4>4 DEF Alone, Holding
    <3>5. HeldOK(q, t, j)'
      BY <3>3, <3>4 DEF HeldOK
    <3> QED BY <3>2, <3>3, <3>5
  <2> QED BY <2>1, <2>2
<1>13. Held'
  BY <1>12 DEF Held
<1> QED BY <1>6, <1>7, <1>13 DEF ChainsOK

\* A job settles: the session it held is written over the one it began with, and at most
\* the key that was sealed is used.
LEMMA SettlesChains ==
  ASSUME TypedInd, ChainsOK, log' = log, NEW p \in Person, NEW s \in Slots[p], NEW k, Becomes(p, s, k), ~Holding(k),
         NEW j, j = job[p][s], Holding(j), j.base = session[p],
         session'[p] = j.next, \A q \in Person : q # p => session'[q] = session[q],
         Posting(k) => j.at = "put" /\ k.key = j.key,
         ~Posting(k) => j.at = "keep"
  PROVE  ChainsOK'
<1>1. /\ job'[p][s] = k
      /\ \A q \in Person : \A t \in Slots[q] : q # p \/ t # s => job'[q][t] = job[q][t]
  BY JobBecomes DEF TypedInd
<1>2. HeldOK(p, s, j) /\ Shape(j) /\ JobOK(p, j)
  BY DEF ChainsOK, Held, TypedInd, JobsOK
<1>3. /\ SessionOK(j.next, p) /\ SessionIn(j.next, p)
      /\ j.base # None => SessionOK(j.base, p) /\ SessionIn(j.base, p) /\ Further(j.base, j.next)
  BY <1>2 DEF JobOK, SessionOK
<1>4. j.next.ns \in Nat /\ (j.base # None => j.base.ns \in Nat)
  BY <1>3, SessionNumbers
<1>5. OwnChain(j) => Alone(p, s, j.next.sends)
  BY <1>2 DEF HeldOK
<1>6. ~OwnChain(j) => session[p] # None /\ j.next.sends = session[p].sends /\ session[p].ns <= j.next.ns
  <2>1. CASE j.at = "put"
    <3>1. ~OwnChain(j) => j.key = KdfCK(j.base.sends, j.base.ns) /\ j.next.ns = j.key.n + 1
      BY <1>2, <2>1 DEF Shape, OwnChain
    <3>2. KdfCK(j.base.sends, j.base.ns).n = j.base.ns
      BY DEF KdfCK
    <3>3. \A a \in Nat : a <= a + 1
      OBVIOUS
    <3> QED BY <1>4, <3>1, <3>2, <3>3 DEF OwnChain
  <2>2. CASE j.at = "keep"
    <3>1. ~OwnChain(j) => j.next.ns = j.base.ns
      BY <1>2, <2>2 DEF Shape
    <3> QED BY <1>4, <3>1 DEF OwnChain
  <2> QED BY <2>1, <2>2
\* The new session is ahead of what was used.
<1>7. ASSUME NEW key \in KeyT, Used(key), key.chain = j.next.sends PROVE key.n < j.next.ns /\ ~OwnChain(j)
  <2>1. ~OwnChain(j)
    BY <1>5, <1>7 DEF Alone
  <2>2. key.n < session[p].ns
    BY <1>6, <1>7, <2>1 DEF ChainsOK, SessionAhead
  <2>3. key.n \in Nat /\ session[p].ns \in Nat
    BY <1>4, <2>1 DEF OwnChain, KeyT
  <2>4. \A a, b, c \in Nat : a < b /\ b <= c => a < c
    OBVIOUS
  <2> QED BY <1>4, <1>6, <2>1, <2>2, <2>3, <2>4
<1>8. Posting(k) => /\ k.key \in KeyT /\ k.key.chain = j.next.sends /\ k.key.n < j.next.ns
                    /\ ~Used(k.key)
  <2> SUFFICES ASSUME Posting(k) PROVE k.key \in KeyT /\ k.key.chain = j.next.sends /\ k.key.n < j.next.ns /\ ~Used(k.key)
    OBVIOUS
  <2>1. k.key \in KeyT
    BY <1>2 DEF JobOK, PacketOK
  <2>2. k.key.chain = j.next.sends /\ j.next.ns = k.key.n + 1
    BY <1>2 DEF Shape
  <2>3. k.key.n \in Nat
    BY <2>1 DEF KeyT
  <2>4. ASSUME Used(k.key) PROVE FALSE
    <3>1. ~OwnChain(j)
      BY <1>7, <2>1, <2>2, <2>4
    <3>2. k.key.n = session[p].ns
      BY <1>2, <3>1 DEF Shape, OwnChain, KdfCK
    <3>3. k.key.n < session[p].ns
      BY <1>6, <2>1, <2>2, <2>4, <3>1 DEF ChainsOK, SessionAhead
    <3> QED BY <2>3, <3>2, <3>3
  <2> QED BY <2>1, <2>2, <2>3, <2>4
<1>9. ~Posting(j)
  BY DEF Holding, Posting
<1>10. ASSUME NEW key, Used(key)' PROVE Used(key) \/ (Posting(k) /\ key = k.key)
  <2>1. CASE \E i \in DOMAIN log' : log'[i].key = key
    BY <2>1 DEF Used
  <2>2. ASSUME NEW q \in Person, NEW t \in Slots[q], Posting(job'[q][t]), job'[q][t].key = key
        PROVE  Used(key) \/ (Posting(k) /\ key = k.key)
    <3>1. CASE q = p /\ t = s
      BY <1>1, <2>2, <3>1
    <3>2. CASE q # p \/ t # s
      <4>1. job'[q][t] = job[q][t]
        BY <1>1, <3>2
      <4> QED BY <2>2, <4>1 DEF Used
    <3> QED BY <3>1, <3>2
  <2> QED BY <1>10, <2>1, <2>2 DEF Used, Posting
<1>11. UsedOnce'
  <2>1. ASSUME NEW q \in Person, NEW t \in Slots[q], Posting(job'[q][t]), NEW i \in DOMAIN log'
        PROVE  job'[q][t].key # log'[i].key
    <3>1. CASE q = p /\ t = s
      BY <1>1, <1>8, <2>1, <3>1 DEF Used
    <3>2. CASE q # p \/ t # s
      <4>1. job'[q][t] = job[q][t]
        BY <1>1, <3>2
      <4> QED BY <2>1, <4>1 DEF ChainsOK, UsedOnce
    <3> QED BY <3>1, <3>2
  <2>2. ASSUME NEW q \in Person, NEW r \in Person, NEW t \in Slots[q], NEW u \in Slots[r],
               Posting(job'[q][t]), Posting(job'[r][u]), job'[q][t].key = job'[r][u].key
        PROVE  q = r /\ t = u
    <3>1. CASE (q = p /\ t = s) /\ (r = p /\ u = s)
      BY <3>1
    <3>2. CASE (q = p /\ t = s) /\ ~(r = p /\ u = s)
      BY <1>1, <1>8, <2>2, <3>2 DEF Used
    <3>3. CASE ~(q = p /\ t = s) /\ (r = p /\ u = s)
      BY <1>1, <1>8, <2>2, <3>3 DEF Used
    <3>4. CASE ~(q = p /\ t = s) /\ ~(r = p /\ u = s)
      <4>1. job'[q][t] = job[q][t] /\ job'[r][u] = job[r][u]
        BY <1>1, <3>4
      <4> QED BY <2>2, <4>1 DEF ChainsOK, UsedOnce
    <3> QED BY <3>1, <3>2, <3>3, <3>4
  <2>3. \A i, l \in DOMAIN log' : i # l => log'[i].key # log'[l].key
    BY DEF ChainsOK, UsedOnce
  <2> QED BY <2>1, <2>2, <2>3 DEF UsedOnce, Posting
\* No other session or job knows the chain that the session goes on with.
<1>12. ASSUME NEW q \in Person, q # p, session[q] # None PROVE session[q].sends # j.next.sends
  <2>1. CASE OwnChain(j)
    BY <1>5, <1>12, <2>1 DEF Alone
  <2>2. CASE ~OwnChain(j)
    BY <1>6, <1>12, <2>2 DEF ChainsOK, SessionAhead
  <2> QED BY <2>1, <2>2
<1>13. \A q \in Person : SessionAhead(q)'
  <2>1. ASSUME NEW q \in Person, session'[q] # None, NEW key \in KeyT, Used(key)', key.chain = session'[q].sends
        PROVE  key.n < session'[q].ns
    <3>1. CASE q = p
      BY <1>7, <1>8, <1>10, <2>1, <3>1
    <3>2. CASE q # p
      <4>1. session'[q] = session[q] /\ key.chain # j.next.sends
        BY <1>12, <2>1, <3>2
      <4>2. Used(key)
        BY <1>8, <1>10, <2>1, <4>1
      <4> QED BY <2>1, <4>1, <4>2 DEF ChainsOK, SessionAhead
    <3> QED BY <3>1, <3>2
  <2>2. ASSUME NEW q \in Person, session'[q] # None, NEW r \in Person, r # q, session'[r] # None
        PROVE  session'[r].sends # session'[q].sends
    <3>1. CASE q = p
      BY <1>12, <2>2, <3>1
    <3>2. CASE r = p
      BY <1>12, <2>2, <3>2
    <3>3. CASE q # p /\ r # p
      BY <2>2, <3>3 DEF ChainsOK, SessionAhead
    <3> QED BY <3>1, <3>2, <3>3
  <2> QED BY <2>1, <2>2 DEF SessionAhead
<1>14. ASSUME NEW q \in Person, NEW t \in Slots[q] PROVE (HeldOK(q, t, job[q][t]) /\ Shape(job[q][t]))'
  <2>1. CASE q = p /\ t = s
    <3>1. HeldOK(q, t, k)' /\ Shape(k)
      BY DEF HeldOK, Shape, Holding
    <3> QED BY <1>1, <2>1, <3>1
  <2>2. CASE q # p \/ t # s
    <3>1. PICK h : h = job[q][t]
      OBVIOUS
    <3>2. job'[q][t] = h
      BY <1>1, <2>2, <3>1
    <3>3. HeldOK(q, t, h) /\ Shape(h)
      BY <3>1 DEF ChainsOK, Held
    <3>4. ASSUME Holding(h), Alone(q, t, h.next.sends) PROVE Alone(q, t, h.next.sends)'
      <4>1. j.next.sends # h.next.sends
        <5>1. CASE OwnChain(j)
          BY <1>5, <2>2, <3>1, <3>4, <5>1 DEF Alone
        <5>2. CASE ~OwnChain(j)
          BY <1>6, <3>4, <5>2 DEF Alone
        <5> QED BY <5>1, <5>2
      <4>2. ASSUME NEW key \in KeyT, Used(key)' PROVE key.chain # h.next.sends
        BY <1>8, <1>10, <3>4, <4>1, <4>2 DEF Alone
      <4>3. ASSUME NEW r \in Person, session'[r] # None PROVE session'[r].sends # h.next.sends
        BY <3>4, <4>1, <4>3 DEF Alone
      <4>4. \A r \in Person : \A u \in Slots[r] : Holding(job'[r][u]) => job'[r][u] = job[r][u]
        BY <1>1
      <4>5. \A r \in Person : \A u \in Slots[r] :
              Holding(job'[r][u]) /\ job'[r][u].next.sends = h.next.sends => r = q /\ u = t
        BY <3>4, <4>4 DEF Alone
      <4> QED BY <4>2, <4>3, <4>5 DEF Alone, Holding
    <3>5. ASSUME Holding(h), h.base # None
          PROVE  session'[q] # None /\ (h.base = session'[q] \/ Further(h.base, session'[q]))
      <4>1. session[q] # None /\ (h.base = session[q] \/ Further(h.base, session[q]))
        BY <3>3, <3>5 DEF HeldOK
      <4>2. CASE q # p
        BY <4>1, <4>2
      <4>3. CASE q = p
        <5>1. SessionIn(h.base, p)
          BY <3>1, <3>5, <4>3 DEF TypedInd, JobsOK, JobOK, SessionOK
        <5>2. Further(h.base, j.next)
          BY <1>3, <4>1, <4>3, <5>1, FurtherGoesOn
        <5>3. j.next # None
          BY <1>3, SessionIsNotNone
        <5> QED BY <4>3, <5>2, <5>3
      <4> QED BY <4>2, <4>3
    <3>6. HeldOK(q, t, h)'
      BY <3>3, <3>4, <3>5 DEF HeldOK
    <3> QED BY <3>2, <3>3, <3>6
  <2> QED BY <2>1, <2>2
<1>15. Held'
  BY <1>14 DEF Held
<1> QED BY <1>11, <1>13, <1>15 DEF ChainsOK

\* The packet's key moves from the page to the log.
LEMMA PostChains ==
  ASSUME TypedInd, ChainsOK, NEW p \in Person, NEW s \in Slots[p], Post(p, s)
  PROVE  ChainsOK'
<1> DEFINE n == Len(log) + 1
           key0 == job[p][s].key
           k == Loading(selected[p])
<1>1. /\ DOMAIN log' = DOMAIN log \cup {n} /\ n \notin DOMAIN log
      /\ log'[n].key = key0 /\ \A i \in DOMAIN log : log'[i] = log[i]
  BY PostMakes
<1>2. job[p][s].at = "post" /\ Becomes(p, s, k) /\ session' = session
  BY DEF Post, database
<1>3. ~Holding(k) /\ ~Posting(k)
  BY DEF Loading, Holding, Posting
<1>4. /\ job'[p][s] = k
      /\ \A q \in Person : \A t \in Slots[q] : q # p \/ t # s => job'[q][t] = job[q][t]
  BY <1>2, JobBecomes DEF TypedInd
<1>5. Posting(job[p][s]) /\ Used(key0)
  BY <1>2 DEF Posting, Used
<1> HIDE DEF n, key0, k
<1>6. \A q \in Person : \A t \in Slots[q] : Posting(job'[q][t]) => job'[q][t] = job[q][t] /\ (q # p \/ t # s)
  BY <1>3, <1>4
<1>7. ASSUME NEW key, Used(key)' PROVE Used(key)
  <2>1. CASE \E i \in DOMAIN log' : log'[i].key = key
    BY <1>1, <1>5, <2>1 DEF Used
  <2>2. CASE \E q \in Person : \E t \in Slots[q] : Posting(job'[q][t]) /\ job'[q][t].key = key
    BY <1>6, <2>2 DEF Used
  <2> QED BY <1>7, <2>1, <2>2 DEF Used, Posting
<1>8. \A i \in DOMAIN log : log[i].key # key0
  BY <1>5 DEF ChainsOK, UsedOnce, key0
<1>9. UsedOnce'
  <2>1. \A i, l \in DOMAIN log' : i # l => log'[i].key # log'[l].key
    BY <1>1, <1>8 DEF ChainsOK, UsedOnce
  <2>2. ASSUME NEW q \in Person, NEW t \in Slots[q], Posting(job'[q][t]), NEW i \in DOMAIN log'
        PROVE  job'[q][t].key # log'[i].key
    <3>1. job'[q][t] = job[q][t] /\ (q # p \/ t # s)
      BY <1>6, <2>2
    <3>2. CASE i = n
      <4>1. job[q][t].key # key0
        BY <1>5, <2>2, <3>1 DEF ChainsOK, UsedOnce, key0
      <4> QED BY <1>1, <3>1, <3>2, <4>1
    <3>3. CASE i \in DOMAIN log
      BY <1>1, <2>2, <3>1, <3>3 DEF ChainsOK, UsedOnce
    <3> QED BY <1>1, <3>2, <3>3
  <2>3. ASSUME NEW q \in Person, NEW r \in Person, NEW t \in Slots[q], NEW u \in Slots[r],
               Posting(job'[q][t]), Posting(job'[r][u]), job'[q][t].key = job'[r][u].key
        PROVE  q = r /\ t = u
    BY <1>6, <2>3 DEF ChainsOK, UsedOnce
  <2> QED BY <2>1, <2>2, <2>3 DEF UsedOnce, Posting
<1>10. (\A q \in Person : SessionAhead(q)') /\ Held'
  <2>1. \A q \in Person : \A t \in Slots[q] : job'[q][t] = job[q][t] \/ ~Holding(job'[q][t])
    BY <1>3, <1>4
  <2>2. (\A q \in Person : SessionAhead(q)) /\ Held
    BY DEF ChainsOK
  <2> QED BY <1>2, <1>7, <2>1, <2>2, SettledStays
<1> QED BY <1>9, <1>10 DEF ChainsOK

---------------------------------------------------------------------------
(* What was opened.                                                        *)

Forgets(s, O) == \A i \in O : Past(s, log[i].key)
Opening(j) == IF j.at = "keep" THEN {Head(j.todo)} ELSE {}

ForgotOK ==
  /\ \A p \in Person : IF session[p] = None THEN opened[p] = {} ELSE Forgets(session[p], opened[p])
  /\ \A p \in Person : \A s \in Slots[p] : Holding(job[p][s]) /\ job[p][s].base = session[p] =>
       Forgets(job[p][s].next, opened[p] \cup Opening(job[p][s]))

\* What is opened, or held as opened, is in the log.
LEMMA OpenedInLog ==
  ASSUME TypedInd
  PROVE  /\ \A p \in Person : opened[p] \subseteq DOMAIN log
         /\ \A p \in Person : \A s \in Slots[p] : Opening(job[p][s]) \subseteq DOMAIN log
<1>1. \A p \in Person : opened[p] \subseteq DOMAIN log
  BY DEF TypedInd, WhereOK
<1>2. ASSUME NEW p \in Person, NEW s \in Slots[p], job[p][s].at = "keep" PROVE Head(job[p][s].todo) \in DOMAIN log
  <2>1. job[p][s].todo # <<>>
    BY <1>2 DEF TypedInd, JobsOK, JobOK
  <2> QED BY <1>2, <2>1, HeadIs
<1> QED BY <1>1, <1>2 DEF Opening

\* Messages are appended and jobs let go.
LEMMA ForgotStays ==
  ASSUME TypedInd, ForgotOK, \A i \in DOMAIN log : log'[i].key = log[i].key,
         \A q \in Person : session'[q] = session[q] /\ opened'[q] = opened[q],
         \A q \in Person : \A t \in Slots[q] : job'[q][t] = job[q][t] \/ ~Holding(job'[q][t])
  PROVE  ForgotOK'
<1>1. ASSUME NEW p \in Person
      PROVE  IF session'[p] = None THEN opened'[p] = {} ELSE \A i \in opened'[p] : Past(session'[p], log'[i].key)
  BY OpenedInLog DEF ForgotOK, Forgets
<1>2. ASSUME NEW p \in Person, NEW s \in Slots[p], Holding(job'[p][s]), job'[p][s].base = session'[p]
      PROVE  \A i \in opened'[p] \cup Opening(job'[p][s]) : Past(job'[p][s].next, log'[i].key)
  <2>1. PICK j : j = job[p][s]
    OBVIOUS
  <2>2. job'[p][s] = j /\ Holding(j) /\ j.base = session[p]
    BY <1>2, <2>1
  <2>3. \A i \in opened[p] \cup Opening(j) : i \in DOMAIN log /\ Past(j.next, log[i].key)
    BY <2>1, <2>2, OpenedInLog DEF ForgotOK, Forgets
  <2> QED BY <2>2, <2>3
<1> QED BY <1>1, <1>2 DEF ForgotOK, Forgets, Holding, Opening

\* A job gets hold of a session that is past what was opened.
LEMMA HoldsForgets ==
  ASSUME TypedInd, ForgotOK, UNCHANGED <<session, log, opened>>,
         NEW p \in Person, NEW s \in Slots[p], NEW k, Becomes(p, s, k),
         session[p] # None => \A key \in KeyT : Past(session[p], key) => Past(k.next, key),
         \A i \in Opening(k) : Past(k.next, log[i].key)
  PROVE  ForgotOK'
<1>1. /\ job'[p][s] = k
      /\ \A q \in Person : \A t \in Slots[q] : q # p \/ t # s => job'[q][t] = job[q][t]
  BY JobBecomes DEF TypedInd
<1>2. \A i \in DOMAIN log : log[i].key \in KeyT
  <2>1. \A i \in DOMAIN log : log[i] \in MessageT
    BY DEF TypedInd, LogOK
  <2> QED BY <2>1 DEF MessageT
<1>3. ASSUME NEW i \in opened[p] PROVE Past(k.next, log[i].key)
  <2>1. session[p] # None /\ Past(session[p], log[i].key)
    BY DEF ForgotOK, Forgets
  <2>2. log[i].key \in KeyT
    BY <1>2, OpenedInLog
  <2> QED BY <2>1, <2>2
<1>4. ASSUME NEW q \in Person, NEW t \in Slots[q], Holding(job'[q][t]), job'[q][t].base = session'[q]
      PROVE  \A i \in opened'[q] \cup Opening(job'[q][t]) : Past(job'[q][t].next, log'[i].key)
  <2>1. CASE q = p /\ t = s
    BY <1>1, <1>3, <2>1
  <2>2. CASE q # p \/ t # s
    <3>1. job'[q][t] = job[q][t]
      BY <1>1, <2>2
    <3> QED BY <1>4, <3>1 DEF ForgotOK, Forgets
  <2> QED BY <2>1, <2>2
<1> QED BY <1>4 DEF ForgotOK, Forgets, Holding, Opening

\* The session that was held is written: every other job holds an earlier one.
LEMMA SettlesForgets ==
  ASSUME TypedInd, ChainsOK, ForgotOK, log' = log,
         NEW p \in Person, NEW s \in Slots[p], NEW k, Becomes(p, s, k), ~Holding(k),
         NEW j, j = job[p][s], Holding(j), j.base = session[p],
         session'[p] = j.next, opened'[p] = opened[p] \cup Opening(j),
         \A q \in Person : q # p => session'[q] = session[q] /\ opened'[q] = opened[q]
  PROVE  ForgotOK'
<1>1. /\ job'[p][s] = k
      /\ \A q \in Person : \A t \in Slots[q] : q # p \/ t # s => job'[q][t] = job[q][t]
  BY JobBecomes DEF TypedInd
<1>2. /\ SessionIn(j.next, p) /\ j.next # None
      /\ j.base # None => SessionIn(j.base, p) /\ Further(j.base, j.next)
  <2>1. JobOK(p, j)
    BY DEF TypedInd, JobsOK
  <2>2. SessionIn(j.next, p) /\ (j.base # None => SessionIn(j.base, p) /\ Further(j.base, j.next))
    BY <2>1 DEF JobOK, SessionOK
  <2> QED BY <2>2, SessionIsNotNone
<1>3. ASSUME NEW q \in Person
      PROVE  IF session'[q] = None THEN opened'[q] = {} ELSE \A i \in opened'[q] : Past(session'[q], log'[i].key)
  <2>1. CASE q = p
    BY <1>2, <2>1 DEF ForgotOK, Forgets
  <2>2. CASE q # p
    BY <2>2 DEF ForgotOK, Forgets
  <2> QED BY <2>1, <2>2
<1>4. ASSUME NEW q \in Person, NEW t \in Slots[q], Holding(job'[q][t]), job'[q][t].base = session'[q]
      PROVE  \A i \in opened'[q] \cup Opening(job'[q][t]) : Past(job'[q][t].next, log'[i].key)
  <2>1. PICK h : h = job[q][t]
    OBVIOUS
  <2>2. (q # p \/ t # s) /\ job'[q][t] = h /\ Holding(h)
    BY <1>1, <1>4, <2>1
  <2>3. q # p
    <3> SUFFICES ASSUME q = p PROVE FALSE
      OBVIOUS
    <3>1. h.base = j.next /\ h.base # None
      BY <1>2, <1>4, <2>2
    <3>2. session[p] # None /\ (h.base = session[p] \/ Further(h.base, session[p]))
      BY <2>1, <2>2, <3>1 DEF ChainsOK, Held, HeldOK
    <3>3. Further(session[p], j.next) /\ SessionIn(session[p], p)
      BY <1>2, <3>2
    <3>4. Further(j.next, j.next)
      BY <1>2, <3>1, <3>2, <3>3, FurtherGoesOn
    <3> QED BY <1>2, <3>4, FurtherIsNew
  <2> QED BY <1>4, <2>1, <2>2, <2>3 DEF ForgotOK, Forgets
<1> QED BY <1>3, <1>4 DEF ForgotOK, Forgets, Holding, Opening

---------------------------------------------------------------------------
(* The messenger keeps all of it.                                          *)

KeysOK == ChainsOK /\ ForgotOK
MessengerInd == TypedInd /\ ServerOK /\ ("session" \notin raced => KeysOK)

\* A step that writes no session and seals nothing leaves all keys in order.
LEMMA QuietKeys == ASSUME TypedInd, KeysOK, Quiet PROVE KeysOK'
<1>1. ForgotOK'
  <2>1. /\ \A i \in DOMAIN log : log'[i].key = log[i].key
        /\ \A q \in Person : session'[q] = session[q] /\ opened'[q] = opened[q]
        /\ \A q \in Person : \A t \in Slots[q] : job'[q][t] = job[q][t] \/ ~Holding(job'[q][t])
    BY DEF Quiet
  <2>2. ForgotOK
    BY DEF KeysOK
  <2> QED BY <2>1, <2>2, ForgotStays
<1> QED BY <1>1, QuietChains DEF KeysOK

\* A slot that waits or walks on is such a step.
LEMMA BecomesQuiet ==
  ASSUME TypedInd, NEW p \in Person, NEW s \in Slots[p], NEW k, Becomes(p, s, k), ~Holding(k), ~Posting(k),
         UNCHANGED <<session, opened>>,
         DOMAIN log' = DOMAIN log, \A i \in DOMAIN log : log'[i].key = log[i].key
  PROVE  Quiet
<1>1. /\ job'[p][s] = k
      /\ \A q \in Person : \A t \in Slots[q] : q # p \/ t # s => job'[q][t] = job[q][t]
  BY JobBecomes DEF TypedInd
<1>2. ASSUME NEW q \in Person, NEW t \in Slots[q]
      PROVE  job'[q][t] = job[q][t] \/ (~Holding(job'[q][t]) /\ ~Posting(job'[q][t]))
  BY <1>1
<1> QED BY <1>2 DEF Quiet

\* Jobs that hold no session and no packet.
LEMMA LoadingQuiet ==
  /\ ~Holding(Idle) /\ ~Posting(Idle) /\ \A c : ~Holding(Loading(c)) /\ ~Posting(Loading(c))
  /\ \A td : ~Holding([at |-> "walk", todo |-> td]) /\ ~Posting([at |-> "walk", todo |-> td])
BY DEF Idle, Loading, Holding, Posting

\* Clicks write no session that has not been written before.
LEMMA ClicksQuiet ==
  ASSUME TypedInd, NEW p \in Person,
         (\E c \in Conv : Select(p, c)) \/ Trust(p) \/ Verify(p) \/ Reload(p) \/ SendClick(p) \/ RegisterReads(p)
  PROVE  Quiet /\ raced' = raced
<1>1. ASSUME NEW c \in Conv, Select(p, c) PROVE Quiet /\ raced' = raced
  <2>1. PICK s \in Slots[p] : Becomes(p, s, Loading(c))
    BY <1>1, FreeIsSlot DEF Select, StartLoad
  <2>2. UNCHANGED <<session, opened, log, raced>>
    BY <1>1 DEF Select, database, server
  <2> QED BY <2>1, <2>2, LoadingQuiet, BecomesQuiet
<1>2. CASE Trust(p)
  <2>1. PICK s \in Slots[p] : Becomes(p, s, Loading(selected[p]))
    BY <1>2, FreeIsSlot DEF Trust, StartLoad
  <2>2. UNCHANGED <<session, opened, raced>>
    BY <1>2 DEF Trust, database
  <2>3. \A i \in DOMAIN log : log[i] \in MessageT
    BY DEF TypedInd, LogOK
  <2>4. /\ DOMAIN log' = DOMAIN log
        /\ \A i \in DOMAIN log : log'[i] = log[i] \/ log'[i] = [log[i] EXCEPT !.status = "accepted"]
    BY <1>2 DEF Trust
  <2>5. \A i \in DOMAIN log : log'[i].key = log[i].key
    BY <2>3, <2>4 DEF MessageT
  <2> QED BY <2>1, <2>2, <2>4, <2>5, LoadingQuiet, BecomesQuiet
<1>3. CASE Verify(p)
  <2>1. session[p] = None
    BY <1>3 DEF Verify, TypedInd, SessionsOK
  <2>2. \A q \in Person : session'[q] = session[q]
    BY <1>3, <2>1 DEF Verify, TypedInd, SessionsOK
  <2>3. UNCHANGED <<opened, log, job, raced>>
    BY <1>3 DEF Verify, page, server
  <2> QED BY <2>2, <2>3 DEF Quiet
<1>4. CASE Reload(p)
  <2>1. UNCHANGED <<session, opened, log, raced>>
    BY <1>4 DEF Reload, database, server
  <2>2. \A q \in Person : \A t \in Slots[q] :
          job'[q][t] = job[q][t] \/ job'[q][t] = Idle \/ job'[q][t] = Loading(FirstConv)
    BY <1>4 DEF Reload, TypedInd, JobsOK
  <2>3. \A q \in Person : \A t \in Slots[q] :
          job'[q][t] = job[q][t] \/ (~Holding(job'[q][t]) /\ ~Posting(job'[q][t]))
    BY <2>2, LoadingQuiet
  <2> QED BY <2>1, <2>3 DEF Quiet
<1>5. CASE SendClick(p)
  <2> DEFINE k == [at |-> "bundles", conv |-> selected[p],
                   number |-> IF selected[p] \in Groups THEN groupCounter[p] ELSE -1]
  <2>1. PICK s \in Slots[p] : Becomes(p, s, k)
    BY <1>5, FreeIsSlot DEF SendClick
  <2>2. ~Holding(k) /\ ~Posting(k)
    BY DEF Holding, Posting
  <2>3. UNCHANGED <<session, opened, log, raced>>
    BY <1>5 DEF SendClick, database, server
  <2> HIDE DEF k
  <2>4. PICK x : x = k
    OBVIOUS
  <2> QED BY <2>1, <2>2, <2>3, <2>4, BecomesQuiet
<1>6. CASE RegisterReads(p)
  BY <1>6 DEF RegisterReads, database, page, history, Quiet
<1> QED BY <1>1, <1>2, <1>3, <1>4, <1>5, <1>6

\* Answers and failures write no session.
LEMMA WaitsQuiet ==
  ASSUME TypedInd, NEW p \in Person, NEW s \in Slots[p],
         Bundles(p, s) \/ SendFails(p, s) \/ Fetched(p, s) \/ Loaded(p, s) \/ LoadFails(p, s)
  PROVE  Quiet /\ raced' = raced
<1>1. CASE Bundles(p, s)
  <2>1. PICK k : Becomes(p, s, k) /\ k.at = "seal"
    BY <1>1 DEF Bundles
  <2>2. ~Holding(k) /\ ~Posting(k)
    BY <2>1 DEF Holding, Posting
  <2>3. UNCHANGED <<session, opened, log, raced>>
    BY <1>1 DEF Bundles, database
  <2> QED BY <2>1, <2>2, <2>3, BecomesQuiet
<1>2. CASE Fetched(p, s)
  <2>1. PICK td : Becomes(p, s, [at |-> "walk", todo |-> td])
    BY <1>2 DEF Fetched
  <2>2. UNCHANGED <<session, opened, log, raced>>
    BY <1>2 DEF Fetched, database, server, history
  <2>3. PICK x : x = [at |-> "walk", todo |-> td]
    OBVIOUS
  <2>4. Becomes(p, s, x) /\ ~Holding(x) /\ ~Posting(x)
    BY <2>1, <2>3, LoadingQuiet
  <2> QED BY <2>2, <2>4, BecomesQuiet
<1>3. CASE SendFails(p, s) \/ Loaded(p, s) \/ LoadFails(p, s)
  <2>1. Becomes(p, s, Idle) /\ UNCHANGED <<session, opened, log, raced>>
    BY <1>3 DEF SendFails, Loaded, LoadFails, database, server, history
  <2> QED BY <2>1, LoadingQuiet, BecomesQuiet
<1> QED BY <1>1, <1>2, <1>3

\* Sealing keeps the keys in order.
LEMMA SealKeys ==
  ASSUME TypedInd, KeysOK, NEW p \in Person, NEW s \in Slots[p], Seal(p, s)
  PROVE  KeysOK' /\ raced' = raced
<1>1. PICK k : /\ Becomes(p, s, k) /\ k.at = "put" /\ k.base = session[p]
               /\ k.key.chain = k.next.sends /\ k.next.ns = k.key.n + 1
               /\ session[p] # None =>
                    /\ Further(session[p], k.next) /\ k.next.sends = session[p].sends
                    /\ k.key = KdfCK(session[p].sends, session[p].ns)
                    /\ \A key \in KeyT : Past(session[p], key) => Past(k.next, key)
               /\ session[p] = None => k.key.n = 0 /\ Fresh(p, 2) \in Newest(k.next.sends)
  BY SealMakes
<1>2. UNCHANGED <<session, log, opened, raced>> /\ job[p][s].at = "seal"
  BY DEF Seal, server
<1>3. Holding(k) /\ Shape(k) /\ ~Holding(job[p][s]) /\ ~Posting(job[p][s]) /\ Opening(k) = {}
  BY <1>1, <1>2 DEF Holding, Posting, Shape, Opening
<1>4. Fresh(p, 2) \notin Made
  BY FreshIsNew
<1>5. PICK x : x = Fresh(p, 2)
  OBVIOUS
<1>6. ChainsOK'
  BY <1>1, <1>2, <1>3, <1>4, <1>5, HoldsChains DEF KeysOK
<1>7. ForgotOK'
  BY <1>1, <1>2, <1>3, HoldsForgets DEF KeysOK
<1> QED BY <1>2, <1>6, <1>7 DEF KeysOK

\* Opening keeps the keys in order.
LEMMA OpenKeys ==
  ASSUME TypedInd, KeysOK, NEW p \in Person, NEW s \in Slots[p], Open(p, s)
  PROVE  KeysOK' /\ raced' = raced
<1>1. /\ job[p][s].at = "walk" /\ job[p][s].todo # <<>>
      /\ UNCHANGED <<session, log, opened, raced>>
  BY OpenWalks
<1>2. CASE Becomes(p, s, [job[p][s] EXCEPT !.todo = Tail(@)])
  <2>1. job[p][s] = [at |-> "walk", todo |-> job[p][s].todo]
    BY <1>1 DEF TypedInd, JobsOK, JobOK
  <2>2. PICK x : x = [job[p][s] EXCEPT !.todo = Tail(@)]
    OBVIOUS
  <2>3. x = [at |-> "walk", todo |-> Tail(job[p][s].todo)]
    BY <2>1, <2>2, Passes
  <2>4. ~Holding(x) /\ ~Posting(x) /\ Becomes(p, s, x)
    BY <1>2, <2>2, <2>3, LoadingQuiet
  <2> QED BY <1>1, <2>4, BecomesQuiet, QuietKeys
<1>3. CASE ~ Becomes(p, s, [job[p][s] EXCEPT !.todo = Tail(@)])
  <2>1. PICK k : /\ Becomes(p, s, k) /\ k.at = "keep" /\ k.base = session[p] /\ k.todo = job[p][s].todo
                 /\ Past(k.next, log[Head(job[p][s].todo)].key)
                 /\ session[p] # None =>
                      /\ Further(session[p], k.next)
                      /\ \A key \in KeyT : Past(session[p], key) => Past(k.next, key)
                 /\ \/ session[p] # None /\ k.next.sends = session[p].sends /\ k.next.ns = session[p].ns
                    \/ k.next.ns = 0 /\ Fresh(p, 1) \in Newest(k.next.sends)
    BY <1>3, OpenMakes
  <2>2. PICK x : x = Fresh(p, 1)
    OBVIOUS
  <2>3. x \notin Made
    BY <2>2, FreshIsNew
  <2>4. /\ Holding(k) /\ ~Holding(job[p][s]) /\ ~Posting(job[p][s])
        /\ \A i \in Opening(k) : Past(k.next, log[i].key)
    BY <1>1, <2>1 DEF Holding, Posting, Opening
  <2>5. x \in Newest(k.next.sends) => OwnChain(k)
    <3>1. session[p] # None => Young(session[p].sends)
      BY DEF TypedInd, SessionsOK, SessionOK
    <3> QED BY <2>1, <2>3, <3>1 DEF OwnChain, Young
  <2>6. Shape(k)
    <3>1. CASE session[p] # None /\ k.next.sends = session[p].sends /\ k.next.ns = session[p].ns
      BY <2>1, <3>1 DEF Shape, OwnChain
    <3>2. CASE k.next.ns = 0 /\ Fresh(p, 1) \in Newest(k.next.sends)
      BY <2>1, <2>2, <2>5, <3>2 DEF Shape
    <3> QED BY <2>1, <3>1, <3>2
  <2>7. \/ session[p] # None /\ k.next.sends = session[p].sends
        \/ x \in Newest(k.next.sends)
    BY <2>1, <2>2
  <2>8. ChainsOK'
    BY <1>1, <2>1, <2>3, <2>4, <2>6, <2>7, HoldsChains DEF KeysOK
  <2>9. ForgotOK'
    BY <1>1, <2>1, <2>4, HoldsForgets DEF KeysOK
  <2> QED BY <1>1, <2>8, <2>9 DEF KeysOK
<1> QED BY <1>2, <1>3, Zenon

\* Writing a session that nobody overtook keeps the keys in order.
LEMMA WritesKeys ==
  ASSUME TypedInd, KeysOK, NEW p \in Person, NEW s \in Slots[p], PutSession(p, s) \/ Keep(p, s),
         "session" \notin raced'
  PROVE  KeysOK'
<1>1. PICK j : j = job[p][s]
  OBVIOUS
<1>2. Holding(j) /\ session[p] = j.base
  <2>1. WasRaced(p, j.base) /\ j.at \in {"put", "keep"}
    BY <1>1 DEF PutSession, Keep
  <2> QED BY <2>1 DEF WasRaced, Holding
<1>3. session' = [session EXCEPT ![p] = j.next] /\ log' = log
  BY <1>1 DEF PutSession, Keep, server
<1>4. session'[p] = j.next /\ \A q \in Person : q # p => session'[q] = session[q]
  BY <1>3 DEF TypedInd, SessionsOK
<1>5. CASE PutSession(p, s)
  <2> DEFINE k0 == [at |-> "post", conv |-> j.conv, number |-> j.number,
                    prekey |-> j.prekey, header |-> j.header, key |-> j.key]
  <2>1. j.at = "put" /\ Becomes(p, s, k0) /\ opened' = opened
    BY <1>1, <1>5 DEF PutSession
  <2>2. k0.key = j.key /\ ~Holding(k0) /\ Posting(k0)
    BY DEF Holding, Posting
  <2>3. PICK k : k = k0
    OBVIOUS
  <2> HIDE DEF k0
  <2>4. Becomes(p, s, k) /\ k.key = j.key /\ ~Holding(k) /\ Posting(k)
    BY <2>1, <2>2, <2>3
  <2>5. ChainsOK'
    BY <1>1, <1>2, <1>3, <1>4, <2>1, <2>4, SettlesChains DEF KeysOK
  <2>6. opened'[p] = opened[p] \cup Opening(j) /\ \A q \in Person : opened'[q] = opened[q]
    BY <2>1 DEF Opening
  <2>7. ForgotOK'
    BY <1>1, <1>2, <1>3, <1>4, <2>4, <2>6, SettlesForgets DEF KeysOK
  <2> QED BY <2>5, <2>7 DEF KeysOK
<1>6. CASE Keep(p, s)
  <2>1. PICK k : k = [at |-> "walk", todo |-> Tail(j.todo)]
    OBVIOUS
  <2>2. /\ j.at = "keep" /\ Becomes(p, s, k)
        /\ opened' = [opened EXCEPT ![p] = @ \cup {Head(j.todo)}]
    BY <1>1, <1>6, <2>1 DEF Keep
  <2>3. ~Holding(k) /\ ~Posting(k)
    BY <2>1, LoadingQuiet
  <2>4. ChainsOK'
    BY <1>1, <1>2, <1>3, <1>4, <2>2, <2>3, SettlesChains DEF KeysOK
  <2>5. opened'[p] = opened[p] \cup Opening(j) /\ \A q \in Person : q # p => opened'[q] = opened[q]
    BY <2>2 DEF Opening, TypedInd, WhereOK
  <2>6. ForgotOK'
    BY <1>1, <1>2, <1>3, <1>4, <2>2, <2>3, <2>5, SettlesForgets DEF KeysOK
  <2> QED BY <2>4, <2>6 DEF KeysOK
<1> QED BY <1>5, <1>6

\* Sending keeps the keys in order.
LEMMA PostKeys ==
  ASSUME TypedInd, KeysOK, NEW p \in Person, NEW s \in Slots[p], Post(p, s)
  PROVE  KeysOK' /\ raced' = raced
<1>1. ChainsOK'
  BY PostChains DEF KeysOK
<1>2. UNCHANGED <<session, opened, raced>> /\ Becomes(p, s, Loading(selected[p]))
  BY DEF Post, database, history
<1>3. \A i \in DOMAIN log : log'[i].key = log[i].key
  BY PostMakes
<1>4. \A q \in Person : \A t \in Slots[q] : job'[q][t] = job[q][t] \/ ~Holding(job'[q][t])
  BY <1>2, JobBecomes, LoadingQuiet DEF TypedInd
<1>5. ForgotOK'
  BY <1>2, <1>3, <1>4, ForgotStays DEF KeysOK
<1> QED BY <1>1, <1>2, <1>5 DEF KeysOK

\* Every step keeps the types, the prekeys and, without a race, the keys.
LEMMA MessengerStep == ASSUME MessengerInd, [Next]_vars PROVE MessengerInd'
<1>1. TypedInd /\ ServerOK /\ TypedInd' /\ ServerOK'
  BY TypedNext, ServerNext DEF MessengerInd
<1> SUFFICES ASSUME "session" \notin raced' PROVE KeysOK'
  BY <1>1 DEF MessengerInd
<1>2. "session" \notin raced => KeysOK
  BY DEF MessengerInd
<1>3. CASE RegisterWrites
  <2>1. Quiet /\ "session" \notin raced
    BY <1>3 DEF RegisterWrites, database, page, Quiet
  <2> QED BY <1>1, <1>2, <2>1, QuietKeys
<1>4. ASSUME NEW p \in Person,
             \/ \E c \in Conv : Select(p, c)
             \/ Trust(p) \/ Verify(p) \/ Reload(p) \/ SendClick(p) \/ RegisterReads(p)
      PROVE  KeysOK'
  BY <1>1, <1>2, <1>4, ClicksQuiet, QuietKeys
<1>5. ASSUME NEW p \in Person, NEW s \in Slots[p],
             Bundles(p, s) \/ SendFails(p, s) \/ Fetched(p, s) \/ Loaded(p, s) \/ LoadFails(p, s)
      PROVE  KeysOK'
  BY <1>1, <1>2, <1>5, WaitsQuiet, QuietKeys
<1>6. ASSUME NEW p \in Person, NEW s \in Slots[p], Seal(p, s) PROVE KeysOK'
  <2>1. raced' = raced
    BY <1>6 DEF Seal
  <2> QED BY <1>1, <1>2, <1>6, <2>1, SealKeys
<1>7. ASSUME NEW p \in Person, NEW s \in Slots[p], Open(p, s) PROVE KeysOK'
  <2>1. raced' = raced
    BY <1>7, OpenWalks
  <2> QED BY <1>1, <1>2, <1>7, <2>1, OpenKeys, Zenon
<1>8. ASSUME NEW p \in Person, NEW s \in Slots[p], PutSession(p, s) \/ Keep(p, s) PROVE KeysOK'
  <2>1. "session" \notin raced
    BY <1>8 DEF PutSession, Keep, WasRaced
  <2> QED BY <1>1, <1>2, <1>8, <2>1, WritesKeys
<1>9. ASSUME NEW p \in Person, NEW s \in Slots[p], Post(p, s) PROVE KeysOK'
  <2>1. raced' = raced
    BY <1>9 DEF Post, history
  <2> QED BY <1>1, <1>2, <1>9, <2>1, PostKeys
<1>10. CASE UNCHANGED vars
  <2>1. Quiet /\ raced' = raced
    BY <1>10 DEF vars, database, page, server, history, Quiet
  <2> QED BY <1>1, <1>2, <2>1, QuietKeys
<1> QED BY <1>3, <1>4, <1>5, <1>6, <1>7, <1>8, <1>9, <1>10 DEF Next

\* At first all of them are in order.
LEMMA MessengerStart == ASSUME Init PROVE MessengerInd
<1>1. TypedInd /\ ServerOK
  BY TypedInit, ServerInit
<1>2. /\ log = <<>> /\ \A p \in Person : session[p] = None /\ opened[p] = {}
      /\ \A p \in Person : \A s \in Slots[p] : job[p][s] = Idle
  BY DEF Init
<1>3. UsedOnce
  BY <1>2, LoadingQuiet DEF UsedOnce
<1>4. (\A p \in Person : SessionAhead(p)) /\ Held
  <2>1. Shape(Idle)
    BY DEF Shape, Idle
  <2> QED BY <1>2, <2>1, LoadingQuiet DEF SessionAhead, Held, HeldOK
<1>5. ForgotOK
  BY <1>2, LoadingQuiet DEF ForgotOK
<1> QED BY <1>1, <1>3, <1>4, <1>5 DEF MessengerInd, KeysOK, ChainsOK

\* Four of the five conjuncts that are checked.
LEMMA MessengerFollows ==
  ASSUME MessengerInd
  PROVE  TypeOK /\ PrekeysOnce /\ KeysUsedOnce /\ OpenedIsForgotten
<1>1. TypeOK /\ PrekeysOnce
  BY TypeOKFollows, PrekeysOnceFollows DEF MessengerInd
<1>2. KeysUsedOnce
  BY DEF MessengerInd, KeysOK, ChainsOK, UsedOnce, KeysUsedOnce
<1>3. OpenedIsForgotten
  BY DEF MessengerInd, KeysOK, ForgotOK, Forgets, Past, OpenedIsForgotten
<1> QED BY <1>1, <1>2, <1>3


---------------------------------------------------------------------------
(* What opening a message makes of a session, field by field.              *)

\* The keys kept for the messages a, ..., b - 1 of a chain.
Filed(dh, c, a, b) == {[dh |-> dh, n |-> k, key |-> KdfCK(c, k)] : k \in a .. b - 1}

\* What SkipKeys files for a stretch of a chain, key by key.
LEMMA FiledHas ==
  ASSUME NEW dh, NEW c, NEW a \in Nat, NEW b \in Nat
  PROVE  /\ \A k \in Filed(dh, c, a, b) : k.dh = dh /\ k.n \in Nat /\ k.key = KdfCK(c, k.n) /\ a <= k.n /\ k.n < b
         /\ \A n \in Nat : a <= n /\ n < b => \E k \in Filed(dh, c, a, b) : k.dh = dh /\ k.n = n /\ k.key = KdfCK(c, n)
         /\ \A k, l \in Filed(dh, c, a, b) : k.n = l.n => k = l
<1>1. \A n : n \in a .. b - 1 <=> n \in Nat /\ a <= n /\ n < b
  OBVIOUS
<1>2. ASSUME NEW k \in Filed(dh, c, a, b)
      PROVE  k.dh = dh /\ k.n \in Nat /\ k.key = KdfCK(c, k.n) /\ a <= k.n /\ k.n < b
             /\ k = [dh |-> dh, n |-> k.n, key |-> KdfCK(c, k.n)]
  <2>1. PICK n \in a .. b - 1 : k = [dh |-> dh, n |-> n, key |-> KdfCK(c, n)]
    BY DEF Filed
  <2>2. k.n = n /\ k.dh = dh /\ k.key = KdfCK(c, n)
    BY <2>1
  <2> QED BY <1>1, <2>1, <2>2
<1>3. ASSUME NEW n \in Nat, a <= n, n < b
      PROVE  \E k \in Filed(dh, c, a, b) : k.dh = dh /\ k.n = n /\ k.key = KdfCK(c, n)
  <2>1. n \in a .. b - 1
    BY <1>1, <1>3
  <2>2. [dh |-> dh, n |-> n, key |-> KdfCK(c, n)] \in Filed(dh, c, a, b)
    BY <2>1 DEF Filed
  <2> QED BY <2>2
<1>4. \A k, l \in Filed(dh, c, a, b) : k.n = l.n => k = l
  BY <1>2
<1> QED BY <1>2, <1>3, <1>4

\* SkipKeys files the stretch of the receiving chain it passes, and nothing else.
LEMMA SkipsAre ==
  ASSUME NEW s \in SessionT, NEW until \in Nat
  PROVE  LET t == SkipKeys(s, until)
         IN  /\ t.skipped = IF s.recvs = NoChain THEN s.skipped
                            ELSE s.skipped \cup Filed(s.peer, s.recvs, s.nr, until)
             /\ t.nr = IF s.recvs = NoChain \/ until <= s.nr THEN s.nr ELSE until
<1>1. s.nr \in Nat
  BY DEF SessionT
<1>2. CASE s.recvs = NoChain
  BY <1>2 DEF SkipKeys
<1>3. CASE s.recvs # NoChain /\ until <= s.nr
  <2>1. Filed(s.peer, s.recvs, s.nr, until) = {}
    <3>1. s.nr .. until - 1 = {}
      BY <1>1, <1>3
    <3> QED BY <3>1 DEF Filed
  <2> QED BY <1>3, <2>1 DEF SkipKeys
<1>4. CASE s.recvs # NoChain /\ ~(until <= s.nr)
  <2> DEFINE add == Filed(s.peer, s.recvs, s.nr, until)
  <2>1. SkipKeys(s, until) = [s EXCEPT !.nr = until, !.skipped = s.skipped \cup add]
    BY <1>4 DEF SkipKeys, Filed
  <2> HIDE DEF add
  <2>2. [s EXCEPT !.nr = until, !.skipped = s.skipped \cup add].skipped = s.skipped \cup add
    BY DEF SessionT
  <2>3. [s EXCEPT !.nr = until, !.skipped = s.skipped \cup add].nr = until
    BY DEF SessionT
  <2> QED BY <1>4, <2>1, <2>2, <2>3 DEF add
<1> QED BY <1>2, <1>3, <1>4

\* A message of the receiving chain that is not passed opens, or its gap is too wide.
LEMMA ChainOpens ==
  ASSUME NEW s \in SessionT, NEW header \in HeaderT, NEW key \in KeyT,
         s.recvs # NoChain, s.peer \in PairT, key = KdfCK(s.recvs, header.n), s.nr <= header.n
  PROVE  LET r == FromChain(s, header, key)
             t == r.next
         IN  \/ r = Gap
             \/ /\ r.ok
                /\ t.root = s.root /\ t.sends = s.sends /\ t.recvs = s.recvs /\ t.self = s.self
                /\ t.peer = s.peer /\ t.ns = s.ns /\ t.pn = s.pn /\ t.nr = header.n + 1
                /\ t.skipped = s.skipped \cup Filed(s.peer, s.recvs, s.nr, header.n)
<1> DEFINE at == SkipKeys(s, header.n)
           n == header.n
<1>1. n \in Nat /\ s.nr \in Nat
  BY DEF HeaderT, SessionT
<1>2. /\ at \in SessionT
      /\ at.root = s.root /\ at.sends = s.sends /\ at.recvs = s.recvs /\ at.self = s.self
      /\ at.peer = s.peer /\ at.ns = s.ns /\ at.pn = s.pn
  BY <1>1, SkipKeysIs
<1>3. /\ at.skipped = s.skipped \cup Filed(s.peer, s.recvs, s.nr, n)
      /\ at.nr = IF s.recvs = NoChain \/ n <= s.nr THEN s.nr ELSE n
  BY <1>1, SkipsAre
<1>4. at.nr = n
  BY <1>1, <1>3
<1>5. FromChain(s, header, key) = IF TooFar(s, n) THEN Gap
                                  ELSE [ok |-> TRUE, next |-> [at EXCEPT !.nr = n + 1]]
  <2>1. KdfCK(at.recvs, at.nr) = key
    BY <1>2, <1>4
  <2> QED BY <1>4, <2>1 DEF FromChain
<1> HIDE DEF at, n
<1> DEFINE t == [at EXCEPT !.nr = n + 1]
<1>6. /\ t.root = at.root /\ t.sends = at.sends /\ t.recvs = at.recvs /\ t.self = at.self
      /\ t.peer = at.peer /\ t.ns = at.ns /\ t.pn = at.pn /\ t.nr = n + 1 /\ t.skipped = at.skipped
  BY <1>2 DEF SessionT
<1>7. Gap.gap
  BY DEF Gap
<1> HIDE DEF t
<1>8. CASE TooFar(s, n)
  BY <1>5, <1>7, <1>8
<1>9. CASE ~TooFar(s, n)
  <2>1. FromChain(s, header, key).ok /\ FromChain(s, header, key).next = t
    BY <1>5, <1>9 DEF t
  <2> QED BY <1>2, <1>3, <1>6, <2>1 DEF n
<1> QED BY <1>8, <1>9

\* A message whose key was filed opens with it.
LEMMA KeptOpens ==
  ASSUME NEW s \in SessionT, NEW header \in HeaderT, NEW key \in KeyT, NEW pair \in PairT,
         \E k \in Kept(s, header) : k.key = key
  PROVE  LET r == RatchetDecrypt(s, header, key, pair)
             t == r.next
         IN  /\ r.ok
             /\ t.root = s.root /\ t.sends = s.sends /\ t.recvs = s.recvs /\ t.self = s.self
             /\ t.peer = s.peer /\ t.ns = s.ns /\ t.pn = s.pn /\ t.nr = s.nr
             /\ t.skipped = s.skipped \ Kept(s, header)
<1> DEFINE t == [s EXCEPT !.skipped = s.skipped \ Kept(s, header)]
<1>1. RatchetDecrypt(s, header, key, pair) = [ok |-> TRUE, next |-> t]
  BY DEF RatchetDecrypt, FromKept
<1>2. /\ t.root = s.root /\ t.sends = s.sends /\ t.recvs = s.recvs /\ t.self = s.self
      /\ t.peer = s.peer /\ t.ns = s.ns /\ t.pn = s.pn /\ t.nr = s.nr
  BY DEF SessionT
<1>3. t.skipped = s.skipped \ Kept(s, header)
  BY DEF SessionT
<1> HIDE DEF t
<1>4. RatchetDecrypt(s, header, key, pair).ok /\ RatchetDecrypt(s, header, key, pair).next = t
  BY <1>1
<1> QED BY <1>2, <1>3, <1>4

\* RatchetDecrypt opens a message of the present chain ...
LEMMA NextOpens ==
  ASSUME NEW s \in SessionT, NEW header \in HeaderT, NEW key \in KeyT, Kept(s, header) = {},
         s.peer = header.dh, s.recvs # NoChain, key = KdfCK(s.recvs, header.n), s.nr <= header.n, NEW pair \in PairT
  PROVE  LET r == RatchetDecrypt(s, header, key, pair)
             t == r.next
         IN  \/ r = Gap
             \/ /\ r.ok
                /\ t.root = s.root /\ t.sends = s.sends /\ t.recvs = s.recvs /\ t.self = s.self
                /\ t.peer = s.peer /\ t.ns = s.ns /\ t.pn = s.pn /\ t.nr = header.n + 1
                /\ t.skipped = s.skipped \cup Filed(s.peer, s.recvs, s.nr, header.n)
<1>1. RatchetDecrypt(s, header, key, pair) = FromChain(s, header, key)
  BY DEF RatchetDecrypt
<1>2. s.peer \in PairT
  BY DEF HeaderT
<1> QED BY <1>1, <1>2, ChainOpens

\* The chain that a turn of the other side begins.
Turned(s, dh) == KdfRK(s.root, DH(s.self, dh))

\* ... and one of the other side's next chain, after turning to it.
LEMMA TurnOpens ==
  ASSUME NEW s \in SessionT, NEW header \in HeaderT, NEW key \in KeyT, Kept(s, header) = {},
         s.recvs # NoChain => s.peer \in PairT, s.peer # header.dh,
         key = KdfCK(Turned(s, header.dh), header.n), NEW pair \in PairT
  PROVE  LET r == RatchetDecrypt(s, header, key, pair)
             t == r.next
         IN  \/ r = Gap
             \/ /\ r.ok
                /\ t.recvs = Turned(s, header.dh) /\ t.sends = KdfRK(t.recvs, DH(pair, header.dh))
                /\ t.root = t.sends /\ t.self = pair /\ t.peer = header.dh
                /\ t.ns = 0 /\ t.pn = s.ns /\ t.nr = header.n + 1
                /\ t.skipped = (IF s.recvs = NoChain THEN s.skipped
                                ELSE s.skipped \cup Filed(s.peer, s.recvs, s.nr, header.pn))
                               \cup Filed(header.dh, Turned(s, header.dh), 0, header.n)
<1> DEFINE d == DhRatchet(s, header, pair)
<1>1. header.n \in Nat /\ header.pn \in Nat /\ header.dh \in PairT
  BY DEF HeaderT
<1>2. /\ d \in SessionT /\ d.recvs = Turned(s, header.dh)
      /\ d.sends = KdfRK(d.recvs, DH(pair, header.dh)) /\ d.root = d.sends
      /\ d.self = pair /\ d.peer = header.dh /\ d.ns = 0 /\ d.nr = 0
  BY DhRatchetIs DEF Turned
<1>3. d.recvs # NoChain
  <2>1. s.root \in ChainT /\ s.self \in PairT
    BY DEF SessionT
  <2>2. DH(s.self, header.dh) \in MixT
    BY <1>1, <2>1, Agreements
  <2> QED BY <1>2, <2>1, <2>2, Mixing DEF Turned, NoChain
<1>4. d.pn = s.ns /\ d.skipped = IF s.recvs = NoChain THEN s.skipped
                                 ELSE s.skipped \cup Filed(s.peer, s.recvs, s.nr, header.pn)
  <2> DEFINE old == SkipKeys(s, header.pn)
  <2>1. old \in SessionT /\ old.ns = s.ns
    BY <1>1, SkipKeysIs
  <2>2. old.skipped = IF s.recvs = NoChain THEN s.skipped
                      ELSE s.skipped \cup Filed(s.peer, s.recvs, s.nr, header.pn)
    BY <1>1, SkipsAre
  <2> DEFINE c == KdfRK(old.root, DH(old.self, header.dh))
             e == KdfRK(c, DH(pair, header.dh))
  <2>3. d = [old EXCEPT !.pn = old.ns, !.ns = 0, !.nr = 0, !.peer = header.dh,
                        !.recvs = c, !.self = pair, !.root = e, !.sends = e]
    BY DEF DhRatchet
  <2> HIDE DEF d, old, c, e
  <2>4. d.pn = old.ns /\ d.skipped = old.skipped
    BY <2>1, <2>3 DEF SessionT
  <2> QED BY <2>1, <2>2, <2>4
<1>5. RatchetDecrypt(s, header, key, pair) = IF TooFar(s, header.pn) THEN Gap ELSE FromChain(d, header, key)
  BY DEF RatchetDecrypt
<1>6. Gap.gap
  BY DEF Gap
<1> HIDE DEF d
<1>7. CASE TooFar(s, header.pn)
  BY <1>5, <1>6, <1>7
<1>8. CASE ~TooFar(s, header.pn)
  <2> DEFINE r == FromChain(d, header, key)
  <2>1. key = KdfCK(d.recvs, header.n) /\ d.nr <= header.n /\ d.peer \in PairT
    BY <1>1, <1>2
  <2>2. \/ r = Gap
        \/ /\ r.ok
           /\ r.next.root = d.root /\ r.next.sends = d.sends /\ r.next.recvs = d.recvs /\ r.next.self = d.self
           /\ r.next.peer = d.peer /\ r.next.ns = d.ns /\ r.next.pn = d.pn /\ r.next.nr = header.n + 1
           /\ r.next.skipped = d.skipped \cup Filed(d.peer, d.recvs, d.nr, header.n)
    BY <1>2, <1>3, <2>1, ChainOpens
  <2>3. RatchetDecrypt(s, header, key, pair) = r
    BY <1>5, <1>8
  <2> HIDE DEF r
  <2> QED BY <1>2, <1>4, <2>2, <2>3
<1> QED BY <1>7, <1>8

---------------------------------------------------------------------------
(* Two sessions that answer each other.                                    *)

\* Each kept key is filed once, under a key of the other side that is not newer than
\* its latest, and is passed over by the receiving chain.
Files(s) ==
  \A k \in s.skipped :
    /\ s.peer # NoKey /\ k.dh[2] <= s.peer[2]
    /\ k.dh = s.peer => k.n < s.nr
    /\ \A l \in s.skipped : l.dh = k.dh /\ l.n = k.n => l = k

\* x has answered the latest key of y, which y has not seen yet.
Paired(x, y) ==
  /\ x.sends = x.root /\ y.root # <<>> /\ x.root = KdfRK(y.root, DH(x.self, y.self))
  /\ x.recvs = y.sends /\ x.peer = y.self /\ x.nr <= y.ns
  /\ y.peer # NoKey => y.peer[2] < x.self[2]

\* Where the key of a packet is for a session: kept, on its chain, or a turn away.
InKept(s, m) == \E k \in Kept(s, m.header) : k.key = m.key
InChain(s, o, m) ==
  /\ s.peer # NoKey /\ m.header.dh = s.peer /\ m.key = KdfCK(s.recvs, m.header.n)
  /\ s.nr <= m.header.n /\ m.header.n < (IF o.self = s.peer THEN o.ns ELSE o.pn)
InTurn(s, o, m) ==
  /\ o.self # s.peer /\ m.header.dh = o.self /\ m.header.pn = o.pn
  /\ m.key = KdfCK(o.sends, m.header.n) /\ m.header.n < o.ns
Reaches(s, o, m) == InKept(s, m) \/ InChain(s, o, m) \/ InTurn(s, o, m)

Packet(m) == m.header \in HeaderT /\ m.key \in KeyT /\ m.key.chain # <<>>

\* The two keep answering each other when s becomes t and has used the keys K.
Answers(s, o, t, K) ==
  /\ Files(t) /\ t.root # <<>> /\ t.root[1] = s.root[1]
  /\ Paired(s, o) => Paired(t, o)
  /\ Paired(o, s) => Paired(o, t) \/ Paired(t, o)
  /\ \A l : Packet(l) /\ Reaches(s, o, l) /\ l.key \notin K => Reaches(t, o, l)
  /\ \A l : Packet(l) /\ Reaches(o, s, l) => Reaches(o, t, l)

\* A filed key answers for its message and is given up.
LEMMA KeptAnswers ==
  ASSUME NEW s \in SessionT, NEW o, s.root # <<>>, Files(s), NEW m, Packet(m), InKept(s, m), NEW pair \in PairT
  PROVE  LET r == RatchetDecrypt(s, m.header, m.key, pair)
         IN  r.ok /\ Answers(s, o, r.next, {m.key})
<1> DEFINE r == RatchetDecrypt(s, m.header, m.key, pair)
           t == r.next
<1>1. /\ r.ok
      /\ t.root = s.root /\ t.sends = s.sends /\ t.recvs = s.recvs /\ t.self = s.self
      /\ t.peer = s.peer /\ t.ns = s.ns /\ t.pn = s.pn /\ t.nr = s.nr
      /\ t.skipped = s.skipped \ Kept(s, m.header)
  <2>1. \E k \in Kept(s, m.header) : k.key = m.key
    BY DEF InKept
  <2>2. PICK h \in HeaderT, key \in KeyT : h = m.header /\ key = m.key
    BY DEF Packet
  <2>3. \E k \in Kept(s, h) : k.key = key
    BY <2>1, <2>2
  <2> DEFINE u == RatchetDecrypt(s, h, key, pair)
  <2>4. /\ u.ok
        /\ u.next.root = s.root /\ u.next.sends = s.sends /\ u.next.recvs = s.recvs /\ u.next.self = s.self
        /\ u.next.peer = s.peer /\ u.next.ns = s.ns /\ u.next.pn = s.pn /\ u.next.nr = s.nr
        /\ u.next.skipped = s.skipped \ Kept(s, h)
    BY <2>3, KeptOpens
  <2> QED BY <2>2, <2>4
<1> HIDE DEF r
<1>2. Files(t)
  BY <1>1 DEF Files
<1>3. (Paired(s, o) => Paired(t, o)) /\ (Paired(o, s) => Paired(o, t))
  BY <1>1 DEF Paired
<1>4. ASSUME NEW l, Reaches(s, o, l), l.key # m.key PROVE Reaches(t, o, l)
  <2>1. CASE InKept(s, l)
    <3>1. PICK k \in Kept(s, l.header) : k.key = l.key
      BY <2>1 DEF InKept
    <3>2. PICK q \in Kept(s, m.header) : q.key = m.key
      BY DEF InKept
    <3>3. k \notin Kept(s, m.header)
      <4> SUFFICES ASSUME k \in Kept(s, m.header) PROVE FALSE
        OBVIOUS
      <4>1. k \in s.skipped /\ q \in s.skipped /\ k.dh = q.dh /\ k.n = q.n
        BY <3>2 DEF Kept
      <4>2. k = q
        BY <4>1 DEF Files
      <4> QED BY <1>4, <3>1, <3>2, <4>2
    <3>4. k \in Kept(t, l.header)
      BY <1>1, <3>1, <3>3 DEF Kept
    <3> QED BY <3>1, <3>4 DEF Reaches, InKept
  <2>2. CASE InChain(s, o, l)
    BY <1>1, <2>2 DEF Reaches, InChain
  <2>3. CASE InTurn(s, o, l)
    BY <1>1, <2>3 DEF Reaches, InTurn
  <2> QED BY <1>4, <2>1, <2>2, <2>3 DEF Reaches
<1>5. ASSUME NEW l, Reaches(o, s, l) PROVE Reaches(o, t, l)
  BY <1>1, <1>5 DEF Reaches, InChain, InTurn
<1> QED BY <1>1, <1>2, <1>3, <1>4, <1>5 DEF Answers, r

\* The receiving chain answers for its message and files those before it.
LEMMA ChainAnswers ==
  ASSUME NEW s \in SessionT, NEW o, o.ns \in Nat, o.pn \in Nat, s.root # <<>>, Files(s),
         NEW m, Packet(m), Kept(s, m.header) = {}, InChain(s, o, m), NEW pair \in PairT
  PROVE  LET r == RatchetDecrypt(s, m.header, m.key, pair)
         IN  r = Gap \/ (r.ok /\ Answers(s, o, r.next, {m.key}))
<1> DEFINE r == RatchetDecrypt(s, m.header, m.key, pair)
           t == r.next
           n == m.header.n
           add == Filed(s.peer, s.recvs, s.nr, n)
<1>1. /\ m.header \in HeaderT /\ m.key \in KeyT /\ n \in Nat /\ s.nr \in Nat /\ s.recvs # NoChain
      /\ s.peer = m.header.dh /\ m.key = KdfCK(s.recvs, n) /\ s.nr <= n
  <2>1. m.header \in HeaderT /\ m.key \in KeyT /\ m.key.chain # <<>>
    BY DEF Packet
  <2>2. s.peer = m.header.dh /\ m.key = KdfCK(s.recvs, n) /\ s.nr <= n
    BY DEF InChain
  <2>3. s.recvs # NoChain
    BY <2>1, <2>2 DEF KdfCK, NoChain
  <2> QED BY <2>1, <2>2, <2>3 DEF HeaderT, SessionT
<1>2. \/ r = Gap
      \/ /\ r.ok
         /\ t.root = s.root /\ t.sends = s.sends /\ t.recvs = s.recvs /\ t.self = s.self
         /\ t.peer = s.peer /\ t.ns = s.ns /\ t.pn = s.pn /\ t.nr = n + 1
         /\ t.skipped = s.skipped \cup add
  <2>1. PICK h \in HeaderT, key \in KeyT : h = m.header /\ key = m.key
    BY <1>1
  <2>2. Kept(s, h) = {} /\ s.peer = h.dh /\ key = KdfCK(s.recvs, h.n) /\ s.nr <= h.n
    BY <1>1, <2>1
  <2> DEFINE u == RatchetDecrypt(s, h, key, pair)
  <2>3. \/ u = Gap
        \/ /\ u.ok
           /\ u.next.root = s.root /\ u.next.sends = s.sends /\ u.next.recvs = s.recvs /\ u.next.self = s.self
           /\ u.next.peer = s.peer /\ u.next.ns = s.ns /\ u.next.pn = s.pn /\ u.next.nr = h.n + 1
           /\ u.next.skipped = s.skipped \cup Filed(s.peer, s.recvs, s.nr, h.n)
    BY <1>1, <2>2, NextOpens
  <2> QED BY <2>1, <2>3
<1>3. /\ \A k \in add : k.dh = s.peer /\ k.n \in Nat /\ k.key = KdfCK(s.recvs, k.n) /\ s.nr <= k.n /\ k.n < n
      /\ \A i \in Nat : s.nr <= i /\ i < n => \E k \in add : k.dh = s.peer /\ k.n = i /\ k.key = KdfCK(s.recvs, i)
      /\ \A k, l \in add : k.n = l.n => k = l
  <2>0. PICK d, c : d = s.peer /\ c = s.recvs
    OBVIOUS
  <2>1. PICK a \in Nat, b \in Nat : a = s.nr /\ b = n
    BY <1>1
  <2>2. /\ \A k \in Filed(d, c, a, b) : k.dh = d /\ k.n \in Nat /\ k.key = KdfCK(c, k.n) /\ a <= k.n /\ k.n < b
        /\ \A i \in Nat : a <= i /\ i < b => \E k \in Filed(d, c, a, b) : k.dh = d /\ k.n = i /\ k.key = KdfCK(c, i)
        /\ \A k, l \in Filed(d, c, a, b) : k.n = l.n => k = l
    BY FiledHas
  <2> QED BY <2>0, <2>1, <2>2
<1>4. s.skipped \subseteq SkipT /\ \A k \in s.skipped : k.n \in Nat
  BY DEF SessionT, SkipT
<1>5. s.peer \in PairT /\ s.peer # NoKey /\ s.peer[2] \in Nat
  BY <1>1 DEF HeaderT, PairT, InChain
<1> HIDE DEF r, n, add
<1> SUFFICES ASSUME r.ok,
                    t.root = s.root, t.sends = s.sends, t.recvs = s.recvs, t.self = s.self,
                    t.peer = s.peer, t.ns = s.ns, t.pn = s.pn, t.nr = n + 1,
                    t.skipped = s.skipped \cup add
             PROVE  Answers(s, o, t, {m.key})
  BY <1>2 DEF r
<1> HIDE DEF t
<1>6. Files(t)
  <2>1. ASSUME NEW k \in t.skipped PROVE t.peer # NoKey /\ k.dh[2] <= t.peer[2] /\ (k.dh = t.peer => k.n < t.nr)
    <3>1. CASE k \in s.skipped
      <4>1. k.dh[2] <= s.peer[2] /\ (k.dh = s.peer => k.n < s.nr)
        BY <3>1 DEF Files
      <4>2. k.n < s.nr => k.n < n + 1
        BY <1>1, <1>4, <3>1
      <4> QED BY <1>5, <4>1, <4>2
    <3>2. CASE k \in add
      <4>1. k.dh = s.peer /\ k.n \in Nat /\ k.n < n
        BY <1>3, <3>2
      <4>2. k.n < n + 1
        BY <1>1, <4>1
      <4>3. k.dh[2] <= s.peer[2]
        BY <1>5, <4>1
      <4> QED BY <1>5, <4>2, <4>3
    <3> QED BY <3>1, <3>2
  <2>2. ASSUME NEW k \in t.skipped, NEW l \in t.skipped, l.dh = k.dh, l.n = k.n PROVE l = k
    <3>1. CASE k \in s.skipped /\ l \in s.skipped
      BY <2>2, <3>1 DEF Files
    <3>2. CASE k \in add /\ l \in add
      BY <1>3, <2>2, <3>2
    <3>3. ASSUME NEW a \in s.skipped, NEW b \in add, a.dh = b.dh, a.n = b.n PROVE FALSE
      <4>1. b.dh = s.peer /\ s.nr <= b.n /\ a.n < s.nr /\ a.n \in Nat
        BY <1>3, <1>4, <3>3 DEF Files
      <4> QED BY <1>1, <3>3, <4>1
    <3> QED BY <2>2, <3>1, <3>2, <3>3
  <2> QED BY <2>1, <2>2 DEF Files
<1>7. Paired(s, o) => Paired(t, o)
  <2> SUFFICES ASSUME Paired(s, o) PROVE Paired(t, o)
    OBVIOUS
  <2>1. n < o.ns
    BY DEF Paired, InChain, n
  <2>2. n + 1 <= o.ns
    BY <1>1, <2>1
  <2> QED BY <2>2 DEF Paired
<1>8. Paired(o, s) => Paired(o, t)
  BY DEF Paired
<1>9. ASSUME NEW l, Packet(l), Reaches(s, o, l), l.key # m.key PROVE Reaches(t, o, l)
  <2>1. CASE InKept(s, l)
    BY <2>1 DEF InKept, Kept, Reaches
  <2>2. CASE InTurn(s, o, l)
    BY <2>2 DEF Reaches, InTurn
  <2>3. CASE InChain(s, o, l)
    <3> DEFINE i == l.header.n
    <3>1. i \in Nat /\ s.nr <= i /\ l.header.dh = s.peer /\ l.key = KdfCK(s.recvs, i)
      BY <1>9, <2>3 DEF InChain, Packet, HeaderT
    <3>2. i # n
      BY <1>1, <1>9, <3>1 DEF n
    <3> HIDE DEF i
    <3>3. CASE i < n
      <4>1. PICK k \in add : k.dh = s.peer /\ k.n = i /\ k.key = KdfCK(s.recvs, i)
        BY <1>3, <3>1, <3>3
      <4> QED BY <3>1, <4>1 DEF InKept, Kept, Reaches, i
    <3>4. CASE n < i
      <4>1. n + 1 <= i
        BY <1>1, <3>1, <3>4
      <4> QED BY <2>3, <4>1 DEF InChain, Reaches, i
    <3> QED BY <1>1, <3>1, <3>2, <3>3, <3>4
  <2> QED BY <1>9, <2>1, <2>2, <2>3 DEF Reaches
<1>10. ASSUME NEW l, Reaches(o, s, l) PROVE Reaches(o, t, l)
  BY <1>10 DEF Reaches, InChain, InTurn
<1> QED BY <1>6, <1>7, <1>8, <1>9, <1>10 DEF Answers

\* What two that answer each other have: the one that answers last has a sending chain
\* that the other one reaches by a turn.
LEMMA TurnAnswers ==
  ASSUME NEW s \in SessionT, NEW o \in SessionT, s.root # <<>>, Files(s), Paired(o, s),
         s.recvs # NoChain => s.peer \in PairT,
         NEW m, Packet(m), Kept(s, m.header) = {}, InTurn(s, o, m), NEW pair \in PairT, s.self[2] < pair[2]
  PROVE  LET r == RatchetDecrypt(s, m.header, m.key, pair)
         IN  r = Gap \/ (r.ok /\ Answers(s, o, r.next, {m.key}))
<1> DEFINE r == RatchetDecrypt(s, m.header, m.key, pair)
           t == r.next
           n == m.header.n
           old == IF s.recvs = NoChain THEN {} ELSE Filed(s.peer, s.recvs, s.nr, o.pn)
           add == Filed(o.self, o.sends, 0, n)
<1>1. /\ o.sends = o.root /\ o.root = KdfRK(s.root, DH(o.self, s.self))
      /\ o.recvs = s.sends /\ o.peer = s.self /\ o.nr <= s.ns
      /\ s.peer # NoKey => s.peer[2] < o.self[2]
  BY DEF Paired
<1>2. /\ m.header \in HeaderT /\ m.key \in KeyT /\ n \in Nat
      /\ o.self # s.peer /\ m.header.dh = o.self /\ m.header.pn = o.pn
      /\ m.key = KdfCK(o.sends, n) /\ n < o.ns
  BY DEF Packet, InTurn, HeaderT
<1>3. /\ s.nr \in Nat /\ s.ns \in Nat /\ o.ns \in Nat /\ o.pn \in Nat /\ s.self \in PairT /\ o.self \in PairT
      /\ s.root \in ChainT /\ o.root \in ChainT /\ s.skipped \subseteq SkipT
      /\ s.self[2] \in Nat /\ o.self[2] \in Nat /\ pair[2] \in Nat
  BY DEF SessionT, PairT
<1>4. Turned(s, o.self) = o.root
  <2>1. DH(s.self, o.self) = DH(o.self, s.self)
    BY DEF DH
  <2> QED BY <1>1, <2>1 DEF Turned
<1>5. \/ r = Gap
      \/ /\ r.ok
         /\ t.recvs = o.sends /\ t.sends = KdfRK(o.root, DH(pair, o.self))
         /\ t.root = t.sends /\ t.self = pair /\ t.peer = o.self
         /\ t.ns = 0 /\ t.pn = s.ns /\ t.nr = n + 1
         /\ t.skipped = s.skipped \cup old \cup add
  <2>1. PICK h \in HeaderT, key \in KeyT : h = m.header /\ key = m.key
    BY <1>2
  <2>2. Kept(s, h) = {} /\ s.peer # h.dh /\ key = KdfCK(Turned(s, h.dh), h.n)
    BY <1>1, <1>2, <1>4, <2>1
  <2> DEFINE u == RatchetDecrypt(s, h, key, pair)
  <2>3. \/ u = Gap
        \/ /\ u.ok
           /\ u.next.recvs = Turned(s, h.dh) /\ u.next.sends = KdfRK(u.next.recvs, DH(pair, h.dh))
           /\ u.next.root = u.next.sends /\ u.next.self = pair /\ u.next.peer = h.dh
           /\ u.next.ns = 0 /\ u.next.pn = s.ns /\ u.next.nr = h.n + 1
           /\ u.next.skipped = (IF s.recvs = NoChain THEN s.skipped
                                ELSE s.skipped \cup Filed(s.peer, s.recvs, s.nr, h.pn))
                               \cup Filed(h.dh, Turned(s, h.dh), 0, h.n)
    BY <2>2, TurnOpens
  <2>4. h.dh = o.self /\ h.pn = o.pn /\ h.n = n /\ Turned(s, h.dh) = o.sends
    BY <1>1, <1>2, <1>4, <2>1
  <2>5. u = r
    BY <2>1
  <2> HIDE DEF u, r, n
  <2> QED BY <1>1, <2>3, <2>4, <2>5
<1>6. /\ \A k \in add : k.dh = o.self /\ k.n \in Nat /\ k.key = KdfCK(o.sends, k.n) /\ k.n < n
      /\ \A i \in Nat : i < n => \E k \in add : k.dh = o.self /\ k.n = i /\ k.key = KdfCK(o.sends, i)
      /\ \A k, l \in add : k.n = l.n => k = l
  <2>0. PICK d, c : d = o.self /\ c = o.sends
    OBVIOUS
  <2>1. PICK b \in Nat : b = n
    BY <1>2
  <2>2. /\ \A k \in Filed(d, c, 0, b) : k.dh = d /\ k.n \in Nat /\ k.key = KdfCK(c, k.n) /\ 0 <= k.n /\ k.n < b
        /\ \A i \in Nat : 0 <= i /\ i < b => \E k \in Filed(d, c, 0, b) : k.dh = d /\ k.n = i /\ k.key = KdfCK(c, i)
        /\ \A k, l \in Filed(d, c, 0, b) : k.n = l.n => k = l
    BY FiledHas
  <2>3. \A i \in Nat : 0 <= i
    OBVIOUS
  <2>4. Filed(d, c, 0, b) = add
    BY <2>0, <2>1
  <2> HIDE DEF add, n
  <2> QED BY <2>0, <2>1, <2>2, <2>3, <2>4
<1>7. /\ \A k \in old : /\ s.recvs # NoChain /\ k.dh = s.peer /\ k.n \in Nat /\ k.key = KdfCK(s.recvs, k.n)
                        /\ s.nr <= k.n
      /\ s.recvs # NoChain => \A i \in Nat : s.nr <= i /\ i < o.pn =>
           \E k \in old : k.dh = s.peer /\ k.n = i /\ k.key = KdfCK(s.recvs, i)
      /\ \A k, l \in old : k.n = l.n => k = l
  <2>0. PICK d, c : d = s.peer /\ c = s.recvs
    OBVIOUS
  <2>1. PICK a \in Nat, b \in Nat : a = s.nr /\ b = o.pn
    BY <1>3
  <2>2. /\ \A k \in Filed(d, c, a, b) : k.dh = d /\ k.n \in Nat /\ k.key = KdfCK(c, k.n) /\ a <= k.n /\ k.n < b
        /\ \A i \in Nat : a <= i /\ i < b => \E k \in Filed(d, c, a, b) : k.dh = d /\ k.n = i /\ k.key = KdfCK(c, i)
        /\ \A k, l \in Filed(d, c, a, b) : k.n = l.n => k = l
    BY FiledHas
  <2>3. s.recvs # NoChain => old = Filed(d, c, a, b)
    BY <2>0, <2>1
  <2>4. s.recvs = NoChain => old = {}
    OBVIOUS
  <2> HIDE DEF old
  <2> QED BY <2>0, <2>1, <2>2, <2>3, <2>4
<1>8. \A k \in s.skipped : k.n \in Nat /\ k.dh \in PairT /\ k.dh[2] \in Nat
  BY <1>3 DEF SkipT, PairT
<1>9. s.peer # NoKey => s.peer[2] \in Nat /\ s.peer \in PairT
  BY DEF SessionT, PairT
<1>10. s.recvs # NoChain => s.peer # NoKey
  <2>1. \A x \in PairT : x # <<>>
    BY DEF PairT
  <2> QED BY <2>1 DEF NoKey
<1>11. KdfRK(o.root, DH(pair, o.self)) # <<>> /\ KdfRK(o.root, DH(pair, o.self))[1] = s.root[1] /\ o.root # <<>>
  <2> DEFINE c == s.root
             a == DH(o.self, s.self)
             b == DH(pair, o.self)
  <2>1. c \in Seq(MixT) /\ c # <<>> /\ a \in MixT /\ b \in MixT
    BY <1>3, Agreements DEF ChainT
  <2>2. o.root = Append(c, a)
    BY <1>1 DEF KdfRK
  <2> HIDE DEF c, a, b
  <2>3. Append(c, a) \in Seq(MixT) /\ Append(c, a) # <<>> /\ Append(c, a)[1] = c[1] /\ Len(Append(c, a)) >= 1
    BY <2>1
  <2>4. PICK d : d = Append(c, a)
    OBVIOUS
  <2>5. Append(d, b) # <<>> /\ Append(d, b)[1] = d[1]
    BY <2>1, <2>3, <2>4
  <2> QED BY <2>2, <2>3, <2>4, <2>5 DEF KdfRK, c, b
<1> HIDE DEF r, n, add, old
<1> SUFFICES ASSUME r.ok,
                    t.recvs = o.sends, t.sends = KdfRK(o.root, DH(pair, o.self)),
                    t.root = t.sends, t.self = pair, t.peer = o.self,
                    t.ns = 0, t.pn = s.ns, t.nr = n + 1,
                    t.skipped = s.skipped \cup old \cup add
             PROVE  Answers(s, o, t, {m.key})
  BY <1>5 DEF r
<1> HIDE DEF t
<1>12. o.self # NoKey /\ pair # s.self
  BY <1>3 DEF PairT, NoKey
<1>13. ASSUME NEW k \in s.skipped \cup old PROVE k.dh[2] < o.self[2] /\ k.dh # o.self /\ k.n \in Nat
  <2>1. s.peer # NoKey /\ s.peer[2] < o.self[2] /\ s.peer[2] \in Nat
    BY <1>1, <1>7, <1>9, <1>10, <1>13 DEF Files
  <2>2. k.dh[2] <= s.peer[2] /\ k.dh[2] \in Nat /\ k.n \in Nat
    <3>1. CASE k \in s.skipped
      BY <1>8, <3>1 DEF Files
    <3>2. CASE k \in old
      <4>1. k.dh = s.peer /\ k.n \in Nat
        BY <1>7, <3>2
      <4> QED BY <2>1, <4>1
    <3> QED BY <1>13, <3>1, <3>2
  <2>3. \A a, b, c \in Nat : a <= b /\ b < c => a < c /\ a # c
    OBVIOUS
  <2>4. k.dh[2] < o.self[2] /\ k.dh[2] # o.self[2]
    BY <1>3, <2>1, <2>2, <2>3
  <2> QED BY <2>2, <2>4
<1>14. Files(t)
  <2>1. ASSUME NEW k \in t.skipped PROVE t.peer # NoKey /\ k.dh[2] <= t.peer[2] /\ (k.dh = t.peer => k.n < t.nr)
    <3>1. CASE k \in s.skipped \cup old
      <4>1. k.dh[2] < o.self[2] /\ k.dh # o.self
        BY <1>13, <3>1
      <4>2. k.dh[2] \in Nat
        BY <1>7, <1>8, <1>9, <1>10, <3>1
      <4>3. k.dh[2] <= o.self[2]
        BY <1>3, <4>1, <4>2
      <4> QED BY <1>12, <4>1, <4>3
    <3>2. CASE k \in add
      <4>1. k.dh = o.self /\ k.n \in Nat /\ k.n < n
        BY <1>6, <3>2
      <4>2. k.n < n + 1
        BY <1>2, <4>1
      <4>3. k.dh[2] <= o.self[2]
        BY <1>3, <4>1
      <4> QED BY <1>12, <4>2, <4>3
    <3> QED BY <3>1, <3>2
  <2>2. ASSUME NEW k \in t.skipped, NEW l \in t.skipped, l.dh = k.dh, l.n = k.n PROVE l = k
    <3>1. CASE k \in s.skipped /\ l \in s.skipped
      BY <2>2, <3>1 DEF Files
    <3>2. CASE k \in old /\ l \in old
      BY <1>7, <2>2, <3>2
    <3>3. CASE k \in add /\ l \in add
      BY <1>6, <2>2, <3>3
    <3>4. ASSUME NEW a \in s.skipped, NEW b \in old, a.dh = b.dh, a.n = b.n PROVE FALSE
      <4>1. b.dh = s.peer /\ s.nr <= b.n /\ a.n < s.nr /\ a.n \in Nat
        BY <1>7, <1>8, <3>4 DEF Files
      <4> QED BY <1>3, <3>4, <4>1
    <3>5. ASSUME NEW a \in s.skipped \cup old, NEW b \in add, a.dh = b.dh PROVE FALSE
      BY <1>6, <1>13, <3>5
    <3> QED BY <2>2, <3>1, <3>2, <3>3, <3>4, <3>5
  <2> QED BY <2>1, <2>2 DEF Files
<1>15. ~Paired(s, o)
  BY <1>2 DEF Paired
<1>16. Paired(o, s) => Paired(t, o)
  <2>1. n + 1 <= o.ns
    BY <1>2, <1>3
  <2>2. o.peer[2] < t.self[2]
    BY <1>1
  <2> QED BY <1>11, <2>1, <2>2 DEF Paired
<1>17. ASSUME NEW l, Packet(l), Reaches(s, o, l), l.key \notin {m.key} PROVE Reaches(t, o, l)
  <2>1. CASE InKept(s, l)
    BY <2>1 DEF InKept, Kept, Reaches
  <2>2. CASE InChain(s, o, l)
    <3> DEFINE i == l.header.n
    <3>1. /\ i \in Nat /\ s.nr <= i /\ i < o.pn /\ l.header.dh = s.peer /\ l.key = KdfCK(s.recvs, i)
          /\ s.recvs # NoChain
      BY <1>2, <1>17, <2>2 DEF InChain, Packet, HeaderT, KdfCK, NoChain
    <3> HIDE DEF i
    <3>2. PICK k \in old : k.dh = s.peer /\ k.n = i /\ k.key = KdfCK(s.recvs, i)
      BY <1>7, <3>1
    <3> QED BY <3>1, <3>2 DEF InKept, Kept, Reaches, i
  <2>3. CASE InTurn(s, o, l)
    <3> DEFINE i == l.header.n
    <3>1. i \in Nat /\ l.header.dh = o.self /\ l.key = KdfCK(o.sends, i) /\ i < o.ns
      BY <1>17, <2>3 DEF InTurn, Packet, HeaderT
    <3>2. i # n
      BY <1>2, <1>17, <3>1
    <3> HIDE DEF i
    <3>3. CASE i < n
      <4>1. PICK k \in add : k.dh = o.self /\ k.n = i /\ k.key = KdfCK(o.sends, i)
        BY <1>6, <3>1, <3>3
      <4> QED BY <3>1, <4>1 DEF InKept, Kept, Reaches, i
    <3>4. CASE n < i
      <4>1. n + 1 <= i
        BY <1>2, <3>1, <3>4
      <4>2. InChain(t, o, l)
        BY <1>12, <3>1, <4>1 DEF InChain, i
      <4> QED BY <4>2 DEF Reaches
    <3> QED BY <1>2, <3>1, <3>2, <3>3, <3>4
  <2> QED BY <1>17, <2>1, <2>2, <2>3 DEF Reaches
<1>18. ASSUME NEW l, Reaches(o, s, l) PROVE Reaches(o, t, l)
  <2>1. ~InTurn(o, s, l)
    BY <1>1 DEF InTurn
  <2>2. InChain(o, s, l) => InChain(o, t, l)
    BY <1>1, <1>12 DEF InChain
  <2> QED BY <1>18, <2>1, <2>2 DEF Reaches
<1>19. t.root # <<>> /\ t.root[1] = s.root[1]
  BY <1>11
<1> QED BY <1>14, <1>15, <1>16, <1>17, <1>18, <1>19 DEF Answers

\* A message that one of two sessions that answer each other reaches is opened, but
\* for a gap that is too wide, and the two go on answering.
LEMMA DecryptAnswers ==
  ASSUME NEW s \in SessionT, NEW o \in SessionT, s.root # <<>>, Files(s), Paired(s, o) \/ Paired(o, s),
         s.recvs # NoChain => s.peer \in PairT,
         NEW m, Packet(m), Reaches(s, o, m), NEW pair \in PairT, s.self[2] < pair[2]
  PROVE  LET r == RatchetDecrypt(s, m.header, m.key, pair)
         IN  r = Gap \/ (r.ok /\ Answers(s, o, r.next, {m.key}))
<1>1. CASE InKept(s, m)
  BY <1>1, KeptAnswers
<1>2. /\ s.nr \in Nat /\ o.ns \in Nat /\ o.pn \in Nat /\ \A k \in s.skipped : k.n \in Nat /\ k.dh[2] \in Nat
      /\ o.self[2] \in Nat /\ (s.peer # NoKey => s.peer[2] \in Nat) /\ m.header.n \in Nat
  BY DEF SessionT, SkipT, PairT, Packet, HeaderT
<1>3. CASE InChain(s, o, m)
  <2>1. ASSUME NEW k \in Kept(s, m.header) PROVE FALSE
    <3>1. k \in s.skipped /\ k.dh = s.peer /\ k.n = m.header.n /\ s.nr <= k.n
      BY <1>3 DEF Kept, InChain
    <3>2. k.n < s.nr
      BY <3>1 DEF Files
    <3> QED BY <1>2, <3>1, <3>2
  <2> QED BY <1>2, <1>3, <2>1, ChainAnswers
<1>4. CASE InTurn(s, o, m)
  <2>1. Paired(o, s)
    BY <1>4 DEF InTurn, Paired
  <2>2. ASSUME NEW k \in Kept(s, m.header) PROVE FALSE
    <3>1. k \in s.skipped /\ k.dh = o.self /\ s.peer # NoKey /\ k.dh[2] <= s.peer[2]
      BY <1>4 DEF Kept, InTurn, Files
    <3>2. s.peer[2] < o.self[2]
      BY <2>1, <3>1 DEF Paired
    <3> QED BY <1>2, <3>1, <3>2
  <2> QED BY <1>4, <2>1, <2>2, TurnAnswers
<1> QED BY <1>1, <1>3, <1>4 DEF Reaches

\* The next message that is sealed is one the other side reaches.
LEMMA EncryptAnswers ==
  ASSUME NEW s \in SessionT, NEW o \in SessionT, s.root # <<>>, Files(s), Paired(s, o) \/ Paired(o, s)
  PROVE  LET r == RatchetEncrypt(s)
         IN  /\ Answers(s, o, r.next, {})
             /\ \A m : m.header = r.header /\ m.key = r.key => Reaches(o, r.next, m)
<1> DEFINE r == RatchetEncrypt(s)
           t == r.next
<1>1. /\ t = [s EXCEPT !.ns = s.ns + 1] /\ r.key = KdfCK(s.sends, s.ns)
      /\ r.header = [dh |-> s.self, pn |-> s.pn, n |-> s.ns]
  BY DEF RatchetEncrypt
<1>2. r.header.dh = s.self /\ r.header.pn = s.pn /\ r.header.n = s.ns
  BY <1>1
<1>3. /\ t.root = s.root /\ t.sends = s.sends /\ t.recvs = s.recvs /\ t.self = s.self
      /\ t.peer = s.peer /\ t.ns = s.ns + 1 /\ t.nr = s.nr /\ t.pn = s.pn /\ t.skipped = s.skipped
  BY <1>1 DEF SessionT
<1>4. /\ s.ns \in Nat /\ s.pn \in Nat /\ o.nr \in Nat /\ s.self \in PairT /\ s.self[2] \in Nat
      /\ s.self # NoKey
  <2>1. \A x \in PairT : x # <<>> /\ x[2] \in Nat
    BY DEF PairT
  <2> QED BY <2>1 DEF SessionT, NoKey
<1> HIDE DEF r
<1>5. Files(t) /\ t.root # <<>> /\ t.root[1] = s.root[1]
  BY <1>3 DEF Files
<1>6. Paired(s, o) => Paired(t, o)
  BY <1>3 DEF Paired
<1>7. Paired(o, s) => Paired(o, t)
  <2>1. \A a, b \in Nat : a <= b => a <= b + 1
    OBVIOUS
  <2> QED BY <1>3, <1>4, <2>1 DEF SessionT, Paired
<1>8. \A l : Reaches(s, o, l) => Reaches(t, o, l)
  BY <1>3 DEF Reaches, InKept, Kept, InChain, InTurn
<1>9. ASSUME NEW l, Packet(l), Reaches(o, s, l) PROVE Reaches(o, t, l)
  <2>1. l.header.n \in Nat
    BY <1>9 DEF Packet, HeaderT
  <2>2. l.header.n < s.ns => l.header.n < s.ns + 1
    BY <1>4, <2>1
  <2>3. InChain(o, s, l) => InChain(o, t, l)
    BY <1>3, <2>2 DEF InChain
  <2>4. InTurn(o, s, l) => InTurn(o, t, l)
    BY <1>3, <2>2 DEF InTurn
  <2> QED BY <1>9, <2>3, <2>4 DEF Reaches
<1>10. ASSUME NEW m, m.header = r.header, m.key = r.key PROVE Reaches(o, t, m)
  <2>1. m.header.dh = s.self /\ m.header.pn = s.pn /\ m.header.n = s.ns /\ m.key = KdfCK(s.sends, s.ns)
    BY <1>1, <1>2, <1>10
  <2>2. s.ns < s.ns + 1
    BY <1>4
  <2>3. CASE Paired(o, s)
    <3>1. InChain(o, t, m)
      BY <1>3, <1>4, <2>1, <2>2, <2>3 DEF InChain, Paired
    <3> QED BY <3>1 DEF Reaches
  <2>4. CASE Paired(s, o)
    <3>1. s.self # o.peer
      <4>1. o.peer # NoKey => o.peer[2] < s.self[2]
        BY <2>4 DEF Paired
      <4> QED BY <1>4, <4>1
    <3>2. InTurn(o, t, m)
      BY <1>3, <2>1, <2>2, <3>1 DEF InTurn
    <3> QED BY <3>2 DEF Reaches
  <2> QED BY <2>3, <2>4
<1> QED BY <1>5, <1>6, <1>7, <1>8, <1>9, <1>10 DEF Answers, r

\* The session that begins a conversation has answered the signed prekey of the other.
LEMMA StartAnswers ==
  ASSUME NEW q \in Person, NEW x \in PairT, NEW otk \in Nat, NEW pair \in PairT
  PROVE  LET s == StartSending(Secret(x, otk), pair, q)
             o == StartReceiving(<<s.root[1]>>, q)
         IN  Paired(s, o) /\ Files(s) /\ s.root # <<>> /\ s.root[1] = <<x, otk>>
<1> DEFINE a == Secret(x, otk)
           b == DH(pair, Signed(q))
           s == StartSending(a, pair, q)
           o == StartReceiving(<<s.root[1]>>, q)
<1>1. /\ s.root = Append(a, b) /\ s.sends = Append(a, b) /\ s.recvs = NoChain /\ s.self = pair
      /\ s.peer = Signed(q) /\ s.nr = 0 /\ s.skipped = {}
  BY DEF StartSending, KdfRK
<1>2. /\ o.root = <<s.root[1]>> /\ o.sends = NoChain /\ o.self = Signed(q) /\ o.peer = NoKey /\ o.ns = 0
  BY DEF StartReceiving
<1>3. a = << <<x, otk>> >> /\ a \in ChainT /\ b \in MixT
  <2>1. Signed(q) \in PairT
    BY DEF Signed, PairT
  <2> QED BY <2>1, SecretIsChain, Agreements DEF Secret
<1>4. Append(a, b)[1] = <<x, otk>> /\ Append(a, b) # <<>> /\ << <<x, otk>> >> # <<>>
  <2> HIDE DEF a, b
  <2>1. a[1] = <<x, otk>> /\ Len(a) = 1 /\ a \in Seq(MixT)
    BY <1>3 DEF ChainT
  <2>2. Append(a, b)[1] = a[1] /\ Append(a, b) # <<>>
    BY <1>3, <2>1
  <2> QED BY <1>3, <2>1, <2>2
<1> HIDE DEF s, o
<1>5. Paired(s, o)
  <2>1. o.root = a
    BY <1>1, <1>2, <1>3, <1>4
  <2>2. s.root = KdfRK(o.root, DH(s.self, o.self))
    BY <1>1, <1>2, <2>1 DEF KdfRK
  <2> QED BY <1>1, <1>2, <1>3, <1>4, <2>1, <2>2 DEF Paired
<1>6. Files(s)
  BY <1>1 DEF Files
<1> QED BY <1>1, <1>4, <1>5, <1>6 DEF s, o, a

---------------------------------------------------------------------------
(* Every message is opened at first.                                       *)

\* What a session opens is not behind it.
LEMMA OpensAhead ==
  ASSUME NEW p \in Person, NEW s, SessionIn(s, p), NEW header \in HeaderT, NEW key \in KeyT, key.chain # <<>>,
         NEW pair \in PairT, RatchetDecrypt(s, header, key, pair).ok
  PROVE  ~Past(s, key)
<1>1. s \in SessionT /\ (s.recvs # NoChain => s.peer \in PairT)
  BY DEF SessionIn, SessionT
<1>2. CASE Kept(s, header) # {}
  <2>1. FromKept(s, header, key).ok
    BY <1>2 DEF RatchetDecrypt
  <2>2. PICK k \in Kept(s, header) : k.key = key
    BY <2>1 DEF FromKept, Fails
  <2> QED BY <2>2 DEF Kept, Past, Leads
<1>3. CASE Kept(s, header) = {} /\ s.peer = header.dh
  <2>1. FromChain(s, header, key).ok
    BY <1>3 DEF RatchetDecrypt
  <2>2. key.chain = s.recvs /\ s.nr <= key.n
    BY <1>1, <2>1, FromChainIs
  <2>3. key.n >= s.nr
    BY <1>1, <2>2 DEF SessionT, KeyT
  <2> QED BY <2>2, <2>3 DEF Past, Leads
<1>4. CASE Kept(s, header) = {} /\ s.peer # header.dh
  <2> DEFINE d == DhRatchet(s, header, pair)
  <2>1. FromChain(d, header, key).ok
    BY <1>4 DEF RatchetDecrypt, Gap
  <2>2. d \in SessionT /\ d.recvs = KdfRK(s.root, DH(s.self, header.dh)) /\ d.peer = header.dh
    BY <1>1, DhRatchetIs
  <2> HIDE DEF d
  <2>3. header.dh \in PairT /\ s.root \in ChainT /\ s.self \in PairT /\ Len(s.root) \in Nat
    BY <1>1 DEF HeaderT, SessionT, ChainT
  <2>4. key.chain = d.recvs
    BY <2>1, <2>2, <2>3, FromChainIs
  <2>5. DH(s.self, header.dh) \in MixT
    BY <2>3, Agreements
  <2>6. Len(d.recvs) = Len(s.root) + 1
    BY <2>2, <2>3, <2>5, Mixing
  <2> QED BY <2>3, <2>4, <2>6 DEF Past
<1> QED BY <1>2, <1>3, <1>4

\* The session p reads with: the one it has, or the one it would begin on being written to.
Reading(p) ==
  IF session[p] # None THEN session[p] ELSE StartReceiving(<<session[Peer(p)].root[1]>>, p)

\* What is on its way to p, sealed or sent and not yet opened.
Coming(p, l) ==
  \/ \E i \in (DOMAIN log) \ opened[p] : l = log[i] /\ log[i].from # p
  \/ \E t \in Slots[Peer(p)] : Posting(job[Peer(p)][t]) /\ l = job[Peer(p)][t]

Introduces(p, l) == l.prekey # None => <<l.prekey.ephemeral, l.prekey.otk>> = session[Peer(p)].root[1]
Finds(p, l) ==
  Reaches(Reading(p), Reading(Peer(p)), l) /\ (session[p] = None => Introduces(p, l))

\* Nobody has begun, but for a first session that is about to be written.
Unbegun ==
  /\ log = <<>> /\ \A p \in Person : session[p] = None
  /\ \A p \in Person : \A s \in Slots[p] :
       /\ ~Posting(job[p][s])
       /\ job[p][s].at = "put" =>
            /\ begun = 1
            /\ \A q \in Person : \A t \in Slots[q] : job[q][t].at = "put" => q = p /\ t = s

\* The two answer each other, and reach what is coming.
Between ==
  /\ begun = 1
  /\ \E x \in Person : session[x] # None /\ Paired(Reading(x), Reading(Peer(x)))
  /\ \A p \in Person : session[p] # None => Files(session[p]) /\ session[p].root # <<>>
  /\ \A p \in Person : \A s \in Slots[p] : job[p][s].at = "put" => job[p][s].base # None
  /\ \A p \in Person : \A l : Coming(p, l) => Finds(p, l)

\* The session a job writes is one that opened, or sealed, the message it is about.
Base(p, m, j) == IF j.base # None THEN j.base ELSE StartReceiving(Secret(m.prekey.ephemeral, m.prekey.otk), p)
OpensIt(b, m, j) ==
  \E pair \in PairT : LET r == RatchetDecrypt(b, m.header, m.key, pair)
                      IN  b.self[2] < pair[2] /\ r.ok /\ j.next = r.next
Opens(p, j) ==
  LET m == log[Head(j.todo)]
  IN  (j.base = None => m.prekey \in PrekeyT) /\ OpensIt(Base(p, m, j), m, j)

Seals(s, j) == LET r == RatchetEncrypt(s) IN j.next = r.next /\ j.header = r.header /\ j.key = r.key
Writes(p, j) ==
  IF j.base # None THEN Seals(j.base, j) /\ j.prekey = None
  ELSE \E x \in PairT, pair \in PairT, otk \in Nat :
         /\ pair[1] = p
         /\ Seals(StartSending(Secret(x, otk), pair, Peer(p)), j)
         /\ j.prekey = [ephemeral |-> x, otk |-> otk]

Works(p, j) == (j.at = "keep" => Opens(p, j)) /\ (j.at = "put" => Writes(p, j))
WorksOK == \A p \in Person : \A s \in Slots[p] : Works(p, job[p][s])

OpensOK == begun <= 1 => (\A p \in Person : garbled[p] = {}) /\ (Unbegun \/ Between)
OpensInd == begun \in Nat /\ WorksOK /\ ("session" \notin raced => OpensOK)

\* A prekey message names its prekey.
LEMMA PrekeyIsNotNone == \A x \in PrekeyT : x # None
<1>1. ASSUME NEW x \in PrekeyT PROVE DOMAIN x = {"ephemeral", "otk"}
  BY DEF PrekeyT
<1>2. DOMAIN None = {"none"}
  BY DEF None
<1> QED BY <1>1, <1>2

\* What a device reads with is paired with what its peer reads with.
LEMMA ReadingIs ==
  ASSUME TypedInd, Between, NEW p \in Person
  PROVE  /\ SessionIn(Reading(p), p) /\ Reading(p).self \in Made /\ Reading(p).root # <<>> /\ Files(Reading(p))
         /\ (Paired(Reading(p), Reading(Peer(p))) \/ Paired(Reading(Peer(p)), Reading(p)))
         /\ (session[p] # None \/ session[Peer(p)] # None)
<1>1. Peer(p) \in Person /\ Peer(p) # p /\ Peer(Peer(p)) = p /\ \A q \in Person : q = p \/ q = Peer(p)
  BY PeerIsOther
<1>2. PICK x \in Person : session[x] # None /\ Paired(Reading(x), Reading(Peer(x)))
  BY DEF Between
<1>3. Paired(Reading(p), Reading(Peer(p))) \/ Paired(Reading(Peer(p)), Reading(p))
  BY <1>1, <1>2
<1>4. session[p] # None \/ session[Peer(p)] # None
  BY <1>1, <1>2
<1>5. CASE session[p] # None
  <2>1. Reading(p) = session[p]
    BY <1>5 DEF Reading
  <2>2. SessionOK(session[p], p)
    BY <1>5 DEF TypedInd, SessionsOK
  <2> QED BY <1>3, <1>4, <1>5, <2>1, <2>2 DEF SessionOK, Between
<1>6. CASE session[p] = None
  <2> DEFINE q == Peer(p)
             first == session[q].root[1]
  <2>1. SessionOK(session[q], q) /\ session[q].root # <<>>
    BY <1>1, <1>4, <1>6 DEF TypedInd, SessionsOK, Between
  <2>2. session[q].root \in Seq(MixT)
    BY <2>1 DEF SessionOK, SessionIn, SessionT, ChainT
  <2>3. first \in MixT
    BY <2>1, <2>2
  <2> HIDE DEF first
  <2>4. <<first>> \in ChainT /\ <<first>> # <<>>
    BY <2>3 DEF ChainT
  <2> DEFINE s == StartReceiving(<<first>>, p)
  <2>5. SessionIn(s, p) /\ s.skipped = {}
    BY <2>4, ReceivingStarts
  <2>6. s.root = <<first>> /\ s.self = Signed(p)
    BY DEF StartReceiving
  <2>7. Reading(p) = s
    BY <1>6 DEF Reading, first
  <2>8. Signed(p) \in Made
    BY FreshIsNew
  <2> HIDE DEF s
  <2> QED BY <1>3, <1>4, <2>4, <2>5, <2>6, <2>7, <2>8 DEF Files
<1> QED BY <1>5, <1>6

\* What is coming to a device is a packet.
LEMMA ComingIsPacket ==
  ASSUME TypedInd, NEW p \in Person, NEW l, Coming(p, l)
  PROVE  Packet(l) /\ l.prekey \in PrekeyT \cup {None}
<1>1. CASE \E i \in (DOMAIN log) \ opened[p] : l = log[i] /\ log[i].from # p
  <2>1. PICK i \in DOMAIN log : l = log[i]
    BY <1>1
  <2>2. log[i] \in MessageT /\ Young(log[i].key.chain)
    BY DEF TypedInd, LogOK
  <2> QED BY <2>1, <2>2 DEF MessageT, Packet, Young
<1>2. ASSUME NEW t \in Slots[Peer(p)], Posting(job[Peer(p)][t]), l = job[Peer(p)][t]
      PROVE  Packet(l) /\ l.prekey \in PrekeyT \cup {None}
  <2>1. JobOK(Peer(p), l) /\ l.at = "post"
    BY <1>2, PeerIsOther DEF TypedInd, JobsOK, Posting
  <2>2. PacketOK(Peer(p), l)
    BY <2>1 DEF JobOK
  <2> QED BY <2>2 DEF PacketOK, Packet, Young
<1> QED BY <1>1, <1>2 DEF Coming

\* The same packet, in a job or in the log.
Alike(l, k) == l.header = k.header /\ l.key = k.key /\ l.prekey = k.prekey

\* Whether a message is within reach depends on its packet alone.
LEMMA AlikeReaches ==
  ASSUME NEW s, NEW o, NEW l, NEW k, Alike(l, k), Reaches(s, o, k)
  PROVE  Reaches(s, o, l)
BY DEF Alike, Reaches, InKept, Kept, InChain, InTurn

\* The two sessions stay paired while none is written and nothing new comes.
LEMMA BetweenStays ==
  ASSUME Between, \A q \in Person : session'[q] = session[q], begun' = begun,
         \A q \in Person : \A t \in Slots[q] : job'[q][t].at = "put" => job'[q][t].base # None,
         \A q \in Person : \A l : Coming(q, l)' => \E k : Coming(q, k) /\ Alike(l, k)
  PROVE  Between'
<1>1. \A q \in Person : Peer(q) \in Person /\ session'[Peer(q)] = session[Peer(q)]
  BY PeerIsOther
<1>2. ASSUME NEW q \in Person PROVE Reading(q)' = Reading(q) /\ Reading(Peer(q))' = Reading(Peer(q))
  BY <1>1 DEF Reading
<1>3. ASSUME NEW q \in Person, NEW l, Coming(q, l)' PROVE Finds(q, l)'
  <2>1. PICK k : Coming(q, k) /\ Alike(l, k)
    BY <1>3
  <2>2. Finds(q, k)
    BY <2>1 DEF Between
  <2>3. Reaches(Reading(q), Reading(Peer(q)), l)
    BY <2>1, <2>2, AlikeReaches DEF Finds
  <2>4. session'[q] = None => Introduces(q, l)'
    BY <1>1, <2>1, <2>2 DEF Finds, Introduces, Alike
  <2> QED BY <1>2, <2>3, <2>4 DEF Finds
<1>4. \E x \in Person : session'[x] # None /\ (Paired(Reading(x), Reading(Peer(x))))'
  <2>1. PICK x \in Person : session[x] # None /\ Paired(Reading(x), Reading(Peer(x)))
    BY DEF Between
  <2>2. session'[x] # None /\ Reading(x)' = Reading(x) /\ Reading(Peer(x))' = Reading(Peer(x))
    BY <1>2, <2>1
  <2> QED BY <2>1, <2>2
<1> QED BY <1>3, <1>4 DEF Between

\* One of the two writes a session that goes on from what it was reading with.
LEMMA BetweenGoesOn ==
  ASSUME TypedInd, Between, begun' = begun, NEW p \in Person, NEW t, t # None,
         session'[p] = t, \A q \in Person : q # p => session'[q] = session[q],
         NEW K, Answers(Reading(p), Reading(Peer(p)), t, K),
         \A q \in Person : \A u \in Slots[q] : job'[q][u].at = "put" => job'[q][u].base # None,
         \A l : Coming(p, l)' => Coming(p, l) /\ l.key \notin K,
         \A l : Coming(Peer(p), l)' =>
           Coming(Peer(p), l) \/ (Reaches(Reading(Peer(p)), t, l) /\ l.prekey = None)
  PROVE  Between'
<1> DEFINE q == Peer(p)
           s == Reading(p)
           o == Reading(q)
<1>1. q \in Person /\ q # p /\ Peer(q) = p /\ \A r \in Person : r = p \/ r = q
  BY PeerIsOther
<1>2. session'[q] = session[q] /\ (session[p] # None \/ session[q] # None)
  BY <1>1, ReadingIs
<1>3. Files(t) /\ t.root # <<>> /\ t.root[1] = s.root[1]
  BY DEF Answers
<1>4. Reading(p)' = t
  BY DEF Reading
<1>5. session[q] = None => session[p] # None /\ s = session[p]
  BY <1>2 DEF Reading
<1>6. Reading(q)' = o
  <2>1. CASE session[q] # None
    BY <1>2, <2>1 DEF Reading
  <2>2. CASE session[q] = None
    <3>1. o = StartReceiving(<<session[p].root[1]>>, q)
      BY <1>1, <2>2 DEF Reading
    <3>2. Reading(q)' = StartReceiving(<<session'[p].root[1]>>, q)
      BY <1>1, <1>2, <2>2 DEF Reading
    <3>3. session'[p].root[1] = session[p].root[1]
      BY <1>3, <1>5, <2>2
    <3> QED BY <3>1, <3>2, <3>3
  <2> QED BY <2>1, <2>2
<1>7. Paired(s, o) \/ Paired(o, s)
  BY ReadingIs
<1>8. \E x \in Person : session'[x] # None /\ Paired(Reading(x), Reading(Peer(x)))'
  <2>1. CASE Paired(t, o)
    <3>1. Paired(Reading(p), Reading(Peer(p)))'
      BY <1>4, <1>6, <2>1
    <3> QED BY <3>1
  <2>2. CASE ~Paired(t, o)
    <3>1. Paired(o, s) /\ Paired(o, t)
      BY <1>7, <2>2 DEF Answers
    <3>2. PICK x \in Person : session[x] # None /\ Paired(Reading(x), Reading(Peer(x)))
      BY DEF Between
    <3>3. ~Paired(s, o)
      BY <2>2 DEF Answers
    <3>4. x = q
      BY <1>1, <3>2, <3>3
    <3>5. session'[q] # None
      BY <1>2, <3>2, <3>4
    <3>6. Paired(Reading(q), Reading(Peer(q)))'
      BY <1>1, <1>4, <1>6, <3>1
    <3> QED BY <1>1, <3>5, <3>6
  <2> QED BY <2>1, <2>2
<1>9. ASSUME NEW l, Coming(p, l)' PROVE Finds(p, l)'
  <2>1. Coming(p, l) /\ l.key \notin K
    BY <1>9
  <2>2. Packet(l) /\ Reaches(s, o, l)
    BY <2>1, ComingIsPacket DEF Between, Finds
  <2>3. Reaches(t, o, l)
    BY <2>1, <2>2 DEF Answers
  <2> QED BY <1>4, <1>6, <2>3 DEF Finds
<1>10. ASSUME NEW l, Coming(q, l)' PROVE Finds(q, l)'
  <2>1. CASE Coming(q, l)
    <3>1. Packet(l) /\ Finds(q, l)
      BY <1>1, <2>1, ComingIsPacket DEF Between
    <3>2. Reaches(o, t, l)
      BY <1>1, <3>1 DEF Answers, Finds
    <3>3. session'[q] = None => Introduces(q, l)'
      <4> SUFFICES ASSUME session'[q] = None PROVE Introduces(q, l)'
        OBVIOUS
      <4>1. Introduces(q, l)
        BY <1>2, <3>1 DEF Finds
      <4>2. session'[Peer(q)].root[1] = session[Peer(q)].root[1]
        BY <1>1, <1>2, <1>3, <1>5
      <4> QED BY <4>1, <4>2 DEF Introduces
    <3> QED BY <1>1, <1>4, <1>6, <3>2, <3>3 DEF Finds
  <2>2. CASE Reaches(o, t, l) /\ l.prekey = None
    BY <1>1, <1>4, <1>6, <2>2 DEF Finds, Introduces
  <2> QED BY <1>10, <2>1, <2>2
<1>11. ASSUME NEW r \in Person, session'[r] # None PROVE Files(session'[r]) /\ session'[r].root # <<>>
  <2>1. CASE r = p
    BY <1>3, <2>1
  <2>2. CASE r = q
    BY <1>1, <1>2, <1>11, <2>2 DEF Between
  <2> QED BY <1>1, <2>1, <2>2
<1>12. ASSUME NEW r \in Person, NEW l, Coming(r, l)' PROVE Finds(r, l)'
  BY <1>1, <1>9, <1>10, <1>12
<1>13. begun' = 1
  BY DEF Between
<1> QED BY <1>8, <1>11, <1>12, <1>13 DEF Between

\* The jobs of the other pages, and what is coming when one job goes on.
LEMMA ComingGoesOn ==
  ASSUME TypedInd, NEW p \in Person, NEW s \in Slots[p], NEW k, Becomes(p, s, k), log' = log
  PROVE  /\ \A l : Coming(p, l)' =>
              \/ \E i \in (DOMAIN log) \ opened'[p] : l = log[i] /\ log[i].from # p
              \/ \E t \in Slots[Peer(p)] : Posting(job[Peer(p)][t]) /\ l = job[Peer(p)][t]
         /\ \A l : Coming(Peer(p), l)' =>
              \/ \E i \in (DOMAIN log) \ opened'[Peer(p)] : l = log[i] /\ log[i].from # Peer(p)
              \/ Posting(k) /\ l = k
              \/ \E t \in Slots[p] \ {s} : Posting(job[p][t]) /\ l = job[p][t]
<1>1. Peer(p) \in Person /\ Peer(p) # p /\ Peer(Peer(p)) = p
  BY PeerIsOther
<1>2. /\ job'[p][s] = k
      /\ \A q \in Person : \A t \in Slots[q] : q # p \/ t # s => job'[q][t] = job[q][t]
  BY JobBecomes DEF TypedInd
<1>3. \A t \in Slots[Peer(p)] : job'[Peer(p)][t] = job[Peer(p)][t]
  BY <1>1, <1>2
<1>4. \A t \in Slots[p] : (t = s /\ job'[p][t] = k) \/ (t \in Slots[p] \ {s} /\ job'[p][t] = job[p][t])
  BY <1>2
<1>5. ASSUME NEW l, Coming(p, l)'
      PROVE  \/ \E i \in (DOMAIN log) \ opened'[p] : l = log[i] /\ log[i].from # p
             \/ \E t \in Slots[Peer(p)] : Posting(job[Peer(p)][t]) /\ l = job[Peer(p)][t]
  BY <1>3, <1>5 DEF Coming, Posting
<1>6. ASSUME NEW l, Coming(Peer(p), l)'
      PROVE  \/ \E i \in (DOMAIN log) \ opened'[Peer(p)] : l = log[i] /\ log[i].from # Peer(p)
             \/ Posting(k) /\ l = k
             \/ \E t \in Slots[p] \ {s} : Posting(job[p][t]) /\ l = job[p][t]
  BY <1>1, <1>4, <1>6 DEF Coming, Posting
<1> QED BY <1>5, <1>6

---------------------------------------------------------------------------
(* The steps.                                                              *)

\* What is in the log stays as it was sealed.
LogAlike ==
  \A i \in DOMAIN log : i \in DOMAIN log' /\ log'[i].from = log[i].from /\ Alike(log'[i], log[i])

\* A job that was right stays right while the log keeps its packets,
LEMMA WorksStays ==
  ASSUME TypedInd, LogAlike, NEW p \in Person, NEW s \in Slots[p], NEW j, j = job[p][s], Works(p, j)
  PROVE  Works(p, j)'
<1>1. ASSUME j.at = "keep" PROVE Opens(p, j)'
  <2>1. j.todo # <<>>
    BY <1>1 DEF TypedInd, JobsOK, JobOK
  <2>2. PICK i : i = Head(j.todo)
    OBVIOUS
  <2>3. i \in DOMAIN log
    BY <1>1, <2>1, <2>2, HeadIs
  <2>4. log'[i].header = log[i].header /\ log'[i].key = log[i].key /\ log'[i].prekey = log[i].prekey
    BY <2>3 DEF LogAlike, Alike
  <2>5. (j.base = None => log[i].prekey \in PrekeyT) /\ OpensIt(Base(p, log[i], j), log[i], j)
    BY <1>1, <2>2 DEF Works, Opens
  <2>6. PICK h, m : h = log'[i] /\ m = log[i]
    OBVIOUS
  <2>7. OpensIt(Base(p, m, j), m, j) /\ h.header = m.header /\ h.key = m.key /\ h.prekey = m.prekey
    BY <2>4, <2>5, <2>6
  <2>8. Base(p, h, j) = Base(p, m, j)
    BY <2>7 DEF Base
  <2>9. OpensIt(Base(p, m, j), h, j)
    BY <2>7 DEF OpensIt
  <2> QED BY <2>2, <2>4, <2>5, <2>6, <2>8, <2>9 DEF Opens
<1>2. ASSUME j.at = "put" PROVE Writes(p, j)'
  BY <1>2 DEF Works, Writes, Seals
<1> QED BY <1>1, <1>2 DEF Works

\* so all jobs stay right if the moved ones are,
LEMMA WorksGoOn ==
  ASSUME TypedInd, WorksOK, LogAlike,
         \A q \in Person : \A t \in Slots[q] : job'[q][t] = job[q][t] \/ Works(q, job[q][t])'
  PROVE  WorksOK'
<1>1. ASSUME NEW q \in Person, NEW t \in Slots[q] PROVE Works(q, job[q][t])'
  <2>1. CASE job'[q][t] = job[q][t]
    <3>1. PICK j : j = job[q][t]
      OBVIOUS
    <3>2. Works(q, j)
      BY <3>1 DEF WorksOK
    <3>3. Works(q, j)'
      BY <3>1, <3>2, WorksStays
    <3> QED BY <2>1, <3>1, <3>3
  <2> QED BY <1>1, <2>1
<1> QED BY <1>1 DEF WorksOK

\* which is one at a time.
LEMMA WorkBecomes ==
  ASSUME TypedInd, WorksOK, LogAlike, NEW p \in Person, NEW s \in Slots[p], NEW k, Becomes(p, s, k), Works(p, k)'
  PROVE  WorksOK'
<1>1. /\ job'[p][s] = k
      /\ \A q \in Person : \A t \in Slots[q] : q # p \/ t # s => job'[q][t] = job[q][t]
  BY JobBecomes DEF TypedInd
<1>2. \A q \in Person : \A t \in Slots[q] : job'[q][t] = job[q][t] \/ Works(q, job[q][t])'
  BY <1>1
<1> QED BY <1>2, WorksGoOn

\* A job that holds no session has nothing to get right.
LEMMA NoWork ==
  ASSUME NEW p, NEW j, ~Holding(j)
  PROVE  Works(p, j)'
BY DEF Holding, Works

\* Nothing that is coming, no session and no job that holds one is touched.
Calm == Quiet /\ LogAlike /\ begun' = begun /\ garbled' = garbled

\* Nothing new comes while nothing is sealed or posted.
LEMMA ComingStays ==
  ASSUME LogAlike, DOMAIN log' = DOMAIN log, \A q \in Person : opened[q] \subseteq opened'[q],
         \A q \in Person : \A t \in Slots[q] : Posting(job'[q][t]) => job'[q][t] = job[q][t],
         NEW q \in Person, NEW l, Coming(q, l)'
  PROVE  \E k : Coming(q, k) /\ Alike(l, k)
<1>1. Peer(q) \in Person
  BY PeerIsOther
<1>2. ASSUME NEW i \in (DOMAIN log') \ opened'[q], l = log'[i], log'[i].from # q
      PROVE  \E k : Coming(q, k) /\ Alike(l, k)
  <2>1. i \in (DOMAIN log) \ opened[q] /\ log[i].from # q /\ Alike(log'[i], log[i])
    BY <1>2 DEF LogAlike
  <2>2. Coming(q, log[i])
    BY <2>1 DEF Coming
  <2> QED BY <1>2, <2>1, <2>2
<1>3. ASSUME NEW t \in Slots[Peer(q)], Posting(job'[Peer(q)][t]), l = job'[Peer(q)][t]
      PROVE  \E k : Coming(q, k) /\ Alike(l, k)
  <2>1. job'[Peer(q)][t] = job[Peer(q)][t]
    BY <1>1, <1>3
  <2>2. Coming(q, l)
    BY <1>3, <2>1 DEF Coming
  <2> QED BY <2>2 DEF Alike
<1> QED BY <1>2, <1>3 DEF Coming, Posting

\* The log and the jobs that post or put as they were, and no session written.
LEMMA OpensStays ==
  ASSUME TypedInd, TypedInd', begun <= 1, Unbegun \/ Between, \A q \in Person : session'[q] = session[q],
         LogAlike, DOMAIN log' = DOMAIN log, \A q \in Person : opened'[q] = opened[q], begun' = begun,
         \A q \in Person : \A t \in Slots[q] : job'[q][t].at \in {"put", "post"} => job'[q][t] = job[q][t]
  PROVE  (Unbegun \/ Between)'
<1>1. CASE Unbegun
  <2>1. log' = <<>>
    <3>1. log' \in Seq(MessageT) /\ DOMAIN log' = {}
      BY <1>1 DEF TypedInd, LogOK, Unbegun
    <3> QED BY <3>1
  <2>2. \A q \in Person : session'[q] = None
    BY <1>1 DEF Unbegun
  <2>3. ASSUME NEW q \in Person, NEW t \in Slots[q] PROVE ~Posting(job'[q][t])
    BY <1>1 DEF Unbegun, Posting
  <2>4. ASSUME NEW q \in Person, NEW t \in Slots[q], job'[q][t].at = "put"
        PROVE  begun' = 1 /\ \A r \in Person : \A u \in Slots[r] : job'[r][u].at = "put" => r = q /\ u = t
    BY <1>1, <2>4 DEF Unbegun
  <2> QED BY <2>1, <2>2, <2>3, <2>4 DEF Unbegun, Posting
<1>2. CASE Between
  <2>1. \A q \in Person : \A t \in Slots[q] : job'[q][t].at = "put" => job'[q][t].base # None
    BY <1>2 DEF Between
  <2>2. \A q \in Person : \A t \in Slots[q] : Posting(job'[q][t]) => job'[q][t] = job[q][t]
    BY DEF Posting
  <2>3. \A q \in Person : \A l : Coming(q, l)' => \E k : Coming(q, k) /\ Alike(l, k)
    BY <2>2, ComingStays
  <2> QED BY <1>2, <2>1, <2>3, BetweenStays
<1> QED BY <1>1, <1>2

\* A calm step keeps what is coming within reach.
LEMMA CalmOpens ==
  ASSUME TypedInd, TypedInd', OpensInd, Calm, "session" \in raced => "session" \in raced'
  PROVE  OpensInd'
<1>1. /\ \A q \in Person : session'[q] = session[q] /\ opened'[q] = opened[q]
      /\ DOMAIN log' = DOMAIN log /\ LogAlike /\ begun' = begun /\ garbled' = garbled
      /\ \A q \in Person : \A t \in Slots[q] :
           job'[q][t] = job[q][t] \/ (~Holding(job'[q][t]) /\ ~Posting(job'[q][t]))
  BY DEF Calm, Quiet
<1>2. WorksOK'
  <2>1. \A q \in Person : \A t \in Slots[q] : ~Holding(job'[q][t]) => Works(q, job[q][t])'
    BY DEF Holding, Works
  <2>2. \A q \in Person : \A t \in Slots[q] : job'[q][t] = job[q][t] \/ Works(q, job[q][t])'
    BY <1>1, <2>1
  <2> QED BY <1>1, <2>2, WorksGoOn DEF OpensInd
<1>3. \A q \in Person : \A t \in Slots[q] : job'[q][t].at \in {"put", "post"} => job'[q][t] = job[q][t]
  BY <1>1 DEF Holding, Posting
<1>4. ASSUME "session" \notin raced, begun <= 1 PROVE (\A p \in Person : garbled'[p] = {}) /\ (Unbegun \/ Between)'
  <2>1. (\A p \in Person : garbled[p] = {}) /\ (Unbegun \/ Between)
    BY <1>4 DEF OpensInd, OpensOK
  <2> QED BY <1>1, <1>3, <1>4, <2>1, OpensStays
<1> QED BY <1>1, <1>2, <1>4 DEF OpensInd, OpensOK

\* Clicks are calm,
LEMMA ClicksCalm ==
  ASSUME TypedInd, NEW p \in Person,
         (\E c \in Conv : Select(p, c)) \/ Trust(p) \/ Verify(p) \/ Reload(p) \/ SendClick(p) \/ RegisterReads(p)
  PROVE  Calm /\ raced' = raced
<1>1. Quiet /\ raced' = raced
  BY ClicksQuiet
<1>2. begun' = begun /\ garbled' = garbled
  BY DEF Select, Trust, Verify, Reload, SendClick, RegisterReads, history
<1>3. LogAlike
  <2>1. CASE log' = log
    BY <2>1 DEF LogAlike, Alike
  <2>2. CASE Trust(p)
    <3>1. \A i \in DOMAIN log : log[i] \in MessageT
      BY DEF TypedInd, LogOK
    <3>2. /\ DOMAIN log' = DOMAIN log
          /\ \A i \in DOMAIN log : log'[i] = log[i] \/ log'[i] = [log[i] EXCEPT !.status = "accepted"]
      BY <2>2 DEF Trust
    <3>3. \A i \in DOMAIN log : /\ log'[i].from = log[i].from /\ log'[i].header = log[i].header
                                /\ log'[i].key = log[i].key /\ log'[i].prekey = log[i].prekey
      BY <3>1, <3>2 DEF MessageT
    <3> QED BY <3>2, <3>3 DEF LogAlike, Alike
  <2>3. Trust(p) \/ log' = log
    BY DEF Select, Verify, Reload, SendClick, RegisterReads, server
  <2> QED BY <2>1, <2>2, <2>3
<1> QED BY <1>1, <1>2, <1>3 DEF Calm

\* and so are answers and failures.
LEMMA WaitsCalm ==
  ASSUME TypedInd, NEW p \in Person, NEW s \in Slots[p],
         Bundles(p, s) \/ SendFails(p, s) \/ Fetched(p, s) \/ Loaded(p, s) \/ LoadFails(p, s)
  PROVE  Calm /\ raced' = raced
<1>1. Quiet /\ raced' = raced
  BY WaitsQuiet
<1>2. UNCHANGED <<log, begun, garbled>>
  BY DEF Bundles, SendFails, Fetched, Loaded, LoadFails, server, history
<1>3. LogAlike
  BY <1>2 DEF LogAlike, Alike
<1> QED BY <1>1, <1>2, <1>3 DEF Calm

\* Sealing holds the session that follows the one it read.
LEMMA SealWrites ==
  ASSUME TypedInd, NEW p \in Person, NEW s \in Slots[p], Seal(p, s)
  PROVE  \E k : Becomes(p, s, k) /\ k.at = "put" /\ k.base = session[p] /\ Writes(p, k)
<1> DEFINE old == job[p][s]
<1>1. CASE session[p] # None
  <2> DEFINE k == Sealed(old, session[p], None, session[p])
  <2>1. Becomes(p, s, k)
    BY <1>1 DEF Seal
  <2>2. k.at = "put" /\ k.base = session[p] /\ Seals(session[p], k) /\ k.prekey = None
    BY DEF Sealed, Seals
  <2> HIDE DEF k
  <2>3. Writes(p, k)
    BY <1>1, <2>2 DEF Writes
  <2> QED BY <2>1, <2>2, <2>3
<1>2. CASE session[p] = None
  <2> DEFINE x == Fresh(p, 1)
             pair == Fresh(p, 2)
             t == StartSending(Secret(x, old.otk), pair, Peer(p))
             k == Sealed(old, None, [ephemeral |-> x, otk |-> old.otk], t)
  <2>1. Becomes(p, s, k)
    BY <1>2 DEF Seal
  <2>2. k.at = "put" /\ k.base = None /\ Seals(t, k) /\ k.prekey = [ephemeral |-> x, otk |-> old.otk]
    BY DEF Sealed, Seals
  <2>3. x \in PairT /\ pair \in PairT /\ pair[1] = p
    BY FreshIsNew
  <2>4. old.otk \in Nat
    BY DEF Seal, TypedInd, JobsOK, JobOK
  <2> HIDE DEF k, x, pair
  <2>5. Writes(p, k)
    BY <2>2, <2>3, <2>4 DEF Writes
  <2> QED BY <1>2, <2>1, <2>2, <2>5
<1> QED BY <1>1, <1>2

\* Sealing keeps what is coming within reach; the first one begins a session.
LEMMA SealOpens ==
  ASSUME TypedInd, TypedInd', OpensInd, NEW p \in Person, NEW s \in Slots[p], Seal(p, s)
  PROVE  OpensInd'
<1>1. PICK k : Becomes(p, s, k) /\ k.at = "put" /\ k.base = session[p] /\ Writes(p, k)
  BY SealWrites
<1>2. UNCHANGED <<session, log, opened, garbled, raced>> /\ begun \in Nat
  BY DEF Seal, server, OpensInd
<1>3. begun' = IF session[p] # None THEN begun ELSE begun + 1
  BY DEF Seal
<1>4. LogAlike
  BY <1>2 DEF LogAlike, Alike
<1>5. WorksOK'
  <2>1. Writes(p, k)'
    BY <1>1 DEF Writes, Seals
  <2>2. Works(p, k)'
    BY <1>1, <2>1 DEF Works
  <2> QED BY <1>1, <1>4, <2>2, WorkBecomes DEF OpensInd
<1>6. /\ job'[p][s] = k
      /\ \A q \in Person : \A t \in Slots[q] : q # p \/ t # s => job'[q][t] = job[q][t]
  BY <1>1, JobBecomes DEF TypedInd
<1>7. \A q \in Person : \A t \in Slots[q] : Posting(job'[q][t]) => job'[q][t] = job[q][t]
  BY <1>1, <1>6 DEF Posting
<1>8. ASSUME "session" \notin raced, begun' <= 1
      PROVE  (\A q \in Person : garbled[q] = {}) /\ (Unbegun \/ Between)'
  <2>1. begun <= 1 /\ (session[p] = None => begun = 0)
    BY <1>2, <1>3, <1>8
  <2>2. (\A q \in Person : garbled[q] = {}) /\ (Unbegun \/ Between)
    BY <1>8, <2>1 DEF OpensInd, OpensOK
  <2>3. CASE Unbegun
    <3>1. session[p] = None /\ log = <<>> /\ \A q \in Person : session[q] = None
      BY <2>3 DEF Unbegun
    <3>2. begun = 0 /\ begun' = 1
      BY <1>3, <2>1, <3>1
    <3>3. \A q \in Person : \A t \in Slots[q] : job[q][t].at # "put" /\ ~Posting(job[q][t])
      BY <2>3, <3>2 DEF Unbegun
    <3>4. \A q \in Person : \A t \in Slots[q] : ~Posting(job'[q][t])
      BY <1>7, <3>3
    <3>5. \A q \in Person : \A t \in Slots[q] : job'[q][t].at = "put" => q = p /\ t = s
      BY <1>6, <3>3
    <3>6. \A q \in Person : \A t \in Slots[q] : job'[q][t].at = "put" =>
            \A r \in Person : \A u \in Slots[r] : job'[r][u].at = "put" => r = q /\ u = t
      BY <3>5
    <3> QED BY <1>2, <2>2, <3>1, <3>2, <3>4, <3>6 DEF Unbegun, Posting
  <2>4. CASE Between
    <3>1. begun = 1
      BY <2>4 DEF Between
    <3>2. session[p] # None /\ begun' = begun
      BY <1>3, <2>1, <3>1
    <3>3. \A q \in Person : \A t \in Slots[q] : job'[q][t].at = "put" => job'[q][t].base # None
      BY <1>1, <1>6, <2>4, <3>2 DEF Between
    <3>4. \A q \in Person : \A l : Coming(q, l)' => \E m : Coming(q, m) /\ Alike(l, m)
      BY <1>2, <1>4, <1>7, ComingStays
    <3>5. \A q \in Person : session'[q] = session[q]
      BY <1>2
    <3>6. Between'
      BY <2>4, <3>2, <3>3, <3>4, <3>5, BetweenStays
    <3> QED BY <2>2, <3>6
  <2> QED BY <2>2, <2>3, <2>4
<1>9. begun' \in Nat
  BY <1>2, <1>3
<1> QED BY <1>2, <1>5, <1>8, <1>9 DEF OpensInd, OpensOK

\* A message that was never opened is opened, unless the gap is too wide.
LEMMA OpensComing ==
  ASSUME TypedInd, Between, NEW p \in Person, NEW i \in (DOMAIN log) \ opened[p], log[i].from # p,
         NEW b, NEW pair \in PairT, b.self[2] < pair[2],
         IF session[p] # None THEN b = session[p]
         ELSE log[i].prekey \in PrekeyT /\ b = StartReceiving(Secret(log[i].prekey.ephemeral, log[i].prekey.otk), p)
  PROVE  LET r == RatchetDecrypt(b, log[i].header, log[i].key, pair)
         IN  r = Gap \/ (r.ok /\ Answers(Reading(p), Reading(Peer(p)), r.next, {log[i].key}))
<1> DEFINE o == Reading(Peer(p))
<1>1. PICK m : m = log[i]
  OBVIOUS
<1>2. Coming(p, m)
  BY <1>1 DEF Coming
<1>3. Packet(m) /\ Finds(p, m)
  BY <1>2, ComingIsPacket DEF Between
<1>4. b = Reading(p)
  <2>1. CASE session[p] # None
    BY <2>1 DEF Reading
  <2>2. CASE session[p] = None
    <3>1. m.prekey # None
      BY <1>1, <2>2, PrekeyIsNotNone
    <3>2. <<m.prekey.ephemeral, m.prekey.otk>> = session[Peer(p)].root[1]
      BY <1>3, <2>2, <3>1 DEF Finds, Introduces
    <3>3. b = StartReceiving(<< <<m.prekey.ephemeral, m.prekey.otk>> >>, p)
      BY <1>1, <2>2 DEF Secret
    <3> QED BY <2>2, <3>2, <3>3 DEF Reading
  <2> QED BY <2>1, <2>2
<1>5. Peer(p) \in Person /\ Peer(Peer(p)) = p
  BY PeerIsOther
<1>6. /\ SessionIn(b, p) /\ b.root # <<>> /\ Files(b) /\ (Paired(b, o) \/ Paired(o, b))
      /\ SessionIn(o, Peer(p))
  BY <1>4, <1>5, ReadingIs
<1>7. b \in SessionT /\ o \in SessionT /\ (b.recvs # NoChain => b.peer \in PairT)
  BY <1>6 DEF SessionIn, SessionT
<1>8. Reaches(b, o, m)
  BY <1>3, <1>4 DEF Finds
<1> HIDE DEF o
<1>9. LET r == RatchetDecrypt(b, m.header, m.key, pair)
      IN  r = Gap \/ (r.ok /\ Answers(b, o, r.next, {m.key}))
  BY <1>3, <1>6, <1>7, <1>8, DecryptAnswers
<1> QED BY <1>1, <1>4, <1>9 DEF o

\* Opening finds the message within reach, or its gap too wide.
LEMMA OpenOpens ==
  ASSUME TypedInd, TypedInd', OpensInd, NEW p \in Person, NEW s \in Slots[p], Open(p, s)
  PROVE  OpensInd'
<1>1. PICK old, i : old = job[p][s] /\ i = Head(old.todo)
  OBVIOUS
<1>2. PICK m : m = log[i]
  OBVIOUS
<1>3. PICK b, pair : b = SessionFor(p, m) /\ pair = Fresh(p, 1)
  OBVIOUS
<1>4. PICK r : r = RatchetDecrypt(b, m.header, m.key, pair)
  OBVIOUS
<1>5. PICK x, k : /\ x = [old EXCEPT !.todo = Tail(@)]
                  /\ k = [at |-> "keep", todo |-> old.todo, base |-> session[p], next |-> r.next]
  OBVIOUS
<1>6. /\ old.at = "walk" /\ old.todo # <<>> /\ UNCHANGED <<session, log, opened, begun, raced>>
      /\ IF Refused(p, m) \/ ~r.ok
         THEN /\ Becomes(p, s, x)
              /\ garbled' = IF ~Refused(p, m) /\ ~r.gap /\ i \notin opened[p]
                            THEN [garbled EXCEPT ![p] = @ \cup {i}] ELSE garbled
         ELSE Becomes(p, s, k) /\ garbled' = garbled
  <2>1. old.at = "walk" /\ old.todo # <<>> /\ UNCHANGED <<session, log, opened, begun, raced>>
    BY <1>1, OpenWalks
  <2> QED BY <1>1, <1>2, <1>3, <1>4, <1>5, <2>1, Zenon DEF Open
<1>7. i \in DOMAIN log /\ m.from # p /\ m \in MessageT
  BY <1>1, <1>2, <1>6, HeadIs
<1>8. pair \in PairT
  BY <1>3, FreshIsNew
<1>9. LogAlike
  BY <1>6 DEF LogAlike, Alike
<1>10. ~Refused(p, m) => b.self[2] < pair[2] /\ (session[p] = None => m.prekey \in PrekeyT)
  BY <1>3, <1>7, SessionForIs
<1>11. CASE Refused(p, m) \/ ~r.ok
  <2>1. Becomes(p, s, x)
    BY <1>6, <1>11
  <2>2. old = [at |-> "walk", todo |-> old.todo]
    BY <1>1, <1>6 DEF TypedInd, JobsOK, JobOK
  <2>3. x = [at |-> "walk", todo |-> Tail(old.todo)]
    BY <1>5, <2>2, Passes
  <2>4. ~Holding(x) /\ ~Posting(x)
    BY <2>3, LoadingQuiet
  <2>5. Quiet
    BY <1>6, <2>1, <2>4, BecomesQuiet
  <2>6. /\ \A q \in Person : \A t \in Slots[q] :
             job'[q][t] = job[q][t] \/ (~Holding(job'[q][t]) /\ ~Posting(job'[q][t]))
        /\ \A q \in Person : session'[q] = session[q] /\ opened'[q] = opened[q]
    BY <2>5 DEF Quiet
  <2>7. WorksOK'
    <3>1. \A q \in Person : \A t \in Slots[q] : ~Holding(job'[q][t]) => Works(q, job[q][t])'
      BY DEF Holding, Works
    <3>2. \A q \in Person : \A t \in Slots[q] : job'[q][t] = job[q][t] \/ Works(q, job[q][t])'
      BY <2>6, <3>1
    <3> QED BY <1>9, <3>2, WorksGoOn DEF OpensInd
  <2>8. ASSUME "session" \notin raced, begun <= 1
        PROVE  (\A q \in Person : garbled'[q] = {}) /\ (Unbegun \/ Between)'
    <3>1. (\A q \in Person : garbled[q] = {}) /\ (Unbegun \/ Between)
      BY <2>8 DEF OpensInd, OpensOK
    <3>2. ASSUME ~Refused(p, m), ~r.gap, i \notin opened[p] PROVE FALSE
      <4>1. Between
        BY <1>7, <3>1 DEF Unbegun
      <4>2. b.self[2] < pair[2] /\ (session[p] = None => m.prekey \in PrekeyT)
        BY <1>10, <3>2
      <4>3. IF session[p] # None THEN b = session[p]
            ELSE m.prekey \in PrekeyT /\ b = StartReceiving(Secret(m.prekey.ephemeral, m.prekey.otk), p)
        BY <1>3, <4>2 DEF SessionFor
      <4>4. i \in (DOMAIN log) \ opened[p]
        BY <1>7, <3>2
      <4>5. r = Gap \/ r.ok
        BY <1>2, <1>4, <1>7, <1>8, <4>1, <4>2, <4>3, <4>4, OpensComing
      <4>6. r = Gap
        BY <1>11, <3>2, <4>5
      <4> QED BY <3>2, <4>6 DEF Gap
    <3>3. garbled' = garbled
      BY <1>6, <1>11, <3>2
    <3>4. \A q \in Person : \A t \in Slots[q] : job'[q][t].at \in {"put", "post"} => job'[q][t] = job[q][t]
      BY <2>6 DEF Holding, Posting
    <3>5. (Unbegun \/ Between)'
      BY <1>6, <1>9, <2>6, <2>8, <3>1, <3>4, OpensStays
    <3> QED BY <3>1, <3>3, <3>5
  <2> QED BY <1>6, <2>7, <2>8 DEF OpensInd, OpensOK
<1>12. CASE ~Refused(p, m) /\ r.ok
  <2>1. Becomes(p, s, k) /\ garbled' = garbled
    BY <1>6, <1>12
  <2>2. k.at = "keep" /\ k.todo = old.todo /\ k.base = session[p] /\ k.next = r.next
    BY <1>5
  <2>3. Base(p, m, k) = b
    BY <1>3, <2>2 DEF Base, SessionFor
  <2>4. OpensIt(b, m, k)
    BY <1>4, <1>8, <1>10, <1>12, <2>2 DEF OpensIt
  <2>5. Opens(p, k)
    BY <1>1, <1>2, <1>10, <1>12, <2>2, <2>3, <2>4 DEF Opens
  <2>6. Works(p, k)'
    <3>1. Opens(p, k)'
      BY <1>6, <2>5 DEF Opens
    <3> QED BY <2>2, <3>1 DEF Works
  <2>7. WorksOK'
    BY <1>9, <2>1, <2>6, WorkBecomes DEF OpensInd
  <2>8. /\ job'[p][s] = k
        /\ \A q \in Person : \A t \in Slots[q] : q # p \/ t # s => job'[q][t] = job[q][t]
    BY <2>1, JobBecomes DEF TypedInd
  <2>9. \A q \in Person : \A t \in Slots[q] : job'[q][t].at \in {"put", "post"} => job'[q][t] = job[q][t]
    BY <2>2, <2>8
  <2>10. ASSUME "session" \notin raced, begun <= 1
         PROVE  (\A q \in Person : garbled[q] = {}) /\ (Unbegun \/ Between)'
    <3>1. (\A q \in Person : garbled[q] = {}) /\ (Unbegun \/ Between)
      BY <2>10 DEF OpensInd, OpensOK
    <3> QED BY <1>6, <1>9, <2>9, <2>10, <3>1, OpensStays
  <2> QED BY <1>6, <2>1, <2>7, <2>10 DEF OpensInd, OpensOK
<1> QED BY <1>11, <1>12

\* What the sealing of a message makes of the two sessions, and the first one of all.
LEMMA SealsAnswer ==
  ASSUME NEW s \in SessionT, NEW o \in SessionT, s.root # <<>>, Files(s), Paired(s, o) \/ Paired(o, s),
         NEW j, Seals(s, j), NEW m, m.header = j.header, m.key = j.key
  PROVE  Answers(s, o, j.next, {}) /\ Reaches(o, j.next, m)
<1>1. LET r == RatchetEncrypt(s)
      IN  /\ Answers(s, o, r.next, {})
          /\ \A l : l.header = r.header /\ l.key = r.key => Reaches(o, r.next, l)
  BY EncryptAnswers
<1> QED BY <1>1 DEF Seals

\* Writing the session of a packet: what comes now is within the peer's reach.
LEMMA PutOpens ==
  ASSUME TypedInd, OpensInd, NEW p \in Person, NEW s \in Slots[p], PutSession(p, s)
  PROVE  OpensInd'
<1>1. PICK j : j = job[p][s]
  OBVIOUS
<1>2. /\ j.at = "put" /\ session' = [session EXCEPT ![p] = j.next] /\ WasRaced(p, j.base)
      /\ UNCHANGED <<log, opened, garbled, begun>>
  BY <1>1 DEF PutSession, server
<1>3. PICK k : k = [at |-> "post", conv |-> j.conv, number |-> j.number,
                    prekey |-> j.prekey, header |-> j.header, key |-> j.key]
  OBVIOUS
<1>4. /\ Becomes(p, s, k)
      /\ k.at = "post" /\ k.prekey = j.prekey /\ k.header = j.header /\ k.key = j.key
  BY <1>1, <1>3 DEF PutSession
<1>5. Works(p, j) /\ JobOK(p, j)
  BY <1>1 DEF OpensInd, WorksOK, TypedInd, JobsOK
<1>6. Writes(p, j) /\ SessionIn(j.next, p) /\ j.next # None
  <2>1. SessionIn(j.next, p)
    BY <1>2, <1>5 DEF JobOK, Holding, SessionOK
  <2> QED BY <1>2, <1>5, <2>1, SessionIsNotNone DEF Works
<1>7. LogAlike
  BY <1>2 DEF LogAlike, Alike
<1>8. WorksOK'
  <2>1. Works(p, k)'
    BY <1>4 DEF Works
  <2> QED BY <1>4, <1>7, <2>1, WorkBecomes DEF OpensInd
<1>9. /\ job'[p][s] = k
      /\ \A q \in Person : \A t \in Slots[q] : q # p \/ t # s => job'[q][t] = job[q][t]
  BY <1>4, JobBecomes DEF TypedInd
<1>10. session'[p] = j.next /\ \A q \in Person : q # p => session'[q] = session[q]
  BY <1>2 DEF TypedInd, SessionsOK
<1>11. Peer(p) \in Person /\ Peer(p) # p /\ Peer(Peer(p)) = p /\ \A q \in Person : q = p \/ q = Peer(p)
  BY PeerIsOther
<1>12. \A q \in Person : \A t \in Slots[q] : job'[q][t].at = "put" => job'[q][t] = job[q][t] /\ (q # p \/ t # s)
  BY <1>4, <1>9
<1>13. /\ \A l : Coming(p, l)' => Coming(p, l)
       /\ \A l : Coming(Peer(p), l)' => Coming(Peer(p), l) \/ l = k
  <2>1. /\ \A l : Coming(p, l)' =>
              \/ \E i \in (DOMAIN log) \ opened'[p] : l = log[i] /\ log[i].from # p
              \/ \E t \in Slots[Peer(p)] : Posting(job[Peer(p)][t]) /\ l = job[Peer(p)][t]
        /\ \A l : Coming(Peer(p), l)' =>
              \/ \E i \in (DOMAIN log) \ opened'[Peer(p)] : l = log[i] /\ log[i].from # Peer(p)
              \/ Posting(k) /\ l = k
              \/ \E t \in Slots[p] \ {s} : Posting(job[p][t]) /\ l = job[p][t]
    BY <1>2, <1>4, ComingGoesOn
  <2> QED BY <1>2, <1>11, <2>1 DEF Coming
<1>14. ASSUME "session" \notin raced', begun <= 1
       PROVE  (\A q \in Person : garbled[q] = {}) /\ (Unbegun \/ Between)'
  <2>1. session[p] = j.base /\ "session" \notin raced
    BY <1>2, <1>14 DEF WasRaced
  <2>2. (\A q \in Person : garbled[q] = {}) /\ (Unbegun \/ Between)
    BY <1>14, <2>1 DEF OpensInd, OpensOK
  <2>3. CASE j.base # None
    <3>1. Between
      BY <2>1, <2>2, <2>3 DEF Unbegun
    <3> DEFINE b == Reading(p)
               o == Reading(Peer(p))
    <3>2. b = j.base /\ Seals(b, j) /\ j.prekey = None
      BY <1>6, <2>1, <2>3 DEF Reading, Writes
    <3>3. /\ SessionIn(b, p) /\ b.root # <<>> /\ Files(b) /\ (Paired(b, o) \/ Paired(o, b))
          /\ SessionIn(o, Peer(p))
      BY <1>11, <3>1, ReadingIs
    <3>4. b \in SessionT /\ o \in SessionT
      BY <3>3 DEF SessionIn
    <3> HIDE DEF b, o
    <3>5. Answers(b, o, j.next, {}) /\ Reaches(o, j.next, k)
      BY <1>4, <3>2, <3>3, <3>4, SealsAnswer
    <3>6. /\ Answers(Reading(p), Reading(Peer(p)), j.next, {})
          /\ Reaches(Reading(Peer(p)), j.next, k) /\ k.prekey = None
      BY <1>4, <3>2, <3>5 DEF b, o
    <3>7. \A q \in Person : \A t \in Slots[q] : job'[q][t].at = "put" => job'[q][t].base # None
      BY <1>12, <3>1 DEF Between
    <3>8. PICK t : t = j.next
      OBVIOUS
    <3>9. PICK K : K = {}
      OBVIOUS
    <3>10. /\ \A l : Coming(p, l)' => Coming(p, l) /\ l.key \notin K
           /\ \A l : Coming(Peer(p), l)' =>
                Coming(Peer(p), l) \/ (Reaches(Reading(Peer(p)), t, l) /\ l.prekey = None)
      BY <1>13, <3>6, <3>8, <3>9
    <3>11. Answers(Reading(p), Reading(Peer(p)), t, K) /\ t # None /\ session'[p] = t
      BY <1>6, <1>10, <3>6, <3>8, <3>9
    <3>12. Between'
      BY <1>2, <1>10, <3>1, <3>7, <3>10, <3>11, BetweenGoesOn
    <3> QED BY <2>2, <3>12
  <2>4. CASE j.base = None
    <3>1. Unbegun
      BY <1>1, <1>2, <2>2, <2>4 DEF Between
    <3>2. PICK x \in PairT, pair \in PairT, otk \in Nat :
            /\ pair[1] = p
            /\ Seals(StartSending(Secret(x, otk), pair, Peer(p)), j)
            /\ j.prekey = [ephemeral |-> x, otk |-> otk]
      BY <1>6, <2>4 DEF Writes
    <3> DEFINE b == StartSending(Secret(x, otk), pair, Peer(p))
               first == <<b.root[1]>>
               o == StartReceiving(first, Peer(p))
    <3>3. Paired(b, o) /\ Files(b) /\ b.root # <<>> /\ b.root[1] = <<x, otk>>
      BY <1>11, StartAnswers
    <3>4. b \in SessionT
      <4>1. PICK a : a = Secret(x, otk)
        OBVIOUS
      <4>2. a \in ChainT
        BY <4>1, SecretIsChain
      <4>3. SessionIn(StartSending(a, pair, Peer(p)), p)
        BY <1>11, <3>2, <4>2, SendingStarts
      <4> QED BY <4>1, <4>3 DEF SessionIn
    <3>5. o \in SessionT
      <4>1. first = <<<<x, otk>>>>
        BY <3>3
      <4> HIDE DEF first
      <4>2. first \in ChainT
        BY <4>1 DEF ChainT, MixT
      <4>3. SessionIn(o, Peer(p))
        BY <1>11, <4>2, ReceivingStarts
      <4> QED BY <4>3 DEF SessionIn
    <3>6. Seals(b, j)
      BY <3>2
    <3> HIDE DEF b, o
    <3>7. Answers(b, o, j.next, {}) /\ Reaches(o, j.next, k)
      BY <1>4, <3>3, <3>4, <3>5, <3>6, SealsAnswer
    <3>8. /\ Files(j.next) /\ j.next.root # <<>> /\ j.next.root[1] = b.root[1] /\ Paired(j.next, o)
      BY <3>3, <3>7 DEF Answers
    <3>9. session'[Peer(p)] = None
      BY <1>10, <1>11, <3>1 DEF Unbegun
    <3>10. Reading(p)' = j.next /\ Reading(Peer(p))' = o
      <4>1. Reading(p)' = j.next
        BY <1>6, <1>10 DEF Reading
      <4>2. Reading(Peer(p))' = StartReceiving(<<session'[p].root[1]>>, Peer(p))
        BY <1>11, <3>9 DEF Reading
      <4> QED BY <1>10, <3>8, <4>1, <4>2 DEF o
    <3>11. \E y \in Person : session'[y] # None /\ Paired(Reading(y), Reading(Peer(y)))'
      <4>1. session'[p] # None /\ Paired(Reading(p), Reading(Peer(p)))'
        BY <1>6, <1>10, <3>8, <3>10
      <4> QED BY <4>1
    <3>12. \A q \in Person : session'[q] # None => Files(session'[q]) /\ session'[q].root # <<>>
      BY <1>10, <1>11, <3>8, <3>9
    <3>13. \A q \in Person : \A t \in Slots[q] : job'[q][t].at = "put" => job'[q][t].base # None
      BY <1>1, <1>2, <1>12, <3>1 DEF Unbegun
    <3>14. begun' = 1
      BY <1>1, <1>2, <3>1 DEF Unbegun
    <3>15. \A q \in Person : \A l : ~Coming(q, l)
      BY <3>1, PeerIsOther DEF Unbegun, Coming, Posting
    <3>16. ASSUME NEW q \in Person, NEW l, Coming(q, l)' PROVE Finds(q, l)'
      <4>1. q = Peer(p) /\ l = k
        BY <1>11, <1>13, <3>15, <3>16
      <4>2. Reaches(Reading(Peer(p))', Reading(p)', k)
        BY <3>7, <3>10
      <4>3. <<k.prekey.ephemeral, k.prekey.otk>> = session'[p].root[1]
        BY <1>4, <1>10, <3>2, <3>3, <3>8
      <4>4. Introduces(Peer(p), k)'
        BY <1>11, <4>3 DEF Introduces
      <4> QED BY <1>11, <4>1, <4>2, <4>4 DEF Finds
    <3>17. Between'
      BY <3>11, <3>12, <3>13, <3>14, <3>16 DEF Between
    <3> QED BY <2>2, <3>17
  <2> QED BY <2>3, <2>4
<1> QED BY <1>2, <1>8, <1>14 DEF OpensInd, OpensOK

\* Sending moves what is coming from the page to the log.
LEMMA PostOpens ==
  ASSUME TypedInd, OpensInd, NEW p \in Person, NEW s \in Slots[p], Post(p, s)
  PROVE  OpensInd'
<1> DEFINE n == Len(log) + 1
<1>1. PICK j : j = job[p][s]
  OBVIOUS
<1>2. PICK m : m = Message(p, selected[p], j)
  OBVIOUS
<1>3. m.from = p /\ Alike(m, j)
  BY <1>2 DEF Message, Alike
<1>4. /\ j.at = "post" /\ log' = Append(log, m) /\ Becomes(p, s, Loading(selected[p]))
      /\ UNCHANGED <<session, opened, begun, garbled, raced>>
  BY <1>1, <1>2 DEF Post, database, history
<1>5. DOMAIN log' = DOMAIN log \cup {n} /\ n \notin DOMAIN log /\ \A i \in DOMAIN log : log'[i] = log[i]
  BY PostMakes
<1>6. log'[n] = m
  <2>1. log \in Seq(MessageT)
    BY DEF TypedInd, LogOK
  <2> QED BY <1>4, <2>1
<1>7. LogAlike
  BY <1>5 DEF LogAlike, Alike
<1>8. PICK k : k = Loading(selected[p])
  OBVIOUS
<1>9. Becomes(p, s, k) /\ ~Holding(k) /\ ~Posting(k)
  BY <1>4, <1>8, LoadingQuiet
<1>10. /\ job'[p][s] = k
       /\ \A q \in Person : \A t \in Slots[q] : q # p \/ t # s => job'[q][t] = job[q][t]
  BY <1>9, JobBecomes DEF TypedInd
<1>11. WorksOK'
  <2>1. Works(p, k)'
    BY <1>9, NoWork
  <2> QED BY <1>7, <1>9, <2>1, WorkBecomes DEF OpensInd
<1>12. \A q \in Person : \A t \in Slots[q] : job'[q][t].at \in {"put", "post"} => job'[q][t] = job[q][t]
  BY <1>9, <1>10 DEF Holding, Posting
<1> HIDE DEF n
<1>13. ASSUME "session" \notin raced, begun <= 1
       PROVE  (\A q \in Person : garbled[q] = {}) /\ (Unbegun \/ Between)'
  <2>1. (\A q \in Person : garbled[q] = {}) /\ (Unbegun \/ Between)
    BY <1>13 DEF OpensInd, OpensOK
  <2>2. Between
    BY <1>1, <1>4, <2>1 DEF Unbegun, Posting
  <2>3. ASSUME NEW q \in Person, NEW l, Coming(q, l)' PROVE \E h : Coming(q, h) /\ Alike(l, h)
    <3>1. Peer(q) \in Person /\ (p # q => p = Peer(q))
      BY PeerIsOther
    <3>2. ASSUME NEW i \in (DOMAIN log') \ opened'[q], l = log'[i], log'[i].from # q
          PROVE  \E h : Coming(q, h) /\ Alike(l, h)
      <4>1. CASE i = n
        <5>1. l = m /\ p # q
          BY <1>3, <1>6, <3>2, <4>1
        <5>2. Coming(q, j)
          BY <1>1, <1>4, <3>1, <5>1 DEF Coming, Posting
        <5> QED BY <1>3, <5>1, <5>2
      <4>2. CASE i # n
        <5>1. i \in (DOMAIN log) \ opened[q] /\ l = log[i] /\ log[i].from # q
          BY <1>4, <1>5, <3>2, <4>2
        <5>2. Coming(q, l)
          BY <5>1 DEF Coming
        <5> QED BY <5>2 DEF Alike
      <4> QED BY <4>1, <4>2
    <3>3. ASSUME NEW t \in Slots[Peer(q)], Posting(job'[Peer(q)][t]), l = job'[Peer(q)][t]
          PROVE  \E h : Coming(q, h) /\ Alike(l, h)
      <4>1. job'[Peer(q)][t] = job[Peer(q)][t]
        BY <1>12, <3>1, <3>3 DEF Posting
      <4>2. Coming(q, l)
        BY <3>3, <4>1 DEF Coming
      <4> QED BY <4>2 DEF Alike
    <3> QED BY <2>3, <3>2, <3>3 DEF Coming, Posting
  <2>4. \A q \in Person : \A t \in Slots[q] : job'[q][t].at = "put" => job'[q][t].base # None
    BY <1>12, <2>2 DEF Between
  <2>5. \A q \in Person : session'[q] = session[q]
    BY <1>4
  <2>6. Between'
    BY <1>4, <2>2, <2>3, <2>4, <2>5, BetweenStays
  <2> QED BY <2>1, <2>6
<1> QED BY <1>4, <1>11, <1>13 DEF OpensInd, OpensOK

\* A session that opened a message had not opened it before.
LEMMA KeepsNew ==
  ASSUME TypedInd, KeysOK, NEW p \in Person, NEW i \in DOMAIN log, NEW b,
         session[p] # None => b = session[p], NEW pair \in PairT,
         RatchetDecrypt(b, log[i].header, log[i].key, pair).ok
  PROVE  i \notin opened[p]
<1>1. CASE session[p] = None
  BY <1>1 DEF KeysOK, ForgotOK
<1>2. CASE session[p] # None
  <2>1. SessionIn(b, p)
    BY <1>2 DEF TypedInd, SessionsOK, SessionOK
  <2>2. log[i] \in MessageT /\ Young(log[i].key.chain)
    BY DEF TypedInd, LogOK
  <2>3. PICK h \in HeaderT, key \in KeyT : h = log[i].header /\ key = log[i].key
    BY <2>2 DEF MessageT
  <2>4. ~Past(b, key)
    BY <2>1, <2>2, <2>3, OpensAhead DEF Young
  <2> QED BY <1>2, <2>3, <2>4 DEF KeysOK, ForgotOK, Forgets
<1> QED BY <1>1, <1>2

\* Writing the session of an opened message: all else that comes stays within reach.
LEMMA KeepOpens ==
  ASSUME TypedInd, OpensInd, "session" \notin raced => KeysOK, NEW p \in Person, NEW s \in Slots[p], Keep(p, s)
  PROVE  OpensInd'
<1>1. PICK j : j = job[p][s]
  OBVIOUS
<1>2. PICK i : i = Head(j.todo)
  OBVIOUS
<1>3. PICK k : k = [at |-> "walk", todo |-> Tail(j.todo)]
  OBVIOUS
<1>4. /\ j.at = "keep" /\ session' = [session EXCEPT ![p] = j.next] /\ WasRaced(p, j.base)
      /\ opened' = [opened EXCEPT ![p] = @ \cup {i}] /\ Becomes(p, s, k)
      /\ UNCHANGED <<log, garbled, begun>>
  BY <1>1, <1>2, <1>3 DEF Keep, server
<1>5. ~Holding(k) /\ ~Posting(k)
  BY <1>3, LoadingQuiet
<1>6. Works(p, j) /\ JobOK(p, j)
  BY <1>1 DEF OpensInd, WorksOK, TypedInd, JobsOK
<1>7. Opens(p, j) /\ SessionIn(j.next, p) /\ j.next # None /\ j.todo # <<>>
  <2>1. SessionIn(j.next, p) /\ j.todo # <<>>
    BY <1>4, <1>6 DEF JobOK, Holding, SessionOK
  <2> QED BY <1>4, <1>6, <2>1, SessionIsNotNone DEF Works
<1>8. i \in DOMAIN log /\ log[i].from # p
  BY <1>1, <1>2, <1>4, <1>7, HeadIs
<1>9. LogAlike
  BY <1>4 DEF LogAlike, Alike
<1>10. WorksOK'
  <2>1. Works(p, k)'
    BY <1>5, NoWork
  <2> QED BY <1>4, <1>9, <2>1, WorkBecomes DEF OpensInd
<1>11. /\ job'[p][s] = k
       /\ \A q \in Person : \A t \in Slots[q] : q # p \/ t # s => job'[q][t] = job[q][t]
  BY <1>4, JobBecomes DEF TypedInd
<1>12. /\ session'[p] = j.next /\ \A q \in Person : q # p => session'[q] = session[q]
       /\ opened'[p] = opened[p] \cup {i} /\ \A q \in Person : q # p => opened'[q] = opened[q]
  BY <1>4 DEF TypedInd, SessionsOK, WhereOK
<1>13. Peer(p) \in Person /\ Peer(p) # p /\ Peer(Peer(p)) = p
  BY PeerIsOther
<1>14. ASSUME "session" \notin raced', begun <= 1
       PROVE  (\A q \in Person : garbled[q] = {}) /\ (Unbegun \/ Between)'
  <2>1. session[p] = j.base /\ "session" \notin raced /\ KeysOK
    BY <1>4, <1>14 DEF WasRaced
  <2>2. (\A q \in Person : garbled[q] = {}) /\ (Unbegun \/ Between)
    BY <1>14, <2>1 DEF OpensInd, OpensOK
  <2>3. Between
    BY <1>8, <2>2 DEF Unbegun
  <2> DEFINE b == Base(p, log[i], j)
  <2>4. (j.base = None => log[i].prekey \in PrekeyT) /\ OpensIt(b, log[i], j)
    BY <1>2, <1>7 DEF Opens
  <2>5. IF session[p] # None THEN b = session[p]
        ELSE log[i].prekey \in PrekeyT /\ b = StartReceiving(Secret(log[i].prekey.ephemeral, log[i].prekey.otk), p)
    BY <2>1, <2>4 DEF Base
  <2> HIDE DEF b
  <2>6. PICK pair \in PairT : LET r == RatchetDecrypt(b, log[i].header, log[i].key, pair)
                              IN  b.self[2] < pair[2] /\ r.ok /\ j.next = r.next
    BY <2>4 DEF OpensIt
  <2>7. i \notin opened[p]
    BY <1>8, <2>1, <2>5, <2>6, KeepsNew
  <2>8. LET r == RatchetDecrypt(b, log[i].header, log[i].key, pair)
        IN  r = Gap \/ (r.ok /\ Answers(Reading(p), Reading(Peer(p)), r.next, {log[i].key}))
    BY <1>8, <2>3, <2>5, <2>6, <2>7, OpensComing
  <2>9. Answers(Reading(p), Reading(Peer(p)), j.next, {log[i].key})
    <3>1. ~Gap.ok
      BY DEF Gap
    <3> QED BY <2>6, <2>8, <3>1
  <2>10. PICK t : t = j.next
    OBVIOUS
  <2>11. PICK K : K = {log[i].key}
    OBVIOUS
  <2>12. Answers(Reading(p), Reading(Peer(p)), t, K) /\ t # None /\ session'[p] = t
    BY <1>7, <1>12, <2>9, <2>10, <2>11
  <2>13. \A q \in Person : \A u \in Slots[q] : job'[q][u].at = "put" => job'[q][u].base # None
    BY <1>5, <1>11, <2>3 DEF Between, Holding
  <2>14. /\ \A l : Coming(p, l)' =>
               \/ \E h \in (DOMAIN log) \ opened'[p] : l = log[h] /\ log[h].from # p
               \/ \E u \in Slots[Peer(p)] : Posting(job[Peer(p)][u]) /\ l = job[Peer(p)][u]
         /\ \A l : Coming(Peer(p), l)' =>
               \/ \E h \in (DOMAIN log) \ opened'[Peer(p)] : l = log[h] /\ log[h].from # Peer(p)
               \/ Posting(k) /\ l = k
               \/ \E u \in Slots[p] \ {s} : Posting(job[p][u]) /\ l = job[p][u]
    BY <1>4, ComingGoesOn
  <2>15. ASSUME NEW l, Coming(p, l)' PROVE Coming(p, l) /\ l.key \notin K
    <3>1. ASSUME NEW h \in (DOMAIN log) \ opened'[p], l = log[h], log[h].from # p
          PROVE  Coming(p, l) /\ l.key \notin K
      <4>1. h \notin opened[p] /\ h # i
        BY <1>12, <3>1
      <4>2. log[h].key # log[i].key
        BY <1>8, <2>1, <4>1 DEF KeysOK, ChainsOK, UsedOnce
      <4> QED BY <2>11, <3>1, <4>1, <4>2 DEF Coming
    <3>2. ASSUME NEW u \in Slots[Peer(p)], Posting(job[Peer(p)][u]), l = job[Peer(p)][u]
          PROVE  Coming(p, l) /\ l.key \notin K
      <4>1. l.key # log[i].key
        BY <1>8, <1>13, <2>1, <3>2 DEF KeysOK, ChainsOK, UsedOnce
      <4> QED BY <2>11, <3>2, <4>1 DEF Coming
    <3> QED BY <2>14, <2>15, <3>1, <3>2
  <2>16. ASSUME NEW l, Coming(Peer(p), l)' PROVE Coming(Peer(p), l)
    BY <1>5, <1>12, <1>13, <2>14, <2>16 DEF Coming
  <2>17. Between'
    BY <1>4, <1>12, <2>3, <2>12, <2>13, <2>15, <2>16, BetweenGoesOn
  <2> QED BY <2>2, <2>17
<1> QED BY <1>4, <1>10, <1>14 DEF OpensInd, OpensOK

\* The whole invariant.
AllInd == MessengerInd /\ OpensInd

\* Every step keeps what is coming within reach ...
LEMMA OpensStep ==
  ASSUME TypedInd, TypedInd', "session" \notin raced => KeysOK, OpensInd, [Next]_vars
  PROVE  OpensInd'
<1>1. CASE RegisterWrites
  <2>1. Quiet
    BY <1>1 DEF RegisterWrites, database, page, Quiet
  <2>2. UNCHANGED <<log, begun, garbled>> /\ ("session" \in raced => "session" \in raced')
    BY <1>1 DEF RegisterWrites
  <2>3. Calm
    BY <2>1, <2>2 DEF Calm, LogAlike, Alike
  <2> QED BY <2>2, <2>3, CalmOpens
<1>2. ASSUME NEW p \in Person,
             \/ \E c \in Conv : Select(p, c)
             \/ Trust(p) \/ Verify(p) \/ Reload(p) \/ SendClick(p) \/ RegisterReads(p)
      PROVE  OpensInd'
  <2>1. Calm /\ raced' = raced
    BY <1>2, ClicksCalm
  <2> QED BY <2>1, CalmOpens
<1>3. ASSUME NEW p \in Person, NEW s \in Slots[p],
             Bundles(p, s) \/ SendFails(p, s) \/ Fetched(p, s) \/ Loaded(p, s) \/ LoadFails(p, s)
      PROVE  OpensInd'
  <2>1. Calm /\ raced' = raced
    BY <1>3, WaitsCalm
  <2> QED BY <2>1, CalmOpens
<1>4. ASSUME NEW p \in Person, NEW s \in Slots[p],
             Seal(p, s) \/ Open(p, s) \/ PutSession(p, s) \/ Post(p, s) \/ Keep(p, s)
      PROVE  OpensInd'
  BY <1>4, SealOpens, OpenOpens, PutOpens, PostOpens, KeepOpens
<1>5. CASE UNCHANGED vars
  <2>1. Quiet /\ UNCHANGED <<log, begun, garbled, raced>>
    BY <1>5 DEF vars, database, page, server, history, Quiet
  <2>2. Calm
    BY <2>1 DEF Calm, LogAlike, Alike
  <2> QED BY <2>1, <2>2, CalmOpens
<1> QED BY <1>1, <1>2, <1>3, <1>4, <1>5 DEF Next

\* ... when nothing has begun at first.
LEMMA OpensStart == ASSUME Init PROVE OpensInd
<1>1. /\ log = <<>> /\ begun = 0 /\ \A p \in Person : session[p] = None /\ garbled[p] = {}
      /\ \A p \in Person : \A s \in Slots[p] : job[p][s] = Idle
  BY DEF Init
<1>2. Idle.at = "idle"
  BY DEF Idle
<1>3. WorksOK
  BY <1>1, <1>2 DEF WorksOK, Works
<1>4. Unbegun
  BY <1>1, <1>2 DEF Unbegun, Posting
<1> QED BY <1>1, <1>3, <1>4 DEF OpensInd, OpensOK

\* The whole inductive invariant holds at first,
LEMMA AllStart == ASSUME Init PROVE AllInd
BY MessengerStart, OpensStart DEF AllInd

\* after every step,
LEMMA AllStep == ASSUME AllInd, [Next]_vars PROVE AllInd'
<1>1. MessengerInd'
  BY MessengerStep DEF AllInd
<1>2. OpensInd'
  BY <1>1, OpensStep DEF AllInd, MessengerInd
<1> QED BY <1>1, <1>2 DEF AllInd

\* and says all that is checked.
LEMMA AllFollows == ASSUME AllInd PROVE MessengerInv
<1>1. TypeOK /\ PrekeysOnce /\ KeysUsedOnce /\ OpenedIsForgotten
  BY MessengerFollows DEF AllInd
<1>2. OpensAtFirst
  BY DEF AllInd, OpensInd, OpensOK, OpensAtFirst
<1> QED BY <1>1, <1>2 DEF MessengerInv


\* It holds in Correspondence, whose other steps leave the messenger alone.
LEMMA MessengerAlways == CorrespondenceSpec => []AllInd
<1>1. CorrespondenceInit => AllInd
  BY AllStart DEF CorrespondenceInit
<1>2. AllInd /\ [CorrespondenceNext]_correspondenceVars => AllInd'
  <2>1. [CorrespondenceNext]_correspondenceVars => [Next]_vars
    BY DEF CorrespondenceNext, correspondenceVars, Messages, Agency
  <2> QED BY <2>1, AllStep
<1> QED BY <1>1, <1>2, PTL DEF CorrespondenceSpec

\* Messages open in any order, unless both devices begin a session of their own or
\* one is written over another it had not seen; each key seals one message, what is
\* opened is forgotten, and a one-time prekey goes out once (signal.js,
\* interaction.js, messenger.cljk).
THEOREM MessagesOpen == CorrespondenceSpec => []MessengerInv
<1>1. AllInd => MessengerInv
  BY AllFollows
<1> QED BY <1>1, MessengerAlways, PTL
=============================================================================
