------------------------------ MODULE Messenger ------------------------------
(***************************************************************************)
(* Two people write to each other in the sealed conversations of the       *)
(* messenger page.  Each has one browser with a database for its keys; the *)
(* page runs loads and sends at the same time, and every one of them reads *)
(* the session, works on its copy and writes it back.  The server keeps    *)
(* the prekeys, the messages and who may write into which mailbox.         *)
(***************************************************************************)
EXTENDS SignalRatchet

CONSTANTS
  Person,       \* two people, one device each
  Conv,         \* their conversations
  Groups,       \* the ones that are not direct
  Slots,        \* bound: loads and sends at a time on each page
  Known,        \* people who surely have verified and admitted the other one
  MaxPrekeys,   \* bound: one-time prekeys of a device
  MaxRegisters, \* bound: registrations that take their time
  MaxClicks,    \* bound: clicks on both pages
  MaxSends      \* bound: messages submitted

ASSUME MessengerAssumption ==
  /\ Conv # {} /\ Groups \subseteq Conv
  /\ Known \subseteq Person /\ \E x, y \in Person : x # y /\ Person = {x, y}
  /\ Slots \in [Person -> SUBSET Nat]
  /\ MaxPrekeys \in Nat /\ MaxRegisters \in Nat /\ MaxClicks \in Nat /\ MaxSends \in Nat

VARIABLES
  session,      \* IndexedDB: the session with the other device, None at first
  oneTime,      \* IndexedDB: one-time prekeys whose private half is left
  groupCounter, \* IndexedDB: the next message of the own sender key
  verified,     \* IndexedDB: the other device's fingerprint was compared
  generated,    \* keys generated by a device so far
  selected,     \* selectedMessengerConversation
  canSend,      \* the submit button is enabled
  job,          \* what each page is doing
  offered,      \* server: one-time prekeys not consumed
  consumed,     \* server: the ids it remembers as consumed
  registering,  \* server: a registration between its read and its write, None or one
  registered,   \* registrations so far
  log,          \* server: the messages in their order
  admits,       \* server: the mailbox accepts messages of the other person
  clicks, sends,  \* clicks and submitted messages so far
  handedOut,    \* how often each one-time prekey was handed out
  opened,       \* messages opened on a device, by their place in the log
  garbled,      \* messages a session could not open the first time
  begun,        \* sessions begun by writing
  raced         \* what was overwritten by a write that had not seen it

database == <<session, oneTime, groupCounter, verified, generated>>
page     == <<selected, canSend, job>>
server   == <<offered, consumed, registering, registered, log, admits>>
history  == <<clicks, sends, handedOut, opened, garbled, begun, raced>>
vars     == <<database, page, server, history>>

Peer(p) == CHOOSE q \in Person : q # p
FirstConv == CHOOSE c \in Conv : TRUE
Prekeys == 1 .. MaxPrekeys
Idle == [at |-> "idle"]
Loading(c) == [at |-> "fetch", conv |-> c]
Becomes(p, s, j) == job' = [job EXCEPT ![p][s] = j]
Working(p) == {s \in Slots[p] : job[p][s].at # "idle"}

\* The slot a new load or send of the page takes.
Free(p) == {s \in Slots[p] \ Working(p) : \A t \in Slots[p] \ Working(p) : s <= t}

Clicked == clicks < MaxClicks /\ clicks' = clicks + 1

\* renderMessenger ends in loadMessengerMessages of what is selected.
StartLoad(p, c) == \E s \in Free(p) : Becomes(p, s, Loading(c))

---------------------------------------------------------------------------
(* The server: messenger.cljk.                                             *)

\* register-device!: what was consumed is read from a snapshot ...
RegisterReads(p) ==
  /\ registering = None /\ Working(p) # {} /\ registered < MaxRegisters
  /\ registered' = registered + 1
  /\ registering' = [of |-> p, submitted |-> oneTime[p], consumed |-> consumed[p]]
  /\ UNCHANGED <<database, page, offered, consumed, log, admits, history>>

\* ... and the device is written with what is left of the submitted prekeys.
RegisterWrites ==
  /\ registering # None
  /\ LET p == registering.of
     IN  /\ offered' = [offered EXCEPT ![p] = registering.submitted \ registering.consumed]
         /\ raced' = IF consumed[p] # registering.consumed
                     THEN raced \cup {"registration"} ELSE raced
         /\ consumed' = [consumed EXCEPT ![p] = registering.consumed]
  /\ registering' = None
  /\ UNCHANGED <<database, page, registered, log, admits, clicks, sends, handedOut, opened, garbled, begun>>

\* consume-prekey-bundles!: at most one prekey of the device, at once.
Consume(q, otk) ==
  /\ otk = IF offered[q] = {} THEN 0 ELSE CHOOSE k \in offered[q] : \A l \in offered[q] : k <= l
  /\ offered' = [offered EXCEPT ![q] = @ \ {otk}]
  /\ consumed' = [consumed EXCEPT ![q] = @ \cup ({otk} \cap Prekeys)]
  /\ handedOut' = [handedOut EXCEPT ![q] = [k \in Prekeys |-> IF k = otk THEN @[k] + 1 ELSE @[k]]]

Message(p, c, j) ==
  [from |-> p, at |-> c, conv |-> j.conv, prekey |-> j.prekey, header |-> j.header,
   key |-> j.key, number |-> j.number,
   status |-> IF admits[Peer(p)] THEN "accepted" ELSE "quarantined"]

\* messages: what the other person wrote and this mailbox has accepted.
Visible(p, c) ==
  {i \in DOMAIN log : log[i].at = c /\ log[i].from # p /\ log[i].status = "accepted"}

---------------------------------------------------------------------------
(* Clicks.                                                                 *)

\* A conversation is chosen in the list.
Select(p, c) ==
  /\ Clicked
  /\ selected' = [selected EXCEPT ![p] = c]
  /\ StartLoad(p, c)
  /\ UNCHANGED <<database, canSend, server, sends, handedOut, opened, garbled, begun, raced>>

\* The trust button: allowing also admits what was quarantined; the page is
\* loaded again.
Trust(p) ==
  /\ Clicked
  /\ admits' = [admits EXCEPT ![p] = ~@]
  /\ log' = IF admits[p] THEN log
            ELSE [i \in DOMAIN log |-> IF log[i].from = p THEN log[i]
                                       ELSE [log[i] EXCEPT !.status = "accepted"]]
  /\ StartLoad(p, selected[p])
  /\ UNCHANGED <<database, selected, canSend, offered, consumed, registering, registered, sends,
                 handedOut, opened, garbled, begun, raced>>

\* verifyPrincipal: the fingerprint is stored and an older session forgotten.
Verify(p) ==
  /\ Clicked /\ ~verified[p]
  /\ verified' = [verified EXCEPT ![p] = TRUE]
  /\ session' = [session EXCEPT ![p] = None]
  /\ UNCHANGED <<oneTime, groupCounter, generated, page, server, sends, handedOut,
                 opened, garbled, begun, raced>>

\* The page is loaded afresh: what it was doing is gone, the database stays.
Reload(p) ==
  /\ Clicked
  /\ selected' = [selected EXCEPT ![p] = FirstConv]
  /\ canSend' = [canSend EXCEPT ![p] = FALSE]
  /\ job' = [job EXCEPT ![p] = [s \in Slots[p] |->
                                 IF \E t \in Slots[p] : t < s THEN Idle ELSE Loading(FirstConv)]]
  /\ UNCHANGED <<database, server, sends, handedOut, opened, garbled, begun, raced>>

\* Submitting the form in the signal-v1 mode.
SendClick(p) ==
  /\ canSend[p] /\ sends < MaxSends /\ sends' = sends + 1
  /\ canSend' = [canSend EXCEPT ![p] = FALSE]
  /\ \E s \in Free(p) :
       Becomes(p, s, [at |-> "bundles", conv |-> selected[p],
                      number |-> IF selected[p] \in Groups THEN groupCounter[p] ELSE -1])
  /\ UNCHANGED <<database, selected, server, clicks, handedOut, opened, garbled, begun, raced>>

---------------------------------------------------------------------------
(* Sending.                                                                *)

Fresh(p, k) == <<p, generated[p] + k>>

\* bundlesFor: a bundle is asked for only when there is no session.
Bundles(p, s) ==
  /\ job[p][s].at = "bundles" /\ verified[p]
  /\ \E otk \in 0 .. MaxPrekeys :
       /\ IF session[p] = None THEN Consume(Peer(p), otk)
          ELSE otk = 0 /\ UNCHANGED <<offered, consumed, handedOut>>
       /\ Becomes(p, s, [at |-> "seal", conv |-> job[p][s].conv,
                         number |-> job[p][s].number, otk |-> otk])
  /\ UNCHANGED <<database, selected, canSend, registering, registered, log, admits, clicks, sends,
                 opened, garbled, begun, raced>>

Sealed(j, base, prekey, s) ==
  LET r == RatchetEncrypt(s)
  IN  [at |-> "put", conv |-> j.conv, number |-> j.number, base |-> base, next |-> r.next,
       prekey |-> prekey, header |-> r.header, key |-> r.key]

\* encryptPacket, from reading the session to the sealed packet.
Seal(p, s) ==
  LET j   == job[p][s]
      eph == Fresh(p, 1)
  IN  /\ j.at = "seal"
      /\ IF session[p] # None
         THEN /\ Becomes(p, s, Sealed(j, session[p], None, session[p]))
              /\ UNCHANGED <<generated, begun>>
         ELSE /\ Becomes(p, s, Sealed(j, None, [ephemeral |-> eph, otk |-> j.otk],
                                StartSending(Secret(eph, j.otk), Fresh(p, 2), Peer(p))))
              /\ generated' = [generated EXCEPT ![p] = @ + 2]
              /\ begun' = begun + 1
      /\ UNCHANGED <<session, oneTime, groupCounter, verified, selected, canSend, server,
                     clicks, sends, handedOut, opened, garbled, raced>>

WasRaced(p, base) == raced' = IF session[p] # base THEN raced \cup {"session"} ELSE raced

\* Mutant: the packet leaves before the session that made it is written.
PutSession_Never(p, s) ==
  /\ job[p][s].at = "put"
  /\ Becomes(p, s, [job[p][s] EXCEPT !.at = "post"])
  /\ UNCHANGED <<database, selected, canSend, server, history>>

\* encryptGroup writes the next counter of its sender key.
PutGroup(p, j) ==
  groupCounter' = IF j.conv \in Groups THEN [groupCounter EXCEPT ![p] = j.number + 1]
                  ELSE groupCounter

\* encryptPacket writes the session before the packet leaves.
PutSession(p, s) ==
  LET j == job[p][s]
  IN  /\ j.at = "put"
      /\ session' = [session EXCEPT ![p] = j.next]
      /\ PutGroup(p, j)
      /\ WasRaced(p, j.base)
      /\ Becomes(p, s, [at |-> "post", conv |-> j.conv, number |-> j.number,
                        prekey |-> j.prekey, header |-> j.header, key |-> j.key])
      /\ UNCHANGED <<oneTime, verified, generated, selected, canSend, server,
                     clicks, sends, handedOut, opened, garbled, begun>>

\* The envelope goes to the conversation selected by now; the page loads again.
Post(p, s) ==
  /\ job[p][s].at = "post"
  /\ log' = Append(log, Message(p, selected[p], job[p][s]))
  /\ canSend' = [canSend EXCEPT ![p] = TRUE]
  /\ Becomes(p, s, Loading(selected[p]))
  /\ UNCHANGED <<database, selected, offered, consumed, registering, registered, admits, history>>

\* A request of the send fails, or the other device is not verified.
SendFails(p, s) ==
  /\ job[p][s].at \in {"bundles", "post"}
  /\ canSend' = [canSend EXCEPT ![p] = TRUE]
  /\ Becomes(p, s, Idle)
  /\ UNCHANGED <<database, selected, server, history>>

---------------------------------------------------------------------------
(* Reading.                                                                *)

InOrder(ids) == CHOOSE f \in [1 .. Cardinality(ids) -> ids] :
                  \A i, k \in DOMAIN f : i < k => f[i] < f[k]

\* loadMessengerMessages: the answer to the list of messages.
Fetched(p, s) ==
  /\ job[p][s].at = "fetch"
  /\ Becomes(p, s, [at |-> "walk", todo |-> InOrder(Visible(p, job[p][s].conv))])
  /\ UNCHANGED <<database, selected, canSend, server, history>>

\* decryptEnvelope and decryptPacket refuse before any key is touched.
Refused(p, m) ==
  \/ m.conv # selected[p]
  \/ /\ session[p] = None
     /\ \/ m.prekey = None
        \/ ~verified[p]
        \/ m.prekey.otk \notin oneTime[p] \cup {0}

\* The session a packet is tried with.
SessionFor(p, m) ==
  IF session[p] # None THEN session[p]
  ELSE StartReceiving(Secret(m.prekey.ephemeral, m.prekey.otk), p)

\* One message of the list: the session is read and the packet opened, which
\* uses up the one-time prekey and leaves the session to be written.
Open(p, s) ==
  LET j == job[p][s]
      i == Head(j.todo)
      m == log[i]
      r == RatchetDecrypt(SessionFor(p, m), m.header, m.key, Fresh(p, 1))
  IN  /\ j.at = "walk" /\ j.todo # <<>>
      /\ IF Refused(p, m) \/ ~r.ok
         THEN /\ Becomes(p, s, [j EXCEPT !.todo = Tail(@)])
              /\ garbled' = IF ~Refused(p, m) /\ ~r.gap /\ i \notin opened[p]
                            THEN [garbled EXCEPT ![p] = @ \cup {i}] ELSE garbled
              /\ UNCHANGED <<generated, oneTime>>
         ELSE /\ Becomes(p, s, [at |-> "keep", todo |-> j.todo, base |-> session[p], next |-> r.next])
              /\ oneTime' = IF session[p] = None
                            THEN [oneTime EXCEPT ![p] = @ \ {m.prekey.otk}] ELSE oneTime
              /\ generated' = [generated EXCEPT ![p] = IF r.next.self = Fresh(p, 1) THEN @ + 1 ELSE @]
              /\ UNCHANGED garbled
      /\ UNCHANGED <<session, groupCounter, verified, selected, canSend, server,
                     clicks, sends, handedOut, opened, begun, raced>>

\* decryptPacket writes the session; the text is on the page.
Keep(p, s) ==
  LET j == job[p][s]
  IN  /\ j.at = "keep"
      /\ session' = [session EXCEPT ![p] = j.next]
      /\ WasRaced(p, j.base)
      /\ opened' = [opened EXCEPT ![p] = @ \cup {Head(j.todo)}]
      /\ Becomes(p, s, [at |-> "walk", todo |-> Tail(j.todo)])
      /\ UNCHANGED <<oneTime, groupCounter, verified, generated, selected, canSend, server,
                     clicks, sends, handedOut, garbled, begun>>

\* The list is complete: writing is possible.
Loaded(p, s) ==
  /\ job[p][s].at = "walk" /\ job[p][s].todo = <<>>
  /\ canSend' = [canSend EXCEPT ![p] = TRUE]
  /\ Becomes(p, s, Idle)
  /\ UNCHANGED <<database, selected, server, history>>

\* The list cannot be read: the form is disabled.
LoadFails(p, s) ==
  /\ job[p][s].at = "fetch"
  /\ canSend' = [canSend EXCEPT ![p] = FALSE]
  /\ Becomes(p, s, Idle)
  /\ UNCHANGED <<database, selected, server, history>>

---------------------------------------------------------------------------

Init ==
  /\ session = [p \in Person |-> None]
  /\ oneTime = [p \in Person |-> Prekeys]
  /\ groupCounter = [p \in Person |-> 0]
  /\ verified \in {v \in [Person -> BOOLEAN] : \A p \in Known : v[p]}
  /\ generated = [p \in Person |-> 0]
  /\ selected = [p \in Person |-> FirstConv]
  /\ canSend = [p \in Person |-> TRUE]
  /\ job = [p \in Person |-> [s \in Slots[p] |-> Idle]]
  /\ offered = oneTime
  /\ consumed = [p \in Person |-> {}]
  /\ registering = None /\ registered = 0
  /\ log = <<>>
  /\ admits \in {v \in [Person -> BOOLEAN] : \A p \in Known : v[p]}
  /\ clicks = 0 /\ sends = 0
  /\ handedOut = [p \in Person |-> [k \in Prekeys |-> 0]]
  /\ opened = [p \in Person |-> {}] /\ garbled = opened
  /\ begun = 0 /\ raced = {}

Next == RegisterWrites \/ \E p \in Person :
  \/ \E c \in Conv : Select(p, c)
  \/ Trust(p) \/ Verify(p) \/ Reload(p) \/ SendClick(p)
  \/ RegisterReads(p)
  \/ \E s \in Slots[p] :
       \/ Bundles(p, s) \/ Seal(p, s) \/ PutSession(p, s) \/ Post(p, s)
       \/ SendFails(p, s)
       \/ Fetched(p, s) \/ Open(p, s) \/ Keep(p, s) \/ Loaded(p, s) \/ LoadFails(p, s)

Spec == Init /\ [][Next]_vars

---------------------------------------------------------------------------
(* Properties.                                                             *)

\* Types and bounds; the messages a page walks through are only ones its
\* mailbox has accepted, so nothing quarantined is opened.
TypeOK ==
  /\ offered \in [Person -> SUBSET Prekeys] /\ consumed \in [Person -> SUBSET Prekeys]
  /\ oneTime \in [Person -> SUBSET Prekeys]
  /\ selected \in [Person -> Conv] /\ canSend \in [Person -> BOOLEAN]
  /\ clicks <= MaxClicks /\ sends <= MaxSends /\ Len(log) <= sends
  /\ \A p \in Person : \A s \in Slots[p] : job[p][s].at \in {"walk", "keep"} =>
       \A i \in DOMAIN job[p][s].todo : log[job[p][s].todo[i]].status = "accepted"

\* A message that a session cannot open although it was never opened before
\* means that both devices began a session of their own, or that a session was
\* written over one it had not seen: order, gaps and turns are no reason.
OpensAtFirst ==
  (begun <= 1 /\ "session" \notin raced) => \A p \in Person : garbled[p] = {}

\* Once a message is opened, nothing left in the database leads to its key,
\* unless a write brought an older session back.
OpenedIsForgotten ==
  "session" \notin raced =>
    \A p \in Person : session[p] # None =>
      \A i \in opened[p] : ~Leads(session[p], log[i].key)

\* No two messages are sealed under the same key, a crash between the sealing
\* and the sending included, unless a session was overwritten.
KeysUsedOnce ==
  "session" \notin raced =>
    \A i, k \in DOMAIN log : i # k => log[i].key # log[k].key

\* A one-time prekey is handed out twice only if a registration wrote back
\* what it had read before.
PrekeysOnce ==
  "registration" \notin raced =>
    \A p \in Person, k \in Prekeys : handedOut[p][k] <= 1

\* Messages open in any order, each key seals one message and is then gone.
MessengerInv ==
  TypeOK /\ OpensAtFirst /\ OpenedIsForgotten /\ KeysUsedOnce /\ PrekeysOnce
==============================================================================
