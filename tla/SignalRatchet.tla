---------------------------- MODULE SignalRatchet ----------------------------
(***************************************************************************)
(* The key agreement and the double ratchet of signal.js, as operators on  *)
(* the session one device keeps for one other device.  A key is named by   *)
(* what it is derived from, so two keys are equal exactly when the browser *)
(* would derive the same bytes: a private key is <<device, number>>, a     *)
(* Diffie-Hellman output the set of the two keys, a root or a chain the    *)
(* sequence of what was mixed into it, and the key of the n-th message of  *)
(* a chain [chain, n].                                                     *)
(***************************************************************************)
EXTENDS Integers, Sequences, FiniteSets

CONSTANT MaxSkip     \* MAX_SKIP: the gap a receiver accepts

ASSUME RatchetAssumption == MaxSkip \in Nat

None == [none |-> TRUE]      \* no session, no prekey header
NoKey == <<>>
NoChain == <<>>
Signed(p) == <<p, 0>>        \* the signed prekey of a device
DH(x, y) == {x, y}
KdfRK(root, output) == Append(root, output)
KdfCK(chain, n) == [chain |-> chain, n |-> n]

\* x3dhSender and x3dhReceiver agree on this secret; `otk` is 0 without a
\* one-time prekey.
Secret(ephemeral, otk) == << <<ephemeral, otk>> >>

\* encryptPacket: the session of the device that writes first.
StartSending(secret, pair, peer) ==
  LET chain == KdfRK(secret, DH(pair, Signed(peer)))
  IN  [root |-> chain, sends |-> chain, recvs |-> NoChain, self |-> pair,
       peer |-> Signed(peer), ns |-> 0, nr |-> 0, pn |-> 0, skipped |-> {}]

\* decryptPacket: the session of the device that is written to.
StartReceiving(secret, p) ==
  [root |-> secret, sends |-> NoChain, recvs |-> NoChain, self |-> Signed(p),
   peer |-> NoKey, ns |-> 0, nr |-> 0, pn |-> 0, skipped |-> {}]

\* ratchetEncrypt: the header and key of the next message, and what is left.
RatchetEncrypt(s) ==
  [header |-> [dh |-> s.self, pn |-> s.pn, n |-> s.ns],
   key |-> KdfCK(s.sends, s.ns),
   next |-> [s EXCEPT !.ns = @ + 1]]

TooFar(s, until) == until - s.nr > MaxSkip

\* skipKeys: the keys of the messages that have not come yet are kept.
SkipKeys(s, until) ==
  IF s.recvs = NoChain \/ until <= s.nr THEN s
  ELSE [s EXCEPT !.nr = until,
                 !.skipped = @ \cup {[dh |-> s.peer, n |-> k, key |-> KdfCK(s.recvs, k)] :
                                       k \in s.nr .. until - 1}]

\* dhRatchet: the other side has moved to a new key.
DhRatchet(s, header, pair) ==
  LET old   == SkipKeys(s, header.pn)
      recvs == KdfRK(old.root, DH(old.self, header.dh))
      sends == KdfRK(recvs, DH(pair, header.dh))
  IN  [old EXCEPT !.pn = old.ns, !.ns = 0, !.nr = 0, !.peer = header.dh,
                  !.recvs = recvs, !.self = pair, !.root = sends, !.sends = sends]

Fails == [ok |-> FALSE, gap |-> FALSE]
Gap   == [ok |-> FALSE, gap |-> TRUE]

Kept(s, header) == {k \in s.skipped : k.dh = header.dh /\ k.n = header.n}

\* ratchetDecrypt of a message whose key was kept.
FromKept(s, header, key) ==
  IF \E k \in Kept(s, header) : k.key = key
  THEN [ok |-> TRUE, next |-> [s EXCEPT !.skipped = @ \ Kept(s, header)]] ELSE Fails

\* ratchetDecrypt from the chain: opened only if it arrives at the same key.
FromChain(s, header, key) ==
  LET at == SkipKeys(s, header.n)
  IN  IF TooFar(s, header.n) THEN Gap
      ELSE IF KdfCK(at.recvs, at.nr) = key
           THEN [ok |-> TRUE, next |-> [at EXCEPT !.nr = @ + 1]] ELSE Fails

\* ratchetDecrypt; `pair` is the key a ratchet step would generate.
RatchetDecrypt(s, header, key, pair) ==
  IF Kept(s, header) # {} THEN FromKept(s, header, key)
  ELSE IF s.peer = header.dh THEN FromChain(s, header, key)
  ELSE IF TooFar(s, header.pn) THEN Gap
  ELSE FromChain(DhRatchet(s, header, pair), header, key)

\* The keys a session still leads to.
Leads(s, key) ==
  \/ \E k \in s.skipped : k.key = key
  \/ key.chain = s.recvs /\ key.n >= s.nr
==============================================================================
