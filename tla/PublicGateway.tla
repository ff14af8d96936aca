--------------------------- MODULE PublicGateway ---------------------------
(***************************************************************************)
(* server.mjs of awai-public-gateway: the slots, the token buckets and the *)
(* proxying of the public gateway.  A caller is a route and the one who    *)
(* calls it, 0 for a visitor who is not the page of AwaiLauncher.          *)
(***************************************************************************)
EXTENDS Naturals, Sequences, SequencesExt, FiniteSets, FiniteSetsExt

CONSTANTS
  Caller,       \* <<route, who>>
  Slots,        \* MAX_ACTIVE_REQUESTS
  MaxEntries,   \* maximumEntries of the limiter
  Capacity,     \* tokens of a full bucket
  Unit, Refill, \* a token in units, and the units of one tick
  MaxNow        \* bound: ticks of the clock

ASSUME GatewayAssumption ==
  /\ Slots \in Nat \ {0} /\ MaxEntries \in Nat \ {0} /\ Capacity \in Nat \ {0}
  /\ Unit \in Nat \ {0} /\ Refill \in Nat /\ MaxNow \in Nat

VARIABLES
  active,       \* activeRequests
  conn,         \* how far the request of a caller has come
  verdict,      \* what the caller gets
  buckets,      \* the limiter's map, in the order of insertion
  now

gateway == <<active, conn, verdict, buckets, now>>

Phase   == {"none", "proxying", "reading", "aborted"}
Verdict == {"none", "ok", "refused", "lost"}
Target  == {"launcher", "registry", "proof", "plan", "unknown"}

\* A request as authorizeRequest looks at it.
Request == [ourHost : BOOLEAN, plain : BOOLEAN, target : Target,
            origin : {"none", "same", "foreign"}, query : {"none", "domain", "bad"}]
NeedsDomain == {"proof", "plan"}

\* What the page sends.
Ours(route) == [ourHost |-> TRUE, plain |-> TRUE, target |-> route,
                origin |-> IF route = "plan" THEN "same" ELSE "none",
                query |-> IF route \in NeedsDomain THEN "domain" ELSE "none"]

\* authorizeRequest: one certified host, no body, upgrade or expectation, a
\* public route, a POST of this origin, one canonical domain where one is asked.
Authorized(r) ==
  /\ r.ourHost /\ r.plain /\ r.target # "unknown"
  /\ r.origin # "foreign" /\ (r.target = "plan" => r.origin = "same")
  /\ r.query = IF r.target \in NeedsDomain THEN "domain" ELSE "none"

GatewayInit ==
  /\ active = 0
  /\ conn = [c \in Caller |-> "none"]
  /\ verdict = [c \in Caller |-> "none"]
  /\ buckets = <<>> /\ now = 0

(***************************************************************************)
(* createRateLimiter.  `born` and `granted` are for the properties.        *)
(***************************************************************************)

Key(c) == <<c[1], c[2] = 0>>
Level(b) == Min({Capacity * Unit, b.tokens + (now - b.at) * Refill})

\* Mutant: the time of the last refill is not moved.
Consumed_SameTime(b) ==
  [b EXCEPT !.tokens = IF Level(b) >= Unit THEN Level(b) - Unit ELSE 0,
            !.granted = IF Level(b) >= Unit THEN @ + 1 ELSE @]

\* A token is taken if there is one; a refused caller loses the part of a
\* token that had been refilled.
Consumed(b) ==
  [b EXCEPT !.tokens = IF Level(b) >= Unit THEN Level(b) - Unit ELSE 0, !.at = now,
            !.granted = IF Level(b) >= Unit THEN @ + 1 ELSE @]

\* A new key takes the place of the oldest one when the map is full.
Entered(k) ==
  IF \E i \in DOMAIN buckets : buckets[i].key = k THEN buckets
  ELSE Append(IF Len(buckets) >= MaxEntries THEN Tail(buckets) ELSE buckets,
              [key |-> k, tokens |-> Capacity * Unit, at |-> now, born |-> now, granted |-> 0])

Bucket(k) == CHOOSE i \in DOMAIN Entered(k) : Entered(k)[i].key = k

(***************************************************************************)
(* The handler of a request.                                               *)
(***************************************************************************)

Answer(c, v) == verdict' = [verdict EXCEPT ![c] = v]

\* A slot taken for a request that is refused is given back at once.
Refuse(c) ==
  /\ Answer(c, "refused") /\ UNCHANGED <<active, conn>>

\* Up to the first await: the slot, the authorization, the bucket, the
\* upstream request.
Arrive(c, r) ==
  /\ conn[c] = "none" /\ verdict[c] = "none"
  /\ UNCHANGED now
  /\ IF active >= Slots
     THEN Answer(c, "refused") /\ UNCHANGED <<active, conn, buckets>>
     ELSE IF ~Authorized(r) THEN Refuse(c) /\ UNCHANGED buckets
     ELSE LET q == Entered(Key(c))
              i == Bucket(Key(c))
          IN /\ buckets' = [q EXCEPT ![i] = Consumed(@)]
             /\ IF Level(q[i]) < Unit THEN Refuse(c)
                ELSE /\ active' = active + 1
                     /\ conn' = [conn EXCEPT ![c] = "proxying"]
                     /\ UNCHANGED verdict

\* The finally clause, and the answer if there is anybody to get it.
Finish(c, v) ==
  /\ active' = active - 1
  /\ conn' = [conn EXCEPT ![c] = "none"]
  /\ IF conn[c] = "aborted" THEN UNCHANGED verdict ELSE Answer(c, v)
  /\ UNCHANGED <<buckets, now>>

\* The upstream answers with a status or a type that is not let through.
UpstreamRefused(c) == conn[c] = "proxying" /\ Finish(c, "refused")

UpstreamHeaders(c) ==
  /\ conn[c] = "proxying"
  /\ conn' = [conn EXCEPT ![c] = "reading"]
  /\ UNCHANGED <<active, verdict, buckets, now>>

\* The body is read to its end, within its bound or not.
UpstreamEnds(c)     == conn[c] = "reading" /\ Finish(c, "ok")
UpstreamTooLarge(c) == conn[c] = "reading" /\ Finish(c, "refused")

\* The upstream fails, or is silent for UPSTREAM_TIMEOUT_MS.
UpstreamFails(c) == conn[c] \in {"proxying", "reading"} /\ Finish(c, "refused")

\* Mutant: nobody listens to the request being aborted.
CallerLeaves_Unheard(c) ==
  /\ conn[c] \in {"proxying", "reading"}
  /\ Answer(c, "lost")
  /\ UNCHANGED <<active, conn, buckets, now>>

\* The caller gives up, or has been sent nothing for REQUEST_TIMEOUT_MS and is
\* cut off: the request is aborted, which destroys the upstream one.
CallerLeaves(c) ==
  /\ conn[c] \in {"proxying", "reading"}
  /\ conn' = [conn EXCEPT ![c] = "aborted"]
  /\ Answer(c, "lost")
  /\ UNCHANGED <<active, buckets, now>>

\* The destroyed upstream request reports its error.
AbortHeard(c) == conn[c] = "aborted" /\ Finish(c, "lost")

Tick ==
  /\ now < MaxNow
  /\ now' = now + 1
  /\ UNCHANGED <<active, conn, verdict, buckets>>

Serve(c) ==
  \/ UpstreamRefused(c) \/ UpstreamHeaders(c) \/ UpstreamEnds(c) \/ UpstreamTooLarge(c)
  \/ UpstreamFails(c) \/ CallerLeaves(c) \/ AbortHeard(c)

(***************************************************************************)
(* Properties.                                                             *)
(***************************************************************************)

\* Types; a bucket is never above its capacity and the table of buckets never longer
\* than maximumEntries, however many addresses call.
GatewayTypeOK ==
  /\ active \in Nat
  /\ conn \in [Caller -> Phase] /\ verdict \in [Caller -> Verdict]
  /\ \A i \in DOMAIN buckets :
       /\ buckets[i].tokens \in 0..(Capacity * Unit)
       /\ buckets[i].at \in buckets[i].born..now
  /\ Len(buckets) <= MaxEntries

\* The counter is the number of requests the gateway is working on, on every
\* way out of the handler, so no slot is lost for good and none is used twice.
SlotsCounted ==
  /\ active = Cardinality({c \in Caller : conn[c] # "none"})
  /\ active <= Slots

\* A caller whose bucket has not been evicted never gets more than the
\* capacity and what was refilled since, however it times its requests.
AdmittedWithinRate ==
  \A i \in DOMAIN buckets :
    Unit * buckets[i].granted <= Capacity * Unit + (now - buckets[i].born) * Refill

\* The gateway never stays busy: slots come back, though an upstream may send
\* a byte now and then for ever.
SlotsComeBack == []<>(active < Slots)
=============================================================================
