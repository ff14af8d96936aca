------------------------ MODULE AwaiLauncher_proofs ------------------------
(***************************************************************************)
(* Proofs about AwaiLauncher and the PublicGateway it calls: the slots and *)
(* the rate of the gateway, and what the launcher installs and serves.     *)
(***************************************************************************)
EXTENDS AwaiLauncher, FiniteSetTheorems, SequenceTheorems, TLAPS

(***************************************************************************)
(* The inductive invariant.                                                *)
(***************************************************************************)

Held    == {c \in Caller : conn[c] # "none"}
BucketT == [key : {Key(c) : c \in Caller}, tokens : Nat, at : Nat, born : Nat, granted : Nat]

\* What a bucket has given out and still holds is its capacity and the refill
\* up to its last use, at most.
Fair(b) ==
  /\ b.tokens <= Capacity * Unit
  /\ b.born <= b.at /\ b.at <= now
  /\ Unit * b.granted + b.tokens <= Capacity * Unit + (b.at - b.born) * Refill

BucketsOK(q) == q \in Seq(BucketT) /\ Len(q) <= MaxEntries /\ \A i \in 1..Len(q) : Fair(q[i])

SlotsOK ==
  /\ conn \in [Caller -> Phase] /\ verdict \in [Caller -> Verdict]
  /\ IsFiniteSet(Held) /\ active = Cardinality(Held) /\ active <= Slots

GatewayInd == SlotsOK /\ now \in Nat /\ BucketsOK(buckets)

\* On a public domain the page only ever asks what the gateway is there for.
PublicOnly ==
  ~local => \A c \in Caller :
              c[2] # 0 /\ (conn[c] # "none" \/ verdict[c] # "none") => c[1] \in Public

LauncherT ==
  /\ local \in BOOLEAN /\ loads \in 0..MaxLoads /\ cards \in BOOLEAN
  /\ busy \subseteq Button \X (1..MaxLoads)
  /\ planReady \in BOOLEAN /\ installOn \in BOOLEAN /\ staged \in BOOLEAN
  /\ launches \in 0..MaxLaunches /\ frame \in 0..MaxLaunches
  /\ inFlight \in [Ports -> SUBSET OpId] /\ visits \in 0..MaxVisits

Cards ==
  /\ cards => loads # 0
  /\ asked \subseteq busy
  /\ \A c \in busy : c[2] <= loads
  /\ ~local => asked = {} /\ ~installOn

\* A card that stages has a plan, one that installs has staged it.
Asking ==
  \A c \in asked :
    /\ c[1] = "stage" /\ c[2] = loads => planReady
    /\ c[1] = "install" /\ c[2] = loads => planReady /\ staged

PortsOK == open \subseteq Ports /\ PortOfFrame

FlightsOK == \A p \in Ports : IsFiniteSet(inFlight[p]) /\ Cardinality(inFlight[p]) <= MaxOps

LauncherInd == LauncherT /\ Cards /\ Asking /\ InstallOnlyStaged /\ PortsOK /\ FlightsOK

Ind == GatewayInd /\ PublicOnly /\ LauncherInd

(***************************************************************************)
(* The buckets.                                                            *)
(***************************************************************************)

LEMMA Products ==
  /\ Capacity * Unit \in Nat
  /\ \A n \in Nat : Unit * n \in Nat /\ n * Refill \in Nat /\ Unit * (n + 1) = Unit * n + Unit
  /\ \A x, y, z \in Nat : x <= y /\ y <= z =>
       (z - x) * Refill = (y - x) * Refill + (z - y) * Refill
BY GatewayAssumption

LEMMA RefillAdds ==
  ASSUME NEW x \in Nat, NEW y \in Nat, NEW z \in Nat, x <= y, y <= z
  PROVE  (z - x) * Refill = (y - x) * Refill + (z - y) * Refill
BY Products

\* The least of two numbers is one of them, and not above either.
LEMMA LeastOfTwo ==
  ASSUME NEW x \in Nat, NEW y \in Nat
  PROVE  /\ Min({x, y}) \in Nat /\ Min({x, y}) <= x /\ Min({x, y}) <= y
<1>1. \E m \in {x, y} : \A n \in {x, y} : m =< n
  <2>1. CASE x <= y
    BY <2>1
  <2>2. CASE ~(x <= y)
    BY <2>2
  <2> QED BY <2>1, <2>2
<1>2. Min({x, y}) \in {x, y} /\ \A n \in {x, y} : Min({x, y}) =< n
  BY <1>1 DEF Min
<1> QED BY <1>2

\* A bucket that is used is at its level: not above its capacity, nor above
\* what was left in it and refilled since.
LEMMA LevelBounded ==
  ASSUME NEW b \in BucketT, now \in Nat, Fair(b)
  PROVE  /\ Level(b) \in Nat /\ Level(b) <= Capacity * Unit
         /\ Level(b) <= b.tokens + (now - b.at) * Refill
<1>1. b.tokens \in Nat /\ b.at \in Nat /\ b.at <= now
  BY DEF BucketT, Fair
<1>2. now - b.at \in Nat
  BY <1>1
<1>3. (now - b.at) * Refill \in Nat
  BY <1>2, Products
<1>4. b.tokens + (now - b.at) * Refill \in Nat
  BY <1>1, <1>3
<1> QED BY <1>4, Products, LeastOfTwo DEF Level

\* Using a bucket, whether a token was there or not, keeps it fair.
LEMMA ConsumedFair ==
  ASSUME NEW b \in BucketT, now \in Nat, Fair(b)
  PROVE  Consumed(b) \in BucketT /\ Fair(Consumed(b))
<1> DEFINE l == Level(b)
           w == Capacity * Unit
           since == (b.at - b.born) * Refill
           fresh == (now - b.at) * Refill
           whole == (now - b.born) * Refill
           given == Unit * b.granted
<1>0. b.tokens \in Nat /\ b.at \in Nat /\ b.born \in Nat /\ b.granted \in Nat /\ b.key \in {Key(c) : c \in Caller}
  BY DEF BucketT
<1>1. l \in Nat /\ l <= w /\ l <= b.tokens + fresh
  BY LevelBounded
<1>2. b.born <= b.at /\ b.at <= now /\ given + b.tokens <= w + since
  BY DEF Fair
<1>3. whole = since + fresh
  BY <1>0, <1>2, RefillAdds
<1>4. w \in Nat /\ given \in Nat /\ Unit * (b.granted + 1) = given + Unit
  BY <1>0, Products
<1>5. b.at - b.born \in Nat /\ now - b.at \in Nat
  BY <1>0, <1>2
<1>6. since \in Nat /\ fresh \in Nat
  BY <1>5, Products
<1>7. Unit \in Nat
  BY GatewayAssumption
<1>8. CASE l >= Unit
  <2>1. Consumed(b) = [b EXCEPT !.tokens = l - Unit, !.at = now, !.granted = @ + 1]
    BY <1>8 DEF Consumed
  <2>2. l - Unit \in Nat
    BY <1>8, <1>1, <1>7
  <2> DEFINE b1 == [b EXCEPT !.tokens = l - Unit]
             b2 == [b1 EXCEPT !.at = now]
  <2>a. b1 \in BucketT /\ b1.granted = b.granted
    BY <2>2, <1>0 DEF BucketT
  <2>b. b2 \in BucketT /\ b2.granted = b.granted
    BY <2>a DEF BucketT
  <2>c. Consumed(b) = [b2 EXCEPT !.granted = b.granted + 1]
    BY <2>1, <2>a, <2>b DEF BucketT
  <2> HIDE DEF b1, b2
  <2>3. Consumed(b) \in BucketT
    BY <2>b, <2>c, <1>0 DEF BucketT
  <2>4. /\ Consumed(b).tokens = l - Unit /\ Consumed(b).at = now
        /\ Consumed(b).born = b.born /\ Consumed(b).granted = b.granted + 1
    BY <2>1 DEF BucketT
  <2> HIDE DEF l, w, since, fresh, whole, given
  <2>5. (given + Unit) + (l - Unit) <= w + whole
    BY <1>1, <1>2, <1>3, <1>4, <1>6, <1>7, <1>0
  <2>6. l - Unit <= w
    BY <1>1, <1>4, <1>7, <1>8
  <2>7. b.born <= now
    BY <1>0, <1>2
  <2> USE DEF w, whole, given
  <2> QED BY <2>3, <2>4, <2>5, <2>6, <2>7, <1>4 DEF Fair
<1>9. CASE ~(l >= Unit)
  <2>1. Consumed(b) = [b EXCEPT !.tokens = 0, !.at = now, !.granted = @]
    BY <1>9 DEF Consumed
  <2> DEFINE b1 == [b EXCEPT !.tokens = 0]
             b2 == [b1 EXCEPT !.at = now]
  <2>a. b1 \in BucketT /\ b1.granted = b.granted
    BY <1>0 DEF BucketT
  <2>b. b2 \in BucketT /\ b2.granted = b.granted
    BY <2>a DEF BucketT
  <2>c. Consumed(b) = [b2 EXCEPT !.granted = b.granted]
    BY <2>1, <2>a, <2>b DEF BucketT
  <2> HIDE DEF b1, b2
  <2>3. Consumed(b) \in BucketT
    BY <2>b, <2>c, <1>0 DEF BucketT
  <2>4. /\ Consumed(b).tokens = 0 /\ Consumed(b).at = now
        /\ Consumed(b).born = b.born /\ Consumed(b).granted = b.granted
    BY <2>1 DEF BucketT
  <2> HIDE DEF l, w, since, fresh, whole, given
  <2>5. given + 0 <= w + whole
    BY <1>1, <1>2, <1>3, <1>4, <1>6, <1>7, <1>0
  <2>6. 0 <= w
    BY <1>4
  <2>7. b.born <= now
    BY <1>0, <1>2
  <2> USE DEF w, whole, given
  <2> QED BY <2>3, <2>4, <2>5, <2>6, <2>7 DEF Fair
<1> HIDE DEF l
<1> QED BY <1>8, <1>9

\* The table with the caller's bucket in it is as fair and as short.
LEMMA EnteredOK ==
  ASSUME NEW c \in Caller, now \in Nat, BucketsOK(buckets)
  PROVE  /\ BucketsOK(Entered(Key(c)))
         /\ Bucket(Key(c)) \in 1..Len(Entered(Key(c)))
<1> DEFINE k == Key(c)
           q == Entered(k)
           new == [key |-> k, tokens |-> Capacity * Unit, at |-> now, born |-> now, granted |-> 0]
           rest == IF Len(buckets) >= MaxEntries THEN Tail(buckets) ELSE buckets
<1>0. MaxEntries \in Nat /\ MaxEntries > 0 /\ Len(buckets) \in Nat /\ buckets \in Seq(BucketT)
  BY GatewayAssumption DEF BucketsOK
<1>1. CASE \E i \in DOMAIN buckets : buckets[i].key = k
  <2>1. q = buckets
    BY <1>1 DEF Entered
  <2>2. \E i \in DOMAIN q : q[i].key = k
    BY <2>1, <1>1
  <2>3. Bucket(k) \in DOMAIN q
    BY <2>2 DEF Bucket
  <2> QED BY <2>1, <2>3, <1>0
<1>2. CASE ~\E i \in DOMAIN buckets : buckets[i].key = k
  <2>1. q = Append(rest, new)
    BY <1>2 DEF Entered
  <2>2. new \in BucketT
    BY Products DEF BucketT
  <2>3. Fair(new)
    <3>1. (now - now) * Refill = 0 /\ Unit * 0 = 0
      BY GatewayAssumption
    <3> QED BY <3>1, Products DEF Fair
  <2>4. /\ rest \in Seq(BucketT) /\ Len(rest) \in Nat /\ Len(rest) + 1 <= MaxEntries
        /\ \A i \in 1..Len(rest) : Fair(rest[i])
    <3>1. CASE Len(buckets) >= MaxEntries
      <4>1. rest = Tail(buckets) /\ buckets # <<>>
        BY <3>1, <1>0
      <4>2. Tail(buckets) \in Seq(BucketT) /\ Len(Tail(buckets)) = Len(buckets) - 1
            /\ \A i \in 1..Len(Tail(buckets)) : Tail(buckets)[i] = buckets[i + 1]
        BY <4>1, <1>0, HeadTailProperties
      <4>3. \A i \in 1..(Len(buckets) - 1) : i + 1 \in 1..Len(buckets)
        BY <1>0
      <4>4. Len(buckets) <= MaxEntries /\ \A i \in 1..Len(buckets) : Fair(buckets[i])
        BY DEF BucketsOK
      <4>5. Len(buckets) = MaxEntries
        BY <4>4, <3>1, <1>0
      <4>6. \A i \in 1..Len(rest) : Fair(rest[i])
        BY <4>1, <4>2, <4>3, <4>4
      <4> QED BY <4>1, <4>2, <4>5, <4>6, <1>0
    <3>2. CASE ~(Len(buckets) >= MaxEntries)
      BY <3>2, <1>0 DEF BucketsOK
    <3> QED BY <3>1, <3>2
  <2> HIDE DEF rest, new
  <2>5. /\ q \in Seq(BucketT) /\ Len(q) = Len(rest) + 1
        /\ \A i \in 1..Len(rest) : q[i] = rest[i]
        /\ q[Len(rest) + 1] = new
    BY <2>1, <2>2, <2>4, AppendProperties
  <2>6. \A i \in 1..Len(q) : Fair(q[i])
    <3> TAKE i \in 1..Len(q)
    <3>1. CASE i \in 1..Len(rest)
      BY <3>1, <2>4, <2>5
    <3>2. CASE i \notin 1..Len(rest)
      BY <3>2, <2>3, <2>4, <2>5
    <3> QED BY <3>1, <3>2
  <2>7. new.key = k
    BY DEF new
  <2>8. DOMAIN q = 1..Len(q) /\ Len(rest) + 1 \in 1..Len(q)
    BY <2>4, <2>5
  <2>9. \E i \in DOMAIN q : q[i].key = k
    BY <2>5, <2>7, <2>8
  <2>10. Bucket(k) \in DOMAIN q
    BY <2>9 DEF Bucket
  <2> HIDE DEF q
  <2>11. BucketsOK(q)
    BY <2>4, <2>5, <2>6 DEF BucketsOK
  <2> QED BY <2>8, <2>10, <2>11 DEF q
<1> QED BY <1>1, <1>2

(***************************************************************************)
(* The steps of the gateway.                                               *)
(***************************************************************************)

LEMMA SlotsPositive == Slots \in Nat
BY GatewayAssumption

\* A request that arrives takes a slot that is free, or none.
LEMMA ArriveKeeps ==
  ASSUME GatewayInd, NEW c \in Caller, NEW r, Arrive(c, r)
  PROVE  GatewayInd'
<1> DEFINE q == Entered(Key(c))
           i == Bucket(Key(c))
<1>0. conn[c] = "none" /\ now' = now /\ now \in Nat
  BY DEF Arrive, GatewayInd
<1>1. BucketsOK(buckets)'
  <2>1. CASE buckets' = buckets
    BY <2>1, <1>0 DEF GatewayInd, BucketsOK, Fair
  <2>2. CASE buckets' = [q EXCEPT ![i] = Consumed(@)]
    <3>1. BucketsOK(q) /\ i \in 1..Len(q)
      BY EnteredOK DEF GatewayInd
    <3>2. q \in Seq(BucketT) /\ q[i] \in BucketT /\ Fair(q[i])
      BY <3>1 DEF BucketsOK
    <3>3. Consumed(q[i]) \in BucketT /\ Fair(Consumed(q[i]))
      BY <3>2, <1>0, ConsumedFair
    <3> HIDE DEF q, i
    <3>4. buckets' = [q EXCEPT ![i] = Consumed(q[i])]
      BY <2>2
    <3>5. buckets' \in Seq(BucketT) /\ Len(buckets') = Len(q)
          /\ \A j \in 1..Len(q) : buckets'[j] = IF j = i THEN Consumed(q[i]) ELSE q[j]
      BY <3>1, <3>2, <3>3, <3>4, ExceptSeq
    <3>6. \A j \in 1..Len(q) : Fair(buckets'[j])
      BY <3>1, <3>3, <3>5 DEF BucketsOK
    <3>7. Len(buckets') <= MaxEntries /\ \A j \in 1..Len(buckets') : Fair(buckets'[j])
      BY <3>1, <3>5, <3>6 DEF BucketsOK
    <3> QED BY <3>5, <3>7, <1>0 DEF BucketsOK, Fair
  <2> QED BY <2>1, <2>2 DEF Arrive
<1>2. SlotsOK'
  <2>1. CASE conn' = conn /\ active' = active /\ verdict' = [verdict EXCEPT ![c] = "refused"]
    BY <2>1 DEF GatewayInd, SlotsOK, Held, Verdict
  <2>2. CASE /\ ~(active >= Slots) /\ active' = active + 1
             /\ conn' = [conn EXCEPT ![c] = "proxying"] /\ verdict' = verdict
    <3>1. conn' \in [Caller -> Phase] /\ Held' = Held \cup {c} /\ c \notin Held
      BY <2>2, <1>0 DEF GatewayInd, SlotsOK, Held, Phase
    <3>2. IsFiniteSet(Held) /\ active = Cardinality(Held)
      BY DEF GatewayInd, SlotsOK
    <3>3. IsFiniteSet(Held') /\ Cardinality(Held') = Cardinality(Held) + 1
      BY <3>1, <3>2, FS_AddElement
    <3>4. Cardinality(Held) \in Nat
      BY <3>2, FS_CardinalityType
    <3>5. active' <= Slots
      BY <2>2, <3>2, <3>4, SlotsPositive
    <3> QED BY <2>2, <3>1, <3>2, <3>3, <3>5 DEF GatewayInd, SlotsOK
  <2> HIDE DEF q, i
  <2> QED BY <2>1, <2>2 DEF Arrive, Refuse, Answer
<1> QED BY <1>0, <1>1, <1>2 DEF GatewayInd

\* However a request ends, its slot is given back, once.
LEMMA FinishKeeps ==
  ASSUME GatewayInd, NEW c \in Caller, NEW v \in Verdict, conn[c] # "none", Finish(c, v)
  PROVE  GatewayInd'
<1>1. conn' = [conn EXCEPT ![c] = "none"] /\ active' = active - 1 /\ now' = now /\ buckets' = buckets
  BY DEF Finish
<1>2. verdict' \in [Caller -> Verdict]
  BY DEF Finish, Answer, GatewayInd, SlotsOK
<1>3. conn' \in [Caller -> Phase] /\ Held' = Held \ {c} /\ c \in Held
  BY <1>1 DEF GatewayInd, SlotsOK, Held, Phase
<1>4. IsFiniteSet(Held) /\ active = Cardinality(Held) /\ active <= Slots
  BY DEF GatewayInd, SlotsOK
<1>5. IsFiniteSet(Held') /\ Cardinality(Held') = Cardinality(Held) - 1
  BY <1>3, <1>4, FS_RemoveElement
<1>6. Cardinality(Held) \in Nat
  BY <1>4, FS_CardinalityType
<1>7. active' = Cardinality(Held') /\ active' <= Slots
  BY <1>1, <1>4, <1>5, <1>6, SlotsPositive
<1> QED BY <1>1, <1>2, <1>3, <1>5, <1>7 DEF GatewayInd, SlotsOK, BucketsOK, Fair

LEMMA ServeKeeps ==
  ASSUME GatewayInd, NEW c \in Caller, Serve(c)
  PROVE  GatewayInd'
<1> USE DEF Verdict
<1>1. CASE UpstreamRefused(c) \/ UpstreamEnds(c) \/ UpstreamTooLarge(c) \/ UpstreamFails(c) \/ AbortHeard(c)
  <2>1. conn[c] # "none" /\ \E v \in Verdict : Finish(c, v)
    BY <1>1 DEF UpstreamRefused, UpstreamEnds, UpstreamTooLarge, UpstreamFails, AbortHeard
  <2> QED BY <2>1, FinishKeeps
<1>2. CASE UpstreamHeaders(c)
  <2>1. Held' = Held /\ conn' \in [Caller -> Phase]
    BY <1>2 DEF UpstreamHeaders, GatewayInd, SlotsOK, Held, Phase
  <2> QED BY <1>2, <2>1 DEF UpstreamHeaders, GatewayInd, SlotsOK, BucketsOK, Fair
<1>3. CASE CallerLeaves(c)
  <2>1. Held' = Held /\ conn' \in [Caller -> Phase] /\ verdict' \in [Caller -> Verdict]
    BY <1>3 DEF CallerLeaves, Answer, GatewayInd, SlotsOK, Held, Phase
  <2> QED BY <1>3, <2>1 DEF CallerLeaves, GatewayInd, SlotsOK, BucketsOK, Fair
<1> QED BY <1>1, <1>2, <1>3 DEF Serve

LEMMA TickKeeps ==
  ASSUME GatewayInd, Tick
  PROVE  GatewayInd'
<1>1. now \in Nat /\ now' = now + 1 /\ buckets' = buckets
  BY DEF Tick, GatewayInd
<1>2. SlotsOK'
  BY DEF Tick, GatewayInd, SlotsOK, Held
<1>3. buckets \in Seq(BucketT) /\ \A i \in 1..Len(buckets) : Fair(buckets[i])
  BY DEF GatewayInd, BucketsOK
<1>4. \A i \in 1..Len(buckets) : Fair(buckets[i])'
  <2> TAKE i \in 1..Len(buckets)
  <2>1. buckets[i] \in BucketT /\ Fair(buckets[i])
    BY <1>3
  <2>2. buckets[i].at \in Nat
    BY <2>1 DEF BucketT
  <2> QED BY <2>1, <2>2, <1>1 DEF Fair
<1>5. BucketsOK(buckets)'
  BY <1>1, <1>3, <1>4 DEF BucketsOK, GatewayInd
<1> QED BY <1>1, <1>2, <1>5 DEF GatewayInd

LEMMA AnswerKeeps ==
  ASSUME GatewayInd, NEW c \in Caller, Answer(c, "none"), UNCHANGED <<active, conn, buckets, now>>
  PROVE  GatewayInd'
BY DEF GatewayInd, SlotsOK, Held, BucketsOK, Fair, Answer, Verdict

LEMMA GatewayStutters ==
  ASSUME GatewayInd, UNCHANGED gateway
  PROVE  GatewayInd'
BY DEF gateway, GatewayInd, SlotsOK, Held, BucketsOK, Fair

(***************************************************************************)
(* The steps of the launcher.                                              *)
(***************************************************************************)

LEMMA Bounds ==
  /\ MaxLoads \in Nat /\ MaxLaunches \in Nat /\ MaxVisits \in Nat /\ MaxOps \in Nat /\ MaxOps > 0
BY LauncherAssumption

LEMMA OtherButtons ==
  App \cap {"registry", "proof", "plan", "stage", "install"} = {}
BY ButtonAssumption DEF Public

\* A public button that asks has a caller at the gateway.
LEMMA PublicCallers ==
  ASSUME NEW b \in Public, NEW n \in 1..MaxLoads
  PROVE  <<b, n>> \in Caller /\ <<b, n>>[1] = b /\ <<b, n>>[2] = n
<1>1. <<b, n>> \in Public \X (1..MaxLoads)
  OBVIOUS
<1> QED BY <1>1, ButtonAssumption

\* Whoever arrives, what the page has at the gateway are public requests.
LEMMA ArrivePublic ==
  ASSUME GatewayInd, PublicOnly, ~local, UNCHANGED local, NEW c \in Caller, NEW r, Arrive(c, r),
         c[2] = 0 \/ c[1] \in Public
  PROVE  PublicOnly'
<1>1. \A d \in Caller : d # c => conn'[d] = conn[d] /\ verdict'[d] = verdict[d]
  BY DEF Arrive, Refuse, Answer, GatewayInd, SlotsOK
<1> QED BY <1>1 DEF PublicOnly

\* What is asked of the gateway or of the host, and what stays as it was.
LEMMA FetchKeeps ==
  ASSUME Ind, UNCHANGED local, NEW b \in Button, NEW n \in 1..MaxLoads, ~local => b \in Public,
         Fetch(<<b, n>>)
  PROVE  /\ GatewayInd' /\ PublicOnly'
         /\ asked' \in {asked, asked \cup {<<b, n>>}}
         /\ ~local => asked' = asked
<1>1. CASE local
  <2>1. UNCHANGED gateway /\ asked' = asked \cup {<<b, n>>}
    BY <1>1 DEF Fetch
  <2> QED BY <1>1, <2>1, GatewayStutters DEF Ind, PublicOnly
<1>2. CASE ~local
  <2>1. <<b, n>> \in Caller /\ <<b, n>>[1] = b
    BY <1>2, PublicCallers
  <2>2. Arrive(<<b, n>>, Ours(b)) /\ asked' = asked
    BY <1>2, <2>1 DEF Fetch
  <2> QED BY <1>2, <2>1, <2>2, ArriveKeeps, ArrivePublic DEF Ind
<1> QED BY <1>1, <1>2

LEMMA LoadKeeps ==
  ASSUME Ind, Load
  PROVE  Ind'
<1> DEFINE n == loads + 1
           c == <<"registry", n>>
<1>1. /\ loads' = n /\ cards' = FALSE /\ planReady' = FALSE /\ installOn' = FALSE
      /\ busy' = busy \cup {c} /\ Fetch(c)
      /\ UNCHANGED <<local, staged, launches, frame, open, inFlight, visits>>
  BY DEF Load
<1>2. loads \in 0..MaxLoads /\ loads < MaxLoads
  BY DEF Load, Ind, LauncherInd, LauncherT
<1>3. n \in 1..MaxLoads /\ n \in 0..MaxLoads /\ n > loads
  BY <1>2, Bounds
<1>4. "registry" \in Button /\ "registry" \in Public /\ c \in Button \X (1..MaxLoads)
  BY <1>3 DEF Button, Public
<1>5. /\ GatewayInd' /\ PublicOnly' /\ asked' \in {asked, asked \cup {c}} /\ (~local => asked' = asked)
  BY <1>1, <1>3, <1>4, FetchKeeps
<1>6. c[1] = "registry" /\ c[2] = n
  OBVIOUS
<1>7. \A d \in busy : d[2] \in 1..MaxLoads /\ d[2] <= loads
  BY DEF Ind, LauncherInd, LauncherT, Cards
<1> HIDE DEF n, c
<1>8. \A d \in busy' : d[2] <= loads'
  BY <1>1, <1>2, <1>3, <1>6, <1>7
<1>9. LauncherT'
  BY <1>1, <1>3, <1>4 DEF Ind, LauncherInd, LauncherT
<1>10. Cards'
  BY <1>1, <1>5, <1>8 DEF Ind, LauncherInd, Cards
<1>11. \A d \in asked : d[2] < n
  BY <1>2, <1>3, <1>7 DEF Ind, LauncherInd, Cards
<1>12. Asking'
  BY <1>1, <1>3, <1>5, <1>6, <1>11 DEF Asking
<1>13. InstallOnlyStaged' /\ PortsOK' /\ FlightsOK'
  BY <1>1 DEF Ind, LauncherInd, InstallOnlyStaged, PortsOK, PortOfFrame, FlightsOK
<1> QED BY <1>5, <1>9, <1>10, <1>12, <1>13 DEF Ind, LauncherInd

LEMMA PressKeeps ==
  ASSUME Ind, NEW b \in Button, Press(b)
  PROVE  Ind'
<1> DEFINE c == <<b, loads>>
<1>1. /\ busy' = busy \cup {c} /\ Fetch(c) /\ cards /\ Offered(b) /\ b # "registry"
      /\ installOn' = (installOn /\ b # "install")
      /\ UNCHANGED <<local, loads, cards, planReady, staged, launches, frame, open, inFlight, visits>>
  BY DEF Press, Of
<1>2. loads \in 1..MaxLoads
  BY <1>1, Bounds DEF Ind, LauncherInd, LauncherT, Cards
<1>3. c \in Button \X (1..MaxLoads) /\ c[1] = b /\ c[2] = loads
  BY <1>2
<1>4. ~local => b \in Public
  BY <1>1 DEF Offered, Public, Ind, LauncherInd, Cards
<1>5. /\ GatewayInd' /\ PublicOnly' /\ asked' \in {asked, asked \cup {c}} /\ (~local => asked' = asked)
  BY <1>1, <1>2, <1>4, FetchKeeps
<1>6. b = "stage" => planReady
  BY <1>1, OtherButtons DEF Offered
<1>7. b = "install" => planReady /\ staged
  BY <1>1, OtherButtons DEF Offered, Ind, LauncherInd, InstallOnlyStaged
<1> HIDE DEF c
<1>8. LauncherT'
  BY <1>1, <1>3 DEF Ind, LauncherInd, LauncherT
<1>9. loads <= loads
  BY <1>2
<1>10. Cards'
  BY <1>1, <1>3, <1>5, <1>9 DEF Ind, LauncherInd, Cards
<1>11. Asking'
  BY <1>1, <1>3, <1>5, <1>6, <1>7 DEF Ind, LauncherInd, Asking
<1>12. InstallOnlyStaged' /\ PortsOK' /\ FlightsOK'
  BY <1>1 DEF Ind, LauncherInd, InstallOnlyStaged, PortsOK, PortOfFrame, FlightsOK
<1> QED BY <1>5, <1>8, <1>10, <1>11, <1>12 DEF Ind, LauncherInd

\* An answer from the gateway is to a public button: it enables nothing that
\* installs.
LEMMA AnswerThroughGatewayKeeps ==
  ASSUME Ind, NEW c \in Caller, AnswerThroughGateway(c)
  PROVE  Ind'
<1> DEFINE v == verdict[c]
<1>1. /\ ~local /\ v # "none" /\ c[2] # 0 /\ Answer(c, "none")
      /\ busy' = busy \ {c}
      /\ cards' = (cards \/ (c[1] = "registry" /\ v = "ok" /\ c[2] = loads))
      /\ planReady' = (planReady \/ (c[1] = "plan" /\ v = "ok" /\ c[2] = loads))
      /\ installOn' = IF c[2] = loads THEN InstallAfter(c[1], v) ELSE installOn
      /\ UNCHANGED <<local, loads, visits, asked, staged, launches, frame, open, inFlight, active, conn, buckets, now>>
  BY DEF AnswerThroughGateway, React, Freed, host
<1>2. GatewayInd'
  BY <1>1, AnswerKeeps DEF Ind
<1>3. PublicOnly /\ c[1] \in Public
  BY <1>1 DEF Ind, PublicOnly
<1>4. PublicOnly'
  BY <1>1, <1>3 DEF PublicOnly, Answer, Ind, GatewayInd, SlotsOK
<1>5. installOn' = installOn
  BY <1>1, <1>3 DEF InstallAfter, Public, Ind, LauncherInd, LauncherT
<1>6. planReady' \in BOOLEAN /\ cards' \in BOOLEAN /\ (planReady => planReady')
  BY <1>1 DEF Ind, LauncherInd, LauncherT
<1>7. cards' => loads # 0
  BY <1>1 DEF Ind, LauncherInd, Cards
<1>8. asked = {} /\ ~installOn
  BY <1>1 DEF Ind, LauncherInd, Cards
<1>9. LauncherT'
  BY <1>1, <1>5, <1>6 DEF Ind, LauncherInd, LauncherT
<1>10. Cards'
  BY <1>1, <1>5, <1>7, <1>8 DEF Ind, LauncherInd, Cards
<1>11. Asking'
  BY <1>1, <1>8 DEF Asking
<1>12. InstallOnlyStaged' /\ PortsOK' /\ FlightsOK'
  BY <1>1, <1>5, <1>8 DEF Ind, LauncherInd, InstallOnlyStaged, PortsOK, PortOfFrame, FlightsOK
<1> QED BY <1>2, <1>4, <1>9, <1>10, <1>11, <1>12 DEF Ind, LauncherInd

\* A launch that is ready closes the port before it.
LEMMA LaunchedKeeps ==
  ASSUME Ind, NEW ready \in BOOLEAN, NEW ports \in BOOLEAN, ready => launches < MaxLaunches,
         Launched(ready, ports)
  PROVE  /\ launches' \in 0..MaxLaunches /\ frame' \in 0..MaxLaunches
         /\ PortsOK' /\ inFlight' = inFlight
<1>0. launches \in 0..MaxLaunches /\ frame \in 0..MaxLaunches /\ PortsOK
  BY DEF Ind, LauncherInd, LauncherT
<1>1. CASE ready
  <2>1. launches' = launches + 1 /\ frame' = launches' /\ open' \subseteq {launches'} /\ inFlight' = inFlight
    BY <1>1 DEF Launched, Closed
  <2>2. launches' \in 1..MaxLaunches /\ launches' \in 0..MaxLaunches
    BY <1>0, <1>1, <2>1, Bounds
  <2> QED BY <2>1, <2>2 DEF PortsOK, PortOfFrame, Ports
<1>2. CASE ~ready
  BY <1>0, <1>2 DEF Launched, PortsOK, PortOfFrame
<1> QED BY <1>1, <1>2

LEMMA HostAnswersKeeps ==
  ASSUME Ind, NEW c \in asked, NEW v \in Verdict \ {"none"}, NEW ports \in BOOLEAN, HostAnswers(c, v, ports)
  PROVE  Ind'
<1>1. /\ asked' = asked \ {c} /\ UNCHANGED gateway
      /\ staged' \in {staged \/ (c[1] = "stage" /\ v = "ok"), staged \/ (c[1] = "stage" /\ v # "refused")}
      /\ busy' = busy \ {c}
      /\ cards' = (cards \/ (c[1] = "registry" /\ v = "ok" /\ c[2] = loads))
      /\ planReady' = (planReady \/ (c[1] = "plan" /\ v = "ok" /\ c[2] = loads))
      /\ installOn' = IF c[2] = loads THEN InstallAfter(c[1], v) ELSE installOn
      /\ UNCHANGED <<local, loads, visits>>
  BY DEF HostAnswers, React, Freed
<1>2. GatewayInd' /\ PublicOnly'
  <2>1. GatewayInd'
    BY <1>1, GatewayStutters DEF Ind
  <2> QED BY <2>1, <1>1 DEF Ind, PublicOnly, gateway
<1>3. c \in busy /\ c[2] \in 1..MaxLoads /\ local
  BY DEF Ind, LauncherInd, LauncherT, Cards
<1>4. planReady \in BOOLEAN /\ installOn \in BOOLEAN /\ staged \in BOOLEAN /\ cards \in BOOLEAN
  BY DEF Ind, LauncherInd, LauncherT
<1>5. /\ staged' \in BOOLEAN /\ (staged => staged') /\ (c[1] = "stage" /\ v = "ok" => staged')
      /\ planReady' \in BOOLEAN /\ (planReady => planReady')
      /\ cards' \in BOOLEAN /\ installOn' \in BOOLEAN
  <2>1. staged' \in BOOLEAN /\ (staged => staged') /\ (c[1] = "stage" /\ v = "ok" => staged')
    BY <1>1, <1>4
  <2>2. planReady' \in BOOLEAN /\ (planReady => planReady') /\ cards' \in BOOLEAN
    BY <1>1, <1>4
  <2>3. installOn' \in BOOLEAN
    BY <1>1, <1>4 DEF InstallAfter
  <2> QED BY <2>1, <2>2, <2>3
<1>6. cards' => loads # 0
  BY <1>1, <1>3, <1>4 DEF Ind, LauncherInd, Cards
<1>7. /\ c[1] = "stage" /\ c[2] = loads => planReady
      /\ c[1] = "install" /\ c[2] = loads => planReady /\ staged
  BY DEF Ind, LauncherInd, Asking
<1>8. installOn' => staged' /\ planReady'
  <2>0. installOn => staged /\ planReady
    BY DEF Ind, LauncherInd, InstallOnlyStaged
  <2>1. CASE c[2] = loads /\ c[1] = "stage" /\ v = "ok"
    BY <2>1, <1>5, <1>7
  <2>2. CASE c[2] = loads /\ c[1] = "install"
    BY <2>2, <1>5, <1>7
  <2>3. CASE ~(c[2] = loads /\ c[1] = "stage" /\ v = "ok") /\ ~(c[2] = loads /\ c[1] = "install")
    <3>1. installOn' => installOn
      BY <2>3, <1>1, <1>4 DEF InstallAfter
    <3> QED BY <3>1, <2>0, <1>5
  <2> QED BY <2>1, <2>2, <2>3
<1>9. /\ launches' \in 0..MaxLaunches /\ frame' \in 0..MaxLaunches
      /\ PortsOK' /\ inFlight' = inFlight
  <2>1. Launched(c[1] \in App /\ v = "ok" /\ launches < MaxLaunches, ports)
    BY DEF HostAnswers
  <2> QED BY <2>1, LaunchedKeeps
<1>10. LauncherT'
  BY <1>1, <1>5, <1>9 DEF Ind, LauncherInd, LauncherT
<1>11. Cards'
  BY <1>1, <1>3, <1>6 DEF Ind, LauncherInd, Cards
<1>12. Asking'
  BY <1>1, <1>5 DEF Ind, LauncherInd, Asking
<1>13. InstallOnlyStaged' /\ FlightsOK'
  BY <1>8, <1>9 DEF Ind, LauncherInd, InstallOnlyStaged, FlightsOK
<1> QED BY <1>2, <1>9, <1>10, <1>11, <1>12, <1>13 DEF Ind, LauncherInd

LEMMA OperationKeeps ==
  ASSUME Ind, NEW p \in Ports, NEW id \in OpId, Operation(p, id) \/ OperationEnds(p, id)
  PROVE  Ind'
<1>1. UNCHANGED <<gateway, local, page, asked, staged, launches, frame, open, visits>>
  BY DEF Operation, OperationEnds
<1>2. GatewayInd' /\ PublicOnly'
  <2>1. GatewayInd'
    BY <1>1, GatewayStutters DEF Ind
  <2> QED BY <2>1, <1>1 DEF Ind, PublicOnly, gateway
<1>3. inFlight \in [Ports -> SUBSET OpId] /\ IsFiniteSet(inFlight[p]) /\ Cardinality(inFlight[p]) <= MaxOps
  BY DEF Ind, LauncherInd, LauncherT, FlightsOK
<1>4. Cardinality(inFlight[p]) \in Nat
  BY <1>3, FS_CardinalityType
<1>5. \E q \in SUBSET OpId : /\ inFlight' = [inFlight EXCEPT ![p] = q]
                             /\ IsFiniteSet(q) /\ Cardinality(q) <= MaxOps
  <2>1. CASE Operation(p, id)
    <3>1. /\ inFlight' = [inFlight EXCEPT ![p] = inFlight[p] \cup {id}]
          /\ id \notin inFlight[p] /\ Cardinality(inFlight[p]) < MaxOps
      BY <2>1 DEF Operation, Accepts
    <3>2. /\ IsFiniteSet(inFlight[p] \cup {id})
          /\ Cardinality(inFlight[p] \cup {id}) = Cardinality(inFlight[p]) + 1
      BY <1>3, <3>1, FS_AddElement
    <3>3. Cardinality(inFlight[p] \cup {id}) <= MaxOps
      BY <3>1, <3>2, <1>4, Bounds
    <3> QED BY <3>1, <3>2, <3>3, <1>3
  <2>2. CASE OperationEnds(p, id)
    <3>1. inFlight' = [inFlight EXCEPT ![p] = inFlight[p] \ {id}] /\ id \in inFlight[p]
      BY <2>2 DEF OperationEnds
    <3>2. /\ IsFiniteSet(inFlight[p] \ {id})
          /\ Cardinality(inFlight[p] \ {id}) = Cardinality(inFlight[p]) - 1
      BY <1>3, <3>1, FS_RemoveElement
    <3>3. Cardinality(inFlight[p] \ {id}) <= MaxOps
      BY <3>2, <1>3, <1>4, Bounds
    <3> QED BY <3>1, <3>2, <3>3, <1>3
  <2> QED BY <2>1, <2>2
<1>6. PICK q \in SUBSET OpId : /\ inFlight' = [inFlight EXCEPT ![p] = q]
                               /\ IsFiniteSet(q) /\ Cardinality(q) <= MaxOps
  BY <1>5
<1>7. inFlight' \in [Ports -> SUBSET OpId] /\ \A r \in Ports : inFlight'[r] = IF r = p THEN q ELSE inFlight[r]
  BY <1>3, <1>6
<1>8. FlightsOK'
  BY <1>6, <1>7 DEF Ind, LauncherInd, FlightsOK
<1>9. LauncherT'
  BY <1>1, <1>7 DEF Ind, LauncherInd, LauncherT, page
<1>10. Cards' /\ Asking' /\ InstallOnlyStaged' /\ PortsOK'
  BY <1>1 DEF Ind, LauncherInd, page, Cards, Asking, InstallOnlyStaged, PortsOK, PortOfFrame
<1> QED BY <1>2, <1>8, <1>9, <1>10 DEF Ind, LauncherInd

\* What happens at the gateway leaves the page and the host alone.
LEMMA PageStutters ==
  ASSUME LauncherInd, UNCHANGED <<local, page, host>>, visits' \in 0..MaxVisits
  PROVE  LauncherInd'
<1>1. LauncherT'
  BY DEF LauncherInd, LauncherT, page, host
<1>2. Cards' /\ Asking' /\ InstallOnlyStaged' /\ PortsOK' /\ FlightsOK'
  BY DEF LauncherInd, page, host, Cards, Asking, InstallOnlyStaged, PortsOK, PortOfFrame, FlightsOK
<1> QED BY <1>1, <1>2 DEF LauncherInd

LEMMA VisitKeeps ==
  ASSUME Ind, NEW c \in Caller, NEW r \in Request, Visit(c, r)
  PROVE  Ind'
<1>1. ~local /\ c[2] = 0 /\ visits < MaxVisits /\ visits' = visits + 1 /\ Arrive(c, r) /\ UNCHANGED <<local, page, host>>
  BY DEF Visit
<1>2. GatewayInd' /\ PublicOnly'
  BY <1>1, ArriveKeeps, ArrivePublic DEF Ind
<1>3. visits' \in 0..MaxVisits
  BY <1>1, Bounds DEF Ind, LauncherInd, LauncherT
<1> QED BY <1>1, <1>2, <1>3, PageStutters DEF Ind

LEMMA VisitorAnsweredKeeps ==
  ASSUME Ind, NEW c \in Caller, VisitorAnswered(c)
  PROVE  Ind'
<1>1. Answer(c, "none") /\ c[2] = 0 /\ UNCHANGED <<local, page, host, visits, active, conn, buckets, now>>
  BY DEF VisitorAnswered
<1>2. GatewayInd'
  BY <1>1, AnswerKeeps DEF Ind
<1>3. PublicOnly'
  BY <1>1 DEF Ind, PublicOnly, Answer, GatewayInd, SlotsOK
<1>4. visits' \in 0..MaxVisits
  BY <1>1 DEF Ind, LauncherInd, LauncherT
<1> QED BY <1>1, <1>2, <1>3, <1>4, PageStutters DEF Ind

\* The gateway works on the requests it has.
LEMMA ServeInGatewayKeeps ==
  ASSUME Ind, NEW c \in Caller, InGateway(Serve(c))
  PROVE  Ind'
<1>1. ~local /\ Serve(c) /\ UNCHANGED <<local, page, host, visits>>
  BY DEF InGateway
<1>2. GatewayInd'
  BY <1>1, ServeKeeps DEF Ind
<1>3. conn[c] # "none"
  BY <1>1 DEF Serve, UpstreamRefused, UpstreamHeaders, UpstreamEnds, UpstreamTooLarge, UpstreamFails, CallerLeaves, AbortHeard
<1>4. \A d \in Caller : d # c => conn'[d] = conn[d] /\ verdict'[d] = verdict[d]
  BY <1>1 DEF Serve, UpstreamRefused, UpstreamHeaders, UpstreamEnds, UpstreamTooLarge, UpstreamFails,
              CallerLeaves, AbortHeard, Finish, Answer, Ind, GatewayInd, SlotsOK
<1>5. PublicOnly'
  BY <1>1, <1>3, <1>4 DEF Ind, PublicOnly
<1>6. visits' \in 0..MaxVisits
  BY <1>1 DEF Ind, LauncherInd, LauncherT
<1> QED BY <1>1, <1>2, <1>5, <1>6, PageStutters DEF Ind

LEMMA TickInGatewayKeeps ==
  ASSUME Ind, InGateway(Tick)
  PROVE  Ind'
<1>1. Tick /\ UNCHANGED <<local, page, host, visits>>
  BY DEF InGateway
<1>2. GatewayInd'
  BY <1>1, TickKeeps DEF Ind
<1>3. PublicOnly'
  BY <1>1 DEF Ind, PublicOnly, Tick
<1>4. visits' \in 0..MaxVisits
  BY <1>1 DEF Ind, LauncherInd, LauncherT
<1> QED BY <1>1, <1>2, <1>3, <1>4, PageStutters DEF Ind

(***************************************************************************)
(* The theorems.                                                           *)
(***************************************************************************)

LEMMA InitInd == Init => Ind
<1> SUFFICES ASSUME Init PROVE Ind
  OBVIOUS
<1>1. GatewayInd
  <2>1. Held = {} /\ conn \in [Caller -> Phase] /\ verdict \in [Caller -> Verdict]
    BY DEF Init, GatewayInit, Held, Phase, Verdict
  <2>2. IsFiniteSet({}) /\ Cardinality({}) = 0
    BY FS_EmptySet
  <2>3. buckets = <<>> /\ now = 0 /\ active = 0
    BY DEF Init, GatewayInit
  <2>4. BucketsOK(buckets)
    BY <2>3, GatewayAssumption DEF BucketsOK
  <2> QED BY <2>1, <2>2, <2>3, <2>4, SlotsPositive DEF GatewayInd, SlotsOK
<1>2. PublicOnly
  BY DEF Init, GatewayInit, PublicOnly
<1>3. LauncherT
  <2>1. 0 \in 0..MaxLoads /\ 0 \in 0..MaxLaunches /\ 0 \in 0..MaxVisits
    BY Bounds
  <2>2. inFlight \in [Ports -> SUBSET OpId]
    BY DEF Init
  <2> QED BY <2>1, <2>2 DEF Init, LauncherT
<1>4. FlightsOK
  BY FS_EmptySet, Bounds DEF Init, FlightsOK
<1>5. Cards /\ Asking /\ InstallOnlyStaged /\ PortsOK
  BY DEF Init, Cards, Asking, InstallOnlyStaged, PortsOK, PortOfFrame
<1> QED BY <1>1, <1>2, <1>3, <1>4, <1>5 DEF Ind, LauncherInd

LEMMA NextInd == Ind /\ [Next]_vars => Ind'
<1> SUFFICES ASSUME Ind, [Next]_vars PROVE Ind'
  OBVIOUS
<1>1. CASE Load
  BY <1>1, LoadKeeps
<1>2. CASE \E b \in Button : Press(b)
  BY <1>2, PressKeeps
<1>3. CASE \E c \in Caller : AnswerThroughGateway(c) \/ VisitorAnswered(c) \/ InGateway(Serve(c))
  BY <1>3, AnswerThroughGatewayKeeps, VisitorAnsweredKeeps, ServeInGatewayKeeps
<1>4. CASE \E c \in Caller, r \in Request : Visit(c, r)
  BY <1>4, VisitKeeps
<1>5. CASE InGateway(Tick)
  BY <1>5, TickInGatewayKeeps
<1>6. CASE \E c \in asked, v \in Verdict \ {"none"}, ports \in BOOLEAN : HostAnswers(c, v, ports)
  BY <1>6, HostAnswersKeeps
<1>7. CASE \E p \in Ports, id \in OpId : Operation(p, id) \/ OperationEnds(p, id)
  BY <1>7, OperationKeeps
<1>8. CASE UNCHANGED vars
  <2>1. GatewayInd'
    BY <1>8, GatewayStutters DEF vars, Ind
  <2>2. PublicOnly'
    BY <1>8 DEF vars, gateway, Ind, PublicOnly
  <2>3. visits' \in 0..MaxVisits
    BY <1>8 DEF vars, Ind, LauncherInd, LauncherT
  <2> QED BY <1>8, <2>1, <2>2, <2>3, PageStutters DEF vars, Ind
<1> QED BY <1>1, <1>2, <1>3, <1>4, <1>5, <1>6, <1>7, <1>8 DEF Next

LEMMA IndHolds == Spec => []Ind
BY InitInd, NextInd, PTL DEF Spec

\* The invariant is what the runs check.
LEMMA IndGateway == Ind => GatewayInv
<1> SUFFICES ASSUME Ind PROVE GatewayInv
  OBVIOUS
<1>1. active = Cardinality(Held) /\ IsFiniteSet(Held) /\ active <= Slots
  BY DEF Ind, GatewayInd, SlotsOK
<1>2. active \in Nat
  BY <1>1, FS_CardinalityType
<1>3. now \in Nat /\ buckets \in Seq(BucketT) /\ Len(buckets) <= MaxEntries /\ DOMAIN buckets = 1..Len(buckets)
  BY DEF Ind, GatewayInd, BucketsOK
<1>4. ASSUME NEW i \in DOMAIN buckets
      PROVE  /\ buckets[i].tokens \in 0..(Capacity * Unit)
             /\ buckets[i].at \in buckets[i].born..now
             /\ Unit * buckets[i].granted <= Capacity * Unit + (now - buckets[i].born) * Refill
  <2> DEFINE b == buckets[i]
             w == Capacity * Unit
             since == (b.at - b.born) * Refill
             fresh == (now - b.at) * Refill
             whole == (now - b.born) * Refill
             given == Unit * b.granted
  <2>1. b \in BucketT /\ Fair(b)
    BY <1>3 DEF Ind, GatewayInd, BucketsOK
  <2>2. b.tokens \in Nat /\ b.at \in Nat /\ b.born \in Nat /\ b.granted \in Nat
    BY <2>1 DEF BucketT
  <2>3. b.tokens <= w /\ b.born <= b.at /\ b.at <= now /\ given + b.tokens <= w + since
    BY <2>1 DEF Fair
  <2>4. whole = since + fresh
    BY <1>3, <2>2, <2>3, RefillAdds
  <2>5. now - b.at \in Nat /\ b.at - b.born \in Nat
    BY <1>3, <2>2, <2>3
  <2>6. w \in Nat /\ given \in Nat /\ since \in Nat /\ fresh \in Nat
    BY <2>2, <2>5, Products
  <2> HIDE DEF b, w, since, fresh, whole, given
  <2>7. given <= w + whole
    BY <2>2, <2>3, <2>4, <2>6
  <2>8. b.tokens \in 0..w /\ b.at \in b.born..now
    BY <1>3, <2>2, <2>3, <2>6
  <2> QED BY <2>7, <2>8 DEF b, w, whole, given
<1>5. conn \in [Caller -> Phase] /\ verdict \in [Caller -> Verdict]
  BY DEF Ind, GatewayInd, SlotsOK
<1> QED BY <1>1, <1>2, <1>3, <1>4, <1>5 DEF GatewayInv, GatewayTypeOK, SlotsCounted, AdmittedWithinRate, Held

LEMMA IndLauncher == Ind => LauncherInv
<1> SUFFICES ASSUME Ind PROVE LauncherInv
  OBVIOUS
<1>1. GatewayTypeOK
  BY IndGateway DEF GatewayInv
<1>2. TypeOK
  BY <1>1 DEF TypeOK, Ind, LauncherInd, LauncherT, Cards, PortsOK
<1> QED BY <1>2 DEF Ind, LauncherInd, LauncherInv, PortsOK, FlightsOK, OperationsBounded

\* server.mjs: the counter of requests is the number of requests being worked
\* on, never more than the slots, on every way out of the handler; a caller
\* whose bucket was not evicted is let through no more often than the capacity
\* and what was refilled since, for any capacity, rate and table.
THEOREM GatewayCounts == Spec => []GatewayInv
BY IndHolds, IndGateway, PTL

\* awai-launcher.js: the install button is enabled on content the host has
\* verified and stored only, under reloads, failures and late answers; the port
\* that is open is the one of the app on screen; an app has no more operations
\* at the host than it is allowed.
THEOREM LauncherServesTheApp == Spec => []LauncherInv
BY IndHolds, IndLauncher, PTL
=============================================================================
