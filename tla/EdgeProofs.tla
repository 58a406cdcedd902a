------------------------------ MODULE EdgeProofs ------------------------------
(***************************************************************************)
(* What holds of Edge for any addresses, any number of proxies on the way,    *)
(* any claim of a client, any number of requests in flight and any rate:      *)
(* requests are counted under the client's own address, a client is refused   *)
(* for its own requests only, no client gets more than two bursts through in  *)
(* a window, and the services get a verified identity.                       *)
(***************************************************************************)
EXTENDS Edge, FiniteSetTheorems, TLAPS

LEMMA Sizes ==
    /\ Burst \in Nat /\ MaxTime \in Nat /\ MaxHops \in Nat /\ MaxClaims \in Nat
    /\ Clients \cap Proxies = {} /\ Junk \notin Clients \cup Proxies
  BY LimitsAssumption, AddressesAssumption DEF LimitsAssumption, AddressesAssumption

-----------------------------------------------------------------------------
(* The address of a request *)

LEMMA MaxIs ==
    ASSUME NEW S, S \subseteq Int, NEW m \in S, \A y \in S : y <= m
    PROVE  Max(S) = m
  <1>1. \A y \in S : m >= y
    OBVIOUS
  <1>2. Max(S) \in S /\ \A y \in S : Max(S) >= y
    BY <1>1 DEF Max
  <1> DEFINE x == Max(S)
  <1>3. x \in S /\ x >= m /\ x <= m
    BY <1>2
  <1> HIDE DEF x
  <1>4. x \in Int /\ m \in Int
    BY <1>3
  <1>5. x = m
    BY <1>3, <1>4
  <1> QED
    BY <1>5 DEF x

\* Behind trusted proxies only, the last address that is none of theirs is c.
LEMMA RightmostIsOwn ==
    ASSUME NEW c \in Clients, NEW k \in Nat, NEW m \in Nat,
           NEW xff, DOMAIN xff = 1..m, k < m,
           xff[k + 1] = c, \A i \in 1..m : i > k + 1 => xff[i] \in Proxies
    PROVE  RightmostUntrusted(xff) = c
  <1> DEFINE known     == {i \in DOMAIN xff : xff[i] # Junk}
             untrusted == {i \in known : ~Trusted(xff[i])}
  <1>1. k + 1 \in untrusted
    BY Sizes DEF Trusted
  <1>2. untrusted \subseteq Int /\ \A i \in untrusted : i <= k + 1
    BY DEF Trusted
  <1>3. Max(untrusted) = k + 1
    <2> HIDE DEF untrusted
    <2> QED
      BY <1>1, <1>2, MaxIs
  <1>4. RightmostUntrusted(xff) = IF untrusted # {} THEN xff[Max(untrusted)]
          ELSE IF known # {} THEN xff[Max(known)] ELSE Junk
    BY DEF RightmostUntrusted
  <1> HIDE DEF untrusted, known
  <1> QED
    BY <1>1, <1>3, <1>4

\* A peer that is no proxy is the client, whatever the headers say.
LEMMA PeerIsOwn ==
    ASSUME NEW c \in Clients, NEW xff, NEW realIP
    PROVE  ClientIP(c, xff, realIP) = c
  BY Sizes DEF ClientIP, Trusted

\* X-Forwarded-For as it arrives: the claim, the client, and all proxies but the last.
LEMMA ArrivesBehind ==
    ASSUME NEW c \in Clients, NEW ps \in Seq(Proxies), ps # <<>>,
           NEW claimed \in Seq(Addresses \cup {Junk}),
           NEW realIP
    PROVE  ClientIP(Last(<<c>> \o ps), Arrived(<<c>> \o ps, claimed), realIP) = c
  <1> DEFINE hops == <<c>> \o ps
             all  == Addresses \cup {Junk}
             xff  == Arrived(hops, claimed)
             k    == Len(claimed)
  <1>1. hops \in Seq(all) /\ Len(hops) = 1 + Len(ps) /\ hops[1] = c
        /\ \A i \in 1..Len(hops) : i > 1 => hops[i] \in Proxies
    <2>1. ps \in Seq(all) /\ <<c>> \in Seq(all)
      BY DEF Addresses
    <2>2. Len(<<c>>) = 1 /\ <<c>>[1] = c
      OBVIOUS
    <2> HIDE DEF all
    <2>3. hops \in Seq(all) /\ Len(hops) = 1 + Len(ps)
      BY <2>1, <2>2
    <2>4. hops[1] = c /\ \A i \in 1..Len(hops) : i > 1 => hops[i] = ps[i - 1]
      BY <2>1, <2>2, <2>3
    <2>5. \A i \in 1..Len(ps) : ps[i] \in Proxies
      OBVIOUS
    <2>6. \A i \in 1..Len(hops) : i > 1 => i - 1 \in 1..Len(ps)
      BY <2>3
    <2> QED
      BY <2>3, <2>4, <2>5, <2>6
  <1>2. Len(ps) \in Nat /\ Len(ps) > 0 /\ k \in Nat
    OBVIOUS
  <1> HIDE DEF hops, all
  <1>3. Front(hops) \in Seq(all) /\ Len(Front(hops)) = Len(ps)
        /\ \A i \in 1..Len(ps) : Front(hops)[i] = hops[i]
    BY <1>1, <1>2 DEF Front
  <1>4. claimed \in Seq(all)
    BY DEF all
  <1> DEFINE front == Front(hops)
  <1> HIDE DEF front
  <1>5. xff \in Seq(all) /\ Len(xff) = k + Len(ps)
        /\ \A i \in 1..Len(xff) : i > k => xff[i] = front[i - k]
    BY <1>3, <1>4 DEF Arrived, front
  <1>6. Last(hops) \in Proxies
    BY <1>1, <1>2 DEF Last
  <1> DEFINE m == k + Len(ps)
  <1>7. m \in Nat /\ k < m /\ DOMAIN xff = 1..m
    BY <1>2, <1>5
  <1>8. xff[k + 1] = c
    <2>1. k + 1 \in 1..Len(xff) /\ k + 1 > k /\ (k + 1) - k = 1
      BY <1>2, <1>5
    <2>2. xff[k + 1] = front[1]
      BY <2>1, <1>5
    <2>3. front[1] = hops[1]
      BY <1>2, <1>3 DEF front
    <2> QED
      BY <2>2, <2>3, <1>1
  <1>9. \A i \in 1..m : i > k + 1 => xff[i] \in Proxies
    <2> SUFFICES ASSUME NEW i \in 1..m, i > k + 1
                 PROVE  xff[i] \in Proxies
      OBVIOUS
    <2>1. xff[i] = front[i - k] /\ i - k \in 1..Len(ps) /\ i - k > 1
      BY <1>2, <1>5
    <2>2. front[i - k] = hops[i - k] /\ i - k \in 1..Len(hops)
      BY <2>1, <1>1, <1>2, <1>3 DEF front
    <2> QED
      BY <2>1, <2>2, <1>1
  <1>10. RightmostUntrusted(xff) = c
    <2> HIDE DEF xff, m, k
    <2> QED
      BY <1>2, <1>7, <1>8, <1>9, RightmostIsOwn
  <1>11. c # Junk
    BY Sizes
  <1> HIDE DEF xff
  <1>12. ClientIP(Last(hops), xff, realIP) = c
    BY <1>6, <1>10, <1>11 DEF ClientIP, Trusted
  <1> QED
    BY <1>12 DEF xff, hops

\* However a request of c comes in, it is counted as c's.
LEMMA CountersAreOwn ==
    ASSUME NEW c \in Clients, NEW ip \in Counters[c]
    PROVE  ip = c
  <1>1. PICK hops \in Hops(c), claimed \in Claims, realIP \in Addresses \cup {Junk} :
          ip = ClientIP(ClientIP(Last(hops), Arrived(hops, claimed), realIP),
                        Arrived(hops, claimed),
                        ClientIP(Last(hops), Arrived(hops, claimed), realIP))
    BY DEF Counters
  <1>2. PICK ps \in BoundedSeq(Proxies, MaxHops) : hops = <<c>> \o ps
    BY DEF Hops
  <1>3. ps \in Seq(Proxies)
    BY <1>2, Sizes DEF BoundedSeq, SeqOf
  <1>4. claimed \in Seq(Addresses \cup {Junk})
    BY Sizes DEF Claims, BoundedSeq, SeqOf
  <1>5. ClientIP(Last(hops), Arrived(hops, claimed), realIP) = c
    <2>1. CASE ps = <<>>
      <3>1. hops = <<c>>
        BY <1>2, <2>1
      <3>2. Last(hops) = c
        BY <3>1 DEF Last
      <3> QED
        BY <3>2, PeerIsOwn
    <2>2. CASE ps # <<>>
      BY <1>2, <1>3, <1>4, <2>2, ArrivesBehind
    <2> QED
      BY <2>1, <2>2
  <1> QED
    BY <1>1, <1>5, PeerIsOwn

\* A window is a second or more.
LEMMA WindowSize == Window \in Nat \ {0}
  <1>1. Burst \div Rps \in Nat
    BY LimitsAssumption DEF LimitsAssumption
  <1>2. CASE 1 >= Burst \div Rps
    BY <1>1, <1>2, MaxIs DEF Window
  <1>3. CASE ~(1 >= Burst \div Rps)
    BY <1>1, <1>3, MaxIs DEF Window
  <1> QED
    BY <1>1, <1>2, <1>3

-----------------------------------------------------------------------------
(* The invariant *)

\* What is known of a request, by where it is; its address is the client's own.
Handled(req) ==
    /\ req.at = "limit" =>
         /\ req.from \in Clients /\ req.ip = req.from /\ req.bucket \in Buckets
    /\ req.at = "route" => req.from \in Clients /\ req.ip = req.from
    /\ req.at = "upstream" =>
         /\ req.realIP = req.from
         /\ req.route \in {"protected", "optional"}
            => req.userID = (IF req.token = "access" THEN "sub" ELSE "none")

\* The requests of f, the handlers' requests, that c waits for in bucket b.
Waits(req, c, b) == req.at = "limit" /\ req.from = c /\ req.bucket = b
Pending(f, c, b) == {r \in Handlers : Waits(f[r], c, b)}

\* From f to g, r goes on with req and the others stay.
Moved(f, g, r, req) == DOMAIN f = Handlers /\ g = [f EXCEPT ![r] = req]

CounterOf(c, b) == [ip |-> c, bucket |-> b]

Typed ==
    /\ now \in Seconds
    /\ counters \in [Keys -> [n : Nat, left : Int]]
    /\ DOMAIN request = Handlers
    /\ asked \in [Clients -> [Buckets -> Nat]]

\* What the counter of c stands at, and what is still to be counted, c has sent.
Owed ==
    \A c \in Clients, b \in Buckets :
        counters[CounterOf(c, b)].n + Cardinality(Pending(request, c, b)) <= asked[c][b]

IInv ==
    /\ Typed
    /\ \A r \in Handlers : Handled(request[r])
    /\ Owed

LEMMA PendingFinite ==
    ASSUME NEW f, NEW c, NEW b
    PROVE  IsFiniteSet(Pending(f, c, b)) /\ Cardinality(Pending(f, c, b)) \in Nat
  <1>1. Pending(f, c, b) \in SUBSET Handlers /\ IsFiniteSet(Handlers)
    BY HandlersAssumption DEF Pending, HandlersAssumption
  <1>2. IsFiniteSet(Pending(f, c, b))
    BY <1>1, FS_Subset
  <1> QED
    BY <1>2, FS_CardinalityType

\* Counters of clients and buckets are keys of the table.
LEMMA CounterKey ==
    ASSUME NEW c \in Clients, NEW b \in Buckets
    PROVE  CounterOf(c, b) \in Keys
  BY DEF CounterOf, Keys, Addresses

\* A step that moves one request: the others wait where they did.
LEMMA PendingMoves ==
    ASSUME NEW f, NEW g, NEW r \in Handlers, NEW req,
           Moved(f, g, r, req),
           NEW c, NEW b
    PROVE  Pending(g, c, b) = IF Waits(req, c, b) THEN Pending(f, c, b) \cup {r}
                                                  ELSE Pending(f, c, b) \ {r}
  <1>1. g[r] = req /\ \A q \in Handlers : q # r => g[q] = f[q]
    BY DEF Moved
  <1>2. Pending(g, c, b) = {q \in Handlers : Waits(g[q], c, b)}
    BY DEF Pending
  <1>3. Pending(f, c, b) = {q \in Handlers : Waits(f[q], c, b)}
    BY DEF Pending
  <1>4. \A q \in Handlers : q # r => (q \in Pending(g, c, b) <=> q \in Pending(f, c, b))
    BY <1>1, <1>2, <1>3
  <1>5. r \in Pending(g, c, b) <=> Waits(req, c, b)
    BY <1>1, <1>2
  <1>6. Pending(g, c, b) \subseteq Handlers /\ Pending(f, c, b) \subseteq Handlers
    BY <1>2, <1>3
  <1> QED
    BY <1>4, <1>5, <1>6

LEMMA PendingCounts ==
    ASSUME NEW f, NEW g, NEW r \in Handlers, NEW req,
           Moved(f, g, r, req),
           NEW c, NEW b
    PROVE  /\ Cardinality(Pending(g, c, b)) \in Nat
           /\ Cardinality(Pending(g, c, b)) <= Cardinality(Pending(f, c, b)) + 1
           /\ ~Waits(req, c, b) => Cardinality(Pending(g, c, b)) <= Cardinality(Pending(f, c, b))
           /\ ~Waits(req, c, b) /\ r \in Pending(f, c, b)
              => Cardinality(Pending(g, c, b)) = Cardinality(Pending(f, c, b)) - 1
  <1> DEFINE P == Pending(f, c, b)
             Q == Pending(g, c, b)
  <1>1. IsFiniteSet(P) /\ Cardinality(P) \in Nat
    BY PendingFinite
  <1>2. Q = IF Waits(req, c, b) THEN P \cup {r} ELSE P \ {r}
    BY PendingMoves
  <1> HIDE DEF P, Q
  <1>3. Cardinality(P \cup {r}) = (IF r \in P THEN Cardinality(P) ELSE Cardinality(P) + 1)
    BY <1>1, FS_AddElement
  <1>4. Cardinality(P \ {r}) = (IF r \in P THEN Cardinality(P) - 1 ELSE Cardinality(P))
    BY <1>1, FS_RemoveElement
  <1>5. IsFiniteSet(P \cup {r}) /\ IsFiniteSet(P \ {r})
    BY <1>1, FS_AddElement, FS_RemoveElement
  <1>6. Cardinality(P \cup {r}) \in Nat /\ Cardinality(P \ {r}) \in Nat
    BY <1>5, FS_CardinalityType
  <1>7. CASE Waits(req, c, b)
    <2>1. Cardinality(Q) = Cardinality(P \cup {r})
      BY <1>2, <1>7
    <2>2. Cardinality(Q) \in Nat /\ Cardinality(Q) <= Cardinality(P) + 1
      BY <2>1, <1>1, <1>3, <1>6
    <2> QED
      BY <1>7, <2>2 DEF P, Q
  <1>8. CASE ~Waits(req, c, b)
    <2>1. Cardinality(Q) = Cardinality(P \ {r})
      BY <1>2, <1>8
    <2>2. Cardinality(Q) \in Nat /\ Cardinality(Q) <= Cardinality(P) + 1
          /\ Cardinality(Q) <= Cardinality(P)
      BY <2>1, <1>1, <1>4, <1>6
    <2>3. r \in P => Cardinality(Q) = Cardinality(P) - 1
      BY <2>1, <1>4
    <2> QED
      BY <2>2, <2>3 DEF P, Q
  <1> QED
    BY <1>7, <1>8

-----------------------------------------------------------------------------
(* Each action keeps the invariant *)

LEMMA InitIInv == Init => IInv
  <1> SUFFICES ASSUME Init PROVE IInv
    OBVIOUS
  <1>1. counters \in [Keys -> [n : Nat, left : Int]]
    BY DEF Init, NoKey
  <1>2. Typed
    BY <1>1, Sizes DEF Init, Typed, Seconds
  <1>3. \A r \in Handlers : request[r].at = "free"
    BY DEF Init
  <1>4. \A r \in Handlers : Handled(request[r])
    BY <1>3 DEF Handled
  <1>5. Owed
    <2> SUFFICES ASSUME NEW c \in Clients, NEW b \in Buckets
                 PROVE  counters[CounterOf(c, b)].n + Cardinality(Pending(request, c, b)) <= asked[c][b]
      BY DEF Owed
    <2>1. counters[CounterOf(c, b)].n = 0 /\ asked[c][b] = 0
      BY CounterKey DEF Init, NoKey
    <2>2. Pending(request, c, b) = {}
      BY <1>3 DEF Pending, Waits
    <2> QED
      BY <2>1, <2>2, FS_EmptySet
  <1> QED
    BY <1>2, <1>4, <1>5 DEF IInv

\* A request goes on to where nothing is owed, and what it leaves may be counted.
LEMMA MovesOn ==
    ASSUME IInv, NEW r \in Handlers, NEW req,
           request' = [request EXCEPT ![r] = req], req.at # "limit", Handled(req),
           UNCHANGED <<now, counters, asked>>
    PROVE  IInv'
  <1>0. Moved(request, request', r, req)
    BY DEF IInv, Typed, Moved
  <1>1. Typed'
    BY DEF IInv, Typed
  <1>2. \A q \in Handlers : Handled(request[q])'
    BY DEF IInv, Typed, Handled
  <1>3. Owed'
    <2> SUFFICES ASSUME NEW c \in Clients, NEW b \in Buckets
                 PROVE  counters'[CounterOf(c, b)].n + Cardinality(Pending(request', c, b)) <= asked'[c][b]
      BY DEF Owed, CounterOf, Pending, Waits
    <2>1. Cardinality(Pending(request', c, b)) \in Nat /\ Cardinality(Pending(request, c, b)) \in Nat
          /\ Cardinality(Pending(request', c, b)) <= Cardinality(Pending(request, c, b))
      BY <1>0, PendingCounts, PendingFinite DEF Waits
    <2>2. counters[CounterOf(c, b)].n + Cardinality(Pending(request, c, b)) <= asked[c][b]
      BY DEF IInv, Owed
    <2>3. counters[CounterOf(c, b)].n \in Nat /\ asked[c][b] \in Nat
      BY CounterKey DEF IInv, Typed
    <2> QED
      BY <2>1, <2>2, <2>3
  <1> QED
    BY <1>1, <1>2, <1>3 DEF IInv

\* The script counts a request that waited for it.
LEMMA IsCounted ==
    ASSUME IInv, NEW r \in Handlers, NEW req, At(r, "limit"),
           request' = [request EXCEPT ![r] = req], req.at # "limit", Handled(req),
           counters' = [counters EXCEPT ![Key(request[r])] = Increment(Key(request[r]))],
           UNCHANGED <<now, asked>>
    PROVE  IInv'
  <1> DEFINE k == Key(request[r])
             from == request[r].from
             bucket == request[r].bucket
  <1>0. Moved(request, request', r, req)
    BY DEF IInv, Typed, Moved
  <1>1. from \in Clients /\ bucket \in Buckets /\ k = CounterOf(from, bucket)
    BY DEF IInv, Handled, At, Key, CounterOf
  <1>2. k \in Keys
    BY <1>1, CounterKey
  <1>3. Increment(k) \in [n : Nat, left : Int] /\ Increment(k).n = counters[k].n + 1
    <2>1. counters[k] \in [n : Nat, left : Int]
      BY <1>2 DEF IInv, Typed
    <2>2. Window \in Int
      BY WindowSize
    <2> QED
      BY <2>1, <2>2 DEF Increment
  <1> HIDE DEF k
  <1>4. counters' = [counters EXCEPT ![k] = Increment(k)]
    BY DEF k
  <1>5. Typed'
    BY <1>2, <1>3, <1>4 DEF IInv, Typed
  <1>6. \A q \in Handlers : Handled(request[q])'
    BY DEF IInv, Typed, Handled
  <1>7. Owed'
    <2> SUFFICES ASSUME NEW c \in Clients, NEW b \in Buckets
                 PROVE  counters'[CounterOf(c, b)].n + Cardinality(Pending(request', c, b)) <= asked'[c][b]
      BY DEF Owed, CounterOf, Pending, Waits
    <2>1. Cardinality(Pending(request', c, b)) \in Nat /\ Cardinality(Pending(request, c, b)) \in Nat
          /\ Cardinality(Pending(request', c, b)) <= Cardinality(Pending(request, c, b))
      BY <1>0, PendingCounts, PendingFinite DEF Waits
    <2>2. counters[CounterOf(c, b)].n + Cardinality(Pending(request, c, b)) <= asked[c][b]
      BY DEF IInv, Owed
    <2>3. counters[CounterOf(c, b)].n \in Nat /\ asked[c][b] \in Nat
      BY CounterKey DEF IInv, Typed
    <2>4. CASE c = from /\ b = bucket
      <3>1. r \in Pending(request, c, b)
        BY <2>4 DEF Pending, Waits, At
      <3>2. Cardinality(Pending(request', c, b)) = Cardinality(Pending(request, c, b)) - 1
        <4>1. ~Waits(req, c, b)
          BY DEF Waits
        <4> QED
          BY <1>0, <3>1, <4>1, PendingCounts
      <3>3. counters'[CounterOf(c, b)].n = counters[CounterOf(c, b)].n + 1
        BY <1>1, <1>2, <1>3, <1>4, <2>4 DEF IInv, Typed
      <3> QED
        BY <2>1, <2>2, <2>3, <3>2, <3>3
    <2>5. CASE ~(c = from /\ b = bucket)
      <3>1. CounterOf(c, b) # k
        BY <1>1, <2>5 DEF CounterOf
      <3>2. counters'[CounterOf(c, b)].n = counters[CounterOf(c, b)].n
        BY <1>4, <3>1, CounterKey DEF IInv, Typed
      <3> QED
        BY <2>1, <2>2, <2>3, <3>2
    <2> QED
      BY <2>4, <2>5
  <1> QED
    BY <1>5, <1>6, <1>7 DEF IInv

\* A request of c that is taken by the limiter is added to what c has sent.
LEMMA IsTaken ==
    ASSUME IInv, NEW r \in Handlers, NEW c \in Clients, NEW ip \in Counters[c],
           NEW req, req = [at |-> "limit", from |-> c, ip |-> ip, bucket |-> now \div Window],
           request' = [request EXCEPT ![r] = req],
           asked' = [asked EXCEPT ![c][now \div Window] = @ + 1],
           UNCHANGED <<now, counters>>
    PROVE  IInv'
  <1> DEFINE bucket == now \div Window
  <1>0. Moved(request, request', r, req)
    BY DEF IInv, Typed, Moved
  <1>1. bucket \in Buckets
    BY DEF IInv, Typed, Buckets
  <1>2. ip = c
    BY CountersAreOwn
  <1>3. Handled(req)
    BY <1>1, <1>2 DEF Handled
  <1>4. \A q \in Handlers : Handled(request[q])'
    BY <1>3 DEF IInv, Typed, Handled
  <1>5. req.at = "limit" /\ req.from = c /\ req.bucket = bucket
    OBVIOUS
  <1> HIDE DEF bucket
  <1>6. asked' = [asked EXCEPT ![c][bucket] = @ + 1]
    BY DEF bucket
  <1>7. Typed'
    BY <1>1, <1>6 DEF IInv, Typed
  <1>8. Owed'
    <2> SUFFICES ASSUME NEW d \in Clients, NEW b \in Buckets
                 PROVE  counters'[CounterOf(d, b)].n + Cardinality(Pending(request', d, b)) <= asked'[d][b]
      BY DEF Owed, CounterOf, Pending, Waits
    <2>1. Cardinality(Pending(request', d, b)) \in Nat /\ Cardinality(Pending(request, d, b)) \in Nat
          /\ Cardinality(Pending(request', d, b)) <= Cardinality(Pending(request, d, b)) + 1
      BY <1>0, PendingCounts, PendingFinite
    <2>2. counters[CounterOf(d, b)].n + Cardinality(Pending(request, d, b)) <= asked[d][b]
      BY DEF IInv, Owed
    <2>3. counters[CounterOf(d, b)].n \in Nat /\ asked[d][b] \in Nat
      BY CounterKey DEF IInv, Typed
    <2>4. CASE d = c /\ b = bucket
      <3>1. asked'[d][b] = asked[d][b] + 1
        BY <1>1, <1>6, <2>4 DEF IInv, Typed
      <3> QED
        BY <2>1, <2>2, <2>3, <3>1
    <2>5. CASE ~(d = c /\ b = bucket)
      <3>1. ~Waits(req, d, b)
        BY <1>5, <2>5 DEF Waits
      <3>2. Cardinality(Pending(request', d, b)) <= Cardinality(Pending(request, d, b))
        BY <1>0, <3>1, PendingCounts
      <3>3. asked'[d][b] = asked[d][b]
        BY <1>6, <2>5 DEF IInv, Typed
      <3> QED
        BY <2>1, <2>2, <2>3, <3>2, <3>3
    <2> QED
      BY <2>4, <2>5
  <1> QED
    BY <1>4, <1>7, <1>8 DEF IInv

\* What the proxy forwards carries the client's address and a verified identity.
LEMMA ForwardedIsHandled ==
    ASSUME NEW req, Handled(req), req.at = "route",
           NEW route, NEW token, NEW sent
    PROVE  Handled(Forwarded(req, route, token, UserID(route, token, sent)))
           \/ (route = "protected" /\ token # "access")
  BY DEF Handled, Forwarded, UserID

LEMMA TickIInv == ASSUME IInv, Tick PROVE IInv'
  <1>1. Typed'
    <2>1. now' \in Seconds
      BY Sizes DEF IInv, Typed, Tick, Seconds
    <2>2. \A k \in Keys : counters[k] \in [n : Nat, left : Int]
      BY DEF IInv, Typed
    <2>3. \A k \in Keys : [counters[k] EXCEPT !.left = @ - 1] \in [n : Nat, left : Int]
      BY <2>2
    <2>4. counters' \in [Keys -> [n : Nat, left : Int]]
      BY <2>3 DEF Tick, NoKey
    <2> QED
      BY <2>1, <2>4 DEF IInv, Typed, Tick, history
  <1>2. \A q \in Handlers : Handled(request[q])'
    BY DEF IInv, Tick, Handled
  <1>3. Owed'
    <2> SUFFICES ASSUME NEW c \in Clients, NEW b \in Buckets
                 PROVE  counters'[CounterOf(c, b)].n + Cardinality(Pending(request', c, b)) <= asked'[c][b]
      BY DEF Owed, CounterOf, Pending, Waits
    <2> DEFINE k == CounterOf(c, b)
    <2>1. k \in Keys
      BY CounterKey
    <2>2. counters[k].n + Cardinality(Pending(request, c, b)) <= asked[c][b]
      BY DEF IInv, Owed
    <2>3. counters[k] \in [n : Nat, left : Int] /\ asked[c][b] \in Nat
          /\ Cardinality(Pending(request, c, b)) \in Nat
      BY <2>1, PendingFinite DEF IInv, Typed
    <2>4. UNCHANGED <<request, asked>>
      BY DEF Tick, history
    <2> HIDE DEF k
    <2>5. counters'[k] = NoKey \/ counters'[k] = [counters[k] EXCEPT !.left = @ - 1]
      BY <2>1 DEF Tick
    <2>6. [counters[k] EXCEPT !.left = @ - 1].n = counters[k].n
      BY <2>3
    <2>7. counters'[k].n \in Nat /\ counters'[k].n <= counters[k].n
      BY <2>3, <2>5, <2>6 DEF NoKey
    <2>8. counters'[k].n + Cardinality(Pending(request', c, b)) <= asked'[c][b]
      BY <2>2, <2>3, <2>4, <2>7
    <2> QED
      BY <2>8 DEF k
  <1> QED
    BY <1>1, <1>2, <1>3 DEF IInv

LEMMA NextIInv == ASSUME IInv, [Next]_vars PROVE IInv'
  <1>1. ASSUME NEW r \in Handlers, Arrive(r) PROVE IInv'
    <2>1. PICK c \in Clients, kind \in {"api", "preflight", "health"} :
            \/ /\ Counted(kind)
               /\ \E ip \in Counters[c] :
                    Goto(r, [at |-> "limit", from |-> c, ip |-> ip, bucket |-> now \div Window])
               /\ asked' = IF kind = "api" THEN [asked EXCEPT ![c][now \div Window] = @ + 1] ELSE asked
            \/ ~Counted(kind) /\ Answer(r) /\ UNCHANGED asked
      BY <1>1 DEF Arrive
    <2>2. UNCHANGED <<now, counters>>
      BY <1>1 DEF Arrive, redis
    <2>3. CASE Counted(kind)
      <3>1. asked' = [asked EXCEPT ![c][now \div Window] = @ + 1]
        BY <2>1, <2>3 DEF Counted
      <3>2. PICK ip \in Counters[c] :
              Goto(r, [at |-> "limit", from |-> c, ip |-> ip, bucket |-> now \div Window])
        BY <2>1, <2>3
      <3> QED
        BY <2>2, <3>1, <3>2, IsTaken DEF Goto
    <2>4. CASE ~Counted(kind)
      <3>1. Answer(r) /\ UNCHANGED asked
        BY <2>1, <2>4
      <3>2. Handled([at |-> "free"])
        BY DEF Handled
      <3> QED
        BY <2>2, <3>1, <3>2, MovesOn DEF Answer, Goto
    <2> QED
      BY <2>3, <2>4
  <1>2. ASSUME NEW r \in Handlers, Limit(r) PROVE IInv'
    <2> DEFINE req == [at |-> "route", from |-> request[r].from, ip |-> request[r].ip]
    <2>1. Handled(req) /\ Handled([at |-> "429"])
      BY <1>2 DEF Limit, At, IInv, Handled
    <2>2. Goto(r, req) \/ Goto(r, [at |-> "429"])
      BY <1>2 DEF Limit
    <2>3. At(r, "limit") /\ UNCHANGED <<now, asked>>
          /\ counters' = [counters EXCEPT ![Key(request[r])] = Increment(Key(request[r]))]
      BY <1>2 DEF Limit
    <2>4. req.at # "limit"
      OBVIOUS
    <2> HIDE DEF req
    <2>5. CASE Goto(r, req)
      BY <2>1, <2>3, <2>4, <2>5, IsCounted DEF Goto
    <2>6. CASE Goto(r, [at |-> "429"])
      BY <2>1, <2>3, <2>6, IsCounted DEF Goto
    <2> QED
      BY <2>2, <2>5, <2>6
  <1>3. ASSUME NEW r \in Handlers, FailOpen(r) PROVE IInv'
    <2> DEFINE req == [at |-> "route", from |-> request[r].from, ip |-> request[r].ip]
    <2>1. Handled(req)
      BY <1>3 DEF FailOpen, At, IInv, Handled
    <2>2. Goto(r, req) /\ At(r, "limit") /\ UNCHANGED <<now, asked>>
      BY <1>3 DEF FailOpen, history
    <2>3. req.at # "limit"
      OBVIOUS
    <2>4. counters' = [counters EXCEPT ![Key(request[r])] = Increment(Key(request[r]))]
          \/ UNCHANGED counters
      BY <1>3 DEF FailOpen
    <2> HIDE DEF req
    <2>5. CASE UNCHANGED counters
      BY <2>1, <2>2, <2>3, <2>5, MovesOn DEF Goto
    <2>6. CASE counters' = [counters EXCEPT ![Key(request[r])] = Increment(Key(request[r]))]
      BY <2>1, <2>2, <2>3, <2>6, IsCounted DEF Goto
    <2> QED
      BY <2>4, <2>5, <2>6
  <1>4. ASSUME NEW r \in Handlers, Route(r) PROVE IInv'
    <2>1. PICK route \in {"protected", "optional", "other"}, sent \in {"none", "forged"} :
          \E token \in {"access", "other"} :
            IF route = "protected" /\ token # "access" THEN Answer(r)
            ELSE Goto(r, Forwarded(request[r], route, token, UserID(route, token, sent)))
      BY <1>4 DEF Route
    <2>2. PICK token \in {"access", "other"} :
            IF route = "protected" /\ token # "access" THEN Answer(r)
            ELSE Goto(r, Forwarded(request[r], route, token, UserID(route, token, sent)))
      BY <2>1
    <2>3. UNCHANGED <<now, counters, asked>> /\ request[r].at = "route" /\ Handled(request[r])
      BY <1>4 DEF Route, redis, history, At, IInv
    <2>4. CASE route = "protected" /\ token # "access"
      <3>1. Handled([at |-> "free"])
        BY DEF Handled
      <3> QED
        BY <2>2, <2>3, <2>4, <3>1, MovesOn DEF Answer, Goto
    <2>5. CASE ~(route = "protected" /\ token # "access")
      <3> DEFINE req == Forwarded(request[r], route, token, UserID(route, token, sent))
      <3>1. Handled(req)
        BY <2>3, <2>5, ForwardedIsHandled
      <3>2. req.at # "limit"
        BY DEF Forwarded
      <3>3. request' = [request EXCEPT ![r] = req]
        BY <2>2, <2>5 DEF Goto
      <3> HIDE DEF req
      <3> QED
        BY <2>3, <3>1, <3>2, <3>3, MovesOn
    <2> QED
      BY <2>4, <2>5
  <1>5. ASSUME NEW r \in Handlers, Respond(r) PROVE IInv'
    <2>1. Answer(r) /\ UNCHANGED <<now, counters, asked>>
      BY <1>5 DEF Respond, redis, history
    <2>2. Handled([at |-> "free"])
      BY DEF Handled
    <2> QED
      BY <2>1, <2>2, MovesOn DEF Answer, Goto
  <1>6. CASE Tick
    BY <1>6, TickIInv
  <1>7. CASE UNCHANGED vars
    <2>1. UNCHANGED <<now, counters, request, asked>>
      BY <1>7 DEF vars, redis, history
    <2> QED
      BY <2>1 DEF IInv, Typed, Owed, Handled, Pending, Waits, CounterOf
  <1> QED
    BY <1>1, <1>2, <1>3, <1>4, <1>5, <1>6, <1>7 DEF Next

LEMMA IInvAlways == Spec => []IInv
  BY InitIInv, NextIInv, PTL DEF Spec

-----------------------------------------------------------------------------
(* The theorems *)

\* Whatever a client claims and however many trusted proxies its request passes, it is
\* counted, and shown to the services, under its own address (clientip.go:45-78).
THEOREM AddressIsOwn == Spec => []OwnAddress
  <1>1. IInv => OwnAddress
    BY DEF IInv, OwnAddress, Handled, At
  <1> QED
    BY <1>1, IInvAlways, PTL

\* Where services rely on X-User-ID it comes from a valid access token or is not there
\* (pkg/middleware/auth.go:68-95).
THEOREM IdentityIsVerified == Spec => []VerifiedIdentity
  <1>1. IInv => VerifiedIdentity
    BY DEF IInv, VerifiedIdentity, Handled, At
  <1> QED
    BY <1>1, IInvAlways, PTL

\* A client is answered 429 only when it sent more than a burst itself in that bucket,
\* for any rate and any number of clients and instances (ratelimit.go:69-85).
THEOREM RefusedForOwn == Spec => RefusedForOwnTraffic
  <1> DEFINE Refusal == \A r \in Handlers :
               At(r, "limit") /\ request'[r].at = "429"
               => asked[request[r].from][request[r].bucket] > Burst
  <1>1. IInv /\ [Next]_vars => [Refusal]_vars
    <2> SUFFICES ASSUME IInv, Next, NEW r \in Handlers,
                        At(r, "limit"), request'[r].at = "429"
                 PROVE  asked[request[r].from][request[r].bucket] > Burst
      OBVIOUS
    <2> DEFINE c == request[r].from
               b == request[r].bucket
    <2>1. c \in Clients /\ b \in Buckets /\ Key(request[r]) = CounterOf(c, b)
      BY DEF IInv, Handled, At, Key, CounterOf
    <2>2. Limit(r)
      <3>1. \A q \in Handlers : Arrive(q) \/ FailOpen(q) \/ Route(q) \/ Respond(q)
              => q = r \/ request'[r] = request[r]
        BY DEF Arrive, FailOpen, Route, Respond, Goto, Answer, IInv, Typed
      <3>2. \A q \in Handlers : Limit(q) => q = r \/ request'[r] = request[r]
        BY DEF Limit, Goto, IInv, Typed
      <3>3. request'[r] # request[r]
        BY DEF At
      <3>4. ~Arrive(r) /\ ~Route(r) /\ ~Respond(r)
        BY DEF Arrive, Route, Respond, At
      <3>5. ~FailOpen(r)
        BY DEF FailOpen, Goto, IInv, Typed
      <3>6. ~Tick
        BY <3>3 DEF Tick
      <3> QED
        BY <3>1, <3>2, <3>3, <3>4, <3>5, <3>6 DEF Next
    <2>3. ~Allowed(Increment(Key(request[r])).n)
      <3>1. counters' = [counters EXCEPT ![Key(request[r])] = Increment(Key(request[r]))]
            /\ (Allowed(counters'[Key(request[r])].n)
                => Goto(r, [at |-> "route", from |-> c, ip |-> request[r].ip]))
        BY <2>2 DEF Limit
      <3>2. counters'[Key(request[r])] = Increment(Key(request[r]))
        BY <2>1, <3>1, CounterKey DEF IInv, Typed
      <3>3. ~Goto(r, [at |-> "route", from |-> c, ip |-> request[r].ip])
        BY DEF Goto, IInv, Typed
      <3> QED
        BY <3>1, <3>2, <3>3
    <2>4. counters[CounterOf(c, b)].n + 1 > Burst /\ counters[CounterOf(c, b)].n \in Nat
      BY <2>1, <2>3, CounterKey, Sizes DEF Allowed, Increment, IInv, Typed
    <2>5. Cardinality(Pending(request, c, b)) \in Nat /\ Cardinality(Pending(request, c, b)) >= 1
      <3>1. r \in Pending(request, c, b)
        BY DEF Pending, Waits, At
      <3>2. IsFiniteSet(Pending(request, c, b)) /\ Cardinality(Pending(request, c, b)) \in Nat
        BY PendingFinite
      <3>3. Cardinality(Pending(request, c, b)) # 0
        BY <3>1, <3>2, FS_EmptySet
      <3> QED
        BY <3>2, <3>3
    <2>6. counters[CounterOf(c, b)].n + Cardinality(Pending(request, c, b)) <= asked[c][b]
          /\ asked[c][b] \in Nat
      BY <2>1 DEF IInv, Owed, Typed
    <2> QED
      BY <2>4, <2>5, <2>6, Sizes
  <1> QED
    BY <1>1, IInvAlways, PTL DEF Spec, RefusedForOwnTraffic

-----------------------------------------------------------------------------
(* The rate: what is let through, second by second and bucket by bucket *)

\* A bucket begins at a second and lasts a window.
Start(b)       == b * Window
InBucket(b, t) == Start(b) <= t /\ t < Start(b) + Window

LEMMA StartIs ==
    ASSUME NEW b \in Nat
    PROVE  Start(b) \in Nat /\ Start(b + 1) = Start(b) + Window
  BY WindowSize DEF Start

\* Every second is in the bucket it is counted in, and in no other.
LEMMA BucketOf ==
    ASSUME NEW t \in Nat
    PROVE  t \div Window \in Nat /\ InBucket(t \div Window, t)
  BY WindowSize DEF InBucket, Start

LEMMA BucketIs ==
    ASSUME NEW t \in Nat, NEW b \in Nat, InBucket(b, t)
    PROVE  b = t \div Window
  BY WindowSize DEF InBucket, Start

LEMMA BucketsApart ==
    ASSUME NEW a \in Nat, NEW b \in Nat, a < b
    PROVE  Start(a) + Window <= Start(b)
  BY WindowSize DEF Start

\* Buckets begin within the time there is.
LEMMA BucketStart ==
    ASSUME NEW b \in Buckets
    PROVE  b \in Nat /\ Start(b) \in Seconds
  <1>1. PICK t \in Seconds : b = t \div Window
    BY DEF Buckets
  <1>2. t \in Nat /\ t <= MaxTime
    BY <1>1, Sizes DEF Seconds
  <1>3. b \in Nat /\ Start(b) <= t
    BY <1>1, <1>2, BucketOf DEF InBucket
  <1>4. Start(b) \in Nat
    BY <1>3, StartIs
  <1> QED
    BY <1>2, <1>3, <1>4, Sizes DEF Seconds

\* The next second is in the same bucket or begins the next one.
LEMMA NextBucket ==
    ASSUME NEW t \in Nat
    PROVE  LET b == t \div Window IN
           \/ (t + 1) \div Window = b /\ t + 1 < Start(b) + Window
           \/ (t + 1) \div Window = b + 1 /\ t + 1 = Start(b + 1)
  <1> DEFINE b == t \div Window
  <1>1. b \in Nat /\ InBucket(b, t)
    BY BucketOf
  <1> HIDE DEF b
  <1>2. /\ Start(b) \in Nat /\ Start(b + 1) = Start(b) + Window /\ Window \in Nat \ {0}
        /\ Start(b) <= t /\ t < Start(b) + Window
    BY <1>1, StartIs, WindowSize DEF InBucket
  <1>3. CASE t + 1 < Start(b) + Window
    <2>1. InBucket(b, t + 1)
      BY <1>2, <1>3 DEF InBucket
    <2>2. b = (t + 1) \div Window
      BY <1>1, <2>1, BucketIs
    <2> QED
      BY <1>3, <2>2 DEF b
  <1>4. CASE ~(t + 1 < Start(b) + Window)
    <2>1. t + 1 = Start(b + 1)
      BY <1>2, <1>4
    <2>2. InBucket(b + 1, t + 1)
      BY <1>2, <2>1 DEF InBucket
    <2>3. b + 1 = (t + 1) \div Window
      BY <1>1, <2>2, BucketIs
    <2> QED
      BY <2>1, <2>3 DEF b
  <1> QED
    BY <1>3, <1>4

\* How many of a client were let through up to each second: never fewer than before,
\* none after n, and no more than a burst in any bucket.
Past(f, n) ==
    /\ f \in [Seconds -> Nat]
    /\ \A t, u \in Seconds : t <= u => f[t] <= f[u]
    /\ \A u \in Seconds : n <= u => f[u] = f[n]
    /\ \A b \in Buckets, u \in Seconds : InBucket(b, u) => f[u] - Before(f, Start(b)) <= Burst

\* The counter k of the bucket of second n knows of them, and lives as long as the bucket.
Current(f, n, k) ==
    /\ f[n] - Before(f, Start(n \div Window)) <= k.n
    /\ k.n > 0 => k.left >= Start(n \div Window) + Window - n

Rated(p, cs, n) ==
    \A c \in Clients : Past(p[c], n) /\ Current(p[c], n, cs[CounterOf(c, n \div Window)])

\* No bucket is counted or waited for before it begins.
Ahead(cs, n) ==
    \A c \in Clients, b \in Buckets : b > n \div Window => cs[CounterOf(c, b)].n = 0

Due(f, n) == \A r \in Handlers : f[r].at = "limit" => f[r].bucket <= n \div Window

RateInv ==
    /\ IInv
    /\ passed \in [Clients -> [Seconds -> Nat]]
    /\ Rated(passed, counters, now) /\ Ahead(counters, now) /\ Due(request, now)

\* In any window no more than two bursts: it lies in a bucket and the one before it.
LEMMA TwoBuckets ==
    ASSUME NEW f, NEW n, Past(f, n), NEW t \in Seconds, NEW u \in Seconds,
           t <= u, u < t + Window
    PROVE  f[u] - Before(f, t) <= 2 * Burst
  <1> DEFINE b == u \div Window
             s == Start(b)
  <1>1. /\ t \in Nat /\ u \in Nat /\ Burst \in Nat /\ Window \in Nat \ {0}
        /\ t <= MaxTime /\ u <= MaxTime /\ MaxTime \in Nat
    BY Sizes, WindowSize DEF Seconds
  <1>2. b \in Buckets /\ b \in Nat /\ InBucket(b, u) /\ s \in Seconds /\ s <= u
    BY <1>1, BucketOf, BucketStart DEF Buckets, InBucket
  <1> HIDE DEF b
  <1>3. f[u] - Before(f, s) <= Burst
    BY <1>2 DEF Past
  <1>4. s \in Nat
    BY <1>2 DEF Seconds
  <1>5. \A x \in Seconds : f[x] \in Nat
    BY DEF Past
  <1>6. \A x \in Seconds : Before(f, x) \in Nat /\ (x > 0 => x - 1 \in Seconds)
    BY <1>1, <1>5 DEF Before, Seconds
  <1>7. \A x, y \in Seconds : x <= y => Before(f, x) <= Before(f, y)
    <2>1. SUFFICES ASSUME NEW x \in Seconds, NEW y \in Seconds, x <= y
                   PROVE  Before(f, x) <= Before(f, y)
      OBVIOUS
    <2>2. CASE x = 0
      <3>1. Before(f, x) = 0
        BY <2>2 DEF Before
      <3> QED
        BY <1>6, <3>1
    <2>3. CASE x # 0
      <3>1. x > 0 /\ y > 0 /\ y # 0 /\ x - 1 <= y - 1
        BY <2>1, <2>3 DEF Seconds
      <3>2. x - 1 \in Seconds /\ y - 1 \in Seconds
        BY <1>6, <3>1
      <3>3. f[x - 1] <= f[y - 1]
        BY <3>1, <3>2 DEF Past
      <3> QED
        BY <2>3, <3>1, <3>3 DEF Before
    <2> QED
      BY <2>2, <2>3
  <1>8. CASE s <= t
    <2>1. Before(f, s) <= Before(f, t)
      BY <1>2, <1>7, <1>8
    <2>2. Before(f, s) \in Nat /\ Before(f, t) \in Nat /\ f[u] \in Nat
      BY <1>2, <1>5, <1>6
    <2> QED
      BY <1>1, <1>3, <2>1, <2>2
  <1>9. CASE t < s
    <2>1. b # 0
      <3>1. Start(0) = 0
        BY <1>1 DEF Start
      <3> QED
        BY <1>1, <1>9, <3>1
    <2> DEFINE a == b - 1
    <2>2. a \in Nat /\ a + 1 = b
      BY <1>2, <2>1
    <2>3. Start(a) \in Nat /\ s = Start(a) + Window
      BY <2>2, StartIs
    <2>4. s - 1 \in Seconds /\ InBucket(a, s - 1) /\ s > 0
      BY <1>1, <1>2, <1>4, <1>9, <2>3 DEF Seconds, InBucket
    <2>5. a \in Buckets
      <3>1. a = (s - 1) \div Window
        BY <1>4, <2>2, <2>4, BucketIs
      <3> QED
        BY <2>4, <3>1 DEF Buckets
    <2>6. f[s - 1] - Before(f, Start(a)) <= Burst
      BY <2>4, <2>5 DEF Past
    <2>7. Start(a) \in Seconds /\ Start(a) <= t
      BY <1>1, <1>2, <2>3, <2>5, BucketStart
    <2>8. Before(f, Start(a)) <= Before(f, t)
      BY <1>7, <2>7
    <2>9. Before(f, s) = f[s - 1]
      BY <2>4 DEF Before
    <2>10. /\ Before(f, Start(a)) \in Nat /\ Before(f, t) \in Nat /\ f[u] \in Nat
           /\ f[s - 1] \in Nat
      BY <1>5, <1>6, <2>4, <2>7
    <2> HIDE DEF a, s
    <2> QED
      BY <1>1, <1>3, <2>6, <2>8, <2>9, <2>10
  <1> QED
    BY <1>1, <1>4, <1>8, <1>9

\* From cs to ds the counter under key k is incremented, and no other changes.
Counts(cs, ds, k) ==
    /\ ds[k].n = cs[k].n + 1
    /\ ds[k].left = IF cs[k].n = 0 THEN Window ELSE cs[k].left
    /\ \A j \in Keys \ {k} : ds[j] = cs[j]

\* One more let through at second n.
OneMore(f, n) == [t \in Seconds |-> IF t < n THEN f[t] ELSE f[t] + 1]

LEMMA SecondIs ==
    ASSUME NEW n \in Seconds
    PROVE  /\ n \in Nat /\ n <= MaxTime /\ MaxTime \in Nat
           /\ n \div Window \in Buckets /\ n \div Window \in Nat /\ InBucket(n \div Window, n)
           /\ Start(n \div Window) \in Nat
  <1>1. n \in Nat /\ n <= MaxTime /\ MaxTime \in Nat
    BY Sizes DEF Seconds
  <1>2. n \div Window \in Buckets
    BY DEF Buckets
  <1>3. n \div Window \in Nat /\ InBucket(n \div Window, n)
    BY <1>1, BucketOf
  <1> QED
    BY <1>1, <1>2, <1>3, StartIs

\* Letting one more through keeps the bounds while the current bucket is below a burst.
LEMMA OneMoreKeeps ==
    ASSUME NEW n \in Seconds, NEW f, Past(f, n),
           f[n] - Before(f, Start(n \div Window)) < Burst
    PROVE  /\ Past(OneMore(f, n), n)
           /\ OneMore(f, n)[n] - Before(OneMore(f, n), Start(n \div Window))
              = f[n] - Before(f, Start(n \div Window)) + 1
  <1> DEFINE g == OneMore(f, n)
             m == n \div Window
  <1>1. /\ n \in Nat /\ n <= MaxTime /\ MaxTime \in Nat /\ m \in Buckets /\ m \in Nat
        /\ Start(m) <= n /\ n < Start(m) + Window /\ Start(m) \in Nat
    BY SecondIs DEF InBucket
  <1>2. Burst \in Nat /\ Window \in Nat \ {0}
    BY Sizes, WindowSize
  <1>3. \A t \in Seconds : f[t] \in Nat /\ t \in Nat
    BY DEF Past, Seconds
  <1>4. \A t \in Seconds : g[t] = IF t < n THEN f[t] ELSE f[t] + 1
    BY DEF OneMore
  <1>5. g \in [Seconds -> Nat]
    BY <1>3 DEF OneMore
  <1>6. f[n] - Before(f, Start(m)) < Burst
    OBVIOUS
  <1> HIDE DEF g, m
  <1>7. \A s \in Seconds : s <= n => Before(g, s) = Before(f, s)
    <2> SUFFICES ASSUME NEW s \in Seconds, s <= n, s # 0
                 PROVE  g[s - 1] = f[s - 1]
      BY DEF Before
    <2>1. s - 1 \in Seconds /\ s - 1 < n
      BY <1>1, <1>3 DEF Seconds
    <2> QED
      BY <1>4, <2>1
  <1>8. \A s \in Seconds : n < s => Before(g, s) = Before(f, s) + 1
    <2> SUFFICES ASSUME NEW s \in Seconds, n < s
                 PROVE  Before(g, s) = Before(f, s) + 1
      OBVIOUS
    <2>1. s - 1 \in Seconds /\ ~(s - 1 < n) /\ s # 0
      BY <1>1, <1>3 DEF Seconds
    <2>2. g[s - 1] = f[s - 1] + 1
      BY <1>4, <2>1
    <2> QED
      BY <2>1, <2>2 DEF Before
  <1>9. \A s \in Seconds : Before(f, s) \in Nat
    <2> SUFFICES ASSUME NEW s \in Seconds, s # 0
                 PROVE  f[s - 1] \in Nat
      BY DEF Before
    <2>1. s - 1 \in Seconds
      BY <1>1, <1>3 DEF Seconds
    <2> QED
      BY <1>3, <2>1
  <1>10. \A t, u \in Seconds : t <= u => g[t] <= g[u]
    <2> SUFFICES ASSUME NEW t \in Seconds, NEW u \in Seconds, t <= u
                 PROVE  g[t] <= g[u]
      OBVIOUS
    <2>1. f[t] <= f[u]
      BY DEF Past
    <2>2. f[t] \in Nat /\ f[u] \in Nat /\ t \in Nat /\ u \in Nat
      BY <1>3
    <2>3. g[t] = IF t < n THEN f[t] ELSE f[t] + 1
      BY <1>4
    <2>4. g[u] = IF u < n THEN f[u] ELSE f[u] + 1
      BY <1>4
    <2> QED
      BY <1>1, <2>1, <2>2, <2>3, <2>4
  <1>11. \A u \in Seconds : n <= u => g[u] = g[n]
    <2> SUFFICES ASSUME NEW u \in Seconds, n <= u
                 PROVE  g[u] = g[n]
      OBVIOUS
    <2>1. f[u] = f[n]
      BY DEF Past
    <2>2. ~(u < n) /\ ~(n < n)
      BY <1>1, <1>3
    <2> QED
      BY <1>4, <2>1, <2>2
  <1>12. \A b \in Buckets, u \in Seconds : InBucket(b, u) => g[u] - Before(g, Start(b)) <= Burst
    <2> SUFFICES ASSUME NEW b \in Buckets, NEW u \in Seconds, InBucket(b, u)
                 PROVE  g[u] - Before(g, Start(b)) <= Burst
      OBVIOUS
    <2> DEFINE s == Start(b)
    <2>1. b \in Nat /\ s \in Seconds /\ s \in Nat
      BY <1>3, BucketStart
    <2>2. s <= u /\ u < s + Window
      BY DEF InBucket
    <2>3. f[u] - Before(f, s) <= Burst
      BY DEF Past
    <2>4. g[u] = IF u < n THEN f[u] ELSE f[u] + 1
      BY <1>4
    <2>5. u \in Nat /\ f[u] \in Nat /\ f[n] \in Nat /\ Before(f, s) \in Nat
      BY <1>3, <1>9, <2>1
    <2>6. n <= u => f[u] = f[n]
      BY DEF Past
    <2>7. b < m => s + Window <= Start(m)
      BY <1>1, <2>1, BucketsApart
    <2>8. m < b => Start(m) + Window <= s
      BY <1>1, <2>1, BucketsApart
    <2>9. s <= n => Before(g, s) = Before(f, s)
      BY <1>7, <2>1
    <2>10. n < s => Before(g, s) = Before(f, s) + 1
      BY <1>8, <2>1
    <2>11. b = m => f[n] - Before(f, s) < Burst
      BY <1>6
    <2>12. b = m \/ b < m \/ m < b
      BY <1>1, <2>1
    <2> SUFFICES g[u] - Before(g, s) <= Burst
      OBVIOUS
    <2> HIDE DEF s
    <2>13. CASE u < n
      <3>1. s <= n
        BY <1>1, <2>1, <2>2, <2>5, <2>13
      <3>2. g[u] = f[u] /\ Before(g, s) = Before(f, s)
        BY <2>4, <2>9, <2>13, <3>1
      <3> QED
        BY <2>3, <3>2
    <2>14. CASE ~(u < n) /\ n < s
      <3>1. g[u] = f[u] + 1 /\ Before(g, s) = Before(f, s) + 1
        BY <2>4, <2>10, <2>14
      <3>2. (f[u] + 1) - (Before(f, s) + 1) <= Burst
        BY ONLY <1>2, <2>3, <2>5
      <3> QED
        BY <3>1, <3>2
    <2>15. CASE ~(u < n) /\ ~(n < s)
      <3>1. n <= u /\ s <= n
        BY <1>1, <2>1, <2>5, <2>15
      <3>2. ~(b < m)
        BY <1>1, <1>2, <2>1, <2>2, <2>5, <2>7, <3>1
      <3>3. ~(m < b)
        BY <1>1, <1>2, <2>1, <2>8, <3>1
      <3>4. f[n] - Before(f, s) < Burst
        BY <2>11, <2>12, <3>2, <3>3
      <3>5. g[u] = f[n] + 1 /\ Before(g, s) = Before(f, s)
        BY <2>4, <2>6, <2>9, <2>15, <3>1
      <3>6. (f[n] + 1) - Before(f, s) <= Burst
        BY ONLY <1>2, <2>5, <3>4
      <3> QED
        BY <3>5, <3>6
    <2> QED
      BY <2>13, <2>14, <2>15
  <1>13. g[n] - Before(g, Start(m)) = f[n] - Before(f, Start(m)) + 1
    <2>1. Start(m) \in Seconds
      BY <1>1, BucketStart
    <2>2. Before(g, Start(m)) = Before(f, Start(m)) /\ Before(f, Start(m)) \in Nat
      BY <1>1, <1>7, <1>9, <2>1
    <2>3. g[n] = f[n] + 1 /\ f[n] \in Nat
      BY <1>1, <1>3, <1>4
    <2> QED
      BY <2>2, <2>3
  <1>14. Past(g, n)
    BY <1>5, <1>10, <1>11, <1>12 DEF Past
  <1> QED
    BY <1>13, <1>14 DEF g, m

\* From p to q the request that the script counted is let through or not, as the counter
\* now stands and if the bucket is still the current one.
Lets(p, q, ds, c, b, n) ==
    \/ q = p
    \/ /\ b = n \div Window /\ ds[CounterOf(c, b)].n <= Burst
       /\ q = [p EXCEPT ![c] = OneMore(p[c], n)]

\* The script counts a request of c in a bucket b that has begun, and lets it through
\* or not; one that is let through in time is within the burst.
LEMMA CountingKeeps ==
    ASSUME NEW n \in Seconds, NEW c \in Clients, NEW b \in Buckets, b <= n \div Window,
           NEW cs \in [Keys -> [n : Nat, left : Int]], NEW ds, Counts(cs, ds, CounterOf(c, b)),
           NEW p \in [Clients -> [Seconds -> Nat]], NEW q, Lets(p, q, ds, c, b, n),
           Rated(p, cs, n), Ahead(cs, n)
    PROVE  Rated(q, ds, n) /\ Ahead(ds, n)
  <1> DEFINE m == n \div Window
             k == CounterOf(c, b)
  <1>1. m \in Buckets /\ m \in Nat /\ b \in Nat /\ n \in Nat
    BY SecondIs, BucketStart
  <1>2. \A d \in Clients, a \in Buckets : CounterOf(d, a) \in Keys
    BY CounterKey
  <1>3. \A d \in Clients, a \in Buckets : CounterOf(d, a) = k => d = c /\ a = b
    BY DEF CounterOf
  <1>4. k \in Keys
    BY <1>2
  <1>5. ds[k].n = cs[k].n + 1 /\ cs[k].n \in Nat
        /\ ds[k].left = IF cs[k].n = 0 THEN Window ELSE cs[k].left
    BY <1>4 DEF Counts
  <1>6. \A j \in Keys : j # k => ds[j] = cs[j]
    BY DEF Counts
  <1>7. b <= m
    OBVIOUS
  <1>8. \/ q = p
        \/ b = m /\ ds[k].n <= Burst /\ q = [p EXCEPT ![c] = OneMore(p[c], n)]
    BY DEF Lets
  <1> HIDE DEF k
  <1>9. Ahead(ds, n)
    <2> SUFFICES ASSUME NEW d \in Clients, NEW a \in Buckets, a > m
                 PROVE  ds[CounterOf(d, a)].n = 0
      BY DEF Ahead
    <2>1. a # b
      BY <1>1, <1>7
    <2>2. ds[CounterOf(d, a)] = cs[CounterOf(d, a)]
      BY <1>2, <1>3, <1>6, <2>1
    <2> QED
      BY <2>2 DEF Ahead
  <1>10. Rated(q, ds, n)
    <2> SUFFICES ASSUME NEW d \in Clients
                 PROVE  Past(q[d], n) /\ Current(q[d], n, ds[CounterOf(d, m)])
      BY DEF Rated
    <2>1. Past(p[d], n) /\ Current(p[d], n, cs[CounterOf(d, m)])
      BY DEF Rated
    <2>2. CASE CounterOf(d, m) # k
      <3>1. ds[CounterOf(d, m)] = cs[CounterOf(d, m)]
        BY <1>1, <1>2, <1>6, <2>2
      <3>2. b # m \/ d # c
        BY <2>2 DEF k
      <3>3. q[d] = p[d]
        BY <1>8, <3>2
      <3> QED
        BY <2>1, <3>1, <3>3
    <2>3. CASE CounterOf(d, m) = k
      <3>1. d = c /\ m = b
        BY <1>1, <1>3, <2>3
      <3> DEFINE x == p[c][n] - Before(p[c], Start(m))
      <3>2. x <= cs[k].n /\ (cs[k].n > 0 => cs[k].left >= Start(m) + Window - n)
        BY <2>1, <2>3, <3>1 DEF Current
      <3>3. ds[k].left >= Start(m) + Window - n
        <4>1. Start(m) \in Nat /\ Start(m) <= n /\ Window \in Nat
          BY SecondIs, WindowSize DEF InBucket
        <4>2. CASE cs[k].n = 0
          BY <1>1, <1>5, <4>1, <4>2
        <4>3. CASE cs[k].n # 0
          BY <1>5, <3>2, <4>3
        <4> QED
          BY <4>2, <4>3
      <3>4. x \in Int
        <4>1. Before(p[c], Start(m)) \in Nat
          <5>1. Start(m) \in Seconds /\ n <= MaxTime /\ MaxTime \in Nat
            BY <1>1, SecondIs, BucketStart
          <5>2. Start(m) # 0 => Start(m) - 1 \in Seconds
            BY <5>1 DEF Seconds
          <5> QED
            BY <5>2 DEF Before
        <4>2. p[c][n] \in Nat
          OBVIOUS
        <4> QED
          BY <4>1, <4>2
      <3>5. CASE q = p
        <4>1. x <= ds[k].n
          <5> HIDE DEF x
          <5> QED
            BY <1>5, <3>2, <3>4
        <4>2. Current(p[c], n, ds[k])
          BY <3>3, <4>1 DEF Current
        <4> QED
          BY <2>1, <2>3, <3>1, <3>5, <4>2
      <3>6. CASE ds[k].n <= Burst /\ q = [p EXCEPT ![c] = OneMore(p[c], n)]
        <4>1. q[c] = OneMore(p[c], n)
          BY <3>6
        <4>2. x < Burst
          <5> HIDE DEF x
          <5> QED
            BY <1>5, <3>2, <3>4, <3>6, Sizes
        <4>3. Past(OneMore(p[c], n), n)
              /\ OneMore(p[c], n)[n] - Before(OneMore(p[c], n), Start(m)) = x + 1
          BY <2>1, <3>1, <4>2, OneMoreKeeps
        <4>4. x + 1 <= ds[k].n
          <5> HIDE DEF x
          <5> QED
            BY <1>5, <3>2, <3>4
        <4>5. Current(q[c], n, ds[k])
          BY <3>3, <4>1, <4>3, <4>4 DEF Current
        <4> QED
          BY <2>3, <3>1, <4>1, <4>3, <4>5
      <3> QED
        BY <1>8, <3>5, <3>6
    <2> QED
      BY <2>2, <2>3
  <1> QED
    BY <1>9, <1>10

\* A second passes over the counters.
Ages(cs, ds) ==
    \A k \in Keys : ds[k] = IF cs[k].left <= 1 THEN NoKey ELSE [cs[k] EXCEPT !.left = @ - 1]

\* A second passes: in the same bucket its counter lives on, and the next bucket begins
\* with nothing counted and nothing let through.
LEMMA TickingKeeps ==
    ASSUME NEW n \in Seconds, n + 1 \in Seconds,
           NEW cs \in [Keys -> [n : Nat, left : Int]], NEW ds, Ages(cs, ds),
           NEW p \in [Clients -> [Seconds -> Nat]],
           Rated(p, cs, n), Ahead(cs, n)
    PROVE  Rated(p, ds, n + 1) /\ Ahead(ds, n + 1)
  <1> DEFINE m == n \div Window
             l == (n + 1) \div Window
  <1>1. n \in Nat /\ m \in Buckets /\ m \in Nat /\ l \in Buckets /\ l \in Nat
    BY SecondIs
  <1>2. \/ l = m /\ n + 1 < Start(m) + Window
        \/ l = m + 1 /\ n + 1 = Start(m + 1)
    BY <1>1, NextBucket
  <1> HIDE DEF m, l
  <1>0. ASSUME NEW k \in Keys
        PROVE  /\ \/ ds[k].n = 0
                  \/ ds[k].n = cs[k].n /\ ds[k].left = cs[k].left - 1 /\ cs[k].left > 1
               /\ cs[k].n \in Nat /\ cs[k].left \in Int
               /\ cs[k].left > 1 => ds[k].n = cs[k].n
    <2>1. cs[k] \in [n : Nat, left : Int]
      OBVIOUS
    <2>2. ds[k] = IF cs[k].left <= 1 THEN NoKey ELSE [cs[k] EXCEPT !.left = @ - 1]
      BY DEF Ages
    <2> QED
      BY <2>1, <2>2 DEF NoKey
  <1>3. \A k \in Keys : \/ ds[k].n = 0
                        \/ ds[k].n = cs[k].n /\ ds[k].left = cs[k].left - 1 /\ cs[k].left > 1
    BY <1>0
  <1>4. \A k \in Keys : cs[k].n \in Nat /\ cs[k].left \in Int
                        /\ (cs[k].left > 1 => ds[k].n = cs[k].n)
    BY <1>0
  <1>5. Ahead(ds, n + 1)
    <2> SUFFICES ASSUME NEW d \in Clients, NEW a \in Buckets, a > l
                 PROVE  ds[CounterOf(d, a)].n = 0
      BY DEF Ahead, l
    <2>1. a > m
      BY <1>1, <1>2, BucketStart
    <2>2. cs[CounterOf(d, a)].n = 0
      BY <2>1 DEF Ahead, m
    <2> QED
      BY <1>3, <2>2, CounterKey
  <1>6. Rated(p, ds, n + 1)
    <2> SUFFICES ASSUME NEW d \in Clients
                 PROVE  Past(p[d], n + 1) /\ Current(p[d], n + 1, ds[CounterOf(d, l)])
      BY DEF Rated, l
    <2> DEFINE f == p[d]
               k == CounterOf(d, l)
    <2>1. Past(f, n) /\ Current(f, n, cs[CounterOf(d, m)])
      BY DEF Rated, m
    <2>2. f[n + 1] = f[n] /\ f[n] \in Nat
      BY <1>1, <2>1 DEF Past
    <2>3. Past(f, n + 1)
      <3>1. \A u \in Seconds : n + 1 <= u => f[u] = f[n + 1]
        <4> SUFFICES ASSUME NEW u \in Seconds, n + 1 <= u
                     PROVE  f[u] = f[n + 1]
          OBVIOUS
        <4>1. n <= u
          BY <1>1 DEF Seconds
        <4> QED
          BY <2>1, <2>2, <4>1 DEF Past
      <3> QED
        BY <2>1, <3>1 DEF Past
    <2>4. k \in Keys
      BY <1>1, CounterKey
    <2> HIDE DEF f
    <2>5. CASE l = m /\ n + 1 < Start(m) + Window
      <3>1. f[n] - Before(f, Start(m)) <= cs[k].n
            /\ (cs[k].n > 0 => cs[k].left >= Start(m) + Window - n)
        BY <2>1, <2>5 DEF Current, m
      <3> HIDE DEF k
      <3>2. Start(m) \in Nat /\ Window \in Nat
        BY <1>1, StartIs, WindowSize
      <3>3. cs[k].n \in Nat /\ cs[k].left \in Int /\ (cs[k].left > 1 => ds[k].n = cs[k].n)
        BY <1>4, <2>4
      <3>4. \/ ds[k].n = 0
            \/ ds[k].n = cs[k].n /\ ds[k].left = cs[k].left - 1 /\ cs[k].left > 1
        BY <1>3, <2>4
      <3>5. ds[k].n = cs[k].n
        <4>1. CASE cs[k].n > 0
          <5>1. cs[k].left > 1
            BY <1>1, <2>5, <3>1, <3>2, <3>3, <4>1
          <5> QED
            BY <3>3, <5>1
        <4>2. CASE ~(cs[k].n > 0)
          <5>1. cs[k].n = 0
            BY <3>3, <4>2
          <5> QED
            BY <3>4, <5>1
        <4> QED
          BY <4>1, <4>2
      <3>6. ds[k].n > 0 => ds[k].left >= Start(m) + Window - (n + 1)
        <4> SUFFICES ASSUME ds[k].n > 0
                     PROVE  ds[k].left >= Start(m) + Window - (n + 1)
          OBVIOUS
        <4>1. ds[k].left = cs[k].left - 1 /\ cs[k].left >= Start(m) + Window - n
          BY <3>1, <3>4, <3>5
        <4> QED
          BY <1>1, <3>2, <3>3, <4>1
      <3>7. Current(f, n + 1, ds[k])
        BY <2>2, <2>5, <3>1, <3>5, <3>6 DEF Current, l
      <3> QED
        BY <2>3, <3>7 DEF f, k
    <2>6. CASE l = m + 1 /\ n + 1 = Start(m + 1)
      <3>1. Before(f, Start(l)) = f[n]
        <4>1. n + 1 # 0 /\ (n + 1) - 1 = n
          BY <1>1
        <4>2. Start(l) = n + 1
          BY <2>6
        <4> QED
          BY <4>1, <4>2 DEF Before
      <3>2. f[n + 1] - Before(f, Start(l)) = 0
        BY <2>2, <3>1
      <3>3. cs[k].n = 0
        <4>1. l > m
          BY <1>1, <2>6
        <4> QED
          BY <1>1, <4>1 DEF Ahead, m
      <3>4. ds[k].n = 0
        BY <1>3, <2>4, <3>3
      <3>5. Current(f, n + 1, ds[k])
        BY <3>2, <3>4 DEF Current, l
      <3> QED
        BY <2>3, <3>5 DEF f, k
    <2> QED
      BY <1>2, <2>5, <2>6
  <1> QED
    BY <1>5, <1>6

LEMMA InitRate == Init => RateInv
  <1> SUFFICES ASSUME Init PROVE RateInv
    OBVIOUS
  <1>1. IInv
    BY InitIInv
  <1>2. now = 0 /\ 0 \in Seconds /\ Burst \in Nat
    BY Sizes DEF Init, Seconds
  <1>3. passed \in [Clients -> [Seconds -> Nat]] /\ \A c \in Clients, t \in Seconds : passed[c][t] = 0
    BY DEF Init
  <1>4. 0 \div Window \in Nat /\ 0 \div Window \in Buckets
    BY <1>2, SecondIs
  <1>5. \A c \in Clients, b \in Buckets : counters[CounterOf(c, b)].n = 0
    BY CounterKey DEF Init, NoKey
  <1>6. \A c \in Clients, t \in Seconds : Before(passed[c], t) = 0
    <2> SUFFICES ASSUME NEW c \in Clients, NEW t \in Seconds, t # 0
                 PROVE  passed[c][t - 1] = 0
      BY DEF Before
    <2>1. t - 1 \in Seconds
      BY Sizes DEF Seconds
    <2> QED
      BY <1>3, <2>1
  <1>7. Rated(passed, counters, now)
    <2> SUFFICES ASSUME NEW c \in Clients
                 PROVE  Past(passed[c], 0) /\ Current(passed[c], 0, counters[CounterOf(c, 0 \div Window)])
      BY <1>2 DEF Rated
    <2>1. \A b \in Buckets : Before(passed[c], Start(b)) = 0
      BY <1>6, BucketStart
    <2>2. Past(passed[c], 0)
      BY <1>2, <1>3, <2>1 DEF Past
    <2>3. Current(passed[c], 0, counters[CounterOf(c, 0 \div Window)])
      BY <1>2, <1>3, <1>4, <1>5, <2>1 DEF Current
    <2> QED
      BY <2>2, <2>3
  <1>8. Ahead(counters, now) /\ Due(request, now)
    BY <1>5 DEF Ahead, Due, Init
  <1> QED
    BY <1>1, <1>3, <1>7, <1>8 DEF RateInv

\* A step that counts nothing, at which no request comes to wait for a later bucket.
LEMMA RateStays ==
    ASSUME RateInv, IInv', UNCHANGED <<now, counters, passed>>, Due(request', now)
    PROVE  RateInv'
  <1>1. Rated(passed', counters', now') /\ Ahead(counters', now') /\ Due(request', now')
    BY DEF RateInv
  <1>2. Rated(passed, counters, now)' /\ Ahead(counters, now)' /\ Due(request, now)'
    BY <1>1 DEF Rated, Past, Current, Before, CounterOf, Ahead, Due
  <1> QED
    BY <1>2 DEF RateInv

\* The script runs for a request that waits, and lets it through or not.
LEMMA RateCounted ==
    ASSUME RateInv, IInv', NEW r \in Handlers, NEW req, At(r, "limit"),
           request' = [request EXCEPT ![r] = req], req.at # "limit",
           counters' = [counters EXCEPT ![Key(request[r])] = Increment(Key(request[r]))],
           \/ passed' = passed
           \/ /\ Allowed(counters'[Key(request[r])].n) /\ now \div Window = Key(request[r]).bucket
              /\ passed' = [passed EXCEPT ![request[r].from] =
                              [t \in Seconds |-> IF t < now THEN @[t] ELSE @[t] + 1]],
           UNCHANGED now
    PROVE  RateInv'
  <1> DEFINE c == request[r].from
             b == request[r].bucket
             k == CounterOf(c, b)
  <1>1. /\ c \in Clients /\ b \in Buckets /\ Key(request[r]) = k /\ Key(request[r]).bucket = b
        /\ b <= now \div Window /\ now \in Seconds
        /\ counters \in [Keys -> [n : Nat, left : Int]]
    BY DEF RateInv, IInv, Typed, Handled, At, Key, CounterOf, Due
  <1>2. k \in Keys
    BY <1>1, CounterKey
  <1>3. counters' = [counters EXCEPT ![k] = Increment(k)]
    BY <1>1
  <1>4. Counts(counters, counters', k)
    <2> HIDE DEF k
    <2>1. counters'[k] = Increment(k) /\ \A j \in Keys \ {k} : counters'[j] = counters[j]
      BY <1>1, <1>2, <1>3
    <2> QED
      BY <2>1 DEF Counts, Increment
  <1>5. passed \in [Clients -> [Seconds -> Nat]]
        /\ Rated(passed, counters, now) /\ Ahead(counters, now) /\ Due(request, now)
    BY DEF RateInv
  <1>6. Lets(passed, passed', counters', c, b, now)
    <2>1. Allowed(counters'[Key(request[r])].n) => counters'[k].n <= Burst
      BY <1>1 DEF Allowed
    <2>2. ASSUME passed' = [passed EXCEPT ![c] =
                              [t \in Seconds |-> IF t < now THEN @[t] ELSE @[t] + 1]]
          PROVE  passed' = [passed EXCEPT ![c] = OneMore(passed[c], now)]
      BY <2>2 DEF OneMore
    <2> QED
      BY <1>1, <2>1, <2>2 DEF Lets
  <1> HIDE DEF c, b
  <1>7. Rated(passed', counters', now) /\ Ahead(counters', now)
    BY <1>1, <1>4, <1>5, <1>6, CountingKeeps
  <1>8. passed' \in [Clients -> [Seconds -> Nat]]
    <2>1. OneMore(passed[c], now) \in [Seconds -> Nat]
      BY <1>1, <1>5 DEF OneMore
    <2> QED
      BY <1>5, <1>6, <2>1 DEF Lets
  <1>9. Due(request', now)
    BY <1>5 DEF Due, RateInv, IInv, Typed
  <1>10. Rated(passed, counters, now)' /\ Ahead(counters, now)' /\ Due(request, now)'
    BY <1>7, <1>9 DEF Rated, Past, Current, Before, CounterOf, Ahead, Due
  <1> QED
    BY <1>8, <1>10 DEF RateInv

LEMMA NextRate == RateInv /\ [Next]_vars => RateInv'
  <1> SUFFICES ASSUME RateInv, [Next]_vars PROVE RateInv'
    OBVIOUS
  <1>0. IInv /\ IInv'
    BY NextIInv DEF RateInv
  <1>1. now \in Seconds /\ DOMAIN request = Handlers /\ Due(request, now)
    BY DEF RateInv, IInv, Typed
  <1>2. ASSUME NEW r \in Handlers, NEW req, request' = [request EXCEPT ![r] = req],
               UNCHANGED <<now, counters, passed>>,
               req.at = "limit" => req.bucket <= now \div Window
        PROVE  RateInv'
    <2>1. Due(request', now)
      BY <1>1, <1>2 DEF Due
    <2> QED
      BY <1>0, <1>2, <2>1, RateStays
  <1>3. ASSUME NEW r \in Handlers, Arrive(r) PROVE RateInv'
    <2>1. PICK c \in Clients, kind \in {"api", "preflight", "health"} :
            \/ \E ip \in Counters[c] :
                 Goto(r, [at |-> "limit", from |-> c, ip |-> ip, bucket |-> now \div Window])
            \/ Answer(r)
      BY <1>3 DEF Arrive
    <2>2. UNCHANGED <<now, counters, passed>>
      BY <1>3 DEF Arrive, redis
    <2>3. CASE Answer(r)
      BY <1>2, <2>2, <2>3 DEF Answer, Goto
    <2>4. CASE \E ip \in Counters[c] :
                 Goto(r, [at |-> "limit", from |-> c, ip |-> ip, bucket |-> now \div Window])
      <3>1. PICK ip \in Counters[c] :
                 Goto(r, [at |-> "limit", from |-> c, ip |-> ip, bucket |-> now \div Window])
        BY <2>4
      <3>2. now \div Window <= now \div Window
        BY <1>1, SecondIs
      <3> QED
        BY <1>2, <2>2, <3>1, <3>2 DEF Goto
    <2> QED
      BY <2>1, <2>3, <2>4
  <1>4. ASSUME NEW r \in Handlers, Limit(r) PROVE RateInv'
    <2>1. At(r, "limit") /\ UNCHANGED now
          /\ counters' = [counters EXCEPT ![Key(request[r])] = Increment(Key(request[r]))]
      BY <1>4 DEF Limit
    <2>2. PICK req \in {[at |-> "route", from |-> request[r].from, ip |-> request[r].ip],
                        [at |-> "429"]} : Goto(r, req)
      BY <1>4 DEF Limit
    <2>3. req.at # "limit" /\ request' = [request EXCEPT ![r] = req]
      BY <2>2 DEF Goto
    <2>4. \/ passed' = passed
          \/ /\ Allowed(counters'[Key(request[r])].n) /\ now \div Window = Key(request[r]).bucket
             /\ passed' = [passed EXCEPT ![request[r].from] =
                             [t \in Seconds |-> IF t < now THEN @[t] ELSE @[t] + 1]]
      BY <1>4 DEF Limit
    <2> QED
      BY <1>0, <2>1, <2>3, <2>4, RateCounted
  <1>5. ASSUME NEW r \in Handlers, FailOpen(r) PROVE RateInv'
    <2> DEFINE req == [at |-> "route", from |-> request[r].from, ip |-> request[r].ip]
    <2>1. At(r, "limit") /\ UNCHANGED <<now, passed>> /\ request' = [request EXCEPT ![r] = req]
      BY <1>5 DEF FailOpen, history, Goto
    <2>2. req.at # "limit"
      OBVIOUS
    <2> HIDE DEF req
    <2>3. CASE UNCHANGED counters
      BY <1>2, <2>1, <2>2, <2>3
    <2>4. CASE counters' = [counters EXCEPT ![Key(request[r])] = Increment(Key(request[r]))]
      BY <1>0, <2>1, <2>2, <2>4, RateCounted
    <2> QED
      BY <1>5, <2>3, <2>4 DEF FailOpen
  <1>6. ASSUME NEW r \in Handlers, Route(r) PROVE RateInv'
    <2>1. UNCHANGED <<now, counters, passed>>
      BY <1>6 DEF Route, redis, history
    <2>2. PICK route \in {"protected", "optional", "other"}, sent \in {"none", "forged"},
               token \in {"access", "other"} :
            \/ Answer(r)
            \/ Goto(r, Forwarded(request[r], route, token, UserID(route, token, sent)))
      BY <1>6 DEF Route
    <2> DEFINE req == Forwarded(request[r], route, token, UserID(route, token, sent))
    <2>3. req.at # "limit"
      BY DEF Forwarded
    <2> HIDE DEF req
    <2>4. CASE Answer(r)
      BY <1>2, <2>1, <2>4 DEF Answer, Goto
    <2>5. CASE Goto(r, req)
      BY <1>2, <2>1, <2>3, <2>5 DEF Goto
    <2> QED
      BY <2>2, <2>4, <2>5 DEF req
  <1>7. ASSUME NEW r \in Handlers, Respond(r) PROVE RateInv'
    <2>1. UNCHANGED <<now, counters, passed>>
      BY <1>7 DEF Respond, redis, history
    <2> QED
      BY <1>2, <1>7, <2>1 DEF Respond, Answer, Goto
  <1>8. CASE Tick
    <2>1. now + 1 \in Seconds /\ now' = now + 1
      BY <1>1, <1>8, Sizes DEF Tick, Seconds
    <2>2. Ages(counters, counters') /\ UNCHANGED <<request, passed>>
      BY <1>8 DEF Tick, Ages, history
    <2>3. /\ counters \in [Keys -> [n : Nat, left : Int]]
          /\ passed \in [Clients -> [Seconds -> Nat]]
          /\ Rated(passed, counters, now) /\ Ahead(counters, now)
      BY DEF RateInv, IInv, Typed
    <2>4. Rated(passed, counters', now + 1) /\ Ahead(counters', now + 1)
      BY <1>1, <2>1, <2>2, <2>3, TickingKeeps
    <2>5. Due(request, now + 1)
      <3> SUFFICES ASSUME NEW r \in Handlers, request[r].at = "limit"
                   PROVE  request[r].bucket <= (now + 1) \div Window
        BY DEF Due
      <3>1. request[r].bucket \in Nat /\ request[r].bucket <= now \div Window
        BY <1>0, <1>1, BucketStart DEF Due, IInv, Handled
      <3>2. now \in Nat /\ now \div Window \in Nat /\ (now + 1) \div Window \in Nat
        BY <1>1, <2>1, SecondIs
      <3>3. (now + 1) \div Window \in {now \div Window, now \div Window + 1}
        BY <3>2, NextBucket
      <3> QED
        BY <3>1, <3>2, <3>3
    <2>6. Rated(passed, counters, now)' /\ Ahead(counters, now)' /\ Due(request, now)'
      BY <2>1, <2>2, <2>4, <2>5 DEF Rated, Past, Current, Before, CounterOf, Ahead, Due
    <2> QED
      BY <1>0, <2>2, <2>3, <2>6 DEF RateInv
  <1>9. CASE UNCHANGED vars
    <2>1. UNCHANGED <<now, counters, passed, request>>
      BY <1>9 DEF vars, redis, history
    <2> QED
      BY <1>0, <1>1, <2>1, RateStays
  <1> QED
    BY <1>3, <1>4, <1>5, <1>6, <1>7, <1>8, <1>9 DEF Next

\* In no window of the limiter's length does a client get more than two bursts through,
\* for any rate, any number of clients and instances, and any order of the requests
\* (ratelimit.go:15-27, 69-85).
THEOREM LimitAlwaysKept == Spec => []WithinLimit
  <1>1. RateInv => WithinLimit
    <2> SUFFICES ASSUME RateInv, NEW c \in Clients, NEW t \in Seconds, NEW u \in Seconds,
                        t <= u, u < t + Window
                 PROVE  passed[c][u] - Before(passed[c], t) <= 2 * Burst
      BY DEF WithinLimit
    <2>1. Past(passed[c], now)
      BY DEF RateInv, Rated
    <2> QED
      BY <2>1, TwoBuckets
  <1> QED
    BY <1>1, InitRate, NextRate, PTL DEF Spec

-----------------------------------------------------------------------------
(* Types: what bounds the counters and the histories *)

Waiting  == [at : {"limit"}, from : Clients, ip : Addresses, bucket : Buckets]
Routed   == [at : {"route"}, from : Clients, ip : Addresses]
Proxied  == [at : {"upstream"}, from : Clients, realIP : Addresses,
             route : {"protected", "optional", "other"},
             token : {"access", "other"}, userID : {"none", "sub", "forged"}]
Idle     == [at : {"free", "429"}]
Requests == Waiting \cup Routed \cup Proxied \cup Idle

\* The requests of c that wait to be counted.
Taken(f, c) == {r \in Handlers : f[r].at = "limit" /\ f[r].from = c}

\* Every request c was let through with, waits with or was counted for is one of those
\* there were to begin with, and the others are still to be sent.
Spent(p, a, f, left) ==
    \A c \in Clients :
        /\ \A b \in Buckets : a[c][b] + left <= MaxRequests
        /\ \A u \in Seconds : p[c][u] + Cardinality(Taken(f, c)) + left <= MaxRequests

TypeInv ==
    /\ IInv
    /\ requests \in 0..MaxRequests /\ faults \in 0..MaxFaults
    /\ request \in [Handlers -> Requests]
    /\ counters \in [Keys -> [n : Nat, left : 0..Window]]
    /\ \A k \in Keys : k.ip \notin Clients => counters[k].n = 0
    /\ passed \in [Clients -> [Seconds -> Nat]]
    /\ Spent(passed, asked, request, requests)

LEMMA Bounds == MaxRequests \in Nat /\ MaxFaults \in Nat
  BY LimitsAssumption DEF LimitsAssumption

Waited(f, r, c) == f[r].at = "limit" /\ f[r].from = c

\* One request moves: those of a client that wait are one more or one fewer at most.
LEMMA TakenMoves ==
    ASSUME NEW f, NEW g, NEW r \in Handlers, NEW req, Moved(f, g, r, req), NEW c
    PROVE  /\ Cardinality(Taken(f, c)) \in Nat /\ Cardinality(Taken(g, c)) \in Nat
           /\ Cardinality(Taken(g, c)) <= Cardinality(Taken(f, c)) + 1
           /\ req.at # "limit" => Cardinality(Taken(g, c)) <= Cardinality(Taken(f, c))
           /\ req.at # "limit" /\ Waited(f, r, c)
              => Cardinality(Taken(g, c)) = Cardinality(Taken(f, c)) - 1
  <1> DEFINE P == Taken(f, c)
             Q == Taken(g, c)
  <1>1. IsFiniteSet(P) /\ IsFiniteSet(Q)
    <2>1. P \in SUBSET Handlers /\ Q \in SUBSET Handlers /\ IsFiniteSet(Handlers)
      BY HandlersAssumption DEF Taken, HandlersAssumption
    <2> QED
      BY <2>1, FS_Subset
  <1>2. g[r] = req /\ \A q \in Handlers : q # r => g[q] = f[q]
    BY DEF Moved
  <1>3. Q \subseteq P \cup {r}
    BY <1>2 DEF Taken
  <1>4. req.at # "limit" => Q = P \ {r}
    BY <1>2 DEF Taken
  <1>5. Waited(f, r, c) => r \in P
    BY DEF Taken, Waited
  <1> HIDE DEF P, Q
  <1>6. Cardinality(P) \in Nat /\ Cardinality(Q) \in Nat
    BY <1>1, FS_CardinalityType
  <1>7. IsFiniteSet(P \cup {r}) /\ Cardinality(P \cup {r}) \in {Cardinality(P), Cardinality(P) + 1}
    BY <1>1, FS_AddElement
  <1>8. IsFiniteSet(P \ {r})
        /\ Cardinality(P \ {r}) = IF r \in P THEN Cardinality(P) - 1 ELSE Cardinality(P)
    BY <1>1, FS_RemoveElement
  <1>9. Cardinality(Q) <= Cardinality(P \cup {r})
    BY <1>3, <1>7, FS_Subset
  <1>10. Cardinality(Q) <= Cardinality(P) + 1
    BY <1>6, <1>7, <1>9
  <1>11. req.at # "limit" => Cardinality(Q) <= Cardinality(P)
    BY <1>4, <1>6, <1>8
  <1>12. req.at # "limit" /\ r \in P => Cardinality(Q) = Cardinality(P) - 1
    BY <1>4, <1>8
  <1> QED
    BY <1>5, <1>6, <1>10, <1>11, <1>12 DEF P, Q

\* Nothing is let through or sent: a request goes on, or answers.
LEMMA SpentMoves ==
    ASSUME NEW f, NEW g, NEW r \in Handlers, NEW req, Moved(f, g, r, req), req.at # "limit",
           NEW p \in [Clients -> [Seconds -> Nat]], NEW a, NEW left \in Nat,
           Spent(p, a, f, left)
    PROVE  Spent(p, a, g, left)
  <1> SUFFICES ASSUME NEW c \in Clients, NEW u \in Seconds
               PROVE  p[c][u] + Cardinality(Taken(g, c)) + left <= MaxRequests
    BY DEF Spent
  <1>1. p[c][u] + Cardinality(Taken(f, c)) + left <= MaxRequests
    BY DEF Spent
  <1>2. /\ Cardinality(Taken(f, c)) \in Nat /\ Cardinality(Taken(g, c)) \in Nat
        /\ Cardinality(Taken(g, c)) <= Cardinality(Taken(f, c))
    BY TakenMoves
  <1>3. p[c][u] \in Nat
    OBVIOUS
  <1> QED
    BY <1>1, <1>2, <1>3, Bounds

\* One of the requests there still were is sent.
LEMMA SpentSends ==
    ASSUME NEW f, NEW g, NEW r \in Handlers, NEW req, Moved(f, g, r, req),
           NEW p \in [Clients -> [Seconds -> Nat]],
           NEW a \in [Clients -> [Buckets -> Nat]], NEW c \in Clients, NEW b \in Buckets,
           NEW left \in Nat, left > 0, Spent(p, a, f, left)
    PROVE  Spent(p, [a EXCEPT ![c][b] = @ + 1], g, left - 1)
  <1> DEFINE h == [a EXCEPT ![c][b] = @ + 1]
  <1>1. ASSUME NEW d \in Clients, NEW e \in Buckets
        PROVE  h[d][e] + (left - 1) <= MaxRequests
    <2>1. a[d][e] + left <= MaxRequests /\ a[d][e] \in Nat
      BY DEF Spent
    <2>2. h[d][e] = a[d][e] + 1 \/ h[d][e] = a[d][e]
      OBVIOUS
    <2> HIDE DEF h
    <2> QED
      BY <2>1, <2>2, Bounds
  <1>2. ASSUME NEW d \in Clients, NEW u \in Seconds
        PROVE  p[d][u] + Cardinality(Taken(g, d)) + (left - 1) <= MaxRequests
    <2>1. p[d][u] + Cardinality(Taken(f, d)) + left <= MaxRequests
      BY DEF Spent
    <2>2. /\ Cardinality(Taken(f, d)) \in Nat /\ Cardinality(Taken(g, d)) \in Nat
          /\ Cardinality(Taken(g, d)) <= Cardinality(Taken(f, d)) + 1
      BY TakenMoves
    <2>3. p[d][u] \in Nat
      OBVIOUS
    <2> QED
      BY <2>1, <2>2, <2>3, Bounds
  <1> QED
    BY <1>1, <1>2 DEF Spent

\* One that waited is let through.
LEMMA SpentPasses ==
    ASSUME NEW f, NEW g, NEW r \in Handlers, NEW req, Moved(f, g, r, req), req.at # "limit",
           NEW c \in Clients, Waited(f, r, c),
           NEW p \in [Clients -> [Seconds -> Nat]], NEW n, NEW a, NEW left \in Nat,
           Spent(p, a, f, left)
    PROVE  Spent([p EXCEPT ![c] = OneMore(p[c], n)], a, g, left)
  <1> DEFINE q == [p EXCEPT ![c] = OneMore(p[c], n)]
  <1> SUFFICES ASSUME NEW d \in Clients, NEW u \in Seconds
               PROVE  q[d][u] + Cardinality(Taken(g, d)) + left <= MaxRequests
    BY DEF Spent
  <1>1. p[d][u] + Cardinality(Taken(f, d)) + left <= MaxRequests
    BY DEF Spent
  <1>2. /\ Cardinality(Taken(f, d)) \in Nat /\ Cardinality(Taken(g, d)) \in Nat
        /\ Cardinality(Taken(g, d)) <= Cardinality(Taken(f, d))
    BY TakenMoves
  <1>3. Cardinality(Taken(g, c)) = Cardinality(Taken(f, c)) - 1
    BY TakenMoves
  <1>4. p[d][u] \in Nat
    OBVIOUS
  <1>5. CASE d = c
    <2>1. q[d][u] \in {p[d][u], p[d][u] + 1}
      BY <1>5 DEF OneMore
    <2> HIDE DEF q
    <2> QED
      BY <1>1, <1>2, <1>3, <1>5, <1>4, <2>1, Bounds
  <1>6. CASE d # c
    <2>1. q[d][u] = p[d][u]
      BY <1>6
    <2> HIDE DEF q
    <2> QED
      BY <1>1, <1>2, <1>4, <2>1, Bounds
  <1> QED
    BY <1>5, <1>6

LEMMA InitTypes == Init => TypeInv
  <1> SUFFICES ASSUME Init PROVE TypeInv
    OBVIOUS
  <1>1. request \in [Handlers -> Requests]
    BY DEF Init, Requests, Idle
  <1>2. counters \in [Keys -> [n : Nat, left : 0..Window]] /\ \A k \in Keys : counters[k].n = 0
    BY WindowSize DEF Init, NoKey
  <1>3. passed \in [Clients -> [Seconds -> Nat]]
    BY DEF Init
  <1>4. \A c \in Clients : Taken(request, c) = {}
    BY DEF Init, Taken
  <1>5. Spent(passed, asked, request, requests)
    BY <1>4, Bounds, FS_EmptySet DEF Init, Spent
  <1> QED
    BY <1>1, <1>2, <1>3, <1>5, InitIInv, Bounds DEF Init, TypeInv

\* Some counter is counted up, or none is.
LEMMA CountersTyped ==
    ASSUME TypeInv, NEW k, k \in Keys, k.ip \in Clients,
           counters' = [counters EXCEPT ![k] = Increment(k)]
    PROVE  /\ counters' \in [Keys -> [n : Nat, left : 0..Window]]
           /\ \A j \in Keys : j.ip \notin Clients => counters'[j].n = 0
  <1>1. counters[k] \in [n : Nat, left : 0..Window] /\ Window \in 0..Window
    BY WindowSize DEF TypeInv
  <1>2. Increment(k) \in [n : Nat, left : 0..Window]
    BY <1>1 DEF Increment
  <1> QED
    BY <1>2 DEF TypeInv

\* A request that waits to be counted is c's, in a bucket there is.
LEMMA WaitingIs ==
    ASSUME TypeInv, NEW r \in Handlers, At(r, "limit")
    PROVE  /\ request[r].from \in Clients /\ request[r].ip \in Addresses
           /\ Key(request[r]) \in Keys /\ Key(request[r]).ip \in Clients
  <1>1. request[r].from \in Clients /\ request[r].ip = request[r].from
        /\ request[r].bucket \in Buckets
    BY DEF TypeInv, IInv, Handled, At
  <1> QED
    BY <1>1 DEF Key, Keys, Addresses

LEMMA NextTypes == TypeInv /\ [Next]_vars => TypeInv'
  <1> SUFFICES ASSUME TypeInv, [Next]_vars PROVE TypeInv'
    OBVIOUS
  <1>0. IInv /\ IInv'
    BY NextIInv DEF TypeInv
  <1>1. /\ now \in Seconds /\ DOMAIN request = Handlers
        /\ asked \in [Clients -> [Buckets -> Nat]] /\ now \div Window \in Buckets
    BY <1>0 DEF IInv, Typed, Buckets
  <1>2. ASSUME NEW r \in Handlers, NEW req \in Requests,
               request' = [request EXCEPT ![r] = req], req.at # "limit",
               UNCHANGED <<asked, passed, requests>>, faults' \in 0..MaxFaults,
               \/ UNCHANGED counters
               \/ At(r, "limit")
                  /\ counters' = [counters EXCEPT ![Key(request[r])] = Increment(Key(request[r]))]
        PROVE  TypeInv'
    <2>1. Moved(request, request', r, req)
      BY <1>1, <1>2 DEF Moved
    <2>2. Spent(passed, asked, request', requests)
      BY <1>2, <2>1, SpentMoves DEF TypeInv
    <2>3. Spent(passed, asked, request, requests)'
      BY <1>2, <2>2 DEF Spent, Taken
    <2>4. /\ counters' \in [Keys -> [n : Nat, left : 0..Window]]
          /\ \A j \in Keys : j.ip \notin Clients => counters'[j].n = 0
      BY <1>2, WaitingIs, CountersTyped DEF TypeInv
    <2>5. request' \in [Handlers -> Requests]
      BY <1>2 DEF TypeInv
    <2>6. requests' \in 0..MaxRequests /\ passed' \in [Clients -> [Seconds -> Nat]]
      BY <1>2 DEF TypeInv
    <2> QED
      BY <1>0, <1>2, <2>3, <2>4, <2>5, <2>6 DEF TypeInv
  <1>3. [at |-> "free"] \in Requests /\ [at |-> "429"] \in Requests
    BY DEF Requests, Idle
  <1>4. ASSUME NEW r \in Handlers, Arrive(r) PROVE TypeInv'
    <2>1. PICK c \in Clients, kind \in {"api", "preflight", "health"} :
            \/ /\ Counted(kind) /\ requests > 0 /\ requests' = requests - 1
               /\ \E ip \in Counters[c] :
                    Goto(r, [at |-> "limit", from |-> c, ip |-> ip, bucket |-> now \div Window])
               /\ asked' = IF kind = "api" THEN [asked EXCEPT ![c][now \div Window] = @ + 1] ELSE asked
            \/ Answer(r) /\ UNCHANGED <<asked, requests>>
      BY <1>4 DEF Arrive
    <2>2. UNCHANGED <<now, counters, passed, faults>>
      BY <1>4 DEF Arrive, redis
    <2>3. CASE Answer(r) /\ UNCHANGED <<asked, requests>>
      BY <1>2, <1>3, <2>2, <2>3 DEF Answer, Goto, TypeInv
    <2>4. CASE /\ Counted(kind) /\ requests > 0 /\ requests' = requests - 1
               /\ \E ip \in Counters[c] :
                    Goto(r, [at |-> "limit", from |-> c, ip |-> ip, bucket |-> now \div Window])
               /\ asked' = IF kind = "api" THEN [asked EXCEPT ![c][now \div Window] = @ + 1] ELSE asked
      <3> DEFINE req == [at |-> "limit", from |-> c, ip |-> c, bucket |-> now \div Window]
      <3>1. Goto(r, req)
        BY <2>4, CountersAreOwn
      <3>2. req \in Requests
        BY <1>1 DEF Requests, Waiting, Addresses
      <3> HIDE DEF req
      <3>3. request' = [request EXCEPT ![r] = req] /\ Moved(request, request', r, req)
        BY <1>1, <3>1 DEF Goto, Moved
      <3>4. asked' = [asked EXCEPT ![c][now \div Window] = @ + 1]
        BY <2>4 DEF Counted
      <3>5. requests \in Nat /\ requests > 0 /\ requests' = requests - 1
            /\ requests' \in 0..MaxRequests
        BY <2>4, Bounds DEF TypeInv
      <3>6. Spent(passed, asked, request, requests) /\ passed \in [Clients -> [Seconds -> Nat]]
        BY DEF TypeInv
      <3>7. Spent(passed, [asked EXCEPT ![c][now \div Window] = @ + 1], request', requests - 1)
        BY <1>1, <3>3, <3>5, <3>6, SpentSends
      <3>8. Spent(passed, asked, request, requests)'
        BY <2>2, <3>4, <3>5, <3>7 DEF Spent, Taken
      <3>9. request' \in [Handlers -> Requests]
        BY <3>2, <3>3 DEF TypeInv
      <3> QED
        BY <1>0, <2>2, <3>5, <3>6, <3>8, <3>9 DEF TypeInv
    <2> QED
      BY <2>1, <2>3, <2>4
  <1>5. ASSUME NEW r \in Handlers, At(r, "limit")
        PROVE  [at |-> "route", from |-> request[r].from, ip |-> request[r].ip] \in Requests
    BY <1>5, WaitingIs DEF Requests, Routed
  <1>6. ASSUME NEW r \in Handlers, Limit(r) PROVE TypeInv'
    <2>1. At(r, "limit") /\ UNCHANGED <<now, asked, requests, faults>>
          /\ counters' = [counters EXCEPT ![Key(request[r])] = Increment(Key(request[r]))]
      BY <1>6 DEF Limit
    <2>2. PICK req \in {[at |-> "route", from |-> request[r].from, ip |-> request[r].ip],
                        [at |-> "429"]} : Goto(r, req)
      BY <1>6 DEF Limit
    <2>3. req \in Requests /\ req.at # "limit" /\ request' = [request EXCEPT ![r] = req]
      BY <1>3, <1>5, <2>1, <2>2 DEF Goto
    <2>4. faults \in 0..MaxFaults
      BY DEF TypeInv
    <2>5. CASE passed' = passed
      BY <1>2, <2>1, <2>3, <2>4, <2>5
    <2>6. CASE passed' # passed
      <3> DEFINE c == request[r].from
                 p == [passed EXCEPT ![c] = OneMore(passed[c], now)]
      <3>1. passed' = p
        BY <1>6, <2>6 DEF Limit, OneMore
      <3>2. c \in Clients /\ request[r].at = "limit"
        BY <2>1, WaitingIs DEF At
      <3>3. Moved(request, request', r, req)
        BY <1>1, <2>3 DEF Moved
      <3>4. Spent(passed, asked, request, requests) /\ passed \in [Clients -> [Seconds -> Nat]]
            /\ requests \in Nat
        BY DEF TypeInv
      <3>5. Spent(p, asked, request', requests)
        BY <2>3, <3>2, <3>3, <3>4, SpentPasses DEF Waited
      <3>6. Spent(passed, asked, request, requests)'
        BY <2>1, <3>1, <3>5 DEF Spent, Taken
      <3>7. passed' \in [Clients -> [Seconds -> Nat]]
        <4>1. OneMore(passed[c], now) \in [Seconds -> Nat]
          BY <3>2, <3>4 DEF OneMore
        <4> QED
          BY <3>1, <3>4, <4>1
      <3>8. /\ counters' \in [Keys -> [n : Nat, left : 0..Window]]
            /\ \A j \in Keys : j.ip \notin Clients => counters'[j].n = 0
        BY <2>1, WaitingIs, CountersTyped
      <3>9. request' \in [Handlers -> Requests]
        BY <2>3 DEF TypeInv
      <3> QED
        BY <1>0, <2>1, <3>6, <3>7, <3>8, <3>9 DEF TypeInv
    <2> QED
      BY <2>5, <2>6
  <1>7. ASSUME NEW r \in Handlers, FailOpen(r) PROVE TypeInv'
    <2> DEFINE req == [at |-> "route", from |-> request[r].from, ip |-> request[r].ip]
    <2>1. At(r, "limit") /\ UNCHANGED <<asked, passed, requests>>
          /\ request' = [request EXCEPT ![r] = req]
      BY <1>7 DEF FailOpen, history, Goto
    <2>2. req \in Requests /\ req.at # "limit"
      BY <1>5, <2>1
    <2> HIDE DEF req
    <2>3. faults' \in 0..MaxFaults
      BY <1>7, Bounds DEF FailOpen, TypeInv
    <2>4. \/ UNCHANGED counters
          \/ counters' = [counters EXCEPT ![Key(request[r])] = Increment(Key(request[r]))]
      BY <1>7 DEF FailOpen
    <2> QED
      BY <1>2, <2>1, <2>2, <2>3, <2>4
  <1>8. ASSUME NEW r \in Handlers, Route(r) PROVE TypeInv'
    <2>1. UNCHANGED <<counters, asked, passed, requests, faults>> /\ request[r].at = "route"
          /\ faults \in 0..MaxFaults
      BY <1>8 DEF Route, redis, history, At, TypeInv
    <2>2. PICK route \in {"protected", "optional", "other"}, sent \in {"none", "forged"},
               token \in {"access", "other"} :
            \/ Answer(r)
            \/ Goto(r, Forwarded(request[r], route, token, UserID(route, token, sent)))
      BY <1>8 DEF Route
    <2> DEFINE req == Forwarded(request[r], route, token, UserID(route, token, sent))
    <2>3. req \in Requests /\ req.at # "limit"
      <3>1. request[r].from \in Clients /\ request[r].ip \in Addresses
        BY <1>0, <2>1 DEF IInv, Handled, Addresses
      <3>2. UserID(route, token, sent) \in {"none", "sub", "forged"}
        BY DEF UserID
      <3>3. req \in Proxied
        BY <3>1, <3>2 DEF Forwarded, Proxied
      <3>4. req.at # "limit"
        BY DEF Forwarded
      <3> QED
        BY <3>3, <3>4 DEF Requests
    <2> HIDE DEF req
    <2>4. CASE Answer(r)
      BY <1>2, <1>3, <2>1, <2>4 DEF Answer, Goto
    <2>5. CASE Goto(r, req)
      BY <1>2, <2>1, <2>3, <2>5 DEF Goto
    <2> QED
      BY <2>2, <2>4, <2>5 DEF req
  <1>9. ASSUME NEW r \in Handlers, Respond(r) PROVE TypeInv'
    <2>1. UNCHANGED <<counters, asked, passed, requests, faults>> /\ faults \in 0..MaxFaults
      BY <1>9 DEF Respond, redis, history, TypeInv
    <2> QED
      BY <1>2, <1>3, <1>9, <2>1 DEF Respond, Answer, Goto
  <1>10. CASE Tick
    <2>1. Ages(counters, counters') /\ UNCHANGED <<request, asked, passed, requests, faults>>
          /\ counters' \in [Keys -> {counters'[k] : k \in Keys}]
      BY <1>10 DEF Tick, Ages, history
    <2>2. ASSUME NEW k \in Keys
          PROVE  counters'[k] \in [n : Nat, left : 0..Window]
                 /\ (counters[k].n = 0 => counters'[k].n = 0)
      <3>1. counters[k] \in [n : Nat, left : 0..Window] /\ Window \in Nat
        BY WindowSize DEF TypeInv
      <3>2. counters'[k] = IF counters[k].left <= 1 THEN NoKey
                           ELSE [counters[k] EXCEPT !.left = @ - 1]
        BY <2>1 DEF Ages
      <3>3. CASE counters[k].left <= 1
        BY <3>1, <3>2, <3>3 DEF NoKey
      <3>4. CASE ~(counters[k].left <= 1)
        <4>1. counters[k].left - 1 \in 0..Window
          BY <3>1, <3>4
        <4> QED
          BY <3>1, <3>2, <3>4, <4>1
      <3> QED
        BY <3>3, <3>4
    <2>3. /\ counters' \in [Keys -> [n : Nat, left : 0..Window]]
          /\ \A j \in Keys : j.ip \notin Clients => counters'[j].n = 0
      BY <2>1, <2>2 DEF TypeInv
    <2>4. Spent(passed, asked, request, requests)'
      BY <2>1 DEF Spent, Taken, TypeInv
    <2> QED
      BY <1>0, <2>1, <2>3, <2>4 DEF TypeInv
  <1>11. CASE UNCHANGED vars
    <2>1. UNCHANGED <<counters, request, asked, passed, requests, faults>>
      BY <1>11 DEF vars, redis, history
    <2>2. Spent(passed, asked, request, requests)'
      BY <2>1 DEF Spent, Taken, TypeInv
    <2> QED
      BY <1>0, <2>1, <2>2 DEF TypeInv
  <1> QED
    BY <1>4, <1>6, <1>7, <1>8, <1>9, <1>10, <1>11 DEF Next

\* No counter, however many requests race for it, and no history goes beyond the requests
\* sent, a key outlives no window, and a request has the fields its place needs
\* (ratelimit.go:15-27).
THEOREM TypeCorrect == Spec => []TypeOK
  <1>1. TypeInv => TypeOK
    <2> SUFFICES ASSUME TypeInv PROVE TypeOK
      OBVIOUS
    <2>1. /\ now \in Seconds /\ asked \in [Clients -> [Buckets -> Nat]]
          /\ passed \in [Clients -> [Seconds -> Nat]] /\ requests \in Nat
      BY DEF TypeInv, IInv, Typed
    <2>2. \A c \in Clients, b \in Buckets : asked[c][b] \in 0..MaxRequests
      <3> SUFFICES ASSUME NEW c \in Clients, NEW b \in Buckets
                   PROVE  asked[c][b] \in 0..MaxRequests
        OBVIOUS
      <3>1. asked[c][b] + requests <= MaxRequests /\ asked[c][b] \in Nat
        BY <2>1 DEF TypeInv, Spent
      <3> QED
        BY <2>1, <3>1, Bounds
    <2>3. \A c \in Clients, u \in Seconds : passed[c][u] \in 0..MaxRequests
      <3> SUFFICES ASSUME NEW c \in Clients, NEW u \in Seconds
                   PROVE  passed[c][u] \in 0..MaxRequests
        OBVIOUS
      <3>1. passed[c][u] + Cardinality(Taken(request, c)) + requests <= MaxRequests
            /\ passed[c][u] \in Nat
        BY <2>1 DEF TypeInv, Spent
      <3>2. Cardinality(Taken(request, c)) \in Nat
        <4>1. Taken(request, c) \in SUBSET Handlers /\ IsFiniteSet(Handlers)
          BY HandlersAssumption DEF Taken, HandlersAssumption
        <4> QED
          BY <4>1, FS_Subset, FS_CardinalityType
      <3> QED
        BY <2>1, <3>1, <3>2, Bounds
    <2>4. \A k \in Keys : counters[k].n \in 0..MaxRequests
      <3> SUFFICES ASSUME NEW k \in Keys
                   PROVE  counters[k].n \in 0..MaxRequests
        OBVIOUS
      <3>1. CASE k.ip \notin Clients
        BY <3>1, Bounds DEF TypeInv
      <3>2. CASE k.ip \in Clients
        <4> DEFINE c == k.ip
                   b == k.bucket
        <4>1. c \in Clients /\ b \in Buckets /\ k = CounterOf(c, b)
          BY <3>2 DEF Keys, CounterOf
        <4>2. counters[k].n + Cardinality(Pending(request, c, b)) <= asked[c][b]
          BY <4>1 DEF TypeInv, IInv, Owed
        <4>3. Cardinality(Pending(request, c, b)) \in Nat /\ counters[k].n \in Nat
          BY PendingFinite DEF TypeInv
        <4>4. asked[c][b] \in 0..MaxRequests
          BY <2>2, <4>1
        <4> QED
          BY <4>2, <4>3, <4>4, Bounds
      <3> QED
        BY <3>1, <3>2
    <2>5. counters \in [Keys -> [n : 0..MaxRequests, left : 0..Window]]
      <3> SUFFICES ASSUME NEW k \in Keys
                   PROVE  counters[k] \in [n : 0..MaxRequests, left : 0..Window]
        BY DEF TypeInv
      <3>1. counters[k] \in [n : Nat, left : 0..Window]
        BY DEF TypeInv
      <3> QED
        BY <2>4, <3>1
    <2>6. asked \in [Clients -> [Buckets -> 0..MaxRequests]]
          /\ passed \in [Clients -> [Seconds -> 0..MaxRequests]]
      BY <2>1, <2>2, <2>3
    <2> QED
      BY <2>1, <2>5, <2>6 DEF TypeInv, TypeOK, Requests, Waiting, Routed, Proxied, Idle
  <1> QED
    BY <1>1, InitTypes, NextTypes, PTL DEF Spec

==============================================================================
