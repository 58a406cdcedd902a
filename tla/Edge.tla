-------------------------------- MODULE Edge --------------------------------
(***************************************************************************)
(* The middlewares every request passes before a service sees it: the       *)
(* client's address behind trusted proxies (gateway middleware clientip.go), *)
(* CORS preflights (cors.go), the fixed window in Redis that all instances   *)
(* of the gateway share (ratelimit.go), the identity of the caller           *)
(* (pkg/middleware/auth.go) and the headers of the proxied request           *)
(* (proxy.go, cmd/server/main.go).                                          *)
(*                                                                         *)
(* A request chooses its bucket when the limiter takes it, and is counted    *)
(* when Redis runs the script: others, and the clock, may come in between.   *)
(***************************************************************************)
EXTENDS Integers, Sequences, SequencesExt, FiniteSets, FiniteSetsExt

CONSTANTS
    Clients,     \* addresses of clients
    Proxies,     \* addresses in TRUSTED_PROXY_CIDRS
    Junk,        \* what is not an address
    Handlers,    \* requests in flight, over all instances of the gateway
    Rps, Burst,  \* 20 and 40
    MaxHops,     \* bound on the proxies a request passes
    MaxClaims,   \* bound on the addresses a client claims in X-Forwarded-For
    MaxTime,     \* bound on the clock, in seconds
    MaxRequests, \* bound on the requests that are counted
    MaxFaults    \* bound on the failures of Redis

ASSUME LimitsAssumption ==
    /\ Rps \in Nat \ {0} /\ Burst \in Nat \ {0}
    /\ {MaxHops, MaxClaims, MaxTime, MaxRequests, MaxFaults} \subseteq Nat
ASSUME HandlersAssumption == IsFiniteSet(Handlers)
ASSUME AddressesAssumption == Clients \cap Proxies = {} /\ Junk \notin Clients \cup Proxies

VARIABLES
    now,
    counters,  \* Redis: how often each key was counted, and for how long it lives
    request,   \* the handlers
    asked,     \* history: requests of a client the limiter took, by bucket
    passed,    \* history: those it counted in time and let through, up to a second
    requests, faults

redis   == <<counters>>
history == <<asked, passed>>
vars    == <<now, redis, request, history, requests, faults>>

Addresses == Clients \cup Proxies
Seconds   == 0..MaxTime

\* RateLimit: max(1 s, burst / rps), an integer division.
Window == Max({1, Burst \div Rps})

NoKey == [n |-> 0, left |-> 0]
Buckets == {t \div Window : t \in Seconds}
Keys    == [ip : Addresses, bucket : Buckets]

TypeOK ==
    /\ now \in Seconds
    /\ counters \in [Keys -> [n : 0..MaxRequests, left : 0..Window]]
    /\ request \in [Handlers ->
         [at : {"limit"}, from : Clients, ip : Addresses, bucket : Buckets]
         \cup [at : {"route"}, from : Clients, ip : Addresses]
         \cup [at : {"upstream"}, from : Clients, realIP : Addresses,
               route : {"protected", "optional", "other"},
               token : {"access", "other"}, userID : {"none", "sub", "forged"}]
         \cup [at : {"free", "429"}]]
    /\ asked \in [Clients -> [Buckets -> 0..MaxRequests]]
    /\ passed \in [Clients -> [Seconds -> 0..MaxRequests]]
    /\ requests \in 0..MaxRequests /\ faults \in 0..MaxFaults

Init ==
    /\ now = 0
    /\ counters = [k \in Keys |-> NoKey]
    /\ request = [r \in Handlers |-> [at |-> "free"]]
    /\ asked = [c \in Clients |-> [b \in Buckets |-> 0]]
    /\ passed = [c \in Clients |-> [t \in Seconds |-> 0]]
    /\ requests = MaxRequests /\ faults = MaxFaults

-----------------------------------------------------------------------------
(* The client's address *)

Trusted(a) == a \in Proxies

\* rightmostUntrusted: the last address no trusted proxy has, or the last address at
\* all; what is not an address is passed over.
RightmostUntrusted(xff) ==
    LET known     == {i \in DOMAIN xff : xff[i] # Junk}
        untrusted == {i \in known : ~Trusted(xff[i])} IN
    IF untrusted # {} THEN xff[Max(untrusted)]
    ELSE IF known # {} THEN xff[Max(known)] ELSE Junk

\* Mutant of ClientIP: the first address of X-Forwarded-For is the client.
ClientIPFirst(peer, xff, realIP) ==
    IF Trusted(peer) /\ xff # <<>> /\ Head(xff) # Junk THEN Head(xff) ELSE peer

\* ClientIP: the headers count only if the peer is a trusted proxy.
ClientIP(peer, xff, realIP) ==
    IF ~Trusted(peer) THEN peer
    ELSE IF RightmostUntrusted(xff) # Junk THEN RightmostUntrusted(xff)
    ELSE IF realIP # Junk THEN realIP ELSE peer

\* The hops from c to the gateway: some proxies, each of which appends to
\* X-Forwarded-For whom it was called by, behind what the client put there.
Hops(c) == {<<c>> \o ps : ps \in BoundedSeq(Proxies, MaxHops)}

Arrived(hops, claimed) == claimed \o Front(hops)

\* What a client may put into X-Forwarded-For.
Claims == BoundedSeq(Addresses \cup {Junk}, MaxClaims)

-----------------------------------------------------------------------------
(* The middlewares *)

At(r, l)     == request[r].at = l
Goto(r, req) == request' = [request EXCEPT ![r] = req]
Answer(r)    == Goto(r, [at |-> "free"])

\* Mutant of Counted: a preflight is counted.
CountedPreflight(kind) == kind # "health"

\* CORS answers an OPTIONS request itself; RateLimit passes /health on.
Counted(kind) == kind = "api"

\* Under which address a request of c may be counted: RealIP sets RemoteAddr and
\* X-Real-IP, and RateLimit asks ClientIP again.
Counters == [c \in Clients |->
    {LET xff == Arrived(hops, claimed)
         ip  == ClientIP(Last(hops), xff, realIP)
     IN  ClientIP(ip, xff, ip) :
       hops \in Hops(c), claimed \in Claims, realIP \in Addresses \cup {Junk}}]

Arrive(r) ==
    /\ At(r, "free") \/ At(r, "429")
    /\ \E c \in Clients, kind \in {"api", "preflight", "health"} :
        \/ /\ Counted(kind) /\ requests > 0 /\ requests' = requests - 1
           /\ \E ip \in Counters[c] :
                Goto(r, [at |-> "limit", from |-> c, ip |-> ip, bucket |-> now \div Window])
           /\ asked' = IF kind = "api" THEN [asked EXCEPT ![c][now \div Window] = @ + 1] ELSE asked
        \/ /\ ~Counted(kind)
           /\ Answer(r)
           /\ UNCHANGED <<asked, requests>>
    /\ UNCHANGED <<now, redis, passed, faults>>

Key(req) == [ip |-> req.ip, bucket |-> req.bucket]

\* Mutant of Allowed: one request too many.
AllowedOneMore(n) == n <= Burst + 1

Allowed(n) == n <= Burst

\* Mutant of Increment: the expiry is prolonged by every request.
IncrementProlonging(k) == [n |-> counters[k].n + 1, left |-> counters[k].left + Window]

\* rateLimitScript: INCR, and PEXPIRE for the first.
Increment(k) == [n |-> counters[k].n + 1,
                 left |-> IF counters[k].n = 0 THEN Window ELSE counters[k].left]

\* RateLimit: the script, atomic in Redis.
Limit(r) ==
    LET req == request[r]
        k   == Key(req) IN
    /\ At(r, "limit")
    /\ counters' = [counters EXCEPT ![k] = Increment(k)]
    /\ IF Allowed(counters'[k].n)
       THEN /\ Goto(r, [at |-> "route", from |-> req.from, ip |-> req.ip])
            /\ passed' = IF now \div Window = k.bucket
                         THEN [passed EXCEPT ![req.from] =
                                 [t \in Seconds |-> IF t < now THEN @[t] ELSE @[t] + 1]]
                         ELSE passed
       ELSE Goto(r, [at |-> "429"]) /\ UNCHANGED passed
    /\ UNCHANGED <<now, asked, requests, faults>>

\* Redis fails, before or after it ran the script: the request goes on.
FailOpen(r) ==
    LET req == request[r]
        k   == Key(req) IN
    /\ At(r, "limit")
    /\ faults > 0 /\ faults' = faults - 1
    /\ \/ counters' = [counters EXCEPT ![k] = Increment(k)]
       \/ UNCHANGED counters
    /\ Goto(r, [at |-> "route", from |-> req.from, ip |-> req.ip])
    /\ UNCHANGED <<now, history, requests>>

\* Mutant of UserID: what the client sends is kept for anonymous requests.
UserIDKept(route, token, sent) ==
    IF route \in {"protected", "optional"} /\ token = "access" THEN "sub" ELSE sent

\* AuthMiddleware and OptionalAuth set X-User-ID from a valid access token, and
\* OptionalAuth removes any other; no middleware of the other routes looks at it.
UserID(route, token, sent) ==
    IF route \in {"protected", "optional"} /\ token = "access" THEN "sub"
    ELSE IF route = "optional" THEN "none" ELSE sent

\* The proxy's Director: what the middlewares put into the headers goes on.
Forwarded(req, route, token, userID) ==
    [at |-> "upstream", from |-> req.from, realIP |-> req.ip,
     route |-> route, token |-> token, userID |-> userID]

\* newRouter: the middleware of the route, then its proxy.
Route(r) ==
    /\ At(r, "route")
    /\ \E route \in {"protected", "optional", "other"}, sent \in {"none", "forged"} :
       \E token \in IF route = "other" THEN {"other"} ELSE {"access", "other"} :
        IF route = "protected" /\ token # "access" THEN Answer(r)
        ELSE Goto(r, Forwarded(request[r], route, token, UserID(route, token, sent)))
    /\ UNCHANGED <<now, redis, history, requests, faults>>

Respond(r) ==
    /\ At(r, "upstream")
    /\ Answer(r)
    /\ UNCHANGED <<now, redis, history, requests, faults>>

\* A second passes, and keys expire.
Tick ==
    /\ now < MaxTime
    /\ now' = now + 1
    /\ counters' = [k \in Keys |->
         IF counters[k].left <= 1 THEN NoKey ELSE [counters[k] EXCEPT !.left = @ - 1]]
    /\ UNCHANGED <<request, history, requests, faults>>

Next ==
    \/ \E r \in Handlers : Arrive(r) \/ Limit(r) \/ FailOpen(r) \/ Route(r) \/ Respond(r)
    \/ Tick

Spec == Init /\ [][Next]_vars

-----------------------------------------------------------------------------
(* Properties *)

\* The address a request is counted under, and the X-Real-IP the services see, are
\* those of the client that sent it, whatever it claims and however many trusted
\* proxies it came through (clientip.go:45-78, ratelimit.go:75, main.go:133).
OwnAddress ==
    \A r \in Handlers :
        /\ request[r].at \in {"limit", "route"} => request[r].ip = request[r].from
        /\ At(r, "upstream") => request[r].realIP = request[r].from

\* How many were let through before second t, when f tells how many up to each second.
Before(f, t) == IF t = 0 THEN 0 ELSE f[t - 1]

\* No client gets more than two bursts through in any window, over all instances of
\* the gateway, as long as Redis answers within the bucket (ratelimit.go:15-27, 76).
WithinLimit ==
    \A c \in Clients, t, u \in Seconds :
        t <= u /\ u < t + Window => passed[c][u] - Before(passed[c], t) <= 2 * Burst

\* A client is told 429 only when it sent more than a burst itself in the bucket:
\* nothing other clients, probes or preflights do can use its budget up
\* (ratelimit.go:69-85, cors.go:58).
RefusedForOwnTraffic ==
    [][\A r \in Handlers :
        At(r, "limit") /\ request'[r].at = "429"
        => asked[request[r].from][request[r].bucket] > Burst]_vars

\* Where the services rely on it, X-User-ID comes from a valid access token or is not
\* there (pkg/middleware/auth.go:50-53, 68-95).
VerifiedIdentity ==
    \A r \in Handlers :
        At(r, "upstream") /\ request[r].route \in {"protected", "optional"}
        => request[r].userID = (IF request[r].token = "access" THEN "sub" ELSE "none")

=============================================================================
