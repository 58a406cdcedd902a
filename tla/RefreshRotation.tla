--------------------------- MODULE RefreshRotation ---------------------------
(***************************************************************************)
(* The session of a browser: refresh tokens that the auth service rotates,  *)
(* one active jti per user in Redis (services/auth/src/routers/auth.py,     *)
(* core/tokenstore.py), and the tabs that share one localStorage and renew   *)
(* the session on a 401 (frontend/src/lib/api.ts, store/auth.ts).           *)
(*                                                                         *)
(* A token pair is the number of its issue: the jti of the refresh token,    *)
(* and the access token issued with it. What a tab does between two awaits   *)
(* is one step. Access tokens expire; refresh tokens, which live for a week,  *)
(* do not.                                                                 *)
(***************************************************************************)
EXTENDS Naturals, FiniteSets

CONSTANTS
    Users,
    Tabs,
    Calls,     \* API calls in flight in this browser
    TabOf,     \* the tab of each
    MaxStarts, \* bound on calls
    MaxUpsets  \* bound on failed calls, lost answers, logins and logouts

ASSUME TabsAssumption   == TabOf \in [Calls -> Tabs]
ASSUME BoundsAssumption == MaxStarts \in Nat /\ MaxUpsets \in Nat

VARIABLES
    \* auth service
    active,   \* Redis auth:refresh:{user}: the jti that may be rotated; 0: none
    owner,    \* the user each token was issued to
    issued,   \* token pairs issued so far
    expired,  \* access tokens up to this one have expired
    \* browser
    access, refresh, \* localStorage; 0: no such item
    flight,   \* refreshPromise of each tab, and where its request is
    call,     \* the API calls
    \* bounds and history
    starts, upsets,
    disturbed, \* something other than expiry and refreshes touched the session
    late      \* a call has joined a refresh of an older token than the stored one

redis   == <<active, owner, issued>>
storage == <<access, refresh>>
bounds  == <<starts, upsets>>
history == <<disturbed, late>>
vars    == <<redis, expired, storage, flight, call, bounds, history>>

NoFlight == [at |-> "none", token |-> 0]
NoCall   == [at |-> "idle", kind |-> "api", access |-> 0, retried |-> FALSE, before |-> 0]

RedisType ==
    /\ issued \in Nat \ {0}
    /\ active \in [Users -> 0..issued] /\ owner \in [1..issued -> Users]

\* A refresh of a tab, and a call, when n tokens have been issued.
Flight(n) == [at : {"none", "sent", "granted", "refused", "stored"}, token : 0..n]
Call(n)   ==
    [at : {"idle", "sent", "wait", "won", "lost", "failed", "login", "granted"},
     kind : {"api", "init"}, access : 0..n, retried : BOOLEAN, before : 0..n]

BrowserType ==
    /\ expired \in 0..issued
    /\ access \in 0..issued /\ refresh \in 0..issued
    /\ flight \in [Tabs -> Flight(issued)]
    /\ call \in [Calls -> Call(issued)]

BoundsType ==
    /\ starts \in 0..MaxStarts /\ upsets \in 0..MaxUpsets
    /\ disturbed \in BOOLEAN /\ late \in BOOLEAN

TypeOK == RedisType /\ BrowserType /\ BoundsType

\* Somebody has logged in.
Init ==
    /\ \E u \in Users : /\ active = [v \in Users |-> IF v = u THEN 1 ELSE 0]
                        /\ owner = [n \in {1} |-> u]
    /\ issued = 1 /\ expired = 0
    /\ access = 1 /\ refresh = 1
    /\ flight = [t \in Tabs |-> NoFlight] /\ call = [c \in Calls |-> NoCall]
    /\ starts = MaxStarts /\ upsets = MaxUpsets
    /\ disturbed = FALSE /\ late = FALSE

Upset == upsets > 0 /\ upsets' = upsets - 1

-----------------------------------------------------------------------------
(* The auth service *)

\* Mutant of Issue: the jti is active, and its tokens are never issued.
IssueUncounted(u) ==
    /\ active' = [active EXCEPT ![u] = issued + 1]
    /\ UNCHANGED <<issued, owner>>

\* A new token pair for u becomes the active one of u: TokenStore.issue, and the
\* second half of the rotation script.
Issue(u) ==
    /\ issued' = issued + 1
    /\ owner' = [n \in 1..(issued + 1) |-> IF n <= issued THEN owner[n] ELSE u]
    /\ active' = [active EXCEPT ![u] = issued + 1]

\* Mutant of Rotatable: any token the service has signed will do.
RotatableSigned(n) == n # 0

\* TokenStore.rotate: compared and replaced in one script.
Rotatable(n) == active[owner[n]] = n

\* refresh: the new pair, or 401.
Rotate(t) ==
    LET n == flight[t].token IN
    /\ flight[t].at = "sent"
    /\ \/ /\ Rotatable(n) /\ Issue(owner[n])
          /\ flight' = [flight EXCEPT ![t] = [at |-> "granted", token |-> issued + 1]]
       \/ /\ ~Rotatable(n)
          /\ flight' = [flight EXCEPT ![t].at = "refused"]
          /\ UNCHANGED redis
    /\ UNCHANGED <<expired, storage, call, bounds, disturbed, late>>

\* Redis fails, before or after it ran the script (503), or the limiter refuses (429).
RotateFails(t) ==
    LET n == flight[t].token IN
    /\ flight[t].at = "sent" /\ Upset
    /\ flight' = [flight EXCEPT ![t].at = "refused"]
    /\ \/ Rotatable(n) /\ Issue(owner[n])
       \/ UNCHANGED redis
    /\ disturbed' = TRUE
    /\ UNCHANGED <<expired, storage, call, starts, late>>

\* The user logs in with another browser: one active token per user.
LoginElsewhere(u) ==
    /\ Upset
    /\ Issue(u)
    /\ disturbed' = TRUE
    /\ UNCHANGED <<expired, storage, flight, call, starts, late>>

\* The fifteen minutes of the stored access token, and of those before it, are over.
Expire ==
    /\ expired < access /\ expired' = access
    /\ UNCHANGED <<redis, storage, flight, call, bounds, history>>

-----------------------------------------------------------------------------
(* A tab: request, tryRefresh, refreshAccessToken *)

At(c, l)    == call[c].at = l
Goto(c, l)  == call' = [call EXCEPT ![c].at = l]
Valid(n)    == n > expired
End(c)      == call' = [call EXCEPT ![c] = NoCall]

\* Mutant of Waiting: only calls that saw the same refresh token wait for it.
WaitingSame(t) == {c \in Calls : TabOf[c] = t /\ At(c, "wait") /\ call[c].before = refresh}

\* The calls that wait for the refresh of t.
Waiting(t) == {c \in Calls : TabOf[c] = t /\ At(c, "wait")}

\* init catches what request throws, the callers of other requests show it.
Thrown(k) == IF k.kind = "init" THEN [NoCall EXCEPT !.at = "failed", !.kind = "init"] ELSE NoCall

\* request: a call to a protected route, or init's fetchMe if there is a token.
Start(c) ==
    /\ At(c, "idle") /\ starts > 0 /\ starts' = starts - 1
    /\ \E kind \in {"api", "init"} :
        /\ kind = "init" => access # 0
        /\ call' = [call EXCEPT ![c] = [NoCall EXCEPT !.at = "sent", !.kind = kind,
                                                      !.access = access]]
    /\ UNCHANGED <<redis, expired, storage, flight, upsets, history>>

Succeed(c) ==
    /\ At(c, "sent") /\ Valid(call[c].access)
    /\ End(c)
    /\ UNCHANGED <<redis, expired, storage, flight, bounds, history>>

Waits(k, l) == [k EXCEPT !.at = l, !.access = 0, !.before = refresh]

\* request: 401. The call remembers the refresh token it sees and joins the refresh
\* of its tab, or begins one; with no refresh token there is none to await.
Unauthorized(c) ==
    LET t == TabOf[c] IN
    /\ At(c, "sent") /\ ~Valid(call[c].access)
    /\ \/ /\ call[c].retried
          /\ call' = [call EXCEPT ![c] = Thrown(@)] /\ UNCHANGED <<flight, late>>
       \/ /\ ~call[c].retried /\ flight[t] = NoFlight
          /\ call' = [call EXCEPT ![c] = Waits(@, IF refresh = 0 THEN "lost" ELSE "wait")]
          /\ flight' = IF refresh = 0 THEN flight
                       ELSE [flight EXCEPT ![t] = [at |-> "sent", token |-> refresh]]
          /\ UNCHANGED late
       \/ /\ ~call[c].retried /\ flight[t] # NoFlight
          /\ call' = [call EXCEPT ![c] = Waits(@, "wait")]
          /\ late' = (late \/ (flight[t].at \in {"sent", "refused"} /\ refresh # flight[t].token))
          /\ UNCHANGED flight
    /\ UNCHANGED <<redis, expired, storage, bounds, disturbed>>

\* The call does not reach the service, or its answer is lost.
CallFails(c) ==
    /\ At(c, "sent") /\ Upset
    /\ call' = [call EXCEPT ![c] = Thrown(@)]
    /\ UNCHANGED <<redis, expired, storage, flight, starts, history>>

\* refreshAccessToken: both tokens are stored, and the store of the page is awaited,
\* in which time other calls may still join.
StorePair(t) ==
    /\ flight[t].at = "granted"
    /\ access' = flight[t].token /\ refresh' = flight[t].token
    /\ flight' = [flight EXCEPT ![t].at = "stored"]
    /\ UNCHANGED <<redis, expired, call, bounds, history>>

\* tryRefresh: the promise is resolved, and the calls that wait go on.
Settle(t) ==
    /\ flight[t].at \in {"stored", "refused"}
    /\ call' = [c \in Calls |->
         CASE c \in Waiting(t) /\ flight[t].at = "stored" ->
                  [call[c] EXCEPT !.at = "won", !.before = 0]
           [] c \in Waiting(t) /\ flight[t].at = "refused" -> [call[c] EXCEPT !.at = "lost"]
           [] OTHER -> call[c]]
    /\ flight' = [flight EXCEPT ![t] = NoFlight]
    /\ UNCHANGED <<redis, expired, storage, bounds, history>>

\* The refresh request or its answer is lost, or the store is not loaded: the promise
\* is rejected, and every call that waits throws.
LoseAnswer(t) ==
    /\ flight[t] # NoFlight /\ Upset
    /\ flight' = [flight EXCEPT ![t] = NoFlight]
    /\ call' = [c \in Calls |-> IF c \in Waiting(t) THEN Thrown(call[c]) ELSE call[c]]
    /\ disturbed' = TRUE
    /\ UNCHANGED <<redis, expired, storage, starts, late>>

\* Mutant of Again: the retry may refresh once more.
AgainAndAgain(k) == [k EXCEPT !.at = "sent", !.access = access, !.before = 0]

\* request(path, init, true), with what localStorage holds by now.
Again(k) == [k EXCEPT !.at = "sent", !.access = access, !.before = 0, !.retried = TRUE]

Retry(c) ==
    /\ At(c, "won")
    /\ call' = [call EXCEPT ![c] = Again(@)]
    /\ UNCHANGED <<redis, expired, storage, flight, bounds, history>>

\* Mutant of Renewed: the tokens of another tab are not looked for.
RenewedNever(c) == FALSE

\* Another tab has stored new tokens meanwhile.
Renewed(c) == refresh # call[c].before

\* request after a failed refresh: retry with the tokens of another tab, or
\* handleRefreshFailure.
Compare(c) ==
    /\ At(c, "lost")
    /\ \/ /\ Renewed(c)
          /\ call' = [call EXCEPT ![c] = Again(@)] /\ UNCHANGED storage
       \/ /\ ~Renewed(c)
          /\ access' = 0 /\ refresh' = 0
          /\ call' = [call EXCEPT ![c] = Thrown(@)]
    /\ UNCHANGED <<redis, expired, flight, bounds, history>>

\* The catch of init removes whatever tokens there are by now.
InitFails(c) ==
    /\ At(c, "failed")
    /\ access' = 0 /\ refresh' = 0
    /\ disturbed' = TRUE
    /\ End(c)
    /\ UNCHANGED <<redis, expired, flight, bounds, late>>

-----------------------------------------------------------------------------
(* store/auth.ts *)

\* login and register.
Login(c) ==
    /\ At(c, "idle") /\ Upset
    /\ Goto(c, "login")
    /\ disturbed' = TRUE
    /\ UNCHANGED <<redis, expired, storage, flight, starts, late>>

\* TokenStore.issue; the answer may be lost.
IssueLogin(c) ==
    /\ At(c, "login")
    /\ \E u \in Users : Issue(u)
    /\ \/ call' = [call EXCEPT ![c].at = "granted", ![c].access = issued + 1]
       \/ End(c)
    /\ UNCHANGED <<expired, storage, flight, bounds, history>>

\* The tokens are stored, and fetchMe follows.
StoreLogin(c) ==
    /\ At(c, "granted")
    /\ access' = call[c].access /\ refresh' = call[c].access
    /\ Goto(c, "sent")
    /\ UNCHANGED <<redis, expired, flight, bounds, history>>

Logout ==
    /\ access # 0 /\ Upset
    /\ access' = 0 /\ refresh' = 0
    /\ disturbed' = TRUE
    /\ UNCHANGED <<redis, expired, flight, call, starts, late>>

-----------------------------------------------------------------------------
CallStep(c) ==
    \/ Succeed(c) \/ Unauthorized(c) \/ Retry(c) \/ Compare(c) \/ InitFails(c)
    \/ IssueLogin(c) \/ StoreLogin(c)

FlightStep(t) == Rotate(t) \/ StorePair(t) \/ Settle(t)

Next ==
    \/ \E c \in Calls : Start(c) \/ CallStep(c) \/ CallFails(c) \/ Login(c)
    \/ \E t \in Tabs : FlightStep(t) \/ RotateFails(t) \/ LoseAnswer(t)
    \/ \E u \in Users : LoginElsewhere(u)
    \/ Expire \/ Logout

Spec == Init /\ [][Next]_vars

\* The services answer, or the browser gives a request up.
FairSpec == Spec /\ WF_vars((\E c \in Calls : CallStep(c)) \/ (\E t \in Tabs : FlightStep(t)))

-----------------------------------------------------------------------------
(* Properties *)

\* Only the last refresh token issued to a user is ever exchanged, and that once,
\* whatever tabs refresh at the same time, whoever logs in elsewhere and whichever
\* answers are lost: a token that was superseded stays so (tokenstore.py:6-17,
\* auth.py:148-161).
OnlyLatestHonoured ==
    [][\A t \in Tabs :
        flight[t].at = "sent" /\ flight'[t] # flight[t] /\ issued' > issued
        => \A m \in 1..issued :
             owner[m] = owner[flight[t].token] => m <= flight[t].token]_vars

OnItsWay(n) == \E t \in Tabs : flight[t] = [at |-> "granted", token |-> n]

\* The active token is stored, or on its way to a tab that will store it.
SessionKept ==
    \A u \in Users : active[u] # 0 => refresh = active[u] \/ OnItsWay(active[u])

\* Tabs whose access token expires do not cost each other the session: as long as
\* nobody logs in or out, no answer is lost and init has not given up, the active
\* token is kept, if no call joined a refresh of its tab that began with an older
\* token than the call sees stored (api.ts:123-136).
SessionSurvives == ~disturbed /\ ~late => SessionKept

\* The same without the exception: if another tab has rotated and stored fresh tokens
\* during a failed refresh, they are not erased (the comment at api.ts:129).
FreshTokensKept == ~disturbed => SessionKept

\* However many calls meet a 401 at the same time, none costs more than one token, a
\* login two, the one of its fetchMe included (api.ts:100-107, 117-137).
OneRefreshEach == issued <= 1 + (MaxStarts - starts) + 2 * (MaxUpsets - upsets)

\* No call waits or retries for ever, though calls wait for the refresh of another
\* and access tokens may expire as fast as they are issued: the calls are bounded, so
\* that time and again none is left (api.ts:100-107, 117-137).
EveryCallEnds == []<>(\A c \in Calls : At(c, "idle"))

=============================================================================
