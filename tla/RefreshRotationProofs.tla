------------------------ MODULE RefreshRotationProofs ------------------------
(***************************************************************************)
(* What holds of RefreshRotation for every set of users, tabs and calls and  *)
(* every bound: type correctness, that only the latest token of a user is    *)
(* ever exchanged, and that tabs which refresh do not cost each other the     *)
(* session.                                                                *)
(***************************************************************************)
EXTENDS RefreshRotation, FiniteSetTheorems, TLAPS

USE TabsAssumption, BoundsAssumption DEF TabsAssumption, BoundsAssumption

-----------------------------------------------------------------------------
(* Types *)

\* A tab refreshes with some token, and whoever waits waits for a refresh.
FlightInv ==
    /\ \A t \in Tabs : flight[t] = NoFlight \/ (flight[t].at # "none" /\ flight[t].token # 0)
    /\ \A c \in Calls : At(c, "wait") => flight[TabOf[c]] # NoFlight

\* No token is later than the active one of its user.
ActiveIsLatest == \A m \in 1..issued : m <= active[owner[m]]

TypeInv == TypeOK /\ FlightInv /\ ActiveIsLatest

\* The records of flights and calls stay such records when more tokens are issued.
LEMMA Wider ==
    ASSUME NEW n \in Nat, NEW m \in Nat, n <= m
    PROVE  Flight(n) \subseteq Flight(m) /\ Call(n) \subseteq Call(m)
<1>1. 0..n \subseteq 0..m
  OBVIOUS
<1>2. QED
  BY <1>1 DEF Flight, Call

\* A new pair is counted, belongs to its user and becomes the active one
\* (TokenStore.issue, TokenStore.rotate).
LEMMA IssueRedis ==
    ASSUME RedisType, NEW u \in Users, Issue(u)
    PROVE  /\ RedisType' /\ issued' = issued + 1
           /\ owner'[issued + 1] = u /\ \A m \in 1..issued : owner'[m] = owner[m]
           /\ active'[u] = issued + 1 /\ \A v \in Users \ {u} : active'[v] = active[v]
<1>1. issued' = issued + 1 /\ issued' \in Nat \ {0} /\ issued \in Nat
  BY DEF RedisType, Issue
<1>2. active' \in [Users -> 0..issued']
  BY <1>1 DEF RedisType, Issue
<1>3. owner' = [n \in 1..(issued + 1) |-> IF n <= issued THEN owner[n] ELSE u]
  BY DEF Issue
<1>4. \A n \in 1..(issued + 1) : n <= issued => n \in 1..issued
  BY <1>1
<1>5. owner' \in [1..issued' -> Users]
  BY <1>1, <1>3, <1>4 DEF RedisType
<1>6. owner'[issued + 1] = u /\ \A m \in 1..issued : owner'[m] = owner[m]
  BY <1>1, <1>3
<1>7. active'[u] = issued + 1 /\ \A v \in Users \ {u} : active'[v] = active[v]
  BY DEF RedisType, Issue
<1>8. QED
  BY <1>1, <1>2, <1>5, <1>6, <1>7 DEF RedisType

\* The active token stays the latest.
LEMMA IssueLatest ==
    ASSUME RedisType, ActiveIsLatest, NEW u \in Users, Issue(u)
    PROVE  ActiveIsLatest'
<1>1. SUFFICES ASSUME NEW m \in 1..issued' PROVE m <= active'[owner'[m]]
  BY DEF ActiveIsLatest
<1>2. CASE m \in 1..issued
  <2>1. m <= active[owner[m]] /\ owner'[m] = owner[m] /\ owner[m] \in Users
    BY <1>2, IssueRedis DEF ActiveIsLatest, RedisType
  <2>2. CASE owner[m] = u
    BY <1>2, <2>1, <2>2, IssueRedis DEF RedisType
  <2>3. CASE owner[m] # u
    BY <2>1, <2>3, IssueRedis
  <2>4. QED
    BY <2>2, <2>3
<1>3. CASE m = issued + 1
  BY <1>3, IssueRedis DEF RedisType
<1>4. QED
  BY <1>1, <1>2, <1>3, IssueRedis DEF RedisType

\* Whoever is in flight holds a token that was issued to some user.
LEMMA FlightOwner ==
    ASSUME TypeOK, FlightInv, NEW t \in Tabs, flight[t] # NoFlight
    PROVE  flight[t].token \in 1..issued /\ owner[flight[t].token] \in Users
<1>1. flight[t].token \in 0..issued /\ flight[t].token # 0 /\ issued \in Nat
  BY DEF TypeOK, BrowserType, RedisType, FlightInv, Flight
<1>2. flight[t].token \in 1..issued
  BY <1>1
<1>3. QED
  BY <1>2 DEF TypeOK, RedisType

\* What a step leaves alone keeps its type when tokens are issued meanwhile.
LEMMA StillBrowser ==
    ASSUME TypeOK, issued' \in Nat, issued <= issued'
    PROVE  /\ UNCHANGED expired => expired' \in 0..issued'
           /\ UNCHANGED storage => access' \in 0..issued' /\ refresh' \in 0..issued'
           /\ UNCHANGED flight => flight' \in [Tabs -> Flight(issued')]
           /\ UNCHANGED call => call' \in [Calls -> Call(issued')]
<1>1. issued \in Nat /\ 0..issued \subseteq 0..issued'
  BY DEF TypeOK, RedisType
<1>2. Flight(issued) \subseteq Flight(issued') /\ Call(issued) \subseteq Call(issued')
  BY <1>1, Wider
<1>3. QED
  BY <1>1, <1>2 DEF TypeOK, BrowserType, storage

LEMMA TypeInit == Init => TypeInv
<1> SUFFICES ASSUME Init PROVE TypeInv
  OBVIOUS
<1>1. PICK u \in Users : /\ active = [v \in Users |-> IF v = u THEN 1 ELSE 0]
                         /\ owner = [n \in {1} |-> u]
  BY DEF Init
<1>2. 1..issued = {1} /\ issued = 1
  BY DEF Init
<1>3. RedisType
  BY <1>1, <1>2 DEF RedisType
<1>4. BrowserType
  BY <1>2 DEF Init, BrowserType, Flight, Call, NoFlight, NoCall
<1>5. BoundsType
  <2>1. MaxStarts \in Nat /\ MaxUpsets \in Nat
    BY DEF BoundsAssumption
  <2>2. starts \in 0..MaxStarts /\ upsets \in 0..MaxUpsets
    BY <2>1 DEF Init
  <2>3. disturbed \in BOOLEAN /\ late \in BOOLEAN
    BY DEF Init
  <2>4. QED
    BY <2>2, <2>3 DEF BoundsType
<1>6. FlightInv
  BY DEF Init, FlightInv, At, NoCall
<1>7. ActiveIsLatest
  BY <1>1, <1>2 DEF ActiveIsLatest
<1>8. QED
  BY <1>3, <1>4, <1>5, <1>6, <1>7 DEF TypeInv, TypeOK

\* A token is issued to a user or none is, whatever happens in the browser.
LEMMA RedisStep ==
    ASSUME TypeInv, [Next]_vars
    PROVE  UNCHANGED redis \/ \E u \in Users : Issue(u)
<1>1. ASSUME NEW t \in Tabs, Rotate(t) \/ RotateFails(t)
      PROVE  UNCHANGED redis \/ \E u \in Users : Issue(u)
  <2>1. flight[t] # NoFlight
    BY <1>1 DEF Rotate, RotateFails, NoFlight
  <2>2. owner[flight[t].token] \in Users
    BY <2>1, FlightOwner DEF TypeInv
  <2>3. QED
    BY <1>1, <2>2 DEF Rotate, RotateFails
<1>2. QED
  BY <1>1
      DEF Next, CallStep, FlightStep, Start, Succeed, Unauthorized, Retry, Compare,
       InitFails, IssueLogin, StoreLogin, CallFails, Login, StorePair, Settle, LoseAnswer,
       LoginElsewhere, Expire, Logout, vars

\* The types of Redis and the order of the tokens survive every step.
LEMMA RedisKept ==
    ASSUME TypeInv, [Next]_vars
    PROVE  /\ RedisType' /\ ActiveIsLatest'
           /\ issued' = issued \/ issued' = issued + 1
<1>1. CASE UNCHANGED redis
  BY <1>1 DEF TypeInv, TypeOK, RedisType, ActiveIsLatest, redis
<1>2. ASSUME NEW u \in Users, Issue(u)
      PROVE  RedisType' /\ ActiveIsLatest' /\ issued' = issued + 1
  BY <1>2, IssueRedis, IssueLatest DEF TypeInv, TypeOK
<1>3. QED
  BY <1>1, <1>2, RedisStep

\* So do the types of the bounds.
LEMMA BoundsKept ==
    ASSUME TypeInv, [Next]_vars
    PROVE  BoundsType'
<1>1. ASSUME Upset, UNCHANGED <<starts, late>>, disturbed' \in {disturbed, TRUE}
      PROVE  BoundsType'
  <2>1. starts \in 0..MaxStarts /\ upsets \in 0..MaxUpsets
        /\ disturbed \in BOOLEAN /\ late \in BOOLEAN
    BY DEF TypeInv, TypeOK, BoundsType
  <2>2. starts' \in 0..MaxStarts
    BY <1>1, <2>1
  <2>3. upsets' \in 0..MaxUpsets
    <3>1. MaxUpsets \in Nat /\ upsets \in 0..MaxUpsets /\ upsets > 0 /\ upsets' = upsets - 1
      BY <1>1, <2>1 DEF Upset, BoundsAssumption
    <3>2. QED
      BY ONLY <3>1
  <2>4. disturbed' \in BOOLEAN /\ late' \in BOOLEAN
    BY <1>1, <2>1
  <2>5. QED
    BY <2>2, <2>3, <2>4 DEF BoundsType
<1>2. ASSUME UNCHANGED bounds, disturbed' \in {disturbed, TRUE}, late' \in BOOLEAN
      PROVE  BoundsType'
  BY <1>2 DEF TypeInv, TypeOK, BoundsType, bounds
<1>3. ASSUME NEW c \in Calls, Start(c) PROVE BoundsType'
  BY <1>3 DEF Start, TypeInv, TypeOK, BoundsType, history
<1>4. ASSUME NEW c \in Calls, CallStep(c) PROVE BoundsType'
  <2>1. ASSUME Unauthorized(c) PROVE BoundsType'
    <3>1. late' \in BOOLEAN
      BY <2>1 DEF Unauthorized, TypeInv, TypeOK, BoundsType
    <3>2. QED
      BY <1>2, <2>1, <3>1 DEF Unauthorized
  <2>2. QED
    BY <1>2, <1>4, <2>1
        DEF CallStep, Succeed, Retry, Compare, InitFails, IssueLogin, StoreLogin, history,
         TypeInv, TypeOK, BoundsType
<1>5. ASSUME NEW c \in Calls, CallFails(c) \/ Login(c) PROVE BoundsType'
  BY <1>1, <1>5 DEF CallFails, Login, history
<1>6. ASSUME NEW t \in Tabs, Rotate(t) \/ StorePair(t) \/ Settle(t) PROVE BoundsType'
  BY <1>2, <1>6 DEF Rotate, StorePair, Settle, history, TypeInv, TypeOK, BoundsType
<1>7. ASSUME NEW t \in Tabs, RotateFails(t) \/ LoseAnswer(t) PROVE BoundsType'
  BY <1>1, <1>7 DEF RotateFails, LoseAnswer
<1>8. ASSUME NEW u \in Users, LoginElsewhere(u) PROVE BoundsType'
  BY <1>1, <1>8 DEF LoginElsewhere
<1>9. CASE Expire \/ Logout \/ UNCHANGED vars
  BY <1>1, <1>2, <1>9
      DEF Expire, Logout, vars, bounds, history, TypeInv, TypeOK, BoundsType
<1>10. QED
  BY <1>3, <1>4, <1>5, <1>6, <1>7, <1>8, <1>9 DEF Next, FlightStep

\* A step of one call that leaves flights and storage alone, and after which the call
\* does not wait.
LEMMA CallOnly ==
    ASSUME TypeInv, NEW c \in Calls, NEW k \in Call(issued'), issued' \in Nat, issued <= issued',
           k.at # "wait", call' = [call EXCEPT ![c] = k], UNCHANGED <<expired, flight>>
    PROVE  /\ expired' \in 0..issued'
           /\ flight' \in [Tabs -> Flight(issued')]
           /\ call' \in [Calls -> Call(issued')]
           /\ FlightInv'
<1>1. /\ expired' \in 0..issued'
      /\ flight' \in [Tabs -> Flight(issued')]
  BY StillBrowser DEF TypeInv
<1>2. call \in [Calls -> Call(issued')]
  <2>1. Call(issued) \subseteq Call(issued')
    BY Wider DEF TypeInv, TypeOK, RedisType
  <2>2. QED
    BY <2>1 DEF TypeInv, TypeOK, BrowserType
<1>3. call' \in [Calls -> Call(issued')]
  BY <1>2
<1>4. \A d \in Calls : At(d, "wait")' => d # c /\ At(d, "wait")
  BY <1>2 DEF At
<1>5. FlightInv'
  BY <1>4 DEF TypeInv, FlightInv
<1>6. QED
  BY <1>1, <1>3, <1>5

\* The same when storage is left alone too.
LEMMA CallOnlyType ==
    ASSUME TypeInv, RedisType', issued <= issued',
           NEW c \in Calls, NEW k \in Call(issued'),
           k.at # "wait", call' = [call EXCEPT ![c] = k], UNCHANGED <<expired, flight>>,
           access' \in 0..issued', refresh' \in 0..issued'
    PROVE  BrowserType' /\ FlightInv'
<1>1. issued' \in Nat
  BY DEF RedisType
<1>2. QED
  BY <1>1, CallOnly DEF BrowserType

\* The records a call becomes on its way.
LEMMA CallRecords ==
    ASSUME TypeInv, NEW c \in Calls
    PROVE  /\ call[c] \in Call(issued) /\ NoCall \in Call(issued) /\ issued \in Nat \ {0}
           /\ Thrown(call[c]) \in Call(issued) /\ Thrown(call[c]).at # "wait"
           /\ Again(call[c]) \in Call(issued) /\ Again(call[c]).at = "sent"
           /\ \A l \in {"wait", "lost"} :
                /\ Waits(call[c], l) \in Call(issued) /\ Waits(call[c], l).at = l
                /\ Waits(call[c], l).before = refresh
<1>1. /\ call[c] \in Call(issued) /\ issued \in Nat \ {0}
      /\ access \in 0..issued /\ refresh \in 0..issued /\ 0 \in 0..issued
  BY DEF TypeInv, TypeOK, RedisType, BrowserType
<1>2. NoCall \in Call(issued)
  BY <1>1 DEF NoCall, Call
<1>3. Thrown(call[c]) \in Call(issued) /\ Thrown(call[c]).at # "wait"
  <2>1. /\ [NoCall EXCEPT !.at = "failed", !.kind = "init"] \in Call(issued)
        /\ [NoCall EXCEPT !.at = "failed", !.kind = "init"].at = "failed"
    BY <1>2 DEF Call
  <2>2. NoCall.at = "idle"
    BY DEF NoCall
  <2>3. QED
    BY <1>2, <2>1, <2>2 DEF Thrown
<1>4. Again(call[c]) \in Call(issued) /\ Again(call[c]).at = "sent"
  BY <1>1 DEF Again, Call
<1>5. ASSUME NEW l \in {"wait", "lost"}
      PROVE  /\ Waits(call[c], l) \in Call(issued) /\ Waits(call[c], l).at = l
             /\ Waits(call[c], l).before = refresh
  BY <1>1 DEF Waits, Call
<1>6. QED
  BY <1>1, <1>2, <1>3, <1>4, <1>5

\* When a flight of t ends, nobody waits for it any more, and the other tabs go on.
LEMMA FlightEnds ==
    ASSUME TypeInv, NEW t \in Tabs, flight' = [flight EXCEPT ![t] = NoFlight],
           call' = [c \in Calls |-> call'[c]],
           \A c \in Waiting(t) : call'[c] \in Call(issued) /\ call'[c].at # "wait",
           \A c \in Calls \ Waiting(t) : call'[c] = call[c],
           UNCHANGED <<redis, expired>>, access' \in 0..issued, refresh' \in 0..issued
    PROVE  BrowserType' /\ FlightInv'
<1>1. NoFlight \in Flight(issued)
  BY DEF TypeInv, TypeOK, RedisType, NoFlight, Flight
<1>2. flight' \in [Tabs -> Flight(issued')]
  BY <1>1 DEF TypeInv, TypeOK, BrowserType, redis
<1>3. call' \in [Calls -> Call(issued')]
  BY DEF TypeInv, TypeOK, BrowserType, redis, Waiting
<1>4. \A c \in Calls : At(c, "wait")' => At(c, "wait") /\ TabOf[c] # t
  BY DEF At, Waiting
<1>5. FlightInv'
  BY <1>4 DEF TypeInv, TypeOK, BrowserType, FlightInv
<1>6. QED
  BY <1>2, <1>3, <1>5 DEF TypeInv, TypeOK, BrowserType, redis

\* The steps of a call keep the types of the browser.
LEMMA CallStepType ==
    ASSUME TypeInv, RedisType', issued' = issued \/ issued' = issued + 1,
           NEW c \in Calls, Start(c) \/ CallStep(c) \/ CallFails(c) \/ Login(c)
    PROVE  BrowserType' /\ FlightInv'
<1>1. /\ issued \in Nat \ {0} /\ issued <= issued'
      /\ access \in 0..issued /\ refresh \in 0..issued /\ 0 \in 0..issued'
  BY DEF TypeInv, TypeOK, RedisType, BrowserType
<1>2. call[c] \in Call(issued) /\ NoCall \in Call(issued)
  BY CallRecords
<1>3. Call(issued) \subseteq Call(issued')
  BY <1>1, Wider DEF RedisType
<1>4. ASSUME NEW k \in Call(issued), k.at # "wait", call' = [call EXCEPT ![c] = k],
             UNCHANGED <<expired, flight>>,
             access' \in 0..issued', refresh' \in 0..issued'
      PROVE  BrowserType' /\ FlightInv'
  <2>1. k \in Call(issued')
    BY <1>3
  <2>2. QED
    BY <1>1, <1>4, <2>1, CallOnlyType
<1>5. UNCHANGED storage => access' \in 0..issued' /\ refresh' \in 0..issued'
  BY <1>1 DEF storage, RedisType
<1>6. CASE Start(c)
  <2>1. PICK kind \in {"api", "init"} :
          call' = [call EXCEPT ![c] = [NoCall EXCEPT !.at = "sent", !.kind = kind,
                                                    !.access = access]]
    BY <1>6 DEF Start
  <2> DEFINE k == [NoCall EXCEPT !.at = "sent", !.kind = kind, !.access = access]
  <2>2. k \in Call(issued) /\ k.at = "sent"
    BY <1>1, <1>2 DEF Call
  <2>3. call' = [call EXCEPT ![c] = k]
    BY <2>1
  <2> HIDE DEF k
  <2>4. QED
    BY <1>4, <1>5, <1>6, <2>2, <2>3 DEF Start
<1>7. ASSUME call' = [call EXCEPT ![c] = NoCall], UNCHANGED <<expired, flight>>,
             access' \in 0..issued', refresh' \in 0..issued'
      PROVE  BrowserType' /\ FlightInv'
  <2>1. NoCall.at # "wait"
    BY DEF NoCall
  <2>2. QED
    BY <1>2, <1>4, <1>7, <2>1
<1>8. CASE Succeed(c) \/ InitFails(c)
  BY <1>1, <1>5, <1>7, <1>8 DEF Succeed, InitFails, End
<1>9. ASSUME call' = [call EXCEPT ![c] = Thrown(@)] \/ call' = [call EXCEPT ![c] = Again(@)],
             UNCHANGED <<expired, flight>>,
             access' \in 0..issued', refresh' \in 0..issued'
      PROVE  BrowserType' /\ FlightInv'
  <2>1. PICK k \in {Thrown(call[c]), Again(call[c])} : call' = [call EXCEPT ![c] = k]
    BY <1>9 DEF TypeInv, TypeOK, BrowserType
  <2>2. k \in Call(issued) /\ k.at # "wait"
    BY CallRecords
  <2>3. QED
    BY <1>4, <1>9, <2>1, <2>2
<1>10. CASE CallFails(c) \/ Retry(c) \/ Compare(c)
  BY <1>1, <1>5, <1>9, <1>10 DEF CallFails, Retry, Compare
<1>11. CASE Unauthorized(c)
  <2> DEFINE t == TabOf[c]
  <2>1. UNCHANGED storage /\ UNCHANGED expired /\ UNCHANGED redis
    BY <1>11 DEF Unauthorized
  <2>2. CASE call' = [call EXCEPT ![c] = Thrown(@)] /\ UNCHANGED flight
    BY <1>5, <1>9, <2>1, <2>2
  <2>3. CASE refresh = 0 /\ call' = [call EXCEPT ![c] = Waits(@, "lost")] /\ UNCHANGED flight
    <3>1. PICK k \in {Waits(call[c], "lost")} : call' = [call EXCEPT ![c] = k]
      BY <2>3
    <3>2. k \in Call(issued) /\ k.at # "wait"
      BY CallRecords
    <3>3. QED
      BY <1>4, <1>5, <2>1, <2>3, <3>1, <3>2
  <2>4. ASSUME NEW f \in Flight(issued),
               call' = [call EXCEPT ![c] = Waits(@, "wait")],
               flight' = [flight EXCEPT ![t] = f], f # NoFlight, f.at # "none", f.token # 0
        PROVE  BrowserType' /\ FlightInv'
    <3>1. t \in Tabs /\ issued' = issued
      BY <2>1 DEF TabsAssumption, redis
    <3>2. call' \in [Calls -> Call(issued)] /\ flight' \in [Tabs -> Flight(issued)]
      <4>1. PICK k \in {Waits(call[c], "wait")} : call' = [call EXCEPT ![c] = k]
        BY <2>4
      <4>2. k \in Call(issued)
        BY CallRecords
      <4>3. QED
        BY <2>4, <3>1, <4>1, <4>2 DEF TypeInv, TypeOK, BrowserType
    <3>3. \A s \in Tabs : flight'[s] = IF s = t THEN f ELSE flight[s]
      BY <2>4, <3>1 DEF TypeInv, TypeOK, BrowserType
    <3>4. \A d \in Calls : At(d, "wait")' => d = c \/ At(d, "wait")
      BY <2>4 DEF At, TypeInv, TypeOK, BrowserType
    <3>5. FlightInv'
      BY <2>4, <3>1, <3>3, <3>4 DEF TypeInv, FlightInv, TabsAssumption
    <3>6. QED
      BY <1>1, <2>1, <3>1, <3>2, <3>5 DEF BrowserType, storage, TypeInv, TypeOK
  <2>5. CASE /\ refresh # 0 /\ call' = [call EXCEPT ![c] = Waits(@, "wait")]
             /\ flight' = [flight EXCEPT ![t] = [at |-> "sent", token |-> refresh]]
    <3> DEFINE f == [at |-> "sent", token |-> refresh]
    <3>1. f \in Flight(issued) /\ f # NoFlight /\ f.at # "none" /\ f.token # 0
      BY <1>1, <2>5 DEF Flight, NoFlight
    <3>2. flight' = [flight EXCEPT ![t] = f]
      BY <2>5
    <3> HIDE DEF f
    <3>3. QED
      BY <2>4, <2>5, <3>1, <3>2
  <2>6. CASE /\ flight[t] # NoFlight /\ call' = [call EXCEPT ![c] = Waits(@, "wait")]
             /\ UNCHANGED flight
    <3>1. t \in Tabs /\ flight[t] \in Flight(issued) /\ flight[t].at # "none"
          /\ flight[t].token # 0
      BY <2>6 DEF TabsAssumption, TypeInv, TypeOK, BrowserType, FlightInv
    <3>2. flight' = [flight EXCEPT ![t] = flight[t]]
      BY <2>6, <3>1 DEF TypeInv, TypeOK, BrowserType
    <3>3. QED
      BY <2>4, <2>6, <3>1, <3>2
  <2>7. QED
    BY <1>11, <2>2, <2>3, <2>5, <2>6 DEF Unauthorized
<1>12. CASE Login(c)
  <2> DEFINE k == [call[c] EXCEPT !.at = "login"]
  <2>1. k \in Call(issued) /\ k.at = "login"
    BY <1>2 DEF Call
  <2>2. call' = [call EXCEPT ![c] = k]
    BY <1>12 DEF Login, Goto
  <2> HIDE DEF k
  <2>3. QED
    BY <1>4, <1>5, <1>12, <2>1, <2>2 DEF Login
<1>13. CASE IssueLogin(c)
  <2>1. UNCHANGED storage /\ UNCHANGED <<expired, flight>>
    BY <1>13 DEF IssueLogin
  <2>2. CASE End(c)
    BY <1>5, <1>7, <2>1, <2>2 DEF End
  <2>3. CASE call' = [call EXCEPT ![c].at = "granted", ![c].access = issued + 1]
    <3> DEFINE k == [call[c] EXCEPT !.at = "granted", !.access = issued + 1]
    <3>1. issued + 1 \in 0..issued'
      <4>1. PICK u \in Users : Issue(u)
        BY <1>13 DEF IssueLogin
      <4>2. QED
        BY <1>1, <4>1 DEF Issue
    <3>2. k \in Call(issued') /\ k.at = "granted"
      BY <1>2, <1>3, <3>1 DEF Call
    <3>3. call' = [call EXCEPT ![c] = k]
      BY <2>3 DEF TypeInv, TypeOK, BrowserType
    <3> HIDE DEF k
    <3>4. QED
      BY <1>1, <1>5, <2>1, <3>2, <3>3, CallOnlyType
  <2>4. QED
    BY <1>13, <2>2, <2>3 DEF IssueLogin
<1>14. CASE StoreLogin(c)
  <2> DEFINE k == [call[c] EXCEPT !.at = "sent"]
  <2>1. k \in Call(issued) /\ k.at = "sent"
    BY <1>2 DEF Call
  <2>2. call' = [call EXCEPT ![c] = k]
    BY <1>14 DEF StoreLogin, Goto
  <2>3. access' \in 0..issued' /\ refresh' \in 0..issued'
    BY <1>1, <1>2, <1>14 DEF StoreLogin, Call, redis, RedisType
  <2> HIDE DEF k
  <2>4. QED
    BY <1>4, <1>14, <2>1, <2>2, <2>3 DEF StoreLogin
<1>15. QED
  BY <1>6, <1>8, <1>10, <1>11, <1>12, <1>13, <1>14 DEF CallStep

\* So do those of a refresh.
LEMMA FlightStepType ==
    ASSUME TypeInv, RedisType', issued' = issued \/ issued' = issued + 1,
           NEW t \in Tabs, FlightStep(t) \/ RotateFails(t) \/ LoseAnswer(t)
    PROVE  BrowserType' /\ FlightInv'
<1>1. /\ issued \in Nat \ {0} /\ issued <= issued' /\ issued' \in Nat
      /\ access \in 0..issued /\ refresh \in 0..issued /\ 0 \in 0..issued'
      /\ flight[t] \in Flight(issued) /\ Flight(issued) \subseteq Flight(issued')
  BY Wider DEF TypeInv, TypeOK, RedisType, BrowserType
<1>2. ASSUME NEW f \in Flight(issued'), f.at # "none", f.token # 0, flight[t] # NoFlight,
             flight' = [flight EXCEPT ![t] = f], UNCHANGED <<expired, call>>,
             access' \in 0..issued', refresh' \in 0..issued'
      PROVE  BrowserType' /\ FlightInv'
  <2>1. /\ expired' \in 0..issued'
        /\ call' \in [Calls -> Call(issued')]
    BY <1>1, <1>2, StillBrowser DEF TypeInv
  <2>2. flight \in [Tabs -> Flight(issued')]
    BY <1>1 DEF TypeInv, TypeOK, BrowserType
  <2>3. flight' \in [Tabs -> Flight(issued')]
    BY <1>2, <2>2
  <2>4. f # NoFlight
    BY <1>2 DEF NoFlight
  <2>5. \A s \in Tabs : flight'[s] = IF s = t THEN f ELSE flight[s]
    BY <1>2, <2>2
  <2>6. FlightInv'
    BY <1>2, <2>4, <2>5 DEF TypeInv, FlightInv, At, TabsAssumption
  <2>7. QED
    BY <1>2, <2>1, <2>3, <2>6 DEF BrowserType
<1>3. flight[t] # NoFlight => flight[t].at # "none" /\ flight[t].token # 0
  BY DEF TypeInv, FlightInv
<1>0. UNCHANGED storage => access' \in 0..issued' /\ refresh' \in 0..issued'
  BY <1>1, StillBrowser DEF TypeInv
<1>4. ASSUME flight' = [flight EXCEPT ![t].at = "refused"], flight[t] # NoFlight,
             UNCHANGED <<expired, storage, call>>
      PROVE  BrowserType' /\ FlightInv'
  <2> DEFINE f == [flight[t] EXCEPT !.at = "refused"]
  <2>1. f \in Flight(issued') /\ f.at # "none" /\ f.token # 0
    BY <1>1, <1>3, <1>4 DEF Flight
  <2>2. flight' = [flight EXCEPT ![t] = f]
    BY <1>4
  <2> HIDE DEF f
  <2>3. QED
    BY <1>0, <1>2, <1>4, <2>1, <2>2
<1>5. ASSUME flight[t].at # "none" PROVE flight[t] # NoFlight
  BY <1>5 DEF NoFlight
<1>6. CASE Rotate(t)
  <2>1. flight[t] # NoFlight /\ UNCHANGED <<expired, storage, call>>
    BY <1>5, <1>6 DEF Rotate
  <2>2. CASE flight' = [flight EXCEPT ![t] = [at |-> "granted", token |-> issued + 1]]
    <3> DEFINE f == [at |-> "granted", token |-> issued + 1]
    <3>1. issued + 1 \in 0..issued'
      <4>1. flight'[t].at # "refused"
        BY <2>2 DEF TypeInv, TypeOK, BrowserType
      <4>2. Issue(owner[flight[t].token])
        <5>1. ASSUME flight' = [flight EXCEPT ![t].at = "refused"]
              PROVE  flight'[t].at = "refused"
          BY <1>1, <5>1 DEF TypeInv, TypeOK, BrowserType, Flight
        <5>2. QED
          BY <1>6, <4>1, <5>1 DEF Rotate
      <4>3. QED
        BY <1>1, <4>2 DEF Issue
    <3>2. f \in Flight(issued') /\ f.at # "none" /\ f.token # 0
      BY <1>1, <3>1 DEF Flight
    <3>3. flight' = [flight EXCEPT ![t] = f]
      BY <2>2
    <3> HIDE DEF f
    <3>4. QED
      BY <1>0, <1>2, <2>1, <3>2, <3>3
  <2>3. CASE flight' = [flight EXCEPT ![t].at = "refused"]
    BY <1>4, <2>1, <2>3
  <2>4. QED
    BY <1>6, <2>2, <2>3 DEF Rotate
<1>7. CASE RotateFails(t)
  BY <1>4, <1>5, <1>7 DEF RotateFails
<1>8. CASE Settle(t)
  <2>1. /\ flight' = [flight EXCEPT ![t] = NoFlight]
        /\ call' = [c \in Calls |-> call'[c]]
        /\ UNCHANGED <<redis, expired>>
    BY <1>8 DEF Settle
  <2>2. access' \in 0..issued /\ refresh' \in 0..issued
    BY <1>1, <1>8 DEF Settle, storage
  <2>3. \A c \in Calls \ Waiting(t) : call'[c] = call[c]
    BY <1>8 DEF Settle
  <2>4. ASSUME NEW c \in Waiting(t)
        PROVE  call'[c] \in Call(issued) /\ call'[c].at # "wait"
    <3>1. c \in Calls /\ call[c] \in Call(issued)
      BY CallRecords DEF Waiting
    <3>2. CASE flight[t].at = "stored"
      <4>1. call'[c] = [call[c] EXCEPT !.at = "won", !.before = 0]
        BY <1>8, <3>1, <3>2 DEF Settle
      <4>2. QED
        <5>1. 0 \in 0..issued
          BY <1>1
        <5>2. QED
          BY <3>1, <4>1, <5>1 DEF Call
    <3>3. CASE flight[t].at = "refused"
      <4>1. call'[c] = [call[c] EXCEPT !.at = "lost"]
        BY <1>8, <3>1, <3>3 DEF Settle
      <4>2. QED
        BY <3>1, <4>1 DEF Call
    <3>4. QED
      BY <1>8, <3>2, <3>3 DEF Settle
  <2>5. QED
    BY <2>1, <2>2, <2>3, <2>4, FlightEnds
<1>9. CASE LoseAnswer(t)
  <2>1. /\ flight' = [flight EXCEPT ![t] = NoFlight]
        /\ call' = [c \in Calls |-> call'[c]]
        /\ UNCHANGED <<redis, expired>> /\ access' \in 0..issued /\ refresh' \in 0..issued
        /\ \A c \in Calls \ Waiting(t) : call'[c] = call[c]
    BY <1>1, <1>9 DEF LoseAnswer, storage
  <2>2. ASSUME NEW c \in Waiting(t)
        PROVE  call'[c] \in Call(issued) /\ call'[c].at # "wait"
    <3>1. c \in Calls /\ call'[c] = Thrown(call[c])
      BY <1>9 DEF LoseAnswer, Waiting
    <3>2. QED
      BY <3>1, CallRecords
  <2>3. QED
    BY <2>1, <2>2, FlightEnds
<1>10. CASE StorePair(t)
  <2> DEFINE f == [flight[t] EXCEPT !.at = "stored"]
  <2>1. flight[t] # NoFlight /\ UNCHANGED <<expired, call>>
    BY <1>5, <1>10 DEF StorePair
  <2>2. f \in Flight(issued') /\ f.at # "none" /\ f.token # 0
    BY <1>1, <1>3, <2>1 DEF Flight
  <2>3. flight' = [flight EXCEPT ![t] = f]
    BY <1>10 DEF StorePair
  <2>4. access' \in 0..issued' /\ refresh' \in 0..issued'
    BY <1>1, <1>10 DEF StorePair, Flight
  <2> HIDE DEF f
  <2>5. QED
    BY <1>2, <2>1, <2>2, <2>3, <2>4
<1>11. QED
  BY <1>6, <1>7, <1>8, <1>9, <1>10 DEF FlightStep

\* Every step keeps the types.
LEMMA TypeStep == TypeInv /\ [Next]_vars => TypeInv'
<1> SUFFICES ASSUME TypeInv, [Next]_vars PROVE TypeInv'
  OBVIOUS
<1>1. RedisType' /\ ActiveIsLatest' /\ BoundsType'
      /\ (issued' = issued \/ issued' = issued + 1)
  BY RedisKept, BoundsKept
<1>2. BrowserType' /\ FlightInv'
  <2>1. ASSUME NEW c \in Calls, Start(c) \/ CallStep(c) \/ CallFails(c) \/ Login(c)
        PROVE  BrowserType' /\ FlightInv'
    BY <1>1, <2>1, CallStepType
  <2>2. ASSUME NEW t \in Tabs, FlightStep(t) \/ RotateFails(t) \/ LoseAnswer(t)
        PROVE  BrowserType' /\ FlightInv'
    BY <1>1, <2>2, FlightStepType
  <2>3. ASSUME UNCHANGED <<flight, call>>, expired' \in 0..issued',
               access' \in 0..issued', refresh' \in 0..issued'
        PROVE  BrowserType' /\ FlightInv'
    <3>1. issued' \in Nat /\ issued <= issued'
      BY <1>1 DEF TypeInv, TypeOK, RedisType
    <3>2. FlightInv'
      BY <2>3 DEF TypeInv, FlightInv, At
    <3>3. QED
      BY <2>3, <3>1, <3>2, StillBrowser DEF TypeInv, BrowserType
  <2>4. expired \in 0..issued' /\ access \in 0..issued' /\ refresh \in 0..issued'
        /\ 0 \in 0..issued'
    BY <1>1 DEF TypeInv, TypeOK, RedisType, BrowserType
  <2>5. ASSUME NEW u \in Users, LoginElsewhere(u) PROVE BrowserType' /\ FlightInv'
    BY <2>3, <2>4, <2>5 DEF LoginElsewhere, storage
  <2>6. CASE Expire \/ Logout \/ UNCHANGED vars
    BY <2>3, <2>4, <2>6 DEF Expire, Logout, storage, vars
  <2>7. QED
    BY <2>1, <2>2, <2>5, <2>6 DEF Next
<1>3. QED
  BY <1>1, <1>2 DEF TypeInv, TypeOK

\* Every reachable state has the declared types: no token that was not issued is ever
\* stored, sent or waited for, and whoever waits waits for a refresh (api.ts:83-137).
THEOREM TypeCorrect == Spec => []TypeOK
<1>1. Spec => []TypeInv
  BY TypeInit, TypeStep, PTL DEF Spec
<1>2. TypeInv => TypeOK
  BY DEF TypeInv
<1>3. QED
  BY <1>1, <1>2, PTL

-----------------------------------------------------------------------------
(* Only the latest token *)

\* A refresh that makes Redis issue a pair was sent with the active token.
LEMMA Honoured ==
    ASSUME TypeInv, [Next]_vars, NEW t \in Tabs, flight[t].at = "sent",
           flight'[t] # flight[t], issued' > issued
    PROVE  Rotatable(flight[t].token)
<1>1. issued \in Nat /\ ~(issued > issued)
  BY DEF TypeInv, TypeOK, RedisType
<1>2. ~UNCHANGED redis /\ ~UNCHANGED flight
  BY <1>1 DEF redis
<1>3. PICK s \in Tabs : Rotate(s) \/ RotateFails(s)
  <2>1. \A c \in Calls : ~(Start(c) \/ CallStep(c) \/ CallFails(c) \/ Login(c))
    BY <1>2
        DEF CallStep, Start, Succeed, Unauthorized, Retry, Compare, InitFails, IssueLogin,
         StoreLogin, CallFails, Login
  <2>2. \A s \in Tabs : ~StorePair(s) /\ ~Settle(s) /\ ~LoseAnswer(s)
    BY <1>2 DEF StorePair, Settle, LoseAnswer
  <2>3. \A u \in Users : ~LoginElsewhere(u)
    BY <1>2 DEF LoginElsewhere
  <2>4. ~Expire /\ ~Logout /\ ~UNCHANGED vars
    BY <1>2 DEF Expire, Logout, vars
  <2>5. QED
    BY <2>1, <2>2, <2>3, <2>4 DEF Next, FlightStep
<1>4. s = t
  BY <1>3 DEF Rotate, RotateFails, TypeInv, TypeOK, BrowserType
<1>5. QED
  BY <1>2, <1>3, <1>4 DEF Rotate, RotateFails

\* For any users, tabs and calls, and whatever fails: the token that is exchanged is
\* the last one issued to its user, so a token that was superseded stays superseded
\* (tokenstore.py:6-17, auth.py:148-161).
THEOREM OnlyLatestExchanged == Spec => OnlyLatestHonoured
<1>1. ASSUME TypeInv, [Next]_vars, NEW t \in Tabs, flight[t].at = "sent",
             flight'[t] # flight[t], issued' > issued,
             NEW m \in 1..issued, owner[m] = owner[flight[t].token]
      PROVE  m <= flight[t].token
  BY <1>1, Honoured DEF Rotatable, TypeInv, ActiveIsLatest
<1>2. TypeInv /\ [Next]_vars =>
        \A t \in Tabs :
          flight[t].at = "sent" /\ flight'[t] # flight[t] /\ issued' > issued
          => \A m \in 1..issued :
               owner[m] = owner[flight[t].token] => m <= flight[t].token
  BY <1>1
<1>3. QED
  BY <1>2, TypeInit, TypeStep, PTL DEF Spec, OnlyLatestHonoured

-----------------------------------------------------------------------------
(* The session survives *)

Calm == ~disturbed /\ ~late

\* Everything was issued to one user, whose active token is the last one.
OneUser ==
    \E u \in Users :
        /\ active = [v \in Users |-> IF v = u THEN issued ELSE 0]
        /\ \A m \in 1..issued : owner[m] = u

\* At most one tab is about to store the last token; until it does, no other tab
\* refreshes with that token and nobody has stored it. A refused token is not the last.
FlightsOrdered ==
    \A t \in Tabs :
        /\ flight[t].at = "granted" =>
             /\ flight[t].token = issued /\ refresh # issued
             /\ \A s \in Tabs \ {t} : flight[s].token # issued
        /\ flight[t].at = "refused" => flight[t].token # issued

\* Nobody logs in. Whoever waits for a refresh that is not granted yet remembers its
\* token, and whoever lost does not remember the last one.
CallsOrdered ==
    \A c \in Calls :
        /\ call[c].at \notin {"login", "granted"}
        /\ At(c, "wait") /\ flight[TabOf[c]].at \in {"sent", "refused"}
           => call[c].before = flight[TabOf[c]].token
        /\ At(c, "lost") => call[c].before # issued

LastKept == refresh = issued \/ OnItsWay(issued)

Ordered == OneUser /\ FlightsOrdered /\ CallsOrdered /\ LastKept

SessionInv == TypeInv /\ (Calm => Ordered)

LEMMA SessionInit == Init => SessionInv
<1> SUFFICES ASSUME Init PROVE SessionInv
  OBVIOUS
<1>1. OneUser
  <2>1. PICK u \in Users : /\ active = [v \in Users |-> IF v = u THEN 1 ELSE 0]
                           /\ owner = [n \in {1} |-> u]
    BY DEF Init
  <2>2. issued = 1 /\ 1..issued = {1}
    BY DEF Init
  <2>3. QED
    BY <2>1, <2>2 DEF OneUser
<1>2. FlightsOrdered
  BY DEF Init, FlightsOrdered, NoFlight
<1>3. CallsOrdered
  BY DEF Init, CallsOrdered, At, NoCall
<1>4. LastKept
  BY DEF Init, LastKept
<1>5. QED
  BY <1>1, <1>2, <1>3, <1>4, TypeInit DEF SessionInv, Ordered

\* In an orderly session the token that can be exchanged is the last.
LEMMA RotatableIsLast ==
    ASSUME TypeInv, OneUser, NEW n \in 1..issued
    PROVE  Rotatable(n) <=> n = issued
<1>1. PICK u \in Users : /\ active = [v \in Users |-> IF v = u THEN issued ELSE 0]
                         /\ \A m \in 1..issued : owner[m] = u
  BY DEF OneUser
<1>2. QED
  BY <1>1 DEF Rotatable

\* A call that does not wait or lose, and touches neither flights nor tokens, keeps
\* the order.
LEMMA CallOrdered ==
    ASSUME TypeInv, Ordered, NEW c \in Calls, NEW k \in Call(issued),
           k.at \notin {"wait", "lost", "login", "granted"},
           call' = [call EXCEPT ![c] = k], UNCHANGED <<redis, storage, flight>>
    PROVE  Ordered'
<1>1. OneUser' /\ FlightsOrdered' /\ LastKept'
  BY DEF Ordered, OneUser, FlightsOrdered, LastKept, OnItsWay, redis, storage
<1>2. \A d \in Calls : call'[d] = IF d = c THEN k ELSE call[d]
  BY DEF TypeInv, TypeOK, BrowserType
<1>3. CallsOrdered'
  BY <1>2 DEF Ordered, CallsOrdered, At, redis
<1>4. QED
  BY <1>1, <1>3 DEF Ordered

\* What disturbs a session is not forgotten.
LEMMA CalmBefore ==
    ASSUME TypeInv, [Next]_vars, Calm'
    PROVE  Calm
<1>1. ASSUME NEW c \in Calls, Start(c) \/ CallStep(c) \/ CallFails(c) \/ Login(c)
      PROVE  Calm
  <2>1. CASE Unauthorized(c)
    <3>1. UNCHANGED disturbed
      BY <2>1 DEF Unauthorized
    <3>2. ASSUME late PROVE late'
      BY <2>1, <3>2 DEF Unauthorized
    <3>3. QED
      BY <3>1, <3>2 DEF Calm
  <2>2. CASE Start(c) \/ CallFails(c) \/ Login(c)
    BY <2>2 DEF Start, CallFails, Login, Calm, history
  <2>3. CASE Succeed(c) \/ Retry(c) \/ Compare(c) \/ IssueLogin(c) \/ StoreLogin(c)
    BY <2>3 DEF Succeed, Retry, Compare, IssueLogin, StoreLogin, Calm, history
  <2>4. CASE InitFails(c)
    BY <2>4 DEF InitFails, Calm
  <2>5. QED
    BY <1>1, <2>1, <2>2, <2>3, <2>4 DEF CallStep
<1>2. ASSUME NEW t \in Tabs, FlightStep(t) \/ RotateFails(t) \/ LoseAnswer(t)
      PROVE  Calm
  <2>1. CASE Rotate(t) \/ RotateFails(t)
    BY <2>1 DEF Rotate, RotateFails, Calm
  <2>2. CASE StorePair(t) \/ Settle(t)
    <3>1. UNCHANGED history
      BY <2>2 DEF StorePair, Settle
    <3>2. QED
      BY <3>1 DEF Calm, history
  <2>3. CASE LoseAnswer(t)
    BY <2>3 DEF LoseAnswer, Calm
  <2>4. QED
    BY <1>2, <2>1, <2>2, <2>3 DEF FlightStep
<1>3. ASSUME NEW u \in Users, LoginElsewhere(u) PROVE Calm
  BY <1>3 DEF LoginElsewhere, Calm
<1>4. CASE Expire \/ Logout \/ UNCHANGED vars
  BY <1>4 DEF Expire, Logout, vars, Calm, history
<1>5. QED
  BY <1>1, <1>2, <1>3, <1>4 DEF Next

\* A 401: the call that begins a refresh sees the token it is sent with, and the one
\* that joins sees it too or the session is no longer calm (api.ts:100-125).
LEMMA UnauthorizedOrdered ==
    ASSUME TypeInv, Ordered, Calm', NEW c \in Calls, Unauthorized(c)
    PROVE  Ordered'
<1> DEFINE t == TabOf[c]
<1>1. /\ UNCHANGED <<redis, storage>> /\ t \in Tabs
      /\ issued \in Nat \ {0} /\ refresh \in 0..issued
      /\ flight \in [Tabs -> Flight(issued)] /\ call \in [Calls -> Call(issued)]
  BY DEF Unauthorized, TabsAssumption, TypeInv, TypeOK, RedisType, BrowserType
<1>2. OneUser'
  BY <1>1 DEF Ordered, OneUser, redis
<1>3. CASE call' = [call EXCEPT ![c] = Thrown(@)] /\ UNCHANGED flight
  <2>1. Thrown(call[c]) \in Call(issued)
    BY CallRecords
  <2>2. Thrown(call[c]).at \in {"idle", "failed"}
    <3>1. NoCall.at = "idle" /\ [NoCall EXCEPT !.at = "failed", !.kind = "init"].at = "failed"
      BY DEF NoCall
    <3>2. QED
      BY <3>1 DEF Thrown
  <2>3. PICK k \in {Thrown(call[c])} : call' = [call EXCEPT ![c] = k]
    BY <1>3
  <2>4. QED
    BY <1>1, <1>3, <2>1, <2>2, <2>3, CallOrdered
<1>4. ASSUME UNCHANGED flight PROVE FlightsOrdered' /\ LastKept'
  BY <1>1, <1>4 DEF Ordered, FlightsOrdered, LastKept, OnItsWay, redis, storage
<1>5. ASSUME NEW l \in {"wait", "lost"}, call' = [call EXCEPT ![c] = Waits(@, l)]
      PROVE  /\ call'[c].at = l /\ call'[c].before = refresh
             /\ \A d \in Calls \ {c} : call'[d] = call[d]
  <2>1. call'[c] = Waits(call[c], l)
    BY <1>1, <1>5
  <2>2. QED
    BY <1>1, <1>5, <2>1, CallRecords
<1>6. CASE refresh = 0 /\ call' = [call EXCEPT ![c] = Waits(@, "lost")] /\ UNCHANGED flight
  <2>1. call'[c].at = "lost" /\ call'[c].before = 0
        /\ \A d \in Calls \ {c} : call'[d] = call[d]
    BY <1>5, <1>6
  <2>2. CallsOrdered'
    <3>1. SUFFICES ASSUME NEW d \in Calls
                   PROVE  /\ call'[d].at \notin {"login", "granted"}
                          /\ call'[d].at = "wait"
                             /\ flight'[TabOf[d]].at \in {"sent", "refused"}
                             => call'[d].before = flight'[TabOf[d]].token
                          /\ call'[d].at = "lost" => call'[d].before # issued'
      BY DEF CallsOrdered, At
    <3>2. CASE d = c
      BY <1>1, <2>1, <3>2 DEF redis
    <3>3. CASE d # c
      BY <1>1, <1>6, <2>1, <3>3 DEF Ordered, CallsOrdered, At, redis
    <3>4. QED
      BY <3>2, <3>3
  <2>3. QED
    BY <1>2, <1>4, <1>6, <2>2 DEF Ordered
<1>7. CASE /\ refresh # 0 /\ call' = [call EXCEPT ![c] = Waits(@, "wait")]
           /\ flight[t] = NoFlight
           /\ flight' = [flight EXCEPT ![t] = [at |-> "sent", token |-> refresh]]
  <2>1. call'[c].at = "wait" /\ call'[c].before = refresh
        /\ \A d \in Calls \ {c} : call'[d] = call[d]
    BY <1>5, <1>7
  <2>2. /\ flight'[t].at = "sent" /\ flight'[t].token = refresh
        /\ \A s \in Tabs \ {t} : flight'[s] = flight[s]
    BY <1>1, <1>7
  <2>3. flight[t].at = "none"
    BY <1>7 DEF NoFlight
  <2>4. FlightsOrdered'
    <3>1. SUFFICES ASSUME NEW s \in Tabs
                   PROVE  /\ flight'[s].at = "granted" =>
                               /\ flight'[s].token = issued' /\ refresh' # issued'
                               /\ \A q \in Tabs \ {s} : flight'[q].token # issued'
                          /\ flight'[s].at = "refused" => flight'[s].token # issued'
      BY DEF FlightsOrdered
    <3>2. CASE s = t
      BY <2>2, <3>2
    <3>3. CASE s # t
      BY <1>1, <2>2, <3>3 DEF Ordered, FlightsOrdered, redis, storage
    <3>4. QED
      BY <3>2, <3>3
  <2>5. LastKept'
    <3>1. ASSUME OnItsWay(issued) PROVE OnItsWay(issued)'
      <4>1. PICK s \in Tabs : flight[s] = [at |-> "granted", token |-> issued]
        BY <3>1 DEF OnItsWay
      <4>2. s # t
        BY <2>3, <4>1
      <4>3. QED
        BY <1>1, <2>2, <4>1, <4>2 DEF OnItsWay, redis
    <3>2. QED
      BY <1>1, <3>1 DEF Ordered, LastKept, redis, storage
  <2>6. CallsOrdered'
    <3>1. SUFFICES ASSUME NEW d \in Calls
                   PROVE  /\ call'[d].at \notin {"login", "granted"}
                          /\ call'[d].at = "wait"
                             /\ flight'[TabOf[d]].at \in {"sent", "refused"}
                             => call'[d].before = flight'[TabOf[d]].token
                          /\ call'[d].at = "lost" => call'[d].before # issued'
      BY DEF CallsOrdered, At
    <3>2. CASE d = c
      BY <2>1, <2>2, <3>2
    <3>3. CASE d # c
      <4>1. call'[d].at = "wait" => TabOf[d] # t /\ TabOf[d] \in Tabs
        BY <1>7, <2>1, <3>3 DEF TypeInv, FlightInv, At, TabsAssumption
      <4>2. QED
        BY <1>1, <2>1, <2>2, <3>3, <4>1 DEF Ordered, CallsOrdered, At, redis
    <3>4. QED
      BY <3>2, <3>3
  <2>7. QED
    BY <1>2, <2>4, <2>5, <2>6 DEF Ordered
<1>8. CASE /\ flight[t] # NoFlight /\ call' = [call EXCEPT ![c] = Waits(@, "wait")]
           /\ late' = (late \/ (flight[t].at \in {"sent", "refused"} /\ refresh # flight[t].token))
           /\ UNCHANGED flight
  <2>1. call'[c].at = "wait" /\ call'[c].before = refresh
        /\ \A d \in Calls \ {c} : call'[d] = call[d]
    BY <1>5, <1>8
  <2>2. flight[t].at \notin {"sent", "refused"} \/ refresh = flight[t].token
    BY <1>8 DEF Calm
  <2>3. CallsOrdered'
    <3>1. SUFFICES ASSUME NEW d \in Calls
                   PROVE  /\ call'[d].at \notin {"login", "granted"}
                          /\ call'[d].at = "wait"
                             /\ flight'[TabOf[d]].at \in {"sent", "refused"}
                             => call'[d].before = flight'[TabOf[d]].token
                          /\ call'[d].at = "lost" => call'[d].before # issued'
      BY DEF CallsOrdered, At
    <3>2. CASE d = c
      BY <1>8, <2>1, <2>2, <3>2
    <3>3. CASE d # c
      BY <1>1, <1>8, <2>1, <3>3 DEF Ordered, CallsOrdered, At, redis
    <3>4. QED
      BY <3>2, <3>3
  <2>4. QED
    BY <1>2, <1>4, <1>8, <2>3 DEF Ordered
<1>9. QED
  BY <1>3, <1>6, <1>7, <1>8 DEF Unauthorized

\* Redis exchanges the last token, or refuses one that is not the last.
LEMMA RotateOrdered ==
    ASSUME TypeInv, Ordered, NEW t \in Tabs, Rotate(t)
    PROVE  Ordered'
<1> DEFINE n == flight[t].token
<1>1. /\ flight[t].at = "sent" /\ flight[t] # NoFlight
      /\ UNCHANGED <<storage, call>>
  BY DEF Rotate, NoFlight
<1>2. n \in 1..issued /\ owner[n] \in Users /\ issued \in Nat \ {0}
  BY <1>1, FlightOwner DEF TypeInv, TypeOK, RedisType
<1>3. flight \in [Tabs -> Flight(issued)] /\ call \in [Calls -> Call(issued)]
      /\ refresh \in 0..issued
  BY DEF TypeInv, TypeOK, BrowserType
<1>4. CASE /\ Rotatable(n) /\ Issue(owner[n])
           /\ flight' = [flight EXCEPT ![t] = [at |-> "granted", token |-> issued + 1]]
  <2>1. n = issued
    BY <1>2, <1>4, RotatableIsLast DEF Ordered
  <2>2. issued' = issued + 1
    BY <1>4 DEF Issue
  <2>3. /\ flight'[t] = [at |-> "granted", token |-> issued']
        /\ \A s \in Tabs \ {t} : flight'[s] = flight[s]
    BY <1>3, <1>4, <2>2
  <2>4. \A s \in Tabs : flight[s].token \in 0..issued /\ flight[s].token # issued'
    BY <1>2, <1>3, <2>2 DEF Flight
  <2>5. OneUser'
    <3>1. PICK u \in Users : /\ active = [v \in Users |-> IF v = u THEN issued ELSE 0]
                             /\ \A m \in 1..issued : owner[m] = u
      BY DEF Ordered, OneUser
    <3>2. owner[n] = u
      BY <1>2, <3>1
    <3>3. active' = [v \in Users |-> IF v = u THEN issued' ELSE 0]
      BY <1>4, <2>2, <3>1, <3>2 DEF Issue
    <3>4. \A m \in 1..issued' : owner'[m] = u
      BY <1>2, <1>4, <2>2, <3>1, <3>2 DEF Issue
    <3>5. QED
      BY <3>3, <3>4 DEF OneUser
  <2>6. \A s \in Tabs \ {t} : flight[s].at # "granted"
    BY <2>1 DEF Ordered, FlightsOrdered
  <2>7. refresh' # issued'
    BY <1>1, <1>2, <1>3, <2>2 DEF storage
  <2>8. FlightsOrdered'
    <3>1. SUFFICES ASSUME NEW s \in Tabs
                   PROVE  /\ flight'[s].at = "granted" =>
                               /\ flight'[s].token = issued' /\ refresh' # issued'
                               /\ \A q \in Tabs \ {s} : flight'[q].token # issued'
                          /\ flight'[s].at = "refused" => flight'[s].token # issued'
      BY DEF FlightsOrdered
    <3>2. CASE s = t
      BY <2>3, <2>4, <2>7, <3>2
    <3>3. CASE s # t
      BY <2>3, <2>4, <2>6, <3>3
    <3>4. QED
      BY <3>2, <3>3
  <2>9. LastKept'
    BY <2>3 DEF LastKept, OnItsWay
  <2>10. \A d \in Calls : call[d].before \in 0..issued /\ call[d].before # issued'
    BY <1>2, <1>3, <2>2 DEF Call
  <2>11. CallsOrdered'
    <3>1. SUFFICES ASSUME NEW d \in Calls
                   PROVE  /\ call[d].at \notin {"login", "granted"}
                          /\ call[d].at = "wait"
                             /\ flight'[TabOf[d]].at \in {"sent", "refused"}
                             => call[d].before = flight'[TabOf[d]].token
                          /\ call[d].at = "lost" => call[d].before # issued'
      BY <1>1 DEF CallsOrdered, At
    <3>2. TabOf[d] = t \/ flight'[TabOf[d]] = flight[TabOf[d]]
      BY <2>3 DEF TabsAssumption
    <3>3. QED
      BY <2>3, <2>10, <3>2 DEF Ordered, CallsOrdered, At
  <2>12. QED
    BY <2>5, <2>8, <2>9, <2>11 DEF Ordered
<1>5. CASE /\ ~Rotatable(n) /\ UNCHANGED redis
           /\ flight' = [flight EXCEPT ![t].at = "refused"]
  <2>1. n # issued
    BY <1>2, <1>5, RotatableIsLast DEF Ordered
  <2>2. /\ flight'[t].at = "refused" /\ flight'[t].token = n
        /\ \A s \in Tabs \ {t} : flight'[s] = flight[s]
    BY <1>3, <1>5 DEF Flight
  <2>3. OneUser'
    BY <1>5 DEF Ordered, OneUser, redis
  <2>4. FlightsOrdered'
    <3>1. SUFFICES ASSUME NEW s \in Tabs
                   PROVE  /\ flight'[s].at = "granted" =>
                               /\ flight'[s].token = issued /\ refresh # issued
                               /\ \A q \in Tabs \ {s} : flight'[q].token # issued
                          /\ flight'[s].at = "refused" => flight'[s].token # issued
      BY <1>1, <1>5 DEF FlightsOrdered, redis, storage
    <3>2. CASE s = t
      BY <2>1, <2>2, <3>2
    <3>3. CASE s # t
      BY <2>2, <3>3 DEF Ordered, FlightsOrdered
    <3>4. QED
      BY <3>2, <3>3
  <2>5. LastKept'
    <3>1. ASSUME OnItsWay(issued) PROVE OnItsWay(issued)'
      <4>1. PICK s \in Tabs : flight[s] = [at |-> "granted", token |-> issued]
        BY <3>1 DEF OnItsWay
      <4>2. s # t
        BY <1>1, <4>1
      <4>3. QED
        BY <1>5, <2>2, <4>1, <4>2 DEF OnItsWay, redis
    <3>2. QED
      BY <1>1, <1>5, <3>1 DEF Ordered, LastKept, redis, storage
  <2>6. CallsOrdered'
    <3>1. SUFFICES ASSUME NEW d \in Calls
                   PROVE  /\ call[d].at \notin {"login", "granted"}
                          /\ call[d].at = "wait"
                             /\ flight'[TabOf[d]].at \in {"sent", "refused"}
                             => call[d].before = flight'[TabOf[d]].token
                          /\ call[d].at = "lost" => call[d].before # issued
      BY <1>1, <1>5 DEF CallsOrdered, At, redis
    <3>2. \/ TabOf[d] = t
          \/ TabOf[d] \in Tabs \ {t} /\ flight'[TabOf[d]] = flight[TabOf[d]]
      BY <2>2 DEF TabsAssumption
    <3>3. QED
      BY <1>1, <2>2, <3>2 DEF Ordered, CallsOrdered, At
  <2>7. QED
    BY <2>3, <2>4, <2>5, <2>6 DEF Ordered
<1>6. QED
  BY <1>4, <1>5 DEF Rotate

\* The tab that was granted the last token stores it (api.ts:93-94).
LEMMA StoreOrdered ==
    ASSUME TypeInv, Ordered, NEW t \in Tabs, StorePair(t)
    PROVE  Ordered'
<1>1. /\ UNCHANGED <<redis, call>> /\ flight' = [flight EXCEPT ![t].at = "stored"]
      /\ flight \in [Tabs -> Flight(issued)] /\ issued \in Nat \ {0}
      /\ flight[t].at = "granted"
  BY DEF StorePair, TypeInv, TypeOK, RedisType, BrowserType
<1>2. flight'[t].at = "stored" /\ \A s \in Tabs \ {t} : flight'[s] = flight[s]
  BY <1>1 DEF Flight
<1>3. refresh' = issued /\ \A s \in Tabs \ {t} : flight[s].token # issued
  BY <1>1 DEF StorePair, Ordered, FlightsOrdered
<1>4. OneUser'
  BY <1>1 DEF Ordered, OneUser, redis
<1>5. \A s \in Tabs : flight'[s].at # "granted"
  BY <1>2, <1>3 DEF Ordered, FlightsOrdered
<1>6. \A s \in Tabs : flight'[s].at = "refused" => flight'[s].token # issued
  BY <1>2, <1>3
<1>7. FlightsOrdered' /\ LastKept'
  BY <1>1, <1>3, <1>5, <1>6 DEF FlightsOrdered, LastKept, redis
<1>8. CallsOrdered'
  <2>1. SUFFICES ASSUME NEW d \in Calls
                 PROVE  /\ call[d].at \notin {"login", "granted"}
                        /\ call[d].at = "wait"
                           /\ flight'[TabOf[d]].at \in {"sent", "refused"}
                           => call[d].before = flight'[TabOf[d]].token
                        /\ call[d].at = "lost" => call[d].before # issued
    BY <1>1 DEF CallsOrdered, At, redis
  <2>2. \/ TabOf[d] = t
        \/ TabOf[d] \in Tabs \ {t} /\ flight'[TabOf[d]] = flight[TabOf[d]]
    BY <1>2 DEF TabsAssumption
  <2>3. QED
    BY <1>2, <2>2 DEF Ordered, CallsOrdered, At
<1>9. QED
  BY <1>4, <1>7, <1>8 DEF Ordered

\* Those that wait for a refused token remember one that is not the last
\* (api.ts:100-107).
LEMMA SettleOrdered ==
    ASSUME TypeInv, Ordered, NEW t \in Tabs, Settle(t)
    PROVE  Ordered'
<1>1. /\ UNCHANGED redis /\ flight' = [flight EXCEPT ![t] = NoFlight]
      /\ flight \in [Tabs -> Flight(issued)] /\ call \in [Calls -> Call(issued)]
      /\ issued \in Nat \ {0}
  BY DEF Settle, TypeInv, TypeOK, RedisType, BrowserType
<1>2. flight'[t] = NoFlight /\ \A s \in Tabs \ {t} : flight'[s] = flight[s]
  BY <1>1
<1>3. NoFlight.at = "none" /\ NoFlight.token = 0 /\ NoFlight.token # issued
  BY <1>1 DEF NoFlight
<1>4. OneUser'
  BY <1>1 DEF Ordered, OneUser, redis
<1>5. FlightsOrdered' /\ LastKept'
  <2>1. UNCHANGED storage /\ flight[t].at # "granted"
    BY DEF Settle
  <2>2. FlightsOrdered'
    <3>1. SUFFICES ASSUME NEW s \in Tabs
                   PROVE  /\ flight'[s].at = "granted" =>
                               /\ flight'[s].token = issued /\ refresh # issued
                               /\ \A q \in Tabs \ {s} : flight'[q].token # issued
                          /\ flight'[s].at = "refused" => flight'[s].token # issued
      BY <1>1, <2>1 DEF FlightsOrdered, redis, storage
    <3>2. CASE s = t
      BY <1>2, <1>3, <3>2
    <3>3. CASE s # t
      BY <1>2, <1>3, <3>3 DEF Ordered, FlightsOrdered
    <3>4. QED
      BY <3>2, <3>3
  <2>3. LastKept'
    <3>1. ASSUME OnItsWay(issued) PROVE OnItsWay(issued)'
      <4>1. PICK s \in Tabs : flight[s] = [at |-> "granted", token |-> issued]
        BY <3>1 DEF OnItsWay
      <4>2. s # t
        BY <2>1, <4>1
      <4>3. QED
        BY <1>1, <1>2, <4>1, <4>2 DEF OnItsWay, redis
    <3>2. QED
      BY <1>1, <2>1, <3>1 DEF Ordered, LastKept, redis, storage
  <2>4. QED
    BY <2>2, <2>3
<1>6. CallsOrdered'
  <2>1. SUFFICES ASSUME NEW d \in Calls
                 PROVE  /\ call'[d].at \notin {"login", "granted"}
                        /\ call'[d].at = "wait"
                           /\ flight'[TabOf[d]].at \in {"sent", "refused"}
                           => call'[d].before = flight'[TabOf[d]].token
                        /\ call'[d].at = "lost" => call'[d].before # issued
    BY <1>1 DEF CallsOrdered, At, redis
  <2>2. CASE d \notin Waiting(t)
    <3>1. call'[d] = call[d]
      BY <2>2 DEF Settle
    <3>2. call[d].at = "wait" => TabOf[d] \in Tabs \ {t}
      BY <2>2 DEF Waiting, At, TabsAssumption
    <3>3. QED
      BY <1>2, <3>1, <3>2 DEF Ordered, CallsOrdered, At
  <2>3. CASE d \in Waiting(t) /\ flight[t].at = "stored"
    <3>1. call'[d] = [call[d] EXCEPT !.at = "won", !.before = 0]
      BY <2>3 DEF Settle
    <3>2. call'[d].at = "won"
      BY <1>1, <3>1 DEF Call
    <3>3. QED
      BY <3>2
  <2>4. CASE d \in Waiting(t) /\ flight[t].at = "refused"
    <3>1. call'[d] = [call[d] EXCEPT !.at = "lost"]
      BY <2>4 DEF Settle
    <3>2. call'[d].at = "lost" /\ call'[d].before = call[d].before
      BY <1>1, <3>1 DEF Call
    <3>3. call[d].before = flight[t].token /\ flight[t].token # issued
      BY <2>4 DEF Waiting, Ordered, CallsOrdered, FlightsOrdered
    <3>4. QED
      BY <3>2, <3>3
  <2>5. QED
    BY <2>2, <2>3, <2>4 DEF Settle
<1>7. QED
  BY <1>4, <1>5, <1>6 DEF Ordered

\* The tokens that a failed refresh erases are not the last ones (api.ts:123-136).
LEMMA CompareOrdered ==
    ASSUME TypeInv, Ordered, NEW c \in Calls, Compare(c)
    PROVE  Ordered'
<1>1. /\ UNCHANGED <<redis, flight>> /\ call[c].at = "lost"
      /\ issued \in Nat \ {0}
  BY DEF Compare, At, TypeInv, TypeOK, RedisType
<1>2. CASE Renewed(c) /\ call' = [call EXCEPT ![c] = Again(@)] /\ UNCHANGED storage
  <2>1. PICK k \in {Again(call[c])} : call' = [call EXCEPT ![c] = k]
    BY <1>2
  <2>2. k \in Call(issued) /\ k.at = "sent"
    BY CallRecords
  <2>3. QED
    BY <1>1, <1>2, <2>1, <2>2, CallOrdered
<1>3. CASE /\ ~Renewed(c) /\ access' = 0 /\ refresh' = 0
           /\ call' = [call EXCEPT ![c] = Thrown(@)]
  <2>1. refresh # issued
    BY <1>1, <1>3 DEF Renewed, Ordered, CallsOrdered, At
  <2>2. OneUser' /\ LastKept'
    BY <1>1, <2>1 DEF Ordered, OneUser, LastKept, OnItsWay, redis
  <2>3. FlightsOrdered'
    BY <1>1, <1>3 DEF Ordered, FlightsOrdered, redis
  <2>4. Thrown(call[c]).at \in {"idle", "failed"}
    <3>1. NoCall.at = "idle" /\ [NoCall EXCEPT !.at = "failed", !.kind = "init"].at = "failed"
      BY DEF NoCall
    <3>2. QED
      BY <3>1 DEF Thrown
  <2>5. \A d \in Calls : call'[d] = IF d = c THEN Thrown(call[c]) ELSE call[d]
    BY <1>3 DEF TypeInv, TypeOK, BrowserType
  <2>6. CallsOrdered'
    BY <1>1, <2>4, <2>5 DEF Ordered, CallsOrdered, At, redis
  <2>7. QED
    BY <2>2, <2>3, <2>6 DEF Ordered
<1>4. QED
  BY <1>2, <1>3 DEF Compare

\* The other steps of calls; whoever logs in disturbs the session.
LEMMA OtherOrdered ==
    ASSUME TypeInv, Ordered, Calm', NEW c \in Calls,
           Start(c) \/ Succeed(c) \/ CallFails(c) \/ Retry(c)
    PROVE  Ordered'
<1>1. UNCHANGED <<redis, storage, flight>>
  BY DEF Start, Succeed, CallFails, Retry
<1>2. PICK k \in Call(issued) : k.at \notin {"wait", "lost", "login", "granted"}
                                /\ call' = [call EXCEPT ![c] = k]
  <2>1. /\ NoCall \in Call(issued) /\ NoCall.at = "idle"
        /\ Thrown(call[c]) \in Call(issued) /\ Again(call[c]) \in Call(issued)
        /\ Again(call[c]).at = "sent" /\ access \in 0..issued
    BY CallRecords DEF NoCall, TypeInv, TypeOK, BrowserType
  <2>2. Thrown(call[c]).at \in {"idle", "failed"}
    <3>1. [NoCall EXCEPT !.at = "failed", !.kind = "init"].at = "failed"
      BY DEF NoCall
    <3>2. QED
      BY <2>1, <3>1 DEF Thrown
  <2>3. CASE Start(c)
    <3>1. PICK kind \in {"api", "init"} :
            call' = [call EXCEPT ![c] = [NoCall EXCEPT !.at = "sent", !.kind = kind,
                                                      !.access = access]]
      BY <2>3 DEF Start
    <3> DEFINE k == [NoCall EXCEPT !.at = "sent", !.kind = kind, !.access = access]
    <3>2. k \in Call(issued) /\ k.at = "sent"
      BY <2>1 DEF Call
    <3>3. call' = [call EXCEPT ![c] = k]
      BY <3>1
    <3> HIDE DEF k
    <3>4. QED
      BY <3>2, <3>3
  <2>4. CASE Succeed(c)
    BY <2>1, <2>4 DEF Succeed, End
  <2>5. CASE CallFails(c)
    <3>1. call' = [call EXCEPT ![c] = Thrown(call[c])]
      BY <2>5 DEF CallFails
    <3>2. QED
      BY <2>1, <2>2, <3>1
  <2>6. CASE Retry(c)
    <3>1. call' = [call EXCEPT ![c] = Again(call[c])]
      BY <2>6 DEF Retry
    <3>2. QED
      BY <2>1, <3>1
  <2>7. QED
    BY <2>3, <2>4, <2>5, <2>6
<1>3. QED
  BY <1>1, <1>2, CallOrdered

LEMMA SessionStep == SessionInv /\ [Next]_vars => SessionInv'
<1> SUFFICES ASSUME SessionInv, [Next]_vars, Calm'
             PROVE  Ordered'
  BY TypeStep DEF SessionInv
<1>1. TypeInv /\ Ordered
  BY CalmBefore DEF SessionInv
<1>2. ASSUME NEW c \in Calls, Start(c) \/ CallStep(c) \/ CallFails(c) \/ Login(c)
      PROVE  Ordered'
  <2>1. CASE Start(c) \/ Succeed(c) \/ CallFails(c) \/ Retry(c)
    BY <1>1, <2>1, OtherOrdered
  <2>2. CASE Unauthorized(c)
    BY <1>1, <2>2, UnauthorizedOrdered
  <2>3. CASE Compare(c)
    BY <1>1, <2>3, CompareOrdered
  <2>4. ~InitFails(c) /\ ~Login(c)
    BY DEF InitFails, Login, Calm
  <2>5. ~IssueLogin(c) /\ ~StoreLogin(c)
    BY <1>1 DEF IssueLogin, StoreLogin, At, Ordered, CallsOrdered
  <2>6. QED
    BY <1>2, <2>1, <2>2, <2>3, <2>4, <2>5 DEF CallStep
<1>3. ASSUME NEW t \in Tabs, FlightStep(t) \/ RotateFails(t) \/ LoseAnswer(t)
      PROVE  Ordered'
  <2>1. ~RotateFails(t) /\ ~LoseAnswer(t)
    BY DEF RotateFails, LoseAnswer, Calm
  <2>2. QED
    BY <1>1, <1>3, <2>1, RotateOrdered, StoreOrdered, SettleOrdered DEF FlightStep
<1>4. ASSUME NEW u \in Users, LoginElsewhere(u) PROVE FALSE
  BY <1>4 DEF LoginElsewhere, Calm
<1>5. ~Logout
  BY DEF Logout, Calm
<1>6. CASE Expire \/ UNCHANGED vars
  <2>1. UNCHANGED <<redis, storage, flight, call>>
    BY <1>6 DEF Expire, vars
  <2>2. QED
    BY <1>1, <2>1
        DEF Ordered, OneUser, FlightsOrdered, CallsOrdered, LastKept, OnItsWay, At, redis,
         storage
<1>7. QED
  BY <1>2, <1>3, <1>4, <1>5, <1>6 DEF Next

\* For any number of tabs and calls whose access tokens expire at any moment: as long as
\* nobody logs in or out, no answer is lost, init has not given up and no call joined a
\* refresh of an older token than it sees stored, the active token is stored or on its
\* way to a tab that stores it (api.ts:123-136).
THEOREM SessionAlwaysSurvives == Spec => []SessionSurvives
<1>1. Spec => []SessionInv
  BY SessionInit, SessionStep, PTL DEF Spec
<1>2. SessionInv => SessionSurvives
  <2>1. SUFFICES ASSUME SessionInv, Calm, NEW u \in Users, active[u] # 0
                 PROVE  refresh = active[u] \/ OnItsWay(active[u])
    BY DEF SessionSurvives, SessionKept, Calm
  <2>2. Ordered
    BY <2>1 DEF SessionInv
  <2>3. active[u] = issued
    BY <2>1, <2>2 DEF Ordered, OneUser
  <2>4. QED
    BY <2>2, <2>3 DEF Ordered, LastKept
<1>3. QED
  BY <1>1, <1>2, PTL

-----------------------------------------------------------------------------
(* What a call may cost *)

\* The calls that may still cost a refresh, the logins, which also cost the pair they
\* are answered with, and the refreshes that are asked for.
Owing(k)     == {c \in Calls : \/ k[c].at = "sent" /\ ~k[c].retried
                               \/ k[c].at \in {"login", "granted"}}
LoggingIn(k) == {c \in Calls : k[c].at = "login"}
Asking(f)    == {t \in Tabs : f[t].at = "sent"}

\* What one call may still cost, and all of them.
Debt(r)  == IF r.at = "login" THEN 2
            ELSE IF r.at = "granted" \/ (r.at = "sent" /\ ~r.retried) THEN 1 ELSE 0
Debts(k) == Cardinality(Owing(k)) + Cardinality(LoggingIn(k))

\* The calls started, the logins and the failures pay for the tokens issued, those that
\* are asked for and those that may be.
Paid ==
    /\ IsFiniteSet(Owing(call)) /\ IsFiniteSet(LoggingIn(call)) /\ IsFiniteSet(Asking(flight))
    /\ issued + Debts(call) + Cardinality(Asking(flight))
         <= 1 + (MaxStarts - starts) + 2 * (MaxUpsets - upsets)

PaidInv == TypeInv /\ Paid

\* Sets that differ in one element at most differ in size by that element.
LEMMA OneApart ==
    ASSUME NEW S, NEW T, NEW x, IsFiniteSet(S), S \ {x} = T \ {x}
    PROVE  /\ IsFiniteSet(T) /\ Cardinality(S) \in Nat /\ Cardinality(T) \in Nat
           /\ Cardinality(T) + (IF x \in S THEN 1 ELSE 0)
                = Cardinality(S) + (IF x \in T THEN 1 ELSE 0)
<1> DEFINE R == S \ {x}
<1>1. IsFiniteSet(R) /\ Cardinality(S) = Cardinality(R) + (IF x \in S THEN 1 ELSE 0)
  <2>1. /\ IsFiniteSet(R)
        /\ Cardinality(R) = IF x \in S THEN Cardinality(S) - 1 ELSE Cardinality(S)
    BY FS_RemoveElement
  <2>2. Cardinality(S) \in Nat
    BY FS_CardinalityType
  <2> HIDE DEF R
  <2>3. QED
    BY <2>1, <2>2
<1>2. IsFiniteSet(T) /\ Cardinality(T) = Cardinality(R) + (IF x \in T THEN 1 ELSE 0)
  <2>1. T = IF x \in T THEN R \cup {x} ELSE R
    OBVIOUS
  <2>2. x \notin R
    OBVIOUS
  <2>3. IsFiniteSet(R \cup {x}) /\ Cardinality(R \cup {x}) = Cardinality(R) + 1
    <3> HIDE DEF R
    <3>1. QED
      BY <1>1, <2>2, FS_AddElement
  <2>4. Cardinality(R) \in Nat
    BY <1>1, FS_CardinalityType
  <2> HIDE DEF R
  <2>5. CASE x \in T
    BY <2>1, <2>3, <2>5
  <2>6. CASE x \notin T
    <3>1. T = R
      BY <2>1, <2>6
    <3>2. QED
      BY <1>1, <2>4, <2>6, <3>1
  <2>7. QED
    BY <2>5, <2>6
<1>3. Cardinality(S) \in Nat /\ Cardinality(T) \in Nat /\ Cardinality(R) \in Nat
  BY <1>1, <1>2, FS_CardinalityType
<1> HIDE DEF R
<1>4. QED
  BY <1>1, <1>2, <1>3

\* Nothing but x moves from f to g, functions over S.
Moves(S, x, f, g) == \A y \in S \ {x} : g[y] = f[y]

\* When one call moves, the debts change by what it owed and owes.
LEMMA DebtMoves ==
    ASSUME NEW k, NEW l, NEW c \in Calls, Moves(Calls, c, k, l),
           IsFiniteSet(Owing(k)), IsFiniteSet(LoggingIn(k))
    PROVE  /\ IsFiniteSet(Owing(l)) /\ IsFiniteSet(LoggingIn(l))
           /\ Debts(k) \in Nat /\ Debts(l) \in Nat
           /\ Debts(l) + Debt(k[c]) = Debts(k) + Debt(l[c])
<1>1. Owing(k) \ {c} = Owing(l) \ {c} /\ LoggingIn(k) \ {c} = LoggingIn(l) \ {c}
  BY DEF Moves, Owing, LoggingIn
<1>2. ASSUME NEW f
      PROVE  Debt(f[c]) = (IF c \in Owing(f) THEN 1 ELSE 0) + (IF c \in LoggingIn(f) THEN 1 ELSE 0)
  BY DEF Debt, Owing, LoggingIn
<1> DEFINE ok == IF c \in Owing(k) THEN 1 ELSE 0
           ol == IF c \in Owing(l) THEN 1 ELSE 0
           gk == IF c \in LoggingIn(k) THEN 1 ELSE 0
           gl == IF c \in LoggingIn(l) THEN 1 ELSE 0
<1>3. Debt(k[c]) = ok + gk /\ Debt(l[c]) = ol + gl
  BY <1>2
<1>4. /\ IsFiniteSet(Owing(l)) /\ Cardinality(Owing(k)) \in Nat /\ Cardinality(Owing(l)) \in Nat
      /\ Cardinality(Owing(l)) + ok = Cardinality(Owing(k)) + ol
  BY <1>1, OneApart
<1>5. /\ IsFiniteSet(LoggingIn(l))
      /\ Cardinality(LoggingIn(k)) \in Nat /\ Cardinality(LoggingIn(l)) \in Nat
      /\ Cardinality(LoggingIn(l)) + gk = Cardinality(LoggingIn(k)) + gl
  BY <1>1, OneApart
<1>6. ok \in Nat /\ ol \in Nat /\ gk \in Nat /\ gl \in Nat
  OBVIOUS
<1> HIDE DEF ok, ol, gk, gl
<1>7. Debts(k) \in Nat /\ Debts(l) \in Nat /\ Debts(l) + Debt(k[c]) = Debts(k) + Debt(l[c])
  <2>1. PICK x \in Nat, y \in Nat, u \in Nat, v \in Nat :
          /\ x = Cardinality(Owing(k)) /\ y = Cardinality(Owing(l))
          /\ u = Cardinality(LoggingIn(k)) /\ v = Cardinality(LoggingIn(l))
    BY <1>4, <1>5
  <2>2. y + ok = x + ol /\ v + gk = u + gl
    BY <1>4, <1>5, <2>1
  <2>3. (y + v) + (ok + gk) = (x + u) + (ol + gl)
    BY <1>6, <2>2
  <2>4. QED
    BY <1>3, <2>1, <2>3 DEF Debts
<1>8. QED
  BY <1>4, <1>5, <1>7

\* A refresh that is asked for or answered changes their number by one.
LEMMA AskingMoves ==
    ASSUME NEW f, NEW g, NEW t \in Tabs, Moves(Tabs, t, f, g),
           IsFiniteSet(Asking(f))
    PROVE  /\ IsFiniteSet(Asking(g))
           /\ Cardinality(Asking(f)) \in Nat /\ Cardinality(Asking(g)) \in Nat
           /\ Cardinality(Asking(g)) + (IF f[t].at = "sent" THEN 1 ELSE 0)
                = Cardinality(Asking(f)) + (IF g[t].at = "sent" THEN 1 ELSE 0)
<1>1. Asking(f) \ {t} = Asking(g) \ {t}
  BY DEF Moves, Asking
<1>2. (t \in Asking(f) <=> f[t].at = "sent") /\ (t \in Asking(g) <=> g[t].at = "sent")
  BY DEF Asking
<1>3. QED
  BY <1>1, <1>2, OneApart

LEMMA PaidInit == Init => Paid
<1> SUFFICES ASSUME Init PROVE Paid
  OBVIOUS
<1>1. Owing(call) = {} /\ LoggingIn(call) = {} /\ Asking(flight) = {}
  BY DEF Init, Owing, LoggingIn, Asking, NoCall, NoFlight
<1>2. issued = 1 /\ starts = MaxStarts /\ upsets = MaxUpsets
  BY DEF Init
<1>3. QED
  BY <1>1, <1>2, FS_EmptySet DEF Paid, Debts, BoundsAssumption

\* What a step may spend: a call that starts pays one token, a login or a failure two.
Spent == (starts - starts') + 2 * (upsets - upsets')

\* It pays for p tokens, q more debts and r more refreshes asked for.
Covers(p, q, r) ==
    /\ p \in Int /\ q \in Int /\ r \in Int
    /\ issued' <= issued + p
    /\ IsFiniteSet(Asking(flight'))
    /\ Cardinality(Asking(flight')) <= Cardinality(Asking(flight)) + r
    /\ p + q + r <= Spent

DebtsGrow(q) ==
    /\ IsFiniteSet(Owing(call')) /\ IsFiniteSet(LoggingIn(call'))
    /\ Debts(call') <= Debts(call) + q

LEMMA PaidFor ==
    ASSUME PaidInv, TypeInv', NEW p, NEW q, NEW r, Covers(p, q, r), DebtsGrow(q)
    PROVE  Paid'
<1>1. /\ issued \in Nat /\ issued' \in Nat
      /\ starts \in Nat /\ starts' \in Nat /\ upsets \in Nat /\ upsets' \in Nat
      /\ MaxStarts \in Nat /\ MaxUpsets \in Nat
  BY DEF PaidInv, TypeInv, TypeOK, RedisType, BoundsType, BoundsAssumption
<1>2. /\ Cardinality(Asking(flight)) \in Nat /\ Cardinality(Asking(flight')) \in Nat
      /\ Debts(call) \in Nat /\ Debts(call') \in Nat
  <2>1. /\ IsFiniteSet(Owing(call)) /\ IsFiniteSet(LoggingIn(call))
        /\ IsFiniteSet(Asking(flight)) /\ IsFiniteSet(Asking(flight'))
        /\ IsFiniteSet(Owing(call')) /\ IsFiniteSet(LoggingIn(call'))
    BY DEF PaidInv, Paid, Covers, DebtsGrow
  <2>2. QED
    BY <2>1, FS_CardinalityType DEF Debts
<1> DEFINE a == Cardinality(Asking(flight))
           b == Cardinality(Asking(flight'))
           d == Debts(call)
           e == Debts(call')
<1>3. issued + d + a <= 1 + (MaxStarts - starts) + 2 * (MaxUpsets - upsets)
  BY DEF PaidInv, Paid
<1>4. /\ p + q + r <= (starts - starts') + 2 * (upsets - upsets')
      /\ p \in Int /\ q \in Int /\ r \in Int /\ issued' <= issued + p
  BY DEF Covers, Spent
<1>5. a \in Nat /\ b \in Nat /\ d \in Nat /\ e \in Nat /\ e <= d + q /\ b <= a + r
  BY <1>2 DEF Covers, DebtsGrow
<1> HIDE DEF a, b, d, e
<1>6. issued' + e + b <= 1 + (MaxStarts - starts') + 2 * (MaxUpsets - upsets')
  <2>1. PICK i \in Nat, j \in Nat, s \in Nat, t \in Nat, u \in Nat, v \in Nat,
             m \in Nat, n \in Nat :
          /\ i = issued /\ j = issued' /\ s = starts /\ t = starts' /\ u = upsets
          /\ v = upsets' /\ m = MaxStarts /\ n = MaxUpsets
    BY <1>1
  <2>2. PICK w \in Nat, x \in Nat, y \in Nat, z \in Nat : a = w /\ b = x /\ d = y /\ e = z
    BY <1>5
  <2>3. PICK f \in Int, g \in Int, h \in Int : f = p /\ g = q /\ h = r
    BY <1>4
  <2>4. /\ j <= i + f /\ z <= y + g /\ x <= w + h
        /\ f + g + h <= (s - t) + 2 * (u - v)
        /\ i + y + w <= 1 + (m - s) + 2 * (n - u)
    BY <1>3, <1>4, <1>5, <2>1, <2>2, <2>3
  <2>5. j + z + x <= 1 + (m - t) + 2 * (n - v)
    BY <2>4
  <2>6. QED
    BY <2>1, <2>2, <2>5
<1>7. QED
  BY <1>6 DEF Paid, Debts, Owing, LoggingIn, Asking, Covers, DebtsGrow, a, b, d, e

LEMMA DebtRange == ASSUME NEW k PROVE Debt(k) \in 0..2
BY DEF Debt

\* What the records of a call owe on its way: nothing once it has waited or failed.
LEMMA DebtRecords ==
    ASSUME TypeInv, NEW c \in Calls
    PROVE  /\ Debt(NoCall) = 0 /\ Debt(Thrown(call[c])) = 0 /\ Debt(Again(call[c])) = 0
           /\ \A l \in {"wait", "lost"} : Debt(Waits(call[c], l)) = 0
<1>1. call[c] \in Call(issued)
  BY CallRecords
<1>2. Debt(NoCall) = 0
  BY DEF Debt, NoCall
<1>3. Debt(Thrown(call[c])) = 0
  <2>1. Debt([NoCall EXCEPT !.at = "failed", !.kind = "init"]) = 0
    BY DEF Debt, NoCall
  <2>2. QED
    BY <1>2, <2>1 DEF Thrown
<1>4. Debt(Again(call[c])) = 0
  <2>1. Again(call[c]).at = "sent" /\ Again(call[c]).retried = TRUE
    BY <1>1 DEF Again, Call
  <2>2. QED
    BY <2>1 DEF Debt
<1>5. ASSUME NEW l \in {"wait", "lost"} PROVE Debt(Waits(call[c], l)) = 0
  <2>1. Waits(call[c], l).at = l
    BY CallRecords
  <2>2. QED
    BY <2>1 DEF Debt
<1>6. QED
  BY <1>2, <1>3, <1>4, <1>5

\* The record k owes no more than q above what the call c owes.
Owes(c, k, q) == q \in Int /\ Debt(k) <= Debt(call[c]) + q

\* A step of one call is paid for when its debt is.
LEMMA CallPaid ==
    ASSUME PaidInv, TypeInv', NEW c \in Calls, NEW k, call' = [call EXCEPT ![c] = k],
           NEW p, NEW q, NEW r, Covers(p, q, r), Owes(c, k, q)
    PROVE  Paid'
<1>1. call'[c] = k /\ Moves(Calls, c, call, call')
  BY DEF PaidInv, TypeInv, TypeOK, BrowserType, Moves
<1>2. /\ IsFiniteSet(Owing(call')) /\ IsFiniteSet(LoggingIn(call'))
      /\ Debts(call) \in Nat /\ Debts(call') \in Nat
      /\ Debts(call') + Debt(call[c]) = Debts(call) + Debt(k)
  <2>1. IsFiniteSet(Owing(call)) /\ IsFiniteSet(LoggingIn(call))
    BY DEF PaidInv, Paid
  <2>2. /\ IsFiniteSet(Owing(call')) /\ IsFiniteSet(LoggingIn(call'))
        /\ Debts(call) \in Nat /\ Debts(call') \in Nat
        /\ Debts(call') + Debt(call[c]) = Debts(call) + Debt(call'[c])
    BY ONLY <1>1, <2>1, c \in Calls, DebtMoves
  <2>3. QED
    BY <1>1, <2>2
<1>3. Debts(call') <= Debts(call) + q
  <2>1. PICK x \in Nat, y \in Nat, u \in 0..2, v \in 0..2, g \in Int :
          /\ x = Debts(call) /\ y = Debts(call') /\ u = Debt(call[c]) /\ v = Debt(k)
          /\ g = q
    BY <1>2, DebtRange DEF Owes
  <2>2. y + u = x + v /\ v <= u + g
    BY <1>2, <2>1 DEF Owes
  <2>3. y <= x + g
    BY <2>2
  <2>4. QED
    BY <2>1, <2>3
<1>4. DebtsGrow(q)
  BY <1>2, <1>3 DEF DebtsGrow
<1>5. QED
  BY <1>4, PaidFor

\* What a step that asks for no refresh covers.
LEMMA CoversAlone ==
    ASSUME PaidInv, UNCHANGED flight, NEW p \in Int, NEW q \in Int,
           issued' <= issued + p, p + q <= Spent
    PROVE  Covers(p, q, 0)
<1>1. IsFiniteSet(Asking(flight')) /\ Cardinality(Asking(flight)) \in Nat
  BY FS_CardinalityType DEF PaidInv, Paid
<1>2. Cardinality(Asking(flight')) <= Cardinality(Asking(flight)) + 0
  BY <1>1
<1>3. p + q + 0 <= Spent
  OBVIOUS
<1>4. QED
  BY <1>1, <1>2, <1>3 DEF Covers

\* What the bounds of a step are worth.
LEMMA SpentBounds ==
    ASSUME TypeInv
    PROVE  /\ UNCHANGED bounds => Spent = 0
           /\ starts > 0 /\ starts' = starts - 1 /\ UNCHANGED upsets => Spent = 1
           /\ Upset /\ UNCHANGED starts => Spent = 2
<1>1. starts \in Nat /\ upsets \in Nat
  BY DEF TypeInv, TypeOK, BoundsType
<1>2. QED
  BY <1>1 DEF Spent, Upset, bounds

\* Every step of a call is paid for (api.ts:83-137).
LEMMA CallStepPaid ==
    ASSUME PaidInv, TypeInv',
           NEW c \in Calls, Start(c) \/ CallStep(c) \/ CallFails(c) \/ Login(c)
    PROVE  Paid'
<1>1. /\ TypeInv /\ issued \in Nat /\ issued <= issued + 0
      /\ call[c] \in Call(issued) /\ Debt(call[c]) \in 0..2
  BY DebtRange, CallRecords DEF PaidInv
<1>2. ASSUME NEW k, Debt(k) = 0, call' = [call EXCEPT ![c] = k],
             UNCHANGED <<redis, flight>>, UNCHANGED bounds \/ (Upset /\ UNCHANGED starts)
      PROVE  Paid'
  <2>1. 0 + 0 <= Spent /\ issued' <= issued + 0
    BY <1>1, <1>2, SpentBounds DEF redis
  <2>2. Owes(c, k, 0)
    BY <1>1, <1>2 DEF Owes
  <2>3. Covers(0, 0, 0)
    BY <1>2, <2>1, CoversAlone
  <2>4. QED
    BY <1>2, <2>2, <2>3, CallPaid
<1>3. CASE Start(c)
  <2>1. PICK kind \in {"api", "init"} :
          call' = [call EXCEPT ![c] = [NoCall EXCEPT !.at = "sent", !.kind = kind,
                                                    !.access = access]]
    BY <1>3 DEF Start
  <2> DEFINE k == [NoCall EXCEPT !.at = "sent", !.kind = kind, !.access = access]
  <2>2. Debt(k) <= 1
    BY DEF Debt, NoCall
  <2>3. call' = [call EXCEPT ![c] = k]
    BY <2>1
  <2> HIDE DEF k
  <2>4. Owes(c, k, 1)
    BY <1>1, <2>2, DebtRange DEF Owes
  <2>5. UNCHANGED flight /\ issued' <= issued + 0 /\ 0 + 1 <= Spent
    BY <1>1, <1>3, SpentBounds DEF Start, redis
  <2>6. Covers(0, 1, 0)
    BY <2>5, CoversAlone
  <2>7. QED
    BY <2>3, <2>4, <2>6, CallPaid
<1>4. CASE Succeed(c) \/ InitFails(c)
  BY <1>2, <1>4, DebtRecords DEF Succeed, InitFails, End, PaidInv
<1>5. CASE Retry(c) \/ Compare(c) \/ CallFails(c)
  <2>1. PICK k \in {Thrown(call[c]), Again(call[c])} : call' = [call EXCEPT ![c] = k]
    BY <1>5 DEF Retry, Compare, CallFails
  <2>2. Debt(k) = 0
    BY <1>1, DebtRecords
  <2>3. QED
    BY <1>2, <1>5, <2>1, <2>2 DEF Retry, Compare, CallFails
<1>6. CASE Login(c)
  <2> DEFINE k == [call[c] EXCEPT !.at = "login"]
  <2>1. call' = [call EXCEPT ![c] = k]
    BY <1>6 DEF Login, Goto
  <2>2. Debt(k) \in 0..2
    BY DebtRange
  <2> HIDE DEF k
  <2>3. Owes(c, k, 2)
    BY <1>1, <2>2 DEF Owes
  <2>4. UNCHANGED flight /\ issued' <= issued + 0 /\ 0 + 2 <= Spent
    BY <1>1, <1>6, SpentBounds DEF Login, redis
  <2>5. Covers(0, 2, 0)
    BY <2>4, CoversAlone
  <2>6. QED
    BY <2>1, <2>3, <2>5, CallPaid
<1>7. CASE IssueLogin(c)
  <2>1. /\ call[c].at = "login" /\ UNCHANGED flight /\ issued' <= issued + 1
        /\ 1 + (-1) <= Spent
    <3>1. issued' = issued + 1 /\ UNCHANGED bounds /\ UNCHANGED flight /\ At(c, "login")
      BY <1>7 DEF IssueLogin, Issue
    <3>2. QED
      BY <1>1, <3>1, SpentBounds DEF At
  <2>2. Debt(call[c]) = 2
    BY <2>1 DEF Debt
  <2>3. PICK k : call' = [call EXCEPT ![c] = k] /\ Debt(k) <= 1
    <3>1. CASE End(c)
      <4>1. Debt(NoCall) <= 1
        BY <1>1, DebtRecords
      <4>2. QED
        BY <3>1, <4>1 DEF End
    <3>2. CASE call' = [call EXCEPT ![c].at = "granted", ![c].access = issued + 1]
      <4> DEFINE k == [call[c] EXCEPT !.at = "granted", !.access = issued + 1]
      <4>1. k.at = "granted"
        BY <1>1 DEF Call
      <4>2. call' = [call EXCEPT ![c] = k]
        BY <3>2 DEF PaidInv, TypeInv, TypeOK, BrowserType
      <4> HIDE DEF k
      <4>3. Debt(k) <= 1
        BY <4>1 DEF Debt
      <4>4. QED
        BY <4>2, <4>3
    <3>3. QED
      BY <1>7, <3>1, <3>2 DEF IssueLogin
  <2>4. Owes(c, k, -1)
    BY <2>2, <2>3, DebtRange DEF Owes
  <2>5. Covers(1, -1, 0)
    BY <2>1, CoversAlone
  <2>6. QED
    BY <2>3, <2>4, <2>5, CallPaid
<1>8. CASE StoreLogin(c)
  <2> DEFINE k == [call[c] EXCEPT !.at = "sent"]
  <2>1. /\ call[c].at = "granted" /\ UNCHANGED flight /\ issued' <= issued + 0
        /\ 0 + 0 <= Spent
    BY <1>1, <1>8, SpentBounds DEF StoreLogin, At, redis
  <2>2. k.at = "sent"
    BY <1>1 DEF Call
  <2>3. call' = [call EXCEPT ![c] = k]
    BY <1>8 DEF StoreLogin, Goto
  <2> HIDE DEF k
  <2>4. Debt(call[c]) = 1 /\ Debt(k) <= 1
    BY <2>1, <2>2 DEF Debt
  <2>5. Owes(c, k, 0)
    BY <2>4, DebtRange DEF Owes
  <2>6. Covers(0, 0, 0)
    BY <2>1, CoversAlone
  <2>7. QED
    BY <2>3, <2>5, <2>6, CallPaid
<1>9. CASE Unauthorized(c)
  <2> DEFINE t == TabOf[c]
  <2>1. /\ t \in Tabs /\ call[c].at = "sent" /\ UNCHANGED <<redis, bounds>>
        /\ flight \in [Tabs -> Flight(issued)]
    BY <1>1, <1>9 DEF Unauthorized, At, TabsAssumption, TypeInv, TypeOK, BrowserType
  <2>2. CASE call' = [call EXCEPT ![c] = Thrown(@)] /\ UNCHANGED flight
    <3>1. PICK k \in {Thrown(call[c])} : call' = [call EXCEPT ![c] = k]
      BY <2>2
    <3>2. Debt(k) = 0
      BY <1>1, DebtRecords
    <3>3. QED
      BY <1>2, <2>1, <2>2, <3>1, <3>2
  <2>3. CASE /\ ~call[c].retried
             /\ \E l \in {"wait", "lost"} : call' = [call EXCEPT ![c] = Waits(call[c], l)]
             /\ flight' = flight \/ flight' = [flight EXCEPT ![t] = [at |-> "sent", token |-> refresh]]
    <3>1. PICK l \in {"wait", "lost"} : call' = [call EXCEPT ![c] = Waits(call[c], l)]
      BY <2>3
    <3>2. Debt(call[c]) = 1
      BY <2>1, <2>3 DEF Debt
    <3>3. Owes(c, Waits(call[c], l), -1)
      BY <1>1, <3>2, DebtRecords DEF Owes
    <3>4. Moves(Tabs, t, flight, flight')
      BY <2>1, <2>3 DEF Moves
    <3>5. /\ IsFiniteSet(Asking(flight'))
          /\ Cardinality(Asking(flight)) \in Nat /\ Cardinality(Asking(flight')) \in Nat
          /\ Cardinality(Asking(flight')) + (IF flight[t].at = "sent" THEN 1 ELSE 0)
                = Cardinality(Asking(flight)) + (IF flight'[t].at = "sent" THEN 1 ELSE 0)
      BY <2>1, <3>4, AskingMoves DEF PaidInv, Paid
    <3>6. Cardinality(Asking(flight')) <= Cardinality(Asking(flight)) + 1
      BY <3>5
    <3>7. issued' <= issued + 0 /\ 0 + (-1) + 1 <= Spent
      BY <1>1, <2>1, SpentBounds DEF redis
    <3>8. Covers(0, -1, 1)
      BY <3>5, <3>6, <3>7 DEF Covers
    <3>9. QED
      BY <3>1, <3>3, <3>8, CallPaid
  <2>4. QED
    BY <1>9, <2>2, <2>3 DEF Unauthorized
<1>10. QED
  BY <1>3, <1>4, <1>5, <1>6, <1>7, <1>8, <1>9 DEF CallStep

\* A refresh that is answered was asked for; whoever waited for it owes nothing more
\* (api.ts:83-107).
LEMMA FlightStepPaid ==
    ASSUME PaidInv, TypeInv',
           NEW t \in Tabs, FlightStep(t) \/ RotateFails(t) \/ LoseAnswer(t)
    PROVE  Paid'
<1>1. /\ TypeInv /\ issued \in Nat /\ flight \in [Tabs -> Flight(issued)]
      /\ call \in [Calls -> Call(issued)] /\ owner \in [1..issued -> Users]
      /\ IsFiniteSet(Owing(call)) /\ IsFiniteSet(LoggingIn(call))
      /\ IsFiniteSet(Asking(flight))
  BY DEF PaidInv, Paid, TypeInv, TypeOK, RedisType, BrowserType
<1>2. Debts(call) \in Nat
  BY <1>1, FS_CardinalityType DEF Debts
<1>3. CASE Rotate(t) \/ RotateFails(t)
  <2>1. /\ flight[t].at = "sent" /\ flight'[t].at \in {"granted", "refused"}
        /\ Moves(Tabs, t, flight, flight')
        /\ UNCHANGED call /\ issued' <= issued + 1 /\ Spent >= 0
    <3>1. ASSUME NEW u, Issue(u) PROVE issued' <= issued + 1
      BY <1>1, <3>1 DEF Issue
    <3>2. issued' <= issued + 1
      BY <1>1, <1>3, <3>1 DEF Rotate, RotateFails, redis
    <3>3. flight[t].at = "sent" /\ UNCHANGED call /\ Spent >= 0
      BY <1>1, <1>3, SpentBounds DEF Rotate, RotateFails
    <3>4. PICK f \in {[at |-> "granted", token |-> issued + 1],
                      [flight[t] EXCEPT !.at = "refused"]} :
            flight' = [flight EXCEPT ![t] = f]
      BY <1>1, <1>3 DEF Rotate, RotateFails
    <3>5. f.at \in {"granted", "refused"}
      <4>1. [flight[t] EXCEPT !.at = "refused"].at = "refused"
        BY <1>1 DEF Flight
      <4>2. [at |-> "granted", token |-> issued + 1].at = "granted"
        OBVIOUS
      <4>3. QED
        BY <3>4, <4>1, <4>2
    <3>6. flight'[t] = f /\ Moves(Tabs, t, flight, flight')
      BY <1>1, <3>4 DEF Moves
    <3>7. QED
      BY <3>2, <3>3, <3>5, <3>6
  <2>2. /\ IsFiniteSet(Asking(flight'))
        /\ Cardinality(Asking(flight)) \in Nat /\ Cardinality(Asking(flight')) \in Nat
        /\ Cardinality(Asking(flight')) + (IF flight[t].at = "sent" THEN 1 ELSE 0)
              = Cardinality(Asking(flight)) + (IF flight'[t].at = "sent" THEN 1 ELSE 0)
    BY <1>1, <2>1, AskingMoves
  <2>3. Cardinality(Asking(flight')) <= Cardinality(Asking(flight)) + (-1)
    BY <2>1, <2>2
  <2>4. DebtsGrow(0)
    BY <1>1, <1>2, <2>1 DEF DebtsGrow
  <2>5. Covers(1, 0, -1)
    BY <2>1, <2>2, <2>3 DEF Covers
  <2>6. QED
    BY <2>4, <2>5, PaidFor
<1>4. CASE Settle(t) \/ LoseAnswer(t)
  <2>1. /\ flight' = [flight EXCEPT ![t] = NoFlight] /\ UNCHANGED redis
        /\ 0 <= Spent
    <3>1. UNCHANGED bounds \/ (Upset /\ UNCHANGED starts)
      BY <1>4 DEF Settle, LoseAnswer
    <3>2. Spent \in {0, 2}
      BY <1>1, <3>1, SpentBounds
    <3>3. 0 <= Spent
      BY <3>2
    <3>4. QED
      BY <1>4, <3>3 DEF Settle, LoseAnswer
  <2>2. Asking(flight') \subseteq Asking(flight)
    BY <1>1, <2>1 DEF Asking, NoFlight
  <2>3. ASSUME NEW c \in Calls, call'[c] # call[c]
        PROVE  call'[c].at \in {"won", "lost", "failed", "idle"}
    <3>1. CASE Settle(t)
      <4>1. call'[c] \in {[call[c] EXCEPT !.at = "won", !.before = 0], [call[c] EXCEPT !.at = "lost"]}
        BY <2>3, <3>1 DEF Settle
      <4>2. /\ [call[c] EXCEPT !.at = "won", !.before = 0].at = "won"
            /\ [call[c] EXCEPT !.at = "lost"].at = "lost"
        BY <1>1 DEF Call
      <4>3. QED
        BY <4>1, <4>2
    <3>2. CASE LoseAnswer(t)
      <4>1. call'[c] = Thrown(call[c])
        BY <2>3, <3>2 DEF LoseAnswer
      <4>2. Thrown(call[c]).at \in {"idle", "failed"}
        <5>1. /\ NoCall.at = "idle"
              /\ [NoCall EXCEPT !.at = "failed", !.kind = "init"].at = "failed"
          BY DEF NoCall
        <5>2. QED
          BY <5>1 DEF Thrown
      <4>3. QED
        BY <4>1, <4>2
    <3>3. QED
      BY <1>4, <3>1, <3>2
  <2>4. Owing(call') \subseteq Owing(call) /\ LoggingIn(call') \subseteq LoggingIn(call)
    BY <2>3 DEF Owing, LoggingIn
  <2>5. /\ IsFiniteSet(Asking(flight')) /\ IsFiniteSet(Owing(call')) /\ IsFiniteSet(LoggingIn(call'))
        /\ Cardinality(Asking(flight')) <= Cardinality(Asking(flight))
        /\ Cardinality(Owing(call')) <= Cardinality(Owing(call))
        /\ Cardinality(LoggingIn(call')) <= Cardinality(LoggingIn(call))
    BY <1>1, <2>2, <2>4, FS_Subset
  <2>6. Covers(0, 0, 0)
    BY <1>1, <2>1, <2>5, FS_CardinalityType DEF Covers, redis
  <2>7. DebtsGrow(0)
    BY <1>1, <2>5, FS_CardinalityType DEF DebtsGrow, Debts
  <2>8. QED
    BY <2>6, <2>7, PaidFor
<1>5. CASE StorePair(t)
  <2>1. /\ flight[t].at = "granted" /\ flight' = [flight EXCEPT ![t].at = "stored"]
        /\ UNCHANGED <<redis, call>> /\ UNCHANGED bounds
    BY <1>5 DEF StorePair
  <2>2. Spent = 0
    BY <1>1, <2>1, SpentBounds
  <2>3. Asking(flight') = Asking(flight)
    BY <1>1, <2>1 DEF Asking, Flight
  <2>4. Covers(0, 0, 0)
    BY <1>1, <2>1, <2>2, <2>3, FS_CardinalityType DEF Covers, redis
  <2>5. DebtsGrow(0)
    BY <1>1, <1>2, <2>1 DEF DebtsGrow
  <2>6. QED
    BY <2>4, <2>5, PaidFor
<1>6. QED
  BY <1>3, <1>4, <1>5 DEF FlightStep

LEMMA PaidStep == PaidInv /\ [Next]_vars => PaidInv'
<1> SUFFICES ASSUME PaidInv, [Next]_vars, TypeInv' PROVE Paid'
  BY TypeStep DEF PaidInv
<1>1. /\ TypeInv /\ issued \in Nat /\ Debts(call) \in Nat /\ Cardinality(Asking(flight)) \in Nat
      /\ IsFiniteSet(Owing(call)) /\ IsFiniteSet(LoggingIn(call))
      /\ IsFiniteSet(Asking(flight))
  <2>1. TypeInv /\ IsFiniteSet(Owing(call)) /\ IsFiniteSet(LoggingIn(call))
        /\ IsFiniteSet(Asking(flight))
    BY DEF PaidInv, Paid
  <2>2. /\ Cardinality(Owing(call)) \in Nat /\ Cardinality(LoggingIn(call)) \in Nat
        /\ Cardinality(Asking(flight)) \in Nat
    BY <2>1, FS_CardinalityType
  <2>3. issued \in Nat
    BY <2>1 DEF TypeInv, TypeOK, RedisType
  <2>4. QED
    BY <2>1, <2>2, <2>3 DEF Debts
<1>2. ASSUME UNCHANGED <<call, flight>>, issued' <= issued + 1, Spent = 2 \/ UNCHANGED issued,
             Spent >= 0, Spent \in Int
      PROVE  Paid'
  <2>1. PICK p \in {0, 1} : issued' <= issued + p /\ p + 0 <= Spent
    BY <1>1, <1>2
  <2>2. Covers(p, 0, 0)
    BY <1>2, <2>1, CoversAlone
  <2>3. DebtsGrow(0)
    BY <1>1, <1>2 DEF DebtsGrow
  <2>4. QED
    BY <2>2, <2>3, PaidFor
<1>3. ASSUME NEW u \in Users, LoginElsewhere(u) PROVE Paid'
  BY <1>1, <1>2, <1>3, SpentBounds DEF LoginElsewhere, Issue
<1>4. CASE Expire \/ Logout \/ UNCHANGED vars
  <2>1. UNCHANGED <<call, flight>> /\ UNCHANGED issued
    BY <1>4 DEF Expire, Logout, vars, redis
  <2>2. Spent \in {0, 2}
    BY <1>1, <1>4, SpentBounds DEF Expire, Logout, vars
  <2>3. QED
    BY <1>1, <1>2, <2>1, <2>2
<1>5. QED
  BY <1>3, <1>4, CallStepPaid, FlightStepPaid DEF Next

\* However many calls of however many tabs meet a 401 at the same time: the tokens issued
\* are one, one for each call started and two for each login, failure or login elsewhere,
\* so no call costs more than one refresh and no retry another (api.ts:100-107, 117-137).
THEOREM EachRefreshPaid == Spec => []OneRefreshEach
<1>1. Init => PaidInv
  BY TypeInit, PaidInit DEF PaidInv
<1>2. Spec => []PaidInv
  BY <1>1, PaidStep, PTL DEF Spec
<1>3. PaidInv => OneRefreshEach
  <2> SUFFICES ASSUME PaidInv PROVE OneRefreshEach
    OBVIOUS
  <2>1. /\ issued \in Nat /\ Debts(call) \in Nat /\ Cardinality(Asking(flight)) \in Nat
        /\ starts \in Nat /\ upsets \in Nat
    <3>1. TypeInv /\ IsFiniteSet(Owing(call)) /\ IsFiniteSet(LoggingIn(call))
          /\ IsFiniteSet(Asking(flight))
      BY DEF PaidInv, Paid
    <3>2. /\ Cardinality(Owing(call)) \in Nat /\ Cardinality(LoggingIn(call)) \in Nat
          /\ Cardinality(Asking(flight)) \in Nat
      BY <3>1, FS_CardinalityType
    <3>3. issued \in Nat /\ starts \in Nat /\ upsets \in Nat
      BY <3>1, BoundsAssumption DEF TypeInv, TypeOK, RedisType, BoundsType
    <3>4. QED
      BY <3>2, <3>3 DEF Debts
  <2>2. PICK i \in Nat, d \in Nat, a \in Nat, s \in Nat, u \in Nat, m \in Nat, n \in Nat :
          /\ i = issued /\ d = Debts(call) /\ a = Cardinality(Asking(flight))
          /\ s = starts /\ u = upsets /\ m = MaxStarts /\ n = MaxUpsets
    BY <2>1 DEF BoundsAssumption
  <2>3. i + d + a <= 1 + (m - s) + 2 * (n - u)
    BY <2>2 DEF PaidInv, Paid
  <2>4. i <= 1 + (m - s) + 2 * (n - u)
    BY <2>3
  <2>5. QED
    BY <2>2, <2>4 DEF OneRefreshEach
<1>4. QED
  BY <1>2, <1>3, PTL

==============================================================================
