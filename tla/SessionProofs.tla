--------------------------- MODULE SessionProofs ---------------------------
(***************************************************************************)
(* Theorems about TokenSessions and its RateLimiter, for any number of     *)
(* users, tokens, concurrent logins and requests, and any lifetimes.       *)
(***************************************************************************)
EXTENDS TokenSessions, TLAPS

\* Ages are counted at least as far as the properties ask.
LEMMA AgeBoundSuffices ==
  /\ AgeBound \in Nat /\ AgeBound >= CacheTTL + MaxDelay
  /\ AgeBound >= Window + MaxDelay + 1
  /\ Window \in Nat /\ Window >= 1 /\ CacheTTL \in Nat /\ CacheTTL >= 1
  /\ MaxDelay \in Nat /\ TokenLife \in Nat /\ TokenLife >= 1 /\ Limit \in Nat /\ Limit >= 1
BY LimiterAssumption, TimesAssumption DEF AgeBound

-----------------------------------------------------------------------------
(* The login counters *)

LoginTyped ==
  /\ LimiterTypeOK
  /\ login \in [Attempts -> {"idle", "expire", "verify"}]
  /\ name \in [Attempts -> Keys \cup {None}]
  /\ \A a \in Attempts : login[a] = "idle" <=> name[a] = None

\* A counter that somebody still has to give its lifetime to.
Owed(k) == \E a \in Attempts : login[a] = "expire" /\ name[a] = k

\* The age and the rest of the lifetime of a counter add up to a window and the
\* time that its EXPIRE took.
CounterInv(k) ==
  /\ hits[k] = 0 => age[k] = 0
  /\ Owed(k) => hits[k] > 0 /\ lifetime[k] = Forever /\ age[k] <= MaxDelay
  /\ k \notin lost /\ hits[k] > 0 =>
       \/ Owed(k)
       \/ lifetime[k] <= Window /\ lifetime[k] + age[k] <= Window + MaxDelay

\* Only the attempt that created a counter gives it its lifetime.
OneOwes ==
  \A a, b \in Attempts :
    login[a] = "expire" /\ login[b] = "expire" /\ name[a] = name[b] => a = b

LimiterInv == LoginTyped /\ OneOwes /\ \A k \in Keys : CounterInv(k)

\* What the handler of an attempt does to the others: nothing.
LEMMA AttemptMoves ==
  ASSUME LoginTyped, NEW a \in Attempts, NEW n \in Keys,
         NEW l \in {"idle", "expire", "verify"}, Attempt(a, n, l)
  PROVE  /\ login' \in [Attempts -> {"idle", "expire", "verify"}]
         /\ name' \in [Attempts -> Keys \cup {None}]
         /\ \A b \in Attempts : login'[b] = "idle" <=> name'[b] = None
         /\ login'[a] = l /\ (l # "idle" => name'[a] = n)
         /\ \A b \in Attempts \ {a} : login'[b] = login[b] /\ name'[b] = name[b]
BY UsersAssumption DEF LoginTyped, Attempt

\* A busy attempt has a name.
LEMMA AttemptName ==
  ASSUME LoginTyped, NEW a \in Attempts, login[a] # "idle"
  PROVE  name[a] \in Keys
BY DEF LoginTyped

\* INCR on a counter whose attempt stays to set the lifetime, or that exists.
LEMMA IncrInv ==
  ASSUME LimiterInv, NEW a \in Attempts, NEW n \in Keys, login[a] = "idle",
         Incr(n), NEW l \in {"idle", "expire", "verify"}, Attempt(a, n, l),
         l = "expire" <=> First(n)
  PROVE  LimiterInv'
<1> USE AgeBoundSuffices
<1>1. LoginTyped'
  BY AttemptMoves DEF LimiterInv, LoginTyped, LimiterTypeOK, Incr, HitsBound, Forever
<1>2. ASSUME NEW k \in Keys PROVE CounterInv(k)'
  <2>1. /\ CounterInv(k) /\ age' = age /\ lost' = lost
        /\ hits[k] \in Nat /\ lifetime[k] \in Nat /\ age[k] \in Nat
    BY DEF LimiterInv, LoginTyped, LimiterTypeOK, Incr
  <2>2. CASE k # n
    <3>1. hits'[k] = hits[k] /\ lifetime'[k] = lifetime[k]
      BY <2>2 DEF Incr, LimiterInv, LoginTyped, LimiterTypeOK
    <3>2. Owed(k)' <=> Owed(k)
      BY <2>2, AttemptMoves DEF Owed, LimiterInv
    <3> QED BY <2>1, <3>1, <3>2 DEF CounterInv
  <2>3. CASE k = n /\ First(n)
    <3>1. hits'[k] = 1 /\ age[k] = 0
      BY <2>1, <2>3 DEF First, Incr, LimiterInv, LoginTyped, LimiterTypeOK, CounterInv, HitsBound
    <3>2. Owed(k)'
      BY <2>3, AttemptMoves DEF Owed, LimiterInv
    <3>3. lifetime'[k] = Forever
      BY <2>1, <2>3 DEF First, Incr, LimiterInv, LoginTyped, LimiterTypeOK
    <3> QED BY <2>1, <3>1, <3>2, <3>3 DEF CounterInv
  <2>4. CASE k = n /\ ~First(n)
    <3>1. hits'[k] > 0 /\ lifetime' = lifetime
      BY <2>1, <2>4 DEF First, Incr, LimiterInv, LoginTyped, LimiterTypeOK, HitsBound
    <3>2. Owed(k)' <=> Owed(k)
      BY <2>4, AttemptMoves DEF Owed, LimiterInv
    <3> QED BY <2>1, <2>4, <3>1, <3>2 DEF CounterInv, First
  <2> QED BY <2>2, <2>3, <2>4
<1>3. OneOwes'
  <2>1. l = "expire" => ~Owed(n)
    BY DEF LimiterInv, CounterInv, First
  <2> QED BY <2>1, AttemptMoves DEF OneOwes, Owed, LimiterInv
<1> QED BY <1>1, <1>2, <1>3 DEF LimiterInv

\* A counter without its EXPIRE is counted as lost.
LEMMA LostInv ==
  ASSUME LimiterInv, NEW a \in Attempts, NEW n \in Keys,
         NEW l \in {"idle", "verify"}, Attempt(a, n, l),
         \/ login[a] = "expire" /\ n = name[a] /\ Forget(n)
         \/ login[a] = "idle" /\ First(n) /\ IncrForgotten(n)
  PROVE  LimiterInv'
<1> USE AgeBoundSuffices
<1>1. LoginTyped'
  BY AttemptMoves DEF LimiterInv, LoginTyped, LimiterTypeOK, Forget, IncrForgotten, HitsBound, Forever
<1>2. ASSUME NEW k \in Keys PROVE CounterInv(k)'
  <2>1. /\ CounterInv(k) /\ age' = age /\ lost' = lost \cup {n}
        /\ hits[k] \in Nat /\ lifetime[k] \in Nat /\ age[k] \in Nat
    BY DEF LimiterInv, LoginTyped, LimiterTypeOK, Forget, IncrForgotten
  <2>2. k # n => hits'[k] = hits[k] /\ lifetime'[k] = lifetime[k]
    BY DEF Forget, IncrForgotten, LimiterInv, LoginTyped, LimiterTypeOK
  <2>3. k # n => (Owed(k)' <=> Owed(k))
    BY AttemptMoves DEF Owed, LimiterInv
  <2>4. CASE k = n
    <3>1. Owed(k)' => Owed(k)
      BY <2>4, AttemptMoves DEF Owed, LimiterInv
    <3>2. \/ hits'[k] = hits[k] /\ lifetime'[k] = lifetime[k]
          \/ hits'[k] = 1 /\ age[k] = 0 /\ ~Owed(k)
      BY <2>1, <2>4 DEF Forget, IncrForgotten, LimiterInv, LoginTyped, LimiterTypeOK, First, CounterInv
    <3> QED BY <2>1, <2>4, <3>1, <3>2 DEF CounterInv
  <2> QED BY <2>1, <2>2, <2>3, <2>4 DEF CounterInv
<1>3. OneOwes'
  BY AttemptMoves DEF OneOwes, LimiterInv
<1> QED BY <1>1, <1>2, <1>3 DEF LimiterInv

\* EXPIRE starts the window of a counter that has just been created.
LEMMA ExpireInv ==
  ASSUME LimiterInv, NEW a \in Attempts, LoginExpire(a)
  PROVE  LimiterInv'
<1> USE AgeBoundSuffices
<1> DEFINE n == name[a]
<1>1. n \in Keys /\ login[a] = "expire" /\ Expire(n) /\ Attempt(a, n, "verify")
  BY AttemptName DEF LimiterInv, LoginExpire
<1> HIDE DEF n
<1>2. Owed(n)
  BY <1>1 DEF Owed, n
<1>3. hits[n] > 0 /\ age[n] <= MaxDelay
  BY <1>1, <1>2 DEF LimiterInv, CounterInv
<1>4. LoginTyped'
  BY <1>1, <1>3, AttemptMoves DEF LimiterInv, LoginTyped, LimiterTypeOK, Expire, HitsBound, Forever
<1>5. ASSUME NEW k \in Keys PROVE CounterInv(k)'
  <2>1. CounterInv(k) /\ age' = age /\ hits' = hits /\ lost' = lost
    BY <1>1 DEF LimiterInv, Expire
  <2>2. Owed(k)' => Owed(k)
    BY <1>1, AttemptMoves DEF Owed, LimiterInv
  <2>3. CASE k = n
    <3>1. lifetime'[k] = Window
      BY <1>1, <2>3 DEF Expire, LimiterInv, LoginTyped, LimiterTypeOK
    <3>2. ~Owed(k)'
      BY <1>1, <2>3, AttemptMoves DEF OneOwes, Owed, LimiterInv, n
    <3>3. age[k] \in Nat
      BY DEF LimiterInv, LoginTyped, LimiterTypeOK
    <3> QED BY <1>3, <2>1, <2>3, <3>1, <3>2, <3>3 DEF CounterInv
  <2>4. CASE k # n
    <3>1. lifetime'[k] = lifetime[k] /\ (Owed(k)' <=> Owed(k))
      BY <1>1, <2>4, AttemptMoves
         DEF Expire, LimiterInv, LoginTyped, LimiterTypeOK, Owed, n
    <3> QED BY <2>1, <3>1 DEF CounterInv
  <2> QED BY <2>3, <2>4
<1>6. OneOwes'
  BY <1>1, AttemptMoves DEF OneOwes, LimiterInv
<1> QED BY <1>4, <1>5, <1>6 DEF LimiterInv

\* A step of an attempt that leaves the counters alone.
LEMMA AttemptInv ==
  ASSUME LimiterInv, NEW a \in Attempts, NEW n \in Keys, login[a] # "expire",
         UNCHANGED limiterVars, NEW l \in {"idle", "verify"}, Attempt(a, n, l)
  PROVE  LimiterInv'
<1>1. LoginTyped'
  BY AttemptMoves DEF LimiterInv, LoginTyped, LimiterTypeOK, limiterVars
<1>2. \A k \in Keys : Owed(k)' <=> Owed(k)
  BY AttemptMoves DEF Owed, LimiterInv
<1>3. OneOwes'
  BY AttemptMoves DEF OneOwes, LimiterInv
<1> QED BY <1>1, <1>2, <1>3 DEF LimiterInv, CounterInv, limiterVars

\* A tick passes only while no EXPIRE has been waited for as long as possible.
LEMMA TickLimiterInv ==
  ASSUME LimiterInv, Tick
  PROVE  LimiterInv'
<1> USE AgeBoundSuffices
<1>1. /\ LimiterTick(AgeBound) /\ UNCHANGED <<login, name>>
      /\ \A k \in Keys : Owed(k) => age[k] < MaxDelay
  BY DEF Tick, loginVars, Owed
<1> DEFINE top == AgeBound
<1> HIDE DEF top
<1>2. ASSUME NEW k \in Keys
      PROVE  /\ hits'[k] \in 0..HitsBound /\ lifetime'[k] \in 0..Forever /\ age'[k] \in Nat
             /\ hits'[k] = 0 <=> lifetime'[k] = 0
             /\ CounterInv(k)'
  <2>1. /\ hits[k] \in 0..HitsBound /\ lifetime[k] \in 0..Forever /\ age[k] \in Nat
        /\ hits[k] = 0 <=> lifetime[k] = 0
        /\ HitsBound \in Nat
    BY DEF LimiterInv, LoginTyped, LimiterTypeOK, HitsBound
  <2>2. /\ CounterInv(k) /\ lost' = lost
        /\ Owed(k)' <=> Owed(k)
        /\ Owed(k) => age[k] < MaxDelay
    BY <1>1 DEF LimiterInv, LimiterTick, Owed
  <2>3. /\ hits'[k] = IF lifetime[k] = 1 THEN 0 ELSE hits[k]
        /\ lifetime'[k] = IF lifetime[k] \in 1..Window THEN lifetime[k] - 1 ELSE lifetime[k]
        /\ age'[k] = IF lifetime[k] = 1 \/ hits[k] = 0 \/ k \in lost THEN 0
                     ELSE IF age[k] < AgeBound THEN age[k] + 1 ELSE age[k]
    BY <1>1 DEF LimiterTick
  <2>4. /\ hits'[k] \in 0..HitsBound /\ lifetime'[k] \in 0..Forever /\ age'[k] \in Nat
        /\ hits'[k] = 0 <=> lifetime'[k] = 0
    BY <2>1, <2>3 DEF Forever
  <2>5. CASE Owed(k)
    <3>1. hits'[k] = hits[k] /\ lifetime'[k] = Forever /\ hits[k] > 0
      BY <2>1, <2>2, <2>3, <2>5 DEF CounterInv, Forever
    <3>2. age'[k] <= MaxDelay
      BY <2>1, <2>2, <2>3, <2>5
    <3> QED BY <2>1, <2>2, <2>4, <2>5, <3>1, <3>2 DEF CounterInv
  <2>6. CASE ~Owed(k)
    <3>1. hits'[k] = 0 => age'[k] = 0
      BY <2>1, <2>2, <2>3 DEF CounterInv
    <3>2. ASSUME k \notin lost, hits'[k] > 0
          PROVE  lifetime'[k] <= Window /\ lifetime'[k] + age'[k] <= Window + MaxDelay
      <4>1. hits[k] > 0 /\ lifetime[k] # 1
        BY <2>1, <2>3, <3>2
      <4>2. lifetime[k] <= Window /\ lifetime[k] + age[k] <= Window + MaxDelay
        BY <2>2, <2>6, <3>2, <4>1 DEF CounterInv
      <4>3. lifetime'[k] = lifetime[k] - 1
        BY <2>1, <2>3, <4>1, <4>2 DEF Forever
      <4>4. age'[k] \in Nat /\ age'[k] <= age[k] + 1
        BY <2>1, <2>3
      <4> QED BY <2>1, <4>2, <4>3, <4>4 DEF Forever
    <3> QED BY <2>2, <2>4, <2>6, <3>1, <3>2 DEF CounterInv
  <2> QED BY <2>4, <2>5, <2>6
<1>3. /\ hits' \in [Keys -> 0..HitsBound] /\ lifetime' \in [Keys -> 0..Forever]
      /\ age' \in [Keys -> Nat] /\ lost' \subseteq Keys
  BY <1>1, <1>2 DEF LimiterTick, LimiterInv, LoginTyped, LimiterTypeOK
<1>4. LoginTyped'
  BY <1>1, <1>2, <1>3 DEF LoginTyped, LimiterTypeOK, LimiterInv, HitsBound, Forever
<1>5. OneOwes'
  BY <1>1 DEF OneOwes, LimiterInv
<1> QED BY <1>2, <1>4, <1>5 DEF LimiterInv

LEMMA NextLimiterInv ==
  ASSUME LimiterInv, [Next]_vars
  PROVE  LimiterInv'
<1>1. CASE UNCHANGED <<limiterVars, loginVars>>
  BY <1>1 DEF LimiterInv, LoginTyped, LimiterTypeOK, OneOwes, CounterInv, Owed, limiterVars,
              loginVars
<1>2. ASSUME NEW a \in Attempts, NEW n \in Keys, LoginCount(a, n) PROVE LimiterInv'
  <2> DEFINE l == IF First(n) THEN "expire" ELSE IF Exceeded(n) THEN "idle" ELSE "verify"
  <2>1. login[a] = "idle" /\ Incr(n) /\ Attempt(a, n, l)
    BY <1>2 DEF LoginCount
  <2>2. l \in {"idle", "expire", "verify"} /\ (l = "expire" <=> First(n))
    OBVIOUS
  <2> HIDE DEF l
  <2> QED BY <2>1, <2>2, IncrInv
<1>3. ASSUME NEW a \in Attempts, NEW n \in Keys, LoginUncounted(a, n) PROVE LimiterInv'
  <2>1. login[a] = "idle" /\ Attempt(a, n, "verify")
    BY <1>3 DEF LoginUncounted
  <2>2. CASE UNCHANGED limiterVars
    BY <2>1, <2>2, AttemptInv
  <2>3. CASE ~First(n) /\ Incr(n)
    BY <2>1, <2>3, IncrInv
  <2>4. CASE First(n) /\ IncrForgotten(n)
    BY <2>1, <2>4, LostInv
  <2> QED BY <1>3, <2>2, <2>3, <2>4 DEF LoginUncounted
<1>4. ASSUME NEW a \in Attempts, LoginStep(a) PROVE LimiterInv'
  <2>1. login[a] # "idle" /\ name[a] \in Keys
    BY <1>4, AttemptName
       DEF LoginStep, LoginExpire, LoginNeverExpires, LoginDenied, LoginIssue, LimiterInv
  <2>2. CASE LoginExpire(a)
    BY <2>2, ExpireInv
  <2>3. CASE LoginNeverExpires(a)
    BY <2>1, <2>3, LostInv DEF LoginNeverExpires
  <2>4. CASE LoginDenied(a) \/ \E t \in Tokens : LoginIssue(a, t)
    BY <2>1, <2>4, AttemptInv DEF LoginDenied, LoginIssue
  <2> QED BY <1>4, <2>2, <2>3, <2>4 DEF LoginStep
<1>5. ASSUME NEW u \in Users, CreateUser(u) \/ DeleteUser(u) PROVE LimiterInv'
  BY <1>1, <1>5 DEF CreateUser, DeleteUser
<1>6. ASSUME NEW r \in Requests, RequestStep(r) \/ \E t \in Tokens : GuardUser(r, t)
      PROVE  LimiterInv'
  BY <1>1, <1>6
     DEF RequestStep, GuardStep, GuardUser, CacheHit, CacheMiss, RowRead, RowRefused, Fill,
         FillFails, Serve, LogoutCommit, LogoutUncache, LogoutUncacheFails
<1> QED BY <1>1, <1>2, <1>3, <1>4, <1>5, <1>6, TickLimiterInv DEF Next, vars

LEMMA LimiterInvHolds == Spec => []LimiterInv
<1>1. Init => LimiterInv
  BY AgeBoundSuffices
     DEF Init, LimiterInit, LimiterInv, LoginTyped, LimiterTypeOK, OneOwes, CounterInv, Owed,
         HitsBound, Forever
<1> QED BY <1>1, NextLimiterInv, PTL DEF Spec

\* A counter lives for one window and the delay of its EXPIRE at most, however
\* often it is incremented, unless the EXPIRE was lost.
THEOREM CountersExpire == Spec => []CounterExpires
<1>1. LimiterInv => CounterExpires
  <2> SUFFICES ASSUME LimiterInv, NEW k \in Keys \ lost, hits[k] > 0
               PROVE  age[k] <= Window + MaxDelay
    BY DEF CounterExpires
  <2>1. /\ CounterInv(k) /\ lifetime[k] \in Nat /\ age[k] \in Nat
        /\ Window \in Nat /\ MaxDelay \in Nat
    BY AgeBoundSuffices DEF LimiterInv, LoginTyped, LimiterTypeOK, Forever
  <2> QED BY <2>1 DEF CounterInv
<1> QED BY <1>1, LimiterInvHolds, PTL

-----------------------------------------------------------------------------
(* Tokens, cache entries and the requests that carry them *)

SessionTyped ==
  /\ users \in [Users -> {"unborn", "live", "gone"}]
  /\ owner \in [Tokens -> Users \cup {None}]
  /\ session \in [Tokens -> {"none", "open", "closed"}]
  /\ life \in [Tokens -> 0..TokenLife]
  /\ closedFor \in [Tokens -> 0..AgeBound]
  /\ cached \in [Tokens -> Users \cup {None}]
  /\ cacheLeft \in [Tokens -> 0..CacheTTL]
  /\ pc \in [Requests -> {"idle", "cache", "row", "fill", "accepted", "uncache"}]
  /\ tok \in [Requests -> Tokens \cup {None}]
  /\ who \in [Requests -> Users \cup {None}]
  /\ ttl \in [Requests -> 0..CacheTTL]
  /\ waited \in [Requests -> 0..MaxDelay]

\* An entry names the owner and does not outlast the token, nor a logout, by
\* more than the delay of the guard that set it.
TokenInv(t) ==
  /\ cached[t] = None <=> cacheLeft[t] = 0
  /\ cached[t] \in {None, owner[t]}
  /\ cached[t] # None => cacheLeft[t] <= life[t] + MaxDelay
                         /\ cacheLeft[t] + closedFor[t] <= CacheTTL + MaxDelay
  /\ owner[t] = None => session[t] = "none" /\ closedFor[t] = 0
  /\ session[t] = "open" => closedFor[t] = 0

\* A request carries an issued token; one that has read the row waits no
\* shorter than the token has been closed.
RequestInv(r) ==
  /\ pc[r] = "idle" <=> tok[r] = None
  /\ pc[r] # "idle" => who[r] \in Users /\ owner[tok[r]] # None
  /\ pc[r] \in {"fill", "accepted", "uncache"} => who[r] = owner[tok[r]]
  /\ pc[r] = "fill" =>
       /\ ttl[r] > 0 /\ ttl[r] <= life[tok[r]] + waited[r]
       /\ closedFor[tok[r]] <= waited[r]

SessionInv ==
  /\ SessionTyped
  /\ \A t \in Tokens : TokenInv(t)
  /\ \A r \in Requests : RequestInv(r)

sessionVars == <<userVars, tokenVars, cacheVars, requestVars>>

LEMMA SameSession ==
  ASSUME SessionInv, UNCHANGED sessionVars
  PROVE  SessionInv'
BY DEF SessionInv, SessionTyped, TokenInv, RequestInv, sessionVars, userVars, tokenVars,
       cacheVars, requestVars

LEMMA InitSessionInv == Init => SessionInv
BY AgeBoundSuffices, UsersAssumption DEF Init, SessionInv, SessionTyped, TokenInv, RequestInv

LEMMA UserSessionInv ==
  ASSUME SessionInv, NEW u \in Users, CreateUser(u) \/ DeleteUser(u)
  PROVE  SessionInv'
<1>1. CASE CreateUser(u)
  BY <1>1
     DEF CreateUser, SessionInv, SessionTyped, TokenInv, RequestInv, tokenVars, cacheVars,
         requestVars
<1>2. CASE DeleteUser(u)
  <2>1. UNCHANGED <<owner, life, closedFor, cacheVars, requestVars>>
    BY <1>2 DEF DeleteUser
  <2>2. /\ users' \in [Users -> {"unborn", "live", "gone"}]
        /\ session' \in [Tokens -> {"none", "open", "closed"}]
        /\ \A t \in Tokens : session'[t] \in {"none", session[t]}
    BY <1>2 DEF DeleteUser, SessionInv, SessionTyped
  <2> QED
    BY <2>1, <2>2 DEF SessionInv, SessionTyped, TokenInv, RequestInv, cacheVars, requestVars
<1> QED BY <1>1, <1>2

\* No request carries the new token, and nothing is cached under it.
LEMMA IssueSessionInv ==
  ASSUME SessionInv, NEW a \in Attempts, NEW t \in Tokens, LoginIssue(a, t)
  PROVE  SessionInv'
<1> USE AgeBoundSuffices, UsersAssumption
<1>1. PICK u \in Users : owner' = [owner EXCEPT ![t] = u]
  BY DEF LoginIssue, Account
<1>2. /\ owner[t] = None /\ session' = [session EXCEPT ![t] = "open"]
      /\ life' = [life EXCEPT ![t] = TokenLife]
      /\ UNCHANGED <<users, closedFor, cached, cacheLeft, pc, tok, who, ttl, waited>>
  BY DEF LoginIssue, Attempt, userVars, cacheVars, requestVars
<1>3. SessionTyped'
  BY <1>1, <1>2 DEF SessionInv, SessionTyped
<1>4. ASSUME NEW s \in Tokens PROVE TokenInv(s)'
  <2>1. TokenInv(s) /\ TokenInv(t)
    BY DEF SessionInv
  <2> QED BY <1>1, <1>2, <2>1 DEF TokenInv, SessionInv, SessionTyped
<1>5. ASSUME NEW r \in Requests PROVE RequestInv(r)'
  <2>1. RequestInv(r) /\ tok[r] # t
    BY <1>2 DEF SessionInv, RequestInv
  <2> QED BY <1>1, <1>2, <2>1 DEF RequestInv, SessionInv, SessionTyped
<1> QED BY <1>3, <1>4, <1>5 DEF SessionInv

\* What a step of one request leaves of the others.
LEMMA RequestMoves ==
  ASSUME SessionInv, NEW r \in Requests,
         NEW l \in {"idle", "cache", "row", "fill", "accepted", "uncache"}, Step(r, l)
  PROVE  /\ pc' \in [Requests -> {"idle", "cache", "row", "fill", "accepted", "uncache"}]
         /\ waited' \in [Requests -> 0..MaxDelay]
         /\ pc'[r] = l
         /\ \A q \in Requests \ {r} : pc'[q] = pc[q] /\ waited'[q] = waited[q]
         /\ l # "idle" => waited'[r] = waited[r]
BY AgeBoundSuffices DEF SessionInv, SessionTyped, Step

\* A request that leaves forgets its token.
LEMMA LeaveSessionInv ==
  ASSUME SessionInv, NEW r \in Requests, Leave(r),
         users' = users, tokenVars' = tokenVars,
         \/ cacheVars' = cacheVars
         \/ \E t \in Tokens : /\ cached' = [cached EXCEPT ![t] = None]
                              /\ cacheLeft' = [cacheLeft EXCEPT ![t] = 0]
  PROVE  SessionInv'
<1> USE AgeBoundSuffices, UsersAssumption
<1>1. Step(r, "idle") /\ UNCHANGED <<users, owner, session, life, closedFor>>
  BY DEF Leave, tokenVars
<1>2. SessionTyped'
  BY <1>1, RequestMoves DEF Leave, SessionInv, SessionTyped, cacheVars
<1>3. ASSUME NEW t \in Tokens PROVE TokenInv(t)'
  BY <1>1 DEF SessionInv, SessionTyped, TokenInv, cacheVars
<1>4. ASSUME NEW q \in Requests PROVE RequestInv(q)'
  <2>1. CASE q = r
    BY <1>1, <2>1, RequestMoves DEF Leave, SessionInv, SessionTyped, RequestInv
  <2>2. CASE q # r
    <3>1. /\ pc'[q] = pc[q] /\ tok'[q] = tok[q] /\ who'[q] = who[q] /\ ttl'[q] = ttl[q]
          /\ waited'[q] = waited[q]
      BY <1>1, <2>2, RequestMoves DEF Leave, SessionInv, SessionTyped
    <3> QED BY <1>1, <3>1 DEF SessionInv, RequestInv
  <2> QED BY <2>1, <2>2
<1> QED BY <1>2, <1>3, <1>4 DEF SessionInv

\* A step of a request that stays and changes only its own label, with the
\* cache as it was.
LEMMA StepSessionInv ==
  ASSUME SessionInv, NEW r \in Requests,
         NEW l \in {"cache", "row", "fill", "accepted", "uncache"}, Step(r, l),
         UNCHANGED <<users, owner, life, closedFor, cacheVars, tok, who>>,
         \A q \in Requests \ {r} : ttl'[q] = ttl[q],
         ttl' \in [Requests -> 0..CacheTTL],
         session' \in [Tokens -> {"none", "open", "closed"}],
         \A t \in Tokens : session'[t] # session[t] =>
           session'[t] = "closed" /\ owner[t] # None,
         pc[r] # "idle", l \in {"fill", "accepted", "uncache"} => who[r] = owner[tok[r]],
         l = "fill" => /\ ttl'[r] > 0 /\ ttl'[r] <= life[tok[r]] + waited[r]
                       /\ closedFor[tok[r]] <= waited[r]
  PROVE  SessionInv'
<1>1. SessionTyped'
  BY RequestMoves DEF SessionInv, SessionTyped, cacheVars
<1>2. ASSUME NEW t \in Tokens PROVE TokenInv(t)'
  <2>1. TokenInv(t) /\ (session'[t] = session[t] \/ (session'[t] = "closed" /\ owner[t] # None))
    BY DEF SessionInv
  <2> QED BY <2>1 DEF TokenInv, cacheVars
<1>3. ASSUME NEW q \in Requests PROVE RequestInv(q)'
  <2>1. RequestInv(q)
    BY DEF SessionInv
  <2>2. CASE q = r
    BY <2>1, <2>2, RequestMoves DEF RequestInv
  <2>3. CASE q # r
    BY <2>1, <2>3, RequestMoves DEF RequestInv
  <2> QED BY <2>2, <2>3
<1> QED BY <1>1, <1>2, <1>3 DEF SessionInv

\* What a request that is under way knows.
LEMMA BusyRequest ==
  ASSUME SessionInv, NEW r \in Requests, pc[r] # "idle"
  PROVE  /\ tok[r] \in Tokens /\ who[r] \in Users /\ who[r] # None
         /\ owner[tok[r]] # None /\ owner[tok[r]] \in Users
         /\ waited[r] \in 0..MaxDelay /\ life[tok[r]] \in 0..TokenLife
         /\ ttl[r] \in 0..CacheTTL
         /\ RequestInv(r) /\ TokenInv(tok[r])
BY UsersAssumption DEF SessionInv, SessionTyped, RequestInv

LEMMA GuardUserSessionInv ==
  ASSUME SessionInv, NEW r \in Requests, NEW t \in Tokens, GuardUser(r, t)
  PROVE  SessionInv'
<1> USE UsersAssumption
<1>1. PICK u \in Users : who' = [who EXCEPT ![r] = u]
  BY DEF GuardUser, Account
<1>2. /\ Step(r, "cache") /\ tok' = [tok EXCEPT ![r] = t] /\ owner[t] # None
      /\ UNCHANGED <<users, owner, session, life, closedFor, cached, cacheLeft, ttl>>
  BY DEF GuardUser, userVars, tokenVars, cacheVars
<1>3. SessionTyped'
  BY <1>1, <1>2, RequestMoves DEF SessionInv, SessionTyped
<1>4. ASSUME NEW q \in Requests PROVE RequestInv(q)'
  <2>1. CASE q = r
    BY <1>1, <1>2, <2>1, RequestMoves DEF SessionInv, SessionTyped, RequestInv
  <2>2. CASE q # r
    <3>1. /\ pc'[q] = pc[q] /\ tok'[q] = tok[q] /\ who'[q] = who[q]
          /\ waited'[q] = waited[q]
      BY <1>1, <1>2, <2>2, RequestMoves DEF SessionInv, SessionTyped
    <3> QED BY <1>2, <3>1 DEF SessionInv, RequestInv
  <2> QED BY <2>1, <2>2
<1>5. \A s \in Tokens : TokenInv(s)'
  BY <1>2 DEF SessionInv, TokenInv
<1> QED BY <1>3, <1>4, <1>5 DEF SessionInv

\* The entry a guard sets ends with the token and a cache lifetime after a
\* logout, but for the time it has waited.
LEMMA FillSessionInv ==
  ASSUME SessionInv, NEW r \in Requests, Fill(r)
  PROVE  SessionInv'
<1> USE AgeBoundSuffices, UsersAssumption
<1> DEFINE t == tok[r]
<1>1. /\ Step(r, "accepted") /\ pc[r] = "fill"
      /\ cached' = [cached EXCEPT ![t] = who[r]] /\ cacheLeft' = [cacheLeft EXCEPT ![t] = ttl[r]]
      /\ UNCHANGED <<users, owner, session, life, closedFor, tok, who, ttl>>
  BY DEF Fill, userVars, tokenVars
<1>2. /\ t \in Tokens /\ who[r] \in Users /\ who[r] # None /\ who[r] = owner[t]
      /\ ttl[r] \in 1..CacheTTL /\ ttl[r] <= life[t] + waited[r]
      /\ closedFor[t] <= waited[r] /\ waited[r] \in 0..MaxDelay
      /\ life[t] \in Nat /\ closedFor[t] \in Nat
  BY <1>1, BusyRequest DEF RequestInv, SessionInv, SessionTyped
<1> HIDE DEF t
<1>3. SessionTyped'
  BY <1>1, <1>2, RequestMoves DEF SessionInv, SessionTyped
<1>4. ASSUME NEW s \in Tokens PROVE TokenInv(s)'
  <2>1. CASE s = t
    <3>1. /\ cached'[s] = who[r] /\ cacheLeft'[s] = ttl[r]
          /\ ttl[r] # 0 /\ ttl[r] <= life[s] + MaxDelay
          /\ ttl[r] + closedFor[s] <= CacheTTL + MaxDelay
      BY <1>1, <1>2, <2>1 DEF SessionInv, SessionTyped
    <3>2. TokenInv(s)
      BY DEF SessionInv
    <3> QED BY <1>1, <1>2, <2>1, <3>1, <3>2 DEF TokenInv
  <2>2. CASE s # t
    BY <1>1, <2>2 DEF SessionInv, SessionTyped, TokenInv
  <2> QED BY <2>1, <2>2
<1>5. ASSUME NEW q \in Requests PROVE RequestInv(q)'
  <2>1. CASE q = r
    BY <1>1, <1>2, <2>1, RequestMoves, BusyRequest DEF RequestInv, t
  <2>2. CASE q # r
    BY <1>1, <2>2, RequestMoves DEF SessionInv, RequestInv
  <2> QED BY <2>1, <2>2
<1> QED BY <1>3, <1>4, <1>5 DEF SessionInv

LEMMA RequestSessionInv ==
  ASSUME SessionInv, NEW r \in Requests, RequestStep(r)
  PROVE  SessionInv'
<1> USE AgeBoundSuffices
<1>t. ttl \in [Requests -> 0..CacheTTL] /\ session \in [Tokens -> {"none", "open", "closed"}]
  BY DEF SessionInv, SessionTyped
<1>1. CASE CacheHit(r)
  <2>1. who[r] = owner[tok[r]]
    BY <1>1, BusyRequest DEF CacheHit, TokenInv
  <2> QED BY <1>1, <1>t, <2>1, StepSessionInv DEF CacheHit, userVars, tokenVars
<1>2. CASE CacheMiss(r)
  BY <1>2, <1>t, StepSessionInv DEF CacheMiss, userVars, tokenVars
<1>3. CASE RowRead(r)
  <2>1. /\ owner[tok[r]] = who[r] /\ session[tok[r]] = "open" /\ life[tok[r]] > 0
        /\ ttl' = [ttl EXCEPT ![r] = EntryLife(tok[r])]
    BY <1>3 DEF RowRead, RowValid, RowOf
  <2>2. /\ life[tok[r]] \in Nat /\ waited[r] \in Nat /\ closedFor[tok[r]] = 0
    BY <1>3, <2>1, BusyRequest DEF RowRead, TokenInv
  <2>3. /\ EntryLife(tok[r]) \in 0..CacheTTL /\ EntryLife(tok[r]) > 0
        /\ EntryLife(tok[r]) <= life[tok[r]] + waited[r]
    BY <2>1, <2>2 DEF EntryLife, Least
  <2> QED BY <1>3, <1>t, <2>1, <2>2, <2>3, StepSessionInv DEF RowRead, userVars, tokenVars
<1>4. CASE RowRefused(r) \/ Serve(r) \/ LogoutUncacheFails(r)
  BY <1>4, LeaveSessionInv DEF RowRefused, Serve, LogoutUncacheFails, userVars
<1>5. CASE Fill(r)
  BY <1>5, FillSessionInv
<1>6. CASE FillFails(r)
  <2>1. who[r] = owner[tok[r]]
    BY <1>6, BusyRequest DEF FillFails, RequestInv
  <2> QED BY <1>6, <1>t, <2>1, StepSessionInv DEF FillFails, userVars, tokenVars
<1>7. CASE LogoutCommit(r)
  <2>1. who[r] = owner[tok[r]] /\ owner[tok[r]] # None /\ tok[r] \in Tokens
    BY <1>7, BusyRequest DEF LogoutCommit, RequestInv
  <2>2. /\ session' \in [Tokens -> {"none", "open", "closed"}]
        /\ \A t \in Tokens : session'[t] # session[t] =>
             session'[t] = "closed" /\ owner[t] # None
    BY <1>7, <1>t, <2>1 DEF LogoutCommit
  <2> QED BY <1>7, <1>t, <2>1, <2>2, StepSessionInv DEF LogoutCommit, userVars
<1>8. CASE LogoutUncache(r)
  <2>1. tok[r] \in Tokens
    BY <1>8, BusyRequest DEF LogoutUncache
  <2> QED BY <1>8, <2>1, LeaveSessionInv DEF LogoutUncache, userVars
<1> QED
  BY <1>1, <1>2, <1>3, <1>4, <1>5, <1>6, <1>7, <1>8 DEF RequestStep, GuardStep

\* Entries and tokens get older together, and with them the delay of a guard
\* and the time since the logout.
LEMMA TickSessionInv ==
  ASSUME SessionInv, Tick
  PROVE  SessionInv'
<1> USE AgeBoundSuffices, UsersAssumption
<1>1. /\ UNCHANGED <<users, owner, session, pc, tok, who, ttl>>
      /\ \A r \in Requests : pc[r] # "idle" => waited[r] < MaxDelay
      /\ waited' = [r \in Requests |-> IF pc[r] # "idle" THEN waited[r] + 1 ELSE 0]
  BY DEF Tick, userVars, Busy
<1>2. ASSUME NEW t \in Tokens
      PROVE  /\ life'[t] \in 0..TokenLife /\ closedFor'[t] \in 0..AgeBound
             /\ cached'[t] \in Users \cup {None} /\ cacheLeft'[t] \in 0..CacheTTL
             /\ life'[t] >= life[t] - 1 /\ closedFor'[t] <= closedFor[t] + 1
             /\ TokenInv(t)'
  <2>1. /\ TokenInv(t)
        /\ life[t] \in 0..TokenLife /\ closedFor[t] \in 0..AgeBound
        /\ cached[t] \in Users \cup {None} /\ cacheLeft[t] \in 0..CacheTTL
    BY DEF SessionInv, SessionTyped
  <2>2. /\ life'[t] = IF life[t] > 0 THEN life[t] - 1 ELSE 0
        /\ cached'[t] = IF cacheLeft[t] = 1 THEN None ELSE cached[t]
        /\ cacheLeft'[t] = IF cacheLeft[t] > 0 THEN cacheLeft[t] - 1 ELSE 0
        /\ closedFor'[t] = IF session[t] = "closed" THEN Least(closedFor[t] + 1, AgeBound)
                           ELSE closedFor[t]
    BY DEF Tick
  <2>3. /\ closedFor'[t] \in 0..AgeBound /\ closedFor'[t] <= closedFor[t] + 1
        /\ session[t] # "closed" => closedFor'[t] = closedFor[t]
    BY <2>1, <2>2 DEF Least
  <2> QED BY <1>1, <2>1, <2>2, <2>3 DEF TokenInv
<1>3. /\ life' \in [Tokens -> 0..TokenLife] /\ closedFor' \in [Tokens -> 0..AgeBound]
      /\ cached' \in [Tokens -> Users \cup {None}] /\ cacheLeft' \in [Tokens -> 0..CacheTTL]
  BY <1>2 DEF Tick
<1>4. ASSUME NEW r \in Requests
      PROVE  waited'[r] \in 0..MaxDelay /\ RequestInv(r)'
  <2>1. waited[r] \in 0..MaxDelay /\ ttl[r] \in 0..CacheTTL
    BY DEF SessionInv, SessionTyped
  <2>2. CASE pc[r] = "idle"
    BY <1>1, <2>2 DEF SessionInv, RequestInv
  <2>3. CASE pc[r] # "idle"
    <3>1. waited'[r] = waited[r] + 1 /\ waited[r] < MaxDelay
      BY <1>1, <2>3
    <3>2. /\ tok[r] \in Tokens /\ RequestInv(r)
          /\ life[tok[r]] \in 0..TokenLife /\ closedFor[tok[r]] \in 0..AgeBound
      BY <2>3, BusyRequest DEF SessionInv, SessionTyped
    <3>3. /\ life'[tok[r]] \in 0..TokenLife /\ closedFor'[tok[r]] \in 0..AgeBound
          /\ life'[tok[r]] >= life[tok[r]] - 1 /\ closedFor'[tok[r]] <= closedFor[tok[r]] + 1
      BY <1>2, <3>2
    <3> QED BY <1>1, <2>1, <2>3, <3>1, <3>2, <3>3 DEF RequestInv
  <2> QED BY <2>2, <2>3
<1>5. SessionTyped'
  BY <1>1, <1>3, <1>4 DEF SessionInv, SessionTyped
<1> QED BY <1>2, <1>4, <1>5 DEF SessionInv

LEMMA NextSessionInv ==
  ASSUME SessionInv, [Next]_vars
  PROVE  SessionInv'
<1>1. CASE UNCHANGED sessionVars
  BY <1>1, SameSession
<1>2. ASSUME NEW a \in Attempts, NEW n \in Keys, LoginCount(a, n) \/ LoginUncounted(a, n)
      PROVE  SessionInv'
  BY <1>1, <1>2 DEF LoginCount, LoginUncounted, Attempt, sessionVars
<1>3. ASSUME NEW a \in Attempts, LoginStep(a) PROVE SessionInv'
  BY <1>1, <1>3, IssueSessionInv
     DEF LoginStep, LoginExpire, LoginNeverExpires, LoginDenied, Attempt, sessionVars
<1> QED
  BY <1>1, <1>2, <1>3, UserSessionInv, RequestSessionInv, GuardUserSessionInv, TickSessionInv
     DEF Next, vars, sessionVars

LEMMA SessionInvHolds == Spec => []SessionInv
BY InitSessionInv, NextSessionInv, PTL DEF Spec

\* Every variable keeps its type, and the parts of a token, of a request and
\* of a cache entry come and go together.
THEOREM TypeCorrect == Spec => []TypeOK
<1>1. LimiterInv /\ SessionInv => TypeOK
  BY DEF LimiterInv, LoginTyped, SessionInv, SessionTyped, TokenInv, RequestInv, TypeOK, Busy
<1> QED BY <1>1, LimiterInvHolds, SessionInvHolds, PTL

\* A token lets in only the user it was issued to, although the guard finds
\* users by name and a name may be given to a new user.
THEOREM OwnersOnly == Spec => []OwnerOnly
<1>1. SessionInv => OwnerOnly
  BY DEF SessionInv, RequestInv, OwnerOnly
<1> QED BY <1>1, SessionInvHolds, PTL

\* A cache entry outlasts its token at most by the delay of a guard.
THEOREM EntriesEnd == Spec => []CacheWithinLife
<1>1. SessionInv => CacheWithinLife
  BY DEF SessionInv, TokenInv, CacheWithinLife
<1> QED BY <1>1, SessionInvHolds, PTL

\* Nobody gets in later than a cache lifetime and the delay of a guard after
\* the logout, whichever deletions of the entry failed or were overtaken.
THEOREM LogoutsTakeHold == Spec => LogoutTakesHold
<1> DEFINE InTime == \A r \in Requests : pc[r] # "accepted" /\ pc'[r] = "accepted" =>
             closedFor[tok[r]] < CacheTTL + MaxDelay
<1>1. ASSUME SessionInv, [Next]_vars PROVE [InTime]_vars
  <2> SUFFICES ASSUME NEW r \in Requests, pc[r] # "accepted", pc'[r] = "accepted"
               PROVE  closedFor[tok[r]] < CacheTTL + MaxDelay
    OBVIOUS
  <2>1. CacheHit(r) \/ Fill(r) \/ FillFails(r)
    <3>1. pc'[r] # pc[r] /\ pc \in [Requests -> {"idle", "cache", "row", "fill", "accepted", "uncache"}]
      BY <1>1 DEF SessionInv, SessionTyped
    <3>2. \E q \in Requests : RequestStep(q) \/ \E t \in Tokens : GuardUser(q, t)
      BY <1>1, <3>1
         DEF Next, vars, CreateUser, DeleteUser, LoginCount, LoginUncounted, LoginStep,
             LoginExpire, LoginNeverExpires, LoginDenied, LoginIssue, Attempt, Tick,
             requestVars
    <3>3. PICK q \in Requests : RequestStep(q) \/ \E t \in Tokens : GuardUser(q, t)
      BY <3>2
    <3> QED
      BY <3>1, <3>3
         DEF RequestStep, GuardStep, GuardUser, CacheHit, CacheMiss, RowRead, RowRefused,
             Fill, FillFails, Serve, LogoutCommit, LogoutUncache, LogoutUncacheFails, Leave,
             Step
  <2>2. /\ closedFor[tok[r]] \in Nat /\ cacheLeft[tok[r]] \in Nat
        /\ RequestInv(r) /\ TokenInv(tok[r]) /\ waited[r] \in 0..MaxDelay /\ who[r] # None
    BY <1>1, <2>1, BusyRequest DEF CacheHit, Fill, FillFails, SessionInv, SessionTyped
  <2>3. CASE CacheHit(r)
    BY <2>2, <2>3, AgeBoundSuffices DEF CacheHit, TokenInv
  <2>4. CASE Fill(r) \/ FillFails(r)
    BY <2>2, <2>4, AgeBoundSuffices DEF Fill, FillFails, RequestInv
  <2> QED BY <2>1, <2>3, <2>4
<1> HIDE DEF InTime
<1>2. Spec => [][InTime]_vars
  BY <1>1, SessionInvHolds, PTL DEF Spec
<1> QED BY <1>2 DEF InTime, LogoutTakesHold

-----------------------------------------------------------------------------
(* One decision per request: TokenSessions implements TokenGrants *)

GraceMap == [t \in Tokens |-> GraceLeft(t)]
VisitMap == [r \in Requests |-> VisitOf(r)]

LEMMA SameGrace ==
  ASSUME closedFor' = closedFor
  PROVE  GraceMap' = GraceMap
BY DEF GraceMap, GraceLeft

LEMMA SameVisits ==
  ASSUME UNCHANGED <<pc, tok, who>>
  PROVE  VisitMap' = VisitMap
BY DEF VisitMap, VisitOf, Busy

\* A request that moves alone changes its own visit only.
LEMMA OneVisit ==
  ASSUME NEW r \in Requests, NEW v, VisitOf(r)' = v,
         \A q \in Requests \ {r} : pc'[q] = pc[q] /\ tok'[q] = tok[q] /\ who'[q] = who[q]
  PROVE  VisitMap' = [VisitMap EXCEPT ![r] = v]
<1>1. ASSUME NEW q \in Requests PROVE VisitOf(q)' = [VisitMap EXCEPT ![r] = v][q]
  <2>1. CASE q = r
    BY <2>1 DEF VisitMap
  <2>2. CASE q # r
    <3>1. VisitOf(q)' = VisitOf(q)
      BY <2>2 DEF VisitOf, Busy
    <3> QED BY <2>2, <3>1 DEF VisitMap
  <2> QED BY <2>1, <2>2
<1>2. VisitMap' = [q \in Requests |-> VisitOf(q)']
  BY DEF VisitMap
<1>3. [VisitMap EXCEPT ![r] = v] = [q \in Requests |-> [VisitMap EXCEPT ![r] = v][q]]
  BY DEF VisitMap
<1> QED BY <1>1, <1>2, <1>3

\* What a visit shows of a request that is under way.
LEMMA BusyVisit ==
  ASSUME SessionInv, NEW r \in Requests, pc[r] # "idle"
  PROVE  /\ pc[r] \notin {"accepted", "uncache"} =>
              VisitMap[r] = [token |-> tok[r], user |-> who[r], in |-> FALSE]
         /\ pc[r] \in {"accepted", "uncache"} =>
              VisitMap[r] = [token |-> tok[r], user |-> who[r], in |-> TRUE]
         /\ VisitMap[r] # None
<1> DEFINE in == pc[r] \in {"accepted", "uncache"}
<1>1. VisitMap[r] = [token |-> tok[r], user |-> who[r], in |-> in]
  BY DEF VisitMap, VisitOf, Busy
<1>2. tok[r] \in Tokens /\ who[r] \in Users
  BY BusyRequest
<1>3. in \in BOOLEAN /\ (in => in = TRUE) /\ (~in => in = FALSE)
  OBVIOUS
<1> HIDE DEF in
<1>4. VisitMap[r] \in [token : Tokens, user : Users, in : BOOLEAN]
  BY <1>1, <1>2, <1>3
<1>5. VisitMap[r] # None
  BY <1>4, VisitAssumption
<1>6. (in => VisitMap[r] = [token |-> tok[r], user |-> who[r], in |-> TRUE])
      /\ (~in => VisitMap[r] = [token |-> tok[r], user |-> who[r], in |-> FALSE])
  BY <1>1, <1>3
<1> QED BY <1>5, <1>6 DEF in

\* What its next visit shows, when it stays under way.
LEMMA NextVisit ==
  ASSUME NEW r \in Requests, pc'[r] # "idle"
  PROVE  /\ pc'[r] \notin {"accepted", "uncache"} =>
              VisitOf(r)' = [token |-> tok'[r], user |-> who'[r], in |-> FALSE]
         /\ pc'[r] \in {"accepted", "uncache"} =>
              VisitOf(r)' = [token |-> tok'[r], user |-> who'[r], in |-> TRUE]
<1> DEFINE in == pc'[r] \in {"accepted", "uncache"}
<1>1. VisitOf(r)' = [token |-> tok'[r], user |-> who'[r], in |-> in]
  BY DEF VisitOf, Busy
<1>2. (in => in = TRUE) /\ (~in => in = FALSE)
  OBVIOUS
<1> HIDE DEF in
<1>3. (in => VisitOf(r)' = [token |-> tok'[r], user |-> who'[r], in |-> TRUE])
      /\ (~in => VisitOf(r)' = [token |-> tok'[r], user |-> who'[r], in |-> FALSE])
  BY <1>1, <1>2
<1> QED BY <1>3 DEF in

LEMMA IdleVisit ==
  ASSUME NEW r \in Requests, pc[r] = "idle"
  PROVE  VisitMap[r] = None
BY DEF VisitMap, VisitOf, Busy

\* A request is admitted within the grace of a logout.
LEMMA AdmittedInTime ==
  ASSUME SessionInv, NEW r \in Requests, CacheHit(r) \/ Fill(r) \/ FillFails(r)
  PROVE  /\ owner[tok[r]] = who[r]
         /\ GraceMap[tok[r]] > 0
<1>1. /\ closedFor[tok[r]] \in Nat /\ cacheLeft[tok[r]] \in Nat /\ tok[r] \in Tokens
      /\ RequestInv(r) /\ TokenInv(tok[r]) /\ waited[r] \in 0..MaxDelay /\ who[r] # None
  BY BusyRequest DEF CacheHit, Fill, FillFails, SessionInv, SessionTyped
<1>2. owner[tok[r]] = who[r]
  BY <1>1 DEF CacheHit, Fill, FillFails, TokenInv, RequestInv
<1>3. closedFor[tok[r]] < CacheTTL + MaxDelay
  <2>1. CASE CacheHit(r)
    BY <1>1, <2>1, AgeBoundSuffices DEF CacheHit, TokenInv
  <2>2. CASE Fill(r) \/ FillFails(r)
    BY <1>1, <2>2, AgeBoundSuffices DEF Fill, FillFails, RequestInv
  <2> QED BY <2>1, <2>2
<1> QED BY <1>1, <1>2, <1>3, AgeBoundSuffices DEF GraceMap, GraceLeft

LEMMA AdmitStep ==
  ASSUME SessionInv, NEW r \in Requests, CacheHit(r) \/ Fill(r) \/ FillFails(r)
  PROVE  Grants!Admit(r)
<1>1. /\ pc[r] \in {"cache", "fill"} /\ Step(r, "accepted")
      /\ UNCHANGED <<users, owner, session, life, closedFor, tok, who>>
  BY DEF CacheHit, Fill, FillFails, userVars, tokenVars
<1>2. /\ VisitMap[r] = [token |-> tok[r], user |-> who[r], in |-> FALSE]
      /\ VisitMap[r] # None
  BY <1>1, BusyVisit
<1>3. VisitOf(r)' = [token |-> tok[r], user |-> who[r], in |-> TRUE]
  BY <1>1, RequestMoves, NextVisit
<1>4. VisitMap' = [VisitMap EXCEPT ![r] = [token |-> tok[r], user |-> who[r], in |-> TRUE]]
  BY <1>1, <1>3, OneVisit, RequestMoves
<1>5. GraceMap' = GraceMap
  BY <1>1, SameGrace
<1>6. LET v == VisitMap[r] IN
        /\ v # None /\ ~v.in /\ owner[v.token] = v.user
        /\ session[v.token] = "closed" => GraceMap[v.token] > 0
        /\ VisitMap' = [VisitMap EXCEPT ![r] = [token |-> v.token, user |-> v.user, in |-> TRUE]]
  BY <1>2, <1>4, AdmittedInTime
<1> QED BY <1>1, <1>5, <1>6 DEF Grants!Admit, Grants!Visit, GraceMap, VisitMap

LEMMA DepartStep ==
  ASSUME SessionInv, NEW r \in Requests, pc[r] # "idle", Leave(r),
         UNCHANGED <<users, tokenVars>>
  PROVE  Grants!Depart(r)
<1>1. VisitMap[r] # None
  BY BusyVisit
<1>2. /\ Step(r, "idle")
      /\ \A q \in Requests \ {r} : tok'[q] = tok[q] /\ who'[q] = who[q]
  BY DEF Leave, SessionInv, SessionTyped
<1>3. VisitOf(r)' = None
  BY <1>2, RequestMoves DEF VisitOf, Busy
<1>4. VisitMap' = [VisitMap EXCEPT ![r] = None]
  BY <1>2, <1>3, OneVisit, RequestMoves
<1>5. GraceMap' = GraceMap
  BY SameGrace DEF tokenVars
<1> QED BY <1>1, <1>4, <1>5 DEF Grants!Depart, GraceMap, VisitMap, tokenVars

LEMMA CloseStep ==
  ASSUME SessionInv, NEW r \in Requests, LogoutCommit(r)
  PROVE  Grants!Close(r)
<1>1. /\ pc[r] = "accepted" /\ Step(r, "uncache") /\ session[tok[r]] # "none"
      /\ session' = [session EXCEPT ![tok[r]] = "closed"]
      /\ UNCHANGED <<users, owner, life, closedFor, tok, who>>
  BY DEF LogoutCommit, RowOf, userVars
<1>2. /\ VisitMap[r] = [token |-> tok[r], user |-> who[r], in |-> TRUE]
      /\ VisitMap[r] # None
  BY <1>1, BusyVisit
<1>3. VisitOf(r)' = [token |-> tok[r], user |-> who[r], in |-> TRUE]
  BY <1>1, RequestMoves, NextVisit
<1>4. VisitMap' = [VisitMap EXCEPT ![r] = [token |-> tok[r], user |-> who[r], in |-> TRUE]]
  BY <1>1, <1>3, OneVisit, RequestMoves
<1>5. VisitMap' = VisitMap
  BY <1>2, <1>4 DEF VisitMap
<1>6. GraceMap' = GraceMap
  BY <1>1, SameGrace
<1>7. LET v == VisitMap[r] IN
        /\ v # None /\ v.in /\ session[v.token] # "none"
        /\ session' = [session EXCEPT ![v.token] = "closed"]
  BY <1>1, <1>2
<1> QED BY <1>1, <1>5, <1>6, <1>7 DEF Grants!Close, GraceMap, VisitMap

\* The guard's lookups that neither admit nor refuse.
LEMMA LookupStep ==
  ASSUME SessionInv, NEW r \in Requests, CacheMiss(r) \/ RowRead(r)
  PROVE  UNCHANGED <<users, owner, session, life, GraceMap, VisitMap>>
<1>1. /\ pc[r] \in {"cache", "row"} /\ (Step(r, "row") \/ Step(r, "fill"))
      /\ UNCHANGED <<users, owner, session, life, closedFor, tok, who>>
  <2>1. CASE CacheMiss(r)
    BY <2>1 DEF CacheMiss, userVars, tokenVars
  <2>2. CASE RowRead(r)
    BY <2>2 DEF RowRead, userVars, tokenVars
  <2> QED BY <2>1, <2>2
<1>2. VisitMap[r] = [token |-> tok[r], user |-> who[r], in |-> FALSE]
  BY <1>1, BusyVisit
<1>3. VisitOf(r)' = [token |-> tok[r], user |-> who[r], in |-> FALSE]
  BY <1>1, RequestMoves, NextVisit
<1>4. VisitMap' = [VisitMap EXCEPT ![r] = [token |-> tok[r], user |-> who[r], in |-> FALSE]]
  BY <1>1, <1>3, OneVisit, RequestMoves
<1>5. VisitMap' = VisitMap
  BY <1>2, <1>4 DEF VisitMap
<1> QED BY <1>1, <1>5, SameGrace

LEMMA ArriveStep ==
  ASSUME SessionInv, NEW r \in Requests, NEW t \in Tokens, GuardUser(r, t)
  PROVE  \E u \in Users : Grants!Arrive(r, t, u)
<1>1. PICK u \in Account(NameOf[owner[t]]) : who' = [who EXCEPT ![r] = u]
  BY DEF GuardUser
<1>2. /\ pc[r] = "idle" /\ owner[t] # None /\ life[t] > 0
      /\ tok' = [tok EXCEPT ![r] = t] /\ Step(r, "cache")
      /\ UNCHANGED <<users, owner, session, life, closedFor>>
  BY DEF GuardUser, userVars, tokenVars
<1>3. u \in Users /\ u \in Grants!Namesakes(owner[t])
  BY <1>1 DEF Account, Grants!Namesakes
<1>4. /\ tok'[r] = t /\ who'[r] = u
      /\ \A q \in Requests \ {r} : tok'[q] = tok[q] /\ who'[q] = who[q]
  BY <1>1, <1>2 DEF SessionInv, SessionTyped
<1>5. VisitOf(r)' = [token |-> t, user |-> u, in |-> FALSE]
  BY <1>2, <1>4, RequestMoves, NextVisit
<1>6. VisitMap' = [VisitMap EXCEPT ![r] = [token |-> t, user |-> u, in |-> FALSE]]
  BY <1>2, <1>4, <1>5, OneVisit, RequestMoves
<1>7. Grants!Arrive(r, t, u)
  BY <1>2, <1>3, <1>6, IdleVisit, SameGrace DEF Grants!Arrive, Grants!Visit, GraceMap, VisitMap
<1> QED BY <1>3, <1>7

LEMMA IssueStep ==
  ASSUME NEW a \in Attempts, NEW t \in Tokens, LoginIssue(a, t)
  PROVE  \E u \in Users : Grants!Issue(t, u)
<1>1. PICK u \in Account(name[a]) : owner' = [owner EXCEPT ![t] = u]
  BY DEF LoginIssue
<1>2. u \in Users /\ users[u] = "live"
  BY <1>1 DEF Account
<1>3. /\ owner[t] = None /\ session' = [session EXCEPT ![t] = "open"]
      /\ life' = [life EXCEPT ![t] = TokenLife]
      /\ UNCHANGED <<users, closedFor, pc, tok, who>>
  BY DEF LoginIssue, Attempt, userVars, requestVars
<1>4. Grants!Issue(t, u)
  BY <1>1, <1>2, <1>3, SameGrace, SameVisits DEF Grants!Issue, GraceMap, VisitMap
<1> QED BY <1>2, <1>4

LEMMA UserStep ==
  ASSUME NEW u \in Users, CreateUser(u) \/ DeleteUser(u)
  PROVE  Grants!Create(u) \/ Grants!Delete(u)
<1>1. UNCHANGED <<closedFor, pc, tok, who>>
  BY DEF CreateUser, DeleteUser, tokenVars, requestVars
<1>2. CASE CreateUser(u)
  BY <1>1, <1>2, SameGrace, SameVisits
     DEF CreateUser, Account, Grants!Create, Grants!Namesakes, GraceMap, VisitMap, tokenVars
<1>3. CASE DeleteUser(u)
  BY <1>1, <1>3, SameGrace, SameVisits DEF DeleteUser, Grants!Delete, GraceMap, VisitMap
<1> QED BY <1>2, <1>3

\* The grace of a closed token runs out with the time since its logout.
LEMMA GraceTick ==
  ASSUME SessionInv, Tick
  PROVE  Grants!GrantsTick
<1> USE AgeBoundSuffices
<1>1. UNCHANGED <<users, owner, session, pc, tok, who>>
  BY DEF Tick, userVars
<1>2. ASSUME NEW t \in Tokens
      PROVE  GraceLeft(t)' = IF session[t] = "closed" /\ GraceMap[t] > 0
                             THEN GraceMap[t] - 1 ELSE GraceMap[t]
  <2>1. /\ closedFor[t] \in 0..AgeBound
        /\ closedFor'[t] = IF session[t] = "closed" THEN Least(closedFor[t] + 1, AgeBound)
                           ELSE closedFor[t]
    BY DEF Tick, SessionInv, SessionTyped
  <2>2. GraceMap[t] = IF closedFor[t] < CacheTTL + MaxDelay
                      THEN CacheTTL + MaxDelay - closedFor[t] ELSE 0
    BY DEF GraceMap, GraceLeft
  <2>3. GraceLeft(t)' = IF closedFor'[t] < CacheTTL + MaxDelay
                        THEN CacheTTL + MaxDelay - closedFor'[t] ELSE 0
    BY DEF GraceLeft
  <2> QED BY <2>1, <2>2, <2>3 DEF Least
<1>3. GraceMap' = [t \in Tokens |-> IF session[t] = "closed" /\ GraceMap[t] > 0
                                    THEN GraceMap[t] - 1 ELSE GraceMap[t]]
  BY <1>2 DEF GraceMap
<1>4. VisitMap' = VisitMap
  BY <1>1, SameVisits
<1>5. life' = [t \in Tokens |-> IF life[t] > 0 THEN life[t] - 1 ELSE 0]
  BY DEF Tick
<1> QED BY <1>1, <1>3, <1>4, <1>5 DEF Grants!GrantsTick, GraceMap, VisitMap

LEMMA SameGrants ==
  ASSUME UNCHANGED <<users, owner, session, life, closedFor, pc, tok, who>>
  PROVE  UNCHANGED Grants!grantVars
BY SameGrace, SameVisits DEF Grants!grantVars, GraceMap, VisitMap

LEMMA NextGrants ==
  ASSUME SessionInv, [Next]_vars
  PROVE  [Grants!GrantsNext]_(Grants!grantVars)
<1>1. CASE \E u \in Users : CreateUser(u) \/ DeleteUser(u)
  BY <1>1, UserStep DEF Grants!GrantsNext
<1>2. CASE \E a \in Attempts, n \in Keys : LoginCount(a, n) \/ LoginUncounted(a, n)
  BY <1>2, SameGrants
     DEF LoginCount, LoginUncounted, Attempt, userVars, tokenVars, requestVars
<1>3. ASSUME NEW a \in Attempts, LoginStep(a) PROVE [Grants!GrantsNext]_(Grants!grantVars)
  <2>1. CASE LoginExpire(a) \/ LoginNeverExpires(a) \/ LoginDenied(a)
    BY <2>1, SameGrants
       DEF LoginExpire, LoginNeverExpires, LoginDenied, Attempt, userVars, tokenVars,
           requestVars
  <2>2. CASE \E t \in Tokens : LoginIssue(a, t)
    BY <2>2, IssueStep DEF Grants!GrantsNext
  <2> QED BY <1>3, <2>1, <2>2 DEF LoginStep
<1>4. ASSUME NEW r \in Requests, RequestStep(r) PROVE [Grants!GrantsNext]_(Grants!grantVars)
  <2>1. CASE CacheHit(r) \/ Fill(r) \/ FillFails(r)
    BY <2>1, AdmitStep DEF Grants!GrantsNext
  <2>2. CASE CacheMiss(r) \/ RowRead(r)
    BY <2>2, LookupStep DEF Grants!grantVars, GraceMap, VisitMap
  <2>3. CASE RowRefused(r) \/ Serve(r) \/ LogoutUncache(r) \/ LogoutUncacheFails(r)
    <3>1. pc[r] # "idle" /\ Leave(r) /\ UNCHANGED <<users, tokenVars>>
      BY <2>3 DEF RowRefused, Serve, LogoutUncache, LogoutUncacheFails, userVars
    <3> QED BY <3>1, DepartStep DEF Grants!GrantsNext
  <2>4. CASE LogoutCommit(r)
    BY <2>4, CloseStep DEF Grants!GrantsNext
  <2> QED BY <1>4, <2>1, <2>2, <2>3, <2>4 DEF RequestStep, GuardStep
<1>5. ASSUME NEW r \in Requests, NEW t \in Tokens, GuardUser(r, t)
      PROVE  [Grants!GrantsNext]_(Grants!grantVars)
  BY <1>5, ArriveStep DEF Grants!GrantsNext
<1>6. CASE Tick
  BY <1>6, GraceTick DEF Grants!GrantsNext
<1>7. CASE UNCHANGED vars
  BY <1>7, SameGrants DEF vars, userVars, tokenVars, requestVars
<1> QED BY <1>1, <1>2, <1>3, <1>4, <1>5, <1>6, <1>7 DEF Next

\* The guard's lookups, the cache and its failures, and the logouts, deletions
\* and ticks in between amount to one decision per request: it is let in as the
\* owner of its token, within the grace of a logout, and only a request that
\* was let in closes a token.
THEOREM GrantsHold == Spec => GrantsImplemented
<1>1. Init => Grants!GrantsInit
  <2> SUFFICES ASSUME Init PROVE Grants!GrantsInit
    OBVIOUS
  <2>1. \A t \in Tokens : GraceLeft(t) = CacheTTL + MaxDelay
    BY AgeBoundSuffices DEF Init, GraceLeft
  <2>2. \A r \in Requests : VisitOf(r) = None
    BY DEF Init, VisitOf, Busy
  <2> QED BY <2>1, <2>2 DEF Init, Grants!GrantsInit
<1> QED BY <1>1, NextGrants, SessionInvHolds, PTL
        DEF Spec, GrantsImplemented, Grants!GrantsSpec
=============================================================================
