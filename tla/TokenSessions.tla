--------------------------- MODULE TokenSessions ---------------------------
(***************************************************************************)
(* Login, logout and the guard get_current_user that every request passes. *)
(* A token is valid while its row in token_sessions is; a Redis entry with *)
(* a lifetime saves the guard the read of that row.  The guard looks the   *)
(* user up, reads the cache, reads the row, fills the cache: other         *)
(* requests run between any two of these steps.                            *)
(*                                                                         *)
(* Time is a Tick action that ages every entry.  A request lasts at most   *)
(* MaxDelay ticks, all its waiting together, and so does the wait of a     *)
(* login between INCR and EXPIRE: no tick passes while one has taken that  *)
(* long.                                                                   *)
(***************************************************************************)
EXTENDS RateLimiter

CONSTANTS
  Users,       \* user ids, each created at most once
  NameOf,      \* the username an id is created with (it never changes)
  Tokens,      \* the jtis that may be issued
  Attempts,    \* the login handlers that may run at the same time
  Requests,    \* the request handlers that may run at the same time
  CacheTTL,    \* TOKEN_SESSION_CACHE_TTL_SECONDS, in ticks
  TokenLife,   \* ACCESS_TOKEN_EXPIRE_MINUTES, in ticks
  MaxDelay,    \* bound on the ticks a request takes, and EXPIRE after its INCR
  Faults,      \* the kinds of failure that may occur
  None

FaultKinds == {"redis_error", "api_stop"}

ASSUME UsersAssumption ==
  NameOf \in [Users -> Keys] /\ None \notin Users \cup Tokens \cup Keys
ASSUME VisitAssumption == None \notin [token : Tokens, user : Users, in : BOOLEAN]
ASSUME TimesAssumption ==
  /\ CacheTTL \in Nat \ {0} /\ TokenLife \in Nat \ {0} /\ MaxDelay \in Nat
  /\ Faults \subseteq FaultKinds

VARIABLES
  users,      \* "unborn", "live" or "gone": the row of a user
  login,      \* where the handler of a login attempt is
  name,       \* the username the attempt is made with
  owner,      \* the user a token was issued to: user_id of its row, "sub" of its claims
  session,    \* the session row: "none", "open", "closed" (revoked_at set)
  life,       \* the ticks until the token expires
  closedFor,  \* the ticks since the logout was committed (history)
  cached,     \* the user id in the Redis entry of the token
  cacheLeft,  \* the ticks until that entry expires
  pc,         \* where a request is
  tok,        \* the token it carries
  who,        \* the user it found for the token's username
  ttl,        \* the lifetime it computed for the entry
  waited      \* the ticks it has waited, at most MaxDelay

userVars == <<users>>
loginVars == <<login, name>>
tokenVars == <<owner, session, life, closedFor>>
cacheVars == <<cached, cacheLeft>>
requestVars == <<pc, tok, who, ttl, waited>>
vars == <<limiterVars, userVars, loginVars, tokenVars, cacheVars, requestVars>>

Least(a, b) == IF a < b THEN a ELSE b

\* Ages are counted up to here.
AgeBound == LET a == Window + MaxDelay + 1
                b == CacheTTL + MaxDelay
            IN IF a < b THEN b ELSE a

Init ==
  /\ LimiterInit
  /\ users \in [Users -> {"unborn", "live"}]
  /\ \A u, v \in Users :
       users[u] = "live" /\ users[v] = "live" /\ NameOf[u] = NameOf[v] => u = v
  /\ login = [a \in Attempts |-> "idle"]
  /\ name = [a \in Attempts |-> None]
  /\ owner = [t \in Tokens |-> None]
  /\ session = [t \in Tokens |-> "none"]
  /\ life = [t \in Tokens |-> 0]
  /\ closedFor = [t \in Tokens |-> 0]
  /\ cached = [t \in Tokens |-> None]
  /\ cacheLeft = [t \in Tokens |-> 0]
  /\ pc = [r \in Requests |-> "idle"]
  /\ tok = [r \in Requests |-> None]
  /\ who = [r \in Requests |-> None]
  /\ ttl = [r \in Requests |-> 0]
  /\ waited = [r \in Requests |-> 0]

\* The row that SELECT ... WHERE username = n finds.
Account(n) == {u \in Users : users[u] = "live" /\ NameOf[u] = n}

-----------------------------------------------------------------------------
(* POST /v1/users/ and DELETE /v1/users/{id}, as far as tokens see them *)

\* A new row, with a new id, for a name nobody has.
CreateUser(u) ==
  /\ users[u] = "unborn"
  /\ Account(NameOf[u]) = {}
  /\ users' = [users EXCEPT ![u] = "live"]
  /\ UNCHANGED <<limiterVars, loginVars, tokenVars, cacheVars, requestVars>>

\* The foreign key of token_sessions cascades; Redis is not told.
DeleteUser(u) ==
  /\ users[u] = "live"
  /\ users' = [users EXCEPT ![u] = "gone"]
  /\ session' = [t \in Tokens |-> IF owner[t] = u THEN "none" ELSE session[t]]
  /\ UNCHANGED <<limiterVars, loginVars, owner, life, closedFor, cacheVars,
                 requestVars>>

-----------------------------------------------------------------------------
(* POST /v1/auth/login *)

Attempt(a, n, l) ==
  /\ login' = [login EXCEPT ![a] = l]
  /\ name' = [name EXCEPT ![a] = IF l = "idle" THEN None ELSE n]
  /\ UNCHANGED <<userVars, cacheVars, requestVars>>

\* Mutant of LoginCount: every attempt renews the lifetime of the counter.
LoginCount_Renews(a, n) ==
  /\ login[a] = "idle"
  /\ Incr(n)
  /\ Attempt(a, n, "expire")
  /\ UNCHANGED tokenVars

\* The attempt is counted; the first of a window still has to set its end,
\* one above the limit ends with 429.
LoginCount(a, n) ==
  /\ login[a] = "idle"
  /\ Incr(n)
  /\ Attempt(a, n, IF First(n) THEN "expire"
                   ELSE IF Exceeded(n) THEN "idle" ELSE "verify")
  /\ UNCHANGED tokenVars

LoginExpire(a) ==
  /\ login[a] = "expire"
  /\ Expire(name[a])
  /\ Attempt(a, name[a], "verify")
  /\ UNCHANGED tokenVars

\* Redis does not answer: the attempt is admitted, whether or not it was
\* counted on the way.
LoginUncounted(a, n) ==
  /\ "redis_error" \in Faults
  /\ login[a] = "idle"
  /\ \/ UNCHANGED limiterVars
     \/ ~First(n) /\ Incr(n)
     \/ First(n) /\ IncrForgotten(n)
  /\ Attempt(a, n, "verify")
  /\ UNCHANGED tokenVars

\* The same between INCR and EXPIRE, or the process is gone.
LoginNeverExpires(a) ==
  /\ login[a] = "expire"
  /\ Forget(name[a])
  /\ \/ "redis_error" \in Faults /\ Attempt(a, name[a], "verify")
     \/ "api_stop" \in Faults /\ Attempt(a, name[a], "idle")
  /\ UNCHANGED tokenVars

\* User and password are right: the session row is committed and a token
\* returned.  The row's foreign key makes lookup and commit one step.
LoginIssue(a, t) ==
  /\ login[a] = "verify"
  /\ owner[t] = None
  /\ \E u \in Account(name[a]) : owner' = [owner EXCEPT ![t] = u]
  /\ session' = [session EXCEPT ![t] = "open"]
  /\ life' = [life EXCEPT ![t] = TokenLife]
  /\ Attempt(a, name[a], "idle")
  /\ UNCHANGED <<limiterVars, closedFor>>

\* Unknown user, wrong password or a failed commit.
LoginDenied(a) ==
  /\ login[a] = "verify"
  /\ Attempt(a, name[a], "idle")
  /\ UNCHANGED <<limiterVars, tokenVars>>

-----------------------------------------------------------------------------
(* get_current_user *)

Step(r, l) ==
  /\ pc' = [pc EXCEPT ![r] = l]
  /\ waited' = [waited EXCEPT ![r] = IF l = "idle" THEN 0 ELSE @]

\* The request is over and what it knew is forgotten.
Leave(r) ==
  /\ Step(r, "idle")
  /\ tok' = [tok EXCEPT ![r] = None]
  /\ who' = [who EXCEPT ![r] = None]
  /\ ttl' = [ttl EXCEPT ![r] = 0]

\* The signature and the expiry are right and the username is known.
GuardUser(r, t) ==
  /\ pc[r] = "idle"
  /\ owner[t] # None
  /\ life[t] > 0
  /\ \E u \in Account(NameOf[owner[t]]) : who' = [who EXCEPT ![r] = u]
  /\ tok' = [tok EXCEPT ![r] = t]
  /\ Step(r, "cache")
  /\ UNCHANGED <<limiterVars, userVars, loginVars, tokenVars, cacheVars, ttl>>

\* Mutant of CacheHit: any entry will do, whoever it names.
CacheHit_AnyUser(r) ==
  /\ pc[r] = "cache"
  /\ cached[tok[r]] # None
  /\ Step(r, "accepted")
  /\ UNCHANGED <<limiterVars, userVars, loginVars, tokenVars, cacheVars, tok,
                 who, ttl>>

\* cached_user_id == user.id
CacheHit(r) ==
  /\ pc[r] = "cache"
  /\ cached[tok[r]] = who[r]
  /\ Step(r, "accepted")
  /\ UNCHANGED <<limiterVars, userVars, loginVars, tokenVars, cacheVars, tok,
                 who, ttl>>

\* No entry, an entry of another user, or Redis does not answer.
CacheMiss(r) ==
  /\ pc[r] = "cache"
  /\ cached[tok[r]] # who[r] \/ "redis_error" \in Faults
  /\ Step(r, "row")
  /\ UNCHANGED <<limiterVars, userVars, loginVars, tokenVars, cacheVars, tok,
                 who, ttl>>

\* The row that SELECT ... WHERE jti = ? AND user_id = ? finds.
RowOf(t, u) == owner[t] = u /\ session[t] # "none"

\* Mutant of RowValid: neither revoked_at nor logout_at is looked at.
RowValid_Revoked(t, u) == RowOf(t, u) /\ life[t] > 0

RowValid(t, u) == RowOf(t, u) /\ session[t] = "open" /\ life[t] > 0

\* Mutant of EntryLife: the cache lifetime regardless of the token's.
EntryLife_Full(t) == CacheTTL

\* At least one second in the code; a valid row has a tick or more left.
EntryLife(t) == Least(CacheTTL, life[t])

RowRead(r) ==
  /\ pc[r] = "row"
  /\ RowValid(tok[r], who[r])
  /\ ttl' = [ttl EXCEPT ![r] = EntryLife(tok[r])]
  /\ Step(r, "fill")
  /\ UNCHANGED <<limiterVars, userVars, loginVars, tokenVars, cacheVars, tok, who>>

\* 401
RowRefused(r) ==
  /\ pc[r] = "row"
  /\ ~RowValid(tok[r], who[r])
  /\ Leave(r)
  /\ UNCHANGED <<limiterVars, userVars, loginVars, tokenVars, cacheVars>>

\* Mutant of Fill: the entry gets no lifetime (SET instead of SETEX).
Fill_NoLifetime(r) ==
  /\ pc[r] = "fill"
  /\ cached' = [cached EXCEPT ![tok[r]] = who[r]]
  /\ cacheLeft' = [cacheLeft EXCEPT ![tok[r]] = 0]
  /\ Step(r, "accepted")
  /\ UNCHANGED <<limiterVars, userVars, loginVars, tokenVars, tok, who, ttl>>

Fill(r) ==
  /\ pc[r] = "fill"
  /\ cached' = [cached EXCEPT ![tok[r]] = who[r]]
  /\ cacheLeft' = [cacheLeft EXCEPT ![tok[r]] = ttl[r]]
  /\ Step(r, "accepted")
  /\ UNCHANGED <<limiterVars, userVars, loginVars, tokenVars, tok, who, ttl>>

FillFails(r) ==
  /\ "redis_error" \in Faults
  /\ pc[r] = "fill"
  /\ Step(r, "accepted")
  /\ UNCHANGED <<limiterVars, userVars, loginVars, tokenVars, cacheVars, tok,
                 who, ttl>>

-----------------------------------------------------------------------------
(* The endpoint itself, which the guard has let the request in to *)

\* Any endpoint that does not touch tokens.
Serve(r) ==
  /\ pc[r] = "accepted"
  /\ Leave(r)
  /\ UNCHANGED <<limiterVars, userVars, loginVars, tokenVars, cacheVars>>

\* POST /v1/auth/logout commits first ...
LogoutCommit(r) ==
  LET t == tok[r] IN
  /\ pc[r] = "accepted"
  /\ RowOf(t, who[r])
  /\ session' = [session EXCEPT ![t] = "closed"]
  /\ Step(r, "uncache")
  /\ UNCHANGED <<limiterVars, userVars, loginVars, owner, life, closedFor,
                 cacheVars, tok, who, ttl>>

\* ... and then removes the cache entry.
LogoutUncache(r) ==
  LET t == tok[r] IN
  /\ pc[r] = "uncache"
  /\ cached' = [cached EXCEPT ![t] = None]
  /\ cacheLeft' = [cacheLeft EXCEPT ![t] = 0]
  /\ Leave(r)
  /\ UNCHANGED <<limiterVars, userVars, loginVars, tokenVars>>

\* Redis does not answer, which is only logged, or the process is gone.
LogoutUncacheFails(r) ==
  /\ Faults # {}
  /\ pc[r] = "uncache"
  /\ Leave(r)
  /\ UNCHANGED <<limiterVars, userVars, loginVars, tokenVars, cacheVars>>

-----------------------------------------------------------------------------
Busy(r) == pc[r] # "idle"

\* A tick passes: tokens, entries and counters get older.  An attempt that
\* still has to set a counter's lifetime has waited for as long as that exists.
Tick ==
  /\ \A r \in Requests : Busy(r) => waited[r] < MaxDelay
  /\ \A a \in Attempts : login[a] = "expire" => age[name[a]] < MaxDelay
  /\ LimiterTick(AgeBound)
  /\ life' = [t \in Tokens |-> IF life[t] > 0 THEN life[t] - 1 ELSE 0]
  /\ closedFor' = [t \in Tokens |->
       IF session[t] = "closed" THEN Least(closedFor[t] + 1, AgeBound)
                                ELSE closedFor[t]]
  /\ cached' = [t \in Tokens |-> IF cacheLeft[t] = 1 THEN None ELSE cached[t]]
  /\ cacheLeft' = [t \in Tokens |->
       IF cacheLeft[t] > 0 THEN cacheLeft[t] - 1 ELSE 0]
  /\ waited' = [r \in Requests |-> IF Busy(r) THEN waited[r] + 1 ELSE 0]
  /\ UNCHANGED <<userVars, loginVars, owner, session, pc, tok, who, ttl>>

GuardStep(r) ==
  \/ CacheHit(r) \/ CacheMiss(r) \/ RowRead(r) \/ RowRefused(r)
  \/ Fill(r) \/ FillFails(r)

RequestStep(r) ==
  \/ GuardStep(r) \/ Serve(r) \/ LogoutCommit(r) \/ LogoutUncache(r)
  \/ LogoutUncacheFails(r)

LoginStep(a) ==
  \/ LoginExpire(a) \/ LoginNeverExpires(a) \/ LoginDenied(a)
  \/ \E t \in Tokens : LoginIssue(a, t)

Next ==
  \/ \E u \in Users : CreateUser(u) \/ DeleteUser(u)
  \/ \E a \in Attempts, n \in Keys : LoginCount(a, n) \/ LoginUncounted(a, n)
  \/ \E a \in Attempts : LoginStep(a)
  \/ \E r \in Requests : RequestStep(r) \/ \E t \in Tokens : GuardUser(r, t)
  \/ Tick

Spec == Init /\ [][Next]_vars

-----------------------------------------------------------------------------
(* Properties *)

\* Every variable has its type and the parts of a token, of a request and of
\* a cache entry are there together.
TypeOK ==
  /\ LimiterTypeOK
  /\ users \in [Users -> {"unborn", "live", "gone"}]
  /\ login \in [Attempts -> {"idle", "expire", "verify"}]
  /\ name \in [Attempts -> Keys \cup {None}]
  /\ owner \in [Tokens -> Users \cup {None}]
  /\ session \in [Tokens -> {"none", "open", "closed"}]
  /\ life \in [Tokens -> 0..TokenLife]
  /\ closedFor \in [Tokens -> 0..AgeBound]
  /\ cached \in [Tokens -> Users \cup {None}]
  /\ cacheLeft \in [Tokens -> 0..CacheTTL]
  /\ pc \in [Requests -> {"idle", "cache", "row", "fill", "accepted", "uncache"}]
  /\ tok \in [Requests -> Tokens \cup {None}]
  /\ who \in [Requests -> Users \cup {None}]
  /\ ttl \in [Requests -> 0..CacheTTL]
  /\ waited \in [Requests -> 0..MaxDelay]
  /\ \A a \in Attempts : login[a] = "idle" <=> name[a] = None
  /\ \A r \in Requests : ~Busy(r) <=> tok[r] = None
  /\ \A t \in Tokens : cached[t] = None <=> cacheLeft[t] = 0

\* A token lets in only the user it was issued to: not another user who was
\* created under the same name after its owner had been deleted, although the
\* guard finds users by name and the cache outlives the deletion.
OwnerOnly == \A r \in Requests : pc[r] = "accepted" => who[r] = owner[tok[r]]

\* A logout takes hold: once the cache lifetime and the longest delay of a
\* guard that had read the row before have passed, the token lets nobody in,
\* whatever Redis failed to do.
LogoutTakesHold ==
  [][\A r \in Requests : pc[r] # "accepted" /\ pc'[r] = "accepted" =>
       closedFor[tok[r]] < CacheTTL + MaxDelay]_vars

\* An entry ends with its token, but for the delay between the reading of the
\* row and the filling of the cache.
CacheWithinLife ==
  \A t \in Tokens : cached[t] # None => cacheLeft[t] <= life[t] + MaxDelay

\* A login counter is gone a window after its EXPIRE, which may come late,
\* however often other attempts increment it before or after that, unless the
\* EXPIRE was lost.
CounterExpires ==
  \A k \in Keys \ lost : hits[k] > 0 => age[k] <= Window + MaxDelay

\* What is left of the grace of a logout, and what a request shows of itself.
GraceLeft(t) ==
  IF closedFor[t] < CacheTTL + MaxDelay THEN CacheTTL + MaxDelay - closedFor[t] ELSE 0

VisitOf(r) ==
  IF Busy(r) THEN [token |-> tok[r], user |-> who[r],
                   in |-> pc[r] \in {"accepted", "uncache"}]
             ELSE None

Grants == INSTANCE TokenGrants WITH
  Grace <- CacheTTL + MaxDelay,
  grace <- [t \in Tokens |-> GraceLeft(t)],
  visit <- [r \in Requests |-> VisitOf(r)]

\* The guard's lookups, the cache with its lifetimes and failures, and logouts
\* and deletions in between amount to one decision per request: it is let in
\* as the owner of its token, never when it came after the owner was deleted,
\* and within a grace after the logout; only its own requests close a token.
GrantsImplemented == Grants!GrantsSpec
=============================================================================
