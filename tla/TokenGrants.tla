---------------------------- MODULE TokenGrants ----------------------------
(***************************************************************************)
(* What login, logout and the guard promise of a token, without a cache: a *)
(* token is issued once and never opened again; a request comes with a     *)
(* token that has not expired and the live user of its name, and is let in *)
(* in one step, as the owner of the token, at most Grace ticks after the   *)
(* logout; and only a request that was let in with a token closes it.      *)
(***************************************************************************)
EXTENDS Naturals

CONSTANTS Users, NameOf, Tokens, Requests, TokenLife, Grace, None

VARIABLES
  users,    \* "unborn", "live" or "gone"
  owner,    \* the user a token was issued to, or None
  session,  \* "none", "open" or "closed"
  life,     \* the ticks until the token expires
  grace,    \* the ticks that a closed token may still let requests in
  visit     \* the token and the user of a request, and whether it was let in

grantVars == <<users, owner, session, life, grace, visit>>

Visit(t, u, in) == [token |-> t, user |-> u, in |-> in]

Namesakes(u) == {v \in Users : users[v] = "live" /\ NameOf[v] = NameOf[u]}

GrantsInit ==
  /\ users \in [Users -> {"unborn", "live"}]
  /\ owner = [t \in Tokens |-> None]
  /\ session = [t \in Tokens |-> "none"]
  /\ life = [t \in Tokens |-> 0]
  /\ grace = [t \in Tokens |-> Grace]
  /\ visit = [r \in Requests |-> None]

Create(u) ==
  /\ users[u] = "unborn"
  /\ Namesakes(u) = {}
  /\ users' = [users EXCEPT ![u] = "live"]
  /\ UNCHANGED <<owner, session, life, grace, visit>>

Delete(u) ==
  /\ users[u] = "live"
  /\ users' = [users EXCEPT ![u] = "gone"]
  /\ session' = [t \in Tokens |-> IF owner[t] = u THEN "none" ELSE session[t]]
  /\ UNCHANGED <<owner, life, grace, visit>>

Issue(t, u) ==
  /\ users[u] = "live"
  /\ owner[t] = None
  /\ owner' = [owner EXCEPT ![t] = u]
  /\ session' = [session EXCEPT ![t] = "open"]
  /\ life' = [life EXCEPT ![t] = TokenLife]
  /\ UNCHANGED <<users, grace, visit>>

\* A request that comes after the owner was deleted never is the owner's,
\* whoever has the name now.
Arrive(r, t, u) ==
  /\ visit[r] = None
  /\ owner[t] # None
  /\ life[t] > 0
  /\ u \in Namesakes(owner[t])
  /\ visit' = [visit EXCEPT ![r] = Visit(t, u, FALSE)]
  /\ UNCHANGED <<users, owner, session, life, grace>>

Admit(r) ==
  LET v == visit[r] IN
  /\ v # None /\ ~v.in
  /\ owner[v.token] = v.user
  /\ session[v.token] = "closed" => grace[v.token] > 0
  /\ visit' = [visit EXCEPT ![r] = Visit(v.token, v.user, TRUE)]
  /\ UNCHANGED <<users, owner, session, life, grace>>

Close(r) ==
  LET v == visit[r] IN
  /\ v # None /\ v.in
  /\ session[v.token] # "none"
  /\ session' = [session EXCEPT ![v.token] = "closed"]
  /\ UNCHANGED <<users, owner, life, grace, visit>>

Depart(r) ==
  /\ visit[r] # None
  /\ visit' = [visit EXCEPT ![r] = None]
  /\ UNCHANGED <<users, owner, session, life, grace>>

GrantsTick ==
  /\ life' = [t \in Tokens |-> IF life[t] > 0 THEN life[t] - 1 ELSE 0]
  /\ grace' = [t \in Tokens |->
       IF session[t] = "closed" /\ grace[t] > 0 THEN grace[t] - 1 ELSE grace[t]]
  /\ UNCHANGED <<users, owner, session, visit>>

GrantsNext ==
  \/ \E u \in Users : Create(u) \/ Delete(u) \/ \E t \in Tokens : Issue(t, u)
  \/ \E r \in Requests :
       \/ Admit(r) \/ Close(r) \/ Depart(r)
       \/ \E t \in Tokens, u \in Users : Arrive(r, t, u)
  \/ GrantsTick

GrantsSpec == GrantsInit /\ [][GrantsNext]_grantVars
=============================================================================
