----------------------------- MODULE ChatProofs -----------------------------
(***************************************************************************)
(* Theorems about ChatTurns, for any number of requests, users, keys and   *)
(* companies, any assignment of requests to users, keys and endpoints, any *)
(* bound on the running requests and any set of faults.                    *)
(***************************************************************************)
EXTENDS ChatTurns, TLAPS

PcValues == {"idle", "key", "scope", "history", "replay", "agent", "answered",
             "store", "reply", "over"}

ConvRows == [user : Users, company : Companies]

-----------------------------------------------------------------------------
(* The inductive invariant                                                  *)

Functions ==
  /\ company \in [Users -> Companies \cup {None}]
  /\ conv \in [Requests -> ConvRows \cup {None}]
  /\ turns \in [Requests -> SUBSET Requests]
  /\ older \in [Requests -> SUBSET Requests]
  /\ idem \in [Users \X Keys -> Requests \cup {None}]
  /\ pc \in [Requests -> PcValues]
  /\ scope \in [Requests -> Companies \cup {None}]
  /\ asked \in [Requests -> Requests \cup {None}]
  /\ thread \in [Requests -> Requests \cup {None}]
  /\ hit \in [Requests -> Requests \cup {None}]
  /\ history \in [Requests -> SUBSET Requests]
  /\ overlap \in [Requests -> SUBSET Requests]
  /\ earlier \in [Requests -> SUBSET Requests]
  /\ stored \in SUBSET Requests
  /\ lapsed \in SUBSET Requests

\* What a request holds at each place.
Locals ==
  \A r \in Requests :
    /\ r \in stored => pc[r] \in {"store", "reply", "over"}
    /\ pc[r] \in {"store", "reply"} => r \in stored
    /\ pc[r] \in {"idle", "key", "scope"} => thread[r] = None /\ history[r] = {}
    /\ pc[r] \in {"history", "replay", "agent", "answered"} => thread[r] # None
    /\ hit[r] # None => pc[r] \in {"scope", "history", "replay"}
    /\ pc[r] = "replay" => hit[r] # None
    /\ Running(r) => scope[r] # None

\* The transactions are totally ordered.
Order ==
  /\ \A r \in Requests : older[r] \subseteq Listed \ {r}
  /\ \A r, x \in Listed : r # x => (x \in older[r] <=> r \notin older[x])

\* A key leads to a committed turn that was sent under it, and so does a hit.
KeysLeadToTurns ==
  /\ \A k \in Users \X Keys :
       idem[k] # None =>
         /\ idem[k] \in stored
         /\ IdemKey(idem[k]) = k
         /\ KeyOf[idem[k]] # None
  /\ \A r \in Requests :
       hit[r] # None => hit[r] \in stored /\ SameKey(r, hit[r])

\* The key of a committed turn is in Redis unless it lapsed.
Kept ==
  \A r \in stored :
    KeyOf[r] # None /\ r \notin lapsed /\ pc[r] # "store" =>
      idem[IdemKey(r)] # None

HasRead(r) == r \in stored \/ pc[r] \notin {"idle", "key", "over"}

\* Of two requests with one key that did not overlap, the later one has hit.
LaterHits ==
  \A r, x \in Requests :
    /\ r # x /\ SameKey(r, x)
    /\ HasRead(r) /\ HasRead(x)
    /\ r \notin overlap[x] /\ x \notin overlap[r]
    /\ r \notin lapsed /\ x \notin lapsed
    => hit[r] # None \/ hit[x] # None

\* The row of a conversation and its turns agree on the user and the company.
Conversations ==
  /\ \A c \in Requests :
       /\ pc[c] \in {"idle", "key", "scope"} =>
            conv[c] = None /\ \A r \in Requests : thread[r] # c
       /\ conv[c] # None => company[conv[c].user] # None
       /\ \A x \in turns[c] :
            /\ x \in stored /\ conv[c] # None
            /\ conv[c] = [user |-> UserOf[x], company |-> scope[x]]
  /\ \A r \in Requests :
       thread[r] # None /\ conv[thread[r]] # None =>
         conv[thread[r]] = [user |-> UserOf[r], company |-> scope[r]]

\* What the agent was given, and what was over when a request came.
Histories ==
  /\ \A r \in Requests : \A x \in history[r] :
       x \in stored /\ UserOf[x] = UserOf[r] /\ scope[x] = scope[r]
  /\ \A r \in Requests : \A x \in earlier[r] :
       x \in stored /\ pc[x] = "over" /\ x \in older[r]
  /\ \A r \in Requests :
       pc[r] \in {"agent", "answered"} =>
         earlier[r] \cap turns[thread[r]] \subseteq history[r]
  /\ \A c \in Requests : \A r \in turns[c] :
       earlier[r] \cap turns[c] \subseteq history[r]

IInv ==
  /\ Functions
  /\ Locals
  /\ Order
  /\ KeysLeadToTurns
  /\ Kept
  /\ LaterHits
  /\ Conversations
  /\ Histories

-----------------------------------------------------------------------------
(* What each part of the invariant depends on                               *)

\* No row is the missing row.
LEMMA ConvIsNotNone ==
  ASSUME NEW c \in Requests, NEW u \in Users, NEW o \in Companies,
         conv[c] = [user |-> u, company |-> o]
  PROVE  conv[c] # None
BY ChatAssumption

LEMMA OrderFrame ==
  ASSUME Order, older' = older, Listed' = Listed
  PROVE  Order'
BY DEF Order

\* A transaction that begins comes after those that are listed.
LEMMA TransactionBegins ==
  ASSUME Order, NEW r \in Requests, Listed' = Listed \cup {r},
         \A x \in Requests :
           older'[x] = IF x = r THEN Listed \ {r} ELSE older[x] \ {r}
  PROVE  Order'
<1>1. Listed \subseteq Requests
  BY DEF Listed
<1>2. ASSUME NEW x \in Requests
      PROVE  older'[x] \subseteq Listed' \ {x}
  <2>1. older[x] \subseteq Listed \ {x}
    BY DEF Order
  <2>2. CASE x = r
    BY <2>2
  <2>3. CASE x # r
    <3>1. older'[x] = older[x] \ {r}
      BY <2>3
    <3> QED BY <2>1, <3>1
  <2> QED BY <2>2, <2>3
<1>3. ASSUME NEW x \in Listed', NEW y \in Listed', x # y
      PROVE  x \in older'[y] <=> y \notin older'[x]
  <2>1. x \in Requests /\ y \in Requests
    BY <1>1
  <2>2. CASE x = r
    <3>1. older'[x] = Listed \ {r} /\ older'[y] = older[y] \ {r}
      BY <1>3, <2>1, <2>2
    <3> QED BY <1>3, <2>2, <3>1
  <2>3. CASE y = r
    <3>1. older'[y] = Listed \ {r} /\ older'[x] = older[x] \ {r}
      BY <1>3, <2>1, <2>3
    <3> QED BY <1>3, <2>3, <3>1
  <2>4. CASE x # r /\ y # r
    <3>1. older'[x] = older[x] \ {r} /\ older'[y] = older[y] \ {r}
      BY <2>1, <2>4
    <3> QED BY <1>3, <2>4, <3>1 DEF Order
  <2> QED BY <2>2, <2>3, <2>4
<1> QED BY <1>2, <1>3 DEF Order

LEMMA KeysFrame ==
  ASSUME KeysLeadToTurns, idem' = idem, stored \subseteq stored',
         \A x \in Requests : hit'[x] \in {hit[x], None}
  PROVE  KeysLeadToTurns'
BY DEF KeysLeadToTurns, IdemKey, SameKey

LEMMA KeptFrame ==
  ASSUME Kept, idem' = idem, lapsed \subseteq lapsed',
         \A x \in stored' : pc'[x] # "store" /\ x \notin lapsed' => x \in stored /\ pc[x] # "store"
  PROVE  Kept'
BY DEF Kept, IdemKey

LEMMA LaterHitsFrame ==
  ASSUME LaterHits, overlap' = overlap, lapsed \subseteq lapsed',
         \A x \in Requests : HasRead(x)' => HasRead(x) /\ hit'[x] = hit[x]
  PROVE  LaterHits'
BY DEF LaterHits, SameKey

LEMMA ConversationsFrame ==
  ASSUME Functions, Conversations,
         company' = company, conv' = conv, turns' = turns, scope' = scope, stored' = stored,
         \A x \in Requests :
           /\ thread'[x] \in {thread[x], None}
           /\ pc'[x] \in {"idle", "key", "scope"} => pc[x] \in {"idle", "key", "scope"}
  PROVE  Conversations'
<1>1. ASSUME NEW c \in Requests
      PROVE  /\ pc'[c] \in {"idle", "key", "scope"} =>
                  conv'[c] = None /\ \A x \in Requests : thread'[x] # c
             /\ conv'[c] # None => company'[conv'[c].user] # None
  BY ChatAssumption DEF Conversations
<1>2. ASSUME NEW c \in Requests, NEW x \in turns'[c]
      PROVE  x \in stored' /\ conv'[c] # None /\ conv'[c] = [user |-> UserOf[x], company |-> scope'[x]]
  BY <1>2 DEF Conversations
<1>3. ASSUME NEW x \in Requests, thread'[x] # None, conv'[thread'[x]] # None
      PROVE  conv'[thread'[x]] = [user |-> UserOf[x], company |-> scope'[x]]
  BY <1>3 DEF Conversations
<1> QED BY <1>1, <1>2, <1>3 DEF Conversations

LEMMA HistoriesFrame ==
  ASSUME Functions, Histories,
         turns' = turns, scope' = scope, history' = history, earlier' = earlier,
         older' = older, stored' = stored,
         \A x \in Requests :
           /\ pc[x] = "over" => pc'[x] = "over"
           /\ pc'[x] \in {"agent", "answered"} =>
                pc[x] \in {"agent", "answered"} /\ thread'[x] = thread[x]
  PROVE  Histories'
<1>1. \A x \in Requests : \A y \in earlier[x] :
        y \in stored' /\ pc'[y] = "over" /\ y \in older'[x]
  BY DEF Histories, Functions
<1>2. \A x \in Requests :
        pc'[x] \in {"agent", "answered"} =>
          earlier'[x] \cap turns'[thread'[x]] \subseteq history'[x]
  BY DEF Histories
<1> QED BY <1>1, <1>2 DEF Histories

-----------------------------------------------------------------------------
(* The ways a request stops                                                 *)

\* The request fails, is refused or replays an answer.
Fails(r) ==
  /\ pc[r] \in {"key", "scope", "replay", "agent", "answered"}
  /\ Abandon(r)
  /\ UNCHANGED <<rowVars, idem, stored>>

\* The same, variable by variable.
Failed(r) ==
  /\ \A x \in Requests :
       /\ pc'[x] = IF x = r THEN "over" ELSE pc[x]
       /\ asked'[x] = IF x = r THEN None ELSE asked[x]
       /\ thread'[x] = IF x = r THEN None ELSE thread[x]
       /\ hit'[x] = IF x = r THEN None ELSE hit[x]
       /\ scope'[x] = IF x = r THEN None ELSE scope[x]
       /\ history'[x] = IF x = r THEN {} ELSE history[x]
       /\ earlier'[x] = IF x = r THEN {} ELSE earlier[x]
       /\ overlap'[x] = IF x = r THEN {} ELSE overlap[x]
       /\ older'[x] = IF x = r THEN {} ELSE older[x] \ {r}
  /\ lapsed' = lapsed \ {r}
  /\ company' = company /\ conv' = conv /\ turns' = turns
  /\ idem' = idem /\ stored' = stored

LEMMA FailsFacts ==
  ASSUME Functions, NEW r \in Requests, Fails(r)
  PROVE  Failed(r) /\ Functions'
<1>1. /\ company' = company /\ conv' = conv /\ turns' = turns
      /\ idem' = idem /\ stored' = stored
  BY DEF Fails, rowVars, staffVars
<1>2. /\ lapsed' = lapsed \ {r}
      /\ older' = [x \in Requests |-> IF x = r THEN {} ELSE older[x] \ {r}]
  BY DEF Fails, Abandon
<1>3. /\ pc' = [pc EXCEPT ![r] = "over"]
      /\ asked' = [asked EXCEPT ![r] = None]
      /\ thread' = [thread EXCEPT ![r] = None]
      /\ hit' = [hit EXCEPT ![r] = None]
      /\ scope' = [scope EXCEPT ![r] = None]
      /\ history' = [history EXCEPT ![r] = {}]
      /\ earlier' = [earlier EXCEPT ![r] = {}]
      /\ overlap' = [overlap EXCEPT ![r] = {}]
  BY DEF Fails, Abandon, At, ClearLocals
<1>4. /\ pc' \in [Requests -> PcValues]
      /\ asked' \in [Requests -> Requests \cup {None}]
      /\ thread' \in [Requests -> Requests \cup {None}]
      /\ hit' \in [Requests -> Requests \cup {None}]
      /\ scope' \in [Requests -> Companies \cup {None}]
  BY <1>3 DEF Functions, PcValues
<1>5. /\ history' \in [Requests -> SUBSET Requests]
      /\ earlier' \in [Requests -> SUBSET Requests]
      /\ overlap' \in [Requests -> SUBSET Requests]
      /\ older' \in [Requests -> SUBSET Requests]
      /\ lapsed' \in SUBSET Requests
  BY <1>2, <1>3 DEF Functions
<1>6. Functions'
  BY <1>1, <1>4, <1>5 DEF Functions
<1>7. \A x \in Requests :
        /\ pc'[x] = IF x = r THEN "over" ELSE pc[x]
        /\ asked'[x] = IF x = r THEN None ELSE asked[x]
        /\ thread'[x] = IF x = r THEN None ELSE thread[x]
        /\ hit'[x] = IF x = r THEN None ELSE hit[x]
        /\ scope'[x] = IF x = r THEN None ELSE scope[x]
        /\ history'[x] = IF x = r THEN {} ELSE history[x]
        /\ earlier'[x] = IF x = r THEN {} ELSE earlier[x]
        /\ overlap'[x] = IF x = r THEN {} ELSE overlap[x]
        /\ older'[x] = IF x = r THEN {} ELSE older[x] \ {r}
  BY <1>2, <1>3 DEF Functions
<1> QED BY <1>1, <1>2, <1>6, <1>7 DEF Failed

LEMMA FailsKeeps ==
  ASSUME IInv, NEW r \in Requests, Fails(r)
  PROVE  IInv'
<1> USE DEF IInv
<1>1. r \notin stored /\ pc[r] \in {"key", "scope", "replay", "agent", "answered"}
  BY DEF Locals, Fails
<1>2. Failed(r) /\ Functions'
  BY FailsFacts
<1> USE <1>1, <1>2 DEF Failed
<1>3. Locals'
  <2> SUFFICES ASSUME NEW x \in Requests
               PROVE  Locals!(x)'
    BY DEF Locals
  <2> QED BY DEF Locals, Running
<1>4. Order'
  <2>1. Listed' = Listed \ {r}
    BY DEF Listed, Running
  <2>2. \A x \in Requests : older'[x] \subseteq Listed' \ {x}
    <3> SUFFICES ASSUME NEW x \in Requests, NEW y \in older'[x]
                 PROVE  y \in Listed' /\ y # x
      OBVIOUS
    <3>1. x # r /\ y \in older[x] /\ y # r
      OBVIOUS
    <3> QED BY <2>1, <3>1 DEF Order
  <2>3. ASSUME NEW x \in Listed', NEW y \in Listed', x # y
        PROVE  x \in older'[y] <=> y \notin older'[x]
    <3>1. x \in Listed /\ y \in Listed /\ x # r /\ y # r /\ x \in Requests /\ y \in Requests
      BY <2>1, <2>3 DEF Listed
    <3>2. older'[x] = older[x] \ {r} /\ older'[y] = older[y] \ {r}
      BY <3>1
    <3> QED BY <2>3, <3>1, <3>2 DEF Order
  <2> QED BY <2>2, <2>3 DEF Order
<1>5. KeysLeadToTurns'
  BY DEF KeysLeadToTurns, IdemKey, SameKey
<1>6. Kept'
  BY DEF Kept, IdemKey, Functions
<1>7. LaterHits'
  <2> SUFFICES ASSUME NEW x \in Requests, NEW y \in Requests,
                      x # y, SameKey(x, y), HasRead(x)', HasRead(y)',
                      x \notin overlap'[y], y \notin overlap'[x],
                      x \notin lapsed', y \notin lapsed'
               PROVE  hit'[x] # None \/ hit'[y] # None
    BY DEF LaterHits, SameKey
  <2>1. x # r /\ y # r
    BY DEF HasRead
  <2> QED BY <2>1 DEF LaterHits, HasRead, SameKey
<1>8. Conversations'
  <2>1. ASSUME NEW c \in Requests
        PROVE  /\ pc'[c] \in {"idle", "key", "scope"} =>
                    conv'[c] = None /\ \A x \in Requests : thread'[x] # c
               /\ conv'[c] # None => company'[conv'[c].user] # None
    <3>1. pc'[c] \in {"idle", "key", "scope"} =>
            conv'[c] = None /\ \A x \in Requests : thread[x] # c
      BY DEF Conversations
    <3>2. \A x \in Requests : thread'[x] \in {thread[x], None}
      OBVIOUS
    <3>3. c # None
      BY ChatAssumption
    <3>4. conv'[c] # None => company'[conv'[c].user] # None
      BY DEF Conversations
    <3> QED BY <3>1, <3>2, <3>3, <3>4
  <2>2. ASSUME NEW c \in Requests, NEW x \in turns'[c]
        PROVE  x \in stored' /\ conv'[c] # None /\ conv'[c] = [user |-> UserOf[x], company |-> scope'[x]]
    <3>1. x \in turns[c] /\ x \in stored /\ x \in Requests
      BY <2>2 DEF Conversations, Functions
    <3>2. scope'[x] = scope[x]
      BY <3>1
    <3> QED BY <3>1, <3>2 DEF Conversations
  <2>3. ASSUME NEW x \in Requests, thread'[x] # None, conv'[thread'[x]] # None
        PROVE  conv'[thread'[x]] = [user |-> UserOf[x], company |-> scope'[x]]
    <3>1. thread'[x] = thread[x] /\ scope'[x] = scope[x]
      BY <2>3
    <3> QED BY <2>3, <3>1 DEF Conversations
  <2> QED BY <2>1, <2>2, <2>3 DEF Conversations
<1>9. Histories'
  <2>1. ASSUME NEW x \in Requests, NEW y \in history'[x]
        PROVE  y \in stored' /\ UserOf[y] = UserOf[x] /\ scope'[y] = scope'[x]
    <3>1. x # r /\ y \in history[x] /\ y \in stored /\ y \in Requests
      BY <2>1 DEF Histories, Functions
    <3>2. scope'[x] = scope[x] /\ scope'[y] = scope[y]
      BY <3>1
    <3> QED BY <3>1, <3>2 DEF Histories
  <2>2. ASSUME NEW x \in Requests, NEW y \in earlier'[x]
        PROVE  y \in stored' /\ pc'[y] = "over" /\ y \in older'[x]
    <3>1. x # r /\ y \in earlier[x] /\ y \in stored /\ y \in Requests /\ y # r
      BY <2>2 DEF Histories, Functions
    <3>2. older'[x] = older[x] \ {r} /\ pc'[y] = pc[y]
      BY <3>1
    <3> QED BY <3>1, <3>2 DEF Histories
  <2>3. ASSUME NEW x \in Requests, pc'[x] \in {"agent", "answered"}
        PROVE  earlier'[x] \cap turns'[thread'[x]] \subseteq history'[x]
    BY <2>3 DEF Histories
  <2>4. ASSUME NEW c \in Requests, NEW x \in turns'[c]
        PROVE  earlier'[x] \cap turns'[c] \subseteq history'[x]
    <3>1. x \in turns[c] /\ x \in Requests /\ x # r
      BY <2>4 DEF Conversations, Functions
    <3> QED BY <3>1 DEF Histories
  <2> QED BY <2>1, <2>2, <2>3, <2>4 DEF Histories
<1> QED BY <1>2, <1>3, <1>4, <1>5, <1>6, <1>7, <1>8, <1>9

\* The request is through and its turn remains.
Leaves(r) ==
  /\ pc[r] \in {"store", "reply"}
  /\ Leave(r)
  /\ lapsed' = lapsed \/ lapsed' = lapsed \cup {r}
  /\ pc[r] = "store" => lapsed' = lapsed \cup {r}
  /\ UNCHANGED <<rowVars, idem, stored>>

LEMMA LeavesKeeps ==
  ASSUME IInv, NEW r \in Requests, Leaves(r)
  PROVE  IInv'
<1> USE DEF IInv
<1>1. /\ company' = company /\ conv' = conv /\ turns' = turns
      /\ idem' = idem /\ stored' = stored /\ older' = older
      /\ scope' = scope /\ history' = history /\ earlier' = earlier
      /\ overlap' = overlap
  BY DEF Leaves, Leave, rowVars, staffVars, runVars
<1>2. /\ pc' = [pc EXCEPT ![r] = "over"]
      /\ asked' = [asked EXCEPT ![r] = None]
      /\ thread' = [thread EXCEPT ![r] = None]
      /\ hit' = [hit EXCEPT ![r] = None]
      /\ lapsed' \in {lapsed, lapsed \cup {r}}
  BY DEF Leaves, Leave, At, ClearLocals
<1>3. pc[r] \in {"store", "reply"} /\ r \in stored /\ hit[r] = None
  BY DEF Leaves, Locals
<1>4. Functions'
  BY <1>1, <1>2 DEF Functions, PcValues
<1>5. \A x \in Requests :
        /\ pc'[x] = IF x = r THEN "over" ELSE pc[x]
        /\ thread'[x] = IF x = r THEN None ELSE thread[x]
        /\ hit'[x] = hit[x]
  BY <1>2, <1>3 DEF Functions
<1>6. Locals'
  BY <1>1, <1>3, <1>5 DEF Locals, Running
<1>7. Order'
  <2>1. Listed' = Listed
    BY <1>1, <1>3, <1>5 DEF Listed, Running
  <2> QED BY <1>1, <2>1, OrderFrame
<1>8. KeysLeadToTurns'
  BY <1>1, <1>5, KeysFrame
<1>9. Kept'
  <2>1. ASSUME NEW x \in stored', pc'[x] # "store", x \notin lapsed'
        PROVE  x \in stored /\ pc[x] # "store"
    BY <1>1, <1>5, <2>1 DEF Leaves, Functions
  <2> QED BY <1>1, <1>2, <2>1, KeptFrame
<1>10. LaterHits'
  <2>1. \A x \in Requests : HasRead(x)' => HasRead(x) /\ hit'[x] = hit[x]
    BY <1>1, <1>3, <1>5 DEF HasRead
  <2> QED BY <1>1, <1>2, <2>1, LaterHitsFrame
<1>11. Conversations'
  BY <1>1, <1>5, ConversationsFrame
<1>12. Histories'
  BY <1>1, <1>5, HistoriesFrame
<1> QED BY <1>4, <1>6, <1>7, <1>8, <1>9, <1>10, <1>11, <1>12

-----------------------------------------------------------------------------
(* Requests on their way                                                    *)

LEMMA GuardKeeps ==
  ASSUME IInv, NEW r \in Requests, NEW c \in Requests \cup {None}, Guard(r, c)
  PROVE  IInv'
<1> USE DEF IInv
<1>1. /\ company' = company /\ conv' = conv /\ turns' = turns
      /\ idem' = idem /\ stored' = stored /\ thread' = thread /\ hit' = hit
      /\ history' = history /\ overlap' = overlap /\ lapsed' = lapsed
  BY DEF Guard, rowVars, staffVars
<1>2. /\ pc' = [pc EXCEPT ![r] = "key"]
      /\ scope' = [scope EXCEPT ![r] = company[UserOf[r]]]
      /\ asked' = [asked EXCEPT ![r] = c]
      /\ earlier' = [earlier EXCEPT ![r] = {x \in stored : ~Running(x)}]
      /\ older' = [x \in Requests |-> IF x = r THEN Listed \ {r} ELSE older[x] \ {r}]
      /\ company[UserOf[r]] \in Companies
  BY ChatAssumption DEF Guard, At, BeginTransaction, Functions
<1>3. /\ pc[r] = "idle" /\ r \notin stored /\ hit[r] = None /\ thread[r] = None
      /\ history[r] = {}
  BY DEF Guard, Locals
<1>4. Functions'
  <2>1. pc' \in [Requests -> PcValues] /\ asked' \in [Requests -> Requests \cup {None}]
        /\ scope' \in [Requests -> Companies \cup {None}]
    BY <1>2 DEF Functions, PcValues
  <2>2. earlier' \in [Requests -> SUBSET Requests]
        /\ older' \in [Requests -> SUBSET Requests]
    BY <1>2 DEF Functions, Listed
  <2> QED BY <1>1, <2>1, <2>2 DEF Functions
<1>5. \A x \in Requests :
        /\ pc'[x] = IF x = r THEN "key" ELSE pc[x]
        /\ scope'[x] = IF x = r THEN company[UserOf[r]] ELSE scope[x]
        /\ earlier'[x] = IF x = r THEN {y \in stored : ~Running(y)} ELSE earlier[x]
        /\ older'[x] = IF x = r THEN Listed \ {r} ELSE older[x] \ {r}
  BY <1>2 DEF Functions
<1>6. Locals'
  <2> SUFFICES ASSUME NEW x \in Requests
               PROVE  Locals!(x)'
    BY DEF Locals
  <2>1. CASE x = r
    <3>1. pc'[r] = "key" /\ scope'[r] \in Companies
      BY <1>2, <1>5
    <3>2. r \notin stored' /\ hit'[r] = None /\ thread'[r] = None /\ history'[r] = {}
      BY <1>1, <1>3
    <3> QED BY ChatAssumption, <2>1, <3>1, <3>2 DEF Running
  <2>2. CASE x # r
    BY <1>1, <1>5, <2>2 DEF Locals, Running
  <2> QED BY <2>1, <2>2
<1>7. Order'
  <2>1. Listed' = Listed \cup {r} /\ r \notin Listed
    BY <1>1, <1>3, <1>5 DEF Listed, Running
  <2> QED BY <1>5, <2>1, TransactionBegins
<1>8. KeysLeadToTurns'
  BY <1>1, KeysFrame
<1>9. Kept'
  <2>1. ASSUME NEW x \in stored', pc'[x] # "store", x \notin lapsed'
        PROVE  x \in stored /\ pc[x] # "store"
    BY <1>1, <1>3, <1>5, <2>1 DEF Functions
  <2> QED BY <1>1, <2>1, KeptFrame
<1>10. LaterHits'
  <2>1. \A x \in Requests : HasRead(x)' => HasRead(x) /\ hit'[x] = hit[x]
    BY <1>1, <1>3, <1>5 DEF HasRead
  <2> QED BY <1>1, <2>1, LaterHitsFrame
<1>11. Conversations'
  <2>1. ASSUME NEW v \in Requests
        PROVE  /\ pc'[v] \in {"idle", "key", "scope"} =>
                    conv'[v] = None /\ \A x \in Requests : thread'[x] # v
               /\ conv'[v] # None => company'[conv'[v].user] # None
    BY <1>1, <1>3, <1>5 DEF Conversations
  <2>2. ASSUME NEW v \in Requests, NEW x \in turns'[v]
        PROVE  x \in stored' /\ conv'[v] # None /\ conv'[v] = [user |-> UserOf[x], company |-> scope'[x]]
    <3>1. x \in turns[v] /\ x \in stored /\ x \in Requests /\ x # r
      BY <1>1, <1>3, <2>2 DEF Conversations, Functions
    <3>2. scope'[x] = scope[x]
      BY <1>5, <3>1
    <3> QED BY <1>1, <3>1, <3>2 DEF Conversations
  <2>3. ASSUME NEW x \in Requests, thread'[x] # None, conv'[thread'[x]] # None
        PROVE  conv'[thread'[x]] = [user |-> UserOf[x], company |-> scope'[x]]
    <3>1. scope'[x] = scope[x]
      BY <1>1, <1>3, <1>5, <2>3
    <3> QED BY <1>1, <2>3, <3>1 DEF Conversations
  <2> QED BY <2>1, <2>2, <2>3 DEF Conversations
<1>12. Histories'
  <2>1. ASSUME NEW x \in Requests, NEW y \in history'[x]
        PROVE  y \in stored' /\ UserOf[y] = UserOf[x] /\ scope'[y] = scope'[x]
    <3>1. x # r /\ y \in history[x] /\ y \in stored /\ y \in Requests /\ y # r
      BY <1>1, <1>3, <2>1 DEF Histories, Functions
    <3>2. scope'[x] = scope[x] /\ scope'[y] = scope[y]
      BY <1>5, <3>1
    <3> QED BY <1>1, <3>1, <3>2 DEF Histories
  <2>2. ASSUME NEW x \in Requests, NEW y \in earlier'[x]
        PROVE  y \in stored' /\ pc'[y] = "over" /\ y \in older'[x]
    <3>1. CASE x = r
      <4>1. y \in stored /\ ~Running(y) /\ y \in Requests /\ y # r
        BY <1>3, <1>5, <2>2, <3>1 DEF Functions
      <4>2. pc[y] = "over" /\ y \in Listed
        BY <4>1 DEF Locals, Running, Listed
      <4>3. pc'[y] = pc[y] /\ older'[x] = Listed \ {r}
        BY <1>5, <3>1, <4>1
      <4> QED BY <1>1, <4>1, <4>2, <4>3
    <3>2. CASE x # r
      <4>1. y \in earlier[x]
        BY <1>5, <2>2, <3>2
      <4>2. y \in stored /\ y \in Requests /\ y # r
        BY <1>3, <4>1 DEF Histories, Functions
      <4>3. older'[x] = older[x] \ {r} /\ pc'[y] = pc[y]
        BY <1>5, <3>2, <4>2
      <4> QED BY <1>1, <4>1, <4>2, <4>3 DEF Histories
    <3> QED BY <3>1, <3>2
  <2>3. ASSUME NEW x \in Requests, pc'[x] \in {"agent", "answered"}
        PROVE  earlier'[x] \cap turns'[thread'[x]] \subseteq history'[x]
    BY <1>1, <1>5, <2>3 DEF Histories
  <2>4. ASSUME NEW v \in Requests, NEW x \in turns'[v]
        PROVE  earlier'[x] \cap turns'[v] \subseteq history'[x]
    <3>1. x \in turns[v] /\ x \in Requests /\ x # r
      BY <1>1, <1>3, <2>4 DEF Conversations, Functions
    <3> QED BY <1>1, <1>5, <3>1 DEF Histories
  <2> QED BY <2>1, <2>2, <2>3, <2>4 DEF Histories
<1> QED BY <1>4, <1>6, <1>7, <1>8, <1>9, <1>10, <1>11, <1>12

LEMMA ReadKeyKeeps ==
  ASSUME IInv, NEW r \in Requests, ReadKey(r)
  PROVE  IInv'
<1> USE DEF IInv
<1> DEFINE Goal ==
      /\ KeysLeadToTurns' /\ LaterHits' /\ lapsed \subseteq lapsed'
      /\ hit' \in [Requests -> Requests \cup {None}] /\ lapsed' \in SUBSET Requests
      /\ \A x \in Requests : x # r => hit'[x] = hit[x]
<1>1. /\ company' = company /\ conv' = conv /\ turns' = turns
      /\ idem' = idem /\ stored' = stored /\ older' = older /\ asked' = asked
      /\ thread' = thread /\ scope' = scope /\ history' = history
      /\ earlier' = earlier
  BY DEF ReadKey, rowVars, staffVars
<1>2. /\ pc' = [pc EXCEPT ![r] = "scope"]
      /\ overlap' = [overlap EXCEPT ![r] =
                       {x \in Requests \ {r} : Running(x) /\ SameKey(r, x)}]
  BY DEF ReadKey, At
<1>3. /\ pc[r] = "key" /\ r \notin stored /\ hit[r] = None /\ thread[r] = None
      /\ history[r] = {}
  BY DEF ReadKey, Locals
<1>4. ASSUME /\ hit' = [hit EXCEPT ![r] = IF KeyOf[r] = None THEN None ELSE idem[IdemKey(r)]]
             /\ lapsed' = lapsed
      PROVE  Goal
  <2> DEFINE found == IF KeyOf[r] = None THEN None ELSE idem[IdemKey(r)]
  <2>1. KeyOf[r] # None => IdemKey(r) \in Users \X Keys
    BY ChatAssumption DEF IdemKey
  <2>2. PICK t \in Requests \cup {None} : t = found
    BY <2>1 DEF Functions
  <2>3. t # None => t \in stored /\ SameKey(r, t)
    BY <2>1, <2>2 DEF KeysLeadToTurns, IdemKey, SameKey
  <2>4. hit' = [hit EXCEPT ![r] = t]
    BY <1>4, <2>2
  <2>5. KeyOf[r] # None => t = idem[IdemKey(r)]
    BY <2>2
  <2> HIDE DEF found
  <2>6. \A x \in Requests :
          /\ pc'[x] = IF x = r THEN "scope" ELSE pc[x]
          /\ hit'[x] = IF x = r THEN t ELSE hit[x]
          /\ overlap'[x] = IF x = r THEN {y \in Requests \ {r} : Running(y) /\ SameKey(r, y)}
                           ELSE overlap[x]
    BY <1>2, <2>4 DEF Functions
  <2>7. KeysLeadToTurns'
    BY <1>1, <2>3, <2>6 DEF KeysLeadToTurns, IdemKey, SameKey
  <2>8. LaterHits'
    <3>1. ASSUME NEW x \in Requests, x # r, SameKey(r, x), HasRead(x)',
                 x \notin overlap'[r], x \notin lapsed'
          PROVE  hit'[r] # None
      <4>1. x \in stored /\ ~Running(x)
        BY <1>1, <2>6, <3>1 DEF HasRead, Running
      <4>2. KeyOf[x] # None /\ IdemKey(x) = IdemKey(r) /\ KeyOf[r] # None
        BY <3>1 DEF SameKey, IdemKey
      <4>3. idem[IdemKey(x)] # None
        BY <1>4, <3>1, <4>1, <4>2 DEF Kept, Running
      <4> QED BY <2>5, <2>6, <4>2, <4>3
    <3>2. SUFFICES ASSUME NEW x \in Requests, NEW y \in Requests,
                          x # y, SameKey(x, y), HasRead(x)', HasRead(y)',
                          x \notin overlap'[y], y \notin overlap'[x],
                          x \notin lapsed', y \notin lapsed'
                   PROVE  hit'[x] # None \/ hit'[y] # None
      BY DEF LaterHits, SameKey
    <3>3. CASE x = r
      BY <3>1, <3>2, <3>3
    <3>4. CASE y = r
      <4>1. SameKey(y, x)
        BY <3>2 DEF SameKey
      <4> QED BY <3>1, <3>2, <3>4, <4>1
    <3>5. CASE x # r /\ y # r
      <4>1. /\ HasRead(x) /\ HasRead(y) /\ hit'[x] = hit[x] /\ hit'[y] = hit[y]
            /\ overlap'[x] = overlap[x] /\ overlap'[y] = overlap[y]
        BY <1>1, <2>6, <3>2, <3>5 DEF HasRead
      <4> QED BY <1>4, <3>2, <4>1 DEF LaterHits
    <3> QED BY <3>3, <3>4, <3>5
  <2>9. hit' \in [Requests -> Requests \cup {None}] /\ lapsed' \in SUBSET Requests
    BY <1>4, <2>4 DEF Functions
  <2>10. \A x \in Requests : x # r => hit'[x] = hit[x]
    BY <2>6
  <2>11. lapsed \subseteq lapsed'
    BY <1>4
  <2> QED BY <2>7, <2>8, <2>9, <2>10, <2>11
<1>5. ASSUME hit' = hit, lapsed' = lapsed \cup {r}
      PROVE  Goal
  <2>1. KeysLeadToTurns'
    BY <1>1, <1>5, KeysFrame
  <2>2. LaterHits'
    <3>1. SUFFICES ASSUME NEW x \in Requests, NEW y \in Requests,
                          x # y, SameKey(x, y), HasRead(x)', HasRead(y)',
                          x \notin overlap'[y], y \notin overlap'[x],
                          x \notin lapsed', y \notin lapsed'
                   PROVE  hit'[x] # None \/ hit'[y] # None
      BY DEF LaterHits, SameKey
    <3>2. x # r /\ y # r
      BY <1>5, <3>1
    <3>3. /\ HasRead(x) /\ HasRead(y)
          /\ overlap'[x] = overlap[x] /\ overlap'[y] = overlap[y]
      BY <1>1, <1>2, <3>1, <3>2 DEF HasRead, Functions
    <3> QED BY <1>5, <3>1, <3>3 DEF LaterHits
  <2>3. hit' \in [Requests -> Requests \cup {None}] /\ lapsed' \in SUBSET Requests
    BY <1>5 DEF Functions
  <2> QED BY <1>5, <2>1, <2>2, <2>3
<1>6. Goal
  <2>1. \/ /\ hit' = [hit EXCEPT ![r] = IF KeyOf[r] = None THEN None ELSE idem[IdemKey(r)]]
           /\ lapsed' = lapsed
        \/ hit' = hit /\ lapsed' = lapsed \cup {r}
    BY DEF ReadKey
  <2> QED BY <1>4, <1>5, <2>1
<1>7. \A x \in Requests : pc'[x] = IF x = r THEN "scope" ELSE pc[x]
  BY <1>2 DEF Functions
<1>8. Functions'
  <2>1. pc' \in [Requests -> PcValues]
    BY <1>2 DEF Functions, PcValues
  <2>2. overlap' \in [Requests -> SUBSET Requests]
    BY <1>2 DEF Functions
  <2> QED BY <1>1, <1>6, <2>1, <2>2 DEF Functions
<1>9. Locals'
  <2> SUFFICES ASSUME NEW x \in Requests
               PROVE  Locals!(x)'
    BY DEF Locals
  <2>1. CASE x = r
    BY <1>1, <1>3, <1>7, <2>1 DEF Locals, Running
  <2>2. CASE x # r
    BY <1>1, <1>6, <1>7, <2>2 DEF Locals, Running
  <2> QED BY <2>1, <2>2
<1>10. Order'
  <2>1. Listed' = Listed
    BY <1>1, <1>3, <1>7 DEF Listed, Running
  <2> QED BY <1>1, <2>1, OrderFrame
<1>11. Kept'
  <2>1. ASSUME NEW x \in stored', pc'[x] # "store", x \notin lapsed'
        PROVE  x \in stored /\ pc[x] # "store"
    BY <1>1, <1>3, <1>7, <2>1 DEF Functions
  <2> QED BY <1>1, <1>6, <2>1, KeptFrame
<1>12. Conversations'
  BY <1>1, <1>3, <1>7, ConversationsFrame
<1>13. Histories'
  BY <1>1, <1>3, <1>7, HistoriesFrame
<1> QED BY <1>6, <1>8, <1>9, <1>10, <1>11, <1>12, <1>13

LEMMA FindConversationKeeps ==
  ASSUME IInv, NEW r \in Requests, FindConversation(r)
  PROVE  IInv'
<1> USE DEF IInv
<1>1. /\ company' = company /\ conv' = conv /\ turns' = turns
      /\ idem' = idem /\ stored' = stored /\ older' = older /\ asked' = asked
      /\ hit' = hit /\ scope' = scope /\ history' = history
      /\ earlier' = earlier /\ overlap' = overlap /\ lapsed' = lapsed
  BY DEF FindConversation, rowVars, staffVars, runVars
<1>2. /\ pc' = [pc EXCEPT ![r] = "history"]
      /\ thread' = [thread EXCEPT ![r] = asked[r]]
  BY DEF FindConversation, At
<1>3. /\ pc[r] = "scope" /\ r \notin stored /\ thread[r] = None
      /\ asked[r] \in Requests
      /\ conv[asked[r]] = [user |-> UserOf[r], company |-> scope[r]]
      /\ conv[asked[r]] # None
  <2>1. /\ pc[r] = "scope" /\ asked[r] \in Requests
        /\ conv[asked[r]] = [user |-> UserOf[r], company |-> scope[r]]
    BY DEF FindConversation, InScope, Functions
  <2>2. r \notin stored /\ thread[r] = None /\ scope[r] # None
    BY <2>1 DEF Locals, Running
  <2>3. scope[r] \in Companies /\ UserOf[r] \in Users
    BY <2>2, ChatAssumption DEF Functions
  <2> QED BY <2>1, <2>2, <2>3, ConvIsNotNone
<1>4. Functions'
  BY <1>1, <1>2, <1>3 DEF Functions, PcValues
<1>5. \A x \in Requests :
        /\ pc'[x] = IF x = r THEN "history" ELSE pc[x]
        /\ thread'[x] = IF x = r THEN asked[r] ELSE thread[x]
  BY <1>2 DEF Functions
<1>6. Locals'
  <2> SUFFICES ASSUME NEW x \in Requests
               PROVE  Locals!(x)'
    BY DEF Locals
  <2>1. CASE x = r
    BY <1>1, <1>3, <1>5, <2>1, ChatAssumption DEF Locals, Running
  <2>2. CASE x # r
    BY <1>1, <1>5, <2>2 DEF Locals, Running
  <2> QED BY <2>1, <2>2
<1>7. Order'
  <2>1. Listed' = Listed
    BY <1>1, <1>3, <1>5 DEF Listed, Running
  <2> QED BY <1>1, <2>1, OrderFrame
<1>8. KeysLeadToTurns'
  BY <1>1, KeysFrame
<1>9. Kept'
  <2>1. ASSUME NEW x \in stored', pc'[x] # "store", x \notin lapsed'
        PROVE  x \in stored /\ pc[x] # "store"
    BY <1>1, <1>3, <1>5, <2>1 DEF Functions
  <2> QED BY <1>1, <2>1, KeptFrame
<1>10. LaterHits'
  <2>1. \A x \in Requests : HasRead(x)' => HasRead(x) /\ hit'[x] = hit[x]
    BY <1>1, <1>3, <1>5 DEF HasRead
  <2> QED BY <1>1, <2>1, LaterHitsFrame
<1>11. Conversations'
  <2>1. ASSUME NEW c \in Requests
        PROVE  /\ pc'[c] \in {"idle", "key", "scope"} =>
                    conv'[c] = None /\ \A x \in Requests : thread'[x] # c
               /\ conv'[c] # None => company'[conv'[c].user] # None
    <3>1. conv'[c] # None => company'[conv'[c].user] # None
      BY <1>1 DEF Conversations
    <3>2. ASSUME pc'[c] \in {"idle", "key", "scope"}
          PROVE  conv'[c] = None /\ \A x \in Requests : thread'[x] # c
      <4>1. pc[c] \in {"idle", "key", "scope"}
        BY <1>3, <1>5, <3>2
      <4>2. conv[c] = None /\ \A x \in Requests : thread[x] # c
        BY <4>1 DEF Conversations
      <4>3. asked[r] # c
        BY <1>3, <4>2
      <4> QED BY <1>1, <1>5, <4>2, <4>3
    <3> QED BY <3>1, <3>2
  <2>2. ASSUME NEW c \in Requests, NEW x \in turns'[c]
        PROVE  x \in stored' /\ conv'[c] # None /\ conv'[c] = [user |-> UserOf[x], company |-> scope'[x]]
    BY <1>1, <2>2 DEF Conversations
  <2>3. ASSUME NEW x \in Requests, thread'[x] # None, conv'[thread'[x]] # None
        PROVE  conv'[thread'[x]] = [user |-> UserOf[x], company |-> scope'[x]]
    BY <1>1, <1>3, <1>5, <2>3 DEF Conversations
  <2> QED BY <2>1, <2>2, <2>3 DEF Conversations
<1>12. Histories'
  BY <1>1, <1>3, <1>5, HistoriesFrame
<1> QED BY <1>4, <1>6, <1>7, <1>8, <1>9, <1>10, <1>11, <1>12

LEMMA NewConversationKeeps ==
  ASSUME IInv, NEW r \in Requests, NewConversation(r)
  PROVE  IInv'
<1> USE DEF IInv
<1>1. /\ company' = company /\ turns' = turns
      /\ idem' = idem /\ stored' = stored /\ asked' = asked
      /\ hit' = hit /\ scope' = scope /\ history' = history
      /\ earlier' = earlier /\ overlap' = overlap /\ lapsed' = lapsed
  BY DEF NewConversation, staffVars, runVars
<1>2. /\ pc[r] = "scope" /\ r \notin stored /\ thread[r] = None
      /\ company[UserOf[r]] # None
      /\ UserOf[r] \in Users /\ scope[r] \in Companies
      /\ turns[r] = {} /\ conv[r] = None /\ \A x \in Requests : thread[x] # r
  <2>1. pc[r] = "scope" /\ company[UserOf[r]] # None
    BY DEF NewConversation, CanOpen
  <2>2. r \notin stored /\ thread[r] = None /\ scope[r] # None
    BY <2>1 DEF Locals, Running
  <2>3. UserOf[r] \in Users /\ scope[r] \in Companies
    BY <2>2, ChatAssumption DEF Functions
  <2>4. conv[r] = None /\ \A x \in Requests : thread[x] # r
    BY <2>1 DEF Conversations
  <2>5. turns[r] = {}
    BY <2>4 DEF Conversations, Functions
  <2> QED BY <2>1, <2>2, <2>3, <2>4, <2>5
<1>3. PICK w \in ConvRows : w = [user |-> UserOf[r], company |-> scope[r]]
  BY <1>2 DEF ConvRows
<1>4. w.user = UserOf[r] /\ w # None
  BY <1>3, ChatAssumption DEF ConvRows
<1>5. /\ pc' = [pc EXCEPT ![r] = "history"]
      /\ thread' = [thread EXCEPT ![r] = r]
      /\ conv' = [conv EXCEPT ![r] = w]
      /\ older' = [x \in Requests |-> IF x = r THEN Listed \ {r} ELSE older[x] \ {r}]
  BY <1>3 DEF NewConversation, At, BeginTransaction
<1>6. Functions'
  <2>1. pc' \in [Requests -> PcValues] /\ thread' \in [Requests -> Requests \cup {None}]
    BY <1>5 DEF Functions, PcValues
  <2>2. conv' \in [Requests -> ConvRows \cup {None}]
    BY <1>5 DEF Functions
  <2>3. older' \in [Requests -> SUBSET Requests]
    BY <1>5 DEF Functions, Listed
  <2> QED BY <1>1, <2>1, <2>2, <2>3 DEF Functions
<1>7. \A x \in Requests :
        /\ pc'[x] = IF x = r THEN "history" ELSE pc[x]
        /\ thread'[x] = IF x = r THEN r ELSE thread[x]
        /\ conv'[x] = IF x = r THEN w ELSE conv[x]
        /\ older'[x] = IF x = r THEN Listed \ {r} ELSE older[x] \ {r}
  BY <1>5 DEF Functions
<1>8. Locals'
  <2> SUFFICES ASSUME NEW x \in Requests
               PROVE  Locals!(x)'
    BY DEF Locals
  <2>1. CASE x = r
    <3>1. pc'[r] = "history" /\ thread'[r] = r
      BY <1>7
    <3>2. r \notin stored' /\ scope'[r] # None /\ r # None
      BY <1>1, <1>2, ChatAssumption
    <3> QED BY <2>1, <3>1, <3>2
  <2>2. CASE x # r
    BY <1>1, <1>7, <2>2 DEF Locals, Running
  <2> QED BY <2>1, <2>2
<1>9. Listed' = Listed /\ r \in Listed
  BY <1>1, <1>2, <1>7 DEF Listed, Running
<1>10. Order'
  <2>1. Listed' = Listed \cup {r}
    BY <1>9
  <2> QED BY <1>7, <2>1, TransactionBegins
<1>11. KeysLeadToTurns'
  BY <1>1, KeysFrame
<1>12. Kept'
  <2>1. ASSUME NEW x \in stored', pc'[x] # "store", x \notin lapsed'
        PROVE  x \in stored /\ pc[x] # "store"
    BY <1>1, <1>2, <1>7, <2>1 DEF Functions
  <2> QED BY <1>1, <2>1, KeptFrame
<1>13. LaterHits'
  <2>1. \A x \in Requests : HasRead(x)' => HasRead(x) /\ hit'[x] = hit[x]
    BY <1>1, <1>2, <1>7 DEF HasRead
  <2> QED BY <1>1, <2>1, LaterHitsFrame
<1>14. Conversations'
  <2>1. ASSUME NEW c \in Requests
        PROVE  /\ pc'[c] \in {"idle", "key", "scope"} =>
                    conv'[c] = None /\ \A x \in Requests : thread'[x] # c
               /\ conv'[c] # None => company'[conv'[c].user] # None
    <3>1. CASE c = r
      BY <1>1, <1>2, <1>4, <1>7, <3>1
    <3>2. CASE c # r
      <4>1. pc'[c] = pc[c] /\ conv'[c] = conv[c]
        BY <1>7, <3>2
      <4>2. \A x \in Requests : thread'[x] = thread[x] \/ thread'[x] # c
        BY <1>7, <3>2
      <4> QED BY <1>1, <4>1, <4>2 DEF Conversations
    <3> QED BY <3>1, <3>2
  <2>2. ASSUME NEW c \in Requests, NEW x \in turns'[c]
        PROVE  x \in stored' /\ conv'[c] # None /\ conv'[c] = [user |-> UserOf[x], company |-> scope'[x]]
    <3>1. c # r
      BY <1>1, <1>2, <2>2
    <3>2. conv'[c] = conv[c]
      BY <1>7, <3>1
    <3> QED BY <1>1, <2>2, <3>2 DEF Conversations
  <2>3. ASSUME NEW x \in Requests, thread'[x] # None, conv'[thread'[x]] # None
        PROVE  conv'[thread'[x]] = [user |-> UserOf[x], company |-> scope'[x]]
    <3>1. CASE x = r
      <4>1. thread'[x] = r /\ conv'[r] = w
        BY <1>7, <3>1
      <4> QED BY <1>1, <1>3, <3>1, <4>1
    <3>2. CASE x # r
      <4>1. thread'[x] = thread[x] /\ thread[x] # r
        BY <1>2, <1>7, <3>2
      <4>2. thread[x] \in Requests /\ conv'[thread[x]] = conv[thread[x]]
        BY <1>7, <2>3, <4>1 DEF Functions
      <4> QED BY <1>1, <2>3, <4>1, <4>2 DEF Conversations
    <3> QED BY <3>1, <3>2
  <2> QED BY <2>1, <2>2, <2>3 DEF Conversations
<1>15. Histories'
  <2>1. ASSUME NEW x \in Requests, NEW y \in history'[x]
        PROVE  y \in stored' /\ UserOf[y] = UserOf[x] /\ scope'[y] = scope'[x]
    BY <1>1, <2>1 DEF Histories
  <2>2. ASSUME NEW x \in Requests, NEW y \in earlier'[x]
        PROVE  y \in stored' /\ pc'[y] = "over" /\ y \in older'[x]
    <3>1. /\ y \in earlier[x] /\ y \in Requests /\ y \in stored /\ pc[y] = "over"
          /\ y \in older[x]
      BY <1>1, <2>2 DEF Histories, Functions
    <3>2. y # r /\ pc'[y] = pc[y] /\ y \in Listed
      BY <1>2, <1>7, <3>1 DEF Listed
    <3>3. y \in older'[x]
      BY <1>7, <3>1, <3>2
    <3> QED BY <1>1, <3>1, <3>2, <3>3
  <2>3. ASSUME NEW x \in Requests, pc'[x] \in {"agent", "answered"}
        PROVE  earlier'[x] \cap turns'[thread'[x]] \subseteq history'[x]
    BY <1>1, <1>7, <2>3 DEF Histories
  <2>4. ASSUME NEW c \in Requests, NEW x \in turns'[c]
        PROVE  earlier'[x] \cap turns'[c] \subseteq history'[x]
    BY <1>1, <2>4 DEF Histories
  <2> QED BY <2>1, <2>2, <2>3, <2>4 DEF Histories
<1> QED BY <1>6, <1>8, <1>10, <1>11, <1>12, <1>13, <1>14, <1>15

LEMMA ReadHistoryKeeps ==
  ASSUME IInv, NEW r \in Requests, ReadHistory(r)
  PROVE  IInv'
<1> USE DEF IInv
<1>1. /\ company' = company /\ conv' = conv /\ turns' = turns /\ older' = older
      /\ idem' = idem /\ stored' = stored /\ asked' = asked /\ thread' = thread
      /\ hit' = hit /\ scope' = scope
      /\ earlier' = earlier /\ overlap' = overlap /\ lapsed' = lapsed
  BY DEF ReadHistory, Goto, rowVars, staffVars, localVars
<1>2. PICK l \in {"replay", "agent"} :
        l = IF Replays(r) THEN "replay" ELSE "agent"
  OBVIOUS
<1>3. /\ pc' = [pc EXCEPT ![r] = l]
      /\ history' = [history EXCEPT ![r] = turns[thread[r]]]
  BY <1>2 DEF ReadHistory, Goto, At
<1>4. /\ pc[r] = "history" /\ r \notin stored /\ thread[r] \in Requests
      /\ l = "replay" => hit[r] # None
      /\ l = "agent" => hit[r] = None
  BY <1>2 DEF ReadHistory, Locals, Functions, Replays
<1>5. Functions'
  BY <1>1, <1>3, <1>4 DEF Functions, PcValues
<1>6. \A x \in Requests :
        /\ pc'[x] = IF x = r THEN l ELSE pc[x]
        /\ history'[x] = IF x = r THEN turns[thread[r]] ELSE history[x]
  BY <1>3 DEF Functions
<1>7. Locals'
  <2> SUFFICES ASSUME NEW x \in Requests
               PROVE  Locals!(x)'
    BY DEF Locals
  <2>1. CASE x = r
    BY <1>1, <1>4, <1>6, <2>1 DEF Locals, Running
  <2>2. CASE x # r
    BY <1>1, <1>6, <2>2 DEF Locals, Running
  <2> QED BY <2>1, <2>2
<1>8. Order'
  <2>1. Listed' = Listed
    BY <1>1, <1>4, <1>6 DEF Listed, Running
  <2> QED BY <1>1, <2>1, OrderFrame
<1>9. KeysLeadToTurns'
  BY <1>1, KeysFrame
<1>10. Kept'
  <2>1. ASSUME NEW x \in stored', pc'[x] # "store", x \notin lapsed'
        PROVE  x \in stored /\ pc[x] # "store"
    BY <1>1, <1>4, <1>6, <2>1 DEF Functions
  <2> QED BY <1>1, <2>1, KeptFrame
<1>11. LaterHits'
  <2>1. \A x \in Requests : HasRead(x)' => HasRead(x) /\ hit'[x] = hit[x]
    BY <1>1, <1>4, <1>6 DEF HasRead
  <2> QED BY <1>1, <2>1, LaterHitsFrame
<1>12. Conversations'
  BY <1>1, <1>4, <1>6, ConversationsFrame
<1>13. Histories'
  <2>1. ASSUME NEW x \in Requests, NEW y \in history'[x]
        PROVE  y \in stored' /\ UserOf[y] = UserOf[x] /\ scope'[y] = scope'[x]
    <3>1. CASE x = r
      <4>1. y \in turns[thread[r]]
        BY <1>6, <2>1, <3>1
      <4>2. /\ y \in stored /\ conv[thread[r]] # None
            /\ conv[thread[r]] = [user |-> UserOf[y], company |-> scope[y]]
        BY <1>4, <4>1 DEF Conversations
      <4>3. conv[thread[r]] = [user |-> UserOf[r], company |-> scope[r]]
        BY <1>4, <4>2, ChatAssumption DEF Conversations
      <4> QED BY <1>1, <3>1, <4>2, <4>3
    <3>2. CASE x # r
      BY <1>1, <1>6, <2>1, <3>2 DEF Histories
    <3> QED BY <3>1, <3>2
  <2>2. \A x \in Requests : \A y \in earlier[x] :
          y \in stored' /\ pc'[y] = "over" /\ y \in older'[x]
    BY <1>1, <1>4, <1>6 DEF Histories, Functions
  <2>3. ASSUME NEW x \in Requests, pc'[x] \in {"agent", "answered"}
        PROVE  earlier'[x] \cap turns'[thread'[x]] \subseteq history'[x]
    BY <1>1, <1>6, <2>3 DEF Histories
  <2>4. ASSUME NEW c \in Requests, NEW x \in turns'[c]
        PROVE  earlier'[x] \cap turns'[c] \subseteq history'[x]
    <3>1. x \in Requests /\ x # r
      BY <1>1, <1>4, <2>4 DEF Conversations, Functions
    <3> QED BY <1>1, <1>6, <2>4, <3>1 DEF Histories
  <2> QED BY <1>1, <2>1, <2>2, <2>3, <2>4 DEF Histories
<1> QED BY <1>5, <1>7, <1>8, <1>9, <1>10, <1>11, <1>12, <1>13

LEMMA AgentAnswersKeeps ==
  ASSUME IInv, NEW r \in Requests, AgentAnswers(r)
  PROVE  IInv'
<1> USE DEF IInv
<1>1. /\ company' = company /\ conv' = conv /\ turns' = turns /\ older' = older
      /\ idem' = idem /\ stored' = stored /\ asked' = asked /\ thread' = thread
      /\ hit' = hit /\ scope' = scope /\ history' = history
      /\ earlier' = earlier /\ overlap' = overlap /\ lapsed' = lapsed
  BY DEF AgentAnswers, Goto, rowVars, staffVars, localVars, runVars
<1>2. pc' = [pc EXCEPT ![r] = "answered"] /\ pc[r] = "agent" /\ r \notin stored
  BY DEF AgentAnswers, Goto, At, Locals
<1>3. Functions'
  BY <1>1, <1>2 DEF Functions, PcValues
<1>4. \A x \in Requests : pc'[x] = IF x = r THEN "answered" ELSE pc[x]
  BY <1>2 DEF Functions
<1>5. Locals'
  BY <1>1, <1>2, <1>4 DEF Locals, Running
<1>6. Order'
  <2>1. Listed' = Listed
    BY <1>1, <1>2, <1>4 DEF Listed, Running
  <2> QED BY <1>1, <2>1, OrderFrame
<1>7. KeysLeadToTurns'
  BY <1>1, KeysFrame
<1>8. Kept'
  <2>1. ASSUME NEW x \in stored', pc'[x] # "store", x \notin lapsed'
        PROVE  x \in stored /\ pc[x] # "store"
    BY <1>1, <1>2, <1>4, <2>1 DEF Functions
  <2> QED BY <1>1, <2>1, KeptFrame
<1>9. LaterHits'
  <2>1. \A x \in Requests : HasRead(x)' => HasRead(x) /\ hit'[x] = hit[x]
    BY <1>1, <1>2, <1>4 DEF HasRead
  <2> QED BY <1>1, <2>1, LaterHitsFrame
<1>10. Conversations'
  BY <1>1, <1>2, <1>4, ConversationsFrame
<1>11. Histories'
  BY <1>1, <1>2, <1>4, HistoriesFrame
<1> QED BY <1>3, <1>5, <1>6, <1>7, <1>8, <1>9, <1>10, <1>11

LEMMA PersistKeeps ==
  ASSUME IInv, NEW r \in Requests, Persist(r)
  PROVE  IInv'
<1> USE DEF IInv
<1>1. /\ company' = company /\ conv' = conv /\ older' = older
      /\ idem' = idem /\ asked' = asked /\ thread' = thread
      /\ hit' = hit /\ scope' = scope /\ history' = history
      /\ earlier' = earlier /\ overlap' = overlap /\ lapsed' = lapsed
  BY DEF Persist, Goto, staffVars, localVars, runVars
<1>2. /\ pc[r] = "answered" /\ r \notin stored /\ hit[r] = None
      /\ thread[r] \in Requests /\ conv[thread[r]] # None
      /\ conv[thread[r]] = [user |-> UserOf[r], company |-> scope[r]]
  <2>1. pc[r] = "answered" /\ conv[thread[r]] # None
    BY DEF Persist, CanPersist
  <2>2. r \notin stored /\ hit[r] = None /\ thread[r] # None /\ thread[r] \in Requests
    BY <2>1 DEF Locals, Functions
  <2> QED BY <2>1, <2>2 DEF Conversations
<1>3. PICK v \in Requests : v = thread[r]
  BY <1>2
<1>4. /\ pc' = [pc EXCEPT ![r] = "store"]
      /\ turns' = [turns EXCEPT ![v] = turns[v] \cup {r}]
      /\ stored' = stored \cup {r}
  BY <1>3 DEF Persist, Goto, At
<1>5. Functions'
  <2>1. pc' \in [Requests -> PcValues]
    BY <1>4 DEF Functions, PcValues
  <2>2. turns' \in [Requests -> SUBSET Requests] /\ stored' \in SUBSET Requests
    BY <1>4 DEF Functions
  <2> QED BY <1>1, <2>1, <2>2 DEF Functions
<1>6. \A x \in Requests :
        /\ pc'[x] = IF x = r THEN "store" ELSE pc[x]
        /\ turns'[x] = IF x = v THEN turns[v] \cup {r} ELSE turns[x]
  BY <1>4 DEF Functions
<1>7. Locals'
  <2> SUFFICES ASSUME NEW x \in Requests
               PROVE  Locals!(x)'
    BY DEF Locals
  <2>1. CASE x = r
    BY <1>1, <1>2, <1>4, <1>6, <2>1 DEF Locals, Running
  <2>2. CASE x # r
    BY <1>1, <1>4, <1>6, <2>2 DEF Locals, Running
  <2> QED BY <2>1, <2>2
<1>8. Order'
  <2>1. Listed' = Listed
    BY <1>2, <1>4, <1>6 DEF Listed, Running
  <2> QED BY <1>1, <2>1, OrderFrame
<1>9. KeysLeadToTurns'
  BY <1>1, <1>4, KeysFrame
<1>10. Kept'
  <2>1. ASSUME NEW x \in stored', pc'[x] # "store", x \notin lapsed'
        PROVE  x \in stored /\ pc[x] # "store"
    BY <1>4, <1>6, <2>1 DEF Functions
  <2> QED BY <1>1, <2>1, KeptFrame
<1>11. LaterHits'
  <2>1. \A x \in Requests : HasRead(x)' => HasRead(x) /\ hit'[x] = hit[x]
    BY <1>1, <1>2, <1>4, <1>6 DEF HasRead
  <2> QED BY <1>1, <2>1, LaterHitsFrame
<1>12. Conversations'
  <2>1. ASSUME NEW c \in Requests
        PROVE  /\ pc'[c] \in {"idle", "key", "scope"} =>
                    conv'[c] = None /\ \A x \in Requests : thread'[x] # c
               /\ conv'[c] # None => company'[conv'[c].user] # None
    BY <1>1, <1>2, <1>6 DEF Conversations
  <2>2. ASSUME NEW c \in Requests, NEW x \in turns'[c]
        PROVE  x \in stored' /\ conv'[c] # None /\ conv'[c] = [user |-> UserOf[x], company |-> scope'[x]]
    <3>1. CASE x \in turns[c]
      BY <1>1, <1>4, <3>1 DEF Conversations
    <3>2. CASE x \notin turns[c]
      <4>1. c = v /\ x = r
        BY <1>6, <2>2, <3>2
      <4> QED BY <1>1, <1>2, <1>3, <1>4, <4>1
    <3> QED BY <3>1, <3>2
  <2>3. ASSUME NEW x \in Requests, thread'[x] # None, conv'[thread'[x]] # None
        PROVE  conv'[thread'[x]] = [user |-> UserOf[x], company |-> scope'[x]]
    BY <1>1, <2>3 DEF Conversations
  <2> QED BY <2>1, <2>2, <2>3 DEF Conversations
<1>13. Histories'
  <2>1. \A x \in Requests : \A y \in history[x] :
          y \in stored' /\ UserOf[y] = UserOf[x] /\ scope'[y] = scope'[x]
    BY <1>1, <1>4 DEF Histories
  <2>2. \A x \in Requests : \A y \in earlier[x] :
          y \in stored' /\ pc'[y] = "over" /\ y \in older'[x] /\ y # r
    BY <1>1, <1>2, <1>4, <1>6 DEF Histories, Functions
  <2>3. \A x \in Requests, c \in Requests :
          earlier[x] \cap turns'[c] \subseteq earlier[x] \cap turns[c]
    BY <1>6, <2>2
  <2>4. ASSUME NEW x \in Requests, pc'[x] \in {"agent", "answered"}
        PROVE  earlier'[x] \cap turns'[thread'[x]] \subseteq history'[x]
    <3>1. pc[x] \in {"agent", "answered"} /\ thread[x] \in Requests
      BY <1>6, <2>4 DEF Locals, Functions
    <3> QED BY <1>1, <2>3, <3>1 DEF Histories
  <2>5. ASSUME NEW c \in Requests, NEW x \in turns'[c]
        PROVE  earlier'[x] \cap turns'[c] \subseteq history'[x]
    <3>1. CASE x \in turns[c]
      <4>1. x \in Requests
        BY <3>1 DEF Functions
      <4> QED BY <1>1, <2>3, <3>1, <4>1 DEF Histories
    <3>2. CASE x \notin turns[c]
      <4>1. c = v /\ x = r
        BY <1>6, <2>5, <3>2
      <4>2. earlier[r] \cap turns[v] \subseteq history[r]
        BY <1>2, <1>3 DEF Histories
      <4> QED BY <1>1, <2>3, <4>1, <4>2
    <3> QED BY <3>1, <3>2
  <2> QED BY <1>1, <2>1, <2>2, <2>4, <2>5 DEF Histories
<1> QED BY <1>5, <1>7, <1>8, <1>9, <1>10, <1>11, <1>12, <1>13

LEMMA StoreKeyKeeps ==
  ASSUME IInv, NEW r \in Requests, StoreKey(r)
  PROVE  IInv'
<1> USE DEF IInv
<1>1. /\ company' = company /\ conv' = conv /\ turns' = turns /\ older' = older
      /\ stored' = stored /\ asked' = asked /\ thread' = thread
      /\ hit' = hit /\ scope' = scope /\ history' = history
      /\ earlier' = earlier /\ overlap' = overlap
  BY DEF StoreKey, Goto, rowVars, staffVars, localVars, runVars
<1>2. pc' = [pc EXCEPT ![r] = "reply"] /\ pc[r] = "store" /\ r \in stored
  BY DEF StoreKey, Goto, At, Locals
<1>3. \A x \in Requests : pc'[x] = IF x = r THEN "reply" ELSE pc[x]
  BY <1>2 DEF Functions
<1> DEFINE Goal ==
      /\ idem' \in [Users \X Keys -> Requests \cup {None}] /\ lapsed' \in SUBSET Requests
      /\ lapsed \subseteq lapsed' /\ KeysLeadToTurns' /\ Kept'
<1>4. ASSUME KeyOf[r] # None, idem' = [idem EXCEPT ![IdemKey(r)] = r], lapsed' = lapsed
      PROVE  Goal
  <2>1. PICK k \in Users \X Keys : k = IdemKey(r)
    BY <1>4, ChatAssumption DEF IdemKey
  <2>2. idem' = [idem EXCEPT ![k] = r]
    BY <1>4, <2>1
  <2>3. \A l \in Users \X Keys : idem'[l] = IF l = k THEN r ELSE idem[l]
    BY <2>2 DEF Functions
  <2>4. idem' \in [Users \X Keys -> Requests \cup {None}]
    BY <2>2 DEF Functions
  <2>5. KeysLeadToTurns'
    <3>1. ASSUME NEW l \in Users \X Keys, idem'[l] # None
          PROVE  idem'[l] \in stored' /\ IdemKey(idem'[l]) = l /\ KeyOf[idem'[l]] # None
      <4>1. CASE l = k
        BY <1>1, <1>2, <1>4, <2>1, <2>3, <4>1
      <4>2. CASE l # k
        BY <1>1, <2>3, <3>1, <4>2 DEF KeysLeadToTurns
      <4> QED BY <4>1, <4>2
    <3>2. \A x \in Requests : hit'[x] # None => hit'[x] \in stored' /\ SameKey(x, hit'[x])
      BY <1>1 DEF KeysLeadToTurns
    <3> QED BY <3>1, <3>2 DEF KeysLeadToTurns, IdemKey, SameKey
  <2>6. ASSUME NEW x \in stored', KeyOf[x] # None, x \notin lapsed', pc'[x] # "store"
        PROVE  idem'[IdemKey(x)] # None
    <3>1. x \in Requests /\ x \in stored
      BY <1>1, <2>6 DEF Functions
    <3>2. IdemKey(x) \in Users \X Keys
      BY <2>6, <3>1, ChatAssumption DEF IdemKey
    <3>3. CASE IdemKey(x) = k
      BY <2>3, <3>2, <3>3, ChatAssumption
    <3>4. CASE IdemKey(x) # k
      <4>1. x # r
        BY <2>1, <3>4
      <4>2. idem[IdemKey(x)] # None
        BY <1>3, <1>4, <2>6, <3>1, <4>1 DEF Kept
      <4> QED BY <2>3, <3>2, <3>4, <4>2
    <3> QED BY <3>3, <3>4
  <2>7. Kept'
    BY <2>6 DEF Kept, IdemKey
  <2> QED BY <1>4, <2>4, <2>5, <2>7 DEF Functions
<1>5. ASSUME lapsed' = lapsed \cup {r}, idem' = idem
      PROVE  Goal
  <2>1. KeysLeadToTurns'
    BY <1>1, <1>5, KeysFrame
  <2>2. ASSUME NEW x \in stored', pc'[x] # "store", x \notin lapsed'
        PROVE  x \in stored /\ pc[x] # "store"
    BY <1>1, <1>3, <1>5, <2>2 DEF Functions
  <2>3. Kept'
    BY <1>5, <2>2, KeptFrame
  <2> QED BY <1>5, <2>1, <2>3 DEF Functions
<1>6. Goal
  <2>1. \/ KeyOf[r] # None /\ idem' = [idem EXCEPT ![IdemKey(r)] = r] /\ lapsed' = lapsed
        \/ lapsed' = lapsed \cup {r} /\ idem' = idem
    BY DEF StoreKey
  <2> QED BY <1>4, <1>5, <2>1
<1>7. Functions'
  BY <1>1, <1>2, <1>6 DEF Functions, PcValues
<1>8. Locals'
  <2> SUFFICES ASSUME NEW x \in Requests
               PROVE  Locals!(x)'
    BY DEF Locals
  <2>1. CASE x = r
    BY <1>1, <1>2, <1>3, <2>1 DEF Locals, Running
  <2>2. CASE x # r
    BY <1>1, <1>3, <2>2 DEF Locals, Running
  <2> QED BY <2>1, <2>2
<1>9. Order'
  <2>1. Listed' = Listed
    BY <1>1, <1>2, <1>3 DEF Listed, Running
  <2> QED BY <1>1, <2>1, OrderFrame
<1>10. LaterHits'
  <2>1. \A x \in Requests : HasRead(x)' => HasRead(x) /\ hit'[x] = hit[x]
    BY <1>1, <1>2, <1>3 DEF HasRead
  <2> QED BY <1>1, <1>6, <2>1, LaterHitsFrame
<1>11. Conversations'
  BY <1>1, <1>2, <1>3, ConversationsFrame
<1>12. Histories'
  BY <1>1, <1>2, <1>3, HistoriesFrame
<1> QED BY <1>6, <1>7, <1>8, <1>9, <1>10, <1>11, <1>12

-----------------------------------------------------------------------------
(* Administration and the lifetime of keys                                  *)

\* Whatever conversations go, the invariant stays when they are those of the
\* users who go, or more.
LEMMA CascadeKeeps ==
  ASSUME IInv, NEW gone \in SUBSET Requests, Cascade(gone),
         company' \in [Users -> Companies \cup {None}],
         \A c \in Requests \ gone :
           conv[c] # None => company'[conv[c].user] # None
  PROVE  IInv'
<1> USE DEF IInv
<1>1. /\ older' = older /\ idem' = idem /\ pc' = pc /\ stored' = stored
      /\ asked' = asked /\ thread' = thread /\ hit' = hit /\ scope' = scope
      /\ history' = history /\ earlier' = earlier /\ overlap' = overlap
      /\ lapsed' = lapsed
  BY DEF Cascade, localVars, runVars
<1>2. /\ conv' = [c \in Requests |-> IF c \in gone THEN None ELSE conv[c]]
      /\ turns' = [c \in Requests |-> IF c \in gone THEN {} ELSE turns[c]]
  BY DEF Cascade
<1>3. Functions'
  <2>2. conv' \in [Requests -> ConvRows \cup {None}]
    BY <1>2 DEF Functions
  <2>3. turns' \in [Requests -> SUBSET Requests]
    BY <1>2 DEF Functions
  <2> QED BY <1>1, <2>2, <2>3 DEF Functions
<1>4. ASSUME NEW c \in Requests
      PROVE  \/ c \in gone /\ conv'[c] = None /\ turns'[c] = {}
             \/ c \notin gone /\ conv'[c] = conv[c] /\ turns'[c] = turns[c]
  BY <1>2
<1>5. Locals'
  BY <1>1 DEF Locals, Running
<1>6. Order'
  <2>1. Listed' = Listed
    BY <1>1 DEF Listed, Running
  <2> QED BY <1>1, <2>1, OrderFrame
<1>7. KeysLeadToTurns'
  BY <1>1, KeysFrame
<1>8. Kept'
  BY <1>1, KeptFrame
<1>9. LaterHits'
  BY <1>1, LaterHitsFrame DEF HasRead
<1>10. Conversations'
  <2>1. ASSUME NEW c \in Requests
        PROVE  /\ pc'[c] \in {"idle", "key", "scope"} =>
                    conv'[c] = None /\ \A x \in Requests : thread'[x] # c
               /\ conv'[c] # None => company'[conv'[c].user] # None
    <3>1. pc'[c] \in {"idle", "key", "scope"} =>
            conv'[c] = None /\ \A x \in Requests : thread'[x] # c
      BY <1>1, <1>4 DEF Conversations
    <3>2. ASSUME conv'[c] # None
          PROVE  company'[conv'[c].user] # None
      <4>1. conv'[c] = conv[c] /\ conv[c] # None /\ c \notin gone
        BY <1>4, <3>2
      <4> QED BY <4>1
    <3> QED BY <3>1, <3>2
  <2>2. ASSUME NEW c \in Requests, NEW x \in turns'[c]
        PROVE  x \in stored' /\ conv'[c] # None /\ conv'[c] = [user |-> UserOf[x], company |-> scope'[x]]
    <3>1. conv'[c] = conv[c] /\ x \in turns[c]
      BY <1>4, <2>2
    <3> QED BY <1>1, <3>1 DEF Conversations
  <2>3. ASSUME NEW x \in Requests, thread'[x] # None, conv'[thread'[x]] # None
        PROVE  conv'[thread'[x]] = [user |-> UserOf[x], company |-> scope'[x]]
    <3>1. thread[x] \in Requests
      BY <1>1, <2>3 DEF Functions
    <3>2. conv'[thread[x]] = conv[thread[x]]
      BY <1>1, <1>4, <2>3, <3>1
    <3> QED BY <1>1, <2>3, <3>2 DEF Conversations
  <2> QED BY <2>1, <2>2, <2>3 DEF Conversations
<1>11. Histories'
  <2>1. \A c \in Requests : turns'[c] \subseteq turns[c]
    BY <1>4
  <2>2. ASSUME NEW x \in Requests, pc'[x] \in {"agent", "answered"}
        PROVE  earlier'[x] \cap turns'[thread'[x]] \subseteq history'[x]
    <3>1. thread[x] \in Requests
      BY <1>1, <2>2 DEF Locals, Functions
    <3>2. earlier[x] \cap turns[thread[x]] \subseteq history[x]
      BY <1>1, <2>2 DEF Histories
    <3> QED BY <1>1, <2>1, <3>1, <3>2
  <2>3. ASSUME NEW c \in Requests, NEW x \in turns'[c]
        PROVE  earlier'[x] \cap turns'[c] \subseteq history'[x]
    <3>1. x \in turns[c]
      BY <2>1, <2>3
    <3>2. earlier[x] \cap turns[c] \subseteq history[x]
      BY <3>1 DEF Histories
    <3> QED BY <1>1, <2>1, <3>2
  <2> QED BY <1>1, <2>2, <2>3 DEF Histories
<1> QED BY <1>3, <1>5, <1>6, <1>7, <1>8, <1>9, <1>10, <1>11

LEMMA DeleteUserKeeps ==
  ASSUME IInv, NEW u \in Users, DeleteUser(u)
  PROVE  IInv'
<1>1. company' = [company EXCEPT ![u] = None] /\ Cascade(ConversationsOf(u))
  BY DEF DeleteUser
<1>2. PICK gone \in SUBSET Requests : gone = ConversationsOf(u)
  BY DEF ConversationsOf
<1>3. company' \in [Users -> Companies \cup {None}]
  BY <1>1 DEF IInv, Functions
<1>4. ASSUME NEW c \in Requests \ gone, conv[c] # None
      PROVE  company'[conv[c].user] # None
  <2>1. conv[c].user \in Users
    BY <1>4 DEF IInv, Functions, ConvRows
  <2>2. conv[c].user # u
    BY <1>2, <1>4 DEF ConversationsOf
  <2>3. company'[conv[c].user] = company[conv[c].user]
    BY <1>1, <2>1, <2>2 DEF IInv, Functions
  <2> QED BY <1>4, <2>3 DEF IInv, Conversations
<1> QED BY <1>1, <1>2, <1>3, <1>4, CascadeKeeps

LEMMA DeleteCompanyKeeps ==
  ASSUME IInv, NEW k \in Companies, DeleteCompany(k)
  PROVE  IInv'
<1>1. /\ company' = [u \in Users |-> IF company[u] = k THEN None ELSE company[u]]
      /\ Cascade(ConversationsIn(k))
  BY DEF DeleteCompany
<1>2. PICK gone \in SUBSET Requests : gone = ConversationsIn(k)
  BY DEF ConversationsIn
<1>3. company' \in [Users -> Companies \cup {None}]
  BY <1>1 DEF IInv, Functions
<1>4. ASSUME NEW c \in Requests \ gone, conv[c] # None
      PROVE  company'[conv[c].user] # None
  <2>1. conv[c].user \in Users
    BY <1>4 DEF IInv, Functions, ConvRows
  <2>2. company[conv[c].user] # k
    BY <1>2, <1>4 DEF ConversationsIn
  <2>3. company'[conv[c].user] = company[conv[c].user]
    BY <1>1, <2>1, <2>2
  <2> QED BY <1>4, <2>3 DEF IInv, Conversations
<1> QED BY <1>1, <1>2, <1>3, <1>4, CascadeKeeps

LEMMA MoveUserKeeps ==
  ASSUME IInv, NEW u \in Users, NEW c \in Companies, MoveUser(u, c)
  PROVE  IInv'
<1> USE DEF IInv
<1>1. /\ older' = older /\ idem' = idem /\ pc' = pc /\ stored' = stored
      /\ asked' = asked /\ thread' = thread /\ hit' = hit /\ scope' = scope
      /\ history' = history /\ earlier' = earlier /\ overlap' = overlap
      /\ lapsed' = lapsed /\ conv' = conv /\ turns' = turns
  BY DEF MoveUser, localVars, runVars
<1>2. company' = [company EXCEPT ![u] = c] /\ c # None
  BY ChatAssumption DEF MoveUser
<1>3. Functions'
  BY <1>1, <1>2 DEF Functions
<1>4. \A v \in Users : company[v] # None => company'[v] # None
  BY <1>2 DEF Functions
<1>5. Locals' /\ Order' /\ KeysLeadToTurns' /\ Kept' /\ LaterHits' /\ Histories'
  <2>1. Locals'
    BY <1>1 DEF Locals, Running
  <2>2. Listed' = Listed
    BY <1>1 DEF Listed, Running
  <2>3. Order'
    BY <1>1, <2>2, OrderFrame
  <2>4. KeysLeadToTurns'
    BY <1>1, KeysFrame
  <2>5. Kept'
    BY <1>1, KeptFrame
  <2>6. LaterHits'
    BY <1>1, LaterHitsFrame DEF HasRead
  <2>7. Histories'
    BY <1>1, HistoriesFrame
  <2> QED BY <2>1, <2>3, <2>4, <2>5, <2>6, <2>7
<1>6. Conversations'
  <2>1. ASSUME NEW v \in Requests, conv'[v] # None
        PROVE  company'[conv'[v].user] # None
    <3>1. conv[v].user \in Users
      BY <1>1, <2>1 DEF Functions, ConvRows
    <3> QED BY <1>1, <1>4, <2>1, <3>1 DEF Conversations
  <2> QED BY <1>1, <2>1 DEF Conversations
<1> QED BY <1>3, <1>5, <1>6

LEMMA KeyExpiresKeeps ==
  ASSUME IInv, NEW k \in Users \X Keys, KeyExpires(k)
  PROVE  IInv'
<1> USE DEF IInv
<1>1. /\ company' = company /\ older' = older /\ pc' = pc /\ stored' = stored
      /\ asked' = asked /\ thread' = thread /\ hit' = hit /\ scope' = scope
      /\ history' = history /\ earlier' = earlier /\ overlap' = overlap
      /\ conv' = conv /\ turns' = turns
  BY DEF KeyExpires, rowVars, staffVars, localVars, runVars
<1>2. /\ idem' = [idem EXCEPT ![k] = None]
      /\ lapsed' = lapsed \cup {r \in stored : IdemKey(r) = k}
  BY DEF KeyExpires
<1>3. Functions'
  BY <1>1, <1>2 DEF Functions
<1>4. \A l \in Users \X Keys : idem'[l] = IF l = k THEN None ELSE idem[l]
  BY <1>2 DEF Functions
<1>5. lapsed \subseteq lapsed' /\ Locals' /\ Order' /\ LaterHits' /\ Conversations' /\ Histories'
  <2>1. Locals'
    BY <1>1 DEF Locals, Running
  <2>2. Listed' = Listed
    BY <1>1 DEF Listed, Running
  <2>3. Order'
    BY <1>1, <2>2, OrderFrame
  <2>4. lapsed \subseteq lapsed'
    BY <1>2
  <2>5. LaterHits'
    BY <1>1, <2>4, LaterHitsFrame DEF HasRead
  <2>6. Conversations'
    BY <1>1, ConversationsFrame
  <2>7. Histories'
    BY <1>1, HistoriesFrame
  <2> QED BY <2>1, <2>3, <2>4, <2>5, <2>6, <2>7
<1>6. KeysLeadToTurns'
  <2>1. ASSUME NEW l \in Users \X Keys, idem'[l] # None
        PROVE  idem'[l] \in stored' /\ IdemKey(idem'[l]) = l /\ KeyOf[idem'[l]] # None
    BY <1>1, <1>4, <2>1 DEF KeysLeadToTurns
  <2>2. \A x \in Requests : hit'[x] # None => hit'[x] \in stored' /\ SameKey(x, hit'[x])
    BY <1>1 DEF KeysLeadToTurns
  <2> QED BY <2>1, <2>2 DEF KeysLeadToTurns, IdemKey, SameKey
<1>7. Kept'
  <2>1. ASSUME NEW x \in stored', KeyOf[x] # None, x \notin lapsed', pc'[x] # "store"
        PROVE  idem'[IdemKey(x)] # None
    <3>1. x \in Requests /\ x \in stored /\ x \notin lapsed /\ pc[x] # "store"
      BY <1>1, <1>2, <2>1 DEF Functions
    <3>2. IdemKey(x) # k
      BY <1>2, <2>1, <3>1
    <3>3. IdemKey(x) \in Users \X Keys
      BY <2>1, <3>1, ChatAssumption DEF IdemKey
    <3>4. idem[IdemKey(x)] # None
      BY <2>1, <3>1 DEF Kept
    <3> QED BY <1>4, <3>2, <3>3, <3>4
  <2> QED BY <2>1 DEF Kept, IdemKey
<1> QED BY <1>3, <1>5, <1>6, <1>7

-----------------------------------------------------------------------------
(* The invariant                                                            *)

\* Every step of a request is one of those above.
LEMMA RequestSteps ==
  ASSUME NEW r \in Requests, RequestStep(r)
  PROVE  \/ Fails(r) \/ Leaves(r) \/ ReadKey(r) \/ FindConversation(r)
         \/ NewConversation(r) \/ ReadHistory(r) \/ AgentAnswers(r)
         \/ Persist(r) \/ StoreKey(r)
<1>1. Throttled(r) => Fails(r)
  BY DEF Throttled, Fails
<1>2. ConversationNotFound(r) => Fails(r)
  BY DEF ConversationNotFound, Fails
<1>3. NewConversationFails(r) => Fails(r)
  BY DEF NewConversationFails, Fails
<1>4. Replay(r) => Fails(r)
  BY DEF Replay, Fails
<1>5. AgentFails(r) => Fails(r)
  BY DEF AgentFails, Fails
<1>6. PersistFails(r) => Fails(r)
  BY DEF PersistFails, Fails
<1>7. Reply(r) => Leaves(r)
  BY DEF Reply, Leaves
<1>8. ASSUME Disconnect(r)
      PROVE  Fails(r) \/ Leaves(r)
  <2>1. UNCHANGED <<rowVars, idem, stored>>
    BY <1>8 DEF Disconnect
  <2>2. CASE pc[r] \in {"agent", "answered"} /\ Abandon(r)
    BY <2>1, <2>2 DEF Fails
  <2>3. CASE pc[r] = "store" /\ Leave(r) /\ lapsed' = lapsed \cup {r}
    BY <2>1, <2>3 DEF Leaves
  <2>4. CASE pc[r] = "reply" /\ Leave(r) /\ UNCHANGED lapsed
    BY <2>1, <2>4 DEF Leaves
  <2> QED BY <1>8, <2>2, <2>3, <2>4 DEF Disconnect
<1> QED BY <1>1, <1>2, <1>3, <1>4, <1>5, <1>6, <1>7, <1>8 DEF RequestStep

LEMMA InitKeeps == Init => IInv
<1> SUFFICES ASSUME Init PROVE IInv
  OBVIOUS
<1>1. Functions
  BY ChatAssumption DEF Init, Functions, PcValues
<1>2. /\ stored = {}
      /\ \A r \in Requests :
           /\ pc[r] = "idle" /\ thread[r] = None /\ hit[r] = None /\ history[r] = {}
           /\ conv[r] = None /\ turns[r] = {} /\ older[r] = {} /\ earlier[r] = {}
      /\ \A k \in Users \X Keys : idem[k] = None
  BY DEF Init
<1>3. Locals
  BY <1>2 DEF Locals, Running
<1>4. Listed = {}
  BY <1>2 DEF Listed, Running
<1>5. Order
  BY <1>2, <1>4 DEF Order
<1>6. KeysLeadToTurns /\ Kept /\ LaterHits
  BY <1>2 DEF KeysLeadToTurns, Kept, LaterHits, HasRead
<1>7. Conversations
  BY <1>2, ChatAssumption DEF Conversations
<1>8. Histories
  BY <1>2 DEF Histories
<1> QED BY <1>1, <1>3, <1>5, <1>6, <1>7, <1>8 DEF IInv

LEMMA NextKeeps ==
  ASSUME IInv, [Next]_vars
  PROVE  IInv'
<1>1. CASE Next
  <2>1. CASE \E u \in Users : DeleteUser(u) \/ \E c \in Companies : MoveUser(u, c)
    BY <2>1, DeleteUserKeeps, MoveUserKeeps
  <2>5. CASE \E k \in Companies : DeleteCompany(k)
    BY <2>5, DeleteCompanyKeeps
  <2>2. CASE \E r \in Requests, c \in Requests \cup {None} : Guard(r, c)
    BY <2>2, GuardKeeps
  <2>3. CASE \E r \in Requests : RequestStep(r)
    BY <2>3, RequestSteps, FailsKeeps, LeavesKeeps, ReadKeyKeeps,
       FindConversationKeeps, NewConversationKeeps, ReadHistoryKeeps,
       AgentAnswersKeeps, PersistKeeps, StoreKeyKeeps
  <2>4. CASE \E k \in Users \X Keys : KeyExpires(k)
    BY <2>4, KeyExpiresKeeps
  <2> QED BY <1>1, <2>1, <2>2, <2>3, <2>4, <2>5 DEF Next
<1>2. CASE UNCHANGED vars
  <2>1. /\ company' = company /\ conv' = conv /\ turns' = turns /\ older' = older
        /\ idem' = idem /\ pc' = pc /\ scope' = scope /\ asked' = asked
        /\ thread' = thread /\ hit' = hit /\ history' = history /\ stored' = stored
        /\ earlier' = earlier /\ overlap' = overlap /\ lapsed' = lapsed
    BY <1>2 DEF vars, rowVars, staffVars, localVars, runVars
  <2>2. Functions' /\ Locals' /\ Order'
    BY <2>1 DEF IInv, Functions, Locals, Order, Listed, Running
  <2>3. KeysLeadToTurns' /\ Kept' /\ LaterHits'
    BY <2>1 DEF IInv, KeysLeadToTurns, Kept, LaterHits, HasRead, IdemKey, SameKey
  <2>4. Conversations' /\ Histories'
    BY <2>1 DEF IInv, Conversations, Histories
  <2> QED BY <2>2, <2>3, <2>4 DEF IInv
<1> QED BY <1>1, <1>2

LEMMA Invariance == Spec => []IInv
BY InitKeeps, NextKeeps, PTL DEF Spec

\* Every company that a user or a conversation refers to has a row.
Rows ==
  /\ companies \subseteq Companies
  /\ company \in [Users -> companies \cup {None}]
  /\ \A c \in Requests : conv[c] # None => conv[c].company \in companies

LEMMA RowsKept ==
  ASSUME IInv, Rows, [Next]_vars
  PROVE  Rows'
<1>1. CASE \E u \in Users : DeleteUser(u)
  <2>1. PICK u \in Users : DeleteUser(u)
    BY <1>1
  <2>2. /\ companies' = companies /\ company' = [company EXCEPT ![u] = None]
        /\ \A c \in Requests : conv'[c] \in {None, conv[c]}
    BY <2>1 DEF DeleteUser, Cascade
  <2>3. company' \in [Users -> companies' \cup {None}]
    BY <2>2 DEF Rows
  <2> QED BY <2>2, <2>3 DEF Rows
<1>2. CASE \E u \in Users, c \in Companies : MoveUser(u, c)
  <2>1. PICK u \in Users, c \in Companies : MoveUser(u, c)
    BY <1>2
  <2>2. /\ companies' = companies /\ company' = [company EXCEPT ![u] = c]
        /\ c \in companies /\ conv' = conv
    BY <2>1 DEF MoveUser
  <2>3. company' \in [Users -> companies' \cup {None}]
    BY <2>2 DEF Rows
  <2> QED BY <2>2, <2>3 DEF Rows
<1>3. CASE \E k \in Companies : DeleteCompany(k)
  <2>1. PICK k \in Companies : DeleteCompany(k)
    BY <1>3
  <2>2. /\ companies' = companies \ {k}
        /\ company' = [u \in Users |-> IF company[u] = k THEN None ELSE company[u]]
        /\ \A c \in Requests :
             conv'[c] = IF c \in ConversationsIn(k) THEN None ELSE conv[c]
    BY <2>1 DEF DeleteCompany, Cascade
  <2>3. company' \in [Users -> companies' \cup {None}]
    <3>1. \A u \in Users : company[u] \in companies \cup {None}
      BY DEF Rows
    <3> QED BY <2>2, <3>1
  <2>4. ASSUME NEW c \in Requests, conv'[c] # None
        PROVE  conv'[c].company \in companies'
    <3>1. conv'[c] = conv[c] /\ c \notin ConversationsIn(k) /\ conv[c] # None
      BY <2>2, <2>4
    <3>2. conv[c].company # k
      BY <3>1 DEF ConversationsIn
    <3> QED BY <2>2, <3>1, <3>2 DEF Rows
  <2> QED BY <2>2, <2>3, <2>4 DEF Rows
<1>4. CASE \E r \in Requests, c \in Requests \cup {None} : Guard(r, c)
  BY <1>4 DEF Rows, Guard, rowVars, staffVars
<1>5. CASE \E r \in Requests : RequestStep(r)
  <2>1. PICK r \in Requests : RequestStep(r)
    BY <1>5
  <2>2. CASE NewConversation(r)
    <3>1. /\ companies' = companies /\ company' = company
          /\ conv' = [conv EXCEPT ![r] = [user |-> UserOf[r], company |-> scope[r]]]
          /\ scope[r] \in companies
      BY <2>2 DEF NewConversation, CanOpen, staffVars
    <3>2. ASSUME NEW c \in Requests, conv'[c] # None
          PROVE  conv'[c].company \in companies
      <4>1. CASE c = r
        <5>1. conv'[c] = [user |-> UserOf[r], company |-> scope[r]]
          BY <3>1, <4>1 DEF IInv, Functions
        <5> QED BY <3>1, <5>1
      <4>2. CASE c # r
        <5>1. conv'[c] = conv[c]
          BY <3>1, <4>2 DEF IInv, Functions
        <5> QED BY <3>2, <5>1 DEF Rows
      <4> QED BY <4>1, <4>2
    <3> QED BY <3>1, <3>2 DEF Rows
  <2>3. CASE ~NewConversation(r)
    <3>1. \/ Fails(r) \/ Leaves(r) \/ ReadKey(r) \/ FindConversation(r)
          \/ ReadHistory(r) \/ AgentAnswers(r) \/ Persist(r) \/ StoreKey(r)
      BY <2>1, <2>3, RequestSteps
    <3>2. companies' = companies /\ company' = company /\ conv' = conv
      BY <3>1 DEF Fails, Leaves, ReadKey, FindConversation, ReadHistory,
         AgentAnswers, Persist, StoreKey, rowVars, staffVars
    <3> QED BY <3>2 DEF Rows
  <2> QED BY <2>2, <2>3
<1>6. CASE \E k \in Users \X Keys : KeyExpires(k)
  BY <1>6 DEF Rows, KeyExpires, rowVars, staffVars
<1>7. CASE UNCHANGED vars
  BY <1>7 DEF Rows, vars, rowVars, staffVars
<1> QED BY <1>1, <1>2, <1>3, <1>4, <1>5, <1>6, <1>7 DEF Next

LEMMA RowsInvariance == Spec => []Rows
<1>1. Init => Rows
  BY ChatAssumption DEF Init, Rows
<1> QED BY <1>1, RowsKept, Invariance, PTL DEF Spec

-----------------------------------------------------------------------------
(* Theorems                                                                 *)

\* Every variable of a chat request keeps its type, and the created_at of the
\* open and committed transactions orders them totally.
THEOREM TypeCorrect == Spec => []TypeOK
<1>1. IInv /\ Rows => TypeOK
  BY DEF IInv, Functions, Order, Rows, TypeOK, PcValues, ConvRows
<1> QED BY <1>1, Invariance, RowsInvariance, PTL

\* A retry that came after the first attempt was over adds no second turn while
\* Redis keeps the idempotency key, whichever endpoint each was sent to.
THEOREM RetriesAreSafe == Spec => []RetryAddsNoTurn
<1>1. ASSUME IInv PROVE RetryAddsNoTurn
  <2> SUFFICES ASSUME NEW r \in stored, NEW x \in stored, SameKey(r, x), r # x,
                      r \notin overlap[x], x \notin overlap[r]
               PROVE  {r, x} \cap lapsed # {}
    BY DEF RetryAddsNoTurn
  <2>1. r \in Requests /\ x \in Requests /\ HasRead(r) /\ HasRead(x)
    BY <1>1 DEF IInv, Functions, HasRead
  <2>2. hit[r] = None /\ hit[x] = None
    BY <1>1, <2>1 DEF IInv, Locals
  <2> QED BY <1>1, <2>1, <2>2 DEF IInv, LaterHits
<1> QED BY <1>1, Invariance, PTL

\* What a request answers with was committed before, and a replayed answer was
\* committed for the same user under the same key.
THEOREM AnswersAreStored == Spec => []AnswerIsOwnStoredTurn
<1>1. IInv => AnswerIsOwnStoredTurn
  BY DEF IInv, Locals, KeysLeadToTurns, AnswerIsOwnStoredTurn, Answer
<1> QED BY <1>1, Invariance, PTL

\* Turns sent one after the other are listed in that order, and the later
\* answer was given with the earlier turn in sight.
THEOREM TurnsAreOrdered == Spec => []OrderedTurns
<1>1. ASSUME IInv PROVE OrderedTurns
  <2> SUFFICES ASSUME NEW c \in Requests, NEW r \in turns[c], NEW x \in turns[c],
                      x \in earlier[r]
               PROVE  x \in history[r] /\ x \in older[r]
    BY DEF OrderedTurns, Precedes
  <2>1. r \in Requests
    BY <1>1 DEF IInv, Functions
  <2> QED BY <1>1, <2>1 DEF IInv, Histories
<1> QED BY <1>1, Invariance, PTL

\* The agent never sees a turn of another user, nor one that was answered
\* within another company of the same user.
THEOREM HistoriesAreOwn == Spec => []OwnHistory
<1>1. IInv => OwnHistory
  BY DEF IInv, Histories, OwnHistory
<1> QED BY <1>1, Invariance, PTL

\* The foreign keys leave no conversation and no turn of a deleted user or a
\* deleted company, also when a request was running, and also of a user who had
\* moved away before.
THEOREM NothingOutlivesUsers == Spec => []DeletedUserLeavesNothing
<1>1. ASSUME IInv, Rows PROVE DeletedUserLeavesNothing
  <2> SUFFICES ASSUME NEW c \in Requests
               PROVE  /\ turns[c] # {} => conv[c] # None
                      /\ conv[c] # None =>
                           company[conv[c].user] # None /\ conv[c].company \in companies
    BY DEF DeletedUserLeavesNothing
  <2> QED BY <1>1 DEF IInv, Conversations, Rows
<1> QED BY <1>1, Invariance, RowsInvariance, PTL

-----------------------------------------------------------------------------
(* The abstract specification                                               *)

\* A running request is scoped to a company that its user is or was in.
ScopeOfUser ==
  \A r \in Requests :
    Running(r) /\ company[UserOf[r]] # None =>
      scope[r] \in {Home[UserOf[r]], company[UserOf[r]]}

\* Every step of a request but these two leaves the stored conversations alone.
LEMMA RowsStay ==
  ASSUME NEW r \in Requests, RequestStep(r), ~NewConversation(r), ~Persist(r)
  PROVE  UNCHANGED <<rowVars, stored>>
<1>1. \/ Fails(r) \/ Leaves(r) \/ ReadKey(r) \/ FindConversation(r)
      \/ ReadHistory(r) \/ AgentAnswers(r) \/ StoreKey(r)
  BY RequestSteps
<1> QED BY <1>1 DEF Fails, Leaves, ReadKey, FindConversation, ReadHistory,
       AgentAnswers, StoreKey

\* A request that goes on running keeps its scope.
LEMMA ScopeStays ==
  ASSUME Functions, NEW r \in Requests, RequestStep(r)
  PROVE  /\ company' = company
         /\ \A x \in Requests : Running(x)' => Running(x) /\ scope'[x] = scope[x]
<1>1. company' = company
  BY RowsStay DEF rowVars, staffVars, NewConversation, Persist
<1>2. CASE Fails(r)
  BY <1>1, <1>2, FailsFacts DEF Failed, Running
<1>3. ASSUME ~Fails(r)
      PROVE  scope' = scope /\ pc[r] \notin {"idle", "over"} /\ \E l : At(r, l)
  <2>1. \/ Leaves(r) \/ ReadKey(r) \/ FindConversation(r) \/ NewConversation(r)
        \/ ReadHistory(r) \/ AgentAnswers(r) \/ Persist(r) \/ StoreKey(r)
    BY <1>3, RequestSteps
  <2>2. scope' = scope
    BY <2>1 DEF Leaves, Leave, ReadKey, FindConversation, NewConversation,
       ReadHistory, AgentAnswers, Persist, StoreKey, runVars
  <2>3. pc[r] \notin {"idle", "over"}
    BY <2>1 DEF Leaves, ReadKey, FindConversation, NewConversation,
       ReadHistory, AgentAnswers, Persist, StoreKey
  <2>4. \E l : At(r, l)
    BY <2>1 DEF Leaves, Leave, ReadKey, FindConversation, NewConversation,
       ReadHistory, AgentAnswers, Persist, StoreKey, Goto
  <2> QED BY <2>2, <2>3, <2>4
<1>4. CASE ~Fails(r)
  <2>1. PICK l : At(r, l)
    BY <1>3, <1>4
  <2>2. \A x \in Requests : x # r => pc'[x] = pc[x]
    BY <2>1 DEF At, Functions
  <2> QED BY <1>1, <1>3, <1>4, <2>2 DEF Running
<1> QED BY <1>2, <1>4

LEMMA ScopeKept ==
  ASSUME IInv, ScopeOfUser, [Next]_vars
  PROVE  ScopeOfUser'
<1> USE DEF IInv
<1> SUFFICES ASSUME NEW x \in Requests, Running(x)', company'[UserOf[x]] # None
             PROVE  scope'[x] \in {Home[UserOf[x]], company'[UserOf[x]]}
  BY DEF ScopeOfUser
<1>u. UserOf[x] \in Users
  BY ChatAssumption
<1>1. CASE \E u \in Users : DeleteUser(u)
  <2>1. PICK u \in Users : DeleteUser(u)
    BY <1>1
  <2>2. pc' = pc /\ scope' = scope /\ company' = [company EXCEPT ![u] = None]
    BY <2>1 DEF DeleteUser, Cascade, runVars
  <2>3. company'[UserOf[x]] = company[UserOf[x]]
    BY <1>u, <2>2 DEF Functions
  <2> QED BY <2>2, <2>3 DEF ScopeOfUser, Running
<1>7. CASE \E k \in Companies : DeleteCompany(k)
  <2>1. PICK k \in Companies : DeleteCompany(k)
    BY <1>7
  <2>2. /\ pc' = pc /\ scope' = scope
        /\ company' = [u \in Users |-> IF company[u] = k THEN None ELSE company[u]]
    BY <2>1 DEF DeleteCompany, Cascade, runVars
  <2>3. company'[UserOf[x]] = company[UserOf[x]]
    BY <1>u, <2>2
  <2> QED BY <2>2, <2>3 DEF ScopeOfUser, Running
<1>2. CASE \E u \in Users, c \in Companies : MoveUser(u, c)
  <2>1. PICK u \in Users, c \in Companies : MoveUser(u, c)
    BY <1>2
  <2>2. /\ pc' = pc /\ scope' = scope
        /\ company[u] = Home[u] /\ company' = [company EXCEPT ![u] = c]
    BY <2>1 DEF MoveUser, runVars
  <2>3. u # UserOf[x] => company'[UserOf[x]] = company[UserOf[x]]
    BY <1>u, <2>2 DEF Functions
  <2>4. Home[u] # None
    BY ChatAssumption
  <2>5. Running(x)
    BY <2>2 DEF Running
  <2>6. company[UserOf[x]] # None
    BY <2>2, <2>3, <2>4
  <2>7. scope[x] \in {Home[UserOf[x]], company[UserOf[x]]}
    BY <2>5, <2>6 DEF ScopeOfUser
  <2> QED BY <2>2, <2>3, <2>7
<1>3. CASE \E r \in Requests, c \in Requests \cup {None} : Guard(r, c)
  <2>1. PICK r \in Requests, c \in Requests \cup {None} : Guard(r, c)
    BY <1>3
  <2>2. /\ company' = company
        /\ scope' = [scope EXCEPT ![r] = company[UserOf[r]]]
        /\ pc' = [pc EXCEPT ![r] = "key"]
    BY <2>1 DEF Guard, At, rowVars, staffVars
  <2>3. CASE x = r
    BY <2>2, <2>3 DEF Functions
  <2>4. CASE x # r
    <3>1. pc'[x] = pc[x] /\ scope'[x] = scope[x]
      BY <2>2, <2>4 DEF Functions
    <3> QED BY <2>2, <3>1 DEF ScopeOfUser, Running
  <2> QED BY <2>3, <2>4
<1>4. CASE \E r \in Requests : RequestStep(r)
  BY <1>4, ScopeStays DEF ScopeOfUser
<1>5. CASE \E k \in Users \X Keys : KeyExpires(k)
  BY <1>5 DEF ScopeOfUser, Running, KeyExpires, rowVars, staffVars, runVars
<1>6. CASE UNCHANGED vars
  BY <1>6 DEF ScopeOfUser, Running, vars, rowVars, staffVars, runVars
<1> QED BY <1>1, <1>2, <1>3, <1>4, <1>5, <1>6, <1>7 DEF Next

LEMMA ScopeInvariance == Spec => []ScopeOfUser
<1>1. Init => ScopeOfUser
  BY DEF Init, ScopeOfUser, Running
<1> QED BY <1>1, ScopeKept, Invariance, PTL DEF Spec

LEMMA NewConversationOpens ==
  ASSUME IInv, ScopeOfUser, NEW r \in Requests, NewConversation(r)
  PROVE  \E k \in Companies : Stored!Open(r, k)
<1> USE DEF IInv
<1>1. /\ pc[r] = "scope" /\ company[UserOf[r]] # None /\ scope[r] \in companies
      /\ conv' = [conv EXCEPT ![r] = [user |-> UserOf[r], company |-> scope[r]]]
      /\ companies' = companies /\ company' = company
      /\ turns' = turns /\ stored' = stored
  BY DEF NewConversation, CanOpen, staffVars
<1>2. conv[r] = None
  BY <1>1 DEF Conversations
<1>3. scope[r] \in {Home[UserOf[r]], company[UserOf[r]]}
  BY <1>1 DEF ScopeOfUser, Running
<1>4. scope[r] \in Companies
  BY <1>1 DEF Locals, Running, Functions
<1>5. PICK k \in Companies : k = scope[r]
  BY <1>4
<1> QED BY <1>1, <1>2, <1>3, <1>5 DEF Stored!Open

LEMMA PersistAdds ==
  ASSUME IInv, NEW r \in Requests, Persist(r)
  PROVE  \E c \in Requests : Stored!Add(c, r)
<1> USE DEF IInv
<1>1. /\ pc[r] = "answered" /\ conv[thread[r]] # None
      /\ turns' = [turns EXCEPT ![thread[r]] = @ \cup {r}]
      /\ stored' = stored \cup {r}
      /\ companies' = companies /\ company' = company /\ conv' = conv
  BY DEF Persist, CanPersist, staffVars
<1>2. thread[r] # None /\ thread[r] \in Requests /\ r \notin stored
  BY <1>1 DEF Locals, Functions
<1>3. conv[thread[r]] = [user |-> UserOf[r], company |-> scope[r]]
  BY <1>1, <1>2 DEF Conversations
<1>4. PICK c \in Requests : c = thread[r]
  BY <1>2
<1>5. conv[c] # None /\ conv[c].user = UserOf[r]
  BY <1>1, <1>3, <1>4
<1>6. turns' = [turns EXCEPT ![c] = @ \cup {r}]
  BY <1>1, <1>4
<1> QED BY <1>1, <1>2, <1>5, <1>6 DEF Stored!Add

LEMMA MoveUserMoves ==
  ASSUME NEW u \in Users, NEW c \in Companies, MoveUser(u, c)
  PROVE  Stored!Move(u, c)
<1>1. Home[u] # None
  BY ChatAssumption
<1> QED BY <1>1 DEF MoveUser, Stored!Move

LEMMA DeleteUserRemoves ==
  ASSUME NEW u \in Users, DeleteUser(u)
  PROVE  Stored!Remove(u)
BY DEF DeleteUser, Cascade, ConversationsOf, Stored!Remove, Stored!Drop

LEMMA DeleteCompanyCloses ==
  ASSUME NEW k \in Companies, DeleteCompany(k)
  PROVE  Stored!Close(k)
<1> DEFINE gone == {c \in Requests :
                      conv[c] # None /\ k \in {conv[c].company, company[conv[c].user]}}
<1>1. ConversationsIn(k) = gone
  BY DEF ConversationsIn
<1>2. /\ conv' = [c \in Requests |-> IF c \in gone THEN None ELSE conv[c]]
      /\ turns' = [c \in Requests |-> IF c \in gone THEN {} ELSE turns[c]]
      /\ stored' = stored
  BY <1>1 DEF DeleteCompany, Cascade
<1> QED BY <1>2 DEF DeleteCompany, Stored!Close, Stored!Drop

LEMMA NextStored ==
  ASSUME IInv, ScopeOfUser, [Next]_vars
  PROVE  [Stored!TranscriptsNext]_(Stored!transcriptVars)
<1>1. CASE \E u \in Users : DeleteUser(u)
  BY <1>1, DeleteUserRemoves DEF Stored!TranscriptsNext
<1>2. CASE \E u \in Users, c \in Companies : MoveUser(u, c)
  BY <1>2, MoveUserMoves DEF Stored!TranscriptsNext
<1>7. CASE \E k \in Companies : DeleteCompany(k)
  BY <1>7, DeleteCompanyCloses DEF Stored!TranscriptsNext
<1>3. CASE \E r \in Requests, c \in Requests \cup {None} : Guard(r, c)
  BY <1>3 DEF Guard, rowVars, staffVars, Stored!transcriptVars
<1>4. CASE \E r \in Requests : RequestStep(r)
  <2>1. PICK r \in Requests : RequestStep(r)
    BY <1>4
  <2>2. CASE NewConversation(r)
    BY <2>2, NewConversationOpens DEF Stored!TranscriptsNext
  <2>3. CASE Persist(r)
    BY <2>3, PersistAdds DEF Stored!TranscriptsNext
  <2>4. CASE ~NewConversation(r) /\ ~Persist(r)
    BY <2>1, <2>4, RowsStay DEF rowVars, staffVars, Stored!transcriptVars
  <2> QED BY <2>2, <2>3, <2>4
<1>5. CASE \E k \in Users \X Keys : KeyExpires(k)
  BY <1>5 DEF KeyExpires, rowVars, staffVars, Stored!transcriptVars
<1>6. CASE UNCHANGED vars
  BY <1>6 DEF vars, rowVars, staffVars, Stored!transcriptVars
<1> QED BY <1>1, <1>2, <1>3, <1>4, <1>5, <1>6, <1>7 DEF Next

\* Each request acts on the stored conversations like one step, whatever runs
\* beside it: it opens at most one conversation, in a company of its user, and
\* adds its turn at most once, to a conversation of its user that still exists.
THEOREM TranscriptsHold == Spec => TranscriptsImplemented
<1>1. Init => Stored!TranscriptsInit
  BY DEF Init, Stored!TranscriptsInit
<1> QED BY <1>1, NextStored, Invariance, ScopeInvariance, PTL
        DEF Spec, TranscriptsImplemented, Stored!TranscriptsSpec
=============================================================================
