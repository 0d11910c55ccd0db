---------------------------- MODULE CacheProofs ----------------------------
(***************************************************************************)
(* Theorems about ReadCache, for any number of rows, companies, readers    *)
(* and writers, any set of cached keys, any lifetime and any failures.     *)
(***************************************************************************)
EXTENDS ReadCache, TLAPS

LEMMA Bounds == TTL \in Nat /\ TTL >= 1 /\ MaxDelay \in Nat /\ SinceBound \in Nat
                /\ SinceBound > TTL + MaxDelay
BY CacheAssumption DEF SinceBound

-----------------------------------------------------------------------------
(* Keys and the rows they show *)

\* Which rows the keys of each kind show, one kind at a time.
LEMMA Shows ==
  /\ \A d : DependsOn(Document(d)) = {d}
  /\ \A v : DependsOn(Messages(v)) = {v}
  /\ DependsOn(AllList) = Documents
  /\ \A c : DependsOn(AdminList(c)) = {d \in Documents : OwnerOf[d] = c}
  /\ \A c : DependsOn(CompanyList(c)) = {d \in Documents : OwnerOf[d] = c}
  /\ \A c : DependsOn(Vector(c)) = {d \in Documents : OwnerOf[d] = c}
  /\ \A u : DependsOn(ConversationList(u)) = {v \in Conversations : OwnerOf[v] = u}
<1>1. \A d : DependsOn(Document(d)) = {d}
  BY DEF DependsOn, Document
<1>2. \A v : DependsOn(Messages(v)) = {v}
  BY DEF DependsOn, Messages
<1>3. DependsOn(AllList) = Documents
  BY DEF DependsOn, AllList
<1>4. \A c : DependsOn(AdminList(c)) = {d \in Documents : OwnerOf[d] = c}
  BY DEF DependsOn, AdminList
<1>5. \A c : DependsOn(CompanyList(c)) = {d \in Documents : OwnerOf[d] = c}
  BY DEF DependsOn, CompanyList
<1>6. \A c : DependsOn(Vector(c)) = {d \in Documents : OwnerOf[d] = c}
  BY DEF DependsOn, Vector
<1>7. \A u : DependsOn(ConversationList(u)) = {v \in Conversations : OwnerOf[v] = u}
  BY DEF DependsOn, ConversationList
<1> QED BY <1>1, <1>2, <1>3, <1>4, <1>5, <1>6, <1>7

\* A key is of one of these kinds.
LEMMA KeyKinds ==
  ASSUME NEW k \in AllKeys
  PROVE  \/ k = AllList
         \/ \E d \in Documents : k = Document(d)
         \/ \E v \in Conversations : k = Messages(v)
         \/ \E c \in Owners : k \in {AdminList(c), CompanyList(c), Vector(c)}
         \/ \E u \in Owners : k = ConversationList(u)
BY DEF AllKeys

LEMMA RowsAreItems ==
  ASSUME NEW k \in AllKeys
  PROVE  DependsOn(k) \subseteq Items
<1>1. CASE k = AllList
  BY <1>1, Shows DEF Items
<1>2. CASE \E d \in Documents : k = Document(d)
  BY <1>2, Shows DEF Items
<1>3. CASE \E v \in Conversations : k = Messages(v)
  BY <1>3, Shows DEF Items
<1>4. CASE \E c \in Owners : k \in {AdminList(c), CompanyList(c), Vector(c)}
  BY <1>4, Shows DEF Items
<1>5. CASE \E u \in Owners : k = ConversationList(u)
  BY <1>5, Shows DEF Items
<1> QED BY <1>1, <1>2, <1>3, <1>4, <1>5, KeyKinds

\* The prefixes a writer deletes are keys.
LEMMA PrefixesAreKeys ==
  ASSUME NEW i \in Items
  PROVE  Prefixes(i) \in Seq(AllKeys)
<1>1. OwnerOf[i] \in Owners
  BY DEF Owners
<1>2. CASE i \in Conversations
  <2>1. ConversationList(OwnerOf[i]) \in AllKeys /\ Messages(i) \in AllKeys
    BY <1>1, <1>2 DEF AllKeys
  <2>2. Prefixes(i) = <<ConversationList(OwnerOf[i]), Messages(i)>>
    BY <1>2 DEF Prefixes
  <2> QED BY <2>1, <2>2
<1>3. CASE i \notin Conversations
  <2>1. i \in Documents
    BY <1>3 DEF Items
  <2>2. /\ AdminList(OwnerOf[i]) \in AllKeys /\ CompanyList(OwnerOf[i]) \in AllKeys
        /\ Vector(OwnerOf[i]) \in AllKeys
    BY <1>1, Zenon DEF AllKeys
  <2>3. AllList \in AllKeys /\ Document(i) \in AllKeys
    BY <2>1, Zenon DEF AllKeys
  <2>4. Prefixes(i) = <<AdminList(OwnerOf[i]), CompanyList(OwnerOf[i]), Vector(OwnerOf[i]),
                        AllList, Document(i)>>
    BY <1>3 DEF Prefixes
  <2> QED BY <2>2, <2>3, <2>4
<1> QED BY <1>2, <1>3

\* They cover every key that shows the row.
LEMMA PrefixesCover ==
  ASSUME NEW k \in AllKeys, NEW i \in DependsOn(k)
  PROVE  \E n \in DOMAIN Prefixes(i) : Prefixes(i)[n] = k
<1>1. ASSUME i \in Documents,
             k \in {AdminList(OwnerOf[i]), CompanyList(OwnerOf[i]), Vector(OwnerOf[i]),
                    AllList, Document(i)}
      PROVE  \E n \in DOMAIN Prefixes(i) : Prefixes(i)[n] = k
  <2> DEFINE s == <<AdminList(OwnerOf[i]), CompanyList(OwnerOf[i]), Vector(OwnerOf[i]),
                    AllList, Document(i)>>
  <2>1. Prefixes(i) = s
    BY <1>1, CacheAssumption DEF Prefixes
  <2>2. /\ DOMAIN s = 1..5
        /\ s[1] = AdminList(OwnerOf[i]) /\ s[2] = CompanyList(OwnerOf[i])
        /\ s[3] = Vector(OwnerOf[i]) /\ s[4] = AllList /\ s[5] = Document(i)
    OBVIOUS
  <2> HIDE DEF s
  <2> QED BY <1>1, <2>1, <2>2
<1>2. ASSUME i \in Conversations, k \in {ConversationList(OwnerOf[i]), Messages(i)}
      PROVE  \E n \in DOMAIN Prefixes(i) : Prefixes(i)[n] = k
  <2> DEFINE s == <<ConversationList(OwnerOf[i]), Messages(i)>>
  <2>1. Prefixes(i) = s
    BY <1>2 DEF Prefixes
  <2>2. DOMAIN s = 1..2 /\ s[1] = ConversationList(OwnerOf[i]) /\ s[2] = Messages(i)
    OBVIOUS
  <2> HIDE DEF s
  <2> QED BY <1>2, <2>1, <2>2
<1>3. CASE k = AllList
  BY <1>1, <1>3, Shows
<1>4. CASE \E d \in Documents : k = Document(d)
  BY <1>1, <1>4, Shows
<1>5. CASE \E v \in Conversations : k = Messages(v)
  BY <1>2, <1>5, Shows
<1>6. CASE \E c \in Owners : k \in {AdminList(c), CompanyList(c), Vector(c)}
  BY <1>1, <1>6, Shows
<1>7. CASE \E u \in Owners : k = ConversationList(u)
  BY <1>2, <1>7, Shows
<1> QED BY <1>3, <1>4, <1>5, <1>6, <1>7, KeyKinds

\* Whatever a reader may ask for is shown within the own scope.
LEMMA ShownDocuments ==
  ASSUME NEW r \in Readers, NEW k \in AllKeys, MayAsk(r, k),
         ReaderRole[r] # "super_admin", NEW d \in Shown(r, k) \cap Documents
  PROVE  OwnerOf[d] = HomeOf[r]
<1>0. Shown(r, k) \subseteq DependsOn(k)
  BY RowsAreItems DEF Shown
<1>1. CASE k = AllList
  BY <1>1 DEF AllList, MayAsk
<1>2. ASSUME NEW e \in Documents, k = Document(e) PROVE OwnerOf[d] = HomeOf[r]
  <2>1. d = e
    BY <1>0, <1>2, Shows
  <2>2. k[1] = "docs_get" /\ k[2] = e
    BY <1>2 DEF Document
  <2>3. ReaderRole[r] = "admin"
    BY <2>2, CacheAssumption DEF MayAsk
  <2> QED BY <2>1, <2>2, <2>3 DEF Shown
<1>3. CASE \E v \in Conversations : k = Messages(v)
  BY <1>0, <1>3, Shows, CacheAssumption
<1>4. ASSUME NEW c \in Owners, k \in {AdminList(c), CompanyList(c), Vector(c)}
      PROVE  OwnerOf[d] = HomeOf[r]
  <2>1. OwnerOf[d] = c
    BY <1>0, <1>4, Shows
  <2>2. c = HomeOf[r]
    <3>1. CASE k = AdminList(c)
      BY <3>1 DEF AdminList, MayAsk
    <3>2. CASE k = CompanyList(c)
      BY <3>2 DEF CompanyList, MayAsk
    <3>3. CASE k = Vector(c)
      BY <3>3 DEF Vector, MayAsk
    <3> QED BY <1>4, <3>1, <3>2, <3>3
  <2> QED BY <2>1, <2>2
<1>5. CASE \E u \in Owners : k = ConversationList(u)
  BY <1>0, <1>5, Shows, CacheAssumption
<1> QED BY <1>1, <1>2, <1>3, <1>4, <1>5, KeyKinds

LEMMA ShownConversations ==
  ASSUME NEW r \in Readers, NEW k \in AllKeys, MayAsk(r, k),
         NEW v \in Shown(r, k) \cap Conversations
  PROVE  OwnerOf[v] = UserOf[r]
<1>0. Shown(r, k) \subseteq DependsOn(k) /\ v \notin Documents
  BY RowsAreItems, CacheAssumption DEF Shown
<1>1. CASE k = AllList
  BY <1>0, <1>1, Shows
<1>2. CASE \E e \in Documents : k = Document(e)
  BY <1>0, <1>2, Shows
<1>3. ASSUME NEW w \in Conversations, k = Messages(w)
      PROVE  OwnerOf[v] = UserOf[r]
  <2>1. v = w
    BY <1>0, <1>3, Shows
  <2>2. OwnerOf[w] = UserOf[r]
    BY <1>3 DEF Messages, MayAsk
  <2> QED BY <2>1, <2>2
<1>4. CASE \E c \in Owners : k \in {AdminList(c), CompanyList(c), Vector(c)}
  BY <1>0, <1>4, Shows
<1>5. ASSUME NEW u \in Owners, k = ConversationList(u)
      PROVE  OwnerOf[v] = UserOf[r]
  <2>1. OwnerOf[v] = u
    BY <1>0, <1>5, Shows
  <2>2. u = UserOf[r]
    BY <1>5 DEF ConversationList, MayAsk
  <2> QED BY <2>1, <2>2
<1> QED BY <1>1, <1>2, <1>3, <1>4, <1>5, KeyKinds

LEMMA ShownInScope ==
  ASSUME NEW r \in Readers, NEW k \in AllKeys, MayAsk(r, k)
  PROVE  Shown(r, k) \subseteq Items /\ OwnScope(r, Shown(r, k))
<1>1. Shown(r, k) \subseteq Items
  BY RowsAreItems DEF Shown
<1> QED BY <1>1, ShownDocuments, ShownConversations DEF OwnScope

\* What is behind the first element of a sequence stays in its tail.
LEMMA TailKeeps ==
  ASSUME NEW S, NEW s \in Seq(S), NEW n \in DOMAIN s, s[n] # Head(s)
  PROVE  \E m \in DOMAIN Tail(s) : Tail(s)[m] = s[n]
<1>1. s # <<>> /\ n \in 1..Len(s) /\ n # 1
  OBVIOUS
<1>2. n - 1 \in DOMAIN Tail(s) /\ Tail(s)[n - 1] = s[n]
  BY <1>1
<1> QED BY <1>2
-----------------------------------------------------------------------------
(* The invariant *)

\* The writers that still have to delete k because they have changed i.
Owed(k, i) == \E w \in Writers : item[w] = i /\ \E n \in DOMAIN todo[w] : todo[w][n] = k

\* An entry has some lifetime left; the age of what it hides and the lifetime
\* add up to a lifetime and the delay of the reader that has set it.
EntryInv(k) ==
  entry[k] # None =>
    /\ entry[k] \in SnapshotOf(k)
    /\ entry[k].left > 0
    /\ entry[k].since + entry[k].left <= TTL + MaxDelay
    /\ \A i \in entry[k].stale \ entry[k].excused : Owed(k, i)

\* A reader has a snapshot of the key it asked for from its read to its
\* reply; until it sets it, the snapshot is not behind for longer than that.
ReaderInv(r) ==
  /\ reader[r] \in {"idle", "read", "set", "reply"}
  /\ key[r] \in CachedKeys \cup {None}
  /\ reader[r] \in {"idle", "read"} => seen[r] = None /\ waited[r] = 0
  /\ reader[r] \in {"read", "set"} => key[r] \in CachedKeys /\ MayAsk(r, key[r])
  /\ reader[r] = "set" =>
       /\ seen[r] \in SnapshotOf(key[r])
       /\ seen[r].left = TTL /\ seen[r].since <= waited[r]
  /\ seen[r] # None => seen[r] \in SnapshotOf(key[r])
  /\ served[r] \in SUBSET Items
  /\ OwnScope(r, served[r])

WriterInv(w) ==
  /\ found[w] => todo[w] # <<>>
  /\ todo[w] # <<>> => item[w] # None

Functions ==
  /\ entry = [k \in CachedKeys |-> entry[k]]
  /\ seen = [r \in Readers |-> seen[r]]
  /\ reader \in [Readers -> {"idle", "read", "set", "reply"}]
  /\ key \in [Readers -> CachedKeys \cup {None}]
  /\ waited \in [Readers -> 0..MaxDelay]
  /\ served \in [Readers -> SUBSET Items]
  /\ item \in [Writers -> Items \cup {None}]
  /\ todo \in [Writers -> Seq(AllKeys)]
  /\ found \in [Writers -> BOOLEAN]

CacheInv ==
  /\ Functions
  /\ \A k \in CachedKeys : EntryInv(k)
  /\ \A r \in Readers : ReaderInv(r)
  /\ \A w \in Writers : WriterInv(w)

LEMMA InitInv == Init => CacheInv
BY Bounds DEF Init, CacheInv, Functions, EntryInv, ReaderInv, WriterInv, OwnScope

-----------------------------------------------------------------------------
(* Snapshots *)

LEMMA FreshSnapshot ==
  ASSUME NEW k
  PROVE  /\ Snapshot \in SnapshotOf(k) /\ Snapshot.left = TTL /\ Snapshot.since = 0
BY Bounds DEF Snapshot, SnapshotOf

\* A snapshot falls behind without getting older.
LEMMA BehindSnapshot ==
  ASSUME NEW k, NEW s \in SnapshotOf(k), NEW i \in Items, NEW accepted \in BOOLEAN
  PROVE  /\ Behind(s, k, i, accepted) \in SnapshotOf(k)
         /\ Behind(s, k, i, accepted).left = s.left
         /\ Behind(s, k, i, accepted).since = s.since
         /\ accepted => Behind(s, k, i, accepted).stale \ Behind(s, k, i, accepted).excused
                          \subseteq s.stale \ s.excused
         /\ \A j \in Behind(s, k, i, accepted).stale \ Behind(s, k, i, accepted).excused :
              j \in s.stale \ s.excused \/ (j = i /\ i \in DependsOn(k))
<1>1. CASE s = None \/ i \notin DependsOn(k)
  BY <1>1 DEF Behind
<1>2. CASE s # None /\ i \in DependsOn(k)
  <2>1. Behind(s, k, i, accepted) =
          [left |-> s.left, stale |-> s.stale \cup {i},
           excused |-> IF accepted THEN s.excused \cup {i} ELSE s.excused,
           since |-> s.since]
    BY <1>2 DEF Behind, SnapshotOf
  <2>2. /\ s.left \in 0..TTL /\ s.stale \in SUBSET DependsOn(k)
        /\ s.excused \in SUBSET Items /\ s.since \in 0..SinceBound
    BY DEF SnapshotOf
  <2>3. Behind(s, k, i, accepted) \in SnapshotOf(k)
    BY <1>2, <2>1, <2>2 DEF SnapshotOf
  <2> QED BY <1>2, <2>1, <2>2, <2>3
<1> QED BY <1>1, <1>2

\* A tick makes it older by one at most.
LEMMA OlderSnapshot ==
  ASSUME NEW k, NEW s \in SnapshotOf(k)
  PROVE  /\ Older(s) \in SnapshotOf(k)
         /\ Older(s).left = s.left /\ Older(s).stale = s.stale
         /\ Older(s).excused = s.excused /\ Older(s).since <= s.since + 1
<1> USE Bounds
<1>0. /\ s.left \in 0..TTL /\ s.stale \in SUBSET DependsOn(k)
      /\ s.excused \in SUBSET Items /\ s.since \in 0..SinceBound
  BY DEF SnapshotOf
<1>1. CASE s = None \/ s.stale = {} \/ s.since = SinceBound
  BY <1>0, <1>1 DEF Older
<1>2. CASE ~(s = None \/ s.stale = {} \/ s.since = SinceBound)
  <2>1. Older(s) = [left |-> s.left, stale |-> s.stale, excused |-> s.excused,
                    since |-> s.since + 1]
    BY <1>2 DEF Older, SnapshotOf
  <2>2. s.since + 1 \in 0..SinceBound
    BY <1>0, <1>2
  <2> QED BY <1>0, <2>1, <2>2 DEF SnapshotOf
<1> QED BY <1>1, <1>2

-----------------------------------------------------------------------------
(* Steps of readers *)

\* A step of r changes nothing but the state of r.
LEMMA ReaderStepInv ==
  ASSUME CacheInv, NEW r \in Readers, UNCHANGED writerVars,
         Functions', ReaderInv(r)',
         \A q \in Readers \ {r} :
           /\ reader'[q] = reader[q] /\ key'[q] = key[q] /\ seen'[q] = seen[q]
           /\ waited'[q] = waited[q] /\ served'[q] = served[q],
         \A k \in CachedKeys : entry'[k] = entry[k] \/ EntryInv(k)'
  PROVE  CacheInv'
<1>1. ASSUME NEW k \in CachedKeys PROVE EntryInv(k)'
  <2>1. CASE entry'[k] = entry[k]
    BY <2>1 DEF CacheInv, EntryInv, Owed, writerVars
  <2> QED BY <2>1
<1>2. ASSUME NEW q \in Readers PROVE ReaderInv(q)'
  BY <1>2 DEF CacheInv, ReaderInv
<1>3. ASSUME NEW w \in Writers PROVE WriterInv(w)'
  BY <1>3 DEF CacheInv, WriterInv, writerVars
<1> QED BY <1>1, <1>2, <1>3 DEF CacheInv

LEMMA KeysAreKeys == CachedKeys \subseteq AllKeys
BY CacheAssumption

LEMMA HitInv ==
  ASSUME CacheInv, NEW r \in Readers, NEW k \in CachedKeys, Hit(r, k)
  PROVE  CacheInv'
<1>1. Shown(r, k) \subseteq Items /\ OwnScope(r, Shown(r, k))
  BY ShownInScope, KeysAreKeys DEF Hit
<1>2. Functions'
  BY <1>1 DEF Hit, CacheInv, Functions, writerVars
<1>3. /\ reader'[r] = "reply" /\ served'[r] = Shown(r, k) /\ key'[r] = key[r]
      /\ seen'[r] = seen[r] /\ waited'[r] = waited[r] /\ reader[r] = "idle"
  BY DEF Hit, CacheInv, Functions
<1>4. ReaderInv(r)'
  BY <1>1, <1>3 DEF CacheInv, ReaderInv
<1> QED BY <1>2, <1>4, ReaderStepInv DEF Hit, CacheInv, Functions

LEMMA MissInv ==
  ASSUME CacheInv, NEW r \in Readers, NEW k \in CachedKeys, Miss(r, k)
  PROVE  CacheInv'
<1>1. Functions'
  BY DEF Miss, CacheInv, Functions, writerVars
<1>2. /\ reader'[r] = "read" /\ key'[r] = k /\ served'[r] = served[r]
      /\ seen'[r] = seen[r] /\ waited'[r] = waited[r] /\ reader[r] = "idle" /\ MayAsk(r, k)
  BY DEF Miss, CacheInv, Functions
<1>3. ReaderInv(r)'
  BY <1>2 DEF CacheInv, ReaderInv
<1> QED BY <1>1, <1>3, ReaderStepInv DEF Miss, CacheInv, Functions

LEMMA ReadInv ==
  ASSUME CacheInv, NEW r \in Readers, Read(r)
  PROVE  CacheInv'
<1>1. /\ reader[r] = "read" /\ ReaderInv(r) /\ key[r] \in CachedKeys /\ MayAsk(r, key[r])
      /\ waited[r] = 0
  BY DEF Read, CacheInv, ReaderInv
<1>2. Shown(r, key[r]) \subseteq Items /\ OwnScope(r, Shown(r, key[r]))
  BY <1>1, ShownInScope, KeysAreKeys
<1>3. Functions'
  BY <1>2 DEF Read, CacheInv, Functions, writerVars
<1>4. /\ reader'[r] \in {"set", "reply"} /\ key'[r] = key[r] /\ served'[r] = Shown(r, key[r])
      /\ seen'[r] = Snapshot /\ waited'[r] = waited[r]
  BY DEF Read, CacheInv, Functions
<1>5. ReaderInv(r)'
  BY <1>1, <1>2, <1>4, FreshSnapshot DEF ReaderInv
<1> QED BY <1>3, <1>5, ReaderStepInv DEF Read, CacheInv, Functions

\* SETEX with a full lifetime, of a snapshot no older than the delay.
LEMMA SetInv ==
  ASSUME CacheInv, NEW r \in Readers, Set(r)
  PROVE  CacheInv'
<1>0. PICK k \in CachedKeys : k = key[r]
  BY DEF Set, CacheInv, ReaderInv
<1> DEFINE s == [seen[r] EXCEPT !.excused = seen[r].stale]
<1>1. /\ seen[r] \in SnapshotOf(k) /\ seen[r].left = TTL
      /\ seen[r].since <= waited[r] /\ waited[r] \in 0..MaxDelay /\ ReaderInv(r)
      /\ reader[r] = "set"
  BY <1>0 DEF Set, CacheInv, Functions, ReaderInv
<1>2. /\ entry' = [entry EXCEPT ![k] = s] /\ UNCHANGED <<key, seen, waited, served, writerVars>>
      /\ reader' = [reader EXCEPT ![r] = "reply"]
  BY <1>0 DEF Set
<1>3. Functions'
  BY <1>2 DEF CacheInv, Functions, writerVars
<1>4. /\ s \in SnapshotOf(k) /\ s.left = TTL /\ s.since = seen[r].since /\ s.stale = s.excused
  <2>1. /\ seen[r].stale \in SUBSET DependsOn(k) /\ DependsOn(k) \subseteq Items
        /\ seen[r].left \in 0..TTL /\ seen[r].since \in 0..SinceBound
    BY <1>1, RowsAreItems, KeysAreKeys DEF SnapshotOf
  <2>2. s = [left |-> seen[r].left, stale |-> seen[r].stale, excused |-> seen[r].stale,
             since |-> seen[r].since]
    BY <1>1 DEF SnapshotOf
  <2> QED BY <1>1, <2>1, <2>2 DEF SnapshotOf
<1> HIDE DEF s
<1>5. entry'[k] = s
  BY <1>1, <1>2 DEF CacheInv, Functions
<1>6. s.since \in Nat /\ s.since <= MaxDelay
  BY <1>1, <1>4, Bounds DEF SnapshotOf
<1>7. EntryInv(k)'
  BY <1>4, <1>5, <1>6, Bounds DEF EntryInv
<1>8. \A j \in CachedKeys : entry'[j] = entry[j] \/ EntryInv(j)'
  <2>1. \A j \in CachedKeys : j # k => entry'[j] = entry[j]
    BY <1>2 DEF CacheInv, Functions
  <2> QED BY <1>7, <2>1
<1>9. /\ reader'[r] = "reply" /\ key'[r] = key[r] /\ seen'[r] = seen[r]
      /\ waited'[r] = waited[r] /\ served'[r] = served[r]
  BY <1>2 DEF CacheInv, Functions
<1>10. ReaderInv(r)'
  BY <1>1, <1>9 DEF ReaderInv
<1> QED BY <1>2, <1>3, <1>8, <1>10, ReaderStepInv DEF CacheInv, Functions

LEMMA LeaveInv ==
  ASSUME CacheInv, NEW r \in Readers, SetFails(r) \/ Reply(r)
  PROVE  CacheInv'
<1>1. CASE SetFails(r)
  <2>1. Functions'
    BY <1>1 DEF SetFails, CacheInv, Functions, writerVars
  <2>2. ReaderInv(r)'
    BY <1>1 DEF SetFails, CacheInv, Functions, ReaderInv
  <2> QED BY <1>1, <2>1, <2>2, ReaderStepInv DEF SetFails, CacheInv, Functions
<1>2. CASE Reply(r)
  <2>1. Functions'
    <3>1. UNCHANGED <<entry, item, todo, found>> /\ Functions
      BY <1>2 DEF Reply, writerVars, CacheInv
    <3>2. /\ reader' \in [Readers -> {"idle", "read", "set", "reply"}]
          /\ key' \in [Readers -> CachedKeys \cup {None}]
      BY <1>2, <3>1 DEF Reply, Functions
    <3>3. served' \in [Readers -> SUBSET Items] /\ seen' = [q \in Readers |-> seen'[q]]
      BY <1>2, <3>1 DEF Reply, Functions
    <3>4. waited' \in [Readers -> 0..MaxDelay]
      BY <1>2, <3>1, Bounds DEF Reply, Functions
    <3> QED BY <3>1, <3>2, <3>3, <3>4 DEF Functions
  <2>2. ReaderInv(r)'
    <3>1. /\ reader'[r] = "idle" /\ key'[r] = None /\ seen'[r] = None /\ waited'[r] = 0
          /\ served'[r] = {}
      BY <1>2 DEF Reply, CacheInv, Functions
    <3> QED BY <3>1 DEF ReaderInv, OwnScope
  <2> QED BY <1>2, <2>1, <2>2, ReaderStepInv DEF Reply, CacheInv, Functions
<1> QED BY <1>1, <1>2
-----------------------------------------------------------------------------
(* Steps of writers *)

\* Entries and snapshots after a commit: they may be behind, but are not older.
LEMMA ChangedReaders ==
  ASSUME CacheInv, NEW i \in Items, NEW keys, NEW accepted \in BOOLEAN,
         Changed(i, keys, accepted), UNCHANGED <<reader, key, waited, served>>
  PROVE  /\ entry' = [k \in CachedKeys |-> entry'[k]]
         /\ seen' = [r \in Readers |-> seen'[r]]
         /\ \A r \in Readers : ReaderInv(r)'
<1>1. ASSUME NEW r \in Readers PROVE ReaderInv(r)'
  <2>1. ReaderInv(r)
    BY DEF CacheInv
  <2>2. CASE seen'[r] = seen[r]
    BY <2>1, <2>2 DEF ReaderInv
  <2>3. CASE seen'[r] # seen[r]
    <3>1. /\ seen'[r] = Behind(seen[r], key[r], i, FALSE) /\ seen[r] # None
          /\ seen[r] \in SnapshotOf(key[r])
      BY <2>1, <2>3 DEF Changed, ReaderInv
    <3> DEFINE s == seen[r]
               k == key[r]
               t == seen'[r]
    <3>2. PICK a \in BOOLEAN : t = Behind(s, k, i, a)
      BY <3>1, FALSE \in BOOLEAN, Zenon
    <3>3. s \in SnapshotOf(k)
      BY <3>1
    <3>4. t \in SnapshotOf(k) /\ t.left = s.left /\ t.since = s.since
      <4> HIDE DEF s, k, t
      <4> QED BY <3>2, <3>3, BehindSnapshot
    <3>5. /\ seen'[r] \in SnapshotOf(key[r])
          /\ seen'[r].left = seen[r].left /\ seen'[r].since = seen[r].since
      BY <3>4
    <3> QED BY <2>1, <3>1, <3>5 DEF ReaderInv
  <2> QED BY <2>2, <2>3
<1> QED BY <1>1 DEF Changed

\* One entry after it: what is newly hidden and not excused is the row written.
LEMMA ChangedEntry ==
  ASSUME CacheInv, NEW i \in Items, NEW keys, NEW accepted \in BOOLEAN,
         Changed(i, keys, accepted), NEW k \in CachedKeys, entry'[k] # None
  PROVE  /\ entry[k] # None /\ entry'[k] \in SnapshotOf(k)
         /\ entry'[k].left = entry[k].left /\ entry'[k].since = entry[k].since
         /\ \A j \in entry'[k].stale \ entry'[k].excused :
              \/ j \in entry[k].stale \ entry[k].excused
              \/ ~accepted /\ j = i /\ i \in DependsOn(k)
<1>1. CASE entry'[k] = entry[k]
  BY <1>1 DEF CacheInv, EntryInv
<1>2. CASE entry'[k] # entry[k]
  <2>1. entry'[k] = Behind(entry[k], k, i, accepted)
    BY <1>2 DEF Changed
  <2>2. entry[k] # None
    BY <2>1 DEF Behind
  <2>3. entry[k] \in SnapshotOf(k)
    BY <2>2 DEF CacheInv, EntryInv
  <2> QED BY <2>1, <2>2, <2>3, BehindSnapshot
<1> QED BY <1>1, <1>2

LEMMA CommitInv ==
  ASSUME CacheInv, NEW w \in Writers, NEW i \in Items, Commit(w, i)
  PROVE  CacheInv'
<1>1. /\ Changed(i, CachedKeys, FALSE) /\ item[w] = None
      /\ item' = [item EXCEPT ![w] = i] /\ todo' = [todo EXCEPT ![w] = Prefixes(i)]
      /\ UNCHANGED <<reader, key, waited, served, found>>
  BY DEF Commit
<1>2. Prefixes(i) \in Seq(AllKeys) /\ i # None
  BY PrefixesAreKeys, CacheAssumption
<1> HIDE DEF Prefixes
<1>3. Functions'
  BY <1>1, <1>2, ChangedReaders DEF CacheInv, Functions
<1>4. item'[w] = i /\ todo'[w] = Prefixes(i)
  BY <1>1 DEF CacheInv, Functions
<1>5. \A v \in Writers \ {w} : item'[v] = item[v] /\ todo'[v] = todo[v]
  BY <1>1 DEF CacheInv, Functions
<1>6. todo[w] = <<>>
  BY <1>1 DEF CacheInv, WriterInv
<1>7. ASSUME NEW v \in Writers PROVE WriterInv(v)'
  <2>1. CASE v = w
    <3>1. ~found[w]
      BY <1>6 DEF CacheInv, WriterInv
    <3> QED BY <1>1, <1>2, <1>4, <2>1, <3>1 DEF WriterInv
  <2>2. CASE v # w
    BY <1>1, <1>5, <2>2 DEF CacheInv, WriterInv
  <2> QED BY <2>1, <2>2
<1>8. ASSUME NEW k \in CachedKeys PROVE EntryInv(k)'
  <2> SUFFICES ASSUME entry'[k] # None PROVE EntryInv(k)'
    BY DEF EntryInv
  <2>1. /\ entry[k] # None /\ entry'[k] \in SnapshotOf(k)
        /\ entry'[k].left = entry[k].left /\ entry'[k].since = entry[k].since
        /\ \A j \in entry'[k].stale \ entry'[k].excused :
             j \in entry[k].stale \ entry[k].excused \/ (j = i /\ i \in DependsOn(k))
    <3>1. PICK a \in BOOLEAN : Changed(i, CachedKeys, a)
      BY <1>1, FALSE \in BOOLEAN, Zenon
    <3> QED BY <3>1, ChangedEntry
  <2>2. EntryInv(k)
    BY DEF CacheInv
  <2>3. ASSUME NEW j \in entry'[k].stale \ entry'[k].excused PROVE Owed(k, j)'
    <3>1. CASE j \in entry[k].stale \ entry[k].excused
      <4>1. PICK v \in Writers : item[v] = j /\ \E n \in DOMAIN todo[v] : todo[v][n] = k
        BY <2>1, <2>2, <3>1 DEF EntryInv, Owed
      <4>2. v # w
        BY <1>6, <4>1
      <4> QED BY <1>5, <4>1, <4>2 DEF Owed
    <3>2. CASE j = i /\ i \in DependsOn(k)
      BY <1>4, <3>2, PrefixesCover, KeysAreKeys DEF Owed
    <3> QED BY <2>1, <3>1, <3>2
  <2> QED BY <2>1, <2>2, <2>3 DEF EntryInv
<1> QED BY <1>1, <1>3, <1>7, <1>8, ChangedReaders DEF CacheInv

LEMMA QuietCommitInv ==
  ASSUME CacheInv, NEW i \in Items, QuietCommit(i)
  PROVE  CacheInv'
<1> DEFINE keys == IF i \in Documents THEN CachedKeys ELSE {ConversationList(OwnerOf[i])}
<1>1. Changed(i, keys, TRUE) /\ UNCHANGED <<reader, key, waited, served, item, todo, found>>
  BY DEF QuietCommit, writerVars
<1> HIDE DEF keys
<1>2. Functions'
  BY <1>1, ChangedReaders DEF CacheInv, Functions
<1>3. ASSUME NEW k \in CachedKeys PROVE EntryInv(k)'
  <2> SUFFICES ASSUME entry'[k] # None PROVE EntryInv(k)'
    BY DEF EntryInv
  <2>1. /\ entry[k] # None /\ entry'[k] \in SnapshotOf(k)
        /\ entry'[k].left = entry[k].left /\ entry'[k].since = entry[k].since
        /\ entry'[k].stale \ entry'[k].excused \subseteq entry[k].stale \ entry[k].excused
    BY <1>1, ChangedEntry
  <2>2. EntryInv(k)
    BY DEF CacheInv
  <2> QED BY <1>1, <2>1, <2>2 DEF EntryInv, Owed
<1>4. ASSUME NEW w \in Writers PROVE WriterInv(w)'
  BY <1>1 DEF CacheInv, WriterInv
<1> QED BY <1>1, <1>2, <1>3, <1>4, ChangedReaders DEF CacheInv

\* A writer that takes the first prefix off its list, once no entry of that
\* key hides its change without an excuse.
LEMMA PrefixDoneInv ==
  ASSUME CacheInv, NEW w \in Writers, todo[w] # <<>>,
         todo' = [todo EXCEPT ![w] = Tail(@)], UNCHANGED <<readerVars, item>>,
         found' \in [Writers -> BOOLEAN], ~found'[w],
         \A v \in Writers \ {w} : found'[v] = found[v],
         entry' = [k \in CachedKeys |-> entry'[k]],
         \A k \in CachedKeys : entry'[k] # None =>
           /\ entry[k] # None /\ entry'[k] \in SnapshotOf(k)
           /\ entry'[k].left = entry[k].left /\ entry'[k].since = entry[k].since
           /\ entry'[k].stale \ entry'[k].excused \subseteq entry[k].stale \ entry[k].excused
           /\ k = Head(todo[w]) => item[w] \notin entry'[k].stale \ entry'[k].excused
  PROVE  CacheInv'
<1>1. todo[w] \in Seq(AllKeys) /\ todo'[w] = Tail(todo[w])
  BY DEF CacheInv, Functions
<1>2. \A v \in Writers \ {w} : todo'[v] = todo[v]
  BY DEF CacheInv, Functions
<1>3. Functions'
  <2>1. Tail(todo[w]) \in Seq(AllKeys)
    BY <1>1
  <2> QED BY <2>1 DEF CacheInv, Functions, readerVars
<1>4. ASSUME NEW k \in CachedKeys PROVE EntryInv(k)'
  <2> SUFFICES ASSUME entry'[k] # None PROVE EntryInv(k)'
    BY DEF EntryInv
  <2>1. EntryInv(k) /\ entry[k] # None
    BY DEF CacheInv
  <2>2. ASSUME NEW j \in entry'[k].stale \ entry'[k].excused PROVE Owed(k, j)'
    <3>1. PICK v \in Writers : item[v] = j /\ \E n \in DOMAIN todo[v] : todo[v][n] = k
      BY <2>1 DEF EntryInv, Owed
    <3>2. CASE v = w
      <4>1. k # Head(todo[w])
        BY <3>1, <3>2
      <4>2. \E m \in DOMAIN todo'[w] : todo'[w][m] = k
        BY <1>1, <3>1, <3>2, <4>1, TailKeeps
      <4> QED BY <3>1, <3>2, <4>2 DEF Owed
    <3>3. CASE v # w
      BY <1>2, <3>1, <3>3 DEF Owed
    <3> QED BY <3>2, <3>3
  <2> QED BY <2>1, <2>2 DEF EntryInv
<1>5. ASSUME NEW r \in Readers PROVE ReaderInv(r)'
  BY <1>5 DEF CacheInv, ReaderInv, readerVars
<1>6. ASSUME NEW v \in Writers PROVE WriterInv(v)'
  <2>1. CASE v = w
    <3>1. item[w] # None
      BY DEF CacheInv, WriterInv
    <3> QED BY <2>1, <3>1 DEF WriterInv
  <2>2. CASE v # w
    BY <1>2, <2>2 DEF CacheInv, WriterInv
  <2> QED BY <2>1, <2>2
<1> QED BY <1>3, <1>4, <1>5, <1>6 DEF CacheInv

\* An entry that is there is a snapshot of its key.
LEMMA EntryIsSnapshot ==
  ASSUME CacheInv, NEW k \in CachedKeys, entry[k] # None
  PROVE  entry[k] \in SnapshotOf(k)
BY DEF CacheInv, EntryInv

LEMMA ScanInv ==
  ASSUME CacheInv, NEW w \in Writers, Scan(w)
  PROVE  CacheInv'
<1>0. todo[w] # <<>> /\ ~found[w] /\ UNCHANGED <<entry, readerVars, item>>
  BY DEF Scan
<1>1. CASE Head(todo[w]) \in CachedKeys /\ entry[Head(todo[w])] # None
  <2>1. found' = [found EXCEPT ![w] = TRUE] /\ todo' = todo
    BY <1>1 DEF Scan
  <2>2. Functions'
    BY <1>0, <2>1 DEF CacheInv, Functions, readerVars
  <2>3. \A k \in CachedKeys : EntryInv(k)'
    BY <1>0, <2>1 DEF CacheInv, EntryInv, Owed
  <2>4. \A r \in Readers : ReaderInv(r)'
    BY <1>0 DEF CacheInv, ReaderInv, readerVars
  <2>5. ASSUME NEW v \in Writers PROVE WriterInv(v)'
    <3>1. v # w => found'[v] = found[v]
      BY <2>1 DEF CacheInv, Functions
    <3> QED BY <1>0, <2>1, <3>1 DEF CacheInv, WriterInv
  <2> QED BY <2>2, <2>3, <2>4, <2>5 DEF CacheInv
<1>2. CASE ~(Head(todo[w]) \in CachedKeys /\ entry[Head(todo[w])] # None)
  <2>1. todo' = [todo EXCEPT ![w] = Tail(@)] /\ found' = found
    BY <1>2 DEF Scan
  <2>2. found \in [Writers -> BOOLEAN] /\ entry = [k \in CachedKeys |-> entry[k]]
    BY DEF CacheInv, Functions
  <2> QED BY <1>0, <1>2, <2>1, <2>2, EntryIsSnapshot, PrefixDoneInv
<1> QED BY <1>1, <1>2

LEMMA DeleteInv ==
  ASSUME CacheInv, NEW w \in Writers, Delete(w)
  PROVE  CacheInv'
<1>1. /\ found[w] /\ entry' = [entry EXCEPT ![Head(todo[w])] = None]
      /\ todo' = [todo EXCEPT ![w] = Tail(@)] /\ found' = [found EXCEPT ![w] = FALSE]
      /\ UNCHANGED <<readerVars, item>>
  BY DEF Delete
<1>2. todo[w] # <<>>
  BY <1>1 DEF CacheInv, WriterInv
<1>3. /\ found' \in [Writers -> BOOLEAN] /\ ~found'[w]
      /\ \A v \in Writers \ {w} : found'[v] = found[v]
  BY <1>1 DEF CacheInv, Functions
<1>4. /\ entry' = [k \in CachedKeys |-> entry'[k]]
      /\ \A k \in CachedKeys : entry'[k] # None => entry'[k] = entry[k] /\ k # Head(todo[w])
  BY <1>1 DEF CacheInv, Functions
<1> QED BY <1>1, <1>2, <1>3, <1>4, EntryIsSnapshot, PrefixDoneInv

\* What is missed is excused, and nothing else changes.
LEMMA MissedEntry ==
  ASSUME CacheInv, NEW w \in Writers, NEW keys, Missed(w, keys),
         NEW k \in CachedKeys, entry'[k] # None
  PROVE  /\ entry[k] # None /\ entry'[k] \in SnapshotOf(k)
         /\ entry'[k].left = entry[k].left /\ entry'[k].since = entry[k].since
         /\ entry'[k].stale \ entry'[k].excused \subseteq entry[k].stale \ entry[k].excused
         /\ k \in keys => item[w] \notin entry'[k].stale \ entry'[k].excused
<1>1. CASE k \in keys /\ entry[k] # None
  <2>1. entry[k] \in SnapshotOf(k) /\ DependsOn(k) \subseteq Items
    BY <1>1, EntryIsSnapshot, RowsAreItems, KeysAreKeys
  <2>2. entry'[k] = [left |-> entry[k].left, stale |-> entry[k].stale,
                     excused |-> entry[k].excused \cup (entry[k].stale \cap {item[w]}),
                     since |-> entry[k].since]
    BY <1>1, <2>1 DEF Missed, SnapshotOf
  <2>3. /\ entry[k].left \in 0..TTL /\ entry[k].stale \in SUBSET DependsOn(k)
        /\ entry[k].excused \in SUBSET Items /\ entry[k].since \in 0..SinceBound
    BY <2>1 DEF SnapshotOf
  <2>4. entry'[k] \in SnapshotOf(k)
    BY <2>1, <2>2, <2>3 DEF SnapshotOf
  <2> QED BY <1>1, <2>2, <2>3, <2>4
<1>2. CASE ~(k \in keys /\ entry[k] # None)
  <2>1. entry'[k] = entry[k]
    BY <1>2 DEF Missed
  <2> QED BY <1>2, <2>1, EntryIsSnapshot
<1> QED BY <1>1, <1>2

LEMMA DeleteFailsInv ==
  ASSUME CacheInv, NEW w \in Writers, DeleteFails(w)
  PROVE  CacheInv'
<1>1. /\ todo[w] # <<>> /\ Missed(w, {Head(todo[w])})
      /\ todo' = [todo EXCEPT ![w] = Tail(@)] /\ found' = [found EXCEPT ![w] = FALSE]
      /\ UNCHANGED <<readerVars, item>>
  BY DEF DeleteFails
<1>2. /\ found' \in [Writers -> BOOLEAN] /\ ~found'[w]
      /\ \A v \in Writers \ {w} : found'[v] = found[v]
  BY <1>1 DEF CacheInv, Functions
<1>3. entry' = [k \in CachedKeys |-> entry'[k]]
  BY <1>1 DEF Missed
<1>4. \A k \in CachedKeys : entry'[k] # None =>
        /\ entry[k] # None /\ entry'[k] \in SnapshotOf(k)
        /\ entry'[k].left = entry[k].left /\ entry'[k].since = entry[k].since
        /\ entry'[k].stale \ entry'[k].excused \subseteq entry[k].stale \ entry[k].excused
        /\ k \in {Head(todo[w])} => item[w] \notin entry'[k].stale \ entry'[k].excused
  BY <1>1, MissedEntry
<1> QED BY <1>1, <1>2, <1>3, <1>4, PrefixDoneInv

LEMMA WriterStopsInv ==
  ASSUME CacheInv, NEW w \in Writers, WriterStops(w)
  PROVE  CacheInv'
<1> DEFINE keys == {todo[w][n] : n \in DOMAIN todo[w]}
<1>1. /\ todo[w] # <<>> /\ Missed(w, keys)
      /\ todo' = [todo EXCEPT ![w] = <<>>] /\ found' = [found EXCEPT ![w] = FALSE]
      /\ UNCHANGED <<readerVars, item>>
  BY DEF WriterStops
<1>2. Functions'
  BY <1>1 DEF CacheInv, Functions, readerVars, Missed
<1>3. \A v \in Writers \ {w} : todo'[v] = todo[v] /\ found'[v] = found[v]
  BY <1>1 DEF CacheInv, Functions
<1>4. todo'[w] = <<>> /\ ~found'[w]
  BY <1>1 DEF CacheInv, Functions
<1>5. ASSUME NEW k \in CachedKeys PROVE EntryInv(k)'
  <2> SUFFICES ASSUME entry'[k] # None PROVE EntryInv(k)'
    BY DEF EntryInv
  <2>1. /\ entry[k] # None /\ entry'[k] \in SnapshotOf(k)
        /\ entry'[k].left = entry[k].left /\ entry'[k].since = entry[k].since
        /\ entry'[k].stale \ entry'[k].excused \subseteq entry[k].stale \ entry[k].excused
        /\ k \in keys => item[w] \notin entry'[k].stale \ entry'[k].excused
    <3> HIDE DEF keys
    <3> QED BY <1>1, MissedEntry
  <2>2. EntryInv(k)
    BY DEF CacheInv
  <2>3. ASSUME NEW j \in entry'[k].stale \ entry'[k].excused PROVE Owed(k, j)'
    <3>1. PICK v \in Writers : item[v] = j /\ \E n \in DOMAIN todo[v] : todo[v][n] = k
      BY <2>1, <2>2 DEF EntryInv, Owed
    <3>2. v # w
      BY <2>1, <3>1
    <3> QED BY <1>1, <1>3, <3>1, <3>2 DEF Owed
  <2> QED BY <2>1, <2>2, <2>3 DEF EntryInv
<1>6. ASSUME NEW r \in Readers PROVE ReaderInv(r)'
  BY <1>1 DEF CacheInv, ReaderInv, readerVars
<1>7. ASSUME NEW v \in Writers PROVE WriterInv(v)'
  BY <1>1, <1>3, <1>4 DEF CacheInv, WriterInv
<1> QED BY <1>2, <1>5, <1>6, <1>7 DEF CacheInv

LEMMA WriterDoneInv ==
  ASSUME CacheInv, NEW w \in Writers, WriterDone(w)
  PROVE  CacheInv'
<1>1. /\ todo[w] = <<>> /\ item' = [item EXCEPT ![w] = None]
      /\ UNCHANGED <<entry, readerVars, todo, found>>
  BY DEF WriterDone
<1>2. Functions'
  BY <1>1 DEF CacheInv, Functions, readerVars
<1>3. \A v \in Writers \ {w} : item'[v] = item[v]
  BY <1>1 DEF CacheInv, Functions
<1>4. ASSUME NEW k \in CachedKeys PROVE EntryInv(k)'
  <2>1. ASSUME NEW j, Owed(k, j) PROVE Owed(k, j)'
    BY <1>1, <1>3, <2>1 DEF Owed
  <2> QED BY <1>1, <2>1 DEF CacheInv, EntryInv
<1>5. \A r \in Readers : ReaderInv(r)'
  BY <1>1 DEF CacheInv, ReaderInv, readerVars
<1>6. ASSUME NEW v \in Writers PROVE WriterInv(v)'
  BY <1>1, <1>3 DEF CacheInv, WriterInv
<1> QED BY <1>2, <1>4, <1>5, <1>6 DEF CacheInv
-----------------------------------------------------------------------------
(* The clock *)

LEMMA TickInv ==
  ASSUME CacheInv, Tick
  PROVE  CacheInv'
<1> USE Bounds
<1>1. /\ \A r \in Readers : reader[r] = "set" => waited[r] < MaxDelay
      /\ entry' = [k \in CachedKeys |->
           IF entry[k] = None \/ entry[k].left = 1 THEN None
           ELSE [Older(entry[k]) EXCEPT !.left = IF @ = 0 THEN 0 ELSE @ - 1]]
      /\ seen' = [r \in Readers |-> Older(seen[r])]
      /\ waited' = [r \in Readers |->
           IF reader[r] = "set" THEN waited[r] + 1 ELSE waited[r]]
      /\ UNCHANGED <<reader, key, served, item, todo, found>>
  BY DEF Tick, writerVars
<1>2. ASSUME NEW r \in Readers PROVE waited'[r] \in 0..MaxDelay /\ ReaderInv(r)'
  <2>1. ReaderInv(r) /\ waited[r] \in 0..MaxDelay
    BY DEF CacheInv, Functions
  <2>2. /\ seen'[r] = Older(seen[r])
        /\ waited'[r] = IF reader[r] = "set" THEN waited[r] + 1 ELSE waited[r]
        /\ reader'[r] = reader[r] /\ key'[r] = key[r] /\ served'[r] = served[r]
    BY <1>1
  <2>3. waited'[r] \in 0..MaxDelay
    BY <1>1, <2>1, <2>2
  <2>4. seen[r] = None => seen'[r] = None
    BY <2>2 DEF Older
  <2>5. ASSUME seen[r] \in SnapshotOf(key[r])
        PROVE  /\ seen'[r] \in SnapshotOf(key[r]) /\ seen'[r].left = seen[r].left
               /\ seen'[r].since <= seen[r].since + 1
    BY <2>2, <2>5, OlderSnapshot
  <2>6. seen'[r] # None => seen'[r] \in SnapshotOf(key[r])
    BY <2>1, <2>4, <2>5 DEF ReaderInv
  <2>7. reader[r] = "set" =>
          /\ seen'[r] \in SnapshotOf(key[r])
          /\ seen'[r].left = TTL /\ seen'[r].since <= waited'[r]
    <3> SUFFICES ASSUME reader[r] = "set"
                 PROVE  /\ seen'[r] \in SnapshotOf(key[r])
                        /\ seen'[r].left = TTL /\ seen'[r].since <= waited'[r]
      OBVIOUS
    <3>1. seen[r] \in SnapshotOf(key[r]) /\ seen[r].left = TTL /\ seen[r].since <= waited[r]
      BY <2>1 DEF ReaderInv
    <3>2. seen[r].since \in Nat /\ seen'[r].since \in Nat
      BY <2>5, <3>1 DEF SnapshotOf
    <3> QED BY <2>1, <2>2, <2>5, <3>1, <3>2
  <2> QED BY <2>1, <2>2, <2>3, <2>4, <2>6, <2>7 DEF ReaderInv
<1>3. ASSUME NEW k \in CachedKeys PROVE EntryInv(k)'
  <2> SUFFICES ASSUME entry'[k] # None PROVE EntryInv(k)'
    BY DEF EntryInv
  <2>1. /\ entry[k] # None /\ entry[k].left # 1
        /\ entry'[k] = [Older(entry[k]) EXCEPT !.left = IF @ = 0 THEN 0 ELSE @ - 1]
    BY <1>1
  <2>2. /\ entry[k] \in SnapshotOf(k) /\ entry[k].left > 0
        /\ entry[k].since + entry[k].left <= TTL + MaxDelay
        /\ \A i \in entry[k].stale \ entry[k].excused : Owed(k, i)
    BY <2>1 DEF CacheInv, EntryInv
  <2> DEFINE s == Older(entry[k])
  <2>3. /\ s \in SnapshotOf(k) /\ s.left = entry[k].left /\ s.stale = entry[k].stale
        /\ s.excused = entry[k].excused /\ s.since <= entry[k].since + 1
    BY <2>2, OlderSnapshot
  <2>4. entry'[k] = [s EXCEPT !.left = IF @ = 0 THEN 0 ELSE @ - 1]
    BY <2>1
  <2> HIDE DEF s
  <2>5. /\ s.left \in 0..TTL /\ s.stale \in SUBSET DependsOn(k)
        /\ s.excused \in SUBSET Items /\ s.since \in 0..SinceBound
        /\ entry[k].left \in 0..TTL /\ entry[k].since \in 0..SinceBound
    BY <2>2, <2>3 DEF SnapshotOf
  <2>6. entry'[k] = [left |-> s.left - 1, stale |-> s.stale, excused |-> s.excused,
                     since |-> s.since]
    BY <2>2, <2>3, <2>4, <2>5 DEF SnapshotOf
  <2>7. entry'[k] \in SnapshotOf(k) /\ entry'[k].left > 0
        /\ entry'[k].since + entry'[k].left <= TTL + MaxDelay
    BY <2>1, <2>2, <2>3, <2>5, <2>6 DEF SnapshotOf
  <2>8. \A i \in entry'[k].stale \ entry'[k].excused : Owed(k, i)'
    BY <1>1, <2>2, <2>3, <2>6 DEF Owed
  <2> QED BY <2>7, <2>8 DEF EntryInv
<1>4. \A w \in Writers : WriterInv(w)'
  BY <1>1 DEF CacheInv, WriterInv
<1>5. Functions'
  <2>1. waited' \in [Readers -> 0..MaxDelay]
    BY <1>1, <1>2
  <2> QED BY <1>1, <2>1 DEF CacheInv, Functions
<1> QED BY <1>2, <1>3, <1>4, <1>5 DEF CacheInv

-----------------------------------------------------------------------------
(* The theorems *)

LEMMA NextInv ==
  ASSUME CacheInv, [Next]_vars
  PROVE  CacheInv'
<1>1. CASE UNCHANGED vars
  BY <1>1
     DEF CacheInv, Functions, EntryInv, ReaderInv, WriterInv, Owed, vars, readerVars, writerVars
<1>2. ASSUME NEW r \in Readers, NEW k \in CachedKeys, Hit(r, k) \/ Miss(r, k)
      PROVE  CacheInv'
  BY <1>2, HitInv, MissInv
<1>3. ASSUME NEW r \in Readers, Read(r) \/ Set(r) \/ SetFails(r) \/ Reply(r)
      PROVE  CacheInv'
  BY <1>3, ReadInv, SetInv, LeaveInv
<1>4. ASSUME NEW i \in Items, QuietCommit(i) \/ \E w \in Writers : Commit(w, i)
      PROVE  CacheInv'
  BY <1>4, CommitInv, QuietCommitInv
<1>5. ASSUME NEW w \in Writers,
             Scan(w) \/ Delete(w) \/ DeleteFails(w) \/ WriterStops(w) \/ WriterDone(w)
      PROVE  CacheInv'
  BY <1>5, ScanInv, DeleteInv, DeleteFailsInv, WriterStopsInv, WriterDoneInv
<1> QED BY <1>1, <1>2, <1>3, <1>4, <1>5, TickInv DEF Next

LEMMA CacheInvHolds == Spec => []CacheInv
BY InitInv, NextInv, PTL DEF Spec

\* Every variable keeps its type; a snapshot shows or hides rows of its key.
THEOREM TypeCorrect == Spec => []TypeOK
<1>1. CacheInv => TypeOK
  BY DEF CacheInv, Functions, EntryInv, ReaderInv, WriterInv, TypeOK
<1> QED BY <1>1, CacheInvHolds, PTL

\* No entry hides a change as long as its lifetime and the delay of the reader
\* that set it together, whatever the writer's deletions did.
THEOREM StalenessBounded == Spec => []BoundedStaleness
<1>1. CacheInv => BoundedStaleness
  <2> SUFFICES ASSUME CacheInv, NEW k \in CachedKeys, entry[k] # None
               PROVE  entry[k].since < TTL + MaxDelay
    BY DEF BoundedStaleness
  <2>1. /\ entry[k] \in SnapshotOf(k) /\ entry[k].left > 0
        /\ entry[k].since + entry[k].left <= TTL + MaxDelay
    BY DEF CacheInv, EntryInv
  <2>2. entry[k].left \in Nat /\ entry[k].since \in Nat
    BY <2>1 DEF SnapshotOf
  <2> QED BY <2>1, <2>2, Bounds
<1> QED BY <1>1, CacheInvHolds, PTL

\* The prefixes deleted after a write cover every key that shows the row: an
\* entry that hides a change is still to be deleted, or there is an excuse.
THEOREM StaleIfExcused == Spec => []StaleOnlyIfExcused
<1>1. CacheInv => StaleOnlyIfExcused
  BY DEF CacheInv, EntryInv, Owed, StaleOnlyIfExcused
<1> QED BY <1>1, CacheInvHolds, PTL

\* Sharing entries between readers shows nobody but a super admin a document of
\* another company, and nobody a conversation of another user.
THEOREM ServedWithinScope == Spec => []ServedInScope
<1>1. CacheInv => ServedInScope
  BY DEF CacheInv, ReaderInv, ServedInScope
<1> QED BY <1>1, CacheInvHolds, PTL
=============================================================================
