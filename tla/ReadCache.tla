----------------------------- MODULE ReadCache -----------------------------
(***************************************************************************)
(* The read-through caches in Redis: document lists, single documents,     *)
(* search results, conversation lists and messages.  A reader gets the     *)
(* entry, else reads the database and then sets it with a lifetime; a      *)
(* writer commits and then deletes the entries prefix by prefix, each with *)
(* a SCAN and a DELETE.  Nothing orders the steps of readers and writers.  *)
(*                                                                         *)
(* Rows are known by the document or conversation they belong to.  An      *)
(* entry holds the ticks it has left, the changed rows it does not show    *)
(* (stale), the ticks since the first of these changes, and the rows whose *)
(* staleness the design accepts (excused).                                 *)
(*                                                                         *)
(* Users and documents keep their companies here, so that what a reader    *)
(* may ask for and see is a matter of constants; a user who moves in the   *)
(* middle is ChatTurns.  A reader may ask for a row that is gone and cache *)
(* it, and for the messages of a conversation of a former company: both    *)
(* only add behaviours (the code answers 404).                             *)
(***************************************************************************)
EXTENDS Naturals, Sequences

CONSTANTS
  Documents,
  Conversations,
  OwnerOf,      \* the company of a document, the user of a conversation
  Readers,      \* the handlers that may read at the same time
  Writers,      \* the handlers and workers that may write at the same time
  ReaderRole,   \* "super_admin", "admin" or "employee"
  HomeOf,       \* the company of a reader, None for a super admin
  UserOf,       \* the user a reader is
  CachedKeys,   \* the keys that are read
  TTL,          \* the lifetime of an entry, in ticks
  MaxDelay,     \* bound on the ticks between a read and the set
  Faults,       \* the kinds of failure that may occur
  None

FaultKinds == {"redis", "stop"}

Items == Documents \cup Conversations
Owners == {OwnerOf[i] : i \in Items}

AdminList(c) == <<"docs_list_admin", c>>
CompanyList(c) == <<"docs_list_superadmin_company", c>>
AllList == <<"docs_list_superadmin_all", "all">>
Document(d) == <<"docs_get", d>>
Vector(c) == <<"vector", c>>
\* The code's key names the user's company too, which is constant here.
ConversationList(u) == <<"chat_conversations", u>>
Messages(v) == <<"chat_messages", v>>

AllKeys ==
  {AllList} \cup {Document(d) : d \in Documents} \cup {Messages(v) : v \in Conversations}
  \cup {ConversationList(u) : u \in Owners}
  \cup UNION {{AdminList(c), CompanyList(c), Vector(c)} : c \in Owners}

ASSUME CacheAssumption ==
  /\ CachedKeys \subseteq AllKeys /\ Documents \cap Conversations = {}
  /\ None \notin Items
  /\ ReaderRole \in [Readers -> {"super_admin", "admin", "employee"}]
  /\ TTL \in Nat \ {0} /\ MaxDelay \in Nat
  /\ Faults \subseteq FaultKinds

VARIABLES
  entry,   \* the Redis entries
  reader,  \* where a reader is
  key,     \* the key it reads
  seen,    \* what it has read, with the bookkeeping of an entry
  waited,  \* the ticks since it has read
  served,  \* the rows it answers with
  item,    \* the row a writer has changed
  todo,    \* the prefixes it has to delete
  found    \* the SCAN of the first of them has found an entry

readerVars == <<reader, key, seen, waited, served>>
writerVars == <<item, todo, found>>
vars == <<entry, readerVars, writerVars>>

Snapshot == [left |-> TTL, stale |-> {}, excused |-> {}, since |-> 0]
SinceBound == TTL + MaxDelay + 1

Init ==
  /\ entry = [k \in CachedKeys |-> None]
  /\ reader = [r \in Readers |-> "idle"]
  /\ key = [r \in Readers |-> None]
  /\ seen = [r \in Readers |-> None]
  /\ waited = [r \in Readers |-> 0]
  /\ served = [r \in Readers |-> {}]
  /\ item = [w \in Writers |-> None]
  /\ todo = [w \in Writers |-> <<>>]
  /\ found = [w \in Writers |-> FALSE]

\* The rows a key shows.
DependsOn(k) ==
  CASE k[1] \in {"docs_get", "chat_messages"} -> {k[2]}
    [] k[1] = "docs_list_superadmin_all"      -> Documents
    [] k[1] = "chat_conversations"            -> {v \in Conversations : OwnerOf[v] = k[2]}
    [] OTHER                                  -> {d \in Documents : OwnerOf[d] = k[2]}

-----------------------------------------------------------------------------
(* Readers: list_documents, get_document, search_documents,                *)
(* list_conversations, get_conversation_messages                           *)

\* The key a request builds from its user and its parameters.  The messages of
\* a conversation are looked up, or found in the cache, for its user only.
MayAsk(r, k) ==
  CASE k[1] = "docs_get"        -> ReaderRole[r] # "employee"
    [] k[1] = "docs_list_admin" -> ReaderRole[r] = "admin" /\ k[2] = HomeOf[r]
    [] k[1] \in {"docs_list_superadmin_company", "docs_list_superadmin_all"}
                                -> ReaderRole[r] = "super_admin"
    [] k[1] = "vector"          -> k[2] = HomeOf[r]
    [] k[1] = "chat_conversations" -> k[2] = UserOf[r]
    [] OTHER                    -> OwnerOf[k[2]] = UserOf[r]

\* Mutant of Shown: an admin may see whatever is cached.
Shown_Unchecked(r, k) == DependsOn(k)

\* What a reader answers with: get_document compares the company of the
\* document with that of an admin and may answer 403.  The payload holds the
\* company that was read with the document, which never changes.
Shown(r, k) ==
  IF k[1] = "docs_get" /\ ReaderRole[r] = "admin" /\ OwnerOf[k[2]] # HomeOf[r]
  THEN {} ELSE DependsOn(k)

Hit(r, k) ==
  /\ reader[r] = "idle"
  /\ MayAsk(r, k)
  /\ entry[k] # None
  /\ reader' = [reader EXCEPT ![r] = "reply"]
  /\ served' = [served EXCEPT ![r] = Shown(r, k)]
  /\ UNCHANGED <<entry, key, seen, waited, writerVars>>

\* No entry, or Redis does not answer.
Miss(r, k) ==
  /\ reader[r] = "idle"
  /\ MayAsk(r, k)
  /\ entry[k] = None \/ "redis" \in Faults
  /\ reader' = [reader EXCEPT ![r] = "read"]
  /\ key' = [key EXCEPT ![r] = k]
  /\ UNCHANGED <<entry, seen, waited, served, writerVars>>

\* An empty search result and a refused document are not cached; an empty
\* list is.
Cacheable(r, k) == k[1] \in {"docs_get", "vector"} => Shown(r, k) # {}

Read(r) ==
  /\ reader[r] = "read"
  /\ seen' = [seen EXCEPT ![r] = Snapshot]
  /\ reader' = [reader EXCEPT ![r] = IF Cacheable(r, key[r]) THEN "set" ELSE "reply"]
  /\ served' = [served EXCEPT ![r] = Shown(r, key[r])]
  /\ UNCHANGED <<entry, key, waited, writerVars>>

\* Mutant of Set: SET instead of SETEX, the entry stays.
Set_NoLifetime(r) ==
  /\ reader[r] = "set"
  /\ entry' = [entry EXCEPT ![key[r]] = [seen[r] EXCEPT !.excused = seen[r].stale, !.left = 0]]
  /\ reader' = [reader EXCEPT ![r] = "reply"]
  /\ UNCHANGED <<key, seen, waited, served, writerVars>>

\* SETEX.  What was committed since the read is not in the entry: the reader
\* has been overtaken.
Set(r) ==
  /\ reader[r] = "set"
  /\ entry' = [entry EXCEPT ![key[r]] = [seen[r] EXCEPT !.excused = seen[r].stale]]
  /\ reader' = [reader EXCEPT ![r] = "reply"]
  /\ UNCHANGED <<key, seen, waited, served, writerVars>>

SetFails(r) ==
  /\ "redis" \in Faults
  /\ reader[r] = "set"
  /\ reader' = [reader EXCEPT ![r] = "reply"]
  /\ UNCHANGED <<entry, key, seen, waited, served, writerVars>>

Reply(r) ==
  /\ reader[r] = "reply"
  /\ reader' = [reader EXCEPT ![r] = "idle"]
  /\ key' = [key EXCEPT ![r] = None]
  /\ seen' = [seen EXCEPT ![r] = None]
  /\ waited' = [waited EXCEPT ![r] = 0]
  /\ served' = [served EXCEPT ![r] = {}]
  /\ UNCHANGED <<entry, writerVars>>

-----------------------------------------------------------------------------
(* Writers: upload_document, delete_document, the ingestion worker,        *)
(* _persist_chat_turn                                                      *)

\* Mutant of Prefixes: the list of all companies' documents is forgotten.
Prefixes_NoAllList(i) ==
  IF i \in Conversations
  THEN <<ConversationList(OwnerOf[i]), Messages(i)>>
  ELSE <<AdminList(OwnerOf[i]), CompanyList(OwnerOf[i]), Vector(OwnerOf[i]),
         Document(i)>>

\* _invalidate_document_caches; the worker deletes the same prefixes, the
\* search results first.  A turn invalidates the lists of its user.
Prefixes(i) ==
  IF i \in Conversations
  THEN <<ConversationList(OwnerOf[i]), Messages(i)>>
  ELSE <<AdminList(OwnerOf[i]), CompanyList(OwnerOf[i]), Vector(OwnerOf[i]),
         AllList, Document(i)>>

\* A snapshot that does not show the committed change.
Behind(s, k, i, accepted) ==
  IF s = None \/ i \notin DependsOn(k) THEN s
  ELSE [s EXCEPT !.stale = @ \cup {i},
                 !.excused = IF accepted THEN @ \cup {i} ELSE @]

\* A row of i is written that the given keys show.
Changed(i, keys, accepted) ==
  /\ entry' = [k \in CachedKeys |->
       IF k \in keys THEN Behind(entry[k], k, i, accepted) ELSE entry[k]]
  /\ seen' = [r \in Readers |->
       IF seen[r] # None /\ key[r] \in keys THEN Behind(seen[r], key[r], i, FALSE)
       ELSE seen[r]]

Commit(w, i) ==
  /\ item[w] = None
  /\ Changed(i, CachedKeys, FALSE)
  /\ item' = [item EXCEPT ![w] = i]
  /\ todo' = [todo EXCEPT ![w] = Prefixes(i)]
  /\ UNCHANGED <<reader, key, waited, served, found>>

\* Commits after which nothing is invalidated: PROCESSING, a retry, the
\* deletion of a company; a conversation that has no turn yet.
QuietCommit(i) ==
  /\ Changed(i, IF i \in Documents THEN CachedKeys ELSE {ConversationList(OwnerOf[i])},
             TRUE)
  /\ UNCHANGED <<reader, key, waited, served, writerVars>>

Scan(w) ==
  /\ todo[w] # <<>>
  /\ ~found[w]
  /\ IF Head(todo[w]) \in CachedKeys /\ entry[Head(todo[w])] # None
     THEN found' = [found EXCEPT ![w] = TRUE] /\ UNCHANGED todo
     ELSE todo' = [todo EXCEPT ![w] = Tail(@)] /\ UNCHANGED found
  /\ UNCHANGED <<entry, readerVars, item>>

Delete(w) ==
  /\ found[w]
  /\ entry' = [entry EXCEPT ![Head(todo[w])] = None]
  /\ todo' = [todo EXCEPT ![w] = Tail(@)]
  /\ found' = [found EXCEPT ![w] = FALSE]
  /\ UNCHANGED <<readerVars, item>>

\* The entries of the given keys stay behind for good.
Missed(w, keys) ==
  entry' = [k \in CachedKeys |->
    IF k \in keys /\ entry[k] # None
    THEN [entry[k] EXCEPT !.excused = @ \cup (entry[k].stale \cap {item[w]})]
    ELSE entry[k]]

\* Mutant of DeleteFails: the keys found for one prefix are not forgotten.
DeleteFails_KeepsFound(w) ==
  /\ "redis" \in Faults
  /\ todo[w] # <<>>
  /\ Missed(w, {Head(todo[w])})
  /\ todo' = [todo EXCEPT ![w] = Tail(@)]
  /\ UNCHANGED <<readerVars, item, found>>

\* Redis does not answer: the next prefix is tried.
DeleteFails(w) ==
  /\ "redis" \in Faults
  /\ todo[w] # <<>>
  /\ Missed(w, {Head(todo[w])})
  /\ todo' = [todo EXCEPT ![w] = Tail(@)]
  /\ found' = [found EXCEPT ![w] = FALSE]
  /\ UNCHANGED <<readerVars, item>>

\* The process of the writer is gone.
WriterStops(w) ==
  /\ "stop" \in Faults
  /\ todo[w] # <<>>
  /\ Missed(w, {todo[w][n] : n \in DOMAIN todo[w]})
  /\ todo' = [todo EXCEPT ![w] = <<>>]
  /\ found' = [found EXCEPT ![w] = FALSE]
  /\ UNCHANGED <<readerVars, item>>

WriterDone(w) ==
  /\ item[w] # None
  /\ todo[w] = <<>>
  /\ item' = [item EXCEPT ![w] = None]
  /\ UNCHANGED <<entry, readerVars, todo, found>>

-----------------------------------------------------------------------------
Older(s) ==
  IF s = None \/ s.stale = {} \/ s.since = SinceBound THEN s
  ELSE [s EXCEPT !.since = @ + 1]

\* A tick passes: lifetimes end and what is behind gets older.
Tick ==
  /\ \A r \in Readers : reader[r] = "set" => waited[r] < MaxDelay
  /\ entry' = [k \in CachedKeys |->
       IF entry[k] = None \/ entry[k].left = 1 THEN None
       ELSE [Older(entry[k]) EXCEPT !.left = IF @ = 0 THEN 0 ELSE @ - 1]]
  /\ seen' = [r \in Readers |-> Older(seen[r])]
  /\ waited' = [r \in Readers |->
       IF reader[r] = "set" THEN waited[r] + 1 ELSE waited[r]]
  /\ UNCHANGED <<reader, key, served, writerVars>>

Next ==
  \/ \E r \in Readers, k \in CachedKeys : Hit(r, k) \/ Miss(r, k)
  \/ \E r \in Readers : Read(r) \/ Set(r) \/ SetFails(r) \/ Reply(r)
  \/ \E w \in Writers, i \in Items : Commit(w, i)
  \/ \E i \in Items : QuietCommit(i)
  \/ \E w \in Writers :
       Scan(w) \/ Delete(w) \/ DeleteFails(w) \/ WriterStops(w) \/ WriterDone(w)
  \/ Tick

Spec == Init /\ [][Next]_vars

-----------------------------------------------------------------------------
(* Properties *)

SnapshotOf(k) ==
  [left : 0..TTL, stale : SUBSET DependsOn(k), excused : SUBSET Items,
   since : 0..SinceBound]

\* Every variable has its type; an entry has a lifetime, and a snapshot is
\* behind since some tick only if it is behind at all.
TypeOK ==
  /\ \A k \in CachedKeys :
       entry[k] # None => entry[k] \in SnapshotOf(k) /\ entry[k].left > 0
  /\ reader \in [Readers -> {"idle", "read", "set", "reply"}]
  /\ key \in [Readers -> CachedKeys \cup {None}]
  /\ \A r \in Readers : seen[r] # None => seen[r] \in SnapshotOf(key[r])
  /\ waited \in [Readers -> 0..MaxDelay]
  /\ served \in [Readers -> SUBSET Items]
  /\ item \in [Writers -> Items \cup {None}]
  /\ todo \in [Writers -> Seq(AllKeys)]
  /\ \A w \in Writers :
       /\ found[w] => todo[w] # <<>>
       /\ todo[w] # <<>> => item[w] # None

\* However readers, writers and failures interleave, no entry hides a change
\* as long as its lifetime and the delay of the reader that set it together.
BoundedStaleness ==
  \A k \in CachedKeys : entry[k] # None => entry[k].since < TTL + MaxDelay

\* An entry that does not show a change is still going to be deleted by the
\* writer of the change, unless its reader was overtaken by the writer, Redis
\* or the writer failed, or the change is one that invalidates nothing: the
\* prefixes deleted after a write cover every key that shows the row.
StaleOnlyIfExcused ==
  \A k \in CachedKeys :
    entry[k] # None =>
      \A i \in entry[k].stale \ entry[k].excused :
        \E w \in Writers :
          item[w] = i /\ \E n \in DOMAIN todo[w] : todo[w][n] = k

\* What a reader may see: documents of the own company, unless it is a super
\* admin, and the user's own conversations.
OwnScope(r, rows) ==
  /\ ReaderRole[r] # "super_admin" =>
       \A d \in rows \cap Documents : OwnerOf[d] = HomeOf[r]
  /\ \A v \in rows \cap Conversations : OwnerOf[v] = UserOf[r]

\* Nobody but a super admin is shown a document of another company, and nobody
\* a conversation of another user, from whichever reader's entry they are
\* served.
ServedInScope == \A r \in Readers : OwnScope(r, served[r])
=============================================================================
