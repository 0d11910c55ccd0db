---------------------------- MODULE Transcripts ----------------------------
(***************************************************************************)
(* What the chat endpoints promise of the stored conversations, as if each *)
(* request were one step: a conversation belongs for good to the user and  *)
(* the company it was opened for, a request adds at most one turn, to a    *)
(* conversation of its own user that is still there, and a turn goes only  *)
(* with its user or its company.                                           *)
(***************************************************************************)
CONSTANTS Requests, Users, UserOf, Companies, Home, None

VARIABLES
  companies, \* the companies there are
  company,  \* the company of a user, None when the user is gone
  conv,     \* the user and the company of a conversation, or None
  turns,    \* the turns of a conversation, each known by its request
  stored    \* the requests that have added their turn

transcriptVars == <<companies, company, conv, turns, stored>>

TranscriptsInit ==
  /\ companies = Companies
  /\ company = Home
  /\ conv = [c \in Requests |-> None]
  /\ turns = [c \in Requests |-> {}]
  /\ stored = {}

\* The request c opens a conversation in a company its user is or was in.
Open(c, k) ==
  LET u == UserOf[c] IN
  /\ company[u] # None
  /\ conv[c] = None
  /\ k \in {Home[u], company[u]} \cap companies
  /\ conv' = [conv EXCEPT ![c] = [user |-> u, company |-> k]]
  /\ UNCHANGED <<companies, company, turns, stored>>

Add(c, r) ==
  /\ conv[c] # None
  /\ conv[c].user = UserOf[r]
  /\ r \notin stored
  /\ turns' = [turns EXCEPT ![c] = @ \cup {r}]
  /\ stored' = stored \cup {r}
  /\ UNCHANGED <<companies, company, conv>>

Move(u, k) ==
  /\ company[u] # None
  /\ k \in companies
  /\ company' = [company EXCEPT ![u] = k]
  /\ UNCHANGED <<companies, conv, turns, stored>>

Drop(gone) ==
  /\ conv' = [c \in Requests |-> IF c \in gone THEN None ELSE conv[c]]
  /\ turns' = [c \in Requests |-> IF c \in gone THEN {} ELSE turns[c]]
  /\ UNCHANGED stored

Remove(u) ==
  /\ company' = [company EXCEPT ![u] = None]
  /\ Drop({c \in Requests : conv[c] # None /\ conv[c].user = u})
  /\ UNCHANGED companies

\* A company goes with its members, their conversations and its own.
Close(k) ==
  /\ companies' = companies \ {k}
  /\ company' = [u \in Users |-> IF company[u] = k THEN None ELSE company[u]]
  /\ Drop({c \in Requests :
             conv[c] # None /\ k \in {conv[c].company, company[conv[c].user]}})

TranscriptsNext ==
  \/ \E u \in Users, k \in Companies : Move(u, k)
  \/ \E u \in Users : Remove(u)
  \/ \E k \in Companies : Close(k)
  \/ \E c \in Requests, k \in Companies : Open(c, k)
  \/ \E c, r \in Requests : Add(c, r)

TranscriptsSpec == TranscriptsInit /\ [][TranscriptsNext]_transcriptVars
=============================================================================
