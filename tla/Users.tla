------------------------------- MODULE Users -------------------------------
(***************************************************************************)
(* The users table and the sessions that load and write its rows           *)
(* (models/user.py).  EmailLinks and GoogleSignIn define what requests do  *)
(* with them, Accounts puts the two together.                              *)
(*                                                                         *)
(* A session holds the row as it loaded it: it never reads it again, and   *)
(* its commit writes only the columns that differ from what it loaded.     *)
(* The database refuses a commit that would give two rows one e-mail       *)
(* address or one Google identity.                                         *)
(***************************************************************************)
EXTENDS FiniteSets, Integers

CONSTANTS Emails,     \* e-mail addresses
          Googles,    \* Google identities, the "sub" of a profile
          Gmail,      \* Google identity -> the address in its profile
          Known,      \* rows that are there from the start
          Requests,   \* HTTP requests; a row one of them inserts has its name
          None        \* no Google identity, no password, no row, no link

ASSUME UsersAssumption ==
    /\ Gmail \in [Googles -> Emails]
    /\ Known \cap Requests = {}
    /\ None \notin Googles \cup Known \cup Requests \cup Emails

VARIABLES
    users,    \* the table: id of a row -> its columns
    op,       \* request -> its operation; never changes
    pc,       \* request -> where its handler stands
    me,       \* request -> the row it works on
    copy,     \* request -> the columns of that row as its session loaded them
    answer,   \* request -> what its client was told
    stale,    \* requests whose row others have written since they loaded it (history)
    mixed     \* rows a session committed to that held them stale (history)

sessions == <<op, me, copy>>

Ids == Known \cup Requests

\* A password is named by the request that set it, or by the row that had it from the start.
Columns == [email : Emails, google : Googles \cup {None}, password : Ids \cup {None},
            auth : {"password", "google", "both"}, verified : BOOLEAN]

NoColumns == [email |-> None, google |-> None, password |-> None,
              auth |-> "password", verified |-> FALSE]

\* The rows registrations, Google sign-ins and links leave behind; the address may have changed
\* since the identity came to the row.
SoundRow(u, c) ==
    /\ c.password \in {None, u}
    /\ c.auth = IF c.google = None THEN "password"
                ELSE IF c.password = None THEN "google" ELSE "both"
    /\ c.google = None => c.password = u
    /\ c.google # None => c.verified

\* The unique constraints.
Unique(table) ==
    \A u, v \in DOMAIN table :
        u # v => /\ table[u].email # table[v].email
                 /\ table[u].google = table[v].google => table[u].google = None

UsersInit ==
    /\ users \in [Known -> Columns]
    /\ \A u \in Known : SoundRow(u, users[u])
    /\ Unique(users)
    /\ pc = [r \in Requests |-> "start"]
    /\ me = [r \in Requests |-> None]
    /\ copy = [r \in Requests |-> NoColumns]
    /\ answer = [r \in Requests |-> "none"]
    /\ stale = {}
    /\ mixed = {}
-----------------------------------------------------------------------------
Goto(r, label) == pc' = [pc EXCEPT ![r] = label]

Answer(r, what) ==
    /\ Goto(r, "done")
    /\ answer' = [answer EXCEPT ![r] = what]

\* Whose routes let in: get_current_active_user wants a verified row.
SignedIn(u) == users[u].verified

\* Request r loads row u.
Load(r, u) ==
    /\ me' = [me EXCEPT ![r] = u]
    /\ copy' = [copy EXCEPT ![r] = users[u]]
    /\ stale' = stale \ {r}

\* The row as the UPDATE leaves it when the session has made "to" of its copy.
Flush(r, to) ==
    [f \in DOMAIN to |-> IF to[f] # copy[r][f] THEN to[f] ELSE users[me[r]][f]]

Saved(r, to) == [users EXCEPT ![me[r]] = Flush(r, to)]

\* The commit of a changed row, and the one a unique constraint refuses.
Save(r, to) ==
    /\ Unique(Saved(r, to))
    /\ users' = Saved(r, to)
    /\ stale' = stale \cup {q \in Requests \ {r} : me[q] = me[r] /\ pc[q] # "done"}
    /\ mixed' = IF r \in stale THEN mixed \cup {me[r]} ELSE mixed

SaveClashes(r, to) == ~Unique(Saved(r, to))

\* A table with one more row, or the same when it has a row of that name.
Added(table, id, c) ==
    [i \in DOMAIN table \cup {id} |-> IF i \in DOMAIN table THEN table[i] ELSE c]

\* The commit of a new row, named by the request.
Insert(r, columns) ==
    /\ Unique(Added(users, r, columns))
    /\ users' = Added(users, r, columns)

InsertClashes(r, columns) == ~Unique(Added(users, r, columns))
=============================================================================
