--------------------------- MODULE AccountsTypes ----------------------------
(***************************************************************************)
(* The first part of the proofs about Accounts: types, and what the place  *)
(* of a handler says of its request.  Whatever the handler, its step does  *)
(* one of four things to the users table and to its session (Keeps, Loads, *)
(* Inserts, Saves); AccountsProofs argues about those four, and not about  *)
(* the thirty-eight actions.                                               *)
(***************************************************************************)
EXTENDS Accounts, TLAPS

\* Where a handler has not loaded a row yet, and where it works on one.
Unloaded == {"start", "byEmail", "create", "burn", "user"}
Rowed    == PCs \ (Unloaded \cup {"done"})

\* Which operation a handler that stands at a place is of.
Doing(p) ==
    CASE p \in {"send", "store"} -> {"register", "resend"}
      [] p = "confirm" -> {"verify"}
      [] p \in {"check", "close", "apply"} -> {"confirmChange"}
      [] p \in {"burn", "user"} -> {"reset"}
      [] p = "password" -> {"reset", "setPassword"}
      [] p \in {"byEmail", "adopt", "create"} -> {"google"}
      [] p = "link" -> {"link"}
      [] p = "unlink" -> {"unlink"}
      [] OTHER -> MailOps \cup GoogleOps \cup BearerOps

\* What the place where a handler stands says of its request.
Working(r) ==
    /\ op[r] \in Doing(pc[r])
    /\ pc[r] \in Unloaded => me[r] = None
    /\ pc[r] \in Rowed => me[r] # None
    /\ me[r] # None => copy[r] \in Columns
    /\ r \in DOMAIN users => me[r] = r
    /\ pc[r] = "start" => link[r] = None
    /\ pc[r] \in {"check", "close", "apply"} =>
          link[r] \in DOMAIN changes /\ changes[link[r]].user = me[r]
    /\ op[r] = "reset" /\ pc[r] \in {"burn", "user", "password"} => link[r] \in DOMAIN resets
    /\ pc[r] \in {"byEmail", "adopt", "create", "link"} => profile[r] \in Googles
    /\ pc[r] \in {"adopt", "link"} => copy[r].email = Gmail[profile[r]]
    /\ pc[r] = "link" => copy[r].verified
    /\ pc[r] = "unlink" => copy[r].password # None

\* Types, places and foreign keys: links and bearer tokens name rows that are there.
Core ==
    /\ TypeOK
    /\ Known \subseteq DOMAIN users
    /\ \A t \in DOMAIN tokens : tokens[t].user \in DOMAIN users
    /\ \A c \in DOMAIN changes : changes[c].user \in DOMAIN users
    /\ \A b \in DOMAIN bearer : bearer[b].id \in DOMAIN users
    /\ \A r \in Requests : Working(r) /\ (pc[r] # "done" => answer[r] = "none")
-----------------------------------------------------------------------------
\* The columns of a row.
LEMMA ColumnsFields ==
    ASSUME NEW c \in Columns
    PROVE  /\ DOMAIN c = {"email", "google", "password", "auth", "verified"}
           /\ c.email \in Emails /\ c.google \in Googles \cup {None}
           /\ c.password \in Ids \cup {None} /\ c.auth \in {"password", "google", "both"}
           /\ c.verified \in BOOLEAN
  BY DEF Columns

\* A function on the columns with their values is a row.
LEMMA ColumnsRow ==
    ASSUME NEW c, c = [f \in DOMAIN c |-> c[f]],
           DOMAIN c = {"email", "google", "password", "auth", "verified"},
           c["email"] \in Emails, c["google"] \in Googles \cup {None},
           c["password"] \in Ids \cup {None}, c["auth"] \in {"password", "google", "both"},
           c["verified"] \in BOOLEAN
    PROVE  c \in Columns
  BY DEF Columns

\* None names no row, and no row has no address.
LEMMA NoneApart ==
    /\ None \notin Ids /\ None \notin Googles /\ None \notin Emails
    /\ NoColumns \notin Columns
  BY UsersAssumption DEF Ids, Columns, NoColumns

\* A flush writes the changed columns and keeps the others.
LEMMA FlushType ==
    ASSUME NEW r \in Requests, NEW to \in Columns, copy[r] \in Columns, users[me[r]] \in Columns
    PROVE  /\ Flush(r, to) \in Columns
           /\ Flush(r, to).email = IF to.email # copy[r].email THEN to.email ELSE users[me[r]].email
           /\ Flush(r, to).google = IF to.google # copy[r].google THEN to.google
                                   ELSE users[me[r]].google
           /\ Flush(r, to).password = IF to.password # copy[r].password THEN to.password
                                     ELSE users[me[r]].password
           /\ Flush(r, to).auth = IF to.auth # copy[r].auth THEN to.auth ELSE users[me[r]].auth
           /\ Flush(r, to).verified = IF to.verified # copy[r].verified THEN to.verified
                                     ELSE users[me[r]].verified
           /\ copy[r] = users[me[r]] => Flush(r, to) = to
<1>1. Flush(r, to) = [f \in {"email", "google", "password", "auth", "verified"} |->
                         IF to[f] # copy[r][f] THEN to[f] ELSE users[me[r]][f]]
  BY ColumnsFields DEF Flush
<1>2. Flush(r, to)["email"] \in Emails
  BY <1>1, ColumnsFields
<1>3. Flush(r, to)["google"] \in Googles \cup {None}
  BY <1>1, ColumnsFields
<1>4. Flush(r, to)["password"] \in Ids \cup {None}
  BY <1>1, ColumnsFields
<1>5. Flush(r, to)["auth"] \in  {"password", "google", "both"}
  BY <1>1, ColumnsFields
<1>6. Flush(r, to)["verified"] \in  BOOLEAN
  BY <1>1, ColumnsFields
<1>7. Flush(r, to) \in Columns
  BY <1>1, <1>2, <1>3, <1>4, <1>5, <1>6, ColumnsRow
<1>8. to = [f \in {"email", "google", "password", "auth", "verified"} |-> to[f]]
  BY DEF Columns
<1>9. copy[r] = users[me[r]] => Flush(r, to) = to
  BY <1>1, <1>8
<1> QED
  BY <1>1, <1>7, <1>9

\* A commit changes one row.
LEMMA SaveRow ==
    ASSUME TypeOK, NEW r \in Requests, me[r] # None, copy[r] \in Columns,
           NEW to \in Columns, Save(r, to)
    PROVE  /\ me[r] \in DOMAIN users /\ users[me[r]] \in Columns
           /\ users' \in [DOMAIN users -> Columns] /\ DOMAIN users' = DOMAIN users
           /\ users'[me[r]] = Flush(r, to)
           /\ \A u \in DOMAIN users \ {me[r]} : users'[u] = users[u]
           /\ stale' \subseteq Requests /\ mixed' \subseteq Ids
<1>1. me[r] \in DOMAIN users /\ users[me[r]] \in Columns
  BY DEF TypeOK
<1>2. Flush(r, to) \in Columns
  BY <1>1, FlushType
<1> QED
  BY <1>1, <1>2 DEF TypeOK, Save, Saved

\* A table with one more row.
LEMMA AddedRow ==
    ASSUME NEW X, NEW table, table \in [DOMAIN table -> X], NEW id, NEW c \in X
    PROVE  /\ Added(table, id, c) \in [DOMAIN table \cup {id} -> X]
           /\ DOMAIN Added(table, id, c) = DOMAIN table \cup {id}
           /\ \A i \in DOMAIN table : Added(table, id, c)[i] = table[i]
           /\ id \notin DOMAIN table => Added(table, id, c)[id] = c
  BY DEF Added
-----------------------------------------------------------------------------
\* What a step of request r does to the users table and to its session: nothing,
Keeps == UNCHANGED <<users, me, copy, stale, mixed>>

\* loading a row,
Loads(r) ==
    /\ UNCHANGED <<users, mixed>>
    /\ pc[r] \in Unloaded
    /\ \E u \in DOMAIN users : Load(r, u)

\* inserting one of its own,
Inserts(r) ==
    \E c \in Columns :
        /\ Insert(r, c)
        /\ me' = [me EXCEPT ![r] = r] /\ copy' = [copy EXCEPT ![r] = c]
        /\ UNCHANGED <<stale, mixed>>
        /\ pc[r] \in Unloaded
        /\ c.password # None \/ c.google # None
        /\ c.auth = "password" <=> c.google = None
        /\ c.auth = "both" => c.password # None
        /\ c.verified => op[r] = "google" /\ pc'[r] = "done" /\ c.email = Gmail[profile[r]]

\* or the commit of a changed copy.
Turns(r, to) ==
    /\ to.password \in {copy[r].password, r}
    /\ copy[r].verified => to.verified
    /\ to.email # copy[r].email =>
          op[r] = "confirmChange" /\ to.email = NewEmail(r) /\ to.verified /\ took' = took \cup {r}
    /\ to.verified /\ ~copy[r].verified => op[r] \in {"verify", "confirmChange", "google"}
    /\ op[r] = "verify" =>
          pc[r] = "confirm" /\ link[r] \in DOMAIN tokens /\ to.email = copy[r].email
    /\ op[r] = "confirmChange" => to.email = NewEmail(r)
    /\ op[r] = "google" => to.email = copy[r].email /\ pc[r] = "adopt"
    /\ \/ to.google = copy[r].google /\ to.auth = copy[r].auth
       \/ /\ to.google \in Googles
          /\ to.auth = IF copy[r].password = None THEN "google" ELSE "both"
       \/ pc[r] = "link" /\ to.google \in Googles /\ to.auth = "both"
       \/ pc[r] = "unlink" /\ to.google = None /\ to.auth = "password"

\* The commit ends the handler.
Saves(r) ==
    /\ pc[r] \in Rowed
    /\ pc' = [pc EXCEPT ![r] = "done"]
    /\ UNCHANGED sessions
    /\ \E to \in Columns : Save(r, to) /\ Turns(r, to)

\* Each step of an e-mail handler is of one of these kinds,
LEMMA MailRows ==
    ASSUME Core, NEW r \in Requests, MailHandler(r)
    PROVE  Keeps \/ Loads(r) \/ Inserts(r) \/ Saves(r)
<1> USE DEF Core, Working, Goto, Answer, AnswerAfterRefresh, sessions, Unloaded, Rowed, PCs
<1>1. CASE CreateUser(r)
  <2>1. PICK e \in Emails : Insert(r, NewUser(r, e)) /\ copy' = [copy EXCEPT ![r] = NewUser(r, e)]
    BY <1>1 DEF CreateUser
  <2>2. NewUser(r, e) \in Columns
    BY DEF NewUser, Columns, Ids
  <2>3. r # None
    BY NoneApart DEF Ids
  <2> QED
    BY <1>1, <2>1, <2>2, <2>3 DEF CreateUser, Inserts, NewUser
<1>2. CASE RegisterTaken(r) \/ ResendNothing(r) \/ Wipe(r) \/ StoreToken(r) \/ ConfirmGone(r)
           \/ AskChange(r) \/ CheckAddress(r)
  BY <1>2 DEF RegisterTaken, ResendNothing, Wipe, StoreToken, ConfirmGone, AskChange, CheckAddress,
     Keeps
<1>3. CASE CloseChange(r) \/ ApplyClash(r) \/ FindReset(r) \/ BurnReset(r) \/ Refuse(r)
           \/ MailFails(r)
  BY <1>3 DEF CloseChange, ApplyClash, FindReset, BurnReset, Refuse, MailFails, Keeps
<1>4. CASE StartResend(r)
  BY <1>4 DEF StartResend, Loads
<1>5. CASE FindToken(r)
  BY <1>5 DEF FindToken, Loads
<1>6. CASE FindChange(r)
  BY <1>6 DEF FindChange, Loads
<1>7. CASE LoadForReset(r)
  BY <1>7 DEF LoadForReset, Loads, Doing, TypeOK
<1>8. CASE StartSetPassword(r)
  BY <1>8 DEF StartSetPassword, Loads
<1>9. CASE Confirm(r)
  <2> DEFINE to == [copy[r] EXCEPT !.verified = TRUE]
  <2>1. copy[r] \in Columns /\ op[r] = "verify"
    BY <1>9 DEF Confirm, Doing
  <2>2. to \in Columns /\ Turns(r, to)
    BY <1>9, <2>1 DEF Confirm, Turns, Columns
  <2> QED
    BY <1>9, <2>2 DEF Confirm, Saves
<1>10. CASE ApplyChange(r)
  <2>1. copy[r] \in Columns /\ op[r] = "confirmChange"
    BY <1>10 DEF ApplyChange, Doing
  <2>2. NewEmail(r) \in Emails
    BY <1>10 DEF ApplyChange, NewEmail, TypeOK, Changes
  <2>3. Moved(r) \in Columns /\ Turns(r, Moved(r))
    BY <1>10, <2>1, <2>2 DEF ApplyChange, Moved, Turns, Columns
  <2> QED
    BY <1>10, <2>3 DEF ApplyChange, Saves
<1>11. CASE StorePassword(r)
  <2> DEFINE to == [copy[r] EXCEPT !.password = r]
  <2>1. copy[r] \in Columns /\ op[r] \in {"reset", "setPassword"}
    BY <1>11 DEF StorePassword, Doing
  <2>2. to \in Columns /\ Turns(r, to)
    BY <1>11, <2>1 DEF StorePassword, Turns, Columns, Ids
  <2> QED
    BY <1>11, <2>2 DEF StorePassword, Saves
<1> QED
  BY <1>1, <1>2, <1>3, <1>4, <1>5, <1>6, <1>7, <1>8, <1>9, <1>10, <1>11 DEF MailHandler

\* and so is each step of a Google handler.
LEMMA GoogleRows ==
    ASSUME Core, NEW r \in Requests, GoogleHandler(r)
    PROVE  Keeps \/ Loads(r) \/ Inserts(r) \/ Saves(r)
<1> USE DEF Core, Working, Goto, Answer, AnswerAfterRefresh, sessions, Unloaded, Rowed, PCs
<1>1. CASE SignInKnown(r)
  BY <1>1 DEF SignInKnown, Loads
<1>2. CASE SignInUnknown(r) \/ FindNobody(r) \/ SignInClash(r) \/ LinkClash(r) \/ RefuseGoogle(r)
  BY <1>2 DEF SignInUnknown, FindNobody, SignInClash, LinkClash, RefuseGoogle, Keeps
<1>3. CASE FindByEmail(r)
  BY <1>3 DEF FindByEmail, Loads
<1>4. CASE StartLink(r)
  BY <1>4 DEF StartLink, Loads
<1>5. CASE StartUnlink(r)
  BY <1>5 DEF StartUnlink, Loads
<1>6. CASE Adopt(r)
  <2>1. copy[r] \in Columns /\ op[r] = "google" /\ profile[r] \in Googles
    BY <1>6 DEF Adopt, Doing
  <2>2. Adopted(r) \in Columns /\ Turns(r, Adopted(r))
    BY <1>6, <2>1 DEF Adopt, Turns, Columns, Adopted
  <2> QED
    BY <1>6, <2>2 DEF Adopt, Saves
<1>7. CASE Link(r)
  <2>1. copy[r] \in Columns /\ op[r] = "link" /\ profile[r] \in Googles /\ copy[r].verified
    BY <1>7 DEF Link, Doing
  <2>2. Linked(r) \in Columns /\ Turns(r, Linked(r))
    BY <1>7, <2>1 DEF Link, Turns, Columns, Linked
  <2> QED
    BY <1>7, <2>2 DEF Link, Saves
<1>8. CASE Unlink(r)
  <2> DEFINE to == [copy[r] EXCEPT !.google = None, !.auth = "password"]
  <2>1. copy[r] \in Columns /\ op[r] = "unlink"
    BY <1>8 DEF Unlink, Doing
  <2>2. to \in Columns /\ Turns(r, to)
    BY <1>8, <2>1 DEF Unlink, Turns, Columns
  <2> QED
    BY <1>8, <2>2 DEF Unlink, Saves
<1>9. CASE CreateGoogleUser(r)
  <2>1. op[r] = "google" /\ profile[r] \in Googles /\ Gmail[profile[r]] \in Emails
    BY <1>9, UsersAssumption DEF CreateGoogleUser, Doing
  <2>2. NewGoogleUser(r) \in Columns /\ profile[r] # None
    BY <2>1, NoneApart DEF NewGoogleUser, Columns
  <2> DEFINE c == NewGoogleUser(r)
  <2>3. /\ c.password # None \/ c.google # None
        /\ c.auth = "password" <=> c.google = None
        /\ c.auth = "both" => c.password # None
        /\ c.email = Gmail[profile[r]]
    BY <2>2 DEF NewGoogleUser
  <2>4. /\ Insert(r, c) /\ me' = [me EXCEPT ![r] = r] /\ copy' = [copy EXCEPT ![r] = c]
        /\ UNCHANGED <<stale, mixed>> /\ pc[r] \in Unloaded /\ pc'[r] = "done"
    BY <1>9 DEF CreateGoogleUser, TypeOK
  <2> HIDE DEF c
  <2> QED
    BY <2>1, <2>2, <2>3, <2>4 DEF Inserts, c
<1> QED
  BY <1>1, <1>2, <1>3, <1>4, <1>5, <1>6, <1>7, <1>8, <1>9 DEF GoogleHandler

\* The table and the sessions keep their types.
LEMMA RowsType ==
    ASSUME Core, NEW r \in Requests, Keeps \/ Loads(r) \/ Inserts(r) \/ Saves(r)
    PROVE  /\ DOMAIN users' \subseteq Ids /\ users' \in [DOMAIN users' -> Columns]
           /\ DOMAIN users \subseteq DOMAIN users'
           /\ me' \in [Requests -> Ids \cup {None}]
           /\ copy' \in [Requests -> Columns \cup {NoColumns}]
           /\ stale' \subseteq Requests /\ mixed' \subseteq Ids
           /\ \A q \in Requests :
                 /\ IF me'[q] = None THEN copy'[q] = NoColumns ELSE me'[q] \in DOMAIN users'
                 /\ me'[q] # None => copy'[q] \in Columns
                 /\ q \in DOMAIN users' => me'[q] = q
                 /\ q # r => me'[q] = me[q] /\ copy'[q] = copy[q]
<1>1. CASE Keeps
  BY <1>1 DEF Keeps, Core, TypeOK, Working
<1>2. CASE Loads(r)
  <2>1. PICK u \in DOMAIN users : Load(r, u)
    BY <1>2 DEF Loads
  <2>2. users[u] \in Columns /\ u \in Ids /\ u # None /\ r \notin DOMAIN users
    BY <1>2, NoneApart DEF Core, TypeOK, Working, Loads, Ids
  <2>3. me' = [me EXCEPT ![r] = u] /\ copy' = [copy EXCEPT ![r] = users[u]] /\ stale' = stale \ {r}
        /\ UNCHANGED <<users, mixed>>
    BY <1>2, <2>1 DEF Load, Loads
  <2> QED
    BY <2>2, <2>3 DEF Core, TypeOK, Working
<1>3. CASE Inserts(r)
  <2>1. PICK c \in Columns :
           /\ Insert(r, c)
           /\ me' = [me EXCEPT ![r] = r] /\ copy' = [copy EXCEPT ![r] = c]
           /\ UNCHANGED <<stale, mixed>>
    BY <1>3 DEF Inserts
  <2>2. /\ users' \in [DOMAIN users \cup {r} -> Columns] /\ DOMAIN users' = DOMAIN users \cup {r}
    <3>1. users \in [DOMAIN users -> Columns] /\ users' = Added(users, r, c)
      BY <2>1 DEF Insert, Core, TypeOK
    <3> QED
      BY <2>1, <3>1 DEF Added
  <2>3. r \in Ids /\ r # None
    BY NoneApart DEF Ids
  <2> QED
    BY <2>1, <2>2, <2>3 DEF Core, TypeOK, Working
<1>4. CASE Saves(r)
  <2>1. PICK to \in Columns : Save(r, to)
    BY <1>4 DEF Saves
  <2>2. me[r] # None /\ copy[r] \in Columns /\ UNCHANGED <<me, copy>>
    BY <1>4 DEF Saves, Core, Working, sessions
  <2> QED
    BY <2>1, <2>2, SaveRow DEF Core, TypeOK, Working
<1> QED
  BY <1>1, <1>2, <1>3, <1>4
-----------------------------------------------------------------------------
\* A commit is noted by those under way.
LEMMA Noted ==
    ASSUME TypeOK, NEW r \in Requests, Committed(r)
    PROVE  /\ since' \in [Requests -> SUBSET Requests]
           /\ \A q \in Requests : since[q] \subseteq since'[q]
           /\ \A q \in Requests \ {r} : pc[q] \notin {"start", "done"} => r \in since'[q]
           /\ since'[r] = since[r]
  BY DEF TypeOK, Committed

\* A link that is used is a link to the same user and address.
LEMMA UsedLink ==
    ASSUME NEW v \in Verifications
    PROVE  LET w == [v EXCEPT !.used = TRUE] IN
           w \in Verifications /\ w.user = v.user /\ w.to = v.to /\ w.used
  BY DEF Verifications

\* So is a link to another address that is done.
LEMMA DoneChange ==
    ASSUME NEW v \in Changes
    PROVE  LET w == [v EXCEPT !.done = TRUE] IN
           w \in Changes /\ w.user = v.user /\ w.email = v.email /\ w.done
  BY DEF Changes

\* Links to another address and reset links stay; once used they are used for good.
LinksStay ==
    /\ DOMAIN changes \subseteq DOMAIN changes'
    /\ \A c \in DOMAIN changes :
          /\ changes'[c].user = changes[c].user
          /\ changes'[c].email = changes[c].email
          /\ changes[c].done => changes'[c].done
    /\ DOMAIN resets' = DOMAIN resets
    /\ \A u \in DOMAIN resets : resets[u] => resets'[u]

\* The tables of links keep their types and their rows' users and addresses.
LEMMA LinkTables ==
    ASSUME Core, NEW r \in Requests, MailHandler(r), DOMAIN users \subseteq DOMAIN users'
    PROVE  /\ DOMAIN tokens' \subseteq Ids /\ tokens' \in [DOMAIN tokens' -> Verifications]
           /\ DOMAIN changes' \subseteq Ids /\ changes' \in [DOMAIN changes' -> Changes]
           /\ DOMAIN resets' = DOMAIN resets /\ resets' \in [DOMAIN resets -> BOOLEAN]
           /\ \A t \in DOMAIN tokens' : tokens'[t].user \in DOMAIN users'
           /\ \A c \in DOMAIN changes' : changes'[c].user \in DOMAIN users'
           /\ LinksStay
<1> USE DEF Core, TypeOK, LinksStay
<1>1. CASE UNCHANGED links
  BY <1>1 DEF links
<1>2. CASE StoreToken(r)
  <2> DEFINE token == [user |-> me[r], to |-> copy[r].email, used |-> FALSE]
  <2>1. me[r] \in DOMAIN users /\ copy[r] \in Columns /\ UNCHANGED <<changes, resets>>
        /\ tokens' = [t \in (DOMAIN tokens \ doomed[r]) \cup {r} |->
                         IF t = r THEN token ELSE tokens[t]]
    BY <1>2 DEF StoreToken, Working, Rowed, Unloaded, PCs
  <2>2. token \in Verifications
    BY <2>1, ColumnsFields DEF Verifications
  <2>3. DOMAIN tokens' \subseteq Ids /\ tokens' \in [DOMAIN tokens' -> Verifications]
    BY <2>1, <2>2 DEF Ids
  <2>4. \A t \in DOMAIN tokens' : tokens'[t].user \in DOMAIN users
    BY <2>1
  <2> QED
    BY <2>1, <2>3, <2>4
<1>3. CASE Confirm(r)
  <2>1. UNCHANGED <<changes, resets>> /\ tokens' = [tokens EXCEPT ![link[r]].used = TRUE]
        /\ link[r] \in DOMAIN tokens
    BY <1>3 DEF Confirm
  <2>2. [tokens[link[r]] EXCEPT !.used = TRUE] \in Verifications
        /\ [tokens[link[r]] EXCEPT !.used = TRUE].user = tokens[link[r]].user
    BY <2>1, UsedLink
  <2> QED
    BY <2>1, <2>2
<1>4. CASE AskChange(r)
  <2>1. PICK u \in DOMAIN users, e \in Emails :
           changes' = Added(changes, r, [user |-> u, email |-> e, done |-> FALSE])
    BY <1>4 DEF AskChange
  <2>2. [user |-> u, email |-> e, done |-> FALSE] \in Changes
    BY DEF Changes
  <2>3. /\ changes' \in [DOMAIN changes' -> Changes] /\ DOMAIN changes' = DOMAIN changes \cup {r}
        /\ \A c \in DOMAIN changes : changes'[c] = changes[c]
        /\ \A c \in DOMAIN changes' : changes'[c].user \in DOMAIN users
    BY <2>1, <2>2 DEF Added
  <2>4. UNCHANGED <<tokens, resets>>
    BY <1>4 DEF AskChange
  <2> QED
    BY <2>3, <2>4 DEF Ids
<1>5. CASE CloseChange(r) \/ ApplyChange(r)
  <2>1. UNCHANGED <<tokens, resets>> /\ changes' = [changes EXCEPT ![link[r]].done = TRUE]
        /\ link[r] \in DOMAIN changes
    BY <1>5 DEF CloseChange, ApplyChange, Working
  <2>2. LET c == [changes[link[r]] EXCEPT !.done = TRUE] IN
        /\ c \in Changes /\ c.done
        /\ c.user = changes[link[r]].user /\ c.email = changes[link[r]].email
    BY <2>1, DoneChange
  <2> QED
    BY <2>1, <2>2
<1>6. CASE BurnReset(r)
  BY <1>6 DEF BurnReset
<1> QED
  BY <1>1, <1>2, <1>3, <1>4, <1>5, <1>6 DEF MailHandler, mail, links,
     CreateUser, RegisterTaken, StartResend, ResendNothing, Wipe, FindToken, ConfirmGone,
     FindChange, CheckAddress, ApplyClash, FindReset, LoadForReset, StartSetPassword, StorePassword, Refuse,
     MailFails

\* What a handler notes of its own: its place, its answer, its link and its locks.
LEMMA MailOwn ==
    ASSUME Core, NEW r \in Requests, MailHandler(r)
    PROVE  /\ UNCHANGED op
           /\ pc' \in [Requests -> PCs]
           /\ answer' \in [Requests -> {"none", "ok", "refused", "error"}]
           /\ link' \in [Requests -> Ids \cup {None}]
           /\ doomed' \in [Requests -> SUBSET Ids]
           /\ behind' \in [Requests -> SUBSET Requests]
           /\ since' \in [Requests -> SUBSET Requests]
           /\ took' \subseteq Requests
           /\ \A q \in Requests \ {r} :
                 /\ pc'[q] = pc[q] /\ answer'[q] = answer[q] /\ link'[q] = link[q]
                 /\ doomed'[q] = doomed[q] /\ behind'[q] = behind[q]
           /\ \A q \in Requests : since[q] \subseteq since'[q]
           /\ took \subseteq took'
           /\ pc[r] # "start" => UNCHANGED link
           /\ pc[r] # "done" /\ pc'[r] # "start"
           /\ pc'[r] # "done" => UNCHANGED answer
<1> USE DEF Core, TypeOK, Goto, Answer, AnswerAfterRefresh, mail, sessions, links, PCs, Ids
<1>1. CASE CreateUser(r)
  BY <1>1, Noted DEF CreateUser
<1>2. CASE RegisterTaken(r) \/ ResendNothing(r) \/ ConfirmGone(r) \/ CheckAddress(r)
           \/ ApplyClash(r) \/ Refuse(r) \/ StartResend(r) \/ LoadForReset(r) \/ StartSetPassword(r)
  BY <1>2 DEF RegisterTaken, ResendNothing, ConfirmGone, CheckAddress, ApplyClash, Refuse,
     StartResend, LoadForReset, StartSetPassword
<1>3. CASE Wipe(r)
  BY <1>3 DEF Wipe, UnusedOf
<1>4. CASE StoreToken(r)
  BY <1>4, Noted DEF StoreToken
<1>5. CASE FindToken(r)
  BY <1>5 DEF FindToken, Follow
<1>6. CASE Confirm(r)
  BY <1>6, Noted DEF Confirm
<1>7. CASE AskChange(r)
  BY <1>7, Noted DEF AskChange
<1>8. CASE FindChange(r)
  BY <1>8 DEF FindChange, Follow
<1>9. CASE CloseChange(r)
  BY <1>9, Noted DEF CloseChange
<1>10. CASE ApplyChange(r)
  BY <1>10, Noted DEF ApplyChange
<1>11. CASE FindReset(r)
  BY <1>11 DEF FindReset, Follow
<1>12. CASE BurnReset(r)
  BY <1>12, Noted DEF BurnReset
<1>13. CASE StorePassword(r)
  BY <1>13, Noted DEF StorePassword
<1>14. CASE MailFails(r)
  BY <1>14 DEF MailFails
<1> QED
  BY <1>1, <1>2, <1>3, <1>4, <1>5, <1>6, <1>7, <1>8, <1>9, <1>10, <1>11, <1>12, <1>13, <1>14
     DEF MailHandler

\* A Google or bearer handler, likewise.
LEMMA GoogleOwn ==
    ASSUME Core, NEW r \in Requests, GoogleHandler(r)
    PROVE  /\ op[r] \in GoogleOps /\ UNCHANGED op
           /\ pc' \in [Requests -> PCs]
           /\ answer' \in [Requests -> {"none", "ok", "refused", "error"}]
           /\ profile' \in [Requests -> Googles \cup {None}]
           /\ \A q \in Requests \ {r} :
                 pc'[q] = pc[q] /\ answer'[q] = answer[q] /\ profile'[q] = profile[q]
           /\ pc[r] # "done" /\ pc'[r] # "start"
           /\ pc'[r] # "done" => UNCHANGED answer
<1>1. op[r] \in GoogleOps
  BY DEF GoogleHandler, SignInKnown, SignInUnknown, FindByEmail, FindNobody, Adopt,
     CreateGoogleUser, SignInClash, StartLink, Link, LinkClash, StartUnlink, Unlink, RefuseGoogle,
     Core, Working, Doing, GoogleOps
<1> USE DEF Core, TypeOK, Goto, Answer, AnswerAfterRefresh, sessions, PCs
<1>2. CASE SignInKnown(r)
  BY <1>1, <1>2 DEF SignInKnown
<1>5. CASE SignInUnknown(r)
  BY <1>1, <1>5 DEF SignInUnknown
<1>6. CASE StartLink(r)
  BY <1>1, <1>6 DEF StartLink
<1>3. CASE FindByEmail(r) \/ FindNobody(r) \/ Adopt(r) \/ CreateGoogleUser(r) \/ SignInClash(r)
  BY <1>1, <1>3 DEF FindByEmail, FindNobody, Adopt, CreateGoogleUser, SignInClash
<1>4. CASE Link(r) \/ LinkClash(r) \/ StartUnlink(r) \/ Unlink(r) \/ RefuseGoogle(r)
  BY <1>1, <1>4 DEF Link, LinkClash, StartUnlink, Unlink, RefuseGoogle
<1> QED
  BY <1>2, <1>3, <1>4, <1>5, <1>6 DEF GoogleHandler
-----------------------------------------------------------------------------
\* A request that has been answered keeps nothing but its row.
LEMMA Ended ==
    ASSUME Core, NEW r \in Requests, Keeps \/ Loads(r) \/ Inserts(r) \/ Saves(r),
           UNCHANGED op, pc'[r] = "done"
    PROVE  Working(r)'
<1>1. op'[r] \in Doing("done")
  BY DEF Core, TypeOK, Doing
<1> QED
  BY <1>1, RowsType DEF Working, Unloaded, Rowed

\* The place a mail handler goes to says of its request what it should.
LEMMA MailWorking ==
    ASSUME Core, NEW r \in Requests, MailHandler(r), UNCHANGED profile
    PROVE  Working(r)'
<1> DEFINE Here(p) == pc' = [pc EXCEPT ![r] = p]
<1>1. Keeps \/ Loads(r) \/ Inserts(r) \/ Saves(r)
  BY MailRows
<1>2. DOMAIN users \subseteq DOMAIN users'
  BY <1>1, RowsType
<1>3. UNCHANGED op /\ (pc[r] # "start" => UNCHANGED link)
  BY MailOwn
<1>4. /\ me'[r] # None => copy'[r] \in Columns
      /\ r \in DOMAIN users' => me'[r] = r
  BY <1>1, RowsType
<1>5. LinksStay
  BY <1>2, LinkTables, ZenonT(30)
<1> USE DEF Core, TypeOK, Goto, Answer, AnswerAfterRefresh, sessions, mail, links, PCs
<1>6. CASE pc'[r] = "done"
  BY <1>1, <1>3, <1>6, Ended
<1>7. CASE CreateUser(r)
  <2>1. me'[r] # None /\ pc'[r] = "send" /\ op'[r] \in Doing("send")
    BY <1>3, <1>7, NoneApart DEF CreateUser, Doing, Ids
  <2> QED
    BY <1>4, <2>1 DEF Working, Unloaded, Rowed
<1>8. CASE StartResend(r)
  <2>1. me'[r] # None /\ pc'[r] = "send" /\ op'[r] \in Doing("send")
    BY <1>3, <1>8, NoneApart DEF StartResend, Doing, Load
  <2> QED
    BY <1>4, <2>1 DEF Working, Unloaded, Rowed
<1>9. CASE Wipe(r)
  <2>1. me'[r] = me[r] /\ pc[r] = "send" /\ pc'[r] = "store" /\ op'[r] = op[r]
    BY <1>3, <1>9 DEF Wipe
  <2>2. op[r] \in {"register", "resend"} /\ me[r] # None
    BY <2>1 DEF Working, Doing, Rowed, Unloaded
  <2> QED
    BY <1>4, <2>1, <2>2 DEF Working, Unloaded, Rowed, Doing
<1>10. CASE FindToken(r)
  <2>1. me'[r] # None /\ pc'[r] = "confirm" /\ op'[r] = "verify"
    BY <1>3, <1>10, NoneApart DEF FindToken, Load
  <2> QED
    BY <1>4, <2>1 DEF Working, Unloaded, Rowed, Doing
<1>11. CASE FindChange(r)
  <2>1. PICK c \in DOMAIN changes : Load(r, changes[c].user) /\ Follow(r, c)
    BY <1>11 DEF FindChange
  <2>2. me'[r] = changes[c].user /\ me'[r] # None /\ link'[r] = c /\ UNCHANGED changes
        /\ pc'[r] = "check" /\ op'[r] = "confirmChange"
    BY <1>3, <1>11, <2>1, NoneApart DEF FindChange, Load, Follow
  <2> QED
    BY <1>4, <2>2 DEF Working, Unloaded, Rowed, Doing
<1>12. CASE CheckAddress(r)
  <2>1. me'[r] = me[r] /\ pc[r] = "check" /\ pc'[r] \in {"close", "apply"} /\ op'[r] = op[r]
        /\ UNCHANGED <<link, changes>>
    BY <1>12 DEF CheckAddress
  <2>2. op[r] = "confirmChange" /\ me[r] # None /\ link[r] \in DOMAIN changes
        /\ changes[link[r]].user = me[r]
    BY <2>1 DEF Working, Doing, Rowed, Unloaded
  <2> QED
    BY <1>4, <2>1, <2>2 DEF Working, Unloaded, Rowed, Doing
<1>13. CASE FindReset(r)
  <2>1. me'[r] = None /\ pc'[r] = "burn" /\ op'[r] = "reset" /\ link'[r] \in DOMAIN resets
    BY <1>3, <1>13 DEF FindReset, Follow, Working, Unloaded
  <2> QED
    BY <1>4, <1>5, <2>1 DEF LinksStay, Working, Unloaded, Rowed, Doing
<1>14. CASE BurnReset(r)
  <2>1. me'[r] = me[r] /\ pc[r] = "burn" /\ pc'[r] = "user" /\ op'[r] = op[r] /\ UNCHANGED link
    BY <1>14 DEF BurnReset
  <2>2. op[r] = "reset" /\ me[r] = None /\ link[r] \in DOMAIN resets
    BY <2>1 DEF Working, Doing, Rowed, Unloaded
  <2> QED
    BY <1>4, <1>5, <2>1, <2>2 DEF LinksStay, Working, Unloaded, Rowed, Doing
<1>15. CASE LoadForReset(r)
  <2>1. /\ me'[r] = link[r] /\ pc[r] = "user" /\ pc'[r] = "password"
        /\ op'[r] = op[r] /\ UNCHANGED link
    BY <1>15 DEF LoadForReset, Load
  <2>2. op[r] = "reset" /\ link[r] \in DOMAIN resets
    BY <2>1 DEF Working, Doing, Rowed, Unloaded
  <2>3. me'[r] # None
    BY <2>1, <2>2, NoneApart DEF Ids
  <2> QED
    BY <1>4, <1>5, <2>1, <2>2, <2>3 DEF LinksStay, Working, Unloaded, Rowed, Doing
<1>16. CASE StartSetPassword(r)
  <2>1. me'[r] # None /\ pc'[r] = "password" /\ op'[r] = "setPassword"
    BY <1>3, <1>16, NoneApart DEF StartSetPassword, Load
  <2> QED
    BY <1>4, <2>1 DEF Working, Unloaded, Rowed, Doing
<1> QED
  BY <1>6, <1>7, <1>8, <1>9, <1>10, <1>11, <1>12, <1>13, <1>14, <1>15, <1>16
     DEF MailHandler, RegisterTaken, ResendNothing, StoreToken, Confirm, ConfirmGone, AskChange,
         CloseChange, ApplyChange, ApplyClash, StorePassword, Refuse, MailFails

\* So does the place a Google handler goes to.
LEMMA GoogleWorking ==
    ASSUME Core, NEW r \in Requests, GoogleHandler(r), UNCHANGED mail
    PROVE  Working(r)'
<1>1. Keeps \/ Loads(r) \/ Inserts(r) \/ Saves(r)
  BY GoogleRows
<1>2. UNCHANGED op
  BY GoogleOwn
<1>3. /\ me'[r] # None => copy'[r] \in Columns
      /\ r \in DOMAIN users' => me'[r] = r
  BY <1>1, RowsType
<1> USE DEF Core, TypeOK, Goto, Answer, AnswerAfterRefresh, sessions, mail, links, PCs
<1>4. CASE pc'[r] = "done"
  BY <1>1, <1>2, <1>4, Ended
<1>5. CASE SignInUnknown(r)
  <2>1. me'[r] = None /\ pc'[r] = "byEmail" /\ op'[r] = "google" /\ profile'[r] \in Googles
    BY <1>2, <1>5 DEF SignInUnknown, Working, Unloaded
  <2> QED
    BY <1>3, <2>1 DEF Working, Unloaded, Rowed, Doing
<1>6. CASE FindByEmail(r)
  <2>1. PICK u \in DOMAIN users : users[u].email = Gmail[profile[r]] /\ Load(r, u)
    BY <1>6 DEF FindByEmail
  <2>2. op[r] = "google" /\ profile[r] \in Googles
    BY <1>6 DEF FindByEmail, Working, Doing
  <2>3. me'[r] # None /\ copy'[r].email = Gmail[profile[r]] /\ pc'[r] = "adopt" /\ op'[r] = "google"
        /\ UNCHANGED profile
    BY <1>2, <1>6, <2>1, <2>2, NoneApart DEF FindByEmail, Load
  <2> QED
    BY <1>3, <2>2, <2>3 DEF Working, Unloaded, Rowed, Doing
<1>7. CASE FindNobody(r)
  <2>1. op[r] = "google" /\ profile[r] \in Googles /\ me[r] = None
    BY <1>7 DEF FindNobody, Working, Doing, Unloaded
  <2>2. me'[r] = None /\ pc'[r] = "create" /\ op'[r] = "google" /\ UNCHANGED profile
    BY <1>2, <1>7, <2>1 DEF FindNobody
  <2> QED
    BY <1>3, <2>1, <2>2 DEF Working, Unloaded, Rowed, Doing
<1>8. CASE StartLink(r)
  <2>1. PICK u \in DOMAIN users, g \in Googles :
           /\ users[u].verified /\ Gmail[g] = users[u].email /\ Load(r, u)
           /\ profile' = [profile EXCEPT ![r] = g]
    BY <1>8 DEF StartLink, SignedIn
  <2>2. me'[r] # None /\ copy'[r].email = Gmail[profile'[r]] /\ copy'[r].verified
        /\ pc'[r] = "link" /\ op'[r] = "link" /\ profile'[r] \in Googles
    BY <1>2, <1>8, <2>1, NoneApart DEF StartLink, Load
  <2> QED
    BY <1>3, <2>2 DEF Working, Unloaded, Rowed, Doing
<1>9. CASE StartUnlink(r)
  <2>1. me'[r] # None /\ copy'[r].password # None /\ pc'[r] = "unlink" /\ op'[r] = "unlink"
    BY <1>2, <1>9, NoneApart DEF StartUnlink, Load
  <2> QED
    BY <1>3, <2>1 DEF Working, Unloaded, Rowed, Doing
<1> QED
  BY <1>4, <1>5, <1>6, <1>7, <1>8, <1>9
     DEF GoogleHandler, SignInKnown, Adopt, CreateGoogleUser, SignInClash, Link, LinkClash, Unlink,
         RefuseGoogle
-----------------------------------------------------------------------------
\* A step of a request: one of the disjuncts of Next.
Step(r) ==
    \/ MailHandler(r) /\ MailIssues(r) /\ UNCHANGED profile
    \/ GoogleHandler(r) /\ GoogleIssues(r) /\ UNCHANGED mail
    \/ BearerHandler(r) /\ UNCHANGED <<mail, profile>>

\* What any step does to the users table and the sessions, and leaves of the others.
LEMMA StepShape ==
    ASSUME Core, NEW r \in Requests, Step(r)
    PROVE  /\ Keeps \/ Loads(r) \/ Inserts(r) \/ Saves(r)
           /\ UNCHANGED op
           /\ pc' \in [Requests -> PCs]
           /\ answer' \in [Requests -> {"none", "ok", "refused", "error"}]
           /\ profile' \in [Requests -> Googles \cup {None}]
           /\ \A q \in Requests \ {r} : /\ pc'[q] = pc[q] /\ answer'[q] = answer[q]
                                        /\ link'[q] = link[q] /\ profile'[q] = profile[q]
           /\ pc[r] # "done" /\ pc'[r] # "start"
           /\ pc'[r] # "done" => UNCHANGED answer
           /\ took \subseteq took'
           /\ MailHandler(r) \/ UNCHANGED mail
           /\ Working(r)'
<1>1. CASE MailHandler(r) /\ UNCHANGED profile
  BY <1>1, MailRows, MailOwn, MailWorking DEF Core, TypeOK
<1>2. CASE GoogleHandler(r) /\ GoogleIssues(r) /\ UNCHANGED mail
  BY <1>2, GoogleRows, GoogleOwn, GoogleWorking DEF mail
<1>3. CASE BearerHandler(r) /\ UNCHANGED <<mail, profile>>
  <2>1. /\ pc[r] = "start" /\ pc' = [pc EXCEPT ![r] = "done"]
        /\ \E what \in {"ok", "refused"} : answer' = [answer EXCEPT ![r] = what]
        /\ Keeps /\ UNCHANGED <<op, link, profile, took>>
    BY <1>3 DEF BearerHandler, Login, Refresh, RefuseBearer, Goto, Answer, AnswerAfterRefresh, sessions, Keeps, mail
  <2>2. /\ pc' \in [Requests -> PCs] /\ pc'[r] = "done"
        /\ answer' \in [Requests -> {"none", "ok", "refused", "error"}]
        /\ \A q \in Requests \ {r} : pc'[q] = pc[q] /\ answer'[q] = answer[q]
    BY <2>1 DEF Core, TypeOK, PCs
  <2>3. Working(r)'
    BY <2>1, <2>2, Ended
  <2> QED
    BY <1>3, <2>1, <2>2, <2>3 DEF Core, TypeOK
<1> QED
  BY <1>1, <1>2, <1>3 DEF Step

\* A request that does not move keeps what its place says of it.
LEMMA OthersWorking ==
    ASSUME Core, NEW r \in Requests, Step(r), NEW q \in Requests \ {r}
    PROVE  Working(q)'
<1>1. /\ op'[q] = op[q] /\ pc'[q] = pc[q] /\ link'[q] = link[q] /\ profile'[q] = profile[q]
      /\ me'[q] = me[q] /\ copy'[q] = copy[q]
      /\ q \in DOMAIN users' => me'[q] = q
      /\ DOMAIN users \subseteq DOMAIN users'
  BY StepShape, RowsType
<1>2. LinksStay
  <2>1. CASE MailHandler(r)
    BY <1>1, <2>1, LinkTables, ZenonT(30)
  <2>2. CASE UNCHANGED mail
    BY <2>2 DEF mail, links, LinksStay
  <2> QED
    BY <2>1, <2>2, StepShape
<1>3. Working(q)
  BY DEF Core
<1> QED
  BY <1>1, <1>2, <1>3 DEF Working, LinksStay

\* A verification that succeeds leaves the address of its row alone.
LEMMA Verifies ==
    ASSUME Core, NEW r \in Requests, MailHandler(r), op[r] = "verify", answer'[r] = "ok"
    PROVE  /\ pc[r] = "confirm" /\ me[r] # None /\ copy[r] \in Columns /\ me[r] \in DOMAIN users
           /\ me'[r] = me[r] /\ copy'[r] = copy[r]
           /\ users'[me[r]].email = users[me[r]].email
<1>1. Confirm(r)
  BY DEF MailHandler, CreateUser, RegisterTaken, StartResend, ResendNothing, Wipe, StoreToken,
     FindToken, ConfirmGone, AskChange, FindChange, CheckAddress, CloseChange, ApplyChange,
     ApplyClash, FindReset, BurnReset, LoadForReset, StartSetPassword, StorePassword, Refuse,
     MailFails, Core, TypeOK, Working, Doing, Answer, Goto
<1> DEFINE to == [copy[r] EXCEPT !.verified = TRUE]
<1>2. Save(r, to) /\ UNCHANGED sessions /\ pc[r] = "confirm"
  BY <1>1 DEF Confirm
<1>3. me[r] # None /\ copy[r] \in Columns
  BY <1>2 DEF Core, Working, Rowed, Unloaded, PCs
<1>4. to \in Columns /\ to.email = copy[r].email
  BY <1>3 DEF Columns
<1> HIDE DEF to
<1>5. users'[me[r]].email = users[me[r]].email /\ me[r] \in DOMAIN users
  BY <1>2, <1>3, <1>4, SaveRow, FlushType DEF Core
<1> QED
  BY <1>2, <1>3, <1>5 DEF sessions

\* Bearer tokens claim rows that are there, and the address they have, or had when the user of
\* a verification link was loaded.
LEMMA Issued ==
    ASSUME Core, NEW r \in Requests, Step(r)
    PROVE  /\ DOMAIN bearer' \subseteq Ids /\ bearer' \in [DOMAIN bearer' -> Claims]
           /\ \A b \in DOMAIN bearer' : bearer'[b].id \in DOMAIN users'
           /\ \/ UNCHANGED bearer
              \/ \E c \in Claims :
                    /\ Issue(r, c)
                    /\ c.id \in DOMAIN users'
                    /\ \/ c.sub = users'[c.id].email
                       \/ /\ op[r] = "verify" /\ pc[r] = "confirm" /\ me[r] # None
                          /\ c.id = me[r] /\ c.sub = copy[r].email
                          /\ users'[c.id].email = users[c.id].email
<1>1. /\ DOMAIN users \subseteq DOMAIN users' /\ DOMAIN users' \subseteq Ids
      /\ users' \in [DOMAIN users' -> Columns]
      /\ me'[r] # None => me'[r] \in DOMAIN users'
  BY StepShape, RowsType
<1>2. \/ UNCHANGED bearer
      \/ \E c \in Claims :
            /\ Issue(r, c)
            /\ c.id \in DOMAIN users'
            /\ \/ c.sub = users'[c.id].email
               \/ /\ op[r] = "verify" /\ pc[r] = "confirm" /\ me[r] # None
                  /\ c.id = me[r] /\ c.sub = copy[r].email
                  /\ users'[c.id].email = users[c.id].email
  <2>1. ASSUME NEW u \in DOMAIN users', Issue(r, [id |-> u, sub |-> users'[u].email])
        PROVE  \E c \in Claims :
                  Issue(r, c) /\ c.id \in DOMAIN users' /\ c.sub = users'[c.id].email
    <3> DEFINE c == [id |-> u, sub |-> users'[u].email]
    <3>1. users'[u] \in Columns /\ u \in Ids
      BY <1>1
    <3>2. c \in Claims /\ c.id = u /\ c.sub = users'[u].email
      BY <3>1, ColumnsFields DEF Claims
    <3> HIDE DEF c
    <3> QED
      BY <2>1, <3>2 DEF c
  <2>2. CASE BearerHandler(r)
    <3>1. CASE RefuseBearer(r)
      BY <3>1 DEF RefuseBearer
    <3>2. CASE Login(r)
      BY <2>1, <3>2 DEF Login
    <3>3. CASE Refresh(r)
      BY <2>1, <3>3 DEF Refresh
    <3> QED
      BY <2>2, <3>1, <3>2, <3>3 DEF BearerHandler
  <2>3. CASE GoogleHandler(r) /\ GoogleIssues(r) /\ op[r] = "google" /\ answer'[r] = "ok"
    <3>1. me'[r] # None
      BY <2>3, NoneApart DEF GoogleHandler, SignInKnown, SignInUnknown, FindByEmail,
         FindNobody, Adopt, CreateGoogleUser, SignInClash, StartLink, Link, LinkClash, StartUnlink,
         Unlink, RefuseGoogle, Core, Working, Doing, TypeOK, Load, Answer, AnswerAfterRefresh,
         Goto, sessions, Rowed, Unloaded, PCs, Ids
    <3> QED
      BY <1>1, <2>1, <2>3, <3>1 DEF GoogleIssues, GoogleToken
  <2>4. CASE MailHandler(r) /\ MailIssues(r) /\ op[r] = "verify" /\ answer'[r] = "ok"
    <3> DEFINE c == MailToken(r)
    <3>1. c = [id |-> me[r], sub |-> copy[r].email] /\ Issue(r, c)
      BY <2>4 DEF MailIssues, MailToken
    <3>2. /\ pc[r] = "confirm" /\ me[r] # None /\ copy[r] \in Columns /\ me[r] \in DOMAIN users
          /\ users'[me[r]].email = users[me[r]].email
      BY <2>4, Verifies
    <3>3. c \in Claims /\ c.id = me[r] /\ c.sub = copy[r].email
      BY <1>1, <3>1, <3>2, ColumnsFields DEF Claims
    <3> HIDE DEF c
    <3> QED
      BY <1>1, <2>4, <3>1, <3>2, <3>3
  <2>5. CASE MailHandler(r) /\ MailIssues(r) /\ op[r] = "confirmChange" /\ answer'[r] = "ok"
    <3>1. me'[r] = me[r] /\ me[r] # None
      BY <2>5 DEF MailHandler, CreateUser, RegisterTaken, StartResend, ResendNothing, Wipe,
         StoreToken, FindToken, Confirm, ConfirmGone, AskChange, FindChange, CheckAddress,
         CloseChange, ApplyChange, ApplyClash, FindReset, BurnReset, LoadForReset,
         StartSetPassword, StorePassword, Refuse, MailFails, Core, TypeOK, Working, Doing,
         Answer, Goto, sessions, Rowed, Unloaded, PCs
    <3>2. Issue(r, [id |-> me[r], sub |-> users'[me[r]].email])
      BY <2>5 DEF MailIssues, MailToken
    <3> QED
      BY <1>1, <2>1, <3>1, <3>2
  <2> QED
    BY <2>2, <2>3, <2>4, <2>5 DEF Step, GoogleIssues, MailIssues
<1>3. CASE UNCHANGED bearer
  BY <1>1, <1>3 DEF Core, TypeOK
<1>4. ASSUME NEW c \in Claims, Issue(r, c), c.id \in DOMAIN users'
      PROVE  /\ DOMAIN bearer' \subseteq Ids /\ bearer' \in [DOMAIN bearer' -> Claims]
             /\ \A b \in DOMAIN bearer' : bearer'[b].id \in DOMAIN users'
  BY <1>1, <1>4 DEF Core, TypeOK, Issue, Added, Ids
<1> QED
  BY <1>2, <1>3, <1>4

\* The types and places are kept by every step.
LEMMA StepCore == 
    ASSUME Core, NEW r \in Requests, Step(r)
    PROVE  Core'
<1>1. \A q \in Requests : Working(q)' /\ (pc'[q] # "done" => answer'[q] = "none")
  BY StepShape, OthersWorking DEF Core
<1>2. /\ DOMAIN users' \subseteq Ids /\ users' \in [DOMAIN users' -> Columns]
      /\ DOMAIN users \subseteq DOMAIN users'
      /\ me' \in [Requests -> Ids \cup {None}]
      /\ copy' \in [Requests -> Columns \cup {NoColumns}]
      /\ stale' \subseteq Requests /\ mixed' \subseteq Ids
      /\ \A q \in Requests :
            IF me'[q] = None THEN copy'[q] = NoColumns ELSE me'[q] \in DOMAIN users'
  BY StepShape, RowsType
<1>3. /\ DOMAIN bearer' \subseteq Ids /\ bearer' \in [DOMAIN bearer' -> Claims]
      /\ \A b \in DOMAIN bearer' : bearer'[b].id \in DOMAIN users'
  BY Issued
<1>4. /\ UNCHANGED op /\ pc' \in [Requests -> PCs]
      /\ answer' \in [Requests -> {"none", "ok", "refused", "error"}]
      /\ profile' \in [Requests -> Googles \cup {None}]
  BY StepShape
<1>5. CASE MailHandler(r)
  <2>1. /\ DOMAIN tokens' \subseteq Ids /\ tokens' \in [DOMAIN tokens' -> Verifications]
        /\ DOMAIN changes' \subseteq Ids /\ changes' \in [DOMAIN changes' -> Changes]
        /\ DOMAIN resets' = DOMAIN resets /\ resets' \in [DOMAIN resets -> BOOLEAN]
        /\ \A t \in DOMAIN tokens' : tokens'[t].user \in DOMAIN users'
        /\ \A c \in DOMAIN changes' : changes'[c].user \in DOMAIN users'
    BY <1>2, <1>5, LinkTables, ZenonT(30)
  <2>2. /\ link' \in [Requests -> Ids \cup {None}]
        /\ doomed' \in [Requests -> SUBSET Ids]
        /\ behind' \in [Requests -> SUBSET Requests]
        /\ since' \in [Requests -> SUBSET Requests]
        /\ took' \subseteq Requests
    BY <1>5, MailOwn, ZenonT(30)
  <2> QED
    BY <1>1, <1>2, <1>3, <1>4, <2>1, <2>2 DEF Core, TypeOK
<1>6. CASE UNCHANGED mail
  BY <1>1, <1>2, <1>3, <1>4, <1>6 DEF Core, TypeOK, mail, links
<1> QED
  BY <1>5, <1>6, StepShape
=============================================================================
