----------------------------- MODULE EmailLinks -----------------------------
(***************************************************************************)
(* Registration, and the links the service sends by e-mail: to verify an   *)
(* address, to change it, to reset a password (services/user_service.py,   *)
(* routers/auth/).  A link is named by the request that stored it, or by   *)
(* the user it belonged to from the start.                                 *)
(*                                                                         *)
(* A handler selects the link unused and loads the row, and writes both    *)
(* later; a reset burns its link in a commit of its own.  The DELETE that  *)
(* makes room for a new verification link sees the links committed before  *)
(* it and holds them until its session ends.                               *)
(***************************************************************************)
EXTENDS Users

VARIABLES
    tokens,    \* verification links
    changes,   \* links of address changes
    resets,    \* reset links: the user -> whether it is burned
    link,      \* request -> the link it follows
    doomed,    \* request -> verification links its uncommitted DELETE has seen
    behind,    \* request -> the requests whose DELETE saw one of them first
    since,     \* request -> the requests that committed while it ran (history)
    took       \* requests whose link took effect (history)

mail  == <<tokens, changes, resets, link, doomed, behind, since, took>>
links == <<tokens, changes, resets>>

Verifications == [user : Ids, to : Emails, used : BOOLEAN]
Changes       == [user : Ids, email : Emails, done : BOOLEAN]

LinkOps == {"verify", "confirmChange", "reset"}
MailOps == {"register", "resend", "askChange", "setPassword"} \cup LinkOps

\* Rows that were there may have a link of each kind, an address change to any address; nothing
\* in the service stores a reset link.
MailInit ==
    /\ \E with \in SUBSET {u \in Known : ~users[u].verified} :
          tokens = [u \in with |-> [user |-> u, to |-> users[u].email, used |-> FALSE]]
    /\ \E with \in SUBSET {u \in Known : users[u].verified /\ users[u].password # None},
          e \in Emails :
          changes = [u \in with |-> [user |-> u, email |-> e, done |-> FALSE]]
    /\ \E with \in SUBSET Known : resets = [u \in with |-> FALSE]
    /\ link = [r \in Requests |-> None]
    /\ doomed = [r \in Requests |-> {}]
    /\ behind = [r \in Requests |-> {}]
    /\ since = [r \in Requests |-> {}]
    /\ took = {}

\* Request r commits.
Committed(r) ==
    since' = [q \in Requests |->
                 IF q # r /\ pc[q] \notin {"start", "done"} THEN since[q] \cup {r} ELSE since[q]]

Follow(r, l) == link' = [link EXCEPT ![r] = l]

NobodyHas(e) == \A u \in DOMAIN users : users[u].email # e
-----------------------------------------------------------------------------
\* The row of create_user.
NewUser(r, e) ==
    [email |-> e, google |-> None, password |-> r, auth |-> "password", verified |-> FALSE]

\* create_user inserts an unverified row; the link is sent after that commit.
CreateUser(r) ==
    /\ pc[r] = "start" /\ op[r] = "register"
    /\ \E e \in Emails :
          /\ Insert(r, NewUser(r, e))
          /\ copy' = [copy EXCEPT ![r] = NewUser(r, e)]
    /\ me' = [me EXCEPT ![r] = r]
    /\ Goto(r, "send")
    /\ Committed(r)
    /\ UNCHANGED <<op, answer, stale, mixed, links, link, doomed, behind, took>>

RegisterTaken(r) ==
    /\ pc[r] = "start" /\ op[r] = "register"
    /\ \E e \in Emails : InsertClashes(r, NewUser(r, e))
    /\ Answer(r, "refused")
    /\ UNCHANGED <<users, sessions, stale, mixed, mail>>

\* resend_verification_email sends to an unverified user...
StartResend(r) ==
    /\ pc[r] = "start" /\ op[r] = "resend"
    /\ \E u \in DOMAIN users : ~users[u].verified /\ Load(r, u)
    /\ Goto(r, "send")
    /\ UNCHANGED <<users, op, answer, mixed, mail>>

\* ...and tells everybody else the same.
ResendNothing(r) ==
    /\ pc[r] = "start" /\ op[r] = "resend"
    /\ \/ \E e \in Emails : NobodyHas(e)
       \/ \E u \in DOMAIN users : users[u].verified
    /\ Answer(r, "ok")
    /\ UNCHANGED <<users, sessions, stale, mixed, mail>>

UnusedOf(u) == {t \in DOMAIN tokens : tokens[t].user = u /\ ~tokens[t].used}

\* Mutant of Wipe: the links sent before stay.
WipeNothing(r) ==
    /\ pc[r] = "send"
    /\ Goto(r, "store")
    /\ UNCHANGED <<users, sessions, answer, stale, mixed, mail>>

\* create_verification_token deletes the unused links of the user, not yet committed.
Wipe(r) ==
    /\ pc[r] = "send"
    /\ doomed' = [doomed EXCEPT ![r] = UnusedOf(me[r])]
    /\ behind' = [behind EXCEPT ![r] = {q \in Requests : doomed[q] \cap UnusedOf(me[r]) # {}}]
    /\ Goto(r, "store")
    /\ UNCHANGED <<users, sessions, answer, stale, mixed, links, link, since, took>>

\* The new link and the DELETE are committed, after those who deleted before.
StoreToken(r) ==
    /\ pc[r] = "store"
    /\ \A q \in behind[r] : pc[q] # "store"
    /\ tokens' = [t \in (DOMAIN tokens \ doomed[r]) \cup {r} |->
                     IF t = r THEN [user |-> me[r], to |-> copy[r].email, used |-> FALSE]
                     ELSE tokens[t]]
    /\ doomed' = [doomed EXCEPT ![r] = {}]
    /\ behind' = [behind EXCEPT ![r] = {}]
    /\ Answer(r, "ok")
    /\ Committed(r)
    /\ UNCHANGED <<users, sessions, stale, mixed, changes, resets, link, took>>
-----------------------------------------------------------------------------
\* Mutant of FindToken: a used link is as good as an unused one.
FindTokenUsed(r) ==
    /\ pc[r] = "start" /\ op[r] = "verify"
    /\ \E t \in DOMAIN tokens : Load(r, tokens[t].user) /\ Follow(r, t)
    /\ Goto(r, "confirm")
    /\ UNCHANGED <<users, op, answer, mixed, links, doomed, behind, since, took>>

\* verify_email finds the link unused and loads its user.
FindToken(r) ==
    /\ pc[r] = "start" /\ op[r] = "verify"
    /\ \E t \in DOMAIN tokens :
          /\ ~tokens[t].used
          /\ Load(r, tokens[t].user) /\ Follow(r, t)
    /\ Goto(r, "confirm")
    /\ UNCHANGED <<users, op, answer, mixed, links, doomed, behind, since, took>>

\* The user is verified and the link used in one commit, which waits for a DELETE of the link.
\* The answer carries a bearer token (Accounts!MailToken).
Confirm(r) ==
    /\ pc[r] = "confirm" /\ link[r] \in DOMAIN tokens
    /\ \A q \in Requests : link[r] \notin doomed[q]
    /\ Save(r, [copy[r] EXCEPT !.verified = TRUE])
    /\ tokens' = [tokens EXCEPT ![link[r]].used = TRUE]
    /\ Answer(r, "ok")
    /\ Committed(r)
    /\ took' = took \cup {r}
    /\ UNCHANGED <<sessions, changes, resets, link, doomed, behind>>

\* The link is gone: the UPDATE matches no row, and nothing is committed.
ConfirmGone(r) ==
    /\ pc[r] = "confirm" /\ link[r] \notin DOMAIN tokens
    /\ Answer(r, "refused")
    /\ UNCHANGED <<users, sessions, stale, mixed, mail>>
-----------------------------------------------------------------------------
\* Mutant of AskChange: the address of the row changes at once.
AskChangeAtOnce(r) ==
    /\ pc[r] = "start" /\ op[r] = "askChange"
    /\ \E u \in DOMAIN users, e \in Emails :
          /\ users[u].verified /\ users[u].password # None /\ NobodyHas(e)
          /\ users' = [users EXCEPT ![u].email = e]
          /\ changes' = Added(changes, r, [user |-> u, email |-> e, done |-> FALSE])
    /\ Answer(r, "ok")
    /\ Committed(r)
    /\ UNCHANGED <<sessions, stale, mixed, tokens, resets, link, doomed, behind, took>>

\* create_email_change_request commits a link to an address no other row has; when the e-mail
\* cannot be sent the request fails, and the link stays.  (The route calls it with other
\* arguments than it takes and always fails; this is the service's operation.)
AskChange(r) ==
    /\ pc[r] = "start" /\ op[r] = "askChange"
    /\ \E u \in DOMAIN users, e \in Emails :
          /\ SignedIn(u) /\ users[u].password # None
          /\ NobodyHas(e) \/ users[u].email = e
          /\ changes' = Added(changes, r, [user |-> u, email |-> e, done |-> FALSE])
    /\ \E what \in {"ok", "error"} : Answer(r, what)
    /\ Committed(r)
    /\ UNCHANGED <<users, sessions, stale, mixed, tokens, resets, link, doomed, behind, took>>

\* verify_email_change finds the link open and loads its user.
FindChange(r) ==
    /\ pc[r] = "start" /\ op[r] = "confirmChange"
    /\ \E c \in DOMAIN changes :
          /\ ~changes[c].done
          /\ Load(r, changes[c].user) /\ Follow(r, c)
    /\ Goto(r, "check")
    /\ UNCHANGED <<users, op, answer, mixed, links, doomed, behind, since, took>>

NewEmail(r) == changes[link[r]].email

\* Does another row have the address by now?
CheckAddress(r) ==
    /\ pc[r] = "check"
    /\ IF \E u \in DOMAIN users \ {me[r]} : users[u].email = NewEmail(r)
       THEN Goto(r, "close")
       ELSE Goto(r, "apply")
    /\ UNCHANGED <<users, sessions, answer, stale, mixed, mail>>

CloseChange(r) ==
    /\ pc[r] = "close"
    /\ changes' = [changes EXCEPT ![link[r]].done = TRUE]
    /\ Answer(r, "refused")
    /\ Committed(r)
    /\ UNCHANGED <<users, sessions, stale, mixed, tokens, resets, link, doomed, behind, took>>

Moved(r) == [copy[r] EXCEPT !.email = NewEmail(r), !.verified = TRUE]

\* The address and the link are committed together; a failing refresh or e-mail is answered
\* like a bad link.  A good answer carries a bearer token (Accounts!MailToken).
ApplyChange(r) ==
    /\ pc[r] = "apply"
    /\ Save(r, Moved(r))
    /\ changes' = [changes EXCEPT ![link[r]].done = TRUE]
    /\ \E what \in {"ok", "refused"} : Answer(r, what)
    /\ Committed(r)
    /\ took' = took \cup {r}
    /\ UNCHANGED <<sessions, tokens, resets, link, doomed, behind>>

\* Another row took the address after it was checked: nothing is committed, the link is open.
ApplyClash(r) ==
    /\ pc[r] = "apply"
    /\ SaveClashes(r, Moved(r))
    /\ Answer(r, "refused")
    /\ UNCHANGED <<users, sessions, stale, mixed, mail>>
-----------------------------------------------------------------------------
\* verify_reset_token selects the link unburned...
FindReset(r) ==
    /\ pc[r] = "start" /\ op[r] = "reset"
    /\ \E u \in DOMAIN resets : ~resets[u] /\ Follow(r, u)
    /\ Goto(r, "burn")
    /\ UNCHANGED <<users, sessions, answer, stale, mixed, links, doomed, behind, since, took>>

\* ...and burns it, before anything has been done with it.
BurnReset(r) ==
    /\ pc[r] = "burn"
    /\ resets' = [resets EXCEPT ![link[r]] = TRUE]
    /\ Goto(r, "user")
    /\ Committed(r)
    /\ UNCHANGED <<users, sessions, answer, stale, mixed, tokens, changes, link, doomed, behind, took>>

\* reset_password loads the user in a new transaction.
LoadForReset(r) ==
    /\ pc[r] = "user"
    /\ Load(r, link[r])
    /\ Goto(r, "password")
    /\ UNCHANGED <<users, op, answer, mixed, mail>>

\* update_user_password checks the password the user has and loads him.
StartSetPassword(r) ==
    /\ pc[r] = "start" /\ op[r] = "setPassword"
    /\ \E u \in DOMAIN users :
          /\ SignedIn(u) /\ users[u].password # None
          /\ Load(r, u)
    /\ Goto(r, "password")
    /\ UNCHANGED <<users, op, answer, mixed, mail>>

\* Mutant of StorePassword: the commit is forgotten.
ForgetPassword(r) ==
    /\ pc[r] = "password"
    /\ Answer(r, "ok")
    /\ UNCHANGED <<users, sessions, stale, mixed, mail>>

\* The new password, and nothing else, is committed; the e-mail after a reset may fail.
StorePassword(r) ==
    /\ pc[r] = "password"
    /\ Save(r, [copy[r] EXCEPT !.password = r])
    /\ \E what \in {"ok", "error"} : Answer(r, what)
    /\ Committed(r)
    /\ took' = IF op[r] = "reset" THEN took \cup {r} ELSE took
    /\ UNCHANGED <<sessions, links, link, doomed, behind>>
-----------------------------------------------------------------------------
\* No such link, used, expired or burned; a wrong password, an address that is taken.
Refuse(r) ==
    /\ pc[r] = "start" /\ op[r] \in LinkOps \cup {"askChange", "setPassword"}
    /\ Answer(r, "refused")
    /\ UNCHANGED <<users, sessions, stale, mixed, mail>>

\* A statement or a commit fails: the session rolls back.  A resend does not let on, and the
\* two links that concern an address are refused like bad ones.
MailFails(r) ==
    /\ op[r] \in MailOps /\ pc[r] # "done"
    /\ Answer(r, CASE op[r] = "resend" -> "ok"
                   [] op[r] \in {"verify", "confirmChange"} -> "refused"
                   [] OTHER -> "error")
    /\ doomed' = [doomed EXCEPT ![r] = {}]
    /\ behind' = [behind EXCEPT ![r] = {}]
    /\ UNCHANGED <<users, sessions, stale, mixed, links, link, since, took>>

MailHandler(r) ==
    \/ CreateUser(r) \/ RegisterTaken(r) \/ StartResend(r) \/ ResendNothing(r)
    \/ Wipe(r) \/ StoreToken(r)
    \/ FindToken(r) \/ Confirm(r) \/ ConfirmGone(r)
    \/ AskChange(r) \/ FindChange(r) \/ CheckAddress(r) \/ CloseChange(r)
    \/ ApplyChange(r) \/ ApplyClash(r)
    \/ FindReset(r) \/ BurnReset(r) \/ LoadForReset(r) \/ StartSetPassword(r) \/ StorePassword(r)
    \/ Refuse(r) \/ MailFails(r)
=============================================================================
