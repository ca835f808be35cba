---------------------------- MODULE GoogleSignIn ----------------------------
(***************************************************************************)
(* Signing in with Google, and linking and unlinking a Google identity     *)
(* (services/oauth_service.py, routers/auth/social_auth.py).               *)
(*                                                                         *)
(* A sign-in looks for the identity, then for the address, then writes:    *)
(* three statements between which others commit.  Linking waits for two    *)
(* answers of Google between loading the row and writing it.               *)
(***************************************************************************)
EXTENDS Users

VARIABLE
    profile   \* request -> the Google identity its code was exchanged for

GoogleOps == {"google", "link", "unlink"}

GoogleInit == profile = [r \in Requests |-> None]
-----------------------------------------------------------------------------
\* The code is exchanged and a row has the identity: nothing is written.
SignInKnown(r) ==
    /\ pc[r] = "start" /\ op[r] = "google"
    /\ \E g \in Googles, u \in DOMAIN users :
          /\ users[u].google = g
          /\ profile' = [profile EXCEPT ![r] = g]
          /\ Load(r, u)
    /\ Answer(r, "ok")
    /\ UNCHANGED <<users, op, mixed>>

\* No row has the identity yet.
SignInUnknown(r) ==
    /\ pc[r] = "start" /\ op[r] = "google"
    /\ \E g \in Googles :
          /\ \A u \in DOMAIN users : users[u].google # g
          /\ profile' = [profile EXCEPT ![r] = g]
    /\ Goto(r, "byEmail")
    /\ UNCHANGED <<users, op, me, copy, answer, stale, mixed>>

\* A row has the address of the profile: it is to get the identity.
FindByEmail(r) ==
    /\ pc[r] = "byEmail"
    /\ \E u \in DOMAIN users : users[u].email = Gmail[profile[r]] /\ Load(r, u)
    /\ Goto(r, "adopt")
    /\ UNCHANGED <<users, op, answer, mixed, profile>>

FindNobody(r) ==
    /\ pc[r] = "byEmail"
    /\ \A u \in DOMAIN users : users[u].email # Gmail[profile[r]]
    /\ Goto(r, "create")
    /\ UNCHANGED <<users, sessions, answer, stale, mixed, profile>>

Adopted(r) ==
    [copy[r] EXCEPT !.google = profile[r], !.verified = TRUE,
                    !.auth = IF copy[r].password = None THEN "google" ELSE "both"]

\* The row is read again after every commit: when that fails, the caller is refused what has
\* been committed.
AnswerAfterRefresh(r) == \E what \in {"ok", "refused"} : Answer(r, what)

\* find_or_create_user gives the row the identity, over another one it may have had.
Adopt(r) ==
    /\ pc[r] = "adopt"
    /\ Save(r, Adopted(r))
    /\ AnswerAfterRefresh(r)
    /\ UNCHANGED <<sessions, profile>>

NewGoogleUser(r) ==
    [email |-> Gmail[profile[r]], google |-> profile[r], password |-> None,
     auth |-> "google", verified |-> TRUE]

\* A new account without a password.
CreateGoogleUser(r) ==
    /\ pc[r] = "create"
    /\ Insert(r, NewGoogleUser(r))
    /\ me' = [me EXCEPT ![r] = r]
    /\ copy' = [copy EXCEPT ![r] = NewGoogleUser(r)]
    /\ AnswerAfterRefresh(r)
    /\ UNCHANGED <<op, stale, mixed, profile>>

\* Somebody took the identity or the address meanwhile: the constraint's error ends as a 400.
SignInClash(r) ==
    /\ \/ pc[r] = "adopt" /\ SaveClashes(r, Adopted(r))
       \/ pc[r] = "create" /\ InsertClashes(r, NewGoogleUser(r))
    /\ Answer(r, "refused")
    /\ UNCHANGED <<users, sessions, stale, mixed, profile>>
-----------------------------------------------------------------------------
\* A verified user who gave his password links an identity with his own address.
\* authenticate_user passes a row without a password unless it is marked "google".
StartLink(r) ==
    /\ pc[r] = "start" /\ op[r] = "link"
    /\ \E u \in DOMAIN users, g \in Googles :
          /\ SignedIn(u)
          /\ users[u].password # None \/ users[u].auth # "google"
          /\ Gmail[g] = users[u].email
          /\ Load(r, u)
          /\ profile' = [profile EXCEPT ![r] = g]
    /\ Goto(r, "link")
    /\ UNCHANGED <<users, op, answer, mixed>>

Linked(r) == [copy[r] EXCEPT !.google = profile[r], !.auth = "both", !.verified = TRUE]

Link(r) ==
    /\ pc[r] = "link"
    /\ Save(r, Linked(r))
    /\ AnswerAfterRefresh(r)
    /\ UNCHANGED <<sessions, profile>>

\* The identity is another row's.
LinkClash(r) ==
    /\ pc[r] = "link"
    /\ SaveClashes(r, Linked(r))
    /\ Answer(r, "refused")
    /\ UNCHANGED <<users, sessions, stale, mixed, profile>>

\* Mutant of StartUnlink: the row is not asked for a password.
StartUnlinkBlindly(r) ==
    /\ pc[r] = "start" /\ op[r] = "unlink"
    /\ \E u \in DOMAIN users :
          /\ SignedIn(u) /\ users[u].google # None
          /\ Load(r, u)
    /\ Goto(r, "unlink")
    /\ UNCHANGED <<users, op, answer, mixed, profile>>

\* unlink_google_account wants a password to be there first.
StartUnlink(r) ==
    /\ pc[r] = "start" /\ op[r] = "unlink"
    /\ \E u \in DOMAIN users :
          /\ SignedIn(u) /\ users[u].google # None
          /\ users[u].password # None
          /\ Load(r, u)
    /\ Goto(r, "unlink")
    /\ UNCHANGED <<users, op, answer, mixed, profile>>

\* Mutant of Unlink: the way to sign in keeps its old mark.
UnlinkOnly(r) ==
    /\ pc[r] = "unlink"
    /\ Save(r, [copy[r] EXCEPT !.google = None])
    /\ Answer(r, "ok")
    /\ UNCHANGED <<sessions, profile>>

\* Mutant of Unlink: the mark goes with the identity.
UnlinkUnmarked(r) ==
    /\ pc[r] = "unlink"
    /\ Save(r, [copy[r] EXCEPT !.google = None, !.auth = None])
    /\ Answer(r, "ok")
    /\ UNCHANGED <<sessions, profile>>

Unlink(r) ==
    /\ pc[r] = "unlink"
    /\ Save(r, [copy[r] EXCEPT !.google = None, !.auth = "password"])
    /\ AnswerAfterRefresh(r)
    /\ UNCHANGED <<sessions, profile>>

\* Google, the password, the address or the constraint on unlinking says no; nothing is written.
RefuseGoogle(r) ==
    /\ op[r] \in GoogleOps /\ pc[r] # "done"
    /\ Answer(r, "refused")
    /\ UNCHANGED <<users, sessions, stale, mixed, profile>>

GoogleHandler(r) ==
    \/ SignInKnown(r) \/ SignInUnknown(r) \/ FindByEmail(r) \/ FindNobody(r)
    \/ Adopt(r) \/ CreateGoogleUser(r) \/ SignInClash(r)
    \/ StartLink(r) \/ Link(r) \/ LinkClash(r)
    \/ StartUnlink(r) \/ Unlink(r)
    \/ RefuseGoogle(r)
=============================================================================
