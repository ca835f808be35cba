------------------------------- MODULE Bearer -------------------------------
(***************************************************************************)
(* The bearer tokens (core/auth.py, core/security.py, the login and        *)
(* refresh routes).  A token claims a row twice, by its id and by its      *)
(* address ("sub"); whoever presents it is taken for the row that has the  *)
(* address then.  Tokens are not stored: one that was issued stays, logout *)
(* and a new password do not end it.  That it expires is left out; a       *)
(* refresh renews it as often as its holder likes.                         *)
(***************************************************************************)
EXTENDS Users

VARIABLE
    bearer    \* request that issued a token, or row that had it -> its claims

Claims == [id : Ids, sub : Emails]

BearerOps == {"login", "refresh"}

\* Verified rows have a token from the start.
BearerInit ==
    bearer = [u \in {v \in Known : users[v].verified} |-> [id |-> u, sub |-> users[u].email]]

Issue(r, claims) == bearer' = Added(bearer, r, claims)
-----------------------------------------------------------------------------
\* authenticate_user passes a row without a password unless it is marked "google"; login wants
\* it verified too.
Login(r) ==
    /\ pc[r] = "start" /\ op[r] = "login"
    /\ \E u \in DOMAIN users :
          /\ users[u].verified
          /\ users[u].password # None \/ users[u].auth # "google"
          /\ Issue(r, [id |-> u, sub |-> users[u].email])
    /\ Answer(r, "ok")
    /\ UNCHANGED <<users, sessions, stale, mixed>>

\* The row that has the address of the token gets a token, verified or not.
Refresh(r) ==
    /\ pc[r] = "start" /\ op[r] = "refresh"
    /\ \E b \in DOMAIN bearer, u \in DOMAIN users :
          /\ users[u].email = bearer[b].sub
          /\ Issue(r, [id |-> u, sub |-> users[u].email])
    /\ Answer(r, "ok")
    /\ UNCHANGED <<users, sessions, stale, mixed>>

\* Wrong credentials, a row that is not verified, a token nobody has the address of.
RefuseBearer(r) ==
    /\ pc[r] = "start" /\ op[r] \in BearerOps
    /\ Answer(r, "refused")
    /\ UNCHANGED <<users, sessions, stale, mixed, bearer>>

BearerHandler(r) == Login(r) \/ Refresh(r) \/ RefuseBearer(r)
=============================================================================
