------------------------------ MODULE Accounts ------------------------------
(***************************************************************************)
(* The users table under everything that writes it, EmailLinks and         *)
(* GoogleSignIn, and the bearer tokens that name its rows.  Each handler   *)
(* runs in one session of its own; they meet only in the tables.           *)
(***************************************************************************)
EXTENDS EmailLinks, GoogleSignIn, Bearer

vars == <<users, op, pc, me, copy, answer, stale, mixed, mail, profile, bearer>>

Init ==
    /\ UsersInit
    /\ op \in [Requests -> MailOps \cup GoogleOps \cup BearerOps]
    /\ MailInit
    /\ GoogleInit
    /\ BearerInit

\* Mutant of GoogleToken: the address in the token is the one Google knows.
GoogleTokenOfProfile(r) == [id |-> me'[r], sub |-> Gmail[profile'[r]]]

\* Mutant of GoogleToken: the row is not read again after the commit.
GoogleTokenOfCopy(r) == [id |-> me'[r], sub |-> copy'[r].email]

\* The token of login_with_google has the address that is stored: a row it wrote it has read
\* again, one it only found it has just read.
GoogleToken(r) == [id |-> me'[r], sub |-> users'[me'[r]].email]

\* verify_email makes its token of the row as it loaded it, verify_email_change reads it again.
MailToken(r) ==
    [id |-> me[r], sub |-> IF op[r] = "verify" THEN copy[r].email ELSE users'[me[r]].email]

\* Google sign-ins, verifications and address changes that succeed end with a token.
GoogleIssues(r) ==
    IF op[r] = "google" /\ answer'[r] = "ok" THEN Issue(r, GoogleToken(r)) ELSE UNCHANGED bearer

MailIssues(r) ==
    IF op[r] \in {"verify", "confirmChange"} /\ answer'[r] = "ok" THEN Issue(r, MailToken(r))
    ELSE UNCHANGED bearer

Next ==
    \E r \in Requests :
        \/ MailHandler(r) /\ MailIssues(r) /\ UNCHANGED profile
        \/ GoogleHandler(r) /\ GoogleIssues(r) /\ UNCHANGED mail
        \/ BearerHandler(r) /\ UNCHANGED <<mail, profile>>

Spec == Init /\ [][Next]_vars
-----------------------------------------------------------------------------
PCs == {"start", "send", "store", "confirm", "check", "close", "apply", "burn", "user",
        "password", "byEmail", "adopt", "create", "link", "unlink", "done"}

\* The values the variables range over.
TypeOK ==
    /\ DOMAIN users \subseteq Ids /\ users \in [DOMAIN users -> Columns]
    /\ op \in [Requests -> MailOps \cup GoogleOps \cup BearerOps]
    /\ pc \in [Requests -> PCs]
    /\ me \in [Requests -> Ids \cup {None}]
    /\ copy \in [Requests -> Columns \cup {NoColumns}]
    /\ \A r \in Requests :
          IF me[r] = None THEN copy[r] = NoColumns ELSE me[r] \in DOMAIN users
    /\ answer \in [Requests -> {"none", "ok", "refused", "error"}]
    /\ stale \subseteq Requests /\ mixed \subseteq Ids
    /\ DOMAIN tokens \subseteq Ids /\ tokens \in [DOMAIN tokens -> Verifications]
    /\ DOMAIN changes \subseteq Ids /\ changes \in [DOMAIN changes -> Changes]
    /\ DOMAIN resets \subseteq Known /\ resets \in [DOMAIN resets -> BOOLEAN]
    /\ link \in [Requests -> Ids \cup {None}]
    /\ doomed \in [Requests -> SUBSET Ids]
    /\ behind \in [Requests -> SUBSET Requests]
    /\ since \in [Requests -> SUBSET Requests]
    /\ took \subseteq Requests
    /\ profile \in [Requests -> Googles \cup {None}]
    /\ DOMAIN bearer \subseteq Ids /\ bearer \in [DOMAIN bearer -> Claims]

\* Whoever has an account can get into it: every row keeps a password or a Google identity,
\* whatever unlinks, resets and sign-ins overlap on it.  (unlink_google_account checks the
\* password it loaded; no session writes a password away.)
SomeWayIn ==
    \A u \in DOMAIN users : users[u].password # None \/ users[u].google # None

\* auth_type says how the user can sign in, except on a row that a session committed to while
\* it held the row stale: "password" exactly without a Google identity, "both" only with both.
\* (Sign-in, link and unlink write google_id and auth_type from what they loaded.)
SignInMatches ==
    \A u \in DOMAIN users \ mixed :
        /\ users[u].auth = "password" <=> users[u].google = None
        /\ users[u].auth = "both" => users[u].password # None

\* One user has two unused verification links only when the two requests that sent them
\* overlapped.  (create_verification_token deletes the links it sees, then inserts.)
OneUnusedToken ==
    \A q, r \in DOMAIN tokens \cap Requests :
        q # r /\ tokens[q].user = tokens[r].user /\ ~tokens[q].used /\ ~tokens[r].used
        => q \in since[r] \/ r \in since[q]

\* A link takes effect for a second request only when the two overlapped: never once the
\* first has committed.  (Each handler selects the link unused and marks it later.)
LinksUsedOnce ==
    \A q, r \in took :
        q # r /\ op[q] = op[r] /\ link[q] = link[r] => q \in since[r] \/ r \in since[q]

\* A burned reset link has set a password, is being used, or its request was told that it
\* failed: nobody is told that his password was reset when it was not.
\* (verify_reset_token commits the burning before reset_password begins.)
ResetHonest ==
    \A u \in DOMAIN resets :
        resets[u] => \E r \in Requests :
            /\ op[r] = "reset" /\ link[r] = u
            /\ r \in took \/ pc[r] # "done" \/ answer[r] = "error"

\* The two claims of a bearer token name the same row, except on a row that has confirmed
\* another address since it was there: nobody else is ever given the token of another user.
\* What an old token of such a row names is left open, and so is who gets the address it gave
\* up.  (Five routes issue tokens; get_current_user goes by the address alone.)
TokenNamesUser ==
    \A b \in DOMAIN bearer :
        \/ users[bearer[b].id].email = bearer[b].sub
        \/ \E q \in took : op[q] = "confirmChange" /\ me[q] = bearer[b].id

\* A token is issued with the address its row has at that moment, on a row with confirmed
\* changes too, but for one case: a verification link whose user changed while it was followed.
\* (find_or_create_user and verify_email_change refresh the row, verify_email does not.)
TokenAsStored ==
    [][\A b \in DOMAIN bearer' \ DOMAIN bearer :
          \/ users'[bearer'[b].id].email = bearer'[b].sub
          \/ op[b] = "verify" /\ b \in stale]_vars

\* The address a request has proof of: the one its link was sent to, or Google's.
Proof(r) ==
    CASE op[r] = "verify" -> tokens[link[r]].to
      [] op[r] = "confirmChange" -> changes[link[r]].email
      [] op[r] \in GoogleOps -> Gmail[profile[r]]

\* A row becomes verified, and a verified row gets another address, only by a request that has
\* proof of the very address the row then has, even if the row changed since it was loaded.
AddressProved ==
    [][\A u \in DOMAIN users' :
          /\ users'[u].verified
          /\ u \in DOMAIN users => ~users[u].verified \/ users'[u].email # users[u].email
          => \E r \in Requests :
                /\ pc[r] # pc'[r] /\ op[r] \in GoogleOps \cup {"verify", "confirmChange"}
                /\ Proof(r) = users'[u].email]_vars
=============================================================================
