--------------------------- MODULE AccountsProofs ---------------------------
(***************************************************************************)
(* The theorems about Accounts.  The inductive invariant has three parts:  *)
(* Core (AccountsTypes), what a session that others may have overtaken     *)
(* still knows of its row (RowsInv), and what the links in the mail and    *)
(* the requests that follow them know of each other (LinksInv).            *)
(***************************************************************************)
EXTENDS AccountsTypes
-----------------------------------------------------------------------------
\* The rows that got an address by a link.
Renamed == {me[q] : q \in {p \in took : op[p] = "confirmChange" /\ pc[p] = "done"}}

\* What a session holds of a row that others may have written since.
Held(r) ==
    me[r] # None =>
        /\ copy[r].password # None => users[me[r]].password # None
        /\ copy[r].verified => users[me[r]].verified
        /\ copy[r].email = users[me[r]].email \/ users[me[r]].verified
        /\ copy[r].email = users[me[r]].email \/ me[r] \in Renamed
        /\ r \notin stale /\ pc[r] # "done" => copy[r] = users[me[r]]
        /\ pc[r] = "link" /\ me[r] \notin mixed => copy[r].password # None

\* What is invariant of the rows.
RowsInv == SomeWayIn /\ SignInMatches /\ \A r \in Requests : Held(r)

\* What a commit makes of a row.
LEMMA SaveEffect ==
    ASSUME Core, RowsInv, NEW r \in Requests, Saves(r)
    PROVE  LET old == users[me[r]]
               new == users'[me[r]]
           IN  /\ me[r] \in DOMAIN users /\ new \in Columns
               /\ old.password # None => new.password # None
               /\ old.verified => new.verified
               /\ new.email = old.email \/ (new.verified /\ me[r] \in Renamed')
               /\ new.password # None \/ new.google # None
               /\ me[r] \notin mixed' => /\ new.auth = "password" <=> new.google = None
                                         /\ new.auth = "both" => new.password # None
               /\ new.verified /\ (old.verified => new.email # old.email) =>
                     /\ op[r] \in {"verify", "confirmChange", "google"}
                     /\ op[r] = "verify" =>
                           /\ new.email = copy[r].email /\ ~copy[r].verified
                           /\ pc[r] = "confirm" /\ link[r] \in DOMAIN tokens
                     /\ op[r] = "confirmChange" => new.email = NewEmail(r)
                     /\ op[r] = "google" => new.email = copy[r].email /\ pc[r] = "adopt"
<1>1. PICK to \in Columns : Save(r, to) /\ Turns(r, to)
  BY DEF Saves
<1>2. me[r] # None /\ copy[r] \in Columns /\ pc[r] # "done"
  BY DEF Saves, Core, Working, Rowed
<1> DEFINE old == users[me[r]]
           new == users'[me[r]]
           c == copy[r]
<1>3. me[r] \in DOMAIN users /\ old \in Columns /\ new = Flush(r, to)
  BY <1>1, <1>2, SaveRow DEF Core
<1>4. /\ new \in Columns
      /\ new.email = IF to.email # c.email THEN to.email ELSE old.email
      /\ new.google = IF to.google # c.google THEN to.google ELSE old.google
      /\ new.password = IF to.password # c.password THEN to.password ELSE old.password
      /\ new.auth = IF to.auth # c.auth THEN to.auth ELSE old.auth
      /\ new.verified = IF to.verified # c.verified THEN to.verified ELSE old.verified
      /\ c = old => new = to
  BY <1>2, <1>3, FlushType
<1>5. /\ c.password # None => old.password # None
      /\ c.verified => old.verified
      /\ c.email = old.email \/ old.verified
      /\ r \notin stale => c = old
      /\ pc[r] = "link" /\ me[r] \notin mixed => c.password # None
  BY <1>2 DEF RowsInv, Held
<1>6. /\ r # None
      /\ old.verified \in BOOLEAN /\ c.verified \in BOOLEAN
      /\ to.verified \in BOOLEAN /\ new.verified \in BOOLEAN
  BY <1>2, <1>3, <1>4, NoneApart, ColumnsFields DEF Ids
<1>7. old.password # None \/ old.google # None
  BY <1>3 DEF RowsInv, SomeWayIn
<1>8. me[r] \notin mixed => /\ old.auth = "password" <=> old.google = None
                            /\ old.auth = "both" => old.password # None
  BY <1>3 DEF RowsInv, SignInMatches
<1>9. me[r] \notin mixed' => me[r] \notin mixed /\ r \notin stale
  BY <1>1 DEF Save
<1>10. pc[r] = "unlink" => c.password # None
  BY DEF Core, Working
<1>11. to.email # c.email => me[r] \in Renamed'
  BY <1>1 DEF Turns, Saves, Renamed, Core, TypeOK, sessions
<1>12. \A g \in Googles : g # None
  BY NoneApart
<1> HIDE DEF old, new, c
<1>13. old.password # None => new.password # None
  BY <1>1, <1>4, <1>6 DEF Turns, c
<1>14. old.verified => new.verified
  BY <1>1, <1>4, <1>6 DEF Turns, c
<1>15. to.email # c.email => new.verified
  BY <1>1, <1>4, <1>5, <1>6 DEF Turns, c
<1>16. new.password # None \/ new.google # None
  BY <1>1, <1>4, <1>5, <1>7, <1>10, <1>12, <1>13 DEF Turns, c
<1>17. me[r] \notin mixed' => /\ new.auth = "password" <=> new.google = None
                              /\ new.auth = "both" => new.password # None
  BY <1>1, <1>4, <1>5, <1>6, <1>8, <1>9, <1>12 DEF Turns, c
<1>18. new.verified /\ (old.verified => new.email # old.email) =>
          /\ op[r] \in {"verify", "confirmChange", "google"}
          /\ op[r] = "verify" =>
                /\ new.email = c.email /\ ~c.verified
                /\ pc[r] = "confirm" /\ link[r] \in DOMAIN tokens
          /\ op[r] = "confirmChange" => new.email = NewEmail(r)
          /\ op[r] = "google" => new.email = c.email /\ pc[r] = "adopt"
  BY <1>1, <1>4, <1>5, <1>6 DEF Turns, c
<1> QED
  BY <1>3, <1>4, <1>11, <1>13, <1>14, <1>15, <1>16, <1>17, <1>18 DEF old, new, c

\* A confirmed address stays confirmed.
LEMMA RenamedStays ==
    ASSUME Core, NEW r \in Requests, Step(r), NEW u \in Renamed
    PROVE  u \in Renamed'
<1>1. took \subseteq took'
  BY StepShape
<1>2. PICK q \in took : op[q] = "confirmChange" /\ me[q] = u /\ pc[q] = "done"
  BY DEF Renamed
<1>3. q \in Requests \ {r}
  BY <1>2, StepShape DEF Core, TypeOK
<1>4. op'[q] = op[q] /\ me'[q] = me[q] /\ pc'[q] = pc[q]
  BY <1>3, StepShape, RowsType
<1> QED
  BY <1>1, <1>2, <1>4 DEF Renamed

\* A row never loses its password, its verification, or its address but for a confirmed one.
RowsStay ==
    \A u \in DOMAIN users :
        /\ u \in DOMAIN users'
        /\ users[u].password # None => users'[u].password # None
        /\ users[u].verified => users'[u].verified
        /\ users'[u].email = users[u].email \/ (users'[u].verified /\ u \in Renamed')

\* The row a request inserts is new and as it meant it.
LEMMA InsertEffect ==
    ASSUME Core, NEW r \in Requests, NEW c \in Columns, Insert(r, c), pc[r] \in Unloaded
    PROVE  /\ r \notin DOMAIN users /\ DOMAIN users' = DOMAIN users \cup {r}
           /\ users'[r] = c /\ \A u \in DOMAIN users : users'[u] = users[u]
<1>1. r \notin DOMAIN users
  BY NoneApart DEF Core, Working, Ids
<1> QED
  BY <1>1 DEF Insert, Added

\* Every step keeps that.
LEMMA RowsKept ==
    ASSUME Core, RowsInv, NEW r \in Requests, Step(r)
    PROVE  RowsStay
<1>1. CASE Keeps \/ Loads(r)
  BY <1>1 DEF Keeps, Loads, RowsStay
<1>2. CASE Inserts(r)
  BY <1>2, InsertEffect DEF Inserts, RowsStay
<1>3. CASE Saves(r)
  <2>1. /\ \A u \in DOMAIN users \ {me[r]} : u \in DOMAIN users' /\ users'[u] = users[u]
        /\ me[r] \in DOMAIN users'
    BY <1>3, SaveRow DEF Saves, Core, Working
  <2> QED
    BY <1>3, <2>1, SaveEffect DEF RowsStay
<1> QED
  BY <1>1, <1>2, <1>3, StepShape

\* A session that links an identity has loaded a row that had passed the password check.
LEMMA LinkLoads ==
    ASSUME Core, NEW r \in Requests, Step(r), pc'[r] = "link"
    PROVE  /\ UNCHANGED <<users, mixed>>
           /\ \E u \in DOMAIN users : /\ me'[r] = u /\ copy'[r] = users[u]
                                      /\ users[u].password # None \/ users[u].auth # "google"
<1>1. StartLink(r)
  BY DEF Step, Core, TypeOK, PCs, Goto, Answer, AnswerAfterRefresh, sessions, MailHandler, CreateUser,
       RegisterTaken, StartResend, ResendNothing, Wipe, StoreToken, FindToken, Confirm, ConfirmGone,
       AskChange, FindChange,
       CheckAddress, CloseChange, ApplyChange, ApplyClash, FindReset, BurnReset, LoadForReset,
       StartSetPassword, StorePassword, Refuse, MailFails,
       GoogleHandler, SignInKnown, SignInUnknown, FindByEmail,
       FindNobody, Adopt, CreateGoogleUser, SignInClash, Link, LinkClash, StartUnlink,
       Unlink, RefuseGoogle, BearerHandler, Login, Refresh, RefuseBearer
<1> QED
  BY <1>1 DEF StartLink, Load, Core, TypeOK

\* Every step keeps what is said of the rows.
LEMMA StepRows ==
    ASSUME Core, RowsInv, NEW r \in Requests, Step(r)
    PROVE  RowsInv'
<1>1. RowsStay /\ \A u \in Renamed : u \in Renamed'
  BY RowsKept, RenamedStays
<1>2. /\ \A q \in Requests \ {r} : pc'[q] = pc[q] /\ me'[q] = me[q] /\ copy'[q] = copy[q]
      /\ pc[r] # "done" /\ Core'
  BY StepShape, RowsType, StepCore
<1>3. pc'[r] = "link" /\ me'[r] \notin mixed' => copy'[r].password # None
  <2> SUFFICES ASSUME pc'[r] = "link", me'[r] \notin mixed' PROVE copy'[r].password # None
    OBVIOUS
  <2>1. PICK u \in DOMAIN users : /\ me'[r] = u /\ copy'[r] = users[u] /\ u \notin mixed
                                  /\ users[u].password # None \/ users[u].auth # "google"
    BY LinkLoads
  <2>2. users[u].auth \in {"password", "google", "both"}
    BY ColumnsFields DEF Core, TypeOK
  <2> QED
    BY <2>1, <2>2 DEF RowsInv, SignInMatches, SomeWayIn
<1>4. CASE Keeps
  <2>1. \A q \in Requests : Held(q)'
    BY <1>1, <1>2, <1>3, <1>4 DEF Keeps, RowsInv, Held
  <2> QED
    BY <1>4, <2>1 DEF Keeps, RowsInv, SomeWayIn, SignInMatches
<1>5. CASE Loads(r)
  <2>1. PICK u \in DOMAIN users : me'[r] = u /\ copy'[r] = users[u] /\ stale' = stale \ {r}
        /\ UNCHANGED <<users, mixed>>
    BY <1>5 DEF Loads, Load, Core, TypeOK
  <2>2. \A q \in Requests : Held(q)'
    BY <1>1, <1>2, <1>3, <2>1 DEF RowsInv, Held
  <2> QED
    BY <2>1, <2>2 DEF RowsInv, SomeWayIn, SignInMatches
<1>6. CASE Inserts(r)
  <2>1. PICK c \in Columns :
           /\ Insert(r, c)
           /\ me'[r] = r /\ copy'[r] = c
           /\ UNCHANGED <<stale, mixed>>
           /\ pc[r] \in Unloaded
           /\ c.password # None \/ c.google # None
           /\ c.auth = "password" <=> c.google = None
           /\ c.auth = "both" => c.password # None
    BY <1>6 DEF Inserts, Core, TypeOK
  <2>2. /\ r \notin DOMAIN users /\ DOMAIN users' = DOMAIN users \cup {r}
        /\ users'[r] = c /\ \A u \in DOMAIN users : users'[u] = users[u]
    BY <2>1, InsertEffect
  <2>3. ASSUME NEW q \in Requests \ {r} PROVE Held(q)'
    <3>1. me[q] # None => me[q] \in DOMAIN users
      BY DEF Core, TypeOK
    <3> QED
      BY <1>1, <1>2, <2>1, <2>2, <3>1 DEF RowsInv, Held
  <2>4. Held(r)'
    BY <1>3, <2>1, <2>2 DEF Held
  <2> QED
    BY <2>1, <2>2, <2>3, <2>4 DEF RowsInv, SomeWayIn, SignInMatches
<1>7. CASE Saves(r)
  <2>1. PICK to \in Columns : Save(r, to) /\ pc'[r] = "done" /\ UNCHANGED <<me, copy>>
    BY <1>7 DEF Saves, Core, TypeOK, sessions
  <2>2. /\ me[r] # None /\ me[r] \in DOMAIN users /\ DOMAIN users' = DOMAIN users
        /\ \A u \in DOMAIN users \ {me[r]} : users'[u] = users[u]
    BY <1>7, <2>1, SaveRow DEF Saves, Core, Working
  <2>3. /\ stale' = stale \cup {q \in Requests \ {r} : me[q] = me[r] /\ pc[q] # "done"}
        /\ mixed \subseteq mixed'
    BY <2>1 DEF Save
  <2>4. ASSUME NEW q \in Requests PROVE Held(q)'
    <3> SUFFICES ASSUME me[q] # None PROVE Held(q)'
      BY <2>1 DEF Held
    <3>1. me[q] \in DOMAIN users
      BY DEF Core, TypeOK
    <3>2. /\ copy[q].password # None => users'[me[q]].password # None
          /\ copy[q].verified => users'[me[q]].verified
          /\ copy[q].email = users'[me[q]].email \/ users'[me[q]].verified
          /\ copy[q].email = users'[me[q]].email \/ me[q] \in Renamed'
      BY <1>1, <3>1 DEF RowsStay, RowsInv, Held
    <3>3. q \notin stale' /\ pc'[q] # "done" => copy[q] = users'[me[q]]
      BY <1>2, <2>1, <2>2, <2>3, <3>1 DEF RowsInv, Held
    <3>4. pc'[q] = "link" /\ me[q] \notin mixed' => copy[q].password # None
      BY <1>2, <2>1, <2>3 DEF RowsInv, Held
    <3> QED
      BY <2>1, <3>2, <3>3, <3>4 DEF Held
  <2>5. SomeWayIn'
    BY <1>7, <2>2, SaveEffect DEF RowsInv, SomeWayIn
  <2>6. SignInMatches'
    BY <1>7, <2>2, <2>3, SaveEffect DEF RowsInv, SignInMatches
  <2> QED
    BY <2>4, <2>5, <2>6 DEF RowsInv
<1> QED
  BY <1>4, <1>5, <1>6, <1>7, StepShape
-----------------------------------------------------------------------------
\* The names under which no link can be stored any more.
Past == Known \cup {q \in Requests : pc[q] = "done"}

\* A verification link goes to the address of its user, unless he is verified.
TokensInv ==
    \A t \in DOMAIN tokens :
        /\ t \in Past
        /\ tokens[t].to = users[tokens[t].user].email \/ users[tokens[t].user].verified

\* The link a request has taken is used for good.
TakenBy(q) ==
    /\ pc[q] = "done" /\ op[q] \in LinkOps
    /\ op[q] = "verify" => link[q] \in Past /\ (link[q] \in DOMAIN tokens => tokens[link[q]].used)
    /\ op[q] = "confirmChange" => link[q] \in DOMAIN changes /\ changes[link[q]].done
    /\ op[q] = "reset" => link[q] \in DOMAIN resets /\ resets[link[q]]

\* What a request knows of the link it follows, and of those who have taken it.
Following(r) ==
    /\ pc[r] = "confirm" =>
          /\ link[r] \in Past
          /\ link[r] \in DOMAIN tokens => copy[r].verified \/ tokens[link[r]].to = copy[r].email
    /\ op[r] = "reset" /\ pc[r] \in {"user", "password"} => resets[link[r]]
    /\ pc[r] \notin {"start", "done"} =>
          \A q \in took : op[q] = op[r] /\ link[q] = link[r] => q \in since[r]

\* The unused links a DELETE has not seen were stored after it.
Wiped(r) ==
    pc[r] = "store" =>
        \A q \in DOMAIN tokens \cap Requests :
            tokens[q].user = me[r] /\ ~tokens[q].used => q \in doomed[r] \cup since[r]

\* What is invariant of the links.
LinksInv ==
    /\ TokensInv
    /\ \A q \in took : TakenBy(q)
    /\ \A r \in Requests : Following(r) /\ Wiped(r)

\* What a step does to the links: it stores one,
StoresLink(r) ==
    /\ pc[r] = "store" /\ pc'[r] = "done"
    /\ tokens' = [t \in (DOMAIN tokens \ doomed[r]) \cup {r} |->
                     IF t = r THEN [user |-> me[r], to |-> copy[r].email, used |-> FALSE]
                     ELSE tokens[t]]
    /\ UNCHANGED <<users, link, changes, resets, took>>
    /\ Committed(r)

\* uses one,
TakesLink(r) ==
    /\ pc[r] \notin {"start", "done"} /\ pc'[r] = "done" /\ op[r] \in LinkOps
    /\ took' = took \cup {r} /\ Committed(r) /\ UNCHANGED link
    /\ \/ /\ op[r] = "verify" /\ pc[r] = "confirm" /\ link[r] \in DOMAIN tokens
          /\ tokens' = [tokens EXCEPT ![link[r]].used = TRUE]
          /\ UNCHANGED <<changes, resets>>
       \/ /\ op[r] = "confirmChange"
          /\ link[r] \in DOMAIN changes
          /\ changes' = [changes EXCEPT ![link[r]].done = TRUE]
          /\ UNCHANGED <<tokens, resets>>
       \/ /\ op[r] = "reset" /\ pc[r] = "password"
          /\ UNCHANGED links

\* begins to follow one that is not used,
FollowsLink(r) ==
    /\ pc[r] = "start"
    /\ UNCHANGED <<users, links, took, since>>
    /\ \E l : link' = [link EXCEPT ![r] = l]
    /\ \/ /\ op[r] = "verify" /\ pc'[r] = "confirm"
          /\ link'[r] \in DOMAIN tokens /\ ~tokens[link'[r]].used
          /\ copy'[r] = users[tokens[link'[r]].user]
       \/ /\ op[r] = "confirmChange" /\ pc'[r] = "check"
          /\ link'[r] \in DOMAIN changes /\ ~changes[link'[r]].done
       \/ /\ op[r] = "reset" /\ pc'[r] = "burn"
          /\ link'[r] \in DOMAIN resets /\ ~resets[link'[r]]

\* deletes some,
Wipes(r) ==
    /\ pc[r] = "send" /\ pc'[r] = "store"
    /\ UNCHANGED <<users, me, link, links, took, since>>
    /\ doomed'[r] = UnusedOf(me[r])

\* or is none of these.
OtherLinks(r) ==
    /\ UNCHANGED <<tokens, took, link>> /\ LinksStay
    /\ pc'[r] \notin {"confirm", "store"}
    /\ \A q \in Requests : since[q] \subseteq since'[q]
    /\ pc[r] = "start" => pc'[r] = "done" \/ op[r] \notin LinkOps
    /\ op[r] = "reset" /\ pc'[r] \in {"user", "password"} =>
          \/ pc[r] = "burn" /\ resets'[link[r]]
          \/ pc[r] = "user"

\* Every step is one of the five.
LEMMA LinksStep ==
    ASSUME Core, NEW r \in Requests, Step(r)
    PROVE  StoresLink(r) \/ TakesLink(r) \/ FollowsLink(r) \/ Wipes(r) \/ OtherLinks(r)
<1> USE DEF Core, TypeOK, Goto, Answer, AnswerAfterRefresh, mail, links, sessions, PCs
<1>1. CASE StoreToken(r)
  BY <1>1 DEF StoreToken, StoresLink
<1>2. CASE Confirm(r)
  <2>1. op[r] = "verify"
    BY <1>2 DEF Confirm, Working, Doing
  <2> QED
    BY <1>2, <2>1 DEF Confirm, TakesLink, LinkOps
<1>3. CASE ApplyChange(r)
  <2>1. op[r] = "confirmChange" /\ link[r] \in DOMAIN changes
    BY <1>3 DEF ApplyChange, Working, Doing
  <2> QED
    BY <1>3, <2>1 DEF ApplyChange, TakesLink, LinkOps
<1>4. CASE StorePassword(r)
  <2>1. CASE op[r] = "reset"
    BY <1>4, <2>1 DEF StorePassword, TakesLink, LinkOps
  <2>2. CASE op[r] # "reset"
    BY <1>4, <2>2, Noted DEF StorePassword, OtherLinks, LinksStay
  <2> QED
    BY <2>1, <2>2
<1>5. CASE FindToken(r)
  <2>1. PICK t \in DOMAIN tokens :
           /\ ~tokens[t].used
           /\ copy' = [copy EXCEPT ![r] = users[tokens[t].user]] /\ link' = [link EXCEPT ![r] = t]
    BY <1>5 DEF FindToken, Follow, Load
  <2>2. /\ pc[r] = "start" /\ op[r] = "verify" /\ pc'[r] = "confirm"
        /\ UNCHANGED <<users, links, took, since>>
    BY <1>5 DEF FindToken
  <2>3. link'[r] = t /\ copy'[r] = users[tokens[t].user]
    BY <2>1
  <2> QED
    BY <2>1, <2>2, <2>3 DEF FollowsLink
<1>6. CASE FindChange(r)
  BY <1>6 DEF FindChange, FollowsLink, Follow
<1>7. CASE FindReset(r)
  BY <1>7 DEF FindReset, FollowsLink, Follow
<1>8. CASE Wipe(r)
  BY <1>8 DEF Wipe, Wipes
<1>9. CASE MailHandler(r) /\ ~(StoreToken(r) \/ Confirm(r) \/ ApplyChange(r) \/ StorePassword(r)
                               \/ FindToken(r) \/ FindChange(r) \/ FindReset(r) \/ Wipe(r))
  <2>1. LinksStay
    BY <1>9, StepShape, RowsType, LinkTables, ZenonT(30)
  <2>2. UNCHANGED <<tokens, took, link>> /\ pc'[r] \notin {"confirm", "store"}
    BY <1>9 DEF MailHandler, CreateUser, RegisterTaken, StartResend, ResendNothing, ConfirmGone,
       AskChange, CheckAddress, CloseChange, ApplyClash, BurnReset, LoadForReset, StartSetPassword,
       Refuse, MailFails
  <2>3. \A q \in Requests : since[q] \subseteq since'[q]
    BY <1>9, MailOwn, ZenonT(30)
  <2>4. pc[r] = "start" => pc'[r] = "done" \/ op[r] \notin LinkOps
    BY <1>9 DEF MailHandler, CreateUser, RegisterTaken, StartResend, ResendNothing, ConfirmGone,
       AskChange, CheckAddress, CloseChange, ApplyClash, BurnReset, LoadForReset, StartSetPassword,
       Refuse, MailFails, LinkOps
  <2>5. op[r] = "reset" /\ pc'[r] \in {"user", "password"} =>
          \/ pc[r] = "burn" /\ resets'[link[r]]
          \/ pc[r] = "user"
    BY <1>9 DEF MailHandler, CreateUser, RegisterTaken, StartResend, ResendNothing, ConfirmGone,
       AskChange, CheckAddress, CloseChange, ApplyClash, BurnReset, LoadForReset, StartSetPassword,
       Refuse, MailFails, Working
  <2> QED
    BY <2>1, <2>2, <2>3, <2>4, <2>5 DEF OtherLinks
<1>10. CASE GoogleHandler(r) /\ UNCHANGED mail
  <2>1. op[r] \in GoogleOps /\ UNCHANGED op
    BY <1>10, GoogleOwn
  <2>2. Working(r)' /\ pc' \in [Requests -> PCs]
    BY StepShape
  <2>3. pc'[r] \notin {"confirm", "store"}
    BY <2>1, <2>2 DEF Working, Doing, GoogleOps
  <2> QED
    BY <1>10, <2>1, <2>3 DEF OtherLinks, LinksStay, GoogleOps, LinkOps
<1>11. CASE BearerHandler(r) /\ UNCHANGED mail
  BY <1>11 DEF BearerHandler, Login, Refresh, RefuseBearer, OtherLinks, LinksStay
<1> QED
  BY <1>1, <1>2, <1>3, <1>4, <1>5, <1>6, <1>7, <1>8, <1>9, <1>10, <1>11 DEF Step

\* Every step keeps what is said of the links.
LEMMA StepLinks ==
    ASSUME Core, RowsInv, LinksInv, NEW r \in Requests, Step(r)
    PROVE  LinksInv'
<1> USE DEF Core, TypeOK
<1>1. /\ UNCHANGED op /\ pc[r] # "done" /\ pc'[r] # "start"
      /\ \A q \in Requests \ {r} : /\ pc'[q] = pc[q] /\ link'[q] = link[q]
                                   /\ me'[q] = me[q] /\ copy'[q] = copy[q]
      /\ RowsStay
  BY StepShape, RowsType, RowsKept
<1>2. \A l \in Past : l \in Past' /\ l # r
  BY <1>1, UsersAssumption DEF Past
<1>3. /\ doomed' \in [Requests -> SUBSET Ids]
      /\ \A q \in Requests \ {r} : doomed'[q] = doomed[q]
  <2>1. CASE MailHandler(r)
    BY <2>1, MailOwn, ZenonT(30)
  <2>2. CASE UNCHANGED mail
    BY <2>2 DEF mail
  <2> QED
    BY <2>1, <2>2, StepShape
<1>4. \A q \in Requests : me[q] # None =>
         copy[q].email = users[me[q]].email \/ users[me[q]].verified
  BY DEF RowsInv, Held
<1>5. CASE StoresLink(r)
  <2>1. /\ \A q \in Requests : since[q] \subseteq since'[q]
        /\ \A q \in Requests \ {r} : pc[q] \notin {"start", "done"} => r \in since'[q]
    BY <1>5, Noted DEF StoresLink
  <2>2. /\ me[r] # None /\ me[r] \in DOMAIN users /\ pc'[r] = "done"
        /\ UNCHANGED <<users, link, changes, resets, took>>
    BY <1>5 DEF StoresLink, Working, Rowed, Unloaded, PCs
  <2>3. \A t \in DOMAIN tokens' : 
           \/ t = r /\ tokens'[t].user = me[r] /\ tokens'[t].to = copy[r].email
           \/ t # r /\ t \in DOMAIN tokens /\ tokens'[t] = tokens[t]
    BY <1>5 DEF StoresLink
  <2>4. TokensInv'
    BY <1>2, <1>4, <2>2, <2>3 DEF LinksInv, TokensInv, Past
  <2>5. \A q \in took' : TakenBy(q)'
    BY <1>1, <1>2, <2>2, <2>3 DEF LinksInv, TakenBy
  <2>6. ASSUME NEW q \in Requests PROVE Following(q)'
    BY <1>1, <1>2, <2>1, <2>2, <2>3 DEF LinksInv, Following
  <2>7. ASSUME NEW q \in Requests PROVE Wiped(q)'
    BY <1>1, <1>3, <2>1, <2>2, <2>3 DEF LinksInv, Wiped
  <2> QED
    BY <2>4, <2>5, <2>6, <2>7 DEF LinksInv
<1>6. CASE TakesLink(r)
  <2>1. /\ \A q \in Requests : since[q] \subseteq since'[q]
        /\ \A q \in Requests \ {r} : pc[q] \notin {"start", "done"} => r \in since'[q]
    BY <1>6, Noted DEF TakesLink
  <2>2. /\ pc'[r] = "done" /\ UNCHANGED link /\ took' = took \cup {r}
        /\ pc[r] \notin {"start", "done"} /\ op[r] \in LinkOps
    BY <1>6 DEF TakesLink
  <2>3. /\ DOMAIN tokens' = DOMAIN tokens
        /\ \A t \in DOMAIN tokens :
              /\ tokens'[t].user = tokens[t].user /\ tokens'[t].to = tokens[t].to
              /\ tokens[t].used => tokens'[t].used
        /\ op[r] = "verify" =>
              pc[r] = "confirm" /\ link[r] \in DOMAIN tokens /\ tokens'[link[r]].used
    <3>1. CASE op[r] = "verify"
      <4>1. /\ link[r] \in DOMAIN tokens /\ tokens' = [tokens EXCEPT ![link[r]].used = TRUE]
            /\ pc[r] = "confirm"
        BY <1>6, <3>1 DEF TakesLink
      <4> QED
        BY <4>1, UsedLink
    <3>2. CASE op[r] # "verify"
      BY <1>6, <3>2 DEF TakesLink, links
    <3> QED
      BY <3>1, <3>2
  <2>4. /\ DOMAIN changes' = DOMAIN changes
        /\ \A c \in DOMAIN changes : changes[c].done => changes'[c].done
        /\ op[r] = "confirmChange" => link[r] \in DOMAIN changes /\ changes'[link[r]].done
    <3>1. CASE op[r] = "confirmChange"
      <4>1. link[r] \in DOMAIN changes /\ changes' = [changes EXCEPT ![link[r]].done = TRUE]
        BY <1>6, <3>1 DEF TakesLink
      <4> QED
        BY <4>1, DoneChange
    <3>2. CASE op[r] # "confirmChange"
      BY <1>6, <3>2 DEF TakesLink, links
    <3> QED
      BY <3>1, <3>2
  <2>5. /\ UNCHANGED resets
        /\ op[r] = "reset" => pc[r] = "password" /\ link[r] \in DOMAIN resets
    BY <1>6 DEF TakesLink, links, Working
  <2>6. TokensInv'
    BY <1>1, <1>2, <2>3 DEF LinksInv, TokensInv, RowsStay
  <2>7. ASSUME NEW q \in took' PROVE TakenBy(q)'
    <3>1. CASE q = r
      BY <1>1, <1>2, <2>2, <2>3, <2>4, <2>5, <3>1 DEF LinksInv, TakenBy, Following
    <3>2. CASE q \in took \ {r}
      BY <1>1, <1>2, <2>2, <2>3, <2>4, <2>5, <3>2 DEF LinksInv, TakenBy
    <3> QED
      BY <2>2, <3>1, <3>2
  <2>8. ASSUME NEW q \in Requests PROVE Following(q)' /\ Wiped(q)'
    <3>1. CASE q = r
      BY <2>2, <3>1 DEF Following, Wiped
    <3>2. CASE q # r
      BY <1>1, <1>2, <1>3, <2>1, <2>2, <2>3, <2>5, <3>2 DEF LinksInv, Following, Wiped
    <3> QED
      BY <3>1, <3>2
  <2> QED
    BY <2>6, <2>7, <2>8 DEF LinksInv
<1>7. CASE FollowsLink(r)
  <2>1. UNCHANGED <<users, tokens, changes, resets, took, since>>
    BY <1>7 DEF FollowsLink, links
  <2>2. TokensInv'
    BY <1>2, <2>1 DEF LinksInv, TokensInv
  <2>3. \A q \in took' : TakenBy(q)'
    BY <1>1, <1>2, <2>1 DEF LinksInv, TakenBy
  <2>4. Following(r)'
    <3>1. \A q \in took : ~(op[q] = op[r] /\ link'[q] = link'[r])
      BY <1>1, <1>7 DEF FollowsLink, LinksInv, TakenBy
    <3>2. pc'[r] = "confirm" =>
             /\ link'[r] \in Past'
             /\ link'[r] \in DOMAIN tokens' =>
                   copy'[r].verified \/ tokens'[link'[r]].to = copy'[r].email
      BY <1>2, <1>7, <2>1 DEF FollowsLink, LinksInv, TokensInv
    <3> QED
      BY <1>1, <1>7, <2>1, <3>1, <3>2 DEF FollowsLink, Following
  <2>5. ASSUME NEW q \in Requests \ {r} PROVE Following(q)'
    <3>1. /\ pc'[q] = pc[q] /\ op'[q] = op[q] /\ link'[q] = link[q] /\ copy'[q] = copy[q]
          /\ op' = op /\ Following(q)
      BY <1>1 DEF LinksInv
    <3>2. \A p \in took : pc[p] = "done" /\ p \in Requests /\ link'[p] = link[p]
      BY <1>1 DEF LinksInv, TakenBy
    <3> QED
      BY <1>2, <2>1, <3>1, <3>2 DEF Following
  <2>6. \A q \in Requests \ {r} : Wiped(q)'
    BY <1>1, <1>3, <2>1 DEF LinksInv, Wiped
  <2>7. Wiped(r)'
    BY <1>7 DEF FollowsLink, Wiped
  <2> QED
    BY <2>2, <2>3, <2>4, <2>5, <2>6, <2>7 DEF LinksInv
<1>8. CASE Wipes(r)
  <2>1. UNCHANGED <<users, me, link, tokens, changes, resets, took, since>>
    BY <1>8 DEF Wipes, links
  <2>2. TokensInv'
    BY <1>2, <2>1 DEF LinksInv, TokensInv
  <2>3. \A q \in took' : TakenBy(q)'
    BY <1>1, <1>2, <2>1 DEF LinksInv, TakenBy
  <2>4. \A q \in Requests : Following(q)'
    BY <1>1, <1>2, <1>8, <2>1 DEF LinksInv, Following, Wipes
  <2>5. \A q \in Requests : Wiped(q)'
    BY <1>1, <1>3, <1>8, <2>1 DEF LinksInv, Wiped, Wipes, UnusedOf
  <2> QED
    BY <2>2, <2>3, <2>4, <2>5 DEF LinksInv
<1>9. CASE OtherLinks(r)
  <2>1. /\ UNCHANGED <<tokens, took, link>>
        /\ pc'[r] \notin {"confirm", "store"}
        /\ \A q \in Requests : since[q] \subseteq since'[q]
        /\ pc[r] = "start" => pc'[r] = "done" \/ op[r] \notin LinkOps
        /\ op[r] = "reset" /\ pc'[r] \in {"user", "password"} =>
              \/ pc[r] = "burn" /\ resets'[link[r]]
              \/ pc[r] = "user"
    BY <1>9 DEF OtherLinks
  <2>2. /\ DOMAIN changes \subseteq DOMAIN changes'
        /\ \A c \in DOMAIN changes : changes[c].done => changes'[c].done
        /\ DOMAIN resets' = DOMAIN resets
        /\ \A u \in DOMAIN resets : resets[u] => resets'[u]
    BY <1>9 DEF OtherLinks, LinksStay
  <2>3. TokensInv'
    BY <1>1, <1>2, <2>1 DEF LinksInv, TokensInv, RowsStay
  <2>4. \A q \in took' : TakenBy(q)'
    BY <1>1, <1>2, <2>1, <2>2 DEF LinksInv, TakenBy
  <2>5. \A q \in Requests \ {r} : Following(q)' /\ Wiped(q)'
    BY <1>1, <1>2, <1>3, <2>1, <2>2 DEF LinksInv, Following, Wiped, Working
  <2>6. Following(r)' /\ Wiped(r)'
    BY <1>1, <2>1, <2>2 DEF LinksInv, Following, Wiped, TakenBy, Working
  <2> QED
    BY <2>3, <2>4, <2>5, <2>6 DEF LinksInv
<1> QED
  BY <1>5, <1>6, <1>7, <1>8, <1>9, LinksStep
-----------------------------------------------------------------------------
\* The inductive invariant.
IInv == Core /\ RowsInv /\ LinksInv

\* The rows that are there from the start are sound.
LEMMA InitRows ==
    ASSUME Init, NEW u \in Known
    PROVE  /\ DOMAIN users = Known /\ users[u] \in Columns
           /\ users[u].password # None \/ users[u].google # None
           /\ users[u].auth = "password" <=> users[u].google = None
           /\ users[u].auth = "both" => users[u].password # None
<1>1. users \in [Known -> Columns] /\ SoundRow(u, users[u])
  BY DEF Init, UsersInit
<1>2. u # None
  BY NoneApart DEF Ids
<1> QED
  BY <1>1, <1>2 DEF SoundRow

\* The links that are there from the start are whole and unused.
LEMMA InitLinks ==
    ASSUME Init
    PROVE  /\ DOMAIN tokens \subseteq Known /\ tokens \in [DOMAIN tokens -> Verifications]
           /\ \A t \in DOMAIN tokens :
                 tokens[t].user \in Known /\ tokens[t].to = users[tokens[t].user].email
           /\ DOMAIN changes \subseteq Known /\ changes \in [DOMAIN changes -> Changes]
           /\ \A c \in DOMAIN changes : changes[c].user \in Known
           /\ DOMAIN resets \subseteq Known /\ resets = [u \in DOMAIN resets |-> FALSE]
<1>1. users \in [Known -> Columns]
  BY DEF Init, UsersInit
<1>2. PICK with \in SUBSET Known :
         tokens = [u \in with |-> [user |-> u, to |-> users[u].email, used |-> FALSE]]
  BY DEF Init, MailInit
<1>3. \A u \in with : [user |-> u, to |-> users[u].email, used |-> FALSE] \in Verifications
  BY <1>1, <1>2, ColumnsFields DEF Verifications, Ids
<1>4. PICK some \in SUBSET Known, e \in Emails :
         changes = [u \in some |-> [user |-> u, email |-> e, done |-> FALSE]]
  BY DEF Init, MailInit
<1>5. \A u \in some : [user |-> u, email |-> e, done |-> FALSE] \in Changes
  BY <1>4 DEF Changes, Ids
<1>6. DOMAIN resets \subseteq Known /\ resets = [u \in DOMAIN resets |-> FALSE]
  BY DEF Init, MailInit
<1>7. /\ DOMAIN tokens \subseteq Known /\ tokens \in [DOMAIN tokens -> Verifications]
      /\ \A t \in DOMAIN tokens :
            tokens[t].user \in Known /\ tokens[t].to = users[tokens[t].user].email
  BY <1>2, <1>3
<1>8. /\ DOMAIN changes \subseteq Known /\ changes \in [DOMAIN changes -> Changes]
      /\ \A c \in DOMAIN changes : changes[c].user \in Known
  BY <1>4, <1>5
<1> QED
  BY <1>6, <1>7, <1>8

\* It holds at the start,
LEMMA InitIInv == Init => IInv
<1> SUFFICES ASSUME Init PROVE IInv
  OBVIOUS
<1>1. /\ users \in [Known -> Columns] /\ DOMAIN users = Known
      /\ pc = [r \in Requests |-> "start"] /\ me = [r \in Requests |-> None]
      /\ copy = [r \in Requests |-> NoColumns] /\ answer = [r \in Requests |-> "none"]
      /\ stale = {} /\ mixed = {}
      /\ op \in [Requests -> MailOps \cup GoogleOps \cup BearerOps]
      /\ link = [r \in Requests |-> None]
      /\ doomed = [r \in Requests |-> {}] /\ behind = [r \in Requests |-> {}]
      /\ since = [r \in Requests |-> {}] /\ took = {}
      /\ profile = [r \in Requests |-> None]
  BY DEF Init, UsersInit, MailInit, GoogleInit
<1>2. /\ DOMAIN bearer \subseteq Known /\ bearer \in [DOMAIN bearer -> Claims]
      /\ \A b \in DOMAIN bearer : bearer[b].id \in Known
  <2>1. \A u \in Known : [id |-> u, sub |-> users[u].email] \in Claims
    BY <1>1, ColumnsFields DEF Claims, Ids
  <2> QED
    BY <2>1 DEF Init, BearerInit
<1>3. \A r \in Requests : Working(r)
  <2> TAKE r \in Requests
  <2>1. r \notin Known
    BY UsersAssumption
  <2> QED
    BY <1>1, <2>1 DEF Working, Doing, Unloaded, Rowed
<1>4. TypeOK
  <2>1. resets \in [DOMAIN resets -> BOOLEAN]
    BY InitLinks
  <2> QED
    BY <1>1, <1>2, <2>1, InitLinks DEF TypeOK, PCs, Ids
<1>5. Core
  BY <1>1, <1>2, <1>3, <1>4, InitLinks DEF Core
<1>6. RowsInv
  BY <1>1, InitRows DEF RowsInv, SomeWayIn, SignInMatches, Held
<1>7. LinksInv
  BY <1>1, InitLinks DEF LinksInv, TokensInv, Past, Following, Wiped
<1> QED
  BY <1>5, <1>6, <1>7 DEF IInv

\* Every step is of one request.
LEMMA Steps == Next => \E r \in Requests : Step(r)
  BY DEF Next, Step

\* A stutter changes nothing.
LEMMA Stutter ==
    ASSUME UNCHANGED vars
    PROVE  /\ UNCHANGED <<users, op, pc, me, copy, answer, stale, mixed, profile, bearer>>
           /\ UNCHANGED <<tokens, changes, resets, link, doomed, behind, since, took>>
  BY DEF vars, mail

\* every step keeps it,
LEMMA StepIInv == IInv /\ [Next]_vars => IInv'
<1>1. ASSUME IInv, UNCHANGED vars PROVE IInv'
  <2>1. Core'
    BY <1>1, Stutter DEF IInv, Core, TypeOK, Working
  <2>2. RowsInv'
    BY <1>1, Stutter DEF IInv, RowsInv, SomeWayIn, SignInMatches, Held, Renamed
  <2>3. LinksInv'
    BY <1>1, Stutter DEF IInv, LinksInv, TokensInv, TakenBy, Following, Wiped, Past
  <2> QED
    BY <2>1, <2>2, <2>3 DEF IInv
<1>2. ASSUME IInv, NEW r \in Requests, Step(r) PROVE IInv'
  BY <1>2, StepCore, StepRows, StepLinks DEF IInv
<1> QED
  BY <1>1, <1>2, Steps

\* and so it always holds.
LEMMA Invariance == Spec => []IInv
  BY InitIInv, StepIInv, PTL DEF Spec
-----------------------------------------------------------------------------
\* Every reachable state has its type.
THEOREM TypeCorrect == Spec => []TypeOK
<1>1. IInv => TypeOK
  BY DEF IInv, Core
<1> QED
  BY <1>1, Invariance, PTL

\* Whoever has an account can get into it.
THEOREM NobodyLockedOut == Spec => []SomeWayIn
<1>1. IInv => SomeWayIn
  BY DEF IInv, RowsInv
<1> QED
  BY <1>1, Invariance, PTL

\* The mark on a row fits the ways in, unless a session wrote it while it held it stale.
THEOREM MarkFits == Spec => []SignInMatches
<1>1. IInv => SignInMatches
  BY DEF IInv, RowsInv
<1> QED
  BY <1>1, Invariance, PTL

\* Two unused verification links of a user come from requests that overlapped.
THEOREM UnusedTokensOverlap == Spec => []OneUnusedToken
<1>1. Init => OneUnusedToken
  BY InitLinks, UsersAssumption DEF OneUnusedToken
<1>2. ASSUME IInv, OneUnusedToken, [Next]_vars PROVE OneUnusedToken'
  <2>1. CASE UNCHANGED vars
    BY <1>2, <2>1, Stutter DEF OneUnusedToken
  <2>2. ASSUME NEW r \in Requests, Step(r) PROVE OneUnusedToken'
    <3>1. CASE StoresLink(r)
      <4>1. \A q \in Requests : since[q] \subseteq since'[q]
        BY <1>2, <3>1, Noted DEF StoresLink, IInv, Core
      <4>2. \A t \in DOMAIN tokens' : 
               \/ t = r /\ tokens'[t].user = me[r]
               \/ t # r /\ t \in DOMAIN tokens \ doomed[r] /\ tokens'[t] = tokens[t]
        BY <3>1 DEF StoresLink
      <4>3. \A q \in DOMAIN tokens \cap Requests :
               tokens[q].user = me[r] /\ ~tokens[q].used => q \in doomed[r] \cup since[r]
        BY <1>2, <3>1 DEF StoresLink, IInv, LinksInv, Wiped
      <4> QED
        BY <1>2, <4>1, <4>2, <4>3 DEF OneUnusedToken
    <3>2. CASE TakesLink(r)
      <4>1. \A q \in Requests : since[q] \subseteq since'[q]
        BY <1>2, <3>2, Noted DEF TakesLink, IInv, Core
      <4>2. /\ DOMAIN tokens' = DOMAIN tokens
            /\ \A t \in DOMAIN tokens :
                  tokens'[t].user = tokens[t].user /\ (tokens[t].used => tokens'[t].used)
        <5>1. CASE op[r] = "verify"
          <6>1. link[r] \in DOMAIN tokens /\ tokens' = [tokens EXCEPT ![link[r]].used = TRUE]
            BY <3>2, <5>1 DEF TakesLink
          <6>2. tokens \in [DOMAIN tokens -> Verifications]
            BY <1>2 DEF IInv, Core, TypeOK
          <6> QED
            BY <6>1, <6>2, UsedLink
        <5>2. CASE op[r] # "verify"
          BY <3>2, <5>2 DEF TakesLink, links
        <5> QED
          BY <5>1, <5>2
      <4> QED
        BY <1>2, <4>1, <4>2 DEF OneUnusedToken
    <3>3. CASE FollowsLink(r) \/ Wipes(r) \/ OtherLinks(r)
      BY <1>2, <3>3 DEF FollowsLink, Wipes, OtherLinks, OneUnusedToken, links
    <3> QED
      BY <1>2, <2>2, <3>1, <3>2, <3>3, LinksStep DEF IInv
  <2> QED
    BY <1>2, <2>1, <2>2, Steps
<1> QED
  BY <1>1, <1>2, Invariance, PTL DEF Spec

\* Two requests whose link took effect by the same link overlapped.
THEOREM LinksOverlap == Spec => []LinksUsedOnce
<1>1. Init => LinksUsedOnce
  BY DEF Init, MailInit, LinksUsedOnce
<1>2. ASSUME IInv, LinksUsedOnce, [Next]_vars PROVE LinksUsedOnce'
  <2>1. CASE UNCHANGED vars
    BY <1>2, <2>1, Stutter DEF LinksUsedOnce
  <2>2. ASSUME NEW r \in Requests, Step(r) PROVE LinksUsedOnce'
    <3>1. /\ UNCHANGED op /\ pc[r] # "done" /\ \A q \in Requests \ {r} : link'[q] = link[q]
          /\ \A q \in took : q \in Requests \ {r}
      BY <1>2, <2>2, StepShape DEF IInv, LinksInv, TakenBy, Core, TypeOK
    <3>2. CASE TakesLink(r)
      <4>1. \A q \in Requests : since[q] \subseteq since'[q]
        BY <1>2, <3>2, Noted DEF TakesLink, IInv, Core
      <4>2. took' = took \cup {r} /\ UNCHANGED link
        BY <3>2 DEF TakesLink
      <4>3. \A q \in took : op[q] = op[r] /\ link[q] = link[r] => q \in since[r]
        BY <1>2, <3>2 DEF IInv, LinksInv, Following, TakesLink
      <4> QED
        BY <1>2, <3>1, <4>1, <4>2, <4>3 DEF LinksUsedOnce
    <3>3. CASE StoresLink(r) \/ FollowsLink(r) \/ Wipes(r) \/ OtherLinks(r)
      <4>1. UNCHANGED took /\ \A q \in Requests : since[q] \subseteq since'[q]
        BY <1>2, <3>3, Noted DEF StoresLink, FollowsLink, Wipes, OtherLinks, IInv, Core
      <4> QED
        BY <1>2, <3>1, <4>1 DEF LinksUsedOnce
    <3> QED
      BY <1>2, <2>2, <3>2, <3>3, LinksStep DEF IInv
  <2> QED
    BY <1>2, <2>1, <2>2, Steps
<1> QED
  BY <1>1, <1>2, Invariance, PTL DEF Spec

\* Who burns reset links, and how a reset under way ends.
LEMMA ResetsStep ==
    ASSUME Core, NEW r \in Requests, Step(r)
    PROVE  /\ took \subseteq took'
           /\ \/ UNCHANGED resets
              \/ /\ resets' = [resets EXCEPT ![link[r]] = TRUE]
                 /\ op[r] = "reset" /\ pc'[r] = "user" /\ UNCHANGED link
           /\ op[r] = "reset" /\ pc[r] # "start" =>
                 /\ UNCHANGED link
                 /\ pc'[r] = "done" => r \in took' \/ answer'[r] = "error"
<1> USE DEF Core, TypeOK, Goto, Answer, AnswerAfterRefresh, mail, links, sessions, PCs
<1>1. CASE MailHandler(r)
  <2>1. took \subseteq took'
    BY StepShape
  <2>2. \/ UNCHANGED resets
        \/ /\ resets' = [resets EXCEPT ![link[r]] = TRUE]
           /\ op[r] = "reset" /\ pc'[r] = "user" /\ UNCHANGED link
    BY <1>1 DEF MailHandler, CreateUser, RegisterTaken, StartResend,
       ResendNothing, Wipe, StoreToken, FindToken, Confirm, ConfirmGone, AskChange, FindChange,
       CheckAddress, CloseChange, ApplyChange, ApplyClash, FindReset, BurnReset, LoadForReset,
       StartSetPassword, StorePassword, Refuse, MailFails, Working, Doing
  <2>3. ASSUME op[r] = "reset", pc[r] # "start", pc'[r] = "done"
        PROVE  r \in took' \/ answer'[r] = "error"
    <3>1. pc[r] \in {"burn", "user", "password", "done"}
      BY <2>3 DEF Working, Doing
    <3>2. CASE MailFails(r)
      BY <2>3, <3>2 DEF MailFails
    <3>3. CASE StorePassword(r)
      BY <2>3, <3>3 DEF StorePassword
    <3> QED
      BY <1>1, <2>3, <3>1, <3>2, <3>3 DEF MailHandler, CreateUser, RegisterTaken, StartResend,
       ResendNothing, Wipe, StoreToken, FindToken, Confirm, ConfirmGone, AskChange, FindChange,
       CheckAddress, CloseChange, ApplyChange, ApplyClash, FindReset, BurnReset, LoadForReset,
       StartSetPassword, Refuse, LinkOps
  <2>4. pc[r] # "start" => UNCHANGED link
    BY <1>1, MailOwn, ZenonT(30)
  <2> QED
    BY <2>1, <2>2, <2>3, <2>4
<1>2. CASE GoogleHandler(r) /\ UNCHANGED mail
  <2>1. op[r] \in GoogleOps
    BY <1>2, GoogleOwn
  <2> QED
    BY <1>2, <2>1 DEF GoogleOps
<1>3. CASE BearerHandler(r) /\ UNCHANGED mail
  BY <1>3 DEF BearerHandler, Login, Refresh, RefuseBearer
<1> QED
  BY <1>1, <1>2, <1>3 DEF Step

\* Nobody is told that his password was reset when it was not.
THEOREM ResetsAsTold == Spec => []ResetHonest
<1>1. Init => ResetHonest
  <2>1. ASSUME Init PROVE \A u \in DOMAIN resets : ~resets[u]
    BY <2>1, InitLinks
  <2> QED
    BY <2>1 DEF ResetHonest
<1>2. ASSUME IInv, ResetHonest, [Next]_vars PROVE ResetHonest'
  <2>1. CASE UNCHANGED vars
    BY <1>2, <2>1, Stutter DEF ResetHonest
  <2>2. ASSUME NEW r \in Requests, Step(r) PROVE ResetHonest'
    <3>1. /\ UNCHANGED op /\ pc[r] # "done"
          /\ \A q \in Requests \ {r} :
                pc'[q] = pc[q] /\ answer'[q] = answer[q] /\ link'[q] = link[q]
      BY <1>2, <2>2, StepShape DEF IInv
    <3>2. DOMAIN resets' = DOMAIN resets
      BY <1>2, <2>2, ResetsStep DEF IInv
    <3>3. ASSUME NEW u \in DOMAIN resets, resets'[u], resets[u]
          PROVE  \E q \in Requests : /\ op'[q] = "reset" /\ link'[q] = u
                                     /\ q \in took' \/ pc'[q] # "done" \/ answer'[q] = "error"
      <4>1. PICK q \in Requests : /\ op[q] = "reset" /\ link[q] = u
                                  /\ q \in took \/ pc[q] # "done" \/ answer[q] = "error"
        BY <1>2, <3>3 DEF ResetHonest
      <4>2. CASE q # r
        BY <1>2, <2>2, <3>1, <4>1, <4>2, ResetsStep DEF IInv
      <4>3. CASE q = r
        <5>1. u # None
          BY NoneApart, <1>2 DEF IInv, Core, TypeOK, Ids
        <5>2. pc[r] # "start"
          BY <1>2, <4>1, <4>3, <5>1 DEF IInv, Core, Working
        <5> QED
          BY <1>2, <2>2, <3>1, <4>1, <4>3, <5>2, ResetsStep DEF IInv
      <4> QED
        BY <4>2, <4>3
    <3>4. ASSUME NEW u \in DOMAIN resets, resets'[u], ~resets[u]
          PROVE  \E q \in Requests : /\ op'[q] = "reset" /\ link'[q] = u
                                     /\ q \in took' \/ pc'[q] # "done" \/ answer'[q] = "error"
      <4>1. /\ resets' = [resets EXCEPT ![link[r]] = TRUE]
            /\ op[r] = "reset" /\ pc'[r] = "user" /\ UNCHANGED link
        BY <1>2, <2>2, <3>4, ResetsStep DEF IInv
      <4>2. link[r] = u
        BY <3>4, <4>1
      <4> QED
        BY <3>1, <4>1, <4>2
    <3> QED
      BY <3>2, <3>3, <3>4 DEF ResetHonest
  <2> QED
    BY <1>2, <2>1, <2>2, Steps
<1> QED
  BY <1>1, <1>2, Invariance, PTL DEF Spec

\* The claims of a bearer token name one row, unless that row has confirmed another address.
THEOREM TokensName == Spec => []TokenNamesUser
<1> DEFINE Named == \A b \in DOMAIN bearer :
                       users[bearer[b].id].email = bearer[b].sub \/ bearer[b].id \in Renamed
<1>1. Init => Named
  BY DEF Init, BearerInit
<1>2. ASSUME IInv, Named, [Next]_vars PROVE Named'
  <2>1. CASE UNCHANGED vars
    BY <1>2, <2>1, Stutter DEF Renamed
  <2>2. ASSUME NEW r \in Requests, Step(r) PROVE Named'
    <3>1. RowsStay /\ \A u \in Renamed : u \in Renamed'
      BY <1>2, <2>2, RowsKept, RenamedStays DEF IInv
    <3>2. \A b \in DOMAIN bearer :
             users'[bearer[b].id].email = bearer[b].sub \/ bearer[b].id \in Renamed'
      BY <1>2, <3>1 DEF IInv, Core, RowsStay
    <3>3. CASE UNCHANGED bearer
      BY <3>2, <3>3
    <3>4. ASSUME NEW c \in Claims, Issue(r, c), c.id \in DOMAIN users',
                 \/ c.sub = users'[c.id].email
                 \/ /\ op[r] = "verify" /\ pc[r] = "confirm" /\ me[r] # None
                    /\ c.id = me[r] /\ c.sub = copy[r].email
                    /\ users'[c.id].email = users[c.id].email
          PROVE  Named'
      <4>1. users'[c.id].email = c.sub \/ c.id \in Renamed'
        <5>1. me[r] # None => copy[r].email = users[me[r]].email \/ me[r] \in Renamed
          BY <1>2 DEF IInv, RowsInv, Held
        <5> QED
          BY <3>1, <3>4, <5>1
      <4>2. \A b \in DOMAIN bearer' : \/ b \in DOMAIN bearer /\ bearer'[b] = bearer[b]
                                      \/ bearer'[b] = c
        BY <3>4 DEF Issue, Added
      <4> QED
        BY <3>2, <4>1, <4>2
    <3> QED
      BY <1>2, <2>2, <3>3, <3>4, Issued DEF IInv
  <2> QED
    BY <1>2, <2>1, <2>2, Steps
<1>3. Named => TokenNamesUser
  BY DEF TokenNamesUser, Renamed
<1> QED
  BY <1>1, <1>2, <1>3, Invariance, PTL DEF Spec

\* A token is issued with the address its row has, but for a verification link whose user
\* changed while it was followed.
THEOREM TokensAsStored == Spec => TokenAsStored
<1> DEFINE AsStored ==
       \A b \in DOMAIN bearer' \ DOMAIN bearer :
          \/ users'[bearer'[b].id].email = bearer'[b].sub
          \/ op[b] = "verify" /\ b \in stale
<1>1. ASSUME IInv, [Next]_vars PROVE AsStored
  <2>1. CASE UNCHANGED vars
    BY <2>1, Stutter
  <2>2. ASSUME NEW r \in Requests, Step(r) PROVE AsStored
    <3>1. CASE UNCHANGED bearer
      BY <3>1
    <3>2. ASSUME NEW c \in Claims, Issue(r, c),
                 \/ c.sub = users'[c.id].email
                 \/ /\ op[r] = "verify" /\ pc[r] = "confirm" /\ me[r] # None
                    /\ c.id = me[r] /\ c.sub = copy[r].email
                    /\ users'[c.id].email = users[c.id].email
          PROVE  AsStored
      <4>1. \A b \in DOMAIN bearer' \ DOMAIN bearer : b = r /\ bearer'[b] = c
        BY <3>2 DEF Issue, Added
      <4>2. me[r] # None /\ r \notin stale /\ pc[r] = "confirm" => copy[r] = users[me[r]]
        BY <1>1 DEF IInv, RowsInv, Held
      <4> QED
        BY <3>2, <4>1, <4>2
    <3> QED
      BY <1>1, <2>2, <3>1, <3>2, Issued DEF IInv
  <2> QED
    BY <1>1, <2>1, <2>2, Steps
<1> QED
  BY <1>1, Invariance, PTL DEF Spec, TokenAsStored

\* A row is verified, and a verified row gets another address, only by a request that has proof
\* of the address the row then has.
THEOREM AddressesProved == Spec => AddressProved
<1> DEFINE Proved ==
       \A u \in DOMAIN users' :
          /\ users'[u].verified
          /\ u \in DOMAIN users => ~users[u].verified \/ users'[u].email # users[u].email
          => \E r \in Requests :
                /\ pc[r] # pc'[r] /\ op[r] \in GoogleOps \cup {"verify", "confirmChange"}
                /\ Proof(r) = users'[u].email
<1>1. ASSUME IInv, [Next]_vars PROVE [Proved]_vars
  <2>1. CASE UNCHANGED vars
    BY <2>1
  <2>2. ASSUME NEW r \in Requests, Step(r) PROVE Proved
    <3>1. CASE Keeps \/ Loads(r)
      BY <3>1 DEF Keeps, Loads
    <3>2. CASE Inserts(r)
      <4>1. PICK c \in Columns :
               /\ Insert(r, c) /\ pc[r] \in Unloaded
               /\ c.verified => op[r] = "google" /\ pc'[r] = "done" /\ c.email = Gmail[profile[r]]
        BY <3>2 DEF Inserts
      <4>2. /\ DOMAIN users' = DOMAIN users \cup {r}
            /\ users'[r] = c /\ \A u \in DOMAIN users : users'[u] = users[u]
        BY <1>1, <4>1, InsertEffect DEF IInv
      <4>3. c.verified => Proof(r) = c.email /\ pc[r] # pc'[r] /\ op[r] \in GoogleOps
        BY <4>1 DEF Proof, Unloaded, GoogleOps
      <4> QED
        BY <4>2, <4>3
    <3>3. CASE Saves(r)
      <4> DEFINE old == users[me[r]]
                 new == users'[me[r]]
      <4>1. /\ me[r] \in DOMAIN users /\ DOMAIN users' = DOMAIN users
            /\ \A u \in DOMAIN users \ {me[r]} : users'[u] = users[u]
        BY <1>1, <3>3, SaveRow DEF Saves, IInv, Core, Working
      <4>2. /\ pc[r] # pc'[r]
            /\ /\ ~copy[r].verified /\ op[r] = "verify"
               /\ pc[r] = "confirm" /\ link[r] \in DOMAIN tokens
               => tokens[link[r]].to = copy[r].email
            /\ pc[r] = "adopt" => copy[r].email = Gmail[profile[r]]
        BY <1>1, <3>3 DEF Saves, Rowed, IInv, LinksInv, Following, Core, TypeOK, Working
      <4>3. ASSUME new.verified, old.verified => new.email # old.email
            PROVE  op[r] \in GoogleOps \cup {"verify", "confirmChange"} /\ Proof(r) = new.email
        <5>1. /\ op[r] \in {"verify", "confirmChange", "google"}
              /\ op[r] = "verify" =>
                    /\ new.email = copy[r].email /\ ~copy[r].verified
                    /\ pc[r] = "confirm" /\ link[r] \in DOMAIN tokens
              /\ op[r] = "confirmChange" => new.email = NewEmail(r)
              /\ op[r] = "google" => new.email = copy[r].email /\ pc[r] = "adopt"
          BY <1>1, <3>3, <4>3, SaveEffect DEF IInv
        <5> QED
          BY <4>2, <5>1 DEF Proof, GoogleOps, NewEmail
      <4> QED
        BY <4>1, <4>2, <4>3
    <3> QED
      BY <1>1, <2>2, <3>1, <3>2, <3>3, StepShape DEF IInv
  <2> QED
    BY <1>1, <2>1, <2>2, Steps
<1> QED
  BY <1>1, Invariance, PTL DEF Spec, AddressProved
=============================================================================
