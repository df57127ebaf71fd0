------------------------------- MODULE SignIn -------------------------------
(***************************************************************************)
(* How an account is reached and an identity of a provider bound to it     *)
(* (admin/apis/oauth.go and user.go, admin/pkg/oauthstate, models/user.go, *)
(* user_oauth2.go, email_identity.go and AuthenticateVerifier): attempts   *)
(* issued to one browser and, but for a login, to one session; the         *)
(* callback that consumes an attempt; binding, proof and login; accounts   *)
(* that register themselves through a provider or a mailed code.           *)
(*                                                                         *)
(* A statement of a handler is a step, and so is each transaction.  The    *)
(* identities all carry the same mail address, in the form of              *)
(* CanonicalEmail, and a session belongs to one account for good.  The row *)
(* of a disconnected identity is only marked deleted and keeps its key.    *)
(***************************************************************************)
EXTENDS Naturals, FiniteSets

CONSTANTS Browsers, Callbacks,    \* Callbacks: requests in flight
          Identities,             \* of people at the providers
          Attempts, Logins,       \* bounds: the attempts issued, the sessions opened
          MaxUpsets,              \* bound: what administrators, owners and time take away
          NoLogin, NoAttempt, NoIdentity

ASSUME SignInAssumption ==
    /\ Attempts \subseteq Nat /\ Logins \subseteq Nat /\ MaxUpsets \in Nat
    /\ NoLogin \notin Logins /\ NoAttempt \notin Attempts /\ NoIdentity \notin Identities

VARIABLES account,        \* the users
          owner, buried,  \* the row of each identity; those that are marked deleted
          login,          \* the session rows
          cookie,         \* the session each browser holds
          issued,         \* the record of each attempt
          kept, nonces,   \* the attempts still in the store; the nonces in each browser
          callback,       \* the requests that sign somebody in
          registering, codes, \* whether people may register; the mailed codes not yet used
          upsets,         \* how much was taken away
          completed, spoilt, shown, told  \* history: see the properties

signInVars == <<account, owner, buried, login, cookie, issued, kept, nonces, callback,
                registering, codes, upsets, completed, spoilt, shown, told>>
Rows == <<account, owner, buried, login>>
AttemptStore == <<issued, kept, nonces>>
History == <<completed, spoilt, shown, told>>

(* Two accounts were there before; one more for each way to register.      *)
Accounts == 1..3 + Cardinality(Identities)
Nobody == 0
NotThere == [state |-> "none", mail |-> FALSE, from |-> "none"]
NotOpened == [user |-> Nobody, live |-> FALSE, proved |-> FALSE, through |-> "none"]
NeverIssued == [intent |-> "none", browser |-> "none", login |-> NoLogin]
NoCallback == [at |-> "idle", browser |-> "none", login |-> NoLogin, attempt |-> NoAttempt,
               nonce |-> FALSE, identity |-> NoIdentity, user |-> Nobody, gone |-> {}]
CallbackEnded == [NoCallback EXCEPT !.at = "over"]
Intents == {"login", "binding", "reauthentication"}
Purposes == {"register", "enter"}

SignInTypeOK ==
    /\ account \in [Accounts -> [state : {"none", "enabled", "disabled"}, mail : BOOLEAN,
                                 from : Identities \cup {"none", "seed", "mail"}]]
    /\ owner \in [Identities -> Accounts \cup {Nobody}] /\ buried \subseteq Identities
    /\ login \in [Logins -> [user : Accounts \cup {Nobody}, live : BOOLEAN, proved : BOOLEAN,
                             through : Identities \cup {"none", "password", "mail"}]]
    /\ cookie \in [Browsers -> Logins \cup {NoLogin}]
    /\ issued \in [Attempts -> [intent : Intents \cup {"none"}, browser : Browsers \cup {"none"},
                                login : Logins \cup {NoLogin}]]
    /\ kept \subseteq Attempts /\ nonces \in [Browsers -> SUBSET Attempts]
    /\ callback \in [Callbacks ->
           [at : {"idle", "over", "consume", "resolve", "bind", "lookup", "prove", "register", "enrol",
                  "find", "principal", "mint"},
            browser : Browsers \cup {"none"}, login : Logins \cup {NoLogin},
            attempt : Attempts \cup {NoAttempt}, nonce : BOOLEAN,
            identity : Identities \cup {NoIdentity}, user : Accounts \cup {Nobody},
            gone : SUBSET Identities]]
    /\ registering \in BOOLEAN /\ codes \subseteq Purposes /\ upsets \in 0..MaxUpsets

SignInInit ==
    /\ \E mailed \in BOOLEAN : account = [u \in Accounts |->
           IF u > 2 THEN NotThere
           ELSE [state |-> "enabled", mail |-> mailed /\ u = 1, from |-> "seed"]]
    /\ owner = [i \in Identities |-> Nobody] /\ buried = {}
    /\ \E seated \in [Browsers -> 0..2] :
          /\ \A b, c \in Browsers : seated[b] = seated[c] => b = c \/ seated[b] = 0
          /\ login = [s \in Logins |-> IF \E b \in Browsers : seated[b] = s
                                      THEN [user |-> s, live |-> TRUE, proved |-> TRUE, through |-> "password"]
                                      ELSE NotOpened]
          /\ cookie = [b \in Browsers |-> IF seated[b] = 0 THEN NoLogin ELSE seated[b]]
    /\ issued = [a \in Attempts |-> NeverIssued] /\ kept = {}
    /\ nonces = [b \in Browsers |-> {}] /\ callback = [r \in Callbacks |-> NoCallback]
    /\ registering = TRUE /\ codes = {} /\ upsets = 0
    /\ completed = {} /\ spoilt = {} /\ shown = {} /\ told = {}

-----------------------------------------------------------------------------
(* What the middleware lets through: a session alive, of an account enabled.*)
Authentic(s) == login[s].live /\ \E u \in Accounts : u = login[s].user /\ account[u].state = "enabled"
Credential(b) == cookie[b] \in {NoLogin} \cup {s \in Logins : Authentic(s)}
Moves(r, place) == callback' = [callback EXCEPT ![r].at = place]
Answers(r) == callback' = [callback EXCEPT ![r] = CallbackEnded]
Upset == upsets < MaxUpsets /\ upsets' = upsets + 1
Lowest(S) == CHOOSE n \in S : \A m \in S : n <= m

-----------------------------------------------------------------------------
(* oauthAuthorize.  When no URL can be built the attempt stays in the store *)
(* and nobody knows it.                                                    *)
Authorizes(b, intent) ==
    LET fresh == {a \in Attempts : issued[a] = NeverIssued} IN
    /\ fresh # {} /\ Credential(b) /\ (intent = "login" <=> cookie[b] = NoLogin)
    /\ issued' = [issued EXCEPT ![Lowest(fresh)] =
                     [intent |-> intent, browser |-> b, login |-> cookie[b]]]
    /\ kept' = kept \cup {Lowest(fresh)}
    /\ nonces' = [nonces EXCEPT ![b] = @ \cup {Lowest(fresh)}]
    /\ UNCHANGED <<Rows, cookie, callback, registering, codes, upsets, History>>

(* A callback arrives with the cookies its browser held when it was sent.  *)
Presents(r, b, a) ==
    /\ callback[r].at = "idle" /\ issued[a] # NeverIssued /\ Credential(b)
    /\ callback' = [callback EXCEPT ![r] = [NoCallback EXCEPT
           !.at = "consume", !.browser = b, !.login = cookie[b], !.attempt = a,
           !.nonce = a \in nonces[b], !.gone = buried]]
    /\ UNCHANGED <<Rows, cookie, AttemptStore, registering, codes, upsets, History>>

(* The record is removed before it is looked at: what does not fit it      *)
(* spoils it.                                                              *)
Record(r) == issued[callback[r].attempt]
AnyBrowser(r) == TRUE
SameBrowser(r) == callback[r].nonce
SameUser(r) == /\ (callback[r].login = NoLogin) = (Record(r).login = NoLogin)
               /\ \A s, o \in Logins : s = callback[r].login /\ o = Record(r).login =>
                     login[s].user = login[o].user
SameLogin(r) == callback[r].login = Record(r).login
Belongs(r) == SameBrowser(r) /\ SameLogin(r)
BurntIfItBelongs(r) == IF Belongs(r) THEN kept \ {callback[r].attempt} ELSE kept
Burnt(r) == kept \ {callback[r].attempt}
Consumes(r) ==
    LET a == callback[r].attempt IN
    /\ callback[r].at = "consume"
    /\ nonces' = [nonces EXCEPT ![callback[r].browser] = @ \ {a}]
    /\ \/ a \in kept /\ Belongs(r) /\ Moves(r, "resolve") /\ kept' = Burnt(r)
          /\ UNCHANGED spoilt
       \/ a \in kept /\ Answers(r) /\ kept' = Burnt(r)   \* it does not fit, in the provider perhaps
          /\ spoilt' = spoilt \cup {a}
       \/ a \notin kept /\ Answers(r) /\ UNCHANGED <<kept, spoilt>>
    /\ UNCHANGED <<Rows, cookie, issued, registering, codes, upsets, completed, shown, told>>

-----------------------------------------------------------------------------
(* GetUserGithubOAuth2, GetUserLarkOAuth2: the provider names the identity,*)
(* and its row is read.                                                    *)
BoundAmongAll(i) == owner[i] # Nobody
Bound(i) == owner[i] # Nobody /\ i \notin buried
Bearer(r) == login[callback[r].login].user
Completes(r) ==
    completed' = completed \cup {[attempt |-> callback[r].attempt, browser |-> callback[r].browser,
                                  login |-> callback[r].login]}
Tells(r, i) == told' = told \cup {<<i, Bearer(r)>>}
ResolvesBinding(r, i) ==
    /\ callback[r].at = "resolve" /\ Record(r).intent = "binding"
    /\ shown' = shown \cup {<<i, Bearer(r)>>}
    /\ IF ~Bound(i)
       THEN /\ callback' = [callback EXCEPT ![r].at = "bind", ![r].identity = i]
            /\ UNCHANGED <<completed, told>>
       ELSE /\ Answers(r)
            /\ IF owner[i] = Bearer(r) THEN Tells(r, i) /\ Completes(r)
               ELSE UNCHANGED <<completed, told>>
    /\ UNCHANGED <<Rows, cookie, AttemptStore, registering, codes, upsets, spoilt>>
ResolvesProof(r, i) ==
    /\ callback[r].at = "resolve" /\ Record(r).intent = "reauthentication"
    /\ IF Bound(i) /\ owner[i] = Bearer(r) THEN Moves(r, "prove") ELSE Answers(r)
    /\ UNCHANGED <<Rows, cookie, AttemptStore, registering, codes, upsets, History>>
ResolvesLogin(r, i) ==
    /\ callback[r].at = "resolve" /\ Record(r).intent = "login"
    /\ callback' = [callback EXCEPT ![r] =
           IF Bound(i) THEN [@ EXCEPT !.at = "principal", !.identity = i, !.user = owner[i]]
           ELSE IF registering THEN [@ EXCEPT !.at = "register", !.identity = i]
           ELSE CallbackEnded]
    /\ UNCHANGED <<Rows, cookie, AttemptStore, registering, codes, upsets, History>>

(* persistOAuthBinding; an insert that fails, whatever the error, is       *)
(* followed by a lookup of the key among all rows.                         *)
KeyFreeIfBuried(i) == owner[i] = Nobody \/ i \in buried
KeyFree(i) == owner[i] = Nobody
Binds(r) ==
    LET i == callback[r].identity IN
    /\ callback[r].at = "bind"
    /\ \/ KeyFree(i) /\ owner' = [owner EXCEPT ![i] = Bearer(r)]
          /\ Answers(r) /\ Tells(r, i) /\ Completes(r)
       \/ Moves(r, "lookup") /\ UNCHANGED <<owner, completed, told>>
    /\ UNCHANGED <<account, buried, login, cookie, AttemptStore, registering, codes, upsets, spoilt, shown>>
BoundByAnybody(r) == Bound(callback[r].identity)
BoundAlready(r) == Bound(callback[r].identity) /\ owner[callback[r].identity] = Bearer(r)
LooksUpKey(r) ==
    /\ callback[r].at = "lookup" /\ Answers(r)
    /\ IF BoundAlready(r) THEN Tells(r, callback[r].identity) /\ Completes(r)
       ELSE UNCHANGED <<completed, told>>
    /\ UNCHANGED <<Rows, cookie, AttemptStore, registering, codes, upsets, spoilt, shown>>

(* MarkRecentlyAuthenticated.                                              *)
Proves(r) ==
    LET s == callback[r].login IN
    /\ callback[r].at = "prove" /\ Answers(r)
    /\ IF login[s].live THEN login' = [login EXCEPT ![s].proved = TRUE] /\ Completes(r)
       ELSE UNCHANGED <<login, completed>>
    /\ UNCHANGED <<account, owner, buried, cookie, AttemptStore, registering, codes, upsets,
                   spoilt, shown, told>>

-----------------------------------------------------------------------------
(* createOAuthIdentityWithoutEmailMerge: account and identity in one       *)
(* transaction, or neither; no account that has the address is taken.      *)
MailInUse == \E u \in Accounts : account[u].state = "enabled" /\ account[u].mail
MailTaken == \E u \in Accounts : account[u].state # "none" /\ account[u].mail
New == Lowest({u \in Accounts : account[u].state = "none"})
Created(source) == account' = [account EXCEPT ![New] = [state |-> "enabled", mail |-> TRUE, from |-> source]]
Registers(r) ==
    LET i == callback[r].identity IN
    /\ callback[r].at = "register"
    /\ IF ~MailTaken /\ KeyFree(i)
       THEN /\ Created(i) /\ owner' = [owner EXCEPT ![i] = New]
            /\ callback' = [callback EXCEPT ![r].at = "principal", ![r].user = New]
       ELSE Answers(r) /\ UNCHANGED <<account, owner>>
    /\ UNCHANGED <<buried, login, cookie, AttemptStore, registering, codes, upsets, History>>

(* EmailRegisterProvider and EmailLoginProvider: the code is used up before *)
(* the account is looked for.                                              *)
UsesCode(r, b, purpose) ==
    /\ callback[r].at = "idle" /\ purpose \in codes
    /\ purpose = "register" => registering
    /\ codes' = codes \ {purpose}
    /\ callback' = [callback EXCEPT ![r] = [NoCallback EXCEPT
           !.at = IF purpose = "register" THEN "enrol" ELSE "find", !.browser = b]]
    /\ UNCHANGED <<Rows, cookie, AttemptStore, registering, upsets, History>>
Enrols(r) ==
    /\ callback[r].at = "enrol"
    /\ IF ~MailTaken
       THEN Created("mail") /\ callback' = [callback EXCEPT ![r].at = "principal", ![r].user = New]
       ELSE Answers(r) /\ UNCHANGED account
    /\ UNCHANGED <<owner, buried, login, cookie, AttemptStore, registering, codes, upsets, History>>
WithMail == {u \in Accounts : account[u].state # "none" /\ account[u].mail}
FindsByMail(r) ==
    /\ callback[r].at = "find"
    /\ IF Cardinality(WithMail) = 1
       THEN callback' = [callback EXCEPT ![r].at = "principal", ![r].user = Lowest(WithMail)]
       ELSE Answers(r)
    /\ UNCHANGED <<Rows, cookie, AttemptStore, registering, codes, upsets, History>>

-----------------------------------------------------------------------------
(* AuthenticateVerifier: the account must be enabled, then a session is    *)
(* opened and its token set in the browser.                                *)
Admits(r) ==
    /\ callback[r].at = "principal"
    /\ IF account[callback[r].user].state = "enabled" THEN Moves(r, "mint") ELSE Answers(r)
    /\ UNCHANGED <<Rows, cookie, AttemptStore, registering, codes, upsets, History>>
Unopened == {s \in Logins : login[s] = NotOpened}
Opened(b, u, way) ==
    /\ Unopened # {}
    /\ login' = [login EXCEPT ![Lowest(Unopened)] = [user |-> u, live |-> TRUE, proved |-> TRUE,
                                                 through |-> way]]
    /\ cookie' = [cookie EXCEPT ![b] = Lowest(Unopened)]
Mints(r) ==
    /\ callback[r].at = "mint"
    /\ Opened(callback[r].browser, callback[r].user,
              IF callback[r].identity = NoIdentity THEN "mail" ELSE callback[r].identity)
    /\ IF callback[r].attempt = NoAttempt THEN UNCHANGED completed ELSE Completes(r)
    /\ Answers(r)
    /\ UNCHANGED <<account, owner, buried, AttemptStore, registering, codes, upsets, spoilt,
                   shown, told>>
HasPassword(u) == account[u].from \in {"seed", "mail"}
EntersPassword(b, u) ==
    /\ Upset /\ account[u].state = "enabled" /\ HasPassword(u) /\ Opened(b, u, "password")
    /\ UNCHANGED <<account, owner, buried, AttemptStore, callback, registering, codes, History>>

(* The provider, the database or the store fails, before the step or after.*)
CallFails(r) ==
    /\ callback[r].at \in {"resolve", "register", "enrol", "find", "principal", "mint"}
    /\ Answers(r)
    /\ UNCHANGED <<Rows, cookie, AttemptStore, registering, codes, upsets, History>>

-----------------------------------------------------------------------------
(* What goes away meanwhile: the browser's cookie, a session, its proof of *)
(* identity, an account, an attempt, the leave to register.                *)
LeavesSession(b) ==
    /\ Upset /\ cookie[b] # NoLogin /\ cookie' = [cookie EXCEPT ![b] = NoLogin]
    /\ login' \in {login, [login EXCEPT ![cookie[b]] = [@ EXCEPT !.live = FALSE]]}
    /\ UNCHANGED <<account, owner, buried, AttemptStore, callback, registering, codes, History>>
EndsSession(s) ==
    /\ Upset /\ login[s].live
    /\ \/ login' = [login EXCEPT ![s].live = FALSE]
       \/ login[s].proved /\ login' = [login EXCEPT ![s].proved = FALSE]
    /\ UNCHANGED <<account, owner, buried, cookie, AttemptStore, callback, registering, codes,
                   History>>
Disables(u) ==
    /\ Upset /\ account[u].state = "enabled" /\ account' = [account EXCEPT ![u].state = "disabled"]
    /\ UNCHANGED <<owner, buried, login, cookie, AttemptStore, callback, registering, codes, History>>
AttemptExpires(a) ==
    /\ Upset /\ a \in kept /\ kept' = kept \ {a}
    /\ UNCHANGED <<Rows, cookie, issued, nonces, callback, registering, codes, History>>
ClosesRegistration ==
    /\ Upset /\ registering /\ registering' = FALSE
    /\ UNCHANGED <<Rows, cookie, AttemptStore, callback, codes, History>>

(* FakeCaptcha: a code is mailed.                                          *)
MailsCode(purpose) ==
    /\ Upset /\ (purpose = "register" => registering) /\ codes' = codes \cup {purpose}
    /\ UNCHANGED <<Rows, cookie, AttemptStore, callback, registering, History>>

(* DisconnectOAuth, in a session with a recent proof.                      *)
OtherMethod(u, i) == HasPassword(u) \/ \E j \in Identities \ {i} : Bound(j) /\ owner[j] = u
Disconnects(s, i) ==
    /\ Upset /\ Authentic(s) /\ login[s].proved /\ Bound(i) /\ owner[i] = login[s].user
    /\ OtherMethod(owner[i], i) /\ buried' = buried \cup {i}
    /\ UNCHANGED <<account, owner, login, cookie, AttemptStore, callback, registering, codes,
                   History>>

SignInNext ==
    \/ \E b \in Browsers :
          \/ \E intent \in Intents : Authorizes(b, intent)
          \/ \E u \in Accounts : EntersPassword(b, u)
          \/ \E r \in Callbacks : \/ \E a \in Attempts : Presents(r, b, a)
                                  \/ \E purpose \in Purposes : UsesCode(r, b, purpose)
          \/ LeavesSession(b)
    \/ \E r \in Callbacks :
          \/ Consumes(r) \/ Binds(r) \/ LooksUpKey(r) \/ Proves(r) \/ Registers(r) \/ Enrols(r)
          \/ FindsByMail(r) \/ Admits(r) \/ Mints(r) \/ CallFails(r)
          \/ \E i \in Identities : ResolvesBinding(r, i) \/ ResolvesProof(r, i) \/ ResolvesLogin(r, i)
    \/ \E s \in Logins : EndsSession(s) \/ \E i \in Identities : Disconnects(s, i)
    \/ \E u \in Accounts : Disables(u)
    \/ \E a \in Attempts : AttemptExpires(a)
    \/ ClosesRegistration \/ \E purpose \in Purposes : MailsCode(purpose)

SignInSpec == SignInInit /\ [][SignInNext]_signInVars

-----------------------------------------------------------------------------
(* An attempt completes once, in the browser and under the session it was  *)
(* issued to, and not after somebody else has tried it.                    *)
AttemptsAreOwn ==
    /\ \A c \in completed : /\ c.attempt \notin spoilt
                            /\ c.browser = issued[c.attempt].browser
                            /\ c.login = issued[c.attempt].login
    /\ \A c, d \in completed : c.attempt = d.attempt => c = d

(* An identity belongs to an account that is there, and that showed it in  *)
(* its own session or was made for it; who was told that it is bound to    *)
(* his account is its owner.                                               *)
IdentitiesAreOwned ==
    /\ \A i \in Identities : owner[i] # Nobody =>
          /\ account[owner[i]].state # "none"
          /\ <<i, owner[i]>> \in shown \/ account[owner[i]].from = i
    /\ \A pair \in told : owner[pair[1]] = pair[2]

(* No two accounts have the same address; a session that was opened        *)
(* through an identity is one of its owner, and none is opened through one *)
(* that was disconnected when the callback came.                           *)
SessionsAreOwned ==
    /\ Cardinality(WithMail) <= 1
    /\ \A s \in Logins : login[s].through \in Identities => login[s].user = owner[login[s].through]
    /\ \A r \in Callbacks : callback[r].at \in {"principal", "mint"} =>
          callback[r].identity \notin callback[r].gone

SignInIsSound == AttemptsAreOwn /\ IdentitiesAreOwned /\ SessionsAreOwned
(* An identity once bound never passes to another account, also when it was *)
(* disconnected.                                                           *)
IdentitiesStay == \A i \in Identities : owner[i] # Nobody => owner'[i] = owner[i]
=============================================================================
