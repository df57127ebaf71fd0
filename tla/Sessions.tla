------------------------------ MODULE Sessions ------------------------------
(***************************************************************************)
(* The server-side sessions of one user and the credentials they guard     *)
(* (admin/service/session.go, account_security.go, the session cache and   *)
(* models.PasswordResetWithDB).  The database row of a session is the      *)
(* truth; Redis keeps an entry beside it, written after the row, that any  *)
(* failure may leave behind.                                               *)
(*                                                                         *)
(* A statement of a login, a lookup or a revocation is a step, and so is   *)
(* each cache command, which may fail.  The transactions of                *)
(* account_security.go take the session's row FOR UPDATE first and the     *)
(* user's next, hold both to the end, and are one step.  The clock counts  *)
(* minutes.                                                                *)
(***************************************************************************)
EXTENDS Naturals, Sequences, FiniteSets

CONSTANTS SessionIds, Handlers,
          Providers,              \* of OAuth identities
          ProofTTL,               \* how long a proof of identity is recent
          LockTTL, FailureWindow, MaxFailures,
          SessionTTL, MaxClock,    \* MaxClock is a bound
          MaxPasswords            \* bound: passwords the user has had

ASSUME SessionsAssumption ==
    /\ {ProofTTL, LockTTL, MaxFailures, SessionTTL} \subseteq Nat \ {0}
    /\ FailureWindow \in Nat /\ LockTTL <= FailureWindow
    /\ MaxClock \in Nat /\ MaxPasswords \in Nat

VARIABLES clock,
          row,                    \* the session rows
          cached,                 \* the cache entry of each session
          password, bindings,     \* 0: no local password; the OAuth identities bound
          handler,                \* the lookups, logins and revocations under way
          guesses                 \* history: times of the wrong passwords since the last proof

sessionsVars == <<clock, row, cached, password, bindings, handler, guesses>>

Dead == {"revoked", "gone"}
NoRow == [state |-> "none", login |-> 0, proof |-> 0, fails |-> 0, failedAt |-> 0,
          lockedUntil |-> 0,
          credential |-> 0]       \* history: the password its login checked, 0 if it was another way
(* The other columns of a revoked or deleted row are not looked at again.  *)
Ended(state) == [NoRow EXCEPT !.state = state]
NotBusy == [at |-> "idle", sid |-> "none", wasDead |-> FALSE, found |-> {}, credential |-> 0]

SessionsTypeOK ==
    /\ clock \in 1..MaxClock
    /\ row \in [SessionIds -> [state : {"none", "active", "revoked", "gone"}, login : 0..MaxClock,
                               proof : 0..MaxClock, fails : 0..MaxClock * MaxFailures,
                               failedAt : 0..MaxClock, lockedUntil : 0..MaxClock + LockTTL,
                               credential : 0..MaxPasswords]]
    /\ cached \in [SessionIds -> {"none", "active", "revoked"}]
    /\ password \in 0..MaxPasswords /\ bindings \subseteq Providers
    /\ handler \in [Handlers -> [at : {"idle", "insert", "probe", "load", "drop", "mark", "backfill",
                                       "granted", "save", "saveAll", "markAll"},
                                 sid : SessionIds \cup {"none"}, wasDead : BOOLEAN,
                                 found : SUBSET SessionIds, credential : 0..MaxPasswords]]
    /\ \A s \in SessionIds : guesses[s] \in Seq(1..MaxClock) /\ Len(guesses[s]) <= MaxFailures + 1

SessionsInit ==
    /\ clock = 1
    /\ row = [s \in SessionIds |-> NoRow] /\ cached = [s \in SessionIds |-> "none"]
    /\ password \in {0, 1} /\ bindings \in SUBSET Providers
    /\ password = 0 => bindings # {}
    /\ handler = [h \in Handlers |-> NotBusy]
    /\ guesses = [s \in SessionIds |-> <<>>]

Expired(s) == row[s].login + SessionTTL < clock
Goes(h, place) == handler' = [handler EXCEPT ![h].at = place]
Finishes(h) == handler' = [handler EXCEPT ![h] = NotBusy]
(* A cache command: it stores the value, or fails and is only logged.      *)
Caches(s, value) == cached' \in {cached, [cached EXCEPT ![s] = value]}
Durable == <<row, password, bindings, guesses>>

-----------------------------------------------------------------------------
(* A login: AuthenticateVerifier checks a credential, with no lock, and    *)
(* only then creates the session, the row first, then the cache entry.     *)
VerifyCredential(h) ==
    /\ handler[h].at = "idle"
    /\ \E credential \in {password, 0} :
          /\ credential = 0 => bindings # {}
          /\ handler' = [handler EXCEPT ![h] = [NotBusy EXCEPT !.at = "insert",
                                                             !.credential = credential]]
    /\ UNCHANGED <<clock, cached, Durable>>
LogIn(h, s) ==
    /\ handler[h].at = "insert" /\ row[s].state = "none"
    /\ row' = [row EXCEPT ![s] = [NoRow EXCEPT !.state = "active", !.login = clock, !.proof = clock,
                                              !.credential = handler[h].credential]]
    /\ handler' = [handler EXCEPT ![h] = [NotBusy EXCEPT !.at = "backfill", !.sid = s]]
    /\ UNCHANGED <<clock, cached, password, bindings, guesses>>

(* Create's and Lookup's Set: it may come long after the row was read.     *)
Backfill(h) ==
    /\ handler[h].at = "backfill" /\ Caches(handler[h].sid, "active")
    /\ Goes(h, "granted")
    /\ UNCHANGED <<clock, Durable>>

(* Lookup reads the cache; an unreachable one, or one that has lost the    *)
(* entry, counts as a miss.                                                *)
Look(h, s) ==
    /\ handler[h].at = "idle" /\ row[s].state # "none"
    /\ \E hit \in {"none", cached[s]} :
          handler' = [handler EXCEPT ![h] =
              IF hit = "revoked" THEN NotBusy
              ELSE [NotBusy EXCEPT !.at = IF hit = "active" THEN "probe" ELSE "load", !.sid = s,
                                   !.wasDead = row[s].state \in Dead]]
    /\ UNCHANGED <<clock, cached, Durable>>

(* A hit on an active entry is checked against the row.                    *)
TrustedIfUnexpired(s) == row[s].state # "none" /\ ~Expired(s)
Trusted(s) == row[s].state = "active" /\ ~Expired(s)
Probe(h) ==
    LET s == handler[h].sid IN
    /\ handler[h].at = "probe"
    /\ \/ row[s].state = "gone" /\ Goes(h, "drop")
       \/ row[s].state = "revoked" /\ Goes(h, "mark")
       \/ row[s].state = "active" /\ Expired(s) /\ Finishes(h)
       \/ Trusted(s) /\ Goes(h, "granted")
    /\ UNCHANGED <<clock, cached, Durable>>

(* A miss reads the row and fills the cache.                               *)
LoadRow(h) ==
    LET s == handler[h].sid IN
    /\ handler[h].at = "load"
    /\ IF Trusted(s) THEN Goes(h, "backfill") ELSE Finishes(h)
    /\ UNCHANGED <<clock, cached, Durable>>

(* The probe's repairs, and the mark a revocation leaves.                  *)
Drop(h) ==
    /\ handler[h].at = "drop" /\ Caches(handler[h].sid, "none") /\ Finishes(h)
    /\ UNCHANGED <<clock, Durable>>
Mark(h) ==
    /\ handler[h].at = "mark" /\ Caches(handler[h].sid, "revoked") /\ Finishes(h)
    /\ UNCHANGED <<clock, Durable>>

(* Lookup or Create has answered, and the request it admitted ends.        *)
Served(h) ==
    /\ handler[h].at = "granted" /\ Finishes(h)
    /\ UNCHANGED <<clock, cached, Durable>>

-----------------------------------------------------------------------------
(* RevokeBySID reads the row, saves it whole - which brings a row back     *)
(* that was deleted meanwhile - and marks the cache.                       *)
Revoke(h, s) ==
    /\ handler[h].at = "idle" /\ row[s].state \in {"active", "revoked"}
    /\ handler' = [handler EXCEPT ![h] = [NotBusy EXCEPT !.sid = s,
                       !.at = IF row[s].state = "revoked" THEN "mark" ELSE "save"]]
    /\ UNCHANGED <<clock, cached, Durable>>
Save(h) ==
    /\ handler[h].at = "save"
    /\ row' = [row EXCEPT ![handler[h].sid] = Ended("revoked")]
    /\ guesses' = [guesses EXCEPT ![handler[h].sid] = <<>>]
    /\ Goes(h, "mark")
    /\ UNCHANGED <<clock, cached, password, bindings>>

(* RevokeByUserID marks the sessions it found before its update, which may *)
(* reach more of them.                                                     *)
LiveSessions == {s \in SessionIds : row[s].state = "active"}
AllRevoked ==
    /\ row' = [s \in SessionIds |-> IF s \in LiveSessions THEN Ended("revoked") ELSE row[s]]
    /\ guesses' = [s \in SessionIds |-> IF s \in LiveSessions THEN <<>> ELSE guesses[s]]
RevokeUser(h) ==
    /\ handler[h].at = "idle" /\ LiveSessions # {}
    /\ handler' = [handler EXCEPT ![h] = [NotBusy EXCEPT !.at = "saveAll", !.found = LiveSessions]]
    /\ UNCHANGED <<clock, cached, Durable>>
SaveAll(h) ==
    /\ handler[h].at = "saveAll" /\ AllRevoked /\ Goes(h, "markAll")
    /\ UNCHANGED <<clock, cached, password, bindings>>
MarkNext(h) ==
    /\ handler[h].at = "markAll"
    /\ \/ \E s \in handler[h].found :
             Caches(s, "revoked") /\ handler' = [handler EXCEPT ![h].found = @ \ {s}]
       \/ handler[h].found = {} /\ Finishes(h) /\ UNCHANGED cached
    /\ UNCHANGED <<clock, Durable>>

(* CleanupOlderThan deletes rows long dead.                                *)
Cleanup(s) ==
    /\ row[s].state = "revoked" \/ (row[s].state = "active" /\ Expired(s))
    /\ row' = [row EXCEPT ![s] = Ended("gone")] /\ guesses' = [guesses EXCEPT ![s] = <<>>]
    /\ UNCHANGED <<clock, cached, password, bindings, handler>>

-----------------------------------------------------------------------------
(* The transactions of account_security.go, each on one session, which is  *)
(* over at its last minute, that a lookup still allows.                    *)
Current(s) == row[s].state = "active" /\ clock < row[s].login + SessionTTL
Recent(s) == row[s].proof # 0 /\ clock < row[s].proof + ProofTTL
NeverLocked(s) == FALSE
Locked(s) == clock < row[s].lockedUntil
FailuresSinceLock(s) ==
    IF row[s].failedAt = 0 \/ row[s].lockedUntil # 0 \/ clock > row[s].failedAt THEN 0 ELSE row[s].fails
Failures(s) == IF row[s].failedAt = 0 \/ clock > row[s].failedAt + FailureWindow
               THEN 0 ELSE row[s].fails

(* ReauthenticateWithPassword, its failures committed too.                 *)
GuessWrong(s) ==
    /\ Current(s) /\ ~Locked(s) /\ password # 0
    /\ row' = [row EXCEPT ![s].fails = Failures(s) + 1, ![s].failedAt = clock,
                          ![s].lockedUntil = IF Failures(s) + 1 >= MaxFailures
                                             THEN clock + LockTTL ELSE 0]
    /\ guesses' = [guesses EXCEPT ![s] =
                      Append(IF Len(@) > MaxFailures THEN Tail(@) ELSE @, clock)]
    /\ UNCHANGED <<clock, cached, password, bindings, handler>>
Proved(s) ==
    /\ row' = [row EXCEPT ![s].proof = clock, ![s].fails = 0, ![s].failedAt = 0,
                          ![s].lockedUntil = 0]
    /\ guesses' = [guesses EXCEPT ![s] = <<>>]
GuessRight(s) ==
    /\ Current(s) /\ ~Locked(s) /\ password # 0 /\ Proved(s)
    /\ UNCHANGED <<clock, cached, password, bindings, handler>>
(* MarkRecentlyAuthenticated, after an OAuth callback.                     *)
MarkRecentlyAuthenticated(s) ==
    /\ Current(s) /\ bindings # {} /\ Proved(s)
    /\ UNCHANGED <<clock, cached, password, bindings, handler>>

(* ChangePassword, or an administrator's or a forgotten password's reset:  *)
(* PasswordResetWithDB; the caches are left as they are.                   *)
CachedDropped ==
    LET found == {s \in LiveSessions : cached[s] = "active"} IN
    /\ row' = [s \in SessionIds |-> IF s \in found THEN Ended("revoked") ELSE row[s]]
    /\ guesses' = [s \in SessionIds |-> IF s \in found THEN <<>> ELSE guesses[s]]
AllDropped == AllRevoked
PasswordResetWithDB ==
    /\ password < MaxPasswords /\ password' = password + 1 /\ AllDropped
    /\ UNCHANGED <<clock, cached, bindings, handler>>
ChangePassword(s) == Current(s) /\ Recent(s) /\ PasswordResetWithDB

(* DisconnectOAuth.                                                        *)
NoMethod == password = 0 /\ bindings = {}
LastMethod == password = 0 /\ Cardinality(bindings) = 1
DisconnectOAuth(s, provider) ==
    /\ Current(s) /\ Recent(s) /\ provider \in bindings /\ ~LastMethod
    /\ bindings' = bindings \ {provider}
    /\ UNCHANGED <<clock, row, cached, password, handler, guesses>>

-----------------------------------------------------------------------------
(* Any number of minutes may pass between two steps.                       *)
MinutesPass ==
    /\ clock' \in clock + 1..MaxClock
    /\ UNCHANGED <<row, cached, password, bindings, handler, guesses>>

SessionsNext ==
    \/ \E h \in Handlers :
          \/ VerifyCredential(h) \/ Backfill(h) \/ Probe(h) \/ LoadRow(h) \/ Drop(h) \/ Mark(h) \/ Served(h)
          \/ Save(h) \/ RevokeUser(h) \/ SaveAll(h) \/ MarkNext(h)
          \/ \E s \in SessionIds : LogIn(h, s) \/ Look(h, s) \/ Revoke(h, s)
    \/ \E s \in SessionIds :
          \/ Cleanup(s) \/ GuessWrong(s) \/ GuessRight(s) \/ MarkRecentlyAuthenticated(s)
          \/ ChangePassword(s)
          \/ \E provider \in Providers : DisconnectOAuth(s, provider)
    \/ PasswordResetWithDB \/ MinutesPass

SessionsSpec == SessionsInit /\ [][SessionsNext]_sessionsVars

-----------------------------------------------------------------------------
(* No lookup admits a request under a session that was already revoked, or *)
(* deleted, when the lookup began, whatever the cache says and whatever    *)
(* revocations, backfills and lost cache commands cross it.                *)
RevocationIsImmediate == \A h \in Handlers : handler[h].at = "granted" => ~handler[h].wasDead
(* The cache calls a session revoked only if its row is, or was deleted:   *)
(* the fast path never turns away a live session.                          *)
SentinelIsTrue == \A s \in SessionIds : cached[s] = "revoked" => row[s].state \in Dead
SessionsAreSound == RevocationIsImmediate /\ SentinelIsTrue

(* Between two proofs of identity, no session has more than MaxFailures    *)
(* wrong passwords checked within LockTTL, whichever way the failures      *)
(* spread over locks and over the window that forgets them.                *)
GuessesAreSpaced ==
    \A s \in SessionIds : Len(guesses[s]) > MaxFailures =>
        guesses[s][MaxFailures + 1] >= guesses[s][1] + LockTTL
(* A user always keeps a way to log in.                                    *)
LoginMethodRemains == password # 0 \/ bindings # {}
AccountIsGuarded == GuessesAreSpaced /\ LoginMethodRemains

(* A session never comes back to life.  When a password changes, every     *)
(* session that exists ends with it.  PasswordResetWithDB means that no    *)
(* password coexists with an old credential; a session with one can only   *)
(* come from a login that had checked the old password before the change   *)
(* and creates its session after it.                                       *)
Outdated(s) == row[s].state = "active" /\ row[s].credential \notin {0, password}
SessionsOnlyEnd ==
    \A s \in SessionIds :
        /\ row[s].state \in Dead => row'[s].state \in Dead
        /\ password' # password => row'[s].state # "active"
        /\ Outdated(s)' => Outdated(s) \/ row[s].state = "none"
=============================================================================
