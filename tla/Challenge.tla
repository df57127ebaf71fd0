----------------------------- MODULE Challenge -----------------------------
(***************************************************************************)
(* One-time codes for one subject and purpose (mss-boot/runtime/challenge, *)
(* with the scripts of runtime/internal/redisbridge): issuers reserve,     *)
(* deliver and then commit or abort a code, verifiers read the stored      *)
(* verifier with one script and record the verdict with another.           *)
(*                                                                         *)
(* Each script is one step.  The Redis client repeats a command whose      *)
(* answer it lost, so a script may run up to MaxTries times for one call,  *)
(* other scripts in between, but not later than RepeatWithin after the     *)
(* first run; the call goes on with the first answer that arrives, or      *)
(* fails.  Issuers and verifiers are replicas that may stop anywhere.      *)
(*                                                                         *)
(* Time is a discrete clock that starts late enough for 0 to mean "never". *)
(* Each script drops the sorted-set members and compares the deadlines it  *)
(* looks at against the clock before it uses them, so an entry is present  *)
(* here when its time says so; a hash that Redis expired holds nothing but *)
(* passed deadlines.                                                       *)
(***************************************************************************)
EXTENDS Integers, FiniteSets

CONSTANTS Issues, Verifications,
          CodeOf,          \* the issue whose code a verification submits, or None
          CallerOf,        \* the caller an issue is charged to
          Unreadable,      \* issues whose pepper the verifiers do not have
          Repeatable,      \* calls whose answers may be lost, to be run again
          MaxTries,        \* runs of one script for one such call
          RepeatWithin,    \* how long after the first the client repeats it
          PendingTTL, CodeTTL, Cooldown, IdempotencyTTL,
          QuotaWindow, MaxIssues, CallerWindow, CallerLimit,
          GlobalWindow, GlobalLimit, MaxGuesses,
          Start, MaxTime, None

ASSUME ChallengeAssumption ==
    /\ IsFiniteSet(Issues) /\ IsFiniteSet(Verifications)
    /\ None \notin Issues /\ Issues \cap Verifications = {}
    /\ CodeOf \in [Verifications -> Issues \cup {None}]
    /\ Unreadable \subseteq Issues
    /\ {PendingTTL, CodeTTL, Cooldown, IdempotencyTTL, QuotaWindow, MaxIssues,
        CallerWindow, CallerLimit, GlobalWindow, GlobalLimit, MaxGuesses,
        MaxTries, RepeatWithin, Start, MaxTime} \subseteq Nat \ {0}
    /\ PendingTTL < CodeTTL
    /\ RepeatWithin < IdempotencyTTL   \* three retries in seconds, verdicts kept for minutes
    /\ \A w \in {QuotaWindow, CallerWindow, GlobalWindow} : w < Start
    /\ Start <= MaxTime

VARIABLES now,
          pending,        \* [id, until]: the reservation being delivered
          active,         \* [id, expires, attempts]: the code that verifies
          cooldownUntil,
          lastAbort,
          quotaAt,        \* the score of each issue in the subject's quota
          rateAt,         \* its score in the caller's and the global window
          ops, opsUntil,  \* the verdicts remembered, until when
          phase, tries, firstRun, expected,
          activatedAt,    \* history: when each issue last became active
          reservedAt,     \* history: when each issue was first reserved
          charged         \* history: the verifications charged to each issue

store == <<pending, active, cooldownUntil, lastAbort, quotaAt, rateAt, ops, opsUntil>>
procs == <<phase, tries, firstRun, expected>>
history == <<activatedAt, reservedAt, charged>>
challengeVars == <<now, store, procs, history>>

Calls == Issues \cup Verifications
NoPending == [id |-> None, until |-> 0]
NoActive == [id |-> None, expires |-> 0, attempts |-> 0]
Verdicts == {"SUCCESS", "INVALID", "LOCKED", "EXPIRED", "STALE"}

ChallengeTypeOK ==
    /\ now \in Start..MaxTime
    /\ pending \in [id : Issues \cup {None}, until : Nat]
    /\ active \in [id : Issues \cup {None}, expires : Nat, attempts : 0..(MaxGuesses - 1)]
    /\ cooldownUntil \in Nat /\ opsUntil \in Nat
    /\ lastAbort \in Issues \cup {None}
    /\ {quotaAt, rateAt, activatedAt, reservedAt} \subseteq [Issues -> Nat]
    /\ ops \in [Verifications -> {<<>>} \cup (Issues \X Verdicts)]
    /\ charged \in [Issues -> SUBSET Verifications]
    /\ phase \in [Calls -> {"idle", "rate", "begin", "send", "commit", "abort",
                            "read", "complete", "done", "limited", "verified"}]
    /\ tries \in [Calls -> 0..(MaxTries - 1)] /\ firstRun \in [Calls -> Nat]
    /\ expected \in [Verifications -> Issues \cup {None}]

ChallengeInit ==
    /\ now = Start
    /\ pending = NoPending /\ active = NoActive
    /\ cooldownUntil = 0 /\ lastAbort = None
    /\ quotaAt = [i \in Issues |-> 0] /\ rateAt = [i \in Issues |-> 0]
    /\ ops = [v \in Verifications |-> <<>>] /\ opsUntil = 0
    /\ phase = [p \in Calls |-> "idle"]
    /\ tries = [p \in Calls |-> 0] /\ firstRun = [p \in Calls |-> 0]
    /\ expected = [v \in Verifications |-> None]
    /\ activatedAt = [i \in Issues |-> 0] /\ reservedAt = [i \in Issues |-> 0]
    /\ charged = [i \in Issues |-> {}]

TimePasses == /\ now < MaxTime
        /\ now' = now + 1
        /\ UNCHANGED <<store, procs, history>>

-----------------------------------------------------------------------------
(* One run of the script of call p's phase.  Its answer arrives and p goes *)
(* on to phase st, or is lost, and the client may run the script again.    *)
Answers(p, st) ==
    /\ tries[p] > 0 => now <= firstRun[p] + RepeatWithin
    /\ \/ /\ phase' = [phase EXCEPT ![p] = st]
          /\ tries' = [tries EXCEPT ![p] = 0] /\ firstRun' = [firstRun EXCEPT ![p] = 0]
       \/ /\ p \in Repeatable /\ tries[p] + 1 < MaxTries
          /\ tries' = [tries EXCEPT ![p] = @ + 1]
          /\ firstRun' = [firstRun EXCEPT ![p] = IF tries[p] = 0 THEN now ELSE @]
          /\ UNCHANGED phase
    /\ UNCHANGED now
Moves(p, st) == /\ phase' = [phase EXCEPT ![p] = st]
                /\ tries' = [tries EXCEPT ![p] = 0] /\ firstRun' = [firstRun EXCEPT ![p] = 0]
                /\ UNCHANGED <<now, store, expected, history>>

InWindow(at, window) == at > now - window
Members(at, window, S) == {i \in S : InWindow(at[i], window)}
SameCaller(i) == {j \in Issues : CallerOf[j] = CallerOf[i]}

AtLimitLate(S, limit) == Cardinality(S) > limit
AtLimit(S, limit) == Cardinality(S) >= limit

(* challengeRateLua: an operation found in both windows was charged by an  *)
(* earlier run; found in one of them only, it is inconsistent.             *)
RateScript(i) ==
    LET caller == InWindow(rateAt[i], CallerWindow)
        global == InWindow(rateAt[i], GlobalWindow)
        limited == \/ AtLimit(Members(rateAt, CallerWindow, SameCaller(i)), CallerLimit)
                   \/ AtLimit(Members(rateAt, GlobalWindow, Issues), GlobalLimit)
    IN
    /\ phase[i] = "rate"
    /\ \/ caller /\ global /\ Answers(i, "begin") /\ UNCHANGED rateAt
       \/ caller # global /\ Answers(i, "done") /\ UNCHANGED rateAt
       \/ ~caller /\ ~global /\ limited /\ Answers(i, "limited") /\ UNCHANGED rateAt
       \/ /\ ~caller /\ ~global /\ ~limited
          /\ rateAt' = [rateAt EXCEPT ![i] = now]
          /\ Answers(i, "begin")
    /\ UNCHANGED <<pending, active, cooldownUntil, lastAbort, quotaAt, ops,
                   opsUntil, expected, history>>

Live == pending.id # None /\ pending.until > now
CoolingDown == cooldownUntil > now
QuotaSpentByActive == AtLimit(Members(activatedAt, QuotaWindow, Issues), MaxIssues)
QuotaSpent == AtLimit(Members(quotaAt, QuotaWindow, Issues), MaxIssues)

(* challengeBeginLua: a lease that has passed is dropped even when the new *)
(* reservation is then refused.                                            *)
BeginScript(i) ==
    /\ phase[i] = "begin"
    /\ \/ /\ Live
          /\ Answers(i, IF pending.id = i THEN "send" ELSE "done")
          /\ UNCHANGED <<pending, quotaAt, reservedAt>>
       \/ /\ ~Live /\ (CoolingDown \/ QuotaSpent)
          /\ pending' = NoPending
          /\ Answers(i, "done")
          /\ UNCHANGED <<quotaAt, reservedAt>>
       \/ /\ ~Live /\ ~CoolingDown /\ ~QuotaSpent
          /\ pending' = [id |-> i, until |-> now + PendingTTL]
          /\ quotaAt' = [quotaAt EXCEPT ![i] = now]
          /\ reservedAt' = [reservedAt EXCEPT ![i] = IF @ = 0 THEN now ELSE @]
          /\ Answers(i, "send")
    /\ UNCHANGED <<active, cooldownUntil, lastAbort, rateAt, ops, opsUntil,
                   expected, activatedAt, charged>>

CooldownKept == cooldownUntil
CooldownStarts == now + Cooldown

(* challengeCommitLua: OK also when the issue is already active; stale     *)
(* when it is neither active nor pending; a passed lease is dropped.       *)
CommitScript(i) ==
    /\ phase[i] = "commit"
    /\ \/ /\ active.id = i \/ pending.id # i
          /\ UNCHANGED <<pending, active, cooldownUntil, ops, activatedAt>>
       \/ /\ active.id # i /\ pending.id = i /\ ~Live
          /\ pending' = NoPending
          /\ UNCHANGED <<active, cooldownUntil, ops, activatedAt>>
       \/ /\ active.id # i /\ pending.id = i /\ Live
          /\ active' = [id |-> i, expires |-> now + CodeTTL, attempts |-> 0]
          /\ cooldownUntil' = CooldownStarts
          /\ pending' = NoPending
          /\ ops' = [v \in Verifications |-> <<>>]
          /\ activatedAt' = [activatedAt EXCEPT ![i] = now]
    /\ Answers(i, "done")
    /\ UNCHANGED <<lastAbort, quotaAt, rateAt, opsUntil, expected, reservedAt, charged>>

AbortsAnything(i) == lastAbort # i
Aborts(i) == lastAbort # i /\ pending.id = i

(* challengeAbortLua: OK when it is the last abort, else stale.            *)
AbortScript(i) ==
    /\ phase[i] = "abort"
    /\ IF Aborts(i)
       THEN pending' = NoPending /\ lastAbort' = i
       ELSE UNCHANGED <<pending, lastAbort>>
    /\ Answers(i, "done")
    /\ UNCHANGED <<active, cooldownUntil, quotaAt, rateAt, ops, opsUntil,
                   expected, history>>

(* challengeReadVerifierLua: the identity read is remembered by the caller.*)
ReadScript(v) ==
    /\ phase[v] = "read"
    /\ expected' = [expected EXCEPT ![v] = active.id]
    /\ Answers(v, "complete")
    /\ UNCHANGED <<store, history>>

Concludes(v, verdict) == Answers(v, IF verdict = "SUCCESS" THEN "verified" ELSE "done")
RememberedNever(v) == FALSE
Remembered(v) == ops[v] # <<>> /\ opsUntil > now
Remember(v, verdict) ==
    /\ ops' = [w \in Verifications |->
                 IF w = v THEN <<expected[v], verdict>>
                 ELSE IF opsUntil > now THEN ops[w] ELSE <<>>]
    /\ opsUntil' = now + IdempotencyTTL
    /\ Concludes(v, verdict)
SpentLate == active
Spent == NoActive
LimitPassed(wrong) == wrong > MaxGuesses
LimitReached(wrong) == wrong >= MaxGuesses
StillAnyActive(id) == active.id # None
StillActive(id) == active.id = id
Matched(v) == CodeOf[v] = expected[v]

(* challengeCompleteVerifyLua; a dummy completion expects no issue.        *)
CompleteScript(v) ==
    LET id == expected[v]
        wrong == active.attempts + 1
    IN
    /\ phase[v] = "complete"
    /\ \/ /\ Remembered(v)
          /\ Concludes(v, IF ops[v][1] = id THEN ops[v][2] ELSE "STALE")
          /\ UNCHANGED <<active, ops, opsUntil, charged>>
       \/ /\ ~Remembered(v)
          /\ id = None \/ id \in Unreadable \/ ~StillActive(id)
          /\ Concludes(v, "STALE")
          /\ UNCHANGED <<active, ops, opsUntil, charged>>
       \/ /\ ~Remembered(v)
          /\ id # None /\ id \notin Unreadable /\ StillActive(id)
          /\ \/ /\ active.expires <= now
                /\ active' = NoActive
                /\ Remember(v, "EXPIRED")
                /\ UNCHANGED charged
             \/ /\ active.expires > now /\ Matched(v)
                /\ active' = Spent
                /\ Remember(v, "SUCCESS")
                /\ UNCHANGED charged
             \/ /\ active.expires > now /\ ~Matched(v)
                /\ charged' = [charged EXCEPT ![id] = @ \cup {v}]
                /\ IF LimitReached(wrong)
                   THEN active' = NoActive /\ Remember(v, "LOCKED")
                   ELSE /\ active' = [active EXCEPT !.attempts = wrong]
                        /\ Remember(v, "INVALID")
    /\ UNCHANGED <<pending, cooldownUntil, lastAbort, quotaAt, rateAt, expected,
                   activatedAt, reservedAt>>

-----------------------------------------------------------------------------
(* FakeCaptcha: BeginIssue charges the rates and reserves, the code is     *)
(* sent, and Commit or Abort concludes.                                    *)
Issue(i) == phase[i] = "idle" /\ Moves(i, "rate")
Send(i) == phase[i] = "send" /\ \E st \in {"commit", "abort"} : Moves(i, st)
VerifyCall(v) == phase[v] = "idle" /\ Moves(v, "read")

(* The answer never comes, the context ends or the replica stops.          *)
StopsShort(p) == /\ phase[p] \in {"rate", "begin", "send", "commit", "abort",
                             "read", "complete"}
            /\ Moves(p, "done")

ChallengeNext ==
    \/ TimePasses
    \/ \E i \in Issues : \/ Issue(i) \/ Send(i) \/ RateScript(i)
                         \/ BeginScript(i) \/ CommitScript(i) \/ AbortScript(i)
    \/ \E v \in Verifications : \/ VerifyCall(v)
                                \/ ReadScript(v) \/ CompleteScript(v)
    \/ \E p \in Calls : StopsShort(p)

ChallengeSpec == ChallengeInit /\ [][ChallengeNext]_challengeVars

-----------------------------------------------------------------------------
(* One code verifies once: however verifications of an issue overlap and   *)
(* are repeated, at most one call is told it succeeded.                    *)
VerifiesOnce ==
    \A i \in Issues :
        Cardinality({v \in Verifications : phase[v] = "verified" /\ expected[v] = i}) <= 1

(* A success consumes the code it was given for: that issue is active at  *)
(* the moment of the verdict, so no reservation still pending or aborted   *)
(* verifies (the ADR: "Verify never accepts pending values"), and an issue *)
(* committed since the verifier was read is not consumed in its place.     *)
SuccessConsumesItsCode ==
    [][\A v \in Verifications : phase[v] # "verified" /\ phase'[v] = "verified" =>
         \/ active.id = CodeOf[v] /\ active' = NoActive
         \/ ops[v] = <<CodeOf[v], "SUCCESS">>]_challengeVars

(* The guesses charged to an issue never exceed the limit, also when they  *)
(* race; a completion the client repeats is not charged again, so an issue *)
(* is locked by MaxGuesses different guesses and never by fewer.          *)
GuessesAreBounded ==
    /\ \A i \in Issues : Cardinality(charged[i]) <= MaxGuesses
    /\ active.id # None => active.attempts = Cardinality(charged[active.id])
    /\ \A v \in Verifications : \A i \in Issues :
          ops[v] = <<i, "LOCKED">> => Cardinality(charged[i]) = MaxGuesses

(* A reservation within its lease is taken away by nobody but its issuer:  *)
(* a late commit or abort of an older one leaves it alone.                 *)
ReservationIsProtected ==
    [][\A i \in Issues : pending.id = i /\ Live /\ pending'.id # i =>
         phase[i] \in {"commit", "abort"} /\ (phase'[i] = "done" \/ tries'[i] # tries[i])]_challengeVars

(* A code is activated once, and two activations are a cooldown apart.     *)
ActivationsAreSpaced ==
    [][\A i \in Issues : activatedAt'[i] # activatedAt[i] =>
         \A j \in Issues : activatedAt[j] # 0 => now >= activatedAt[j] + Cooldown]_challengeVars

(* Every reservation counts against the quota for a whole window, whatever *)
(* became of its delivery.                                                 *)
QuotaIsKept ==
    Cardinality({i \in Issues : reservedAt[i] # 0 /\ InWindow(reservedAt[i], QuotaWindow)})
        <= MaxIssues

(* The rates bound what is admitted to a window, and a charge the client   *)
(* repeats is recognized before the limits: it never limits itself.        *)
RatesAreKept ==
    /\ \A i \in Issues :
          /\ Cardinality(Members(rateAt, CallerWindow, SameCaller(i))) <= CallerLimit
          /\ phase[i] = "limited" => ~InWindow(rateAt[i], CallerWindow)
    /\ Cardinality(Members(rateAt, GlobalWindow, Issues)) <= GlobalLimit

(* The codes are guarded against guessing, sending too often and late or   *)
(* repeated commands together.                                             *)
ChallengeIsSound ==
    /\ [](VerifiesOnce /\ GuessesAreBounded /\ QuotaIsKept /\ RatesAreKept)
    /\ SuccessConsumesItsCode /\ ReservationIsProtected /\ ActivationsAreSpaced
=============================================================================
