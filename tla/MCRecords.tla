------------------------------ MODULE MCRecords -------------------------------
(***************************************************************************)
(* The stores of the admin, its modules and migrations, the repository     *)
(* records and processes of the mss tools, and Build of the runtime, in    *)
(* one run.  They share no state: the initial state chooses the one whose  *)
(* steps the behaviour shows, and the variables of the others are 0, or    *)
(* as in the beginning.                                                    *)
(***************************************************************************)
EXTENDS VersionedConfig, PresentationProfile, Sessions, Snapshots, DevManager,
        Options, Hierarchy, BusinessRegistry, Migrations, QueryCache,
        Generation, SignIn, ResourceOrder, TLC

CONSTANTS x1, x2, y1, y2        \* named apart for symmetry only

VARIABLE subject
recordsVars == <<subject, configVars, presentationVars, sessionsVars, snapshotVars,
                 devVars, vars, optionsVars, hierarchyVars, registryVars, migrationVars,
                 tableVars, generationVars, signInVars>>

MCPaths == 1..2
MCBuilt == ("v0" :> <<"absent", "absent">>) @@ ("v1" :> <<"a", "a">>)
        @@ ("v2" :> <<"b", "absent">>) @@ ("v3" :> <<"a", "b">>)
Registration(n, old) == [id |-> n, aliases |-> old]
MCCore == {Registration(1, {}), Registration(3, {0})}
MCOffers == {{}, {Registration(2, {0})}, {Registration(4, {1})}, {Registration(5, {2})}}
MCWanted == {<<"a", "a", "b">>, <<"a", "absent", "absent">>}
RecordsSymmetry == Permutations({x1, x2}) \cup Permutations({y1, y2})

Subjects == {"config", "presentation", "sessions", "guesses", "snapshots", "processes",
             "options", "hierarchy", "registry", "migrations", "queries", "generation",
             "accounts", "build"}

OfSessions == subject \in {"sessions", "guesses"}

(* The variables of the ones that rest.                                    *)
ConfigRests == /\ scope = 0 /\ stored = 0 /\ past = 0 /\ rowOwner = 0 /\ revised = 0
               /\ entry = 0 /\ overtaken = 0 /\ reading = 0 /\ editing = 0
               /\ cacheFaults = 0
PresentationRests == /\ profile = 0 /\ revisions = 0 /\ rowLocks = 0 /\ holder = 0
                     /\ request = 0 /\ run = 0 /\ drafts = 0
SessionsRests == /\ clock = 0 /\ row = 0 /\ cached = 0 /\ password = 0 /\ bindings = 0
                 /\ handler = 0 /\ guesses = 0
SnapshotRests == /\ files = 0 /\ edited = 0 /\ records = 0 /\ marker = 0 /\ lockHeld = 0
                 /\ sharing = 0 /\ writer = 0 /\ reader = 0 /\ agreed = 0 /\ faults = 0
DevRests == /\ process = 0 /\ stateFile = 0 /\ lifecycle = 0 /\ command = 0 /\ launches = 0
            /\ mishaps = 0 /\ strangers = 0 /\ lost = 0
OptionsRests == /\ options = 0 /\ versions = 0 /\ locked = 0 /\ rowsLock = 0
                /\ cachedOption = 0 /\ manager = 0 /\ lookup = 0 /\ lostCommands = 0
                /\ committed = 0 /\ raced = 0 /\ outdated = 0
HierarchyRests == tree = 0 /\ scopes = 0 /\ ask = 0 /\ overlapped = 0
RegistryRests == /\ gate = 0 /\ active = 0 /\ frozen = 0 /\ entries = 0 /\ business = 0
                 /\ adding = 0 /\ transaction = 0 /\ helper = 0 /\ mount = 0
MigrationsRests == /\ phases = 0 /\ sound = 0 /\ transactional = 0 /\ ledger = 0
                   /\ effect = 0 /\ migrate = 0
GenerationRests == content = 0 /\ generate = 0 /\ touches = 0 /\ intact = 0
SignInRests == /\ account = 0 /\ owner = 0 /\ buried = 0 /\ login = 0 /\ cookie = 0
               /\ issued = 0 /\ kept = 0 /\ nonces = 0 /\ callback = 0 /\ registering = 0
               /\ codes = 0 /\ upsets = 0 /\ completed = 0 /\ spoilt = 0 /\ shown = 0
               /\ told = 0

RecordsInit ==
    /\ subject \in Subjects
    /\ IF subject = "config" THEN ConfigInit ELSE ConfigRests
    /\ IF subject = "presentation" THEN PresentationInit ELSE PresentationRests
    /\ IF OfSessions THEN SessionsInit ELSE SessionsRests
    /\ subject = "sessions" => bindings \in {{}, Providers}
    /\ IF subject = "snapshots" THEN SnapshotInit ELSE SnapshotRests
    /\ IF subject = "processes" THEN DevInit ELSE DevRests
    /\ IF subject = "options" THEN OptionsInit ELSE OptionsRests
    /\ IF subject = "hierarchy" THEN HierarchyInit ELSE HierarchyRests
    /\ IF subject = "registry" THEN RegistryInit ELSE RegistryRests
    /\ IF subject = "migrations" THEN MigrationsInit ELSE MigrationsRests
    /\ QueryInit
    /\ IF subject = "generation" THEN GenerationInit ELSE GenerationRests
    /\ IF subject = "accounts" THEN SignInInit ELSE SignInRests
    /\ Init /\ (subject # "build" => deps = [n \in {} |-> {}])

(* Sessions are seen twice: requests that cross while time leaps from one  *)
(* end of their spans to the other, without wrong passwords and unbinding; *)
(* or one session and one request, minute by minute and with the cache     *)
(* down, while locks set in and end and the window that forgets failures   *)
(* lapses.                                                                 *)
Crossings == /\ clock' \in {1, 1 + SessionTTL, 2 + SessionTTL} /\ bindings' = bindings
             /\ \A s \in SessionIds : guesses'[s] = <<>>
Guesses == /\ clock' <= clock + 1 /\ cached' = cached
           /\ Cardinality({s \in SessionIds : row'[s] # NoRow}) <= 1
           /\ Cardinality({h \in Handlers : handler'[h] # NotBusy}) <= 1

RecordsNext ==
    \/ /\ subject = "config"
       /\ UNCHANGED <<subject, presentationVars, sessionsVars, snapshotVars, devVars, optionsVars,
                      hierarchyVars, registryVars, migrationVars, tableVars, generationVars,
                      vars, signInVars>>
       /\ ConfigNext
    \/ /\ subject = "presentation"
       /\ UNCHANGED <<subject, configVars, sessionsVars, snapshotVars, devVars, optionsVars,
                      hierarchyVars, registryVars, migrationVars, tableVars, generationVars,
                      vars, signInVars>>
       /\ PresentationNext
    \/ /\ OfSessions
       /\ UNCHANGED <<subject, configVars, presentationVars, snapshotVars, devVars, optionsVars,
                      hierarchyVars, registryVars, migrationVars, tableVars, generationVars,
                      vars, signInVars>>
       /\ SessionsNext /\ (IF subject = "sessions" THEN Crossings ELSE Guesses)
    \/ /\ subject = "snapshots"
       /\ UNCHANGED <<subject, configVars, presentationVars, sessionsVars, devVars, optionsVars,
                      hierarchyVars, registryVars, migrationVars, tableVars, generationVars,
                      vars, signInVars>>
       /\ SnapshotNext
    \/ /\ subject = "processes"
       /\ UNCHANGED <<subject, configVars, presentationVars, sessionsVars, snapshotVars,
                      optionsVars, hierarchyVars, registryVars, migrationVars, tableVars,
                      generationVars,
                      vars, signInVars>>
       /\ DevNext
    \/ /\ subject = "options"
       /\ UNCHANGED <<subject, configVars, presentationVars, sessionsVars, snapshotVars, devVars,
                      hierarchyVars, registryVars, migrationVars, tableVars, generationVars,
                      vars, signInVars>>
       /\ OptionsNext
    \/ /\ subject = "hierarchy"
       /\ UNCHANGED <<subject, configVars, presentationVars, sessionsVars, snapshotVars, devVars,
                      optionsVars, registryVars, migrationVars, tableVars, generationVars,
                      vars, signInVars>>
       /\ HierarchyNext
    \/ /\ subject = "registry"
       /\ UNCHANGED <<subject, configVars, presentationVars, sessionsVars, snapshotVars, devVars,
                      optionsVars, hierarchyVars, migrationVars, tableVars, generationVars,
                      vars, signInVars>>
       /\ RegistryNext
    \/ /\ subject = "migrations"
       /\ UNCHANGED <<subject, configVars, presentationVars, sessionsVars, snapshotVars, devVars,
                      optionsVars, hierarchyVars, registryVars, tableVars, generationVars,
                      vars, signInVars>>
       /\ MigrationsNext
    \/ /\ subject = "queries"
       /\ UNCHANGED <<subject, configVars, presentationVars, sessionsVars, snapshotVars, devVars,
                      optionsVars, hierarchyVars, registryVars, migrationVars, generationVars,
                      vars, signInVars>>
       /\ QueryNext
    \/ /\ subject = "generation"
       /\ UNCHANGED <<subject, configVars, presentationVars, sessionsVars, snapshotVars, devVars,
                      optionsVars, hierarchyVars, registryVars, migrationVars, tableVars,
                      vars, signInVars>>
       /\ GenerationNext
    \/ /\ subject = "build"
       /\ UNCHANGED <<subject, configVars, presentationVars, sessionsVars, snapshotVars, devVars,
                      optionsVars, hierarchyVars, registryVars, migrationVars, tableVars,
                      generationVars, signInVars>>
       /\ Next
    \/ /\ subject = "accounts"
       /\ UNCHANGED <<subject, configVars, presentationVars, sessionsVars, snapshotVars, devVars,
                      optionsVars, hierarchyVars, registryVars, migrationVars, tableVars,
                      generationVars, vars>>
       /\ SignInNext

RecordsSpec == RecordsInit /\ [][RecordsNext]_recordsVars

(* The type invariant of the one that acts.                                *)
RecordsTypeOK ==
    CASE subject = "config" -> ConfigTypeOK
      [] subject = "presentation" -> PresentationTypeOK
      [] OfSessions -> SessionsTypeOK
      [] subject = "snapshots" -> SnapshotTypeOK
      [] subject = "processes" -> DevTypeOK
      [] subject = "options" -> OptionsTypeOK
      [] subject = "hierarchy" -> HierarchyTypeOK
      [] subject = "registry" -> RegistryTypeOK
      [] subject = "migrations" -> MigrationsTypeOK
      [] subject = "queries" -> QueryTypeOK
      [] subject = "generation" -> GenerationTypeOK
      [] subject = "accounts" -> SignInTypeOK
      [] subject = "build" -> TypeOK

(* What the stores promise: configuration reads what was committed, options *)
(* lose no change, the department tree has no dangling parent, and the      *)
(* revisions of a profile are published once, and as they were seen.        *)
StoresAreSound ==
    /\ subject = "config" => ConfigIsConsistent
    /\ subject = "options" => OptionsAreSound
    /\ subject = "hierarchy" => TreeIsSound
    /\ subject = "presentation" => ProfileIsSound

(* An account is entered and an identity bound to it by those it belongs   *)
(* to, and a bound identity stays where it is.                             *)
AccountIsSound ==
    /\ [](subject = "accounts" => SignInIsSound)
    /\ [][subject = "accounts" => IdentitiesStay]_signInVars

(* A session that is over admits no lookup and does not come back, a       *)
(* change of the password ends all there are, wrong passwords are spaced   *)
(* by locks, and a user keeps a way to log in.                             *)
SessionsHold ==
    /\ [](OfSessions => SessionsAreSound /\ AccountIsGuarded)
    /\ [][OfSessions => SessionsOnlyEnd]_sessionsVars

(* A failed upgrade leaves its mark, a reader sees one snapshot, and the   *)
(* files a developer edited stay but for the two ways EditsSurvive names.  *)
SnapshotIsSound ==
    /\ [](subject = "snapshots" => PartialIsMarked /\ ReadersSeeAPair)
    /\ [][subject = "snapshots" => EditsSurvive]_snapshotVars

(* The tools signal their own processes and keep the record of a running   *)
(* one, and overwrite no file they did not plan for; the business modules  *)
(* and their migrations come up whole and in order, each migration once.   *)
ToolsAreSound ==
    /\ []CASE subject = "processes" -> OnlyOursAreSignalled /\ RunningIsKnown
          [] subject = "registry" -> RegistryIsSound
          [] subject = "migrations" -> LedgerIsTrue
          [] subject = "generation" -> ConflictsWriteNothing /\ SuccessIsComplete
          [] OTHER -> TRUE
    /\ [][subject = "processes" => RunningStaysRecorded]_devVars
    /\ [][subject = "registry" => FrozenStays]_registryVars
    /\ [][subject = "migrations" => AppliedInOrder /\ NothingUnlessSound]_migrationVars
    /\ [][subject = "generation" => OnlyPlannedIsReplaced]_generationVars
=============================================================================
