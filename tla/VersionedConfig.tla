--------------------------- MODULE VersionedConfig ---------------------------
(***************************************************************************)
(* The configuration of the application, or of one user, as its readers    *)
(* and writers share it (admin/service/app_config.go, user_config.go,      *)
(* theme.go, config_revision.go; admin/models/app_config.go).  The         *)
(* database holds settings and theme overrides, a revision of the profile  *)
(* that every commit advances and one of the theme.  Readers compare       *)
(* revisions before and after they read and keep results in Redis under    *)
(* the revision; single application settings are also cached without one,  *)
(* for a limited time, and removed by each commit.                         *)
(*                                                                         *)
(* A setting and a theme are named by the profile revision of the commit   *)
(* that wrote them.  A statement, a cache command and a commit is a step;  *)
(* a transaction locks its revision rows before it looks at anything.      *)
(***************************************************************************)
EXTENDS Naturals

CONSTANTS Readers, Editors,
          Scopes,          \* "application" and "user", as far as checked
          MaxReads,        \* attempts of a reader
          MaxCacheFaults,  \* bound: cache commands that fail after a commit
          NoEditor

ASSUME ConfigAssumption ==
    /\ Scopes \subseteq {"application", "user"}
    /\ MaxReads \in Nat \ {0} /\ MaxCacheFaults \in Nat /\ NoEditor \notin Editors

VARIABLES scope,           \* whose configuration it is
          stored,          \* the committed configuration
          past,            \* history: the configuration at each profile revision
          rowOwner,        \* the transactions that hold the profile's and theme's revision row
          revised,         \* the results cached under a revision, as <<kind, revision, result>>
          entry,           \* a setting cached without revision; 0 if there is none
          overtaken,       \* history: a commit since the last one could not clear the entry,
                           \*   or a fill that read before it stored after it
          reading, editing,
          cacheFaults

configVars == <<scope, stored, past, rowOwner, revised, entry, overtaken, reading, editing,
                cacheFaults>>

Config == [settings : Nat, theme : Nat, profile : Nat, themeRev : Nat]
NoResult == [settings |-> 0, theme |-> 0, themeRev |-> 0]
FreshRead == [kind |-> "none", stage |-> "idle", profile |-> 0, themeRev |-> 0,
              result |-> NoResult, hit |-> FALSE, tries |-> 0, from |-> 0, upto |-> 0]
FreshEdit == [does |-> "none", stage |-> "idle", expected |-> 0, stale |-> 0]
Over == [FreshRead EXCEPT !.stage = "done"]
(* What readers ask for and editors do, by scope.                          *)
Asked == IF scope = "application" THEN {"profile", "theme", "entry"} ELSE {"profile", "theme", "group"}
Edits == IF scope = "application" THEN {"save", "set", "patch", "setTheme"} ELSE {"save", "patch"}

ConfigTypeOK ==
    /\ scope \in Scopes /\ stored \in Config
    /\ past \in [1..stored.profile -> Config]
    /\ rowOwner \in [profile : Editors \cup {NoEditor}, theme : Editors \cup {NoEditor}]
    /\ entry \in 0..stored.profile /\ overtaken \in BOOLEAN
    /\ reading \in [Readers -> [kind : {"none", "profile", "theme", "group", "entry"},
                                stage : {"idle", "theme", "cache", "load", "revision", "after",
                                         "afterTheme", "store", "done"},
                                profile : Nat, themeRev : Nat,
                                result : [settings : Nat, theme : Nat, themeRev : Nat],
                                hit : BOOLEAN, tries : 0..MaxReads, from : Nat, upto : Nat]]
    /\ editing \in [Editors -> [does : {"none", "save", "set", "patch", "setTheme"},
                                stage : {"idle", "theme", "commit", "entry", "cleanup", "done"},
                                expected : Nat, stale : Nat]]
    /\ cacheFaults \in 0..MaxCacheFaults

First == [settings |-> 1, theme |-> 1, profile |-> 1, themeRev |-> 1]
ConfigInit ==
    /\ scope \in Scopes /\ stored = First /\ past = [p \in {1} |-> First]
    /\ rowOwner = [profile |-> NoEditor, theme |-> NoEditor]
    /\ revised = {} /\ entry = 0 /\ overtaken = FALSE
    /\ reading = [r \in Readers |-> FreshRead]
    /\ editing = [e \in Editors |-> FreshEdit]
    /\ cacheFaults = 0

-----------------------------------------------------------------------------
(* Readers.  The public profile depends on two revisions, read one after   *)
(* the other; everything else on the one its kind names.                   *)

readerRest == <<scope, stored, past, rowOwner, entry, overtaken, editing, cacheFaults>>
Step(r, to) == reading' = [reading EXCEPT ![r] = to]
Kind(r) == reading[r].kind
Twofold(k) == scope = "application" /\ k = "profile"
Revision(k, c) == IF k = "theme" THEN c.themeRev ELSE c.profile
Cached(k) == ~(scope = "application" /\ k = "theme")

(* The part of a configuration that a result of the reader's kind shows.   *)
Shown(k, c) == CASE k = "profile" -> [settings |-> c.settings, theme |-> c.theme,
                                            themeRev |-> c.themeRev]
                 [] k = "theme" -> [NoResult EXCEPT !.theme = c.theme,
                                                          !.themeRev = c.themeRev]
                 [] OTHER -> [NoResult EXCEPT !.settings = c.settings]

ReadsRevision(r) ==
    /\ reading[r].stage = "idle"
    /\ \E k \in IF Kind(r) = "none" THEN Asked \ {"entry"} ELSE {Kind(r)} :
          Step(r, [reading[r] EXCEPT
                     !.kind = k,
                     !.stage = IF Twofold(k) THEN "theme" ELSE IF Cached(k) THEN "cache" ELSE "load",
                     !.profile = Revision(k, stored),
                     !.from = IF @ = 0 THEN stored.profile ELSE @])
    /\ UNCHANGED <<readerRest, revised>>
ReadsThemeRevision(r) ==
    /\ reading[r].stage = "theme"
    /\ Step(r, [reading[r] EXCEPT !.stage = "cache", !.themeRev = stored.themeRev])
    /\ UNCHANGED <<readerRest, revised>>

(* A hit; or a miss, a failed command, an envelope that does not fit.      *)
Fits(x, result) == Twofold(x.kind) => result.themeRev = x.themeRev
LooksUp(r) ==
    LET x == reading[r] IN
    /\ x.stage = "cache"
    /\ \/ \E result \in {c[3] : c \in {d \in revised : d[1] = Kind(r) /\ d[2] = x.profile}} :
             /\ Fits(x, result)
             /\ Step(r, [x EXCEPT !.stage = "after", !.result = result, !.hit = TRUE])
       \/ Step(r, [x EXCEPT !.stage = "load"])
    /\ UNCHANGED <<readerRest, revised>>

(* The rows, in one statement; the theme of the public profile is labelled *)
(* with the revision read before, that of a user profile with one read now.*)
Loads(r) ==
    LET x == reading[r] IN
    /\ x.stage = "load"
    /\ Step(r, [x EXCEPT
         !.stage = IF scope = "user" /\ Kind(r) = "profile" THEN "revision" ELSE "after",
         !.result = [Shown(Kind(r), stored) EXCEPT
                       !.themeRev = CASE Twofold(Kind(r)) -> x.themeRev
                                      [] Kind(r) = "theme" -> x.profile
                                      [] OTHER -> 0]])
    /\ UNCHANGED <<readerRest, revised>>
LabelsTheme(r) ==
    /\ reading[r].stage = "revision"
    /\ Step(r, [reading[r] EXCEPT !.stage = "after", !.result.themeRev = stored.themeRev])
    /\ UNCHANGED <<readerRest, revised>>

AlwaysSame(before, now) == TRUE
Same(before, now) == before = now
Again(x) == IF x.tries + 1 < MaxReads
            THEN [FreshRead EXCEPT !.kind = x.kind, !.tries = x.tries + 1, !.from = x.from]
            ELSE Over
Concluded(x) == [x EXCEPT !.stage = "store", !.upto = stored.profile]
ReadsAgain(r) ==
    LET x == reading[r] IN
    /\ x.stage = "after"
    /\ Step(r, IF ~Same(x.profile, Revision(Kind(r), stored)) THEN Again(x)
               ELSE IF Twofold(Kind(r)) THEN [x EXCEPT !.stage = "afterTheme"] ELSE Concluded(x))
    /\ UNCHANGED <<readerRest, revised>>
ReadsThemeAgain(r) ==
    LET x == reading[r] IN
    /\ x.stage = "afterTheme"
    /\ Step(r, IF Same(x.themeRev, stored.themeRev) THEN Concluded(x) ELSE Again(x))
    /\ UNCHANGED <<readerRest, revised>>

(* The result goes to the cache, unless it came from there or the command  *)
(* fails, and to the caller.                                               *)
Keeps(r) ==
    LET x == reading[r] IN
    /\ x.stage = "store" /\ Kind(r) # "entry"
    /\ Step(r, Over)
    /\ \/ Cached(Kind(r)) /\ ~x.hit /\ revised' = revised \cup {<<Kind(r), x.profile, x.result>>}
       \/ UNCHANGED revised
    /\ UNCHANGED readerRest

-----------------------------------------------------------------------------
(* GetAppConfig: a single application setting.                             *)

GetAppConfig(r) ==
    LET x == reading[r] IN
    /\ "entry" \in Asked
    /\ \/ Kind(r) = "none" /\ x.stage = "idle" /\ entry # 0 /\ Step(r, Over)      \* a hit
       \/ /\ Kind(r) = "none" /\ x.stage = "idle"
          /\ Step(r, [FreshRead EXCEPT !.kind = "entry", !.stage = "store", !.upto = stored.profile,
                                       !.result = Shown("entry", stored)])
    /\ UNCHANGED <<readerRest, revised>>
Fills(r) ==
    LET x == reading[r] IN
    /\ Kind(r) = "entry" /\ x.stage = "store"
    /\ Step(r, Over)
    /\ \/ entry' = x.result.settings /\ overtaken' = (x.upto < stored.profile)
       \/ UNCHANGED <<entry, overtaken>>
    /\ UNCHANGED <<scope, stored, past, rowOwner, revised, editing, cacheFaults>>

(* Values in Redis go when their time is over.                             *)
Expires ==
    /\ entry # 0 /\ entry' = 0 /\ overtaken' = FALSE
    /\ UNCHANGED <<scope, stored, past, rowOwner, revised, reading, editing, cacheFaults>>

-----------------------------------------------------------------------------
(* Writers.  A reset of the theme is a patch of all of it.                 *)

editorRest == <<scope, reading>>
Does(e) == editing[e].does
OnTheme(e) == Does(e) \in {"patch", "setTheme"}
Editor(e, to) == editing' = [editing EXCEPT ![e] = to]
Finished == [FreshEdit EXCEPT !.stage = "done"]

(* The profile's revision row is locked first, then the theme's; a patch   *)
(* of a theme that has moved on ends in a conflict.                        *)
LocksProfile(e) ==
    /\ editing[e].stage = "idle" /\ rowOwner.profile = NoEditor
    /\ rowOwner' = [rowOwner EXCEPT !.profile = e]
    /\ \E kind \in Edits, seen \in 1..stored.themeRev :
          /\ kind # "patch" => seen = 1
          /\ Editor(e, [does |-> kind, stage |-> IF kind \in {"patch", "setTheme"} THEN "theme" ELSE "commit",
                        expected |-> seen, stale |-> stored.profile])
    /\ UNCHANGED <<editorRest, stored, past, revised, entry, overtaken, cacheFaults>>

AppliesAnyway(e) == TRUE
Applies(e) == Does(e) = "patch" => editing[e].expected = stored.themeRev
LocksTheme(e) ==
    /\ editing[e].stage = "theme" /\ rowOwner.theme = NoEditor
    /\ IF Applies(e)
       THEN /\ rowOwner' = [rowOwner EXCEPT !.theme = e]
            /\ Editor(e, [editing[e] EXCEPT !.stage = "commit"])
       ELSE /\ rowOwner' = [rowOwner EXCEPT !.profile = NoEditor]
            /\ Editor(e, Finished)
    /\ UNCHANGED <<editorRest, stored, past, revised, entry, overtaken, cacheFaults>>

Unlocked(e) == [r \in DOMAIN rowOwner |-> IF rowOwner[r] = e THEN NoEditor ELSE rowOwner[r]]
AfterCommit(e) == CASE Does(e) \in {"save", "set"} /\ scope = "application" -> "entry"
                    [] Does(e) = "setTheme" -> "done"
                    [] OTHER -> "cleanup"
(* The values, and advanceConfigRevision for every locked revision.        *)
ProfileNotAdvanced(e) == stored.profile + (IF OnTheme(e) THEN 0 ELSE 1)
ProfileAdvanced(e) == stored.profile + 1
Edited(e) == IF OnTheme(e)
             THEN [stored EXCEPT !.theme = stored.profile + 1, !.themeRev = @ + 1,
                                 !.profile = ProfileAdvanced(e)]
             ELSE [stored EXCEPT !.settings = stored.profile + 1, !.profile = ProfileAdvanced(e)]
Commits(e) ==
    /\ editing[e].stage = "commit"
    /\ stored' = Edited(e)
    /\ past' = [p \in 1..Edited(e).profile |-> IF p = Edited(e).profile THEN Edited(e) ELSE past[p]]
    /\ rowOwner' = Unlocked(e)
    /\ Editor(e, [editing[e] EXCEPT !.stage = AfterCommit(e)])
    /\ UNCHANGED <<editorRest, revised, entry, overtaken, cacheFaults>>
(* A statement or the commit fails, and everything is rolled back.         *)
RollsBack(e) ==
    /\ editing[e].stage = "commit"
    /\ rowOwner' = Unlocked(e)
    /\ Editor(e, Finished)
    /\ UNCHANGED <<editorRest, stored, past, revised, entry, overtaken, cacheFaults>>

(* invalidateAppConfigEntryCaches, or the invalidation of SetAppConfig,    *)
(* which cleans up nothing else.                                           *)
ClearedKept == entry
Cleared == 0
ClearsEntry(e) ==
    /\ editing[e].stage = "entry"
    /\ Editor(e, IF Does(e) = "set" THEN Finished ELSE [editing[e] EXCEPT !.stage = "cleanup"])
    /\ \/ /\ entry' = Cleared /\ overtaken' = FALSE
          /\ UNCHANGED cacheFaults
       \/ /\ cacheFaults < MaxCacheFaults /\ cacheFaults' = cacheFaults + 1
          /\ overtaken' = TRUE
          /\ UNCHANGED entry
    /\ UNCHANGED <<editorRest, stored, past, rowOwner, revised>>

(* The results of the revisions the commit replaced go, as far as the      *)
(* commands work; a patched user theme is cached under its new revision.   *)
Replaced(e) ==
    LET x == editing[e] IN
    {c \in revised : \/ c[1] \in {"profile", "group"} /\ c[2] = x.stale
                     \/ c[1] = "theme" /\ OnTheme(e) /\ c[2] = x.expected}
PatchedTheme(e) ==
    LET after == past[editing[e].stale + 1] IN
    <<"theme", after.themeRev, [NoResult EXCEPT !.theme = after.theme, !.themeRev = after.themeRev]>>
CleansUp(e) ==
    /\ editing[e].stage = "cleanup"
    /\ Editor(e, Finished)
    /\ \/ revised' = revised \ Replaced(e)
       \/ scope = "user" /\ OnTheme(e) /\ revised' = (revised \ Replaced(e)) \cup {PatchedTheme(e)}
       \/ /\ cacheFaults < MaxCacheFaults
          /\ \E c \in Replaced(e) : revised' = revised \ {c}
    /\ UNCHANGED <<editorRest, stored, past, rowOwner, entry, overtaken, cacheFaults>>

-----------------------------------------------------------------------------
ConfigReads(r) == \/ ReadsRevision(r) \/ ReadsThemeRevision(r) \/ LooksUp(r) \/ Loads(r)
                  \/ LabelsTheme(r) \/ ReadsAgain(r) \/ ReadsThemeAgain(r) \/ Keeps(r)
ConfigEdits(e) == LocksProfile(e) \/ LocksTheme(e) \/ Commits(e) \/ ClearsEntry(e) \/ CleansUp(e)
ConfigNext ==
    \/ \E r \in Readers : ConfigReads(r) \/ GetAppConfig(r) \/ Fills(r)
    \/ \E e \in Editors : ConfigEdits(e) \/ RollsBack(e)
    \/ Expires
ConfigSpec == ConfigInit /\ [][ConfigNext]_configVars

-----------------------------------------------------------------------------
(* A reader returns the configuration of one moment between its call and   *)
(* its return, settings, theme and the theme's revision together, though   *)
(* it reads them apart, or from a cache filled by somebody else.           *)
ReadsAreCommitted ==
    \A r \in Readers :
        reading[r].stage = "store" /\ Kind(r) # "entry" =>
            \E p \in reading[r].from..reading[r].upto : reading[r].result = Shown(Kind(r), past[p])

(* What is cached under a revision is the configuration of that revision,  *)
(* also when a commit overtakes the reader that stores it.                 *)
CachesAreExact ==
    \A c \in revised :
        \E p \in DOMAIN past :
            /\ c[2] = IF c[1] = "theme" THEN past[p].themeRev ELSE past[p].profile
            /\ c[3] = CASE c[1] = "profile" -> [settings |-> past[p].settings,
                               theme |-> past[p].theme, themeRev |-> past[p].themeRev]
                        [] c[1] = "theme" -> [NoResult EXCEPT !.theme = past[p].theme,
                                                              !.themeRev = past[p].themeRev]
                        [] OTHER -> [NoResult EXCEPT !.settings = past[p].settings]

(* A setting cached without revision is the committed one, unless its      *)
(* removal is still to come, has failed, or was overtaken by a fill.       *)
EntryIsCurrent ==
    entry # 0 /\ ~overtaken /\ (\A e \in Editors : editing[e].stage # "entry")
        => entry = stored.settings

(* A patch replaces the theme its client saw and no later one.             *)
PatchesWhatWasSeen ==
    \A e \in Editors : Does(e) = "patch" /\ editing[e].stage = "commit" =>
        editing[e].expected = stored.themeRev

ConfigIsConsistent == /\ ReadsAreCommitted /\ CachesAreExact
                      /\ EntryIsCurrent /\ PatchesWhatWasSeen
=============================================================================
