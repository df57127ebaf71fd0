--------------------------- MODULE StoresProofs -----------------------------
(***************************************************************************)
(* What the stores of the admin keep - the versioned configuration, the    *)
(* presentation profile, the tree of departments, the option dictionaries, *)
(* the query cache and the sessions of a user - and what Build of the      *)
(* runtime orders, for any callers, rows, revisions and declarations.      *)
(***************************************************************************)
EXTENDS VersionedConfig, PresentationProfile, Hierarchy, Options, QueryCache, ResourceOrder,
        Sessions, FiniteSetTheorems, SequenceTheorems, WellFoundedInduction, TLAPS

(* A sequence with one more at its end.                                    *)
LEMMA Appended ==
  ASSUME NEW S, NEW s \in Seq(S), NEW x \in S
  PROVE  /\ Append(s, x) \in Seq(S) /\ Len(Append(s, x)) = Len(s) + 1 /\ Len(s) \in Nat
         /\ Append(s, x)[Len(s) + 1] = x /\ \A n \in 1..Len(s) : Append(s, x)[n] = s[n]
  OBVIOUS

-----------------------------------------------------------------------------
(* The versioned configuration.                                            *)

Results == [settings : Nat, theme : Nat, themeRev : Nat]
ReadStages == {"idle", "theme", "cache", "load", "revision", "after", "afterTheme", "store", "done"}
ReadState == [kind : {"none", "profile", "theme", "group", "entry"}, stage : ReadStages,
              profile : Nat, themeRev : Nat, result : Results, hit : BOOLEAN,
              tries : 0..MaxReads, from : Nat, upto : Nat]
EditState == [does : {"none", "save", "set", "patch", "setTheme"},
              stage : {"idle", "theme", "commit", "entry", "cleanup", "done"},
              expected : Nat, stale : Nat]
Owners == [profile : Editors \cup {NoEditor}, theme : Editors \cup {NoEditor}]
VersionedTyped ==
  /\ scope \in Scopes /\ stored \in Config /\ stored.profile # 0
  /\ past \in [1..stored.profile -> Config] /\ rowOwner \in Owners
  /\ entry \in 0..stored.profile /\ overtaken \in BOOLEAN
  /\ reading \in [Readers -> ReadState] /\ editing \in [Editors -> EditState]
  /\ cacheFaults \in 0..MaxCacheFaults

(* The history ends with what is stored, at each revision a configuration  *)
(* that was written by then; and a revision of the theme names one theme.  *)
HistoryInv ==
  /\ past[stored.profile] = stored
  /\ \A p \in 1..stored.profile : past[p].profile = p /\ past[p].settings <= p
  /\ \A p, q \in 1..stored.profile :
        /\ p <= q => past[p].themeRev <= past[q].themeRev
        /\ past[p].themeRev = past[q].themeRev => past[p].theme = past[q].theme

(* What a reader holds, at each of its statements: if the revision it began*)
(* with is still the stored one when it looks again, its result is of that *)
(* revision; afterwards it is, whatever is committed.                      *)
Began(x) ==
  /\ x.kind \in {"profile", "theme", "group"} /\ x.from \in 1..stored.profile
  /\ Revision(x.kind, past[x.from]) <= x.profile /\ x.profile <= Revision(x.kind, stored)
StartInv(x) ==
  /\ x.kind = "entry" => scope = "application" /\ x.stage # "idle"
  /\ x.from \in 0..stored.profile
  /\ x.stage \in {"theme", "cache", "load", "revision", "after", "afterTheme"} => Began(x)
  /\ x.stage \in {"theme", "afterTheme"} => Twofold(x.kind)
LabelInv(x) ==
  /\ x.stage \in {"cache", "load"} /\ Twofold(x.kind) /\ stored.profile = x.profile =>
       x.themeRev = stored.themeRev
  /\ x.stage = "revision" =>
       /\ x.kind = "profile" /\ scope = "user"
       /\ stored.profile = x.profile =>
            x.result.settings = stored.settings /\ x.result.theme = stored.theme
HeldInv(x) ==
  /\ x.stage = "after" /\ Revision(x.kind, stored) = x.profile =>
       x.result = Shown(x.kind, stored)
  /\ x.stage = "afterTheme" => x.result = Shown(x.kind, past[x.profile])
KeptInv(x) ==
  x.stage = "store" =>
    /\ x.upto \in 1..stored.profile
    /\ x.kind = "entry" => x.result.settings = past[x.upto].settings
    /\ x.kind # "entry" =>
         /\ x.from # 0
         /\ \E p \in x.from..x.upto : /\ Revision(x.kind, past[p]) = x.profile
                                      /\ x.result = Shown(x.kind, past[p])
ReadInv(x) == StartInv(x) /\ LabelInv(x) /\ HeldInv(x) /\ KeptInv(x)

(* An editor past its first lock keeps all others from committing.         *)
EditInv(e) ==
  /\ editing[e].stage \in {"theme", "commit"} =>
       rowOwner.profile = e /\ editing[e].stale = stored.profile
  /\ editing[e].stage = "cleanup" => editing[e].stale + 1 \in 1..stored.profile
  /\ editing[e].stage = "entry" =>
       editing[e].stale + 1 \in 1..stored.profile /\ editing[e].does \in {"save", "set"}
  /\ editing[e].stage = "theme" => editing[e].does \in {"patch", "setTheme"}
  /\ editing[e].stage = "commit" => editing[e].does # "none"
  /\ editing[e].does = "set" => scope = "application"

VersionedInv ==
  /\ VersionedTyped /\ HistoryInv /\ CachesAreExact /\ EntryIsCurrent /\ PatchesWhatWasSeen
  /\ scope = "user" => entry = 0
  /\ \A r \in Readers : ReadInv(reading[r])
  /\ \A e \in Editors : EditInv(e)

LEMMA ShownIsResult == ASSUME NEW k, NEW c \in Config PROVE Shown(k, c) \in Results
BY DEF Shown, Config, NoResult, Results

LEMMA VersionedInitially == ConfigInit => VersionedInv
<1> SUFFICES ASSUME ConfigInit PROVE VersionedInv
  OBVIOUS
<1>1. First \in Config /\ First.profile = 1 /\ First.settings = 1
  BY DEF First, Config
<1>2. MaxReads \in Nat /\ MaxCacheFaults \in Nat BY ConfigAssumption
<1>3. FreshRead \in ReadState /\ FreshRead.stage = "idle" /\ FreshRead.kind = "none"
      /\ FreshRead.from = 0
  BY <1>2 DEF FreshRead, ReadState, ReadStages, Results, NoResult
<1>4. FreshEdit \in EditState /\ FreshEdit.stage = "idle" /\ FreshEdit.does = "none"
  BY DEF FreshEdit, EditState
<1>5. 1..stored.profile = {1} /\ past[1] = First BY <1>1 DEF ConfigInit
<1>6. past \in [1..stored.profile -> Config] BY <1>1, <1>5 DEF ConfigInit
<1>7. rowOwner \in Owners BY DEF ConfigInit, Owners
<1>8. VersionedTyped
  <2>1. reading \in [Readers -> ReadState] BY <1>3 DEF ConfigInit
  <2>2. editing \in [Editors -> EditState] BY <1>4 DEF ConfigInit
  <2>3. stored = First /\ entry = 0 /\ scope \in Scopes /\ cacheFaults = 0 /\ overtaken = FALSE
    BY DEF ConfigInit
  <2>4. entry \in 0..stored.profile /\ cacheFaults \in 0..MaxCacheFaults BY <1>1, <1>2, <2>3
  <2>5. stored \in Config /\ stored.profile # 0 BY <1>1, <2>3
  <2>6. overtaken \in BOOLEAN BY <2>3
  <2> QED BY <1>6, <1>7, <2>1, <2>2, <2>3, <2>4, <2>5, <2>6 DEF VersionedTyped
<1>9. HistoryInv
  <2>1. stored = First BY DEF ConfigInit
  <2> QED BY <1>1, <1>5, <2>1 DEF HistoryInv, Config
<1>10. CachesAreExact /\ EntryIsCurrent /\ entry = 0
  BY DEF ConfigInit, CachesAreExact, EntryIsCurrent
<1>11. \A e \in Editors : editing[e] = FreshEdit BY DEF ConfigInit
<1>12. PatchesWhatWasSeen BY <1>4, <1>11 DEF PatchesWhatWasSeen, Does
<1>13. \A e \in Editors : EditInv(e) BY <1>4, <1>11 DEF EditInv
<1>14. stored.profile = 1 BY <1>1 DEF ConfigInit
<1>15. \A r \in Readers : ReadInv(reading[r])
  <2>1. \A r \in Readers : reading[r] = FreshRead BY DEF ConfigInit
  <2>2. StartInv(FreshRead) BY <1>3, <1>14 DEF StartInv
  <2>3. LabelInv(FreshRead) /\ HeldInv(FreshRead) /\ KeptInv(FreshRead)
    BY <1>3 DEF LabelInv, HeldInv, KeptInv
  <2> QED BY <2>1, <2>2, <2>3 DEF ReadInv
<1> QED BY <1>8, <1>9, <1>10, <1>12, <1>13, <1>15 DEF VersionedInv

-----------------------------------------------------------------------------
(* An entry of the cache is of the configuration c.                        *)
Exact(entered, c) ==
  /\ entered[2] = IF entered[1] = "theme" THEN c.themeRev ELSE c.profile
  /\ entered[3] = CASE entered[1] = "profile" -> [settings |-> c.settings, theme |-> c.theme,
                                                  themeRev |-> c.themeRev]
                    [] entered[1] = "theme" -> [NoResult EXCEPT !.theme = c.theme,
                                                                !.themeRev = c.themeRev]
                    [] OTHER -> [NoResult EXCEPT !.settings = c.settings]
LEMMA ExactMeans ==
  /\ CachesAreExact <=> \A c \in revised : \E p \in DOMAIN past : Exact(c, past[p])
  /\ CachesAreExact' <=> \A c \in revised' : \E p \in DOMAIN past' : Exact(c, past'[p])
BY DEF CachesAreExact, Exact

LEMMA CachesKept ==
  ASSUME VersionedInv, UNCHANGED past, revised' \subseteq revised
  PROVE  CachesAreExact'
<1>1. \A c \in revised : \E p \in DOMAIN past : Exact(c, past[p])
  BY ExactMeans DEF VersionedInv
<1> QED BY <1>1, ExactMeans

LEMMA ReadHolds ==
  ASSUME NEW x, ReadInv(x), UNCHANGED <<scope, stored, past>>
  PROVE  ReadInv(x)'
<1>1. StartInv(x)' BY DEF ReadInv, StartInv, Began, Twofold
<1>2. LabelInv(x)' BY DEF ReadInv, LabelInv, Twofold
<1>3. HeldInv(x)' BY DEF ReadInv, HeldInv
<1>4. KeptInv(x)' BY DEF ReadInv, KeptInv
<1> QED BY <1>1, <1>2, <1>3, <1>4 DEF ReadInv

(* A reader moves on, and what it may change in the caches is in order.    *)
LEMMA ReaderPreserves ==
  ASSUME VersionedInv, NEW r \in Readers, NEW to \in ReadState, Step(r, to), ReadInv(to),
         UNCHANGED <<scope, stored, past, rowOwner, editing, cacheFaults>>,
         CachesAreExact', EntryIsCurrent', entry' \in 0..stored.profile, overtaken' \in BOOLEAN,
         scope = "user" => entry' = 0
  PROVE  VersionedInv'
<1>1. UNCHANGED <<scope, stored, past, rowOwner, editing, cacheFaults>> OBVIOUS
<1>2. reading \in [Readers -> ReadState] BY DEF VersionedInv, VersionedTyped
<1>3. /\ reading' \in [Readers -> ReadState] /\ reading'[r] = to
      /\ \A q \in Readers \ {r} : reading'[q] = reading[q]
  BY <1>2 DEF Step
<1>4. VersionedTyped' BY <1>1, <1>3 DEF VersionedInv, VersionedTyped
<1>5. HistoryInv' BY <1>1 DEF VersionedInv, HistoryInv
<1>6. PatchesWhatWasSeen' BY <1>1 DEF VersionedInv, PatchesWhatWasSeen, Does
<1>7. \A e \in Editors : EditInv(e)' BY <1>1 DEF VersionedInv, EditInv
<1>8. ASSUME NEW q \in Readers PROVE ReadInv(reading[q])'
  <2>1. PICK x : x = reading'[q] /\ ReadInv(x) BY <1>3 DEF VersionedInv
  <2>2. ReadInv(x)' BY <1>1, <2>1, ReadHolds
  <2> QED BY <2>1, <2>2
<1> QED BY <1>1, <1>4, <1>5, <1>6, <1>7, <1>8 DEF VersionedInv

LEMMA ReadPreserves ==
  ASSUME VersionedInv, NEW r \in Readers, NEW to \in ReadState, Step(r, to), ReadInv(to),
         UNCHANGED <<readerRest, revised>>
  PROVE  VersionedInv'
<1>1. UNCHANGED <<scope, stored, past, rowOwner, entry, overtaken, editing, cacheFaults, revised>>
  BY DEF readerRest
<1>2. CachesAreExact' BY <1>1, CachesKept
<1>3. EntryIsCurrent' BY <1>1 DEF VersionedInv, EntryIsCurrent
<1>4. /\ entry' \in 0..stored.profile /\ overtaken' \in BOOLEAN /\ (scope = "user" => entry' = 0)
  BY <1>1 DEF VersionedInv, VersionedTyped
<1> QED BY <1>1, <1>2, <1>3, <1>4, ReaderPreserves

LEMMA Reader ==
  ASSUME VersionedInv, NEW r \in Readers
  PROVE  /\ reading[r] \in ReadState /\ reading[r].result \in Results
         /\ StartInv(reading[r]) /\ LabelInv(reading[r])
         /\ HeldInv(reading[r]) /\ KeptInv(reading[r])
         /\ stored \in Config /\ stored.profile \in Nat /\ stored.profile # 0
         /\ stored.themeRev \in Nat /\ past[stored.profile] = stored
         /\ \A p \in 1..stored.profile : past[p] \in Config /\ past[p].profile = p
         /\ MaxReads \in Nat \ {0}
BY ConfigAssumption DEF VersionedInv, VersionedTyped, HistoryInv, ReadInv, ReadState, Config

(* The revision comes first, then that of the theme.                       *)
LEMMA ReadsRevisionPreserves ==
  ASSUME VersionedInv, NEW r \in Readers, ReadsRevision(r)
  PROVE  VersionedInv'
<1> DEFINE x == reading[r]
<1>1. PICK k \in IF Kind(r) = "none" THEN Asked \ {"entry"} ELSE {Kind(r)} :
         Step(r, [x EXCEPT
                     !.kind = k,
                     !.stage = IF Twofold(k) THEN "theme" ELSE IF Cached(k) THEN "cache" ELSE "load",
                     !.profile = Revision(k, stored),
                     !.from = IF @ = 0 THEN stored.profile ELSE @])
  BY DEF ReadsRevision
<1>2. x \in ReadState /\ StartInv(x) /\ x.stage = "idle" /\ UNCHANGED <<readerRest, revised>>
  BY Reader DEF ReadsRevision
<1>3. k \in {"profile", "theme", "group"} BY <1>1, <1>2 DEF StartInv, ReadState, Kind, Asked
<1> DEFINE s == IF Twofold(k) THEN "theme" ELSE IF Cached(k) THEN "cache" ELSE "load"
           n == Revision(k, stored)
           f == IF x.from = 0 THEN stored.profile ELSE x.from
           to == [x EXCEPT !.kind = k, !.stage = s, !.profile = n, !.from = f]
<1>4. n \in Nat /\ s \in {"theme", "cache", "load"} BY Reader DEF Revision, Config
<1>5. f \in 1..stored.profile /\ f \in Nat BY <1>2, Reader DEF StartInv
<1>6. Revision(k, past[f]) <= n
  <2>1. past[f].themeRev <= past[stored.profile].themeRev
    BY <1>5, Reader DEF VersionedInv, HistoryInv
  <2> QED BY <1>5, <2>1, Reader DEF Revision
<1>7. s = "theme" => Twofold(k) BY DEF Cached
<1>8. s # "theme" => ~Twofold(k) OBVIOUS
<1>9. Step(r, to) BY <1>1
<1> HIDE DEF n, s, f
<1>10. to \in ReadState BY <1>2, <1>3, <1>4, <1>5 DEF ReadState, ReadStages
<1>11. to.kind = k /\ to.stage = s /\ to.profile = n /\ to.from = f BY <1>2 DEF ReadState
<1> HIDE DEF to
<1>12. StartInv(to)
  <2>1. n <= Revision(k, stored) BY <1>4 DEF n
  <2> QED BY <1>3, <1>4, <1>5, <1>6, <1>7, <1>11, <2>1, Reader DEF StartInv, Began
<1>13. LabelInv(to) /\ HeldInv(to) /\ KeptInv(to)
  BY <1>3, <1>4, <1>8, <1>11 DEF LabelInv, HeldInv, KeptInv
<1> QED BY <1>2, <1>9, <1>10, <1>12, <1>13, ReadPreserves DEF ReadInv

(* If the profile is still the one whose revision was read, so is its      *)
(* theme's revision.                                                       *)
LEMMA ReadsThemePreserves ==
  ASSUME VersionedInv, NEW r \in Readers, ReadsThemeRevision(r)
  PROVE  VersionedInv'
<1> DEFINE x == reading[r]
           to == [x EXCEPT !.stage = "cache", !.themeRev = stored.themeRev]
<1>1. x \in ReadState /\ StartInv(x) /\ x.stage = "theme" /\ UNCHANGED <<readerRest, revised>>
      /\ Step(r, to)
  BY Reader DEF ReadsThemeRevision
<1>2. to \in ReadState BY <1>1, Reader DEF ReadState, ReadStages
<1>3. /\ to.kind = x.kind /\ to.stage = "cache" /\ to.profile = x.profile /\ to.from = x.from
      /\ to.themeRev = stored.themeRev
  BY <1>1 DEF ReadState
<1> HIDE DEF to
<1>4. StartInv(to) BY <1>1, <1>3 DEF StartInv, Began
<1>5. LabelInv(to) /\ HeldInv(to) /\ KeptInv(to) BY <1>3 DEF LabelInv, HeldInv, KeptInv
<1> QED BY <1>1, <1>2, <1>4, <1>5, ReadPreserves DEF ReadInv

(* What is cached under a revision that still is the stored one is what is *)
(* stored.                                                                 *)
LEMMA LooksUpPreserves ==
  ASSUME VersionedInv, NEW r \in Readers, LooksUp(r)
  PROVE  VersionedInv'
<1> DEFINE x == reading[r]
<1>1. /\ x \in ReadState /\ StartInv(x) /\ LabelInv(x) /\ x.stage = "cache" /\ Began(x)
      /\ UNCHANGED <<readerRest, revised>>
  BY Reader DEF LooksUp, StartInv
<1>2. CASE Step(r, [x EXCEPT !.stage = "load"])
  <2> DEFINE to == [x EXCEPT !.stage = "load"]
  <2>1. to \in ReadState BY <1>1 DEF ReadState, ReadStages
  <2>2. /\ to.kind = x.kind /\ to.stage = "load" /\ to.profile = x.profile /\ to.from = x.from
        /\ to.themeRev = x.themeRev
    BY <1>1 DEF ReadState
  <2>3. Step(r, to) BY <1>2
  <2> HIDE DEF to
  <2>4. StartInv(to) BY <1>1, <2>2 DEF StartInv, Began
  <2>5. LabelInv(to) BY <1>1, <2>2 DEF LabelInv
  <2>6. HeldInv(to) /\ KeptInv(to) BY <2>2 DEF HeldInv, KeptInv
  <2> QED BY <1>1, <2>1, <2>3, <2>4, <2>5, <2>6, ReadPreserves DEF ReadInv
<1>3. ASSUME NEW c \in revised, c[1] = x.kind, c[2] = x.profile,
             Step(r, [x EXCEPT !.stage = "after", !.result = c[3], !.hit = TRUE])
      PROVE  VersionedInv'
  <2> DEFINE to == [x EXCEPT !.stage = "after", !.result = c[3], !.hit = TRUE]
  <2>1. PICK p \in 1..stored.profile : Revision(x.kind, past[p]) = x.profile /\ c[3] = Shown(x.kind, past[p])
    <3>1. DOMAIN past = 1..stored.profile BY DEF VersionedInv, VersionedTyped
    <3>2. PICK p \in DOMAIN past : Exact(c, past[p]) BY ExactMeans DEF VersionedInv
    <3> QED BY <1>3, <3>1, <3>2 DEF Revision, Shown, Exact
  <2>2. past[p] \in Config BY Reader
  <2>3. c[3] \in Results BY <2>1, <2>2, ShownIsResult
  <2>4. to \in ReadState BY <1>1, <2>3 DEF ReadState, ReadStages
  <2>5. /\ to.kind = x.kind /\ to.stage = "after" /\ to.profile = x.profile /\ to.from = x.from
        /\ to.result = c[3]
    BY <1>1 DEF ReadState
  <2>6. Step(r, to) BY <1>3
  <2> HIDE DEF to
  <2>7. StartInv(to) BY <1>1, <2>5 DEF StartInv, Began
  <2>8. ASSUME Revision(x.kind, stored) = x.profile PROVE Shown(x.kind, past[p]) = Shown(x.kind, stored)
    <3>1. CASE x.kind = "theme"
      <4>1. past[p].themeRev = past[stored.profile].themeRev
        BY <2>1, <2>8, <3>1, Reader DEF Revision
      <4>2. past[p].theme = past[stored.profile].theme
        BY <4>1, Reader DEF VersionedInv, HistoryInv
      <4> QED BY <3>1, <4>1, <4>2, Reader DEF Shown
    <3>2. CASE x.kind # "theme"
      <4>1. p = stored.profile BY <2>1, <2>8, <3>2, Reader DEF Revision
      <4> QED BY <4>1, Reader
    <3> QED BY <3>1, <3>2
  <2>9. HeldInv(to) BY <2>1, <2>5, <2>8 DEF HeldInv
  <2>10. LabelInv(to) /\ KeptInv(to) BY <2>5 DEF LabelInv, KeptInv
  <2> QED BY <1>1, <2>4, <2>6, <2>7, <2>9, <2>10, ReadPreserves DEF ReadInv
<1> QED BY <1>2, <1>3 DEF LooksUp, Kind


(* Rows read while the revision stays are those of the revision.           *)
LEMMA LoadsPreserves ==
  ASSUME VersionedInv, NEW r \in Readers, Loads(r)
  PROVE  VersionedInv'
<1> DEFINE x == reading[r]
           s == IF scope = "user" /\ x.kind = "profile" THEN "revision" ELSE "after"
           l == CASE Twofold(x.kind) -> x.themeRev [] x.kind = "theme" -> x.profile [] OTHER -> 0
           res == [Shown(x.kind, stored) EXCEPT !.themeRev = l]
           to == [x EXCEPT !.stage = s, !.result = res]
<1>1. /\ x \in ReadState /\ StartInv(x) /\ LabelInv(x) /\ x.stage = "load" /\ Began(x)
      /\ UNCHANGED <<readerRest, revised>> /\ Step(r, to)
  BY Reader DEF Loads, StartInv, Kind
<1>2. l \in Nat BY <1>1 DEF ReadState
<1>3. Shown(x.kind, stored) \in Results BY Reader, ShownIsResult
<1>4. /\ res \in Results /\ res.settings = Shown(x.kind, stored).settings
      /\ res.theme = Shown(x.kind, stored).theme /\ res.themeRev = l
  BY <1>2, <1>3 DEF Results
<1>5. ASSUME s = "after", Revision(x.kind, stored) = x.profile
      PROVE  res = Shown(x.kind, stored)
  <2>1. l = Shown(x.kind, stored).themeRev
    <3>1. CASE x.kind = "theme" BY <1>5, <3>1 DEF Shown, Revision, Twofold, NoResult
    <3>2. CASE x.kind = "group" BY <3>2 DEF Shown, Twofold, NoResult
    <3>3. CASE x.kind = "profile"
      <4>1. Twofold(x.kind)
        BY <1>5, <3>3, ConfigAssumption DEF Twofold, VersionedInv, VersionedTyped
      <4>2. x.themeRev = stored.themeRev BY <1>1, <1>5, <3>3, <4>1 DEF LabelInv, Revision
      <4> QED BY <3>3, <4>1, <4>2 DEF Shown
    <3> QED BY <1>1, <3>1, <3>2, <3>3 DEF Began
  <2> HIDE DEF l
  <2> QED BY <1>3, <2>1 DEF Results
<1>6. ASSUME s = "revision"
      PROVE  /\ x.kind = "profile" /\ scope = "user"
             /\ res.settings = stored.settings /\ res.theme = stored.theme
  BY <1>4, <1>6 DEF Shown
<1>7. s \in {"after", "revision"} OBVIOUS
<1> HIDE DEF res, l, s
<1>8. to \in ReadState BY <1>1, <1>4, <1>7 DEF ReadState, ReadStages
<1>9. /\ to.kind = x.kind /\ to.stage = s /\ to.profile = x.profile /\ to.from = x.from
      /\ to.result = res
  BY <1>1 DEF ReadState
<1> HIDE DEF to
<1>10. StartInv(to) BY <1>1, <1>7, <1>9 DEF StartInv, Began
<1>11. LabelInv(to) BY <1>6, <1>7, <1>9 DEF LabelInv
<1>12. HeldInv(to) BY <1>5, <1>7, <1>9 DEF HeldInv
<1>13. KeptInv(to) BY <1>7, <1>9 DEF KeptInv
<1> QED BY <1>1, <1>8, <1>10, <1>11, <1>12, <1>13, ReadPreserves DEF ReadInv

LEMMA LabelsPreserves ==
  ASSUME VersionedInv, NEW r \in Readers, LabelsTheme(r)
  PROVE  VersionedInv'
<1> DEFINE x == reading[r]
           res == [x.result EXCEPT !.themeRev = stored.themeRev]
           to == [x EXCEPT !.stage = "after", !.result = res]
<1>1. /\ x \in ReadState /\ StartInv(x) /\ LabelInv(x) /\ x.stage = "revision" /\ Began(x)
      /\ UNCHANGED <<readerRest, revised>> /\ x.result \in Results
  BY Reader DEF LabelsTheme, StartInv
<1>2. Step(r, to)
  <2>1. Step(r, [x EXCEPT !.stage = "after", !.result.themeRev = stored.themeRev])
    BY DEF LabelsTheme
  <2>2. [x EXCEPT !.stage = "after", !.result.themeRev = stored.themeRev] = to
    BY <1>1 DEF ReadState
  <2> QED BY <2>1, <2>2
<1>3. /\ res \in Results /\ res.settings = x.result.settings /\ res.theme = x.result.theme
      /\ res.themeRev = stored.themeRev
  BY <1>1, Reader DEF Results
<1>4. ASSUME Revision(x.kind, stored) = x.profile PROVE res = Shown(x.kind, stored)
  <2>1. x.kind = "profile" /\ res.settings = stored.settings /\ res.theme = stored.theme
    BY <1>1, <1>3, <1>4 DEF LabelInv, Revision
  <2>2. Shown(x.kind, stored) = [settings |-> stored.settings, theme |-> stored.theme,
                                 themeRev |-> stored.themeRev]
    BY <2>1 DEF Shown
  <2> HIDE DEF res
  <2> QED BY <1>3, <2>1, <2>2 DEF Results
<1> HIDE DEF res
<1>5. to \in ReadState BY <1>1, <1>3 DEF ReadState, ReadStages
<1>6. /\ to.kind = x.kind /\ to.stage = "after" /\ to.profile = x.profile /\ to.from = x.from
      /\ to.result = res
  BY <1>1 DEF ReadState
<1> HIDE DEF to
<1>7. StartInv(to) BY <1>1, <1>6 DEF StartInv, Began
<1>8. LabelInv(to) /\ KeptInv(to) BY <1>6 DEF LabelInv, KeptInv
<1>9. HeldInv(to) BY <1>4, <1>6 DEF HeldInv
<1> QED BY <1>1, <1>2, <1>5, <1>7, <1>8, <1>9, ReadPreserves DEF ReadInv

(* A reader that ends, or begins again, holds nothing.                     *)
LEMMA Idles ==
  ASSUME VersionedInv, NEW y \in ReadState, y.from \in 0..stored.profile,
         y.stage \in {"idle", "done"}, y.kind # "entry"
  PROVE  ReadInv(y)
BY DEF ReadInv, StartInv, LabelInv, HeldInv, KeptInv

LEMMA OverHolds == ASSUME VersionedInv PROVE Over \in ReadState /\ ReadInv(Over)
<1>1. MaxReads \in Nat \ {0} /\ stored.profile \in Nat
  BY ConfigAssumption DEF VersionedInv, VersionedTyped, Config
<1>2. 0 \in 0..MaxReads /\ 0 \in 0..stored.profile BY <1>1
<1>3. FreshRead \in ReadState
  BY <1>2 DEF FreshRead, ReadState, ReadStages, NoResult, Results
<1>4. Over \in ReadState BY <1>3 DEF Over, ReadState, ReadStages
<1>5. Over.kind = "none" /\ Over.stage = "done" /\ Over.from = 0 BY DEF Over, FreshRead
<1>6. ReadInv(Over) BY <1>2, <1>4, <1>5, Idles
<1> QED BY <1>4, <1>6

LEMMA AgainHolds ==
  ASSUME VersionedInv, NEW r \in Readers,
         reading[r].kind \in {"profile", "theme", "group"}
  PROVE  Again(reading[r]) \in ReadState /\ ReadInv(Again(reading[r]))
<1> DEFINE x == reading[r]
<1>1. x \in ReadState /\ StartInv(x) BY Reader
<1>2. MaxReads \in Nat \ {0} /\ stored.profile \in Nat BY Reader
<1>3. CASE x.tries + 1 < MaxReads
  <2> DEFINE to == [FreshRead EXCEPT !.kind = x.kind, !.tries = x.tries + 1, !.from = x.from]
  <2>1. x.tries + 1 \in 0..MaxReads /\ x.from \in Nat BY <1>1, <1>2, <1>3 DEF ReadState
  <2>2. to \in ReadState BY <1>2, <2>1 DEF ReadState, ReadStages, FreshRead, NoResult, Results
  <2>3. to.kind = x.kind /\ to.stage = "idle" /\ to.from = x.from BY DEF FreshRead
  <2>4. Again(x) = to BY <1>3 DEF Again
  <2> HIDE DEF to
  <2>5. ReadInv(to) BY <1>1, <2>2, <2>3, Idles DEF StartInv
  <2> QED BY <2>2, <2>4, <2>5
<1>4. CASE ~(x.tries + 1 < MaxReads) BY <1>4, OverHolds DEF Again
<1> QED BY <1>3, <1>4

(* A reader is done with a result of a moment since it began.              *)
LEMMA ConcludesPreserves ==
  ASSUME VersionedInv, NEW r \in Readers, Step(r, Concluded(reading[r])), Began(reading[r]),
         UNCHANGED <<readerRest, revised>>,
         NEW p \in reading[r].from..stored.profile,
         Revision(reading[r].kind, past[p]) = reading[r].profile,
         reading[r].result = Shown(reading[r].kind, past[p])
  PROVE  VersionedInv'
<1> DEFINE x == reading[r]
           to == [x EXCEPT !.stage = "store", !.upto = stored.profile]
<1>1. x \in ReadState /\ StartInv(x) BY Reader
<1>2. stored.profile \in Nat /\ stored.profile # 0 BY Reader
<1>3. to \in ReadState BY <1>1, <1>2 DEF ReadState, ReadStages
<1>4. /\ to.kind = x.kind /\ to.stage = "store" /\ to.profile = x.profile /\ to.from = x.from
      /\ to.result = x.result /\ to.upto = stored.profile
  BY <1>1 DEF ReadState
<1>5. Step(r, to) BY DEF Concluded
<1> HIDE DEF to
<1>6. x.kind \in {"profile", "theme", "group"} /\ x.from \in 1..stored.profile BY DEF Began
<1>7. StartInv(to) BY <1>1, <1>4, <1>6 DEF StartInv
<1>8. LabelInv(to) /\ HeldInv(to) BY <1>4 DEF LabelInv, HeldInv
<1>9. KeptInv(to) BY <1>2, <1>4, <1>6 DEF KeptInv
<1> QED BY <1>3, <1>5, <1>7, <1>8, <1>9, ReadPreserves DEF ReadInv

LEMMA ReadsAgainPreserves ==
  ASSUME VersionedInv, NEW r \in Readers, ReadsAgain(r) \/ ReadsThemeAgain(r)
  PROVE  VersionedInv'
<1> DEFINE x == reading[r]
<1>1. /\ x \in ReadState /\ StartInv(x) /\ HeldInv(x) /\ x.stage \in {"after", "afterTheme"}
      /\ Began(x) /\ UNCHANGED <<readerRest, revised>>
  BY Reader DEF ReadsAgain, ReadsThemeAgain, StartInv
<1>2. CASE Step(r, Again(x))
  <2>1. x.kind \in {"profile", "theme", "group"} BY <1>1 DEF Began
  <2> QED BY <1>1, <1>2, <2>1, AgainHolds, ReadPreserves
<1>3. CASE /\ ReadsAgain(r) /\ Same(x.profile, Revision(x.kind, stored)) /\ ~Twofold(x.kind)
           /\ Step(r, Concluded(x))
  <2>1. Revision(x.kind, past[stored.profile]) = x.profile
        /\ x.result = Shown(x.kind, past[stored.profile])
    BY <1>1, <1>3, Reader DEF HeldInv, ReadsAgain, Same
  <2>2. stored.profile \in x.from..stored.profile BY <1>1, Reader DEF Began
  <2> QED BY <1>1, <1>3, <2>1, <2>2, ConcludesPreserves
<1>4. CASE /\ ReadsAgain(r) /\ Same(x.profile, Revision(x.kind, stored)) /\ Twofold(x.kind)
           /\ Step(r, [x EXCEPT !.stage = "afterTheme"])
  <2> DEFINE to == [x EXCEPT !.stage = "afterTheme"]
  <2>1. to \in ReadState BY <1>1 DEF ReadState, ReadStages
  <2>2. /\ to.kind = x.kind /\ to.stage = "afterTheme" /\ to.profile = x.profile
        /\ to.from = x.from /\ to.result = x.result
    BY <1>1 DEF ReadState
  <2>3. Step(r, to) BY <1>4
  <2> HIDE DEF to
  <2>4. x.result = Shown(x.kind, past[x.profile])
    BY <1>1, <1>4, Reader DEF HeldInv, ReadsAgain, Same, Revision, Twofold
  <2>5. StartInv(to) BY <1>1, <1>4, <2>2 DEF StartInv, Began
  <2>6. HeldInv(to) BY <2>2, <2>4 DEF HeldInv
  <2>7. LabelInv(to) /\ KeptInv(to) BY <2>2 DEF LabelInv, KeptInv
  <2> QED BY <1>1, <2>1, <2>3, <2>5, <2>6, <2>7, ReadPreserves DEF ReadInv
<1>5. CASE ReadsThemeAgain(r) /\ Step(r, Concluded(x))
  <2>1. x.stage = "afterTheme" /\ Twofold(x.kind) BY <1>1, <1>5 DEF ReadsThemeAgain, StartInv
  <2>2. x.kind = "profile" BY <2>1 DEF Twofold
  <2>3. x.profile \in x.from..stored.profile
    BY <1>1, <2>2, Reader DEF Began, Revision, ReadState
  <2>4. x.profile \in 1..stored.profile BY <1>1, <2>3, Reader DEF Began
  <2>5. Revision(x.kind, past[x.profile]) = x.profile BY <2>2, <2>4, Reader DEF Revision
  <2>6. x.result = Shown(x.kind, past[x.profile]) BY <1>1, <2>1 DEF HeldInv
  <2> QED BY <1>1, <1>5, <2>3, <2>5, <2>6, ConcludesPreserves
<1> QED BY <1>2, <1>3, <1>4, <1>5 DEF ReadsAgain, ReadsThemeAgain, Kind


(* What goes to the cache is of the revision it goes there under.          *)
LEMMA KeepsPreserves ==
  ASSUME VersionedInv, NEW r \in Readers, Keeps(r)
  PROVE  VersionedInv'
<1> DEFINE x == reading[r]
<1>1. /\ x.stage = "store" /\ x.kind # "entry" /\ Step(r, Over) /\ UNCHANGED readerRest
      /\ KeptInv(x) /\ StartInv(x) /\ stored.profile \in Nat
  BY Reader DEF Keeps, Kind
<1>2. UNCHANGED <<scope, stored, past, rowOwner, entry, overtaken, editing, cacheFaults>>
  BY <1>1 DEF readerRest
<1>3. PICK p \in x.from..x.upto : Revision(x.kind, past[p]) = x.profile /\ x.result = Shown(x.kind, past[p])
  BY <1>1 DEF KeptInv
<1>4. x.upto \in 1..stored.profile /\ x.from # 0 /\ x.from \in 0..stored.profile
  BY <1>1 DEF KeptInv, StartInv
<1>5. p \in 1..stored.profile BY <1>1, <1>3, <1>4
<1>6. DOMAIN past = 1..stored.profile BY DEF VersionedInv, VersionedTyped
<1>7. CachesAreExact'
  <2> SUFFICES ASSUME NEW c \in revised' PROVE \E n \in DOMAIN past : Exact(c, past[n])
    BY <1>2, ExactMeans
  <2>1. CASE c \in revised BY <2>1, ExactMeans DEF VersionedInv
  <2>2. CASE c = <<x.kind, x.profile, x.result>>
    <3>1. c[1] = x.kind /\ c[2] = x.profile /\ c[3] = x.result BY <2>2
    <3>2. Exact(c, past[p]) BY <1>3, <3>1 DEF Revision, Shown, Exact
    <3> QED BY <1>5, <1>6, <3>2
  <2> QED BY <2>1, <2>2 DEF Keeps, Kind
<1>8. EntryIsCurrent' BY <1>2 DEF VersionedInv, EntryIsCurrent
<1>9. /\ entry' \in 0..stored.profile /\ overtaken' \in BOOLEAN /\ (scope = "user" => entry' = 0)
  BY <1>2 DEF VersionedInv, VersionedTyped
<1> QED BY <1>1, <1>2, <1>7, <1>8, <1>9, OverHolds, ReaderPreserves

(* The single setting is the one of the moment it was read.                *)
LEMMA EntryPreserves ==
  ASSUME VersionedInv, NEW r \in Readers, GetAppConfig(r) \/ Fills(r)
  PROVE  VersionedInv'
<1> DEFINE x == reading[r]
<1>1. /\ x \in ReadState /\ StartInv(x) /\ KeptInv(x) /\ x.result \in Results
      /\ stored.profile \in Nat /\ stored.profile # 0
  BY Reader
<1>2. CASE UNCHANGED <<readerRest, revised>> /\ Step(r, Over)
  BY <1>2, OverHolds, ReadPreserves
<1>3. CASE /\ UNCHANGED <<readerRest, revised>> /\ "entry" \in Asked
           /\ Step(r, [FreshRead EXCEPT !.kind = "entry", !.stage = "store",
                            !.upto = stored.profile, !.result = Shown("entry", stored)])
  <2> DEFINE res == Shown("entry", stored)
             to == [FreshRead EXCEPT !.kind = "entry", !.stage = "store", !.upto = stored.profile,
                                     !.result = res]
  <2>1. res \in Results BY Reader, ShownIsResult
  <2>2. res.settings = stored.settings BY DEF Shown, NoResult
  <2> HIDE DEF res
  <2>3. 0 \in 0..MaxReads /\ 0 \in 0..stored.profile BY <1>1, Reader
  <2>4. to \in ReadState BY <1>1, <2>1, <2>3 DEF FreshRead, ReadState, ReadStages
  <2>5. to.kind = "entry" /\ to.stage = "store" /\ to.upto = stored.profile /\ to.from = 0
        /\ to.result = res
    BY DEF FreshRead
  <2>6. Step(r, to) BY <1>3 DEF res
  <2> HIDE DEF to
  <2>7. scope = "application" BY <1>3 DEF Asked
  <2>8. StartInv(to) BY <2>3, <2>5, <2>7 DEF StartInv
  <2>9. LabelInv(to) /\ HeldInv(to) BY <2>5 DEF LabelInv, HeldInv
  <2>10. KeptInv(to) BY <1>1, <2>2, <2>5, Reader DEF KeptInv
  <2> QED BY <1>3, <2>4, <2>6, <2>8, <2>9, <2>10, ReadPreserves DEF ReadInv
<1>4. CASE Fills(r)
  <2>1. /\ x.kind = "entry" /\ x.stage = "store" /\ Step(r, Over)
        /\ UNCHANGED <<scope, stored, past, rowOwner, revised, editing, cacheFaults>>
        /\ \/ entry' = x.result.settings /\ overtaken' = (x.upto < stored.profile)
           \/ UNCHANGED <<entry, overtaken>>
    BY <1>4 DEF Fills, Kind
  <2>2. /\ x.upto \in 1..stored.profile /\ x.result.settings = past[x.upto].settings
        /\ scope = "application"
    BY <1>1, <2>1 DEF KeptInv, StartInv
  <2>3. past[x.upto].settings <= x.upto BY <2>2 DEF VersionedInv, HistoryInv
  <2>4. CachesAreExact' BY <2>1, CachesKept
  <2>5. x.result.settings \in Nat BY <1>1 DEF Results
  <2>6. EntryIsCurrent'
    <3>1. CASE UNCHANGED <<entry, overtaken>>
      BY <2>1, <3>1 DEF VersionedInv, EntryIsCurrent
    <3>2. CASE entry' = x.result.settings /\ overtaken' = (x.upto < stored.profile)
      <4>1. ASSUME ~overtaken' PROVE x.upto = stored.profile
        <5>1. ~(x.upto < stored.profile) BY <3>2, <4>1
        <5> QED BY <1>1, <2>2, <5>1
      <4> QED BY <2>1, <2>2, <3>2, <4>1, Reader DEF EntryIsCurrent
    <3> QED BY <2>1, <3>1, <3>2
  <2>7. entry' \in 0..stored.profile /\ overtaken' \in BOOLEAN
    <3>1. entry \in 0..stored.profile /\ overtaken \in BOOLEAN BY DEF VersionedInv, VersionedTyped
    <3>2. x.result.settings \in 0..stored.profile BY <1>1, <2>2, <2>3, <2>5
    <3>3. entry' \in 0..stored.profile BY <2>1, <3>1, <3>2
    <3>4. overtaken' \in BOOLEAN
      <4> DEFINE late == x.upto < stored.profile
      <4>1. late \in BOOLEAN OBVIOUS
      <4>2. overtaken' = late \/ overtaken' = overtaken BY <2>1
      <4> HIDE DEF late
      <4> QED BY <3>1, <4>1, <4>2
    <3> QED BY <3>3, <3>4
  <2>8. scope = "user" => entry' = 0 BY <2>2
  <2> QED BY <2>1, <2>4, <2>6, <2>7, <2>8, OverHolds, ReaderPreserves
<1> QED BY <1>2, <1>3, <1>4 DEF GetAppConfig

LEMMA ExpiresPreserves == ASSUME VersionedInv, Expires PROVE VersionedInv'
<1>1. /\ UNCHANGED <<scope, stored, past, rowOwner, revised, reading, editing, cacheFaults>>
      /\ entry' = 0 /\ overtaken' = FALSE
  BY DEF Expires
<1>2. stored.profile \in Nat BY DEF VersionedInv, VersionedTyped, Config
<1>3. VersionedTyped'
  <2>1. entry' \in 0..stored.profile BY <1>1, <1>2
  <2>2. overtaken' \in BOOLEAN BY <1>1
  <2> QED BY <1>1, <2>1, <2>2 DEF VersionedInv, VersionedTyped
<1>4. HistoryInv' /\ CachesAreExact' BY <1>1, CachesKept DEF VersionedInv, HistoryInv
<1>5. EntryIsCurrent' BY <1>1 DEF EntryIsCurrent
<1>6. PatchesWhatWasSeen' BY <1>1 DEF VersionedInv, PatchesWhatWasSeen, Does
<1>7. \A e \in Editors : EditInv(e)' BY <1>1 DEF VersionedInv, EditInv
<1>8. ASSUME NEW q \in Readers PROVE ReadInv(reading[q])'
  <2>1. PICK x : x = reading'[q] /\ ReadInv(x) BY <1>1 DEF VersionedInv
  <2>2. ReadInv(x)' BY <1>1, <2>1, ReadHolds
  <2> QED BY <2>1, <2>2
<1> QED BY <1>1, <1>3, <1>4, <1>5, <1>6, <1>7, <1>8 DEF VersionedInv

-----------------------------------------------------------------------------
(* An editor moves on without a commit.                                    *)
LEMMA EditPreserves ==
  ASSUME VersionedInv, NEW e \in Editors, NEW to \in EditState, Editor(e, to),
         UNCHANGED <<scope, reading, stored, past>>,
         rowOwner' \in Owners, cacheFaults' \in 0..MaxCacheFaults,
         entry' \in 0..stored.profile, overtaken' \in BOOLEAN, scope = "user" => entry' = 0,
         CachesAreExact', EntryIsCurrent', EditInv(e)',
         to.does = "patch" /\ to.stage = "commit" => to.expected = stored.themeRev,
         \A q \in Editors \ {e} :
            editing[q].stage \in {"theme", "commit"} => rowOwner'.profile = rowOwner.profile
  PROVE  VersionedInv'
<1>1. editing \in [Editors -> EditState] BY DEF VersionedInv, VersionedTyped
<1>2. /\ editing' \in [Editors -> EditState] /\ editing'[e] = to
      /\ \A q \in Editors \ {e} : editing'[q] = editing[q]
  BY <1>1 DEF Editor
<1>3. VersionedTyped' BY <1>2 DEF VersionedInv, VersionedTyped
<1>4. HistoryInv' BY DEF VersionedInv, HistoryInv
<1>5. PatchesWhatWasSeen' BY <1>2 DEF VersionedInv, PatchesWhatWasSeen, Does
<1>6. ASSUME NEW q \in Editors PROVE EditInv(q)'
  <2>1. CASE q = e BY <2>1
  <2>2. CASE q # e
    <3>1. editing'[q] = editing[q] /\ EditInv(q) BY <1>2, <2>2 DEF VersionedInv
    <3> QED BY <2>2, <3>1 DEF EditInv
  <2> QED BY <2>1, <2>2
<1>7. ASSUME NEW q \in Readers PROVE ReadInv(reading[q])'
  <2>1. PICK x : x = reading'[q] /\ ReadInv(x) BY DEF VersionedInv
  <2>2. ReadInv(x)' BY <2>1, ReadHolds
  <2> QED BY <2>1, <2>2
<1> QED BY <1>3, <1>4, <1>5, <1>6, <1>7 DEF VersionedInv

LEMMA AnEditor ==
  ASSUME VersionedInv, NEW e \in Editors
  PROVE  /\ editing[e] \in EditState /\ EditInv(e) /\ rowOwner \in Owners
         /\ editing \in [Editors -> EditState] /\ e # NoEditor
         /\ stored \in Config /\ stored.profile \in Nat /\ stored.profile # 0
         /\ entry \in 0..stored.profile /\ overtaken \in BOOLEAN
         /\ cacheFaults \in 0..MaxCacheFaults /\ MaxCacheFaults \in Nat
         /\ (scope = "user" => entry = 0)
BY ConfigAssumption DEF VersionedInv, VersionedTyped, Config

(* Nothing but what is locked changes.                                     *)
LEMMA LockPreserves ==
  ASSUME VersionedInv, NEW e \in Editors, NEW to \in EditState, Editor(e, to),
         UNCHANGED <<editorRest, stored, past, revised, entry, overtaken, cacheFaults>>,
         rowOwner' \in Owners, editing[e].stage # "entry", EditInv(e)',
         to.does = "patch" /\ to.stage = "commit" => to.expected = stored.themeRev,
         \A q \in Editors \ {e} :
            editing[q].stage \in {"theme", "commit"} => rowOwner'.profile = rowOwner.profile
  PROVE  VersionedInv'
<1>1. UNCHANGED <<scope, reading, stored, past, revised, entry, overtaken, cacheFaults>>
  BY DEF editorRest
<1>2. CachesAreExact' BY <1>1, CachesKept
<1>3. \A q \in Editors \ {e} : editing'[q] = editing[q] BY AnEditor DEF Editor
<1>4. EntryIsCurrent' BY <1>1, <1>3 DEF VersionedInv, EntryIsCurrent
<1>5. /\ cacheFaults' \in 0..MaxCacheFaults /\ entry' \in 0..stored.profile
      /\ overtaken' \in BOOLEAN /\ (scope = "user" => entry' = 0)
  BY <1>1, AnEditor
<1> QED BY <1>1, <1>2, <1>4, <1>5, EditPreserves

LEMMA LocksProfilePreserves ==
  ASSUME VersionedInv, NEW e \in Editors, LocksProfile(e)
  PROVE  VersionedInv'
<1>1. PICK kind \in Edits, seen \in 1..stored.themeRev :
        Editor(e, [does |-> kind,
                   stage |-> IF kind \in {"patch", "setTheme"} THEN "theme" ELSE "commit",
                   expected |-> seen, stale |-> stored.profile])
  BY DEF LocksProfile
<1>2. /\ editing[e].stage = "idle" /\ rowOwner.profile = NoEditor
      /\ rowOwner' = [rowOwner EXCEPT !.profile = e]
      /\ UNCHANGED <<editorRest, stored, past, revised, entry, overtaken, cacheFaults>>
  BY DEF LocksProfile
<1> DEFINE s == IF kind \in {"patch", "setTheme"} THEN "theme" ELSE "commit"
           to == [does |-> kind, stage |-> s, expected |-> seen, stale |-> stored.profile]
<1>3. rowOwner' \in Owners /\ rowOwner'.profile = e BY <1>2, AnEditor DEF Owners
<1>4. kind \in {"save", "set", "patch", "setTheme"} /\ (kind = "set" => scope = "application")
  BY DEF Edits
<1>5. /\ s \in {"theme", "commit"} /\ (s = "theme" => kind \in {"patch", "setTheme"})
      /\ ~(kind = "patch" /\ s = "commit")
  OBVIOUS
<1>6. seen \in Nat /\ stored.profile \in Nat
  <2>1. stored.themeRev \in Nat BY AnEditor DEF Config
  <2> QED BY <2>1, AnEditor
<1> HIDE DEF s
<1>7. to \in EditState BY <1>4, <1>5, <1>6 DEF EditState
<1>8. to.does = kind /\ to.stage = s /\ to.stale = stored.profile OBVIOUS
<1>9. Editor(e, to) BY <1>1 DEF s
<1> HIDE DEF to
<1>10. editing'[e] = to BY <1>9, AnEditor DEF Editor
<1>11. EditInv(e)' BY <1>2, <1>3, <1>4, <1>5, <1>8, <1>10 DEF EditInv, editorRest
<1>12. \A q \in Editors \ {e} : editing[q].stage \notin {"theme", "commit"}
  BY <1>2, AnEditor DEF EditInv
<1> QED BY <1>2, <1>3, <1>5, <1>7, <1>8, <1>9, <1>11, <1>12, LockPreserves

(* Who holds the profile's row is the only one who can hold the theme's.   *)
LEMMA Alone ==
  ASSUME VersionedInv, NEW e \in Editors, editing[e].stage \in {"theme", "commit"}
  PROVE  /\ rowOwner.profile = e
         /\ \A q \in Editors \ {e} : editing[q].stage \notin {"theme", "commit"}
BY DEF VersionedInv, EditInv

LEMMA FinishedIsEdit ==
  Finished \in EditState /\ Finished.stage = "done" /\ Finished.does = "none"
BY DEF Finished, FreshEdit, EditState

LEMMA LocksThemePreserves ==
  ASSUME VersionedInv, NEW e \in Editors, LocksTheme(e)
  PROVE  VersionedInv'
<1>1. /\ editing[e].stage = "theme" /\ editing[e] \in EditState /\ EditInv(e)
      /\ UNCHANGED <<editorRest, stored, past, revised, entry, overtaken, cacheFaults>>
      /\ rowOwner.profile = e
      /\ \A q \in Editors \ {e} : editing[q].stage \notin {"theme", "commit"}
  BY AnEditor, Alone DEF LocksTheme
<1>2. CASE /\ Applies(e) /\ rowOwner' = [rowOwner EXCEPT !.theme = e]
           /\ Editor(e, [editing[e] EXCEPT !.stage = "commit"])
  <2> DEFINE to == [editing[e] EXCEPT !.stage = "commit"]
  <2>1. to \in EditState BY <1>1 DEF EditState
  <2>2. /\ to.does = editing[e].does /\ to.stage = "commit" /\ to.stale = editing[e].stale
        /\ to.expected = editing[e].expected
    BY <1>1 DEF EditState
  <2>3. Editor(e, to) BY <1>2
  <2> HIDE DEF to
  <2>4. editing'[e] = to BY <2>3, AnEditor DEF Editor
  <2>5. rowOwner' \in Owners /\ rowOwner'.profile = e BY <1>1, <1>2, AnEditor DEF Owners
  <2>6. EditInv(e)' BY <1>1, <2>2, <2>4, <2>5 DEF EditInv, editorRest
  <2>7. to.does = "patch" /\ to.stage = "commit" => to.expected = stored.themeRev
    BY <1>2, <2>2 DEF Applies, Does
  <2> QED BY <1>1, <2>1, <2>3, <2>5, <2>6, <2>7, LockPreserves
<1>3. CASE rowOwner' = [rowOwner EXCEPT !.profile = NoEditor] /\ Editor(e, Finished)
  <2>1. rowOwner' \in Owners BY <1>3, AnEditor DEF Owners
  <2>2. editing'[e] = Finished BY <1>3, AnEditor DEF Editor
  <2>3. EditInv(e)' BY <2>2, FinishedIsEdit DEF EditInv
  <2> QED BY <1>1, <1>3, <2>1, <2>3, FinishedIsEdit, LockPreserves
<1> QED BY <1>2, <1>3 DEF LocksTheme

LEMMA UnlockedIsOwners == ASSUME VersionedInv, NEW e \in Editors PROVE Unlocked(e) \in Owners
<1>1. rowOwner \in Owners BY AnEditor
<1>2. DOMAIN rowOwner = {"profile", "theme"} BY <1>1 DEF Owners
<1>3. /\ rowOwner["profile"] \in Editors \cup {NoEditor}
      /\ rowOwner["theme"] \in Editors \cup {NoEditor}
  BY <1>1 DEF Owners
<1> DEFINE own(r) == IF rowOwner[r] = e THEN NoEditor ELSE rowOwner[r]
<1>4. own("profile") \in Editors \cup {NoEditor} /\ own("theme") \in Editors \cup {NoEditor}
  BY <1>3
<1>5. Unlocked(e) = [r \in {"profile", "theme"} |-> own(r)] BY <1>2 DEF Unlocked
<1> HIDE DEF own
<1>6. [r \in {"profile", "theme"} |-> own(r)] = [profile |-> own("profile"), theme |-> own("theme")]
  OBVIOUS
<1> QED BY <1>4, <1>5, <1>6 DEF Owners

LEMMA RollsBackPreserves ==
  ASSUME VersionedInv, NEW e \in Editors, RollsBack(e)
  PROVE  VersionedInv'
<1>1. /\ editing[e].stage = "commit" /\ rowOwner' = Unlocked(e) /\ Editor(e, Finished)
      /\ UNCHANGED <<editorRest, stored, past, revised, entry, overtaken, cacheFaults>>
      /\ \A q \in Editors \ {e} : editing[q].stage \notin {"theme", "commit"}
  BY Alone DEF RollsBack
<1>2. rowOwner' \in Owners BY <1>1, UnlockedIsOwners
<1>3. editing'[e] = Finished BY <1>1, AnEditor DEF Editor
<1>4. EditInv(e)' BY <1>3, FinishedIsEdit DEF EditInv
<1> QED BY <1>1, <1>2, <1>4, FinishedIsEdit, LockPreserves


(* The setting goes, or it is known that it did not.                       *)
LEMMA EntryClearsPreserves ==
  ASSUME VersionedInv, NEW e \in Editors, ClearsEntry(e)
  PROVE  VersionedInv'
<1>1. /\ editing[e].stage = "entry" /\ editing[e] \in EditState /\ EditInv(e)
      /\ UNCHANGED <<scope, reading, stored, past, rowOwner, revised>>
      /\ rowOwner \in Owners /\ stored.profile \in Nat
  BY AnEditor DEF ClearsEntry, editorRest
<1> DEFINE to == IF Does(e) = "set" THEN Finished ELSE [editing[e] EXCEPT !.stage = "cleanup"]
<1>2. Editor(e, to) BY DEF ClearsEntry
<1>3. to \in EditState BY <1>1, FinishedIsEdit DEF EditState
<1>4. \/ to = Finished
      \/ to.does = editing[e].does /\ to.stage = "cleanup" /\ to.stale = editing[e].stale
  BY <1>1 DEF EditState
<1> HIDE DEF to
<1>5. editing'[e] = to BY <1>2, AnEditor DEF Editor
<1>6. EditInv(e)' BY <1>1, <1>4, <1>5, FinishedIsEdit DEF EditInv
<1>7. to.stage # "commit" BY <1>4, FinishedIsEdit
<1>8. CASE entry' = Cleared /\ overtaken' = FALSE /\ UNCHANGED cacheFaults
  <2>1. entry' = 0 /\ entry' \in 0..stored.profile BY <1>1, <1>8 DEF Cleared
  <2>2. overtaken' \in BOOLEAN BY <1>8
  <2>3. cacheFaults' \in 0..MaxCacheFaults BY <1>8, AnEditor
  <2>4. EntryIsCurrent' BY <2>1 DEF EntryIsCurrent
  <2>5. CachesAreExact' BY <1>1, CachesKept
  <2> QED BY <1>1, <1>2, <1>3, <1>6, <1>7, <2>1, <2>2, <2>3, <2>4, <2>5, EditPreserves
<1>9. CASE /\ cacheFaults < MaxCacheFaults /\ cacheFaults' = cacheFaults + 1
           /\ overtaken' = TRUE /\ UNCHANGED entry
  <2>1. entry' \in 0..stored.profile /\ (scope = "user" => entry' = 0) BY <1>9, AnEditor
  <2>2. overtaken' \in BOOLEAN /\ overtaken' BY <1>9
  <2>3. cacheFaults' \in 0..MaxCacheFaults BY <1>9, AnEditor
  <2>4. EntryIsCurrent' BY <2>2 DEF EntryIsCurrent
  <2>5. CachesAreExact' BY <1>1, CachesKept
  <2> QED BY <1>1, <1>2, <1>3, <1>6, <1>7, <2>1, <2>2, <2>3, <2>4, <2>5, EditPreserves
<1> QED BY <1>8, <1>9 DEF ClearsEntry

(* The theme that is cached is of the commit that made it.                 *)
LEMMA CleansPreserves ==
  ASSUME VersionedInv, NEW e \in Editors, CleansUp(e)
  PROVE  VersionedInv'
<1>1. /\ editing[e].stage = "cleanup" /\ Editor(e, Finished) /\ EditInv(e)
      /\ UNCHANGED <<scope, reading, stored, past, rowOwner, entry, overtaken, cacheFaults>>
  BY AnEditor DEF CleansUp, editorRest
<1>2. editing'[e] = Finished /\ \A q \in Editors \ {e} : editing'[q] = editing[q]
  BY <1>1, AnEditor DEF Editor
<1>3. EditInv(e)' BY <1>2, FinishedIsEdit DEF EditInv
<1>4. revised' \subseteq revised \cup {PatchedTheme(e)} BY DEF CleansUp
<1>5. CachesAreExact'
  <2> SUFFICES ASSUME NEW c \in revised' PROVE \E n \in DOMAIN past : Exact(c, past[n])
    BY <1>1, ExactMeans
  <2>1. CASE c \in revised BY <2>1, ExactMeans DEF VersionedInv
  <2>2. CASE c = PatchedTheme(e)
    <3> DEFINE p == editing[e].stale + 1
    <3>1. p \in DOMAIN past BY <1>1 DEF EditInv, VersionedInv, VersionedTyped
    <3>2. /\ c[1] = "theme" /\ c[2] = past[p].themeRev
          /\ c[3] = [NoResult EXCEPT !.theme = past[p].theme, !.themeRev = past[p].themeRev]
      BY <2>2 DEF PatchedTheme
    <3>3. Exact(c, past[p]) BY <3>2 DEF Exact
    <3> QED BY <3>1, <3>3
  <2> QED BY <1>4, <2>1, <2>2
<1>6. EntryIsCurrent' BY <1>1, <1>2 DEF VersionedInv, EntryIsCurrent
<1>7. /\ rowOwner' \in Owners /\ cacheFaults' \in 0..MaxCacheFaults /\ entry' \in 0..stored.profile
      /\ overtaken' \in BOOLEAN /\ (scope = "user" => entry' = 0)
  BY <1>1, AnEditor
<1> QED BY <1>1, <1>3, <1>5, <1>6, <1>7, FinishedIsEdit, EditPreserves

-----------------------------------------------------------------------------
(* A commit adds a configuration to the history: nobody else had one in    *)
(* hand, and readers that read before it look again after it.              *)
LEMMA EditCommitPreserves ==
  ASSUME VersionedInv, NEW e \in Editors, Commits(e)
  PROVE  VersionedInv'
<1> DEFINE P == stored.profile
<1>1. /\ editing[e].stage = "commit" /\ editing[e] \in EditState /\ EditInv(e)
      /\ editing[e].stale = P /\ stored \in Config /\ P \in Nat /\ P # 0
      /\ stored.settings \in Nat /\ stored.theme \in Nat /\ stored.themeRev \in Nat
      /\ \A q \in Editors \ {e} : editing[q].stage \notin {"theme", "commit"}
  BY AnEditor, Alone DEF Commits, EditInv, Config
<1>2. /\ UNCHANGED <<scope, reading, revised, entry, overtaken, cacheFaults>>
      /\ rowOwner' = Unlocked(e) /\ stored' = Edited(e)
      /\ Editor(e, [editing[e] EXCEPT !.stage = AfterCommit(e)])
  BY DEF Commits, editorRest
<1>3. /\ stored' \in Config /\ stored'.profile = P + 1 /\ stored'.settings <= P + 1
      /\ \/ OnTheme(e) /\ stored'.themeRev = stored.themeRev + 1
                       /\ stored'.settings = stored.settings
         \/ ~OnTheme(e) /\ stored'.themeRev = stored.themeRev /\ stored'.theme = stored.theme
  <2>1. stored.settings <= P BY <1>1 DEF VersionedInv, HistoryInv
  <2>2. CASE OnTheme(e)
    <3>1. stored' = [stored EXCEPT !.theme = P + 1, !.themeRev = stored.themeRev + 1,
                                   !.profile = P + 1]
      BY <1>2, <2>2 DEF Edited, ProfileAdvanced
    <3>2. /\ stored'.settings = stored.settings /\ stored'.themeRev = stored.themeRev + 1
          /\ stored'.profile = P + 1
      BY <1>1, <3>1 DEF Config
    <3>3. stored' \in Config
      <4>1. P + 1 \in Nat /\ stored.themeRev + 1 \in Nat BY <1>1
      <4> HIDE DEF P
      <4> QED BY <1>1, <3>1, <4>1 DEF Config
    <3> QED BY <1>1, <2>1, <2>2, <3>2, <3>3
  <2>3. CASE ~OnTheme(e)
    <3>1. stored' = [stored EXCEPT !.settings = P + 1, !.profile = P + 1]
      BY <1>2, <2>3 DEF Edited, ProfileAdvanced
    <3>2. /\ stored'.settings = P + 1 /\ stored'.themeRev = stored.themeRev
          /\ stored'.profile = P + 1 /\ stored'.theme = stored.theme
      BY <1>1, <3>1 DEF Config
    <3>3. stored' \in Config
      <4>1. P + 1 \in Nat BY <1>1
      <4> HIDE DEF P
      <4> QED BY <1>1, <3>1, <4>1 DEF Config
    <3> QED BY <1>1, <2>3, <3>2, <3>3
  <2> QED BY <2>2, <2>3
<1>4. /\ past' = [p \in 1..(P + 1) |-> IF p = P + 1 THEN stored' ELSE past[p]]
      /\ past' \in [1..stored'.profile -> Config] /\ past'[P + 1] = stored'
      /\ \A p \in 1..P : past'[p] = past[p]
      /\ \A p \in 1..(P + 1) : p = P + 1 \/ p \in 1..P
  <2>1. past \in [1..P -> Config] BY DEF VersionedInv, VersionedTyped
  <2>2. past' = [p \in 1..(P + 1) |-> IF p = P + 1 THEN stored' ELSE past[p]]
    BY <1>2, <1>3 DEF Commits
  <2>3. \A p \in 1..(P + 1) : p = P + 1 \/ p \in 1..P BY <1>1
  <2>4. \A p \in 1..P : p \in 1..(P + 1) /\ p # P + 1 BY <1>1
  <2>5. P + 1 \in 1..(P + 1) BY <1>1
  <2> HIDE DEF P
  <2>6. past' \in [1..(P + 1) -> Config] BY <1>3, <2>1, <2>2, <2>3
  <2> QED BY <1>3, <2>2, <2>3, <2>4, <2>5, <2>6
<1>5. HistoryInv'
  <2>1. past'[stored'.profile] = stored' BY <1>3, <1>4
  <2>2. \A p \in 1..P : past[p] \in Config BY DEF VersionedInv, VersionedTyped
  <2>3. \A p \in 1..P : past[p].themeRev <= stored.themeRev
    BY <1>1 DEF VersionedInv, HistoryInv
  <2>4. \A p \in 1..P : past[p].themeRev = stored.themeRev => past[p].theme = stored.theme
    BY <1>1 DEF VersionedInv, HistoryInv
  <2>5. \A p \in 1..P : past[p].themeRev \in Nat BY <2>2 DEF Config
  <2>6. \A p \in 1..(P + 1) : past'[p].profile = p /\ past'[p].settings <= p
    BY <1>3, <1>4 DEF VersionedInv, HistoryInv
  <2>7. ASSUME NEW p \in 1..(P + 1), NEW q \in 1..(P + 1)
        PROVE  /\ p <= q => past'[p].themeRev <= past'[q].themeRev
               /\ past'[p].themeRev = past'[q].themeRev => past'[p].theme = past'[q].theme
    <3>1. CASE p \in 1..P /\ q \in 1..P
      <4>1. past'[p] = past[p] /\ past'[q] = past[q] BY <1>4, <3>1
      <4>2. /\ p <= q => past[p].themeRev <= past[q].themeRev
            /\ past[p].themeRev = past[q].themeRev => past[p].theme = past[q].theme
        BY <3>1 DEF VersionedInv, HistoryInv
      <4> QED BY ONLY <4>1, <4>2
    <3>2. CASE p = P + 1 /\ q = P + 1 BY <1>1, <1>3, <1>4, <3>2
    <3>3. CASE p \in 1..P /\ q = P + 1 BY <1>1, <1>3, <1>4, <2>3, <2>4, <2>5, <3>3
    <3>4. CASE p = P + 1 /\ q \in 1..P BY <1>1, <1>3, <1>4, <2>3, <2>4, <2>5, <3>4
    <3> QED BY <1>4, <3>1, <3>2, <3>3, <3>4
  <2> QED BY <1>3, <2>1, <2>6, <2>7 DEF HistoryInv
<1>6. CachesAreExact'
  <2>1. DOMAIN past = 1..P /\ DOMAIN past' = 1..(P + 1)
    BY <1>3, <1>4 DEF VersionedInv, VersionedTyped
  <2>2. \A c \in revised : \E p \in DOMAIN past : Exact(c, past[p])
    BY ExactMeans DEF VersionedInv
  <2>3. \A p \in 1..P : p \in 1..(P + 1) BY <1>1
  <2> QED BY <1>2, <1>4, <2>1, <2>2, <2>3, ExactMeans
<1> DEFINE to == [editing[e] EXCEPT !.stage = AfterCommit(e)]
<1>7. /\ to \in EditState /\ to.stage = AfterCommit(e) /\ to.does = editing[e].does
      /\ to.stale = P /\ AfterCommit(e) \in {"entry", "done", "cleanup"}
  BY <1>1 DEF EditState, AfterCommit
<1> HIDE DEF to
<1>8. /\ editing' \in [Editors -> EditState] /\ editing'[e] = to
      /\ \A q \in Editors \ {e} : editing'[q] = editing[q]
  <2>1. Editor(e, to) BY <1>2 DEF to
  <2> QED BY <1>7, <2>1, AnEditor DEF Editor
<1>9. VersionedTyped'
  <2>1. entry' \in 0..stored'.profile BY <1>1, <1>2, <1>3, AnEditor
  <2>2. stored'.profile # 0 BY <1>1, <1>3
  <2>3. rowOwner' \in Owners BY <1>2, UnlockedIsOwners
  <2> QED BY <1>2, <1>3, <1>4, <1>8, <2>1, <2>2, <2>3 DEF VersionedInv, VersionedTyped
<1>10. PatchesWhatWasSeen' BY <1>1, <1>7, <1>8 DEF PatchesWhatWasSeen
<1>11. EntryIsCurrent'
  <2> SUFFICES ASSUME entry # 0, ~overtaken, \A q \in Editors : editing'[q].stage # "entry"
               PROVE  entry = stored'.settings
    BY <1>2 DEF EntryIsCurrent
  <2>1. AfterCommit(e) # "entry" BY <1>7, <1>8
  <2>2. scope # "user" /\ scope = "application"
    BY AnEditor, ConfigAssumption DEF VersionedInv, VersionedTyped
  <2>3. OnTheme(e) BY <1>1, <2>1, <2>2 DEF EditInv, AfterCommit, OnTheme, Does, EditState
  <2>4. \A q \in Editors : editing[q].stage # "entry" BY <1>1, <1>8
  <2>5. entry = stored.settings BY <2>4 DEF VersionedInv, EntryIsCurrent
  <2> QED BY <1>3, <2>3, <2>5
<1>12. ASSUME NEW q \in Editors PROVE EditInv(q)'
  <2>1. CASE q = e BY <1>1, <1>2, <1>3, <1>7, <1>8, <2>1 DEF EditInv, AfterCommit, Does
  <2>2. CASE q # e
    <3>1. EditInv(q) /\ editing'[q] = editing[q] /\ editing[q] \in EditState
          /\ editing[q].stage \notin {"theme", "commit"}
      BY <1>1, <1>8, <2>2, AnEditor DEF VersionedInv
    <3>2. \A n \in 1..P : n \in 1..(P + 1) BY <1>1
    <3> QED BY <1>2, <1>3, <3>1, <3>2 DEF EditInv
  <2> QED BY <2>1, <2>2
<1>13. ASSUME NEW q \in Readers PROVE ReadInv(reading[q])'
  <2>1. PICK x : x = reading[q] /\ ReadInv(x) /\ x \in ReadState
    BY DEF VersionedInv, VersionedTyped
  <2>2. x = reading'[q] BY <1>2, <2>1
  <2>3. /\ \A n \in 1..P : n \in 1..(P + 1) /\ past'[n] = past[n]
        /\ \A n \in 0..P : n \in 0..(P + 1)
    BY <1>1, <1>4
  <2>4. ASSUME Began(x)
        PROVE  /\ Began(x)' /\ x.from \in 1..P
               /\ stored'.profile # x.profile \/ x.kind = "theme"
               /\ Revision(x.kind, stored') = x.profile =>
                    /\ Revision(x.kind, stored) = x.profile
                    /\ Shown(x.kind, stored') = Shown(x.kind, stored)
    <3>1. /\ x.kind \in {"profile", "theme", "group"} /\ x.from \in 1..P
          /\ Revision(x.kind, past[x.from]) <= x.profile /\ x.profile <= Revision(x.kind, stored)
          /\ x.profile \in Nat
      BY <2>1, <2>4 DEF Began, ReadState
    <3>2. CASE x.kind = "theme"
      <4>1. x.profile <= stored.themeRev BY <3>1, <3>2 DEF Revision
      <4>2. x.profile <= stored'.themeRev BY <1>1, <1>3, <3>1, <4>1
      <4>3. Began(x)' BY <1>3, <2>3, <3>1, <3>2, <4>2 DEF Began, Revision
      <4>4. stored'.themeRev = x.profile =>
              stored.themeRev = x.profile /\ stored'.theme = stored.theme
        BY <1>1, <1>3, <3>1, <4>1
      <4> QED BY <3>1, <3>2, <4>3, <4>4 DEF Revision, Shown
    <3>3. CASE x.kind # "theme"
      <4>1. x.profile <= P BY <3>1, <3>3 DEF Revision
      <4>2. x.profile <= P + 1 /\ x.profile # P + 1 BY <1>1, <3>1, <4>1
      <4>3. Began(x)' BY <1>3, <2>3, <3>1, <3>3, <4>2 DEF Began, Revision
      <4> QED BY <1>3, <3>1, <3>3, <4>2, <4>3 DEF Revision
    <3> QED BY <3>2, <3>3
  <2>5. StartInv(x)' BY <1>2, <1>3, <2>1, <2>3, <2>4 DEF ReadInv, StartInv, Twofold
  <2>6. LabelInv(x)'
    <3> SUFFICES ASSUME x.stage \in {"cache", "load", "revision"} PROVE LabelInv(x)'
      BY DEF LabelInv
    <3>1. Began(x) BY <2>1 DEF ReadInv, StartInv
    <3>2. stored'.profile # x.profile \/ x.kind = "theme" BY <2>4, <3>1
    <3> QED BY <1>2, <2>1, <3>2 DEF ReadInv, LabelInv, Twofold
  <2>7. HeldInv(x)'
    <3>1. ASSUME x.stage = "after", Revision(x.kind, stored') = x.profile
          PROVE  x.result = Shown(x.kind, stored')
      <4>1. Began(x) BY <2>1, <3>1 DEF ReadInv, StartInv
      <4> QED BY <2>1, <2>4, <3>1, <4>1 DEF ReadInv, HeldInv
    <3>2. ASSUME x.stage = "afterTheme" PROVE x.result = Shown(x.kind, past'[x.profile])
      <4>1. Began(x) /\ x.kind = "profile" BY <2>1, <3>2 DEF ReadInv, StartInv, Twofold
      <4>2. past[x.from].profile = x.from BY <4>1 DEF Began, VersionedInv, HistoryInv
      <4>3. x.profile \in 1..P BY <1>1, <2>1, <4>1, <4>2 DEF Began, Revision, ReadState
      <4> QED BY <2>1, <2>3, <3>2, <4>3 DEF ReadInv, HeldInv
    <3> QED BY <3>1, <3>2 DEF HeldInv
  <2>8. KeptInv(x)'
    <3> SUFFICES ASSUME x.stage = "store" PROVE KeptInv(x)'
      BY DEF KeptInv
    <3>1. /\ x.upto \in 1..P /\ (x.kind = "entry" => x.result.settings = past[x.upto].settings)
          /\ x.from \in 0..P
      BY <2>1 DEF ReadInv, KeptInv, StartInv
    <3>2. x.upto \in 1..(P + 1) /\ past'[x.upto] = past[x.upto] BY <2>3, <3>1
    <3>3. ASSUME x.kind # "entry"
          PROVE  /\ x.from # 0
                 /\ \E p \in x.from..x.upto : /\ Revision(x.kind, past'[p]) = x.profile
                                              /\ x.result = Shown(x.kind, past'[p])
      <4>1. x.from # 0 BY <2>1, <3>3 DEF ReadInv, KeptInv
      <4>2. PICK p \in x.from..x.upto : /\ Revision(x.kind, past[p]) = x.profile
                                        /\ x.result = Shown(x.kind, past[p])
        BY <2>1, <3>3 DEF ReadInv, KeptInv
      <4>3. p \in 1..P BY <1>1, <3>1, <4>1, <4>2
      <4> QED BY <2>3, <4>1, <4>2, <4>3
    <3> QED BY <1>3, <3>1, <3>2, <3>3 DEF KeptInv
  <2>9. ReadInv(x)' BY <2>5, <2>6, <2>7, <2>8 DEF ReadInv
  <2> QED BY <2>2, <2>9
<1>14. (scope = "user" => entry = 0)' BY <1>2, AnEditor
<1> QED BY <1>5, <1>6, <1>9, <1>10, <1>11, <1>12, <1>13, <1>14 DEF VersionedInv

LEMMA VersionedStepPreserves == VersionedInv /\ [ConfigNext]_configVars => VersionedInv'
<1> SUFFICES ASSUME VersionedInv, [ConfigNext]_configVars PROVE VersionedInv'
  OBVIOUS
<1>1. CASE UNCHANGED configVars
  <2>1. UNCHANGED <<scope, stored, past, rowOwner, revised, entry, overtaken, reading, editing,
                    cacheFaults>>
    BY <1>1 DEF configVars
  <2>2. VersionedTyped' BY <2>1 DEF VersionedInv, VersionedTyped
  <2>3. HistoryInv' BY <2>1 DEF VersionedInv, HistoryInv
  <2>4. CachesAreExact' BY <2>1, CachesKept
  <2>5. EntryIsCurrent' BY <2>1 DEF VersionedInv, EntryIsCurrent
  <2>6. PatchesWhatWasSeen' BY <2>1 DEF VersionedInv, PatchesWhatWasSeen, Does
  <2>7. \A e \in Editors : EditInv(e)' BY <2>1 DEF VersionedInv, EditInv
  <2>8. ASSUME NEW q \in Readers PROVE ReadInv(reading[q])'
    <3>1. PICK x : x = reading'[q] /\ ReadInv(x) BY <2>1 DEF VersionedInv
    <3>2. ReadInv(x)' BY <2>1, <3>1, ReadHolds
    <3> QED BY <3>1, <3>2
  <2> QED BY <2>1, <2>2, <2>3, <2>4, <2>5, <2>6, <2>7, <2>8 DEF VersionedInv
<1>2. CASE Expires BY <1>2, ExpiresPreserves
<1>3. ASSUME NEW r \in Readers, ConfigReads(r) \/ GetAppConfig(r) \/ Fills(r)
      PROVE  VersionedInv'
  BY <1>3, ReadsRevisionPreserves, ReadsThemePreserves, LooksUpPreserves, LoadsPreserves,
     LabelsPreserves, ReadsAgainPreserves, KeepsPreserves, EntryPreserves DEF ConfigReads
<1>4. ASSUME NEW e \in Editors, ConfigEdits(e) \/ RollsBack(e)
      PROVE  VersionedInv'
  BY <1>4, LocksProfilePreserves, LocksThemePreserves, EditCommitPreserves, EntryClearsPreserves,
     CleansPreserves, RollsBackPreserves DEF ConfigEdits
<1> QED BY <1>1, <1>2, <1>3, <1>4 DEF ConfigNext

LEMMA VersionedInvIsSound == VersionedInv => ConfigTypeOK /\ ConfigIsConsistent
<1> SUFFICES ASSUME VersionedInv PROVE ConfigTypeOK /\ ConfigIsConsistent
  OBVIOUS
<1>1. ConfigTypeOK
  BY DEF VersionedInv, VersionedTyped, ConfigTypeOK, Owners, ReadState, ReadStages, Results,
         EditState
<1>2. ASSUME NEW r \in Readers, reading[r].stage = "store", Kind(r) # "entry"
      PROVE  \E p \in reading[r].from..reading[r].upto :
                reading[r].result = Shown(Kind(r), past[p])
  <2>1. KeptInv(reading[r]) BY Reader
  <2> QED BY <1>2, <2>1 DEF KeptInv, Kind
<1>3. ReadsAreCommitted BY <1>2 DEF ReadsAreCommitted
<1> QED BY <1>1, <1>3 DEF ConfigIsConsistent, VersionedInv

(* Whatever editors commit, and wherever commits and failures of the cache *)
(* fall between the statements of a reader: a reader returns one committed *)
(* configuration of a moment of its call, the caches hold what was         *)
(* committed under their revision, and a patch replaces the theme its      *)
(* client saw.                                                             *)
THEOREM ConfigurationSafe == ConfigSpec => [](ConfigTypeOK /\ ConfigIsConsistent)
<1> QED BY VersionedInitially, VersionedStepPreserves, VersionedInvIsSound, PTL DEF ConfigSpec

-----------------------------------------------------------------------------
(* The presentation profile.                                               *)

RevisionRow == [document : 1..MaxVersion, version : 1..MaxVersion, key : Requests,
                source : 0..MaxVersion]
RunState == [stage : {"idle", "lock", "write", "refused", "replayed", "done"},
             document : 0..MaxVersion, revision : 0..MaxVersion]
ProfileState == [version : 0..MaxVersion, draft : 0..MaxVersion, published : 0..MaxVersion]
ProfileTyped ==
  /\ profile \in ProfileState /\ revisions \in Seq(RevisionRow) /\ rowLocks \in BOOLEAN
  /\ holder \in Sendings \cup {Free} /\ request \in [Requests -> Asks]
  /\ run \in [Sendings -> RunState] /\ drafts \in Seq(0..MaxVersion)

(* The history of drafts goes as far as the versions, and what is          *)
(* published was a version before.                                         *)
DraftsInv ==
  /\ Len(drafts) = profile.version /\ profile.published = Len(revisions)
  /\ profile.published <= profile.version
  /\ profile.version > 0 => /\ drafts[profile.version] = profile.draft
                            /\ profile.published < profile.version
                            /\ profile.draft # 0 \/ profile.published > 0
(* A revision is what its request saw.                                     *)
RevisionInv(n) ==
  LET edition == revisions[n]
      asked == request[edition.key] IN
  /\ edition.version <= profile.version
  /\ asked.op \in {"publish", "rollback"} /\ asked.version \in 1..Len(drafts)
  /\ edition.version = asked.version + 1
  /\ asked.op = "publish" => edition.document = drafts[asked.version]
  /\ asked.op = "rollback" => /\ drafts[asked.version] = 0
                              /\ asked.source \in 1..Len(revisions)
                              /\ edition.document = revisions[asked.source].document
ApartInv ==
  \A m, n \in 1..Len(revisions) :
    m < n => revisions[m].version < revisions[n].version /\ revisions[m].key # revisions[n].key
RequestInv(r) == request[r].op # "none" => request[r].version \in 1..Len(drafts)
(* A sending that is about to write carries what its version had.          *)
SendingInv(r, i) ==
  LET s == <<r, i>> IN
  /\ run[s].stage # "idle" => request[r].op # "none"
  /\ run[s].stage = "replayed" => request[r].op # "replace"
  /\ run[s].stage \in {"done", "replayed"} =>
       IF request[r].op = "replace" THEN run[s].revision = 0 ELSE run[s].revision \in Known(r)
  /\ run[s].stage = "write" =>
       /\ run[s].revision = request[r].version
       /\ request[r].op = "publish" => /\ run[s].document = drafts[run[s].revision]
                                       /\ run[s].document # 0
       /\ request[r].op = "rollback" => /\ drafts[run[s].revision] = 0
                                        /\ request[r].source \in 1..Len(revisions)
                                        /\ run[s].document = revisions[request[r].source].document
ProfileInv ==
  /\ ProfileTyped /\ DraftsInv /\ ApartInv
  /\ \A n \in 1..Len(revisions) : RevisionInv(n)
  /\ \A r \in Requests : RequestInv(r) /\ \A i \in Resends : SendingInv(r, i)

LEMMA ProfileInitially == PresentationInit => ProfileInv
<1> SUFFICES ASSUME PresentationInit PROVE ProfileInv
  OBVIOUS
<1>1. MaxVersion \in Nat \ {0} BY PresentationAssumption
<1>2. NotAsked \in Asks /\ NotAsked.op = "none" BY <1>1 DEF NotAsked, Asks
<1>3. NotRun \in RunState /\ NotRun.stage = "idle" BY <1>1 DEF NotRun, RunState
<1>4. ProfileTyped
  BY <1>1, <1>2, <1>3 DEF PresentationInit, ProfileTyped, ProfileState
<1>5. \A r \in Requests : request[r].op = "none" BY <1>2 DEF PresentationInit
<1>6. \A r \in Requests : \A i \in Resends : run[<<r, i>>].stage = "idle"
  BY <1>3 DEF PresentationInit, Sendings
<1>7. DraftsInv /\ ApartInv /\ Len(revisions) = 0 BY DEF PresentationInit, DraftsInv, ApartInv
<1>8. \A n \in 1..Len(revisions) : RevisionInv(n) BY <1>7
<1>9. \A r \in Requests : RequestInv(r) /\ \A i \in Resends : SendingInv(r, i)
  BY <1>5, <1>6 DEF RequestInv, SendingInv
<1> QED BY <1>4, <1>7, <1>8, <1>9 DEF ProfileInv

(* One sending moves on, and no revision is added.                         *)
LEMMA SendingPreserves ==
  ASSUME ProfileInv, NEW r \in Requests, NEW i \in Resends,
         NEW st, NEW d \in 0..MaxVersion, NEW n \in 0..MaxVersion,
         st \in {"lock", "write", "refused", "replayed", "done"}, Now(<<r, i>>, st, d, n),
         UNCHANGED <<profile, revisions, rowLocks, request, drafts>>,
         holder' \in Sendings \cup {Free},
         request[r].op # "none",
         st = "done" => FALSE,
         st = "replayed" => request[r].op # "replace" /\ n \in Known(r),
         st = "write" =>
            /\ n = request[r].version
            /\ request[r].op = "publish" => d = drafts[n] /\ d # 0
            /\ request[r].op = "rollback" => /\ drafts[n] = 0
                                             /\ request[r].source \in 1..Len(revisions)
                                             /\ d = revisions[request[r].source].document
  PROVE  ProfileInv'
<1> DEFINE s == <<r, i>>
           to == [stage |-> st, document |-> d, revision |-> n]
<1>1. s \in Sendings /\ run \in [Sendings -> RunState] BY DEF ProfileInv, ProfileTyped, Sendings
<1>2. to \in RunState BY DEF RunState
<1>3. /\ run' \in [Sendings -> RunState] /\ run'[s] = to
      /\ \A q \in Sendings \ {s} : run'[q] = run[q]
  BY <1>1, <1>2 DEF Now
<1>4. ProfileTyped' BY <1>3 DEF ProfileInv, ProfileTyped
<1>5. DraftsInv' /\ ApartInv' /\ \A k \in 1..Len(revisions') : RevisionInv(k)'
  BY DEF ProfileInv, DraftsInv, ApartInv, RevisionInv
<1>6. to.stage = st /\ to.document = d /\ to.revision = n OBVIOUS
<1> HIDE DEF to
<1>7. SendingInv(r, i)' BY <1>3, <1>6 DEF SendingInv, Known
<1>8. ASSUME NEW q \in Requests, NEW j \in Resends, <<q, j>> # s PROVE SendingInv(q, j)'
  <2>1. <<q, j>> \in Sendings BY DEF Sendings
  <2>2. run'[<<q, j>>] = run[<<q, j>>] /\ SendingInv(q, j) BY <1>3, <1>8, <2>1 DEF ProfileInv
  <2> QED BY <2>2 DEF SendingInv, Known
<1>9. ASSUME NEW q \in Requests, NEW j \in Resends PROVE SendingInv(q, j)'
  <2>1. CASE <<q, j>> # s BY <1>8, <2>1
  <2>2. CASE <<q, j>> = s
    <3>1. q = r /\ j = i BY <2>2
    <3> QED BY <1>7, <3>1
  <2> QED BY <2>1, <2>2
<1>10. \A q \in Requests : RequestInv(q)' BY DEF ProfileInv, RequestInv
<1> QED BY <1>4, <1>5, <1>9, <1>10 DEF ProfileInv

LEMMA BeginsPreserves ==
  ASSUME ProfileInv, NEW r \in Requests, NEW i \in Resends, Begins(<<r, i>>)
  PROVE  ProfileInv'
<1>0. MaxVersion \in Nat BY PresentationAssumption
<1>1. /\ request[r].op # "none" /\ UNCHANGED <<profile, revisions, rowLocks, holder, request, drafts>>
  BY DEF Begins
<1>2. holder' \in Sendings \cup {Free} BY <1>1 DEF ProfileInv, ProfileTyped
<1>3. CASE request[r].op # "replace" /\ Known(r) # {}
  <2>1. PICK n \in Known(r) : Now(<<r, i>>, "replayed", 0, n) BY <1>3 DEF Begins
  <2>2. n \in 0..MaxVersion
    BY <1>0, <2>1 DEF Known, ProfileInv, ProfileTyped, DraftsInv, ProfileState
  <2> QED BY <1>0, <1>1, <1>2, <1>3, <2>1, <2>2, SendingPreserves
<1>4. CASE ~(request[r].op # "replace" /\ Known(r) # {})
  <2>1. Now(<<r, i>>, "lock", 0, 0) BY <1>4 DEF Begins
  <2> QED BY <1>0, <1>1, <1>2, <2>1, SendingPreserves
<1> QED BY <1>3, <1>4

LEMMA LocksPreserves ==
  ASSUME ProfileInv, NEW r \in Requests, NEW i \in Resends, Locks(<<r, i>>)
  PROVE  ProfileInv'
<1> DEFINE s == <<r, i>>
<1>0. MaxVersion \in Nat BY PresentationAssumption
<1>1. s \in Sendings /\ request[r].op # "none"
  BY DEF ProfileInv, SendingInv, Locks, Sendings
<1>2. UNCHANGED <<profile, revisions, rowLocks, request, drafts>> BY DEF Locks
<1>3. /\ request[r] \in Asks /\ profile \in ProfileState /\ RequestInv(r)
      /\ revisions \in Seq(RevisionRow)
      /\ DraftsInv /\ holder \in Sendings \cup {Free}
  BY DEF ProfileInv, ProfileTyped
<1>4. CASE Now(s, "refused", 0, 0) /\ UNCHANGED holder
  BY <1>0, <1>1, <1>2, <1>3, <1>4, SendingPreserves
<1>5. CASE /\ Expected(r) /\ Admissible(r) /\ Now(s, "write", Document(r), profile.version)
           /\ holder' = IF rowLocks THEN s ELSE Free
  <2>1. request[r].version = profile.version BY <1>5 DEF Expected, SeenVersion
  <2>2. profile.version \in 0..MaxVersion /\ profile.version > 0
        /\ drafts[profile.version] = profile.draft
        /\ request[r].op \in {"replace", "publish", "rollback"}
    BY <1>0, <1>1, <1>3, <2>1 DEF RequestInv, DraftsInv, ProfileState, Asks
  <2>3. request[r].op = "publish" => Document(r) = drafts[profile.version] /\ Document(r) # 0
    BY <1>5, <2>2 DEF Admissible, Document
  <2>4. request[r].op = "rollback" => /\ drafts[profile.version] = 0
                                      /\ request[r].source \in 1..Len(revisions)
                                      /\ Document(r) = revisions[request[r].source].document
    BY <1>5, <2>2 DEF Admissible, Document
  <2>5. Document(r) \in 0..MaxVersion
    <3>1. CASE request[r].op = "replace" BY <1>0, <3>1 DEF Document
    <3>2. CASE request[r].op = "publish" BY <1>3, <3>2 DEF Document, ProfileState
    <3>3. CASE request[r].op = "rollback"
      <4>1. revisions[request[r].source] \in RevisionRow BY <1>3, <2>4, <3>3
      <4>2. revisions[request[r].source].document \in 1..MaxVersion BY <4>1 DEF RevisionRow
      <4> QED BY <1>0, <2>4, <3>3, <4>2
    <3> QED BY <2>2, <3>1, <3>2, <3>3
  <2>6. holder' \in Sendings \cup {Free} BY <1>1, <1>5
  <2> QED BY <1>1, <1>2, <1>5, <2>1, <2>2, <2>3, <2>4, <2>5, <2>6, SendingPreserves
<1> QED BY <1>4, <1>5 DEF Locks

(* A new version: the draft joins the history, and what is said of earlier *)
(* versions stays.                                                         *)
LEMMA VersionPreserves ==
  ASSUME ProfileInv, NEW d \in 0..MaxVersion, drafts' = Append(drafts, d),
         profile' \in ProfileState, profile'.version = profile.version + 1,
         profile'.draft = d,
         request' = request, rowLocks' = rowLocks, holder' \in Sendings \cup {Free},
         run' \in [Sendings -> RunState], revisions' \in Seq(RevisionRow),
         Len(revisions) <= Len(revisions'),
         \A n \in 1..Len(revisions) : revisions'[n] = revisions[n],
         profile'.published = Len(revisions'), profile'.published < profile'.version,
         d # 0 \/ profile'.published > 0
  PROVE  /\ ProfileTyped' /\ DraftsInv' /\ \A r \in Requests : RequestInv(r)'
         /\ \A n \in 1..Len(revisions) : RevisionInv(n)'
         /\ \A r \in Requests : \A i \in Resends :
              run'[<<r, i>>] = run[<<r, i>>] => SendingInv(r, i)'
<1>1. /\ drafts \in Seq(0..MaxVersion) /\ revisions \in Seq(RevisionRow)
      /\ profile \in ProfileState /\ DraftsInv /\ MaxVersion \in Nat
      /\ request \in [Requests -> Asks]
  BY PresentationAssumption DEF ProfileInv, ProfileTyped
<1>2. /\ drafts' \in Seq(0..MaxVersion) /\ Len(drafts') = Len(drafts) + 1
      /\ drafts'[Len(drafts) + 1] = d /\ \A n \in 1..Len(drafts) : drafts'[n] = drafts[n]
  BY ONLY <1>1, Appended, drafts' = Append(drafts, d), d \in 0..MaxVersion
<1>3. Len(drafts) \in Nat /\ Len(revisions) \in Nat /\ Len(revisions') \in Nat BY <1>1
<1>4. ProfileTyped' BY <1>2 DEF ProfileInv, ProfileTyped
<1>5. DraftsInv' BY <1>1, <1>2, <1>3 DEF DraftsInv, ProfileState
<1>6. \A r \in Requests : RequestInv(r)' BY <1>2, <1>3 DEF ProfileInv, RequestInv
<1>7. ASSUME NEW n \in 1..Len(revisions) PROVE RevisionInv(n)'
  <2>1. RevisionInv(n) /\ revisions'[n] = revisions[n] BY DEF ProfileInv
  <2>2. profile.version \in Nat BY <1>1 DEF ProfileState
  <2>3. revisions[n] \in RevisionRow BY <1>1
  <2>4. revisions[n].version \in 1..MaxVersion BY <2>3 DEF RevisionRow
  <2>5. revisions[n].version \in Nat BY <1>1, <2>4
  <2> DEFINE edition == revisions[n]
             asked == request[edition.key]
  <2>6. /\ edition.version <= profile.version
        /\ asked.op \in {"publish", "rollback"} /\ asked.version \in 1..Len(drafts)
        /\ edition.version = asked.version + 1
        /\ asked.op = "publish" => edition.document = drafts[asked.version]
        /\ asked.op = "rollback" => /\ drafts[asked.version] = 0
                                    /\ asked.source \in 1..Len(revisions)
                                    /\ edition.document = revisions[asked.source].document
    BY <2>1 DEF RevisionInv
  <2>7. revisions'[n] = edition /\ request'[edition.key] = asked BY <2>1
  <2> HIDE DEF edition, asked
  <2>8. edition.version <= profile'.version BY <2>2, <2>5, <2>6
  <2>9. asked.version \in 1..Len(drafts') /\ drafts'[asked.version] = drafts[asked.version]
    BY <1>2, <1>3, <2>6
  <2>10. asked.op = "rollback" => /\ asked.source \in 1..Len(revisions')
                                  /\ edition.document = revisions'[asked.source].document
    <3> SUFFICES ASSUME asked.op = "rollback"
                 PROVE  /\ asked.source \in 1..Len(revisions')
                        /\ edition.document = revisions'[asked.source].document
      OBVIOUS
    <3>1. asked.source \in 1..Len(revisions) /\ edition.document = revisions[asked.source].document
      BY <2>6
    <3>2. revisions'[asked.source] = revisions[asked.source] BY <3>1
    <3>3. asked.source \in 1..Len(revisions') BY <1>3, <3>1
    <3> QED BY <3>1, <3>2, <3>3
  <2> QED BY ONLY <2>6, <2>7, <2>8, <2>9, <2>10 DEF RevisionInv
<1>8. ASSUME NEW r \in Requests, NEW i \in Resends, run'[<<r, i>>] = run[<<r, i>>]
      PROVE  SendingInv(r, i)'
  <2>1. SendingInv(r, i) /\ RequestInv(r) BY DEF ProfileInv
  <2>2. Known(r) \subseteq Known(r)' BY <1>3 DEF Known
  <2>3. request[r].version \in 1..Len(drafts) \/ request[r].op = "none" BY <2>1 DEF RequestInv
  <2> QED BY <1>2, <1>3, <1>8, <2>1, <2>2, <2>3 DEF SendingInv
<1> QED BY <1>4, <1>5, <1>6, <1>7, <1>8

LEMMA WrittenPreserves ==
  ASSUME ProfileInv, NEW r \in Requests, NEW i \in Resends,
         run[<<r, i>>].stage = "write", Conditional(<<r, i>>), Changes(<<r, i>>),
         drafts' = Append(drafts, profile'.draft), UNCHANGED <<rowLocks, request>>,
         holder' \in Sendings \cup {Free}
  PROVE  ProfileInv'
<1> DEFINE s == <<r, i>>
<1>1. /\ s \in Sendings /\ run \in [Sendings -> RunState] /\ run[s] \in RunState
      /\ profile \in ProfileState /\ DraftsInv /\ RequestInv(r) /\ SendingInv(r, i)
      /\ revisions \in Seq(RevisionRow) /\ request[r] \in Asks
      /\ MaxVersion \in Nat \ {0}
  BY PresentationAssumption DEF ProfileInv, ProfileTyped, Sendings
<1>2. /\ profile.version \in 0..MaxVersion /\ profile.published \in 0..MaxVersion
      /\ profile.draft \in 0..MaxVersion
  BY <1>1 DEF ProfileState
<1>3. /\ request[r].op \in {"replace", "publish", "rollback"} /\ profile.version < MaxVersion
      /\ run[s].revision = profile.version /\ request[r].version = profile.version
      /\ profile.version > 0 /\ profile.published < profile.version
  BY <1>1, <1>2 DEF SendingInv, Asks, Changes, Conditional, Updates, RequestInv, DraftsInv
<1>4. CASE request[r].op = "replace"
  <2>1. /\ profile' = [profile EXCEPT !.version = NextVersion, !.draft = NextVersion]
        /\ revisions' = revisions /\ Now(s, "done", 0, 0)
    BY <1>4 DEF Changes
  <2>2. /\ profile' \in ProfileState /\ profile'.version = profile.version + 1
        /\ profile'.draft = profile.version + 1 /\ profile'.published = profile.published
    <3>1. profile.version + 1 \in 0..MaxVersion BY <1>1, <1>2, <1>3
    <3> QED BY <1>1, <1>2, <2>1, <3>1 DEF NextVersion, ProfileState
  <2> DEFINE to == [stage |-> "done", document |-> 0, revision |-> 0]
  <2>3. to \in RunState BY <1>1 DEF RunState
  <2>4. /\ run' \in [Sendings -> RunState] /\ run'[s] = to
        /\ \A q \in Sendings \ {s} : run'[q] = run[q]
    BY <1>1, <2>1, <2>3 DEF Now
  <2>5. to.stage = "done" /\ to.revision = 0 OBVIOUS
  <2> HIDE DEF to
  <2>6. /\ Len(revisions) <= Len(revisions')
        /\ \A n \in 1..Len(revisions) : revisions'[n] = revisions[n]
    BY <1>1, <2>1
  <2>7. profile'.draft \in 0..MaxVersion /\ profile'.draft # 0 BY <1>1, <1>2, <1>3, <2>2
  <2>8. profile'.published = Len(revisions') /\ profile'.published < profile'.version
    BY <1>1, <1>2, <1>3, <2>1, <2>2 DEF DraftsInv
  <2>9. /\ ProfileTyped' /\ DraftsInv' /\ \A q \in Requests : RequestInv(q)'
        /\ \A n \in 1..Len(revisions) : RevisionInv(n)'
        /\ \A q \in Requests : \A j \in Resends :
             run'[<<q, j>>] = run[<<q, j>>] => SendingInv(q, j)'
    BY <1>1, <2>1, <2>2, <2>4, <2>6, <2>7, <2>8, VersionPreserves
  <2>10. ApartInv' BY <2>1 DEF ApartInv, ProfileInv
  <2>11. SendingInv(r, i)' BY <1>4, <2>4, <2>5 DEF SendingInv
  <2>12. ASSUME NEW q \in Requests, NEW j \in Resends PROVE SendingInv(q, j)'
    <3>1. CASE <<q, j>> = s
      <4>1. q = r /\ j = i BY <3>1
      <4> QED BY <2>11, <4>1
    <3>2. CASE <<q, j>> # s
      <4>1. <<q, j>> \in Sendings BY DEF Sendings
      <4> QED BY <2>4, <2>9, <3>2, <4>1
    <3> QED BY <3>1, <3>2
  <2> QED BY <2>1, <2>9, <2>10, <2>12 DEF ProfileInv
<1>5. CASE request[r].op # "replace"
  <2>0. PICK n \in Nat : n = Len(revisions) + 1 BY <1>1
  <2> USE <2>0
  <2> DEFINE edition == [document |-> run[s].document, version |-> NextVersion, key |-> r,
                     source |-> request[r].source]
             to == [stage |-> "done", document |-> 0, revision |-> n]
  <2>1. /\ profile' = [version |-> NextVersion, draft |-> 0, published |-> profile.published + 1]
        /\ revisions' = Append(revisions, edition) /\ Now(s, "done", 0, profile.published + 1)
        /\ Known(r) = {}
    BY <1>5 DEF Changes, Unique
  <2>2. /\ profile' \in ProfileState /\ profile'.version = profile.version + 1
        /\ profile'.draft = 0 /\ profile'.published = profile.published + 1
        /\ 0 \in 0..MaxVersion
    BY <1>1, <1>2, <1>3, <2>1 DEF NextVersion, ProfileState
  <2>3. n = profile.published + 1 /\ n \in 1..MaxVersion /\ Len(revisions) \in Nat
    BY <1>1, <1>2, <1>3, <2>0 DEF DraftsInv
  <2>4. to \in RunState BY <1>1, <2>3 DEF RunState
  <2>5. Now(s, "done", 0, n) BY <2>1, <2>3
  <2>6. /\ run' \in [Sendings -> RunState] /\ run'[s] = to
        /\ \A q \in Sendings \ {s} : run'[q] = run[q]
    BY <1>1, <2>4, <2>5 DEF Now
  <2>7. run[s].document \in 1..MaxVersion
    <3>1. run[s].document \in 0..MaxVersion BY <1>1 DEF RunState
    <3>2. CASE request[r].op = "publish" BY <1>1, <3>1, <3>2 DEF SendingInv
    <3>3. CASE request[r].op = "rollback"
      <4>1. request[r].source \in 1..Len(revisions)
            /\ run[s].document = revisions[request[r].source].document
        BY <1>1, <3>3 DEF SendingInv
      <4>2. revisions[request[r].source] \in RevisionRow BY <1>1, <4>1
      <4> QED BY <4>1, <4>2 DEF RevisionRow
    <3> QED BY <1>3, <1>5, <3>2, <3>3
  <2>8. edition \in RevisionRow
    BY <1>1, <1>2, <1>3, <2>7 DEF RevisionRow, NextVersion, Asks
  <2>9. /\ edition.document = run[s].document /\ edition.version = profile.version + 1 /\ edition.key = r
        /\ edition.source = request[r].source /\ to.stage = "done" /\ to.revision = n
    BY DEF NextVersion
  <2> HIDE DEF edition, to
  <2>10. /\ revisions' \in Seq(RevisionRow) /\ Len(revisions') = n /\ revisions'[n] = edition
         /\ \A m \in 1..Len(revisions) : revisions'[m] = revisions[m]
    BY ONLY <1>1, <2>0, <2>1, <2>8, Appended
  <2>11. /\ ProfileTyped' /\ DraftsInv' /\ \A q \in Requests : RequestInv(q)'
         /\ \A m \in 1..Len(revisions) : RevisionInv(m)'
         /\ \A q \in Requests : \A j \in Resends :
              run'[<<q, j>>] = run[<<q, j>>] => SendingInv(q, j)'
    <3>1. Len(revisions) <= Len(revisions') /\ profile'.published = Len(revisions')
          /\ profile'.published < profile'.version /\ profile'.published > 0
      BY <1>2, <1>3, <2>2, <2>3, <2>10
    <3> QED BY <1>1, <2>2, <2>6, <2>10, <3>1, VersionPreserves
  <2>12. /\ drafts \in Seq(0..MaxVersion) /\ drafts' \in Seq(0..MaxVersion)
         /\ Len(drafts) = profile.version
         /\ Len(drafts') = profile.version + 1
         /\ \A m \in 1..Len(drafts) : drafts'[m] = drafts[m]
    <3>1. drafts \in Seq(0..MaxVersion) /\ Len(drafts) = profile.version
      BY <1>1 DEF ProfileInv, ProfileTyped, DraftsInv
    <3>2. drafts' = Append(drafts, 0) BY <2>2
    <3> QED BY ONLY <2>2, <3>1, <3>2, Appended
  <2>13. ApartInv'
    <3> SUFFICES ASSUME NEW a \in 1..n, NEW b \in 1..n, a < b
                 PROVE  /\ revisions'[a].version < revisions'[b].version
                        /\ revisions'[a].key # revisions'[b].key
      BY <2>10 DEF ApartInv
    <3>1. a \in 1..Len(revisions) /\ revisions'[a] = revisions[a]
      <4>1. a \in 1..Len(revisions) BY <2>3
      <4> QED BY <2>10, <4>1
    <3>2. RevisionInv(a) BY <3>1 DEF ProfileInv
    <3>3. revisions[a].version <= profile.version BY <3>2 DEF RevisionInv
    <3>4. revisions[a] \in RevisionRow BY <1>1, <3>1
    <3>5. revisions[a].version \in Nat
      <4>1. revisions[a].version \in 1..MaxVersion BY <3>4 DEF RevisionRow
      <4> QED BY <1>1, <4>1
    <3>6. CASE b = n
      <4>1. revisions[a].key # r BY <2>1, <3>1 DEF Known
      <4> QED BY <1>2, <2>9, <2>10, <3>1, <3>3, <3>5, <3>6, <4>1
    <3>7. CASE b # n
      <4>1. b \in 1..Len(revisions) /\ revisions'[b] = revisions[b] BY <2>3, <2>10, <3>7
      <4> QED BY <3>1, <4>1 DEF ProfileInv, ApartInv
    <3> QED BY <3>6, <3>7
  <2>14. RevisionInv(n)'
    <3>1. /\ revisions'[n] = edition /\ request' = request BY <2>10
    <3>2. /\ request[r].op \in {"publish", "rollback"}
          /\ request[r].version = profile.version /\ profile.version \in 1..Len(drafts)
      BY <1>2, <1>3, <1>5, <2>12
    <3>3. edition.version <= profile'.version BY <1>2, <2>2, <2>9
    <3>4. request[r].op = "publish" => edition.document = drafts'[profile.version]
      BY <1>1, <1>3, <2>9, <2>12, <3>2 DEF SendingInv
    <3>5. request[r].op = "rollback" => /\ drafts'[profile.version] = 0
                                        /\ request[r].source \in 1..Len(revisions)
                                        /\ edition.document = revisions[request[r].source].document
      BY <1>1, <1>3, <2>9, <2>12, <3>2 DEF SendingInv
    <3>6. request[r].op = "rollback" => /\ request[r].source \in 1..n
                    /\ edition.document = revisions'[request[r].source].document
      BY <2>3, <2>10, <3>5
    <3>7. profile.version \in 1..Len(drafts') BY <1>2, <1>3, <2>12
    <3>8. /\ revisions'[n].version = request[r].version + 1
          /\ revisions'[n].document = edition.document /\ request'[revisions'[n].key] = request[r]
          /\ revisions'[n].version = edition.version
      BY <2>9, <3>1, <3>2
    <3>9. request[r].version \in 1..Len(drafts') BY <3>2, <3>7
    <3>10. request[r].op = "publish" => edition.document = drafts'[request[r].version]
      BY <3>2, <3>4
    <3>11. request[r].op = "rollback" => /\ drafts'[request[r].version] = 0
                     /\ request[r].source \in 1..Len(revisions')
                     /\ edition.document = revisions'[request[r].source].document
      BY <2>10, <3>2, <3>5, <3>6
    <3> QED BY ONLY <3>2, <3>3, <3>8, <3>9, <3>10, <3>11 DEF RevisionInv
  <2>15. SendingInv(r, i)'
    <3>1. n \in Known(r)' BY <2>3, <2>9, <2>10 DEF Known
    <3> QED BY <1>3, <1>5, <2>6, <2>9, <3>1 DEF SendingInv
  <2>16. ASSUME NEW q \in Requests, NEW j \in Resends PROVE SendingInv(q, j)'
    <3>1. CASE <<q, j>> = s
      <4>1. q = r /\ j = i BY <3>1
      <4> QED BY <2>15, <4>1
    <3>2. CASE <<q, j>> # s
      <4>1. <<q, j>> \in Sendings BY DEF Sendings
      <4> QED BY <2>6, <2>11, <3>2, <4>1
    <3> QED BY <3>1, <3>2
  <2>17. \A m \in 1..Len(revisions') : RevisionInv(m)'
    <3>1. \A m \in 1..Len(revisions') : m \in 1..Len(revisions) \/ m = n BY <2>3, <2>10
    <3> QED BY ONLY <2>11, <2>14, <3>1
  <2> QED BY <2>11, <2>13, <2>16, <2>17 DEF ProfileInv
<1> QED BY <1>4, <1>5

LEMMA WritePreserves ==
  ASSUME ProfileInv, NEW r \in Requests, NEW i \in Resends, WritesChange(<<r, i>>)
  PROVE  ProfileInv'
<1> DEFINE s == <<r, i>>
<1>1. /\ run[s].stage = "write" /\ UNCHANGED <<rowLocks, request>>
      /\ holder' = IF holder = s THEN Free ELSE holder
  BY DEF WritesChange
<1>2. holder' \in Sendings \cup {Free} BY <1>1 DEF ProfileInv, ProfileTyped
<1>3. CASE Now(s, "refused", 0, 0) /\ UNCHANGED <<profile, revisions, drafts>>
  <2>1. request[r].op # "none" BY <1>1 DEF ProfileInv, SendingInv
  <2>2. 0 \in 0..MaxVersion BY PresentationAssumption
  <2> QED BY <1>1, <1>2, <1>3, <2>1, <2>2, SendingPreserves
<1>4. CASE Conditional(s) /\ Changes(s) /\ drafts' = Append(drafts, profile'.draft)
  BY <1>1, <1>2, <1>4, WrittenPreserves
<1> QED BY <1>3, <1>4 DEF WritesChange

LEMMA DecidesPreserves ==
  ASSUME ProfileInv, NEW r \in Requests, Decides(r)
  PROVE  ProfileInv'
<1>1. /\ request \in [Requests -> Asks] /\ profile \in ProfileState /\ DraftsInv
      /\ MaxVersion \in Nat /\ revisions \in Seq(RevisionRow)
  BY PresentationAssumption DEF ProfileInv, ProfileTyped
<1>2. /\ request[r].op = "none" /\ profile.version > 0
      /\ UNCHANGED <<profile, revisions, rowLocks, holder, run, drafts>>
  BY DEF Decides
<1>3. PICK v \in 1..profile.version, op \in {"replace", "publish", "rollback"} :
        \E src \in IF op = "rollback" THEN 1..(Len(revisions) + 1) ELSE {0} :
           request' = [request EXCEPT ![r] = [op |-> op, version |-> v, source |-> src]]
  BY DEF Decides
<1>4. PICK src \in IF op = "rollback" THEN 1..(Len(revisions) + 1) ELSE {0} :
        request' = [request EXCEPT ![r] = [op |-> op, version |-> v, source |-> src]]
  BY <1>3
<1> DEFINE to == [op |-> op, version |-> v, source |-> src]
<1>5. /\ v \in 0..MaxVersion /\ v \in 1..Len(drafts) /\ src \in 0..MaxVersion
  BY <1>1, <1>2 DEF ProfileState, DraftsInv
<1>6. to \in Asks /\ to.version = v BY <1>5 DEF Asks
<1> HIDE DEF to
<1>7. /\ request' \in [Requests -> Asks] /\ request'[r] = to
      /\ \A q \in Requests \ {r} : request'[q] = request[q]
  BY <1>1, <1>4, <1>6 DEF to
<1>8. ProfileTyped' /\ DraftsInv' /\ ApartInv'
  BY <1>2, <1>7 DEF ProfileInv, ProfileTyped, DraftsInv, ApartInv
<1>9. ASSUME NEW n \in 1..Len(revisions') PROVE RevisionInv(n)'
  <2>1. RevisionInv(n) BY <1>2 DEF ProfileInv
  <2>2. revisions[n] \in RevisionRow BY <1>1, <1>2
  <2>3. revisions[n].key \in Requests \ {r} BY <1>2, <2>1, <2>2 DEF RevisionInv, RevisionRow
  <2>4. request'[revisions[n].key] = request[revisions[n].key] BY <1>7, <2>3
  <2> QED BY <1>2, <2>1, <2>4 DEF RevisionInv
<1>10. ASSUME NEW q \in Requests PROVE RequestInv(q)'
  BY <1>2, <1>5, <1>6, <1>7 DEF ProfileInv, RequestInv
<1>11. ASSUME NEW q \in Requests, NEW j \in Resends PROVE SendingInv(q, j)'
  <2>1. SendingInv(q, j) BY DEF ProfileInv
  <2>2. CASE q = r
    <3>1. run[<<q, j>>].stage = "idle" BY <1>2, <2>1, <2>2 DEF SendingInv
    <3> QED BY <1>2, <3>1 DEF SendingInv
  <2>3. CASE q # r
    <3>1. request'[q] = request[q] BY <1>7, <2>3
    <3> QED BY <1>2, <2>1, <3>1 DEF SendingInv, Known
  <2> QED BY <2>2, <2>3
<1> QED BY <1>2, <1>8, <1>9, <1>10, <1>11 DEF ProfileInv

LEMMA CreatePreserves ==
  ASSUME ProfileInv, CreateDraft
  PROVE  ProfileInv'
<1>1. /\ profile \in ProfileState /\ DraftsInv /\ MaxVersion \in Nat \ {0}
      /\ revisions \in Seq(RevisionRow) /\ drafts \in Seq(0..MaxVersion)
  BY PresentationAssumption DEF ProfileInv, ProfileTyped
<1>2. /\ profile.version = 0 /\ profile' = [version |-> 1, draft |-> 1, published |-> 0]
      /\ drafts' = <<1>> /\ UNCHANGED <<revisions, rowLocks, holder, request, run>>
  BY DEF CreateDraft
<1>3. Len(drafts) = 0 /\ Len(revisions) = 0 BY <1>1, <1>2 DEF DraftsInv, ProfileState
<1>4. ASSUME NEW r \in Requests PROVE request[r].op = "none"
  <2>1. RequestInv(r) BY DEF ProfileInv
  <2>2. ~ \E n \in 1..Len(drafts) : TRUE BY <1>3
  <2> QED BY <2>1, <2>2 DEF RequestInv
<1>5. \A r \in Requests : \A i \in Resends : run[<<r, i>>].stage = "idle"
  BY <1>4 DEF ProfileInv, SendingInv
<1>6. profile' \in ProfileState /\ drafts' \in Seq(0..MaxVersion)
  BY <1>1, <1>2 DEF ProfileState
<1>7. ProfileTyped' BY <1>2, <1>6 DEF ProfileInv, ProfileTyped
<1>8. DraftsInv' BY <1>2, <1>3 DEF DraftsInv
<1>9. ApartInv' /\ \A n \in 1..Len(revisions') : RevisionInv(n)' BY <1>2, <1>3 DEF ApartInv
<1>10. \A r \in Requests : RequestInv(r)' /\ \A i \in Resends : SendingInv(r, i)'
  BY <1>2, <1>4, <1>5 DEF RequestInv, SendingInv
<1> QED BY <1>7, <1>8, <1>9, <1>10 DEF ProfileInv

LEMMA ProfileStepPreserves ==
  ProfileInv /\ [PresentationNext]_presentationVars => ProfileInv'
<1> SUFFICES ASSUME ProfileInv, [PresentationNext]_presentationVars PROVE ProfileInv'
  OBVIOUS
<1>1. CASE UNCHANGED presentationVars
  BY <1>1 DEF presentationVars, ProfileInv, ProfileTyped, DraftsInv, ApartInv, RevisionInv,
     RequestInv,
              SendingInv, Known
<1>2. CASE PresentationNext
  <2>1. ASSUME NEW s \in Sendings, Begins(s) \/ Locks(s) \/ WritesChange(s)
        PROVE  ProfileInv'
    <3>1. PICK r \in Requests, i \in Resends : s = <<r, i>> BY DEF Sendings
    <3> QED BY <2>1, <3>1, BeginsPreserves, LocksPreserves, WritePreserves
  <2> QED BY <1>2, <2>1, CreatePreserves, DecidesPreserves DEF PresentationNext
<1> QED BY <1>1, <1>2

LEMMA ProfileInvIsSound == ProfileInv => PresentationTypeOK /\ ProfileIsSound
<1> SUFFICES ASSUME ProfileInv PROVE PresentationTypeOK /\ ProfileIsSound
  OBVIOUS
<1>1. PresentationTypeOK
  <2>1. drafts \in [1..profile.version -> 0..MaxVersion]
    <3>1. drafts \in Seq(0..MaxVersion) /\ Len(drafts) = profile.version
      BY DEF ProfileInv, ProfileTyped, DraftsInv
    <3>2. drafts \in [1..Len(drafts) -> 0..MaxVersion] BY ONLY <3>1, LenProperties
    <3> QED BY <3>1, <3>2
  <2> QED BY <2>1 DEF ProfileInv, ProfileTyped, PresentationTypeOK, ProfileState, RevisionRow,
                     RunState
<1>2. HistoryIsSound BY DEF ProfileInv, DraftsInv, ApartInv, HistoryIsSound
<1>3. PublishesWhatWasSeen BY DEF ProfileInv, RevisionInv, PublishesWhatWasSeen
<1>4. AnswersAgree
  <2> SUFFICES ASSUME NEW r \in Requests, NEW i \in Resends, NEW j \in Resends,
                      run[<<r, i>>].stage \in {"done", "replayed"}
               PROVE  /\ request[r].op # "replace" => run[<<r, i>>].revision \in Known(r)
                      /\ run[<<r, j>>].stage \in {"done", "replayed"}
                           => run[<<r, i>>].revision = run[<<r, j>>].revision
    BY DEF AnswersAgree
  <2>1. SendingInv(r, i) /\ SendingInv(r, j) BY DEF ProfileInv
  <2>2. ASSUME NEW m \in Known(r), NEW n \in Known(r) PROVE m = n
    <3>1. revisions \in Seq(RevisionRow) BY DEF ProfileInv, ProfileTyped
    <3>2. m \in 1..Len(revisions) /\ n \in 1..Len(revisions)
          /\ revisions[m].key = revisions[n].key
      BY DEF Known
    <3>3. ~(m < n) /\ ~(n < m) BY <3>2 DEF ProfileInv, ApartInv
    <3>4. Len(revisions) \in Nat BY <3>1
    <3> QED BY <3>2, <3>3, <3>4
  <2> QED BY <2>1, <2>2 DEF SendingInv
<1> QED BY <1>1, <1>2, <1>3, <1>4 DEF ProfileIsSound

(* However clients replace, publish and roll back, and however often they  *)
(* send a request again: the revisions are published once each, from what  *)
(* their request saw, and every sending is answered with the same one.     *)
THEOREM ProfileSafe == PresentationSpec => [](PresentationTypeOK /\ ProfileIsSound)
<1> QED BY ProfileInitially, ProfileStepPreserves, ProfileInvIsSound, PTL DEF PresentationSpec

-----------------------------------------------------------------------------
(* The tree of departments.                                                *)

AskState == [stage : {"idle", "load", "walk", "count", "save", "check", "delete", "done",
                      "refused"},
             op : {"none", "create", "update", "delete", "scope"},
             target : Departments \cup {0}, parent : Departments \cup {0}, enabled : BOOLEAN,
             set : SUBSET Departments, at : Departments \cup {0}, visited : SUBSET Departments,
             late : BOOLEAN]
TreeState == [there : BOOLEAN, parent : Departments \cup {0}, enabled : BOOLEAN]
HierarchyTyped ==
  /\ tree \in [Departments -> TreeState] /\ scopes \in SUBSET Departments
  /\ overlapped \in BOOLEAN /\ ask \in [Requesters -> AskState]

(* What a request that no change has overtaken found out: the ancestors it *)
(* walked over lead from the parent it asks for to the one it is at, and   *)
(* the department itself is none of them; ...                              *)
WalkInv(r) ==
  ask[r].op \in {"create", "update"} /\ ask[r].stage \in {"load", "walk", "save"} =>
    /\ ask[r].target \in Departments /\ ask[r].target \notin ask[r].visited
    /\ ask[r].op = "create" => ask[r].target \notin Live
    /\ ask[r].visited \subseteq Live
    /\ ask[r].parent \in ask[r].visited \cup {ask[r].at}
    /\ \A d \in ask[r].visited : tree[d].parent \in ask[r].visited \cup {ask[r].at}
    /\ ask[r].stage = "save" => ask[r].at = 0
(* ... the departments of the scope are there; those to delete are, and    *)
(* nothing refers to them.                                                 *)
SetInv(r) ==
  /\ ask[r].op = "scope" /\ ask[r].stage = "save" => ask[r].set \subseteq Live
  /\ ask[r].stage = "delete" =>
       /\ ask[r].op = "delete" /\ ask[r].set \subseteq Live
       /\ OutsideChildren(ask[r].set) = {} /\ ask[r].set \cap scopes = {}
(* Which stages an operation passes.                                       *)
StageInv(r) ==
  /\ ask[r].stage = "save" => ask[r].op \in {"create", "update", "scope"}
  /\ ask[r].stage \in {"load", "walk"} => ask[r].op \in {"create", "update"}
  /\ ask[r].stage = "count" => ask[r].op = "scope"
  /\ ask[r].stage = "check" => ask[r].op = "delete"
HierarchyInv ==
  /\ HierarchyTyped /\ TreeIsSound
  /\ \A r \in Requesters : StageInv(r) /\ (ask[r].late \/ (WalkInv(r) /\ SetInv(r)))

LEMMA HierarchyInitially == HierarchyInit => HierarchyInv
<1> SUFFICES ASSUME HierarchyInit PROVE HierarchyInv
  OBVIOUS
<1>1. HierarchyTyped
  <2>1. 0 \in Departments \cup {0} /\ Absent \in TreeState /\ FreshAsk \in AskState
    BY DEF Absent, TreeState, FreshAsk, AskState
  <2>2. [there : {TRUE}, parent : Departments \cup {0}, enabled : {TRUE}] \subseteq TreeState
    BY DEF TreeState
  <2> QED BY <2>1, <2>2 DEF HierarchyInit, HierarchyTyped
<1>2. TreeIsSound BY DEF HierarchyInit, TreeIsSound
<1>3. \A r \in Requesters : ask[r] = FreshAsk BY DEF HierarchyInit
<1> QED BY <1>1, <1>2, <1>3 DEF HierarchyInv, StageInv, WalkInv, SetInv, FreshAsk

(* A request moves on and the others stay: it has to keep what it found.   *)
LEMMA AskPreserves ==
  ASSUME HierarchyInv, NEW r \in Requesters, NEW to \in AskState,
         ask' = [ask EXCEPT ![r] = to], UNCHANGED <<tree, scopes, overlapped>>,
         StageInv(r)', to.late \/ (WalkInv(r)' /\ SetInv(r)')
  PROVE  HierarchyInv'
<1>1. ask \in [Requesters -> AskState] BY DEF HierarchyInv, HierarchyTyped
<1>2. ask'[r] = to /\ \A q \in Requesters \ {r} : ask'[q] = ask[q] BY <1>1
<1>3. HierarchyTyped' BY <1>1 DEF HierarchyInv, HierarchyTyped
<1>4. TreeIsSound' BY DEF HierarchyInv, TreeIsSound, Rooted, Live
<1>5. \A q \in Requesters \ {r} :
         StageInv(q)' /\ (ask'[q].late \/ (WalkInv(q)' /\ SetInv(q)'))
  BY <1>2 DEF HierarchyInv, StageInv, WalkInv, SetInv, Live, OutsideChildren, Children
<1> QED BY <1>2, <1>3, <1>4, <1>5 DEF HierarchyInv

(* A request that walks adds an ancestor that is there and is not the      *)
(* department itself.                                                      *)
LEMMA WalkPreserves ==
  ASSUME HierarchyInv, NEW r \in Requesters, Walks(r)
  PROVE  HierarchyInv'
<1>1. ask \in [Requesters -> AskState] /\ tree \in [Departments -> TreeState]
  BY DEF HierarchyInv, HierarchyTyped
<1>2. ask[r].stage = "walk" /\ UNCHANGED <<tree, scopes, overlapped>> BY DEF Walks
<1>3. /\ StageInv(r) /\ ask[r].op \in {"create", "update"} /\ ask[r] \in AskState
      /\ ask[r].late \/ WalkInv(r)
  BY <1>1, <1>2 DEF HierarchyInv, StageInv
<1>4. CASE ask[r].at = 0 /\ Proceeds(r, "save")
  <2> DEFINE to == [ask[r] EXCEPT !.stage = "save"]
  <2>1. to \in AskState BY <1>3 DEF AskState
  <2>2. ask' = [ask EXCEPT ![r] = to] BY <1>4 DEF Proceeds
  <2>3. ask'[r] = to BY <1>1, <2>2
  <2>4. StageInv(r)' BY <1>3, <2>3 DEF StageInv, AskState
  <2>5. to.late \/ (WalkInv(r)' /\ SetInv(r)')
    BY <1>2, <1>3, <1>4, <2>3 DEF WalkInv, SetInv, Live, AskState
  <2> HIDE DEF to
  <2> QED BY <1>2, <2>1, <2>2, <2>4, <2>5, AskPreserves
<1>5. CASE Proceeds(r, "refused")
  <2> DEFINE to == [ask[r] EXCEPT !.stage = "refused"]
  <2>1. to \in AskState BY <1>3 DEF AskState
  <2>2. ask' = [ask EXCEPT ![r] = to] BY <1>5 DEF Proceeds
  <2>3. ask'[r] = to BY <1>1, <2>2
  <2>4. StageInv(r)' BY <1>3, <2>3 DEF StageInv, AskState
  <2>5. WalkInv(r)' /\ SetInv(r)' BY <1>3, <2>3 DEF WalkInv, SetInv, AskState
  <2> HIDE DEF to
  <2> QED BY <1>2, <2>1, <2>2, <2>4, <2>5, AskPreserves
<1>6. CASE /\ ask[r].at # 0 /\ ~Cycles(r) /\ ask[r].at \notin ask[r].visited
           /\ tree[ask[r].at].there /\ tree[ask[r].at].enabled
           /\ ask' = [ask EXCEPT ![r].at = tree[ask[r].at].parent,
                                 ![r].visited = @ \cup {ask[r].at}]
  <2> DEFINE d == ask[r].at
             to == [ask[r] EXCEPT !.at = tree[d].parent, !.visited = @ \cup {d}]
  <2>1. d \in Departments /\ tree[d] \in TreeState /\ d \in Live
    BY <1>1, <1>3, <1>6 DEF AskState, Live
  <2>2. to \in AskState BY <1>3, <2>1 DEF AskState, TreeState
  <2>3. ask' = [ask EXCEPT ![r] = to] BY <1>1, <1>6 DEF AskState
  <2>4. ask'[r] = to BY <1>1, <2>3
  <2>5. /\ to.stage = "walk" /\ to.op = ask[r].op /\ to.target = ask[r].target
        /\ to.parent = ask[r].parent /\ to.late = ask[r].late
        /\ to.at = tree[d].parent /\ to.visited = ask[r].visited \cup {d}
    BY <1>2, <1>3 DEF AskState
  <2>6. StageInv(r)' BY <1>3, <2>4, <2>5 DEF StageInv
  <2>7. ASSUME ~ask[r].late PROVE WalkInv(r)'
    <3>1. WalkInv(r) BY <1>3, <2>7
    <3>2. ask[r].target \notin to.visited
      BY <1>2, <1>3, <1>6, <2>1, <2>5, <3>1 DEF WalkInv, Cycles, Itself
    <3>3. Live' = Live BY <1>2 DEF Live
    <3> QED BY <1>2, <1>3, <2>1, <2>4, <2>5, <3>1, <3>2, <3>3 DEF WalkInv
  <2>8. SetInv(r)' BY <1>3, <2>4, <2>5 DEF SetInv
  <2> HIDE DEF to
  <2> QED BY <1>2, <2>2, <2>3, <2>5, <2>6, <2>7, <2>8, AskPreserves
<1> QED BY <1>4, <1>5, <1>6 DEF Walks

(* The steps before that, and those that only look at a set.               *)
LEMMA LookPreserves ==
  ASSUME HierarchyInv, NEW r \in Requesters,
         Arrives(r) \/ LoadsFirst(r) \/ Counts(r) \/ Checks(r)
  PROVE  HierarchyInv'
<1>1. ask \in [Requesters -> AskState] /\ ask[r] \in AskState
      /\ StageInv(r) /\ (ask[r].late \/ (WalkInv(r) /\ SetInv(r)))
  BY DEF HierarchyInv, HierarchyTyped
<1>2. UNCHANGED <<tree, scopes, overlapped>> BY DEF Arrives, LoadsFirst, Counts, Checks
<1>3. Live' = Live /\ Live \subseteq Departments BY <1>2 DEF Live
<1>4. ASSUME NEW to \in AskState, ask' = [ask EXCEPT ![r] = to], StageInv(r)',
             to.late \/ (WalkInv(r)' /\ SetInv(r)')
      PROVE  HierarchyInv'
  BY <1>2, <1>4, AskPreserves
<1>5. ASSUME NEW s \in {"load", "walk", "save", "delete", "refused"},
             Proceeds(r, s),
             s = "walk" => ask[r].stage = "load",
             s = "save" => ask[r].stage = "count" /\ (ask[r].set \subseteq Live),
             s = "delete" => /\ ask[r].stage = "check" /\ ask[r].set \subseteq Live
                             /\ OutsideChildren(ask[r].set) = {} /\ ask[r].set \cap scopes = {},
             s # "load"
      PROVE  HierarchyInv'
  <2> DEFINE to == [ask[r] EXCEPT !.stage = s]
  <2>1. to \in AskState BY <1>1 DEF AskState
  <2>2. ask' = [ask EXCEPT ![r] = to] BY <1>5 DEF Proceeds
  <2>3. ask'[r] = to BY <1>1, <2>2
  <2>4. /\ to.stage = s /\ to.op = ask[r].op /\ to.target = ask[r].target
        /\ to.parent = ask[r].parent /\ to.late = ask[r].late /\ to.set = ask[r].set
        /\ to.at = ask[r].at /\ to.visited = ask[r].visited
    BY <1>1 DEF AskState
  <2> HIDE DEF to
  <2>5. StageInv(r)' BY <1>1, <1>5, <2>3, <2>4 DEF StageInv
  <2>6. ask[r].late \/ WalkInv(r)' BY <1>1, <1>2, <1>3, <1>5, <2>3, <2>4 DEF WalkInv, StageInv
  <2>7. (OutsideChildren(ask[r].set))' = OutsideChildren(ask'[r].set)
    BY <1>2, <1>3, <2>3, <2>4 DEF OutsideChildren, Children
  <2>8. ask[r].late \/ SetInv(r)'
    BY <1>1, <1>2, <1>3, <1>5, <2>3, <2>4 DEF SetInv, StageInv, OutsideChildren, Children
  <2> QED BY <1>4, <2>1, <2>2, <2>4, <2>5, <2>6, <2>8
<1>6. CASE LoadsFirst(r) BY <1>5, <1>6 DEF LoadsFirst
<1>7. CASE Counts(r) BY <1>1, <1>5, <1>7 DEF Counts, AllEnabled, Live, AskState
<1>8. CASE Checks(r) BY <1>5, <1>8 DEF Checks, ExternalChildren, Referenced, InScopes
<1>9. CASE Arrives(r)
  <2>1. ASSUME NEW d \in Departments, NEW p \in Departments \cup {0}, NEW on \in BOOLEAN,
               NEW s \in {"walk", "load"}, NEW o \in {"create", "update"},
               o = "create" => d \notin Live,
               ask' = [ask EXCEPT ![r] = [FreshAsk EXCEPT !.stage = s, !.op = o,
                            !.target = d, !.parent = p, !.at = p, !.enabled = on]]
        PROVE  HierarchyInv'
    <3> DEFINE to == [FreshAsk EXCEPT !.stage = s, !.op = o, !.target = d, !.parent = p,
                                      !.at = p, !.enabled = on]
    <3>1. to \in AskState BY DEF FreshAsk, AskState
    <3>2. ask'[r] = to BY <1>1, <2>1
    <3>3. /\ to.stage = s /\ to.op = o /\ to.target = d /\ to.parent = p /\ to.at = p
          /\ to.visited = {}
      BY DEF FreshAsk
    <3> HIDE DEF to
    <3>4. StageInv(r)' BY <3>2, <3>3 DEF StageInv
    <3>5. WalkInv(r)'
      <4>1. /\ ask'[r].target = d /\ ask'[r].visited = {} /\ ask'[r].parent = p
            /\ ask'[r].at = p /\ ask'[r].op = o /\ ask'[r].stage # "save"
        BY <3>2, <3>3
      <4>2. ask'[r].op = "create" => ask'[r].target \notin Live' BY <1>3, <2>1, <4>1
      <4>3. ask'[r].parent \in ask'[r].visited \cup {ask'[r].at} BY <4>1
      <4>4. ask'[r].visited \subseteq Live' BY <4>1
      <4>5. \A e \in ask'[r].visited : tree'[e].parent \in ask'[r].visited \cup {ask'[r].at}
        BY <4>1
      <4> QED BY <4>1, <4>2, <4>3, <4>4, <4>5 DEF WalkInv
    <3>6. SetInv(r)' BY <2>1, <3>2, <3>3 DEF SetInv
    <3> QED BY <1>4, <2>1, <3>1, <3>4, <3>5, <3>6 DEF to
  <2>2. ASSUME NEW set \in SUBSET Departments, NEW s \in {"check", "count"},
               NEW o \in {"delete", "scope"}, (s = "check") <=> (o = "delete"),
               ask' = [ask EXCEPT ![r] = [FreshAsk EXCEPT !.stage = s, !.op = o, !.set = set]]
        PROVE  HierarchyInv'
    <3> DEFINE to == [FreshAsk EXCEPT !.stage = s, !.op = o, !.set = set]
    <3>1. to \in AskState BY DEF FreshAsk, AskState
    <3>2. ask'[r] = to BY <1>1, <2>2
    <3>3. to.stage = s /\ to.op = o BY DEF FreshAsk
    <3> HIDE DEF to
    <3>4. StageInv(r)' BY <2>2, <3>2, <3>3 DEF StageInv
    <3>5. WalkInv(r)' /\ SetInv(r)' BY <2>2, <3>2, <3>3 DEF WalkInv, SetInv
    <3> QED BY <1>4, <2>2, <3>1, <3>4, <3>5 DEF to
  <2>3. CASE \E d \in Departments, p \in Departments \cup {0} :
                /\ Fresh(d)
                /\ ask' = [ask EXCEPT ![r] = [FreshAsk EXCEPT !.stage = "walk", !.op = "create",
                                !.target = d, !.parent = p, !.at = p, !.enabled = TRUE]]
    BY <2>1, <2>3 DEF Fresh, Live
  <2>4. CASE \E d \in Live, p \in Departments \cup {0}, on \in BOOLEAN :
                ask' = [ask EXCEPT ![r] = [FreshAsk EXCEPT !.stage = "load", !.op = "update",
                                !.target = d, !.parent = p, !.at = p, !.enabled = on]]
    <3>1. PICK d \in Live, p \in Departments \cup {0}, on \in BOOLEAN :
            ask' = [ask EXCEPT ![r] = [FreshAsk EXCEPT !.stage = "load", !.op = "update",
                            !.target = d, !.parent = p, !.at = p, !.enabled = on]]
      BY <2>4
    <3>2. d \in Departments BY <1>3
    <3>3. "load" \in {"walk", "load"} /\ "update" \in {"create", "update"} OBVIOUS
    <3>4. "update" = "create" => d \notin Live OBVIOUS
    <3> QED BY ONLY <2>1, <3>1, <3>2, <3>3, <3>4, p \in Departments \cup {0}, on \in BOOLEAN
  <2>5. CASE \E set \in (SUBSET Live) \ {{}} :
                ask' = [ask EXCEPT ![r] =
                            [FreshAsk EXCEPT !.stage = "check", !.op = "delete", !.set = set]]
    BY <1>3, <2>2, <2>5
  <2>6. CASE \E set \in (SUBSET Departments) \ {{}} :
                ask' = [ask EXCEPT ![r] =
                            [FreshAsk EXCEPT !.stage = "count", !.op = "scope", !.set = set]]
    BY <2>2, <2>6
  <2> QED BY <1>9, <2>3, <2>4, <2>5, <2>6 DEF Arrives
<1> QED BY <1>6, <1>7, <1>8, <1>9

(* A change makes all others late that are under way; what it leaves is    *)
(* sound unless it was late itself.                                        *)
LEMMA TreeChangePreserves ==
  ASSUME HierarchyInv, NEW r \in Requesters, Saved(r), ask[r].stage \in {"save", "delete"},
         tree' \in [Departments -> TreeState], scopes' \in SUBSET Departments,
         ~overlapped /\ ~ask[r].late => (Rooted /\ scopes \subseteq Live)'
  PROVE  HierarchyInv'
<1>1. ask \in [Requesters -> AskState] /\ overlapped \in BOOLEAN
  BY DEF HierarchyInv, HierarchyTyped
<1>2. /\ ask' \in [Requesters -> AskState] /\ overlapped' \in BOOLEAN
      /\ ask'[r].stage = "done"
      /\ \A q \in Requesters \ {r} : /\ ask'[q].late \/ ask'[q].stage = "idle"
                                     /\ ask'[q].stage = ask[q].stage /\ ask'[q].op = ask[q].op
  <2>1. /\ ask' = [o \in Requesters |-> IF o = r THEN [ask[o] EXCEPT !.stage = "done"]
                              ELSE [ask[o] EXCEPT !.late = @ \/ ask[o].stage # "idle"]]
        /\ overlapped' = (overlapped \/ ask[r].late)
    BY DEF Saved
  <2>2. ask'[r] = [ask[r] EXCEPT !.stage = "done"] BY <2>1
  <2>3. ask'[r] \in AskState /\ ask'[r].stage = "done"
    BY <1>1, <2>2 DEF AskState
  <2>4. ASSUME NEW q \in Requesters \ {r}
        PROVE  /\ ask'[q] \in AskState /\ (ask'[q].late \/ ask'[q].stage = "idle")
               /\ ask'[q].stage = ask[q].stage /\ ask'[q].op = ask[q].op
    <3> DEFINE l == ask[q].late \/ ask[q].stage # "idle"
    <3>1. ask'[q] = [ask[q] EXCEPT !.late = l] BY <2>1
    <3>2. ask[q] \in AskState BY <1>1
    <3>3. l \in BOOLEAN BY <3>2 DEF AskState
    <3>4. l \/ ask[q].stage = "idle" OBVIOUS
    <3> HIDE DEF l
    <3>5. /\ ask'[q] \in AskState /\ ask'[q].late = l
          /\ ask'[q].stage = ask[q].stage /\ ask'[q].op = ask[q].op
      BY <3>1, <3>2, <3>3 DEF AskState
    <3> QED BY <3>4, <3>5
  <2>5. ask[r].late \in BOOLEAN BY <1>1 DEF AskState
  <2>6. ask' \in [Requesters -> AskState]
    <3>1. \A q \in Requesters : ask'[q] \in AskState BY <2>3, <2>4
    <3>2. ask' = [q \in Requesters |-> ask'[q]] BY <2>1
    <3> QED BY <3>1, <3>2
  <2> QED BY <1>1, <2>1, <2>3, <2>4, <2>5, <2>6
<1>3. HierarchyTyped' BY <1>2 DEF HierarchyTyped
<1>4. TreeIsSound' BY DEF TreeIsSound, Saved
<1>5. \A q \in Requesters : StageInv(q)' BY <1>2 DEF HierarchyInv, StageInv
<1>6. \A q \in Requesters : ask'[q].late \/ (WalkInv(q)' /\ SetInv(q)')
  BY <1>2 DEF WalkInv, SetInv
<1> QED BY <1>3, <1>4, <1>5, <1>6 DEF HierarchyInv

(* A department saved below ancestors that were walked over makes no cycle:*)
(* a set closed under parents would hold some of those ancestors, and was  *)
(* closed before.                                                          *)
LEMMA TreeSavePreserves ==
  ASSUME HierarchyInv, NEW r \in Requesters, Saves(r)
  PROVE  HierarchyInv'
<1>1. /\ ask[r] \in AskState /\ tree \in [Departments -> TreeState]
      /\ scopes \in SUBSET Departments
      /\ TreeIsSound /\ StageInv(r) /\ (ask[r].late \/ WalkInv(r))
  BY DEF HierarchyInv, HierarchyTyped
<1> DEFINE t == ask[r].target
           p == ask[r].parent
           n == [there |-> TRUE, parent |-> p, enabled |-> ask[r].enabled]
<1>2. /\ ask[r].stage = "save" /\ ask[r].op \in {"create", "update"}
      /\ tree' = [tree EXCEPT ![t] = n] /\ Saved(r) /\ scopes' = scopes
  BY <1>1 DEF Saves, StageInv
<1>3. n \in TreeState BY <1>1 DEF AskState, TreeState
<1>4. tree' \in [Departments -> TreeState] BY <1>1, <1>2, <1>3
<1>5. ASSUME ~overlapped, ~ask[r].late PROVE (Rooted /\ scopes \subseteq Live)'
  <2>1. /\ t \in Departments /\ t \notin ask[r].visited /\ ask[r].visited \subseteq Live
        /\ p \in ask[r].visited \cup {0}
        /\ \A d \in ask[r].visited : tree[d].parent \in ask[r].visited \cup {0}
    BY <1>1, <1>2, <1>5 DEF WalkInv
  <2>2. Rooted /\ scopes \subseteq Live BY <1>1, <1>5 DEF TreeIsSound
  <2>3. tree'[t] = n /\ \A d \in Departments \ {t} : tree'[d] = tree[d] BY <1>1, <1>2, <2>1
  <2>4. n.there /\ n.parent = p OBVIOUS
  <2> HIDE DEF n, t, p
  <2>5. Live' = Live \cup {t} BY <2>1, <2>3, <2>4 DEF Live
  <2>6. \A d \in Live' : tree'[d].parent \in Live' \cup {0}
    BY <2>1, <2>2, <2>3, <2>4, <2>5 DEF Rooted, Live
  <2>7. ASSUME NEW some \in SUBSET Live', some # {}
        PROVE  \E d \in some : tree'[d].parent \notin some
    <3>1. CASE t \notin some
      <4>1. some \in (SUBSET Live) \ {{}} BY <2>5, <2>7, <3>1
      <4>2. PICK d \in some : tree[d].parent \notin some BY <2>2, <4>1 DEF Rooted
      <4> QED BY <2>3, <3>1, <4>1, <4>2 DEF Live
    <3>2. CASE t \in some
      <4> SUFFICES ASSUME p \in some PROVE \E d \in some : tree'[d].parent \notin some
        BY <2>3, <2>4, <3>2
      <4>1. 0 \notin some BY <2>5, <2>7, HierarchyAssumption, <2>1 DEF Live
      <4>2. p \in ask[r].visited BY <2>1, <4>1
      <4>3. some \cap ask[r].visited \in (SUBSET Live) \ {{}} BY <2>1, <4>2
      <4>4. PICK d \in some \cap ask[r].visited : tree[d].parent \notin some \cap ask[r].visited
        BY <2>2, <4>3 DEF Rooted
      <4>5. tree[d].parent \notin some BY <2>1, <4>1, <4>4
      <4>6. d \in Departments \ {t} BY <2>1, <4>3, <4>4 DEF Live
      <4> QED BY <2>3, <4>4, <4>5, <4>6
    <3> QED BY <3>1, <3>2
  <2> QED BY <1>2, <2>2, <2>5, <2>6, <2>7 DEF Rooted
<1> QED BY <1>1, <1>2, <1>4, <1>5, TreeChangePreserves

(* A scope lists what is there; what is deleted is the parent of nothing   *)
(* that stays, and in no scope.                                            *)
LEMMA SetAsksPreserves ==
  ASSUME HierarchyInv, NEW r \in Requesters, SavesScope(r) \/ Deletes(r)
  PROVE  HierarchyInv'
<1>1. /\ ask[r] \in AskState /\ tree \in [Departments -> TreeState]
      /\ scopes \in SUBSET Departments
      /\ TreeIsSound /\ StageInv(r) /\ (ask[r].late \/ SetInv(r))
  BY DEF HierarchyInv, HierarchyTyped
<1> DEFINE set == ask[r].set
<1>2. set \in SUBSET Departments BY <1>1 DEF AskState
<1>3. CASE SavesScope(r)
  <2>1. /\ ask[r].stage = "save" /\ ask[r].op = "scope" /\ tree' = tree
        /\ scopes' = scopes \cup set /\ Saved(r)
    BY <1>3 DEF SavesScope
  <2>2. scopes' \in SUBSET Departments BY <1>1, <1>2, <2>1
  <2>3. ASSUME ~overlapped, ~ask[r].late PROVE (Rooted /\ scopes \subseteq Live)'
    <3>1. set \subseteq Live /\ Rooted /\ scopes \subseteq Live
      BY <1>1, <2>1, <2>3 DEF SetInv, TreeIsSound
    <3>2. Live' = Live BY <2>1 DEF Live
    <3>3. Rooted' BY <2>1, <3>1, <3>2 DEF Rooted
    <3> QED BY <2>1, <3>1, <3>2, <3>3
  <2> QED BY <1>1, <2>1, <2>2, <2>3, TreeChangePreserves
<1>4. CASE Deletes(r)
  <2>1. /\ ask[r].stage = "delete" /\ scopes' = scopes /\ Saved(r)
        /\ tree' = [d \in Departments |-> IF d \in set THEN Absent ELSE tree[d]]
    BY <1>4 DEF Deletes
  <2>2. Absent \in TreeState /\ ~Absent.there BY DEF Absent, TreeState
  <2>3. tree' \in [Departments -> TreeState] BY <1>1, <2>1, <2>2
  <2>4. ASSUME ~overlapped, ~ask[r].late PROVE (Rooted /\ scopes \subseteq Live)'
    <3>1. /\ set \subseteq Live /\ Rooted /\ scopes \subseteq Live
          /\ OutsideChildren(set) = {} /\ set \cap scopes = {}
      BY <1>1, <2>1, <2>4 DEF SetInv, TreeIsSound
    <3>2. Live' = Live \ set BY <2>1, <2>2 DEF Live
    <3>3. \A d \in Live' : tree'[d] = tree[d] BY <2>1, <3>2 DEF Live
    <3>4. \A d \in Live' : tree[d].parent \notin set
      <4> SUFFICES ASSUME NEW d \in Live', tree[d].parent \in set PROVE FALSE
        OBVIOUS
      <4>1. d \in Children(tree[d].parent) BY <3>2 DEF Children
      <4>2. d \in OutsideChildren(set) BY <3>2, <4>1 DEF OutsideChildren
      <4> QED BY <3>1, <4>2
    <3>5. \A d \in Live' : tree'[d].parent \in Live' \cup {0}
      BY <3>1, <3>2, <3>3, <3>4 DEF Rooted
    <3>6. ASSUME NEW some \in (SUBSET Live') \ {{}}
          PROVE  \E d \in some : tree'[d].parent \notin some
      <4>1. some \in (SUBSET Live) \ {{}} BY <3>2
      <4> QED BY <3>1, <3>3, <4>1 DEF Rooted
    <3>7. scopes \subseteq Live' BY <3>1, <3>2
    <3> QED BY <2>1, <3>5, <3>6, <3>7 DEF Rooted
  <2> QED BY <1>1, <2>1, <2>3, <2>4, TreeChangePreserves
<1> QED BY <1>3, <1>4

LEMMA HierarchyStepPreserves == HierarchyInv /\ [HierarchyNext]_hierarchyVars => HierarchyInv'
<1> SUFFICES ASSUME HierarchyInv, [HierarchyNext]_hierarchyVars PROVE HierarchyInv'
  OBVIOUS
<1>1. CASE UNCHANGED hierarchyVars
  BY <1>1 DEF hierarchyVars, HierarchyInv, HierarchyTyped, TreeIsSound, Rooted, Live, StageInv,
              WalkInv, SetInv, OutsideChildren, Children
<1>2. CASE HierarchyNext
  BY <1>2, LookPreserves, WalkPreserves, TreeSavePreserves, SetAsksPreserves DEF HierarchyNext
<1> QED BY <1>1, <1>2

(* However creations, updates, deletions and scopes interleave, the tree   *)
(* of departments has no cycle and no dangling parent, and no scope lists  *)
(* a department that is gone, unless one of them was saved over a change   *)
(* since it began.                                                         *)
THEOREM HierarchySafe == HierarchySpec => [](HierarchyTypeOK /\ TreeIsSound)
<1>1. HierarchyInv => HierarchyTypeOK /\ TreeIsSound
  BY DEF HierarchyInv, HierarchyTyped, HierarchyTypeOK, AskState, TreeState
<1> QED BY <1>1, HierarchyInitially, HierarchyStepPreserves, PTL DEF HierarchySpec

-----------------------------------------------------------------------------
(* Option dictionaries: names stay apart and no change is lost.            *)

OptionRow == [name : OptionNames, version : Nat, enabled : BOOLEAN, builtIn : BOOLEAN]
ManagerState == [stage : {"idle", "lock", "room", "names", "write", "old", "new", "done",
                          "refused"},
                 op : {"none", "create", "update", "delete"}, id : OptionIds \cup {0},
                 expected : Nat, name : OptionNames \cup {"none"}, enabled : BOOLEAN,
                 seen : OptionRow \cup {NoOption}, late : BOOLEAN]
OptionsTyped ==
  /\ options \in [OptionIds -> OptionRow \cup {NoOption}]
  /\ versions \in [OptionIds -> Seq(OptionRow)] /\ committed \in [OptionIds -> Seq(OptionRow)]
  /\ manager \in [Managers -> ManagerState]
  /\ cachedOption = [n \in OptionNames |-> cachedOption[n]] /\ raced \in BOOLEAN

(* A row is the last one its identifier has had, and the others were kept. *)
RowKept(here, had, before) ==
  /\ \A v \in 1..Len(had) : had[v].version = v
  /\ here # NoOption => Len(had) # 0 /\ here = had[Len(had)]
  /\ before = IF here = NoOption THEN had ELSE SubSeq(had, 1, Len(had) - 1)

(* What a call knows of its row, here now, and of those it has had.        *)
HasWritten(x) == x.stage \in {"old", "new", "done"}
AskedFor(x, had) ==
  /\ x.stage = "idle" <=> x.op = "none"
  /\ x.stage # "idle" => x.id \in OptionIds
  /\ x.op \in {"update", "delete"} => x.expected \in 1..Len(had)
  /\ x.op = "create" => x.expected = 0
  /\ x.op \in {"create", "update"} => x.name \in OptionNames
  /\ x.op = "delete" => x.name = "none"
  /\ x.stage = "lock" => x.op \in {"update", "delete"}
  /\ x.stage = "room" => x.op = "create"
  /\ x.stage = "names" => x.op \in {"create", "update"}
  /\ x.stage = "new" => x.op = "update"
  /\ x.op = "create" /\ x.stage \in {"room", "names", "write"} => had = <<>>
Saw(x, had) == x.op \in {"update", "delete"} /\ (HasWritten(x) \/ x.stage \in {"names", "write"})
                 => x.seen = had[x.expected]
Changed(x, here, had) ==
  HasWritten(x) => /\ x.op = "update" => x.expected < Len(had)
                   /\ x.op = "delete" => here = NoOption
DistinctCalls(x, y) ==
  /\ x.op = "create" /\ y.op = "create" => x.id # y.id
  /\ HasWritten(x) /\ HasWritten(y) /\ x.id = y.id => x.expected # y.expected

(* What its checks found still holds, unless it is late.                   *)
TakesName(x) == x.op = "create" \/ (x.op = "update" /\ x.name # x.seen.name)
Living(rows) == {i \in OptionIds : rows[i] # NoOption}
Others(rows, id, n) == {i \in Living(rows) \ {id} : rows[i].name = n}
ChecksHold(x, rows) ==
  ~x.late => /\ x.op = "create" /\ x.stage \in {"names", "write"} =>
                  Cardinality(Living(rows)) < MaxOptions
             /\ TakesName(x) /\ x.stage = "write" => Others(rows, x.id, x.name) = {}
NamesApart(rows) == /\ \A i, j \in Living(rows) : i # j => rows[i].name # rows[j].name
                    /\ Cardinality(Living(rows)) <= MaxOptions

HeldUnder(rows, n) == {i \in Living(rows) : rows[i].name = n /\ rows[i].enabled}
CurrentIn(rows, n) == IF HeldUnder(rows, n) = {} THEN NoOption
                    ELSE rows[CHOOSE i \in HeldUnder(rows, n) : \A j \in HeldUnder(rows, n) : i <= j]
Covers(x, n) ==
  \/ x.stage = "old" /\ n \in {IF x.op = "create" THEN x.name ELSE x.seen.name, x.name}
  \/ x.stage = "new" /\ n = x.name

OptionsInv ==
  /\ OptionsTyped /\ IsFiniteSet(Present) /\ NamesStayApart /\ EntriesFollowCommits
  /\ \A i \in OptionIds : RowKept(options[i], committed[i], versions[i])
  /\ \A m \in Managers : /\ AskedFor(manager[m], committed[manager[m].id])
                         /\ Saw(manager[m], committed[manager[m].id])
                         /\ Changed(manager[m], options[manager[m].id],
                                    committed[manager[m].id])
                         /\ ChecksHold(manager[m], options)
  /\ \A m, o \in Managers : m # o => DistinctCalls(manager[m], manager[o])

(* What the parts say of the next state.                                   *)
LEMMA EntriesMean ==
  /\ EntriesFollowCommits <=>
       \A n \in OptionNames : \/ cachedOption[n] = NoOption \/ n \in outdated
                              \/ cachedOption[n] = CurrentIn(options, n)
                              \/ \E m \in Managers : Covers(manager[m], n)
  /\ EntriesFollowCommits' <=>
       \A n \in OptionNames : \/ cachedOption'[n] = NoOption \/ n \in outdated'
                              \/ cachedOption'[n] = CurrentIn(options', n)
                              \/ \E m \in Managers : Covers(manager'[m], n)
<1>1. \A n : CurrentOption(n) = CurrentIn(options, n)
  BY DEF CurrentOption, CurrentIn, Holding, HeldUnder, Present, Living
<1>2. \A n : CurrentOption(n)' = CurrentIn(options', n)
  BY DEF CurrentOption, CurrentIn, Holding, HeldUnder, Present, Living
<1>3. \A n, m : Covers(manager[m], n) <=>
                  \/ manager[m].stage = "old" /\ n \in {OldName(m), manager[m].name}
                  \/ manager[m].stage = "new" /\ n = manager[m].name
  BY DEF Covers, OldName
<1>4. \A n, m : Covers(manager'[m], n) <=>
                  \/ manager'[m].stage = "old" /\ n \in {OldName(m)', manager'[m].name}
                  \/ manager'[m].stage = "new" /\ n = manager'[m].name
  BY DEF Covers, OldName
<1>5. EntriesFollowCommits <=>
       \A n \in OptionNames : \/ cachedOption[n] = NoOption \/ n \in outdated
                              \/ cachedOption[n] = CurrentIn(options, n)
                              \/ \E m \in Managers : Covers(manager[m], n)
  BY <1>1, <1>3 DEF EntriesFollowCommits
<1>6. EntriesFollowCommits' <=>
       \A n \in OptionNames : \/ cachedOption'[n] = NoOption \/ n \in outdated'
                              \/ cachedOption'[n] = CurrentIn(options', n)
                              \/ \E m \in Managers : Covers(manager'[m], n)
  BY <1>2, <1>4 DEF EntriesFollowCommits
<1> QED BY <1>5, <1>6

LEMMA OptionsNow ==
  /\ Present = Living(options) /\ Present' = Living(options')
  /\ NamesStayApart <=> raced \/ NamesApart(options)
  /\ NamesStayApart' <=> raced' \/ NamesApart(options')
BY DEF Present, Living, NamesStayApart, NamesApart

LEMMA OptionsFollow ==
  ASSUME OptionsTyped', IsFiniteSet(Living(options')), raced' \/ NamesApart(options'),
         \A n \in OptionNames : \/ cachedOption'[n] = NoOption \/ n \in outdated'
                                \/ cachedOption'[n] = CurrentIn(options', n)
                                \/ \E m \in Managers : Covers(manager'[m], n),
         \A i \in OptionIds : RowKept(options'[i], committed'[i], versions'[i]),
         \A m \in Managers : /\ AskedFor(manager'[m], committed'[manager'[m].id])
                             /\ Saw(manager'[m], committed'[manager'[m].id])
                             /\ Changed(manager'[m], options'[manager'[m].id],
                                        committed'[manager'[m].id])
                             /\ ChecksHold(manager'[m], options'),
         \A m, o \in Managers : m # o => DistinctCalls(manager'[m], manager'[o])
  PROVE  OptionsInv'
<1>1. (\A i \in OptionIds : RowKept(options[i], committed[i], versions[i]))'
  BY DEF RowKept
<1>2. (\A m \in Managers : AskedFor(manager[m], committed[manager[m].id]))'
  BY DEF AskedFor
<1>3. (\A m \in Managers : Saw(manager[m], committed[manager[m].id]))'
  BY DEF Saw, HasWritten
<1>4. (\A m \in Managers : Changed(manager[m], options[manager[m].id],
                                   committed[manager[m].id]))'
  BY DEF Changed, HasWritten
<1>5. (\A m \in Managers : ChecksHold(manager[m], options))'
  BY DEF ChecksHold, TakesName, Living, Others
<1>6. (\A m, o \in Managers : m # o => DistinctCalls(manager[m], manager[o]))'
  BY DEF DistinctCalls, HasWritten
<1>7. NamesStayApart' /\ EntriesFollowCommits' /\ IsFiniteSet(Present')
  BY OptionsNow, EntriesMean
<1>8. IsFiniteSet(Present)' BY <1>7
<1> QED BY <1>1, <1>2, <1>3, <1>4, <1>5, <1>6, <1>7, <1>8 DEF OptionsInv

LEMMA OptionsInitially == OptionsInit => OptionsInv
<1> SUFFICES ASSUME OptionsInit PROVE OptionsInv
  OBVIOUS
<1>0. PICK b \in BOOLEAN, n \in OptionNames, id \in OptionIds :
        LET fresh == [name |-> n, version |-> 1, enabled |-> TRUE, builtIn |-> b] IN
        /\ options = [i \in OptionIds |-> IF i = id THEN fresh ELSE NoOption]
        /\ committed = [i \in OptionIds |-> IF i = id THEN <<fresh>> ELSE <<>>]
  BY DEF OptionsInit
<1>1. PICK first :
        /\ first = [name |-> n, version |-> 1, enabled |-> TRUE, builtIn |-> b]
        /\ options = [i \in OptionIds |-> IF i = id THEN first ELSE NoOption]
        /\ committed = [i \in OptionIds |-> IF i = id THEN <<first>> ELSE <<>>]
  BY <1>0
<1>2. /\ first \in OptionRow /\ first # NoOption /\ first.version = 1
      /\ <<first>> \in Seq(OptionRow) /\ <<>> \in Seq(OptionRow)
      /\ Len(<<first>>) = 1 /\ <<first>>[1] = first
  <2>1. first \in OptionRow /\ first.name = n /\ NoOption.name = "none"
    BY <1>1 DEF OptionRow, NoOption
  <2>2. first # NoOption BY <2>1, OptionsAssumption
  <2>3. first.version = 1 BY <1>1
  <2> QED BY <2>1, <2>2, <2>3
<1>3. /\ FreshManager \in ManagerState /\ FreshManager.stage = "idle"
      /\ FreshManager.op = "none" /\ FreshManager.late = FALSE
  BY DEF FreshManager, ManagerState, NoOption
<1>4. /\ versions = [i \in OptionIds |-> <<>>]
      /\ cachedOption = [c \in OptionNames |-> NoOption]
      /\ manager = [m \in Managers |-> FreshManager] /\ raced = FALSE
  BY DEF OptionsInit
<1>5. OptionsTyped
  <2>1. options \in [OptionIds -> OptionRow \cup {NoOption}] BY <1>1, <1>2
  <2>2. versions \in [OptionIds -> Seq(OptionRow)] BY <1>2, <1>4
  <2>3. committed \in [OptionIds -> Seq(OptionRow)] BY <1>1, <1>2
  <2>4. manager \in [Managers -> ManagerState] BY <1>3, <1>4
  <2>5. cachedOption = [c \in OptionNames |-> cachedOption[c]] BY <1>4
  <2> QED BY <1>4, <2>1, <2>2, <2>3, <2>4, <2>5 DEF OptionsTyped
<1>6. Living(options) = {id}
  BY <1>1, <1>2 DEF Living
<1>7. IsFiniteSet(Present) /\ NamesStayApart
  <2>1. IsFiniteSet({id}) /\ Cardinality({id}) = 1 BY FS_Singleton
  <2>2. 1 <= MaxOptions BY OptionsAssumption
  <2> QED BY <1>6, <2>1, <2>2, OptionsNow DEF NamesApart
<1>8. EntriesFollowCommits BY <1>4, EntriesMean
<1>9. ASSUME NEW i \in OptionIds PROVE RowKept(options[i], committed[i], versions[i])
  <2>1. CASE i = id
    <3>1. options[i] = first /\ committed[i] = <<first>> /\ versions[i] = <<>>
      BY <1>1, <1>4, <2>1
    <3>2. SubSeq(<<first>>, 1, Len(<<first>>) - 1) = <<>>
      <4>1. Len(<<first>>) - 1 = 0 BY <1>2
      <4> QED BY <4>1, SubSeqEmpty
    <3> QED BY <1>2, <3>1, <3>2 DEF RowKept
  <2>2. CASE i # id
    <3>1. options[i] = NoOption /\ committed[i] = <<>> /\ versions[i] = <<>>
      BY <1>1, <1>4, <2>2
    <3> QED BY <3>1 DEF RowKept
  <2> QED BY <2>1, <2>2
<1>10. \A m \in Managers : manager[m] = FreshManager BY <1>4
<1>11. \A had, here : /\ AskedFor(FreshManager, had) /\ Saw(FreshManager, had)
                       /\ Changed(FreshManager, here, had) /\ ChecksHold(FreshManager, here)
                       /\ DistinctCalls(FreshManager, FreshManager)
  <2>1. ~TakesName(FreshManager) /\ ~HasWritten(FreshManager) BY <1>3 DEF TakesName, HasWritten
  <2> QED BY <1>3, <2>1 DEF AskedFor, Saw, Changed, ChecksHold, DistinctCalls
<1> QED BY <1>5, <1>7, <1>8, <1>9, <1>10, <1>11 DEF OptionsInv

-----------------------------------------------------------------------------
(* A call moves on, and the rows stay.                                     *)
LEMMA ManagerMoves ==
  ASSUME OptionsInv, NEW m \in Managers, NEW to \in ManagerState,
         manager' = [manager EXCEPT ![m] = to],
         UNCHANGED <<options, versions, committed, raced>>,
         cachedOption' = [n \in OptionNames |-> cachedOption'[n]],
         \A n \in OptionNames : \/ cachedOption'[n] = NoOption \/ n \in outdated'
                                \/ cachedOption'[n] = CurrentIn(options, n)
                                \/ \E o \in Managers : Covers(manager'[o], n),
         AskedFor(to, committed[to.id]), Saw(to, committed[to.id]),
         Changed(to, options[to.id], committed[to.id]), ChecksHold(to, options),
         \A o \in Managers \ {m} : DistinctCalls(to, manager[o])
  PROVE  OptionsInv'
<1>1. manager \in [Managers -> ManagerState] BY DEF OptionsInv, OptionsTyped
<1>2. manager'[m] = to BY <1>1
<1>3. \A o \in Managers : o # m => manager'[o] = manager[o] BY <1>1
<1>4. OptionsTyped'
  <2>1. manager' \in [Managers -> ManagerState] BY <1>1
  <2> QED BY <2>1 DEF OptionsInv, OptionsTyped
<1>5. IsFiniteSet(Living(options')) /\ (raced' \/ NamesApart(options'))
  BY OptionsNow DEF OptionsInv
<1>6. \A i \in OptionIds : RowKept(options'[i], committed'[i], versions'[i])
  BY DEF OptionsInv
<1>7. ASSUME NEW k \in Managers
      PROVE  /\ AskedFor(manager'[k], committed'[manager'[k].id])
             /\ Saw(manager'[k], committed'[manager'[k].id])
             /\ Changed(manager'[k], options'[manager'[k].id], committed'[manager'[k].id])
             /\ ChecksHold(manager'[k], options')
  BY <1>2, <1>3 DEF OptionsInv
<1>8. ASSUME NEW k \in Managers, NEW o \in Managers, k # o
      PROVE  DistinctCalls(manager'[k], manager'[o])
  <2>1. CASE k = m BY <1>2, <1>3, <1>8, <2>1
  <2>2. CASE o = m
    <3>1. DistinctCalls(to, manager[k]) BY <1>8, <2>2
    <3>2. \A x, y : DistinctCalls(x, y) => DistinctCalls(y, x) BY DEF DistinctCalls
    <3>3. manager'[k] = manager[k] /\ manager'[o] = to BY <1>2, <1>3, <1>8, <2>2
    <3> QED BY <3>1, <3>2, <3>3
  <2>3. CASE k # m /\ o # m BY <1>3, <1>8, <2>3 DEF OptionsInv
  <2> QED BY <2>1, <2>2, <2>3
<1>9. \A n \in OptionNames : \/ cachedOption'[n] = NoOption \/ n \in outdated'
                             \/ cachedOption'[n] = CurrentIn(options', n)
                             \/ \E o \in Managers : Covers(manager'[o], n)
  OBVIOUS
<1> QED BY <1>4, <1>5, <1>6, <1>7, <1>8, <1>9, OptionsFollow

(* Before it has written, it also leaves the cache alone.                  *)
LEMMA ManagerThinks ==
  ASSUME OptionsInv, NEW m \in Managers, NEW to \in ManagerState,
         manager' = [manager EXCEPT ![m] = to],
         UNCHANGED <<options, versions, committed, raced, cachedOption, outdated>>,
         manager[m].stage \notin {"old", "new"},
         AskedFor(to, committed[to.id]), Saw(to, committed[to.id]),
         Changed(to, options[to.id], committed[to.id]), ChecksHold(to, options),
         \A o \in Managers \ {m} : DistinctCalls(to, manager[o])
  PROVE  OptionsInv'
<1>1. manager \in [Managers -> ManagerState] BY DEF OptionsInv, OptionsTyped
<1>2. \A o \in Managers : o # m => manager'[o] = manager[o] BY <1>1
<1>3. ASSUME NEW n \in OptionNames
      PROVE  \/ cachedOption'[n] = NoOption \/ n \in outdated'
             \/ cachedOption'[n] = CurrentIn(options, n)
             \/ \E o \in Managers : Covers(manager'[o], n)
  <2>1. ~Covers(manager[m], n) BY DEF Covers
  <2>2. \/ cachedOption[n] = NoOption \/ n \in outdated
        \/ cachedOption[n] = CurrentIn(options, n)
        \/ \E o \in Managers : Covers(manager[o], n)
    BY EntriesMean DEF OptionsInv
  <2>3. CASE \E o \in Managers : Covers(manager[o], n)
    <3>1. PICK o \in Managers : Covers(manager[o], n) BY <2>3
    <3>2. manager'[o] = manager[o] BY <1>2, <2>1, <3>1
    <3> QED BY <3>1, <3>2
  <2> QED BY <2>2, <2>3
<1>4. cachedOption' = [n \in OptionNames |-> cachedOption'[n]]
  BY DEF OptionsInv, OptionsTyped
<1> QED BY <1>3, <1>4, ManagerMoves

(* And when it only reaches another stage.                                 *)
LEMMA ReachesStage ==
  ASSUME OptionsInv, NEW m \in Managers, NEW s, AtStage(m, s),
         s \in {"names", "write", "refused"},
         UNCHANGED <<options, versions, committed, raced, cachedOption, outdated>>,
         manager[m].stage \in {"lock", "room", "names", "write"},
         s = "names" => manager[m].op = "create",
         s = "write" => manager[m].stage = "names",
         ~manager[m].late =>
            /\ s = "names" => Cardinality(Living(options)) < MaxOptions
            /\ s = "write" => Others(options, manager[m].id, manager[m].name) = {}
  PROVE  OptionsInv'
<1> DEFINE x == manager[m]
           to == [x EXCEPT !.stage = s]
<1>1. x \in ManagerState BY DEF OptionsInv, OptionsTyped
<1>2. to \in ManagerState BY <1>1 DEF ManagerState
<1>3. manager' = [manager EXCEPT ![m] = to] BY DEF AtStage
<1>4. /\ to.stage = s /\ to.op = x.op /\ to.id = x.id /\ to.expected = x.expected
      /\ to.name = x.name /\ to.seen = x.seen /\ to.late = x.late
  BY <1>1 DEF ManagerState
<1>5. /\ AskedFor(x, committed[x.id]) /\ Saw(x, committed[x.id]) /\ ChecksHold(x, options)
      /\ \A o \in Managers \ {m} : DistinctCalls(x, manager[o])
  BY DEF OptionsInv
<1> HIDE DEF to
<1>6. AskedFor(to, committed[to.id]) BY <1>4, <1>5 DEF AskedFor
<1>7. ~HasWritten(to) /\ ~HasWritten(x) BY <1>4 DEF HasWritten
<1>8. Saw(to, committed[to.id]) /\ Changed(to, options[to.id], committed[to.id])
  BY <1>4, <1>5, <1>7 DEF Saw, Changed
<1>9. ChecksHold(to, options)
  <2>1. TakesName(to) <=> TakesName(x) BY <1>4 DEF TakesName
  <2>2. x.stage = "names" /\ x.op = "create" /\ ~x.late =>
          Cardinality(Living(options)) < MaxOptions
    BY <1>5 DEF ChecksHold
  <2> QED BY <1>4, <2>1, <2>2 DEF ChecksHold
<1>10. \A o \in Managers \ {m} : DistinctCalls(to, manager[o])
  BY <1>4, <1>5, <1>7 DEF DistinctCalls
<1> QED BY <1>2, <1>3, <1>6, <1>8, <1>9, <1>10, ManagerThinks

LEMMA RequestedPreserves ==
  ASSUME OptionsInv, NEW m \in Managers, Requested(m)
  PROVE  OptionsInv'
<1>1. /\ UNCHANGED <<options, versions, committed, raced, cachedOption, outdated>>
      /\ manager[m].stage = "idle"
  BY DEF Requested, Store, CacheState
<1>2. /\ options \in [OptionIds -> OptionRow \cup {NoOption}]
      /\ committed \in [OptionIds -> Seq(OptionRow)]
      /\ manager \in [Managers -> ManagerState]
  BY DEF OptionsInv, OptionsTyped
<1>3. /\ FreshManager \in ManagerState /\ FreshManager.late = FALSE
      /\ FreshManager.seen = NoOption
  BY DEF FreshManager, ManagerState, NoOption
<1>4. CASE \E i \in OptionIds, n \in OptionNames :
             /\ committed[i] = <<>>
             /\ \A o \in Managers : manager[o].op = "create" => manager[o].id # i
             /\ AsksFor(m, "room", [FreshManager EXCEPT !.op = "create", !.id = i, !.name = n,
                                                     !.enabled = TRUE])
  <2>1. PICK i \in OptionIds, n \in OptionNames :
             /\ committed[i] = <<>>
             /\ \A o \in Managers : manager[o].op = "create" => manager[o].id # i
             /\ AsksFor(m, "room", [FreshManager EXCEPT !.op = "create", !.id = i, !.name = n,
                                                     !.enabled = TRUE])
    BY <1>4
  <2> DEFINE asks == [FreshManager EXCEPT !.op = "create", !.id = i, !.name = n, !.enabled = TRUE]
             to == [asks EXCEPT !.stage = "room"]
  <2>0. asks \in ManagerState BY <1>3 DEF ManagerState
  <2>2. manager' = [manager EXCEPT ![m] = to] BY <2>1 DEF AsksFor
  <2>3. to \in ManagerState BY <2>0 DEF ManagerState
  <2>4. /\ to.stage = "room" /\ to.op = "create" /\ to.id = i /\ to.expected = 0
        /\ to.name = n /\ to.late = FALSE
    BY <1>3 DEF ManagerState, FreshManager
  <2> HIDE DEF to
  <2>5. AskedFor(to, committed[to.id]) BY <2>1, <2>4 DEF AskedFor
  <2>6. /\ Saw(to, committed[to.id]) /\ Changed(to, options[to.id], committed[to.id])
        /\ ChecksHold(to, options)
    BY <2>4 DEF Saw, Changed, ChecksHold, HasWritten
  <2>7. \A o \in Managers \ {m} : DistinctCalls(to, manager[o])
    BY <2>1, <2>4 DEF DistinctCalls, HasWritten
  <2> QED BY <1>1, <2>2, <2>3, <2>5, <2>6, <2>7, ManagerThinks
<1>5. ASSUME NEW i \in OptionIds, NEW v \in 1..Len(committed[i]), NEW to \in ManagerState,
             manager' = [manager EXCEPT ![m] = to], to.stage = "lock", to.id = i,
             to.expected = v,
             \/ to.op = "update" /\ to.name \in OptionNames
             \/ to.op = "delete" /\ to.name = "none"
      PROVE  OptionsInv'
  <2>5. AskedFor(to, committed[to.id]) BY <1>5 DEF AskedFor
  <2>6. /\ Saw(to, committed[to.id]) /\ Changed(to, options[to.id], committed[to.id])
    BY <1>5 DEF Saw, Changed, HasWritten
  <2>7. ChecksHold(to, options) BY <1>5 DEF ChecksHold
  <2>8. \A o \in Managers \ {m} : DistinctCalls(to, manager[o])
    BY <1>5 DEF DistinctCalls, HasWritten
  <2> QED BY <1>1, <1>5, <2>5, <2>6, <2>7, <2>8, ManagerThinks
<1>6. CASE \E i \in OptionIds : \E v \in 1..Len(committed[i]), n \in OptionNames,
                                   on \in BOOLEAN :
             AsksFor(m, "lock", [FreshManager EXCEPT !.op = "update", !.id = i, !.expected = v,
                                                  !.name = n, !.enabled = on])
  <2>1. PICK i \in OptionIds : \E v \in 1..Len(committed[i]), n \in OptionNames,
                                   on \in BOOLEAN :
             AsksFor(m, "lock", [FreshManager EXCEPT !.op = "update", !.id = i, !.expected = v,
                                                  !.name = n, !.enabled = on])
    BY <1>6
  <2>2. PICK v \in 1..Len(committed[i]), n \in OptionNames, on \in BOOLEAN :
             AsksFor(m, "lock", [FreshManager EXCEPT !.op = "update", !.id = i, !.expected = v,
                                                  !.name = n, !.enabled = on])
    BY <2>1
  <2> DEFINE asks == [FreshManager EXCEPT !.op = "update", !.id = i, !.expected = v,
                                      !.name = n, !.enabled = on]
             to == [asks EXCEPT !.stage = "lock"]
  <2>3. v \in Nat /\ v \in 1..Len(committed[i])
    <3>1. Len(committed[i]) \in Nat BY <1>2, LenProperties
    <3> QED BY <3>1
  <2>4. asks \in ManagerState BY <1>3, <2>3 DEF ManagerState
  <2>5. to \in ManagerState BY <2>4 DEF ManagerState
  <2>6. /\ to.stage = "lock" /\ to.op = "update" /\ to.id = i /\ to.expected = v
        /\ to.name = n
    BY <1>3 DEF ManagerState, FreshManager
  <2>7. manager' = [manager EXCEPT ![m] = to] BY <2>2 DEF AsksFor
  <2> HIDE DEF to
  <2> QED BY <1>5, <2>3, <2>5, <2>6, <2>7
<1>7. CASE \E i \in OptionIds : \E v \in 1..Len(committed[i]) :
             AsksFor(m, "lock", [FreshManager EXCEPT !.op = "delete", !.id = i, !.expected = v])
  <2>1. PICK i \in OptionIds : \E v \in 1..Len(committed[i]) :
             AsksFor(m, "lock", [FreshManager EXCEPT !.op = "delete", !.id = i, !.expected = v])
    BY <1>7
  <2>2. PICK v \in 1..Len(committed[i]) :
             AsksFor(m, "lock", [FreshManager EXCEPT !.op = "delete", !.id = i, !.expected = v])
    BY <2>1
  <2> DEFINE asks == [FreshManager EXCEPT !.op = "delete", !.id = i, !.expected = v]
             to == [asks EXCEPT !.stage = "lock"]
  <2>3. v \in Nat /\ v \in 1..Len(committed[i])
    <3>1. Len(committed[i]) \in Nat BY <1>2, LenProperties
    <3> QED BY <3>1
  <2>4. asks \in ManagerState BY <1>3, <2>3 DEF ManagerState
  <2>5. to \in ManagerState BY <2>4 DEF ManagerState
  <2>6. /\ to.stage = "lock" /\ to.op = "delete" /\ to.id = i /\ to.expected = v
        /\ to.name = "none"
    BY <1>3 DEF ManagerState, FreshManager
  <2>7. manager' = [manager EXCEPT ![m] = to] BY <2>2 DEF AsksFor
  <2> HIDE DEF to
  <2> QED BY <1>5, <2>3, <2>5, <2>6, <2>7
<1> QED BY <1>4, <1>6, <1>7 DEF Requested

LEMMA ReadsRowPreserves ==
  ASSUME OptionsInv, NEW m \in Managers, ReadsRow(m)
  PROVE  OptionsInv'
<1>1. /\ UNCHANGED <<options, versions, committed, raced, cachedOption, outdated>>
      /\ manager[m].stage = "lock"
  BY DEF ReadsRow, CacheState
<1>2. CASE ~Allowed(m)
  BY <1>1, <1>2, ReachesStage DEF ReadsRow
<1>3. CASE Allowed(m)
  <2> DEFINE x == manager[m]
             s == IF x.op = "update" THEN "names" ELSE "write"
             to == [x EXCEPT !.seen = options[x.id], !.stage = s]
  <2>1. x \in ManagerState /\ options \in [OptionIds -> OptionRow \cup {NoOption}]
        /\ committed \in [OptionIds -> Seq(OptionRow)]
    BY DEF OptionsInv, OptionsTyped
  <2>2. /\ AskedFor(x, committed[x.id]) /\ ChecksHold(x, options)
        /\ \A o \in Managers \ {m} : DistinctCalls(x, manager[o])
    BY DEF OptionsInv
  <2>3. x.op \in {"update", "delete"} /\ x.id \in OptionIds BY <1>1, <2>2 DEF AskedFor
  <2>4. to \in ManagerState BY <2>1, <2>3 DEF ManagerState
  <2>5. manager' = [manager EXCEPT ![m] = to] BY <1>3 DEF ReadsRow
  <2>6. /\ to.stage = s /\ to.op = x.op /\ to.id = x.id /\ to.expected = x.expected
        /\ to.name = x.name /\ to.seen = options[x.id] /\ to.late = x.late
    BY <2>1 DEF ManagerState
  <2> HIDE DEF to
  <2>7. x.expected \in 1..Len(committed[x.id]) BY <2>2, <2>3 DEF AskedFor
  <2>8. options[x.id] = committed[x.id][x.expected]
    <3>1. RowKept(options[x.id], committed[x.id], versions[x.id]) BY <2>3 DEF OptionsInv
    <3>2. options[x.id].version = x.expected BY <1>3 DEF Allowed
    <3>3. Len(committed[x.id]) \in Nat BY <2>1, <2>3, LenProperties
    <3>4. x.expected # 0 BY <2>7, <3>3
    <3>5. options[x.id] # NoOption BY <3>2, <3>4 DEF NoOption
    <3>6. /\ options[x.id] = committed[x.id][Len(committed[x.id])]
          /\ Len(committed[x.id]) # 0
      BY <3>1, <3>5 DEF RowKept
    <3>7. Len(committed[x.id]) \in 1..Len(committed[x.id]) BY <3>3, <3>6
    <3>8. committed[x.id][Len(committed[x.id])].version = Len(committed[x.id])
      BY <3>1, <3>7 DEF RowKept
    <3> QED BY <3>2, <3>6, <3>8
  <2>9. AskedFor(to, committed[to.id]) BY <2>2, <2>3, <2>6 DEF AskedFor
  <2>10. Saw(to, committed[to.id]) BY <2>6, <2>8 DEF Saw
  <2>11. ~HasWritten(to) BY <2>6 DEF HasWritten
  <2>12. Changed(to, options[to.id], committed[to.id]) BY <2>11 DEF Changed
  <2>13. ChecksHold(to, options) BY <2>3, <2>6 DEF ChecksHold, TakesName
  <2>14. \A o \in Managers \ {m} : DistinctCalls(to, manager[o])
    BY <2>2, <2>6, <2>11 DEF DistinctCalls
  <2> QED BY <1>1, <2>4, <2>5, <2>9, <2>10, <2>12, <2>13, <2>14, ManagerThinks
<1> QED BY <1>2, <1>3

LEMMA CountsRowsPreserves ==
  ASSUME OptionsInv, NEW m \in Managers, CountsRows(m)
  PROVE  OptionsInv'
<1>1. /\ UNCHANGED <<options, versions, committed, raced, cachedOption, outdated>>
      /\ manager[m].stage = "room"
  BY DEF CountsRows, Store, CacheState
<1>2. manager[m].op = "create" BY <1>1 DEF OptionsInv, AskedFor
<1>3. HasRoom => Cardinality(Living(options)) < MaxOptions BY OptionsNow DEF HasRoom, Room
<1>4. CASE HasRoom
  <2>1. AtStage(m, "names") BY <1>4 DEF CountsRows
  <2> QED BY <1>1, <1>2, <1>3, <1>4, <2>1, ReachesStage
<1>5. CASE ~HasRoom
  <2>1. AtStage(m, "refused") BY <1>5 DEF CountsRows
  <2> QED BY <1>1, <2>1, ReachesStage
<1> QED BY <1>4, <1>5

LEMMA CountsNamesPreserves ==
  ASSUME OptionsInv, NEW m \in Managers, CountsNames(m)
  PROVE  OptionsInv'
<1>1. /\ UNCHANGED <<options, versions, committed, raced, cachedOption, outdated>>
      /\ manager[m].stage = "names"
  BY DEF CountsNames, CacheState
<1>2. Duplicates(manager[m].id, manager[m].name)
        = Others(options, manager[m].id, manager[m].name)
  BY OptionsNow DEF Duplicates, Elsewhere, Others
<1>3. CASE /\ Duplicates(manager[m].id, manager[m].name) = {}
           /\ AtStage(m, "write")
  BY <1>1, <1>2, <1>3, ReachesStage
<1>4. CASE AtStage(m, "refused")
  BY <1>1, <1>4, ReachesStage
<1> QED BY <1>3, <1>4 DEF CountsNames

LEMMA OptionClearsPreserves ==
  ASSUME OptionsInv, NEW m \in Managers, ClearsOld(m) \/ ClearsNew(m)
  PROVE  OptionsInv'
<1> DEFINE x == manager[m]
<1>1. /\ UNCHANGED <<options, versions, committed, raced>>
      /\ x.stage \in {"old", "new"}
  BY DEF ClearsOld, ClearsNew, Store
<1>2. x \in ManagerState /\ manager \in [Managers -> ManagerState]
      /\ cachedOption = [n \in OptionNames |-> cachedOption[n]]
  BY DEF OptionsInv, OptionsTyped
<1>3. PICK s, c :
        /\ AtStage(m, s) /\ RemovesEntry(c)
        /\ \/ s = "done" /\ \A n \in OptionNames : Covers(x, n) => n = c
           \/ /\ s = "new" /\ x.op = "update"
              /\ \A n \in OptionNames : Covers(x, n) => n \in {c, x.name}
  <2>1. AskedFor(x, committed[x.id]) BY DEF OptionsInv
  <2>2. x.op \in {"create", "update", "delete"}
    BY <1>1, <1>2, <2>1 DEF AskedFor, ManagerState
  <2>3. CASE ClearsNew(m)
    <3>1. AtStage(m, "done") /\ RemovesEntry(x.name) /\ x.stage = "new"
      BY <2>3 DEF ClearsNew
    <3>2. \A n \in OptionNames : Covers(x, n) => n = x.name BY <3>1 DEF Covers
    <3> QED BY <3>1, <3>2
  <2>4. CASE ClearsOld(m)
    <3>1. /\ AtStage(m, IF x.op = "update" /\ Takes(m) THEN "new" ELSE "done")
          /\ RemovesEntry(OldName(m)) /\ x.stage = "old"
      BY <2>4 DEF ClearsOld, FirstCleared
    <3>2. \A n \in OptionNames : Covers(x, n) => n \in {OldName(m), x.name}
      BY <3>1 DEF Covers, OldName
    <3>3. CASE x.op = "update" /\ Takes(m)
      BY <3>1, <3>2, <3>3
    <3>4. CASE ~(x.op = "update" /\ Takes(m))
      <4>1. AtStage(m, "done") BY <3>1, <3>4
      <4>2. \A n \in OptionNames : n = x.name => n = OldName(m)
        <5>1. CASE x.op = "create" BY <5>1 DEF OldName
        <5>2. CASE x.op = "update" BY <3>4, <5>2 DEF OldName, Takes
        <5>3. CASE x.op = "delete"
          <6>1. x.name = "none" BY <2>1, <5>3 DEF AskedFor
          <6> QED BY <6>1, OptionsAssumption
        <5> QED BY <2>2, <5>1, <5>2, <5>3
      <4> QED BY <3>1, <3>2, <4>1, <4>2
    <3> QED BY <3>3, <3>4
  <2> QED BY <2>3, <2>4
<1> DEFINE to == [x EXCEPT !.stage = s]
<1>4. to \in ManagerState BY <1>2, <1>3 DEF ManagerState
<1>5. manager' = [manager EXCEPT ![m] = to] BY <1>3 DEF AtStage
<1>6. /\ to.stage = s /\ to.op = x.op /\ to.id = x.id /\ to.expected = x.expected
      /\ to.name = x.name /\ to.seen = x.seen /\ to.late = x.late
  BY <1>2 DEF ManagerState
<1>7. /\ AskedFor(x, committed[x.id]) /\ Saw(x, committed[x.id])
      /\ Changed(x, options[x.id], committed[x.id])
      /\ \A o \in Managers \ {m} : DistinctCalls(x, manager[o])
  BY DEF OptionsInv
<1>8. manager'[m] = to /\ \A o \in Managers : o # m => manager'[o] = manager[o]
  BY <1>2, <1>5
<1>9. HasWritten(x) /\ s \in {"new", "done"} BY <1>1, <1>3 DEF HasWritten
<1> HIDE DEF to
<1>10. HasWritten(to) BY <1>6, <1>9 DEF HasWritten
<1>11. AskedFor(to, committed[to.id]) BY <1>1, <1>3, <1>6, <1>7 DEF AskedFor
<1>12. Saw(to, committed[to.id]) /\ Changed(to, options[to.id], committed[to.id])
  BY <1>6, <1>7, <1>9, <1>10 DEF Saw, Changed
<1>13. ChecksHold(to, options) BY <1>6, <1>9 DEF ChecksHold
<1>14. \A o \in Managers \ {m} : DistinctCalls(to, manager[o])
  BY <1>6, <1>7, <1>9, <1>10 DEF DistinctCalls
<1>15. cachedOption' = [n \in OptionNames |-> cachedOption'[n]]
  BY <1>2, <1>3 DEF RemovesEntry
<1>16. ASSUME NEW n \in OptionNames
       PROVE  \/ cachedOption'[n] = NoOption \/ n \in outdated'
              \/ cachedOption'[n] = CurrentIn(options, n)
              \/ \E o \in Managers : Covers(manager'[o], n)
  <2>1. n = c => cachedOption'[n] = NoOption \/ n \in outdated'
    BY <1>2, <1>3 DEF RemovesEntry
  <2>2. n # c => cachedOption'[n] = cachedOption[n] /\ (n \in outdated => n \in outdated')
    BY <1>2, <1>3 DEF RemovesEntry
  <2>3. \/ cachedOption[n] = NoOption \/ n \in outdated
        \/ cachedOption[n] = CurrentIn(options, n)
        \/ \E o \in Managers : Covers(manager[o], n)
    BY EntriesMean DEF OptionsInv
  <2>4. ASSUME NEW o \in Managers, Covers(manager[o], n), n # c
        PROVE  Covers(manager'[o], n)
    <3>1. CASE o # m BY <1>8, <2>4, <3>1
    <3>2. CASE o = m
      <4>1. s = "new" /\ n = x.name BY <1>3, <2>4, <3>2
      <4>2. Covers(to, n) BY <1>6, <4>1 DEF Covers
      <4> QED BY <1>8, <3>2, <4>2
    <3> QED BY <3>1, <3>2
  <2> QED BY <2>1, <2>2, <2>3, <2>4
<1> QED
  BY <1>1, <1>4, <1>5, <1>11, <1>12, <1>13, <1>14, <1>15, <1>16, ManagerMoves

LEMMA LookupsPreserve ==
  ASSUME OptionsInv, UNCHANGED <<options, versions, committed, raced, manager>>,
         cachedOption' = [n \in OptionNames |-> cachedOption'[n]],
         \A n \in OptionNames : \/ cachedOption'[n] = NoOption \/ n \in outdated'
                                \/ cachedOption'[n] = CurrentIn(options, n)
                                \/ /\ cachedOption'[n] = cachedOption[n]
                                   /\ n \in outdated => n \in outdated'
  PROVE  OptionsInv'
<1>1. ASSUME NEW n \in OptionNames
      PROVE  \/ cachedOption'[n] = NoOption \/ n \in outdated'
             \/ cachedOption'[n] = CurrentIn(options', n)
             \/ \E o \in Managers : Covers(manager'[o], n)
  <2>1. \/ cachedOption[n] = NoOption \/ n \in outdated
        \/ cachedOption[n] = CurrentIn(options, n)
        \/ \E o \in Managers : Covers(manager[o], n)
    BY EntriesMean DEF OptionsInv
  <2> QED BY <2>1
<1>2. OptionsTyped' BY DEF OptionsInv, OptionsTyped
<1>3. IsFiniteSet(Living(options')) /\ (raced' \/ NamesApart(options'))
  BY OptionsNow DEF OptionsInv
<1> QED BY <1>1, <1>2, <1>3, OptionsFollow DEF OptionsInv

LEMMA LookupStepsPreserve ==
  ASSUME OptionsInv,
         \/ \E l \in Lookups : ReadsEntry(l) \/ LoadsRow(l) \/ FillsEntry(l)
         \/ \E n \in OptionNames : EntryExpires(n)
  PROVE  OptionsInv'
<1>1. cachedOption = [n \in OptionNames |-> cachedOption[n]] BY DEF OptionsInv, OptionsTyped
<1>2. ASSUME NEW l \in Lookups, ReadsEntry(l) PROVE OptionsInv'
  BY <1>1, <1>2, LookupsPreserve DEF ReadsEntry, Store
<1>3. ASSUME NEW l \in Lookups, LoadsRow(l) PROVE OptionsInv'
  BY <1>1, <1>3, LookupsPreserve DEF LoadsRow, Store, CacheState
<1>4. ASSUME NEW l \in Lookups, FillsEntry(l) PROVE OptionsInv'
  <2>1. UNCHANGED <<options, versions, committed, raced, manager>>
    BY <1>4 DEF FillsEntry, Store
  <2>2. cachedOption' = [n \in OptionNames |-> cachedOption'[n]]
    BY <1>1, <1>4 DEF FillsEntry
  <2>3. \A n : CurrentOption(n) = CurrentIn(options, n)
    BY DEF CurrentOption, CurrentIn, Holding, HeldUnder, Present, Living
  <2>4. ASSUME NEW n \in OptionNames
        PROVE  \/ cachedOption'[n] = NoOption \/ n \in outdated'
               \/ cachedOption'[n] = CurrentIn(options, n)
               \/ /\ cachedOption'[n] = cachedOption[n]
                  /\ n \in outdated => n \in outdated'
    BY <1>1, <1>4, <2>3 DEF FillsEntry
  <2> QED BY <2>1, <2>2, <2>4, LookupsPreserve
<1>5. ASSUME NEW n \in OptionNames, EntryExpires(n) PROVE OptionsInv'
  <2>1. UNCHANGED <<options, versions, committed, raced, manager>>
    BY <1>5 DEF EntryExpires, Store
  <2>2. cachedOption' = [c \in OptionNames |-> cachedOption'[c]]
    BY <1>1, <1>5 DEF EntryExpires
  <2>3. ASSUME NEW c \in OptionNames
        PROVE  \/ cachedOption'[c] = NoOption
               \/ /\ cachedOption'[c] = cachedOption[c]
                  /\ c \in outdated => c \in outdated'
    BY <1>1, <1>5 DEF EntryExpires
  <2> QED BY <2>1, <2>2, <2>3, LookupsPreserve
<1> QED BY <1>2, <1>3, <1>4, <1>5

-----------------------------------------------------------------------------
(* What was before the last one.                                           *)
LEMMA BeforeAppended ==
  ASSUME NEW S, NEW s \in Seq(S), NEW x \in S
  PROVE  SubSeq(Append(s, x), 1, Len(Append(s, x)) - 1) = s
<1> DEFINE t == Append(s, x)
<1>1. /\ t \in Seq(S) /\ Len(t) - 1 = Len(s) /\ Len(s) \in Nat
      /\ \A n \in 1..Len(s) : t[n] = s[n]
  BY Appended
<1> HIDE DEF t
<1>2. \A n \in 1..Len(s) : s[n] \in S
  OBVIOUS
<1>3. \A n \in 1..Len(s) : t[n] \in S BY <1>1, <1>2
<1>4. /\ SubSeq(t, 1, Len(s)) \in Seq(S)
      /\ Len(SubSeq(t, 1, Len(s))) = IF 1 <= Len(s) THEN Len(s) - 1 + 1 ELSE 0
      /\ \A n \in 1..(Len(s) - 1 + 1) : SubSeq(t, 1, Len(s))[n] = t[1 + n - 1]
  BY <1>1, <1>3, SubSeqProperties
<1>5. Len(SubSeq(t, 1, Len(s))) = Len(s) BY <1>1, <1>4
<1>6. \A n \in 1..Len(s) : SubSeq(t, 1, Len(s))[n] = s[n]
  <2>1. SUFFICES ASSUME NEW n \in 1..Len(s) PROVE SubSeq(t, 1, Len(s))[n] = s[n]
    OBVIOUS
  <2>2. 1 + n - 1 = n /\ n \in 1..(Len(s) - 1 + 1) BY <1>1
  <2> QED BY <1>1, <1>4, <2>2
<1>7. SubSeq(t, 1, Len(s)) = s BY <1>4, <1>5, <1>6, SeqEqual
<1> QED BY <1>1, <1>7 DEF t

LEMMA AllButLast ==
  ASSUME NEW S, NEW s \in Seq(S), Len(s) # 0
  PROVE  Append(SubSeq(s, 1, Len(s) - 1), s[Len(s)]) = s
<1> DEFINE front == SubSeq(s, 1, Len(s) - 1)
<1>1. Len(s) \in Nat /\ \A n \in 1..Len(s) : s[n] \in S
  OBVIOUS
<1>2. Len(s) - 1 \in Nat /\ Len(s) \in 1..Len(s) /\ 1..(Len(s) - 1) \subseteq 1..Len(s)
  BY <1>1
<1>3. \A n \in 1..(Len(s) - 1) : s[n] \in S BY <1>1, <1>2
<1>4. /\ front \in Seq(S)
      /\ Len(front) = IF 1 <= Len(s) - 1 THEN Len(s) - 1 - 1 + 1 ELSE 0
      /\ \A n \in 1..(Len(s) - 1 - 1 + 1) : front[n] = s[1 + n - 1]
  BY <1>2, <1>3, SubSeqProperties
<1>5. Len(front) = Len(s) - 1
  <2>1. \A k \in Nat : (IF 1 <= k THEN k - 1 + 1 ELSE 0) = k
    OBVIOUS
  <2>2. Len(front) = IF 1 <= Len(s) - 1 THEN (Len(s) - 1) - 1 + 1 ELSE 0 BY <1>4
  <2> HIDE DEF front
  <2> QED BY <1>2, <2>1, <2>2
<1>6. \A n \in 1..(Len(s) - 1) : front[n] = s[n]
  <2>1. SUFFICES ASSUME NEW n \in 1..(Len(s) - 1) PROVE front[n] = s[n]
    OBVIOUS
  <2>2. 1 + n - 1 = n /\ n \in 1..(Len(s) - 1 - 1 + 1) BY <1>2
  <2> QED BY <1>4, <2>2
<1> HIDE DEF front
<1> DEFINE t == Append(front, s[Len(s)])
<1>7. /\ t \in Seq(S) /\ Len(t) = Len(front) + 1 /\ t[Len(front) + 1] = s[Len(s)]
      /\ \A n \in 1..Len(front) : t[n] = front[n]
  BY <1>1, <1>2, <1>4, Appended
<1> HIDE DEF t
<1>8. Len(t) = Len(s) BY <1>1, <1>5, <1>7
<1>9. \A n \in 1..Len(s) : t[n] = s[n]
  <2>1. SUFFICES ASSUME NEW n \in 1..Len(s) PROVE t[n] = s[n]
    OBVIOUS
  <2>2. n = Len(s) \/ n \in 1..(Len(s) - 1) BY <1>1
  <2>3. Len(front) + 1 = Len(s) BY <1>1, <1>5
  <2> QED BY <1>5, <1>6, <1>7, <2>2, <2>3
<1>10. t = s BY <1>7, <1>8, <1>9, SeqEqual
<1> QED BY <1>10 DEF front, t

LEMMA LeastExists ==
  ASSUME NEW S \in SUBSET Nat, IsFiniteSet(S), S # {}
  PROVE  \E m \in S : \A y \in S : m <= y
<1> DEFINE Below(x) == {y \in S : y < x}
           T == {Below(x) : x \in S}
<1>1. T \subseteq FiniteSubsetsOf(S)
  BY FS_Subset DEF FiniteSubsetsOf
<1>2. T # {}
  OBVIOUS
<1> HIDE DEF T
<1>3. PICK A \in T : \A B \in T : <<B, A>> \notin StrictSubsetOrdering(S)
  BY <1>1, <1>2, FS_StrictSubsetOrderingWellFounded, WFMin
<1>4. PICK m \in S : A = Below(m)
  BY <1>3 DEF T
<1>5. ASSUME NEW y \in S, y < m
      PROVE  FALSE
  <2>0. \A z \in S : z < y => z < m
    <3>1. y \in Nat /\ m \in Nat /\ S \subseteq Nat
      OBVIOUS
    <3>2. SUFFICES ASSUME NEW z \in S, z < y PROVE z < m
      OBVIOUS
    <3> QED BY <1>5, <3>1, <3>2
  <2>1. Below(y) \subseteq Below(m) /\ y \in Below(m) /\ y \notin Below(y)
    <3>1. ~(y < y)
      <4>1. y \in Nat OBVIOUS
      <4> QED BY <4>1
    <3> QED BY <1>5, <2>0, <3>1
  <2>2. Below(y) \in T
    BY DEF T
  <2>3. <<Below(y), Below(m)>> \in StrictSubsetOrdering(S)
    BY <2>1 DEF StrictSubsetOrdering
  <2> QED BY <1>3, <1>4, <2>2, <2>3
<1> QED BY <1>5

(* A row that neither had nor gets the name, or is not there, is not what  *)
(* a lookup of the name finds.                                             *)
LEMMA CurrentStays ==
  ASSUME NEW rows, NEW after, NEW id, NEW n, IsFiniteSet(Living(rows)),
         \A i \in OptionIds : i # id => after[i] = rows[i],
         rows[id] # NoOption => rows[id].name # n,
         after[id] # NoOption => after[id].name # n
  PROVE  CurrentIn(after, n) = CurrentIn(rows, n)
<1>1. HeldUnder(after, n) = HeldUnder(rows, n) BY DEF HeldUnder, Living
<1>2. CASE HeldUnder(rows, n) = {} BY <1>1, <1>2 DEF CurrentIn
<1>3. CASE HeldUnder(rows, n) # {}
  <2>1. HeldUnder(rows, n) \subseteq Living(rows) BY DEF HeldUnder
  <2>2. IsFiniteSet(HeldUnder(rows, n)) BY <2>1, FS_Subset
  <2>3. HeldUnder(rows, n) \in SUBSET Nat BY OptionsAssumption DEF HeldUnder, Living
  <2>4. \E i \in HeldUnder(rows, n) : \A j \in HeldUnder(rows, n) : i <= j
    BY <1>3, <2>2, <2>3, LeastExists
  <2> DEFINE least == CHOOSE i \in HeldUnder(rows, n) : \A j \in HeldUnder(rows, n) : i <= j
  <2>5. least \in HeldUnder(rows, n) BY <2>4
  <2>6. least # id /\ least \in OptionIds BY <2>5 DEF HeldUnder, Living
  <2>7. CurrentIn(rows, n) = rows[least] /\ CurrentIn(after, n) = after[least]
    BY <1>1, <1>3 DEF CurrentIn
  <2> QED BY <2>6, <2>7
<1> QED BY <1>2, <1>3

(* What the transaction of m does to the row: the one that is written, and *)
(* what is known before.                                                   *)
LEMMA WhatIsWritten ==
  ASSUME OptionsInv, NEW m \in Managers, manager[m].stage = "write",
         manager[m].op = "create" \/ Matching(m)
  PROVE  LET x == manager[m]
             here == options[x.id]
             had == committed[x.id]
         IN /\ x.op \in {"create", "update", "delete"} /\ x.id \in OptionIds
            /\ x.op = "create" => /\ had = <<>> /\ here = NoOption /\ x.expected = 0
                                  /\ Written(m).version = 1
            /\ x.op # "create" => /\ x.expected = Len(had) /\ here = x.seen
                                  /\ here # NoOption /\ here \in OptionRow
                                  /\ Len(had) # 0 /\ had[Len(had)] = here
            /\ x.op = "update" => Written(m).version = Len(had) + 1
            /\ x.op # "delete" => /\ Written(m) \in OptionRow /\ Written(m) # NoOption
                                  /\ Written(m).name = x.name /\ x.name \in OptionNames
            /\ x.op = "delete" => Written(m) = NoOption
            /\ Takes(m) <=> TakesName(x)
<1> DEFINE x == manager[m]
           here == options[x.id]
           had == committed[x.id]
<1>1. x \in ManagerState /\ options \in [OptionIds -> OptionRow \cup {NoOption}]
      /\ committed \in [OptionIds -> Seq(OptionRow)]
  BY DEF OptionsInv, OptionsTyped
<1>2. AskedFor(x, had) /\ Saw(x, had) BY DEF OptionsInv
<1>3. x.op \in {"create", "update", "delete"} /\ x.id \in OptionIds
  BY <1>1, <1>2 DEF AskedFor, ManagerState
<1>4. RowKept(here, had, versions[x.id]) BY <1>3 DEF OptionsInv
<1>5. had \in Seq(OptionRow) /\ here \in OptionRow \cup {NoOption} BY <1>1, <1>3
<1>6. Len(had) \in Nat BY <1>5, LenProperties
<1>7. ASSUME x.op = "create"
      PROVE  /\ had = <<>> /\ here = NoOption /\ x.expected = 0 /\ Written(m).version = 1
             /\ Written(m) \in OptionRow
  <2>1. had = <<>> /\ x.expected = 0 BY <1>2, <1>7 DEF AskedFor
  <2>2. here = NoOption BY <1>4, <2>1 DEF RowKept
  <2>3. x.name \in OptionNames /\ x.enabled \in BOOLEAN
    BY <1>1, <1>2, <1>7 DEF AskedFor, ManagerState
  <2>4. Written(m) = [name |-> x.name, version |-> 1, enabled |-> x.enabled,
                      builtIn |-> FALSE]
    BY <1>7 DEF Written
  <2>5. Written(m) \in OptionRow BY <2>3, <2>4 DEF OptionRow
  <2>6. Written(m).version = 1 BY <2>4
  <2> QED BY <2>1, <2>2, <2>5, <2>6
<1>8. ASSUME x.op # "create"
      PROVE  /\ x.expected = Len(had) /\ here = x.seen /\ here # NoOption
             /\ here \in OptionRow /\ Len(had) # 0 /\ had[Len(had)] = here
             /\ here.version = Len(had)
  <2>1. x.expected \in 1..Len(had) /\ x.seen = had[x.expected]
    BY <1>2, <1>3, <1>8 DEF AskedFor, Saw
  <2>2. x.seen.version = x.expected BY <1>4, <2>1 DEF RowKept
  <2>3. here.version = x.expected BY <1>8, <2>2 DEF Matching, SameVersion
  <2>4. x.expected # 0 BY <1>6, <2>1
  <2>5. here # NoOption BY <2>3, <2>4 DEF NoOption
  <2>6. Len(had) # 0 /\ had[Len(had)] = here BY <1>4, <2>5 DEF RowKept
  <2>7. Len(had) \in 1..Len(had) BY <1>6, <2>6
  <2>8. had[Len(had)].version = Len(had) BY <1>4, <2>7 DEF RowKept
  <2>9. here.version = Len(had) BY <2>6, <2>8
  <2>10. x.expected = Len(had) BY <2>3, <2>9
  <2>11. here = x.seen BY <2>1, <2>6, <2>10
  <2> QED BY <1>5, <2>5, <2>6, <2>9, <2>10, <2>11
<1>9. ASSUME x.op = "update"
      PROVE  /\ Written(m).version = Len(had) + 1 /\ Written(m) \in OptionRow
             /\ Written(m).name = x.name /\ x.name \in OptionNames
  <2>1. x.name \in OptionNames /\ x.enabled \in BOOLEAN
    BY <1>1, <1>2, <1>9 DEF AskedFor, ManagerState
  <2>2. x.seen \in OptionRow /\ x.seen.version = Len(had) BY <1>8, <1>9
  <2>3. Written(m) = [x.seen EXCEPT !.name = x.name, !.enabled = x.enabled, !.version = @ + 1]
    BY <1>9 DEF Written
  <2>4. PICK old, n, b, new :
          /\ old = x.seen /\ n = x.name /\ b = x.enabled /\ new = Written(m)
          /\ new = [old EXCEPT !.name = n, !.enabled = b, !.version = @ + 1]
    BY <2>3
  <2>5. old \in OptionRow /\ n \in OptionNames /\ b \in BOOLEAN BY <2>1, <2>2, <2>4
  <2>6. new.version = old.version + 1 /\ new.name = n BY <2>4, <2>5 DEF OptionRow
  <2>7. old.version + 1 \in Nat BY <2>5 DEF OptionRow
  <2>8. new \in OptionRow BY <2>4, <2>5, <2>7 DEF OptionRow
  <2> QED BY <2>1, <2>2, <2>4, <2>6, <2>8
<1>10. x.op = "delete" => Written(m) = NoOption BY DEF Written
<1>11. ASSUME x.op # "delete"
       PROVE  /\ Written(m) \in OptionRow /\ Written(m) # NoOption
              /\ Written(m).name = x.name /\ x.name \in OptionNames
  <2>1. Written(m) \in OptionRow BY <1>3, <1>7, <1>9, <1>11
  <2>2. x.name \in OptionNames BY <1>2, <1>3, <1>11 DEF AskedFor
  <2>3. Written(m).name = x.name
    <3>1. x.op = "create" => Written(m).name = x.name BY DEF Written
    <3> QED BY <1>3, <1>9, <1>11, <3>1
  <2>4. Written(m) # NoOption BY <2>2, <2>3, OptionsAssumption DEF NoOption
  <2> QED BY <2>1, <2>2, <2>3, <2>4
<1>12. Takes(m) <=> TakesName(x)
  <2>1. Takes(m) <=> \/ x.op = "create"
                     \/ x.op = "update" /\ x.name # x.seen.name
    BY DEF Takes
  <2>2. \A y : TakesName(y) <=> \/ y.op = "create"
                                \/ y.op = "update" /\ y.name # y.seen.name
    BY DEF TakesName
  <2> HIDE DEF x
  <2> QED BY <2>1, <2>2
<1> QED BY <1>3, <1>7, <1>8, <1>9, <1>10, <1>11, <1>12

(* It takes no name: what was living is no more than it was, under the same*)
(* names.                                                                  *)
LEMMA LivingShrinks ==
  ASSUME NEW rows, NEW after, NEW id, IsFiniteSet(Living(rows)),
         \A i \in OptionIds : i # id => after[i] = rows[i],
         after[id] # NoOption => rows[id] # NoOption /\ after[id].name = rows[id].name
  PROVE  /\ Living(after) \subseteq Living(rows) /\ IsFiniteSet(Living(after))
         /\ NamesApart(rows) => NamesApart(after)
         /\ \A x : ChecksHold(x, rows) => ChecksHold(x, after)
<1>1. /\ Living(after) \subseteq Living(rows)
      /\ \A i \in Living(after) : after[i].name = rows[i].name
  BY DEF Living
<1>2. IsFiniteSet(Living(after)) /\ Cardinality(Living(after)) <= Cardinality(Living(rows))
  BY <1>1, FS_Subset
<1>3. Cardinality(Living(after)) \in Nat /\ Cardinality(Living(rows)) \in Nat
  BY <1>2, FS_CardinalityType
<1>4. MaxOptions \in Nat BY OptionsAssumption
<1>5. NamesApart(rows) => NamesApart(after) BY <1>1, <1>2, <1>3, <1>4 DEF NamesApart
<1>6. \A j, n : Others(after, j, n) \subseteq Others(rows, j, n) BY <1>1 DEF Others
<1>7. \A x : ChecksHold(x, rows) => ChecksHold(x, after)
  <2>1. Cardinality(Living(rows)) < MaxOptions => Cardinality(Living(after)) < MaxOptions
    BY <1>2, <1>3, <1>4
  <2> QED BY <1>6, <2>1 DEF ChecksHold
<1> QED BY <1>1, <1>2, <1>5, <1>7

(* It takes a name, and room if it is new, that its checks found free.     *)
LEMMA NamesStay ==
  ASSUME NEW rows, NEW after, NEW id \in OptionIds, NEW name, IsFiniteSet(Living(rows)),
         \A i \in OptionIds : i # id => after[i] = rows[i],
         after[id] # NoOption, after[id].name = name
  PROVE  /\ IsFiniteSet(Living(after))
         /\ /\ Others(rows, id, name) = {} /\ NamesApart(rows)
            /\ rows[id] = NoOption => Cardinality(Living(rows)) < MaxOptions
           => NamesApart(after)
<1>1. Living(after) = Living(rows) \cup {id} BY DEF Living
<1>2. IsFiniteSet(Living(after)) BY <1>1, FS_AddElement
<1>3. ASSUME Others(rows, id, name) = {}, NamesApart(rows),
             rows[id] = NoOption => Cardinality(Living(rows)) < MaxOptions
      PROVE  NamesApart(after)
  <2>1. Cardinality(Living(rows)) \in Nat /\ MaxOptions \in Nat
    BY FS_CardinalityType, OptionsAssumption
  <2>2. Cardinality(Living(after)) <= MaxOptions
    <3>1. CASE id \in Living(rows)
      <4>1. Living(after) = Living(rows) BY <1>1, <3>1
      <4> QED BY <1>3, <4>1 DEF NamesApart
    <3>2. CASE id \notin Living(rows)
      <4>1. Cardinality(Living(after)) = Cardinality(Living(rows)) + 1
        BY <1>1, <3>2, FS_AddElement
      <4>2. rows[id] = NoOption BY <3>2 DEF Living
      <4> QED BY <1>3, <2>1, <4>1, <4>2
    <3> QED BY <3>1, <3>2
  <2>3. ASSUME NEW i \in Living(after), NEW j \in Living(after), i # j
        PROVE  after[i].name # after[j].name
    <3>1. \A k \in Living(after) : k # id => k \in Living(rows) /\ rows[k].name # name
      BY <1>1, <1>3 DEF Others
    <3>2. \A k \in Living(after) : k # id => after[k] = rows[k] BY DEF Living
    <3>3. CASE i = id \/ j = id BY <2>3, <3>1, <3>2, <3>3
    <3>4. CASE i # id /\ j # id
      <4>1. i \in Living(rows) /\ j \in Living(rows) BY <3>1, <3>4
      <4> QED BY <1>3, <2>3, <3>2, <3>4, <4>1 DEF NamesApart
    <3> QED BY <3>3, <3>4
  <2> QED BY <2>2, <2>3 DEF NamesApart
<1> QED BY <1>2, <1>3

(* The transaction commits.                                                *)
OptionCommits(m) ==
  /\ manager[m].op = "create" \/ Matching(m)
  /\ options' = [options EXCEPT ![manager[m].id] = Written(m)]
  /\ versions' = IF manager[m].op = "create" THEN versions
                 ELSE [versions EXCEPT ![manager[m].id] = Kept(m)]
  /\ committed' = IF manager[m].op = "delete" THEN committed
                  ELSE [committed EXCEPT ![manager[m].id] = Append(@, Written(m))]
  /\ raced' = (raced \/ (Takes(m) /\ manager[m].late))
  /\ manager' = [o \in Managers |->
                [manager[o] EXCEPT !.stage = IF o = m THEN "old" ELSE @,
                                   !.late = @ \/ (Takes(m) /\ o # m /\ Checked(o))]]
LEMMA OptionCommitPreserves ==
  ASSUME OptionsInv, NEW m \in Managers, manager[m].stage = "write", OptionCommits(m),
         UNCHANGED <<cachedOption, outdated>>
  PROVE  OptionsInv'
<1>0. manager[m].op = "create" \/ Matching(m) BY DEF OptionCommits
<1>1. PICK x, id, here, had, w :
        x = manager[m] /\ id = x.id /\ here = options[id] /\ had = committed[id]
        /\ w = Written(m)
  OBVIOUS
<1>2. /\ x.op \in {"create", "update", "delete"} /\ id \in OptionIds
      /\ x.op = "create" => /\ had = <<>> /\ here = NoOption /\ x.expected = 0
                            /\ w.version = 1
      /\ x.op # "create" => /\ x.expected = Len(had) /\ here = x.seen
                            /\ here # NoOption /\ here \in OptionRow
                            /\ Len(had) # 0 /\ had[Len(had)] = here
      /\ x.op = "update" => w.version = Len(had) + 1
      /\ x.op # "delete" => /\ w \in OptionRow /\ w # NoOption
                            /\ w.name = x.name /\ x.name \in OptionNames
      /\ x.op = "delete" => w = NoOption
      /\ Takes(m) <=> TakesName(x)
  BY <1>0, <1>1, WhatIsWritten
<1>3. /\ options \in [OptionIds -> OptionRow \cup {NoOption}]
      /\ versions \in [OptionIds -> Seq(OptionRow)]
      /\ committed \in [OptionIds -> Seq(OptionRow)]
      /\ manager \in [Managers -> ManagerState] /\ raced \in BOOLEAN
  BY DEF OptionsInv, OptionsTyped
<1>4. had \in Seq(OptionRow) /\ Len(had) \in Nat
  BY <1>1, <1>2, <1>3, LenProperties
<1>5. /\ options'[id] = w /\ \A i \in OptionIds : i # id => options'[i] = options[i]
      /\ committed'[id] = IF x.op = "delete" THEN had ELSE Append(had, w)
      /\ \A i \in OptionIds : i # id => committed'[i] = committed[i]
      /\ versions'[id] = IF x.op = "create" THEN versions[id] ELSE Append(versions[id], here)
      /\ \A i \in OptionIds : i # id => versions'[i] = versions[i]
  <2>1. options'[id] = w /\ \A i \in OptionIds : i # id => options'[i] = options[i]
    BY <1>1, <1>2, <1>3 DEF OptionCommits
  <2>2. /\ committed'[id] = IF x.op = "delete" THEN had ELSE Append(had, w)
        /\ \A i \in OptionIds : i # id => committed'[i] = committed[i]
    BY <1>1, <1>2, <1>3 DEF OptionCommits
  <2>3. x.op # "create" => Kept(m) = Append(versions[id], here)
    BY <1>1, <1>2 DEF Kept, Snapshot
  <2>4. /\ versions'[id] = IF x.op = "create" THEN versions[id] ELSE Append(versions[id], here)
        /\ \A i \in OptionIds : i # id => versions'[i] = versions[i]
    BY <1>1, <1>2, <1>3, <2>3 DEF OptionCommits
  <2> QED BY <2>1, <2>2, <2>4
<1>60. ASSUME NEW o \in Managers
      PROVE  /\ manager'[o] \in ManagerState
             /\ manager'[o].stage = IF o = m THEN "old" ELSE manager[o].stage
             /\ manager'[o].op = manager[o].op /\ manager'[o].id = manager[o].id
             /\ manager'[o].expected = manager[o].expected
             /\ manager'[o].name = manager[o].name /\ manager'[o].seen = manager[o].seen
             /\ manager'[o].late = (manager[o].late \/ (Takes(m) /\ o # m /\ Checked(o)))
  <2>1. PICK y, b, s : /\ y = manager[o] /\ s = (IF o = m THEN "old" ELSE y.stage)
                       /\ b = (y.late \/ (Takes(m) /\ o # m /\ Checked(o)))
    OBVIOUS
  <2>2. y \in ManagerState /\ b \in BOOLEAN BY <1>3, <2>1
  <2>3. manager'[o] = [y EXCEPT !.stage = s, !.late = b] BY <2>1 DEF OptionCommits
  <2>4. s \in {"old", y.stage} BY <2>1
  <2>5. [y EXCEPT !.stage = s, !.late = b] \in ManagerState
    BY <2>2, <2>4 DEF ManagerState
  <2>6. /\ manager'[o].stage = s /\ manager'[o].op = y.op /\ manager'[o].id = y.id
        /\ manager'[o].expected = y.expected /\ manager'[o].name = y.name
        /\ manager'[o].seen = y.seen
    BY <2>2, <2>3 DEF ManagerState
  <2>7. manager'[o].late = b BY <2>2, <2>3 DEF ManagerState
  <2> QED BY <2>1, <2>3, <2>5, <2>6, <2>7
<1>6. ASSUME NEW o \in Managers
      PROVE  /\ manager'[o] \in ManagerState
             /\ manager'[o].stage = IF o = m THEN "old" ELSE manager[o].stage
             /\ manager'[o].op = manager[o].op /\ manager'[o].id = manager[o].id
             /\ manager'[o].expected = manager[o].expected
             /\ manager'[o].name = manager[o].name /\ manager'[o].seen = manager[o].seen
  BY <1>60
<1>61. ASSUME NEW o \in Managers, o # m
       PROVE  /\ manager[o].late => manager'[o].late
              /\ TakesName(x) /\ Checked(o) => manager'[o].late
  <2>1. PICK b, c, d, e : /\ b = manager[o].late /\ c = manager'[o].late
                          /\ d = Takes(m) /\ e = Checked(o)
    OBVIOUS
  <2>2. c = (b \/ (d /\ e)) BY <1>60, <1>61, <2>1
  <2>3. d <=> TakesName(x) BY <1>2, <2>1
  <2> QED BY <2>1, <2>2, <2>3
<1>7. OptionsTyped'
  <2>1. options' \in [OptionIds -> OptionRow \cup {NoOption}]
    <3>1. w \in OptionRow \cup {NoOption} BY <1>2
    <3> QED BY <1>1, <1>3, <3>1 DEF OptionCommits
  <2>2. committed' \in [OptionIds -> Seq(OptionRow)]
    <3>1. x.op # "delete" => Append(had, w) \in Seq(OptionRow) BY <1>2, <1>4
    <3>2. committed' = IF x.op = "delete" THEN committed
                       ELSE [committed EXCEPT ![id] = Append(had, w)]
      BY <1>1, <1>2, <1>3 DEF OptionCommits
    <3> QED BY <1>3, <3>1, <3>2
  <2>3. versions' \in [OptionIds -> Seq(OptionRow)]
    <3>1. x.op # "create" => Append(versions[id], here) \in Seq(OptionRow)
      BY <1>2, <1>3
    <3>2. x.op # "create" => Kept(m) = Append(versions[id], here)
      BY <1>1, <1>2 DEF Kept, Snapshot
    <3>3. versions' = IF x.op = "create" THEN versions
                      ELSE [versions EXCEPT ![id] = Kept(m)]
      BY <1>1 DEF OptionCommits
    <3> QED BY <1>3, <3>1, <3>2, <3>3
  <2>4. manager' \in [Managers -> ManagerState]
    <3>1. manager' = [o \in Managers |-> manager'[o]] BY DEF OptionCommits
    <3> QED BY <1>6, <3>1
  <2>5. cachedOption' = [n \in OptionNames |-> cachedOption'[n]]
    BY DEF OptionsInv, OptionsTyped
  <2>6. raced' \in BOOLEAN BY <1>3 DEF OptionCommits
  <2> QED BY <2>1, <2>2, <2>3, <2>4, <2>5, <2>6 DEF OptionsTyped
<1>8. ASSUME NEW i \in OptionIds
      PROVE  RowKept(options'[i], committed'[i], versions'[i])
  <2>1. RowKept(options[i], committed[i], versions[i]) BY DEF OptionsInv
  <2>2. CASE i # id BY <1>5, <2>1, <2>2
  <2>3. CASE i = id
    <3>1. RowKept(here, had, versions[id]) BY <1>1, <2>1, <2>3
    <3>2. x.op # "create" => versions'[id] = had
      <4>1. x.op # "create" => versions[id] = SubSeq(had, 1, Len(had) - 1)
        BY <1>2, <3>1 DEF RowKept
      <4> QED BY <1>2, <1>4, <1>5, <4>1, AllButLast
    <3>3. x.op = "create" => versions'[id] = had
      BY <1>2, <1>5, <3>1 DEF RowKept
    <3>4. CASE x.op = "delete"
      BY <1>2, <1>5, <2>3, <3>1, <3>2, <3>4 DEF RowKept
    <3>5. CASE x.op # "delete"
      <4>1. PICK t : t = Append(had, w) OBVIOUS
      <4>2. /\ Len(t) = Len(had) + 1 /\ t[Len(had) + 1] = w
            /\ \A v \in 1..Len(had) : t[v] = had[v]
        BY <1>2, <1>4, <3>5, <4>1, Appended
      <4>3. SubSeq(t, 1, Len(t) - 1) = had BY <1>2, <1>4, <3>5, <4>1, BeforeAppended
      <4>4. w.version = Len(had) + 1
        <5>1. x.op = "create" => Len(had) = 0 BY <1>2
        <5> QED BY <1>2, <3>5, <5>1
      <4>5. \A v \in 1..Len(t) : t[v].version = v
        <5>1. \A v \in 1..Len(t) : v \in 1..Len(had) \/ v = Len(had) + 1
          BY <1>4, <4>2
        <5>2. \A v \in 1..Len(had) : had[v].version = v BY <3>1 DEF RowKept
        <5> QED BY <4>2, <4>4, <5>1, <5>2
      <4>6. Len(t) # 0 /\ t[Len(t)] = w BY <1>4, <4>2
      <4>7. w # NoOption /\ versions'[id] = had BY <1>2, <3>2, <3>3, <3>5
      <4>8. RowKept(w, t, had) BY <4>3, <4>5, <4>6, <4>7 DEF RowKept
      <4> QED BY <1>5, <2>3, <3>5, <4>1, <4>7, <4>8
    <3> QED BY <3>4, <3>5
  <2> QED BY <2>2, <2>3
<1>9. /\ x \in ManagerState /\ x.stage = "write" /\ AskedFor(x, had) /\ Saw(x, had)
      /\ \A o \in Managers \ {m} : DistinctCalls(x, manager[o])
  BY <1>1, <1>3 DEF OptionsInv
<1>10. PICK after : after = committed'[id] OBVIOUS
<1>11. /\ Len(after) \in Nat /\ Len(had) <= Len(after)
       /\ \A v \in 1..Len(had) : v \in 1..Len(after) /\ after[v] = had[v]
       /\ x.op # "delete" => Len(after) = Len(had) + 1
  <2>1. CASE x.op = "delete" BY <1>4, <1>5, <1>10, <2>1
  <2>2. CASE x.op # "delete"
    <3>1. after = Append(had, w) BY <1>5, <1>10, <2>2
    <3>2. /\ Len(after) = Len(had) + 1
          /\ \A v \in 1..Len(had) : after[v] = had[v]
      BY <1>2, <1>4, <2>2, <3>1, Appended
    <3>3. \A v \in 1..Len(had) : v \in 1..Len(after) BY <1>4, <3>2
    <3> QED BY <1>4, <3>2, <3>3
  <2> QED BY <2>1, <2>2
<1>12. ASSUME NEW o \in Managers, o = m
       PROVE  /\ AskedFor(manager'[o], committed'[manager'[o].id])
              /\ Saw(manager'[o], committed'[manager'[o].id])
              /\ Changed(manager'[o], options'[manager'[o].id], committed'[manager'[o].id])
              /\ ChecksHold(manager'[o], options')
  <2>1. PICK y : y = manager'[o] OBVIOUS
  <2>2. /\ y.stage = "old" /\ y.op = x.op /\ y.id = id /\ y.expected = x.expected
        /\ y.name = x.name /\ y.seen = x.seen
    BY <1>1, <1>6, <1>12, <2>1
  <2>3. AskedFor(y, after) BY <1>2, <1>9, <1>11, <2>2 DEF AskedFor
  <2>4. Saw(y, after)
    <3>1. x.op \in {"update", "delete"} => x.seen = had[x.expected] /\ x.expected \in 1..Len(had)
      BY <1>9 DEF Saw, AskedFor
    <3> QED BY <1>11, <2>2, <3>1 DEF Saw
  <2>5. Changed(y, options'[id], after)
    <3>1. x.op = "delete" => options'[id] = NoOption BY <1>2, <1>5
    <3>2. x.op = "update" => x.expected < Len(after) BY <1>2, <1>4, <1>11
    <3> QED BY <2>2, <3>1, <3>2 DEF Changed
  <2>6. ChecksHold(y, options') BY <2>2 DEF ChecksHold
  <2> QED BY <1>10, <2>1, <2>2, <2>3, <2>4, <2>5, <2>6
<1>13. IsFiniteSet(Living(options)) BY OptionsNow DEF OptionsInv
<1>14. ~TakesName(x) /\ w # NoOption => here # NoOption /\ w.name = here.name
  <2>1. ASSUME ~TakesName(x), w # NoOption PROVE here # NoOption /\ w.name = here.name
    <3>1. x.op = "update" /\ x.name = x.seen.name BY <1>2, <2>1 DEF TakesName
    <3> QED BY <1>2, <3>1
  <2> QED BY <2>1
<1>15. ~TakesName(x) => /\ IsFiniteSet(Living(options'))
                        /\ NamesApart(options) => NamesApart(options')
                        /\ \A y : ChecksHold(y, options) => ChecksHold(y, options')
  <2>1. PICK new : new = options' OBVIOUS
  <2>2. /\ \A i \in OptionIds : i # id => new[i] = options[i]
        /\ new[id] = w
    BY <1>5, <2>1
  <2>3. ASSUME ~TakesName(x)
        PROVE  /\ IsFiniteSet(Living(new)) /\ (NamesApart(options) => NamesApart(new))
               /\ \A y : ChecksHold(y, options) => ChecksHold(y, new)
    <3>1. new[id] # NoOption => options[id] # NoOption /\ new[id].name = options[id].name
      BY <1>1, <1>14, <2>2, <2>3
    <3> QED BY <1>13, <2>2, <3>1, LivingShrinks
  <2> QED BY <2>1, <2>3
<1>16. ASSUME NEW o \in Managers, o # m
       PROVE  /\ AskedFor(manager'[o], committed'[manager'[o].id])
              /\ Saw(manager'[o], committed'[manager'[o].id])
              /\ Changed(manager'[o], options'[manager'[o].id], committed'[manager'[o].id])
              /\ ChecksHold(manager'[o], options')
  <2>1. PICK y, z : y = manager'[o] /\ z = manager[o] OBVIOUS
  <2>2. /\ y.stage = z.stage /\ y.op = z.op /\ y.id = z.id /\ y.expected = z.expected
        /\ y.name = z.name /\ y.seen = z.seen
    BY <1>6, <1>16, <2>1
  <2>8. (z.late => y.late) /\ (TakesName(x) /\ Checked(o) => y.late)
    BY <1>16, <1>61, <2>1
  <2>3. /\ AskedFor(z, committed[z.id]) /\ Saw(z, committed[z.id])
        /\ Changed(z, options[z.id], committed[z.id]) /\ ChecksHold(z, options)
        /\ DistinctCalls(x, z)
    BY <1>1, <1>16, <2>1 DEF OptionsInv
  <2>4. z \in ManagerState BY <1>3, <2>1
  <2>5. ASSUME z.id # id
        PROVE  /\ AskedFor(y, committed'[y.id]) /\ Saw(y, committed'[y.id])
               /\ Changed(y, options'[y.id], committed'[y.id])
    <3>1. z.stage # "idle" => committed'[z.id] = committed[z.id] /\ options'[z.id] = options[z.id]
      BY <1>5, <2>3, <2>5 DEF AskedFor
    <3>2. CASE z.stage = "idle"
      <4>1. z.op = "none" BY <2>3, <3>2 DEF AskedFor
      <4>2. AskedFor(y, committed'[y.id]) BY <2>2, <3>2, <4>1 DEF AskedFor
      <4>3. Saw(y, committed'[y.id]) /\ Changed(y, options'[y.id], committed'[y.id])
        BY <2>2, <3>2, <4>1 DEF Saw, Changed, HasWritten
      <4> QED BY <4>2, <4>3
    <3>3. CASE z.stage # "idle"
      <4>1. AskedFor(y, committed[z.id]) BY <2>2, <2>3 DEF AskedFor
      <4>2. Saw(y, committed[z.id]) /\ Changed(y, options[z.id], committed[z.id])
        BY <2>2, <2>3 DEF Saw, Changed, HasWritten
      <4> QED BY <2>2, <3>1, <3>3, <4>1, <4>2
    <3> QED BY <3>2, <3>3
  <2>6. ASSUME z.id = id
        PROVE  /\ AskedFor(y, committed'[y.id]) /\ Saw(y, committed'[y.id])
               /\ Changed(y, options'[y.id], committed'[y.id])
    <3>1. AskedFor(z, had) /\ Saw(z, had) /\ Changed(z, here, had) BY <1>1, <2>3, <2>6
    <3>2. z.op = "create" => z.stage \notin {"room", "names", "write"}
      <4>1. ASSUME z.op = "create", z.stage \in {"room", "names", "write"} PROVE FALSE
        <5>1. had = <<>> BY <3>1, <4>1 DEF AskedFor
        <5>2. Len(had) = 0 BY <5>1
        <5>3. x.op = "create" BY <1>2, <5>2
        <5> QED BY <1>1, <2>3, <2>6, <4>1, <5>3 DEF DistinctCalls
      <4> QED BY <4>1
    <3>3. z.op \in {"update", "delete"} => z.expected \in 1..Len(had) /\ z.expected \in 1..Len(after)
      BY <1>11, <3>1 DEF AskedFor
    <3>4. AskedFor(y, after) BY <2>2, <3>1, <3>2, <3>3 DEF AskedFor
    <3>5. Saw(y, after)
      <4>1. z.op \in {"update", "delete"} => after[z.expected] = had[z.expected]
        BY <1>11, <3>3
      <4> QED BY <2>2, <3>1, <4>1 DEF Saw, HasWritten
    <3>6. Changed(y, options'[id], after)
      <4>1. ASSUME HasWritten(z), z.op = "update" PROVE z.expected < Len(after)
        <5>1. z.expected < Len(had) BY <3>1, <4>1 DEF Changed
        <5>2. z.expected \in Nat BY <2>4 DEF ManagerState
        <5> QED BY <1>4, <1>11, <5>1, <5>2
      <4>2. ASSUME HasWritten(z), z.op = "delete" PROVE FALSE
        <5>1. here = NoOption /\ z.expected \in 1..Len(had) BY <3>1, <3>3, <4>2 DEF Changed
        <5>2. x.op = "create" BY <1>2, <5>1
        <5>3. Len(had) = 0 BY <1>2, <5>2
        <5> QED BY <5>1, <5>3
      <4> QED BY <2>2, <4>1, <4>2 DEF Changed, HasWritten
    <3> QED BY <1>10, <2>2, <2>6, <3>4, <3>5, <3>6
  <2>7. ChecksHold(y, options')
    <3>1. CASE ~TakesName(x)
      <4>1. ChecksHold(z, options') BY <1>15, <2>3, <3>1
      <4> QED BY <2>2, <2>8, <4>1 DEF ChecksHold, TakesName
    <3>2. CASE TakesName(x) /\ y.late BY <3>2 DEF ChecksHold
    <3>3. CASE ~Checked(o)
      <4>1. z.stage # "write" /\ ~(z.stage = "names" /\ z.op = "create")
        BY <2>1, <3>3 DEF Checked
      <4> QED BY <2>2, <4>1 DEF ChecksHold
    <3> QED BY <2>8, <3>1, <3>2, <3>3
  <2> QED BY <2>1, <2>5, <2>6, <2>7
<1>17. ASSUME NEW o \in Managers, o # m
       PROVE  DistinctCalls(manager'[m], manager'[o]) /\ DistinctCalls(manager'[o], manager'[m])
  <2>1. PICK y, z, t : y = manager'[o] /\ z = manager[o] /\ t = manager'[m] OBVIOUS
  <2>2. /\ y.stage = z.stage /\ y.op = z.op /\ y.id = z.id /\ y.expected = z.expected
        /\ t.op = x.op /\ t.id = id /\ t.expected = x.expected
    BY <1>1, <1>6, <1>17, <2>1
  <2>3. /\ AskedFor(z, committed[z.id]) /\ Changed(z, options[z.id], committed[z.id])
        /\ DistinctCalls(x, z) /\ z \in ManagerState
    BY <1>1, <1>3, <1>17, <2>1 DEF OptionsInv
  <2>4. t.op = "create" /\ y.op = "create" => t.id # y.id
    BY <1>1, <2>2, <2>3 DEF DistinctCalls
  <2>5. ASSUME HasWritten(y), y.id = id PROVE x.expected # y.expected
    <3>1. HasWritten(z) /\ z.id = id BY <2>2, <2>5 DEF HasWritten
    <3>2. AskedFor(z, had) /\ Changed(z, here, had) BY <1>1, <2>3, <3>1
    <3>3. z.op \in {"create", "update", "delete"}
      BY <2>3, <3>1, <3>2 DEF AskedFor, ManagerState, HasWritten
    <3>4. z.expected \in Nat BY <2>3 DEF ManagerState
    <3>5. CASE x.op = "create"
      <4>1. Len(had) = 0 /\ x.expected = 0 BY <1>2, <3>5
      <4>2. z.op # "create" BY <1>1, <2>3, <3>1, <3>5 DEF DistinctCalls
      <4>3. z.expected \in 1..Len(had) BY <3>2, <3>3, <4>2 DEF AskedFor
      <4> QED BY <4>1, <4>3
    <3>6. CASE x.op # "create"
      <4>1. x.expected = Len(had) /\ Len(had) # 0 /\ here # NoOption BY <1>2, <3>6
      <4>2. CASE z.op = "create"
        <5>1. z.expected = 0 BY <3>2, <4>2 DEF AskedFor
        <5> QED BY <2>2, <4>1, <5>1
      <4>3. CASE z.op = "update"
        <5>1. z.expected < Len(had) BY <3>1, <3>2, <4>3 DEF Changed
        <5> QED BY <1>4, <2>2, <3>4, <4>1, <5>1
      <4>4. CASE z.op = "delete"
        BY <3>1, <3>2, <4>1, <4>4 DEF Changed
      <4> QED BY <3>3, <4>2, <4>3, <4>4
    <3> QED BY <3>5, <3>6
  <2> QED BY <2>1, <2>2, <2>4, <2>5 DEF DistinctCalls
<1>18. ASSUME NEW k \in Managers, NEW o \in Managers, k # o
       PROVE  DistinctCalls(manager'[k], manager'[o])
  <2>1. CASE k = m BY <1>17, <1>18, <2>1
  <2>2. CASE o = m BY <1>17, <1>18, <2>2
  <2>3. CASE k # m /\ o # m
    <3>1. PICK a, b, c, d : /\ a = manager[k] /\ b = manager[o]
                            /\ c = manager'[k] /\ d = manager'[o]
      OBVIOUS
    <3>2. /\ c.stage = a.stage /\ c.op = a.op /\ c.id = a.id /\ c.expected = a.expected
          /\ d.stage = b.stage /\ d.op = b.op /\ d.id = b.id /\ d.expected = b.expected
      BY <1>6, <2>3, <3>1
    <3>3. DistinctCalls(a, b) BY <1>18, <3>1 DEF OptionsInv
    <3>4. DistinctCalls(c, d) BY <3>2, <3>3 DEF DistinctCalls, HasWritten
    <3> QED BY <3>1, <3>4
  <2> QED BY <2>1, <2>2, <2>3
<1>19. IsFiniteSet(Living(options')) /\ (raced' \/ NamesApart(options'))
  <2>1. (raced \/ NamesApart(options)) /\ (raced => raced') BY OptionsNow DEF OptionsInv,
       OptionCommits
  <2>2. CASE ~TakesName(x) BY <1>15, <2>1, <2>2
  <2>3. CASE TakesName(x)
    <3>1. x.op # "delete" BY <2>3 DEF TakesName
    <3>2. PICK new, name : new = options' /\ name = x.name OBVIOUS
    <3>3. /\ \A i \in OptionIds : i # id => new[i] = options[i]
          /\ new[id] # NoOption /\ new[id].name = name
      BY <1>2, <1>5, <3>1, <3>2
    <3>4. /\ IsFiniteSet(Living(new))
          /\ /\ Others(options, id, name) = {} /\ NamesApart(options)
             /\ options[id] = NoOption => Cardinality(Living(options)) < MaxOptions
            => NamesApart(new)
      BY <1>2, <1>13, <3>3, NamesStay
    <3>5. CASE x.late
      <4>1. Takes(m) /\ manager[m].late BY <1>1, <1>2, <2>3, <3>5
      <4>2. raced' BY <4>1 DEF OptionCommits
      <4> QED BY <3>2, <3>4, <4>2
    <3>6. CASE ~x.late
      <4>1. ChecksHold(x, options) BY <1>1 DEF OptionsInv
      <4>2. Others(options, id, name) = {}
        BY <1>1, <1>9, <2>3, <3>2, <3>6, <4>1 DEF ChecksHold
      <4>3. options[id] = NoOption => Cardinality(Living(options)) < MaxOptions
        <5>1. options[id] = NoOption => x.op = "create" BY <1>1, <1>2
        <5> QED BY <1>9, <3>6, <4>1, <5>1 DEF ChecksHold
      <4> QED BY <2>1, <3>2, <3>4, <4>2, <4>3
    <3> QED BY <3>5, <3>6
  <2> QED BY <2>2, <2>3
<1>20. ASSUME NEW n \in OptionNames
       PROVE  \/ cachedOption'[n] = NoOption \/ n \in outdated'
              \/ cachedOption'[n] = CurrentIn(options', n)
              \/ \E o \in Managers : Covers(manager'[o], n)
  <2>1. \/ cachedOption[n] = NoOption \/ n \in outdated
        \/ cachedOption[n] = CurrentIn(options, n)
        \/ \E o \in Managers : Covers(manager[o], n)
    BY EntriesMean DEF OptionsInv
  <2>2. CASE \E o \in Managers : Covers(manager[o], n)
    <3>1. PICK o \in Managers : Covers(manager[o], n) BY <2>2
    <3>2. o # m BY <1>1, <1>9, <3>1 DEF Covers
    <3>3. PICK y, z : y = manager'[o] /\ z = manager[o] OBVIOUS
    <3>4. y.stage = z.stage /\ y.op = z.op /\ y.name = z.name /\ y.seen = z.seen
      BY <1>6, <3>2, <3>3
    <3>5. Covers(y, n) BY <3>1, <3>3, <3>4 DEF Covers
    <3> QED BY <3>3, <3>5
  <2>3. CASE cachedOption[n] = CurrentIn(options, n)
    <3>1. PICK y : y = manager'[m] OBVIOUS
    <3>2. y.stage = "old" /\ y.op = x.op /\ y.name = x.name /\ y.seen = x.seen
      BY <1>1, <1>6, <3>1
    <3>3. CASE Covers(y, n) BY <3>1, <3>3
    <3>4. CASE ~Covers(y, n)
      <4>1. n # x.name /\ (x.op # "create" => n # x.seen.name)
        BY <3>2, <3>4 DEF Covers
      <4>2. PICK new : new = options' OBVIOUS
      <4>3. options[id] # NoOption => options[id].name # n BY <1>1, <1>2, <4>1
      <4>4. new[id] # NoOption => new[id].name # n BY <1>2, <1>5, <4>1, <4>2
      <4>5. CurrentIn(new, n) = CurrentIn(options, n)
        BY <1>5, <1>13, <4>2, <4>3, <4>4, CurrentStays
      <4> QED BY <2>3, <4>2, <4>5
    <3> QED BY <3>3, <3>4
  <2> QED BY <2>1, <2>2, <2>3
<1> QED BY <1>7, <1>8, <1>12, <1>16, <1>18, <1>19, <1>20, OptionsFollow

LEMMA TransactsPreserves ==
  ASSUME OptionsInv, NEW m \in Managers, Transacts(m)
  PROVE  OptionsInv'
<1>1. manager[m].stage = "write" /\ UNCHANGED <<cachedOption, outdated>>
  BY DEF Transacts, CacheState
<1>2. CASE manager[m].op = "create" \/ Matching(m)
  <2>1. CASE AtStage(m, "refused") /\ UNCHANGED <<options, versions, committed, raced>>
    BY <1>1, <2>1, ReachesStage
  <2>2. CASE ~(AtStage(m, "refused") /\ UNCHANGED <<options, versions, committed, raced>>)
    BY <1>1, <1>2, <2>2, OptionCommitPreserves DEF Transacts, OptionCommits
  <2> QED BY <2>1, <2>2
<1>3. CASE ~(manager[m].op = "create" \/ Matching(m))
  <2>1. AtStage(m, "refused") /\ UNCHANGED <<options, versions, committed, raced>>
    BY <1>3 DEF Transacts
  <2> QED BY <1>1, <2>1, ReachesStage
<1> QED BY <1>2, <1>3

LEMMA OptionsPreserve ==
  ASSUME OptionsInv, [OptionsNext]_optionsVars
  PROVE  OptionsInv'
<1>1. CASE UNCHANGED optionsVars
  <2>1. cachedOption = [n \in OptionNames |-> cachedOption[n]] BY DEF OptionsInv, OptionsTyped
  <2> QED BY <1>1, <2>1, LookupsPreserve DEF optionsVars
<1>2. ASSUME NEW m \in Managers,
             \/ Requested(m) \/ ReadsRow(m) \/ CountsRows(m) \/ CountsNames(m)
             \/ Transacts(m) \/ ClearsOld(m) \/ ClearsNew(m)
      PROVE  OptionsInv'
  BY <1>2, RequestedPreserves, ReadsRowPreserves, CountsRowsPreserves, CountsNamesPreserves,
     TransactsPreserves, OptionClearsPreserves
<1> QED BY <1>1, <1>2, LookupStepsPreserve DEF OptionsNext

LEMMA OptionsInvMeans == OptionsInv => OptionsAreSound
<1> SUFFICES ASSUME OptionsInv PROVE OptionsAreSound
  OBVIOUS
<1>1. ASSUME NEW i \in OptionIds
      PROVE  /\ versions[i] = IF options[i] = NoOption THEN committed[i]
                              ELSE SubSeq(committed[i], 1, Len(committed[i]) - 1)
             /\ \A v \in 1..Len(committed[i]) : committed[i][v].version = v
  BY DEF OptionsInv, RowKept
<1>2. ASSUME NEW m \in Managers, NEW o \in Managers,
             manager[m].stage \in {"old", "new", "done"},
             manager[o].stage \in {"old", "new", "done"},
             m # o, manager[m].id = manager[o].id
      PROVE  manager[m].expected # manager[o].expected
  BY <1>2 DEF OptionsInv, DistinctCalls, HasWritten
<1>3. NoChangeIsLost BY <1>1, <1>2 DEF NoChangeIsLost
<1> QED BY <1>3 DEF OptionsInv, OptionsAreSound

(* However managers create, change and delete, with row locks or without,  *)
(* and whatever cache commands are lost: no change of an option is lost,   *)
(* names stay apart and the limit is kept unless two transactions took them*)
(* over each other's check, and a cached row is the one of the database    *)
(* unless its removal is to come, has failed or was overtaken.             *)
THEOREM OptionsSafe == OptionsSpec => []OptionsAreSound
<1>1. OptionsInv /\ [OptionsNext]_optionsVars => OptionsInv' BY OptionsPreserve
<1> QED BY <1>1, OptionsInitially, OptionsInvMeans, PTL DEF OptionsSpec

-----------------------------------------------------------------------------
(* What the query cache answers is as new as the last invalidation.        *)

\* Where a call stands.
QueryStages == Verifying \cup {"idle", "lookup", "database", "save", "commit", "invalidate",
                               "done", "failed"}
QueryState == [stage : QueryStages, generation : Nat, creating : BOOLEAN, attempts : 0..2,
               seen : 0..NoEntry, floor : Nat]
TableType ==
  /\ table \in Nat /\ generation \in Nat /\ drawn \in Nat /\ announced \in Nat
  /\ evictions \in 0..MaxEvictions
  /\ payload \in [Draws -> 0..NoEntry]
  /\ query \in [TableCalls -> QueryState]

\* Every commit is the one of a writer, and every draw that of a writer or the
\* replacement of a generation that was lost.
TableCommitted == {w \in TableWriters : query[w].stage \in {"invalidate", "done"}}
Invalidated == {w \in TableWriters : query[w].stage = "done"}
TableCountInv ==
  /\ table <= Cardinality(TableCommitted)
  /\ drawn <= Cardinality(Invalidated) + evictions + (IF generation = 0 THEN 0 ELSE 1)

\* Nothing is stored under a generation before it is drawn, and nothing older than
\* the last invalidation under the one that counts.
TableEntryInv ==
  /\ generation <= drawn /\ announced <= table
  /\ \A g \in Draws : g > drawn => payload[g] = NoEntry
  /\ GenerationIsCurrent

\* What a call holds: rows not older than it may answer with, and, if the generation it
\* started from is still the one that counts, not older than the last invalidation.
SoundAnswer(c, q) ==
  /\ q.stage = "idle" => q.floor = 0
  /\ q.creating => q.stage \in Verifying
  /\ q.stage \in {"commit", "invalidate"} => c \in TableWriters
  /\ q.generation <= drawn /\ q.floor <= announced
  /\ q.stage \in {"recheck", "save", "commit", "invalidate", "done"} => q.seen >= q.floor
  /\ q.stage \in {"confirm", "recheck", "save"} /\ q.generation = generation /\ generation # 0 =>
       q.seen >= announced
TableCallInv == \A c \in TableCalls : SoundAnswer(c, query[c])

QueryInv == TableType /\ TableCountInv /\ TableEntryInv /\ TableCallInv
-----------------------------------------------------------------------------
(* The bounds.                                                             *)

\* The number of writers is a number, and so is what is counted of them.
LEMMA TableCounts ==
  /\ Cardinality(TableWriters) \in Nat /\ NoEntry \in Nat /\ NoEntry = Cardinality(TableWriters) + 1
  /\ Cardinality(TableCommitted) \in Nat /\ Cardinality(TableCommitted) <= Cardinality(TableWriters)
  /\ Cardinality(Invalidated) \in Nat /\ Cardinality(Invalidated) <= Cardinality(TableWriters)
  /\ IsFiniteSet(TableCommitted) /\ IsFiniteSet(Invalidated)
<1>1. IsFiniteSet(TableWriters) BY QueryCacheAssumption
<1>2. TableCommitted \subseteq TableWriters /\ Invalidated \subseteq TableWriters
  BY DEF TableCommitted, Invalidated
<1> QED BY <1>1, <1>2, FS_CardinalityType, FS_Subset DEF NoEntry

\* The generations drawn and the commits stay within the bounds.
LEMMA WithinBounds ==
  ASSUME QueryInv
  PROVE  /\ table <= Cardinality(TableWriters) /\ table <= NoEntry
         /\ drawn <= Cardinality(TableWriters) + 1 + MaxEvictions
         /\ generation = 0 => drawn <= Cardinality(TableWriters) + MaxEvictions
         /\ drawn \in Draws
<1>1. /\ table \in Nat /\ drawn \in Nat /\ evictions \in Nat /\ evictions <= MaxEvictions
      /\ MaxEvictions \in Nat
  BY QueryCacheAssumption DEF QueryInv, TableType
<1> QED BY <1>1, TableCounts DEF QueryInv, TableCountInv, Draws

\* Every reachable state is of the type the run checks.
LEMMA QueryTyped == QueryInv => QueryTypeOK
<1> SUFFICES ASSUME QueryInv PROVE QueryTypeOK
  OBVIOUS
<1>1. Tables \cup {NoEntry} = 0..NoEntry BY TableCounts DEF Tables
<1>2. table \in Tables /\ announced \in 0..table /\ generation \in 0..drawn /\ drawn \in Draws
  BY WithinBounds, TableCounts DEF QueryInv, TableType, TableEntryInv, Tables
<1>3. ASSUME NEW c \in TableCalls
      PROVE  /\ query[c].stage \in QueryStages /\ query[c].attempts \in 0..2
             /\ query[c].generation \in 0..drawn /\ query[c].seen \in 0..NoEntry
             /\ query[c].floor \in Tables
  <2>1. query[c] \in QueryState /\ SoundAnswer(c, query[c]) BY DEF QueryInv, TableType,
       TableCallInv
  <2>2. query[c].floor <= announced /\ announced <= table /\ table <= Cardinality(TableWriters)
    BY <2>1, WithinBounds DEF SoundAnswer, QueryInv, TableEntryInv
  <2> QED BY <2>1, <2>2, TableCounts DEF QueryState, SoundAnswer, QueryInv, TableType, Tables
<1> QED BY <1>1, <1>2, <1>3 DEF QueryTypeOK, QueryInv, TableType, QueryStages
-----------------------------------------------------------------------------
(* The invariant is inductive.                                             *)

\* A table that nobody has read or written yet.
LEMMA QueryInitially == QueryInit => QueryInv
<1> SUFFICES ASSUME QueryInit PROVE QueryInv
  OBVIOUS
<1> USE TableCounts DEF QueryInit
<1>1. FreshQuery \in QueryState BY DEF FreshQuery, QueryState, QueryStages
<1>2. TableType BY <1>1, QueryCacheAssumption DEF TableType
<1>3. TableCountInv BY DEF TableCountInv
<1>4. TableEntryInv BY DEF TableEntryInv, GenerationIsCurrent
<1>5. TableCallInv BY DEF TableCallInv, SoundAnswer, FreshQuery
<1> QED BY <1>2, <1>3, <1>4, <1>5 DEF QueryInv

\* A call moves on; it may replace the generation that was lost.
LEMMA QueryMovePreserves ==
  ASSUME QueryInv, NEW c \in TableCalls, NEW q \in QueryState,
         query' = [query EXCEPT ![c] = q], SoundAnswer(c, q)',
         c \in TableWriters => q.stage \notin {"invalidate", "done"}
                               /\ query[c].stage \notin {"invalidate", "done"},
         UNCHANGED <<table, evictions, announced, payload>>,
         \/ UNCHANGED <<generation, drawn>>
         \/ generation = 0 /\ generation' = drawn + 1 /\ drawn' = drawn + 1
  PROVE  QueryInv'
<1>1. TableType' BY DEF QueryInv, TableType
<1>2. TableCommitted' = TableCommitted /\ Invalidated' = Invalidated
  BY DEF TableCommitted, Invalidated, TableCalls, QueryInv, TableType
<1>3. TableCountInv'
  BY <1>2, TableCounts DEF QueryInv, TableCountInv, TableType
<1>4. TableEntryInv'
  <2>1. generation' <= drawn' /\ announced' <= table'
    BY DEF QueryInv, TableEntryInv, TableType
  <2>2. \A g \in Draws : g > drawn' => payload[g] = NoEntry
    BY DEF QueryInv, TableEntryInv, TableType, Draws
  <2>3. GenerationIsCurrent'
    <3>1. CASE UNCHANGED <<generation, drawn>>
      BY <3>1 DEF QueryInv, TableEntryInv, GenerationIsCurrent
    <3>2. CASE generation = 0 /\ generation' = drawn + 1
      <4>1. drawn + 1 \in Draws
        BY <3>2, WithinBounds, TableCounts, QueryCacheAssumption DEF Draws, QueryInv, TableType
      <4>2. payload[drawn + 1] = NoEntry
        BY <4>1 DEF QueryInv, TableEntryInv, TableType
      <4>3. announced <= NoEntry
        BY WithinBounds, TableCounts DEF QueryInv, TableEntryInv, TableType
      <4> QED BY <3>2, <4>2, <4>3 DEF GenerationIsCurrent, QueryInv, TableType
    <3> QED BY <3>1, <3>2
  <2> QED BY <2>1, <2>2, <2>3 DEF TableEntryInv
<1>5. TableCallInv'
  <2>1. ASSUME NEW o \in TableCalls, o # c PROVE SoundAnswer(o, query[o])'
    <3>1. query'[o] = query[o] /\ query[o] \in QueryState /\ SoundAnswer(o, query[o])
      BY <2>1 DEF QueryInv, TableType, TableCallInv
    <3> QED BY <3>1 DEF SoundAnswer, QueryInv, TableType, QueryState
  <2>2. query'[c] = q BY DEF QueryInv, TableType
  <2> QED BY <2>1, <2>2 DEF TableCallInv, SoundAnswer
<1> QED BY <1>1, <1>3, <1>4, <1>5 DEF QueryInv

\* What a read of the generation decides is right by the generation it read, be it the
\* one that counted or the one the call has just drawn.
LEMMA DecisionIsSound ==
  ASSUME QueryInv, NEW c \in TableCalls, query[c].stage \in Verifying,
         NEW g \in Nat, NEW q \in Decided(c, g), g # 0,
         UNCHANGED announced, generation' = g,
         \/ g = generation /\ drawn' = drawn
         \/ g = drawn + 1 /\ drawn' = drawn + 1
  PROVE  /\ q \in QueryState /\ SoundAnswer(c, q)'
         /\ c \in TableWriters => q.stage \notin {"invalidate", "done"}
<1> DEFINE v == query[c]
           asked == [v EXCEPT !.creating = FALSE, !.attempts = 0]
<1>1. v \in QueryState /\ SoundAnswer(c, v) BY DEF QueryInv, TableType, TableCallInv
<1>2. /\ drawn \in Nat /\ generation \in Nat /\ announced \in Nat
      /\ generation <= drawn
  BY DEF QueryInv, TableType, TableEntryInv
<1>3. /\ asked \in QueryState /\ asked.stage = v.stage /\ asked.generation = v.generation
      /\ asked.seen = v.seen /\ asked.floor = v.floor /\ ~asked.creating
  <2> DEFINE a == [v EXCEPT !.creating = FALSE]
  <2> HIDE DEF v
  <2>1. /\ a \in QueryState /\ a.stage = v.stage /\ a.generation = v.generation
        /\ a.seen = v.seen /\ a.floor = v.floor /\ ~a.creating
    BY <1>1 DEF QueryState
  <2>2. asked = [a EXCEPT !.attempts = 0] OBVIOUS
  <2> HIDE DEF a, asked
  <2> QED BY <2>1, <2>2 DEF QueryState
<1>4. Answered(c) \in {"commit", "done"} /\ (Answered(c) = "commit" <=> c \in TableWriters)
  BY DEF Answered
<1>5. g <= drawn' /\ v.generation <= drawn' /\ (v.generation = g => g = generation)
  BY <1>1, <1>2 DEF SoundAnswer, QueryState
<1>6. CASE v.stage = "generation"
  <2>1. q = [asked EXCEPT !.stage = "lookup", !.generation = g] BY <1>6 DEF Decided
  <2> HIDE DEF asked
  <2>2. /\ q \in QueryState /\ q.stage = "lookup" /\ q.generation = g /\ q.floor = v.floor /\ ~q.creating
    BY <1>3, <2>1 DEF QueryState, QueryStages
  <2> QED BY <1>1, <1>5, <2>2 DEF SoundAnswer
<1>7. CASE v.stage = "confirm"
  <2>1. CASE Confirmed(c, g)
    <3>1. q \in {Leaving(c, [asked EXCEPT !.floor = announced]), [asked EXCEPT !.stage = "database"]}
      BY <1>7, <2>1 DEF Decided
    <3>2. v.generation = g /\ v.seen >= announced BY <1>1, <1>5, <1>7, <2>1 DEF Confirmed,
         SoundAnswer
    <3> HIDE DEF asked
    <3>3. CASE q = Leaving(c, [asked EXCEPT !.floor = announced])
      <4> DEFINE a == [asked EXCEPT !.floor = announced]
      <4>1. a \in QueryState /\ a.floor = announced /\ a.seen = v.seen /\ ~a.creating
        BY <1>2, <1>3 DEF QueryState
      <4> HIDE DEF a
      <4>2. /\ q \in QueryState /\ q.stage = Answered(c) /\ q.generation = 0
            /\ q.floor = announced /\ q.seen = v.seen /\ ~q.creating
        BY <1>4, <3>3, <4>1 DEF QueryState, QueryStages, Leaving, a
      <4> QED BY <1>2, <1>4, <3>2, <4>2 DEF SoundAnswer
    <3>4. CASE q = [asked EXCEPT !.stage = "database"]
      <4>1. /\ q \in QueryState /\ q.stage = "database" /\ q.generation = g /\ q.floor = v.floor /\ ~q.creating
        BY <1>3, <3>2, <3>4 DEF QueryState, QueryStages
      <4> QED BY <1>1, <1>5, <4>1 DEF SoundAnswer
    <3> QED BY <3>1, <3>3, <3>4
  <2>2. CASE ~Confirmed(c, g)
    <3>1. q = [asked EXCEPT !.stage = "database", !.generation = g]
      BY <1>7, <2>2 DEF Decided, ReanchoredTo
    <3> HIDE DEF asked
    <3>2. /\ q \in QueryState /\ q.stage = "database" /\ q.generation = g /\ q.floor = v.floor /\ ~q.creating
      BY <1>3, <3>1 DEF QueryState, QueryStages
    <3> QED BY <1>1, <1>5, <3>2 DEF SoundAnswer
  <2> QED BY <2>1, <2>2
<1>8. CASE v.stage = "recheck"
  <2>1. CASE v.generation = g
    <3>1. q = [asked EXCEPT !.stage = "save"] BY <1>8, <2>1 DEF Decided
    <3> HIDE DEF asked
    <3>2. /\ q \in QueryState /\ q.stage = "save" /\ q.generation = g /\ q.floor = v.floor /\ ~q.creating
          /\ q.seen = v.seen
      BY <1>3, <2>1, <3>1 DEF QueryState, QueryStages
    <3> QED BY <1>1, <1>5, <1>8, <2>1, <3>2 DEF SoundAnswer
  <2>2. CASE v.generation # g
    <3>1. q = Leaving(c, asked) BY <1>8, <2>2 DEF Decided
    <3> HIDE DEF asked
    <3>2. /\ q \in QueryState /\ q.stage = Answered(c) /\ q.generation = 0
          /\ q.floor = v.floor /\ q.seen = v.seen /\ ~q.creating
      BY <1>3, <1>4, <3>1 DEF QueryState, QueryStages, Leaving
    <3> QED BY <1>1, <1>2, <1>4, <1>8, <3>2 DEF SoundAnswer
  <2> QED BY <2>1, <2>2
<1> QED BY <1>6, <1>7, <1>8 DEF Verifying

\* A call that cannot verify the generation asks the database, and keeps nothing.
LEMMA UnverifiedIsSound ==
  ASSUME QueryInv, NEW c \in TableCalls, query[c].stage \in Verifying, Unverified(c),
         UNCHANGED announced, drawn' \in Nat, drawn <= drawn', generation' \in Nat
  PROVE  \E q \in QueryState :
           /\ query' = [query EXCEPT ![c] = q] /\ SoundAnswer(c, q)'
           /\ c \in TableWriters => q.stage \notin {"invalidate", "done"}
<1> DEFINE v == query[c]
           q == [Leaving(c, v) EXCEPT
                   !.stage = IF v.stage = "recheck" THEN Answered(c) ELSE "database",
                   !.creating = FALSE, !.attempts = 0]
<1>1. v \in QueryState /\ SoundAnswer(c, v) BY DEF QueryInv, TableType, TableCallInv
<1>2. Answered(c) \in {"commit", "done"} /\ (Answered(c) = "commit" <=> c \in TableWriters)
  BY DEF Answered
<1>3. query' = [query EXCEPT ![c] = q] BY <1>1 DEF Unverified, Leaving, QueryState
<1>4. /\ q \in QueryState /\ ~q.creating /\ q.generation = 0 /\ q.floor = v.floor /\ q.seen = v.seen
      /\ q.stage = IF v.stage = "recheck" THEN Answered(c) ELSE "database"
  <2> DEFINE a == [v EXCEPT !.stage = Answered(c)]
             b == [a EXCEPT !.generation = 0]
             st == IF v.stage = "recheck" THEN Answered(c) ELSE "database"
             d == [b EXCEPT !.stage = st]
             e == [d EXCEPT !.creating = FALSE]
  <2>1. q = [e EXCEPT !.attempts = 0] BY DEF Leaving
  <2>2. st \in QueryStages BY <1>2 DEF QueryStages
  <2> HIDE DEF v, q, st
  <2>3. a \in QueryState /\ a.floor = v.floor /\ a.seen = v.seen
    BY <1>1, <1>2 DEF QueryState, QueryStages
  <2> HIDE DEF a
  <2>4. b \in QueryState /\ b.floor = v.floor /\ b.seen = v.seen /\ b.generation = 0
    BY <2>3 DEF QueryState
  <2> HIDE DEF b
  <2>5. /\ d \in QueryState /\ d.floor = v.floor /\ d.seen = v.seen /\ d.generation = 0
        /\ d.stage = st
    BY <2>2, <2>4 DEF QueryState
  <2> HIDE DEF d
  <2>6. /\ e \in QueryState /\ ~e.creating /\ e.floor = v.floor /\ e.seen = v.seen /\ e.generation = 0
        /\ e.stage = st
    BY <2>5 DEF QueryState
  <2> HIDE DEF e
  <2>7. /\ q \in QueryState /\ ~q.creating /\ q.floor = v.floor /\ q.seen = v.seen /\ q.generation = 0
        /\ q.stage = st
    BY <2>1, <2>6 DEF QueryState
  <2> QED BY <2>7 DEF st
<1> HIDE DEF q
<1>5. announced \in Nat /\ drawn \in Nat BY DEF QueryInv, TableType
<1>6. PICK p \in QueryState : p = q BY <1>4
<1>7. p.stage \in {"database", "commit", "done"}
      /\ (p.stage = "commit" => c \in TableWriters) /\ (p.stage = "done" => c \notin TableWriters)
  BY <1>2, <1>4, <1>6
<1>8. ~p.creating /\ p.generation = 0 /\ p.floor <= announced /\ (p.stage # "database" => p.seen >= p.floor)
  BY <1>1, <1>4, <1>6 DEF SoundAnswer
<1>9. SoundAnswer(c, p)' BY <1>5, <1>7, <1>8 DEF SoundAnswer
<1> QED BY <1>3, <1>6, <1>7, <1>9

\* The query goes through its steps; those that read nothing of the generation change
\* nothing but the call.
LEMMA QueryStepsPreserve ==
  ASSUME QueryInv, NEW c \in TableCalls,
         Queries(c) \/ GetsGeneration(c) \/ CreatesGeneration(c) \/ GetsPayload(c)
           \/ QueriesDatabase(c)
  PROVE  QueryInv'
<1> DEFINE v == query[c]
<1>1. v \in QueryState /\ SoundAnswer(c, v) BY DEF QueryInv, TableType, TableCallInv
<1>2. /\ drawn \in Nat /\ generation \in Nat /\ announced \in Nat /\ table \in Nat
      /\ generation <= drawn /\ announced <= table /\ table <= NoEntry /\ NoEntry \in Nat
  BY WithinBounds, TableCounts DEF QueryInv, TableType, TableEntryInv
<1>3. UNCHANGED <<table, evictions, announced, payload>>
  BY DEF Queries, GetsGeneration, CreatesGeneration, GetsPayload, QueriesDatabase, RedisState
<1>4. \/ UNCHANGED <<generation, drawn>>
      \/ generation = 0 /\ generation' = drawn + 1 /\ drawn' = drawn + 1
  BY DEF Queries, GetsGeneration, CreatesGeneration, GetsPayload, QueriesDatabase, RedisState,
         Drawn
<1>5. Answered(c) \in {"commit", "done"} /\ (Answered(c) = "commit" <=> c \in TableWriters)
  BY DEF Answered
<1>6. query[c].creating => query[c].stage \in Verifying
  BY <1>1 DEF SoundAnswer
<1>7. v.stage \notin {"invalidate", "done"}
  BY <1>6 DEF Queries, GetsGeneration, CreatesGeneration, GetsPayload, QueriesDatabase, Verifying
<1>8. \E q \in QueryState :
        /\ query' = [query EXCEPT ![c] = q] /\ SoundAnswer(c, q)'
        /\ c \in TableWriters => q.stage \notin {"invalidate", "done"}
  <2>1. CASE Queries(c)
    <3>1. UNCHANGED <<generation, drawn>> BY <2>1 DEF Queries, RedisState
    <3>2. CASE query' = [query EXCEPT ![c].stage = "generation", ![c].floor = announced]
      <4> DEFINE a == [v EXCEPT !.stage = "generation"]
                 b == [a EXCEPT !.floor = announced]
      <4>1. query' = [query EXCEPT ![c] = b] BY <3>2 DEF QueryInv, TableType
      <4> HIDE DEF v
      <4>2. a \in QueryState /\ a.stage = "generation" /\ a.generation = v.generation
        BY <1>1 DEF QueryState, QueryStages, Verifying
      <4> HIDE DEF a
      <4>3. /\ b \in QueryState /\ b.stage = "generation" /\ b.generation = v.generation
            /\ b.floor = announced
        BY <1>2, <4>2 DEF QueryState
      <4> HIDE DEF b
      <4>4. PICK q \in QueryState : q = b BY <4>3
      <4>5. q.generation <= drawn /\ q.floor <= announced /\ q.stage = "generation"
        BY <1>1, <1>2, <4>3, <4>4 DEF SoundAnswer
      <4>6. SoundAnswer(c, q)' BY <1>3, <3>1, <4>5 DEF SoundAnswer, Verifying
      <4> QED BY <4>1, <4>4, <4>5, <4>6
    <3>3. CASE c \in TableWriters /\ AwaitsIn(c, "commit")
      <4> DEFINE a == [v EXCEPT !.stage = "commit"]
      <4>1. query' = [query EXCEPT ![c] = a] BY <3>3 DEF AwaitsIn
      <4>2. v.stage = "idle" BY <2>1 DEF Queries
      <4> HIDE DEF v
      <4>3. /\ a \in QueryState /\ a.stage = "commit" /\ a.generation = v.generation
            /\ a.floor = v.floor /\ a.creating = v.creating
        BY <1>1 DEF QueryState, QueryStages
      <4> HIDE DEF a
      <4>4. PICK q \in QueryState : q = a BY <4>3
      <4>5. /\ q.generation <= drawn /\ q.floor = 0 /\ q.stage = "commit" /\ q.seen \in Nat
            /\ q.creating = FALSE
        BY <1>1, <1>2, <4>2, <4>3, <4>4 DEF SoundAnswer, QueryState, Verifying
      <4>6. SoundAnswer(c, q)' BY <1>2, <1>3, <3>1, <3>3, <4>5 DEF SoundAnswer, Verifying
      <4> QED BY <4>1, <4>4, <4>5, <4>6
    <3> QED BY <2>1, <3>2, <3>3 DEF Queries
  <2>2. CASE GetsGeneration(c)
    <3>1. UNCHANGED <<generation, drawn>> /\ v.stage \in Verifying
      BY <2>2 DEF GetsGeneration, RedisState
    <3>2. CASE generation # 0 /\ \E q \in Decided(c, generation) : query' = [query EXCEPT ![c] = q]
      <4>1. PICK q \in Decided(c, generation) : query' = [query EXCEPT ![c] = q] BY <3>2
      <4>2. PICK g \in Nat : g = generation BY <1>2
      <4> QED BY <1>3, <3>1, <3>2, <4>1, <4>2, DecisionIsSound
    <3>3. CASE query' = [query EXCEPT ![c].creating = TRUE]
      <4> DEFINE a == [v EXCEPT !.creating = TRUE]
      <4>1. query' = [query EXCEPT ![c] = a] BY <3>3 DEF QueryInv, TableType
      <4> HIDE DEF v
      <4>2. /\ a \in QueryState /\ a.stage = v.stage /\ a.generation = v.generation
            /\ a.floor = v.floor /\ a.seen = v.seen
        BY <1>1 DEF QueryState
      <4> HIDE DEF a
      <4>3. PICK q \in QueryState : q = a BY <4>2
      <4>4. SoundAnswer(c, q)' BY <1>1, <1>3, <3>1, <4>2, <4>3 DEF SoundAnswer
      <4> QED BY <1>7, <4>1, <4>2, <4>3, <4>4
    <3>4. CASE Unverified(c) BY <1>2, <1>3, <3>1, <3>4, UnverifiedIsSound
    <3> QED BY <2>2, <3>2, <3>3, <3>4 DEF GetsGeneration
  <2>3. CASE CreatesGeneration(c)
    <3>1. v.stage \in Verifying BY <1>6, <2>3 DEF CreatesGeneration
    <3>2. CASE Unverified(c) BY <1>2, <1>3, <1>4, <3>1, <3>2, UnverifiedIsSound
    <3>3. CASE /\ generation = 0 /\ generation' = Drawn /\ drawn' = drawn + 1
               /\ \E q \in Decided(c, Drawn) : query' = [query EXCEPT ![c] = q]
      <4>1. PICK q \in Decided(c, Drawn) : query' = [query EXCEPT ![c] = q] BY <3>3
      <4>2. PICK g \in Nat : g = Drawn BY <1>2 DEF Drawn
      <4>3. g # 0 BY <1>2, <4>2 DEF Drawn
      <4> QED BY <1>3, <3>1, <3>3, <4>1, <4>2, <4>3, DecisionIsSound DEF Drawn
    <3>4. CASE /\ UNCHANGED <<generation, drawn>> /\ query[c].attempts # 2
               /\ query' = [query EXCEPT ![c].creating = FALSE, ![c].attempts = @ + 1]
      <4> DEFINE a == [v EXCEPT !.creating = FALSE]
                 b == [a EXCEPT !.attempts = v.attempts + 1]
      <4>1. query' = [query EXCEPT ![c] = b] BY <1>1, <3>4 DEF QueryInv, TableType, QueryState
      <4>2. v.attempts + 1 \in 0..2 BY <1>1, <3>4 DEF QueryState
      <4> HIDE DEF v
      <4>3. /\ a \in QueryState /\ a.stage = v.stage /\ a.generation = v.generation
            /\ a.floor = v.floor /\ a.seen = v.seen /\ a.creating = FALSE
        BY <1>1 DEF QueryState
      <4> HIDE DEF a
      <4>4. /\ b \in QueryState /\ b.stage = v.stage /\ b.generation = v.generation
            /\ b.floor = v.floor /\ b.seen = v.seen /\ b.creating = FALSE
        BY <4>2, <4>3 DEF QueryState
      <4> HIDE DEF b
      <4>5. PICK q \in QueryState : q = b BY <4>4
      <4>6. SoundAnswer(c, q)' BY <1>1, <1>3, <3>4, <4>4, <4>5 DEF SoundAnswer
      <4> QED BY <1>7, <4>1, <4>4, <4>5, <4>6
    <3> QED BY <2>3, <3>2, <3>3, <3>4 DEF CreatesGeneration
  <2>4. CASE GetsPayload(c)
    <3>1. UNCHANGED <<generation, drawn>> /\ v.stage = "lookup"
      BY <2>4 DEF GetsPayload, RedisState
    <3>2. CASE query' = [query EXCEPT ![c].stage = "confirm",
                                      ![c].seen = payload[query[c].generation]]
      <4> DEFINE n == payload[v.generation]
                 a == [v EXCEPT !.stage = "confirm"]
                 b == [a EXCEPT !.seen = n]
      <4>1. query' = [query EXCEPT ![c] = b] BY <3>2 DEF QueryInv, TableType
      <4>2. n \in 0..NoEntry
        <5>1. v.generation \in Draws
          BY <1>1, <1>2, WithinBounds, TableCounts, QueryCacheAssumption DEF SoundAnswer,
             QueryState, Draws
        <5> QED BY <5>1 DEF QueryInv, TableType
      <4>3. v.generation = generation /\ generation # 0 => n >= announced
        BY DEF QueryInv, TableEntryInv, GenerationIsCurrent
      <4> HIDE DEF n, v
      <4>4. /\ a \in QueryState /\ a.stage = "confirm" /\ a.generation = v.generation
            /\ a.floor = v.floor /\ a.creating = v.creating
        BY <1>1 DEF QueryState, QueryStages, Verifying
      <4> HIDE DEF a
      <4>5. /\ b \in QueryState /\ b.stage = "confirm" /\ b.generation = v.generation
            /\ b.floor = v.floor /\ b.creating = v.creating /\ b.seen = n
        BY <4>2, <4>4 DEF QueryState
      <4> HIDE DEF b
      <4>6. PICK q \in QueryState : q = b BY <4>5
      <4>7. SoundAnswer(c, q)' BY <1>1, <1>3, <3>1, <4>3, <4>5, <4>6 DEF SoundAnswer, Verifying
      <4> QED BY <4>1, <4>5, <4>6, <4>7
    <3>3. CASE AwaitsIn(c, "database")
      <4> DEFINE a == [v EXCEPT !.stage = "database"]
      <4>1. query' = [query EXCEPT ![c] = a] BY <3>3 DEF AwaitsIn
      <4> HIDE DEF v
      <4>2. /\ a \in QueryState /\ a.stage = "database" /\ a.generation = v.generation
            /\ a.floor = v.floor /\ a.creating = v.creating
        BY <1>1 DEF QueryState, QueryStages
      <4> HIDE DEF a
      <4>3. PICK q \in QueryState : q = a BY <4>2
      <4>4. SoundAnswer(c, q)' BY <1>1, <1>3, <3>1, <4>2, <4>3 DEF SoundAnswer, Verifying
      <4> QED BY <4>1, <4>2, <4>3, <4>4
    <3> QED BY <2>4, <3>2, <3>3 DEF GetsPayload
  <2>5. CASE QueriesDatabase(c)
    <3>1. UNCHANGED <<generation, drawn>> /\ v.stage = "database"
      BY <2>5 DEF QueriesDatabase, RedisState
    <3>2. CASE query' = [query EXCEPT ![c].seen = table,
                            ![c].stage = IF query[c].generation = 0 THEN Answered(c) ELSE "recheck"]
      <4> DEFINE st == IF v.generation = 0 THEN Answered(c) ELSE "recheck"
                 a == [v EXCEPT !.seen = table]
                 b == [a EXCEPT !.stage = st]
      <4>1. query' = [query EXCEPT ![c] = b] BY <1>1, <3>2 DEF QueryInv, TableType, QueryState
      <4>2. st \in QueryStages /\ st \in {"commit", "done", "recheck"}
            /\ (st = "commit" => c \in TableWriters) /\ (st = "done" => c \notin TableWriters)
        BY <1>5 DEF QueryStages, Verifying
      <4> HIDE DEF v, st
      <4>3. /\ a \in QueryState /\ a.generation = v.generation /\ a.seen = table
            /\ a.floor = v.floor /\ a.creating = v.creating
        BY <1>1, <1>2 DEF QueryState
      <4> HIDE DEF a
      <4>4. /\ b \in QueryState /\ b.generation = v.generation /\ b.seen = table
            /\ b.floor = v.floor /\ b.creating = v.creating /\ b.stage = st
        BY <4>2, <4>3 DEF QueryState
      <4> HIDE DEF b
      <4>5. PICK q \in QueryState : q = b BY <4>4
      <4>6. v.floor <= announced /\ v.floor \in Nat /\ v.generation <= drawn /\ ~v.creating
        BY <1>1, <3>1 DEF SoundAnswer, QueryState, Verifying
      <4>7. SoundAnswer(c, q)'
        BY <1>2, <1>3, <3>1, <4>2, <4>4, <4>5, <4>6 DEF SoundAnswer, Verifying
      <4> QED BY <4>1, <4>2, <4>4, <4>5, <4>7
    <3>3. CASE AwaitsIn(c, "failed")
      <4> DEFINE a == [v EXCEPT !.stage = "failed"]
      <4>1. query' = [query EXCEPT ![c] = a] BY <3>3 DEF AwaitsIn
      <4> HIDE DEF v
      <4>2. /\ a \in QueryState /\ a.stage = "failed" /\ a.generation = v.generation
            /\ a.floor = v.floor /\ a.creating = v.creating
        BY <1>1 DEF QueryState, QueryStages
      <4> HIDE DEF a
      <4>3. PICK q \in QueryState : q = a BY <4>2
      <4>4. SoundAnswer(c, q)' BY <1>1, <1>3, <3>1, <4>2, <4>3 DEF SoundAnswer, Verifying
      <4> QED BY <4>1, <4>2, <4>3, <4>4
    <3> QED BY <2>5, <3>2, <3>3 DEF QueriesDatabase
  <2> QED BY <2>1, <2>2, <2>3, <2>4, <2>5
<1> HIDE DEF v
<1>9. PICK q \in QueryState :
        /\ query' = [query EXCEPT ![c] = q] /\ SoundAnswer(c, q)'
        /\ c \in TableWriters => q.stage \notin {"invalidate", "done"}
  BY <1>8
<1> QED BY <1>3, <1>4, <1>7, <1>9, QueryMovePreserves DEF v

\* What a query saves was read after the generation it saves it under.
LEMMA QuerySavePreserves ==
  ASSUME QueryInv, NEW c \in TableCalls, SavesPayload(c)
  PROVE  QueryInv'
<1> DEFINE v == query[c]
           a == [v EXCEPT !.stage = Answered(c)]
           b == [a EXCEPT !.generation = 0]
<1>1. v \in QueryState /\ SoundAnswer(c, v) /\ v.stage = "save"
  BY DEF QueryInv, TableType, TableCallInv, SavesPayload
<1>2. UNCHANGED <<table, generation, drawn, evictions, announced>> BY DEF SavesPayload
<1>3. query' = [query EXCEPT ![c] = b] BY DEF SavesPayload, Leaving
<1>4. Answered(c) \in {"commit", "done"} /\ (Answered(c) = "commit" <=> c \in TableWriters)
  BY DEF Answered
<1>5. payload' = [payload EXCEPT ![v.generation] = v.seen] \/ payload' = payload
  BY DEF SavesPayload
<1>6. /\ drawn \in Nat /\ announced \in Nat /\ v.generation \in Draws /\ v.generation <= drawn
      /\ ~v.creating
  BY <1>1, WithinBounds, TableCounts, QueryCacheAssumption
     DEF SoundAnswer, QueryState, Draws, QueryInv, TableType, Verifying
<1>7. TableType /\ TableCountInv /\ TableEntryInv /\ TableCallInv BY DEF QueryInv
<1> HIDE DEF v
<1>8. a \in QueryState /\ a.stage = Answered(c) /\ a.floor = v.floor /\ a.seen = v.seen
      /\ a.creating = v.creating
  BY <1>1, <1>4 DEF QueryState, QueryStages
<1> HIDE DEF a
<1>9. b \in QueryState /\ b.stage = Answered(c) /\ b.floor = v.floor /\ b.seen = v.seen
      /\ b.generation = 0 /\ b.creating = v.creating
  BY <1>8 DEF QueryState
<1> HIDE DEF b
<1>10. PICK q \in QueryState : q = b BY <1>9
<1>11. TableType'
  <2>1. v.seen \in 0..NoEntry BY <1>1 DEF QueryState
  <2> QED BY <1>2, <1>3, <1>5, <1>7, <1>9, <2>1 DEF TableType
<1>12. TableCountInv'
  <2>1. \A o \in TableCalls : o # c => query'[o] = query[o] BY <1>3, <1>7 DEF TableType
  <2>2. c \in TableWriters => query'[c].stage = "commit" /\ query[c].stage = "save"
    BY <1>1, <1>3, <1>4, <1>7, <1>9 DEF TableType, v
  <2>3. TableCommitted' = TableCommitted /\ Invalidated' = Invalidated
    BY <2>1, <2>2 DEF TableCommitted, Invalidated, TableCalls
  <2> QED BY <1>2, <1>7, <2>3 DEF TableCountInv
<1>13. TableEntryInv'
  <2>1. \A g \in Draws : payload'[g] = payload[g] \/ (g = v.generation /\ payload'[g] = v.seen)
    BY <1>5, <1>7 DEF TableType
  <2>2. \A g \in Draws : g > drawn => payload'[g] = NoEntry
    BY <1>6, <1>7, <2>1 DEF TableEntryInv, Draws
  <2>3. generation # 0 => payload'[generation] >= announced
    <3>1. generation \in Draws
      BY <1>7, WithinBounds, TableCounts, QueryCacheAssumption DEF TableType, TableEntryInv, Draws
    <3> QED BY <1>1, <1>7, <2>1, <3>1 DEF TableEntryInv, GenerationIsCurrent, SoundAnswer
  <2> QED BY <1>2, <1>7, <2>2, <2>3 DEF TableEntryInv, GenerationIsCurrent
<1>14. TableCallInv'
  <2>1. \A o \in TableCalls : o # c => query'[o] = query[o] BY <1>3, <1>7 DEF TableType
  <2>2. query'[c] = q BY <1>3, <1>7, <1>10 DEF TableType
  <2>3. SoundAnswer(c, q)' BY <1>1, <1>2, <1>4, <1>6, <1>9, <1>10 DEF SoundAnswer
  <2> QED BY <1>2, <1>7, <2>1, <2>2, <2>3 DEF TableCallInv, SoundAnswer
<1> QED BY <1>11, <1>12, <1>13, <1>14 DEF QueryInv

\* A commit is counted for its writer.
LEMMA TableCommitPreserves ==
  ASSUME QueryInv, NEW c \in TableCalls, CommitsTable(c)
  PROVE  QueryInv'
<1> DEFINE v == query[c]
           a == [v EXCEPT !.stage = query'[c].stage]
<1>1. v \in QueryState /\ SoundAnswer(c, v) /\ v.stage = "commit" /\ c \in TableWriters
  BY DEF QueryInv, TableType, TableCallInv, CommitsTable, SoundAnswer
<1>2. UNCHANGED <<generation, drawn, payload, evictions, announced>>
  BY DEF CommitsTable, RedisState
<1>3. TableType /\ TableCountInv /\ TableEntryInv /\ TableCallInv BY DEF QueryInv
<1>4. \/ table' = table + 1 /\ query' = [query EXCEPT ![c].stage = "invalidate"]
      \/ table' = table /\ query' = [query EXCEPT ![c].stage = "failed"]
  BY DEF CommitsTable, AwaitsIn
<1>5. /\ query' = [query EXCEPT ![c] = a] /\ query'[c].stage \in {"invalidate", "failed"}
      /\ query'[c].stage = "invalidate" => table' = table + 1
      /\ query'[c].stage = "failed" => table' = table
  <2>1. \A st \in QueryStages : query' = [query EXCEPT ![c].stage = st] =>
          query'[c] = [v EXCEPT !.stage = st] /\ query'[c].stage = st
          /\ query' = [query EXCEPT ![c] = [v EXCEPT !.stage = st]]
    BY <1>1, <1>3 DEF TableType, QueryState
  <2>2. "invalidate" \in QueryStages /\ "failed" \in QueryStages BY DEF QueryStages
  <2>3. CASE table' = table + 1 /\ query' = [query EXCEPT ![c].stage = "invalidate"]
    BY <2>1, <2>2, <2>3
  <2>4. CASE table' = table /\ query' = [query EXCEPT ![c].stage = "failed"]
    BY <2>1, <2>2, <2>4
  <2> QED BY <1>4, <2>3, <2>4
<1> HIDE DEF v
<1>6. a \in QueryState /\ a.stage = query'[c].stage /\ a.floor = v.floor /\ a.seen = v.seen
      /\ a.generation = v.generation /\ a.creating = v.creating
  BY <1>1, <1>5 DEF QueryState, QueryStages
<1> HIDE DEF a
<1>7. PICK q \in QueryState : q = a BY <1>6
<1>8. TableType' BY <1>2, <1>3, <1>5, <1>6 DEF TableType
<1>9. \A o \in TableCalls : o # c => query'[o] = query[o] BY <1>3, <1>5 DEF TableType
<1>10. Invalidated' = Invalidated
  BY <1>1, <1>5, <1>9 DEF Invalidated, TableCalls, v
<1>11. TableCountInv'
  <2>1. table \in Nat BY <1>3 DEF TableType
  <2>2. CASE query'[c].stage = "invalidate"
    <3>1. TableCommitted' = TableCommitted \cup {c} /\ c \notin TableCommitted
      BY <1>1, <1>9, <2>2 DEF TableCommitted, TableCalls, v
    <3>2. Cardinality(TableCommitted') = Cardinality(TableCommitted) + 1
      BY <3>1, TableCounts, FS_AddElement
    <3> QED BY <1>2, <1>3, <1>5, <1>10, <2>1, <2>2, <3>2, TableCounts DEF TableCountInv
  <2>3. CASE query'[c].stage = "failed"
    <3>1. TableCommitted' = TableCommitted BY <1>1, <1>9, <2>3 DEF TableCommitted, TableCalls, v
    <3> QED BY <1>2, <1>3, <1>5, <1>10, <2>3, <3>1 DEF TableCountInv
  <2> QED BY <1>5, <2>2, <2>3
<1>12. TableEntryInv'
  BY <1>2, <1>3, <1>4 DEF TableEntryInv, GenerationIsCurrent, TableType
<1>13. TableCallInv'
  <2>1. query'[c] = q BY <1>3, <1>5, <1>7 DEF TableType
  <2>2. SoundAnswer(c, q)' BY <1>1, <1>2, <1>5, <1>6, <1>7 DEF SoundAnswer, Verifying
  <2> QED BY <1>2, <1>3, <1>9, <2>1, <2>2 DEF TableCallInv, SoundAnswer
<1> QED BY <1>8, <1>11, <1>12, <1>13 DEF QueryInv

\* An invalidation draws a generation nobody has stored anything under, or is lost.
LEMMA InvalidationPreserves ==
  ASSUME QueryInv, NEW c \in TableCalls, Invalidates(c)
  PROVE  QueryInv'
<1> DEFINE v == query[c]
           a == [v EXCEPT !.stage = "done"]
<1>1. v \in QueryState /\ SoundAnswer(c, v) /\ v.stage = "invalidate" /\ c \in TableWriters
  BY DEF QueryInv, TableType, TableCallInv, Invalidates, SoundAnswer
<1>2. UNCHANGED <<table, payload, evictions>> BY DEF Invalidates
<1>3. TableType /\ TableCountInv /\ TableEntryInv /\ TableCallInv BY DEF QueryInv
<1>4. /\ query' = [query EXCEPT ![c] = a]
      /\ \/ generation' = drawn + 1 /\ drawn' = drawn + 1 /\ announced' \in {announced, table}
         \/ UNCHANGED <<generation, drawn, announced>>
  BY DEF Invalidates, AwaitsIn, Drawn
<1>5. /\ table \in Nat /\ drawn \in Nat /\ generation \in Nat /\ announced \in Nat
      /\ generation <= drawn /\ announced <= table /\ table <= NoEntry /\ NoEntry \in Nat
      /\ evictions \in Nat /\ evictions <= MaxEvictions /\ MaxEvictions \in Nat
  BY <1>3, WithinBounds, TableCounts, QueryCacheAssumption DEF TableType, TableEntryInv
<1>6. announced <= announced' /\ announced' <= table /\ announced' \in Nat BY <1>4, <1>5
<1> HIDE DEF v
<1>7. a \in QueryState /\ a.stage = "done" /\ a.floor = v.floor /\ a.seen = v.seen
      /\ a.generation = v.generation /\ a.creating = v.creating
  BY <1>1 DEF QueryState, QueryStages
<1> HIDE DEF a
<1>8. PICK q \in QueryState : q = a BY <1>7
<1>9. TableType' BY <1>2, <1>3, <1>4, <1>5, <1>6, <1>7 DEF TableType
<1>10. \A o \in TableCalls : o # c => query'[o] = query[o] BY <1>3, <1>4 DEF TableType
<1>11. query'[c] = q BY <1>3, <1>4, <1>8 DEF TableType
<1>12. /\ TableCommitted' = TableCommitted /\ Invalidated' = Invalidated \cup {c} /\ c \notin Invalidated
  BY <1>1, <1>7, <1>8, <1>10, <1>11 DEF TableCommitted, Invalidated, TableCalls, v
<1>13. Cardinality(Invalidated') = Cardinality(Invalidated) + 1
  BY <1>12, TableCounts, FS_AddElement
<1>14. TableCountInv' BY <1>2, <1>3, <1>4, <1>5, <1>12, <1>13, TableCounts DEF TableCountInv
<1>15. TableEntryInv'
  <2>1. CASE UNCHANGED <<generation, drawn, announced>>
    BY <1>2, <1>3, <2>1 DEF TableEntryInv, GenerationIsCurrent
  <2>2. CASE generation' = drawn + 1 /\ drawn' = drawn + 1
    <3>1. Cardinality(Invalidated) + 1 <= Cardinality(TableWriters)
      <4>1. Invalidated \cup {c} \subseteq TableWriters BY <1>1 DEF Invalidated
      <4>2. Cardinality(Invalidated \cup {c}) <= Cardinality(TableWriters)
        BY <4>1, QueryCacheAssumption, FS_Subset
      <4> QED BY <1>12, <1>13, <4>2
    <3>2. drawn + 1 \in Draws
      BY <1>3, <1>5, <3>1, TableCounts DEF TableCountInv, Draws
    <3>3. payload[drawn + 1] = NoEntry BY <1>3, <1>5, <3>2 DEF TableEntryInv
    <3>4. \A g \in Draws : g > drawn + 1 => payload[g] = NoEntry
      BY <1>3, <1>5 DEF TableEntryInv, Draws
    <3> QED BY <1>2, <1>5, <1>6, <2>2, <3>3, <3>4 DEF TableEntryInv, GenerationIsCurrent
  <2> QED BY <1>4, <2>1, <2>2
<1>16. TableCallInv'
  <2>1. ASSUME NEW o \in TableCalls, NEW p \in QueryState, SoundAnswer(o, p) PROVE SoundAnswer(o, p)'
    <3>1. p.generation \in Nat /\ p.floor \in Nat BY DEF QueryState
    <3> QED BY <1>4, <1>5, <1>6, <2>1, <3>1 DEF SoundAnswer
  <2>2. ASSUME NEW o \in TableCalls, o # c PROVE SoundAnswer(o, query[o])'
    <3>1. PICK p \in QueryState : p = query[o] BY <1>3 DEF TableType
    <3>2. SoundAnswer(o, p) BY <1>3, <3>1 DEF TableCallInv
    <3>3. SoundAnswer(o, p)' BY <2>1, <3>2
    <3> QED BY <1>10, <2>2, <3>1, <3>3 DEF SoundAnswer
  <2>3. SoundAnswer(c, q) BY <1>1, <1>7, <1>8 DEF SoundAnswer, Verifying
  <2>4. SoundAnswer(c, q)' BY <2>1, <2>3
  <2> QED BY <1>11, <2>2, <2>4 DEF TableCallInv, SoundAnswer
<1> QED BY <1>9, <1>14, <1>15, <1>16 DEF QueryInv

\* A generation that is lost names nothing any more.
LEMMA EvictionPreserves == QueryInv /\ GenerationEvicted => QueryInv'
<1> SUFFICES ASSUME QueryInv, GenerationEvicted PROVE QueryInv'
  OBVIOUS
<1> USE QueryCacheAssumption DEF GenerationEvicted
<1>1. TableType' BY DEF QueryInv, TableType
<1>2. TableCommitted' = TableCommitted /\ Invalidated' = Invalidated BY DEF TableCommitted,
     Invalidated
<1>3. TableCountInv' BY <1>2, TableCounts DEF QueryInv, TableCountInv, TableType
<1>4. TableEntryInv' BY DEF QueryInv, TableEntryInv, GenerationIsCurrent, TableType
<1>5. TableCallInv' BY DEF QueryInv, TableCallInv, SoundAnswer
<1> QED BY <1>1, <1>3, <1>4, <1>5 DEF QueryInv

\* The inductive invariant holds in every reachable state.
LEMMA QueryInvariance == QuerySpec => []QueryInv
<1>1. QueryInv /\ [QueryNext]_tableVars => QueryInv'
  <2> SUFFICES ASSUME QueryInv, [QueryNext]_tableVars PROVE QueryInv'
    OBVIOUS
  <2>1. CASE UNCHANGED tableVars
    <3>1. TableCommitted' = TableCommitted /\ Invalidated' = Invalidated
      BY <2>1 DEF tableVars, TableCommitted, Invalidated
    <3> QED BY <2>1, <3>1 DEF tableVars, QueryInv, TableType, TableCountInv, TableEntryInv,
                              GenerationIsCurrent, TableCallInv, SoundAnswer
  <2>2. CASE QueryNext
    BY <2>2, QueryStepsPreserve, QuerySavePreserves, TableCommitPreserves, InvalidationPreserves,
       EvictionPreserves DEF QueryNext
  <2> QED BY <2>1, <2>2
<1> QED BY <1>1, QueryInitially, PTL DEF QuerySpec
-----------------------------------------------------------------------------
(* What follows from it.                                                   *)

\* Every reachable state of the table, its entries and the calls is well typed; in
\* particular the generations drawn stay within their bound.
THEOREM QueryTypeCorrect == QuerySpec => []QueryTypeOK
<1> QED BY QueryInvariance, QueryTyped, PTL

\* Whoever reads and writes a table, whatever Redis loses and whichever command fails:
\* an answer is not older than the last invalidation that had succeeded when the
\* query began, and under the generation that counts there is nothing older.
THEOREM QueriesAreCurrent == QuerySpec => []QueriesAreSound
<1>1. QueryInv => QueriesAreSound
  BY DEF QueryInv, TableEntryInv, TableCallInv, SoundAnswer, QueriesAreSound, AnswersAreCurrent
<1> QED BY <1>1, QueryInvariance, PTL

-----------------------------------------------------------------------------
(* The order Build computes is topological, for every declaration.         *)

\* A declaration maps declared names to sets of names.
OrderDeclInv ==
    /\ declared \subseteq Names
    /\ \A n \in declared : deps[n] \subseteq Names
    /\ order \in Seq(declared)

\* While sorting, indegree counts the dependencies not placed yet, and ready
\* holds exactly the names that have none and are not placed themselves.
OrderSortInv ==
    verdict = "sorting" =>
        /\ Valid
        /\ indegree \in [declared -> Int]
        /\ \A n \in declared : indegree[n] = Cardinality(deps[n] \ Placed)
        /\ ready = {n \in declared \ Placed : deps[n] \subseteq Placed}

OrderInv == /\ OrderDeclInv /\ OrderSortInv /\ OrderIsTopological
            /\ verdict = "none" => order = <<>>

\* Adding x to P takes it out of the count of S outside P if x is in S.
DropsFrom(S, P, x) ==
    /\ x \in S => Cardinality(S \ (P \cup {x})) = Cardinality(S \ P) - 1
    /\ x \notin S => Cardinality(S \ (P \cup {x})) = Cardinality(S \ P)
    /\ x \in S => (Cardinality(S \ P) = 1 <=> S \subseteq P \cup {x})

\* Placing a name takes it out of the count of its dependents, and of no other.
LEMMA CountDrops ==
    ASSUME NEW S, NEW P, NEW x, IsFiniteSet(S), x \notin P
    PROVE  DropsFrom(S, P, x)
<1>1. IsFiniteSet(S \ P) BY FS_Difference
<1>2. CASE x \in S
  <2>1. x \in S \ P BY <1>2
  <2>2. S \ (P \cup {x}) = (S \ P) \ {x} OBVIOUS
  <2>3. /\ IsFiniteSet((S \ P) \ {x})
        /\ Cardinality((S \ P) \ {x}) = Cardinality(S \ P) - 1
    BY <1>1, <2>1, FS_RemoveElement
  <2>4. Cardinality((S \ P) \ {x}) = 0 <=> (S \ P) \ {x} = {}
    BY <2>3, FS_EmptySet
  <2>5. Cardinality(S \ P) \in Nat BY <1>1, FS_CardinalityType
  <2> QED BY <1>2, <2>2, <2>3, <2>4, <2>5 DEF DropsFrom
<1>3. CASE x \notin S
  BY <1>3, S \ (P \cup {x}) = S \ P DEF DropsFrom
<1> QED BY <1>2, <1>3

\* Appending a name places it and nothing else.
LEMMA AppendPlaces ==
    ASSUME OrderDeclInv, NEW name \in declared, order' = Append(order, name), deps' = deps
    PROVE  /\ Placed' = Placed \cup {name}
           /\ order' \in Seq(declared)
           /\ DOMAIN order' = 1..(Len(order) + 1) /\ Len(order) \in Nat
           /\ DOMAIN order = 1..Len(order)
           /\ \A i \in DOMAIN order : order'[i] = order[i]
           /\ order'[Len(order) + 1] = name
<1>1. /\ order' \in Seq(declared)
      /\ DOMAIN order' = 1..(Len(order) + 1) /\ Len(order) \in Nat
      /\ DOMAIN order = 1..Len(order)
      /\ \A i \in DOMAIN order : order'[i] = order[i]
      /\ order'[Len(order) + 1] = name
  BY DEF OrderDeclInv, declared
<1> QED BY <1>1 DEF Placed

LEMMA OrderNextPreserves == OrderInv /\ [Next]_vars => OrderInv'
<1> SUFFICES ASSUME OrderInv, [Next]_vars PROVE OrderInv'
  OBVIOUS
<1> USE NamesAssumption
<1>1. ASSUME NEW name \in Names, Place(name) PROVE OrderInv'
  <2>1. /\ name \in declared /\ name \notin Placed /\ deps[name] \subseteq Placed
        /\ Valid /\ verdict' = "sorting" /\ deps' = deps
        /\ order' = Append(order, name)
    BY <1>1 DEF Place, OrderInv, OrderSortInv
  <2>2. /\ Placed' = Placed \cup {name}
        /\ order' \in Seq(declared)
        /\ DOMAIN order' = 1..(Len(order) + 1) /\ Len(order) \in Nat
        /\ DOMAIN order = 1..Len(order)
        /\ \A i \in DOMAIN order : order'[i] = order[i]
        /\ order'[Len(order) + 1] = name
    BY <2>1, AppendPlaces DEF OrderInv
  <2>3. \A n \in declared : IsFiniteSet(deps[n])
    BY FS_Subset DEF OrderInv, OrderDeclInv
  <2>9. \A n \in declared : DropsFrom(deps[n], Placed, name)
    BY <2>1, <2>3, CountDrops
  <2>4. \A n \in declared : indegree'[n] = Cardinality(deps[n] \ Placed')
    <3> SUFFICES ASSUME NEW n \in declared
                 PROVE  indegree'[n] = Cardinality(deps[n] \ Placed')
      OBVIOUS
    <3>1. indegree[n] = Cardinality(deps[n] \ Placed)
      BY <1>1 DEF Place, OrderInv, OrderSortInv
    <3>2. indegree'[n] = IF name \in deps[n] THEN indegree[n] - 1 ELSE indegree[n]
      BY <1>1, <2>1 DEF Place, Uncount, Dependents
    <3> QED BY <2>2, <2>9, <3>1, <3>2 DEF DropsFrom
  <2>5. \A n \in declared : n \in Placed => deps[n] \subseteq Placed
    <3> SUFFICES ASSUME NEW j \in DOMAIN order PROVE deps[order[j]] \subseteq Placed
      BY DEF Placed
    <3>1. \A d \in deps[order[j]] : \E i \in 1..(j - 1) : order[i] = d
      BY DEF OrderInv, OrderIsTopological
    <3>2. 1..(j - 1) \subseteq DOMAIN order BY <2>2
    <3> QED BY <3>1, <3>2 DEF Placed
  <2>6. ready' = {n \in declared \ Placed' : deps[n] \subseteq Placed'}
    <3>1. ASSUME NEW n \in declared
          PROVE  n \in ready' <=> n \notin Placed' /\ deps[n] \subseteq Placed'
      <4>1. n \in ready' <=> \/ n \in ready /\ n # name
                             \/ name \in deps[n] /\ indegree[n] = 1
        BY <1>1 DEF Place, Freed, Dependents
      <4>2. n \in ready <=> n \notin Placed /\ deps[n] \subseteq Placed
        BY <1>1 DEF Place, OrderInv, OrderSortInv
      <4>3. indegree[n] = Cardinality(deps[n] \ Placed)
        BY <1>1 DEF Place, OrderInv, OrderSortInv
      <4>4. CASE name \in deps[n]
        <5>1. n # name BY <2>1, <4>4 DEF Valid
        <5>2. n \notin Placed BY <2>1, <2>5, <4>4
        <5>3. n \notin ready BY <2>1, <4>2, <4>4
        <5>4. indegree[n] = 1 <=> deps[n] \subseteq Placed \cup {name}
          BY <2>9, <4>3, <4>4 DEF DropsFrom
        <5> QED BY <2>2, <4>1, <4>4, <5>1, <5>2, <5>3, <5>4
      <4>5. CASE name \notin deps[n]
        BY <2>2, <4>1, <4>2, <4>5
      <4> QED BY <4>4, <4>5
    <3>2. ready' \subseteq declared
      BY <1>1 DEF Place, Freed, Dependents, OrderInv, OrderSortInv
    <3> QED BY <3>1, <3>2
  <2>7. OrderIsTopological'
    <3> SUFFICES ASSUME NEW j \in DOMAIN order'
                 PROVE  /\ \A d \in deps[order'[j]] : \E i \in 1..(j - 1) : order'[i] = d
                        /\ \A i \in 1..(j - 1) : order'[i] # order'[j]
      BY <2>1 DEF OrderIsTopological
    <3>1. CASE j \in DOMAIN order
      <4>1. \A i \in 1..(j - 1) : order'[i] = order[i] BY <2>2, <3>1
      <4> QED BY <2>2, <3>1, <4>1 DEF OrderInv, OrderIsTopological
    <3>2. CASE j = Len(order) + 1
      <4>1. 1..(j - 1) = DOMAIN order BY <2>2, <3>2
      <4> QED BY <2>1, <2>2, <3>2, <4>1 DEF Placed
    <3> QED BY <2>2, <3>1, <3>2
  <2>8. indegree' \in [declared -> Int]
    BY <1>1, <2>1 DEF Place, Uncount, OrderInv, OrderSortInv
  <2> QED BY <2>1, <2>2, <2>4, <2>6, <2>7, <2>8
          DEF OrderInv, OrderDeclInv, OrderSortInv, Valid, declared
<1>2. CASE Count
  <2>1. order = <<>> /\ Placed = {} /\ deps' = deps /\ order' = order /\ Placed' = {}
    BY <1>2 DEF Count, OrderInv, Placed
  <2>2. \A n \in declared : Cardinality(deps[n]) \in Nat
    BY FS_Subset, FS_CardinalityType DEF OrderInv, OrderDeclInv
  <2>3. \A n \in declared : deps[n] \ {} = deps[n] OBVIOUS
  <2> QED BY <1>2, <2>1, <2>2, <2>3
          DEF Count, OrderInv, OrderDeclInv, OrderSortInv, Valid, OrderIsTopological, declared
<1>3. CASE Reject \/ Finish
  BY <1>3 DEF Reject, Finish, Outcome, OrderInv, OrderDeclInv, OrderSortInv, OrderIsTopological,
     declared
<1>4. CASE UNCHANGED vars
  <2>1. UNCHANGED <<declared, Placed, Valid>> BY <1>4 DEF vars, declared, Placed, Valid
  <2>2. OrderDeclInv' BY <1>4, <2>1 DEF vars, OrderInv, OrderDeclInv
  <2>3. OrderSortInv' BY <1>4, <2>1 DEF vars, OrderInv, OrderSortInv
  <2>4. OrderIsTopological' BY <1>4 DEF vars, OrderInv, OrderIsTopological
  <2> QED BY <1>4, <2>2, <2>3, <2>4 DEF vars, OrderInv
<1>5. (\E name \in Names : Place(name)) \/ Count \/ (Reject \/ Finish) \/ UNCHANGED vars
  BY DEF Next, Done
<1> QED BY <1>1, <1>2, <1>3, <1>4, <1>5

\* Build's order puts every name once and after all its dependencies, whatever is
\* declared: the nodes of the graph it returns satisfy DepsAssumption.
THEOREM BuildIsTopological == Spec => []OrderIsTopological
<1>1. Init => OrderInv
  BY DEF Init, OrderInv, OrderDeclInv, OrderSortInv, OrderIsTopological, declared
<1>2. OrderInv => OrderIsTopological BY DEF OrderInv
<1> QED BY <1>1, <1>2, OrderNextPreserves, PTL DEF Spec
-----------------------------------------------------------------------------
(* The order is the canonical one, and the verdict is exact. *)

\* The order holds every placed name once; no set of names each of which waits
\* for another of the set is ever entered; at the end what is left over is such
\* a set, or nothing is.
VerdictInv ==
    /\ IsFiniteSet(Placed) /\ Cardinality(Placed) = Len(order)
    /\ \A S \in SUBSET declared : (\A n \in S : deps[n] \cap S # {}) => S \cap Placed = {}
    /\ verdict = "ok" => Placed = declared
    /\ verdict = "cycle" => Cyclic

\* Placing the first ready name keeps it: the name waits for nothing that is not
\* placed, and every smaller name left does.
LEMMA PlaceKeepsVerdict ==
    ASSUME OrderInv, VerdictInv, OrderIsCanonical, NEW name \in Names, Place(name)
    PROVE  VerdictInv' /\ OrderIsCanonical'
<1>1. /\ name \in declared /\ name \notin Placed /\ deps[name] \subseteq Placed
      /\ ready = {n \in declared \ Placed : deps[n] \subseteq Placed}
      /\ \A other \in ready : name <= other
      /\ verdict' = "sorting" /\ deps' = deps /\ order' = Append(order, name)
  BY DEF Place, FirstReady, OrderInv, OrderSortInv
<1>2. /\ Placed' = Placed \cup {name}
      /\ DOMAIN order' = 1..(Len(order) + 1) /\ Len(order) \in Nat
      /\ DOMAIN order = 1..Len(order)
      /\ \A i \in DOMAIN order : order'[i] = order[i]
      /\ order'[Len(order) + 1] = name
  BY <1>1, AppendPlaces DEF OrderInv
<1>3. declared' = declared BY <1>1 DEF declared
<1>4. Len(order') = Len(order) + 1
  BY <1>1 DEF OrderInv, OrderDeclInv
<1>5. IsFiniteSet(Placed') /\ Cardinality(Placed') = Len(order')
  BY <1>1, <1>2, <1>4, FS_AddElement DEF VerdictInv
<1>6. ASSUME NEW S \in SUBSET declared, \A n \in S : deps[n] \cap S # {}
      PROVE  S \cap Placed' = {}
  <2>1. S \cap Placed = {} BY <1>6 DEF VerdictInv
  <2>2. name \notin S BY <1>1, <1>6, <2>1
  <2> QED BY <1>2, <2>1, <2>2
<1>7. VerdictInv' BY <1>1, <1>3, <1>5, <1>6 DEF VerdictInv
<1>8. OrderIsCanonical'
  <2> SUFFICES ASSUME NEW j \in DOMAIN order', NEW n \in declared,
                      n < order'[j], \A i \in 1..(j - 1) : order'[i] # n
               PROVE  ~ (deps[n] \subseteq {order'[i] : i \in 1..(j - 1)})
    BY <1>1, <1>3 DEF OrderIsCanonical
  <2>1. CASE j \in DOMAIN order
    <3>1. \A i \in 1..(j - 1) : i \in DOMAIN order /\ order'[i] = order[i]
      BY <1>2, <2>1
    <3>2. {order'[i] : i \in 1..(j - 1)} = {order[i] : i \in 1..(j - 1)} BY <3>1
    <3>3. n < order[j] /\ \A i \in 1..(j - 1) : order[i] # n BY <1>2, <2>1, <3>1
    <3> QED BY <2>1, <3>2, <3>3 DEF OrderIsCanonical
  <2>2. CASE j = Len(order) + 1
    <3>1. 1..(j - 1) = DOMAIN order BY <1>2, <2>2
    <3>2. {order'[i] : i \in 1..(j - 1)} = Placed BY <1>2, <3>1 DEF Placed
    <3>3. n \notin Placed BY <1>2, <3>1 DEF Placed
    <3>4. n \in Nat /\ name \in Nat /\ n < name
      BY <1>1, <1>2, <2>2, NamesAssumption DEF OrderInv, OrderDeclInv
    <3>5. n \notin ready
      <4>1. ~(name <= n) BY <3>4
      <4> QED BY <1>1, <4>1
    <3> QED BY <1>1, <3>2, <3>3, <3>5
  <2> QED BY <1>2, <2>1, <2>2
<1> QED BY <1>7, <1>8

\* Every other step keeps it: the verdict compares two lengths, and when they
\* differ the names left over wait for each other.
LEMMA OthersKeepVerdict ==
    ASSUME OrderInv, VerdictInv, OrderIsCanonical, Reject \/ Count \/ Finish \/ UNCHANGED vars
    PROVE  VerdictInv' /\ OrderIsCanonical'
<1>1. UNCHANGED <<deps, order>> BY DEF Reject, Count, Finish, vars
<1>2. UNCHANGED <<declared, Placed, Cyclic>> BY <1>1 DEF declared, Placed, Cyclic
<1>3. OrderIsCanonical' BY <1>1, <1>2 DEF OrderIsCanonical
<1>4. CASE verdict' = verdict \/ verdict' \notin {"ok", "cycle"}
  BY <1>1, <1>2, <1>3, <1>4 DEF VerdictInv
<1>5. CASE Finish
  <2>1. Placed \subseteq declared /\ IsFiniteSet(declared)
    <3>1. IsFiniteSet(declared) BY NamesAssumption, FS_Subset DEF OrderInv, OrderDeclInv
    <3>2. order \in Seq(declared) BY DEF OrderInv, OrderDeclInv
    <3> QED BY <3>1, <3>2 DEF Placed
  <2>2. verdict' = "ok" => Placed = declared
    <3>1. verdict' = "ok" => Len(order) = Cardinality(declared)
      BY <1>5 DEF Finish, Outcome
    <3> QED BY <2>1, <3>1, FS_Subset DEF VerdictInv
  <2>3. verdict' = "cycle" => Cyclic
    <3> SUFFICES ASSUME verdict' = "cycle" PROVE Cyclic
      OBVIOUS
    <3> DEFINE Unplaced == declared \ Placed
    <3>1. Unplaced # {}
      <4>1. Len(order) # Cardinality(declared) BY <1>5 DEF Finish, Outcome
      <4> QED BY <2>1, <4>1 DEF VerdictInv
    <3>2. ASSUME NEW n \in Unplaced PROVE deps[n] \cap Unplaced # {}
      <4>1. ~ (deps[n] \subseteq Placed) BY <1>5 DEF Finish, OrderInv, OrderSortInv
      <4>2. deps[n] \subseteq declared BY <1>5 DEF Finish, OrderInv, OrderSortInv, Valid
      <4> QED BY <4>1, <4>2
    <3> QED BY <3>1, <3>2 DEF Cyclic
  <2> QED BY <1>1, <1>2, <1>3, <2>2, <2>3 DEF VerdictInv
<1> QED BY <1>4, <1>5 DEF Reject, Count, vars

\* Build accepts exactly the declarations without a cycle, and the order it then
\* returns has every node after its dependencies, and always takes the smallest
\* name that can come next: it does not depend on the iteration order of Go's maps.
THEOREM BuildIsExact == Spec => []OrderIsCorrect
<1>1. Init => OrderInv /\ VerdictInv /\ OrderIsCanonical
  <2> SUFFICES ASSUME Init PROVE OrderInv /\ VerdictInv /\ OrderIsCanonical
    OBVIOUS
  <2>1. order = <<>> /\ Placed = {} /\ verdict = "none" BY DEF Init, Placed
  <2>2. OrderInv BY DEF Init, OrderInv, OrderDeclInv, OrderSortInv, OrderIsTopological, declared
  <2>3. IsFiniteSet(Placed) /\ Cardinality(Placed) = Len(order)
    BY <2>1, FS_EmptySet
  <2>4. VerdictInv BY <2>1, <2>3 DEF VerdictInv
  <2>5. OrderIsCanonical BY <2>1 DEF OrderIsCanonical
  <2> QED BY <2>2, <2>4, <2>5
<1>2. OrderInv /\ VerdictInv /\ OrderIsCanonical /\ [Next]_vars
        => OrderInv' /\ VerdictInv' /\ OrderIsCanonical'
  BY OrderNextPreserves, PlaceKeepsVerdict, OthersKeepVerdict DEF Next, Done
<1>3. OrderInv /\ VerdictInv /\ OrderIsCanonical => OrderIsCorrect
  <2> SUFFICES ASSUME OrderInv, VerdictInv, OrderIsCanonical, verdict = "ok", Cyclic PROVE FALSE
    BY DEF OrderIsCorrect, VerdictIsExact, VerdictInv, OrderInv
  <2>1. PICK S \in SUBSET declared : S # {} /\ \A n \in S : deps[n] \cap S # {}
    BY DEF Cyclic
  <2> QED BY <2>1 DEF VerdictInv
<1> QED BY <1>1, <1>2, <1>3, PTL DEF Spec
-----------------------------------------------------------------------------
(* The sessions of a user.                                                 *)

SessionRow == [state : {"none", "active", "revoked", "gone"}, login : Nat, proof : Nat, fails : Nat,
               failedAt : Nat, lockedUntil : Nat, credential : Nat]
Places == {"idle", "insert", "probe", "load", "drop", "mark", "backfill", "granted", "save", "saveAll",
           "markAll"}
LookupState == [at : Places, sid : SessionIds \cup {"none"}, wasDead : BOOLEAN, found : SUBSET SessionIds,
                 credential : Nat]
Minutes == Nat \ {0}
SessionsTyped ==
  /\ clock \in Minutes /\ password \in Nat
  /\ row \in [SessionIds -> SessionRow] /\ cached \in [SessionIds -> {"none", "active", "revoked"}]
  /\ handler \in [Handlers -> LookupState] /\ guesses \in [SessionIds -> Seq(Minutes)]

(* What a request knows of the rows it has seen: a lookup that began at a  *)
(* dead row is not admitted, for the row is dead still, and a mark that is *)
(* about to be left is of a row that is dead.                              *)
LookupInv(x, rows) ==
  /\ x.at \in {"probe", "load", "drop", "mark", "backfill", "granted", "save"} => x.sid \in SessionIds
  /\ x.at \in {"probe", "load"} /\ x.wasDead => rows[x.sid].state \in Dead
  /\ x.at \in {"backfill", "granted"} => ~x.wasDead
  /\ x.at = "mark" => rows[x.sid].state \in Dead
  /\ x.at = "saveAll" => \A s \in x.found : rows[s].state \in Dead \cup {"active"}
  /\ x.at = "markAll" => \A s \in x.found : rows[s].state \in Dead

(* The wrong passwords a session remembers are in the order of their times *)
(* and no LockTTL holds more of them than MaxFailures.  The row knows the  *)
(* last; it counts those since the window last lapsed, or is locked.       *)
RowCounts(times, r) ==
  LET n == Len(times) IN
  /\ r.failedAt = times[n] /\ r.fails # 0
  /\ r.fails >= MaxFailures => r.lockedUntil = r.failedAt + LockTTL
  /\ r.fails < MaxFailures /\ r.fails < n =>
       times[n - r.fails + 1] > times[n - r.fails] + FailureWindow
Spaced(times) == Len(times) > MaxFailures => times[MaxFailures + 1] >= times[1] + LockTTL
GuessInv(times, r, now) ==
  /\ Len(times) <= MaxFailures + 1
  /\ \A i \in 1..Len(times) : times[i] <= now /\ \A j \in 1..i : times[j] <= times[i]
  /\ Len(times) # 0 => r.state = "active" /\ RowCounts(times, r)
  /\ Spaced(times)

SessionsInv ==
  /\ SessionsTyped
  /\ \A h \in Handlers : LookupInv(handler[h], row)
  /\ SentinelIsTrue
  /\ \A s \in SessionIds : GuessInv(guesses[s], row[s], clock)
  /\ LoginMethodRemains

LEMMA SessionConstants ==
  /\ ProofTTL \in Nat /\ LockTTL \in Nat /\ MaxFailures \in Nat \ {0} /\ SessionTTL \in Nat
  /\ FailureWindow \in Nat /\ LockTTL <= FailureWindow
  BY SessionsAssumption

(* No row that is dead is used again, and an active one ends only dead.    *)
GoesOn(rows, later) ==
  \A s \in SessionIds : /\ rows[s].state \in Dead => later[s].state \in Dead
                        /\ rows[s].state = "active" => later[s].state \in Dead \cup {"active"}

LEMMA RequestStays ==
  ASSUME NEW x \in LookupState, NEW rows, NEW later, GoesOn(rows, later), LookupInv(x, rows)
  PROVE  LookupInv(x, later)
<1>1. x.found \subseteq SessionIds BY DEF LookupState
<1>2. "active" \notin Dead BY DEF Dead
<1> QED BY <1>1, <1>2 DEF LookupInv, GoesOn

(* A request moves on, and the others stay where they are.                 *)
LEMMA OneRequest ==
  ASSUME SessionsInv, NEW h \in Handlers, NEW x \in LookupState,
         handler' = [handler EXCEPT ![h] = x],
         GoesOn(row, row'), LookupInv(x, row')
  PROVE  /\ handler' \in [Handlers -> LookupState]
         /\ \A g \in Handlers : LookupInv(handler'[g], row')
<1>1. handler \in [Handlers -> LookupState] BY DEF SessionsInv, SessionsTyped
<1>2. handler' \in [Handlers -> LookupState] BY <1>1
<1>3. ASSUME NEW g \in Handlers PROVE LookupInv(handler'[g], row')
  <2>1. CASE g = h BY <1>1, <2>1
  <2>2. CASE g # h
    <3>1. handler'[g] = handler[g] /\ handler[g] \in LookupState BY <1>1, <2>2
    <3>2. LookupInv(handler[g], row) BY DEF SessionsInv
    <3> QED BY <3>1, <3>2, RequestStays
  <2> QED BY <2>1, <2>2
<1> QED BY <1>2, <1>3

LEMMA OneRequestGoes ==
  ASSUME SessionsInv, NEW h \in Handlers, NEW place \in Places
  PROVE  \E x \in LookupState :
           /\ [handler EXCEPT ![h].at = place] = [handler EXCEPT ![h] = x]
           /\ x.at = place /\ x.sid = handler[h].sid /\ x.wasDead = handler[h].wasDead
           /\ x.found = handler[h].found
<1>1. handler \in [Handlers -> LookupState] BY DEF SessionsInv, SessionsTyped
<1>2. PICK y \in LookupState : y = handler[h] BY <1>1
<1>3. [y EXCEPT !.at = place] \in LookupState BY DEF LookupState, Places
<1>4. /\ [y EXCEPT !.at = place].at = place /\ [y EXCEPT !.at = place].sid = y.sid
      /\ [y EXCEPT !.at = place].wasDead = y.wasDead /\ [y EXCEPT !.at = place].found = y.found
  BY DEF LookupState
<1>5. [handler EXCEPT ![h].at = place] = [handler EXCEPT ![h] = [y EXCEPT !.at = place]]
  BY <1>1, <1>2
<1> QED BY <1>2, <1>3, <1>4, <1>5

LEMMA Rests ==
  /\ NotBusy \in LookupState /\ \A rows : LookupInv(NotBusy, rows)
  BY DEF NotBusy, LookupState, Places, LookupInv

(* A step that touches no row and no password leaves what they say alone.  *)
LEMMA RowsRest ==
  ASSUME SessionsInv, UNCHANGED <<row, password, bindings, guesses, clock>>,
         cached' \in [SessionIds -> {"none", "active", "revoked"}], SentinelIsTrue',
         handler' \in [Handlers -> LookupState],
         \A g \in Handlers : LookupInv(handler'[g], row')
  PROVE  SessionsInv'
<1>1. SessionsTyped' BY DEF SessionsInv, SessionsTyped
<1>2. \A s \in SessionIds : GuessInv(guesses'[s], row'[s], clock') BY DEF SessionsInv
<1>3. LoginMethodRemains' BY DEF SessionsInv, LoginMethodRemains
<1> QED BY <1>1, <1>2, <1>3 DEF SessionsInv

LEMMA SameRowsGoOn == \A rows : GoesOn(rows, rows)
  BY DEF GoesOn

(* A cache command: it stores a mark only for a row that is dead.          *)
LEMMA CacheHolds ==
  ASSUME SessionsInv, NEW s \in SessionIds, NEW value \in {"none", "active", "revoked"},
         Caches(s, value), value = "revoked" => row[s].state \in Dead, row' = row
  PROVE  cached' \in [SessionIds -> {"none", "active", "revoked"}] /\ SentinelIsTrue'
  BY DEF SessionsInv, SessionsTyped, Caches, SentinelIsTrue

(* The steps of a login and of a lookup that write no row.                 *)
LEMMA LookupKeeps ==
  ASSUME SessionsInv, NEW h \in Handlers,
         \/ VerifyCredential(h) \/ Backfill(h) \/ Probe(h) \/ LoadRow(h) \/ Drop(h) \/ Mark(h)
         \/ Served(h) \/ RevokeUser(h) \/ \E s \in SessionIds : Look(h, s) \/ Revoke(h, s)
  PROVE  SessionsInv'
<1> DEFINE Entries == [SessionIds -> {"none", "active", "revoked"}]
<1>1. /\ handler \in [Handlers -> LookupState] /\ row \in [SessionIds -> SessionRow]
      /\ cached \in Entries /\ password \in Nat
  BY DEF SessionsInv, SessionsTyped
<1>2. LookupInv(handler[h], row) BY DEF SessionsInv
<1>3. UNCHANGED <<row, password, bindings, guesses, clock>> /\ GoesOn(row, row')
  BY SameRowsGoOn DEF VerifyCredential, Backfill, Probe, LoadRow, Drop, Mark, Served, RevokeUser, Look,
     Revoke, Durable
<1>4. ASSUME NEW x \in LookupState, handler' = [handler EXCEPT ![h] = x], LookupInv(x, row),
             cached' \in Entries /\ SentinelIsTrue'
      PROVE  SessionsInv'
  BY <1>3, <1>4, OneRequest, RowsRest
<1>5. ASSUME UNCHANGED cached
      PROVE  cached' \in Entries /\ SentinelIsTrue'
  BY <1>1, <1>3, <1>5 DEF SessionsInv, SentinelIsTrue
<1>6. ASSUME Finishes(h), cached' \in Entries /\ SentinelIsTrue' PROVE SessionsInv'
  BY <1>4, <1>6, Rests DEF Finishes
<1>7. ASSUME NEW place \in Places, Goes(h, place), cached' \in Entries /\ SentinelIsTrue',
             \A x \in LookupState :
                x.at = place /\ x.sid = handler[h].sid /\ x.wasDead = handler[h].wasDead
                   /\ x.found = handler[h].found => LookupInv(x, row)
      PROVE  SessionsInv'
  <2>1. PICK x \in LookupState :
           /\ [handler EXCEPT ![h].at = place] = [handler EXCEPT ![h] = x]
           /\ x.at = place /\ x.sid = handler[h].sid /\ x.wasDead = handler[h].wasDead
           /\ x.found = handler[h].found
    BY OneRequestGoes
  <2>2. handler' = [handler EXCEPT ![h] = x] BY <1>7, <2>1 DEF Goes
  <2> QED BY <1>4, <1>7, <2>1, <2>2
<1>8. handler[h].at \in {"probe", "load", "drop", "mark", "backfill", "granted", "save"} =>
        handler[h].sid \in SessionIds
  BY <1>2 DEF LookupInv
<1> HIDE DEF Entries
<1>9. CASE VerifyCredential(h)
  <2>1. UNCHANGED cached BY <1>9 DEF VerifyCredential
  <2>2. PICK credential \in {password, 0} :
           handler' = [handler EXCEPT ![h] = [NotBusy EXCEPT !.at = "insert", !.credential = credential]]
    BY <1>9 DEF VerifyCredential
  <2>3. PICK x \in LookupState : x = [NotBusy EXCEPT !.at = "insert", !.credential = credential]
    <3>1. credential \in Nat BY <1>1, <2>2
    <3> QED BY <3>1 DEF NotBusy, LookupState, Places
  <2>4. x.at = "insert" BY <2>3 DEF NotBusy
  <2>5. LookupInv(x, row) BY <2>4 DEF LookupInv
  <2> QED BY <1>4, <1>5, <2>1, <2>2, <2>3, <2>5
<1>10. CASE Backfill(h)
  <2>1. handler[h].at = "backfill" /\ Caches(handler[h].sid, "active") /\ Goes(h, "granted")
    BY <1>10 DEF Backfill
  <2>2. cached' \in Entries /\ SentinelIsTrue'
    BY <1>3, <1>8, <2>1, CacheHolds DEF Entries
  <2>3. ASSUME NEW x \in LookupState, x.at = "granted", x.sid = handler[h].sid,
               x.wasDead = handler[h].wasDead
        PROVE  LookupInv(x, row)
    BY <1>2, <2>1, <2>3 DEF LookupInv
  <2> QED BY <1>7, <2>1, <2>2, <2>3 DEF Places
<1>11. CASE Probe(h)
  <2>1. handler[h].at = "probe" /\ UNCHANGED cached BY <1>11 DEF Probe
  <2>2. handler[h].sid \in SessionIds /\ row[handler[h].sid] \in SessionRow BY <1>1, <1>8, <2>1
  <2>3. CASE row[handler[h].sid].state = "gone" /\ Goes(h, "drop")
    <3>1. ASSUME NEW x \in LookupState, x.at = "drop", x.sid = handler[h].sid
          PROVE  LookupInv(x, row)
      BY <2>2, <3>1 DEF LookupInv
    <3> QED BY <1>5, <1>7, <2>1, <2>3, <3>1 DEF Places
  <2>4. CASE row[handler[h].sid].state = "revoked" /\ Goes(h, "mark")
    <3>1. ASSUME NEW x \in LookupState, x.at = "mark", x.sid = handler[h].sid
          PROVE  LookupInv(x, row)
      BY <2>2, <2>4, <3>1 DEF LookupInv, Dead
    <3> QED BY <1>5, <1>7, <2>1, <2>4, <3>1 DEF Places
  <2>5. CASE Finishes(h) BY <1>5, <1>6, <2>1, <2>5
  <2>6. CASE Trusted(handler[h].sid) /\ Goes(h, "granted")
    <3>1. ~handler[h].wasDead BY <1>2, <2>1, <2>6 DEF LookupInv, Trusted, Dead
    <3>2. ASSUME NEW x \in LookupState, x.at = "granted", x.sid = handler[h].sid,
                 x.wasDead = handler[h].wasDead
          PROVE  LookupInv(x, row)
      BY <2>2, <3>1, <3>2 DEF LookupInv
    <3> QED BY <1>5, <1>7, <2>1, <2>6, <3>2 DEF Places
  <2> QED BY <1>11, <2>3, <2>4, <2>5, <2>6 DEF Probe
<1>12. CASE LoadRow(h)
  <2>1. handler[h].at = "load" /\ UNCHANGED cached BY <1>12 DEF LoadRow
  <2>2. CASE Finishes(h) BY <1>5, <1>6, <2>1, <2>2
  <2>3. CASE Trusted(handler[h].sid) /\ Goes(h, "backfill")
    <3>1. ~handler[h].wasDead /\ handler[h].sid \in SessionIds
      BY <1>2, <2>1, <2>3 DEF LookupInv, Trusted, Dead
    <3>2. ASSUME NEW x \in LookupState, x.at = "backfill", x.sid = handler[h].sid,
                 x.wasDead = handler[h].wasDead
          PROVE  LookupInv(x, row)
      BY <3>1, <3>2 DEF LookupInv
    <3> QED BY <1>5, <1>7, <2>1, <2>3, <3>2 DEF Places
  <2> QED BY <1>12, <2>2, <2>3 DEF LoadRow
<1>13. CASE Drop(h)
  <2>1. handler[h].at = "drop" /\ Caches(handler[h].sid, "none") /\ Finishes(h) BY <1>13 DEF Drop
  <2>2. cached' \in Entries /\ SentinelIsTrue' BY <1>3, <1>8, <2>1, CacheHolds DEF Entries
  <2> QED BY <1>6, <2>1, <2>2
<1>14. CASE Mark(h)
  <2>1. handler[h].at = "mark" /\ Caches(handler[h].sid, "revoked") /\ Finishes(h) BY <1>14 DEF Mark
  <2>2. row[handler[h].sid].state \in Dead BY <1>2, <2>1 DEF LookupInv
  <2>3. cached' \in Entries /\ SentinelIsTrue' BY <1>3, <1>8, <2>1, <2>2, CacheHolds DEF Entries
  <2> QED BY <1>6, <2>1, <2>3
<1>15. CASE Served(h) BY <1>5, <1>6, <1>15 DEF Served
<1>16. CASE RevokeUser(h)
  <2>1. UNCHANGED cached
        /\ handler' = [handler EXCEPT ![h] = [NotBusy EXCEPT !.at = "saveAll", !.found = LiveSessions]]
    BY <1>16 DEF RevokeUser
  <2>2. PICK x \in LookupState : x = [NotBusy EXCEPT !.at = "saveAll", !.found = LiveSessions]
    BY DEF NotBusy, LookupState, Places, LiveSessions
  <2>3. x.at = "saveAll" /\ x.found = LiveSessions BY <2>2 DEF NotBusy
  <2>4. LookupInv(x, row) BY <2>3 DEF LookupInv, LiveSessions
  <2> QED BY <1>4, <1>5, <2>1, <2>2, <2>4
<1>17. CASE \E s \in SessionIds : Look(h, s)
  <2>1. PICK s \in SessionIds : Look(h, s) BY <1>17
  <2>2. UNCHANGED cached BY <2>1 DEF Look
  <2>3. CASE Finishes(h) BY <1>5, <1>6, <2>2, <2>3
  <2>4. CASE \E place \in {"probe", "load"} :
               handler' = [handler EXCEPT ![h] = [NotBusy EXCEPT !.at = place, !.sid = s,
                                                    !.wasDead = row[s].state \in Dead]]
    <3>1. PICK place \in {"probe", "load"} :
               handler' = [handler EXCEPT ![h] = [NotBusy EXCEPT !.at = place, !.sid = s,
                                                    !.wasDead = row[s].state \in Dead]]
      BY <2>4
    <3>2. PICK wasDead \in BOOLEAN : wasDead = (row[s].state \in Dead)
      <4>1. (row[s].state \in Dead) \in BOOLEAN OBVIOUS
      <4> QED BY <4>1
    <3>3. PICK x \in LookupState : x = [NotBusy EXCEPT !.at = place, !.sid = s, !.wasDead = wasDead]
      BY DEF NotBusy, LookupState, Places
    <3>4. x.at = place /\ x.sid = s /\ x.wasDead = wasDead BY <3>3 DEF NotBusy
    <3>5. LookupInv(x, row) BY <3>2, <3>4 DEF LookupInv
    <3>6. handler' = [handler EXCEPT ![h] = x] BY <3>1, <3>2, <3>3
    <3> QED BY <1>4, <1>5, <2>2, <3>5, <3>6
  <2> QED BY <2>1, <2>3, <2>4 DEF Look, Finishes
<1>18. CASE \E s \in SessionIds : Revoke(h, s)
  <2>1. PICK s \in SessionIds : Revoke(h, s) BY <1>18
  <2>2. UNCHANGED cached /\ row[s].state \in {"active", "revoked"} BY <2>1 DEF Revoke
  <2>3. PICK place \in {"mark", "save"} :
             /\ place = "mark" => row[s].state = "revoked"
             /\ handler' = [handler EXCEPT ![h] = [NotBusy EXCEPT !.sid = s, !.at = place]]
    BY <2>1 DEF Revoke
  <2>4. PICK x \in LookupState : x = [NotBusy EXCEPT !.sid = s, !.at = place]
    BY DEF NotBusy, LookupState, Places
  <2>5. x.at = place /\ x.sid = s BY <2>4 DEF NotBusy
  <2>6. LookupInv(x, row) BY <2>3, <2>5 DEF LookupInv, Dead
  <2> QED BY <1>4, <1>5, <2>2, <2>3, <2>4, <2>6
<1> QED BY <1>9, <1>10, <1>11, <1>12, <1>13, <1>14, <1>15, <1>16, <1>17, <1>18

LEMMA NoGuesses ==
  ASSUME NEW times \in Seq(Minutes), Len(times) = 0, NEW r, NEW now \in Minutes
  PROVE  GuessInv(times, r, now)
  BY SessionConstants DEF GuessInv, Spaced

LEMMA NoneLeft ==
  ASSUME NEW r, NEW now \in Minutes
  PROVE  <<>> \in Seq(Minutes) /\ GuessInv(<<>>, r, now)
<1>1. <<>> \in Seq(Minutes) /\ Len(<<>>) = 0 OBVIOUS
<1> QED BY <1>1, NoGuesses

(* A step that writes one row, with what its guesses are then.             *)
LEMMA OneRow ==
  ASSUME SessionsInv, NEW s \in SessionIds, NEW r \in SessionRow, NEW times \in Seq(Minutes),
         row' = [row EXCEPT ![s] = r], guesses' = [guesses EXCEPT ![s] = times],
         row[s].state \in Dead => r.state \in Dead,
         row[s].state = "active" => r.state \in Dead \cup {"active"},
         GuessInv(times, r, clock)
  PROVE  /\ row' \in [SessionIds -> SessionRow] /\ guesses' \in [SessionIds -> Seq(Minutes)]
         /\ GoesOn(row, row') /\ \A q \in SessionIds : GuessInv(guesses'[q], row'[q], clock)
<1>1. row \in [SessionIds -> SessionRow] /\ guesses \in [SessionIds -> Seq(Minutes)]
  BY DEF SessionsInv, SessionsTyped
<1>2. row' \in [SessionIds -> SessionRow] /\ guesses' \in [SessionIds -> Seq(Minutes)] BY <1>1
<1>3. \A q \in SessionIds : IF q = s THEN row'[q] = r /\ guesses'[q] = times
                                     ELSE row'[q] = row[q] /\ guesses'[q] = guesses[q]
  BY <1>1
<1>4. GoesOn(row, row') BY <1>3 DEF GoesOn
<1>5. \A q \in SessionIds : GuessInv(guesses'[q], row'[q], clock) BY <1>3 DEF SessionsInv
<1> QED BY <1>2, <1>4, <1>5

(* With the rows as they are to be, the rest of the invariant follows.     *)
LEMMA RowsWritten ==
  ASSUME SessionsInv, GoesOn(row, row'), cached' = cached, clock' = clock,
         row' \in [SessionIds -> SessionRow], guesses' \in [SessionIds -> Seq(Minutes)],
         \A q \in SessionIds : GuessInv(guesses'[q], row'[q], clock),
         handler' \in [Handlers -> LookupState],
         \A h \in Handlers : LookupInv(handler'[h], row'),
         password' \in Nat, LoginMethodRemains'
  PROVE  SessionsInv'
<1>1. SessionsTyped' BY DEF SessionsInv, SessionsTyped
<1>2. SentinelIsTrue' BY DEF SessionsInv, SentinelIsTrue, GoesOn
<1> QED BY <1>1, <1>2 DEF SessionsInv

LEMMA RequestsStay ==
  ASSUME SessionsInv, GoesOn(row, row'), handler' = handler
  PROVE  /\ handler' \in [Handlers -> LookupState]
         /\ \A h \in Handlers : LookupInv(handler'[h], row')
<1>1. handler \in [Handlers -> LookupState] /\ \A h \in Handlers : LookupInv(handler[h], row)
  BY DEF SessionsInv, SessionsTyped
<1> QED BY <1>1, RequestStays

LEMMA DeadRows ==
  \A state \in Dead : Ended(state) \in SessionRow /\ Ended(state).state = state
  BY DEF Dead, Ended, NoRow, SessionRow

LEMMA LogInKeeps ==
  ASSUME SessionsInv, NEW h \in Handlers, NEW s \in SessionIds, LogIn(h, s)
  PROVE  SessionsInv'
<1>1. /\ row \in [SessionIds -> SessionRow] /\ guesses \in [SessionIds -> Seq(Minutes)]
      /\ clock \in Minutes /\ handler \in [Handlers -> LookupState] /\ password \in Nat
  BY DEF SessionsInv, SessionsTyped
<1>2. /\ handler[h].at = "insert" /\ row[s].state = "none"
      /\ row' = [row EXCEPT ![s] = [NoRow EXCEPT !.state = "active", !.login = clock, !.proof = clock,
                                                !.credential = handler[h].credential]]
      /\ handler' = [handler EXCEPT ![h] = [NotBusy EXCEPT !.at = "backfill", !.sid = s]]
      /\ UNCHANGED <<clock, cached, password, bindings, guesses>>
  BY DEF LogIn
<1>3. handler[h].credential \in Nat
  <2>1. handler[h] \in LookupState BY <1>1
  <2> QED BY <2>1 DEF LookupState
<1>4. PICK r \in SessionRow : r = [NoRow EXCEPT !.state = "active", !.login = clock, !.proof = clock,
                                                !.credential = handler[h].credential]
  BY <1>1, <1>3 DEF NoRow, SessionRow, Minutes
<1>5. r.state = "active" BY <1>4 DEF NoRow
<1>6. PICK x \in LookupState : x = [NotBusy EXCEPT !.at = "backfill", !.sid = s]
  BY DEF NotBusy, LookupState, Places
<1>7. x.at = "backfill" /\ x.sid = s /\ ~x.wasDead BY <1>6 DEF NotBusy
<1>8. guesses[s] \in Seq(Minutes) /\ Len(guesses[s]) = 0
  BY <1>1, <1>2 DEF SessionsInv, GuessInv
<1>9. guesses' = [guesses EXCEPT ![s] = guesses[s]] BY <1>1, <1>2
<1>10. GuessInv(guesses[s], r, clock) BY <1>1, <1>8, NoGuesses
<1>11. /\ row' \in [SessionIds -> SessionRow] /\ guesses' \in [SessionIds -> Seq(Minutes)]
       /\ GoesOn(row, row') /\ \A q \in SessionIds : GuessInv(guesses'[q], row'[q], clock)
  <2>1. row' = [row EXCEPT ![s] = r] BY <1>2, <1>4
  <2>2. row[s].state \notin Dead BY <1>2 DEF Dead
  <2> QED BY <1>2, <1>8, <1>9, <1>10, <2>1, <2>2, OneRow
<1>12. LookupInv(x, row') BY <1>7 DEF LookupInv
<1>13. /\ handler' \in [Handlers -> LookupState]
       /\ \A g \in Handlers : LookupInv(handler'[g], row')
  <2>1. handler' = [handler EXCEPT ![h] = x] BY <1>2, <1>6
  <2> QED BY <1>11, <1>12, <2>1, OneRequest
<1>14. LoginMethodRemains' BY <1>2 DEF SessionsInv, LoginMethodRemains
<1>15. cached' = cached /\ clock' = clock /\ password' \in Nat BY <1>1, <1>2
<1> QED BY <1>11, <1>13, <1>14, <1>15, RowsWritten

LEMMA SaveKeeps ==
  ASSUME SessionsInv, NEW h \in Handlers, Save(h)
  PROVE  SessionsInv'
<1>1. /\ guesses \in [SessionIds -> Seq(Minutes)] /\ clock \in Minutes /\ password \in Nat
  BY DEF SessionsInv, SessionsTyped
<1>2. LookupInv(handler[h], row) BY DEF SessionsInv
<1>3. handler[h].at = "save" /\ handler[h].sid \in SessionIds BY <1>2 DEF Save, LookupInv
<1>4. PICK s \in SessionIds : s = handler[h].sid BY <1>3
<1>5. /\ row' = [row EXCEPT ![s] = Ended("revoked")] /\ guesses' = [guesses EXCEPT ![s] = <<>>]
      /\ Goes(h, "mark") /\ UNCHANGED <<clock, cached, password, bindings>>
  BY <1>4 DEF Save
<1>6. Ended("revoked") \in SessionRow /\ Ended("revoked").state = "revoked" /\ "revoked" \in Dead
  BY DeadRows DEF Dead
<1>7. <<>> \in Seq(Minutes) /\ GuessInv(<<>>, Ended("revoked"), clock) BY <1>1, NoneLeft
<1>8. /\ row' \in [SessionIds -> SessionRow] /\ guesses' \in [SessionIds -> Seq(Minutes)]
      /\ GoesOn(row, row') /\ \A q \in SessionIds : GuessInv(guesses'[q], row'[q], clock)
  BY <1>5, <1>6, <1>7, OneRow
<1>9. PICK x \in LookupState :
           /\ [handler EXCEPT ![h].at = "mark"] = [handler EXCEPT ![h] = x]
           /\ x.at = "mark" /\ x.sid = handler[h].sid /\ x.wasDead = handler[h].wasDead
           /\ x.found = handler[h].found
  <2>1. "mark" \in Places BY DEF Places
  <2> QED BY <2>1, OneRequestGoes
<1>10. row'[s].state \in Dead
  <2>1. row \in [SessionIds -> SessionRow] BY DEF SessionsInv, SessionsTyped
  <2>2. row'[s] = Ended("revoked") BY <1>5, <2>1
  <2> QED BY <1>6, <2>2
<1>11. LookupInv(x, row') BY <1>4, <1>9, <1>10 DEF LookupInv
<1>12. /\ handler' \in [Handlers -> LookupState]
       /\ \A g \in Handlers : LookupInv(handler'[g], row')
  <2>1. handler' = [handler EXCEPT ![h] = x] BY <1>5, <1>9 DEF Goes
  <2> QED BY <1>8, <1>11, <2>1, OneRequest
<1>13. LoginMethodRemains' BY <1>5 DEF SessionsInv, LoginMethodRemains
<1>14. cached' = cached /\ clock' = clock /\ password' \in Nat BY <1>1, <1>5
<1> QED BY <1>8, <1>12, <1>13, <1>14, RowsWritten

(* Every session that is active ends.                                      *)
LEMMA AllEnd ==
  ASSUME SessionsInv, AllRevoked
  PROVE  /\ row' \in [SessionIds -> SessionRow] /\ guesses' \in [SessionIds -> Seq(Minutes)]
         /\ GoesOn(row, row') /\ \A q \in SessionIds : GuessInv(guesses'[q], row'[q], clock)
         /\ \A q \in SessionIds : /\ row'[q].state # "active"
                                  /\ row[q].state \in Dead \cup {"active"} => row'[q].state \in Dead
<1>1. row \in [SessionIds -> SessionRow] /\ guesses \in [SessionIds -> Seq(Minutes)] /\ clock \in Minutes
  BY DEF SessionsInv, SessionsTyped
<1>2. Ended("revoked") \in SessionRow /\ Ended("revoked").state = "revoked" /\ "revoked" \in Dead
  BY DeadRows DEF Dead
<1>3. <<>> \in Seq(Minutes) /\ GuessInv(<<>>, Ended("revoked"), clock) BY <1>1, NoneLeft
<1>4. /\ DOMAIN row' = SessionIds /\ DOMAIN guesses' = SessionIds
      /\ row' = [q \in SessionIds |-> row'[q]] /\ guesses' = [q \in SessionIds |-> guesses'[q]]
      /\ \A q \in SessionIds : IF row[q].state = "active"
                               THEN row'[q] = Ended("revoked") /\ guesses'[q] = <<>>
                               ELSE row'[q] = row[q] /\ guesses'[q] = guesses[q]
  BY <1>1 DEF AllRevoked, LiveSessions
<1>5. \A q \in SessionIds : row'[q] \in SessionRow /\ guesses'[q] \in Seq(Minutes)
  BY <1>1, <1>2, <1>3, <1>4
<1>6. row' \in [SessionIds -> SessionRow] /\ guesses' \in [SessionIds -> Seq(Minutes)]
  BY <1>4, <1>5
<1>7. GoesOn(row, row') BY <1>2, <1>4 DEF GoesOn, Dead
<1>8. \A q \in SessionIds : GuessInv(guesses'[q], row'[q], clock) BY <1>3, <1>4 DEF SessionsInv
<1>9. \A q \in SessionIds : /\ row'[q].state # "active"
                            /\ row[q].state \in Dead \cup {"active"} => row'[q].state \in Dead
  BY <1>2, <1>4 DEF Dead
<1> QED BY <1>6, <1>7, <1>8, <1>9

LEMMA SaveAllKeeps ==
  ASSUME SessionsInv, NEW h \in Handlers, SaveAll(h)
  PROVE  SessionsInv'
<1>1. handler[h].at = "saveAll" /\ AllRevoked /\ Goes(h, "markAll")
      /\ UNCHANGED <<clock, cached, password, bindings>>
  BY DEF SaveAll
<1>2. handler \in [Handlers -> LookupState] /\ password \in Nat /\ LookupInv(handler[h], row)
  BY DEF SessionsInv, SessionsTyped
<1>3. handler[h].found \subseteq SessionIds
  <2>1. handler[h] \in LookupState BY <1>2
  <2> QED BY <2>1 DEF LookupState
<1>4. PICK x \in LookupState :
           /\ [handler EXCEPT ![h].at = "markAll"] = [handler EXCEPT ![h] = x]
           /\ x.at = "markAll" /\ x.sid = handler[h].sid /\ x.wasDead = handler[h].wasDead
           /\ x.found = handler[h].found
  <2>1. "markAll" \in Places BY DEF Places
  <2> QED BY <2>1, OneRequestGoes
<1>5. \A s \in x.found : row'[s].state \in Dead
  BY <1>1, <1>2, <1>3, <1>4, AllEnd DEF LookupInv
<1>6. LookupInv(x, row') BY <1>4, <1>5 DEF LookupInv
<1>7. /\ handler' \in [Handlers -> LookupState]
      /\ \A g \in Handlers : LookupInv(handler'[g], row')
  <2>1. handler' = [handler EXCEPT ![h] = x] BY <1>1, <1>4 DEF Goes
  <2> QED BY <1>1, <1>6, <2>1, AllEnd, OneRequest
<1>8. LoginMethodRemains' BY <1>1 DEF SessionsInv, LoginMethodRemains
<1>9. cached' = cached /\ clock' = clock /\ password' \in Nat BY <1>1, <1>2
<1> QED BY <1>1, <1>7, <1>8, <1>9, AllEnd, RowsWritten

LEMMA MarkNextKeeps ==
  ASSUME SessionsInv, NEW h \in Handlers, MarkNext(h)
  PROVE  SessionsInv'
<1>1. /\ handler \in [Handlers -> LookupState] /\ LookupInv(handler[h], row)
      /\ cached \in [SessionIds -> {"none", "active", "revoked"}] /\ SentinelIsTrue
  BY DEF SessionsInv, SessionsTyped
<1>2. handler[h].at = "markAll" /\ UNCHANGED <<row, password, bindings, guesses, clock>>
  BY DEF MarkNext, Durable
<1>3. handler[h] \in LookupState /\ GoesOn(row, row') BY <1>1, <1>2, SameRowsGoOn
<1>4. CASE \E s \in handler[h].found :
             Caches(s, "revoked") /\ handler' = [handler EXCEPT ![h].found = @ \ {s}]
  <2>1. PICK s \in handler[h].found :
             Caches(s, "revoked") /\ handler' = [handler EXCEPT ![h].found = @ \ {s}]
    BY <1>4
  <2>2. s \in SessionIds /\ row[s].state \in Dead BY <1>1, <1>2, <1>3 DEF LookupState, LookupInv
  <2>3. cached' \in [SessionIds -> {"none", "active", "revoked"}] /\ SentinelIsTrue'
    BY <1>2, <2>1, <2>2, CacheHolds
  <2>4. PICK y \in LookupState : y = handler[h] BY <1>3
  <2>5. PICK x \in LookupState : x = [y EXCEPT !.found = y.found \ {s}]
    BY DEF LookupState
  <2>6. x.at = "markAll" /\ x.found = handler[h].found \ {s} BY <1>2, <2>4, <2>5 DEF LookupState
  <2>7. handler' = [handler EXCEPT ![h] = x] BY <1>1, <2>1, <2>4, <2>5
  <2>8. LookupInv(x, row') BY <1>1, <1>2, <2>6 DEF LookupInv
  <2> QED BY <1>2, <1>3, <2>3, <2>7, <2>8, OneRequest, RowsRest
<1>5. CASE Finishes(h) /\ UNCHANGED cached
  <2>1. SentinelIsTrue' BY <1>1, <1>2, <1>5 DEF SentinelIsTrue
  <2> QED BY <1>1, <1>2, <1>3, <1>5, <2>1, Rests, OneRequest, RowsRest DEF Finishes
<1> QED BY <1>4, <1>5 DEF MarkNext

-----------------------------------------------------------------------------
(* The wrong passwords.  One more keeps them spaced: if the row counted    *)
(* MaxFailures of them it was locked until LockTTL after the last, and if  *)
(* it counted fewer, the window lapsed somewhere among the last of them.   *)
LEMMA OneMore ==
  ASSUME NEW times \in Seq(Minutes), NEW r \in SessionRow, NEW t \in SessionRow, NEW now \in Minutes,
         GuessInv(times, r, now), now >= r.lockedUntil,
         NEW kept \in Nat,
         kept = IF r.failedAt = 0 \/ now > r.failedAt + FailureWindow THEN 0 ELSE r.fails,
         t.state = "active", t.fails = kept + 1, t.failedAt = now,
         t.lockedUntil = IF kept + 1 >= MaxFailures THEN now + LockTTL ELSE 0
  PROVE  GuessInv(Append(IF Len(times) > MaxFailures THEN Tail(times) ELSE times, now), t, now)
<1> DEFINE n == Len(times)
           d == IF n > MaxFailures THEN 1 ELSE 0
           older == IF n > MaxFailures THEN Tail(times) ELSE times
           new == Append(older, now)
<1>1. /\ MaxFailures \in Nat \ {0} /\ LockTTL \in Nat /\ FailureWindow \in Nat
      /\ LockTTL <= FailureWindow
  BY SessionConstants
<1>2. n \in Nat /\ n <= MaxFailures + 1 /\ d \in {0, 1} BY <1>1 DEF GuessInv
<1>3. now \in Nat /\ now # 0 BY DEF Minutes
<1>4. \A i \in 1..n : times[i] \in Nat /\ times[i] # 0 /\ times[i] <= now
  BY DEF GuessInv, Minutes
<1>5. \A i, j \in 1..n : j <= i => times[j] <= times[i]
  <2>1. ASSUME NEW i \in 1..n, NEW j \in 1..n, j <= i PROVE times[j] <= times[i]
    <3>1. j \in 1..i BY <1>2, <2>1
    <3> QED BY <3>1 DEF GuessInv
  <2> QED BY <2>1
<1>6. older \in Seq(Minutes) /\ Len(older) = n - d /\ \A i \in 1..(n - d) : older[i] = times[i + d]
  <2>1. CASE n > MaxFailures
    <3>1. times # <<>> /\ d = 1 BY <1>1, <1>2, <2>1
    <3>2. Tail(times) \in Seq(Minutes) /\ Len(Tail(times)) = n - 1
          /\ \A i \in 1..(n - 1) : Tail(times)[i] = times[i + 1]
      BY <3>1
    <3> QED BY <2>1, <3>1, <3>2
  <2>2. CASE ~(n > MaxFailures)
    <3>1. d = 0 /\ older = times BY <2>2
    <3> QED BY <1>2, <3>1
  <2> QED BY <2>1, <2>2
<1>7. PICK m \in Nat : m = n - d /\ m <= MaxFailures BY <1>1, <1>2
<1> HIDE DEF n, d, older, new
<1>8. /\ new \in Seq(Minutes) /\ Len(new) = m + 1 /\ new[m + 1] = now
      /\ \A i \in 1..m : i + d \in 1..n /\ new[i] = times[i + d]
  <2>1. older \in Seq(Minutes) /\ Len(older) = m BY <1>6, <1>7
  <2>2. /\ new \in Seq(Minutes) /\ Len(new) = m + 1 /\ new[m + 1] = now
        /\ \A i \in 1..m : new[i] = older[i]
    BY <2>1, Appended DEF new
  <2>3. \A i \in 1..m : i + d \in 1..n BY <1>2, <1>7
  <2> QED BY <1>6, <1>7, <2>2, <2>3
<1>9. \A i \in 1..(m + 1) : new[i] \in Nat /\ new[i] <= now
  <2>1. ASSUME NEW i \in 1..(m + 1) PROVE new[i] \in Nat /\ new[i] <= now
    <3>1. CASE i = m + 1 BY <1>3, <1>8, <3>1
    <3>2. CASE i \in 1..m BY <1>4, <1>8, <3>2
    <3> QED BY <2>1, <3>1, <3>2
  <2> QED BY <2>1
<1>10. \A i \in 1..(m + 1) : \A j \in 1..i : new[j] <= new[i]
  <2>1. ASSUME NEW i \in 1..(m + 1), NEW j \in 1..i PROVE new[j] <= new[i]
    <3>1. CASE i = m + 1 BY <1>8, <1>9, <2>1, <3>1
    <3>2. CASE i \in 1..m
      <4>1. j \in 1..m /\ j <= i BY <2>1, <3>2
      <4>2. /\ new[j] = times[j + d] /\ new[i] = times[i + d] /\ j + d \in 1..n /\ i + d \in 1..n
        BY <1>8, <3>2, <4>1
      <4>3. j + d <= i + d BY <1>2, <3>2, <4>1
      <4> QED BY <1>5, <4>2, <4>3
    <3> QED BY <2>1, <3>1, <3>2
  <2> QED BY <2>1
<1>11. n # 0 => RowCounts(times, r) BY DEF GuessInv, n
<1>12. r.fails \in Nat /\ r.failedAt \in Nat /\ r.lockedUntil \in Nat BY DEF SessionRow
<1>13. n # 0 => /\ r.failedAt = times[n] /\ r.fails # 0 /\ n \in 1..n
                /\ r.fails >= MaxFailures => r.lockedUntil = r.failedAt + LockTTL
                /\ r.fails < MaxFailures /\ r.fails < n =>
                      /\ times[n - r.fails + 1] > times[n - r.fails] + FailureWindow
                      /\ n - r.fails \in 1..n /\ n - r.fails + 1 \in 1..n
  <2>1. n # 0 => /\ r.failedAt = times[n] /\ r.fails # 0
                 /\ r.fails >= MaxFailures => r.lockedUntil = r.failedAt + LockTTL
                 /\ r.fails < MaxFailures /\ r.fails < n =>
                       times[n - r.fails + 1] > times[n - r.fails] + FailureWindow
    BY <1>11 DEF RowCounts, n
  <2>2. n # 0 => n \in 1..n BY <1>2
  <2>3. n # 0 /\ r.fails # 0 /\ r.fails < n => n - r.fails \in 1..n /\ n - r.fails + 1 \in 1..n
    BY <1>2, <1>12
  <2> QED BY <2>1, <2>2, <2>3
(* Of MaxFailures + 1 times, the last is LockTTL after the first.          *)
<1>14. m = MaxFailures => now >= new[1] + LockTTL
  <2>1. SUFFICES ASSUME m = MaxFailures PROVE now >= new[1] + LockTTL OBVIOUS
  <2>2. n # 0 /\ 1 \in 1..m /\ new[1] = times[1 + d] /\ 1 + d \in 1..n BY <1>1, <1>2, <1>7, <1>8, <2>1
  <2>3. times[1 + d] \in Nat /\ times[n] \in Nat BY <1>4, <1>13, <2>2
  <2>4. CASE r.fails >= MaxFailures
    <3>1. r.lockedUntil = times[n] + LockTTL BY <1>13, <2>2, <2>4
    <3>2. times[1 + d] <= times[n] BY <1>2, <1>5, <1>13, <2>2
    <3>3. now >= times[n] + LockTTL BY <3>1
    <3> QED BY <1>1, <1>3, <2>2, <2>3, <3>2, <3>3
  <2>5. CASE r.fails < MaxFailures
    <3>1. r.fails < n /\ 1 + d <= n - r.fails BY <1>1, <1>2, <1>7, <1>12, <2>1, <2>5
    <3>2. PICK k \in 1..n : k = n - r.fails BY <1>13, <2>2, <2>5, <3>1
    <3>3. k + 1 \in 1..n /\ times[k + 1] > times[k] + FailureWindow
      BY <1>13, <2>2, <2>5, <3>1, <3>2
    <3>4. times[k] \in Nat /\ times[k + 1] \in Nat /\ times[k + 1] <= now BY <1>4, <3>2, <3>3
    <3>5. times[1 + d] <= times[k] BY <1>5, <2>2, <3>1, <3>2
    <3> QED BY <1>1, <1>3, <2>2, <2>3, <3>3, <3>4, <3>5
  <2> QED BY <1>1, <1>12, <2>4, <2>5
(* The row still tells where the window lapsed.                            *)
<1>15. kept + 1 < MaxFailures /\ kept + 1 < m + 1 =>
         new[m + 1 - (kept + 1) + 1] > new[m + 1 - (kept + 1)] + FailureWindow
  <2>1. SUFFICES ASSUME kept + 1 < MaxFailures, kept + 1 < m + 1
                 PROVE  new[m + 1 - (kept + 1) + 1] > new[m + 1 - (kept + 1)] + FailureWindow
    OBVIOUS
  <2>2. PICK k \in 1..m : k = m - kept BY <1>7, <2>1
  <2>3. m + 1 - (kept + 1) = k /\ m + 1 - (kept + 1) + 1 = k + 1 BY <1>7, <2>2
  <2>4. n # 0 /\ k + d \in 1..n /\ new[k] = times[k + d] BY <1>2, <1>7, <1>8, <2>2
  <2>5. CASE kept = 0
    <3>1. k = m /\ k + d = n BY <1>2, <1>7, <2>2, <2>5
    <3>2. new[k] = times[n] /\ new[k + 1] = now BY <1>8, <2>4, <3>1
    <3>3. r.failedAt = times[n] /\ r.failedAt # 0 /\ r.fails # 0 BY <1>4, <1>13, <2>4
    <3>4. now > r.failedAt + FailureWindow BY <2>5, <3>3
    <3> QED BY <2>3, <3>2, <3>3, <3>4
  <2>6. CASE kept # 0
    <3>1. kept = r.fails BY <2>6
    <3>2. k + 1 \in 1..m /\ k + d = n - kept /\ k + 1 + d = n - kept + 1
      BY <1>2, <1>7, <2>2, <2>6
    <3>3. kept < MaxFailures /\ kept < n BY <1>1, <1>2, <1>7, <2>1
    <3>4. times[k + 1 + d] > times[k + d] + FailureWindow BY <1>13, <2>4, <3>1, <3>2, <3>3
    <3>5. new[k + 1] = times[k + 1 + d] BY <1>8, <3>2
    <3> QED BY <2>3, <2>4, <3>4, <3>5
  <2> QED BY <2>5, <2>6
<1>16. RowCounts(new, t)
  <2>1. t.failedAt = new[Len(new)] /\ t.fails # 0 BY <1>8
  <2>2. t.fails >= MaxFailures => t.lockedUntil = t.failedAt + LockTTL OBVIOUS
  <2>3. Len(new) = m + 1 /\ t.fails = kept + 1 BY <1>8
  <2>4. t.fails < MaxFailures /\ t.fails < Len(new) =>
          new[Len(new) - t.fails + 1] > new[Len(new) - t.fails] + FailureWindow
    <3>1. Len(new) - t.fails = m + 1 - (kept + 1) /\ Len(new) - t.fails + 1 = m + 1 - (kept + 1) + 1
      BY <2>3
    <3>2. t.fails < MaxFailures /\ t.fails < Len(new) => kept + 1 < MaxFailures /\ kept + 1 < m + 1
      BY <2>3
    <3> QED BY <1>15, <3>1, <3>2
  <2> QED BY <2>1, <2>2, <2>4 DEF RowCounts
<1>17. Spaced(new)
  <2>1. Len(new) > MaxFailures => m = MaxFailures BY <1>1, <1>7, <1>8
  <2> QED BY <1>1, <1>8, <1>14, <2>1 DEF Spaced
<1>18. GuessInv(new, t, now)
  BY <1>1, <1>7, <1>8, <1>9, <1>10, <1>16, <1>17 DEF GuessInv
<1> QED BY <1>18 DEF new, older, n

-----------------------------------------------------------------------------
(* The steps that write the row of one session, no request being moved.    *)
LEMMA OneSessionKeeps ==
  ASSUME SessionsInv, NEW s \in SessionIds, NEW r \in SessionRow, NEW times \in Seq(Minutes),
         row' = [row EXCEPT ![s] = r], guesses' = [guesses EXCEPT ![s] = times],
         row[s].state \in Dead => r.state \in Dead,
         row[s].state = "active" => r.state \in Dead \cup {"active"},
         GuessInv(times, r, clock),
         UNCHANGED <<clock, cached, password, bindings, handler>>
  PROVE  SessionsInv'
<1>1. /\ row' \in [SessionIds -> SessionRow] /\ guesses' \in [SessionIds -> Seq(Minutes)]
      /\ GoesOn(row, row') /\ \A q \in SessionIds : GuessInv(guesses'[q], row'[q], clock)
  BY OneRow
<1>2. handler' \in [Handlers -> LookupState] /\ \A h \in Handlers : LookupInv(handler'[h], row')
  BY <1>1, RequestsStay
<1>3. LoginMethodRemains' BY DEF SessionsInv, LoginMethodRemains
<1>4. password' \in Nat BY DEF SessionsInv, SessionsTyped
<1> QED BY <1>1, <1>2, <1>3, <1>4, RowsWritten

LEMMA CleanupKeeps ==
  ASSUME SessionsInv, NEW s \in SessionIds, Cleanup(s)
  PROVE  SessionsInv'
<1>1. Ended("gone") \in SessionRow /\ Ended("gone").state = "gone" /\ "gone" \in Dead
  BY DeadRows DEF Dead
<1>2. clock \in Minutes BY DEF SessionsInv, SessionsTyped
<1>3. <<>> \in Seq(Minutes) /\ GuessInv(<<>>, Ended("gone"), clock) BY <1>2, NoneLeft
<1>4. /\ row' = [row EXCEPT ![s] = Ended("gone")] /\ guesses' = [guesses EXCEPT ![s] = <<>>]
      /\ UNCHANGED <<clock, cached, password, bindings, handler>>
  BY DEF Cleanup
<1> QED BY <1>1, <1>3, <1>4, OneSessionKeeps

LEMMA ProofKeeps ==
  ASSUME SessionsInv, NEW s \in SessionIds, row[s].state = "active", Proved(s),
         UNCHANGED <<clock, cached, password, bindings, handler>>
  PROVE  SessionsInv'
<1>1. row \in [SessionIds -> SessionRow] /\ clock \in Minutes BY DEF SessionsInv, SessionsTyped
<1>2. PICK q \in SessionRow : q = row[s] BY <1>1
<1>3. PICK r \in SessionRow : r = [q EXCEPT !.proof = clock, !.fails = 0, !.failedAt = 0,
                                            !.lockedUntil = 0]
  BY <1>1 DEF SessionRow, Minutes
<1>4. r.state = "active" BY <1>2, <1>3 DEF SessionRow
<1>5. row' = [row EXCEPT ![s] = r] /\ guesses' = [guesses EXCEPT ![s] = <<>>]
  BY <1>1, <1>2, <1>3 DEF Proved
<1>6. <<>> \in Seq(Minutes) /\ GuessInv(<<>>, r, clock) BY <1>1, NoneLeft
<1>7. row[s].state \notin Dead BY DEF Dead
<1> QED BY <1>4, <1>5, <1>6, <1>7, OneSessionKeeps

LEMMA GuessWrongKeeps ==
  ASSUME SessionsInv, NEW s \in SessionIds, GuessWrong(s)
  PROVE  SessionsInv'
<1>1. /\ row \in [SessionIds -> SessionRow] /\ guesses \in [SessionIds -> Seq(Minutes)]
      /\ clock \in Minutes /\ GuessInv(guesses[s], row[s], clock)
  BY DEF SessionsInv, SessionsTyped
<1>2. PICK q \in SessionRow : q = row[s] BY <1>1
<1>3. PICK times \in Seq(Minutes) : times = guesses[s] BY <1>1
<1>4. /\ q.state = "active" /\ ~(clock < q.lockedUntil)
      /\ UNCHANGED <<clock, cached, password, bindings, handler>>
  BY <1>2 DEF GuessWrong, Current, Locked
<1>5. Failures(s) \in Nat BY <1>2 DEF Failures, SessionRow
<1>6. PICK kept \in Nat : kept = Failures(s) BY <1>5
<1>7. kept = IF q.failedAt = 0 \/ clock > q.failedAt + FailureWindow THEN 0 ELSE q.fails
  BY <1>2, <1>6 DEF Failures
<1>8. MaxFailures \in Nat /\ LockTTL \in Nat /\ clock \in Nat BY <1>1, SessionConstants DEF Minutes
<1>9. PICK until \in Nat : until = IF kept + 1 >= MaxFailures THEN clock + LockTTL ELSE 0
  BY <1>8
<1>10. PICK r \in SessionRow : r = [q EXCEPT !.fails = kept + 1, !.failedAt = clock,
                                             !.lockedUntil = until]
  <2>1. PICK count \in Nat : count = kept + 1 BY <1>6
  <2>2. [q EXCEPT !.fails = count, !.failedAt = clock, !.lockedUntil = until] \in SessionRow
    BY <1>8 DEF SessionRow
  <2> QED BY <2>1, <2>2
<1>11. r.state = "active" /\ r.fails = kept + 1 /\ r.failedAt = clock /\ r.lockedUntil = until
  BY <1>4, <1>10 DEF SessionRow
<1>12. row' = [row EXCEPT ![s] = r]
  BY <1>1, <1>2, <1>6, <1>9, <1>10 DEF GuessWrong
<1> DEFINE older == IF Len(times) > MaxFailures THEN Tail(times) ELSE times
<1>13. guesses' = [guesses EXCEPT ![s] = Append(older, clock)]
  BY <1>1, <1>3 DEF GuessWrong
<1>14. GuessInv(Append(older, clock), r, clock)
  <2>1. GuessInv(times, q, clock) BY <1>1, <1>2, <1>3
  <2>2. clock >= q.lockedUntil
    <3>1. q.lockedUntil \in Nat BY DEF SessionRow
    <3> QED BY <1>4, <1>8, <3>1
  <2> QED BY <1>1, <1>7, <1>9, <1>11, <2>1, <2>2, OneMore
<1>15. Append(older, clock) \in Seq(Minutes)
  <2>1. CASE Len(times) > MaxFailures
    <3>1. Len(times) # 0 BY <1>8, <2>1
    <3>2. Tail(times) \in Seq(Minutes) BY <3>1
    <3> QED BY <1>1, <2>1, <3>2, Appended
  <2>2. CASE ~(Len(times) > MaxFailures) BY <1>1, <2>2, Appended
  <2> QED BY <2>1, <2>2
<1>16. row[s].state = "active" /\ row[s].state \notin Dead BY <1>2, <1>4 DEF Dead
<1> HIDE DEF older
<1> QED BY <1>4, <1>11, <1>12, <1>13, <1>14, <1>15, <1>16, OneSessionKeeps

LEMMA PasswordKeeps ==
  ASSUME SessionsInv, PasswordResetWithDB
  PROVE  SessionsInv'
<1>1. /\ AllRevoked /\ password' = password + 1 /\ UNCHANGED <<clock, cached, bindings, handler>>
  BY DEF PasswordResetWithDB, AllDropped
<1>2. password \in Nat BY DEF SessionsInv, SessionsTyped
<1>3. password' \in Nat /\ LoginMethodRemains' BY <1>1, <1>2 DEF LoginMethodRemains
<1>4. handler' \in [Handlers -> LookupState] /\ \A h \in Handlers : LookupInv(handler'[h], row')
  BY <1>1, AllEnd, RequestsStay
<1> QED BY <1>1, <1>3, <1>4, AllEnd, RowsWritten

(* Time passes; the other steps touch no row.                              *)
LEMMA QuietStepsKeep ==
  ASSUME SessionsInv,
         \/ \E s \in SessionIds, provider \in Providers : DisconnectOAuth(s, provider)
         \/ MinutesPass
         \/ UNCHANGED sessionsVars
  PROVE  SessionsInv'
<1>1. /\ clock \in Minutes /\ password \in Nat /\ guesses \in [SessionIds -> Seq(Minutes)]
      /\ LoginMethodRemains
  BY DEF SessionsInv, SessionsTyped
<1>2. UNCHANGED <<row, cached, password, handler, guesses>>
  BY DEF DisconnectOAuth, MinutesPass, sessionsVars
<1>3. clock' \in Minutes /\ clock' >= clock
  BY <1>1 DEF DisconnectOAuth, MinutesPass, sessionsVars, Minutes
<1>4. LoginMethodRemains'
  <2>1. CASE \E s \in SessionIds, provider \in Providers : DisconnectOAuth(s, provider)
    <3>1. PICK s \in SessionIds, provider \in Providers : DisconnectOAuth(s, provider) BY <2>1
    <3>2. bindings' = bindings \ {provider} /\ ~LastMethod BY <3>1 DEF DisconnectOAuth
    <3>3. ASSUME bindings' = {} PROVE password # 0
      <4>1. bindings = {provider} BY <3>1, <3>2, <3>3 DEF DisconnectOAuth
      <4>2. Cardinality(bindings) = 1 BY <4>1, FS_Singleton
      <4> QED BY <3>2, <4>2 DEF LastMethod
    <3> QED BY <1>2, <3>3 DEF LoginMethodRemains
  <2>2. CASE MinutesPass \/ UNCHANGED sessionsVars
    BY <1>1, <2>2 DEF MinutesPass, sessionsVars, LoginMethodRemains
  <2> QED BY <2>1, <2>2
<1>5. ASSUME NEW s \in SessionIds PROVE GuessInv(guesses'[s], row'[s], clock')
  <2>1. PICK times \in Seq(Minutes) : times = guesses[s] BY <1>1
  <2>2. GuessInv(times, row[s], clock) BY <2>1 DEF SessionsInv
  <2>3. \A i \in 1..Len(times) : times[i] <= clock'
    <3>1. \A i \in 1..Len(times) : times[i] <= clock /\ times[i] \in Nat BY <2>2 DEF GuessInv, Minutes
    <3> QED BY <1>1, <1>3, <3>1 DEF Minutes
  <2>4. GuessInv(times, row[s], clock') BY <2>2, <2>3 DEF GuessInv
  <2> QED BY <1>2, <2>1, <2>4
<1>6. SessionsTyped' BY <1>2, <1>3 DEF SessionsInv, SessionsTyped
<1>7. SentinelIsTrue' /\ \A h \in Handlers : LookupInv(handler'[h], row')
  BY <1>2 DEF SessionsInv, SentinelIsTrue
<1> QED BY <1>4, <1>5, <1>6, <1>7 DEF SessionsInv

LEMMA SessionsInitially == SessionsInit => SessionsInv
<1> SUFFICES ASSUME SessionsInit PROVE SessionsInv OBVIOUS
<1>1. NoRow \in SessionRow BY DEF NoRow, SessionRow
<1>2. SessionsTyped BY <1>1, Rests, NoneLeft DEF SessionsInit, SessionsTyped, Minutes
<1>3. \A h \in Handlers : LookupInv(handler[h], row) BY Rests DEF SessionsInit
<1>4. SentinelIsTrue BY DEF SessionsInit, SentinelIsTrue
<1>5. \A s \in SessionIds : GuessInv(guesses[s], row[s], clock)
  <2>1. clock \in Minutes BY <1>2 DEF SessionsTyped
  <2> QED BY <2>1, NoneLeft DEF SessionsInit
<1>6. LoginMethodRemains BY DEF SessionsInit, LoginMethodRemains
<1> QED BY <1>2, <1>3, <1>4, <1>5, <1>6 DEF SessionsInv

LEMMA SessionsStepKeeps == SessionsInv /\ [SessionsNext]_sessionsVars => SessionsInv'
<1> SUFFICES ASSUME SessionsInv, [SessionsNext]_sessionsVars PROVE SessionsInv' OBVIOUS
<1>1. ASSUME NEW h \in Handlers, VerifyCredential(h) \/ Backfill(h) \/ Probe(h) \/ LoadRow(h) \/ Drop(h)
                                 \/ Mark(h) \/ Served(h) \/ RevokeUser(h)
                                 \/ \E s \in SessionIds : Look(h, s) \/ Revoke(h, s)
      PROVE  SessionsInv'
  BY <1>1, LookupKeeps
<1>2. ASSUME NEW h \in Handlers, NEW s \in SessionIds, LogIn(h, s) PROVE SessionsInv'
  BY <1>2, LogInKeeps
<1>3. ASSUME NEW h \in Handlers, Save(h) \/ SaveAll(h) \/ MarkNext(h) PROVE SessionsInv'
  BY <1>3, SaveKeeps, SaveAllKeeps, MarkNextKeeps
<1>4. ASSUME NEW s \in SessionIds, Cleanup(s) \/ GuessWrong(s) PROVE SessionsInv'
  BY <1>4, CleanupKeeps, GuessWrongKeeps
<1>5. ASSUME NEW s \in SessionIds, GuessRight(s) \/ MarkRecentlyAuthenticated(s) PROVE SessionsInv'
  BY <1>5, ProofKeeps DEF GuessRight, MarkRecentlyAuthenticated, Current
<1>6. ASSUME NEW s \in SessionIds, ChangePassword(s) PROVE SessionsInv'
  BY <1>6, PasswordKeeps DEF ChangePassword
<1>7. CASE PasswordResetWithDB BY <1>7, PasswordKeeps
<1>8. CASE \/ \E s \in SessionIds, provider \in Providers : DisconnectOAuth(s, provider)
           \/ MinutesPass
           \/ UNCHANGED sessionsVars
  BY <1>8, QuietStepsKeep
<1> QED BY <1>1, <1>2, <1>3, <1>4, <1>5, <1>6, <1>7, <1>8 DEF SessionsNext

LEMMA SessionsInvariance == SessionsSpec => []SessionsInv
  BY SessionsInitially, SessionsStepKeeps, PTL DEF SessionsSpec

LEMMA SessionsInvMeans == SessionsInv => SessionsAreSound /\ AccountIsGuarded
<1>1. SessionsInv => SessionsAreSound
  BY DEF SessionsInv, LookupInv, SessionsAreSound, RevocationIsImmediate
<1>2. SessionsInv => AccountIsGuarded
  BY DEF SessionsInv, GuessInv, Spaced, AccountIsGuarded, GuessesAreSpaced
<1> QED BY <1>1, <1>2

(* For any sessions, lookups, logins and revocations of a user, and cache  *)
(* commands that fail in any place: no lookup is admitted that began when  *)
(* its session was already over, and a mark in the cache is never of a     *)
(* session that is not.                                                    *)
THEOREM RevocationsHold == SessionsSpec => []SessionsAreSound
<1> QED BY SessionsInvMeans, SessionsInvariance, PTL

(* Between two proofs of identity a session has at most MaxFailures wrong  *)
(* passwords checked in any LockTTL, for every lock, window and number of  *)
(* failures with LockTTL at most the window; and a user always keeps a     *)
(* password or an identity to log in with.                                 *)
THEOREM GuessesAreLimited == SessionsSpec => []AccountIsGuarded
<1> QED BY SessionsInvMeans, SessionsInvariance, PTL

(* What a step does to the rows of the user.                               *)
LEMMA SessionsGoOn ==
  ASSUME SessionsInv, SessionsNext
  PROVE  /\ GoesOn(row, row')
         /\ password' # password => \A s \in SessionIds : row'[s].state # "active"
<1>1. row \in [SessionIds -> SessionRow] BY DEF SessionsInv, SessionsTyped
<1>2. CASE UNCHANGED <<row, password>> BY <1>2, SameRowsGoOn
<1>3. ASSUME NEW s \in SessionIds, NEW r, row' = [row EXCEPT ![s] = r], UNCHANGED password,
             row[s].state \in Dead => r.state \in Dead,
             row[s].state = "active" => r.state \in Dead \cup {"active"}
      PROVE  GoesOn(row, row') /\ UNCHANGED password
  BY <1>1, <1>3 DEF GoesOn
<1>4. ASSUME NEW h \in Handlers, NEW s \in SessionIds, LogIn(h, s)
      PROVE  GoesOn(row, row') /\ UNCHANGED password
  <2>1. row[s].state \notin Dead \cup {"active"} BY <1>4 DEF LogIn, Dead
  <2> QED BY <1>3, <1>4, <2>1 DEF LogIn
<1>5. ASSUME NEW h \in Handlers, Save(h) PROVE GoesOn(row, row') /\ UNCHANGED password
  <2>1. LookupInv(handler[h], row) BY DEF SessionsInv
  <2>2. handler[h].sid \in SessionIds BY <1>5, <2>1 DEF Save, LookupInv
  <2>3. Ended("revoked").state \in Dead BY DeadRows DEF Dead
  <2> QED BY <1>3, <1>5, <2>2, <2>3 DEF Save
<1>6. ASSUME NEW h \in Handlers, SaveAll(h) PROVE GoesOn(row, row') /\ UNCHANGED password
  BY <1>6, AllEnd DEF SaveAll
<1>7. ASSUME NEW s \in SessionIds, Cleanup(s) PROVE GoesOn(row, row') /\ UNCHANGED password
  <2>1. Ended("gone").state \in Dead BY DeadRows DEF Dead
  <2> QED BY <1>3, <1>7, <2>1 DEF Cleanup
<1>8. ASSUME NEW s \in SessionIds, GuessWrong(s) \/ GuessRight(s) \/ MarkRecentlyAuthenticated(s)
      PROVE  GoesOn(row, row') /\ UNCHANGED password
  <2>1. UNCHANGED password /\ row[s].state = "active"
    BY <1>8 DEF GuessWrong, GuessRight, MarkRecentlyAuthenticated, Current
  <2>2. DOMAIN row[s] = DOMAIN NoRow /\ "state" \in DOMAIN row[s]
    <3>1. row[s] \in SessionRow BY <1>1
    <3> QED BY <3>1 DEF SessionRow, NoRow
  <2>3. \A q \in SessionIds : row'[q].state = row[q].state
    <3>1. CASE GuessWrong(s) BY <1>1, <2>2, <3>1 DEF GuessWrong
    <3>2. CASE Proved(s) BY <1>1, <2>2, <3>2 DEF Proved
    <3> QED BY <1>8, <3>1, <3>2 DEF GuessRight, MarkRecentlyAuthenticated
  <2> QED BY <2>1, <2>3 DEF GoesOn
<1>9. ASSUME PasswordResetWithDB
      PROVE  GoesOn(row, row') /\ \A s \in SessionIds : row'[s].state # "active"
  BY <1>9, AllEnd DEF PasswordResetWithDB, AllDropped
<1>10. ASSUME NEW h \in Handlers,
              VerifyCredential(h) \/ Backfill(h) \/ Probe(h) \/ LoadRow(h) \/ Drop(h) \/ Mark(h)
                \/ Served(h) \/ RevokeUser(h) \/ MarkNext(h)
                \/ \E s \in SessionIds : Look(h, s) \/ Revoke(h, s)
       PROVE  UNCHANGED <<row, password>>
  BY <1>10 DEF VerifyCredential, Backfill, Probe, LoadRow, Drop, Mark, Served, RevokeUser, MarkNext, Look,
     Revoke, Durable
<1>11. (\E s \in SessionIds, provider \in Providers : DisconnectOAuth(s, provider)) \/ MinutesPass =>
         UNCHANGED <<row, password>>
  BY DEF DisconnectOAuth, MinutesPass
<1> QED BY <1>2, <1>4, <1>5, <1>6, <1>7, <1>8, <1>9, <1>10, <1>11 DEF SessionsNext, ChangePassword

(* A session keeps the credential it was opened with.                      *)
LEMMA CredentialsStay ==
  ASSUME SessionsInv, SessionsNext, NEW s \in SessionIds,
         row[s].state = "active", row'[s].state = "active"
  PROVE  row'[s].credential = row[s].credential
<1>1. row \in [SessionIds -> SessionRow] BY DEF SessionsInv, SessionsTyped
<1>2. Ended("revoked").state # "active" /\ Ended("gone").state # "active"
  BY DEF Ended, NoRow
<1>3. ASSUME NEW q, NEW r, row' = [row EXCEPT ![q] = r], q = s => r.state # "active"
      PROVE  row'[s] = row[s]
  BY <1>1, <1>3
<1>4. ~AllRevoked
  BY <1>2 DEF AllRevoked, LiveSessions
<1>5. ASSUME NEW h \in Handlers, NEW q \in SessionIds, LogIn(h, q) PROVE row'[s] = row[s]
  <2>1. q # s BY <1>5 DEF LogIn
  <2> QED BY <1>3, <1>5, <2>1 DEF LogIn
<1>6. ASSUME NEW h \in Handlers, Save(h) PROVE row'[s] = row[s]
  BY <1>2, <1>3, <1>6 DEF Save
<1>7. ASSUME NEW q \in SessionIds, Cleanup(q) PROVE row'[s] = row[s]
  BY <1>2, <1>3, <1>7 DEF Cleanup
<1>8. ASSUME NEW q \in SessionIds, GuessWrong(q) \/ GuessRight(q) \/ MarkRecentlyAuthenticated(q)
      PROVE  row'[s].credential = row[s].credential
  <2>1. CASE GuessWrong(q)
    BY <1>1, <2>1 DEF GuessWrong, SessionRow
  <2>2. CASE Proved(q)
    BY <1>1, <2>2 DEF Proved, SessionRow
  <2> QED BY <1>8, <2>1, <2>2 DEF GuessRight, MarkRecentlyAuthenticated
<1>9. ~PasswordResetWithDB /\ \A h \in Handlers : ~SaveAll(h)
  BY <1>4 DEF PasswordResetWithDB, AllDropped, SaveAll
<1>10. ASSUME NEW h \in Handlers,
              VerifyCredential(h) \/ Backfill(h) \/ Probe(h) \/ LoadRow(h) \/ Drop(h) \/ Mark(h)
                \/ Served(h) \/ RevokeUser(h) \/ MarkNext(h)
                \/ \E q \in SessionIds : Look(h, q) \/ Revoke(h, q)
       PROVE  UNCHANGED row
  BY <1>10 DEF VerifyCredential, Backfill, Probe, LoadRow, Drop, Mark, Served, RevokeUser, MarkNext, Look,
     Revoke, Durable
<1>11. (\E q \in SessionIds, provider \in Providers : DisconnectOAuth(q, provider)) \/ MinutesPass =>
         UNCHANGED row
  BY DEF DisconnectOAuth, MinutesPass
<1> QED BY <1>5, <1>6, <1>7, <1>8, <1>9, <1>10, <1>11 DEF SessionsNext, ChangePassword

LEMMA SessionsEndOnly == SessionsInv /\ [SessionsNext]_sessionsVars => [SessionsOnlyEnd]_sessionsVars
<1> SUFFICES ASSUME SessionsInv, SessionsNext PROVE SessionsOnlyEnd
  OBVIOUS
<1>1. /\ GoesOn(row, row')
      /\ password' # password => \A s \in SessionIds : row'[s].state # "active"
  BY SessionsGoOn
<1>2. ASSUME NEW s \in SessionIds, Outdated(s)', ~Outdated(s) PROVE row[s].state = "none"
  <2>1. row'[s].state = "active" /\ row'[s].credential \notin {0, password'} BY <1>2 DEF Outdated
  <2>2. password' = password BY <1>1, <2>1
  <2>3. row[s].state \notin Dead BY <1>1, <2>1 DEF GoesOn, Dead
  <2>4. row[s].state # "active" BY <1>2, <2>1, <2>2, CredentialsStay DEF Outdated
  <2>5. row[s] \in SessionRow BY DEF SessionsInv, SessionsTyped
  <2> QED BY <2>3, <2>4, <2>5 DEF SessionRow, Dead
<1> QED BY <1>1, <1>2 DEF GoesOn, SessionsOnlyEnd

(* A session that is over stays so, the transaction that changes a         *)
(* password leaves none of the user's sessions active, and only a login    *)
(* that checked the old password before it opens another on its strength.  *)
THEOREM PasswordsEndSessions == SessionsSpec => [][SessionsOnlyEnd]_sessionsVars
<1> QED BY SessionsEndOnly, SessionsInvariance, PTL DEF SessionsSpec
=============================================================================
