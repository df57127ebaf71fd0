------------------------- MODULE PresentationProfile -------------------------
(***************************************************************************)
(* One presentation profile (admin/service/presentation_profile.go): a     *)
(* draft that administrators replace, and the append-only revisions that   *)
(* publishing it or rolling back to an older one adds.  Every change names *)
(* the version its client saw; a publication or a rollback also carries an *)
(* idempotency key, so that a client may send it again, even before the    *)
(* first answer has come.                                                  *)
(*                                                                         *)
(* A document is named by the version of the profile that introduced it.   *)
(* Statements of a transaction that read are one step each; what it writes *)
(* becomes visible, and is checked against the unique indexes and the      *)
(* conditional update, in the last one.                                    *)
(***************************************************************************)
EXTENDS Naturals, Sequences

CONSTANTS Requests,        \* requests of clients; its name is a transition's idempotency key
          Resends,            \* how often a client may send one, overlapping
          MaxVersion       \* bound: versions of the profile

ASSUME PresentationAssumption == MaxVersion \in Nat \ {0}

VARIABLES profile,         \* version (0: no profile), draft (0: none), published
          revisions,       \* the rows of PresentationRevision, by number
          rowLocks,        \* whether SELECT ... FOR UPDATE locks on this database
          holder,          \* the run whose transaction holds the profile's row
          request,         \* what each request asks for
          run,             \* where each sending of it stands
          drafts           \* history: the draft at each version

presentationVars == <<profile, revisions, rowLocks, holder, request, run, drafts>>

Sendings == Requests \X Resends
Free == <<>>
Asks == [op : {"none", "replace", "publish", "rollback"}, version : 0..MaxVersion,
         source : 0..MaxVersion]
NotAsked == [op |-> "none", version |-> 0, source |-> 0]
NotRun == [stage |-> "idle", document |-> 0, revision |-> 0]

PresentationTypeOK ==
    /\ profile \in [version : 0..MaxVersion, draft : 0..MaxVersion, published : 0..MaxVersion]
    /\ revisions \in Seq([document : 1..MaxVersion, version : 1..MaxVersion, key : Requests,
                          source : 0..MaxVersion])
    /\ rowLocks \in BOOLEAN /\ holder \in Sendings \cup {Free}
    /\ request \in [Requests -> Asks]
    /\ run \in [Sendings -> [stage : {"idle", "lock", "write", "refused", "replayed", "done"},
                             document : 0..MaxVersion, revision : 0..MaxVersion]]
    /\ drafts \in [1..profile.version -> 0..MaxVersion]

PresentationInit ==
    /\ profile = [version |-> 0, draft |-> 0, published |-> 0]
    /\ revisions = <<>> /\ rowLocks \in BOOLEAN /\ holder = Free
    /\ request = [r \in Requests |-> NotAsked]
    /\ run = [s \in Sendings |-> NotRun]
    /\ drafts = <<>>

Now(s, stage, document, revision) ==
    run' = [run EXCEPT ![s] = [stage |-> stage, document |-> document, revision |-> revision]]

-----------------------------------------------------------------------------
(* The unique identity admits one profile; its first version is a draft.   *)
CreateDraft ==
    /\ profile.version = 0
    /\ profile' = [version |-> 1, draft |-> 1, published |-> 0]
    /\ drafts' = <<1>>
    /\ UNCHANGED <<revisions, rowLocks, holder, request, run>>

(* A client decides on what it sees, or saw some versions ago.             *)
Decides(r) ==
    /\ request[r].op = "none" /\ profile.version > 0
    /\ \E v \in 1..profile.version, op \in {"replace", "publish", "rollback"} :
          \E src \in IF op = "rollback" THEN 1..(Len(revisions) + 1) ELSE {0} :
             request' = [request EXCEPT ![r] = [op |-> op, version |-> v, source |-> src]]
    /\ UNCHANGED <<profile, revisions, rowLocks, holder, run, drafts>>

Known(key) == {n \in 1..Len(revisions) : revisions[n].key = key}

(* ReplaceDraft begins with the lock, a transition with the search for a   *)
(* revision of its idempotency key; the request hash of a key is always the*)
(* same here.                                                              *)
Begins(s) ==
    /\ request[s[1]].op # "none" /\ run[s].stage = "idle"
    /\ IF request[s[1]].op # "replace" /\ Known(s[1]) # {}
       THEN \E n \in Known(s[1]) : Now(s, "replayed", 0, n)
       ELSE Now(s, "lock", 0, 0)
    /\ UNCHANGED <<profile, revisions, rowLocks, holder, request, drafts>>

(* lockProfile, the comparison of versions, and what the transition needs: *)
(* a draft that is valid, or no draft and the source revision.             *)
SeenVersion(r) == request[r].version = profile.version
AnyVersion(r) == TRUE
Expected(r) == SeenVersion(r)
Admissible(r) ==
    CASE request[r].op = "replace" -> TRUE
      [] request[r].op = "publish" -> profile.draft # 0
      [] request[r].op = "rollback" -> /\ profile.draft = 0 /\ profile.published > 0
                                       /\ request[r].source \in 1..Len(revisions)
Document(r) == CASE request[r].op = "replace" -> 0
                 [] request[r].op = "publish" -> profile.draft
                 [] request[r].op = "rollback" -> revisions[request[r].source].document
Locks(s) ==
    LET r == s[1] IN
    /\ run[s].stage = "lock"
    /\ rowLocks => holder = Free
    /\ \/ /\ Expected(r) /\ Admissible(r)
          /\ Now(s, "write", Document(r), profile.version)
          /\ holder' = IF rowLocks THEN s ELSE Free
       \/ Now(s, "refused", 0, 0) /\ UNCHANGED holder
    /\ UNCHANGED <<profile, revisions, rowLocks, request, drafts>>

(* The new version, if the profile still has the one that was read: a draft*)
(* in place of the old one, or a revision that takes the draft's place and *)
(* that no other has the number or the key of.                             *)
Updates(s) == profile.version = run[s].revision
UpdatesAnyway(s) == profile.version < MaxVersion
Conditional(s) == Updates(s)
Unique(key) == Known(key) = {}
NextVersion == profile.version + 1
Changes(s) ==
    /\ profile.version < MaxVersion
    /\ \/ /\ request[s[1]].op = "replace"
          /\ profile' = [profile EXCEPT !.version = NextVersion, !.draft = NextVersion]
          /\ UNCHANGED revisions
          /\ Now(s, "done", 0, 0)
       \/ /\ request[s[1]].op # "replace" /\ Unique(s[1])
          /\ profile' = [version |-> NextVersion, draft |-> 0, published |-> profile.published + 1]
          /\ revisions' = Append(revisions, [document |-> run[s].document, version |-> NextVersion,
                                             key |-> s[1], source |-> request[s[1]].source])
          /\ Now(s, "done", 0, profile.published + 1)
WritesChange(s) ==
    /\ run[s].stage = "write"
    /\ holder' = IF holder = s THEN Free ELSE holder
    /\ \/ Conditional(s) /\ Changes(s) /\ drafts' = Append(drafts, profile'.draft)
       \/ Now(s, "refused", 0, 0) /\ UNCHANGED <<profile, revisions, drafts>>
    /\ UNCHANGED <<rowLocks, request>>

PresentationNext ==
    \/ CreateDraft
    \/ \E r \in Requests : Decides(r)
    \/ \E s \in Sendings : Begins(s) \/ Locks(s) \/ WritesChange(s)
PresentationSpec == PresentationInit /\ [][PresentationNext]_presentationVars

-----------------------------------------------------------------------------
(* The history has no gaps and no repetitions: a request sent again, also  *)
(* while the first sending is under way, adds one revision, and the profile*)
(* always is a draft or published, its last revision being the one served. *)
HistoryIsSound ==
    /\ profile.published = Len(revisions)
    /\ \A m, n \in 1..Len(revisions) :
          m < n => revisions[m].version < revisions[n].version /\ revisions[m].key # revisions[n].key
    /\ profile.version > 0 => profile.draft # 0 \/ profile.published > 0

(* What is published is the draft of the version the client saw, and what  *)
(* is rolled back to is the document of the revision it named, the profile *)
(* having no draft at that version.                                        *)
PublishesWhatWasSeen ==
    \A n \in 1..Len(revisions) :
        LET r == request[revisions[n].key] IN
        /\ revisions[n].version = r.version + 1
        /\ IF r.op = "publish" THEN revisions[n].document = drafts[r.version]
           ELSE drafts[r.version] = 0 /\ revisions[n].document = revisions[r.source].document

(* Whoever sends a request and is answered with a revision, at first hand  *)
(* or replayed, is answered with the same one.                             *)
AnswersAgree ==
    \A r \in Requests : \A i, j \in Resends :
        /\ run[<<r, i>>].stage \in {"done", "replayed"} /\ request[r].op # "replace"
              => run[<<r, i>>].revision \in Known(r)
        /\ {run[<<r, i>>].stage, run[<<r, j>>].stage} \subseteq {"done", "replayed"}
              => run[<<r, i>>].revision = run[<<r, j>>].revision

ProfileIsSound == HistoryIsSound /\ PublishesWhatWasSeen /\ AnswersAgree
=============================================================================
