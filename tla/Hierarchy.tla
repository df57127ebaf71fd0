------------------------------ MODULE Hierarchy ------------------------------
(***************************************************************************)
(* The tree of departments (admin/service/authority_hierarchy.go) behind   *)
(* the generic actions of mss-boot/pkg/response/actions/gorm, and the posts*)
(* whose data scope lists departments; posts make a tree of their own in   *)
(* the same way.  A create and an update are validated outside of any      *)
(* transaction, one query per ancestor, and saved afterwards; a delete is  *)
(* validated inside its own.  No row is locked and none has a version, so  *)
(* two requests under way together may pass each other's checks.           *)
(***************************************************************************)
EXTENDS Naturals

CONSTANTS Departments,     \* numbers; 0 is no department
          Requesters       \* requests, one each

ASSUME HierarchyAssumption == Departments \subseteq Nat \ {0}

VARIABLES tree,            \* parent and status of each department
          scopes,          \* the departments the posts' custom scopes list
          ask,             \* where each request stands
          overlapped       \* history: a request saved over a change since it began

hierarchyVars == <<tree, scopes, ask, overlapped>>

Absent == [there |-> FALSE, parent |-> 0, enabled |-> FALSE]
FreshAsk == [stage |-> "idle", op |-> "none", target |-> 0, parent |-> 0, enabled |-> FALSE,
             set |-> {}, at |-> 0, visited |-> {}, late |-> FALSE]
Live == {d \in Departments : tree[d].there}
Children(d) == {k \in Live : tree[k].parent = d}

(* Every department leads to a root: its parent is there, and among any of *)
(* them there is one whose parent is none of them, so that no department   *)
(* is its own ancestor.                                                    *)
Rooted ==
    /\ \A d \in Live : tree[d].parent \in Live \cup {0}
    /\ \A some \in (SUBSET Live) \ {{}} : \E d \in some : tree[d].parent \notin some

HierarchyTypeOK ==
    /\ tree \in [Departments -> [there : BOOLEAN, parent : Departments \cup {0}, enabled : BOOLEAN]]
    /\ scopes \subseteq Departments /\ overlapped \in BOOLEAN
    /\ \A r \in Requesters :
          /\ ask[r].stage \in {"idle", "load", "walk", "count", "save", "check", "delete",
                               "done", "refused"}
          /\ ask[r].op \in {"none", "create", "update", "delete", "scope"}
          /\ ask[r].at \in Departments \cup {0} /\ ask[r].visited \subseteq Departments

HierarchyInit ==
    /\ tree \in [Departments -> {Absent} \cup [there : {TRUE}, parent : Departments \cup {0},
                                                enabled : {TRUE}]]
    /\ Rooted
    /\ scopes = {} /\ overlapped = FALSE
    /\ ask = [r \in Requesters |-> FreshAsk]

Proceeds(r, stage) == ask' = [ask EXCEPT ![r].stage = stage]

-----------------------------------------------------------------------------
(* A new department gets an identifier no other had; a post's custom scope *)
(* lists some; a delete takes one or several.                              *)
Fresh(d) == ~tree[d].there /\ \A r \in Requesters : ask[r].target # d /\ d \notin ask[r].set
Arrives(r) ==
    /\ ask[r].stage = "idle"
    /\ \/ \E d \in Departments, p \in Departments \cup {0} :
             /\ Fresh(d)
             /\ ask' = [ask EXCEPT ![r] = [FreshAsk EXCEPT !.stage = "walk", !.op = "create",
                            !.target = d, !.parent = p, !.at = p, !.enabled = TRUE]]
       \/ \E d \in Live, p \in Departments \cup {0}, on \in BOOLEAN :
             ask' = [ask EXCEPT ![r] = [FreshAsk EXCEPT !.stage = "load", !.op = "update",
                            !.target = d, !.parent = p, !.at = p, !.enabled = on]]
       \/ \E set \in (SUBSET Live) \ {{}} :
             ask' = [ask EXCEPT ![r] =
                        [FreshAsk EXCEPT !.stage = "check", !.op = "delete", !.set = set]]
       \/ \E set \in (SUBSET Departments) \ {{}} :
             ask' = [ask EXCEPT ![r] =
                        [FreshAsk EXCEPT !.stage = "count", !.op = "scope", !.set = set]]
    /\ UNCHANGED <<tree, scopes, overlapped>>

LoadsFirst(r) ==
    /\ ask[r].stage = "load"
    /\ Proceeds(r, IF tree[ask[r].target].there THEN "walk" ELSE "refused")
    /\ UNCHANGED <<tree, scopes, overlapped>>

(* validateAuthorityParent, one ancestor at a time: it is there, enabled,  *)
(* not the department itself - a new one has no identifier yet - and not   *)
(* one that was seen before.                                               *)
Itself(r) == ask[r].op = "update" /\ ask[r].at = ask[r].target
NeverItself(r) == ask[r].op = "update" /\ ask[r].at = ask[r].target /\ ask[r].visited = {}
Cycles(r) == Itself(r)
Walks(r) ==
    LET d == ask[r].at IN
    /\ ask[r].stage = "walk"
    /\ \/ d = 0 /\ Proceeds(r, "save")
       \/ /\ d # 0 /\ ~Cycles(r) /\ d \notin ask[r].visited
          /\ tree[d].there /\ tree[d].enabled
          /\ ask' = [ask EXCEPT ![r].at = tree[d].parent, ![r].visited = @ \cup {d}]
       \/ /\ d # 0
          /\ Cycles(r) \/ d \in ask[r].visited \/ ~tree[d].there \/ ~tree[d].enabled
          /\ Proceeds(r, "refused")
    /\ UNCHANGED <<tree, scopes, overlapped>>

(* Every change makes the checks of the other requests under way late.     *)
Saved(r) ==
    /\ ask' = [o \in Requesters |-> IF o = r THEN [ask[o] EXCEPT !.stage = "done"]
                                    ELSE [ask[o] EXCEPT !.late = @ \/ ask[o].stage # "idle"]]
    /\ overlapped' = (overlapped \/ ask[r].late)

(* Create, or Save of the whole row: gorm inserts it if it is not there.   *)
Saves(r) ==
    /\ ask[r].stage = "save" /\ ask[r].op # "scope"
    /\ tree' = [tree EXCEPT ![ask[r].target] =
                   [there |-> TRUE, parent |-> ask[r].parent, enabled |-> ask[r].enabled]]
    /\ Saved(r) /\ UNCHANGED scopes

(* A post's custom scope: all the departments it lists are enabled.        *)
AllEnabled(set) == \A d \in set : tree[d].there /\ tree[d].enabled
Counts(r) ==
    /\ ask[r].stage = "count"
    /\ Proceeds(r, IF AllEnabled(ask[r].set) THEN "save" ELSE "refused")
    /\ UNCHANGED <<tree, scopes, overlapped>>
SavesScope(r) ==
    /\ ask[r].stage = "save" /\ ask[r].op = "scope"
    /\ scopes' = scopes \cup ask[r].set
    /\ Saved(r) /\ UNCHANGED tree

(* ValidateDepartmentDelete: all are there, none has a child that stays,   *)
(* and no post's scope lists one; the users of a department are left out.  *)
OutsideChildren(set) == (UNION {Children(d) : d \in set}) \ set
NoChildren(set) == {}
ExternalChildren(set) == OutsideChildren(set)
InScopes(set) == set \cap scopes
NotInScopes(set) == {}
Referenced(set) == InScopes(set)
Checks(r) ==
    LET set == ask[r].set IN
    /\ ask[r].stage = "check"
    /\ Proceeds(r, IF set \subseteq Live /\ ExternalChildren(set) = {} /\ Referenced(set) = {}
               THEN "delete" ELSE "refused")
    /\ UNCHANGED <<tree, scopes, overlapped>>
Deletes(r) ==
    /\ ask[r].stage = "delete"
    /\ tree' = [d \in Departments |-> IF d \in ask[r].set THEN Absent ELSE tree[d]]
    /\ Saved(r) /\ UNCHANGED scopes

HierarchyNext ==
    \E r \in Requesters : \/ Arrives(r) \/ LoadsFirst(r) \/ Walks(r) \/ Saves(r) \/ Counts(r)
                          \/ SavesScope(r) \/ Checks(r) \/ Deletes(r)
HierarchySpec == HierarchyInit /\ [][HierarchyNext]_hierarchyVars

-----------------------------------------------------------------------------
(* Unless requests overlapped, every department leads to a root over       *)
(* departments that are there, and every scope lists departments that are. *)
(* Two that overlap can make a cycle, under which GetAllChildrenID would   *)
(* not return (see the README).                                            *)
TreeIsSound == overlapped \/ (Rooted /\ scopes \subseteq Live)
=============================================================================
