------------------------------ MODULE Generation ------------------------------
(***************************************************************************)
(* mss module generate (internal/mss/generator/generator.go): a plan is    *)
(* made from what each output path holds, and applied after every managed  *)
(* path was found to hold it still.  Others work in the repository at the  *)
(* same time: the developer, and generators of other modules, which share  *)
(* the registries.                                                         *)
(*                                                                         *)
(* Texts are named: one a generator recognises as its own kind by its      *)
(* marker, or one the developer wrote.  A path in Extension (custom.go) is *)
(* planned only if it is missing, and is not managed.  Paths are numbered  *)
(* in the order of the plan.  An applied change is one rename or removal.  *)
(***************************************************************************)
EXTENDS Naturals, FiniteSets

CONSTANTS Outputs,      \* the output paths, 1..n
          Extension,    \* those of extension points
          OutputGroup,  \* those that are present or missing together
          Generators,   \* calls of Generate
          Wanted,       \* the sets of outputs there are: path to content, "absent" if obsolete
          Marked,       \* contents with the marker of a generator
          MaxTouches    \* bound: edits by the developer

ASSUME GenerationAssumption ==
    /\ IsFiniteSet(Outputs) /\ Outputs # {} /\ Outputs = 1..Cardinality(Outputs)
    /\ Extension \subseteq Outputs /\ OutputGroup \subseteq Outputs \ Extension
    /\ MaxTouches \in Nat /\ 0 \notin Generators
    /\ {"absent", "hand", "present", "unplanned"} \cap Marked = {}
    /\ Wanted \subseteq [Outputs -> Marked \cup {"absent"}]

VARIABLES content,     \* of each path
          generate,    \* where each call stands
          touches,     \* edits so far
          intact       \* history: per call, the paths that held their preimage since it applies

generationVars == <<content, generate, touches, intact>>

Texts == Marked \cup {"absent", "hand"}
FreshGenerate == [stage |-> "idle", at |-> 0, desired |-> [p \in Outputs |-> "absent"],
                  preimage |-> [p \in Outputs |-> "unplanned"], found |-> {}, written |-> {},
                  overlap |-> FALSE, alone |-> TRUE]
GenerationTypeOK ==
    /\ content \in [Outputs -> Texts] /\ touches \in 0..MaxTouches
    /\ intact \in [Generators -> SUBSET Outputs]
    /\ \A g \in Generators :
          /\ generate[g].stage \in {"idle", "compare", "group", "check", "verify",
                                    "replace", "done", "reported", "conflict", "failed"}
          /\ generate[g].found \subseteq BOOLEAN
          /\ generate[g].preimage \in [Outputs -> Texts \cup {"unplanned"}]
          /\ generate[g].written \subseteq Outputs

GenerationInit ==
    /\ content \in [Outputs -> Texts]
    /\ \A p \in Outputs : content[p] \notin (IF p \in Extension THEN Marked ELSE {"hand"})
    /\ \A p, q \in OutputGroup : content[p] = "absent" => content[q] = "absent"
    /\ generate = [g \in Generators |-> FreshGenerate]
    /\ touches = 0 /\ intact = [g \in Generators |-> {}]

FirstOutput == CHOOSE p \in Outputs : \A q \in Outputs : p <= q
Following(p) == {q \in Outputs : q > p}
PlannedPaths(g) == {p \in Outputs : generate[g].preimage[p] # "unplanned"}
ManagedPlan(g) == PlannedPaths(g) \ Extension
Steps(g, stage, p) == generate' = [generate EXCEPT ![g].stage = stage, ![g].at = p]
NextPath(g, stage, next) ==
    IF Following(generate[g].at) = {} THEN Steps(g, next, FirstOutput)
    ELSE Steps(g, stage, generate[g].at + 1)

-----------------------------------------------------------------------------
(* renderModuleOutputs looks for the extension points before anything is   *)
(* compared.                                                               *)
Generates(g) ==
    /\ generate[g].stage = "idle"
    /\ \E d \in Wanted :
          generate' = [generate EXCEPT ![g] =
             [FreshGenerate EXCEPT !.stage = "compare", !.at = FirstOutput,
                !.desired = [p \in Outputs |->
                    IF p \in Extension /\ content[p] # "absent" THEN "present" ELSE d[p]]]]
    /\ UNCHANGED <<content, touches, intact>>

(* compareOutput and compareObsoleteOutput.  A managed path must hold      *)
(* nothing, or what a generator recognises.                                *)
UserOwned(p) == p \notin Extension /\ content[p] # "absent" /\ content[p] \notin Marked
NeverOwned(p) == FALSE
InConflict(p) == UserOwned(p)
KeepsObsolete(g, p) == generate[g].desired[p] \in {"present", "absent"}
Unneeded(g, p) == \/ generate[g].desired[p] = "present"
                  \/ generate[g].desired[p] = "absent" /\ content[p] = "absent"
Compares(g) ==
    LET p == generate[g].at IN
    /\ generate[g].stage = "compare"
    /\ IF Unneeded(g, p) THEN NextPath(g, "compare", "group")
       ELSE IF InConflict(p) THEN Steps(g, "conflict", p)
       ELSE generate' = [generate EXCEPT ![g].preimage[p] = content[p],
                ![g].stage = IF Following(p) = {} THEN "group" ELSE @,
                ![g].at = IF Following(p) = {} THEN FirstOutput ELSE p + 1]
    /\ UNCHANGED <<content, touches, intact>>

(* validateManagedOutputGroup looks at one path after the other; the group *)
(* has to be whole.  A dry run and --check report; --write applies.        *)
Found(g) == IF generate[g].at \in OutputGroup
            THEN generate[g].found \cup {content[generate[g].at] # "absent"}
            ELSE generate[g].found
Differs(g, p) == generate[g].preimage[p] # generate[g].desired[p]
HeldAsPlanned(g) == {p \in Outputs : content[p] = generate[g].preimage[p]}
ValidatesGroup(g) ==
    /\ generate[g].stage = "group"
    /\ \E stage \in {"group", "conflict", "reported", "done", "check"} :
          /\ CASE stage = "group" -> Following(generate[g].at) # {}
               [] stage = "conflict" -> Following(generate[g].at) = {} /\ Found(g) = BOOLEAN
               [] OTHER -> Following(generate[g].at) = {} /\ Found(g) # BOOLEAN
          /\ stage = "done" => \A p \in PlannedPaths(g) : ~Differs(g, p)
          /\ generate' = [generate EXCEPT
                ![g].stage = stage, ![g].at = IF stage = "group" THEN @ + 1 ELSE FirstOutput,
                ![g].found = IF stage = "group" THEN Found(g) ELSE {}]
          /\ intact' = IF stage = "check" THEN [intact EXCEPT ![g] = HeldAsPlanned(g)] ELSE intact
    /\ UNCHANGED <<content, touches>>

(* preflightManagedChange, for every planned path before the first write.  *)
Preserved(g, p) == p \in ManagedPlan(g) => content[p] = generate[g].preimage[p]
ChangedOnly(g, p) == Differs(g, p) => Preserved(g, p)
Unmoved(g, p) == Preserved(g, p)
ChecksPath(g) ==
    /\ generate[g].stage = "check"
    /\ IF Unmoved(g, generate[g].at) THEN NextPath(g, "check", "verify")
       ELSE Steps(g, "conflict", FirstOutput)
    /\ UNCHANGED <<content, touches, intact>>

(* writeAtomic: the preimage again, then the replacement.                  *)
Recheck(g, p) == Preserved(g, p)
NoRecheck(g, p) == TRUE
Verified(g, p) == Recheck(g, p)
Verifies(g) ==
    LET p == generate[g].at IN
    /\ generate[g].stage = "verify"
    /\ IF p \notin PlannedPaths(g) \/ ~Differs(g, p) THEN NextPath(g, "verify", "done")
       ELSE IF Verified(g, p)
       THEN generate' = [generate EXCEPT ![g].stage = "replace", ![g].overlap = FALSE]
       ELSE Steps(g, "conflict", p)
    /\ UNCHANGED <<content, touches, intact>>

(* A path that changes hands: calls about to replace it, and calls under   *)
(* way, have been interfered with.                                         *)
Interfered(by, p) ==
    [h \in Generators |->
        IF h = by THEN generate[h]
        ELSE [generate[h] EXCEPT
                !.alone = FALSE,
                !.overlap = @ \/ (generate[h].stage = "replace" /\ generate[h].at = p)]]
Holds(p, c) == [h \in Generators |->
                   intact[h] \cup {q \in {p} : generate[h].stage \in {"check", "verify", "replace"}
                                               /\ generate[h].preimage[p] = c}]
Replaces(g) ==
    LET p == generate[g].at
        c == generate[g].desired[p]
        others == Interfered(g, p) IN
    /\ generate[g].stage = "replace"
    /\ content' = [content EXCEPT ![p] = c]
    /\ generate' = [others EXCEPT ![g].written = @ \cup {p},
            ![g].stage = IF Following(p) = {} THEN "done" ELSE "verify",
            ![g].at = IF Following(p) = {} THEN FirstOutput ELSE p + 1]
    /\ intact' = Holds(p, c) /\ UNCHANGED touches

(* An operation on a file fails, or the command is killed: what was        *)
(* written stays.                                                          *)
StopsHalfway(g) ==
    /\ generate[g].stage = "replace" /\ Steps(g, "failed", FirstOutput)
    /\ UNCHANGED <<content, touches, intact>>

Touches(p) ==
    /\ touches < MaxTouches /\ touches' = touches + 1
    /\ \E c \in Texts \ {content[p]} :
          /\ content' = [content EXCEPT ![p] = c]
          /\ generate' = Interfered(0, p) /\ intact' = Holds(p, c)

GenerationNext ==
    \/ \E g \in Generators : \/ Generates(g) \/ Compares(g) \/ ValidatesGroup(g) \/ ChecksPath(g)
                             \/ Verifies(g) \/ Replaces(g) \/ StopsHalfway(g)
    \/ \E p \in Outputs : Touches(p)
GenerationSpec == GenerationInit /\ [][GenerationNext]_generationVars

-----------------------------------------------------------------------------
(* A conflict that was there when the plan is applied, on whichever managed*)
(* path, leaves every file as it was: a call that wrote anything has found *)
(* each of them as planned since.                                          *)
ConflictsWriteNothing ==
    \A g \in Generators : generate[g].written # {} => ManagedPlan(g) \subseteq intact[g]

(* A call that nobody interfered with and that succeeded has left what the *)
(* module asks for, so that another one finds nothing to change.           *)
SuccessIsComplete ==
    \A g \in Generators : generate[g].stage = "done" /\ generate[g].alone =>
        \A p \in Outputs : content[p] = generate[g].desired[p]
                           \/ generate[g].desired[p] = "present"

(* What the developer, or another generator, put on a managed path is not  *)
(* replaced, nor is anything without a marker, unless it came between the  *)
(* last look and the rename.                                               *)
OnlyPlannedIsReplaced ==
    \A g \in Generators : generate[g].written # generate'[g].written =>
        LET p == generate[g].at IN
        \/ p \in Extension \/ generate[g].overlap
        \/ content[p] = generate[g].preimage[p] /\ content[p] # "hand"
=============================================================================
