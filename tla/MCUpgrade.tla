------------------------------- MODULE MCUpgrade ------------------------------
(***************************************************************************)
(* One upgrade beside a developer who edits: every file of "v2" is new or  *)
(* changed against "v1", and the second does not exist in "v1".            *)
(***************************************************************************)
EXTENDS Snapshots, TLC

MCPaths == 1..2
MCBuilt == ("v0" :> <<"absent", "absent">>) @@ ("v1" :> <<"a", "absent">>)
        @@ ("v2" :> <<"b", "b">>)
=============================================================================
