---------------------------- MODULE MCBlockNames ----------------------------
(* Instances of BlockNames for TLC: one system block, that a backup renames. *)
EXTENDS BlockNames, TLC

MCSystemNames == 2 :> "sys"
MCBackup == <<[nid |-> 100, sid |-> "a"], [nid |-> 2, sid |-> "b"]>>
MCLegacy == <<[nid |-> 2, sid |-> "b"]>>
MCCreated == {[nid |-> 0, sid |-> "a"]}
MCOps == "c1" :> {"backup", "clear"}
      @@ "c2" :> {"read", "readAll", "create", "delete", "rename", "discover"}
=============================================================================
