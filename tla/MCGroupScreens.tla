---------------------------- MODULE MCGroupScreens ----------------------------
(***************************************************************************)
(* Small instances of GroupScreens for TLC.                                *)
(***************************************************************************)
EXTENDS GroupScreens, TLC

ThreeLinks == <<"link1", "link2", "link3">>
Interfering ==
    [c \in AllControls |->
        CASE c \in {"rename", "delete"} -> {"rename", "delete"}
          [] c = "rotate" -> {"rename", "rotate"}
          [] c = "remove" -> {"remove", "delete"}
          [] c = "leave" -> {"expel", "delete"}
          [] c = "join" -> {"rotate", "expel", "delete"}
          [] c = "create" -> {}]
Versions == [c \in AllControls |-> IF c = "rename" THEN 3 ELSE 4]
\* One control at a time.
Worked == {[role |-> "owner", works |-> {"rename"}], [role |-> "owner", works |-> {"rotate"}],
           [role |-> "owner", works |-> {"delete"}], [role |-> "owner", works |-> {"remove"}],
           [role |-> "member", works |-> {"leave"}], [role |-> "none", works |-> {"join"}],
           [role |-> "owner", works |-> {"create"}]}
=============================================================================
