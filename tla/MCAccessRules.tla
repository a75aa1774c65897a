--------------------------- MODULE MCAccessRules ---------------------------
(* AccessRules for TLC.  In one run the ids of groups and of users differ;  *)
(* in the other a group and a user share their id, as they may: chat_id is  *)
(* one column for both.                                                     *)
EXTENDS AccessRules, TLC

(* The group is put on the white list, its user on the black list in the    *)
(* group or on the white list everywhere, and off again: all four lists are *)
(* reloaded, and every rule of precedence can matter.                       *)
ThreeRules ==
  {c \in Command : IF c.kind \in {"create_group", "delete_group"}
                   THEN c.item_type = "WhiteList"
                   ELSE c.item_type = "BlackList" <=> c.group_id # None}

SameId == {1}

(* The workers are alike, so a run on safety alone may take one for another. *)
WorkerSymmetry == Permutations(Worker)

=============================================================================
