----------------------------- MODULE MCJudging -----------------------------
(* Judging for TLC, with the commands of MCAccessRules.                     *)
EXTENDS Judging, MCAccessRules

=============================================================================
