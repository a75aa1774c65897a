------------------------------ MODULE Session ------------------------------
(***************************************************************************)
(* What SingleImplSide promises about the bot it reports: alive() names one *)
(* only between the connect event of a link and the clean-up after that     *)
(* link, and no link begins before the clean-up of the last one.            *)
(***************************************************************************)

VARIABLES
  phase,   \* of the link: down, up, or over but not cleaned up
  online   \* user_id is Some

session == <<phase, online>>

Init == phase = "down" /\ online = FALSE

(* A link starts without a bot: nothing is left of the link before.         *)
Open ==
  /\ phase = "down"
  /\ phase' = "up"
  /\ UNCHANGED online

(* The connect event of the link.                                           *)
Announce ==
  /\ phase = "up"
  /\ online' = TRUE
  /\ UNCHANGED phase

(* The reader leaves its loop: the bot is still reported.                   *)
End ==
  /\ phase = "up"
  /\ phase' = "over"
  /\ UNCHANGED online

(* The bot is forgotten, and only then is the next link dialled.            *)
Close ==
  /\ phase = "over"
  /\ phase' = "down"
  /\ online' = FALSE

Next == Open \/ Announce \/ End \/ Close

Spec == Init /\ [][Next]_session
=============================================================================
