------------------------------ MODULE Judging ------------------------------
(***************************************************************************)
(* A message is judged (send_by_auth) while commands are at work: the       *)
(* judging task takes the locks of the lists one after another, and on a    *)
(* runtime of several threads anything may happen between two reads.  One   *)
(* judging stands for all: they only read.                                  *)
(*                                                                         *)
(* A judging is followed from its first read on if what it may come to is   *)
(* known then, and as long as it meets the work of one command at most.     *)
(* With two commands there is no saying: if the user is on no list, the     *)
(* judging reads the black list, then one command puts the user on the      *)
(* black list and a second one on the white list, and the judging reads     *)
(* the white list, the message passes although no table allows it.          *)
(***************************************************************************)
EXTENDS AccessRules

VARIABLES
  place,  \* the read the judging is at, "none" if none is followed
  asked,  \* the message judged, a group and a user, None if none is
  since   \* history: the table on which the judging began, None if none is
          \* followed

judgeVars == <<place, asked, since>>

judgingVars == <<vars, judgeVars>>

(* None stands for no table as well.                                        *)
ASSUME NoneIsNoTable == \A rs \in SUBSET Rule : rs # None

JudgeTypeOK ==
  /\ place \in Place \cup {"none"}
  /\ IF place = "none" THEN asked = None /\ since = None
     ELSE asked \in Asked \ {<<None, None>>} /\ since \in SUBSET Rule

JudgingInit == Init /\ place = "none" /\ asked = None /\ since = None

(* A client's call or a frame of the bot comes to send_by_auth.  Without a  *)
(* user and a group there is nothing to read.                               *)
Ask ==
  /\ place = "none"
  /\ suspect = {} /\ (Busy # {} => before # None)
  /\ \E a \in Asked :
       /\ a # <<None, None>>
       /\ asked' = a
       /\ place' = Enter(a[1], a[2])
  /\ since' = IF Busy = {} THEN rules ELSE before
  /\ UNCHANGED vars

Answers == Turn(lists, place, asked[1], asked[2])

(* Mutant of Look: the first list that decides does not end the judging.    *)
LookGoesOn ==
  /\ place # "none"
  /\ place' = Answers
  /\ UNCHANGED <<vars, asked, since>>

(* One read, under the lock of its list.                                    *)
Look ==
  /\ place # "none"
  /\ LET next == Answers IN
       IF next \in Place
       THEN place' = next /\ UNCHANGED <<asked, since>>
       ELSE place' = "none" /\ asked' = None /\ since' = None
  /\ UNCHANGED vars

(* The judging has met no other command than the one it began with or, if   *)
(* none was at work, the first one after.                                   *)
OneCommand == suspect' = {} /\ (before' = before \/ before' = since)

Watch ==
  IF OneCommand THEN UNCHANGED judgeVars
  ELSE place' = "none" /\ asked' = None /\ since' = None

(* The list of groups is still locked while a list of users is read again.  *)
Held ==
  {t \in {"WhileGroup"} : place = "BlackUserAgain"}
  \cup {t \in {"BlackGroup"} : place = "WhileUserAgain"}

Work ==
  /\ \E w \in Worker : Start(w) \/ Step(w)
  /\ \A t \in Held : lists'[t] = lists[t]
  /\ Watch

Crash == Restart /\ Watch

JudgingSpec ==
  JudgingInit /\ [][Ask \/ Look \/ Work \/ Crash]_judgingVars

-----------------------------------------------------------------------------
(* A judging that meets the work of one command at most, whichever of its   *)
(* reads fall before, between and after the lists that are published, ends   *)
(* as the rows say that it found or those of now: a reader meets no half-    *)
(* filled list (each is replaced as a whole, utils.rs:140, 161, 171, 181),   *)
(* and no mixture of lists with a verdict of its own, although it reads up   *)
(* to five times under separate locks (utils.rs:192, 195, 201, 204, 217,     *)
(* 220).                                                                     *)
NoGlitch ==
  place # "none" /\ Answers \in Decision
    => (Answers = "allow") \in {Verdict(since, asked[1], asked[2]),
                                Verdict(rules, asked[1], asked[2])}
=============================================================================
