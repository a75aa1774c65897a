-------------------------- MODULE SingleLinkProofs --------------------------
(***************************************************************************)
(* Proofs about SingleLink, for any number of links, probes and servers.    *)
(***************************************************************************)
EXTENDS SingleLink, TLAPS, FiniteSetTheorems

(* A link that is read has its writer; a link that is cleaned up leaves     *)
(* neither writer nor bot to the next dialling; a bot is known only of the  *)
(* latest link.                                                             *)
LinkShape ==
  /\ pc \in {"receive", "lookup", "handling"} => writer /\ conn \in Conn
  /\ pc = "dial" => ~writer /\ user_id = 0
  /\ pc = "forget" => ~writer
  /\ SessionIsCurrent

(* The answers taken so far that were good.                                 *)
Taken == {p \in earned : probe[p] = "done"}

(* A raised flag that the end of the link will turn into a mail.            *)
Owed == IF disconnect /\ pc \in {"receive", "lookup", "handling", "over"}
        THEN 1 ELSE 0

(* A good answer in a channel will be taken once: it is in earned and not   *)
(* counted yet.                                                             *)
GoodIsEarned == \A p \in Probe : probe[p] = "good" => p \in earned

(* An answer is earned when it enters the channel and stays so.             *)
EarnedShape == \A p \in earned : probe[p] \in {"good", "done"}

(* Every mail sent or owed has a good answer of its own.                    *)
MailsArePaid == mails + Owed <= Cardinality(Taken)

(* Probes not begun yet have left no trace.                                 *)
ProbeShape == \A p \in Probe : p > probes => probe[p] = "none"

-----------------------------------------------------------------------------
Typed == TypeOK /\ LinkShape

LEMMA TypedInit == Init => Typed
<1> SUFFICES ASSUME Init PROVE Typed
  OBVIOUS
<1>1. 0 \in 0 .. MaxConn /\ 0 \in 0 .. MaxProbe /\ 0 \in 0 .. Servers - 1
  BY ConstantsAssumption
<1>2. TypeOK
  BY <1>1 DEF Init, TypeOK, PC, Fate, HeartbeatState, CheckerState
<1>3. LinkShape
  BY DEF Init, LinkShape, SessionIsCurrent
<1> QED
  BY <1>2, <1>3 DEF Typed

LEMMA TypedNext == Typed /\ [Next]_vars => Typed'
<1> SUFFICES ASSUME Typed, [Next]_vars PROVE Typed'
  OBVIOUS
<1> USE ConstantsAssumption
    DEF Typed, TypeOK, LinkShape, SessionIsCurrent, PC, Fate, HeartbeatState,
        CheckerState, Conn, Probe, Reading, NextFrame, linkVars, taskVars,
        mapVars, probeVars
<1>1. ASSUME Connect PROVE Typed'
  <2>1. conn + 1 \in 1 .. MaxConn
    BY <1>1 DEF Connect
  <2>2. TypeOK'
    <3>1. active' \in [Conn -> BOOLEAN]
      BY <1>1 DEF Connect
    <3>2. conn' \in 0 .. MaxConn
      BY <1>1, <2>1 DEF Connect
    <3> QED
      BY <1>1, <3>1, <3>2 DEF Connect
  <2>3. LinkShape'
    BY <1>1, <2>1 DEF Connect
  <2> QED
    BY <2>2, <2>3
<1>2. ASSUME ConnectEvent \/ Heartbeat \/ OtherFrame \/ Handled PROVE Typed'
  BY <1>2 DEF ConnectEvent, Heartbeat, OtherFrame, Handled
<1>3. ASSUME NEW p \in Probe, ProbeAnswer(p) PROVE Typed'
  BY <1>3 DEF ProbeAnswer
<1>13. ASSUME Lookup PROVE Typed'
  <2>1. /\ probe' \in [Probe -> Fate]
        /\ stray' \in SUBSET Probe /\ earned' \in SUBSET Probe
    BY <1>13 DEF Lookup, LookupElse, Deliver
  <2>2. pc = "lookup" /\ pc' \in {"receive", "handling", "over"}
    BY <1>13 DEF Lookup, LookupElse, Deliver
  <2> QED
    BY <1>13, <2>1, <2>2 DEF Lookup
<1>4. ASSUME LinkEnds \/ Mail PROVE Typed'
  <2>1. probe' \in [Probe -> Fate]
    BY <1>4 DEF LinkEnds, Mail, Abandon
  <2>2. mails' \in Nat
    BY <1>4 DEF LinkEnds, Mail
  <2>3. pc' \in {"over", "reset"}
    BY <1>4 DEF LinkEnds, Mail, Abandon
  <2> QED
    BY <1>4, <2>1, <2>2, <2>3 DEF LinkEnds, Mail
<1>5. ASSUME Forget PROVE Typed'
  <2>1. index' \in 0 .. Servers - 1
    BY <1>5 DEF Forget
  <2>2. TypeOK'
    <3>1. /\ pc' = "dial" /\ user_id' = 0
          /\ UNCHANGED <<conn, writer, disconnect, taskVars, stale, probeVars,
                        earned, mails>>
      BY <1>5 DEF Forget
    <3>2. 0 \in 0 .. MaxConn
      OBVIOUS
    <3> QED
      BY <2>1, <3>1, <3>2
  <2>3. LinkShape'
    BY <1>5 DEF Forget
  <2> QED
    BY <2>2, <2>3
<1>11. ASSUME DropWriter PROVE Typed'
  BY <1>11 DEF DropWriter
<1>6. ASSUME NEW n \in Conn, LockMap(n) PROVE Typed'
  <2>1. probes + 1 \in 1 .. MaxProbe /\ probes' = probes + 1 /\ guard' = probes'
    BY <1>6 DEF LockMap
  <2>2. /\ heartbeat' \in [Conn -> HeartbeatState]
        /\ checker' \in [Conn -> CheckerState]
    BY <1>6 DEF LockMap
  <2>3. /\ owner' \in [Probe -> 0 .. MaxConn]
        /\ probe' \in [Probe -> Fate]
        /\ echo_tx_map' \in SUBSET Probe
    <3>1. n \in 0 .. MaxConn
      OBVIOUS
    <3> QED
      BY <1>6, <2>1, <3>1 DEF LockMap
  <2>4. UNCHANGED <<linkVars, disconnect, active, stale, stray, earned, mails>>
    BY <1>6 DEF LockMap
  <2> QED
    BY <2>1, <2>2, <2>3, <2>4
<1>14. ASSUME Send PROVE Typed'
  BY <1>14 DEF Send
<1>15. ASSUME Unlock \/ SendFails PROVE Typed'
  <2>1. /\ heartbeat' \in [Conn -> HeartbeatState]
        /\ checker' \in [Conn -> CheckerState]
        /\ guard' \in 0 .. MaxProbe
    BY <1>15 DEF Unlock, SendFails, Return
  <2>2. /\ probe' \in [Probe -> Fate]
        /\ echo_tx_map' \in SUBSET Probe
    BY <1>15 DEF Unlock, SendFails
  <2>3. UNCHANGED <<linkVars, disconnect, active, stale, probes, owner, stray,
                    earned, mails>>
    BY <1>15 DEF Unlock, SendFails
  <2> QED
    BY <2>1, <2>2, <2>3
<1>7. ASSUME NEW n \in Conn, HeartbeatTask(n) \/ Tick(n) \/ CheckerEnds(n)
      PROVE  Typed'
  <2>1. /\ heartbeat' \in [Conn -> HeartbeatState]
        /\ checker' \in [Conn -> CheckerState]
    BY <1>7 DEF HeartbeatTask, HeartbeatLate, HeartbeatInTime, HeartbeatWakes,
                Tick, CheckerEnds
  <2>2. UNCHANGED <<linkVars, disconnect, active, stale, probeVars, earned,
                    mails>>
    BY <1>7 DEF HeartbeatTask, HeartbeatLate, HeartbeatInTime, HeartbeatWakes,
                Tick, CheckerEnds
  <2> QED
    BY <2>1, <2>2
<1>8. ASSUME NEW p \in Probe, TakeAnswer(p) PROVE Typed'
  BY <1>8 DEF TakeAnswer
<1>9. ASSUME TimePasses PROVE Typed'
  BY <1>9 DEF TimePasses
<1>12. ASSUME CtrlC PROVE Typed'
  <2>1. /\ heartbeat' \in [Conn -> HeartbeatState]
        /\ checker' \in [Conn -> CheckerState]
    BY <1>12 DEF CtrlC
  <2>2. /\ pc' = IF pc \in {"dial", "receive"} THEN "exit" ELSE pc
        /\ UNCHANGED <<conn, index, writer, user_id, disconnect, active, stale,
                       probeVars, earned, mails>>
    BY <1>12 DEF CtrlC
  <2> QED
    BY <2>1, <2>2
<1>10. ASSUME UNCHANGED vars PROVE Typed'
  BY <1>10 DEF vars
<1> QED
  BY <1>1, <1>2, <1>3, <1>4, <1>5, <1>6, <1>7, <1>8, <1>9, <1>10,
     <1>11, <1>12, <1>13, <1>14, <1>15
     DEF Next, Frame

(* Every variable keeps its type (single.rs:36-52).                         *)
THEOREM TypeCorrect == Spec => []TypeOK
<1>1. Init => Typed
  BY TypedInit
<1>2. Typed /\ [Next]_vars => Typed'
  BY TypedNext
<1>3. Typed => TypeOK
  BY DEF Typed
<1> QED
  BY <1>1, <1>2, <1>3, PTL DEF Spec

(* alive() never reports the bot of an earlier link (single.rs:98-99, 116). *)
THEOREM SessionsAreCurrent == Spec => []SessionIsCurrent
<1>1. Init => Typed
  BY TypedInit
<1>2. Typed /\ [Next]_vars => Typed'
  BY TypedNext
<1>3. Typed => SessionIsCurrent
  BY DEF Typed, LinkShape
<1> QED
  BY <1>1, <1>2, <1>3, PTL DEF Spec

-----------------------------------------------------------------------------
(* The phase of the link, as Bot sees it.                                   *)
Phase == CASE Reading -> "up"
           [] pc \in {"over", "reset", "forget"} -> "over"
           [] pc = "dial" -> "down"
           [] pc = "exit" -> IF writer THEN "up" ELSE "down"

LEMMA PhaseOf ==
  /\ pc \in {"receive", "lookup", "handling"} => Phase = "up"
  /\ pc \in {"over", "reset", "forget"} => Phase = "over"
  /\ pc = "dial" => Phase = "down"
  /\ pc = "exit" => Phase = IF writer THEN "up" ELSE "down"
  BY DEF Phase, Reading

(* Every step of the link is a step of its session, or none.                *)
LEMMA SessionStep == Typed /\ [Next]_vars => [Bot!Next]_(Bot!session)
<1> SUFFICES ASSUME Typed, [Next]_vars PROVE [Bot!Next]_(Bot!session)
  OBVIOUS
<1>n. [Bot!Next]_(Bot!session) <=>
        \/ /\ Phase = "down" /\ Phase' = "up"
           /\ (user_id # 0)' = (user_id # 0)
        \/ /\ Phase = "up" /\ Phase' = Phase
           /\ (user_id # 0)' = TRUE
        \/ /\ Phase = "up" /\ Phase' = "over"
           /\ (user_id # 0)' = (user_id # 0)
        \/ /\ Phase = "over" /\ Phase' = "down"
           /\ (user_id # 0)' = FALSE
        \/ Phase' = Phase /\ (user_id # 0)' = (user_id # 0)
  BY DEF Phase, Bot!Next, Bot!session, Bot!Open, Bot!Announce, Bot!End,
         Bot!Close
<1>p. /\ pc' \in {"receive", "lookup", "handling"} => Phase' = "up"
      /\ pc' \in {"over", "reset", "forget"} => Phase' = "over"
      /\ pc' = "dial" => Phase' = "down"
      /\ pc' = "exit" => Phase' = IF writer' THEN "up" ELSE "down"
  BY DEF Phase, Reading
<1>t. pc \in PC /\ LinkShape
  BY DEF Typed, TypeOK
<1> HIDE DEF Phase
<1>1. ASSUME Connect PROVE [Bot!Next]_(Bot!session)
  BY <1>1, <1>n, <1>p, PhaseOf DEF Connect
<1>2. ASSUME ConnectEvent PROVE [Bot!Next]_(Bot!session)
  <2>1. conn # 0
    BY <1>2, <1>t DEF ConnectEvent, LinkShape, Conn
  <2> QED
    BY <1>2, <2>1, <1>n, <1>p, PhaseOf DEF ConnectEvent
<1>3. ASSUME Heartbeat \/ OtherFrame \/ Handled \/ Lookup \/ LinkEnds
             \/ \E p \in Probe : ProbeAnswer(p)
      PROVE  [Bot!Next]_(Bot!session)
  <2>1. /\ pc \in {"receive", "lookup", "handling"}
        /\ pc' \in {"receive", "lookup", "handling", "over"}
        /\ user_id' = user_id
    BY <1>3 DEF Heartbeat, OtherFrame, Handled, ProbeAnswer, Lookup, Deliver,
                LookupElse, LinkEnds, Abandon, NextFrame
  <2> QED
    BY <2>1, <1>n, <1>p, PhaseOf
<1>4. ASSUME Mail \/ DropWriter PROVE [Bot!Next]_(Bot!session)
  <2>1. /\ pc \in {"over", "reset"}
        /\ pc' \in {"reset", "forget"}
        /\ user_id' = user_id
    BY <1>4 DEF Mail, DropWriter
  <2> QED
    BY <2>1, <1>n, <1>p, PhaseOf
<1>5. ASSUME Forget PROVE [Bot!Next]_(Bot!session)
  BY <1>5, <1>n, <1>p, PhaseOf DEF Forget
<1>6. ASSUME UNCHANGED linkVars PROVE [Bot!Next]_(Bot!session)
  <2>1. pc' = pc /\ writer' = writer /\ user_id' = user_id
    BY <1>6 DEF linkVars
  <2> QED
    BY <2>1, <1>t, <1>n, <1>p, PhaseOf DEF PC
<1>7. ASSUME CtrlC PROVE [Bot!Next]_(Bot!session)
  <2>1. /\ pc' = IF pc \in {"dial", "receive"} THEN "exit" ELSE pc
        /\ writer' = writer /\ user_id' = user_id
    BY <1>7 DEF CtrlC
  <2>2. Phase' = Phase
    BY <2>1, <1>t, <1>p, PhaseOf DEF PC, LinkShape
  <2> QED
    BY <2>1, <2>2, <1>n
<1>8. ASSUME NEW n \in Conn,
             HeartbeatTask(n) \/ Tick(n) \/ CheckerEnds(n) \/ LockMap(n)
      PROVE  UNCHANGED linkVars
  BY <1>8 DEF HeartbeatTask, HeartbeatLate, HeartbeatInTime, HeartbeatWakes,
              Tick, CheckerEnds, LockMap
<1>11. ASSUME Send \/ SendFails \/ Unlock PROVE UNCHANGED linkVars
  BY <1>11 DEF Send, SendFails, Unlock
<1>9. ASSUME NEW p \in Probe, TakeAnswer(p) PROVE UNCHANGED linkVars
  BY <1>9 DEF TakeAnswer
<1>10. ASSUME TimePasses \/ UNCHANGED vars PROVE UNCHANGED linkVars
  BY <1>10 DEF TimePasses, vars, linkVars
<1> QED
  BY <1>1, <1>2, <1>3, <1>4, <1>5, <1>6, <1>7, <1>8, <1>9, <1>10,
     <1>11
     DEF Next, Frame

(* Whatever its tasks, its probes and Ctrl-C do, the link reports a bot     *)
(* only as Session allows: from a connect event on and until the clean-up   *)
(* of the same link, which comes before the next one is dialled             *)
(* (single.rs:66-101, 116-118, 213).                                        *)
THEOREM SessionsAreKept == Spec => SessionSpec
<1>1. Init => Bot!Init
  BY DEF Init, Bot!Init, Reading
<1>2. Init => Typed
  BY TypedInit
<1>3. Typed /\ [Next]_vars => Typed'
  BY TypedNext
<1>4. Typed /\ [Next]_vars => [Bot!Next]_(Bot!session)
  BY SessionStep
<1> QED
  BY <1>1, <1>2, <1>3, <1>4, PTL DEF Spec, SessionSpec, Bot!Spec

-----------------------------------------------------------------------------
(* A probe has its entry from before it is sent until its answer is looked  *)
(* up: the one entry that is ever taken back is that of a probe not sent.   *)
Entered ==
  \A p \in Probe : probe[p] \in {"held", "asked", "answered"} => p \in echo_tx_map

LEMMA EnteredNext ==
  Typed /\ Entered /\ ProbeIsExpected /\ [Next]_vars
    => Entered' /\ ProbeIsExpected'
<1> SUFFICES ASSUME Typed, Entered, ProbeIsExpected, [Next]_vars
             PROVE  Entered' /\ ProbeIsExpected'
  OBVIOUS
<1> USE DEF Typed, TypeOK, Entered, ProbeIsExpected, linkVars, taskVars, mapVars,
            probeVars
<1>1. ASSUME UNCHANGED <<probe, echo_tx_map, stray>>
      PROVE  Entered' /\ ProbeIsExpected'
  BY <1>1
<1>2. ASSUME Connect \/ ConnectEvent \/ Heartbeat \/ OtherFrame \/ Handled
             \/ DropWriter \/ Forget \/ Unlock \/ TimePasses \/ CtrlC
             \/ UNCHANGED vars
      PROVE  UNCHANGED <<probe, echo_tx_map, stray>>
  BY <1>2 DEF Connect, ConnectEvent, Heartbeat, OtherFrame, Handled, DropWriter,
              Forget, Unlock, TimePasses, CtrlC, vars
<1>3. ASSUME NEW n \in Conn, HeartbeatTask(n) \/ Tick(n) \/ CheckerEnds(n)
      PROVE  UNCHANGED <<probe, echo_tx_map, stray>>
  BY <1>3 DEF HeartbeatTask, HeartbeatLate, HeartbeatInTime, HeartbeatWakes,
              Tick, CheckerEnds
<1>4. ASSUME NEW p \in Probe, ProbeAnswer(p) \/ TakeAnswer(p)
      PROVE  Entered' /\ ProbeIsExpected'
  BY <1>4 DEF ProbeAnswer, TakeAnswer
<1>5. ASSUME LinkEnds \/ Mail PROVE Entered' /\ ProbeIsExpected'
  BY <1>5 DEF LinkEnds, Mail, Abandon
<1>6. ASSUME NEW n \in Conn, LockMap(n) PROVE Entered' /\ ProbeIsExpected'
  BY <1>6 DEF LockMap
<1>7. ASSUME Send PROVE Entered' /\ ProbeIsExpected'
  BY <1>7 DEF Send
(* The map loses an entry only while its probe is held back.                *)
<1>8. ASSUME SendFails PROVE Entered' /\ ProbeIsExpected'
  <2>1. /\ probe' = [probe EXCEPT ![guard] = "done"]
        /\ echo_tx_map' = echo_tx_map \ {guard} /\ stray' = stray
    BY <1>8 DEF SendFails
  <2>2. guard \in Probe
    BY <1>8, ConstantsAssumption DEF SendFails, Probe
  <2> QED
    BY <2>1, <2>2
(* The answer at hand belongs to a probe that has its entry.                *)
<1>9. ASSUME Lookup PROVE Entered' /\ ProbeIsExpected'
  <2>1. echo_tx_map' = echo_tx_map
    BY <1>9 DEF Lookup
  <2>2. CASE LookupElse
    BY <2>1, <2>2 DEF LookupElse
  <2>3. ASSUME NEW p \in Probe, probe[p] = "answered", Deliver(p, echo_tx_map)
        PROVE  Entered' /\ ProbeIsExpected'
    <3>1. p \in echo_tx_map
      BY <2>3
    <3> QED
      BY <2>1, <2>3, <3>1 DEF Deliver
  <2> QED
    BY <1>9, <2>2, <2>3 DEF Lookup
<1> QED
  BY <1>1, <1>2, <1>3, <1>4, <1>5, <1>6, <1>7, <1>8, <1>9 DEF Next, Frame

(* An answer to a probe of the forwarder's own finds its channel, whether   *)
(* or not its sender has returned and whatever other probes fail            *)
(* (single.rs:281-286, 367-398).                                            *)
THEOREM ProbesAreExpected == Spec => []ProbeIsExpected
<1>1. Init => Typed /\ Entered /\ ProbeIsExpected
  BY TypedInit DEF Init, Entered, ProbeIsExpected
<1>2. Typed /\ Entered /\ ProbeIsExpected /\ [Next]_vars
        => Typed' /\ Entered' /\ ProbeIsExpected'
  BY TypedNext, EnteredNext
<1> QED
  BY <1>1, <1>2, PTL DEF Spec

-----------------------------------------------------------------------------
Paid == Typed /\ ProbeShape /\ EarnedShape /\ GoodIsEarned /\ MailsArePaid

LEMMA TakenIsFinite ==
  ASSUME TypeOK
  PROVE  /\ IsFiniteSet(Taken)
         /\ IsFiniteSet(earned)
         /\ Cardinality(Taken) \in Nat
         /\ Cardinality(Taken) <= Cardinality(earned)
<1>1. IsFiniteSet(Probe)
  BY ConstantsAssumption, FS_Interval DEF Probe
<1>2. IsFiniteSet(earned)
  BY <1>1, FS_Subset DEF TypeOK
<1>3. Taken \in SUBSET earned
  BY DEF Taken
<1> QED
  BY <1>2, <1>3, FS_Subset, FS_CardinalityType

(* A step that neither takes an answer, nor sends a mail, nor raises the    *)
(* flag or the link changes nothing about the account.                      *)
LEMMA AccountUnchanged ==
  ASSUME MailsArePaid, Taken' = Taken, mails' = mails, Owed' <= Owed,
         mails \in Nat, TypeOK
  PROVE  MailsArePaid'
<1>1. Cardinality(Taken) \in Nat
  BY TakenIsFinite
<1>2. Owed \in {0, 1} /\ Owed' \in {0, 1}
  BY DEF Owed
<1> QED
  BY <1>1, <1>2 DEF MailsArePaid

LEMMA PaidInit == Init => Paid
<1> SUFFICES ASSUME Init PROVE Paid
  OBVIOUS
<1>1. Typed /\ ProbeShape /\ EarnedShape /\ GoodIsEarned
  BY TypedInit DEF Init, ProbeShape, EarnedShape, GoodIsEarned
<1>2. Taken = {} /\ Owed = 0 /\ mails = 0
  BY DEF Init, Taken, Owed
<1>3. MailsArePaid
  BY <1>2, FS_EmptySet DEF MailsArePaid
<1> QED
  BY <1>1, <1>3 DEF Paid

LEMMA PaidNext == Paid /\ [Next]_vars => Paid'
<1> SUFFICES ASSUME Paid, [Next]_vars PROVE Paid'
  OBVIOUS
<1>t. Typed' /\ Typed /\ TypeOK /\ TypeOK' /\ mails \in Nat
  BY TypedNext DEF Paid, Typed, TypeOK
<1>f. /\ Cardinality(Taken) \in Nat
      /\ IsFiniteSet(Taken)
      /\ Owed \in {0, 1} /\ Owed' \in {0, 1}
  BY <1>t, TakenIsFinite DEF Owed
<1> DEFINE Shapes == ProbeShape /\ EarnedShape /\ GoodIsEarned
<1>1. ASSUME UNCHANGED <<probe, probes, earned, mails>>, Owed' <= Owed
      PROVE  Paid'
  <2>1. Shapes'
    BY <1>1 DEF Paid, ProbeShape, EarnedShape, GoodIsEarned
  <2>2. Taken' = Taken
    BY <1>1 DEF Taken
  <2> QED
    BY <1>1, <1>t, <2>1, <2>2, AccountUnchanged DEF Paid
<1>2. ASSUME Connect PROVE Paid'
  <2>1. UNCHANGED <<probe, probes, earned, mails>> /\ Owed' = 0
    BY <1>2 DEF Connect, mapVars, probeVars, Owed
  <2> QED
    BY <1>1, <1>f, <2>1
<1>3. ASSUME ConnectEvent \/ Heartbeat \/ OtherFrame \/ Handled
             \/ DropWriter \/ Forget \/ TimePasses \/ CtrlC \/ UNCHANGED vars
      PROVE  Paid'
  <2>1. UNCHANGED <<probe, probes, earned, mails, disconnect>>
    BY <1>3 DEF ConnectEvent, Heartbeat, OtherFrame, Handled, DropWriter, Forget,
       TimePasses, CtrlC, vars, mapVars, probeVars
  <2>2. pc' \in {"receive", "lookup", "handling", "over"} =>
          pc \in {"receive", "lookup", "handling", "over"}
    BY <1>3 DEF ConnectEvent, Heartbeat, OtherFrame, Handled, DropWriter, Forget,
       TimePasses, CtrlC, vars, linkVars, NextFrame
  <2>3. Owed' <= Owed
    BY <2>1, <2>2 DEF Owed
  <2> QED
    BY <1>1, <2>1, <2>3
<1>4. ASSUME NEW n \in Conn, HeartbeatTask(n) \/ Tick(n) \/ CheckerEnds(n)
      PROVE  Paid'
  <2>1. UNCHANGED <<probe, probes, earned, mails, disconnect, pc>>
    BY <1>4 DEF HeartbeatTask, HeartbeatLate, HeartbeatInTime, HeartbeatWakes,
                Tick, CheckerEnds, mapVars, probeVars, linkVars
  <2>2. Owed' = Owed
    BY <2>1 DEF Owed
  <2> QED
    BY <1>1, <1>f, <2>1, <2>2
<1>5. ASSUME NEW p \in Probe, ProbeAnswer(p) PROVE Paid'
  <2>1. Shapes'
    BY <1>5, <1>t DEF ProbeAnswer, mapVars, Paid, ProbeShape, EarnedShape,
       GoodIsEarned, TypeOK
  <2>2. Taken' = Taken
    BY <1>5, <1>t DEF ProbeAnswer, Taken, Paid, EarnedShape, TypeOK
  <2>3. Owed' <= Owed
    BY <1>5, <1>f DEF ProbeAnswer, Owed
  <2> QED
    BY <1>5, <1>t, <2>1, <2>2, <2>3, AccountUnchanged DEF Paid, ProbeAnswer
<1>10. ASSUME Lookup PROVE Paid'
  <2>1. /\ pc = "lookup" /\ pc' \in {"receive", "handling", "over"}
        /\ disconnect' = disconnect /\ mails' = mails /\ probes' = probes
    BY <1>10 DEF Lookup, LookupElse, Deliver, NextFrame, mapVars
  <2>2. Owed' <= Owed
    BY <2>1, <1>f DEF Owed
  <2>3. CASE LookupElse
    BY <1>1, <2>1, <2>2, <2>3 DEF LookupElse
  <2>4. ASSUME NEW p \in Probe, probe[p] = "answered", Deliver(p, echo_tx_map)
        PROVE  Paid'
    <3>1. p \notin earned
      BY <2>4 DEF Paid, EarnedShape
    <3>2. \/ /\ probe' = [probe EXCEPT ![p] = "good"]
             /\ earned' = earned \cup {p}
          \/ /\ probe' = [probe EXCEPT ![p] = "bad"]
             /\ earned' = earned
          \/ /\ probe' = [probe EXCEPT ![p] = "done"]
             /\ earned' = earned
      BY <2>4 DEF Deliver
    <3>3. Shapes'
      BY <1>t, <2>1, <2>4, <3>1, <3>2
         DEF Paid, ProbeShape, EarnedShape, GoodIsEarned, TypeOK
    <3>4. Taken' = Taken
      BY <1>t, <2>4, <3>1, <3>2 DEF Taken, TypeOK
    <3> QED
      BY <1>t, <2>1, <2>2, <3>3, <3>4, AccountUnchanged DEF Paid
  <2> QED
    BY <1>10, <2>3, <2>4 DEF Lookup
<1>6. ASSUME LinkEnds PROVE Paid'
  <2>1. Shapes'
    BY <1>6, <1>t DEF LinkEnds, Abandon, mapVars, Paid, ProbeShape, EarnedShape,
       GoodIsEarned, TypeOK
  <2>2. Taken' = Taken
    BY <1>6, <1>t DEF LinkEnds, Abandon, Taken, Paid, EarnedShape, TypeOK
  <2>3. Owed' <= Owed
    BY <1>6, <1>f DEF LinkEnds, Abandon, Reading, Owed
  <2> QED
    BY <1>6, <1>t, <2>1, <2>2, <2>3, AccountUnchanged DEF Paid, LinkEnds
<1>7. ASSUME Mail PROVE Paid'
  <2>1. Shapes'
    BY <1>7, <1>t DEF Mail, mapVars, Paid, ProbeShape, EarnedShape, GoodIsEarned,
       TypeOK
  <2>2. Taken' = Taken
    BY <1>7, <1>t DEF Mail, Taken, Paid, EarnedShape, TypeOK
  <2>3. Owed' = 0 /\ mails' = mails + Owed
    BY <1>7, <1>t DEF Mail, Owed
  <2>4. MailsArePaid'
    BY <1>t, <1>f, <2>2, <2>3 DEF Paid, MailsArePaid
  <2> QED
    BY <1>t, <2>1, <2>4 DEF Paid
<1>8. ASSUME NEW n \in Conn, LockMap(n) PROVE Paid'
  <2>1. /\ probes < MaxProbe /\ probes' = probes + 1
        /\ probe' = [probe EXCEPT ![probes + 1] = "held"]
        /\ UNCHANGED <<pc, disconnect, earned, mails>>
    BY <1>8 DEF LockMap, linkVars
  <2>2. probes + 1 \in Probe /\ probe[probes + 1] = "none"
    BY <2>1, <1>t DEF Paid, ProbeShape, TypeOK, Probe
  <2>3. probes + 1 \notin earned
    BY <2>2 DEF Paid, EarnedShape
  <2>4. Shapes'
    <3>1. probes \in Nat
      BY <1>t DEF TypeOK
    <3>2. ProbeShape'
      BY <1>t, <2>1, <3>1 DEF Paid, ProbeShape, TypeOK, Probe
    <3>3. EarnedShape' /\ GoodIsEarned'
      BY <1>t, <2>1, <2>3 DEF Paid, EarnedShape, GoodIsEarned, TypeOK
    <3> QED
      BY <3>2, <3>3
  <2>5. Taken' = Taken
    BY <1>t, <2>1, <2>3 DEF Taken, TypeOK
  <2>6. Owed' = Owed
    BY <2>1 DEF Owed
  <2> QED
    BY <1>t, <1>f, <2>1, <2>4, <2>5, <2>6, AccountUnchanged DEF Paid
<1>11. ASSUME Send \/ SendFails PROVE Paid'
  <2>1. /\ probe[guard] = "held" /\ guard # 0
        /\ UNCHANGED <<pc, disconnect, probes, earned, mails>>
    BY <1>11 DEF Send, SendFails, linkVars, mapVars
  <2>2. PICK f \in {"asked", "lost", "done"} :
          probe' = [probe EXCEPT ![guard] = f]
    BY <1>11 DEF Send, SendFails
  <2>3. guard \in Probe
    BY <1>t, <2>1, ConstantsAssumption DEF TypeOK, Probe
  <2>7. guard \notin earned
    BY <2>1 DEF Paid, EarnedShape
  <2>4. Shapes'
    BY <1>t, <2>1, <2>2, <2>3, <2>7
       DEF Paid, ProbeShape, EarnedShape, GoodIsEarned, TypeOK
  <2>5. Taken' = Taken
    BY <1>t, <2>1, <2>2, <2>3, <2>7 DEF Taken, TypeOK
  <2>6. Owed' = Owed
    BY <2>1 DEF Owed
  <2> QED
    BY <1>t, <1>f, <2>1, <2>4, <2>5, <2>6, AccountUnchanged DEF Paid
<1>12. ASSUME Unlock PROVE Paid'
  <2>1. UNCHANGED <<probe, probes, earned, mails, disconnect, pc>>
    BY <1>12 DEF Unlock, linkVars
  <2>2. Owed' = Owed
    BY <2>1 DEF Owed
  <2> QED
    BY <1>1, <1>f, <2>1, <2>2
<1>9. ASSUME NEW p \in Probe, TakeAnswer(p) PROVE Paid'
  <2>1. Shapes'
    BY <1>9, <1>t DEF TakeAnswer, mapVars, Paid, ProbeShape, EarnedShape,
       GoodIsEarned, TypeOK
  <2>2. CASE probe[p] = "bad"
    <3>1. Taken' = Taken /\ Owed' = Owed
      BY <1>9, <1>t, <2>2
         DEF TakeAnswer, Taken, Owed, linkVars, Paid, EarnedShape, TypeOK
    <3> QED
      BY <1>9, <1>t, <1>f, <2>1, <3>1, AccountUnchanged DEF Paid, TakeAnswer
  <2>3. CASE probe[p] = "good"
    <3>1. Taken' = Taken \cup {p} /\ p \notin Taken
      BY <1>9, <1>t, <2>3 DEF TakeAnswer, Taken, Paid, GoodIsEarned, TypeOK
    <3>2. Cardinality(Taken') = Cardinality(Taken) + 1
      BY <1>f, <3>1, FS_AddElement
    <3>3. mails' = mails
      BY <1>9 DEF TakeAnswer
    <3>4. MailsArePaid'
      BY <1>t, <1>f, <3>2, <3>3 DEF Paid, MailsArePaid
    <3> QED
      BY <1>t, <2>1, <3>4 DEF Paid
  <2> QED
    BY <1>9, <2>2, <2>3 DEF TakeAnswer
<1> QED
  BY <1>2, <1>3, <1>4, <1>5, <1>6, <1>7, <1>8, <1>9, <1>10, <1>11, <1>12
     DEF Next, Frame

(* However the answers of one link overlap the next, every mail has a good  *)
(* status of its own behind it (single.rs:82, 92-97, 384-389).              *)
THEOREM MailsHaveReasons == Spec => []MailsAreEarned
<1>1. Init => Paid
  BY PaidInit
<1>2. Paid /\ [Next]_vars => Paid'
  BY PaidNext
<1>3. Paid => MailsAreEarned
  <2> SUFFICES ASSUME Paid PROVE MailsAreEarned
    OBVIOUS
  <2>1. TypeOK /\ mails \in Nat /\ Owed \in {0, 1} /\ Cardinality(earned) \in Nat
    BY TakenIsFinite, FS_CardinalityType DEF Paid, Typed, TypeOK, Owed
  <2> QED
    BY <2>1, TakenIsFinite DEF Paid, MailsArePaid, MailsAreEarned
<1> QED
  BY <1>1, <1>2, <1>3, PTL DEF Spec
=============================================================================
