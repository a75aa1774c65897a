----------------------------- MODULE SingleLink -----------------------------
(***************************************************************************)
(* SingleImplSide: the link to one OneBot implementation at a time.  The    *)
(* connect task dials, reads frames until the link is over and dials again. *)
(* A connect event starts two tasks for its link, heartbeat_active and      *)
(* active_check; both send get_status probes, whose answers a task per      *)
(* probe waits for, to clear the link's active flag or to set the global    *)
(* disconnect flag that decides about the mail.                             *)
(*                                                                         *)
(* The tasks of a link are not ended with it: active is cleared only by a   *)
(* bad status, so tasks of several links may run side by side and probe     *)
(* over whatever link is up.                                                *)
(***************************************************************************)
EXTENDS Naturals, FiniteSets

CONSTANTS
  MaxConn,    \* bound: links made one after the other
  MaxProbe,   \* bound: probes sent
  Servers,    \* number of servers configured (1 unless Failover)
  Reachable   \* indices of the servers that accept connections

ASSUME ConstantsAssumption ==
  /\ MaxConn \in Nat /\ MaxProbe \in Nat
  /\ Servers \in Nat \ {0}
  /\ Reachable \subseteq 0 .. Servers - 1

Conn == 1 .. MaxConn
Probe == 1 .. MaxProbe

VARIABLES
  pc,            \* where the connect task is
  conn,          \* number of the latest link, 0 before the first
  index,         \* which server is dialled next
  writer,        \* writer is Some
  user_id,       \* link whose connect event set user_id, 0 for None
  disconnect,    \* the flag that asks for a mail at the end of the link
  active,        \* Conn -> the flag shared by the tasks of a link
  stale,         \* last_heartbeat is older than the heartbeat interval
  heartbeat,     \* Conn -> its heartbeat_active task
  checker,       \* Conn -> its active_check task
  probes,        \* number of probes begun
  probe,         \* Probe -> what became of it
  owner,         \* Probe -> link whose active flag its answer may clear
  echo_tx_map,   \* probes with an entry in the map
  guard,         \* probe whose sender has the map locked, 0 for none
  stray,         \* history: probes whose answer was taken for a client's
  earned,        \* history: probes answered well
  mails          \* history: mails sent

vars == <<pc, conn, index, writer, user_id, disconnect, active, stale,
          heartbeat, checker, probes, probe, owner, echo_tx_map, guard, stray,
          earned, mails>>

taskVars == <<active, heartbeat, checker>>
mapVars == <<probes, owner, echo_tx_map, guard>>
probeVars == <<mapVars, probe, stray>>
linkVars == <<pc, conn, index, writer, user_id>>

-----------------------------------------------------------------------------
(* dial: waiting for a server to answer; receive: waiting for a frame;      *)
(* lookup: an answer is at hand and echo_tx_map is waited for; handling: at *)
(* work in handle_message; over: receive has returned, mail not yet         *)
(* decided; reset: writer not yet None; forget: user_id not yet None; exit: *)
(* the task has ended.  active is looked at between frames alone.           *)
PC == {"dial", "receive", "lookup", "handling", "over", "reset", "forget",
       "exit"}

(* held: entered in the map, not yet sent; asked: on the wire of the        *)
(* current link; lost: sent into the void, or with a link that ended;       *)
(* answered: its answer is at the reader's hand; good, bad: the answer      *)
(* waits in the channel; done: taken, or given up.                          *)
Fate == {"none", "held", "asked", "lost", "answered", "good", "bad", "done"}

(* probe: about to lock the map; send: holds it.                            *)
HeartbeatState == {"none", "check", "probe", "send", "sleep", "timeout", "done"}
CheckerState == {"none", "wait", "probe", "send", "done"}

TypeOK ==
  /\ pc \in PC
  /\ conn \in 0 .. MaxConn
  /\ index \in 0 .. Servers - 1
  /\ writer \in BOOLEAN
  /\ user_id \in 0 .. MaxConn
  /\ disconnect \in BOOLEAN
  /\ active \in [Conn -> BOOLEAN]
  /\ stale \in BOOLEAN
  /\ heartbeat \in [Conn -> HeartbeatState]
  /\ checker \in [Conn -> CheckerState]
  /\ probes \in 0 .. MaxProbe
  /\ probe \in [Probe -> Fate]
  /\ owner \in [Probe -> 0 .. MaxConn]
  /\ echo_tx_map \in SUBSET Probe
  /\ guard \in 0 .. MaxProbe
  /\ stray \in SUBSET Probe
  /\ earned \in SUBSET Probe
  /\ mails \in Nat

Init ==
  /\ pc = "dial"
  /\ conn = 0
  /\ index = 0
  /\ writer = FALSE
  /\ user_id = 0
  /\ disconnect = FALSE
  /\ active = [n \in Conn |-> FALSE]
  /\ stale = TRUE
  /\ heartbeat = [n \in Conn |-> "none"]
  /\ checker = [n \in Conn |-> "none"]
  /\ probes = 0
  /\ probe = [p \in Probe |-> "none"]
  /\ owner = [p \in Probe |-> 0]
  /\ echo_tx_map = {}
  /\ guard = 0
  /\ stray = {}
  /\ earned = {}
  /\ mails = 0

Reading == pc \in {"receive", "lookup", "handling"}

(* Mutant: receive loops without looking at the flag.                       *)
NextFrameAlways == pc' = "receive"

(* The head of receive's loop, reached after every frame.                   *)
NextFrame == pc' = IF active[conn] THEN "receive" ELSE "over"

(* The link is over: what was asked on it will not be answered.             *)
Abandon ==
  /\ pc' = "over"
  /\ probe' = [p \in Probe |-> IF probe[p] = "asked" THEN "lost" ELSE probe[p]]

-----------------------------------------------------------------------------
(* The connect task.                                                       *)

(* Mutant: the disconnect flag of the link before is kept.                  *)
ConnectKeepsFlag ==
  /\ pc = "dial"
  /\ conn < MaxConn
  /\ index \in Reachable
  /\ conn' = conn + 1
  /\ writer' = TRUE
  /\ active' = [active EXCEPT ![conn + 1] = TRUE]
  /\ pc' = "receive"
  /\ UNCHANGED <<index, user_id, disconnect, stale, heartbeat, checker,
                 probeVars, earned, mails>>

(* Mutant: the index counts past the servers.                               *)
ForgetNoWrap ==
  /\ pc = "forget"
  /\ pc' = "dial"
  /\ user_id' = 0
  /\ index' = index + 1
  /\ UNCHANGED <<conn, writer, disconnect, taskVars, stale, probeVars, earned,
                 mails>>

(* Mutant: the bot is not forgotten when the link ends.                     *)
ForgetIndexOnly ==
  /\ pc = "forget"
  /\ pc' = "dial"
  /\ index' = (index + 1) % Servers
  /\ UNCHANGED <<conn, writer, user_id, disconnect, taskVars, stale, probeVars,
                 earned, mails>>

(* An attempt that fails or lasts 5 seconds is repeated with the same       *)
(* index: it changes nothing and is no action here.                         *)
Connect ==
  /\ pc = "dial"
  /\ conn < MaxConn
  /\ index \in Reachable
  /\ conn' = conn + 1
  /\ disconnect' = FALSE
  /\ writer' = TRUE
  /\ active' = [active EXCEPT ![conn + 1] = TRUE]
  /\ pc' = "receive"
  /\ UNCHANGED <<index, user_id, stale, heartbeat, checker, probeVars, earned,
                 mails>>

(* The lifecycle connect event, which an implementation sends once per link. *)
ConnectEvent ==
  /\ pc = "receive"
  /\ heartbeat[conn] = "none"
  /\ user_id' = conn
  /\ stale' = FALSE
  /\ heartbeat' = [heartbeat EXCEPT ![conn] = "check"]
  /\ checker' = [checker EXCEPT ![conn] = "wait"]
  /\ pc' = "handling"
  /\ UNCHANGED <<conn, index, writer, disconnect, active, probeVars, earned,
                 mails>>

Heartbeat ==
  /\ pc = "receive"
  /\ stale' = FALSE
  /\ NextFrame
  /\ UNCHANGED <<conn, index, writer, user_id, disconnect, taskVars, probeVars,
                 earned, mails>>

(* Any other event or command, or the answer to a client's call.            *)
OtherFrame ==
  /\ pc = "receive"
  /\ pc' \in {"handling", "lookup"}
  /\ UNCHANGED <<conn, index, writer, user_id, disconnect, taskVars, stale,
                 probeVars, earned, mails>>

(* The clients have taken what was written to them, the command is done.    *)
Handled ==
  /\ pc = "handling"
  /\ NextFrame
  /\ UNCHANGED <<conn, index, writer, user_id, disconnect, taskVars, stale,
                 probeVars, earned, mails>>

(* The answer to a probe is read from the link.                             *)
ProbeAnswer(p) ==
  /\ pc = "receive"
  /\ probe[p] = "asked"
  /\ pc' = "lookup"
  /\ probe' = [probe EXCEPT ![p] = "answered"]
  /\ UNCHANGED <<conn, index, writer, user_id, disconnect, taskVars, stale,
                 mapVars, stray, earned, mails>>

(* What is found under the echo of p: its channel, or nothing, and then the *)
(* answer goes to SdkSide like those to clients.                            *)
Deliver(p, entries) ==
  \/ /\ p \in entries
     /\ \/ /\ probe' = [probe EXCEPT ![p] = "good"]
           /\ earned' = earned \cup {p}
        \/ /\ probe' = [probe EXCEPT ![p] = "bad"]
           /\ UNCHANGED earned
     /\ NextFrame
     /\ UNCHANGED stray
  \/ /\ p \notin entries
     /\ stray' = stray \cup {p}
     /\ probe' = [probe EXCEPT ![p] = "done"]
     /\ pc' = "handling"
     /\ UNCHANGED earned

LookupElse ==
  /\ \A p \in Probe : probe[p] # "answered"
  /\ pc' = "handling"
  /\ UNCHANGED <<probe, stray, earned>>

(* Mutant: the map is read only if it is free just now (try_read).          *)
LookupTries ==
  /\ pc = "lookup"
  /\ \/ \E p \in Probe :
          /\ probe[p] = "answered"
          /\ Deliver(p, IF guard = 0 THEN echo_tx_map ELSE {})
     \/ LookupElse
  /\ UNCHANGED <<conn, index, writer, user_id, disconnect, taskVars, stale,
                 mapVars, mails>>

(* The reader has waited until nobody has the map locked for writing.       *)
Lookup ==
  /\ pc = "lookup"
  /\ guard = 0
  /\ \/ \E p \in Probe : probe[p] = "answered" /\ Deliver(p, echo_tx_map)
     \/ LookupElse
  /\ UNCHANGED <<conn, index, writer, user_id, disconnect, taskVars, stale,
                 mapVars, mails>>

(* Close frame, read error, or handle_message returned Err: the link ends,  *)
(* its tasks are not told.                                                  *)
LinkEnds ==
  /\ pc \in {"receive", "handling"}
  /\ Abandon
  /\ UNCHANGED <<conn, index, writer, user_id, disconnect, taskVars, stale,
                 mapVars, stray, earned, mails>>

(* The loop was left because active was cleared; frames still due are lost. *)
Mail ==
  /\ pc = "over"
  /\ pc' = "reset"
  /\ mails' = IF disconnect THEN mails + 1 ELSE mails
  /\ probe' = [p \in Probe |-> IF probe[p] = "asked" THEN "lost" ELSE probe[p]]
  /\ UNCHANGED <<conn, index, writer, user_id, disconnect, taskVars, stale,
                 mapVars, stray, earned>>

(* The writer is taken first, waiting for whoever sends; meanwhile the bot   *)
(* is still reported.                                                       *)
DropWriter ==
  /\ pc = "reset"
  /\ pc' = "forget"
  /\ writer' = FALSE
  /\ UNCHANGED <<conn, index, user_id, disconnect, taskVars, stale, probeVars,
                 earned, mails>>

Forget ==
  /\ pc = "forget"
  /\ pc' = "dial"
  /\ user_id' = 0
  /\ index' = (index + 1) % Servers
  /\ UNCHANGED <<conn, writer, disconnect, taskVars, stale, probeVars, earned,
                 mails>>

-----------------------------------------------------------------------------
(* The tasks of link n.                                                    *)

(* send_active_check_message, which the two tasks of a link share: the map  *)
(* is locked for writing, the entry made and the waiter started ...         *)
LockMap(n) ==
  LET p == probes + 1 IN
  /\ guard = 0
  /\ probes < MaxProbe
  /\ probes' = p
  /\ guard' = p
  /\ owner' = [owner EXCEPT ![p] = n]
  /\ probe' = [probe EXCEPT ![p] = "held"]
  /\ echo_tx_map' = echo_tx_map \cup {p}
  /\ \/ /\ heartbeat[n] = "probe"
        /\ heartbeat' = [heartbeat EXCEPT ![n] = "send"]
        /\ UNCHANGED checker
     \/ /\ checker[n] = "probe"
        /\ checker' = [checker EXCEPT ![n] = "send"]
        /\ UNCHANGED heartbeat
  /\ UNCHANGED <<linkVars, disconnect, active, stale, stray, earned, mails>>

(* ... the probe is sent over whatever link is up by then, into the void if *)
(* none is; from now on it may be answered, while the map is still locked ... *)
Send ==
  /\ guard # 0
  /\ probe[guard] = "held"
  /\ probe' = [probe EXCEPT ![guard] = IF writer /\ Reading THEN "asked"
                                       ELSE "lost"]
  /\ UNCHANGED <<linkVars, disconnect, taskVars, stale, mapVars, stray, earned,
                 mails>>

(* ... and the sender returns to its task and gives the map back.           *)
Return ==
  /\ guard' = 0
  /\ heartbeat' = [n \in Conn |-> IF heartbeat[n] = "send" THEN "timeout"
                                  ELSE heartbeat[n]]
  /\ checker' = [n \in Conn |-> IF checker[n] = "send" THEN "wait"
                                ELSE checker[n]]

Unlock ==
  /\ guard # 0
  /\ probe[guard] # "held"
  /\ Return
  /\ UNCHANGED <<linkVars, disconnect, active, stale, probes, probe, owner,
                 echo_tx_map, stray, earned, mails>>

(* The sending fails and the entry is taken back.                           *)
SendFails ==
  /\ guard # 0
  /\ probe[guard] = "held"
  /\ writer
  /\ probe' = [probe EXCEPT ![guard] = "done"]
  /\ echo_tx_map' = echo_tx_map \ {guard}
  /\ Return
  /\ UNCHANGED <<linkVars, disconnect, active, stale, probes, owner, stray,
                 earned, mails>>

(* heartbeat_active looks at the age of the last heartbeat.                 *)
HeartbeatLate(n) ==
  /\ heartbeat[n] = "check"
  /\ stale
  /\ heartbeat' = [heartbeat EXCEPT ![n] = "probe"]
  /\ UNCHANGED <<linkVars, disconnect, active, stale, checker, probeVars,
                 earned, mails>>

HeartbeatInTime(n) ==
  /\ heartbeat[n] = "check"
  /\ ~stale
  /\ heartbeat' = [heartbeat EXCEPT ![n] = "sleep"]
  /\ UNCHANGED <<linkVars, disconnect, active, stale, checker, probeVars,
                 earned, mails>>

HeartbeatWakes(n) ==
  /\ heartbeat[n] = "sleep"
  /\ heartbeat' = [heartbeat EXCEPT ![n] = "check"]
  /\ UNCHANGED <<linkVars, disconnect, active, stale, checker, probeVars,
                 earned, mails>>

(* active_check: the interval ticks, at once and then every hour.           *)
Tick(n) ==
  /\ checker[n] = "wait"
  /\ checker' = [checker EXCEPT ![n] = "probe"]
  /\ UNCHANGED <<linkVars, disconnect, active, stale, heartbeat, probeVars,
                 earned, mails>>

CheckerEnds(n) ==
  /\ checker[n] = "wait"
  /\ ~active[n]
  /\ checker' = [checker EXCEPT ![n] = "done"]
  /\ UNCHANGED <<linkVars, disconnect, active, stale, heartbeat, probeVars,
                 earned, mails>>

(* The task that waits for the answer to probe p.                           *)
TakeAnswer(p) ==
  /\ probe[p] \in {"good", "bad"}
  /\ probe' = [probe EXCEPT ![p] = "done"]
  /\ IF probe[p] = "bad"
     THEN active' = [active EXCEPT ![owner[p]] = FALSE] /\ UNCHANGED disconnect
     ELSE disconnect' = TRUE /\ UNCHANGED active
  /\ UNCHANGED <<linkVars, stale, heartbeat, checker, mapVars, stray, earned,
                 mails>>

TimePasses ==
  /\ ~stale
  /\ stale' = TRUE
  /\ UNCHANGED <<linkVars, disconnect, taskVars, probeVars, earned, mails>>

(* Ctrl-C reaches the tasks that listen for it at that moment; a task that  *)
(* is working, or a dialling that is being mailed about, does not notice.   *)
CtrlC ==
  /\ pc # "exit"
  /\ pc' = IF pc \in {"dial", "receive"} THEN "exit" ELSE pc
  /\ heartbeat' = [n \in Conn |-> IF heartbeat[n] = "sleep" THEN "done"
                                  ELSE heartbeat[n]]
  /\ checker' = [n \in Conn |-> IF checker[n] = "wait" THEN "done"
                                ELSE checker[n]]
  /\ UNCHANGED <<conn, index, writer, user_id, disconnect, active, stale,
                 probeVars, earned, mails>>

-----------------------------------------------------------------------------
HeartbeatTask(n) == HeartbeatLate(n) \/ HeartbeatInTime(n) \/ HeartbeatWakes(n)

Frame == ConnectEvent \/ Heartbeat \/ OtherFrame \/ \E p \in Probe : ProbeAnswer(p)

Next ==
  \/ Connect \/ Frame \/ Lookup \/ Handled
  \/ LinkEnds \/ Mail \/ DropWriter \/ Forget
  \/ \E n \in Conn : HeartbeatTask(n) \/ Tick(n) \/ CheckerEnds(n) \/ LockMap(n)
  \/ Send \/ SendFails \/ Unlock
  \/ \E p \in Probe : TakeAnswer(p)
  \/ TimePasses
  \/ CtrlC

Spec == Init /\ [][Next]_vars

(* The reader goes on when the map is free, and echo_tx_map is given to     *)
(* those who wait for it in their order (strong fairness); a sender that    *)
(* has sent returns; an answer in a channel is taken.                       *)
AnswersMoveOn ==
  /\ SF_vars(Lookup)
  /\ WF_vars(Unlock)
  /\ \A p \in Probe : WF_vars(TakeAnswer(p))

(* Timers fire and ready tasks are polled.                                  *)
Fairness ==
  /\ AnswersMoveOn
  /\ \A n \in Conn :
       WF_vars(HeartbeatTask(n)) /\ WF_vars(CheckerEnds(n)) /\ SF_vars(LockMap(n))
  /\ WF_vars(TimePasses)

(* Three assumptions about others, for whom no timeout of the code stands   *)
(* in: the clients take, sooner or later, the events and answers that the   *)
(* reader of the link writes to them, and the database answers its queries  *)
(* (sdk.rs:234, 243-248; command.rs) ...                                    *)
HandlingEnds == WF_vars(Handled)

(* ... the implementation reads its probes ...                              *)
PeerReads == WF_vars(Send \/ SendFails)

(* ... and goes on sending frames.                                          *)
PeerTalks == WF_vars(Frame)

LiveSpec == Spec /\ Fairness /\ HandlingEnds /\ PeerReads
TalkingSpec ==
  Spec /\ AnswersMoveOn /\ HandlingEnds /\ PeerReads /\ PeerTalks

-----------------------------------------------------------------------------
(* What ImplSide::alive reports is the bot of the link that is up, or of    *)
(* the one being torn down, never one of an earlier link; the writer is     *)
(* gone before the bot is forgotten, not after (single.rs:98-99, 116-118,   *)
(* 213).                                                                    *)
SessionIsCurrent ==
  user_id # 0 => user_id = conn /\ (writer \/ pc = "forget")

(* How the connect task appears to those who ask for the bot.               *)
Bot == INSTANCE Session WITH
  online <- user_id # 0,
  phase <- CASE Reading -> "up"
             [] pc \in {"over", "reset", "forget"} -> "over"
             [] pc = "dial" -> "down"
             [] pc = "exit" -> IF writer THEN "up" ELSE "down"

(* The link keeps the promise of Session: a bot is reported from a connect  *)
(* event on and until the clean-up of that very link, in whatever order     *)
(* link, events, probes and Ctrl-C come (single.rs:66-101, 116-118, 213).   *)
SessionSpec == Bot!Spec

(* An answer to a probe of the forwarder's own is recognised, even when it   *)
(* arrives before the sending has returned, over another link than the one  *)
(* the probe was made for, or beside the failing of another probe: it is    *)
(* never passed to SdkSide (single.rs:281-286 against 367-398).             *)
ProbeIsExpected == stray = {}

(* A mail that the bot went offline follows a status that showed it online, *)
(* a different one for every mail, however the answers of one link overlap  *)
(* the dialling of the next (single.rs:82, 92-97, 384-389).                 *)
MailsAreEarned == mails <= Cardinality(earned)

(* single.rs:382, "the account is taken to be offline": a bad status makes  *)
(* the forwarder give up the link it is about (145, 359-391), as long as    *)
(* the peer goes on sending frames (PeerTalks) and reading (PeerReads), and *)
(* the handling of every frame comes to an end (HandlingEnds).              *)
OfflineDropsLink ==
  \A p \in Probe :
    probe[p] = "bad" /\ Reading /\ owner[p] = conn
      ~> ~(Reading /\ owner[p] = conn)

(* single.rs:301-302, "trigger the reconnection; the heartbeat timed out,   *)
(* reconnecting is needed": a heartbeat found late puts an end to the link  *)
(* (297-313).                                                               *)
LateHeartbeatReconnects ==
  \A n \in Conn :
    heartbeat[n] = "timeout" /\ Reading /\ conn = n ~> ~(Reading /\ conn = n)
=============================================================================
