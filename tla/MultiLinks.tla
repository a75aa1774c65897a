----------------------------- MODULE MultiLinks -----------------------------
(***************************************************************************)
(* MultiImplSide: one link to each server, dialled once and never again,    *)
(* and what all of them share: the maps keyed by account, the probes under  *)
(* way and the cache of events that were already passed on.  Links, watchers *)
(* (heartbeat_active), checkers (active_check) and the tasks that wait for  *)
(* an answer to a probe interleave at every await.                          *)
(*                                                                         *)
(* Each map operation is one step under its own lock; the one lock that is  *)
(* kept across awaits here is last_heartbeat_time, which a watcher holds    *)
(* while it probes and while it sleeps.  Locks that are held while others   *)
(* are asked for are the subject of module Locks.                           *)
(***************************************************************************)
EXTENDS Naturals

CONSTANTS
  Conn,      \* the servers of the configuration, one connection each
  Account,   \* the self_ids of their bots
  Event,     \* contents of events, self_id apart
  Probe,     \* bound: the get_status calls, each with an echo of its own
  Nobody,    \* the account 0
  None

Watcher(c) == <<c, "watch">>
Checker(c) == <<c, "check">>
Prober == Conn \X {"watch", "check"}

ASSUME ConstantsAssumption ==
  /\ Nobody \notin Account
  /\ None \notin Account \cup Conn \cup Event \cup {Nobody} \cup Prober \cup BOOLEAN

VARIABLES
  self_id,   \* Conn -> the account behind it
  link,      \* Conn -> what the reader of the link is at
  event,     \* Conn -> the content of the event it has let through, or None
  writers, last_heartbeat_time, disconnect,  \* the maps by account
  task,      \* Conn \X {"watch", "check"} -> its watcher and checker
  by,        \* Probe -> who sends it, None if it is not used yet
  stage,     \* Probe -> how far its sender has come
  wire,      \* probes that the peer of a connection may answer
  echo_tx_map, echo_user_id_map,
  told,      \* Probe -> the answer handed to its waiting task, or None
  event_push_to_user_id,  \* the records of the cache, by content
  origin     \* history: Event -> the account whose copy was recorded

registry == <<writers, last_heartbeat_time, disconnect>>
probes == <<by, stage, wire, echo_tx_map, echo_user_id_map, told>>
records == <<event_push_to_user_id, origin>>
vars == <<self_id, link, event, registry, task, probes, records>>

(* time, flag, notice, spawn: within a connect event; beat: a heartbeat     *)
(* waiting to be stored; judge, record, cast: an event let through.         *)
Link == {"new", "idle", "time", "flag", "notice", "spawn", "beat", "judge",
         "record", "cast", "ended"}

(* A task is at the head of its loop, asleep, sending a probe, or over.     *)
Task == {"none", "loop", "sleep", "probe", "done"}

Stage == {"unused", "channel", "owner", "failed", "over"}

TypeOK ==
  /\ self_id \in [Conn -> Account]
  /\ link \in [Conn -> Link]
  /\ event \in [Conn -> Event \cup {None}]
  /\ \A c \in Conn : link[c] \in {"judge", "record", "cast"} <=> event[c] # None
  /\ writers \in [Account -> Conn \cup {None}]
  /\ last_heartbeat_time \in SUBSET Account
  /\ disconnect \in [Account \cup {Nobody} -> BOOLEAN \cup {None}]
  /\ task \in [Prober -> Task]
  /\ by \in [Probe -> Prober \cup {None}]
  /\ stage \in [Probe -> Stage]
  /\ \A p \in Probe : by[p] = None <=> stage[p] = "unused"
  /\ wire \in SUBSET (Conn \X Probe)
  /\ echo_tx_map \in SUBSET Probe
  /\ echo_user_id_map \in [Probe -> Account \cup {None}]
  /\ told \in [Probe -> [user : Account \cup {Nobody}, bad : BOOLEAN] \cup {None}]
  /\ event_push_to_user_id \in [Event -> Account \cup {Nobody, None}]
  /\ origin \in [Event -> Account \cup {None}]

Init ==
  /\ self_id \in [Conn -> Account]
  /\ link = [c \in Conn |-> "new"]
  /\ event = [c \in Conn |-> None]
  /\ writers = [u \in Account |-> None]
  /\ last_heartbeat_time = {}
  /\ disconnect = [u \in Account \cup {Nobody} |-> None]
  /\ task = [t \in Prober |-> "none"]
  /\ by = [p \in Probe |-> None]
  /\ stage = [p \in Probe |-> "unused"]
  /\ wire = {}
  /\ echo_tx_map = {}
  /\ echo_user_id_map = [p \in Probe |-> None]
  /\ told = [p \in Probe |-> None]
  /\ event_push_to_user_id = [e \in Event |-> None]
  /\ origin = [e \in Event |-> None]

Goto(c, at) == link' = [link EXCEPT ![c] = at]

Become(t, s) == task' = [task EXCEPT ![t] = s]

Reach(p, s) == stage' = [stage EXCEPT ![p] = s]

(* A watcher keeps the guard of last_heartbeat_time until its `if let` ends. *)
TimeIsFree ==
  \A c \in Conn : task[Watcher(c)] \notin {"sleep", "probe"}

-----------------------------------------------------------------------------
(* connect, and the frames of a link.                                      *)

(* A server that cannot be reached is skipped for good.                     *)
Dial(c) ==
  /\ link[c] = "new"
  /\ Goto(c, "idle") \/ Goto(c, "ended")
  /\ UNCHANGED <<self_id, event, registry, task, probes, records>>

(* Mutants: a heartbeat goes on to the filter; the connect event leaves the  *)
(* time to the first heartbeat.                                             *)
BeatGoesOn(at) == CASE at = "idle" -> "time" [] at = "time" -> "flag"
                    [] at = "flag" -> "notice" [] at = "beat" -> "judge"

NoFirstTime(at) == CASE at = "idle" -> "flag" [] at = "flag" -> "notice"
                     [] at = "beat" -> "idle"

(* The order of the awaits of a connect event, and the return of a heartbeat. *)
After(at) == CASE at = "idle" -> "time" [] at = "time" -> "flag"
               [] at = "flag" -> "notice" [] at = "beat" -> "idle"

(* The lifecycle event, once on a link, registers the writer, and then, each *)
(* after an await, the time, the flag, the notice and the two tasks.        *)
ConnectEvent(c) ==
  /\ link[c] = "idle"
  /\ task[Watcher(c)] = "none"
  /\ writers' = [writers EXCEPT ![self_id[c]] = c]
  /\ Goto(c, After("idle"))
  /\ UNCHANGED <<self_id, event, last_heartbeat_time, disconnect, task, probes, records>>

StoreTime(c) ==
  /\ link[c] \in {"time", "beat"}
  /\ TimeIsFree
  /\ last_heartbeat_time' = last_heartbeat_time \cup {self_id[c]}
  /\ Goto(c, After(link[c]))
  /\ UNCHANGED <<self_id, event, writers, disconnect, task, probes, records>>

MarkConnected(c) ==
  /\ link[c] = "flag"
  /\ disconnect' = [disconnect EXCEPT ![self_id[c]] = FALSE]
  /\ Goto(c, After("flag"))
  /\ UNCHANGED <<self_id, event, writers, last_heartbeat_time, task, probes,
                 records>>

(* The notice is written, or there is none; an error ends the link.         *)
Notify(c) ==
  /\ link[c] = "notice"
  /\ Goto(c, "spawn") \/ Goto(c, "ended")
  /\ UNCHANGED <<self_id, event, registry, task, probes, records>>

Drop(c, at) == Goto(c, at) /\ event' = [event EXCEPT ![c] = None]

(* send_by_auth lets the event through or does not.                         *)
Filter(c) ==
  \/ Goto(c, "judge") /\ \E e \in Event : event' = [event EXCEPT ![c] = e]
  \/ Drop(c, "idle")

(* The connect event goes on to the filter as any other event does.         *)
SpawnTasks(c) ==
  /\ link[c] = "spawn"
  /\ task' = [task EXCEPT ![Watcher(c)] = "loop", ![Checker(c)] = "loop"]
  /\ Filter(c)
  /\ UNCHANGED <<self_id, registry, probes, records>>

Heartbeat(c) ==
  /\ link[c] = "idle"
  /\ Goto(c, "beat")
  /\ UNCHANGED <<self_id, event, registry, task, probes, records>>

(* Any other event; executing or answering a command may fail.              *)
OtherEvent(c) ==
  /\ link[c] = "idle"
  /\ Filter(c) \/ Drop(c, "ended")
  /\ UNCHANGED <<self_id, registry, task, probes, records>>

(* The copy whose self_id is 0 shadows the event, so 0 is what is compared   *)
(* with the record, and 0 is what is recorded.                              *)
SelfId(c) == Nobody

LookUp(c) ==
  /\ link[c] = "judge"
  /\ LET found == event_push_to_user_id[event[c]] IN
     IF found \notin {None, SelfId(c)} THEN Drop(c, "idle")
     ELSE Goto(c, IF found = None THEN "record" ELSE "cast") /\ UNCHANGED event
  /\ UNCHANGED <<self_id, registry, task, probes, records>>

RecordEvent(c) ==
  /\ link[c] = "record"
  /\ event_push_to_user_id' = [event_push_to_user_id EXCEPT ![event[c]] = SelfId(c)]
  /\ origin' = [origin EXCEPT ![event[c]] = self_id[c]]
  /\ Goto(c, "cast")
  /\ UNCHANGED <<self_id, event, registry, task, probes>>

(* broadcast_message; an error ends the link.                               *)
Broadcast(c) ==
  /\ link[c] = "cast"
  /\ Drop(c, "idle") \/ Drop(c, "ended")
  /\ UNCHANGED <<self_id, registry, task, probes, records>>

(* Three seconds after it was recorded the cache lets go of a content.      *)
RecordLapses(e) ==
  /\ event_push_to_user_id[e] # None
  /\ event_push_to_user_id' = [event_push_to_user_id EXCEPT ![e] = None]
  /\ origin' = [origin EXCEPT ![e] = None]
  /\ UNCHANGED <<self_id, link, event, registry, task, probes>>

(* A close frame, a read error: nothing that was registered is taken back.  *)
LinkEnds(c) ==
  /\ link[c] = "idle"
  /\ Goto(c, "ended")
  /\ UNCHANGED <<self_id, event, registry, task, probes, records>>

-----------------------------------------------------------------------------
(* The tasks of an account, and the probes they send.                      *)

(* send_active_check_message: the channel, the account, then the frame.     *)
StartProbe(t) ==
  /\ Become(t, "probe")
  /\ \E p \in Probe : /\ stage[p] = "unused"
                      /\ Reach(p, "channel")
                      /\ by' = [by EXCEPT ![p] = t]
                      /\ echo_tx_map' = echo_tx_map \cup {p}
  /\ UNCHANGED <<self_id, link, event, registry, wire, echo_user_id_map, told,
                 records>>

(* The heartbeat is in time, or of the future: sleep for an interval.       *)
WatchInTime(c) ==
  /\ task[Watcher(c)] = "loop"
  /\ TimeIsFree
  /\ self_id[c] \in last_heartbeat_time
  /\ Become(Watcher(c), "sleep")
  /\ UNCHANGED <<self_id, link, event, registry, probes, records>>

WatchLate(c) ==
  /\ task[Watcher(c)] = "loop"
  /\ TimeIsFree
  /\ self_id[c] \in last_heartbeat_time
  /\ StartProbe(Watcher(c))

WatchAgain(c) ==
  /\ task[Watcher(c)] = "sleep"
  /\ Become(Watcher(c), "loop")
  /\ UNCHANGED <<self_id, link, event, registry, probes, records>>

CheckTick(c) == task[Checker(c)] = "loop" /\ StartProbe(Checker(c))

(* The third branch of select! waits while disconnect is TRUE.              *)
CheckQuits(c) ==
  /\ task[Checker(c)] = "loop"
  /\ disconnect[self_id[c]] # TRUE
  /\ Become(Checker(c), "done")
  /\ UNCHANGED <<self_id, link, event, registry, probes, records>>

User(p) == self_id[by[p][1]]

(* A watcher ends with its probe, a checker goes on.                        *)
ProbeEnds(p, s) ==
  /\ Reach(p, s)
  /\ Become(by[p], IF by[p][2] = "watch" THEN "done" ELSE "loop")

(* Mutant: the account of the probe is not recorded.                        *)
AttributeToNobody(p) ==
  /\ stage[p] = "channel"
  /\ Reach(p, "owner")
  /\ UNCHANGED <<self_id, link, event, registry, task, by, wire, echo_tx_map,
                 echo_user_id_map, told, records>>

Attribute(p) ==
  /\ stage[p] = "channel"
  /\ echo_user_id_map' = [echo_user_id_map EXCEPT ![p] = User(p)]
  /\ Reach(p, "owner")
  /\ UNCHANGED <<self_id, link, event, registry, task, by, wire, echo_tx_map,
                 told, records>>

(* Mutant: the channel is removed when the probe was sent.                  *)
SendProbeCleans(p) ==
  /\ stage[p] = "owner"
  /\ wire' = wire \cup {<<c, p>> : c \in {writers[User(p)]} \ {None}}
  /\ echo_tx_map' = echo_tx_map \ {p}
  /\ ProbeEnds(p, "over")
  /\ UNCHANGED <<self_id, link, event, registry, by, echo_user_id_map, told, records>>

(* send_to: without a writer it does nothing and is Ok.  A writer outlives  *)
(* its reader: what it takes then may never be answered.                    *)
SendProbe(p) ==
  /\ stage[p] = "owner"
  /\ wire' = wire \cup {<<c, p>> : c \in {writers[User(p)]} \ {None}}
  /\ ProbeEnds(p, "over")
  /\ UNCHANGED <<self_id, link, event, registry, by, echo_tx_map,
                 echo_user_id_map, told, records>>

SendFails(p) ==
  /\ stage[p] = "owner"
  /\ writers[User(p)] # None
  /\ echo_tx_map' = echo_tx_map \ {p}
  /\ Reach(p, "failed")
  /\ UNCHANGED <<self_id, link, event, registry, task, by, wire,
                 echo_user_id_map, told, records>>

Forget(p) ==
  /\ stage[p] = "failed"
  /\ echo_user_id_map' = [echo_user_id_map EXCEPT ![p] = None]
  /\ ProbeEnds(p, "over")
  /\ UNCHANGED <<self_id, link, event, registry, by, wire, echo_tx_map, told,
                 records>>

(* The answer: both entries are taken out and the waiting task is told.     *)
Answer(c, p) ==
  /\ link[c] = "idle"
  /\ <<c, p>> \in wire
  /\ p \in echo_tx_map
  /\ wire' = wire \ {<<c, p>>}
  /\ echo_tx_map' = echo_tx_map \ {p}
  /\ echo_user_id_map' = [echo_user_id_map EXCEPT ![p] = None]
  /\ \E bad \in BOOLEAN : told' = [told EXCEPT ![p] =
       [user |-> IF echo_user_id_map[p] = None THEN Nobody
                 ELSE echo_user_id_map[p], bad |-> bad]]
  /\ UNCHANGED <<self_id, link, event, registry, task, by, stage, records>>

Conclude(p) ==
  /\ told[p] # None
  /\ disconnect' = [disconnect EXCEPT ![told[p].user] = told[p].bad]
  /\ told' = [told EXCEPT ![p] = None]
  /\ UNCHANGED <<self_id, link, event, writers, last_heartbeat_time, task, by,
                 stage, wire, echo_tx_map, echo_user_id_map, records>>

-----------------------------------------------------------------------------
ReaderStep(c) == StoreTime(c) \/ MarkConnected(c) \/ Notify(c) \/ SpawnTasks(c)
                 \/ LookUp(c) \/ RecordEvent(c) \/ Broadcast(c)

Frame(c) == ConnectEvent(c) \/ Heartbeat(c) \/ OtherEvent(c) \/ LinkEnds(c)
            \/ \E p \in Probe : Answer(c, p)

Watch(c) == WatchInTime(c) \/ WatchLate(c)

Check(c) == CheckTick(c) \/ CheckQuits(c)

ProbeStep(p) == Attribute(p) \/ SendProbe(p) \/ SendFails(p) \/ Forget(p)

Next ==
  \/ \E c \in Conn : Dial(c) \/ Frame(c) \/ ReaderStep(c) \/ Watch(c)
                     \/ WatchAgain(c) \/ Check(c)
  \/ \E p \in Probe : ProbeStep(p) \/ Conclude(p)
  \/ \E e \in Event : RecordLapses(e)

Spec == Init /\ [][Next]_vars

-----------------------------------------------------------------------------
alive == {u \in Account \cup {Nobody} : disconnect[u] = FALSE}

(* Whoever alive() reports, and clients are greeted for, is an account whose *)
(* writer and heartbeat are known, in whatever order links, answers to       *)
(* probes and their conclusions come (multi.rs:102-111, 178-188, 290-398).  *)
AliveIsRegistered ==
  \A u \in alive : u \in last_heartbeat_time /\ writers[u] # None

(* A watcher never runs for an account without a heartbeat: its loop would   *)
(* spin without ever sleeping (multi.rs:305-337).                           *)
WatchersHaveTime ==
  \A c \in Conn : task[Watcher(c)] \in {"loop", "sleep", "probe"} =>
    self_id[c] \in last_heartbeat_time

(* An answer finds who asked and for whom: a probe that can be answered has  *)
(* both its entries, and the verdict is about the account it was sent for,  *)
(* whatever other probes start, fail or end meanwhile (multi.rs:290-293,     *)
(* 374-379, 403-406).                                                       *)
AnswersAreAttributed ==
  /\ \A w \in wire : /\ w[2] \in echo_tx_map
                     /\ echo_user_id_map[w[2]] = User(w[2])
  /\ \A p \in Probe : told[p] # None => told[p].user = User(p)

(* multi.rs:270, "record the event.self_id of this broadcast, ignore later   *)
(* repetitions of the event from another self_id": a content that is        *)
(* recorded for one account is not passed on for another (271-284).         *)
DuplicatesIgnored ==
  [][\A c \in Conn : link[c] = "judge" /\ link'[c] = "cast" =>
       origin[event[c]] = self_id[c]]_vars
=============================================================================
