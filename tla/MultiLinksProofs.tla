-------------------------- MODULE MultiLinksProofs --------------------------
(***************************************************************************)
(* Proofs about MultiLinks.  The invariant follows an account through its   *)
(* connect event (what is registered when) and a probe through its sender   *)
(* (which of its two entries are there when).                               *)
(***************************************************************************)
EXTENDS MultiLinks, TLAPS

(* An account u that has got as far as its flag, its tasks or a probe.      *)
Registered(u) == writers[u] # None /\ u \in last_heartbeat_time

AccountsInOrder ==
  /\ \A c \in Conn : link[c] = "time" => writers[self_id[c]] # None
  /\ \A c \in Conn : link[c] \in {"flag", "notice", "spawn"} => Registered(self_id[c])
  /\ \A t \in Prober : task[t] # "none" => Registered(self_id[t[1]])
  /\ \A u \in Account : disconnect[u] # None => Registered(u)
  /\ disconnect[Nobody] = None

ProbesInOrder ==
  /\ \A p \in Probe : by[p] # None => task[by[p]] # "none"
  /\ \A p \in Probe : stage[p] \in {"channel", "owner"} => p \in echo_tx_map
  /\ \A p \in Probe : stage[p] = "owner" => echo_user_id_map[p] = User(p)
  /\ \A w \in wire : stage[w[2]] = "over"
  /\ \A w, x \in wire : w[2] = x[2] => w = x
  /\ \A p \in Probe : told[p] # None => stage[p] = "over"

IInv == TypeOK /\ AccountsInOrder /\ ProbesInOrder /\ AnswersAreAttributed

LEMMA Tasks ==
  ASSUME NEW c \in Conn
  PROVE  /\ Watcher(c) \in Prober /\ Watcher(c)[1] = c
         /\ Checker(c) \in Prober /\ Checker(c)[1] = c
         /\ Watcher(c) # Checker(c)
BY DEF Watcher, Checker, Prober

LEMMA Users ==
  ASSUME TypeOK, NEW p \in Probe, stage[p] # "unused"
  PROVE  by[p] \in Prober /\ User(p) \in Account
<1>1. by[p] \in Prober
  BY DEF TypeOK
<1>2. by[p][1] \in Conn
  BY <1>1 DEF Prober
<1> QED BY <1>1, <1>2 DEF TypeOK, User

LEMMA InitEstablishes == Init => IInv
BY ConstantsAssumption
   DEF Init, IInv, TypeOK, AccountsInOrder, ProbesInOrder, AnswersAreAttributed,
       Link, Task, Stage

LEMMA TypeStep == TypeOK /\ [Next]_vars => TypeOK'
<1> SUFFICES ASSUME TypeOK, [Next]_vars PROVE TypeOK'
  OBVIOUS
<1> USE ConstantsAssumption
        DEF TypeOK, Link, Task, Stage, Goto, Become, Reach, registry, probes, records
<1>1. ASSUME NEW c \in Conn, Dial(c) PROVE TypeOK'
  BY <1>1 DEF Dial
<1>2. ASSUME NEW c \in Conn, Frame(c) PROVE TypeOK'
  <2>1. CASE ConnectEvent(c)
    BY <2>1 DEF ConnectEvent, After
  <2>2. CASE Heartbeat(c)
    BY <2>2 DEF Heartbeat
  <2>3. CASE OtherEvent(c)
    BY <2>3 DEF OtherEvent, Filter, Drop
  <2>4. CASE LinkEnds(c)
    BY <2>4 DEF LinkEnds
  <2>5. ASSUME NEW p \in Probe, Answer(c, p) PROVE TypeOK'
    BY <2>5 DEF Answer
  <2> QED BY <1>2, <2>1, <2>2, <2>3, <2>4, <2>5 DEF Frame
<1>3. ASSUME NEW c \in Conn, ReaderStep(c) PROVE TypeOK'
  <2>1. CASE StoreTime(c)
    BY <2>1 DEF StoreTime, After
  <2>2. CASE MarkConnected(c)
    BY <2>2 DEF MarkConnected, After
  <2>3. CASE Notify(c)
    BY <2>3 DEF Notify
  <2>4. CASE SpawnTasks(c)
    <3>1. task' \in [Prober -> Task]
      BY <2>4, Tasks DEF SpawnTasks
    <3>2. link' \in [Conn -> Link] /\ event' \in [Conn -> Event \cup {None}]
          /\ \A d \in Conn : link'[d] \in {"judge", "record", "cast"} <=> event'[d] # None
      BY <2>4 DEF SpawnTasks, Filter, Drop
    <3> QED BY <2>4, <3>1, <3>2 DEF SpawnTasks
  <2>5. CASE LookUp(c)
    BY <2>5 DEF LookUp, Drop
  <2>6. CASE RecordEvent(c)
    BY <2>6 DEF RecordEvent, SelfId
  <2>7. CASE Broadcast(c)
    BY <2>7 DEF Broadcast, Drop
  <2> QED BY <1>3, <2>1, <2>2, <2>3, <2>4, <2>5, <2>6, <2>7 DEF ReaderStep
<1>4. ASSUME NEW c \in Conn, Watch(c) \/ WatchAgain(c) \/ Check(c) PROVE TypeOK'
  <2>1. CASE WatchInTime(c) \/ WatchAgain(c) \/ CheckQuits(c)
    <3>1. Become(Watcher(c), "sleep") \/ Become(Watcher(c), "loop")
          \/ Become(Checker(c), "done")
      BY <2>1 DEF WatchInTime, WatchAgain, CheckQuits
    <3>2. task' \in [Prober -> Task]
      BY <3>1, Tasks
    <3> QED BY <2>1, <3>2 DEF WatchInTime, WatchAgain, CheckQuits
  <2>2. ASSUME NEW t \in Prober, StartProbe(t) PROVE TypeOK'
    BY <2>2 DEF StartProbe
  <2> QED BY <1>4, <2>1, <2>2 DEF Watch, WatchLate, Check, CheckTick, Prober,
                                 Watcher, Checker
<1>5. ASSUME NEW p \in Probe, Conclude(p) PROVE TypeOK'
  BY <1>5 DEF Conclude
<1>6. ASSUME NEW e \in Event, RecordLapses(e) PROVE TypeOK'
  BY <1>6 DEF RecordLapses
<1>7. ASSUME NEW p \in Probe, ProbeStep(p) PROVE TypeOK'
  <2>1. CASE Attribute(p)
    BY <2>1, Users DEF Attribute
  <2>2. CASE SendProbe(p)
    <3>1. User(p) \in Account /\ by[p] \in Prober
      BY <2>2, Users DEF SendProbe
    <3>2. {<<c, p>> : c \in {writers[User(p)]} \ {None}} \subseteq Conn \X Probe
      BY <3>1
    <3> QED BY <2>2, <3>1, <3>2 DEF SendProbe, ProbeEnds
  <2>3. CASE SendFails(p)
    BY <2>3 DEF SendFails
  <2>4. CASE Forget(p)
    BY <2>4 DEF Forget, ProbeEnds
  <2> QED BY <1>7, <2>1, <2>2, <2>3, <2>4 DEF ProbeStep
<1>8. CASE UNCHANGED vars
  BY <1>8 DEF vars
<1> QED BY <1>1, <1>2, <1>3, <1>4, <1>5, <1>6, <1>7, <1>8 DEF Next

(* Registering never undoes what is registered.                             *)
LEMMA AccountsStep == IInv /\ [Next]_vars => AccountsInOrder'
<1> SUFFICES ASSUME IInv, [Next]_vars PROVE AccountsInOrder'
  OBVIOUS
<1> USE ConstantsAssumption
        DEF IInv, TypeOK, AccountsInOrder, Registered, Goto, Become, Reach,
            registry, probes, records
<1>1. ASSUME NEW c \in Conn, Dial(c) PROVE AccountsInOrder'
  BY <1>1 DEF Dial
<1>2. ASSUME NEW c \in Conn, Frame(c) PROVE AccountsInOrder'
  <2>1. CASE ConnectEvent(c)
    BY <2>1 DEF ConnectEvent, After
  <2>2. CASE Heartbeat(c)
    BY <2>2 DEF Heartbeat
  <2>3. CASE OtherEvent(c)
    BY <2>3 DEF OtherEvent, Filter, Drop
  <2>4. CASE LinkEnds(c)
    BY <2>4 DEF LinkEnds
  <2>5. ASSUME NEW p \in Probe, Answer(c, p) PROVE AccountsInOrder'
    BY <2>5 DEF Answer
  <2> QED BY <1>2, <2>1, <2>2, <2>3, <2>4, <2>5 DEF Frame
<1>3. ASSUME NEW c \in Conn, ReaderStep(c) PROVE AccountsInOrder'
  <2>1. CASE StoreTime(c)
    BY <2>1 DEF StoreTime, After
  <2>2. CASE MarkConnected(c)
    <3>1. link' = [link EXCEPT ![c] = "notice"] /\ Registered(self_id[c])
      BY <2>2 DEF MarkConnected, After
    <3>2. disconnect'[Nobody] = None
          /\ \A u \in Account \ {self_id[c]} : disconnect'[u] = disconnect[u]
      BY <2>2 DEF MarkConnected
    <3>3. UNCHANGED <<self_id, writers, last_heartbeat_time, task>>
      BY <2>2 DEF MarkConnected
    <3>4. \A u \in Account : disconnect'[u] # None => Registered(u)'
      BY <3>1, <3>2, <3>3
    <3>5. \A d \in Conn :
            /\ link'[d] = "time" => link[d] = "time"
            /\ link'[d] \in {"flag", "notice", "spawn"} =>
                 link[d] \in {"flag", "notice", "spawn"}
      BY <2>2 DEF MarkConnected, After
    <3>6. \A t \in Prober : task'[t] # "none" => Registered(self_id[t[1]])'
      BY <3>3
    <3>7. \A d \in Conn :
            /\ link'[d] = "time" => writers'[self_id'[d]] # None
            /\ link'[d] \in {"flag", "notice", "spawn"} => Registered(self_id[d])'
      <4> HIDE DEF TypeOK
      <4> QED BY <3>3, <3>5
    <3> HIDE DEF Registered
    <3> QED BY <3>2, <3>4, <3>6, <3>7, Zenon DEF AccountsInOrder
  <2>3. CASE Notify(c)
    BY <2>3 DEF Notify
  <2>4. CASE SpawnTasks(c)
    <3>1. \A t \in Prober : task'[t] # "none" => task[t] # "none" \/ t[1] = c
      BY <2>4, Tasks DEF SpawnTasks
    <3>2. /\ UNCHANGED <<self_id, writers, last_heartbeat_time, disconnect>>
          /\ Registered(self_id[c])
      BY <2>4 DEF SpawnTasks
    <3>3. \A d \in Conn : link'[d] \in {"time", "flag", "notice", "spawn"} =>
                             link'[d] = link[d]
      BY <2>4 DEF SpawnTasks, Filter, Drop
    <3>4. \A t \in Prober : t[1] \in Conn
      BY DEF Prober
    <3> QED BY <3>1, <3>2, <3>3, <3>4
  <2>5. CASE LookUp(c)
    BY <2>5 DEF LookUp, Drop
  <2>6. CASE RecordEvent(c)
    BY <2>6 DEF RecordEvent
  <2>7. CASE Broadcast(c)
    BY <2>7 DEF Broadcast, Drop
  <2> QED BY <1>3, <2>1, <2>2, <2>3, <2>4, <2>5, <2>6, <2>7 DEF ReaderStep
<1>4. ASSUME NEW c \in Conn, Watch(c) \/ WatchAgain(c) \/ Check(c)
      PROVE  AccountsInOrder'
  <2>1. CASE WatchInTime(c)
    BY <2>1, Tasks DEF WatchInTime
  <2>2. CASE WatchAgain(c)
    BY <2>2, Tasks DEF WatchAgain
  <2>3. CASE CheckQuits(c)
    BY <2>3, Tasks DEF CheckQuits
  <2>4. ASSUME NEW t \in Prober, task[t] # "none", StartProbe(t)
        PROVE  AccountsInOrder'
    BY <2>4 DEF StartProbe
  <2> QED BY <1>4, <2>1, <2>2, <2>3, <2>4, Tasks DEF Watch, WatchLate, Check, CheckTick
<1>5. ASSUME NEW p \in Probe, Conclude(p) PROVE AccountsInOrder'
  <2>1. told[p].user = User(p) /\ by[p] \in Prober /\ User(p) \in Account
    BY <1>5, Users DEF Conclude, AnswersAreAttributed, ProbesInOrder
  <2>2. Registered(User(p))
    BY <2>1 DEF ProbesInOrder, User
  <2> QED BY <1>5, <2>1, <2>2 DEF Conclude
<1>6. ASSUME NEW e \in Event, RecordLapses(e) PROVE AccountsInOrder'
  BY <1>6 DEF RecordLapses
<1>7. ASSUME NEW p \in Probe, ProbeStep(p) PROVE AccountsInOrder'
  <2>1. CASE Attribute(p)
    BY <2>1 DEF Attribute
  <2>2. CASE SendProbe(p) \/ Forget(p)
    <3>1. by[p] \in Prober /\ task[by[p]] # "none"
      BY <2>2, Users DEF SendProbe, Forget, ProbesInOrder
    <3> QED BY <2>2, <3>1 DEF SendProbe, Forget, ProbeEnds
  <2>3. CASE SendFails(p)
    BY <2>3 DEF SendFails
  <2> QED BY <1>7, <2>1, <2>2, <2>3 DEF ProbeStep
<1>8. CASE UNCHANGED vars
  BY <1>8 DEF vars
<1> QED BY <1>1, <1>2, <1>3, <1>4, <1>5, <1>6, <1>7, <1>8 DEF Next

(* Steps that leave the probes, and who is spawned, as they are.            *)
LEMMA ProbesUntouched ==
  ASSUME IInv, UNCHANGED <<self_id, probes>>,
         \A t \in Prober : task[t] # "none" => task'[t] # "none"
  PROVE  ProbesInOrder' /\ AnswersAreAttributed'
BY DEF IInv, TypeOK, ProbesInOrder, AnswersAreAttributed, User, probes

LEMMA StartProbeStep ==
  ASSUME IInv, NEW t \in Prober, task[t] # "none", StartProbe(t)
  PROVE  ProbesInOrder' /\ AnswersAreAttributed'
<1>1. PICK p \in Probe : /\ stage[p] = "unused"
                         /\ stage' = [stage EXCEPT ![p] = "channel"]
                         /\ by' = [by EXCEPT ![p] = t]
                         /\ echo_tx_map' = echo_tx_map \cup {p}
  BY DEF StartProbe, Reach
<1>2. UNCHANGED <<self_id, wire, echo_user_id_map, told>>
      /\ task' = [task EXCEPT ![t] = "probe"]
  BY DEF StartProbe, Become
<1>3. \A q \in Probe \ {p} : User(q)' = User(q)
  BY <1>1, <1>2 DEF User, IInv, TypeOK
<1>4. ProbesInOrder'
  BY <1>1, <1>2, <1>3 DEF IInv, TypeOK, ProbesInOrder, Prober
<1>5. AnswersAreAttributed'
  BY <1>1, <1>2, <1>3 DEF IInv, TypeOK, ProbesInOrder, AnswersAreAttributed
<1> QED BY <1>4, <1>5

(* From here on a probe's sender and its account stay what they are.        *)
LEMMA ProbeStepStep ==
  ASSUME IInv, NEW p \in Probe, ProbeStep(p)
  PROVE  ProbesInOrder' /\ AnswersAreAttributed'
<1>1. stage[p] # "unused" /\ by[p] \in Prober /\ task[by[p]] # "none"
  BY Users DEF ProbeStep, Attribute, SendProbe, SendFails, Forget, IInv,
               ProbesInOrder, TypeOK
<1>2. \A q \in Probe : User(q)' = User(q)
  BY DEF ProbeStep, Attribute, SendProbe, SendFails, Forget, User
<1> USE <1>1, <1>2 DEF IInv, TypeOK, ProbesInOrder, AnswersAreAttributed,
                       Reach, Become
<1>3. CASE Attribute(p)
  BY <1>3 DEF Attribute
<1>4. CASE SendProbe(p)
  BY <1>4 DEF SendProbe, ProbeEnds
<1>5. CASE SendFails(p)
  BY <1>5 DEF SendFails
<1>6. CASE Forget(p)
  BY <1>6 DEF Forget, ProbeEnds
<1> QED BY <1>3, <1>4, <1>5, <1>6 DEF ProbeStep

LEMMA AnswerStep ==
  ASSUME IInv, NEW c \in Conn, NEW p \in Probe, Answer(c, p)
  PROVE  ProbesInOrder' /\ AnswersAreAttributed'
<1>1. \A q \in Probe : User(q)' = User(q)
  BY DEF Answer, User
<1>2. stage[p] = "over" /\ echo_user_id_map[p] = User(p) /\ User(p) \in Account
  BY Users DEF Answer, IInv, ProbesInOrder, AnswersAreAttributed
<1>3. told'[p].user = User(p)
  BY <1>2, ConstantsAssumption DEF Answer, IInv, TypeOK
<1>4. ProbesInOrder'
  BY <1>1, <1>2 DEF Answer, IInv, TypeOK, ProbesInOrder
<1>5. AnswersAreAttributed'
  BY <1>1, <1>2, <1>3 DEF Answer, IInv, TypeOK, ProbesInOrder, AnswersAreAttributed
<1> QED BY <1>4, <1>5

LEMMA ProbesStep == IInv /\ [Next]_vars => ProbesInOrder' /\ AnswersAreAttributed'
<1> SUFFICES ASSUME IInv, [Next]_vars
             PROVE  ProbesInOrder' /\ AnswersAreAttributed'
  OBVIOUS
<1> DEFINE Kept == ProbesInOrder' /\ AnswersAreAttributed'
<1>1. ASSUME NEW c \in Conn, Dial(c) PROVE Kept
  BY <1>1, ProbesUntouched DEF Dial
<1>2. ASSUME NEW c \in Conn, Frame(c) PROVE Kept
  <2>1. CASE ConnectEvent(c) \/ Heartbeat(c) \/ OtherEvent(c) \/ LinkEnds(c)
    BY <2>1, ProbesUntouched DEF ConnectEvent, Heartbeat, OtherEvent, LinkEnds
  <2> QED BY <1>2, <2>1, AnswerStep DEF Frame
<1>3. ASSUME NEW c \in Conn, ReaderStep(c) PROVE Kept
  <2>1. CASE SpawnTasks(c)
    <3>1. \A t \in Prober : task[t] # "none" => task'[t] # "none"
      BY <2>1, Tasks DEF SpawnTasks, IInv, TypeOK
    <3> QED BY <2>1, <3>1, ProbesUntouched DEF SpawnTasks
  <2> QED BY <1>3, <2>1, ProbesUntouched
          DEF ReaderStep, StoreTime, MarkConnected, Notify, LookUp, RecordEvent,
              Broadcast
<1>4. ASSUME NEW c \in Conn, Watch(c) \/ WatchAgain(c) \/ Check(c) PROVE Kept
  <2>1. CASE WatchInTime(c) \/ WatchAgain(c) \/ CheckQuits(c)
    <3>1. \A t \in Prober : task[t] # "none" => task'[t] # "none"
      BY <2>1 DEF WatchInTime, WatchAgain, CheckQuits, Become, IInv, TypeOK
    <3> QED BY <2>1, <3>1, ProbesUntouched DEF WatchInTime, WatchAgain, CheckQuits
  <2> QED BY <1>4, <2>1, Tasks, StartProbeStep
          DEF Watch, WatchLate, Check, CheckTick
<1>5. ASSUME NEW p \in Probe, Conclude(p) PROVE Kept
  BY <1>5 DEF Conclude, IInv, TypeOK, ProbesInOrder, AnswersAreAttributed, User
<1>6. ASSUME NEW e \in Event, RecordLapses(e) PROVE Kept
  BY <1>6, ProbesUntouched DEF RecordLapses
<1>7. ASSUME NEW p \in Probe, ProbeStep(p) PROVE Kept
  BY <1>7, ProbeStepStep
<1>8. CASE UNCHANGED vars
  BY <1>8, ProbesUntouched DEF vars
<1> QED BY <1>1, <1>2, <1>3, <1>4, <1>5, <1>6, <1>7, <1>8 DEF Next

LEMMA Invariance == Spec => []IInv
<1>1. IInv /\ [Next]_vars => IInv'
  BY TypeStep, AccountsStep, ProbesStep DEF IInv
<1> QED BY <1>1, InitEstablishes, PTL DEF Spec

(* Every variable keeps its type; an event content is at hand exactly while *)
(* a link handles one.                                                      *)
THEOREM TypeCorrect == Spec => []TypeOK
<1>1. IInv => TypeOK BY DEF IInv
<1> QED BY <1>1, Invariance, PTL

(* alive() reports registered accounts only, for any servers, accounts and  *)
(* probes.                                                                  *)
THEOREM AliveAreRegistered == Spec => []AliveIsRegistered
<1>1. IInv => AliveIsRegistered
  <2> SUFFICES ASSUME IInv, NEW u \in Account \cup {Nobody}, disconnect[u] = FALSE
               PROVE  u \in last_heartbeat_time /\ writers[u] # None
    BY DEF AliveIsRegistered, alive
  <2>1. disconnect[u] # None
    BY ConstantsAssumption, Zenon
  <2> QED BY <2>1 DEF IInv, AccountsInOrder, Registered
<1> QED BY <1>1, Invariance, PTL

(* No watcher runs for an account without a heartbeat.                      *)
THEOREM WatchersAreTimed == Spec => []WatchersHaveTime
<1>1. IInv => WatchersHaveTime
  BY Tasks DEF IInv, AccountsInOrder, WatchersHaveTime, Registered
<1> QED BY <1>1, Invariance, PTL

(* A probe that can be answered has both entries, and its verdict is about  *)
(* the account it was sent for.                                             *)
THEOREM ProbesAreAttributed == Spec => []AnswersAreAttributed
<1>1. IInv => AnswersAreAttributed BY DEF IInv
<1> QED BY <1>1, Invariance, PTL
=============================================================================
