------------------------------- MODULE Locks -------------------------------
(***************************************************************************)
(* The tokio RwLocks that the tasks of the forwarder share, in both modes   *)
(* of ImplSide: who may wait for whom, and for which socket.  The handlers  *)
(* of clients (SdkSide), the readers of links (handle_connect and all it    *)
(* calls) and the tasks that probe an account (heartbeat_active,            *)
(* active_check) take locks in sections: a section asks for one lock after  *)
(* the other, each while it holds those before it, and gives them back in   *)
(* the reverse order (one that is the beginning of another is not listed    *)
(* again).  Which section comes when is left open, and so is all that is    *)
(* not a lock: what a task does between two sections is the subject of the  *)
(* other modules.                                                           *)
(*                                                                         *)
(* A tokio RwLock serves its waiters strictly in the order of their         *)
(* requests, readers too.  The guard of an `if let` scrutinee lives until   *)
(* the end of the body, but not in the `else` branch (edition 2024); that   *)
(* of a `for` head lives until the loop ends.  Locks that are held for one  *)
(* statement, across no await and under no other lock, are left out         *)
(* (disconnect, and the std locks of the lists of rules); so is user_id,    *)
(* which one loop alone writes.                                             *)
(***************************************************************************)
EXTENDS Naturals, Sequences, FiniteSets

CONSTANTS
  Client,    \* a client's handler, and its socket
  Link,      \* a link's reader, and its socket
  Prober,    \* tasks that probe an account
  Main,      \* the one link of single mode
  MaxBusy    \* bound: sections under way at once

Mode == {"single", "multi"}

Task == Client \cup Link \cup Prober

ASSUME ConstantsAssumption ==
  /\ Main \in Link
  /\ MaxBusy \in Nat
  /\ Client \cap Link = {} /\ Client \cap Prober = {} /\ Link \cap Prober = {}

VARIABLES
  mode,    \* CONNECT_MODEL
  todo,    \* Task -> requests of its section still to be granted
  held,    \* Task -> requests granted, the innermost last
  queue    \* Lock -> the tasks that wait for it, in the order they asked

vars == <<mode, todo, held, queue>>

-----------------------------------------------------------------------------
Map == {"last_heartbeat_time", "echo_tx_map", "echo_user_id_map", "writers",
        "writers_map", "echo_map", "api_invoke_cache_map", "same_api_map"}

Shared(m) == <<"map", m>>
Socket(s) == <<"socket", s>>   \* the RwLock around a Writer

Lock == {"map"} \X Map \cup {"socket"} \X (Client \cup Link)

R(m) == [lock |-> Shared(m), write |-> FALSE]
W(m) == [lock |-> Shared(m), write |-> TRUE]
Send(s) == [lock |-> Socket(s), write |-> TRUE]

Request == [lock : Lock, write : BOOLEAN]

Links == IF mode = "single" THEN {Main} ELSE Link

(* SdkSide: registration and removal, greeting, same_api_map and the entries *)
(* of a call; in single mode the call is written by the handler itself.     *)
HandlerSections(c) ==
  {<<W("writers_map")>>, <<Send(c)>>, <<R("same_api_map")>>,
   <<W("api_invoke_cache_map")>>, <<W("same_api_map")>>, <<W("echo_map")>>}
  \cup {<<Send(l)>> : l \in IF mode = "single" THEN Links ELSE {}}

(* broadcast_message keeps the map while it writes to each client, and       *)
(* response_message while it writes the answer.                             *)
SdkSections ==
  {<<R("writers_map"), Send(c)>> : c \in Client}
  \cup {<<W("echo_map"), Send(c)>> : c \in Client}
  \cup {<<W("api_invoke_cache_map"), W("same_api_map")>>}

(* Mutant: the `else` branch runs under the guard too (edition 2021).       *)
ReaderSectionsElse(l) ==
  {<<R("echo_tx_map"), W("echo_map"), Send(c)>> : c \in Client} \cup SdkSections

(* handle_message and send of SingleImplSide, and of MultiImplSide.         *)
ReaderSections(l) ==
  SdkSections \cup
  IF mode = "single" THEN {<<Send(l)>>, <<R("echo_tx_map")>>}
  ELSE {<<W("last_heartbeat_time")>>, <<W("echo_tx_map"), W("echo_user_id_map")>>}
       \cup {<<W("writers"), Send(k)>> : k \in Links}

(* Mutant: the two entries of a probe are made together, in another order.  *)
ProbeSectionsCrossed ==
  {<<W("echo_user_id_map"), W("echo_tx_map")>>}
  \cup {<<W("echo_tx_map"), Send(l)>> : l \in Links}

(* send_active_check_message: in single mode one guard covers the sending;  *)
(* in multi mode the heartbeat task runs it under its own guard, and sleeps *)
(* under it.                                                                *)
ProbeSections ==
  IF mode = "single" THEN {<<W("echo_tx_map"), Send(l)>> : l \in Links}
  ELSE {<<W("echo_tx_map")>>, <<W("echo_user_id_map")>>}
       \cup {<<W("writers"), Send(l)>> : l \in Links}

Sections(t) ==
  CASE t \in Client -> HandlerSections(t)
    [] t \in Link -> ReaderSections(t)
    [] t \in Prober -> ProbeSections \cup
         IF mode = "single" THEN {}
         ELSE {<<W("last_heartbeat_time")>> \o s : s \in ProbeSections \cup {<<>>}}

-----------------------------------------------------------------------------
Waits(t) == todo[t] # <<>>
Wanted(t) == Head(todo[t]).lock

Holds(t, l) == \E i \in 1..Len(held[t]) : held[t][i].lock = l
Writes(t, l) == \E i \in 1..Len(held[t]) : held[t][i] = [lock |-> l, write |-> TRUE]

Init ==
  /\ mode \in Mode
  /\ todo = [t \in Task |-> <<>>]
  /\ held = [t \in Task |-> <<>>]
  /\ queue = [l \in Lock |-> <<>>]

Free(r) == \A u \in Task : IF r.write THEN ~Holds(u, r.lock) ELSE ~Writes(u, r.lock)

Busy(t) == Waits(t) \/ held[t] # <<>>

(* The first request of a section.                                          *)
Enter(t) ==
  /\ ~Busy(t)
  /\ t \in Link => t \in Links
  /\ Cardinality({u \in Task : Busy(u)}) < MaxBusy
  /\ \E s \in Sections(t) :
       /\ todo' = [todo EXCEPT ![t] = s]
       /\ queue' = [queue EXCEPT ![Head(s).lock] = Append(@, t)]
  /\ UNCHANGED <<mode, held>>

(* Mutant: the next request is forgotten.                                   *)
AsksNothing(t, rest, q) == q

Asks(t, rest, q) ==
  IF rest = <<>> THEN q ELSE [q EXCEPT ![Head(rest).lock] = Append(@, t)]

(* The head of the queue gets the lock, and asks for the next, if any.      *)
Grant(t) ==
  /\ Waits(t)
  /\ Head(queue[Wanted(t)]) = t
  /\ Free(Head(todo[t]))
  /\ held' = [held EXCEPT ![t] = Append(@, Head(todo[t]))]
  /\ todo' = [todo EXCEPT ![t] = Tail(@)]
  /\ queue' = Asks(t, Tail(todo[t]), [queue EXCEPT ![Wanted(t)] = Tail(@)])
  /\ UNCHANGED mode

Innermost(t) == held[t][Len(held[t])].lock

(* The innermost guard is dropped; that of a socket when its peer has taken *)
(* the frame, which is up to the peer.                                      *)
Release(t) ==
  /\ ~Waits(t) /\ held[t] # <<>>
  /\ held' = [held EXCEPT ![t] = SubSeq(@, 1, Len(@) - 1)]
  /\ UNCHANGED <<mode, todo, queue>>

(* Mutant: the heartbeat task takes its guard before its loop.              *)
DropNotTime(t) ==
  Release(t) /\ Innermost(t)[1] = "map" /\ Innermost(t)[2] # "last_heartbeat_time"

Drop(t) == Release(t) /\ Innermost(t)[1] = "map"
Written(t) == Release(t) /\ Innermost(t)[1] = "socket"

Next == \E t \in Task : Enter(t) \/ Grant(t) \/ Drop(t) \/ Written(t)

Spec == Init /\ [][Next]_vars

(* Tasks are polled: the runtime wakes the head of a queue, and no guard is *)
(* kept for longer than an interval.                                        *)
Fairness == \A t \in Task : WF_vars(Grant(t) \/ Drop(t))

(* Every peer goes on reading, or its connection fails and writes with it.  *)
PeersDrain == \A t \in Task : WF_vars(Written(t))

LiveSpec == Spec /\ Fairness /\ PeersDrain

-----------------------------------------------------------------------------
TypeOK ==
  /\ mode \in Mode
  /\ todo \in [Task -> Seq(Request)]
  /\ held \in [Task -> Seq(Request)]
  /\ queue \in [Lock -> Seq(Task)]
  /\ \A t \in Task, l \in Lock :
       Waits(t) /\ Wanted(t) = l <=> \E i \in 1..Len(queue[l]) : queue[l][i] = t

AheadOf(t, l) ==
  {queue[l][i] : i \in {i \in 1..Len(queue[l]) :
     \E j \in 1..Len(queue[l]) : i < j /\ queue[l][j] = t}}

(* Whom a waiting task waits for: holders of its lock, and the queue before. *)
Blockers(t) ==
  IF Waits(t) THEN {u \in Task : Holds(u, Wanted(t))} \cup AheadOf(t, Wanted(t))
  ELSE {}

(* No tasks wait for one another in a circle, not even through the queue of *)
(* a lock that is only read: the nestings of SdkSide, both link modes and   *)
(* the probes agree on one order (sdk.rs:233-252, single.rs:367-396,        *)
(* multi.rs:290-292, 306-316, 413-416).                                     *)
NoCircularWait ==
  \A S \in SUBSET {t \in Task : Waits(t)} :
    S # {} => \E t \in S : Blockers(t) \cap S = {}

(* Sets with t and all those that it waits for, at one or more removes.     *)
Ahead(t) == {S \in SUBSET Task : t \in S /\ \A u \in S : Blockers(u) \subseteq S}

(* t waits, at one or more removes, for a task that is writing to s.        *)
Reaches(t, s) == \A S \in Ahead(t) : \E u \in S : Holds(u, Socket(s))

(* Whose waits for locks a peer that does not read can prolong: probes wait *)
(* for the sockets of links alone, never for a client's, although they      *)
(* share maps with readers that are answering clients; and clients come and *)
(* go whatever a link does (single.rs:281-286, 367; multi.rs:290-296;       *)
(* sdk.rs:112, 168, 233).  It says nothing of what such a peer stops by the *)
(* reader that writes to it: that link's frames, answers to probes too.     *)
StallsAreContained ==
  /\ \A p \in Prober, c \in Client : ~Reaches(p, c)
  /\ \A c \in Client, l \in Link :
       Waits(c) /\ Wanted(c) = Shared("writers_map") => ~Reaches(c, l)

(* Whoever asks for a lock gets it, if peers read: the heartbeat task that  *)
(* sleeps with last_heartbeat_time locked, and broadcasts and probes that   *)
(* follow one another, let the others in between (multi.rs:306-336,         *)
(* sdk.rs:233-252).                                                         *)
EveryWaitEnds == \A t \in Task : Waits(t) ~> ~Waits(t)
=============================================================================
