--------------------------- MODULE ClientRegistry ---------------------------
(***************************************************************************)
(* The clients of the forwarder: SdkSide::start accepts connections,        *)
(* handle_connection registers their writers, handle_connect greets them    *)
(* and reads their frames, broadcast_message sends them the events of the   *)
(* implementation.  The reader of the link (SingleImplSide) appears as far  *)
(* as it meets the clients: the connect event that sets user_id, the        *)
(* broadcasts, and the end of a link.                                       *)
(*                                                                         *)
(* writers_map is locked for reading during a whole broadcast (the guard of *)
(* the `for` head lives until the loop ends), so clients can neither join   *)
(* nor leave the map meanwhile.  A token is configured (websocket.server.   *)
(* secret); without one start spawns the connection's task unpeeked.        *)
(***************************************************************************)
EXTENDS Naturals

CONSTANTS
  Client,         \* addresses clients connect from
  DefaultAllow,   \* the default policy, which the connect event meets
  None

ASSUME ConstantsAssumption ==
  /\ DefaultAllow \in BOOLEAN
  /\ None \notin Client

VARIABLES
  writers_map,  \* clients whose writer is registered
  task,         \* Client -> what the forwarder does for the connection
  peer,         \* Client -> the remote end: open, stalled or closed
  forwarder,    \* whether it accepts, accepts no more, or has stopped
  acceptor,     \* the connection validate_headers waits on, or None
  link,         \* whether a link to the implementation is up
  online,       \* user_id is Some: the bot is known to be connected
  reader,       \* what the reader of the link is doing
  rest,         \* clients the current broadcast has still to write to
  told          \* history: clients told of the session that is on

vars == <<writers_map, task, peer, forwarder, acceptor, link, online, reader,
          rest, told>>

linkVars == <<link, online, reader, rest>>

-----------------------------------------------------------------------------
(* none; backlog: connected, not yet accepted; peek: header being           *)
(* validated; shake: WebSocket handshake under way; accepted: about to      *)
(* register; hello: registered, about to ask alive(); greet: user_id read;  *)
(* outdated: user_id read, but of a session since ended; serve: reading     *)
(* frames; drop: loop ended, about to unregister; done: over; dead: ended   *)
(* by an error, never unregistered.                                         *)
Task == {"none", "backlog", "peek", "shake", "accepted", "hello", "greet",
         "outdated", "serve", "drop", "done", "dead"}

(* ended: the link is over, writer and user_id not yet reset.               *)
ReaderState == {"idle", "announce", "castConnect", "cast", "ended"}

TypeOK ==
  /\ writers_map \in SUBSET Client
  /\ task \in [Client -> Task]
  /\ peer \in [Client -> {"open", "stalled", "closed"}]
  /\ forwarder \in {"accepts", "deaf", "stopped"}
  /\ acceptor \in {c \in Client : task[c] = "peek"} \cup {None}
  /\ link \in BOOLEAN
  /\ online \in BOOLEAN
  /\ reader \in ReaderState
  /\ rest \in SUBSET Client
  /\ told \in SUBSET Client

Init ==
  /\ writers_map = {}
  /\ task = [c \in Client |-> "none"]
  /\ peer = [c \in Client |-> "closed"]
  /\ forwarder = "accepts"
  /\ acceptor = None
  /\ link = FALSE
  /\ online = FALSE
  /\ reader = "idle"
  /\ rest = {}
  /\ told = {}

Casting == reader \in {"castConnect", "cast"}

Become(c, t) == task' = [task EXCEPT ![c] = t]

-----------------------------------------------------------------------------
(* The peers.  A stalled peer neither sends nor takes what is sent to it.   *)

Connect(c) ==
  /\ forwarder # "stopped"
  /\ task[c] \in {"none", "done"}
  /\ peer[c] = "closed"
  /\ peer' = [peer EXCEPT ![c] = "open"]
  /\ Become(c, "backlog")
  /\ UNCHANGED <<writers_map, forwarder, acceptor, linkVars, told>>

Stall(c) ==
  /\ peer[c] = "open"
  /\ peer' = [peer EXCEPT ![c] = "stalled"]
  /\ UNCHANGED <<writers_map, task, forwarder, acceptor, linkVars, told>>

Drain(c) ==
  /\ peer[c] = "stalled"
  /\ peer' = [peer EXCEPT ![c] = "open"]
  /\ UNCHANGED <<writers_map, task, forwarder, acceptor, linkVars, told>>

Disconnect(c) ==
  /\ peer[c] # "closed"
  /\ peer' = [peer EXCEPT ![c] = "closed"]
  /\ UNCHANGED <<writers_map, task, forwarder, acceptor, linkVars, told>>

-----------------------------------------------------------------------------
(* The process ends with all it holds; nobody starts it again here.         *)
Stop ==
  /\ forwarder' = "stopped"
  /\ writers_map' = {}
  /\ task' = [c \in Client |-> "none"]
  /\ peer' = [c \in Client |-> "closed"]
  /\ acceptor' = None
  /\ link' = FALSE
  /\ online' = FALSE
  /\ reader' = "idle"
  /\ rest' = {}
  /\ told' = {}

(* SdkSide::start: one connection at a time, its header awaited before the  *)
(* next one is accepted.                                                    *)
Accept(c) ==
  /\ forwarder = "accepts"
  /\ acceptor = None
  /\ task[c] = "backlog"
  /\ acceptor' = c
  /\ Become(c, "peek")
  /\ UNCHANGED <<writers_map, peer, forwarder, linkVars, told>>

(* accept returns an error: the pattern Ok(_) disables its branch of the    *)
(* select!, whose other branch waits for Ctrl-C.                            *)
AcceptFails ==
  /\ forwarder = "accepts"
  /\ acceptor = None
  /\ forwarder' = "deaf"
  /\ UNCHANGED <<writers_map, task, peer, acceptor, linkVars, told>>

(* Mutant: after a wrong token the loop does not go back to accept.         *)
ValidateStays(c) ==
  /\ acceptor = c
  /\ peer[c] # "stalled"
  /\ \/ Become(c, "shake") /\ acceptor' = None /\ UNCHANGED peer
     \/ /\ Become(c, "done")
        /\ peer' = [peer EXCEPT ![c] = "closed"]
        /\ UNCHANGED acceptor
  /\ UNCHANGED <<writers_map, forwarder, linkVars, told>>

(* The token is right, and a task of its own goes on with the connection,   *)
(* or it is not and the connection is dropped.                              *)
Validate(c) ==
  /\ acceptor = c
  /\ peer[c] # "stalled"
  /\ acceptor' = None
  /\ \/ Become(c, "shake") /\ UNCHANGED peer
     \/ Become(c, "done") /\ peer' = [peer EXCEPT ![c] = "closed"]
  /\ UNCHANGED <<writers_map, forwarder, linkVars, told>>

(* The connection is reset before its header came: peek's unwrap panics in  *)
(* the future of main, which ends the process in every build.               *)
PeekPanics(c) ==
  /\ acceptor = c
  /\ peer[c] = "closed"
  /\ Stop

Handshake(c) ==
  /\ task[c] = "shake"
  /\ peer[c] # "stalled"
  /\ Become(c, "accepted")
  /\ UNCHANGED <<writers_map, peer, forwarder, acceptor, linkVars, told>>

(* The handshake fails: expect panics, which ends the process in release    *)
(* builds (panic = "abort") and the connection's task in others.            *)
HandshakePanics(c) ==
  /\ task[c] = "shake"
  /\ peer[c] # "stalled"
  /\ \/ Stop
     \/ /\ Become(c, "done")
        /\ peer' = [peer EXCEPT ![c] = "closed"]
        /\ UNCHANGED <<writers_map, forwarder, acceptor, linkVars, told>>

(* handle_connection: the insert waits for a broadcast to end.              *)
Register(c) ==
  /\ task[c] = "accepted"
  /\ ~Casting
  /\ writers_map' = writers_map \cup {c}
  /\ Become(c, "hello")
  /\ UNCHANGED <<peer, forwarder, acceptor, linkVars, told>>

(* handle_connect asks ImplSide::alive.                                     *)
Alive(c) ==
  /\ task[c] = "hello"
  /\ Become(c, IF online THEN "greet" ELSE "serve")
  /\ UNCHANGED <<writers_map, peer, forwarder, acceptor, linkVars, told>>

(* The connect message reaches the client; of an ended session, it is news  *)
(* that is no longer true.                                                  *)
Greet(c) ==
  /\ task[c] \in {"greet", "outdated"}
  /\ peer[c] # "stalled"
  /\ told' = IF task[c] = "greet" THEN told \cup {c} ELSE told
  /\ Become(c, "serve")
  /\ UNCHANGED <<writers_map, peer, forwarder, acceptor, linkVars>>

(* The greeting cannot be written: `?` ends the task before the loop.       *)
GreetFails(c) ==
  /\ task[c] \in {"greet", "outdated"}
  /\ peer[c] = "closed"
  /\ Become(c, "dead")
  /\ UNCHANGED <<writers_map, peer, forwarder, acceptor, linkVars, told>>

(* handle_message returns Err (a text that is no Api, a link that fails):   *)
(* `?` leaves the loop and skips the removal below it.                      *)
CallFails(c) ==
  /\ task[c] = "serve"
  /\ peer[c] = "open"
  /\ Become(c, "dead")
  /\ UNCHANGED <<writers_map, peer, forwarder, acceptor, linkVars, told>>

(* Close frame, read error or a frame that is not text.                     *)
Leave(c) ==
  /\ task[c] = "serve"
  /\ peer[c] # "stalled"
  /\ Become(c, "drop")
  /\ UNCHANGED <<writers_map, peer, forwarder, acceptor, linkVars, told>>

(* Mutant: the test of retain is the wrong way round.                       *)
RemoveOthers(c) ==
  /\ task[c] = "drop"
  /\ ~Casting
  /\ writers_map' = writers_map \cap {c}
  /\ Become(c, "done")
  /\ peer' = [peer EXCEPT ![c] = "closed"]
  /\ told' = told \ {c}
  /\ UNCHANGED <<forwarder, acceptor, linkVars>>

(* The tail of handle_connect; both halves of the socket are dropped.       *)
Remove(c) ==
  /\ task[c] = "drop"
  /\ ~Casting
  /\ writers_map' = writers_map \ {c}
  /\ Become(c, "done")
  /\ peer' = [peer EXCEPT ![c] = "closed"]
  /\ told' = told \ {c}
  /\ UNCHANGED <<forwarder, acceptor, linkVars>>

-----------------------------------------------------------------------------
(* The reader of the link.                                                 *)

LinkUp ==
  /\ forwarder # "stopped"
  /\ ~link
  /\ link' = TRUE
  /\ UNCHANGED <<writers_map, task, peer, forwarder, acceptor, online, reader, rest, told>>

(* What a client has read of the session so far is no longer current.       *)
Outdate ==
  task' = [c \in Client |-> IF task[c] = "greet" THEN "outdated" ELSE task[c]]

(* The lifecycle connect event: user_id is set before the event goes on to  *)
(* the filter and the broadcast.                                            *)
Announce ==
  /\ link
  /\ reader = "idle"
  /\ online' = TRUE
  /\ reader' = "announce"
  /\ told' = {}
  /\ Outdate
  /\ UNCHANGED <<writers_map, peer, forwarder, acceptor, link, rest>>

(* The connect event names neither group nor user, so the default policy    *)
(* decides; when it denies, clients already connected are not told.         *)
CastConnect ==
  /\ reader = "announce"
  /\ IF DefaultAllow THEN reader' = "castConnect" /\ rest' = writers_map
                     ELSE reader' = "idle" /\ UNCHANGED rest
  /\ UNCHANGED <<writers_map, task, peer, forwarder, acceptor, link, online, told>>

(* Any other event that the access rules let through.                       *)
Cast ==
  /\ link
  /\ reader = "idle"
  /\ reader' = "cast"
  /\ rest' = writers_map
  /\ UNCHANGED <<writers_map, task, peer, forwarder, acceptor, link, online, told>>

(* One client written to; a write just after its end may still succeed.     *)
CastTo(c) ==
  /\ Casting
  /\ c \in rest
  /\ peer[c] # "stalled"
  /\ rest' = rest \ {c}
  /\ told' = IF reader = "castConnect" THEN told \cup {c} ELSE told
  /\ UNCHANGED <<writers_map, task, peer, forwarder, acceptor, link, online, reader>>

CastDone ==
  /\ Casting
  /\ rest = {}
  /\ reader' = "idle"
  /\ UNCHANGED <<writers_map, task, peer, forwarder, acceptor, link, online, rest, told>>

(* Mutant: the error ends the loop over the clients but is not passed on.   *)
CastStops(c) ==
  /\ Casting
  /\ c \in rest
  /\ peer[c] = "closed"
  /\ rest' = {}
  /\ reader' = "idle"
  /\ UNCHANGED <<writers_map, task, peer, forwarder, acceptor, link, online, told>>

(* A write fails: `?` abandons the clients that are left and, through       *)
(* handle_message and receive, the link itself.                             *)
CastFails(c) ==
  /\ Casting
  /\ c \in rest
  /\ peer[c] = "closed"
  /\ rest' = {}
  /\ reader' = "ended"
  /\ UNCHANGED <<writers_map, task, peer, forwarder, acceptor, link, online, told>>

(* Close frame, read error, failed answer or an account found offline.      *)
LinkEnds ==
  /\ link
  /\ reader = "idle"
  /\ reader' = "ended"
  /\ UNCHANGED <<writers_map, task, peer, forwarder, acceptor, link, online, rest, told>>

(* After the mail, if any, writer and user_id go back to None.              *)
Reset ==
  /\ reader = "ended"
  /\ reader' = "idle"
  /\ link' = FALSE
  /\ online' = FALSE
  /\ told' = {}
  /\ Outdate
  /\ UNCHANGED <<writers_map, peer, forwarder, acceptor, rest>>

-----------------------------------------------------------------------------
Peers(c) == Connect(c) \/ Stall(c) \/ Drain(c) \/ Disconnect(c)

(* The steps of one connection's task that nobody but the runtime, the map's *)
(* lock and the peer's socket hold up.                                      *)
TaskStep(c) == Accept(c) \/ Validate(c) \/ PeekPanics(c) \/ Handshake(c)
               \/ HandshakePanics(c) \/ Register(c) \/ Alive(c) \/ Greet(c)
               \/ GreetFails(c) \/ Remove(c)

WriteStep(c) == CastTo(c) \/ CastFails(c)

Next ==
  \/ \E c \in Client :
       \/ Peers(c)
       \/ TaskStep(c)
       \/ CallFails(c) \/ Leave(c)
       \/ WriteStep(c)
  \/ AcceptFails
  \/ LinkUp \/ Announce \/ CastConnect \/ Cast \/ CastDone \/ LinkEnds \/ Reset

Spec == Init /\ [][Next]_vars

(* Ready tasks are polled; the backlog and the tokio RwLock serve first     *)
(* come, first served, so a connection gets its turn between two others, a  *)
(* waiting insert or removal its turn between two broadcasts, and a socket   *)
(* that takes data now and then takes the pending frame (strong fairness).  *)
Fairness ==
  /\ \A c \in Client : SF_vars(TaskStep(c)) /\ SF_vars(WriteStep(c))
  /\ WF_vars(CastConnect) /\ WF_vars(CastDone) /\ WF_vars(Reset)

(* A stalled peer goes on, with its header or handshake as with its reading, *)
(* or disconnects: about the peers, not the code, which has no timeout here. *)
PeersDrain == \A c \in Client : WF_vars(Drain(c))

LiveSpec == Spec /\ Fairness /\ PeersDrain

-----------------------------------------------------------------------------
(* Whoever is being served knows that the bot is connected: a client that   *)
(* joins around the connect event is told by its greeting or by the         *)
(* broadcast, whatever the order in which it registers, user_id is set and  *)
(* the map is read (sdk.rs:112-130 against single.rs:213 and 276).          *)
ToldWhenOnline ==
  DefaultAllow /\ online /\ reader \in {"idle", "cast"} =>
    \A c \in Client : task[c] = "serve" => c \in told

(* A loop that ended is followed by the removal of its writer, however many *)
(* broadcasts hold the map meanwhile (sdk.rs:167-175 against 233).          *)
ClosedIsRemoved == \A c \in Client : task[c] = "drop" ~> c \notin writers_map

(* While the forwarder accepts, a connection is served unless it is refused  *)
(* or ends: neither the headers of those before it, though start waits for   *)
(* each of them, nor broadcasts one after the other, nor stalled clients     *)
(* keep it out for ever (sdk.rs:62-132).  If they do drain (PeersDrain), the *)
(* forwarder does not panic (83, 107), and accept has no error (66); once    *)
(* accepted a connection is served by a deaf forwarder too.                  *)
JoinIsServed ==
  \A c \in Client :
    /\ task[c] = "backlog" ~> task[c] # "backlog" \/ forwarder # "accepts"
    /\ task[c] = "peek"
         ~> task[c] \in {"serve", "dead", "done"} \/ forwarder = "stopped"

(* sdk.rs:167, "delete the corresponding client": no writer stays behind    *)
(* when the task of a client has ended (122-177).                           *)
EndedIsRemoved ==
  \A c \in Client : task[c] \in {"done", "dead"} => c \notin writers_map
=============================================================================
