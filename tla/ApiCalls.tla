------------------------------ MODULE ApiCalls ------------------------------
(***************************************************************************)
(* The path of an API call through the forwarder: SdkSide::handle_message  *)
(* (one task per client connection), ImplSide::send onto the link to the   *)
(* OneBot implementation, and SdkSide::response_message, which the task     *)
(* that reads the link runs for every answer.                              *)
(*                                                                         *)
(* The four tasks share three maps, each behind a lock of its own, so the  *)
(* handler of one client interleaves with the handlers of the others, with *)
(* the answers and with changes of the access rules at every await.  The   *)
(* program counter pc has one value per await between which shared state   *)
(* is read or written.                                                     *)
(***************************************************************************)
EXTENDS Naturals

CONSTANTS
  Client,    \* client connections (one address, one Writer each)
  Api,       \* calls up to their echo: an action and its parameters
  Group,     \* values of group_id that the access rules tell apart
  GroupOf,   \* the group_id a call of Api carries, None when it has none
  Echo,      \* echo strings
  Blank,     \* the key a call without echo is filed under ("")
  EchoOf,    \* the echoes a client puts on its calls
  Order,     \* orders in which the parameters of a call may be serialised
  None

ASSUME ConstantsAssumption ==
  /\ GroupOf \in [Api -> Group \cup {None}]
  /\ EchoOf \in [Client -> SUBSET Echo]
  /\ Blank \in Echo
  /\ None \notin Group \cup Client \cup Echo \cup (Api \X Order)
  /\ None \notin [api : Api, str : Api \X Order, echo : Echo]

VARIABLES
  echo_map,             \* Echo -> the client to answer, None when absent
  api_invoke_cache_map, \* Echo -> the serialised call recorded, or None
  same_api_map,         \* serialised call -> cached verdict
  pc,                   \* Client -> where its handler is
  call,                 \* Client -> the call it handles, None when idle
  allowed,              \* groups that send_by_auth lets through just now
  link,                 \* link to the implementation: up, torn or down
  wire,                 \* calls forwarded with an echo and not yet answered
  relay,                \* echo whose cache entry the reader is to clean
  cleared,              \* history: was the group let through at some moment
                        \* since the call was read
  delivered             \* history: the last answer handed to a client

vars == <<echo_map, api_invoke_cache_map, same_api_map, pc, call, allowed,
          link, wire, relay, cleared, delivered>>

-----------------------------------------------------------------------------
(* A serialised call: params is a HashMap, and each parsed copy of it       *)
(* iterates in an order of its own.                                        *)
Str == Api \X Order

Call == [api : Api, str : Str, echo : Echo]

Verdict == {"granted", "refused", "unknown"}

(* idle: waiting for a frame; lookup .. send: the awaits of handle_message; *)
(* grant / refuse: verdict computed, not yet stored; gone: the peer has     *)
(* left and the loop ended; dead: an error ended the task, its peer is      *)
(* still connected.                                                         *)
PC == {"idle", "lookup", "record", "judge", "grant", "refuse", "check",
       "bind", "send", "gone", "dead"}

TypeOK ==
  /\ echo_map \in [Echo -> Client \cup {None}]
  /\ api_invoke_cache_map \in [Echo -> Str \cup {None}]
  /\ same_api_map \in [Str -> Verdict]
  /\ pc \in [Client -> PC]
  /\ call \in [Client -> Call \cup {None}]
  /\ allowed \in SUBSET Group
  /\ link \in {"up", "torn", "down"}
  /\ wire \in SUBSET [caller : Client, echo : Echo]
  /\ relay \in Echo \cup {None}
  /\ cleared \in [Client -> BOOLEAN]
  /\ delivered \in [to : Client, caller : Client, echo : Echo] \cup {None}

Init ==
  /\ echo_map = [e \in Echo |-> None]
  /\ api_invoke_cache_map = [e \in Echo |-> None]
  /\ same_api_map = [s \in Str |-> "unknown"]
  /\ pc = [c \in Client |-> "idle"]
  /\ call = [c \in Client |-> None]
  /\ allowed \in SUBSET Group
  /\ link = "down"
  /\ wire = {}
  /\ relay = None
  /\ cleared = [c \in Client |-> FALSE]
  /\ delivered = None

(* DatabaseCache::send_by_auth(group_id, None) as handle_message calls it:  *)
(* a call without group_id is not judged.                                   *)
Permitted(api, groups) == GroupOf[api] = None \/ GroupOf[api] \in groups

-----------------------------------------------------------------------------
(* The handler of client c.                                                *)

(* The environment: a client does not reuse an echo of its own that is      *)
(* still awaiting its answer.                                               *)
EchoIsFree(c, e) == [caller |-> c, echo |-> e] \notin wire

Goto(c, label) == pc' = [pc EXCEPT ![c] = label]

Finish(c, label) ==
  /\ Goto(c, label)
  /\ call' = [call EXCEPT ![c] = None]
  /\ cleared' = [cleared EXCEPT ![c] = FALSE]

(* A text frame that parses as an Api.                                     *)
Receive(c) ==
  /\ pc[c] = "idle"
  /\ \E a \in Api, o \in Order, e \in EchoOf[c] :
       /\ EchoIsFree(c, e)
       /\ call' = [call EXCEPT ![c] = [api |-> a, str |-> <<a, o>>, echo |-> e]]
       /\ cleared' = [cleared EXCEPT ![c] = Permitted(a, allowed)]
  /\ Goto(c, "lookup")
  /\ UNCHANGED <<echo_map, api_invoke_cache_map, same_api_map, allowed, link,
                 wire, relay, delivered>>

(* A frame that does not parse: `?` ends the task.                          *)
BadText(c) ==
  /\ pc[c] = "idle"
  /\ Goto(c, "dead")
  /\ UNCHANGED <<echo_map, api_invoke_cache_map, same_api_map, call, allowed,
                 link, wire, relay, cleared, delivered>>

(* Close frame, non-text frame or read error; also a peer that goes away    *)
(* after its handler died.                                                  *)
Leave(c) ==
  /\ pc[c] \in {"idle", "dead"}
  /\ Goto(c, "gone")
  /\ UNCHANGED <<echo_map, api_invoke_cache_map, same_api_map, call, allowed,
                 link, wire, relay, cleared, delivered>>

(* The cached verdict: a refusal ends the call, a grant skips the recording *)
(* and the first judgement.                                                 *)
Lookup(c) ==
  /\ pc[c] = "lookup"
  /\ \/ /\ same_api_map[call[c].str] = "refused"
        /\ Finish(c, "idle")
     \/ /\ same_api_map[call[c].str] = "granted"
        /\ Goto(c, "check")
        /\ UNCHANGED <<call, cleared>>
     \/ /\ same_api_map[call[c].str] = "unknown"
        /\ Goto(c, "record")
        /\ UNCHANGED <<call, cleared>>
  /\ UNCHANGED <<echo_map, api_invoke_cache_map, same_api_map, allowed, link,
                 wire, relay, delivered>>

(* Mutant: the call is recorded with its echo: api_clone.echo = None is     *)
(* left out.                                                                *)
RecordWithEcho(c) ==
  /\ pc[c] = "record"
  /\ api_invoke_cache_map' =
       [api_invoke_cache_map EXCEPT
          ![call[c].echo] = <<call[c].api, call[c].echo>>]
  /\ Goto(c, "judge")
  /\ UNCHANGED <<echo_map, same_api_map, call, allowed, link, wire, relay,
                 cleared, delivered>>

Record(c) ==
  /\ pc[c] = "record"
  /\ api_invoke_cache_map' =
       [api_invoke_cache_map EXCEPT ![call[c].echo] = call[c].str]
  /\ Goto(c, "judge")
  /\ UNCHANGED <<echo_map, same_api_map, call, allowed, link, wire, relay,
                 cleared, delivered>>

(* The first black/white list filter.                                      *)
Judge(c) ==
  /\ pc[c] = "judge"
  /\ Goto(c, IF Permitted(call[c].api, allowed) THEN "grant" ELSE "refuse")
  /\ UNCHANGED <<echo_map, api_invoke_cache_map, same_api_map, call, allowed,
                 link, wire, relay, cleared, delivered>>

(* Storing the verdict, after the wait for the map's lock.                  *)
Remember(c) ==
  /\ \/ /\ pc[c] = "grant"
        /\ same_api_map' = [same_api_map EXCEPT ![call[c].str] = "granted"]
        /\ Goto(c, "check")
        /\ UNCHANGED <<call, cleared>>
     \/ /\ pc[c] = "refuse"
        /\ same_api_map' = [same_api_map EXCEPT ![call[c].str] = "refused"]
        /\ Finish(c, "idle")
  /\ UNCHANGED <<echo_map, api_invoke_cache_map, allowed, link, wire, relay,
                 delivered>>

(* Mutant: the second filter is left out, the cached verdict is trusted.    *)
CheckNothing(c) ==
  /\ pc[c] = "check"
  /\ Goto(c, "bind")
  /\ UNCHANGED <<echo_map, api_invoke_cache_map, same_api_map, call, allowed,
                 link, wire, relay, cleared, delivered>>

(* The second filter, which every call that was not refused passes.         *)
Check(c) ==
  /\ pc[c] = "check"
  /\ \/ /\ Permitted(call[c].api, allowed)
        /\ Goto(c, "bind")
        /\ UNCHANGED <<call, cleared>>
     \/ /\ ~Permitted(call[c].api, allowed)
        /\ Finish(c, "idle")
  /\ UNCHANGED <<echo_map, api_invoke_cache_map, same_api_map, allowed, link,
                 wire, relay, delivered>>

Bind(c) ==
  /\ pc[c] = "bind"
  /\ echo_map' = [echo_map EXCEPT ![call[c].echo] = c]
  /\ Goto(c, "send")
  /\ UNCHANGED <<api_invoke_cache_map, same_api_map, call, allowed, link, wire,
                 relay, cleared, delivered>>

(* ImplSide::send reaches the implementation; an answer to a call without   *)
(* echo carries none and never comes back here, so only the others are      *)
(* kept on the wire.                                                        *)
Forward(c) ==
  /\ pc[c] = "send"
  /\ link = "up"
  /\ wire' = IF call[c].echo = Blank THEN wire
             ELSE wire \cup {[caller |-> c, echo |-> call[c].echo]}
  /\ Finish(c, "idle")
  /\ UNCHANGED <<echo_map, api_invoke_cache_map, same_api_map, allowed, link,
                 relay, delivered>>

(* No writer, or a writer whose link is no longer read: Ok, and lost.       *)
Lost(c) ==
  /\ pc[c] = "send"
  /\ link # "up"
  /\ Finish(c, "idle")
  /\ UNCHANGED <<echo_map, api_invoke_cache_map, same_api_map, allowed, link,
                 wire, relay, delivered>>

(* The writer reports an error: `?` ends the client's task.                 *)
SendFails(c) ==
  /\ pc[c] = "send"
  /\ link # "down"
  /\ Finish(c, "dead")
  /\ UNCHANGED <<echo_map, api_invoke_cache_map, same_api_map, allowed, link,
                 wire, relay, delivered>>

-----------------------------------------------------------------------------
(* The task that reads the link.                                           *)

(* The answer to k: its Writer is taken out of echo_map and written to     *)
(* while the map's lock is held.  The write may succeed after the client's  *)
(* loop has ended: after a frame that was not text its socket is open still. *)
Reply(k) ==
  /\ link = "up"
  /\ relay = None
  /\ wire' = wire \ {k}
  /\ echo_map' = [echo_map EXCEPT ![k.echo] = None]
  /\ \/ /\ echo_map[k.echo] = None
        /\ UNCHANGED delivered
     \/ /\ echo_map[k.echo] # None
        /\ delivered' = [to |-> echo_map[k.echo], caller |-> k.caller,
                         echo |-> k.echo]
  /\ relay' = k.echo
  /\ UNCHANGED <<api_invoke_cache_map, same_api_map, pc, call, allowed, link,
                 cleared>>

(* Mutant: the error is swallowed and the link is read on.                  *)
ReplySwallowed(k) ==
  /\ link = "up"
  /\ relay = None
  /\ echo_map[k.echo] # None
  /\ echo_map' = [echo_map EXCEPT ![k.echo] = None]
  /\ wire' = wire \ {k}
  /\ relay' = k.echo
  /\ UNCHANGED <<api_invoke_cache_map, same_api_map, pc, call, allowed, link,
                 cleared, delivered>>

(* Writing the answer fails: the client has left, or its connection broke   *)
(* and the close has not been read yet.  `?` ends the reading of the link   *)
(* and skips the cleaning of the caches.                                    *)
ReplyFails(k) ==
  /\ link = "up"
  /\ relay = None
  /\ echo_map[k.echo] # None
  /\ echo_map' = [echo_map EXCEPT ![k.echo] = None]
  /\ wire' = {}
  /\ link' = "torn"
  /\ UNCHANGED <<api_invoke_cache_map, same_api_map, pc, call, allowed, relay,
                 cleared, delivered>>

(* Mutant: the cleaning removes the echo's Writer as well, by then possibly *)
(* that of a new call.                                                      *)
CleanAll ==
  /\ relay # None
  /\ relay' = None
  /\ echo_map' = [echo_map EXCEPT ![relay] = None]
  /\ api_invoke_cache_map' = [api_invoke_cache_map EXCEPT ![relay] = None]
  /\ same_api_map' =
       [s \in Str |-> IF s = api_invoke_cache_map[relay] THEN "unknown"
                      ELSE same_api_map[s]]
  /\ UNCHANGED <<pc, call, allowed, link, wire, cleared, delivered>>

(* The tail of response_message: the guard of the first map lives through   *)
(* the body that changes the second, so the two removals are one step.      *)
Clean ==
  /\ relay # None
  /\ relay' = None
  /\ api_invoke_cache_map' = [api_invoke_cache_map EXCEPT ![relay] = None]
  /\ same_api_map' =
       [s \in Str |-> IF s = api_invoke_cache_map[relay] THEN "unknown"
                      ELSE same_api_map[s]]
  /\ UNCHANGED <<echo_map, pc, call, allowed, link, wire, cleared, delivered>>

-----------------------------------------------------------------------------
(* The surroundings: the link (SingleLink models it in full) and the rules  *)
(* (AccessRules).                                                           *)

LinkUp ==
  /\ link = "down"
  /\ link' = "up"
  /\ UNCHANGED <<echo_map, api_invoke_cache_map, same_api_map, pc, call,
                 allowed, wire, relay, cleared, delivered>>

(* The reader stops; the answers still due on this link never come.         *)
LinkTorn ==
  /\ link = "up"
  /\ relay = None
  /\ link' = "torn"
  /\ wire' = {}
  /\ UNCHANGED <<echo_map, api_invoke_cache_map, same_api_map, pc, call,
                 allowed, relay, cleared, delivered>>

(* The writer is dropped.                                                  *)
LinkDown ==
  /\ link = "torn"
  /\ link' = "down"
  /\ UNCHANGED <<echo_map, api_invoke_cache_map, same_api_map, pc, call,
                 allowed, wire, relay, cleared, delivered>>

ChangeRules ==
  /\ \E groups \in SUBSET Group :
       /\ groups # allowed
       /\ allowed' = groups
       /\ cleared' = [c \in Client |->
                        cleared[c] \/ (call[c] # None
                                       /\ Permitted(call[c].api, groups))]
  /\ UNCHANGED <<echo_map, api_invoke_cache_map, same_api_map, pc, call, link,
                 wire, relay, delivered>>

-----------------------------------------------------------------------------
Handler(c) ==
  Lookup(c) \/ Record(c) \/ Judge(c) \/ Remember(c) \/ Check(c) \/ Bind(c)
  \/ Forward(c) \/ Lost(c) \/ SendFails(c)

Answer == \E k \in wire : Reply(k) \/ ReplyFails(k)

Next ==
  \/ \E c \in Client : Receive(c) \/ BadText(c) \/ Leave(c) \/ Handler(c)
  \/ Answer
  \/ Clean
  \/ LinkUp \/ LinkTorn \/ LinkDown
  \/ ChangeRules

Spec == Init /\ [][Next]_vars

(* The runtime polls every ready task and the locks are fair.  That clients *)
(* keep calling and that the implementation keeps answering and accepting   *)
(* connections is an assumption about the peers, used only where named.     *)
Fairness ==
  /\ \A c \in Client : WF_vars(Handler(c))
  /\ WF_vars(Clean)

PeersKeepGoing ==
  /\ \A c \in Client : WF_vars(Receive(c))
  /\ WF_vars(Answer)
  /\ WF_vars(LinkUp) /\ WF_vars(LinkDown)

LiveSpec == Spec /\ Fairness /\ PeersKeepGoing

-----------------------------------------------------------------------------
(* The echoes of different clients differ, except for calls without echo.   *)
(* Nothing in the code provides this: it is what clients must do.           *)
DistinctEchoes ==
  \A c, d \in Client : c # d => EchoOf[c] \cap EchoOf[d] \subseteq {Blank}

(* While a call is under way its echo leads to its caller: neither another  *)
(* handler's insert (sdk.rs:218-222), nor the taking out of an answered     *)
(* echo (243), nor the cleaning that runs after the next call with the same *)
(* echo may have begun (250-252) touches the entry.                         *)
WireIsBound == \A k \in wire : echo_map[k.echo] = k.caller

(* No approval outlives the rule it came from: a call about to be sent was  *)
(* let through by the access rules at some moment since it was read,        *)
(* whatever same_api_map remembers (sdk.rs:190-209 against 211-216).        *)
ClearedBeforeForwarding ==
  \A c \in Client : pc[c] \in {"bind", "send"} => cleared[c]

Routing == INSTANCE ReplyRouting WITH open <- wire

(* The code keeps the promise of ReplyRouting: each answer goes to its      *)
(* caller, once, and an answer is lost only together with the link          *)
(* (sdk.rs:218-224, 240-255).                                               *)
RoutingSpec == Routing!Spec

(* sdk.rs:43 and 45, "to deduplicate calls repeated within a short time":   *)
(* once the rules allow every group for good, a call that is made again and *)
(* again is not refused from the cache for ever (sdk.rs:190-207, 250-252).  *)
RefusalIsShortLived ==
  <>[](allowed = Group) =>
    \A s \in Str :
      (\E c \in Client : []<>(pc[c] = "lookup" /\ call[c].str = s))
        => []<>(same_api_map[s] # "refused")
=============================================================================
