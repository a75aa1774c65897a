--------------------------- MODULE ApiCallsProofs ---------------------------
(***************************************************************************)
(* Proofs about ApiCalls, for any number of clients, echoes, calls, groups  *)
(* and serialisation orders.                                                *)
(***************************************************************************)
EXTENDS ApiCalls, TLAPS

(* A handler at one of these labels has a call in hand.                     *)
Busy == {"lookup", "record", "judge", "grant", "refuse", "check", "bind",
         "send"}

(* A call in hand is a call, with an echo of the client that made it.       *)
CallShape ==
  \A c \in Client : pc[c] \in Busy =>
    /\ call[c] \in Call
    /\ call[c] # None
    /\ call[c].echo \in EchoOf[c]

(* The wire holds calls with an echo, one that their caller uses.           *)
WireShape ==
  \A k \in wire : k.echo # Blank /\ k.echo \in EchoOf[k.caller]

(* The echo of the call in hand is not awaiting an answer: EchoIsFree, kept *)
(* until the call is forwarded.                                             *)
FreshEcho ==
  \A c \in Client : pc[c] \in Busy =>
    [caller |-> c, echo |-> call[c].echo] \notin wire

(* A call about to be sent is bound already, as it will be on the wire.     *)
SendIsBound ==
  \A c \in Client : pc[c] = "send" =>
    call[c].echo = Blank \/ echo_map[call[c].echo] = c

(* What the rules permit now has been permitted since the call was read.    *)
PermittedIsCleared ==
  \A c \in Client :
    pc[c] \in Busy /\ Permitted(call[c].api, allowed) => cleared[c]

(* TypeOK and CallShape are inductive together: the maps are updated from   *)
(* the call in hand.                                                        *)
Typed == TypeOK /\ CallShape

-----------------------------------------------------------------------------
LEMMA TypedInit == Init => Typed
BY ConstantsAssumption DEF Init, Typed, TypeOK, CallShape, Busy, Verdict, PC

(* Leaving a call keeps the handler's variables well formed.                *)
LEMMA FinishTyped ==
  ASSUME Typed, NEW c \in Client, NEW label \in PC \ Busy, Finish(c, label)
  PROVE  /\ pc' \in [Client -> PC]
         /\ call' \in [Client -> Call \cup {None}]
         /\ cleared' \in [Client -> BOOLEAN]
         /\ CallShape'
BY DEF Typed, TypeOK, CallShape, Finish, Goto, PC, Busy

(* Going from one label to the next with the call in hand does, too.        *)
LEMMA GotoTyped ==
  ASSUME Typed, NEW c \in Client, pc[c] \in Busy, NEW label \in Busy,
         Goto(c, label), UNCHANGED <<call, cleared>>
  PROVE  /\ pc' \in [Client -> PC]
         /\ call' \in [Client -> Call \cup {None}]
         /\ cleared' \in [Client -> BOOLEAN]
         /\ CallShape'
BY DEF Typed, TypeOK, CallShape, Goto, PC, Busy

LEMMA TypedNext == Typed /\ [Next]_vars => Typed'
<1> SUFFICES ASSUME Typed, [Next]_vars PROVE Typed'
  OBVIOUS
<1> USE ConstantsAssumption
    DEF Typed, TypeOK, CallShape, Busy, PC, Goto
<1>1. ASSUME NEW c \in Client, Receive(c) PROVE Typed'
  <2>1. PICK a \in Api, o \in Order, e \in EchoOf[c] :
          /\ call' = [call EXCEPT ![c] =
                        [api |-> a, str |-> <<a, o>>, echo |-> e]]
          /\ cleared' = [cleared EXCEPT ![c] = Permitted(a, allowed)]
    BY <1>1 DEF Receive
  <2>2. [api |-> a, str |-> <<a, o>>, echo |-> e] \in Call
    BY DEF Call, Str
  <2>3. Permitted(a, allowed) \in BOOLEAN
    BY DEF Permitted
  <2>4. [api |-> a, str |-> <<a, o>>, echo |-> e] # None
    BY <2>2 DEF Call, Str
  <2>5. call' \in [Client -> Call \cup {None}] /\ pc' \in [Client -> PC]
    BY <1>1, <2>1, <2>2 DEF Receive
  <2>6. cleared' \in [Client -> BOOLEAN]
    BY <1>1, <2>1, <2>3 DEF Receive
  <2>7. TypeOK'
    BY <1>1, <2>5, <2>6 DEF Receive
  <2>8. CallShape'
    BY <1>1, <2>1, <2>2, <2>4 DEF Receive
  <2> QED
    BY <2>7, <2>8
<1>2. ASSUME NEW c \in Client, BadText(c) \/ Leave(c) PROVE Typed'
  BY <1>2 DEF BadText, Leave
<1>3. ASSUME NEW c \in Client, Lookup(c) PROVE Typed'
  <2>1. CASE same_api_map[call[c].str] = "refused"
    BY <1>3, <2>1, FinishTyped DEF Lookup
  <2>2. CASE same_api_map[call[c].str] # "refused"
    BY <1>3, <2>2, GotoTyped DEF Lookup
  <2> QED
    BY <2>1, <2>2
<1>4. ASSUME NEW c \in Client, Record(c) PROVE Typed'
  <2>1. call[c].str \in Str /\ call[c].echo \in Echo
    BY <1>4 DEF Record, Call
  <2> QED
    BY <1>4, <2>1 DEF Record
<1>5. ASSUME NEW c \in Client, Judge(c) PROVE Typed'
  BY <1>5 DEF Judge
<1>6. ASSUME NEW c \in Client, Remember(c) PROVE Typed'
  <2>1. same_api_map' \in [Str -> Verdict]
    BY <1>6 DEF Remember, Call, Verdict
  <2>2. CASE pc[c] = "grant"
    BY <1>6, <2>1, <2>2, GotoTyped DEF Remember
  <2>3. CASE pc[c] = "refuse"
    BY <1>6, <2>1, <2>3, FinishTyped DEF Remember
  <2> QED
    BY <1>6, <2>2, <2>3 DEF Remember
<1>7. ASSUME NEW c \in Client, Check(c) PROVE Typed'
  <2>1. CASE Permitted(call[c].api, allowed)
    BY <1>7, <2>1, GotoTyped DEF Check
  <2>2. CASE ~Permitted(call[c].api, allowed)
    BY <1>7, <2>2, FinishTyped DEF Check
  <2> QED
    BY <2>1, <2>2
<1>8. ASSUME NEW c \in Client, Bind(c) PROVE Typed'
  BY <1>8 DEF Bind, Call
<1>9. ASSUME NEW c \in Client, Forward(c) PROVE Typed'
  <2>1. wire' \in SUBSET [caller : Client, echo : Echo]
    BY <1>9 DEF Forward, Call
  <2> QED
    BY <1>9, <2>1, FinishTyped DEF Forward
<1>10. ASSUME NEW c \in Client, Lost(c) \/ SendFails(c) PROVE Typed'
  BY <1>10, FinishTyped DEF Lost, SendFails
<1>11. ASSUME NEW k \in wire, Reply(k) PROVE Typed'
  BY <1>11 DEF Reply
<1>12. ASSUME NEW k \in wire, ReplyFails(k) PROVE Typed'
  BY <1>12 DEF ReplyFails
<1>13. ASSUME Clean PROVE Typed'
  BY <1>13 DEF Clean, Verdict
<1>14. ASSUME LinkUp \/ LinkTorn \/ LinkDown PROVE Typed'
  BY <1>14 DEF LinkUp, LinkTorn, LinkDown
<1>15. ASSUME ChangeRules PROVE Typed'
  BY <1>15 DEF ChangeRules, Permitted
<1>16. ASSUME UNCHANGED vars PROVE Typed'
  BY <1>16 DEF vars
<1> QED
  BY <1>1, <1>2, <1>3, <1>4, <1>5, <1>6, <1>7, <1>8, <1>9, <1>10, <1>11,
     <1>12, <1>13, <1>14, <1>15, <1>16 DEF Next, Handler, Answer

(* Every variable keeps its type: a call is recorded without its echo, a    *)
(* verdict is one of three, an answer is owed to clients only               *)
(* (sdk.rs:180-255).                                                        *)
THEOREM TypeCorrect == Spec => []TypeOK
<1>1. Init => Typed
  BY TypedInit
<1>2. Typed /\ [Next]_vars => Typed'
  BY TypedNext
<1>3. Typed => TypeOK
  BY DEF Typed
<1> QED
  BY <1>1, <1>2, <1>3, PTL DEF Spec

-----------------------------------------------------------------------------
(* No approval outlives the rule it came from (sdk.rs:190-216): the cached  *)
(* verdict lets a call skip the first filter, the second one still stands   *)
(* between it and the link.                                                 *)
Approval == PermittedIsCleared /\ ClearedBeforeForwarding

LEMMA ApprovalNext == Typed /\ Approval /\ [Next]_vars => Approval'
<1> SUFFICES ASSUME Typed, Approval, [Next]_vars PROVE Approval'
  OBVIOUS
<1> USE DEF Typed, TypeOK, CallShape, Busy, Approval, PermittedIsCleared,
            ClearedBeforeForwarding, Goto
<1>1. ASSUME NEW c \in Client, Receive(c) PROVE Approval'
  BY <1>1 DEF Receive
<1>2. ASSUME NEW c \in Client,
             BadText(c) \/ Leave(c) \/ Record(c) \/ Judge(c) \/ Bind(c)
      PROVE  Approval'
  BY <1>2 DEF BadText, Leave, Record, Judge, Bind
<1>3. ASSUME NEW c \in Client, Lookup(c) \/ Remember(c) \/ Check(c)
      PROVE  Approval'
  BY <1>3 DEF Lookup, Remember, Check, Finish
<1>4. ASSUME NEW c \in Client, Forward(c) \/ Lost(c) \/ SendFails(c)
      PROVE  Approval'
  BY <1>4 DEF Forward, Lost, SendFails, Finish
<1>5. ASSUME Answer \/ Clean \/ LinkUp \/ LinkTorn \/ LinkDown
      PROVE  Approval'
  BY <1>5 DEF Answer, Reply, ReplyFails, Clean, LinkUp, LinkTorn, LinkDown
<1>6. ASSUME ChangeRules PROVE Approval'
  BY <1>6 DEF ChangeRules
<1>7. ASSUME UNCHANGED vars PROVE Approval'
  BY <1>7 DEF vars
<1> QED
  BY <1>1, <1>2, <1>3, <1>4, <1>5, <1>6, <1>7 DEF Next, Handler

(* A call is sent only if the access rules let it through at some moment    *)
(* since it was read, however old the cached verdict (sdk.rs:190-216).      *)
THEOREM NoStaleApproval == Spec => []ClearedBeforeForwarding
<1>1. Init => Typed /\ Approval
  BY TypedInit DEF Init, Approval, PermittedIsCleared,
     ClearedBeforeForwarding, Busy
<1>2. Typed /\ Approval /\ [Next]_vars => Typed' /\ Approval'
  BY TypedNext, ApprovalNext
<1>3. Approval => ClearedBeforeForwarding
  BY DEF Approval
<1> QED
  BY <1>1, <1>2, <1>3, PTL DEF Spec

-----------------------------------------------------------------------------
(* From here on the clients' echoes differ.                                 *)
Bound == Typed /\ WireShape /\ FreshEcho /\ SendIsBound /\ WireIsBound

LEMMA BoundInit == Init => Bound
BY TypedInit DEF Init, Bound, WireShape, FreshEcho, SendIsBound, WireIsBound

LEMMA BoundNext ==
  ASSUME DistinctEchoes PROVE Bound /\ [Next]_vars => Bound'
<1> SUFFICES ASSUME Bound, [Next]_vars PROVE Bound'
  OBVIOUS
<1>0. Typed'
  BY TypedNext DEF Bound
<1> USE ConstantsAssumption, <1>0
    DEF Bound, Typed, TypeOK, CallShape, Busy, WireShape, FreshEcho,
        SendIsBound, WireIsBound, DistinctEchoes, Goto
<1>1. ASSUME NEW c \in Client, Receive(c) PROVE Bound'
  BY <1>1 DEF Receive, EchoIsFree
<1>2. ASSUME NEW c \in Client,
             BadText(c) \/ Leave(c) \/ Record(c) \/ Judge(c)
      PROVE  Bound'
  BY <1>2 DEF BadText, Leave, Record, Judge
<1>3. ASSUME NEW c \in Client, Lookup(c) \/ Remember(c) \/ Check(c)
      PROVE  Bound'
  BY <1>3 DEF Lookup, Remember, Check, Finish
<1>4. ASSUME NEW c \in Client, Bind(c) PROVE Bound'
  BY <1>4 DEF Bind, Call
<1>5. ASSUME NEW c \in Client, Forward(c) PROVE Bound'
  BY <1>5 DEF Forward, Finish, Call
<1>6. ASSUME NEW c \in Client, Lost(c) \/ SendFails(c) PROVE Bound'
  BY <1>6 DEF Lost, SendFails, Finish
<1>7. ASSUME NEW k \in wire, Reply(k) PROVE Bound'
  BY <1>7 DEF Reply, Call
<1>8. ASSUME NEW k \in wire, ReplyFails(k) PROVE Bound'
  BY <1>8 DEF ReplyFails, Call
<1>9. ASSUME Clean \/ LinkUp \/ LinkTorn \/ LinkDown \/ ChangeRules
      PROVE  Bound'
  BY <1>9 DEF Clean, LinkUp, LinkTorn, LinkDown, ChangeRules
<1>10. ASSUME UNCHANGED vars PROVE Bound'
  BY <1>10 DEF vars
<1> QED
  BY <1>1, <1>2, <1>3, <1>4, <1>5, <1>6, <1>7, <1>8, <1>9, <1>10
     DEF Next, Handler, Answer

(* While clients keep their echoes apart, every call that awaits an answer  *)
(* is still bound to its caller: no insert, no answer to another call and   *)
(* no late cleaning takes the binding away (sdk.rs:218-224, 240-255).       *)
THEOREM AnswersAreBound ==
  ASSUME DistinctEchoes PROVE Spec => []WireIsBound
<1>1. Init => Bound
  BY BoundInit
<1>2. Bound /\ [Next]_vars => Bound'
  BY BoundNext
<1>3. Bound => WireIsBound
  BY DEF Bound
<1> QED
  BY <1>1, <1>2, <1>3, PTL DEF Spec

-----------------------------------------------------------------------------
LEMMA RoutingStep ==
  ASSUME Bound, [Next]_vars
  PROVE  [Routing!Next]_(Routing!vars)
<1> USE ConstantsAssumption
    DEF Bound, Typed, TypeOK, Routing!Next, Routing!vars
<1>1. ASSUME NEW c \in Client, Forward(c) PROVE [Routing!Next]_(Routing!vars)
  <2>1. CASE call[c].echo = Blank
    BY <1>1, <2>1 DEF Forward
  <2>2. CASE call[c].echo # Blank
    <3> DEFINE k == [caller |-> c, echo |-> call[c].echo]
    <3>1. k \in Routing!Open /\ k \notin wire
      BY <1>1 DEF Forward, CallShape, FreshEcho, Busy, Call, Routing!Open
    <3>2. Routing!Forward(k)
      BY <1>1, <2>2, <3>1 DEF Forward, Routing!Forward
    <3> QED
      BY <3>1, <3>2
  <2> QED
    BY <2>1, <2>2
<1>2. ASSUME NEW k \in wire, Reply(k) PROVE [Routing!Next]_(Routing!vars)
  <2>1. echo_map[k.echo] = k.caller /\ k.caller # None
    BY DEF WireIsBound
  <2>2. Routing!Return(k) /\ k \in Routing!Open
    BY <1>2, <2>1 DEF Reply, Routing!Return, Routing!Open
  <2> QED
    BY <2>2
<1>3. ASSUME NEW k \in wire, ReplyFails(k) PROVE [Routing!Next]_(Routing!vars)
  BY <1>3 DEF ReplyFails, Routing!LoseLink
<1>4. ASSUME LinkTorn PROVE [Routing!Next]_(Routing!vars)
  BY <1>4 DEF LinkTorn, Routing!LoseLink
<1>5. ASSUME NEW c \in Client,
             Receive(c) \/ BadText(c) \/ Leave(c) \/ Lookup(c) \/ Record(c)
             \/ Judge(c) \/ Remember(c) \/ Check(c) \/ Bind(c) \/ Lost(c)
             \/ SendFails(c)
      PROVE  UNCHANGED Routing!vars
  BY <1>5 DEF Receive, BadText, Leave, Lookup, Record, Judge, Remember,
              Check, Bind, Lost, SendFails
<1>6. ASSUME Clean \/ LinkUp \/ LinkDown \/ ChangeRules \/ UNCHANGED vars
      PROVE  UNCHANGED Routing!vars
  BY <1>6 DEF Clean, LinkUp, LinkDown, ChangeRules, vars
<1> QED
  BY <1>1, <1>2, <1>3, <1>4, <1>5, <1>6 DEF Next, Handler, Answer

(* While clients keep their echoes apart, the four maps and the tasks that  *)
(* share them implement ReplyRouting: one answer per forwarded call, to its *)
(* caller, and none lost except with the link (sdk.rs:180-255).             *)
THEOREM RoutesReplies ==
  ASSUME DistinctEchoes PROVE Spec => RoutingSpec
<1>1. Init => Bound /\ Routing!Init
  BY BoundInit DEF Init, Routing!Init
<1>2. Bound /\ [Next]_vars => Bound'
  BY BoundNext
<1>3. Bound /\ [Next]_vars => [Routing!Next]_(Routing!vars)
  BY RoutingStep
<1> QED
  BY <1>1, <1>2, <1>3, PTL DEF Spec, RoutingSpec, Routing!Spec
=============================================================================
