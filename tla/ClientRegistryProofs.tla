------------------------ MODULE ClientRegistryProofs ------------------------
(***************************************************************************)
(* Proofs about ClientRegistry, for any number of clients.                  *)
(***************************************************************************)
EXTENDS ClientRegistry, TLAPS

(* A task past its registration and not past its removal has its writer in  *)
(* the map.                                                                 *)
Registered ==
  \A c \in Client :
    task[c] \in {"hello", "greet", "outdated", "serve"} => c \in writers_map

(* A client that will not ask alive() any more, or asked it about a session *)
(* that has ended, depends on the broadcast of the connect event.           *)
Settled(c) == task[c] \in {"serve", "outdated"}

(* The connect event reaches those who depend on it: they have been told,   *)
(* or the broadcast has still to write to them.                             *)
ToldOrPending ==
  DefaultAllow /\ online =>
    /\ reader \in {"idle", "cast"} =>
         \A c \in Client : Settled(c) => c \in told
    /\ reader = "castConnect" =>
         \A c \in Client : Settled(c) => c \in told \cup rest

(* A link that is down has no session and no broadcast.                     *)
LinkShape ==
  /\ ~link => ~online /\ reader = "idle"
  /\ reader \in {"announce", "castConnect"} => online

Inv == TypeOK /\ Registered /\ ToldOrPending /\ LinkShape

-----------------------------------------------------------------------------
LEMMA InvInit == Init => Inv
BY ConstantsAssumption
   DEF Init, Inv, TypeOK, Task, ReaderState, Registered, ToldOrPending,
       LinkShape, Settled

LEMMA InvNext == Inv /\ [Next]_vars => Inv'
<1> SUFFICES ASSUME Inv, [Next]_vars PROVE Inv'
  OBVIOUS
<1> USE ConstantsAssumption
    DEF Inv, TypeOK, Task, ReaderState, Registered, ToldOrPending, LinkShape,
        Settled, Become, Casting, linkVars
<1>1. ASSUME NEW c \in Client, Peers(c) PROVE Inv'
  BY <1>1 DEF Peers, Connect, Stall, Drain, Disconnect
<1>2. ASSUME NEW c \in Client,
             Accept(c) \/ Validate(c) \/ Handshake(c) \/ HandshakePanics(c)
             \/ PeekPanics(c)
      PROVE  Inv'
  <2>1. CASE Accept(c)
    BY <2>1 DEF Accept
  <2>2. CASE Validate(c)
    BY <2>2 DEF Validate
  <2>3. CASE Stop
    BY <2>3 DEF Stop
  <2>4. CASE Handshake(c)
    BY <2>4 DEF Handshake
  <2>5. CASE HandshakePanics(c)
    BY <2>3, <2>5 DEF HandshakePanics
  <2> QED
    BY <1>2, <2>1, <2>2, <2>3, <2>4, <2>5 DEF PeekPanics
<1>3. ASSUME NEW c \in Client, Register(c) PROVE Inv'
  BY <1>3 DEF Register
<1>4. ASSUME NEW c \in Client, Alive(c) PROVE Inv'
  BY <1>4 DEF Alive
<1>5. ASSUME NEW c \in Client, Greet(c) \/ GreetFails(c) PROVE Inv'
  BY <1>5 DEF Greet, GreetFails
<1>6. ASSUME NEW c \in Client, CallFails(c) \/ Leave(c) PROVE Inv'
  BY <1>6 DEF CallFails, Leave
<1>7. ASSUME NEW c \in Client, Remove(c) PROVE Inv'
  BY <1>7 DEF Remove
<1>8. ASSUME NEW c \in Client, CastTo(c) PROVE Inv'
  BY <1>8 DEF CastTo
<1>9. ASSUME NEW c \in Client, CastFails(c) PROVE Inv'
  BY <1>9 DEF CastFails
<1>10. ASSUME Announce \/ Reset PROVE Inv'
  BY <1>10 DEF Announce, Reset, Outdate
<1>11. ASSUME LinkUp \/ CastConnect \/ Cast \/ CastDone \/ LinkEnds PROVE Inv'
  <2>1. CASE LinkUp
    <3>1. ~online /\ ~online'
      BY <2>1 DEF LinkUp
    <3>2. TypeOK' /\ Registered' /\ LinkShape'
      BY <2>1, <3>1 DEF LinkUp
    <3>3. ToldOrPending'
      BY <3>1
    <3> QED
      BY <3>2, <3>3
  <2>2. CASE LinkEnds
    BY <2>2 DEF LinkEnds
  <2>3. CASE CastConnect
    BY <2>3 DEF CastConnect
  <2>4. CASE Cast
    BY <2>4 DEF Cast
  <2>5. CASE CastDone
    BY <2>5 DEF CastDone
  <2> QED
    BY <1>11, <2>1, <2>2, <2>3, <2>4, <2>5
<1>12. ASSUME AcceptFails \/ UNCHANGED vars PROVE Inv'
  BY <1>12 DEF AcceptFails, vars
<1> QED
  BY <1>1, <1>2, <1>3, <1>4, <1>5, <1>6, <1>7, <1>8, <1>9, <1>10, <1>11,
     <1>12 DEF Next, TaskStep, WriteStep

(* Every variable keeps its type (sdk.rs:37-40, 50-177, 229-237).           *)
THEOREM TypeCorrect == Spec => []TypeOK
<1>1. Init => Inv
  BY InvInit
<1>2. Inv /\ [Next]_vars => Inv'
  BY InvNext
<1>3. Inv => TypeOK
  BY DEF Inv
<1> QED
  BY <1>1, <1>2, <1>3, PTL DEF Spec

(* However a client's joining interleaves with the connect event, once the  *)
(* event has been handled every client being served knows that the bot is   *)
(* connected (sdk.rs:112-130, 229-237).                                     *)
THEOREM ServedAreTold == Spec => []ToldWhenOnline
<1>1. Init => Inv
  BY InvInit
<1>2. Inv /\ [Next]_vars => Inv'
  BY InvNext
<1>3. Inv => ToldWhenOnline
  BY DEF Inv, ToldOrPending, ToldWhenOnline, Settled
<1> QED
  BY <1>1, <1>2, <1>3, PTL DEF Spec
=============================================================================
