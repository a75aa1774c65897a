---------------------------- MODULE ReplyRouting ----------------------------
(***************************************************************************)
(* What the forwarder promises about answers (the comments at sdk.rs:41    *)
(* and sdk.rs:239: the result of an API call goes back to its caller): a   *)
(* call that was forwarded with an echo is answered once, to the client    *)
(* that made it, unless the link it went over is lost, and then nothing    *)
(* due on that link is ever answered.                                      *)
(***************************************************************************)
CONSTANTS Client, Echo, None

VARIABLES
  open,       \* calls forwarded and not yet answered
  delivered   \* the last answer handed to a client

vars == <<open, delivered>>

Open == [caller : Client, echo : Echo]

Init == open = {} /\ delivered = None

Forward(k) ==
  /\ k \notin open
  /\ open' = open \cup {k}
  /\ UNCHANGED delivered

Return(k) ==
  /\ k \in open
  /\ open' = open \ {k}
  /\ delivered' = [to |-> k.caller, caller |-> k.caller, echo |-> k.echo]

LoseLink ==
  /\ open' = {}
  /\ UNCHANGED delivered

Next == LoseLink \/ \E k \in Open : Forward(k) \/ Return(k)

Spec == Init /\ [][Next]_vars
=============================================================================
