----------------------------- MODULE MCApiCalls -----------------------------
(* Small instances of ApiCalls.                                            *)
EXTENDS ApiCalls

CONSTANTS c1, c2, a1, a2, g1, e1, e2, o1

(* a1 names a group, a2 does not.                                          *)
MCGroupOf == [a \in Api |-> IF a = a1 THEN g1 ELSE None]

(* Each client has an echo of its own; c1 also makes calls without echo.    *)
OwnEcho == [c \in Client |-> IF c = c1 THEN {Blank, e1} ELSE {e2}]

(* Every call has the same echo.                                            *)
OneEcho == [c \in Client |-> {e1}]

=============================================================================
