------------------------------ MODULE TimedMap ------------------------------
(***************************************************************************)
(* What CacheModel promises: a map whose entries have each one age limit.   *)
(* A read finds what was last put there unless it is as old as its limit,   *)
(* and an entry that a read has found too old is forgotten, so that neither *)
(* a later limit nor a clock that is set back makes it reappear.            *)
(***************************************************************************)
EXTENDS Integers

CONSTANTS Key, Value, Limits, None

VARIABLES
  now,      \* the clock the callers live by
  default,  \* the limit of an entry that has been given none, or None
  entry,    \* Key -> [value, at, limit] or None
  answer    \* what the last call returned, None if it returned nothing

vars == <<now, default, entry, answer>>

Fresh(k) ==
  /\ entry[k] # None
  /\ entry[k].limit = None \/ now - entry[k].at < entry[k].limit

Init == entry = [k \in Key |-> None] /\ answer = None

Put(k, v) ==
  /\ entry' = [entry EXCEPT ![k] = [value |-> v, at |-> now, limit |-> default]]
  /\ answer' = None
  /\ UNCHANGED <<now, default>>

Get(k) ==
  /\ answer' = [key |-> k, value |-> IF Fresh(k) THEN entry[k].value ELSE None]
  /\ entry' = [entry EXCEPT ![k] = IF Fresh(k) THEN @ ELSE None]
  /\ UNCHANGED <<now, default>>

Forget(k) ==
  /\ entry' = [entry EXCEPT ![k] = None]
  /\ answer' = None
  /\ UNCHANGED <<now, default>>

Limit(k, n) ==
  /\ entry' = IF entry[k] = None THEN entry ELSE [entry EXCEPT ![k].limit = n]
  /\ answer' = [key |-> k, done |-> entry[k] # None]
  /\ UNCHANGED <<now, default>>

ClockMoves == answer' = None /\ UNCHANGED <<default, entry>>

Next ==
  \/ ClockMoves
  \/ \E k \in Key : Get(k) \/ Forget(k)
                    \/ (\E v \in Value : Put(k, v))
                    \/ (\E n \in Limits : Limit(k, n))

Spec == Init /\ [][Next]_vars
=============================================================================
