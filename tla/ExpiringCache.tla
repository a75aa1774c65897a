--------------------------- MODULE ExpiringCache ---------------------------
(***************************************************************************)
(* CacheModel: three maps and a default behind one mutex, so each method is *)
(* one step.  Entries expire by the wall clock, which ClockMoves sets to     *)
(* any other second, forwards as time does and backwards as an adjustment   *)
(* does.  Nothing expires by itself: get removes what it finds too old.     *)
(***************************************************************************)
EXTENDS Integers

CONSTANTS
  Key, Value,
  Seconds,    \* bound: the seconds the clock may show
  Limits,     \* bound: the arguments of expire
  Defaults,   \* what the constructors make of default_expire: None, or seconds
  None

ASSUME ConstantsAssumption ==
  /\ Seconds \subseteq Int
  /\ Limits \subseteq Int
  /\ Defaults \subseteq Int \cup {None}
  /\ None \notin Int \cup Value
  /\ None \notin [value : Value, at : Seconds, limit : Limits \cup Defaults]

VARIABLES
  value, expire, stored_at,  \* the three maps, None where there is no entry
  default_expire,
  now,      \* Utc::now().timestamp()
  answer,   \* what the last call returned
  gone      \* history: keys deleted or found missing, and not set since

maps == <<value, expire, stored_at>>

vars == <<maps, default_expire, now, answer, gone>>

TypeOK ==
  /\ value \in [Key -> Value \cup {None}]
  /\ expire \in [Key -> Limits \cup {None}]
  /\ stored_at \in [Key -> Seconds \cup {None}]
  /\ default_expire \in Defaults
  /\ now \in Seconds
  /\ answer \in [key : Key, value : Value \cup {None}]
                \cup [key : Key, done : BOOLEAN] \cup {None}
  /\ gone \in SUBSET Key

(* new and new_with_default_expire.                                         *)
Init ==
  /\ value = [k \in Key |-> None]
  /\ expire = [k \in Key |-> None]
  /\ stored_at = [k \in Key |-> None]
  /\ default_expire \in Defaults
  /\ now \in Seconds
  /\ answer = None
  /\ gone = {}

(* Mutants: limits are left behind, the default comes first, a lapsed entry *)
(* is not removed when it is read.                                          *)
KeepLimit(k) == UNCHANGED expire

DefaultFirst(k) == IF default_expire # None THEN default_expire ELSE expire[k]

SweepNothing(k) == UNCHANGED maps

(* The per-key limit comes before the default.                              *)
LimitOf(k) == IF expire[k] # None THEN expire[k] ELSE default_expire

Lapsed(k) ==
  /\ stored_at[k] # None
  /\ LimitOf(k) # None
  /\ now - stored_at[k] >= LimitOf(k)

ClearLimit(k) == expire' = [expire EXCEPT ![k] = None]

(* The branch of the default leaves expire alone, where k has no entry.     *)
RemoveAll(k) ==
  /\ value' = [value EXCEPT ![k] = None]
  /\ stored_at' = [stored_at EXCEPT ![k] = None]
  /\ ClearLimit(k)

Sweep(k) == IF Lapsed(k) THEN RemoveAll(k) ELSE UNCHANGED maps

Get(k) ==
  /\ Sweep(k)
  /\ answer' = [key |-> k, value |-> IF Lapsed(k) THEN None ELSE value[k]]
  /\ gone' = IF answer'.value = None THEN gone \cup {k} ELSE gone
  /\ UNCHANGED <<default_expire, now>>

Set(k, v) ==
  /\ value' = [value EXCEPT ![k] = v]
  /\ stored_at' = [stored_at EXCEPT ![k] = now]
  /\ ClearLimit(k)
  /\ answer' = None
  /\ gone' = gone \ {k}
  /\ UNCHANGED <<default_expire, now>>

Delete(k) ==
  /\ RemoveAll(k)
  /\ answer' = None
  /\ gone' = gone \cup {k}
  /\ UNCHANGED <<default_expire, now>>

(* Mutant: the second of expiry is stored in place of the limit.            *)
ExpireDeadline(k, n) ==
  /\ expire' = IF value[k] # None THEN [expire EXCEPT ![k] = now + n] ELSE expire
  /\ answer' = [key |-> k, done |-> value[k] # None]
  /\ UNCHANGED <<value, stored_at, default_expire, now, gone>>

(* It asks only whether there is a value, which may be too old: an entry    *)
(* nobody has read since it lapsed lives again if the new limit is longer.  *)
Expire(k, n) ==
  /\ expire' = IF value[k] # None THEN [expire EXCEPT ![k] = n] ELSE expire
  /\ answer' = [key |-> k, done |-> value[k] # None]
  /\ UNCHANGED <<value, stored_at, default_expire, now, gone>>

ClockMoves ==
  /\ now' \in Seconds
  /\ answer' = None
  /\ UNCHANGED <<maps, default_expire, gone>>

Next ==
  \/ ClockMoves
  \/ \E k \in Key : Get(k) \/ Delete(k)
                    \/ (\E v \in Value : Set(k, v))
                    \/ (\E n \in Limits : Expire(k, n))

Spec == Init /\ [][Next]_vars

-----------------------------------------------------------------------------
(* The three maps stay in step whatever order of calls and lapses: an entry *)
(* has its time, and no limit outlives its entry to meet a later value      *)
(* (cache.rs:44-53, 62-65, 70-72, 77).                                      *)
MapsInStep ==
  \A k \in Key : /\ (stored_at[k] # None) = (value[k] # None)
                 /\ expire[k] # None => value[k] # None

(* What a reader has been told is gone does not come back before it is set  *)
(* again: not by a longer limit, and not by a clock set back                *)
(* (cache.rs:42-53 against 77-78).                                          *)
GoneStaysGone ==
  answer # None /\ answer.key \in gone =>
    answer \in [key : gone, value : {None}] \cup [key : gone, done : {FALSE}]

Entry == [k \in Key |->
  IF value[k] = None THEN None
  ELSE [value |-> value[k], at |-> stored_at[k], limit |-> LimitOf(k)]]

TM == INSTANCE TimedMap WITH default <- default_expire, entry <- Entry

(* CacheModel implements a map with one age limit per entry, although it    *)
(* keeps three maps and removes late (cache.rs:30-83).                      *)
TimedMapSpec == TM!Spec
=============================================================================
