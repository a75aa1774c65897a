------------------------ MODULE ExpiringCacheProofs ------------------------
(***************************************************************************)
(* Proofs about ExpiringCache.  The invariant adds to the properties what a *)
(* reader cannot see: a key that is gone has no value left in the map.      *)
(***************************************************************************)
EXTENDS ExpiringCache, TLAPS

GoneIsRemoved == \A k \in gone : value[k] = None

IInv == TypeOK /\ MapsInStep /\ GoneIsRemoved /\ GoneStaysGone

LEMMA InitEstablishes == Init => IInv
BY ConstantsAssumption
   DEF Init, IInv, TypeOK, MapsInStep, GoneIsRemoved, GoneStaysGone

(* What the removal of a key does to the three maps.                        *)
LEMMA Removal ==
  ASSUME IInv, NEW k \in Key, RemoveAll(k)
  PROVE  /\ value' \in [Key -> Value \cup {None}]
         /\ expire' \in [Key -> Limits \cup {None}]
         /\ stored_at' \in [Key -> Seconds \cup {None}]
         /\ MapsInStep'
         /\ value'[k] = None
         /\ \A i \in Key \ {k} : value'[i] = value[i]
BY DEF IInv, TypeOK, MapsInStep, RemoveAll, ClearLimit

LEMMA GetKeeps == ASSUME IInv, NEW k \in Key, Get(k) PROVE IInv'
<1>1. CASE Lapsed(k)
  <2>1. RemoveAll(k)
    BY <1>1 DEF Get, Sweep
  <2>2. answer' = [key |-> k, value |-> None] /\ gone' = gone \cup {k}
    BY <1>1 DEF Get
  <2>3. TypeOK' /\ MapsInStep'
    BY <2>1, <2>2, Removal DEF IInv, TypeOK, Get
  <2>4. GoneIsRemoved' /\ GoneStaysGone'
    BY <2>1, <2>2, Removal DEF IInv, TypeOK, GoneIsRemoved, GoneStaysGone
  <2> QED BY <2>3, <2>4 DEF IInv
<1>2. CASE ~Lapsed(k)
  <2>1. UNCHANGED maps /\ answer' = [key |-> k, value |-> value[k]]
    BY <1>2 DEF Get, Sweep
  <2>2. gone' = IF value[k] = None THEN gone \cup {k} ELSE gone
    BY <2>1 DEF Get
  <2>3. TypeOK' /\ MapsInStep'
    BY <2>1, <2>2 DEF IInv, TypeOK, MapsInStep, Get, maps
  <2>4. GoneIsRemoved' /\ GoneStaysGone'
    BY <2>1, <2>2 DEF IInv, TypeOK, GoneIsRemoved, GoneStaysGone, maps
  <2> QED BY <2>3, <2>4 DEF IInv
<1> QED BY <1>1, <1>2

LEMMA DeleteKeeps == ASSUME IInv, NEW k \in Key, Delete(k) PROVE IInv'
<1>1. RemoveAll(k) /\ answer' = None /\ gone' = gone \cup {k}
  BY DEF Delete
<1>2. TypeOK' /\ MapsInStep'
  BY <1>1, Removal DEF IInv, TypeOK, Delete
<1>3. GoneIsRemoved' /\ GoneStaysGone'
  BY <1>1, Removal DEF IInv, TypeOK, GoneIsRemoved, GoneStaysGone
<1> QED BY <1>2, <1>3 DEF IInv

LEMMA SetKeeps ==
  ASSUME IInv, NEW k \in Key, NEW v \in Value, Set(k, v) PROVE IInv'
<1>1. TypeOK'
  BY DEF IInv, TypeOK, Set, ClearLimit
<1>2. MapsInStep' /\ GoneIsRemoved' /\ GoneStaysGone'
  BY ConstantsAssumption
     DEF IInv, TypeOK, MapsInStep, GoneIsRemoved, GoneStaysGone, Set, ClearLimit
<1> QED BY <1>1, <1>2 DEF IInv

LEMMA ExpireKeeps ==
  ASSUME IInv, NEW k \in Key, NEW n \in Limits, Expire(k, n) PROVE IInv'
<1>1. TypeOK'
  BY DEF IInv, TypeOK, Expire
<1>2. MapsInStep' /\ GoneIsRemoved'
  BY DEF IInv, TypeOK, MapsInStep, GoneIsRemoved, Expire
<1>3. GoneStaysGone'
  BY DEF IInv, TypeOK, GoneIsRemoved, GoneStaysGone, Expire
<1> QED BY <1>1, <1>2, <1>3 DEF IInv

LEMMA StepKeeps == IInv /\ [Next]_vars => IInv'
<1> SUFFICES ASSUME IInv, [Next]_vars PROVE IInv'
  OBVIOUS
<1>1. CASE ClockMoves
  BY <1>1 DEF IInv, TypeOK, MapsInStep, GoneIsRemoved, GoneStaysGone,
              ClockMoves, maps
<1>2. CASE UNCHANGED vars
  BY <1>2 DEF IInv, TypeOK, MapsInStep, GoneIsRemoved, GoneStaysGone, vars, maps
<1> QED BY <1>1, <1>2, GetKeeps, DeleteKeeps, SetKeeps, ExpireKeeps DEF Next

LEMMA Invariance == Spec => []IInv
<1>1. Init => IInv BY InitEstablishes
<1>2. IInv /\ [Next]_vars => IInv' BY StepKeeps
<1> QED BY <1>1, <1>2, PTL DEF Spec

(* Every variable keeps its type: limits stay limits, times stay times.     *)
THEOREM TypeCorrect == Spec => []TypeOK
<1>1. IInv => TypeOK BY DEF IInv
<1> QED BY <1>1, Invariance, PTL

(* value, stored_at and expire agree on which keys they hold, for any keys, *)
(* limits and clock readings.                                               *)
THEOREM MapsAgree == Spec => []MapsInStep
<1>1. IInv => MapsInStep BY DEF IInv
<1> QED BY <1>1, Invariance, PTL

(* A key found missing stays missing until it is set, however the clock     *)
(* jumps.                                                                   *)
THEOREM GoneForGood == Spec => []GoneStaysGone
<1>1. IInv => GoneStaysGone BY DEF IInv
<1> QED BY <1>1, Invariance, PTL

-----------------------------------------------------------------------------
(* The mapped entry of a key: what each operation makes of it.              *)
LEMMA Mapped ==
  ASSUME IInv, NEW k \in Key, value[k] # None
  PROVE  /\ Entry[k] = [value |-> value[k], at |-> stored_at[k],
                        limit |-> LimitOf(k)]
         /\ Entry[k] # None
         /\ TM!Fresh(k) <=> ~Lapsed(k)
<1>1. Entry[k] = [value |-> value[k], at |-> stored_at[k], limit |-> LimitOf(k)]
  BY DEF Entry
<1>2. /\ value[k] \in Value
      /\ stored_at[k] \in Seconds
      /\ LimitOf(k) \in Limits \cup Defaults
  BY DEF IInv, TypeOK, MapsInStep, LimitOf
<1>3. Entry[k] # None
  BY <1>1, <1>2, ConstantsAssumption
<1>4. TM!Fresh(k) <=> ~Lapsed(k)
  <2> DEFINE limit == LimitOf(k)
             at == stored_at[k]
  <2>1. TM!Fresh(k) <=> limit = None \/ now - at < limit
    BY <1>1, <1>3 DEF TM!Fresh
  <2>2. Lapsed(k) <=> limit # None /\ now - at >= limit
    BY <1>2, ConstantsAssumption DEF Lapsed
  <2>3. now \in Int /\ at \in Int /\ limit \in Int \cup {None}
    BY <1>2, ConstantsAssumption DEF IInv, TypeOK
  <2> HIDE DEF limit, at
  <2> QED BY <2>1, <2>2, <2>3
<1> QED BY <1>1, <1>3, <1>4

LEMMA NoEntry == ASSUME NEW k \in Key, value[k] = None PROVE Entry[k] = None
BY DEF Entry

(* A key whose three maps an operation leaves alone keeps its entry.        *)
LEMMA EntryKept ==
  ASSUME NEW k \in Key, value'[k] = value[k], stored_at'[k] = stored_at[k],
         expire'[k] = expire[k], UNCHANGED default_expire
  PROVE  Entry'[k] = Entry[k]
BY DEF Entry, LimitOf

LEMMA Removed ==
  ASSUME IInv, NEW k \in Key, RemoveAll(k), UNCHANGED default_expire
  PROVE  Entry' = [Entry EXCEPT ![k] = None]
<1>1. Entry'[k] = None
  BY Removal DEF Entry
<1>2. ASSUME NEW i \in Key \ {k} PROVE Entry'[i] = Entry[i]
  BY EntryKept DEF IInv, TypeOK, RemoveAll, ClearLimit
<1> QED BY <1>1, <1>2 DEF Entry

LEMMA GetMaps == ASSUME IInv, NEW k \in Key, Get(k) PROVE TM!Get(k)
<1>1. CASE Lapsed(k)
  <2>1. value[k] # None
    BY <1>1 DEF Lapsed, IInv, MapsInStep
  <2>2. Entry' = [Entry EXCEPT ![k] = None] /\ ~TM!Fresh(k)
    BY <1>1, <2>1, Mapped, Removed DEF Get, Sweep
  <2> QED BY <1>1, <2>2 DEF Get, TM!Get, Entry
<1>2. CASE ~Lapsed(k)
  <2>1. Entry' = Entry
    BY <1>2 DEF Get, Sweep, maps, Entry, LimitOf
  <2>2. CASE value[k] = None
    <3>1. Entry[k] = None /\ ~TM!Fresh(k)
      BY <2>2, NoEntry DEF TM!Fresh
    <3> QED BY <1>2, <2>1, <2>2, <3>1 DEF Get, TM!Get, Entry
  <2>3. CASE value[k] # None
    <3>1. TM!Fresh(k)
      BY <1>2, <2>3, Mapped
    <3>2. Entry[k].value = value[k]
      BY <2>3 DEF Entry
    <3> QED BY <1>2, <2>1, <3>1, <3>2 DEF Get, TM!Get, Entry
  <2> QED BY <2>2, <2>3
<1> QED BY <1>1, <1>2

LEMMA DeleteMaps == ASSUME IInv, NEW k \in Key, Delete(k) PROVE TM!Forget(k)
BY Removed DEF Delete, TM!Forget

LEMMA SetMaps ==
  ASSUME IInv, NEW k \in Key, NEW v \in Value, Set(k, v) PROVE TM!Put(k, v)
<1>1. Entry'[k] = [value |-> v, at |-> now, limit |-> default_expire]
  BY ConstantsAssumption DEF IInv, TypeOK, Set, ClearLimit, Entry, LimitOf
<1>2. ASSUME NEW i \in Key \ {k} PROVE Entry'[i] = Entry[i]
  BY EntryKept DEF IInv, TypeOK, Set, ClearLimit
<1>3. Entry' = [Entry EXCEPT ![k] = Entry'[k]]
  BY <1>2 DEF Entry
<1> QED BY <1>1, <1>3 DEF Set, TM!Put

LEMMA ExpireMaps ==
  ASSUME IInv, NEW k \in Key, NEW n \in Limits, Expire(k, n)
  PROVE  TM!Limit(k, n)
<1>1. CASE value[k] = None
  <2>1. Entry' = Entry
    BY <1>1 DEF Expire, Entry, LimitOf
  <2> QED BY <1>1, <2>1, NoEntry DEF Expire, TM!Limit
<1>2. CASE value[k] # None
  <2>1. Entry'[k] = [value |-> value[k], at |-> stored_at[k], limit |-> n]
    BY <1>2, ConstantsAssumption DEF IInv, TypeOK, Expire, Entry, LimitOf
  <2>2. Entry'[k] = [Entry[k] EXCEPT !.limit = n]
    BY <1>2, <2>1 DEF Entry
  <2>3. ASSUME NEW i \in Key \ {k} PROVE Entry'[i] = Entry[i]
    BY <1>2, EntryKept DEF IInv, TypeOK, Expire
  <2>4. Entry' = [Entry EXCEPT ![k] = [Entry[k] EXCEPT !.limit = n]]
    BY <2>2, <2>3 DEF Entry
  <2> QED BY <1>2, <2>4, Mapped DEF Expire, TM!Limit
<1> QED BY <1>1, <1>2

(* The cache is a map with one age limit per entry: every call answers what *)
(* such a map answers, for any keys, values, limits and clock readings.     *)
THEOREM IsTimedMap == Spec => TimedMapSpec
<1>1. Init => TM!Init
  BY DEF Init, TM!Init, Entry
<1>2. IInv /\ [Next]_vars => [TM!Next]_(TM!vars)
  <2> SUFFICES ASSUME IInv, [Next]_vars PROVE [TM!Next]_(TM!vars)
    OBVIOUS
  <2>1. CASE ClockMoves
    BY <2>1 DEF ClockMoves, TM!Next, TM!ClockMoves, Entry, LimitOf, maps
  <2>2. CASE UNCHANGED vars
    BY <2>2 DEF vars, maps, TM!vars, Entry, LimitOf
  <2>3. ASSUME NEW k \in Key, Get(k) PROVE TM!Next
    BY <2>3, GetMaps DEF TM!Next
  <2>4. ASSUME NEW k \in Key, Delete(k) PROVE TM!Next
    BY <2>4, DeleteMaps DEF TM!Next
  <2>5. ASSUME NEW k \in Key, NEW v \in Value, Set(k, v) PROVE TM!Next
    BY <2>5, SetMaps DEF TM!Next
  <2>6. ASSUME NEW k \in Key, NEW n \in Limits, Expire(k, n) PROVE TM!Next
    BY <2>6, ExpireMaps DEF TM!Next
  <2> QED BY <2>1, <2>2, <2>3, <2>4, <2>5, <2>6 DEF Next
<1> QED BY <1>1, <1>2, Invariance, PTL DEF Spec, TimedMapSpec, TM!Spec
=============================================================================
