---------------------------- MODULE LocksProofs ----------------------------
(***************************************************************************)
(* Proofs about Locks.  All sections follow one order of the locks (Rank),  *)
(* and none has locks on both sides of it: those up to a link's socket, and *)
(* those from the maps of clients on.  The first fact excludes circles, the *)
(* second confines what a stalled peer can stop.                            *)
(***************************************************************************)
EXTENDS Locks, SequenceTheorems, WellFoundedInduction, TLAPS

Rank(l) ==
  IF l[1] = "socket" THEN IF l[2] \in Link THEN 5 ELSE 7
  ELSE CASE l[2] = "last_heartbeat_time" -> 1
         [] l[2] = "echo_tx_map" -> 2
         [] l[2] = "echo_user_id_map" -> 3
         [] l[2] = "writers" -> 4
         [] l[2] = "same_api_map" -> 7
         [] OTHER -> 6

Rising(s) == \A i, j \in 1..Len(s) : i < j => Rank(s[i].lock) < Rank(s[j].lock)
OfLinks(s) == \A i \in 1..Len(s) : Rank(s[i].lock) <= 5
OfClients(s) == \A i \in 1..Len(s) : Rank(s[i].lock) > 5

In(q, x) == \E i \in 1..Len(q) : q[i] = x
Once(q) == \A i, j \in 1..Len(q) : q[i] = q[j] => i = j

LinkSide(t) == OfLinks(todo[t]) /\ OfLinks(held[t])
ClientSide(t) == OfClients(todo[t]) /\ OfClients(held[t])

Ordered == \A t \in Task :
  /\ Rising(todo[t])
  /\ \A i \in 1..Len(held[t]), j \in 1..Len(todo[t]) :
       Rank(held[t][i].lock) < Rank(todo[t][j].lock)

Sided ==
  /\ \A t \in Task : LinkSide(t) \/ ClientSide(t)
  /\ \A p \in Prober : LinkSide(p)

IInv == TypeOK /\ (\A l \in Lock : Once(queue[l])) /\ Ordered /\ Sided

-----------------------------------------------------------------------------
LEMMA RankType == \A l \in Lock : Rank(l) \in 1..7
BY DEF Rank, Lock, Map

LEMMA AppendMembers ==
  ASSUME NEW S, NEW q \in Seq(S), NEW e \in S, Once(q), ~In(q, e)
  PROVE  /\ Append(q, e) \in Seq(S)
         /\ Once(Append(q, e))
         /\ \A x : In(Append(q, e), x) <=> In(q, x) \/ x = e
<1>1. /\ Append(q, e) \in Seq(S) /\ Len(Append(q, e)) = Len(q) + 1
      /\ \A i \in 1..Len(q) : Append(q, e)[i] = q[i]
      /\ Append(q, e)[Len(q) + 1] = e
  BY AppendProperties
<1>2. Len(q) \in Nat
  OBVIOUS
<1>3. \A i \in 1..Len(q) + 1 : i \in 1..Len(q) \/ i = Len(q) + 1
  BY <1>2
<1>4. Once(Append(q, e))
  BY <1>1, <1>2, <1>3 DEF Once, In
<1>5. ASSUME NEW x PROVE In(Append(q, e), x) <=> In(q, x) \/ x = e
  <2>1. In(Append(q, e), x) => In(q, x) \/ x = e
    BY <1>1, <1>3 DEF In
  <2>2. ASSUME In(q, x) PROVE In(Append(q, e), x)
    <3>1. PICK i \in 1..Len(q) : q[i] = x
      BY <2>2 DEF In
    <3>2. i \in 1..Len(q) + 1 /\ Append(q, e)[i] = x
      BY <1>1, <1>2, <3>1
    <3> QED BY <1>1, <3>2 DEF In
  <2>3. ASSUME x = e PROVE In(Append(q, e), x)
    <3>1. Len(q) + 1 \in 1..Len(q) + 1
      BY <1>2
    <3> QED BY <1>1, <2>3, <3>1 DEF In
  <2> QED BY <2>1, <2>2, <2>3
<1> QED BY <1>1, <1>4, <1>5

LEMMA TailMembers ==
  ASSUME NEW S, NEW q \in Seq(S), q # <<>>, Once(q)
  PROVE  /\ Tail(q) \in Seq(S)
         /\ Once(Tail(q))
         /\ \A x : In(Tail(q), x) <=> In(q, x) /\ x # Head(q)
<1>1. /\ Tail(q) \in Seq(S) /\ Len(Tail(q)) = Len(q) - 1
      /\ \A i \in 1..Len(Tail(q)) : Tail(q)[i] = q[i + 1]
      /\ Head(q) = q[1] /\ Len(q) \in Nat \ {0}
  BY HeadTailProperties
<1>2. \A i \in 1..Len(Tail(q)) : i + 1 \in 1..Len(q) /\ i + 1 # 1
  BY <1>1
<1>3. Once(Tail(q))
  BY <1>1, <1>2 DEF Once
<1>4. ASSUME NEW x PROVE In(Tail(q), x) <=> In(q, x) /\ x # Head(q)
  <2>1. In(Tail(q), x) => In(q, x) /\ x # Head(q)
    BY <1>1, <1>2 DEF In, Once
  <2>2. ASSUME In(q, x), x # Head(q) PROVE In(Tail(q), x)
    <3>1. PICK i \in 1..Len(q) : q[i] = x
      BY <2>2 DEF In
    <3>2. i - 1 \in 1..Len(Tail(q)) /\ Tail(q)[i - 1] = x
      BY <1>1, <2>2, <3>1
    <3> QED BY <3>2 DEF In
  <2> QED BY <2>1, <2>2
<1> QED BY <1>1, <1>3, <1>4

-----------------------------------------------------------------------------
Fits(s) ==
  /\ s \in Seq(Request) /\ s # <<>>
  /\ Rising(s)
  /\ OfLinks(s) \/ OfClients(s)

LEMMA FitsOne ==
  ASSUME NEW a \in Request
  PROVE  Fits(<<a>>)
<1>1. Rank(a.lock) \in 1..7
  BY RankType DEF Request
<1> QED BY <1>1 DEF Fits, Rising, OfLinks, OfClients

LEMMA FitsTwo ==
  ASSUME NEW a \in Request, NEW b \in Request, Rank(a.lock) < Rank(b.lock),
         Rank(b.lock) <= 5 \/ Rank(a.lock) > 5
  PROVE  Fits(<<a, b>>)
<1>1. Rank(a.lock) \in 1..7 /\ Rank(b.lock) \in 1..7
  BY RankType DEF Request
<1> QED BY <1>1 DEF Fits, Rising, OfLinks, OfClients

LEMMA FitsLonger ==
  ASSUME NEW a \in Request, NEW s \in Seq(Request), Rising(s), OfLinks(s),
         Rank(a.lock) = 1, \A i \in 1..Len(s) : Rank(s[i].lock) > 1
  PROVE  Fits(<<a>> \o s) /\ OfLinks(<<a>> \o s)
<1> DEFINE z == <<a>> \o s
<1> DEFINE o == <<a>>
<1>1. o \in Seq(Request) /\ Len(o) = 1 /\ o[1] = a /\ Len(s) \in Nat
  OBVIOUS
<1>2. /\ z \in Seq(Request) /\ Len(z) = Len(s) + 1 /\ Len(s) \in Nat
      /\ \A i \in 1..Len(s) + 1 : z[i] = IF i <= 1 THEN a ELSE s[i - 1]
  <2> HIDE DEF o
  <2>1. /\ o \o s \in Seq(Request) /\ Len(o \o s) = Len(o) + Len(s)
        /\ \A i \in 1..Len(o) + Len(s) :
             (o \o s)[i] = IF i <= Len(o) THEN o[i] ELSE s[i - Len(o)]
    BY <1>1, ConcatProperties
  <2>2. \A i \in 1..Len(s) + 1 : i <= 1 => i = 1
    BY <1>1
  <2>3. z = o \o s
    BY DEF o
  <2> HIDE DEF z
  <2> QED BY <1>1, <2>1, <2>2, <2>3
<1> HIDE DEF z
<1>3. \A i \in 1..Len(z) :
        \/ /\ i = 1
           /\ Rank(z[i].lock) = 1
        \/ /\ i - 1 \in 1..Len(s)
           /\ z[i] = s[i - 1]
           /\ Rank(z[i].lock) > 1 /\ Rank(z[i].lock) <= 5
  <2> TAKE i \in 1..Len(z)
  <2>1. CASE i = 1
    <3>1. 1 \in 1..Len(s) + 1 /\ 1 <= 1
      BY <1>2
    <3>2. z[1] = a
      BY <1>2, <3>1
    <3> QED BY <2>1, <3>2
  <2>2. CASE i # 1
    <3>1. i - 1 \in 1..Len(s) /\ z[i] = s[i - 1]
      BY <1>2, <2>2
    <3> QED BY <3>1 DEF OfLinks
  <2> QED BY <2>1, <2>2
<1>4. OfLinks(z)
  BY <1>3 DEF OfLinks
<1>5. Rising(z)
  BY <1>2, <1>3 DEF Rising
<1>6. z # <<>>
  BY <1>2
<1> QED BY <1>2, <1>4, <1>5, <1>6 DEF Fits, z

LEMMA MapRequests ==
  ASSUME NEW m \in Map
  PROVE  /\ R(m) \in Request /\ R(m).lock = Shared(m)
         /\ W(m) \in Request /\ W(m).lock = Shared(m)
BY DEF R, W, Request, Lock, Shared

LEMMA SocketRequests ==
  ASSUME NEW x \in Client \cup Link
  PROVE  /\ Send(x) \in Request
         /\ Rank(Send(x).lock) = IF x \in Link THEN 5 ELSE 7
BY DEF Send, Request, Lock, Socket, Rank

LEMMA MapRanks ==
  /\ Rank(Shared("last_heartbeat_time")) = 1 /\ Rank(Shared("echo_tx_map")) = 2
  /\ Rank(Shared("echo_user_id_map")) = 3 /\ Rank(Shared("writers")) = 4
  /\ Rank(Shared("writers_map")) = 6 /\ Rank(Shared("echo_map")) = 6
  /\ Rank(Shared("api_invoke_cache_map")) = 6 /\ Rank(Shared("same_api_map")) = 7
BY DEF Rank, Shared

LEMMA LinksAreLinks == Links \subseteq Link
BY ConstantsAssumption DEF Links

(* Every section rises and stays on one side; that of a probe, on the links'. *)
LEMMA SectionsFit ==
  ASSUME NEW t \in Task, NEW s \in Sections(t)
  PROVE  Fits(s) /\ (t \in Prober => OfLinks(s))
<1>1. ASSUME NEW x \in SdkSections PROVE Fits(x)
  <2>1. ASSUME NEW c \in Client
        PROVE  Fits(<<R("writers_map"), Send(c)>>) /\ Fits(<<W("echo_map"), Send(c)>>)
    BY MapRequests, MapRanks, SocketRequests, FitsTwo, ConstantsAssumption DEF Map
  <2>2. Fits(<<W("api_invoke_cache_map"), W("same_api_map")>>)
    BY MapRequests, MapRanks, FitsTwo DEF Map
  <2> QED BY <2>1, <2>2 DEF SdkSections
<1>2. ASSUME NEW m \in Map PROVE Fits(<<W(m)>>) /\ Fits(<<R(m)>>)
  BY MapRequests, FitsOne
<1>3. ASSUME NEW x \in Client \cup Link PROVE Fits(<<Send(x)>>)
  BY SocketRequests, FitsOne
<1>4. ASSUME NEW l \in Links
      PROVE  /\ Fits(<<W("writers"), Send(l)>>) /\ OfLinks(<<W("writers"), Send(l)>>)
             /\ Fits(<<W("echo_tx_map"), Send(l)>>)
             /\ OfLinks(<<W("echo_tx_map"), Send(l)>>)
             /\ \A i \in 1..2 : Rank(<<W("writers"), Send(l)>>[i].lock) > 1
  <2>1. Send(l) \in Request /\ Rank(Send(l).lock) = 5
    BY SocketRequests, LinksAreLinks
  <2>2. /\ W("writers") \in Request /\ Rank(W("writers").lock) = 4
        /\ W("echo_tx_map") \in Request /\ Rank(W("echo_tx_map").lock) = 2
    BY MapRequests, MapRanks DEF Map
  <2>3. /\ Fits(<<W("writers"), Send(l)>>)
        /\ Fits(<<W("echo_tx_map"), Send(l)>>)
    BY <2>1, <2>2, FitsTwo
  <2> HIDE DEF Rank
  <2>4. \A a, b : Rank(a.lock) <= 5 /\ Rank(b.lock) <= 5 => OfLinks(<<a, b>>)
    BY DEF OfLinks
  <2>5. 4 <= 5 /\ 5 <= 5 /\ 2 <= 5 /\ 4 > 1 /\ 5 > 1
    OBVIOUS
  <2>6. \A a, b : Rank(a.lock) > 1 /\ Rank(b.lock) > 1
          => \A i \in 1..2 : Rank(<<a, b>>[i].lock) > 1
    OBVIOUS
  <2> QED BY <2>1, <2>2, <2>3, <2>4, <2>5, <2>6
<1>5. ASSUME t \in Client PROVE Fits(s)
  <2>1. s \in HandlerSections(t)
    BY <1>5, ConstantsAssumption DEF Sections
  <2> QED BY <1>2, <1>3, <1>5, <2>1, LinksAreLinks DEF HandlerSections, Map
<1>6. ASSUME t \in Link PROVE Fits(s)
  <2>1. s \in ReaderSections(t)
    BY <1>6, ConstantsAssumption DEF Sections
  <2>2. Fits(<<W("echo_tx_map"), W("echo_user_id_map")>>)
    BY MapRequests, MapRanks, FitsTwo DEF Map
  <2> QED BY <1>1, <1>2, <1>3, <1>4, <1>6, <2>1, <2>2 DEF ReaderSections, Map
<1>7. ASSUME NEW x \in ProbeSections
      PROVE  Fits(x) /\ OfLinks(x) /\ \A i \in 1..Len(x) : Rank(x[i].lock) > 1
  <2>1. CASE \E l \in Links : x = <<W("echo_tx_map"), Send(l)>>
    <3>1. PICK l \in Links : x = <<W("echo_tx_map"), Send(l)>>
      BY <2>1
    <3>2. Rank(W("echo_tx_map").lock) = 2 /\ Rank(Send(l).lock) = 5
      BY MapRequests, MapRanks, SocketRequests, LinksAreLinks DEF Map
    <3>3. Len(x) = 2 /\ x[1] = W("echo_tx_map") /\ x[2] = Send(l)
      BY <3>1
    <3>4. \A i \in 1..Len(x) : i = 1 \/ i = 2
      BY <3>3
    <3>5. \A i \in 1..Len(x) : Rank(x[i].lock) > 1
      BY <3>2, <3>3, <3>4
    <3> QED BY <1>4, <3>1, <3>5
  <2>2. CASE \E l \in Links : x = <<W("writers"), Send(l)>>
    BY <1>4, <2>2
  <2>3. CASE x \in {<<W("echo_tx_map")>>, <<W("echo_user_id_map")>>}
    <3>1. Rank(W("echo_tx_map").lock) = 2 /\ Rank(W("echo_user_id_map").lock) = 3
      BY MapRequests, MapRanks DEF Map
    <3> QED BY <1>2, <2>3, <3>1 DEF OfLinks, Map
  <2> QED BY <2>1, <2>2, <2>3 DEF ProbeSections
<1>8. ASSUME t \in Prober PROVE Fits(s) /\ OfLinks(s)
  <2>1. W("last_heartbeat_time") \in Request /\ Rank(W("last_heartbeat_time").lock) = 1
    BY MapRequests, MapRanks DEF Map
  <2>2. ASSUME NEW x \in ProbeSections
        PROVE  /\ Fits(<<W("last_heartbeat_time")>> \o x)
               /\ OfLinks(<<W("last_heartbeat_time")>> \o x)
    BY <1>7, <2>1, FitsLonger DEF Fits
  <2>3. ASSUME NEW x, x = <<>>
        PROVE  /\ Fits(<<W("last_heartbeat_time")>> \o x)
               /\ OfLinks(<<W("last_heartbeat_time")>> \o x)
    <3>1. /\ x \in Seq(Request) /\ Rising(x) /\ OfLinks(x)
          /\ \A i \in 1..Len(x) : Rank(x[i].lock) > 1
      BY <2>3 DEF Rising, OfLinks
    <3> QED BY <2>1, <3>1, FitsLonger
  <2>4. s \in ProbeSections \/ \E x \in ProbeSections \cup {<<>>} :
                                  s = <<W("last_heartbeat_time")>> \o x
    BY <1>8, ConstantsAssumption DEF Sections
  <2> QED BY <1>7, <2>2, <2>3, <2>4
<1> QED BY <1>5, <1>6, <1>8, ConstantsAssumption DEF Task

-----------------------------------------------------------------------------
Types ==
  /\ mode \in Mode
  /\ todo \in [Task -> Seq(Request)]
  /\ held \in [Task -> Seq(Request)]
  /\ queue \in [Lock -> Seq(Task)]

Queued == \A t \in Task, l \in Lock : Waits(t) /\ Wanted(t) = l <=> In(queue[l], t)

LEMMA TypeParts == TypeOK <=> Types /\ Queued
BY DEF TypeOK, Types, Queued, In

LEMMA TypePartsNext == TypeOK' <=> Types' /\ Queued'
BY DEF TypeOK, Types, Queued, In, Waits, Wanted

LEMMA InitEstablishes == Init => IInv
<1> SUFFICES ASSUME Init PROVE IInv
  OBVIOUS
<1>1. TypeOK
  BY DEF Init, TypeOK, Waits, Wanted
<1>2. \A l \in Lock : Once(queue[l])
  BY DEF Init, Once
<1>3. Ordered /\ Sided
  <2>1. \A t \in Task : todo[t] = <<>> /\ held[t] = <<>>
    BY DEF Init
  <2>2. \A i \in 1..Len(<<>>) : FALSE
    OBVIOUS
  <2>3. Prober \subseteq Task
    BY DEF Task
  <2> QED BY <2>1, <2>2, <2>3
      DEF Ordered, Sided, Rising, LinkSide, ClientSide, OfLinks, OfClients
<1> QED BY <1>1, <1>2, <1>3 DEF IInv

Joined(q, t, l, r) == q \in [Lock -> Seq(Task)] /\ r = [q EXCEPT ![l] = Append(@, t)]

(* A task joins a queue it is not in: who is queued, and once, stays known. *)
LEMMA Joining ==
  ASSUME NEW q, NEW t \in Task, NEW l \in Lock, NEW r, Joined(q, t, l, r),
         \A m \in Lock : Once(q[m]) /\ ~In(q[m], t)
  PROVE  /\ r \in [Lock -> Seq(Task)]
         /\ \A m \in Lock : Once(r[m])
         /\ \A m \in Lock, u \in Task :
              In(r[m], u) <=> In(q[m], u) \/ (m = l /\ u = t)
<1>0. q \in [Lock -> Seq(Task)] /\ r = [q EXCEPT ![l] = Append(@, t)]
  BY DEF Joined
<1>1. /\ Append(q[l], t) \in Seq(Task)
      /\ Once(Append(q[l], t))
      /\ \A x : In(Append(q[l], t), x) <=> In(q[l], x) \/ x = t
  BY <1>0, AppendMembers
<1>2. /\ r \in [Lock -> Seq(Task)] /\ r[l] = Append(q[l], t)
      /\ \A m \in Lock \ {l} : r[m] = q[m]
  BY <1>0, <1>1
<1>3. \A m \in Lock : Once(r[m])
  BY <1>1, <1>2
<1>4. \A m \in Lock, u \in Task : In(r[m], u) <=> In(q[m], u) \/ (m = l /\ u = t)
  BY <1>1, <1>2
<1> QED BY <1>2, <1>3, <1>4

LEMMA EnterStep ==
  ASSUME IInv, NEW t \in Task, Enter(t)
  PROVE  IInv'
<1>1. /\ Types /\ Queued /\ (\A l \in Lock : Once(queue[l])) /\ Ordered /\ Sided
  BY TypeParts DEF IInv
<1>2. /\ todo[t] = <<>> /\ held[t] = <<>>
  BY DEF Enter, Busy, Waits
<1>3. PICK s \in Sections(t) :
        /\ todo' = [todo EXCEPT ![t] = s]
        /\ queue' = [queue EXCEPT ![Head(s).lock] = Append(@, t)]
  BY DEF Enter
<1>4. UNCHANGED <<mode, held>>
  BY DEF Enter
<1>5. Fits(s) /\ (t \in Prober => OfLinks(s))
  BY SectionsFit
<1>6. /\ s \in Seq(Request) /\ s # <<>>
      /\ Head(s) \in Request /\ Head(s).lock \in Lock
  <2>1. s \in Seq(Request) /\ s # <<>>
    BY <1>5 DEF Fits
  <2>2. Head(s) \in Request
    BY <2>1, HeadTailProperties
  <2> QED BY <2>1, <2>2 DEF Request
<1>7. \A l \in Lock : ~In(queue[l], t)
  BY <1>1, <1>2 DEF Queued, Waits
<1>8. /\ queue' \in [Lock -> Seq(Task)]
      /\ \A m \in Lock : Once(queue'[m])
      /\ \A m \in Lock, u \in Task :
           In(queue'[m], u) <=> In(queue[m], u) \/ (m = Head(s).lock /\ u = t)
  <2>1. queue \in [Lock -> Seq(Task)]
    BY <1>1 DEF Types
  <2> DEFINE l == Head(s).lock
  <2>2. l \in Lock /\ Joined(queue, t, l, queue')
    BY <1>3, <1>6, <2>1 DEF Joined
  <2> HIDE DEF l
  <2>3. /\ queue' \in [Lock -> Seq(Task)]
        /\ \A m \in Lock : Once(queue'[m])
        /\ \A m \in Lock, u \in Task :
             In(queue'[m], u) <=> In(queue[m], u) \/ (m = l /\ u = t)
    BY <1>1, <1>7, <2>2, Joining
  <2> QED BY <2>3 DEF l
<1>9. /\ todo'[t] = s
      /\ \A u \in Task \ {t} : todo'[u] = todo[u]
      /\ \A u \in Task : held'[u] = held[u]
  BY <1>1, <1>3, <1>4 DEF Types
<1>10. Types'
  <2>1. mode' \in Mode /\ held' \in [Task -> Seq(Request)]
    BY <1>1, <1>4 DEF Types
  <2>2. todo' \in [Task -> Seq(Request)]
    BY <1>1, <1>3, <1>6 DEF Types
  <2> QED BY <1>8, <2>1, <2>2 DEF Types
<1>11. Queued'
  <2>1. \A u \in Task \ {t}, m \in Lock :
          In(queue'[m], u) <=> todo'[u] # <<>> /\ Head(todo'[u]).lock = m
    BY <1>1, <1>8, <1>9 DEF Queued, Waits, Wanted
  <2>2. \A m \in Lock : In(queue'[m], t) <=> todo'[t] # <<>> /\ Head(todo'[t]).lock = m
    BY <1>6, <1>7, <1>8, <1>9
  <2> QED BY <2>1, <2>2 DEF Queued, Waits, Wanted
<1>12. Ordered'
  <2>1. ASSUME NEW u \in Task \ {t}
        PROVE  /\ Rising(todo'[u])
               /\ \A i \in 1..Len(held'[u]), j \in 1..Len(todo'[u]) :
                    Rank(held'[u][i].lock) < Rank(todo'[u][j].lock)
    BY <1>1, <1>9 DEF Ordered
  <2>2. Rising(todo'[t]) /\ \A i \in 1..Len(held'[t]) : FALSE
    BY <1>2, <1>5, <1>9 DEF Fits
  <2> QED BY <2>1, <2>2 DEF Ordered, Rank
<1>13. Sided'
  <2>1. ASSUME NEW u \in Task \ {t}
        PROVE  /\ \/ OfLinks(todo'[u]) /\ OfLinks(held'[u])
                  \/ OfClients(todo'[u]) /\ OfClients(held'[u])
               /\ u \in Prober => OfLinks(todo'[u]) /\ OfLinks(held'[u])
    BY <1>1, <1>9 DEF Sided, LinkSide, ClientSide
  <2>2. OfLinks(held'[t]) /\ OfClients(held'[t])
    BY <1>2, <1>9 DEF OfLinks, OfClients
  <2>3. \A u \in Prober : u \in Task
    BY DEF Task
  <2>4. /\ \/ OfLinks(todo'[t]) /\ OfLinks(held'[t])
           \/ OfClients(todo'[t]) /\ OfClients(held'[t])
        /\ t \in Prober => OfLinks(todo'[t]) /\ OfLinks(held'[t])
    BY <1>5, <1>9, <2>2 DEF Fits
  <2> QED BY <2>1, <2>3, <2>4 DEF Sided, LinkSide, ClientSide
<1> QED BY <1>8, <1>10, <1>11, <1>12, <1>13, TypePartsNext DEF IInv, Once

LEMMA GrantStep ==
  ASSUME IInv, NEW t \in Task, Grant(t)
  PROVE  IInv'
<1> DEFINE r == Head(todo[t])
           rest == Tail(todo[t])
           l == Wanted(t)
           q == [queue EXCEPT ![l] = Tail(@)]
<1>1. /\ Types /\ Queued /\ (\A m \in Lock : Once(queue[m])) /\ Ordered /\ Sided
  BY TypeParts DEF IInv
<1>2. /\ todo[t] # <<>> /\ Head(queue[l]) = t
      /\ held' = [held EXCEPT ![t] = Append(@, r)]
      /\ todo' = [todo EXCEPT ![t] = rest]
      /\ queue' = Asks(t, rest, q)
      /\ mode' = mode
  BY DEF Grant, Waits
<1>3. /\ todo[t] \in Seq(Request) /\ held[t] \in Seq(Request)
      /\ r \in Request /\ r = todo[t][1] /\ rest \in Seq(Request)
      /\ Len(todo[t]) \in Nat \ {0} /\ Len(rest) = Len(todo[t]) - 1
      /\ \A i \in 1..Len(rest) : rest[i] = todo[t][i + 1]
  BY <1>1, <1>2, HeadTailProperties DEF Types
<1>4. l = r.lock /\ l \in Lock
  <2>1. r.lock \in Lock
    BY <1>3 DEF Request
  <2> QED BY <2>1 DEF Wanted
<1>5. /\ Append(held[t], r) \in Seq(Request)
      /\ Len(held[t]) \in Nat /\ Len(Append(held[t], r)) = Len(held[t]) + 1
      /\ \A i \in 1..Len(held[t]) : Append(held[t], r)[i] = held[t][i]
      /\ Append(held[t], r)[Len(held[t]) + 1] = r
  BY <1>3, AppendProperties
<1>6. /\ \A u \in Task \ {t} : todo'[u] = todo[u] /\ held'[u] = held[u]
      /\ todo'[t] = rest /\ held'[t] = Append(held[t], r)
  BY <1>1, <1>2 DEF Types
<1>7. In(queue[l], t) /\ queue[l] \in Seq(Task) /\ queue[l] # <<>>
  <2>1. In(queue[l], t)
    BY <1>1, <1>2, <1>4 DEF Queued, Waits
  <2>2. queue[l] \in Seq(Task)
    BY <1>1, <1>4 DEF Types
  <2> QED BY <2>1, <2>2 DEF In
<1>8. /\ q \in [Lock -> Seq(Task)] /\ \A m \in Lock : Once(q[m])
      /\ \A m \in Lock, u \in Task : In(q[m], u) <=> In(queue[m], u) /\ u # t
  <2>1. /\ Tail(queue[l]) \in Seq(Task)
        /\ Once(Tail(queue[l]))
        /\ \A x : In(Tail(queue[l]), x) <=> In(queue[l], x) /\ x # t
    BY <1>1, <1>2, <1>4, <1>7, TailMembers
  <2>2. \A m \in Lock \ {l} : ~In(queue[m], t)
    BY <1>1 DEF Queued
  <2>3. /\ q \in [Lock -> Seq(Task)] /\ q[l] = Tail(queue[l])
        /\ \A m \in Lock \ {l} : q[m] = queue[m]
    BY <1>1, <1>4, <2>1 DEF Types
  <2> HIDE DEF q
  <2> QED BY <1>1, <2>1, <2>2, <2>3
<1> HIDE DEF q, r, rest, l
<1>9. /\ queue' \in [Lock -> Seq(Task)] /\ \A m \in Lock : Once(queue'[m])
      /\ \A m \in Lock, u \in Task \ {t} : In(queue'[m], u) <=> In(queue[m], u)
      /\ \A m \in Lock : In(queue'[m], t) <=> rest # <<>> /\ Head(rest).lock = m
  <2>1. CASE rest = <<>>
    <3>1. queue' = q
      BY <1>2, <2>1 DEF Asks
    <3> QED BY <1>8, <2>1, <3>1
  <2>2. CASE rest # <<>>
    <3> DEFINE n == Head(rest).lock
    <3>1. n \in Lock
      <4>1. Head(rest) \in Request
        BY <1>3, <2>2, HeadTailProperties
      <4> QED BY <4>1 DEF Request
    <3>2. Joined(q, t, n, queue')
      BY <1>2, <1>8, <2>2 DEF Asks, Joined
    <3>3. \A m \in Lock : Once(q[m]) /\ ~In(q[m], t)
      BY <1>8
    <3> HIDE DEF n
    <3>4. /\ queue' \in [Lock -> Seq(Task)]
          /\ \A m \in Lock : Once(queue'[m])
          /\ \A m \in Lock, u \in Task :
               In(queue'[m], u) <=> In(q[m], u) \/ (m = n /\ u = t)
      BY <3>1, <3>2, <3>3, Joining
    <3> QED BY <1>8, <2>2, <3>4 DEF n
  <2> QED BY <2>1, <2>2
<1>10. Types'
  BY <1>1, <1>2, <1>3, <1>5, <1>9 DEF Types
<1>11. Queued'
  <2>1. \A u \in Task \ {t}, m \in Lock :
          In(queue'[m], u) <=> todo'[u] # <<>> /\ Head(todo'[u]).lock = m
    BY <1>1, <1>6, <1>9 DEF Queued, Waits, Wanted
  <2>2. \A m \in Lock : In(queue'[m], t) <=> todo'[t] # <<>> /\ Head(todo'[t]).lock = m
    BY <1>6, <1>9
  <2> QED BY <2>1, <2>2 DEF Queued, Waits, Wanted
<1>12. /\ \A i \in 1..Len(rest) : i + 1 \in 1..Len(todo[t]) /\ i + 1 > 1
       /\ 1 \in 1..Len(todo[t])
       /\ \A i \in 1..Len(held'[t]) :
            \/ i \in 1..Len(held[t]) /\ held'[t][i] = held[t][i]
            \/ held'[t][i] = todo[t][1]
  BY <1>3, <1>5, <1>6
<1>13. Ordered'
  <2>1. ASSUME NEW u \in Task \ {t}
        PROVE  /\ Rising(todo'[u])
               /\ \A i \in 1..Len(held'[u]), j \in 1..Len(todo'[u]) :
                    Rank(held'[u][i].lock) < Rank(todo'[u][j].lock)
    BY <1>1, <1>6 DEF Ordered
  <2>2. /\ Rising(todo[t])
        /\ \A i \in 1..Len(held[t]), j \in 1..Len(todo[t]) :
             Rank(held[t][i].lock) < Rank(todo[t][j].lock)
    BY <1>1 DEF Ordered
  <2>3. Rising(rest)
    <3>1. ASSUME NEW i \in 1..Len(rest), NEW j \in 1..Len(rest), i < j
          PROVE  Rank(rest[i].lock) < Rank(rest[j].lock)
      <4>1. /\ i + 1 \in 1..Len(todo[t]) /\ j + 1 \in 1..Len(todo[t]) /\ i + 1 < j + 1
            /\ rest[i] = todo[t][i + 1] /\ rest[j] = todo[t][j + 1]
        BY <1>3, <1>12, <3>1
      <4> QED BY <2>2, <4>1 DEF Rising
    <3> QED BY <3>1 DEF Rising
  <2>4. \A i \in 1..Len(held'[t]), j \in 1..Len(todo'[t]) :
           Rank(held'[t][i].lock) < Rank(todo'[t][j].lock)
    <3>1. ASSUME NEW i \in 1..Len(held'[t]), NEW j \in 1..Len(rest)
          PROVE  Rank(held'[t][i].lock) < Rank(rest[j].lock)
      <4>1. j + 1 \in 1..Len(todo[t]) /\ 1 < j + 1 /\ rest[j] = todo[t][j + 1]
        BY <1>3, <1>12
      <4>2. Rank(todo[t][1].lock) < Rank(todo[t][j + 1].lock)
        BY <1>12, <2>2, <4>1 DEF Rising
      <4> QED BY <1>12, <2>2, <4>1, <4>2
    <3> QED BY <1>6, <3>1
  <2>5. Rising(todo'[t])
    BY <1>6, <2>3
  <2> QED BY <2>1, <2>4, <2>5 DEF Ordered, Rank
<1>14. Sided'
  <2>1. ASSUME NEW u \in Task \ {t}
        PROVE  /\ \/ OfLinks(todo'[u]) /\ OfLinks(held'[u])
                  \/ OfClients(todo'[u]) /\ OfClients(held'[u])
               /\ u \in Prober => OfLinks(todo'[u]) /\ OfLinks(held'[u])
    BY <1>1, <1>6 DEF Sided, LinkSide, ClientSide
  <2>2. LinkSide(t) => OfLinks(todo'[t]) /\ OfLinks(held'[t])
    BY <1>3, <1>6, <1>12 DEF LinkSide, OfLinks
  <2>3. ClientSide(t) => OfClients(todo'[t]) /\ OfClients(held'[t])
    BY <1>3, <1>6, <1>12 DEF ClientSide, OfClients
  <2>4. /\ \/ OfLinks(todo'[t]) /\ OfLinks(held'[t])
           \/ OfClients(todo'[t]) /\ OfClients(held'[t])
        /\ t \in Prober => OfLinks(todo'[t]) /\ OfLinks(held'[t])
    BY <1>1, <2>2, <2>3 DEF Sided
  <2>5. \A u \in Prober : u \in Task
    BY DEF Task
  <2> QED BY <2>1, <2>4, <2>5 DEF Sided, LinkSide, ClientSide
<1> QED BY <1>9, <1>10, <1>11, <1>13, <1>14, TypePartsNext DEF IInv, Once

LEMMA ReleaseStep ==
  ASSUME IInv, NEW t \in Task, Release(t)
  PROVE  IInv'
<1>1. /\ Types /\ Queued /\ (\A m \in Lock : Once(queue[m])) /\ Ordered /\ Sided
  BY TypeParts DEF IInv
<1>2. /\ held[t] # <<>>
      /\ held' = [held EXCEPT ![t] = SubSeq(@, 1, Len(@) - 1)]
      /\ mode' = mode /\ todo' = todo /\ queue' = queue
  BY DEF Release
<1> DEFINE z == SubSeq(held[t], 1, Len(held[t]) - 1)
<1>3. held[t] \in Seq(Request) /\ Len(held[t]) \in Nat \ {0}
  BY <1>1, <1>2 DEF Types
<1>4. /\ z \in Seq(Request)
      /\ \A i \in 1..Len(z) : i \in 1..Len(held[t]) /\ z[i] = held[t][i]
  <2>1. \A i \in 1..Len(held[t]) - 1 : held[t][i] \in Request
    BY <1>3
  <2>2. Len(held[t]) - 1 \in Int
    BY <1>3
  <2> QED BY <1>3, <2>1, <2>2, SubSeqProperties
<1>5. held'[t] = z /\ \A u \in Task \ {t} : held'[u] = held[u]
  BY <1>1, <1>2 DEF Types
<1> HIDE DEF z
<1>6. \A u \in Task : \A i \in 1..Len(held'[u]) :
        i \in 1..Len(held[u]) /\ held'[u][i] = held[u][i]
  BY <1>4, <1>5
<1>7. Types'
  <2>1. held' \in [Task -> Seq(Request)]
    BY <1>1, <1>2, <1>4 DEF Types, z
  <2> QED BY <1>1, <1>2, <2>1 DEF Types
<1>8. Queued'
  BY <1>1, <1>2 DEF Queued, Waits, Wanted
<1>9. Ordered'
  <2>1. \A u \in Task :
          /\ Rising(todo'[u])
          /\ \A i \in 1..Len(held'[u]), j \in 1..Len(todo'[u]) :
               Rank(held'[u][i].lock) < Rank(todo'[u][j].lock)
    BY <1>1, <1>2, <1>6 DEF Ordered
  <2> QED BY <2>1 DEF Ordered, Rank
<1>10. Sided'
  <2>1. ASSUME NEW u \in Task
        PROVE  /\ \/ OfLinks(todo'[u]) /\ OfLinks(held'[u])
                  \/ OfClients(todo'[u]) /\ OfClients(held'[u])
               /\ u \in Prober => OfLinks(todo'[u]) /\ OfLinks(held'[u])
    <3>1. OfLinks(held[u]) => OfLinks(held'[u])
      BY <1>6 DEF OfLinks
    <3>2. OfClients(held[u]) => OfClients(held'[u])
      BY <1>6 DEF OfClients
    <3> QED BY <1>1, <1>2, <3>1, <3>2 DEF Sided, LinkSide, ClientSide
  <2>2. \A u \in Prober : u \in Task
    BY DEF Task
  <2> QED BY <2>1, <2>2 DEF Sided, LinkSide, ClientSide
<1> QED BY <1>1, <1>2, <1>7, <1>8, <1>9, <1>10, TypePartsNext DEF IInv, Once

LEMMA Step == IInv /\ [Next]_vars => IInv'
<1> SUFFICES ASSUME IInv, [Next]_vars PROVE IInv'
  OBVIOUS
<1>1. ASSUME NEW t \in Task, Enter(t) PROVE IInv'
  BY <1>1, EnterStep
<1>2. ASSUME NEW t \in Task, Grant(t) PROVE IInv'
  BY <1>2, GrantStep
<1>3. ASSUME NEW t \in Task, Drop(t) PROVE IInv'
  BY <1>3, ReleaseStep DEF Drop
<1>4. ASSUME NEW t \in Task, Written(t) PROVE IInv'
  BY <1>4, ReleaseStep DEF Written
<1>5. CASE UNCHANGED vars
  <2>1. mode' = mode /\ todo' = todo /\ held' = held /\ queue' = queue
    BY <1>5 DEF vars
  <2>2. TypeOK'
    BY <2>1 DEF IInv, TypeOK, Waits, Wanted
  <2>3. (\A l \in Lock : Once(queue[l]))'
    BY <2>1 DEF IInv, Once
  <2>4. Ordered'
    BY <2>1 DEF IInv, Ordered, Rising, Rank
  <2>5. Sided'
    BY <2>1 DEF IInv, Sided, LinkSide, ClientSide
  <2> QED BY <2>2, <2>3, <2>4, <2>5 DEF IInv
<1> QED BY <1>1, <1>2, <1>3, <1>4, <1>5 DEF Next

LEMMA Invariant == Spec => []IInv
BY InitEstablishes, Step, PTL DEF Spec

(* The queue of a lock holds exactly the tasks that wait for it, and every  *)
(* variable keeps its type, for any number of clients, links and probers.   *)
THEOREM TypeCorrect == Spec => []TypeOK
<1>1. IInv => TypeOK
  BY DEF IInv
<1> QED BY <1>1, Invariant, PTL


-----------------------------------------------------------------------------
LEMMA Least ==
  ASSUME NEW T, T \subseteq Nat, T # {}
  PROVE  \E x \in T : \A y \in T : x <= y
<1>1. \E x \in T : \A y \in T : <<y, x>> \notin OpToRel(<, Nat)
  BY NatLessThanWellFounded, WFMin
<1>2. \A x, y \in Nat : <<y, x>> \notin OpToRel(<, Nat) => x <= y
  BY DEF OpToRel
<1> QED BY <1>1, <1>2

(* Of a set of waiting tasks, take those that want a lock of the highest    *)
(* rank, and of these the first in the queue of one such lock: the holders  *)
(* of that lock want locks of higher ranks still, and are not in the set.   *)
LEMMA OrderExcludesCircles == IInv => NoCircularWait
<1> SUFFICES ASSUME IInv, NEW S \in SUBSET {t \in Task : Waits(t)}, S # {}
             PROVE  \E t \in S : Blockers(t) \cap S = {}
  BY DEF NoCircularWait
<1>1. Types /\ Queued /\ Ordered
  BY TypeParts DEF IInv
<1>2. \A t \in S : /\ t \in Task /\ Waits(t) /\ todo[t] \in Seq(Request)
                   /\ Len(todo[t]) \in Nat \ {0} /\ Wanted(t) = todo[t][1].lock
                   /\ Wanted(t) \in Lock /\ Rank(Wanted(t)) \in 1..7
  <2> TAKE t \in S
  <2>1. todo[t] \in Seq(Request) /\ todo[t] # <<>> /\ t \in Task
    BY <1>1 DEF Types, Waits
  <2>2. /\ Len(todo[t]) \in Nat \ {0} /\ Head(todo[t]) = todo[t][1]
        /\ Head(todo[t]) \in Request
    BY <2>1, HeadTailProperties
  <2>3. Wanted(t) \in Lock
    BY <2>2 DEF Wanted, Request
  <2> QED BY <2>1, <2>2, <2>3, RankType DEF Wanted, Waits
<1>3. PICK h \in S : \A u \in S : Rank(Wanted(u)) <= Rank(Wanted(h))
  <2> DEFINE T == {7 - Rank(Wanted(t)) : t \in S}
  <2>1. T \subseteq Nat /\ T # {}
    <3>1. \A t \in S : 7 - Rank(Wanted(t)) \in Nat
      BY <1>2
    <3>2. PICK t \in S : TRUE
      OBVIOUS
    <3>3. 7 - Rank(Wanted(t)) \in T
      BY <3>2
    <3> QED BY <3>1, <3>3
  <2>2. PICK x \in T : \A y \in T : x <= y
    <3> HIDE DEF T
    <3> QED BY <2>1, Least
  <2>3. PICK h \in S : x = 7 - Rank(Wanted(h))
    BY <2>2
  <2>4. ASSUME NEW u \in S PROVE Rank(Wanted(u)) <= Rank(Wanted(h))
    <3>1. x <= 7 - Rank(Wanted(u))
      BY <2>2
    <3> QED BY <1>2, <2>3, <3>1
  <2> QED BY <2>4
<1> DEFINE l == Wanted(h)
           q == queue[l]
           I == {i \in 1..Len(q) : q[i] \in S}
<1>4. l \in Lock /\ q \in Seq(Task) /\ Len(q) \in Nat
  BY <1>1, <1>2 DEF Types
<1>5. PICK i \in I : \A j \in I : i <= j
  <2>1. In(q, h)
    BY <1>1, <1>2 DEF Queued
  <2>2. I \subseteq Nat /\ I # {}
    BY <2>1 DEF In
  <2> HIDE DEF I
  <2> QED BY <2>2, Least
<1>6. q[i] \in S /\ i \in 1..Len(q) /\ Wanted(q[i]) = l
  <2>1. q[i] \in S /\ i \in 1..Len(q)
    OBVIOUS
  <2>2. In(q, q[i])
    BY <2>1 DEF In
  <2> QED BY <1>1, <1>2, <1>4, <2>1, <2>2 DEF Queued
<1>7. ASSUME NEW u \in S, Holds(u, l) PROVE FALSE
  <2>1. PICK j \in 1..Len(held[u]) : held[u][j].lock = l
    BY <1>7 DEF Holds
  <2>2. 1 \in 1..Len(todo[u])
    BY <1>2
  <2>3. Rank(l) < Rank(Wanted(u))
    BY <1>1, <1>2, <2>1, <2>2 DEF Ordered
  <2> QED BY <1>2, <1>3, <2>3
<1>8. ASSUME NEW u \in S, u \in AheadOf(q[i], l) PROVE FALSE
  <2>1. PICK k \in 1..Len(q) : u = q[k] /\ \E j \in 1..Len(q) : k < j /\ q[j] = q[i]
    BY <1>8 DEF AheadOf
  <2>2. k < i
    BY <1>4, <1>6, <2>1 DEF IInv, Once
  <2>3. k \in I
    BY <2>1
  <2> QED BY <1>4, <1>5, <1>6, <2>2, <2>3
<1>9. Blockers(q[i]) \cap S = {}
  BY <1>6, <1>7, <1>8 DEF Blockers
<1> QED BY <1>6, <1>9

(* No circle of tasks wait for one another, whatever the number of clients, *)
(* links and probers (sdk.rs:233-252, single.rs:367-396, multi.rs:290-316). *)
THEOREM NoDeadlock == Spec => []NoCircularWait
BY Invariant, OrderExcludesCircles, PTL

(* Those that want or hold locks of one side alone wait for their like, and *)
(* a task of the links' side writes to no client, nor the other way around. *)
LEMMA SidesContainStalls == IInv => StallsAreContained
<1> SUFFICES ASSUME IInv PROVE StallsAreContained
  OBVIOUS
<1>1. Types /\ Queued /\ Sided
  BY TypeParts DEF IInv
<1>2. \A t \in Task : Waits(t) => /\ 1 \in 1..Len(todo[t]) /\ Wanted(t) = todo[t][1].lock
                                  /\ Wanted(t) \in Lock
  <2> TAKE t \in Task
  <2> HAVE Waits(t)
  <2>1. todo[t] \in Seq(Request) /\ todo[t] # <<>>
    BY <1>1 DEF Types, Waits
  <2>2. /\ 1 \in 1..Len(todo[t]) /\ Head(todo[t]) = todo[t][1]
        /\ Head(todo[t]) \in Request
    BY <2>1, HeadTailProperties
  <2> QED BY <2>2 DEF Wanted, Request
<1>3. ASSUME NEW t \in Task, Waits(t), NEW u \in Blockers(t)
      PROVE  /\ u \in Task
             /\ \/ \E i \in 1..Len(held[u]) : held[u][i].lock = Wanted(t)
                \/ 1 \in 1..Len(todo[u]) /\ todo[u][1].lock = Wanted(t)
  <2>1. CASE u \in Task /\ Holds(u, Wanted(t))
    BY <2>1 DEF Holds
  <2>2. CASE u \in AheadOf(t, Wanted(t))
    <3>1. In(queue[Wanted(t)], u) /\ queue[Wanted(t)] \in Seq(Task)
      BY <1>1, <1>2, <1>3, <2>2 DEF AheadOf, In, Types
    <3>2. u \in Task
      BY <3>1 DEF In
    <3>3. Waits(u) /\ Wanted(u) = Wanted(t)
      BY <1>1, <1>2, <1>3, <3>1, <3>2 DEF Queued
    <3> QED BY <1>2, <3>2, <3>3
  <2> QED BY <1>3, <2>1, <2>2 DEF Blockers
<1>4. \A l \in Lock : Rank(l) \in 1..7
  BY RankType
<1>5. ASSUME NEW p \in Prober, NEW c \in Client PROVE ~Reaches(p, c)
  <2> DEFINE S == {t \in Task : LinkSide(t)}
  <2>1. p \in S
    BY <1>1 DEF Sided, Task
  <2>2. ASSUME NEW t \in S, NEW u \in Blockers(t) PROVE u \in S
    <3>1. Waits(t)
      BY <2>2 DEF Blockers
    <3>2. Wanted(t) \in Lock /\ Rank(Wanted(t)) <= 5
      BY <1>2, <3>1 DEF LinkSide, OfLinks
    <3>3. u \in Task /\ ~ClientSide(u)
      BY <1>3, <1>4, <3>1, <3>2 DEF ClientSide, OfClients
    <3> QED BY <1>1, <3>3 DEF Sided
  <2>3. ASSUME NEW t \in S, Holds(t, Socket(c)) PROVE FALSE
    <3>1. Rank(Socket(c)) = 7
      BY ConstantsAssumption DEF Rank, Socket
    <3> QED BY <2>3, <3>1 DEF Holds, LinkSide, OfLinks
  <2> HIDE DEF S
  <2>4. S \in SUBSET Task /\ \A t \in S : Blockers(t) \subseteq S
    BY <2>2 DEF S
  <2> QED BY <2>1, <2>3, <2>4 DEF Reaches, Ahead
<1>6. ASSUME NEW c \in Client, NEW l \in Link,
             Waits(c), Wanted(c) = Shared("writers_map")
      PROVE  ~Reaches(c, l)
  <2> DEFINE S == {t \in Task : ClientSide(t)}
  <2>1. c \in S
    <3>1. c \in Task
      BY DEF Task
    <3>2. Rank(Wanted(c)) = 6
      BY <1>6, MapRanks
    <3>3. ~LinkSide(c)
      BY <1>2, <1>6, <3>1, <3>2 DEF LinkSide, OfLinks
    <3> QED BY <1>1, <3>1, <3>3 DEF Sided
  <2>2. ASSUME NEW t \in S, NEW u \in Blockers(t) PROVE u \in S
    <3>1. Waits(t)
      BY <2>2 DEF Blockers
    <3>2. Wanted(t) \in Lock /\ Rank(Wanted(t)) > 5
      BY <1>2, <3>1 DEF ClientSide, OfClients
    <3>3. u \in Task /\ ~LinkSide(u)
      BY <1>3, <1>4, <3>1, <3>2 DEF LinkSide, OfLinks
    <3> QED BY <1>1, <3>3 DEF Sided
  <2>3. ASSUME NEW t \in S, Holds(t, Socket(l)) PROVE FALSE
    <3>1. Rank(Socket(l)) = 5
      BY DEF Rank, Socket
    <3> QED BY <2>3, <3>1 DEF Holds, ClientSide, OfClients
  <2> HIDE DEF S
  <2>4. S \in SUBSET Task /\ \A t \in S : Blockers(t) \subseteq S
    BY <2>2 DEF S
  <2> QED BY <2>1, <2>3, <2>4 DEF Reaches, Ahead
<1> QED BY <1>5, <1>6 DEF StallsAreContained

(* A peer that does not read stops the tasks of its own side at most: never *)
(* a probe, if it is a client, and never the coming and going of clients, if *)
(* it is a link's (single.rs:281-286, 367; multi.rs:290-296; sdk.rs:112-168). *)
THEOREM StallsStayContained == Spec => []StallsAreContained
BY Invariant, SidesContainStalls, PTL

=============================================================================
