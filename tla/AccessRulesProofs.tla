------------------------- MODULE AccessRulesProofs -------------------------
(***************************************************************************)
(* Proofs about AccessRules, for any workers, groups, users and tables.     *)
(***************************************************************************)
EXTENDS AccessRules, SequenceTheorems, TLAPS

(* The commands a worker may be executing at each point, the lists it has   *)
(* still to reload there, that only a group list takes more queries, and    *)
(* that a read is torn only while it lasts.                                 *)
AtWork(w) ==
  /\ pc[w] \in {"find", "save"} => cmd[w] \in Command
                                   /\ cmd[w].kind \in {"create_group", "create_user"}
  /\ pc[w] = "delete" => cmd[w] \in Command
                         /\ cmd[w].kind \in {"delete_group", "delete_user"}
  /\ pc[w] \in {"fetch", "fill"} => todo[w] # <<>>
  /\ pc[w] = "fill" /\ ~IsGroupList(Head(todo[w])) => left[w] = {}
  /\ w \in torn => pc[w] = "fill"

Typed == TypeOK /\ \A w \in Worker : AtWork(w)

-----------------------------------------------------------------------------
LEMMA NewRuleTyped ==
  ASSUME NEW c \in Command, c.kind \in {"create_group", "create_user"}
  PROVE  NewRule(c) \in Rule
BY DEF Command, NewRule, Rule, ItemType

LEMMA ReloadTypesTyped ==
  ASSUME NEW c \in Command
  PROVE  ReloadTypes(c) \in Seq(ReloadType) /\ ReloadTypes(c) # <<>>
<1>1. \A a, b \in ReloadType : /\ <<a>> \in Seq(ReloadType) /\ <<a>> # <<>>
                               /\ <<a, b>> \in Seq(ReloadType) /\ <<a, b>> # <<>>
  OBVIOUS
<1>2. /\ "WhileGroup" \in ReloadType /\ "BlackGroup" \in ReloadType
      /\ "WhileUser" \in ReloadType /\ "BlackUser" \in ReloadType
  BY DEF ReloadType
<1> QED
  BY <1>1, <1>2, ZenonT(30) DEF ReloadTypes

LEMMA TailTyped ==
  ASSUME NEW s \in Seq(ReloadType), s # <<>>
  PROVE  /\ Head(s) \in ReloadType
         /\ Tail(s) \in Seq(ReloadType)
         /\ Len(s) # 1 => Tail(s) # <<>>
<1>1. Head(s) \in ReloadType /\ Tail(s) \in Seq(ReloadType)
  OBVIOUS
<1>2. Len(s) \in Nat /\ Len(s) > 0 /\ Len(Tail(s)) = Len(s) - 1
  OBVIOUS
<1>3. Len(s) # 1 => Len(Tail(s)) # 0
  BY <1>2
<1>4. Len(<<>>) = 0
  BY EmptySeq
<1>5. Len(s) # 1 => Tail(s) # <<>>
  BY <1>3, <1>4, Zenon
<1> QED
  BY <1>1, <1>5

LEMMA QueriesTyped ==
  ASSUME NEW rs \in SUBSET Rule, NEW item \in ItemType
  PROVE  /\ ListedGroups(rs, item) \in SUBSET GroupId
         /\ \A g \in GroupId \cup {None} : ListedUsers(rs, item, g) \in SUBSET UserId
BY DEF ListedGroups, ListedUsers, Rule, ItemType

LEMMA ExcludedTyped ==
  ASSUME NEW rs \in SUBSET Rule, NEW t \in ReloadType, NEW id \in GroupId
  PROVE  Excluded(rs, t, id) \in GroupInfo
<1>1. Opposite[ItemOf[t]] \in ItemType
  BY DEF ReloadType, ItemOf, Opposite, ItemType
<1> QED
  BY <1>1, QueriesTyped DEF Excluded, GroupInfo

LEMMA TypedInit == Init => Typed
<1> SUFFICES ASSUME Init PROVE Typed
  OBVIOUS
<1>1. AllLists \in Seq(ReloadType) /\ AllLists # <<>>
  BY DEF AllLists, ReloadType
<1>2. Empty \in Lists
  BY DEF Empty, Lists, ReloadType
<1>3. TypeOK
  BY <1>1, <1>2, ConstantsAssumption DEF Init, TypeOK, AllLists, IsGroupList
<1>4. ASSUME NEW w \in Worker PROVE AtWork(w)
  BY <1>1 DEF Init, AtWork
<1> QED
  BY <1>3, <1>4 DEF Typed

(* Reload(w) leads to a typed place.                                        *)
LEMMA ReloadTyped ==
  ASSUME Typed, NEW w \in Worker, Reload(w), cmd[w] \in Command,
         pc[w] \in {"find", "save", "delete"},
         rules' \in SUBSET Rule, TearReads,
         UNCHANGED <<lists, cmd, left, got, before, suspect>>
  PROVE  Typed'
<1>1. ReloadTypes(cmd[w]) \in Seq(ReloadType) /\ ReloadTypes(cmd[w]) # <<>>
  BY ReloadTypesTyped
<1>2. TypeOK'
  BY <1>1 DEF Typed, TypeOK, Reload, Goto, TearReads
<1>3. ASSUME NEW v \in Worker PROVE AtWork(v)'
  BY <1>1 DEF Typed, TypeOK, AtWork, Reload, Goto, TearReads
<1> QED
  BY <1>2, <1>3 DEF Typed

LEMMA TypedNext == Typed /\ [Next]_vars => Typed'
<1> SUFFICES ASSUME Typed, [Next]_vars PROVE Typed'
  OBVIOUS
<1>1. CASE Restart
  <2>1. AllLists \in Seq(ReloadType) /\ AllLists # <<>>
    BY DEF AllLists, ReloadType
  <2>2. Empty \in Lists
    BY DEF Empty, Lists, ReloadType
  <2>3. TypeOK'
    BY <1>1, <2>1, <2>2 DEF Restart, Typed, TypeOK
  <2>4. ASSUME NEW w \in Worker PROVE AtWork(w)'
    BY <1>1, <2>1 DEF Restart, AtWork
  <2> QED
    BY <2>3, <2>4 DEF Typed
<1>2. ASSUME NEW w \in Worker, Start(w) PROVE Typed'
  <2>1. PICK c \in Given :
          /\ cmd' = [cmd EXCEPT ![w] = c]
          /\ Goto(w, IF c.kind \in {"create_group", "create_user"} THEN "find"
                     ELSE "delete")
    BY <1>2 DEF Start
  <2>2. /\ before' \in (SUBSET Rule) \cup {None}
        /\ pc[w] = "idle" /\ UNCHANGED <<rules, lists, todo, left, got, suspect, torn>>
    BY <1>2 DEF Start, Typed, TypeOK
  <2>3. TypeOK'
    BY <2>1, <2>2 DEF Typed, TypeOK, Goto
  <2>4. ASSUME NEW v \in Worker PROVE AtWork(v)'
    BY <2>1, <2>2, ConstantsAssumption DEF Typed, TypeOK, AtWork, Goto, Command
  <2> QED
    BY <2>3, <2>4 DEF Typed
<1>3. ASSUME NEW w \in Worker, Find(w) PROVE Typed'
  <2>1. CASE Reload(w)
    BY <1>3, <2>1, ReloadTyped DEF Find, Typed, TypeOK, AtWork, TearReads
  <2>2. CASE Goto(w, "save") /\ UNCHANGED todo
    <3>1. TypeOK'
      BY <1>3, <2>2 DEF Find, Typed, TypeOK, Goto
    <3>2. ASSUME NEW v \in Worker PROVE AtWork(v)'
      BY <1>3, <2>2 DEF Find, Typed, TypeOK, AtWork, Goto
    <3> QED
      BY <3>1, <3>2 DEF Typed
  <2> QED
    BY <1>3, <2>1, <2>2 DEF Find
<1>4. ASSUME NEW w \in Worker, Save(w) PROVE Typed'
  <2>1. rules' \in SUBSET Rule
    BY <1>4, NewRuleTyped DEF Save, Typed, TypeOK, AtWork
  <2> QED
    BY <1>4, <2>1, ReloadTyped DEF Save, Typed, AtWork
<1>5. ASSUME NEW w \in Worker, Delete(w) PROVE Typed'
  <2>1. rules' \in SUBSET Rule
    BY <1>5 DEF Delete, Typed, TypeOK
  <2> QED
    BY <1>5, <2>1, ReloadTyped DEF Delete, Typed, AtWork
<1>6. ASSUME NEW w \in Worker, CommandFails(w) PROVE Typed'
  BY <1>6, ReloadTyped DEF CommandFails, Typed, TypeOK, AtWork, TearReads
<1>7. ASSUME NEW w \in Worker, Fetch(w) PROVE Typed'
  <2> DEFINE t == Head(todo[w])
  <2>1. t \in ReloadType /\ ItemOf[t] \in ItemType
    BY <1>7 DEF Fetch, Typed, TypeOK, AtWork, ReloadType, ItemOf, ItemType
  <2>2. ListedGroups(rules, ItemOf[t]) \in SUBSET GroupId
    BY <2>1, QueriesTyped DEF Typed, TypeOK
  <2>3. ~IsGroupList(t) => Loaded(rules, t) \in SUBSET UserId
    BY <2>1, QueriesTyped DEF Typed, TypeOK, Loaded
  <2>4. TypeOK'
    BY <1>7, <2>1, <2>2, <2>3 DEF Fetch, Typed, TypeOK, Goto
  <2>5. ASSUME NEW v \in Worker PROVE AtWork(v)'
    BY <1>7 DEF Fetch, Typed, TypeOK, AtWork, Goto
  <2> QED
    BY <2>4, <2>5 DEF Typed
<1>8. ASSUME NEW w \in Worker, Fill(w) PROVE Typed'
  <2> DEFINE t == Head(todo[w])
  <2>1. t \in ReloadType
    BY <1>8 DEF Fill, Typed, TypeOK, AtWork
  <2>2. PICK id \in left[w] :
          /\ left' = [left EXCEPT ![w] = @ \ {id}]
          /\ got' = [got EXCEPT ![w] = @ \cup {Excluded(rules, t, id)}]
    BY <1>8 DEF Fill
  <2>3. Excluded(rules, t, id) \in GroupInfo
    BY <2>1, <2>2, ExcludedTyped DEF Typed, TypeOK
  <2>4. IsGroupList(t) /\ got[w] \in SUBSET GroupInfo
    BY <1>8, <2>2 DEF Fill, Typed, TypeOK, AtWork
  <2>5. ASSUME NEW v \in Worker
        PROVE  got'[v] \in IF pc'[v] = "fill" /\ ~IsGroupList(Head(todo'[v]))
                           THEN SUBSET UserId ELSE SUBSET GroupInfo
    <3>1. CASE v = w
      BY <1>8, <2>2, <2>3, <2>4, <3>1 DEF Fill, Typed, TypeOK
    <3>2. CASE v # w
      BY <1>8, <2>2, <3>2 DEF Fill, Typed, TypeOK
    <3> QED
      BY <3>1, <3>2
  <2>6. TypeOK'
    BY <1>8, <2>2, <2>5 DEF Fill, Typed, TypeOK
  <2>7. ASSUME NEW v \in Worker PROVE AtWork(v)'
    BY <1>8, <2>2, <2>4 DEF Fill, Typed, TypeOK, AtWork
  <2> QED
    BY <2>6, <2>7 DEF Typed
<1>9. ASSUME NEW w \in Worker, Publish(w) PROVE Typed'
  <2> DEFINE t == Head(todo[w])
  <2>1. /\ t \in ReloadType
        /\ todo[w] # <<>> /\ Tail(todo[w]) \in Seq(ReloadType)
        /\ Len(todo[w]) # 1 => Tail(todo[w]) # <<>>
    <3>1. todo[w] \in Seq(ReloadType) /\ todo[w] # <<>>
      BY <1>9 DEF Publish, Typed, TypeOK, AtWork
    <3> QED
      BY <3>1, TailTyped
  <2>2. lists' \in Lists
    <3>1. got[w] \in IF IsGroupList(t) THEN SUBSET GroupInfo ELSE SUBSET UserId
      BY <1>9 DEF Publish, Typed, TypeOK
    <3>2. lists \in Lists /\ lists' = [lists EXCEPT ![t] = got[w]]
      BY <1>9 DEF Publish, Typed, TypeOK
    <3>3. CASE t = "WhileGroup"
      BY <3>1, <3>2, <3>3 DEF Lists, IsGroupList
    <3>4. CASE t = "BlackGroup"
      BY <3>1, <3>2, <3>4 DEF Lists, IsGroupList
    <3>5. CASE t = "WhileUser"
      BY <3>1, <3>2, <3>5 DEF Lists, IsGroupList
    <3>6. CASE t = "BlackUser"
      BY <3>1, <3>2, <3>6 DEF Lists, IsGroupList
    <3> QED
      BY <2>1, <3>3, <3>4, <3>5, <3>6 DEF ReloadType
  <2>3. got' = [got EXCEPT ![w] = {}] /\ pc' \in [Worker -> {"idle", "find", "save", "delete", "fetch", "fill"}]
    BY <1>9 DEF Publish, Goto, Typed, TypeOK
  <2>4. ASSUME NEW v \in Worker
        PROVE  got'[v] \in IF pc'[v] = "fill" /\ ~IsGroupList(Head(todo'[v]))
                           THEN SUBSET UserId ELSE SUBSET GroupInfo
    <3>1. CASE v = w
      BY <2>3, <3>1 DEF Typed, TypeOK
    <3>2. CASE v # w
      <4>1. got'[v] = got[v] /\ pc'[v] = pc[v] /\ todo'[v] = todo[v]
        BY <1>9, <3>2 DEF Publish, Goto, Typed, TypeOK
      <4> QED
        BY <4>1 DEF Typed, TypeOK
    <3> QED
      BY <3>1, <3>2
  <2>5. cmd' \in [Worker -> Given \cup {None}] /\ todo' \in [Worker -> Seq(ReloadType)]
    BY <1>9, <2>1 DEF Publish, Typed, TypeOK
  <2>6. TypeOK'
    <3>1. suspect' \in SUBSET ReloadType /\ torn' \in SUBSET Worker
      BY <1>9, <2>1 DEF Publish, Typed, TypeOK
    <3>2. UNCHANGED <<rules, left, before>>
      BY <1>9 DEF Publish
    <3> QED
      BY <2>2, <2>3, <2>4, <2>5, <3>1, <3>2 DEF Typed, TypeOK
  <2>7. ASSUME NEW v \in Worker PROVE AtWork(v)'
    BY <1>9, <2>1 DEF Publish, Typed, TypeOK, AtWork, Goto
  <2> QED
    BY <2>6, <2>7 DEF Typed
<1>10. ASSUME NEW w \in Worker, ReloadFails(w) PROVE Typed'
  <2>1. suspect' \in SUBSET ReloadType
    BY <1>10 DEF ReloadFails, Typed, TypeOK
  <2>2. TypeOK'
    BY <1>10, <2>1 DEF ReloadFails, Typed, TypeOK, Goto
  <2>3. ASSUME NEW v \in Worker PROVE AtWork(v)'
    BY <1>10 DEF ReloadFails, Typed, TypeOK, AtWork, Goto
  <2> QED
    BY <2>2, <2>3 DEF Typed
<1>11. CASE UNCHANGED vars
  BY <1>11 DEF vars, Typed, TypeOK, AtWork
<1> QED
  BY <1>1, <1>2, <1>3, <1>4, <1>5, <1>6, <1>7, <1>8, <1>9, <1>10, <1>11
     DEF Next, Step

(* Every row, list, command and half-read list is of its type, for any      *)
(* groups, users, workers and any size of table (TypeOK): in particular no  *)
(* list is ever filled with what belongs into another of a different kind   *)
(* (utils.rs:118-186).                                                      *)
THEOREM TypeCorrect == Spec => []TypeOK
<1>1. Typed => TypeOK
  BY DEF Typed
<1> QED
  BY <1>1, TypedInit, TypedNext, PTL DEF Spec

-----------------------------------------------------------------------------
(* Every list that is not suspect is what a reload would yield now, or is   *)
(* about to be reloaded; and unless the table changed meanwhile, what a     *)
(* worker has read so far of a list is what the table says of it.           *)
Fresh(t) == lists[t] = Loaded(rules, t)

Pending(w, t) ==
  pc[w] \in {"fetch", "fill"} /\ \E i \in 1 .. Len(todo[w]) : todo[w][i] = t

Covered ==
  \A t \in ReloadType \ suspect : Fresh(t) \/ \E w \in Worker : Pending(w, t)

Reading(w) ==
  LET t == Head(todo[w]) IN
  pc[w] = "fill" =>
    IF IsGroupList(t)
    THEN /\ left[w] \subseteq ListedGroups(rules, ItemOf[t])
         /\ got[w] = {Excluded(rules, t, id) :
                        id \in ListedGroups(rules, ItemOf[t]) \ left[w]}
    ELSE got[w] = Loaded(rules, t)

(* No command deletes an id that a group and a user share.                  *)
Apart ==
  \A c \in Given : c.kind \in {"delete_group", "delete_user"}
                    => c.id \notin GroupId \cap UserId

ReadsHold == \A w \in Worker \ torn : Reading(w)

IInv == Typed /\ Covered /\ ReadsHold

(* A step of w leaves what the others are at as it was.                     *)
OthersStay(w) ==
  \A v \in Worker \ {w} : /\ pc'[v] = pc[v] /\ todo'[v] = todo[v]
                          /\ left'[v] = left[v] /\ got'[v] = got[v]

(* A list depends on the rows of its kinds and item types alone, the one of *)
(* users on those without a group, the exclusions on those with one.        *)
LEMMA SameGroups ==
  ASSUME NEW rs, NEW qs, NEW item,
         \A r \in rs \cup qs : (r.chat_type = "group" /\ r.item_type = item)
                             => (r \in rs /\ r \in qs)
  PROVE  ListedGroups(rs, item) = ListedGroups(qs, item)
<1>1. {x \in rs : x.chat_type = "group" /\ x.item_type = item}
        = {x \in qs : x.chat_type = "group" /\ x.item_type = item}
  OBVIOUS
<1> QED
  BY <1>1 DEF ListedGroups

LEMMA SameUsers ==
  ASSUME NEW rs, NEW qs, NEW item, NEW g,
         \A r \in rs \cup qs :
           (r.chat_type = "user" /\ r.item_type = item /\ r.group_chat_id = g)
             => (r \in rs /\ r \in qs)
  PROVE  ListedUsers(rs, item, g) = ListedUsers(qs, item, g)
<1>1. {x \in rs : x.chat_type = "user" /\ x.item_type = item /\ InGroup(x, g)}
        = {x \in qs : x.chat_type = "user" /\ x.item_type = item /\ InGroup(x, g)}
  BY DEF InGroup
<1> QED
  BY <1>1 DEF ListedUsers

(* The rows on which list t depends.                                        *)
Concerns(r, t) ==
  IF IsGroupList(t)
  THEN (r.chat_type = "group" /\ r.item_type = ItemOf[t])
       \/ (r.chat_type = "user" /\ r.item_type = Opposite[ItemOf[t]]
           /\ r.group_chat_id # None)
  ELSE r.chat_type = "user" /\ r.item_type = ItemOf[t] /\ r.group_chat_id = None

LEMMA SameLoaded ==
  ASSUME NEW rs \in SUBSET Rule, NEW qs, NEW t \in ReloadType,
         \A r \in rs \cup qs : Concerns(r, t) => (r \in rs /\ r \in qs)
  PROVE  Loaded(rs, t) = Loaded(qs, t)
<1>1. CASE IsGroupList(t)
  <2>1. ListedGroups(rs, ItemOf[t]) = ListedGroups(qs, ItemOf[t])
    <3>1. \A r \in rs \cup qs : (r.chat_type = "group" /\ r.item_type = ItemOf[t])
                             => (r \in rs /\ r \in qs)
      BY <1>1 DEF Concerns
    <3> QED
      BY <3>1, SameGroups
  <2>2. ASSUME NEW id \in ListedGroups(rs, ItemOf[t])
        PROVE  Excluded(rs, t, id) = Excluded(qs, t, id)
    <3>0. id # None
      BY ConstantsAssumption DEF ListedGroups, Rule
    <3>1. \A r \in rs \cup qs :
             (r.chat_type = "user" /\ r.item_type = Opposite[ItemOf[t]]
              /\ r.group_chat_id = id)
               => (r \in rs /\ r \in qs)
      BY <1>1, <3>0 DEF Concerns
    <3>2. ListedUsers(rs, Opposite[ItemOf[t]], id)
            = ListedUsers(qs, Opposite[ItemOf[t]], id)
      BY <3>1, SameUsers
    <3> QED
      BY <3>2 DEF Excluded
  <2> QED
    BY <1>1, <2>1, <2>2 DEF Loaded
<1>2. CASE ~IsGroupList(t)
  <2>1. \A r \in rs \cup qs :
           (r.chat_type = "user" /\ r.item_type = ItemOf[t] /\ r.group_chat_id = None)
             => (r \in rs /\ r \in qs)
    BY <1>2 DEF Concerns
  <2>2. ListedUsers(rs, ItemOf[t], None) = ListedUsers(qs, ItemOf[t], None)
    BY <2>1, SameUsers
  <2> QED
    BY <1>2, <2>2 DEF Loaded
<1> QED
  BY <1>1, <1>2

(* A command disturbs only the lists that it reloads.                       *)
LEMMA SaveKeeps ==
  ASSUME NEW c \in Command, c.kind \in {"create_group", "create_user"},
         NEW rs \in SUBSET Rule, NEW t \in ReloadType,
         \A i \in 1 .. Len(ReloadTypes(c)) : ReloadTypes(c)[i] # t
  PROVE  Loaded(rs \cup {NewRule(c)}, t) = Loaded(rs, t)
<1>1. ~Concerns(NewRule(c), t)
  BY DEF Command, ItemType, NewRule, Concerns, ReloadTypes, ReloadType, IsGroupList,
         ItemOf, Opposite
<1>2. \A r \in (rs \cup {NewRule(c)}) \cup rs :
         Concerns(r, t) => (r \in rs \cup {NewRule(c)} /\ r \in rs)
  BY <1>1
<1> QED
  BY <1>2, SameLoaded

LEMMA DeleteKeeps ==
  ASSUME NEW c \in Command, c.kind \in {"delete_group", "delete_user"},
         c.id \notin GroupId \cap UserId,
         rules \in SUBSET Rule, NEW t \in ReloadType,
         \A i \in 1 .. Len(ReloadTypes(c)) : ReloadTypes(c)[i] # t
  PROVE  Loaded(rules \ Matching(c), t) = Loaded(rules, t)
<1>1. ASSUME NEW r \in Matching(c) PROVE ~Concerns(r, t)
  <2>1. r \in Rule /\ r.chat_id = c.id /\ r.item_type = c.item_type
    BY DEF Matching
  <2>2. CASE c.kind = "delete_group"
    <3>1. c.id \in GroupId
      BY <2>2 DEF Command
    <3>2. r.chat_type = "group"
      BY <2>1, <3>1 DEF Rule
    <3> QED
      BY <2>1, <2>2, <3>2 DEF Command, ItemType, Concerns, ReloadTypes, ReloadType,
                             IsGroupList, ItemOf, Opposite
  <2>3. CASE c.kind = "delete_user"
    <3>1. c.id \in UserId
      BY <2>3 DEF Command
    <3>2. r.chat_type = "user"
      BY <2>1, <3>1 DEF Rule
    <3> QED
      BY <2>1, <2>3, <3>2 DEF Command, ItemType, Concerns, ReloadTypes, ReloadType,
                             IsGroupList, ItemOf, Opposite
  <2> QED
    BY <2>2, <2>3
<1>2. \A r \in (rules \ Matching(c)) \cup rules :
         Concerns(r, t) => (r \in rules \ Matching(c) /\ r \in rules)
  BY <1>1
<1> QED
  BY <1>2, SameLoaded

(* The lists together say of each message what the table says.              *)
LEMMA UsersEverywhere ==
  ASSUME NEW rs \in SUBSET Rule, NEW u, NEW item
  PROVE  u \in ListedUsers(rs, item, None) <=> NullMatches /\ HasUser(rs, u, None, item)
BY DEF ListedUsers, InGroup, HasUser, Rule

LEMMA UsersInGroup ==
  ASSUME NEW rs \in SUBSET Rule, NEW u, NEW item, NEW g, g # None
  PROVE  u \in ListedUsers(rs, item, g) <=> HasUser(rs, u, g, item)
BY DEF ListedUsers, InGroup, HasUser, Rule

LEMMA GroupsListed ==
  ASSUME NEW rs \in SUBSET Rule, NEW g, NEW item
  PROVE  g \in ListedGroups(rs, item) <=> HasGroup(rs, g, item)
BY DEF ListedGroups, HasGroup, Rule

LEMMA GroupLists ==
  ASSUME NEW rs \in SUBSET Rule, NEW t \in {"WhileGroup", "BlackGroup"},
         NEW g, NEW u, g # None
  PROVE  /\ (\E i \in Loaded(rs, t) : i.id = g) <=> HasGroup(rs, g, ItemOf[t])
         /\ (\E i \in Loaded(rs, t) : i.id = g /\ u \in i.exclude_user)
              <=> HasGroup(rs, g, ItemOf[t]) /\ HasUser(rs, u, g, Opposite[ItemOf[t]])
<1>1. Loaded(rs, t) = {Excluded(rs, t, id) : id \in ListedGroups(rs, ItemOf[t])}
  BY DEF Loaded, IsGroupList
<1>2. \A id : /\ Excluded(rs, t, id).id = id
              /\ Excluded(rs, t, id).exclude_user
                   = ListedUsers(rs, Opposite[ItemOf[t]], id)
  BY DEF Excluded
<1>3. \A i : i \in Loaded(rs, t) /\ i.id = g
              <=> g \in ListedGroups(rs, ItemOf[t]) /\ i = Excluded(rs, t, g)
  BY <1>1, <1>2
<1>4. g \in ListedGroups(rs, ItemOf[t]) <=> HasGroup(rs, g, ItemOf[t])
  BY GroupsListed
<1>5. u \in ListedUsers(rs, Opposite[ItemOf[t]], g)
        <=> HasUser(rs, u, g, Opposite[ItemOf[t]])
  BY UsersInGroup
<1> QED
  BY <1>2, <1>3, <1>4, <1>5

(* What the tests of send_by_auth find in lists loaded from one table.      *)
Listed(ls, t, g) == \E i \in ls[t] : i.id = g

Excludes(ls, t, g, u) == \E i \in ls[t] : i.id = g /\ u \in i.exclude_user

LEMMA ListsSay ==
  ASSUME NEW rs \in SUBSET Rule, NEW ls, \A t \in ReloadType : ls[t] = Loaded(rs, t),
         NEW g \in GroupId \cup {None}, NEW u \in UserId \cup {None}
  PROVE  /\ u \in ls["BlackUser"] <=> NullMatches /\ HasUser(rs, u, None, "BlackList")
         /\ u \in ls["WhileUser"] <=> NullMatches /\ HasUser(rs, u, None, "WhiteList")
         /\ u = None => \A h, item : ~HasUser(rs, u, h, item)
         /\ g = None => \A item : ~HasGroup(rs, g, item)
         /\ g # None =>
              /\ Listed(ls, "WhileGroup", g) <=> HasGroup(rs, g, "WhiteList")
              /\ Listed(ls, "BlackGroup", g) <=> HasGroup(rs, g, "BlackList")
              /\ Excludes(ls, "WhileGroup", g, u)
                   <=> HasGroup(rs, g, "WhiteList") /\ HasUser(rs, u, g, "BlackList")
              /\ Excludes(ls, "BlackGroup", g, u)
                   <=> HasGroup(rs, g, "BlackList") /\ HasUser(rs, u, g, "WhiteList")
<1>1. /\ ls["BlackUser"] = ListedUsers(rs, "BlackList", None)
      /\ ls["WhileUser"] = ListedUsers(rs, "WhiteList", None)
      /\ ls["WhileGroup"] = Loaded(rs, "WhileGroup")
      /\ ls["BlackGroup"] = Loaded(rs, "BlackGroup")
  BY DEF ReloadType, Loaded, IsGroupList, ItemOf
<1>2. /\ u \in ls["BlackUser"] <=> NullMatches /\ HasUser(rs, u, None, "BlackList")
      /\ u \in ls["WhileUser"] <=> NullMatches /\ HasUser(rs, u, None, "WhiteList")
  BY <1>1, UsersEverywhere
<1>3. u = None => \A h, item : ~HasUser(rs, u, h, item)
  BY ConstantsAssumption DEF HasUser, Rule
<1>4. g = None => \A item : ~HasGroup(rs, g, item)
  BY ConstantsAssumption DEF HasGroup, Rule
<1>5. /\ ItemOf["WhileGroup"] = "WhiteList" /\ ItemOf["BlackGroup"] = "BlackList"
      /\ Opposite["WhiteList"] = "BlackList" /\ Opposite["BlackList"] = "WhiteList"
  BY DEF ItemOf, Opposite
<1>6. ASSUME g # None
      PROVE  /\ Listed(ls, "WhileGroup", g) <=> HasGroup(rs, g, "WhiteList")
             /\ Listed(ls, "BlackGroup", g) <=> HasGroup(rs, g, "BlackList")
             /\ Excludes(ls, "WhileGroup", g, u)
                  <=> HasGroup(rs, g, "WhiteList") /\ HasUser(rs, u, g, "BlackList")
             /\ Excludes(ls, "BlackGroup", g, u)
                  <=> HasGroup(rs, g, "BlackList") /\ HasUser(rs, u, g, "WhiteList")
  BY <1>1, <1>5, <1>6, GroupLists DEF Listed, Excludes
<1> QED
  BY <1>2, <1>3, <1>4, <1>6

LEMMA VerdictIs ==
  ASSUME NEW rs \in SUBSET Rule, NEW ls, \A t \in ReloadType : ls[t] = Loaded(rs, t),
         NEW g \in GroupId \cup {None}, NEW u \in UserId \cup {None}
  PROVE  /\ Verdict(rs, g, u) \in BOOLEAN
         /\ u = None => u \notin ls["BlackUser"] /\ u \notin ls["WhileUser"]
         /\ u \in ls["BlackUser"] => ~Verdict(rs, g, u)
         /\ u \notin ls["BlackUser"] /\ u \in ls["WhileUser"] => Verdict(rs, g, u)
         /\ u \notin ls["BlackUser"] /\ u \notin ls["WhileUser"] =>
              /\ g = None => Verdict(rs, g, u) = DefaultAllow
              /\ g # None /\ Listed(ls, "WhileGroup", g) =>
                   Verdict(rs, g, u) = ~(u # None /\ Excludes(ls, "WhileGroup", g, u))
              /\ g # None /\ ~Listed(ls, "WhileGroup", g) /\ Listed(ls, "BlackGroup", g) =>
                   Verdict(rs, g, u) = (u # None /\ Excludes(ls, "BlackGroup", g, u))
              /\ g # None /\ ~Listed(ls, "WhileGroup", g) /\ ~Listed(ls, "BlackGroup", g) =>
                   Verdict(rs, g, u) = DefaultAllow
<1> DEFINE black == NullMatches /\ HasUser(rs, u, None, "BlackList")
           white == NullMatches /\ HasUser(rs, u, None, "WhiteList")
           inBlack == HasUser(rs, u, g, "BlackList")
           inWhite == HasUser(rs, u, g, "WhiteList")
           gWhite == HasGroup(rs, g, "WhiteList")
           gBlack == HasGroup(rs, g, "BlackList")
<1>1. Verdict(rs, g, u) = IF black \/ white THEN ~black ELSE IF gWhite THEN ~inBlack
                          ELSE IF gBlack THEN inWhite ELSE DefaultAllow
  BY Zenon DEF Verdict
<1>2. black \in BOOLEAN /\ white \in BOOLEAN /\ inBlack \in BOOLEAN /\ inWhite \in BOOLEAN
      /\ gWhite \in BOOLEAN /\ gBlack \in BOOLEAN /\ DefaultAllow \in BOOLEAN
  BY ConstantsAssumption DEF HasUser, HasGroup
<1>3. /\ u \in ls["BlackUser"] <=> black
      /\ u \in ls["WhileUser"] <=> white
      /\ u = None => ~black /\ ~white /\ ~inBlack /\ ~inWhite
      /\ g = None => ~gWhite /\ ~gBlack
      /\ g # None => /\ Listed(ls, "WhileGroup", g) <=> gWhite
                     /\ Listed(ls, "BlackGroup", g) <=> gBlack
                     /\ Excludes(ls, "WhileGroup", g, u) <=> gWhite /\ inBlack
                     /\ Excludes(ls, "BlackGroup", g, u) <=> gBlack /\ inWhite
  BY ListsSay
<1> HIDE DEF black, white, inBlack, inWhite, gWhite, gBlack
<1> QED
  BY <1>1, <1>2, <1>3

(* What a judging that is at a place has found in the lists ls on its way.  *)
Passed(ls, at, g, u) ==
  /\ at \in Place
  /\ at \notin {"WhileGroup", "BlackGroup"} => u # None
  /\ at \notin {"BlackUser", "WhileUser"} => g # None
  /\ at # "BlackUser" => u = None \/ u \notin ls["BlackUser"]
  /\ at \notin {"BlackUser", "WhileUser"} => u = None \/ u \notin ls["WhileUser"]
  /\ at = "BlackUserAgain" => /\ Listed(ls, "WhileGroup", g)
                              /\ ~Excludes(ls, "WhileGroup", g, u)
  /\ at \in {"BlackGroup", "WhileUserAgain"} => ~Listed(ls, "WhileGroup", g)
  /\ at = "WhileUserAgain" => /\ Listed(ls, "BlackGroup", g)
                              /\ ~Excludes(ls, "BlackGroup", g, u)

(* The turns there are from each place.                                     *)
Onward(at) ==
  CASE at = "BlackUser" -> {"WhileUser"}
    [] at = "WhileUser" -> {"WhileGroup"}
    [] at = "WhileGroup" -> {"BlackUserAgain", "BlackGroup"}
    [] at = "BlackGroup" -> {"WhileUserAgain"}
    [] OTHER -> {}

LEMMA TurnIs ==
  ASSUME NEW ls, NEW at, NEW g, NEW u
  PROVE  /\ at = "BlackUser" =>
              Turn(ls, at, g, u) = IF u \in ls["BlackUser"] THEN "deny" ELSE "WhileUser"
         /\ at = "WhileUser" =>
              Turn(ls, at, g, u) = IF u \in ls["WhileUser"] THEN "allow" ELSE OfGroup(g)
         /\ at = "WhileGroup" =>
              Turn(ls, at, g, u) = IF ~Listed(ls, at, g) THEN "BlackGroup"
                                   ELSE IF u = None THEN "allow"
                                   ELSE IF Excludes(ls, at, g, u) THEN "deny"
                                   ELSE "BlackUserAgain"
         /\ at = "BlackUserAgain" =>
              Turn(ls, at, g, u) = IF u \in ls["BlackUser"] THEN "deny" ELSE "allow"
         /\ at = "BlackGroup" =>
              Turn(ls, at, g, u) = IF ~Listed(ls, at, g) THEN ByDefault
                                   ELSE IF u = None THEN "deny"
                                   ELSE IF Excludes(ls, at, g, u) THEN "allow"
                                   ELSE "WhileUserAgain"
         /\ at = "WhileUserAgain" =>
              Turn(ls, at, g, u) = IF u \in ls["WhileUser"] THEN "allow" ELSE "deny"
         /\ at \in Decision => Turn(ls, at, g, u) = at
BY DEF Turn, Listed, Excludes, Decision

(* One turn on lists loaded from the table rs.                              *)
LEMMA TurnFollows ==
  ASSUME NEW rs \in SUBSET Rule, NEW ls, \A t \in ReloadType : ls[t] = Loaded(rs, t),
         NEW g \in GroupId \cup {None}, NEW u \in UserId \cup {None}, NEW at,
         Passed(ls, at, g, u)
  PROVE  LET next == Turn(ls, at, g, u) IN
         \/ next \in Onward(at) /\ Passed(ls, next, g, u)
         \/ next \in Decision /\ (next = "allow") = Verdict(rs, g, u)
<1> DEFINE next == Turn(ls, at, g, u)
           Good == \/ next \in Onward(at) /\ Passed(ls, next, g, u)
                   \/ next \in Decision /\ (next = "allow") = Verdict(rs, g, u)
<1>1. CASE at = "BlackUser"
  BY <1>1, TurnIs, VerdictIs DEF Passed, Place, Onward, Decision
<1>2. CASE at = "WhileUser"
  BY <1>2, TurnIs, VerdictIs DEF Passed, Place, Onward, Decision, OfGroup, ByDefault
<1>3. CASE at = "WhileGroup"
  BY <1>3, TurnIs, VerdictIs DEF Passed, Place, Onward, Decision
<1>4. CASE at = "BlackUserAgain"
  BY <1>4, TurnIs, VerdictIs DEF Passed, Place, Onward, Decision
<1>5. CASE at = "BlackGroup"
  BY <1>5, TurnIs, VerdictIs DEF Passed, Place, Onward, Decision, ByDefault
<1>6. CASE at = "WhileUserAgain"
  BY <1>6, TurnIs, VerdictIs DEF Passed, Place, Onward, Decision
<1> QED
  BY <1>1, <1>2, <1>3, <1>4, <1>5, <1>6 DEF Passed, Place

LEMMA EnterFollows ==
  ASSUME NEW rs \in SUBSET Rule, NEW ls, \A t \in ReloadType : ls[t] = Loaded(rs, t),
         NEW g \in GroupId \cup {None}, NEW u \in UserId \cup {None}
  PROVE  LET first == Enter(g, u) IN
         \/ first \in {"BlackUser", "WhileGroup"} /\ Passed(ls, first, g, u)
         \/ first \in Decision /\ (first = "allow") = Verdict(rs, g, u)
<1>1. CASE u # None
  BY <1>1 DEF Enter, Passed, Place
<1>2. CASE u = None /\ g # None
  BY <1>2 DEF Enter, OfGroup, Passed, Place
<1>3. CASE u = None /\ g = None
  BY <1>3, VerdictIs, ConstantsAssumption DEF Enter, OfGroup, ByDefault, Decision
<1> QED
  BY <1>1, <1>2, <1>3

LEMMA VerdictFollows ==
  ASSUME NEW rs \in SUBSET Rule, NEW ls, \A t \in ReloadType : ls[t] = Loaded(rs, t),
         NEW g \in GroupId \cup {None}, NEW u \in UserId \cup {None}
  PROVE  send_by_auth(ls, g, u) = Verdict(rs, g, u)
<1> DEFINE turn(at) == Turn(ls, at, g, u)
           Right(at) == at \in Decision /\ (at = "allow") = Verdict(rs, g, u)
           Way(at, places) == Right(at) \/ (at \in places /\ Passed(ls, at, g, u))
<1>1. \A at : Right(at) => Right(turn(at))
  BY TurnIs
<1>2. \A at : Passed(ls, at, g, u) => Way(turn(at), Onward(at))
  BY TurnFollows
<1>3. /\ Onward("BlackUser") = {"WhileUser"} /\ Onward("WhileUser") = {"WhileGroup"}
      /\ Onward("WhileGroup") = {"BlackUserAgain", "BlackGroup"}
      /\ Onward("BlackUserAgain") = {} /\ Onward("BlackGroup") = {"WhileUserAgain"}
      /\ Onward("WhileUserAgain") = {}
  BY DEF Onward
<1>4. Way(Enter(g, u), {"BlackUser", "WhileGroup"})
  BY EnterFollows
<1> HIDE DEF turn, Right
<1>5. Way(turn(Enter(g, u)), {"WhileUser", "BlackUserAgain", "BlackGroup"})
  BY <1>1, <1>2, <1>3, <1>4
<1>6. Way(turn(turn(Enter(g, u))), {"WhileGroup", "WhileUserAgain"})
  BY <1>1, <1>2, <1>3, <1>5
<1>7. Way(turn(turn(turn(Enter(g, u)))), {"BlackUserAgain", "BlackGroup"})
  BY <1>1, <1>2, <1>3, <1>6
<1>8. Way(turn(turn(turn(turn(Enter(g, u))))), {"WhileUserAgain"})
  BY <1>1, <1>2, <1>3, <1>7
<1>9. Right(turn(turn(turn(turn(turn(Enter(g, u)))))))
  BY <1>1, <1>2, <1>3, <1>8
<1> QED
  BY <1>9 DEF turn, Right, send_by_auth

-----------------------------------------------------------------------------
LEMMA IInvInit == Init => IInv
<1> SUFFICES ASSUME Init PROVE IInv
  OBVIOUS
<1>1. Typed
  BY TypedInit
<1>2. Covered
  BY DEF Init, Covered
<1>3. ReadsHold
  BY DEF Init, Reading, ReadsHold
<1> QED
  BY <1>1, <1>2, <1>3 DEF IInv

(* The others' lists to come are still to come, and their reads hold if the *)
(* table is as it was.                                                      *)
LEMMA OthersPend ==
  ASSUME NEW w \in Worker, OthersStay(w), NEW t, NEW v \in Worker \ {w}, Pending(v, t)
  PROVE  Pending(v, t)'
BY DEF OthersStay, Pending

LEMMA OthersRead ==
  ASSUME ReadsHold, NEW w \in Worker, OthersStay(w), rules' = rules,
         torn \ {w} \subseteq torn', w \in torn' \/ Reading(w)'
  PROVE  ReadsHold'
<1>1. ASSUME NEW v \in Worker \ torn', v # w PROVE Reading(v)'
  <2>1. Reading(v)
    BY <1>1 DEF ReadsHold
  <2> QED
    BY <1>1, <2>1 DEF OthersStay, Reading
<1> QED
  BY <1>1 DEF ReadsHold

(* A step that leads to the reload of the lists in ReloadTypes(cmd[w]), the *)
(* only ones that it disturbs.                                              *)
LEMMA ReloadCovers ==
  ASSUME Covered, ReadsHold, Typed, NEW w \in Worker, Reload(w), cmd[w] \in Command,
         pc[w] \in {"find", "save", "delete"}, TearReads,
         UNCHANGED <<lists, left, got, suspect>>,
         \A t \in ReloadType :
           (\A i \in 1 .. Len(ReloadTypes(cmd[w])) : ReloadTypes(cmd[w])[i] # t)
             => Loaded(rules', t) = Loaded(rules, t)
  PROVE  Covered' /\ ReadsHold'
<1>1. pc'[w] = "fetch" /\ todo'[w] = ReloadTypes(cmd[w])
  BY DEF Reload, Goto, Typed, TypeOK
<1>2. OthersStay(w)
  BY DEF OthersStay, Reload, Goto, Typed, TypeOK
<1>3. ASSUME NEW t \in ReloadType \ suspect'
      PROVE  Fresh(t)' \/ \E v \in Worker : Pending(v, t)'
  <2>1. CASE Fresh(t)
    <3>1. CASE \E i \in 1 .. Len(ReloadTypes(cmd[w])) : ReloadTypes(cmd[w])[i] = t
      BY <1>1, <3>1 DEF Pending
    <3>2. CASE \A i \in 1 .. Len(ReloadTypes(cmd[w])) : ReloadTypes(cmd[w])[i] # t
      BY <2>1, <3>2 DEF Fresh
    <3> QED
      BY <3>1, <3>2
  <2>2. CASE \E v \in Worker : Pending(v, t)
    <3>1. PICK v \in Worker : Pending(v, t)
      BY <2>2
    <3>2. v # w
      BY <3>1 DEF Pending
    <3> QED
      BY <1>2, <3>1, <3>2, OthersPend
  <2> QED
    BY <1>3, <2>1, <2>2 DEF Covered
<1>4. Covered'
  BY <1>3 DEF Covered
<1>5. ReadsHold'
  <2>1. CASE rules' = rules
    <3>1. torn' = torn
      BY <2>1 DEF TearReads
    <3>2. Reading(w)'
      BY <1>1 DEF Reading
    <3> QED
      BY <1>2, <2>1, <3>1, <3>2, OthersRead
  <2>2. CASE rules' # rules
    <3>1. ASSUME NEW v \in Worker \ torn' PROVE pc'[v] # "fill"
      BY <1>1, <1>2, <2>2, <3>1 DEF TearReads, OthersStay
    <3> QED
      BY <3>1 DEF ReadsHold, Reading
  <2> QED
    BY <2>1, <2>2
<1> QED
  BY <1>4, <1>5

(* A step that changes neither the table nor a list, and after which the    *)
(* lists that w had to reload are still to come or suspect.                 *)
LEMMA QuietCovers ==
  ASSUME Covered, NEW w \in Worker, OthersStay(w), suspect \subseteq suspect',
         \A t \in ReloadType : Pending(w, t) => Pending(w, t)' \/ t \in suspect',
         UNCHANGED <<rules, lists>>
  PROVE  Covered'
<1>1. ASSUME NEW t \in ReloadType \ suspect'
      PROVE  Fresh(t)' \/ \E v \in Worker : Pending(v, t)'
  <2>1. CASE Fresh(t)
    BY <2>1 DEF Fresh
  <2>2. CASE \E v \in Worker : Pending(v, t)
    BY <1>1, <2>2, OthersPend
  <2> QED
    BY <1>1, <2>1, <2>2 DEF Covered
<1> QED
  BY <1>1 DEF Covered

LEMMA IInvNext ==
  ASSUME Apart
  PROVE  IInv /\ [Next]_vars => IInv'
<1> SUFFICES ASSUME IInv, [Next]_vars PROVE Covered' /\ ReadsHold'
  BY TypedNext DEF IInv
<1> USE DEF IInv
<1>1. CASE Restart
  BY <1>1 DEF Restart, Covered, Reading, ReadsHold
<1>2. ASSUME NEW w \in Worker, Start(w) PROVE Covered' /\ ReadsHold'
  <2>1. /\ pc[w] = "idle" /\ pc'[w] \in {"find", "delete"}
        /\ UNCHANGED <<rules, lists, suspect, torn>>
    BY <1>2 DEF Start, Goto, Typed, TypeOK
  <2>2. OthersStay(w)
    BY <1>2 DEF Start, Goto, OthersStay, Typed, TypeOK
  <2>3. Reading(w)' /\ \A t \in ReloadType : ~Pending(w, t)
    BY <2>1 DEF Reading, Pending
  <2> QED
    BY <2>1, <2>2, <2>3, QuietCovers, OthersRead
<1>3. ASSUME NEW w \in Worker, Find(w) PROVE Covered' /\ ReadsHold'
  <2>1. CASE Reload(w)
    BY <1>3, <2>1, ReloadCovers DEF Find, Typed, AtWork, TearReads
  <2>2. CASE Goto(w, "save") /\ UNCHANGED todo
    <3>1. /\ pc[w] = "find" /\ pc'[w] = "save"
          /\ UNCHANGED <<rules, lists, suspect, torn>>
      BY <1>3, <2>2 DEF Find, Goto, Typed, TypeOK
    <3>2. OthersStay(w)
      BY <1>3, <2>2 DEF Find, Goto, OthersStay, Typed, TypeOK
    <3>3. Reading(w)' /\ \A t \in ReloadType : ~Pending(w, t)
      BY <3>1 DEF Reading, Pending
    <3> QED
      BY <3>1, <3>2, <3>3, QuietCovers, OthersRead
  <2> QED
    BY <1>3, <2>1, <2>2 DEF Find
<1>4. ASSUME NEW w \in Worker, Save(w) PROVE Covered' /\ ReadsHold'
  <2>1. /\ cmd[w] \in Command /\ cmd[w].kind \in {"create_group", "create_user"}
        /\ rules' = rules \cup {NewRule(cmd[w])} /\ rules \in SUBSET Rule
    BY <1>4 DEF Save, Typed, TypeOK, AtWork
  <2>2. \A t \in ReloadType :
           (\A i \in 1 .. Len(ReloadTypes(cmd[w])) : ReloadTypes(cmd[w])[i] # t)
             => Loaded(rules', t) = Loaded(rules, t)
    BY <2>1, SaveKeeps
  <2> QED
    BY <1>4, <2>1, <2>2, ReloadCovers DEF Save
<1>5. ASSUME NEW w \in Worker, Delete(w) PROVE Covered' /\ ReadsHold'
  <2>1. /\ cmd[w] \in Command /\ cmd[w].kind \in {"delete_group", "delete_user"}
        /\ rules' = rules \ Matching(cmd[w]) /\ rules \in SUBSET Rule
        /\ cmd[w].id \notin GroupId \cap UserId
    BY <1>5, ConstantsAssumption DEF Delete, Typed, TypeOK, AtWork, Apart
  <2>2. \A t \in ReloadType :
           (\A i \in 1 .. Len(ReloadTypes(cmd[w])) : ReloadTypes(cmd[w])[i] # t)
             => Loaded(rules', t) = Loaded(rules, t)
    BY <2>1, DeleteKeeps
  <2> QED
    BY <1>5, <2>1, <2>2, ReloadCovers DEF Delete
<1>6. ASSUME NEW w \in Worker, CommandFails(w) PROVE Covered' /\ ReadsHold'
  BY <1>6, ReloadCovers DEF CommandFails, Typed, AtWork, TearReads
<1>7. ASSUME NEW w \in Worker, Fetch(w) PROVE Covered' /\ ReadsHold'
  <2>1. /\ pc[w] = "fetch" /\ pc'[w] = "fill"
        /\ left'[w] = IF IsGroupList(Head(todo[w]))
                      THEN ListedGroups(rules, ItemOf[Head(todo[w])]) ELSE {}
        /\ got'[w] = IF IsGroupList(Head(todo[w])) THEN {}
                     ELSE Loaded(rules, Head(todo[w]))
        /\ UNCHANGED <<rules, lists, todo, suspect, torn>>
    BY <1>7 DEF Fetch, Goto, Typed, TypeOK
  <2>2. OthersStay(w)
    BY <1>7 DEF Fetch, Goto, OthersStay, Typed, TypeOK
  <2>3. \A t \in ReloadType : Pending(w, t) => Pending(w, t)'
    BY <2>1 DEF Pending
  <2>4. Reading(w)'
    BY <2>1 DEF Reading
  <2> QED
    BY <2>1, <2>2, <2>3, <2>4, QuietCovers, OthersRead
<1>8. ASSUME NEW w \in Worker, Fill(w) PROVE Covered' /\ ReadsHold'
  <2> DEFINE t == Head(todo[w])
             groups == ListedGroups(rules, ItemOf[t])
  <2>1. PICK id \in left[w] :
          /\ left' = [left EXCEPT ![w] = @ \ {id}]
          /\ got' = [got EXCEPT ![w] = @ \cup {Excluded(rules, t, id)}]
    BY <1>8 DEF Fill
  <2>2. /\ pc[w] = "fill" /\ IsGroupList(t)
        /\ left'[w] = left[w] \ {id}
        /\ got'[w] = got[w] \cup {Excluded(rules, t, id)}
        /\ UNCHANGED <<rules, lists, pc, todo, suspect, torn>>
    BY <1>8, <2>1 DEF Fill, Typed, TypeOK, AtWork
  <2>3. OthersStay(w)
    BY <2>1, <2>2 DEF OthersStay, Typed, TypeOK
  <2>4. \A x \in ReloadType : Pending(w, x) => Pending(w, x)'
    BY <2>2 DEF Pending
  <2>5. ASSUME w \notin torn PROVE Reading(w)'
    <3>1. /\ id \in groups /\ left[w] \subseteq groups
          /\ got[w] = {Excluded(rules, t, x) : x \in groups \ left[w]}
      BY <2>1, <2>2, <2>5 DEF Reading, ReadsHold
    <3>2. groups \ left'[w] = (groups \ left[w]) \cup {id}
      BY <2>1, <2>2, <3>1
    <3>3. got'[w] = {Excluded(rules, t, x) : x \in groups \ left'[w]}
      <4> HIDE DEF groups
      <4> QED
        BY <2>2, <3>1, <3>2
    <3>4. left'[w] \subseteq groups
      BY <2>2, <3>1
    <3> QED
      BY <2>2, <3>3, <3>4 DEF Reading
  <2> QED
    BY <2>2, <2>3, <2>4, <2>5, QuietCovers, OthersRead
<1>9. ASSUME NEW w \in Worker, Publish(w) PROVE Covered' /\ ReadsHold'
  <2>0. PICK t : t = Head(todo[w])
    OBVIOUS
  <2>1. /\ pc[w] = "fill" /\ left[w] = {}
        /\ lists' = [lists EXCEPT ![t] = got[w]]
        /\ suspect' = IF w \in torn THEN suspect \cup {t} ELSE suspect \ {t}
        /\ torn' = torn \ {w} /\ rules' = rules
        /\ todo'[w] = Tail(todo[w])
        /\ pc'[w] = IF Len(todo[w]) = 1 THEN "idle" ELSE "fetch"
    BY <1>9, <2>0 DEF Publish, Goto, Typed, TypeOK
  <2>2. todo[w] \in Seq(ReloadType) /\ todo[w] # <<>> /\ t \in ReloadType
    BY <2>0, <2>1, TailTyped DEF Typed, TypeOK, AtWork
  <2>3. DOMAIN lists = ReloadType
    BY DEF Typed, TypeOK, Lists, ReloadType
  <2>4. OthersStay(w)
    BY <1>9 DEF Publish, Goto, OthersStay, Typed, TypeOK
  <2>5. t \notin suspect' => Fresh(t)'
    <3>1. w \notin torn => got[w] = Loaded(rules, t)
      BY <2>0, <2>1 DEF Reading, ReadsHold, Loaded
    <3> QED
      BY <2>1, <2>2, <2>3, <3>1 DEF Fresh
  <2>6. ASSUME NEW x \in ReloadType \ suspect', x # t
        PROVE  Fresh(x)' \/ \E v \in Worker : Pending(v, x)'
    <3>1. CASE Fresh(x)
      BY <2>1, <2>3, <2>6, <3>1 DEF Fresh
    <3>2. CASE Pending(w, x)
      <4>1. PICK i \in 1 .. Len(todo[w]) : todo[w][i] = x
        BY <3>2 DEF Pending
      <4>2. i \in Nat /\ i # 1 /\ Len(todo[w]) \in Nat /\ Len(todo[w]) # 1
        BY <2>0, <2>2, <2>6, <4>1
      <4>3. i - 1 \in 1 .. Len(Tail(todo[w])) /\ Tail(todo[w])[i - 1] = x
        BY <2>2, <4>1, <4>2, HeadTailProperties
      <4> QED
        BY <2>1, <4>2, <4>3 DEF Pending
    <3>3. CASE \E v \in Worker \ {w} : Pending(v, x)
      BY <2>4, <3>3, OthersPend
    <3>4. Fresh(x) \/ \E v \in Worker : Pending(v, x)
      BY <2>1, <2>6 DEF Covered
    <3> QED
      BY <3>1, <3>2, <3>3, <3>4
  <2>7. Covered'
    BY <2>5, <2>6 DEF Covered
  <2>8. Reading(w)'
    BY <2>1 DEF Reading
  <2> QED
    BY <2>1, <2>4, <2>7, <2>8, OthersRead
<1>10. ASSUME NEW w \in Worker, ReloadFails(w) PROVE Covered' /\ ReadsHold'
  <2>1. /\ suspect' = suspect \cup {todo[w][i] : i \in 1 .. Len(todo[w])}
        /\ pc'[w] = "idle" /\ torn' = torn \ {w} /\ UNCHANGED <<rules, lists>>
    BY <1>10 DEF ReloadFails, Goto, Typed, TypeOK
  <2>2. OthersStay(w)
    BY <1>10 DEF ReloadFails, Goto, OthersStay, Typed, TypeOK
  <2>3. \A t \in ReloadType : Pending(w, t) => t \in suspect'
    BY <2>1 DEF Pending
  <2>4. Reading(w)'
    BY <2>1 DEF Reading
  <2> QED
    BY <2>1, <2>2, <2>3, <2>4, QuietCovers, OthersRead
<1>11. CASE UNCHANGED vars
  BY <1>11 DEF vars, Covered, Fresh, Pending, Reading, ReadsHold
<1> QED
  BY <1>1, <1>2, <1>3, <1>4, <1>5, <1>6, <1>7, <1>8, <1>9, <1>10, <1>11
     DEF Next, Step

(* For any number of links, any table and any commands, overlaps, failures   *)
(* and restarts, as long as no command deletes an id that a group and a user *)
(* share: when no command is at work and no list is suspect, every message   *)
(* is judged as the rows say (DecisionsFollowRules; command.rs:101-118 and   *)
(* utils.rs:118-234).                                                        *)
THEOREM DecisionsCorrect ==
  ASSUME Apart
  PROVE  Spec => []DecisionsFollowRules
<1>1. IInv => DecisionsFollowRules
  <2> SUFFICES ASSUME IInv, suspect = {}, \A w \in Worker : pc[w] = "idle",
                      NEW a \in Asked
               PROVE  send_by_auth(lists, a[1], a[2]) = Verdict(rules, a[1], a[2])
    BY DEF DecisionsFollowRules
  <2>1. \A t \in ReloadType : lists[t] = Loaded(rules, t)
    BY DEF IInv, Covered, Pending, Fresh
  <2>2. rules \in SUBSET Rule /\ a[1] \in GroupId \cup {None} /\ a[2] \in UserId \cup {None}
    BY DEF IInv, Typed, TypeOK, Asked
  <2> QED
    BY <2>1, <2>2, VerdictFollows
<1>2. IInv /\ [Next]_vars => IInv'
  BY IInvNext
<1> QED
  BY <1>1, <1>2, IInvInit, PTL DEF Spec

-----------------------------------------------------------------------------
(* While a command is alone at work.  Its row shows in one list, so that the lists *)
(* are all those of before it or all those of now, whichever are reloaded.   *)
Target(c) ==
  LET black == c.item_type = "BlackList" IN
  IF c.kind \in {"create_group", "delete_group"}
  THEN IF black THEN "BlackGroup" ELSE "WhileGroup"
  ELSE IF c.group_id # None
  THEN IF black THEN "WhileGroup" ELSE "BlackGroup"
  ELSE IF black THEN "BlackUser" ELSE "WhileUser"

OneListApart ==
  \E x \in ReloadType : \A t \in ReloadType \ {x} : Loaded(before, t) = Loaded(rules, t)

OldOrNew ==
  \A t \in ReloadType \ suspect : lists[t] \in {Loaded(before, t), Loaded(rules, t)}

AtTheQueries ==
  \A w \in Worker : pc[w] \in {"find", "save", "delete"} => before = rules

(* One worker at most is at work.                                           *)
Sole == \A v, w \in Worker : pc[v] # "idle" /\ pc[w] # "idle" => v = w

Steady ==
  before # None => Sole /\ torn = {} /\ OneListApart /\ OldOrNew /\ AtTheQueries

LEMMA RowShowsInTarget ==
  ASSUME NEW c \in Command, NEW r, r.item_type = c.item_type,
         IF c.kind \in {"create_group", "delete_group"} THEN r.chat_type = "group"
         ELSE r.chat_type = "user" /\ r.group_chat_id = c.group_id
  PROVE  /\ Target(c) \in ReloadType
         /\ \A t \in ReloadType \ {Target(c)} : ~Concerns(r, t)
<1>1. c.item_type \in {"BlackList", "WhiteList"}
  BY DEF Command, ItemType
<1>2. Target(c) \in ReloadType
  BY DEF Target, ReloadType
<1>3. ASSUME NEW t \in ReloadType, t # Target(c) PROVE ~Concerns(r, t)
  <2>1. CASE c.kind \in {"create_group", "delete_group"}
    BY <1>1, <1>3, <2>1 DEF Target, Concerns, ReloadType, IsGroupList, ItemOf, Opposite
  <2>2. CASE c.kind \notin {"create_group", "delete_group"} /\ c.group_id # None
    BY <1>1, <1>3, <2>2 DEF Target, Concerns, ReloadType, IsGroupList, ItemOf, Opposite
  <2>3. CASE c.kind \notin {"create_group", "delete_group"} /\ c.group_id = None
    BY <1>1, <1>3, <2>3 DEF Target, Concerns, ReloadType, IsGroupList, ItemOf, Opposite
  <2> QED BY <2>1, <2>2, <2>3
<1> QED BY <1>2, <1>3

LEMMA SaveShows ==
  ASSUME NEW c \in Command, c.kind \in {"create_group", "create_user"},
         NEW rs \in SUBSET Rule
  PROVE  \E x \in ReloadType : \A t \in ReloadType \ {x} :
           Loaded(rs, t) = Loaded(rs \cup {NewRule(c)}, t)
<1>1. /\ NewRule(c).item_type = c.item_type
      /\ IF c.kind \in {"create_group", "delete_group"} THEN NewRule(c).chat_type = "group"
         ELSE NewRule(c).chat_type = "user" /\ NewRule(c).group_chat_id = c.group_id
  BY DEF NewRule
<1>2. /\ Target(c) \in ReloadType
      /\ \A t \in ReloadType \ {Target(c)} : ~Concerns(NewRule(c), t)
  BY <1>1, RowShowsInTarget
<1>3. ASSUME NEW t \in ReloadType \ {Target(c)}
      PROVE  Loaded(rs, t) = Loaded(rs \cup {NewRule(c)}, t)
  <2>1. \A r \in rs \cup (rs \cup {NewRule(c)}) :
           Concerns(r, t) => (r \in rs /\ r \in rs \cup {NewRule(c)})
    BY <1>2
  <2> QED BY <2>1, SameLoaded
<1> QED BY <1>2, <1>3

LEMMA DeleteShows ==
  ASSUME NEW c \in Command, c.kind \in {"delete_group", "delete_user"},
         c.id \notin GroupId \cap UserId,
         rules \in SUBSET Rule
  PROVE  \E x \in ReloadType : \A t \in ReloadType \ {x} :
           Loaded(rules, t) = Loaded(rules \ Matching(c), t)
<1>1. ASSUME NEW r \in Matching(c)
      PROVE  /\ Target(c) \in ReloadType
             /\ \A t \in ReloadType \ {Target(c)} : ~Concerns(r, t)
  <2>1. r \in Rule /\ r.chat_id = c.id /\ r.item_type = c.item_type
    BY DEF Matching
  <2>2. CASE c.kind = "delete_group"
    <3>1. r.chat_type = "group"
      BY <2>1, <2>2 DEF Rule, Command
    <3> QED BY <2>1, <2>2, <3>1, RowShowsInTarget
  <2>3. CASE c.kind = "delete_user"
    <3>1. r.chat_type = "user"
      BY <2>1, <2>3 DEF Rule, Command
    <3>2. r.group_chat_id = c.group_id
      BY <2>3 DEF Matching, InGroup
    <3> QED BY <2>1, <2>3, <3>1, <3>2, RowShowsInTarget
  <2> QED BY <2>2, <2>3
<1>2. Target(c) \in ReloadType
  BY DEF Target, ReloadType
<1>3. ASSUME NEW t \in ReloadType \ {Target(c)}
      PROVE  Loaded(rules, t) = Loaded(rules \ Matching(c), t)
  <2>1. \A r \in rules \cup (rules \ Matching(c)) :
           Concerns(r, t) => (r \in rules /\ r \in rules \ Matching(c))
    BY <1>1
  <2> QED BY <2>1, SameLoaded
<1> QED BY <1>2, <1>3

(* A step after the start of a command.                                     *)
LEMMA StepOfOne ==
  ASSUME TypeOK, NEW w \in Worker, Step(w)
  PROVE  before' = before /\ pc[w] # "idle" /\ OthersStay(w)
<1>1. CASE Find(w)
  BY <1>1 DEF Find, Reload, Goto, OthersStay, TypeOK
<1>2. CASE Save(w) \/ Delete(w) \/ CommandFails(w)
  BY <1>2 DEF Save, Delete, CommandFails, Reload, Goto, OthersStay, TypeOK
<1>3. CASE Fetch(w) \/ Publish(w) \/ ReloadFails(w)
  BY <1>3 DEF Fetch, Publish, ReloadFails, Goto, OthersStay, TypeOK
<1>4. CASE Fill(w)
  BY <1>4 DEF Fill, OthersStay, TypeOK
<1> QED
  BY <1>1, <1>2, <1>3, <1>4 DEF Step

(* Nothing to reload: every list that is not suspect is fresh.              *)
LEMMA QuietIsFresh ==
  ASSUME Covered, \A v \in Worker : pc[v] \notin {"fetch", "fill"}
  PROVE  \A t \in ReloadType \ suspect : lists[t] = Loaded(rules, t)
BY DEF Covered, Pending, Fresh

LEMMA SteadyInit == Init => Steady
<1> SUFFICES ASSUME Init PROVE Steady
  OBVIOUS
<1>1. OneListApart /\ OldOrNew /\ AtTheQueries
  BY DEF Init, OneListApart, OldOrNew, AtTheQueries, ReloadType
<1>2. Sole /\ torn = {}
  BY DEF Init, Sole
<1> QED
  BY <1>1, <1>2 DEF Steady

(* A step of the worker that is busy leaves it the only one.                *)
LEMMA SoleStays ==
  ASSUME Sole, NEW w \in Worker, pc[w] # "idle", OthersStay(w)
  PROVE  Sole' /\ \A v \in Worker \ {w} : pc[v] = "idle" /\ pc'[v] = "idle"
BY DEF Sole, OthersStay

(* A step of the busy worker that leaves rules, before and the lists alone. *)
LEMMA SteadyStays ==
  ASSUME Steady, before # None, NEW w \in Worker, pc[w] # "idle", OthersStay(w),
         suspect \subseteq suspect', torn' \subseteq torn,
         UNCHANGED <<rules, before, lists>>,
         pc'[w] \in {"find", "save", "delete"} => before = rules
  PROVE  Steady'
<1>1. Sole' /\ \A v \in Worker \ {w} : pc[v] = "idle" /\ pc'[v] = "idle"
  BY SoleStays DEF Steady
<1>2. AtTheQueries'
  BY <1>1 DEF AtTheQueries
<1>3. OneListApart' /\ OldOrNew' /\ torn' = {}
  BY DEF Steady, OneListApart, OldOrNew
<1> QED
  BY <1>1, <1>2, <1>3 DEF Steady

(* What a step of the only worker at work publishes.                        *)
LEMMA PublishesTheRows ==
  ASSUME IInv, Steady, before # None, NEW w \in Worker, Publish(w)
  PROVE  /\ Head(todo[w]) \in ReloadType
         /\ lists' = [lists EXCEPT ![Head(todo[w])] = Loaded(rules, Head(todo[w]))]
         /\ suspect' = suspect \ {Head(todo[w])} /\ torn' = {}
         /\ UNCHANGED <<rules, before>>
<1>1. /\ pc[w] = "fill" /\ left[w] = {} /\ w \notin torn
      /\ lists' = [lists EXCEPT ![Head(todo[w])] = got[w]]
      /\ suspect' = suspect \ {Head(todo[w])} /\ torn' = {}
      /\ UNCHANGED <<rules, before>>
  BY DEF Publish, Steady
<1>2. got[w] = Loaded(rules, Head(todo[w]))
  BY <1>1 DEF IInv, ReadsHold, Reading, Loaded
<1>3. Head(todo[w]) \in ReloadType
  BY <1>1, TailTyped DEF IInv, Typed, TypeOK, AtWork
<1> QED
  BY <1>1, <1>2, <1>3

LEMMA SteadyNext ==
  ASSUME Apart
  PROVE  IInv /\ Steady /\ [Next]_vars => Steady'
<1> SUFFICES ASSUME IInv, Steady, [Next]_vars, before' # None PROVE Steady'
  BY DEF Steady
<1>0. Typed /\ TypeOK /\ Covered /\ rules \in SUBSET Rule
  BY DEF IInv, Typed, TypeOK
<1>1. CASE Restart
  <2>1. OneListApart' /\ OldOrNew' /\ AtTheQueries'
    BY <1>1 DEF Restart, OneListApart, OldOrNew, AtTheQueries, ReloadType
  <2>2. Sole' /\ torn' = {}
    BY <1>1 DEF Restart, Sole
  <2> QED
    BY <2>1, <2>2 DEF Steady
<1>2. ASSUME NEW w \in Worker, Start(w) PROVE Steady'
  <2>1. /\ before' = rules /\ UNCHANGED <<rules, lists, suspect, torn>>
        /\ \A v \in Worker : pc[v] = "idle"
    BY <1>2 DEF Start, Busy
  <2>2. \A t \in ReloadType \ suspect : lists[t] = Loaded(rules, t)
    BY <1>0, <2>1, QuietIsFresh
  <2>3. OneListApart' /\ OldOrNew' /\ AtTheQueries'
    BY <2>1, <2>2 DEF OneListApart, OldOrNew, AtTheQueries, ReloadType
  <2>4. torn' = {}
    BY <1>0, <2>1 DEF Typed, TypeOK, AtWork
  <2>5. Sole'
    BY <1>0, <1>2, <2>1 DEF Start, Goto, Sole, TypeOK
  <2> QED
    BY <2>3, <2>4, <2>5 DEF Steady
<1>3. ASSUME NEW w \in Worker, Step(w) PROVE Steady'
  <2>1. /\ before' = before /\ before # None /\ pc[w] # "idle" /\ OthersStay(w)
    BY <1>0, <1>3, StepOfOne
  <2>2. /\ Sole' /\ \A v \in Worker \ {w} : pc[v] = "idle" /\ pc'[v] = "idle"
        /\ torn = {} /\ OneListApart /\ OldOrNew /\ AtTheQueries
    BY <2>1, SoleStays DEF Steady
  <2>3. CASE Find(w)
    BY <2>1, <2>2, <2>3, SteadyStays DEF Find, AtTheQueries
  <2>4. CASE CommandFails(w) \/ Fetch(w) \/ Fill(w)
    <3>1. pc'[w] \in {"fetch", "fill"}
      BY <1>0, <2>4 DEF CommandFails, Fetch, Fill, Reload, Goto, TypeOK
    <3>2. UNCHANGED <<rules, before, lists, suspect, torn>>
      BY <2>4 DEF CommandFails, Fetch, Fill
    <3> QED
      BY <2>1, <3>1, <3>2, SteadyStays
  <2>5. CASE Save(w) \/ Delete(w)
    <3>1. /\ before = rules /\ pc[w] \in {"save", "delete"} /\ pc'[w] = "fetch"
          /\ UNCHANGED <<lists, suspect>>
          /\ cmd[w] \in Command
          /\ \/ /\ rules' = rules \cup {NewRule(cmd[w])}
                /\ cmd[w].kind \in {"create_group", "create_user"}
             \/ /\ rules' = rules \ Matching(cmd[w])
                /\ cmd[w].kind \in {"delete_group", "delete_user"}
                /\ cmd[w].id \notin GroupId \cap UserId
      BY <1>0, <2>2, <2>5, ConstantsAssumption
         DEF Save, Delete, Reload, Goto, Typed, TypeOK, AtWork, AtTheQueries, Apart
    <3>2. OneListApart'
      <4>1. \E x \in ReloadType : \A t \in ReloadType \ {x} :
               Loaded(rules, t) = Loaded(rules', t)
        BY <1>0, <3>1, SaveShows, DeleteShows
      <4> QED
        BY <2>1, <3>1, <4>1 DEF OneListApart
    <3>3. \A t \in ReloadType \ suspect : lists[t] = Loaded(rules, t)
      BY <1>0, <2>2, <3>1, QuietIsFresh
    <3>4. OldOrNew'
      BY <2>1, <3>1, <3>3 DEF OldOrNew
    <3>5. torn' = {}
      BY <2>2, <2>5, <3>1 DEF Save, Delete, TearReads
    <3>6. AtTheQueries'
      BY <2>2, <3>1 DEF AtTheQueries
    <3> QED
      BY <2>2, <3>2, <3>4, <3>5, <3>6 DEF Steady
  <2>6. CASE Publish(w)
    <3>1. /\ Head(todo[w]) \in ReloadType
          /\ lists' = [lists EXCEPT ![Head(todo[w])] = Loaded(rules, Head(todo[w]))]
          /\ suspect' = suspect \ {Head(todo[w])} /\ torn' = {}
          /\ UNCHANGED <<rules, before>>
      BY <2>1, <2>6, PublishesTheRows
    <3>2. DOMAIN lists = ReloadType
      BY <1>0 DEF TypeOK, Lists, ReloadType
    <3>3. OldOrNew'
      BY <2>2, <3>1, <3>2 DEF OldOrNew
    <3>4. pc'[w] \in {"idle", "fetch"}
      BY <1>0, <2>6 DEF Publish, Goto, TypeOK
    <3>5. OneListApart' /\ AtTheQueries'
      BY <2>2, <3>1, <3>4 DEF OneListApart, AtTheQueries
    <3> QED
      BY <2>2, <3>1, <3>3, <3>5 DEF Steady
  <2>7. CASE ReloadFails(w)
    <3>1. pc'[w] = "idle"
      BY <1>0, <2>7 DEF ReloadFails, Goto, TypeOK
    <3> QED
      BY <2>1, <2>7, <3>1, SteadyStays DEF ReloadFails
  <2> QED
    BY <1>3, <2>3, <2>4, <2>5, <2>6, <2>7 DEF Step
<1>4. CASE UNCHANGED vars
  BY <1>4 DEF vars, Steady, OneListApart, OldOrNew, AtTheQueries, Sole
<1> QED
  BY <1>1, <1>2, <1>3, <1>4 DEF Next

LEMMA SteadyInvariant ==
  ASSUME Apart
  PROVE  Spec => [](IInv /\ Steady)
<1>1. Init => IInv /\ Steady
  BY IInvInit, SteadyInit
<1>2. IInv /\ Steady /\ [Next]_vars => IInv' /\ Steady'
  BY IInvNext, SteadyNext
<1> QED
  BY <1>1, <1>2, PTL DEF Spec

(* Under the same hypothesis a verdict turns, in the course of such a        *)
(* command, only to what the rows say by then (DecisionsMoveToRules): the    *)
(* only list that changes is the one in which the command's row shows, and   *)
(* it comes whole (utils.rs:140, 161, 171, 181).                             *)
THEOREM VerdictsMoveOnce ==
  ASSUME Apart
  PROVE  Spec => DecisionsMoveToRules
<1> DEFINE Moves(a) == send_by_auth(lists', a[1], a[2])
                         \in {send_by_auth(lists, a[1], a[2]), Verdict(rules', a[1], a[2])}
<1>1. IInv /\ Steady /\ [Next]_vars
        => (before' = before /\ before # None /\ suspect \cup suspect' = {}
              => \A a \in Asked : Moves(a))
  <2> SUFFICES ASSUME IInv, Steady, [Next]_vars, before # None,
                      suspect = {}, suspect' = {}, NEW a \in Asked
               PROVE  Moves(a)
    OBVIOUS
  <2>1. CASE lists' = lists
    BY <2>1
  <2>2. ASSUME NEW w \in Worker, Publish(w) PROVE Moves(a)
    <3>1. PICK t \in ReloadType : /\ lists' = [lists EXCEPT ![t] = Loaded(rules, t)]
                                  /\ rules' = rules
      BY <2>2, PublishesTheRows
    <3>2. PICK x \in ReloadType :
            \A y \in ReloadType \ {x} : Loaded(before, y) = Loaded(rules, y)
      BY DEF Steady, OneListApart
    <3>3. \A y \in ReloadType \ {x} : lists[y] = Loaded(rules, y)
      BY <3>2 DEF Steady, OldOrNew
    <3>4. DOMAIN lists = ReloadType /\ rules \in SUBSET Rule
          /\ lists = [y \in ReloadType |-> lists[y]]
      BY DEF IInv, Typed, TypeOK, Lists, ReloadType
    <3>5. CASE t = x
      <4>1. \A y \in ReloadType : lists'[y] = Loaded(rules, y)
        BY <3>1, <3>3, <3>4, <3>5
      <4>2. a[1] \in GroupId \cup {None} /\ a[2] \in UserId \cup {None}
        BY DEF Asked
      <4> QED
        BY <3>1, <3>4, <4>1, <4>2, VerdictFollows
    <3>6. CASE t # x
      BY <3>1, <3>3, <3>4, <3>6
    <3> QED
      BY <3>5, <3>6
  <2>3. ASSUME NEW w \in Worker, Step(w), ~Publish(w) PROVE lists' = lists
    BY <2>3 DEF Step, Find, Save, Delete, CommandFails, Fetch, Fill, ReloadFails
  <2>4. ASSUME NEW w \in Worker, Start(w) PROVE lists' = lists
    BY <2>4 DEF Start
  <2>5. ~Restart
    BY DEF Restart, ReloadType
  <2>6. CASE UNCHANGED vars
    BY <2>1, <2>6 DEF vars
  <2> QED
    BY <2>1, <2>2, <2>3, <2>4, <2>5, <2>6 DEF Next
<1> QED
  BY <1>1, SteadyInvariant, PTL DEF Spec, DecisionsMoveToRules

=============================================================================
