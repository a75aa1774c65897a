---------------------------- MODULE AccessRules ----------------------------
(***************************************************************************)
(* The black and white lists: the superusers' commands (command.rs) change  *)
(* the rule table, DatabaseCache::reload_database_data copies it into four  *)
(* lists, one query at a time, and send_by_auth decides from the lists,     *)
(* which it reads one at a time as well (module Judging).                   *)
(*                                                                         *)
(* A command runs in the task that reads a link, so with one link there is  *)
(* one Worker and with several (LoadBalance) one per link.  Every query is  *)
(* an await: other workers act between two of them, and each may fail.      *)
(***************************************************************************)
EXTENDS Naturals, Sequences, FiniteSets

CONSTANTS
  Worker,       \* tasks that run commands
  GroupId,      \* ids of groups
  UserId,       \* ids of users
  Given,        \* bound: the commands that are given
  NullMatches,  \* whether the query group_chat_id = NULL finds the rows that
                \* have none (sea-orm and the database, outside src/)
  DefaultAllow, \* the default policy
  MaxRows,      \* bound: rows in the table
  None

VARIABLES
  rules,    \* the rows of the rule table
  lists,    \* the four lists in memory
  pc,       \* Worker -> where it is in handle_action
  cmd,      \* Worker -> the command it executes
  todo,     \* Worker -> the lists still to reload
  left,     \* Worker -> groups whose excluded users are still to be queried
  got,      \* Worker -> the list read so far
  before,   \* history: the rules when the latest command began, None when
            \* it overlaps another
  suspect,  \* history: lists whose last reload failed or read a table that
            \* changed or, after a start, that were not loaded yet
  torn      \* history: workers at a reload whose table has changed meanwhile

vars == <<rules, lists, pc, cmd, todo, left, got, before, suspect, torn>>

workVars == <<pc, cmd, todo, left, got>>

-----------------------------------------------------------------------------
ItemType == {"BlackList", "WhiteList"}

ReloadType == {"WhileGroup", "BlackGroup", "WhileUser", "BlackUser"}

Rule ==
  [chat_id : GroupId, group_chat_id : {None}, chat_type : {"group"},
   item_type : ItemType]
  \cup
  [chat_id : UserId, group_chat_id : GroupId \cup {None}, chat_type : {"user"},
   item_type : ItemType]

GroupInfo == [id : GroupId, exclude_user : SUBSET UserId]

Lists ==
  [WhileGroup : SUBSET GroupInfo, BlackGroup : SUBSET GroupInfo,
   WhileUser : SUBSET UserId, BlackUser : SUBSET UserId]

Command ==
  [kind : {"create_group", "delete_group"}, id : GroupId,
   group_id : {None}, item_type : ItemType]
  \cup
  [kind : {"create_user", "delete_user"}, id : UserId,
   group_id : GroupId \cup {None}, item_type : ItemType]

ASSUME ConstantsAssumption ==
  /\ NullMatches \in BOOLEAN /\ DefaultAllow \in BOOLEAN
  /\ MaxRows \in Nat
  /\ Worker # {}
  /\ Given \subseteq Command
  /\ None \notin GroupId \cup UserId \cup Command

-----------------------------------------------------------------------------
(* The queries of reload_database_data.                                     *)

(* group_chat_id = g, where g may be NULL.                                  *)
InGroup(r, g) ==
  r.group_chat_id = g /\ (g # None \/ NullMatches)

ListedGroups(rs, item) ==
  {r.chat_id : r \in {x \in rs : x.chat_type = "group" /\ x.item_type = item}}

ListedUsers(rs, item, g) ==
  {r.chat_id : r \in {x \in rs : /\ x.chat_type = "user"
                                 /\ x.item_type = item
                                 /\ InGroup(x, g)}}

ItemOf == [WhileGroup |-> "WhiteList", BlackGroup |-> "BlackList",
           WhileUser |-> "WhiteList", BlackUser |-> "BlackList"]

(* The users excluded from a white group are those black in it, and the     *)
(* other way round.                                                         *)
Opposite == [WhiteList |-> "BlackList", BlackList |-> "WhiteList"]

IsGroupList(t) == t \in {"WhileGroup", "BlackGroup"}

(* Mutant of Excluded: the users excluded are those of the group's own      *)
(* colour.                                                                  *)
ExcludedSameColour(rs, t, id) ==
  [id |-> id, exclude_user |-> ListedUsers(rs, ItemOf[t], id)]

Excluded(rs, t, id) ==
  [id |-> id, exclude_user |-> ListedUsers(rs, Opposite[ItemOf[t]], id)]

(* What a reload of list t yields when nothing changes meanwhile.           *)
Loaded(rs, t) ==
  IF IsGroupList(t) THEN {Excluded(rs, t, id) : id \in ListedGroups(rs, ItemOf[t])}
                    ELSE ListedUsers(rs, ItemOf[t], None)

LoadAll(rs) == [t \in ReloadType |-> Loaded(rs, t)]

-----------------------------------------------------------------------------
(* send_by_auth for a message of user u, None when it has none, in group g, *)
(* None outside groups.  It reads one list after another, each under its    *)
(* own lock (module Judging), and returns at the first that decides: a Turn *)
(* is one read of the lists ls, to the next place or to the decision.       *)
Place ==
  {"BlackUser", "WhileUser", "WhileGroup", "BlackUserAgain", "BlackGroup",
   "WhileUserAgain"}

Decision == {"allow", "deny"}

ByDefault == IF DefaultAllow THEN "allow" ELSE "deny"

(* Where the message goes that no list of users decides.                    *)
OfGroup(g) == IF g # None THEN "WhileGroup" ELSE ByDefault

Enter(g, u) == IF u # None THEN "BlackUser" ELSE OfGroup(g)

Turn(ls, at, g, u) ==
  LET listed(t) == \E i \in ls[t] : i.id = g
      excludes(t) == \E i \in ls[t] : i.id = g /\ u \in i.exclude_user
      ofListed(t, is, isNot, again) ==
        IF u = None THEN is ELSE IF excludes(t) THEN isNot ELSE again
  IN CASE at = "BlackUser" -> IF u \in ls["BlackUser"] THEN "deny" ELSE "WhileUser"
       [] at = "WhileUser" -> IF u \in ls["WhileUser"] THEN "allow" ELSE OfGroup(g)
       [] at = "WhileGroup" -> IF listed("WhileGroup")
                               THEN ofListed("WhileGroup", "allow", "deny",
                                             "BlackUserAgain")
                               ELSE "BlackGroup"
       [] at = "BlackUserAgain" -> IF u \in ls["BlackUser"] THEN "deny" ELSE "allow"
       [] at = "BlackGroup" -> IF listed("BlackGroup")
                               THEN ofListed("BlackGroup", "deny", "allow",
                                             "WhileUserAgain")
                               ELSE ByDefault
       [] at = "WhileUserAgain" -> IF u \in ls["WhileUser"] THEN "allow" ELSE "deny"
       [] OTHER -> at

(* The judging that nothing is published in: it makes five turns at most.   *)
send_by_auth(ls, g, u) ==
  LET turn(at) == Turn(ls, at, g, u)
  IN turn(turn(turn(turn(turn(Enter(g, u)))))) = "allow"

-----------------------------------------------------------------------------
TypeOK ==
  /\ rules \in SUBSET Rule
  /\ lists \in Lists
  /\ pc \in [Worker -> {"idle", "find", "save", "delete", "fetch", "fill"}]
  /\ cmd \in [Worker -> Given \cup {None}]
  /\ todo \in [Worker -> Seq(ReloadType)]
  /\ left \in [Worker -> SUBSET GroupId]
  /\ DOMAIN got = Worker
  /\ \A w \in Worker :
       got[w] \in IF pc[w] = "fill" /\ ~IsGroupList(Head(todo[w]))
                 THEN SUBSET UserId ELSE SUBSET GroupInfo
  /\ before \in (SUBSET Rule) \cup {None}
  /\ suspect \in SUBSET ReloadType
  /\ torn \in SUBSET Worker

(* The program starts on whatever the table holds: DatabaseCache::load is   *)
(* about to fill the four lists, and nothing else runs before it has ended. *)
(* Any of the workers stands for the task that loads.                       *)
AllLists == <<"WhileGroup", "BlackGroup", "WhileUser", "BlackUser">>

Empty == [t \in ReloadType |-> {}]

Init ==
  /\ rules \in {rs \in SUBSET Rule : Cardinality(rs) <= MaxRows}
  /\ lists = Empty
  /\ \E loader \in Worker :
       /\ pc = [w \in Worker |-> IF w = loader THEN "fetch" ELSE "idle"]
       /\ todo = [w \in Worker |-> IF w = loader THEN AllLists ELSE <<>>]
  /\ cmd = [w \in Worker |-> None]
  /\ left = [w \in Worker |-> {}]
  /\ got = [w \in Worker |-> {}]
  /\ before = rules
  /\ suspect = ReloadType
  /\ torn = {}

(* The process dies, whatever it is at, and is started again: the table     *)
(* stays, the lists are loaded anew.                                        *)
Restart ==
  /\ lists' = Empty
  /\ \E loader \in Worker :
       /\ pc' = [w \in Worker |-> IF w = loader THEN "fetch" ELSE "idle"]
       /\ todo' = [w \in Worker |-> IF w = loader THEN AllLists ELSE <<>>]
  /\ cmd' = [w \in Worker |-> None]
  /\ left' = [w \in Worker |-> {}]
  /\ got' = [w \in Worker |-> {}]
  /\ before' = rules
  /\ suspect' = ReloadType
  /\ torn' = {}
  /\ UNCHANGED rules

Loading(w) == pc[w] # "idle" /\ cmd[w] = None

Goto(w, label) == pc' = [pc EXCEPT ![w] = label]

Busy == {v \in Worker : pc[v] # "idle"}

Start(w) ==
  /\ pc[w] = "idle"
  /\ \A v \in Worker : ~Loading(v)
  /\ \E c \in Given :
       /\ cmd' = [cmd EXCEPT ![w] = c]
       /\ Goto(w, IF c.kind \in {"create_group", "create_user"} THEN "find"
                  ELSE "delete")
  /\ before' = IF Busy = {} THEN rules ELSE None
  /\ UNCHANGED <<rules, lists, todo, left, got, suspect, torn>>

(* Mutant of ReloadTypes: a user's command reloads the group list of its    *)
(* own colour, not the opposite one.                                        *)
ReloadTypesSameColour(c) ==
  IF c.kind \in {"create_group", "delete_group"}
  THEN IF c.item_type = "BlackList" THEN <<"BlackGroup">> ELSE <<"WhileGroup">>
  ELSE IF c.item_type = "BlackList" THEN <<"BlackGroup", "BlackUser">>
                                    ELSE <<"WhileGroup", "WhileUser">>

(* Which lists handle_action reloads after a command, whatever its result.  *)
ReloadTypes(c) ==
  IF c.kind \in {"create_group", "delete_group"}
  THEN IF c.item_type = "BlackList" THEN <<"BlackGroup">> ELSE <<"WhileGroup">>
  ELSE IF c.item_type = "BlackList" THEN <<"WhileGroup", "BlackUser">>
                                    ELSE <<"BlackGroup", "WhileUser">>

Reload(w) ==
  /\ todo' = [todo EXCEPT ![w] = ReloadTypes(cmd[w])]
  /\ Goto(w, "fetch")

(* Rows that a command counts as already there, or deletes: those of its id *)
(* and item type, for a user those of its group; for a group whatever their *)
(* chat type.                                                               *)
Matching(c) ==
  {r \in rules : /\ r.chat_id = c.id
                 /\ r.item_type = c.item_type
                 /\ c.kind \in {"create_user", "delete_user"}
                      => InGroup(r, c.group_id)}

(* Mutant of NewRule: create_user keeps the chat type of create_group.      *)
NewRuleOfGroup(c) ==
  [chat_id |-> c.id, group_chat_id |-> c.group_id, item_type |-> c.item_type,
   chat_type |-> "group"]

(* The row that create_group or create_user saves.                          *)
NewRule(c) ==
  [chat_id |-> c.id, group_chat_id |-> c.group_id, item_type |-> c.item_type,
   chat_type |-> IF c.kind = "create_group" THEN "group" ELSE "user"]

Find(w) ==
  /\ pc[w] = "find"
  /\ \/ /\ Matching(cmd[w]) # {}
        /\ Reload(w)
     \/ /\ Matching(cmd[w]) = {}
        /\ Goto(w, "save")
        /\ UNCHANGED todo
  /\ UNCHANGED <<rules, lists, cmd, left, got, before, suspect, torn>>

(* A change of the table falls between the queries of those that reload.    *)
TearReads ==
  torn' = IF rules' = rules THEN torn
          ELSE torn \cup {v \in Worker : pc[v] = "fill"}

(* The table has no unique key but its row number, so two workers that both *)
(* found nothing may both save; equal rows are one element here, as every   *)
(* query treats them alike.  A table of MaxRows rows refuses another.       *)
Save(w) ==
  /\ pc[w] = "save"
  /\ Cardinality(rules) < MaxRows
  /\ rules' = rules \cup {NewRule(cmd[w])}
  /\ Reload(w)
  /\ TearReads
  /\ UNCHANGED <<lists, cmd, left, got, before, suspect>>

Delete(w) ==
  /\ pc[w] = "delete"
  /\ rules' = rules \ Matching(cmd[w])
  /\ Reload(w)
  /\ TearReads
  /\ UNCHANGED <<lists, cmd, left, got, before, suspect>>

(* A query of the command fails: the error is the response, after the       *)
(* reload all the same.                                                     *)
CommandFails(w) ==
  /\ pc[w] \in {"find", "save", "delete"}
  /\ Reload(w)
  /\ UNCHANGED <<rules, lists, cmd, left, got, before, suspect, torn>>

-----------------------------------------------------------------------------
(* reload_database_data, for the list at the head of todo.                  *)

(* Mutant of Fetch: the list is cleared and filled in place.                *)
FetchClears(w) ==
  LET t == Head(todo[w]) IN
  /\ pc[w] = "fetch"
  /\ left' = [left EXCEPT ![w] = IF IsGroupList(t)
                                 THEN ListedGroups(rules, ItemOf[t]) ELSE {}]
  /\ got' = [got EXCEPT ![w] = IF IsGroupList(t) THEN {}
                               ELSE Loaded(rules, t)]
  /\ lists' = [lists EXCEPT ![t] = {}]
  /\ Goto(w, "fill")
  /\ UNCHANGED <<rules, cmd, todo, before, suspect, torn>>

Fetch(w) ==
  LET t == Head(todo[w]) IN
  /\ pc[w] = "fetch"
  /\ left' = [left EXCEPT ![w] = IF IsGroupList(t)
                                 THEN ListedGroups(rules, ItemOf[t]) ELSE {}]
  /\ got' = [got EXCEPT ![w] = IF IsGroupList(t) THEN {}
                               ELSE Loaded(rules, t)]
  /\ Goto(w, "fill")
  /\ UNCHANGED <<rules, lists, cmd, todo, before, suspect, torn>>

(* One more query for each group found.                                     *)
Fill(w) ==
  /\ pc[w] = "fill"
  /\ \E id \in left[w] :
       /\ left' = [left EXCEPT ![w] = @ \ {id}]
       /\ got' = [got EXCEPT ![w] = @ \cup {Excluded(rules, Head(todo[w]), id)}]
  /\ UNCHANGED <<rules, lists, pc, cmd, todo, before, suspect, torn>>

(* The list is replaced at once when it is complete.                        *)
Publish(w) ==
  /\ pc[w] = "fill"
  /\ left[w] = {}
  /\ lists' = [lists EXCEPT ![Head(todo[w])] = got[w]]
  /\ suspect' = IF w \in torn THEN suspect \cup {Head(todo[w])}
                ELSE suspect \ {Head(todo[w])}
  /\ torn' = torn \ {w}
  /\ todo' = [todo EXCEPT ![w] = Tail(@)]
  /\ got' = [got EXCEPT ![w] = {}]
  /\ IF Len(todo[w]) = 1
     THEN Goto(w, "idle") /\ cmd' = [cmd EXCEPT ![w] = None]
     ELSE Goto(w, "fetch") /\ UNCHANGED cmd
  /\ UNCHANGED <<rules, left, before>>

(* A query of the reload fails: the error is logged, and the lists that     *)
(* were still to come keep what they had (nothing, if it is the load).      *)
ReloadFails(w) ==
  /\ \/ pc[w] = "fetch"
     \/ pc[w] = "fill" /\ left[w] # {}
  /\ suspect' = suspect \cup {todo[w][i] : i \in 1 .. Len(todo[w])}
  /\ todo' = [todo EXCEPT ![w] = <<>>]
  /\ left' = [left EXCEPT ![w] = {}]
  /\ got' = [got EXCEPT ![w] = {}]
  /\ torn' = torn \ {w}
  /\ Goto(w, "idle")
  /\ cmd' = [cmd EXCEPT ![w] = None]
  /\ UNCHANGED <<rules, lists, before>>

-----------------------------------------------------------------------------
Step(w) ==
  Find(w) \/ Save(w) \/ Delete(w) \/ CommandFails(w)
  \/ Fetch(w) \/ Fill(w) \/ Publish(w) \/ ReloadFails(w)

Next == Restart \/ \E w \in Worker : Start(w) \/ Step(w)

Spec == Init /\ [][Next]_vars

(* A query returns or fails, and the scheduler runs the task on.            *)
LiveSpec == Spec /\ \A w \in Worker : WF_vars(Step(w))

-----------------------------------------------------------------------------
(* What the rows say of a message, without any list: a row for the user     *)
(* everywhere comes first, black before white; then a row for the group,    *)
(* white before black, which an opposite row for the user in that group     *)
(* reverses; then the default policy.                                       *)
HasUser(rs, u, g, item) ==
  [chat_id |-> u, group_chat_id |-> g, chat_type |-> "user",
   item_type |-> item] \in rs

HasGroup(rs, g, item) ==
  [chat_id |-> g, group_chat_id |-> None, chat_type |-> "group",
   item_type |-> item] \in rs

Verdict(rs, g, u) ==
  LET everywhere(item) == NullMatches /\ HasUser(rs, u, None, item) IN
  IF everywhere("BlackList") \/ everywhere("WhiteList")
  THEN ~everywhere("BlackList")
  ELSE IF HasGroup(rs, g, "WhiteList") THEN ~HasUser(rs, u, g, "BlackList")
  ELSE IF HasGroup(rs, g, "BlackList") THEN HasUser(rs, u, g, "WhiteList")
  ELSE DefaultAllow

Asked == (GroupId \cup {None}) \X (UserId \cup {None})

(* When no command is at work and no list is suspect, every message is      *)
(* judged as the rows of the table say, whatever commands, failures and      *)
(* restarts there were before and however the commands overlapped.  A list   *)
(* is suspect only if its last reload failed, or read a table that changed   *)
(* before the list was replaced, and until it is reloaded: handle_action     *)
(* reloads every list its command can have changed (command.rs:101-118), and *)
(* the lists with send_by_auth stand for the table (utils.rs:118-234).       *)
DecisionsFollowRules ==
  (suspect = {} /\ \A w \in Worker : pc[w] = "idle")
    => \A a \in Asked : send_by_auth(lists, a[1], a[2]) = Verdict(rules, a[1], a[2])

(* In the course of a command that overlaps no other, the verdict of the four *)
(* lists as they stand turns only to what the rows say by then: the list    *)
(* that is published second (utils.rs:171, 181) never takes back what the    *)
(* first one brought (140, 161).                                             *)
DecisionsMoveToRules ==
  [][before' = before /\ before # None /\ suspect \cup suspect' = {} =>
       \A a \in Asked :
         send_by_auth(lists', a[1], a[2])
           \in {send_by_auth(lists, a[1], a[2]), Verdict(rules', a[1], a[2])}]_vars

(* command.rs:159, "delete a group": a command about a group takes no row   *)
(* of a user away; such a row goes only when some worker is at deleting a   *)
(* user (160-167).                                                          *)
GroupCommandsKeepUsers ==
  [][(\E r \in rules \ rules' : r.chat_type = "user")
       => \E w \in Worker : pc[w] = "delete" /\ cmd[w].kind = "delete_user"]_vars
=============================================================================
