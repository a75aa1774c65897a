--------------------------- MODULE JudgingProofs ---------------------------
(***************************************************************************)
(* Proofs about Judging, for any workers, groups, users and tables.         *)
(***************************************************************************)
EXTENDS Judging, AccessRulesProofs

(* The list that is read at a place.                                        *)
ReadAt(at) ==
  CASE at \in {"BlackUser", "BlackUserAgain"} -> "BlackUser"
    [] at \in {"WhileUser", "WhileUserAgain"} -> "WhileUser"
    [] OTHER -> at

(* A turn looks at one list only.                                           *)
LEMMA TurnLooksAtOne ==
  ASSUME NEW ls, NEW ms, NEW at \in Place, NEW g, NEW u,
         ls[ReadAt(at)] = ms[ReadAt(at)]
  PROVE  Turn(ls, at, g, u) = Turn(ms, at, g, u)
<1>1. CASE at \in {"BlackUser", "BlackUserAgain"}
  BY <1>1, TurnIs DEF ReadAt
<1>2. CASE at \in {"WhileUser", "WhileUserAgain"}
  BY <1>2, TurnIs DEF ReadAt
<1>3. CASE at = "WhileGroup"
  <2>1. ls["WhileGroup"] = ms["WhileGroup"]
    BY <1>3 DEF ReadAt
  <2>2. Listed(ls, at, g) = Listed(ms, at, g) /\ Excludes(ls, at, g, u) = Excludes(ms, at, g, u)
    BY <1>3, <2>1 DEF Listed, Excludes
  <2> QED
    BY <1>3, <2>2, TurnIs
<1>4. CASE at = "BlackGroup"
  <2>1. ls["BlackGroup"] = ms["BlackGroup"]
    BY <1>4 DEF ReadAt
  <2>2. Listed(ls, at, g) = Listed(ms, at, g) /\ Excludes(ls, at, g, u) = Excludes(ms, at, g, u)
    BY <1>4, <2>1 DEF Listed, Excludes
  <2> QED
    BY <1>4, <2>2, TurnIs
<1> QED
  BY <1>1, <1>2, <1>3, <1>4 DEF Place

(* Lists that differ in the one read at a place: the way there is the same, *)
(* unless the list was read before and decides now.                         *)
LEMMA WayIsTheSame ==
  ASSUME NEW ls, NEW ms, NEW g, NEW u, NEW at,
         \A t \in ReloadType \ {ReadAt(at)} : ls[t] = ms[t],
         Passed(ls, at, g, u)
  PROVE  \/ Passed(ms, at, g, u)
         \/ at = "BlackUserAgain" /\ u # None /\ u \in ms["BlackUser"]
         \/ /\ at = "WhileUserAgain" /\ u # None /\ u \in ms["WhileUser"]
            /\ u \notin ms["BlackUser"]
<1>1. CASE at = "BlackUser"
  BY <1>1 DEF Passed, Place
<1>2. CASE at = "WhileUser"
  <2>1. ls["BlackUser"] = ms["BlackUser"]
    BY <1>2 DEF ReadAt, ReloadType
  <2> QED
    BY <1>2, <2>1 DEF Passed, Place
<1>3. CASE at = "WhileGroup"
  <2>1. ls["BlackUser"] = ms["BlackUser"] /\ ls["WhileUser"] = ms["WhileUser"]
    BY <1>3 DEF ReadAt, ReloadType
  <2> QED
    BY <1>3, <2>1 DEF Passed, Place
<1>4. CASE at = "BlackUserAgain"
  <2>1. ls["WhileGroup"] = ms["WhileGroup"] /\ ls["WhileUser"] = ms["WhileUser"]
    BY <1>4 DEF ReadAt, ReloadType
  <2> QED
    BY <1>4, <2>1 DEF Passed, Place, Listed, Excludes
<1>5. CASE at = "BlackGroup"
  <2>1. /\ ls["BlackUser"] = ms["BlackUser"] /\ ls["WhileUser"] = ms["WhileUser"]
        /\ ls["WhileGroup"] = ms["WhileGroup"]
    BY <1>5 DEF ReadAt, ReloadType
  <2> QED
    BY <1>5, <2>1 DEF Passed, Place, Listed
<1>6. CASE at = "WhileUserAgain"
  <2>1. /\ ls["BlackUser"] = ms["BlackUser"] /\ ls["WhileGroup"] = ms["WhileGroup"]
        /\ ls["BlackGroup"] = ms["BlackGroup"]
    BY <1>6 DEF ReadAt, ReloadType
  <2> QED
    BY <1>6, <2>1 DEF Passed, Place, Listed, Excludes
<1> QED
  BY <1>1, <1>2, <1>3, <1>4, <1>5, <1>6 DEF Passed, Place

LEMMA LoadedAll ==
  ASSUME NEW rs
  PROVE  \A t \in ReloadType : LoadAll(rs)[t] = Loaded(rs, t)
BY DEF LoadAll

(* One turn on lists each of which is that of rs or that of qs, two tables  *)
(* that show in one list apart.                                             *)
LEMMA TurnBetween ==
  ASSUME NEW rs \in SUBSET Rule, NEW qs \in SUBSET Rule, NEW x \in ReloadType,
         \A t \in ReloadType \ {x} : Loaded(rs, t) = Loaded(qs, t),
         NEW ls, \A t \in ReloadType : ls[t] \in {Loaded(rs, t), Loaded(qs, t)},
         NEW g \in GroupId \cup {None}, NEW u \in UserId \cup {None}, NEW at,
         Passed(LoadAll(rs), at, g, u) \/ Passed(LoadAll(qs), at, g, u)
  PROVE  LET next == Turn(ls, at, g, u) IN
         \/ /\ next \in Place
            /\ Passed(LoadAll(rs), next, g, u) \/ Passed(LoadAll(qs), next, g, u)
         \/ /\ next \in Decision
            /\ (next = "allow") \in {Verdict(rs, g, u), Verdict(qs, g, u)}
<1> DEFINE next == Turn(ls, at, g, u)
           l == ReadAt(at)
           Good == \/ /\ next \in Place
                      /\ Passed(LoadAll(rs), next, g, u) \/ Passed(LoadAll(qs), next, g, u)
                   \/ /\ next \in Decision
                      /\ (next = "allow") \in {Verdict(rs, g, u), Verdict(qs, g, u)}
<1>1. at \in Place /\ l \in ReloadType
  BY DEF Passed, Place, ReadAt, ReloadType
<1>2. ASSUME NEW n \in {rs, qs}, ls[l] = Loaded(n, l), Passed(LoadAll(n), at, g, u)
      PROVE  Good
  <2>1. next = Turn(LoadAll(n), at, g, u)
    BY <1>1, <1>2, LoadedAll, TurnLooksAtOne
  <2>2. \/ next \in Onward(at) /\ Passed(LoadAll(n), next, g, u)
        \/ next \in Decision /\ (next = "allow") = Verdict(n, g, u)
    BY <1>2, <2>1, LoadedAll, TurnFollows
  <2>3. \A p : Passed(LoadAll(n), p, g, u) => p \in Place
    BY DEF Passed
  <2> QED
    BY <2>2, <2>3
<1>3. ASSUME NEW n \in {rs, qs}, NEW m \in {rs, qs}, Passed(LoadAll(m), at, g, u),
             ls[l] = Loaded(n, l)
      PROVE  Good
  <2>1. CASE Loaded(m, l) = Loaded(n, l)
    BY <1>2, <1>3, <2>1
  <2>2. CASE Loaded(m, l) # Loaded(n, l)
    <3>1. l = x
      BY <1>1, <1>3, <2>2
    <3>2. \A t \in ReloadType \ {ReadAt(at)} : LoadAll(m)[t] = LoadAll(n)[t]
      BY <1>3, <3>1, LoadedAll
    <3>3. CASE Passed(LoadAll(n), at, g, u)
      BY <1>2, <1>3, <3>3
    <3>4. CASE at = "BlackUserAgain" /\ u # None /\ u \in LoadAll(n)["BlackUser"]
      <4>1. next = Turn(LoadAll(n), at, g, u)
        BY <1>1, <1>3, LoadedAll, TurnLooksAtOne
      <4>2. next = "deny"
        BY <3>4, <4>1, TurnIs
      <4>3. Verdict(n, g, u) = FALSE
        BY <3>4, LoadedAll, VerdictIs
      <4> QED
        BY <4>2, <4>3 DEF Decision
    <3>5. CASE /\ at = "WhileUserAgain" /\ u # None /\ u \in LoadAll(n)["WhileUser"]
               /\ u \notin LoadAll(n)["BlackUser"]
      <4>1. next = Turn(LoadAll(n), at, g, u)
        BY <1>1, <1>3, LoadedAll, TurnLooksAtOne
      <4>2. next = "allow"
        BY <3>5, <4>1, TurnIs
      <4>3. Verdict(n, g, u) = TRUE
        BY <3>5, LoadedAll, VerdictIs
      <4> QED
        BY <4>2, <4>3 DEF Decision
    <3> QED
      BY <1>3, <3>2, <3>3, <3>4, <3>5, WayIsTheSame
  <2> QED
    BY <2>1, <2>2
<1>4. PICK n \in {rs, qs} : ls[l] = Loaded(n, l)
  BY <1>1
<1> QED
  BY <1>3, <1>4

-----------------------------------------------------------------------------
(* A judging that is followed: no list is suspect, the command at work, if  *)
(* there is one, began on the table the judging began on, and the judging    *)
(* has come to its place as one of the two tables sends it.                  *)
Followed ==
  place # "none" =>
    /\ suspect = {}
    /\ before = since \/ (rules = since /\ Busy = {})
    /\ \/ Passed(LoadAll(since), place, asked[1], asked[2])
       \/ Passed(LoadAll(rules), place, asked[1], asked[2])

JInv == IInv /\ Steady /\ JudgeTypeOK /\ Followed

(* The lists are then those of the one table or of the other.               *)
LEMMA ListsBetween ==
  ASSUME JInv, place # "none"
  PROVE  /\ rules \in SUBSET Rule /\ since \in SUBSET Rule
         /\ asked[1] \in GroupId \cup {None} /\ asked[2] \in UserId \cup {None}
         /\ \E x \in ReloadType :
              \A t \in ReloadType \ {x} : Loaded(since, t) = Loaded(rules, t)
         /\ \A t \in ReloadType : lists[t] \in {Loaded(since, t), Loaded(rules, t)}
<1>1. /\ rules \in SUBSET Rule /\ since \in SUBSET Rule
      /\ asked[1] \in GroupId \cup {None} /\ asked[2] \in UserId \cup {None}
      /\ suspect = {}
  BY DEF JInv, IInv, Typed, TypeOK, JudgeTypeOK, Followed, Asked
<1>2. CASE before = since
  <2>1. OneListApart /\ OldOrNew
    BY <1>1, <1>2, NoneIsNoTable DEF JInv, Steady
  <2> QED
    BY <1>1, <1>2, <2>1 DEF OneListApart, OldOrNew
<1>3. CASE rules = since /\ Busy = {}
  <2>1. \A v \in Worker : pc[v] \notin {"fetch", "fill"}
    BY <1>3 DEF Busy
  <2>2. \A t \in ReloadType : lists[t] = Loaded(rules, t)
    BY <1>1, <2>1, QuietIsFresh DEF JInv, IInv
  <2>3. "BlackUser" \in ReloadType
    BY DEF ReloadType
  <2> QED
    BY <1>1, <1>3, <2>2, <2>3
<1> QED
  BY <1>2, <1>3 DEF JInv, Followed

LEMMA LookFollows ==
  ASSUME JInv, place # "none"
  PROVE  \/ /\ Answers \in Place
            /\ \/ Passed(LoadAll(since), Answers, asked[1], asked[2])
               \/ Passed(LoadAll(rules), Answers, asked[1], asked[2])
         \/ /\ Answers \in Decision
            /\ (Answers = "allow") \in {Verdict(since, asked[1], asked[2]),
                                        Verdict(rules, asked[1], asked[2])}
<1>1. PICK x \in ReloadType :
        \A t \in ReloadType \ {x} : Loaded(since, t) = Loaded(rules, t)
  BY ListsBetween
<1>2. \/ Passed(LoadAll(since), place, asked[1], asked[2])
      \/ Passed(LoadAll(rules), place, asked[1], asked[2])
  BY DEF JInv, Followed
<1>3. /\ rules \in SUBSET Rule /\ since \in SUBSET Rule
      /\ asked[1] \in GroupId \cup {None} /\ asked[2] \in UserId \cup {None}
      /\ \A t \in ReloadType : lists[t] \in {Loaded(since, t), Loaded(rules, t)}
  BY ListsBetween
<1> QED
  BY <1>1, <1>2, <1>3, TurnBetween DEF Answers

LEMMA JudgingNext ==
  ASSUME Apart
  PROVE  JInv /\ [Ask \/ Look \/ Work \/ Crash]_judgingVars => JInv'
<1> SUFFICES ASSUME JInv, [Ask \/ Look \/ Work \/ Crash]_judgingVars PROVE JInv'
  OBVIOUS
<1>1. IInv' /\ Steady'
  <2>1. [Next]_vars
    BY DEF Ask, Look, Work, Crash, Next, judgingVars
  <2> QED
    BY <2>1, IInvNext, SteadyNext DEF JInv
<1>2. CASE Ask
  <2>1. PICK a \in Asked : /\ a # <<None, None>> /\ asked' = a
                           /\ place' = Enter(a[1], a[2])
    BY <1>2 DEF Ask
  <2>2. /\ suspect' = {} /\ (Busy' # {} => before' # None)
        /\ since' = IF Busy' = {} THEN rules' ELSE before'
        /\ UNCHANGED vars
    BY <1>2 DEF Ask, vars, Busy
  <2>3. a[1] # None \/ a[2] # None
    BY <2>1 DEF Asked
  <2>4. Passed(LoadAll(rules'), place', asked'[1], asked'[2])
    BY <2>1, <2>3 DEF Enter, OfGroup, Passed, Place
  <2>5. place' \in Place /\ place' # "none"
    BY <2>4 DEF Passed, Place
  <2>6. since' \in SUBSET Rule
    BY <2>2 DEF JInv, IInv, Typed, TypeOK, vars
  <2>7. JudgeTypeOK' /\ Followed'
    BY <2>1, <2>2, <2>4, <2>5, <2>6 DEF JudgeTypeOK, Followed
  <2> QED
    BY <1>1, <2>7 DEF JInv
<1>3. CASE Look
  <2>1. CASE Answers \in Place
    <3>1. place' = Answers /\ UNCHANGED <<asked, since, vars>> /\ place # "none"
      BY <1>3, <2>1 DEF Look
    <3>2. Answers # "none" /\ Answers \notin Decision
      BY <2>1 DEF Place, Decision
    <3>3. \/ Passed(LoadAll(since), Answers, asked[1], asked[2])
          \/ Passed(LoadAll(rules), Answers, asked[1], asked[2])
      BY <3>1, <3>2, LookFollows
    <3>4. JudgeTypeOK' /\ Followed'
      BY <2>1, <3>1, <3>2, <3>3 DEF JInv, JudgeTypeOK, Followed, vars, Busy
    <3> QED
      BY <1>1, <3>4 DEF JInv
  <2>2. CASE Answers \notin Place
    BY <1>1, <1>3, <2>2 DEF Look, JInv, JudgeTypeOK, Followed
  <2> QED
    BY <2>1, <2>2
<1>4. CASE Work /\ (~OneCommand \/ place = "none")
  BY <1>1, <1>4 DEF Work, Watch, judgeVars, JInv, JudgeTypeOK, Followed
<1>5. CASE Work /\ OneCommand /\ place # "none"
  <2>1. /\ suspect' = {} /\ (before' = before \/ before' = since)
        /\ UNCHANGED <<place, asked, since>>
    BY <1>5 DEF Work, Watch, judgeVars, OneCommand
  <2>2. /\ suspect = {} /\ (before = since \/ (rules = since /\ Busy = {}))
        /\ \/ Passed(LoadAll(since), place, asked[1], asked[2])
           \/ Passed(LoadAll(rules), place, asked[1], asked[2])
        /\ since \in SUBSET Rule /\ since # None /\ TypeOK
    BY <1>5, NoneIsNoTable DEF JInv, IInv, Typed, Followed, JudgeTypeOK
  <2>3. ASSUME NEW w \in Worker, Start(w)
        PROVE  rules' = rules /\ before' = since
    <3>1. rules' = rules /\ before' = IF Busy = {} THEN rules ELSE None
      BY <2>3 DEF Start
    <3> QED
      BY <2>1, <2>2, <3>1
  <2>4. ASSUME NEW w \in Worker, Step(w)
        PROVE  /\ before' = since
               /\ rules' = rules \/ rules = since
    <3>1. before' = before /\ pc[w] # "idle"
      BY <2>2, <2>4, StepOfOne
    <3>2. before = since
      BY <2>2, <3>1 DEF Busy
    <3>3. pc[w] \in {"find", "save", "delete"} => rules = since
      BY <2>2, <3>2 DEF JInv, Steady, AtTheQueries
    <3>4. rules' = rules \/ pc[w] \in {"find", "save", "delete"}
      BY <2>4 DEF Step, Find, Save, Delete, CommandFails, Fetch, Fill, Publish, ReloadFails
    <3> QED
      BY <3>1, <3>2, <3>3, <3>4
  <2>5. before' = since /\ (rules' = rules \/ rules = since)
    BY <1>5, <2>3, <2>4 DEF Work
  <2>6. JudgeTypeOK' /\ Followed'
    BY <2>1, <2>2, <2>5 DEF JInv, JudgeTypeOK, Followed
  <2> QED
    BY <1>1, <2>6 DEF JInv
<1>6. CASE Crash
  <2>1. suspect' # {}
    BY <1>6 DEF Crash, Restart, ReloadType
  <2> QED
    BY <1>1, <1>6, <2>1 DEF Crash, Watch, OneCommand, JInv, JudgeTypeOK, Followed
<1>7. CASE UNCHANGED judgingVars
  BY <1>1, <1>7 DEF judgingVars, judgeVars, vars, JInv, JudgeTypeOK, Followed, Busy
<1> QED
  BY <1>2, <1>3, <1>4, <1>5, <1>6, <1>7

LEMMA JudgingInvariant ==
  ASSUME Apart
  PROVE  JudgingSpec => []JInv
<1>1. JudgingInit => JInv
  BY IInvInit, SteadyInit DEF JudgingInit, JInv, JudgeTypeOK, Followed
<1>2. JInv /\ [Ask \/ Look \/ Work \/ Crash]_judgingVars => JInv'
  BY JudgingNext
<1> QED
  BY <1>1, <1>2, PTL DEF JudgingSpec

(* What is proved of AccessRules holds while messages are judged as well.   *)
LEMMA JudgingChangesNothing == JudgingSpec => Spec
<1>1. JudgingInit => Init
  BY DEF JudgingInit
<1>2. [Ask \/ Look \/ Work \/ Crash]_judgingVars => [Next]_vars
  BY DEF Ask, Look, Work, Crash, Next, judgingVars
<1> QED
  BY <1>1, <1>2, PTL DEF JudgingSpec, Spec

(* For any number of links, any table and any commands, as long as no        *)
(* command deletes an id that a group and a user share: a judging that meets *)
(* the work of one command at most ends as the rows say that it found or     *)
(* those of now, wherever its reads fall among the lists that are published  *)
(* (NoGlitch; utils.rs:118-235, with a lock for each read).                  *)
THEOREM NoMixture ==
  ASSUME Apart
  PROVE  JudgingSpec => []NoGlitch
<1>1. JInv => NoGlitch
  BY LookFollows DEF NoGlitch, Place, Decision
<1> QED
  BY <1>1, JudgingInvariant, PTL

=============================================================================
