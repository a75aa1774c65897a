# onebot-forward-rs in TLA+

onebot-forward-rs sits between one or several OneBot implementations (bots that are logged in
to an account) and any number of SDK clients (programs that react to events and call the bot's
API). It keeps a websocket link to the implementation, broadcasts the implementation's events
to the clients, and carries the clients' API calls to the implementation and the answers back,
all of it subject to black and white lists that superusers edit by chat commands.

This directory holds TLA+ modules translated from the Rust source, TLC configurations that check
them on small instances, and TLAPS proofs for every instance. Line numbers refer to `src/src/`;
`sdk.rs` is `wss/sdk.rs`, `single.rs` and `multi.rs` are in `wss/impl/`.

## 1. The system

| part | state | operations | interacts with |
|---|---|---|---|
| API call path, `sdk.rs` 180-226, 240-255 | `echo_map`, `api_invoke_cache_map`, `same_api_map` | `handle_message` (a task per client), `response_message` (the task that reads the link) | rules (`send_by_auth`), link (`ImplSide::send`), clients' sockets |
| client registry and broadcast, `sdk.rs` 50-177, 229-237 | `writers_map` | `start`, `validate_headers`, `handle_connection`, `handle_connect`, `broadcast_message` | link (`alive`, connect event), clients' sockets |
| single / failover link, `single.rs` | `writer`, `user_id`, `last_heartbeat`, `disconnect`, `echo_tx_map`, an `active` flag per link | `connect`, `receive`, `handle_message`, `heartbeat_active`, `active_check`, `send_active_check_message` | all of the above, mail |
| load-balanced links, `multi.rs` | `writers`, `last_heartbeat_time`, `disconnect`, `echo_tx_map`, `echo_user_id_map`, `event_push_to_user_id` | `connect`, `handle_message`, `heartbeat_active`, `active_check`, `send_active_check_message`, `alive`; `send` is a stub | the same, `CacheModel` |
| access rules, `command.rs`, `utils.rs` 78-235 | the rule table, four lists in memory | create/delete of group/user, `reload_database_data`, `send_by_auth` | database, both link kinds, call path |
| expiring cache, `model/cache.rs` | values, deadlines | `get`, `set`, `delete`, `expire` | `multi.rs` |
| log file, `model/log.rs` | file, date | `write` | clock |
| mail, `utils.rs` 17-75 | none | `send_email`, `replace_placeholders` | SMTP |
| mode and dispatch `wss/impl.rs`, configuration `model/config.rs`, entry `main.rs`, message types, `migration/` | write-once | - | - |

Everything runs on tokio's multi-threaded scheduler. A task can be overtaken at every `.await`;
`tokio::sync::RwLock` is fair, so writers queue first come, first served. What is hard:

* **one map per lock, several maps per operation.** A call touches four structures, each under a
  lock of its own, and an answer touches three of them under locks taken at other moments.
* **locks held across I/O.** The guard in the head of a `for` or `if let` lives through its body (but not its `else`, edition 2024):
  a broadcast holds `writers_map`, an answer holds `echo_map`, a probe holds `echo_tx_map`
  while a socket is written to.
* **`?` in the middle of a loop.** An error of one client's call skips that client's removal; an
  error of one client's socket ends the link for everybody.
* **tasks that outlive what they are about.** The heartbeat and status tasks of a link are not
  stopped when the link ends; answers to their probes set flags the next link has just reset.
* **a cache beside a database**, filled by several queries, with failures and restarts between them.
* **maps that belong together under locks of their own.** With several links an account has a writer, a
  time and a flag, and a probe a channel and an account, put in one after the other by one task and
  taken out by another; the watcher of an account even sleeps with the map of times locked.

What would make each part correct, and where that is stated:

* call path: an answer goes to its caller, once, or is lost with the link (`RoutingSpec`, `WireIsBound`);
  no call is forwarded on an approval older than itself (`ClearedBeforeForwarding`); a refusal
  does not outlive its reason (`RefusalIsShortLived`, which the code does not keep).
* registry: every client being served knows that the bot is there (`ToldWhenOnline`); while the listener
  accepts and peers go on, nobody is kept out for ever (`JoinIsServed`), everyone who left is removed (`ClosedIsRemoved`, and
  `EndedIsRemoved`, which the code does not keep).
* link: `alive` speaks of the link that is up (`SessionIsCurrent`), from its connect event to its clean-up
  (`SessionSpec`); the answers to the forwarder's own probes are
  recognised (`ProbeIsExpected`); a mail has a reason of its own (`MailsAreEarned`); an offline
  account ends the link if its peer talks (`OfflineDropsLink`), a silent one does too (`LateHeartbeatReconnects`, not kept).
* load-balanced links: whoever `alive` reports is registered (`AliveIsRegistered`), a watcher has a time
  to watch (`WatchersHaveTime`), an answer is about the account that was asked (`AnswersAreAttributed`), an
  event is passed on for one account (`DuplicatesIgnored`, not kept).
* cache: three maps behave as one map of entries with an age limit (`TimedMapSpec`, `MapsInStep`,
  `GoneStaysGone`).
* all tasks together: no circle of waiting (`NoCircularWait`), the waits for locks that a socket causes which does not
  drain stay on its own side (`StallsAreContained`), and every request is granted if sockets drain (`EveryWaitEnds`).
* rules: decisions follow the table (`DecisionsFollowRules`, `DecisionsMoveToRules`), also for a message that is judged
  while a command is at work (`NoGlitch`); a command changes what it names (`GroupCommandsKeepUsers`, not kept).

The hazards of the code, line by line, are listed in `PROJECT.json`.

## 2. The modules

### ReplyRouting - what the call path promises

Calls that are open, and the last answer handed out. `Forward` opens a call, `Return` hands its
answer to the client that made it and closes it, `LoseLink` closes everything at once.

### ApiCalls - the call path

One process per client, its program counter having one value per await of `handle_message`
between which shared state is read or written:

| code | action |
|---|---|
| a text frame parsed (180-189) / not parsed (136-140) | `Receive` / `BadText` |
| `same_api_map.get` (190-193) | `Lookup` |
| `api_invoke_cache_map.insert` (196-200) | `Record` |
| first filter (201-203), storing the verdict (204, 207) | `Judge`, `Remember` |
| second filter (212-216) | `Check` |
| `echo_map.insert` (218-222) | `Bind` |
| `ImplSide::send` (224): written, no writer, error | `Forward`, `Lost`, `SendFails` |
| `response_message`: `echo_map.remove` and the write (243-248), ok or `?` | `Reply`, `ReplyFails` |
| `response_message`: the two removals below (250-252) | `Clean` |

The two removals in `Clean` are one step because the guard of the first map, a temporary of the
`if let` (edition 2024), lives until the end of its body: nobody records a call in between, and
reading or storing a verdict in between is the same as doing so just before. A serialised call is a pair of the call
and an order of its parameters: `params` is a `HashMap`, whose order differs from one parsed copy
to the next. A call without echo is filed under `""` (`Blank`); its answer carries no echo and
`response_message` ignores it, so it is not kept on the wire. `link` is `up` while frames are
read, `torn` from the end of `receive` until the writer is dropped, and `down`; `ChangeRules`
stands for everything AccessRules does. `cleared` and `delivered` are history variables.

The environment is restricted in one way: a client does not reuse an echo that is still
unanswered (`EchoIsFree`). That echoes of *different* clients differ is not part of the module:
it is the assumption `DistinctEchoes` of the theorems and a choice of `EchoOf` in a run.

### ClientRegistry - clients and broadcasts

One task per client from the backlog of the listener to the removal, the remote end of each
(open, stalled, closed), the listener (`forwarder`: it accepts, is deaf, or the program has stopped) with the acceptor
that awaits one header at a time, and the reader of the link as far as it meets the clients: connect event, broadcasts,
end of the link. A token is configured; without one no header is awaited.

| code (`sdk.rs`) | action |
|---|---|
| `accept` (62-70): a connection, an error (its pattern `Ok(_)` disables the branch, only Ctrl-C is left) | `Accept`; `AcceptFails` |
| `validate_headers` (81-100): let through or refused; the `unwrap` of `peek` (83) | `Validate`; `PeekPanics` |
| the handshake (105-107), its `expect` | `Handshake`; `HandshakePanics` |
| `writers_map.insert`, `alive`, the greeting and its `?` (110-130) | `Register`, `Alive`, `Greet`, `GreetFails` |
| the `?` of a call, the end of the loop, the removal (136-177) | `CallFails`, `Leave`, `Remove` |
| `broadcast_message` (229-237) | `Cast`, `CastConnect`, `CastTo`, `CastFails`, `CastDone` |

`start` is awaited in `main`, so a panic in its accept branch ends the program in every build (`Stop`); the panic of the
handshake, in a task of its own, ends the program with `panic = "abort"` (release) and else that task.

`Register` and `Remove` need the map and wait for `~Casting`; a broadcast snapshots the map
(`.clone()`) and writes client by client (`CastTo`), and its first error ends it together with
the link (`CastFails`). `Announce` sets `user_id`; only then does the connect event pass the
filter and the broadcast (`CastConnect`): it names neither group nor user, so the default policy
decides, and under `deny` connected clients are not told. A write to a peer that is gone may still
succeed (the kernel takes it), so `CastTo` asks only that the peer is not stalled. `told` is a
history variable: who has heard of the current session. Ctrl-C at the listener, which ends the program, is left out.

### Session - what the link promises about the bot

A link is down, up, or over but not yet cleaned up, and the bot is online or not: `Open`, `Announce` (the connect
event), `End`, `Close`. The bot is reported from `Announce` on, also while a link that is over waits for its
clean-up, and `Close` forgets it before the next `Open`. SingleLink, which has the tasks, the probes and Ctrl-C,
implements it as the instance `Bot`, with the phase read off its own variables.

### SingleLink - the link

The connect task (`pc`), the two tasks each link starts on its connect event, and the probes they
send. Links are numbered, so that the tasks of an ended link can be told from those of the
current one: the code never stops them, `active` is cleared only by a bad status.

A probe is sent step by step, as `send_active_check_message` does: the map is locked for writing and the entry made
(`LockMap`, the probe is `held`), the frame is written (`Send`: `asked`, or `lost` when there is no writer, `send` being
`Ok` all the same), and the sender gives the map back (`Unlock`) or takes the entry out first (`SendFails`). `guard` is the
probe whose sender holds the map. From `Send` on the answer may come, while the map is still locked: the reader then has
it at hand (`ProbeAnswer`, `answered`) and waits for the map (`Lookup`), as it does for the answer to a client's call
(`OtherFrame`, `LookupElse`). It delivers what it finds to the channel (`good` or `bad`), or finds nothing and passes the
answer on to the clients' side (`stray`, history). A frame is at work in `handling` until the clients' sockets have taken
it. Echoes of probes are distinct (four random letters in the code), and a probe whose sending failed is not answered.

`stale` says whether `last_heartbeat` is older than the interval; time itself is left out. An attempt to dial
that fails changes nothing and is no action; in particular the index advances only in `Forget`.
The clean-up is two awaits, `DropWriter` and `Forget`: in between the bot is still reported and calls find no writer.
`client_url` takes the index modulo the number of servers; the model keeps it reduced. `CtrlC`
reaches the tasks that listen at that moment: the code's signal future is created anew in every
`select!`, so tasks at work do not notice. The mail setting (`notice`) is taken to be present.

### AccessRules - the lists

The rule table, the four lists, and workers that execute commands: the tasks that read a link.
A command is one query or two (`Find`, `Save`; `Delete`), then the reload, whatever the
result; a reload goes list by list (`Fetch`), for a group list with one more query per group
(`Fill`), and replaces the list at once (`Publish`). Any query may fail (`CommandFails`,
`ReloadFails`). `Restart` ends the process at any moment; the start loads all four lists with the
same steps, and no message is judged before that is over (`init_db` is awaited before the link is
made). With one link there is one worker, with load-balanced links one per link; the module has any number.

Three variables are history. `suspect` holds the lists that do not speak for the table: those whose last reload
failed, or read a table that another worker changed before the list was replaced (`torn`: the workers in such a
reload), and after a start those not loaded yet. `before` is the table as the latest command found it, None when
that command overlaps another. `Given` bounds the commands; the theorems hold for any.

`send_by_auth` is written as the code goes: a `Turn` is one read of one list and the return or the next read it leads to,
`Enter` the first. As an operator on lists that stand still it is at most five turns one after the other.
`NullMatches` says whether the filter `group_chat_id = NULL`, which the code writes with
`GroupChatId.eq(None)`, finds the rows without a group; that is decided by the query builder and
the database, outside this repository. The runs take TRUE: with FALSE the lists of users are never
filled, rows without group are never found again, and the interesting part disappears.
Equal rows count as one: no query tells them apart.

### Judging - a message is judged meanwhile

AccessRules and one message on its way through `send_by_auth` (`place`, `asked`): `Ask`, then a `Look` for each read,
with steps of the workers anywhere in between, for the code takes the lock of each list by itself and other threads
publish. Only a group list stays locked while a list of users is read again (utils.rs 201-204, 217-220: `Held`). One
judging stands for all, since they only read. `since` (history) is the table on which it began. A judging is followed as
long as it meets the work of one command at most, the one at its beginning or the first one after. With two there is no saying:
it reads the black list without the user, one command puts the user on the black list and another on the white list, it
reads the white list, and the message passes although no table, before, between or after, allows it. (TLC finds that at
once if `OneCommand` asks for less.) The code does not exclude this and no comment speaks of it.

### TimedMap - what the cache promises

A map of entries `[value, at, limit]`: a read finds an entry unless it is as old as its limit, and
forgets it if so.

### ExpiringCache - CacheModel

The three maps and the default of the struct behind its one mutex, so that each method is a step: `Get`,
`Set`, `Delete`, `Expire`, and both constructors in `Init`. `get` removes a lapsed entry by either of its
two branches, the limit of the key or the default (`LimitOf`, `Lapsed`, `Sweep`); `expire` asks only
whether there is a value, however old. `ClockMoves` sets the clock to any second, also backwards, since
the code reads the wall clock. `answer` is what the last call returned, `gone` (history) the keys deleted or
found missing and not set since. The refinement to TimedMap reads an entry off the three maps (`Entry`).

### MultiLinks - load-balanced links

One reader per server, dialled once (`Dial`; the loop over the servers skips one that cannot be reached),
the watcher and the checker its connect event starts, and the probes they send:

| code (`multi.rs`) | action |
|---|---|
| connect event: the writer; the time, the flag, the notice, the two tasks | `ConnectEvent`; `StoreTime`, `MarkConnected`, `Notify`, `SpawnTasks` |
| a heartbeat | `Heartbeat`, `StoreTime` |
| another event, let through or not, commands | `OtherEvent` |
| the repeated event: `get` and `set` | `LookUp`, `RecordEvent`; the three seconds over: `RecordLapses` |
| `broadcast_message`; the end of the link | `Broadcast`; `LinkEnds` |
| `heartbeat_active`: in time (sleeps under its guard), late | `WatchInTime`, `WatchAgain`; `WatchLate` |
| `active_check`: its tick, its end | `CheckTick`, `CheckQuits` |
| `send_active_check_message`: the two entries, the frame, on error the two removals | `StartProbe`, `Attribute`; `SendProbe`; `SendFails`, `Forget` |
| an answer and the task that waits for it | `Answer`, `Conclude` |

Several links may be of one account (`self_id`). `send_to` an account without a writer is `Ok` and
does nothing; a writer outlives its reader, since nothing is taken back when a link ends. Accounts that could
not be found are 0 (`Nobody`). `SelfId(c)` is 0 because the copy of the event with self_id 0 shadows the event
itself; `origin` (history) is the account it really came from. A lifecycle event comes once on a link, as OneBot
sends it. An event is its content: two links of two bots in one group deliver equal contents. The answers
to API calls, the clients and the commands are those of the other modules; `MultiImplSide::send` is a stub (two
branches return without sending, the third is `unimplemented!()`) and is left out, as is Ctrl-C.

### Locks - who waits for whom

The one composition of all parts: handlers of clients, readers of links and tasks that probe, in single or in
load-balanced mode (`mode`), and the tokio `RwLock`s they share, those around the sockets included. A task
works in *sections*: it asks for the locks of a section one after the other, each while it holds those
before, and gives them back innermost first. `HandlerSections`, `ReaderSections` and `ProbeSections` list the
nestings that the code has:

| section | code |
|---|---|
| `writers_map` (read), a client's socket | `broadcast_message`, sdk.rs 233-235 |
| `echo_map` (write), a client's socket | `response_message`, sdk.rs 243-248 |
| `api_invoke_cache_map`, `same_api_map` | sdk.rs 250-252 |
| `echo_tx_map` (write), the link's socket | a probe in single mode, single.rs 367-396 |
| `echo_tx_map`, `echo_user_id_map` | an answer to a probe, multi.rs 290-293 |
| `writers` (write), a link's socket | `send_to`, multi.rs 413-416 |
| `last_heartbeat_time` (write), then a probe, or nothing for an interval | the watcher, multi.rs 306-336 |

`queue` is the fair queue of a lock: a request is granted when it is at its head and the holders are
compatible, so a reader waits behind a writer that waits. Guards follow edition 2024, where an `if let`
scrutinee is dropped before the `else` branch: in `handle_message` an answer that belongs to no probe is
carried on to `response_message` without `echo_tx_map`. In which order a task goes through its sections is
left open, so the model has every order of the code and more. Locks kept for one statement without an await
and under no other lock are left out, and so is `user_id`, which one loop writes. Giving back a socket is an
action of its own (`Written`), for it is the peer that decides when.

## 3. What is checked

Runs that pass:

| run | instance | states | shows |
|---|---|---|---|
| `ApiCalls.cfg` | 2 clients, 2 calls (with and without group), 1 group, echoes {e1, blank} and {e2} | 5.8 M | types; `WireIsBound`; `ClearedBeforeForwarding`; refinement of ReplyRouting |
| `ClientRegistry.cfg` | 2 clients | 33 k | types; `ToldWhenOnline`; `ClosedIsRemoved`, `JoinIsServed` under fairness |
| `SingleLink.cfg` | 2 links, 2 probes, 2 servers | 830 k | types; `SessionIsCurrent`; refinement of Session; `ProbeIsExpected`; `MailsAreEarned`; `OfflineDropsLink` under fairness |
| `ExpiringCache.cfg` | 2 keys, 2 values, seconds 0..3, limits 0, 1, 3, default none or 2 | 36 k | types; `MapsInStep`; `GoneStaysGone`; refinement of TimedMap |
| `MultiLinks.cfg` | 2 links, 2 accounts, 1 event, 2 probes | 483 k | types; `AliveIsRegistered`; `WatchersHaveTime`; `AnswersAreAttributed` |
| `Locks.cfg` | 1 client, 2 links, 2 probing tasks, both modes, 3 sections at once | 108 k | types; `NoCircularWait`; `StallsAreContained`; `EveryWaitEnds` under fairness |
| `AccessRules.cfg` (Judging) | 2 workers, 1 message judged at a time, 1 group, 1 user, 6 commands (`ThreeRules`), any table of up to 3 rows, workers exchangeable | 3.2 M | types; `DecisionsFollowRules`; `NoGlitch`; `DecisionsMoveToRules` |

Runs in which the code does not do what a comment says; each checks that one statement:

| run | property | what happens |
|---|---|---|
| `StickyRefusal.cfg` | `RefusalIsShortLived` | a refusal is cached, nothing is forwarded, so no answer comes that would clear the cache: allowing the group later does not help (sdk.rs:204 against the comments at 43 and 45) |
| `Zombie.cfg` | `EndedIsRemoved` | `?` at sdk.rs:139 skips the removal announced at 167 |
| `LateHeartbeat.cfg` | `LateHeartbeatReconnects` | a late heartbeat sends a probe, the watcher ends, a silent peer keeps the link (single.rs:312 against 301-302) |
| `DeleteGroup.cfg` | `GroupCommandsKeepUsers` | a user whose id equals the group's loses the row (command.rs:162-167 against 159) |
| `Duplicates.cfg` | `DuplicatesIgnored` | the account recorded and the account compared are both 0, so every copy is broadcast (multi.rs:276 against 270) |

Three more things the code does that a reader may not expect, and for which no run is kept: clients that use the
same echo get each other's answers (the theorems about answers therefore assume `DistinctEchoes`), and a failing
write to one client ends the broadcast for the clients after it (`CastFails`). With several links the hourly check that
multi.rs:342 and CHANGELOG.md promise is not kept: the checker of an account that is online ends at its first look
(multi.rs:356, `CheckQuits`).

**Bounds.** Two clients are enough for every pairwise race on the maps; a second call without a
group makes the cache entries of different calls meet; one serialisation order is used, since
two orders behave as two calls. Two links and two probes give the situations "task of the old
link, flag of the new one" and "one probe lost, one answered". `MaxConn` and `MaxProbe` bound
counters in the guards of `Connect` and `LockMap`; with the bound used up the system may stop, which
is why the two SingleLink runs do not look for deadlocks (it also really ends after Ctrl-C). Nor do those of ClientRegistry,
where a panic ends the program. In MultiLinks the dial and the
connect event happen once per link and `Probe` bounds the calls of get_status: one link ends while the other goes
on, with one probe each or two of one account; it stops when all links have ended and the probes are used up
(`CHECK_DEADLOCK FALSE`). Its run uses symmetry, having no liveness property; Locks, which has one, uses none.
The seconds of ExpiringCache reach from an entry of this second to one as old as the longest limit, and the clock goes anywhere.
`MaxBusy` bounds the sections under way at once: three are enough for a holder, a waiter behind a waiter, and a
circle of three; the proofs are for any number. `MaxRows`
bounds the table; three rows contain every pair of rows that speak about the same message and one more. `ThreeRules`
gives the commands of AccessRules: the group put on the white list and off, its user put on the black list in the
group, or on the white list everywhere, and off. That makes all four lists reload and each rule of precedence matter,
from every table at the start, and leaves room for two workers at any two of their queries. The workers are alike (any of them
stands for the task that loads at the start), so this run, without liveness, uses their symmetry (`WorkerSymmetry`).

**Fairness.** Steps of the program's own tasks are fair: the runtime polls every ready task, timers
fire, queries return or fail. In ClientRegistry it is strong fairness for a client's steps and
for writes to a client, since they wait for a fair lock that is free again and again and for a
socket that takes data again and again. Assumptions about peers are separate formulas, used by name:
`PeersKeepGoing` (ApiCalls: clients go on calling, the implementation goes on answering),
`PeersDrain` (ClientRegistry: a stalled peer goes on or leaves, with its header or handshake as with its reading), and three
in SingleLink: `HandlingEnds` (the clients take, in the end, what the reader of the link writes to them, and queries
return), `PeerReads` (the implementation takes the probes) and `PeerTalks` (it goes on sending frames). The code has no
timeout that would stand in for any of them. Without `PeersDrain` neither `JoinIsServed` nor `ClosedIsRemoved` holds: one
client that neither reads nor leaves blocks the map, and one that sends no header keeps everyone behind it in the backlog.
`OfflineDropsLink` needs all three of SingleLink: `active` is looked at only after a frame, and only when its
handling has come to an end. `AnswersMoveOn` is its part of the program's own: the reader gets the map in its turn, an
answer in a channel is taken; LateHeartbeat, whose peer reads and sends whatever it likes but no answer to the probe, adds the tasks
and the timers (`Fairness`). In Locks a task is granted what it is due and drops the guard of a map
eventually: those steps are enabled until they happen, since a lock is served in order and a guard is kept for one
await or, at most, for an interval; weak fairness is enough. `PeersDrain` of Locks says the same of sockets; without it
`EveryWaitEnds` fails, and `StallsAreContained` says how far the waits for locks then go (a task that writes to the
socket stands still as well, with all it would do next; for the reader of a link see `HandlingEnds`): they reach every call and every
answer (`echo_map`), but no probe because of a client, and no arrival or leaving of a client because of a link.

**Overlapping commands.** Two workers do race: an older reload can be published after a newer row was saved, and the
list then stays old although all is quiet. No comment of the code promises more, so it is a hazard and not a finding,
and `suspect` says exactly which lists it leaves behind: those whose last reload read a table that changed under it.
Everything else about overlapping commands is right, and that is what the properties say. `NoGlitch` and
`DecisionsMoveToRules` speak of commands that overlap no other, since of two at once nobody could say which table is
"before" (and a judging that meets two can come to what no table says, see Judging); the other workers may be reloading at any time before and after.

**Mutants.** Next to a definition stand variants of it, marked "Mutant", each with a plausible mistake
(a filter left out, a reset forgotten, an error swallowed); replaced by it, the definition
makes the property named in `PROJECT.json` fail.

## 4. What is proved

For every value of the constants (any number of clients, calls, links, probes, groups, users, rows):

| module | theorem | needs |
|---|---|---|
| ApiCallsProofs | `TypeCorrect`, `NoStaleApproval` | `ConstantsAssumption` |
| | `AnswersAreBound`, `RoutesReplies` | also `DistinctEchoes` |
| ClientRegistryProofs | `TypeCorrect`, `ServedAreTold` | `ConstantsAssumption` |
| SingleLinkProofs | `TypeCorrect`, `SessionsAreCurrent`, `SessionsAreKept`, `ProbesAreExpected`, `MailsHaveReasons` | `ConstantsAssumption` |
| ExpiringCacheProofs | `TypeCorrect`, `MapsAgree`, `GoneForGood`, `IsTimedMap` | `ConstantsAssumption` |
| MultiLinksProofs | `TypeCorrect`, `AliveAreRegistered`, `WatchersAreTimed`, `ProbesAreAttributed` | `ConstantsAssumption` |
| LocksProofs | `TypeCorrect`, `NoDeadlock`, `StallsStayContained` | `ConstantsAssumption` |
| AccessRulesProofs | `TypeCorrect` | `ConstantsAssumption` |
| | `DecisionsCorrect`, `VerdictsMoveOnce` | also `Apart` (no command deletes an id that a group and a user share) |
| JudgingProofs | `NoMixture` | also `NoneIsNoTable`, `Apart` |

The arguments:

* **NoStaleApproval.** Between `Check` and `Forward` nothing sets `cleared` back, and `Check` lets a
  call through only when the rules do at that moment, which is when `cleared` holds. The invariant
  adds: at every control point with a call, "the rules let it through now" implies `cleared`.
* **AnswersAreBound, RoutesReplies.** `WireIsBound` alone is not inductive: `Forward` puts a call on the
  wire, so its echo must already lead to its caller while the handler is about to send. The
  strengthening states that, and that an echo in use belongs to its client's `EchoOf`, and with
  `DistinctEchoes` no other handler's `Bind` can hit it. Each step of ApiCalls is then
  a step of ReplyRouting or leaves its variables alone.
* **ServedAreTold.** A client that will not ask `alive` any more (it is being served, or it read a session
  since ended) has been told or is still to be written to by the running broadcast. That is inductive
  together with: everyone past `Register` is in the map; a link that is down has no session
  and no broadcast; a broadcast of the connect event implies a session.
* **SessionsAreKept.** Each action of SingleLink moves the phase by one action of Session or not at all. That needs the
  invariants that a link begins without a bot (the clean-up was complete), and that Ctrl-C ends the task while it dials or
  reads, which changes neither phase nor bot.
* **ProbesAreExpected.** `Entered`: a probe that is held, on the wire or answered has its entry, and only the sender that
  holds the map can take an entry out, that of its own probe, which it has then not sent. The reader looks only when
  nobody holds the map, so it finds the entry.
* **MailsHaveReasons.** A mail uses up the disconnect flag of its link, and only a probe answered well
  sets the flag. The invariant relates the number of mails, the flag (or a good answer still in its
  channel) and the number of probes answered well.
* **DecisionsCorrect.** The invariant `IInv` says of every list that is not suspect that it equals what
  a reload would yield now (`Fresh`) or is still to be reloaded by some worker (`Pending`), and of every worker that
  reads a list, unless its read is torn, that what it has read so far is what the table says now (`Reading`). A command keeps it
  because it disturbs only the lists it reloads (`SaveKeeps`, `DeleteKeeps`: a list depends on the rows
  of certain kinds and item types alone), and because the reads of others that it falls into become torn; a reload that
  was not torn publishes what the table says. `Apart` is needed, as the run `DeleteGroup.cfg` shows.
  When all is quiet and nothing is suspect every list is fresh, and `VerdictFollows` then equates `send_by_auth` over
  the lists with `Verdict` over the rows: a turn on lists loaded from one table leads to a place that the table agrees with
  (`Passed`) or to its verdict (`TurnFollows`), and after five turns there is no place left.
* **NoMixture.** The row that a command adds or deletes shows in one list alone (`Target`: a row of a user without a group in
  the list of users, one with a group in the exclusions of the opposite group list), whichever lists are reloaded. So while
  a command is alone (`Sole`) the lists are those of before except for one, which is old or new (`Steady`). A judging has come
  to its place as one of the two tables sends it (`Followed`). Its next read is of a list in which the tables agree, and
  it follows the same table on; or of the one in which they differ, and since every list read so far was another it has
  also come there as the other table sends it; or it is a second read of that list, which decides as the table does whose
  content it is, or goes on with it (`WayIsTheSame`, `TurnBetween`).
* **VerdictsMoveOnce.** Of the steps that keep `before` only `Publish` changes a list, and under `Steady` to what the rows
  say now (`PublishesTheRows`). If it is the one list in which the two tables differ, all lists are those of now
  afterwards; otherwise its content was the same before.
* **IsTimedMap.** With `MapsInStep` the three maps are one map, and each method maps to the step of TimedMap that
  has its name: the mapped limit of an entry just stored is the default because `set` clears the limit of the key.
  `GoneForGood` adds that a key in `gone` has no value.
* **AliveAreRegistered, WatchersAreTimed.** Writers and times are only ever added, so it is enough that each step of a connect
  event comes after those before it: the invariant says of every place of a reader, of every task and of every probe
  that the account behind it has what was registered before. A conclusion about a probe then marks an account that has both.
* **ProbesAreAttributed.** A probe on the wire has been attributed, its entries are taken out only by its answer or after
  its sending failed, which excludes one another, and `by` says for ever whose it was.
* **NoDeadlock.** The nestings agree on one order of the locks (a rank each, a socket above the maps it is written under). Every task holds and awaits a
  beginning of one of its sections (`SectionsFit`), so that it waits for a lock above those it holds; in a set of waiting
  tasks take one that waits for a lock of the highest rank and among those the one first in its queue: none of the others
  can hold its lock or stand before it.
* **StallsStayContained.** Sockets of clients and of links are reached through disjoint sets of maps. The tasks that hold
  or want only locks of the one side are closed under waiting.

Only model-checked: everything under fairness (`ClosedIsRemoved`, `JoinIsServed`, `OfflineDropsLink`, `EveryWaitEnds`), which is
outside the prover's reach, as is ENABLED. Every other property of a passing run is proved.

## 5. What is not modelled

* Daily log file (`model/log.rs`): two fields behind a std mutex, changed together after one look at the date.
* Mail: `send_email` is I/O; `replace_placeholders` is a scan of a string for `{...}` with one fixed key, no state.
  That a mail is due, and for what reason, is in SingleLink.
* Configuration and entry (`model/config.rs`, `main.rs`): parsing, logger setup and the command line; the choice of a server
  (`client_url`) and the load of the lists are in SingleLink and AccessRules. The reverse mode is a `todo!()`.
* Dispatch (`wss/impl.rs`): a `match` on the mode without state; the mode is a variable of Locks.
* Message types (serde) and `migration/` (table definitions; AccessRules takes from them that nothing but the row number is unique).
* `MultiImplSide::send`: a stub in the source. Ctrl-C outside the single link: it ends loops at their heads and has no
  statement to check. The two listing commands change nothing. `convert_self` rewrites one field of an event.

The content of messages is abstracted to what the properties distinguish.

## 6. Plan

1. *Done:* ReplyRouting, ApiCalls, ClientRegistry, SingleLink, AccessRules, with proofs.
2. *Done:* TimedMap and ExpiringCache, MultiLinks, Locks, with proofs; `NoGlitch` of AccessRules.
3. *Done:* AccessRules for several workers, `DecisionsMoveToRules`, Session and its implementation, the sending of probes
   under their lock, the backlog and the panics of the listener, Judging, with proofs.
4. Failover with a server that cannot be reached: SingleLink has no step for a dial that fails, and no comment says what
   the user may expect of it.
5. `replace_placeholders` against a reference definition, if it grows more than its one key.
