# NeoStats in TLA+

NeoStats is a single-threaded C program that links to an IRC network as a
server, keeps a picture of the network (users, channels, servers, bans) and runs
loadable modules (LimitServ, StatServ, ...) whose bots live on the network. This
directory holds TLA+ modules of the parts of its core and of its service modules
where the order of calls matters, TLC configurations that check them on small
instances, and TLAPS proofs of the theorems that matter most. Paths below are
those of the repository; the core is in `src/*.c`, the services in `modules/`.

There is no parallelism in the program. What makes it hard is that nearly
everything is re-entrant or long-lived: handlers are called back in the middle of
operations on the very tables they change, tables are changed while they are
scanned, counters stand in for sets, pointers outlive what they point to, and
modules come and go under all of it.

## Inventory

| Part | State | Operations | What makes it hard | Correct when |
| --- | --- | --- | --- | --- |
| channels (`channels.c`), users (`users.c`), bots (`bots.c`), `irc_join`/`irc_part` (`ircsend.c`) | `channelhash`, `userhash`, member lists, channel lists of clients, `users`, `neousers`, `persistentusers` of a channel | join, part, kick, quit, kill, bot introduction, bot joins and parts | `CheckEmptyChannel` -> `handle_dead_channel` -> `irc_part` -> `PartChannel` -> `CheckEmptyChannel` on the same channel; decisions by counters; many ways to leave | both copies of the membership agree, counters are the sizes they stand for, bots leave a channel exactly when its last user does |
| channel modes (`modes.c`, `do_sjoin` in `ircrecv.c`) | flags, key, limit, member status, parameter list | mode lines, SJOIN, joins with a status | characters take parameters in turn; NeoStats keeps a copy of what others decide | the copy is what the network has |
| timers (`timer.c`) | sorted list of timers, one libevent timeout | add, delete, change interval, delete all of a module, wake-up | each path through the wake-up must arm the next; handlers crash or change the list | no timer early, none starved, a wake-up pending while timers wait |
| DNS (`dns.c`) | active list (300), unbounded queue | lookup, answer, cancel at unload, refill | callbacks start lookups inside the walk; deletion inside the walk; refused submissions | every active lookup called back once or cancelled with its module, nothing waits beside free room |
| user records (`users.c`, `exclude.c`) | `userhash`, addresses, exclusion flags, lookups in progress | sign-on, nick change, quit, answer of a lookup | a lookup keeps a pointer into a record that may be gone | an answer goes to whom it is for; counters kept by events stay right |
| modules (`modules.c`, module data in `users.c`, `channels.c`, `servers.c`) | `modulehash`, `ModList` (numbers), `modvalue[]` on every record, counters | load, failed load, unload, attach and clear data | a number is reused; counters decide whether to clean up | a number is one module's; nobody finds another's data |
| module events (`nsevents.c`), signals (`signals.c`), run level (`neostats.h`) | `RunModule[]`, `RunLevel`, `sigvbuf` | dispatch, crash recovery | handlers free what the event is about; `longjmp` over live frames | after each dispatch the run level is what it was; a crash takes only its module down |
| servers (`servers.c`) | server hash with uplinks, users per server | server, squit, end of burst | recursive deletion inside a scan | a split removes exactly the subtree and its users |
| hash tables (`hash.c`) and lists (`list.c`) | buckets, masks, scans | insert, delete, scan, grow, shrink | a scan in progress while the table shrinks | a scan visits what stays |
| sockets (`sock.c`), DCC (`dcc.c`) | `sockethash`, buffers, DCC clients | add, delete, read, write, errors | input cut anywhere; deletion from inside read callbacks; two owners of one record | each line parsed once and whole; nothing deleted twice |
| TextServ (`modules/textserv`) | its bots, the only ones with `BOT_FLAG_PERSIST`, the list of channels of each | ADD, DEL, JOIN, PART, load and unload, each a loop of joins or parts | it goes by its list and never asks where a bot is, while the core takes bots off channels | the list is where the bot is; `irc_part` finds the channel |
| LimitServ (`modules/limitserv`) | managed channels, settings, its bot | joins, parts, timer, commands | its handler joins from inside the part that empties a channel | the bot is on its channels, the limit leaves room |
| StatServ (`modules/statserv`) | current and highest values, countries, saved records | counting, saving, midnight reset, loading | crashes between a count and its save; a reset and a save due together | a period's highest value was seen in that period |
| bans, authentication, commands, settings, ctcp, IRC parsing and formatting, languages, databases, transfers, other service modules | mostly per message | | sequential | left aside, see below |

How they interact: libevent calls `linemode_read` (uplink and DCC lines),
`CheckTimers_cb` and `do_dns`. A line is parsed by `ircrecv.c`, which calls
channels, users, modes and servers; these send module events while they work;
handlers call back into the same functions through the API (`irc_join`,
`irc_part`, `AddTimer`, `dns_lookup`, `SetChannelModValue`, ...).
`unload_module` walks all of them to remove what a module left.

## Modules

| Module | Models | State and actions against the code |
| --- | --- | --- |
| `Channels` | membership and its counters | `channelhash`, `channel[c]` (the `Channel` record, counters modulo `UIntSize` as `unsigned int`), `chans[u]` (`u->user->chans`), `userhash`, `crashed` (NULL dereference in `irc_part`). One action per message of the uplink (`DoJoin`, `DoPart`, `DoKick`, `DoQuit`, ...) or API call of a bot (`IrcJoin`, `IrcPart`, `IrcKick`, `IrcQuit`), each with the whole dead-channel recursion it sets off |
| `TextServ` | the persistent bots, on top of `Channels` | `chanhash[b]`, the channels listed for a bot (in memory and in table `BotChans`), and `phase[b]`, `todo[b]`: how far `JoinBot` or `PartBot` is. Each call of `irc_join`, `irc_part` or `irc_quit` is a step, the action of `Channels` conjoined with what happens to the list; it is guarded by the list only, never by who is on the channel. `OtherStep` is everything else that happens in `Channels`, between two commands |
| `LimitServ` | LimitServ, and `handle_dead_channel` bot by bot | members and `neousers` of channels, their limits, the managed channels (`qshash`), the settings, and `calls`, the calls of `handle_dead_channel` in progress with the node each scan of `bothash` is at. Every join and part contains the handler of its event. Between two bots of a dead channel nothing but the recursion runs; `handle_dead_channel` is `ForceOut`, `PassBy` and `DeadReturns` |
| `Modes` | the modes of a channel | `channel`, NeoStats's copy, and `network`, what the others have. A mode line is drawn as a sequence of changes, applied to `network` one by one and given to `ChanModeHandler` as the mode string and the parameters that `Line` makes of it, which reads it with its loop over characters. `do_sjoin`, `JoinChannel`, `irc_join`, `PartChannel` |
| `Timers` | the timer list and its wake-up | `timerlist` in list order, `due`/`age` (`nextrun`, `lastrun` relative to now), `armed` (`evtimers`), loaded and synched modules. The actions are the API calls and the exits of `CheckTimers_cb`: module not synched, not due, handler ran, handler asked to stop, handler crashed |
| `Dns` | lookups | `dnslist`, `dnsqueue`, the position of the loop of `do_dns` (`pos`, `left`), since callbacks run inside it. adns is external: at each visit of a lookup it has an answer or not |
| `Lookups` | what `Dns` promises | two sets, of active and of waiting lookups; no order, no walk |
| `UserRecords` | user records, the lookup of an address, exclusions, what StatServ counts of users | `userhash` maps a nick to the address of a `Client`; `client[a]` is what lies there, also after a quit; `lookups` holds the address each was started with. `stats` are StatServ's user and country counters, changed by the handlers of the events each action sends |
| `Statistics` | a statistic of StatServ with its periods | `stat` (memory), `saved` (database), `day`, `due` and `slow` (timers of midnight that have not run yet), and `peak`, a history of what was counted. Counting, saving, reset, `ModInit`, `ModFini`, a crash |
| `Modules` | module numbers and module data | `modulehash`, `ModList`, `modnum`, `modvalue`, the data counters, `versionscan` |
| `RunLevel` | whose code is running | `RunLevel`, `RunModule`, and `frames`: the C stack with the handlers, event scans and calls of `unload_module` on it; `sigvbuf` as the frame of the last `setjmp`. Actions: calls from the event loop, nested events, the steps of `unload_module`, crashes (`CrashExits`, `CrashJumps`, `CrashUnloads`), and the jump |
| `LineMode` | reading lines from a socket | `readbuf`, the lines handed to the parser, the stream so far, `sockstate`. One action per `read` |
| `Hash` | the tables of `hash.c` | operators on values: chains as sequences, node count and marks, `hash_insert`, `hash_delete`, `hash_scan_delete`, doubling and halving, a scan as the pair `(chain, next)` of `hscan_t` |
| `Servers` | servers, their users, SQUIT | `serverhash` and `userhash` as tables of `Hash`, `uplinkname`, `users`, `u->uplink` (`Freed` when it dangles), and `stack`: the calls of `DelServer` in progress with the scan each has open. `AddServer`, `AddUser`, `QuitUser`, `Squit`; `DelServer` goes one node of a scan at a time (`LeafStep` ... `RemoveServer`) |
| `Splits` | what `Servers` promises | the network as its servers see it: `behind`, the server each linked server is behind, and `on`, the server each user is on. `Link`, `SignOn`, `Quit`, and `Split`, which takes a branch (`Branch` of `Branches`, a least closed set) with everybody on it in one step |
| `LinkedLists` | the lists of `list.c` | a sequence without repetitions, and what is left of it when some nodes are deleted (`Without`), for `Timers` and `Dns` |
| `*_proofs` | theorems, below: `Channels_proofs`, `Servers_proofs` (with `Hash`), `Dns_proofs`, `Modes_proofs`, `EventLoop_proofs` (`RunLevel`, `Timers`, `LineMode`), `Parts_proofs` (`Modules`, `LimitServ`), `StatServ_proofs` (`UserRecords`, `Statistics`), and the lemmas about sequences they share (`LinkedLists_proofs`) | |

An operator whose name ends in `Mutant` is a plausible bug of the definition it
precedes, kept to see that a property notices it; it is not part of the model.

### How the runs are put together

Four runs carry everything that holds. Each checks several components that do
not share a variable: `part`, chosen at the start, names the one that moves, and
the others keep their initial state. This is the sum of their state spaces, not
the product, and it is exact for what is claimed, since no action of one reads or
changes what belongs to another. Where components do interact in the program,
the interaction is inside one module (`LimitServ`: bots, channels and LimitServ;
`UserRecords`: users, lookups, exclusions and StatServ; `RunLevel`: events,
modules and signals; `Servers`: the tree, its users and the hash tables) or the
refinements `Dns` => `Lookups` and `Servers` => `Splits`. The weaker claim each relies on of another module
is in its header: `UserRecords` takes of `Dns` only that an answer may come at
any later time, `LimitServ` takes of `Channels` that `users` is the number of
members, which is a theorem there.

Where a run has several modules, its MC module EXTENDS them, so that the formulas
it checks are the ones the theorems are about; names are told apart by a prefix
(`TimersInit`, `DnsNext`, `LsTypeOK`, ...). `Channels` is the exception in `parts`,
where it is an instance with other constants than in `network`.

The runs that expect a violation use `MCChannels`, `MCTimers`, `MCDns`,
`MCModules`, `MCServers`, `MCLimitServ` and `MCUserRecords`, with one component
each.

## What is checked

| Run | Question | Bounds and why they are enough |
| --- | --- | --- |
| `network` | `Channels` with `TextServ`, on networks that follow a KICK by a PART, where the persistent bot is TextServ's, which joins and parts by its own list, and the other modules ask before they do: are `neousers` and `persistentusers` exact, does `irc_part` always find the channel of a persistent bot, and do bots leave exactly the dead channels? `Servers`: do the tables verify through doublings and halvings, are the counts of users exact in the middle of a split, does every split end, and is it one step of the network that is shown (`Splits`), unless a scan's fetched node was freed or its table halved? | 2 users, 3 bots (plain, persistent, services root), 2 channels, one of them the main channel of the persistent bot, and the services channel: enough for a channel to die with 0, 1 or 2 bots on it, persistent or not, for the recursion to run twice, and for TextServ's bot to be added, listed elsewhere, deleted and added again while the others come and go. Nobody makes the bot JOIN or PART its main channel (`MainListed`) or removes it from outside (`Exposed`). 4 servers (chains of three behind ours, and all flatter trees), tables of 2 chains at first; 9 users on two servers, one of them with a name used again: enough to double a table twice and to halve it within `QuitServerUsers` (`hash_delete` halves only above `INIT_SIZE`, hence after a second doubling: from 257 users on in the program) |
| `parts` | `Modules`: is data found only by the module that set it, are the counters never too low, do numbers stay unique (but for the failed load of an auth module), is `versionscan` exact? `Channels` without the assumptions above: do the two membership relations and the user counter still agree? `LimitServ`: is its bot on every managed channel, does a dead channel lose all its members, is there always room for one more user? `Statistics`: is a highest value one of its period, nested in the longer ones, and never lost once saved? | 2 modules and one auth module that fails to load, 2 numbers, 2 values per kind; a user, a bot and a persistent bot with counters modulo 4, so that they wrap; 2 users, 2 bots, one managed channel, BUFFER to 3, GRACE to 2, limits on both sides of the users, unsigned modulo 16, three nested calls of `handle_dead_channel`; nine days with two week starts and one month start within a week, counts to 2 |
| `eventloop` | `RunLevel`: is `GET_CUR_MODULE()` the innermost handler, does the loop always run as the core, does a jump abandon only the module that crashed? `Timers`: is the list sorted, is no handler early, none starved, no wake-up late, while modules load, synch, unload and crash? `LineMode`: does the parser get each line once and whole, and are only long lines dropped? `Modes`: does the copy follow the network? | 2 modules, 7 frames and 3 levels: an event within an event, an unload within a handler with events of its own, and the depth limit reached; 3 timers (two of the core, one of a module that changes its own interval), intervals 1 and 3, retry delay 2: equal, nested and coprime periods; streams of 7 characters in reads of 1 and 2 and buffers of twice and 2.5 times a read: three lines, and a buffer that fills exactly; a user and a bot, one mode of each kind, two masks, keys and limits, lines of two changes, so that a mode with a parameter precedes and follows every other |
| `users` | `UserRecords`: does StatServ count the users there are, and does a user's country never miss, whatever answers come late? `Dns`: is the queue served in order and refilled, does no lookup wait forever, with callbacks that start lookups and submissions that are refused, and does it implement `Lookups`? | 2 addresses, nicks and hosts (one of which is looked up), so that an address is used again and a nick changes hands while a lookup is in progress; 4 lookups over 2 active places: both lists can hold two, so that neighbours, ends and overtaking occur |
| `channels_kick_leaves` | finding 1 | 2 users, 2 bots |
| `channels_unload_stays` | finding 2 | 2 users, 2 bots |
| `timers_stall` | finding 3 | the timers of `eventloop` |
| `dns_canx` | finding 4 | the lookups of `users` |
| `modules_userdata` | finding 5 | 2 modules |
| `servers_leaves` | finding 6 | the servers of `network`, 2 users, so that no table is halved |
| `limitserv` | finding 7 | 1 user, 2 bots, four nested calls |
| `users_lookup` | finding 8 | 2 addresses |

Bounds of the models, not of the code: `UIntSize` (the width of counters, with
`MaxDrift` how far they may run away) in `Channels` and `LimitServ`, `MaxCalls`
in `LimitServ`, `MaxLate` in `Timers`, `Ids` in `Dns`, `MaxData` in `Modules`,
`MaxFrames` in `RunLevel`, `MaxLookups` and `MaxCount` in `UserRecords`,
`LastDay` and `MaxUsers` in `Statistics`, `MaxChanges` and `MaxParams` in
`Modes`, `MaxStream` in `LineMode`, `Arrivals`, `Home`, `MaxLinks` and `MaxQuits`
in `Servers` (where, in which order and how often users and servers come; and no
server is introduced once a branch was not removed whole, `PictureRight`). Runs
without deadlock checking are those in which the program may stop (a crash) or a
counter may reach its bound.

### Fairness

- `Timers` (stated in `EventLoopSpec`): weak fairness of the clock, of the event
  loop (`CheckTimers` once the timeout fires, which libevent guarantees) and of the
  end of the link's burst. Modules and users of the API owe nothing: `TimersNotStarved`
  (`NoStarvation` of `Timers`, in the part where timers move) is about behaviours in which they stop changing the list.
- `Dns` (in `UsersSpec`): weak fairness of `do_dns`, which a persistent libevent
  event runs every second; strong fairness of the answer to each lookup, since adns
  gives up a lookup after its own timeouts and `do_dns` asks in every pass. A lookup
  started and answered within one pass starts none in that pass; otherwise
  callbacks could keep one pass from ending.
- `Servers` (in `NetworkSpec`): weak fairness of the steps of `DelServer`: a call
  that has begun goes on. The network owes nothing.

### Refinement

`Lookups` says what a module that starts a lookup may rely on: it is accepted at
once, as active while there is room and as waiting otherwise; waiting lookups
get the free places or are refused by the resolver; an active one leaves by one
call of its callback, which may start one more, or with its module. `Dns` with
`active` the range of `dnslist` and `waiting` that of `dnsqueue` implements it:
property `KeepsThePromise` of run `users`, and for all constants theorem
`DnsImplementsLookups`. `Lookups` leaves open which waiting lookup is served;
that the order is kept is `QueueServedInOrder`.

`Splits` is the network that NeoStats follows: when a link is lost the branch behind
it and everybody on it are gone at once. `DelServer` takes them down one by one, so
what `Servers` shows of the network (`Shown`, `Present`) leaves out the branch of the
SQUIT in progress (`Lost`): the SQUIT is the split, and what follows must not be
seen. Property `SplitsAreWhole` of run `network` says of each step that it is one of
`Splits` or a stutter, but for the removal of a server whose scan of the leaves or of
the users was spoilt (`Missed`): its fetched node was freed, or the table halved. The
exception is needed: without it TLC finds that what a scan has missed appears again
when the call ends. `missed`, like `spoilt`, is a history variable: a frame
that has come to its users remembers what became of its scan for leaves.

Theorem `ServersFollowSplits` is the refinement, under the condition that this does
not happen; `SmallNetworksFollowSplits` has it without that condition for networks
in which it cannot: no server more than two links from ours (`Shallow`), and at most
`4 * INIT_SIZE` users, 256 in the program (`Few`), so that their table doubles once
and is never halved. Both limits are exact: with a chain of three `LeavesRemoved`
fails (run `servers_leaves`), and with one user more too, on a shallow network.

### Findings

1. Kicked bots stay counted in `neousers` without KICKPART (`KickChannel`).
2. `persistentusers` is decremented by `irc_part` only.
3. `CheckTimers_cb` arms the next wake-up only on paths that ran a timer.
4. `canx_dns` skips the element after each one it deletes; its second loop also
   calls `list_next` with NULL when it deletes the last queued lookup.
5. `CleanupUserModdata` walks the servers instead of the users.
6. `del_server_leaves` has fetched its next server when the recursive call of
   `DelServer` frees it: any tree of depth three on a protocol with NOQUIT, if the
   order in the table is right.
7. With JOIN on, LimitServ's bot joins again from the event of the part by which
   `handle_dead_channel` removes it, while it is still counted: the next test of
   the channel finds only bots, and the calls nest without end.
8. `lookupnickip` finds by a pointer to a nick whom the answer is for; another
   user may have the memory by then and gets an address that is not its own.

Theorems say how far findings 4 to 8 reach, for every value of the constants: the
promise that is broken holds while no unload finds two lookups of its module next to
each other (4, `LookupsGoWithModules`), modules are unloaded with none of their data at
a user (5, `UserDataIsOwned`), the network is small (6, `SmallNetworksAreCleared`), the
channel is not one LimitServ manages with JOIN on (7, `BotsPartOnce`), and nobody quits
with a lookup of its address in progress (8, `AddressesAreOwn`).

Behaviours met while modelling that no run is about:

- TextServ. `ts_cmd_add_chan` looks for the channel in the list, where the main channel
  of a bot is not: JOIN and PART of the main channel take the bot off it while LIST
  still names it, and if the channel is gone by then DEL, or the unload of TextServ,
  makes `irc_part` dereference NULL. With `MainListed = TRUE` TLC finds `ListIsTrue`
  and `NeverCrashed` violated in this way. So does, with an exposed bot, an SVSPART or
  kick of it and then PART or DEL. The JOIN of the main channel also counts the
  bot twice in `persistentusers`.
- Channels and bots. `cmd_del` of LimitServ parts the bot while the channel is
  still managed, so that it may join again. After the part that frees a channel
  `handle_dead_channel` goes on with its pointer. Under KICKPART both
  `ss_event_kick` and `ss_event_part` of StatServ count the user off.
- Servers. `ScanMissesNothing` (theorem `ScansMissNothing`) says when a scan can miss
  something, and both cases occur: that of finding 6, and `QuitServerUsers`, whose `QuitUser` ends in
  `hash_delete` instead of `hash_scan_delete` ("Exactly like hash_delete, except does
  not trigger table shrinkage. This is to be used from within a hash table scan
  operation", `src/hash.c`). When the table is halved under the scan, users of the
  lost server stay behind with `u->uplink` pointing to freed memory. A run of
  `LeavesRemoved` with all nine users finds such a user quit later (`QuitUser` with
  `uplink = Freed`).
- DNS and modules. A queued lookup whose `adns_submit` fails disappears without its
  callback; the failed load of an auth module frees number 0 whoever has it.
- Run level and signals. The unload within the signal handler sends events, whose
  `setjmp` overwrite `sigvbuf` with frames that have returned when the handler
  jumps. `RunModule[10]` is written at the depth limit, one past its end. After the
  jump the freed `module_ptr->info` is read.
- Users and StatServ. The exclusion flag is computed anew at nick changes and
  answers, so that with EXCLUSIONS on a user is counted in and not out, or out and
  not in; `DelTLDUser` may then find no country. `want_nickip` is never reset.
- Statistics. `SaveNetworkStats` stores the stamp of the save before, and the first
  record has none, which reads as January 1st; the records of channels and servers
  are stamped before they are stored, so that one saved between midnight and the
  reset keeps yesterday's values as today's if a crash follows. Unloading StatServ
  between midnight and the reset, after a late save, does the same to the
  network's (`StopsAtMidnight`). A reset timer later than an hour misses its day.
- Modes. `-b` removes the first parameter of that mode whichever was named: after
  `+b A`, `+b B`, `-b B` the copy has B, and a later `+b B` is taken as known; the
  property `NoGhostParams` is what still holds. Parameter modes of protocol modules
  are appended, not replaced. Key and limit are not in `c->modes`, so that
  `test_cmode` does not see them. An SJOIN with another timestamp merges modes.
- Sockets. An unfinished line that fills `readbuf` exactly has its terminator one
  past it; after a refused line the freed `Sock` is used; of two sockets of one name
  `DelSock` frees either.

## What is proved

All theorems are about every value of the constants that satisfies the named
assumption of their module (`TimersAssumption`, `DnsAssumption`, ...), which TLC
evaluates in the runs; bounds named above are constants too, so they are not bounds
there. Every safety property of the passing runs is a theorem, or for the two of run
`parts` that only put names together (`TypesOK`, `CarelessMembership`) a conjunction
of theorems.

What a loop or a resize computes is proved without induction over data. A recursive
function is replaced by any function that satisfies its equations (one exists, since
a least number for which none does would have a predecessor), and statements about
every prefix of a walk are proved by a least counterexample (`LeastNumber` in
`LinkedLists_proofs`, from the minimal elements of a well-founded relation). Closure
under a step is expressed by sets: `Sizes` is the smallest set with `InitSize` that
is closed under doubling, and a tree is a set of which every subset has a member
whose parent is outside.

`Channels_proofs`, for every finite set of users and bots, every set of channels
and every `UIntSize` larger than the number of clients:

- `MembershipCorrect` (with `TypeCorrect`, `UsersAlwaysCounted`): the invariant
  `TypeOK /\ MembershipAgrees /\ UsersCounted` is inductive as it stands. The
  argument is per channel record: each operator that changes a record (`Joined`,
  `Parted`, `DelChannelMember`, `WithoutBots`, `CheckEmptyChannel`) keeps `users`
  equal to the size of `members`, which is what the lemmas on `Inc` and `Sub` modulo
  `UIntSize` give.
- `TextServImplements`: a step of `TextServ` or around it is one of `Channels`, so
  that these hold with TextServ as well.
- `NeverCrashes`, `PersistentAlwaysCounted`, `ListAlwaysTrue`: if the persistent bots
  are those of TextServ, none is removed from outside and none made to JOIN or PART
  its main channel (`PersistAlone`), `irc_part` never finds a channel gone,
  `persistentusers` is exact and LIST tells the truth. Nothing is asked of the other
  modules or of the kick protocol, and no guard of the model keeps `irc_part` from a
  channel that is gone. None of the three is inductive: TextServ parts a channel that
  exists because its list is true, the list is true because `handle_dead_channel`
  spares its bots, and it spares them because the counter is exact, which depends on
  TextServ joining and parting each channel once. `PInv` holds them together and says
  in the middle of `JoinBot` and `PartBot` which channels the bot is on (`Expected`).
- `BotsCountedExactly`, `DeadChannelsAreLeft`, `LiveChannelsAreKept`: if, besides,
  KICKPART is on and the other modules ask before they join or part (the formula
  `Tracked`, the assumptions of run `network`), `neousers` is exact and the two action
  properties hold. `TInv` adds the counter to `PInv`; that the test of
  `handle_dead_channel` means "only bots, none persistent" follows.

`Parts_proofs` on `LimitServ`, for every set of clients and channels, every order of
the bots, all bounds of the settings:

- `LimitServTyped`: the type invariant, which is inductive as it stands.
- `BotIsOnItsChannels`, `LimitsLeaveRoom`, from `WInv`: the bounds and
  `OnItsChannels`, the same property without its restriction to idle states, in
  which alone it is not inductive. The arithmetic (`Minus`, `Abs`, `do_limit_set`)
  is that of unsigned differences given to `abs`.
- `DeadChannelsAreLeft`, from `DInv`, which adds that `neousers` is exact and
  `Covered`: nested calls are all for one channel, and its members are among the
  bots the innermost scan has not passed. So a call that returns has no member
  left, although others went through the same bots in between.
- `BotsPartOnce`, the promise finding 7 breaks, on every other channel (`Undisturbed`),
  without a condition on the behaviour: what a scan has passed stays off the channel,
  and each call is further on than the one outside of it (`InTurn`). So no bot is
  parted twice and the recursion ends after at most one call for each bot.

`EventLoop_proofs` on `Timers`, for every finite set of timers of which the core owns
at least two (`InitTimers` adds three or four), all modules and intervals:

- `HandlersAreNeverEarly`. The list plays no part in it: `EInv` says that
  `due[t] + since[t] >= interval[t]`, so a handler that is due has waited.
- `TimersTyped`, `ListStaysSorted`, `NoPendingWakeUpIsLate`. Inserting before the
  first timer that is not due earlier keeps the order (`InsertFacts`), deleting
  keeps the order of what is left (`LeftInOrder`), and both clocks move at one pace
  (`TickKeepsOrder`). A pending wake-up survives deletions because the new first
  timer is due no earlier than the old one (`DeletedFacts`). The invariant adds that
  the core's timers never leave the list: without them it could be empty, and
  `TimerCalcNextRun` schedules nothing when it inserts into an empty list.

`EventLoop_proofs` on `LineMode`, for every alphabet, stream, cut of it into reads of
at most `ReadSize`, every set of lines the parser refuses and every RECVQ of at least
two reads:

- `LinesAreWhole`. The reader is followed character by character: at every place of
  the stream the parser has been given the lines that ended before it, and the buffer
  is what follows the last end. A line of the stream is found by its place, not by
  what was done to it, so that the property does not repeat the loop. That the
  buffer is refused only for a line longer than a read needs RECVQ >= 2 * ReadSize.

`Servers_proofs`, for every set of servers and users, every hash function, every
initial size of the tables above 1 and any order of arrivals and splits:

- `TablesStayVerified`, `UsersStayCounted`, `ScansMissNothing`, `ServersTyped`, from
  `ServersInvariant`. Of the tables: every node is in the one chain of its hash
  value, once, through `grow_table`, which splits a chain on the next bit of the hash
  value, and `shrink_table`, which joins two (`GrowFacts`, `ShrinkFacts`; the bit is
  arithmetic of `\div` and `%`, for sizes that are doublings of the first). Of the
  scans: one that nobody has spoilt stands at a node of its table, with what it has
  still to visit ahead of it, and deleting a node elsewhere leaves that as it is
  (`DeletedElsewhere`). Of the tree: the servers linked are a tree and the calls of
  `DelServer` in progress one of its branches (`Calls`), so that a call never removes
  a server an outer one is at, except the one its scan has fetched.
- `SplitsStayWhole`, `ServersFollowSplits`. The calls in progress are all for servers of
  the branch that is lost (`CallsOnBranch`, by a least counterexample along the stack).
  So quitting a user of one of them, or a step of a scan, is not seen
  (`CallsAreNotSeen`). A server that is removed has nobody behind it, which is what the
  scan for leaves leaves behind when it ends (`LeavesGone`, added to the invariant for
  the refinement only), and nobody on it, since the scan of the users has come to its
  end: the branch without it is the branch of the rest (`BranchTrimmed`,
  `RemovalIsNotSeen`).
- `SmallNetworksAreCleared`, `SmallNetworksFollowSplits`, `SmallNetworksAreShownWhole`,
  from `SmallInv`: no call is spoilt, no outer scan stands at the server the call
  within it removes, the table of users has doubled at most once, every uplink of a
  server is linked and of a user not freed. A call for a leaf is made when the scan has
  passed it (`HashScanNextFacts`), so that only a second nested call could free what
  is fetched, and in a shallow network there is none (`ShallowCalls`). A table of
  twice the initial size is not halved (`SmallTable`), since `hash_delete` asks for
  more than `INIT_SIZE` nodes and for no more than a quarter of what would double it.

`Modes_proofs`, for every table of modes, set of clients and length of lines:

- `CopyFollowsNetwork`. One change keeps the copy (`OneChange`), where a removal of a
  parameter takes one from each side, so that a mode never has more parameters in the
  copy. A line keeps it (`HandlerFollows`): after the characters of the first n
  changes the handler has what follows the network's nth stage, the sign of that
  change and exactly the parameters of those that are left. This rests on the reader's
  and the writer's agreement on which modes take a parameter (`ChangeFacts`).

`LinkedLists_proofs` holds what these need of sequences and least numbers.

`Dns_proofs`, for every size of the active list, every finite set of lookups:

- `NoLookupTwice`, `NothingWaitsInVain`, `ServedInOrder`: `DnsTypeOK`, with the ids
  of both lists distinct, and `QueueOnlyWhenFull` are inductive together, the latter
  being what `dns_check_queue` restores at the end of each pass and each unload. The
  lemmas say what removing, appending and refilling do to the two lists. The refill
  takes the shortest prefix of the queue that fills the list (`LeastNumber`).
- `DnsImplementsLookups`: each step maps to one of `Lookups` or a stutter
  (`StartStep` ... `CalledBackStep`, one lemma per action).
- `LookupsGoWithModules`, from the refinement: no step of `Lookups` but an unload gives a
  lookup an owner that is not loaded (`LookupsKeep`), and `canx_dns` takes all lookups
  of a module of which no two are neighbours (`AllCanxed`). The condition is the
  action property `NoNeighbours`; under it no callback of a module that is gone is called.

`StatServ_proofs`, for every set of nicks, hosts, addresses and countries:

- `TypeCorrect`, `NetworkUsersExact`, `TldAlwaysCovers`. `TldCoversUsers` speaks of
  users one by one and is not inductive; the invariant counts, for each country,
  the addresses of its users (`CountriesCovered`), and carries that two nicks never
  find the same `Client` and that nobody is excluded where exclusions could matter.
- `AddressesAreOwn`, under the condition of finding 8 (`NoneStranded`): every lookup in
  progress is for a user there is, of its host (`OwnInv`), and the nick at its pointer
  finds that user, also after nick changes (`FoundByOwnNick`).

`StatServ_proofs`, for every year, first days of months and number of users, with
weeks of seven days and no unload between midnight and the reset (`Regular`):

- `StatsTypeCorrect`, `HighestIsOfPeriod`, `PeriodsAlwaysNested`,
  `RecordsAlwaysSurvive`. The invariant relates the saved record's stamp to the
  history: a record stamped today can only hold what was counted in the periods its
  stamp names (`PeaksOK`, `StampsOK`), and says which timers may be late after
  midnight (`LateOK`). Lemmas about the calendar say that a week or a month that has
  changed is greater, and that a day of the same stamp is the same day.

`Parts_proofs` on `Modules`, for every set of modules, every number of module numbers and
every finite sets of channels and servers:

- `DataIsOwned` (with `TypeCorrect`, `DataAlwaysCounted`): data is found only under
  the number of the loaded module that attached it. Alone this is not inductive: an
  unload cleans up only when a counter is positive, so the invariant carries
  `DataCounted`, and that a module whose load fails in `AddAuthModule` is never in
  the hash (it would be unloaded under a number that is not its own). `UnloadKeeps`
  is the heart of the argument.
- `UserDataIsOwned`, under the condition of finding 5 (`UsersFreed`): nothing else breaks
  `UserDataOwned`, not even the load of an auth module that fails.
- `NumbersAreKept`: `NumbersKept` from the type invariant alone.
- `VersionScanExact`: `versionscan` counts the loaded modules with the flag. It
  needs that no module which fails in `AddAuthModule` has it (`ModulesAssumption`):
  `load_stdmodule` would decrement what it has not incremented.

`EventLoop_proofs` on `RunLevel`, for every set of modules, depth of the stack and size of
`RunModule`:

- `TypeCorrect`, `CurrentIsInnermostAlways`, `LoopAlwaysCore`,
  `JumpAbandonsOneModule`. The invariant gives each frame its `level`, the number of
  calls below and with it, so that a call writes only above the entries of the
  frames under it; after a crash it still bounds `RunLevel` by the number of calls,
  from above, and exactly by those made since the handler began.

### Model-checked only

Liveness (`TimersNotStarved`, `NoLookupWaitsForever`, `SplitEnds`): fairness and
ENABLED are out of the prover's reach. `CarelessMembership` and `TypesOK` name what
`MembershipCorrect`, `UsersAlwaysCounted` and the type theorems of the four modules
prove; the formulas themselves are about an instance of `Channels`. The findings are
counterexamples, which need no proof.

## What is not modelled, and why

- `Servers`: end of burst, pings, protocols without NOQUIT (there the uplink
  sends a QUIT for each user, so the recursion does not occur).
- Sockets beyond `LineMode`, and DCC clients: the hazards listed for them are uses
  of memory after it was freed, or of a record of another type (`dcc_error` takes the
  `Client` for a `Sock`). What the program does then has no outcome a property could
  name.
- Authentication, bans, the decision who may use a command, user modes, exclusions
  of servers and channels: sequential, one table each.
- Databases: `DBAFetch` and `FetchRows` use the entry of the current module without
  a test; what lies behind it is I/O.
- The protocol modules: tables and formats of one ircd each. What they switch on in
  the core (KICKPART, NOQUIT, which modes have parameters) are constants here.
- Vendored libraries (adns, libcurl, libevent, pcre, nxml, confuse, MiniMessage, NV)
  make up most of the lines of the tree and are external to the models: `Dns` has
  adns as an environment that answers or not, `Timers` has libevent as a timeout that
  fires. The formats of messages, help texts and languages have no state.

Next would be: `DeadChannel` as a refinement, that is `LimitServ` without acting
handlers against `Channels`; user modes and the operators StatServ counts by them.
