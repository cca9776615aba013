# Zpotdrop: specifications, model checks and proofs

Zpotdrop is a location-sharing app: a Laravel backend with a MySQL database, a
Node chat server over Redis channels, an iOS app and an Android template. The
repository carries the Redis server it runs on (`Backend/redis-3.0.3`), which is
the largest part of its code and the one whose concurrency and failures are
hardest to test. This directory holds TLA+ models of the parts that carry logic,
TLC configurations for them, and TLAPS proofs. `PROJECT.json` lists the
components, the runs, the mutants, the lines each definition models, the
findings, the hazards and the theorems. Paths below are relative to
`src/SourceCode/`; `app/` and `database/` are in `Backend/Zpotdrop/`, the `.c`
files in `Backend/redis-3.0.3/src/`.

## Inventory

| Component | State it keeps | Operations | Hard part | Module |
|---|---|---|---|---|
| Engagement: posts, likes, comments (`app/Acme/Models/{Post,Like,Comment}.php`, `PostController`, `FriendController`, migrations, seeder) | tables users, friends, venues, posts, likes, comments; two counters per post | like, save of a comment, register, delete a user with its cascades, seed | read-modify-write of a counter without a transaction; a process dying half way; a foreign key to the wrong table | `Engagement` |
| Profile: avatar (`UserController::update`, `LZImage`, `User::update`) | avatar column, files under `uploads/avatar` | update the profile, with a file, an empty field or none; delete the user | column and file change in separate steps; a throw after the side effects | `Profile` |
| Accounts (`OAuthController`, `UserRequest`, `UserController::update`, `Routes/Api.php`) | users, access tokens | register, login, logout, change the email, delete | check-then-insert of the email; three statements without a transaction | `Accounts`, partly |
| Chat server (`app/Acme/ChatSocket/server.js`) | sockets, rooms, a Redis connection and its message handlers per socket | groupme, join, join_group, logged, disconnect, message | commands take effect later than rooms; an exception ends the process | `ChatServer` |
| Redis channels (`pubsub.c`) | client to channels, channel to clients | subscribe, unsubscribe, free a client, publish | one relation stored twice, with assertions | `PubSub`, no patterns |
| Redis commands and key space (`db.c`, `t_*.c`, `sort.c`, `bitops.c`, `multi.c`, `blocked.c`, `scripting.c`, parts of `redis.c`) | two databases with expires, clients, blocked clients, scripts | the commands on strings, lists, sets, hashes, sorted sets, keys and databases, SORT; expiry, eviction, MULTI, WATCH, EVAL, blocking pops | what is handed to slaves and log is not what was sent; wake-ups; optimistic locks | `Keyspace`, `StringCommands`, `ListCommands`, `SetCommands`, `ZsetCommands`, `RedisServer`, partly: no PFADD, PFMERGE, PFCOUNT, RESTORE, MIGRATE |
| Redis connections (`networking.c`) | query buffer, reply buffers | read, parse, execute, reply, write, pause, block, close | requests cut anywhere; shared objects in the reply list | `Connection` |
| Redis structures (`ziplist.c`, `intset.c`, `adlist.c`, `dict.c`, `t_zset.c`, `hyperloglog.c`, `rdb.c`) | the memory of a value | updates, change of encoding, SCAN, save and load | cascades of lengths, rehashing under a cursor, limits that differ between writer and reader | `Ziplist`, `Dict`, `Encodings`, `ZsetType`, `Rdb`, `Structures` |
| Redis configuration file (`config.c`) | options, `redis.conf` | load, CONFIG SET, CONFIG REWRITE, restart | a crash between the padded write and the truncation; options merged line by line | `ConfigFile` |
| Redis replication (`replication.c`) | backlog, offsets, slaves, masters | PSYNC, snapshots, stream, SLAVEOF, timeouts | snapshots shared by slaves that came at different times; resumption after a break | `Replication` |
| Redis persistence (`aof.c`, `bio.c`, `rdb.c`) | AOF, its buffer, the rewrite and its pipe, `dump.rdb` | append, fsync, rewrite, save, shutdown, load | short and failed writes, kills, power failures, a policy switched at run time | `Persistence` |
| Redis Sentinel (`sentinel.c`) | instances, votes, failover state, its file | timer, INFO, hello, votes, RESET, FAILOVER, restart | delayed and repeated votes, half finished failovers | `Sentinel`, partly |
| Redis Cluster (`cluster.c`) | every node's table of nodes, slots and epochs; votes, failure reports, handshakes, slots under way | bus packets, clusterCron, CLUSTER commands, manual failovers, MIGRATE, redirections | old packets after failovers; elections; removal of nodes against gossip; slots that move under clients | `ClusterState`, `ClusterConfig`, `ClusterElection`, `ClusterFailure`, `ClusterMembership`, `ClusterSlots` |
| Password reset and mail queue; the iOS screens, drawers and local store; notifications, push, reading side, scaffolding, Android template, client tools and libraries | - | - | - | not modelled, reasons in `PROJECT.json` |

How they interact. Every HTTP request runs in a PHP process of its own and
shares only the database and the file system with the others; nothing in the
backend opens a transaction. `User::destroy` (reached by the route
`friends/{id}/delete`) is shared by Engagement, Profile and Accounts and is an
action of each. The chat server holds one subscribed connection to Redis per
socket and forwards what comes on a `group_` or `users_` channel to the socket.io
room of the same name. Nothing in this repository publishes on these channels:
who does is outside, and a publication may come at any time. The
iOS app of this commit talks to Parse and not to the backend. Inside Redis one
thread runs all commands, and what it hands to slaves, to the log and to blocked
clients is decided while they run; children and the background fsync thread share
only files and pipes with it; servers meet in connections that break.

What makes each part correct:

* Engagement: a counter never shows what was not stored, and more than the rows
  that are left only after a cascade; it is exact when nothing goes wrong; rows
  never refer to missing rows.
* Profile: the avatar a row names exists; no request removes another's file; no
  file stays behind but those an empty field erased from the row.
* Accounts: one account per email, and one welcome for every time it was free.
* Chat: what a member's subscription catches is forwarded; nothing stays behind.
* Redis, one server: the copies follow the master, nobody sleeps next to data, a
  watched change is noticed, requests are served once and in order, a value is
  what its commands made of it in every encoding and after every reload.
* Redis, several servers: a slave has its master's data, an answered write
  survives, an epoch has one leader, tables converge, clients read what was
  written last.

Each of these has exceptions in this code. They are premises of the properties,
by name, and listed at the end.

## Modules

| Module | Extends | Runs |
|---|---|---|
| `Engagement`, `MCEngagement` | | `engagement_counters`, `engagement_lost_update` |
| `Profile`, `Accounts`, `MCUsers` | | `users` |
| `PubSub`; `ChatServer`, composed with its tables; `MCChatServer` | | `chat_rooms` |
| `ClusterState`, the table of a node as operators | | |
| `ClusterConfig`, `ClusterElection`, `MCCluster` | `ClusterState` | `cluster` |
| `ClusterFailure`, `ClusterMembership`, `ClusterSlots`, `MCClusterNodes` | | `cluster_nodes` |
| `Keyspace`; on it `StringCommands`, `ListCommands`, `SetCommands`; on these `ZsetCommands` (with SORT); `RedisServer`, the command table, scripts, clients and consumers; `Connection`; `MCRedisServer` | in that order | `redis_commands` |
| `Ziplist`, `Dict`; `Encodings` (intsets, linked lists, lists, sets, hashes), `ZsetType` (skip lists, sorted sets); `Rdb`; `Structures` (HyperLogLogs and one value of any kind); `MCStructures` | in that order | `structures`, `dict_scan_shrinking` |
| `Sentinel`, `ConfigFile`, `MCSentinel` | | `sentinel_failover` |
| `Replication`, `Persistence`, `MCReplication` | | `replication`, `replication_resume` |
| `EngagementProofs`, `ChatServerProofs`, `ClusterConfigProofs`, `ClusterElectionProofs`, `SentinelProofs`, `PersistenceProofs` | their module | |
| `UsersProofs` | `Profile`, `Accounts` | |
| `ClusterNodesProofs` | `ClusterFailure`, `ClusterMembership`, `ClusterSlots` | |

An MC module may hold several machines that share no step: it extends or
instantiates each, and a variable `part` (in `MCRedisServer` the command
family) says which of them a behaviour is about; the others stay where they
started. One run then asks the questions of each.

Operators that a comment calls "a faulty form" or "Mutant" are used by no
specification. Each is a plausible bug of the definition it stands next to;
`PROJECT.json` names, for every property, one whose substitution violates it.

### Engagement

`Like::save()` is an INSERT; `finishSave()` then calls `Post::makeLike`, which
is a SELECT of the post, an increment in PHP and an UPDATE. The actions are
these statements: `Save`, `Find`, `Update`, with the value read kept in
`job[w].snap`. `Comment` differs in its column and its foreign key only, so one
set of actions serves both, by kind. `Like` is the request of
`PostController::like`, which uses the literal user 1. Comments are saved by the
seeder only, as in the code. `Delete` is one DELETE with all the cascades that
the migrations declare; `likes.post_id` references users there, and so it does
here, so that a like can be stored for a post that does not exist. The seeder
goes table by table, draws foreign ids as `ModelFactory.php` does, and stops at
the first exception (`SeedAbort`). `WorkerDies` and `SeederDies` end a process
between two statements. `made` and `mishaps` are history: rows ever stored for a
cell (a counter of a post), and what befell a cell: two saves of it overlapped,
one died, one found no post, a cascade took a row of it.

### Profile and Accounts

`UserController::update` of one user, several requests at once: `Find` reads the
row, `Upload` writes a file under a name nobody has drawn, `DeleteOld` removes
the avatar that was read, `Update` stores the new name. An empty avatar field is
no file and passes the rules, so `fill` puts it in the column and the old file
stays: `erased` are the files that lost their name so. `User::update` parses
the birthday as d-m-Y; the column holds Y-m-d, so without a birthday in the
request it throws (`UpdateThrows`), after the old file has gone: the row then
names a missing file until a later update. The failure branch of the controller
(line 104) is unreachable, since `save()` returns true or throws. Names drawn
from `md5(microtime . id)` are taken not to repeat.

`register` is the SELECT of the unique rule, the INSERT of `create`, the UPDATE
that stores the parsed birthday, and the issue of a token; each is a step, and a
process may die at each. The unique index of `users.email` is the guard of the
INSERT. `ChangeEmail` is the other way to an email: the update of a profile, again
with the check of the unique rule first and the index in the UPDATE (`Rename`).
`freed` counts the times an email was given up, by a deletion or by a change.
`Logout` changes nothing: its first line calls a method that the parent
does not have, so the token is never deleted. Issuing and expiry of tokens are
the OAuth library's and external.

### PubSub and ChatServer

`PubSub` is the two tables of `pubsub.c` and the operations on them.
`ChatServer` gives each socket a queue of commands that Redis has not read and a
queue of messages that Node has not handled: a handler runs to its end, a
subscribe takes effect in `RedisReads`, possibly long after the socket has
entered the room. `Deliver` runs all handlers of the connection on one message;
those of join_group and logged parse it, and the first that throws ends the
process (`ProcessEnds`) after the earlier ones have emitted. `QuitCommands` is
what the disconnect handlers send, in the order they were registered: the outer
quit is first, so the unsubscribe of the wrong channel after it is never read.
The quit of a client and the release of its subscriptions are one step here. A
failure of Redis itself is not modelled.

### Redis commands, `RedisServer`

A command is a function on a record that is threaded through the functions of the
code (`Keyspace` says what it holds): the selected database, what was propagated,
which keys were touched, which became ready. `RedisServer` wraps it in `call`,
`processCommand`, MULTI/EXEC, WATCH, scripts, the blocking of clients, the
expiry cycle and the eviction of keys, and gives the result to three consumers:
a slave, the append only file as loading would read it, and a rewrite of it. A
random choice of the command is an input, so that `CopiesFollow` is about the
command that is propagated and not about luck. `unsaid` is history, of what the
code does without telling somebody: keys that SORT STORE put a list in over a
value of another type (`hushed`), keys that MOVE added to a database (`moved`),
and a stored SORT whose order is not decided by what it compares (`tied`).
`Connection` is one client of `networking.c` on its own, one that is no slave,
master or monitor: a byte is a pair, a read may cut anywhere, and a read of no
bytes frees the client whether the peer has gone or nothing was asked for.

### Structures

`Structures` keeps one value in the memory of its encoding (`o`) next to the
abstract value (`ref`) that the commands so far make of it; the encodings are
written down to stored lengths, offsets, spans, buckets and runs. Widths are
small (a cell of an intset has 4 values, a ziplist length grows at 4 bytes) so
that upgrades and cascades happen with a few entries. An insertion into a ziplist
resizes the block before it moves the tail: where the field of the next entry
shrinks by more than the new entry needs, bytes at the end are gone (`CutsTail`)
and the list is `lost`. `Rdb` writes a value as the
cells of a stream and reads it again, under other limits than it was written.

### Sentinel and ConfigFile

`Sentinel` has one action per handler of the event loop of three sentinels that
watch one master. Timeouts may be over whenever they are looked at. A restart
reads what `sentinelFlushConfig` wrote; the write may fail, and then the sentinel
goes on, a vote it has just given included (`unsaved`; `forgot` are the epochs
whose votes a restart then lost). `elected` has every leader with the epoch of the
replies it counted and that of its own vote, which the code does not compare. The
loop that tells the slaves of the new
master goes over a hash table: `ReconfSlaves` lets it visit them in any order and
end as soon as `parallel-syncs` of them are busy. `ConfigFile` is a `redis.conf` as a
sequence of option lines, with one option for each way of reading, setting and
writing, an `include` and a line nobody knows among them; the write of CONFIG
REWRITE and its truncation are two steps.

### Replication and Persistence

In both a data set is the sequence of writes that made it, so that a lost,
repeated, misplaced or misdirected write shows. `Replication` counts commands
where the code counts bytes; the two ends of a connection lose it together. A
slave whose PSYNC is answered with an error goes on with SYNC and then takes its
master for one that knows no offsets (`master.old`). `exact` is history: the slave
has not been misled about the offset of what it has; the events that mislead are
named at `OffsetTellsData`. `Persistence` cuts writes of the log in units, so that
a buffer, a pipe or a disk can end inside a command; a kill loses memory and
children, a power failure also what was not synced. The end of a rewrite is two
steps, the rename and the fsync after it, with `mem.renamed` in between; a rename
is taken to be durable at once.

### Redis Cluster

`ClusterState` has the table of one node and the functions that change it as
operators; `ClusterConfig` (PING, PONG, UPDATE, collisions of epochs, takeovers)
and `ClusterElection` (one election after the other, automatic or by CLUSTER
FAILOVER, with packets in any order, late or never, and with restarts) are built on
it. A request of a manual failover is answered although the master is not down
(force_ack); an ack that comes while the next attempt is only scheduled is counted
for that attempt, whatever epoch it is of; a vote is not saved when it is given.
`tally`, `forgot` and `won` are the history that `TwoWinnersCost` speaks of.
`ClusterFailure` follows the flags
about one master that is cut off again and again; `ClusterMembership` the
handshakes, the gossip and the black list while a node is met, moves and is
removed; `ClusterSlots` the move of one slot with its keys, the operator, MIGRATE
commands that time out, and clients that follow redirections.

## Runs

| Run | Instance | Result (distinct states) |
|---|---|---|
| `engagement_counters` | 2 workers and the seeder, 2 ids, 3 saves per post | `CountBound`, `PhantomsAreCascades`, `SerialExact` hold (430 000) |
| `engagement_lost_update` | the same | `CountsMatchRows` is violated |
| `users` | 2 profile requests, 3 file names; 2 workers, 2 emails, 2 registrations, 2 tokens | `UploadsKept`, `AvatarKept`, `SerialClean`, `Repaired`, `OneAccount` hold (330 000) |
| `chat_rooms` | 2 sockets, 1 name (a group and a user channel), 2 handlers per connection, 1 message | `NothingLost`, `NoLeak`, `EventuallyForwarded` hold (490 000) |
| `cluster` | configuration: 2 masters, a slave, 1 failover or takeover; election: 3 masters, 2 slaves of one that is up or down, 5 epochs, up to 2 restarts of voters, 1 CLUSTER FAILOVER | `RolesAgree`, `OwnerEpochGrows`, `TablesConverge`, `TwoWinnersCost` hold (110 000) |
| `cluster_nodes` | failure: 3 masters and a slave; membership: 2 members and a newcomer, 4 addresses; resharding: 2 keys, 2 clients, 2 writes, 1 timeout | `FailIsAgreed`, `DetectionSettles`, `ForgottenStays`, `ReadsLatest` hold (840 000) |
| `redis_commands` | 2 keys, 2 databases, 2 clients; twelve families of commands and one connection | `CopiesFollow`, `NobodyWaitsOnData`, `WatchersKnow`, `KeyspaceSound`, `AnswersInOrder`, `RequestsServed` hold (350 000) |
| `structures` | lists of 4, sets of 5, hashes of 3, sorted sets of 4 elements, HyperLogLogs of 4 registers, dictionaries of 3 keys | `Represents`, `ScanComplete`, `Reloads` hold (110 000) |
| `dict_scan_shrinking` | dictionaries only | `ScanReturnsAll` is violated |
| `sentinel_failover` | 3 sentinels in five scenarios (instances, actors, epochs, faults); 3 files, 2 changes, 1 crash | `OneLeaderPerEpoch`, `PromotedInPlace`, `FileNamesInstances`, `ConfigReloads` hold (390 000) |
| `replication` | 3 servers as a star, a chain or a pair, in eight scenarios; one disk in six | `StreamComplete`, `OffsetTellsData`, `SlavesCatchUp`, `LogComplete`, `AckedSurvives`, `DirtyTold`, `SwitchesOn` hold (340 000) |
| `replication_resume` | the same | `ResumesWhereItLeft` is violated |

What the violations show:

* `engagement_lost_update`: two likes of a post overlap, both read the same
  `likes_count`, and one stored like is never counted. `Like.php:73` says of the
  step "get post and make like ++".
* `dict_scan_shrinking`: while a table shrinks to a quarter or less, `dictScan`
  counts the upper bits of the larger table upwards where the cursor it was given
  had them reversed, and skips buckets; `dict.c:774` says that all elements
  present get returned.
* `replication_resume`: the offset announced at PSYNC is not that of a snapshot
  forked later, so a slave that resumes gets writes twice; `replication.c:1648`
  says the stream starts "from were this master left".

### Bounds

Two processes are the smallest number that overlap; with the seeder, Engagement
has three, so that a stale value can be written over two newer ones. Two ids let a
user id and a post id coincide and differ, which is what the wrong foreign key turns on. In Accounts two registrations and
two emails allow an email to be freed, by a deletion or a change, while it is being
registered again. One chat name gives two channels, of which the nested disconnect handler
mixes up one with the other. Two masters and a slave are the smallest cluster in
which a header is older than a failover; three masters the smallest in which a
majority is not all. Two restarts and an attempt that is made again let a voter
forget and an ack be late, so that two slaves do win one epoch in the run; a total
(`MaxEvents`) keeps attempts, restarts and calls from being used up together.
Two keys are needed for multi-key requests that are
split by a move, two databases for SELECT in a stream. The scenarios of Sentinel
and of the copies trade servers, writes and faults against each other, so that
each mechanism meets a fault in one of them. The widths and limits of the
structures are such that every change of encoding happens with three or four
elements. Every bound is a CONSTANT whose comment says so.

Deadlock is not checked where the system may stop: when the bounds are used up,
and when every socket of the chat server has closed.

### Fairness

* `users` (`Profile`): a request that has started goes on, because its PHP process
  does; the step in which it dies has no fairness and may still happen.
* `chat_rooms`: the event loops of Redis and of Node serve what has reached them.
* `cluster` (`ClusterConfig`): what arrived on a link is processed; a node pings
  every other again and again (strongly fair, since the packet of an earlier ping
  may be in the way), as `clusterCron` does.
* `cluster_nodes` (`ClusterFailure`): pings, answers, timeouts and the delivery of
  FAIL messages go on; the master stops being cut off and restored at some point
  only by choice of the behaviour, which is the premise of `Settles`.
* `replication`: a server goes on with what it has to do, and so do its children;
  `replicationCron` runs each second. Faults, writes and commands are not fair.

Nothing is assumed of users, of publications, of administrators or of failures.

## Proofs

Eight modules, with the theorems of the components below and the lemmas they rest
on. They hold for every value of the constants; the runs show the same
properties on small instances. The constants' assumptions are named
(`EngagementAssumption`, `ProfileAssumption`, `AccountsAssumption`,
`ChatAssumption`, `ConfigAssumption`, `ElectionAssumption`, `FailureAssumption`,
`MembershipAssumption`, `SlotsAssumption`, `SentinelAssumption`,
`PersistenceAssumption`) and TLC evaluates them in the runs: sets of processes,
nodes, masters or sentinels are finite, bounds are numbers, there is a database, the
null value is no member.

`EngagementProofs`:

* `TypeCorrect`.
* `CountsBounded`: that a counter is no more than the rows stored is not inductive,
  since a process may hold a stale value and write it plus one. `CountBound` is: the
  counter, and each value a process may still write, plus the number of
  processes that owe an increment, never exceed the rows stored.
* `SerialSavesCounted`: `SerialExact` needs `SerialInv`, which says of an
  untroubled cell that one save at most is under way, that it has read the
  current value, and that counter and pending saves add up to the rows stored.
* `ReferencesHold`: referential integrity is inductive with the types.

`UsersProofs`, of `Profile`:

* `Invariance`: the inductive invariant `ProfileInv`. `UploadsKept` alone is not
  inductive: another request could have read the name. `UploadsPrivate` says it
  has not: a file written and not stored is in no row and in no other request;
  `NamesDrawn` makes the next name new to all; `ProfileLocals` ties the variables of
  a request to its step; `SerialFiles` follows the files, those erased from the row
  among them, through one request.
* `ProfileTyped`, `UploadsSafe`, `DanglingOwned`, `AvatarSafe`,
  `SerialLeavesNoFile` and the action property `StoresPresent` follow from it.

`UsersProofs`, of `Accounts`: `AccountsTyped`, and `OneAccountHolds` from
`AccountsInv`. The check of the unique rule plays no part in it: the guards of the INSERT and of the UPDATE of the email
make emails unique, and `Accounting` counts, per email, that the welcomed
registrations and the ones past their INSERT are no more than the times the email
was given up plus the row that has it.

`ChatServerProofs`: `TypeCorrect`, `ListsAgree` and `MessagesKept`
(`NothingLost`). A message passes three queues. `HandlerInv`: whoever is
subscribed, or has a subscribe on its way, has a handler. `ListInv`: the list of a
channel has every client whose own table names it, so PUBLISH writes to it; this
is what `pubsubUnsubscribeChannel` asserts. `RoomInv`: who is owed a message
stays in its room while its socket is open, so that the emit of the handler
reaches it.

`ClusterConfigProofs`: `TypeCorrect`, `RolesAlwaysAgree` (`RolesAgree`) and the
action property `OwnersOnlyGrow` (`OwnerEpochGrows`). The lemmas of the first half
say what each operator of `ClusterState` does to roles, slots and epochs. The
inductive invariant says that every table is sound and that every packet is as its
sender could have written it then: its claims are below the epochs it carries.

`ClusterElectionProofs`: `VotesAccounted`, and from it `TwoWinnersPay`
(`TwoWinnersCost`), with restarts, late acks, manual failovers and promoted slaves,
and no hypothesis beyond the shape of the cluster. A voter's last vote is one
number, so nothing in the state says who voted for whom. The invariant reads it off
the traces a vote leaves (`Cast`): an ack under way, a voter in the tally of the
attempt it was given to, or one of a winner. `NetInv`: there is one request and one
ack per voter, candidate and epoch, because a candidate saves an epoch before it
asks in it. `CastInv`: a voter with a vote cast in an epoch has not voted before it
in its memory, or forgot that epoch in a restart, and only then has two slaves of
one epoch as its candidates. `AttemptsInv`: the count is that of the voters in the
tally and of the late acks. So winners have majorities made of voters and late
votes, and two majorities of the masters have more in common than nothing.

`ClusterNodesProofs`, of `ClusterFailure`: `FailureTyped`, and `FailNeedsMajority`
(`FailIsAgreed`).
The invariant is a disjunction. Either a majority of the masters has found the
suspect unreachable (`Agreed`), or (`Sourced`) every report and every flag is of a
master that found it so itself, and nobody has flagged FAIL. Only a count of such
reports leads from the second to the first, and the end of an episode back.

`ClusterNodesProofs`, of `ClusterMembership`: `MembershipTyped`, and
`RemovedStaysRemoved` (`ForgottenStays`): a node that every member forgot before a
black list expired is in no table again. `TablesInv`: no two nodes share an address
and nobody is in its own table. `MailInv`: a packet under way belongs to an entry of
its owner's table, so a late answer renames or completes nothing else. `QuickInv`
follows the removal: while it is quick nobody shakes hands, every table holds exactly
the nodes not yet forgotten at it, and whoever forgot the node has it in its black
list, or all have forgotten it and no packet under way tells of it.

`ClusterNodesProofs`, of `ClusterSlots`: `ReadsAreLatest` (`ReadsLatest`), from
`SlotsInv`, with reads, writes and deletions of one key or of all, at every stage
and with any number of timeouts. `TruthInv` says who is right about a key: the
source as long as it has it, the target from then on. It says nothing of a key that
is `Exposed`: in doubt, since its MIGRATE timed out, and uncovered, by a DEL in the
source or by a multi-key request that the target served. `MoveInv` is the state of
the slot at both sides, `InboxInv` and `QuietInv` what a timed-out MIGRATE may still
deliver, `ClientInv` the requests under way: one that was sent to the target has a
key the source lacks.

`SentinelProofs`: `SentinelTyped`, `PromotedAlwaysInPlace` (`PromotedInPlace`),
`FilesNameInstances` (`FileNamesInstances`), `OneLeader` (`OneLeaderPerEpoch`) and
the action property `VotesFinal`: no step takes back a vote, or what another heard of
it, but a restart from a file whose write had failed, and that marks the epochs.

* `MemoryInv`, per sentinel: the failover in memory is in place (`Sound`), and the
  file, unless its last write failed, has the epoch of the last vote (`Filed`) and
  names what is watched except the old master of a failover that was promoted and
  not finished (`Names`).
* `VotesInv`: `OneLeaderPerEpoch` says nothing of votes, which a restart takes out of
  memory and a reply keeps elsewhere. `Backs(t, a, e)` says of a voter that nobody
  will hear from it of another vote in epoch `e` than for `a`: its epoch is not
  before `e`, and its memory and all replies kept by others agree. It holds of every
  vote in memory and of every reply, of the epochs that no restart forgot, and once
  it holds it stays (`BacksStay`), because a vote needs a later epoch and the epoch of
  the vote survives the restart.
* `ElectedInv`: more than half of the sentinels back a leader whose own vote is of the
  epoch of its replies (`Lasting`). Two such majorities share a voter.
* The hypothesis of `OneLeader` is `Overlapping`: the quorum is more than half of the
  sentinels, or there are no faults. `sentinelGetLeader` asks for the majority of the
  sentinels it knows, and SENTINEL RESET makes it know fewer: with three sentinels, a
  quorum of one and two resets TLC finds two leaders of an epoch. Without a fault
  every sentinel knows all others and its majority is one of all.

`PersistenceProofs`: `PersistenceTyped`, `LogAlwaysComplete` (`LogComplete`),
`AckedAlwaysSurvives` (`AckedSurvives`) and `DirtyAlwaysTold` (`DirtyTold`), from the
inductive invariant `DiskInv`.

* The first half is about the operators. Loading is a recursive function over a file
  and so is the rewrite over a data set. Induction is by the smallest counterexample
  (`Smallest`): there is a function that satisfies the recursion (`SomeReplay`), it is
  the only one on a common beginning (`OneReplay`), so one more unit is one more step
  (`ReplayedAppend`). From that: a loaded data set has exactly the writes complete in
  the file (`ReplayedWrites`), the file a rewrite makes of a data set loads as that
  data set (`RewrittenMakes`), feeding a command keeps both in step (`FeedMakes`), and
  every beginning of a good file is good (`WellFormedCut`), which is what a power
  failure and a short write need.
* `LogInv` adds to `LogComplete` that the database the loader ends with is the one
  the server takes for selected: without it the next command could go elsewhere.
  `ChildInv` says the same of the new file with everything on its way to it; it holds
  also while the log is off or spoilt, since the child's file may become the log.
  `Pending` is what no step of the transfer changes (`TransferKeeps`).
* `AckInv` holds for spoilt logs too and so speaks of the writes complete in the
  file and the buffer, not of what loading makes. Under appendfsync always a failed
  write ends the process, which is why the buffer is empty whenever a reply is sent.
  Between the rename and the fsync of a rewritten file (`renamed`) it promises
  nothing of the synced part; the buffer is empty then, so the fsync makes all of
  it durable (`RewriteSyncedStep`).
* `DirtyInv` also bounds what the child that is saving will leave unsaved.

### Checked by TLC only

* Liveness, which is beyond the prover: `Repaired`, `NoLeak`,
  `EventuallyForwarded`, `TablesConverge`, `DetectionSettles`, `SlavesCatchUp`,
  `SwitchesOn`.
* `PhantomsAreCascades`: sums over rows, of which the finite sum has no theorems.
* `CopiesFollow`, `NobodyWaitsOnData`, `WatchersKnow`, `KeyspaceSound`,
  `AnswersInOrder`, `RequestsServed`, `Represents`, `ScanComplete`, `Reloads`,
  `ConfigReloads`: their models compute with folds and recursive functions over
  sequences, and what those return for every input needs induction over data. It can
  be done by hand where there are one or two such functions (`PersistenceProofs`);
  these have dozens, some of them RECURSIVE operators.
* `StreamComplete`, `OffsetTellsData`: relations between the sequences of a master,
  its backlog and its slaves, cut and joined at several places; no proof so far.

## What the models show of the code, and leave out

Met while modelling. First, the cases in which the code does not do what a property
says. The models have these steps; the property excepts them by the name in
parentheses, and fails without the exception.

* Engagement. A cascade takes rows and leaves the counter (`"cascade"` in
  `mishaps`); overlapping saves lose one (`"overlap"`, and the violation above).
* Users. An empty avatar field empties the column and leaves the file (`erased`). A
  profile update with an avatar and no birthday throws after the old file is gone
  (`failed`). An email is welcomed again after it was changed away (`freed`).
* Commands. SORT STORE over a value that is no list wakes no blocked client
  (`unsaid.hushed`). MOVE adds a key without telling the watchers of it
  (`unsaid.moved`), nor do lazy expiry and eviction (the key is `Nil`). SORT BY a
  pattern with ALPHA and STORE of a set breaks no ties (`unsaid.tied`).
* Connections. After an inline request that ends in LF alone `processInlineBuffer`
  removes one byte too many (`BehindBareLF`). A client that is paused when its big
  argument is complete is then asked for 0 bytes and freed (`WasPaused`).
* Structures. An insertion into a ziplist that is cut before its tail is moved
  (`Spoilt`, of `CutsTail`); a SCAN while the table shrinks (the violation above).
* Configuration. A directive nobody knows stays in a rewritten file and stops the
  next start (`HasUnknown`); an included file may override what was rewritten
  (`HasInclude`); `repl-backlog-ttl` is rewritten with units and read without (`ttl`).
* Replication. A slave is misled about its offset (`exact`) when it joins the
  snapshot of another with commands queued, is overtaken before its snapshot is
  forked, is told none by SYNC, is left behind by a failed fork (`orphan`), or when
  its master replaces its data or sets its offset back: SLAVEOF and NO ONE restart
  or take over offsets under the same run id. WAIT then counts a slave without the
  write. A slave that used SYNC sends no acknowledgement, and a diskless master
  waits for one before it puts it online (`master.old` with `onack`).
* Persistence. A failed flush in `stopAppendOnly` spoils the next file
  (`disk.spoilt`). A power failure between the rename of a rewritten file and its
  fsync loses answered writes under appendfsync always (`mem.renamed`).
* Sentinel. Leaders whose replies and whose own vote are of different epochs
  (`OfOneEpoch`). A vote is answered though it could not be saved, and a restart
  forgets it (`forgot`); so too for instances (`unsaved`). From the promotion to the
  switch the old master is in no line of the file (`Missing`).
* Cluster. Two slaves win one epoch with forgotten and late votes, at a price
  (`TwoWinnersCost`). A copy left by a MIGRATE that timed out but was executed is
  served to multi-key ASK requests and uncovered by a DEL at the source (`inDoubt`,
  `uncovered`). `ForgottenStays` is of a settled cluster and a removal before a
  black list expires; a handshake under way and a MEET of the forgotten node do not
  consult the list.

Second, what the code does outside of the properties or of the models.

* `likes.post_id` references users, so a like of a missing post is stored. `logout`
  calls a method that does not exist, so the token stays.
* "too big bulk count string" compares the whole buffer, consumed bytes included. A
  client already in `unblocked_clients` is queued again at the end of a pause. What
  `freeClient` does for slaves, masters and monitors is in `Replication` or not
  modelled.
* INCRBYFLOAT is propagated as SET, which drops a TTL at the copies; `SET k v EX n`
  goes to the log as it is; PERSIST does not touch watched keys; MOVE drops the
  TTL. `CopiesFollow` compares values and not TTLs.
* SORT without STORE, whose ALPHA compares with strcoll, changes nothing and is not
  modelled; with STORE the code compares bytes, and so does the model.
* CONFIG SET client-output-buffer-limit accepts units and drops them. Short writes
  and lengths of lines are not modelled in `ConfigFile`.
* `prepareForShutdown` does not flush `aof_buf`; everysec leaves the last second
  unsynced when the buffer is empty; a BGSAVE child that outlives its server may
  rename an old dump.
* At its timeout `sentinelFailoverDetectEnd` sends SLAVEOF to the promoted slave too;
  `running_scripts` is not decremented on every path; `config_epoch` may go down when
  it takes the failover's epoch.
* A master that has just restarted counts one master and marks FAIL on one report;
  SETSLOT STABLE in the middle of a move, with redirected clients under way, loses
  their writes: the operator of `ClusterSlots` proceeds as redis-trib does and calls
  it when the slot is assigned.

Not modelled at all: the components marked so in the inventory.

## Plan

* `StreamComplete` of `Replication`, with the way of `PersistenceProofs`: one lemma for
  what a slave makes of one more command, and an invariant over the backlog, the
  output buffers and the snapshot under way.
