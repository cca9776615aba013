---------------------------- MODULE RedisServer -----------------------------
(* A master with its clients, a slave that replays the replication stream    *)
(* and the data set that loading the append only file would give.            *)
(*   redis.c: call, propagate, processCommand, activeExpireCycle             *)
(*   multi.c: MULTI, EXEC, DISCARD, WATCH      blocked.c: unblockClient      *)
(*   aof.c: feedAppendOnlyFile, loadAppendOnlyFile, the rewrite              *)
(*   replication.c: replicationFeedSlaves                                    *)
(* The consumers keep up with the master: the stream's delays and losses are *)
(* the subject of Replication.                                               *)
EXTENDS ZsetCommands

-----------------------------------------------------------------------------
(* The command table (redis-3.0.3/src/redis.c) and scripts (scripting.c).    *)

CONSTANT Script      \* the body of a script, by its SHA1: a sequence of calls

\* Flags of the table: commands that do not write, and those scripts may not run.
ReadOnlyCmd == {"get", "select", "srandmember"}
NoScript == {"spop", "blpop", "brpop", "brpoplpush", "multi", "exec", "watch", "eval", "evalsha",
             "script flush", "script load"}
RandomCmd == {"srandmember"}

\* The table: what the procedure of a command does.
Proc(s) ==
  LET a == s.argv
  IN  CASE a[1] = "del" -> delCommand(s, a[2])
        [] a[1] \in {"get", "srandmember"} -> ReadCommand(s, a[2])
        [] a[1] = "select" -> selectCommand(s, a[2])
        [] a[1] = "flushdb" -> flushdbCommand(s)
        [] a[1] = "flushall" -> flushallCommand(s)
        [] a[1] = "rename" -> renameGenericCommand(s, a[2], a[3], FALSE)
        [] a[1] = "renamenx" -> renameGenericCommand(s, a[2], a[3], TRUE)
        [] a[1] = "move" -> moveCommand(s, a[2], a[3])
        [] a[1] = "expire" -> expireGenericCommand(s, a[2], s.now + a[3])
        [] a[1] = "pexpireat" -> expireGenericCommand(s, a[2], a[3])
        [] a[1] = "persist" -> persistCommand(s, a[2])
        [] a[1] = "set" -> setGenericCommand(s, a[2], a[3], a[4], a[5])
        [] a[1] = "setex" -> setGenericCommand(s, a[2], a[3], "none", a[4])
        [] a[1] = "getset" -> getsetCommand(s, a[2], a[3])
        [] a[1] = "setrange" -> setrangeCommand(s, a[2], a[3], a[4])
        [] a[1] = "append" -> appendCommand(s, a[2], a[3])
        [] a[1] = "setbit" -> setbitCommand(s, a[2], a[3], a[4])
        [] a[1] = "mset" -> msetGenericCommand(s, a[2], a[3], a[4], FALSE)
        [] a[1] = "msetnx" -> msetGenericCommand(s, a[2], a[3], a[4], TRUE)
        [] a[1] = "incrby" -> incrDecrCommand(s, a[2], a[3])
        [] a[1] = "incrbyfloat" -> incrbyfloatCommand(s, a[2], a[3])
        [] a[1] = "bitop" -> bitopCommand(s, a[2], a[3], a[4], a[5])
        [] a[1] = "lpush" -> pushGenericCommand(s, a[2], a[3], "head")
        [] a[1] = "rpush" -> pushGenericCommand(s, a[2], a[3], "tail")
        [] a[1] = "linsert" -> pushxGenericCommand(s, a[2], a[3], a[4], a[5])
        [] a[1] = "lset" -> lsetCommand(s, a[2], a[3], a[4])
        [] a[1] = "lpop" -> popGenericCommand(s, a[2], "head")
        [] a[1] = "rpop" -> popGenericCommand(s, a[2], "tail")
        [] a[1] = "ltrim" -> ltrimCommand(s, a[2], a[3], a[4])
        [] a[1] = "lrem" -> lremCommand(s, a[2], a[3], a[4])
        [] a[1] = "rpoplpush" -> rpoplpushCommand(s, a[2], a[3])
        [] a[1] = "blpop" -> blockingPopGenericCommand(s, a[2], "head")
        [] a[1] = "brpop" -> blockingPopGenericCommand(s, a[2], "tail")
        [] a[1] = "brpoplpush" -> brpoplpushCommand(s, a[2], a[3])
        [] a[1] = "sadd" -> saddCommand(s, a[2], a[3])
        [] a[1] = "srem" -> sremCommand(s, a[2], a[3])
        [] a[1] = "smove" -> smoveCommand(s, a[2], a[3], a[4])
        [] a[1] = "spop" -> spopCommand(s, a[2])
        [] a[1] = "sinterstore" -> sinterGenericCommand(s, a[3], a[2])
        [] a[1] \in {"sunionstore", "sdiffstore"} ->
             sunionDiffGenericCommand(s, a[3], a[2], IF a[1] = "sunionstore" THEN "union" ELSE "diff")
        [] a[1] = "hset" -> hsetCommand(s, a[2], a[3], a[4])
        [] a[1] = "hsetnx" -> hsetnxCommand(s, a[2], a[3], a[4])
        [] a[1] = "hmset" -> hmsetCommand(s, a[2], a[3])
        [] a[1] = "hincrby" -> hincrbyCommand(s, a[2], a[3], a[4])
        [] a[1] = "hincrbyfloat" -> hincrbyfloatCommand(s, a[2], a[3], a[4])
        [] a[1] = "hdel" -> hdelCommand(s, a[2], a[3])
        [] a[1] = "zadd" -> zaddGenericCommand(s, a[2], a[3], a[4], FALSE)
        [] a[1] = "zincrby" -> zaddGenericCommand(s, a[2], a[3], a[4], TRUE)
        [] a[1] = "zrem" -> zremCommand(s, a[2], a[3])
        [] a[1] = "zremrange" -> zremrangeGenericCommand(s, a[2], a[3], a[4], a[5])
        [] a[1] = "zstore" -> zunionInterGenericCommand(s, a[2], a[3], a[4], a[5], a[6], a[7])
        [] a[1] = "sort" -> sortCommand(s, a[2], a[3], a[4], a[5], a[6], a[7], a[8])

-----------------------------------------------------------------------------
(* Scripts.  A script is a sequence of calls [argv, use]: with use, the third *)
(* argument is what the last random command returned.                        *)

ScriptArgv(call, ret) == IF call.use THEN [call.argv EXCEPT ![3] = {ret}] ELSE call.argv

\* redis.call: a write after a random command, or a command that is not for
\* scripts, ends the script; what it did before stays done.
LuaReturn(x, s) ==
  [s |-> s, stopped |-> FALSE, random |-> x.random \/ s.argv[1] \in RandomCmd,
   ret |-> IF s.argv[1] \in RandomCmd /\ Exists(s, s.argv[2]) /\ ~TypeError(s, s.argv[2], "set")
           THEN RandomMember(s, s.dict[s.argv[2]].val) ELSE x.ret]
luaRedisGenericCommand(x, call) ==
  LET argv == ScriptArgv(call, x.ret)
  IN  IF \/ x.stopped \/ argv[1] \in NoScript \/ (call.use /\ x.ret = Nil)
         \/ x.random /\ argv[1] \notin ReadOnlyCmd
      THEN [x EXCEPT !.stopped = TRUE]
      ELSE LuaReturn(x, Proc([x.s EXCEPT !.argv = argv]))

\* Runs in the database of the caller, which SELECT in the script leaves alone.
ScriptDone(s, t, sha) == [selectDb(t, s.db) EXCEPT !.argv = s.argv, !.scripts = @ \cup {sha}]
RunScript(s, sha) ==
  ScriptDone(s, FoldLeft(luaRedisGenericCommand, [s |-> s, ret |-> Nil, random |-> FALSE, stopped |-> FALSE],
                         Script[sha]).s, sha)

\* EVALSHA is propagated as EVAL until slaves and log have seen the script.
ShaRewritten(t, sha) ==
  IF sha \in t.cache THEN t
  ELSE Dirty(rewriteClientCommandVector([t EXCEPT !.cache = @ \cup {sha}], <<"eval", sha>>))
evalShaCommand(s, sha) == IF sha \in s.scripts THEN ShaRewritten(RunScript(s, sha), sha) ELSE s

evalCommand(s, sha) == RunScript(s, sha)

scriptFlush(s) == Dirty([s EXCEPT !.scripts = {}, !.cache = {}])
scriptLoad(s, sha) == Dirty([s EXCEPT !.scripts = @ \cup {sha}])

\* c->cmd->proc(c)
Execute(s) ==
  LET a == s.argv
  IN  CASE a[1] = "eval" -> evalCommand(s, a[2])
        [] a[1] = "evalsha" -> evalShaCommand(s, a[2])
        [] a[1] = "script flush" -> scriptFlush(s)
        [] a[1] = "script load" -> scriptLoad(s, a[2])
        [] OTHER -> Proc(s)

\* call(): what changed the data set is propagated, as the command now reads.
Called(t) == IF t.dirty THEN Propagated(t, t.argv) ELSE t
call(s, argv) == Called(Execute([s EXCEPT !.argv = argv, !.dirty = FALSE]))

-----------------------------------------------------------------------------
(* EXEC (multi.c) *)

\* MULTI is propagated before the first command that may write, and then EXEC
\* after the last.  The context is marked as MULTI: nothing blocks.
execCommandPropagateMulti(x, argv) ==
  IF x.open \/ argv[1] \in ReadOnlyCmd THEN x
  ELSE [s |-> Propagated(x.s, <<"multi">>), open |-> TRUE]
ExecDone(x) == [(IF x.open THEN Propagated(x.s, <<"exec">>) ELSE x.s) EXCEPT !.multi = FALSE]
ExecOne(x, argv) == [x EXCEPT !.s = call(@, argv)]
execCommand(s, queue) ==
  ExecDone(FoldLeft(LAMBDA x, argv : ExecOne(execCommandPropagateMulti(x, argv), argv),
                    [s |-> [s EXCEPT !.multi = TRUE], open |-> FALSE], queue))

-----------------------------------------------------------------------------
CONSTANTS Command,     \* the commands clients send: a set for every family
          Family,      \* groups of commands that are used together
          Sample,      \* data sets that may have been loaded, a sequence by family
          MaxTime,     \* bound of the clock
          MaxQueue,    \* bound of a MULTI queue
          MaxSize,     \* bound of the size of a value, and of scores
          Peer,        \* the clients of a family, and those that use MULTI
          Watcher,
          LoadTime,    \* when the log is loaded, later than MaxTime
          Using        \* what else a family does: "multi", "watch", "time",
                       \* "evict", "copies" (resynchronization and rewrite)

VARIABLES family,      \* the commands of this behaviour
          data, now,   \* the databases of the master and its clock
          conn,        \* the clients
          blocking, bpop,
          scripts, cache,
          unsaid,      \* history (Keyspace)
          seldb,       \* slaveseldb and aof_selected_db
          stream,      \* what is on its way to each consumer
          copies,      \* the consumers: the slave, the log, a rewrite of it or Nil
          failed       \* an assertion has failed

Consumer == {"slave", "aof", "rewrite"}
server == <<data, now, blocking, bpop, scripts, cache, unsaid, failed>>
feeds == <<seldb, stream, copies>>
vars == <<family, server, conn, feeds>>

NoClient == [db |-> 0, multi |-> FALSE, queue |-> << >>, dirtyCas |-> FALSE, dirtyExec |-> FALSE,
             seen |-> << >>]
Idle == [x \in Slot |-> << >>]
Nobody == [c \in Client |-> Nil]

\* A consumer: its databases, the selected one, its MULTI state, its scripts.
Copy(d, known) == [data |-> d, db |-> 0, multi |-> FALSE, queue |-> << >>, scripts |-> known]

-----------------------------------------------------------------------------
(* What the consumers do with a command *)

By(x) == [client |-> Nil, multi |-> x.multi, rand |-> 1, blocking |-> Idle, bpop |-> Nobody,
          scripts |-> x.scripts, cache |-> {}, unsaid |-> NothingUnsaid]
Ran(x, s) == [x EXCEPT !.data = DataOf(s), !.db = s.db, !.scripts = s.scripts]
Ended(x) == [x EXCEPT !.multi = FALSE, !.queue = << >>]

\* The slave queues inside MULTI like any server.  loadAppendOnlyFile calls the
\* procedures at once: MULTI only sets a flag, and EXEC finds an empty queue.
Consume(who, x, argv) ==
  LET s == Server(x.data, x.db, IF who = "slave" THEN now ELSE LoadTime,
                  IF who = "slave" THEN "slave" ELSE "loading", By(x), argv)
  IN  IF argv[1] = "multi" THEN [x EXCEPT !.multi = TRUE]
      ELSE IF argv[1] = "exec" THEN Ended(IF x.queue = << >> THEN x ELSE Ran(x, execCommand(s, x.queue)))
      ELSE IF x.multi /\ who = "slave" THEN [x EXCEPT !.queue = Append(@, argv)]
      ELSE Ran(x, call(s, argv))

\* catAppendOnlyExpireAtCommand: relative times become absolute.
Translated(argv) ==
  IF argv[1] = "expire" THEN <<<<"pexpireat", argv[2], now + argv[3]>>>>
  ELSE IF argv[1] = "setex"
  THEN <<<<"set", argv[2], argv[3], "none", Nil>>, <<"pexpireat", argv[2], now + argv[4]>>>>
  ELSE <<argv>>

\* A SELECT goes before a command of another database than the last.
WithSelect(out, db) ==
  FlattenSeq([i \in DOMAIN out |->
    IF out[i][1] = (IF i = 1 THEN db ELSE out[i - 1][1])
    THEN <<out[i][2]>> ELSE << <<"select", out[i][1]>>, out[i][2]>>])

replicationFeedSlaves(out) == WithSelect(out, seldb.slave)
feedAppendOnlyFile(out) ==
  FlattenSeq([i \in DOMAIN WithSelect(out, seldb.aof) |-> Translated(WithSelect(out, seldb.aof)[i])])

\* The buffer of a rewrite in progress gets what the log gets.
propagate(out) ==
  /\ stream' = [slave |-> replicationFeedSlaves(out), aof |-> feedAppendOnlyFile(out),
                rewrite |-> IF copies["rewrite"] = Nil THEN << >> ELSE feedAppendOnlyFile(out)]
  /\ seldb' = IF out = << >> THEN seldb ELSE [slave |-> Last(out)[1], aof |-> Last(out)[1]]
  /\ UNCHANGED copies

\* Nothing is on its way.  A command starts when the consumers are done with the
\* one before it.
Quiet == \A x \in Consumer : stream[x] = << >>

Deliver ==
  /\ ~Quiet
  /\ copies' = [x \in Consumer |-> IF copies[x] = Nil THEN Nil
                 ELSE FoldLeft(LAMBDA y, argv : Consume(x, y, argv), copies[x], stream[x])]
  /\ stream' = [x \in Consumer |-> << >>]
  /\ UNCHANGED <<family, server, conn, seldb>>

-----------------------------------------------------------------------------
(* Clients *)

touchWatchedKey(conns, touched) ==
  [c \in Client |-> [conns[c] EXCEPT !.dirtyCas = @ \/ DOMAIN conns[c].seen \cap touched # {}]]

\* The bound of what a key holds.
Small(o) ==
  CASE o = Nil -> TRUE
    [] o # Nil /\ o.type = "set" -> Cardinality(o.val) <= MaxSize
    [] o # Nil /\ o.type = "zset" -> \A m \in DOMAIN o.val : o.val[m] <= MaxSize
    [] OTHER -> Cardinality(DOMAIN o.val) <= MaxSize

\* The end of every command: serve the clients it made ready, feed the slave
\* and the log, and keep what it changed.
Finish(s0, conns) ==
  /\ Quiet
  /\ \E s \in {handleClientsBlockedOnLists(s0)} :
       /\ \A d \in DbId, k \in Key : Small(DataOf(s)[d].dict[k])
       /\ data' = DataOf(s)
       /\ blocking' = s.blocking /\ bpop' = s.bpop
       /\ scripts' = s.scripts /\ cache' = s.cache /\ unsaid' = s.unsaid
       /\ conn' = touchWatchedKey(conns, s.touched)
       /\ failed' = (failed \/ s.failed)
       /\ propagate(s.out)
  /\ UNCHANGED <<family, now>>

Context(c, rand) == [client |-> c, multi |-> FALSE, rand |-> rand, blocking |-> blocking, bpop |-> bpop,
                     scripts |-> scripts, cache |-> cache, unsaid |-> unsaid]
Begin(c, rand) == Server(data, conn[c].db, now, "master", Context(c, rand), << >>)

discardTransaction(conns, c) ==
  [conns EXCEPT ![c] = [@ EXCEPT !.multi = FALSE, !.queue = << >>, !.dirtyCas = FALSE,
                                 !.dirtyExec = FALSE, !.seen = << >>]]

Ready(c) == Quiet /\ bpop[c] = Nil

\* freeMemoryIfNeeded evicts keys before the command runs.
freeMemoryIfNeeded(s, victim) ==
  IF victim = Nil THEN s
  ELSE IF Exists(s, victim) THEN dbDelete(propagateExpire(s, victim), victim) ELSE s
Victims == {Nil} \cup (IF "evict" \in Using[family] THEN Key ELSE {})

\* processCommand outside of MULTI.
Run(c, argv, rand, victim) ==
  /\ Ready(c) /\ ~conn[c].multi
  /\ \E s \in {call(freeMemoryIfNeeded(Begin(c, rand), victim), argv)} :
       Finish(s, [conn EXCEPT ![c].db = s.db])

\* Inside MULTI commands are queued.
queueMultiCommand(c, argv) ==
  /\ Ready(c) /\ conn[c].multi /\ Len(conn[c].queue) < MaxQueue
  /\ conn' = [conn EXCEPT ![c].queue = Append(@, argv)]
  /\ UNCHANGED <<family, server, feeds>>

\* A command refused while queueing: unknown, out of memory, not enough slaves.
flagTransaction(c) ==
  /\ Ready(c) /\ conn[c].multi
  /\ conn' = [conn EXCEPT ![c].dirtyExec = TRUE]
  /\ UNCHANGED <<family, server, feeds>>

multiCommand(c) ==
  /\ Ready(c) /\ ~conn[c].multi
  /\ conn' = [conn EXCEPT ![c].multi = TRUE]
  /\ UNCHANGED <<family, server, feeds>>

Exec(c, rand) ==
  /\ Ready(c) /\ conn[c].multi
  /\ \E s \in {IF conn[c].dirtyCas \/ conn[c].dirtyExec THEN Begin(c, rand)
               ELSE execCommand(Begin(c, rand), conn[c].queue)} :
       Finish(s, discardTransaction([conn EXCEPT ![c].db = s.db], c))

discardCommand(c) ==
  /\ Ready(c) /\ conn[c].multi
  /\ Finish(Begin(c, 0), discardTransaction(conn, c))

\* seen remembers what the client could have read when it watched a key.
watchCommand(c, k) ==
  /\ Ready(c) /\ ~conn[c].multi
  /\ LET x == <<conn[c].db, k>>
         v == data[conn[c].db].dict[k]
     IN  /\ x \notin DOMAIN conn[c].seen
         /\ conn' = [conn EXCEPT ![c].seen = [y \in DOMAIN @ \cup {x} |-> IF y = x THEN v ELSE @[y]]]
  /\ UNCHANGED <<family, server, feeds>>

unwatchCommand(c) ==
  /\ Ready(c) /\ ~conn[c].multi /\ conn[c].seen # << >>
  /\ conn' = [conn EXCEPT ![c].seen = << >>, ![c].dirtyCas = FALSE]
  /\ UNCHANGED <<family, server, feeds>>

\* A blocked client times out (clientsCronHandleTimeout), or a client goes away
\* (freeClient): it waits for nothing, watches nothing and loses its queue.
Unblock(c) ==
  /\ bpop[c] # Nil
  /\ Finish(unblockClientWaitingData(Begin(c, 0), c), conn)

freeClient(c) ==
  /\ conn[c] # NoClient \/ bpop[c] # Nil
  /\ Finish(IF bpop[c] = Nil THEN Begin(c, 0) ELSE unblockClientWaitingData(Begin(c, 0), c),
            [conn EXCEPT ![c] = NoClient])

-----------------------------------------------------------------------------
(* The server's own work *)

Tick ==
  /\ Quiet /\ now < MaxTime /\ now' = now + 1
  /\ UNCHANGED <<family, data, conn, blocking, bpop, scripts, cache, unsaid, failed, feeds>>

\* activeExpireCycleTryExpire
activeExpireCycle(d, k) ==
  /\ data[d].expires[k] # Nil /\ now > data[d].expires[k]
  /\ LET s == Server(data, d, now, "master", Context(Nil, 0), << >>)
     IN  Finish(dbDelete(propagateExpire(s, k), k), conn)

\* A slave takes a full resynchronization: it loads a snapshot, the stream starts
\* with a SELECT, and the script cache is flushed.
Resync ==
  /\ Quiet
  /\ copies' = [copies EXCEPT !["slave"] = Copy(data, {})]
  /\ seldb' = [seldb EXCEPT !.slave = -1] /\ cache' = {}
  /\ UNCHANGED <<family, data, now, conn, blocking, bpop, scripts, unsaid, stream, failed>>

\* The child writes the data set of the moment of the fork.
rewriteAppendOnlyFileBackground ==
  /\ Quiet /\ copies["rewrite"] = Nil
  /\ copies' = [copies EXCEPT !["rewrite"] = Copy(data, {})]
  /\ seldb' = [seldb EXCEPT !.aof = -1] /\ cache' = {}
  /\ UNCHANGED <<family, data, now, conn, blocking, bpop, scripts, unsaid, stream, failed>>

backgroundRewriteDoneHandler ==
  /\ Quiet /\ copies["rewrite"] # Nil
  /\ copies' = [copies EXCEPT !["aof"] = copies["rewrite"], !["rewrite"] = Nil]
  /\ seldb' = [seldb EXCEPT !.aof = -1]
  /\ UNCHANGED <<family, server, conn, stream>>

-----------------------------------------------------------------------------
Init ==
  /\ family \in Family
  /\ \E i \in DOMAIN Sample[family] :
       data = [d \in DbId |-> IF d = 0 THEN [dict |-> Sample[family][i], expires |-> NoKeys] ELSE EmptyDb]
  /\ now = 0
  /\ conn = [c \in Client |-> NoClient]
  /\ blocking = Idle /\ bpop = Nobody
  /\ scripts = {} /\ cache = {} /\ unsaid = NothingUnsaid
  /\ seldb = [slave |-> -1, aof |-> -1]
  /\ stream = [x \in Consumer |-> << >>]
  /\ copies = [x \in Consumer |-> IF x = "rewrite" THEN Nil ELSE Copy(data, {})]
  /\ failed = FALSE

Next ==
  \/ Deliver
  \/ \E c \in Peer[family], argv \in Command[family], rand \in 0..1, victim \in Victims : Run(c, argv, rand, victim)
  \/ \E c \in Client : Unblock(c) \/ freeClient(c)
  \/ /\ "multi" \in Using[family]
     /\ \E c \in Watcher :
          \/ \E argv \in Command[family] : queueMultiCommand(c, argv)
          \/ flagTransaction(c) \/ multiCommand(c) \/ Exec(c, 0) \/ discardCommand(c)
  \/ /\ "watch" \in Using[family]
     /\ \E c \in Watcher : unwatchCommand(c) \/ \E k \in Key : watchCommand(c, k)
  \/ "time" \in Using[family] /\ (Tick \/ \E d \in DbId, k \in Key : activeExpireCycle(d, k))
  \/ "copies" \in Using[family] /\ (Resync \/ rewriteAppendOnlyFileBackground \/ backgroundRewriteDoneHandler)

Spec == Init /\ [][Next]_vars

-----------------------------------------------------------------------------
(* Correctness *)

SameValue(a, b) == IF a = Nil \/ b = Nil THEN a = b ELSE a.type = b.type /\ a.val = b.val
SameKeys(a, b) == \A d \in DbId, k \in Key : SameValue(a[d].dict[k], b[d].dict[k])

\* What call() and the commands hand to propagate() is enough: whatever random
\* choice, expiry, eviction, rewriting, script or blocked client was involved,
\* the slave, the append only file and a rewrite of it hold the master's values.
\* One command is excepted: SORT BY a pattern with ALPHA and STORE of a set or a
\* sorted set leaves elements with equal or missing weights in the order of the
\* server's own hash table (sortCompare), and the copies may differ from then on.
CopiesFollow ==
  Quiet /\ ~unsaid.tied => \A x \in Consumer : copies[x] # Nil => SameKeys(data, copies[x].data) /\ ~copies[x].multi

\* Nobody sleeps next to data: when a command is over, no client is blocked in
\* BLPOP, BRPOP or BRPOPLPUSH on a key that holds a list, and the two tables of
\* blocked clients agree.  One command is excepted: SORT STORE in the place of a
\* value that is no list goes through dbOverwrite, which wakes nobody.
NobodyWaitsOnData ==
  \A x \in Slot :
    /\ \A c \in Client : (\E i \in DOMAIN blocking[x] : blocking[x][i] = c)
                         <=> (bpop[c] # Nil /\ x \in bpop[c].keys)
    /\ blocking[x] # << >> /\ x \notin unsaid.hushed =>
         data[x[1]].dict[x[2]] = Nil \/ data[x[1]].dict[x[2]].type # "list"

\* Optimistic locking: when a value a client watched has changed, EXEC will
\* refuse.  Two things go unsaid: a key that is gone may have expired, been
\* evicted or moved away, and MOVE adds a key to the other database without
\* signalModifiedKey; the next command that changes the key there does signal it.
WatchersKnow ==
  \A c \in Client : \A x \in DOMAIN conn[c].seen :
    LET o == data[x[1]].dict[x[2]]
    IN  o # Nil /\ x \notin unsaid.moved /\ ~SameValue(o, conn[c].seen[x]) => conn[c].dirtyCas

\* No command leaves an empty list, set, hash or sorted set behind, or trips an
\* assertion of the key space.
KeyspaceSound ==
  /\ ~failed
  /\ \A d \in DbId, k \in Key : data[d].dict[k] # Nil => ~IsEmpty(data[d].dict[k])
=============================================================================
