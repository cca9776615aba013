----------------------------- MODULE Replication -----------------------------
(* Replication (redis-3.0.3/src/replication.c, with the parts of networking.c *)
(* and rdb.c that it calls): servers that follow one another, full            *)
(* synchronizations by a snapshot and the commands since, and partial ones    *)
(* from the backlog of the master.                                            *)
(*                                                                            *)
(* The replication stream is counted in commands where the code counts bytes. *)
(* A data set is the sequence of writes that made it, so a write that is      *)
(* lost, repeated, misplaced or made in another database can be seen.  The    *)
(* two ends of a connection lose it together, with everything under way.      *)
(* Time is left to the environment: whatever has a timeout may lose its       *)
(* connection.                                                                *)
EXTENDS Integers, Sequences, FiniteSets, SequencesExt, TLC

CONSTANTS Servers, Dbs, None,
          Scenarios   \* bounds: [hosts, diskless, size, writes, faults, slaveof]

VARIABLES
  srv,     \* [Servers -> what the server has in memory]
  limit,   \* what is left of the scenario
  past,    \* history: [Servers -> [offset of its stream -> data set at that offset]]
  exact    \* history: [Servers -> nothing of what misleads a slave about its offset has happened:
           \* see FullResync, Overtaken, SyncAnswered, readSyncBulkPayload and Misled]

vars == <<srv, limit, past, exact>>

-----------------------------------------------------------------------------
(* The backlog: a circular buffer b with the last b.len units of the stream *)

EmptyBacklog(size, off) ==
  [size |-> size, idx |-> 0, len |-> 0, off |-> off + 1, buf |-> [i \in 0..(size - 1) |-> None]]

\* off is master_repl_offset with this unit counted
feedReplicationBacklog(b, u, off) ==
  LET len == IF b.len < b.size THEN b.len + 1 ELSE b.size
  IN  [b EXCEPT !.buf[b.idx] = u, !.idx = IF b.idx + 1 = b.size THEN 0 ELSE b.idx + 1,
                !.len = len, !.off = off - len + 1]

addReplyReplicationBacklog(b, offset) ==
  IF b.len = 0 THEN << >>
  ELSE LET skip == offset - b.off
           first == (b.idx + (b.size - b.len)) % b.size
       IN  [i \in 1..(b.len - skip) |-> b.buf[(first + skip + i - 1) % b.size]]

Has(b, offset) == b # None /\ offset >= b.off /\ offset <= b.off + b.len

-----------------------------------------------------------------------------
(* Servers *)

\* A client of the master that is a slave.  rdb is what it is being sent.
Slave(state, buf, rdb) ==
  [state |-> state, buf |-> buf, rdb |-> rdb, ack |-> 0, onack |-> FALSE, orphan |-> FALSE]

Started(runid, host, size) ==
  [runid |-> runid, data |-> << >>, host |-> host, rstate |-> IF host = None THEN "none" ELSE "connect",
   master |-> None, cached |-> None, init |-> None, lastid |-> None, offset |-> 0, size |-> size, back |-> None,
   seldb |-> None, slaves |-> << >>, child |-> None]

Init ==
  \E c \in Scenarios :
    /\ srv = [s \in Servers |-> Started(<<s, 0>>, c.hosts[s], c.size)]
    /\ limit = [c EXCEPT !.hosts = None]
    /\ past = [s \in Servers |-> 0 :> << >>]
    /\ exact = [s \in Servers |-> TRUE]

Spend(what) == limit[what] > 0 /\ limit' = [limit EXCEPT ![what] = @ - 1]

Update(f, k, v) == [x \in DOMAIN f \cup {k} |-> IF x = k THEN v ELSE f[x]]
Without(f, ks) == [x \in DOMAIN f \ ks |-> f[x]]
In(m, state) == {s \in DOMAIN m.slaves : m.slaves[s].state = state}

\* createReplicationBacklog
\* Mutant: the offset is not moved on.
WithBacklogUnmoved(m) == [m EXCEPT !.back = EmptyBacklog(m.size, m.offset)]
WithBacklog(m) == [m EXCEPT !.offset = @ + 1, !.back = EmptyBacklog(m.size, m.offset + 1)]

\* One unit of the stream to the backlog and to the slaves in to.
Feed(m, u, to) ==
  [m EXCEPT !.offset = @ + 1,
            !.back = feedReplicationBacklog(@, u, m.offset + 1),
            !.slaves = [s \in DOMAIN @ |-> IF s \in to THEN [@[s] EXCEPT !.buf = Append(@, u)] ELSE @[s]]]
\* A slave that waits for BGSAVE to start gets the SELECT and not the command.
replicationFeedSlaves(m, db, u) ==
  IF m.back = None THEN m
  ELSE Feed(IF m.seldb = db THEN m ELSE [Feed(m, [sel |-> db], DOMAIN m.slaves) EXCEPT !.seldb = db],
            u, DOMAIN m.slaves \ In(m, "start"))

\* The slaves whose snapshot is still to be forked when the stream moves on: they
\* were told an offset that is behind it.
Overtaken(x) == In(srv[x], "start")

\* The data set and database of a follower after the units of q
Replay(data, db, q) ==
  LET selects(n) == {i \in 1..n : "sel" \in DOMAIN q[i]}
      dbAt(n) == IF selects(n) = {} THEN db
                 ELSE q[CHOOSE i \in selects(n) : \A j \in selects(n) : j <= i].sel
      writes == SelectSeq([i \in 1..Len(q) |-> i], LAMBDA i : "set" \in DOMAIN q[i])
  IN  data \o [k \in 1..Len(writes) |-> <<dbAt(writes[k]), q[writes[k]].set>>]

-----------------------------------------------------------------------------
(* The master: snapshots *)

Waiting(m, to, orphan, rdb) ==
  [m EXCEPT !.slaves = [s \in DOMAIN @ |-> IF s \in to THEN [@[s] EXCEPT !.state = "end", !.orphan = orphan, !.rdb = rdb]
                                           ELSE @[s]]]
\* rdbSaveBackground, for whoever waits for it to end
rdbSaveBackground(m) == [m EXCEPT !.child = [type |-> "disk", snap |-> m.data, fds |-> {}]]
\* The slaves that wait for it to start are moved on before the fork, which may fail.
rdbSaveToSlavesSockets(m, ok) ==
  IF ok THEN [Waiting(m, In(m, "start"), FALSE, m.data) EXCEPT
                !.child = [type |-> "socket", snap |-> m.data, fds |-> In(m, "start")]]
  ELSE Waiting(m, In(m, "start"), TRUE, None)
startBgsaveForReplication(m, ok) ==
  IF limit.diskless THEN rdbSaveToSlavesSockets(m, ok) ELSE IF ok THEN rdbSaveBackground(m) ELSE m

\* updateSlavesWaitingBgsave, after the slaves that waited for the end were
\* served: the others are set to wait for the end of the next one, which is then
\* started; when that fails, the loop that frees them finds none of them.
Rest(m, ok) ==
  LET to == In(m, "start")
  IN  IF to = {} THEN m ELSE startBgsaveForReplication(Waiting(m, to, ~ok, None), ok)

\* backgroundSaveDoneHandlerDisk: sent the file, or dropped
DoneDisk(m, exitok) ==
  IF exitok
  THEN [m EXCEPT !.child = None,
                 !.slaves = [s \in DOMAIN @ |-> IF @[s].state = "end"
                               THEN [@[s] EXCEPT !.state = "bulk", !.rdb = m.child.snap] ELSE @[s]]]
  ELSE [m EXCEPT !.child = None, !.slaves = Without(@, In(m, "end"))]
\* backgroundSaveDoneHandlerSocket: online when it reports that it got everything
DoneSocket(m, good) ==
  [m EXCEPT !.child = None,
            !.slaves = [s \in DOMAIN @ \ (In(m, "end") \ good) |->
                          IF s \in good THEN [@[s] EXCEPT !.state = "online", !.onack = TRUE] ELSE @[s]]]

\* A fork or a child that fails is a fault.
Costs(ok) == IF ok THEN UNCHANGED limit ELSE Spend("faults")
BgsaveDone(x) ==
  /\ srv[x].child # None
  /\ \E sent \in {srv[x].child.fds \cap In(srv[x], "end")}, exitok, forkok \in BOOLEAN :
     \E good \in SUBSET sent :
       /\ ~exitok => good = {} /\ forkok
       /\ ~forkok => In(srv[x], "start") # {} /\ good = sent
       /\ Costs(exitok /\ forkok /\ good = sent)
       /\ srv' = [srv EXCEPT ![x] =
            Rest(IF srv[x].child.type = "disk" THEN DoneDisk(srv[x], exitok) ELSE DoneSocket(srv[x], good), forkok)]
  /\ UNCHANGED exact

\* replicationCron, for the slaves that have waited long enough
StartWaiting(x) ==
  /\ srv[x].child = None /\ In(srv[x], "start") # {}
  /\ \E ok \in BOOLEAN :
       /\ Costs(ok)
       /\ \E m \in {startBgsaveForReplication(srv[x], ok)} :
            srv' = [srv EXCEPT ![x] = IF ok THEN Waiting(m, In(m, "start"), FALSE, None) ELSE m]
  /\ UNCHANGED exact

\* bgsaveCommand, or a save point
Bgsave(x) ==
  /\ srv[x].child = None /\ Spend("faults")
  /\ srv' = [srv EXCEPT ![x] = rdbSaveBackground(@)]
  /\ UNCHANGED exact

\* sendBulkToSlave, to the end of the file
sendBulkToSlave(x, s) ==
  /\ srv[x].slaves[s].state = "bulk"
  /\ srv' = [srv EXCEPT ![x].slaves[s].state = "online"]
  /\ UNCHANGED <<limit, exact>>

-----------------------------------------------------------------------------
(* The slave: connection *)

connectWithMaster(s) ==
  /\ srv[s].rstate = "connect"
  /\ srv' = [srv EXCEPT ![s].rstate = "connecting"]
  /\ UNCHANGED <<limit, exact>>
\* A timeout, or an error before PSYNC is sent
undoConnectWithMaster(s) ==
  /\ srv[s].rstate = "connecting" /\ Spend("faults")
  /\ srv' = [srv EXCEPT ![s].rstate = "connect"]
  /\ UNCHANGED exact

\* The handshake ends without a synchronization.
Failed(s) == [srv[s] EXCEPT !.cached = None, !.init = None, !.rstate = "connect"]

Refuses(m) == m.host # None /\ m.rstate # "connected"
Continues(m, s) == srv[s].cached # None /\ srv[s].cached.runid = m.runid /\ Has(m.back, srv[s].cached.off + 1)

\* masterTryPartialResynchronization and replicationResurrectCachedMaster
Continue(x, s) ==
  /\ srv' = [srv EXCEPT
       ![x].slaves = Update(@, s, Slave("online", addReplyReplicationBacklog(srv[x].back, srv[s].cached.off + 1), None)),
       ![s].master = [srv[s].cached EXCEPT !.resumed = TRUE], ![s].cached = None, ![s].rstate = "connected"]
  /\ UNCHANGED limit

\* What +FULLRESYNC announces
Announced(m) == [runid |-> m.runid, off |-> IF m.back = None THEN m.offset + 1 ELSE m.offset]
\* Mutant: the buffer of the slave that waits for the same snapshot is not copied.
JoinEmpty(m, s, donor) == Update(m.slaves, s, Slave("end", << >>, None))
\* The donor is the first in the list of slaves, which is any of them here.
Join(m, s, donor) ==
  Update(m.slaves, s, [Slave("end", m.slaves[donor].buf, None) EXCEPT !.orphan = m.slaves[donor].orphan])
Attached(m) == IF m.back = None THEN WithBacklog([m EXCEPT !.seldb = None]) ELSE [m EXCEPT !.seldb = None]
\* syncCommand: the outcomes, {} when the fork fails
syncCommand(m, s, ok) ==
  IF m.child # None /\ m.child.type = "disk" /\ In(m, "end") # {}
    THEN {Attached([m EXCEPT !.slaves = Join(m, s, donor)]) : donor \in In(m, "end")}
  ELSE IF m.child # None \/ limit.diskless
    THEN {Attached([m EXCEPT !.slaves = Update(@, s, Slave("start", << >>, None))])}
  ELSE IF ok
    THEN {Attached([rdbSaveBackground(m) EXCEPT !.slaves = Update(@, s, Slave("end", << >>, None))])}
  ELSE {}
\* A slave that got a copy of what was queued for another one since the fork is told
\* an offset behind it, and will count it again.
FullResync(x, s) ==
  \E ok \in BOOLEAN :
    /\ ok \/ (srv[x].child = None /\ ~limit.diskless)
    /\ Costs(ok)
    /\ IF ok
       THEN \E m \in syncCommand(srv[x], s, ok) :
              /\ srv' = [srv EXCEPT ![x] = m,
                   ![s] = [@ EXCEPT !.cached = None, !.init = Announced(srv[x]), !.lastid = srv[x].runid,
                                    !.rstate = "transfer"]]
              /\ exact' = [exact EXCEPT ![s] = m.slaves[s].buf = << >>]
       ELSE srv' = [srv EXCEPT ![s] = Failed(s)] /\ UNCHANGED exact

\* From the handshake to the answer to PSYNC, for which the slave blocks.  After an
\* error it sends SYNC, and keeps the run id of its last full synchronization.
syncWithMaster(s) ==
  /\ srv[s].rstate = "connecting"
  /\ IF Refuses(srv[srv[s].host])
     THEN /\ srv' = [srv EXCEPT ![s] = [@ EXCEPT !.cached = None, !.rstate = "sync",
                                          !.init = [runid |-> srv[s].lastid, off |-> -1]]]
          /\ UNCHANGED <<limit, exact>>
     ELSE IF Continues(srv[srv[s].host], s) THEN Continue(srv[s].host, s) /\ UNCHANGED exact
     ELSE FullResync(srv[s].host, s)
\* SYNC: refused as well, or served without telling an offset
SyncAnswered(s) ==
  /\ srv[s].rstate = "sync"
  /\ \E ok \in BOOLEAN :
       /\ ok \/ (srv[srv[s].host].child = None /\ ~limit.diskless /\ ~Refuses(srv[srv[s].host]))
       /\ Costs(ok)
       /\ IF ok /\ ~Refuses(srv[srv[s].host])
          THEN /\ \E m \in syncCommand(srv[srv[s].host], s, ok) :
                    srv' = [srv EXCEPT ![srv[s].host] = m, ![s].rstate = "transfer"]
               /\ exact' = [exact EXCEPT ![s] = FALSE]
          ELSE srv' = [srv EXCEPT ![s] = Failed(s)] /\ UNCHANGED exact
\* The answer is lost with the connection.
HandshakeLost(s) ==
  /\ srv[s].rstate \in {"connecting", "sync"} /\ Spend("faults")
  /\ srv' = [srv EXCEPT ![s] = Failed(s)]
  /\ UNCHANGED exact

-----------------------------------------------------------------------------
(* The slave: data *)

Up(s) == srv[s].rstate \in {"transfer", "connected"} /\ s \in DOMAIN srv[srv[s].host].slaves
Link(s) == srv[srv[s].host].slaves[s]

\* A server that replaces its data set keeps its run id, its offset and its backlog.
Follows(t, s) ==
  \/ srv[t].master # None /\ srv[t].master.runid = srv[s].runid
  \/ srv[t].cached # None /\ srv[t].cached.runid = srv[s].runid
Misled(s) == {t \in Servers : Follows(t, s)}

\* readSyncBulkPayload, with the end of the payload.  A slave that a failed fork left
\* behind gets a snapshot that was not made for it.
readSyncBulkPayload(s) ==
  /\ srv[s].rstate = "transfer" /\ Up(s) /\ Link(s).rdb # None /\ Link(s).state # "bulk"
  /\ srv' = [srv EXCEPT ![srv[s].host].slaves[s].rdb = None,
       ![s] = [@ EXCEPT !.data = Link(s).rdb, !.rstate = "connected", !.init = None,
                        !.master = [runid |-> srv[s].init.runid, off |-> srv[s].init.off, db |-> 0, resumed |-> FALSE,
                                    old |-> srv[s].init.off = -1]]]
  /\ exact' = [t \in Servers |-> IF t = s THEN exact[s] /\ ~Link(s).orphan ELSE exact[t] /\ t \notin Misled(s)]
  /\ UNCHANGED limit
\* The file cannot be loaded, and the old data set is gone.
LoadFails(s) ==
  /\ srv[s].rstate = "transfer" /\ Up(s) /\ Link(s).rdb # None /\ Link(s).state # "bulk"
  /\ Spend("faults")
  /\ srv' = [srv EXCEPT ![srv[s].host].slaves = Without(@, {s}),
       ![s] = [@ EXCEPT !.data = << >>, !.rstate = "connect", !.init = None]]
  /\ exact' = [t \in Servers |-> exact[t] /\ t \notin Misled(s)]

\* readQueryFromClient for one command of the master: counted, run, passed on
Apply(m, u) ==
  IF "sel" \in DOMAIN u THEN [m EXCEPT !.master.off = @ + 1, !.master.db = u.sel]
  ELSE IF "set" \in DOMAIN u
    THEN replicationFeedSlaves([m EXCEPT !.master.off = @ + 1, !.data = Append(@, <<m.master.db, u.set>>)], m.master.db, u)
  ELSE [m EXCEPT !.master.off = @ + 1]
ReadStream(s) ==
  /\ srv[s].rstate = "connected" /\ Up(s) /\ Link(s).state = "online" /\ ~Link(s).onack /\ Link(s).buf # << >>
  /\ srv' = [srv EXCEPT ![srv[s].host].slaves[s].buf = Tail(@), ![s] = Apply(@, Head(Link(s).buf))]
  /\ exact' = [t \in Servers |-> exact[t] /\ t \notin Overtaken(s)]
  /\ UNCHANGED limit

\* Mutant: the acknowledgement does not put the slave online.
AckOnly(s) ==
  /\ srv[s].rstate = "connected" /\ Up(s) /\ ~srv[s].master.old /\ srv[s].master.off > Link(s).ack
  /\ srv' = [srv EXCEPT ![srv[s].host].slaves[s].ack = srv[s].master.off]
  /\ UNCHANGED <<limit, exact>>
\* replicationSendAck, replconfCommand and putSlaveOnline.  A master that answered
\* SYNC is taken for an old one, which knows no acknowledgements.
SendAck(s) ==
  /\ srv[s].rstate = "connected" /\ Up(s) /\ ~srv[s].master.old
  /\ srv[s].master.off > Link(s).ack \/ (Link(s).onack /\ Link(s).state = "online")
  /\ srv' = [srv EXCEPT ![srv[s].host].slaves[s] =
       [@ EXCEPT !.ack = IF srv[s].master.off > @ THEN srv[s].master.off ELSE @,
                 !.onack = @ /\ Link(s).state # "online"]]
  /\ UNCHANGED <<limit, exact>>

-----------------------------------------------------------------------------
(* Connections that end *)

\* freeClient on the master: an error, a timeout, an output buffer over its limit
DropSlave(x, s) ==
  /\ Spend("faults")
  /\ srv' = [srv EXCEPT ![x].slaves = Without(@, {s})]
  /\ UNCHANGED exact

\* replicationCacheMaster and replicationHandleMasterDisconnection, or replicationAbortSyncTransfer
Losing(m) ==
  IF m.rstate = "connected"
  THEN [m EXCEPT !.cached = m.master, !.master = None, !.rstate = "connect", !.slaves = << >>]
  ELSE [m EXCEPT !.rstate = "connect", !.init = None]
MasterLost(s) ==
  /\ srv[s].rstate \in {"transfer", "connected"} /\ ~Up(s)
  /\ srv' = [srv EXCEPT ![s] = Losing(@)]
  /\ UNCHANGED <<limit, exact>>

\* The connection to the master, closed by the slave
Hangup(s) ==
  IF srv[s].host = None THEN srv ELSE [srv EXCEPT ![srv[s].host].slaves = Without(@, {s})]

\* Administrators do not make a server follow itself, at one or two steps.
Above(x) == IF srv[x].host = None THEN {x} ELSE {x, srv[x].host, srv[srv[x].host].host}
replicationSetMaster(s, x) ==
  /\ Spend("slaveof") /\ srv[s].host # x /\ s \notin Above(x)
  /\ srv' = [Hangup(s) EXCEPT ![s] = [@ EXCEPT !.host = x, !.master = None, !.cached = None, !.init = None,
               !.slaves = << >>, !.back = None, !.rstate = "connect", !.offset = 0]]
  /\ exact' = [t \in Servers |-> exact[t] /\ t \notin Misled(s)]
Independent(m) ==
  IF m.master # None /\ m.slaves = << >> THEN [m EXCEPT !.offset = m.master.off, !.back = None] ELSE m
\* The stream may go on at an offset that it had before.
SetBack(s) == Independent(srv[s]).offset < srv[s].offset
replicationUnsetMaster(s) ==
  /\ Spend("slaveof") /\ srv[s].host # None
  /\ srv' = [Hangup(s) EXCEPT ![s] = [Independent(@) EXCEPT !.host = None, !.master = None, !.cached = None,
               !.init = None, !.rstate = "none"]]
  /\ exact' = [t \in Servers |-> exact[t] /\ ~(SetBack(s) /\ t \in Misled(s))]

\* A restart, with the data set that was saved; a data set may also be gone.
Restart(s) ==
  /\ Spend("faults")
  /\ \E data \in {srv[s].data, << >>} :
       srv' = [Hangup(s) EXCEPT ![s] = [Started(<<s, limit.faults>>, srv[s].host, srv[s].size) EXCEPT !.data = data]]
  /\ UNCHANGED exact

-----------------------------------------------------------------------------
(* The master: commands and its backlog *)

Write(x, db) ==
  /\ srv[x].host = None /\ Spend("writes")
  /\ srv' = [srv EXCEPT ![x] =
       replicationFeedSlaves([@ EXCEPT !.data = Append(@, <<db, limit.writes>>)], db, [set |-> limit.writes])]
  /\ exact' = [t \in Servers |-> exact[t] /\ t \notin Overtaken(x)]
\* replicationCron
Ping(x) ==
  /\ srv[x].back # None /\ Spend("writes")
  /\ srv' = [srv EXCEPT ![x] = replicationFeedSlaves(@, srv[x].seldb, [ping |-> TRUE])]
  /\ exact' = [t \in Servers |-> exact[t] /\ t \notin Overtaken(x)]
\* CONFIG SET repl-backlog-size, between the sizes 1 and 2
resizeReplicationBacklog(x) ==
  /\ Spend("faults")
  /\ srv' = [srv EXCEPT ![x] = [@ EXCEPT !.size = 3 - @,
               !.back = IF @ = None THEN None ELSE EmptyBacklog(3 - srv[x].size, srv[x].offset)]]
  /\ UNCHANGED exact
freeReplicationBacklog(x) ==
  /\ srv[x].slaves = << >> /\ srv[x].back # None /\ Spend("faults")
  /\ srv' = [srv EXCEPT ![x].back = None]
  /\ UNCHANGED exact

-----------------------------------------------------------------------------
\* The data sets by offset: those that the stream passed on its way, and the
\* present one.  A new run id or an offset set back starts again.
Again(s) == srv'[s].runid # srv[s].runid \/ srv'[s].offset < srv[s].offset
Past(s) ==
  IF Again(s) THEN srv'[s].offset :> srv'[s].data
  ELSE [o \in DOMAIN past[s] \cup (srv[s].offset..srv'[s].offset) |->
          IF o = srv'[s].offset THEN srv'[s].data
          ELSE IF o \in DOMAIN past[s] THEN past[s][o] ELSE srv[s].data]

\* What the event loop of a server has to do
Work(s) ==
  \/ BgsaveDone(s) \/ StartWaiting(s) \/ connectWithMaster(s) \/ syncWithMaster(s) \/ SyncAnswered(s)
  \/ readSyncBulkPayload(s) \/ ReadStream(s) \/ SendAck(s) \/ MasterLost(s)
  \/ \E t \in DOMAIN srv[s].slaves : sendBulkToSlave(s, t)
Faults(s) ==
  \/ Bgsave(s) \/ undoConnectWithMaster(s) \/ HandshakeLost(s) \/ LoadFails(s) \/ Restart(s)
  \/ resizeReplicationBacklog(s) \/ freeReplicationBacklog(s)
  \/ \E t \in DOMAIN srv[s].slaves : DropSlave(s, t)
Users(s) ==
  \/ \E db \in Dbs : Write(s, db)
  \/ Ping(s) \/ replicationUnsetMaster(s)
  \/ \E x \in Servers : replicationSetMaster(s, x)
Remember == past' = [s \in Servers |-> Past(s)]
Next == \E s \in Servers : (Work(s) \/ Faults(s) \/ Users(s)) /\ Remember

Fairness == \A s \in Servers : WF_vars(Work(s) /\ Remember)
Spec == Init /\ [][Next]_vars /\ Fairness

-----------------------------------------------------------------------------
(* Properties *)

Known(s, x) == {r \in {srv[s].master, srv[s].cached} : r # None /\ r.runid = srv[x].runid}

\* What a slave has, or is being sent, and what is queued for it make the data set
\* of its master: nothing is missing, repeated, or in another database, whichever
\* snapshot it waited for, whichever buffer it got a copy of and whatever it
\* resumed (replicationFeedSlaves, syncCommand, updateSlavesWaitingBgsave,
\* addReplyReplicationBacklog).  Left out are slaves that a failed fork left behind,
\* and those that resumed after they were misled about their offset.
StreamComplete ==
  \A x \in Servers : \A s \in DOMAIN srv[x].slaves :
    LET c == srv[x].slaves[s]
        queued(data, db) == Replay(data, db, c.buf) = srv[x].data
    IN  /\ srv[x].back # None
        /\ ~c.orphan /\ c.state = "end" /\ srv[x].child # None /\ srv[x].child.type = "disk" =>
             queued(srv[x].child.snap, 0)
        /\ ~c.orphan /\ c.rdb # None => queued(c.rdb, 0)
        /\ ~c.orphan /\ srv[s].rstate = "connected" /\ (exact[s] \/ ~srv[s].master.resumed) =>
             queued(srv[s].data, srv[s].master.db)

\* An offset that the master would continue from is the offset of the data set the
\* slave has, and what it acknowledged it has, so WAIT does not count it without the
\* write (replicationCountAcksByOffset), through disconnections, timeouts, resized
\* and freed backlogs and restarts.  This is so of the slaves of which exact holds.
\* Left out are the slaves that were misled about their offset: one that joined the
\* snapshot made for another with commands queued since its fork (it counts them
\* twice, and WAIT does count it too early), one that was overtaken by the stream
\* before its snapshot was forked, one that was told none by SYNC, one that a failed
\* fork left behind, and those whose master then replaced its data set or set its
\* offset back.
OffsetTellsData ==
  \A s \in Servers, x \in Servers : exact[s] =>
    /\ \A r \in Known(s, x) : Has(srv[x].back, r.off + 1) => r.off \in DOMAIN past[x] /\ srv[s].data = past[x][r.off]
    /\ s \in DOMAIN srv[x].slaves /\ srv[x].slaves[s].ack > 0 /\ srv[s].host = x =>
         srv[x].slaves[s].ack \in DOMAIN past[x] /\ IsPrefix(past[x][srv[x].slaves[s].ack], srv[s].data)

\* A slave comes to be connected and to have everything its master has, however
\* often it was refused, dropped or made to wait, unless a failed fork left it behind
\* or it waits for its own acknowledgement and takes the master for one that knows
\* none (replicationCron retries, REPLCONF ACK puts it online).
Following(s) ==
  \/ srv[s].host = None
  \/ s \in DOMAIN srv[srv[s].host].slaves /\ Link(s).orphan
  \/ srv[s].rstate = "connected" /\ Up(s) /\ srv[s].master.old /\ Link(s).onack
  \/ srv[s].rstate = "connected" /\ Up(s) /\ Link(s).state = "online" /\ Link(s).buf = << >>
CatchesUp == \A s \in Servers : <>[]Following(s)

\* "the stream of data that we'll receive will start from were this master left":
\* a slave that continued has, with what is queued for it, the data of its master.
ResumesWhereItLeft ==
  \A x \in Servers : \A s \in DOMAIN srv[x].slaves :
    ~srv[x].slaves[s].orphan /\ srv[s].rstate = "connected" =>
      Replay(srv[s].data, srv[s].master.db, srv[x].slaves[s].buf) = srv[x].data
=============================================================================
