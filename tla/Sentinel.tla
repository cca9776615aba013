------------------------------ MODULE Sentinel ------------------------------
(* Redis Sentinel (redis-3.0.3/src/sentinel.c): processes that watch one      *)
(* master and its slaves, agree that the master is down, elect one of them to *)
(* fail it over, and tell each other the outcome.                             *)
(*                                                                            *)
(* A handler of the event loop is an action: the timer for the master, the    *)
(* reply to INFO, a hello message, the command of another sentinel and its    *)
(* reply, the commands of an administrator, and a restart from the            *)
(* configuration file.  Time is left to the environment: a slow instance and  *)
(* a dead one look the same, so any timeout may be over whenever it is        *)
(* looked at, and a link may be down.                                         *)
EXTENDS Integers, FiniteSets, FiniteSetsExt

CONSTANTS Sentinels,
          First,          \* the master at the beginning
          Quorum,         \* sentinel monitor <name> <ip> <port> <quorum>
          ParallelSyncs,  \* sentinel parallel-syncs
          Rank,           \* [instances -> Nat]: priority, offset and run id as one order; 0 is "never"
          Active,         \* the sentinels that may act; the others vote and listen
          Scenarios,      \* the bounds to explore, see limit: sets of instances, actors, epochs, faults
          None

ASSUME SentinelAssumption ==
  /\ IsFiniteSet(Sentinels) /\ Active \subseteq Sentinels /\ Quorum \in Nat
  /\ \A c \in Scenarios : /\ First \in c.instances /\ None \notin c.instances
                          /\ c.epochs \in Nat /\ c.faults \in Nat
                          /\ \A r \in c.instances : Rank[r] \in Nat
  /\ None \notin Sentinels \X Nat

VARIABLES
  redis,    \* [instances -> instances \cup {None}]: the master it replicates from
  st,       \* [Sentinels -> what the sentinel has in memory]
  disk,     \* [Sentinels -> its configuration file]
  asked,    \* [Sentinels -> its last request for votes, on its way or repeated]
  limit,    \* bounds: the sentinels that act, the epochs, and the restarts, resets, tilts, false
            \* alarms, forced failovers and failed writes of a file still to come
  elected,  \* history: <<run id, failover epoch, epoch of the replies>> of the leaders votes made
  unsaved,  \* history: the sentinels whose last write of the file failed
  forgot    \* history: the epochs of votes that a restart forgot

vars == <<redis, st, disk, asked, limit, elected, unsaved, forgot>>

Runid(s, inc) == <<s, inc>>
Peers(s) == Sentinels \ {s}

\* createSentinelRedisInstance: a slave and a sentinel as they are added.
NewSlave == {}
NewPeer(runid) == [runid |-> runid, down |-> FALSE, leader |-> None, lepoch |-> 0]

\* A master as it is added, with what the configuration file says of it.
Loaded(d, inc) ==
  [epoch |-> IF d.cfg > d.epoch THEN d.cfg ELSE d.epoch,
   addr |-> d.addr, cfg |-> d.cfg, lepoch |-> d.lepoch, leader |-> None,
   fepoch |-> 0, fstate |-> "none", promoted |-> None, force |-> FALSE,
   sdown |-> FALSE, tilt |-> FALSE,
   slaves |-> [r \in d.slaves |-> NewSlave],
   peers |-> [p \in DOMAIN d.peers |-> NewPeer(d.peers[p])],
   inc |-> inc]

FirstFile(s, instances) ==
  [epoch |-> 0, addr |-> First, cfg |-> 0, lepoch |-> 0, slaves |-> instances \ {First},
   peers |-> [p \in Peers(s) |-> Runid(p, 0)]]

Init ==
  \E c \in Scenarios :
    /\ redis = [r \in c.instances |-> IF r = First THEN None ELSE First]
    /\ disk = [s \in Sentinels |-> FirstFile(s, c.instances)]
    /\ st = [s \in Sentinels |-> Loaded(FirstFile(s, c.instances), 0)]
    /\ asked = [s \in Sentinels |-> None]
    /\ \E active \in kSubset(c.actors, Active) :
         limit = [active |-> active, epochs |-> c.epochs, faults |-> c.faults]
    /\ elected = {} /\ unsaved = {} /\ forgot = {}

Fault == limit.faults > 0 /\ limit' = [limit EXCEPT !.faults = @ - 1]

-----------------------------------------------------------------------------
(* A sentinel's memory m and its file *)

InProgress(m) == m.fstate # "none"                        \* SRI_FAILOVER_IN_PROGRESS
sentinelGetCurrentMasterAddress(m) == IF m.fstate = "reconf" THEN m.promoted ELSE m.addr
Known(m) == {m.addr} \cup DOMAIN m.slaves

\* rewriteConfigSentinelOption.  The promoted slave is already written as the
\* master; its own line still has its own address.
rewriteConfigSentinelOption(m) ==
  [epoch |-> m.epoch, addr |-> sentinelGetCurrentMasterAddress(m), cfg |-> m.cfg, lepoch |-> m.lepoch,
   slaves |-> DOMAIN m.slaves, peers |-> [p \in DOMAIN m.peers |-> m.peers[p].runid]]

\* The file, if one of the steps of a handler that leaves m flushed it.  A failure
\* is logged, and nobody asks for it.
sentinelFlushConfig(s, m, flush) ==
  \/ ~flush /\ UNCHANGED <<disk, unsaved, limit>>
  \/ /\ flush
     /\ disk' = [disk EXCEPT ![s] = rewriteConfigSentinelOption(m)]
     /\ unsaved' = unsaved \ {s} /\ UNCHANGED limit
  \/ flush /\ Fault /\ unsaved' = unsaved \cup {s} /\ UNCHANGED disk
Leave(s, m, flush) == st' = [st EXCEPT ![s] = m] /\ sentinelFlushConfig(s, m, flush)

\* sentinelResetMaster with SENTINEL_RESET_NO_SENTINELS
ResetFailover(m) ==
  [m EXCEPT !.slaves = << >>, !.sdown = FALSE, !.leader = None, !.fstate = "none", !.fepoch = 0,
            !.force = FALSE, !.promoted = None]
sentinelResetMaster(m) == [ResetFailover(m) EXCEPT !.peers = << >>]

sentinelResetMasterAndChangeAddress(m, r) ==
  [ResetFailover(m) EXCEPT !.addr = r, !.slaves = [x \in Known(m) \ {r} |-> NewSlave]]

\* SLAVEOF and CONFIG REWRITE in a transaction; the replies are not looked at.
\* Each of the instances in to executes it, or its link is gone before.
sentinelSendSlaveOf(to, host) ==
  \E done \in SUBSET to : redis' = [r \in DOMAIN redis |-> IF r \in done THEN host ELSE redis[r]]

-----------------------------------------------------------------------------
(* Votes.  An outcome of a handler is its memory m, the instances it sends    *)
(* SLAVEOF and the master for them, whether it wrote the file, and whether    *)
(* the votes made it the leader.                                              *)

Outcome(m, flush, leads) == [m |-> m, to |-> {}, host |-> None, flush |-> flush, leads |-> leads]
Quietly(m) == Outcome(m, FALSE, FALSE)
Sending(m, to, host, flush) == [m |-> m, to |-> to, host |-> host, flush |-> flush, leads |-> FALSE]

NewEpoch(m, e) == [m EXCEPT !.epoch = IF e > @ THEN e ELSE @]
\* Mutant: a vote for an epoch that already has one.
VoteAgain(m, e, runid) ==
  IF NewEpoch(m, e).epoch <= e THEN [NewEpoch(m, e) EXCEPT !.leader = runid, !.lepoch = e] ELSE m
sentinelVoteLeader(m, e, runid) ==
  IF m.lepoch < e /\ m.epoch <= e THEN [m EXCEPT !.epoch = e, !.leader = runid, !.lepoch = e]
  ELSE NewEpoch(m, e)
Voted(old, m) == m.leader # None /\ (m.leader # old.leader \/ m.lepoch # old.lepoch)

\* Replies are counted for the current epoch, the own vote for the epoch of the
\* failover.
For(m, r) == Cardinality({p \in DOMAIN m.peers : m.peers[p].leader = r /\ m.peers[p].lepoch = m.epoch})
Named(m) == {m.peers[p].leader : p \in {q \in DOMAIN m.peers : m.peers[q].lepoch = m.epoch}} \ {None}
Ahead(m) == {r \in Named(m) : \A q \in Named(m) : For(m, q) <= For(m, r)}
Majority(m) == (Cardinality(DOMAIN m.peers) + 1) \div 2 + 1
Enough(m, n) == n >= Majority(m) /\ n >= Quorum

\* first is the front runner of the other sentinels, v the memory after the vote
Wins(m, v, first, me) ==
  LET mine == IF v.lepoch = m.fepoch THEN v.leader ELSE None
      before == IF first = None THEN 0 ELSE For(m, first)
      after == IF mine = None THEN 0 ELSE For(m, mine) + 1
  IN  IF after > before THEN mine = me /\ Enough(m, after) ELSE first = me /\ Enough(m, before)
sentinelGetLeader(m, me) ==
  {LET v == sentinelVoteLeader(m, m.fepoch, IF first = None THEN me ELSE first)
   IN  Outcome(v, Voted(m, v), Wins(m, v, first, me)) :
   first \in IF Named(m) = {} THEN {None} ELSE Ahead(m)}

-----------------------------------------------------------------------------
(* The failover of a leader *)

sentinelStartFailover(m) == [m EXCEPT !.fstate = "wait", !.epoch = @ + 1, !.fepoch = m.epoch + 1]
sentinelAbortFailover(m) == [m EXCEPT !.fstate = "none", !.fepoch = 0, !.force = FALSE, !.promoted = None]

sentinelFailoverWaitStart(m, me) ==
  UNION {IF o.leads \/ o.m.force THEN {[o EXCEPT !.m.fstate = "select"]}
         ELSE {o, [o EXCEPT !.m = sentinelAbortFailover(@)]} : o \in sentinelGetLeader(m, me)}

\* The best of the slaves that are connected, answer, and are not too far behind.
compareSlavesForPromotion(a, b) == Rank[a] <= Rank[b]
sentinelSelectSlave(usable) ==
  IF usable = {} THEN None ELSE CHOOSE r \in usable : \A x \in usable : compareSlavesForPromotion(r, x)
Candidates(m) == {r \in DOMAIN m.slaves : Rank[r] > 0}
Select(m, r) ==
  IF r = None THEN sentinelAbortFailover(m) ELSE [m EXCEPT !.promoted = r, !.fstate = "noone"]
sentinelFailoverSelectSlave(m) == {Quietly(Select(m, sentinelSelectSlave(u))) : u \in SUBSET Candidates(m)}

\* Disconnected until the timeout, or sent.
sentinelFailoverSendSlaveOfNoOne(m) ==
  {Quietly(m), Quietly(sentinelAbortFailover(m)),
   Sending([m EXCEPT !.fstate = "promotion"], {m.promoted}, None, FALSE)}
sentinelFailoverWaitPromotion(m) == {Quietly(m), Quietly(sentinelAbortFailover(m))}

\* The loop over the slaves: reach are the ones that are connected, slow the ones
\* whose SENTINEL_SLAVE_RECONF_TIMEOUT is over.  A slave given up is asked again.
Busy(f) == f \cap {"sent", "inprog"} # {}
GivenUp(f) == IF "sent" \in f THEN (f \ {"sent"}) \cup {"done"} ELSE f
in_progress(m) == Cardinality({r \in DOMAIN m.slaves : Busy(m.slaves[r])})
Unfinished(m) == {r \in DOMAIN m.slaves \ {m.promoted} : "done" \notin m.slaves[r]}
Tried(m, slow) ==
  [m EXCEPT !.slaves = [r \in DOMAIN @ |-> IF r \in slow THEN GivenUp(@[r]) ELSE @[r]]]
Free(m, reach, slow) == {r \in Unfinished(m) \cap reach : ~Busy(Tried(m, slow).slaves[r])}
Sent(m, to) == [m EXCEPT !.slaves = [r \in DOMAIN @ |-> IF r \in to THEN @[r] \cup {"sent"} ELSE @[r]]]
\* It goes over them in any order and ends when enough are being reconfigured.
Visits(m, free) ==
  IF in_progress(m) >= ParallelSyncs THEN {{}}
  ELSE {V \in SUBSET DOMAIN m.slaves :
          LET n == in_progress(m) + Cardinality(V \cap free)
          IN  n = ParallelSyncs \/ (n < ParallelSyncs /\ V = DOMAIN m.slaves)}

\* The slaves that the failover still waits for; those out of reach are S_DOWN.
Unconfigured(m, reach) == {r \in (DOMAIN m.slaves \ {m.promoted}) \cap reach : "done" \notin m.slaves[r]}
sentinelFailoverSwitchToPromotedSlave(m) == sentinelResetMasterAndChangeAddress(m, m.promoted)
\* On timeout every connected slave without RECONF_SENT or RECONF_DONE is told.
LastCall(m, reach) == {r \in DOMAIN m.slaves \cap reach : m.slaves[r] \cap {"sent", "done"} = {}}
\* Mutant: the file is not written after the switch.
DetectEndUnsaved(m, to, reach, late) ==
  IF m.promoted \notin reach \/ (~late /\ Unconfigured(m, reach) # {})
  THEN Sending(m, to, m.promoted, FALSE)
  ELSE Sending(sentinelFailoverSwitchToPromotedSlave(m), to, m.promoted, FALSE)
sentinelFailoverDetectEnd(m, to, reach, late) ==
  IF m.promoted \notin reach \/ (~late /\ Unconfigured(m, reach) # {})
  THEN Sending(m, to, m.promoted, FALSE)
  ELSE Sending(sentinelFailoverSwitchToPromotedSlave(m),
               to \cup (IF late THEN LastCall(m, reach) ELSE {}), m.promoted, TRUE)
ReconfSlaves(m, reach, slow, V, late) ==
  LET to == V \cap Free(m, reach, slow)
  IN  sentinelFailoverDetectEnd(Sent(Tried(m, slow \cap V), to), to, reach, late)
sentinelFailoverReconfNextSlave(m) ==
  UNION {{ReconfSlaves(m, reach, slow, V, late) : V \in Visits(m, Free(m, reach, slow)), late \in BOOLEAN} :
         reach \in SUBSET DOMAIN m.slaves, slow \in SUBSET Unfinished(m)}

sentinelFailoverStateMachine(m, me) ==
  CASE m.fstate = "none" -> {Quietly(m)}
    [] m.fstate = "wait" -> sentinelFailoverWaitStart(m, me)
    [] m.fstate = "select" -> sentinelFailoverSelectSlave(m)
    [] m.fstate = "noone" -> sentinelFailoverSendSlaveOfNoOne(m)
    [] m.fstate = "promotion" -> sentinelFailoverWaitPromotion(m)
    [] m.fstate = "reconf" -> sentinelFailoverReconfNextSlave(m)

-----------------------------------------------------------------------------
(* The timer, for the master.  The fields of the instance that only matter in *)
(* the handler they are computed in, such as O_DOWN, are no state.            *)

sentinelCheckObjectivelyDown(m) ==
  m.sdown /\ 1 + Cardinality({p \in DOMAIN m.peers : m.peers[p].down}) >= Quorum
\* The delay after the last attempt, or after a vote for another, may be over.
sentinelStartFailoverIfNeeded(m) ==
  {m} \cup (IF sentinelCheckObjectivelyDown(m) /\ ~InProgress(m) /\ m.epoch < limit.epochs
            THEN {sentinelStartFailover(m)} ELSE {})

\* The master is asked about while it is S_DOWN; a failover asks for votes.
sentinelAskMasterStateToOtherSentinels(s, m) ==
  asked' = IF m.sdown /\ InProgress(m)
           THEN [asked EXCEPT ![s] = [addr |-> m.addr, epoch |-> m.epoch, runid |-> Runid(s, m.inc)]]
           ELSE asked

\* sentinelHandleDictOfRedisInstances for the master: down after too long a
\* silence, a failover started and moved on.
sentinelHandleRedisInstance(s) ==
  \E sd \in {TRUE, st[s].sdown} :
  \E m \in sentinelStartFailoverIfNeeded([st[s] EXCEPT !.sdown = sd, !.tilt = FALSE]) :
  \E o \in sentinelFailoverStateMachine(m, Runid(s, m.inc)) :
    /\ Leave(s, o.m, o.flush)
    /\ sentinelAskMasterStateToOtherSentinels(s, o.m)
    /\ sentinelSendSlaveOf(o.to, o.host)
    /\ elected' = IF o.leads THEN elected \cup {<<Runid(s, m.inc), m.fepoch, m.epoch>>} ELSE elected
    /\ UNCHANGED forgot

-----------------------------------------------------------------------------
(* Commands between sentinels: SENTINEL is-master-down-by-addr.  A reply      *)
(* changes nothing but what the timer reads later, so it arrives with its     *)
(* command, or never.                                                         *)

IsDown(m, addr) == ~m.tilt /\ addr = m.addr /\ m.sdown
sentinelReceiveIsMasterDownReply(p, down, leader, lepoch) ==
  IF leader = None THEN [p EXCEPT !.down = down] ELSE [p EXCEPT !.down = down, !.leader = leader, !.lepoch = lepoch]

\* Without a run id the command asks for no vote, and t does not change.
AskState(s, t) ==
  /\ st[s].sdown /\ ~InProgress(st[s]) /\ t \in DOMAIN st[s].peers
  /\ st' = [st EXCEPT ![s].peers[t] = sentinelReceiveIsMasterDownReply(@, IsDown(st[t], st[s].addr), None, 0)]
  /\ UNCHANGED <<redis, disk, asked, limit, elected, unsaved, forgot>>

\* The request of s reaches t, who votes or repeats its vote.
Ballot(t, q) == IF q.addr = st[t].addr THEN sentinelVoteLeader(st[t], q.epoch, q.runid) ELSE st[t]
Answered(p, q, m) ==
  sentinelReceiveIsMasterDownReply(p, IsDown(m, q.addr), IF q.addr = m.addr THEN m.leader ELSE None, m.lepoch)
AskVote(s, t) ==
  /\ asked[s] # None
  /\ \E m \in {Ballot(t, asked[s])}, heard \in SUBSET ({t} \cap DOMAIN st[s].peers) :
       /\ st' = [st EXCEPT ![t] = m,
            ![s].peers = [p \in DOMAIN @ |-> IF p \in heard THEN Answered(@[p], asked[s], m) ELSE @[p]]]
       /\ sentinelFlushConfig(t, m, m # st[t])
  /\ UNCHANGED <<redis, asked, elected, forgot>>

\* sentinelKillLink, or a disconnection: after a while the timer forgets what the
\* peer said.
sentinelKillLink(s, t) ==
  /\ t \in DOMAIN st[s].peers /\ Fault
  /\ st' = [st EXCEPT ![s].peers[t] = [@ EXCEPT !.down = FALSE, !.leader = None]]
  /\ UNCHANGED <<redis, disk, asked, elected, unsaved, forgot>>

-----------------------------------------------------------------------------
(* Hello messages: published on the instances, and sent to the sentinels.  A  *)
(* message that is late says nothing a later one would not say better.        *)

sentinelSendHello(m, s) ==
  [runid |-> Runid(s, m.inc), epoch |-> m.epoch, cfg |-> m.cfg, addr |-> sentinelGetCurrentMasterAddress(m)]

\* A sentinel with another run id, or unknown, replaces the one at its address.
Meet(m, t, runid) ==
  IF t \in DOMAIN m.peers /\ m.peers[t].runid = runid THEN m
  ELSE [m EXCEPT !.peers = [p \in DOMAIN @ \cup {t} |-> IF p = t THEN NewPeer(runid) ELSE @[p]]]
\* Mutant: the address is taken and the failover under way goes on.
UpdateKeepingFailover(m, h) ==
  IF m.cfg >= h.cfg THEN m ELSE [m EXCEPT !.cfg = h.cfg, !.addr = h.addr, !.promoted = None]
UpdateConfig(m, h) ==
  IF m.cfg >= h.cfg THEN m
  ELSE IF h.addr = m.addr THEN [m EXCEPT !.cfg = h.cfg]
  ELSE sentinelResetMasterAndChangeAddress([m EXCEPT !.cfg = h.cfg], h.addr)
Heard(m, t, h) == UpdateConfig(NewEpoch(Meet(m, t, h.runid), h.epoch), h)
sentinelProcessHelloMessage(s, t) ==
  \E m \in {Heard(st[s], t, sentinelSendHello(st[t], t))} :
    /\ m # st[s]
    /\ Leave(s, m, [m EXCEPT !.cfg = st[s].cfg] # st[s])
    /\ UNCHANGED <<redis, asked, elected, forgot>>

-----------------------------------------------------------------------------
(* INFO: sentinelRefreshInstanceInfo *)

sentinelMasterLooksSane(m) == redis[m.addr] = None /\ ~m.sdown

\* The master: slaves it has and the sentinel has not.
InfoOfMaster(s) ==
  \E found \in {{r \in DOMAIN redis : redis[r] = st[s].addr} \ DOMAIN st[s].slaves} :
    /\ found # {}
    /\ Leave(s, [st[s] EXCEPT !.slaves = [r \in found \cup DOMAIN @ |-> IF r \in found THEN NewSlave ELSE @[r]]], TRUE)
    /\ UNCHANGED <<redis, asked, elected, forgot>>

\* A slave that is a master: the one promoted, or one to be put back in its place.
InfoOfPromoted(s, r) ==
  /\ redis[r] = None /\ r = st[s].promoted /\ st[s].fstate = "promotion" /\ ~st[s].tilt
  /\ Leave(s, [st[s] EXCEPT !.cfg = st[s].fepoch, !.fstate = "reconf"], TRUE)
  /\ UNCHANGED <<redis, asked, elected, forgot>>
ConvertToSlave(s, r) ==
  /\ redis[r] = None /\ r # st[s].promoted /\ sentinelMasterLooksSane(st[s]) /\ ~st[s].tilt
  /\ sentinelSendSlaveOf({r}, st[s].addr)
  /\ UNCHANGED <<st, disk, asked, limit, elected, unsaved, forgot>>

\* A slave: corrected when it follows another master, and followed while it is
\* being reconfigured; linkup is its master_link_status.
Advance(f, here, linkup) ==
  LET g == IF "sent" \in f /\ here THEN (f \ {"sent"}) \cup {"inprog"} ELSE f
  IN  IF "inprog" \in g /\ linkup THEN (g \ {"inprog"}) \cup {"done"} ELSE g
InfoOfSlave(s, r) ==
  /\ redis[r] # None /\ ~st[s].tilt
  /\ \E fix \in SUBSET {r}, linkup \in BOOLEAN :
       /\ fix # {} => redis[r] # st[s].addr /\ sentinelMasterLooksSane(st[s])
       /\ sentinelSendSlaveOf(fix, st[s].addr)
       /\ st' = [st EXCEPT ![s].slaves[r] = Advance(@, redis[r] = st[s].promoted, linkup)]
  /\ UNCHANGED <<disk, asked, limit, elected, unsaved, forgot>>

-----------------------------------------------------------------------------
(* Administrators and faults *)

\* A ping that is answered after all: no longer S_DOWN.
sentinelPingReplyCallback(s) ==
  /\ Fault /\ st[s].sdown
  /\ st' = [st EXCEPT ![s].sdown = FALSE]
  /\ UNCHANGED <<redis, disk, asked, elected, unsaved, forgot>>
\* SENTINEL FAILOVER
ForceFailover(s) ==
  /\ Fault /\ ~InProgress(st[s]) /\ Candidates(st[s]) # {} /\ st[s].epoch < limit.epochs
  /\ st' = [st EXCEPT ![s] = [sentinelStartFailover(@) EXCEPT !.force = TRUE]]
  /\ UNCHANGED <<redis, disk, asked, elected, unsaved, forgot>>
\* SENTINEL RESET
Reset(s) ==
  /\ Fault
  /\ st' = [st EXCEPT ![s] = sentinelResetMaster(@)]
  /\ asked' = [asked EXCEPT ![s] = None]
  /\ UNCHANGED <<redis, disk, elected, unsaved, forgot>>
sentinelCheckTiltCondition(s) ==
  /\ Fault
  /\ st' = [st EXCEPT ![s].tilt = TRUE]
  /\ UNCHANGED <<redis, disk, asked, elected, unsaved, forgot>>
\* sentinelHandleConfiguration: a crash, and a start from the file with a new run id
Restart(s) ==
  /\ Fault
  /\ st' = [st EXCEPT ![s] = Loaded(disk[s], st[s].inc + 1)]
  /\ asked' = [asked EXCEPT ![s] = None]
  /\ unsaved' = unsaved \ {s}
  /\ forgot' = forgot \cup (disk[s].lepoch + 1..st[s].lepoch)
  /\ UNCHANGED <<redis, disk, elected>>

Next ==
  \/ \E s \in limit.active :
       \/ sentinelHandleRedisInstance(s) \/ InfoOfMaster(s) \/ sentinelPingReplyCallback(s) \/ ForceFailover(s)
       \/ \E r \in DOMAIN st[s].slaves : InfoOfPromoted(s, r) \/ ConvertToSlave(s, r) \/ InfoOfSlave(s, r)
       \/ \E t \in Peers(s) : AskState(s, t) \/ AskVote(s, t)
  \/ \E s \in Sentinels :
       \/ Reset(s) \/ sentinelCheckTiltCondition(s) \/ Restart(s)
       \/ \E t \in Peers(s) : sentinelKillLink(s, t) \/ sentinelProcessHelloMessage(s, t)

Spec == Init /\ [][Next]_vars

-----------------------------------------------------------------------------
(* Properties *)

\* Two sentinels that were made leaders by the votes of an epoch are the same one
\* (sentinelGetLeader), through delayed votes, restarts, resets and tilts.  Two
\* things the code does are outside: a sentinel that has heard of a newer epoch
\* than that of its failover adds its own vote for the old epoch to the replies
\* for the new one (sentinel.c 3304 and 3331), so such a leader was not made by
\* one epoch (OfOneEpoch); and a vote is answered although it could not be saved
\* (sentinelFlushConfig), so a restart forgets it and the voter votes again.
OfOneEpoch(x) == x[2] = x[3]
OneLeaderPerEpoch ==
  \A a, b \in elected : a[2] = b[2] /\ a[2] \notin forgot /\ OfOneEpoch(a) /\ OfOneEpoch(b) => a = b

\* What the failover dereferences is there: a slave that was sent the new master
\* and a failover past the selection have a promoted slave, which is a slave of
\* this master, and only then (no message leaves a half finished failover behind).
PromotedInPlace ==
  \A s \in Sentinels :
    /\ st[s].fstate \in {"noone", "promotion", "reconf"} <=> st[s].promoted # None
    /\ st[s].promoted # None => st[s].promoted \in DOMAIN st[s].slaves
    /\ (\E r \in DOMAIN st[s].slaves : st[s].slaves[r] # {}) => st[s].fstate = "reconf"

\* The file of a sentinel that could write it names every instance the sentinel
\* watches, the old master of a finished failover among them, so that a crash
\* forgets none (sentinelResetMasterAndChangeAddress, sentinelFlushConfig).  The one
\* it may lack is the master, and that from the promotion to the switch, or until
\* the slaves are found again after a RESET in between: the line of the promoted
\* slave was to have the master's address (comment at sentinel.c 1538), and has
\* its own.
Missing(s) == Known(st[s]) \ ({disk[s].addr} \cup disk[s].slaves)
FileNamesInstances ==
  \A s \in Sentinels \ unsaved :
    Missing(s) # {} => /\ Missing(s) = {st[s].addr}
                       /\ st[s].fstate = "reconf" \/ DOMAIN st[s].slaves = {}

=============================================================================
