--------------------------- MODULE ClusterElection ---------------------------
(* The failover election of Redis Cluster (cluster.c): a slave whose master   *)
(* is down, or that was told to by CLUSTER FAILOVER, schedules an attempt,    *)
(* asks every node for a vote in a new epoch, counts the answers, and takes   *)
(* the slots over; an attempt expires and is tried again.  Packets are        *)
(* delivered in any order, late, or never, and any node may restart.          *)
(*                                                                            *)
(* Time is left to the environment: an attempt may become due, expire, and    *)
(* be retried at any moment, a vote may be refused because of a recent one,   *)
(* a manual failover may time out.  That the master is down does not change   *)
(* while the slaves compete.                                                  *)
EXTENDS ClusterState

CONSTANTS Master,       \* the masters, one slot each; slots are named after them
          Failed,       \* the master the slaves follow, which may be down
          Linked,       \* the pairs of nodes with a link between them
          MaxEpoch,     \* bound on the current epoch
          Crashing,     \* the nodes that may crash and come back
          MaxRestarts,  \* how often they do
          Told,         \* the nodes CLUSTER FAILOVER may be called at
          MaxManual,    \* how often it is
          MaxEvents     \* bound on restarts, calls and attempts together

N == Cardinality(Master)

\* The cluster: masters 1..N with one slot each, one of them with slaves; no
\* node has a link to itself.
ElectionAssumption ==
  /\ Node \subseteq Int /\ IsFiniteSet(Node) /\ Null \notin Node
  /\ Master \subseteq Node /\ N \in Nat /\ Master = 1..N /\ Slot = Master
  /\ Failed \in Master /\ Crashing \subseteq Node \ {Failed} /\ Told \subseteq Node
  /\ Linked \subseteq {l \in Node \X Node : l[1] # l[2]}
  /\ MaxEpoch \in Nat

VARIABLES
  st,        \* [Node -> Table]
  vote,      \* [Node -> Nat]: lastVoteEpoch
  attempt,   \* [Node -> phase, failover_auth_count and failover_auth_epoch]
  manual,    \* [Node -> mf_end and mf_can_start]: no, waiting for the master, ready
  saved,     \* [Node -> current epoch and last vote in nodes.conf]
  net,       \* the packets on their way
  restarts, asked, started,
  tally,     \* history: [Node -> the late votes counted, and the others' voters]
  forgot,    \* history: the votes <<voter, epoch>> lost in restarts
  won        \* history: who won which epoch, with which votes

\* The bound on a behaviour as a whole: a restart counts for one.
Affordable(cost) == restarts + 2 * (asked + started) + cost <= MaxEvents

vars == <<st, vote, attempt, manual, saved, net, restarts, asked, started, tally, forgot, won>>

\* All masters have their config epoch; everyone has flagged Failed as FAIL, or
\* nobody has.
StartTable(n, down) ==
  [myself |-> n, nodes |-> Node, currentEpoch |-> Cardinality(Master),
   configEpoch |-> [m \in Node |-> IF m \in Master THEN m ELSE Failed],
   role |-> [m \in Node |-> IF m \in Master THEN "master" ELSE "slave"],
   slaveof |-> [m \in Node |-> IF m \in Master THEN Null ELSE Failed],
   slaves |-> [m \in Node |-> IF m = Failed THEN Node \ Master ELSE {}],
   slots |-> [j \in Slot |-> j],
   importing |-> [j \in Slot |-> Null], migrating |-> [j \in Slot |-> Null],
   fail |-> [m \in Node |-> IF m = Failed /\ down THEN "fail" ELSE "ok"],
   keys |-> {}, size |-> Cardinality(Master), state |-> IF down THEN "fail" ELSE "ok"]

NoAttempt == [phase |-> "none", count |-> 0, epoch |-> 0]
NoVotes == [late |-> 0, from |-> {}]

Init ==
  /\ \E down \in BOOLEAN : st = [n \in Node |-> StartTable(n, down)]
  /\ vote = [n \in Node |-> 0]
  /\ attempt = [n \in Node |-> NoAttempt]
  /\ manual = [n \in Node |-> "no"]
  /\ saved = [n \in Node |-> [epoch |-> Cardinality(Master), vote |-> 0]]
  /\ net = {} /\ restarts = 0 /\ asked = 0 /\ started = 0
  /\ tally = [n \in Node |-> NoVotes] /\ forgot = {} /\ won = {}

\* clusterBeforeSleep writes nodes.conf before a packet of the step leaves.
clusterSaveConfig(n, v, lv) == saved' = [saved EXCEPT ![n] = [epoch |-> v.currentEpoch, vote |-> lv]]

\* A config epoch that was new asks for a save; a new current epoch does not.
SaveIfLearnt(n, v, lv) ==
  IF v.configEpoch = st[n].configEpoch THEN UNCHANGED saved ELSE clusterSaveConfig(n, v, lv)

\* A header, with the node it is for and CLUSTERMSG_FLAG0_FORCEACK.
Packet(v, type, to, force) ==
  LET h == clusterBuildMessageHdr(v, type)
  IN  [to |-> to, type |-> h.type, sender |-> h.sender, slaveof |-> h.slaveof, force |-> force,
       myslots |-> h.myslots, currentEpoch |-> h.currentEpoch, configEpoch |-> h.configEpoch]

\* There is no link to a node that is down.
clusterBroadcastMessage(v, type, force) ==
  {Packet(v, type, n, force) : n \in {m \in Node : <<v.myself, m>> \in Linked /\ ~nodeFailed(v, m)}}

-----------------------------------------------------------------------------
(* The slave: CLUSTER FAILOVER [FORCE] *)

\* Without FORCE the master must be up, and is told to stop its clients.
clusterFailoverCommand(s, force) ==
  LET v == st[s] IN
  /\ asked < MaxManual /\ Affordable(2)
  /\ ~nodeIsMaster(v, s) /\ v.slaveof[s] # Null
  /\ force \/ ~nodeFailed(v, v.slaveof[s])
  /\ manual' = [manual EXCEPT ![s] = IF force THEN "ready" ELSE "waiting"]
  /\ asked' = asked + 1
  /\ UNCHANGED <<st, vote, attempt, saved, net, restarts, started, tally, forgot, won>>

\* The slave has all that its paused master has written.
clusterHandleManualFailover(s) ==
  /\ manual[s] = "waiting"
  /\ manual' = [manual EXCEPT ![s] = "ready"]
  /\ UNCHANGED <<st, vote, attempt, saved, net, restarts, asked, started, tally, forgot, won>>

manualFailoverCheckTimeout(s) ==
  /\ manual[s] # "no"
  /\ manual' = [manual EXCEPT ![s] = "no"]
  /\ UNCHANGED <<st, vote, attempt, saved, net, restarts, asked, started, tally, forgot, won>>

-----------------------------------------------------------------------------
(* The slave: clusterHandleSlaveFailover *)

\* Slave of a master that serves slots and is down, unless this is a manual
\* failover; data_age is recent enough.
MayFailover(s) ==
  LET v == st[s] m == st[s].slaveof[s]
  IN  /\ ~nodeIsMaster(v, s) /\ m # Null
      /\ nodeFailed(v, m) \/ manual[s] = "ready"
      /\ SlotsOf(v, m) # {}

\* auth_age > auth_retry_time: set up a new attempt.  The PONGs to the other
\* slaves carry the replication offset, which the rank turns into a delay.
\* failover_auth_epoch stays that of the attempt before.  An attempt that is too
\* old, auth_age > auth_timeout, only waits for this step.
ScheduleElection(s) ==
  /\ MayFailover(s)
  /\ attempt' = [attempt EXCEPT ![s].phase = "scheduled", ![s].count = 0]
  /\ tally' = [tally EXCEPT ![s] = NoVotes]
  /\ UNCHANGED <<st, vote, manual, saved, net, restarts, asked, started, forgot, won>>

\* The delay is over: a new epoch, and a request to every node.
StartElection(s) ==
  LET v == [st[s] EXCEPT !.currentEpoch = @ + 1] IN
  /\ MayFailover(s) /\ attempt[s].phase = "scheduled"
  /\ v.currentEpoch <= MaxEpoch /\ Affordable(2)
  /\ started' = started + 1
  /\ st' = [st EXCEPT ![s] = v]
  /\ attempt' = [attempt EXCEPT ![s].phase = "sent", ![s].epoch = v.currentEpoch]
  /\ clusterSaveConfig(s, v, vote[s])
  /\ net' = net \cup clusterBroadcastMessage(v, "request", manual[s] # "no")
  /\ UNCHANGED <<vote, manual, restarts, asked, tally, forgot, won>>

NeededQuorum(v) == v.size \div 2 + 1

\* Turn into a master, claim the slots of the old one, PONG everybody.
Promote(v, epoch) ==
  LET me  == v.myself
      old == v.slaveof[me]
      w   == clusterSetNodeAsMaster(v, me)
  IN  [w EXCEPT !.configEpoch[me] = IF @ < epoch THEN epoch ELSE @,
                !.slots = [j \in Slot |-> IF v.slots[j] = old THEN me ELSE @[j]]]

WinElection(s) ==
  LET v == Promote(st[s], attempt[s].epoch) IN
  /\ MayFailover(s) /\ attempt[s].phase = "sent"
  /\ attempt[s].count >= NeededQuorum(st[s])
  /\ st' = [st EXCEPT ![s] = v]
  /\ clusterSaveConfig(s, v, vote[s])
  /\ net' = net \cup clusterBroadcastMessage(v, "pong", FALSE)
  /\ manual' = [manual EXCEPT ![s] = "no"]
  /\ won' = won \cup {[slave |-> s, epoch |-> attempt[s].epoch,
                       late |-> tally[s].late, from |-> tally[s].from]}
  /\ UNCHANGED <<vote, attempt, restarts, asked, started, tally, forgot>>

-----------------------------------------------------------------------------
(* Any node: clusterProcessPacket *)

\* MUTANT: the last vote is not looked at.
GrantsAgain(n, v, req, recent) ==
  /\ nodeIsMaster(v, n) /\ SlotsOf(v, n) # {}
  /\ req.currentEpoch >= v.currentEpoch
  /\ ~nodeIsMaster(v, req.sender) /\ v.slaveof[req.sender] # Null
  /\ nodeFailed(v, v.slaveof[req.sender]) \/ req.force
  /\ \A j \in req.myslots : v.slots[j] # Null =>
       v.configEpoch[v.slots[j]] <= req.configEpoch

\* clusterSendFailoverAuthIfNeeded: is the vote granted?  v is the table after
\* the epochs of the request were learnt; recent: n voted about this master less
\* than two node timeouts ago.
Grants(n, v, req, recent) ==
  /\ nodeIsMaster(v, n) /\ SlotsOf(v, n) # {}
  /\ req.currentEpoch >= v.currentEpoch
  /\ vote[n] # v.currentEpoch
  /\ ~nodeIsMaster(v, req.sender) /\ v.slaveof[req.sender] # Null
  /\ nodeFailed(v, v.slaveof[req.sender]) \/ req.force
  /\ ~recent
  /\ \A j \in req.myslots : v.slots[j] # Null =>
       v.configEpoch[v.slots[j]] <= req.configEpoch

\* The vote itself is neither saved nor does it ask for a save.
ReceiveRequest(p, recent) ==
  LET n == p.to
      v == LearnEpochs(st[n], p)
      g == Grants(n, v, p, recent)
  IN
  /\ p \in net /\ p.type = "request"
  /\ st' = [st EXCEPT ![n] = v]
  /\ vote' = IF g THEN [vote EXCEPT ![n] = v.currentEpoch] ELSE vote
  /\ SaveIfLearnt(n, v, vote'[n])
  /\ net' = (net \ {p}) \cup (IF g THEN {Packet(v, "ack", p.sender, FALSE)} ELSE {})
  /\ UNCHANGED <<attempt, manual, restarts, asked, started, tally, forgot, won>>

\* A vote counts when the voter's epoch is not before failover_auth_epoch, which
\* is still that of the attempt before while an attempt is only scheduled: such
\* a vote is late.
ReceiveAck(p) ==
  LET s == p.to
      v == LearnEpochs(st[s], p)
      counts == /\ nodeIsMaster(v, p.sender) /\ SlotsOf(v, p.sender) # {}
                /\ p.currentEpoch >= attempt[s].epoch
  IN
  /\ p \in net /\ p.type = "ack"
  /\ st' = [st EXCEPT ![s] = v]
  /\ attempt' = IF counts THEN [attempt EXCEPT ![s].count = @ + 1] ELSE attempt
  /\ tally' = IF ~counts THEN tally
              ELSE IF attempt[s].phase = "sent"
                   THEN [tally EXCEPT ![s].from = @ \cup {p.sender}]
                   ELSE [tally EXCEPT ![s].late = @ + 1]
  /\ SaveIfLearnt(s, v, vote[s])
  /\ net' = net \ {p}
  /\ UNCHANGED <<vote, manual, restarts, asked, started, forgot, won>>

\* The new master's PONG: its role and its slots.  clusterSetMaster ends a
\* manual failover.
ReceivePong(p) ==
  LET n == p.to
      w == RoleSwitch(LearnEpochs(st[n], p), p)
      v == IF nodeIsMaster(w, p.sender) /\ DirtySlots(w, p)
           THEN clusterUpdateSlotsConfigWith(w, p.sender, p.configEpoch, p.myslots) ELSE w
      u == IF p.configEpoch = v.configEpoch[n]
           THEN clusterHandleConfigEpochCollision(v, p.sender) ELSE v
  IN
  /\ p \in net /\ p.type = "pong"
  /\ st' = [st EXCEPT ![n] = u]
  /\ manual' = IF u.slaveof[n] = st[n].slaveof[n] THEN manual ELSE [manual EXCEPT ![n] = "no"]
  /\ clusterSaveConfig(n, u, vote[n])
  /\ net' = net \ {p}
  /\ UNCHANGED <<vote, attempt, restarts, asked, started, tally, forgot, won>>

\* A node crashes and reads nodes.conf again (clusterLoadConfig): a vote of an
\* epoch after the saved one is forgotten.
Restart(n) ==
  /\ restarts < MaxRestarts /\ Affordable(1)
  /\ st' = [st EXCEPT ![n].currentEpoch = saved[n].epoch]
  /\ vote' = [vote EXCEPT ![n] = saved[n].vote]
  /\ attempt' = [attempt EXCEPT ![n] = NoAttempt]
  /\ manual' = [manual EXCEPT ![n] = "no"]
  /\ tally' = [tally EXCEPT ![n] = NoVotes]
  /\ forgot' = forgot \cup {<<n, e>> : e \in (saved[n].vote + 1)..vote[n]}
  /\ restarts' = restarts + 1
  /\ UNCHANGED <<saved, net, asked, started, won>>

Next ==
  \/ \E s \in Told, force \in BOOLEAN : clusterFailoverCommand(s, force)
  \/ \E s \in Node : \/ clusterHandleManualFailover(s) \/ manualFailoverCheckTimeout(s)
                     \/ ScheduleElection(s) \/ StartElection(s)
                     \/ WinElection(s)
  \/ \E p \in net : \/ \E recent \in BOOLEAN : ReceiveRequest(p, recent)
                    \/ ReceiveAck(p) \/ ReceivePong(p)
  \/ \E n \in Crashing : Restart(n)

Spec == Init /\ [][Next]_vars

-----------------------------------------------------------------------------
(* Properties *)

\* Type correctness.
TypeOK ==
  /\ \A n \in Node : st[n] \in Table
  /\ vote \in [Node -> Nat]
  /\ \A s \in Node : /\ attempt[s].phase \in {"none", "scheduled", "sent"}
                     /\ attempt[s].count \in Nat /\ attempt[s].epoch \in Nat
  /\ manual \in [Node -> {"no", "waiting", "ready"}]
  /\ \A p \in net : p.type \in {"request", "ack", "pong"} /\ p.to \in Node
  /\ \A w \in won : w.slave \in Node /\ w.epoch \in Nat

\* "It is not possible that different slaves get the same config epoch during
\* a failover election" (cluster.c:998) has a price.  When two slaves win one
\* epoch, a voter both have counted forgot its vote of that epoch in a restart
\* (clusterSendFailoverAuthIfNeeded does not save it), and these voters, the
\* late votes of earlier attempts that clusterProcessPacket counts while an
\* attempt is only scheduled, and the votes of promoted slaves make up together
\* what two majorities of the masters have in common.
TwoWinnersCost ==
  \A w, x \in won : w.slave # x.slave /\ w.epoch = x.epoch =>
    /\ \A n \in w.from \cap x.from : <<n, w.epoch>> \in forgot
    /\ 2 * (N \div 2 + 1) <= N + Cardinality(w.from \cap x.from) + w.late + x.late
                               + Cardinality((w.from \cup x.from) \ Master)
=============================================================================
