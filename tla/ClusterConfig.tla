---------------------------- MODULE ClusterConfig ----------------------------
(* How the nodes of a Redis Cluster come to agree on who serves which slot:  *)
(* the PING, PONG and UPDATE part of clusterProcessPacket, the resolution of *)
(* config epoch collisions, and failovers that move slots while old headers  *)
(* are still on their way.  Every node has its own table (ClusterState).     *)
(*                                                                           *)
(* An election is one step here (ClusterElection takes it apart); a takeover *)
(* (CLUSTER FAILOVER TAKEOVER) makes an epoch without asking anyone, so two  *)
(* nodes may hold the same one.                                              *)
EXTENDS ClusterState, TLC

CONSTANTS Master,       \* the nodes that start as masters, one slot each
          MasterOf,     \* [Node \ Master -> Master]
          SlotOf,       \* [Master -> Slot]
          MaxFailovers, \* bound on elections and takeovers
          MaxPackets    \* bound on the PINGs and PONGs on their way

ASSUME ConfigAssumption ==
  /\ Node \subseteq Int /\ Slot \subseteq Int /\ Null \notin Node
  /\ Master \subseteq Node /\ MasterOf \in [Node \ Master -> Master]
  /\ SlotOf \in [Master -> Slot]
  /\ MaxFailovers \in Nat

VARIABLES
  st,         \* [Node -> Table]: the table of each node
  wire,       \* [Node \X Node -> packet or Null]: the PING or its PONG
  update,     \* [Node \X Node -> packet or Null]: an UPDATE on its way
  failovers   \* how many elections and takeovers there were

vars == <<st, wire, update, failovers>>

Slave == Node \ Master
Link == {l \in Node \X Node : l[1] # l[2]}

\* After CLUSTER ADDSLOTS on every master, CLUSTER MEET, and CLUSTER REPLICATE
\* on every slave: each knows its own slots and role, and all epochs are 0.
clusterInit(n) ==
  [myself |-> n, nodes |-> Node, currentEpoch |-> 0,
   configEpoch |-> [m \in Node |-> 0],
   role |-> [m \in Node |-> IF m = n /\ n \in Slave THEN "slave" ELSE "master"],
   slaveof |-> [m \in Node |-> IF m = n /\ n \in Slave THEN MasterOf[n] ELSE Null],
   slaves |-> [m \in Node |-> IF n \in Slave /\ MasterOf[n] = m THEN {n} ELSE {}],
   slots |-> [j \in Slot |-> IF n \in Master /\ SlotOf[n] = j THEN n ELSE Null],
   importing |-> [j \in Slot |-> Null], migrating |-> [j \in Slot |-> Null],
   fail |-> [m \in Node |-> "ok"],
   keys |-> IF n \in Master THEN {SlotOf[n]} ELSE {},
   size |-> 1, state |-> "fail"]

Init == /\ st = [n \in Node |-> clusterInit(n)]
        /\ wire = [l \in Link |-> Null]
        /\ update = [l \in Link |-> Null]
        /\ failovers = 0

-----------------------------------------------------------------------------
\* clusterSendPing: no second PING to a node while one is not answered.
Ping(n, m) ==
  /\ <<n, m>> \in Link /\ wire[<<n, m>>] = Null
  /\ Cardinality({l \in Link : wire[l] # Null}) < MaxPackets
  /\ wire' = [wire EXCEPT ![<<n, m>>] = clusterBuildMessageHdr(st[n], "ping")]
  /\ UNCHANGED <<st, update, failovers>>

\* The claim of a PING or PONG applied: epochs, role, then slots.
LearnRole(v, hdr) == RoleSwitch(LearnEpochs(v, hdr), hdr)

LearnClaim(v, hdr) ==
  LET w == LearnRole(v, hdr)
  IN  IF nodeIsMaster(w, hdr.sender) /\ DirtySlots(w, hdr)
      THEN clusterUpdateSlotsConfigWith(w, hdr.sender, hdr.configEpoch, hdr.myslots)
      ELSE w

LearnConfig(v, hdr) ==
  LET w == LearnClaim(v, hdr)
  IN  IF nodeIsMaster(w, hdr.sender) /\ hdr.configEpoch = w.configEpoch[w.myself]
      THEN clusterHandleConfigEpochCollision(w, hdr.sender) ELSE w

\* The slots the sender claims that are bound to a newer owner.
Outdated(v, hdr) ==
  IF DirtySlots(LearnRole(v, hdr), hdr) THEN OutdatedSlots(LearnClaim(v, hdr), hdr) ELSE {}

\* The sender is told about the owner of the first such slot.  The packet is
\* lost when one is still on its way on the same link.
Tell(v, hdr, l) ==
  LET late == Outdated(v, hdr)
      w    == LearnClaim(v, hdr)
  IN  IF late = {} \/ update[l] # Null THEN UNCHANGED update
      ELSE \E first \in late :
             /\ \A j \in late : first <= j
             /\ update' = [update EXCEPT ![l] = clusterSendUpdate(w, w.slots[first])]

\* The receiver answers a PING with a PONG before it reads the configuration.
ReceivePing(n, m) ==
  LET l == <<n, m>> IN
  /\ l \in Link /\ wire[l] # Null /\ wire[l].type = "ping"
  /\ st' = [st EXCEPT ![m] = LearnConfig(@, wire[l])]
  /\ wire' = [wire EXCEPT ![l] =
                clusterBuildMessageHdr(LearnEpochs(st[m], wire[l]), "pong")]
  /\ Tell(st[m], wire[l], <<m, n>>)
  /\ UNCHANGED failovers

ReceivePong(n, m) ==
  LET l == <<n, m>> IN
  /\ l \in Link /\ wire[l] # Null /\ wire[l].type = "pong"
  /\ st' = [st EXCEPT ![n] = LearnConfig(@, wire[l])]
  /\ wire' = [wire EXCEPT ![l] = Null]
  /\ Tell(st[n], wire[l], l)
  /\ UNCHANGED failovers

\* An UPDATE about a node whose config epoch we know is discarded.
LearnUpdate(v, msg) ==
  LET v1 == LearnEpochs(v, msg.hdr)
      v2 == [clusterSetNodeAsMaster(v1, msg.about)
               EXCEPT !.configEpoch[msg.about] = msg.aboutEpoch]
  IN  IF v1.configEpoch[msg.about] >= msg.aboutEpoch THEN v1
      ELSE clusterUpdateSlotsConfigWith(v2, msg.about, msg.aboutEpoch, msg.aboutSlots)

ReceiveUpdate(n, m) ==
  LET l == <<n, m>> IN
  /\ l \in Link /\ update[l] # Null
  /\ st' = [st EXCEPT ![m] = LearnUpdate(@, update[l])]
  /\ update' = [update EXCEPT ![l] = Null]
  /\ UNCHANGED <<wire, failovers>>

-----------------------------------------------------------------------------
\* The slave turns master and claims its master's slots.  The PONGs it
\* broadcasts are the PINGs it sends next, which carry the same header.
clusterFailoverReplaceYourMaster(v) ==
  LET me  == v.myself
      old == v.slaveof[me]
      w   == clusterSetNodeAsMaster(v, me)
  IN  IF nodeIsMaster(v, me) \/ old = Null THEN v
      ELSE [w EXCEPT !.slots = [j \in Slot |-> IF v.slots[j] = old THEN me ELSE @[j]],
                     !.keys = SlotsOf(v, old)]

\* Voters are the masters that serve a slot in their own table.
Voter(n) == nodeIsMaster(st[n], n) /\ SlotsOf(st[n], n) # {}

\* An election won in one step: a majority whose epoch is not past the new
\* one, and which knows no newer owner of the slots, takes the epoch over.
Elect(s, Q) ==
  LET v == st[s]
      e == v.currentEpoch + 1
      m == v.slaveof[s]
      voters == {n \in Node : Voter(n)}
  IN
  /\ failovers < MaxFailovers
  /\ ~nodeIsMaster(v, s) /\ m # Null /\ SlotsOf(v, m) # {}
  /\ Q \subseteq voters /\ 2 * Cardinality(Q) > Cardinality(voters)
  /\ \A q \in Q : /\ st[q].currentEpoch < e
                  /\ \A j \in SlotsOf(v, m) :
                       st[q].slots[j] # Null =>
                         st[q].configEpoch[st[q].slots[j]] <= v.configEpoch[m]
  /\ st' = [n \in Node |->
              IF n = s THEN clusterFailoverReplaceYourMaster(
                              [v EXCEPT !.currentEpoch = e, !.configEpoch[s] = e])
              ELSE IF n \in Q THEN [st[n] EXCEPT !.currentEpoch = e]
              ELSE st[n]]
  /\ failovers' = failovers + 1
  /\ UNCHANGED <<wire, update>>

\* CLUSTER FAILOVER TAKEOVER: a new epoch without consensus.
Takeover(s) ==
  /\ failovers < MaxFailovers
  /\ ~nodeIsMaster(st[s], s) /\ st[s].slaveof[s] # Null
  /\ st' = [st EXCEPT ![s] = clusterFailoverReplaceYourMaster(
                               clusterBumpConfigEpochWithoutConsensus(@))]
  /\ failovers' = failovers + 1
  /\ UNCHANGED <<wire, update>>

Next == \/ \E n, m \in Node : Ping(n, m)
        \/ \E n, m \in Node : ReceivePing(n, m)
        \/ \E n, m \in Node : ReceivePong(n, m)
        \/ \E n, m \in Node : ReceiveUpdate(n, m)
        \/ \E s \in Node, Q \in SUBSET Node : Elect(s, Q)
        \/ \E s \in Node : Takeover(s)

Spec == Init /\ [][Next]_vars

\* clusterCron pings every node again and again; the links are TCP connections
\* that are re-opened when they break, so a packet sent again arrives.
FairSpec ==
  /\ Spec
  /\ \A n, m \in Node : /\ SF_vars(Ping(n, m))
                        /\ WF_vars(ReceivePing(n, m))
                        /\ WF_vars(ReceivePong(n, m))
                        /\ WF_vars(ReceiveUpdate(n, m))

-----------------------------------------------------------------------------
(* Properties *)

\* Type correctness of the tables.
TypeOK == /\ \A n \in Node : st[n] \in Table
          /\ failovers \in 0..MaxFailovers

\* In every table a slot belongs to a node flagged as master, so the node
\* itself has no slots when clusterSetMaster asserts it (cluster.c:3571), and
\* the list of slaves of a node holds only nodes that point back to it: the
\* pointers a node leaves behind are followed on a vote and on a free.
RolesAgree ==
  \A n \in Node :
    /\ \A j \in Slot : st[n].slots[j] # Null => nodeIsMaster(st[n], st[n].slots[j])
    /\ \A x \in Node : \A s \in st[n].slaves[x] : st[n].slaveof[s] = x

\* In every table the epoch of a slot's owner only grows while the slot is
\* bound: an old header never takes a slot back from a newer owner.
OwnerEpochGrows ==
  [][\A n \in Node : \A j \in Slot :
       st[n].slots[j] # Null /\ st'[n].slots[j] # Null =>
         st[n].configEpoch[st[n].slots[j]] <= st'[n].configEpoch[st'[n].slots[j]]]_vars

Masters == {n \in Node : nodeIsMaster(st[n], n)}

\* "In general we want a system that eventually always ends with different
\* masters having different configuration epochs" (cluster.c:1023).
EpochsBecomeDistinct ==
  <>[](\A m, n \in Masters : m # n =>
         st[m].configEpoch[m] # st[n].configEpoch[n])

\* All tables eventually agree on the owner of every slot, who is a master in
\* its own table too, whatever failovers and takeovers there were.
Converges ==
  <>[](\A j \in Slot : \E o \in Masters : \A n \in Node : st[n].slots[j] = o)
=============================================================================
