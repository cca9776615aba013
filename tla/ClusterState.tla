---------------------------- MODULE ClusterState ----------------------------
(* The cluster table of one Redis Cluster node (struct clusterState of       *)
(* redis-3.0.3/src/cluster.h) and the functions of cluster.c that change it, *)
(* as operators on a record: each takes the table of the node called         *)
(* v.myself and returns the table afterwards.  The modules about elections,  *)
(* configuration, failure detection and resharding share them.               *)
(*                                                                           *)
(* A node's slots bitmap and its numslots are read off the slots table: the  *)
(* code changes the three together in clusterAddSlot and clusterDelSlot.     *)
(* Config saving and the todo_before_sleep flags are not part of the table.  *)
EXTENDS Integers, FiniteSets

CONSTANTS Node,   \* node IDs, integers: memcmp of the names is <
          Slot,   \* hash slots, integers
          Null    \* the NULL pointer

MaxOf(S) == CHOOSE x \in S : \A y \in S : y <= x

nodeIsMaster(v, n) == v.role[n] = "master"
nodeFailed(v, n) == v.fail[n] = "fail"
SlotsOf(v, n) == {j \in Slot : v.slots[j] = n}

Table == [myself : Node, nodes : SUBSET Node, currentEpoch : Nat,
          configEpoch : [Node -> Nat], role : [Node -> {"master", "slave"}],
          slaveof : [Node -> Node \cup {Null}], slaves : [Node -> SUBSET Node],
          slots : [Slot -> Node \cup {Null}],
          importing : [Slot -> Node \cup {Null}], migrating : [Slot -> Node \cup {Null}],
          fail : [Node -> {"ok", "pfail", "fail"}], keys : SUBSET Slot,
          size : Nat, state : {"ok", "fail"}]

-----------------------------------------------------------------------------
(* Slots *)

clusterDelNodeSlots(v, n) ==
  [v EXCEPT !.slots = [j \in Slot |-> IF @[j] = n THEN Null ELSE @[j]]]

clusterCloseAllSlots(v) ==
  [v EXCEPT !.migrating = [j \in Slot |-> Null], !.importing = [j \in Slot |-> Null]]

-----------------------------------------------------------------------------
(* Masters and slaves *)

clusterNodeRemoveSlave(v, master, slave) ==
  [v EXCEPT !.slaves[master] = @ \ {slave}]

clusterNodeAddSlave(v, master, slave) ==
  [v EXCEPT !.slaves[master] = @ \cup {slave}]

\* The slave leaves the list of the master it had, if it had one.
LeaveMaster(v, n) ==
  IF v.slaveof[n] = Null THEN v ELSE clusterNodeRemoveSlave(v, v.slaveof[n], n)

clusterSetNodeAsMaster(v, n) ==
  IF nodeIsMaster(v, n) THEN v
  ELSE [LeaveMaster(v, n) EXCEPT !.role[n] = "master", !.slaveof[n] = Null]

\* replicationSetMaster empties the data set only after the sync; the keys of
\* a slave are its master's, so none of them is counted as the slave's own.
clusterSetMaster(v, n) ==
  LET me == v.myself
      w  == IF nodeIsMaster(v, me)
            THEN clusterCloseAllSlots([v EXCEPT !.role[me] = "slave"])
            ELSE LeaveMaster(v, me)
  IN  clusterNodeAddSlave([w EXCEPT !.slaveof[me] = n], n, me)

-----------------------------------------------------------------------------
(* Config epochs *)

clusterGetMaxEpoch(v) ==
  MaxOf({v.configEpoch[n] : n \in v.nodes} \cup {v.currentEpoch})

NextConfigEpoch(v) ==
  [v EXCEPT !.currentEpoch = @ + 1, !.configEpoch[v.myself] = v.currentEpoch + 1]

clusterBumpConfigEpochWithoutConsensus(v) ==
  IF v.configEpoch[v.myself] = 0 \/ v.configEpoch[v.myself] # clusterGetMaxEpoch(v)
  THEN NextConfigEpoch(v) ELSE v

clusterHandleConfigEpochCollision(v, sender) ==
  IF /\ v.configEpoch[sender] = v.configEpoch[v.myself]
     /\ nodeIsMaster(v, sender) /\ nodeIsMaster(v, v.myself)
     /\ sender > v.myself
  THEN NextConfigEpoch(v) ELSE v

-----------------------------------------------------------------------------
(* The configuration of a master, learnt from PING, PONG and UPDATE *)

\* MUTANT: the last claim heard wins, whatever its epoch.
LastClaimWins(v, sender, epoch, claimed) ==
  {j \in claimed : v.slots[j] # sender /\ v.importing[j] = Null}

\* MUTANT: a slot that is bound is never bound anew.
FirstClaimWins(v, sender, epoch, claimed) ==
  {j \in claimed : v.slots[j] = Null /\ v.importing[j] = Null}

\* The slots a claim takes: bound to someone older or to no one, not importing.
SlotsTaken(v, sender, epoch, claimed) ==
  {j \in claimed : /\ v.slots[j] # sender
                   /\ v.importing[j] = Null
                   /\ v.slots[j] # Null => v.configEpoch[v.slots[j]] < epoch}

clusterUpdateSlotsConfigWith(v, sender, epoch, claimed) ==
  LET taken == SlotsTaken(v, sender, epoch, claimed)
      me    == v.myself
      cur   == IF nodeIsMaster(v, me) THEN me ELSE v.slaveof[me]
      dirty == {j \in taken : v.slots[j] = me /\ j \in v.keys}
      w     == [v EXCEPT !.slots = [j \in Slot |-> IF j \in taken THEN sender ELSE @[j]]]
  IN  IF sender = me THEN v
      ELSE IF (\E j \in taken : v.slots[j] = cur) /\ SlotsOf(w, cur) = {}
           THEN clusterSetMaster(w, sender)
           ELSE [w EXCEPT !.keys = @ \ dirty]

-----------------------------------------------------------------------------
(* Messages *)

\* The part of the header that carries configuration.  A slave speaks for its
\* master: the slots and the config epoch are the master's.
clusterBuildMessageHdr(v, type) ==
  LET me     == v.myself
      master == IF ~nodeIsMaster(v, me) /\ v.slaveof[me] # Null THEN v.slaveof[me] ELSE me
  IN  [type |-> type, sender |-> me, slaveof |-> v.slaveof[me],
       myslots |-> SlotsOf(v, master), currentEpoch |-> v.currentEpoch,
       configEpoch |-> v.configEpoch[master]]

\* Every packet of a known sender first raises the epochs.
LearnEpochs(v, hdr) ==
  IF hdr.sender \in v.nodes
  THEN [v EXCEPT !.currentEpoch = IF hdr.currentEpoch > @ THEN hdr.currentEpoch ELSE @,
                 !.configEpoch[hdr.sender] =
                    IF hdr.configEpoch > @ THEN hdr.configEpoch ELSE @]
  ELSE v

\* MUTANT: the slots of a master that turned into a slave stay bound to it.
RoleSwitchKeepsSlots(v, hdr) ==
  LET s == hdr.sender
  IN  IF hdr.slaveof = Null THEN clusterSetNodeAsMaster(v, s)
      ELSE LET w == [v EXCEPT !.role[s] = "slave"]
           IN  IF hdr.slaveof \in v.nodes /\ w.slaveof[s] # hdr.slaveof
               THEN [clusterNodeAddSlave(LeaveMaster(w, s), hdr.slaveof, s)
                       EXCEPT !.slaveof[s] = hdr.slaveof]
               ELSE w

\* Slave to master or master to slave, as the header says.
RoleSwitch(v, hdr) ==
  LET s == hdr.sender
  IN  IF hdr.slaveof = Null THEN clusterSetNodeAsMaster(v, s)
      ELSE LET w == IF nodeIsMaster(v, s)
                    THEN [clusterDelNodeSlots(v, s)
                            EXCEPT !.role[s] = "slave", !.slaves[s] = {}]
                    ELSE v
           IN  IF hdr.slaveof \in v.nodes /\ w.slaveof[s] # hdr.slaveof
               THEN [clusterNodeAddSlave(LeaveMaster(w, s), hdr.slaveof, s)
                       EXCEPT !.slaveof[s] = hdr.slaveof]
               ELSE w

\* What the sender, or its master, is bound to differs from what it claims.
DirtySlots(v, hdr) ==
  LET m == IF nodeIsMaster(v, hdr.sender) THEN hdr.sender ELSE v.slaveof[hdr.sender]
  IN  m # Null /\ SlotsOf(v, m) # hdr.myslots

\* The claimed slots that a master with a greater config epoch serves.
OutdatedSlots(v, hdr) ==
  {j \in hdr.myslots : /\ v.slots[j] \notin {hdr.sender, Null}
                       /\ v.configEpoch[v.slots[j]] > hdr.configEpoch}

\* A header with the configuration of node n in its body.
clusterSendUpdate(v, n) ==
  [hdr |-> clusterBuildMessageHdr(v, "update"), about |-> n,
   aboutEpoch |-> v.configEpoch[n], aboutSlots |-> SlotsOf(v, n)]
=============================================================================
