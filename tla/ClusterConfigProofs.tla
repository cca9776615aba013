------------------------- MODULE ClusterConfigProofs -------------------------
(* Theorems about ClusterConfig, for any number of nodes and slots, any       *)
(* number of packets on their way and any number of failovers.                *)
(*                                                                            *)
(* The lemmas of the first part are about the operators of ClusterState: what *)
(* each does to the roles, the slots and the epochs of a table.               *)
EXTENDS ClusterConfig, TLAPS

\* The roles of a table agree: a master follows nobody, a slot belongs to a
\* master, and who is in a list of slaves points back.
Consistent(role, slaveof, slaves, slots) ==
  /\ \A x \in Node : role[x] = "master" => slaveof[x] = Null
  /\ \A j \in Slot : slots[j] # Null => role[slots[j]] = "master"
  /\ \A x \in Node : \A s \in slaves[x] : slaveof[s] = x

RolesSound(v) ==
  v \in Table /\ v.nodes = Node /\ Consistent(v.role, v.slaveof, v.slaves, v.slots)

EpochsSound(v) == \A x \in Node : v.configEpoch[x] <= v.currentEpoch

\* Two tables of one node with the same epochs.
SameEpochs(v, w) ==
  w.myself = v.myself /\ w.currentEpoch = v.currentEpoch /\ w.configEpoch = v.configEpoch

\* What a table is made of.
LEMMA Fields ==
  ASSUME NEW v \in Table
  PROVE  /\ v.myself \in Node /\ v.nodes \in SUBSET Node
         /\ v.currentEpoch \in Nat /\ v.configEpoch \in [Node -> Nat]
         /\ v.role \in [Node -> {"master", "slave"}]
         /\ v.slaveof \in [Node -> Node \cup {Null}]
         /\ v.slaves \in [Node -> SUBSET Node]
         /\ v.slots \in [Slot -> Node \cup {Null}]
         /\ v.keys \in SUBSET Slot
BY DEF Table

\* The NULL pointer is not a node.
LEMMA NullFact == Null \notin Node
BY ConfigAssumption

\* Whoever is not a master is a slave.
LEMMA SlaveRole ==
  ASSUME NEW v \in Table, NEW n \in Node, ~nodeIsMaster(v, n)
  PROVE  v.role[n] = "slave"
<1>1. v.role \in [Node -> {"master", "slave"}] BY Fields
<1> QED BY <1>1 DEF nodeIsMaster

\* The members of a list of slaves are nodes.
LEMMA SlavesAreNodes ==
  ASSUME NEW v \in Table, NEW x \in Node, NEW s \in v.slaves[x]
  PROVE  s \in Node
<1>1. v.slaves \in [Node -> SUBSET Node] BY Fields
<1> QED BY <1>1

-----------------------------------------------------------------------------
(* Masters and slaves *)

\* A node is taken off a list of slaves, or put on one.
LEMMA RemoveSlaveFields ==
  ASSUME NEW v \in Table, NEW m \in Node, NEW n \in Node
  PROVE  /\ clusterNodeRemoveSlave(v, m, n) \in Table
         /\ clusterNodeRemoveSlave(v, m, n).nodes = v.nodes
         /\ SameEpochs(v, clusterNodeRemoveSlave(v, m, n))
         /\ clusterNodeRemoveSlave(v, m, n).role = v.role
         /\ clusterNodeRemoveSlave(v, m, n).slaveof = v.slaveof
         /\ clusterNodeRemoveSlave(v, m, n).slots = v.slots
         /\ clusterNodeRemoveSlave(v, m, n).slaves = [v.slaves EXCEPT ![m] = @ \ {n}]
<1>1. clusterNodeRemoveSlave(v, m, n) \in Table BY DEF clusterNodeRemoveSlave, Table
<1>2. /\ clusterNodeRemoveSlave(v, m, n).nodes = v.nodes
      /\ SameEpochs(v, clusterNodeRemoveSlave(v, m, n))
  BY DEF clusterNodeRemoveSlave, Table, SameEpochs
<1>3. /\ clusterNodeRemoveSlave(v, m, n).role = v.role
      /\ clusterNodeRemoveSlave(v, m, n).slaveof = v.slaveof
      /\ clusterNodeRemoveSlave(v, m, n).slots = v.slots
      /\ clusterNodeRemoveSlave(v, m, n).slaves = [v.slaves EXCEPT ![m] = @ \ {n}]
  BY DEF clusterNodeRemoveSlave, Table
<1> QED BY <1>1, <1>2, <1>3

LEMMA AddSlaveFields ==
  ASSUME NEW v \in Table, NEW m \in Node, NEW n \in Node
  PROVE  /\ clusterNodeAddSlave(v, m, n) \in Table
         /\ clusterNodeAddSlave(v, m, n).nodes = v.nodes
         /\ SameEpochs(v, clusterNodeAddSlave(v, m, n))
         /\ clusterNodeAddSlave(v, m, n).role = v.role
         /\ clusterNodeAddSlave(v, m, n).slaveof = v.slaveof
         /\ clusterNodeAddSlave(v, m, n).slots = v.slots
         /\ clusterNodeAddSlave(v, m, n).slaves = [v.slaves EXCEPT ![m] = @ \cup {n}]
<1>1. clusterNodeAddSlave(v, m, n) \in Table BY DEF clusterNodeAddSlave, Table
<1>2. /\ clusterNodeAddSlave(v, m, n).nodes = v.nodes
      /\ SameEpochs(v, clusterNodeAddSlave(v, m, n))
  BY DEF clusterNodeAddSlave, Table, SameEpochs
<1>3. /\ clusterNodeAddSlave(v, m, n).role = v.role
      /\ clusterNodeAddSlave(v, m, n).slaveof = v.slaveof
      /\ clusterNodeAddSlave(v, m, n).slots = v.slots
      /\ clusterNodeAddSlave(v, m, n).slaves = [v.slaves EXCEPT ![m] = @ \cup {n}]
  BY DEF clusterNodeAddSlave, Table
<1> QED BY <1>1, <1>2, <1>3

\* The records the operators below are made of.
Promoted(v, n) == [v EXCEPT !.role[n] = "master", !.slaveof[n] = Null]
Demoted(v, n) == clusterCloseAllSlots([v EXCEPT !.role[n] = "slave"])
WithMaster(v, n, m) == [v EXCEPT !.slaveof[n] = m]

LEMMA PromotedFields ==
  ASSUME NEW v \in Table, NEW n \in Node
  PROVE  /\ Promoted(v, n) \in Table
         /\ Promoted(v, n).nodes = v.nodes
         /\ SameEpochs(v, Promoted(v, n))
         /\ Promoted(v, n).role = [v.role EXCEPT ![n] = "master"]
         /\ Promoted(v, n).slaveof = [v.slaveof EXCEPT ![n] = Null]
         /\ Promoted(v, n).slots = v.slots
         /\ Promoted(v, n).slaves = v.slaves
<1>1. Promoted(v, n) \in Table BY DEF Promoted, Table
<1>2. Promoted(v, n).nodes = v.nodes /\ SameEpochs(v, Promoted(v, n))
  BY DEF Promoted, Table, SameEpochs
<1>3. /\ Promoted(v, n).role = [v.role EXCEPT ![n] = "master"]
      /\ Promoted(v, n).slaveof = [v.slaveof EXCEPT ![n] = Null]
      /\ Promoted(v, n).slots = v.slots
      /\ Promoted(v, n).slaves = v.slaves
  BY DEF Promoted, Table
<1> QED BY <1>1, <1>2, <1>3

LEMMA DemotedFields ==
  ASSUME NEW v \in Table, NEW n \in Node
  PROVE  /\ Demoted(v, n) \in Table
         /\ Demoted(v, n).nodes = v.nodes
         /\ SameEpochs(v, Demoted(v, n))
         /\ Demoted(v, n).role = [v.role EXCEPT ![n] = "slave"]
         /\ Demoted(v, n).slaveof = v.slaveof
         /\ Demoted(v, n).slots = v.slots
         /\ Demoted(v, n).slaves = v.slaves
<1>1. Demoted(v, n) \in Table BY DEF Demoted, clusterCloseAllSlots, Table
<1>2. Demoted(v, n).nodes = v.nodes /\ SameEpochs(v, Demoted(v, n))
  BY DEF Demoted, clusterCloseAllSlots, Table, SameEpochs
<1>3. /\ Demoted(v, n).role = [v.role EXCEPT ![n] = "slave"]
      /\ Demoted(v, n).slaveof = v.slaveof
      /\ Demoted(v, n).slots = v.slots
      /\ Demoted(v, n).slaves = v.slaves
  BY DEF Demoted, clusterCloseAllSlots, Table
<1> QED BY <1>1, <1>2, <1>3

LEMMA WithMasterFields ==
  ASSUME NEW v \in Table, NEW n \in Node, NEW m \in Node \cup {Null}
  PROVE  /\ WithMaster(v, n, m) \in Table
         /\ WithMaster(v, n, m).nodes = v.nodes
         /\ SameEpochs(v, WithMaster(v, n, m))
         /\ WithMaster(v, n, m).role = v.role
         /\ WithMaster(v, n, m).slaveof = [v.slaveof EXCEPT ![n] = m]
         /\ WithMaster(v, n, m).slots = v.slots
         /\ WithMaster(v, n, m).slaves = v.slaves
<1>1. WithMaster(v, n, m) \in Table BY DEF WithMaster, Table
<1>2. WithMaster(v, n, m).nodes = v.nodes /\ SameEpochs(v, WithMaster(v, n, m))
  BY DEF WithMaster, Table, SameEpochs
<1>3. /\ WithMaster(v, n, m).role = v.role
      /\ WithMaster(v, n, m).slaveof = [v.slaveof EXCEPT ![n] = m]
      /\ WithMaster(v, n, m).slots = v.slots
      /\ WithMaster(v, n, m).slaves = v.slaves
  BY DEF WithMaster, Table
<1> QED BY <1>1, <1>2, <1>3

\* Leaving a master changes one list of slaves.
LEMMA LeaveMasterFields ==
  ASSUME NEW v \in Table, NEW n \in Node, NEW w, w = LeaveMaster(v, n)
  PROVE  /\ w \in Table /\ w.nodes = v.nodes /\ SameEpochs(v, w)
         /\ w.role = v.role /\ w.slaveof = v.slaveof /\ w.slots = v.slots
         /\ w.slaves = [x \in Node |-> IF x = v.slaveof[n] THEN v.slaves[x] \ {n}
                                       ELSE v.slaves[x]]
<1>1. CASE v.slaveof[n] = Null
  <2>1. w = v BY <1>1 DEF LeaveMaster
  <2>2. v.slaves \in [Node -> SUBSET Node] BY Fields
  <2> QED BY <1>1, <2>1, <2>2, NullFact DEF SameEpochs
<1>2. CASE v.slaveof[n] # Null
  <2>1. w = clusterNodeRemoveSlave(v, v.slaveof[n], n) BY <1>2 DEF LeaveMaster
  <2>2. v.slaveof[n] \in Node BY <1>2, Fields
  <2>3. v.slaves \in [Node -> SUBSET Node] BY Fields
  <2>4. [v.slaves EXCEPT ![v.slaveof[n]] = @ \ {n}]
        = [x \in Node |-> IF x = v.slaveof[n] THEN v.slaves[x] \ {n} ELSE v.slaves[x]]
    BY <2>2, <2>3
  <2> QED BY <2>1, <2>2, <2>4, RemoveSlaveFields
<1> QED BY <1>1, <1>2

\* A node that turns master keeps the slots of all and follows nobody.
LEMMA SetNodeAsMasterSound ==
  ASSUME NEW v, RolesSound(v), NEW n \in Node, NEW w, w = clusterSetNodeAsMaster(v, n)
  PROVE  /\ RolesSound(w) /\ SameEpochs(v, w) /\ w.slots = v.slots
         /\ nodeIsMaster(w, n)
         /\ \A x \in Node : nodeIsMaster(v, x) => nodeIsMaster(w, x)
<1>0. v \in Table /\ v.nodes = Node /\ Consistent(v.role, v.slaveof, v.slaves, v.slots)
  BY DEF RolesSound
<1>1. CASE nodeIsMaster(v, n)
  BY <1>1 DEF clusterSetNodeAsMaster, SameEpochs
<1>2. CASE ~nodeIsMaster(v, n)
  <2>0. PICK u : u = LeaveMaster(v, n) OBVIOUS
  <2>1. /\ u \in Table /\ u.nodes = v.nodes /\ SameEpochs(v, u)
        /\ u.role = v.role /\ u.slaveof = v.slaveof /\ u.slots = v.slots
        /\ u.slaves = [x \in Node |-> IF x = v.slaveof[n] THEN v.slaves[x] \ {n}
                                      ELSE v.slaves[x]]
    BY <1>0, <2>0, LeaveMasterFields
  <2>2. w = Promoted(u, n) BY <1>2, <2>0 DEF clusterSetNodeAsMaster, Promoted
  <2>3. w \in Table BY <2>1, <2>2, PromotedFields
  <2>4. /\ w.role = [v.role EXCEPT ![n] = "master"] /\ w.slots = v.slots
        /\ w.slaveof = [v.slaveof EXCEPT ![n] = Null] /\ w.slaves = u.slaves
        /\ w.nodes = Node /\ SameEpochs(v, w)
    <3>1. /\ w.role = [u.role EXCEPT ![n] = "master"] /\ w.slots = u.slots
          /\ w.slaveof = [u.slaveof EXCEPT ![n] = Null] /\ w.slaves = u.slaves
          /\ w.nodes = u.nodes /\ SameEpochs(u, w)
      BY <2>1, <2>2, PromotedFields
    <3> QED BY <1>0, <2>1, <3>1 DEF SameEpochs
  <2>5. Consistent(w.role, w.slaveof, w.slaves, w.slots)
    <3>1. \A x \in Node : w.role[x] = "master" => w.slaveof[x] = Null
      BY <1>0, <2>4, Fields DEF Consistent
    <3>2. \A j \in Slot : w.slots[j] # Null => w.role[w.slots[j]] = "master"
      BY <1>0, <2>4, Fields DEF Consistent
    <3>3. ASSUME NEW x \in Node, NEW s \in w.slaves[x] PROVE w.slaveof[s] = x
      <4>1. s \in v.slaves[x] /\ s \in Node BY <1>0, <2>1, <2>4, <3>3, Fields
      <4>2. v.slaveof[s] = x BY <1>0, <4>1 DEF Consistent
      <4>3. s # n BY <2>1, <2>4, <3>3, <4>2
      <4> QED BY <1>0, <2>4, <4>1, <4>2, <4>3, Fields
    <3> QED BY <3>1, <3>2, <3>3 DEF Consistent
  <2>6. \A x \in Node : nodeIsMaster(v, x) => nodeIsMaster(w, x)
    BY <1>0, <2>4, Fields DEF nodeIsMaster
  <2>7. nodeIsMaster(w, n) BY <1>0, <2>4, Fields DEF nodeIsMaster
  <2> QED BY <2>3, <2>4, <2>5, <2>6, <2>7 DEF RolesSound
<1> QED BY <1>1, <1>2

\* A node without slots turns into the slave of another.
LEMMA SetMasterSound ==
  ASSUME NEW v, RolesSound(v), NEW n \in Node, SlotsOf(v, v.myself) = {},
         NEW w, w = clusterSetMaster(v, n)
  PROVE  RolesSound(w) /\ SameEpochs(v, w) /\ w.slots = v.slots
<1>0. v \in Table /\ v.nodes = Node /\ Consistent(v.role, v.slaveof, v.slaves, v.slots)
  BY DEF RolesSound
<1> DEFINE me == v.myself
<1>1. me \in Node BY <1>0, Fields
<1>2. PICK u : u = IF nodeIsMaster(v, me)
                   THEN clusterCloseAllSlots([v EXCEPT !.role[me] = "slave"])
                   ELSE LeaveMaster(v, me)
  OBVIOUS
<1>3. /\ u \in Table /\ u.nodes = v.nodes /\ SameEpochs(v, u)
      /\ u.role = [v.role EXCEPT ![me] = "slave"]
      /\ u.slaveof = v.slaveof /\ u.slots = v.slots
      /\ \A x \in Node : u.slaves[x] \subseteq v.slaves[x] /\ me \notin u.slaves[x]
  <2>1. CASE nodeIsMaster(v, me)
    <3>1. u = Demoted(v, me)
      BY <1>2, <2>1 DEF Demoted
    <3>2. /\ u \in Table /\ u.nodes = v.nodes /\ SameEpochs(v, u)
          /\ u.role = [v.role EXCEPT ![me] = "slave"]
          /\ u.slaveof = v.slaveof /\ u.slots = v.slots /\ u.slaves = v.slaves
      BY <1>0, <1>1, <3>1, DemotedFields
    <3>3. v.slaveof[me] = Null BY <1>0, <1>1, <2>1 DEF Consistent, nodeIsMaster
    <3>4. ASSUME NEW x \in Node PROVE me \notin v.slaves[x]
      BY <1>0, <3>3, NullFact DEF Consistent
    <3> QED BY <3>2, <3>4
  <2>2. CASE ~nodeIsMaster(v, me)
    <3>1. u = LeaveMaster(v, me) BY <1>2, <2>2
    <3>2. /\ u \in Table /\ u.nodes = v.nodes /\ SameEpochs(v, u)
          /\ u.role = v.role /\ u.slaveof = v.slaveof /\ u.slots = v.slots
          /\ u.slaves = [x \in Node |-> IF x = v.slaveof[me] THEN v.slaves[x] \ {me}
                                        ELSE v.slaves[x]]
      BY <1>0, <1>1, <3>1, LeaveMasterFields
    <3>3. v.role[me] = "slave" BY <1>0, <1>1, <2>2, SlaveRole
    <3>4. v.role = [v.role EXCEPT ![me] = "slave"] BY <1>0, <1>1, <3>3, Fields
    <3>5. \A x \in Node : u.slaves[x] \subseteq v.slaves[x] /\ me \notin u.slaves[x]
      BY <1>0, <1>1, <3>2 DEF Consistent
    <3> QED BY <3>2, <3>4, <3>5
  <2> QED BY <2>1, <2>2
<1>4. PICK t : t = WithMaster(u, me, n) OBVIOUS
<1>5. /\ t \in Table /\ t.slaves = u.slaves
      /\ t.nodes = u.nodes /\ SameEpochs(u, t) /\ t.role = u.role /\ t.slots = u.slots
      /\ t.slaveof = [u.slaveof EXCEPT ![me] = n]
  BY <1>1, <1>3, <1>4, WithMasterFields
<1>6. w = clusterNodeAddSlave(t, n, me) BY <1>2, <1>4 DEF clusterSetMaster, WithMaster
<1>7. /\ w \in Table
      /\ w.nodes = t.nodes /\ SameEpochs(t, w) /\ w.role = t.role /\ w.slots = t.slots
      /\ w.slaveof = t.slaveof /\ w.slaves = [t.slaves EXCEPT ![n] = @ \cup {me}]
  BY <1>1, <1>5, <1>6, AddSlaveFields
<1>8. SameEpochs(v, w) /\ w.nodes = Node /\ w.slots = v.slots
  BY <1>0, <1>3, <1>5, <1>7 DEF SameEpochs
<1>9. /\ w.role = [v.role EXCEPT ![me] = "slave"]
      /\ w.slaveof = [v.slaveof EXCEPT ![me] = n]
      /\ w.slaves = [u.slaves EXCEPT ![n] = @ \cup {me}]
  BY <1>3, <1>5, <1>7
<1>10. Consistent(w.role, w.slaveof, w.slaves, w.slots)
  <2>1. ASSUME NEW x \in Node, w.role[x] = "master" PROVE w.slaveof[x] = Null
    <3>1. x # me BY <1>0, <1>1, <1>9, <2>1, Fields
    <3> QED BY <1>0, <1>1, <1>9, <2>1, <3>1, Fields DEF Consistent
  <2>2. ASSUME NEW j \in Slot, w.slots[j] # Null PROVE w.role[w.slots[j]] = "master"
    <3>1. v.slots[j] # Null /\ v.slots[j] # me BY <1>8, <2>2 DEF SlotsOf
    <3>2. v.slots[j] \in Node BY <1>0, <3>1, Fields
    <3>3. v.role[v.slots[j]] = "master" BY <1>0, <3>1 DEF Consistent
    <3> QED BY <1>0, <1>1, <1>8, <1>9, <3>1, <3>2, <3>3, Fields
  <2>3. ASSUME NEW x \in Node, NEW s \in w.slaves[x] PROVE w.slaveof[s] = x
    <3>0. u.slaves \in [Node -> SUBSET Node] BY <1>3, Fields
    <3>1. \/ s = me /\ x = n
          \/ s \in v.slaves[x] /\ s # me
      BY <1>1, <1>3, <1>9, <2>3, <3>0
    <3>2. s \in Node BY <1>0, <1>1, <3>1, Fields
    <3>3. s \in v.slaves[x] => v.slaveof[s] = x BY <1>0 DEF Consistent
    <3> QED BY <1>0, <1>1, <1>9, <3>1, <3>2, <3>3, Fields
  <2> QED BY <2>1, <2>2, <2>3 DEF Consistent
<1> QED BY <1>7, <1>8, <1>10 DEF RolesSound

-----------------------------------------------------------------------------
(* Slots *)

WithSlots(v, f) == [v EXCEPT !.slots = f]
WithoutKeys(v, K) == [v EXCEPT !.keys = @ \ K]
TurnedSlave(v, n) == [clusterDelNodeSlots(v, n) EXCEPT !.role[n] = "slave", !.slaves[n] = {}]

LEMMA WithSlotsFields ==
  ASSUME NEW v \in Table, NEW f \in [Slot -> Node \cup {Null}]
  PROVE  /\ WithSlots(v, f) \in Table
         /\ WithSlots(v, f).nodes = v.nodes
         /\ SameEpochs(v, WithSlots(v, f))
         /\ WithSlots(v, f).role = v.role
         /\ WithSlots(v, f).slaveof = v.slaveof
         /\ WithSlots(v, f).slots = f
         /\ WithSlots(v, f).slaves = v.slaves
<1>1. WithSlots(v, f) \in Table BY DEF WithSlots, Table
<1>2. WithSlots(v, f).nodes = v.nodes /\ SameEpochs(v, WithSlots(v, f))
  BY DEF WithSlots, Table, SameEpochs
<1>3. /\ WithSlots(v, f).role = v.role
      /\ WithSlots(v, f).slaveof = v.slaveof
      /\ WithSlots(v, f).slots = f
      /\ WithSlots(v, f).slaves = v.slaves
  BY DEF WithSlots, Table
<1> QED BY <1>1, <1>2, <1>3

LEMMA WithoutKeysFields ==
  ASSUME NEW v \in Table, NEW K
  PROVE  /\ WithoutKeys(v, K) \in Table
         /\ WithoutKeys(v, K).nodes = v.nodes
         /\ SameEpochs(v, WithoutKeys(v, K))
         /\ WithoutKeys(v, K).role = v.role
         /\ WithoutKeys(v, K).slaveof = v.slaveof
         /\ WithoutKeys(v, K).slots = v.slots
         /\ WithoutKeys(v, K).slaves = v.slaves
<1>1. WithoutKeys(v, K) \in Table BY DEF WithoutKeys, Table
<1>2. WithoutKeys(v, K).nodes = v.nodes /\ SameEpochs(v, WithoutKeys(v, K))
  BY DEF WithoutKeys, Table, SameEpochs
<1>3. /\ WithoutKeys(v, K).role = v.role
      /\ WithoutKeys(v, K).slaveof = v.slaveof
      /\ WithoutKeys(v, K).slots = v.slots
      /\ WithoutKeys(v, K).slaves = v.slaves
  BY DEF WithoutKeys, Table
<1> QED BY <1>1, <1>2, <1>3

LEMMA TurnedSlaveFields ==
  ASSUME NEW v \in Table, NEW n \in Node
  PROVE  /\ TurnedSlave(v, n) \in Table
         /\ TurnedSlave(v, n).nodes = v.nodes
         /\ SameEpochs(v, TurnedSlave(v, n))
         /\ TurnedSlave(v, n).role = [v.role EXCEPT ![n] = "slave"]
         /\ TurnedSlave(v, n).slaveof = v.slaveof
         /\ TurnedSlave(v, n).slots = [j \in Slot |-> IF v.slots[j] = n THEN Null ELSE v.slots[j]]
         /\ TurnedSlave(v, n).slaves = [v.slaves EXCEPT ![n] = {}]
<1> USE DEF TurnedSlave, clusterDelNodeSlots
<1>1. TurnedSlave(v, n) \in Table BY DEF Table
<1>2. TurnedSlave(v, n).nodes = v.nodes /\ SameEpochs(v, TurnedSlave(v, n))
  BY DEF Table, SameEpochs
<1>3. /\ TurnedSlave(v, n).role = [v.role EXCEPT ![n] = "slave"]
      /\ TurnedSlave(v, n).slaveof = v.slaveof
  BY DEF Table
<1>4. TurnedSlave(v, n).slots = [j \in Slot |-> IF v.slots[j] = n THEN Null ELSE v.slots[j]]
  BY DEF Table
<1>5. TurnedSlave(v, n).slaves = [v.slaves EXCEPT ![n] = {}]
  BY DEF Table
<1> QED BY <1>1, <1>2, <1>3, <1>4, <1>5

\* A slot changes hands only for the sender, and from an owner with an older
\* config epoch.
Taken(v, w, sender, epoch) ==
  \A j \in Slot : \/ w.slots[j] = v.slots[j]
                  \/ /\ w.slots[j] = sender
                     /\ v.slots[j] # Null => v.configEpoch[v.slots[j]] < epoch

\* The claim of a master is taken over: the slots, and then maybe the sender as
\* a new master.
LEMMA UpdateSlotsSound ==
  ASSUME NEW v, RolesSound(v), NEW sender \in Node, nodeIsMaster(v, sender),
         NEW epoch \in Nat, NEW claimed \in SUBSET Slot,
         NEW w, w = clusterUpdateSlotsConfigWith(v, sender, epoch, claimed)
  PROVE  RolesSound(w) /\ SameEpochs(v, w) /\ Taken(v, w, sender, epoch)
<1>0. v \in Table /\ v.nodes = Node /\ Consistent(v.role, v.slaveof, v.slaves, v.slots)
  BY DEF RolesSound
<1>1. v.slots \in [Slot -> Node \cup {Null}] /\ v.myself \in Node BY <1>0, Fields
<1>2. PICK taken : taken = SlotsTaken(v, sender, epoch, claimed) OBVIOUS
<1>3. PICK f : f = [j \in Slot |-> IF j \in taken THEN sender ELSE v.slots[j]] OBVIOUS
<1>4. PICK u : u = WithSlots(v, f) OBVIOUS
<1>5. f \in [Slot -> Node \cup {Null}] BY <1>1, <1>3
<1>6. /\ u \in Table /\ u.nodes = v.nodes /\ SameEpochs(v, u) /\ u.role = v.role
      /\ u.slaveof = v.slaveof /\ u.slots = f /\ u.slaves = v.slaves
  BY <1>0, <1>4, <1>5, WithSlotsFields
<1>7. Taken(v, u, sender, epoch)
  BY <1>2, <1>3, <1>6 DEF Taken, SlotsTaken
<1>8. RolesSound(u)
  <2>1. \A j \in Slot : f[j] # Null => v.role[f[j]] = "master"
    BY <1>0, <1>1, <1>3 DEF Consistent, nodeIsMaster
  <2> QED BY <1>0, <1>6, <2>1 DEF Consistent, RolesSound
<1>9. CASE sender = v.myself
  <2>1. w = v BY <1>9 DEF clusterUpdateSlotsConfigWith
  <2> QED BY <2>1 DEF SameEpochs, Taken
<1>10. CASE sender # v.myself
  <2>1. PICK cur : cur = IF nodeIsMaster(v, v.myself) THEN v.myself ELSE v.slaveof[v.myself]
    OBVIOUS
  <2>2. w = IF (\E j \in taken : v.slots[j] = cur) /\ SlotsOf(u, cur) = {}
            THEN clusterSetMaster(u, sender)
            ELSE WithoutKeys(u, {j \in taken : v.slots[j] = v.myself /\ j \in v.keys})
    BY <1>2, <1>3, <1>4, <1>10, <2>1
       DEF clusterUpdateSlotsConfigWith, WithSlots, WithoutKeys
  <2>3. CASE w = clusterSetMaster(u, sender) /\ SlotsOf(u, cur) = {}
    <3>1. SlotsOf(u, u.myself) = {}
      <4>1. u.myself = v.myself BY <1>6 DEF SameEpochs
      <4>2. CASE nodeIsMaster(v, v.myself) BY <2>1, <2>3, <4>1, <4>2
      <4>3. CASE ~nodeIsMaster(v, v.myself)
        <5>1. u.role[u.myself] # "master" BY <1>6, <4>1, <4>3 DEF nodeIsMaster
        <5> QED BY <1>1, <1>8, <4>1, <5>1, NullFact DEF RolesSound, Consistent, SlotsOf
      <4> QED BY <4>2, <4>3
    <3>2. RolesSound(w) /\ SameEpochs(u, w) /\ w.slots = u.slots
      BY <1>8, <2>3, <3>1, SetMasterSound
    <3> QED BY <1>6, <1>7, <3>2 DEF SameEpochs, Taken
  <2>4. CASE w = WithoutKeys(u, {j \in taken : v.slots[j] = v.myself /\ j \in v.keys})
    <3>1. /\ w \in Table /\ w.nodes = u.nodes /\ SameEpochs(u, w) /\ w.role = u.role
          /\ w.slaveof = u.slaveof /\ w.slots = u.slots /\ w.slaves = u.slaves
      BY <1>6, <2>4, WithoutKeysFields
    <3>2. RolesSound(w) BY <1>8, <3>1 DEF RolesSound
    <3> QED BY <1>6, <1>7, <3>1, <3>2 DEF SameEpochs, Taken
  <2> QED BY <2>2, <2>3, <2>4
<1> QED BY <1>9, <1>10

\* A header says that its sender is a master, or whose slave it is: a master
\* keeps what it has, a slave loses its slots.
LEMMA RoleSwitchSound ==
  ASSUME NEW v, RolesSound(v), NEW hdr, hdr.sender \in Node,
         hdr.slaveof \in Node \cup {Null}, NEW w, w = RoleSwitch(v, hdr)
  PROVE  /\ RolesSound(w) /\ SameEpochs(v, w)
         /\ hdr.slaveof = Null => w.slots = v.slots
         /\ hdr.slaveof # Null => ~nodeIsMaster(w, hdr.sender)
         /\ \A j \in Slot : w.slots[j] = v.slots[j] \/ w.slots[j] = Null
<1>0. v \in Table /\ v.nodes = Node /\ Consistent(v.role, v.slaveof, v.slaves, v.slots)
  BY DEF RolesSound
<1> DEFINE s == hdr.sender
           m == hdr.slaveof
<1>1. CASE m = Null
  <2>1. w = clusterSetNodeAsMaster(v, s) BY <1>1 DEF RoleSwitch
  <2> QED BY <1>1, <2>1, SetNodeAsMasterSound
<1>2. CASE m # Null
  <2>0. m \in Node BY <1>2
  <2>1. PICK u : u = IF nodeIsMaster(v, s) THEN TurnedSlave(v, s) ELSE v OBVIOUS
  <2>2. /\ u \in Table /\ u.nodes = Node /\ SameEpochs(v, u)
        /\ u.slaveof = v.slaveof /\ u.role[s] = "slave"
        /\ Consistent(u.role, u.slaveof, u.slaves, u.slots)
        /\ \A j \in Slot : u.slots[j] = v.slots[j] \/ u.slots[j] = Null
    <3>1. CASE nodeIsMaster(v, s)
      <4>1. /\ u \in Table /\ u.nodes = v.nodes /\ SameEpochs(v, u)
            /\ u.role = [v.role EXCEPT ![s] = "slave"] /\ u.slaveof = v.slaveof
            /\ u.slots = [j \in Slot |-> IF v.slots[j] = s THEN Null ELSE v.slots[j]]
            /\ u.slaves = [v.slaves EXCEPT ![s] = {}]
        BY <1>0, <2>1, <3>1, TurnedSlaveFields
      <4>2. /\ v.role \in [Node -> {"master", "slave"}]
            /\ v.slots \in [Slot -> Node \cup {Null}]
            /\ v.slaves \in [Node -> SUBSET Node]
        BY <1>0, Fields
      <4>3. \A x \in Node : u.role[x] = "master" => u.slaveof[x] = Null
        BY <1>0, <4>1, <4>2 DEF Consistent
      <4>4. \A j \in Slot : u.slots[j] # Null => u.role[u.slots[j]] = "master"
        BY <1>0, <4>1, <4>2 DEF Consistent
      <4>5. \A x \in Node : \A y \in u.slaves[x] : u.slaveof[y] = x
        BY <1>0, <4>1, <4>2 DEF Consistent
      <4> QED BY <1>0, <4>1, <4>2, <4>3, <4>4, <4>5 DEF Consistent
    <3>2. CASE ~nodeIsMaster(v, s)
      <4>1. u = v BY <2>1, <3>2
      <4>2. v.role[s] = "slave" BY <1>0, <3>2, SlaveRole
      <4> QED BY <1>0, <4>1, <4>2 DEF SameEpochs
    <3> QED BY <3>1, <3>2
  <2>3. w = IF m \in v.nodes /\ u.slaveof[s] # m
            THEN WithMaster(clusterNodeAddSlave(LeaveMaster(u, s), m, s), s, m) ELSE u
    BY <1>2, <2>1 DEF RoleSwitch, TurnedSlave, WithMaster
  <2>4. CASE w = u
    BY <1>2, <2>2, <2>4 DEF RolesSound, nodeIsMaster
  <2>5. CASE w = WithMaster(clusterNodeAddSlave(LeaveMaster(u, s), m, s), s, m)
    <3>1. PICK a : a = LeaveMaster(u, s) OBVIOUS
    <3>2. PICK b : b = clusterNodeAddSlave(a, m, s) OBVIOUS
    <3>3. /\ a \in Table /\ a.nodes = u.nodes /\ SameEpochs(u, a)
          /\ a.role = u.role /\ a.slaveof = u.slaveof /\ a.slots = u.slots
          /\ a.slaves = [x \in Node |-> IF x = u.slaveof[s] THEN u.slaves[x] \ {s}
                                        ELSE u.slaves[x]]
      BY <2>2, <3>1, LeaveMasterFields
    <3>4. /\ b \in Table /\ b.nodes = a.nodes /\ SameEpochs(a, b)
          /\ b.role = a.role /\ b.slaveof = a.slaveof /\ b.slots = a.slots
          /\ b.slaves = [a.slaves EXCEPT ![m] = @ \cup {s}]
      BY <2>0, <3>2, <3>3, AddSlaveFields
    <3>5. w = WithMaster(b, s, m) BY <2>5, <3>1, <3>2
    <3>6. /\ w \in Table /\ w.nodes = b.nodes /\ SameEpochs(b, w)
          /\ w.role = b.role /\ w.slaveof = [b.slaveof EXCEPT ![s] = m]
          /\ w.slots = b.slots /\ w.slaves = b.slaves
      BY <2>0, <3>4, <3>5, WithMasterFields
    <3>7. /\ w.role = u.role /\ w.slots = u.slots
          /\ w.slaveof = [u.slaveof EXCEPT ![s] = m]
          /\ w.slaves = [a.slaves EXCEPT ![m] = @ \cup {s}]
          /\ w.nodes = Node /\ SameEpochs(v, w)
      BY <2>2, <3>3, <3>4, <3>6 DEF SameEpochs
    <3>8. /\ u.slaveof \in [Node -> Node \cup {Null}] /\ u.slaves \in [Node -> SUBSET Node]
          /\ a.slaves \in [Node -> SUBSET Node]
      BY <2>2, <3>3, Fields
    <3>9. \A x \in Node : w.role[x] = "master" => w.slaveof[x] = Null
      BY <2>2, <3>7, <3>8 DEF Consistent
    <3>10. ASSUME NEW x \in Node, NEW y \in w.slaves[x] PROVE w.slaveof[y] = x
      <4>1. \/ x = m /\ y = s
            \/ y \in a.slaves[x]
        BY <2>0, <3>7, <3>8, <3>10
      <4>2. CASE x = m /\ y = s BY <3>7, <3>8, <4>2
      <4>3. CASE y \in a.slaves[x]
        <5>1. y \in u.slaves[x] /\ y \in Node BY <3>3, <3>8, <4>3
        <5>2. u.slaveof[y] = x BY <2>2, <5>1 DEF Consistent
        <5>3. y # s BY <3>3, <4>3, <5>2
        <5> QED BY <3>7, <3>8, <5>1, <5>2, <5>3
      <4> QED BY <4>1, <4>2, <4>3
    <3>11. Consistent(w.role, w.slaveof, w.slaves, w.slots)
      BY <2>2, <3>7, <3>9, <3>10 DEF Consistent
    <3> QED BY <1>2, <2>2, <3>6, <3>7, <3>11 DEF RolesSound, nodeIsMaster
  <2> QED BY <2>3, <2>4, <2>5
<1> QED BY <1>1, <1>2

-----------------------------------------------------------------------------
(* Config epochs *)

WithEpochs(v, c, n, e) == [v EXCEPT !.currentEpoch = c, !.configEpoch[n] = e]

LEMMA WithEpochsFields ==
  ASSUME NEW v \in Table, NEW c \in Nat, NEW n \in Node, NEW e \in Nat
  PROVE  /\ WithEpochs(v, c, n, e) \in Table
         /\ WithEpochs(v, c, n, e).nodes = v.nodes
         /\ WithEpochs(v, c, n, e).myself = v.myself
         /\ WithEpochs(v, c, n, e).currentEpoch = c
         /\ WithEpochs(v, c, n, e).configEpoch = [v.configEpoch EXCEPT ![n] = e]
         /\ WithEpochs(v, c, n, e).role = v.role
         /\ WithEpochs(v, c, n, e).slaveof = v.slaveof
         /\ WithEpochs(v, c, n, e).slots = v.slots
         /\ WithEpochs(v, c, n, e).slaves = v.slaves
<1>1. WithEpochs(v, c, n, e) \in Table BY DEF WithEpochs, Table
<1>2. /\ WithEpochs(v, c, n, e).nodes = v.nodes
      /\ WithEpochs(v, c, n, e).myself = v.myself
      /\ WithEpochs(v, c, n, e).currentEpoch = c
      /\ WithEpochs(v, c, n, e).configEpoch = [v.configEpoch EXCEPT ![n] = e]
  BY DEF WithEpochs, Table
<1>3. /\ WithEpochs(v, c, n, e).role = v.role
      /\ WithEpochs(v, c, n, e).slaveof = v.slaveof
      /\ WithEpochs(v, c, n, e).slots = v.slots
      /\ WithEpochs(v, c, n, e).slaves = v.slaves
  BY DEF WithEpochs, Table
<1> QED BY <1>1, <1>2, <1>3

\* A table whose roles agree and whose epochs are not past the current one.
Sound(v) == RolesSound(v) /\ EpochsSound(v)

\* The epochs of a table only grow.
Raised(v, w) ==
  /\ w.myself = v.myself /\ v.currentEpoch <= w.currentEpoch
  /\ \A x \in Node : v.configEpoch[x] <= w.configEpoch[x]

\* Nothing else but epochs changes, and these grow.
LEMMA WithEpochsSound ==
  ASSUME NEW v, Sound(v), NEW c \in Nat, NEW n \in Node, NEW e \in Nat,
         v.currentEpoch <= c, v.configEpoch[n] <= e, e <= c,
         NEW w, w = WithEpochs(v, c, n, e)
  PROVE  /\ Sound(w) /\ Raised(v, w) /\ w.slots = v.slots /\ w.role = v.role
         /\ w.slaveof = v.slaveof
         /\ w.configEpoch[n] = e /\ w.currentEpoch = c
<1>0. v \in Table /\ v.nodes = Node /\ Consistent(v.role, v.slaveof, v.slaves, v.slots)
  BY DEF Sound, RolesSound
<1>1. /\ w \in Table /\ w.nodes = v.nodes /\ w.myself = v.myself /\ w.currentEpoch = c
      /\ w.configEpoch = [v.configEpoch EXCEPT ![n] = e] /\ w.role = v.role
      /\ w.slaveof = v.slaveof /\ w.slots = v.slots /\ w.slaves = v.slaves
  BY <1>0, WithEpochsFields
<1>2. v.configEpoch \in [Node -> Nat] /\ v.currentEpoch \in Nat BY <1>0, Fields
<1>3. ASSUME NEW x \in Node
      PROVE  w.configEpoch[x] <= w.currentEpoch /\ v.configEpoch[x] <= w.configEpoch[x]
  <2>1. v.configEpoch[x] \in Nat /\ v.configEpoch[x] <= v.currentEpoch
    BY <1>2 DEF Sound, EpochsSound
  <2>2. CASE x = n BY <1>1, <1>2, <2>1, <2>2
  <2>3. CASE x # n
    <3>1. w.configEpoch[x] = v.configEpoch[x] BY <1>1, <1>2, <2>3
    <3> QED BY <1>1, <1>2, <2>1, <3>1
  <2> QED BY <2>2, <2>3
<1>4. RolesSound(w) BY <1>0, <1>1 DEF RolesSound
<1>5. w.configEpoch[n] = e BY <1>1, <1>2
<1> QED BY <1>1, <1>3, <1>4, <1>5 DEF Sound, EpochsSound, Raised

\* What a change that leaves the epochs alone keeps.
LEMMA SameEpochsSound ==
  ASSUME NEW v, NEW w, EpochsSound(v), v \in Table, SameEpochs(v, w)
  PROVE  EpochsSound(w) /\ Raised(v, w)
<1>1. v.configEpoch \in [Node -> Nat] /\ v.currentEpoch \in Nat BY Fields
<1>2. \A x \in Node : v.configEpoch[x] \in Nat BY <1>1
<1> QED BY <1>1, <1>2 DEF EpochsSound, SameEpochs, Raised

\* Growing twice is growing.
LEMMA RaisedTrans ==
  ASSUME NEW u \in Table, NEW v \in Table, NEW w \in Table, Raised(u, v), Raised(v, w)
  PROVE  Raised(u, w)
<1>1. /\ u.currentEpoch \in Nat /\ v.currentEpoch \in Nat /\ w.currentEpoch \in Nat
      /\ u.configEpoch \in [Node -> Nat] /\ v.configEpoch \in [Node -> Nat]
      /\ w.configEpoch \in [Node -> Nat]
  BY Fields
<1>2. ASSUME NEW x \in Node PROVE u.configEpoch[x] <= w.configEpoch[x]
  <2>1. u.configEpoch[x] \in Nat /\ v.configEpoch[x] \in Nat /\ w.configEpoch[x] \in Nat
    BY <1>1
  <2> QED BY <2>1 DEF Raised
<1> QED BY <1>1, <1>2 DEF Raised

\* A new epoch of its own is the greatest the node knows of.
LEMMA NextConfigEpochSound ==
  ASSUME NEW v, Sound(v), NEW w, w = NextConfigEpoch(v)
  PROVE  /\ Sound(w) /\ Raised(v, w) /\ w.slots = v.slots /\ w.role = v.role
         /\ w.slaveof = v.slaveof /\ w.configEpoch[w.myself] = w.currentEpoch
<1>0. v \in Table BY DEF Sound, RolesSound
<1>1. v.currentEpoch \in Nat /\ v.myself \in Node /\ v.configEpoch \in [Node -> Nat]
  BY <1>0, Fields
<1>2. PICK e : e = v.currentEpoch + 1 OBVIOUS
<1>3. e \in Nat /\ v.currentEpoch <= e BY <1>1, <1>2
<1>4. w = WithEpochs(v, e, v.myself, e) BY <1>2 DEF NextConfigEpoch, WithEpochs
<1>5. v.configEpoch[v.myself] \in Nat /\ v.configEpoch[v.myself] <= v.currentEpoch
  BY <1>1 DEF Sound, EpochsSound
<1>6. v.configEpoch[v.myself] <= e BY <1>1, <1>3, <1>5
<1>7. e <= e BY <1>3
<1>8. /\ Sound(w) /\ Raised(v, w) /\ w.slots = v.slots /\ w.role = v.role
      /\ w.slaveof = v.slaveof
      /\ w.configEpoch[v.myself] = e /\ w.currentEpoch = e
  BY <1>1, <1>3, <1>4, <1>6, <1>7, WithEpochsSound
<1> QED BY <1>8 DEF Raised

\* No config epoch is past the current epoch, so that is the greatest.
LEMMA MaxEpochIsCurrent ==
  ASSUME NEW v, Sound(v)
  PROVE  clusterGetMaxEpoch(v) = v.currentEpoch
<1>0. v \in Table /\ v.nodes = Node BY DEF Sound, RolesSound
<1>1. v.currentEpoch \in Nat /\ v.configEpoch \in [Node -> Nat] BY <1>0, Fields
<1>2. PICK S : S = {v.configEpoch[n] : n \in v.nodes} \cup {v.currentEpoch} OBVIOUS
<1>3. v.currentEpoch \in S /\ \A y \in S : y \in Nat /\ y <= v.currentEpoch
  BY <1>0, <1>1, <1>2 DEF Sound, EpochsSound
<1>4. MaxOf(S) \in S /\ \A y \in S : y <= MaxOf(S) BY <1>3 DEF MaxOf
<1>5. MaxOf(S) \in Nat /\ MaxOf(S) <= v.currentEpoch /\ v.currentEpoch <= MaxOf(S)
  BY <1>3, <1>4
<1>6. MaxOf(S) = v.currentEpoch BY <1>1, <1>5
<1> QED BY <1>2, <1>6 DEF clusterGetMaxEpoch

\* An epoch taken without asking is the greatest the node knows of.
LEMMA BumpSound ==
  ASSUME NEW v, Sound(v), NEW w, w = clusterBumpConfigEpochWithoutConsensus(v)
  PROVE  /\ Sound(w) /\ Raised(v, w) /\ w.slots = v.slots /\ w.role = v.role
         /\ w.slaveof = v.slaveof /\ w.configEpoch[w.myself] = w.currentEpoch
<1>0. v \in Table /\ EpochsSound(v) BY DEF Sound, RolesSound
<1>1. CASE w = NextConfigEpoch(v) BY <1>1, NextConfigEpochSound
<1>2. CASE w = v /\ v.configEpoch[v.myself] = clusterGetMaxEpoch(v)
  <2>1. SameEpochs(v, w) BY <1>2 DEF SameEpochs
  <2>2. Raised(v, w) BY <1>0, <2>1, SameEpochsSound
  <2> QED BY <1>2, <2>2, MaxEpochIsCurrent
<1> QED BY <1>1, <1>2 DEF clusterBumpConfigEpochWithoutConsensus

\* A collision of epochs is resolved by a new one, or by the other node.
LEMMA CollisionSound ==
  ASSUME NEW v, Sound(v), NEW sender, NEW w, w = clusterHandleConfigEpochCollision(v, sender)
  PROVE  Sound(w) /\ Raised(v, w) /\ w.slots = v.slots
<1>0. v \in Table /\ EpochsSound(v) BY DEF Sound, RolesSound
<1>1. CASE w = NextConfigEpoch(v) BY <1>1, NextConfigEpochSound
<1>2. CASE w = v
  <2>1. SameEpochs(v, w) BY <1>2 DEF SameEpochs
  <2> QED BY <1>0, <1>2, <2>1, SameEpochsSound
<1> QED BY <1>1, <1>2 DEF clusterHandleConfigEpochCollision

-----------------------------------------------------------------------------
(* Packets *)

\* A header speaks of nodes, slots and epochs, and its config epoch is not past
\* its current epoch.
Hdr == [type : {"ping", "pong", "update"}, sender : Node, slaveof : Node \cup {Null},
        myslots : SUBSET Slot, currentEpoch : Nat, configEpoch : Nat]

SoundHdr(h) == h \in Hdr /\ h.configEpoch <= h.currentEpoch

Upd == [hdr : Hdr, about : Node, aboutEpoch : Nat, aboutSlots : SUBSET Slot]

SoundUpd(m) == m \in Upd /\ SoundHdr(m.hdr) /\ m.aboutEpoch <= m.hdr.currentEpoch

\* The headers of a sound table are sound.
LEMMA BuildHdrSound ==
  ASSUME NEW v, Sound(v), NEW type \in {"ping", "pong", "update"}
  PROVE  /\ SoundHdr(clusterBuildMessageHdr(v, type))
         /\ clusterBuildMessageHdr(v, type).currentEpoch = v.currentEpoch
<1>0. v \in Table BY DEF Sound, RolesSound
<1>1. /\ v.currentEpoch \in Nat /\ v.myself \in Node /\ v.configEpoch \in [Node -> Nat]
      /\ v.slaveof \in [Node -> Node \cup {Null}]
  BY <1>0, Fields
<1>2. PICK m : m = IF ~nodeIsMaster(v, v.myself) /\ v.slaveof[v.myself] # Null
                   THEN v.slaveof[v.myself] ELSE v.myself
  OBVIOUS
<1>3. m \in Node /\ v.slaveof[v.myself] \in Node \cup {Null} BY <1>1, <1>2
<1>4. PICK h : h = [type |-> type, sender |-> v.myself, slaveof |-> v.slaveof[v.myself],
                    myslots |-> SlotsOf(v, m), currentEpoch |-> v.currentEpoch,
                    configEpoch |-> v.configEpoch[m]]
  OBVIOUS
<1>5. clusterBuildMessageHdr(v, type) = h BY <1>2, <1>4 DEF clusterBuildMessageHdr
<1>6. SlotsOf(v, m) \in SUBSET Slot BY DEF SlotsOf
<1>7. v.configEpoch[m] \in Nat /\ v.configEpoch[m] <= v.currentEpoch
  BY <1>1, <1>3 DEF Sound, EpochsSound
<1>8. h \in Hdr BY <1>1, <1>3, <1>4, <1>6, <1>7 DEF Hdr
<1>9. h.configEpoch <= h.currentEpoch /\ h.currentEpoch = v.currentEpoch BY <1>4, <1>7
<1> QED BY <1>5, <1>8, <1>9 DEF SoundHdr

\* So are the UPDATEs about a node.
LEMMA SendUpdateSound ==
  ASSUME NEW v, Sound(v), NEW n \in Node
  PROVE  SoundUpd(clusterSendUpdate(v, n))
<1>0. v \in Table BY DEF Sound, RolesSound
<1>1. v.currentEpoch \in Nat /\ v.configEpoch \in [Node -> Nat] BY <1>0, Fields
<1>2. PICK h : h = clusterBuildMessageHdr(v, "update") OBVIOUS
<1>3. SoundHdr(h) /\ h \in Hdr /\ h.currentEpoch = v.currentEpoch
  BY <1>2, BuildHdrSound DEF SoundHdr
<1>4. v.configEpoch[n] \in Nat /\ v.configEpoch[n] <= v.currentEpoch
  BY <1>1 DEF Sound, EpochsSound
<1>5. SlotsOf(v, n) \in SUBSET Slot BY DEF SlotsOf
<1>6. PICK m : m = [hdr |-> h, about |-> n, aboutEpoch |-> v.configEpoch[n],
                    aboutSlots |-> SlotsOf(v, n)]
  OBVIOUS
<1>7. clusterSendUpdate(v, n) = m BY <1>2, <1>6 DEF clusterSendUpdate
<1>8. m \in Upd BY <1>3, <1>4, <1>5, <1>6 DEF Upd
<1>9. m.hdr = h /\ m.aboutEpoch = v.configEpoch[n] BY <1>6
<1> QED BY <1>3, <1>4, <1>7, <1>8, <1>9 DEF SoundUpd

\* A header raises the current epoch, and the config epoch of its sender.
LEMMA LearnEpochsSound ==
  ASSUME NEW v, Sound(v), NEW h, SoundHdr(h), NEW w, w = LearnEpochs(v, h)
  PROVE  /\ Sound(w) /\ Raised(v, w) /\ w.slots = v.slots
         /\ h.configEpoch <= w.configEpoch[h.sender] /\ h.currentEpoch <= w.currentEpoch
<1>0. v \in Table /\ v.nodes = Node BY DEF Sound, RolesSound
<1>1. v.currentEpoch \in Nat /\ v.configEpoch \in [Node -> Nat] BY <1>0, Fields
<1>2. h.sender \in Node /\ h.currentEpoch \in Nat /\ h.configEpoch \in Nat
  BY DEF SoundHdr, Hdr
<1>3. v.configEpoch[h.sender] \in Nat /\ v.configEpoch[h.sender] <= v.currentEpoch
  BY <1>1, <1>2 DEF Sound, EpochsSound
<1>4. PICK c : c = IF h.currentEpoch > v.currentEpoch THEN h.currentEpoch ELSE v.currentEpoch
  OBVIOUS
<1>5. PICK e : e = IF h.configEpoch > v.configEpoch[h.sender]
                   THEN h.configEpoch ELSE v.configEpoch[h.sender]
  OBVIOUS
<1>6. w = WithEpochs(v, c, h.sender, e)
  BY <1>0, <1>2, <1>4, <1>5 DEF LearnEpochs, WithEpochs
<1>7. c \in Nat /\ v.currentEpoch <= c /\ h.currentEpoch <= c BY <1>1, <1>2, <1>4
<1>8. e \in Nat /\ v.configEpoch[h.sender] <= e /\ h.configEpoch <= e BY <1>2, <1>3, <1>5
<1>9. e <= c
  <2>1. h.configEpoch <= h.currentEpoch BY DEF SoundHdr
  <2> QED BY <1>1, <1>2, <1>3, <1>4, <1>5, <2>1
<1>10. /\ Sound(w) /\ Raised(v, w) /\ w.slots = v.slots
       /\ w.configEpoch[h.sender] = e /\ w.currentEpoch = c
  BY <1>2, <1>6, <1>7, <1>8, <1>9, WithEpochsSound
<1> QED BY <1>7, <1>8, <1>10

-----------------------------------------------------------------------------
(* The steps of ClusterConfig *)

\* What OwnerEpochGrows says of two tables.
OwnerGrows(v, w) ==
  \A j \in Slot : v.slots[j] # Null /\ w.slots[j] # Null =>
                   v.configEpoch[v.slots[j]] <= w.configEpoch[w.slots[j]]

\* Owners that stay or go are as new as they were.
LEMMA OwnersKept ==
  ASSUME NEW v \in Table, NEW w, Raised(v, w),
         \A j \in Slot : w.slots[j] = v.slots[j] \/ w.slots[j] = Null
  PROVE  OwnerGrows(v, w)
<1>1. v.slots \in [Slot -> Node \cup {Null}] BY Fields
<1>2. \A j \in Slot : v.slots[j] # Null => v.slots[j] \in Node BY <1>1
<1> QED BY <1>2 DEF OwnerGrows, Raised

\* The owner that takes a slot is newer than the one it had.
LEMMA OwnersTaken ==
  ASSUME NEW v \in Table, NEW u \in Table, NEW w, NEW sender \in Node, NEW epoch \in Nat,
         Raised(v, u), u.slots = v.slots, SameEpochs(u, w), Taken(u, w, sender, epoch),
         epoch <= u.configEpoch[sender]
  PROVE  OwnerGrows(v, w)
<1>1. v.slots \in [Slot -> Node \cup {Null}] /\ v.configEpoch \in [Node -> Nat]
  BY Fields
<1>2. u.configEpoch \in [Node -> Nat] /\ w.configEpoch = u.configEpoch
  BY Fields DEF SameEpochs
<1>3. ASSUME NEW j \in Slot, v.slots[j] # Null, w.slots[j] # Null
      PROVE  v.configEpoch[v.slots[j]] <= w.configEpoch[w.slots[j]]
  <2>1. PICK o : o = v.slots[j] OBVIOUS
  <2>2. o \in Node BY <1>1, <1>3, <2>1
  <2>3. v.configEpoch[o] \in Nat /\ u.configEpoch[o] \in Nat /\ u.configEpoch[sender] \in Nat
    BY <1>1, <1>2, <2>2
  <2>4. v.configEpoch[o] <= u.configEpoch[o] BY <2>2 DEF Raised
  <2>5. CASE w.slots[j] = o BY <1>2, <2>1, <2>4, <2>5
  <2>6. CASE w.slots[j] = sender /\ u.configEpoch[o] < epoch
    <3>1. v.configEpoch[o] <= u.configEpoch[sender] BY <2>3, <2>4, <2>6
    <3> QED BY <1>2, <2>1, <2>6, <3>1
  <2> QED BY <1>3, <2>1, <2>5, <2>6 DEF Taken
<1> QED BY <1>3 DEF OwnerGrows

\* Epochs that grow further keep the owners' growth.
LEMMA OwnersRaised ==
  ASSUME NEW v \in Table, NEW u \in Table, NEW w \in Table,
         OwnerGrows(v, u), Raised(u, w), w.slots = u.slots
  PROVE  OwnerGrows(v, w)
<1>1. /\ v.slots \in [Slot -> Node \cup {Null}] /\ v.configEpoch \in [Node -> Nat]
      /\ u.slots \in [Slot -> Node \cup {Null}] /\ u.configEpoch \in [Node -> Nat]
      /\ w.configEpoch \in [Node -> Nat]
  BY Fields
<1>2. ASSUME NEW j \in Slot, v.slots[j] # Null, w.slots[j] # Null
      PROVE  v.configEpoch[v.slots[j]] <= w.configEpoch[w.slots[j]]
  <2>1. PICK a \in Node : a = v.slots[j] BY <1>1, <1>2
  <2>2. PICK b \in Node : b = u.slots[j] BY <1>1, <1>2
  <2>3. v.configEpoch[a] <= u.configEpoch[b] BY <1>2, <2>1, <2>2 DEF OwnerGrows
  <2>4. u.configEpoch[b] <= w.configEpoch[b] BY DEF Raised
  <2>5. v.configEpoch[a] \in Nat /\ u.configEpoch[b] \in Nat /\ w.configEpoch[b] \in Nat
    BY <1>1
  <2>6. v.configEpoch[a] <= w.configEpoch[b] BY <2>3, <2>4, <2>5
  <2> QED BY <2>1, <2>2, <2>6
<1> QED BY <1>2 DEF OwnerGrows

\* A table that a step may leave behind.
Follows(v, w) == Sound(w) /\ w.myself = v.myself /\ OwnerGrows(v, w)

\* The claim of a PING or PONG.
LEMMA LearnClaimSound ==
  ASSUME NEW v, Sound(v), NEW h, SoundHdr(h), NEW w, w = LearnClaim(v, h)
  PROVE  Follows(v, w)
<1>0. v \in Table BY DEF Sound, RolesSound
<1>1. /\ h.sender \in Node /\ h.slaveof \in Node \cup {Null} /\ h.configEpoch \in Nat
      /\ h.myslots \in SUBSET Slot
  BY DEF SoundHdr, Hdr
<1>2. PICK a : a = LearnEpochs(v, h) OBVIOUS
<1>3. /\ Sound(a) /\ Raised(v, a) /\ a.slots = v.slots
      /\ h.configEpoch <= a.configEpoch[h.sender]
  BY <1>2, LearnEpochsSound
<1>4. RolesSound(a) /\ a \in Table /\ EpochsSound(a) BY <1>3 DEF Sound, RolesSound
<1>5. PICK b : b = RoleSwitch(a, h) OBVIOUS
<1>6. /\ RolesSound(b) /\ SameEpochs(a, b)
      /\ h.slaveof = Null => b.slots = a.slots
      /\ h.slaveof # Null => ~nodeIsMaster(b, h.sender)
      /\ \A j \in Slot : b.slots[j] = a.slots[j] \/ b.slots[j] = Null
  BY <1>1, <1>4, <1>5, RoleSwitchSound
<1>7. b \in Table /\ EpochsSound(b) /\ Raised(a, b)
  BY <1>4, <1>6, SameEpochsSound DEF RolesSound
<1>8. Raised(v, b) /\ Sound(b) BY <1>0, <1>3, <1>4, <1>6, <1>7, RaisedTrans DEF Sound
<1>9. b = LearnRole(v, h) BY <1>2, <1>5 DEF LearnRole
<1>10. CASE w = b
  <2>1. OwnerGrows(v, b) BY <1>0, <1>3, <1>6, <1>8, OwnersKept
  <2> QED BY <1>8, <1>10, <2>1 DEF Follows, Raised
<1>11. CASE /\ nodeIsMaster(b, h.sender)
            /\ w = clusterUpdateSlotsConfigWith(b, h.sender, h.configEpoch, h.myslots)
  <2>1. RolesSound(w) /\ SameEpochs(b, w) /\ Taken(b, w, h.sender, h.configEpoch)
    BY <1>1, <1>6, <1>11, UpdateSlotsSound
  <2>2. b.slots = v.slots BY <1>3, <1>6, <1>11
  <2>3. b.configEpoch = a.configEpoch BY <1>6 DEF SameEpochs
  <2>4. OwnerGrows(v, w)
    BY <1>0, <1>1, <1>3, <1>7, <1>8, <2>1, <2>2, <2>3, OwnersTaken
  <2>5. EpochsSound(w) /\ Raised(b, w) BY <1>7, <2>1, SameEpochsSound
  <2> QED BY <1>8, <2>1, <2>4, <2>5 DEF Follows, Raised, Sound
<1> QED BY <1>9, <1>10, <1>11 DEF LearnClaim

\* All that a PING or PONG does to a table.
LEMMA LearnConfigSound ==
  ASSUME NEW v, Sound(v), NEW h, SoundHdr(h), NEW w, w = LearnConfig(v, h)
  PROVE  Follows(v, w)
<1>0. v \in Table BY DEF Sound, RolesSound
<1>1. PICK a : a = LearnClaim(v, h) OBVIOUS
<1>2. Follows(v, a) /\ Sound(a) BY <1>1, LearnClaimSound DEF Follows
<1>3. a \in Table BY <1>2 DEF Sound, RolesSound
<1>4. CASE w = a BY <1>2, <1>4
<1>5. CASE w = clusterHandleConfigEpochCollision(a, h.sender)
  <2>1. Sound(w) /\ Raised(a, w) /\ w.slots = a.slots BY <1>2, <1>5, CollisionSound
  <2>2. w \in Table BY <2>1 DEF Sound, RolesSound
  <2>3. OwnerGrows(v, w) BY <1>0, <1>2, <1>3, <2>1, <2>2, OwnersRaised DEF Follows
  <2> QED BY <1>2, <2>1, <2>3 DEF Follows, Raised
<1> QED BY <1>1, <1>4, <1>5 DEF LearnConfig

\* The answer to an outdated claim, if there is one, is about a node.
LEMMA OutdatedOwner ==
  ASSUME NEW v, Sound(v), NEW h, SoundHdr(h), NEW w, w = LearnClaim(v, h),
         NEW j \in Outdated(v, h)
  PROVE  j \in Slot /\ w.slots[j] \in Node /\ Sound(w)
<1>1. j \in OutdatedSlots(w, h) BY DEF Outdated
<1>2. h.myslots \in SUBSET Slot BY DEF SoundHdr, Hdr
<1>3. j \in Slot /\ w.slots[j] # Null BY <1>1, <1>2 DEF OutdatedSlots
<1>4. Sound(w) /\ w \in Table BY LearnClaimSound DEF Follows, Sound, RolesSound
<1>5. w.slots \in [Slot -> Node \cup {Null}] BY <1>4, Fields
<1> QED BY <1>3, <1>4, <1>5

\* One config epoch, or the current epoch alone, is raised.
WithConfigEpoch(v, n, e) == [v EXCEPT !.configEpoch[n] = e]
WithCurrentEpoch(v, e) == [v EXCEPT !.currentEpoch = e]

LEMMA RaiseOne ==
  ASSUME NEW v \in Table, NEW n \in Node, NEW e \in Nat
  PROVE  /\ WithConfigEpoch(v, n, e) = WithEpochs(v, v.currentEpoch, n, e)
         /\ WithCurrentEpoch(v, e) = WithEpochs(v, e, n, v.configEpoch[n])
<1>1. WithConfigEpoch(v, n, e) = WithEpochs(v, v.currentEpoch, n, e)
  BY DEF WithConfigEpoch, WithEpochs, Table
<1>2. WithCurrentEpoch(v, e) = WithEpochs(v, e, n, v.configEpoch[n])
  BY DEF WithCurrentEpoch, WithEpochs, Table
<1> QED BY <1>1, <1>2

\* An UPDATE about a node.
LEMMA LearnUpdateSound ==
  ASSUME NEW v, Sound(v), NEW msg, SoundUpd(msg), NEW w, w = LearnUpdate(v, msg)
  PROVE  Follows(v, w)
<1>0. v \in Table BY DEF Sound, RolesSound
<1>1. /\ msg.about \in Node /\ msg.aboutEpoch \in Nat /\ msg.aboutSlots \in SUBSET Slot
      /\ SoundHdr(msg.hdr) /\ msg.aboutEpoch <= msg.hdr.currentEpoch
      /\ msg.hdr.currentEpoch \in Nat
  BY DEF SoundUpd, Upd, Hdr
<1>2. PICK a : a = LearnEpochs(v, msg.hdr) OBVIOUS
<1>3. /\ Sound(a) /\ Raised(v, a) /\ a.slots = v.slots
      /\ msg.hdr.currentEpoch <= a.currentEpoch
  BY <1>1, <1>2, LearnEpochsSound
<1>4. RolesSound(a) /\ a \in Table /\ EpochsSound(a) BY <1>3 DEF Sound, RolesSound
<1>5. a.currentEpoch \in Nat /\ a.configEpoch \in [Node -> Nat] BY <1>4, Fields
<1>6. CASE w = a
  <2>1. OwnerGrows(v, a) BY <1>0, <1>3, OwnersKept
  <2> QED BY <1>3, <1>6, <2>1 DEF Follows, Raised
<1>7. CASE ~(a.configEpoch[msg.about] >= msg.aboutEpoch)
  <2>1. PICK b : b = clusterSetNodeAsMaster(a, msg.about) OBVIOUS
  <2>2. /\ RolesSound(b) /\ SameEpochs(a, b) /\ b.slots = a.slots
        /\ nodeIsMaster(b, msg.about)
    BY <1>1, <1>4, <2>1, SetNodeAsMasterSound
  <2>3. b \in Table /\ EpochsSound(b) /\ Raised(a, b) /\ Sound(b)
    BY <1>4, <2>2, SameEpochsSound DEF RolesSound, Sound
  <2>4. b.currentEpoch = a.currentEpoch /\ b.configEpoch = a.configEpoch
    BY <2>2 DEF SameEpochs
  <2>5. PICK c : c = WithEpochs(b, b.currentEpoch, msg.about, msg.aboutEpoch) OBVIOUS
  <2>6. w = clusterUpdateSlotsConfigWith(c, msg.about, msg.aboutEpoch, msg.aboutSlots)
    <3>1. c = WithConfigEpoch(b, msg.about, msg.aboutEpoch) BY <1>1, <2>3, <2>5, RaiseOne
    <3> QED BY <1>2, <1>7, <2>1, <3>1 DEF LearnUpdate, WithConfigEpoch
  <2>7. /\ b.currentEpoch \in Nat /\ b.currentEpoch <= b.currentEpoch
        /\ b.configEpoch[msg.about] <= msg.aboutEpoch /\ msg.aboutEpoch <= b.currentEpoch
    <3>1. a.configEpoch[msg.about] \in Nat BY <1>1, <1>5
    <3> QED BY <1>1, <1>3, <1>5, <1>7, <2>4, <3>1
  <2>8. /\ Sound(c) /\ Raised(b, c) /\ c.slots = b.slots /\ c.role = b.role
        /\ c.configEpoch[msg.about] = msg.aboutEpoch
    BY <1>1, <2>3, <2>5, <2>7, WithEpochsSound
  <2>9. c \in Table /\ RolesSound(c) /\ EpochsSound(c) BY <2>8 DEF Sound, RolesSound
  <2>10. Raised(v, c) /\ c.slots = v.slots
    <3>1. Raised(v, b) BY <1>0, <1>3, <1>4, <2>3, RaisedTrans
    <3> QED BY <1>0, <1>3, <2>2, <2>3, <2>8, <2>9, <3>1, RaisedTrans
  <2>11. nodeIsMaster(c, msg.about) BY <2>2, <2>8 DEF nodeIsMaster
  <2>12. RolesSound(w) /\ SameEpochs(c, w) /\ Taken(c, w, msg.about, msg.aboutEpoch)
    BY <1>1, <2>6, <2>9, <2>11, UpdateSlotsSound
  <2>13. msg.aboutEpoch <= c.configEpoch[msg.about] BY <1>1, <2>8
  <2>14. OwnerGrows(v, w) BY <1>0, <1>1, <2>9, <2>10, <2>12, <2>13, OwnersTaken
  <2>15. EpochsSound(w) /\ Raised(c, w) BY <2>9, <2>12, SameEpochsSound
  <2> QED BY <2>10, <2>12, <2>14, <2>15 DEF Follows, Raised, Sound
<1> QED BY <1>2, <1>6, <1>7 DEF LearnUpdate

Claimed(v, f, K) == [v EXCEPT !.slots = f, !.keys = K]

LEMMA ClaimedFields ==
  ASSUME NEW v \in Table, NEW f \in [Slot -> Node \cup {Null}], NEW K \in SUBSET Slot
  PROVE  /\ Claimed(v, f, K) \in Table
         /\ Claimed(v, f, K).nodes = v.nodes
         /\ SameEpochs(v, Claimed(v, f, K))
         /\ Claimed(v, f, K).role = v.role
         /\ Claimed(v, f, K).slaveof = v.slaveof
         /\ Claimed(v, f, K).slots = f
         /\ Claimed(v, f, K).slaves = v.slaves
<1>1. Claimed(v, f, K) \in Table BY DEF Claimed, Table
<1>2. Claimed(v, f, K).nodes = v.nodes /\ SameEpochs(v, Claimed(v, f, K))
  BY DEF Claimed, Table, SameEpochs
<1>3. /\ Claimed(v, f, K).role = v.role
      /\ Claimed(v, f, K).slaveof = v.slaveof
      /\ Claimed(v, f, K).slots = f
      /\ Claimed(v, f, K).slaves = v.slaves
  BY DEF Claimed, Table
<1> QED BY <1>1, <1>2, <1>3

\* A slave that holds the greatest epoch it knows takes its master's slots.
LEMMA FailoverSound ==
  ASSUME NEW v, Sound(v), NEW u, Sound(u), Raised(u, v), v.slots = u.slots,
         v.configEpoch[v.myself] = v.currentEpoch,
         NEW w, w = clusterFailoverReplaceYourMaster(v)
  PROVE  Follows(u, w)
<1>0. v \in Table /\ u \in Table /\ RolesSound(v) /\ EpochsSound(v)
  BY DEF Sound, RolesSound
<1>1. /\ v.myself \in Node /\ v.slots \in [Slot -> Node \cup {Null}]
      /\ v.configEpoch \in [Node -> Nat] /\ v.currentEpoch \in Nat
      /\ u.configEpoch \in [Node -> Nat]
  BY <1>0, Fields
<1>2. CASE w = v
  <2>1. OwnerGrows(u, v) BY <1>0, OwnersKept
  <2> QED BY <1>2, <2>1 DEF Follows, Raised
<1>3. CASE ~(nodeIsMaster(v, v.myself) \/ v.slaveof[v.myself] = Null)
  <2>1. PICK a : a = clusterSetNodeAsMaster(v, v.myself) OBVIOUS
  <2>2. /\ RolesSound(a) /\ SameEpochs(v, a) /\ a.slots = v.slots
        /\ nodeIsMaster(a, v.myself)
    BY <1>0, <1>1, <2>1, SetNodeAsMasterSound
  <2>3. a \in Table BY <2>2 DEF RolesSound
  <2>4. PICK f : f = [j \in Slot |-> IF v.slots[j] = v.slaveof[v.myself] THEN v.myself
                                     ELSE a.slots[j]]
    OBVIOUS
  <2>5. f \in [Slot -> Node \cup {Null}] BY <1>1, <2>2, <2>4
  <2>6. SlotsOf(v, v.slaveof[v.myself]) \in SUBSET Slot BY DEF SlotsOf
  <2>7. w = Claimed(a, f, SlotsOf(v, v.slaveof[v.myself]))
    BY <1>3, <2>1, <2>4 DEF clusterFailoverReplaceYourMaster, Claimed
  <2>8. /\ w \in Table /\ w.nodes = a.nodes /\ SameEpochs(a, w) /\ w.role = a.role
        /\ w.slaveof = a.slaveof /\ w.slots = f /\ w.slaves = a.slaves
    BY <2>3, <2>5, <2>6, <2>7, ClaimedFields
  <2>9. SameEpochs(v, w) BY <2>2, <2>8 DEF SameEpochs
  <2>10. EpochsSound(w) /\ Raised(v, w) BY <1>0, <2>9, SameEpochsSound
  <2>11. Consistent(a.role, a.slaveof, a.slaves, f)
    <3>1. Consistent(a.role, a.slaveof, a.slaves, a.slots) BY <2>2 DEF RolesSound
    <3>2. a.role[v.myself] = "master" BY <2>2 DEF nodeIsMaster
    <3>3. \A j \in Slot : f[j] = v.myself \/ f[j] = a.slots[j] BY <2>4
    <3>4. \A j \in Slot : f[j] # Null => a.role[f[j]] = "master"
      BY <3>1, <3>2, <3>3 DEF Consistent
    <3> QED BY <3>1, <3>4 DEF Consistent
  <2>12. RolesSound(w) BY <2>2, <2>8, <2>11 DEF RolesSound
  <2>13. ASSUME NEW j \in Slot, u.slots[j] # Null, w.slots[j] # Null
         PROVE  u.configEpoch[u.slots[j]] <= w.configEpoch[w.slots[j]]
    <3>1. PICK o \in Node : o = v.slots[j] BY <1>1, <2>13
    <3>2. u.configEpoch[o] <= v.configEpoch[o] BY DEF Raised
    <3>3. v.configEpoch[o] <= v.configEpoch[v.myself] BY <1>0 DEF EpochsSound
    <3>4. /\ u.configEpoch[o] \in Nat /\ v.configEpoch[o] \in Nat
          /\ v.configEpoch[v.myself] \in Nat
      BY <1>1
    <3>5. u.configEpoch[o] <= v.configEpoch[v.myself] BY <3>2, <3>3, <3>4
    <3>6. w.slots[j] = v.myself \/ w.slots[j] = o BY <2>2, <2>4, <2>8, <3>1
    <3>7. w.configEpoch = v.configEpoch BY <2>9 DEF SameEpochs
    <3> QED BY <3>1, <3>2, <3>5, <3>6, <3>7
  <2>14. w.myself = u.myself BY <2>9 DEF SameEpochs, Raised
  <2> QED BY <2>10, <2>12, <2>13, <2>14 DEF Follows, OwnerGrows, Sound
<1> QED BY <1>2, <1>3 DEF clusterFailoverReplaceYourMaster

-----------------------------------------------------------------------------
\* The inductive invariant: every table is sound and its owner's, and so is
\* every packet on its way.
Hdrs == {h \in Hdr : SoundHdr(h)}
Upds == {m \in Upd : SoundUpd(m)}

IInv ==
  /\ st \in [Node -> Table]
  /\ \A n \in Node : Sound(st[n]) /\ st[n].myself = n
  /\ wire \in [Link -> Hdrs \cup {Null}]
  /\ update \in [Link -> Upds \cup {Null}]
  /\ failovers \in 0..MaxFailovers

\* A step changes tables only into ones that may follow.
TablesFollow == \A n \in Node : Follows(st[n], st'[n])

\* A table that does not change follows itself.
LEMMA FollowsSame ==
  ASSUME NEW v, Sound(v) PROVE Follows(v, v)
<1>1. v \in Table /\ EpochsSound(v) BY DEF Sound, RolesSound
<1>2. SameEpochs(v, v) BY DEF SameEpochs
<1>3. Raised(v, v) BY <1>1, <1>2, SameEpochsSound
<1> QED BY <1>1, <1>3, OwnersKept DEF Follows

\* One table changes into one that follows.
LEMMA OneFollows ==
  ASSUME IInv, NEW n \in Node, NEW w, Follows(st[n], w), st' = [st EXCEPT ![n] = w]
  PROVE  /\ st' \in [Node -> Table] /\ TablesFollow
         /\ \A x \in Node : Sound(st'[x]) /\ st'[x].myself = x
<1>1. w \in Table /\ Sound(w) /\ w.myself = n BY DEF Follows, Sound, RolesSound, IInv
<1>2. st' \in [Node -> Table] BY <1>1 DEF IInv
<1>3. ASSUME NEW x \in Node
      PROVE  Sound(st'[x]) /\ st'[x].myself = x /\ Follows(st[x], st'[x])
  <2>1. CASE x = n BY <1>1, <2>1 DEF IInv
  <2>2. CASE x # n
    <3>1. st'[x] = st[x] BY <2>2 DEF IInv
    <3> QED BY <3>1, FollowsSame DEF IInv
  <2> QED BY <2>1, <2>2
<1> QED BY <1>2, <1>3 DEF TablesFollow

\* The answer to an outdated claim is sound.
LEMMA TellSound ==
  ASSUME IInv, NEW v, Sound(v), NEW h, SoundHdr(h), NEW l \in Link, Tell(v, h, l)
  PROVE  update' \in [Link -> Upds \cup {Null}]
<1>1. CASE UNCHANGED update BY <1>1 DEF IInv
<1>2. CASE ~(UNCHANGED update)
  <2>1. PICK w : w = LearnClaim(v, h) OBVIOUS
  <2>2. PICK j \in Outdated(v, h) :
          update' = [update EXCEPT ![l] = clusterSendUpdate(w, w.slots[j])]
    BY <1>2, <2>1 DEF Tell
  <2>3. w.slots[j] \in Node /\ Sound(w) BY <2>1, OutdatedOwner
  <2>4. SoundUpd(clusterSendUpdate(w, w.slots[j])) BY <2>3, SendUpdateSound
  <2>5. clusterSendUpdate(w, w.slots[j]) \in Upds BY <2>4 DEF Upds, SoundUpd
  <2> QED BY <2>2, <2>5 DEF IInv
<1> QED BY <1>1, <1>2

\* Every step keeps the tables and the packets sound, and no slot goes from an
\* owner to one with an older config epoch.
LEMMA IInvStep ==
  ASSUME IInv, [Next]_vars
  PROVE  IInv' /\ TablesFollow
<1>1. ASSUME NEW n \in Node, NEW m \in Node, Ping(n, m) PROVE IInv' /\ TablesFollow
  <2>1. SoundHdr(clusterBuildMessageHdr(st[n], "ping")) BY BuildHdrSound DEF IInv
  <2>2. clusterBuildMessageHdr(st[n], "ping") \in Hdrs BY <2>1 DEF Hdrs, SoundHdr
  <2>3. wire' \in [Link -> Hdrs \cup {Null}] BY <1>1, <2>2 DEF Ping, IInv
  <2>4. TablesFollow BY <1>1, FollowsSame DEF Ping, TablesFollow, IInv
  <2> QED BY <1>1, <2>3, <2>4 DEF Ping, IInv
<1>2. ASSUME NEW n \in Node, NEW m \in Node, ReceivePing(n, m) PROVE IInv' /\ TablesFollow
  <2>1. PICK h : h = wire[<<n, m>>] OBVIOUS
  <2>2. <<n, m>> \in Link /\ h # Null BY <1>2, <2>1 DEF ReceivePing
  <2>3. SoundHdr(h) BY <2>1, <2>2 DEF IInv, Hdrs
  <2>4. Sound(st[m]) BY DEF IInv
  <2>5. PICK w : w = LearnConfig(st[m], h) OBVIOUS
  <2>6. Follows(st[m], w) BY <2>3, <2>4, <2>5, LearnConfigSound
  <2>7. st' = [st EXCEPT ![m] = w] BY <1>2, <2>1, <2>5 DEF ReceivePing
  <2>8. /\ st' \in [Node -> Table] /\ TablesFollow
        /\ \A x \in Node : Sound(st'[x]) /\ st'[x].myself = x
    BY <2>6, <2>7, OneFollows
  <2>9. PICK a : a = LearnEpochs(st[m], h) OBVIOUS
  <2>10. Sound(a) BY <2>3, <2>4, <2>9, LearnEpochsSound
  <2>11. SoundHdr(clusterBuildMessageHdr(a, "pong")) BY <2>10, BuildHdrSound
  <2>12. clusterBuildMessageHdr(a, "pong") \in Hdrs BY <2>11 DEF Hdrs, SoundHdr
  <2>13. wire' = [wire EXCEPT ![<<n, m>>] = clusterBuildMessageHdr(a, "pong")]
    BY <1>2, <2>1, <2>9 DEF ReceivePing
  <2>14. wire' \in [Link -> Hdrs \cup {Null}] BY <2>2, <2>12, <2>13 DEF IInv
  <2>15. <<m, n>> \in Link BY <2>2 DEF Link
  <2>16. Tell(st[m], h, <<m, n>>) /\ UNCHANGED failovers BY <1>2, <2>1 DEF ReceivePing
  <2>17. update' \in [Link -> Upds \cup {Null}] BY <2>3, <2>4, <2>15, <2>16, TellSound
  <2> QED BY <2>8, <2>14, <2>16, <2>17 DEF IInv
<1>3. ASSUME NEW n \in Node, NEW m \in Node, ReceivePong(n, m) PROVE IInv' /\ TablesFollow
  <2>1. PICK h : h = wire[<<n, m>>] OBVIOUS
  <2>2. <<n, m>> \in Link /\ h # Null BY <1>3, <2>1 DEF ReceivePong
  <2>3. SoundHdr(h) BY <2>1, <2>2 DEF IInv, Hdrs
  <2>4. Sound(st[n]) BY DEF IInv
  <2>5. PICK w : w = LearnConfig(st[n], h) OBVIOUS
  <2>6. Follows(st[n], w) BY <2>3, <2>4, <2>5, LearnConfigSound
  <2>7. st' = [st EXCEPT ![n] = w] BY <1>3, <2>1, <2>5 DEF ReceivePong
  <2>8. /\ st' \in [Node -> Table] /\ TablesFollow
        /\ \A x \in Node : Sound(st'[x]) /\ st'[x].myself = x
    BY <2>6, <2>7, OneFollows
  <2>9. wire' \in [Link -> Hdrs \cup {Null}] BY <1>3 DEF ReceivePong, IInv
  <2>10. Tell(st[n], h, <<n, m>>) /\ UNCHANGED failovers BY <1>3, <2>1 DEF ReceivePong
  <2>11. update' \in [Link -> Upds \cup {Null}] BY <2>2, <2>3, <2>4, <2>10, TellSound
  <2> QED BY <2>8, <2>9, <2>10, <2>11 DEF IInv
<1>4. ASSUME NEW n \in Node, NEW m \in Node, ReceiveUpdate(n, m) PROVE IInv' /\ TablesFollow
  <2>1. PICK msg : msg = update[<<n, m>>] OBVIOUS
  <2>2. <<n, m>> \in Link /\ msg # Null BY <1>4, <2>1 DEF ReceiveUpdate
  <2>3. SoundUpd(msg) BY <2>1, <2>2 DEF IInv, Upds
  <2>4. PICK w : w = LearnUpdate(st[m], msg) OBVIOUS
  <2>5. Follows(st[m], w) BY <2>3, <2>4, LearnUpdateSound DEF IInv
  <2>6. st' = [st EXCEPT ![m] = w] BY <1>4, <2>1, <2>4 DEF ReceiveUpdate
  <2>7. /\ st' \in [Node -> Table] /\ TablesFollow
        /\ \A x \in Node : Sound(st'[x]) /\ st'[x].myself = x
    BY <2>5, <2>6, OneFollows
  <2>8. update' \in [Link -> Upds \cup {Null}] BY <1>4 DEF ReceiveUpdate, IInv
  <2> QED BY <1>4, <2>7, <2>8 DEF ReceiveUpdate, IInv
<1>5. ASSUME NEW s \in Node, NEW Q \in SUBSET Node, Elect(s, Q) PROVE IInv' /\ TablesFollow
  <2>1. PICK v : v = st[s] OBVIOUS
  <2>2. Sound(v) /\ v \in Table /\ v.myself = s BY <2>1 DEF IInv, Sound, RolesSound
  <2>3. v.currentEpoch \in Nat /\ v.configEpoch \in [Node -> Nat] BY <2>2, Fields
  <2>4. PICK e : e = v.currentEpoch + 1 OBVIOUS
  <2>5. e \in Nat /\ v.currentEpoch <= e /\ e <= e BY <2>3, <2>4
  <2>6. v.configEpoch[s] <= e
    <3>1. v.configEpoch[s] \in Nat /\ v.configEpoch[s] <= v.currentEpoch
      BY <2>2, <2>3 DEF Sound, EpochsSound
    <3> QED BY <2>3, <2>4, <3>1
  <2>7. PICK a : a = WithEpochs(v, e, s, e) OBVIOUS
  <2>8. /\ Sound(a) /\ Raised(v, a) /\ a.slots = v.slots
        /\ a.configEpoch[s] = e /\ a.currentEpoch = e
    BY <2>2, <2>5, <2>6, <2>7, WithEpochsSound
  <2>9. PICK w : w = clusterFailoverReplaceYourMaster(a) OBVIOUS
  <2>10. a.configEpoch[a.myself] = a.currentEpoch BY <2>2, <2>8 DEF Raised
  <2>11. Follows(v, w) BY <2>2, <2>8, <2>9, <2>10, FailoverSound
  <2>12. /\ st' = [n \in Node |-> IF n = s THEN w
                                  ELSE IF n \in Q THEN WithCurrentEpoch(st[n], e) ELSE st[n]]
         /\ \A q \in Q : st[q].currentEpoch < e
         /\ failovers < MaxFailovers /\ failovers' = failovers + 1
         /\ UNCHANGED <<wire, update>>
    BY <1>5, <2>1, <2>4, <2>7, <2>9 DEF Elect, WithEpochs, WithCurrentEpoch
  <2>13. ASSUME NEW n \in Node PROVE Follows(st[n], st'[n])
    <3>1. CASE n = s BY <2>1, <2>11, <2>12, <3>1
    <3>2. CASE n # s /\ n \in Q
      <4>1. PICK x : x = st[n] OBVIOUS
      <4>2. Sound(x) /\ x \in Table /\ EpochsSound(x) BY <4>1 DEF IInv, Sound, RolesSound
      <4>3. x.currentEpoch \in Nat /\ x.configEpoch[n] \in Nat /\ x.currentEpoch < e
        BY <2>12, <3>2, <4>1, <4>2, Fields
      <4>4. x.configEpoch[n] <= x.currentEpoch BY <4>2 DEF EpochsSound
      <4>5. PICK y : y = WithEpochs(x, e, n, x.configEpoch[n]) OBVIOUS
      <4>6. x.currentEpoch <= e /\ x.configEpoch[n] <= e /\ x.configEpoch[n] <= x.configEpoch[n]
        BY <2>5, <4>3, <4>4
      <4>7. Sound(y) /\ Raised(x, y) /\ y.slots = x.slots
        BY <2>5, <4>2, <4>3, <4>5, <4>6, WithEpochsSound
      <4>8. OwnerGrows(x, y) BY <4>2, <4>7, OwnersKept
      <4>9. st'[n] = y BY <2>5, <2>12, <3>2, <4>1, <4>2, <4>5, RaiseOne
      <4> QED BY <4>1, <4>7, <4>8, <4>9 DEF Follows, Raised
    <3>3. CASE n # s /\ n \notin Q BY <2>12, <3>3, FollowsSame DEF IInv
    <3> QED BY <3>1, <3>2, <3>3
  <2>14. \A n \in Node : Sound(st'[n]) /\ st'[n].myself = n BY <2>13 DEF Follows, IInv
  <2>15. \A n \in Node : st'[n] \in Table BY <2>14 DEF Sound, RolesSound
  <2>16. st' \in [Node -> Table]
    <3>1. PICK F : F = [n \in Node |-> st'[n]] OBVIOUS
    <3>2. F \in [Node -> Table] BY <2>15, <3>1
    <3>3. st' = F BY <2>12, <3>1
    <3> QED BY <3>2, <3>3
  <2>17. failovers' \in 0..MaxFailovers BY <2>12, ConfigAssumption DEF IInv
  <2> QED BY <2>12, <2>13, <2>14, <2>16, <2>17 DEF IInv, TablesFollow
<1>6. ASSUME NEW s \in Node, Takeover(s) PROVE IInv' /\ TablesFollow
  <2>1. PICK v : v = st[s] OBVIOUS
  <2>2. Sound(v) BY <2>1 DEF IInv
  <2>3. PICK a : a = clusterBumpConfigEpochWithoutConsensus(v) OBVIOUS
  <2>4. /\ Sound(a) /\ Raised(v, a) /\ a.slots = v.slots
        /\ a.configEpoch[a.myself] = a.currentEpoch
    BY <2>2, <2>3, BumpSound
  <2>5. PICK w : w = clusterFailoverReplaceYourMaster(a) OBVIOUS
  <2>6. Follows(st[s], w) BY <2>1, <2>2, <2>4, <2>5, FailoverSound
  <2>7. st' = [st EXCEPT ![s] = w] BY <1>6, <2>1, <2>3, <2>5 DEF Takeover
  <2>8. /\ st' \in [Node -> Table] /\ TablesFollow
        /\ \A x \in Node : Sound(st'[x]) /\ st'[x].myself = x
    BY <2>6, <2>7, OneFollows
  <2>9. failovers' \in 0..MaxFailovers BY <1>6, ConfigAssumption DEF Takeover, IInv
  <2> QED BY <1>6, <2>8, <2>9 DEF Takeover, IInv
<1>7. CASE UNCHANGED vars
  <2>1. TablesFollow BY <1>7, FollowsSame DEF vars, TablesFollow, IInv
  <2> QED BY <1>7, <2>1 DEF vars, IInv
<1> QED BY <1>1, <1>2, <1>3, <1>4, <1>5, <1>6, <1>7 DEF Next

\* The nodes have just met: each knows its own slots and its own master.
LEMMA IInvInit == Init => IInv
<1> SUFFICES ASSUME Init PROVE IInv
    OBVIOUS
<1>1. ASSUME NEW n \in Node PROVE Sound(clusterInit(n)) /\ clusterInit(n).myself = n
  <2>1. PICK v : v = clusterInit(n) OBVIOUS
  <2>2. n \in Slave => MasterOf[n] \in Node /\ MasterOf[n] # Null
    BY ConfigAssumption DEF Slave
  <2>3. n \in Master => SlotOf[n] \in Slot BY ConfigAssumption
  <2>4. n \in Slave <=> n \notin Master BY DEF Slave
  <2>5. /\ v.nodes = Node /\ v.myself = n /\ v.currentEpoch = 0
        /\ v.configEpoch = [m \in Node |-> 0]
        /\ v.role = [m \in Node |-> IF m = n /\ n \in Slave THEN "slave" ELSE "master"]
        /\ v.slaveof = [m \in Node |-> IF m = n /\ n \in Slave THEN MasterOf[n] ELSE Null]
        /\ v.slaves = [m \in Node |-> IF n \in Slave /\ MasterOf[n] = m THEN {n} ELSE {}]
        /\ v.slots = [j \in Slot |-> IF n \in Master /\ SlotOf[n] = j THEN n ELSE Null]
    BY <2>1 DEF clusterInit
  <2>6. v \in Table
    BY <2>1, <2>2, <2>3 DEF clusterInit, Table
  <2>7. Consistent(v.role, v.slaveof, v.slaves, v.slots)
    BY <2>2, <2>4, <2>5, NullFact DEF Consistent
  <2>8. EpochsSound(v) BY <2>5 DEF EpochsSound
  <2> QED BY <2>1, <2>5, <2>6, <2>7, <2>8 DEF Sound, RolesSound
<1>2. \A n \in Node : st[n] = clusterInit(n) BY DEF Init
<1>3. st \in [Node -> Table] BY <1>1 DEF Init, Sound, RolesSound
<1>4. failovers \in 0..MaxFailovers BY ConfigAssumption DEF Init
<1> QED BY <1>1, <1>2, <1>3, <1>4 DEF Init, IInv

\* The tables and the count of failovers keep their types.
THEOREM TypeCorrect == Spec => []TypeOK
<1>1. IInv => TypeOK BY DEF IInv, TypeOK
<1>2. IInv /\ [Next]_vars => IInv' BY IInvStep
<1> QED BY IInvInit, <1>1, <1>2, PTL DEF Spec

\* Whatever packets arrive late, in whatever order, and whoever takes over whose
\* slots: in every table slots belong to masters and lists of slaves hold only
\* nodes that point back (clusterSetMaster, clusterSetNodeAsMaster, the role
\* switches of clusterProcessPacket).
THEOREM RolesAlwaysAgree == Spec => []RolesAgree
<1>1. IInv => RolesAgree
  BY DEF IInv, Sound, RolesSound, Consistent, RolesAgree, nodeIsMaster
<1>2. IInv /\ [Next]_vars => IInv' BY IInvStep
<1> QED BY IInvInit, <1>1, <1>2, PTL DEF Spec

\* An old header never takes a slot back: in every table the owner of a bound
\* slot only changes for one with a config epoch that is not older
\* (clusterUpdateSlotsConfigWith, clusterFailoverReplaceYourMaster).
THEOREM OwnersOnlyGrow == Spec => OwnerEpochGrows
<1>1. IInv /\ [Next]_vars => IInv' BY IInvStep
<1>2. IInv /\ [Next]_vars =>
        [\A n \in Node : \A j \in Slot :
           st[n].slots[j] # Null /\ st'[n].slots[j] # Null =>
             st[n].configEpoch[st[n].slots[j]] <= st'[n].configEpoch[st'[n].slots[j]]]_vars
  BY IInvStep DEF TablesFollow, Follows, OwnerGrows
<1> QED BY IInvInit, <1>1, <1>2, PTL DEF Spec, OwnerEpochGrows

=============================================================================
