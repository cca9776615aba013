----------------------- MODULE ClusterElectionProofs -----------------------
(* What two winners of one epoch cost in a Redis Cluster, for any number of   *)
(* masters and slaves, any links between them, any number of attempts, of     *)
(* restarts and of manual failovers, and packets however late.                *)
(*                                                                            *)
(* A vote is a triple: voter, slave and epoch.  The votes a slave counts      *)
(* after it has asked are votes of its own epoch, one per voter, because a    *)
(* request reaches a voter once and an epoch is saved before it is used.  A   *)
(* voter votes again in an epoch only when a restart took its last vote back  *)
(* below that epoch.                                                          *)
EXTENDS ClusterElection, FiniteSetTheorems, TLAPS

-----------------------------------------------------------------------------
(* The inductive invariant *)

\* What every step keeps of a table of n.
Sound(n, v) == v \in Table /\ v.myself = n /\ v.nodes = Node /\ v.size = N

TablesInv == st \in [Node -> Table] /\ \A n \in Node : Sound(n, st[n])

Files == [Node -> [epoch : Nat, vote : Nat]]

\* A node is never behind its file, and has not voted after its current epoch.
EpochsInv ==
  /\ vote \in [Node -> Nat] /\ saved \in Files
  /\ \A n \in Node : /\ vote[n] <= st[n].currentEpoch
                     /\ saved[n].vote <= saved[n].epoch
                     /\ saved[n].epoch <= st[n].currentEpoch

Attempts == [Node -> [phase : {"none", "scheduled", "sent"}, count : Nat, epoch : Nat]]
Tallies == [Node -> [late : Nat, from : SUBSET Node]]

\* The count is that of the history; its voters answered the current request.
AttemptSound(s, att, tal) ==
  /\ att[s].count = tal[s].late + Cardinality(tal[s].from)
  /\ att[s].phase # "sent" => tal[s].from = {}

AttemptsInv ==
  /\ attempt \in Attempts /\ tally \in Tallies
  /\ \A s \in Node : AttemptSound(s, attempt, tally)

\* The slave a request is from, or an ack is for.
Candidate(p) == IF p.type = "request" THEN p.sender ELSE p.to
Voter(p) == IF p.type = "request" THEN p.to ELSE p.sender

PacketSound(p) ==
  /\ p.type \in {"request", "ack", "pong"} /\ p.sender \in Node /\ p.to \in Node
  /\ p.sender # p.to /\ p.currentEpoch \in Nat /\ p.configEpoch \in Nat
  /\ p.type = "pong" => p.slaveof = Null

\* The epoch of p is one its candidate has asked in, and saved.
Asked(p, files, att) ==
  p.type # "pong" =>
    /\ p.currentEpoch <= files[Candidate(p)].epoch
    /\ att[Candidate(p)].phase = "sent" => p.currentEpoch <= att[Candidate(p)].epoch

NetInv ==
  /\ \A p \in net : PacketSound(p) /\ Asked(p, saved, attempt)
  /\ \A p, q \in net : /\ p.type # "pong" /\ p.type = q.type /\ Voter(p) = Voter(q)
                       /\ Candidate(p) = Candidate(q) /\ p.currentEpoch = q.currentEpoch
                      => p = q

\* n has voted for s in epoch e: its ack is on its way, is counted, or won.
UnderWay(n, s, e, packets) ==
  \E p \in packets : p.type = "ack" /\ p.sender = n /\ p.to = s /\ p.currentEpoch = e
Counted(n, s, e, att, tal) ==
  att[s].phase = "sent" /\ att[s].epoch = e /\ n \in tal[s].from
Decided(n, s, e, wins) == \E w \in wins : w.slave = s /\ w.epoch = e /\ n \in w.from

Cast(n, s, e) ==
  UnderWay(n, s, e, net) \/ Counted(n, s, e, attempt, tally) \/ Decided(n, s, e, won)

CastInv ==
  /\ \A n, s \in Node, e \in Nat : Cast(n, s, e) =>
       e <= saved[s].epoch /\ (e <= vote[n] \/ <<n, e>> \in forgot)
  /\ \A n, s, t \in Node, e \in Nat : s # t /\ Cast(n, s, e) /\ Cast(n, t, e) =>
       <<n, e>> \in forgot
  /\ \A p \in net : p.type = "request" => ~Cast(p.to, p.sender, p.currentEpoch)
  /\ \A p \in net : p.type = "ack" => ~Counted(p.sender, p.to, p.currentEpoch, attempt, tally)

WinSound(w) ==
  /\ w.slave \in Node /\ w.epoch \in Nat /\ w.late \in Nat /\ w.from \in SUBSET Node
  /\ N \div 2 + 1 <= w.late + Cardinality(w.from)

WonInv == \A w \in won : WinSound(w)

IInv == TablesInv /\ EpochsInv /\ AttemptsInv /\ NetInv /\ CastInv /\ WonInv

-----------------------------------------------------------------------------
(* The operators of ClusterState on a table *)

\* What the constants are.
LEMMA ConstantFacts ==
  ASSUME ElectionAssumption
  PROVE  /\ Null \notin Node /\ N \in Nat /\ Master \subseteq Node /\ IsFiniteSet(Node)
         /\ \A m \in Master : m \in Nat
         /\ Failed \in Node /\ Failed \in Nat /\ \A j \in Slot : j \in Node
BY DEF ElectionAssumption

\* The fields no step changes.
Kept(v, w) ==
  w \in Table /\ w.myself = v.myself /\ w.nodes = v.nodes /\ w.size = v.size /\ w.fail = v.fail

SameEpochs(v, w) == w.currentEpoch = v.currentEpoch /\ w.configEpoch = v.configEpoch

LEMMA Fields ==
  ASSUME NEW v \in Table
  PROVE  /\ v.myself \in Node /\ v.currentEpoch \in Nat /\ v.configEpoch \in [Node -> Nat]
         /\ v.role \in [Node -> {"master", "slave"}]
         /\ v.slaveof \in [Node -> Node \cup {Null}]
         /\ v.slots \in [Slot -> Node \cup {Null}]
BY DEF Table

\* The records the operators are made of.
WithEpochs(v, n, c, e) == [v EXCEPT !.currentEpoch = c, !.configEpoch[n] = e]
Promoted(v, n) == [v EXCEPT !.role[n] = "master", !.slaveof[n] = Null]
Demoted(v, n) == clusterCloseAllSlots([v EXCEPT !.role[n] = "slave"])
WithMaster(v, n, m) == [v EXCEPT !.slaveof[n] = m]
WithSlots(v, f) == [v EXCEPT !.slots = f]
WithoutKeys(v, K) == [v EXCEPT !.keys = @ \ K]
WithClaim(v, n, e, f) == [v EXCEPT !.configEpoch[n] = e, !.slots = f]

LEMMA WithEpochsFields ==
  ASSUME NEW v \in Table, NEW n \in Node, NEW c \in Nat, NEW e \in Nat
  PROVE  /\ Kept(v, WithEpochs(v, n, c, e))
         /\ WithEpochs(v, n, c, e).currentEpoch = c
         /\ WithEpochs(v, n, c, e).configEpoch = [v.configEpoch EXCEPT ![n] = e]
         /\ WithEpochs(v, n, c, e).role = v.role
         /\ WithEpochs(v, n, c, e).slaveof = v.slaveof
         /\ WithEpochs(v, n, c, e).slots = v.slots
<1>1. WithEpochs(v, n, c, e) \in Table BY DEF WithEpochs, Table
<1>2. Kept(v, WithEpochs(v, n, c, e)) BY <1>1 DEF WithEpochs, Table, Kept
<1>3. /\ WithEpochs(v, n, c, e).currentEpoch = c
      /\ WithEpochs(v, n, c, e).configEpoch = [v.configEpoch EXCEPT ![n] = e]
      /\ WithEpochs(v, n, c, e).role = v.role
      /\ WithEpochs(v, n, c, e).slaveof = v.slaveof
      /\ WithEpochs(v, n, c, e).slots = v.slots
  BY DEF WithEpochs, Table
<1> QED BY <1>2, <1>3

LEMMA PromotedFields ==
  ASSUME NEW v \in Table, NEW n \in Node
  PROVE  /\ Kept(v, Promoted(v, n)) /\ SameEpochs(v, Promoted(v, n))
         /\ Promoted(v, n).role = [v.role EXCEPT ![n] = "master"]
         /\ Promoted(v, n).slaveof = [v.slaveof EXCEPT ![n] = Null]
         /\ Promoted(v, n).slots = v.slots
<1>1. Promoted(v, n) \in Table BY DEF Promoted, Table
<1>2. Kept(v, Promoted(v, n)) BY <1>1 DEF Promoted, Table, Kept
<1>3. /\ SameEpochs(v, Promoted(v, n))
      /\ Promoted(v, n).role = [v.role EXCEPT ![n] = "master"]
      /\ Promoted(v, n).slaveof = [v.slaveof EXCEPT ![n] = Null]
      /\ Promoted(v, n).slots = v.slots
  BY DEF Promoted, Table, SameEpochs
<1> QED BY <1>2, <1>3

LEMMA DemotedFields ==
  ASSUME NEW v \in Table, NEW n \in Node
  PROVE  /\ Kept(v, Demoted(v, n)) /\ SameEpochs(v, Demoted(v, n))
         /\ Demoted(v, n).role = [v.role EXCEPT ![n] = "slave"]
         /\ Demoted(v, n).slaveof = v.slaveof
         /\ Demoted(v, n).slots = v.slots
<1>1. Demoted(v, n) \in Table BY DEF Demoted, clusterCloseAllSlots, Table
<1>2. Kept(v, Demoted(v, n)) BY <1>1 DEF Demoted, clusterCloseAllSlots, Table, Kept
<1>3. /\ SameEpochs(v, Demoted(v, n))
      /\ Demoted(v, n).role = [v.role EXCEPT ![n] = "slave"]
      /\ Demoted(v, n).slaveof = v.slaveof
      /\ Demoted(v, n).slots = v.slots
  BY DEF Demoted, clusterCloseAllSlots, Table, SameEpochs
<1> QED BY <1>2, <1>3

LEMMA WithMasterFields ==
  ASSUME NEW v \in Table, NEW n \in Node, NEW m \in Node
  PROVE  /\ Kept(v, WithMaster(v, n, m)) /\ SameEpochs(v, WithMaster(v, n, m))
         /\ WithMaster(v, n, m).role = v.role
         /\ WithMaster(v, n, m).slaveof = [v.slaveof EXCEPT ![n] = m]
         /\ WithMaster(v, n, m).slots = v.slots
<1>1. WithMaster(v, n, m) \in Table BY DEF WithMaster, Table
<1>2. Kept(v, WithMaster(v, n, m)) BY <1>1 DEF WithMaster, Table, Kept
<1>3. /\ SameEpochs(v, WithMaster(v, n, m))
      /\ WithMaster(v, n, m).role = v.role
      /\ WithMaster(v, n, m).slaveof = [v.slaveof EXCEPT ![n] = m]
      /\ WithMaster(v, n, m).slots = v.slots
  BY DEF WithMaster, Table, SameEpochs
<1> QED BY <1>2, <1>3

LEMMA SlavesFields ==
  ASSUME NEW v \in Table, NEW n \in Node, NEW m \in Node,
         NEW w \in {clusterNodeRemoveSlave(v, m, n), clusterNodeAddSlave(v, m, n)}
  PROVE  /\ Kept(v, w) /\ SameEpochs(v, w)
         /\ w.role = v.role /\ w.slaveof = v.slaveof /\ w.slots = v.slots
<1>1. w \in Table BY DEF clusterNodeRemoveSlave, clusterNodeAddSlave, Table
<1>2. Kept(v, w) BY <1>1 DEF clusterNodeRemoveSlave, clusterNodeAddSlave, Table, Kept
<1>3. SameEpochs(v, w) /\ w.role = v.role /\ w.slaveof = v.slaveof /\ w.slots = v.slots
  BY DEF clusterNodeRemoveSlave, clusterNodeAddSlave, Table, SameEpochs
<1> QED BY <1>2, <1>3

LEMMA WithSlotsFields ==
  ASSUME NEW v \in Table, NEW f \in [Slot -> Node \cup {Null}]
  PROVE  /\ Kept(v, WithSlots(v, f)) /\ SameEpochs(v, WithSlots(v, f))
         /\ WithSlots(v, f).role = v.role /\ WithSlots(v, f).slaveof = v.slaveof
         /\ WithSlots(v, f).slots = f
<1>1. WithSlots(v, f) \in Table BY DEF WithSlots, Table
<1>2. Kept(v, WithSlots(v, f)) BY <1>1 DEF WithSlots, Table, Kept
<1>3. /\ SameEpochs(v, WithSlots(v, f))
      /\ WithSlots(v, f).role = v.role /\ WithSlots(v, f).slaveof = v.slaveof
      /\ WithSlots(v, f).slots = f
  BY DEF WithSlots, Table, SameEpochs
<1> QED BY <1>2, <1>3

LEMMA WithoutKeysFields ==
  ASSUME NEW v \in Table, NEW K
  PROVE  /\ Kept(v, WithoutKeys(v, K)) /\ SameEpochs(v, WithoutKeys(v, K))
         /\ WithoutKeys(v, K).role = v.role /\ WithoutKeys(v, K).slaveof = v.slaveof
         /\ WithoutKeys(v, K).slots = v.slots
<1>1. WithoutKeys(v, K) \in Table BY DEF WithoutKeys, Table
<1>2. Kept(v, WithoutKeys(v, K)) BY <1>1 DEF WithoutKeys, Table, Kept
<1>3. /\ SameEpochs(v, WithoutKeys(v, K))
      /\ WithoutKeys(v, K).role = v.role /\ WithoutKeys(v, K).slaveof = v.slaveof
      /\ WithoutKeys(v, K).slots = v.slots
  BY DEF WithoutKeys, Table, SameEpochs
<1> QED BY <1>2, <1>3

LEMMA WithClaimFields ==
  ASSUME NEW v \in Table, NEW n \in Node, NEW e \in Nat, NEW f \in [Slot -> Node \cup {Null}]
  PROVE  /\ Kept(v, WithClaim(v, n, e, f))
         /\ WithClaim(v, n, e, f).currentEpoch = v.currentEpoch
         /\ WithClaim(v, n, e, f).configEpoch = [v.configEpoch EXCEPT ![n] = e]
         /\ WithClaim(v, n, e, f).role = v.role
         /\ WithClaim(v, n, e, f).slaveof = v.slaveof
         /\ WithClaim(v, n, e, f).slots = f
<1>1. WithClaim(v, n, e, f) \in Table BY DEF WithClaim, Table
<1>2. Kept(v, WithClaim(v, n, e, f)) BY <1>1 DEF WithClaim, Table, Kept
<1>3. /\ WithClaim(v, n, e, f).currentEpoch = v.currentEpoch
      /\ WithClaim(v, n, e, f).configEpoch = [v.configEpoch EXCEPT ![n] = e]
      /\ WithClaim(v, n, e, f).role = v.role
      /\ WithClaim(v, n, e, f).slaveof = v.slaveof
      /\ WithClaim(v, n, e, f).slots = f
  BY DEF WithClaim, Table
<1> QED BY <1>2, <1>3

\* What a step of n does to its table: it stays sound, and the epoch does not
\* go back.
Goes(n, v, w) == Sound(n, w) /\ w.currentEpoch >= v.currentEpoch

LEMMA GoesKept ==
  ASSUME NEW n, NEW v, Sound(n, v), NEW w, Kept(v, w), w.currentEpoch = v.currentEpoch
  PROVE  Goes(n, v, w)
<1>1. v.currentEpoch \in Nat BY Fields DEF Sound
<1>2. Sound(n, w) BY DEF Sound, Kept
<1> QED BY <1>1, <1>2 DEF Goes

LEMMA GoesOn ==
  ASSUME NEW n, NEW u, NEW v, NEW w, Sound(n, u), Goes(n, u, v), Goes(n, v, w)
  PROVE  Goes(n, u, w)
<1>1. u.currentEpoch \in Nat /\ v.currentEpoch \in Nat /\ w.currentEpoch \in Nat
  BY Fields DEF Sound, Goes
<1> QED BY <1>1 DEF Goes

\* The epochs of a packet are learnt.
LEMMA LearnFields ==
  ASSUME NEW v \in Table, v.nodes = Node, NEW p, p.sender \in Node,
         p.currentEpoch \in Nat, p.configEpoch \in Nat, NEW w, w = LearnEpochs(v, p)
  PROVE  /\ Kept(v, w) /\ w.role = v.role /\ w.slaveof = v.slaveof /\ w.slots = v.slots
         /\ w.currentEpoch = IF p.currentEpoch > v.currentEpoch
                             THEN p.currentEpoch ELSE v.currentEpoch
         /\ w.configEpoch = [v.configEpoch EXCEPT ![p.sender] =
                               IF p.configEpoch > @ THEN p.configEpoch ELSE @]
<1>0. v.currentEpoch \in Nat /\ v.configEpoch \in [Node -> Nat] BY Fields
<1>1. PICK c : c = IF p.currentEpoch > v.currentEpoch THEN p.currentEpoch ELSE v.currentEpoch
  OBVIOUS
<1>2. PICK e : e = IF p.configEpoch > v.configEpoch[p.sender]
                   THEN p.configEpoch ELSE v.configEpoch[p.sender]
  OBVIOUS
<1>3. c \in Nat /\ e \in Nat BY <1>0, <1>1, <1>2
<1>4. w = WithEpochs(v, p.sender, c, e) BY <1>1, <1>2 DEF LearnEpochs, WithEpochs
<1>5. /\ Kept(v, w) /\ w.role = v.role /\ w.slaveof = v.slaveof /\ w.slots = v.slots
      /\ w.currentEpoch = c /\ w.configEpoch = [v.configEpoch EXCEPT ![p.sender] = e]
  BY <1>3, <1>4, WithEpochsFields
<1> QED BY <1>1, <1>2, <1>5

LEMMA LeaveMasterFields ==
  ASSUME NEW v \in Table, NEW n \in Node, NEW w, w = LeaveMaster(v, n)
  PROVE  /\ Kept(v, w) /\ SameEpochs(v, w)
         /\ w.role = v.role /\ w.slaveof = v.slaveof /\ w.slots = v.slots
<1>1. CASE v.slaveof[n] = Null BY <1>1 DEF LeaveMaster, Kept, SameEpochs
<1>2. CASE v.slaveof[n] # Null
  <2>1. v.slaveof[n] \in Node BY <1>2, Fields
  <2>2. w = clusterNodeRemoveSlave(v, v.slaveof[n], n) BY <1>2 DEF LeaveMaster
  <2> QED BY <2>1, <2>2, SlavesFields
<1> QED BY <1>1, <1>2

LEMMA SetNodeAsMasterFields ==
  ASSUME NEW v \in Table, NEW n \in Node, NEW w, w = clusterSetNodeAsMaster(v, n)
  PROVE  /\ Kept(v, w) /\ SameEpochs(v, w) /\ w.slots = v.slots
         /\ w.role = [v.role EXCEPT ![n] = "master"]
         /\ \A x \in Node : x # n => w.slaveof[x] = v.slaveof[x]
         /\ ~nodeIsMaster(v, n) => w.slaveof[n] = Null
<1>0. v.role \in [Node -> {"master", "slave"}] /\ v.slaveof \in [Node -> Node \cup {Null}]
  BY Fields
<1>1. CASE nodeIsMaster(v, n)
  <2>1. w = v BY <1>1 DEF clusterSetNodeAsMaster
  <2>2. v.role[n] = "master" BY <1>1 DEF nodeIsMaster
  <2>3. v.role = [v.role EXCEPT ![n] = "master"] BY <1>0, <2>2
  <2> QED BY <1>1, <2>1, <2>3 DEF Kept, SameEpochs
<1>2. CASE ~nodeIsMaster(v, n)
  <2>0. PICK u : u = LeaveMaster(v, n) OBVIOUS
  <2>1. /\ Kept(v, u) /\ SameEpochs(v, u)
        /\ u.role = v.role /\ u.slaveof = v.slaveof /\ u.slots = v.slots
    BY <2>0, LeaveMasterFields
  <2>2. w = Promoted(u, n) BY <1>2, <2>0 DEF clusterSetNodeAsMaster, Promoted
  <2>3. u \in Table BY <2>1 DEF Kept
  <2>4. /\ Kept(u, w) /\ SameEpochs(u, w) /\ w.slots = u.slots
        /\ w.role = [u.role EXCEPT ![n] = "master"]
        /\ w.slaveof = [u.slaveof EXCEPT ![n] = Null]
    BY <2>2, <2>3, PromotedFields
  <2>5. Kept(v, w) /\ SameEpochs(v, w) BY <2>1, <2>4 DEF Kept, SameEpochs
  <2>6. \A x \in Node : x # n => w.slaveof[x] = v.slaveof[x] BY <1>0, <2>1, <2>4
  <2>7. w.slaveof[n] = Null BY <1>0, <2>1, <2>4
  <2> QED BY <2>1, <2>4, <2>5, <2>6, <2>7
<1> QED BY <1>1, <1>2

LEMMA SetMasterFields ==
  ASSUME NEW v \in Table, NEW m \in Node, NEW w, w = clusterSetMaster(v, m)
  PROVE  /\ Kept(v, w) /\ SameEpochs(v, w) /\ w.slots = v.slots
         /\ w.role[v.myself] = "slave" /\ w.slaveof[v.myself] = m
<1> DEFINE me == v.myself
<1>0. me \in Node /\ v.role \in [Node -> {"master", "slave"}] BY Fields
<1>1. PICK u : u = IF nodeIsMaster(v, me)
                   THEN clusterCloseAllSlots([v EXCEPT !.role[me] = "slave"])
                   ELSE LeaveMaster(v, me)
  OBVIOUS
<1>2. /\ Kept(v, u) /\ SameEpochs(v, u) /\ u.slots = v.slots /\ u.role[me] = "slave"
  <2>1. CASE nodeIsMaster(v, me)
    <3>1. u = Demoted(v, me) BY <1>1, <2>1 DEF Demoted
    <3>2. /\ Kept(v, u) /\ SameEpochs(v, u) /\ u.slots = v.slots
          /\ u.role = [v.role EXCEPT ![me] = "slave"]
      BY <1>0, <3>1, DemotedFields
    <3> QED BY <1>0, <3>2
  <2>2. CASE ~nodeIsMaster(v, me)
    <3>1. u = LeaveMaster(v, me) BY <1>1, <2>2
    <3>2. Kept(v, u) /\ SameEpochs(v, u) /\ u.slots = v.slots /\ u.role = v.role
      BY <1>0, <3>1, LeaveMasterFields
    <3> QED BY <1>0, <2>2, <3>2 DEF nodeIsMaster
  <2> QED BY <2>1, <2>2
<1>3. PICK t : t = WithMaster(u, me, m) OBVIOUS
<1>4. u \in Table BY <1>2 DEF Kept
<1>5. /\ Kept(u, t) /\ SameEpochs(u, t) /\ t.slots = u.slots /\ t.role = u.role
      /\ t.slaveof = [u.slaveof EXCEPT ![me] = m]
  BY <1>0, <1>3, <1>4, WithMasterFields
<1>6. t \in Table BY <1>5 DEF Kept
<1>7. w = clusterNodeAddSlave(t, m, me) BY <1>1, <1>3 DEF clusterSetMaster, WithMaster
<1>8. /\ Kept(t, w) /\ SameEpochs(t, w) /\ w.slots = t.slots /\ w.role = t.role
      /\ w.slaveof = t.slaveof
  BY <1>0, <1>6, <1>7, SlavesFields
<1>9. Kept(v, w) /\ SameEpochs(v, w) BY <1>2, <1>5, <1>8 DEF Kept, SameEpochs
<1>10. w.slaveof[me] = m
  <2>1. u.slaveof \in [Node -> Node \cup {Null}] BY <1>4, Fields
  <2> QED BY <1>0, <1>5, <1>8, <2>1
<1> QED BY <1>2, <1>5, <1>8, <1>9, <1>10

\* The epochs of a packet.
LEMMA LearnSound ==
  ASSUME NEW n \in Node, NEW v, Sound(n, v), NEW p, PacketSound(p), NEW w, w = LearnEpochs(v, p)
  PROVE  /\ Goes(n, v, w) /\ w.currentEpoch \in Nat /\ w.currentEpoch >= p.currentEpoch
<1>0. /\ v \in Table /\ v.nodes = Node /\ p.sender \in Node
      /\ p.currentEpoch \in Nat /\ p.configEpoch \in Nat
  BY DEF Sound, PacketSound
<1>1. v.currentEpoch \in Nat BY <1>0, Fields
<1>2. /\ Kept(v, w) /\ w.role = v.role /\ w.slaveof = v.slaveof /\ w.slots = v.slots
      /\ w.currentEpoch = IF p.currentEpoch > v.currentEpoch
                          THEN p.currentEpoch ELSE v.currentEpoch
      /\ w.configEpoch = [v.configEpoch EXCEPT ![p.sender] =
                            IF p.configEpoch > @ THEN p.configEpoch ELSE @]
  BY <1>0, LearnFields
<1>3. Sound(n, w) BY <1>2 DEF Sound, Kept
<1>4. /\ w.currentEpoch \in Nat /\ w.currentEpoch >= p.currentEpoch
      /\ w.currentEpoch >= v.currentEpoch
  BY <1>0, <1>1, <1>2
<1> QED BY <1>3, <1>4 DEF Goes

\* A PONG shows that its sender is a master now.
LEMMA RoleSwitchSound ==
  ASSUME NEW n, NEW v, Sound(n, v), NEW p, p.sender \in Node, p.slaveof = Null,
         NEW w, w = RoleSwitch(v, p)
  PROVE  Goes(n, v, w)
<1>1. w = clusterSetNodeAsMaster(v, p.sender) BY DEF RoleSwitch
<1>2. Kept(v, w) /\ SameEpochs(v, w) BY <1>1, SetNodeAsMasterFields DEF Sound
<1> QED BY <1>2, GoesKept DEF SameEpochs

LEMMA UpdateSlotsSound ==
  ASSUME NEW n, NEW v, Sound(n, v), NEW sender \in Node, NEW epoch, NEW claimed,
         NEW w, w = clusterUpdateSlotsConfigWith(v, sender, epoch, claimed)
  PROVE  Goes(n, v, w)
<1>0. v \in Table /\ v.myself = n /\ v.currentEpoch \in Nat BY Fields DEF Sound
<1>1. v.slots \in [Slot -> Node \cup {Null}] BY <1>0, Fields
<1>2. CASE sender = n
  <2>1. w = v BY <1>0, <1>2 DEF clusterUpdateSlotsConfigWith
  <2> QED BY <1>0, <2>1 DEF Goes
<1>3. CASE sender # n
  <2>1. PICK taken : taken = SlotsTaken(v, sender, epoch, claimed) OBVIOUS
  <2>2. PICK f : f = [j \in Slot |-> IF j \in taken THEN sender ELSE v.slots[j]] OBVIOUS
  <2>3. PICK u : u = WithSlots(v, f) OBVIOUS
  <2>4. f \in [Slot -> Node \cup {Null}] BY <1>1, <2>2
  <2>5. Kept(v, u) /\ SameEpochs(v, u) BY <1>0, <2>3, <2>4, WithSlotsFields
  <2>6. u \in Table BY <2>5 DEF Kept
  <2>7. PICK cur : cur = IF nodeIsMaster(v, n) THEN n ELSE v.slaveof[n] OBVIOUS
  <2>8. w = IF (\E j \in taken : v.slots[j] = cur) /\ SlotsOf(u, cur) = {}
            THEN clusterSetMaster(u, sender)
            ELSE WithoutKeys(u, {j \in taken : v.slots[j] = v.myself /\ j \in v.keys})
    BY <1>0, <1>3, <2>1, <2>2, <2>3, <2>7
       DEF clusterUpdateSlotsConfigWith, WithSlots, WithoutKeys
  <2>9. Kept(u, w) /\ SameEpochs(u, w) BY <2>6, <2>8, SetMasterFields, WithoutKeysFields
  <2>10. Kept(v, w) /\ w.currentEpoch = v.currentEpoch BY <2>5, <2>9 DEF Kept, SameEpochs
  <2> QED BY <2>10, GoesKept
<1> QED BY <1>2, <1>3

LEMMA CollisionSound ==
  ASSUME NEW n \in Node, NEW v, Sound(n, v), NEW sender,
         NEW w, w = clusterHandleConfigEpochCollision(v, sender)
  PROVE  Goes(n, v, w)
<1>0. v \in Table /\ v.myself = n /\ v.currentEpoch \in Nat BY Fields DEF Sound
<1>1. CASE w = v BY <1>0, <1>1 DEF Goes
<1>2. CASE w = NextConfigEpoch(v)
  <2>1. w = WithEpochs(v, n, v.currentEpoch + 1, v.currentEpoch + 1)
    BY <1>0, <1>2 DEF NextConfigEpoch, WithEpochs
  <2>2. /\ Kept(v, w) /\ w.role = v.role /\ w.slaveof = v.slaveof /\ w.slots = v.slots
        /\ w.currentEpoch = v.currentEpoch + 1
        /\ w.configEpoch = [v.configEpoch EXCEPT ![n] = v.currentEpoch + 1]
    BY <1>0, <2>1, WithEpochsFields
  <2>3. Sound(n, w) BY <2>2 DEF Sound, Kept
  <2> QED BY <1>0, <2>2, <2>3 DEF Goes
<1> QED BY <1>1, <1>2 DEF clusterHandleConfigEpochCollision

\* A slave takes over.
LEMMA PromoteSound ==
  ASSUME NEW n \in Node, NEW v, Sound(n, v), ~nodeIsMaster(v, n),
         NEW epoch \in Nat, NEW w, w = Promote(v, epoch)
  PROVE  Goes(n, v, w) /\ w.slaveof[n] = Null
<1>0. v \in Table /\ v.myself = n BY DEF Sound
<1>1. v.configEpoch \in [Node -> Nat] /\ v.slots \in [Slot -> Node \cup {Null}]
  BY <1>0, Fields
<1>2. PICK u : u = clusterSetNodeAsMaster(v, n) OBVIOUS
<1>3. /\ Kept(v, u) /\ SameEpochs(v, u) /\ u.slots = v.slots
      /\ u.role = [v.role EXCEPT ![n] = "master"] /\ u.slaveof[n] = Null
  BY <1>0, <1>2, SetNodeAsMasterFields
<1>4. PICK f : f = [j \in Slot |-> IF v.slots[j] = v.slaveof[n] THEN n ELSE v.slots[j]] OBVIOUS
<1>5. PICK e : e = IF v.configEpoch[n] < epoch THEN epoch ELSE v.configEpoch[n] OBVIOUS
<1>6. w = WithClaim(u, n, e, f)
  BY <1>0, <1>2, <1>3, <1>4, <1>5 DEF Promote, WithClaim, SameEpochs
<1>7. u \in Table /\ e \in Nat BY <1>1, <1>3, <1>5 DEF Kept
<1>8. f \in [Slot -> Node \cup {Null}] BY <1>1, <1>4
<1>9. /\ Kept(u, w) /\ w.currentEpoch = u.currentEpoch
      /\ w.configEpoch = [u.configEpoch EXCEPT ![n] = e]
      /\ w.role = u.role /\ w.slaveof = u.slaveof /\ w.slots = f
  BY <1>6, <1>7, <1>8, WithClaimFields
<1>10. Kept(v, w) /\ w.currentEpoch = v.currentEpoch BY <1>3, <1>9 DEF Kept, SameEpochs
<1> QED BY <1>3, <1>9, <1>10, GoesKept

-----------------------------------------------------------------------------
(* Packets *)

LEMMA PacketFields ==
  ASSUME NEW n \in Node, NEW v, Sound(n, v), NEW type \in {"request", "ack", "pong"},
         NEW to \in Node, to # n, NEW force, type = "pong" => v.slaveof[n] = Null,
         NEW p, p = Packet(v, type, to, force)
  PROVE  /\ p.type = type /\ p.to = to /\ p.sender = n /\ p.currentEpoch = v.currentEpoch
         /\ PacketSound(p)
<1>0. /\ v.myself = n /\ v.currentEpoch \in Nat /\ v.configEpoch \in [Node -> Nat]
      /\ v.slaveof \in [Node -> Node \cup {Null}]
  BY Fields DEF Sound
<1>1. PICK m : m = IF ~nodeIsMaster(v, n) /\ v.slaveof[n] # Null THEN v.slaveof[n] ELSE n
  OBVIOUS
<1>2. m \in Node BY <1>0, <1>1
<1>3. /\ p.type = type /\ p.to = to /\ p.sender = n /\ p.slaveof = v.slaveof[n]
      /\ p.currentEpoch = v.currentEpoch /\ p.configEpoch = v.configEpoch[m]
  BY <1>0, <1>1 DEF Packet, clusterBuildMessageHdr
<1> QED BY <1>0, <1>2, <1>3 DEF PacketSound

\* A broadcast is one packet per node, to others only.
LEMMA BroadcastFields ==
  ASSUME ElectionAssumption, NEW n \in Node, NEW v, Sound(n, v), NEW type \in {"request", "pong"},
         NEW force, type = "pong" => v.slaveof[n] = Null,
         NEW B, B = clusterBroadcastMessage(v, type, force)
  PROVE  /\ \A p \in B : /\ p.type = type /\ p.sender = n /\ p.currentEpoch = v.currentEpoch
                         /\ PacketSound(p)
         /\ \A p, q \in B : p.to = q.to => p = q
<1>1. ASSUME NEW p \in B
      PROVE  \E to \in Node : to # n /\ p = Packet(v, type, to, force)
  BY DEF clusterBroadcastMessage, ElectionAssumption, Sound
<1>2. ASSUME NEW p \in B
      PROVE  /\ p.type = type /\ p.sender = n /\ p.currentEpoch = v.currentEpoch
             /\ PacketSound(p) /\ p = Packet(v, type, p.to, force)
  <2>1. PICK to \in Node : to # n /\ p = Packet(v, type, to, force) BY <1>1
  <2>2. type \in {"request", "ack", "pong"} OBVIOUS
  <2> QED BY <2>1, <2>2, PacketFields
<1> QED BY <1>2

-----------------------------------------------------------------------------
(* What a step keeps *)

\* One table goes on, a vote is of its epoch, and what is saved is its state.
LEMMA TableStep ==
  ASSUME TablesInv, EpochsInv, NEW n \in Node, NEW w, Goes(n, st[n], w),
         st' = [st EXCEPT ![n] = w],
         vote' = vote \/ vote' = [vote EXCEPT ![n] = w.currentEpoch],
         \/ saved' = saved
         \/ saved' = [saved EXCEPT ![n] = [epoch |-> w.currentEpoch, vote |-> vote'[n]]]
  PROVE  /\ TablesInv' /\ EpochsInv'
         /\ \A m \in Node : saved'[m].epoch >= saved[m].epoch /\ vote'[m] >= vote[m]
<1>0. /\ w \in Table /\ w.currentEpoch \in Nat /\ st[n].currentEpoch \in Nat
      /\ w.currentEpoch >= st[n].currentEpoch
  BY Fields DEF Goes, Sound, TablesInv
<1>1. TablesInv' BY <1>0 DEF TablesInv, Goes
<1>2. \A m \in Node : st'[m].currentEpoch = IF m = n THEN w.currentEpoch ELSE st[m].currentEpoch
  BY DEF TablesInv
<1>3. \A m \in Node : st[m].currentEpoch \in Nat BY Fields DEF TablesInv
<1>4. vote' \in [Node -> Nat] /\ \A m \in Node : vote'[m] >= vote[m]
  BY <1>0, <1>3 DEF EpochsInv
<1>5. \A m \in Node : vote'[m] <= st'[m].currentEpoch
  BY <1>0, <1>2, <1>3 DEF EpochsInv
<1>6. saved' \in Files BY <1>0, <1>4 DEF EpochsInv, Files
<1>7. \A m \in Node : /\ saved'[m].vote <= saved'[m].epoch
                      /\ saved'[m].epoch <= st'[m].currentEpoch
                      /\ saved'[m].epoch >= saved[m].epoch
  <2> SUFFICES ASSUME NEW m \in Node
               PROVE  /\ saved'[m].vote <= saved'[m].epoch
                      /\ saved'[m].epoch <= st'[m].currentEpoch
                      /\ saved'[m].epoch >= saved[m].epoch
    OBVIOUS
  <2>1. /\ saved[m].vote <= saved[m].epoch /\ saved[m].epoch <= st[m].currentEpoch
        /\ saved[m].vote \in Nat /\ saved[m].epoch \in Nat
    BY DEF EpochsInv, Files
  <2>2. CASE saved'[m] = saved[m] BY <1>0, <1>2, <1>3, <2>1, <2>2
  <2>3. CASE m = n /\ saved'[m] = [epoch |-> w.currentEpoch, vote |-> vote'[m]]
    <3>1. saved'[m].epoch = w.currentEpoch /\ saved'[m].vote = vote'[m] BY <2>3
    <3>2. vote'[m] <= w.currentEpoch BY <1>2, <1>5, <2>3
    <3> QED BY <1>0, <1>2, <2>1, <2>3, <3>1, <3>2
  <2>4. saved'[m] = saved[m] \/ (m = n /\ saved'[m] = [epoch |-> w.currentEpoch, vote |-> vote'[m]])
    BY DEF EpochsInv, Files
  <2> QED BY <2>2, <2>3, <2>4
<1> QED BY <1>1, <1>4, <1>5, <1>6, <1>7 DEF EpochsInv

\* No attempt starts and only PONGs are sent.
LEMMA NetKept ==
  ASSUME EpochsInv, EpochsInv', AttemptsInv, AttemptsInv', NetInv,
         \A m \in Node : saved'[m].epoch >= saved[m].epoch,
         \A m \in Node : attempt'[m].phase = "sent" =>
           attempt[m].phase = "sent" /\ attempt'[m].epoch = attempt[m].epoch,
         \A p \in net' : p \in net \/ (p.type = "pong" /\ PacketSound(p))
  PROVE  NetInv'
<1>1. ASSUME NEW p \in net' PROVE PacketSound(p) /\ Asked(p, saved', attempt')
  <2>1. CASE p.type = "pong" BY <1>1, <2>1 DEF NetInv, Asked
  <2>2. CASE p \in net /\ p.type # "pong"
    <3>1. PacketSound(p) /\ Asked(p, saved, attempt) BY <2>2 DEF NetInv
    <3>2. PICK s \in Node : s = Candidate(p) BY <3>1 DEF PacketSound, Candidate
    <3>3. /\ p.currentEpoch \in Nat /\ p.currentEpoch <= saved[s].epoch
          /\ attempt[s].phase = "sent" => p.currentEpoch <= attempt[s].epoch
      BY <2>2, <3>1, <3>2 DEF PacketSound, Asked
    <3>4. saved[s].epoch \in Nat /\ saved'[s].epoch \in Nat BY DEF EpochsInv, Files
    <3>5. p.currentEpoch <= saved'[s].epoch BY <3>3, <3>4
    <3>6. attempt'[s].phase = "sent" => p.currentEpoch <= attempt'[s].epoch BY <3>3
    <3> QED BY <3>1, <3>2, <3>5, <3>6 DEF Asked
  <2> QED BY <1>1, <2>1, <2>2
<1>2. \A p \in net' : p.type # "pong" => p \in net OBVIOUS
<1> QED BY <1>1, <1>2 DEF NetInv

\* No vote is new and no request either.
LEMMA CastKept ==
  ASSUME EpochsInv, EpochsInv', NetInv, CastInv, forgot \subseteq forgot',
         \A m \in Node : saved'[m].epoch >= saved[m].epoch,
         \A m \in Node, e \in Nat : e <= vote[m] => e <= vote'[m] \/ <<m, e>> \in forgot',
         \A m, s \in Node, e \in Nat : Cast(m, s, e)' => Cast(m, s, e),
         \A p \in net' : p.type # "pong" => p \in net,
         \A p \in net' : p.type = "ack" =>
           ~Counted(p.sender, p.to, p.currentEpoch, attempt', tally')
  PROVE  CastInv'
<1>1. ASSUME NEW m \in Node, NEW s \in Node, NEW e \in Nat, Cast(m, s, e)'
      PROVE  e <= saved'[s].epoch /\ (e <= vote'[m] \/ <<m, e>> \in forgot')
  <2>1. e <= saved[s].epoch /\ (e <= vote[m] \/ <<m, e>> \in forgot) BY <1>1 DEF CastInv
  <2>2. saved[s].epoch \in Nat /\ saved'[s].epoch \in Nat BY DEF EpochsInv, Files
  <2> QED BY <2>1, <2>2
<1>2. ASSUME NEW m \in Node, NEW s \in Node, NEW t \in Node, NEW e \in Nat,
             s # t, Cast(m, s, e)', Cast(m, t, e)'
      PROVE  <<m, e>> \in forgot'
  BY <1>2 DEF CastInv
<1>3. ASSUME NEW p \in net', p.type = "request" PROVE ~Cast(p.to, p.sender, p.currentEpoch)'
  <2>1. p \in net BY <1>3
  <2>2. p.to \in Node /\ p.sender \in Node /\ p.currentEpoch \in Nat
    BY <2>1 DEF NetInv, PacketSound
  <2>3. ~Cast(p.to, p.sender, p.currentEpoch) BY <1>3, <2>1 DEF CastInv
  <2> QED BY <2>2, <2>3
<1> QED BY <1>1, <1>2, <1>3 DEF CastInv

-----------------------------------------------------------------------------
(* The initial state and the steps *)

LEMMA InitSound ==
  ASSUME ElectionAssumption, Init
  PROVE  IInv
<1>0. N \in Nat /\ N = Cardinality(Master) BY ConstantFacts DEF N
<1>1. PICK down \in BOOLEAN : st = [n \in Node |-> StartTable(n, down)] BY DEF Init
<1>2. ASSUME NEW n \in Node
      PROVE  Sound(n, StartTable(n, down)) /\ StartTable(n, down).currentEpoch = N
  <2>1. StartTable(n, down) \in Table
    BY <1>0, ConstantFacts DEF StartTable, Table
  <2> QED BY <1>0, <2>1 DEF StartTable, Sound
<1>3. TablesInv BY <1>1, <1>2 DEF TablesInv, Sound
<1>4. EpochsInv
  <2>1. \A n \in Node : st[n].currentEpoch = N BY <1>1, <1>2
  <2> QED BY <1>0, <2>1 DEF EpochsInv, Init, Files
<1>5. AttemptsInv
  <2>1. Cardinality({}) = 0 BY FS_EmptySet
  <2>2. /\ NoAttempt \in [phase : {"none", "scheduled", "sent"}, count : Nat, epoch : Nat]
        /\ NoVotes \in [late : Nat, from : SUBSET Node]
        /\ NoAttempt.count = 0 /\ NoVotes.late = 0 /\ NoVotes.from = {}
    BY DEF NoAttempt, NoVotes
  <2>3. attempt \in Attempts /\ tally \in Tallies BY <2>2 DEF Init, Attempts, Tallies
  <2>4. \A s \in Node : attempt[s] = NoAttempt /\ tally[s] = NoVotes BY DEF Init
  <2>5. ASSUME NEW s \in Node PROVE AttemptSound(s, attempt, tally)
    <3>1. attempt[s].count = 0 /\ tally[s].late = 0 /\ tally[s].from = {} BY <2>2, <2>4
    <3> QED BY <2>1, <3>1 DEF AttemptSound
  <2> QED BY <2>3, <2>5 DEF AttemptsInv
<1>6. NetInv BY DEF NetInv, Init
<1>7. CastInv
  BY DEF CastInv, Cast, UnderWay, Counted, Decided, Init, NoAttempt
<1>8. WonInv BY DEF WonInv, Init
<1> QED BY <1>3, <1>4, <1>5, <1>6, <1>7, <1>8 DEF IInv

\* The steps of a manual failover change nothing the invariant speaks of.
LEMMA ManualSound ==
  ASSUME IInv, UNCHANGED <<st, vote, attempt, saved, net, tally, forgot, won>>
  PROVE  IInv'
<1>1. TablesInv' /\ EpochsInv' BY DEF IInv, TablesInv, EpochsInv
<1>2. AttemptsInv' /\ NetInv' BY DEF IInv, AttemptsInv, NetInv
<1>3. CastInv' BY DEF IInv, CastInv, Cast
<1>4. WonInv' BY DEF IInv, WonInv
<1> QED BY <1>1, <1>2, <1>3, <1>4 DEF IInv

\* The fields of an attempt after it is scheduled, and after it has started.
LEMMA AttemptRecord ==
  ASSUME NEW a \in [phase : {"none", "scheduled", "sent"}, count : Nat, epoch : Nat], NEW e \in Nat,
         NEW b, b = [a EXCEPT !.phase = "scheduled", !.count = 0],
         NEW c, c = [a EXCEPT !.phase = "sent", !.epoch = e]
  PROVE  /\ b.phase = "scheduled" /\ b.count = 0
         /\ c.phase = "sent" /\ c.count = a.count /\ c.epoch = e
         /\ b \in [phase : {"none", "scheduled", "sent"}, count : Nat, epoch : Nat]
         /\ c \in [phase : {"none", "scheduled", "sent"}, count : Nat, epoch : Nat]
<1>1. b.phase = "scheduled" /\ b.count = 0 OBVIOUS
<1>2. c.phase = "sent" /\ c.count = a.count /\ c.epoch = e OBVIOUS
<1>3. b \in [phase : {"none", "scheduled", "sent"}, count : Nat, epoch : Nat] OBVIOUS
<1>4. c \in [phase : {"none", "scheduled", "sent"}, count : Nat, epoch : Nat] OBVIOUS
<1> QED BY <1>1, <1>2, <1>3, <1>4

\* One attempt and its tally change.
LEMMA AttemptStep ==
  ASSUME AttemptsInv, NEW s \in Node,
         NEW a \in [phase : {"none", "scheduled", "sent"}, count : Nat, epoch : Nat],
         NEW b \in [late : Nat, from : SUBSET Node],
         a.count = b.late + Cardinality(b.from), a.phase # "sent" => b.from = {},
         attempt' = [attempt EXCEPT ![s] = a], tally' = [tally EXCEPT ![s] = b]
  PROVE  AttemptsInv'
<1>1. attempt' \in Attempts /\ tally' \in Tallies BY DEF AttemptsInv, Attempts, Tallies
<1>2. ASSUME NEW t \in Node PROVE AttemptSound(t, attempt', tally')
  <2>1. CASE t = s
    <3>1. attempt'[t] = a /\ tally'[t] = b BY <2>1 DEF AttemptsInv, Attempts, Tallies
    <3> QED BY <3>1 DEF AttemptSound
  <2>2. CASE t # s
    <3>1. attempt'[t] = attempt[t] /\ tally'[t] = tally[t]
      BY <2>2 DEF AttemptsInv, Attempts, Tallies
    <3> QED BY <3>1 DEF AttemptsInv, AttemptSound
  <2> QED BY <2>1, <2>2
<1> QED BY <1>1, <1>2 DEF AttemptsInv

LEMMA ScheduleSound ==
  ASSUME IInv, NEW s \in Node, ScheduleElection(s)
  PROVE  IInv'
<1>0. Cardinality({}) = 0 BY FS_EmptySet
<1>1. TablesInv' /\ EpochsInv' /\ WonInv'
  BY DEF IInv, TablesInv, EpochsInv, WonInv, ScheduleElection
<1>2. PICK a : a = [attempt[s] EXCEPT !.phase = "scheduled", !.count = 0] OBVIOUS
<1>3. attempt' = [attempt EXCEPT ![s] = a] /\ tally' = [tally EXCEPT ![s] = NoVotes]
  BY <1>2 DEF ScheduleElection, IInv, AttemptsInv, Attempts
<1>4. /\ a.phase = "scheduled" /\ a.count = 0
      /\ a \in [phase : {"none", "scheduled", "sent"}, count : Nat, epoch : Nat]
  <2>1. attempt[s] \in [phase : {"none", "scheduled", "sent"}, count : Nat, epoch : Nat]
    BY DEF IInv, AttemptsInv, Attempts
  <2> QED BY <1>2, <2>1, AttemptRecord
<1>5. AttemptsInv'
  <2>1. /\ NoVotes \in [late : Nat, from : SUBSET Node] /\ NoVotes.from = {} /\ NoVotes.late = 0
    BY DEF NoVotes
  <2>2. a.count = NoVotes.late + Cardinality(NoVotes.from) BY <1>0, <1>4, <2>1
  <2> QED BY <1>3, <1>4, <2>1, <2>2, AttemptStep DEF IInv
<1>6. \A m \in Node : attempt'[m].phase = "sent" => m # s /\ attempt'[m] = attempt[m] /\ tally'[m] = tally[m]
  BY <1>3, <1>4 DEF IInv, AttemptsInv, Attempts, Tallies
<1>7. saved' = saved /\ net' = net /\ won' = won /\ vote' = vote /\ forgot' = forgot
  BY DEF ScheduleElection
<1>8. \A m \in Node : saved'[m].epoch >= saved[m].epoch
  BY <1>7 DEF IInv, EpochsInv, Files
<1>9. NetInv' BY <1>1, <1>5, <1>6, <1>7, <1>8, NetKept DEF IInv
<1>10. \A m, t \in Node, e \in Nat : Counted(m, t, e, attempt', tally') => Counted(m, t, e, attempt, tally)
  BY <1>6 DEF Counted
<1>11. \A m, t \in Node, e \in Nat : Cast(m, t, e)' => Cast(m, t, e)
  BY <1>7, <1>10 DEF Cast
<1>12. \A p \in net' : p.type = "ack" => ~Counted(p.sender, p.to, p.currentEpoch, attempt', tally')
  BY <1>7, <1>10 DEF IInv, CastInv, NetInv, PacketSound
<1>13. CastInv' BY <1>1, <1>7, <1>8, <1>11, <1>12, CastKept DEF IInv
<1> QED BY <1>1, <1>5, <1>9, <1>13 DEF IInv

\* The new epoch is after every one the slave has asked in.
LEMMA StartSound ==
  ASSUME ElectionAssumption, IInv, NEW s \in Node, StartElection(s)
  PROVE  IInv'
<1> DEFINE v == [st[s] EXCEPT !.currentEpoch = @ + 1]
           e == st[s].currentEpoch + 1
           B == clusterBroadcastMessage(v, "request", manual[s] # "no")
<1>0. /\ Sound(s, st[s]) /\ st[s].currentEpoch \in Nat /\ saved[s].epoch \in Nat
      /\ saved[s].epoch <= st[s].currentEpoch /\ vote[s] \in Nat
  BY Fields DEF IInv, TablesInv, EpochsInv, Sound, Files
<1>1. Goes(s, st[s], v) /\ v.currentEpoch = e
  <2>1. v \in Table /\ v.myself = s /\ v.nodes = Node /\ v.size = N /\ v.currentEpoch = e
    BY <1>0 DEF Sound, Table
  <2> QED BY <1>0, <2>1 DEF Goes, Sound
<1>2. /\ st' = [st EXCEPT ![s] = v] /\ net' = net \cup B
      /\ saved' = [saved EXCEPT ![s] = [epoch |-> v.currentEpoch, vote |-> vote[s]]]
      /\ attempt' = [attempt EXCEPT ![s].phase = "sent", ![s].epoch = v.currentEpoch]
      /\ attempt[s].phase = "scheduled"
      /\ vote' = vote /\ tally' = tally /\ forgot' = forgot /\ won' = won
  BY DEF StartElection, clusterSaveConfig
<1>3. /\ \A p \in B : p.type = "request" /\ p.sender = s /\ p.currentEpoch = e /\ PacketSound(p)
      /\ \A p, q \in B : p.to = q.to => p = q
  <2>1. Sound(s, v) BY <1>1 DEF Goes
  <2> HIDE DEF v
  <2>2. /\ \A p \in B : /\ p.type = "request" /\ p.sender = s
                        /\ p.currentEpoch = v.currentEpoch /\ PacketSound(p)
        /\ \A p, q \in B : p.to = q.to => p = q
    BY <2>1, BroadcastFields
  <2> QED BY <1>1, <2>2
<1> HIDE DEF v, B
<1>4. /\ TablesInv' /\ EpochsInv'
      /\ \A m \in Node : saved'[m].epoch >= saved[m].epoch /\ vote'[m] >= vote[m]
  BY <1>1, <1>2, TableStep DEF IInv
<1>5. saved'[s].epoch = e /\ \A m \in Node : m # s => saved'[m] = saved[m]
  BY <1>1, <1>2 DEF IInv, EpochsInv, Files
<1>6. /\ attempt'[s].phase = "sent" /\ attempt'[s].epoch = e
      /\ attempt'[s].count = attempt[s].count
      /\ attempt' \in Attempts
      /\ \A m \in Node : m # s => attempt'[m] = attempt[m]
  <2>1. attempt[s] \in [phase : {"none", "scheduled", "sent"}, count : Nat, epoch : Nat]
    BY DEF IInv, AttemptsInv, Attempts
  <2>2. PICK a : a = [attempt[s] EXCEPT !.phase = "sent", !.epoch = e] OBVIOUS
  <2>0. e \in Nat /\ attempt[s].count \in Nat BY <1>0, <2>1
  <2>4. /\ a.phase = "sent" /\ a.epoch = e /\ a.count = attempt[s].count
        /\ a \in [phase : {"none", "scheduled", "sent"}, count : Nat, epoch : Nat]
    BY <2>0, <2>1, <2>2, AttemptRecord
  <2>5. attempt' = [attempt EXCEPT ![s] = a]
    BY <1>1, <1>2, <2>2 DEF IInv, AttemptsInv, Attempts
  <2> QED BY <2>4, <2>5 DEF IInv, AttemptsInv, Attempts
<1>7. tally[s].from = {} BY <1>2 DEF IInv, AttemptsInv, AttemptSound
<1>8. AttemptsInv' BY <1>2, <1>6, <1>7 DEF IInv, AttemptsInv, AttemptSound
<1>9. \A p \in net : p.type # "pong" /\ Candidate(p) = s => p.currentEpoch \in Nat /\ p.currentEpoch < e
  BY <1>0 DEF IInv, NetInv, Asked, PacketSound
<1>10. NetInv'
  <2>1. ASSUME NEW p \in net' PROVE PacketSound(p) /\ Asked(p, saved', attempt')
    <3>1. CASE p \in B
      <4>1. Candidate(p) = s BY <1>3, <3>1 DEF Candidate
      <4> QED BY <1>0, <1>3, <1>5, <1>6, <3>1, <4>1 DEF Asked
    <3>2. CASE p \in net
      <4>1. PacketSound(p) /\ Asked(p, saved, attempt) BY <3>2 DEF IInv, NetInv
      <4>2. CASE p.type = "pong" BY <4>1, <4>2 DEF Asked
      <4>3. CASE p.type # "pong" /\ Candidate(p) = s
        <5>1. p.currentEpoch \in Nat /\ p.currentEpoch < e BY <1>9, <3>2, <4>3
        <5>2. p.currentEpoch <= e BY <1>0, <5>1
        <5> QED BY <1>5, <1>6, <4>1, <4>3, <5>2 DEF Asked
      <4>4. CASE p.type # "pong" /\ Candidate(p) # s
        <5>1. Candidate(p) \in Node BY <4>1 DEF PacketSound, Candidate
        <5> QED BY <1>5, <1>6, <4>1, <4>4, <5>1 DEF Asked
      <4> QED BY <4>2, <4>3, <4>4
    <3> QED BY <1>2, <3>1, <3>2
  <2>2. ASSUME NEW p \in net', NEW q \in net', p.type # "pong", p.type = q.type,
               Voter(p) = Voter(q), Candidate(p) = Candidate(q), p.currentEpoch = q.currentEpoch
        PROVE  p = q
    <3>1. CASE p \in net /\ q \in net BY <2>2, <3>1 DEF IInv, NetInv
    <3>2. CASE p \in B /\ q \in B
      <4>1. p.to = q.to BY <1>3, <2>2, <3>2 DEF Voter
      <4> QED BY <1>3, <3>2, <4>1
    <3>3. \A r \in B : r.type # "pong" /\ Candidate(r) = s /\ r.currentEpoch = e
      BY <1>3 DEF Candidate
    <3>4. CASE p \in net /\ q \in B
      <4>1. p.currentEpoch \in Nat /\ p.currentEpoch < e BY <1>9, <2>2, <3>3, <3>4
      <4> QED BY <1>0, <2>2, <3>3, <3>4, <4>1
    <3>5. CASE p \in B /\ q \in net
      <4>1. q.currentEpoch \in Nat /\ q.currentEpoch < e BY <1>9, <2>2, <3>3, <3>5
      <4> QED BY <1>0, <2>2, <3>3, <3>5, <4>1
    <3> QED BY <1>2, <3>1, <3>2, <3>4, <3>5
  <2> QED BY <2>1, <2>2 DEF NetInv
<1>11. \A m, t, x : Counted(m, t, x, attempt', tally') /\ t \in Node => Counted(m, t, x, attempt, tally)
  BY <1>2, <1>6, <1>7 DEF Counted
<1>12. \A m, t, x : UnderWay(m, t, x, net') => UnderWay(m, t, x, net)
  BY <1>2, <1>3 DEF UnderWay
<1>13. \A m, t \in Node, x \in Nat : Cast(m, t, x)' => Cast(m, t, x)
  BY <1>2, <1>11, <1>12 DEF Cast
<1>14. CastInv'
  <2>1. ASSUME NEW m \in Node, NEW t \in Node, NEW x \in Nat, Cast(m, t, x)'
        PROVE  x <= saved'[t].epoch /\ (x <= vote'[m] \/ <<m, x>> \in forgot')
    <3>1. x <= saved[t].epoch /\ (x <= vote[m] \/ <<m, x>> \in forgot)
      BY <1>13, <2>1 DEF IInv, CastInv
    <3>2. saved[t].epoch \in Nat /\ saved'[t].epoch \in Nat
      BY <1>4 DEF IInv, EpochsInv, Files
    <3> QED BY <1>2, <1>4, <3>1, <3>2
  <2>2. ASSUME NEW m \in Node, NEW t \in Node, NEW u \in Node, NEW x \in Nat,
               t # u, Cast(m, t, x)', Cast(m, u, x)'
        PROVE  <<m, x>> \in forgot'
    BY <1>2, <1>13, <2>2 DEF IInv, CastInv
  <2>3. ASSUME NEW p \in net', p.type = "request" PROVE ~Cast(p.to, p.sender, p.currentEpoch)'
    <3>0. p.to \in Node /\ p.sender \in Node /\ p.currentEpoch \in Nat
      BY <1>10 DEF NetInv, PacketSound
    <3>1. CASE p \in net
      <4>1. ~Cast(p.to, p.sender, p.currentEpoch) BY <2>3, <3>1 DEF IInv, CastInv
      <4> QED BY <1>13, <3>0, <4>1
    <3>2. CASE p \in B
      <4>1. p.sender = s /\ p.currentEpoch = e BY <1>3, <3>2
      <4>2. Cast(p.to, p.sender, p.currentEpoch) => e <= saved[s].epoch
        BY <3>0, <4>1 DEF IInv, CastInv
      <4>3. ~(e <= saved[s].epoch) BY <1>0
      <4> QED BY <1>13, <3>0, <4>2, <4>3
    <3> QED BY <1>2, <3>1, <3>2
  <2>4. ASSUME NEW p \in net', p.type = "ack"
        PROVE  ~Counted(p.sender, p.to, p.currentEpoch, attempt', tally')
    <3>1. p \in net /\ p.to \in Node BY <1>2, <1>3, <1>10, <2>4 DEF NetInv, PacketSound
    <3> QED BY <1>11, <2>4, <3>1 DEF IInv, CastInv
  <2> QED BY <2>1, <2>2, <2>3, <2>4 DEF CastInv
<1>15. WonInv' BY <1>2 DEF IInv, WonInv
<1> QED BY <1>4, <1>8, <1>10, <1>14, <1>15 DEF IInv

\* A winner's votes are those it has counted.
LEMMA WinElectionSound ==
  ASSUME ElectionAssumption, IInv, NEW s \in Node, WinElection(s)
  PROVE  IInv'
<1> DEFINE v == Promote(st[s], attempt[s].epoch)
           B == clusterBroadcastMessage(v, "pong", FALSE)
           x == [slave |-> s, epoch |-> attempt[s].epoch,
                 late |-> tally[s].late, from |-> tally[s].from]
<1>0. /\ Sound(s, st[s]) /\ ~nodeIsMaster(st[s], s) /\ N \in Nat
      /\ attempt[s].phase = "sent" /\ attempt[s].epoch \in Nat /\ attempt[s].count \in Nat
      /\ tally[s].late \in Nat /\ tally[s].from \in SUBSET Node
      /\ attempt[s].count = tally[s].late + Cardinality(tally[s].from)
      /\ attempt[s].count >= NeededQuorum(st[s])
  BY ConstantFacts DEF IInv, TablesInv, AttemptsInv, Attempts, Tallies, AttemptSound, WinElection, MayFailover
<1>1. Goes(s, st[s], v) /\ v.slaveof[s] = Null BY <1>0, PromoteSound
<1>2. /\ st' = [st EXCEPT ![s] = v] /\ net' = net \cup B
      /\ saved' = [saved EXCEPT ![s] = [epoch |-> v.currentEpoch, vote |-> vote[s]]]
      /\ won' = won \cup {x}
      /\ vote' = vote /\ tally' = tally /\ forgot' = forgot /\ attempt' = attempt
  BY DEF WinElection, clusterSaveConfig
<1> HIDE DEF v
<1>3. \A p \in B : p.type = "pong" /\ PacketSound(p)
  <2> HIDE DEF x
  <2>1. Sound(s, v) BY <1>1 DEF Goes
  <2>2. /\ \A p \in B : /\ p.type = "pong" /\ p.sender = s
                        /\ p.currentEpoch = v.currentEpoch /\ PacketSound(p)
        /\ \A p, q \in B : p.to = q.to => p = q
    <3>1. PICK force : force = FALSE OBVIOUS
    <3>2. B = clusterBroadcastMessage(v, "pong", force) BY <3>1
    <3> HIDE DEF B
    <3> QED BY <1>1, <2>1, <3>2, BroadcastFields
  <2> QED BY <2>2
<1> HIDE DEF B
<1>4. /\ TablesInv' /\ EpochsInv'
      /\ \A m \in Node : saved'[m].epoch >= saved[m].epoch /\ vote'[m] >= vote[m]
  BY <1>1, <1>2, TableStep DEF IInv
<1>5. AttemptsInv' BY <1>2 DEF IInv, AttemptsInv
<1>6. NetInv' BY <1>2, <1>3, <1>4, <1>5, NetKept DEF IInv
<1>7. /\ x.slave = s /\ x.epoch = attempt[s].epoch /\ x.late = tally[s].late
      /\ x.from = tally[s].from
  OBVIOUS
<1> HIDE DEF x
<1>8. WonInv'
  <2>1. st[s].size = N BY <1>0 DEF Sound
  <2>2. N \div 2 + 1 <= attempt[s].count BY <1>0, <2>1 DEF NeededQuorum
  <2>3. WinSound(x) BY <1>0, <1>7, <2>2 DEF WinSound
  <2> QED BY <1>2, <2>3 DEF IInv, WonInv
<1>9. ASSUME NEW m \in Node, NEW t \in Node, NEW e \in Nat, Cast(m, t, e)' PROVE Cast(m, t, e)
  <2>1. CASE UnderWay(m, t, e, net')
    <3>1. UnderWay(m, t, e, net) BY <1>2, <1>3, <2>1 DEF UnderWay
    <3> QED BY <3>1 DEF Cast
  <2>2. CASE Counted(m, t, e, attempt', tally') BY <1>2, <2>2 DEF Cast
  <2>3. CASE Decided(m, t, e, won')
    <3>1. PICK w \in won' : w.slave = t /\ w.epoch = e /\ m \in w.from BY <2>3 DEF Decided
    <3>2. CASE w \in won BY <3>1, <3>2 DEF Cast, Decided
    <3>3. CASE w = x
      <4>1. Counted(m, t, e, attempt, tally) BY <1>0, <1>7, <3>1, <3>3 DEF Counted
      <4> QED BY <4>1 DEF Cast
    <3> QED BY <1>2, <3>1, <3>2, <3>3
  <2> QED BY <1>9, <2>1, <2>2, <2>3 DEF Cast
<1>10. CastInv'
  <2>1. forgot \subseteq forgot' BY <1>2
  <2>2. \A m \in Node, e \in Nat : e <= vote[m] => e <= vote'[m] \/ <<m, e>> \in forgot'
    BY <1>2
  <2>3. \A p \in net' : p.type # "pong" => p \in net BY <1>2, <1>3
  <2>4. \A p \in net' : p.type = "ack" => ~Counted(p.sender, p.to, p.currentEpoch, attempt', tally')
    BY <1>2, <2>3 DEF IInv, CastInv
  <2> QED BY <1>4, <1>9, <2>1, <2>2, <2>3, <2>4, CastKept DEF IInv
<1> QED BY <1>4, <1>5, <1>6, <1>8, <1>10 DEF IInv

\* A vote is of an epoch after the voter's last one.
LEMMA RequestSound ==
  ASSUME ElectionAssumption, IInv, NEW p \in net, NEW recent \in BOOLEAN, ReceiveRequest(p, recent)
  PROVE  IInv'
<1> DEFINE n == p.to
           s == p.sender
           e == p.currentEpoch
           v == LearnEpochs(st[n], p)
           g == Grants(n, v, p, recent)
<1>0. /\ PacketSound(p) /\ Asked(p, saved, attempt) /\ p.type = "request"
      /\ n \in Node /\ s \in Node /\ n # s /\ e \in Nat
  BY DEF IInv, NetInv, PacketSound, ReceiveRequest
<1>1. Sound(n, st[n]) /\ st[n].currentEpoch \in Nat /\ vote[n] \in Nat /\ vote[n] <= st[n].currentEpoch
  BY <1>0, Fields DEF IInv, TablesInv, EpochsInv, Sound
<1>2. Goes(n, st[n], v) /\ v.currentEpoch \in Nat /\ v.currentEpoch >= e
  BY <1>0, <1>1, LearnSound
<1>3. /\ st' = [st EXCEPT ![n] = v]
      /\ vote' = IF g THEN [vote EXCEPT ![n] = v.currentEpoch] ELSE vote
      /\ \/ saved' = saved
         \/ saved' = [saved EXCEPT ![n] = [epoch |-> v.currentEpoch, vote |-> vote'[n]]]
      /\ net' = (net \ {p}) \cup (IF g THEN {Packet(v, "ack", s, FALSE)} ELSE {})
      /\ attempt' = attempt /\ tally' = tally /\ forgot' = forgot /\ won' = won
  BY DEF ReceiveRequest, SaveIfLearnt, clusterSaveConfig
<1>4. g => e >= v.currentEpoch /\ vote[n] # v.currentEpoch BY DEF Grants
<1> HIDE DEF v, g
<1>5. /\ TablesInv' /\ EpochsInv'
      /\ \A m \in Node : saved'[m].epoch >= saved[m].epoch /\ vote'[m] >= vote[m]
  <2>1. vote' = vote \/ vote' = [vote EXCEPT ![n] = v.currentEpoch] BY <1>3
  <2> QED BY <1>0, <1>2, <1>3, <2>1, TableStep DEF IInv
<1>6. AttemptsInv' /\ WonInv' BY <1>3 DEF IInv, AttemptsInv, WonInv
<1>7. \A m \in Node, x \in Nat : x <= vote[m] => x <= vote'[m]
  <2>1. vote \in [Node -> Nat] /\ vote' \in [Node -> Nat] BY <1>5 DEF IInv, EpochsInv
  <2> QED BY <1>5, <2>1
<1>8. CASE ~g
  <2>1. net' \subseteq net BY <1>3, <1>8
  <2>2. NetInv' BY <1>3, <1>5, <1>6, <2>1, NetKept DEF IInv
  <2>3. \A m, t \in Node, x \in Nat : Cast(m, t, x)' => Cast(m, t, x)
    BY <1>3, <2>1 DEF Cast, UnderWay
  <2>4. \A q \in net' : q.type = "ack" => ~Counted(q.sender, q.to, q.currentEpoch, attempt', tally')
    BY <1>3, <2>1 DEF IInv, CastInv
  <2>5. CastInv' BY <1>3, <1>5, <1>7, <2>1, <2>3, <2>4, CastKept DEF IInv
  <2> QED BY <1>5, <1>6, <2>2, <2>5 DEF IInv
<1>9. CASE g
  <2>0. PICK q : q = Packet(v, "ack", s, FALSE) OBVIOUS
  <2>1. v.currentEpoch = e /\ vote[n] < e BY <1>0, <1>1, <1>2, <1>4, <1>9 DEF Goes
  <2>2. q.type = "ack" /\ q.to = s /\ q.sender = n /\ q.currentEpoch = e /\ PacketSound(q)
    <3>1. PICK force : force = FALSE OBVIOUS
    <3>2. q = Packet(v, "ack", s, force) BY <2>0, <3>1
    <3>3. Sound(n, v) BY <1>2 DEF Goes
    <3>4. "ack" \in {"request", "ack", "pong"} OBVIOUS
    <3>5. /\ q.type = "ack" /\ q.to = s /\ q.sender = n /\ q.currentEpoch = v.currentEpoch
          /\ PacketSound(q)
      BY <1>0, <3>2, <3>3, <3>4, PacketFields
    <3> QED BY <2>1, <3>5
  <2>3. net' = (net \ {p}) \cup {q} BY <1>3, <1>9, <2>0
  <2>4. vote'[n] = e BY <1>0, <1>3, <1>9, <2>1 DEF IInv, EpochsInv
  <2>5. ~Cast(n, s, e) BY <1>0 DEF IInv, CastInv
  <2>6. Candidate(p) = s /\ Candidate(q) = s /\ Voter(p) = n /\ Voter(q) = n
    BY <1>0, <2>2 DEF Candidate, Voter
  <2>7. \A r \in net : PacketSound(r) /\ Asked(r, saved, attempt) BY DEF IInv, NetInv
  <2>8. ASSUME NEW r, PacketSound(r), Asked(r, saved, attempt) PROVE Asked(r, saved', attempt')
    <3>1. CASE r.type = "pong" BY <3>1 DEF Asked
    <3>2. CASE r.type # "pong"
      <4>1. PICK t \in Node : t = Candidate(r) BY <2>8 DEF PacketSound, Candidate
      <4>2. /\ r.currentEpoch \in Nat /\ r.currentEpoch <= saved[t].epoch
            /\ attempt[t].phase = "sent" => r.currentEpoch <= attempt[t].epoch
        BY <2>8, <3>2, <4>1 DEF PacketSound, Asked
      <4>3. saved[t].epoch \in Nat /\ saved'[t].epoch \in Nat BY <1>5 DEF IInv, EpochsInv, Files
      <4>4. r.currentEpoch <= saved'[t].epoch BY <1>5, <4>2, <4>3
      <4> QED BY <1>3, <4>1, <4>2, <4>4 DEF Asked
    <3> QED BY <3>1, <3>2
  <2>9. Asked(q, saved, attempt) BY <1>0, <2>2, <2>6 DEF Asked
  <2>10. \A r \in net : r.type = "ack" /\ Voter(r) = n /\ Candidate(r) = s => r.currentEpoch # e
    BY <2>5 DEF Cast, UnderWay, Voter, Candidate
  <2>11. NetInv'
    <3>1. \A r \in net' : PacketSound(r) /\ Asked(r, saved', attempt')
      BY <2>2, <2>3, <2>7, <2>8, <2>9
    <3>2. ASSUME NEW r \in net', NEW t \in net', r.type # "pong", r.type = t.type,
                 Voter(r) = Voter(t), Candidate(r) = Candidate(t), r.currentEpoch = t.currentEpoch
          PROVE  r = t
      <4>1. CASE r \in net /\ t \in net BY <3>2, <4>1 DEF IInv, NetInv
      <4>2. CASE r = q \/ t = q BY <2>2, <2>3, <2>6, <2>10, <3>2, <4>2
      <4> QED BY <2>3, <4>1, <4>2
    <3> QED BY <3>1, <3>2 DEF NetInv
  <2>12. ASSUME NEW m \in Node, NEW t \in Node, NEW x \in Nat, Cast(m, t, x)'
         PROVE  Cast(m, t, x) \/ (m = n /\ t = s /\ x = e)
    <3>1. CASE UnderWay(m, t, x, net') BY <2>2, <2>3, <3>1 DEF UnderWay, Cast
    <3>2. CASE ~UnderWay(m, t, x, net') BY <1>3, <2>12, <3>2 DEF Cast
    <3> QED BY <3>1, <3>2
  <2>13. CastInv'
    <3>1. ASSUME NEW m \in Node, NEW t \in Node, NEW x \in Nat, Cast(m, t, x)'
          PROVE  x <= saved'[t].epoch /\ (x <= vote'[m] \/ <<m, x>> \in forgot')
      <4>1. saved[t].epoch \in Nat /\ saved'[t].epoch \in Nat /\ saved'[t].epoch >= saved[t].epoch
        BY <1>5 DEF IInv, EpochsInv, Files
      <4>2. CASE Cast(m, t, x)
        <5>1. x <= saved[t].epoch /\ (x <= vote[m] \/ <<m, x>> \in forgot)
          BY <4>2 DEF IInv, CastInv
        <5> QED BY <1>3, <1>7, <4>1, <5>1
      <4>3. CASE m = n /\ t = s /\ x = e
        <5>1. e <= saved[s].epoch BY <1>0, <2>6 DEF Asked
        <5> QED BY <1>0, <2>4, <4>1, <4>3, <5>1
      <4> QED BY <2>12, <3>1, <4>2, <4>3
    <3>2. ASSUME NEW m \in Node, NEW t \in Node, NEW u \in Node, NEW x \in Nat,
                 t # u, Cast(m, t, x)', Cast(m, u, x)'
          PROVE  <<m, x>> \in forgot'
      <4>1. CASE Cast(m, t, x) /\ Cast(m, u, x) BY <1>3, <3>2, <4>1 DEF IInv, CastInv
      <4>2. \A y \in Node : Cast(n, y, e) => <<n, e>> \in forgot
        <5>1. ~(e <= vote[n]) BY <1>0, <1>1, <2>1
        <5> QED BY <1>0, <5>1 DEF IInv, CastInv
      <4>3. CASE ~(Cast(m, t, x) /\ Cast(m, u, x))
        <5>1. m = n /\ x = e /\ (Cast(m, t, x) \/ Cast(m, u, x)) BY <2>12, <3>2, <4>3
        <5> QED BY <1>3, <4>2, <5>1
      <4> QED BY <4>1, <4>3
    <3>3. ASSUME NEW r \in net', r.type = "request"
          PROVE  ~Cast(r.to, r.sender, r.currentEpoch)'
      <4>1. r \in net /\ r # p BY <2>2, <2>3, <3>3
      <4>2. r.to \in Node /\ r.sender \in Node /\ r.currentEpoch \in Nat
        BY <2>7, <4>1 DEF PacketSound
      <4>3. ~Cast(r.to, r.sender, r.currentEpoch) BY <3>3, <4>1 DEF IInv, CastInv
      <4>4. ~(r.to = n /\ r.sender = s /\ r.currentEpoch = e)
        BY <1>0, <3>3, <4>1 DEF IInv, NetInv, Voter, Candidate
      <4> QED BY <2>12, <4>2, <4>3, <4>4
    <3>4. ASSUME NEW r \in net', r.type = "ack"
          PROVE  ~Counted(r.sender, r.to, r.currentEpoch, attempt', tally')
      <4>1. CASE r \in net BY <1>3, <3>4, <4>1 DEF IInv, CastInv
      <4>2. CASE r = q BY <1>3, <2>2, <2>5, <4>2 DEF Cast
      <4> QED BY <2>3, <4>1, <4>2
    <3> QED BY <3>1, <3>2, <3>3, <3>4 DEF CastInv
  <2> QED BY <1>5, <1>6, <2>11, <2>13 DEF IInv
<1> QED BY <1>8, <1>9

\* One more in the tally of s.
LEMMA TallyRecord ==
  ASSUME NEW b \in [late : Nat, from : SUBSET Node], NEW x \in Node,
         NEW c, c = [b EXCEPT !.from = @ \cup {x}],
         NEW d, d = [b EXCEPT !.late = @ + 1]
  PROVE  /\ c.late = b.late /\ c.from = b.from \cup {x} /\ c \in [late : Nat, from : SUBSET Node]
         /\ d.late = b.late + 1 /\ d.from = b.from /\ d \in [late : Nat, from : SUBSET Node]
<1>1. c.late = b.late /\ c.from = b.from \cup {x} OBVIOUS
<1>2. d.late = b.late + 1 /\ d.from = b.from OBVIOUS
<1>3. c \in [late : Nat, from : SUBSET Node] OBVIOUS
<1>4. d \in [late : Nat, from : SUBSET Node] OBVIOUS
<1> QED BY <1>1, <1>2, <1>3, <1>4

LEMMA CountRecord ==
  ASSUME NEW a \in [phase : {"none", "scheduled", "sent"}, count : Nat, epoch : Nat],
         NEW b, b = [a EXCEPT !.count = @ + 1]
  PROVE  /\ b.phase = a.phase /\ b.epoch = a.epoch /\ b.count = a.count + 1
         /\ b \in [phase : {"none", "scheduled", "sent"}, count : Nat, epoch : Nat]
<1>1. b.phase = a.phase /\ b.epoch = a.epoch /\ b.count = a.count + 1 OBVIOUS
<1>2. b \in [phase : {"none", "scheduled", "sent"}, count : Nat, epoch : Nat] OBVIOUS
<1> QED BY <1>1, <1>2

\* A vote that counts after the request is of this attempt, and its voter's first.
LEMMA AckSound ==
  ASSUME ElectionAssumption, IInv, NEW p \in net, ReceiveAck(p)
  PROVE  IInv'
<1> DEFINE s == p.to
           n == p.sender
           e == p.currentEpoch
           v == LearnEpochs(st[s], p)
           counts == /\ nodeIsMaster(v, p.sender) /\ SlotsOf(v, p.sender) # {}
                     /\ p.currentEpoch >= attempt[s].epoch
<1>0. /\ PacketSound(p) /\ Asked(p, saved, attempt) /\ p.type = "ack"
      /\ n \in Node /\ s \in Node /\ e \in Nat
  BY DEF IInv, NetInv, PacketSound, ReceiveAck
<1>1. Sound(s, st[s]) BY <1>0 DEF IInv, TablesInv
<1>2. Goes(s, st[s], v) BY <1>0, <1>1, LearnSound
<1>3. /\ st' = [st EXCEPT ![s] = v] /\ vote' = vote
      /\ \/ saved' = saved
         \/ saved' = [saved EXCEPT ![s] = [epoch |-> v.currentEpoch, vote |-> vote'[s]]]
      /\ net' = net \ {p} /\ forgot' = forgot /\ won' = won
  BY DEF ReceiveAck, SaveIfLearnt, clusterSaveConfig
<1>4. /\ attempt' = IF counts THEN [attempt EXCEPT ![s].count = @ + 1] ELSE attempt
      /\ tally' = IF ~counts THEN tally
                  ELSE IF attempt[s].phase = "sent"
                       THEN [tally EXCEPT ![s].from = @ \cup {n}]
                       ELSE [tally EXCEPT ![s].late = @ + 1]
  BY DEF ReceiveAck
<1>5. counts => e >= attempt[s].epoch OBVIOUS
<1> HIDE DEF v, counts
<1>6. /\ TablesInv' /\ EpochsInv'
      /\ \A m \in Node : saved'[m].epoch >= saved[m].epoch /\ vote'[m] >= vote[m]
  BY <1>0, <1>2, <1>3, TableStep DEF IInv
<1>7. WonInv' BY <1>3 DEF IInv, WonInv
<1>8. PICK a, b, c, d :
        /\ a = attempt[s] /\ b = [a EXCEPT !.count = @ + 1]
        /\ c = [tally[s] EXCEPT !.from = @ \cup {n}] /\ d = [tally[s] EXCEPT !.late = @ + 1]
  OBVIOUS
<1>9. /\ a \in [phase : {"none", "scheduled", "sent"}, count : Nat, epoch : Nat]
      /\ tally[s] \in [late : Nat, from : SUBSET Node]
      /\ a.count = tally[s].late + Cardinality(tally[s].from)
      /\ a.phase # "sent" => tally[s].from = {}
  BY <1>0, <1>8 DEF IInv, AttemptsInv, Attempts, Tallies, AttemptSound
<1>10. /\ b.phase = a.phase /\ b.epoch = a.epoch /\ b.count = a.count + 1
       /\ b \in [phase : {"none", "scheduled", "sent"}, count : Nat, epoch : Nat]
  BY <1>8, <1>9, CountRecord
<1>11. /\ c.late = tally[s].late /\ c.from = tally[s].from \cup {n}
       /\ c \in [late : Nat, from : SUBSET Node]
       /\ d.late = tally[s].late + 1 /\ d.from = tally[s].from
       /\ d \in [late : Nat, from : SUBSET Node]
  BY <1>0, <1>8, <1>9, TallyRecord
<1>12. Cardinality(tally[s].from) \in Nat /\ IsFiniteSet(tally[s].from)
  BY <1>9, ConstantFacts, FS_Subset, FS_CardinalityType
<1>13. ~Counted(n, s, e, attempt, tally) BY <1>0 DEF IInv, CastInv
<1>14. UnderWay(n, s, e, net) BY <1>0 DEF UnderWay
\* From what the attempts and the tallies have become, the rest.
<1>15. ASSUME AttemptsInv',
              \A m \in Node : attempt'[m].phase = attempt[m].phase /\ attempt'[m].epoch = attempt[m].epoch,
              \A m, t \in Node, x \in Nat : Counted(m, t, x, attempt', tally') =>
                Counted(m, t, x, attempt, tally) \/ (m = n /\ t = s /\ x = e)
       PROVE  IInv'
  <2>1. NetInv' BY <1>3, <1>6, <1>15, NetKept DEF IInv
  <2>2. ASSUME NEW m \in Node, NEW t \in Node, NEW x \in Nat, Cast(m, t, x)' PROVE Cast(m, t, x)
    <3>1. CASE UnderWay(m, t, x, net') BY <1>3, <3>1 DEF UnderWay, Cast
    <3>2. CASE Counted(m, t, x, attempt', tally') BY <1>14, <1>15, <3>2 DEF Cast
    <3>3. CASE Decided(m, t, x, won') BY <1>3, <3>3 DEF Cast
    <3> QED BY <2>2, <3>1, <3>2, <3>3 DEF Cast
  <2>3. ASSUME NEW r \in net', r.type = "ack"
        PROVE  ~Counted(r.sender, r.to, r.currentEpoch, attempt', tally')
    <3>1. r \in net /\ r # p BY <1>3
    <3>2. r.sender \in Node /\ r.to \in Node /\ r.currentEpoch \in Nat
      BY <3>1 DEF IInv, NetInv, PacketSound
    <3>3. ~Counted(r.sender, r.to, r.currentEpoch, attempt, tally)
      BY <2>3, <3>1 DEF IInv, CastInv
    <3>4. ~(r.sender = n /\ r.to = s /\ r.currentEpoch = e)
      BY <1>0, <2>3, <3>1 DEF IInv, NetInv, Voter, Candidate
    <3> QED BY <1>15, <3>2, <3>3, <3>4
  <2>4. \A m \in Node, x \in Nat : x <= vote[m] => x <= vote'[m] \/ <<m, x>> \in forgot'
    BY <1>3
  <2>5. CastInv' BY <1>3, <1>6, <2>2, <2>3, <2>4, CastKept DEF IInv
  <2> QED BY <1>6, <1>7, <1>15, <2>1, <2>5 DEF IInv
<1>16. CASE ~counts
  <2>1. attempt' = attempt /\ tally' = tally BY <1>4, <1>16
  <2>2. AttemptsInv' BY <2>1 DEF IInv, AttemptsInv
  <2> QED BY <1>15, <2>1, <2>2
<1>17. CASE counts
  <2>1. attempt' = [attempt EXCEPT ![s] = b]
    BY <1>0, <1>4, <1>8, <1>17 DEF IInv, AttemptsInv, Attempts
  <2>2. \A m \in Node : attempt'[m].phase = attempt[m].phase /\ attempt'[m].epoch = attempt[m].epoch
    BY <1>8, <1>10, <2>1 DEF IInv, AttemptsInv, Attempts
  <2>3. CASE attempt[s].phase = "sent"
    <3>1. tally' = [tally EXCEPT ![s] = c]
      BY <1>0, <1>4, <1>8, <1>17, <2>3 DEF IInv, AttemptsInv, Tallies
    <3>2. e = attempt[s].epoch
      <4>1. e <= attempt[s].epoch BY <1>0, <2>3 DEF Asked, Candidate
      <4>2. attempt[s].epoch \in Nat BY <1>8, <1>9
      <4> QED BY <1>0, <1>5, <1>17, <4>1, <4>2
    <3>3. n \notin tally[s].from BY <1>13, <2>3, <3>2 DEF Counted
    <3>4. Cardinality(c.from) = Cardinality(tally[s].from) + 1
      BY <1>11, <1>12, <3>3, FS_AddElement
    <3>5. b.count = c.late + Cardinality(c.from)
      <4>1. tally[s].late \in Nat BY <1>9
      <4> QED BY <1>9, <1>10, <1>11, <1>12, <3>4, <4>1
    <3>6. b.phase = "sent" BY <1>8, <1>10, <2>3
    <3>7. AttemptsInv' BY <1>0, <1>10, <1>11, <2>1, <3>1, <3>5, <3>6, AttemptStep DEF IInv
    <3>8. ASSUME NEW m \in Node, NEW t \in Node, NEW x \in Nat, Counted(m, t, x, attempt', tally')
          PROVE  Counted(m, t, x, attempt, tally) \/ (m = n /\ t = s /\ x = e)
      <4>1. CASE t # s
        <5>1. attempt'[t] = attempt[t] /\ tally'[t] = tally[t]
          BY <2>1, <3>1, <4>1 DEF IInv, AttemptsInv, Attempts, Tallies
        <5> QED BY <3>8, <5>1 DEF Counted
      <4>2. CASE t = s
        <5>1. tally'[t].from = tally[s].from \cup {n}
          BY <1>0, <1>11, <3>1, <4>2 DEF IInv, AttemptsInv, Tallies
        <5>2. attempt'[t].phase = attempt[s].phase /\ attempt'[t].epoch = attempt[s].epoch
          BY <1>0, <2>2, <4>2
        <5> QED BY <3>2, <3>8, <4>2, <5>1, <5>2 DEF Counted
      <4> QED BY <4>1, <4>2
    <3> QED BY <1>15, <2>2, <3>7, <3>8
  <2>4. CASE attempt[s].phase # "sent"
    <3>1. tally' = [tally EXCEPT ![s] = d]
      BY <1>0, <1>4, <1>8, <1>17, <2>4 DEF IInv, AttemptsInv, Tallies
    <3>2. b.count = d.late + Cardinality(d.from)
      <4>1. tally[s].late \in Nat BY <1>9
      <4> QED BY <1>9, <1>10, <1>11, <1>12, <4>1
    <3>3. b.phase # "sent" => d.from = {} BY <1>9, <1>10, <1>11
    <3>4. AttemptsInv' BY <1>0, <1>10, <1>11, <2>1, <3>1, <3>2, <3>3, AttemptStep DEF IInv
    <3>5. ASSUME NEW m \in Node, NEW t \in Node, NEW x \in Nat, Counted(m, t, x, attempt', tally')
          PROVE  Counted(m, t, x, attempt, tally)
      <4>1. t # s BY <2>2, <2>4, <3>5 DEF Counted
      <4>2. attempt'[t] = attempt[t] /\ tally'[t] = tally[t]
        BY <2>1, <3>1, <4>1 DEF IInv, AttemptsInv, Attempts, Tallies
      <4> QED BY <3>5, <4>2 DEF Counted
    <3> QED BY <1>15, <2>2, <3>4, <3>5
  <2> QED BY <2>3, <2>4
<1> QED BY <1>16, <1>17

\* A PONG changes one table.
LEMMA PongSound ==
  ASSUME ElectionAssumption, IInv, NEW p \in net, ReceivePong(p)
  PROVE  IInv'
<1> DEFINE n == p.to
<1>0. PacketSound(p) /\ p.type = "pong" /\ n \in Node /\ p.sender \in Node /\ p.slaveof = Null
  BY DEF IInv, NetInv, PacketSound, ReceivePong
<1>1. Sound(n, st[n]) BY <1>0 DEF IInv, TablesInv
<1>2. PICK k : k = LearnEpochs(st[n], p) OBVIOUS
<1>3. PICK w : w = RoleSwitch(k, p) OBVIOUS
<1>4. PICK v : v = IF nodeIsMaster(w, p.sender) /\ DirtySlots(w, p)
                   THEN clusterUpdateSlotsConfigWith(w, p.sender, p.configEpoch, p.myslots)
                   ELSE w
  OBVIOUS
<1>5. PICK u : u = IF p.configEpoch = v.configEpoch[n]
                   THEN clusterHandleConfigEpochCollision(v, p.sender) ELSE v
  OBVIOUS
<1>6. /\ st' = [st EXCEPT ![n] = u] /\ net' = net \ {p}
      /\ saved' = [saved EXCEPT ![n] = [epoch |-> u.currentEpoch, vote |-> vote[n]]]
      /\ vote' = vote /\ attempt' = attempt /\ tally' = tally /\ forgot' = forgot /\ won' = won
  BY <1>2, <1>3, <1>4, <1>5 DEF ReceivePong, clusterSaveConfig
<1>7. ASSUME NEW x, Sound(n, x) PROVE Goes(n, x, x)
  <2>1. x.currentEpoch \in Nat BY <1>7, Fields DEF Sound
  <2> QED BY <1>7, <2>1 DEF Goes
<1>8. Goes(n, st[n], k) BY <1>0, <1>1, <1>2, LearnSound
<1>9. Goes(n, k, w) BY <1>0, <1>3, <1>8, RoleSwitchSound DEF Goes
<1>10. Goes(n, w, v)
  <2>1. Sound(n, w) BY <1>9 DEF Goes
  <2> QED BY <1>0, <1>4, <1>7, <2>1, UpdateSlotsSound
<1>11. Goes(n, v, u)
  <2>1. Sound(n, v) BY <1>10 DEF Goes
  <2> QED BY <1>0, <1>5, <1>7, <2>1, CollisionSound
<1>12. Goes(n, st[n], u)
  <2>1. Sound(n, k) /\ Sound(n, w) /\ Sound(n, v) BY <1>8, <1>9, <1>10 DEF Goes
  <2>2. Goes(n, st[n], w) BY <1>1, <1>8, <1>9, GoesOn
  <2>3. Goes(n, st[n], v) BY <1>1, <1>10, <2>2, GoesOn
  <2> QED BY <1>1, <1>11, <2>3, GoesOn
<1>13. /\ TablesInv' /\ EpochsInv'
       /\ \A m \in Node : saved'[m].epoch >= saved[m].epoch /\ vote'[m] >= vote[m]
  BY <1>0, <1>6, <1>12, TableStep DEF IInv
<1>14. AttemptsInv' /\ WonInv' BY <1>6 DEF IInv, AttemptsInv, WonInv
<1>15. NetInv' BY <1>6, <1>13, <1>14, NetKept DEF IInv
<1>16. CastInv'
  <2>1. \A m, t \in Node, x \in Nat : Cast(m, t, x)' => Cast(m, t, x)
    BY <1>6 DEF Cast, UnderWay
  <2>2. \A q \in net' : q.type = "ack" => ~Counted(q.sender, q.to, q.currentEpoch, attempt', tally')
    BY <1>6 DEF IInv, CastInv
  <2> QED BY <1>6, <1>13, <2>1, <2>2, CastKept DEF IInv
<1> QED BY <1>13, <1>14, <1>15, <1>16 DEF IInv

\* A restart takes the last vote back to the saved one, and the history says so.
LEMMA RestartSound ==
  ASSUME ElectionAssumption, IInv, NEW n \in Node, Restart(n)
  PROVE  IInv'
<1>0. /\ Sound(n, st[n]) /\ saved[n].epoch \in Nat /\ saved[n].vote \in Nat
      /\ saved[n].vote <= saved[n].epoch
  BY DEF IInv, TablesInv, EpochsInv, Files
<1>1. PICK v : v = [st[n] EXCEPT !.currentEpoch = saved[n].epoch] OBVIOUS
<1>2. /\ st' = [st EXCEPT ![n] = v] /\ vote' = [vote EXCEPT ![n] = saved[n].vote]
      /\ attempt' = [attempt EXCEPT ![n] = NoAttempt] /\ tally' = [tally EXCEPT ![n] = NoVotes]
      /\ forgot' = forgot \cup {<<n, e>> : e \in (saved[n].vote + 1)..vote[n]}
      /\ saved' = saved /\ net' = net /\ won' = won
  BY <1>1 DEF Restart, IInv, TablesInv
<1>3. Sound(n, v) /\ v.currentEpoch = saved[n].epoch BY <1>0, <1>1 DEF Sound, Table
<1>4. TablesInv' BY <1>2, <1>3 DEF IInv, TablesInv, Sound
<1>5. EpochsInv'
  <2>1. \A m \in Node : st'[m] = IF m = n THEN v ELSE st[m] BY <1>2 DEF IInv, TablesInv
  <2>2. \A m \in Node : vote'[m] = IF m = n THEN saved[n].vote ELSE vote[m]
    BY <1>2 DEF IInv, EpochsInv
  <2>3. vote' \in [Node -> Nat] /\ saved' \in Files BY <1>0, <1>2 DEF IInv, EpochsInv
  <2>4. ASSUME NEW m \in Node
        PROVE  /\ vote'[m] <= st'[m].currentEpoch
               /\ saved'[m].vote <= saved'[m].epoch
               /\ saved'[m].epoch <= st'[m].currentEpoch
    <3>1. CASE m = n BY <1>0, <1>2, <1>3, <2>1, <2>2, <3>1
    <3>2. CASE m # n BY <1>2, <2>1, <2>2, <3>2 DEF IInv, EpochsInv
    <3> QED BY <3>1, <3>2
  <2> QED BY <2>3, <2>4 DEF EpochsInv
<1>6. /\ NoAttempt \in [phase : {"none", "scheduled", "sent"}, count : Nat, epoch : Nat]
      /\ NoVotes \in [late : Nat, from : SUBSET Node]
      /\ NoAttempt.count = 0 /\ NoAttempt.phase = "none" /\ NoVotes.late = 0 /\ NoVotes.from = {}
  BY DEF NoAttempt, NoVotes
<1>7. AttemptsInv'
  <2>1. Cardinality({}) = 0 BY FS_EmptySet
  <2>2. NoAttempt.count = NoVotes.late + Cardinality(NoVotes.from) BY <1>6, <2>1
  <2> QED BY <1>2, <1>6, <2>2, AttemptStep DEF IInv
<1>8. \A m \in Node : attempt'[m].phase = "sent" => attempt'[m] = attempt[m] /\ tally'[m] = tally[m]
  BY <1>2, <1>6 DEF IInv, AttemptsInv, Attempts, Tallies
<1>9. \A m \in Node : saved'[m].epoch >= saved[m].epoch BY <1>2 DEF IInv, EpochsInv, Files
<1>10. NetInv' BY <1>2, <1>5, <1>7, <1>8, <1>9, NetKept DEF IInv
<1>11. \A m, t \in Node, x \in Nat : Counted(m, t, x, attempt', tally') => Counted(m, t, x, attempt, tally)
  BY <1>8 DEF Counted
<1>12. \A m, t \in Node, x \in Nat : Cast(m, t, x)' => Cast(m, t, x)
  BY <1>2, <1>11 DEF Cast
<1>13. ASSUME NEW m \in Node, NEW e \in Nat, e <= vote[m]
       PROVE  e <= vote'[m] \/ <<m, e>> \in forgot'
  <2>1. vote'[m] = (IF m = n THEN saved[n].vote ELSE vote[m]) /\ vote[m] \in Nat
    BY <1>2 DEF IInv, EpochsInv
  <2>2. CASE m = n /\ ~(e <= saved[n].vote)
    <3>1. e \in (saved[n].vote + 1)..vote[n] BY <1>0, <1>13, <2>1, <2>2
    <3> QED BY <1>2, <2>2, <3>1
  <2> QED BY <1>13, <2>1, <2>2
<1>14. \A p \in net' : p.type = "ack" => ~Counted(p.sender, p.to, p.currentEpoch, attempt', tally')
  BY <1>2, <1>11 DEF IInv, CastInv, NetInv, PacketSound
<1>15. CastInv' BY <1>2, <1>5, <1>9, <1>12, <1>13, <1>14, CastKept DEF IInv
<1>16. WonInv' BY <1>2 DEF IInv, WonInv
<1> QED BY <1>4, <1>5, <1>7, <1>10, <1>15, <1>16 DEF IInv

LEMMA NextSound ==
  ASSUME ElectionAssumption, IInv, [Next]_vars
  PROVE  IInv'
<1>1. ASSUME NEW s \in Node, NEW force \in BOOLEAN, clusterFailoverCommand(s, force) PROVE IInv'
  BY <1>1, ManualSound DEF clusterFailoverCommand
<1>2. ASSUME NEW s \in Node, clusterHandleManualFailover(s) \/ manualFailoverCheckTimeout(s)
      PROVE  IInv'
  BY <1>2, ManualSound DEF clusterHandleManualFailover, manualFailoverCheckTimeout
<1>3. ASSUME NEW s \in Node, ScheduleElection(s) \/ StartElection(s) \/ WinElection(s) PROVE IInv'
  BY <1>3, ScheduleSound, StartSound, WinElectionSound
<1>4. ASSUME NEW p \in net,
             (\E recent \in BOOLEAN : ReceiveRequest(p, recent)) \/ ReceiveAck(p) \/ ReceivePong(p)
      PROVE  IInv'
  BY <1>4, RequestSound, AckSound, PongSound
<1>5. ASSUME NEW n \in Crashing, Restart(n) PROVE IInv'
  <2>1. n \in Node BY DEF ElectionAssumption
  <2> QED BY <1>5, <2>1, RestartSound
<1>6. CASE UNCHANGED vars BY <1>6, ManualSound DEF vars
<1>7. Told \subseteq Node BY DEF ElectionAssumption
<1> QED BY <1>1, <1>2, <1>3, <1>4, <1>5, <1>6, <1>7 DEF Next

-----------------------------------------------------------------------------
(* The price of two winners *)

\* Two sets of voters, and what they have in common.
LEMMA TwoMajorities ==
  ASSUME ElectionAssumption, NEW A \in SUBSET Node, NEW B \in SUBSET Node
  PROVE  /\ Cardinality(A) \in Nat /\ Cardinality(B) \in Nat /\ Cardinality(A \cap B) \in Nat
         /\ Cardinality((A \cup B) \ Master) \in Nat
         /\ Cardinality(A) + Cardinality(B)
              <= N + Cardinality(A \cap B) + Cardinality((A \cup B) \ Master)
<1> DEFINE U == A \cup B
           M == U \cap Master
           X == U \ Master
<1>1. IsFiniteSet(Node) /\ Master \subseteq Node /\ N \in Nat BY ConstantFacts
<1>2. /\ IsFiniteSet(A) /\ IsFiniteSet(B) /\ IsFiniteSet(Master) /\ IsFiniteSet(U)
      /\ IsFiniteSet(M) /\ IsFiniteSet(X) /\ IsFiniteSet(A \cap B)
  <2>1. /\ A \subseteq Node /\ B \subseteq Node /\ U \subseteq Node /\ M \subseteq Node
        /\ X \subseteq Node /\ A \cap B \subseteq Node
    OBVIOUS
  <2> QED BY <1>1, <2>1, FS_Subset
<1>3. Cardinality(U) = Cardinality(A) + Cardinality(B) - Cardinality(A \cap B)
  BY <1>2, FS_Union
<1>4. Cardinality(M) <= N BY <1>2, FS_Subset DEF N
<1>5. Cardinality(U) = Cardinality(M) + Cardinality(X)
  <2>1. U = M \cup X /\ M \cap X = {} OBVIOUS
  <2>2. Cardinality(M \cup X) = Cardinality(M) + Cardinality(X) - Cardinality(M \cap X)
    BY <1>2, FS_Union
  <2>3. Cardinality(M \cap X) = 0 BY <2>1, FS_EmptySet
  <2>4. Cardinality(M) \in Nat /\ Cardinality(X) \in Nat BY <1>2, FS_CardinalityType
  <2>5. Cardinality(U) = Cardinality(M \cup X) BY <2>1
  <2> HIDE DEF U, M, X
  <2> QED BY <2>2, <2>3, <2>4, <2>5
<1>6. /\ Cardinality(A) \in Nat /\ Cardinality(B) \in Nat /\ Cardinality(A \cap B) \in Nat
      /\ Cardinality(X) \in Nat /\ Cardinality(M) \in Nat
  BY <1>2, FS_CardinalityType
<1> HIDE DEF U, M, X
<1>7. Cardinality(A) + Cardinality(B) <= N + Cardinality(A \cap B) + Cardinality(X)
  BY <1>1, <1>3, <1>4, <1>5, <1>6
<1> QED BY <1>6, <1>7 DEF X, U

LEMMA WinnersPaid ==
  ASSUME ElectionAssumption, IInv
  PROVE  TwoWinnersCost
<1> SUFFICES ASSUME NEW w \in won, NEW x \in won, w.slave # x.slave, w.epoch = x.epoch
             PROVE  /\ \A n \in w.from \cap x.from : <<n, w.epoch>> \in forgot
                    /\ 2 * (N \div 2 + 1) <= N + Cardinality(w.from \cap x.from) + w.late + x.late
                                               + Cardinality((w.from \cup x.from) \ Master)
  BY DEF TwoWinnersCost
<1>1. WinSound(w) /\ WinSound(x) BY DEF IInv, WonInv
<1>2. ASSUME NEW n \in w.from \cap x.from PROVE <<n, w.epoch>> \in forgot
  <2>1. Cast(n, w.slave, w.epoch) /\ Cast(n, x.slave, w.epoch) BY DEF Cast, Decided
  <2>2. n \in Node /\ w.slave \in Node /\ x.slave \in Node /\ w.epoch \in Nat
    BY <1>1 DEF WinSound
  <2> QED BY <2>1, <2>2 DEF IInv, CastInv
<1>3. PICK a, b, i, o, q, k, l :
        /\ a = Cardinality(w.from) /\ b = Cardinality(x.from)
        /\ i = Cardinality(w.from \cap x.from)
        /\ o = Cardinality((w.from \cup x.from) \ Master)
        /\ q = N \div 2 + 1 /\ k = w.late /\ l = x.late
  OBVIOUS
<1>4. a \in Nat /\ b \in Nat /\ i \in Nat /\ o \in Nat /\ a + b <= N + i + o
  <2>1. w.from \in SUBSET Node /\ x.from \in SUBSET Node BY <1>1 DEF WinSound
  <2> QED BY <1>3, <2>1, TwoMajorities
<1>5. q \in Nat /\ k \in Nat /\ l \in Nat /\ N \in Nat BY <1>1, <1>3, ConstantFacts DEF WinSound
<1>6. q <= k + a /\ q <= l + b BY <1>1, <1>3 DEF WinSound
<1>7. 2 * q <= N + i + k + l + o BY <1>4, <1>5, <1>6
<1> QED BY <1>2, <1>3, <1>7

\* The votes a candidate counts after it has asked are votes of its epoch, one
\* per voter; a voter votes twice in an epoch only after a restart that lost its
\* vote; and the rest of a count is late votes (clusterSendFailoverAuthIfNeeded,
\* clusterProcessPacket).
THEOREM VotesAccounted == ASSUME ElectionAssumption PROVE Spec => []IInv
<1>1. Init => IInv BY InitSound
<1>2. IInv /\ [Next]_vars => IInv' BY NextSound
<1> QED BY <1>1, <1>2, PTL DEF Spec

\* Two slaves win one epoch (clusterHandleSlaveFailover) only at the price of
\* forgotten votes, late votes and votes of promoted slaves, as many as two
\* majorities have in common.
THEOREM TwoWinnersPay == ASSUME ElectionAssumption PROVE Spec => []TwoWinnersCost
<1>1. IInv => TwoWinnersCost BY WinnersPaid
<1> QED BY <1>1, VotesAccounted, PTL
=============================================================================
