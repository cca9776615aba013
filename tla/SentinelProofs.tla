--------------------------- MODULE SentinelProofs ---------------------------
(* Theorems about Sentinel, for any number of sentinels, instances, epochs and *)
(* faults.                                                                     *)
(*                                                                             *)
(* Votes are only ever repeated: a sentinel has one vote per epoch, in memory  *)
(* or lost, and the number of the epoch is in its file before anybody hears of *)
(* the vote, unless the write fails.  But for the epochs that a restart then   *)
(* forgets, a reply kept by another sentinel binds the voter for the epoch,    *)
(* and two leaders of an epoch would need two majorities without a common      *)
(* voter.                                                                      *)
EXTENDS Sentinel, FiniteSetTheorems, NaturalsInduction, WellFoundedInduction, TLAPS

Partial(D, R) == UNION {[S -> R] : S \in SUBSET D}
Instances == UNION {c.instances : c \in Scenarios}
RunIds == Sentinels \X Nat
FailoverStates == {"none", "wait", "select", "noone", "promotion", "reconf"}
Flags == {"sent", "inprog", "done"}

PeerInfo == [runid : RunIds, down : BOOLEAN, leader : RunIds \cup {None}, lepoch : Nat]
Memory ==
  [epoch : Nat, addr : Instances, cfg : Nat, lepoch : Nat, leader : RunIds \cup {None},
   fepoch : Nat, fstate : FailoverStates, promoted : Instances \cup {None}, force : BOOLEAN,
   sdown : BOOLEAN, tilt : BOOLEAN, slaves : Partial(Instances, SUBSET Flags),
   peers : Partial(Sentinels, PeerInfo), inc : Nat]
Saved ==
  [epoch : Nat, addr : Instances, cfg : Nat, lepoch : Nat, slaves : SUBSET Instances,
   peers : Partial(Sentinels, RunIds)]
Limits == [active : SUBSET Sentinels, epochs : Nat, faults : Nat]
Requests == [addr : Instances, epoch : Nat, runid : RunIds]

\* Nothing goes wrong: no sentinel is reset, restarted, disconnected or tilted, and
\* no write of a file fails.
Calm == \A c \in Scenarios : c.faults = 0

TypeOK ==
  /\ redis \in Partial(Instances, Instances \cup {None})
  /\ st \in [Sentinels -> Memory]
  /\ disk \in [Sentinels -> Saved]
  /\ asked \in [Sentinels -> Requests \cup {None}]
  /\ limit \in Limits /\ (Calm => limit.faults = 0)
  /\ elected \subseteq RunIds \X Nat \X Nat
  /\ unsaved \subseteq Sentinels /\ forgot \subseteq Nat

\* PromotedInPlace, of one memory.
InPlace(m) ==
  /\ m.fstate \in {"noone", "promotion", "reconf"} <=> m.promoted # None
  /\ m.promoted # None => m.promoted \in DOMAIN m.slaves
  /\ (\E r \in DOMAIN m.slaves : m.slaves[r] # {}) => m.fstate = "reconf"

\* A sentinel is not its own peer, and knows all others when it was never reset.
Circle(s, known) == known \subseteq Peers(s) /\ (Calm => known = Peers(s))

\* A sentinel with a failover that is in place.
Sound(s, m) == m \in Memory /\ Circle(s, DOMAIN m.peers) /\ InPlace(m)

\* FileNamesInstances, of one memory and its file.
Left(d, m) == Known(m) \ ({d.addr} \cup d.slaves)
Names(d, m) == Left(d, m) # {} => Left(d, m) = {m.addr} /\ (m.fstate = "reconf" \/ DOMAIN m.slaves = {})

\* A file that a sentinel can start with, and one with the epoch of the vote.
Readable(s, d) == d \in Saved /\ Circle(s, DOMAIN d.peers)
Filed(d, m) == d.lepoch = m.lepoch /\ Names(d, m)

MemoryInv ==
  \A s \in Sentinels : /\ Sound(s, st[s]) /\ Readable(s, disk[s])
                       /\ s \in unsaved \/ Filed(disk[s], st[s])

\* What s has heard of the vote of t.
Heeds(s, t) == t \in DOMAIN st[s].peers /\ st[s].peers[t].leader # None

\* In epoch e nobody will hear from t of a vote for another than a.
Backs(t, a, e) ==
  /\ e <= st[t].lepoch
  /\ st[t].lepoch = e /\ st[t].leader # None => st[t].leader = a
  /\ \A s \in Sentinels : Heeds(s, t) /\ st[s].peers[t].lepoch = e => st[s].peers[t].leader = a

\* A vote that no restart forgot binds the voter, in its memory or in a reply.
VotesInv ==
  \A t \in Sentinels :
    /\ st[t].leader # None /\ st[t].lepoch \notin forgot => Backs(t, st[t].leader, st[t].lepoch)
    /\ \A s \in Sentinels : Heeds(s, t) /\ st[s].peers[t].lepoch \notin forgot =>
         Backs(t, st[s].peers[t].leader, st[s].peers[t].lepoch)

\* Those who make a leader are more than half: the quorum is, or no sentinel forgets
\* another and counts a majority of fewer than there are.
Overlapping == 2 * Quorum > Cardinality(Sentinels) \/ Calm

\* More than half of the sentinels made a leader of one epoch.
Majorities == {V \in SUBSET Sentinels : 2 * Cardinality(V) > Cardinality(Sentinels)}
Lasting(x) == OfOneEpoch(x) /\ x[2] \notin forgot
ElectedInv ==
  Overlapping =>
    /\ \A x \in elected : Lasting(x) => \E V \in Majorities : \A t \in V : Backs(t, x[1], x[2])
    /\ OneLeaderPerEpoch

-----------------------------------------------------------------------------
(* Votes *)

\* What a step may do to the votes: a new one is of a later epoch, or a restart
\* forgets it; and a reply is the one that was there or tells the vote of now.
Advances(m, n) == m.lepoch <= n.lepoch /\ (n.lepoch = m.lepoch => n.leader \in {m.leader, None})
Forgets(m, n) == n.leader = None /\ n.lepoch < m.lepoch /\ n.lepoch + 1..m.lepoch \subseteq forgot'
VoteStep ==
  /\ forgot \subseteq forgot'
  /\ \A t \in Sentinels : Advances(st[t], st'[t]) \/ Forgets(st[t], st'[t])
  /\ \A s, t \in Sentinels : Heeds(s, t)' =>
       \/ /\ Heeds(s, t)
          /\ st'[s].peers[t].leader = st[s].peers[t].leader
          /\ st'[s].peers[t].lepoch = st[s].peers[t].lepoch
       \/ /\ st'[s].peers[t].leader = st'[t].leader
          /\ st'[s].peers[t].lepoch = st'[t].lepoch

\* Functions on a part of a set.
LEMMA PartialElim ==
  ASSUME NEW D, NEW R, NEW f \in Partial(D, R)
  PROVE  f \in [DOMAIN f -> R] /\ DOMAIN f \in SUBSET D
BY DEF Partial

LEMMA PartialIntro ==
  ASSUME NEW D, NEW R, NEW S \in SUBSET D, NEW f \in [S -> R]
  PROVE  f \in Partial(D, R)
BY DEF Partial

\* Epochs of votes and replies are numbers.
EpochsNat ==
  /\ \A t \in Sentinels : st[t].lepoch \in Nat
  /\ \A s, t \in Sentinels : Heeds(s, t) => st[s].peers[t].lepoch \in Nat

LEMMA EpochType == MemoryInv => EpochsNat
<1> SUFFICES ASSUME MemoryInv PROVE EpochsNat OBVIOUS
<1>1. \A s \in Sentinels : st[s] \in Memory BY DEF MemoryInv, Sound
<1>2. \A s \in Sentinels : st[s].peers \in Partial(Sentinels, PeerInfo) /\ st[s].lepoch \in Nat
  BY <1>1 DEF Memory
<1>3. \A s \in Sentinels : st[s].peers \in [DOMAIN st[s].peers -> PeerInfo] BY <1>2, PartialElim
<1>4. \A s, t \in Sentinels : Heeds(s, t) => st[s].peers[t] \in PeerInfo BY <1>3 DEF Heeds
<1> QED BY <1>2, <1>4 DEF PeerInfo, EpochsNat

LEMMA EpochTypeNext == MemoryInv' => EpochsNat'
BY EpochType, PTL

LEMMA BacksStay ==
  ASSUME MemoryInv, MemoryInv', VoteStep, NEW t \in Sentinels, NEW a, NEW e \in Nat, e \notin forgot',
         Backs(t, a, e)
  PROVE  Backs(t, a, e)'
<1>1. st[t].lepoch \in Nat /\ st'[t].lepoch \in Nat BY EpochType, EpochTypeNext DEF EpochsNat
<1>2. Advances(st[t], st'[t]) \/ Forgets(st[t], st'[t]) BY DEF VoteStep
<1>3. e <= st[t].lepoch BY DEF Backs
<1>4. e <= st'[t].lepoch
  <2>1. CASE Advances(st[t], st'[t]) BY <1>1, <1>3, <2>1 DEF Advances
  <2>2. CASE Forgets(st[t], st'[t])
    <3>1. PICK l, k : l = st[t].lepoch /\ k = st'[t].lepoch OBVIOUS
    <3>2. k + 1..l \subseteq forgot' BY <2>2, <3>1 DEF Forgets
    <3>3. e <= l /\ l \in Nat /\ k \in Nat BY <1>1, <1>3, <3>1
    <3>4. e \notin k + 1..l BY <3>2
    <3> QED BY <3>1, <3>3, <3>4
  <2> QED BY <1>2, <2>1, <2>2
<1>5. ASSUME st'[t].lepoch = e, st'[t].leader # None PROVE st'[t].leader = a
  <2>1. Advances(st[t], st'[t]) BY <1>2, <1>5 DEF Forgets
  <2> QED BY <1>1, <1>3, <1>5, <2>1 DEF Backs, Advances
<1>6. ASSUME NEW s \in Sentinels, Heeds(s, t)', st'[s].peers[t].lepoch = e
      PROVE  st'[s].peers[t].leader = a
  <2>1. CASE /\ Heeds(s, t)
             /\ st'[s].peers[t].leader = st[s].peers[t].leader
             /\ st'[s].peers[t].lepoch = st[s].peers[t].lepoch
    BY <1>6, <2>1 DEF Backs
  <2>2. CASE /\ st'[s].peers[t].leader = st'[t].leader
             /\ st'[s].peers[t].lepoch = st'[t].lepoch
    BY <1>5, <1>6, <2>2 DEF Heeds
  <2> QED BY <1>6, <2>1, <2>2 DEF VoteStep
<1> QED BY <1>1, <1>4, <1>5, <1>6 DEF Backs

LEMMA VotesStep ==
  ASSUME MemoryInv, MemoryInv', VotesInv, VoteStep
  PROVE  VotesInv'
<1>0. forgot \subseteq forgot' BY DEF VoteStep
<1>1. ASSUME NEW t \in Sentinels, st'[t].leader # None, st'[t].lepoch \notin forgot'
      PROVE  Backs(t, st[t].leader, st[t].lepoch)'
  <2>1. st[t].lepoch \in Nat /\ st'[t].lepoch \in Nat BY EpochType, EpochTypeNext DEF EpochsNat
  <2>2. Advances(st[t], st'[t]) BY <1>1 DEF VoteStep, Forgets
  <2>3. CASE st'[t].lepoch = st[t].lepoch
    <3>1. st'[t].leader = st[t].leader BY <1>1, <2>2, <2>3 DEF Advances
    <3>2. Backs(t, st[t].leader, st[t].lepoch) BY <1>0, <1>1, <2>3, <3>1 DEF VotesInv
    <3>3. PICK a, e : a = st[t].leader /\ e = st[t].lepoch OBVIOUS
    <3>4. Backs(t, a, e)' BY <1>1, <2>1, <2>3, <3>2, <3>3, BacksStay
    <3> QED BY <2>3, <3>1, <3>3, <3>4 DEF Backs
  <2>4. CASE st'[t].lepoch # st[t].lepoch
    <3>0. st[t].lepoch < st'[t].lepoch BY <2>1, <2>2, <2>4 DEF Advances
    <3>1. ASSUME NEW s \in Sentinels, Heeds(s, t)', st'[s].peers[t].lepoch = st'[t].lepoch
          PROVE  st'[s].peers[t].leader = st'[t].leader
      <4>1. ASSUME Heeds(s, t), st'[s].peers[t].lepoch = st[s].peers[t].lepoch PROVE FALSE
        <5>1. st[s].peers[t].lepoch \notin forgot BY <1>0, <1>1, <3>1, <4>1
        <5>2. st[s].peers[t].lepoch <= st[t].lepoch BY <4>1, <5>1 DEF VotesInv, Backs
        <5> QED BY <2>1, <3>0, <3>1, <4>1, <5>2
      <4> QED BY <3>1, <4>1 DEF VoteStep
    <3> QED BY <2>1, <3>1 DEF Backs
  <2> QED BY <2>3, <2>4
<1>2. ASSUME NEW t \in Sentinels, NEW s \in Sentinels, Heeds(s, t)', st'[s].peers[t].lepoch \notin forgot'
      PROVE  Backs(t, st[s].peers[t].leader, st[s].peers[t].lepoch)'
  <2>1. CASE /\ Heeds(s, t)
             /\ st'[s].peers[t].leader = st[s].peers[t].leader
             /\ st'[s].peers[t].lepoch = st[s].peers[t].lepoch
    <3>1. PICK a, e : a = st[s].peers[t].leader /\ e = st[s].peers[t].lepoch OBVIOUS
    <3>2. e \notin forgot' BY <1>2, <2>1, <3>1
    <3>3. Backs(t, a, e) /\ e \in Nat BY <1>0, <2>1, <3>1, <3>2, EpochType DEF VotesInv, EpochsNat
    <3>4. Backs(t, a, e)' BY <3>2, <3>3, BacksStay
    <3> QED BY <2>1, <3>1, <3>4 DEF Backs
  <2>2. CASE /\ st'[s].peers[t].leader = st'[t].leader
             /\ st'[s].peers[t].lepoch = st'[t].lepoch
    <3>1. Backs(t, st[t].leader, st[t].lepoch)' BY <1>1, <1>2, <2>2 DEF Heeds
    <3> QED BY <2>2, <3>1 DEF Backs
  <2> QED BY <1>2, <2>1, <2>2 DEF VoteStep
<1> QED BY <1>1, <1>2 DEF VotesInv

-----------------------------------------------------------------------------
(* Memories and files *)

\* Memory n has no replies but those of m.
Echoes(m, n) ==
  \A p \in DOMAIN n.peers : n.peers[p].leader # None =>
    /\ p \in DOMAIN m.peers
    /\ n.peers[p].leader = m.peers[p].leader /\ n.peers[p].lepoch = m.peers[p].lepoch

\* Memory n follows on m: what VoteStep says, of one sentinel that hears nothing.
Follows(m, n) == Advances(m, n) /\ Echoes(m, n)

\* Memory n is as good as m for the file.
Unwritten(m, n) ==
  /\ n.lepoch = m.lepoch /\ n.addr = m.addr /\ DOMAIN n.slaves \subseteq DOMAIN m.slaves
  /\ m.fstate = "reconf" => n.fstate = "reconf" \/ DOMAIN n.slaves = {}

\* What became of the file of s, which has n in memory now: written, not written for
\* an error, or not to be written.
Wrote(s, n) ==
  \/ disk' = [disk EXCEPT ![s] = rewriteConfigSentinelOption(n)] /\ unsaved' = unsaved \ {s}
  \/ disk' = disk /\ unsaved' = unsaved \cup {s}
  \/ disk' = disk /\ unsaved' \in {unsaved, unsaved \ {s}} /\ (s \in unsaved' \/ Filed(disk[s], n))

LEMMA MemoryFacts ==
  ASSUME NEW m \in Memory
  PROVE  /\ m.peers \in [DOMAIN m.peers -> PeerInfo] /\ DOMAIN m.peers \in SUBSET Sentinels
         /\ m.slaves \in [DOMAIN m.slaves -> SUBSET Flags] /\ DOMAIN m.slaves \in SUBSET Instances
<1>1. m.peers \in Partial(Sentinels, PeerInfo) /\ m.slaves \in Partial(Instances, SUBSET Flags)
  BY DEF Memory
<1> QED BY <1>1, PartialElim

LEMMA Rewritten ==
  ASSUME NEW s \in Sentinels, NEW m, Sound(s, m)
  PROVE  Readable(s, rewriteConfigSentinelOption(m)) /\ Filed(rewriteConfigSentinelOption(m), m)
<1> DEFINE d == rewriteConfigSentinelOption(m)
           runids == [p \in DOMAIN m.peers |-> m.peers[p].runid]
           a == sentinelGetCurrentMasterAddress(m)
<1>1. m \in Memory /\ Circle(s, DOMAIN m.peers) /\ InPlace(m) BY DEF Sound
<1>2. m.peers \in [DOMAIN m.peers -> PeerInfo] /\ DOMAIN m.peers \in SUBSET Sentinels
      /\ DOMAIN m.slaves \in SUBSET Instances
  BY <1>1, MemoryFacts
<1>3. runids \in [DOMAIN m.peers -> RunIds] BY <1>2 DEF PeerInfo
<1>4. runids \in Partial(Sentinels, RunIds) BY <1>2, <1>3, PartialIntro
<1>5. a \in Instances BY <1>1 DEF Memory, InPlace, sentinelGetCurrentMasterAddress
<1>6. d = [epoch |-> m.epoch, addr |-> a, cfg |-> m.cfg, lepoch |-> m.lepoch,
           slaves |-> DOMAIN m.slaves, peers |-> runids]
  BY DEF rewriteConfigSentinelOption
<1>7. DOMAIN runids = DOMAIN m.peers OBVIOUS
<1> HIDE DEF d, runids, a
<1>8. d \in Saved BY <1>1, <1>2, <1>4, <1>5, <1>6 DEF Saved, Memory
<1>9. Circle(s, DOMAIN d.peers) /\ d.lepoch = m.lepoch BY <1>1, <1>6, <1>7
<1>10. Left(d, m) \subseteq {m.addr} /\ (m.fstate # "reconf" => Left(d, m) = {})
  BY <1>6 DEF Left, Known, a, sentinelGetCurrentMasterAddress
<1>11. Names(d, m) BY <1>10 DEF Names
<1> QED BY <1>8, <1>9, <1>11 DEF Readable, Filed, d

LEMMA FileGood ==
  ASSUME NEW d, NEW m, NEW n, Filed(d, m), Unwritten(m, n)
  PROVE  Filed(d, n)
<1>1. Left(d, n) \subseteq Left(d, m) /\ n.addr = m.addr /\ n.lepoch = m.lepoch BY DEF Unwritten, Left, Known
<1>2. Names(d, n) BY <1>1 DEF Filed, Unwritten, Names
<1> QED BY <1>1, <1>2 DEF Filed

LEMMA FaultType ==
  ASSUME TypeOK, Fault
  PROVE  limit' \in Limits /\ ~Calm
BY DEF TypeOK, Fault, Limits

\* A handler that flushes, or leaves what the file has to say as it was.
LEMMA Flushed ==
  ASSUME TypeOK, MemoryInv, NEW s \in Sentinels, NEW n, NEW flush, sentinelFlushConfig(s, n, flush),
         flush \/ Unwritten(st[s], n)
  PROVE  Wrote(s, n) /\ limit' \in Limits /\ (Calm => limit'.faults = 0)
<1>1. limit \in Limits /\ (Calm => limit.faults = 0) BY DEF TypeOK
<1>2. CASE ~flush /\ UNCHANGED <<disk, unsaved, limit>>
  <2>1. PICK d, m : d = disk[s] /\ m = st[s] OBVIOUS
  <2>2. s \in unsaved \/ Filed(d, m) BY <2>1 DEF MemoryInv
  <2>3. s \in unsaved' \/ Filed(disk[s], n) BY <1>2, <2>1, <2>2, FileGood
  <2> QED BY <1>1, <1>2, <2>3 DEF Wrote
<1>3. CASE /\ disk' = [disk EXCEPT ![s] = rewriteConfigSentinelOption(n)]
           /\ unsaved' = unsaved \ {s} /\ UNCHANGED limit
  BY <1>1, <1>3 DEF Wrote
<1>4. CASE Fault /\ unsaved' = unsaved \cup {s} /\ UNCHANGED disk
  BY <1>4, FaultType DEF Wrote
<1> QED BY <1>2, <1>3, <1>4 DEF sentinelFlushConfig

\* The sentinels but s stay, and the file of s fits.
LEMMA LocalStep ==
  ASSUME TypeOK, MemoryInv, NEW s \in Sentinels, NEW n, Sound(s, n),
         Advances(st[s], n) \/ Forgets(st[s], n), Echoes(st[s], n),
         st' = [st EXCEPT ![s] = n], Wrote(s, n), forgot \subseteq forgot'
  PROVE  /\ st' \in [Sentinels -> Memory] /\ disk' \in [Sentinels -> Saved] /\ unsaved' \subseteq Sentinels
         /\ MemoryInv' /\ VoteStep
<1>1. st \in [Sentinels -> Memory] /\ disk \in [Sentinels -> Saved] /\ unsaved \subseteq Sentinels
  BY DEF TypeOK
<1>2. \A x \in Sentinels : st'[x] = IF x = s THEN n ELSE st[x] BY <1>1
<1>3. /\ Readable(s, disk'[s]) /\ (s \in unsaved' \/ Filed(disk'[s], n)) /\ disk' \in [Sentinels -> Saved]
      /\ \A x \in Sentinels : x # s => disk'[x] = disk[x] /\ (x \in unsaved' <=> x \in unsaved)
      /\ unsaved' \subseteq Sentinels
  <2>1. CASE disk' = [disk EXCEPT ![s] = rewriteConfigSentinelOption(n)] /\ unsaved' = unsaved \ {s}
    <3>1. PICK d : d = rewriteConfigSentinelOption(n) OBVIOUS
    <3>2. Readable(s, d) /\ Filed(d, n) BY <3>1, Rewritten
    <3>3. d \in Saved BY <3>2 DEF Readable
    <3> QED BY <1>1, <2>1, <3>1, <3>2, <3>3
  <2>2. CASE disk' = disk /\ unsaved' = unsaved \cup {s}
    <3>1. Readable(s, disk[s]) BY DEF MemoryInv
    <3> QED BY <1>1, <2>2, <3>1
  <2>3. CASE disk' = disk /\ unsaved' \in {unsaved, unsaved \ {s}} /\ (s \in unsaved' \/ Filed(disk[s], n))
    <3>1. Readable(s, disk[s]) BY DEF MemoryInv
    <3> QED BY <1>1, <2>3, <3>1
  <2> QED BY <2>1, <2>2, <2>3 DEF Wrote
<1>4. MemoryInv' BY <1>2, <1>3 DEF MemoryInv
<1>5. st' \in [Sentinels -> Memory] BY <1>1 DEF Sound
<1>6. EpochsNat BY EpochType
<1>7. VoteStep
  <2>1. ASSUME NEW t \in Sentinels PROVE Advances(st[t], st'[t]) \/ Forgets(st[t], st'[t])
    <3>1. Advances(st[t], st[t]) BY <1>6 DEF Advances, EpochsNat
    <3> QED BY <1>2, <3>1
  <2>2. ASSUME NEW x \in Sentinels, NEW t \in Sentinels, Heeds(x, t)'
        PROVE  /\ Heeds(x, t)
               /\ st'[x].peers[t].leader = st[x].peers[t].leader
               /\ st'[x].peers[t].lepoch = st[x].peers[t].lepoch
    BY <1>2, <2>2 DEF Echoes, Heeds
  <2> QED BY <2>1, <2>2 DEF VoteStep
<1> QED BY <1>3, <1>4, <1>5, <1>7

SentinelInv == TypeOK /\ MemoryInv /\ VotesInv /\ ElectedInv

\* Leaders stay the leaders of their epochs.
LEMMA StillBacked ==
  ASSUME TypeOK, MemoryInv, MemoryInv', ElectedInv, VoteStep, Overlapping, NEW x \in elected, Lasting(x)'
  PROVE  \E V \in Majorities : \A t \in V : Backs(t, x[1], x[2])'
<1>1. Lasting(x) /\ x[2] \notin forgot' BY DEF Lasting, OfOneEpoch, VoteStep
<1>2. PICK V \in Majorities : \A t \in V : Backs(t, x[1], x[2]) BY <1>1 DEF ElectedInv
<1>3. PICK a, e : a = x[1] /\ e = x[2] /\ e \in Nat BY DEF TypeOK
<1>4. ASSUME NEW t \in V PROVE Backs(t, a, e)'
  BY <1>1, <1>2, <1>3, BacksStay DEF Majorities
<1> QED BY <1>3, <1>4

LEMMA NoElection ==
  ASSUME TypeOK, MemoryInv, MemoryInv', VotesInv, ElectedInv, VoteStep, elected' = elected
  PROVE  VotesInv' /\ ElectedInv'
<1>1. VotesInv' BY VotesStep
<1> SUFFICES ASSUME Overlapping PROVE ElectedInv' BY <1>1 DEF ElectedInv
<1>2. ASSUME NEW x \in elected', Lasting(x)'
      PROVE  \E V \in Majorities : \A t \in V : Backs(t, x[1], x[2])'
  BY <1>2, StillBacked
<1>3. OneLeaderPerEpoch' BY DEF ElectedInv, OneLeaderPerEpoch, VoteStep, OfOneEpoch
<1> QED BY <1>2, <1>3 DEF ElectedInv

\* A handler of one sentinel that no vote makes the leader.
LEMMA Handled ==
  ASSUME SentinelInv, NEW s \in Sentinels, NEW n, Sound(s, n),
         Advances(st[s], n) \/ Forgets(st[s], n), Echoes(st[s], n),
         st' = [st EXCEPT ![s] = n], Wrote(s, n),
         redis' \in Partial(Instances, Instances \cup {None}),
         asked' \in [Sentinels -> Requests \cup {None}],
         limit' \in Limits, Calm => limit'.faults = 0, elected' = elected,
         forgot \subseteq forgot', forgot' \subseteq Nat
  PROVE  SentinelInv' /\ VoteStep
<1>1. TypeOK /\ MemoryInv /\ VotesInv /\ ElectedInv BY DEF SentinelInv
<1>2. /\ st' \in [Sentinels -> Memory] /\ disk' \in [Sentinels -> Saved] /\ unsaved' \subseteq Sentinels
      /\ MemoryInv' /\ VoteStep
  BY <1>1, LocalStep
<1>3. VotesInv' /\ ElectedInv' BY <1>1, <1>2, NoElection
<1>4. TypeOK' BY <1>1, <1>2 DEF TypeOK
<1> QED BY <1>2, <1>3, <1>4 DEF SentinelInv

\* One that does not write the file, or may.
LEMMA HandledQuietly ==
  ASSUME SentinelInv, NEW s \in Sentinels, NEW n, Sound(s, n), Follows(st[s], n), Unwritten(st[s], n),
         st' = [st EXCEPT ![s] = n], disk' = disk, unsaved' = unsaved, forgot' = forgot,
         redis' \in Partial(Instances, Instances \cup {None}),
         asked' \in [Sentinels -> Requests \cup {None}],
         limit' \in Limits, Calm => limit'.faults = 0, elected' = elected
  PROVE  SentinelInv' /\ VoteStep
<1>1. TypeOK /\ MemoryInv BY DEF SentinelInv
<1>2. Wrote(s, n)
  <2>1. PICK d, m : d = disk[s] /\ m = st[s] OBVIOUS
  <2>2. s \in unsaved \/ Filed(d, m) BY <1>1, <2>1 DEF MemoryInv
  <2>3. s \in unsaved' \/ Filed(disk[s], n) BY <2>1, <2>2, FileGood
  <2> QED BY <2>3 DEF Wrote
<1>3. forgot' \subseteq Nat BY <1>1 DEF TypeOK
<1> QED BY <1>2, <1>3, Handled DEF Follows
LEMMA HandledFlushing ==
  ASSUME SentinelInv, NEW s \in Sentinels, NEW n, NEW flush, Sound(s, n), Follows(st[s], n),
         flush \/ Unwritten(st[s], n), Leave(s, n, flush),
         redis' \in Partial(Instances, Instances \cup {None}),
         asked' \in [Sentinels -> Requests \cup {None}], elected' = elected, forgot' = forgot
  PROVE  SentinelInv' /\ VoteStep
<1>1. TypeOK /\ MemoryInv BY DEF SentinelInv
<1>2. st' = [st EXCEPT ![s] = n] /\ sentinelFlushConfig(s, n, flush) BY DEF Leave
<1>3. Wrote(s, n) /\ limit' \in Limits /\ (Calm => limit'.faults = 0) BY <1>1, <1>2, Flushed
<1>4. forgot' \subseteq Nat BY <1>1 DEF TypeOK
<1> QED BY <1>2, <1>3, <1>4, Handled DEF Follows

-----------------------------------------------------------------------------
(* What the operations on a memory return *)

\* Slaves and sentinels as they are added know nothing.
LEMMA NewSlaves ==
  ASSUME NEW S \in SUBSET Instances
  PROVE  [r \in S |-> NewSlave] \in Partial(Instances, SUBSET Flags)
<1>1. [r \in S |-> NewSlave] \in [S -> SUBSET Flags] BY DEF NewSlave
<1> QED BY <1>1, PartialIntro

LEMMA LoadedSound ==
  ASSUME NEW s \in Sentinels, NEW d \in Saved, Circle(s, DOMAIN d.peers), NEW inc \in Nat
  PROVE  /\ Sound(s, Loaded(d, inc))
         /\ Loaded(d, inc).leader = None /\ Loaded(d, inc).lepoch = d.lepoch
         /\ Loaded(d, inc).addr = d.addr /\ DOMAIN Loaded(d, inc).slaves = d.slaves
         /\ \A p \in DOMAIN Loaded(d, inc).peers : Loaded(d, inc).peers[p].leader = None
<1> DEFINE epoch == IF d.cfg > d.epoch THEN d.cfg ELSE d.epoch
           slaves == [r \in d.slaves |-> NewSlave]
           peers == [p \in DOMAIN d.peers |-> NewPeer(d.peers[p])]
           n == Loaded(d, inc)
<1>1. d.peers \in [DOMAIN d.peers -> RunIds] /\ DOMAIN d.peers \in SUBSET Sentinels
  <2>1. d.peers \in Partial(Sentinels, RunIds) BY DEF Saved
  <2> QED BY <2>1, PartialElim
<1>2. peers \in [DOMAIN d.peers -> PeerInfo] BY <1>1 DEF NewPeer, PeerInfo
<1>3. peers \in Partial(Sentinels, PeerInfo) BY <1>1, <1>2, PartialIntro
<1>4. slaves \in Partial(Instances, SUBSET Flags) BY NewSlaves DEF Saved
<1>5. epoch \in Nat BY DEF Saved
<1>6. n = [epoch |-> epoch, addr |-> d.addr, cfg |-> d.cfg, lepoch |-> d.lepoch, leader |-> None,
           fepoch |-> 0, fstate |-> "none", promoted |-> None, force |-> FALSE,
           sdown |-> FALSE, tilt |-> FALSE, slaves |-> slaves, peers |-> peers, inc |-> inc]
  BY DEF Loaded
<1>7. DOMAIN slaves = d.slaves /\ \A r \in d.slaves : slaves[r] = {} BY DEF NewSlave
<1>8. DOMAIN peers = DOMAIN d.peers /\ \A p \in DOMAIN peers : peers[p].leader = None BY DEF NewPeer
<1> HIDE DEF epoch, slaves, peers, n
<1>9. n \in Memory BY <1>3, <1>4, <1>5, <1>6 DEF Memory, Saved, FailoverStates
<1>10. InPlace(n) BY <1>6, <1>7 DEF InPlace
<1> QED BY <1>6, <1>7, <1>8, <1>9, <1>10 DEF Sound, n

LEMMA ResetFailoverSound ==
  ASSUME NEW s \in Sentinels, NEW m, Sound(s, m)
  PROVE  /\ Sound(s, ResetFailover(m)) /\ Follows(m, ResetFailover(m)) /\ Unwritten(m, ResetFailover(m))
         /\ ResetFailover(m).promoted = None /\ ResetFailover(m).fstate = "none"
         /\ ResetFailover(m).slaves = << >> /\ ResetFailover(m).leader = None
         /\ ResetFailover(m).peers = m.peers
<1> DEFINE n == ResetFailover(m)
<1>1. m \in Memory /\ Circle(s, DOMAIN m.peers) BY DEF Sound
<1>2. <<>> \in [{} -> SUBSET Flags] OBVIOUS
<1>3. <<>> \in Partial(Instances, SUBSET Flags) BY <1>2, PartialIntro
<1>4. /\ n \in Memory
      /\ n.leader = None /\ n.lepoch = m.lepoch /\ n.peers = m.peers /\ n.addr = m.addr
      /\ n.fstate = "none" /\ n.promoted = None /\ n.slaves = <<>>
  BY <1>1, <1>3 DEF ResetFailover, Memory, FailoverStates
<1>5. m.lepoch \in Nat BY <1>1 DEF Memory
<1> HIDE DEF n
<1>6. Sound(s, n) BY <1>1, <1>4 DEF Sound, InPlace
<1>7. Follows(m, n) /\ Unwritten(m, n) BY <1>4, <1>5 DEF Follows, Advances, Echoes, Unwritten
<1> QED BY <1>4, <1>6, <1>7 DEF n

LEMMA ResetMasterSound ==
  ASSUME NEW s \in Sentinels, NEW m, Sound(s, m), ~Calm
  PROVE  LET n == sentinelResetMaster(m) IN Sound(s, n) /\ Follows(m, n) /\ Unwritten(m, n)
<1> DEFINE f == ResetFailover(m)
           n == sentinelResetMaster(m)
<1>1. Sound(s, f) /\ Follows(m, f) /\ Unwritten(m, f) /\ f \in Memory
  BY ResetFailoverSound DEF Sound
<1>2. n = [f EXCEPT !.peers = << >>] BY DEF sentinelResetMaster
<1> HIDE DEF f, n
<1>3. <<>> \in [{} -> PeerInfo] OBVIOUS
<1>4. <<>> \in Partial(Sentinels, PeerInfo) BY <1>3, PartialIntro
<1>5. /\ n \in Memory /\ n.peers = <<>>
      /\ n.leader = f.leader /\ n.lepoch = f.lepoch /\ n.addr = f.addr
      /\ n.fstate = f.fstate /\ n.promoted = f.promoted /\ n.slaves = f.slaves
  BY <1>1, <1>2, <1>4 DEF Memory
<1>6. Sound(s, n) BY <1>1, <1>5 DEF Sound, InPlace, Circle
<1>7. Follows(m, n) /\ Unwritten(m, n) BY <1>1, <1>5 DEF Follows, Advances, Echoes, Unwritten
<1> QED BY <1>6, <1>7 DEF n

LEMMA ChangeAddressSound ==
  ASSUME NEW s \in Sentinels, NEW m, Sound(s, m), NEW r \in Instances
  PROVE  LET n == sentinelResetMasterAndChangeAddress(m, r) IN Sound(s, n) /\ Follows(m, n)
<1> DEFINE f == ResetFailover(m)
           slaves == [x \in Known(m) \ {r} |-> NewSlave]
           n == sentinelResetMasterAndChangeAddress(m, r)
<1>1. Sound(s, f) /\ Follows(m, f) /\ f.promoted = None /\ f.fstate = "none" /\ f \in Memory
  BY ResetFailoverSound DEF Sound
<1>2. n = [f EXCEPT !.addr = r, !.slaves = slaves] BY DEF sentinelResetMasterAndChangeAddress
<1>3. Known(m) \in SUBSET Instances BY MemoryFacts DEF Sound, Known, Memory
<1>4. slaves \in Partial(Instances, SUBSET Flags) BY <1>3, NewSlaves
<1>5. DOMAIN slaves = Known(m) \ {r} /\ \A x \in DOMAIN slaves : slaves[x] = {} BY DEF NewSlave
<1> HIDE DEF f, n, slaves
<1>6. /\ n \in Memory /\ n.peers = f.peers
      /\ n.leader = f.leader /\ n.lepoch = f.lepoch
      /\ n.fstate = f.fstate /\ n.promoted = f.promoted /\ n.slaves = slaves
  BY <1>1, <1>2, <1>4 DEF Memory
<1>7. Sound(s, n) BY <1>1, <1>5, <1>6 DEF Sound, InPlace
<1>8. Follows(m, n) BY <1>1, <1>6 DEF Follows, Advances, Echoes
<1> QED BY <1>7, <1>8 DEF n

\* A memory with the votes, the address and the slaves of another.
LEMMA Kept ==
  ASSUME NEW s \in Sentinels, NEW m, Sound(s, m), NEW n \in Memory, InPlace(n),
         n.peers = m.peers, n.leader = m.leader, n.lepoch = m.lepoch, n.addr = m.addr,
         DOMAIN n.slaves = DOMAIN m.slaves, m.fstate = "reconf" => n.fstate = "reconf"
  PROVE  Sound(s, n) /\ Follows(m, n) /\ Unwritten(m, n)
<1>1. m.lepoch \in Nat BY DEF Sound, Memory
<1> QED BY <1>1 DEF Sound, Follows, Advances, Echoes, Unwritten

\* One that has heard from a sentinel.
LEMMA PeerUpdate ==
  ASSUME NEW s \in Sentinels, NEW m, Sound(s, m), NEW t \in DOMAIN m.peers, NEW q \in PeerInfo,
         NEW n, n = [m EXCEPT !.peers = [m.peers EXCEPT ![t] = q]]
  PROVE  /\ Sound(s, n) /\ Unwritten(m, n)
         /\ q.leader = None \/ (q.leader = m.peers[t].leader /\ q.lepoch = m.peers[t].lepoch)
              => Follows(m, n)
         /\ n.leader = m.leader /\ n.lepoch = m.lepoch
         /\ DOMAIN n.peers = DOMAIN m.peers /\ n.peers[t] = q
         /\ \A p \in DOMAIN m.peers : p # t => n.peers[p] = m.peers[p]
<1> DEFINE peers == [m.peers EXCEPT ![t] = q]
<1>1. m \in Memory /\ m.lepoch \in Nat /\ Circle(s, DOMAIN m.peers) /\ InPlace(m) BY DEF Sound, Memory
<1>2. m.peers \in [DOMAIN m.peers -> PeerInfo] /\ DOMAIN m.peers \in SUBSET Sentinels BY <1>1, MemoryFacts
<1>3. peers \in [DOMAIN m.peers -> PeerInfo] BY <1>2
<1>4. peers \in Partial(Sentinels, PeerInfo) BY <1>2, <1>3, PartialIntro
<1>5. DOMAIN peers = DOMAIN m.peers /\ peers[t] = q /\ \A p \in DOMAIN m.peers : p # t => peers[p] = m.peers[p]
  BY <1>2
<1> HIDE DEF peers
<1>6. /\ n \in Memory /\ n.peers = peers
      /\ n.leader = m.leader /\ n.lepoch = m.lepoch /\ n.addr = m.addr
      /\ n.fstate = m.fstate /\ n.promoted = m.promoted /\ n.slaves = m.slaves
  BY <1>1, <1>4 DEF Memory, peers
<1>7. Sound(s, n) BY <1>1, <1>5, <1>6 DEF Sound, InPlace
<1>8. Unwritten(m, n) BY <1>6 DEF Unwritten
<1>9. q.leader = None \/ (q.leader = m.peers[t].leader /\ q.lepoch = m.peers[t].lepoch) => Follows(m, n)
  BY <1>1, <1>5, <1>6 DEF Follows, Advances, Echoes
<1> QED BY <1>5, <1>6, <1>7, <1>8, <1>9

LEMMA SlaveOfType ==
  ASSUME TypeOK, NEW to, NEW host \in Instances \cup {None}, sentinelSendSlaveOf(to, host)
  PROVE  redis' \in Partial(Instances, Instances \cup {None})
<1>1. redis \in Partial(Instances, Instances \cup {None}) BY DEF TypeOK
<1>2. redis \in [DOMAIN redis -> Instances \cup {None}] /\ DOMAIN redis \in SUBSET Instances
  BY <1>1, PartialElim
<1>3. PICK done \in SUBSET to : redis' = [r \in DOMAIN redis |-> IF r \in done THEN host ELSE redis[r]]
  BY DEF sentinelSendSlaveOf
<1>4. redis' \in [DOMAIN redis -> Instances \cup {None}] BY <1>2, <1>3
<1> QED BY <1>2, <1>4, PartialIntro

-----------------------------------------------------------------------------
(* The steps *)

LEMMA RestartStep ==
  ASSUME SentinelInv, NEW s \in Sentinels, Restart(s)
  PROVE  SentinelInv' /\ VoteStep
<1>1. TypeOK /\ MemoryInv BY DEF SentinelInv
<1>2. Sound(s, st[s]) /\ Readable(s, disk[s]) BY <1>1 DEF MemoryInv
<1>3. PICK n, d, inc : d = disk[s] /\ inc = st[s].inc + 1 /\ n = Loaded(d, inc) OBVIOUS
<1>4. d \in Saved /\ Circle(s, DOMAIN d.peers) /\ inc \in Nat /\ d.lepoch \in Nat /\ st[s].lepoch \in Nat
  BY <1>2, <1>3 DEF Readable, Sound, Memory, Saved
<1>5. /\ Sound(s, n) /\ n.leader = None /\ n.lepoch = d.lepoch
      /\ n.addr = d.addr /\ DOMAIN n.slaves = d.slaves
      /\ \A p \in DOMAIN n.peers : n.peers[p].leader = None
  BY <1>3, <1>4, LoadedSound
<1>6. /\ st' = [st EXCEPT ![s] = n] /\ disk' = disk /\ redis' = redis /\ elected' = elected
      /\ unsaved' = unsaved \ {s} /\ forgot' = forgot \cup (d.lepoch + 1..st[s].lepoch)
  BY <1>3 DEF Restart
<1>7. Advances(st[s], n) \/ Forgets(st[s], n)
  <2>1. PICK l, k : l = st[s].lepoch /\ k = n.lepoch OBVIOUS
  <2>2. l \in Nat /\ k \in Nat /\ k + 1..l \subseteq forgot' BY <1>4, <1>5, <1>6, <2>1
  <2>3. l <= k \/ k < l BY <2>2
  <2> QED BY <1>5, <2>1, <2>2, <2>3 DEF Advances, Forgets
<1>8. Echoes(st[s], n) BY <1>5 DEF Echoes
<1>9. Filed(disk[s], n)
  <2>1. Left(d, n) = {} BY <1>5 DEF Left, Known
  <2> QED BY <1>3, <1>5, <2>1 DEF Filed, Names
<1>10. Wrote(s, n) BY <1>6, <1>9 DEF Wrote
<1>11. limit' \in Limits /\ (Calm => limit'.faults = 0) /\ asked' \in [Sentinels -> Requests \cup {None}]
       /\ redis' \in Partial(Instances, Instances \cup {None})
  BY <1>1, <1>6, FaultType DEF Restart, TypeOK
<1>12. forgot \subseteq forgot' /\ forgot' \subseteq Nat
  <2>1. PICK l, k : l = st[s].lepoch /\ k = d.lepoch OBVIOUS
  <2>2. k + 1..l \subseteq Nat BY <1>4, <2>1
  <2> QED BY <1>1, <1>6, <2>1, <2>2 DEF TypeOK
<1> QED BY <1>5, <1>6, <1>7, <1>8, <1>10, <1>11, <1>12, Handled

LEMMA ResetStep ==
  ASSUME SentinelInv, NEW s \in Sentinels, Reset(s)
  PROVE  SentinelInv' /\ VoteStep
<1>1. TypeOK /\ MemoryInv BY DEF SentinelInv
<1>2. Sound(s, st[s]) BY <1>1 DEF MemoryInv
<1>3. PICK m, n : m = st[s] /\ n = sentinelResetMaster(m) OBVIOUS
<1>4. Sound(s, n) /\ Follows(m, n) /\ Unwritten(m, n)
  <2>1. ~Calm BY <1>1, FaultType DEF Reset
  <2> QED BY <1>2, <1>3, <2>1, ResetMasterSound
<1>5. /\ st' = [st EXCEPT ![s] = n] /\ disk' = disk /\ redis' = redis /\ elected' = elected
      /\ unsaved' = unsaved /\ forgot' = forgot
  BY <1>3 DEF Reset
<1>6. limit' \in Limits /\ (Calm => limit'.faults = 0) /\ asked' \in [Sentinels -> Requests \cup {None}]
      /\ redis' \in Partial(Instances, Instances \cup {None})
  BY <1>1, <1>5, FaultType DEF Reset, TypeOK
<1> QED BY <1>3, <1>4, <1>5, <1>6, HandledQuietly

LEMMA FlagsStep ==
  ASSUME SentinelInv, NEW s \in Sentinels,
         sentinelCheckTiltCondition(s) \/ sentinelPingReplyCallback(s) \/ ForceFailover(s)
  PROVE  SentinelInv' /\ VoteStep
<1>1. TypeOK /\ MemoryInv BY DEF SentinelInv
<1>2. Sound(s, st[s]) BY <1>1 DEF MemoryInv
<1>3. PICK n : /\ st' = [st EXCEPT ![s] = n]
               /\ \/ n = [st[s] EXCEPT !.tilt = TRUE]
                  \/ n = [st[s] EXCEPT !.sdown = FALSE]
                  \/ n = [sentinelStartFailover(st[s]) EXCEPT !.force = TRUE] /\ ~InProgress(st[s])
  BY DEF sentinelCheckTiltCondition, sentinelPingReplyCallback, ForceFailover
<1>4. /\ n \in Memory /\ InPlace(n) /\ n.peers = st[s].peers /\ n.leader = st[s].leader
      /\ n.lepoch = st[s].lepoch /\ n.addr = st[s].addr /\ n.slaves = st[s].slaves
      /\ st[s].fstate = "reconf" => n.fstate = "reconf"
  <2>1. st[s] \in Memory /\ InPlace(st[s]) BY <1>2 DEF Sound
  <2>2. CASE n = [st[s] EXCEPT !.tilt = TRUE] BY <2>1, <2>2 DEF Memory, InPlace
  <2>3. CASE n = [st[s] EXCEPT !.sdown = FALSE] BY <2>1, <2>3 DEF Memory, InPlace
  <2>4. CASE n = [sentinelStartFailover(st[s]) EXCEPT !.force = TRUE] /\ ~InProgress(st[s])
    <3>1. st[s].fstate = "none" /\ st[s].epoch + 1 \in Nat BY <2>1, <2>4 DEF InProgress, Memory
    <3>2. n = [st[s] EXCEPT !.fstate = "wait", !.epoch = st[s].epoch + 1, !.fepoch = st[s].epoch + 1,
                            !.force = TRUE]
      BY <2>1, <2>4 DEF sentinelStartFailover, Memory
    <3>3. /\ n \in Memory /\ n.fstate = "wait" /\ n.promoted = st[s].promoted
          /\ n.peers = st[s].peers /\ n.leader = st[s].leader
          /\ n.lepoch = st[s].lepoch /\ n.addr = st[s].addr /\ n.slaves = st[s].slaves
      BY <2>1, <3>1, <3>2 DEF Memory, FailoverStates
    <3> QED BY <2>1, <3>1, <3>3 DEF InPlace
  <2> QED BY <1>3, <2>2, <2>3, <2>4
<1>5. Sound(s, n) /\ Follows(st[s], n) /\ Unwritten(st[s], n) BY <1>2, <1>4, Kept
<1>6. /\ disk' = disk /\ redis' = redis /\ elected' = elected /\ asked' = asked
      /\ unsaved' = unsaved /\ forgot' = forgot
  BY DEF sentinelCheckTiltCondition, sentinelPingReplyCallback, ForceFailover
<1>7. redis' \in Partial(Instances, Instances \cup {None}) /\ asked' \in [Sentinels -> Requests \cup {None}]
      /\ limit' \in Limits /\ (Calm => limit'.faults = 0)
  BY <1>1, <1>6, FaultType DEF TypeOK, sentinelCheckTiltCondition, sentinelPingReplyCallback, ForceFailover
<1> QED BY <1>3, <1>5, <1>6, <1>7, HandledQuietly

LEMMA HearsayStep ==
  ASSUME SentinelInv, NEW s \in Sentinels, NEW t \in Peers(s), AskState(s, t) \/ sentinelKillLink(s, t)
  PROVE  SentinelInv' /\ VoteStep
<1>1. TypeOK /\ MemoryInv BY DEF SentinelInv
<1>2. Sound(s, st[s]) /\ st[s] \in Memory BY <1>1 DEF MemoryInv, Sound
<1>3. t \in DOMAIN st[s].peers BY DEF AskState, sentinelKillLink
<1>4. st[s].peers[t] \in PeerInfo BY <1>2, <1>3, MemoryFacts
<1>5. PICK m, q, n : /\ m = st[s] /\ n = [m EXCEPT !.peers = [m.peers EXCEPT ![t] = q]]
                     /\ st' = [st EXCEPT ![s] = n]
                     /\ \/ \E down \in BOOLEAN : q = [m.peers[t] EXCEPT !.down = down]
                        \/ q = [m.peers[t] EXCEPT !.down = FALSE, !.leader = None]
  <2>1. CASE AskState(s, t)
    <3>1. PICK down \in BOOLEAN : down = IsDown(st[t], st[s].addr) BY DEF IsDown
    <3>2. st' = [st EXCEPT ![s] = [st[s] EXCEPT !.peers = [st[s].peers EXCEPT
                   ![t] = [st[s].peers[t] EXCEPT !.down = down]]]]
      BY <2>1, <3>1 DEF AskState, sentinelReceiveIsMasterDownReply
    <3> QED BY <3>2
  <2>2. CASE sentinelKillLink(s, t)
    <3>1. st' = [st EXCEPT ![s] = [st[s] EXCEPT !.peers = [st[s].peers EXCEPT
                   ![t] = [st[s].peers[t] EXCEPT !.down = FALSE, !.leader = None]]]]
      BY <2>2 DEF sentinelKillLink
    <3> QED BY <3>1
  <2> QED BY <2>1, <2>2
<1>6. q \in PeerInfo /\ (q.leader = None \/ (q.leader = m.peers[t].leader /\ q.lepoch = m.peers[t].lepoch))
  BY <1>4, <1>5 DEF PeerInfo
<1>7. Sound(s, m) /\ t \in DOMAIN m.peers BY <1>2, <1>3, <1>5
<1>8. Sound(s, n) /\ Follows(m, n) /\ Unwritten(m, n) BY <1>5, <1>6, <1>7, PeerUpdate
<1>9. /\ disk' = disk /\ redis' = redis /\ elected' = elected /\ asked' = asked
      /\ unsaved' = unsaved /\ forgot' = forgot
  BY DEF AskState, sentinelKillLink
<1>10. redis' \in Partial(Instances, Instances \cup {None}) /\ asked' \in [Sentinels -> Requests \cup {None}]
       /\ limit' \in Limits /\ (Calm => limit'.faults = 0)
  BY <1>1, <1>9, FaultType DEF TypeOK, AskState, sentinelKillLink
<1> QED BY <1>5, <1>8, <1>9, <1>10, HandledQuietly

LEMMA InfoOfMasterStep ==
  ASSUME SentinelInv, NEW s \in Sentinels, InfoOfMaster(s)
  PROVE  SentinelInv' /\ VoteStep
<1>1. TypeOK /\ MemoryInv BY DEF SentinelInv
<1>2. PICK m : m = st[s] /\ Sound(s, m) /\ m \in Memory BY <1>1 DEF MemoryInv, Sound
<1>3. PICK found : /\ found = {r \in DOMAIN redis : redis[r] = m.addr} \ DOMAIN m.slaves
                   /\ Leave(s, [m EXCEPT !.slaves =
                        [r \in found \cup DOMAIN m.slaves |-> IF r \in found THEN NewSlave ELSE m.slaves[r]]], TRUE)
  BY <1>2 DEF InfoOfMaster
<1> DEFINE slaves == [r \in found \cup DOMAIN m.slaves |-> IF r \in found THEN NewSlave ELSE m.slaves[r]]
<1>4. PICK n : n = [m EXCEPT !.slaves = slaves] OBVIOUS
<1>5. PICK flush : flush = TRUE /\ Leave(s, n, flush) BY <1>3, <1>4
<1>6. found \in SUBSET Instances
  <2>1. redis \in Partial(Instances, Instances \cup {None}) BY <1>1 DEF TypeOK
  <2>2. DOMAIN redis \in SUBSET Instances BY <2>1, PartialElim
  <2> QED BY <1>3, <2>2
<1>7. m.slaves \in [DOMAIN m.slaves -> SUBSET Flags] /\ DOMAIN m.slaves \in SUBSET Instances
  BY <1>2, MemoryFacts
<1>8. slaves \in [found \cup DOMAIN m.slaves -> SUBSET Flags] BY <1>7 DEF NewSlave
<1>9. slaves \in Partial(Instances, SUBSET Flags) BY <1>6, <1>7, <1>8, PartialIntro
<1>10. DOMAIN slaves = found \cup DOMAIN m.slaves
       /\ \A r \in DOMAIN slaves : slaves[r] # {} => r \in DOMAIN m.slaves /\ m.slaves[r] # {}
  BY DEF NewSlave
<1> HIDE DEF slaves
<1>11. /\ n \in Memory /\ n.peers = m.peers /\ n.slaves = slaves
       /\ n.leader = m.leader /\ n.lepoch = m.lepoch /\ n.addr = m.addr
       /\ n.fstate = m.fstate /\ n.promoted = m.promoted
  BY <1>2, <1>4, <1>9 DEF Memory
<1>12. Sound(s, n) BY <1>2, <1>10, <1>11 DEF Sound, InPlace
<1>13. m.lepoch \in Nat BY <1>2 DEF Memory
<1>14. Follows(m, n) BY <1>11, <1>13 DEF Follows, Advances, Echoes
<1>15. redis' = redis /\ elected' = elected /\ asked' = asked /\ forgot' = forgot
  BY DEF InfoOfMaster
<1>16. redis' \in Partial(Instances, Instances \cup {None}) /\ asked' \in [Sentinels -> Requests \cup {None}]
  BY <1>1, <1>15 DEF TypeOK
<1> QED BY <1>2, <1>5, <1>12, <1>14, <1>15, <1>16, HandledFlushing

LEMMA InfoOfPromotedStep ==
  ASSUME SentinelInv, NEW s \in Sentinels, NEW r, InfoOfPromoted(s, r)
  PROVE  SentinelInv' /\ VoteStep
<1>1. TypeOK /\ MemoryInv BY DEF SentinelInv
<1>2. PICK m : m = st[s] /\ Sound(s, m) /\ m \in Memory /\ InPlace(m) BY <1>1 DEF MemoryInv, Sound
<1>3. PICK n : n = [m EXCEPT !.cfg = m.fepoch, !.fstate = "reconf"] OBVIOUS
<1>4. PICK flush : flush = TRUE /\ Leave(s, n, flush) /\ m.fstate = "promotion"
  BY <1>2, <1>3 DEF InfoOfPromoted
<1>5. /\ n \in Memory /\ n.peers = m.peers /\ n.slaves = m.slaves
      /\ n.leader = m.leader /\ n.lepoch = m.lepoch /\ n.addr = m.addr
      /\ n.fstate = "reconf" /\ n.promoted = m.promoted
  BY <1>2, <1>3 DEF Memory, FailoverStates
<1>6. InPlace(n) BY <1>2, <1>4, <1>5 DEF InPlace
<1>7. Sound(s, n) /\ Follows(m, n) BY <1>2, <1>5, <1>6, Kept
<1>8. redis' = redis /\ elected' = elected /\ asked' = asked /\ forgot' = forgot
  BY DEF InfoOfPromoted
<1>9. redis' \in Partial(Instances, Instances \cup {None}) /\ asked' \in [Sentinels -> Requests \cup {None}]
  BY <1>1, <1>8 DEF TypeOK
<1> QED BY <1>2, <1>4, <1>7, <1>8, <1>9, HandledFlushing

LEMMA ConvertToSlaveStep ==
  ASSUME SentinelInv, NEW s \in Sentinels, NEW r, ConvertToSlave(s, r)
  PROVE  SentinelInv' /\ VoteStep
<1>1. TypeOK /\ MemoryInv BY DEF SentinelInv
<1>2. PICK m : m = st[s] /\ Sound(s, m) /\ m \in Memory /\ InPlace(m) BY <1>1 DEF MemoryInv, Sound
<1>3. Follows(m, m) /\ Unwritten(m, m) BY <1>2, Kept
<1>4. /\ st' = st /\ disk' = disk /\ elected' = elected /\ asked' = asked /\ limit' = limit
      /\ unsaved' = unsaved /\ forgot' = forgot
  BY DEF ConvertToSlave
<1>5. st' = [st EXCEPT ![s] = m] BY <1>1, <1>2, <1>4 DEF TypeOK
<1>6. PICK to, host : to = {r} /\ host = m.addr /\ sentinelSendSlaveOf(to, host)
  BY <1>2 DEF ConvertToSlave
<1>7. host \in Instances \cup {None} BY <1>2, <1>6 DEF Memory
<1>8. redis' \in Partial(Instances, Instances \cup {None}) BY <1>1, <1>6, <1>7, SlaveOfType
<1>9. asked' \in [Sentinels -> Requests \cup {None}] /\ limit' \in Limits /\ (Calm => limit'.faults = 0) BY <1>1, <1>4 DEF TypeOK
<1> QED BY <1>2, <1>3, <1>4, <1>5, <1>8, <1>9, HandledQuietly

\* The flags of a slave come and go only in a failover.
LEMMA AdvanceType ==
  ASSUME NEW f \in SUBSET Flags, NEW here, NEW linkup
  PROVE  Advance(f, here, linkup) \in SUBSET Flags /\ (f = {} => Advance(f, here, linkup) = {})
BY DEF Advance, Flags

LEMMA InfoOfSlaveStep ==
  ASSUME SentinelInv, NEW s \in Sentinels, NEW r \in DOMAIN st[s].slaves, InfoOfSlave(s, r)
  PROVE  SentinelInv' /\ VoteStep
<1>1. TypeOK /\ MemoryInv BY DEF SentinelInv
<1>2. PICK m : m = st[s] /\ Sound(s, m) /\ m \in Memory /\ InPlace(m) BY <1>1 DEF MemoryInv, Sound
<1>3. PICK fix, linkup : /\ sentinelSendSlaveOf(fix, m.addr)
                         /\ st' = [st EXCEPT ![s].slaves[r] = Advance(@, redis[r] = m.promoted, linkup)]
  BY <1>2 DEF InfoOfSlave
<1>4. PICK f, n : /\ f = Advance(m.slaves[r], redis[r] = m.promoted, linkup)
                  /\ n = [m EXCEPT !.slaves = [m.slaves EXCEPT ![r] = f]]
  OBVIOUS
<1>5. st' = [st EXCEPT ![s] = n] BY <1>2, <1>3, <1>4
<1>6. m.slaves \in [DOMAIN m.slaves -> SUBSET Flags] /\ DOMAIN m.slaves \in SUBSET Instances
  BY <1>2, MemoryFacts
<1>7. f \in SUBSET Flags /\ (m.slaves[r] = {} => f = {}) /\ r \in DOMAIN m.slaves
  BY <1>2, <1>4, <1>6, AdvanceType
<1> DEFINE slaves == [m.slaves EXCEPT ![r] = f]
<1>8. slaves \in [DOMAIN m.slaves -> SUBSET Flags] BY <1>6, <1>7
<1>9. slaves \in Partial(Instances, SUBSET Flags) BY <1>6, <1>8, PartialIntro
<1>10. DOMAIN slaves = DOMAIN m.slaves /\ \A x \in DOMAIN slaves : slaves[x] # {} => \E y \in DOMAIN m.slaves : m.slaves[y] # {}
  BY <1>6, <1>7
<1> HIDE DEF slaves
<1>11. /\ n \in Memory /\ n.peers = m.peers /\ n.slaves = slaves
       /\ n.leader = m.leader /\ n.lepoch = m.lepoch /\ n.addr = m.addr
       /\ n.fstate = m.fstate /\ n.promoted = m.promoted
  BY <1>2, <1>4, <1>9 DEF Memory, slaves
<1>12. InPlace(n) BY <1>2, <1>10, <1>11 DEF InPlace
<1>13. Sound(s, n) /\ Follows(m, n) /\ Unwritten(m, n) BY <1>2, <1>10, <1>11, <1>12, Kept
<1>14. disk' = disk /\ elected' = elected /\ asked' = asked /\ limit' = limit /\ unsaved' = unsaved /\ forgot' = forgot
  BY DEF InfoOfSlave
<1>15. PICK host : host = m.addr OBVIOUS
<1>16. host \in Instances \cup {None} BY <1>2, <1>15 DEF Memory
<1>17. redis' \in Partial(Instances, Instances \cup {None}) BY <1>1, <1>3, <1>15, <1>16, SlaveOfType
<1>18. asked' \in [Sentinels -> Requests \cup {None}] /\ limit' \in Limits /\ (Calm => limit'.faults = 0) BY <1>1, <1>14 DEF TypeOK
<1> QED BY <1>2, <1>5, <1>13, <1>14, <1>17, <1>18, HandledQuietly

LEMMA FollowsTransitive ==
  ASSUME NEW m \in Memory, NEW n \in Memory, NEW o \in Memory, Follows(m, n), Follows(n, o)
  PROVE  Follows(m, o)
<1>1. m.lepoch \in Nat /\ n.lepoch \in Nat /\ o.lepoch \in Nat BY DEF Memory
<1> QED BY <1>1 DEF Follows, Advances, Echoes

LEMMA HeardSound ==
  ASSUME NEW s \in Sentinels, NEW m, Sound(s, m), NEW t \in Peers(s), NEW h,
         h.runid \in RunIds, h.epoch \in Nat, h.cfg \in Nat, h.addr \in Instances
  PROVE  Sound(s, Heard(m, t, h)) /\ Follows(m, Heard(m, t, h))
<1>1. m \in Memory /\ Circle(s, DOMAIN m.peers) /\ InPlace(m) /\ m.lepoch \in Nat
  BY DEF Sound, Memory
<1>2. m.peers \in [DOMAIN m.peers -> PeerInfo] /\ DOMAIN m.peers \in SUBSET Sentinels BY <1>1, MemoryFacts
<1>3. PICK a : a = Meet(m, t, h.runid) OBVIOUS
<1>4. Sound(s, a) /\ Follows(m, a) /\ a \in Memory
  <2>1. CASE a = m
    <3>1. Follows(m, m) BY <1>1, Kept
    <3> QED BY <1>1, <2>1, <3>1
  <2>2. CASE a # m
    <3> DEFINE peers == [p \in DOMAIN m.peers \cup {t} |-> IF p = t THEN NewPeer(h.runid) ELSE m.peers[p]]
    <3>1. a = [m EXCEPT !.peers = peers] BY <1>3, <2>2 DEF Meet
    <3>2. t \in Sentinels /\ NewPeer(h.runid) \in PeerInfo BY DEF Peers, NewPeer, PeerInfo
    <3>3. peers \in [DOMAIN m.peers \cup {t} -> PeerInfo] BY <1>2, <3>2
    <3>4. peers \in Partial(Sentinels, PeerInfo) BY <1>2, <3>2, <3>3, PartialIntro
    <3>5. DOMAIN peers = DOMAIN m.peers \cup {t} /\ \A p \in DOMAIN peers : peers[p].leader # None =>
            p \in DOMAIN m.peers /\ peers[p] = m.peers[p]
      BY DEF NewPeer
    <3> HIDE DEF peers
    <3>6. /\ a \in Memory /\ a.peers = peers /\ a.slaves = m.slaves
          /\ a.leader = m.leader /\ a.lepoch = m.lepoch /\ a.addr = m.addr
          /\ a.fstate = m.fstate /\ a.promoted = m.promoted
      BY <1>1, <3>1, <3>4 DEF Memory
    <3>7. Sound(s, a) BY <1>1, <3>5, <3>6 DEF Sound, InPlace, Circle
    <3>8. Follows(m, a) BY <1>1, <3>5, <3>6 DEF Follows, Advances, Echoes
    <3> QED BY <3>6, <3>7, <3>8
  <2> QED BY <2>1, <2>2
<1>5. PICK b : b = NewEpoch(a, h.epoch) OBVIOUS
<1>6. Sound(s, b) /\ Follows(a, b) /\ b \in Memory
  <2>1. /\ b \in Memory /\ b.peers = a.peers /\ b.slaves = a.slaves
        /\ b.leader = a.leader /\ b.lepoch = a.lepoch /\ b.addr = a.addr
        /\ b.fstate = a.fstate /\ b.promoted = a.promoted
    BY <1>4, <1>5 DEF NewEpoch, Memory
  <2>2. InPlace(b) BY <1>4, <2>1 DEF Sound, InPlace
  <2> QED BY <1>4, <2>1, <2>2, Kept
<1>7. PICK c : c = UpdateConfig(b, h) OBVIOUS
<1>8. Sound(s, c) /\ Follows(b, c) /\ c \in Memory
  <2>1. InPlace(b) /\ Follows(b, b)
    <3>1. InPlace(b) BY <1>6 DEF Sound
    <3> QED BY <1>6, <3>1, Kept
  <2>2. PICK d : d = [b EXCEPT !.cfg = h.cfg] OBVIOUS
  <2>3. /\ d \in Memory /\ d.peers = b.peers /\ d.slaves = b.slaves
        /\ d.leader = b.leader /\ d.lepoch = b.lepoch /\ d.addr = b.addr
        /\ d.fstate = b.fstate /\ d.promoted = b.promoted
    BY <1>6, <2>2 DEF Memory
  <2>4. InPlace(d) BY <2>1, <2>3 DEF InPlace
  <2>5. Sound(s, d) /\ Follows(b, d) BY <1>6, <2>3, <2>4, Kept
  <2>6. PICK r, e : r = h.addr /\ e = sentinelResetMasterAndChangeAddress(d, r) OBVIOUS
  <2>7. Sound(s, e) /\ Follows(d, e) BY <2>5, <2>6, ChangeAddressSound
  <2>8. e \in Memory BY <2>7 DEF Sound
  <2>9. Follows(b, e) BY <1>6, <2>3, <2>5, <2>7, <2>8, FollowsTransitive
  <2>10. c = b \/ c = d \/ c = e BY <1>7, <2>2, <2>6 DEF UpdateConfig
  <2> QED BY <1>6, <2>1, <2>3, <2>5, <2>7, <2>8, <2>9, <2>10
<1>9. Follows(m, b) BY <1>1, <1>4, <1>6, FollowsTransitive
<1>10. Follows(m, c) BY <1>1, <1>6, <1>8, <1>9, FollowsTransitive
<1>11. c = Heard(m, t, h) BY <1>3, <1>5, <1>7 DEF Heard
<1> QED BY <1>8, <1>10, <1>11

LEMMA HelloStep ==
  ASSUME SentinelInv, NEW s \in Sentinels, NEW t \in Peers(s), sentinelProcessHelloMessage(s, t)
  PROVE  SentinelInv' /\ VoteStep
<1>1. TypeOK /\ MemoryInv BY DEF SentinelInv
<1>2. PICK m : m = st[s] /\ Sound(s, m) /\ m \in Memory BY <1>1 DEF MemoryInv, Sound
<1>3. t \in Sentinels /\ Sound(t, st[t]) /\ st[t] \in Memory BY <1>1 DEF MemoryInv, Sound, Peers
<1>4. PICK h : h = sentinelSendHello(st[t], t) OBVIOUS
<1>5. h.runid \in RunIds /\ h.epoch \in Nat /\ h.cfg \in Nat /\ h.addr \in Instances
  <2>1. sentinelGetCurrentMasterAddress(st[t]) \in Instances
    BY <1>3 DEF Sound, Memory, InPlace, sentinelGetCurrentMasterAddress
  <2> QED BY <1>3, <1>4, <2>1 DEF sentinelSendHello, Runid, RunIds, Memory
<1>6. PICK n, flush : n = Heard(m, t, h) /\ flush = ([n EXCEPT !.cfg = m.cfg] # m) /\ Leave(s, n, flush)
  BY <1>2, <1>4 DEF sentinelProcessHelloMessage
<1>7. Sound(s, n) /\ Follows(m, n) /\ n \in Memory
  <2>1. Sound(s, n) /\ Follows(m, n) BY <1>2, <1>5, <1>6, HeardSound
  <2> QED BY <2>1 DEF Sound
<1>8. flush \/ Unwritten(m, n)
  <2>1. CASE [n EXCEPT !.cfg = m.cfg] # m BY <1>6, <2>1
  <2>2. CASE [n EXCEPT !.cfg = m.cfg] = m
    <3>1. n.lepoch = m.lepoch /\ n.addr = m.addr /\ n.slaves = m.slaves /\ n.fstate = m.fstate
      BY <1>7, <2>2 DEF Memory
    <3> QED BY <3>1 DEF Unwritten
  <2> QED BY <2>1, <2>2
<1>9. redis' = redis /\ elected' = elected /\ asked' = asked /\ forgot' = forgot
  BY DEF sentinelProcessHelloMessage
<1>10. redis' \in Partial(Instances, Instances \cup {None}) /\ asked' \in [Sentinels -> Requests \cup {None}]
  BY <1>1, <1>9 DEF TypeOK
<1> QED BY <1>2, <1>6, <1>7, <1>8, <1>9, <1>10, HandledFlushing

-----------------------------------------------------------------------------
(* Votes and elections *)

\* A vote is for an epoch without one.
LEMMA VoteSound ==
  ASSUME NEW s \in Sentinels, NEW m, Sound(s, m), NEW e \in Nat, NEW a \in RunIds,
         NEW v, v = sentinelVoteLeader(m, e, a)
  PROVE  /\ Sound(s, v) /\ Follows(m, v) /\ v \in Memory
         /\ v.peers = m.peers /\ v.addr = m.addr /\ v.slaves = m.slaves
         /\ v.fstate = m.fstate /\ v.promoted = m.promoted /\ v.force = m.force
         /\ \/ v.leader = m.leader /\ v.lepoch = m.lepoch
            \/ m.lepoch < e /\ v.leader = a /\ v.lepoch = e
<1>1. m \in Memory /\ Circle(s, DOMAIN m.peers) /\ InPlace(m) /\ m.lepoch \in Nat /\ m.epoch \in Nat
  BY DEF Sound, Memory
<1>2. /\ v \in Memory /\ v.peers = m.peers /\ v.addr = m.addr /\ v.slaves = m.slaves
      /\ v.fstate = m.fstate /\ v.promoted = m.promoted /\ v.force = m.force
      /\ \/ v.leader = m.leader /\ v.lepoch = m.lepoch
         \/ m.lepoch < e /\ v.leader = a /\ v.lepoch = e
  <2>1. CASE m.lepoch < e /\ m.epoch <= e
    <3>1. v = [m EXCEPT !.epoch = e, !.leader = a, !.lepoch = e] BY <2>1 DEF sentinelVoteLeader
    <3> QED BY <1>1, <2>1, <3>1 DEF Memory
  <2>2. CASE ~(m.lepoch < e /\ m.epoch <= e)
    <3>1. v = [m EXCEPT !.epoch = IF e > m.epoch THEN e ELSE m.epoch] BY <2>2 DEF sentinelVoteLeader, NewEpoch
    <3> QED BY <1>1, <3>1 DEF Memory
  <2> QED BY <2>1, <2>2
<1>3. Sound(s, v) BY <1>1, <1>2 DEF Sound, InPlace
<1>4. Follows(m, v) BY <1>1, <1>2 DEF Follows, Advances, Echoes
<1> QED BY <1>2, <1>3, <1>4

LEMMA AskVoteStep ==
  ASSUME SentinelInv, NEW s \in Sentinels, NEW t \in Peers(s), AskVote(s, t)
  PROVE  SentinelInv' /\ VoteStep
<1>1. TypeOK /\ MemoryInv /\ VotesInv /\ ElectedInv BY DEF SentinelInv
<1>2. st \in [Sentinels -> Memory] /\ disk \in [Sentinels -> Saved] BY <1>1 DEF TypeOK
<1>3. t \in Sentinels /\ t # s BY DEF Peers
<1>4. /\ Sound(s, st[s]) /\ Sound(t, st[t]) /\ Readable(t, disk[t]) /\ (s \in unsaved \/ Filed(disk[s], st[s]))
      /\ st[s] \in Memory /\ st[t] \in Memory
  BY <1>1, <1>3 DEF MemoryInv, Sound
<1>5. asked[s] \in Requests BY <1>1 DEF TypeOK, AskVote
<1>6. PICK m, heard :
        /\ m = Ballot(t, asked[s]) /\ heard \in SUBSET ({t} \cap DOMAIN st[s].peers)
        /\ st' = [st EXCEPT ![t] = m,
             ![s].peers = [p \in DOMAIN @ |-> IF p \in heard THEN Answered(@[p], asked[s], m) ELSE @[p]]]
        /\ sentinelFlushConfig(t, m, m # st[t])
  BY DEF AskVote
<1>7. Sound(t, m) /\ Follows(st[t], m) /\ m \in Memory
  <2>1. CASE asked[s].addr = st[t].addr
    <3>1. PICK e, a, o : e = asked[s].epoch /\ a = asked[s].runid /\ o = st[t] OBVIOUS
    <3>2. e \in Nat /\ a \in RunIds /\ m = sentinelVoteLeader(o, e, a)
      BY <1>5, <1>6, <2>1, <3>1 DEF Requests, Ballot
    <3> QED BY <1>3, <1>4, <3>1, <3>2, VoteSound
  <2>2. CASE asked[s].addr # st[t].addr
    <3>1. m = st[t] BY <1>6, <2>2 DEF Ballot
    <3>2. InPlace(m) BY <1>4, <3>1 DEF Sound
    <3> QED BY <1>3, <1>4, <3>1, <3>2, Kept
  <2> QED BY <2>1, <2>2
<1> DEFINE peers == [p \in DOMAIN st[s].peers |-> IF p \in heard THEN Answered(st[s].peers[p], asked[s], m)
                                                  ELSE st[s].peers[p]]
<1>8. PICK n : n = [st[s] EXCEPT !.peers = peers] OBVIOUS
<1>9. st' = [x \in Sentinels |-> IF x = t THEN m ELSE IF x = s THEN n ELSE st[x]]
  <2>1. st' = [st EXCEPT ![t] = m,
          ![s].peers = [p \in DOMAIN @ |-> IF p \in heard THEN Answered(@[p], asked[s], m) ELSE @[p]]]
    BY <1>6
  <2> QED BY <1>2, <1>3, <1>8, <2>1
<1>10. /\ peers \in Partial(Sentinels, PeerInfo) /\ DOMAIN peers = DOMAIN st[s].peers
       /\ \A p \in DOMAIN peers :
            \/ peers[p].leader = st[s].peers[p].leader /\ peers[p].lepoch = st[s].peers[p].lepoch
            \/ p = t /\ peers[p].leader = m.leader /\ peers[p].lepoch = m.lepoch
  <2>1. st[s].peers \in [DOMAIN st[s].peers -> PeerInfo] /\ DOMAIN st[s].peers \in SUBSET Sentinels
    BY <1>4, MemoryFacts
  <2>2. ASSUME NEW p \in PeerInfo
        PROVE  /\ Answered(p, asked[s], m) \in PeerInfo
               /\ \/ Answered(p, asked[s], m).leader = p.leader /\ Answered(p, asked[s], m).lepoch = p.lepoch
                  \/ Answered(p, asked[s], m).leader = m.leader /\ Answered(p, asked[s], m).lepoch = m.lepoch
    <3>1. m.leader \in RunIds \cup {None} /\ m.lepoch \in Nat BY <1>7 DEF Memory
    <3>2. PICK down \in BOOLEAN : down = IsDown(m, asked[s].addr) BY DEF IsDown
    <3>3. \/ Answered(p, asked[s], m) = [p EXCEPT !.down = down]
          \/ Answered(p, asked[s], m) = [p EXCEPT !.down = down, !.leader = m.leader, !.lepoch = m.lepoch]
      BY <3>2 DEF Answered, sentinelReceiveIsMasterDownReply
    <3> QED BY <3>1, <3>3 DEF PeerInfo
  <2>3. peers \in [DOMAIN st[s].peers -> PeerInfo] BY <2>1, <2>2
  <2>4. peers \in Partial(Sentinels, PeerInfo) BY <2>1, <2>3, PartialIntro
  <2>5. ASSUME NEW p \in DOMAIN peers
        PROVE  \/ peers[p].leader = st[s].peers[p].leader /\ peers[p].lepoch = st[s].peers[p].lepoch
               \/ p = t /\ peers[p].leader = m.leader /\ peers[p].lepoch = m.lepoch
    BY <1>6, <2>1, <2>2
  <2> QED BY <2>4, <2>5
<1> HIDE DEF peers
<1>11. /\ n \in Memory /\ n.peers = peers /\ n.slaves = st[s].slaves
       /\ n.leader = st[s].leader /\ n.lepoch = st[s].lepoch /\ n.addr = st[s].addr
       /\ n.fstate = st[s].fstate /\ n.promoted = st[s].promoted
  BY <1>4, <1>8, <1>10 DEF Memory
<1>12. Sound(s, n) BY <1>4, <1>10, <1>11 DEF Sound, InPlace
<1>13. s \in unsaved \/ Filed(disk[s], n)
  <2>1. PICK d, k : d = disk[s] /\ k = st[s] OBVIOUS
  <2>2. Unwritten(k, n) BY <1>11, <2>1 DEF Unwritten
  <2> QED BY <1>4, <2>1, <2>2, FileGood
<1>14. /\ Readable(t, disk'[t]) /\ (t \in unsaved' \/ Filed(disk'[t], m)) /\ disk' \in [Sentinels -> Saved]
       /\ \A x \in Sentinels : x # t => disk'[x] = disk[x] /\ (x \in unsaved' <=> x \in unsaved)
       /\ unsaved' \subseteq Sentinels /\ limit' \in Limits /\ (Calm => limit'.faults = 0)
  <2>1. PICK d, k, flush : d = rewriteConfigSentinelOption(m) /\ k = st[t] /\ flush = (m # k) OBVIOUS
  <2>2. Readable(t, d) /\ Filed(d, m) BY <1>3, <1>7, <2>1, Rewritten
  <2>3. d \in Saved BY <2>2 DEF Readable
  <2>4. flush \/ Unwritten(k, m) BY <2>1 DEF Unwritten
  <2>5. Wrote(t, m) /\ limit' \in Limits /\ (Calm => limit'.faults = 0)
    BY <1>1, <1>3, <1>6, <2>1, <2>4, Flushed
  <2>6. unsaved \subseteq Sentinels BY <1>1 DEF TypeOK
  <2>7. CASE disk' = [disk EXCEPT ![t] = d] /\ unsaved' = unsaved \ {t}
    BY <1>2, <1>3, <2>2, <2>3, <2>5, <2>6, <2>7
  <2>8. CASE disk' = disk /\ unsaved' = unsaved \cup {t} BY <1>2, <1>3, <1>4, <2>5, <2>6, <2>8
  <2>9. CASE disk' = disk /\ unsaved' \in {unsaved, unsaved \ {t}} /\ (t \in unsaved' \/ Filed(disk[t], m))
    BY <1>2, <1>3, <1>4, <2>5, <2>6, <2>9
  <2> QED BY <2>1, <2>5, <2>7, <2>8, <2>9 DEF Wrote
<1>15. ASSUME NEW x \in Sentinels
       PROVE  Sound(x, st'[x]) /\ Readable(x, disk'[x]) /\ (x \in unsaved' \/ Filed(disk'[x], st'[x]))
  <2>1. Sound(x, st[x]) /\ Readable(x, disk[x]) /\ (x \in unsaved \/ Filed(disk[x], st[x]))
    BY <1>1 DEF MemoryInv
  <2>2. CASE x = t
    <3>1. st'[x] = m BY <1>9, <2>2
    <3> QED BY <1>7, <1>14, <2>2, <3>1
  <2>3. CASE x = s
    <3>1. st'[x] = n BY <1>3, <1>9, <2>3
    <3>2. disk'[x] = disk[x] /\ (x \in unsaved' <=> x \in unsaved) BY <1>3, <1>14, <2>3
    <3> QED BY <1>12, <1>13, <2>1, <2>3, <3>1, <3>2
  <2>4. CASE x # t /\ x # s
    <3>1. st'[x] = st[x] BY <1>9, <2>4
    <3>2. disk'[x] = disk[x] /\ (x \in unsaved' <=> x \in unsaved) BY <1>14, <2>4
    <3> QED BY <2>1, <3>1, <3>2
  <2> QED BY <2>2, <2>3, <2>4
<1>16. MemoryInv' BY <1>15 DEF MemoryInv
<1>17. VoteStep
  <2>1. ASSUME NEW x \in Sentinels PROVE Advances(st[x], st'[x])
    <3>1. EpochsNat BY <1>1, EpochType
    <3> QED BY <1>7, <1>9, <1>11, <3>1 DEF Follows, Advances, EpochsNat
  <2>2. ASSUME NEW x \in Sentinels, NEW y \in Sentinels, Heeds(x, y)'
        PROVE  \/ /\ Heeds(x, y)
                  /\ st'[x].peers[y].leader = st[x].peers[y].leader
                  /\ st'[x].peers[y].lepoch = st[x].peers[y].lepoch
               \/ /\ st'[x].peers[y].leader = st'[y].leader
                  /\ st'[x].peers[y].lepoch = st'[y].lepoch
    <3>1. CASE x = t BY <1>7, <1>9, <2>2, <3>1 DEF Follows, Advances, Echoes, Heeds
    <3>2. CASE x = s BY <1>3, <1>9, <1>10, <1>11, <2>2, <3>2 DEF Heeds
    <3>3. CASE x # t /\ x # s BY <1>9, <2>2, <3>3 DEF Heeds
    <3> QED BY <3>1, <3>2, <3>3
  <2>3. forgot' = forgot BY DEF AskVote
  <2> QED BY <2>1, <2>2, <2>3 DEF VoteStep
<1>18. redis' = redis /\ elected' = elected /\ asked' = asked /\ forgot' = forgot BY DEF AskVote
<1>19. VotesInv' /\ ElectedInv' BY <1>1, <1>16, <1>17, <1>18, NoElection
<1>20. TypeOK'
  <2>1. st' \in [Sentinels -> Memory] BY <1>2, <1>7, <1>9, <1>11
  <2> QED BY <1>1, <1>14, <1>18, <2>1 DEF TypeOK
<1> QED BY <1>16, <1>17, <1>19, <1>20 DEF SentinelInv

-----------------------------------------------------------------------------
(* The timer *)

\* The votes that carry the leader: the replies of the epoch, and the vote in v.
Carried(s, m, v, me) ==
  /\ v.peers = m.peers
  /\ \E V \in SUBSET Sentinels :
       /\ Enough(m, Cardinality(V))
       /\ \A t \in V :
            \/ t \in DOMAIN m.peers /\ m.peers[t].leader = me /\ m.peers[t].lepoch = m.epoch
            \/ t = s /\ v.leader = me /\ v.lepoch = m.fepoch

\* What an outcome of the state machine has to be.
Good(s, m, o) ==
  /\ Sound(s, o.m) /\ Follows(m, o.m)
  /\ o.flush = TRUE \/ (o.flush = FALSE /\ Unwritten(m, o.m))
  /\ o.host \in Instances \cup {None}
  /\ o.leads => Carried(s, m, o.m, Runid(s, m.inc))

LEMMA Smallest ==
  ASSUME NEW S \in SUBSET Nat, S # {}
  PROVE  \E x \in S : \A y \in S : x <= y
<1>1. PICK x \in S : \A y \in S : ~(<<y, x>> \in OpToRel(<, Nat))
  BY NatLessThanWellFounded, WFMin
<1>2. \A y \in S : ~(y < x) BY <1>1 DEF OpToRel
<1> QED BY <1>2

\* The slave selected is one of the slaves.
LEMMA SelectedSlave ==
  ASSUME NEW u \in SUBSET Instances
  PROVE  sentinelSelectSlave(u) = None \/ sentinelSelectSlave(u) \in u
<1> SUFFICES ASSUME u # {} PROVE sentinelSelectSlave(u) \in u BY DEF sentinelSelectSlave
<1> DEFINE S == {Rank[r] : r \in u}
<1>1. S \in SUBSET Nat /\ S # {} BY SentinelAssumption DEF Instances
<1>2. PICK x \in S : \A y \in S : x <= y BY <1>1, Smallest
<1>3. \E r \in u : \A y \in u : compareSlavesForPromotion(r, y) BY <1>2 DEF compareSlavesForPromotion
<1> QED BY <1>3 DEF sentinelSelectSlave

LEMMA Stays ==
  ASSUME NEW s \in Sentinels, NEW m, Sound(s, m)
  PROVE  Follows(m, m) /\ Unwritten(m, m) /\ Good(s, m, Quietly(m))
<1>1. m \in Memory /\ InPlace(m) BY DEF Sound
<1>2. Follows(m, m) /\ Unwritten(m, m) BY <1>1, Kept
<1> QED BY <1>2 DEF Good, Quietly, Outcome

LEMMA AbortSound ==
  ASSUME NEW s \in Sentinels, NEW m, Sound(s, m), m.fstate # "reconf",
         NEW n, n = sentinelAbortFailover(m)
  PROVE  Sound(s, n) /\ Follows(m, n) /\ Unwritten(m, n)
<1>1. m \in Memory /\ InPlace(m) BY DEF Sound
<1>2. /\ n \in Memory /\ n.peers = m.peers /\ n.slaves = m.slaves
      /\ n.leader = m.leader /\ n.lepoch = m.lepoch /\ n.addr = m.addr
      /\ n.fstate = "none" /\ n.promoted = None
  BY <1>1 DEF sentinelAbortFailover, Memory, FailoverStates
<1>3. InPlace(n) BY <1>1, <1>2 DEF InPlace
<1> QED BY <1>2, <1>3, Kept

LEMMA SelectGood ==
  ASSUME NEW s \in Sentinels, NEW m, Sound(s, m), m.fstate = "select",
         NEW o \in sentinelFailoverSelectSlave(m)
  PROVE  Good(s, m, o)
<1>1. m \in Memory /\ InPlace(m) BY DEF Sound
<1>2. PICK u \in SUBSET Candidates(m) : o = Quietly(Select(m, sentinelSelectSlave(u)))
  BY DEF sentinelFailoverSelectSlave
<1>3. u \in SUBSET DOMAIN m.slaves /\ DOMAIN m.slaves \in SUBSET Instances BY <1>1, MemoryFacts DEF Candidates
<1>4. PICK r : r = sentinelSelectSlave(u) OBVIOUS
<1>5. r = None \/ r \in DOMAIN m.slaves BY <1>3, <1>4, SelectedSlave
<1>6. PICK n : n = Select(m, r) OBVIOUS
<1>7. Sound(s, n) /\ Follows(m, n) /\ Unwritten(m, n)
  <2>1. CASE r = None
    <3>1. n = sentinelAbortFailover(m) BY <1>6, <2>1 DEF Select
    <3> QED BY <3>1, AbortSound
  <2>2. CASE r # None
    <3>1. n = [m EXCEPT !.promoted = r, !.fstate = "noone"] BY <1>6, <2>2 DEF Select
    <3>2. /\ n \in Memory /\ n.peers = m.peers /\ n.slaves = m.slaves
          /\ n.leader = m.leader /\ n.lepoch = m.lepoch /\ n.addr = m.addr
          /\ n.fstate = "noone" /\ n.promoted = r
      BY <1>1, <1>3, <1>5, <2>2, <3>1 DEF Memory, FailoverStates
    <3>3. InPlace(n) BY <1>1, <1>5, <2>2, <3>2 DEF InPlace
    <3> QED BY <3>2, <3>3, Kept
  <2> QED BY <2>1, <2>2
<1>8. o.m = n /\ o.flush = FALSE /\ o.host = None /\ o.leads = FALSE
  BY <1>2, <1>4, <1>6 DEF Quietly, Outcome
<1> QED BY <1>7, <1>8 DEF Good

LEMMA PromotionGood ==
  ASSUME NEW s \in Sentinels, NEW m, Sound(s, m),
         NEW o,
         \/ m.fstate = "noone" /\ o \in sentinelFailoverSendSlaveOfNoOne(m)
         \/ m.fstate = "promotion" /\ o \in sentinelFailoverWaitPromotion(m)
  PROVE  Good(s, m, o)
<1>1. m \in Memory /\ InPlace(m) BY DEF Sound
<1>2. PICK a : a = sentinelAbortFailover(m) OBVIOUS
<1>3. Sound(s, a) /\ Follows(m, a) /\ Unwritten(m, a) BY <1>2, AbortSound
<1>4. Good(s, m, Quietly(a)) BY <1>3 DEF Good, Quietly, Outcome
<1>5. Good(s, m, Quietly(m)) BY Stays
<1>6. ASSUME m.fstate = "noone", o = Sending([m EXCEPT !.fstate = "promotion"], {m.promoted}, None, FALSE)
      PROVE  Good(s, m, o)
  <2>1. PICK n : n = [m EXCEPT !.fstate = "promotion"] OBVIOUS
  <2>2. /\ n \in Memory /\ n.peers = m.peers /\ n.slaves = m.slaves
        /\ n.leader = m.leader /\ n.lepoch = m.lepoch /\ n.addr = m.addr
        /\ n.fstate = "promotion" /\ n.promoted = m.promoted
    BY <1>1, <2>1 DEF Memory, FailoverStates
  <2>3. InPlace(n) BY <1>1, <1>6, <2>2 DEF InPlace
  <2>4. Sound(s, n) /\ Follows(m, n) /\ Unwritten(m, n) BY <2>2, <2>3, Kept
  <2>5. o.m = n /\ o.flush = FALSE /\ o.host = None /\ o.leads = FALSE BY <1>6, <2>1 DEF Sending
  <2> QED BY <2>4, <2>5 DEF Good
<1> QED BY <1>2, <1>4, <1>5, <1>6 DEF sentinelFailoverSendSlaveOfNoOne, sentinelFailoverWaitPromotion

LEMMA ReconfGood ==
  ASSUME NEW s \in Sentinels, NEW m, Sound(s, m), m.fstate = "reconf",
         NEW o \in sentinelFailoverReconfNextSlave(m)
  PROVE  Good(s, m, o)
<1>1. m \in Memory /\ InPlace(m) BY DEF Sound
<1>2. m.slaves \in [DOMAIN m.slaves -> SUBSET Flags] /\ DOMAIN m.slaves \in SUBSET Instances
  BY <1>1, MemoryFacts
<1>3. PICK reach, slow, to, late : o = sentinelFailoverDetectEnd(Sent(Tried(m, slow), to), to, reach, late)
  <2>1. PICK reach \in SUBSET DOMAIN m.slaves, slow \in SUBSET Unfinished(m) :
          o \in {ReconfSlaves(m, reach, slow, V, late) : V \in Visits(m, Free(m, reach, slow)), late \in BOOLEAN}
    BY DEF sentinelFailoverReconfNextSlave
  <2>2. PICK V \in Visits(m, Free(m, reach, slow)), late \in BOOLEAN : o = ReconfSlaves(m, reach, slow, V, late)
    BY <2>1
  <2> QED BY <2>2 DEF ReconfSlaves
<1>4. PICK a : a = Tried(m, slow) OBVIOUS
<1>5. /\ a \in Memory /\ a.peers = m.peers /\ DOMAIN a.slaves = DOMAIN m.slaves
      /\ a.leader = m.leader /\ a.lepoch = m.lepoch /\ a.addr = m.addr
      /\ a.fstate = "reconf" /\ a.promoted = m.promoted
  <2> DEFINE slaves == [r \in DOMAIN m.slaves |-> IF r \in slow THEN GivenUp(m.slaves[r]) ELSE m.slaves[r]]
  <2>1. a = [m EXCEPT !.slaves = slaves] BY <1>4 DEF Tried
  <2>2. \A f \in SUBSET Flags : GivenUp(f) \in SUBSET Flags BY DEF GivenUp, Flags
  <2>3. slaves \in [DOMAIN m.slaves -> SUBSET Flags] BY <1>2, <2>2
  <2>4. slaves \in Partial(Instances, SUBSET Flags) BY <1>2, <2>3, PartialIntro
  <2>5. DOMAIN slaves = DOMAIN m.slaves OBVIOUS
  <2> HIDE DEF slaves
  <2> QED BY <1>1, <2>1, <2>4, <2>5 DEF Memory
<1>6. a.slaves \in [DOMAIN a.slaves -> SUBSET Flags] /\ DOMAIN a.slaves \in SUBSET Instances
  BY <1>5, MemoryFacts
<1>7. PICK n : n = Sent(a, to) OBVIOUS
<1>8. /\ n \in Memory /\ n.peers = m.peers /\ DOMAIN n.slaves = DOMAIN m.slaves
      /\ n.leader = m.leader /\ n.lepoch = m.lepoch /\ n.addr = m.addr
      /\ n.fstate = "reconf" /\ n.promoted = m.promoted
  <2> DEFINE slaves == [r \in DOMAIN a.slaves |-> IF r \in to THEN a.slaves[r] \cup {"sent"} ELSE a.slaves[r]]
  <2>1. n = [a EXCEPT !.slaves = slaves] BY <1>7 DEF Sent
  <2>2. \A f \in SUBSET Flags : f \cup {"sent"} \in SUBSET Flags BY DEF Flags
  <2>3. slaves \in [DOMAIN a.slaves -> SUBSET Flags] BY <1>6, <2>2
  <2>4. slaves \in Partial(Instances, SUBSET Flags) BY <1>6, <2>3, PartialIntro
  <2>5. DOMAIN slaves = DOMAIN a.slaves OBVIOUS
  <2> HIDE DEF slaves
  <2> QED BY <1>5, <2>1, <2>4, <2>5 DEF Memory
<1>9. InPlace(n) BY <1>1, <1>8 DEF InPlace
<1>10. Sound(s, n) /\ Follows(m, n) /\ Unwritten(m, n) BY <1>8, <1>9, Kept
<1>11. PICK r : r = m.promoted /\ r \in Instances BY <1>1 DEF InPlace, Memory
<1>12. PICK e : e = sentinelResetMasterAndChangeAddress(n, r) OBVIOUS
<1>13. Sound(s, e) /\ Follows(n, e) BY <1>10, <1>11, <1>12, ChangeAddressSound
<1>14. Follows(m, e)
  <2>1. e \in Memory BY <1>13 DEF Sound
  <2> QED BY <1>1, <1>8, <1>10, <1>13, <2>1, FollowsTransitive
<1>15. \/ o.m = n /\ o.flush = FALSE /\ o.host = r /\ o.leads = FALSE
       \/ o.m = e /\ o.flush = TRUE /\ o.host = r /\ o.leads = FALSE
  BY <1>3, <1>4, <1>7, <1>8, <1>11, <1>12
     DEF sentinelFailoverDetectEnd, Sending, sentinelFailoverSwitchToPromotedSlave
<1> QED BY <1>10, <1>11, <1>13, <1>14, <1>15 DEF Good

\* A sentinel that wins has the votes of enough sentinels, its own counted once.
LEMMA WinnerCarried ==
  ASSUME NEW s \in Sentinels, NEW m, Sound(s, m), NEW v, v.peers = m.peers,
         NEW first, NEW me \in RunIds, Wins(m, v, first, me)
  PROVE  Carried(s, m, v, me)
<1> DEFINE S == {p \in DOMAIN m.peers : m.peers[p].leader = me /\ m.peers[p].lepoch = m.epoch}
           mine == IF v.lepoch = m.fepoch THEN v.leader ELSE None
           before == IF first = None THEN 0 ELSE For(m, first)
           after == IF mine = None THEN 0 ELSE For(m, mine) + 1
<1>1. m \in Memory /\ Circle(s, DOMAIN m.peers) BY DEF Sound
<1>2. S \in SUBSET Sentinels /\ s \notin S BY <1>1 DEF Circle, Peers
<1>3. IsFiniteSet(S) BY <1>2, SentinelAssumption, FS_Subset
<1>4. me # None BY SentinelAssumption DEF RunIds
<1>5. For(m, me) = Cardinality(S) BY DEF For
<1>6. IF after > before THEN mine = me /\ Enough(m, after) ELSE first = me /\ Enough(m, before)
  BY DEF Wins
<1>7. CASE mine = me /\ Enough(m, after)
  <2>1. after = Cardinality(S) + 1 BY <1>4, <1>5, <1>7
  <2>2. Cardinality(S \cup {s}) = Cardinality(S) + 1 BY <1>2, <1>3, FS_AddElement
  <2>3. v.leader = me /\ v.lepoch = m.fepoch BY <1>4, <1>7
  <2>4. Enough(m, Cardinality(S \cup {s})) BY <1>7, <2>1, <2>2
  <2>5. S \cup {s} \in SUBSET Sentinels BY <1>2
  <2> QED BY <2>3, <2>4, <2>5 DEF Carried
<1>8. CASE first = me /\ Enough(m, before)
  <2>1. Enough(m, Cardinality(S)) BY <1>4, <1>5, <1>8
  <2> QED BY <1>2, <2>1 DEF Carried
<1> QED BY <1>6, <1>7, <1>8

LEMMA WaitGood ==
  ASSUME NEW s \in Sentinels, NEW m, Sound(s, m), m.fstate = "wait",
         NEW o \in sentinelFailoverWaitStart(m, Runid(s, m.inc))
  PROVE  Good(s, m, o)
<1>1. m \in Memory /\ InPlace(m) BY DEF Sound
<1>2. m.peers \in [DOMAIN m.peers -> PeerInfo] BY <1>1, MemoryFacts
<1>3. PICK me : me = Runid(s, m.inc) OBVIOUS
<1>4. me \in RunIds BY <1>1, <1>3 DEF Runid, RunIds, Memory
<1>5. PICK l \in sentinelGetLeader(m, me) :
        o \in IF l.leads \/ l.m.force THEN {[l EXCEPT !.m.fstate = "select"]}
              ELSE {l, [l EXCEPT !.m = sentinelAbortFailover(l.m)]}
  BY <1>3 DEF sentinelFailoverWaitStart
<1>6. PICK first \in IF Named(m) = {} THEN {None} ELSE Ahead(m) :
        LET v == sentinelVoteLeader(m, m.fepoch, IF first = None THEN me ELSE first)
        IN  l = Outcome(v, Voted(m, v), Wins(m, v, first, me))
  BY DEF sentinelGetLeader
<1>7. first \in RunIds \cup {None}
  <2>1. \A p \in DOMAIN m.peers : m.peers[p].leader \in RunIds \cup {None} BY <1>2 DEF PeerInfo
  <2> QED BY <2>1 DEF Ahead, Named
<1>8. PICK a, e, v : a = (IF first = None THEN me ELSE first) /\ e = m.fepoch /\ v = sentinelVoteLeader(m, e, a)
  OBVIOUS
<1>9. a \in RunIds /\ e \in Nat BY <1>1, <1>4, <1>7, <1>8 DEF Memory
<1>10. /\ Sound(s, v) /\ Follows(m, v) /\ v \in Memory
       /\ v.peers = m.peers /\ v.addr = m.addr /\ v.slaves = m.slaves
       /\ v.fstate = m.fstate /\ v.promoted = m.promoted
       /\ \/ v.leader = m.leader /\ v.lepoch = m.lepoch
          \/ m.lepoch < e /\ v.leader = a /\ v.lepoch = e
  BY <1>8, <1>9, VoteSound
<1>11. l = Outcome(v, Voted(m, v), Wins(m, v, first, me)) BY <1>6, <1>8
<1>12. l = [m |-> v, to |-> {}, host |-> None, flush |-> Voted(m, v), leads |-> Wins(m, v, first, me)]
  BY <1>11 DEF Outcome
<1>13. l.flush = TRUE \/ (l.flush = FALSE /\ Unwritten(m, v))
  <2>1. m.lepoch \in Nat /\ None \notin RunIds BY <1>1, SentinelAssumption DEF Memory, RunIds
  <2>2. l.flush = Voted(m, v) /\ Voted(m, v) \in BOOLEAN BY <1>12 DEF Voted
  <2>3. m.lepoch < e /\ v.leader = a /\ v.lepoch = e => Voted(m, v) BY <1>9, <2>1 DEF Voted
  <2>4. v.leader = m.leader /\ v.lepoch = m.lepoch => Unwritten(m, v) BY <1>10 DEF Unwritten
  <2> QED BY <1>10, <2>2, <2>3, <2>4
<1>14. l.leads => Carried(s, m, v, me) BY <1>4, <1>10, <1>12, WinnerCarried
<1>15. CASE o = [l EXCEPT !.m.fstate = "select"]
  <2>1. PICK n : n = [v EXCEPT !.fstate = "select"] OBVIOUS
  <2>2. o = [m |-> n, to |-> {}, host |-> None, flush |-> l.flush, leads |-> l.leads]
    BY <1>12, <1>15, <2>1
  <2>3. /\ n \in Memory /\ n.peers = v.peers /\ n.slaves = v.slaves
        /\ n.leader = v.leader /\ n.lepoch = v.lepoch /\ n.addr = v.addr
        /\ n.fstate = "select" /\ n.promoted = v.promoted
    BY <1>10, <2>1 DEF Memory, FailoverStates
  <2>4. InPlace(n) BY <1>1, <1>10, <2>3 DEF InPlace
  <2>5. Sound(s, n) /\ Follows(v, n) /\ Unwritten(v, n) BY <1>10, <2>3, <2>4, Kept
  <2>6. Follows(m, n) BY <1>1, <1>10, <2>3, <2>5, FollowsTransitive
  <2>7. Unwritten(m, v) => Unwritten(m, n) BY <2>3 DEF Unwritten
  <2>8. Carried(s, m, v, me) => Carried(s, m, n, me) BY <1>10, <2>3 DEF Carried
  <2> QED BY <1>3, <1>13, <1>14, <2>2, <2>5, <2>6, <2>7, <2>8 DEF Good
<1>16. CASE o = l
  <2>1. o.m = v /\ o.host = None BY <1>12, <1>16
  <2> QED BY <1>3, <1>10, <1>13, <1>14, <1>16, <2>1 DEF Good
<1>17. CASE ~l.leads /\ o = [l EXCEPT !.m = sentinelAbortFailover(l.m)]
  <2>1. PICK n : n = sentinelAbortFailover(v) OBVIOUS
  <2>2. o = [m |-> n, to |-> {}, host |-> None, flush |-> l.flush, leads |-> l.leads]
    BY <1>12, <1>17, <2>1
  <2>3. Sound(s, n) /\ Follows(v, n) /\ Unwritten(v, n) BY <1>10, <2>1, AbortSound
  <2>4. n \in Memory BY <2>3 DEF Sound
  <2>5. Follows(m, n) BY <1>1, <1>10, <2>3, <2>4, FollowsTransitive
  <2>6. Unwritten(m, v) => Unwritten(m, n) BY <2>3 DEF Unwritten
  <2> QED BY <1>13, <1>17, <2>2, <2>3, <2>5, <2>6 DEF Good
<1> QED BY <1>5, <1>15, <1>16, <1>17

LEMMA MachineGood ==
  ASSUME NEW s \in Sentinels, NEW m, Sound(s, m),
         NEW o \in sentinelFailoverStateMachine(m, Runid(s, m.inc))
  PROVE  Good(s, m, o)
<1>1. m.fstate \in FailoverStates BY DEF Sound, Memory
<1>2. CASE m.fstate = "none"
  <2>1. o = Quietly(m) BY <1>2 DEF sentinelFailoverStateMachine
  <2> QED BY <2>1, Stays
<1>3. CASE m.fstate = "wait"
  <2>1. o \in sentinelFailoverWaitStart(m, Runid(s, m.inc)) BY <1>3 DEF sentinelFailoverStateMachine
  <2> QED BY <1>3, <2>1, WaitGood
<1>4. CASE m.fstate = "select"
  <2>1. o \in sentinelFailoverSelectSlave(m) BY <1>4 DEF sentinelFailoverStateMachine
  <2> QED BY <1>4, <2>1, SelectGood
<1>5. CASE m.fstate = "noone"
  <2>1. o \in sentinelFailoverSendSlaveOfNoOne(m) BY <1>5 DEF sentinelFailoverStateMachine
  <2> QED BY <1>5, <2>1, PromotionGood
<1>6. CASE m.fstate = "promotion"
  <2>1. o \in sentinelFailoverWaitPromotion(m) BY <1>6 DEF sentinelFailoverStateMachine
  <2> QED BY <1>6, <2>1, PromotionGood
<1>7. CASE m.fstate = "reconf"
  <2>1. o \in sentinelFailoverReconfNextSlave(m) BY <1>7 DEF sentinelFailoverStateMachine
  <2> QED BY <1>7, <2>1, ReconfGood
<1> QED BY <1>1, <1>2, <1>3, <1>4, <1>5, <1>6, <1>7 DEF FailoverStates

\* Enough votes are more than half.
LEMMA EnoughMajority ==
  ASSUME Overlapping, NEW s \in Sentinels, NEW m, Sound(s, m), NEW V \in SUBSET Sentinels,
         Enough(m, Cardinality(V))
  PROVE  V \in Majorities
<1>1. IsFiniteSet(V) /\ Cardinality(V) \in Nat /\ Cardinality(Sentinels) \in Nat /\ Quorum \in Nat
  BY SentinelAssumption, FS_Subset, FS_CardinalityType
<1>2. Cardinality(V) >= Majority(m) /\ Cardinality(V) >= Quorum BY DEF Enough
<1>3. CASE 2 * Quorum > Cardinality(Sentinels) BY <1>1, <1>2, <1>3 DEF Majorities
<1>4. CASE Calm
  <2>1. DOMAIN m.peers = Sentinels \ {s} BY <1>4 DEF Sound, Circle, Peers
  <2>2. Cardinality(Sentinels \ {s}) = Cardinality(Sentinels) - 1
    BY SentinelAssumption, FS_RemoveElement
  <2>3. Majority(m) = Cardinality(Sentinels) \div 2 + 1 BY <1>1, <2>1, <2>2 DEF Majority
  <2>4. 2 * Cardinality(V) > Cardinality(Sentinels) BY <1>1, <1>2, <2>3
  <2> QED BY <2>4 DEF Majorities
<1> QED BY <1>3, <1>4 DEF Overlapping

\* A leader made by the votes of an epoch, those that s has heard and the one it has,
\* is the only one.
LEMMA Elected ==
  ASSUME TypeOK, MemoryInv, MemoryInv', VotesInv, ElectedInv, VoteStep, Overlapping,
         NEW s \in Sentinels, NEW a \in RunIds, NEW e \in Nat, NEW f \in Nat,
         f = e => \E V \in Majorities : \A t \in V :
                    \/ Heeds(s, t)' /\ st'[s].peers[t].leader = a /\ st'[s].peers[t].lepoch = e
                    \/ t = s /\ st'[s].leader = a /\ st'[s].lepoch = e,
         elected' = elected \cup {<<a, e, f>>}
  PROVE  ElectedInv'
<1>1. VotesInv' BY VotesStep
<1>2. a # None BY SentinelAssumption DEF RunIds
<1>3. ASSUME NEW x \in elected, Lasting(x)'
      PROVE  \E W \in Majorities : \A t \in W : Backs(t, x[1], x[2])'
  BY <1>3, StillBacked
<1>4. ASSUME f = e, e \notin forgot'
      PROVE  /\ \E V \in Majorities : \A t \in V : Backs(t, a, e)'
             /\ \A x \in elected : Lasting(x)' /\ x[2] = e => x = <<a, e, f>>
  <2>1. PICK V \in Majorities : \A t \in V :
          \/ Heeds(s, t)' /\ st'[s].peers[t].leader = a /\ st'[s].peers[t].lepoch = e
          \/ t = s /\ st'[s].leader = a /\ st'[s].lepoch = e
    BY <1>4
  <2>2. ASSUME NEW t \in V PROVE Backs(t, a, e)'
    <3>1. t \in Sentinels BY DEF Majorities
    <3>2. CASE Heeds(s, t)' /\ st'[s].peers[t].leader = a /\ st'[s].peers[t].lepoch = e
      <4>1. Backs(t, st[s].peers[t].leader, st[s].peers[t].lepoch)' BY <1>1, <1>4, <3>1, <3>2 DEF VotesInv
      <4> QED BY <3>2, <4>1 DEF Backs
    <3>3. CASE t = s /\ st'[s].leader = a /\ st'[s].lepoch = e
      <4>1. Backs(s, st[s].leader, st[s].lepoch)' BY <1>1, <1>2, <1>4, <3>3 DEF VotesInv
      <4> QED BY <3>3, <4>1 DEF Backs
    <3> QED BY <2>1, <3>2, <3>3
  <2>3. ASSUME NEW x \in elected, Lasting(x)', x[2] = e PROVE x = <<a, e, f>>
    <3>1. PICK W \in Majorities : \A t \in W : Backs(t, x[1], x[2])' BY <1>3, <2>3
    <3>2. V \cap W # {}
      <4>1. V \subseteq Sentinels /\ W \subseteq Sentinels /\ IsFiniteSet(Sentinels)
            /\ 2 * Cardinality(V) > Cardinality(Sentinels) /\ 2 * Cardinality(W) > Cardinality(Sentinels)
        BY SentinelAssumption DEF Majorities
      <4>2. Cardinality(V) \in Nat /\ Cardinality(W) \in Nat /\ Cardinality(Sentinels) \in Nat
        BY <4>1, FS_Subset, FS_CardinalityType
      <4>3. Cardinality(V) + Cardinality(W) > Cardinality(Sentinels) BY <4>1, <4>2
      <4> QED BY <4>1, <4>3, FS_MajoritiesIntersect
    <3>3. PICK t : t \in V /\ t \in W BY <3>2
    <3>4. Backs(t, x[1], e)' /\ t \in Sentinels BY <2>3, <3>1, <3>3 DEF Majorities
    <3>5. x[1] = a BY <1>2, <2>1, <3>3, <3>4 DEF Backs
    <3>6. x[3] = e /\ x \in RunIds \X Nat \X Nat BY <2>3 DEF Lasting, OfOneEpoch, TypeOK
    <3> QED BY <1>4, <2>3, <3>5, <3>6
  <2> QED BY <2>2, <2>3
<1>5. ASSUME NEW x \in elected', Lasting(x)'
      PROVE  \E W \in Majorities : \A t \in W : Backs(t, x[1], x[2])'
  <2>1. CASE x \in elected BY <1>3, <1>5, <2>1
  <2>2. CASE x = <<a, e, f>>
    <3>1. f = e /\ e \notin forgot' /\ x[1] = a /\ x[2] = e BY <1>5, <2>2 DEF Lasting, OfOneEpoch
    <3> QED BY <1>4, <3>1
  <2> QED BY <2>1, <2>2
<1>6. OneLeaderPerEpoch'
  <2>1. \A x, y \in elected : x[2] = y[2] /\ Lasting(x)' /\ Lasting(y)' => x = y
    BY DEF ElectedInv, OneLeaderPerEpoch, Lasting, OfOneEpoch, VoteStep
  <2>2. ASSUME NEW x \in elected', NEW y \in elected', x[2] = y[2], Lasting(x)', Lasting(y)' PROVE x = y
    <3>1. \A z \in elected' : z = <<a, e, f>> /\ Lasting(z)' => f = e /\ e \notin forgot' /\ z[2] = e
      BY DEF Lasting, OfOneEpoch
    <3> QED BY <1>4, <2>1, <2>2, <3>1
  <2> QED BY <2>2 DEF OneLeaderPerEpoch, Lasting, OfOneEpoch
<1> QED BY <1>5, <1>6 DEF ElectedInv

\* The memory the state machine starts from: the master is down or not, and a
\* failover is started or not.
LEMMA Started ==
  ASSUME NEW s \in Sentinels, Sound(s, st[s]), NEW sd \in {TRUE, st[s].sdown},
         NEW m \in sentinelStartFailoverIfNeeded([st[s] EXCEPT !.sdown = sd, !.tilt = FALSE])
  PROVE  /\ Sound(s, m) /\ Follows(st[s], m) /\ Unwritten(st[s], m)
<1>1. PICK k : k = st[s] OBVIOUS
<1>2. PICK n : n = [k EXCEPT !.sdown = sd, !.tilt = FALSE] OBVIOUS
<1>3. k \in Memory /\ InPlace(k) BY <1>1 DEF Sound
<1>4. k.sdown \in BOOLEAN BY <1>3 DEF Memory
<1>5. sd \in BOOLEAN BY <1>1, <1>4
<1>6. /\ n \in Memory /\ n.peers = k.peers /\ n.leader = k.leader /\ n.lepoch = k.lepoch
      /\ n.addr = k.addr /\ n.slaves = k.slaves /\ n.fstate = k.fstate /\ n.promoted = k.promoted
      /\ n.epoch = k.epoch
  BY <1>2, <1>3, <1>5 DEF Memory
<1>7. InPlace(n) BY <1>3, <1>6 DEF InPlace
<1>8. m = n \/ (m = sentinelStartFailover(n) /\ n.fstate = "none")
  BY <1>1, <1>2 DEF sentinelStartFailoverIfNeeded, InProgress
<1>9. CASE m = n BY <1>1, <1>6, <1>7, <1>9, Kept
<1>10. CASE m = sentinelStartFailover(n) /\ n.fstate = "none"
  <2>1. n.epoch + 1 \in Nat BY <1>6 DEF Memory
  <2>2. /\ m \in Memory /\ m.peers = n.peers /\ m.leader = n.leader /\ m.lepoch = n.lepoch
        /\ m.addr = n.addr /\ m.slaves = n.slaves /\ m.fstate = "wait" /\ m.promoted = n.promoted
    BY <1>6, <1>10, <2>1 DEF sentinelStartFailover, Memory, FailoverStates
  <2>3. InPlace(m) BY <1>7, <1>10, <2>2 DEF InPlace
  <2> QED BY <1>1, <1>6, <1>10, <2>2, <2>3, Kept
<1> QED BY <1>8, <1>9, <1>10

LEMMA AskedType ==
  ASSUME TypeOK, NEW s \in Sentinels, NEW m \in Memory, sentinelAskMasterStateToOtherSentinels(s, m)
  PROVE  asked' \in [Sentinels -> Requests \cup {None}]
<1>1. PICK q : q = [addr |-> m.addr, epoch |-> m.epoch, runid |-> Runid(s, m.inc)] OBVIOUS
<1>2. q \in Requests BY <1>1 DEF Memory, Requests, Runid, RunIds
<1>3. asked \in [Sentinels -> Requests \cup {None}] BY DEF TypeOK
<1>4. asked' = [asked EXCEPT ![s] = q] \/ asked' = asked
  BY <1>1 DEF sentinelAskMasterStateToOtherSentinels
<1> QED BY <1>2, <1>3, <1>4

LEMMA TimerStep ==
  ASSUME SentinelInv, NEW s \in Sentinels, sentinelHandleRedisInstance(s)
  PROVE  SentinelInv' /\ VoteStep
<1>1. TypeOK /\ MemoryInv /\ VotesInv /\ ElectedInv BY DEF SentinelInv
<1>2. Sound(s, st[s]) BY <1>1 DEF MemoryInv
<1>3. PICK sd \in {TRUE, st[s].sdown} :
        \E m \in sentinelStartFailoverIfNeeded([st[s] EXCEPT !.sdown = sd, !.tilt = FALSE]) :
        \E o \in sentinelFailoverStateMachine(m, Runid(s, m.inc)) :
          /\ Leave(s, o.m, o.flush)
          /\ sentinelAskMasterStateToOtherSentinels(s, o.m)
          /\ sentinelSendSlaveOf(o.to, o.host)
          /\ elected' = IF o.leads THEN elected \cup {<<Runid(s, m.inc), m.fepoch, m.epoch>>} ELSE elected
          /\ UNCHANGED forgot
  BY DEF sentinelHandleRedisInstance
<1>4. PICK m \in sentinelStartFailoverIfNeeded([st[s] EXCEPT !.sdown = sd, !.tilt = FALSE]) :
        \E o \in sentinelFailoverStateMachine(m, Runid(s, m.inc)) :
          /\ Leave(s, o.m, o.flush)
          /\ sentinelAskMasterStateToOtherSentinels(s, o.m)
          /\ sentinelSendSlaveOf(o.to, o.host)
          /\ elected' = IF o.leads THEN elected \cup {<<Runid(s, m.inc), m.fepoch, m.epoch>>} ELSE elected
          /\ UNCHANGED forgot
  BY <1>3
<1>5. PICK o \in sentinelFailoverStateMachine(m, Runid(s, m.inc)) :
          /\ Leave(s, o.m, o.flush)
          /\ sentinelAskMasterStateToOtherSentinels(s, o.m)
          /\ sentinelSendSlaveOf(o.to, o.host)
          /\ elected' = IF o.leads THEN elected \cup {<<Runid(s, m.inc), m.fepoch, m.epoch>>} ELSE elected
          /\ UNCHANGED forgot
  BY <1>4
<1>6. Sound(s, m) /\ Follows(st[s], m) /\ Unwritten(st[s], m) BY <1>2, Started
<1>7. Good(s, m, o) BY <1>6, MachineGood
<1>8. PICK n : n = o.m OBVIOUS
<1>9. /\ Sound(s, n) /\ Follows(m, n)
      /\ o.flush = TRUE \/ (o.flush = FALSE /\ Unwritten(m, n))
      /\ o.host \in Instances \cup {None}
      /\ o.leads => Carried(s, m, n, Runid(s, m.inc))
  BY <1>7, <1>8 DEF Good
<1>10. st[s] \in Memory /\ m \in Memory /\ n \in Memory BY <1>2, <1>6, <1>9 DEF Sound
<1>11. Follows(st[s], n)
  <2>1. PICK k : k = st[s] OBVIOUS
  <2> QED BY <1>6, <1>9, <1>10, <2>1, FollowsTransitive
<1>12. Unwritten(m, n) => Unwritten(st[s], n) BY <1>6 DEF Unwritten
<1>13. PICK flush : flush = o.flush /\ Leave(s, n, flush) BY <1>5, <1>8
<1>14. flush \/ Unwritten(st[s], n) BY <1>9, <1>12, <1>13
<1>15. redis' \in Partial(Instances, Instances \cup {None})
  <2>1. sentinelSendSlaveOf(o.to, o.host) BY <1>5
  <2>2. PICK to, host : to = o.to /\ host = o.host OBVIOUS
  <2> QED BY <1>1, <1>9, <2>1, <2>2, SlaveOfType
<1>16. asked' \in [Sentinels -> Requests \cup {None}] BY <1>1, <1>5, <1>8, <1>10, AskedType
<1>17. forgot' = forgot BY <1>5
<1>18. CASE elected' = elected
  BY <1>9, <1>11, <1>13, <1>14, <1>15, <1>16, <1>17, <1>18, HandledFlushing
<1>19. CASE elected' # elected
  <2>1. PICK a, e, f : a = Runid(s, m.inc) /\ e = m.fepoch /\ f = m.epoch OBVIOUS
  <2>2. o.leads /\ elected' = elected \cup {<<a, e, f>>} BY <1>5, <1>19, <2>1
  <2>3. a \in RunIds /\ e \in Nat /\ f \in Nat BY <1>10, <2>1 DEF Memory, RunIds, Runid
  <2>4. st' = [st EXCEPT ![s] = n] /\ sentinelFlushConfig(s, n, flush) BY <1>13 DEF Leave
  <2>5. Wrote(s, n) /\ limit' \in Limits /\ (Calm => limit'.faults = 0) BY <1>1, <1>14, <2>4, Flushed
  <2>6. /\ st' \in [Sentinels -> Memory] /\ disk' \in [Sentinels -> Saved] /\ unsaved' \subseteq Sentinels
        /\ MemoryInv' /\ VoteStep
    <3>1. Advances(st[s], n) /\ Echoes(st[s], n) BY <1>11 DEF Follows
    <3> QED BY <1>1, <1>9, <1>17, <2>4, <2>5, <3>1, LocalStep
  <2>7. TypeOK' BY <1>1, <1>15, <1>16, <1>17, <2>2, <2>3, <2>5, <2>6 DEF TypeOK
  <2>8. VotesInv' BY <1>1, <2>6, VotesStep
  <2>9. ASSUME Overlapping PROVE ElectedInv'
    <3>1. PICK V \in SUBSET Sentinels :
            /\ Enough(m, Cardinality(V))
            /\ \A t \in V :
                 \/ t \in DOMAIN m.peers /\ m.peers[t].leader = a /\ m.peers[t].lepoch = m.epoch
                 \/ t = s /\ n.leader = a /\ n.lepoch = m.fepoch
      BY <1>9, <2>1, <2>2 DEF Carried
    <3>2. V \in Majorities BY <1>6, <2>9, <3>1, EnoughMajority
    <3>3. n.peers = m.peers BY <1>9, <2>2 DEF Carried
    <3>4. st'[s] = n BY <1>1, <2>4 DEF TypeOK
    <3>5. a # None BY <2>3, SentinelAssumption DEF RunIds
    <3>6. ASSUME f = e
          PROVE  \A t \in V : \/ Heeds(s, t)' /\ st'[s].peers[t].leader = a /\ st'[s].peers[t].lepoch = e
                              \/ t = s /\ st'[s].leader = a /\ st'[s].lepoch = e
      BY <2>1, <3>1, <3>3, <3>4, <3>5, <3>6 DEF Heeds
    <3>7. f = e => \E W \in Majorities : \A t \in W :
            \/ Heeds(s, t)' /\ st'[s].peers[t].leader = a /\ st'[s].peers[t].lepoch = e
            \/ t = s /\ st'[s].leader = a /\ st'[s].lepoch = e
      BY <3>2, <3>6
    <3> QED BY <1>1, <2>2, <2>3, <2>6, <2>9, <3>7, Elected
  <2>10. ElectedInv' BY <2>9 DEF ElectedInv
  <2> QED BY <2>6, <2>7, <2>8, <2>10 DEF SentinelInv
<1> QED BY <1>18, <1>19


-----------------------------------------------------------------------------
(* Theorems *)

LEMMA InitInv == Init => SentinelInv
<1> SUFFICES ASSUME Init PROVE SentinelInv OBVIOUS
<1>1. PICK c \in Scenarios :
        /\ redis = [r \in c.instances |-> IF r = First THEN None ELSE First]
        /\ disk = [s \in Sentinels |-> FirstFile(s, c.instances)]
        /\ st = [s \in Sentinels |-> Loaded(FirstFile(s, c.instances), 0)]
        /\ asked = [s \in Sentinels |-> None]
        /\ \E active \in kSubset(c.actors, Active) :
             limit = [active |-> active, epochs |-> c.epochs, faults |-> c.faults]
        /\ elected = {} /\ unsaved = {} /\ forgot = {}
  BY DEF Init
<1>2. PICK I : I = c.instances OBVIOUS
<1>3. I \in SUBSET Instances /\ First \in I /\ c.epochs \in Nat /\ c.faults \in Nat
  BY <1>2, SentinelAssumption DEF Instances
<1>4. ASSUME NEW s \in Sentinels
      PROVE  /\ FirstFile(s, I) \in Saved /\ DOMAIN FirstFile(s, I).peers = Peers(s)
             /\ FirstFile(s, I).addr = First /\ FirstFile(s, I).slaves = I \ {First}
             /\ FirstFile(s, I).lepoch = 0
  <2>1. PICK peers : peers = [p \in Peers(s) |-> Runid(p, 0)] OBVIOUS
  <2>2. peers \in [Peers(s) -> RunIds] /\ Peers(s) \in SUBSET Sentinels
    BY <2>1 DEF Peers, Runid, RunIds
  <2>3. peers \in Partial(Sentinels, RunIds) BY <2>2, PartialIntro
  <2>4. FirstFile(s, I) = [epoch |-> 0, addr |-> First, cfg |-> 0, lepoch |-> 0,
                           slaves |-> I \ {First}, peers |-> peers]
    BY <2>1 DEF FirstFile
  <2> QED BY <1>3, <2>2, <2>3, <2>4 DEF Saved
<1>5. ASSUME NEW s \in Sentinels
      PROVE  /\ Sound(s, st[s]) /\ Readable(s, disk[s]) /\ Filed(disk[s], st[s]) /\ st[s].leader = None
             /\ \A p \in DOMAIN st[s].peers : st[s].peers[p].leader = None
  <2>1. PICK d : d = FirstFile(s, I) OBVIOUS
  <2>2. d \in Saved /\ Circle(s, DOMAIN d.peers) BY <1>4, <2>1 DEF Circle
  <2>3. disk[s] = d /\ st[s] = Loaded(d, 0) BY <1>1, <1>2, <2>1
  <2>4. /\ Sound(s, st[s]) /\ st[s].leader = None /\ st[s].lepoch = d.lepoch
        /\ st[s].addr = d.addr /\ DOMAIN st[s].slaves = d.slaves
        /\ \A p \in DOMAIN st[s].peers : st[s].peers[p].leader = None
    BY <2>2, <2>3, LoadedSound
  <2>5. Left(d, st[s]) = {} BY <2>4 DEF Left, Known
  <2>6. Filed(d, st[s]) BY <2>4, <2>5 DEF Filed, Names
  <2> QED BY <2>2, <2>3, <2>4, <2>6 DEF Readable
<1>6. MemoryInv BY <1>5 DEF MemoryInv
<1>7. TypeOK
  <2>1. redis \in [I -> Instances \cup {None}] BY <1>1, <1>2, <1>3
  <2>2. redis \in Partial(Instances, Instances \cup {None}) BY <1>3, <2>1, PartialIntro
  <2>3. st \in [Sentinels -> Memory]
    <3>1. \A s \in Sentinels : st[s] \in Memory BY <1>5 DEF Sound
    <3> QED BY <1>1, <3>1
  <2>4. disk \in [Sentinels -> Saved]
    <3>1. \A s \in Sentinels : disk[s] \in Saved BY <1>5 DEF Readable
    <3> QED BY <1>1, <3>1
  <2>5. limit \in Limits /\ (Calm => limit.faults = 0)
    <3>1. PICK active \in kSubset(c.actors, Active) :
            limit = [active |-> active, epochs |-> c.epochs, faults |-> c.faults]
      BY <1>1
    <3>2. active \in SUBSET Sentinels BY SentinelAssumption DEF kSubset
    <3> QED BY <1>3, <3>1, <3>2 DEF Limits, Calm
  <2> QED BY <1>1, <2>2, <2>3, <2>4, <2>5 DEF TypeOK
<1>8. VotesInv BY <1>5 DEF VotesInv, Heeds
<1>9. ElectedInv BY <1>1 DEF ElectedInv, OneLeaderPerEpoch
<1> QED BY <1>6, <1>7, <1>8, <1>9 DEF SentinelInv

LEMMA NextInv == SentinelInv /\ [Next]_vars => SentinelInv' /\ (VoteStep \/ UNCHANGED vars)
<1> SUFFICES ASSUME SentinelInv, [Next]_vars PROVE SentinelInv' /\ (VoteStep \/ UNCHANGED vars) OBVIOUS
<1>1. CASE UNCHANGED vars
  BY <1>1 DEF vars, SentinelInv, TypeOK, MemoryInv, VotesInv, Backs, Heeds, ElectedInv, Lasting, OneLeaderPerEpoch
<1>2. limit.active \subseteq Sentinels BY DEF SentinelInv, TypeOK, Limits
<1>3. ASSUME NEW s \in limit.active,
             \/ sentinelHandleRedisInstance(s) \/ InfoOfMaster(s) \/ sentinelPingReplyCallback(s)
             \/ ForceFailover(s)
      PROVE  SentinelInv' /\ VoteStep
  BY <1>2, <1>3, TimerStep, InfoOfMasterStep, FlagsStep
<1>4. ASSUME NEW s \in limit.active, NEW r \in DOMAIN st[s].slaves,
             InfoOfPromoted(s, r) \/ ConvertToSlave(s, r) \/ InfoOfSlave(s, r)
      PROVE  SentinelInv' /\ VoteStep
  BY <1>2, <1>4, InfoOfPromotedStep, ConvertToSlaveStep, InfoOfSlaveStep
<1>5. ASSUME NEW s \in limit.active, NEW t \in Peers(s), AskState(s, t) \/ AskVote(s, t)
      PROVE  SentinelInv' /\ VoteStep
  BY <1>2, <1>5, HearsayStep, AskVoteStep DEF Peers
<1>6. ASSUME NEW s \in Sentinels, Reset(s) \/ sentinelCheckTiltCondition(s) \/ Restart(s)
      PROVE  SentinelInv' /\ VoteStep
  BY <1>6, ResetStep, FlagsStep, RestartStep
<1>7. ASSUME NEW s \in Sentinels, NEW t \in Peers(s),
             sentinelKillLink(s, t) \/ sentinelProcessHelloMessage(s, t)
      PROVE  SentinelInv' /\ VoteStep
  BY <1>7, HearsayStep, HelloStep DEF Peers
<1> QED BY <1>1, <1>3, <1>4, <1>5, <1>6, <1>7 DEF Next

\* The invariant holds at the start, every handler keeps it.
LEMMA SentinelInductive == Spec => []SentinelInv
<1> QED BY InitInv, NextInv, PTL DEF Spec

\* Types: a sentinel's memory and file, its requests, and what the servers follow
\* (sentinelRedisInstance, rewriteConfigSentinelOption).
THEOREM SentinelTyped == Spec => []TypeOK
<1>1. SentinelInv => TypeOK BY DEF SentinelInv
<1> QED BY <1>1, SentinelInductive, PTL

\* Two sentinels that the votes of an epoch made leaders are the same one
\* (sentinelVoteLeader, sentinelGetLeader), when the quorum is more than half of the
\* sentinels, or no sentinel is reset, restarted, disconnected or in tilt mode and
\* no write fails.  A leader made by replies of one epoch and its own vote of another,
\* and an epoch with a vote that was answered, not saved and forgotten, are outside
\* (OneLeaderPerEpoch).
THEOREM OneLeader == Overlapping => (Spec => []OneLeaderPerEpoch)
<1>1. Overlapping /\ SentinelInv => OneLeaderPerEpoch BY DEF SentinelInv, ElectedInv
<1>2. ASSUME Overlapping PROVE Spec => []OneLeaderPerEpoch
  <2>1. SentinelInv => OneLeaderPerEpoch BY <1>1, <1>2
  <2> QED BY <2>1, SentinelInductive, PTL
<1> QED BY <1>2

\* A sentinel never goes back on a vote: its epoch only grows, and within one epoch
\* the vote can be lost but not changed; only a restart from a file that could not be
\* written takes the epoch back, and those epochs are in forgot.  A reply kept
\* elsewhere stays as it was or tells the vote of now (sentinelVoteLeader,
\* sentinelFlushConfig, sentinelReceiveIsMasterDownReply).
THEOREM VotesFinal == Spec => [][VoteStep]_vars
<1>1. SentinelInv /\ [Next]_vars => [VoteStep]_vars BY NextInv
<1> QED BY <1>1, SentinelInductive, PTL DEF Spec

\* A failover past the selection has its promoted slave among the slaves, and only
\* then, through every message, reset and restart (sentinelFailoverSelectSlave,
\* sentinelResetMaster, sentinelProcessHelloMessage).
THEOREM PromotedAlwaysInPlace == Spec => []PromotedInPlace
<1>1. SentinelInv => PromotedInPlace BY DEF SentinelInv, MemoryInv, Sound, InPlace, PromotedInPlace
<1> QED BY <1>1, SentinelInductive, PTL

\* A file that could be written names every instance the sentinel watches, but for the
\* old master from the promotion to the switch, and as long as a reset in between left
\* it without slaves (sentinelFlushConfig, sentinelResetMasterAndChangeAddress).
THEOREM FilesNameInstances == Spec => []FileNamesInstances
<1>1. \A s \in Sentinels : Missing(s) = Left(disk[s], st[s]) BY DEF Missing, Left
<1>2. SentinelInv => FileNamesInstances
  BY <1>1 DEF SentinelInv, MemoryInv, Filed, Names, FileNamesInstances
<1> QED BY <1>2, SentinelInductive, PTL
=============================================================================
