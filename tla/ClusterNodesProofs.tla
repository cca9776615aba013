------------------------- MODULE ClusterNodesProofs -------------------------
(* Theorems about what the nodes of a Redis Cluster do besides elections:      *)
(* failure detection; handshakes, gossip and CLUSTER FORGET; the move of a     *)
(* slot.                                                                       *)
EXTENDS ClusterFailure, ClusterMembership, ClusterSlots, FiniteSetTheorems, TLAPS

-----------------------------------------------------------------------------
(* Theorems about ClusterFailure, for any number of nodes and masters.       *)

\* The nodes' tables are well typed, and nobody reports to itself.
FailureTypeOK ==
  /\ flag \in [Others -> {"ok", "pfail", "fail"}]
  /\ reports \in [Others -> SUBSET Others]
  /\ \A n \in Others : n \notin reports[n]
  /\ lost \subseteq Master
  /\ fails \subseteq Others
  /\ state \in [Node -> {"ok", "fail"}]
  /\ minority \in BOOLEAN /\ cut \in BOOLEAN
  /\ accusers \subseteq Master

\* The constants are finite sets of nodes, and a majority is a number.
LEMMA FailureConstants ==
  /\ Others \subseteq Node /\ Suspect \notin Others /\ Suspect \in Node
  /\ IsFiniteSet(Master) /\ needed_quorum \in Nat
<1>1. IsFiniteSet(Master) BY FailureAssumption, FS_Subset
<1>2. Cardinality(Master) \in Nat BY <1>1, FS_CardinalityType
<1>3. needed_quorum \in Nat BY <1>2 DEF needed_quorum
<1> QED BY <1>1, <1>3, FailureAssumption DEF Others

\* A set of masters has a number of members, not larger than that of a set of
\* masters around it.
LEMMA MastersCount ==
  ASSUME NEW S \in SUBSET Master, NEW T \in SUBSET S
  PROVE  /\ IsFiniteSet(S) /\ IsFiniteSet(T)
         /\ Cardinality(S) \in Nat /\ Cardinality(T) \in Nat
         /\ Cardinality(T) <= Cardinality(S)
<1>1. IsFiniteSet(S) BY FailureConstants, FS_Subset
<1>2. IsFiniteSet(T) /\ Cardinality(T) <= Cardinality(S) BY <1>1, FS_Subset
<1> QED BY <1>1, <1>2, FS_CardinalityType

\* Every step keeps the tables well typed.
LEMMA FailureTypeStep ==
  ASSUME FailureTypeOK, [FailureNext]_failureVars
  PROVE  FailureTypeOK'
<1> USE FailureConstants DEF FailureTypeOK
<1>0. ASSUME HistoryFollows PROVE accusers' \subseteq Master
  BY <1>0 DEF HistoryFollows
<1>1. ASSUME NEW n \in Others, NEW m \in Others \ {n}, HearGossip(n, m)
      PROVE  FailureTypeOK'
  <2>1. /\ reports' \in [Others -> SUBSET Others]
        /\ \A x \in Others : x \notin reports'[x]
    BY <1>1 DEF HearGossip, ReportsWith
  <2>2. /\ flag' \in [Others -> {"ok", "pfail", "fail"}]
        /\ state' \in [Node -> {"ok", "fail"}]
        /\ fails' \subseteq Others
    BY <1>1 DEF HearGossip, markNodeAsFailingIfNeeded
  <2> QED BY <1>0, <1>1, <2>1, <2>2 DEF HearGossip
<1>2. ASSUME NEW n \in Others, SuspectAnswers(n) PROVE FailureTypeOK'
  BY <1>0, <1>2 DEF SuspectAnswers
<1>3. ASSUME NEW n \in Others, ReceiveFail(n) PROVE FailureTypeOK'
  BY <1>0, <1>3 DEF ReceiveFail
<1>4. ASSUME NEW n \in Others, PingTimesOut(n) PROVE FailureTypeOK'
  BY <1>4 DEF PingTimesOut
<1>5. ASSUME NEW n \in Others, ClearFailure(n) PROVE FailureTypeOK'
  BY <1>0, <1>5 DEF ClearFailure
<1>6. ASSUME NEW m \in Master \ {Suspect}, AnswersSuspect(m) \/ SuspectTimesOut(m)
      PROVE  FailureTypeOK'
  <2>1. lost' \subseteq Master BY <1>6 DEF AnswersSuspect, SuspectTimesOut
  <2>2. minority' \in BOOLEAN /\ state' \in [Node -> {"ok", "fail"}]
    BY <1>6 DEF AnswersSuspect, SuspectTimesOut, UpdateSuspectState, InMinority
  <2> QED BY <1>6, <2>1, <2>2 DEF AnswersSuspect, SuspectTimesOut
<1>7. ASSUME NEW n \in Others, NEW s \in Others, ReportExpires(n, s) PROVE FailureTypeOK'
  BY <1>0, <1>7 DEF ReportExpires
<1>8. CASE Rejoin BY <1>8 DEF Rejoin
<1>9. CASE Cut BY <1>9 DEF Cut
<1>10. CASE UNCHANGED failureVars BY <1>10 DEF failureVars
<1> QED BY <1>1, <1>2, <1>3, <1>4, <1>5, <1>6, <1>7, <1>8, <1>9, <1>10 DEF FailureNext

-----------------------------------------------------------------------------
\* A majority of the masters found the suspect unreachable themselves.
Agreed == Cardinality(accusers) >= needed_quorum

\* Before that, whoever reports or flags the suspect found it so itself, nobody
\* flags it FAIL and no such message is under way.
Sourced ==
  /\ \A n \in Others : /\ reports[n] \subseteq accusers
                       /\ flag[n] # "fail"
                       /\ flag[n] # "ok" /\ n \in Master => n \in accusers
  /\ fails = {}

\* The inductive invariant.
FailureInv == FailureTypeOK /\ (Agreed \/ Sourced)

\* An episode that ends leaves nothing behind.
LEMMA EpisodeEnds ==
  ASSUME HistoryFollows, accusers' # accusers
  PROVE  Sourced'
BY DEF HistoryFollows, Sourced

\* A count that is enough for FAIL is one of masters that accuse the suspect:
\* the reports are theirs, and the node itself, if it counts, is not among them.
LEMMA EnoughAccuse ==
  ASSUME FailureTypeOK, NEW n \in Others, NEW R \in SUBSET accusers, n \notin R,
         n \in Master => n \in accusers, Enough(n, R)
  PROVE  Agreed
<1>1. accusers \subseteq Master BY DEF FailureTypeOK
<1>2. /\ IsFiniteSet(R) /\ Cardinality(R) \in Nat
      /\ Cardinality(R) <= Cardinality(accusers) /\ Cardinality(accusers) \in Nat
  BY <1>1, MastersCount
<1>3. CASE n \in Master
  <2>1. R \cup {n} \subseteq accusers BY <1>3
  <2>2. Cardinality(R \cup {n}) <= Cardinality(accusers) BY <1>1, <2>1, MastersCount
  <2>3. Cardinality(R \cup {n}) = Cardinality(R) + 1 BY <1>2, FS_AddElement
  <2>4. Cardinality(R) + 1 >= needed_quorum BY <1>3 DEF Enough
  <2> QED BY <1>2, <2>2, <2>3, <2>4, FailureConstants DEF Agreed
<1>4. CASE n \notin Master
  <2>1. Cardinality(R) >= needed_quorum BY <1>2, <1>4 DEF Enough
  <2> QED BY <1>2, <2>1, FailureConstants DEF Agreed
<1> QED BY <1>3, <1>4

\* Old reports, PFAIL flags and FAIL messages never outlive the accusations they
\* come from.
LEMMA SourcedStep ==
  ASSUME FailureTypeOK, Agreed \/ Sourced, [FailureNext]_failureVars
  PROVE  (Agreed \/ Sourced)'
<1> USE DEF FailureTypeOK
<1>0. ASSUME accusers' = accusers, Agreed PROVE Agreed'
  BY <1>0 DEF Agreed
<1>1. ASSUME UNCHANGED <<flag, reports, fails, accusers>> PROVE (Agreed \/ Sourced)'
  BY <1>1 DEF Agreed, Sourced
<1>2. ASSUME NEW n \in Others, NEW m \in Others \ {n}, HearGossip(n, m)
      PROVE  (Agreed \/ Sourced)'
  <2>1. CASE accusers' # accusers BY <1>2, <2>1, EpisodeEnds DEF HearGossip
  <2>2. CASE accusers' = accusers /\ Agreed BY <1>0, <2>2
  <2>3. CASE accusers' = accusers /\ Sourced /\ ~Agreed
    <3>1. ReportsWith(n, m) \subseteq accusers /\ n \notin ReportsWith(n, m)
      BY <2>3 DEF ReportsWith, Failing, Sourced
    <3>2. ~(flag[n] = "pfail" /\ Enough(n, ReportsWith(n, m)))
      BY <2>3, <3>1, EnoughAccuse DEF Sourced
    <3>3. UNCHANGED <<flag, state, fails>>
      BY <1>2, <3>2 DEF HearGossip, markNodeAsFailingIfNeeded
    <3>4. \A x \in Others : reports'[x] \subseteq accusers
      BY <1>2, <2>3, <3>1 DEF HearGossip, Sourced
    <3> QED BY <2>3, <3>3, <3>4 DEF Sourced
  <2> QED BY <2>1, <2>2, <2>3
<1>3. ASSUME NEW n \in Others, SuspectAnswers(n) \/ ClearFailure(n) PROVE (Agreed \/ Sourced)'
  <2>1. CASE accusers' # accusers
    BY <1>3, <2>1, EpisodeEnds DEF SuspectAnswers, ClearFailure
  <2>2. CASE accusers' = accusers /\ Agreed BY <1>0, <2>2
  <2>3. CASE accusers' = accusers /\ Sourced
    BY <1>3, <2>3 DEF SuspectAnswers, ClearFailure, Sourced
  <2> QED BY <2>1, <2>2, <2>3
<1>4. ASSUME NEW n \in Others, ReceiveFail(n) PROVE (Agreed \/ Sourced)'
  <2>1. Agreed BY <1>4 DEF ReceiveFail, Sourced
  <2> QED BY <1>0, <1>4, <2>1, EpisodeEnds DEF ReceiveFail
<1>5. ASSUME NEW n \in Others, PingTimesOut(n) PROVE (Agreed \/ Sourced)'
  <2>1. accusers \subseteq accusers' /\ accusers' \subseteq Master
    BY <1>5 DEF PingTimesOut
  <2>2. CASE Agreed
    BY <2>1, <2>2, MastersCount, FailureConstants DEF Agreed
  <2>3. CASE Sourced
    <3>1. ASSUME NEW x \in Others
          PROVE  /\ reports'[x] \subseteq accusers'
                 /\ flag'[x] # "fail"
                 /\ flag'[x] # "ok" /\ x \in Master => x \in accusers'
      BY <1>5, <2>3 DEF PingTimesOut, Sourced
    <3> QED BY <1>5, <2>3, <3>1 DEF PingTimesOut, Sourced
  <2> QED BY <2>2, <2>3
<1>6. ASSUME NEW m \in Master \ {Suspect}, AnswersSuspect(m) \/ SuspectTimesOut(m)
      PROVE  (Agreed \/ Sourced)'
  BY <1>1, <1>6 DEF AnswersSuspect, SuspectTimesOut
<1>7. ASSUME NEW n \in Others, NEW s \in Others, ReportExpires(n, s)
      PROVE  (Agreed \/ Sourced)'
  <2>1. CASE accusers' # accusers BY <1>7, <2>1, EpisodeEnds DEF ReportExpires
  <2>2. CASE accusers' = accusers /\ Agreed BY <1>0, <2>2
  <2>3. CASE accusers' = accusers /\ Sourced
    BY <1>7, <2>3 DEF ReportExpires, Sourced
  <2> QED BY <2>1, <2>2, <2>3
<1>8. CASE Rejoin BY <1>1, <1>8 DEF Rejoin
<1>9. CASE Cut BY <1>1, <1>9 DEF Cut
<1>10. CASE UNCHANGED failureVars BY <1>1, <1>10 DEF failureVars
<1> QED BY <1>2, <1>3, <1>4, <1>5, <1>6, <1>7, <1>8, <1>9, <1>10 DEF FailureNext

-----------------------------------------------------------------------------
\* In the beginning everybody trusts everybody.
LEMMA FailureInitInv == FailureInit => FailureInv
BY FailureConstants DEF FailureInit, FailureInv, FailureTypeOK, Sourced

\* The nodes' flags, reports and states keep their types.
THEOREM FailureTyped == FailureSpec => []FailureTypeOK
BY FailureInitInv, FailureTypeStep, PTL DEF FailureSpec, FailureInv

\* Whatever reports expire late and FAIL messages arrive late, and however often
\* the suspect comes and goes, a node is flagged FAIL only after a majority of
\* the masters found it unreachable themselves, since the last time nobody
\* suspected it (markNodeAsFailingIfNeeded).
THEOREM FailNeedsMajority == FailureSpec => []FailIsAgreed
<1>1. FailureInv /\ [FailureNext]_failureVars => FailureInv' BY FailureTypeStep, SourcedStep DEF FailureInv
<1>2. FailureInv => FailIsAgreed BY DEF FailureInv, Agreed, Sourced, FailIsAgreed
<1> QED BY FailureInitInv, <1>1, <1>2, PTL DEF FailureSpec


-----------------------------------------------------------------------------
(* Theorems about ClusterMembership: a node that was removed in time stays    *)
(* removed, for any number of nodes, addresses and packets.                   *)
(*                                                                            *)
(* The argument is about the time from the first CLUSTER FORGET on.  All      *)
(* tables are then exact but for the removed node, so that gossip has nothing *)
(* to say of the others; of the removed node it is stopped by the black list, *)
(* and when the list is emptied nobody is left to gossip about it.            *)

Place == Addr \cup {NoAddr}
Partial(D, R) == UNION {[S -> R] : S \in SUBSET D}
Entry == ({"name"} \X Peer) \cup ({"address"} \X Addr)
Packet == [type : {"meet", "ping", "pong"}, owner : Peer, entry : Entry, at : Addr,
           gossip : Partial(Peer, Addr), who : Peer]

MemberTypeOK ==
  /\ addr \in [Peer -> Addr]
  /\ known \in [Peer -> Partial(Peer, Place)]
  /\ shake \in [Peer -> Partial(Addr, {"meet", "ping", "sent"})]
  /\ black \in [Peer -> SUBSET Peer]
  /\ mail \subseteq Packet
  /\ forgot \subseteq Members
  /\ late \in BOOLEAN

\* Nobody shares an address, and nobody is in its own table.
TablesInv ==
  /\ \A m, n \in Peer : addr[m] = addr[n] => m = n
  /\ \A n \in Peer : n \notin DOMAIN known[n]

\* A packet belongs to an entry of its owner's table: by name, where the owner
\* looks for the node; by address, to the one handshake under way with it.  An
\* answer comes from where the packet went.
ByName(p) ==
  p.entry[1] = "name" => /\ p.type # "meet"
                         /\ p.entry[2] \in DOMAIN known[p.owner]
                         /\ known[p.owner][p.entry[2]] \in {p.at, NoAddr}
ByAddress(p) ==
  p.entry[1] = "address" => /\ p.entry[2] \in DOMAIN shake[p.owner]
                            /\ shake[p.owner][p.entry[2]] = "sent"
                            /\ \A q \in mail : q.owner = p.owner /\ q.entry = p.entry => q = p
Answered(p) == p.type = "pong" => addr[p.who] = p.at

MailInv == \A p \in mail : ByName(p) /\ ByAddress(p) /\ Answered(p)

\* From the first CLUSTER FORGET on, as long as the removal is quick.
Quick == forgot # {} /\ ~late

QuickInv ==
  Quick =>
    /\ \A n \in Peer : DOMAIN shake[n] = {}
    /\ \A n \in Peer : DOMAIN known[n] = {m \in Peer : m # n /\ ~(n \in forgot /\ m = Newcomer)}
    /\ \A n \in Peer : \A m \in DOMAIN known[n] : known[n][m] = addr[m]
    /\ \A n \in forgot : \/ Newcomer \in black[n]
                         \/ forgot = Members /\ \A p \in mail : Newcomer \notin DOMAIN p.gossip

MemberInv == MemberTypeOK /\ TablesInv /\ MailInv /\ QuickInv

-----------------------------------------------------------------------------
(* Functions on a part of a set *)

LEMMA PartialElim ==
  ASSUME NEW D, NEW R, NEW f \in Partial(D, R)
  PROVE  f \in [DOMAIN f -> R] /\ DOMAIN f \in SUBSET D
BY DEF Partial

LEMMA PartialIntro ==
  ASSUME NEW D, NEW R, NEW S \in SUBSET D, NEW f \in [S -> R]
  PROVE  f \in Partial(D, R)
BY DEF Partial

\* Two functions laid over each other.
LEMMA Overlay ==
  ASSUME NEW D, NEW R, NEW f \in Partial(D, R), NEW g \in Partial(D, R)
  PROVE  Over(f, g) \in Partial(D, R)
<1>1. f \in [DOMAIN f -> R] /\ DOMAIN f \in SUBSET D BY PartialElim
<1>2. g \in [DOMAIN g -> R] /\ DOMAIN g \in SUBSET D BY PartialElim
<1>3. Over(f, g) \in [DOMAIN f \cup DOMAIN g -> R] BY <1>1, <1>2 DEF Over
<1> QED BY <1>1, <1>2, <1>3, PartialIntro

\* A table without an entry.
LEMMA Dropped ==
  ASSUME NEW D, NEW R, NEW f \in Partial(D, R), NEW k
  PROVE  Without(f, k) \in Partial(D, R)
<1>1. f \in [DOMAIN f -> R] /\ DOMAIN f \in SUBSET D BY PartialElim
<1>2. Without(f, k) \in [DOMAIN f \ {k} -> R] BY <1>1 DEF Without, Restrict
<1> QED BY <1>1, <1>2, PartialIntro

-----------------------------------------------------------------------------
(* Packets and gossip *)

States == {"meet", "ping", "sent"}

LEMMA TableFacts ==
  ASSUME MemberTypeOK, NEW n \in Peer
  PROVE  /\ known[n] \in [DOMAIN known[n] -> Place] /\ DOMAIN known[n] \in SUBSET Peer
         /\ shake[n] \in [DOMAIN shake[n] -> States] /\ DOMAIN shake[n] \in SUBSET Addr
         /\ known[n] \in Partial(Peer, Place) /\ shake[n] \in Partial(Addr, States)
<1>1. known[n] \in Partial(Peer, Place) /\ shake[n] \in Partial(Addr, States)
  BY DEF MemberTypeOK, States
<1> QED BY <1>1, PartialElim

LEMMA PacketFacts ==
  ASSUME NEW p \in Packet
  PROVE  /\ p.type \in {"meet", "ping", "pong"} /\ p.owner \in Peer /\ p.at \in Addr /\ p.who \in Peer
         /\ p.entry \in Entry
         /\ \/ p.entry[1] = "name" /\ p.entry[2] \in Peer
            \/ p.entry[1] = "address" /\ p.entry[2] \in Addr
         /\ p.gossip \in [DOMAIN p.gossip -> Addr] /\ DOMAIN p.gossip \in SUBSET Peer
<1>1. p.gossip \in Partial(Peer, Addr) BY DEF Packet
<1>2. p.gossip \in [DOMAIN p.gossip -> Addr] /\ DOMAIN p.gossip \in SUBSET Peer
  BY <1>1, PartialElim
<1> QED BY <1>2 DEF Packet, Entry

\* Gossip is taken from the table of the sender.
LEMMA GossipFacts ==
  ASSUME MemberTypeOK, NEW n \in Peer, NEW g \in Gossips(n)
  PROVE  g \in Partial(Peer, Addr) /\ DOMAIN g \in SUBSET DOMAIN known[n]
<1> DEFINE fit == {m \in DOMAIN known[n] : known[n][m] # NoAddr}
<1>1. PICK P \in SUBSET fit : g = Restrict(known[n], P) BY DEF Gossips
<1>2. g = [m \in P |-> known[n][m]] BY <1>1 DEF Restrict
<1>3. P \in SUBSET Peer /\ \A m \in P : known[n][m] \in Addr BY TableFacts DEF Place
<1>4. g \in [P -> Addr] BY <1>2, <1>3
<1> QED BY <1>2, <1>3, <1>4, PartialIntro

LEMMA ShakingFacts ==
  ASSUME NEW f \in Partial(Addr, States), NEW A \in SUBSET Addr, NEW st \in States
  PROVE  LET h == Over(f, [a \in A |-> st])
         IN  /\ h \in Partial(Addr, States)
             /\ DOMAIN h = DOMAIN f \cup A
             /\ \A a \in DOMAIN f : h[a] = f[a]
<1>1. [a \in A |-> st] \in [A -> States] OBVIOUS
<1>2. [a \in A |-> st] \in Partial(Addr, States) BY <1>1, PartialIntro
<1>3. Over(f, [a \in A |-> st]) \in Partial(Addr, States) BY <1>2, Overlay
<1> QED BY <1>3 DEF Over

LEMMA IntroducedType ==
  ASSUME NEW p \in Packet, NEW n, NEW table, NEW trusted
  PROVE  Introduced(n, table, p.gossip, trusted) \in SUBSET Addr
BY PacketFacts DEF Introduced

\* In a quick removal gossip has nothing to say.
LEMMA NothingNew ==
  ASSUME MemberInv, Quick, NEW n \in Peer, NEW p \in mail, NEW trusted \in BOOLEAN,
         NEW table, DOMAIN table = DOMAIN known[n], \A m \in DOMAIN table : table[m] = addr[m]
  PROVE  Introduced(n, table, p.gossip, trusted) = {}
<1> DEFINE told == {k \in DOMAIN p.gossip \ {n} :
                      IF k \in DOMAIN table THEN table[k] # p.gossip[k] /\ table[k] \notin {addr[k], NoAddr}
                      ELSE trusted /\ k \notin black[n]}
<1>1. ASSUME NEW k \in told PROVE FALSE
  <2>1. p \in Packet BY DEF MemberInv, MemberTypeOK
  <2>2. k \in Peer /\ k # n BY <2>1, PacketFacts
  <2>3. k \notin DOMAIN table /\ k \notin black[n] OBVIOUS
  <2>4. n \in forgot /\ k = Newcomer BY <2>2, <2>3 DEF MemberInv, QuickInv
  <2>5. Newcomer \notin DOMAIN p.gossip BY <2>3, <2>4 DEF MemberInv, QuickInv
  <2> QED BY <2>4, <2>5
<1>2. told = {} BY <1>1
<1> QED BY <1>2 DEF Introduced

-----------------------------------------------------------------------------
(* The steps *)

LEMMA MeetStep ==
  ASSUME MemberInv, NEW n \in Peer, Meet(n)
  PROVE  MemberInv'
<1> DEFINE h == Shaking(shake[n], {addr[Newcomer]})
<1>1. MemberTypeOK /\ TablesInv /\ MailInv BY DEF MemberInv
<1>2. shake[n] \in Partial(Addr, States) /\ {addr[Newcomer]} \in SUBSET Addr
  BY <1>1, TableFacts, MembershipAssumption DEF MemberTypeOK
<1>3. /\ h \in Partial(Addr, States)
      /\ DOMAIN h = DOMAIN shake[n] \cup {addr[Newcomer]}
      /\ \A a \in DOMAIN shake[n] : h[a] = shake[n][a]
  BY <1>2, ShakingFacts DEF Shaking, States
<1>4. shake' = [shake EXCEPT ![n] = h] BY DEF Meet
<1> HIDE DEF h
<1>5. MemberTypeOK' BY <1>1, <1>3, <1>4 DEF Meet, MemberTypeOK, States
<1>6. TablesInv' BY <1>1 DEF Meet, TablesInv
<1>7. MailInv'
  <2>1. shake \in [Peer -> Partial(Addr, States)] BY <1>1 DEF MemberTypeOK, States
  <2>2. \A k \in Peer : DOMAIN shake[k] \subseteq DOMAIN shake'[k]
                        /\ \A a \in DOMAIN shake[k] : shake'[k][a] = shake[k][a]
    BY <1>3, <1>4, <2>1
  <2>3. \A p \in mail : p.owner \in Peer BY <1>1, PacketFacts DEF MemberTypeOK
  <2> SUFFICES ASSUME NEW p \in mail PROVE ByName(p)' /\ ByAddress(p)' /\ Answered(p)'
    BY DEF MailInv, Meet
  <2>4. ByName(p) /\ ByAddress(p) /\ Answered(p) /\ p.owner \in Peer BY <1>1, <2>3 DEF MailInv
  <2>5. ByName(p)' /\ Answered(p)' BY <2>4 DEF Meet, ByName, Answered
  <2>6. ByAddress(p)' BY <2>2, <2>4 DEF Meet, ByAddress
  <2> QED BY <2>5, <2>6
<1>8. QuickInv' BY DEF Meet, QuickInv, Quick
<1> QED BY <1>5, <1>6, <1>7, <1>8 DEF MemberInv

LEMMA SendHandshakeStep ==
  ASSUME MemberInv, NEW n \in Peer, NEW a \in DOMAIN shake[n], SendHandshake(n, a)
  PROVE  MemberInv'
<1>1. MemberTypeOK /\ TablesInv /\ MailInv BY DEF MemberInv
<1>2. a \in Addr /\ shake[n][a] \in {"meet", "ping"} /\ shake[n] \in [DOMAIN shake[n] -> States]
      /\ DOMAIN shake[n] \in SUBSET Addr
  BY <1>1, TableFacts DEF SendHandshake, States
<1>3. <<"address", a>> \in Entry BY <1>2 DEF Entry
<1>4. PICK p \in OnLink(shake[n][a], n, <<"address", a>>, a) : mail' = mail \cup {p}
  BY DEF SendHandshake
<1>5. /\ p \in Packet
      /\ p.type # "pong" /\ p.owner = n /\ p.entry = <<"address", a>> /\ p.at = a
  <2>1. PICK g \in Gossips(n) : p = [type |-> shake[n][a], owner |-> n, entry |-> <<"address", a>>,
                                     at |-> a, gossip |-> g, who |-> n]
    BY <1>4 DEF OnLink
  <2>2. g \in Partial(Peer, Addr) BY <1>1, GossipFacts
  <2>3. p \in Packet BY <1>2, <1>3, <2>1, <2>2 DEF Packet
  <2> QED BY <1>2, <2>1, <2>3
<1>6. shake' = [shake EXCEPT ![n] = [shake[n] EXCEPT ![a] = "sent"]] BY DEF SendHandshake
<1>7. [shake[n] EXCEPT ![a] = "sent"] \in [DOMAIN shake[n] -> States] BY <1>2 DEF States
<1>8. [shake[n] EXCEPT ![a] = "sent"] \in Partial(Addr, States) BY <1>2, <1>7, PartialIntro
<1>9. MemberTypeOK' BY <1>1, <1>4, <1>5, <1>6, <1>8 DEF SendHandshake, MemberTypeOK, States
<1>10. TablesInv' BY <1>1 DEF SendHandshake, TablesInv
<1>11. MailInv'
  <2>1. shake \in [Peer -> Partial(Addr, States)] BY <1>1 DEF MemberTypeOK, States
  <2>2. \A k \in Peer : DOMAIN shake'[k] = DOMAIN shake[k]
                        /\ \A b \in DOMAIN shake[k] : shake[k][b] = "sent" => shake'[k][b] = "sent"
    BY <1>2, <1>6, <2>1
  <2>3. \A q \in mail : q.owner \in Peer BY <1>1, PacketFacts DEF MemberTypeOK
  <2>4. shake'[n][a] = "sent" BY <1>2, <1>6, <2>1
  <2>5. ASSUME NEW q \in mail, q.owner = n, q.entry = <<"address", a>> PROVE FALSE
    BY <1>1, <2>5 DEF SendHandshake, MailInv, ByAddress
  <2>6. UNCHANGED <<known, addr>> BY DEF SendHandshake
  <2>7. ASSUME NEW q \in mail PROVE ByName(q)' /\ ByAddress(q)' /\ Answered(q)'
    <3>1. ByName(q) /\ ByAddress(q) /\ Answered(q) /\ q.owner \in Peer BY <1>1, <2>3 DEF MailInv
    <3>2. ByName(q)' /\ Answered(q)' BY <2>6, <3>1 DEF ByName, Answered
    <3>3. q.owner = n /\ q.entry = p.entry => FALSE BY <1>5, <2>5
    <3>4. ByAddress(q)' BY <1>4, <1>5, <2>2, <3>1, <3>3 DEF ByAddress
    <3> QED BY <3>2, <3>4
  <2>8. p.entry[1] = "address" /\ p.entry[2] = a BY <1>5
  <2>9. ByName(p)' /\ Answered(p)' BY <1>5, <2>8 DEF ByName, Answered
  <2>10. ByAddress(p)' BY <1>4, <1>5, <2>2, <2>4, <2>5, <2>8 DEF ByAddress
  <2> QED BY <1>4, <2>7, <2>9, <2>10 DEF MailInv
<1>12. QuickInv'
  <2>1. ~Quick BY DEF MemberInv, QuickInv
  <2> QED BY <2>1 DEF SendHandshake, QuickInv, Quick
<1> QED BY <1>9, <1>10, <1>11, <1>12 DEF MemberInv

LEMMA HandshakeTimesOutStep ==
  ASSUME MemberInv, NEW n \in Peer, NEW a \in DOMAIN shake[n], HandshakeTimesOut(n, a)
  PROVE  MemberInv'
<1>1. MemberTypeOK /\ TablesInv /\ MailInv BY DEF MemberInv
<1>2. shake[n] \in Partial(Addr, States) BY <1>1, TableFacts
<1>3. /\ Without(shake[n], a) \in Partial(Addr, States)
      /\ DOMAIN Without(shake[n], a) = DOMAIN shake[n] \ {a}
      /\ \A x \in DOMAIN shake[n] \ {a} : Without(shake[n], a)[x] = shake[n][x]
  <2>1. Without(shake[n], a) \in Partial(Addr, States) BY <1>2, Dropped
  <2> QED BY <2>1 DEF Without, Restrict
<1>4. shake' = [shake EXCEPT ![n] = Without(shake[n], a)] BY DEF HandshakeTimesOut
<1>5. MemberTypeOK' BY <1>1, <1>3, <1>4 DEF HandshakeTimesOut, MemberTypeOK, States
<1>6. TablesInv' BY <1>1 DEF HandshakeTimesOut, TablesInv
<1>7. MailInv'
  <2>1. shake \in [Peer -> Partial(Addr, States)] BY <1>1 DEF MemberTypeOK, States
  <2>2. \A k \in Peer : \A b \in DOMAIN shake[k] :
           k # n \/ b # a => b \in DOMAIN shake'[k] /\ shake'[k][b] = shake[k][b]
    BY <1>3, <1>4, <2>1
  <2>3. \A p \in mail : p.owner \in Peer /\ p.entry \in Entry BY <1>1, PacketFacts DEF MemberTypeOK
  <2>4. ASSUME NEW p \in mail, p.entry[1] = "address", p.owner = n, p.entry[2] = a PROVE FALSE
    <3>1. p.entry = <<"address", a>> BY <2>3, <2>4 DEF Entry
    <3> QED BY <2>4, <3>1 DEF HandshakeTimesOut, Disconnected
  <2> SUFFICES ASSUME NEW p \in mail PROVE ByName(p)' /\ ByAddress(p)' /\ Answered(p)'
    BY DEF MailInv, HandshakeTimesOut
  <2>5. ByName(p) /\ ByAddress(p) /\ Answered(p) /\ p.owner \in Peer BY <1>1, <2>3 DEF MailInv
  <2>6. ByName(p)' /\ Answered(p)' BY <2>5 DEF HandshakeTimesOut, ByName, Answered
  <2>7. ByAddress(p)' BY <2>2, <2>4, <2>5 DEF HandshakeTimesOut, ByAddress
  <2> QED BY <2>6, <2>7
<1>8. QuickInv'
  <2>1. ~Quick BY DEF MemberInv, QuickInv
  <2> QED BY <2>1 DEF HandshakeTimesOut, QuickInv, Quick
<1> QED BY <1>5, <1>6, <1>7, <1>8 DEF MemberInv

\* A quick removal goes on when the tables, the black lists and the handshakes stay
\* and new packets are gossip from the tables.
LEMMA QuickStays ==
  ASSUME MemberInv, UNCHANGED <<addr, known, shake, black, forgot, late>>,
         \A p \in mail' : p \in mail \/ \E n \in Peer : DOMAIN p.gossip \in SUBSET DOMAIN known[n]
  PROVE  QuickInv'
<1> SUFFICES ASSUME Quick PROVE QuickInv' BY DEF QuickInv, Quick
<1>1. ASSUME forgot = Members PROVE \A n \in Peer : Newcomer \notin DOMAIN known[n]
  BY <1>1 DEF MemberInv, QuickInv, Members
<1>2. ASSUME forgot = Members, \A p \in mail : Newcomer \notin DOMAIN p.gossip
      PROVE  \A p \in mail' : Newcomer \notin DOMAIN p.gossip
  BY <1>1, <1>2
<1> QED BY <1>2 DEF MemberInv, QuickInv, Quick

LEMMA SendPingStep ==
  ASSUME MemberInv, NEW n \in Peer, NEW m \in DOMAIN known[n], SendPing(n, m)
  PROVE  MemberInv'
<1>1. MemberTypeOK /\ TablesInv /\ MailInv BY DEF MemberInv
<1>2. m \in Peer /\ known[n][m] \in Addr
  BY <1>1, TableFacts DEF SendPing, Place
<1>3. <<"name", m>> \in Entry BY <1>2 DEF Entry
<1>4. PICK p \in OnLink("ping", n, <<"name", m>>, known[n][m]) : mail' = mail \cup {p}
  BY DEF SendPing
<1>5. /\ p \in Packet
      /\ p.type = "ping" /\ p.owner = n /\ p.entry = <<"name", m>> /\ p.at = known[n][m]
      /\ DOMAIN p.gossip \in SUBSET DOMAIN known[n]
  <2>1. PICK g \in Gossips(n) : p = [type |-> "ping", owner |-> n, entry |-> <<"name", m>>,
                                     at |-> known[n][m], gossip |-> g, who |-> n]
    BY <1>4 DEF OnLink
  <2>2. g \in Partial(Peer, Addr) /\ DOMAIN g \in SUBSET DOMAIN known[n] BY <1>1, GossipFacts
  <2>3. p \in Packet BY <1>2, <1>3, <2>1, <2>2 DEF Packet
  <2> QED BY <1>2, <2>1, <2>2, <2>3
<1>6. UNCHANGED <<addr, known, shake, black, forgot, late>> BY DEF SendPing
<1>7. MemberTypeOK' BY <1>1, <1>4, <1>5, <1>6 DEF MemberTypeOK
<1>8. TablesInv' BY <1>1, <1>6 DEF TablesInv
<1>9. MailInv'
  <2>1. p.entry[1] = "name" /\ p.entry[2] = m BY <1>5
  <2>2. ByName(p)' /\ ByAddress(p)' /\ Answered(p)'
    BY <1>5, <1>6, <2>1 DEF ByName, ByAddress, Answered
  <2>3. ASSUME NEW q \in mail PROVE ByName(q)' /\ ByAddress(q)' /\ Answered(q)'
    <3>1. ByName(q) /\ ByAddress(q) /\ Answered(q) BY <1>1 DEF MailInv
    <3>2. ByName(q)' /\ Answered(q)' BY <1>6, <3>1 DEF ByName, Answered
    <3>3. q.entry[1] = "address" => q.entry # p.entry BY <2>1
    <3>4. ByAddress(q)' BY <1>4, <1>6, <3>1, <3>3 DEF ByAddress
    <3> QED BY <3>2, <3>4
  <2> QED BY <1>4, <2>2, <2>3 DEF MailInv
<1>10. QuickInv' BY <1>4, <1>5, <1>6, QuickStays
<1> QED BY <1>7, <1>8, <1>9, <1>10 DEF MemberInv

LEMMA LoseRequestStep ==
  ASSUME MemberInv, NEW p \in mail, LoseRequest(p)
  PROVE  MemberInv'
<1>1. MemberTypeOK /\ TablesInv /\ MailInv BY DEF MemberInv
<1>2. UNCHANGED <<addr, known, shake, black, forgot, late>> /\ mail' = mail \ {p}
  BY DEF LoseRequest
<1>3. MemberTypeOK' BY <1>1, <1>2 DEF MemberTypeOK
<1>4. TablesInv' BY <1>1, <1>2 DEF TablesInv
<1>5. MailInv' BY <1>1, <1>2 DEF MailInv, ByName, ByAddress, Answered
<1>6. QuickInv' BY <1>2, QuickStays
<1> QED BY <1>3, <1>4, <1>5, <1>6 DEF MemberInv

LEMMA BlacklistExpiresStep ==
  ASSUME MemberInv, NEW n \in Peer, BlacklistExpires(n)
  PROVE  MemberInv'
<1>1. MemberTypeOK /\ TablesInv /\ MailInv BY DEF MemberInv
<1>2. UNCHANGED <<addr, known, shake, mail, forgot>> BY DEF BlacklistExpires
<1>3. MemberTypeOK'
  <2>1. black' \in [Peer -> SUBSET Peer] BY <1>1 DEF BlacklistExpires, MemberTypeOK
  <2>2. late' \in BOOLEAN BY DEF BlacklistExpires
  <2> QED BY <1>1, <1>2, <2>1, <2>2 DEF MemberTypeOK
<1>4. TablesInv' BY <1>1, <1>2 DEF TablesInv
<1>5. MailInv' BY <1>1, <1>2 DEF MailInv, ByName, ByAddress, Answered
<1>6. QuickInv'
  <2> SUFFICES ASSUME Quick' PROVE QuickInv' BY DEF QuickInv
  <2>1. Quick /\ Members \subseteq forgot BY <1>2 DEF Quick, BlacklistExpires
  <2>2. forgot = Members BY <1>1, <2>1 DEF MemberTypeOK
  <2>3. \A p \in mail : Newcomer \notin DOMAIN p.gossip BY DEF BlacklistExpires
  <2> QED BY <1>2, <2>1, <2>2, <2>3 DEF MemberInv, QuickInv
<1> QED BY <1>3, <1>4, <1>5, <1>6 DEF MemberInv

LEMMA ForgetStep ==
  ASSUME MemberInv, NEW n \in Peer, Forget(n)
  PROVE  MemberInv'
<1>1. MemberTypeOK /\ TablesInv /\ MailInv BY DEF MemberInv
<1>2. UNCHANGED <<addr, shake>> /\ n \in Members /\ Newcomer \in Peer
      /\ known' = [known EXCEPT ![n] = Without(known[n], Newcomer)]
      /\ mail' = mail \ Disconnected(n, <<"name", Newcomer>>)
      /\ black' = [black EXCEPT ![n] = black[n] \cup {Newcomer}]
      /\ forgot' = forgot \cup {n}
  BY MembershipAssumption DEF Forget
<1>3. known \in [Peer -> Partial(Peer, Place)] /\ black \in [Peer -> SUBSET Peer]
  BY <1>1 DEF MemberTypeOK
<1>4. Without(known[n], Newcomer) \in Partial(Peer, Place) BY <1>3, Dropped
<1>5. /\ DOMAIN Without(known[n], Newcomer) = DOMAIN known[n] \ {Newcomer}
      /\ \A x \in DOMAIN known[n] \ {Newcomer} : Without(known[n], Newcomer)[x] = known[n][x]
  BY DEF Without, Restrict
<1>6. /\ \A k \in Peer : DOMAIN known'[k] = {m \in DOMAIN known[k] : k # n \/ m # Newcomer}
      /\ \A k \in Peer : \A m \in DOMAIN known'[k] : known'[k][m] = known[k][m]
  BY <1>2, <1>3, <1>5
<1>7. MemberTypeOK'
  <2>1. known' \in [Peer -> Partial(Peer, Place)] BY <1>2, <1>3, <1>4
  <2>2. black' \in [Peer -> SUBSET Peer] BY <1>2, <1>3
  <2>3. late' \in BOOLEAN BY DEF Forget
  <2>4. mail' \subseteq Packet /\ forgot' \subseteq Members BY <1>1, <1>2 DEF MemberTypeOK
  <2> QED BY <1>1, <1>2, <2>1, <2>2, <2>3, <2>4 DEF MemberTypeOK
<1>8. TablesInv' BY <1>1, <1>2, <1>6 DEF TablesInv
<1>9. MailInv'
  <2> SUFFICES ASSUME NEW p \in mail' PROVE ByName(p)' /\ ByAddress(p)' /\ Answered(p)'
    BY DEF MailInv
  <2>1. p \in mail /\ ~(p.owner = n /\ p.entry = <<"name", Newcomer>>)
    BY <1>2 DEF Disconnected
  <2>2. p \in Packet /\ ByName(p) /\ ByAddress(p) /\ Answered(p)
    BY <1>1, <2>1 DEF MailInv, MemberTypeOK
  <2>3. p.owner \in Peer /\ p.entry \in Entry BY <2>2, PacketFacts
  <2>4. p.entry[1] = "name" /\ p.entry[2] = Newcomer => p.entry = <<"name", Newcomer>>
    BY <2>3 DEF Entry
  <2>5. ByName(p)' BY <1>6, <2>1, <2>2, <2>3, <2>4 DEF ByName
  <2>6. ByAddress(p)' /\ Answered(p)' BY <1>2, <2>2 DEF ByAddress, Answered
  <2> QED BY <2>5, <2>6
<1>10. QuickInv'
  <2> SUFFICES ASSUME Quick' PROVE QuickInv' BY DEF QuickInv
  <2>1. ~late /\ (forgot = {} => Acquainted) /\ \A k \in Peer : shake[k] = <<>>
    BY DEF Quick, Forget
  <2>2. \A k \in Peer : DOMAIN shake'[k] = {} BY <1>2, <2>1
  <2>3. /\ \A k \in Peer : DOMAIN known[k] = {m \in Peer : m # k /\ ~(k \in forgot /\ m = Newcomer)}
        /\ \A k \in Peer : \A m \in DOMAIN known[k] : known[k][m] = addr[m]
    <3>1. CASE forgot # {} BY <2>1, <3>1 DEF MemberInv, QuickInv, Quick
    <3>2. CASE forgot = {}
      <4>1. \A k \in Peer : DOMAIN known[k] \in SUBSET Peer /\ k \notin DOMAIN known[k]
        BY <1>1, TableFacts DEF TablesInv
      <4> QED BY <2>1, <3>2, <4>1 DEF Acquainted
    <3> QED BY <3>1, <3>2
  <2>4. \A k \in Peer : DOMAIN known'[k] = {m \in Peer : m # k /\ ~(k \in forgot' /\ m = Newcomer)}
    BY <1>2, <1>6, <2>3
  <2>5. \A k \in Peer : \A m \in DOMAIN known'[k] : known'[k][m] = addr'[m]
    BY <1>2, <1>6, <2>3
  <2>6. ASSUME NEW k \in forgot'
        PROVE  Newcomer \in black'[k]
               \/ (forgot' = Members /\ \A p \in mail' : Newcomer \notin DOMAIN p.gossip)
    <3>1. CASE k = n BY <1>2, <1>3, <3>1 DEF Members
    <3>2. CASE k # n
      <4>1. k \in forgot /\ k \in Peer BY <1>1, <1>2, <3>2 DEF MemberTypeOK, Members
      <4>2. \/ Newcomer \in black[k]
            \/ forgot = Members /\ \A p \in mail : Newcomer \notin DOMAIN p.gossip
        BY <2>1, <4>1 DEF MemberInv, QuickInv, Quick
      <4> QED BY <1>2, <1>3, <3>2, <4>1, <4>2
    <3> QED BY <3>1, <3>2
  <2> QED BY <2>2, <2>4, <2>5, <2>6 DEF QuickInv
<1> QED BY <1>7, <1>8, <1>9, <1>10 DEF MemberInv

LEMMA MoveStep ==
  ASSUME MemberInv, NEW a \in Addr, Move(a)
  PROVE  MemberInv'
<1>1. MemberTypeOK /\ TablesInv /\ MailInv BY DEF MemberInv
<1>2. PICK moved \in {{Newcomer} \cup {k \in Peer : addr[k] = a}} :
       /\ addr' = [k \in Peer |-> IF k = Newcomer THEN a
                                 ELSE IF addr[k] = a THEN addr[Newcomer] ELSE addr[k]]
       /\ mail' = {p \in mail : /\ p.owner \notin moved /\ p.who \notin moved
                                 /\ p.at \notin {a, addr[Newcomer]}}
       /\ shake' = [k \in Peer |-> IF k \in moved THEN <<>> ELSE shake[k]]
  BY DEF Move
<1>3. UNCHANGED <<known, black, forgot>> BY DEF Move
<1>4. Newcomer \in Peer /\ addr \in [Peer -> Addr] /\ addr[Newcomer] \in Addr
  BY <1>1, MembershipAssumption DEF MemberTypeOK
<1>5. MemberTypeOK'
  <2>1. addr' \in [Peer -> Addr] BY <1>2, <1>4
  <2>2. <<>> \in [{} -> States] OBVIOUS
  <2>3. <<>> \in Partial(Addr, States) BY <2>2, PartialIntro
  <2>4. shake' \in [Peer -> Partial(Addr, States)] BY <1>1, <1>2, <2>3 DEF MemberTypeOK, States
  <2>5. late' \in BOOLEAN BY DEF Move
  <2>6. mail' \subseteq Packet BY <1>1, <1>2 DEF MemberTypeOK
  <2> QED BY <1>1, <1>3, <2>1, <2>4, <2>5, <2>6 DEF MemberTypeOK, States
<1>6. TablesInv'
  <2>1. \A m, n \in Peer : addr[m] = addr[n] => m = n BY <1>1 DEF TablesInv
  <2>2. \A m, n \in Peer : addr'[m] = addr'[n] => m = n BY <1>2, <1>4, <2>1
  <2> QED BY <1>1, <1>3, <2>2 DEF TablesInv
<1>7. MailInv'
  <2> SUFFICES ASSUME NEW p \in mail' PROVE ByName(p)' /\ ByAddress(p)' /\ Answered(p)'
    BY DEF MailInv
  <2>1. p \in mail /\ p.owner \notin moved /\ p.who \notin moved BY <1>2
  <2>2. p \in Packet /\ ByName(p) /\ ByAddress(p) /\ Answered(p)
    BY <1>1, <2>1 DEF MailInv, MemberTypeOK
  <2>3. p.owner \in Peer /\ p.who \in Peer BY <2>2, PacketFacts
  <2>4. shake'[p.owner] = shake[p.owner] /\ mail' \subseteq mail BY <1>2, <2>1, <2>3
  <2>5. addr'[p.who] = addr[p.who] BY <1>2, <2>1, <2>3
  <2> QED BY <1>3, <2>1, <2>2, <2>4, <2>5 DEF ByName, ByAddress, Answered
<1>8. QuickInv' BY DEF Move, QuickInv, Quick
<1> QED BY <1>5, <1>6, <1>7, <1>8 DEF MemberInv


\* A removal goes on: nobody is left to gossip about a node that all have removed.
LEMMA GossipWithout ==
  ASSUME MemberInv, Quick, forgot = Members, NEW n \in Peer
  PROVE  Newcomer \notin DOMAIN known[n]
BY DEF MemberInv, QuickInv, Members

\* In a quick removal packets go between nodes that know each other.
LEMMA QuickMail ==
  ASSUME MemberInv, Quick, NEW p \in mail
  PROVE  /\ p.entry[1] = "name" /\ p.type # "meet"
         /\ p.entry[2] \in Peer /\ p.owner \in Peer /\ p.at = addr[p.entry[2]]
<1>1. p \in Packet /\ ByName(p) /\ ByAddress(p) BY DEF MemberInv, MemberTypeOK, MailInv
<1>2. /\ p.owner \in Peer
      /\ \/ p.entry[1] = "name" /\ p.entry[2] \in Peer
         \/ p.entry[1] = "address" /\ p.entry[2] \in Addr
  BY <1>1, PacketFacts
<1>3. DOMAIN shake[p.owner] = {} BY <1>2 DEF MemberInv, QuickInv
<1>4. p.entry[1] = "name" /\ p.entry[2] \in Peer BY <1>1, <1>2, <1>3 DEF ByAddress
<1>5. p.entry[2] \in DOMAIN known[p.owner] /\ known[p.owner][p.entry[2]] \in {p.at, NoAddr} /\ p.type # "meet"
  BY <1>1, <1>4 DEF ByName
<1>6. known[p.owner][p.entry[2]] = addr[p.entry[2]] BY <1>2, <1>5 DEF MemberInv, QuickInv
<1>7. addr[p.entry[2]] # NoAddr BY <1>4, MembershipAssumption DEF MemberInv, MemberTypeOK
<1> QED BY <1>2, <1>4, <1>5, <1>6, <1>7

LEMMA ReceivePongStep ==
  ASSUME MemberInv, NEW p \in mail, ReceivePong(p)
  PROVE  MemberInv'
<1>1. MemberTypeOK /\ TablesInv /\ MailInv BY DEF MemberInv
<1>2. p \in Packet /\ ByName(p) /\ Answered(p) BY <1>1 DEF MemberTypeOK, MailInv
<1>3. p.owner \in Peer /\ p.who \in Peer BY <1>2, PacketFacts
<1>4. p.entry[1] = "name" /\ p.type = "pong" /\ mail' = mail \ {p}
      /\ UNCHANGED <<addr, black, forgot, late, moves>>
  BY DEF ReceivePong
<1>5. p.entry[2] \in DOMAIN known[p.owner] BY <1>2, <1>4 DEF ByName
<1>6. known \in [Peer -> Partial(Peer, Place)] /\ shake \in [Peer -> Partial(Addr, States)]
  BY <1>1 DEF MemberTypeOK, States
<1>7. CASE p.who # p.entry[2]
  <2> DEFINE n == p.owner
             m == p.entry[2]
             table == [known[n] EXCEPT ![m] = NoAddr]
  <2>1. known' = [known EXCEPT ![n] = table] /\ UNCHANGED shake BY <1>7 DEF ReceivePong
  <2>2. known[n] \in [DOMAIN known[n] -> Place] /\ DOMAIN known[n] \in SUBSET Peer
    BY <1>1, <1>3, TableFacts
  <2>3. table \in [DOMAIN known[n] -> Place] BY <2>2 DEF Place
  <2>4. table \in Partial(Peer, Place) BY <2>2, <2>3, PartialIntro
  <2>5. /\ \A k \in Peer : DOMAIN known'[k] = DOMAIN known[k]
        /\ \A k \in Peer : \A x \in DOMAIN known[k] : known'[k][x] \in {known[k][x], NoAddr}
    BY <1>3, <1>6, <2>1, <2>2
  <2>6. MemberTypeOK'
    <3>1. known' \in [Peer -> Partial(Peer, Place)] BY <1>6, <2>1, <2>4
    <3> QED BY <1>1, <1>4, <2>1, <3>1 DEF MemberTypeOK
  <2>7. TablesInv' BY <1>1, <1>4, <2>5 DEF TablesInv
  <2>8. MailInv'
    <3> SUFFICES ASSUME NEW q \in mail' PROVE ByName(q)' /\ ByAddress(q)' /\ Answered(q)'
      BY DEF MailInv
    <3>1. q \in mail /\ q \in Packet /\ ByName(q) /\ ByAddress(q) /\ Answered(q)
      BY <1>1, <1>4 DEF MailInv, MemberTypeOK
    <3>2. q.owner \in Peer BY <3>1, PacketFacts
    <3>3. ByName(q)' BY <2>5, <3>1, <3>2 DEF ByName
    <3>4. ByAddress(q)' /\ Answered(q)' BY <1>4, <2>1, <3>1 DEF ByAddress, Answered
    <3> QED BY <3>3, <3>4
  <2>9. QuickInv'
    <3>1. ASSUME Quick PROVE FALSE
      <4>1. p.entry[2] \in Peer /\ p.at = addr[p.entry[2]] BY <3>1, QuickMail
      <4>2. addr[p.who] = p.at BY <1>2, <1>4 DEF Answered
      <4> QED BY <1>1, <1>3, <1>7, <4>1, <4>2 DEF TablesInv
    <3> QED BY <1>4, <3>1 DEF QuickInv, Quick
  <2> QED BY <2>6, <2>7, <2>8, <2>9 DEF MemberInv
<1>8. CASE p.who = p.entry[2]
  <2> DEFINE n == p.owner
             new == Introduced(n, known[n], p.gossip, TRUE)
             h == Over(shake[n], [a \in new |-> "meet"])
  <2>1. shake' = [shake EXCEPT ![n] = h] /\ UNCHANGED known BY <1>8 DEF ReceivePong, Shaking
  <2>2. new \in SUBSET Addr BY <1>2, IntroducedType
  <2>3. shake[n] \in Partial(Addr, States) BY <1>3, <1>6
  <2> HIDE DEF new
  <2>4. h \in Partial(Addr, States) /\ DOMAIN h = DOMAIN shake[n] \cup new
        /\ \A a \in DOMAIN shake[n] : h[a] = shake[n][a]
    BY <2>2, <2>3, ShakingFacts DEF States
  <2> HIDE DEF h
  <2>5. \A k \in Peer : \A a \in DOMAIN shake[k] : a \in DOMAIN shake'[k] /\ shake'[k][a] = shake[k][a]
    BY <1>3, <1>6, <2>1, <2>4
  <2>6. MemberTypeOK'
    <3>1. shake' \in [Peer -> Partial(Addr, States)] BY <1>6, <2>1, <2>4
    <3> QED BY <1>1, <1>4, <2>1, <3>1 DEF MemberTypeOK, States
  <2>7. TablesInv' BY <1>1, <1>4, <2>1 DEF TablesInv
  <2>8. MailInv'
    <3> SUFFICES ASSUME NEW q \in mail' PROVE ByName(q)' /\ ByAddress(q)' /\ Answered(q)'
      BY DEF MailInv
    <3>1. q \in mail /\ q \in Packet /\ ByName(q) /\ ByAddress(q) /\ Answered(q)
      BY <1>1, <1>4 DEF MailInv, MemberTypeOK
    <3>2. q.owner \in Peer BY <3>1, PacketFacts
    <3>3. ByName(q)' /\ Answered(q)' BY <1>4, <2>1, <3>1 DEF ByName, Answered
    <3>4. ByAddress(q)' BY <1>4, <2>5, <3>1, <3>2 DEF ByAddress
    <3> QED BY <3>3, <3>4
  <2>9. QuickInv'
    <3> SUFFICES ASSUME Quick PROVE QuickInv' BY <1>4 DEF QuickInv, Quick
    <3>1. \A m \in DOMAIN known[n] : known[n][m] = addr[m] BY <1>3 DEF MemberInv, QuickInv
    <3>2. new = {} BY <1>3, <3>1, NothingNew DEF new
    <3>3. \A k \in Peer : DOMAIN shake'[k] = {}
      <4>1. \A k \in Peer : DOMAIN shake[k] = {} BY DEF MemberInv, QuickInv
      <4> QED BY <1>3, <1>6, <2>1, <2>4, <3>2, <4>1
    <3> QED BY <1>4, <2>1, <3>3 DEF MemberInv, QuickInv
  <2> QED BY <2>6, <2>7, <2>8, <2>9 DEF MemberInv
<1> QED BY <1>7, <1>8


LEMMA CompleteHandshakeStep ==
  ASSUME MemberInv, NEW p \in mail, CompleteHandshake(p)
  PROVE  MemberInv'
<1> DEFINE n == p.owner
           w == p.who
           a == p.entry[2]
           one == [m \in {w} |-> a]
           table == Over(one, known[n])
<1>1. MemberTypeOK /\ TablesInv /\ MailInv BY DEF MemberInv
<1>2. p \in Packet /\ ByName(p) /\ ByAddress(p) /\ Answered(p) BY <1>1 DEF MemberTypeOK, MailInv
<1>3. p.entry[1] = "address" /\ mail' = mail \ ({p} \cup StaleLink(n, w, a))
      /\ UNCHANGED <<addr, black, forgot, late, moves>>
      /\ shake' = [shake EXCEPT ![n] = Without(shake[n], a)]
      /\ known' = IF w = n THEN known ELSE [known EXCEPT ![n] = table]
  BY DEF CompleteHandshake
<1>4. n \in Peer /\ w \in Peer /\ a \in Addr /\ p.entry = <<"address", a>>
  BY <1>2, <1>3, PacketFacts DEF Entry
<1>5. known \in [Peer -> Partial(Peer, Place)] /\ shake \in [Peer -> Partial(Addr, States)]
  BY <1>1 DEF MemberTypeOK, States
<1>6. /\ Without(shake[n], a) \in Partial(Addr, States)
      /\ DOMAIN Without(shake[n], a) = DOMAIN shake[n] \ {a}
      /\ \A x \in DOMAIN shake[n] \ {a} : Without(shake[n], a)[x] = shake[n][x]
  <2>1. shake[n] \in Partial(Addr, States) BY <1>4, <1>5
  <2>2. Without(shake[n], a) \in Partial(Addr, States) BY <2>1, Dropped
  <2> QED BY <2>2 DEF Without, Restrict
<1>7. table \in Partial(Peer, Place)
  <2>1. one \in [{w} -> Place] /\ {w} \in SUBSET Peer BY <1>4 DEF Place
  <2>2. one \in Partial(Peer, Place) BY <2>1, PartialIntro
  <2>3. known[n] \in Partial(Peer, Place) BY <1>4, <1>5
  <2> HIDE DEF one
  <2> QED BY <2>2, <2>3, Overlay
<1>8. DOMAIN table = DOMAIN known[n] \cup {w} /\ table[w] = a
      /\ \A x \in DOMAIN known[n] : x # w => table[x] = known[n][x]
  BY DEF Over
<1> HIDE DEF table
<1>9. \A k \in Peer : \A b \in DOMAIN shake[k] :
         k # n \/ b # a => b \in DOMAIN shake'[k] /\ shake'[k][b] = shake[k][b]
  BY <1>3, <1>4, <1>5, <1>6
<1>10. /\ \A k \in Peer : \A x \in DOMAIN known[k] :
            /\ x \in DOMAIN known'[k]
            /\ known'[k][x] = known[k][x] \/ (k = n /\ x = w /\ known'[k][x] = a)
       /\ \A k \in Peer : k \notin DOMAIN known[k] => k \notin DOMAIN known'[k]
  BY <1>3, <1>4, <1>5, <1>8
<1>11. MemberTypeOK'
  <2>1. shake' \in [Peer -> Partial(Addr, States)] BY <1>3, <1>5, <1>6
  <2>2. known' \in [Peer -> Partial(Peer, Place)] BY <1>3, <1>5, <1>7
  <2> QED BY <1>1, <1>3, <2>1, <2>2 DEF MemberTypeOK, States
<1>12. TablesInv' BY <1>1, <1>3, <1>10 DEF TablesInv
<1>13. MailInv'
  <2> SUFFICES ASSUME NEW q \in mail' PROVE ByName(q)' /\ ByAddress(q)' /\ Answered(q)'
    BY DEF MailInv
  <2>1. q \in mail /\ q # p /\ q \notin StaleLink(n, w, a) BY <1>3
  <2>2. q \in Packet /\ ByName(q) /\ ByAddress(q) /\ Answered(q)
    BY <1>1, <2>1 DEF MailInv, MemberTypeOK
  <2>3. q.owner \in Peer /\ q.entry \in Entry BY <2>2, PacketFacts
  <2>4. Answered(q)' BY <1>3, <2>2 DEF Answered
  <2>5. ByAddress(q)'
    <3>1. SUFFICES ASSUME q.entry[1] = "address" PROVE ByAddress(q)' BY DEF ByAddress
    <3>2. ~(q.owner = n /\ q.entry = p.entry) BY <1>2, <1>3, <2>1 DEF ByAddress
    <3>3. q.entry[2] = a => q.entry = p.entry BY <1>4, <2>3, <3>1 DEF Entry
    <3> QED BY <1>3, <1>9, <2>2, <2>3, <3>1, <3>2, <3>3 DEF ByAddress
  <2>6. ByName(q)'
    <3>1. SUFFICES ASSUME q.entry[1] = "name" PROVE ByName(q)' BY DEF ByName
    <3>2. q.type # "meet" /\ q.entry[2] \in DOMAIN known[q.owner]
          /\ known[q.owner][q.entry[2]] \in {q.at, NoAddr}
      BY <2>2, <3>1 DEF ByName
    <3>3. q.entry = <<"name", q.entry[2]>> BY <2>3, <3>1 DEF Entry
    <3>4. q.owner = n /\ q.entry[2] = w => known[n][w] = a
      BY <2>1, <3>2, <3>3 DEF StaleLink, Disconnected
    <3>5. known'[q.owner][q.entry[2]] = known[q.owner][q.entry[2]] /\ q.entry[2] \in DOMAIN known'[q.owner]
      BY <1>10, <2>3, <3>2, <3>4
    <3> QED BY <3>2, <3>5 DEF ByName
  <2> QED BY <2>4, <2>5, <2>6
<1>14. QuickInv'
  <2>1. ~Quick BY <1>3, QuickMail
  <2> QED BY <1>3, <2>1 DEF QuickInv, Quick
<1> QED BY <1>11, <1>12, <1>13, <1>14 DEF MemberInv

LEMMA ReceiveRequestStep ==
  ASSUME MemberInv, NEW p \in mail, NEW m \in Peer, ReceiveRequest(p, m)
  PROVE  MemberInv'
<1> DEFINE s == p.owner
           back == IF p.type = "meet" /\ ~Knows(m, s) THEN {addr[s]} ELSE {}
           follows == p.type = "ping" /\ s # m /\ Knows(m, s)
           table == IF follows THEN [known[m] EXCEPT ![s] = addr[s]] ELSE known[m]
           new == Introduced(m, table, p.gossip, Knows(m, s))
           h1 == Over(shake[m], [a \in back |-> "ping"])
           h2 == Over(h1, [a \in new |-> "meet"])
           gone == IF p.type = "ping" THEN StaleLink(m, s, addr[s]) ELSE {}
<1>1. MemberTypeOK /\ TablesInv /\ MailInv BY DEF MemberInv
<1>2. p \in Packet /\ ByName(p) /\ ByAddress(p) BY <1>1 DEF MemberTypeOK, MailInv
<1>3. /\ known' = [known EXCEPT ![m] = table] /\ shake' = [shake EXCEPT ![m] = h2]
      /\ UNCHANGED <<addr, black, forgot, late, moves>>
      /\ p.type # "pong" /\ addr[m] = p.at
  BY DEF ReceiveRequest, Shaking
<1>0. PICK g \in Gossips(m) :
        mail' = (mail \ ({p} \cup gone)) \cup {[p EXCEPT !.type = "pong", !.gossip = g, !.who = m]}
  BY DEF ReceiveRequest
<1> DEFINE q == [p EXCEPT !.type = "pong", !.gossip = g, !.who = m]
<1>4. mail' = (mail \ ({p} \cup gone)) \cup {q} BY <1>0
<1>5. g \in Partial(Peer, Addr) /\ DOMAIN g \in SUBSET DOMAIN known[m] BY <1>1, GossipFacts
<1>6. q \in Packet /\ q.owner = s /\ q.entry = p.entry /\ q.at = p.at /\ q.who = m
      /\ q.gossip = g /\ q.type = "pong"
  BY <1>2, <1>5 DEF Packet
<1> HIDE DEF q
<1>7. s \in Peer /\ p.entry \in Entry /\ addr[s] \in Addr
  BY <1>1, <1>2, PacketFacts DEF MemberTypeOK
<1>8. known \in [Peer -> Partial(Peer, Place)] /\ shake \in [Peer -> Partial(Addr, States)]
  BY <1>1 DEF MemberTypeOK, States
<1>9. known[m] \in [DOMAIN known[m] -> Place] /\ DOMAIN known[m] \in SUBSET Peer
  BY <1>1, TableFacts
<1>10. /\ DOMAIN table = DOMAIN known[m]
       /\ \A x \in DOMAIN known[m] : \/ table[x] = known[m][x]
                                     \/ x = s /\ follows /\ table[x] = addr[s]
       /\ table \in [DOMAIN known[m] -> Place]
  BY <1>7, <1>9 DEF Place
<1>11. table \in Partial(Peer, Place) BY <1>9, <1>10, PartialIntro
<1>12. back \in SUBSET Addr BY <1>7
<1>13. new \in SUBSET Addr BY <1>2, IntroducedType
<1> HIDE DEF back, table, new, gone
<1>14. h1 \in Partial(Addr, States) /\ DOMAIN h1 = DOMAIN shake[m] \cup back
       /\ \A a \in DOMAIN shake[m] : h1[a] = shake[m][a]
  <2>1. shake[m] \in Partial(Addr, States) BY <1>8
  <2> QED BY <1>12, <2>1, ShakingFacts DEF States
<1> HIDE DEF h1
<1>15. h2 \in Partial(Addr, States) /\ DOMAIN h2 = DOMAIN h1 \cup new
       /\ \A a \in DOMAIN h1 : h2[a] = h1[a]
  BY <1>13, <1>14, ShakingFacts DEF States
<1> HIDE DEF h2
<1>16. \A k \in Peer : \A a \in DOMAIN shake[k] : a \in DOMAIN shake'[k] /\ shake'[k][a] = shake[k][a]
  BY <1>3, <1>8, <1>14, <1>15
<1>17. /\ \A k \in Peer : DOMAIN known'[k] = DOMAIN known[k]
       /\ \A k \in Peer : \A x \in DOMAIN known[k] :
            \/ known'[k][x] = known[k][x]
            \/ k = m /\ x = s /\ follows /\ known'[k][x] = addr[s]
  BY <1>3, <1>8, <1>10
<1>18. MemberTypeOK'
  <2>1. shake' \in [Peer -> Partial(Addr, States)] BY <1>3, <1>8, <1>15
  <2>2. known' \in [Peer -> Partial(Peer, Place)] BY <1>3, <1>8, <1>11
  <2>3. mail' \subseteq Packet BY <1>1, <1>4, <1>6 DEF MemberTypeOK
  <2> QED BY <1>1, <1>3, <2>1, <2>2, <2>3 DEF MemberTypeOK, States
<1>19. TablesInv' BY <1>1, <1>3, <1>17 DEF TablesInv
<1>20. MailInv'
  <2>1. ASSUME NEW r \in mail, r # p, r \notin gone PROVE ByName(r)' /\ ByAddress(r)' /\ Answered(r)'
    <3>1. r \in Packet /\ ByName(r) /\ ByAddress(r) /\ Answered(r)
      BY <1>1 DEF MailInv, MemberTypeOK
    <3>2. r.owner \in Peer /\ r.entry \in Entry BY <3>1, PacketFacts
    <3>3. Answered(r)' BY <1>3, <3>1 DEF Answered
    <3>4. ByAddress(r)'
      <4>1. SUFFICES ASSUME r.entry[1] = "address" PROVE ByAddress(r)' BY DEF ByAddress
      <4>2. ~(p.owner = r.owner /\ p.entry = r.entry) BY <2>1, <3>1, <4>1 DEF ByAddress
      <4> QED BY <1>4, <1>6, <1>16, <3>1, <3>2, <4>1, <4>2 DEF ByAddress
    <3>5. ByName(r)'
      <4>1. SUFFICES ASSUME r.entry[1] = "name" PROVE ByName(r)' BY DEF ByName
      <4>2. r.type # "meet" /\ r.entry[2] \in DOMAIN known[r.owner]
            /\ known[r.owner][r.entry[2]] \in {r.at, NoAddr}
        BY <3>1, <4>1 DEF ByName
      <4>3. r.entry = <<"name", r.entry[2]>> BY <3>2, <4>1 DEF Entry
      <4>4. r.owner = m /\ r.entry[2] = s /\ follows => known[m][s] = addr[s]
        BY <2>1, <4>2, <4>3 DEF gone, StaleLink, Disconnected
      <4>5. known'[r.owner][r.entry[2]] = known[r.owner][r.entry[2]] /\ r.entry[2] \in DOMAIN known'[r.owner]
        BY <1>17, <3>2, <4>2, <4>4
      <4> QED BY <4>2, <4>5 DEF ByName
    <3> QED BY <3>3, <3>4, <3>5
  <2>2. Answered(q)' BY <1>3, <1>6 DEF Answered
  <2>3. ByAddress(q)'
    <3>1. SUFFICES ASSUME p.entry[1] = "address" PROVE ByAddress(q)' BY <1>6 DEF ByAddress
    <3>2. \A r \in mail : r.owner = s /\ r.entry = p.entry => r = p BY <1>2, <3>1 DEF ByAddress
    <3>3. \A r \in mail' : r.owner = s /\ r.entry = p.entry => r = q BY <1>4, <3>2
    <3>4. p.entry[2] \in DOMAIN shake[s] /\ shake[s][p.entry[2]] = "sent" BY <1>2, <3>1 DEF ByAddress
    <3>5. p.entry[2] \in DOMAIN shake'[s] /\ shake'[s][p.entry[2]] = "sent" BY <1>7, <1>16, <3>4
    <3> QED BY <1>6, <3>3, <3>5 DEF ByAddress
  <2>4. ByName(q)'
    <3>1. SUFFICES ASSUME p.entry[1] = "name" PROVE ByName(q)' BY <1>6 DEF ByName
    <3>2. p.entry[2] \in DOMAIN known[s] /\ known[s][p.entry[2]] \in {p.at, NoAddr}
      BY <1>2, <3>1 DEF ByName
    <3>3. p.entry[2] \in DOMAIN known'[s] /\ known'[s][p.entry[2]] = known[s][p.entry[2]]
      BY <1>7, <1>17, <3>2
    <3> QED BY <1>6, <3>2, <3>3 DEF ByName
  <2> QED BY <1>4, <2>1, <2>2, <2>3, <2>4 DEF MailInv
<1>21. QuickInv'
  <2> SUFFICES ASSUME Quick PROVE QuickInv' BY <1>3 DEF QuickInv, Quick
  <2>1. /\ \A k \in Peer : DOMAIN shake[k] = {}
        /\ \A k \in Peer : DOMAIN known[k] = {x \in Peer : x # k /\ ~(k \in forgot /\ x = Newcomer)}
        /\ \A k \in Peer : \A x \in DOMAIN known[k] : known[k][x] = addr[x]
        /\ \A n \in forgot : \/ Newcomer \in black[n]
                             \/ forgot = Members /\ \A r \in mail : Newcomer \notin DOMAIN r.gossip
    BY DEF MemberInv, QuickInv
  <2>2. back = {} BY QuickMail DEF back
  <2>3. \A x \in DOMAIN table : table[x] = addr[x] BY <1>10, <2>1
  <2>4. Knows(m, s) \in BOOLEAN BY DEF Knows
  <2>5. new = {} BY <1>10, <2>3, <2>4, NothingNew DEF new
  <2>6. \A k \in Peer : DOMAIN shake'[k] = {} BY <1>3, <1>8, <1>14, <1>15, <2>1, <2>2, <2>5
  <2>7. \A k \in Peer : \A x \in DOMAIN known'[k] : known'[k][x] = addr'[x] BY <1>3, <1>17, <2>1
  <2>8. \A k \in Peer : DOMAIN known'[k] = {x \in Peer : x # k /\ ~(k \in forgot' /\ x = Newcomer)}
    BY <1>3, <1>17, <2>1
  <2>9. ASSUME forgot = Members, \A r \in mail : Newcomer \notin DOMAIN r.gossip
        PROVE  \A r \in mail' : Newcomer \notin DOMAIN r.gossip
    <3>1. Newcomer \notin DOMAIN known[m] BY <2>9, GossipWithout
    <3> QED BY <1>4, <1>5, <1>6, <2>9, <3>1
  <2> QED BY <1>3, <2>1, <2>6, <2>7, <2>8, <2>9 DEF QuickInv
<1> QED BY <1>18, <1>19, <1>20, <1>21 DEF MemberInv

-----------------------------------------------------------------------------
(* The theorems *)

LEMMA MemberInitInv ==
  ASSUME MemberInit
  PROVE  MemberInv
<1>1. addr \in [Peer -> Addr] /\ \A m, n \in Peer : addr[m] = addr[n] => m = n
  BY MembershipAssumption DEF MemberInit
<1>2. ASSUME NEW n \in Peer PROVE known[n] \in Partial(Peer, Place) /\ n \notin DOMAIN known[n]
  <2>1. CASE n = Newcomer
    <3>1. known[n] = <<>> BY <2>1 DEF MemberInit
    <3>2. <<>> \in [{} -> Place] /\ {} \in SUBSET Peer OBVIOUS
    <3>3. <<>> \in Partial(Peer, Place) BY <3>2, PartialIntro
    <3> QED BY <3>1, <3>3
  <2>2. CASE n # Newcomer
    <3>1. known[n] = [m \in Members \ {n} |-> m] BY <2>2 DEF MemberInit
    <3>2. Members \ {n} \in SUBSET Peer BY DEF Members
    <3>3. known[n] \in [Members \ {n} -> Place] BY <3>1, <3>2, MembershipAssumption DEF Place
    <3>4. known[n] \in Partial(Peer, Place) BY <3>2, <3>3, PartialIntro
    <3> QED BY <3>1, <3>4
  <2> QED BY <2>1, <2>2
<1>3. ASSUME NEW n \in Peer PROVE shake[n] \in Partial(Addr, States)
  <2>1. <<>> \in [{} -> States] /\ {} \in SUBSET Addr OBVIOUS
  <2>2. <<>> \in Partial(Addr, States) BY <2>1, PartialIntro
  <2> QED BY <2>2 DEF MemberInit
<1>4. MemberTypeOK
  <2>1. known \in [Peer -> Partial(Peer, Place)] BY <1>2 DEF MemberInit
  <2>2. shake \in [Peer -> Partial(Addr, States)] BY <1>3 DEF MemberInit
  <2> QED BY <1>1, <2>1, <2>2 DEF MemberInit, MemberTypeOK, States
<1>5. TablesInv BY <1>1, <1>2 DEF TablesInv
<1>6. MailInv /\ QuickInv BY DEF MemberInit, MailInv, QuickInv, Quick
<1> QED BY <1>4, <1>5, <1>6 DEF MemberInv

LEMMA MemberStep ==
  ASSUME MemberInv, [MemberNext]_memberVars
  PROVE  MemberInv'
<1>1. CASE \E n \in Peer : Meet(n) \/ Forget(n) \/ BlacklistExpires(n)
  BY <1>1, MeetStep, ForgetStep, BlacklistExpiresStep
<1>2. CASE \E n \in Peer : \E a \in DOMAIN shake[n] : SendHandshake(n, a) \/ HandshakeTimesOut(n, a)
  BY <1>2, SendHandshakeStep, HandshakeTimesOutStep
<1>3. CASE \E n \in Peer : \E m \in DOMAIN known[n] : SendPing(n, m)
  BY <1>3, SendPingStep
<1>4. CASE \E p \in mail : LoseRequest(p) \/ CompleteHandshake(p) \/ ReceivePong(p)
  BY <1>4, LoseRequestStep, CompleteHandshakeStep, ReceivePongStep
<1>5. CASE \E p \in mail : \E m \in Peer : ReceiveRequest(p, m)
  BY <1>5, ReceiveRequestStep
<1>6. CASE \E a \in Addr : Move(a) BY <1>6, MoveStep
<1>7. CASE UNCHANGED memberVars
  <2>1. UNCHANGED <<addr, known, shake, black, mail, forgot, late>> BY <1>7 DEF memberVars
  <2>2. MemberTypeOK' /\ TablesInv' BY <2>1 DEF MemberInv, MemberTypeOK, TablesInv
  <2>3. MailInv' BY <2>1 DEF MemberInv, MailInv, ByName, ByAddress, Answered
  <2>4. QuickInv' BY <2>1 DEF MemberInv, QuickInv, Quick
  <2> QED BY <2>2, <2>3, <2>4 DEF MemberInv
<1> QED BY <1>1, <1>2, <1>3, <1>4, <1>5, <1>6, <1>7 DEF MemberNext

\* Tables, handshakes, black lists and packets of the cluster bus stay well formed:
\* gossip and answers never put a name or an address into a table that is not one.
THEOREM MembershipTyped == MemberSpec => []MemberTypeOK
<1>1. MemberInit => MemberInv BY MemberInitInv
<1>2. MemberInv /\ [MemberNext]_memberVars => MemberInv' BY MemberStep
<1>3. MemberInv => MemberTypeOK BY DEF MemberInv
<1> QED BY <1>1, <1>2, <1>3, PTL DEF MemberSpec

\* CLUSTER FORGET at every member, before the first black list is emptied, is final:
\* no member has the removed node in its table again, whatever the removed node
\* and the gossip under way still say of it.
THEOREM RemovedStaysRemoved == MemberSpec => []ForgottenStays
<1>1. MemberInit => MemberInv BY MemberInitInv
<1>2. MemberInv /\ [MemberNext]_memberVars => MemberInv' BY MemberStep
<1>3. MemberInv => ForgottenStays
  <2> SUFFICES ASSUME MemberInv, forgot = Members, ~late, NEW n \in Members PROVE ~Knows(n, Newcomer)
    BY DEF ForgottenStays
  <2>1. Quick BY DEF Quick
  <2>2. n \in Peer /\ n # Newcomer BY DEF Members
  <2> QED BY <2>1, <2>2, GossipWithout DEF Knows
<1> QED BY <1>1, <1>2, <1>3, PTL DEF MemberSpec

-----------------------------------------------------------------------------
(* Theorems about ClusterSlots, for any number of keys, clients, writes and    *)
(* timeouts: clients read what was last written while a slot moves.  The       *)
(* argument says who is right about a key: the source as long as it has the    *)
(* key, and the target from then on; and that a client is only sent to the     *)
(* target for a key the source will never have again.                          *)

Cell == Nat \cup {Nil}
Message == [key : Key, value : Cell, open : BOOLEAN]
Request == [op : {"get", "set", "del"}, keys : SUBSET Key, at : Side, asking : BOOLEAN,
            value : Cell]

\* The state of the move: the target's claim is the newer one, and a slot that
\* was assigned has no key left in the source.
MoveInv ==
  /\ slots \in [Side -> Side] /\ configEpoch \in [Side -> Nat]
  /\ importing \in [Side -> Side \cup {Nil}] /\ importing[Source] = Nil
  /\ migrating \in [Side -> Side \cup {Nil}] /\ migrating[Source] \in {Target, Nil}
  /\ migrating[Target] = Nil
  /\ slots[Target] = Target => configEpoch[Target] > configEpoch[Source]
  /\ slots[Target] = Target /\ slots[Source] = Source => migrating[Source] # Nil

DataInv ==
  /\ db \in [Side -> [Key -> Cell]] /\ latest \in [Key -> Cell]
  /\ slots[Target] = Target \/ slots[Source] = Target => \A k \in Key : db[Source][k] = Nil

\* Before the source is told to migrate, the target knows nothing of the slot.
Untouched == slots[Source] = Source /\ migrating[Source] = Nil
QuietInv ==
  Untouched => /\ \A k \in Key : db[Target][k] = Nil
               /\ inbox = <<>> /\ moving = Nil
               /\ \A c \in Client : asked[c] # Nil => ~asked[c].asking

\* The exception of ReadsLatest: nothing is said of such a key.
Exposed(k) == k \in inDoubt /\ k \in uncovered

\* The RESTORE commands on their way: the one MIGRATE waits for is the last, and
\* has the value of the source; the others are those of a MIGRATE that timed out,
\* and the source has their keys.
InboxInv ==
  /\ inbox \in Seq(Message) /\ moving \in Key \cup {Nil} /\ reply \in {"none", "ok", "error"}
  /\ moving = Nil => reply = "none"
  /\ moving # Nil => db[Source][moving] # Nil
  /\ reply # "none" => inbox = <<>>
  /\ \A i \in 1..Len(inbox) :
       /\ db[Source][inbox[i].key] # Nil \/ Exposed(inbox[i].key)
       /\ inbox[i].open => /\ i = Len(inbox) /\ moving = inbox[i].key
                           /\ inbox[i].value = db[Source][moving]
       /\ ~inbox[i].open => inbox[i].key \in inDoubt

\* The target took the key, and the source has not yet deleted it.
Copied(k) == moving = k /\ reply = "ok"

\* Who is right about key k.
Right(k) ==
  /\ db[Source][k] = Nil \/ Copied(k) => latest[k] = db[Target][k]
  /\ db[Source][k] # Nil /\ (k \notin uncovered \/ ~Copied(k)) => latest[k] = db[Source][k]
  /\ db[Source][k] # Nil /\ k \notin inDoubt /\ ~Copied(k) => db[Target][k] = Nil

TruthInv == \A k \in Key : Exposed(k) \/ Right(k)

\* A client that was sent to the target has a key the source lacks.
ClientInv ==
  /\ asked \in [Client -> Request \cup {Nil}]
  /\ \A c \in Client : asked[c] # Nil =>
       /\ asked[c].op = "set" => asked[c].value # Nil
       /\ asked[c].op = "del" => asked[c].value = Nil
       /\ (\E k \in Key : asked[c].keys = {k}) \/ asked[c].keys = Key
       /\ asked[c].asking => /\ asked[c].at = Target
                             /\ \E k \in asked[c].keys : db[Source][k] = Nil

SlotsInv ==
  /\ MoveInv /\ DataInv /\ QuietInv /\ InboxInv /\ TruthInv /\ ClientInv
  /\ writes \in Nat /\ timeouts \in Nat
  /\ \A k \in stale : Exposed(k)

-----------------------------------------------------------------------------
LEMMA Sides ==
  ASSUME SlotsAssumption
  PROVE  /\ Source \in Side /\ Target \in Side /\ Source # Target
         /\ Source # Nil /\ Target # Nil /\ \A n \in Side : n = Source \/ n = Target
BY DEF SlotsAssumption, Side, Source, Target

\* The source has no key of the slot when it counts none.
LEMMA NoKeys ==
  ASSUME SlotsAssumption, CountKeysInSlot(Source) = 0
  PROVE  \A k \in Key : db[Source][k] = Nil
<1>1. IsFiniteSet({k \in Key : db[Source][k] # Nil}) BY FS_Subset DEF SlotsAssumption
<1>2. {k \in Key : db[Source][k] # Nil} = {} BY <1>1, FS_EmptySet DEF CountKeysInSlot
<1> QED BY <1>2

LEMMA SlotsInitSound ==
  ASSUME SlotsAssumption
  PROVE  SlotInit => SlotsInv
<1> SUFFICES ASSUME SlotInit PROVE SlotsInv OBVIOUS
<1> USE DEF SlotInit
<1>1. MoveInv BY Sides DEF MoveInv, Side, Source, Target
<1>2. DataInv /\ TruthInv
  BY Sides DEF DataInv, TruthInv, Right, Cell, Copied, SlotsAssumption
<1>3. QuietInv BY Sides DEF QuietInv
<1>4. InboxInv BY DEF InboxInv
<1>5. ClientInv BY DEF ClientInv
<1> QED BY <1>1, <1>2, <1>3, <1>4, <1>5 DEF SlotsInv

\* The slot is marked in one of the nodes.
LEMMA MarkSound ==
  ASSUME SlotsAssumption, SlotsInv, SetSlotMigrating \/ SetSlotImporting
  PROVE  SlotsInv'
<1>1. CASE SetSlotMigrating
  <2> USE <1>1 DEF SetSlotMigrating, SlotsInv
  <2>1. /\ migrating' \in [Side -> Side \cup {Nil}] /\ migrating'[Source] = Target
        /\ migrating'[Target] = Nil
    BY Sides DEF MoveInv
  <2>2. MoveInv' BY <2>1, Sides DEF MoveInv
  <2>3. QuietInv' BY <2>1, Sides DEF QuietInv, Untouched
  <2>4. DataInv' /\ InboxInv' /\ TruthInv' /\ ClientInv'
    BY DEF DataInv, InboxInv, TruthInv, Right, Exposed, Copied, ClientInv
  <2> QED BY <2>2, <2>3, <2>4 DEF Exposed
<1>2. CASE SetSlotImporting
  <2> USE <1>2 DEF SetSlotImporting, SlotsInv
  <2>1. importing' \in [Side -> Side \cup {Nil}] /\ importing'[Source] = Nil
    BY Sides DEF MoveInv
  <2>2. MoveInv' BY <2>1 DEF MoveInv
  <2>3. QuietInv' BY DEF QuietInv, Untouched
  <2>4. DataInv' /\ InboxInv' /\ TruthInv' /\ ClientInv'
    BY DEF DataInv, InboxInv, TruthInv, Right, Exposed, Copied, ClientInv
  <2> QED BY <2>2, <2>3, <2>4 DEF Exposed
<1> QED BY <1>1, <1>2

\* The slot is assigned: all keys have moved.
LEMMA AssignSound ==
  ASSUME SlotsAssumption, SlotsInv, NEW n \in Side, SetSlotNode(n)
  PROVE  SlotsInv'
<1> USE DEF SlotsInv
<1>1. \A k \in Key : db[Source][k] = Nil BY NoKeys DEF SetSlotNode
<1>2. /\ slots' = [slots EXCEPT ![n] = Target] /\ slots[n] # Target
      /\ UNCHANGED <<db, inbox, moving, reply, asked, latest, stale, writes, timeouts, inDoubt, uncovered>>
  BY DEF SetSlotNode
<1>3. /\ migrating' \in [Side -> Side \cup {Nil}] /\ migrating'[Source] \in {Target, Nil}
      /\ migrating'[Target] = Nil
      /\ n # Source => migrating'[Source] = migrating[Source]
  BY Sides DEF SetSlotNode, MoveInv
<1>4. importing' \in [Side -> Side \cup {Nil}] /\ importing'[Source] = Nil
  BY Sides DEF SetSlotNode, MoveInv
<1>5. /\ configEpoch' \in [Side -> Nat]
      /\ slots'[Target] = Target => configEpoch'[Target] > configEpoch'[Source]
  <2>1. CASE n = Source
    <3>1. slots'[Target] = slots[Target] BY <1>2, <2>1, Sides DEF MoveInv
    <3>2. configEpoch' = configEpoch BY <2>1, Sides DEF SetSlotNode
    <3> QED BY <3>1, <3>2 DEF MoveInv
  <2>2. CASE n = Target
    <3>1. importing[Target] # Nil BY <1>2, <2>2 DEF SetSlotNode
    <3>2. configEpoch' = [configEpoch EXCEPT ![Target] = BumpedEpoch]
      BY <2>2, <3>1 DEF SetSlotNode
    <3>3. configEpoch[Source] \in Nat /\ configEpoch[Target] \in Nat BY Sides DEF MoveInv
    <3>4. BumpedEpoch \in Nat /\ BumpedEpoch > configEpoch[Source]
      BY <3>3 DEF BumpedEpoch
    <3> QED BY <3>2, <3>4, Sides DEF MoveInv
  <2> QED BY <2>1, <2>2, Sides
<1>6. slots' \in [Side -> Side] BY <1>2, Sides DEF MoveInv
<1>7. slots'[Target] = Target /\ slots'[Source] = Source => migrating'[Source] # Nil
  <2>1. CASE n = Source BY <1>2, <2>1, Sides DEF MoveInv
  <2>2. CASE n = Target
    <3>1. slots'[Source] = slots[Source] BY <1>2, <2>2, Sides DEF MoveInv
    <3>2. migrating[Source] # Nil \/ slots[Source] = Target BY DEF SetSlotNode
    <3> QED BY <1>3, <2>2, <3>1, <3>2, Sides
  <2> QED BY <2>1, <2>2, Sides
<1>8. MoveInv' BY <1>3, <1>4, <1>5, <1>6, <1>7 DEF MoveInv
<1>9. DataInv' BY <1>1, <1>2 DEF DataInv
<1>10. QuietInv'
  <2>1. CASE n = Source BY <1>2, <2>1, Sides DEF MoveInv, QuietInv, Untouched
  <2>2. CASE n = Target BY <1>2, <1>7, <2>2, Sides DEF MoveInv, QuietInv, Untouched
  <2> QED BY <2>1, <2>2, Sides
<1>11. InboxInv' /\ TruthInv' /\ ClientInv'
  BY <1>2 DEF InboxInv, TruthInv, Right, Exposed, Copied, ClientInv
<1> QED BY <1>2, <1>8, <1>9, <1>10, <1>11 DEF Exposed

\* The marks are taken away once the slot is assigned.
LEMMA StableSound ==
  ASSUME SlotsAssumption, SlotsInv, NEW n \in Side, SetSlotStable(n)
  PROVE  SlotsInv'
<1> USE DEF SlotsInv
<1>1. /\ slots[Source] = Target /\ slots[Target] = Target
      /\ importing' = [importing EXCEPT ![n] = Nil]
      /\ migrating' = [migrating EXCEPT ![n] = Nil]
      /\ UNCHANGED <<slots, configEpoch, db, inbox, moving, reply, asked, latest, stale,
                     writes, timeouts, inDoubt, uncovered>>
  BY Sides DEF SetSlotStable
<1>2. MoveInv' BY <1>1, Sides DEF MoveInv
<1>3. QuietInv' BY <1>1, Sides DEF QuietInv, Untouched
<1>4. DataInv' /\ InboxInv' /\ TruthInv' /\ ClientInv'
  BY <1>1 DEF DataInv, InboxInv, TruthInv, Right, Exposed, Copied, ClientInv
<1> QED BY <1>1, <1>2, <1>3, <1>4 DEF Exposed

\* The source hears of the target's claim, which is the newer one; never the
\* other way round.
LEMMA AnnounceSound ==
  ASSUME SlotsAssumption, SlotsInv,
         Announce(Source, Target) \/ Announce(Target, Source)
  PROVE  SlotsInv'
<1> USE DEF SlotsInv
<1>1. ~Announce(Source, Target)
  <2> SUFFICES ASSUME Announce(Source, Target) PROVE FALSE OBVIOUS
  <2>1. slots[Target] = Target BY Sides DEF Announce, MoveInv
  <2>2. configEpoch[Target] < configEpoch[Source] BY <2>1 DEF Announce
  <2>3. configEpoch[Target] \in Nat /\ configEpoch[Source] \in Nat BY Sides DEF MoveInv
  <2> QED BY <2>1, <2>2, <2>3 DEF MoveInv
<1>2. Announce(Target, Source) BY <1>1
<1>3. /\ slots[Target] = Target /\ slots[Source] = Source /\ moving = Nil
      /\ slots' = [slots EXCEPT ![Source] = Target]
      /\ UNCHANGED <<importing, migrating, configEpoch, inbox, moving, reply, asked, latest,
                     stale, writes, timeouts, inDoubt, uncovered>>
  BY <1>2, Sides DEF Announce, MoveInv
<1>4. \A k \in Key : db[Source][k] = Nil BY <1>3 DEF DataInv
<1>5. db' = db
  <2>1. db' = [db EXCEPT ![Source] = [k \in Key |-> Nil]] BY <1>2, <1>3 DEF Announce
  <2>2. db[Source] \in [Key -> Cell] BY Sides DEF DataInv
  <2>3. db[Source] = [k \in Key |-> Nil] BY <1>4, <2>2
  <2> QED BY <2>1, <2>3 DEF DataInv
<1>6. slots' \in [Side -> Side] /\ slots'[Source] = Target /\ slots'[Target] = Target
  BY <1>3, Sides DEF MoveInv
<1>7. MoveInv' BY <1>3, <1>6, Sides DEF MoveInv
<1>8. DataInv' BY <1>3, <1>4, <1>5 DEF DataInv
<1>9. QuietInv' BY <1>6, Sides DEF QuietInv, Untouched
<1>10. InboxInv' /\ TruthInv' /\ ClientInv'
  BY <1>3, <1>5 DEF InboxInv, TruthInv, Right, Exposed, Copied, ClientInv
<1> QED BY <1>3, <1>7, <1>8, <1>9, <1>10 DEF Exposed

-----------------------------------------------------------------------------
(* MIGRATE and RESTORE *)

LEMMA MigrateSound ==
  ASSUME SlotsAssumption, SlotsInv, NEW k \in Key, Migrate(k)
  PROVE  SlotsInv'
<1> USE DEF SlotsInv
<1>1. PICK r : r = [key |-> k, value |-> db[Source][k], open |-> TRUE] OBVIOUS
<1>2. /\ moving = Nil /\ migrating[Source] # Nil /\ db[Source][k] # Nil
      /\ inbox' = Append(inbox, r) /\ moving' = k
      /\ UNCHANGED <<slots, importing, migrating, configEpoch, db, reply, asked, latest,
                     stale, writes, timeouts, inDoubt, uncovered>>
  BY <1>1 DEF Migrate
<1>3. r \in Message BY <1>1, Sides DEF Message, DataInv
<1>4. inbox \in Seq(Message) /\ reply = "none" BY <1>2 DEF InboxInv
<1>5. /\ inbox' \in Seq(Message) /\ Len(inbox') = Len(inbox) + 1
      /\ inbox'[Len(inbox')] = r
      /\ \A i \in 1..Len(inbox) : inbox'[i] = inbox[i]
  BY <1>2, <1>3, <1>4
<1>6. \A i \in 1..Len(inbox) : ~inbox[i].open
  <2>1. ASSUME NEW i \in 1..Len(inbox) PROVE inbox[i].key \in Key
    <3>1. inbox[i] \in Message BY <1>4
    <3> QED BY <3>1 DEF Message
  <2> QED BY <1>2, <2>1 DEF InboxInv, SlotsAssumption
<1>7. InboxInv'
  <2>1. ASSUME NEW i \in 1..Len(inbox')
        PROVE  /\ db[Source][inbox'[i].key] # Nil \/ Exposed(inbox[i].key)'
               /\ inbox'[i].open => /\ i = Len(inbox') /\ k = inbox'[i].key
                                    /\ inbox'[i].value = db[Source][k]
               /\ ~inbox'[i].open => inbox'[i].key \in inDoubt
    <3>1. CASE i = Len(inbox') BY <1>1, <1>2, <1>5, <3>1
    <3>2. CASE i # Len(inbox')
      <4>1. i \in 1..Len(inbox) BY <1>4, <1>5, <3>2
      <4> QED BY <1>2, <1>5, <1>6, <4>1 DEF InboxInv, Exposed
    <3> QED BY <3>1, <3>2
  <2> QED BY <1>2, <1>4, <1>5, <2>1 DEF InboxInv, SlotsAssumption
<1>8. MoveInv' /\ DataInv' /\ ClientInv' BY <1>2 DEF MoveInv, DataInv, ClientInv
<1>9. QuietInv' BY <1>2 DEF QuietInv, Untouched
<1>10. TruthInv' BY <1>2, <1>4 DEF TruthInv, Right, Exposed, Copied
<1> QED BY <1>2, <1>7, <1>8, <1>9, <1>10 DEF Exposed

\* What is left of the inbox when its head is gone.
LEMMA TailFacts ==
  ASSUME NEW q \in Seq(Message), q # <<>>
  PROVE  /\ Tail(q) \in Seq(Message) /\ Len(Tail(q)) = Len(q) - 1 /\ Len(q) \in Nat
         /\ Len(q) > 0
         /\ Head(q) = q[1] /\ q[1] \in Message
         /\ \A i \in 1..Len(Tail(q)) : Tail(q)[i] = q[i + 1] /\ i + 1 \in 1..Len(q)
OBVIOUS

\* A message is read: the conjunct of InboxInv about those that stay.
LEMMA InboxTail ==
  ASSUME SlotsAssumption, InboxInv, inbox # <<>>, inbox' = Tail(inbox),
         UNCHANGED <<moving, inDoubt, uncovered>>, db'[Source] = db[Source]
  PROVE  /\ inbox' \in Seq(Message)
         /\ \A i \in 1..Len(inbox') :
              /\ db'[Source][inbox'[i].key] # Nil \/ Exposed(inbox[i].key)'
              /\ inbox'[i].open => /\ i = Len(inbox') /\ moving' = inbox'[i].key
                                   /\ inbox'[i].value = db'[Source][moving']
              /\ ~inbox'[i].open => inbox'[i].key \in inDoubt'
<1>1. inbox \in Seq(Message) BY DEF InboxInv
<1>2. /\ inbox' \in Seq(Message) /\ Len(inbox') = Len(inbox) - 1 /\ Len(inbox) \in Nat
      /\ \A i \in 1..Len(inbox') : inbox'[i] = inbox[i + 1] /\ i + 1 \in 1..Len(inbox)
  BY <1>1, TailFacts
<1>3. ASSUME NEW i \in 1..Len(inbox')
      PROVE  /\ db'[Source][inbox'[i].key] # Nil \/ Exposed(inbox[i].key)'
             /\ inbox'[i].open => /\ i = Len(inbox') /\ moving' = inbox'[i].key
                                  /\ inbox'[i].value = db'[Source][moving']
             /\ ~inbox'[i].open => inbox'[i].key \in inDoubt'
  <2>1. inbox'[i] = inbox[i + 1] /\ i + 1 \in 1..Len(inbox) BY <1>2
  <2>2. /\ db[Source][inbox[i + 1].key] # Nil \/ Exposed(inbox[i + 1].key)
        /\ inbox[i + 1].open => /\ i + 1 = Len(inbox) /\ moving = inbox[i + 1].key
                                /\ inbox[i + 1].value = db[Source][moving]
        /\ ~inbox[i + 1].open => inbox[i + 1].key \in inDoubt
    BY <2>1 DEF InboxInv
  <2>3. /\ moving' = moving /\ inDoubt' = inDoubt /\ uncovered' = uncovered
        /\ db'[Source] = db[Source]
    OBVIOUS
  <2>4. i + 1 = Len(inbox) => i = Len(inbox')
    <3>1. PICK l \in Nat : l = Len(inbox) BY <1>2
    <3>2. Len(inbox') = l - 1 BY <1>2, <3>1
    <3>3. i \in 1..(l - 1) BY <3>2
    <3>4. i + 1 = l => i = l - 1 BY <3>3
    <3> QED BY <3>1, <3>2, <3>4
  <2>5. db'[Source][inbox'[i].key] # Nil \/ Exposed(inbox[i].key)'
    BY <2>1, <2>2, <2>3 DEF Exposed
  <2>6. inbox'[i].open => inbox'[i].value = db'[Source][moving']
    BY <2>1, <2>2, <2>3
  <2>7. inbox'[i].open => i = Len(inbox') /\ moving' = inbox'[i].key
    BY <2>1, <2>2, <2>3, <2>4
  <2>8. ~inbox'[i].open => inbox'[i].key \in inDoubt' BY <2>1, <2>2, <2>3
  <2> QED BY <2>5, <2>6, <2>7, <2>8
<1> QED BY <1>2, <1>3

LEMMA RestoreSound ==
  ASSUME SlotsAssumption, SlotsInv, Restore
  PROVE  SlotsInv'
<1> USE DEF SlotsInv
<1>1. PICK r : r = Head(inbox) OBVIOUS
<1>2. PICK done \in BOOLEAN :
        done <=> /\ importing[Target] # Nil \/ slots[Target] = Target
                 /\ db[Target][r.key] = Nil
  OBVIOUS
<1>3. /\ inbox # <<>> /\ inbox' = Tail(inbox)
      /\ db' = IF done THEN [db EXCEPT ![Target][r.key] = r.value] ELSE db
      /\ reply' = IF r.open THEN (IF done THEN "ok" ELSE "error") ELSE reply
      /\ UNCHANGED <<slots, importing, migrating, configEpoch, moving, asked, latest, stale,
                     writes, timeouts, inDoubt, uncovered>>
  BY <1>1, <1>2 DEF Restore
<1>4. inbox \in Seq(Message) BY DEF InboxInv
<1>5. r \in Message /\ r = inbox[1] /\ 1 \in 1..Len(inbox) /\ Len(inbox) \in Nat
  BY <1>1, <1>3, <1>4, TailFacts
<1>6. r.key \in Key /\ r.value \in Cell /\ r.open \in BOOLEAN BY <1>5 DEF Message
<1>7. /\ db[Source][r.key] # Nil \/ Exposed(r.key)
      /\ ~r.open => r.key \in inDoubt
      /\ r.open => Len(inbox) = 1 /\ moving = r.key /\ r.value = db[Source][r.key]
  BY <1>5 DEF InboxInv
<1>8. reply = "none" BY <1>3 DEF InboxInv
<1>9. /\ db' \in [Side -> [Key -> Cell]] /\ db'[Source] = db[Source]
      /\ \A k \in Key : db'[Target][k] = IF done /\ k = r.key THEN r.value ELSE db[Target][k]
  <2>1. CASE done
    BY <1>3, <1>6, <2>1, Sides DEF DataInv
  <2>2. CASE ~done BY <1>3, <2>2 DEF DataInv
  <2> QED BY <2>1, <2>2
<1>10. ~Untouched BY <1>3 DEF QuietInv
<1>11. MoveInv' BY <1>3 DEF MoveInv
<1>12. DataInv' BY <1>3, <1>9 DEF DataInv
<1>13. QuietInv' BY <1>3, <1>10 DEF QuietInv, Untouched
<1>14. InboxInv'
  <2>1. /\ inbox' \in Seq(Message)
        /\ \A i \in 1..Len(inbox') :
             /\ db'[Source][inbox'[i].key] # Nil \/ Exposed(inbox[i].key)'
             /\ inbox'[i].open => /\ i = Len(inbox') /\ moving' = inbox'[i].key
                                  /\ inbox'[i].value = db'[Source][moving']
             /\ ~inbox'[i].open => inbox'[i].key \in inDoubt'
    BY <1>3, <1>9, InboxTail
  <2>2. r.open => inbox' = <<>> BY <1>3, <1>4, <1>7, TailFacts
  <2>3. /\ moving' = Nil => reply' = "none"
        /\ reply' # "none" => inbox' = <<>>
        /\ reply' \in {"none", "ok", "error"}
    BY <1>3, <1>6, <1>7, <1>8, <2>2 DEF SlotsAssumption
  <2> QED BY <1>3, <1>9, <2>1, <2>3 DEF InboxInv
<1>15. TruthInv'
  <2>1. ASSUME NEW k \in Key, ~Exposed(k)'
        PROVE  Right(k)'
    <3>0. ~Copied(k) /\ ~Exposed(k) /\ Right(k)
      BY <1>3, <1>8, <2>1 DEF Copied, TruthInv, Exposed
    <3>1. CASE k # r.key
      <4>1. db'[Target][k] = db[Target][k] /\ db'[Source][k] = db[Source][k]
        BY <1>9, <3>1
      <4>2. ~Copied(k)' BY <1>3, <1>7, <1>8, <3>1 DEF Copied
      <4> QED BY <1>3, <3>0, <4>1, <4>2 DEF Right
    <3>2. CASE k = r.key
      <4>1. db'[Source][k] # Nil /\ latest[k] = db[Source][k] /\ db'[Source][k] = db[Source][k]
        BY <1>7, <1>9, <3>0, <3>2 DEF Right
      <4>2. Copied(k)' <=> r.open /\ done BY <1>3, <1>7, <1>8, <3>2 DEF Copied
      <4>3. Copied(k)' => latest'[k] = db'[Target][k]
        BY <1>3, <1>7, <1>9, <3>2, <4>1, <4>2
      <4>4. k \notin inDoubt' /\ ~Copied(k)' => db'[Target][k] = Nil
        BY <1>3, <1>7, <1>9, <3>0, <3>2, <4>1, <4>2 DEF Right
      <4> QED BY <1>3, <4>1, <4>3, <4>4 DEF Right
    <3> QED BY <3>1, <3>2
  <2> QED BY <2>1 DEF TruthInv
<1>16. ClientInv' BY <1>3, <1>9 DEF ClientInv
<1> QED BY <1>3, <1>11, <1>12, <1>13, <1>14, <1>15, <1>16 DEF Exposed

\* The source deletes the key when the target took it.
LEMMA EndSound ==
  ASSUME SlotsAssumption, SlotsInv, MigrateEnds
  PROVE  SlotsInv'
<1> USE DEF SlotsInv
<1>1. /\ reply # "none" /\ moving' = Nil /\ reply' = "none"
      /\ db' = IF reply = "ok" THEN [db EXCEPT ![Source][moving] = Nil] ELSE db
      /\ UNCHANGED <<slots, importing, migrating, configEpoch, inbox, asked, latest, stale,
                     writes, timeouts, inDoubt, uncovered>>
  BY DEF MigrateEnds
<1>2. moving \in Key /\ inbox = <<>> BY <1>1 DEF InboxInv
<1>3. /\ db' \in [Side -> [Key -> Cell]] /\ db'[Target] = db[Target]
      /\ \A k \in Key : db'[Source][k] = IF Copied(k) THEN Nil ELSE db[Source][k]
  <2>1. CASE reply = "ok" BY <1>1, <1>2, <2>1, Sides DEF DataInv, Cell, Copied
  <2>2. CASE reply # "ok" BY <1>1, <2>2 DEF DataInv, Copied
  <2> QED BY <2>1, <2>2
<1>4. \A k \in Key : ~Copied(k)' BY <1>1 DEF Copied
<1>5. MoveInv' BY <1>1 DEF MoveInv
<1>6. DataInv' BY <1>1, <1>3 DEF DataInv
<1>7. QuietInv' BY <1>1, <1>3 DEF QuietInv, Untouched
<1>8. InboxInv' BY <1>1, <1>2 DEF InboxInv
<1>9. TruthInv'
  <2>1. ASSUME NEW k \in Key, ~Exposed(k)'
        PROVE  Right(k)'
    <3>1. Right(k) BY <1>1, <2>1 DEF TruthInv, Exposed
    <3> QED BY <1>1, <1>3, <1>4, <3>1 DEF Right
  <2> QED BY <2>1 DEF TruthInv
<1>10. ClientInv'
  <2>1. \A k \in Key : db[Source][k] = Nil => db'[Source][k] = Nil BY <1>3
  <2>2. \A c \in Client : asked[c] # Nil => asked[c].keys \subseteq Key
    BY DEF ClientInv, Request
  <2> QED BY <1>1, <2>1, <2>2 DEF ClientInv
<1> QED BY <1>1, <1>5, <1>6, <1>7, <1>8, <1>9, <1>10 DEF Exposed

\* The connection is closed; the source keeps its key.
LEMMA TimeoutSound ==
  ASSUME SlotsAssumption, SlotsInv, MigrateTimesOut
  PROVE  SlotsInv'
<1> USE DEF SlotsInv
<1>1. /\ moving # Nil /\ moving' = Nil /\ reply' = "none"
      /\ inDoubt' = inDoubt \cup {moving}
      /\ timeouts' = timeouts + 1
      /\ inbox' = [i \in DOMAIN inbox |-> [inbox[i] EXCEPT !.open = FALSE]]
      /\ UNCHANGED <<slots, importing, migrating, configEpoch, db, asked, latest, stale,
                     writes, uncovered>>
  BY DEF MigrateTimesOut
<1>2. inbox \in Seq(Message) BY DEF InboxInv
<1>3. /\ inbox' \in Seq(Message) /\ Len(inbox') = Len(inbox)
      /\ \A i \in 1..Len(inbox) : inbox'[i].key = inbox[i].key /\ ~inbox'[i].open
  <2>1. DOMAIN inbox = 1..Len(inbox) /\ Len(inbox) \in Nat BY <1>2
  <2>2. \A i \in 1..Len(inbox) : inbox[i] \in Message BY <1>2
  <2>3. \A i \in 1..Len(inbox) :
          /\ inbox'[i] \in Message /\ inbox'[i].key = inbox[i].key /\ ~inbox'[i].open
    BY <1>1, <2>1, <2>2 DEF Message
  <2>4. inbox' \in [1..Len(inbox) -> Message]
    <3>1. inbox' = [i \in 1..Len(inbox) |-> [inbox[i] EXCEPT !.open = FALSE]] BY <1>1, <2>1
    <3>2. \A i \in 1..Len(inbox) : [inbox[i] EXCEPT !.open = FALSE] \in Message
      BY <2>2 DEF Message
    <3> QED BY <3>1, <3>2
  <2> QED BY <2>1, <2>3, <2>4
<1>4. MoveInv' /\ DataInv' /\ ClientInv' BY <1>1 DEF MoveInv, DataInv, ClientInv
<1>5. QuietInv' BY <1>1 DEF QuietInv, Untouched
<1>6. InboxInv'
  <2>1. ASSUME NEW i \in 1..Len(inbox)
        PROVE  /\ db'[Source][inbox'[i].key] # Nil \/ Exposed(inbox[i].key)'
               /\ inbox'[i].key \in inDoubt'
    <3>1. /\ db[Source][inbox[i].key] # Nil \/ Exposed(inbox[i].key)
          /\ inbox[i].open => moving = inbox[i].key
          /\ ~inbox[i].open => inbox[i].key \in inDoubt
      BY DEF InboxInv
    <3> QED BY <1>1, <1>3, <3>1 DEF Exposed
  <2> QED BY <1>1, <1>3, <2>1 DEF InboxInv
<1>7. TruthInv'
  <2>1. ASSUME NEW k \in Key, ~Exposed(k)'
        PROVE  Right(k)'
    <3>1. Right(k) /\ (k = moving => k \notin uncovered)
      BY <1>1, <2>1 DEF TruthInv, Exposed
    <3>2. ~Copied(k)' BY <1>1 DEF Copied
    <3>3. k = moving => db[Source][k] # Nil BY <1>1 DEF InboxInv
    <3>4. CASE k = moving BY <1>1, <3>1, <3>2, <3>3, <3>4 DEF Right
    <3>5. CASE k # moving
      <4>1. ~Copied(k) BY <3>5 DEF Copied
      <4> QED BY <1>1, <3>1, <3>2, <3>5, <4>1 DEF Right
    <3> QED BY <3>4, <3>5
  <2> QED BY <2>1 DEF TruthInv
<1>8. timeouts' \in Nat BY <1>1
<1>9. \A k \in stale' : Exposed(k)' BY <1>1 DEF Exposed
<1> QED BY <1>1, <1>4, <1>5, <1>6, <1>7, <1>8, <1>9

LEMMA LoseSound ==
  ASSUME SlotsAssumption, SlotsInv, LoseRestore
  PROVE  SlotsInv'
<1> USE DEF SlotsInv
<1>1. /\ inbox # <<>> /\ inbox' = Tail(inbox)
      /\ UNCHANGED <<slots, importing, migrating, configEpoch, db, moving, reply, asked,
                     latest, stale, writes, timeouts, inDoubt, uncovered>>
  BY DEF LoseRestore
<1>2. InboxInv'
  <2>1. /\ inbox' \in Seq(Message)
        /\ \A i \in 1..Len(inbox') :
             /\ db'[Source][inbox'[i].key] # Nil \/ Exposed(inbox[i].key)'
             /\ inbox'[i].open => /\ i = Len(inbox') /\ moving' = inbox'[i].key
                                  /\ inbox'[i].value = db'[Source][moving']
             /\ ~inbox'[i].open => inbox'[i].key \in inDoubt'
    BY <1>1, InboxTail
  <2>2. reply = "none" BY <1>1 DEF InboxInv
  <2> QED BY <1>1, <2>1, <2>2 DEF InboxInv
<1>3. MoveInv' /\ DataInv' /\ ClientInv' BY <1>1 DEF MoveInv, DataInv, ClientInv
<1>4. QuietInv' BY <1>1 DEF QuietInv, Untouched
<1>5. TruthInv' BY <1>1 DEF TruthInv, Right, Exposed, Copied
<1> QED BY <1>1, <1>2, <1>3, <1>4, <1>5 DEF Exposed

-----------------------------------------------------------------------------
(* Clients *)

\* A client asks a node of its choice.
LEMMA AskSound ==
  ASSUME SlotsAssumption, SlotsInv, NEW c \in Client, NEW n \in Side, NEW r \in Requests,
         Ask(c, n, r)
  PROVE  SlotsInv'
<1> USE DEF SlotsInv
<1>1. PICK q : q = [op |-> r.op, keys |-> r.keys, at |-> n, asking |-> FALSE,
                    value |-> IF r.op = "set" THEN writes + 1 ELSE Nil]
  OBVIOUS
<1>2. /\ asked[c] = Nil /\ asked' = [asked EXCEPT ![c] = q]
      /\ writes' = IF r.op = "set" THEN writes + 1 ELSE writes
      /\ UNCHANGED <<slots, importing, migrating, configEpoch, db, inbox, moving, reply,
                     latest, stale, timeouts, inDoubt, uncovered>>
  BY <1>1 DEF Ask
<1>3. /\ r.op \in {"get", "set", "del"} /\ r.keys \subseteq Key
      /\ (\E k \in Key : r.keys = {k}) \/ r.keys = Key
  <2>1. CASE r \in [op : {"get", "set"}, keys : {{k} : k \in Key} \cup {Key}] BY <2>1
  <2>2. CASE r \in [op : {"del"}, keys : {{k} : k \in Key}] BY <2>2
  <2> QED BY <2>1, <2>2 DEF Requests
<1>4. writes + 1 \in Nat /\ writes + 1 # Nil BY DEF SlotsAssumption
<1>5. q \in Request BY <1>1, <1>3, <1>4 DEF Request, Cell
<1>6. /\ q.op = r.op /\ q.keys = r.keys /\ ~q.asking
      /\ q.op = "set" => q.value # Nil
      /\ q.op = "del" => q.value = Nil
  BY <1>1, <1>4
<1>7. /\ asked' \in [Client -> Request \cup {Nil}] /\ asked'[c] = q
      /\ \A d \in Client : d # c => asked'[d] = asked[d]
  BY <1>2, <1>5 DEF ClientInv
<1>8. ClientInv'
  <2>1. ASSUME NEW d \in Client, asked'[d] # Nil
        PROVE  /\ asked'[d].op = "set" => asked'[d].value # Nil
               /\ asked'[d].op = "del" => asked'[d].value = Nil
               /\ (\E k \in Key : asked'[d].keys = {k}) \/ asked'[d].keys = Key
               /\ asked'[d].asking => /\ asked'[d].at = Target
                                      /\ \E k \in asked'[d].keys : db[Source][k] = Nil
    <3>1. CASE d = c BY <1>3, <1>6, <1>7, <3>1
    <3>2. CASE d # c BY <1>7, <2>1, <3>2 DEF ClientInv
    <3> QED BY <3>1, <3>2
  <2> QED BY <1>2, <1>7, <2>1 DEF ClientInv
<1>9. QuietInv'
  <2>1. Untouched' => Untouched BY <1>2 DEF Untouched
  <2>2. Untouched => \A d \in Client : asked'[d] # Nil => ~asked'[d].asking
    BY <1>6, <1>7 DEF QuietInv
  <2> QED BY <1>2, <2>1, <2>2 DEF QuietInv
<1>10. MoveInv' /\ DataInv' /\ InboxInv' /\ TruthInv'
  BY <1>2 DEF MoveInv, DataInv, InboxInv, TruthInv, Right, Exposed, Copied
<1>11. writes' \in Nat BY <1>2, <1>4
<1> QED BY <1>2, <1>8, <1>9, <1>10, <1>11 DEF Exposed

\* What the source may serve: it is right about the keys, and the target has
\* none of them unless a MIGRATE timed out.
LEMMA SourceServes ==
  ASSUME SlotsAssumption, SlotsInv, NEW keys \in SUBSET Key, NEW asking \in BOOLEAN,
         keys # {}, moving = Nil, getNodeByQuery(Source, keys, asking) = "serve"
  PROVE  /\ slots[Source] = Source /\ slots[Target] # Target
         /\ Untouched \/ \A k \in keys : db[Source][k] # Nil
         /\ \A k \in keys : Exposed(k) \/
              /\ db[Source][k] = latest[k]
              /\ k \notin inDoubt \/ db[Source][k] = Nil => db[Target][k] = Nil
<1> USE DEF SlotsInv
<1>1. importing[Source] = Nil BY DEF MoveInv
<1>2. slots[Source] = Source /\ (migrating[Source] = Nil \/ Missing(Source, keys) = {})
  BY <1>1 DEF getNodeByQuery
<1>3. Untouched \/ \A k \in keys : db[Source][k] # Nil BY <1>2 DEF Untouched, Missing
<1>4. slots[Target] # Target
  <2> SUFFICES ASSUME slots[Target] = Target PROVE FALSE OBVIOUS
  <2>1. migrating[Source] # Nil BY <1>2 DEF MoveInv
  <2>2. \A k \in Key : db[Source][k] = Nil BY DEF DataInv
  <2> QED BY <1>2, <2>1, <2>2 DEF Missing
<1>5. \A k \in Key : ~Copied(k) BY DEF Copied, SlotsAssumption
<1>6. ASSUME NEW k \in keys, ~Exposed(k)
      PROVE  /\ db[Source][k] = latest[k]
             /\ k \notin inDoubt \/ db[Source][k] = Nil => db[Target][k] = Nil
  <2>0. Right(k) BY <1>6 DEF TruthInv
  <2>1. CASE db[Source][k] # Nil BY <1>5, <2>0, <2>1 DEF Right
  <2>2. CASE db[Source][k] = Nil
    <3>1. db[Target][k] = Nil BY <1>3, <2>2 DEF QuietInv
    <3> QED BY <2>0, <2>2, <3>1 DEF Right
  <2> QED BY <2>1, <2>2
<1> QED BY <1>2, <1>3, <1>4, <1>6

\* What the target may serve: the keys have moved, or are about to be deleted in
\* the source, or the request uncovers a copy that a timeout left.
LEMMA TargetServes ==
  ASSUME SlotsAssumption, SlotsInv, NEW c \in Client, asked[c] # Nil, asked[c].at = Target,
         getNodeByQuery(Target, asked[c].keys, asked[c].asking) = "serve"
  PROVE  /\ ~Untouched
         /\ \A k \in asked[c].keys :
              \/ k \in inDoubt /\ k \in uncovered \cup Uncovers(asked[c])
              \/ /\ db[Source][k] = Nil \/ (Copied(k) /\ k \in Uncovers(asked[c]))
                 /\ db[Target][k] = latest[k]
<1> USE DEF SlotsInv
<1>0. PICK keys : keys = asked[c].keys OBVIOUS
<1>1. asked[c] \in Request BY DEF ClientInv
<1>2. keys \subseteq Key BY <1>0, <1>1 DEF Request
<1>3. ~Untouched /\ \A k \in keys : db[Source][k] = Nil \/ Copied(k) \/ k \in inDoubt
  <2>1. CASE slots[Target] = Target
    BY <1>2, <2>1, Sides DEF DataInv, MoveInv, Untouched
  <2>2. CASE slots[Target] # Target
    <3>1. /\ asked[c].asking
          /\ ~(Cardinality(keys) > 1 /\ Missing(Target, keys) # {})
      BY <1>0, <2>2 DEF getNodeByQuery
    <3>2. PICK j \in keys : db[Source][j] = Nil BY <1>0, <3>1 DEF ClientInv
    <3>3. ~Untouched BY <3>1 DEF QuietInv
    <3>4. (\E k \in Key : keys = {k}) \/ keys = Key BY <1>0 DEF ClientInv
    <3>5. CASE \E k \in Key : keys = {k} BY <3>2, <3>3, <3>5
    <3>6. CASE Missing(Target, keys) = {}
      <4>1. \A k \in keys : db[Target][k] # Nil BY <3>6 DEF Missing
      <4> QED BY <1>2, <3>3, <3>6, <4>1 DEF TruthInv, Right, Exposed
    <3>7. CASE keys = Key /\ Missing(Target, keys) # {}
      <4>1. IsFiniteSet(keys) BY <3>7 DEF SlotsAssumption
      <4>2. Cardinality(keys) \in Nat /\ ~(Cardinality(keys) > 1)
        BY <3>1, <3>7, <4>1, FS_CardinalityType
      <4>3. ASSUME NEW k \in keys PROVE k = j
        <5> SUFFICES ASSUME k # j PROVE FALSE OBVIOUS
        <5>1. IsFiniteSet({j}) /\ Cardinality({j}) = 1 BY FS_Singleton
        <5>2. IsFiniteSet({j} \cup {k}) /\ Cardinality({j} \cup {k}) = Cardinality({j}) + 1
          BY <5>1, FS_AddElement
        <5>3. Cardinality({j} \cup {k}) <= Cardinality(keys)
          <6>1. {j} \cup {k} \subseteq keys OBVIOUS
          <6> QED BY <4>1, <6>1, FS_Subset
        <5> QED BY <4>2, <5>1, <5>2, <5>3
      <4> QED BY <3>2, <3>3, <4>3
    <3> QED BY <3>4, <3>5, <3>6, <3>7
  <2> QED BY <2>1, <2>2
<1>4. ASSUME NEW k \in keys, ~(k \in inDoubt /\ k \in uncovered \cup Uncovers(asked[c]))
      PROVE  /\ db[Source][k] = Nil \/ (Copied(k) /\ k \in Uncovers(asked[c]))
             /\ db[Target][k] = latest[k]
  <2>1. Right(k) BY <1>2, <1>4 DEF TruthInv, Exposed
  <2>2. db[Source][k] # Nil /\ (k \in inDoubt \/ moving = k) => k \in Uncovers(asked[c])
    BY <1>0 DEF Uncovers
  <2>3. db[Source][k] = Nil \/ (Copied(k) /\ k \in Uncovers(asked[c]))
    BY <1>3, <1>4, <2>2 DEF Copied
  <2> QED BY <2>1, <2>3 DEF Right
<1> QED BY <1>0, <1>3, <1>4

\* A served read is right; a served write is known to the node that is right.
LEMMA ServedSound ==
  ASSUME SlotsAssumption, SlotsInv, NEW c \in Client, asked[c] # Nil,
         asked[c].at = Source => moving = Nil,
         getNodeByQuery(asked[c].at, asked[c].keys, asked[c].asking) = "serve",
         Served(asked[c]), asked' = [asked EXCEPT ![c] = Nil],
         UNCHANGED <<slots, importing, migrating, configEpoch, inbox, moving, reply, writes,
                     timeouts, inDoubt>>
  PROVE  SlotsInv'
<1> USE DEF SlotsInv
<1>1. PICK r : r = asked[c] OBVIOUS
<1>2. /\ r \in Request
      /\ r.op \in {"get", "set", "del"} /\ r.keys \subseteq Key /\ r.at \in Side
      /\ r.asking \in BOOLEAN /\ r.value \in Cell
  BY <1>1 DEF ClientInv, Request
<1>3. /\ r.op = "set" => r.value # Nil
      /\ r.op = "del" => r.value = Nil
      /\ r.keys # {}
  BY <1>1 DEF ClientInv, SlotsAssumption
<1>4. /\ asked' \in [Client -> Request \cup {Nil}] /\ asked'[c] = Nil
      /\ \A d \in Client : d # c => asked'[d] = asked[d]
  BY DEF ClientInv
<1>0. /\ uncovered' = uncovered \cup Uncovers(r) /\ Uncovers(r) \subseteq r.keys
      /\ \A k : Exposed(k) => Exposed(k)'
      /\ \A k : Exposed(k)' <=> k \in inDoubt /\ k \in uncovered \cup Uncovers(r)
  BY <1>1 DEF Served, Uncovers, Exposed
<1>5. CASE r.at = Source
  <2>1. /\ slots[Source] = Source /\ slots[Target] # Target
        /\ Untouched \/ \A k \in r.keys : db[Source][k] # Nil
        /\ \A k \in r.keys : Exposed(k) \/
             /\ db[Source][k] = latest[k]
             /\ k \notin inDoubt \/ db[Source][k] = Nil => db[Target][k] = Nil
    BY <1>1, <1>2, <1>3, <1>5, SourceServes
  <2>2. CASE r.op = "get"
    <3>0. \A k \in r.keys : db[r.at][k] # latest[k] => Exposed(k)' BY <1>0, <1>5, <2>1
    <3>1. db' = db /\ latest' = latest /\ \A k \in stale' : Exposed(k)'
      BY <1>0, <1>1, <2>2, <3>0 DEF Served
    <3>2. MoveInv' /\ DataInv' /\ InboxInv' /\ TruthInv'
      BY <1>0, <3>1 DEF MoveInv, DataInv, InboxInv, TruthInv, Right, Copied
    <3>3. QuietInv' BY <1>4, <3>1 DEF QuietInv, Untouched
    <3>4. ClientInv' BY <1>4, <3>1 DEF ClientInv
    <3> QED BY <3>1, <3>2, <3>3, <3>4
  <2>3. CASE r.op # "get"
    <3>1. /\ db' = [db EXCEPT ![Source] =
                      [k \in Key |-> IF k \in r.keys THEN r.value ELSE db[Source][k]]]
          /\ latest' = [k \in Key |-> IF k \in r.keys THEN r.value ELSE latest[k]]
          /\ \A k \in stale' : Exposed(k)'
      BY <1>0, <1>1, <1>5, <2>3, Sides DEF Served, DataInv
    <3>2. /\ db' \in [Side -> [Key -> Cell]] /\ latest' \in [Key -> Cell]
          /\ db'[Target] = db[Target]
          /\ \A k \in Key : db'[Source][k] = IF k \in r.keys THEN r.value ELSE db[Source][k]
          /\ \A k \in Key : latest'[k] = IF k \in r.keys THEN r.value ELSE latest[k]
      BY <1>2, <3>1, Sides DEF DataInv
    <3>3. MoveInv' BY DEF MoveInv
    <3>4. DataInv' BY <2>1, <3>2, Sides DEF DataInv
    <3>5. QuietInv' BY <1>4, <3>2 DEF QuietInv, Untouched
    <3>6. TruthInv'
      <4>1. moving = Nil BY <1>1, <1>5
      <4>2. \A k \in Key : ~Copied(k) /\ ~Copied(k)' BY <4>1 DEF Copied, SlotsAssumption
      <4>3. ASSUME NEW k \in Key, ~Exposed(k)'
            PROVE  Right(k)'
        <5>0. ~Exposed(k) /\ Right(k) BY <1>0, <4>3 DEF TruthInv
        <5>1. CASE k \in r.keys
          <6>1. r.op = "del" /\ k \in inDoubt => db[Source][k] = Nil
            BY <1>0, <4>3, <5>1 DEF Uncovers
          <6>2. r.op = "del" => db[Target][k] = Nil BY <2>1, <5>0, <5>1, <6>1
          <6>3. k \notin inDoubt => db[Target][k] = Nil BY <2>1, <5>0, <5>1
          <6> QED BY <1>2, <1>3, <2>3, <3>2, <4>2, <5>1, <6>2, <6>3 DEF Right
        <5>2. CASE k \notin r.keys BY <3>2, <4>2, <5>0, <5>2 DEF Right
        <5> QED BY <5>1, <5>2
      <4> QED BY <4>3 DEF TruthInv
    <3>7. InboxInv'
      <4>1. moving = Nil BY <1>1, <1>5
      <4>2. inbox \in Seq(Message) BY DEF InboxInv
      <4>3. ASSUME NEW i \in 1..Len(inbox)
            PROVE  /\ ~inbox[i].open /\ inbox[i].key \in inDoubt
                   /\ db'[Source][inbox[i].key] # Nil \/ Exposed(inbox[i].key)'
        <5>1. inbox[i] \in Message BY <4>2
        <5>2. inbox[i].key \in Key BY <5>1 DEF Message
        <5>3. /\ ~inbox[i].open /\ inbox[i].key \in inDoubt
              /\ db[Source][inbox[i].key] # Nil \/ Exposed(inbox[i].key)
          BY <4>1, <5>2 DEF InboxInv, SlotsAssumption
        <5>4. ASSUME r.op = "del", inbox[i].key \in r.keys PROVE Exposed(inbox[i].key)'
          BY <1>0, <5>3, <5>4 DEF Uncovers
        <5> QED BY <1>0, <1>2, <1>3, <2>3, <3>2, <5>2, <5>3, <5>4
      <4> QED BY <4>1, <4>2, <4>3 DEF InboxInv
    <3>8. ClientInv'
      <4>1. ASSUME NEW d \in Client, asked'[d] # Nil
            PROVE  /\ asked'[d] = asked[d] /\ asked[d] # Nil
                   /\ asked[d].asking => \E k \in asked[d].keys : db'[Source][k] = Nil
        <5>1. asked'[d] = asked[d] /\ asked[d] # Nil /\ asked[d].keys \subseteq Key
          BY <1>4, <4>1 DEF ClientInv, Request
        <5>2. ASSUME asked[d].asking PROVE \E k \in asked[d].keys : db'[Source][k] = Nil
          <6>1. PICK k \in asked[d].keys : db[Source][k] = Nil
            BY <5>1, <5>2 DEF ClientInv
          <6>2. ~Untouched BY <5>1, <5>2 DEF QuietInv
          <6>3. k \notin r.keys BY <2>1, <6>1, <6>2
          <6> QED BY <3>2, <5>1, <6>1, <6>3
        <5> QED BY <5>1, <5>2
      <4> QED BY <1>4, <4>1 DEF ClientInv
    <3> QED BY <3>1, <3>3, <3>4, <3>5, <3>6, <3>7, <3>8
  <2> QED BY <2>2, <2>3
<1>6. CASE r.at = Target
  <2>1. /\ ~Untouched
        /\ \A k \in r.keys :
             \/ Exposed(k)'
             \/ /\ db[Source][k] = Nil \/ (Copied(k) /\ k \in uncovered')
                /\ db[Target][k] = latest[k]
    BY <1>0, <1>1, <1>6, TargetServes
  <2>2. CASE r.op = "get"
    <3>0. \A k \in r.keys : db[r.at][k] # latest[k] => Exposed(k)' BY <1>6, <2>1
    <3>1. db' = db /\ latest' = latest /\ \A k \in stale' : Exposed(k)'
      BY <1>0, <1>1, <2>2, <3>0 DEF Served
    <3>2. MoveInv' /\ DataInv' /\ InboxInv' /\ TruthInv'
      BY <1>0, <3>1 DEF MoveInv, DataInv, InboxInv, TruthInv, Right, Copied
    <3>3. QuietInv' BY <2>1 DEF QuietInv, Untouched
    <3>4. ClientInv' BY <1>4, <3>1 DEF ClientInv
    <3> QED BY <3>1, <3>2, <3>3, <3>4
  <2>3. CASE r.op # "get"
    <3>1. /\ db' = [db EXCEPT ![Target] =
                      [k \in Key |-> IF k \in r.keys THEN r.value ELSE db[Target][k]]]
          /\ latest' = [k \in Key |-> IF k \in r.keys THEN r.value ELSE latest[k]]
          /\ \A k \in stale' : Exposed(k)'
      BY <1>0, <1>1, <1>6, <2>3, Sides DEF Served, DataInv
    <3>2. /\ db' \in [Side -> [Key -> Cell]] /\ latest' \in [Key -> Cell]
          /\ db'[Source] = db[Source]
          /\ \A k \in Key : db'[Target][k] = IF k \in r.keys THEN r.value ELSE db[Target][k]
          /\ \A k \in Key : latest'[k] = IF k \in r.keys THEN r.value ELSE latest[k]
      BY <1>2, <3>1, Sides DEF DataInv
    <3>3. MoveInv' BY DEF MoveInv
    <3>4. DataInv' BY <3>2 DEF DataInv
    <3>5. QuietInv' BY <2>1 DEF QuietInv, Untouched
    <3>6. TruthInv'
      <4>1. ASSUME NEW k \in Key, ~Exposed(k)'
            PROVE  Right(k)'
        <5>0. ~Exposed(k) /\ Right(k) BY <1>0, <4>1 DEF TruthInv
        <5>1. Copied(k)' <=> Copied(k) BY DEF Copied
        <5>2. CASE k \in r.keys BY <2>1, <3>2, <4>1, <5>1, <5>2 DEF Right
        <5>3. CASE k \notin r.keys BY <1>0, <3>2, <5>0, <5>1, <5>3 DEF Right
        <5> QED BY <5>2, <5>3
      <4> QED BY <4>1 DEF TruthInv
    <3>7. InboxInv' BY <1>0, <3>2 DEF InboxInv
    <3>8. ClientInv' BY <1>4, <3>2 DEF ClientInv
    <3> QED BY <3>1, <3>3, <3>4, <3>5, <3>6, <3>7, <3>8
  <2> QED BY <2>2, <2>3
<1> QED BY <1>2, <1>5, <1>6, Sides

\* A client is sent to another node: with ASKING only to the target, for a key
\* the source lacks.
LEMMA RedirectSound ==
  ASSUME SlotsAssumption, SlotsInv, NEW c \in Client, asked[c] # Nil,
         NEW n \in Side, NEW a \in BOOLEAN,
         a => /\ n = Target /\ ~Untouched
              /\ \E k \in asked[c].keys : db[Source][k] = Nil,
         asked' = [asked EXCEPT ![c].at = n, ![c].asking = a],
         UNCHANGED <<slots, importing, migrating, configEpoch, db, inbox, moving, reply,
                     latest, stale, writes, timeouts, inDoubt, uncovered>>
  PROVE  SlotsInv'
<1> USE DEF SlotsInv
<1>1. asked[c] \in Request /\ asked \in [Client -> Request \cup {Nil}] BY DEF ClientInv
<1>2. PICK q : q = [asked[c] EXCEPT !.at = n, !.asking = a] OBVIOUS
<1>3. /\ q \in Request /\ q.op = asked[c].op /\ q.keys = asked[c].keys /\ q.at = n
      /\ q.asking = a /\ q.value = asked[c].value
  BY <1>1, <1>2 DEF Request
<1>4. asked' = [asked EXCEPT ![c] = q] BY <1>1, <1>2
<1>5. /\ asked' \in [Client -> Request \cup {Nil}] /\ asked'[c] = q
      /\ \A d \in Client : d # c => asked'[d] = asked[d]
  BY <1>1, <1>3, <1>4
<1>6. ClientInv'
  <2>1. ASSUME NEW d \in Client, asked'[d] # Nil
        PROVE  /\ asked'[d].op = "set" => asked'[d].value # Nil
               /\ asked'[d].op = "del" => asked'[d].value = Nil
               /\ (\E k \in Key : asked'[d].keys = {k}) \/ asked'[d].keys = Key
               /\ asked'[d].asking => /\ asked'[d].at = Target
                                      /\ \E k \in asked'[d].keys : db[Source][k] = Nil
    <3>1. CASE d = c BY <1>3, <1>5, <3>1 DEF ClientInv
    <3>2. CASE d # c BY <1>5, <2>1, <3>2 DEF ClientInv
    <3> QED BY <3>1, <3>2
  <2> QED BY <1>5, <2>1 DEF ClientInv
<1>7. QuietInv'
  <2>1. Untouched' <=> Untouched BY DEF Untouched
  <2>2. Untouched => \A d \in Client : asked'[d] # Nil => ~asked'[d].asking
    BY <1>3, <1>5 DEF QuietInv
  <2> QED BY <2>1, <2>2 DEF QuietInv
<1>8. MoveInv' /\ DataInv' /\ InboxInv' /\ TruthInv'
  BY DEF MoveInv, DataInv, InboxInv, TruthInv, Right, Exposed, Copied
<1> QED BY <1>6, <1>7, <1>8 DEF Exposed

LEMMA ProcessSound ==
  ASSUME SlotsAssumption, SlotsInv, NEW c \in Client, Process(c)
  PROVE  SlotsInv'
<1>1. PICK verdict :
        verdict = getNodeByQuery(asked[c].at, asked[c].keys, asked[c].asking)
  OBVIOUS
<1>2. /\ asked[c] # Nil /\ (asked[c].at = Source => moving = Nil)
      /\ UNCHANGED <<slots, importing, migrating, configEpoch, inbox, moving, reply, writes,
                     timeouts, inDoubt>>
  BY DEF Process
<1>3. asked[c] \in Request /\ asked[c].at \in Side /\ asked[c].keys \subseteq Key
  BY <1>2 DEF SlotsInv, ClientInv, Request
<1>4. slots[asked[c].at] \in Side BY <1>3 DEF SlotsInv, MoveInv
<1>5. CASE verdict = "serve"
  <2>1. Served(asked[c]) /\ asked' = [asked EXCEPT ![c] = Nil]
    BY <1>1, <1>5 DEF Process
  <2> QED BY <1>1, <1>2, <1>5, <2>1, ServedSound
<1>6. CASE verdict = "moved"
  <2>1. /\ asked' = [asked EXCEPT ![c].at = slots[asked[c].at], ![c].asking = FALSE]
        /\ UNCHANGED <<db, latest, stale, uncovered>>
    BY <1>1, <1>6 DEF Process
  <2> QED BY <1>2, <1>4, <2>1, RedirectSound
<1>7. CASE verdict = "tryagain"
  <2>1. /\ asked' = [asked EXCEPT ![c].at = slots[asked[c].at], ![c].asking = FALSE]
        /\ UNCHANGED <<db, latest, stale, uncovered>>
    BY <1>1, <1>7 DEF Process
  <2> QED BY <1>2, <1>4, <2>1, RedirectSound
<1>8. CASE verdict = "ask"
  <2>1. /\ asked' = [asked EXCEPT ![c].at = migrating[asked[c].at], ![c].asking = TRUE]
        /\ UNCHANGED <<db, latest, stale, uncovered>>
    BY <1>1, <1>8 DEF Process
  <2>2. migrating[asked[c].at] # Nil /\ Missing(asked[c].at, asked[c].keys) # {}
    BY <1>1, <1>8 DEF getNodeByQuery
  <2>3. asked[c].at = Source /\ migrating[Source] = Target
    BY <1>3, <2>2, Sides DEF SlotsInv, MoveInv
  <2>4. ~Untouched BY <2>3, Sides DEF Untouched
  <2>5. \E k \in asked[c].keys : db[Source][k] = Nil BY <2>2, <2>3 DEF Missing
  <2>6. asked' = [asked EXCEPT ![c].at = Target, ![c].asking = TRUE] BY <2>1, <2>3
  <2> QED BY <1>2, <2>1, <2>4, <2>5, <2>6, Sides, RedirectSound
<1>9. verdict \in {"serve", "moved", "ask", "tryagain"} BY <1>1 DEF getNodeByQuery
<1> QED BY <1>5, <1>6, <1>7, <1>8, <1>9

-----------------------------------------------------------------------------
\* A client that follows the redirections reads what was last written, at
\* whichever node and stage of the move getNodeByQuery lets it be served, for
\* every set of keys and clients and any number of writes and of MIGRATE commands
\* that time out; except a key whose MIGRATE timed out and that was then deleted
\* in the source, or was one of the keys of a request that the target served
\* while the source still had it.
THEOREM ReadsAreLatest ==
  ASSUME SlotsAssumption
  PROVE  SlotSpec => []ReadsLatest
<1>1. SlotInit => SlotsInv BY SlotsInitSound
<1>2. SlotsInv /\ [SlotNext]_slotVars => SlotsInv'
  <2> SUFFICES ASSUME SlotsInv, [SlotNext]_slotVars PROVE SlotsInv' OBVIOUS
  <2>1. CASE SetSlotMigrating \/ SetSlotImporting BY <2>1, MarkSound
  <2>2. CASE \E n \in Side : SetSlotNode(n) \/ SetSlotStable(n)
    BY <2>2, AssignSound, StableSound
  <2>3. CASE Announce(Source, Target) \/ Announce(Target, Source) BY <2>3, AnnounceSound
  <2>4. CASE \E k \in Key : Migrate(k) BY <2>4, MigrateSound
  <2>5. CASE Restore \/ MigrateEnds \/ MigrateTimesOut \/ LoseRestore
    BY <2>5, RestoreSound, EndSound, TimeoutSound, LoseSound
  <2>6. CASE \E c \in Client, n \in Side, r \in Requests : Ask(c, n, r) BY <2>6, AskSound
  <2>7. CASE \E c \in Client : Process(c) BY <2>7, ProcessSound
  <2>8. CASE UNCHANGED slotVars
    BY <2>8 DEF slotVars, SlotsInv, MoveInv, DataInv, QuietInv, Untouched, InboxInv, TruthInv,
                Right, Exposed, Copied, ClientInv
  <2> QED BY <2>1, <2>2, <2>3, <2>4, <2>5, <2>6, <2>7, <2>8 DEF SlotNext
<1>3. SlotsInv => ReadsLatest BY DEF SlotsInv, ReadsLatest, Exposed
<1> QED BY <1>1, <1>2, <1>3, PTL DEF SlotSpec
=============================================================================
