-------------------------- MODULE ClusterMembership --------------------------
(* How nodes of a Redis Cluster get to know each other (cluster.c): CLUSTER    *)
(* MEET and gossip start handshakes with an address, the answer gives the      *)
(* address a name; a known node that shows up at another address is followed   *)
(* there; CLUSTER FORGET removes a node and keeps its name on a black list for *)
(* a while, so that the gossip of those who still know it does not bring it    *)
(* back.                                                                       *)
(* A node is reached only at the address it has now.  A ping to an old address *)
(* is not answered by the node, which is what flags it as failing there.       *)
EXTENDS Naturals, FiniteSets, Functions

CONSTANTS
  Peer,        \* the names of the nodes
  Addr,        \* addresses; a node has the address of its own number at first
  NoAddr,      \* the address of a node that is nowhere (REDIS_NODE_NOADDR)
  Newcomer,    \* the node that joins, and that the operator may remove
  MaxMoves,    \* bound: how often a node restarts at another address
  MaxMail      \* bound: packets under way at a time

ASSUME MembershipAssumption == Peer \subseteq Addr /\ NoAddr \notin Addr /\ Newcomer \in Peer

VARIABLES
  addr,        \* where each node is
  known,       \* known[n][m]: the address n has for m; only of nodes it knows
  shake,       \* shake[n][a]: handshake of n with address a: "meet" or "ping"
               \* is the packet to send, "sent" waits for the answer
  black,       \* black[n]: the names n does not take from gossip
  mail,        \* packets under way
  forgot,      \* the nodes that executed CLUSTER FORGET
  late,        \* history: the removal was not quick, or the cluster not settled
  moves        \* how often a node moved

memberVars == <<addr, known, shake, black, mail, forgot, late, moves>>

Members == Peer \ {Newcomer}

MemberInit ==
  /\ addr = [n \in Peer |-> n]
  /\ known = [n \in Peer |-> IF n = Newcomer THEN <<>> ELSE [m \in Members \ {n} |-> m]]
  /\ shake = [n \in Peer |-> <<>>]
  /\ black = [n \in Peer |-> {}]
  /\ mail = {}
  /\ forgot = {}
  /\ late = FALSE
  /\ moves = 0

Knows(n, m) == m = n \/ m \in DOMAIN known[n]

\* All nodes know all others where they are.
Acquainted ==
  \A n \in Peer : \A m \in Peer \ {n} : m \in DOMAIN known[n] /\ known[n][m] = addr[m]

Without(f, k) == Restrict(f, DOMAIN f \ {k})
Over(f, g) == [x \in DOMAIN f \cup DOMAIN g |-> IF x \in DOMAIN f THEN f[x] ELSE g[x]]

-----------------------------------------------------------------------------
(* Handshakes and gossip.                                                    *)

\* clusterStartHandshake, with every address of a set: not twice with the same
\* (clusterHandshakeInProgress).
Shaking(shakes, addresses) ==
  Over(shakes, [a \in addresses |-> "meet"])

\* Mutant: the black list is not looked at.
IntroducedAnyway(n, table, gossip, trusted) ==
  {gossip[m] : m \in {k \in DOMAIN gossip \ {n} :
     IF k \in DOMAIN table
     THEN table[k] # gossip[k] /\ table[k] \notin {addr[k], NoAddr}
     ELSE trusted}}

\* clusterProcessGossipSection: the addresses to shake hands with.  An unknown
\* node counts only when the sender is known and the name not on the black list;
\* a known one when it fails where we look for it.
Introduced(n, table, gossip, trusted) ==
  {gossip[m] : m \in {k \in DOMAIN gossip \ {n} :
     IF k \in DOMAIN table
     THEN table[k] # gossip[k] /\ table[k] \notin {addr[k], NoAddr}
     ELSE trusted /\ k \notin black[n]}}

\* clusterSendPing: some nodes that are not in a handshake and have an address,
\* drawn at random, at most two fewer than the table has entries.
Gossips(n) ==
  LET fit == {m \in DOMAIN known[n] : known[n][m] # NoAddr}
      freshnodes == Cardinality(DOMAIN known[n]) + Cardinality(DOMAIN shake[n]) - 1
  IN {Restrict(known[n], picked) :
        picked \in {P \in SUBSET fit : P # {} => Cardinality(P) <= freshnodes}}

\* A packet on the connection that n opened for an entry of its table: a node it
\* knows, by name, or a handshake, by address.
OnLink(type, n, entry, at) ==
  [type : {type}, owner : {n}, entry : {entry}, at : {at}, gossip : Gossips(n), who : {n}]

\* clusterDelNode frees the connection of the entry, and what is on it.
Disconnected(n, entry) == {p \in mail : p.owner = n /\ p.entry = entry}

\* nodeUpdateAddressIfNeeded frees the connection to the old address.
StaleLink(n, m, a) ==
  IF m \in DOMAIN known[n] /\ known[n][m] # a THEN Disconnected(n, <<"name", m>>) ELSE {}

-----------------------------------------------------------------------------
\* CLUSTER MEET of the newcomer's address.
Meet(n) ==
  /\ n \in Members
  /\ forgot = {}
  /\ ~Knows(n, Newcomer)
  /\ addr[Newcomer] \notin DOMAIN shake[n]
  /\ shake' = [shake EXCEPT ![n] = Shaking(@, {addr[Newcomer]})]
  /\ UNCHANGED <<addr, known, black, mail, forgot, late, moves>>

\* clusterCron: the first packet on a new connection, MEET only the first time.
SendHandshake(n, a) ==
  /\ Cardinality(mail) < MaxMail
  /\ shake[n][a] # "sent"
  /\ \E p \in OnLink(shake[n][a], n, <<"address", a>>, a) : mail' = mail \cup {p}
  /\ shake' = [shake EXCEPT ![n][a] = "sent"]
  /\ UNCHANGED <<addr, known, black, forgot, late, moves>>

\* clusterCron: a handshake that got no answer is dropped.
HandshakeTimesOut(n, a) ==
  /\ shake[n][a] = "sent"
  /\ Disconnected(n, <<"address", a>>) = {}
  /\ shake' = [shake EXCEPT ![n] = Without(@, a)]
  /\ UNCHANGED <<addr, known, black, mail, forgot, late, moves>>

SendPing(n, m) ==
  /\ Cardinality(mail) < MaxMail
  /\ known[n][m] # NoAddr
  /\ \E p \in OnLink("ping", n, <<"name", m>>, known[n][m]) : mail' = mail \cup {p}
  /\ UNCHANGED <<addr, known, shake, black, forgot, late, moves>>

\* Nobody is at the address any more.
LoseRequest(p) ==
  /\ p.type # "pong"
  /\ p.at \notin Range(addr)
  /\ mail' = mail \ {p}
  /\ UNCHANGED <<addr, known, shake, black, forgot, late, moves>>

\* clusterProcessPacket, PING and MEET at node m: a MEET of an unknown node starts
\* a handshake back, a PING of a known one tells its address
\* (nodeUpdateAddressIfNeeded).  The PONG leaves before the rest is processed.
ReceiveRequest(p, m) ==
  /\ p.type # "pong"
  /\ addr[m] = p.at
  /\ \E g \in Gossips(m) :
       mail' = (mail \ ({p} \cup (IF p.type = "ping" THEN StaleLink(m, p.owner, addr[p.owner]) ELSE {})))
                 \cup {[p EXCEPT !.type = "pong", !.gossip = g, !.who = m]}
  /\ LET s == p.owner
         back == IF p.type = "meet" /\ ~Knows(m, s) THEN {addr[s]} ELSE {}
         table == IF p.type = "ping" /\ s # m /\ Knows(m, s)
                  THEN [known[m] EXCEPT ![s] = addr[s]] ELSE known[m]
     IN /\ known' = [known EXCEPT ![m] = table]
        /\ shake' = [shake EXCEPT ![m] =
             Shaking(Over(@, [a \in back |-> "ping"]), Introduced(m, table, p.gossip, Knows(m, s)))]
  /\ UNCHANGED <<addr, black, forgot, late, moves>>

\* PONG in a handshake: a known node gets the address, an unknown one is named;
\* its gossip is not looked at.
CompleteHandshake(p) ==
  /\ p.type = "pong" /\ p.entry[1] = "address"
  /\ mail' = mail \ ({p} \cup StaleLink(p.owner, p.who, p.entry[2]))
  /\ shake' = [shake EXCEPT ![p.owner] = Without(@, p.entry[2])]
  /\ known' = IF p.who = p.owner THEN known
              ELSE [known EXCEPT ![p.owner] = Over([m \in {p.who} |-> p.entry[2]], @)]
  /\ UNCHANGED <<addr, black, forgot, late, moves>>

\* PONG of a known node; when another one answers at its address, the node has no
\* address any more.
ReceivePong(p) ==
  /\ p.type = "pong" /\ p.entry[1] = "name"
  /\ mail' = mail \ {p}
  /\ IF p.who # p.entry[2]
     THEN /\ known' = [known EXCEPT ![p.owner][p.entry[2]] = NoAddr]
          /\ UNCHANGED shake
     ELSE /\ shake' = [shake EXCEPT ![p.owner] =
               Shaking(@, Introduced(p.owner, known[p.owner], p.gossip, TRUE))]
          /\ UNCHANGED known
  /\ UNCHANGED <<addr, black, forgot, late, moves>>

\* CLUSTER FORGET (clusterBlacklistAddNode, clusterDelNode).
Forget(n) ==
  /\ n \in Members
  /\ Newcomer \in DOMAIN known[n]
  /\ black' = [black EXCEPT ![n] = @ \cup {Newcomer}]
  /\ known' = [known EXCEPT ![n] = Without(@, Newcomer)]
  /\ mail' = mail \ Disconnected(n, <<"name", Newcomer>>)
  /\ forgot' = forgot \cup {n}
  /\ late' = (late \/ (forgot = {} /\ ~Acquainted) \/ \E k \in Peer : shake[k] # <<>>)
  /\ UNCHANGED <<addr, shake, moves>>

\* clusterBlacklistCleanup, a minute later: no packet is as old as that.
BlacklistExpires(n) ==
  /\ black[n] # {}
  /\ \A p \in mail : Newcomer \notin DOMAIN p.gossip
  /\ black' = [black EXCEPT ![n] = {}]
  /\ late' = (late \/ \E k \in Members : k \notin forgot)
  /\ UNCHANGED <<addr, known, shake, mail, forgot, moves>>

\* The newcomer restarts at a free address, or it and a member restart at each
\* other's: their connections are gone.
Move(a) ==
  /\ moves < MaxMoves
  /\ a # addr[Newcomer]
  /\ \E moved \in {{Newcomer} \cup {k \in Peer : addr[k] = a}} :
       /\ addr' = [k \in Peer |-> IF k = Newcomer THEN a
                                 ELSE IF addr[k] = a THEN addr[Newcomer] ELSE addr[k]]
       /\ mail' = {p \in mail : /\ p.owner \notin moved /\ p.who \notin moved
                                 /\ p.at \notin {a, addr[Newcomer]}}
       /\ shake' = [k \in Peer |-> IF k \in moved THEN <<>> ELSE shake[k]]
  /\ moves' = moves + 1
  /\ late' = (late \/ forgot # {})
  /\ UNCHANGED <<known, black, forgot>>

MemberNext ==
  \/ \E n \in Peer : Meet(n) \/ Forget(n) \/ BlacklistExpires(n)
  \/ \E n \in Peer : \E a \in DOMAIN shake[n] : SendHandshake(n, a) \/ HandshakeTimesOut(n, a)
  \/ \E n \in Peer : \E m \in DOMAIN known[n] : SendPing(n, m)
  \/ \E p \in mail : LoseRequest(p) \/ CompleteHandshake(p) \/ ReceivePong(p)
  \/ \E p \in mail : \E m \in Peer : ReceiveRequest(p, m)
  \/ \E a \in Addr : Move(a)

MemberSpec == MemberInit /\ [][MemberNext]_memberVars
-----------------------------------------------------------------------------
\* A node that the operator removes at every member, before the first of them
\* drops it from its black list, in a cluster where all know all and nobody moves,
\* is not known to any member again, although it still knows and pings them
\* itself (cluster.c:1068, "redis-trib has 60 seconds to send CLUSTER FORGET
\* messages to nodes in the cluster without dealing with the problem of other
\* nodes re-adding back the node").
ForgottenStays ==
  forgot = Members /\ ~late => \A n \in Members : ~Knows(n, Newcomer)
=============================================================================
