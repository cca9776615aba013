------------------------------ MODULE MCCluster ------------------------------
(* Who serves which slot in a Redis Cluster, for TLC.  A behaviour is about    *)
(* one of two mechanisms:                                                      *)
(*   config      the spreading of the configuration, with two masters and a   *)
(*               slave of the first                                           *)
(*   election    three masters, and two slaves of the first, which is down,   *)
(*               or up until CLUSTER FAILOVER replaces it; the second slave   *)
(*               has no link to the first                                     *)
EXTENDS ClusterConfig

MCNode == {1, 2, 3}
MCMaster == {1, 2}
MCMasterOf == 3 :> 1
MCSlotOf == 1 :> 1 @@ 2 :> 2
MCSlot == {1, 2}

CONSTANTS MaxEpoch, MaxRestarts, MaxManual, MaxEvents

VARIABLES
  part,
  table, vote, attempt, manual, saved, net, restarts, asked, started, tally, forgot, won

electionVars ==
  <<table, vote, attempt, manual, saved, net, restarts, asked, started, tally, forgot, won>>

Nodes == 1..5
Linked == {<<m, n>> \in Nodes \X Nodes : m # n /\ <<m, n>> # <<5, 4>>}

Election == INSTANCE ClusterElection WITH
  Node <- Nodes, Slot <- 1..3, Master <- 1..3, Failed <- 1, Crashing <- {2, 3}, Told <- {5},
  st <- table

ASSUME ElectionConstants == Election!ElectionAssumption

ClusterInit ==
  /\ part \in {"config", "election"}
  /\ Init
  /\ Election!Init

Config(A) == part = "config" /\ A /\ UNCHANGED <<part, electionVars>>

ClusterNext ==
  \/ Config(Next)
  \/ part = "election" /\ Election!Next /\ UNCHANGED <<part, vars>>

\* The fairness of ClusterConfig.
ClusterSpec ==
  /\ ClusterInit
  /\ [][ClusterNext]_<<part, vars, electionVars>>
  /\ \A n, m \in Node : /\ SF_vars(Config(Ping(n, m)))
                        /\ WF_vars(Config(ReceivePing(n, m)))
                        /\ WF_vars(Config(ReceivePong(n, m)))
                        /\ WF_vars(Config(ReceiveUpdate(n, m)))

\* All tables come to name the same owner of every slot, a master in its own
\* table, and masters end up with config epochs of their own, whatever failovers
\* and takeovers that asked nobody there were (clusterUpdateSlotsConfigWith,
\* clusterSendUpdate, clusterHandleConfigEpochCollision).
TablesConverge == part = "config" => Converges /\ EpochsBecomeDistinct

\* Two slaves that win one epoch cost forgotten votes and late ones, as many as
\* two majorities have voters in common (clusterHandleSlaveFailover,
\* clusterSendFailoverAuthIfNeeded).
TwoWinnersCost == Election!TwoWinnersCost
=============================================================================
