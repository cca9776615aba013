---------------------------- MODULE MCClusterNodes ----------------------------
(* The nodes of a Redis Cluster for TLC.  A behaviour is about one of three     *)
(* mechanisms:                                                                  *)
(*   failure     three masters and a slave, one master cut off now and then     *)
(*   membership  two members and a newcomer that is met, moves or is removed    *)
(*   resharding  the move of a slot between two masters, with two clients       *)
EXTENDS ClusterFailure, ClusterMembership, ClusterSlots

MCNode == 1..4
MCMaster == 1..3
MCSuspect == 1

VARIABLE part

ASSUME SlotConstants == SlotsAssumption

NodesInit ==
  /\ part \in {"failure", "membership", "resharding"}
  /\ FailureInit
  /\ MemberInit
  /\ SlotInit

NodesNext ==
  \/ part = "failure" /\ FailureNext /\ UNCHANGED <<part, memberVars, slotVars>>
  \/ /\ part = "membership" /\ MemberNext
     /\ UNCHANGED <<part, failureVars, slotVars>>
  \/ /\ part = "resharding" /\ SlotNext
     /\ UNCHANGED <<part, failureVars, memberVars>>

NodesSpec ==
  /\ NodesInit
  /\ [][NodesNext]_<<part, failureVars, memberVars, slotVars>>
  /\ part = "failure" => FailureFairness

\* Failure detection ends in what the connections say, once they stop changing
\* (clusterUpdateState, clearNodeFailureIfNeeded).
DetectionSettles == part = "failure" => Settles
==============================================================================
