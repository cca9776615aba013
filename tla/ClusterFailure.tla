--------------------------- MODULE ClusterFailure ---------------------------
(* Failure detection of Redis Cluster (cluster.c): nodes ping each other, a    *)
(* node that does not answer in time is possibly failing (PFAIL), the gossip   *)
(* section of every packet tells the others, and a node that has its own PFAIL *)
(* confirmed by a majority of the masters turns it into FAIL and tells         *)
(* everybody.  The state of the cluster in each node, which decides whether it *)
(* serves queries, follows from these flags.                                   *)
(* One master, the suspect, is cut off from all others and comes back, again   *)
(* and again; the others always reach each other, so only the flags about the  *)
(* suspect and the suspect's own flags can change, and no other FAIL finds a   *)
(* majority.  Roles and slots do not change: every master serves slots and     *)
(* nobody is promoted (ClusterElection).  Time is not counted: a ping times    *)
(* out only while the suspect is cut off, a report expires only when its       *)
(* sender no longer repeats it, and the other delays pass at any moment.  A    *)
(* PING and its PONG are one step; FAIL messages take their time.              *)
EXTENDS Naturals, FiniteSets

CONSTANTS
  Node,      \* the nodes, which all know each other
  Master,    \* those that are masters and serve slots
  Suspect    \* the master that is cut off now and then

ASSUME FailureAssumption == IsFiniteSet(Node) /\ Master \subseteq Node /\ Suspect \in Master

VARIABLES
  flag,      \* flag[n]: "ok", "pfail" or "fail", as n sees the suspect
  reports,   \* reports[n]: the masters that told n that it fails (fail_reports)
  lost,      \* the masters the suspect flags PFAIL
  fails,     \* the nodes a FAIL message about the suspect is under way to
  state,     \* the state of the cluster, as each node sees it
  minority,  \* the suspect was in a minority less than the rejoin delay ago
  cut,       \* the suspect is cut off
  accusers   \* history: the masters whose own ping timed out, in this episode

failureVars ==
  <<flag, reports, lost, fails, state, minority, cut, accusers>>

Others == Node \ {Suspect}
needed_quorum == Cardinality(Master) \div 2 + 1

FailureInit ==
  /\ flag = [n \in Others |-> "ok"]
  /\ reports = [n \in Others |-> {}]
  /\ lost = {} /\ fails = {}
  /\ state = [n \in Node |-> "ok"]
  /\ minority = FALSE
  /\ cut = FALSE
  /\ accusers = {}

-----------------------------------------------------------------------------
\* Mutant: half of the masters are enough.
InMinorityByOne(unreachable) == Cardinality(Master \ unreachable) < needed_quorum - 1

\* clusterUpdateState: FAIL when a slot has no owner that works or when fewer
\* masters than a majority are reachable; a master that was in a minority turns
\* it back into OK only after the rejoin delay.
InMinority(unreachable) == Cardinality(Master \ unreachable) < needed_quorum

UpdateSuspectState(unreachable) ==
  /\ minority' = (minority \/ InMinority(unreachable))
  /\ state' = [state EXCEPT ![Suspect] =
       IF InMinority(unreachable) THEN "fail" ELSE IF minority THEN @ ELSE "ok"]

\* clusterSendPing: a gossip section tells whether its sender flags the suspect
\* as PFAIL or FAIL.  Its entries are drawn at random; a packet without one for
\* the suspect changes nothing here.
Failing(n) == flag[n] # "ok"

\* clusterProcessGossipSection, clusterNodeAddFailureReport and
\* clusterNodeDelFailureReport: only the reports of masters count.
ReportsWith(n, from) ==
  IF from \notin Master THEN reports[n]
  ELSE IF Failing(from) THEN reports[n] \cup {from} ELSE reports[n] \ {from}

\* Mutant: a slave counts itself too.
EnoughWithMyself(n, reporters) == Cardinality(reporters) + 1 >= needed_quorum

\* Its own PFAIL and a majority of the masters, itself counted if it is one.
Enough(n, reporters) ==
  Cardinality(reporters) + (IF n \in Master THEN 1 ELSE 0) >= needed_quorum

\* markNodeAsFailingIfNeeded, called for every entry that reports a failure; a
\* master tells all others (clusterSendFail).
markNodeAsFailingIfNeeded(n, from, reporters) ==
  IF from \in Master /\ Failing(from) /\ flag[n] = "pfail" /\ Enough(n, reporters)
  THEN /\ flag' = [flag EXCEPT ![n] = "fail"]
       /\ state' = [state EXCEPT ![n] = "fail"]
       /\ fails' = IF n \in Master THEN fails \cup (Others \ {n}) ELSE fails
  ELSE UNCHANGED <<flag, state, fails>>

\* An episode ends when nobody flags the suspect, reports it or is about to.
HistoryFollows ==
  accusers' = IF /\ \A n \in Others : flag'[n] = "ok" /\ reports'[n] = {}
                 /\ fails' = {}
              THEN {} ELSE accusers
-----------------------------------------------------------------------------
\* clusterProcessPacket, PING or PONG: n hears the gossip of another node.
HearGossip(n, from) ==
  /\ reports' = [reports EXCEPT ![n] = ReportsWith(n, from)]
  /\ markNodeAsFailingIfNeeded(n, from, ReportsWith(n, from))
  /\ UNCHANGED <<lost, minority, cut>>
  /\ HistoryFollows

\* The suspect answers: a PFAIL flag goes.
SuspectAnswers(n) ==
  /\ ~cut
  /\ flag[n] = "pfail"
  /\ flag' = [flag EXCEPT ![n] = "ok"]
  /\ UNCHANGED <<reports, lost, fails, state, minority, cut>>
  /\ HistoryFollows

\* clearNodeFailureIfNeeded: when it answers and the FAIL flag of a master that
\* serves slots is REDIS_CLUSTER_FAIL_UNDO_TIME_MULT node timeouts old.
ClearFailure(n) ==
  /\ ~cut
  /\ flag[n] = "fail"
  /\ flag' = [flag EXCEPT ![n] = "ok"]
  /\ state' = [state EXCEPT ![n] = "ok"]
  /\ UNCHANGED <<reports, lost, fails, minority, cut>>
  /\ HistoryFollows

\* The suspect gets the answer of a master.
AnswersSuspect(m) ==
  /\ ~cut
  /\ m \in lost
  /\ lost' = lost \ {m}
  /\ UpdateSuspectState(lost')
  /\ UNCHANGED <<flag, reports, fails, cut, accusers>>

\* clusterProcessPacket, FAIL: believed without counting anything.
ReceiveFail(n) ==
  /\ n \in fails
  /\ fails' = fails \ {n}
  /\ flag' = [flag EXCEPT ![n] = "fail"]
  /\ state' = [state EXCEPT ![n] = "fail"]
  /\ UNCHANGED <<reports, lost, minority, cut>>
  /\ HistoryFollows
-----------------------------------------------------------------------------
(* Time passes.                                                              *)

\* clusterCron: no PONG for cluster_node_timeout.
PingTimesOut(n) ==
  /\ cut
  /\ flag[n] = "ok"
  /\ flag' = [flag EXCEPT ![n] = "pfail"]
  /\ accusers' = accusers \cup ({n} \cap Master)
  /\ UNCHANGED <<reports, lost, fails, state, minority, cut>>

SuspectTimesOut(m) ==
  /\ cut
  /\ m \notin lost
  /\ lost' = lost \cup {m}
  /\ UpdateSuspectState(lost')
  /\ UNCHANGED <<flag, reports, fails, cut, accusers>>

\* clusterNodeCleanupFailureReports: a report nobody repeated for too long.
ReportExpires(n, s) ==
  /\ s \in reports[n]
  /\ flag[s] = "ok"
  /\ reports' = [reports EXCEPT ![n] = @ \ {s}]
  /\ UNCHANGED <<flag, lost, fails, state, minority, cut>>
  /\ HistoryFollows

\* The rejoin delay passes only after the minority ended: clusterCron evaluates
\* the state in every round while it is FAIL, and does so again now.
Rejoin ==
  /\ minority /\ ~InMinority(lost)
  /\ minority' = FALSE
  /\ state' = [state EXCEPT ![Suspect] = "ok"]
  /\ UNCHANGED <<flag, reports, lost, fails, cut, accusers>>

Cut ==
  /\ cut' = ~cut
  /\ UNCHANGED <<flag, reports, lost, fails, state, minority, accusers>>

FailureNext ==
  \/ \E n \in Others : \E m \in Others \ {n} : HearGossip(n, m)
  \/ \E n \in Others : SuspectAnswers(n) \/ ReceiveFail(n) \/ PingTimesOut(n) \/ ClearFailure(n)
  \/ \E m \in Master \ {Suspect} : AnswersSuspect(m) \/ SuspectTimesOut(m)
  \/ \E n, s \in Others : ReportExpires(n, s)
  \/ Rejoin
  \/ Cut

\* clusterCron pings every node again and again, packets over a working
\* connection arrive, their gossip is about the suspect now and then, and time
\* passes.
FailureFairness ==
  /\ \A n, m \in Others : WF_failureVars(n # m /\ HearGossip(n, m))
  /\ \A n \in Others : /\ WF_failureVars(SuspectAnswers(n))
                       /\ WF_failureVars(ReceiveFail(n))
                       /\ WF_failureVars(PingTimesOut(n))
                       /\ WF_failureVars(ClearFailure(n))
  /\ \A m \in Master \ {Suspect} : /\ WF_failureVars(AnswersSuspect(m))
                                  /\ WF_failureVars(SuspectTimesOut(m))
  /\ WF_failureVars(Rejoin)

FailureSpec == FailureInit /\ [][FailureNext]_failureVars /\ FailureFairness
-----------------------------------------------------------------------------
\* Nobody flags a node FAIL unless a majority of the masters found it
\* unreachable themselves since the last time nobody suspected it, whatever old
\* reports and messages are under way (markNodeAsFailingIfNeeded: "the majority
\* of the masters signaled the node is down recently").
FailIsAgreed ==
  \A n \in Others : flag[n] = "fail" => Cardinality(accusers) >= needed_quorum

\* A node that stays cut off is flagged FAIL by all the others and itself stops
\* serving, as it sees a minority; when it is back for good every flag is
\* cleared and every node serves, whatever reports and FAIL messages arrive late
\* (clusterUpdateState, clearNodeFailureIfNeeded).
Settles ==
  /\ <>[]cut => <>[](state[Suspect] = "fail" /\ \A n \in Others : flag[n] = "fail")
  /\ <>[]~cut => <>[](lost = {} /\ (\A n \in Others : flag[n] = "ok")
                                /\ (\A n \in Node : state[n] = "ok"))
=============================================================================
