---------------------------- MODULE MCReplication ----------------------------
(* The copies of a data set, for TLC.  A behaviour is about the copies that   *)
(* other servers have (a master with two slaves, or a slave of its slave, or  *)
(* one slave and a server that may follow either), or about the ones on the   *)
(* disk of a single server.                                                   *)
EXTENDS Persistence, TLC
CONSTANTS s1, s2, s3, Servers, Scenarios
VARIABLES part, srv, limit, past, exact
replVars == <<srv, limit, past, exact>>

Repl == INSTANCE Replication WITH Dbs <- Databases

Scenario(hosts, diskless, size, writes, faults, slaveof) ==
  [hosts |-> hosts, diskless |-> diskless, size |-> size, writes |-> writes, faults |-> faults, slaveof |-> slaveof]
Star == s1 :> None @@ s2 :> s1 @@ s3 :> s1
Chain == s1 :> None @@ s2 :> s1 @@ s3 :> s2
Pair == s1 :> None @@ s2 :> s1 @@ s3 :> None
Bounds ==
  {Scenario(Pair, FALSE, 2, 3, 1, 0), Scenario(Pair, TRUE, 2, 2, 1, 0), Scenario(Pair, FALSE, 2, 1, 0, 2),
   Scenario(Star, FALSE, 2, 1, 1, 0), Scenario(Star, TRUE, 2, 1, 0, 0), Scenario(Chain, FALSE, 2, 1, 1, 1),
   Scenario(Chain, TRUE, 2, 2, 0, 0), Scenario(Pair, TRUE, 2, 1, 2, 0)}

Plan(fsync, lazy, aof, writes, faults, rewrites, saves, switches) ==
  [fsync |-> fsync, lazy |-> lazy, aof |-> aof,
   left |-> [writes |-> writes, faults |-> faults, rewrites |-> rewrites, saves |-> saves, switches |-> switches]]
DiskBounds ==
  {Plan("always", FALSE, TRUE, 2, 2, 1, 0, 0), Plan("everysec", FALSE, TRUE, 2, 1, 1, 0, 0),
   Plan("no", TRUE, TRUE, 2, 1, 0, 1, 0), Plan("always", FALSE, TRUE, 1, 1, 1, 1, 1),
   Plan("everysec", FALSE, FALSE, 2, 1, 0, 0, 2), Plan("everysec", FALSE, FALSE, 1, 1, 1, 0, 2)}

\* The scenario of the part that a behaviour is not about does not matter.
CopiesInit ==
  /\ Repl!Init /\ Init
  /\ \/ part = "replication" /\ plan = Plan("no", TRUE, TRUE, 2, 1, 0, 1, 0)
     \/ part = "disk" /\ limit = Scenario(None, TRUE, 2, 1, 0, 0)
Replicates(A) == part = "replication" /\ A /\ UNCHANGED <<part, vars>>
Persists(A) == part = "disk" /\ A /\ UNCHANGED <<part, replVars>>
CopiesNext ==
  \/ part = "replication" /\ Repl!Next /\ UNCHANGED <<part, vars>>
  \/ part = "disk" /\ Next /\ UNCHANGED <<part, replVars>>
\* The fairness of Replication and of Persistence
CopiesSpec ==
  /\ CopiesInit
  /\ [][CopiesNext]_<<part, vars, replVars>>
  /\ \A s \in Servers : WF_replVars(Replicates(Repl!Work(s) /\ Repl!Remember))
  /\ WF_vars(Persists(~Off /\ Work))

\* What a slave has, or is being sent, and what is queued for it make the data set
\* of its master (replicationFeedSlaves, syncCommand, updateSlavesWaitingBgsave,
\* addReplyReplicationBacklog).
StreamComplete == Repl!StreamComplete

\* An offset that the master would continue from, or that was acknowledged, is that of
\* the slave's data (masterTryPartialResynchronization, replicationCountAcksByOffset),
\* except of a slave that was misled about it: see exact in Replication.
OffsetTellsData == Repl!OffsetTellsData

\* Slaves come to have everything their master has (see Replication).
SlavesCatchUp == part = "replication" => Repl!CatchesUp

\* "the stream of data that we'll receive will start from were this master left":
\* a slave that continued has, with what is queued for it, the data of its master
\* (replicationResurrectCachedMaster).
ResumesWhereItLeft == Repl!ResumesWhereItLeft
=============================================================================
