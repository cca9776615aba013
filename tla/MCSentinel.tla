----------------------------- MODULE MCSentinel -----------------------------
(* A behaviour is about a failover or about a configuration file.             *)
(* Failovers: three sentinels.  Two of them act on a master with two slaves;  *)
(* two act on a master with a slave and one fault; one acts through two       *)
(* failovers; and where nothing can be promoted two elect leaders twice, or   *)
(* once with two faults.                                                      *)
(* Files: a file with an option of every kind, some of them twice; one that   *)
(* was rewritten before; and an empty one.                                    *)
EXTENDS Sentinel, Sequences, TLC

CONSTANTS s1, s2, s3, r1, r2, r3, MaxChanges, MaxCrashes

Order == r2 :> 1 @@ r3 :> 2 @@ r1 :> 3
Scenario(instances, actors, epochs, faults) ==
  [instances |-> instances, actors |-> actors, epochs |-> epochs, faults |-> faults]
Bounds ==
  {Scenario({r1, r2, r3}, 2, 1, 0), Scenario({r1, r2}, 2, 1, 1), Scenario({r1, r2}, 1, 2, 1),
   Scenario({r1}, 2, 2, 0), Scenario({r1}, 2, 1, 2)}
Symmetric == Permutations({s1, s2})

Option(opt, arg) == [opt |-> opt, arg |-> arg]
Bytes(n, unit) == [n |-> n, unit |-> unit]
Limit(class, n, unit) == Option("limit", [class |-> class, hard |-> Bytes(n, unit)])
OldFile ==
  <<Option("#", "text"), Option("hz", 1), Option("save", <<9, 1>>), Option("", ""),
    Option("maxmemory", Bytes(2, "k")), Option("bind", <<"a1", "a2">>), Option("", ""),
    Option("rename-command", "x"), Limit("slave", 1, "kb"), Option("hz", 3),
    Option("requirepass", ""), Option("save", <<5, 2>>), Option("dir", "/d")>>
RewrittenFile ==
  <<Option("slaveof", "m1"), Option("#", "Generated by CONFIG REWRITE"),
    Option("requirepass", "pw"), Option("dir", "/d"), Limit("slave", 5, ""),
    Limit("normal", 2, "mb")>>
OptionInputs ==
  [hz |-> {2, 9}, maxmemory |-> {Bytes(0, ""), Bytes(1, "kb"), Bytes(5, "")},
   activerehashing |-> {"no", "maybe"}, dbfilename |-> {"b", "a/path"},
   requirepass |-> {"", "pw"}, dir |-> {"/e"},
   save |-> {<<>>, <<<<1, 1>>, <<2, 2>>, <<3, 3>>>>}, slaveof |-> {None, "m2"},
   limit |-> {[class |-> "slave", hard |-> Bytes(9, "kb")], [class |-> "normal", hard |-> Bytes(0, "")]},
   ttl |-> {3}]
AddedLines ==
  <<Option("unbalanced", "x"), Option("activerehashing", "maybe"), Option("hz", 1),
    Option("save", <<>>), Option("slaveof", "m3"), Limit("normal", 1, "gb"), Option("", ""),
    Option("include", "more"), Option("unknown", "x")>>
IncludedLines == <<Option("hz", 3), Option("save", <<7, 7>>)>>

VARIABLES part, config, conf, padded, saved, changes, crashes
configVars == <<config, conf, padded, saved, changes, crashes>>

File == INSTANCE ConfigFile WITH
  Kilo <- 3, Thousand <- 2, MinHz <- 1, MaxHz <- 4, Classes <- <<"normal", "slave">>,
  NoValue <- None, Inputs <- OptionInputs, EditLines <- AddedLines,
  Files <- <<OldFile, RewrittenFile, <<>>>>, Included <- IncludedLines

SentinelsInit ==
  /\ part \in {"failover", "file"}
  /\ File!ConfigInit
  /\ Init
  /\ IF part = "file" THEN DOMAIN redis = {r1} ELSE conf = <<>>

SentinelsNext ==
  \/ part = "failover" /\ Next /\ UNCHANGED <<part, configVars>>
  \/ part = "file" /\ File!ConfigNext /\ UNCHANGED <<part, vars>>

SentinelsSpec == SentinelsInit /\ [][SentinelsNext]_<<part, vars, configVars>>

\* A server that starts with a rewritten file has the options of the one that
\* rewrote it, also when that one died before it truncated the file
\* (rewriteConfig, loadServerConfigFromString), unless the file has an include or
\* a directive nobody knows, which a rewrite keeps.
ConfigReloads == part = "file" => File!ConfigReloads
=============================================================================
