---------------------------- MODULE ClusterSlots ----------------------------
(* Moving a hash slot from one master to another (cluster.c) while clients use *)
(* its keys: the operator marks the slot as importing in the target and as     *)
(* migrating in the source, moves the keys one by one with MIGRATE, and        *)
(* assigns the slot with CLUSTER SETSLOT NODE; clients follow MOVED and ASK    *)
(* redirections (getNodeByQuery).                                              *)
(* The operator assigns the slot when the source has no key of it left, as     *)
(* redis-trib does, and calls SETSLOT STABLE only after that.  A MIGRATE may time out at any moment, and what it sent is *)
(* executed by the target then, later, or not at all; the target reads what    *)
(* arrived first first.  Keys do not expire.                                   *)
EXTENDS Naturals, Sequences, FiniteSets

CONSTANTS
  Key,         \* keys of the slot that moves
  Nil,         \* no value, no node
  Client,
  MaxWrites,   \* bound: values written
  MaxTimeouts  \* bound: MIGRATE commands that time out

SlotsAssumption ==
  /\ Key # {} /\ IsFiniteSet(Key) /\ Nil \notin Key /\ Nil \notin Nat
  /\ MaxWrites \in Nat /\ MaxTimeouts \in Nat

Source == 1
Target == 2
Side == {Source, Target}

VARIABLES
  slots,       \* slots[n]: who serves the slot, in the table of n
  importing,   \* importing[n], migrating[n]: the other node, or Nil
  migrating,
  configEpoch, \* config epoch of each node; headers keep the other informed
  db,          \* db[n][k]
  inbox,        \* RESTORE commands sent to the target, oldest first
  moving,      \* the key whose MIGRATE the source is waiting for, or Nil
  reply,       \* the answer of the target to it: "none", "ok" or "error"
  asked,       \* asked[c]: the request of client c, or Nil
  latest,      \* history: the value of the last write of a key
  stale,       \* history: the keys of which a read returned something else
  writes, timeouts,
  inDoubt,     \* history: the keys whose MIGRATE timed out: the target may have,
               \* or may yet get, a copy of them beside the source's
  uncovered    \* history: the keys a request treated as if there were one copy

slotVars == <<slots, importing, migrating, configEpoch, db, inbox, moving, reply,
              asked, latest, stale, writes, timeouts, inDoubt, uncovered>>

SlotInit ==
  /\ slots = [n \in Side |-> Source]
  /\ importing = [n \in Side |-> Nil]
  /\ migrating = [n \in Side |-> Nil]
  /\ configEpoch = [n \in Side |-> IF n = Source THEN 2 ELSE 1]
  /\ db = [n \in Side |-> [k \in Key |-> IF n = Source THEN 0 ELSE Nil]]
  /\ inbox = <<>> /\ moving = Nil /\ reply = "none"
  /\ asked = [c \in Client |-> Nil]
  /\ latest = [k \in Key |-> 0]
  /\ stale = {}
  /\ writes = 0 /\ timeouts = 0
  /\ inDoubt = {} /\ uncovered = {}

CountKeysInSlot(n) == Cardinality({k \in Key : db[n][k] # Nil})

-----------------------------------------------------------------------------
(* CLUSTER SETSLOT                                                           *)

SetSlotMigrating ==
  /\ slots[Source] = Source
  /\ migrating[Source] = Nil
  /\ migrating' = [migrating EXCEPT ![Source] = Target]
  /\ UNCHANGED <<slots, importing, configEpoch, db, inbox, moving, reply, asked,
                 latest, stale, writes, timeouts, inDoubt, uncovered>>

SetSlotImporting ==
  /\ slots[Target] # Target
  /\ importing[Target] = Nil
  /\ importing' = [importing EXCEPT ![Target] = Source]
  /\ UNCHANGED <<slots, migrating, configEpoch, db, inbox, moving, reply, asked,
                 latest, stale, writes, timeouts, inDoubt, uncovered>>

\* Mutant: the epoch of the target stays.
KeptEpoch == configEpoch[Target]

\* clusterBumpConfigEpochWithoutConsensus: the import is published as newer than
\* all the target knows.
BumpedEpoch == IF configEpoch[Target] > configEpoch[Source] THEN configEpoch[Target]
               ELSE configEpoch[Source] + 1

\* CLUSTER SETSLOT NODE target, in either node.
SetSlotNode(n) ==
  /\ importing[Target] # Nil \/ slots[Target] = Target
  /\ migrating[Source] # Nil \/ slots[Source] = Target
  /\ moving = Nil /\ CountKeysInSlot(Source) = 0
  /\ slots[n] # Target
  /\ slots' = [slots EXCEPT ![n] = Target]
  /\ migrating' = [migrating EXCEPT ![n] = IF CountKeysInSlot(n) = 0 THEN Nil ELSE @]
  /\ importing' = [importing EXCEPT ![n] = IF n = Target THEN Nil ELSE @]
  /\ configEpoch' = IF n = Target /\ importing[n] # Nil
                    THEN [configEpoch EXCEPT ![n] = BumpedEpoch] ELSE configEpoch
  /\ UNCHANGED <<db, inbox, moving, reply, asked, latest, stale, writes, timeouts,
                 inDoubt, uncovered>>

\* CLUSTER SETSLOT STABLE, once the slot is assigned.
SetSlotStable(n) ==
  /\ \A m \in Side : slots[m] = Target
  /\ importing[n] # Nil \/ migrating[n] # Nil
  /\ importing' = [importing EXCEPT ![n] = Nil]
  /\ migrating' = [migrating EXCEPT ![n] = Nil]
  /\ UNCHANGED <<slots, configEpoch, db, inbox, moving, reply, asked, latest, stale,
                 writes, timeouts, inDoubt, uncovered>>

\* A PING with the slots of n (clusterUpdateSlotsConfigWith): the newer claim
\* wins, and who loses the slot drops its keys.
Announce(n, m) ==
  /\ slots[n] = n /\ slots[m] # n
  /\ importing[m] = Nil
  /\ moving = Nil
  /\ configEpoch[slots[m]] < configEpoch[n]
  /\ slots' = [slots EXCEPT ![m] = n]
  /\ db' = IF slots[m] = m THEN [db EXCEPT ![m] = [k \in Key |-> Nil]] ELSE db
  /\ UNCHANGED <<importing, migrating, configEpoch, inbox, moving, reply, asked,
                 latest, stale, writes, timeouts, inDoubt, uncovered>>

-----------------------------------------------------------------------------
(* MIGRATE and RESTORE                                                       *)

\* migrateCommand sends the key and waits; nothing else runs in the source.
Migrate(k) ==
  /\ moving = Nil
  /\ migrating[Source] # Nil /\ importing[Target] # Nil
  /\ db[Source][k] # Nil
  /\ inbox' = Append(inbox, [key |-> k, value |-> db[Source][k], open |-> TRUE])
  /\ moving' = k
  /\ UNCHANGED <<slots, importing, migrating, configEpoch, db, reply, asked, latest,
                 stale, writes, timeouts, inDoubt, uncovered>>

\* restoreCommand in the target, without REPLACE; RESTORE-ASKING is served while
\* the slot is imported.
Restore ==
  /\ inbox # <<>>
  /\ LET r == Head(inbox)
         done == /\ importing[Target] # Nil \/ slots[Target] = Target
                 /\ db[Target][r.key] = Nil
     IN /\ db' = IF done THEN [db EXCEPT ![Target][r.key] = r.value] ELSE db
        /\ reply' = IF r.open THEN (IF done THEN "ok" ELSE "error") ELSE reply
  /\ inbox' = Tail(inbox)
  /\ UNCHANGED <<slots, importing, migrating, configEpoch, moving, asked, latest,
                 stale, writes, timeouts, inDoubt, uncovered>>

\* The answer: the source deletes its key only when the target took it.
MigrateEnds ==
  /\ reply # "none"
  /\ db' = IF reply = "ok" THEN [db EXCEPT ![Source][moving] = Nil] ELSE db
  /\ moving' = Nil
  /\ reply' = "none"
  /\ UNCHANGED <<slots, importing, migrating, configEpoch, inbox, asked, latest,
                 stale, writes, timeouts, inDoubt, uncovered>>

\* No answer in time: the connection is closed and the key stays.
MigrateTimesOut ==
  /\ moving # Nil
  /\ timeouts < MaxTimeouts
  /\ timeouts' = timeouts + 1
  /\ inDoubt' = inDoubt \cup {moving}
  /\ moving' = Nil
  /\ reply' = "none"
  /\ inbox' = [i \in DOMAIN inbox |-> [inbox[i] EXCEPT !.open = FALSE]]
  /\ UNCHANGED <<slots, importing, migrating, configEpoch, db, asked, latest, stale,
                 writes, uncovered>>

\* A connection that was closed takes what the target has not read with it.
LoseRestore ==
  /\ inbox # <<>>
  /\ ~Head(inbox).open
  /\ inbox' = Tail(inbox)
  /\ UNCHANGED <<slots, importing, migrating, configEpoch, db, moving, reply, asked,
                 latest, stale, writes, timeouts, inDoubt, uncovered>>

-----------------------------------------------------------------------------
(* Clients                                                                   *)

Missing(n, keys) == {k \in keys : db[n][k] = Nil}

\* What node n does with a request: "serve", "moved", "ask" or "tryagain".
getNodeByQuery(n, keys, asking) ==
  CASE slots[n] = n /\ migrating[n] # Nil /\ Missing(n, keys) # {} -> "ask"
    [] ~(slots[n] = n /\ migrating[n] # Nil) /\ importing[n] # Nil /\ asking ->
         IF Cardinality(keys) > 1 /\ Missing(n, keys) # {} THEN "tryagain" ELSE "serve"
    [] OTHER -> IF slots[n] = n THEN "serve" ELSE "moved"

Requests ==
  [op : {"get", "set"}, keys : {{k} : k \in Key} \cup {Key}] \cup
  [op : {"del"}, keys : {{k} : k \in Key}]

Ask(c, n, r) ==
  /\ asked[c] = Nil
  /\ r.op = "set" => writes < MaxWrites
  /\ writes' = IF r.op = "set" THEN writes + 1 ELSE writes
  /\ asked' = [asked EXCEPT ![c] =
       [op |-> r.op, keys |-> r.keys, at |-> n, asking |-> FALSE,
        value |-> IF r.op = "set" THEN writes + 1 ELSE Nil]]
  /\ UNCHANGED <<slots, importing, migrating, configEpoch, db, inbox, moving, reply,
                 latest, stale, timeouts, inDoubt, uncovered>>

\* The keys of a served request that the source still has while the target has,
\* or may get, a copy: the target serves a request for several keys once it has
\* all of them, though the source may not have deleted its own, and a DEL in the
\* source leaves the target's copy as the only one.
Uncovers(r) ==
  {k \in r.keys : /\ db[Source][k] # Nil
                  /\ k \in inDoubt \/ moving = k
                  /\ r.at = Target \/ r.op = "del"}

Served(r) ==
  /\ uncovered' = uncovered \cup Uncovers(r)
  /\ IF r.op = "get"
     THEN /\ stale' = stale \cup {k \in r.keys : db[r.at][k] # latest[k]}
          /\ UNCHANGED <<db, latest>>
     ELSE /\ db' = [db EXCEPT ![r.at] =
                      [k \in Key |-> IF k \in r.keys THEN r.value ELSE @[k]]]
          /\ latest' = [k \in Key |-> IF k \in r.keys THEN r.value ELSE latest[k]]
          /\ UNCHANGED stale

\* processCommand: serve, or redirect; the client follows, and starts again where
\* it began when it has to try again.
Process(c) ==
  /\ asked[c] # Nil
  /\ asked[c].at = Source => moving = Nil
  /\ LET r == asked[c]
         verdict == getNodeByQuery(r.at, r.keys, r.asking)
     IN CASE verdict = "serve" ->
               Served(r) /\ asked' = [asked EXCEPT ![c] = Nil]
          [] verdict = "moved" ->
               /\ asked' = [asked EXCEPT ![c].at = slots[r.at], ![c].asking = FALSE]
               /\ UNCHANGED <<db, latest, stale, uncovered>>
          [] verdict = "ask" ->
               /\ asked' = [asked EXCEPT ![c].at = migrating[r.at], ![c].asking = TRUE]
               /\ UNCHANGED <<db, latest, stale, uncovered>>
          [] verdict = "tryagain" ->
               /\ asked' = [asked EXCEPT ![c].at = slots[r.at], ![c].asking = FALSE]
               /\ UNCHANGED <<db, latest, stale, uncovered>>
  /\ UNCHANGED <<slots, importing, migrating, configEpoch, inbox, moving, reply,
                 writes, timeouts, inDoubt>>

SlotNext ==
  \/ SetSlotMigrating \/ SetSlotImporting
  \/ \E n \in Side : SetSlotNode(n) \/ SetSlotStable(n)
  \/ Announce(Source, Target) \/ Announce(Target, Source)
  \/ \E k \in Key : Migrate(k)
  \/ Restore \/ MigrateEnds \/ MigrateTimesOut \/ LoseRestore
  \/ \E c \in Client, n \in Side, r \in Requests : Ask(c, n, r)
  \/ \E c \in Client : Process(c)

SlotSpec == SlotInit /\ [][SlotNext]_slotVars
-----------------------------------------------------------------------------
\* A client that follows the redirections reads what was last written, at
\* whichever node and stage of the move it is served, when the operator proceeds
\* as redis-trib does (SetSlotNode, SetSlotStable).  There is one exception: a key
\* whose MIGRATE timed out, after a DEL of it in the source, or after a request
\* for several keys that the target served (getNodeByQuery) while the source
\* still had it.
ReadsLatest == stale \subseteq inDoubt \cap uncovered
=============================================================================
