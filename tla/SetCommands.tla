---------------------------- MODULE SetCommands -----------------------------
(* The commands on sets and hashes (redis-3.0.3/src/t_set.c and t_hash.c).   *)
(* Members, fields and values are small numbers.                             *)
EXTENDS Keyspace, Functions, FiniteSetsExt

CONSTANT MaxValue     \* LLONG_MAX, for HINCRBY

Set(v) == Obj("set", v)
Hash(v) == Obj("hash", v)

\* setTypeRandomElement: rand() differs from server to server.
RandomMember(s, v) == IF s.rand = 0 THEN Min(v) ELSE Max(v)

saddCommand(s0, k, members) ==
  LET s == lookupKeyWrite(s0, k)
      old == ValueOr(s, k, {})
  IN  IF TypeError(s, k, "set") THEN s
      ELSE IF members \subseteq old THEN s
      ELSE Dirty(Modified(s, k, Set(old \cup members)))

sremCommand(s0, k, members) ==
  LET s == lookupKeyWrite(s0, k)
      old == s.dict[k].val
  IN  IF ~Exists(s, k) \/ TypeError(s, k, "set") THEN s
      ELSE IF members \cap old = {} THEN s ELSE Shrunk(s, k, Set(old \ members))

smoveCommand(s0, src, dst, m) ==
  LET s == lookupKeyWrite(lookupKeyWrite(s0, src), dst)
      from == s.dict[src].val
      t == signalModifiedKey(Shrunk(s, src, Set(from \ {m})), dst)
      u == IF Exists(s, dst) THEN t ELSE dbAdd(t, dst, Set({m}))
  IN  IF ~Exists(s, src) \/ TypeError(s, src, "set") \/ TypeError(s, dst, "set") THEN s
      ELSE IF src = dst \/ m \notin from THEN s
      ELSE IF Exists(s, dst) THEN [u EXCEPT !.dict[dst] = Set(@.val \cup {m})] ELSE u

\* MUTANT: the random choice is left to every server.
PopVerbatim(s0, k) ==
  LET s == lookupKeyWrite(s0, k)
  IN  IF ~Exists(s, k) \/ TypeError(s, k, "set") THEN s
      ELSE Shrunk(s, k, Set(s.dict[k].val \ {RandomMember(s, s.dict[k].val)}))

\* SPOP is propagated as an SREM of the member it took.
spopCommand(s0, k) ==
  LET s == lookupKeyWrite(s0, k)
      m == RandomMember(s, s.dict[k].val)
  IN  IF ~Exists(s, k) \/ TypeError(s, k, "set") THEN s
      ELSE Shrunk(rewriteClientCommandVector(s, <<"srem", k, {m}>>), k, Set(s.dict[k].val \ {m}))

\* The sets of keys that exist, looked up in order up to the first key that is
\* missing (SINTERSTORE stops there) or holds another type.
Lookups(s0, keys, missing) ==
  LET s[i \in 0..Len(keys)] ==
        IF i = 0 THEN s0
        ELSE IF i > 1 /\ (TypeError(s[i - 1], keys[i - 1], "set") \/ (missing /\ ~Exists(s[i - 1], keys[i - 1])))
        THEN s[i - 1] ELSE lookupKeyWrite(s[i - 1], keys[i])
  IN  s[Len(keys)]

\* Every member of the first set that all the others have.
Intersection(sets) == {m \in sets[1] : \A i \in DOMAIN sets : m \in sets[i]}

\* SINTERSTORE: a missing key deletes the destination, which only counts when
\* there was one.
sinterGenericCommand(s0, keys, dst) ==
  LET s == Lookups(s0, keys, TRUE)
      bad == {i \in DOMAIN keys : ~Exists(s, keys[i]) \/ TypeError(s, keys[i], "set")}
      sets == [i \in DOMAIN keys |-> s.dict[keys[i]].val]
  IN  IF bad = {} THEN Dirty(signalModifiedKey(Replaced(s, dst, Set(Intersection(sets))), dst))
      ELSE IF Exists(s, keys[Min(bad)]) \/ ~Exists(s, dst) THEN s
      ELSE Dirty(signalModifiedKey(dbDelete(s, dst), dst))

\* SDIFF, algorithm 1: members of the first set that no other set has.
DiffByLookup(sets, same) ==
  {m \in sets[1] : \A i \in DOMAIN sets \ {1} : ~same[i] /\ m \notin sets[i]}

\* SDIFF, algorithm 2: the first set, then every other set removed from it.
DiffByRemoval(sets) ==
  LET left[i \in DOMAIN sets] == IF i = 1 THEN sets[1] ELSE left[i - 1] \ sets[i]
  IN  left[Len(sets)]

\* Half the work of algorithm 1 against the work of algorithm 2.
DiffAlgorithm(sets, present) ==
  LET size == [i \in present |-> Cardinality(sets[i])]
      one == Cardinality(present) * Cardinality(sets[1])
  IN  IF one \div 2 <= SumFunction(size) THEN 1 ELSE 2

\* SUNIONSTORE and SDIFFSTORE: a missing key is an empty set, and the command
\* always counts.
sunionDiffGenericCommand(s0, keys, dst, op) ==
  LET s == Lookups(s0, keys, FALSE)
      sets == [i \in DOMAIN keys |-> ValueOr(s, keys[i], {})]
      present == {i \in DOMAIN keys : Exists(s, keys[i])}
      result == IF op = "union" THEN UNION {sets[i] : i \in DOMAIN sets}
                ELSE IF ~Exists(s, keys[1]) THEN {}
                ELSE IF DiffAlgorithm(sets, present) = 1
                THEN DiffByLookup(sets, [i \in DOMAIN keys |-> keys[i] = keys[1]])
                ELSE DiffByRemoval(sets)
  IN  IF \E i \in DOMAIN keys : TypeError(s, keys[i], "set") THEN s
      ELSE Dirty(signalModifiedKey(Replaced(s, dst, Set(result)), dst))

-----------------------------------------------------------------------------
(* Hashes: functions from the fields they have to values *)

hashTypeSet(h, field, v) == [f \in DOMAIN h \cup {field} |-> IF f = field THEN v ELSE h[f]]

\* hashTypeLookupWriteOrCreate has put an empty hash under a new key; every
\* command that goes on then sets a field of it.
hsetCommand(s0, k, field, v) ==
  LET s == lookupKeyWrite(s0, k)
  IN  IF TypeError(s, k, "hash") THEN s
      ELSE Dirty(Modified(s, k, Hash(hashTypeSet(ValueOr(s, k, << >>), field, v))))

hsetnxCommand(s0, k, field, v) ==
  LET s == lookupKeyWrite(s0, k)
  IN  IF ~TypeError(s, k, "hash") /\ field \in DOMAIN ValueOr(s, k, << >>) THEN s
      ELSE hsetCommand(s, k, field, v)

hmsetCommand(s0, k, values) ==
  LET s == lookupKeyWrite(s0, k)
      old == ValueOr(s, k, << >>)
  IN  IF TypeError(s, k, "hash") THEN s
      ELSE Dirty(Modified(s, k, Hash([f \in DOMAIN old \cup DOMAIN values |->
                   IF f \in DOMAIN values THEN values[f] ELSE old[f]])))

hincrbyCommand(s0, k, field, incr) ==
  LET s == lookupKeyWrite(s0, k)
      h == ValueOr(s, k, << >>)
      new == (IF field \in DOMAIN h THEN h[field] ELSE 0) + incr
  IN  IF TypeError(s, k, "hash") \/ new > MaxValue THEN s
      ELSE Dirty(Modified(s, k, Hash(hashTypeSet(h, field, new))))

\* Propagated as an HSET of the sum, which differs between machines.
hincrbyfloatCommand(s0, k, field, incr) ==
  LET s == lookupKeyWrite(s0, k)
      h == ValueOr(s, k, << >>)
      old == IF field \in DOMAIN h THEN h[field] ELSE 0
      new == IF s.role = "master" THEN old + incr ELSE old + incr + 1
  IN  IF TypeError(s, k, "hash") \/ old + incr > MaxValue THEN s
      ELSE rewriteClientCommandVector(Dirty(Modified(s, k, Hash(hashTypeSet(h, field, new)))),
                                      <<"hset", k, field, new>>)

hdelCommand(s0, k, fields) ==
  LET s == lookupKeyWrite(s0, k)
      h == s.dict[k].val
  IN  IF ~Exists(s, k) \/ TypeError(s, k, "hash") THEN s
      ELSE IF fields \cap DOMAIN h = {} THEN s
      ELSE Shrunk(s, k, Hash(Restrict(h, DOMAIN h \ fields)))
=============================================================================
