------------------------------ MODULE Keyspace ------------------------------
(* The key space of a Redis server (redis-3.0.3/src/db.c) and its expires.   *)
(*                                                                           *)
(* A command works on a record s that is threaded through the functions it   *)
(* calls.  It holds the selected database (db, dict, expires), the other one *)
(* (far), the clock, the role of the server that runs it, the client that    *)
(* sent it and whether it runs inside MULTI, the tables of blocked clients   *)
(* (blocking, bpop), the scripts it knows and those its slaves know (cache), *)
(* and what the execution leaves behind, namely                              *)
(*   out      the commands handed to propagate() while it runs,              *)
(*   argv     its own argument vector, which it may rewrite,                 *)
(*   dirty    whether server.dirty has grown or propagation was forced,      *)
(*   touched  the keys given to signalModifiedKey,                           *)
(*   ready    server.ready_keys, the keys given to signalListAsReady,        *)
(*   failed   whether an assertion has failed,                               *)
(*   unsaid   a history of what commands do without telling those concerned. *)
(* Replies, statistics, LRU clocks and keyspace notifications change none of *)
(* these and are left out; the encodings of values have their own modules.   *)
EXTENDS Integers, Sequences, FiniteSets

CONSTANTS Key,      \* the names of keys
          Client,   \* the connections of a server
          Nil       \* NULL, and no expire

DbId == 0..1
Slot == DbId \X Key       \* a key of a database
NoKeys == [k \in Key |-> Nil]
\* moved: keys that MOVE added and nobody signalled; hushed: lists that took the
\* place of another value; tied: SORT has stored elements it could not order.
NothingUnsaid == [moved |-> {}, hushed |-> {}, tied |-> FALSE]
EmptyDb == [dict |-> NoKeys, expires |-> NoKeys]

\* A call of a command: data[d] is database d, by is the caller's context.
Server(data, db, now, role, by, argv) ==
  [db |-> db, dict |-> data[db].dict, expires |-> data[db].expires, far |-> data[1 - db],
   now |-> now, role |-> role, client |-> by.client, multi |-> by.multi, rand |-> by.rand,
   blocking |-> by.blocking, bpop |-> by.bpop, scripts |-> by.scripts, cache |-> by.cache,
   unsaid |-> by.unsaid, argv |-> argv, out |-> << >>, dirty |-> FALSE, touched |-> {}, ready |-> << >>, failed |-> FALSE]
DataOf(s) ==
  [d \in DbId |-> IF d = s.db THEN [dict |-> s.dict, expires |-> s.expires] ELSE s.far]

redisAssert(s, p) == [s EXCEPT !.failed = @ \/ ~p]
Dirty(s) == [s EXCEPT !.dirty = TRUE]
Propagated(s, argv) == [s EXCEPT !.out = Append(@, <<s.db, argv>>)]
rewriteClientCommandVector(s, argv) == [s EXCEPT !.argv = argv]

\* A value of a type, and checkType: it is of another one.
Obj(t, v) == [type |-> t, val |-> v]
Exists(s, k) == s.dict[k] # Nil
TypeError(s, k, t) == Exists(s, k) /\ s.dict[k].type # t
ValueOr(s, k, default) == IF Exists(s, k) THEN s.dict[k].val ELSE default
IsEmpty(o) == IF o.type = "set" THEN o.val = {} ELSE o.type # "string" /\ DOMAIN o.val = {}

-----------------------------------------------------------------------------
(* The C-level API *)

selectDb(s, d) ==
  IF d = s.db THEN s
  ELSE [s EXCEPT !.db = d, !.dict = s.far.dict, !.expires = s.far.expires,
                 !.far = [dict |-> s.dict, expires |-> s.expires]]

dbDelete(s, k) == [s EXCEPT !.dict[k] = Nil, !.expires[k] = Nil]

\* MUTANT: a list that comes into being wakes nobody.
ReadyUnsignalled(s, k) == s

\* Only a key somebody waits for is queued, and only once.
signalListAsReady(s, k) ==
  IF s.blocking[<<s.db, k>>] = << >> \/ \E i \in DOMAIN s.ready : s.ready[i] = <<s.db, k>>
  THEN s ELSE [s EXCEPT !.ready = Append(@, <<s.db, k>>)]

dbAdd(s, k, o) ==
  LET t == [redisAssert(s, ~Exists(s, k)) EXCEPT !.dict[k] = o, !.unsaid.hushed = @ \ {<<s.db, k>>}]
  IN  IF o.type = "list" THEN signalListAsReady(t, k) ELSE t

\* Unlike dbAdd, this wakes nobody who waits for a list.
dbOverwrite(s, k, o) ==
  LET t == [redisAssert(s, Exists(s, k)) EXCEPT !.dict[k] = o]
  IN  IF o.type = "list" /\ TypeError(s, k, "list")
      THEN [t EXCEPT !.unsaid.hushed = @ \cup {<<s.db, k>>}] ELSE t

signalModifiedKey(s, k) ==
  [s EXCEPT !.touched = @ \cup {<<s.db, k>>}, !.unsaid.moved = @ \ {<<s.db, k>>}]

removeExpire(s, k) == [redisAssert(s, Exists(s, k)) EXCEPT !.expires[k] = Nil]

setExpire(s, k, when) == [redisAssert(s, Exists(s, k)) EXCEPT !.expires[k] = when]

propagateExpire(s, k) == Propagated(s, <<"del", k>>)

\* Only a master deletes: a slave waits for the DEL, loading for its end.
expireIfNeeded(s, k) ==
  IF s.expires[k] # Nil /\ s.role = "master" /\ s.now > s.expires[k]
  THEN dbDelete(propagateExpire(s, k), k) ELSE s

lookupKeyRead(s, k) == expireIfNeeded(s, k)
lookupKeyWrite(s, k) == expireIfNeeded(s, k)

\* MUTANT: the watchers of the key are not told.
Unsignalled(s, k, o) == IF Exists(s, k) THEN dbOverwrite(s, k, o) ELSE dbAdd(s, k, o)

\* A value changed in place; dbAdd when the key is new.
Modified(s, k, o) ==
  signalModifiedKey(IF Exists(s, k) THEN dbOverwrite(s, k, o) ELSE dbAdd(s, k, o), k)

\* MUTANT: the emptied collection stays in the dictionary.
EmptyStays(s, k, o) == Dirty(Modified(s, k, o))

\* Elements taken out of a collection: the key goes with the last one.
Shrunk(s, k, o) ==
  Dirty(IF IsEmpty(o) THEN signalModifiedKey(dbDelete(s, k), k) ELSE Modified(s, k, o))

setKey(s0, k, o) ==
  LET s == lookupKeyWrite(s0, k)
      t == IF Exists(s, k) THEN dbOverwrite(s, k, o) ELSE dbAdd(s, k, o)
  IN  signalModifiedKey(removeExpire(t, k), k)

\* dbDelete and then dbAdd of a result, where there is one.
Replaced(s, k, o) ==
  LET t == dbDelete(s, k) IN IF IsEmpty(o) THEN t ELSE dbAdd(t, k, o)

-----------------------------------------------------------------------------
(* Commands on keys of any type *)

delCommand(s0, k) ==
  LET s == expireIfNeeded(s0, k)
  IN  IF Exists(s, k) THEN Dirty(signalModifiedKey(dbDelete(s, k), k)) ELSE s

\* GET, EXISTS, TYPE, TTL, LLEN, SMEMBERS, HGETALL, ZRANGE, ... : a reader
\* changes the key space by expiring what it looks at.
ReadCommand(s, k) == lookupKeyRead(s, k)

touchWatchedKeysOnFlush(s) ==
  [s EXCEPT !.touched = @ \cup {<<s.db, k>> : k \in {x \in Key : Exists(s, x)}}]

flushdbCommand(s) ==
  LET t == touchWatchedKeysOnFlush(s)
  IN  [t EXCEPT !.dict = NoKeys, !.expires = NoKeys, !.dirty = \E k \in Key : Exists(s, k)]

\* FLUSHALL empties both databases and counts itself, so that it is propagated.
flushallCommand(s) ==
  Dirty(selectDb(flushdbCommand(selectDb(flushdbCommand(s), 1 - s.db)), s.db))

selectCommand(s, d) == selectDb(s, d)

\* RENAME and RENAMENX: the expire travels with the value.
renameGenericCommand(s0, src, dst, nx) ==
  LET s == lookupKeyWrite(s0, src)
      t == lookupKeyWrite(s, dst)
      v == dbAdd(dbDelete(t, dst), dst, s.dict[src])
      w == IF s.expires[src] = Nil THEN v ELSE setExpire(v, dst, s.expires[src])
  IN  IF src = dst THEN s0
      ELSE IF ~Exists(s, src) THEN s
      ELSE IF nx /\ Exists(t, dst) THEN t
      ELSE Dirty(signalModifiedKey(signalModifiedKey(dbDelete(w, src), src), dst))

\* The expire is left behind and no key is signalled as modified.
moveCommand(s0, k, d) ==
  LET s == lookupKeyWrite(s0, k)
      t == lookupKeyWrite(selectDb(s, d), k)
      u == dbAdd(t, k, s.dict[k])
  IN  IF d = s0.db THEN s0
      ELSE IF ~Exists(s, k) THEN s
      ELSE IF Exists(t, k) THEN selectDb(t, s0.db)
      ELSE [Dirty(dbDelete(selectDb(u, s0.db), k)) EXCEPT !.unsaid.moved = @ \cup {<<d, k>>}]

\* EXPIRE, PEXPIRE, EXPIREAT and PEXPIREAT, given the absolute time.
expireGenericCommand(s0, k, when) ==
  LET s == lookupKeyRead(s0, k)
  IN  IF ~Exists(s, k) THEN s
      ELSE IF when <= s.now /\ s.role = "master"
      THEN Dirty(signalModifiedKey(rewriteClientCommandVector(dbDelete(s, k), <<"del", k>>), k))
      ELSE Dirty(signalModifiedKey(setExpire(s, k, when), k))

\* PERSIST looks into the dictionary without expiring the key, and does not
\* signal the key as modified.
persistCommand(s, k) ==
  IF Exists(s, k) /\ s.expires[k] # Nil THEN Dirty(removeExpire(s, k)) ELSE s
=============================================================================
