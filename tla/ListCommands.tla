---------------------------- MODULE ListCommands ----------------------------
(* The commands on lists (redis-3.0.3/src/t_list.c), the blocking ones and   *)
(* the clients that wait for them included.                                  *)
EXTENDS Keyspace, SequencesExt

List(v) == Obj("list", v)

\* listTypePush and listTypePop at either end.
listTypePush(l, v, where) == IF where = "head" THEN <<v>> \o l ELSE Append(l, v)
Popped(l, where) == IF where = "head" THEN Head(l) ELSE Last(l)
listTypePop(l, where) == IF where = "head" THEN Tail(l) ELSE Front(l)

\* An index counts from the end when negative; Nil when out of range.
ListIndex(l, i) ==
  LET j == IF i < 0 THEN Len(l) + i + 1 ELSE i + 1
  IN  IF j \in DOMAIN l THEN j ELSE Nil

\* The first and last position of a range, empty when first > last.
RangeOf(n, start, end) ==
  LET a == IF start < 0 THEN n + start ELSE start
      first == IF a < 0 THEN 0 ELSE a
      last == IF end < 0 THEN n + end ELSE end
  IN  IF first > last \/ first >= n THEN <<1, 0>>
      ELSE <<first + 1, (IF last >= n THEN n - 1 ELSE last) + 1>>

\* LPUSH and RPUSH of one or more values.
pushGenericCommand(s0, k, values, where) ==
  LET s == lookupKeyWrite(s0, k)
      pushed == FoldLeft(LAMBDA l, v : listTypePush(l, v, where), ValueOr(s, k, << >>), values)
  IN  IF TypeError(s, k, "list") THEN s ELSE Dirty(Modified(s, k, List(pushed)))

\* LPUSHX and RPUSHX (pivot Nil), LINSERT before or after the first pivot.
pushxGenericCommand(s0, k, pivot, v, where) ==
  LET s == lookupKeyRead(s0, k)
      l == s.dict[k].val
      at == {i \in DOMAIN l : l[i] = pivot}
      i == CHOOSE i \in at : \A j \in at : i <= j
  IN  IF ~Exists(s, k) \/ TypeError(s, k, "list") THEN s
      ELSE IF pivot = Nil THEN Dirty(Modified(s, k, List(listTypePush(l, v, where))))
      ELSE IF at = {} THEN s
      ELSE Dirty(Modified(s, k, List(InsertAt(l, IF where = "head" THEN i ELSE i + 1, v))))

lsetCommand(s0, k, index, v) ==
  LET s == lookupKeyWrite(s0, k)
      i == ListIndex(s.dict[k].val, index)
  IN  IF ~Exists(s, k) \/ TypeError(s, k, "list") THEN s
      ELSE IF i = Nil THEN s
      ELSE Dirty(Modified(s, k, List(ReplaceAt(s.dict[k].val, i, v))))

\* LPOP and RPOP; a list in the dictionary is never empty.
popGenericCommand(s0, k, where) ==
  LET s == lookupKeyWrite(s0, k)
  IN  IF ~Exists(s, k) \/ TypeError(s, k, "list") THEN s
      ELSE Shrunk(s, k, List(listTypePop(s.dict[k].val, where)))

\* LTRIM counts itself also when nothing is removed.
ltrimCommand(s0, k, start, end) ==
  LET s == lookupKeyWrite(s0, k)
      l == s.dict[k].val
      r == RangeOf(Len(l), start, end)
  IN  IF ~Exists(s, k) \/ TypeError(s, k, "list") THEN s
      ELSE Shrunk(s, k, List(SubSeq(l, r[1], r[2])))

\* LREM removes count occurrences from the head, -count from the tail, all for 0.
lremCommand(s0, k, count, v) ==
  LET s == lookupKeyWrite(s0, k)
      l == s.dict[k].val
      Before(i) == Cardinality({j \in DOMAIN l : l[j] = v /\ IF count < 0 THEN j > i ELSE j < i})
      gone == {i \in DOMAIN l : l[i] = v /\ (count = 0 \/ Before(i) < IF count < 0 THEN -count ELSE count)}
      left == [i \in 1..Len(l) - Cardinality(gone) |->
                 l[CHOOSE j \in DOMAIN l \ gone : Cardinality({x \in DOMAIN l \ gone : x <= j}) = i]]
  IN  IF ~Exists(s, k) \/ TypeError(s, k, "list") \/ gone = {} THEN s
      ELSE Shrunk(s, k, List(left))

rpoplpushHandlePush(s, dst, v) ==
  Modified(s, dst, List(listTypePush(ValueOr(s, dst, << >>), v, "head")))

\* The source loses its last element before the destination gets it: they may
\* be the same list.
rpoplpushCommand(s0, src, dst) ==
  LET s == lookupKeyWrite(s0, src)
      t == lookupKeyWrite(s, dst)
      v == Last(t.dict[src].val)
      popped == [t EXCEPT !.dict[src] = List(Front(@.val))]
      u == rpoplpushHandlePush(popped, dst, v)
      w == IF u.dict[src].val = << >> THEN dbDelete(u, src) ELSE u
  IN  IF ~Exists(s, src) \/ TypeError(s, src, "list") THEN s
      ELSE IF TypeError(t, dst, "list") THEN t
      ELSE Dirty(signalModifiedKey(w, src))

-----------------------------------------------------------------------------
(* Blocking *)

\* blocking[key] lists the clients that wait for it in the order they came,
\* bpop[client] what a client waits for.
blockForKeys(s, keys, where, target) ==
  LET waits == {<<s.db, keys[i]>> : i \in DOMAIN keys}
  IN  [s EXCEPT !.blocking = [x \in Slot |-> IF x \in waits THEN Append(@[x], s.client) ELSE @[x]],
                !.bpop[s.client] = [keys |-> waits, where |-> where, target |-> target]]

unblockClientWaitingData(s, c) ==
  [s EXCEPT !.blocking = [x \in Slot |-> SelectSeq(@[x], LAMBDA d : d # c)], !.bpop[c] = Nil]

\* The client gets v, already popped; BRPOPLPUSH pushes it on.
serveClientBlockedOnList(s, k, v, wait) ==
  IF wait.target = Nil
  THEN Propagated(s, <<IF wait.where = "head" THEN "lpop" ELSE "rpop", k>>)
  ELSE Propagated(rpoplpushHandlePush(Propagated(s, <<"rpop", k>>), wait.target, v),
                  <<"lpush", wait.target, <<v>>>>)

\* Serve the first client of k, or give its element back when the destination
\* is of another type.
ServeFirst(s, k) ==
  LET c == Head(s.blocking[<<s.db, k>>])
      wait == s.bpop[c]
      l == s.dict[k].val
      v == Popped(l, wait.where)
      t == unblockClientWaitingData([s EXCEPT !.dict[k] = List(listTypePop(l, wait.where))], c)
      u == IF wait.target = Nil THEN t ELSE lookupKeyWrite(t, wait.target)
  IN  IF wait.target # Nil /\ TypeError(u, wait.target, "list")
      THEN [u EXCEPT !.dict[k] = List(listTypePush(@.val, v, wait.where))]
      ELSE serveClientBlockedOnList(u, k, v, wait)

\* As many clients as there were when the key became ready, while data lasts.
ServeAll(s, k) ==
  LET more[n \in 0..Cardinality(Client)] ==
        IF n = 0 THEN s ELSE IF more[n - 1].dict[k].val = << >> THEN more[n - 1] ELSE ServeFirst(more[n - 1], k)
  IN  more[Len(s.blocking[<<s.db, k>>])]
DropEmpty(s, k) == IF s.dict[k].val = << >> THEN dbDelete(s, k) ELSE s
ServeKey(s, k) == IF ~Exists(s, k) \/ TypeError(s, k, "list") THEN s ELSE DropEmpty(ServeAll(s, k), k)

\* Until no key is ready: a served BRPOPLPUSH can make another key ready.
\* Each round serves a client or drops a key, which bounds the rounds.
ServeReady(s) ==
  IF s.ready = << >> THEN s
  ELSE LET x == Head(s.ready)
       IN  selectDb(ServeKey(lookupKeyWrite(selectDb([s EXCEPT !.ready = Tail(@)], x[1]), x[2]), x[2]), s.db)
handleClientsBlockedOnLists(s0) ==
  LET rounds[n \in 0..2 * Cardinality(Client) + 2 * Cardinality(Key)] ==
        IF n = 0 THEN s0 ELSE ServeReady(rounds[n - 1])
  IN  rounds[2 * Cardinality(Client) + 2 * Cardinality(Key)]

\* BLPOP and BRPOP of one or more keys: the first list with data is popped, and
\* the command propagated as the pop it became.
blockingPopGenericCommand(s0, keys, where) ==
  LET seen[i \in 0..Len(keys)] == IF i = 0 THEN s0 ELSE lookupKeyWrite(seen[i - 1], keys[i])
      found == {i \in DOMAIN keys : Exists(seen[i], keys[i])}
      i == CHOOSE i \in found : \A j \in found : i <= j
      s == seen[i]
      k == keys[i]
  IN  IF found = {} THEN
        (IF s0.multi THEN seen[Len(keys)] ELSE blockForKeys(seen[Len(keys)], keys, where, Nil))
      ELSE IF TypeError(s, k, "list") THEN s
      ELSE rewriteClientCommandVector(Shrunk(s, k, List(listTypePop(s.dict[k].val, where))),
                                      <<IF where = "head" THEN "lpop" ELSE "rpop", k>>)

brpoplpushCommand(s0, src, dst) ==
  LET s == lookupKeyWrite(s0, src)
  IN  IF ~Exists(s, src) THEN
        (IF s.multi THEN s ELSE blockForKeys(s, <<src>>, "tail", dst))
      ELSE IF TypeError(s, src, "list") THEN s ELSE rpoplpushCommand(s, src, dst)
=============================================================================
