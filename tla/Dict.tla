-------------------------------- MODULE Dict --------------------------------
(* The hash table of Redis (redis-3.0.3/src/dict.c): chaining, incremental   *)
(* rehashing between two tables, safe iterators and the cursor of SCAN.      *)
(*                                                                           *)
(* A table is [size, table]: table[i] is the chain of bucket i, the newest   *)
(* key first.  A dictionary is [ht0, ht1, rehashidx, iterators, can], can    *)
(* being dict_can_resize.                                                    *)
EXTENDS Integers, Sequences, FiniteSets, SequencesExt

CONSTANTS Hash,           \* dictHashKey: the hash of a key
          InitialSize,    \* DICT_HT_INITIAL_SIZE, 4
          ForceRatio,     \* dict_force_resize_ratio, 5
          Bits            \* bits of a cursor, 64

NoTable == [size |-> 0, table |-> << >>]
NewTable(n) == [size |-> n, table |-> [i \in 0..n - 1 |-> << >>]]
dictCreate == [ht0 |-> NoTable, ht1 |-> NoTable, rehashidx |-> -1, iterators |-> 0, can |-> TRUE]

KeysOf(t) == IF t.size = 0 THEN {} ELSE UNION {ToSet(t.table[i]) : i \in 0..t.size - 1}
Used(t) == IF t.size = 0 THEN 0
           ELSE FoldLeft(LAMBDA n, c : n + Len(c), 0, [i \in 1..t.size |-> t.table[i - 1]])
dictIsRehashing(d) == d.rehashidx # -1

\* h & sizemask: the sizes are powers of two.
Bucket(t, k) == Hash[k] % t.size
Chained(t, k) == [t EXCEPT !.table[Bucket(t, k)] = <<k>> \o @]
Unchained(t, k) == [t EXCEPT !.table[Bucket(t, k)] = SelectSeq(@, LAMBDA x : x # k)]

_dictNextPower(n) == CHOOSE p \in {InitialSize * 2 ^ i : i \in 0..Bits} :
                       p >= n /\ (p = InitialSize \/ p \div 2 < n)

dictExpand(d, size) ==
  LET n == _dictNextPower(size)
  IN  IF dictIsRehashing(d) \/ Used(d.ht0) > size \/ n = d.ht0.size THEN d
      ELSE IF d.ht0.size = 0 THEN [d EXCEPT !.ht0 = NewTable(n)]
      ELSE [d EXCEPT !.ht1 = NewTable(n), !.rehashidx = 0]

dictResize(d) ==
  IF ~d.can \/ dictIsRehashing(d) THEN d
  ELSE dictExpand(d, IF Used(d.ht0) < InitialSize THEN InitialSize ELSE Used(d.ht0))

\* The chain of the bucket at rehashidx moves, front to back; an emptied table
\* is replaced by the new one.
MoveBucket(d) ==
  [d EXCEPT !.ht1 = FoldLeft(Chained, @, d.ht0.table[d.rehashidx]),
            !.ht0.table[d.rehashidx] = << >>, !.rehashidx = @ + 1]
SwapTables(d) ==
  IF Used(d.ht0) # 0 THEN d ELSE [d EXCEPT !.ht0 = d.ht1, !.ht1 = NoTable, !.rehashidx = -1]
SkipEmpty(d) ==
  [d EXCEPT !.rehashidx = CHOOSE i \in @..d.ht0.size - 1 :
     d.ht0.table[i] # << >> /\ \A j \in @..i - 1 : d.ht0.table[j] = << >>]

\* One step of rehashing.  (At most 10 empty buckets are skipped at a time, which
\* no table here has.)
dictRehash(d) ==
  IF ~dictIsRehashing(d) THEN d
  ELSE SwapTables(IF Used(d.ht0) = 0 THEN d ELSE MoveBucket(SkipEmpty(d)))

_dictRehashStep(d) == IF d.iterators = 0 THEN dictRehash(d) ELSE d

_dictExpandIfNeeded(d) ==
  IF dictIsRehashing(d) THEN d
  ELSE IF d.ht0.size = 0 THEN dictExpand(d, InitialSize)
  ELSE IF Used(d.ht0) >= d.ht0.size /\ (d.can \/ Used(d.ht0) \div d.ht0.size > ForceRatio)
  THEN dictExpand(d, 2 * Used(d.ht0)) ELSE d

\* In both tables while rehashing.
dictFound(d, k) ==
  /\ d.ht0.size # 0
  /\ \/ k \in ToSet(d.ht0.table[Bucket(d.ht0, k)])
     \/ dictIsRehashing(d) /\ k \in ToSet(d.ht1.table[Bucket(d.ht1, k)])

\* New keys go to the new table while rehashing.
AddTo(d, k) ==
  IF dictFound(d, k) THEN d
  ELSE IF dictIsRehashing(d) THEN [d EXCEPT !.ht1 = Chained(@, k)] ELSE [d EXCEPT !.ht0 = Chained(@, k)]
dictAdd(d, k) == AddTo(_dictExpandIfNeeded(_dictRehashStep(d)), k)

DeleteFrom(d, k) ==
  IF ~dictFound(d, k) THEN d
  ELSE IF k \in KeysOf(d.ht0) THEN [d EXCEPT !.ht0 = Unchained(@, k)] ELSE [d EXCEPT !.ht1 = Unchained(@, k)]
dictDelete(d, k) == IF d.ht0.size = 0 THEN d ELSE DeleteFrom(_dictRehashStep(d), k)

\* dictFind also rehashes.
dictFind(d, k) == IF d.ht0.size = 0 THEN d ELSE _dictRehashStep(d)

dictKeys(d) == KeysOf(d.ht0) \cup KeysOf(d.ht1)

\* dictGetRandomKey: every key of a non-empty bucket from rehashidx on.
dictGetRandomKey(d) ==
  IF ~dictIsRehashing(d) THEN KeysOf(d.ht0)
  ELSE UNION {ToSet(d.ht0.table[i]) : i \in d.rehashidx..d.ht0.size - 1} \cup KeysOf(d.ht1)

-----------------------------------------------------------------------------
(* A safe iterator: table, index, the rest of the bucket, what it returned *)

dictGetSafeIterator == [table |-> 0, index |-> -1, rest |-> << >>, seen |-> << >>, end |-> FALSE]

\* The next bucket after the iterator's that has keys, in this table or, while
\* rehashing, in the second one.  nextEntry was read before the caller got the
\* entry, so that the caller may delete that one.
Buckets(d) ==
  [i \in 1..d.ht0.size |-> <<0, i - 1>>]
  \o (IF dictIsRehashing(d) THEN [i \in 1..d.ht1.size |-> <<1, i - 1>>] ELSE << >>)
ChainAt(d, b) == IF b[1] = 0 THEN d.ht0.table[b[2]] ELSE d.ht1.table[b[2]]
AfterBucket(d, it) ==
  SelectSeq(Buckets(d), LAMBDA b : (b[1] > it.table \/ (b[1] = it.table /\ b[2] > it.index)) /\ ChainAt(d, b) # << >>)
Advance(d, it, left) ==
  IF left = << >> THEN [it EXCEPT !.end = TRUE]
  ELSE [it EXCEPT !.table = left[1][1], !.index = left[1][2], !.rest = Tail(ChainAt(d, left[1])),
                  !.seen = Append(@, Head(ChainAt(d, left[1])))]
dictNext(d, it) ==
  IF it.rest # << >> THEN [it EXCEPT !.rest = Tail(@), !.seen = Append(@, Head(it.rest))]
  ELSE Advance(d, it, AfterBucket(d, it))

-----------------------------------------------------------------------------
(* SCAN *)

\* rev: the bits of a cursor, reversed
rev(v) ==
  LET r[i \in 0..Bits] == IF i = 0 THEN 0 ELSE 2 * r[i - 1] + ((v \div 2 ^ (i - 1)) % 2)
  IN  r[Bits]

\* Set the unmasked bits and increment the reversed cursor.
NextCursor(v, size) == rev((rev((v % size) + 2 ^ Bits - size) + 1) % 2 ^ Bits)

Smaller(d) == IF d.ht0.size > d.ht1.size THEN d.ht1 ELSE d.ht0
Larger(d) == IF d.ht0.size > d.ht1.size THEN d.ht0 ELSE d.ht1

\* MUTANT: only the bucket at the cursor is read of the larger table.
OneBucket(v, small, large) == {v % large}

\* The buckets of the larger table from the cursor on that are expansions of the
\* cursor in the smaller one.
Expansions(v, small, large) ==
  {i \in 0..large - 1 : i % small = v % small /\ i \div small >= (v % large) \div small}

\* What one call emits, and the cursor it returns.
dictScanKeys(d, v) ==
  IF ~dictIsRehashing(d) THEN ToSet(d.ht0.table[v % d.ht0.size])
  ELSE ToSet(Smaller(d).table[v % Smaller(d).size])
       \cup UNION {ToSet(Larger(d).table[i]) : i \in Expansions(v, Smaller(d).size, Larger(d).size)}
dictScanCursor(d, v) ==
  IF dictKeys(d) = {} THEN 0
  ELSE NextCursor(v, IF dictIsRehashing(d) THEN Smaller(d).size ELSE d.ht0.size)

\* Every key is in its bucket of one table, once, and the buckets before
\* rehashidx are empty.
DictSound(d) ==
  /\ KeysOf(d.ht0) \cap KeysOf(d.ht1) = {}
  /\ Used(d.ht0) + Used(d.ht1) = Cardinality(dictKeys(d))
  /\ \A t \in {d.ht0, d.ht1} : \A i \in 0..t.size - 1 : \A k \in ToSet(t.table[i]) : Hash[k] % t.size = i
  /\ dictIsRehashing(d) => d.ht1.size > 0 /\ \A i \in 0..d.rehashidx - 1 : d.ht0.table[i] = << >>
  /\ ~dictIsRehashing(d) => d.ht1 = NoTable
  /\ dictGetRandomKey(d) = dictKeys(d)
=============================================================================
