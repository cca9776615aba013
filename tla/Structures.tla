----------------------------- MODULE Structures -----------------------------
(* One value of the key space, in the encodings Redis gives it, next to what *)
(* it stands for.  kind is what the value is; o the object in memory; ref    *)
(* the list, set, map, registers or keys the commands so far make of it.     *)
(* A dictionary can be scanned (SCAN, across commands) or iterated (within   *)
(* one): scan and iter are what has been asked for and returned.             *)
EXTENDS Rdb

-----------------------------------------------------------------------------
(* The registers of a HyperLogLog (redis-3.0.3/src/hyperloglog.c).           *)
(*                                                                           *)
(* Sparse, the registers are a sequence of opcodes: a run of zeros (ZERO of  *)
(* one byte, XZERO of two for long runs) or of equal values (VAL).  Dense,   *)
(* they are an array.  cache is the cardinality of the header, Nil when it   *)
(* is stale; the estimate is a function of the registers, which stand for it.*)

CONSTANTS Registers,       \* HLL_REGISTERS, 2^14
          ZeroMaxLen,      \* HLL_SPARSE_ZERO_MAX_LEN, 64
          ValMaxLen,       \* HLL_SPARSE_VAL_MAX_LEN, 4
          ValMax,          \* HLL_SPARSE_VAL_MAX_VALUE, 32
          SparseMaxBytes,  \* server.hll_sparse_max_bytes, without the header
          Stale

Zero(n) == [op |-> IF n > ZeroMaxLen THEN "xzero" ELSE "zero", len |-> n, val |-> 0]
Val(v, n) == [op |-> "val", len |-> n, val |-> v]
ByteLen(ops) == FoldLeft(LAMBDA n, o : n + (IF o.op = "xzero" THEN 2 ELSE 1), 0, ops)

\* hllSparseToDense, and what the registers hold in either encoding
hllSparseToDense(ops) ==
  FoldLeft(LAMBDA regs, o : regs \o [i \in 1..o.len |-> o.val], << >>, ops)
RegistersOf(h) == IF h.enc = "dense" THEN h.regs ELSE hllSparseToDense(h.regs)

createHLLObject == [enc |-> "sparse", regs |-> <<Zero(Registers)>>, cache |-> Stale]

hllDenseAdd(regs, index, count) == [regs EXCEPT ![index] = IF count > @ THEN count ELSE @]
Promoted(h, index, count) ==
  [enc |-> "dense", regs |-> hllDenseAdd(hllSparseToDense(h.regs), index, count), cache |-> Stale]

\* Step 1: the opcode that covers a register, and the first register it covers.
FirstOf(ops, j) == FoldLeft(LAMBDA n, o : n + o.len, 1, SubSeq(ops, 1, j - 1))
Covering(ops, index) == CHOOSE j \in DOMAIN ops : FirstOf(ops, j) <= index /\ index < FirstOf(ops, j) + ops[j].len

\* Step 2: the opcode is split around the register.
Split(o, first, index, count) ==
  LET Part(n) == IF n = 0 THEN << >> ELSE IF o.op = "val" THEN <<Val(o.val, n)>> ELSE <<Zero(n)>>
  IN  Part(index - first) \o <<Val(count, 1)>> \o Part(first + o.len - 1 - index)

\* Step 4: opcode j and the next one become one when they can.
Merged(ops, j) ==
  IF /\ j + 1 \in DOMAIN ops /\ ops[j].op = "val" /\ ops[j + 1].op = "val"
     /\ ops[j].val = ops[j + 1].val /\ ops[j].len + ops[j + 1].len <= ValMaxLen
  THEN SubSeq(ops, 1, j - 1) \o <<Val(ops[j].val, ops[j].len + ops[j + 1].len)>> \o SubSeq(ops, j + 2, Len(ops))
  ELSE ops
MergeAround(ops, j) ==
  LET scan[k \in 0..5] ==
        IF k = 0 THEN [ops |-> ops, p |-> j]
        ELSE LET x == scan[k - 1]
                 y == Merged(x.ops, x.p)
             IN  IF x.p > Len(x.ops) THEN x
                 ELSE IF y # x.ops THEN [ops |-> y, p |-> x.p] ELSE [x EXCEPT !.p = @ + 1]
  IN  scan[5].ops

hllSparseAdd(h, index, count) ==
  LET ops == h.regs
      j == Covering(ops, index)
      o == ops[j]
      seq == Split(o, FirstOf(ops, j), index, count)
      delta == ByteLen(seq) - ByteLen(<<o>>)
      new == SubSeq(ops, 1, j - 1) \o seq \o SubSeq(ops, j + 1, Len(ops))
  IN  IF count > ValMax THEN Promoted(h, index, count)
      ELSE IF o.op = "val" /\ o.val >= count THEN h
      ELSE IF delta > 0 /\ ByteLen(ops) + delta > SparseMaxBytes THEN Promoted(h, index, count)
      ELSE [h EXCEPT !.regs = MergeAround(new, IF j > 1 THEN j - 1 ELSE 1), !.cache = Stale]

hllAdd(h, index, count) ==
  IF h.enc = "sparse" THEN hllSparseAdd(h, index, count)
  ELSE LET regs == hllDenseAdd(h.regs, index, count)
       IN  IF regs = h.regs THEN h ELSE [h EXCEPT !.regs = regs, !.cache = Stale]

\* PFCOUNT of one key computes and caches the cardinality when it is stale.
pfcountCommand(h) == IF h.cache = Stale THEN [h EXCEPT !.cache = RegistersOf(h)] ELSE h

\* PFMERGE: the destination becomes dense and holds the maximum of both.
hllMerge(a, b) == [i \in 1..Registers |-> IF a[i] < b[i] THEN b[i] ELSE a[i]]
pfmergeCommand(h, regs) == [enc |-> "dense", regs |-> hllMerge(RegistersOf(h), regs), cache |-> Stale]

\* The opcodes are ones the format has, in the shortest form, and cover all
\* registers; a cached cardinality is the current one.
HllSound(h) ==
  /\ h.enc = "sparse" =>
       \A j \in DOMAIN h.regs : LET o == h.regs[j]
         IN  /\ o.len > 0
             /\ o.op = "val" => o.val \in 1..ValMax /\ o.len <= ValMaxLen
             /\ o.op # "val" => (o.op = "xzero" <=> o.len > ZeroMaxLen)
  /\ Len(RegistersOf(h)) = Registers
  /\ h.cache # Stale => h.cache = RegistersOf(h)

-----------------------------------------------------------------------------
CONSTANTS Kinds,
          ListValues, ListMax,     \* what lists hold, and the longest list
          SetValues,
          HashFields, HashValues,
          Elements, Scores,        \* of sorted sets: numbers from 1, from 0
          Counts, Merges,          \* of HyperLogLogs: run lengths; registers to merge
          Keys,                    \* of dictionaries
          LoadLimits               \* entries a small encoding may have where a value is loaded

VARIABLES kind, o, ref, scan, iter
vars == <<kind, o, ref, scan, iter>>

NoScan == [on |-> FALSE, cursor |-> 0, got |-> {}, must |-> {}, shrank |-> FALSE]
NoIter == [on |-> FALSE, it |-> dictGetSafeIterator, must |-> {}]
Absent == [enc |-> "absent", p |-> 0]

NewObject(k) ==
  CASE k = "list" -> createZiplistObject [] k = "set" -> Absent [] k = "hash" -> createHashObject
    [] k = "zset" -> createZsetZiplistObject [] k = "hll" -> createHLLObject [] k = "dict" -> dictCreate
NewRef(k) ==
  CASE k = "list" -> << >> [] k \in {"set", "dict"} -> {}
    [] k \in {"hash", "zset"} -> [x \in {} |-> 0] [] k = "hll" -> [i \in 1..Registers |-> 0]
Init ==
  /\ kind \in Kinds
  /\ o = NewObject(kind)
  /\ ref = NewRef(kind)
  /\ scan = NoScan
  /\ iter = NoIter

\* A value that has become empty is deleted; the next command makes a new one.
Becomes(new, empty, newref) ==
  /\ o' = IF empty THEN NewObject(kind) ELSE new
  /\ ref' = newref
  /\ UNCHANGED <<kind, scan, iter>>
Put(f, x, y) == [z \in DOMAIN f \cup {x} |-> IF z = x THEN y ELSE f[z]]
Without(f, S) == [z \in DOMAIN f \ S |-> f[z]]

\* An insertion has cut the end of a ziplist: nobody knows what it holds.
Spoilt == kind \in {"list", "hash", "zset"} /\ o.enc = "ziplist" /\ o.p.lost
Del == kind # "dict" /\ o # NewObject(kind) /\ Becomes(o, TRUE, NewRef(kind))

-----------------------------------------------------------------------------
(* Lists *)

Push(v, where) ==
  /\ kind = "list" /\ Len(ref) < ListMax
  /\ Becomes(listTypePush(o, v, where), FALSE, IF where = "head" THEN <<v>> \o ref ELSE Append(ref, v))
Pop(where) ==
  /\ kind = "list" /\ ref # << >>
  /\ Becomes(listTypePop(o, where), Len(ref) = 1, IF where = "head" THEN Tail(ref) ELSE Front(ref))
Linsert(pivot, v, after) ==
  /\ kind = "list" /\ ref # << >> /\ Len(ref) < ListMax
  /\ LET at == {i \in DOMAIN ref : ref[i] = pivot /\ \A j \in 1..i - 1 : ref[j] # pivot}
     IN  Becomes(listTypeInsert(o, pivot, v, after), FALSE,
                 IF at = {} THEN ref ELSE InsertAt(ref, (CHOOSE i \in at : TRUE) + (IF after THEN 1 ELSE 0), v))
Lset(index, v) ==
  /\ kind = "list" /\ index \in -Len(ref)..Len(ref) - 1
  /\ Becomes(lsetCommand(o, index, v), FALSE,
             IF index >= 0 THEN [ref EXCEPT ![index + 1] = v] ELSE [ref EXCEPT ![Len(ref) + index + 1] = v])
Lrem(v, forward) ==
  /\ kind = "list" /\ \E i \in DOMAIN ref : ref[i] = v
  /\ LET at == {i \in DOMAIN ref : ref[i] = v}
         i == CHOOSE x \in at : \A y \in at : IF forward THEN x <= y ELSE y <= x
     IN  Becomes(lremCommand(o, v, forward), Len(ref) = 1, RemoveAt(ref, i))
Ltrim(ltrim, rtrim) ==
  /\ kind = "list" /\ ref # << >> /\ ltrim + rtrim <= Len(ref)
  /\ Becomes(ltrimCommand(o, ltrim, rtrim), ltrim + rtrim = Len(ref), SubSeq(ref, ltrim + 1, Len(ref) - rtrim))

ListSteps ==
  \/ \E v \in ListValues, where \in {"head", "tail"} : Push(v, where)
  \/ \E where \in {"head", "tail"} : Pop(where)
  \/ \E pivot, v \in ListValues, after \in BOOLEAN : Linsert(pivot, v, after)
  \/ \E v \in ListValues, index \in -ListMax..ListMax - 1 : Lset(index, v)
  \/ \E v \in ListValues, forward \in BOOLEAN : Lrem(v, forward)
  \/ \E l, r \in 0..ListMax : Ltrim(l, r)

-----------------------------------------------------------------------------
(* Sets and hashes *)

Sadd(v) ==
  /\ kind = "set"
  /\ Becomes(setTypeAdd(IF o.enc = "absent" THEN setTypeCreate(v) ELSE o, v), FALSE, ref \cup {v})
Srem(v) ==
  /\ kind = "set" /\ o.enc # "absent"
  /\ Becomes(setTypeRemove(o, v), ref \subseteq {v}, ref \ {v})
Hset(f, v) ==
  /\ kind = "hash"
  /\ Becomes(hashTypeSet(o, f, v), FALSE, Put(ref, f, v))
Hdel(f) ==
  /\ kind = "hash" /\ DOMAIN ref # {}
  /\ Becomes(hashTypeDelete(o, f), DOMAIN ref \subseteq {f}, Without(ref, {f}))

-----------------------------------------------------------------------------
(* Sorted sets *)

Zadd(ele, score, lv) ==
  /\ kind = "zset"
  /\ Becomes(zaddGenericCommand(o, ele, score, lv), FALSE, Put(ref, ele, score))
Zrem(ele) ==
  /\ kind = "zset" /\ DOMAIN ref # {}
  /\ Becomes(zremCommand(o, ele), DOMAIN ref \subseteq {ele}, Without(ref, {ele}))

\* What a sorted set is: its elements in order.
Sorted(f) == SetToSortSeq(DOMAIN f, LAMBDA x, y : f[x] < f[y] \/ (f[x] = f[y] /\ x < y))
OneScore(f) == \A x, y \in DOMAIN f : f[x] = f[y]
Within(v, range) == zslValueGteMin(v, range) /\ zslValueLteMax(v, range)
InRange(f, range, lex) == {x \in DOMAIN f : Within(IF lex THEN x ELSE f[x], range)}
Ranges(S) == [min : S, max : S, minex : BOOLEAN, maxex : BOOLEAN]

\* A range of elements means something only among equal scores.
ZremRange(range, lex) ==
  /\ kind = "zset" /\ DOMAIN ref # {} /\ (lex => OneScore(ref))
  /\ Becomes(zremrangeByRange(o, range, lex), InRange(ref, range, lex) = DOMAIN ref,
             Without(ref, InRange(ref, range, lex)))
ZremRank(start, end) ==
  /\ kind = "zset" /\ start <= end /\ end <= Cardinality(DOMAIN ref)
  /\ Becomes(zremrangeByRank(o, start, end), start = 1 /\ end = Cardinality(DOMAIN ref),
             Without(ref, {Sorted(ref)[i] : i \in start..end}))

ZsetSteps ==
  \/ \E ele \in Elements, score \in Scores, lv \in [Elements -> 1..MaxLevel] : Zadd(ele, score, lv)
  \/ \E ele \in Elements : Zrem(ele)
  \/ \E range \in Ranges(Scores) : ZremRange(range, FALSE)
  \/ \E range \in Ranges(Elements) : ZremRange(range, TRUE)
  \/ \E start, end \in 1..Cardinality(Elements) : ZremRank(start, end)

-----------------------------------------------------------------------------
(* HyperLogLogs *)

PfAdd(index, count) ==
  /\ kind = "hll"
  /\ Becomes(hllAdd(o, index, count), FALSE, [ref EXCEPT ![index] = IF count > @ THEN count ELSE @])
PfCount == kind = "hll" /\ Becomes(pfcountCommand(o), FALSE, ref)
PfMerge(regs) == kind = "hll" /\ Becomes(pfmergeCommand(o, regs), FALSE, hllMerge(ref, regs))

-----------------------------------------------------------------------------
(* Dictionaries *)

\* A step that changes the keys: a scan or an iterator owes only what stays.
DictStep(d, keys) ==
  /\ o' = d
  /\ ref' = keys
  /\ scan' = [scan EXCEPT !.must = @ \cap keys,
                          !.shrank = @ \/ (scan.on /\ dictIsRehashing(d) /\ d.ht0.size > 2 * d.ht1.size)]
  /\ iter' = [iter EXCEPT !.must = @ \cap keys]
  /\ UNCHANGED kind
DictAdd(k) == kind = "dict" /\ DictStep(dictAdd(o, k), ref \cup {k})
\* Under an iterator only the key it returned last may be deleted.
DictDelete(k) ==
  /\ kind = "dict" /\ k \in ref
  /\ iter.on => iter.it.seen # << >> /\ Last(iter.it.seen) = k
  /\ DictStep(dictDelete(o, k), ref \ {k})
DictFind(k) == kind = "dict" /\ DictStep(dictFind(o, k), ref)
\* serverCron: tryResizeHashTables, incrementallyRehash; updateDictResizePolicy
\* when a child starts or ends.
DictCron ==
  /\ kind = "dict" /\ ~iter.on
  /\ \/ htNeedsResize(o) /\ DictStep(dictResize(o), ref)
     \/ dictIsRehashing(o) /\ DictStep(dictRehash(o), ref)
     \/ DictStep([o EXCEPT !.can = ~@], ref)

Scan ==
  /\ kind = "dict" /\ o.ht0.size > 0 /\ ~iter.on /\ ~(scan.on /\ scan.cursor = 0)
  /\ scan' = [on |-> TRUE, cursor |-> dictScanCursor(o, scan.cursor), got |-> scan.got \cup dictScanKeys(o, scan.cursor),
              must |-> IF scan.on THEN scan.must ELSE ref,
              shrank |-> scan.shrank]
  /\ UNCHANGED <<kind, o, ref, iter>>
ScanOver == scan.on /\ scan.cursor = 0 /\ scan' = NoScan /\ UNCHANGED <<kind, o, ref, iter>>

\* A safe iterator stops rehashing from its first step to its release.
IterNext ==
  /\ kind = "dict" /\ o.ht0.size > 0 /\ ~scan.on /\ ~iter.it.end
  /\ iter' = [on |-> TRUE, it |-> dictNext(o, iter.it), must |-> IF iter.on THEN iter.must ELSE ref]
  /\ o' = [o EXCEPT !.iterators = 1]
  /\ UNCHANGED <<kind, ref, scan>>
IterRelease ==
  /\ iter.on /\ iter' = NoIter
  /\ o' = [o EXCEPT !.iterators = 0]
  /\ UNCHANGED <<kind, ref, scan>>

Steps ==
  \/ ListSteps
  \/ \E v \in SetValues : Sadd(v) \/ Srem(v)
  \/ \E f \in HashFields : Hdel(f) \/ \E v \in HashValues : Hset(f, v)
  \/ ZsetSteps
  \/ \E i \in 1..Registers, c \in Counts : PfAdd(i, c)
  \/ PfCount
  \/ \E regs \in Merges : PfMerge(regs)
  \/ \E k \in Keys : DictAdd(k) \/ DictDelete(k) \/ DictFind(k)
  \/ DictCron \/ Scan \/ ScanOver \/ IterNext \/ IterRelease
Next == (~Spoilt /\ Steps) \/ Del
Spec == Init /\ [][Next]_vars

-----------------------------------------------------------------------------
(* Properties *)

ListAnswers ==
  /\ listTypeIterator(o, 0, TRUE) = ref
  /\ listTypeIterator(o, -1, FALSE) = Reverse(ref)
  /\ listTypeLength(o) = Len(ref)
  /\ \A s \in 0..Len(ref) - 1 : \A e \in s..Len(ref) - 1 : lrangeCommand(o, s, e) = SubSeq(ref, s + 1, e + 1)
  /\ \A i \in 1..Len(ref) : lindexCommand(o, i - 1) = <<ref[i]>> /\ lindexCommand(o, i - 1 - Len(ref)) = <<ref[i]>>
  /\ lindexCommand(o, Len(ref)) = << >> /\ lindexCommand(o, -Len(ref) - 1) = << >>
  /\ o.enc = "linkedlist" =>
       /\ listIter(listDup(o.p), listDup(o.p).head, TRUE) = ref
       /\ listIter(listRotate(o.p), listRotate(o.p).head, TRUE) = <<Last(ref)>> \o Front(ref)
       /\ AdlistSound(listRotate(o.p))
       /\ \A v \in ListValues : listSearchKey(o.p, v) = 0 <=> v \notin ToSet(ref)
SetAnswers ==
  IF o.enc = "absent" THEN ref = {}
  ELSE /\ ToSet(setTypeIterator(o)) = ref /\ IsInjective(setTypeIterator(o))
       /\ setTypeSize(o) = Cardinality(ref)
       /\ \A v \in SetValues : setTypeIsMember(o, v) <=> v \in ref
       /\ setTypeRandomElement(o) = ref
HashAnswers ==
  /\ hashTypeLength(o) = Cardinality(DOMAIN ref)
  /\ \A f \in HashFields : /\ hashTypeExists(o, f) <=> f \in DOMAIN ref
                           /\ hashTypeGet(o, f) = (IF f \in DOMAIN ref THEN ref[f] ELSE -1)

\* What LIMIT leaves of a sequence.
Limited(seq, offset, limit) ==
  IF offset < 0 THEN << >>
  ELSE SubSeq(seq, offset + 1, IF limit < 0 \/ offset + limit > Len(seq) THEN Len(seq) ELSE offset + limit)
InDirection(seq, reverse) == IF reverse THEN Reverse(seq) ELSE seq
Limits == {<<0, -1>>, <<1, 1>>, <<-1, -1>>}
RangeAnswers(range, lex, in) ==
  /\ zcountCommand(o, range, lex) = Len(in)
  /\ \A reverse \in BOOLEAN, l \in Limits :
       genericZrangebyCommand(o, range, lex, reverse, l[1], l[2]) = Limited(InDirection(in, reverse), l[1], l[2])
RankAnswers(order) ==
  /\ zsetLength(o) = Len(order)
  /\ \A reverse \in BOOLEAN :
       /\ \A s, e \in -2..Len(order) : zrangeGenericCommand(o, s, e, reverse) =
            LET r == FromTo(Len(order), s, e) IN SubSeq(InDirection(order, reverse), r.start + 1, r.end + 1)
       /\ \A i \in 1..Len(order) : zrankGenericCommand(o, order[i], reverse) = (IF reverse THEN Len(order) - i ELSE i - 1)
  /\ \A m \in Elements : zscoreCommand(o, m) = (IF m \in DOMAIN ref THEN ref[m] ELSE -1)
ZsetAnswers(order) ==
  /\ RankAnswers(order)
  /\ \A range \in Ranges(Scores) : RangeAnswers(range, FALSE, SelectSeq(order, LAMBDA x : Within(ref[x], range)))
  /\ OneScore(ref) =>
       \A range \in Ranges(Elements) : RangeAnswers(range, TRUE, SelectSeq(order, LAMBDA x : Within(x, range)))

Answers ==
  CASE kind = "list" -> ListAnswers [] kind = "set" -> SetAnswers [] kind = "hash" -> HashAnswers
    [] kind = "zset" -> ZsetAnswers(Sorted(ref))
    [] kind = "hll" -> RegistersOf(o) = ref /\ (o.cache # Stale => o.cache = ref)
    [] kind = "dict" -> dictKeys(o) = ref /\ \A k \in Keys : dictFound(o, k) <=> k \in ref
WellFormed ==
  CASE kind = "list" -> ListSound(o) [] kind = "set" -> o.enc = "absent" \/ SetSound(o)
    [] kind = "hash" -> o.enc = "ziplist" => ZiplistSound(o.p)
    [] kind = "zset" -> ZsetSound(o) [] kind = "hll" -> HllSound(o) [] kind = "dict" -> DictSound(o)

\* Whatever commands made it, in whichever encoding it is by now, a value whose
\* ziplist was not cut by a short insertion (CutsTail, ziplist.c 616-626) answers
\* every query as the list, set, map, sorted set or registers it stands for: the
\* readers of t_list.c, t_set.c, t_hash.c, t_zset.c and hyperloglog.c over
\* ziplists, linked lists, intsets, dictionaries and skip lists.  And its memory
\* stays what the format says: stored lengths and offsets of a ziplist after a
\* cascade of growing fields, both ends of a linked list, the spans of a skip list,
\* the buckets of a dictionary in the middle of rehashing, the runs of a sparse
\* HyperLogLog.
Represents == ~Spoilt => Answers /\ WellFormed

\* What an object stands for.
ValueOf(x) ==
  CASE kind = "list" -> listTypeIterator(x, 0, TRUE)
    [] kind = "set" -> IF x.enc = "absent" THEN {} ELSE ToSet(setTypeIterator(x))
    [] kind = "zset" -> [m \in {e \in Elements : zscoreCommand(x, e) # -1} |-> zscoreCommand(x, m)]
    [] kind = "hash" -> [f \in {g \in HashFields : hashTypeExists(x, g)} |-> hashTypeGet(x, f)]
SoundValue(x) ==
  CASE kind = "list" -> ListSound(x) [] kind = "set" -> x.enc = "ht" => DictSound(x.p)
    [] kind = "hash" -> x.enc = "ziplist" => ZiplistSound(x.p)
    [] kind = "zset" -> (x.enc = "ziplist" => ZiplistSound(x.p)) /\ (x.enc = "skiplist" => ZsetSound(x))
IsCopy(x) == ValueOf(x) = ref /\ SoundValue(x)
OneLevel == [m \in Elements |-> 1]
Zipmap(map) == LET fs == SetToSeq(DOMAIN map) IN [i \in 1..2 * Len(fs) |-> IF i % 2 = 1 THEN fs[(i + 1) \div 2] ELSE map[fs[i \div 2]]]

\* Each way is <<"rdb" or "zipmap", limit>> or <<"aof", 0>>.
Ways == {"rdb"} \X LoadLimits \cup {<<"aof", 0>>} \cup (IF kind = "hash" THEN {"zipmap"} \X LoadLimits ELSE {})
Restored(s, read) == IF verifyDumpPayload(s) /\ read.next = Len(s) - 2 THEN read.v ELSE NewObject(kind)
RestoreFrom(s, lim) == Restored(s, RestoreObject(s, lim, OneLevel))
Replayed(read) ==
  IF read.ok THEN FoldLeft(LAMBDA x, cell : ReplayItem(kind, x, cell.v, OneLevel), NewObject(kind), read.v) ELSE NewObject(kind)
CopyOf(way) ==
  CASE way[1] = "rdb" -> RestoreFrom(createDumpPayload(kind, o), way[2])
    [] way[1] = "aof" -> Replayed(LoadCommands(RewriteOf(kind, o)))
    [] way[1] = "zipmap" -> LoadZipmap(Zipmap(ref), way[2])
\* What is saved is what is loaded.  A value of whatever encoding, with a ziplist
\* that was not cut (CutsTail), that goes through
\* an RDB file, a DUMP and RESTORE or a rewrite of the append only file comes back
\* equal and sound, on a server whose limits of the small encodings are others
\* too (rdbSaveObject, rdbLoadObject, createDumpPayload, rewrite*Object).
Reloads ==
  kind \in {"list", "set", "zset", "hash"} /\ ref # NewRef(kind) /\ ~Spoilt => \A way \in Ways : IsCopy(CopyOf(way))

\* A SCAN that has ended returned every key that was there from its start to its
\* end, although the table grew or was rehashed between its calls (dictScan), unless
\* the table was on its way to a quarter of its size or less during it; a safe iterator that has ended returned every such key once.
ScanComplete ==
  /\ scan.on /\ scan.cursor = 0 /\ ~scan.shrank => scan.must \subseteq scan.got
  /\ iter.it.end => /\ iter.must \subseteq ToSet(iter.it.seen)
                    /\ \A k \in iter.must : Cardinality({i \in DOMAIN iter.it.seen : iter.it.seen[i] = k}) = 1

\* What the comment of dictScan promises: a SCAN that has ended returned every key
\* that was there from its start to its end.
ScanReturnsAll == scan.on /\ scan.cursor = 0 => scan.must \subseteq scan.got
=============================================================================
