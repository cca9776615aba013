----------------------------- MODULE Encodings ------------------------------
(* Lists, sets and hashes in their two encodings (t_list.c, t_set.c and      *)
(* t_hash.c of redis-3.0.3/src): a list is a ziplist or a linked list, a set *)
(* an intset or a dictionary, a hash a ziplist of fields and values or a     *)
(* dictionary.  An object is [enc, p].                                       *)
EXTENDS Ziplist, Dict

-----------------------------------------------------------------------------
(* Sets of integers in one block of memory (redis-3.0.3/src/intset.c).       *)
(*                                                                           *)
(* contents is the memory, in cells: an integer takes 1, 2 or 4 of them      *)
(* (INTSET_ENC_INT16, INT32, INT64), little endian, in two's complement.  A  *)
(* cell has Base values where the code's has 2^16.                           *)

CONSTANT Base

Encodings == {1, 2, 4}
Fits(v, enc) == 2 * v >= -(Base ^ enc) /\ 2 * v < Base ^ enc
_intsetValueEncoding(v) == CHOOSE e \in Encodings : Fits(v, e) /\ \A f \in Encodings : Fits(v, f) => e <= f

\* Memory: the number in enc cells at position pos (from 0), read and written.
_intsetGetEncoded(mem, pos, enc) ==
  LET n[i \in 0..enc] == IF i = 0 THEN 0 ELSE n[i - 1] + mem[pos * enc + i] * Base ^ (i - 1)
  IN  IF 2 * n[enc] >= Base ^ enc THEN n[enc] - Base ^ enc ELSE n[enc]
Written(mem, pos, enc, v) ==
  [i \in DOMAIN mem |-> IF i - pos * enc \in 1..enc
                        THEN ((v % Base ^ enc) \div Base ^ (i - pos * enc - 1)) % Base ELSE mem[i]]

_intsetGet(is, pos) == _intsetGetEncoded(is.contents, pos, is.encoding)
_intsetSet(is, pos, v) == [is EXCEPT !.contents = Written(@, pos, is.encoding, v)]

intsetNew == [encoding |-> 1, length |-> 0, contents |-> << >>]
intsetLen(is) == is.length

\* New memory holds anything; here zeros.
intsetResize(is, len) ==
  [is EXCEPT !.contents = [i \in 1..len * is.encoding |-> IF i <= Len(@) THEN @[i] ELSE 0]]

\* Binary search: where v is, or where it goes.
intsetSearch(is, v) ==
  LET n == is.length
      range[k \in 0..n] ==
        IF k = 0 THEN <<0, n - 1>>
        ELSE LET r == range[k - 1]
                 mid == (r[1] + r[2]) \div 2
             IN  IF r[1] > r[2] \/ _intsetGet(is, mid) = v THEN r
                 ELSE IF v > _intsetGet(is, mid) THEN <<mid + 1, r[2]>> ELSE <<r[1], mid - 1>>
      last == range[n]
      mid == (last[1] + last[2]) \div 2
  IN  IF n = 0 THEN [found |-> FALSE, pos |-> 0]
      ELSE IF v > _intsetGet(is, n - 1) THEN [found |-> FALSE, pos |-> n]
      ELSE IF v < _intsetGet(is, 0) THEN [found |-> FALSE, pos |-> 0]
      ELSE IF last[1] <= last[2] THEN [found |-> TRUE, pos |-> mid]
      ELSE [found |-> FALSE, pos |-> last[1]]

\* The integers are widened in place from the back, so that none is overwritten
\* before it is read.
Widened(is, curenc, prepend) ==
  LET n == is.length
      step[i \in 0..n] ==
        IF i = 0 THEN is
        ELSE _intsetSet(step[i - 1], n - i + prepend, _intsetGetEncoded(step[i - 1].contents, n - i, curenc))
  IN  step[n]

\* A value that needs a wider encoding lies outside of the range of the others.
intsetUpgradeAndAdd(is, v) ==
  LET prepend == IF v < 0 THEN 1 ELSE 0
      grown == intsetResize([is EXCEPT !.encoding = _intsetValueEncoding(v)], is.length + 1)
      wide == Widened(grown, is.encoding, prepend)
  IN  [_intsetSet(wide, IF v < 0 THEN 0 ELSE is.length, v) EXCEPT !.length = @ + 1]

\* memmove of the tail that starts at from
intsetMoveTail(is, from, to) ==
  LET d == (to - from) * is.encoding
      n == (is.length - from) * is.encoding
  IN  [is EXCEPT !.contents = [i \in DOMAIN @ |->
         IF i > to * is.encoding /\ i <= to * is.encoding + n THEN @[i - d] ELSE @[i]]]

intsetFind(is, v) == _intsetValueEncoding(v) <= is.encoding /\ intsetSearch(is, v).found

intsetAdd(is, v) ==
  LET at == intsetSearch(is, v)
      grown == intsetResize(is, is.length + 1)
      moved == IF at.pos < is.length THEN intsetMoveTail(grown, at.pos, at.pos + 1) ELSE grown
  IN  IF _intsetValueEncoding(v) > is.encoding THEN intsetUpgradeAndAdd(is, v)
      ELSE IF at.found THEN is
      ELSE [_intsetSet(moved, at.pos, v) EXCEPT !.length = @ + 1]

intsetRemove(is, v) ==
  LET at == intsetSearch(is, v)
      moved == IF at.pos < is.length - 1 THEN intsetMoveTail(is, at.pos + 1, at.pos) ELSE is
  IN  IF ~intsetFind(is, v) THEN is
      ELSE [intsetResize(moved, is.length - 1) EXCEPT !.length = @ - 1]

IntsetMembers(is) == [i \in 1..is.length |-> _intsetGet(is, i - 1)]

-----------------------------------------------------------------------------
(* Doubly linked lists (redis-3.0.3/src/adlist.c).  A node is a number, 0 is *)
(* NULL; nodes maps the allocated ones to [prev, next, value].               *)

listCreate == [head |-> 0, tail |-> 0, len |-> 0, nodes |-> [n \in {} |-> 0]]

\* zmalloc: a node that is not in use.
NewNode(l) == CHOOSE n \in 1..Cardinality(DOMAIN l.nodes) + 1 : n \notin DOMAIN l.nodes
Stored(l, n, node) == [x \in DOMAIN l.nodes \cup {n} |-> IF x = n THEN node ELSE l.nodes[x]]

\* node n, its fields set, as its neighbours see it
Linked(nodes, n) ==
  [x \in DOMAIN nodes |->
     [nodes[x] EXCEPT !.next = IF x = nodes[n].prev THEN n ELSE @,
                      !.prev = IF x = nodes[n].next THEN n ELSE @]]

AddNode(l, n, node) ==
  [head |-> IF node.prev = 0 THEN n ELSE l.head, tail |-> IF node.next = 0 THEN n ELSE l.tail,
   len |-> l.len + 1, nodes |-> Linked(Stored(l, n, node), n)]
listAddNodeHead(l, v) == AddNode(l, NewNode(l), [prev |-> 0, next |-> l.head, value |-> v])
listAddNodeTail(l, v) == AddNode(l, NewNode(l), [prev |-> l.tail, next |-> 0, value |-> v])

listInsertNode(l, old, v, after) ==
  IF after THEN AddNode(l, NewNode(l), [prev |-> old, next |-> l.nodes[old].next, value |-> v])
  ELSE AddNode(l, NewNode(l), [prev |-> l.nodes[old].prev, next |-> old, value |-> v])

listDelNode(l, n) ==
  [head |-> IF l.nodes[n].prev = 0 THEN l.nodes[n].next ELSE l.head,
   tail |-> IF l.nodes[n].next = 0 THEN l.nodes[n].prev ELSE l.tail,
   len |-> l.len - 1,
   nodes |-> [x \in DOMAIN l.nodes \ {n} |->
     [l.nodes[x] EXCEPT !.next = IF @ = n THEN l.nodes[n].next ELSE @,
                        !.prev = IF @ = n THEN l.nodes[n].prev ELSE @]]]

listRotate(l) ==
  IF l.len <= 1 THEN l
  ELSE [l EXCEPT !.tail = l.nodes[l.tail].prev, !.head = l.tail,
                 !.nodes = [x \in DOMAIN @ |->
                    [@[x] EXCEPT !.next = IF x = l.tail THEN l.head ELSE IF @ = l.tail THEN 0 ELSE @,
                                 !.prev = IF x = l.tail THEN 0 ELSE IF x = l.head THEN l.tail ELSE @]]]

\* The node an iterator goes to, and k steps from a node.
listNext(l, n, forward) == IF n = 0 THEN 0 ELSE IF forward THEN l.nodes[n].next ELSE l.nodes[n].prev
StepsFrom(l, n, forward, k) ==
  LET at[i \in 0..k] == IF i = 0 THEN n ELSE listNext(l, at[i - 1], forward)
  IN  at[k]
listIndex(l, index) ==
  IF index < 0 THEN StepsFrom(l, l.tail, FALSE, -index - 1) ELSE StepsFrom(l, l.head, TRUE, index)

\* What an iterator meets from node n on.
listIter(l, n, forward) ==
  LET walk[i \in 0..l.len] ==
        IF i = 0 THEN << >>
        ELSE IF StepsFrom(l, n, forward, i - 1) = 0 THEN walk[i - 1]
        ELSE Append(walk[i - 1], l.nodes[StepsFrom(l, n, forward, i - 1)].value)
  IN  walk[l.len]

listDup(l) ==
  LET seq == listIter(l, l.head, TRUE)
      copy[i \in 0..Len(seq)] == IF i = 0 THEN listCreate ELSE listAddNodeTail(copy[i - 1], seq[i])
  IN  copy[Len(seq)]

\* The first node that holds a value, from the head; 0 when none does.
listSearchKey(l, v) ==
  LET at == {i \in 0..l.len - 1 : l.nodes[listIndex(l, i)].value = v}
  IN  IF at = {} THEN 0 ELSE listIndex(l, CHOOSE i \in at : \A j \in at : i <= j)

\* Both directions meet the same nodes, and the ends are the ends.
AdlistSound(l) ==
  /\ l.len = Cardinality(DOMAIN l.nodes)
  /\ l.head = 0 <=> l.len = 0
  /\ l.tail = 0 <=> l.len = 0
  /\ l.len > 0 => l.nodes[l.head].prev = 0 /\ l.nodes[l.tail].next = 0
  /\ \A n \in DOMAIN l.nodes : /\ l.nodes[n].next # 0 => l.nodes[l.nodes[n].next].prev = n
                               /\ l.nodes[n].next = 0 => n = l.tail
                               /\ l.nodes[n].prev = 0 => n = l.head

-----------------------------------------------------------------------------
CONSTANTS ListMaxEntries,     \* server.list_max_ziplist_entries
          HashMaxEntries,     \* server.hash_max_ziplist_entries
          IntsetMaxEntries,   \* server.set_max_intset_entries
          MinFill,            \* REDIS_HT_MINFILL, 10
          MaxValue,           \* the largest Body of a value within the _max_ziplist_value limits
          IsInteger(_)        \* isObjectRepresentableAsLongLong

-----------------------------------------------------------------------------
(* Lists *)

createZiplistObject == [enc |-> "ziplist", p |-> ziplistNew]
listTypeLength(o) == IF o.enc = "ziplist" THEN ziplistLen(o.p) ELSE o.p.len

\* An iterator from an index on: the values it meets going to the tail or the head.
ZiplistFrom(zl, i, forward) ==
  LET n == Len(zl.entries)
      at[k \in 1..n + 1] == IF k = 1 THEN i
                            ELSE IF at[k - 1] = 0 THEN 0
                            ELSE IF forward THEN ziplistNext(zl, at[k - 1]) ELSE ziplistPrev(zl, at[k - 1])
  IN  [k \in 1..Cardinality({j \in 1..n : at[j] # 0}) |-> zl.entries[at[k]].val]
listTypeIterator(o, index, forward) ==
  IF o.enc = "ziplist" THEN ZiplistFrom(o.p, ziplistIndex(o.p, index), forward)
  ELSE listIter(o.p, listIndex(o.p, index), forward)

listTypeConvert(o) ==
  LET seq == listTypeIterator(o, 0, TRUE)
      l[k \in 0..Len(seq)] == IF k = 0 THEN listCreate ELSE listAddNodeTail(l[k - 1], seq[k])
  IN  [enc |-> "linkedlist", p |-> l[Len(seq)]]
listTypeTryConversion(o, v) == IF o.enc = "ziplist" /\ Body[v] > MaxValue THEN listTypeConvert(o) ELSE o

PushTo(o, v, where) ==
  IF o.enc = "ziplist" THEN [o EXCEPT !.p = ziplistPush(@, v, where)]
  ELSE [o EXCEPT !.p = IF where = "head" THEN listAddNodeHead(@, v) ELSE listAddNodeTail(@, v)]
ConvertLong(o, max) == IF o.enc = "ziplist" /\ ziplistLen(o.p) >= max THEN listTypeConvert(o) ELSE o
listTypePush(o, v, where) == PushTo(ConvertLong(listTypeTryConversion(o, v), ListMaxEntries), v, where)

listTypePop(o, where) ==
  IF o.enc = "ziplist" THEN [o EXCEPT !.p = ziplistDelete(@, ziplistIndex(@, IF where = "head" THEN 0 ELSE -1))]
  ELSE [o EXCEPT !.p = listDelNode(@, IF where = "head" THEN o.p.head ELSE o.p.tail)]

\* LINSERT: at the first entry that holds the pivot, and then a list that has
\* grown too long is converted.
InsertAround(o, k, v, after) ==
  IF o.enc = "ziplist"
  THEN [o EXCEPT !.p = IF ~after THEN __ziplistInsert(@, k, v)
                       ELSE IF ziplistNext(@, k) = 0 THEN ziplistPush(@, v, "tail")
                       ELSE __ziplistInsert(@, ziplistNext(@, k), v)]
  ELSE [o EXCEPT !.p = listInsertNode(@, listIndex(@, k - 1), v, after)]
InsertAtPivot(o, seq, pivot, v, after) ==
  IF \A i \in DOMAIN seq : seq[i] # pivot THEN o
  ELSE InsertAround(o, CHOOSE i \in DOMAIN seq : seq[i] = pivot /\ \A j \in 1..i - 1 : seq[j] # pivot, v, after)
TooLong(o) == IF o.enc = "ziplist" /\ ~o.p.lost /\ ziplistLen(o.p) > ListMaxEntries THEN listTypeConvert(o) ELSE o
InsertInto(o, pivot, v, after) == TooLong(InsertAtPivot(o, listTypeIterator(o, 0, TRUE), pivot, v, after))
listTypeInsert(o, pivot, v, after) == InsertInto(listTypeTryConversion(o, v), pivot, v, after)

\* LSET: an entry of a ziplist is deleted and inserted again.
SetAt(o, index, v) ==
  IF o.enc = "ziplist"
  THEN LET i == ziplistIndex(o.p, index)
       IN  IF i = 0 THEN o ELSE [o EXCEPT !.p = __ziplistInsert(ziplistDelete(@, i), i, v)]
  ELSE LET n == listIndex(o.p, index)
       IN  IF n = 0 THEN o ELSE [o EXCEPT !.p.nodes[n].value = v]
lsetCommand(o, index, v) == SetAt(listTypeTryConversion(o, v), index, v)

\* LREM of one element, from the head or from the tail.
FirstEqual(o, v, forward) ==
  LET seq == listTypeIterator(o, IF forward THEN 0 ELSE -1, forward)
      at == {i \in DOMAIN seq : seq[i] = v}
  IN  IF at = {} THEN 0 ELSE CHOOSE i \in at : \A j \in at : i <= j
listTypeDelete(o, k, forward) ==
  IF k = 0 THEN o
  ELSE IF o.enc = "ziplist" THEN [o EXCEPT !.p = ziplistDelete(@, ziplistIndex(@, IF forward THEN k - 1 ELSE -k))]
  ELSE [o EXCEPT !.p = listDelNode(@, listIndex(@, IF forward THEN k - 1 ELSE -k))]
lremCommand(o, v, forward) == listTypeDelete(o, FirstEqual(o, v, forward), forward)

\* LTRIM
DropEnds(l, ltrim, rtrim) ==
  LET del[k \in 0..ltrim + rtrim] ==
        IF k = 0 THEN l ELSE listDelNode(del[k - 1], IF k <= ltrim THEN del[k - 1].head ELSE del[k - 1].tail)
  IN  del[ltrim + rtrim]
ltrimCommand(o, ltrim, rtrim) ==
  IF o.enc = "ziplist" THEN [o EXCEPT !.p = ziplistDeleteRange(ziplistDeleteRange(@, 0, ltrim), -rtrim, rtrim)]
  ELSE [o EXCEPT !.p = DropEnds(@, ltrim, rtrim)]

\* LRANGE of a valid range: a linked list is entered from its nearer end.
lrangeCommand(o, start, end) ==
  SubSeq(IF o.enc = "ziplist" THEN ZiplistFrom(o.p, ziplistIndex(o.p, start), TRUE)
         ELSE listIter(o.p, listIndex(o.p, IF start > o.p.len \div 2 THEN start - o.p.len ELSE start), TRUE),
         1, end - start + 1)
FirstOnly(seq) == IF seq = << >> THEN seq ELSE <<seq[1]>>
lindexCommand(o, index) == FirstOnly(listTypeIterator(o, index, TRUE))

ListSound(o) == IF o.enc = "ziplist" THEN ZiplistSound(o.p) ELSE AdlistSound(o.p)

-----------------------------------------------------------------------------
(* Sets *)

createIntsetObject == [enc |-> "intset", p |-> intsetNew]
createSetObject == [enc |-> "ht", p |-> dictCreate]
setTypeCreate(v) == IF IsInteger(v) THEN createIntsetObject ELSE createSetObject

setTypeConvert(is) ==
  LET d[k \in 0..is.length] ==
        IF k = 0 THEN dictExpand(dictCreate, is.length) ELSE dictAdd(d[k - 1], _intsetGet(is, k - 1))
  IN  [enc |-> "ht", p |-> d[is.length]]
IntsetTooLong(is) == IF is.length > IntsetMaxEntries THEN setTypeConvert(is) ELSE [enc |-> "intset", p |-> is]

AddToTable(o, v) == [o EXCEPT !.p = dictAdd(@, v)]
setTypeAdd(o, v) ==
  IF o.enc = "ht" THEN AddToTable(o, v)
  ELSE IF ~IsInteger(v) THEN AddToTable(setTypeConvert(o.p), v)
  ELSE IF intsetFind(o.p, v) THEN o ELSE IntsetTooLong(intsetAdd(o.p, v))

\* A table larger than the smallest one of which little is used
htNeedsResize(d) ==
  LET size == d.ht0.size + d.ht1.size
      used == Used(d.ht0) + Used(d.ht1)
  IN  used > 0 /\ size > InitialSize /\ (used * 100) \div size < MinFill
ResizeIfSparse(d) == IF htNeedsResize(d) THEN dictResize(d) ELSE d
setTypeRemove(o, v) ==
  IF o.enc = "ht" THEN [o EXCEPT !.p = IF dictFound(@, v) THEN ResizeIfSparse(dictDelete(@, v)) ELSE dictDelete(@, v)]
  ELSE IF IsInteger(v) THEN [o EXCEPT !.p = intsetRemove(@, v)] ELSE o
setTypeIsMember(o, v) == IF o.enc = "ht" THEN dictFound(o.p, v) ELSE IsInteger(v) /\ intsetFind(o.p, v)

\* setTypeNext until it returns -1: what an iterator meets.
setTypeIterator(o) ==
  IF o.enc = "intset" THEN IntsetMembers(o.p)
  ELSE LET n == Used(o.p.ht0) + Used(o.p.ht1)
           it[k \in 0..n] == IF k = 0 THEN dictGetSafeIterator ELSE dictNext(o.p, it[k - 1])
       IN  it[n].seen
setTypeSize(o) == IF o.enc = "ht" THEN Used(o.p.ht0) + Used(o.p.ht1) ELSE o.p.length
setTypeRandomElement(o) == IF o.enc = "ht" THEN dictGetRandomKey(o.p) ELSE ToSet(IntsetMembers(o.p))

SetSound(o) ==
  IF o.enc = "ht" THEN DictSound(o.p)
  ELSE /\ o.p.length <= IntsetMaxEntries
       /\ Len(o.p.contents) = o.p.length * o.p.encoding
       /\ \A i, j \in 0..o.p.length - 1 : i < j => _intsetGet(o.p, i) < _intsetGet(o.p, j)

-----------------------------------------------------------------------------
(* Hashes.  A dictionary of fields and values is a function here: that a      *)
(* dictionary keeps its keys is shown for sets.                               *)

createHashObject == [enc |-> "ziplist", p |-> ziplistNew]
HashFind(zl, f) == ziplistFind(zl, 1, f, 1)

\* hashTypeNext until the end: field -> value.
hashTypeIterator(zl) ==
  LET n == Len(zl.entries) \div 2
      Field(k) == zl.entries[2 * k - 1].val
  IN  [f \in {Field(k) : k \in 1..n} |-> zl.entries[2 * (CHOOSE k \in 1..n : Field(k) = f)].val]
hashTypeConvert(zl) == [enc |-> "ht", p |-> hashTypeIterator(zl)]
hashTypeTryConversion(o, f, v) ==
  IF o.enc = "ziplist" /\ (Body[f] > MaxValue \/ Body[v] > MaxValue) THEN hashTypeConvert(o.p) ELSE o

hashTypeGet(o, f) ==
  IF o.enc = "ht" THEN (IF f \in DOMAIN o.p THEN o.p[f] ELSE -1)
  ELSE LET i == HashFind(o.p, f) IN IF i = 0 THEN -1 ELSE o.p.entries[i + 1].val
hashTypeExists(o, f) == IF o.enc = "ht" THEN f \in DOMAIN o.p ELSE HashFind(o.p, f) # 0
hashTypeLength(o) == IF o.enc = "ht" THEN Cardinality(DOMAIN o.p) ELSE ziplistLen(o.p) \div 2

\* A new value replaces the old one in place; a new field goes to the tail.
ZiplistSet(zl, i, f, v) ==
  IF i # 0 THEN __ziplistInsert(ziplistDelete(zl, i + 1), i + 1, v)
  ELSE ziplistPush(ziplistPush(zl, f, "tail"), v, "tail")
HashTooLong(zl) == IF ~zl.lost /\ ziplistLen(zl) \div 2 > HashMaxEntries THEN hashTypeConvert(zl) ELSE [enc |-> "ziplist", p |-> zl]
SetField(o, f, v) ==
  IF o.enc = "ziplist" THEN HashTooLong(ZiplistSet(o.p, HashFind(o.p, f), f, v))
  ELSE [o EXCEPT !.p = [x \in DOMAIN @ \cup {f} |-> IF x = f THEN v ELSE @[x]]]
hashTypeSet(o, f, v) == SetField(hashTypeTryConversion(o, f, v), f, v)

hashTypeDelete(o, f) ==
  IF ~hashTypeExists(o, f) THEN o
  ELSE IF o.enc = "ht" THEN [o EXCEPT !.p = [x \in DOMAIN @ \ {f} |-> @[x]]]
  ELSE [o EXCEPT !.p = ziplistDelete(ziplistDelete(@, HashFind(@, f)), HashFind(@, f))]
=============================================================================
