------------------------------ MODULE ZsetType ------------------------------
(* Sorted sets in their two encodings (redis-3.0.3/src/t_zset.c): a ziplist  *)
(* of elements followed by their scores, in order, or a skip list with a     *)
(* dictionary.  An object is [enc, p]; p of the second is [zsl, dict].       *)
(* A pointer to an element is an entry's number or a node; End is NULL.      *)
EXTENDS Ziplist, FiniteSets

-----------------------------------------------------------------------------
(* The skip list of a sorted set (redis-3.0.3/src/t_zset.c).                 *)
(*                                                                           *)
(* Elements are numbers in the order compareStringObjects puts them in.  A   *)
(* node is its element, 0 is the header, Null is NULL; level[i] of a node    *)
(* has the next node at that level and the number of nodes the link crosses. *)

CONSTANT MaxLevel    \* ZSKIPLIST_MAXLEVEL, 32

Null == -1

zslCreate ==
  [level |-> 1, length |-> 0, tail |-> Null,
   nodes |-> [x \in {0} |-> [score |-> 0, back |-> Null,
                             level |-> [i \in 1..MaxLevel |-> [fwd |-> Null, span |-> 0]]]]]

\* A search goes right while Go of the next node and of the rank it has, then
\* down a level; update and ranks hold where it went down.
Search(zsl, Go(_, _)) ==
  LET step[k \in 0..zsl.level + zsl.length] ==
        IF k = 0 THEN [i |-> zsl.level, x |-> 0, rank |-> 0,
                       update |-> [i \in 1..MaxLevel |-> 0], ranks |-> [i \in 1..MaxLevel |-> 0]]
        ELSE LET p == step[k - 1]
                 l == zsl.nodes[p.x].level[p.i]
             IN  IF p.i = 0 THEN p
                 ELSE IF l.fwd # Null /\ Go(l.fwd, p.rank + l.span)
                 THEN [p EXCEPT !.x = l.fwd, !.rank = @ + l.span]
                 ELSE [p EXCEPT !.i = @ - 1, !.update[p.i] = p.x, !.ranks[p.i] = p.rank]
  IN  step[zsl.level + zsl.length]

Before(zsl, x, score, obj) == zsl.nodes[x].score < score \/ (zsl.nodes[x].score = score /\ x < obj)
Next0(zsl, x) == zsl.nodes[x].level[1].fwd

\* The new node takes over its part of the links that cross it.
Splice(zsl, score, obj, level, at) ==
  [x \in DOMAIN zsl.nodes \cup {obj} |->
     IF x = obj
     THEN [score |-> score, back |-> IF at.update[1] = 0 THEN Null ELSE at.update[1],
           level |-> [i \in 1..level |->
             [fwd |-> zsl.nodes[at.update[i]].level[i].fwd,
              span |-> (IF i > zsl.level THEN zsl.length ELSE zsl.nodes[at.update[i]].level[i].span)
                       - (at.ranks[1] - at.ranks[i])]]]
     ELSE [zsl.nodes[x] EXCEPT
             !.back = IF x = Next0(zsl, at.update[1]) THEN obj ELSE @,
             !.level = [i \in DOMAIN @ |->
               IF at.update[i] # x THEN @[i]
               ELSE IF i <= level THEN [fwd |-> obj, span |-> at.ranks[1] - at.ranks[i] + 1]
               ELSE IF i <= zsl.level THEN [@[i] EXCEPT !.span = @ + 1] ELSE @[i]]]]
InsertAtPlace(zsl, score, obj, level, at) ==
  [level |-> IF level > zsl.level THEN level ELSE zsl.level, length |-> zsl.length + 1,
   tail |-> IF Next0(zsl, at.update[1]) = Null THEN obj ELSE zsl.tail,
   nodes |-> Splice(zsl, score, obj, level, at)]
zslInsert(zsl, score, obj, level) ==
  InsertAtPlace(zsl, score, obj, level, Search(zsl, LAMBDA x, r : Before(zsl, x, score, obj)))

Unspliced(zsl, obj, update) ==
  [x \in DOMAIN zsl.nodes \ {obj} |->
     [zsl.nodes[x] EXCEPT
        !.back = IF x = Next0(zsl, obj) THEN zsl.nodes[obj].back ELSE @,
        !.level = [i \in DOMAIN @ |->
          IF update[i] # x \/ i > zsl.level THEN @[i]
          ELSE IF @[i].fwd = obj
          THEN [fwd |-> zsl.nodes[obj].level[i].fwd, span |-> @[i].span + zsl.nodes[obj].level[i].span - 1]
          ELSE [@[i] EXCEPT !.span = @ - 1]]]]
\* The levels that only the header has left go.
Lowered(zsl) ==
  [zsl EXCEPT !.level = CHOOSE n \in 1..@ :
     /\ n = 1 \/ zsl.nodes[0].level[n].fwd # Null
     /\ \A i \in n + 1..@ : zsl.nodes[0].level[i].fwd = Null]
zslDeleteNode(zsl, obj, update) ==
  Lowered([level |-> zsl.level, length |-> zsl.length - 1,
           tail |-> IF Next0(zsl, obj) = Null THEN zsl.nodes[obj].back ELSE zsl.tail,
           nodes |-> Unspliced(zsl, obj, update)])

DeleteAt(zsl, score, obj, at) ==
  IF Next0(zsl, at.x) = obj /\ zsl.nodes[obj].score = score THEN zslDeleteNode(zsl, obj, at.update) ELSE zsl
zslDelete(zsl, score, obj) ==
  DeleteAt(zsl, score, obj, Search(zsl, LAMBDA x, r : Before(zsl, x, score, obj)))

\* Delete, from where the search went down, the next nodes while In of the node
\* and its rank.
DeleteWhile(zsl, at, In(_, _)) ==
  LET del[k \in 0..zsl.length] ==
        IF k = 0 THEN zsl
        ELSE LET x == Next0(del[k - 1], at.x)
             IN  IF x # Null /\ In(x, at.rank + k) THEN zslDeleteNode(del[k - 1], x, at.update) ELSE del[k - 1]
  IN  del[zsl.length]

-----------------------------------------------------------------------------
(* Ranges: [min, max, minex, maxex] of scores, or of elements (lex) *)

zslValueGteMin(v, range) == IF range.minex THEN v > range.min ELSE v >= range.min
zslValueLteMax(v, range) == IF range.maxex THEN v < range.max ELSE v <= range.max
\* A lex range whose ends are out of order by one is not noticed here, but by the
\* searches.
EmptyRange(range, lex) ==
  \/ range.min - range.max > (IF lex THEN 1 ELSE 0)
  \/ range.min = range.max /\ (range.minex \/ range.maxex)

\* What a range is about of a node
Of(zsl, x, lex) == IF lex THEN x ELSE zsl.nodes[x].score
zslIsInRange(zsl, range, lex) ==
  /\ ~EmptyRange(range, lex)
  /\ zsl.tail # Null
  /\ zslValueGteMin(Of(zsl, zsl.tail, lex), range)
  /\ zslValueLteMax(Of(zsl, Next0(zsl, 0), lex), range)

NodeIf(x, ok) == IF ok THEN x ELSE Null
zslFirstInRange(zsl, range, lex) ==
  IF ~zslIsInRange(zsl, range, lex) THEN Null
  ELSE LET x == Next0(zsl, Search(zsl, LAMBDA y, r : ~zslValueGteMin(Of(zsl, y, lex), range)).x)
       IN  NodeIf(x, zslValueLteMax(Of(zsl, x, lex), range))
zslLastInRange(zsl, range, lex) ==
  IF ~zslIsInRange(zsl, range, lex) THEN Null
  ELSE LET x == Search(zsl, LAMBDA y, r : zslValueLteMax(Of(zsl, y, lex), range)).x
       IN  NodeIf(x, zslValueGteMin(Of(zsl, x, lex), range))

zslDeleteRangeByScore(zsl, range) ==
  DeleteWhile(zsl, Search(zsl, LAMBDA x, r : ~zslValueGteMin(zsl.nodes[x].score, range)),
              LAMBDA x, r : zslValueLteMax(zsl.nodes[x].score, range))
zslDeleteRangeByLex(zsl, range) ==
  DeleteWhile(zsl, Search(zsl, LAMBDA x, r : ~zslValueGteMin(x, range)),
              LAMBDA x, r : zslValueLteMax(x, range))
zslDeleteRangeByRank(zsl, start, end) ==
  DeleteWhile(zsl, Search(zsl, LAMBDA x, r : r < start), LAMBDA x, r : r <= end)

\* Ranks count from 1; 0 and Null when there is none.
zslGetRank(zsl, score, obj) ==
  LET at == Search(zsl, LAMBDA x, r : Before(zsl, x, score, obj) \/ (zsl.nodes[x].score = score /\ x = obj))
  IN  IF at.x = obj THEN at.rank ELSE 0
zslGetElementByRank(zsl, rank) ==
  LET at == Search(zsl, LAMBDA x, r : r <= rank)
  IN  NodeIf(at.x, at.rank = rank)

\* k nodes forward or backward of a node; Null past the ends.
zslWalk(zsl, x, forward, k) ==
  LET at[i \in 0..k] ==
        IF i = 0 THEN x
        ELSE IF at[i - 1] = Null THEN Null
        ELSE IF forward THEN Next0(zsl, at[i - 1]) ELSE zsl.nodes[at[i - 1]].back
  IN  at[k]

\* The bottom level is in order; every link crosses as many nodes as it says;
\* there is no level without a node.
SkiplistSound(zsl) ==
  LET order == [k \in 1..zsl.length |-> zslWalk(zsl, Next0(zsl, 0), TRUE, k - 1)]
      Pos(x) == IF x = 0 THEN 0 ELSE CHOOSE k \in 1..zsl.length : order[k] = x
  IN  /\ {order[k] : k \in 1..zsl.length} = DOMAIN zsl.nodes \ {0}
      /\ \A k \in 2..zsl.length : Before(zsl, order[k - 1], zsl.nodes[order[k]].score, order[k])
      /\ \A k \in 1..zsl.length : zsl.nodes[order[k]].back = (IF k = 1 THEN Null ELSE order[k - 1])
      /\ zsl.tail = (IF zsl.length = 0 THEN Null ELSE order[zsl.length])
      /\ \A x \in DOMAIN zsl.nodes : \A i \in DOMAIN zsl.nodes[x].level :
           LET l == zsl.nodes[x].level[i]
           IN  i <= zsl.level =>
                 IF l.fwd # Null THEN l.span = Pos(l.fwd) - Pos(x)
                 ELSE x = 0 \/ l.span = zsl.length - Pos(x)
      /\ zsl.level = 1 \/ zsl.nodes[0].level[zsl.level].fwd # Null

-----------------------------------------------------------------------------
CONSTANTS ZsetMaxEntries,   \* server.zset_max_ziplist_entries
          ZsetMaxValue      \* the largest Body within zset_max_ziplist_value

-----------------------------------------------------------------------------
(* Ziplist *)

zzlGetScore(zl, i) == zl.entries[i + 1].val
zzlLength(zl) == ziplistLen(zl) \div 2
zzlNext(zl, i) == ziplistNext(zl, ziplistNext(zl, i))
zzlPrev(zl, i) == IF ziplistPrev(zl, i) = 0 THEN 0 ELSE ziplistPrev(zl, ziplistPrev(zl, i))
zzlFind(zl, ele) == ziplistFind(zl, 1, ele, 1)
zzlDelete(zl, i) == ziplistDelete(ziplistDelete(zl, i), i)

zzlInsertAt(zl, i, ele, score) ==
  IF i = 0 THEN ziplistPush(ziplistPush(zl, ele, "tail"), score, "tail")
  ELSE __ziplistInsert(__ziplistInsert(zl, i, ele), i + 1, score)

\* Before the first element that comes after it.
zzlInsert(zl, ele, score) ==
  LET after == {i \in 1..Len(zl.entries) : i % 2 = 1 /\
                  \/ zzlGetScore(zl, i) > score
                  \/ zzlGetScore(zl, i) = score /\ zl.entries[i].val > ele}
  IN  zzlInsertAt(zl, IF after = {} THEN 0 ELSE CHOOSE i \in after : \A j \in after : i <= j, ele, score)

ZzlOf(zl, i, lex) == IF lex THEN zl.entries[i].val ELSE zzlGetScore(zl, i)
zzlIsInRange(zl, range, lex) ==
  /\ ~EmptyRange(range, lex)
  /\ ziplistIndex(zl, -2) # 0
  /\ zslValueGteMin(ZzlOf(zl, ziplistIndex(zl, -2), lex), range)
  /\ zslValueLteMax(ZzlOf(zl, ziplistIndex(zl, 0), lex), range)

\* The k-th element from the front (k from 0), or from the back.
zzlAt(zl, forward, k) ==
  LET at[i \in 0..k] == IF i = 0 THEN ziplistIndex(zl, IF forward THEN 0 ELSE -2)
                        ELSE IF at[i - 1] = 0 THEN 0
                        ELSE IF forward THEN zzlNext(zl, at[i - 1]) ELSE zzlPrev(zl, at[i - 1])
  IN  at[k]

\* The first element from one end that is within the far bound, if it is within
\* the near one too.
Ahead(zl, range, lex) ==
  {k \in 0..zzlLength(zl) - 1 : \A j \in 0..k : ~zslValueGteMin(ZzlOf(zl, zzlAt(zl, TRUE, j), lex), range)}
Behind(zl, range, lex) ==
  {k \in 0..zzlLength(zl) - 1 : \A j \in 0..k : ~zslValueLteMax(ZzlOf(zl, zzlAt(zl, FALSE, j), lex), range)}
EntryIf(i, ok) == IF ok THEN i ELSE 0
FirstIf(zl, i, range, lex) == EntryIf(i, i # 0 /\ zslValueLteMax(ZzlOf(zl, i, lex), range))
LastIf(zl, i, range, lex) == EntryIf(i, i # 0 /\ zslValueGteMin(ZzlOf(zl, i, lex), range))
zzlFirstInRange(zl, range, lex) ==
  IF ~zzlIsInRange(zl, range, lex) THEN 0
  ELSE FirstIf(zl, zzlAt(zl, TRUE, Cardinality(Ahead(zl, range, lex))), range, lex)
zzlLastInRange(zl, range, lex) ==
  IF ~zzlIsInRange(zl, range, lex) THEN 0
  ELSE LastIf(zl, zzlAt(zl, FALSE, Cardinality(Behind(zl, range, lex))), range, lex)

\* From the first element in range on, while in range: ByScore and ByLex.
DeleteIfIn(zl, i, range, lex) ==
  IF i < Len(zl.entries) /\ zslValueLteMax(ZzlOf(zl, i, lex), range) THEN zzlDelete(zl, i) ELSE zl
DeleteOn(zl, i, range, lex) ==
  LET del[k \in 0..zzlLength(zl)] == IF k = 0 THEN zl ELSE DeleteIfIn(del[k - 1], i, range, lex)
  IN  IF i = 0 THEN zl ELSE del[zzlLength(zl)]
zzlDeleteRange(zl, range, lex) == DeleteOn(zl, zzlFirstInRange(zl, range, lex), range, lex)
zzlDeleteRangeByRank(zl, start, end) == ziplistDeleteRange(zl, 2 * (start - 1), 2 * (end - start + 1))

-----------------------------------------------------------------------------
(* Both encodings *)

createZsetZiplistObject == [enc |-> "ziplist", p |-> ziplistNew]
zsetLength(o) == IF o.enc = "ziplist" THEN zzlLength(o.p) ELSE o.p.zsl.length

\* lv stands for the levels zslRandomLevel gives.
zsetConvert(o, lv) ==
  LET n == zzlLength(o.p)
      Ele(k) == o.p.entries[2 * k - 1].val
      Sco(k) == o.p.entries[2 * k].val
      zsl[k \in 0..n] == IF k = 0 THEN zslCreate ELSE zslInsert(zsl[k - 1], Sco(k), Ele(k), lv[Ele(k)])
  IN  [enc |-> "skiplist",
       p |-> [zsl |-> zsl[n],
              dict |-> [m \in {Ele(k) : k \in 1..n} |-> Sco(CHOOSE k \in 1..n : Ele(k) = m)]]]

\* The score of an element, as the encoding finds it; -1 when it has none.
zscoreCommand(o, ele) ==
  IF o.enc = "ziplist"
  THEN LET i == zzlFind(o.p, ele) IN IF i = 0 THEN -1 ELSE zzlGetScore(o.p, i)
  ELSE IF ele \in DOMAIN o.p.dict THEN o.p.dict[ele] ELSE -1

\* ZADD of one element: remove and insert again when the score changed; more
\* than ZsetMaxEntries elements, or a long one, become a skip list.
ConvertIfLong(zl, ele, lv) ==
  IF ~zl.lost /\ (zzlLength(zl) > ZsetMaxEntries \/ Body[ele] > ZsetMaxValue) THEN zsetConvert([enc |-> "ziplist", p |-> zl], lv)
  ELSE [enc |-> "ziplist", p |-> zl]
ZaddZiplist(zl, ele, score, cur, lv) ==
  IF cur = score THEN [enc |-> "ziplist", p |-> zl]
  ELSE IF cur # -1 THEN [enc |-> "ziplist", p |-> zzlInsert(zzlDelete(zl, zzlFind(zl, ele)), ele, score)]
  ELSE ConvertIfLong(zzlInsert(zl, ele, score), ele, lv)
ZaddSkiplist(zs, ele, score, cur, lv) ==
  IF cur = score THEN [enc |-> "skiplist", p |-> zs]
  ELSE [enc |-> "skiplist",
        p |-> [zsl |-> zslInsert(IF cur = -1 THEN zs.zsl ELSE zslDelete(zs.zsl, cur, ele), score, ele, lv[ele]),
               dict |-> [m \in DOMAIN zs.dict \cup {ele} |-> IF m = ele THEN score ELSE zs.dict[m]]]]
zaddGenericCommand(o, ele, score, lv) ==
  IF o.enc = "ziplist" THEN ZaddZiplist(o.p, ele, score, zscoreCommand(o, ele), lv)
  ELSE ZaddSkiplist(o.p, ele, score, zscoreCommand(o, ele), lv)

\* A set after its elements were removed from the skip list, the dictionary with
\* it.
Shrunk(zs, zsl) == [enc |-> "skiplist", p |-> [zsl |-> zsl, dict |-> [m \in DOMAIN zsl.nodes \ {0} |-> zs.dict[m]]]]
zremCommand(o, ele) ==
  IF zscoreCommand(o, ele) = -1 THEN o
  ELSE IF o.enc = "ziplist" THEN [o EXCEPT !.p = zzlDelete(@, zzlFind(@, ele))]
  ELSE Shrunk(o.p, zslDelete(o.p.zsl, o.p.dict[ele], ele))

zremrangeByRange(o, range, lex) ==
  IF o.enc = "ziplist" THEN [o EXCEPT !.p = zzlDeleteRange(@, range, lex)]
  ELSE Shrunk(o.p, IF lex THEN zslDeleteRangeByLex(o.p.zsl, range) ELSE zslDeleteRangeByScore(o.p.zsl, range))
zremrangeByRank(o, start, end) ==
  IF o.enc = "ziplist" THEN [o EXCEPT !.p = zzlDeleteRangeByRank(@, start, end)]
  ELSE Shrunk(o.p, zslDeleteRangeByRank(o.p.zsl, start, end))

-----------------------------------------------------------------------------
(* Readers *)

End(o) == IF o.enc = "ziplist" THEN 0 ELSE Null
EleAt(o, p) == IF o.enc = "ziplist" THEN o.p.entries[p].val ELSE p
OfPtr(o, p, lex) == IF o.enc = "ziplist" THEN ZzlOf(o.p, p, lex) ELSE Of(o.p.zsl, p, lex)

\* k elements on from a pointer, forward or backward.
WalkPtr(o, p, forward, k) ==
  IF o.enc = "skiplist" THEN zslWalk(o.p.zsl, p, forward, k)
  ELSE LET at[i \in 0..k] == IF i = 0 THEN p
                             ELSE IF at[i - 1] = 0 THEN 0
                             ELSE IF forward THEN zzlNext(o.p, at[i - 1]) ELSE zzlPrev(o.p, at[i - 1])
       IN  at[k]
FirstPtr(o, range, lex) == IF o.enc = "ziplist" THEN zzlFirstInRange(o.p, range, lex) ELSE zslFirstInRange(o.p.zsl, range, lex)
LastPtr(o, range, lex) == IF o.enc = "ziplist" THEN zzlLastInRange(o.p, range, lex) ELSE zslLastInRange(o.p.zsl, range, lex)

\* ZRANGEBYSCORE, ZRANGEBYLEX and their REV forms.  A negative offset goes past
\* the end, a negative limit is none.
StillIn(v, range, reverse) == IF reverse THEN zslValueGteMin(v, range) ELSE zslValueLteMax(v, range)
WhileIn(o, at, range, lex, reverse, limit) ==
  LET n == Cardinality({k \in DOMAIN at : /\ limit < 0 \/ k <= limit
                                          /\ \A j \in 1..k : at[j] # End(o) /\ StillIn(OfPtr(o, at[j], lex), range, reverse)})
  IN  [k \in 1..n |-> EleAt(o, at[k])]
InRangeFrom(o, start, range, lex, reverse, offset, limit) ==
  IF start = End(o) \/ offset < 0 THEN << >>
  ELSE WhileIn(o, [k \in 1..zsetLength(o) |-> WalkPtr(o, start, ~reverse, offset + k - 1)], range, lex, reverse, limit)
genericZrangebyCommand(o, range, lex, reverse, offset, limit) ==
  InRangeFrom(o, IF reverse THEN LastPtr(o, range, lex) ELSE FirstPtr(o, range, lex), range, lex, reverse, offset, limit)

\* ZCOUNT, ZLEXCOUNT: the ziplist is walked, the skip list asked for two ranks.
CountByRanks(zsl, score, first, last) ==
  IF first = Null THEN 0
  ELSE (zsl.length - (zslGetRank(zsl, score[first], first) - 1))
       - (IF last = Null THEN 0 ELSE zsl.length - zslGetRank(zsl, score[last], last))
zcountCommand(o, range, lex) ==
  IF o.enc = "ziplist" THEN Len(genericZrangebyCommand(o, range, lex, FALSE, 0, -1))
  ELSE CountByRanks(o.p.zsl, o.p.dict, zslFirstInRange(o.p.zsl, range, lex), zslLastInRange(o.p.zsl, range, lex))

\* ZRANGE, ZREVRANGE
ZrangeStart(o, start, reverse) ==
  IF o.enc = "ziplist" THEN ziplistIndex(o.p, IF reverse THEN -2 - 2 * start ELSE 2 * start)
  ELSE IF start = 0 THEN (IF reverse THEN o.p.zsl.tail ELSE Next0(o.p.zsl, 0))
  ELSE zslGetElementByRank(o.p.zsl, IF reverse THEN o.p.zsl.length - start ELSE start + 1)
FromTo(len, start, end) ==
  LET s == IF start < 0 THEN len + start ELSE start
      e == IF end < 0 THEN len + end ELSE end
  IN  [start |-> IF s < 0 THEN 0 ELSE s, end |-> IF e >= len THEN len - 1 ELSE e]
ElementsFrom(o, p, forward, n) == [k \in 1..n |-> EleAt(o, WalkPtr(o, p, forward, k - 1))]
ZrangeOf(o, r, reverse) ==
  IF r.start > r.end \/ r.start >= zsetLength(o) THEN << >>
  ELSE ElementsFrom(o, ZrangeStart(o, r.start, reverse), ~reverse, r.end - r.start + 1)
zrangeGenericCommand(o, start, end, reverse) == ZrangeOf(o, FromTo(zsetLength(o), start, end), reverse)

\* ZRANK, ZREVRANK: from 0; -1 when the element is not there.
zrankGenericCommand(o, ele, reverse) ==
  LET rank == IF o.enc = "ziplist" THEN (zzlFind(o.p, ele) + 1) \div 2
              ELSE zslGetRank(o.p.zsl, o.p.dict[ele], ele)
  IN  IF zscoreCommand(o, ele) = -1 THEN -1 ELSE IF reverse THEN zsetLength(o) - rank ELSE rank - 1

ZsetSound(o) ==
  IF o.enc = "ziplist" THEN ZiplistSound(o.p) /\ ziplistLen(o.p) % 2 = 0
  ELSE /\ SkiplistSound(o.p.zsl)
       /\ DOMAIN o.p.dict = DOMAIN o.p.zsl.nodes \ {0}
       /\ \A m \in DOMAIN o.p.dict : o.p.dict[m] = o.p.zsl.nodes[m].score
=============================================================================
