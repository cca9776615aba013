-------------------------------- MODULE Rdb ---------------------------------
(* A value on disk (redis-3.0.3/src): the RDB format of rdb.c, the footer of *)
(* DUMP and RESTORE in cluster.c, and the commands a rewrite of the append   *)
(* only file puts in the place of a value (aof.c).                           *)
(*                                                                           *)
(* A stream is a sequence of cells: bytes, and the contents of a string,     *)
(* kept whole.  A byte has 4 * LenLimit values, 2^8 in the code.  s is a     *)
(* stream, p a position in it, and what a reader returns is [v, next].       *)
EXTENDS ZsetType, Encodings

CONSTANTS LenLimit,      \* lengths of one byte are below it: 2^6
          MaxIntLen,     \* longer strings are not tried as integers: 11
          LzfLen,        \* shorter strings are not compressed: 20
          RdbVersion,    \* REDIS_RDB_VERSION
          ItemsPerCmd    \* REDIS_AOF_REWRITE_ITEMS_PER_CMD, 64

Byte == 4 * LenLimit
B(n) == [t |-> "byte", v |-> n]
D(x) == [t |-> "data", v |-> x]
Got(v, next) == [v |-> v, next |-> next]

\* A number in w bytes, least significant first; and back, with its sign.
Bytes(n, w) == [i \in 1..w |-> B((n \div Byte ^ (i - 1)) % Byte)]
Number(s, p, w) ==
  LET n[i \in 0..w] == IF i = 0 THEN 0 ELSE n[i - 1] + s[p + i - 1].v * Byte ^ (i - 1)
  IN  n[w]
NumberSigned(s, p, w) == IF 2 * Number(s, p, w) >= Byte ^ w THEN Number(s, p, w) - Byte ^ w ELSE Number(s, p, w)

-----------------------------------------------------------------------------
(* Lengths and strings *)

rdbSaveLen(len) ==
  IF len < LenLimit THEN <<B(len)>>
  ELSE IF len < LenLimit * Byte THEN <<B(LenLimit + len \div Byte), B(len % Byte)>>
  ELSE <<B(2 * LenLimit)>> \o Reverse(Bytes(len, 4))
LongLen(s, p) == Number(Reverse(SubSeq(s, p, p + 3)), 1, 4)
LenAfter(s, p, tag, low) ==
  CASE tag \in {0, 3} -> Got(low, p + 1)
    [] tag = 1 -> Got(low * Byte + s[p + 1].v, p + 2)
    [] tag = 2 -> Got(LongLen(s, p + 1), p + 5)
rdbLoadLen(s, p) == LenAfter(s, p, s[p].v \div LenLimit, s[p].v % LenLimit)
IsEncoded(s, p) == s[p].v \div LenLimit = 3

\* REDIS_RDB_ENC_INT8, INT16, INT32 and LZF
Widths == <<1, 2, 4>>
EncVal(e) == B(3 * LenLimit + e)
FitsIn(v, w) == 2 * v >= -(Byte ^ w) /\ 2 * v < Byte ^ w
rdbEncodeInteger(v) ==
  IF \A e \in 1..3 : ~FitsIn(v, Widths[e]) THEN << >>
  ELSE LET e == CHOOSE x \in 1..3 : FitsIn(v, Widths[x]) /\ \A y \in 1..x - 1 : ~FitsIn(v, Widths[y])
       IN  <<EncVal(e - 1)>> \o Bytes(v % Byte ^ Widths[e], Widths[e])
rdbLoadIntegerObject(s, p, e) == Got(NumberSigned(s, p, Widths[e + 1]), p + Widths[e + 1])

\* lzf_compress: every string long enough is compressed to half of its length.
lzf_compress(len) == len \div 2
rdbSaveLzfStringObject(x, len) ==
  <<EncVal(3)>> \o rdbSaveLen(lzf_compress(len)) \o rdbSaveLen(len) \o <<D(x)>>
rdbLoadLzfStringObject(s, p) ==
  LET clen == rdbLoadLen(s, p)
      len == rdbLoadLen(s, clen.next)
  IN  Got(s[len.next].v, len.next + 1)

Verbatim(x, len) ==
  IF len > LzfLen THEN rdbSaveLzfStringObject(x, len) ELSE rdbSaveLen(len) \o <<D(x)>>
OrVerbatim(enc, x, len) == IF enc # << >> THEN enc ELSE Verbatim(x, len)
rdbSaveRawString(x, len) ==
  IF len <= MaxIntLen /\ IsInteger(x) THEN OrVerbatim(rdbEncodeInteger(x), x, len) ELSE Verbatim(x, len)
SaveBlob(x, len) == Verbatim(x, len)     \* a ziplist or an intset is never an integer
rdbSaveStringObject(x) ==
  IF IsInteger(x) THEN OrVerbatim(rdbEncodeInteger(x), x, Body[x]) ELSE rdbSaveRawString(x, Body[x])

LoadEncoded(s, e) == IF e.v < 3 THEN rdbLoadIntegerObject(s, e.next, e.v) ELSE rdbLoadLzfStringObject(s, e.next)
LoadVerbatim(s, len) == Got(s[len.next].v, len.next + 1)
rdbGenericLoadStringObject(s, p) ==
  IF IsEncoded(s, p) THEN LoadEncoded(s, rdbLoadLen(s, p)) ELSE LoadVerbatim(s, rdbLoadLen(s, p))

\* A double is written as text after its length.
rdbSaveDoubleValue(d) == <<B(1), D(d)>>
rdbLoadDoubleValue(s, p) == Got(s[p + 1].v, p + 2)

-----------------------------------------------------------------------------
(* Objects *)

rdbSaveObjectType(kind, o) == <<kind, o.enc>>

SaveStrings(seq) == FoldLeft(LAMBDA s, x : s \o rdbSaveStringObject(x), rdbSaveLen(Len(seq)), seq)
SaveZset(dict, members) ==
  FoldLeft(LAMBDA s, x : s \o rdbSaveStringObject(x) \o rdbSaveDoubleValue(dict[x]), rdbSaveLen(Len(members)), members)
SaveHash(dict, fields) ==
  FoldLeft(LAMBDA s, f : s \o rdbSaveStringObject(f) \o rdbSaveStringObject(dict[f]), rdbSaveLen(Len(fields)), fields)
rdbSaveObject(kind, o) ==
  CASE o.enc = "ziplist" -> SaveBlob(o.p, o.p.bytes)
    [] o.enc = "intset" -> SaveBlob(o.p, Len(o.p.contents))
    [] kind = "list" /\ o.enc = "linkedlist" -> SaveStrings(listTypeIterator(o, 0, TRUE))
    [] kind = "set" /\ o.enc = "ht" -> SaveStrings(setTypeIterator(o))
    [] kind = "zset" /\ o.enc = "skiplist" -> SaveZset(o.p.dict, SetToSeq(DOMAIN o.p.dict))
    [] kind = "hash" /\ o.enc = "ht" -> SaveHash(o.p, SetToSeq(DOMAIN o.p))

\* n strings, or n strings each followed by a double
NextString(s, acc) == LET x == rdbGenericLoadStringObject(s, acc.next) IN Got(Append(acc.v, x.v), x.next)
NextDouble(s, acc) == LET x == rdbLoadDoubleValue(s, acc.next) IN Got(Append(acc.v, x.v), x.next)
LoadStrings(s, len) ==
  LET at[k \in 0..len.v] == IF k = 0 THEN Got(<< >>, len.next) ELSE NextString(s, at[k - 1]) IN at[len.v]
LoadPairs(s, len) ==
  LET at[k \in 0..len.v] == IF k = 0 THEN Got(<< >>, len.next) ELSE NextString(s, NextString(s, at[k - 1])) IN at[len.v]
LoadScored(s, len) ==
  LET at[k \in 0..len.v] == IF k = 0 THEN Got(<< >>, len.next) ELSE NextDouble(s, NextString(s, at[k - 1])) IN at[len.v]

\* The limits of the server that loads; they need not be those of the one that saved.
TooBig(x) == ~IsInteger(x) /\ Body[x] > MaxValue
LoadList(seq, lim) ==
  FoldLeft(LAMBDA o, x : PushTo(IF o.enc = "ziplist" /\ TooBig(x) THEN listTypeConvert(o) ELSE o, x, "tail"),
           IF Len(seq) > lim THEN [enc |-> "linkedlist", p |-> listCreate] ELSE createZiplistObject, seq)

Presized(d, n) == IF n > InitialSize THEN dictExpand(d, n) ELSE d
LoadMember(o, x, n) ==
  IF o.enc = "ht" THEN AddToTable(o, x)
  ELSE IF IsInteger(x) THEN [o EXCEPT !.p = intsetAdd(@, x)]
  ELSE AddToTable([setTypeConvert(o.p) EXCEPT !.p = dictExpand(@, n)], x)
LoadSet(seq, lim) ==
  FoldLeft(LAMBDA o, x : LoadMember(o, x, Len(seq)),
           IF Len(seq) > lim THEN [enc |-> "ht", p |-> Presized(dictCreate, Len(seq))] ELSE createIntsetObject, seq)

\* Sorted sets are not stored in order: a skip list first, and then a ziplist if
\* it may be one (zsetConvert).
ZsetToZiplist(zsl) ==
  LET n == zsl.length
      zl[k \in 0..n] == IF k = 0 THEN ziplistNew
                        ELSE LET x == zslGetElementByRank(zsl, k)
                             IN  ziplistPush(ziplistPush(zl[k - 1], x, "tail"), zsl.nodes[x].score, "tail")
  IN  [enc |-> "ziplist", p |-> zl[n]]
SkiplistOf(seq, lv) ==
  LET n == Len(seq) \div 2
      zsl[k \in 0..n] == IF k = 0 THEN zslCreate ELSE zslInsert(zsl[k - 1], seq[2 * k], seq[2 * k - 1], lv[seq[2 * k - 1]])
  IN  [zsl |-> zsl[n], dict |-> [m \in {seq[2 * k - 1] : k \in 1..n} |-> seq[2 * (CHOOSE k \in 1..n : seq[2 * k - 1] = m)]]]
Small(zs, lim) == zs.zsl.length <= lim /\ \A m \in DOMAIN zs.dict : ~TooBig(m)
LoadZset(zs, lim) == IF Small(zs, lim) THEN ZsetToZiplist(zs.zsl) ELSE [enc |-> "skiplist", p |-> zs]

\* Pairs go into the ziplist until one is too big; the rest into the table.
HashPair(o, f, v) ==
  IF o.enc = "ht" THEN [o EXCEPT !.p = [x \in DOMAIN @ \cup {f} |-> IF x = f THEN v ELSE @[x]]]
  ELSE LET zl == ziplistPush(ziplistPush(o.p, f, "tail"), v, "tail")
       IN  IF Body[f] > MaxValue \/ Body[v] > MaxValue THEN hashTypeConvert(zl) ELSE [enc |-> "ziplist", p |-> zl]
LoadHash(seq, lim) ==
  LET n == Len(seq) \div 2
      o[k \in 0..n] == IF k > 0 THEN HashPair(o[k - 1], seq[2 * k - 1], seq[2 * k])
                       ELSE IF n > lim THEN hashTypeConvert(ziplistNew) ELSE createHashObject
  IN  o[n]

\* A block of memory is taken as it is, unless it has too many entries here.
LoadBlob(kind, o, lim, lv) ==
  CASE kind = "list" -> IF ziplistLen(o.p) > lim THEN listTypeConvert(o) ELSE o
    [] kind = "set" -> IF intsetLen(o.p) > lim THEN setTypeConvert(o.p) ELSE o
    [] kind = "zset" -> IF zsetLength(o) > lim THEN zsetConvert(o, lv) ELSE o
    [] kind = "hash" -> IF hashTypeLength(o) > lim THEN hashTypeConvert(o.p) ELSE o

\* Dumps of Redis 2.4 hold small hashes as zipmaps: pairs in a row.
LoadZipmap(pairs, lim) ==
  LET zl == FoldLeft(LAMBDA z, x : ziplistPush(z, x, "tail"), ziplistNew, pairs)
  IN  IF Len(pairs) \div 2 > lim \/ \E i \in DOMAIN pairs : Body[pairs[i]] > MaxValue
      THEN hashTypeConvert(zl) ELSE [enc |-> "ziplist", p |-> zl]

Loaded(read, o) == Got(o, read.next)
FromBlob(kind, enc, x, lim, lv) == Loaded(x, LoadBlob(kind, [enc |-> enc, p |-> x.v], lim, lv))
FromStrings(x, lim) == Loaded(x, LoadList(x.v, lim))
FromMembers(x, lim) == Loaded(x, LoadSet(x.v, lim))
FromScored(x, lim, lv) == Loaded(x, LoadZset(SkiplistOf(x.v, lv), lim))
FromPairs(x, lim) == Loaded(x, LoadHash(x.v, lim))
rdbLoadObject(type, s, p, lim, lv) ==
  CASE type[2] \in {"ziplist", "intset"} -> FromBlob(type[1], type[2], rdbGenericLoadStringObject(s, p), lim, lv)
    [] type[1] = "list" /\ type[2] = "linkedlist" -> FromStrings(LoadStrings(s, rdbLoadLen(s, p)), lim)
    [] type[1] = "set" /\ type[2] = "ht" -> FromMembers(LoadStrings(s, rdbLoadLen(s, p)), lim)
    [] type[1] = "zset" /\ type[2] = "skiplist" -> FromScored(LoadScored(s, rdbLoadLen(s, p)), lim, lv)
    [] type[1] = "hash" /\ type[2] = "ht" -> FromPairs(LoadPairs(s, rdbLoadLen(s, p)), lim)

-----------------------------------------------------------------------------
(* DUMP and RESTORE.  crc64 tells streams apart, so a stream is its own.     *)

crc64(s) == s
Footed(s) == Append(s \o Bytes(RdbVersion, 2), D(crc64(s \o Bytes(RdbVersion, 2))))
createDumpPayload(kind, o) == Footed(<<D(rdbSaveObjectType(kind, o))>> \o rdbSaveObject(kind, o))
verifyDumpPayload(s) ==
  /\ Len(s) >= 3
  /\ Number(s, Len(s) - 2, 2) = RdbVersion
  /\ Len(s[Len(s)].v) = Len(s) - 1 /\ s[Len(s)].v = SubSeq(s, 1, Len(s) - 1)
RestoreObject(s, lim, lv) == rdbLoadObject(s[1].v, s, 2, lim, lv)

-----------------------------------------------------------------------------
(* The append only file, rewritten: commands of at most ItemsPerCmd items,   *)
(* each preceded by the number of items that follow.                         *)

\* Mutant: the items that are out are not counted off.
EmitKeepingCount(acc, x) ==
  [s |-> (IF acc.count = 0 THEN Append(acc.s, B(IF acc.items > ItemsPerCmd THEN ItemsPerCmd ELSE acc.items)) ELSE acc.s) \o <<D(x)>>,
   count |-> IF acc.count + 1 = ItemsPerCmd THEN 0 ELSE acc.count + 1,
   items |-> acc.items]
\* count items of the current command are out, items are left.
EmitItem(acc, x) ==
  [s |-> (IF acc.count = 0 THEN Append(acc.s, B(IF acc.items > ItemsPerCmd THEN ItemsPerCmd ELSE acc.items)) ELSE acc.s) \o <<D(x)>>,
   count |-> IF acc.count + 1 = ItemsPerCmd THEN 0 ELSE acc.count + 1,
   items |-> acc.items - 1]
Rewrite(seq) == FoldLeft(EmitItem, [s |-> << >>, count |-> 0, items |-> Len(seq)], seq).s
rewriteListObject(o) == Rewrite(listTypeIterator(o, 0, TRUE))
rewriteSetObject(o) == Rewrite(setTypeIterator(o))
Scored(dict, members) == [i \in DOMAIN members |-> <<dict[members[i]], members[i]>>]
rewriteSortedSetObject(o) ==
  Rewrite(IF o.enc = "ziplist" THEN [i \in 1..zzlLength(o.p) |-> <<o.p.entries[2 * i].val, o.p.entries[2 * i - 1].val>>]
          ELSE Scored(o.p.dict, SetToSeq(DOMAIN o.p.dict)))
Fielded(dict) == LET fs == SetToSeq(DOMAIN dict) IN [i \in DOMAIN fs |-> <<fs[i], dict[fs[i]]>>]
rewriteHashObject(o) == Rewrite(Fielded(IF o.enc = "ht" THEN o.p ELSE hashTypeIterator(o.p)))

\* loadAppendOnlyFile: the arguments of the commands as they are read back; a
\* count that is off makes an argument out of a count, or a count of an argument.
ReadCommand(s, acc) ==
  IF acc.next > Len(s) \/ ~acc.ok THEN acc
  ELSE IF s[acc.next].t # "byte" \/ acc.next + s[acc.next].v > Len(s) THEN [acc EXCEPT !.ok = FALSE]
  ELSE [v |-> acc.v \o [i \in 1..s[acc.next].v |-> s[acc.next + i]], next |-> acc.next + s[acc.next].v + 1, ok |-> TRUE]
LoadCommands(s) ==
  LET at[k \in 0..Len(s)] == IF k = 0 THEN [v |-> << >>, next |-> 1, ok |-> TRUE] ELSE ReadCommand(s, at[k - 1])
  IN  at[Len(s)]
ReplayItem(kind, o, x, lv) ==
  CASE kind = "list" -> listTypePush(o, x, "tail")
    [] kind = "set" -> setTypeAdd(IF o.enc = "absent" THEN setTypeCreate(x) ELSE o, x)
    [] kind = "zset" -> zaddGenericCommand(o, x[2], x[1], lv)
    [] kind = "hash" -> hashTypeSet(o, x[1], x[2])
RewriteOf(kind, o) ==
  CASE kind = "list" -> rewriteListObject(o) [] kind = "set" -> rewriteSetObject(o)
    [] kind = "zset" -> rewriteSortedSetObject(o) [] kind = "hash" -> rewriteHashObject(o)
=============================================================================
