------------------------------ MODULE Ziplist -------------------------------
(* Lists in one block of memory (redis-3.0.3/src/ziplist.c).                 *)
(*                                                                           *)
(* An entry stores the length of the entry before it (prev), in a field of   *)
(* one byte or, from BigLen on, of LargeSize bytes; then its own length and  *)
(* value, Body[val] bytes together.  Growing the field of one entry makes    *)
(* the entry longer and can cascade.  bytes, tail and len are the header's   *)
(* zlbytes, zltail and zllen; a pointer into the list is an entry's number.  *)
(* lost: the block was cut before its end was moved.                         *)
EXTENDS Integers, Sequences, SequencesExt

CONSTANTS BigLen,      \* ZIP_BIGLEN, 254
          LargeSize,   \* bytes of a large prevlen field, 5
          Body         \* size of the encoded length and content of a value

ASSUME BodyAssumption == \A v \in DOMAIN Body : Body[v] >= 1

Header == 2            \* ZIPLIST_HEADER_SIZE

zipPrevEncodeLength(n) == IF n < BigLen THEN 1 ELSE LargeSize
zipRawEntryLength(e) == e.prevsize + Body[e.val]
zipPrevLenByteDiff(e, n) == zipPrevEncodeLength(n) - e.prevsize

Offset(zl, i) == FoldLeft(LAMBDA n, e : n + zipRawEntryLength(e), Header, SubSeq(zl.entries, 1, i - 1))

ziplistNew == [bytes |-> Header + 1, tail |-> Header, len |-> 0, entries |-> << >>, lost |-> FALSE]

\* MUTANT: a grown field never changes the next one.
NoCascade(zl, i) == zl

\* Entry i has changed its length: the following fields are brought up to date
\* while that makes them grow.  A field never shrinks.
__ziplistCascadeUpdate(zl, i) ==
  LET n == Len(zl.entries)
      step[k \in 0..n] ==
        IF k = 0 THEN [zl |-> zl, p |-> i, stop |-> FALSE]
        ELSE LET x == step[k - 1]
                 raw == zipRawEntryLength(x.zl.entries[x.p])
                 next == x.zl.entries[x.p + 1]
                 extra == zipPrevEncodeLength(raw) - next.prevsize
             IN  IF x.stop \/ x.p >= n THEN x
                 ELSE IF next.prev = raw THEN [x EXCEPT !.stop = TRUE]
                 ELSE IF extra > 0
                 THEN [zl |-> [x.zl EXCEPT !.entries[x.p + 1] = [@ EXCEPT !.prevsize = @ + extra, !.prev = raw],
                                           !.bytes = @ + extra,
                                           !.tail = IF @ = Offset(x.zl, x.p + 1) THEN @ ELSE @ + extra],
                       p |-> x.p + 1, stop |-> FALSE]
                 ELSE [x EXCEPT !.zl = [@ EXCEPT !.entries[x.p + 1] = [@ EXCEPT !.prev = raw]], !.stop = TRUE]
  IN  step[n].zl

\* The length an insertion before entry i needs, and what the field of entry i
\* gains or loses by it.
PrevLenAt(zl, i) ==
  IF i <= Len(zl.entries) THEN zl.entries[i].prev
  ELSE IF zl.entries = << >> THEN 0 ELSE zipRawEntryLength(Last(zl.entries))
ReqLen(zl, i, v) == Body[v] + zipPrevEncodeLength(PrevLenAt(zl, i))
NextDiff(zl, i, v) ==
  IF i <= Len(zl.entries) THEN zipPrevLenByteDiff(zl.entries[i], ReqLen(zl, i, v)) ELSE 0

\* The block is resized, and its new last byte set, before the tail is moved: when
\* the next field gives back more than the new entry needs, bytes of the last
\* entry are overwritten and cut off.  What such a list holds is not followed.
CutsTail(zl, i, v) == ReqLen(zl, i, v) + NextDiff(zl, i, v) < 0

__ziplistInsert(zl, i, v) ==
  LET req == ReqLen(zl, i, v)
      diff == NextDiff(zl, i, v)
      new == [prevsize |-> zipPrevEncodeLength(PrevLenAt(zl, i)), prev |-> PrevLenAt(zl, i), val |-> v]
      n == Len(zl.entries)
      moved == IF i > n THEN zl.entries
               ELSE [zl.entries EXCEPT ![i] = [@ EXCEPT !.prevsize = @ + diff, !.prev = req]]
      x == [bytes |-> zl.bytes + req + diff, len |-> zl.len + 1, entries |-> InsertAt(moved, i, new),
            tail |-> IF i > n THEN Offset(zl, i) ELSE zl.tail + req + (IF i < n THEN diff ELSE 0),
            lost |-> zl.lost \/ CutsTail(zl, i, v)]
  IN  IF diff = 0 THEN x ELSE __ziplistCascadeUpdate(x, i + 1)

\* Delete num entries from entry i on; the next one inherits the field's value.
__ziplistDelete(zl, i, num) ==
  LET n == Len(zl.entries)
      last == IF i + num - 1 > n THEN n ELSE i + num - 1
      first == zl.entries[i]
      totlen == Offset(zl, last + 1) - Offset(zl, i)
      diff == IF last < n THEN zipPrevLenByteDiff(zl.entries[last + 1], first.prev) ELSE 0
      rest == SubSeq(zl.entries, last + 1, n)
      kept == IF last = n THEN << >> ELSE [rest EXCEPT ![1] = [@ EXCEPT !.prevsize = @ + diff, !.prev = first.prev]]
      x == [bytes |-> zl.bytes - totlen + diff, len |-> zl.len - (last - i + 1),
            entries |-> SubSeq(zl.entries, 1, i - 1) \o kept, lost |-> zl.lost,
            tail |-> IF last = n THEN Offset(zl, i) - first.prev
                     ELSE zl.tail - totlen + (IF last + 1 < n THEN diff ELSE 0)]
  IN  IF diff = 0 THEN x ELSE __ziplistCascadeUpdate(x, i)

ziplistPush(zl, v, where) == __ziplistInsert(zl, IF where = "head" THEN 1 ELSE Len(zl.entries) + 1, v)
ziplistDelete(zl, i) == __ziplistDelete(zl, i, 1)

\* The entry at an offset; 0 when none starts there.
EntryAt(zl, offset) ==
  LET at == {i \in 1..Len(zl.entries) : Offset(zl, i) = offset}
  IN  IF at = {} THEN 0 ELSE CHOOSE i \in at : TRUE

\* Pointers: entry numbers, 0 for NULL, one past the last for the end byte.  Going
\* back uses the stored lengths.
ziplistNext(zl, i) == IF i >= Len(zl.entries) THEN 0 ELSE i + 1
ziplistPrev(zl, i) ==
  IF i > Len(zl.entries) THEN EntryAt(zl, zl.tail)
  ELSE IF i <= 1 THEN 0 ELSE EntryAt(zl, Offset(zl, i) - zl.entries[i].prev)

\* The entry of an index, negative from the tail; 0 when out of range.
ziplistIndex(zl, index) ==
  LET back[k \in 0..Len(zl.entries) + 1] ==
        IF k = 0 THEN Len(zl.entries) + 1 ELSE ziplistPrev(zl, back[k - 1])
  IN  IF index >= 0 THEN (IF index < Len(zl.entries) THEN index + 1 ELSE 0)
      ELSE IF -index > Len(zl.entries) THEN 0 ELSE back[-index]

ziplistDeleteRange(zl, index, num) ==
  IF ziplistIndex(zl, index) = 0 THEN zl ELSE __ziplistDelete(zl, ziplistIndex(zl, index), num)

ziplistCompare(zl, i, v) == zl.entries[i].val = v

\* The first entry that holds v, looking at every (skip + 1)st from entry i on.
ziplistFind(zl, i, v, skip) ==
  LET at == {j \in i..Len(zl.entries) : (j - i) % (skip + 1) = 0 /\ ziplistCompare(zl, j, v)}
  IN  IF at = {} THEN 0 ELSE CHOOSE j \in at : \A k \in at : j <= k

ziplistLen(zl) == zl.len

\* Lengths, fields and header describe the entries that are there, to the last.
ZiplistSound(zl) ==
  LET n == Len(zl.entries)
  IN  /\ zl.len = n /\ ~zl.lost
      /\ zl.bytes = Offset(zl, n + 1) + 1
      /\ zl.tail = (IF n = 0 THEN Header ELSE Offset(zl, n))
      /\ \A i \in 1..n :
           LET e == zl.entries[i]
           IN  /\ e.prev = (IF i = 1 THEN 0 ELSE zipRawEntryLength(zl.entries[i - 1]))
               /\ e.prevsize >= zipPrevEncodeLength(e.prev)
=============================================================================
