---------------------------- MODULE ZsetCommands ----------------------------
(* The commands on sorted sets (redis-3.0.3/src/t_zset.c) and SORT (sort.c). *)
(* A sorted set is a function from its members to their scores; members and  *)
(* scores are small numbers, and numeric order is also the lexical one.      *)
EXTENDS StringCommands, ListCommands, SetCommands

CONSTANT WeightKey     \* the key a BY or GET pattern names for an element

Zset(v) == Obj("zset", v)

\* The members in the order of a sorted set: by score, then by name.
Before(z, a, b) == z[a] < z[b] \/ (z[a] = z[b] /\ a < b)
Ordered(z) == SetToSortSeq(DOMAIN z, LAMBDA a, b : Before(z, a, b))

\* ZADD with NX, XX and INCR, and ZINCRBY, of members and scores.
ZaddMember(z, m, score, flag, incr) ==
  LET new == IF incr /\ m \in DOMAIN z THEN z[m] + score ELSE score
  IN  IF (flag = "nx" /\ m \in DOMAIN z) \/ (flag = "xx" /\ m \notin DOMAIN z) THEN z
      ELSE hashTypeSet(z, m, new)

\* XX creates no key.
zaddGenericCommand(s0, k, scores, flag, incr) ==
  LET s == lookupKeyWrite(s0, k)
      old == ValueOr(s, k, << >>)
      new == FoldSet(LAMBDA m, z : ZaddMember(z, m, scores[m], flag, incr), old, DOMAIN scores)
  IN  IF TypeError(s, k, "zset") \/ new = old THEN s
      ELSE Dirty(Modified(s, k, Zset(new)))

zremCommand(s0, k, members) ==
  LET s == lookupKeyWrite(s0, k)
      z == s.dict[k].val
  IN  IF ~Exists(s, k) \/ TypeError(s, k, "zset") THEN s
      ELSE IF members \cap DOMAIN z = {} THEN s
      ELSE Shrunk(s, k, Zset(Restrict(z, DOMAIN z \ members)))

\* ZREMRANGEBYRANK, BYSCORE and BYLEX.
zremrangeGenericCommand(s0, k, start, end, by) ==
  LET s == lookupKeyWrite(s0, k)
      z == s.dict[k].val
      r == RangeOf(Cardinality(DOMAIN z), start, end)
      gone == CASE by = "rank" -> {Ordered(z)[i] : i \in r[1]..r[2]}
                [] by = "score" -> {m \in DOMAIN z : z[m] \in start..end}
                [] by = "lex" -> DOMAIN z \cap start..end
  IN  IF ~Exists(s, k) \/ TypeError(s, k, "zset") THEN s
      ELSE IF gone = {} THEN s ELSE Shrunk(s, k, Zset(Restrict(z, DOMAIN z \ gone)))

\* The inputs of ZUNIONSTORE and ZINTERSTORE: members of a set score 1.
Scores(s, k) ==
  IF ~Exists(s, k) THEN << >>
  ELSE IF s.dict[k].type = "set" THEN [m \in s.dict[k].val |-> 1] ELSE s.dict[k].val

zunionInterAggregate(a, b, how) ==
  CASE how = "sum" -> a + b
    [] how = "min" -> IF b < a THEN b ELSE a
    [] how = "max" -> IF b > a THEN b ELSE a

\* Members of both inputs; and members of either, with the scores added up.
InterScores(a, b, weight, how) ==
  [m \in DOMAIN a \cap DOMAIN b |-> zunionInterAggregate(a[m], weight * b[m], how)]
UnionScores(a, b, weight, how) ==
  [m \in DOMAIN a \cup DOMAIN b |->
     IF m \notin DOMAIN b THEN a[m]
     ELSE IF m \notin DOMAIN a THEN weight * b[m]
     ELSE zunionInterAggregate(a[m], weight * b[m], how)]

\* An empty result deletes the destination, which only counts when there was
\* one; the second key has the given weight.
zunionInterGenericCommand(s0, dst, k1, k2, weight, how, op) ==
  LET s == lookupKeyWrite(lookupKeyWrite(s0, k1), k2)
      Bad(t, k) == TypeError(t, k, "zset") /\ TypeError(t, k, "set")
      a == Scores(s, k1)
      b == Scores(s, k2)
      z == IF op = "union" THEN UnionScores(a, b, weight, how) ELSE InterScores(a, b, weight, how)
      t == Replaced(s, dst, Zset(z))
  IN  IF Bad(lookupKeyWrite(s0, k1), k1) THEN lookupKeyWrite(s0, k1)
      ELSE IF Bad(s, k2) THEN s
      ELSE IF DOMAIN z = {} /\ ~Exists(s, dst) THEN s
      ELSE Dirty(signalModifiedKey(t, dst))

-----------------------------------------------------------------------------
(* SORT key [BY pattern] [LIMIT 0 count] [GET pattern] [DESC] [ALPHA] STORE dst *)

\* An element that is no number, and comes after those that are; an element of a
\* string that GET looked up.
Word == MaxInt + 1
Element(d) == IF HasLetter(d) THEN Word ELSE Number(d)

\* The order in which a server walks through a set is its own.
WalkOrder(s, v) == SetToSortSeq(v, LAMBDA a, b : IF s.rand = 0 THEN a < b ELSE a > b)

\* lookupKeyByPattern: the weight of an element, a string key named after it.
Weight(s, e) ==
  IF Exists(s, WeightKey[e]) /\ s.dict[WeightKey[e]].type = "string"
  THEN s.dict[WeightKey[e]].val ELSE Nil

\* The score of an element; one without a weight scores 0, and a single one that
\* is no number is an error.
Score(s, e, by) ==
  IF by = "self" THEN e ELSE IF Weight(s, e) = Nil THEN 0 ELSE Element(Weight(s, e))
int_convertion_error(s, v, by, alpha) ==
  by # "nosort" /\ ~alpha /\ \E i \in DOMAIN v : Score(s, v[i], by) = Word

\* compareStringObjects of two weights: a prefix comes first.
LexLess(a, b) ==
  \E i \in DOMAIN b : /\ \A j \in 1..i - 1 : j \in DOMAIN a /\ a[j] = b[j]
                      /\ i \in DOMAIN a => a[i] < b[i]

\* sortCompare: scores and then the elements; with ALPHA the weights alone, a
\* missing one first, or the elements.
Less(s, a, b, by, alpha) ==
  CASE ~alpha -> Score(s, a, by) < Score(s, b, by) \/ (Score(s, a, by) = Score(s, b, by) /\ a < b)
    [] alpha /\ by = "weight" ->
         /\ Weight(s, b) # Nil
         /\ Weight(s, a) # Nil => LexLess(Weight(s, a), Weight(s, b))
    [] OTHER -> a < b

\* qsort leaves what it finds equal in an order that depends on that of the vector.
SortOrder(s, v, by, alpha, desc) ==
  LET Under(i, j) == IF desc THEN Less(s, v[j], v[i], by, alpha) ELSE Less(s, v[i], v[j], by, alpha)
      order == SetToSortSeq(DOMAIN v, LAMBDA i, j : Under(i, j) \/ (~Under(j, i) /\ i < j))
  IN  [i \in DOMAIN v |-> v[order[i]]]

\* A set, or the members of a sorted set, has elements that compare equal.
HasTies(s, o, by, alpha) ==
  /\ o.type # "list" /\ by = "weight"
  /\ \E a, b \in (IF o.type = "set" THEN o.val ELSE DOMAIN o.val) :
       a # b /\ ~Less(s, a, b, by, alpha) /\ ~Less(s, b, a, by, alpha)

\* BY a constant pattern keeps the order of lists and sorted sets; a set that is
\* stored is sorted as with ALPHA, because its own order is not reproducible.
Elements(s, o) ==
  IF o.type = "list" THEN o.val ELSE WalkOrder(s, IF o.type = "set" THEN o.val ELSE DOMAIN o.val)
SortVector(s, o, by, alpha, desc) ==
  CASE o.type = "list" /\ by = "nosort" -> o.val
    [] o.type = "zset" /\ by = "nosort" -> IF desc THEN Reverse(Ordered(o.val)) ELSE Ordered(o.val)
    [] o.type = "set"  /\ by = "nosort" -> SortOrder(s, Elements(s, o), "self", TRUE, desc)
    [] OTHER -> SortOrder(s, Elements(s, o), by, alpha, desc)

\* What STORE keeps of the sorted vector: LIMIT, and the looked up values, an
\* empty string (0 here) for a missing one.
SortOutput(s, v, count, get) ==
  LET cut == SubSeq(v, 1, IF count < Len(v) THEN count ELSE Len(v))
  IN  IF get THEN [i \in DOMAIN cut |-> Score(s, cut[i], "weight")] ELSE cut

\* The patterns look up one key per element.
sortCommand(s0, k, by, alpha, desc, count, get, dst) ==
  LET s1 == lookupKeyRead(s0, k)
      o == IF Exists(s1, k) THEN s1.dict[k] ELSE List(<< >>)
      elems == IF o.type = "set" THEN o.val ELSE IF o.type = "list" THEN ToSet(o.val) ELSE DOMAIN o.val
      uses == by = "weight" \/ get
      s2 == IF uses THEN FoldSet(LAMBDA e, t : lookupKeyRead(t, WeightKey[e]), s1, elems) ELSE s1
      s == [s2 EXCEPT !.unsaid.tied = @ \/ HasTies(s2, o, by, alpha)]
      result == SortOutput(s, SortVector(s, o, by, alpha, desc), count, get)
  IN  IF Exists(s1, k) /\ o.type \notin {"list", "set", "zset"} THEN s1
      ELSE IF int_convertion_error(s, Elements(s, o), by, alpha) THEN s
      ELSE IF result # << >> THEN Dirty(setKey(s, dst, List(result)))
      ELSE IF Exists(s, dst) THEN Dirty(signalModifiedKey(dbDelete(s, dst), dst))
      ELSE s
=============================================================================
