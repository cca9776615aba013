---------------------------- MODULE MCStructures ----------------------------
(* A cell of an intset has four values where the code's has 2^16; a ziplist  *)
(* field grows at entries of six bytes where the code's grows at 254.       *)
EXTENDS Structures

CONSTANT foo    \* a set member that is not an integer

MCKinds == {"list", "set", "hash", "zset", "hll", "dict"}
\* Values are numbers; 4 is longer than the limit of a ziplist.
MCBody == 0 :> 1 @@ 1 :> 1 @@ 2 :> 2 @@ 3 :> 5 @@ 4 :> 6 @@ 5 :> 1 @@ -9 :> 2 @@ -1 :> 2 @@ foo :> 3
MCSetValues == {-9, -1, 1, 5, foo}
MCIsInteger(v) == v \notin {foo, 4}
MCHash == 1 :> 0 @@ 2 :> 1 @@ 3 :> 2 @@ 4 :> 5 @@ -9 :> 3 @@ -1 :> 1 @@ 5 :> 5 @@ foo :> 3
MCMerges == {<<0, 1, 0, 2>>, <<3, 0, 0, 0>>}
=============================================================================
