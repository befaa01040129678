---------------------------- MODULE MCMemoryStore ----------------------------
(* Instances of MemoryStore for TLC: three keys, one of them longer, two    *)
(* lengths of values, room for two entries or for four bytes.               *)
EXTENDS MemoryStore, TLC

CONSTANT Long

Lengths   == [k \in CacheKeys |-> IF k = Long THEN 2 ELSE 1]
TwoSizes  == {0, 2}
=============================================================================
