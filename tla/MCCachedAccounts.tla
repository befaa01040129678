-------------------------- MODULE MCCachedAccounts --------------------------
(* An instance of CachedAccounts for TLC: every key is in the same shard. *)
EXTENDS CachedAccounts

OneShard == {"s"}
Collide  == [k \in Keys |-> "s"]
=============================================================================
