--------------------------- MODULE CachedAccounts ---------------------------
(***************************************************************************)
(* database/cached: account reads served through a shared cache, and the   *)
(* writes that invalidate it.                                              *)
(*                                                                         *)
(* An account row is represented by its version, the number of committed   *)
(* writes to it.  A cache key carries the generation of the key's shard;   *)
(* a write makes the old entries of the whole shard unreachable by adding  *)
(* one to it.  Readers and writers interleave between any two steps, and   *)
(* no lock is held while the database is read.                             *)
(***************************************************************************)
EXTENDS Integers

CONSTANTS Keys,       \* accounts
          Shards,     \* cacheState.shards
          ShardOf,    \* the hash that assigns keys to shards; keys collide
          Readers,    \* concurrent calls of SelectAccountBySub
          Writers,    \* concurrent writing calls, each in or outside WithTx
          MaxWrites   \* bound: committed writes of one account

ASSUME ShardAssumption == ShardOf \in [Keys -> Shards]
ASSUME BoundAssumption == MaxWrites \in Nat
ASSUME KeysExist == Keys # {}

VARIABLES
    version,   \* version[k]: committed version of account k in the database
    alive,     \* alive[k]: the account row exists
    gen,       \* gen[s]: shard.generation
    store,     \* entries of the cache store
    rpc,       \* readers: program counter,
    rkey,      \*   the key asked for,
    rgen,      \*   the generation read at lookup,
    rver,      \*   and the version found or loaded
    wpc,       \* writers: program counter,
    pending,   \*   keys still to invalidate,
    wver,      \*   the versions the writer committed,
    stale,     \*   and the old cache key it is about to delete
    acked,     \* history: newest version of k whose writer returned success
    floor      \* history: acked[rkey] when the read started

rvars == <<rpc, rkey, rgen, rver, floor>>
wvars == <<wpc, pending, wver, stale, acked>>
vars  == <<version, alive, gen, store, rvars, wvars>>

Entry == [key : Keys, gen : Nat, ver : Nat]
Slot  == [key : Keys, gen : Nat]

TypeOK ==
    /\ version \in [Keys -> Nat] /\ alive \in [Keys -> BOOLEAN]
    /\ gen \in [Shards -> Nat]
    /\ store \subseteq Entry
    /\ rpc \in [Readers -> {"idle", "load", "fill", "return"}]
    /\ rkey \in [Readers -> Keys]
    /\ rgen \in [Readers -> Nat] /\ rver \in [Readers -> Nat]
    /\ floor \in [Readers -> Nat]
    /\ wpc \in [Writers -> {"idle", "invalidate", "drop"}]
    /\ pending \in [Writers -> SUBSET Keys]
    /\ wver \in [Writers -> [Keys -> Nat]]
    /\ stale \in [Writers -> Slot]
    /\ acked \in [Keys -> Nat]

(* What a local holds while no call uses it. *)
AnyKey == CHOOSE k \in Keys : TRUE
NoSlot == [key |-> AnyKey, gen |-> 0]

Init ==
    /\ version = [k \in Keys |-> 0] /\ alive = [k \in Keys |-> TRUE]
    /\ gen = [s \in Shards |-> 0]
    /\ store = {}
    /\ rpc = [p \in Readers |-> "idle"]
    /\ rkey = [p \in Readers |-> AnyKey]
    /\ rgen = [p \in Readers |-> 0] /\ rver = [p \in Readers |-> 0]
    /\ floor = [p \in Readers |-> 0]
    /\ wpc = [w \in Writers |-> "idle"]
    /\ pending = [w \in Writers |-> {}]
    /\ wver = [w \in Writers |-> [k \in Keys |-> 0]]
    /\ stale = [w \in Writers |-> NoSlot]
    /\ acked = [k \in Keys |-> 0]

Larger(a, b) == IF a < b THEN b ELSE a

Generation(k) == gen[ShardOf[k]]

(* What a lookup can still find. *)
Reachable(e) == e.gen = Generation(e.key)

-----------------------------------------------------------------------------
(* readThrough *)

(* Under the shard's read lock: read the generation and ask the store.  A  *)
(* store that fails, or holds an unreadable entry, counts as a miss.       *)
Lookup(p, k) ==
    /\ rpc[p] = "idle"
    /\ rkey' = [rkey EXCEPT ![p] = k]
    /\ rgen' = [rgen EXCEPT ![p] = Generation(k)]
    /\ floor' = [floor EXCEPT ![p] = acked[k]]
    /\ \/ \E e \in store :
            /\ e.key = k /\ Reachable(e)
            /\ rver' = [rver EXCEPT ![p] = e.ver]
            /\ rpc' = [rpc EXCEPT ![p] = "return"]
       \/ /\ rpc' = [rpc EXCEPT ![p] = "load"]
          /\ UNCHANGED rver
    /\ UNCHANGED <<version, alive, gen, store, wvars>>

(* load: one statement; an absent row is an error and is not cached. *)
Load(p) ==
    /\ rpc[p] = "load"
    /\ rver' = [rver EXCEPT ![p] = version[rkey[p]]]
    /\ rpc' = [rpc EXCEPT ![p] = IF alive[rkey[p]] THEN "fill" ELSE "return"]
    /\ UNCHANGED <<version, alive, gen, store, rkey, rgen, floor, wvars>>

(* As if the loaded row were stored without looking at the generation.     *)
FillUnchecked(p) ==
    /\ rpc[p] = "fill"
    /\ store' = {e \in store : ~(e.key = rkey[p] /\ e.gen = Generation(rkey[p]))}
                  \cup {[key |-> rkey[p], gen |-> Generation(rkey[p]), ver |-> rver[p]]}
    /\ rpc' = [rpc EXCEPT ![p] = "return"]
    /\ UNCHANGED <<version, alive, gen, rkey, rgen, rver, floor, wvars>>

(* Under the read lock again: store the row unless a write intervened.     *)
(* The store may fail to take it.                                          *)
Fill(p) ==
    /\ rpc[p] = "fill"
    /\ \/ /\ rgen[p] = Generation(rkey[p])
          /\ store' = {e \in store : ~(e.key = rkey[p] /\ e.gen = rgen[p])}
                        \cup {[key |-> rkey[p], gen |-> rgen[p], ver |-> rver[p]]}
       \/ UNCHANGED store
    /\ rpc' = [rpc EXCEPT ![p] = "return"]
    /\ UNCHANGED <<version, alive, gen, rkey, rgen, rver, floor, wvars>>

(* The call ends: its locals are gone. *)
Leave(p) ==
    /\ rpc'   = [rpc EXCEPT ![p] = "idle"]
    /\ rkey'  = [rkey EXCEPT ![p] = AnyKey]
    /\ rgen'  = [rgen EXCEPT ![p] = 0]
    /\ rver'  = [rver EXCEPT ![p] = 0]
    /\ floor' = [floor EXCEPT ![p] = 0]
    /\ UNCHANGED <<version, alive, gen, store, wvars>>

Return(p) == rpc[p] = "return" /\ Leave(p)

(* The request is canceled, or the database fails. *)
GiveUp(p) == rpc[p] = "load" /\ Leave(p)

-----------------------------------------------------------------------------
(* Writes *)

(* UpdateAccountEmail or DeleteAccount takes effect for the accounts K: a  *)
(* statement of its own, or the commit of a WithTx that collected K.       *)
Commits(K) ==
    /\ K # {} /\ \A k \in K : version[k] < MaxWrites
    /\ version' = [k \in Keys |-> IF k \in K THEN version[k] + 1 ELSE version[k]]
    /\ \E gone \in SUBSET K : alive' = [k \in Keys |-> alive[k] /\ k \notin gone]

Write(w, K) ==
    /\ wpc[w] = "idle"
    /\ Commits(K)
    /\ wver' = [wver EXCEPT ![w] = [k \in Keys |-> IF k \in K THEN version'[k] ELSE 0]]
    /\ pending' = [pending EXCEPT ![w] = K]
    /\ wpc' = [wpc EXCEPT ![w] = "invalidate"]
    /\ UNCHANGED <<gen, store, rvars, stale, acked>>

(* A write by another process, or one whose commit took effect although    *)
(* WithTx or the statement returned an error: nothing is invalidated.      *)
UncoordinatedWrite(K) ==
    /\ Commits(K)
    /\ UNCHANGED <<gen, store, rvars, wvars>>

(* invalidate, under the shard's write lock. *)
Bump(w, k) ==
    /\ wpc[w] = "invalidate" /\ k \in pending[w]
    /\ stale' = [stale EXCEPT ![w] = [key |-> k, gen |-> Generation(k)]]
    /\ gen' = [gen EXCEPT ![ShardOf[k]] = @ + 1]
    /\ pending' = [pending EXCEPT ![w] = @ \ {k}]
    /\ wpc' = [wpc EXCEPT ![w] = "drop"]
    /\ UNCHANGED <<version, alive, store, rvars, wver, acked>>

(* store.Delete of the old key, outside the lock; it may fail. *)
Drop(w) ==
    /\ wpc[w] = "drop"
    /\ store' \in {store, {e \in store : [key |-> e.key, gen |-> e.gen] # stale[w]}}
    /\ stale' = [stale EXCEPT ![w] = NoSlot]
    /\ wpc' = [wpc EXCEPT ![w] = "invalidate"]
    /\ UNCHANGED <<version, alive, gen, rvars, pending, wver, acked>>

(* The write returns to its caller. *)
Ack(w) ==
    /\ wpc[w] = "invalidate" /\ pending[w] = {}
    /\ acked' = [k \in Keys |-> Larger(acked[k], wver[w][k])]
    /\ wver' = [wver EXCEPT ![w] = [k \in Keys |-> 0]]
    /\ wpc' = [wpc EXCEPT ![w] = "idle"]
    /\ UNCHANGED <<version, alive, gen, store, rvars, pending, stale>>

-----------------------------------------------------------------------------
(* As if entries had no time to live. *)
ExpireNever(e) == FALSE /\ UNCHANGED vars

(* The store drops an entry: its time to live is over, or it makes room.   *)
Expire(e) ==
    /\ e \in store
    /\ store' = store \ {e}
    /\ UNCHANGED <<version, alive, gen, rvars, wvars>>

Read(p) == Load(p) \/ Fill(p) \/ Return(p)

Next ==
    \/ \E p \in Readers : (\E k \in Keys : Lookup(p, k)) \/ Read(p) \/ GiveUp(p)
    \/ \E w \in Writers :
         \/ \E K \in SUBSET Keys : Write(w, K)
         \/ \E k \in Keys : Bump(w, k)
         \/ Drop(w) \/ Ack(w)
    \/ \E K \in SUBSET Keys : UncoordinatedWrite(K)
    \/ \E e \in store : Expire(e)

Spec == Init /\ [][Next]_vars

(* Reads that were started go on, and an entry's time to live runs out.    *)
FairSpec ==
    /\ Spec
    /\ \A p \in Readers : WF_vars(Read(p))
    /\ \A k \in Keys : WF_vars(\E e \in store : e.key = k /\ Expire(e))

-----------------------------------------------------------------------------
(* Properties. *)

(* A read that starts after a write was reported done never returns an     *)
(* older row, whatever fills, invalidations, evictions, colliding keys and *)
(* uncoordinated writes it races; in particular a deleted account is not   *)
(* served any more.                                                        *)
ReadFresh == \A p \in Readers : rpc[p] = "return" => rver[p] >= floor[p]

(* Changes made behind the wrapper's back become visible: from some time   *)
(* on the cache holds nothing older (the comment at cached.go:20-23).      *)
UncoordinatedVisible ==
    \A k \in Keys : \A v \in 1 .. MaxWrites :
        version[k] >= v ~>
            [](\A e \in store : (e.key = k /\ Reachable(e)) => e.ver >= v)
=============================================================================
