-------------------------- MODULE AccountCacheProofs --------------------------
(***************************************************************************)
(* The account cache and the in-memory store it keeps its entries in.      *)
(*                                                                         *)
(* First, reads through the cache are fresh: for every set of accounts,    *)
(* readers and writers and every assignment of keys to shards.             *)
(* The argument: a version is Known to be current enough for k when no     *)
(* write of k that was reported done, or whose invalidation took effect,   *)
(* is newer.  What the database holds is always Known; an entry is Known   *)
(* as long as it is reachable, because the write that would make it too    *)
(* old first moves the shard to a generation that no entry and no fill in  *)
(* flight has yet.                                                         *)
(*                                                                         *)
(* Then, the store is consistent, answers with current entries and evicts  *)
(* no entry that could have stayed: for every limit and any entries.       *)
(* The argument: between two operations the contents are Whole, and each   *)
(* operation removes a stretch of the list, then perhaps appends.  Which   *)
(* stretch deleteExpired and the eviction loop remove, and what a list of  *)
(* entries adds up to, is shown by looking at the least number for which   *)
(* it would be otherwise.                                                  *)
(***************************************************************************)
EXTENDS CachedAccounts, MemoryStore, WellFoundedInduction, SequenceTheorems, TLAPS

-----------------------------------------------------------------------------
(* Reads through the cache. *)

(* v is no older than any write of k whose invalidation took effect. *)
Known(k, v) ==
    /\ acked[k] <= v
    /\ \A w \in Writers : k \in pending[w] \/ wver[w][k] <= v

(* Between lookup and fill. *)
Reading(p) == rpc[p] \in {"load", "fill"}

(* No entry and no fill comes from a generation still to come. *)
GenOK ==
    /\ \A e \in store : e.gen <= Generation(e.key)
    /\ \A p \in Readers : Reading(p) => rgen[p] <= Generation(rkey[p])

(* The database is never behind what was written. *)
DbOK ==
    \A k \in Keys : /\ acked[k] <= version[k]
                    /\ \A w \in Writers : wver[w][k] <= version[k]

StoreOK == \A e \in store : Reachable(e) => Known(e.key, e.ver)

(* A fill that will be accepted. *)
FillOK ==
    \A p \in Readers :
        (rpc[p] = "fill" /\ rgen[p] = Generation(rkey[p])) => Known(rkey[p], rver[p])

FloorOK ==
    \A p \in Readers :
        /\ rpc[p] # "idle" => floor[p] <= acked[rkey[p]]
        /\ rpc[p] \in {"fill", "return"} => floor[p] <= rver[p]

IInv == TypeOK /\ GenOK /\ DbOK /\ StoreOK /\ FillOK /\ FloorOK

LEMMA KeyExists == ASSUME NEW k \in Keys PROVE AnyKey \in Keys
  BY DEF AnyKey


LEMMA TypeStep ==
    ASSUME TypeOK, [Next]_vars
    PROVE  TypeOK'
<1> USE ShardAssumption, BoundAssumption
<1>1. ASSUME NEW p \in Readers, NEW k \in Keys, Lookup(p, k)
      PROVE  TypeOK'
  BY <1>1 DEF Lookup, TypeOK, Entry, wvars, Generation
<1>2. ASSUME NEW p \in Readers, Load(p)
      PROVE  TypeOK'
  BY <1>2 DEF Load, TypeOK, wvars
<1>3. ASSUME NEW p \in Readers, Fill(p)
      PROVE  TypeOK'
  BY <1>3 DEF Fill, TypeOK, Entry, wvars
<1>4. ASSUME NEW p \in Readers, Leave(p)
      PROVE  TypeOK'
  BY <1>4, KeyExists DEF Leave, TypeOK, wvars
<1>5. ASSUME NEW w \in Writers, NEW K \in SUBSET Keys, Write(w, K)
      PROVE  TypeOK'
  BY <1>5 DEF Write, Commits, TypeOK, rvars
<1>6. ASSUME NEW K \in SUBSET Keys, UncoordinatedWrite(K)
      PROVE  TypeOK'
  BY <1>6 DEF UncoordinatedWrite, Commits, TypeOK, rvars, wvars
<1>7. ASSUME NEW w \in Writers, NEW k \in Keys, Bump(w, k)
      PROVE  TypeOK'
  BY <1>7 DEF Bump, TypeOK, Slot, rvars, Generation
<1>8. ASSUME NEW w \in Writers, Drop(w)
      PROVE  TypeOK'
  BY <1>8, KeyExists DEF Drop, TypeOK, Slot, rvars, NoSlot
<1>9. ASSUME NEW w \in Writers, Ack(w)
      PROVE  TypeOK'
  BY <1>9 DEF Ack, TypeOK, rvars, Larger
<1>10. ASSUME NEW e \in store, Expire(e)
      PROVE  TypeOK'
  BY <1>10 DEF Expire, TypeOK, rvars, wvars
<1>11. ASSUME UNCHANGED vars
      PROVE  TypeOK'
  BY <1>11 DEF vars, TypeOK, rvars, wvars
<1>12. QED
  BY <1>1, <1>2, <1>3, <1>4, <1>5, <1>6, <1>7, <1>8, <1>9, <1>10, <1>11
  DEF Next, Read, Return, GiveUp

LEMMA GenStep ==
    ASSUME TypeOK, GenOK, [Next]_vars
    PROVE  GenOK'
<1> USE ShardAssumption, BoundAssumption
<1>1. ASSUME NEW p \in Readers, NEW k \in Keys, Lookup(p, k)
      PROVE  GenOK'
  BY <1>1 DEF Lookup, TypeOK, GenOK, Generation, Reading
<1>2. ASSUME NEW p \in Readers, Load(p)
      PROVE  GenOK'
  BY <1>2 DEF Load, GenOK, Generation, Reading
<1>3. ASSUME NEW p \in Readers, Fill(p)
      PROVE  GenOK'
  BY <1>3 DEF Fill, GenOK, Generation, Reading
<1>4. ASSUME NEW p \in Readers, Leave(p)
      PROVE  GenOK'
  BY <1>4 DEF Leave, TypeOK, GenOK, Generation, Reading
<1>5. ASSUME NEW w \in Writers, NEW K \in SUBSET Keys, Write(w, K)
      PROVE  GenOK'
  BY <1>5 DEF Write, rvars, GenOK, Generation, Reading
<1>6. ASSUME NEW K \in SUBSET Keys, UncoordinatedWrite(K)
      PROVE  GenOK'
  BY <1>6 DEF UncoordinatedWrite, rvars, GenOK, Generation, Reading
<1>7. ASSUME NEW w \in Writers, NEW k \in Keys, Bump(w, k)
      PROVE  GenOK'
  BY <1>7 DEF Bump, TypeOK, Entry, rvars, GenOK, Generation, Reading
<1>8. ASSUME NEW w \in Writers, Drop(w)
      PROVE  GenOK'
  BY <1>8 DEF Drop, rvars, GenOK, Generation, Reading
<1>9. ASSUME NEW w \in Writers, Ack(w)
      PROVE  GenOK'
  BY <1>9 DEF Ack, rvars, GenOK, Generation, Reading
<1>10. ASSUME NEW e \in store, Expire(e)
      PROVE  GenOK'
  BY <1>10 DEF Expire, rvars, GenOK, Generation, Reading
<1>11. ASSUME UNCHANGED vars
      PROVE  GenOK'
  BY <1>11 DEF vars, rvars, GenOK, Generation, Reading
<1>12. QED
  BY <1>1, <1>2, <1>3, <1>4, <1>5, <1>6, <1>7, <1>8, <1>9, <1>10, <1>11
  DEF Next, Read, Return, GiveUp

LEMMA DbStep ==
    ASSUME TypeOK, DbOK, [Next]_vars
    PROVE  DbOK'
<1> USE ShardAssumption, BoundAssumption
<1>1. ASSUME NEW p \in Readers, NEW k \in Keys, Lookup(p, k)
      PROVE  DbOK'
  BY <1>1 DEF Lookup, wvars, DbOK
<1>2. ASSUME NEW p \in Readers, Load(p)
      PROVE  DbOK'
  BY <1>2 DEF Load, wvars, DbOK
<1>3. ASSUME NEW p \in Readers, Fill(p)
      PROVE  DbOK'
  BY <1>3 DEF Fill, wvars, DbOK
<1>4. ASSUME NEW p \in Readers, Leave(p)
      PROVE  DbOK'
  BY <1>4 DEF Leave, wvars, DbOK
<1>5. ASSUME NEW w \in Writers, NEW K \in SUBSET Keys, Write(w, K)
      PROVE  DbOK'
  BY <1>5 DEF Write, Commits, TypeOK, DbOK
<1>6. ASSUME NEW K \in SUBSET Keys, UncoordinatedWrite(K)
      PROVE  DbOK'
  BY <1>6 DEF UncoordinatedWrite, Commits, TypeOK, wvars, DbOK
<1>7. ASSUME NEW w \in Writers, NEW k \in Keys, Bump(w, k)
      PROVE  DbOK'
  BY <1>7 DEF Bump, DbOK
<1>8. ASSUME NEW w \in Writers, Drop(w)
      PROVE  DbOK'
  BY <1>8 DEF Drop, DbOK
<1>9. ASSUME NEW w \in Writers, Ack(w)
      PROVE  DbOK'
  BY <1>9 DEF Ack, TypeOK, DbOK, Larger
<1>10. ASSUME NEW e \in store, Expire(e)
      PROVE  DbOK'
  BY <1>10 DEF Expire, wvars, DbOK
<1>11. ASSUME UNCHANGED vars
      PROVE  DbOK'
  BY <1>11 DEF vars, wvars, DbOK
<1>12. QED
  BY <1>1, <1>2, <1>3, <1>4, <1>5, <1>6, <1>7, <1>8, <1>9, <1>10, <1>11
  DEF Next, Read, Return, GiveUp

LEMMA StoreStep ==
    ASSUME TypeOK, GenOK, DbOK, StoreOK, FillOK, [Next]_vars
    PROVE  StoreOK'
<1> USE ShardAssumption, BoundAssumption
<1>1. ASSUME NEW p \in Readers, NEW k \in Keys, Lookup(p, k)
      PROVE  StoreOK'
  BY <1>1 DEF Lookup, wvars, StoreOK, Known, Generation, Reachable
<1>2. ASSUME NEW p \in Readers, Load(p)
      PROVE  StoreOK'
  BY <1>2 DEF Load, wvars, StoreOK, Known, Generation, Reachable
<1>3. ASSUME NEW p \in Readers, Fill(p)
      PROVE  StoreOK'
  BY <1>3 DEF Fill, wvars, StoreOK, FillOK, Known, Generation, Reachable
<1>4. ASSUME NEW p \in Readers, Leave(p)
      PROVE  StoreOK'
  BY <1>4 DEF Leave, wvars, StoreOK, Known, Generation, Reachable
<1>5. ASSUME NEW w \in Writers, NEW K \in SUBSET Keys, Write(w, K)
      PROVE  StoreOK'
  BY <1>5 DEF Write, TypeOK, Entry, StoreOK, Known, Generation, Reachable
<1>6. ASSUME NEW K \in SUBSET Keys, UncoordinatedWrite(K)
      PROVE  StoreOK'
  BY <1>6 DEF UncoordinatedWrite, wvars, StoreOK, Known, Generation, Reachable
<1>7. ASSUME NEW w \in Writers, NEW k \in Keys, Bump(w, k)
      PROVE  StoreOK'
  BY <1>7 DEF Bump, TypeOK, GenOK, StoreOK, Known, Generation, Reachable
<1>8. ASSUME NEW w \in Writers, Drop(w)
      PROVE  StoreOK'
  BY <1>8 DEF Drop, StoreOK, Known, Generation, Reachable
<1>9. ASSUME NEW w \in Writers, Ack(w)
      PROVE  StoreOK'
  BY <1>9 DEF Ack, TypeOK, Entry, StoreOK, Known, Generation, Reachable, Larger
<1>10. ASSUME NEW e \in store, Expire(e)
      PROVE  StoreOK'
  BY <1>10 DEF Expire, wvars, StoreOK, Known, Generation, Reachable
<1>11. ASSUME UNCHANGED vars
      PROVE  StoreOK'
  BY <1>11 DEF vars, wvars, StoreOK, Known, Generation, Reachable
<1>12. QED
  BY <1>1, <1>2, <1>3, <1>4, <1>5, <1>6, <1>7, <1>8, <1>9, <1>10, <1>11
  DEF Next, Read, Return, GiveUp

LEMMA FillStep ==
    ASSUME TypeOK, GenOK, DbOK, FillOK, [Next]_vars
    PROVE  FillOK'
<1> USE ShardAssumption, BoundAssumption
<1>1. ASSUME NEW p \in Readers, NEW k \in Keys, Lookup(p, k)
      PROVE  FillOK'
  BY <1>1 DEF Lookup, TypeOK, wvars, FillOK, Known, Generation
<1>2. ASSUME NEW p \in Readers, Load(p)
      PROVE  FillOK'
  BY <1>2 DEF Load, TypeOK, wvars, DbOK, FillOK, Known, Generation
<1>3. ASSUME NEW p \in Readers, Fill(p)
      PROVE  FillOK'
  BY <1>3 DEF Fill, wvars, FillOK, Known, Generation
<1>4. ASSUME NEW p \in Readers, Leave(p)
      PROVE  FillOK'
  BY <1>4 DEF Leave, TypeOK, wvars, FillOK, Known, Generation
<1>5. ASSUME NEW w \in Writers, NEW K \in SUBSET Keys, Write(w, K)
      PROVE  FillOK'
  BY <1>5 DEF Write, TypeOK, rvars, FillOK, Known, Generation
<1>6. ASSUME NEW K \in SUBSET Keys, UncoordinatedWrite(K)
      PROVE  FillOK'
  BY <1>6 DEF UncoordinatedWrite, rvars, wvars, FillOK, Known, Generation
<1>7. ASSUME NEW w \in Writers, NEW k \in Keys, Bump(w, k)
      PROVE  FillOK'
  BY <1>7 DEF Bump, TypeOK, rvars, GenOK, FillOK, Reading, Known, Generation
<1>8. ASSUME NEW w \in Writers, Drop(w)
      PROVE  FillOK'
  BY <1>8 DEF Drop, rvars, FillOK, Known, Generation
<1>9. ASSUME NEW w \in Writers, Ack(w)
      PROVE  FillOK'
  BY <1>9 DEF Ack, TypeOK, rvars, FillOK, Known, Generation, Larger
<1>10. ASSUME NEW e \in store, Expire(e)
      PROVE  FillOK'
  BY <1>10 DEF Expire, rvars, wvars, FillOK, Known, Generation
<1>11. ASSUME UNCHANGED vars
      PROVE  FillOK'
  BY <1>11 DEF vars, rvars, wvars, FillOK, Known, Generation
<1>12. QED
  BY <1>1, <1>2, <1>3, <1>4, <1>5, <1>6, <1>7, <1>8, <1>9, <1>10, <1>11
  DEF Next, Read, Return, GiveUp

LEMMA FloorStep ==
    ASSUME TypeOK, DbOK, StoreOK, FloorOK, [Next]_vars
    PROVE  FloorOK'
<1> USE ShardAssumption, BoundAssumption
<1>1. ASSUME NEW p \in Readers, NEW k \in Keys, Lookup(p, k)
      PROVE  FloorOK'
  BY <1>1 DEF Lookup, TypeOK, wvars, StoreOK, FloorOK, Known
<1>2. ASSUME NEW p \in Readers, Load(p)
      PROVE  FloorOK'
  BY <1>2 DEF Load, TypeOK, wvars, DbOK, FloorOK
<1>3. ASSUME NEW p \in Readers, Fill(p)
      PROVE  FloorOK'
  BY <1>3 DEF Fill, wvars, FloorOK
<1>4. ASSUME NEW p \in Readers, Leave(p)
      PROVE  FloorOK'
  BY <1>4 DEF Leave, TypeOK, wvars, FloorOK
<1>5. ASSUME NEW w \in Writers, NEW K \in SUBSET Keys, Write(w, K)
      PROVE  FloorOK'
  BY <1>5 DEF Write, rvars, FloorOK
<1>6. ASSUME NEW K \in SUBSET Keys, UncoordinatedWrite(K)
      PROVE  FloorOK'
  BY <1>6 DEF UncoordinatedWrite, rvars, wvars, FloorOK
<1>7. ASSUME NEW w \in Writers, NEW k \in Keys, Bump(w, k)
      PROVE  FloorOK'
  BY <1>7 DEF Bump, rvars, FloorOK
<1>8. ASSUME NEW w \in Writers, Drop(w)
      PROVE  FloorOK'
  BY <1>8 DEF Drop, rvars, FloorOK
<1>9. ASSUME NEW w \in Writers, Ack(w)
      PROVE  FloorOK'
  BY <1>9 DEF Ack, TypeOK, rvars, FloorOK, Larger
<1>10. ASSUME NEW e \in store, Expire(e)
      PROVE  FloorOK'
  BY <1>10 DEF Expire, rvars, wvars, FloorOK
<1>11. ASSUME UNCHANGED vars
      PROVE  FloorOK'
  BY <1>11 DEF vars, rvars, wvars, FloorOK
<1>12. QED
  BY <1>1, <1>2, <1>3, <1>4, <1>5, <1>6, <1>7, <1>8, <1>9, <1>10, <1>11
  DEF Next, Read, Return, GiveUp

LEMMA InitIInv == ASSUME Keys # {}, Init PROVE IInv
<1>1. AnyKey \in Keys
  BY KeyExists
<1>2. TypeOK
  BY <1>1, ShardAssumption DEF Init, TypeOK, Slot, NoSlot
<1>3. GenOK /\ DbOK /\ StoreOK /\ FillOK /\ FloorOK
  BY <1>1, ShardAssumption
  DEF Init, GenOK, DbOK, StoreOK, FillOK, FloorOK, Reading
<1>4. QED
  BY <1>2, <1>3 DEF IInv

LEMMA StepIInv == ASSUME IInv, [Next]_vars PROVE IInv'
  BY TypeStep, GenStep, DbStep, StoreStep, FillStep, FloorStep DEF IInv

(* The inductive invariant holds in every state. *)
THEOREM Invariance == Spec => []IInv
  BY InitIInv, StepIInv, KeysExist, PTL DEF Spec

(* CachedAccounts keeps its types. *)
THEOREM TypeCorrect == Spec => []TypeOK
<1>1. IInv => TypeOK
  BY DEF IInv
<1>2. QED
  BY Invariance, <1>1, PTL

(* readThrough never returns a row older than a write that was reported    *)
(* done before the read began.                                             *)
THEOREM ReadsAreFresh == Spec => []ReadFresh
<1>1. IInv => ReadFresh
  BY DEF IInv, TypeOK, FloorOK, ReadFresh
<1>2. QED
  BY Invariance, <1>1, PTL

-----------------------------------------------------------------------------
(* The in-memory store: sums over lists, and lists without some elements. *)

(* A non-empty set of numbers has a least element: what holds for every     *)
(* number is shown below from the least one for which it would not hold.    *)
LEMMA Least ==
    ASSUME NEW S, S \subseteq Nat, S # {}
    PROVE  \E n \in S : \A m \in S : n <= m
<1> DEFINE Less == {ss \in Nat \X Nat : ss[1] < ss[2]}
<1>1. IsWellFoundedOn(Less, Nat)
  BY NatLessThanWellFounded, Zenon DEF OpToRel
<1>2. \E n \in S : \A m \in S : <<m, n>> \notin Less
  <2> HIDE DEF Less
  <2>1. QED
    BY <1>1, WFMin
<1>3. PICK n \in S : \A m \in S : <<m, n>> \notin Less
  BY <1>2
<1>4. ASSUME NEW m \in S PROVE n <= m
  <2>1. n \in Nat /\ m \in Nat /\ <<m, n>> \in Nat \X Nat /\ <<m, n>> \notin Less
    BY <1>3
  <2>2. ~(m < n)
    BY <2>1
  <2>3. QED
    BY <2>1, <2>2
<1>5. QED
  BY <1>4

(* f[n] is the length of the first n entries. *)
Sums(list, f) ==
    /\ f \in [0 .. Len(list) -> Nat]
    /\ f[0] = 0
    /\ \A n \in 1 .. Len(list) : f[n] = f[n - 1] + Bytes(list[n])

(* Every entry has a length, and none is empty: a blank key is refused.     *)
LEMMA BytesNat == ASSUME NEW x \in Element PROVE Bytes(x) \in Nat /\ Bytes(x) > 0
<1>1. x.key \in CacheKeys /\ x.size \in Sizes
  BY DEF Element
<1>2. KeySize[x.key] \in Nat \ {0}
  BY <1>1, SizeAssumption
<1>3. x.size \in Nat
  BY <1>1, SizeAssumption
<1>4. QED
  BY <1>2, <1>3 DEF Bytes

(* Every list has its sums: extend those of the list without its last entry.*)
LEMMA SumsExist ==
    ASSUME NEW list \in Seq(Element)
    PROVE  \E f : Sums(list, f)
<1> DEFINE Upto(n, f) == /\ f \in [0 .. n -> Nat] /\ f[0] = 0
                         /\ \A m \in 1 .. n : f[m] = f[m - 1] + Bytes(list[m])
           Bad == {n \in 0 .. Len(list) : ~\E f : Upto(n, f)}
<1>1. ASSUME Bad # {} PROVE FALSE
  <2>1. PICK n \in Bad : \A m \in Bad : n <= m
    <3>1. Bad \subseteq Nat
      OBVIOUS
    <3> HIDE DEF Bad
    <3>2. QED
      BY <1>1, <3>1, Least
  <2>2. n \in 0 .. Len(list) /\ n \in Nat /\ Len(list) \in Nat
    OBVIOUS
  <2>3. n # 0
    <3>1. Upto(0, [m \in {0} |-> 0])
      OBVIOUS
    <3>2. QED
      BY <3>1
  <2>4. n - 1 \in 0 .. Len(list) /\ n - 1 \notin Bad
    <3>1. n - 1 \in 0 .. Len(list) /\ ~(n <= n - 1)
      BY <2>2, <2>3
    <3> HIDE DEF Bad
    <3>2. QED
      BY <2>1, <3>1
  <2>5. PICK f : Upto(n - 1, f)
    BY <2>4
  <2>6. Bytes(list[n]) \in Nat
    BY <2>2, <2>3, BytesNat
  <2> DEFINE g == [m \in 0 .. n |-> IF m = n THEN f[n - 1] + Bytes(list[n]) ELSE f[m]]
  <2>7. g \in [0 .. n -> Nat] /\ g[0] = 0
    BY <2>2, <2>3, <2>5, <2>6
  <2>8. ASSUME NEW m \in 1 .. n PROVE g[m] = g[m - 1] + Bytes(list[m])
    BY <2>2, <2>3, <2>5
  <2>9. Upto(n, g)
    BY <2>7, <2>8
  <2>10. QED
    BY <2>1, <2>9
<1>2. Len(list) \in 0 .. Len(list) /\ Len(list) \notin Bad
  <2>1. Len(list) \in 0 .. Len(list)
    OBVIOUS
  <2> HIDE DEF Bad
  <2>2. QED
    BY <1>1, <2>1
<1>3. QED
  BY <1>2 DEF Sums

(* Total is the last of them. *)
LEMMA TotalIsSum ==
    ASSUME NEW list \in Seq(Element), NEW f, Sums(list, f)
    PROVE  Total(list) = f[Len(list)]
<1> DEFINE sum ==
        CHOOSE h : h = [n \in 0 .. Len(list) |-> IF n = 0 THEN 0 ELSE h[n - 1] + Bytes(list[n])]
           Bad == {n \in 0 .. Len(list) : sum[n] # f[n]}
<1>1. sum = [n \in 0 .. Len(list) |-> IF n = 0 THEN 0 ELSE sum[n - 1] + Bytes(list[n])]
  <2>1. f = [n \in 0 .. Len(list) |-> IF n = 0 THEN 0 ELSE f[n - 1] + Bytes(list[n])]
    BY DEF Sums
  <2>2. QED
    BY <2>1
<1>2. Total(list) = sum[Len(list)]
  BY DEF Total
<1> HIDE DEF sum
<1>3. ASSUME Bad # {} PROVE FALSE
  <2>1. PICK n \in Bad : \A m \in Bad : n <= m
    <3>1. Bad \subseteq Nat
      OBVIOUS
    <3> HIDE DEF Bad
    <3>2. QED
      BY <1>3, <3>1, Least
  <2>2. n \in 0 .. Len(list) /\ sum[n] # f[n]
    BY <2>1
  <2>3. sum[n] = IF n = 0 THEN 0 ELSE sum[n - 1] + Bytes(list[n])
    BY <1>1, <2>2
  <2>4. f[n] = IF n = 0 THEN 0 ELSE f[n - 1] + Bytes(list[n])
    BY <2>2 DEF Sums
  <2>5. n # 0
    BY <2>2, <2>3, <2>4
  <2>6. n - 1 \in 0 .. Len(list) /\ ~(n <= n - 1)
    BY <2>2, <2>5
  <2>7. sum[n - 1] = f[n - 1]
    BY <2>1, <2>6
  <2>8. QED
    BY <2>2, <2>3, <2>4, <2>7
<1>4. QED
  BY <1>2, <1>3

(* The lengths of two lists add up. *)
LEMMA TotalOfConcat ==
    ASSUME NEW a \in Seq(Element), NEW b \in Seq(Element)
    PROVE  Total(a \o b) = Total(a) + Total(b)
<1>1. PICK f : Sums(a, f)
  BY SumsExist
<1>2. PICK g : Sums(b, g)
  BY SumsExist
<1> DEFINE ab == a \o b
           h  == [n \in 0 .. Len(a) + Len(b) |->
                    IF n <= Len(a) THEN f[n] ELSE f[Len(a)] + g[n - Len(a)]]
<1>3. /\ ab \in Seq(Element) /\ Len(ab) = Len(a) + Len(b)
      /\ Len(a) \in Nat /\ Len(b) \in Nat
      /\ \A n \in 1 .. Len(ab) : ab[n] = IF n <= Len(a) THEN a[n] ELSE b[n - Len(a)]
  OBVIOUS
<1> HIDE DEF ab
<1>4. h[0] = 0 /\ h[Len(ab)] = f[Len(a)] + g[Len(b)] /\ h \in [0 .. Len(ab) -> Nat]
  <2>1. /\ f[0] = 0 /\ g[0] = 0
        /\ \A n \in 0 .. Len(a) : f[n] \in Nat
        /\ \A n \in 0 .. Len(b) : g[n] \in Nat
    BY <1>1, <1>2, <1>3 DEF Sums
  <2>2. ASSUME NEW n \in 0 .. Len(ab) PROVE h[n] \in Nat
    <3>1. n \in 0 .. Len(a) + Len(b) /\ 0 \in 0 .. Len(b) /\ Len(a) \in 0 .. Len(a)
      BY <1>3
    <3>2. CASE n <= Len(a)
      BY <1>3, <2>1, <3>1, <3>2
    <3>3. CASE n > Len(a)
      <4>1. n - Len(a) \in 0 .. Len(b) /\ h[n] = f[Len(a)] + g[n - Len(a)]
        BY <1>3, <3>1, <3>3
      <4>2. f[Len(a)] \in Nat /\ g[n - Len(a)] \in Nat
        BY <2>1, <3>1, <4>1
      <4>3. QED
        BY <4>1, <4>2
    <3>4. QED
      BY <1>3, <3>1, <3>2, <3>3
  <2>3. QED
    BY <1>3, <2>1, <2>2
<1>5. ASSUME NEW n \in 1 .. Len(ab) PROVE h[n] = h[n - 1] + Bytes(ab[n])
  <2>1. CASE n <= Len(a)
    <3>1. /\ n \in 1 .. Len(a) /\ h[n] = f[n] /\ h[n - 1] = f[n - 1] /\ ab[n] = a[n]
      BY <1>3, <2>1
    <3>2. QED
      BY <1>1, <3>1 DEF Sums
  <2>2. CASE n > Len(a)
    <3> DEFINE m == n - Len(a)
    <3>1. /\ m \in 1 .. Len(b) /\ m - 1 \in 0 .. Len(b) /\ ab[n] = b[m]
          /\ n - 1 - Len(a) = m - 1 /\ (n - 1 <= Len(a) => n - 1 = Len(a) /\ m - 1 = 0)
          /\ n \in 0 .. Len(a) + Len(b) /\ n - 1 \in 0 .. Len(a) + Len(b)
      BY <1>3, <2>2
    <3>2. /\ h[n] = f[Len(a)] + g[m]
          /\ h[n - 1] = IF n - 1 <= Len(a) THEN f[n - 1] ELSE f[Len(a)] + g[m - 1]
      BY <2>2, <3>1
    <3> HIDE DEF m, h
    <3>3. g \in [0 .. Len(b) -> Nat] /\ g[0] = 0 /\ g[m] = g[m - 1] + Bytes(b[m])
      BY <1>2, <3>1 DEF Sums
    <3>4. f[Len(a)] \in Nat
      BY <1>1, <1>3 DEF Sums
    <3>5. Bytes(b[m]) \in Nat /\ g[m - 1] \in Nat
      <4>1. b[m] \in Element
        BY <3>1
      <4>2. g[m - 1] \in Nat
        BY <3>1, <3>3
      <4>3. QED
        BY <4>1, <4>2, BytesNat
    <3>6. h[n - 1] = f[Len(a)] + g[m - 1]
      BY <3>1, <3>2, <3>3, <3>4
    <3>7. QED
      BY <3>1, <3>2, <3>3, <3>4, <3>5, <3>6
  <2>3. QED
    BY <1>3, <2>1, <2>2
<1>6. Sums(ab, h)
  BY <1>4, <1>5 DEF Sums
<1> HIDE DEF h
<1>7. Total(ab) = h[Len(ab)] /\ Total(a) = f[Len(a)] /\ Total(b) = g[Len(b)]
  BY <1>1, <1>2, <1>3, <1>6, TotalIsSum
<1>8. QED
  BY <1>4, <1>7 DEF ab

(* Total on the lists that the operations need. *)
LEMMA TotalNat == ASSUME NEW list \in Seq(Element) PROVE Total(list) \in Nat
<1>1. PICK f : Sums(list, f)
  BY SumsExist
<1>2. Total(list) = f[Len(list)] /\ Len(list) \in 0 .. Len(list)
  BY <1>1, TotalIsSum
<1>3. QED
  BY <1>1, <1>2 DEF Sums

LEMMA TotalOfNone == Total(<< >>) = 0
<1>1. << >> \in Seq(Element) /\ Len(<< >>) = 0
  OBVIOUS
<1>2. PICK f : Sums(<< >>, f)
  BY <1>1, SumsExist
<1>3. Total(<< >>) = f[Len(<< >>)]
  BY <1>1, <1>2, TotalIsSum
<1>4. QED
  BY <1>1, <1>2, <1>3 DEF Sums

LEMMA TotalOfOne == ASSUME NEW x \in Element PROVE Total(<<x>>) = Bytes(x)
<1>1. <<x>> \in Seq(Element) /\ Len(<<x>>) = 1 /\ <<x>>[1] = x
  OBVIOUS
<1>2. PICK f : Sums(<<x>>, f)
  BY <1>1, SumsExist
<1>3. Total(<<x>>) = f[Len(<<x>>)]
  BY <1>1, <1>2, TotalIsSum
<1>4. f[0] = 0 /\ f[1] = f[0] + Bytes(x)
  BY <1>1, <1>2 DEF Sums
<1>5. QED
  BY <1>1, <1>3, <1>4, BytesNat

(* The contents between two operations: the map and the list hold the same  *)
(* entries, the list is in the order of their writes, and so also of their  *)
(* expiry and with no key twice, and the count is the sum of the lengths.   *)
Whole(s) ==
    /\ s.items \in [CacheKeys -> Element \cup {None}]
    /\ s.order \in Seq(Element)
    /\ \A i \in DOMAIN s.order : s.items[s.order[i].key] = s.order[i]
    /\ \A k \in CacheKeys : s.items[k] # None =>
         s.items[k].key = k /\ \E i \in DOMAIN s.order : s.order[i] = s.items[k]
    /\ \A i, j \in DOMAIN s.order : i < j =>
         /\ s.order[i].key # s.order[j].key
         /\ s.order[i].expiresAt <= s.order[j].expiresAt
         /\ s.order[i].set < s.order[j].set
    /\ s.bytes = Total(s.order)

(* The elements of a list in two parts. *)
LEMMA Concatenation ==
    ASSUME NEW a \in Seq(Element), NEW b \in Seq(Element)
    PROVE  /\ a \o b \in Seq(Element) /\ Len(a \o b) = Len(a) + Len(b)
           /\ \A n \in 1 .. Len(a) + Len(b) :
                 (a \o b)[n] = IF n <= Len(a) THEN a[n] ELSE b[n - Len(a)]
OBVIOUS

(* A list in three parts, and without the middle one. *)
Shortened(list, rest, a, b, c) ==
    /\ rest \in Seq(Element)
    /\ Len(rest) = Len(a) + Len(c) /\ Len(list) = Len(a) + Len(b) + Len(c)
    /\ \A n \in 1 .. Len(rest) : rest[n] = list[IF n <= Len(a) THEN n ELSE n + Len(b)]
    /\ Total(b) \in Nat /\ Total(rest) \in Nat /\ Total(list) = Total(rest) + Total(b)

LEMMA WithoutMiddle ==
    ASSUME NEW a \in Seq(Element), NEW b \in Seq(Element), NEW c \in Seq(Element)
    PROVE  Shortened(a \o (b \o c), a \o c, a, b, c)
<1> DEFINE bc   == b \o c
           list == a \o bc
           rest == a \o c
<1>1. /\ bc \in Seq(Element) /\ Len(bc) = Len(b) + Len(c)
      /\ \A n \in 1 .. Len(b) + Len(c) : bc[n] = IF n <= Len(b) THEN b[n] ELSE c[n - Len(b)]
  BY Concatenation
<1>2. /\ rest \in Seq(Element) /\ Len(rest) = Len(a) + Len(c)
      /\ \A n \in 1 .. Len(a) + Len(c) : rest[n] = IF n <= Len(a) THEN a[n] ELSE c[n - Len(a)]
  BY Concatenation
<1> HIDE DEF bc, rest
<1>3. /\ Len(list) = Len(a) + Len(bc)
      /\ \A n \in 1 .. Len(a) + Len(bc) : list[n] = IF n <= Len(a) THEN a[n] ELSE bc[n - Len(a)]
  BY <1>1, Concatenation
<1> HIDE DEF list
<1>4. Len(a) \in Nat /\ Len(b) \in Nat /\ Len(c) \in Nat
  OBVIOUS
<1>5. ASSUME NEW n \in 1 .. Len(rest)
      PROVE  rest[n] = list[IF n <= Len(a) THEN n ELSE n + Len(b)]
  <2>1. CASE n <= Len(a)
    BY <1>1, <1>2, <1>3, <1>4, <2>1
  <2>2. CASE n > Len(a)
    <3> DEFINE m == n + Len(b)
               p == m - Len(a)
    <3>1. /\ n \in 1 .. Len(a) + Len(c) /\ n \in Int /\ ~(n <= Len(a))
          /\ m \in 1 .. Len(a) + Len(bc) /\ ~(m <= Len(a))
          /\ p \in 1 .. Len(b) + Len(c)
          /\ ~(p <= Len(b)) /\ p - Len(b) = n - Len(a)
      BY <1>1, <1>2, <1>4, <2>2
    <3>2. p = m - Len(a) /\ m = n + Len(b)
      OBVIOUS
    <3> HIDE DEF p, m
    <3>3. rest[n] = c[n - Len(a)]
      BY <1>2, <3>1
    <3>4. list[m] = bc[m - Len(a)]
      BY <1>3, <3>1
    <3>5. bc[p] = c[p - Len(b)]
      BY <1>1, <3>1
    <3>6. QED
      BY <3>1, <3>2, <3>3, <3>4, <3>5
  <2>3. QED
    BY <1>2, <1>4, <2>1, <2>2
<1>6. Total(bc) = Total(b) + Total(c) /\ Total(list) = Total(a) + Total(bc)
      /\ Total(rest) = Total(a) + Total(c)
  BY <1>1, TotalOfConcat DEF bc, list, rest
<1>7. Total(a) \in Nat /\ Total(b) \in Nat /\ Total(c) \in Nat
  BY TotalNat
<1>8. Total(rest) \in Nat /\ Total(list) = Total(rest) + Total(b)
  BY <1>6, <1>7
<1>9. Len(list) = Len(a) + Len(b) + Len(c)
  BY <1>1, <1>3, <1>4
<1>10. Shortened(list, rest, a, b, c)
  BY <1>2, <1>5, <1>7, <1>8, <1>9 DEF Shortened
<1>11. QED
  BY <1>10, Zenon DEF list, rest, bc

(* A list without its elements i .. j. *)
Cut(list, rest, i, j) ==
    /\ rest \in Seq(Element)
    /\ Len(rest) = Len(list) - (j + 1 - i)
    /\ \A n \in 1 .. Len(rest) : rest[n] = list[IF n < i THEN n ELSE n + (j + 1 - i)]
    /\ Total(SubSeq(list, i, j)) \in Nat /\ Total(rest) \in Nat
    /\ Total(list) = Total(rest) + Total(SubSeq(list, i, j))

(* remove leaves the other elements as they were, in their order. *)
LEMMA CutOut ==
    ASSUME NEW list \in Seq(Element), NEW i \in Nat \ {0}, NEW j \in Nat,
           i <= j + 1, j <= Len(list)
    PROVE  Cut(list, SubSeq(list, 1, i - 1) \o SubSeq(list, j + 1, Len(list)), i, j)
<1> DEFINE a == SubSeq(list, 1, i - 1)
           b == SubSeq(list, i, j)
           c == SubSeq(list, j + 1, Len(list))
           rest == a \o c
<1>0. Len(list) \in Nat /\ i \in Int /\ j \in Int /\ i >= 1
  OBVIOUS
<1>1. a \in Seq(Element) /\ b \in Seq(Element) /\ c \in Seq(Element)
  OBVIOUS
<1>2. Len(a) = i - 1 /\ Len(b) = j + 1 - i /\ Len(c) = Len(list) - j
  OBVIOUS
<1>3. list = a \o (b \o c)
  <2>1. b \o c = SubSeq(list, i, Len(list))
    <3>1. i \in 1 .. Len(list) + 1 /\ j \in i - 1 .. Len(list) /\ Len(list) \in j .. Len(list)
      BY <1>0
    <3>2. QED
      BY <3>1, ConcatAdjacentSubSeq, Zenon
  <2>2. a \o SubSeq(list, i, Len(list)) = SubSeq(list, 1, Len(list))
    <3>1. /\ 1 \in 1 .. Len(list) + 1 /\ i - 1 \in 1 - 1 .. Len(list)
          /\ Len(list) \in i - 1 .. Len(list) /\ i - 1 + 1 = i
      BY <1>0
    <3>2. SubSeq(list, 1, i - 1) \o SubSeq(list, i - 1 + 1, Len(list)) = SubSeq(list, 1, Len(list))
      BY <3>1, ConcatAdjacentSubSeq, Zenon
    <3>3. QED
      BY <3>1, <3>2, Zenon
  <2>3. SubSeq(list, 1, Len(list)) = list
    BY SubSeqFull, Zenon
  <2> HIDE DEF a, b, c
  <2>4. QED
    BY <2>1, <2>2, <2>3, Zenon
<1> HIDE DEF a, b, c
<1>5. Shortened(list, rest, a, b, c)
  BY <1>1, <1>3, WithoutMiddle
<1> HIDE DEF rest
<1>6. Len(rest) = Len(list) - (j + 1 - i)
  <2>1. Len(rest) = Len(a) + Len(c)
    BY <1>5 DEF Shortened
  <2>2. Len(rest) = (i - 1) + (Len(list) - j)
    BY <1>2, <2>1, Zenon
  <2>3. QED
    BY <1>0, <2>2
<1>7. ASSUME NEW n \in 1 .. Len(rest) PROVE rest[n] = list[IF n < i THEN n ELSE n + (j + 1 - i)]
  <2>1. rest[n] = list[IF n <= Len(a) THEN n ELSE n + Len(b)]
    BY <1>5 DEF Shortened
  <2>2. n \in Int /\ (n <= Len(a) <=> n < i)
    BY <1>0, <1>2
  <2>3. QED
    BY <1>2, <2>1, <2>2
<1>8. QED
  <2>1. Cut(list, rest, i, j)
    BY <1>5, <1>6, <1>7 DEF Shortened, Cut, b
  <2>2. QED
    BY <2>1, Zenon DEF rest, a, c

(* Every element outside i .. j is still there. *)
LEMMA CutKeeps ==
    ASSUME NEW list \in Seq(Element), NEW rest, NEW i \in Nat \ {0}, NEW j \in Nat,
           i <= j + 1, j <= Len(list), Cut(list, rest, i, j),
           NEW n \in DOMAIN list, n \notin i .. j
    PROVE  list[n] \in Range(rest)
<1> DEFINE m == IF n < i THEN n ELSE n - (j + 1 - i)
<1>1. /\ rest \in Seq(Element) /\ Len(rest) = Len(list) - (j + 1 - i)
      /\ \A q \in 1 .. Len(rest) : rest[q] = list[IF q < i THEN q ELSE q + (j + 1 - i)]
  BY DEF Cut
<1>2. DOMAIN rest = 1 .. Len(rest) /\ DOMAIN list = 1 .. Len(list) /\ Len(list) \in Nat
  BY <1>1
<1>3. m \in 1 .. Len(rest) /\ (IF m < i THEN m ELSE m + (j + 1 - i)) = n
  BY <1>1, <1>2
<1> HIDE DEF m
<1>4. rest[m] = list[n]
  BY <1>1, <1>3
<1>5. QED
  BY <1>2, <1>3, <1>4 DEF Range

(* Some of what was in the store. *)
Part(t, s) ==
    /\ \A k \in CacheKeys : t.items[k] # None => t.items[k] = s.items[k]
    /\ \A n \in DOMAIN t.order : \E m \in DOMAIN s.order : t.order[n] = s.order[m]
    /\ Len(t.order) <= Len(s.order) /\ t.bytes <= s.bytes

(* remove keeps the contents whole. *)
LEMMA RemoveKeeps ==
    ASSUME NEW s, Whole(s), NEW i \in Nat \ {0}, NEW j \in Nat,
           i <= j + 1, j <= Len(s.order)
    PROVE  /\ Whole(Remove(s, i, j)) /\ Part(Remove(s, i, j), s)
           /\ Cut(s.order, Remove(s, i, j).order, i, j)
<1> DEFINE t == Remove(s, i, j)
           old(n) == IF n < i THEN n ELSE n + (j + 1 - i)
<1>1. /\ t.items = [k \in CacheKeys |->
                     IF \E n \in i .. j : s.order[n].key = k THEN None ELSE s.items[k]]
      /\ t.order = SubSeq(s.order, 1, i - 1) \o SubSeq(s.order, j + 1, Len(s.order))
      /\ t.bytes = s.bytes - Total(SubSeq(s.order, i, j))
  BY DEF Remove
<1>2. Cut(s.order, t.order, i, j)
  BY <1>1, CutOut DEF Whole
<1> HIDE DEF t
<1>3. /\ Len(s.order) \in Nat /\ DOMAIN s.order = 1 .. Len(s.order)
      /\ t.order \in Seq(Element) /\ Len(t.order) \in Nat /\ DOMAIN t.order = 1 .. Len(t.order)
      /\ Len(t.order) = Len(s.order) - (j + 1 - i)
      /\ i \in Int /\ j \in Int /\ i >= 1
  <2>1. /\ s.order \in Seq(Element) /\ t.order \in Seq(Element)
        /\ Len(t.order) = Len(s.order) - (j + 1 - i)
    BY <1>2 DEF Whole, Cut
  <2>2. QED
    BY <2>1
<1>4. ASSUME NEW n \in DOMAIN t.order
      PROVE  old(n) \in DOMAIN s.order /\ old(n) \notin i .. j /\ t.order[n] = s.order[old(n)]
  <2>1. old(n) \in DOMAIN s.order /\ old(n) \notin i .. j
    BY <1>3
  <2>2. QED
    BY <1>2, <1>3, <2>1 DEF Cut
<1>5. ASSUME NEW n \in DOMAIN t.order, NEW m \in DOMAIN t.order, n < m
      PROVE  old(n) < old(m)
  BY <1>3, <1>5
<1>6. ASSUME NEW n \in DOMAIN s.order, n \notin i .. j
      PROVE  \E m \in DOMAIN t.order : t.order[m] = s.order[n]
  <2> DEFINE m == IF n < i THEN n ELSE n - (j + 1 - i)
  <2>1. m \in DOMAIN t.order /\ old(m) = n
    BY <1>3, <1>6
  <2> HIDE DEF m, old
  <2>2. QED
    BY <1>4, <2>1
<1> HIDE DEF old
<1>7. ASSUME NEW n \in DOMAIN s.order, NEW m \in DOMAIN s.order, s.order[n].key = s.order[m].key
      PROVE  n = m
  BY <1>3, <1>7 DEF Whole
<1>8. t.items \in [CacheKeys -> Element \cup {None}]
  BY <1>1 DEF Whole
<1>9. ASSUME NEW n \in DOMAIN t.order
      PROVE  t.items[t.order[n].key] = t.order[n]
  <2>1. PICK m \in DOMAIN s.order : m \notin i .. j /\ t.order[n] = s.order[m]
    BY <1>4
  <2>2. s.items[s.order[m].key] = s.order[m] /\ s.order[m].key \in CacheKeys
    <3>1. s.order[m] \in Element
      BY <1>3, <2>1 DEF Whole
    <3>2. QED
      BY <2>1, <3>1 DEF Whole, Element
  <2>3. \A p \in i .. j : s.order[p].key # s.order[m].key
    <3>1. i .. j \subseteq DOMAIN s.order
      BY <1>3
    <3>2. QED
      BY <1>7, <2>1, <3>1
  <2>4. t.items[s.order[m].key] = s.items[s.order[m].key]
    BY <1>1, <2>2, <2>3
  <2>5. QED
    BY <2>1, <2>2, <2>4
<1>10. ASSUME NEW k \in CacheKeys, t.items[k] # None
       PROVE  /\ t.items[k] = s.items[k] /\ t.items[k].key = k
              /\ \E n \in DOMAIN t.order : t.order[n] = t.items[k]
  <2>1. t.items[k] = s.items[k] /\ ~\E n \in i .. j : s.order[n].key = k
    BY <1>1, <1>10
  <2>2. s.items[k].key = k /\ \E n \in DOMAIN s.order : s.order[n] = s.items[k]
    BY <1>10, <2>1 DEF Whole
  <2>3. PICK n \in DOMAIN s.order : s.order[n] = s.items[k]
    BY <2>2
  <2>4. n \notin i .. j
    BY <2>1, <2>2, <2>3
  <2>5. QED
    BY <1>6, <2>1, <2>2, <2>3, <2>4
<1>11. ASSUME NEW n \in DOMAIN t.order, NEW m \in DOMAIN t.order, n < m
       PROVE  /\ t.order[n].key # t.order[m].key
              /\ t.order[n].expiresAt <= t.order[m].expiresAt
              /\ t.order[n].set < t.order[m].set
  <2>1. /\ old(n) \in DOMAIN s.order /\ old(m) \in DOMAIN s.order /\ old(n) < old(m)
        /\ t.order[n] = s.order[old(n)] /\ t.order[m] = s.order[old(m)]
    BY <1>4, <1>5, <1>11
  <2>2. QED
    BY <2>1 DEF Whole
<1>12. t.bytes = Total(t.order) /\ t.bytes <= s.bytes
  <2>1. /\ Total(SubSeq(s.order, i, j)) \in Nat /\ Total(t.order) \in Nat
        /\ s.bytes = Total(t.order) + Total(SubSeq(s.order, i, j))
    BY <1>2 DEF Whole, Cut
  <2>2. QED
    BY <1>1, <2>1
<1>13. Whole(t)
  BY <1>3, <1>8, <1>9, <1>10, <1>11, <1>12 DEF Whole
<1>14. Part(t, s)
  <2>1. Len(t.order) <= Len(s.order)
    BY <1>3
  <2>2. QED
    BY <1>4, <1>10, <1>12, <2>1 DEF Part
<1>15. QED
  BY <1>2, <1>13, <1>14 DEF t

(* Removing twice is removing. *)
LEMMA PartOfPart ==
    ASSUME NEW r, NEW s, NEW t, Whole(r), Whole(s), Whole(t), Part(r, s), Part(s, t)
    PROVE  Part(r, t)
<1>1. \A k \in CacheKeys : r.items[k] # None => r.items[k] = t.items[k]
  BY DEF Part
<1>2. \A n \in DOMAIN r.order : \E m \in DOMAIN t.order : r.order[n] = t.order[m]
  BY DEF Part
<1>3. Len(r.order) <= Len(t.order)
  BY DEF Part, Whole
<1>4. r.bytes <= t.bytes
  <2>1. r.bytes \in Nat /\ s.bytes \in Nat /\ t.bytes \in Nat
    BY TotalNat DEF Whole
  <2>2. QED
    BY <2>1 DEF Part
<1>5. QED
  BY <1>1, <1>2, <1>3, <1>4 DEF Part

(* deleteExpired stops at the first entry that lives; as the list is in the *)
(* order of expiry, it leaves no expired entry and removes no other.        *)
LEMMA DeleteExpiredKeeps ==
    ASSUME NEW s, Whole(s), clock \in Nat
    PROVE  /\ Whole(DeleteExpired(s)) /\ Part(DeleteExpired(s), s)
           /\ \A n \in DOMAIN DeleteExpired(s).order : ~Lapsed(DeleteExpired(s).order[n])
           /\ \A i \in DOMAIN s.order :
                 ~Lapsed(s.order[i]) => s.order[i] \in Range(DeleteExpired(s).order)
<1> DEFINE Live == {n \in 0 .. Len(s.order) : n < Len(s.order) => ~Lapsed(s.order[n + 1])}
           Front(n) == /\ \A i \in 1 .. n : Lapsed(s.order[i])
                       /\ n < Len(s.order) => ~Lapsed(s.order[n + 1])
           front == CHOOSE n \in 0 .. Len(s.order) : Front(n)
           t == RemoveFront(s, front)
<1>1. s.order \in Seq(Element) /\ Len(s.order) \in Nat /\ DOMAIN s.order = 1 .. Len(s.order)
  BY DEF Whole
<1>2. \E n \in 0 .. Len(s.order) : Front(n)
  <2>1. Len(s.order) \in Live /\ Live \subseteq Nat
    BY <1>1
  <2>2. PICK n \in Live : \A m \in Live : n <= m
    <3> HIDE DEF Live
    <3>1. QED
      BY <2>1, Least
  <2>3. ASSUME NEW i \in 1 .. n PROVE Lapsed(s.order[i])
    <3>1. i - 1 \in 0 .. Len(s.order) /\ ~(n <= i - 1) /\ i - 1 + 1 = i
      BY <1>1, <2>2
    <3>2. i - 1 \notin Live
      <4> HIDE DEF Live
      <4>1. QED
        BY <2>2, <3>1
    <3>3. QED
      BY <3>1, <3>2
  <2>4. QED
    BY <2>2, <2>3
<1>3. front \in 0 .. Len(s.order) /\ Front(front)
  BY <1>2
<1>4. DeleteExpired(s) = t
  BY DEF DeleteExpired
<1> HIDE DEF front
<1>5. Whole(t) /\ Part(t, s) /\ Cut(s.order, t.order, 1, front)
  BY <1>1, <1>3, RemoveKeeps DEF RemoveFront
<1> HIDE DEF t
<1>6. ASSUME NEW n \in DOMAIN t.order PROVE ~Lapsed(t.order[n])
  <2>0. front \in 0 .. Len(s.order) /\ front \in Nat
    BY <1>1, <1>3
  <2>1. /\ t.order \in Seq(Element) /\ DOMAIN t.order = 1 .. Len(t.order)
        /\ Len(t.order) = Len(s.order) - front
    <3>1. t.order \in Seq(Element) /\ Len(t.order) = Len(s.order) - (front + 1 - 1)
      BY <1>5 DEF Cut
    <3>2. QED
      BY <1>1, <2>0, <3>1
  <2>2. /\ n + front \in DOMAIN s.order /\ front + 1 \in DOMAIN s.order
        /\ front < Len(s.order) /\ front + 1 <= n + front /\ ~(n < 1)
        /\ n + (front + 1 - 1) = n + front
    BY <1>1, <2>0, <2>1
  <2>3. t.order[n] = s.order[n + front]
    BY <1>5, <2>1, <2>2 DEF Cut
  <2>4. ~Lapsed(s.order[front + 1])
    BY <1>3, <2>2
  <2>5. /\ s.order[front + 1] \in Element /\ s.order[n + front] \in Element
        /\ front + 1 < n + front => s.order[front + 1].expiresAt <= s.order[n + front].expiresAt
    BY <1>1, <2>2 DEF Whole
  <2>6. s.order[front + 1].expiresAt \in Nat /\ s.order[n + front].expiresAt \in Nat
    BY <2>5 DEF Element
  <2>7. s.order[front + 1].expiresAt <= s.order[n + front].expiresAt
    BY <1>1, <1>3, <2>1, <2>2, <2>5, <2>6
  <2>8. QED
    BY <2>3, <2>4, <2>6, <2>7 DEF Lapsed
<1>7. ASSUME NEW i \in DOMAIN s.order, ~Lapsed(s.order[i]) PROVE s.order[i] \in Range(t.order)
  <2>1. /\ i \notin 1 .. front /\ 1 \in Nat \ {0}
        /\ front \in Nat /\ 1 <= front + 1 /\ front <= Len(s.order)
    BY <1>1, <1>3, <1>7
  <2>2. QED
    BY <1>1, <1>5, <2>1, CutKeeps
<1>8. QED
  BY <1>4, <1>5, <1>6, <1>7

(* The entry of the key goes, and no other. *)
LEMMA WithoutKeeps ==
    ASSUME NEW s, Whole(s), NEW k \in CacheKeys
    PROVE  /\ Whole(Without(s, k)) /\ Part(Without(s, k), s) /\ Without(s, k).items[k] = None
           /\ \A i \in DOMAIN s.order :
                 s.order[i].key # k => s.order[i] \in Range(Without(s, k).order)
<1>1. CASE s.items[k] = None
  <2>1. Part(s, s)
    <3>1. Len(s.order) \in Nat /\ s.bytes \in Nat
      BY TotalNat DEF Whole
    <3>2. QED
      BY <3>1 DEF Part
  <2>2. QED
    BY <1>1, <2>1 DEF Without, Range
<1>2. CASE s.items[k] # None
  <2> DEFINE i == Place(s, k)
             t == Remove(s, i, i)
  <2>1. i \in DOMAIN s.order /\ s.order[i] = s.items[k] /\ s.items[k].key = k
    BY <1>2 DEF Whole, Place
  <2>2. Without(s, k) = t
    BY <1>2 DEF Without
  <2> HIDE DEF i
  <2>3. i \in Nat \ {0} /\ i <= i + 1 /\ i <= Len(s.order)
    <3>1. s.order \in Seq(Element)
      BY DEF Whole
    <3>2. QED
      BY <2>1, <3>1
  <2>4. Whole(t) /\ Part(t, s) /\ Cut(s.order, t.order, i, i)
    BY <2>3, RemoveKeeps
  <2>5. t.items[k] = None
    <3>1. i \in i .. i
      BY <2>3
    <3>2. QED
      BY <2>1, <3>1 DEF Remove
  <2>6. ASSUME NEW n \in DOMAIN s.order, s.order[n].key # k PROVE s.order[n] \in Range(t.order)
    <3>1. n \notin i .. i
      BY <2>1, <2>3, <2>6
    <3>2. QED
      BY <2>3, <2>4, <3>1, CutKeeps DEF Whole
  <2>7. QED
    BY <2>2, <2>4, <2>5, <2>6
<1>3. QED
  BY <1>1, <1>2

(* The eviction loop ends: at the latest when the list is empty, because an *)
(* entry longer than maxBytes is refused before.                            *)
LEMMA MakeRoomKeeps ==
    ASSUME NEW s, Whole(s), NEW size \in Nat, size <= MaxBytes
    PROVE  /\ Whole(MakeRoom(s, size)) /\ Part(MakeRoom(s, size), s)
           /\ Fits(MakeRoom(s, size), size)
           /\ \E n \in 0 .. Len(s.order) :
                 /\ MakeRoom(s, size) = RemoveFront(s, n)
                 /\ \A m \in 0 .. n - 1 : ~Fits(RemoveFront(s, m), size)
<1> DEFINE Enough == {n \in 0 .. Len(s.order) : Fits(RemoveFront(s, n), size)}
           Chosen(n) == /\ Fits(RemoveFront(s, n), size)
                        /\ \A m \in 0 .. n - 1 : ~Fits(RemoveFront(s, m), size)
           front == CHOOSE n \in 0 .. Len(s.order) : Chosen(n)
<1>1. Len(s.order) \in Nat
  BY DEF Whole
<1>2. ASSUME NEW n \in 0 .. Len(s.order)
      PROVE  /\ Whole(RemoveFront(s, n)) /\ Part(RemoveFront(s, n), s)
             /\ Cut(s.order, RemoveFront(s, n).order, 1, n)
  <2>1. n \in Nat /\ 1 \in Nat \ {0} /\ 1 <= n + 1 /\ n <= Len(s.order)
    BY <1>1
  <2>2. QED
    BY <2>1, RemoveKeeps DEF RemoveFront
<1>3. Len(s.order) \in Enough
  <2> DEFINE t == RemoveFront(s, Len(s.order))
  <2>1. Whole(t) /\ Cut(s.order, t.order, 1, Len(s.order))
    BY <1>1, <1>2
  <2> HIDE DEF t
  <2>2. t.order \in Seq(Element) /\ Len(t.order) = 0
    BY <1>1, <2>1 DEF Cut
  <2>3. t.order = << >>
    BY <2>2
  <2>4. t.bytes = 0
    BY <2>1, <2>3, TotalOfNone DEF Whole
  <2>5. Fits(t, size)
    <3>1. MaxEntries \in Nat \ {0} /\ MaxBytes \in Nat
      BY LimitAssumption
    <3>2. QED
      BY <2>2, <2>4, <3>1 DEF Fits
  <2>6. QED
    BY <1>1, <2>5 DEF t
<1>4. \E n \in 0 .. Len(s.order) : Chosen(n)
  <2>1. Enough \subseteq Nat
    BY <1>1
  <2>2. PICK n \in Enough : \A m \in Enough : n <= m
    <3> HIDE DEF Enough
    <3>1. QED
      BY <1>3, <2>1, Least
  <2>3. ASSUME NEW m \in 0 .. n - 1 PROVE ~Fits(RemoveFront(s, m), size)
    <3>1. m \in 0 .. Len(s.order) /\ ~(n <= m)
      BY <1>1, <2>2
    <3>2. m \notin Enough
      <4> HIDE DEF Enough
      <4>1. QED
        BY <2>2, <3>1
    <3>3. QED
      BY <3>1, <3>2
  <2>4. QED
    BY <2>2, <2>3
<1>5. front \in 0 .. Len(s.order) /\ Chosen(front)
  BY <1>4, Zenon
<1>6. MakeRoom(s, size) = RemoveFront(s, front)
  BY DEF MakeRoom
<1> HIDE DEF front
<1>7. QED
  BY <1>2, <1>5, <1>6

(* An entry that is written last and expires last may go to the end. *)
LEMMA AppendedKeeps ==
    ASSUME NEW s, Whole(s), NEW x \in Element, s.items[x.key] = None,
           \A i \in DOMAIN s.order : s.order[i].expiresAt <= x.expiresAt /\ s.order[i].set < x.set
    PROVE  Whole(Appended(s, x))
<1> DEFINE t == Appended(s, x)
<1>1. /\ t.items = [s.items EXCEPT ![x.key] = x]
      /\ t.order = Append(s.order, x)
      /\ t.bytes = s.bytes + Bytes(x)
  BY DEF Appended
<1> HIDE DEF t
<1>2. x.key \in CacheKeys /\ x # None
  BY NoneAssumption DEF Element
<1>3. /\ s.order \in Seq(Element) /\ Len(s.order) \in Nat /\ DOMAIN s.order = 1 .. Len(s.order)
      /\ t.order \in Seq(Element) /\ DOMAIN t.order = 1 .. Len(s.order) + 1
      /\ t.order[Len(s.order) + 1] = x /\ \A n \in DOMAIN s.order : t.order[n] = s.order[n]
  BY <1>1 DEF Whole
<1>4. t.items \in [CacheKeys -> Element \cup {None}]
  <2>1. s.items \in [CacheKeys -> Element \cup {None}]
    BY DEF Whole
  <2>2. QED
    BY <1>1, <1>2, <2>1
<1>5. ASSUME NEW n \in DOMAIN s.order PROVE s.order[n].key \in CacheKeys /\ s.order[n].key # x.key
  <2>1. s.order[n] \in Element /\ s.items[s.order[n].key] = s.order[n]
    BY <1>3 DEF Whole
  <2>2. QED
    BY <2>1, NoneAssumption DEF Element
<1>6. ASSUME NEW n \in DOMAIN t.order PROVE t.items[t.order[n].key] = t.order[n]
  <2>1. CASE n \in DOMAIN s.order
    <3>1. t.order[n] = s.order[n] /\ s.items[s.order[n].key] = s.order[n]
      BY <1>3, <2>1 DEF Whole
    <3>2. t.items[s.order[n].key] = s.items[s.order[n].key]
      BY <1>1, <1>5, <2>1 DEF Whole
    <3>3. QED
      BY <3>1, <3>2
  <2>2. CASE n = Len(s.order) + 1
    <3>1. t.items[x.key] = x
      BY <1>1, <1>2 DEF Whole
    <3>2. QED
      BY <1>3, <2>2, <3>1
  <2>3. QED
    BY <1>3, <2>1, <2>2
<1>7. ASSUME NEW k \in CacheKeys, t.items[k] # None
      PROVE  t.items[k].key = k /\ \E n \in DOMAIN t.order : t.order[n] = t.items[k]
  <2>1. CASE k = x.key
    <3>1. t.items[k] = x /\ Len(s.order) + 1 \in DOMAIN t.order
      BY <1>1, <1>3, <2>1 DEF Whole
    <3>2. QED
      BY <1>3, <2>1, <3>1
  <2>2. CASE k # x.key
    <3>1. t.items[k] = s.items[k]
      BY <1>1, <2>2 DEF Whole
    <3>2. s.items[k].key = k /\ \E n \in DOMAIN s.order : s.order[n] = s.items[k]
      BY <1>7, <3>1 DEF Whole
    <3>3. DOMAIN s.order \subseteq DOMAIN t.order
      BY <1>3
    <3>4. QED
      BY <1>3, <3>1, <3>2, <3>3
  <2>3. QED
    BY <2>1, <2>2
<1>8. ASSUME NEW n \in DOMAIN t.order, NEW m \in DOMAIN t.order, n < m
      PROVE  /\ t.order[n].key # t.order[m].key
             /\ t.order[n].expiresAt <= t.order[m].expiresAt
             /\ t.order[n].set < t.order[m].set
  <2>1. n \in DOMAIN s.order /\ t.order[n] = s.order[n]
    BY <1>3, <1>8
  <2>2. CASE m \in DOMAIN s.order
    BY <1>3, <1>8, <2>1, <2>2 DEF Whole
  <2>3. CASE m = Len(s.order) + 1
    BY <1>3, <1>5, <2>1, <2>3
  <2>4. QED
    BY <1>3, <2>2, <2>3
<1>9. t.bytes = Total(t.order)
  <2>1. <<x>> \in Seq(Element) /\ Append(s.order, x) = s.order \o <<x>>
    BY <1>3, AppendIsConcat
  <2>2. Total(s.order \o <<x>>) = Total(s.order) + Bytes(x)
    <3> HIDE DEF t
    <3>1. Total(<<x>>) = Bytes(x) /\ Total(s.order \o <<x>>) = Total(s.order) + Total(<<x>>)
      BY <1>3, <2>1, TotalOfOne, TotalOfConcat
    <3>2. QED
      BY <3>1
  <2>3. QED
    BY <1>1, <2>1, <2>2 DEF Whole
<1>10. QED
  BY <1>3, <1>4, <1>6, <1>7, <1>8, <1>9 DEF Whole, t

(* No entry outlives what a write of now would give it. *)
Aged == \A i \in DOMAIN order : order[i].expiresAt <= clock + TTL /\ order[i].set <= sets

(* What is stored is what was last written. *)
AsWritten == \A k \in CacheKeys : items[k] # None => items[k] = written[k]

(* The limits of the store. *)
WithinLimits == Len(order) <= MaxEntries /\ bytes <= MaxBytes

(* The inductive invariant of the store. *)
StoreInv == StoreTypeOK /\ Whole(Contents) /\ Aged /\ AsWritten /\ WithinLimits /\ GetsCurrent

(* What every operation needs of the contents it finds, and what the ones *)
(* that only remove leave.                                                *)
LEMMA FieldsOfContents ==
    Contents.items = items /\ Contents.order = order /\ Contents.bytes = bytes
BY DEF Contents

(* Whole contents stay whole when they become the state. *)
LEMMA WholeNext ==
    ASSUME NEW s, Whole(s), Becomes(s)
    PROVE  /\ Whole(Contents)'
           /\ items' \in [CacheKeys -> Element \cup {None}]
           /\ order' \in Seq(Element) /\ bytes' \in Nat
<1>1. Contents' = [items |-> s.items, order |-> s.order, bytes |-> s.bytes]
  BY DEF Contents, Becomes
<1>2. Whole([items |-> s.items, order |-> s.order, bytes |-> s.bytes])
  BY DEF Whole
<1>3. s.bytes \in Nat
  BY TotalNat DEF Whole
<1>4. QED
  BY <1>1, <1>2, <1>3 DEF Whole, Becomes

(* A step that only removes keeps what is left within age and limits. *)
LEMMA LessNext ==
    ASSUME StoreInv, NEW s, Whole(s), Part(s, Contents), Becomes(s), UNCHANGED <<clock, sets>>
    PROVE  /\ Aged' /\ WithinLimits'
           /\ \A k \in CacheKeys : items'[k] # None => items'[k] = items[k]
<1>1. /\ \A k \in CacheKeys : items'[k] # None => items'[k] = items[k]
      /\ \A n \in DOMAIN order' : \E m \in DOMAIN order : order'[n] = order[m]
      /\ Len(order') <= Len(order) /\ bytes' <= bytes
  BY FieldsOfContents DEF Part, Becomes
<1>2. Aged'
  BY <1>1 DEF StoreInv, Aged
<1>3. WithinLimits'
  <2>1. order \in Seq(Element) /\ bytes \in Nat /\ order' \in Seq(Element) /\ bytes' \in Nat
    BY WholeNext DEF StoreInv, StoreTypeOK
  <2>2. Len(order) \in Nat /\ Len(order') \in Nat /\ MaxEntries \in Nat /\ MaxBytes \in Nat
    BY <2>1, LimitAssumption
  <2>3. Len(order) <= MaxEntries /\ bytes <= MaxBytes
    BY DEF StoreInv, WithinLimits
  <2>4. QED
    BY <1>1, <2>1, <2>2, <2>3 DEF WithinLimits
<1>4. QED
  BY <1>1, <1>2, <1>3

(* An empty store is whole. *)
LEMMA NothingStored ==
    Whole([items |-> [k \in CacheKeys |-> None], order |-> << >>, bytes |-> 0])
BY TotalOfNone DEF Whole

(* No answer is an answer that names no entry. *)
LEMMA NoAnswerType ==
    /\ NoAnswer \in [key : CacheKeys \cup {None}, element : Element \cup {None}]
    /\ NoAnswer.element = None
BY DEF NoAnswer

(* Each operation keeps the invariant. *)
LEMMA SetKeeps ==
    ASSUME StoreInv, NEW k \in CacheKeys, NEW size \in Sizes, Set(k, size)
    PROVE  StoreInv'
<1> DEFINE x  == NewElement(k, size)
           s1 == DeleteExpired(Contents)
           s2 == Without(s1, k)
           s3 == MakeRoom(s2, Bytes(x))
           s4 == Appended(s3, x)
<1>1. /\ Bytes(x) <= MaxBytes /\ Becomes(s4) /\ sets' = sets + 1
      /\ written' = [written EXCEPT ![k] = x] /\ answer' = NoAnswer /\ UNCHANGED <<ends, clock>>
  BY DEF Set, Wrote
<1>2. clock \in Nat /\ sets \in Nat /\ TTL \in Nat /\ MaxEntries \in Nat /\ MaxBytes \in Nat
  BY LimitAssumption DEF StoreInv, StoreTypeOK
<1>3. x \in Element /\ x.key = k /\ x.expiresAt = clock + TTL /\ x.set = sets + 1 /\ x # None
  <2>1. x \in Element /\ x.key = k /\ x.expiresAt = clock + TTL /\ x.set = sets + 1
    BY <1>2 DEF NewElement, Element
  <2>2. QED
    BY <2>1, NoneAssumption
<1> HIDE DEF x
<1>4. Bytes(x) \in Nat
  BY <1>3, BytesNat
<1>5. Whole(Contents)
  BY DEF StoreInv
<1>6. Whole(s1) /\ Part(s1, Contents)
  BY <1>2, <1>5, DeleteExpiredKeeps
<1> HIDE DEF s1
<1>7. Whole(s2) /\ Part(s2, s1) /\ s2.items[k] = None
  BY <1>6, WithoutKeeps
<1> HIDE DEF s2
<1>8. Whole(s3) /\ Part(s3, s2) /\ Fits(s3, Bytes(x))
  BY <1>1, <1>4, <1>7, MakeRoomKeeps
<1> HIDE DEF s3
<1>9. Part(s3, Contents)
  <2>1. Part(s3, s1)
    BY <1>6, <1>7, <1>8, PartOfPart
  <2>2. QED
    BY <1>5, <1>6, <1>8, <2>1, PartOfPart
<1>10. s3.items[k] = None
  BY <1>7, <1>8 DEF Part
<1>11. ASSUME NEW n \in DOMAIN s3.order
       PROVE  /\ s3.order[n] \in Element
              /\ s3.order[n].expiresAt <= clock + TTL /\ s3.order[n].set <= sets
  <2>1. PICK m \in DOMAIN order : s3.order[n] = order[m]
    BY <1>9, FieldsOfContents DEF Part
  <2>2. order[m] \in Element
    BY DEF StoreInv, StoreTypeOK
  <2>3. QED
    BY <2>1, <2>2 DEF StoreInv, Aged
<1>12. ASSUME NEW n \in DOMAIN s3.order
       PROVE  s3.order[n].expiresAt <= x.expiresAt /\ s3.order[n].set < x.set
  <2>1. s3.order[n].set \in Nat
    BY <1>11 DEF Element
  <2>2. QED
    BY <1>2, <1>3, <1>11, <2>1
<1>13. Whole(s4)
  BY <1>3, <1>8, <1>10, <1>12, AppendedKeeps
<1>14. /\ items' = [s3.items EXCEPT ![k] = x] /\ order' = Append(s3.order, x)
       /\ bytes' = s3.bytes + Bytes(x)
  BY <1>1, <1>3 DEF Becomes, Appended
<1> HIDE DEF s4
<1>15. /\ Whole(Contents)' /\ items' \in [CacheKeys -> Element \cup {None}]
       /\ order' \in Seq(Element) /\ bytes' \in Nat
  BY <1>1, <1>13, WholeNext
<1>16. StoreTypeOK'
  <2>1. written' \in [CacheKeys -> Element \cup {None}]
    BY <1>1, <1>3 DEF StoreInv, StoreTypeOK
  <2>2. QED
    BY <1>1, <1>2, <1>15, <2>1, NoAnswerType DEF StoreInv, StoreTypeOK, ends
<1>17. s3.order \in Seq(Element) /\ s3.items \in [CacheKeys -> Element \cup {None}]
  BY <1>8 DEF Whole
<1>18. Aged'
  <2>1. ASSUME NEW n \in DOMAIN order'
        PROVE  order'[n].expiresAt <= clock + TTL /\ order'[n].set <= sets + 1
    <3>1. CASE n \in DOMAIN s3.order
      <4>1. order'[n] = s3.order[n]
        BY <1>3, <1>14, <1>17, <3>1
      <4>2. s3.order[n].set \in Nat
        BY <1>11, <3>1 DEF Element
      <4>3. QED
        BY <1>2, <1>11, <3>1, <4>1, <4>2
    <3>2. CASE n \notin DOMAIN s3.order
      <4>1. order'[n] = x
        BY <1>3, <1>14, <1>17, <3>2
      <4>2. QED
        BY <1>2, <1>3, <4>1
    <3>3. QED
      BY <3>1, <3>2
  <2>2. QED
    BY <1>1, <2>1 DEF Aged
<1>19. AsWritten'
  <2>1. ASSUME NEW q \in CacheKeys, items'[q] # None PROVE items'[q] = written'[q]
    <3>1. CASE q = k
      BY <1>1, <1>14, <1>17, <3>1 DEF StoreInv, StoreTypeOK
    <3>2. CASE q # k
      <4>1. items'[q] = s3.items[q] /\ written'[q] = written[q]
        BY <1>1, <1>14, <1>17, <3>2 DEF StoreInv, StoreTypeOK
      <4>2. s3.items[q] = items[q]
        BY <1>9, <2>1, <4>1, FieldsOfContents DEF Part
      <4>3. QED
        BY <2>1, <4>1, <4>2 DEF StoreInv, AsWritten
    <3>3. QED
      BY <3>1, <3>2
  <2>2. QED
    BY <2>1 DEF AsWritten
<1>20. WithinLimits'
  <2>1. Len(order') = Len(s3.order) + 1 /\ Len(s3.order) \in Nat
    BY <1>3, <1>14, <1>17
  <2>2. Len(s3.order) < MaxEntries /\ s3.bytes <= MaxBytes - Bytes(x) /\ s3.bytes \in Nat
    BY <1>8, TotalNat DEF Fits, Whole
  <2>3. QED
    BY <1>2, <1>4, <1>14, <2>1, <2>2 DEF WithinLimits
<1>21. GetsCurrent'
  BY <1>1, NoAnswerType DEF GetsCurrent
<1>22. QED
  BY <1>15, <1>16, <1>18, <1>19, <1>20, <1>21 DEF StoreInv

LEMMA GetKeeps ==
    ASSUME StoreInv, NEW k \in CacheKeys, Get(k)
    PROVE  StoreInv'
<1> DEFINE s == DeleteExpired(Contents)
<1>1. /\ Becomes(s) /\ answer' = [key |-> k, element |-> items'[k]]
      /\ UNCHANGED ends /\ clock' = clock /\ UNCHANGED past
  BY DEF Get
<1>2. clock \in Nat
  BY DEF StoreInv, StoreTypeOK
<1>3. /\ Whole(s) /\ Part(s, Contents)
      /\ \A n \in DOMAIN s.order : ~Lapsed(s.order[n])
  BY <1>2, DeleteExpiredKeeps DEF StoreInv
<1> HIDE DEF s
<1>4. /\ Whole(Contents)' /\ items' \in [CacheKeys -> Element \cup {None}]
      /\ order' \in Seq(Element) /\ bytes' \in Nat
  BY <1>1, <1>3, WholeNext
<1>5. sets' = sets /\ written' = written
  BY <1>1 DEF past
<1>6. Aged' /\ WithinLimits' /\ \A q \in CacheKeys : items'[q] # None => items'[q] = items[q]
  BY <1>1, <1>3, <1>5, LessNext
<1>7. AsWritten'
  BY <1>5, <1>6 DEF StoreInv, AsWritten
<1>8. StoreTypeOK'
  <2>1. answer' \in [key : CacheKeys \cup {None}, element : Element \cup {None}]
    BY <1>1, <1>4
  <2>2. QED
    BY <1>1, <1>2, <1>4, <1>5, <2>1 DEF StoreInv, StoreTypeOK, ends
<1>9. GetsCurrent'
  <2>1. ASSUME items'[k] # None PROVE clock < items'[k].expiresAt
    <3>1. PICK n \in DOMAIN s.order : s.order[n] = s.items[k]
      BY <1>1, <1>3, <2>1 DEF Whole, Becomes
    <3>2. s.items[k] = items'[k] /\ items'[k] \in Element
      BY <1>1, <1>4, <2>1 DEF Becomes
    <3>3. ~(items'[k].expiresAt <= clock) /\ items'[k].expiresAt \in Nat
      BY <1>3, <3>1, <3>2 DEF Lapsed, Element
    <3>4. QED
      BY <1>2, <3>3
  <2>2. items'[k] # None => items'[k] = written'[k]
    BY <1>7 DEF AsWritten
  <2>3. QED
    BY <1>1, <2>1, <2>2 DEF GetsCurrent
<1>10. QED
  BY <1>4, <1>6, <1>7, <1>8, <1>9 DEF StoreInv

LEMMA DeleteKeeps ==
    ASSUME StoreInv, NEW k \in CacheKeys, Delete(k)
    PROVE  StoreInv'
<1> DEFINE s == Without(Contents, k)
<1>1. /\ Becomes(s) /\ written' = [written EXCEPT ![k] = None] /\ answer' = NoAnswer
      /\ UNCHANGED ends /\ clock' = clock /\ sets' = sets
  BY DEF Delete, Wrote
<1>2. Whole(s) /\ Part(s, Contents) /\ s.items[k] = None
  BY WithoutKeeps DEF StoreInv
<1> HIDE DEF s
<1>3. /\ Whole(Contents)' /\ items' \in [CacheKeys -> Element \cup {None}]
      /\ order' \in Seq(Element) /\ bytes' \in Nat
  BY <1>1, <1>2, WholeNext
<1>4. Aged' /\ WithinLimits' /\ \A q \in CacheKeys : items'[q] # None => items'[q] = items[q]
  BY <1>1, <1>2, LessNext
<1>5. AsWritten'
  <2>1. ASSUME NEW q \in CacheKeys, items'[q] # None PROVE items'[q] = written'[q]
    <3>1. q # k
      BY <1>1, <1>2, <2>1 DEF Becomes
    <3>2. written'[q] = written[q]
      BY <1>1, <3>1 DEF StoreInv, StoreTypeOK
    <3>3. QED
      BY <1>4, <2>1, <3>2 DEF StoreInv, AsWritten
  <2>2. QED
    BY <2>1 DEF AsWritten
<1>6. StoreTypeOK'
  <2>1. written' \in [CacheKeys -> Element \cup {None}]
    BY <1>1 DEF StoreInv, StoreTypeOK
  <2>2. QED
    BY <1>1, <1>3, <2>1, NoAnswerType DEF StoreInv, StoreTypeOK, ends
<1>7. GetsCurrent'
  BY <1>1, NoAnswerType DEF GetsCurrent
<1>8. QED
  BY <1>3, <1>4, <1>5, <1>6, <1>7 DEF StoreInv

LEMMA SweepKeeps ==
    ASSUME StoreInv, Sweep
    PROVE  StoreInv'
<1> DEFINE s == DeleteExpired(Contents)
<1>1. /\ Becomes(s) /\ answer' = NoAnswer /\ UNCHANGED ends
      /\ clock' = clock /\ sets' = sets /\ written' = written
  BY DEF Sweep, past
<1>2. Whole(s) /\ Part(s, Contents)
  <2>1. clock \in Nat
    BY DEF StoreInv, StoreTypeOK
  <2>2. QED
    BY <2>1, DeleteExpiredKeeps DEF StoreInv
<1> HIDE DEF s
<1>3. /\ Whole(Contents)' /\ items' \in [CacheKeys -> Element \cup {None}]
      /\ order' \in Seq(Element) /\ bytes' \in Nat
  BY <1>1, <1>2, WholeNext
<1>4. Aged' /\ WithinLimits' /\ \A q \in CacheKeys : items'[q] # None => items'[q] = items[q]
  BY <1>1, <1>2, LessNext
<1>5. AsWritten'
  BY <1>1, <1>4 DEF StoreInv, AsWritten
<1>6. StoreTypeOK'
  BY <1>1, <1>3, NoAnswerType DEF StoreInv, StoreTypeOK, ends
<1>7. GetsCurrent'
  BY <1>1, NoAnswerType DEF GetsCurrent
<1>8. QED
  BY <1>3, <1>4, <1>5, <1>6, <1>7 DEF StoreInv

(* A step that leaves the contents alone. *)
LEMMA ContentsKept ==
    ASSUME StoreInv, UNCHANGED <<data, past>>, answer' = NoAnswer,
           clock' \in Nat, clock <= clock',
           closed' \in BOOLEAN /\ stop' \in BOOLEAN /\ done' \in BOOLEAN,
           closer' \in [Closers -> {"idle", "waiting", "returned"}]
    PROVE  StoreInv'
<1>1. items' = items /\ order' = order /\ bytes' = bytes /\ sets' = sets /\ written' = written
  BY DEF data, past
<1>2. StoreTypeOK'
  BY <1>1, NoAnswerType DEF StoreInv, StoreTypeOK
<1>3. Whole(Contents)'
  BY <1>1 DEF StoreInv, Contents
<1>4. Aged'
  <2>1. ASSUME NEW n \in DOMAIN order
        PROVE  order[n].expiresAt <= clock' + TTL /\ order[n].set <= sets
    <3>1. order[n].expiresAt <= clock + TTL /\ order[n].set <= sets
      BY DEF StoreInv, Aged
    <3>2. order[n] \in Element
      BY DEF StoreInv, StoreTypeOK
    <3>3. order[n].expiresAt \in Nat /\ clock \in Nat /\ TTL \in Nat
      BY <3>2, LimitAssumption DEF StoreInv, StoreTypeOK, Element
    <3>4. QED
      BY <3>1, <3>3
  <2>2. QED
    BY <1>1, <2>1 DEF Aged
<1>5. AsWritten' /\ WithinLimits'
  BY <1>1 DEF StoreInv, AsWritten, WithinLimits
<1>6. GetsCurrent'
  BY NoAnswerType DEF GetsCurrent
<1>7. QED
  BY <1>2, <1>3, <1>4, <1>5, <1>6 DEF StoreInv

LEMMA CloseKeeps ==
    ASSUME StoreInv, NEW c \in Closers, Close(c)
    PROVE  StoreInv'
<1>1. /\ closer' = [closer EXCEPT ![c] = "waiting"] /\ closed' = TRUE /\ stop' = TRUE
      /\ answer' = NoAnswer /\ done' = done /\ clock' = clock /\ UNCHANGED past
  BY DEF Close
<1>2. /\ clock \in Nat /\ clock <= clock' /\ done \in BOOLEAN
      /\ closer' \in [Closers -> {"idle", "waiting", "returned"}]
  BY <1>1 DEF StoreInv, StoreTypeOK
<1>3. CASE closed
  <2>1. UNCHANGED data
    BY <1>3 DEF Close
  <2>2. UNCHANGED <<data, past>>
    BY <1>1, <2>1
  <2>3. QED
    BY <1>1, <1>2, <2>2, ContentsKept
<1>4. CASE ~closed
  <2> DEFINE s == [items |-> [k \in CacheKeys |-> None], order |-> << >>, bytes |-> 0]
  <2>1. Becomes(s) /\ Whole(s)
    BY <1>4, NothingStored DEF Close
  <2>2. items' = [k \in CacheKeys |-> None] /\ order' = << >> /\ bytes' = 0
    BY <2>1 DEF Becomes
  <2> HIDE DEF s
  <2>3. /\ Whole(Contents)' /\ items' \in [CacheKeys -> Element \cup {None}]
        /\ order' \in Seq(Element) /\ bytes' \in Nat
    BY <2>1, WholeNext
  <2>4. StoreTypeOK'
    BY <1>1, <1>2, <2>3, NoAnswerType DEF StoreInv, StoreTypeOK, past
  <2>5. Aged' /\ AsWritten'
    BY <2>2 DEF Aged, AsWritten
  <2>6. WithinLimits'
    <3>1. MaxEntries \in Nat /\ MaxBytes \in Nat /\ Len(order') = 0
      BY <2>2, LimitAssumption
    <3>2. QED
      BY <2>2, <3>1 DEF WithinLimits
  <2>7. GetsCurrent'
    BY <1>1, NoAnswerType DEF GetsCurrent
  <2>8. QED
    BY <2>3, <2>4, <2>5, <2>6, <2>7 DEF StoreInv
<1>5. QED
  BY <1>3, <1>4

(* The invariant holds in every behaviour. *)
THEOREM StoreInvariance == StoreSpec => []StoreInv
<1>1. StoreInit => StoreInv
  <2> SUFFICES ASSUME StoreInit PROVE StoreInv
    OBVIOUS
  <2>1. Contents = [items |-> [k \in CacheKeys |-> None], order |-> << >>, bytes |-> 0]
    BY DEF StoreInit, Contents
  <2>2. Whole(Contents)
    BY <2>1, NothingStored
  <2>3. StoreTypeOK
    <3>1. << >> \in Seq(Element) /\ 0 \in Nat
      OBVIOUS
    <3>2. /\ items \in [CacheKeys -> Element \cup {None}]
          /\ written \in [CacheKeys -> Element \cup {None}]
      BY DEF StoreInit
    <3>3. closer \in [Closers -> {"idle", "waiting", "returned"}]
      BY DEF StoreInit
    <3>4. QED
      BY <3>1, <3>2, <3>3, NoAnswerType DEF StoreInit, StoreTypeOK
  <2>4. WithinLimits
    <3>1. MaxEntries \in Nat /\ MaxBytes \in Nat /\ Len(order) = 0 /\ bytes = 0
      BY LimitAssumption DEF StoreInit
    <3>2. QED
      BY <3>1 DEF WithinLimits
  <2>5. Aged /\ AsWritten
    BY DEF StoreInit, Aged, AsWritten
  <2>6. GetsCurrent
    BY NoAnswerType DEF StoreInit, GetsCurrent
  <2>7. QED
    BY <2>2, <2>3, <2>4, <2>5, <2>6 DEF StoreInv
<1>2. StoreInv /\ [StoreNext]_storeVars => StoreInv'
  <2> SUFFICES ASSUME StoreInv, [StoreNext]_storeVars PROVE StoreInv'
    OBVIOUS
  <2>1. CASE \E k \in CacheKeys, size \in Sizes : Set(k, size)
    BY <2>1, SetKeeps
  <2>2. CASE \E k \in CacheKeys : Get(k)
    BY <2>2, GetKeeps
  <2>3. CASE \E k \in CacheKeys : Delete(k)
    BY <2>3, DeleteKeeps
  <2>4. CASE \E c \in Closers : Close(c)
    BY <2>4, CloseKeeps
  <2>5. CASE \E c \in Closers : CloseReturns(c)
    <3>1. PICK c \in Closers : CloseReturns(c)
      BY <2>5
    <3>2. /\ UNCHANGED <<data, past>> /\ answer' = NoAnswer /\ clock' = clock
          /\ closed' = closed /\ stop' = stop /\ done' = done
          /\ closer' = [closer EXCEPT ![c] = "returned"]
      BY <3>1 DEF CloseReturns
    <3>3. /\ clock' \in Nat /\ clock <= clock'
          /\ closed' \in BOOLEAN /\ stop' \in BOOLEAN /\ done' \in BOOLEAN
          /\ closer' \in [Closers -> {"idle", "waiting", "returned"}]
      BY <3>2 DEF StoreInv, StoreTypeOK
    <3>4. QED
      BY <3>2, <3>3, ContentsKept
  <2>6. CASE Sweep
    BY <2>6, SweepKeeps
  <2>7. CASE Stop
    <3>1. /\ UNCHANGED <<data, past>> /\ answer' = NoAnswer /\ clock' = clock
          /\ closed' = closed /\ stop' = stop /\ done' = TRUE /\ closer' = closer
      BY <2>7 DEF Stop
    <3>2. /\ clock' \in Nat /\ clock <= clock'
          /\ closed' \in BOOLEAN /\ stop' \in BOOLEAN /\ done' \in BOOLEAN
          /\ closer' \in [Closers -> {"idle", "waiting", "returned"}]
      BY <3>1 DEF StoreInv, StoreTypeOK
    <3>3. QED
      BY <3>1, <3>2, ContentsKept
  <2>8. CASE Tick
    <3>1. /\ UNCHANGED <<data, past>> /\ answer' = NoAnswer /\ clock' = clock + 1
          /\ closed' = closed /\ stop' = stop /\ done' = done /\ closer' = closer
      BY <2>8 DEF Tick, ends
    <3>2. /\ clock' \in Nat /\ clock <= clock'
          /\ closed' \in BOOLEAN /\ stop' \in BOOLEAN /\ done' \in BOOLEAN
          /\ closer' \in [Closers -> {"idle", "waiting", "returned"}]
      BY <3>1 DEF StoreInv, StoreTypeOK
    <3>3. QED
      BY <3>1, <3>2, ContentsKept
  <2>9. CASE UNCHANGED storeVars
    <3>1. /\ items' = items /\ order' = order /\ bytes' = bytes
          /\ sets' = sets /\ written' = written
          /\ closed' = closed /\ stop' = stop /\ done' = done /\ closer' = closer
          /\ clock' = clock /\ answer' = answer
      BY <2>9 DEF storeVars, data, ends, past
    <3>2. Contents' = Contents
      BY <3>1 DEF Contents
    <3>3. QED
      BY <3>1, <3>2 DEF StoreInv, StoreTypeOK, Aged, AsWritten, WithinLimits, GetsCurrent
  <2>10. QED
    BY <2>1, <2>2, <2>3, <2>4, <2>5, <2>6, <2>7, <2>8, <2>9 DEF StoreNext
<1>3. QED
  BY <1>1, <1>2, PTL DEF StoreSpec

(* The store keeps its types. *)
THEOREM StoreTypeCorrect == StoreSpec => []StoreTypeOK
<1>1. StoreInv => StoreTypeOK
  BY DEF StoreInv
<1>2. QED
  BY <1>1, StoreInvariance, PTL

(* Get answers with the last write of the key, never with an expired entry: *)
(* for every limit, length of values, TTL and number of writes.             *)
THEOREM AnswersAreCurrent == StoreSpec => []GetsCurrent
<1>1. StoreInv => GetsCurrent
  BY DEF StoreInv
<1>2. QED
  BY <1>1, StoreInvariance, PTL

(* The map, the list and the byte count agree and are within the limits,    *)
(* whatever was replaced, evicted, expired or deleted.                      *)
THEOREM StoreIsConsistent == StoreSpec => []Consistent
<1>1. StoreInv => Consistent
  <2> SUFFICES ASSUME StoreInv PROVE Consistent
    OBVIOUS
  <2>1. /\ items \in [CacheKeys -> Element \cup {None}] /\ order \in Seq(Element)
        /\ Len(order) \in Nat /\ DOMAIN order = 1 .. Len(order)
    BY DEF StoreInv, StoreTypeOK
  <2>2. /\ \A i \in DOMAIN order : items[order[i].key] = order[i]
        /\ \A k \in CacheKeys : items[k] # None =>
             items[k].key = k /\ \E i \in DOMAIN order : order[i] = items[k]
        /\ \A i, j \in DOMAIN order : i < j => order[i].key # order[j].key
        /\ bytes = Total(order)
    BY FieldsOfContents DEF StoreInv, Whole
  <2>3. \A i, j \in DOMAIN order : order[i].key = order[j].key => i = j
    BY <2>1, <2>2
  <2>4. ASSUME NEW i \in DOMAIN order
        PROVE  order[i].key \in CacheKeys /\ order[i] # None
    <3>1. order[i] \in Element
      BY <2>1
    <3>2. QED
      BY <3>1, NoneAssumption DEF Element
  <2>5. Range(order) \subseteq {items[k] : k \in CacheKeys} \ {None}
    BY <2>2, <2>4 DEF Range
  <2>6. {items[k] : k \in CacheKeys} \ {None} \subseteq Range(order)
    BY <2>2 DEF Range
  <2>7. QED
    BY <2>2, <2>3, <2>5, <2>6 DEF Consistent, StoreInv, WithinLimits
<1>2. QED
  BY <1>1, StoreInvariance, PTL

(* In the order of their writes. *)
Rising(list) == \A i, j \in DOMAIN list : i < j => list[i].set < list[j].set

(* Two lists in the order of their writes that hold the same entries agree  *)
(* at every place: look at the first place at which they would not.         *)
LEMMA Agree ==
    ASSUME NEW a \in Seq(Element), NEW b \in Seq(Element), Rising(a), Rising(b),
           Range(a) = Range(b),
           NEW n \in DOMAIN a
    PROVE  n \in DOMAIN b /\ a[n] = b[n]
<1> DEFINE Bad == {m \in DOMAIN a : ~(m \in DOMAIN b /\ a[m] = b[m])}
<1>1. /\ DOMAIN a = 1 .. Len(a) /\ DOMAIN b = 1 .. Len(b) /\ Len(a) \in Nat /\ Len(b) \in Nat
      /\ \A m \in DOMAIN a : a[m] \in Element /\ a[m].set \in Nat
      /\ \A m \in DOMAIN b : b[m] \in Element /\ b[m].set \in Nat
  <2>1. (\A m \in DOMAIN a : a[m] \in Element) /\ \A m \in DOMAIN b : b[m] \in Element
    OBVIOUS
  <2>2. \A y \in Element : y.set \in Nat
    BY DEF Element
  <2>3. QED
    BY <2>1, <2>2
<1>2. ASSUME Bad # {} PROVE FALSE
  <2>1. PICK m \in Bad : \A q \in Bad : m <= q
    <3>1. Bad \subseteq Nat
      BY <1>1
    <3> HIDE DEF Bad
    <3>2. QED
      BY <1>2, <3>1, Least
  <2>2. m \in DOMAIN a /\ ~(m \in DOMAIN b /\ a[m] = b[m])
    BY <2>1
  <2>3. ASSUME NEW q \in DOMAIN a, q < m PROVE q \in DOMAIN b /\ a[q] = b[q]
    <3>1. ~(m <= q)
      BY <1>1, <2>2, <2>3
    <3>2. q \notin Bad
      <4> HIDE DEF Bad
      <4>1. QED
        BY <2>1, <3>1
    <3>3. QED
      BY <3>2
  <2> HIDE DEF Bad
  <2>4. PICK p \in DOMAIN b : b[p] = a[m]
    BY <2>2 DEF Range
  <2>5. p >= m
    <3>1. ASSUME p < m PROVE FALSE
      <4>1. p \in DOMAIN a
        BY <1>1, <2>2, <3>1
      <4>2. a[p] = b[p] /\ a[p].set < a[m].set
        BY <2>2, <2>3, <3>1, <4>1 DEF Rising
      <4>3. QED
        BY <1>1, <2>2, <2>4, <4>2
    <3>2. QED
      BY <1>1, <2>2, <3>1
  <2>6. m \in DOMAIN b
    BY <1>1, <2>2, <2>5
  <2>7. PICK q \in DOMAIN a : a[q] = b[m]
    BY <2>6 DEF Range
  <2>8. q >= m
    <3>1. ASSUME q < m PROVE FALSE
      <4>1. q \in DOMAIN b /\ a[q] = b[q]
        BY <2>3, <3>1
      <4>2. b[q].set < b[m].set
        BY <2>6, <3>1, <4>1 DEF Rising
      <4>3. QED
        BY <1>1, <2>6, <2>7, <4>1, <4>2
    <3>2. QED
      BY <1>1, <2>2, <3>1
  <2>9. p # m
    BY <2>2, <2>4, <2>6
  <2>10. b[m].set < b[p].set
    BY <1>1, <2>5, <2>6, <2>9 DEF Rising
  <2>11. q = m \/ a[m].set < a[q].set
    BY <1>1, <2>2, <2>8 DEF Rising
  <2>12. QED
    BY <1>1, <2>2, <2>4, <2>6, <2>7, <2>10, <2>11
<1>3. QED
  BY <1>2

(* So they are the same list. *)
LEMMA SameList ==
    ASSUME NEW a \in Seq(Element), NEW b \in Seq(Element), Rising(a), Rising(b), Range(a) = Range(b)
    PROVE  a = b
<1>1. (\A n \in DOMAIN a : n \in DOMAIN b /\ a[n] = b[n]) /\ \A n \in DOMAIN b : n \in DOMAIN a
  BY Agree
<1>2. DOMAIN a = 1 .. Len(a) /\ DOMAIN b = 1 .. Len(b) /\ Len(a) \in Nat /\ Len(b) \in Nat
  OBVIOUS
<1>3. Len(a) <= Len(b)
  <2>1. Len(a) \in DOMAIN a \/ Len(a) = 0
    BY <1>2
  <2>2. Len(a) \in DOMAIN b \/ Len(a) = 0
    BY <1>1, <2>1
  <2>3. QED
    BY <1>2, <2>2
<1>4. Len(b) <= Len(a)
  <2>1. Len(b) \in DOMAIN b \/ Len(b) = 0
    BY <1>2
  <2>2. Len(b) \in DOMAIN a \/ Len(b) = 0
    BY <1>1, <2>1
  <2>3. QED
    BY <1>2, <2>2
<1>5. Len(a) = Len(b)
  <2>1. \A m, n \in Nat : m <= n /\ n <= m => m = n
    OBVIOUS
  <2>2. Len(a) \in Nat /\ Len(b) \in Nat
    BY <1>2
  <2>3. QED
    BY <1>3, <1>4, <2>1, <2>2, Zenon
<1>6. QED
  BY <1>1, <1>2, <1>5, SeqEqual

(* Which entries are left without the n oldest, without a key, and without  *)
(* the expired ones.                                                        *)
LEMMA FrontRange ==
    ASSUME NEW s, Whole(s), NEW n \in 0 .. Len(s.order)
    PROVE  /\ Whole(RemoveFront(s, n)) /\ Part(RemoveFront(s, n), s)
           /\ \A y : y \in Range(RemoveFront(s, n).order)
                       <=> \E i \in DOMAIN s.order : i > n /\ y = s.order[i]
<1> DEFINE t == RemoveFront(s, n)
<1>1. /\ s.order \in Seq(Element) /\ DOMAIN s.order = 1 .. Len(s.order) /\ Len(s.order) \in Nat
      /\ n \in Nat /\ 1 \in Nat \ {0} /\ 1 <= n + 1 /\ n <= Len(s.order)
  BY DEF Whole
<1>2. Whole(t) /\ Part(t, s) /\ Cut(s.order, t.order, 1, n)
  BY <1>1, RemoveKeeps DEF RemoveFront
<1> HIDE DEF t
<1>3. ASSUME NEW y \in Range(t.order) PROVE \E i \in DOMAIN s.order : i > n /\ y = s.order[i]
  <2>1. /\ t.order \in Seq(Element) /\ DOMAIN t.order = 1 .. Len(t.order)
        /\ Len(t.order) = Len(s.order) - n
    BY <1>1, <1>2 DEF Whole, Cut
  <2>2. PICK m \in DOMAIN t.order : y = t.order[m]
    BY DEF Range
  <2>3. m + n \in DOMAIN s.order /\ m + n > n /\ ~(m < 1) /\ m + (n + 1 - 1) = m + n
    BY <1>1, <2>1
  <2>4. t.order[m] = s.order[m + n]
    BY <1>2, <2>1, <2>3 DEF Cut
  <2>5. QED
    BY <2>2, <2>3, <2>4
<1>4. ASSUME NEW i \in DOMAIN s.order, i > n PROVE s.order[i] \in Range(t.order)
  <2>1. i \notin 1 .. n
    BY <1>1, <1>4
  <2>2. QED
    BY <1>1, <1>2, <2>1, CutKeeps
<1>5. QED
  BY <1>2, <1>3, <1>4 DEF t

LEMMA WithoutRange ==
    ASSUME NEW s, Whole(s), NEW k \in CacheKeys, NEW y
    PROVE  y \in Range(Without(s, k).order) <=> y \in Range(s.order) /\ y.key # k
<1> DEFINE t == Without(s, k)
<1>1. /\ Whole(t) /\ Part(t, s) /\ t.items[k] = None
      /\ \A i \in DOMAIN s.order : s.order[i].key # k => s.order[i] \in Range(t.order)
  BY WithoutKeeps
<1> HIDE DEF t
<1>2. ASSUME y \in Range(t.order) PROVE y \in Range(s.order) /\ y.key # k
  <2>1. PICK n \in DOMAIN t.order : y = t.order[n]
    BY <1>2 DEF Range
  <2>2. y \in Element /\ t.items[y.key] = y
    BY <1>1, <2>1 DEF Whole
  <2>3. QED
    BY <1>1, <2>1, <2>2, NoneAssumption DEF Part, Range
<1>3. ASSUME y \in Range(s.order), y.key # k PROVE y \in Range(t.order)
  BY <1>1, <1>3 DEF Range
<1>4. QED
  BY <1>2, <1>3 DEF t

LEMMA ExpiredRange ==
    ASSUME NEW s, Whole(s), clock \in Nat, NEW y
    PROVE  y \in Range(DeleteExpired(s).order) <=> y \in Range(s.order) /\ ~Lapsed(y)
<1> DEFINE t == DeleteExpired(s)
<1>1. /\ Part(t, s)
      /\ \A n \in DOMAIN t.order : ~Lapsed(t.order[n])
      /\ \A i \in DOMAIN s.order : ~Lapsed(s.order[i]) => s.order[i] \in Range(t.order)
  BY DeleteExpiredKeeps
<1> HIDE DEF t
<1>2. ASSUME y \in Range(t.order) PROVE y \in Range(s.order) /\ ~Lapsed(y)
  BY <1>1, <1>2 DEF Part, Range
<1>3. ASSUME y \in Range(s.order), ~Lapsed(y) PROVE y \in Range(t.order)
  BY <1>1, <1>3 DEF Range
<1>4. QED
  BY <1>2, <1>3 DEF t

(* What a Set that evicts the i-th entry does. *)
LEMMA SetEvicts ==
    ASSUME StoreInv, NEW k \in CacheKeys, NEW size \in Sizes, Set(k, size),
           NEW i \in DOMAIN order, Evicts(i)
    PROVE  NoRoomBeside(i)
<1> DEFINE x  == NewElement(k, size)
           v  == order[i]
           s1 == DeleteExpired(Contents)
           s2 == Without(s1, k)
           s3 == MakeRoom(s2, Bytes(x))
           r  == RemoveFront(Contents, i - 1)
           r2 == Without(r, k)
<1>1. /\ Bytes(x) <= MaxBytes /\ Becomes(Appended(s3, x)) /\ sets' = sets + 1
      /\ written' = [written EXCEPT ![k] = x]
  BY DEF Set, Wrote
<1>2. v \notin Range(order') /\ ~Lapsed(v) /\ written'[v.key] = written[v.key]
  BY DEF Evicts
<1>3. clock \in Nat /\ sets \in Nat /\ MaxEntries \in Nat /\ MaxBytes \in Nat
  BY LimitAssumption DEF StoreInv, StoreTypeOK
<1>4. x \in Element /\ x.key = k /\ x.set = sets + 1
  <2>1. TTL \in Nat
    BY LimitAssumption
  <2>2. QED
    BY <1>3, <2>1 DEF NewElement, Element
<1> HIDE DEF x
<1>5. Bytes(x) \in Nat
  BY <1>4, BytesNat
<1>6. /\ Whole(Contents) /\ order \in Seq(Element)
      /\ Len(order) \in Nat /\ DOMAIN order = 1 .. Len(order)
      /\ \A j \in DOMAIN order :
            order[j] \in Element /\ order[j].set \in Nat /\ order[j].expiresAt \in Nat
      /\ \A j, q \in DOMAIN order :
            j < q => order[j].set < order[q].set /\ order[j].expiresAt <= order[q].expiresAt
  <2>1. Whole(Contents) /\ order \in Seq(Element)
    BY DEF StoreInv, StoreTypeOK
  <2>2. \A j \in DOMAIN order : order[j] \in Element
    BY <2>1
  <2>3. \A j, q \in DOMAIN order :
           j < q => order[j].set < order[q].set /\ order[j].expiresAt <= order[q].expiresAt
    BY <2>1, FieldsOfContents DEF Whole
  <2>4. QED
    BY <2>1, <2>2, <2>3 DEF Element
<1>7. v.set <= sets /\ items[v.key] = v /\ v.key \in CacheKeys /\ v # None
  <2>1. v \in Element /\ v.set <= sets /\ items[v.key] = v
    BY <1>6, FieldsOfContents DEF StoreInv, Aged, Whole
  <2>2. QED
    BY <2>1, NoneAssumption DEF Element
<1>8. v.key # k
  <2>1. ASSUME v.key = k PROVE FALSE
    <3>1. written[k] = v
      BY <1>7, <2>1 DEF StoreInv, AsWritten
    <3>2. written'[k] = x
      BY <1>1 DEF StoreInv, StoreTypeOK
    <3>3. v.set = sets + 1
      BY <1>2, <1>4, <2>1, <3>1, <3>2
    <3>4. QED
      BY <1>3, <1>7, <3>3
  <2>2. QED
    BY <2>1
<1>9. Whole(s1) /\ \A y : y \in Range(s1.order) <=> y \in Range(order) /\ ~Lapsed(y)
  BY <1>3, <1>6, DeleteExpiredKeeps, ExpiredRange, FieldsOfContents
<1> HIDE DEF s1
<1>10. Whole(s2) /\ \A y : y \in Range(s2.order) <=> y \in Range(s1.order) /\ y.key # k
  BY <1>9, WithoutKeeps, WithoutRange
<1> HIDE DEF s2
<1>11. /\ s2.order \in Seq(Element) /\ Len(s2.order) \in Nat /\ DOMAIN s2.order = 1 .. Len(s2.order)
       /\ \A j \in DOMAIN s2.order : s2.order[j].set \in Nat
       /\ \A j, q \in DOMAIN s2.order : j < q => s2.order[j].set < s2.order[q].set
  <2>1. s2.order \in Seq(Element)
    BY <1>10 DEF Whole
  <2>2. \A j \in DOMAIN s2.order : s2.order[j] \in Element
    BY <2>1
  <2>3. QED
    BY <1>10, <2>1, <2>2 DEF Whole, Element
<1>12. /\ s3.order \in Seq(Element)
       /\ \E n \in 0 .. Len(s2.order) :
             /\ s3 = RemoveFront(s2, n)
             /\ \A m \in 0 .. n - 1 : ~Fits(RemoveFront(s2, m), Bytes(x))
  BY <1>1, <1>5, <1>10, MakeRoomKeeps DEF Whole
<1> HIDE DEF s3
<1>13. PICK n \in 0 .. Len(s2.order) :
             /\ s3 = RemoveFront(s2, n)
             /\ \A m \in 0 .. n - 1 : ~Fits(RemoveFront(s2, m), Bytes(x))
  BY <1>12
<1>14. \A y : y \in Range(s3.order) <=> \E q \in DOMAIN s2.order : q > n /\ y = s2.order[q]
  <2>1. \A y : y \in Range(RemoveFront(s2, n).order)
                 <=> \E q \in DOMAIN s2.order : q > n /\ y = s2.order[q]
    BY <1>10, FrontRange
  <2>2. s3.order = RemoveFront(s2, n).order
    BY <1>13
  <2>3. QED
    BY <2>1, <2>2, Zenon
<1>15. /\ order'[Len(order')] = x /\ order' \in Seq(Element)
       /\ \A y : y \in Range(order') <=> y \in Range(s3.order) \/ y = x
  <2>1. order' = Append(s3.order, x)
    BY <1>1 DEF Becomes, Appended
  <2>2. /\ order' \in Seq(Element) /\ Len(order') = Len(s3.order) + 1 /\ Len(s3.order) \in Nat
        /\ DOMAIN order' = 1 .. Len(s3.order) + 1 /\ DOMAIN s3.order = 1 .. Len(s3.order)
        /\ order'[Len(s3.order) + 1] = x /\ \A m \in DOMAIN s3.order : order'[m] = s3.order[m]
    BY <1>4, <1>12, <2>1
  <2>3. /\ Len(s3.order) + 1 \in DOMAIN order'
        /\ DOMAIN order' = DOMAIN s3.order \cup {Len(s3.order) + 1}
    BY <2>2
  <2>4. QED
    BY <2>2, <2>3 DEF Range
<1>16. PICK p \in DOMAIN s2.order : s2.order[p] = v
  <2>1. v \in Range(order)
    BY DEF Range
  <2>2. v \in Range(s2.order)
    BY <1>2, <1>8, <1>9, <1>10, <2>1
  <2>3. QED
    BY <2>2 DEF Range
<1>17. p <= n
  <2>1. ~(p > n)
    BY <1>2, <1>14, <1>15, <1>16
  <2>2. QED
    BY <1>11, <1>13, <2>1
<1>18. ASSUME NEW y \in Range(order') PROVE y.set > v.set
  <2>1. CASE y = x
    BY <1>3, <1>4, <1>6, <1>7, <2>1
  <2>2. CASE y \in Range(s3.order)
    <3>1. PICK q \in DOMAIN s2.order : q > n /\ y = s2.order[q]
      BY <1>14, <2>2
    <3>2. p < q
      BY <1>11, <1>13, <1>17, <3>1
    <3>3. QED
      BY <1>11, <1>16, <3>1, <3>2
  <2>3. QED
    BY <1>15, <2>1, <2>2
<1> DEFINE r1 == RemoveFront(s2, p - 1)
<1>19. p - 1 \in 0 .. n - 1 /\ p - 1 \in 0 .. Len(s2.order) /\ i - 1 \in 0 .. Len(order)
  BY <1>6, <1>11, <1>13, <1>17
<1>20. /\ Whole(r1) /\ ~Fits(r1, Bytes(x))
       /\ \A y : y \in Range(r1.order) <=> \E q \in DOMAIN s2.order : q > p - 1 /\ y = s2.order[q]
  BY <1>10, <1>13, <1>19, FrontRange
<1> HIDE DEF r1
<1>21. Whole(r) /\ \A y : y \in Range(r.order) <=> \E j \in DOMAIN order : j > i - 1 /\ y = order[j]
  <2>1. i - 1 \in 0 .. Len(Contents.order)
    BY <1>19, FieldsOfContents
  <2>2. /\ Whole(r)
        /\ \A y : y \in Range(r.order)
                 <=> \E j \in DOMAIN Contents.order : j > i - 1 /\ y = Contents.order[j]
    BY <1>6, <2>1, FrontRange
  <2>3. QED
    BY <2>2, FieldsOfContents, Zenon
<1> HIDE DEF r
<1>22. Whole(r2) /\ \A y : y \in Range(r2.order) <=> y \in Range(r.order) /\ y.key # k
  BY <1>21, WithoutKeeps, WithoutRange
<1> HIDE DEF r2
<1>23. ASSUME NEW y \in Range(r1.order) PROVE y \in Range(r2.order)
  <2>1. PICK q \in DOMAIN s2.order : q > p - 1 /\ y = s2.order[q]
    BY <1>20
  <2>2. y \in Range(s2.order)
    BY <2>1 DEF Range
  <2>3. y \in Range(order) /\ y.key # k
    BY <1>9, <1>10, <2>2
  <2>4. PICK j \in DOMAIN order : y = order[j]
    BY <2>3 DEF Range
  <2>5. y.set >= v.set
    <3>1. q = p \/ p < q
      BY <1>11, <2>1
    <3>2. QED
      BY <1>6, <1>11, <1>16, <2>1, <3>1
  <2>6. j > i - 1
    <3>1. ~(j < i)
      BY <1>6, <2>4, <2>5
    <3>2. QED
      BY <1>6, <3>1
  <2>7. QED
    BY <1>21, <1>22, <2>3, <2>4, <2>6
<1>24. ASSUME NEW y \in Range(r2.order) PROVE y \in Range(r1.order)
  <2>1. PICK j \in DOMAIN order : j > i - 1 /\ y = order[j]
    BY <1>21, <1>22
  <2>2. y.key # k
    BY <1>22
  <2>3. i = j \/ i < j
    BY <1>6, <2>1
  <2>4. y.set >= v.set /\ y.expiresAt >= v.expiresAt
    BY <1>6, <2>1, <2>3
  <2>5. ~Lapsed(y)
    BY <1>2, <1>3, <1>6, <2>1, <2>4 DEF Lapsed
  <2>6. y \in Range(s2.order)
    <3>1. y \in Range(order)
      BY <2>1 DEF Range
    <3>2. QED
      BY <1>9, <1>10, <2>2, <2>5, <3>1
  <2>7. PICK q \in DOMAIN s2.order : y = s2.order[q]
    BY <2>6 DEF Range
  <2>8. q > p - 1
    <3>1. ~(q < p)
      BY <1>11, <1>16, <2>4, <2>7
    <3>2. QED
      BY <1>11, <3>1
  <2>9. QED
    BY <1>20, <2>7, <2>8
<1>25. r1.order = r2.order
  <2>1. Range(r1.order) = Range(r2.order)
    BY <1>23, <1>24
  <2>2. /\ r1.order \in Seq(Element) /\ r2.order \in Seq(Element)
        /\ Rising(r1.order) /\ Rising(r2.order)
    BY <1>20, <1>22 DEF Whole, Rising
  <2>3. QED
    BY <2>1, <2>2, SameList
<1>26. Len(r2.order) + 1 > MaxEntries \/ Total(r2.order) + Bytes(x) > MaxBytes
  <2>1. /\ ~(Len(r2.order) < MaxEntries /\ Total(r2.order) <= MaxBytes - Bytes(x))
        /\ r2.order \in Seq(Element)
    BY <1>20, <1>22, <1>25 DEF Fits, Whole
  <2>2. Len(r2.order) \in Nat /\ Total(r2.order) \in Nat
    BY <2>1, TotalNat
  <2>3. QED
    BY <1>3, <1>5, <2>1, <2>2
<1>27. QED
  BY <1>1, <1>4, <1>15, <1>18, <1>26 DEF NoRoomBeside, r2, r

(* No other step evicts. *)
LEMMA OthersKeep ==
    ASSUME StoreInv, NEW i \in DOMAIN order, Evicts(i),
           \/ \E k \in CacheKeys : Get(k) \/ Delete(k)
           \/ \E c \in Closers : Close(c) \/ CloseReturns(c)
           \/ Sweep \/ Stop \/ Tick \/ UNCHANGED storeVars
    PROVE  FALSE
<1>1. /\ order[i] \notin Range(order') /\ ~Lapsed(order[i]) /\ ~closed'
      /\ written'[order[i].key] = written[order[i].key]
  BY DEF Evicts
<1>2. order[i] \in Range(order)
  BY DEF Range
<1>3. order' # order
  BY <1>1, <1>2
<1>4. Whole(Contents) /\ clock \in Nat
  BY DEF StoreInv, StoreTypeOK
<1>5. ~Becomes(DeleteExpired(Contents))
  BY <1>1, <1>2, <1>4, ExpiredRange, FieldsOfContents DEF Becomes
<1>6. ASSUME NEW k \in CacheKeys, Delete(k) PROVE FALSE
  <2>1. order' = Without(Contents, k).order /\ written' = [written EXCEPT ![k] = None]
    BY <1>6 DEF Delete, Becomes, Wrote
  <2>2. order[i].key = k
    BY <1>1, <1>2, <1>4, <2>1, WithoutRange, FieldsOfContents
  <2>3. order[i] \in Element /\ items[k] = order[i]
    BY <1>4, <2>2, FieldsOfContents DEF Whole
  <2>4. written[k] # None /\ written'[k] = None
    BY <2>1, <2>3, NoneAssumption DEF StoreInv, StoreTypeOK, AsWritten
  <2>5. QED
    BY <1>1, <2>2, <2>4
<1>7. \A k \in CacheKeys : ~Get(k)
  BY <1>5 DEF Get
<1>8. \A c \in Closers : ~Close(c) /\ ~CloseReturns(c)
  BY <1>1, <1>3 DEF Close, CloseReturns, data
<1>9. ~Sweep /\ ~Stop /\ ~Tick /\ ~UNCHANGED storeVars
  BY <1>3, <1>5 DEF Sweep, Stop, Tick, storeVars, data
<1>10. QED
  BY <1>6, <1>7, <1>8, <1>9

(* An entry leaves before its time only for an entry that would not have    *)
(* fitted beside it and the younger ones, and the older ones leave first.   *)
THEOREM EvictionsAreNeeded == StoreSpec => EvictionNeeded
<1>1. StoreInv /\ [StoreNext]_storeVars
      => [\A i \in DOMAIN order : Evicts(i) => NoRoomBeside(i)]_storeVars
  <2> SUFFICES ASSUME StoreInv, [StoreNext]_storeVars, NEW i \in DOMAIN order, Evicts(i)
               PROVE  NoRoomBeside(i)
    OBVIOUS
  <2>1. CASE \E k \in CacheKeys, size \in Sizes : Set(k, size)
    BY <2>1, SetEvicts
  <2>2. CASE \/ \E k \in CacheKeys : Get(k) \/ Delete(k)
             \/ \E c \in Closers : Close(c) \/ CloseReturns(c)
             \/ Sweep \/ Stop \/ Tick \/ UNCHANGED storeVars
    BY <2>2, OthersKeep
  <2>3. QED
    BY <2>1, <2>2 DEF StoreNext
<1>2. QED
  BY <1>1, StoreInvariance, PTL DEF StoreSpec, EvictionNeeded
=============================================================================
