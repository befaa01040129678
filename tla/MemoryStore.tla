----------------------------- MODULE MemoryStore -----------------------------
(***************************************************************************)
(* cache/memory: the bounded in-memory store behind the account cache.     *)
(*                                                                         *)
(* Every operation holds the mutex from its first access to its last, so   *)
(* it is one step.  The list `order` and the map `items` are separate, as  *)
(* in the code: that they agree is a property.  A value is represented by  *)
(* its length and by the number of the Set that wrote it.  Operations that *)
(* fail (canceled context, blank key, closed store, entry too large)       *)
(* change nothing and are left out.                                        *)
(***************************************************************************)
EXTENDS Integers, Sequences, Functions

CONSTANTS
    CacheKeys,  \* cache keys
    KeySize,    \* KeySize[k]: len(key)
    Sizes,      \* lengths of values
    MaxEntries, \* maxEntries
    MaxBytes,   \* maxBytes
    TTL,        \* ttl
    Closers,    \* goroutines that may call Close
    None,       \* "no element"
    MaxTime,    \* bound: the clock stops there
    MaxSets     \* bound: number of Sets

Element == [key : CacheKeys, size : Sizes, expiresAt : Nat, set : Nat]

ASSUME SizeAssumption == KeySize \in [CacheKeys -> Nat \ {0}] /\ Sizes \subseteq Nat
ASSUME LimitAssumption == {MaxEntries, MaxBytes, TTL} \subseteq Nat \ {0}
ASSUME StoreBoundAssumption == MaxTime \in Nat /\ MaxSets \in Nat
ASSUME NoneAssumption  == None \notin Element /\ None \notin CacheKeys

VARIABLES
    items,   \* the map: the element of each key
    order,   \* the list: elements, the oldest write first
    bytes,   \* retained key and value bytes
    closed,  \* Close was called,
    stop,    \*   the channel that tells the cleaner to stop,
    done,    \*   and the one that tells that it has
    closer,  \* callers of Close
    clock,   \* time.Now()
    sets,    \* history: number of Sets,
    written, \*   the element of the last Set of a key, None after Delete,
    answer   \*   and what a Get has just returned

data == <<items, order, bytes>>
ends == <<closed, stop, done, closer>>
past == <<sets, written>>
storeVars == <<data, ends, clock, past, answer>>

NoAnswer == [key |-> None, element |-> None]

StoreTypeOK ==
    /\ items \in [CacheKeys -> Element \cup {None}]
    /\ order \in Seq(Element)
    /\ bytes \in Nat
    /\ closed \in BOOLEAN /\ stop \in BOOLEAN /\ done \in BOOLEAN
    /\ closer \in [Closers -> {"idle", "waiting", "returned"}]
    /\ clock \in Nat /\ sets \in Nat
    /\ written \in [CacheKeys -> Element \cup {None}]
    /\ answer \in [key : CacheKeys \cup {None}, element : Element \cup {None}]

StoreInit ==
    /\ items = [k \in CacheKeys |-> None] /\ order = << >> /\ bytes = 0
    /\ closed = FALSE /\ stop = FALSE /\ done = FALSE
    /\ closer = [c \in Closers |-> "idle"]
    /\ clock = 0 /\ sets = 0
    /\ written = [k \in CacheKeys |-> None]
    /\ answer = NoAnswer

-----------------------------------------------------------------------------
(* Helpers that run with the mutex held: they turn the contents s, a       *)
(* record of map, list and byte count, into new contents.                  *)

Contents == [items |-> items, order |-> order, bytes |-> bytes]

Becomes(s) == items' = s.items /\ order' = s.order /\ bytes' = s.bytes

Bytes(x) == KeySize[x.key] + x.size

Total(list) ==
    LET sum[n \in 0 .. Len(list)] == IF n = 0 THEN 0 ELSE sum[n - 1] + Bytes(list[n])
    IN sum[Len(list)]

(* remove, for the elements i .. j of the list. *)
Remove(s, i, j) ==
    [items |-> [k \in CacheKeys |->
                  IF \E n \in i .. j : s.order[n].key = k THEN None ELSE s.items[k]],
     order |-> SubSeq(s.order, 1, i - 1) \o SubSeq(s.order, j + 1, Len(s.order)),
     bytes |-> s.bytes - Total(SubSeq(s.order, i, j))]

(* remove(order.Front()), n times. *)
RemoveFront(s, n) == Remove(s, 1, n)

(* As if an entry lived through the instant at which it expires. *)
LapsedLate(x) == x.expiresAt < clock

Lapsed(x) == x.expiresAt <= clock

(* deleteExpired: from the front up to the first element that still lives. *)
DeleteExpired(s) ==
    RemoveFront(s, CHOOSE n \in 0 .. Len(s.order) :
                     /\ \A i \in 1 .. n : Lapsed(s.order[i])
                     /\ n < Len(s.order) => ~Lapsed(s.order[n + 1]))

(* The code takes the length of the map, which is that of the list. *)
Fits(s, size) == Len(s.order) < MaxEntries /\ s.bytes <= MaxBytes - size

(* The eviction loop of Set: the front goes until the new entry fits. *)
MakeRoom(s, size) ==
    RemoveFront(s, CHOOSE n \in 0 .. Len(s.order) :
                     /\ Fits(RemoveFront(s, n), size)
                     /\ \A m \in 0 .. n - 1 : ~Fits(RemoveFront(s, m), size))

(* Where the element of k stands in the list; the code keeps the pointer. *)
Place(s, k) == CHOOSE i \in DOMAIN s.order : s.order[i] = s.items[k]

(* As if the byte count were left to the caller, who forgets it. *)
WithoutUncounted(s, k) ==
    IF s.items[k] = None THEN s
    ELSE [Remove(s, Place(s, k), Place(s, k)) EXCEPT !.bytes = s.bytes]

(* The entry of k, if there is one, is removed. *)
Without(s, k) ==
    IF s.items[k] = None THEN s ELSE Remove(s, Place(s, k), Place(s, k))

Appended(s, x) ==
    [items |-> [s.items EXCEPT ![x.key] = x],
     order |-> Append(s.order, x),
     bytes |-> s.bytes + Bytes(x)]

-----------------------------------------------------------------------------
Wrote(k, x) ==
    /\ written' = [written EXCEPT ![k] = x]
    /\ answer' = NoAnswer
    /\ UNCHANGED <<ends, clock>>

NewElement(k, size) == [key |-> k, size |-> size, expiresAt |-> clock + TTL, set |-> sets + 1]

(* As if room were made before the key's former entry is removed. *)
SetEvictsFirst(k, size) ==
    LET x == NewElement(k, size)
    IN /\ ~closed /\ sets < MaxSets
       /\ Bytes(x) <= MaxBytes
       /\ Becomes(Appended(Without(MakeRoom(DeleteExpired(Contents), Bytes(x)), k), x))
       /\ sets' = sets + 1
       /\ Wrote(k, x)

Set(k, size) ==
    LET x == NewElement(k, size)
    IN /\ ~closed /\ sets < MaxSets
       /\ Bytes(x) <= MaxBytes
       /\ Becomes(Appended(MakeRoom(Without(DeleteExpired(Contents), k), Bytes(x)), x))
       /\ sets' = sets + 1
       /\ Wrote(k, x)

(* As if Get left the expired entries to the cleaner. *)
GetUnswept(k) ==
    /\ ~closed
    /\ answer' = [key |-> k, element |-> items[k]]
    /\ UNCHANGED <<data, ends, clock, past>>

Get(k) ==
    /\ ~closed
    /\ Becomes(DeleteExpired(Contents))
    /\ answer' = [key |-> k, element |-> items'[k]]
    /\ UNCHANGED <<ends, clock, past>>

Delete(k) ==
    /\ ~closed
    /\ Becomes(Without(Contents, k))
    /\ Wrote(k, None)
    /\ UNCHANGED sets

(* As if closing only marked the store as closed. *)
CloseQuietly(c) ==
    /\ closer[c] = "idle"
    /\ closer' = [closer EXCEPT ![c] = "waiting"]
    /\ closed' = TRUE
    /\ Becomes([items |-> [k \in CacheKeys |-> None], order |-> << >>, bytes |-> 0])
    /\ answer' = NoAnswer
    /\ UNCHANGED <<stop, done, clock, past>>

(* Close, up to the receive from done; the first caller empties the store. *)
Close(c) ==
    /\ closer[c] = "idle"
    /\ closer' = [closer EXCEPT ![c] = "waiting"]
    /\ closed' = TRUE /\ stop' = TRUE
    /\ IF closed THEN UNCHANGED data
                 ELSE Becomes([items |-> [k \in CacheKeys |-> None], order |-> << >>, bytes |-> 0])
    /\ answer' = NoAnswer
    /\ UNCHANGED <<done, clock, past>>

CloseReturns(c) ==
    /\ closer[c] = "waiting" /\ done
    /\ closer' = [closer EXCEPT ![c] = "returned"]
    /\ answer' = NoAnswer
    /\ UNCHANGED <<data, closed, stop, done, clock, past>>

(* The cleaner: a tick of its ticker, or the stop channel. *)
Sweep ==
    /\ ~done
    /\ Becomes(DeleteExpired(Contents))
    /\ answer' = NoAnswer
    /\ UNCHANGED <<ends, clock, past>>

Stop ==
    /\ ~done /\ stop
    /\ done' = TRUE
    /\ answer' = NoAnswer
    /\ UNCHANGED <<data, closed, stop, closer, clock, past>>

Tick ==
    /\ clock < MaxTime
    /\ clock' = clock + 1
    /\ answer' = NoAnswer
    /\ UNCHANGED <<data, ends, past>>

StoreNext ==
    \/ \E k \in CacheKeys : (\E size \in Sizes : Set(k, size)) \/ Get(k) \/ Delete(k)
    \/ \E c \in Closers : Close(c) \/ CloseReturns(c)
    \/ Sweep \/ Stop \/ Tick

StoreSpec == StoreInit /\ [][StoreNext]_storeVars

(* The ticker keeps ticking, the select does not ignore a closed channel   *)
(* for ever, and a goroutine whose receive is ready goes on.               *)
StoreFairSpec ==
    /\ StoreSpec
    /\ WF_storeVars(Sweep) /\ WF_storeVars(Stop)
    /\ \A c \in Closers : WF_storeVars(CloseReturns(c))

-----------------------------------------------------------------------------
(* Properties. *)

(* The map and the list hold the same elements, one for each key, the byte *)
(* count is theirs and within the limits as their number is, whatever was  *)
(* replaced, evicted, expired or deleted.                                  *)
Consistent ==
    /\ \A i, j \in DOMAIN order : order[i].key = order[j].key => i = j
    /\ {items[k] : k \in CacheKeys} \ {None} = Range(order)
    /\ \A k \in CacheKeys : items[k] # None => items[k].key = k
    /\ bytes = Total(order)
    /\ Len(order) <= MaxEntries /\ bytes <= MaxBytes

(* Get returns what the last Set of the key wrote, never a deleted, an     *)
(* overwritten or an expired value, although it looks for expired entries  *)
(* only at the front of the list.                                          *)
GetsCurrent ==
    answer.element # None => /\ answer.element = written[answer.key]
                             /\ clock < answer.element.expiresAt

(* The i-th entry goes, and not because it expired, was written or deleted *)
(* anew, or went with all the others.                                      *)
Evicts(i) ==
    LET x == order[i]
    IN x \notin Range(order') /\ ~Lapsed(x) /\ ~closed' /\ written'[x.key] = written[x.key]

(* A Set has added an entry, none as old as the i-th is left, and with the *)
(* i-th, the younger ones and the new one a limit would have been exceeded.*)
NoRoomBeside(i) ==
    LET new    == order'[Len(order')]
        beside == Without(RemoveFront(Contents, i - 1), new.key).order
    IN /\ sets' = sets + 1
       /\ \A y \in Range(order') : y.set > order[i].set
       /\ \/ Len(beside) + 1 > MaxEntries
          \/ Total(beside) + Bytes(new) > MaxBytes

(* An entry that has not expired leaves the store only by a Set or Delete  *)
(* of its key, by Close, or to make room; in that case every older entry   *)
(* has left too, and it would not have fitted with the younger ones and    *)
(* the new one.                                                            *)
EvictionNeeded == [][\A i \in DOMAIN order : Evicts(i) => NoRoomBeside(i)]_storeVars

(* An idle store forgets what has expired without being read.              *)
Kept(n) == \E k \in CacheKeys : items[k] # None /\ items[k].set = n /\ items[k].expiresAt <= clock

IdleExpires == \A n \in 1 .. MaxSets : Kept(n) ~> ~Kept(n)

(* Every Close returns, and only when the cleaner has ended.               *)
CloseEnds ==
    \A c \in Closers : /\ closer[c] = "waiting" ~> closer[c] = "returned"
                       /\ [](closer[c] = "returned" => done)
=============================================================================
