----------------------------- MODULE ApiCache -----------------------------
(***************************************************************************)
(* api/src/services/cache.ts: the API's single-flight cache.  `store`      *)
(* holds values with an expiry, `inflight` the one computation a key may   *)
(* have, and every use of a key moves it to the end of the eviction order. *)
(* The module has the cache and the steps of a computation in it; who      *)
(* reads, refreshes and seeds is left to the module that extends it.       *)
(*                                                                         *)
(* Time is relative: an entry says how long it is still fresh and how long *)
(* it may still be served.  An entry that may not be served any more is    *)
(* deleted by the next read of its key or the next prune, both before      *)
(* anything looks at it, so it is not kept here at all.                    *)
(***************************************************************************)
EXTENDS Integers, FiniteSets

CONSTANTS
    Keys,
    MaxEntries,     \* API_CACHE_MAX_ENTRIES
    OldAge          \* bound: ages are counted up to this

ASSUME CacheAssumption ==
    /\ Keys # {} /\ IsFiniteSet(Keys)
    /\ MaxEntries \in Nat \ {0}
    /\ OldAge \in Nat \ {0}

\* Enough computations of one key to see a second one start beside the first.
Slot == 1 .. 2
None == 0
Absent == [age |-> 0, fresh |-> 0, left |-> 0, by |-> "nobody"]

VARIABLES
    store,      \* Map of the entries: age of the value, time it stays fresh, time it
                \* may be served; history: what installed it
    used,       \* lastAccessedAt: pairs of keys, the first accessed before the second
    inflight,   \* Map of the pending computations: the slot a reader would join
    builds      \* history: computations that run, each with its key and its slot

cache == <<store, used, inflight, builds>>

Entry == [age : 0 .. OldAge, fresh : Nat, left : Nat, by : {"nobody", "load", "seed"}]
Build == [key : Keys, slot : Slot, step : {"look", "compute", "persist", "return"},
          age : 0 .. OldAge]

Min2(a, b) == IF a <= b THEN a ELSE b
Older(age) == Min2(age + 1, OldAge)

Hit(k) == store[k] # Absent
Pending(k) == inflight[k] # None
Occupied(k) == Pending(k) \/ Hit(k)

Hits == {k \in Keys : Hit(k)}
Among(order, S) == order \cap (S \X S)

\* nextAccess: k is accessed after every other key that has an entry.
Touched(k) == Among(used, Keys \ {k}) \cup (Hits \ {k}) \X {k}

\* prune: while there are too many, the least recently accessed goes.
Survivors(S, order) ==
    {x \in S : Cardinality({y \in S : <<x, y>> \in order}) < MaxEntries}

\* store.set and prune.
Install(k, entry) ==
    LET kept == Survivors(Hits \cup {k}, Touched(k))
    IN  /\ used' = Among(Touched(k), kept)
        /\ store' = [x \in Keys |-> IF x \notin kept THEN Absent
                                    ELSE IF x = k THEN entry ELSE store[x]]

\* A hit: lastAccessedAt moves on.
Access(k) == used' = IF Hit(k) THEN Touched(k) ELSE used

FreeSlot(k) == CHOOSE s \in Slot : \A b \in builds : b.key = k => b.slot # s

\* loadAndCache: the computation starts and is what readers join from now on.
Start(k) ==
    /\ builds' = builds \cup {[key |-> k, slot |-> FreeSlot(k), step |-> "look", age |-> 0]}
    /\ inflight' = [inflight EXCEPT ![k] = FreeSlot(k)]

\* Mutant: a refresh always computes.
StartAlways(k) ==
    IF Cardinality({b \in builds : b.key = k}) = Cardinality(Slot)
    THEN UNCHANGED <<inflight, builds>> ELSE Start(k)

\* cacheRefresh joins the pending computation instead.
StartUnless(k) == IF Pending(k) THEN UNCHANGED <<inflight, builds>> ELSE Start(k)

\* The end of a computation, whichever way: the finally of loadAndCache.
End(b) ==
    /\ builds' = builds \ {b}
    /\ inflight' = [inflight EXCEPT ![b.key] = None]

Becomes(b, step, age) ==
    /\ builds' = (builds \ {b}) \cup {[b EXCEPT !.step = step, !.age = age]}
    /\ UNCHANGED inflight

\* cached: a hit is served, a miss joins or starts the computation.
ReadThrough(k) ==
    /\ Access(k)
    /\ IF Hit(k) THEN UNCHANGED <<inflight, builds>> ELSE StartUnless(k)
    /\ UNCHANGED store

\* cachedSwr: the same, but a hit that is no longer fresh is served and starts the
\* computation that replaces it.
ReadSwr(k) ==
    /\ Access(k)
    /\ IF Hit(k) /\ store[k].fresh > 0
       THEN UNCHANGED <<inflight, builds>> ELSE StartUnless(k)
    /\ UNCHANGED store

Aged(e) ==
    IF e.left <= 1 THEN Absent
    ELSE [e EXCEPT !.age = Older(@), !.left = @ - 1, !.fresh = IF @ = 0 THEN 0 ELSE @ - 1]

\* One unit of time for the entries and for the values on their way.
CacheTick ==
    /\ store' = [k \in Keys |-> Aged(store[k])]
    /\ used' = Among(used, {k \in Keys : store[k].left > 1})
    /\ builds' = {[b EXCEPT !.age = Older(@)] : b \in builds}
    /\ UNCHANGED inflight

CacheInit ==
    /\ store = [k \in Keys |-> Absent]
    /\ used = {}
    /\ inflight = [k \in Keys |-> None]
    /\ builds = {}

----------------------------------------------------------------------------
(* Properties. *)

StrictOrder(order, S) ==
    /\ order \subseteq S \X S
    /\ \A x \in S : <<x, x>> \notin order
    /\ \A x, y \in S : x # y => (<<x, y>> \in order <=> <<y, x>> \notin order)
    /\ \A x, y, z \in S : <<x, y>> \in order /\ <<y, z>> \in order => <<x, z>> \in order

CacheTypeOK ==
    /\ store \in [Keys -> Entry]
    /\ StrictOrder(used, Hits)
    /\ inflight \in [Keys -> Slot \cup {None}]
    /\ builds \subseteq Build

\* No key is computed twice at once, whoever asks while the first computation
\* runs: readers, seeders and the pass that owns the refresh (cache.ts:3-7, 124).
SingleFlight == \A b, c \in builds : b.key = c.key => b = c

\* The store never holds more than its limit, through whichever door the last
\* entry came in.
Bounded == Cardinality(Hits) <= MaxEntries

\* A persisted value never replaces a newer one that was installed while it took
\* its round trip (cache.ts:149-151).
SeedNeverOlder ==
    [][\A k \in Keys : (Hit(k) /\ store'[k].by = "seed") =>
            store'[k] = Aged(store[k]) \/ store'[k].age <= store[k].age]_cache

=============================================================================
