--------------------------- MODULE ApiCaches_proofs ---------------------------
(***************************************************************************)
(* Proofs about the machines of the API process that MCApiCaches and       *)
(* MCLiveFeed check: the cache with the account directory, for every       *)
(* number of keys, entries, pages and readers; the sampler of the chain    *)
(* head, for every timeout, staleness and query time; and the live feeds,  *)
(* for every number of tabs, blocks and faults.                            *)
(***************************************************************************)
EXTENDS AccountDirectory, ChainHead, LiveFeed, FiniteSetTheorems, WellFoundedInduction, TLAPS

----------------------------------------------------------------------------
(* The order of accesses, and what prune leaves of it. *)

LEMMA AmongOrder ==
    ASSUME NEW o, NEW S, StrictOrder(o, S), NEW T, T \subseteq S
    PROVE  StrictOrder(Among(o, T), T)
BY DEF StrictOrder, Among

LEMMA TouchedOrder ==
    ASSUME StrictOrder(used, Hits), NEW k \in Keys
    PROVE  StrictOrder(Touched(k), Hits \cup {k})
<1> DEFINE old == Among(used, Keys \ {k})
           new == (Hits \ {k}) \X {k}
<1>1. Touched(k) = old \cup new
    BY DEF Touched
<1>2. \A x, y : <<x, y>> \in new <=> x \in Hits /\ x # k /\ y = k
    OBVIOUS
<1>3. \A x, y : <<x, y>> \in old <=> <<x, y>> \in used /\ x \in Hits /\ y \in Hits /\ x # k /\ y # k
    BY DEF StrictOrder, Among, Hits
<1>4. \A p \in old \cup new : p \in (Hits \cup {k}) \X (Hits \cup {k})
    BY DEF StrictOrder, Among, Hits
<1> HIDE DEF old, new
<1>5. \A x, y : <<x, y>> \in Touched(k) <=>
        \/ <<x, y>> \in used /\ x \in Hits /\ y \in Hits /\ x # k /\ y # k
        \/ x \in Hits /\ x # k /\ y = k
    BY <1>1, <1>2, <1>3
<1>6. Touched(k) \subseteq (Hits \cup {k}) \X (Hits \cup {k})
    BY <1>1, <1>4
<1>7. QED
    BY <1>5, <1>6 DEF StrictOrder

\* Whoever survives has fewer than MaxEntries others after it; the earliest of the
\* survivors has all of them after it.
LEMMA SurvivorsFew ==
    ASSUME NEW S, IsFiniteSet(S), NEW o, StrictOrder(o, S)
    PROVE  /\ Survivors(S, o) \subseteq S
           /\ Cardinality(Survivors(S, o)) <= MaxEntries
<1> DEFINE After(x) == {y \in S : <<x, y>> \in o}
           K == Survivors(S, o)
<1>1. K \subseteq S /\ IsFiniteSet(K)
    <2>1. K \subseteq S
        BY DEF Survivors
    <2>2. QED
        BY <2>1, FS_Subset
<1>2. \A x \in K : Cardinality(After(x)) < MaxEntries
    BY DEF Survivors
<1>3. ASSUME NEW x
      PROVE  IsFiniteSet(After(x)) /\ Cardinality(After(x)) \in Nat
    <2>1. After(x) \subseteq S
        OBVIOUS
    <2>2. IsFiniteSet(After(x))
        BY <2>1, FS_Subset
    <2>3. QED
        BY <2>2, FS_CardinalityType
<1>k. Survivors(S, o) = K
    OBVIOUS
<1>e. MaxEntries \in Nat \ {0}
    BY CacheAssumption
<1> HIDE DEF K, After
<1>4. CASE K = {}
    BY <1>1, <1>4, <1>e, <1>k, FS_EmptySet
<1>5. CASE K # {}
    <2>1. PICK e \in K : \A z \in K : <<z, e>> \notin o
        <3> DEFINE Fewer == {MaxEntries - Cardinality(After(x)) : x \in K}
        <3>1. Fewer \subseteq Nat /\ Fewer # {}
            <4>1. \A x \in K : MaxEntries - Cardinality(After(x)) \in Nat
                BY <1>2, <1>3, <1>e
            <4>2. QED
                BY <1>5, <4>1
        <3>2. PICK m \in Fewer : \A n \in Fewer : m <= n
            <4> HIDE DEF Fewer
            <4>1. PICK m \in Fewer : \A n \in Fewer : <<n, m>> \notin OpToRel(<, Nat)
                BY <3>1, WFMin, NatLessThanWellFounded, Zenon
            <4>2. \A a, b \in Fewer : b < a => <<b, a>> \in OpToRel(<, Nat)
                BY <3>1 DEF OpToRel
            <4>3. \A n \in Fewer : ~(n < m)
                BY <4>1, <4>2, Zenon
            <4>4. QED
                BY <3>1, <4>3
        <3>3. PICK e \in K : m = MaxEntries - Cardinality(After(e))
            BY <3>2
        <3>4. ASSUME NEW z \in K, <<z, e>> \in o
              PROVE  FALSE
            <4>1. After(e) \subseteq After(z) /\ e \in After(z) /\ e \notin After(e)
                BY <1>1, <3>4 DEF StrictOrder, After
            <4>2. Cardinality(After(e)) < Cardinality(After(z))
                <5>1. /\ Cardinality(After(e)) <= Cardinality(After(z))
                      /\ Cardinality(After(z)) = Cardinality(After(e)) => After(z) = After(e)
                    BY <1>3, <4>1, FS_Subset
                <5>2. After(z) # After(e)
                    BY <4>1
                <5>3. QED
                    BY <1>3, <5>1, <5>2
            <4>3. MaxEntries - Cardinality(After(z)) \in Fewer
                OBVIOUS
            <4>4. m <= MaxEntries - Cardinality(After(z))
                BY <3>2, <4>3
            <4>5. QED
                BY <1>3, <1>e, <3>3, <4>2, <4>4
        <3>5. QED
            BY <3>4
    <2>2. K \ {e} \subseteq After(e)
        BY <1>1, <2>1 DEF StrictOrder, After
    <2>3. /\ IsFiniteSet(K \ {e})
          /\ Cardinality(K \ {e}) = Cardinality(K) - 1
        BY <1>1, <2>1, FS_RemoveElement
    <2>4. Cardinality(K \ {e}) <= Cardinality(After(e))
        BY <1>3, <2>2, FS_Subset
    <2>5. Cardinality(K) \in Nat
        BY <1>1, FS_CardinalityType
    <2>6. QED
        BY <1>1, <1>2, <1>3, <1>e, <1>k, <2>1, <2>3, <2>4, <2>5
<1>6. QED
    BY <1>4, <1>5

----------------------------------------------------------------------------
(* The operations of the cache. *)

\* A computation that runs is the one its key would be joined to.
InflightIs == \A b \in builds : inflight[b.key] = b.slot

\* The computations alone.
FlightInv ==
    /\ inflight \in [Keys -> Slot \cup {None}]
    /\ builds \subseteq Build
    /\ InflightIs
    /\ SingleFlight

\* The entries alone.
StoreInv ==
    /\ store \in [Keys -> Entry]
    /\ StrictOrder(used, Hits)
    /\ Bounded
    /\ SeedWithinTolerance

LEMMA SlotFacts == Slot = {1, 2} /\ None = 0 /\ None \notin Slot /\ OldAge \in Nat
BY CacheAssumption DEF Slot, None

LEMMA OlderFacts ==
    ASSUME NEW age \in 0 .. OldAge
    PROVE  Older(age) \in 0 .. OldAge /\ Older(age) <= age + 1
BY CacheAssumption DEF Older, Min2

\* An entry that comes in is there, or pruned at once; any other stays or is pruned.
LEMMA InstallFacts ==
    ASSUME StoreInv, NEW k \in Keys, NEW entry \in Entry, Install(k, entry),
           entry.by \in {"load", "seed"},
           entry.by = "seed" => entry.age + entry.left <= MAX_AGE
    PROVE  /\ StoreInv'
           /\ \A x \in Keys : store'[x] \in {Absent, store[x]} \/ (x = k /\ store'[x] = entry)
<1> DEFINE there == Hits \cup {k}
           kept == Survivors(there, Touched(k))
<1>1. /\ used' = Among(Touched(k), kept)
      /\ store' = [x \in Keys |-> IF x \notin kept THEN Absent
                                 ELSE IF x = k THEN entry ELSE store[x]]
    BY DEF Install
<1>2. StrictOrder(Touched(k), there)
    BY TouchedOrder DEF StoreInv
<1>3. there \subseteq Keys /\ IsFiniteSet(there)
    BY CacheAssumption, FS_Subset DEF Hits
<1>4. kept \subseteq there /\ Cardinality(kept) <= MaxEntries
    BY <1>2, <1>3, SurvivorsFew
<1>5. StrictOrder(used', kept)
    BY <1>1, <1>2, <1>4, AmongOrder
<1> HIDE DEF kept
<1>6. entry # Absent
    BY DEF Absent
<1>7. Hits' = kept
    <2>1. \A x \in Keys : store'[x] # Absent <=> x \in kept
        <3> TAKE x \in Keys
        <3>1. x \in kept /\ x # k => store[x] # Absent
            BY <1>4 DEF Hits, Hit
        <3>2. QED
            BY <1>1, <1>6, <3>1
    <2>2. QED
        BY <1>3, <1>4, <2>1 DEF Hits, Hit
<1>8. Absent \in Entry
    BY CacheAssumption DEF Absent, Entry
<1>9. store' \in [Keys -> Entry]
    BY <1>1, <1>8 DEF StoreInv
<1>10. SeedWithinTolerance'
    <2> SUFFICES ASSUME NEW x \in Keys, store'[x].by = "seed"
                 PROVE  store'[x].age + store'[x].left <= MAX_AGE
        BY DEF SeedWithinTolerance
    <2>1. store'[x] # Absent
        BY DEF Absent
    <2>2. CASE x = k
        BY <1>1, <2>1, <2>2
    <2>3. CASE x # k
        BY <1>1, <2>1, <2>3 DEF StoreInv, SeedWithinTolerance
    <2>4. QED
        BY <2>2, <2>3
<1>11. Bounded'
    BY <1>4, <1>7 DEF Bounded
<1>12. StoreInv'
    BY <1>5, <1>7, <1>9, <1>10, <1>11 DEF StoreInv
<1>13. QED
    BY <1>1, <1>12

LEMMA AccessFacts ==
    ASSUME StoreInv, NEW k \in Keys, Access(k), UNCHANGED store
    PROVE  StoreInv'
<1>1. Hits' = Hits
    BY DEF Hits, Hit
<1>2. CASE Hit(k)
    <2>1. used' = Touched(k) /\ Hits \cup {k} = Hits
        BY <1>2 DEF Access, Hits
    <2>2. StrictOrder(used', Hits')
        BY <1>1, <2>1, TouchedOrder DEF StoreInv
    <2>3. QED
        BY <1>1, <2>2 DEF StoreInv, Bounded, SeedWithinTolerance
<1>3. CASE ~Hit(k)
    <2>1. used' = used
        BY <1>3 DEF Access
    <2>2. QED
        BY <1>1, <2>1 DEF StoreInv, Bounded, SeedWithinTolerance
<1>4. QED
    BY <1>2, <1>3

\* An entry that ages keeps its kind, and what age and time left add up to does not grow.
LEMMA AgedFacts ==
    ASSUME NEW e \in Entry
    PROVE  /\ Aged(e) \in Entry
           /\ Aged(e) # Absent <=> e.left > 1
           /\ Aged(e).by = "seed" => e.by = "seed" /\ Aged(e).age + Aged(e).left <= e.age + e.left
<1>1. Older(e.age) \in 0 .. OldAge /\ Older(e.age) <= e.age + 1
    BY OlderFacts DEF Entry
<1>2. e.age \in Int /\ e.left \in Nat /\ e.fresh \in Nat /\ Absent \in Entry
    BY CacheAssumption DEF Entry, Absent
<1>3. CASE e.left <= 1
    <2>1. Aged(e) = Absent
        BY <1>3 DEF Aged
    <2>2. QED
        BY <1>2, <1>3, <2>1 DEF Absent
<1>4. CASE ~(e.left <= 1)
    <2>1. Aged(e) = [e EXCEPT !.age = Older(e.age), !.left = e.left - 1,
                              !.fresh = IF e.fresh = 0 THEN 0 ELSE e.fresh - 1]
        BY <1>4 DEF Aged
    <2>2. /\ Aged(e).age = Older(e.age) /\ Aged(e).left = e.left - 1
          /\ Aged(e).by = e.by
        BY <2>1 DEF Entry
    <2>3. Aged(e) \in Entry
        <3>1. e.left - 1 \in Nat /\ (IF e.fresh = 0 THEN 0 ELSE e.fresh - 1) \in Nat
            BY <1>2, <1>4
        <3>2. QED
            BY <1>1, <2>1, <3>1 DEF Entry
    <2>4. Aged(e) # Absent
        <3>1. Aged(e).left # 0
            BY <1>2, <1>4, <2>2
        <3>2. QED
            BY <3>1 DEF Absent
    <2>5. QED
        BY <1>1, <1>2, <1>4, <2>2, <2>3, <2>4
<1>5. QED
    BY <1>3, <1>4

LEMMA TickStore ==
    ASSUME StoreInv, CacheTick
    PROVE  StoreInv'
<1>1. /\ store' = [k \in Keys |-> Aged(store[k])]
      /\ used' = Among(used, {k \in Keys : store[k].left > 1})
    BY DEF CacheTick
<1>2. \A k \in Keys : store[k] \in Entry
    BY DEF StoreInv
<1>3. Hits' = {k \in Keys : store[k].left > 1}
    BY <1>1, <1>2, AgedFacts DEF Hits, Hit
<1>4. Hits' \subseteq Hits
    <2>1. \A k \in Keys : store[k].left > 1 => store[k] # Absent
        BY DEF Absent
    <2>2. QED
        BY <1>3, <2>1 DEF Hits, Hit
<1>5. store' \in [Keys -> Entry]
    BY <1>1, <1>2, AgedFacts
<1>6. StrictOrder(used', Hits')
    BY <1>1, <1>3, <1>4, AmongOrder DEF StoreInv
<1>7. Bounded'
    <2>1. IsFiniteSet(Hits)
        BY CacheAssumption, FS_Subset DEF Hits
    <2>2. /\ Cardinality(Hits') <= Cardinality(Hits)
          /\ Cardinality(Hits) \in Nat /\ Cardinality(Hits') \in Nat
        BY <1>4, <2>1, FS_Subset, FS_CardinalityType
    <2>3. QED
        BY <2>2, CacheAssumption DEF StoreInv, Bounded
<1>8. SeedWithinTolerance'
    <2> SUFFICES ASSUME NEW k \in Keys, Aged(store[k]).by = "seed"
                 PROVE  Aged(store[k]).age + Aged(store[k]).left <= MAX_AGE
        BY <1>1 DEF SeedWithinTolerance
    <2>1. /\ store[k].by = "seed"
          /\ Aged(store[k]).age + Aged(store[k]).left <= store[k].age + store[k].left
        BY <1>2, AgedFacts
    <2>2. store[k].age + store[k].left <= MAX_AGE
        BY <2>1 DEF StoreInv, SeedWithinTolerance
    <2>3. /\ store[k].age \in Int /\ store[k].left \in Int
          /\ Aged(store[k]).age \in Int /\ Aged(store[k]).left \in Int
        BY <1>2, AgedFacts DEF Entry
    <2>4. QED
        BY <2>1, <2>2, <2>3, DirectoryAssumption
<1>9. QED
    BY <1>5, <1>6, <1>7, <1>8 DEF StoreInv

\* Only a key without a computation gets one.
LEMMA StartFacts ==
    ASSUME FlightInv, NEW k \in Keys, StartUnless(k)
    PROVE  FlightInv'
<1> USE SlotFacts
<1>1. CASE Pending(k)
    BY <1>1 DEF StartUnless, FlightInv, InflightIs, SingleFlight
<1>2. CASE ~Pending(k)
    <2>1. /\ builds' = builds \cup {[key |-> k, slot |-> FreeSlot(k), step |-> "look", age |-> 0]}
          /\ inflight' = [inflight EXCEPT ![k] = FreeSlot(k)]
        BY <1>2 DEF StartUnless, Start
    <2>2. \A b \in builds : b.key # k
        <3> SUFFICES ASSUME NEW b \in builds, b.key = k PROVE FALSE
            OBVIOUS
        <3>1. b.slot \in Slot /\ inflight[k] = b.slot
            BY DEF FlightInv, InflightIs, Build
        <3>2. QED
            BY <1>2, <3>1 DEF Pending
    <2>3. FreeSlot(k) \in Slot
        BY <2>2 DEF FreeSlot
    <2> DEFINE new == [key |-> k, slot |-> FreeSlot(k), step |-> "look", age |-> 0]
    <2>4. new \in Build /\ new.key = k /\ new.slot = FreeSlot(k)
        BY <2>3 DEF Build
    <2> HIDE DEF new
    <2>5. builds' = builds \cup {new}
        BY <2>1 DEF new
    <2>6. \A b \in builds : b.key \in Keys
        BY DEF FlightInv, Build
    <2>7. InflightIs'
        BY <2>1, <2>2, <2>4, <2>5, <2>6 DEF FlightInv, InflightIs
    <2>8. SingleFlight'
        BY <2>2, <2>4, <2>5 DEF FlightInv, SingleFlight
    <2>9. QED
        BY <2>1, <2>3, <2>4, <2>5, <2>7, <2>8 DEF FlightInv
<1>3. QED
    BY <1>1, <1>2

LEMMA EndFacts ==
    ASSUME FlightInv, NEW b \in builds, End(b)
    PROVE  FlightInv'
<1>1. builds' = builds \ {b} /\ inflight' = [inflight EXCEPT ![b.key] = None]
    BY DEF End
<1>2. \A c \in builds \ {b} : c.key # b.key
    BY DEF FlightInv, SingleFlight
<1>3. \A c \in builds : c.key \in Keys
    BY DEF FlightInv, Build
<1>4. InflightIs'
    BY <1>1, <1>2, <1>3 DEF FlightInv, InflightIs
<1>5. SingleFlight'
    BY <1>1 DEF FlightInv, SingleFlight
<1>6. inflight' \in [Keys -> Slot \cup {None}] /\ builds' \subseteq Build
    BY <1>1, <1>3 DEF FlightInv
<1>7. QED
    BY <1>4, <1>5, <1>6 DEF FlightInv

LEMMA BecomesFacts ==
    ASSUME FlightInv, NEW b \in builds, NEW step \in {"compute", "persist", "return"},
           NEW age \in 0 .. OldAge, Becomes(b, step, age)
    PROVE  FlightInv'
<1> DEFINE new == [b EXCEPT !.step = step, !.age = age]
<1>1. builds' = (builds \ {b}) \cup {new} /\ inflight' = inflight
    BY DEF Becomes
<1>2. new \in Build /\ new.key = b.key /\ new.slot = b.slot
    BY DEF FlightInv, Build
<1> HIDE DEF new
<1>3. \A c \in builds \ {b} : c.key # b.key
    BY DEF FlightInv, SingleFlight
<1>4. QED
    BY <1>1, <1>2, <1>3 DEF FlightInv, InflightIs, SingleFlight

LEMMA TickFlight ==
    ASSUME FlightInv, CacheTick
    PROVE  FlightInv'
<1> DEFINE Grown(b) == [b EXCEPT !.age = Older(b.age)]
<1>1. builds' = {Grown(b) : b \in builds} /\ inflight' = inflight
    BY DEF CacheTick
<1>2. \A b \in builds : Grown(b) \in Build /\ Grown(b).key = b.key /\ Grown(b).slot = b.slot
    <2> TAKE b \in builds
    <2>1. b \in Build /\ Older(b.age) \in 0 .. OldAge
        BY OlderFacts DEF FlightInv, Build
    <2>2. QED
        BY <2>1 DEF Build
<1> HIDE DEF Grown
<1>3. InflightIs' /\ builds' \subseteq Build
    BY <1>1, <1>2 DEF FlightInv, InflightIs
<1>4. SingleFlight'
    BY <1>1, <1>2 DEF FlightInv, SingleFlight
<1>5. QED
    BY <1>1, <1>3, <1>4 DEF FlightInv

----------------------------------------------------------------------------
(* The account directory. *)

\* What is left of the type invariant, with the pages a pass still has to refresh; a
\* reader that is about to adopt a row has one.
RequestsInv ==
    /\ persisted \in [Pages -> 0 .. OldAge \cup {NoRow}]
    /\ reader \in [Readers -> [step : {"idle", "seed", "adopt", "read"}, page : Pages,
                               row : 0 .. OldAge \cup {NoRow}]]
    /\ \A r \in Readers : reader[r].step = "adopt" => reader[r].row # NoRow
    /\ pass \in [todo : Seq(Pages), awaits : Slot \cup {None}]
    /\ due \in BOOLEAN
    /\ crashes \in 0 .. MaxCrashes

DirectoryInv == StoreInv /\ FlightInv /\ RequestsInv

LEMMA PageFacts ==
    /\ Pages \subseteq Keys /\ Others \subseteq Keys
    /\ PageOrder \in Seq(Pages) /\ PageOrder[1] \in Pages
    /\ FRESH \in Nat \ {0} /\ STALE \in Nat /\ OtherTtl \in Nat /\ MAX_AGE \in Nat
    /\ MaxCrashes \in Nat /\ OldAge \in Nat /\ OldAge > MAX_AGE
<1>1. PageOrder[1] \in Pages
    BY DirectoryAssumption
<1>2. QED
    BY <1>1, DirectoryAssumption, CacheAssumption DEF Others

LEMMA IdleFacts ==
    /\ IdleReader \in [step : {"idle", "seed", "adopt", "read"}, page : Pages,
                       row : 0 .. OldAge \cup {NoRow}]
    /\ IdleReader.step = "idle"
    /\ IdlePass \in [todo : Seq(Pages), awaits : Slot \cup {None}]
BY PageFacts DEF IdleReader, IdlePass

LEMMA DirectoryInit == Init => DirectoryInv
<1> SUFFICES ASSUME Init PROVE DirectoryInv
    OBVIOUS
<1> USE PageFacts, SlotFacts
<1>1. CacheInit
    BY DEF Init
<1>2. Hits = {}
    BY <1>1 DEF CacheInit, Hits, Hit
<1>3. FlightInv
    BY <1>1 DEF CacheInit, FlightInv, InflightIs, SingleFlight
<1>4. StoreInv
    <2>1. StrictOrder(used, Hits) /\ Bounded
        BY <1>1, <1>2, FS_EmptySet, CacheAssumption DEF CacheInit, StrictOrder, Bounded
    <2>2. store \in [Keys -> Entry] /\ SeedWithinTolerance
        BY <1>1 DEF CacheInit, Entry, Absent, SeedWithinTolerance
    <2>3. QED
        BY <2>1, <2>2 DEF StoreInv
<1>5. RequestsInv
    <2>1. persisted \in [Pages -> 0 .. OldAge \cup {NoRow}]
        BY DEF Init
    <2>2. /\ reader \in [Readers -> [step : {"idle", "seed", "adopt", "read"}, page : Pages,
                                     row : 0 .. OldAge \cup {NoRow}]]
          /\ \A r \in Readers : reader[r].step = "idle"
        BY IdleFacts DEF Init
    <2>3. /\ pass \in [todo : Seq(Pages), awaits : Slot \cup {None}]
          /\ due \in BOOLEAN /\ crashes \in 0 .. MaxCrashes
        BY IdleFacts DEF Init
    <2>4. QED
        BY <2>1, <2>2, <2>3 DEF RequestsInv
<1>6. QED
    BY <1>3, <1>4, <1>5 DEF DirectoryInv

\* What a step leaves alone keeps its part.
LEMMA UntouchedStore == StoreInv /\ UNCHANGED <<store, used>> => StoreInv'
BY DEF StoreInv, Hits, Hit, Bounded, SeedWithinTolerance, StrictOrder

LEMMA UntouchedFlight == FlightInv /\ UNCHANGED <<inflight, builds>> => FlightInv'
BY DEF FlightInv, InflightIs, SingleFlight

LEMMA ReadFacts ==
    ASSUME StoreInv, FlightInv, NEW k \in Keys, ReadThrough(k) \/ ReadSwr(k)
    PROVE  StoreInv' /\ FlightInv'
<1>1. Access(k) /\ UNCHANGED store
    BY DEF ReadThrough, ReadSwr
<1>2. UNCHANGED <<inflight, builds>> \/ StartUnless(k)
    BY DEF ReadThrough, ReadSwr
<1>3. FlightInv'
    BY <1>2, StartFacts, UntouchedFlight
<1>4. QED
    BY <1>1, <1>3, AccessFacts

\* The end of a computation with a value, and what the pass makes of it.
LEMMA LoadedFacts ==
    ASSUME DirectoryInv, NEW b \in builds, NEW age \in 0 .. OldAge,
           NEW ttl \in Nat, NEW fresh \in Nat, Loaded(b, age, ttl, fresh)
    PROVE  DirectoryInv'
<1> DEFINE entry == [age |-> age, fresh |-> fresh, left |-> ttl, by |-> "load"]
<1>1. b.key \in Keys
    BY DEF DirectoryInv, FlightInv, Build
<1>2. entry \in Entry /\ entry.by = "load"
    BY DEF Entry
<1>3. Install(b.key, entry) /\ End(b) /\ PassAfter(b, TRUE)
      /\ UNCHANGED <<persisted, reader, due, crashes>>
    BY DEF Loaded
<1> HIDE DEF entry
<1>4. StoreInv'
    BY <1>1, <1>2, <1>3, InstallFacts DEF DirectoryInv
<1>5. FlightInv'
    BY <1>3, EndFacts DEF DirectoryInv
<1>6. pass' \in [todo : Seq(Pages), awaits : Slot \cup {None}]
    <2>1. pass \in [todo : Seq(Pages), awaits : Slot \cup {None}]
        BY DEF DirectoryInv, RequestsInv
    <2> DEFINE rest == Tail(pass.todo)
    <2>2. pass' = pass \/ (pass.todo # <<>> /\ pass' = [todo |-> rest, awaits |-> None])
        BY <1>3 DEF PassAfter
    <2>3. pass.todo # <<>> => rest \in Seq(Pages)
        BY <2>1
    <2> HIDE DEF rest
    <2>4. QED
        BY <2>1, <2>2, <2>3
<1>7. QED
    BY <1>3, <1>4, <1>5, <1>6 DEF DirectoryInv, RequestsInv

LEMMA DirectoryStep == DirectoryInv /\ [Next]_vars => DirectoryInv'
<1> SUFFICES ASSUME DirectoryInv, [Next]_vars PROVE DirectoryInv'
    OBVIOUS
<1> USE PageFacts DEF cache, requests
<1>0. StoreInv /\ FlightInv /\ RequestsInv
    BY DEF DirectoryInv
<1>1. ASSUME NEW r \in Readers, NEW k \in Pages, Ask(r, k)
      PROVE  DirectoryInv'
    <2>1. StoreInv' /\ FlightInv'
        BY <1>0, <1>1, UntouchedStore, UntouchedFlight DEF Ask
    <2>2. RequestsInv'
        <3> DEFINE new == [step |-> IF Occupied(k) THEN "read" ELSE "seed", page |-> k, row |-> NoRow]
        <3>1. /\ new \in [step : {"idle", "seed", "adopt", "read"}, page : Pages,
                          row : 0 .. OldAge \cup {NoRow}]
              /\ new.step # "adopt"
            OBVIOUS
        <3>2. /\ reader' = [reader EXCEPT ![r] = new]
              /\ UNCHANGED <<persisted, pass, due, crashes>>
            BY <1>1 DEF Ask
        <3> HIDE DEF new
        <3>3. QED
            BY <1>0, <3>1, <3>2 DEF RequestsInv
    <2>3. QED
        BY <2>1, <2>2 DEF DirectoryInv
<1>2. ASSUME NEW r \in Readers, ReadRow(r)
      PROVE  DirectoryInv'
    <2>1. StoreInv' /\ FlightInv'
        BY <1>0, <1>2, UntouchedStore, UntouchedFlight DEF ReadRow
    <2>2. PICK row \in {NoRow} \cup {persisted[k] : k \in {reader[r].page} \cap {k \in Pages : Usable(k)}} :
              reader' = [reader EXCEPT ![r].step = IF row = NoRow THEN "read" ELSE "adopt",
                                       ![r].row = row]
        BY <1>2 DEF ReadRow
    <2>3. row \in 0 .. OldAge \cup {NoRow}
        BY <1>0 DEF RequestsInv
    <2>4. UNCHANGED <<persisted, pass, due, crashes>>
        BY <1>2 DEF ReadRow
    <2>5. RequestsInv'
        <3> DEFINE new == [reader[r] EXCEPT !.step = IF row = NoRow THEN "read" ELSE "adopt", !.row = row]
        <3>1. /\ new \in [step : {"idle", "seed", "adopt", "read"}, page : Pages,
                          row : 0 .. OldAge \cup {NoRow}]
              /\ new.step = "adopt" => new.row # NoRow
            BY <1>0, <2>3 DEF RequestsInv
        <3>2. reader' = [reader EXCEPT ![r] = new]
            BY <1>0, <2>2 DEF RequestsInv
        <3> HIDE DEF new
        <3>3. QED
            BY <1>0, <2>4, <3>1, <3>2 DEF RequestsInv
    <2>6. QED
        BY <2>1, <2>5 DEF DirectoryInv
<1>3. ASSUME NEW r \in Readers, Adopt(r)
      PROVE  DirectoryInv'
    <2> DEFINE k == reader[r].page
               row == reader[r].row
               entry == [age |-> row, fresh |-> 0, left |-> SeedLeft(row), by |-> "seed"]
    <2>1. /\ reader[r].step = "adopt"
          /\ IF SeedStill(k) /\ SeedLeft(row) > 0 THEN Install(k, entry) ELSE UNCHANGED <<store, used>>
          /\ reader' = [reader EXCEPT ![r].step = "read", ![r].row = NoRow]
          /\ UNCHANGED <<inflight, builds, persisted, pass, due, crashes>>
        BY <1>3 DEF Adopt
    <2>2. k \in Pages /\ row \in 0 .. OldAge
        BY <1>0, <2>1 DEF RequestsInv
    <2>3. StoreInv'
        <3>1. CASE SeedStill(k) /\ SeedLeft(row) > 0
            <4>1. SeedLeft(row) \in Nat /\ row + SeedLeft(row) <= MAX_AGE
                BY <2>2, <3>1 DEF SeedLeft
            <4>2. entry \in Entry /\ entry.by = "seed" /\ entry.age + entry.left <= MAX_AGE
                BY <2>2, <4>1 DEF Entry
            <4> HIDE DEF entry, k, row
            <4>3. k \in Keys /\ Install(k, entry)
                BY <2>1, <2>2, <3>1
            <4>4. QED
                BY <1>0, <4>2, <4>3, InstallFacts
        <3>2. CASE ~(SeedStill(k) /\ SeedLeft(row) > 0)
            BY <1>0, <2>1, <3>2, UntouchedStore
        <3>3. QED
            BY <3>1, <3>2
    <2>4. RequestsInv'
        <3> DEFINE new == [reader[r] EXCEPT !.step = "read", !.row = NoRow]
        <3>1. /\ new \in [step : {"idle", "seed", "adopt", "read"}, page : Pages,
                          row : 0 .. OldAge \cup {NoRow}]
              /\ new.step = "read"
            BY <1>0 DEF RequestsInv
        <3>2. reader' = [reader EXCEPT ![r] = new]
            BY <1>0, <2>1 DEF RequestsInv
        <3> HIDE DEF new
        <3>3. QED
            BY <1>0, <2>1, <3>1, <3>2 DEF RequestsInv
    <2>5. FlightInv'
        BY <1>0, <2>1, UntouchedFlight
    <2>6. QED
        BY <2>3, <2>4, <2>5 DEF DirectoryInv
<1>4. ASSUME NEW r \in Readers, ReadPage(r)
      PROVE  DirectoryInv'
    <2>1. reader[r].page \in Keys
        BY <1>0 DEF RequestsInv
    <2>2. ReadSwr(reader[r].page) /\ reader' = [reader EXCEPT ![r] = IdleReader]
          /\ UNCHANGED <<persisted, pass, due, crashes>>
        BY <1>4 DEF ReadPage
    <2>3. StoreInv' /\ FlightInv'
        BY <1>0, <2>1, <2>2, ReadFacts
    <2>4. RequestsInv'
        BY <1>0, <2>2, IdleFacts DEF RequestsInv
    <2>5. QED
        BY <2>3, <2>4 DEF DirectoryInv
<1>5. ASSUME NEW k \in Others, ReadOther(k)
      PROVE  DirectoryInv'
    <2>1. StoreInv' /\ FlightInv'
        BY <1>0, <1>5, ReadFacts DEF ReadOther
    <2>2. RequestsInv'
        BY <1>0, <1>5 DEF ReadOther, RequestsInv
    <2>3. QED
        BY <2>1, <2>2 DEF DirectoryInv
<1>6. ASSUME NEW b \in builds, BuildStep(b)
      PROVE  DirectoryInv'
    <2>0. b \in Build
        BY <1>0 DEF FlightInv
    <2>1. CASE BuildAdopts(b)
        <3>1. b.key \in Pages /\ Usable(b.key) /\ Loaded(b, persisted[b.key], STALE, FRESH)
            BY <2>1 DEF BuildAdopts
        <3>2. persisted[b.key] \in 0 .. OldAge
            BY <1>0, <3>1 DEF RequestsInv, Usable
        <3>3. QED
            BY <3>1, <3>2, LoadedFacts
    <2>2. CASE BuildLooks(b) \/ BuildComputes(b)
        <3>1. \E step \in {"compute", "persist", "return"} : Becomes(b, step, 0)
            BY <2>2 DEF BuildLooks, BuildComputes
        <3>2. FlightInv' /\ StoreInv'
            BY <1>0, <2>2, <3>1, BecomesFacts, UntouchedStore DEF BuildLooks, BuildComputes
        <3>3. RequestsInv'
            BY <1>0, <2>2 DEF RequestsInv, BuildLooks, BuildComputes
        <3>4. QED
            BY <3>2, <3>3 DEF DirectoryInv
    <2>3. CASE BuildPersists(b)
        <3>1. b.age \in 0 .. OldAge /\ Becomes(b, "return", b.age)
            BY <2>0, <2>3 DEF BuildPersists, Build
        <3>2. FlightInv' /\ StoreInv'
            BY <1>0, <2>3, <3>1, BecomesFacts, UntouchedStore DEF BuildPersists
        <3>3. RequestsInv'
            BY <1>0, <2>3 DEF RequestsInv, BuildPersists
        <3>4. QED
            BY <3>2, <3>3 DEF DirectoryInv
    <2>4. CASE BuildReturns(b)
        <3>1. CASE Loaded(b, b.age, STALE, FRESH)
            BY <2>0, <3>1, LoadedFacts DEF Build
        <3>2. CASE Loaded(b, 0, OtherTtl, OtherTtl)
            BY <3>2, LoadedFacts
        <3>3. QED
            BY <2>4, <3>1, <3>2 DEF BuildReturns
    <2>5. CASE BuildFails(b)
        <3>1. End(b) /\ PassAfter(b, FALSE) /\ UNCHANGED <<store, used, persisted, reader, due, crashes>>
            BY <2>5 DEF BuildFails
        <3>2. FlightInv' /\ StoreInv'
            BY <1>0, <3>1, EndFacts, UntouchedStore
        <3>3. pass' = pass \/ pass' = IdlePass
            BY <3>1 DEF PassAfter
        <3>4. RequestsInv'
            BY <1>0, <3>1, <3>3, IdleFacts DEF RequestsInv
        <3>5. QED
            BY <3>2, <3>4 DEF DirectoryInv
    <2>6. QED
        BY <1>6, <2>1, <2>2, <2>3, <2>4, <2>5 DEF BuildStep
<1>7. CASE PassStart
    <2>1. StoreInv' /\ FlightInv'
        BY <1>0, <1>7, UntouchedStore, UntouchedFlight DEF PassStart
    <2>2. RequestsInv'
        BY <1>0, <1>7 DEF PassStart, RequestsInv
    <2>3. QED
        BY <2>1, <2>2 DEF DirectoryInv
<1>8. CASE PassRefresh
    <2> DEFINE k == Head(pass.todo)
    <2>1. /\ pass.todo # <<>>
          /\ StartUnless(k)
          /\ pass' = [pass EXCEPT !.awaits = inflight'[k]]
          /\ UNCHANGED <<store, used, persisted, reader, due, crashes>>
        BY <1>8 DEF PassRefresh
    <2>2. k \in Keys
        BY <1>0, <2>1 DEF RequestsInv
    <2> HIDE DEF k
    <2>3. StoreInv' /\ FlightInv'
        BY <1>0, <2>1, <2>2, StartFacts, UntouchedStore
    <2>4. inflight'[k] \in Slot \cup {None}
        BY <2>2, <2>3 DEF FlightInv
    <2>5. pass' \in [todo : Seq(Pages), awaits : Slot \cup {None}]
        BY <1>0, <2>1, <2>4 DEF RequestsInv
    <2>6. QED
        BY <1>0, <2>1, <2>3, <2>5 DEF DirectoryInv, RequestsInv
<1>9. CASE Tick
    <2>1. StoreInv' /\ FlightInv'
        BY <1>0, <1>9, TickStore, TickFlight DEF Tick
    <2>2. \A row \in 0 .. OldAge \cup {NoRow} :
              /\ AgedRow(row) \in 0 .. OldAge \cup {NoRow}
              /\ row # NoRow => AgedRow(row) # NoRow
        BY OlderFacts DEF AgedRow, NoRow
    <2>3. RequestsInv'
        <3>1. /\ persisted' = [k \in Pages |-> AgedRow(persisted[k])]
              /\ reader' = [r \in Readers |-> [reader[r] EXCEPT !.row = AgedRow(reader[r].row)]]
              /\ due' = TRUE
              /\ UNCHANGED <<pass, crashes>>
            BY <1>9 DEF Tick
        <3>2. persisted' \in [Pages -> 0 .. OldAge \cup {NoRow}]
            BY <1>0, <2>2, <3>1 DEF RequestsInv
        <3>3. /\ reader' \in [Readers -> [step : {"idle", "seed", "adopt", "read"}, page : Pages,
                                          row : 0 .. OldAge \cup {NoRow}]]
              /\ \A r \in Readers : reader'[r].step = "adopt" => reader'[r].row # NoRow
            <4> DEFINE Grown(r) == [reader[r] EXCEPT !.row = AgedRow(reader[r].row)]
            <4>1. ASSUME NEW r \in Readers
                  PROVE  /\ Grown(r) \in [step : {"idle", "seed", "adopt", "read"}, page : Pages,
                                          row : 0 .. OldAge \cup {NoRow}]
                         /\ Grown(r).step = "adopt" => Grown(r).row # NoRow
                BY <1>0, <2>2 DEF RequestsInv
            <4> HIDE DEF Grown
            <4>2. reader' = [r \in Readers |-> Grown(r)]
                BY <3>1 DEF Grown
            <4>3. QED
                BY <4>1, <4>2
        <3>4. QED
            BY <1>0, <3>1, <3>2, <3>3 DEF RequestsInv
    <2>4. QED
        BY <2>1, <2>3 DEF DirectoryInv
<1>10. CASE Crash
    <2>1. /\ store' = [k \in Keys |-> Absent] /\ used' = {}
          /\ inflight' = [k \in Keys |-> None] /\ builds' = {}
          /\ reader' = [r \in Readers |-> IdleReader]
          /\ pass' = IdlePass /\ due' = TRUE
          /\ crashes < MaxCrashes /\ crashes' = crashes + 1
          /\ persisted' = persisted
        BY <1>10 DEF Crash
    <2>2. Hits' = {}
        BY <2>1 DEF Hits, Hit
    <2>3. FlightInv'
        BY <2>1, SlotFacts DEF FlightInv, InflightIs, SingleFlight
    <2>4. StoreInv'
        <3>1. StrictOrder(used', Hits') /\ Bounded'
            BY <2>1, <2>2, FS_EmptySet, CacheAssumption DEF StrictOrder, Bounded
        <3>2. (store \in [Keys -> Entry])' /\ SeedWithinTolerance'
            BY <2>1 DEF Entry, Absent, SeedWithinTolerance
        <3>3. QED
            BY <3>1, <3>2 DEF StoreInv
    <2>5. RequestsInv'
        <3>1. crashes' \in 0 .. MaxCrashes
            BY <1>0, <2>1 DEF RequestsInv
        <3>2. QED
            BY <1>0, <2>1, <3>1, IdleFacts DEF RequestsInv
    <2>6. QED
        BY <2>3, <2>4, <2>5 DEF DirectoryInv
<1>11. CASE UNCHANGED vars
    BY <1>0, <1>11, UntouchedStore, UntouchedFlight DEF vars, DirectoryInv, RequestsInv
<1>12. QED
    BY <1>1, <1>2, <1>3, <1>4, <1>5, <1>6, <1>7, <1>8, <1>9, <1>10, <1>11 DEF Next, ReaderStep

\* Whoever puts a page into the cache, a reader's seed, a computation or the pass: the
\* cache stays within API_CACHE_MAX_ENTRIES, no key is computed twice at once
\* (cache.ts:3-7, 124), and an adopted page is gone when the tolerance it was published
\* under has passed (cache.ts:138-143), for every number of keys and readers.
THEOREM CacheSound == Spec => []Inv
<1>1. DirectoryInv => Inv
    BY DEF DirectoryInv, StoreInv, FlightInv, RequestsInv, Inv, TypeOK, CacheTypeOK
<1>2. QED
    BY <1>1, DirectoryInit, DirectoryStep, PTL DEF Spec

\* What a step does to an entry: it stays, ages, goes, comes from a computation, or is
\* adopted where there was none.
StepOf(k) ==
    \/ store'[k] = store[k]
    \/ store'[k] = Aged(store[k])
    \/ store'[k] = Absent
    \/ store'[k].by = "load"
    \/ ~Hit(k)

LEMMA StepsOfEntries ==
    ASSUME DirectoryInv, [Next]_vars, NEW x \in Keys
    PROVE  StepOf(x)
<1> USE PageFacts DEF cache, requests
<1>0. StoreInv /\ FlightInv /\ RequestsInv
    BY DEF DirectoryInv
<1>1. ASSUME NEW b \in builds, NEW age \in 0 .. OldAge, NEW ttl \in Nat, NEW fresh \in Nat,
             Loaded(b, age, ttl, fresh)
      PROVE  StepOf(x)
    <2> DEFINE entry == [age |-> age, fresh |-> fresh, left |-> ttl, by |-> "load"]
    <2>1. b.key \in Keys /\ entry \in Entry /\ entry.by = "load" /\ Install(b.key, entry)
        BY <1>0, <1>1 DEF Loaded, FlightInv, Build, Entry
    <2> HIDE DEF entry
    <2>2. store'[x] \in {Absent, store[x]} \/ store'[x] = entry
        BY <1>0, <2>1, InstallFacts
    <2>3. QED
        BY <2>1, <2>2 DEF StepOf
<1>2. ASSUME NEW r \in Readers, Adopt(r)
      PROVE  StepOf(x)
    <2> DEFINE k == reader[r].page
               kept == Survivors(Hits \cup {k}, Touched(k))
    <2>1. UNCHANGED store \/ (SeedStill(k) /\ \E entry : Install(k, entry))
        BY <1>2 DEF Adopt
    <2>2. CASE UNCHANGED store
        BY <2>2 DEF StepOf
    <2>3. CASE SeedStill(k) /\ \E entry : Install(k, entry)
        <3>1. PICK entry : store' = [y \in Keys |-> IF y \notin kept THEN Absent
                                                  ELSE IF y = k THEN entry ELSE store[y]]
            BY <2>3 DEF Install
        <3>2. ~Hit(k)
            BY <2>3 DEF SeedStill, Occupied
        <3> HIDE DEF kept, k
        <3>3. x = k \/ store'[x] \in {Absent, store[x]}
            BY <3>1
        <3>4. QED
            BY <3>2, <3>3 DEF StepOf
    <2>4. QED
        BY <2>1, <2>2, <2>3
<1>3. CASE \E r \in Readers, k \in Pages : Ask(r, k)
    BY <1>3 DEF Ask, StepOf
<1>4. ASSUME NEW r \in Readers, ReadRow(r) \/ ReadPage(r)
      PROVE  StepOf(x)
    BY <1>4 DEF ReadRow, ReadPage, ReadSwr, StepOf
<1>5. CASE \E k \in Others : ReadOther(k)
    BY <1>5 DEF ReadOther, ReadThrough, StepOf
<1>6. ASSUME NEW b \in builds, BuildStep(b)
      PROVE  StepOf(x)
    <2>1. b \in Build
        BY <1>0 DEF FlightInv
    <2>2. CASE BuildAdopts(b)
        <3>1. Loaded(b, persisted[b.key], STALE, FRESH) /\ persisted[b.key] \in 0 .. OldAge
            BY <1>0, <2>2 DEF BuildAdopts, RequestsInv, Usable
        <3>2. QED
            BY <1>1, <3>1
    <2>3. CASE BuildReturns(b)
        <3>1. b.age \in 0 .. OldAge
            BY <2>1 DEF Build
        <3>2. Loaded(b, b.age, STALE, FRESH) \/ Loaded(b, 0, OtherTtl, OtherTtl)
            BY <2>3 DEF BuildReturns
        <3>3. QED
            BY <1>1, <3>1, <3>2
    <2>4. CASE BuildLooks(b) \/ BuildComputes(b) \/ BuildPersists(b) \/ BuildFails(b)
        BY <2>4 DEF BuildLooks, BuildComputes, BuildPersists, BuildFails, StepOf
    <2>5. QED
        BY <1>6, <2>2, <2>3, <2>4 DEF BuildStep
<1>7. CASE PassStart \/ PassRefresh
    BY <1>7 DEF PassStart, PassRefresh, StepOf
<1>8. CASE Tick
    BY <1>8 DEF Tick, CacheTick, StepOf
<1>9. CASE Crash
    BY <1>9 DEF Crash, StepOf
<1>10. CASE UNCHANGED vars
    BY <1>10 DEF vars, StepOf
<1>11. QED
    BY <1>2, <1>3, <1>4, <1>5, <1>6, <1>7, <1>8, <1>9, <1>10 DEF Next, ReaderStep

\* "A live entry is never older than a persisted one" (cache.ts:149-151): while a
\* persisted page takes its round trip the key may be filled, evicted and filled again,
\* and still no step puts an older value in the place of a newer one.
THEOREM SeedsNeverGoBack == Spec => SeedNeverOlder
<1>1. ASSUME DirectoryInv, [Next]_vars
      PROVE  [\A k \in Keys : (Hit(k) /\ store'[k].by = "seed") =>
                 store'[k] = Aged(store[k]) \/ store'[k].age <= store[k].age]_cache
    <2> SUFFICES ASSUME NEW k \in Keys, Hit(k), store'[k].by = "seed"
                 PROVE  store'[k] = Aged(store[k]) \/ store'[k].age <= store[k].age
        OBVIOUS
    <2>1. store'[k] = store[k] \/ store'[k] = Aged(store[k])
        <3>1. store'[k] # Absent
            BY DEF Absent
        <3>2. QED
            BY <1>1, <3>1, StepsOfEntries DEF StepOf
    <2>2. store[k].age \in Int
        BY <1>1 DEF DirectoryInv, StoreInv, Entry
    <2>3. QED
        BY <2>1, <2>2
<1>2. QED
    BY <1>1, DirectoryInit, DirectoryStep, PTL DEF Spec, SeedNeverOlder

----------------------------------------------------------------------------
(* The sampler of the chain head. *)

\* The marker is that of the youngest attempt, which has not settled: whoever settles
\* clears it.  Without a marker one attempt may be left of those before.
Marked ==
    IF marker = Never
    THEN \E a \in 0 .. HEAD_TIMEOUT : attempts \subseteq {a}
    ELSE /\ marker \in attempts /\ \A a \in attempts : marker <= a
         /\ \E a \in 0 .. HEAD_TIMEOUT : attempts \subseteq {marker, a}

\* A height is as old as its sample, or older by what an attempt may take; a load takes
\* one that is not stale, and a status keeps that of its load.
HeightsBounded ==
    /\ sampled = Never <=> height = Never
    /\ height <= sampled + HEAD_TIMEOUT
    /\ load.age = Never => load.height = Never
    /\ load.age <= STATUS_QUERY
    /\ load.height <= load.age + HEAD_STALE + HEAD_TIMEOUT
    /\ status.age = Never => status.height = Never
    /\ status.height <= status.age + STATUS_QUERY + HEAD_STALE + HEAD_TIMEOUT

HeadInv == HeadTypeOK /\ Marked /\ HeightsBounded

LEMMA BoundNat ==
    /\ Oldest \in Nat /\ HEAD_TIMEOUT \in Nat \ {0} /\ HEAD_STALE \in Nat
    /\ STATUS_QUERY \in Nat /\ STATUS_TTL \in Nat \ {0}
    /\ Oldest = HEAD_TIMEOUT + HEAD_STALE + STATUS_QUERY + STATUS_TTL + 1
BY ChainHeadAssumption DEF Oldest

LEMMA LaterFacts ==
    ASSUME NEW age \in HeadAge \cup {Never}
    PROVE  /\ Later(age) \in HeadAge \cup {Never}
           /\ Later(age) = Never <=> age = Never
           /\ age # Never => age <= Later(age) /\ Later(age) <= age + 1
           /\ age # Never /\ age < Oldest => Later(age) = age + 1
BY BoundNat DEF Later, HeadAge, Never

LEMMA HeadInvInit == HeadInit => HeadInv
BY BoundNat
DEF HeadInit, HeadInv, HeadTypeOK, Marked, HeightsBounded, NoStatus, HeadAge, Never

LEMMA SettledFacts ==
    ASSUME HeadInv, NEW a \in attempts, Settled(a)
    PROVE  /\ marker' = Never
           /\ attempts' \subseteq attempts
           /\ Marked'
<1>1. marker' = Never /\ attempts' = attempts \ {a}
    BY DEF Settled
<1>2. \E b \in 0 .. HEAD_TIMEOUT : attempts' \subseteq {b}
    <2>1. CASE marker = Never
        BY <1>1, <2>1 DEF HeadInv, Marked
    <2>2. CASE marker # Never
        <3>1. PICK b \in 0 .. HEAD_TIMEOUT : attempts \subseteq {marker, b}
            BY <2>2 DEF HeadInv, Marked
        <3>2. marker \in 0 .. HEAD_TIMEOUT
            BY <2>2 DEF HeadInv, Marked, HeadTypeOK
        <3>3. CASE a = b
            BY <1>1, <3>1, <3>2, <3>3
        <3>4. CASE a # b
            BY <1>1, <3>1, <3>4
        <3>5. QED
            BY <3>3, <3>4
    <2>3. QED
        BY <2>1, <2>2
<1>3. QED
    BY <1>1, <1>2 DEF Marked

LEMMA HeadInvStep == HeadInv /\ [HeadNext]_headVars => HeadInv'
<1> SUFFICES ASSUME HeadInv, [HeadNext]_headVars PROVE HeadInv'
    OBVIOUS
<1> USE BoundNat DEF HeadAge, Never
<1>0. HeadTypeOK /\ Marked /\ HeightsBounded
    BY DEF HeadInv
<1>1. CASE Refresh
    <2>u. /\ sampleDue' = FALSE
          /\ UNCHANGED <<sampled, height, load, status>>
          /\ \/ UNCHANGED <<marker, attempts>>
             \/ marker' = 0 /\ attempts' = attempts \cup {0}
        BY <1>1 DEF Refresh
    <2>1. HeadTypeOK' /\ HeightsBounded'
        <3>1. /\ marker' \in HeadAge \cup {Never}
              /\ attempts' \subseteq 0 .. HEAD_TIMEOUT
            <4>1. 0 \in HeadAge /\ 0 \in 0 .. HEAD_TIMEOUT
                OBVIOUS
            <4> HIDE DEF HeadAge
            <4>2. QED
                BY <1>0, <2>u, <4>1 DEF HeadTypeOK
        <3>2. QED
            BY <1>0, <2>u, <3>1 DEF HeadTypeOK, HeightsBounded
    <2>2. CASE InFlight
        <3>1. UNCHANGED <<marker, attempts>>
            BY <1>1, <2>2 DEF Refresh
        <3>2. Marked'
            BY <1>0, <3>1 DEF Marked
        <3>3. QED
            BY <2>1, <3>2 DEF HeadInv
    <2>3. CASE ~InFlight
        <3>1. marker' = 0 /\ attempts' = attempts \cup {0}
            BY <1>1, <2>3 DEF Refresh
        <3>2. \A a \in attempts : a \in 0 .. HEAD_TIMEOUT
            BY <1>0 DEF HeadTypeOK
        <3>3. \E a \in 0 .. HEAD_TIMEOUT : attempts \subseteq {a}
            <4>1. CASE marker = Never
                BY <1>0, <4>1 DEF Marked
            <4>2. CASE marker # Never
                <5>1. marker \in attempts /\ ~(marker < HEAD_TIMEOUT)
                    BY <1>0, <2>3, <4>2 DEF Marked, InFlight
                <5>2. \A a \in attempts : a = HEAD_TIMEOUT
                    BY <1>0, <3>2, <4>2, <5>1 DEF Marked
                <5>3. QED
                    BY <5>2
            <4>3. QED
                BY <4>1, <4>2
        <3>4. Marked'
            BY <3>1, <3>2, <3>3 DEF Marked
        <3>5. QED
            BY <2>1, <3>4 DEF HeadInv
    <2>4. QED
        BY <2>2, <2>3
<1>2. ASSUME NEW a \in attempts, Answer(a)
      PROVE  HeadInv'
    <2>1. PICK answer \in 0 .. a : height' = answer /\ sampled' = 0
        BY <1>2 DEF Answer, Taken
    <2>2. a \in 0 .. HEAD_TIMEOUT
        BY <1>0 DEF HeadTypeOK
    <2>3. marker' = Never /\ attempts' \subseteq attempts /\ Marked'
        BY <1>2, SettledFacts DEF Answer
    <2>4. UNCHANGED <<sampleDue, load, status>>
        BY <1>2 DEF Answer
    <2>5. answer \in HeadAge /\ answer <= 0 + HEAD_TIMEOUT
        BY <2>2
    <2>6. HeadTypeOK'
        BY <1>0, <2>1, <2>3, <2>4, <2>5 DEF HeadTypeOK
    <2>7. HeightsBounded'
        BY <1>0, <2>1, <2>4, <2>5 DEF HeightsBounded
    <2>8. QED
        BY <2>3, <2>6, <2>7 DEF HeadInv
<1>3. ASSUME NEW a \in attempts, NoAnswer(a)
      PROVE  HeadInv'
    <2>1. marker' = Never /\ attempts' \subseteq attempts /\ Marked'
        BY <1>3, SettledFacts DEF NoAnswer
    <2>2. UNCHANGED <<sampleDue, sampled, height, load, status>>
        BY <1>3 DEF NoAnswer
    <2>3. QED
        BY <1>0, <2>1, <2>2 DEF HeadInv, HeadTypeOK, HeightsBounded
<1>4. CASE LoadStart
    <2>1. load' = [age |-> 0, height |-> Current]
        BY <1>4 DEF LoadStart
    <2>2. UNCHANGED <<marker, attempts, sampleDue, sampled, height, status>>
        BY <1>4 DEF LoadStart
    <2>3. /\ Current \in HeadAge \cup {Never}
          /\ Current <= 0 + HEAD_STALE + HEAD_TIMEOUT
        BY <1>0 DEF Current, HeadTypeOK, HeightsBounded
    <2>4. HeadTypeOK' /\ HeightsBounded'
        BY <1>0, <2>1, <2>2, <2>3 DEF HeadTypeOK, HeightsBounded
    <2>5. Marked'
        BY <1>0, <2>2 DEF Marked
    <2>6. QED
        BY <2>4, <2>5 DEF HeadInv
<1>5. CASE LoadEnd
    <2>1. /\ load # NoStatus /\ load' = NoStatus
          /\ \/ status' = [age |-> 0, height |-> load.height]
             \/ status' = status
        BY <1>5 DEF LoadEnd
    <2>2. UNCHANGED <<marker, attempts, sampleDue, sampled, height>>
        BY <1>5 DEF LoadEnd
    <2>3. load.height <= 0 + STATUS_QUERY + HEAD_STALE + HEAD_TIMEOUT
        BY <1>0 DEF HeightsBounded, HeadTypeOK
    <2>4. HeadTypeOK' /\ HeightsBounded'
        BY <1>0, <2>1, <2>2, <2>3 DEF HeadTypeOK, HeightsBounded, NoStatus
    <2>5. Marked'
        BY <1>0, <2>2 DEF Marked
    <2>6. QED
        BY <2>4, <2>5 DEF HeadInv
<1>6. CASE HeadTick
    <2>1. /\ \A a \in attempts : a < HEAD_TIMEOUT
          /\ load # NoStatus => load.age < STATUS_QUERY
          /\ sampleDue' = TRUE
          /\ marker' = Later(marker)
          /\ attempts' = {a + 1 : a \in attempts}
          /\ sampled' = Later(sampled) /\ height' = Later(height)
          /\ load' = [age |-> Later(load.age), height |-> Later(load.height)]
          /\ status' = [age |-> Later(status.age), height |-> Later(status.height)]
        BY <1>6 DEF HeadTick, Within
    <2>2. \A a \in attempts : a + 1 \in 1 .. HEAD_TIMEOUT
        BY <1>0, <2>1 DEF HeadTypeOK
    <2>3. HeadTypeOK'
        BY <1>0, <2>1, <2>2, LaterFacts DEF HeadTypeOK
    <2>4. Marked'
        <3>1. CASE marker = Never
            <4>1. PICK a \in 0 .. HEAD_TIMEOUT : attempts \subseteq {a}
                BY <1>0, <3>1 DEF Marked
            <4>2. CASE attempts = {}
                BY <2>1, <3>1, <4>2 DEF Marked, Later
            <4>3. CASE attempts = {a}
                <5>1. attempts' = {a + 1} /\ a + 1 \in 0 .. HEAD_TIMEOUT
                    BY <2>1, <2>2, <4>3
                <5>2. marker' = Never
                    BY <2>1, <3>1 DEF Later
                <5>3. QED
                    BY <5>1, <5>2 DEF Marked
            <4>4. QED
                BY <4>1, <4>2, <4>3
        <3>2. CASE marker # Never
            <4>1. PICK a \in 0 .. HEAD_TIMEOUT : attempts \subseteq {marker, a}
                BY <1>0, <3>2 DEF Marked
            <4>2. marker \in attempts /\ \A b \in attempts : marker <= b
                BY <1>0, <3>2 DEF Marked
            <4>3. marker' = marker + 1
                BY <1>0, <2>1, <3>2, <4>2, LaterFacts DEF HeadTypeOK
            <4>4. marker' \in attempts' /\ \A b \in attempts' : marker' <= b
                BY <1>0, <2>1, <4>2, <4>3 DEF HeadTypeOK
            <4>5. marker' # Never
                BY <1>0, <4>2, <4>3 DEF HeadTypeOK
            <4>6. CASE a \in attempts
                <5>1. a + 1 \in 0 .. HEAD_TIMEOUT /\ attempts' \subseteq {marker', a + 1}
                    BY <2>1, <2>2, <4>1, <4>3, <4>6
                <5>2. QED
                    BY <4>4, <4>5, <5>1 DEF Marked
            <4>7. CASE a \notin attempts
                <5>1. attempts' \subseteq {marker', a}
                    BY <2>1, <4>1, <4>3, <4>7
                <5>2. QED
                    BY <4>4, <4>5, <5>1 DEF Marked
            <4>8. QED
                BY <4>6, <4>7
        <3>3. QED
            BY <3>1, <3>2
    <2>5. HeightsBounded'
        <3>1. /\ sampled' = Never <=> height' = Never
              /\ height' <= sampled' + HEAD_TIMEOUT
            BY <1>0, <2>1, LaterFacts DEF HeadTypeOK, HeightsBounded
        <3>2. /\ load'.age = Never => load'.height = Never
              /\ load'.age <= STATUS_QUERY
              /\ load'.height <= load'.age + HEAD_STALE + HEAD_TIMEOUT
            BY <1>0, <2>1, LaterFacts DEF HeadTypeOK, HeightsBounded, NoStatus
        <3>3. /\ status'.age = Never => status'.height = Never
              /\ status'.height <= status'.age + STATUS_QUERY + HEAD_STALE + HEAD_TIMEOUT
            BY <1>0, <2>1, LaterFacts DEF HeadTypeOK, HeightsBounded
        <3>4. QED
            BY <3>1, <3>2, <3>3 DEF HeightsBounded
    <2>6. QED
        BY <2>3, <2>4, <2>5 DEF HeadInv
<1>7. CASE UNCHANGED headVars
    BY <1>0, <1>7 DEF headVars, HeadInv, HeadTypeOK, Marked, HeightsBounded
<1>8. QED
    BY <1>1, <1>2, <1>3, <1>4, <1>5, <1>6, <1>7 DEF HeadNext

\* Two names are enough for the attempts, so there are no more than two.
LEMMA MarkedMeansTwo == HeadInv => TwoAtOnce
<1> SUFFICES ASSUME HeadInv PROVE Cardinality(attempts) <= 2
    BY DEF TwoAtOnce
<1>1. PICK a, b : attempts \subseteq {a, b}
    BY DEF HeadInv, Marked
<1>2. IsFiniteSet({a}) /\ Cardinality({a}) = 1
    BY FS_Singleton
<1>3. {a, b} = {a} \cup {b}
    OBVIOUS
<1>4. IsFiniteSet({a, b}) /\ Cardinality({a, b}) <= 2
    BY <1>2, <1>3, FS_AddElement
<1>5. /\ Cardinality(attempts) \in Nat /\ Cardinality({a, b}) \in Nat
      /\ Cardinality(attempts) <= Cardinality({a, b})
    BY <1>1, <1>4, FS_Subset, FS_CardinalityType
<1>6. QED
    BY <1>4, <1>5

\* What the API says of the chain head (chainHeadSampler.ts:33-34, 52): however attempts
\* time out, answer late or clear one another's marker, no more than two are in flight,
\* and what /indexer reports as sampled was the node's head at most a timeout, a
\* staleness, a query and a ttl ago.
THEOREM HeadIsRecent == HeadSpec => []HeadSound
<1>1. HeadInv => HeadSound
    BY MarkedMeansTwo, BoundNat
    DEF HeadInv, HeadSound, HeightsBounded, ReportedRecent, HeadTypeOK, HeadAge, Never
<1>2. QED
    BY <1>1, HeadInvInit, HeadInvStep, PTL DEF HeadSpec

----------------------------------------------------------------------------
(* The live feeds. *)

\* What the API believes is there.
Behind ==
    /\ seen <= landed
    /\ lastHead <= pushed /\ pushed <= landed
    /\ probe # Nothing => probe <= landed

\* A page shows at least the head it is kept for.
PagesServe ==
    /\ \A h \in Height : feed[h] # Nothing => h <= feed[h]
    /\ \A u \in URL : edge[u] # Nothing => u <= edge[u]

\* A head a tab may ask with has landed, and either this process has pushed it or every
\* page the process keeps has it: what it kept before a restart is gone.
KnownAt(h, there, mark, pages) ==
    /\ h <= there
    /\ h <= mark \/ \A g \in Height : pages[g] # Nothing => h <= pages[g]
Known(h) == KnownAt(h, landed, pushed, feed)

TabKnows(tab) ==
    /\ Known(tab.wire) /\ Known(tab.head)
    /\ tab.fetch # Nothing => Known(tab.fetch)
    /\ tab.reply # Nothing => tab.fetch # Nothing /\ tab.fetch <= tab.reply
    /\ tab.url <= tab.screen

FeedInv ==
    /\ FeedTypeOK
    /\ Behind
    /\ PagesServe
    /\ \A t \in Tabs : TabKnows(tabs[t])

LEMMA HeightNat ==
    /\ Nothing = -1 /\ Plain = 0 /\ Plain \in Height /\ URL = Height
    /\ \A h \in Height : h \in Nat /\ h # Nothing
    /\ \A h \in Height \cup {Nothing} : h \in Int /\ (h # Nothing => h \in Height)
    /\ \A g, h \in Height : Max2(g, h) \in Height /\ g <= Max2(g, h) /\ h <= Max2(g, h)
BY FeedAssumption DEF Nothing, Plain, URL, Height, Max2

\* Values of the fields of a tab.
LEMMA TabFacts ==
    ASSUME NEW tab \in Tab
    PROVE  /\ tab.wire \in Height /\ tab.head \in Height /\ tab.owed \in Height
           /\ tab.fetch \in Height \cup {Nothing} /\ tab.reply \in Height \cup {Nothing}
           /\ tab.url \in Height /\ tab.screen \in Height
           /\ tab.open \in BOOLEAN /\ tab.hidden \in BOOLEAN
BY DEF Tab, URL

LEMMA RefetchFacts ==
    ASSUME NEW tab \in Tab
    PROVE  /\ Refetch(tab) \in Tab
           /\ Refetch(tab).fetch \in {tab.head, Plain} /\ Refetch(tab).reply = Nothing
           /\ Refetch(tab).wire = tab.wire /\ Refetch(tab).head = tab.head
           /\ Refetch(tab).url = tab.url /\ Refetch(tab).screen = tab.screen
<1>1. Url(tab) \in {tab.head, Plain} /\ Url(tab) \in URL
    BY TabFacts, HeightNat DEF Url
<1>2. Refetch(tab) = [tab EXCEPT !.fetch = Url(tab), !.reply = Nothing]
    BY DEF Refetch
<1> HIDE DEF Refetch
<1>3. QED
    BY <1>1, <1>2 DEF Tab

LEMMA DispatchFacts ==
    ASSUME NEW tab \in Tab
    PROVE  /\ Dispatch(tab) \in Tab
           /\ \/ Dispatch(tab).fetch = tab.fetch /\ Dispatch(tab).reply = tab.reply
              \/ Dispatch(tab).fetch \in {tab.head, Plain} /\ Dispatch(tab).reply = Nothing
           /\ Dispatch(tab).wire = tab.wire /\ Dispatch(tab).head = tab.head
           /\ Dispatch(tab).url = tab.url /\ Dispatch(tab).screen = tab.screen
<1> DEFINE owing == [tab EXCEPT !.owed = tab.head]
           paid == [tab EXCEPT !.owed = 0]
<1>1. /\ owing \in Tab /\ owing.fetch = tab.fetch /\ owing.reply = tab.reply
      /\ owing.wire = tab.wire /\ owing.head = tab.head
      /\ owing.url = tab.url /\ owing.screen = tab.screen
    BY TabFacts DEF Tab
<1>2. /\ paid \in Tab /\ paid.wire = tab.wire /\ paid.head = tab.head
      /\ paid.url = tab.url /\ paid.screen = tab.screen
    BY HeightNat DEF Tab, Plain
<1>3. Dispatch(tab) = IF tab.hidden THEN owing ELSE Refetch(paid)
    BY DEF Dispatch
<1> HIDE DEF owing, paid
<1>4. QED
    BY <1>1, <1>2, <1>3, RefetchFacts

LEMMA FeedInvInit == FeedInit => FeedInv
<1> SUFFICES ASSUME FeedInit PROVE FeedInv
    OBVIOUS
<1> USE HeightNat
<1>1. NewTab \in Tab
    BY DEF NewTab, Tab, Plain, URL
<1>2. FeedTypeOK
    BY <1>1, FeedAssumption DEF FeedInit, FeedTypeOK, Plain
<1>3. \A t \in Tabs : TabKnows(tabs[t])
    BY DEF FeedInit, TabKnows, Known, KnownAt, NewTab
<1>4. Behind /\ PagesServe
    BY DEF FeedInit, Behind, PagesServe
<1>5. QED
    BY <1>2, <1>3, <1>4 DEF FeedInv

\* What the API believes in, and the page it makes of it.
LEMMA PageServes ==
    ASSUME FeedInv
    PROVE  /\ Believed \in Height /\ Page \in Height
           /\ pushed <= Believed /\ Believed <= landed /\ Believed <= Page
           /\ \A h \in Height : Known(h) => h <= Page
<1> USE HeightNat
<1>1. /\ landed \in Height /\ seen \in Height /\ pushed \in Height
      /\ probe \in Height \cup {Nothing} /\ feed \in [Height -> Height \cup {Nothing}]
    BY DEF FeedInv, FeedTypeOK
<1>2. Probed \in Height /\ Probed <= landed
    BY <1>1 DEF Probed, FeedInv, Behind
<1>3. Believed \in Height /\ pushed <= Believed /\ Believed <= landed
    BY <1>1, <1>2 DEF Believed, Max2, FeedInv, Behind
<1>4. feed[Believed] \in Height \cup {Nothing} /\ (feed[Believed] # Nothing => Believed <= feed[Believed])
    BY <1>1, <1>3 DEF FeedInv, PagesServe
<1>5. Page \in Height /\ Believed <= Page
    BY <1>1, <1>3, <1>4 DEF Page
<1>6. ASSUME NEW h \in Height, Known(h)
      PROVE  h <= Page
    <2>1. CASE feed[Believed] = Nothing
        BY <1>6, <2>1 DEF Known, KnownAt, Page
    <2>2. CASE feed[Believed] # Nothing /\ h <= pushed
        <3>1. h <= Believed
            BY <1>1, <1>3, <2>2
        <3>2. QED
            BY <1>3, <1>5, <3>1
    <2>3. CASE feed[Believed] # Nothing /\ \A g \in Height : feed[g] # Nothing => h <= feed[g]
        BY <1>3, <2>3 DEF Page
    <2>4. QED
        BY <1>6, <2>1, <2>2, <2>3 DEF Known, KnownAt
<1>7. QED
    BY <1>3, <1>5, <1>6

\* A head that is known stays known, through restarts and rollbacks.
LEMMA KnownKept ==
    ASSUME FeedInv, [FeedNext]_feedVars, NEW h \in Height, Known(h)
    PROVE  KnownAt(h, landed', pushed', feed')
<1> USE HeightNat DEF server, caches
<1>1. /\ landed \in Height /\ seen \in Height /\ pushed \in Height
      /\ feed \in [Height -> Height \cup {Nothing}]
    BY DEF FeedInv, FeedTypeOK
<1>2. CASE Ingest
    <2>1. seen + 1 \in Height
        BY <1>1, <1>2, FeedAssumption DEF Ingest, Height
    <2>2. landed <= landed' /\ landed' \in Height
        BY <1>1, <1>2, <2>1 DEF Ingest
    <2>3. QED
        BY <1>1, <1>2, <2>2 DEF Ingest, Known, KnownAt
<1>3. CASE PollPushes
    <2>1. pushed <= pushed' /\ pushed' \in Height
        BY <1>1, <1>3 DEF PollPushes
    <2>2. QED
        BY <1>1, <1>3, <2>1 DEF PollPushes, Known, KnownAt
<1>4. CASE Restart
    BY <1>4 DEF Restart, Known, KnownAt
<1>5. ASSUME NEW u \in URL, Serve(u)
      PROVE  KnownAt(h, landed', pushed', feed')
    <2>1. /\ feed' = [feed EXCEPT ![Believed] = Page] /\ UNCHANGED <<landed, pushed>>
        BY <1>5 DEF Serve
    <2>2. h <= Page
        BY PageServes
    <2>3. \A g \in Height : feed'[g] = IF g = Believed THEN Page ELSE feed[g]
        BY <1>1, <2>1
    <2>4. QED
        BY <2>1, <2>2, <2>3 DEF Known, KnownAt
<1>6. ASSUME NEW g \in URL, FeedExpires(g)
      PROVE  KnownAt(h, landed', pushed', feed')
    BY <1>1, <1>6 DEF FeedExpires, Known, KnownAt
<1>7. CASE UNCHANGED <<landed, pushed, feed>>
    BY <1>7 DEF Known, KnownAt
<1>8. CASE Rollback \/ ProbeExpires \/ (\E u \in URL : EdgeExpires(u)) \/ \E t \in Tabs : TabStep(t)
    BY <1>7, <1>8 DEF Rollback, ProbeExpires, EdgeExpires, TabStep, Connect, Refused, Drop, Hear, Hide, Show,
        Poll, EdgeHit, Receive
<1>9. CASE UNCHANGED feedVars
    BY <1>7, <1>9 DEF feedVars
<1>10. QED
    BY <1>2, <1>3, <1>4, <1>5, <1>6, <1>8, <1>9 DEF FeedNext

LEMMA PlainKnown == FeedInv => Known(Plain)
BY HeightNat DEF FeedInv, FeedTypeOK, Known, KnownAt

\* A tab that asks for nothing new, or for what it knows, knows what it did.
LEMMA TabKept ==
    ASSUME FeedInv, [FeedNext]_feedVars, FeedTypeOK', NEW t \in Tabs,
           tabs'[t].wire \in {tabs[t].wire, Plain, lastHead} \/ KnownAt(tabs'[t].wire, landed', pushed', feed'),
           tabs'[t].head \in {tabs[t].head, tabs[t].wire},
           \/ /\ tabs'[t].fetch = tabs[t].fetch
              /\ \/ tabs'[t].reply = tabs[t].reply
                 \/ tabs[t].fetch # Nothing /\ tabs[t].fetch <= tabs'[t].reply
           \/ tabs'[t].fetch \in {tabs[t].head, tabs[t].wire, Plain, Nothing} /\ tabs'[t].reply = Nothing,
           \/ tabs'[t].url = tabs[t].url /\ tabs'[t].screen = tabs[t].screen
           \/ tabs'[t].url <= tabs'[t].screen
    PROVE  TabKnows(tabs[t])'
<1> USE HeightNat
<1>1. tabs[t] \in Tab /\ tabs'[t] \in Tab /\ TabKnows(tabs[t]) /\ lastHead \in Height
    BY DEF FeedInv, FeedTypeOK
<1>2. \A h \in {Plain, tabs[t].wire, tabs[t].head} : KnownAt(h, landed', pushed', feed')
    BY <1>1, TabFacts, PlainKnown, KnownKept DEF TabKnows
<1>3. tabs[t].fetch # Nothing => KnownAt(tabs[t].fetch, landed', pushed', feed')
    BY <1>1, TabFacts, KnownKept DEF TabKnows
<1>4. Known(lastHead) /\ KnownAt(lastHead, landed', pushed', feed')
    <2>1. Known(lastHead)
        BY DEF FeedInv, FeedTypeOK, Behind, Known, KnownAt
    <2>2. QED
        BY <1>1, <2>1, KnownKept
<1>5. QED
    BY <1>1, <1>2, <1>3, <1>4 DEF TabKnows, Known

LEMMA FeedTypeStep == FeedInv /\ [FeedNext]_feedVars => FeedTypeOK'
<1> SUFFICES ASSUME FeedInv, [FeedNext]_feedVars PROVE FeedTypeOK'
    OBVIOUS
<1> USE HeightNat DEF server, caches
<1>0. /\ landed \in Height /\ seen \in Height /\ lastHead \in Height /\ pushed \in Height
      /\ probe \in Height \cup {Nothing}
      /\ feed \in [Height -> Height \cup {Nothing}]
      /\ edge \in [URL -> Height \cup {Nothing}]
      /\ tabs \in [Tabs -> Tab]
      /\ faults \in 0 .. MaxFaults
    BY DEF FeedInv, FeedTypeOK
<1>a. faults < MaxFaults => faults + 1 \in 0 .. MaxFaults
    BY <1>0, FeedAssumption
<1>b. \A t \in Tabs : tabs[t] \in Tab
    BY <1>0
<1>1. CASE Ingest
    <2>1. seen + 1 \in Height
        BY <1>0, <1>1, FeedAssumption DEF Ingest, Height
    <2>2. QED
        BY <1>0, <1>1, <2>1 DEF Ingest, FeedTypeOK
<1>2. CASE Rollback
    <2>1. \A h \in 0 .. seen - 1 : h \in Height
        BY <1>0, FeedAssumption DEF Height
    <2>2. QED
        BY <1>0, <1>a, <1>2, <2>1 DEF Rollback, FeedTypeOK
<1>3. CASE PollPushes
    <2>1. \A t \in Tabs : [tabs[t] EXCEPT !.wire = seen] \in Tab
        BY <1>0, <1>b DEF Tab
    <2>2. tabs' \in [Tabs -> Tab]
        BY <1>b, <1>3, <2>1 DEF PollPushes
    <2>3. QED
        BY <1>0, <1>3, <2>2 DEF PollPushes, FeedTypeOK
<1>4. CASE Restart
    <2>1. \A t \in Tabs : [tabs[t] EXCEPT !.open = FALSE, !.wire = 0] \in Tab
        BY <1>b DEF Tab, Plain
    <2>2. tabs' \in [Tabs -> Tab] /\ feed' \in [Height -> Height \cup {Nothing}]
        BY <1>4, <2>1 DEF Restart
    <2>3. QED
        BY <1>0, <1>a, <1>4, <2>2 DEF Restart, FeedTypeOK, Plain
<1>5. CASE ProbeExpires \/ (\E u \in URL : FeedExpires(u) \/ EdgeExpires(u))
    BY <1>0, <1>5 DEF ProbeExpires, FeedExpires, EdgeExpires, FeedTypeOK
<1>6. ASSUME NEW u \in URL, Serve(u)
      PROVE  FeedTypeOK'
    <2>1. Page \in Height /\ Probed \in Height
        BY <1>0, PageServes DEF Probed
    <2>2. \A t \in Tabs : [tabs[t] EXCEPT !.reply = Page] \in Tab
        BY <1>b, <2>1 DEF Tab
    <2>3. tabs' \in [Tabs -> Tab]
        BY <1>b, <1>6, <2>2 DEF Serve
    <2>4. QED
        BY <1>0, <1>6, <2>1, <2>3 DEF Serve, FeedTypeOK
<1>7. ASSUME NEW t \in Tabs, TabStep(t)
      PROVE  FeedTypeOK'
    <2>1. tabs[t] \in Tab
        BY <1>b
    <2>2. CASE Connect(t)
        <3>1. [tabs[t] EXCEPT !.open = TRUE, !.wire = lastHead] \in Tab
            BY <1>0, <2>1 DEF Tab
        <3>2. QED
            BY <1>0, <2>2, <3>1 DEF Connect, FeedTypeOK
    <2>3. CASE Drop(t)
        <3>1. [tabs[t] EXCEPT !.open = FALSE, !.wire = 0] \in Tab
            BY <2>1 DEF Tab, Plain
        <3>2. QED
            BY <1>0, <1>a, <2>3, <3>1 DEF Drop, FeedTypeOK
    <2>4. CASE Hear(t)
        <3> DEFINE heard == [tabs[t] EXCEPT !.wire = 0]
                   told == [heard EXCEPT !.head = tabs[t].wire]
        <3>1. heard \in Tab
            BY <2>1 DEF Tab, Plain
        <3>2. told \in Tab
            BY <2>1, <3>1, TabFacts DEF Tab
        <3>3. tabs' = [tabs EXCEPT ![t] = IF tabs[t].wire <= tabs[t].head THEN heard ELSE Dispatch(told)]
            BY <2>4 DEF Hear
        <3>4. UNCHANGED <<landed, seen, lastHead, pushed, probe, feed, edge, faults>>
            BY <2>4 DEF Hear
        <3> HIDE DEF heard, told
        <3>5. QED
            BY <1>0, <3>1, <3>2, <3>3, <3>4, DispatchFacts DEF FeedTypeOK
    <2>5. CASE Hide(t)
        <3>1. [tabs[t] EXCEPT !.hidden = TRUE] \in Tab
            BY <2>1 DEF Tab
        <3>2. QED
            BY <1>0, <2>5, <3>1 DEF Hide, FeedTypeOK
    <2>6. CASE Show(t)
        <3> DEFINE shown == [tabs[t] EXCEPT !.hidden = FALSE, !.owed = 0]
        <3>1. shown \in Tab
            BY <2>1 DEF Tab, Plain
        <3>2. tabs' = [tabs EXCEPT ![t] = IF tabs[t].owed = 0 THEN shown ELSE Refetch(shown)]
            BY <2>6 DEF Show
        <3>3. UNCHANGED <<landed, seen, lastHead, pushed, probe, feed, edge, faults>>
            BY <2>6 DEF Show
        <3> HIDE DEF shown
        <3>4. QED
            BY <1>0, <3>1, <3>2, <3>3, RefetchFacts DEF FeedTypeOK
    <2>7. CASE Poll(t)
        <3>1. tabs' = [tabs EXCEPT ![t] = Refetch(tabs[t])]
            BY <2>7 DEF Poll
        <3>2. Refetch(tabs[t]) \in Tab
            BY <2>1, RefetchFacts
        <3>3. edge' \in [URL -> Height \cup {Nothing}]
            BY <1>0, <2>7 DEF Poll
        <3>4. UNCHANGED <<landed, seen, lastHead, pushed, probe, feed, faults>>
            BY <2>7 DEF Poll
        <3>5. QED
            BY <1>0, <3>1, <3>2, <3>3, <3>4 DEF FeedTypeOK
    <2>8. CASE EdgeHit(t)
        <3>1. PICK u \in URL : tabs[t].fetch = u /\ edge[u] # Nothing
            BY <2>8 DEF EdgeHit, Waiting
        <3>2. edge[tabs[t].fetch] \in Height
            BY <1>0, <3>1
        <3>3. [tabs[t] EXCEPT !.reply = edge[tabs[t].fetch]] \in Tab
            BY <2>1, <3>2 DEF Tab
        <3>4. QED
            BY <1>0, <2>8, <3>3 DEF EdgeHit, FeedTypeOK
    <2>9. CASE Receive(t)
        <3>1. TabKnows(tabs[t]) /\ tabs[t].reply # Nothing
            BY <2>9 DEF FeedInv, Receive
        <3>2. tabs[t].fetch \in Height /\ tabs[t].reply \in Height
            BY <2>1, <3>1, TabFacts DEF TabKnows
        <3>3. [tabs[t] EXCEPT !.url = tabs[t].fetch, !.screen = tabs[t].reply,
                              !.fetch = Nothing, !.reply = Nothing] \in Tab
            BY <2>1, <3>2 DEF Tab
        <3>4. tabs' = [tabs EXCEPT ![t] = [tabs[t] EXCEPT !.url = tabs[t].fetch, !.screen = tabs[t].reply,
                                                          !.fetch = Nothing, !.reply = Nothing]]
            BY <1>0, <2>9, <2>1 DEF Receive, Tab
        <3>5. UNCHANGED <<landed, seen, lastHead, pushed, probe, feed, edge, faults>>
            BY <2>9 DEF Receive
        <3>6. QED
            BY <1>0, <3>3, <3>4, <3>5 DEF FeedTypeOK
    <2>10. CASE Refused(t)
        <3>1. [tabs[t] EXCEPT !.closed = TRUE] \in Tab
            BY <2>1 DEF Tab
        <3>2. QED
            BY <1>0, <2>10, <3>1 DEF Refused, FeedTypeOK
    <2>11. QED
        BY <1>7, <2>2, <2>3, <2>4, <2>5, <2>6, <2>7, <2>8, <2>9, <2>10 DEF TabStep
<1>8. CASE UNCHANGED feedVars
    BY <1>0, <1>8 DEF feedVars, FeedTypeOK
<1>9. QED
    BY <1>1, <1>2, <1>3, <1>4, <1>5, <1>6, <1>7, <1>8 DEF FeedNext

LEMMA BehindStep == FeedInv /\ [FeedNext]_feedVars => Behind'
<1> SUFFICES ASSUME FeedInv, [FeedNext]_feedVars PROVE Behind'
    OBVIOUS
<1> USE HeightNat DEF server, caches
<1>0. /\ landed \in Height /\ seen \in Height /\ lastHead \in Height /\ pushed \in Height
      /\ probe \in Height \cup {Nothing} /\ Behind
    BY DEF FeedInv, FeedTypeOK
<1>1. CASE Ingest
    <2>1. seen + 1 \in Height
        BY <1>0, <1>1, FeedAssumption DEF Ingest, Height
    <2>2. landed' \in Height /\ landed <= landed' /\ seen' <= landed'
        BY <1>0, <1>1, <2>1 DEF Ingest
    <2>3. QED
        BY <1>0, <1>1, <2>2 DEF Ingest, Behind
<1>2. CASE Rollback
    BY <1>0, <1>2 DEF Rollback, Behind
<1>3. CASE PollPushes
    BY <1>0, <1>3 DEF PollPushes, Behind, Max2
<1>4. CASE Restart
    <2>1. lastHead' = 0 /\ pushed' = 0 /\ probe' = Nothing /\ UNCHANGED <<landed, seen>>
        BY <1>4 DEF Restart
    <2>2. landed \in Nat
        BY <1>0
    <2>3. QED
        BY <1>0, <2>1, <2>2 DEF Behind
<1>5. ASSUME NEW u \in URL, Serve(u)
      PROVE  Behind'
    <2>1. probe' = Probed /\ UNCHANGED <<landed, seen, lastHead, pushed>>
        BY <1>5 DEF Serve
    <2>2. Probed \in Height /\ Probed <= landed
        BY <1>0 DEF Probed, Behind
    <2>3. QED
        BY <1>0, <2>1, <2>2 DEF Behind
<1>6. CASE UNCHANGED <<landed, seen, lastHead, pushed>> /\ probe' \in {probe, Nothing}
    BY <1>0, <1>6 DEF Behind
<1>7. CASE ProbeExpires \/ (\E u \in URL : FeedExpires(u) \/ EdgeExpires(u)) \/ \E t \in Tabs : TabStep(t)
    BY <1>6, <1>7 DEF ProbeExpires, FeedExpires, EdgeExpires, TabStep, Connect, Refused, Drop, Hear, Hide, Show,
        Poll, EdgeHit, Receive
<1>8. QED
    BY <1>1, <1>2, <1>3, <1>4, <1>5, <1>6, <1>7 DEF FeedNext, feedVars

LEMMA PagesStep == FeedInv /\ [FeedNext]_feedVars => PagesServe'
<1> SUFFICES ASSUME FeedInv, [FeedNext]_feedVars PROVE PagesServe'
    OBVIOUS
<1> USE HeightNat DEF server, caches
<1>0. /\ feed \in [Height -> Height \cup {Nothing}] /\ edge \in [URL -> Height \cup {Nothing}]
      /\ PagesServe
    BY DEF FeedInv, FeedTypeOK
<1>1. ASSUME NEW u \in URL, Serve(u)
      PROVE  PagesServe'
    <2>1. feed' = [feed EXCEPT ![Believed] = Page] /\ edge' = [edge EXCEPT ![u] = Page]
        BY <1>1 DEF Serve
    <2>2. u <= Page
        <3>1. CASE u = Plain
            <4>1. Page \in Nat /\ u = 0
                BY <3>1, PageServes
            <4>2. QED
                BY <4>1
        <3>2. CASE Waiting(u) # {}
            <4>1. PICK t \in Tabs : tabs[t].fetch = u
                BY <3>2 DEF Waiting
            <4>2. Known(u)
                BY <4>1 DEF FeedInv, TabKnows
            <4>3. QED
                BY <4>2, PageServes
        <3>3. QED
            BY <1>1, <3>1, <3>2 DEF Serve
    <2>3. QED
        BY <1>0, <2>1, <2>2, PageServes DEF PagesServe
<1>2. CASE Restart
    BY <1>0, <1>2 DEF Restart, PagesServe
<1>3. ASSUME NEW u \in URL, FeedExpires(u) \/ EdgeExpires(u)
      PROVE  PagesServe'
    BY <1>0, <1>3 DEF FeedExpires, EdgeExpires, PagesServe
<1>4. ASSUME NEW t \in Tabs, Poll(t)
      PROVE  PagesServe'
    <2>1. feed' = feed /\ edge' = [edge EXCEPT ![Plain] = IF edge[Plain] < tabs[t].head THEN Nothing ELSE edge[Plain]]
        BY <1>4 DEF Poll
    <2>2. QED
        BY <1>0, <2>1 DEF PagesServe
<1>5. CASE UNCHANGED <<feed, edge>>
    BY <1>0, <1>5 DEF PagesServe
<1>6. CASE Ingest \/ Rollback \/ PollPushes \/ ProbeExpires \/ UNCHANGED feedVars
    BY <1>5, <1>6 DEF Ingest, Rollback, PollPushes, ProbeExpires, feedVars
<1>7. ASSUME NEW t \in Tabs, TabStep(t), ~Poll(t)
      PROVE  PagesServe'
    BY <1>5, <1>7 DEF TabStep, Connect, Refused, Drop, Hear, Hide, Show, EdgeHit, Receive
<1>8. QED
    BY <1>1, <1>2, <1>3, <1>4, <1>6, <1>7 DEF FeedNext

LEMMA TabsStep == FeedInv /\ [FeedNext]_feedVars => \A t \in Tabs : TabKnows(tabs[t])'
<1> SUFFICES ASSUME FeedInv, [FeedNext]_feedVars, NEW t \in Tabs PROVE TabKnows(tabs[t])'
    OBVIOUS
<1> USE HeightNat DEF server, caches
<1>0. FeedTypeOK' /\ Behind'
    BY FeedTypeStep, BehindStep
<1>1. tabs \in [Tabs -> Tab] /\ tabs[t] \in Tab
    BY DEF FeedInv, FeedTypeOK
<1> USE TabKept
<1>2. CASE UNCHANGED tabs
    BY <1>0, <1>2
<1>3. CASE PollPushes
    <2>1. tabs'[t] = tabs[t] \/ tabs'[t] = [tabs[t] EXCEPT !.wire = seen]
        BY <1>3 DEF PollPushes
    <2>2. KnownAt(seen, landed', pushed', feed')
        BY <1>0, <1>3 DEF PollPushes, KnownAt, FeedInv, FeedTypeOK, Behind
    <2>3. CASE tabs'[t] = tabs[t]
        BY <1>0, <2>3
    <2>4. CASE tabs'[t] = [tabs[t] EXCEPT !.wire = seen]
        BY <1>0, <1>1, <2>2, <2>4 DEF Tab
    <2>5. QED
        BY <2>1, <2>3, <2>4
<1>4. CASE Restart
    <2>1. tabs'[t] = [tabs[t] EXCEPT !.open = FALSE, !.wire = 0]
        BY <1>4 DEF Restart
    <2>2. QED
        BY <1>0, <1>1, <2>1 DEF Tab
<1>5. ASSUME NEW u \in URL, Serve(u)
      PROVE  TabKnows(tabs[t])'
    <2>1. CASE t \in Waiting(u)
        <3>1. tabs'[t] = [tabs[t] EXCEPT !.reply = Page]
            BY <1>5, <2>1 DEF Serve
        <3>2. tabs[t].fetch = u /\ Known(u)
            BY <2>1 DEF Waiting, FeedInv, TabKnows
        <3>3. u <= Page
            BY <3>2, PageServes
        <3>4. QED
            BY <1>0, <1>1, <3>1, <3>2, <3>3 DEF Tab
    <2>2. CASE t \notin Waiting(u)
        <3>1. tabs'[t] = tabs[t]
            BY <1>5, <2>2 DEF Serve
        <3>2. QED
            BY <1>0, <3>1
    <2>3. QED
        BY <2>1, <2>2
<1>6. ASSUME NEW x \in Tabs, TabStep(x), x # t
      PROVE  TabKnows(tabs[t])'
    <2>1. tabs'[t] = tabs[t]
        BY <1>1, <1>6 DEF TabStep, Connect, Refused, Drop, Hear, Hide, Show, Poll, EdgeHit, Receive
    <2>2. QED
        BY <1>0, <2>1
<1>7. CASE TabStep(t)
    <2>1. CASE Connect(t)
        <3>1. tabs'[t] = [tabs[t] EXCEPT !.open = TRUE, !.wire = lastHead]
            BY <1>1, <2>1 DEF Connect
        <3>2. QED
            BY <1>0, <1>1, <3>1 DEF Tab
    <2>2. CASE Drop(t)
        <3>1. tabs'[t] = [tabs[t] EXCEPT !.open = FALSE, !.wire = 0]
            BY <1>1, <2>2 DEF Drop
        <3>2. QED
            BY <1>0, <1>1, <3>1 DEF Tab
    <2>3. CASE Hear(t)
        <3> DEFINE heard == [tabs[t] EXCEPT !.wire = 0]
                   told == [heard EXCEPT !.head = tabs[t].wire]
        <3>1. /\ heard \in Tab /\ heard.wire = 0 /\ heard.head = tabs[t].head
              /\ heard.fetch = tabs[t].fetch /\ heard.reply = tabs[t].reply
              /\ heard.url = tabs[t].url /\ heard.screen = tabs[t].screen
            BY <1>1 DEF Tab, Plain
        <3>2. tabs'[t] = IF tabs[t].wire <= tabs[t].head THEN heard ELSE Dispatch(told)
            BY <1>1, <2>3 DEF Hear
        <3>3. /\ told \in Tab /\ told.wire = 0 /\ told.head = tabs[t].wire
              /\ told.fetch = tabs[t].fetch /\ told.reply = tabs[t].reply
              /\ told.url = tabs[t].url /\ told.screen = tabs[t].screen
            BY <1>1, <3>1, TabFacts DEF Tab, Plain
        <3> HIDE DEF heard, told
        <3>4. CASE tabs[t].wire <= tabs[t].head
            BY <1>0, <3>1, <3>2, <3>4
        <3>5. CASE ~(tabs[t].wire <= tabs[t].head)
            BY <1>0, <3>2, <3>3, <3>5, DispatchFacts
        <3>6. QED
            BY <3>4, <3>5
    <2>4. CASE Hide(t)
        <3>1. tabs'[t] = [tabs[t] EXCEPT !.hidden = TRUE]
            BY <1>1, <2>4 DEF Hide
        <3>2. QED
            BY <1>0, <1>1, <3>1 DEF Tab
    <2>5. CASE Show(t)
        <3> DEFINE shown == [tabs[t] EXCEPT !.hidden = FALSE, !.owed = 0]
        <3>1. /\ shown \in Tab /\ shown.wire = tabs[t].wire /\ shown.head = tabs[t].head
              /\ shown.fetch = tabs[t].fetch /\ shown.reply = tabs[t].reply
              /\ shown.url = tabs[t].url /\ shown.screen = tabs[t].screen
            BY <1>1 DEF Tab, Plain
        <3>2. tabs'[t] = IF tabs[t].owed = 0 THEN shown ELSE Refetch(shown)
            BY <1>1, <2>5 DEF Show
        <3> HIDE DEF shown
        <3>3. QED
            BY <1>0, <3>1, <3>2, RefetchFacts
    <2>6. CASE Poll(t)
        <3>1. tabs'[t] = Refetch(tabs[t])
            BY <1>1, <2>6 DEF Poll
        <3>2. QED
            BY <1>0, <1>1, <3>1, RefetchFacts
    <2>7. CASE EdgeHit(t)
        <3>1. PICK u \in URL : tabs[t].fetch = u /\ edge[u] # Nothing
            BY <2>7 DEF EdgeHit, Waiting
        <3>2. tabs'[t] = [tabs[t] EXCEPT !.reply = edge[tabs[t].fetch]]
            BY <1>1, <2>7 DEF EdgeHit
        <3>3. tabs[t].fetch # Nothing /\ tabs[t].fetch <= edge[tabs[t].fetch]
            BY <3>1 DEF FeedInv, PagesServe
        <3>4. QED
            BY <1>0, <1>1, <3>2, <3>3 DEF Tab
    <2>8. CASE Receive(t)
        <3>1. /\ tabs'[t].wire = tabs[t].wire /\ tabs'[t].head = tabs[t].head
              /\ tabs'[t].fetch = Nothing /\ tabs'[t].reply = Nothing
              /\ tabs'[t].url = tabs[t].fetch /\ tabs'[t].screen = tabs[t].reply
            BY <1>1, <2>8 DEF Receive, Tab
        <3>2. tabs[t].fetch <= tabs[t].reply
            BY <2>8 DEF Receive, FeedInv, TabKnows
        <3>3. QED
            BY <1>0, <3>1, <3>2
    <2>9. CASE Refused(t)
        <3>1. tabs'[t] = [tabs[t] EXCEPT !.closed = TRUE]
            BY <1>1, <2>9 DEF Refused
        <3>2. QED
            BY <1>0, <1>1, <3>1 DEF Tab
    <2>10. QED
        BY <1>7, <2>1, <2>2, <2>3, <2>4, <2>5, <2>6, <2>7, <2>8, <2>9 DEF TabStep
<1>8. CASE Ingest \/ Rollback \/ ProbeExpires \/ (\E u \in URL : FeedExpires(u) \/ EdgeExpires(u))
           \/ UNCHANGED feedVars
    BY <1>2, <1>8 DEF Ingest, Rollback, ProbeExpires, FeedExpires, EdgeExpires, feedVars
<1>9. QED
    BY <1>3, <1>4, <1>5, <1>6, <1>7, <1>8 DEF FeedNext

\* For every number of tabs, blocks and faults: no tab is ever shown a page from before
\* the head it asked with, whatever the probe, the feed cache, nginx, a restart of the API
\* or a rollback of the checkpoint hold against it.
THEOREM PushesServed == FeedSpec => []FeedSound
<1>1. FeedInv /\ [FeedNext]_feedVars => FeedInv'
    BY FeedTypeStep, BehindStep, PagesStep, TabsStep DEF FeedInv
<1>2. FeedInv => FeedSound
    BY DEF FeedInv, FeedSound, PushServed, TabKnows
<1>3. QED
    BY FeedInvInit, <1>1, <1>2, PTL DEF FeedSpec
=============================================================================
