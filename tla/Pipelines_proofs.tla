---------------------------- MODULE Pipelines_proofs ----------------------------
(***************************************************************************)
(* Proofs about four of the pipelines: the table of assets with the        *)
(* trackers that fill it, for every registry, interval of scans and number *)
(* of failures; the balances of accounts, for every set of accounts,       *)
(* assets and blocks, and every number of forks, passes of the snapshot    *)
(* script and deaths; what the blocks of the price pipeline are priced     *)
(* with, for every set of pools, number of days, quotes and failures; and  *)
(* the prices and volumes of a block, for every set of pools, number of    *)
(* hops, cap on observations, era and list of fills.                       *)
(***************************************************************************)
EXTENDS PriceInputs, AssetTable, RawBalances, BlockVolumes, FiniteSetTheorems, SequenceTheorems, WellFoundedInduction, TLAPS

----------------------------------------------------------------------------
(* The assets table: the inductive invariant. *)

Registered == Entries \cup {Unlisted}
RegistryState == [assets : [AssetIds -> Registered], told : BOOLEAN]
AssetRows == UNION {[S -> EntryType] : S \in SUBSET AssetIds}
Tracker == [cache : [AssetIds -> EntryType], seeded : BOOLEAN, scanned : Nat]
Follower == [step : {"next", "insert", "save"}, at : Nat, tracker : Tracker,
             initialized : BOOLEAN, previous : AssetRows, atHead : BOOLEAN, batch : AssetRows]

AssetShape ==
    /\ registry \in Seq(RegistryState) /\ Len(registry) \in 1 .. LastHeight
    /\ follower \in Follower
    /\ table \in [AssetIds -> EntryType]
    /\ overwritten \subseteq AssetIds /\ byNode \subseteq AssetIds /\ hidden \subseteq AssetIds
    /\ lapses \in 0 .. MaxLapses /\ published \in 0 .. MaxPublished

Scanned == follower.tracker.scanned # NeverScanned

\* A follower that has not scanned yet knows the native asset and nothing else.
Untouched ==
    /\ follower.tracker.seeded
    /\ follower.tracker.cache = NewTracker.cache
    /\ ~follower.initialized
    /\ follower.step = "next"

\* Where the follower stands, and what it has behind it.
Position ==
    /\ follower.at \in FirstFollowed - 1 .. LastHeight
    /\ follower.step # "next" => follower.at >= FirstFollowed
    /\ IF Scanned
       THEN /\ follower.tracker.scanned <= follower.at /\ follower.at <= Len(registry)
            /\ ~follower.tracker.seeded
       ELSE Untouched

\* The cache has the labels of the block that was scanned last, and nothing told of a
\* change since; at the head that block is not far.
ScannedWell ==
    Scanned =>
        LET at == follower.tracker.scanned IN
        /\ \A a \in Listed(registry[at].assets) :
               follower.tracker.cache[a].labels = registry[at].assets[a].labels
        /\ \A g \in (at + 1) .. follower.at : ~registry[g].told
        /\ follower.atHead => follower.at - at < ScanInterval.head

\* The rows that wait for their insert are of the cache; those a snapshot found are what
\* the next one will compare with.
BatchKnown ==
    /\ follower.step # "insert" => DOMAIN follower.batch = {}
    /\ \A a \in DOMAIN follower.batch :
           /\ follower.batch[a] = follower.tracker.cache[a]
           /\ a \in byNode \/ (a \in DOMAIN follower.previous
                                /\ follower.batch[a] = follower.previous[a])

\* What the cache has is shown, or about to be, or was taken back.
CacheShown ==
    Scanned => \A a \in Listed(follower.tracker.cache) :
        \/ table[a] = follower.tracker.cache[a]
        \/ a \in overwritten \cup hidden \cup DOMAIN follower.batch

\* So is what the last snapshot had, unless a block of the node has changed it since.
PreviousShown ==
    \A a \in DOMAIN follower.previous :
        \/ table[a] = follower.previous[a]
        \/ a \in overwritten \cup hidden \cup byNode \cup DOMAIN follower.batch

TableInv == AssetShape /\ Position /\ ScannedWell /\ BatchKnown /\ CacheShown /\ PreviousShown

----------------------------------------------------------------------------
(* The assets table: what its operators return. *)

LEMMA EntryFacts ==
    /\ Unlisted \in EntryType /\ NativeEntry \in EntryType /\ NativeEntry # Unlisted
    /\ \A e \in Registered :
           /\ e \in EntryType /\ [e EXCEPT !.place = 0] \in EntryType
           /\ e # Unlisted => [e EXCEPT !.place = 0] # Unlisted
           /\ [e EXCEPT !.place = 0].labels = e.labels
<1>1. Unlisted \in EntryType /\ NativeEntry \in EntryType
    BY DEF EntryType
<1>2. Unlisted.labels = 0 /\ NativeEntry.labels = 1
    BY DEF Unlisted, NativeEntry
<1>3. ASSUME NEW e \in Entries
      PROVE  e \in [labels : Nat \ {0}, place : Nat]
    BY <1>3, AssetAssumption
<1>4. ASSUME NEW e \in Registered
      PROVE  /\ e \in EntryType /\ [e EXCEPT !.place = 0] \in EntryType
             /\ e # Unlisted => [e EXCEPT !.place = 0] # Unlisted
             /\ [e EXCEPT !.place = 0].labels = e.labels
    <2>1. CASE e \in Entries
        <3>1. e.labels # 0 /\ [e EXCEPT !.place = 0].labels = e.labels
            BY <1>3, <2>1
        <3>2. [e EXCEPT !.place = 0] \in EntryType /\ e \in EntryType
            BY <2>1 DEF EntryType
        <3>3. QED
            BY <3>1, <3>2, <1>2
    <2>2. CASE e = Unlisted
        <3>1. PICK d : d = [e EXCEPT !.place = 0]
            OBVIOUS
        <3>2. d = Unlisted
            BY <3>1, <2>2 DEF Unlisted
        <3>3. QED
            BY <3>1, <3>2, <2>2, <1>1
    <2>3. QED
        BY <2>1, <2>2, <1>4 DEF Registered
<1>5. QED
    BY <1>1, <1>2, <1>4

\* A scan finds the listed assets with their labels, whatever it finds of the locations.
LEMMA FoundFacts ==
    ASSUME AssetShape, NEW h \in 1 .. Len(registry), NEW given \in Discovered(h)
    PROVE  /\ given \in [AssetIds -> EntryType]
           /\ \A a \in Listed(registry[h].assets) :
                  given[a] # Unlisted /\ given[a].labels = registry[h].assets[a].labels
<1>1. registry[h] \in RegistryState
    BY DEF AssetShape
<1>2. PICK state \in [AssetIds -> Registered] : state = registry[h].assets
    BY <1>1 DEF RegistryState
<1>3. \/ given = state
      \/ given = [a \in AssetIds |-> [state[a] EXCEPT !.place = 0]]
    BY <1>2 DEF Discovered
<1>4. ASSUME NEW a \in AssetIds
      PROVE  /\ given[a] \in EntryType
             /\ state[a] # Unlisted => given[a] # Unlisted /\ given[a].labels = state[a].labels
    <2>1. state[a] \in Registered
        BY <1>2
    <2>2. given[a] = state[a] \/ given[a] = [state[a] EXCEPT !.place = 0]
        BY <1>3
    <2>3. QED
        BY <2>1, <2>2, EntryFacts
<1>5. given \in [AssetIds -> EntryType]
    BY <1>2, <1>3, <1>4
<1>6. QED
    BY <1>2, <1>4, <1>5 DEF Listed

\* A function of some assets to entries.
LEMMA RowsType ==
    ASSUME NEW r \in AssetRows
    PROVE  DOMAIN r \subseteq AssetIds /\ \A a \in DOMAIN r : r[a] \in EntryType
BY DEF AssetRows

LEMMA NoRowsType == NoRows \in AssetRows /\ DOMAIN NoRows = {}
BY DEF NoRows, AssetRows

LEMMA RowsOfCacheFacts ==
    ASSUME NEW cache \in [AssetIds -> EntryType]
    PROVE  /\ RowsOfCache(cache) \in AssetRows
           /\ DOMAIN RowsOfCache(cache) = Listed(cache)
           /\ \A a \in Listed(cache) : RowsOfCache(cache)[a] = cache[a]
<1> DEFINE listed == Listed(cache)
<1>1. listed \subseteq AssetIds
    BY DEF Listed
<1>2. RowsOfCache(cache) = [a \in listed |-> cache[a]]
    BY DEF RowsOfCache
<1> HIDE DEF listed
<1>3. [a \in listed |-> cache[a]] \in AssetRows
    BY <1>1 DEF AssetRows
<1>4. QED
    BY <1>2, <1>3 DEF listed

LEMMA DiffFacts ==
    ASSUME NEW previous \in AssetRows, NEW current \in AssetRows
    PROVE  /\ DiffRows(previous, current) \in AssetRows
           /\ DOMAIN DiffRows(previous, current) \subseteq DOMAIN current
           /\ \A a \in DOMAIN DiffRows(previous, current) :
                  DiffRows(previous, current)[a] = current[a]
           /\ \A a \in DOMAIN current \ DOMAIN DiffRows(previous, current) :
                  a \in DOMAIN previous /\ previous[a] = current[a]
<1> DEFINE new == {a \in DOMAIN current : a \in DOMAIN previous => Differs(previous[a], current[a])}
<1>1. new \subseteq DOMAIN current
    OBVIOUS
<1>2. \A a \in DOMAIN current \ new : a \in DOMAIN previous /\ previous[a] = current[a]
    BY DEF Differs
<1>3. DiffRows(previous, current) = [a \in new |-> current[a]]
    BY DEF DiffRows
<1>4. DOMAIN current \subseteq AssetIds /\ \A a \in DOMAIN current : current[a] \in EntryType
    BY RowsType
<1> HIDE DEF new
<1>5. [a \in new |-> current[a]] \in AssetRows
    BY <1>1, <1>4 DEF AssetRows
<1>6. QED
    BY <1>1, <1>2, <1>3, <1>5

LEMMA LearnFacts ==
    ASSUME NEW tracker \in Tracker, NEW given \in [AssetIds -> EntryType], NEW h \in Nat
    PROVE  /\ Learn(tracker, given, h) \in Tracker
           /\ Learn(tracker, given, h).scanned = h
           /\ ~Learn(tracker, given, h).seeded
           /\ \A a \in AssetIds :
                  Learn(tracker, given, h).cache[a] =
                      IF given[a] # Unlisted THEN given[a] ELSE tracker.cache[a]
BY DEF Learn, Tracker, Listed

\* The rows of a scan are entries of the cache it leaves; what it leaves out was there.
LEMMA NewRowsFacts ==
    ASSUME NEW tracker \in Tracker, NEW given \in [AssetIds -> EntryType], NEW h \in Nat,
           tracker.seeded => tracker.cache = NewTracker.cache
    PROVE  /\ NewRows(tracker, given) \in AssetRows
           /\ \A a \in DOMAIN NewRows(tracker, given) :
                  NewRows(tracker, given)[a] = Learn(tracker, given, h).cache[a]
           /\ \A a \in AssetIds \ DOMAIN NewRows(tracker, given) :
                  /\ Learn(tracker, given, h).cache[a] = tracker.cache[a]
                  /\ tracker.seeded => a # Native
<1> DEFINE new == {a \in Listed(given) : Differs(tracker.cache[a], given[a])}
           native == IF tracker.seeded THEN {Native} ELSE {}
           brought == [a \in new \cup native |-> IF a \in new THEN given[a] ELSE NativeEntry]
           learned == Learn(tracker, given, h).cache
<1>1. NewRows(tracker, given) = brought
    BY DEF NewRows
<1>2. new \cup native \subseteq AssetIds
    BY AssetAssumption DEF Listed
<1>3. \A a \in new : given[a] # Unlisted
    BY DEF Listed
<1>4. \A a \in AssetIds \ new : given[a] # Unlisted => tracker.cache[a] = given[a]
    BY DEF Listed, Differs
<1>5. \A a \in native : tracker.seeded /\ a = Native
    OBVIOUS
<1>6. tracker.seeded => Native \in native
    OBVIOUS
<1>7. tracker.seeded => tracker.cache[Native] = NativeEntry
    BY AssetAssumption DEF NewTracker
<1>8. \A a \in AssetIds : learned[a] = IF given[a] # Unlisted THEN given[a] ELSE tracker.cache[a]
    BY LearnFacts
<1> HIDE DEF new, native, learned
<1>9. brought \in AssetRows
    <2>1. \A a \in new \cup native : brought[a] \in EntryType
        BY <1>2, EntryFacts
    <2>2. brought \in [new \cup native -> EntryType]
        BY <2>1
    <2>3. QED
        BY <1>2, <2>2 DEF AssetRows
<1>10. \A a \in DOMAIN brought : brought[a] = learned[a]
    BY <1>2, <1>3, <1>4, <1>5, <1>7, <1>8
<1>11. \A a \in AssetIds \ DOMAIN brought : learned[a] = tracker.cache[a] /\ (tracker.seeded => a # Native)
    BY <1>4, <1>6, <1>8
<1>12. QED
    BY <1>1, <1>9, <1>10, <1>11 DEF learned

LEMMA InsertedFacts ==
    ASSUME NEW batch \in AssetRows, table \in [AssetIds -> EntryType]
    PROVE  /\ Inserted(batch) \in [AssetIds -> EntryType]
           /\ \A a \in AssetIds :
                  Inserted(batch)[a] = IF a \in DOMAIN batch THEN batch[a] ELSE table[a]
BY RowsType DEF Inserted
----------------------------------------------------------------------------
(* The assets table: every step keeps the invariant. *)

LEMMA FollowerFacts ==
    ASSUME AssetShape
    PROVE  /\ follower.step \in {"next", "insert", "save"}
           /\ follower.at \in Nat
           /\ follower.tracker \in Tracker /\ follower.tracker.scanned \in Nat
           /\ follower.tracker.cache \in [AssetIds -> EntryType]
           /\ follower.initialized \in BOOLEAN /\ follower.atHead \in BOOLEAN
           /\ follower.previous \in AssetRows /\ follower.batch \in AssetRows
           /\ Len(registry) \in Nat
           /\ FirstFollowed \in Nat /\ FirstFollowed >= 2 /\ LastHeight \in Nat
BY AssetAssumption DEF AssetShape, Follower, Tracker

LEMMA StartedFacts ==
    ASSUME NEW at \in Nat
    PROVE  /\ Started(at) \in Follower
           /\ Started(at).at = at /\ Started(at).step = "next"
           /\ Started(at).tracker = NewTracker /\ ~Started(at).initialized
           /\ DOMAIN Started(at).previous = {} /\ DOMAIN Started(at).batch = {}
           /\ NewTracker \in Tracker
           /\ NewTracker.scanned = NeverScanned /\ NewTracker.seeded
<1>1. NewTracker.cache \in [AssetIds -> EntryType]
    BY EntryFacts DEF NewTracker
<1>2. NewTracker \in Tracker /\ NewTracker.scanned = NeverScanned /\ NewTracker.seeded
    BY <1>1 DEF NewTracker, Tracker, NeverScanned
<1>3. QED
    BY <1>2, NoRowsType DEF Started, Follower

LEMMA AssetStarts == AssetInit => TableInv
<1> SUFFICES ASSUME AssetInit PROVE TableInv
    OBVIOUS
<1>1. registry \in Seq(RegistryState) /\ Len(registry) = 1
    <2>1. [assets |-> [a \in AssetIds |-> Unlisted], told |-> FALSE] \in RegistryState
        BY DEF RegistryState, Registered
    <2>2. QED
        BY <2>1 DEF AssetInit
<1>2. FirstFollowed - 1 \in Nat /\ FirstFollowed \in 2 .. LastHeight /\ LastHeight \in Nat
    BY AssetAssumption
<1>3. follower = Started(FirstFollowed - 1)
    BY DEF AssetInit
<1>4. table \in [AssetIds -> EntryType]
    BY EntryFacts DEF AssetInit
<1>5. AssetShape
    BY <1>1, <1>2, <1>3, <1>4, StartedFacts, AssetAssumption DEF AssetInit, AssetShape
<1>6. ~Scanned /\ Untouched
    BY <1>2, <1>3, StartedFacts DEF Scanned, Untouched
<1>7. Position
    BY <1>2, <1>3, <1>6, StartedFacts DEF Position
<1>8. QED
    BY <1>2, <1>3, <1>5, <1>6, <1>7, StartedFacts
       DEF TableInv, ScannedWell, BatchKnown, CacheShown, PreviousShown

\* A block more: the blocks below it stay.
LEMMA MintKeeps ==
    ASSUME TableInv, NEW state \in [AssetIds -> Registered], NEW told \in BOOLEAN,
           Mint(state, told)
    PROVE  TableInv'
<1> DEFINE blk == [assets |-> state, told |-> told]
<1>1. blk \in RegistryState
    BY DEF RegistryState
<1>2. registry \in Seq(RegistryState) /\ Len(registry) \in 1 .. LastHeight
    BY DEF TableInv, AssetShape
<1>3. registry' = Append(registry, blk) /\ Len(registry) < LastHeight
    BY DEF Mint
<1> HIDE DEF blk
<1>4. /\ registry' \in Seq(RegistryState) /\ Len(registry') = Len(registry) + 1
      /\ \A h \in 1 .. Len(registry) : registry'[h] = registry[h]
    BY <1>1, <1>2, <1>3, AppendProperties
<1>5. UNCHANGED <<follower, table, overwritten, byNode, hidden, lapses, published>>
    BY DEF Mint, assetHistory
<1>6. AssetShape'
    BY <1>2, <1>3, <1>4, <1>5, FollowerFacts DEF TableInv, AssetShape
<1>7. Position'
    BY <1>4, <1>5, FollowerFacts DEF TableInv, Position, Scanned, Untouched
<1>8. ScannedWell'
    <2> SUFFICES ASSUME Scanned PROVE ScannedWell'
        BY <1>5 DEF ScannedWell, Scanned
    <2>1. /\ follower.tracker.scanned \in 1 .. Len(registry)
          /\ follower.at <= Len(registry)
        BY FollowerFacts DEF TableInv, Position, Scanned, NeverScanned
    <2>2. registry'[follower.tracker.scanned] = registry[follower.tracker.scanned]
        BY <1>4, <2>1
    <2>3. \A g \in (follower.tracker.scanned + 1) .. follower.at : registry'[g] = registry[g]
        BY <1>4, <2>1, FollowerFacts DEF TableInv
    <2>4. QED
        BY <1>5, <2>2, <2>3 DEF TableInv, ScannedWell
<1>9. QED
    BY <1>5, <1>6, <1>7, <1>8 DEF TableInv, BatchKnown, CacheShown, PreviousShown, Scanned

\* What a tracker has after a block, whether it has scanned it or had no reason to.
LEMMA TrackerKeepsUp ==
    ASSUME TableInv, NEW given \in Discovered(NextHeight), NextHeight <= Len(registry),
           NEW tracker,
           \/ tracker = Learn(follower.tracker, given, NextHeight)
           \/ tracker = follower.tracker /\ Scanned /\ ~registry[NextHeight].told
    PROVE  /\ tracker \in Tracker /\ ~tracker.seeded
           /\ tracker.scanned \in 1 .. NextHeight
           /\ \A a \in Listed(registry[tracker.scanned].assets) :
                  tracker.cache[a].labels = registry[tracker.scanned].assets[a].labels
           /\ \A g \in (tracker.scanned + 1) .. NextHeight : ~registry[g].told
<1>1. NextHeight \in 1 .. Len(registry) /\ NextHeight = follower.at + 1
    BY FollowerFacts DEF TableInv, NextHeight
<1>2. CASE tracker = Learn(follower.tracker, given, NextHeight)
    <2>1. /\ given \in [AssetIds -> EntryType]
          /\ \A a \in Listed(registry[NextHeight].assets) :
                 given[a] # Unlisted /\ given[a].labels = registry[NextHeight].assets[a].labels
        BY <1>1, FoundFacts DEF TableInv
    <2>2. /\ tracker \in Tracker /\ ~tracker.seeded /\ tracker.scanned = NextHeight
          /\ \A a \in AssetIds :
                 tracker.cache[a] = IF given[a] # Unlisted THEN given[a] ELSE follower.tracker.cache[a]
        <3>1. follower.tracker \in Tracker /\ NextHeight \in Nat
            BY <1>1, FollowerFacts DEF TableInv
        <3>2. QED
            BY <1>2, <2>1, <3>1, LearnFacts
    <2>3. (NextHeight + 1) .. NextHeight = {}
        BY <1>1
    <2>4. Listed(registry[NextHeight].assets) \subseteq AssetIds
        BY DEF Listed
    <2>5. QED
        BY <1>1, <2>1, <2>2, <2>3, <2>4, FollowerFacts DEF TableInv
<1>3. CASE tracker = follower.tracker /\ Scanned /\ ~registry[NextHeight].told
    <2>1. tracker \in Tracker /\ ~tracker.seeded /\ tracker.scanned \in 1 .. follower.at
        BY <1>3, FollowerFacts DEF TableInv, Position, Scanned, NeverScanned
    <2>2. ASSUME NEW g \in (tracker.scanned + 1) .. NextHeight
          PROVE  ~registry[g].told
        <3>1. g = NextHeight \/ g \in (tracker.scanned + 1) .. follower.at
            BY <1>1, <2>1, FollowerFacts DEF TableInv
        <3>2. QED
            BY <1>3, <3>1 DEF TableInv, ScannedWell
    <2>3. tracker.scanned \in 1 .. NextHeight
        BY <1>1, <2>1, FollowerFacts DEF TableInv
    <2>4. QED
        BY <1>3, <2>1, <2>2, <2>3 DEF TableInv, ScannedWell
<1>4. QED
    BY <1>2, <1>3

LEMMA LapsesBounded ==
    ASSUME AssetShape, NEW h, NEW given \in Discovered(h), CountLapse(h, given)
    PROVE  lapses' \in 0 .. MaxLapses
<1>1. lapses \in 0 .. MaxLapses /\ MaxLapses \in Nat
    BY AssetAssumption DEF AssetShape
<1>2. CASE given = registry[h].assets
    BY <1>1, <1>2 DEF CountLapse
<1>3. CASE given # registry[h].assets
    <2>1. PICK i \in 1 .. MaxLapses - lapses : TRUE
        BY <1>3 DEF Discovered
    <2>2. QED
        BY <1>1, <1>3, <2>1 DEF CountLapse
<1>4. QED
    BY <1>2, <1>3

LEMMA BlockKeepsPlace ==
    ASSUME TableInv, ForBlock, NEW given \in Discovered(NextHeight), NEW tracker,
           \/ tracker = Learn(follower.tracker, given, NextHeight)
           \/ tracker = follower.tracker /\ Scanned /\ ~registry[NextHeight].told,
           UNCHANGED registry,
           follower'.step = "insert", follower'.at = NextHeight, follower'.tracker = tracker,
           follower'.atHead => NextHeight - tracker.scanned < ScanInterval.head
    PROVE  Position' /\ ScannedWell' /\ Scanned'
<1>1. /\ NextHeight = follower.at + 1 /\ NextHeight <= Len(registry) /\ NextHeight \in Nat
      /\ NextHeight \in FirstFollowed .. LastHeight
    <2>1. NextHeight = follower.at + 1 /\ NextHeight <= Len(registry)
        BY DEF ForBlock, NextHeight
    <2>2. Len(registry) <= LastHeight /\ follower.at >= FirstFollowed - 1
        BY FollowerFacts DEF TableInv, AssetShape, Position
    <2>3. QED
        BY <2>1, <2>2, FollowerFacts DEF TableInv
<1>2. /\ tracker.scanned \in 1 .. NextHeight /\ ~tracker.seeded
      /\ \A a \in Listed(registry[tracker.scanned].assets) :
             tracker.cache[a].labels = registry[tracker.scanned].assets[a].labels
      /\ \A g \in (tracker.scanned + 1) .. NextHeight : ~registry[g].told
    BY <1>1, TrackerKeepsUp
<1>3. Scanned'
    BY <1>2 DEF Scanned, NeverScanned
<1>4. Position'
    <2>1. follower'.at \in FirstFollowed - 1 .. LastHeight /\ follower'.at >= FirstFollowed
        BY <1>1, FollowerFacts DEF TableInv
    <2>2. follower'.tracker.scanned <= follower'.at /\ follower'.at <= Len(registry')
        BY <1>1, <1>2
    <2>3. QED
        BY <1>2, <1>3, <2>1, <2>2 DEF Position
<1>5. ScannedWell'
    BY <1>2 DEF ScannedWell
<1>6. QED
    BY <1>3, <1>4, <1>5

\* A block with a snapshot: what differs from the last snapshot is inserted.
LEMMA SnapshotKeeps == TableInv /\ SnapshotBlock => TableInv'
<1> SUFFICES ASSUME TableInv, SnapshotBlock PROVE TableInv'
    OBVIOUS
<1> DEFINE scan == ~follower.initialized \/ registry[NextHeight].told
<1>1. PICK given, tracker, brought :
          /\ given \in Discovered(NextHeight)
          /\ tracker = IF scan THEN Learn(follower.tracker, given, NextHeight) ELSE follower.tracker
          /\ brought = DiffRows(follower.previous, RowsOfCache(tracker.cache))
          /\ IF scan THEN CountLapse(NextHeight, given) ELSE UNCHANGED lapses
          /\ follower' = [follower EXCEPT
                 !.step = "insert", !.at = NextHeight, !.tracker = tracker, !.initialized = TRUE,
                 !.previous = RowsOfCache(tracker.cache), !.batch = brought]
          /\ byNode' = {}
          /\ hidden' = (hidden \cup byNode) \ DOMAIN brought
    BY DEF SnapshotBlock
<1>2. ForBlock /\ ~follower.atHead /\ UNCHANGED <<registry, table, overwritten, published>>
    BY DEF SnapshotBlock
<1>3. follower \in Follower
    BY DEF TableInv, AssetShape
<1>4. \/ tracker = Learn(follower.tracker, given, NextHeight)
      \/ tracker = follower.tracker /\ Scanned /\ ~registry[NextHeight].told
    BY <1>1 DEF TableInv, Position, Untouched
<1>5. NextHeight \in Nat /\ NextHeight <= Len(registry)
    BY <1>2, FollowerFacts DEF TableInv, ForBlock, NextHeight
<1>6. tracker \in Tracker
    BY <1>1, <1>4, <1>5, TrackerKeepsUp
<1>7. tracker.cache \in [AssetIds -> EntryType]
    BY <1>6 DEF Tracker
<1> DEFINE cached == RowsOfCache(tracker.cache)
<1>8. cached \in AssetRows /\ DOMAIN cached = Listed(tracker.cache)
      /\ \A a \in Listed(tracker.cache) : cached[a] = tracker.cache[a]
    BY <1>7, RowsOfCacheFacts
<1>9. /\ brought \in AssetRows /\ DOMAIN brought \subseteq DOMAIN cached
      /\ \A a \in DOMAIN brought : brought[a] = cached[a]
      /\ \A a \in DOMAIN cached \ DOMAIN brought :
             a \in DOMAIN follower.previous /\ follower.previous[a] = cached[a]
    BY <1>1, <1>8, DiffFacts, FollowerFacts DEF TableInv
<1>10. lapses' \in 0 .. MaxLapses
    BY <1>1, LapsesBounded DEF TableInv, AssetShape
<1> HIDE DEF cached, scan
<1>11. /\ follower'.step = "insert" /\ follower'.at = NextHeight /\ follower'.tracker = tracker
       /\ follower'.initialized /\ follower'.previous = cached /\ follower'.batch = brought
       /\ follower'.atHead = follower.atHead
    BY <1>1, <1>3 DEF Follower, cached
<1>12. follower' \in Follower
    BY <1>1, <1>3, <1>5, <1>6, <1>8, <1>9 DEF Follower, cached
<1>13. AssetShape'
    <2>1. hidden' \subseteq AssetIds
        BY <1>1 DEF TableInv, AssetShape
    <2>2. QED
        BY <1>1, <1>2, <1>10, <1>12, <2>1 DEF TableInv, AssetShape
<1>14. Position' /\ ScannedWell' /\ Scanned'
    BY <1>1, <1>2, <1>4, <1>11, BlockKeepsPlace
<1>15. BatchKnown'
    BY <1>8, <1>9, <1>11 DEF BatchKnown
<1>16. DOMAIN follower.batch = {}
    BY <1>2 DEF TableInv, BatchKnown, ForBlock
<1>17. \A a \in DOMAIN cached :
          \/ table[a] = cached[a]
          \/ a \in overwritten \cup hidden' \cup DOMAIN brought
    BY <1>1, <1>9, <1>16 DEF TableInv, PreviousShown
<1>18. CacheShown' /\ PreviousShown'
    BY <1>2, <1>8, <1>11, <1>17 DEF CacheShown, PreviousShown
<1>19. QED
    BY <1>13, <1>14, <1>15, <1>18 DEF TableInv

\* A block of the node: what the scan found new is inserted.
LEMMA NodeKeeps == TableInv /\ NodeBlock => TableInv'
<1> SUFFICES ASSUME TableInv, NodeBlock PROVE TableInv'
    OBVIOUS
<1>1. PICK given, atHead, interval, tracker, brought :
          /\ given \in Discovered(NextHeight)
          /\ atHead = (follower.atHead \/ NextHeight = Len(registry))
          /\ interval = IF atHead THEN ScanInterval.head ELSE ScanInterval.archive
          /\ brought = IF ScanDue(NextHeight, interval)
                       THEN NewRows(follower.tracker, given) ELSE NoRows
          /\ tracker = IF ScanDue(NextHeight, interval)
                       THEN Learn(follower.tracker, given, NextHeight) ELSE follower.tracker
          /\ IF ScanDue(NextHeight, interval) THEN CountLapse(NextHeight, given)
             ELSE UNCHANGED lapses
          /\ follower' = [follower EXCEPT
                 !.step = "insert", !.at = NextHeight, !.atHead = atHead, !.batch = brought,
                 !.tracker = tracker]
          /\ byNode' = byNode \cup DOMAIN brought
          /\ hidden' = hidden \ DOMAIN brought
    BY DEF NodeBlock
<1>2. ForBlock /\ UNCHANGED <<registry, table, overwritten, published>>
    BY DEF NodeBlock
<1>3. follower \in Follower
    BY DEF TableInv, AssetShape
<1>4. \/ /\ tracker = Learn(follower.tracker, given, NextHeight)
         /\ brought = NewRows(follower.tracker, given)
      \/ /\ tracker = follower.tracker /\ brought = NoRows
         /\ ~ScanDue(NextHeight, interval)
    BY <1>1
<1>5. NextHeight \in Nat /\ NextHeight \in 1 .. Len(registry)
    BY <1>2, FollowerFacts DEF TableInv, ForBlock, NextHeight
<1>6. ~ScanDue(NextHeight, interval) =>
          /\ Scanned /\ ~registry[NextHeight].told
          /\ NextHeight - follower.tracker.scanned < interval
    <2>1. interval \in Nat
        BY <1>1, AssetAssumption
    <2>2. QED
        BY <1>5, <2>1, FollowerFacts DEF TableInv, ScanDue, Scanned
<1>7. \/ tracker = Learn(follower.tracker, given, NextHeight)
      \/ tracker = follower.tracker /\ Scanned /\ ~registry[NextHeight].told
    BY <1>4, <1>6
<1>8. tracker \in Tracker /\ tracker.cache \in [AssetIds -> EntryType]
    <2>1. tracker \in Tracker
        BY <1>1, <1>5, <1>7, TrackerKeepsUp
    <2>2. QED
        BY <2>1 DEF Tracker
<1>9. given \in [AssetIds -> EntryType]
    BY <1>1, <1>5, FoundFacts DEF TableInv
<1>10. /\ follower.tracker.seeded <=> ~Scanned
       /\ ~Scanned => follower.tracker.cache = NewTracker.cache
    BY DEF TableInv, Position, Untouched
<1>11. /\ brought \in AssetRows
       /\ \A a \in DOMAIN brought : brought[a] = tracker.cache[a]
       /\ \A a \in AssetIds \ DOMAIN brought :
              /\ tracker.cache[a] = follower.tracker.cache[a]
              /\ ~Scanned => a # Native
    <2>1. CASE tracker = Learn(follower.tracker, given, NextHeight)
                   /\ brought = NewRows(follower.tracker, given)
        BY <1>5, <1>9, <1>10, <2>1, NewRowsFacts, FollowerFacts DEF TableInv
    <2>2. CASE tracker = follower.tracker /\ brought = NoRows /\ ~ScanDue(NextHeight, interval)
        BY <1>6, <2>2, NoRowsType
    <2>3. QED
        BY <1>4, <2>1, <2>2
<1>12. lapses' \in 0 .. MaxLapses
    BY <1>1, LapsesBounded DEF TableInv, AssetShape
<1>13. atHead \in BOOLEAN
    BY <1>1, FollowerFacts DEF TableInv
<1>14. /\ follower'.step = "insert" /\ follower'.at = NextHeight /\ follower'.tracker = tracker
       /\ follower'.previous = follower.previous /\ follower'.batch = brought
       /\ follower'.atHead = atHead
    BY <1>1, <1>3 DEF Follower
<1>15. follower' \in Follower
    BY <1>1, <1>3, <1>5, <1>8, <1>11, <1>13 DEF Follower
<1>16. AssetShape'
    <2>1. hidden' \subseteq AssetIds /\ byNode' \subseteq AssetIds
        BY <1>1, <1>11, RowsType DEF TableInv, AssetShape
    <2>2. QED
        BY <1>2, <1>12, <1>15, <2>1 DEF TableInv, AssetShape
<1>17. Position' /\ ScannedWell' /\ Scanned'
    <2>1. follower'.atHead => NextHeight - tracker.scanned < ScanInterval.head
        <3>1. CASE tracker = Learn(follower.tracker, given, NextHeight)
            <4>1. tracker.scanned = NextHeight
                BY <1>5, <1>9, <3>1, LearnFacts, FollowerFacts DEF TableInv
            <4>2. QED
                BY <1>5, <4>1, AssetAssumption
        <3>2. CASE tracker = follower.tracker /\ ~ScanDue(NextHeight, interval)
            BY <1>1, <1>6, <1>14, <3>2
        <3>3. QED
            BY <1>4, <3>1, <3>2
    <2>2. QED
        BY <1>1, <1>2, <1>7, <1>14, <2>1, BlockKeepsPlace
<1>18. DOMAIN follower.batch = {}
    BY <1>2 DEF TableInv, BatchKnown, ForBlock
<1>19. BatchKnown'
    BY <1>1, <1>11, <1>14 DEF BatchKnown
<1>20. CacheShown'
    <2> SUFFICES ASSUME NEW a \in Listed(tracker.cache), a \notin DOMAIN brought
                 PROVE  table[a] = tracker.cache[a] \/ a \in overwritten \cup hidden'
        BY <1>2, <1>14 DEF CacheShown
    <2>1. /\ a \in AssetIds /\ tracker.cache[a] = follower.tracker.cache[a]
          /\ tracker.cache[a] # Unlisted
          /\ ~Scanned => a # Native
        BY <1>11 DEF Listed
    <2>2. Scanned
        BY <1>10, <2>1 DEF NewTracker
    <2>3. a \in Listed(follower.tracker.cache)
        BY <2>1 DEF Listed
    <2>4. QED
        BY <1>1, <1>18, <2>1, <2>2, <2>3 DEF TableInv, CacheShown
<1>21. PreviousShown'
    BY <1>1, <1>2, <1>14, <1>18 DEF TableInv, PreviousShown
<1>22. QED
    BY <1>16, <1>17, <1>19, <1>20, <1>21 DEF TableInv

\* The insert: a row that comes from a block of the node is newer than the snapshot.
LEMMA InsertKeepsTable == TableInv /\ InsertAssets => TableInv'
<1> SUFFICES ASSUME TableInv, InsertAssets PROVE TableInv'
    OBVIOUS
<1>1. /\ follower.step = "insert" /\ UNCHANGED <<registry, byNode, hidden, lapses, published>>
      /\ table' = Inserted(follower.batch)
      /\ overwritten' = overwritten \ DOMAIN follower.batch
      /\ follower' = [follower EXCEPT !.step = "save", !.batch = NoRows]
    BY DEF InsertAssets
<1>2. follower \in Follower /\ DOMAIN follower.batch \subseteq AssetIds
    BY RowsType, FollowerFacts DEF TableInv, AssetShape
<1>3. /\ follower' \in Follower /\ follower'.step = "save" /\ DOMAIN follower'.batch = {}
      /\ follower'.tracker = follower.tracker /\ follower'.at = follower.at
      /\ follower'.atHead = follower.atHead /\ follower'.previous = follower.previous
    BY <1>1, <1>2, NoRowsType DEF Follower
<1>4. /\ table' \in [AssetIds -> EntryType]
      /\ \A a \in AssetIds :
             table'[a] = IF a \in DOMAIN follower.batch THEN follower.batch[a] ELSE table[a]
    BY <1>1, InsertedFacts, FollowerFacts DEF TableInv, AssetShape
<1>5. AssetShape'
    BY <1>1, <1>3, <1>4 DEF TableInv, AssetShape
<1>6. Scanned
    BY <1>1 DEF TableInv, Position, Untouched
<1>7. Scanned' /\ Position' /\ ScannedWell'
    BY <1>1, <1>3, <1>6 DEF TableInv, Position, ScannedWell, Scanned
<1>8. BatchKnown'
    BY <1>3 DEF BatchKnown
<1>9. CacheShown'
    <2> SUFFICES ASSUME NEW a \in Listed(follower.tracker.cache)
                 PROVE  table'[a] = follower.tracker.cache[a] \/ a \in overwritten' \cup hidden'
        BY <1>3 DEF CacheShown
    <2>1. a \in AssetIds
        BY DEF Listed
    <2>2. QED
        BY <1>1, <1>4, <1>6, <2>1 DEF TableInv, CacheShown, BatchKnown
<1>10. PreviousShown'
    <2> SUFFICES ASSUME NEW a \in DOMAIN follower.previous
                 PROVE  table'[a] = follower.previous[a]
                            \/ a \in overwritten' \cup hidden' \cup byNode'
        BY <1>3 DEF PreviousShown
    <2>1. a \in AssetIds
        BY RowsType, FollowerFacts DEF TableInv
    <2>2. QED
        BY <1>1, <1>4, <2>1 DEF TableInv, PreviousShown, BatchKnown
<1>11. QED
    BY <1>5, <1>7, <1>8, <1>9, <1>10 DEF TableInv

LEMMA SaveKeepsTable == TableInv /\ SaveHeight => TableInv'
<1> SUFFICES ASSUME TableInv, SaveHeight PROVE TableInv'
    OBVIOUS
<1>1. /\ follower.step = "save" /\ follower' = [follower EXCEPT !.step = "next"]
      /\ UNCHANGED <<registry, table, overwritten, byNode, hidden, lapses, published>>
    BY DEF SaveHeight, assetHistory
<1>2. follower \in Follower
    BY DEF TableInv, AssetShape
<1>3. /\ follower' \in Follower /\ follower'.step = "next" /\ follower'.batch = follower.batch
      /\ follower'.tracker = follower.tracker /\ follower'.at = follower.at
      /\ follower'.atHead = follower.atHead /\ follower'.previous = follower.previous
    BY <1>1, <1>2 DEF Follower
<1>4. AssetShape'
    BY <1>1, <1>3 DEF TableInv, AssetShape
<1>5. Scanned
    BY <1>1 DEF TableInv, Position, Untouched
<1>6. Scanned' /\ Position' /\ ScannedWell'
    BY <1>1, <1>3, <1>5 DEF TableInv, Position, ScannedWell, Scanned
<1>7. QED
    BY <1>1, <1>3, <1>4, <1>6 DEF TableInv, BatchKnown, CacheShown, PreviousShown, Scanned

\* A new follower has scanned nothing; what was shown is shown.
LEMMA DeathKeepsTable == TableInv /\ FollowerDies => TableInv'
<1> SUFFICES ASSUME TableInv, FollowerDies PROVE TableInv'
    OBVIOUS
<1>1. PICK at : /\ at = IF follower.step = "next" THEN follower.at ELSE follower.at - 1
                /\ follower' = Started(at)
    BY DEF FollowerDies
<1>2. /\ lapses < MaxLapses /\ lapses' = lapses + 1 /\ byNode' = {}
      /\ UNCHANGED <<registry, table, overwritten, hidden, published>>
    BY DEF FollowerDies
<1>3. at \in Nat /\ at \in FirstFollowed - 1 .. LastHeight
    BY <1>1, FollowerFacts DEF TableInv, Position
<1>4. /\ follower' \in Follower /\ follower'.at = at /\ follower'.step = "next"
      /\ follower'.tracker = NewTracker /\ ~follower'.initialized
      /\ DOMAIN follower'.previous = {} /\ DOMAIN follower'.batch = {}
    BY <1>1, <1>3, StartedFacts
<1>5. AssetShape'
    BY <1>2, <1>4, AssetAssumption DEF TableInv, AssetShape
<1>6. ~Scanned' /\ Untouched'
    BY <1>3, <1>4, StartedFacts DEF Scanned, Untouched
<1>7. Position'
    BY <1>3, <1>4, <1>6 DEF Position
<1>8. QED
    BY <1>4, <1>5, <1>6, <1>7
       DEF TableInv, ScannedWell, BatchKnown, CacheShown, PreviousShown

\* Some block of a range is the last one a run over it scans.
LEMMA LastScanExists ==
    ASSUME NEW from \in 1 .. LastHeight, NEW to \in from .. LastHeight
    PROVE  LastScan(from, to) \in from .. to
<1> DEFINE Scans(h) == h = from \/ registry[h].told
           Behind == {to - h : h \in {g \in from .. to : Scans(g)}}
<1>1. /\ from \in Nat /\ to \in Nat /\ from <= to
    BY AssetAssumption
<1>2. Behind \subseteq Nat /\ to - from \in Behind
    BY <1>1
<1>3. PICK least \in Behind : \A other \in Behind : ~(<<other, least>> \in OpToRel(<, Nat))
    BY <1>2, WFMin, NatLessThanWellFounded
<1>4. PICK h \in from .. to : Scans(h) /\ least = to - h
    BY <1>3
<1>5. ASSUME NEW g \in (h + 1) .. to, registry[g].told PROVE FALSE
    <2>1. to - g \in Behind /\ to - g < least
        BY <1>1, <1>4, <1>5
    <2>2. <<to - g, least>> \in OpToRel(<, Nat)
        BY <1>2, <1>3, <2>1 DEF OpToRel
    <2>3. QED
        BY <1>3, <2>1, <2>2
<1>6. QED
    BY <1>4, <1>5 DEF LastScan

\* The backfill: what it has put over another row is known to be overwritten.
LEMMA PublishKeeps ==
    ASSUME TableInv, NEW from \in 1 .. LastHeight, NEW to \in 1 .. LastHeight, from <= to,
           PublishRange(from, to)
    PROVE  TableInv'
<1>1. PICK given, brought :
          /\ given \in Discovered(LastScan(from, to))
          /\ brought = RowsOfCache(Learn(NewTracker, given, to).cache)
          /\ CountLapse(LastScan(from, to), given)
          /\ table' = Inserted(brought)
          /\ overwritten' = overwritten \cup {a \in DOMAIN brought : brought[a] # table[a]}
    BY DEF PublishRange
<1>2. /\ published < MaxPublished /\ published' = published + 1
      /\ to <= Len(registry)
      /\ UNCHANGED <<registry, follower, byNode, hidden>>
    BY DEF PublishRange
<1>3. LastScan(from, to) \in 1 .. Len(registry) /\ to \in Nat
    <2>1. LastScan(from, to) \in from .. to
        BY LastScanExists
    <2>2. QED
        BY <1>2, <2>1, FollowerFacts DEF TableInv
<1>4. given \in [AssetIds -> EntryType]
    BY <1>1, <1>3, FoundFacts DEF TableInv
<1>5. Learn(NewTracker, given, to) \in Tracker
    BY <1>3, <1>4, LearnFacts, StartedFacts
<1>6. brought \in AssetRows /\ DOMAIN brought \subseteq AssetIds
    BY <1>1, <1>5, RowsOfCacheFacts, RowsType DEF Tracker
<1>7. /\ table' \in [AssetIds -> EntryType]
      /\ \A a \in AssetIds : table'[a] = IF a \in DOMAIN brought THEN brought[a] ELSE table[a]
    BY <1>1, <1>6, InsertedFacts DEF TableInv, AssetShape
<1>8. lapses' \in 0 .. MaxLapses
    BY <1>1, LapsesBounded DEF TableInv
<1>9. AssetShape'
    BY <1>1, <1>2, <1>6, <1>7, <1>8, AssetAssumption DEF TableInv, AssetShape
<1>10. \A a \in AssetIds : table'[a] = table[a] \/ a \in overwritten'
    BY <1>1, <1>6, <1>7
<1>11. overwritten \subseteq overwritten'
    BY <1>1
<1>12. Listed(follower.tracker.cache) \subseteq AssetIds /\ DOMAIN follower.previous \subseteq AssetIds
    BY RowsType, FollowerFacts DEF TableInv, Listed
<1>13. CacheShown' /\ PreviousShown'
    BY <1>2, <1>10, <1>11, <1>12 DEF TableInv, CacheShown, PreviousShown, Scanned
<1>14. QED
    BY <1>2, <1>9, <1>13 DEF TableInv, Position, Untouched, Scanned, ScannedWell, BatchKnown

LEMMA TableStep == TableInv /\ [AssetNext]_assetVars => TableInv'
<1> SUFFICES ASSUME TableInv, [AssetNext]_assetVars PROVE TableInv'
    OBVIOUS
<1>1. Current \in [AssetIds -> Registered]
    <2>1. Len(registry) \in 1 .. Len(registry)
        BY FollowerFacts DEF TableInv, AssetShape
    <2>2. registry[Len(registry)] \in RegistryState
        BY <2>1 DEF TableInv, AssetShape
    <2>3. QED
        BY <2>2 DEF RegistryState, Current
<1>2. CASE QuietBlock
    BY <1>1, <1>2, MintKeeps DEF QuietBlock
<1>3. ASSUME NEW a \in AssetIds, NEW entry \in Entries, NEW told \in BOOLEAN,
             Registers(a, entry, told)
      PROVE  TableInv'
    <2>1. [Current EXCEPT ![a] = entry] \in [AssetIds -> Registered]
        BY <1>1 DEF Registered
    <2>2. QED
        BY <1>3, <2>1, MintKeeps DEF Registers
<1>4. CASE SnapshotBlock
    BY <1>4, SnapshotKeeps
<1>5. CASE NodeBlock
    BY <1>5, NodeKeeps
<1>6. CASE InsertAssets
    BY <1>6, InsertKeepsTable
<1>7. CASE SaveHeight
    BY <1>7, SaveKeepsTable
<1>8. CASE FollowerDies
    BY <1>8, DeathKeepsTable
<1>9. ASSUME NEW from \in 1 .. LastHeight, NEW to \in 1 .. LastHeight,
             from <= to, PublishRange(from, to)
      PROVE  TableInv'
    BY <1>9, PublishKeeps
<1>10. CASE UNCHANGED assetVars
    <2>1. UNCHANGED <<registry, follower, table, overwritten, byNode, hidden, lapses, published>>
        BY <1>10 DEF assetVars, assetHistory
    <2>2. QED
        BY <2>1 DEF TableInv, AssetShape, Position, Scanned, Untouched, ScannedWell, BatchKnown,
                    CacheShown, PreviousShown
<1>11. QED
    BY <1>2, <1>3, <1>4, <1>5, <1>6, <1>7, <1>8, <1>9, <1>10 DEF AssetNext

\* Where an entry is not what it was at the last scan, some block between has changed it.
LEMMA ChangeBetween ==
    ASSUME AssetShape, NEW s \in Nat, NEW at \in Nat, 1 <= s, s <= at, at <= Len(registry),
           NEW a, registry[s].assets[a] # registry[at].assets[a]
    PROVE  \E h \in (s + 1) .. at : registry[h].assets[a] # registry[h - 1].assets[a]
<1> DEFINE Other == {h \in (s + 1) .. at : registry[h].assets[a] # registry[s].assets[a]}
<1>1. Other \subseteq Nat /\ at \in Other
    <2>1. at # s
        OBVIOUS
    <2>2. QED
        BY <2>1
<1>2. PICK h \in Other : \A g \in Other : ~(<<g, h>> \in OpToRel(<, Nat))
    BY <1>1, WFMin, NatLessThanWellFounded
<1>3. h \in (s + 1) .. at /\ registry[h].assets[a] # registry[s].assets[a]
    BY <1>2
<1>4. registry[h - 1].assets[a] = registry[s].assets[a]
    <2>1. CASE h - 1 = s
        BY <2>1
    <2>2. CASE h - 1 # s
        <3>1. h - 1 \in (s + 1) .. at /\ h - 1 < h
            BY <1>3, <2>2
        <3>2. <<h - 1, h>> \in OpToRel(<, Nat)
            BY <1>3, <3>1 DEF OpToRel
        <3>3. h - 1 \notin Other
            BY <1>2, <3>2
        <3>4. QED
            BY <3>1, <3>3
    <2>3. QED
        BY <2>1, <2>2
<1>5. QED
    BY <1>3, <1>4

LEMMA LabelsFollow == TableInv => LabelsOfBlock
<1> SUFFICES ASSUME TableInv, Scanned, NEW a \in Listed(registry[follower.at].assets),
                    follower.tracker.cache[a].labels # registry[follower.at].assets[a].labels
             PROVE  Unnoticed(a)
    BY DEF LabelsOfBlock, Scanned
<1> DEFINE s == follower.tracker.scanned
           at == follower.at
<1>1. /\ s \in Nat /\ at \in Nat /\ 1 <= s /\ s <= at /\ at <= Len(registry)
      /\ Len(registry) \in Nat
    BY FollowerFacts DEF TableInv, Position, Scanned, NeverScanned
<1>2. registry[s].assets[a] # registry[at].assets[a]
    <2> SUFFICES ASSUME registry[s].assets[a] = registry[at].assets[a] PROVE FALSE
        OBVIOUS
    <2>1. a \in Listed(registry[s].assets)
        BY DEF Listed
    <2>2. QED
        BY <2>1 DEF TableInv, ScannedWell
<1>3. PICK h \in (s + 1) .. at : registry[h].assets[a] # registry[h - 1].assets[a]
    <2> HIDE DEF s, at
    <2>1. QED
        BY <1>1, <1>2, ChangeBetween DEF TableInv
<1>4. \A g \in (s + 1) .. at : ~registry[g].told
    BY DEF TableInv, ScannedWell
<1>5. follower.atHead => at - s < ScanInterval.head
    BY DEF TableInv, ScannedWell
<1>6. ScanInterval.head \in Nat
    BY AssetAssumption
<1> HIDE DEF s
<1>7. h \in 2 .. at /\ (\A g \in h .. at : ~registry[g].told)
    BY <1>1, <1>3, <1>4
<1>8. follower.atHead => at - h < ScanInterval.head
    BY <1>1, <1>3, <1>5, <1>6
<1>9. QED
    BY <1>3, <1>7, <1>8 DEF Unnoticed

\* The registry that prices and the API read: the labels are those of the block unless
\* no event told of the change, and a row is shown of everything the follower knows,
\* whatever fails or dies (indexer.ts, registry/tracker.ts).
THEOREM RegistryKept == AssetSpec => []RegistrySound
<1>1. TableInv => RegistrySound
    <2> SUFFICES ASSUME TableInv PROVE RegistrySound
        OBVIOUS
    <2>1. AssetTypeOK
        <3>1. follower.tracker.scanned <= follower.at
            BY FollowerFacts DEF TableInv, Position, Scanned, NeverScanned
        <3>2. \A a \in AssetIds : {table[a], follower.tracker.cache[a]} \subseteq EntryType
            BY FollowerFacts DEF TableInv, AssetShape
        <3>3. QED
            BY <3>1, <3>2, FollowerFacts DEF TableInv, AssetShape, Position, AssetTypeOK
    <2>2. Shown
        BY DEF TableInv, CacheShown, BatchKnown, Shown, Scanned
    <2>3. QED
        BY <2>1, <2>2, LabelsFollow DEF RegistrySound
<1>2. QED
    BY <1>1, AssetStarts, TableStep, PTL DEF AssetSpec
----------------------------------------------------------------------------
(* The balances: the inductive invariant. *)

BlockType == [fork : 0 .. MaxForks, body : Bodies]
Used == [forks : 0 .. MaxForks, seeds : 0 .. MaxSeeds, losses : 0 .. MaxLosses]

\* A block that is, or was, on the chain: no fork comes twice, and none is below the
\* first block of the follower.
Past(h, fork) ==
    /\ h \in 1 .. LastBlock /\ fork \in 0 .. used.forks
    /\ fork = used.forks => h <= Len(branch)
    /\ h < LiveStart => fork = 0

\* A row tells what was so at its block.
TrueRow(r) ==
    /\ Past(r.height, r.from[2]) /\ r.from[1] = r.height /\ r.key \in Keys
    /\ OnBranch(r.height, r.from[2]) => r.amount = Amount(r.height, r.key)

\* Every change that a block tells of has its row or its warning, or waits for it.
Notable(h) == Moved(h) \cap Candidates(h)
Covers(keys, blk, some, lost) ==
    \A k \in keys :
        (\E r \in some : r.key = k /\ r.from = blk) \/ <<blk[1], k>> \in lost

\* A row of every balance that was in storage at a block.
Storage(h) == {k \in Keys : Exists(h, k)}
ReadOf(keys, h, some) == \A k \in keys : \E r \in some : r.key = k /\ r.height = h

Chain ==
    /\ branch \in Seq(BlockType) /\ Len(branch) \in LiveStart - 1 .. LastBlock
    /\ used \in Used
    /\ \A h \in 1 .. Len(branch) : Past(h, branch[h].fork)

Tables ==
    /\ \A r \in rows : TrueRow(r)
    /\ \A w \in warnings : w[1] \in 1 .. LastBlock /\ w[2] \in Keys
    /\ rawBlocks \in [1 .. LastBlock -> {NoFork} \cup 0 .. MaxForks]
    /\ \A h \in 1 .. LastBlock : rawBlocks[h] # NoFork => Past(h, rawBlocks[h])
    /\ mark \in [Pipelines -> [height : 0 .. LastBlock, fork : Int]]
    /\ mark["range"].height < LiveStart

LeftBehind(p) ==
    \A h \in First(p) .. mark[p].height :
        /\ rawBlocks[h] # NoFork
        /\ OnBranch(h, rawBlocks[h]) => Covers(Notable(h), Block(h), rows, warnings)

Job(p) ==
    LET j == job[p]
        h == mark[p].height + 1
    IN  /\ j = [at |-> j.at, rows |-> j.rows, lost |-> j.lost, fork |-> j.fork]
        /\ j.at \in 0 .. Len(Statements)
        /\ IF j.at = 0 THEN j = Idle ELSE
           /\ Past(h, j.fork) /\ (p = "range" => h < LiveStart)
           /\ IsFiniteSet(j.rows) /\ \A r \in j.rows : TrueRow(r)
           /\ \A w \in j.lost : w[1] \in 1 .. LastBlock /\ w[2] \in Keys
           /\ j.at > 1 => rawBlocks[h] = j.fork
           /\ OnBranch(h, j.fork) =>
                  Covers(Notable(h), Block(h),
                         rows \cup (IF j.at <= 2 THEN j.rows ELSE {}),
                         warnings \cup (IF j.at <= 3 THEN j.lost ELSE {}))

Jobs == DOMAIN job = Pipelines /\ \A p \in Pipelines : LeftBehind(p) /\ Job(p)

Pass ==
    /\ pass = [anchor |-> pass.anchor, rows |-> pass.rows]
    /\ pass # NoSeed =>
           /\ Past(pass.anchor[1], pass.anchor[2])
           /\ IsFiniteSet(pass.rows) /\ \A r \in pass.rows : TrueRow(r)
           /\ OnBranch(pass.anchor[1], pass.anchor[2]) =>
                  ReadOf(Storage(pass.anchor[1]), pass.anchor[1], rows \cup pass.rows)

Seeds ==
    \A anchor \in seeded :
        /\ Past(anchor[1], anchor[2])
        /\ OnBranch(anchor[1], anchor[2]) => ReadOf(Storage(anchor[1]), anchor[1], rows)

BalanceInv == Chain /\ Tables /\ Jobs /\ Pass /\ Seeds

----------------------------------------------------------------------------
(* The balances: heights, candidates and chunks. *)

LEMMA BalanceFacts ==
    /\ LastBlock \in Nat /\ LiveStart \in Nat /\ LiveStart >= 2 /\ LiveStart <= LastBlock
    /\ MaxForks \in Nat /\ MaxSeeds \in Nat /\ MaxLosses \in Nat /\ CHUNK \in Nat
    /\ IsFiniteSet(Keys)
BY RawBalancesAssumption

\* Among heights that are bounded there is a highest.
LEMMA HighestFacts ==
    ASSUME NEW S \in SUBSET Nat, S # {}, NEW bound \in Nat, \A h \in S : h <= bound
    PROVE  Highest(S) \in S /\ \A h \in S : h <= Highest(S)
<1> DEFINE Below == {bound - h : h \in S}
<1>1. Below \subseteq Nat /\ Below # {}
    <2>1. \A h \in S : bound - h \in Nat
        OBVIOUS
    <2>2. QED
        BY <2>1
<1>2. PICK least \in Below : \A other \in Below : ~(<<other, least>> \in OpToRel(<, Nat))
    BY <1>1, WFMin, NatLessThanWellFounded
<1>3. PICK top \in S : least = bound - top
    BY <1>2
<1>4. ASSUME NEW h \in S PROVE h <= top
    <2>1. bound - h \in Below
        OBVIOUS
    <2>2. ~(<<bound - h, least>> \in OpToRel(<, Nat))
        BY <1>2, <2>1
    <2>3. bound - h \in Nat /\ least \in Nat /\ bound - h >= least
        BY <1>1, <1>2, <2>1, <2>2 DEF OpToRel
    <2>4. QED
        BY <1>3, <2>3
<1>5. QED
    BY <1>4 DEF Highest

LEMMA CandidatesAreKeys ==
    ASSUME Chain, NEW h \in 1 .. Len(branch)
    PROVE  Candidates(h) \subseteq Keys
<1>1. branch[h].body \subseteq Items
    <2>1. branch[h] \in BlockType
        BY DEF Chain
    <2>2. QED
        BY <2>1, RawBalancesAssumption DEF BlockType
<1>2. \A item \in Items : CandidatesOf(item) \subseteq Keys
    BY DEF Items, CandidatesOf, Keys
<1>3. ASSUME NEW k \in Candidates(h) PROVE k \in Keys
    <2>1. \/ \E item \in branch[h].body : k \in CandidatesOf(item)
          \/ k \in Keys
        <3> DEFINE told == UNION {CandidatesOf(item) : item \in branch[h].body}
                   genesis == {x \in Keys : h = 1 /\ Exists(h, x)}
        <3>1. k \in told \/ k \in genesis
            BY <1>3 DEF Candidates
        <3>2. genesis \subseteq Keys
            OBVIOUS
        <3>3. k \in told => \E item \in branch[h].body : k \in CandidatesOf(item)
            OBVIOUS
        <3> HIDE DEF told, genesis
        <3>4. QED
            BY <3>1, <3>2, <3>3
    <2>2. QED
        BY <1>1, <1>2, <2>1
<1>4. QED
    BY <1>3

LEMMA LastMoveFacts ==
    ASSUME NEW h \in Nat, NEW k
    PROVE  LastMove(h, k) \in 0 .. h
<1>1. Changes(h, k) \subseteq 0 .. h /\ 0 \in Changes(h, k)
    BY DEF Changes
<1> DEFINE heights == Changes(h, k)
<1> HIDE DEF heights
<1>2. Highest(heights) \in heights
    <2>1. heights \in SUBSET Nat /\ heights # {} /\ \A g \in heights : g <= h
        BY <1>1 DEF heights
    <2>2. QED
        BY <2>1, HighestFacts
<1>3. QED
    BY <1>1, <1>2 DEF LastMove, heights

\* What an insert takes is of what there is to insert.
LEMMA ChunkFacts ==
    ASSUME NEW todo, IsFiniteSet(todo)
    PROVE  /\ ChunkOf(todo) \subseteq todo
           /\ Cardinality(todo) <= CHUNK => ChunkOf(todo) = todo
<1>1. CASE Cardinality(todo) <= CHUNK
    BY <1>1 DEF ChunkOf
<1>2. CASE ~(Cardinality(todo) <= CHUNK)
    <2>1. Cardinality(todo) \in Nat /\ CHUNK \in Nat /\ CHUNK < Cardinality(todo)
        BY <1>2, FS_CardinalityType, BalanceFacts
    <2>2. PICK f \in Bijection(1 .. Cardinality(todo), todo) : TRUE
        BY FS_CardinalityType DEF ExistsBijection
    <2> DEFINE some == {f[i] : i \in 1 .. CHUNK}
               g == [i \in 1 .. CHUNK |-> f[i]]
    <2>3. /\ f \in [1 .. Cardinality(todo) -> todo]
          /\ \A i, j \in 1 .. Cardinality(todo) : f[i] = f[j] => i = j
        BY <2>2 DEF Bijection, Injection, IsInjective
    <2>4. 1 .. CHUNK \subseteq 1 .. Cardinality(todo)
        BY <2>1
    <2>5. some \subseteq todo
        BY <2>3, <2>4
    <2>6. g \in Bijection(1 .. CHUNK, some)
        BY <2>3, <2>4 DEF Bijection, Injection, Surjection, IsInjective
    <2>7. ExistsBijection(1 .. CHUNK, some)
        BY <2>6 DEF ExistsBijection
    <2>8. IsFiniteSet(1 .. CHUNK) /\ Cardinality(1 .. CHUNK) = CHUNK
        BY <2>1, FS_Interval
    <2> HIDE DEF some, g
    <2>9. Cardinality(some) = CHUNK
        BY <2>7, <2>8, FS_Bijection
    <2>10. \E c \in SUBSET todo : Cardinality(c) = CHUNK
        BY <2>5, <2>9
    <2>11. QED
        BY <1>2, <2>10 DEF ChunkOf
<1>3. QED
    BY <1>1, <1>2

LEMMA CoversMore ==
    ASSUME NEW keys, NEW blk, NEW some, NEW lost, Covers(keys, blk, some, lost),
           NEW some2, some \subseteq some2, NEW lost2, lost \subseteq lost2
    PROVE  Covers(keys, blk, some2, lost2)
BY DEF Covers

LEMMA ReadMore ==
    ASSUME NEW keys, NEW h, NEW some, ReadOf(keys, h, some), NEW some2, some \subseteq some2
    PROVE  ReadOf(keys, h, some2)
BY DEF ReadOf

----------------------------------------------------------------------------
(* The balances: what a block tells does not change while the block is on the chain, and *)
(* a block that has left it never comes back.                                           *)

LEMMA OnBranchFacts ==
    ASSUME Chain, NEW h \in 1 .. LastBlock, NEW fork
    PROVE  OnBranch(h, fork) <=> h <= Len(branch) /\ branch[h].fork = fork
<1>1. DOMAIN branch = 1 .. Len(branch) /\ Len(branch) \in Nat
    BY LenProperties DEF Chain
<1>2. h > 0
    BY BalanceFacts
<1>3. QED
    BY <1>1, <1>2 DEF OnBranch

LEMMA OnBranchNext ==
    ASSUME branch' \in Seq(BlockType), NEW h \in 1 .. LastBlock, NEW fork, OnBranch(h, fork)'
    PROVE  h <= Len(branch') /\ branch'[h].fork = fork
<1>1. DOMAIN branch' = 1 .. Len(branch') /\ Len(branch') \in Nat
    BY LenProperties
<1>2. h > 0
    BY BalanceFacts
<1>3. QED
    BY <1>1, <1>2 DEF OnBranch

\* What holds of a block in a step that lets it stay.
Stays(h) ==
    /\ Block(h)' = Block(h)
    /\ Notable(h)' = Notable(h)
    /\ Storage(h)' = Storage(h)
    /\ \A k \in Keys : Amount(h, k)' = Amount(h, k)

Stands ==
    \A h \in 1 .. LastBlock, fork \in Nat :
        Past(h, fork) => /\ Past(h, fork)'
                         /\ OnBranch(h, fork)' => OnBranch(h, fork) /\ Stays(h)

LEMMA PrefixStays ==
    ASSUME NEW h \in Nat \ {0}, \A g \in 1 .. h : branch'[g] = branch[g]
    PROVE  Stays(h)
<1>1. \A g \in 1 .. h : Moved(g)' = Moved(g) /\ Ended(g)' = Ended(g) /\ Block(g)' = Block(g)
    BY DEF Moved, Ended, Block
<1>2. h \in 1 .. h
    OBVIOUS
<1>3. ASSUME NEW k
      PROVE  LastMove(h, k)' = LastMove(h, k)
    <2>1. Changes(h, k)' = Changes(h, k)
        BY <1>1 DEF Changes
    <2>2. QED
        BY <2>1 DEF LastMove
<1>4. ASSUME NEW k
      PROVE  Amount(h, k)' = Amount(h, k) /\ (Exists(h, k)' <=> Exists(h, k))
    <2>1. LastMove(h, k) = 0 \/ LastMove(h, k) \in 1 .. h
        BY LastMoveFacts
    <2>2. CASE LastMove(h, k) = 0
        BY <1>3, <2>2 DEF Amount, Exists
    <2>3. CASE LastMove(h, k) \in 1 .. h
        <3>1. PICK g \in 1 .. h : LastMove(h, k) = g
            BY <2>3
        <3>2. LastMove(h, k)' = g
            BY <1>3, <3>1
        <3>3. Block(g)' = Block(g) /\ Ended(g)' = Ended(g) /\ g # 0
            BY <1>1
        <3>4. Amount(h, k) = Block(g) /\ Amount(h, k)' = Block(g)'
            BY <3>1, <3>2, <3>3 DEF Amount
        <3>5. Exists(h, k) = (k \notin Ended(g)) /\ Exists(h, k)' = (k \notin Ended(g)')
            BY <3>1, <3>2, <3>3 DEF Exists
        <3>6. QED
            BY <3>3, <3>4, <3>5
    <2>4. QED
        BY <2>1, <2>2, <2>3
<1>5. Storage(h)' = Storage(h)
    BY <1>4 DEF Storage
<1>6. Candidates(h)' = Candidates(h)
    <2>1. branch'[h] = branch[h]
        BY <1>2
    <2>2. {k \in Keys : h = 1 /\ Exists(h, k)}' = {k \in Keys : h = 1 /\ Exists(h, k)}
        BY <1>4
    <2>3. QED
        BY <2>1, <2>2 DEF Candidates
<1>7. Notable(h)' = Notable(h)
    BY <1>1, <1>2, <1>6 DEF Notable
<1>8. QED
    BY <1>1, <1>2, <1>4, <1>5, <1>7 DEF Stays

LEMMA SameChainStands ==
    ASSUME Chain, UNCHANGED branch, used'.forks = used.forks
    PROVE  Stands
<1>1. \A h \in 1 .. LastBlock, fork \in Nat :
          (Past(h, fork)' <=> Past(h, fork)) /\ (OnBranch(h, fork)' <=> OnBranch(h, fork))
    BY DEF Past, OnBranch
<1>2. \A h \in 1 .. LastBlock : Stays(h)
    BY PrefixStays, BalanceFacts
<1>3. QED
    BY <1>1, <1>2 DEF Stands

LEMMA ChainFacts ==
    ASSUME Chain
    PROVE  /\ branch \in Seq(BlockType) /\ Len(branch) \in Nat
           /\ LiveStart - 1 <= Len(branch) /\ Len(branch) <= LastBlock /\ 1 <= Len(branch)
           /\ used.forks \in 0 .. MaxForks /\ used.losses \in 0 .. MaxLosses
           /\ used \in Used
           /\ \A h \in 1 .. Len(branch) :
                  /\ branch[h].fork \in 0 .. used.forks /\ branch[h].fork \in Nat
                  /\ h < LiveStart => branch[h].fork = 0
BY BalanceFacts DEF Chain, Used, Past

LEMMA GrowStands ==
    ASSUME Chain, NEW body \in Bodies, Grow(body)
    PROVE  Chain' /\ Stands
<1>1. branch' = Append(branch, [fork |-> used.forks, body |-> body]) /\ Len(branch) < LastBlock
      /\ used' = used
    BY DEF Grow
<1> DEFINE blk == [fork |-> used.forks, body |-> body]
<1>2. blk \in BlockType /\ blk.fork = used.forks
    BY ChainFacts DEF BlockType
<1> HIDE DEF blk
<1>3. /\ branch' \in Seq(BlockType) /\ Len(branch') = Len(branch) + 1
      /\ \A h \in 1 .. Len(branch) : branch'[h] = branch[h]
      /\ branch'[Len(branch) + 1] = blk
    BY <1>1, <1>2, AppendProperties DEF Chain, blk
<1>4. \A h \in 1 .. LastBlock, fork \in Nat : Past(h, fork) => Past(h, fork)'
    BY <1>1, <1>3, ChainFacts DEF Past
<1>5. Chain'
    <2>1. Len(branch') \in LiveStart - 1 .. LastBlock /\ used' \in Used
        BY <1>1, <1>3, ChainFacts, BalanceFacts
    <2>2. ASSUME NEW h \in 1 .. Len(branch')
          PROVE  Past(h, branch[h].fork)'
        <3>1. CASE h <= Len(branch)
            BY <1>3, <1>4, <3>1, ChainFacts, BalanceFacts DEF Chain
        <3>2. CASE h = Len(branch) + 1
            BY <1>1, <1>2, <1>3, <3>2, ChainFacts, BalanceFacts DEF Past
        <3>3. QED
            BY <1>3, <3>1, <3>2, ChainFacts
    <2>3. QED
        BY <1>3, <2>1, <2>2 DEF Chain
<1>6. ASSUME NEW h \in 1 .. LastBlock, NEW fork \in Nat, Past(h, fork), OnBranch(h, fork)'
      PROVE  OnBranch(h, fork) /\ Stays(h)
    <2>1. h <= Len(branch') /\ branch'[h].fork = fork
        BY <1>3, <1>6, OnBranchNext
    <2>2. h <= Len(branch)
        BY <1>2, <1>3, <1>6, <2>1, ChainFacts DEF Past
    <2>3. Stays(h)
        <3>1. h \in Nat \ {0} /\ Len(branch) \in Nat
            BY BalanceFacts, ChainFacts
        <3>2. \A g \in 1 .. h : branch'[g] = branch[g]
            BY <1>3, <2>2, <3>1
        <3>3. QED
            BY <3>1, <3>2, PrefixStays
    <2>4. QED
        BY <1>3, <2>1, <2>2, <2>3, OnBranchFacts, ChainFacts
<1>7. QED
    BY <1>4, <1>5, <1>6 DEF Stands

LEMMA ReplaceStands ==
    ASSUME Chain, NEW h0 \in 1 .. LastBlock, NEW body \in Bodies, Replace(h0, body)
    PROVE  Chain' /\ Stands
<1>1. /\ used.forks < MaxForks /\ h0 \in LiveStart - 1 .. Len(branch) - 1
      /\ used' = [used EXCEPT !.forks = used.forks + 1]
      /\ branch' = Append(SubSeq(branch, 1, h0), [fork |-> used'.forks, body |-> body])
    BY DEF Replace
<1>2. used' \in Used /\ used'.forks = used.forks + 1 /\ used.forks + 1 \in 0 .. MaxForks
    <2>1. used.forks + 1 \in 0 .. MaxForks
        <3>1. used.forks \in 0 .. MaxForks /\ MaxForks \in Nat
            BY ChainFacts, BalanceFacts
        <3>2. used.forks < MaxForks
            BY <1>1
        <3>3. QED
            BY <3>1, <3>2
    <2>2. used \in Used
        BY ChainFacts
    <2>3. QED
        BY <1>1, <2>1, <2>2 DEF Used
<1> DEFINE blk == [fork |-> used.forks + 1, body |-> body]
           below == SubSeq(branch, 1, h0)
<1>3. blk \in BlockType /\ blk.fork = used.forks + 1
    BY <1>2 DEF BlockType
<1>4. /\ below \in Seq(BlockType) /\ Len(below) = h0
      /\ \A h \in 1 .. h0 : below[h] = branch[h]
    <2>1. h0 \in Nat /\ 1 <= h0 /\ \A h \in 1 .. h0 : branch[h] \in BlockType
        <3>1. h0 \in Nat /\ 1 <= h0 /\ h0 <= Len(branch)
            BY <1>1, ChainFacts, BalanceFacts
        <3>2. QED
            BY <3>1, ChainFacts
    <2>2. QED
        BY <2>1, SubSeqProperties
<1>5. branch' = Append(below, blk)
    BY <1>1, <1>2
<1> HIDE DEF blk, below
<1>6. /\ branch' \in Seq(BlockType) /\ Len(branch') = h0 + 1
      /\ \A h \in 1 .. h0 : branch'[h] = branch[h]
      /\ branch'[h0 + 1] = blk
    BY <1>3, <1>4, <1>5, AppendProperties
<1>7. h0 \in Nat /\ h0 >= LiveStart - 1 /\ h0 + 1 <= Len(branch)
    BY <1>1, ChainFacts, BalanceFacts
<1>8. \A h \in 1 .. LastBlock, fork \in Nat : Past(h, fork) => Past(h, fork)'
    BY <1>2, <1>6, ChainFacts DEF Past
<1>9. Chain'
    <2>1. Len(branch') \in LiveStart - 1 .. LastBlock
        BY <1>6, <1>7, ChainFacts, BalanceFacts
    <2>2. ASSUME NEW h \in 1 .. Len(branch')
          PROVE  Past(h, branch[h].fork)'
        <3>1. CASE h <= h0
            <4>1. h \in 1 .. Len(branch) /\ h \in 1 .. LastBlock
                BY <1>7, <3>1, ChainFacts, BalanceFacts
            <4>2. Past(h, branch[h].fork) /\ branch[h].fork \in Nat /\ branch'[h] = branch[h]
                BY <1>6, <1>7, <3>1, <4>1, ChainFacts DEF Chain
            <4>3. QED
                BY <1>8, <4>1, <4>2
        <3>2. CASE h = h0 + 1
            BY <1>2, <1>3, <1>6, <1>7, <3>2, ChainFacts, BalanceFacts DEF Past
        <3>3. QED
            BY <1>6, <1>7, <3>1, <3>2
    <2>3. QED
        BY <1>2, <1>6, <2>1, <2>2 DEF Chain
<1>10. ASSUME NEW h \in 1 .. LastBlock, NEW fork \in Nat, Past(h, fork), OnBranch(h, fork)'
       PROVE  OnBranch(h, fork) /\ Stays(h)
    <2>1. h <= Len(branch') /\ branch'[h].fork = fork
        BY <1>6, <1>10, OnBranchNext
    <2>2. h <= h0
        BY <1>3, <1>6, <1>7, <1>10, <2>1, ChainFacts DEF Past
    <2>3. Stays(h)
        <3>1. h \in Nat \ {0}
            BY BalanceFacts
        <3>2. \A g \in 1 .. h : branch'[g] = branch[g]
            BY <1>6, <1>7, <2>2, <3>1
        <3>3. QED
            BY <3>1, <3>2, PrefixStays
    <2>4. QED
        BY <1>6, <1>7, <2>1, <2>2, <2>3, OnBranchFacts, ChainFacts
<1>11. QED
    BY <1>8, <1>9, <1>10 DEF Stands

----------------------------------------------------------------------------
(* The balances: what a step leaves alone. *)

LEMMA RowStands ==
    ASSUME Stands, NEW r, TrueRow(r)
    PROVE  TrueRow(r)'
<1>1. r.height \in 1 .. LastBlock /\ r.from[2] \in Nat /\ r.key \in Keys /\ r.from[1] = r.height
    BY ChainFacts DEF TrueRow, Past
<1>2. /\ Past(r.height, r.from[2])'
      /\ OnBranch(r.height, r.from[2])' => OnBranch(r.height, r.from[2]) /\ Stays(r.height)
    BY <1>1 DEF Stands, TrueRow
<1>3. OnBranch(r.height, r.from[2])' => r.amount = Amount(r.height, r.key)'
    BY <1>1, <1>2 DEF TrueRow, Stays
<1>4. QED
    BY <1>1, <1>2, <1>3 DEF TrueRow

LEMMA BehindKeeps ==
    ASSUME Stands, Chain, Tables, NEW p \in Pipelines, LeftBehind(p),
           mark'[p].height <= mark[p].height, mark'[p].height \in Nat,
           \A h \in First(p) .. mark[p].height : rawBlocks'[h] = rawBlocks[h],
           rows \subseteq rows', warnings \subseteq warnings'
    PROVE  LeftBehind(p)'
<1>1. First(p) \in Nat \ {0} /\ mark[p].height \in 0 .. LastBlock
    BY BalanceFacts DEF First, Tables
<1>2. First(p)' = First(p)
    BY DEF First
<1>3. ASSUME NEW h \in First(p) .. mark'[p].height
      PROVE  /\ rawBlocks'[h] # NoFork
             /\ OnBranch(h, rawBlocks[h])' =>
                    Covers(Notable(h)', Block(h)', rows', warnings')
    <2>1. h \in First(p) .. mark[p].height /\ h \in 1 .. LastBlock
        BY <1>1, BalanceFacts
    <2>2. /\ rawBlocks[h] # NoFork /\ rawBlocks'[h] = rawBlocks[h]
          /\ OnBranch(h, rawBlocks[h]) => Covers(Notable(h), Block(h), rows, warnings)
        BY <2>1 DEF LeftBehind
    <2>3. PICK fork \in Nat : fork = rawBlocks[h] /\ Past(h, fork)
        BY <2>1, <2>2, BalanceFacts DEF Tables, NoFork
    <2>4. OnBranch(h, fork)' => OnBranch(h, fork) /\ Stays(h)
        BY <2>1, <2>3 DEF Stands
    <2>5. OnBranch(h, rawBlocks[h])' <=> OnBranch(h, fork)'
        BY <2>2, <2>3 DEF OnBranch
    <2>6. ASSUME OnBranch(h, fork)'
          PROVE  Covers(Notable(h)', Block(h)', rows', warnings')
        <3>1. Covers(Notable(h), Block(h), rows, warnings)
            BY <2>2, <2>3, <2>4, <2>6
        <3>2. Notable(h)' = Notable(h) /\ Block(h)' = Block(h)
            BY <2>4, <2>6 DEF Stays
        <3>3. Covers(Notable(h), Block(h), rows', warnings')
            BY <3>1, CoversMore
        <3>4. QED
            BY <3>2, <3>3
    <2>7. QED
        BY <2>2, <2>5, <2>6
<1>4. QED
    BY <1>2, <1>3 DEF LeftBehind

\* What a job has to hand over to the tables, with what they have.
JobRows(p) == rows \cup (IF job[p].at <= 2 THEN job[p].rows ELSE {})
JobLost(p) == warnings \cup (IF job[p].at <= 3 THEN job[p].lost ELSE {})
JobAt(p) == mark[p].height + 1

\* A block that a pipeline works on, in full.
Working(p) ==
    /\ Past(JobAt(p), job[p].fork) /\ (p = "range" => JobAt(p) < LiveStart)
    /\ IsFiniteSet(job[p].rows) /\ \A r \in job[p].rows : TrueRow(r)
    /\ \A w \in job[p].lost : w[1] \in 1 .. LastBlock /\ w[2] \in Keys
    /\ job[p].at > 1 => rawBlocks[JobAt(p)] = job[p].fork
    /\ OnBranch(JobAt(p), job[p].fork) =>
           Covers(Notable(JobAt(p)), Block(JobAt(p)), JobRows(p), JobLost(p))

JobForm(p) ==
    /\ job[p] = [at |-> job[p].at, rows |-> job[p].rows, lost |-> job[p].lost,
                 fork |-> job[p].fork]
    /\ job[p].at \in 0 .. 4

LEMMA JobFacts ==
    ASSUME NEW p \in Pipelines
    PROVE  /\ Job(p) <=> JobForm(p) /\ (IF job[p].at = 0 THEN job[p] = Idle ELSE Working(p))
           /\ Idle.at = 0
<1>1. Len(Statements) = 4
    BY DEF Statements
<1>2. QED
    BY <1>1 DEF Job, JobForm, Working, JobRows, JobLost, JobAt, Idle

LEMMA IdleIsJob == \A p \in Pipelines : job[p] = Idle => Job(p)
<1> SUFFICES ASSUME NEW p \in Pipelines, job[p] = Idle PROVE Job(p)
    OBVIOUS
<1>1. JobForm(p) /\ job[p].at = 0
    BY DEF JobForm, Idle
<1>2. QED
    BY <1>1, JobFacts

LEMMA WorkKeeps ==
    ASSUME Stands, Chain, Tables, NEW p \in Pipelines, Working(p), job[p].at # 0,
           JobAt(p)' = JobAt(p), job'[p].fork = job[p].fork, job'[p].at \in Nat,
           IsFiniteSet(job'[p].rows), \A r \in job'[p].rows : r \in job[p].rows,
           job'[p].lost = job[p].lost,
           job'[p].at > 1 => rawBlocks'[JobAt(p)] = job[p].fork,
           JobRows(p) \subseteq JobRows(p)', JobLost(p) \subseteq JobLost(p)'
    PROVE  Working(p)'
<1>1. PICK h : h = JobAt(p)
    OBVIOUS
<1>2. PICK fork : fork = job[p].fork
    OBVIOUS
<1>3. Past(h, fork) /\ (p = "range" => h < LiveStart)
    BY <1>1, <1>2 DEF Working
<1>4. h \in 1 .. LastBlock /\ fork \in Nat
    BY <1>3, ChainFacts DEF Past
<1>5. Past(h, fork)' /\ (OnBranch(h, fork)' => OnBranch(h, fork) /\ Stays(h))
    BY <1>3, <1>4 DEF Stands
<1>6. \A r \in job'[p].rows : TrueRow(r)'
    BY RowStands DEF Working
<1>7. ASSUME OnBranch(h, fork)'
      PROVE  Covers(Notable(h)', Block(h)', JobRows(p)', JobLost(p)')
    <2>1. Covers(Notable(h), Block(h), JobRows(p), JobLost(p))
        BY <1>1, <1>2, <1>5, <1>7 DEF Working
    <2>2. Notable(h)' = Notable(h) /\ Block(h)' = Block(h)
        BY <1>5, <1>7 DEF Stays
    <2>3. Covers(Notable(h), Block(h), JobRows(p)', JobLost(p)')
        BY <2>1, CoversMore
    <2>4. QED
        BY <2>2, <2>3
<1>8. JobAt(p)' = h /\ job'[p].fork = fork
    BY <1>1, <1>2
<1>9. QED
    BY <1>1, <1>2, <1>3, <1>5, <1>6, <1>7, <1>8 DEF Working

LEMMA JobKeeps ==
    ASSUME Stands, Chain, Tables, NEW p \in Pipelines, Job(p),
           job'[p] = job[p], mark'[p] = mark[p],
           job[p].at > 1 => rawBlocks'[JobAt(p)] = rawBlocks[JobAt(p)],
           rows \subseteq rows', warnings \subseteq warnings'
    PROVE  Job(p)'
<1>1. JobForm(p) /\ (IF job[p].at = 0 THEN job[p] = Idle ELSE Working(p))
    BY JobFacts
<1>2. JobForm(p)'
    BY <1>1 DEF JobForm
<1>3. CASE job[p].at = 0
    <2>1. Job(p)' <=> JobForm(p)' /\ (IF job'[p].at = 0 THEN job'[p] = Idle ELSE Working(p)')
        <3>1. Len(Statements) = 4
            BY DEF Statements
        <3>2. QED
            BY <3>1 DEF Job, JobForm, Working, JobRows, JobLost, JobAt
    <2>2. QED
        BY <1>1, <1>2, <1>3, <2>1
<1>4. CASE job[p].at # 0
    <2>1. JobAt(p)' = JobAt(p)
        BY DEF JobAt
    <2>2. JobRows(p) \subseteq JobRows(p)' /\ JobLost(p) \subseteq JobLost(p)'
        BY DEF JobRows, JobLost
    <2>3. job[p].at \in Nat
        BY <1>1 DEF JobForm
    <2>4. job'[p].at > 1 => rawBlocks'[JobAt(p)] = job[p].fork
        BY <1>1, <1>4 DEF Working
    <2>5. IsFiniteSet(job'[p].rows) /\ Working(p)
        BY <1>1, <1>4 DEF Working
    <2>6. Working(p)'
        BY <1>4, <2>1, <2>2, <2>3, <2>4, <2>5, WorkKeeps
    <2>7. Len(Statements) = 4
        BY DEF Statements
    <2>8. QED
        BY <1>2, <1>4, <2>6, <2>7 DEF Job, JobForm, Working, JobRows, JobLost, JobAt
<1>5. QED
    BY <1>3, <1>4

LEMMA PassKeeps ==
    ASSUME Stands, Chain, Pass, pass' = pass, rows \subseteq rows'
    PROVE  Pass'
<1> SUFFICES ASSUME pass # NoSeed
             PROVE  /\ Past(pass.anchor[1], pass.anchor[2])'
                    /\ \A r \in pass.rows : TrueRow(r)'
                    /\ OnBranch(pass.anchor[1], pass.anchor[2])' =>
                           ReadOf(Storage(pass.anchor[1]), pass.anchor[1], rows \cup pass.rows)'
    BY DEF Pass
<1>1. PICK h, fork : h = pass.anchor[1] /\ fork = pass.anchor[2] /\ Past(h, fork)
    BY DEF Pass
<1>2. h \in 1 .. LastBlock /\ fork \in Nat
    BY <1>1, ChainFacts DEF Past
<1>3. Past(h, fork)' /\ (OnBranch(h, fork)' => OnBranch(h, fork) /\ Stays(h))
    BY <1>1, <1>2 DEF Stands
<1>4. \A r \in pass.rows : TrueRow(r)'
    BY RowStands DEF Pass
<1>5. ASSUME OnBranch(h, fork)' PROVE ReadOf(Storage(h)', h, rows' \cup pass.rows)
    <2>1. ReadOf(Storage(h), h, rows \cup pass.rows)
        BY <1>1, <1>3, <1>5 DEF Pass
    <2>2. ReadOf(Storage(h), h, rows' \cup pass.rows)
        BY <2>1, ReadMore
    <2>3. QED
        BY <1>3, <1>5, <2>2 DEF Stays
<1>6. pass'.anchor[1] = h /\ pass'.anchor[2] = fork
    BY <1>1
<1>7. QED
    BY <1>1, <1>3, <1>4, <1>5, <1>6

\* An anchor whose pass has come to its end.
Seeded(anchor) ==
    /\ Past(anchor[1], anchor[2])
    /\ OnBranch(anchor[1], anchor[2]) => ReadOf(Storage(anchor[1]), anchor[1], rows)

LEMMA SeedKeeps ==
    ASSUME Stands, Chain, NEW anchor, Seeded(anchor), rows \subseteq rows'
    PROVE  Seeded(anchor)'
<1>1. Past(anchor[1], anchor[2])
    BY DEF Seeded
<1>2. anchor[1] \in 1 .. LastBlock /\ anchor[2] \in Nat
    BY <1>1, ChainFacts DEF Past
<1>3. /\ Past(anchor[1], anchor[2])'
      /\ OnBranch(anchor[1], anchor[2])' => OnBranch(anchor[1], anchor[2]) /\ Stays(anchor[1])
    BY <1>1, <1>2 DEF Stands
<1>4. ASSUME OnBranch(anchor[1], anchor[2])'
      PROVE  ReadOf(Storage(anchor[1])', anchor[1], rows')
    <2>1. ReadOf(Storage(anchor[1]), anchor[1], rows)
        BY <1>3, <1>4 DEF Seeded
    <2>2. ReadOf(Storage(anchor[1]), anchor[1], rows')
        BY <2>1, ReadMore
    <2>3. QED
        BY <1>3, <1>4, <2>2 DEF Stays
<1>5. QED
    BY <1>3, <1>4 DEF Seeded

LEMMA SeedsKeep ==
    ASSUME Stands, Chain, Seeds, seeded' = seeded, rows \subseteq rows'
    PROVE  Seeds'
<1>1. \A anchor \in seeded : Seeded(anchor)
    BY DEF Seeds, Seeded
<1>2. \A anchor \in seeded : Seeded(anchor)'
    BY <1>1, SeedKeeps
<1>3. QED
    BY <1>2 DEF Seeds, Seeded

\* The tables, when rows that are true are added.
LEMMA TablesKeep ==
    ASSUME Stands, Chain, Tables, UNCHANGED <<rawBlocks, mark>>,
           \A r \in rows' : r \in rows \/ TrueRow(r),
           \A w \in warnings' : w \in warnings \/ (w[1] \in 1 .. LastBlock /\ w[2] \in Keys)
    PROVE  Tables'
<1>1. \A r \in rows' : TrueRow(r)'
    BY RowStands DEF Tables
<1>2. ASSUME NEW h \in 1 .. LastBlock, rawBlocks[h] # NoFork
      PROVE  Past(h, rawBlocks[h])'
    <2>1. PICK fork \in Nat : fork = rawBlocks[h] /\ Past(h, fork)
        BY <1>2, BalanceFacts DEF Tables, NoFork
    <2>2. Past(h, fork)'
        BY <2>1 DEF Stands
    <2>3. rawBlocks'[h] = fork
        BY <2>1
    <2>4. QED
        BY <2>2, <2>3
<1>3. QED
    BY <1>1, <1>2 DEF Tables

----------------------------------------------------------------------------
(* The balances: every step keeps the invariant. *)

LEMMA InvParts ==
    ASSUME BalanceInv
    PROVE  /\ Chain /\ Tables /\ Pass /\ Seeds /\ DOMAIN job = Pipelines
           /\ \A p \in Pipelines : LeftBehind(p) /\ Job(p)
           /\ \A p \in Pipelines : mark[p].height \in 0 .. LastBlock
           /\ mark["range"].height < LiveStart
           /\ \A p \in Pipelines : First(p) \in 1 .. LiveStart
<1>1. \A p \in Pipelines : First(p) \in 1 .. LiveStart
    BY BalanceFacts DEF First
<1>2. QED
    BY <1>1 DEF BalanceInv, Jobs, Tables

\* A step of which only the chain and the bounds may know.
LEMMA NothingElse ==
    ASSUME BalanceInv, Chain', Stands,
           UNCHANGED <<rows, warnings, rawBlocks, mark, job, pass, seeded>>
    PROVE  BalanceInv'
<1>1. Tables'
    BY InvParts, TablesKeep
<1>2. Pass' /\ Seeds'
    BY InvParts, PassKeeps, SeedsKeep
<1>3. \A p \in Pipelines : LeftBehind(p)' /\ Job(p)'
    BY InvParts, BehindKeeps, JobKeeps
<1>4. QED
    BY <1>1, <1>2, <1>3, InvParts DEF BalanceInv, Jobs

LEMMA GrowKeeps == ASSUME BalanceInv, NEW body \in Bodies, Grow(body) PROVE BalanceInv'
<1>1. UNCHANGED <<rows, warnings, rawBlocks, mark, job, pass, seeded>>
    BY DEF Grow
<1>2. QED
    BY <1>1, InvParts, GrowStands, NothingElse

LEMMA ReplaceKeeps ==
    ASSUME BalanceInv, NEW body \in Bodies, NEW h \in 1 .. LastBlock, Replace(h, body)
    PROVE  BalanceInv'
<1>1. UNCHANGED <<rows, warnings, rawBlocks, mark, job, pass, seeded>>
    BY DEF Replace
<1>2. QED
    BY <1>1, InvParts, ReplaceStands, NothingElse

\* A step of a pipeline or of the script leaves the chain alone.
LEMMA StillChain ==
    ASSUME BalanceInv, UNCHANGED branch, used' \in Used, used'.forks = used.forks
    PROVE  Chain' /\ Stands
<1>1. Stands
    BY InvParts, SameChainStands
<1>2. \A h \in 1 .. Len(branch) : Past(h, branch[h].fork)'
    BY InvParts DEF Chain, Past
<1>3. QED
    BY <1>1, <1>2, InvParts DEF Chain

LEMMA ObservationIsTrue ==
    ASSUME Chain, NEW h \in 1 .. Len(branch), NEW k \in Keys
    PROVE  /\ TrueRow(Observation(h, k))
           /\ Observation(h, k).height = h /\ Observation(h, k).key = k
           /\ Observation(h, k).from = Block(h)
<1>1. Past(h, branch[h].fork)
    BY DEF Chain
<1>2. QED
    BY <1>1 DEF TrueRow, Observation, Block

LEMMA ObservationsFinite ==
    ASSUME NEW S, S \subseteq Keys, NEW h
    PROVE  IsFiniteSet({Observation(h, k) : k \in S})
<1> DEFINE T == {Observation(h, k) : k \in S}
           f == [k \in S |-> Observation(h, k)]
<1>1. IsFiniteSet(S)
    BY FS_Subset, BalanceFacts
<1>2. f \in Surjection(S, T)
    BY DEF Surjection
<1> HIDE DEF T, f
<1>3. IsFiniteSet(T)
    BY <1>1, <1>2, FS_Surjection
<1>4. QED
    BY <1>3 DEF T

\* A block is searched and read.
LEMMA ExtractKeeps == ASSUME BalanceInv, NEW p \in Pipelines, Extract(p) PROVE BalanceInv'
<1> DEFINE h == mark[p].height + 1
<1>1. job[p] = Idle /\ h <= LastOf(p)
      /\ UNCHANGED <<branch, rows, warnings, rawBlocks, mark, pass, seeded>>
    BY DEF Extract
<1>2. PICK failed \in SUBSET Candidates(h) :
          /\ used.losses + Cardinality(failed) <= MaxLosses
          /\ used' = [used EXCEPT !.losses = @ + Cardinality(failed)]
          /\ job' = [job EXCEPT ![p] =
                 [at |-> 1, fork |-> branch[h].fork,
                  rows |-> {Observation(h, k) : k \in Candidates(h) \ failed},
                  lost |-> {<<h, k>> : k \in failed}]]
    BY DEF Extract
<1>3. /\ h \in 1 .. Len(branch) /\ h \in 1 .. LastBlock
      /\ p = "range" => h < LiveStart
    <2>1. mark[p].height \in Nat /\ Len(branch) \in Nat /\ Len(branch) <= LastBlock
          /\ LiveStart - 1 <= Len(branch)
        BY InvParts, ChainFacts, BalanceFacts
    <2>2. QED
        BY <1>1, <2>1, BalanceFacts DEF LastOf
<1>4. Candidates(h) \subseteq Keys /\ failed \subseteq Keys
    BY <1>2, <1>3, CandidatesAreKeys, InvParts
<1>5. used' \in Used /\ used'.forks = used.forks
    <2>1. Cardinality(failed) \in Nat
        BY <1>4, FS_Subset, FS_CardinalityType, BalanceFacts
    <2>2. used \in Used /\ used.losses \in Nat
        BY InvParts, ChainFacts
    <2>3. used.losses + Cardinality(failed) \in 0 .. MaxLosses
        BY <1>2, <2>1, <2>2, BalanceFacts
    <2>4. QED
        BY <1>2, <2>2, <2>3 DEF Used
<1>6. Chain' /\ Stands
    BY <1>1, <1>5, StillChain
<1> DEFINE read == {Observation(h, k) : k \in Candidates(h) \ failed}
           lost == {<<h, k>> : k \in failed}
<1>7. /\ DOMAIN job' = Pipelines /\ \A q \in Pipelines \ {p} : job'[q] = job[q]
      /\ job'[p] = [at |-> 1, fork |-> branch[h].fork, rows |-> read, lost |-> lost]
    BY <1>2, InvParts
<1>8. /\ IsFiniteSet(read) /\ \A r \in read : TrueRow(r)
      /\ \A k \in Candidates(h) \ failed :
             \E r \in read : r.key = k /\ r.from = Block(h)
    <2>1. IsFiniteSet(read)
        <3>1. Candidates(h) \ failed \subseteq Keys
            BY <1>4
        <3>2. QED
            BY <3>1, ObservationsFinite
    <2>2. QED
        BY <1>3, <1>4, <2>1, ObservationIsTrue, InvParts
<1>9. \A w \in lost : w[1] \in 1 .. LastBlock /\ w[2] \in Keys
    BY <1>3, <1>4
<1>10. \A k \in failed : <<h, k>> \in lost
    OBVIOUS
<1>11. PICK at, fork : at = h /\ fork = branch[h].fork
    OBVIOUS
<1> HIDE DEF read, lost
<1>12. /\ JobAt(p)' = at /\ job'[p].at = 1 /\ job'[p].fork = fork
       /\ job'[p].rows = read /\ job'[p].lost = lost
    BY <1>1, <1>7, <1>11 DEF JobAt
<1>13. JobForm(p)'
    BY <1>7, <1>12 DEF JobForm
<1>14. Past(at, fork)' /\ (OnBranch(at, fork)' => Stays(at))
    <2>1. Past(at, fork) /\ at \in 1 .. LastBlock /\ fork \in Nat
        BY <1>3, <1>11, InvParts, ChainFacts DEF Chain
    <2>2. QED
        BY <1>6, <2>1 DEF Stands
<1>15. Covers(Notable(at), Block(at), JobRows(p)', JobLost(p)')
    <2>1. JobRows(p)' = rows \cup read /\ JobLost(p)' = warnings \cup lost
        BY <1>1, <1>12 DEF JobRows, JobLost
    <2>2. Notable(at) \subseteq Candidates(at) /\ Block(at)[1] = at
        BY DEF Notable, Block
    <2>3. QED
        BY <1>8, <1>10, <1>11, <2>1, <2>2 DEF Covers
<1>16. Working(p)'
    <2>1. OnBranch(at, fork)' =>
              Covers(Notable(at)', Block(at)', JobRows(p)', JobLost(p)')
        BY <1>14, <1>15 DEF Stays
    <2>2. \A r \in read : TrueRow(r)'
        BY <1>6, <1>8, RowStands
    <2>3. p = "range" => at < LiveStart
        BY <1>3, <1>11
    <2>4. QED
        BY <1>8, <1>9, <1>12, <1>14, <2>1, <2>2, <2>3 DEF Working
<1>17. Job(p)'
    <2>1. Len(Statements) = 4
        BY DEF Statements
    <2>2. QED
        BY <1>12, <1>13, <1>16, <2>1 DEF Job, JobForm, Working, JobRows, JobLost, JobAt
<1>18. \A q \in Pipelines : q # p => Job(q)'
    BY <1>1, <1>6, <1>7, InvParts, JobKeeps
<1>19. \A q \in Pipelines : LeftBehind(q)'
    BY <1>1, <1>6, InvParts, BehindKeeps
<1>20. Tables' /\ Pass' /\ Seeds'
    BY <1>1, <1>6, InvParts, TablesKeep, PassKeeps, SeedsKeep
<1>21. QED
    BY <1>6, <1>7, <1>17, <1>18, <1>19, <1>20 DEF BalanceInv, Jobs

LEMMA JobNext ==
    ASSUME NEW p \in Pipelines, JobForm(p)',
           IF job'[p].at = 0 THEN job'[p] = Idle ELSE Working(p)'
    PROVE  Job(p)'
<1>1. Len(Statements) = 4
    BY DEF Statements
<1>2. QED
    BY <1>1 DEF Job, JobForm, Working, JobRows, JobLost, JobAt

LEMMA IdleNext == ASSUME NEW p \in Pipelines, job'[p] = Idle PROVE Job(p)'
<1>1. JobForm(p)' /\ job'[p].at = 0
    BY DEF JobForm, Idle
<1>2. QED
    BY <1>1, JobNext

\* Which statement is next tells how far a job is.
LEMMA StatementFacts ==
    ASSUME BalanceInv, NEW p \in Pipelines, Statement(p) # "none"
    PROVE  /\ job[p].at \in 1 .. 4 /\ JobForm(p) /\ Working(p) /\ job[p] # Idle
           /\ Statement(p) = "blocks" => job[p].at = 1
           /\ Statement(p) = "balances" => job[p].at = 2
           /\ Statement(p) = "warnings" => job[p].at = 3
           /\ Statement(p) = "checkpoint" => job[p].at = 4
<1>1. job[p] # Idle
    BY DEF Statement
<1>2. JobForm(p) /\ Working(p) /\ job[p].at # 0
    BY <1>1, InvParts, JobFacts
<1>3. job[p].at \in 1 .. 4
    BY <1>2 DEF JobForm
<1>4. /\ Statements[1] = "blocks" /\ Statements[2] = "balances"
      /\ Statements[3] = "warnings" /\ Statements[4] = "checkpoint"
    BY DEF Statements
<1>5. Statement(p) = Statements[job[p].at]
    BY <1>1 DEF Statement
<1>6. job[p].at = 1 \/ job[p].at = 2 \/ job[p].at = 3 \/ job[p].at = 4
    BY <1>3
<1>7. QED
    BY <1>1, <1>2, <1>3, <1>4, <1>5, <1>6

LEMMA AdvanceFacts ==
    ASSUME BalanceInv, NEW p \in Pipelines, Statement(p) # "none", Advance(p)
    PROVE  /\ DOMAIN job' = Pipelines /\ \A q \in Pipelines \ {p} : job'[q] = job[q]
           /\ job[p].at = 4 => job'[p] = Idle
           /\ job[p].at < 4 =>
                  /\ JobForm(p)' /\ job'[p].at = job[p].at + 1
                  /\ job'[p].rows = job[p].rows /\ job'[p].lost = job[p].lost
                  /\ job'[p].fork = job[p].fork
<1>1. job[p].at \in 1 .. 4 /\ JobForm(p)
    BY StatementFacts
<1>2. Len(Statements) = 4
    BY DEF Statements
<1>3. PICK next : /\ next = IF job[p].at = 4 THEN Idle ELSE [job[p] EXCEPT !.at = job[p].at + 1]
                  /\ job' = [job EXCEPT ![p] = next]
    BY <1>2 DEF Advance
<1>4. /\ DOMAIN job' = Pipelines /\ \A q \in Pipelines \ {p} : job'[q] = job[q]
      /\ job'[p] = next
    BY <1>3, InvParts
<1>5. ASSUME job[p].at < 4
      PROVE  /\ next = [at |-> job[p].at + 1, rows |-> job[p].rows, lost |-> job[p].lost,
                        fork |-> job[p].fork]
    <2>1. PICK j : j = job[p] /\ j = [at |-> j.at, rows |-> j.rows, lost |-> j.lost, fork |-> j.fork]
        BY <1>1 DEF JobForm
    <2>2. next = [j EXCEPT !.at = j.at + 1]
        BY <1>1, <1>3, <1>5, <2>1
    <2>3. QED
        BY <2>1, <2>2
<1>6. ASSUME job[p].at < 4
      PROVE  /\ JobForm(p)' /\ job'[p].at = job[p].at + 1
             /\ job'[p].rows = job[p].rows /\ job'[p].lost = job[p].lost
             /\ job'[p].fork = job[p].fork
    BY <1>1, <1>4, <1>5, <1>6 DEF JobForm
<1>7. QED
    BY <1>3, <1>4, <1>6

\* What a step of one pipeline leaves of the other, and of the script.
LEMMA OtherJobs ==
    ASSUME BalanceInv, Stands, NEW p \in Pipelines,
           \A q \in Pipelines \ {p} : job'[q] = job[q] /\ mark'[q] = mark[q],
           UNCHANGED rawBlocks, rows \subseteq rows', warnings \subseteq warnings'
    PROVE  \A q \in Pipelines \ {p} : LeftBehind(q)' /\ Job(q)'
<1>1. \A q \in Pipelines : mark[q].height \in Nat /\ mark[q].height <= mark[q].height
    BY InvParts, BalanceFacts
<1>2. QED
    BY <1>1, InvParts, BehindKeeps, JobKeeps

\* The block is stored.  The worker's blocks have one fork, whoever stores them.
LEMMA BlockKeeps == ASSUME BalanceInv, NEW p \in Pipelines, InsertBlock(p) PROVE BalanceInv'
<1>1. /\ Statement(p) = "blocks" /\ Advance(p)
      /\ rawBlocks' = [rawBlocks EXCEPT ![JobAt(p)] = job[p].fork]
      /\ UNCHANGED <<branch, rows, warnings, mark, pass, seeded, used>>
    BY DEF InsertBlock, JobAt
<1>2. Chain' /\ Stands
    BY <1>1, StillChain, InvParts, ChainFacts
<1>3. job[p].at = 1 /\ Working(p)
    BY <1>1, StatementFacts
<1>4. /\ DOMAIN job' = Pipelines /\ \A q \in Pipelines \ {p} : job'[q] = job[q]
      /\ JobForm(p)' /\ job'[p].at = 2 /\ job'[p].rows = job[p].rows
      /\ job'[p].lost = job[p].lost /\ job'[p].fork = job[p].fork
    BY <1>1, <1>3, AdvanceFacts
<1>5. PICK at, fork : at = JobAt(p) /\ fork = job[p].fork
    OBVIOUS
<1>6. /\ Past(at, fork) /\ (p = "range" => at < LiveStart)
      /\ at \in 1 .. LastBlock /\ fork \in 0 .. MaxForks
    <2>1. Past(at, fork) /\ (p = "range" => at < LiveStart)
        BY <1>3, <1>5 DEF Working
    <2>2. QED
        BY <2>1, InvParts, ChainFacts, BalanceFacts DEF Past
<1>7. /\ rawBlocks' \in [1 .. LastBlock -> {NoFork} \cup 0 .. MaxForks]
      /\ rawBlocks'[at] = fork
      /\ \A h \in 1 .. LastBlock : h # at => rawBlocks'[h] = rawBlocks[h]
    <2>1. rawBlocks \in [1 .. LastBlock -> {NoFork} \cup 0 .. MaxForks]
        BY InvParts DEF Tables
    <2>2. rawBlocks' = [rawBlocks EXCEPT ![at] = fork]
        BY <1>1, <1>5
    <2>3. QED
        BY <1>6, <2>1, <2>2
<1>8. \A h \in 1 .. LastBlock : h < LiveStart /\ rawBlocks[h] # NoFork => rawBlocks[h] = 0
    BY InvParts DEF Tables, Past
<1>9. at < LiveStart => fork = 0
    BY <1>6 DEF Past
<1>10. ASSUME NEW h \in 1 .. LastBlock, h < LiveStart, rawBlocks[h] # NoFork
       PROVE  rawBlocks'[h] = rawBlocks[h]
    BY <1>7, <1>8, <1>9, <1>10
<1>11. Tables'
    <2>1. \A r \in rows' : TrueRow(r)'
        BY <1>1, <1>2, RowStands, InvParts DEF Tables
    <2>2. ASSUME NEW h \in 1 .. LastBlock, rawBlocks'[h] # NoFork
          PROVE  Past(h, rawBlocks[h])'
        <3>1. PICK f : f = rawBlocks'[h] /\ f \in Nat /\ Past(h, f)
            <4>1. CASE h = at
                BY <1>6, <1>7, <4>1
            <4>2. CASE h # at
                BY <1>7, <2>2, <4>2, InvParts, BalanceFacts DEF Tables, NoFork
            <4>3. QED
                BY <4>1, <4>2
        <3>2. Past(h, f)'
            BY <1>2, <3>1 DEF Stands
        <3>3. QED
            BY <3>1, <3>2
    <2>3. QED
        BY <1>1, <1>7, <2>1, <2>2, InvParts DEF Tables
<1>12. ASSUME NEW q \in Pipelines
       PROVE  LeftBehind(q)'
    <2>1. ASSUME NEW h \in First(q) .. mark[q].height
          PROVE  rawBlocks'[h] = rawBlocks[h]
        <3>1. /\ h \in 1 .. LastBlock /\ h <= mark[q].height /\ First(q) <= h
              /\ mark[q].height \in Nat /\ mark[p].height \in Nat
            BY InvParts, BalanceFacts
        <3>2. rawBlocks[h] # NoFork
            BY InvParts DEF LeftBehind
        <3>3. CASE h # at
            BY <1>7, <3>1, <3>3
        <3>4. CASE h < LiveStart
            BY <1>10, <3>1, <3>2, <3>4
        <3>5. CASE h = at /\ ~(h < LiveStart)
            <4>1. p = "live"
                BY <1>6, <3>5 DEF Pipelines
            <4>2. q = "live"
                BY <3>1, <3>5, InvParts, BalanceFacts DEF Pipelines
            <4>3. FALSE
                BY <1>5, <3>1, <3>5, <4>1, <4>2 DEF JobAt
            <4>4. QED
                BY <4>3
        <3>6. QED
            BY <3>3, <3>4, <3>5
    <2>2. mark'[q].height <= mark[q].height /\ mark'[q].height \in Nat
        BY <1>1, InvParts, BalanceFacts
    <2>3. QED
        BY <1>1, <1>2, <2>1, <2>2, InvParts, BehindKeeps
<1>13. ASSUME NEW q \in Pipelines, q # p
       PROVE  Job(q)'
    <2>1. ASSUME job[q].at > 1
          PROVE  rawBlocks'[JobAt(q)] = rawBlocks[JobAt(q)]
        <3>1. Working(q)
            BY <2>1, InvParts, JobFacts DEF JobForm
        <3>2. /\ Past(JobAt(q), job[q].fork) /\ rawBlocks[JobAt(q)] = job[q].fork
              /\ q = "range" => JobAt(q) < LiveStart
            BY <2>1, <3>1 DEF Working
        <3>3. JobAt(q) \in 1 .. LastBlock /\ job[q].fork \in Nat
            BY <3>2, InvParts, ChainFacts DEF Past
        <3>4. CASE JobAt(q) # at
            BY <1>7, <3>3, <3>4
        <3>5. CASE JobAt(q) = at
            <4>1. at < LiveStart
                BY <1>6, <1>13, <3>2, <3>5 DEF Pipelines
            <4>2. rawBlocks[JobAt(q)] # NoFork
                BY <3>2, <3>3 DEF NoFork
            <4>3. QED
                BY <1>10, <3>3, <3>5, <4>1, <4>2
        <3>6. QED
            BY <3>4, <3>5
    <2>2. job'[q] = job[q] /\ mark'[q] = mark[q]
        BY <1>1, <1>4, <1>13
    <2>3. QED
        BY <1>1, <1>2, <2>1, <2>2, InvParts, JobKeeps
<1>14. Job(p)'
    <2>1. JobAt(p)' = JobAt(p)
        BY <1>1 DEF JobAt
    <2>2. JobRows(p)' = JobRows(p) /\ JobLost(p)' = JobLost(p)
        BY <1>1, <1>3, <1>4 DEF JobRows, JobLost
    <2>3. IsFiniteSet(job'[p].rows)
        BY <1>3, <1>4 DEF Working
    <2>4. Working(p)'
        BY <1>2, <1>3, <1>4, <1>5, <1>7, <2>1, <2>2, <2>3, InvParts, WorkKeeps
    <2>5. QED
        BY <1>4, <2>4, JobNext
<1>15. Pass' /\ Seeds'
    BY <1>1, <1>2, InvParts, PassKeeps, SeedsKeep
<1>16. QED
    BY <1>2, <1>4, <1>11, <1>12, <1>13, <1>14, <1>15 DEF BalanceInv, Jobs

\* A step of a pipeline that leaves blocks and checkpoints alone.
LEMMA PipelineKeeps ==
    ASSUME BalanceInv, NEW p \in Pipelines,
           UNCHANGED <<branch, rawBlocks, mark, pass, seeded>>,
           used' \in Used, used'.forks = used.forks,
           rows \subseteq rows', \A r \in rows' : r \in rows \/ TrueRow(r),
           warnings \subseteq warnings',
           \A w \in warnings' : w \in warnings \/ (w[1] \in 1 .. LastBlock /\ w[2] \in Keys),
           DOMAIN job' = Pipelines, \A q \in Pipelines \ {p} : job'[q] = job[q],
           Job(p)'
    PROVE  BalanceInv'
<1>1. Chain' /\ Stands
    BY StillChain
<1>2. Tables' /\ Pass' /\ Seeds'
    BY <1>1, InvParts, TablesKeep, PassKeeps, SeedsKeep
<1>3. \A q \in Pipelines : q # p => Job(q)'
    BY <1>1, InvParts, JobKeeps
<1>4. \A q \in Pipelines : LeftBehind(q)'
    <2>1. \A q \in Pipelines : mark[q].height \in Nat /\ mark[q].height <= mark[q].height
        BY InvParts, BalanceFacts
    <2>2. QED
        BY <1>1, <2>1, InvParts, BehindKeeps
<1>5. QED
    BY <1>1, <1>2, <1>3, <1>4 DEF BalanceInv, Jobs

\* A chunk of rows is inserted, or the last of them.
LEMMA ChunkKeeps == ASSUME BalanceInv, NEW p \in Pipelines, InsertChunk(p) PROVE BalanceInv'
<1> DEFINE todo == job[p].rows
           chunk == ChunkOf(todo)
<1>1. /\ Statement(p) = "balances" /\ rows' = rows \cup chunk
      /\ UNCHANGED <<branch, warnings, rawBlocks, mark, pass, seeded, used>>
      /\ IF Cardinality(todo) <= CHUNK THEN Advance(p)
         ELSE job' = [job EXCEPT ![p].rows = @ \ ChunkOf(@)]
    BY DEF InsertChunk
<1>2. job[p].at = 2 /\ Working(p) /\ JobForm(p)
    BY <1>1, StatementFacts
<1>3. used \in Used /\ Chain' /\ Stands
    BY <1>1, StillChain, InvParts, ChainFacts
<1>4. IsFiniteSet(todo) /\ \A r \in todo : TrueRow(r)
    BY <1>2 DEF Working
<1>5. chunk \subseteq todo /\ (Cardinality(todo) <= CHUNK => chunk = todo)
    BY <1>4, ChunkFacts
<1>6. /\ DOMAIN job' = Pipelines /\ \A q \in Pipelines \ {p} : job'[q] = job[q]
      /\ JobForm(p)' /\ job'[p].at \in {2, 3}
      /\ job'[p].lost = job[p].lost /\ job'[p].fork = job[p].fork
      /\ job'[p].at = 2 => job'[p].rows = todo \ chunk
      /\ job'[p].at = 3 => chunk = todo /\ job'[p].rows = todo
    <2>1. CASE Cardinality(todo) <= CHUNK
        BY <1>1, <1>2, <1>5, <2>1, AdvanceFacts
    <2>2. CASE ~(Cardinality(todo) <= CHUNK)
        <3>1. PICK j : j = job[p] /\ j = [at |-> j.at, rows |-> j.rows, lost |-> j.lost, fork |-> j.fork]
            BY <1>2 DEF JobForm
        <3>2. PICK next : next = [j EXCEPT !.rows = j.rows \ chunk]
            OBVIOUS
        <3>3. job' = [job EXCEPT ![p] = next]
            BY <1>1, <2>2, <3>1, <3>2
        <3>4. /\ DOMAIN job' = Pipelines /\ \A q \in Pipelines \ {p} : job'[q] = job[q]
              /\ job'[p] = next
            BY <3>3, InvParts
        <3>5. next = [at |-> j.at, rows |-> j.rows \ chunk, lost |-> j.lost, fork |-> j.fork]
            BY <3>1, <3>2
        <3>6. QED
            BY <1>2, <3>1, <3>4, <3>5 DEF JobForm
    <2>3. QED
        BY <2>1, <2>2
<1> HIDE DEF todo, chunk
<1>7. JobAt(p)' = JobAt(p)
    BY <1>1 DEF JobAt
<1>8. JobRows(p) \subseteq JobRows(p)' /\ JobLost(p) \subseteq JobLost(p)'
    <2>1. JobRows(p) = rows \cup todo /\ JobLost(p) = warnings \cup job[p].lost
        BY <1>2 DEF JobRows, JobLost, todo
    <2>2. JobLost(p)' = warnings \cup job[p].lost
        BY <1>1, <1>6 DEF JobLost
    <2>3. CASE job'[p].at = 2
        <3>1. JobRows(p)' = (rows \cup chunk) \cup (todo \ chunk)
            BY <1>1, <1>6, <2>3 DEF JobRows
        <3>2. QED
            BY <2>1, <2>2, <3>1
    <2>4. CASE job'[p].at = 3
        <3>1. JobRows(p)' = rows \cup todo
            BY <1>1, <1>6, <2>4 DEF JobRows
        <3>2. QED
            BY <2>1, <2>2, <3>1
    <2>5. QED
        BY <1>6, <2>3, <2>4
<1>9. IsFiniteSet(job'[p].rows) /\ \A r \in job'[p].rows : r \in job[p].rows
    <2>1. job'[p].rows \subseteq todo
        BY <1>6
    <2>2. IsFiniteSet(job'[p].rows)
        BY <1>4, <2>1, FS_Subset
    <2>3. QED
        BY <2>1, <2>2 DEF todo
<1>10. rawBlocks'[JobAt(p)] = job[p].fork
    BY <1>1, <1>2 DEF Working
<1>11. Working(p)'
    <2>1. job'[p].at \in Nat /\ job[p].at # 0
        BY <1>2, <1>6
    <2>2. QED
        BY <1>2, <1>3, <1>6, <1>7, <1>8, <1>9, <1>10, <2>1, InvParts, WorkKeeps
<1>12. Job(p)'
    BY <1>6, <1>11, JobNext
<1>13. \A r \in rows' : r \in rows \/ TrueRow(r)
    BY <1>1, <1>4, <1>5
<1>14. QED
    BY <1>1, <1>3, <1>6, <1>12, <1>13, PipelineKeeps

LEMMA WarningsKeep == ASSUME BalanceInv, NEW p \in Pipelines, InsertWarnings(p) PROVE BalanceInv'
<1>1. /\ Statement(p) = "warnings" /\ Advance(p) /\ warnings' = warnings \cup job[p].lost
      /\ UNCHANGED <<branch, rows, rawBlocks, mark, pass, seeded, used>>
    BY DEF InsertWarnings
<1>2. job[p].at = 3 /\ Working(p)
    BY <1>1, StatementFacts
<1>3. used \in Used /\ Chain' /\ Stands
    BY <1>1, StillChain, InvParts, ChainFacts
<1>4. /\ DOMAIN job' = Pipelines /\ \A q \in Pipelines \ {p} : job'[q] = job[q]
      /\ JobForm(p)' /\ job'[p].at = 4 /\ job'[p].rows = job[p].rows
      /\ job'[p].lost = job[p].lost /\ job'[p].fork = job[p].fork
    BY <1>1, <1>2, AdvanceFacts
<1>5. JobAt(p)' = JobAt(p)
    BY <1>1 DEF JobAt
<1>6. JobRows(p) \subseteq JobRows(p)' /\ JobLost(p) \subseteq JobLost(p)'
    BY <1>1, <1>2, <1>4 DEF JobRows, JobLost
<1>7. /\ rawBlocks'[JobAt(p)] = job[p].fork /\ IsFiniteSet(job'[p].rows)
      /\ \A w \in job[p].lost : w[1] \in 1 .. LastBlock /\ w[2] \in Keys
    BY <1>1, <1>2, <1>4 DEF Working
<1>8. Job(p)'
    <2>1. Working(p)'
        BY <1>2, <1>3, <1>4, <1>5, <1>6, <1>7, InvParts, WorkKeeps
    <2>2. QED
        BY <1>4, <2>1, JobNext
<1>9. QED
    BY <1>1, <1>3, <1>4, <1>7, <1>8, PipelineKeeps

\* The process dies: its block is read again.
LEMMA DeathKeepsJobs == ASSUME BalanceInv, NEW p \in Pipelines, Dies(p) PROVE BalanceInv'
<1>1. /\ used.losses < MaxLosses /\ used' = [used EXCEPT !.losses = used.losses + 1]
      /\ job' = [job EXCEPT ![p] = Idle]
      /\ UNCHANGED <<branch, rows, warnings, rawBlocks, mark, pass, seeded>>
    BY DEF Dies
<1>2. used' \in Used /\ used'.forks = used.forks
    <2>1. used \in Used /\ used.losses \in 0 .. MaxLosses
        BY InvParts, ChainFacts
    <2>2. used.losses + 1 \in 0 .. MaxLosses
        BY <1>1, <2>1, BalanceFacts
    <2>3. QED
        BY <1>1, <2>1, <2>2 DEF Used
<1>3. /\ DOMAIN job' = Pipelines /\ \A q \in Pipelines \ {p} : job'[q] = job[q]
      /\ job'[p] = Idle
    BY <1>1, InvParts
<1>4. QED
    BY <1>1, <1>2, <1>3, IdleNext, PipelineKeeps

\* The checkpoint goes on: all that its block tells of has been handed over.
LEMMA SaveKeeps == ASSUME BalanceInv, NEW p \in Pipelines, SaveMark(p) PROVE BalanceInv'
<1>1. /\ Statement(p) = "checkpoint" /\ Advance(p)
      /\ mark' = [mark EXCEPT ![p] = [height |-> mark[p].height + 1, fork |-> job[p].fork]]
      /\ UNCHANGED <<branch, rows, warnings, rawBlocks, pass, seeded, used>>
    BY DEF SaveMark
<1>2. job[p].at = 4 /\ Working(p)
    BY <1>1, StatementFacts
<1>3. used \in Used /\ Chain' /\ Stands
    BY <1>1, StillChain, InvParts, ChainFacts
<1>4. /\ DOMAIN job' = Pipelines /\ \A q \in Pipelines \ {p} : job'[q] = job[q]
      /\ job'[p] = Idle
    BY <1>1, <1>2, AdvanceFacts
<1>5. PICK at, fork : at = JobAt(p) /\ fork = job[p].fork
    OBVIOUS
<1>6. /\ Past(at, fork) /\ (p = "range" => at < LiveStart) /\ rawBlocks[at] = fork
      /\ OnBranch(at, fork) => Covers(Notable(at), Block(at), rows, warnings)
      /\ at \in 1 .. LastBlock /\ fork \in Nat
    <2>1. JobRows(p) = rows /\ JobLost(p) = warnings
        BY <1>2 DEF JobRows, JobLost
    <2>2. Past(at, fork) /\ (p = "range" => at < LiveStart) /\ rawBlocks[at] = fork
          /\ (OnBranch(at, fork) => Covers(Notable(at), Block(at), rows, warnings))
        BY <1>2, <1>5, <2>1 DEF Working
    <2>3. QED
        BY <2>2, InvParts, ChainFacts DEF Past
<1>7. /\ mark' \in [Pipelines -> [height : 0 .. LastBlock, fork : Int]]
      /\ \A q \in Pipelines \ {p} : mark'[q] = mark[q]
      /\ mark'[p].height = at
    <2>1. mark \in [Pipelines -> [height : 0 .. LastBlock, fork : Int]]
        BY InvParts DEF Tables
    <2>2. PICK new : new = [height |-> at, fork |-> fork] /\ mark' = [mark EXCEPT ![p] = new]
        BY <1>1, <1>5 DEF JobAt
    <2>3. new \in [height : 0 .. LastBlock, fork : Int] /\ new.height = at
        BY <1>6, <2>2, BalanceFacts
    <2>4. QED
        BY <2>1, <2>2, <2>3
<1>8. mark'["range"].height < LiveStart
    BY <1>6, <1>7, InvParts DEF Pipelines
<1>9. Tables'
    <2>1. \A r \in rows' : TrueRow(r)'
        BY <1>1, <1>3, RowStands, InvParts DEF Tables
    <2>2. ASSUME NEW h \in 1 .. LastBlock, rawBlocks[h] # NoFork
          PROVE  Past(h, rawBlocks[h])'
        <3>1. Past(h, rawBlocks[h])
            BY <2>2, InvParts DEF Tables
        <3>2. QED
            BY <1>1, <3>1 DEF Past
    <2>3. QED
        BY <1>1, <1>7, <1>8, <2>1, <2>2, InvParts DEF Tables
<1>10. LeftBehind(p)'
    <2> SUFFICES ASSUME NEW h \in First(p) .. at
                 PROVE  /\ rawBlocks[h] # NoFork
                        /\ OnBranch(h, rawBlocks[h])' =>
                               Covers(Notable(h)', Block(h)', rows, warnings)
        BY <1>1, <1>7 DEF LeftBehind, First
    <2>1. h \in Nat \ {0} /\ mark[p].height \in Nat
        BY <1>6, InvParts, BalanceFacts
    <2>2. Stays(h)
        BY <1>1, <2>1, PrefixStays
    <2>3. /\ rawBlocks[h] # NoFork
          /\ OnBranch(h, rawBlocks[h]) => Covers(Notable(h), Block(h), rows, warnings)
        <3>1. CASE h = at
            BY <1>6, <3>1 DEF NoFork
        <3>2. CASE h # at
            <4>1. h \in First(p) .. mark[p].height
                BY <1>5, <2>1, <3>2, InvParts DEF JobAt
            <4>2. QED
                BY <4>1, InvParts DEF LeftBehind
        <3>3. QED
            BY <3>1, <3>2
    <2>4. OnBranch(h, rawBlocks[h])' <=> OnBranch(h, rawBlocks[h])
        BY <1>1 DEF OnBranch
    <2>5. QED
        BY <2>2, <2>3, <2>4 DEF Stays
<1>11. \A q \in Pipelines \ {p} : LeftBehind(q)' /\ Job(q)'
    BY <1>1, <1>3, <1>4, <1>7, OtherJobs
<1>12. Job(p)'
    BY <1>4, IdleNext
<1>13. Pass' /\ Seeds'
    BY <1>1, <1>3, InvParts, PassKeeps, SeedsKeep
<1>14. QED
    BY <1>3, <1>4, <1>9, <1>10, <1>11, <1>12, <1>13 DEF BalanceInv, Jobs

\* The healer takes the follower back: fewer blocks are behind it.
LEMMA HealKeeps == ASSUME BalanceInv, Heal PROVE BalanceInv'
<1>1. /\ mark["live"].height <= Len(branch)
      /\ job' = [job EXCEPT !["live"] = Idle]
      /\ UNCHANGED <<branch, rows, warnings, rawBlocks, pass, seeded, used>>
    BY DEF Heal
<1>2. mark["live"].height \in 0 .. LastBlock
    BY InvParts DEF Pipelines
<1>3. PICK top \in 1 .. mark["live"].height - 1 :
          mark' = [mark EXCEPT !["live"] = [height |-> top, fork |-> branch[top].fork]]
    BY DEF Heal
<1>4. used \in Used /\ Chain' /\ Stands
    BY <1>1, StillChain, InvParts, ChainFacts
<1>5. branch[top].fork \in Int
    <2>1. top \in 1 .. Len(branch)
        BY <1>1, <1>2, <1>3, BalanceFacts, InvParts, ChainFacts
    <2>2. QED
        BY <2>1, InvParts, ChainFacts
<1>6. /\ mark' \in [Pipelines -> [height : 0 .. LastBlock, fork : Int]]
      /\ \A q \in Pipelines \ {"live"} : mark'[q] = mark[q]
      /\ mark'["live"].height = top
    <2>1. mark \in [Pipelines -> [height : 0 .. LastBlock, fork : Int]]
        BY InvParts DEF Tables
    <2>2. PICK new : /\ new = [height |-> top, fork |-> branch[top].fork]
                     /\ mark' = [mark EXCEPT !["live"] = new]
        BY <1>3
    <2>3. new \in [height : 0 .. LastBlock, fork : Int] /\ new.height = top
        BY <1>2, <1>3, <1>5, <2>2, BalanceFacts
    <2>4. QED
        BY <2>1, <2>2, <2>3 DEF Pipelines
<1>7. Tables'
    <2>1. \A r \in rows' : TrueRow(r)'
        BY <1>1, <1>4, RowStands, InvParts DEF Tables
    <2>2. ASSUME NEW h \in 1 .. LastBlock, rawBlocks[h] # NoFork
          PROVE  Past(h, rawBlocks[h])'
        <3>1. Past(h, rawBlocks[h])
            BY <2>2, InvParts DEF Tables
        <3>2. QED
            BY <1>1, <3>1 DEF Past
    <2>3. mark'["range"] = mark["range"]
        BY <1>6 DEF Pipelines
    <2>4. QED
        BY <1>1, <1>6, <2>1, <2>2, <2>3, InvParts DEF Tables
<1>8. ASSUME NEW q \in Pipelines PROVE LeftBehind(q)'
    <2>1. mark'[q].height <= mark[q].height /\ mark'[q].height \in Nat
        <3>1. CASE q = "live"
            BY <1>2, <1>3, <1>6, <3>1, BalanceFacts
        <3>2. CASE q # "live"
            BY <1>6, <3>2, InvParts, BalanceFacts
        <3>3. QED
            BY <3>1, <3>2
    <2>2. QED
        BY <1>1, <1>4, <2>1, InvParts, BehindKeeps
<1>9. /\ DOMAIN job' = Pipelines /\ \A q \in Pipelines \ {"live"} : job'[q] = job[q]
      /\ job'["live"] = Idle /\ "live" \in Pipelines
    BY <1>1, InvParts DEF Pipelines
<1>10. \A q \in Pipelines \ {"live"} : Job(q)'
    BY <1>1, <1>4, <1>6, <1>9, InvParts, JobKeeps
<1>11. Job("live")'
    BY <1>9, IdleNext
<1>12. Pass' /\ Seeds'
    BY <1>1, <1>4, InvParts, PassKeeps, SeedsKeep
<1>13. QED
    BY <1>4, <1>7, <1>8, <1>9, <1>10, <1>11, <1>12 DEF BalanceInv, Jobs

----------------------------------------------------------------------------
(* The balances: the snapshot script. *)

\* A step of the script: what it does to its rows and anchors, and nothing else.
LEMMA ScriptKeeps ==
    ASSUME BalanceInv, UNCHANGED <<branch, warnings, rawBlocks, mark, job>>,
           used' \in Used, used'.forks = used.forks,
           rows \subseteq rows', \A r \in rows' : r \in rows \/ TrueRow(r),
           Pass', Seeds'
    PROVE  BalanceInv'
<1>1. Chain' /\ Stands
    BY StillChain
<1>2. Tables'
    BY <1>1, InvParts, TablesKeep DEF Tables
<1>3. \A q \in Pipelines : LeftBehind(q)' /\ Job(q)'
    <2>1. \A q \in Pipelines : mark[q].height \in Nat /\ mark[q].height <= mark[q].height
        BY InvParts, BalanceFacts
    <2>2. QED
        BY <1>1, <2>1, InvParts, BehindKeeps, JobKeeps
<1>4. QED
    BY <1>1, <1>2, <1>3, InvParts DEF BalanceInv, Jobs

LEMMA NoSeedIsPass == ASSUME pass' = NoSeed PROVE Pass'
BY DEF Pass, NoSeed

LEMMA SeedStartKeeps == ASSUME BalanceInv, SeedStart PROVE BalanceInv'
<1> DEFINE h == Len(branch)
           read == {Observation(h, k) : k \in {x \in Keys : Exists(h, x)}}
<1>1. /\ used.seeds < MaxSeeds /\ used' = [used EXCEPT !.seeds = used.seeds + 1]
      /\ pass' = [anchor |-> Block(h), rows |-> read]
      /\ UNCHANGED <<branch, rows, warnings, rawBlocks, mark, job, seeded>>
    BY DEF SeedStart
<1>2. used' \in Used /\ used'.forks = used.forks
    <2>1. used \in Used /\ used.seeds \in 0 .. MaxSeeds
        BY InvParts, ChainFacts DEF Used
    <2>2. used.seeds + 1 \in 0 .. MaxSeeds
        BY <1>1, <2>1, BalanceFacts
    <2>3. QED
        BY <1>1, <2>1, <2>2 DEF Used
<1>3. Chain' /\ Stands
    BY <1>1, <1>2, StillChain
<1>4. h \in 1 .. Len(branch) /\ h \in 1 .. LastBlock /\ branch[h].fork \in Nat
    BY InvParts, ChainFacts, BalanceFacts
<1>5. /\ \A r \in read : TrueRow(r)
      /\ \A k \in Storage(h) : \E r \in read : r.key = k /\ r.height = h
    BY <1>4, ObservationIsTrue, InvParts DEF Storage
<1>6. IsFiniteSet(read)
    <2>1. {x \in Keys : Exists(h, x)} \subseteq Keys
        OBVIOUS
    <2> HIDE DEF h
    <2>2. QED
        BY <2>1, ObservationsFinite
<1>7. Past(h, branch[h].fork)
    BY <1>4, InvParts DEF Chain
<1>8. PICK at, fork : at = h /\ fork = branch[h].fork
    OBVIOUS
<1> HIDE DEF read, h
<1>9. Past(at, fork)' /\ (OnBranch(at, fork)' => Stays(at))
    BY <1>3, <1>4, <1>7, <1>8 DEF Stands
<1>10. /\ pass' = [anchor |-> pass'.anchor, rows |-> pass'.rows]
       /\ pass'.anchor[1] = at /\ pass'.anchor[2] = fork /\ pass'.rows = read
    BY <1>1, <1>8 DEF Block
<1>11. OnBranch(at, fork)' => ReadOf(Storage(at)', at, rows' \cup read)
    <2>1. ReadOf(Storage(at), at, rows' \cup read)
        BY <1>5, <1>8 DEF ReadOf
    <2>2. QED
        BY <1>9, <2>1 DEF Stays
<1>12. \A r \in read : TrueRow(r)'
    BY <1>3, <1>5, RowStands
<1>13. Pass'
    BY <1>6, <1>9, <1>10, <1>11, <1>12 DEF Pass
<1>14. Seeds'
    BY <1>1, <1>3, InvParts, SeedsKeep
<1>15. QED
    BY <1>1, <1>2, <1>13, <1>14, ScriptKeeps

\* A page of the script, or its last one, which makes the anchor count.
LEMMA SeedPageKeeps == ASSUME BalanceInv, SeedPage PROVE BalanceInv'
<1> DEFINE todo == pass.rows
           chunk == ChunkOf(todo)
<1>1. /\ pass # NoSeed /\ rows' = rows \cup chunk
      /\ UNCHANGED <<branch, warnings, rawBlocks, mark, job, used>>
      /\ IF Cardinality(todo) <= CHUNK
         THEN seeded' = seeded \cup {pass.anchor} /\ pass' = NoSeed
         ELSE pass' = [pass EXCEPT !.rows = todo \ chunk] /\ UNCHANGED seeded
    BY DEF SeedPage
<1>2. used \in Used /\ Chain' /\ Stands
    BY <1>1, StillChain, InvParts, ChainFacts
<1>3. PICK at, fork :
          /\ at = pass.anchor[1] /\ fork = pass.anchor[2] /\ Past(at, fork)
          /\ IsFiniteSet(todo) /\ \A r \in todo : TrueRow(r)
          /\ OnBranch(at, fork) => ReadOf(Storage(at), at, rows \cup todo)
    BY <1>1, InvParts DEF Pass
<1>4. chunk \subseteq todo /\ (Cardinality(todo) <= CHUNK => chunk = todo)
    BY <1>3, ChunkFacts
<1>5. \A r \in rows' : r \in rows \/ TrueRow(r)
    BY <1>1, <1>3, <1>4
<1>6. at \in 1 .. LastBlock /\ fork \in Nat
    BY <1>3, InvParts, ChainFacts DEF Past
<1>7. Past(at, fork)' /\ (OnBranch(at, fork)' => OnBranch(at, fork) /\ Stays(at))
    BY <1>2, <1>3, <1>6 DEF Stands
<1>8. \A anchor \in seeded : Seeded(anchor)'
    BY <1>1, <1>2, InvParts, SeedKeeps DEF Seeds, Seeded
<1>9. rows \cup chunk = rows'
    BY <1>1
<1>10. CASE Cardinality(todo) <= CHUNK
    <2>1. Pass'
        BY <1>1, <1>10, NoSeedIsPass
    <2>2. OnBranch(at, fork)' => ReadOf(Storage(at)', at, rows')
        BY <1>3, <1>4, <1>7, <1>9, <1>10 DEF Stays
    <2>3. ASSUME NEW anchor, anchor = pass.anchor
          PROVE  Seeded(anchor)'
        <3>1. anchor[1] = at /\ anchor[2] = fork
            BY <1>3, <2>3
        <3>2. QED
            BY <1>7, <2>2, <3>1 DEF Seeded
    <2>4. PICK anchor : anchor = pass.anchor
        OBVIOUS
    <2>5. \A other \in seeded' : other \in seeded \/ other = anchor
        BY <1>1, <1>10, <2>4
    <2>6. Seeds'
        BY <1>8, <2>3, <2>4, <2>5 DEF Seeds, Seeded
    <2>7. QED
        BY <1>1, <1>2, <1>5, <2>1, <2>6, ScriptKeeps
<1>11. CASE ~(Cardinality(todo) <= CHUNK)
    <2>1. PICK p : p = pass /\ p = [anchor |-> p.anchor, rows |-> p.rows]
        BY InvParts DEF Pass
    <2>2. pass' = [p EXCEPT !.rows = todo \ chunk]
        BY <1>1, <1>11, <2>1
    <2>3. pass' = [anchor |-> p.anchor, rows |-> todo \ chunk]
        BY <2>1, <2>2
    <2>4. IsFiniteSet(todo \ chunk)
        BY <1>3, FS_Subset
    <2>5. /\ pass' = [anchor |-> pass'.anchor, rows |-> pass'.rows]
          /\ pass'.anchor[1] = at /\ pass'.anchor[2] = fork
          /\ pass'.rows = todo \ chunk
        BY <1>3, <2>1, <2>3
    <2>6. \A r \in todo \ chunk : TrueRow(r)'
        BY <1>2, <1>3, RowStands
    <2>7. OnBranch(at, fork)' => ReadOf(Storage(at)', at, rows' \cup (todo \ chunk))
        <3>1. rows \cup todo \subseteq rows' \cup (todo \ chunk)
            BY <1>1
        <3>2. OnBranch(at, fork)' => ReadOf(Storage(at), at, rows' \cup (todo \ chunk))
            BY <1>3, <1>7, <3>1, ReadMore
        <3>3. QED
            BY <1>7, <3>2 DEF Stays
    <2>8. Pass'
        BY <1>7, <2>4, <2>5, <2>6, <2>7 DEF Pass
    <2>9. Seeds'
        BY <1>1, <1>8, <1>11 DEF Seeds, Seeded
    <2>10. QED
        BY <1>1, <1>2, <1>5, <2>8, <2>9, ScriptKeeps
<1>12. QED
    BY <1>10, <1>11

LEMMA SeedDiesKeeps == ASSUME BalanceInv, SeedDies PROVE BalanceInv'
<1>1. /\ used.losses < MaxLosses /\ used' = [used EXCEPT !.losses = used.losses + 1]
      /\ pass' = NoSeed
      /\ UNCHANGED <<branch, rows, warnings, rawBlocks, mark, job, seeded>>
    BY DEF SeedDies
<1>2. used' \in Used /\ used'.forks = used.forks
    <2>1. used \in Used /\ used.losses \in 0 .. MaxLosses
        BY InvParts, ChainFacts
    <2>2. used.losses + 1 \in 0 .. MaxLosses
        BY <1>1, <2>1, BalanceFacts
    <2>3. QED
        BY <1>1, <2>1, <2>2 DEF Used
<1>3. Chain' /\ Stands
    BY <1>1, <1>2, StillChain
<1>4. Pass' /\ Seeds'
    BY <1>1, <1>3, InvParts, NoSeedIsPass, SeedsKeep
<1>5. QED
    BY <1>1, <1>2, <1>4, ScriptKeeps

----------------------------------------------------------------------------
(* The balances: the invariant holds, and it is enough. *)

LEMMA BalanceStarts == BalanceInit => BalanceInv
<1> SUFFICES ASSUME BalanceInit PROVE BalanceInv
    OBVIOUS
<1>1. LiveStart - 1 \in Nat \ {0} /\ LiveStart - 1 <= LastBlock
    BY BalanceFacts
<1>2. branch \in [1 .. LiveStart - 1 -> BlockType] /\ \A h \in 1 .. LiveStart - 1 : branch[h].fork = 0
    <2>1. branch \in [1 .. LiveStart - 1 -> [fork : {0}, body : Bodies]]
        BY DEF BalanceInit
    <2>2. \A b \in [fork : {0}, body : Bodies] : b \in BlockType /\ b.fork = 0
        BY BalanceFacts DEF BlockType
    <2>3. QED
        BY <2>1, <2>2
<1>3. branch \in Seq(BlockType) /\ Len(branch) = LiveStart - 1
    <2>1. branch \in Seq(BlockType)
        BY <1>1, <1>2, IsASeq
    <2>2. DOMAIN branch = 1 .. Len(branch) /\ Len(branch) \in Nat
        BY <2>1, LenProperties
    <2>3. DOMAIN branch = 1 .. LiveStart - 1
        BY <1>2
    <2>4. QED
        BY <1>1, <2>1, <2>2, <2>3
<1>4. used.forks = 0 /\ used \in Used
    BY BalanceFacts DEF BalanceInit, Used
<1>5. Chain
    <2>1. ASSUME NEW h \in 1 .. LiveStart - 1
          PROVE  Past(h, branch[h].fork)
        <3>1. h \in 1 .. LastBlock /\ h <= Len(branch)
            BY <1>1, <1>3, BalanceFacts
        <3>2. branch[h].fork = 0 /\ 0 \in 0 .. used.forks
            BY <1>2, <1>4
        <3>3. QED
            BY <3>1, <3>2 DEF Past
    <2>2. QED
        BY <1>1, <1>3, <1>4, <2>1 DEF Chain
<1>6. Tables
    <2>1. rows = {} /\ warnings = {} /\ rawBlocks = [h \in 1 .. LastBlock |-> NoFork]
          /\ mark = [p \in Pipelines |-> [height |-> First(p) - 1, fork |-> 0]]
        BY DEF BalanceInit
    <2>2. \A p \in Pipelines : First(p) - 1 \in 0 .. LastBlock
        BY BalanceFacts DEF First
    <2>3. mark \in [Pipelines -> [height : 0 .. LastBlock, fork : Int]]
        BY <2>1, <2>2
    <2>4. mark["range"].height = 0 /\ 0 < LiveStart
        BY <2>1, BalanceFacts DEF Pipelines, First
    <2>5. QED
        BY <2>1, <2>3, <2>4 DEF Tables
<1>7. Jobs
    <2>1. job = [p \in Pipelines |-> Idle] /\ \A p \in Pipelines : mark[p].height = First(p) - 1
        BY DEF BalanceInit
    <2>2. \A p \in Pipelines : Job(p)
        BY <2>1, IdleIsJob
    <2>3. ASSUME NEW p \in Pipelines PROVE LeftBehind(p)
        <3>1. First(p) \in Int /\ mark[p].height = First(p) - 1
            BY <2>1, BalanceFacts DEF First
        <3>2. First(p) .. mark[p].height = {}
            BY <3>1
        <3>3. QED
            BY <3>2 DEF LeftBehind
    <2>4. QED
        BY <2>1, <2>2, <2>3 DEF Jobs
<1>8. Pass /\ Seeds
    BY DEF BalanceInit, Pass, Seeds, NoSeed
<1>9. QED
    BY <1>5, <1>6, <1>7, <1>8 DEF BalanceInv

LEMMA BalanceStep == BalanceInv /\ [BalanceNext]_balanceVars => BalanceInv'
<1> SUFFICES ASSUME BalanceInv, [BalanceNext]_balanceVars PROVE BalanceInv'
    OBVIOUS
<1>1. ASSUME NEW body \in Bodies, Grow(body) PROVE BalanceInv'
    BY <1>1, GrowKeeps
<1>2. ASSUME NEW body \in Bodies, NEW h \in 1 .. LastBlock, Replace(h, body) PROVE BalanceInv'
    BY <1>2, ReplaceKeeps
<1>3. ASSUME NEW p \in Pipelines,
             \/ Extract(p) \/ InsertBlock(p) \/ InsertChunk(p) \/ InsertWarnings(p)
             \/ SaveMark(p) \/ Dies(p)
      PROVE  BalanceInv'
    <2>1. CASE Extract(p)
        BY <2>1, ExtractKeeps
    <2>2. CASE InsertBlock(p)
        BY <2>2, BlockKeeps
    <2>3. CASE InsertChunk(p)
        BY <2>3, ChunkKeeps
    <2>4. CASE InsertWarnings(p)
        BY <2>4, WarningsKeep
    <2>5. CASE SaveMark(p)
        BY <2>5, SaveKeeps
    <2>6. CASE Dies(p)
        BY <2>6, DeathKeepsJobs
    <2>7. QED
        BY <1>3, <2>1, <2>2, <2>3, <2>4, <2>5, <2>6
<1>4. CASE Heal
    BY <1>4, HealKeeps
<1>5. CASE SeedStart
    BY <1>5, SeedStartKeeps
<1>6. CASE SeedPage
    BY <1>6, SeedPageKeeps
<1>7. CASE SeedDies
    BY <1>7, SeedDiesKeeps
<1>8. CASE UNCHANGED balanceVars
    <2>1. UNCHANGED <<branch, rows, warnings, rawBlocks, mark, job, pass, seeded, used>>
        BY <1>8 DEF balanceVars
    <2>2. used' \in Used /\ used'.forks = used.forks
        BY <2>1, InvParts, ChainFacts
    <2>3. Chain' /\ Stands
        BY <2>1, <2>2, StillChain
    <2>4. QED
        BY <2>1, <2>3, NothingElse
<1>9. QED
    BY <1>1, <1>2, <1>3, <1>4, <1>5, <1>6, <1>7, <1>8 DEF BalanceNext

LEMMA BalanceTypes == BalanceInv => BalanceTypeOK
<1> SUFFICES ASSUME BalanceInv PROVE BalanceTypeOK
    OBVIOUS
<1>1. \A h \in 1 .. Len(branch) : branch[h].fork \in 0 .. MaxForks /\ branch[h].body \in Bodies
    <2>1. \A h \in 1 .. Len(branch) : branch[h] \in BlockType
        BY InvParts DEF Chain
    <2>2. QED
        BY <2>1 DEF BlockType
<1>2. \A r \in rows : r.height \in 1 .. LastBlock /\ r.key \in Keys
    BY InvParts DEF Tables, TrueRow, Past
<1>3. \A w \in warnings : w[1] \in 1 .. LastBlock /\ w[2] \in Keys
    BY InvParts DEF Tables
<1>4. mark["live"].height \in 0 .. LastBlock /\ mark["range"].height \in 0 .. LiveStart - 1
    <2>1. {mark["live"].height, mark["range"].height} \subseteq 0 .. LastBlock
        BY InvParts DEF Pipelines
    <2>2. QED
        BY <2>1, InvParts, BalanceFacts
<1>5. used.losses <= MaxLosses
    BY InvParts, ChainFacts, BalanceFacts
<1>6. QED
    BY <1>1, <1>2, <1>3, <1>4, <1>5 DEF BalanceTypeOK

\* A row that is shown and not orphaned is of a block that is on the chain.
LEMMA ShownIsTrue == BalanceInv => ShownTrue
<1> SUFFICES ASSUME BalanceInv, NEW k \in Keys, ~Orphaned(k), NEW r \in Latest(k)
             PROVE  r.amount = Amount(r.height, k)
    BY DEF ShownTrue
<1>1. r \in rows /\ r.key = k
    BY DEF Latest
<1>2. OnBranch(r.height, r.from[2])
    BY DEF Orphaned
<1>3. QED
    BY <1>1, <1>2, InvParts DEF Tables, TrueRow

LEMMA BehindIsNoticed == BalanceInv => Noticed
<1> SUFFICES ASSUME BalanceInv, NEW p \in Pipelines, NEW h \in First(p) .. mark[p].height,
                    OnBranch(h, rawBlocks[h]), NEW k \in Moved(h) \cap Candidates(h)
             PROVE  (\E r \in rows : r.key = k /\ r.from = Block(h)) \/ <<h, k>> \in warnings
    BY DEF Noticed
<1>1. Covers(Notable(h), Block(h), rows, warnings)
    BY InvParts DEF LeftBehind
<1>2. k \in Notable(h) /\ Block(h)[1] = h
    BY DEF Notable, Block
<1>3. QED
    BY <1>1, <1>2 DEF Covers

\* Of the rows of an account there is one of the highest block.
LEMMA LatestAbove ==
    ASSUME Tables, NEW r \in rows
    PROVE  \E top \in Latest(r.key) : top.height >= r.height
<1> DEFINE ofKey == {s \in rows : s.key = r.key}
           heights == {s.height : s \in ofKey}
<1>1. \A s \in rows : s.height \in 1 .. LastBlock
    BY DEF Tables, TrueRow, Past
<1>2. heights \in SUBSET Nat /\ r.height \in heights /\ \A h \in heights : h <= LastBlock
    <2>1. \A s \in ofKey : s.height \in Nat /\ s.height <= LastBlock
        BY <1>1, BalanceFacts
    <2>2. QED
        BY <2>1
<1>3. \A s \in ofKey : s.height \in heights
    OBVIOUS
<1>4. \A h \in heights : \E s \in ofKey : s.height = h
    OBVIOUS
<1> HIDE DEF heights
<1>5. Highest(heights) \in heights /\ \A h \in heights : h <= Highest(heights)
    BY <1>2, HighestFacts, BalanceFacts
<1>6. PICK top \in ofKey : top.height = Highest(heights)
    BY <1>4, <1>5
<1>7. top \in Latest(r.key)
    BY <1>3, <1>5, <1>6 DEF Latest
<1>8. top.height >= r.height
    BY <1>1, <1>2, <1>5, <1>6
<1>9. QED
    BY <1>7, <1>8

LEMMA SeededIsRefreshed == BalanceInv => Refreshed
<1> SUFFICES ASSUME BalanceInv, NEW anchor \in seeded, OnBranch(anchor[1], anchor[2]),
                    NEW k \in Keys, Exists(anchor[1], k)
             PROVE  \E r \in Latest(k) : r.height >= anchor[1]
    BY DEF Refreshed
<1>1. ReadOf(Storage(anchor[1]), anchor[1], rows)
    BY InvParts DEF Seeds
<1>2. PICK r \in rows : r.key = k /\ r.height = anchor[1]
    BY <1>1 DEF ReadOf, Storage
<1>3. QED
    BY <1>2, LatestAbove, InvParts

\* For every set of accounts and assets, every chain and every length of an insert: a
\* balance that is shown (account_asset_latest_balances over raw_balance_observations) is
\* the one of its block on the chain, no change that extractBalanceObservations can tell
\* of is behind a checkpoint without its row or its warning, and a pass of
\* snapshot-balances.ts leaves no account that was in storage behind.
THEOREM BalancesTrue == BalanceSpec => []BalancesSound
<1>1. BalanceInv => BalancesSound
    BY BalanceTypes, ShownIsTrue, BehindIsNoticed, SeededIsRefreshed DEF BalancesSound
<1>2. QED
    BY <1>1, BalanceStarts, BalanceStep, PTL DEF BalanceSpec

----------------------------------------------------------------------------
(* Price inputs: the reference, the pools, and the anchor a block is carried with. *)

\* A row and an index of the reference only grow, but for a reload, and a reload brings
\* what the table had when it was asked for.
Below(ref, other) ==
    ref.closes \subseteq other.closes /\ \A d \in Days : ref.lives[d] <= other.lives[d]

RefInv ==
    /\ Below(index, stored)
    /\ reload # NoReload => Below(reload, stored)
    /\ \A d \in Days : stored.lives[d] <= quote
    /\ poll.pc = "inserted" => stored.lives[poll.day] = quote
    /\ poll.pc = "settled" => poll.days \subseteq stored.closes
    /\ pc = "refresh" <=> reload # NoReload

\* The list of pools is the chain's, unless a snapshot block was gone through with it; and
\* where there is no list, the last snapshot is the chain's.
PoolsInv ==
    /\ xykPools # Unknown /\ ~unseen => xykPools = pools
    /\ pc \in {"resolve", "carried"} \/ inForce # NoPrices => xykPools # Unknown \/ snapshot = pools
    /\ pc = "resolve" /\ ~unseen => block.read = pools
    /\ pc = "carried" => unseen \/ block.kind \in {"quiet", "native", "migrated"}

\* Anchors of one day, from none over the closes to the rows of the day.
AtMost(a, b) ==
    \/ a.grain = "none"
    \/ a.grain = "close" /\ (b.grain = "live" \/ (b.grain = "close" /\ a.day <= b.day))
    \/ a.grain = "live" /\ b.grain = "live" /\ a.quote <= b.quote

Anchors(day) ==
    {NoAnchor}
    \cup {[grain |-> "close", day |-> c, quote |-> 0] : c \in Days}
    \cup {[grain |-> "live", day |-> day, quote |-> q] : q \in 1 .. MaxQuotes}

\* As long as a block's day can have a live anchor.
Live(day) == today - day <= LIVE_WINDOW

\* The anchor of the first lookup is at most that of the second, which is at most what
\* the index says from then on.
AnchorInv ==
    /\ pc = "resolve" => block.seed \in Anchors(blockDay)
    /\ pc = "resolve" /\ Live(blockDay) => AtMost(block.seed, Lookup(index, blockDay, today))
    /\ inForce # NoPrices =>
        /\ inForce.day \in Days /\ inForce.seed \in Anchors(inForce.day)
        /\ inForce.day <= blockDay
        /\ Live(inForce.day) =>
             /\ AtMost(lastSeed, inForce.seed)
             /\ AtMost(inForce.seed, Lookup(index, inForce.day, today))
             /\ AtMost(inForce.seed, Lookup(stored, inForce.day, today))
             /\ reload # NoReload => AtMost(inForce.seed, Lookup(reload, inForce.day, today))
    /\ pc = "carried" =>
        \/ inForce.seed = block.seed
        \/ inForce.day < blockDay
        \/ block.now - blockDay > LIVE_WINDOW
    /\ pc = "carried" => inForce # NoPrices

LEMMA InputConstants ==
    /\ LAST_DAY \in Nat \ {0} /\ SETTLE_RECENT \in Nat \ {0} /\ MaxQuotes \in Nat \ {0}
    /\ LIVE_WINDOW \in Nat /\ MAX_STALE \in Nat /\ MaxFaults \in Nat
    /\ Unknown \notin SUBSET Pools
BY KsmReferenceAssumption, PriceInputsAssumption DEF Unknown

LEMMA LatestClose ==
    ASSUME NEW ref \in Reference, NEW day \in Int
    PROVE  \/ /\ LatestSettledBefore(ref, day) = {}
              /\ \A c \in ref.closes : ~(c < day)
           \/ \E m \in ref.closes : /\ LatestSettledBefore(ref, day) = {m} /\ m < day
                                    /\ \A c \in ref.closes : c < day => c <= m
<1> DEFINE before == {c \in ref.closes : c < day}
<1>1. /\ \A c \in ref.closes : c \in Nat /\ c \in Int /\ c <= LAST_DAY
      /\ LAST_DAY \in Nat
    BY InputConstants DEF Reference, Days
<1>2. LatestSettledBefore(ref, day) = {Max(b) : b \in {before} \ {{}}}
    BY DEF LatestSettledBefore
<1>3. CASE before = {}
    BY <1>2, <1>3
<1>4. CASE before # {}
    <2>1. LatestSettledBefore(ref, day) = {Max(before)}
        BY <1>2, <1>4
    <2> DEFINE S == {LAST_DAY - c : c \in before}
    <2>2. S \subseteq Nat /\ S # {}
        BY <1>1, <1>4 DEF Days
    <2>3. PICK x \in S : \A y \in S : <<y, x>> \notin OpToRel(<, Nat)
        <3> HIDE DEF S
        <3> QED
            BY <2>2, WFMin, NatLessThanWellFounded, Zenon
    <2>4. \A y \in S : ~(y < x)
        <3> HIDE DEF S
        <3>1. \A y \in S : y < x => <<y, x>> \in OpToRel(<, Nat)
            BY <2>2 DEF OpToRel
        <3> QED
            BY <2>3, <3>1
    <2>5. PICK m \in before : x = LAST_DAY - m
        OBVIOUS
    <2>6. \A c \in before : m >= c
        <3> TAKE c \in before
        <3>1. ~(LAST_DAY - c < x)
            BY <2>4
        <3> QED
            BY <1>1, <2>5, <3>1
    <2>7. Max(before) \in before /\ \A c \in before : Max(before) >= c
        <3> HIDE DEF before
        <3> QED
            BY <2>5, <2>6 DEF Max
    <2>8. \A c \in before : c \in Int
        BY <1>1
    <2>9. QED
        BY <2>1, <2>7, <2>8
<1>5. QED
    BY <1>3, <1>4

LEMMA LookupIs ==
    ASSUME NEW ref \in Reference, NEW day \in Days, NEW now \in Int
    PROVE  /\ Lookup(ref, day, now) \in Anchors(day)
           /\ ref.lives[day] \in 0 .. MaxQuotes
           /\ now - day <= LIVE_WINDOW /\ ref.lives[day] # 0 =>
                 Lookup(ref, day, now) = [grain |-> "live", day |-> day, quote |-> ref.lives[day]]
           /\ ~(now - day <= LIVE_WINDOW /\ ref.lives[day] # 0) =>
                 \/ /\ Lookup(ref, day, now) = NoAnchor
                    /\ \A c \in ref.closes : c < day => day - c > MAX_STALE
                 \/ \E m \in ref.closes :
                       /\ Lookup(ref, day, now) = [grain |-> "close", day |-> m, quote |-> 0]
                       /\ m < day /\ day - m <= MAX_STALE
                       /\ \A c \in ref.closes : c < day => c <= m
<1>1. /\ ref.closes \subseteq Days /\ Days \subseteq Nat /\ ref.lives[day] \in 0 .. MaxQuotes
      /\ \A c \in ref.closes : c \in Int
      /\ MAX_STALE \in Nat /\ MaxQuotes \in Nat /\ day \in Int
    BY InputConstants DEF Reference, Days
<1>2. CASE now - day <= LIVE_WINDOW /\ ref.lives[day] # 0
    <2>1. Lookup(ref, day, now) = [grain |-> "live", day |-> day, quote |-> ref.lives[day]]
        BY <1>2 DEF Lookup
    <2>2. ref.lives[day] \in 1 .. MaxQuotes
        BY <1>1, <1>2
    <2>3. QED
        BY <1>1, <1>2, <2>1, <2>2 DEF Anchors
<1>3. CASE ~(now - day <= LIVE_WINDOW /\ ref.lives[day] # 0)
    <2>1. Lookup(ref, day, now) = IF Settled(ref, day) = {} THEN NoAnchor
                                  ELSE CHOOSE anchor \in Settled(ref, day) : TRUE
        BY <1>3 DEF Lookup
    <2>2. CASE /\ LatestSettledBefore(ref, day) = {}
               /\ \A c \in ref.closes : ~(c < day)
        <3>1. Settled(ref, day) = {}
            BY <2>2 DEF Settled
        <3>2. QED
            BY <1>1, <1>3, <2>1, <2>2, <3>1 DEF Anchors
    <2>3. ASSUME NEW m \in ref.closes, LatestSettledBefore(ref, day) = {m}, m < day,
                 \A c \in ref.closes : c < day => c <= m
          PROVE  \/ /\ Lookup(ref, day, now) = NoAnchor
                    /\ \A c \in ref.closes : c < day => day - c > MAX_STALE
                 \/ /\ Lookup(ref, day, now) = [grain |-> "close", day |-> m, quote |-> 0]
                    /\ day - m <= MAX_STALE
        <3>1. m \in Int /\ \A c \in ref.closes : c \in Int
            BY <1>1
        <3>2. CASE day - m <= MAX_STALE
            <4>1. Settled(ref, day) = {[grain |-> "close", day |-> m, quote |-> 0]}
                BY <2>3, <3>2 DEF Settled
            <4>2. QED
                BY <2>1, <3>2, <4>1
        <3>3. CASE ~(day - m <= MAX_STALE)
            <4>1. Settled(ref, day) = {}
                BY <2>3, <3>3 DEF Settled
            <4>2. QED
                BY <1>1, <2>1, <2>3, <3>1, <3>3, <4>1
        <3>4. QED
            BY <3>2, <3>3
    <2>4. \/ LatestSettledBefore(ref, day) = {} /\ \A c \in ref.closes : ~(c < day)
          \/ \E m \in ref.closes : /\ LatestSettledBefore(ref, day) = {m} /\ m < day
                                   /\ \A c \in ref.closes : c < day => c <= m
        BY <1>1, LatestClose
    <2>5. CASE \E m \in ref.closes : /\ LatestSettledBefore(ref, day) = {m} /\ m < day
                                     /\ \A c \in ref.closes : c < day => c <= m
        BY <1>1, <1>3, <2>3, <2>5 DEF Anchors
    <2>6. QED
        BY <2>2, <2>4, <2>5
<1>4. QED
    BY <1>2, <1>3

LEMMA AtMostOrder ==
    ASSUME NEW day \in Days, NEW a \in Anchors(day)
    PROVE  /\ AtMost(a, a)
           /\ \A b \in Anchors(day) : AtMost(a, b) /\ AtMost(b, a) => a = b
           /\ \A b \in Anchors(day), c \in Anchors(day) : AtMost(a, b) /\ AtMost(b, c) => AtMost(a, c)
<1>1. \A x \in Days : x \in Int
    BY DEF Days
<1>2. \A x \in 1 .. MaxQuotes : x \in Int
    OBVIOUS
<1>3. \A b \in Anchors(day) :
        \/ b = [grain |-> "none", day |-> 0, quote |-> 0]
        \/ \E c \in Days : b = [grain |-> "close", day |-> c, quote |-> 0]
        \/ \E q \in 1 .. MaxQuotes : b = [grain |-> "live", day |-> day, quote |-> q]
    BY DEF Anchors, NoAnchor
<1>4. \A b \in Anchors(day) : b.day \in Int /\ b.quote \in Int /\ b.grain \in {"none", "close", "live"}
    BY <1>1, <1>2, <1>3
<1>5. AtMost(a, a)
    BY <1>4 DEF AtMost
<1>6. \A b \in Anchors(day), c \in Anchors(day) : AtMost(a, b) /\ AtMost(b, c) => AtMost(a, c)
    BY <1>4 DEF AtMost
<1>7. ASSUME NEW b \in Anchors(day), AtMost(a, b), AtMost(b, a) PROVE a = b
    <2>1. a.grain = b.grain
        BY <1>4, <1>7 DEF AtMost
    <2>2. a.grain = "close" => a.day = b.day
        BY <1>4, <1>7, <2>1 DEF AtMost
    <2>3. a.grain = "live" => a.quote = b.quote
        BY <1>4, <1>7, <2>1 DEF AtMost
    <2>4. QED
        BY <1>3, <2>1, <2>2, <2>3
<1>8. QED
    BY <1>5, <1>6, <1>7

\* A row or a close more never makes an anchor of a live day worse.
LEMMA LookupGrows ==
    ASSUME NEW ref \in Reference, NEW other \in Reference, Below(ref, other), NEW day \in Days,
           NEW now \in Int, NEW later \in Int, now <= later, later - day <= LIVE_WINDOW
    PROVE  AtMost(Lookup(ref, day, now), Lookup(other, day, later))
<1>1. /\ now - day <= LIVE_WINDOW /\ ref.lives[day] <= other.lives[day] /\ ref.closes \subseteq other.closes
      /\ day \in Int /\ LIVE_WINDOW \in Int /\ MAX_STALE \in Int
      /\ ref.lives[day] \in Int /\ other.lives[day] \in Int
      /\ 0 <= ref.lives[day] /\ 0 <= other.lives[day]
      /\ \A c \in other.closes : c \in Int
    BY InputConstants, LookupIs DEF Below, Days, Reference
<1>2. CASE ref.lives[day] # 0
    <2>1. Lookup(ref, day, now) = [grain |-> "live", day |-> day, quote |-> ref.lives[day]]
        BY <1>1, <1>2, LookupIs
    <2>2. Lookup(other, day, later) = [grain |-> "live", day |-> day, quote |-> other.lives[day]]
        BY <1>1, <1>2, LookupIs
    <2>3. QED
        BY <1>1, <2>1, <2>2 DEF AtMost
<1>3. CASE ref.lives[day] = 0 /\ other.lives[day] # 0
    <2>1. Lookup(other, day, later).grain = "live"
        BY <1>1, <1>3, LookupIs
    <2>2. Lookup(ref, day, now).grain \in {"none", "close"}
        BY <1>1, <1>3, LookupIs DEF NoAnchor
    <2>3. QED
        BY <2>1, <2>2 DEF AtMost
<1>4. CASE ref.lives[day] = 0 /\ other.lives[day] = 0
    <2>1. \/ Lookup(ref, day, now) = NoAnchor
          \/ \E m \in ref.closes : /\ Lookup(ref, day, now) = [grain |-> "close", day |-> m, quote |-> 0]
                                   /\ m < day /\ day - m <= MAX_STALE
        BY <1>1, <1>4, LookupIs
    <2>2. \/ \A c \in other.closes : c < day => day - c > MAX_STALE
          \/ \E m \in other.closes : /\ Lookup(other, day, later) = [grain |-> "close", day |-> m, quote |-> 0]
                                     /\ \A c \in other.closes : c < day => c <= m
        BY <1>1, <1>4, LookupIs
    <2>3. QED
        BY <1>1, <2>1, <2>2 DEF AtMost, NoAnchor
<1>5. QED
    BY <1>2, <1>3, <1>4

\* What a row and the closes of some days add.
LEMMA PutLiveAdds ==
    ASSUME NEW ref \in Reference, NEW day \in Days, NEW q \in 0 .. MaxQuotes
    PROVE  /\ PutLive(ref, day, q) \in Reference
           /\ PutLive(ref, day, q).closes = ref.closes
           /\ \A d \in Days : PutLive(ref, day, q).lives[d] = IF d = day THEN q ELSE ref.lives[d]
<1>1. PutLive(ref, day, q) = [closes |-> ref.closes, lives |-> [ref.lives EXCEPT ![day] = q]]
    BY DEF PutLive, Reference
<1>2. [ref.lives EXCEPT ![day] = q] \in [Days -> 0 .. MaxQuotes]
    BY DEF Reference
<1>3. QED
    BY <1>1, <1>2 DEF Reference

LEMMA PutClosesAdds ==
    ASSUME NEW ref \in Reference, NEW days \in SUBSET Days
    PROVE  /\ PutCloses(ref, days) \in Reference
           /\ PutCloses(ref, days).closes = ref.closes \cup days
           /\ PutCloses(ref, days).lives = ref.lives
<1>1. PutCloses(ref, days) = [closes |-> ref.closes \cup days, lives |-> ref.lives]
    BY DEF PutCloses, Reference
<1>2. QED
    BY <1>1 DEF Reference

LEMMA BelowOrder ==
    /\ \A r \in Reference : Below(r, r)
    /\ \A r, s, t \in Reference : Below(r, s) /\ Below(s, t) => Below(r, t)
<1>1. \A r \in Reference : \A d \in Days : r.lives[d] \in Int
    BY DEF Reference
<1>2. \A r \in Reference : Below(r, r)
    BY <1>1 DEF Below
<1>3. ASSUME NEW r \in Reference, NEW s \in Reference, NEW t \in Reference, Below(r, s), Below(s, t)
      PROVE  Below(r, t)
    BY <1>1, <1>3 DEF Below
<1>4. QED
    BY <1>2, <1>3

PollType == [pc : {"idle", "ask", "inserted", "settle", "settled"}, day : Days, days : SUBSET Days]

\* What goes on around the pipeline only adds to the table, and the poll adds to the
\* index what it has added to the table.
LEMMA ReferenceGrows ==
    ASSUME TypeOK, RefInv, ReferenceStep, UNCHANGED loopVars
    PROVE  /\ ReferenceTypeOK' /\ RefInv'
           /\ Below(stored, stored') /\ Below(index, index')
           /\ reload' = reload /\ today <= today'
<1> USE InputConstants
<1>a. /\ today \in Days /\ quote \in 0 .. MaxQuotes /\ stored \in Reference /\ index \in Reference
      /\ reload \in Reference \cup {NoReload} /\ poll \in PollType
      /\ throttled \in BOOLEAN /\ faults \in 0 .. MaxFaults
    BY DEF TypeOK, ReferenceTypeOK, PollType
<1>b. poll.day \in Days /\ poll.days \in SUBSET Days /\ quote \in Int /\ MaxQuotes \in Int /\ today \in Int
    BY <1>a DEF PollType, Days
<1>c. \A d \in Days : stored.lives[d] \in Int /\ index.lives[d] \in Int /\ stored.lives[d] <= quote
                      /\ index.lives[d] <= stored.lives[d]
    BY <1>a DEF Reference, RefInv, Below
<1>d. pc' = pc
    BY DEF loopVars
<1>e. NotPolling \in PollType /\ 0 \in Days
    BY DEF NotPolling, PollType, Days
<1>f. UNCHANGED <<stored, index>> => Below(stored, stored') /\ Below(index, index')
    BY <1>a, BelowOrder
<1>1. CASE PollStart \/ PollFails \/ RetryDue \/ Midnight
    <2>1. /\ UNCHANGED <<quote, stored, index, reload>>
          /\ poll' = poll \/ poll'.pc \in {"idle", "ask"}
        BY <1>1 DEF PollStart, PollFails, RetryDue, Midnight, NotPolling
    <2>2. poll' \in PollType
        BY <1>1, <1>a, <1>e DEF PollStart, PollFails, RetryDue, Midnight, PollType
    <2>3. today' \in Days /\ today <= today'
        BY <1>1, <1>a, <1>b DEF PollStart, PollFails, RetryDue, Midnight, Days
    <2>4. throttled' \in BOOLEAN
        BY <1>1, <1>a DEF PollStart, PollFails, RetryDue, Midnight
    <2>5. faults' \in 0 .. MaxFaults
        BY <1>1, <1>a DEF PollStart, PollFails, RetryDue, Midnight
    <2>6. RefInv'
        BY <1>d, <2>1 DEF RefInv, Below
    <2>7. QED
        BY <1>a, <1>f, <2>1, <2>2, <2>3, <2>4, <2>5, <2>6 DEF ReferenceTypeOK, PollType
<1>2. CASE PollInsert
    <2>1. /\ quote' \in 0 .. MaxQuotes /\ quote <= quote' /\ quote' \in Int
          /\ stored' = PutLive(stored, poll.day, quote')
          /\ poll' = [poll EXCEPT !.pc = "inserted"]
          /\ UNCHANGED <<today, index, reload, throttled, faults>>
        BY <1>2, <1>a, <1>b DEF PollInsert
    <2>2. /\ stored' \in Reference /\ stored'.closes = stored.closes
          /\ \A d \in Days : stored'.lives[d] = IF d = poll.day THEN quote' ELSE stored.lives[d]
        <3>1. quote' \in 0 .. MaxQuotes /\ poll.day \in Days /\ stored \in Reference
            BY <1>a, <1>b, <2>1
        <3>2. \A q \in 0 .. MaxQuotes :
                /\ PutLive(stored, poll.day, q) \in Reference
                /\ PutLive(stored, poll.day, q).closes = stored.closes
                /\ \A d \in Days : PutLive(stored, poll.day, q).lives[d] = IF d = poll.day THEN q ELSE stored.lives[d]
            <4> TAKE q \in 0 .. MaxQuotes
            <4>1. QED
                BY <3>1, PutLiveAdds
        <3>3. QED
            BY <2>1, <3>1, <3>2
    <2>3. Below(stored, stored')
        BY <1>b, <1>c, <2>1, <2>2 DEF Below
    <2>4. poll' \in PollType /\ poll'.pc = "inserted" /\ poll'.day = poll.day
        BY <1>a, <2>1 DEF PollType
    <2>5. Below(index, stored') /\ (reload # NoReload => Below(reload, stored'))
        BY <1>a, <2>2, <2>3, BelowOrder DEF RefInv
    <2>6. \A d \in Days : stored'.lives[d] <= quote'
        BY <1>b, <1>c, <2>1, <2>2
    <2>7. stored'.lives[poll'.day] = quote'
        BY <1>b, <2>2, <2>4
    <2>8. RefInv'
        BY <1>d, <2>1, <2>4, <2>5, <2>6, <2>7 DEF RefInv
    <2>9. QED
        BY <1>a, <1>b, <2>1, <2>2, <2>3, <2>4, <2>8, BelowOrder DEF ReferenceTypeOK, PollType
<1>3. CASE PollPut
    <2>1. /\ poll.pc = "inserted" /\ index' = PutLive(index, poll.day, quote)
          /\ UNCHANGED <<today, quote, stored, reload, faults>>
        BY <1>3 DEF PollPut
    <2>2. /\ index' \in Reference /\ index'.closes = index.closes
          /\ \A d \in Days : index'.lives[d] = IF d = poll.day THEN quote ELSE index.lives[d]
        <3>1. index \in Reference /\ poll.day \in Days /\ quote \in 0 .. MaxQuotes
            BY <1>a, <1>b
        <3>2. /\ PutLive(index, poll.day, quote) \in Reference
              /\ PutLive(index, poll.day, quote).closes = index.closes
              /\ \A d \in Days : PutLive(index, poll.day, quote).lives[d]
                                = IF d = poll.day THEN quote ELSE index.lives[d]
            BY <3>1, PutLiveAdds
        <3>3. QED
            BY <2>1, <3>2
    <2>3. stored.lives[poll.day] = quote
        BY <2>1 DEF RefInv
    <2>4. Below(index, index')
        BY <1>b, <1>c, <2>2, <2>3 DEF Below
    <2>5. Below(index', stored)
        BY <1>b, <1>c, <2>2, <2>3 DEF Below, RefInv
    <2>6. /\ poll' \in PollType /\ poll'.pc \in {"idle", "settle"} /\ throttled' \in BOOLEAN
        <3>1. CASE poll' = NotPolling /\ UNCHANGED throttled
            BY <1>a, <1>e, <3>1 DEF NotPolling
        <3>2. CASE \E w \in SUBSET Days : poll' = [poll EXCEPT !.pc = "settle", !.days = w] /\ throttled' = TRUE
            BY <1>a, <3>2 DEF PollType
        <3>3. MissingSettledDays(index, poll.day - SETTLE_RECENT, poll.day) \in SUBSET Days
            BY DEF MissingSettledDays
        <3>4. QED
            BY <1>3, <3>1, <3>2, <3>3 DEF PollPut
    <2>7. RefInv'
        BY <1>d, <2>1, <2>5, <2>6 DEF RefInv
    <2>8. QED
        BY <1>a, <1>b, <2>1, <2>2, <2>4, <2>6, <2>7, BelowOrder DEF ReferenceTypeOK, PollType
<1>4. CASE SettleInsert
    <2>1. /\ UNCHANGED <<today, quote, index, reload, throttled>>
          /\ stored' = IF poll'.pc = "settled" THEN PutCloses(stored, poll'.days) ELSE stored
        BY <1>4 DEF SettleInsert
    <2>2. poll' \in PollType /\ poll'.pc \in {"idle", "settled"} /\ faults' \in 0 .. MaxFaults
        <3>1. CASE poll' = [poll EXCEPT !.pc = "settled"] /\ UNCHANGED faults
            BY <1>a, <3>1 DEF PollType
        <3>2. CASE /\ faults < MaxFaults /\ faults' = faults + 1
                   /\ poll' = IF poll.days = {Max(poll.days)} THEN NotPolling
                              ELSE [poll EXCEPT !.pc = "settled", !.days = @ \ {Max(@)}]
            <4>1. faults' \in 0 .. MaxFaults
                BY <1>a, <3>2
            <4>2. CASE poll' = NotPolling
                BY <1>e, <4>1, <4>2 DEF NotPolling
            <4>3. CASE poll' = [poll EXCEPT !.pc = "settled", !.days = poll.days \ {Max(poll.days)}]
                BY <1>a, <4>1, <4>3 DEF PollType
            <4>4. QED
                BY <3>2, <4>2, <4>3
        <3>3. QED
            BY <1>4, <3>1, <3>2 DEF SettleInsert
    <2>3. poll'.days \in SUBSET Days
        BY <2>2 DEF PollType
    <2>4. CASE poll'.pc = "idle"
        <3>1. RefInv'
            BY <1>d, <2>1, <2>4 DEF RefInv
        <3>2. QED
            BY <1>a, <1>b, <1>f, <2>1, <2>2, <2>4, <3>1 DEF ReferenceTypeOK, PollType
    <2>5. CASE poll'.pc = "settled"
        <3>1. /\ stored' \in Reference /\ stored'.closes = stored.closes \cup poll'.days
              /\ stored'.lives = stored.lives
            BY <1>a, <2>1, <2>3, <2>5, PutClosesAdds
        <3>2. Below(stored, stored')
            BY <1>c, <3>1 DEF Below
        <3>3. Below(index, stored') /\ (reload # NoReload => Below(reload, stored'))
            BY <1>a, <3>1, <3>2, BelowOrder DEF RefInv
        <3>4. RefInv'
            BY <1>d, <2>1, <2>5, <3>1, <3>3 DEF RefInv
        <3>5. QED
            BY <1>a, <1>b, <2>1, <2>2, <3>1, <3>2, <3>4, BelowOrder DEF ReferenceTypeOK, PollType
    <2>6. QED
        BY <2>2, <2>4, <2>5
<1>5. CASE SettlePut
    <2>1. /\ poll.pc = "settled" /\ index' = PutCloses(index, poll.days) /\ poll' = NotPolling
          /\ UNCHANGED <<today, quote, stored, reload, throttled, faults>>
        BY <1>5 DEF SettlePut
    <2>2. /\ index' \in Reference /\ index'.closes = index.closes \cup poll.days
          /\ index'.lives = index.lives
        BY <1>a, <1>b, <2>1, PutClosesAdds
    <2>3. Below(index, index') /\ Below(index', stored)
        BY <1>c, <2>1, <2>2 DEF Below, RefInv
    <2>4. RefInv'
        BY <1>d, <2>1, <2>3 DEF RefInv, NotPolling
    <2>5. QED
        BY <1>a, <1>b, <1>e, <2>1, <2>2, <2>3, <2>4, BelowOrder DEF ReferenceTypeOK, PollType
<1>6. CASE BackfillReference
    <2>1. PICK days \in SUBSET Days : stored' = PutCloses(stored, days)
        BY <1>6 DEF BackfillReference, MissingSettledDays
    <2>2. UNCHANGED <<today, quote, index, reload, poll, throttled, faults>>
        BY <1>6 DEF BackfillReference
    <2>3. /\ stored' \in Reference /\ stored'.closes = stored.closes \cup days
          /\ stored'.lives = stored.lives
        BY <1>a, <2>1, PutClosesAdds
    <2>4. Below(stored, stored')
        BY <1>c, <2>3 DEF Below
    <2>5. Below(index, stored') /\ (reload # NoReload => Below(reload, stored'))
        BY <1>a, <2>3, <2>4, BelowOrder DEF RefInv
    <2>6. RefInv'
        BY <1>d, <2>2, <2>3, <2>5 DEF RefInv
    <2>7. QED
        BY <1>a, <1>b, <2>2, <2>3, <2>4, <2>6, BelowOrder DEF ReferenceTypeOK, PollType
<1>7. QED
    BY <1>1, <1>2, <1>3, <1>4, <1>5, <1>6 DEF ReferenceStep, Poll

LEMMA EventFacts ==
    ASSUME NEW P \in SUBSET Pools, NEW e \in Events(P), NEW Q \in PoolsAfter(P, e)
    PROVE  /\ Q \in SUBSET Pools /\ e.kind \in BlockKinds
           /\ e.kind \in {"created", "createdLegacy"} => Q = P \cup {e.pool}
           /\ e.kind \in {"destroyed", "destroyedLegacy"} => Q = P \ {e.pool}
           /\ e.kind \in {"quiet", "swap", "transfer", "native"} => Q = P
           /\ e.kind \in {"swap", "transfer", "native", "destroyed", "destroyedLegacy"} => e.pool \in P
<1>1. /\ e.kind \in BlockKinds /\ e.pool \in Pools
      /\ e.kind \in {"swap", "transfer", "native", "destroyed", "destroyedLegacy"} => e.pool \in P
    BY PriceInputsAssumption DEF Events
<1>2. CASE e.kind \in {"created", "createdLegacy"}
    BY <1>1, <1>2 DEF PoolsAfter
<1>3. CASE e.kind \in {"destroyed", "destroyedLegacy"}
    BY <1>1, <1>3 DEF PoolsAfter
<1>4. CASE e.kind \in {"written", "migrated"}
    BY <1>1, <1>4 DEF PoolsAfter
<1>5. CASE e.kind \in {"quiet", "swap", "transfer", "native"}
    BY <1>1, <1>5 DEF PoolsAfter
<1>6. QED
    BY <1>1, <1>2, <1>3, <1>4, <1>5 DEF BlockKinds

\* The list after a block of the node: read anew, or kept up with the chain.
LEMMA CacheFacts ==
    ASSUME NEW P \in SUBSET Pools, NEW e \in Events(P), NEW Q \in PoolsAfter(P, e),
           NEW cache \in (SUBSET Pools) \cup {Unknown}
    PROVE  /\ CacheAtBlock(cache, e, Q) \in SUBSET Pools
           /\ \/ e.kind = "written" \/ ProcessEvents(AfterUpgrade(cache, e), e) = Unknown
              => CacheAtBlock(cache, e, Q) = Q
           /\ cache = Unknown => CacheAtBlock(cache, e, Q) = Q
           /\ cache = P => CacheAtBlock(cache, e, Q) = Q
<1>1. Unknown \notin SUBSET Pools
    BY InputConstants
<1>2. /\ Q \in SUBSET Pools /\ e.kind \in BlockKinds /\ (e.kind = "created" => e.pool \in Pools)
    BY EventFacts
<1> DEFINE known == ProcessEvents(AfterUpgrade(cache, e), e)
<1>3. CacheAtBlock(cache, e, Q) = IF known = Unknown \/ e.kind = "written" THEN Q ELSE known
    BY DEF CacheAtBlock
<1>4. cache = Unknown => known = Unknown
    BY DEF ProcessEvents, AfterUpgrade
<1>5. known \in (SUBSET Pools) \cup {Unknown}
    <2>1. AfterUpgrade(cache, e) \in (SUBSET Pools) \cup {Unknown}
        BY DEF AfterUpgrade
    <2>2. QED
        BY <1>2, <2>1 DEF ProcessEvents
<1>6. ASSUME cache = P, known # Unknown, e.kind # "written" PROVE known = Q
    <2>1. e.kind \notin {"migrated", "createdLegacy", "destroyedLegacy"}
        BY <1>6 DEF ProcessEvents, AfterUpgrade
    <2>2. AfterUpgrade(cache, e) = P /\ P # Unknown
        BY <1>1, <1>6, <2>1 DEF AfterUpgrade
    <2>3. CASE e.kind = "created"
        BY <2>2, <2>3, EventFacts DEF ProcessEvents
    <2>4. CASE e.kind = "destroyed"
        BY <2>2, <2>4, EventFacts DEF ProcessEvents
    <2>5. CASE e.kind \in {"quiet", "swap", "transfer", "native"}
        BY <2>2, <2>5, EventFacts DEF ProcessEvents
    <2>6. QED
        BY <1>2, <1>6, <2>1, <2>3, <2>4, <2>5 DEF BlockKinds
<1>7. QED
    <2> HIDE DEF known
    <2>1. CacheAtBlock(cache, e, Q) \in SUBSET Pools
        BY <1>2, <1>3, <1>5
    <2>2. cache = P => CacheAtBlock(cache, e, Q) = Q
        BY <1>3, <1>6
    <2>3. QED
        BY <1>3, <1>4, <2>1, <2>2 DEF known

LoopType ==
    /\ pc \in {"batch", "refresh", "resolve", "carried"}
    /\ aged \in BOOLEAN /\ unseen \in BOOLEAN
    /\ blockDay \in 0 .. today
    /\ pools \in SUBSET Pools
    /\ xykPools \in (SUBSET Pools) \cup {Unknown} /\ snapshot \in (SUBSET Pools) \cup {Unknown}

LEMMA TypeSplit == TypeOK <=> ReferenceTypeOK /\ LoopType
<1>1. {aged, unseen} \subseteq BOOLEAN <=> aged \in BOOLEAN /\ unseen \in BOOLEAN
    OBVIOUS
<1>2. {xykPools, snapshot} \subseteq (SUBSET Pools) \cup {Unknown}
      <=> xykPools \in (SUBSET Pools) \cup {Unknown} /\ snapshot \in (SUBSET Pools) \cup {Unknown}
    OBVIOUS
<1>3. pools \subseteq Pools <=> pools \in SUBSET Pools
    OBVIOUS
<1>4. QED
    BY <1>1, <1>2, <1>3 DEF TypeOK, LoopType

\* A block, whichever way it is read.
LEMMA SnapshotTaken ==
    ASSUME TypeOK, FromSnapshot
    PROVE  \E day \in blockDay .. today, e \in Events(pools) : \E P \in PoolsAfter(pools, e), process \in BOOLEAN :
              /\ snapshot' = P /\ pools' = P
              /\ xykPools' = AfterUpgrade(xykPools, e)
              /\ unseen' = (xykPools' # Unknown /\ (unseen \/ e.kind \in Lifecycle \cup {"written"}))
              /\ process = ShouldProcess(e, P, snapshot # Unknown /\ snapshot # P, Lookup(index, day, today))
              /\ Decide(e, P, P, process, day)
<1>1. \A e, P, c, s : ShouldProcess(e, P, c, s) \in BOOLEAN
    BY DEF ShouldProcess
<1>2. QED
    BY <1>1 DEF FromSnapshot, Decide

LEMMA NodeTaken ==
    ASSUME TypeOK, FromNode
    PROVE  \E day \in blockDay .. today, e \in Events(pools) : \E P \in PoolsAfter(pools, e), process \in BOOLEAN :
              /\ snapshot' = snapshot /\ pools' = P
              /\ xykPools' = CacheAtBlock(xykPools, e, P)
              /\ unseen' = (unseen /\ ProcessEvents(AfterUpgrade(xykPools, e), e) # Unknown
                                   /\ e.kind # "written")
              /\ process = ShouldProcess(e, xykPools', e.kind \in Lifecycle, Lookup(index, day, today))
              /\ Decide(e, P, xykPools', process, day)
<1>1. \A e, P, c, s : ShouldProcess(e, P, c, s) \in BOOLEAN
    BY DEF ShouldProcess
<1>2. QED
    BY <1>1 DEF FromNode, Decide

LEMMA NoReloadApart == NoReload \notin Reference
<1>1. DOMAIN NoReload = {"none"}
    BY DEF NoReload
<1>2. \A r \in Reference : DOMAIN r = {"closes", "lives"}
    BY DEF Reference
<1>3. "none" # "closes"
    OBVIOUS
<1>4. QED
    BY <1>1, <1>2, <1>3

\* A step that leaves the reference alone, and the refresh where it is.
LEMMA ReferenceStill ==
    ASSUME TypeOK, RefInv, UNCHANGED refVars, pc' = "refresh" <=> pc = "refresh"
    PROVE  ReferenceTypeOK' /\ RefInv'
BY DEF TypeOK, ReferenceTypeOK, RefInv, refVars, Below

LEMMA InputsTypeInit == Init => TypeOK /\ RefInv
<1> SUFFICES ASSUME Init PROVE TypeOK /\ RefInv
    OBVIOUS
<1> USE InputConstants
<1>1. /\ today = 0 /\ quote = 0 /\ stored = [closes |-> {}, lives |-> [d \in Days |-> 0]]
      /\ index = stored /\ reload = NoReload /\ poll = NotPolling /\ throttled = FALSE /\ faults = 0
    BY DEF Init, RefInit
<1>2. stored \in Reference /\ \A d \in Days : stored.lives[d] = 0
    BY <1>1 DEF Reference
<1>3. poll \in [pc : {"idle", "ask", "inserted", "settle", "settled"}, day : Days, days : SUBSET Days]
      /\ poll.pc = "idle"
    BY <1>1 DEF NotPolling, Days
<1>4. today \in Days /\ quote \in 0 .. MaxQuotes /\ faults \in 0 .. MaxFaults
    BY <1>1 DEF Days
<1>5. ReferenceTypeOK
    BY <1>1, <1>2, <1>3, <1>4 DEF ReferenceTypeOK
<1>6. LoopType
    <2>1. /\ pc = "batch" /\ aged = FALSE /\ unseen = FALSE /\ xykPools = Unknown /\ snapshot = Unknown
          /\ blockDay = 0 /\ pools \in SUBSET Pools
        BY DEF Init
    <2>2. blockDay \in 0 .. today
        BY <1>1, <2>1
    <2>3. QED
        BY <2>1, <2>2 DEF LoopType
<1>7. RefInv
    <2>1. pc = "batch"
        BY DEF Init
    <2>2. Below(index, stored)
        BY <1>1, <1>2, BelowOrder
    <2>3. QED
        BY <1>1, <1>2, <1>3, <2>1, <2>2 DEF RefInv
<1>8. QED
    BY <1>5, <1>6, <1>7, TypeSplit

LEMMA InputsTypeStep == TypeOK /\ RefInv /\ [Next]_vars => TypeOK' /\ RefInv'
<1> SUFFICES ASSUME TypeOK, RefInv, [Next]_vars PROVE TypeOK' /\ RefInv'
    OBVIOUS
<1> USE InputConstants
<1>a. /\ ReferenceTypeOK /\ LoopType
      /\ today \in Int /\ blockDay \in Int /\ 0 <= blockDay /\ blockDay <= today
    BY TypeSplit DEF LoopType, ReferenceTypeOK, Days
<1>b. (ReferenceTypeOK' /\ RefInv') /\ LoopType' => TypeOK' /\ RefInv'
    BY TypeSplit DEF TypeOK, LoopType
<1>c. stored \in Reference /\ index \in Reference /\ reload \in Reference \cup {NoReload}
    BY <1>a DEF ReferenceTypeOK
<1>d. NotPolling \in [pc : {"idle", "ask", "inserted", "settle", "settled"}, day : Days, days : SUBSET Days]
    BY DEF NotPolling, Days
<1>1. CASE RefreshStart
    <2>1. /\ reload' = stored /\ pc' = "refresh" /\ pc # "refresh"
          /\ UNCHANGED <<today, quote, stored, index, poll, throttled, faults, aged, blockDay,
                         pools, xykPools, unseen, snapshot, lastSeed, inForce>>
        BY <1>1 DEF RefreshStart, ReloadAsked
    <2>2. ReferenceTypeOK'
        BY <1>a, <2>1 DEF ReferenceTypeOK
    <2>3. RefInv'
        BY <1>c, <2>1, NoReloadApart, BelowOrder DEF RefInv, Below
    <2>4. LoopType'
        BY <1>a, <2>1 DEF LoopType
    <2>5. QED
        BY <1>b, <2>2, <2>3, <2>4
<1>2. CASE RefreshDone
    <2>1. /\ pc = "refresh" /\ pc' = "batch" /\ aged' = FALSE /\ reload' = NoReload
          /\ index' = index \/ index' = reload
          /\ faults' \in 0 .. MaxFaults
          /\ UNCHANGED <<today, quote, stored, poll, throttled, blockDay, pools, xykPools, unseen, snapshot>>
        BY <1>2, <1>a DEF RefreshDone, ReloadAnswered, ReloadFailed, ReferenceTypeOK
    <2>2. reload \in Reference /\ Below(reload, stored) /\ Below(index, stored)
        BY <1>c, <2>1 DEF RefInv
    <2>3. index' \in Reference /\ Below(index', stored)
        BY <1>c, <2>1, <2>2
    <2>4. ReferenceTypeOK'
        BY <1>a, <2>1, <2>3 DEF ReferenceTypeOK
    <2>5. RefInv'
        BY <2>1, <2>3 DEF RefInv
    <2>6. LoopType'
        BY <1>a, <2>1 DEF LoopType
    <2>7. QED
        BY <1>b, <2>4, <2>5, <2>6
<1>3. CASE Resolve
    <2>1. /\ pc = "resolve" /\ pc' = "batch"
          /\ UNCHANGED <<refVars, aged, blockDay, pools, xykPools, unseen, snapshot>>
        BY <1>3 DEF Resolve
    <2>2. LoopType'
        BY <1>a, <2>1 DEF LoopType, refVars
    <2>3. QED
        BY <1>b, <2>1, <2>2, ReferenceStill
<1>4. CASE FromSnapshot
    <2>1. PICK day \in blockDay .. today, e \in Events(pools) : \E P \in PoolsAfter(pools, e), process \in BOOLEAN :
              /\ snapshot' = P /\ pools' = P
              /\ xykPools' = AfterUpgrade(xykPools, e)
              /\ unseen' = (xykPools' # Unknown /\ (unseen \/ e.kind \in Lifecycle \cup {"written"}))
              /\ Decide(e, P, P, process, day)
        BY <1>4, SnapshotTaken
    <2>2. PICK P \in PoolsAfter(pools, e), process \in BOOLEAN :
              /\ snapshot' = P /\ pools' = P
              /\ xykPools' = AfterUpgrade(xykPools, e)
              /\ unseen' = (xykPools' # Unknown /\ (unseen \/ e.kind \in Lifecycle \cup {"written"}))
              /\ Decide(e, P, P, process, day)
        BY <2>1
    <2>3. P \in SUBSET Pools
        BY <1>a, EventFacts DEF LoopType
    <2>4. /\ pc' \in {"resolve", "carried"} /\ blockDay' = day /\ UNCHANGED <<refVars, aged>>
        BY <2>2 DEF Decide
    <2>5. pc # "refresh"
        BY <1>4 DEF FromSnapshot, Ready
    <2>6. xykPools' \in (SUBSET Pools) \cup {Unknown}
        BY <1>a, <2>2 DEF AfterUpgrade, LoopType
    <2>7. blockDay' \in 0 .. today'
        BY <1>a, <2>4 DEF refVars
    <2>8. unseen' \in BOOLEAN
        BY <2>2
    <2>9. LoopType'
        BY <1>a, <2>2, <2>3, <2>4, <2>6, <2>7, <2>8 DEF LoopType
    <2>10. QED
        BY <1>b, <2>4, <2>5, <2>9, ReferenceStill
<1>5. CASE FromNode
    <2>1. PICK day \in blockDay .. today, e \in Events(pools) : \E P \in PoolsAfter(pools, e), process \in BOOLEAN :
              /\ snapshot' = snapshot /\ pools' = P
              /\ xykPools' = CacheAtBlock(xykPools, e, P)
              /\ unseen' = (unseen /\ ProcessEvents(AfterUpgrade(xykPools, e), e) # Unknown
                                   /\ e.kind # "written")
              /\ Decide(e, P, xykPools', process, day)
        BY <1>5, NodeTaken
    <2>2. PICK P \in PoolsAfter(pools, e), process \in BOOLEAN :
              /\ snapshot' = snapshot /\ pools' = P
              /\ xykPools' = CacheAtBlock(xykPools, e, P)
              /\ unseen' = (unseen /\ ProcessEvents(AfterUpgrade(xykPools, e), e) # Unknown
                                   /\ e.kind # "written")
              /\ Decide(e, P, xykPools', process, day)
        BY <2>1
    <2>3. P \in SUBSET Pools
        BY <1>a, EventFacts DEF LoopType
    <2>4. /\ pc' \in {"resolve", "carried"} /\ blockDay' = day /\ UNCHANGED <<refVars, aged>>
        BY <2>2 DEF Decide
    <2>5. pc # "refresh"
        BY <1>5 DEF FromNode, Ready
    <2>6. xykPools' \in SUBSET Pools
        BY <1>a, <2>2, CacheFacts DEF LoopType
    <2>7. blockDay' \in 0 .. today'
        BY <1>a, <2>4 DEF refVars
    <2>8. unseen' \in BOOLEAN
        BY <2>2
    <2>9. LoopType'
        BY <1>a, <2>2, <2>3, <2>4, <2>6, <2>7, <2>8 DEF LoopType
    <2>10. QED
        BY <1>b, <2>4, <2>5, <2>9, ReferenceStill
<1>6. CASE Age
    <2>1. aged' = TRUE /\ UNCHANGED <<refVars, pc, blockDay, pools, xykPools, unseen, snapshot>>
        BY <1>6 DEF Age
    <2>2. LoopType'
        BY <1>a, <2>1 DEF LoopType, refVars
    <2>3. QED
        BY <1>b, <2>1, <2>2, ReferenceStill
<1>7. CASE Restart
    <2>1. /\ index' = stored /\ reload' = NoReload /\ poll' = NotPolling /\ throttled' = FALSE
          /\ UNCHANGED <<today, quote, stored>> /\ faults' \in 0 .. MaxFaults
          /\ pc' = "batch" /\ aged' = FALSE /\ xykPools' = Unknown /\ unseen' = FALSE /\ snapshot' = Unknown
          /\ pools' \in SUBSET Pools /\ blockDay' \in 0 .. blockDay
        BY <1>7, <1>a DEF Restart, ReferenceStart, ReferenceTypeOK
    <2>2. ReferenceTypeOK'
        BY <1>a, <1>d, <2>1 DEF ReferenceTypeOK
    <2>3. RefInv'
        BY <1>c, <2>1, BelowOrder DEF RefInv, NotPolling
    <2>4. blockDay' \in 0 .. today'
        BY <1>a, <2>1
    <2>5. LoopType'
        BY <2>1, <2>4 DEF LoopType
    <2>6. QED
        BY <1>b, <2>2, <2>3, <2>5
<1>8. CASE ReferenceStep /\ UNCHANGED loopVars
    <2>1. ReferenceTypeOK' /\ RefInv' /\ today <= today'
        BY <1>8, ReferenceGrows
    <2>2. today' \in Int
        BY <2>1 DEF ReferenceTypeOK, Days
    <2>3. LoopType'
        BY <1>8, <1>a, <2>1, <2>2 DEF LoopType, loopVars
    <2>4. QED
        BY <1>b, <2>1, <2>3
<1>9. CASE UNCHANGED vars
    <2>1. LoopType'
        BY <1>9, <1>a DEF vars, loopVars, refVars, LoopType
    <2>2. QED
        BY <1>9, <1>b, <2>1, ReferenceStill DEF vars, loopVars
<1>10. QED
    BY <1>1, <1>2, <1>3, <1>4, <1>5, <1>6, <1>7, <1>8, <1>9 DEF Next, Handler

\* Where a block is decided on: what the list, the last snapshot and the events say.
LEMMA PoolsDecided ==
    ASSUME TypeOK, PoolsInv, NEW day, NEW e \in Events(pools), NEW P \in PoolsAfter(pools, e),
           NEW read, NEW process \in BOOLEAN, Decide(e, P, read, process, day),
           xykPools' # Unknown /\ ~unseen' => xykPools' = P,
           xykPools' # Unknown \/ snapshot' = P,
           ~unseen' => read = P,
           ~process => unseen' \/ e.kind \in {"quiet", "native", "migrated"}
    PROVE  PoolsInv'
<1>1. /\ pools' = P /\ block'.read = read /\ block'.kind = (IF process THEN "quiet" ELSE e.kind)
      /\ pc' = IF process THEN "resolve" ELSE "carried"
    BY DEF Decide
<1>2. QED
    BY <1>1 DEF PoolsInv

LEMMA PoolsStep == TypeOK /\ PoolsInv /\ [Next]_vars => PoolsInv'
<1> SUFFICES ASSUME TypeOK, PoolsInv, [Next]_vars PROVE PoolsInv'
    OBVIOUS
<1>a. pools \in SUBSET Pools /\ xykPools \in (SUBSET Pools) \cup {Unknown} /\ Unknown \notin SUBSET Pools
    BY TypeSplit, InputConstants DEF LoopType
<1>1. CASE RefreshStart \/ RefreshDone \/ Age
    <2>1. /\ pc' \notin {"resolve", "carried"} \/ UNCHANGED <<pc, block>>
          /\ UNCHANGED <<inForce, xykPools, snapshot, pools, unseen>>
        BY <1>1 DEF RefreshStart, RefreshDone, Age
    <2>2. QED
        BY <2>1 DEF PoolsInv
<1>2. CASE Resolve
    BY <1>2 DEF Resolve, PoolsInv
<1>3. CASE FromSnapshot
    <2>1. PICK day \in blockDay .. today, e \in Events(pools) : \E P \in PoolsAfter(pools, e), process \in BOOLEAN :
              /\ snapshot' = P /\ pools' = P
              /\ xykPools' = AfterUpgrade(xykPools, e)
              /\ unseen' = (xykPools' # Unknown /\ (unseen \/ e.kind \in Lifecycle \cup {"written"}))
              /\ process = ShouldProcess(e, P, snapshot # Unknown /\ snapshot # P, Lookup(index, day, today))
              /\ Decide(e, P, P, process, day)
        BY <1>3, SnapshotTaken
    <2>2. PICK P \in PoolsAfter(pools, e), process \in BOOLEAN :
              /\ snapshot' = P /\ pools' = P
              /\ xykPools' = AfterUpgrade(xykPools, e)
              /\ unseen' = (xykPools' # Unknown /\ (unseen \/ e.kind \in Lifecycle \cup {"written"}))
              /\ process = ShouldProcess(e, P, snapshot # Unknown /\ snapshot # P, Lookup(index, day, today))
              /\ Decide(e, P, P, process, day)
        BY <2>1
    <2>3. /\ e.kind \in BlockKinds /\ P \in SUBSET Pools
          /\ e.kind \in {"created", "createdLegacy"} => P = pools \cup {e.pool}
          /\ e.kind \in {"destroyed", "destroyedLegacy"} => P = pools \ {e.pool}
          /\ e.kind \in {"quiet", "swap", "transfer", "native"} => P = pools
          /\ e.kind \in {"swap", "transfer", "native", "destroyed", "destroyedLegacy"} => e.pool \in pools
        BY <1>a, EventFacts
    <2>4. xykPools' # Unknown => xykPools' = xykPools /\ e.kind # "migrated"
        BY <2>2 DEF AfterUpgrade
    <2>5. xykPools' # Unknown /\ ~unseen' => xykPools' = P
        <3>1. SUFFICES ASSUME xykPools' # Unknown, ~unseen' PROVE xykPools' = P
            OBVIOUS
        <3>2. ~unseen /\ e.kind \notin Lifecycle \cup {"written", "migrated"}
            BY <2>2, <2>4, <3>1
        <3>3. e.kind \in {"quiet", "swap", "transfer", "native"}
            BY <2>3, <3>2 DEF BlockKinds, Lifecycle
        <3>4. QED
            BY <2>3, <2>4, <3>1, <3>2, <3>3 DEF PoolsInv
    <2>6. ASSUME ~process, ~unseen' PROVE e.kind \in {"quiet", "native", "migrated"}
        <3>1. /\ ~PoolTransfer(e, P) /\ ~(snapshot # Unknown /\ snapshot # P)
              /\ e.kind \notin {"swap", "written"} /\ inForce # NoPrices
            BY <2>2, <2>6 DEF ShouldProcess
        <3>2. e.kind \notin {"transfer", "created", "createdLegacy"}
            BY <2>3, <3>1 DEF PoolTransfer, Lifecycle
        <3>3. ASSUME e.kind \in {"destroyed", "destroyedLegacy"} PROVE FALSE
            <4>1. e.pool \in pools /\ e.pool \notin P
                BY <2>3, <3>3
            <4>2. CASE xykPools # Unknown
                <5>1. xykPools' = xykPools
                    BY <2>2, <3>3 DEF AfterUpgrade
                <5>2. QED
                    BY <2>2, <2>6, <3>3, <4>2, <5>1 DEF Lifecycle
            <4>3. CASE snapshot = pools
                BY <1>a, <3>1, <4>1, <4>3
            <4>4. QED
                BY <3>1, <4>2, <4>3 DEF PoolsInv
        <3>4. QED
            BY <2>3, <3>1, <3>2, <3>3 DEF BlockKinds
    <2>7. ~process => unseen' \/ e.kind \in {"quiet", "native", "migrated"}
        BY <2>6
    <2>8. QED
        BY <2>2, <2>5, <2>7, PoolsDecided
<1>4. CASE FromNode
    <2>1. PICK day \in blockDay .. today, e \in Events(pools) : \E P \in PoolsAfter(pools, e), process \in BOOLEAN :
              /\ snapshot' = snapshot /\ pools' = P
              /\ xykPools' = CacheAtBlock(xykPools, e, P)
              /\ unseen' = (unseen /\ ProcessEvents(AfterUpgrade(xykPools, e), e) # Unknown
                                   /\ e.kind # "written")
              /\ process = ShouldProcess(e, xykPools', e.kind \in Lifecycle, Lookup(index, day, today))
              /\ Decide(e, P, xykPools', process, day)
        BY <1>4, NodeTaken
    <2>2. PICK P \in PoolsAfter(pools, e), process \in BOOLEAN :
              /\ snapshot' = snapshot /\ pools' = P
              /\ xykPools' = CacheAtBlock(xykPools, e, P)
              /\ unseen' = (unseen /\ ProcessEvents(AfterUpgrade(xykPools, e), e) # Unknown
                                   /\ e.kind # "written")
              /\ process = ShouldProcess(e, xykPools', e.kind \in Lifecycle, Lookup(index, day, today))
              /\ Decide(e, P, xykPools', process, day)
        BY <2>1
    <2>3. /\ e.kind \in BlockKinds
          /\ e.kind \in {"quiet", "swap", "transfer", "native"} => P = pools
          /\ e.kind \in {"swap", "transfer", "native", "destroyed", "destroyedLegacy"} => e.pool \in pools
        BY <1>a, EventFacts
    <2>4. /\ xykPools' \in SUBSET Pools
          /\ \/ e.kind = "written" \/ ProcessEvents(AfterUpgrade(xykPools, e), e) = Unknown
             => xykPools' = P
          /\ xykPools = Unknown => xykPools' = P
          /\ xykPools = pools => xykPools' = P
        BY <1>a, <2>2, CacheFacts
    <2>5. xykPools' # Unknown
        BY <1>a, <2>4
    <2>6. ~unseen' => xykPools' = P
        <3>1. CASE unseen
            BY <2>2, <2>4, <3>1
        <3>2. CASE ~unseen
            BY <2>4, <3>2 DEF PoolsInv
        <3>3. QED
            BY <3>1, <3>2
    <2>7. ASSUME ~process, ~unseen' PROVE e.kind \in {"quiet", "native", "migrated"}
        <3>1. /\ ~PoolTransfer(e, xykPools') /\ e.kind \notin Lifecycle
              /\ e.kind \notin {"swap", "written"}
            BY <2>2, <2>7 DEF ShouldProcess
        <3>2. e.kind # "transfer"
            BY <2>3, <2>6, <2>7, <3>1 DEF PoolTransfer
        <3>3. QED
            BY <2>3, <3>1, <3>2 DEF BlockKinds, Lifecycle
    <2>8. ~process => unseen' \/ e.kind \in {"quiet", "native", "migrated"}
        BY <2>7
    <2>9. QED
        BY <2>2, <2>5, <2>6, <2>8, PoolsDecided
<1>5. CASE Restart
    BY <1>5 DEF Restart, PoolsInv
<1>6. CASE (ReferenceStep /\ UNCHANGED loopVars) \/ UNCHANGED vars
    <2>1. UNCHANGED <<pc, inForce, xykPools, snapshot, pools, unseen, block>>
        BY <1>6 DEF loopVars, vars
    <2>2. QED
        BY <2>1 DEF PoolsInv
<1>7. QED
    BY <1>1, <1>2, <1>3, <1>4, <1>5, <1>6 DEF Next, Handler

LEMMA AnchorKept ==
    ASSUME NEW ref \in Reference, NEW other \in Reference, Below(ref, other), NEW day \in Days,
           NEW now \in Int, NEW later \in Int, now <= later, later - day <= LIVE_WINDOW,
           NEW a \in Anchors(day), AtMost(a, Lookup(ref, day, now))
    PROVE  AtMost(a, Lookup(other, day, later))
<1>1. Lookup(ref, day, now) \in Anchors(day) /\ Lookup(other, day, later) \in Anchors(day)
    BY LookupIs
<1>2. AtMost(Lookup(ref, day, now), Lookup(other, day, later))
    BY LookupGrows
<1>3. QED
    BY <1>1, <1>2, AtMostOrder

\* Anchors of a batch stand while table and index grow and the day goes on.
LEMMA AnchorGrows ==
    ASSUME TypeOK, TypeOK', AnchorInv, Below(stored, stored'), Below(index, index'),
           reload' = reload, today <= today', UNCHANGED <<pc, blockDay, lastSeed, block, inForce>>
    PROVE  AnchorInv'
<1>1. /\ today \in Int /\ today' \in Int /\ blockDay \in Days
      /\ stored \in Reference /\ stored' \in Reference /\ index \in Reference /\ index' \in Reference
      /\ reload \in Reference \cup {NoReload} /\ LIVE_WINDOW \in Int
    BY TypeSplit, InputConstants DEF TypeOK, ReferenceTypeOK, LoopType, Days
<1>2. \A d \in Days : d \in Int
    BY DEF Days
<1>3. \A d \in Days : today' - d <= LIVE_WINDOW => today - d <= LIVE_WINDOW
    BY <1>1, <1>2
<1>4. ASSUME NEW d \in Days, NEW a \in Anchors(d), today' - d <= LIVE_WINDOW
      PROVE  /\ AtMost(a, Lookup(index, d, today)) => AtMost(a, Lookup(index', d, today'))
             /\ AtMost(a, Lookup(stored, d, today)) => AtMost(a, Lookup(stored', d, today'))
             /\ reload \in Reference /\ AtMost(a, Lookup(reload, d, today)) => AtMost(a, Lookup(reload, d, today'))
    <2>1. \A r, s \in Reference, now, later \in Int :
             Below(r, s) /\ now <= later /\ later - d <= LIVE_WINDOW /\ AtMost(a, Lookup(r, d, now))
             => AtMost(a, Lookup(s, d, later))
        BY AnchorKept
    <2>2. reload \in Reference => Below(reload, reload)
        BY BelowOrder
    <2>3. QED
        BY <1>1, <1>4, <2>1, <2>2
<1>5. pc' = "resolve" /\ today' - blockDay' <= LIVE_WINDOW => AtMost(block'.seed, Lookup(index', blockDay', today'))
    BY <1>1, <1>3, <1>4 DEF AnchorInv, Live
<1>6. ASSUME inForce # NoPrices
      PROVE  /\ inForce.day \in Days /\ inForce.seed \in Anchors(inForce.day)
             /\ inForce.day <= blockDay
             /\ today' - inForce.day <= LIVE_WINDOW =>
                  /\ AtMost(lastSeed, inForce.seed)
                  /\ AtMost(inForce.seed, Lookup(index', inForce.day, today'))
                  /\ AtMost(inForce.seed, Lookup(stored', inForce.day, today'))
                  /\ reload # NoReload => AtMost(inForce.seed, Lookup(reload, inForce.day, today'))
    <2>1. /\ inForce.day \in Days /\ inForce.seed \in Anchors(inForce.day)
          /\ inForce.day <= blockDay
          /\ Live(inForce.day) =>
               /\ AtMost(lastSeed, inForce.seed)
               /\ AtMost(inForce.seed, Lookup(index, inForce.day, today))
               /\ AtMost(inForce.seed, Lookup(stored, inForce.day, today))
               /\ reload # NoReload => AtMost(inForce.seed, Lookup(reload, inForce.day, today))
        BY <1>6 DEF AnchorInv
    <2>2. ASSUME today' - inForce.day <= LIVE_WINDOW
          PROVE  /\ AtMost(lastSeed, inForce.seed)
                 /\ AtMost(inForce.seed, Lookup(index', inForce.day, today'))
                 /\ AtMost(inForce.seed, Lookup(stored', inForce.day, today'))
                 /\ reload # NoReload => AtMost(inForce.seed, Lookup(reload, inForce.day, today'))
        <3>1. Live(inForce.day)
            BY <1>3, <2>1, <2>2 DEF Live
        <3>2. QED
            BY <1>1, <1>4, <2>1, <2>2, <3>1
    <2>3. QED
        BY <2>1, <2>2
<1>7. pc = "resolve" => block.seed \in Anchors(blockDay)
    BY DEF AnchorInv
<1>8. pc = "carried" =>
        /\ inForce # NoPrices
        /\ \/ inForce.seed = block.seed
           \/ inForce.day < blockDay
           \/ block.now - blockDay > LIVE_WINDOW
    BY DEF AnchorInv
<1>9. QED
    BY <1>5, <1>6, <1>7, <1>8 DEF AnchorInv, Live

\* A block's first lookup: the block is resolved, or the anchor is that of the prices in force.
LEMMA AnchorDecided ==
    ASSUME TypeOK, AnchorInv, NEW day \in blockDay .. today, NEW e, NEW P, NEW read,
           NEW process \in BOOLEAN, Decide(e, P, read, process, day),
           ~process => inForce # NoPrices /\ Lookup(index, day, today) = lastSeed
    PROVE  AnchorInv'
<1>1. /\ today \in Int /\ blockDay \in Int /\ 0 <= blockDay /\ day \in Days
      /\ index \in Reference /\ LIVE_WINDOW \in Int
      /\ \A d \in Days : d \in Int
    BY TypeSplit, InputConstants DEF TypeOK, ReferenceTypeOK, LoopType, Days
<1>2. /\ UNCHANGED <<today, stored, index, reload, lastSeed, inForce>> /\ blockDay' = day
      /\ block'.seed = Lookup(index, day, today) /\ block'.now = today
      /\ pc' = IF process THEN "resolve" ELSE "carried"
    BY DEF Decide, refVars
<1>3. Lookup(index, day, today) \in Anchors(day)
    BY <1>1, LookupIs
<1>4. AtMost(block'.seed, Lookup(index', blockDay', today'))
    BY <1>1, <1>2, <1>3, AtMostOrder
<1>5. inForce # NoPrices => inForce.day \in Days /\ inForce.day <= blockDay'
    <2>1. inForce # NoPrices => inForce.day \in Days /\ inForce.day <= blockDay
        BY DEF AnchorInv
    <2>2. \A d \in Days : d <= blockDay => d <= day
        BY <1>1
    <2>3. QED
        BY <1>2, <2>1, <2>2
<1>6. ASSUME pc' = "carried"
      PROVE  /\ inForce # NoPrices
             /\ \/ inForce.seed = block'.seed
                \/ inForce.day < blockDay'
                \/ block'.now - blockDay' > LIVE_WINDOW
    <2>1. inForce # NoPrices /\ block'.seed = lastSeed
        BY <1>2, <1>6
    <2>2. CASE inForce.day = blockDay' /\ Live(day)
        <3>1. /\ inForce.seed \in Anchors(day) /\ lastSeed \in Anchors(day)
              /\ AtMost(lastSeed, inForce.seed) /\ AtMost(inForce.seed, lastSeed)
            BY <1>2, <1>3, <2>1, <2>2 DEF AnchorInv
        <3>2. lastSeed = inForce.seed
            BY <1>1, <3>1, AtMostOrder
        <3>3. QED
            BY <2>1, <3>2
    <2>3. CASE inForce.day = blockDay' /\ ~Live(day)
        BY <1>1, <1>2, <2>1, <2>3 DEF Live
    <2>4. inForce.day \in Int /\ blockDay' \in Int /\ inForce.day <= blockDay'
        BY <1>1, <1>2, <1>5, <2>1
    <2>5. inForce.day < blockDay' \/ inForce.day = blockDay'
        BY <2>4
    <2>6. QED
        BY <2>1, <2>2, <2>3, <2>5
<1>7. inForce # NoPrices => /\ inForce.seed \in Anchors(inForce.day)
                            /\ Live(inForce.day) =>
                                 /\ AtMost(lastSeed, inForce.seed)
                                 /\ AtMost(inForce.seed, Lookup(index, inForce.day, today))
                                 /\ AtMost(inForce.seed, Lookup(stored, inForce.day, today))
                                 /\ reload # NoReload => AtMost(inForce.seed, Lookup(reload, inForce.day, today))
    BY DEF AnchorInv
<1>8. QED
    BY <1>2, <1>3, <1>4, <1>5, <1>6, <1>7 DEF AnchorInv, Live

LEMMA AnchorStep == TypeOK /\ TypeOK' /\ RefInv /\ AnchorInv /\ [Next]_vars => AnchorInv'
<1> SUFFICES ASSUME TypeOK, TypeOK', RefInv, AnchorInv, [Next]_vars PROVE AnchorInv'
    OBVIOUS
<1>a. /\ today \in Int /\ blockDay \in Days /\ stored \in Reference /\ index \in Reference
      /\ LIVE_WINDOW \in Int
    BY TypeSplit, InputConstants DEF TypeOK, ReferenceTypeOK, LoopType, Days
<1>b. Below(stored, stored) /\ Below(index, index)
    BY <1>a, BelowOrder
<1>1. CASE RefreshStart
    BY <1>1 DEF RefreshStart, ReloadAsked, AnchorInv, Live
<1>2. CASE RefreshDone
    BY <1>2 DEF RefreshDone, ReloadAnswered, ReloadFailed, AnchorInv, Live, RefInv
<1>3. CASE Resolve
    <2>1. /\ pc = "resolve" /\ pc' = "batch" /\ lastSeed' = block.seed
          /\ inForce' = [seed |-> Lookup(index, blockDay, today), day |-> blockDay]
          /\ UNCHANGED <<today, stored, index, reload, blockDay>>
        BY <1>3 DEF Resolve, refVars
    <2>2. reload = NoReload
        BY <2>1 DEF RefInv
    <2>3. /\ Lookup(index, blockDay, today) \in Anchors(blockDay)
          /\ AtMost(Lookup(index, blockDay, today), Lookup(index, blockDay, today))
        BY <1>a, LookupIs, AtMostOrder
    <2>4. Live(blockDay) => AtMost(Lookup(index, blockDay, today), Lookup(stored, blockDay, today))
        <3>1. Below(index, stored) /\ today <= today
            BY <1>a DEF RefInv
        <3>2. QED
            BY <1>a, <3>1, LookupGrows DEF Live
    <2>5. Live(blockDay) => AtMost(block.seed, Lookup(index, blockDay, today))
        BY <2>1 DEF AnchorInv
    <2>6. inForce'.seed = Lookup(index, blockDay, today) /\ inForce'.day = blockDay
        BY <2>1
    <2>7. blockDay <= blockDay
        BY <1>a DEF Days
    <2>8. QED
        BY <1>a, <2>1, <2>2, <2>3, <2>4, <2>5, <2>6, <2>7 DEF AnchorInv, Live
<1>4. CASE FromSnapshot
    <2>1. PICK day \in blockDay .. today, e \in Events(pools) : \E P \in PoolsAfter(pools, e), process \in BOOLEAN :
              /\ process = ShouldProcess(e, P, snapshot # Unknown /\ snapshot # P, Lookup(index, day, today))
              /\ Decide(e, P, P, process, day)
        BY <1>4, SnapshotTaken
    <2>2. PICK P \in PoolsAfter(pools, e), process \in BOOLEAN :
              /\ process = ShouldProcess(e, P, snapshot # Unknown /\ snapshot # P, Lookup(index, day, today))
              /\ Decide(e, P, P, process, day)
        BY <2>1
    <2>3. ~process => inForce # NoPrices /\ Lookup(index, day, today) = lastSeed
        BY <2>2 DEF ShouldProcess
    <2>4. QED
        BY <2>2, <2>3, AnchorDecided
<1>5. CASE FromNode
    <2>1. PICK day \in blockDay .. today, e \in Events(pools) : \E P \in PoolsAfter(pools, e), process \in BOOLEAN :
              /\ process = ShouldProcess(e, xykPools', e.kind \in Lifecycle, Lookup(index, day, today))
              /\ Decide(e, P, xykPools', process, day)
        BY <1>5, NodeTaken
    <2>2. PICK P \in PoolsAfter(pools, e), process \in BOOLEAN :
              /\ process = ShouldProcess(e, xykPools', e.kind \in Lifecycle, Lookup(index, day, today))
              /\ Decide(e, P, xykPools', process, day)
        BY <2>1
    <2>3. ~process => inForce # NoPrices /\ Lookup(index, day, today) = lastSeed
        BY <2>2 DEF ShouldProcess
    <2>4. QED
        BY <2>2, <2>3, AnchorDecided
<1>6. CASE Age \/ UNCHANGED vars
    <2>1. UNCHANGED <<refVars, pc, blockDay, lastSeed, block, inForce>>
        BY <1>6 DEF Age, vars, loopVars
    <2>2. UNCHANGED <<today, stored, index, reload>> /\ today <= today
        BY <1>a, <2>1 DEF refVars
    <2>3. QED
        BY <1>b, <2>1, <2>2, AnchorGrows
<1>7. CASE Restart
    BY <1>7 DEF Restart, AnchorInv
<1>8. CASE ReferenceStep /\ UNCHANGED loopVars
    BY <1>8, ReferenceGrows, AnchorGrows DEF loopVars
<1>9. QED
    BY <1>1, <1>2, <1>3, <1>4, <1>5, <1>6, <1>7, <1>8 DEF Next, Handler

\* A block that a pipeline at the head resolves is priced with the pools the chain has at
\* that block, unless snapshot blocks were gone through with a list in hand; and a block
\* whose prices are carried over moved no pool, but for native currency and a migration,
\* and would have been anchored on the same KSM price, whatever polls, reloads, closes,
\* failed requests and restarts went between the two lookups of an anchor, as long as the
\* day of the prices has not ended and can still have a live one
\* (poolcache/compositionCache.ts, indexer.ts).
THEOREM BlocksOweNothing == Spec => []Inv
<1> DEFINE IInv == TypeOK /\ RefInv /\ PoolsInv /\ AnchorInv
<1>1. Init => IInv
    <2> SUFFICES ASSUME Init PROVE IInv
        OBVIOUS
    <2>1. TypeOK /\ RefInv
        BY InputsTypeInit
    <2>2. PoolsInv
        BY DEF Init, PoolsInv
    <2>3. AnchorInv
        BY DEF Init, AnchorInv
    <2>4. QED
        BY <2>1, <2>2, <2>3
<1>2. IInv /\ [Next]_vars => IInv'
    BY InputsTypeStep, PoolsStep, AnchorStep
<1>3. IInv => Inv
    BY DEF Inv, PoolsExact, CarriedQuiet, PoolsInv, AnchorInv
<1>4. QED
    BY <1>1, <1>2, <1>3, PTL DEF Spec

----------------------------------------------------------------------------
(* Sums over finite sets. *)

\* A nonempty set of naturals has a least element.
LEMMA LeastExists ==
    ASSUME NEW T, T \subseteq Nat, T # {}
    PROVE  \E x \in T : \A y \in T : x <= y
<1>1. PICK x \in T : \A y \in T : ~(<<y, x>> \in OpToRel(<, Nat))
    BY WFMin, NatLessThanWellFounded
<1>2. ASSUME NEW y \in T PROVE x <= y
    <2>1. <<y, x>> \notin OpToRel(<, Nat)
        BY <1>1
    <2>2. <<y, x>> \in Nat \X Nat
        OBVIOUS
    <2>3. ~(y < x)
        BY <2>1, <2>2 DEF OpToRel
    <2> QED
        BY <2>3
<1> QED
    BY <1>2

\* What holds of 0 and of every successor holds of every natural number.
LEMMA NaturalsFill ==
    ASSUME NEW G, 0 \in G, \A n \in Nat : n \in G => n + 1 \in G
    PROVE  Nat \subseteq G
<1> DEFINE Bad == {n \in Nat : n \notin G}
<1> SUFFICES ASSUME Bad # {} PROVE FALSE
    OBVIOUS
<1>1. PICK n \in Bad : \A m \in Bad : n <= m
    <2>1. Bad \subseteq Nat
        OBVIOUS
    <2> HIDE DEF Bad
    <2> QED
        BY <2>1, LeastExists
<1>2. n # 0 /\ n \in Nat
    OBVIOUS
<1>3. n - 1 \in Nat /\ n - 1 \in G
    BY <1>1, <1>2
<1> QED
    BY <1>2, <1>3

\* What holds of the empty set and of every set with one element more holds of a finite set.
LEMMA SubsetsFill ==
    ASSUME NEW S, IsFiniteSet(S), NEW G, {} \in G,
           \A T \in SUBSET S : \A x \in S \ T : T \in G => T \cup {x} \in G
    PROVE  S \in G
<1> DEFINE Sized == {n \in Nat : \A T \in SUBSET S : Cardinality(T) = n => T \in G}
<1>1. \A T \in SUBSET S : IsFiniteSet(T) /\ Cardinality(T) \in Nat
    BY FS_Subset, FS_CardinalityType
<1>2. 0 \in Sized
    BY <1>1, FS_EmptySet
<1>3. ASSUME NEW n \in Nat, n \in Sized PROVE n + 1 \in Sized
    <2> SUFFICES ASSUME NEW T \in SUBSET S, Cardinality(T) = n + 1 PROVE T \in G
        OBVIOUS
    <2>1. Cardinality(T) # 0 /\ T # {}
        BY <1>1, FS_EmptySet
    <2>2. PICK x \in T : TRUE
        BY <2>1
    <2>3. Cardinality(T \ {x}) = Cardinality(T) - 1
        BY <1>1, <2>2, FS_RemoveElement
    <2>5. Cardinality(T \ {x}) = n
        BY <2>3
    <2>4. T \ {x} \in G /\ T = (T \ {x}) \cup {x}
        BY <1>3, <2>5, <2>2
    <2> QED
        BY <2>4
<1> HIDE DEF Sized
<1>4. Nat \subseteq Sized
    BY <1>2, <1>3, NaturalsFill
<1> QED
    BY <1>1, <1>4 DEF Sized

One(s) == CHOOSE x \in s : TRUE
\* The equation of the recursive function in MapThenFoldSet.
Sums(F, f, S) == F = [s \in SUBSET S |-> IF s = {} THEN 0 ELSE f[One(s)] + F[s \ {One(s)}]]

LEMMA SumsExist ==
    ASSUME NEW S, IsFiniteSet(S), NEW f, \A x \in S : f[x] \in Int
    PROVE  \E F \in [SUBSET S -> Int] : Sums(F, f, S)
<1> DEFINE Turn(F) == [s \in SUBSET S |-> IF s = {} THEN 0 ELSE f[One(s)] + F[s \ {One(s)}]]
           Upto(F, n) == \A s \in SUBSET S : Cardinality(s) <= n => F[s] = Turn(F)[s]
           G == {n \in Nat : \E F \in [SUBSET S -> Int] : Upto(F, n)}
<1>1. \A s \in SUBSET S : IsFiniteSet(s) /\ Cardinality(s) \in Nat
    BY FS_Subset, FS_CardinalityType
<1>2. \A s \in SUBSET S : s # {} => One(s) \in s /\ s \ {One(s)} \in SUBSET S
                                   /\ Cardinality(s \ {One(s)}) = Cardinality(s) - 1
    <2> SUFFICES ASSUME NEW s \in SUBSET S, s # {}
                 PROVE  One(s) \in s /\ Cardinality(s \ {One(s)}) = Cardinality(s) - 1
        OBVIOUS
    <2>1. One(s) \in s
        BY DEF One
    <2> QED
        BY <2>1, <1>1, FS_RemoveElement
<1>3. ASSUME NEW F \in [SUBSET S -> Int] PROVE Turn(F) \in [SUBSET S -> Int]
    <2>1. \A s \in SUBSET S : s # {} => f[One(s)] \in Int /\ F[s \ {One(s)}] \in Int
        BY <1>2
    <2>2. \A s \in SUBSET S : (IF s = {} THEN 0 ELSE f[One(s)] + F[s \ {One(s)}]) \in Int
        BY <2>1
    <2> QED
        BY <2>2
<1>4. 0 \in G
    <2> DEFINE Z == [s \in SUBSET S |-> 0]
    <2>1. ASSUME NEW s \in SUBSET S, Cardinality(s) <= 0 PROVE s = {}
        BY <2>1, <1>1, FS_EmptySet
    <2>2. Upto(Z, 0)
        BY <2>1
    <2>3. Z \in [SUBSET S -> Int] /\ 0 \in Nat
        OBVIOUS
    <2> HIDE DEF Z, Upto
    <2> QED
        BY <2>2, <2>3
<1>5. ASSUME NEW n \in Nat, n \in G PROVE n + 1 \in G
    <2>1. PICK F \in [SUBSET S -> Int] : Upto(F, n)
        BY <1>5
    <2> DEFINE H == Turn(F)
    <2>2. H \in [SUBSET S -> Int]
        BY <1>3
    <2>3. ASSUME NEW s \in SUBSET S, Cardinality(s) <= n + 1 PROVE H[s] = Turn(H)[s]
        <3>1. CASE s = {}
            BY <3>1
        <3>2. CASE s # {}
            <4>1. s \ {One(s)} \in SUBSET S /\ Cardinality(s \ {One(s)}) <= n
                BY <3>2, <1>2, <1>1, <2>3
            <4>2. F[s \ {One(s)}] = H[s \ {One(s)}]
                BY <4>1, <2>1
            <4> QED
                BY <4>2, <3>2
        <3> QED
            BY <3>1, <3>2
    <2> HIDE DEF H, Turn
    <2>4. Upto(H, n + 1)
        BY <2>3
    <2>5. n + 1 \in Nat
        OBVIOUS
    <2> HIDE DEF Upto
    <2> QED
        BY <2>4, <2>5, <2>2
<1>6. Cardinality(S) \in G
    <2> HIDE DEF G
    <2> QED
        BY <1>4, <1>5, NaturalsFill, <1>1
<1>7. PICK F \in [SUBSET S -> Int] : Upto(F, Cardinality(S))
    BY <1>6
<1>8. \A s \in SUBSET S : Cardinality(s) <= Cardinality(S)
    BY FS_Subset
<1>9. \A s \in SUBSET S : F[s] = Turn(F)[s]
    BY <1>7, <1>8
<1>10. F = Turn(F)
    BY <1>9
<1> QED
    BY <1>10 DEF Sums

LEMMA SumsAgree ==
    ASSUME NEW S, NEW R, NEW f, NEW g, NEW F, NEW H, Sums(F, f, S), Sums(H, g, R),
           NEW T, IsFiniteSet(T), T \subseteq S, T \subseteq R, \A x \in T : f[x] = g[x]
    PROVE  F[T] = H[T]
<1> DEFINE G == {n \in Nat : \A U \in SUBSET T : Cardinality(U) = n => F[U] = H[U]}
<1>1. \A s \in SUBSET T : IsFiniteSet(s) /\ Cardinality(s) \in Nat
    BY FS_Subset, FS_CardinalityType
<1>2. \A s \in SUBSET T : s # {} => One(s) \in s /\ s \ {One(s)} \in SUBSET T
                                   /\ Cardinality(s \ {One(s)}) = Cardinality(s) - 1
    <2> SUFFICES ASSUME NEW s \in SUBSET T, s # {}
                 PROVE  One(s) \in s /\ Cardinality(s \ {One(s)}) = Cardinality(s) - 1
        OBVIOUS
    <2>1. One(s) \in s
        BY DEF One
    <2> QED
        BY <2>1, <1>1, FS_RemoveElement
<1>3. \A s \in SUBSET T : /\ F[s] = IF s = {} THEN 0 ELSE f[One(s)] + F[s \ {One(s)}]
                          /\ H[s] = IF s = {} THEN 0 ELSE g[One(s)] + H[s \ {One(s)}]
    BY DEF Sums
<1>4. 0 \in G
    BY <1>1, <1>3, FS_EmptySet
<1>5. ASSUME NEW n \in Nat, n \in G PROVE n + 1 \in G
    <2> SUFFICES ASSUME NEW U \in SUBSET T, Cardinality(U) = n + 1 PROVE F[U] = H[U]
        OBVIOUS
    <2>1. U # {}
        BY FS_EmptySet
    <2>2. F[U \ {One(U)}] = H[U \ {One(U)}] /\ f[One(U)] = g[One(U)]
        BY <1>5, <2>1, <1>2
    <2> QED
        BY <2>1, <2>2, <1>3
<1> HIDE DEF G
<1>6. Nat \subseteq G
    BY <1>4, <1>5, NaturalsFill
<1> QED
    BY <1>1, <1>6 DEF G

\* F has the sums over all subsets.
SumTable(F, f, S) ==
    /\ F \in [SUBSET S -> Int] /\ Sums(F, f, S)
    /\ \A T \in SUBSET S : SumOver(f, T) = F[T]

LEMMA SumsOf ==
    ASSUME NEW S, IsFiniteSet(S), NEW f, \A x \in S : f[x] \in Int
    PROVE  \E F : SumTable(F, f, S)
<1>1. PICK F \in [SUBSET S -> Int] : Sums(F, f, S)
    BY SumsExist
<1>2. ASSUME NEW T \in SUBSET S PROVE SumOver(f, T) = F[T]
    <2> DEFINE H == CHOOSE iter : iter = [s \in SUBSET T |-> IF s = {} THEN 0
                                         ELSE f[CHOOSE x \in s : TRUE] + iter[s \ {CHOOSE x \in s : TRUE}]]
    <2>1. SumOver(f, T) = H[T]
        BY DEF SumOver, MapThenSumSet, MapThenFoldSet
    <2>2. IsFiniteSet(T)
        BY FS_Subset
    <2>3. PICK K \in [SUBSET T -> Int] : Sums(K, f, T)
        BY <2>2, SumsExist
    <2>4. Sums(H, f, T)
        BY <2>3 DEF Sums, One
    <2> HIDE DEF H
    <2>5. F[T] = H[T]
        BY <2>2, <2>4, <1>1, SumsAgree
    <2> QED
        BY <2>1, <2>5
<1> QED
    BY <1>1, <1>2 DEF SumTable

LEMMA SumEmpty ==
    ASSUME NEW f
    PROVE  SumOver(f, {}) = 0
<1>1. IsFiniteSet({}) /\ \A x \in {} : f[x] \in Int
    BY FS_EmptySet
<1>2. PICK F : SumTable(F, f, {})
    BY <1>1, SumsOf
<1> QED
    BY <1>2 DEF SumTable, Sums

LEMMA SumInt ==
    ASSUME NEW S, IsFiniteSet(S), NEW f, \A x \in S : f[x] \in Int
    PROVE  SumOver(f, S) \in Int
<1>1. PICK F : SumTable(F, f, S)
    BY SumsOf
<1> QED
    BY <1>1 DEF SumTable

LEMMA SumSame ==
    ASSUME NEW S, IsFiniteSet(S), NEW f, NEW g, \A x \in S : f[x] = g[x] /\ f[x] \in Int
    PROVE  SumOver(f, S) = SumOver(g, S)
<1>1. PICK F : SumTable(F, f, S)
    BY SumsOf
<1>2. \A x \in S : g[x] \in Int
    OBVIOUS
<1>3. PICK H : SumTable(H, g, S)
    BY <1>2, SumsOf
<1>4. F[S] = H[S]
    BY <1>1, <1>3, SumsAgree DEF SumTable
<1> QED
    BY <1>1, <1>3, <1>4 DEF SumTable

\* A sum is the same whatever element is added last.
LEMMA SumTakeOut ==
    ASSUME NEW S, IsFiniteSet(S), NEW f, \A x \in S : f[x] \in Int, NEW x \in S
    PROVE  SumOver(f, S) = f[x] + SumOver(f, S \ {x})
<1>1. PICK F : SumTable(F, f, S)
    BY SumsOf
<1> DEFINE G == {n \in Nat : \A T \in SUBSET S : Cardinality(T) = n =>
                                 \A y \in T : F[T] = f[y] + F[T \ {y}]}
<1>2. \A T \in SUBSET S : IsFiniteSet(T) /\ Cardinality(T) \in Nat
    BY FS_Subset, FS_CardinalityType
<1>3. \A T \in SUBSET S : \A y \in T : Cardinality(T \ {y}) = Cardinality(T) - 1
    BY <1>2, FS_RemoveElement
<1>4. 0 \in G
    BY <1>2, FS_EmptySet
<1>5. ASSUME NEW n \in Nat, n \in G PROVE n + 1 \in G
    <2> SUFFICES ASSUME NEW T \in SUBSET S, Cardinality(T) = n + 1, NEW y \in T
                 PROVE  F[T] = f[y] + F[T \ {y}]
        OBVIOUS
    <2> DEFINE z == One(T)
    <2>1. z \in T
        BY DEF One
    <2>2. F[T] = f[z] + F[T \ {z}]
        BY <1>1 DEF SumTable, Sums
    <2>3. CASE z = y
        BY <2>2, <2>3
    <2>4. CASE z # y
        <3> HIDE DEF z
        <3>1. Cardinality(T \ {z}) = n /\ Cardinality(T \ {y}) = n
            BY <1>3, <2>1
        <3>2. F[T \ {z}] = f[y] + F[(T \ {z}) \ {y}]
            BY <1>5, <3>1, <2>4
        <3>3. F[T \ {y}] = f[z] + F[(T \ {y}) \ {z}]
            BY <1>5, <3>1, <2>1, <2>4
        <3>4. (T \ {z}) \ {y} = (T \ {y}) \ {z}
            OBVIOUS
        <3>5. f[y] \in Int /\ f[z] \in Int /\ F[(T \ {y}) \ {z}] \in Int
            BY <1>1, <2>1 DEF SumTable
        <3>6. F[T \ {z}] = f[y] + F[(T \ {y}) \ {z}]
            BY <3>2, <3>4
        <3> QED
            BY <2>2, <3>3, <3>5, <3>6
    <2> QED
        BY <2>3, <2>4
<1> HIDE DEF G
<1>6. Nat \subseteq G
    BY <1>4, <1>5, NaturalsFill
<1>7. F[S] = f[x] + F[S \ {x}]
    BY <1>2, <1>6 DEF G
<1> QED
    BY <1>1, <1>7 DEF SumTable

LEMMA SumAdd ==
    ASSUME NEW S, IsFiniteSet(S), NEW x, x \notin S, NEW f, \A y \in S \cup {x} : f[y] \in Int
    PROVE  SumOver(f, S \cup {x}) = f[x] + SumOver(f, S)
<1>1. IsFiniteSet(S \cup {x}) /\ (S \cup {x}) \ {x} = S
    BY FS_AddElement
<1>2. SumOver(f, S \cup {x}) = f[x] + SumOver(f, (S \cup {x}) \ {x})
    BY <1>1, SumTakeOut
<1> QED
    BY <1>1, <1>2

LEMMA SumSingle ==
    ASSUME NEW x, NEW f, f[x] \in Int
    PROVE  SumOver(f, {x}) = f[x]
<1>1. SumOver(f, {} \cup {x}) = f[x] + SumOver(f, {})
    BY SumAdd, FS_EmptySet
<1> QED
    BY <1>1, SumEmpty

LEMMA SumUnion ==
    ASSUME NEW S, IsFiniteSet(S), NEW R, IsFiniteSet(R), S \cap R = {},
           NEW f, \A x \in S \cup R : f[x] \in Int
    PROVE  SumOver(f, S \cup R) = SumOver(f, S) + SumOver(f, R)
<1> DEFINE G == {T \in SUBSET R : SumOver(f, S \cup T) = SumOver(f, S) + SumOver(f, T)}
<1>1. \A T \in SUBSET R : /\ IsFiniteSet(T) /\ IsFiniteSet(S \cup T)
                          /\ SumOver(f, T) \in Int /\ SumOver(f, S \cup T) \in Int
    <2> SUFFICES ASSUME NEW T \in SUBSET R
                 PROVE  /\ IsFiniteSet(T) /\ IsFiniteSet(S \cup T)
                        /\ SumOver(f, T) \in Int /\ SumOver(f, S \cup T) \in Int
        OBVIOUS
    <2>1. IsFiniteSet(T)
        BY FS_Subset
    <2>2. IsFiniteSet(S \cup T)
        BY <2>1, FS_Union
    <2> QED
        BY <2>1, <2>2, SumInt
<1>2. SumOver(f, S) \in Int
    BY SumInt
<1>3. {} \in G
    <2>1. S \cup {} = S /\ SumOver(f, {}) = 0
        BY SumEmpty
    <2> QED
        BY <2>1, <1>2
<1>4. ASSUME NEW T \in SUBSET R, NEW x \in R \ T, T \in G PROVE T \cup {x} \in G
    <2>1. SumOver(f, T \cup {x}) = f[x] + SumOver(f, T)
        BY <1>1, SumAdd
    <2>2. SumOver(f, (S \cup T) \cup {x}) = f[x] + SumOver(f, S \cup T)
        <3>1. x \notin S \cup T
            OBVIOUS
        <3>2. \A y \in (S \cup T) \cup {x} : f[y] \in Int
            OBVIOUS
        <3> QED
            BY <3>1, <3>2, <1>1, SumAdd
    <2>3. (S \cup T) \cup {x} = S \cup (T \cup {x})
        OBVIOUS
    <2>4. f[x] \in Int /\ SumOver(f, T) \in Int
        BY <1>1
    <2>5. SumOver(f, S \cup T) = SumOver(f, S) + SumOver(f, T)
        BY <1>4
    <2>7. SumOver(f, S \cup (T \cup {x})) = f[x] + SumOver(f, S \cup T)
        BY <2>2, <2>3, Zenon
    <2>6. SumOver(f, S \cup (T \cup {x})) = SumOver(f, S) + SumOver(f, T \cup {x})
        BY <2>1, <2>7, <2>4, <2>5, <1>2
    <2> QED
        BY <2>6
<1> HIDE DEF G
<1>5. R \in G
    BY <1>3, <1>4, SubsetsFill
<1> QED
    BY <1>5 DEF G

LEMMA SumLeq ==
    ASSUME NEW S, IsFiniteSet(S), NEW f, NEW g,
           \A x \in S : f[x] \in Int /\ g[x] \in Int /\ f[x] <= g[x]
    PROVE  SumOver(f, S) <= SumOver(g, S)
<1> DEFINE G == {T \in SUBSET S : SumOver(f, T) <= SumOver(g, T)}
<1>1. \A T \in SUBSET S : IsFiniteSet(T) /\ SumOver(f, T) \in Int /\ SumOver(g, T) \in Int
    <2> SUFFICES ASSUME NEW T \in SUBSET S
                 PROVE  IsFiniteSet(T) /\ SumOver(f, T) \in Int /\ SumOver(g, T) \in Int
        OBVIOUS
    <2>1. IsFiniteSet(T)
        BY FS_Subset
    <2> QED
        BY <2>1, SumInt
<1>2. {} \in G
    <2>1. SumOver(f, {}) = 0 /\ SumOver(g, {}) = 0
        BY SumEmpty
    <2> QED
        BY <2>1
<1>3. ASSUME NEW T \in SUBSET S, NEW x \in S \ T, T \in G PROVE T \cup {x} \in G
    <2>1. SumOver(f, T \cup {x}) = f[x] + SumOver(f, T)
        BY <1>1, SumAdd
    <2>2. SumOver(g, T \cup {x}) = g[x] + SumOver(g, T)
        BY <1>1, SumAdd
    <2>3. SumOver(f, T) <= SumOver(g, T)
        BY <1>3
    <2>4. SumOver(f, T \cup {x}) <= SumOver(g, T \cup {x})
        BY <2>1, <2>2, <2>3, <1>1
    <2> QED
        BY <2>4
<1> HIDE DEF G
<1>4. S \in G
    BY <1>2, <1>3, SubsetsFill
<1> QED
    BY <1>4 DEF G

LEMMA SumZero ==
    ASSUME NEW S, IsFiniteSet(S), NEW f, \A x \in S : f[x] = 0
    PROVE  SumOver(f, S) = 0
<1> DEFINE G == {T \in SUBSET S : SumOver(f, T) = 0}
<1>1. {} \in G
    BY SumEmpty
<1>2. ASSUME NEW T \in SUBSET S, NEW x \in S \ T, T \in G PROVE T \cup {x} \in G
    <2>1. IsFiniteSet(T)
        BY FS_Subset
    <2>4. \A y \in T \cup {x} : f[y] \in Int
        OBVIOUS
    <2>2. SumOver(f, T \cup {x}) = f[x] + SumOver(f, T)
        BY <2>1, <2>4, SumAdd
    <2>3. SumOver(f, T \cup {x}) = 0
        BY <2>2, <1>2
    <2> QED
        BY <2>3
<1> HIDE DEF G
<1>3. S \in G
    BY <1>1, <1>2, SubsetsFill
<1> QED
    BY <1>3 DEF G

\* A sum of naturals is a natural.
LEMMA SumNat ==
    ASSUME NEW S, IsFiniteSet(S), NEW f, \A x \in S : f[x] \in Nat
    PROVE  SumOver(f, S) \in Nat
<1> DEFINE z == [x \in S |-> 0]
<1>1. SumOver(z, S) = 0
    BY SumZero
<1>2. SumOver(z, S) <= SumOver(f, S)
    <2>1. \A x \in S : z[x] \in Int /\ f[x] \in Int /\ z[x] <= f[x]
        OBVIOUS
    <2> HIDE DEF z
    <2> QED
        BY <2>1, SumLeq
<1>3. SumOver(f, S) \in Int
    BY SumInt
<1> QED
    BY <1>1, <1>2, <1>3

\* Where only some of the elements count.
LEMMA SumWhere ==
    ASSUME NEW S, IsFiniteSet(S), NEW T, T \subseteq S, NEW f,
           \A x \in S : f[x] \in Int, \A x \in S \ T : f[x] = 0
    PROVE  SumOver(f, S) = SumOver(f, T)
<1>1. IsFiniteSet(T) /\ IsFiniteSet(S \ T)
    BY FS_Subset
<1>2. SumOver(f, T \cup (S \ T)) = SumOver(f, T) + SumOver(f, S \ T)
    <2>1. T \cap (S \ T) = {} /\ \A x \in T \cup (S \ T) : f[x] \in Int
        OBVIOUS
    <2> QED
        BY <1>1, <2>1, SumUnion
<1>3. T \cup (S \ T) = S
    OBVIOUS
<1>4. SumOver(f, S \ T) = 0
    BY <1>1, SumZero
<1>5. SumOver(f, T) \in Int
    BY <1>1, SumInt
<1>6. SumOver(f, S) = SumOver(f, T) + SumOver(f, S \ T)
    BY <1>2, <1>3, Zenon
<1> QED
    BY <1>4, <1>5, <1>6

\* The elements may be counted under other names.
LEMMA SumRenamed ==
    ASSUME NEW S, IsFiniteSet(S), NEW m, \A x, y \in S : m[x] = m[y] => x = y,
           NEW f, NEW g, \A x \in S : f[m[x]] = g[x] /\ g[x] \in Int
    PROVE  IsFiniteSet({m[x] : x \in S}) /\ SumOver(f, {m[x] : x \in S}) = SumOver(g, S)
<1> DEFINE Im(T) == {m[x] : x \in T}
           G == {T \in SUBSET S : IsFiniteSet(Im(T)) /\ SumOver(f, Im(T)) = SumOver(g, T)}
<1>1. {} \in G
    <2>1. Im({}) = {} /\ SumOver(f, {}) = 0 /\ SumOver(g, {}) = 0
        BY SumEmpty
    <2> QED
        BY <2>1, FS_EmptySet
<1>2. ASSUME NEW T \in SUBSET S, NEW x \in S \ T, T \in G PROVE T \cup {x} \in G
    <2>1. IsFiniteSet(T) /\ IsFiniteSet(Im(T))
        BY <1>2, FS_Subset
    <2>2. Im(T \cup {x}) = Im(T) \cup {m[x]}
        OBVIOUS
    <2>3. m[x] \notin Im(T)
        OBVIOUS
    <2>4. \A y \in Im(T) \cup {m[x]} : f[y] \in Int
        OBVIOUS
    <2> HIDE DEF Im
    <2>5. SumOver(f, Im(T) \cup {m[x]}) = f[m[x]] + SumOver(f, Im(T))
        BY <2>1, <2>3, <2>4, SumAdd
    <2>6. SumOver(g, T \cup {x}) = g[x] + SumOver(g, T)
        BY <2>1, SumAdd
    <2>7. IsFiniteSet(Im(T) \cup {m[x]})
        BY <2>1, FS_AddElement
    <2>8. SumOver(f, Im(T)) = SumOver(g, T)
        BY <1>2
    <2> QED
        BY <2>2, <2>5, <2>6, <2>7, <2>8
<1>3. S \in G
    <2> HIDE DEF G
    <2> QED
        BY <1>1, <1>2, SubsetsFill
<1> QED
    BY <1>3

\* A sum may be made group by group.
LEMMA SumGroups ==
    ASSUME NEW S, IsFiniteSet(S), NEW K, IsFiniteSet(K), NEW c \in [S -> K],
           NEW f, \A x \in S : f[x] \in Int
    PROVE  SumOver([k \in K |-> SumOver(f, {x \in S : c[x] = k})], K) = SumOver(f, S)
<1> DEFINE P(T) == [k \in K |-> SumOver(f, {x \in T : c[x] = k})]
           G == {T \in SUBSET S : SumOver(P(T), K) = SumOver(f, T)}
<1>1. \A T \in SUBSET S : IsFiniteSet(T) /\ \A k \in K : P(T)[k] \in Int
    <2> SUFFICES ASSUME NEW T \in SUBSET S
                 PROVE  IsFiniteSet(T) /\ \A k \in K : P(T)[k] \in Int
        OBVIOUS
    <2>1. IsFiniteSet(T)
        BY FS_Subset
    <2>2. \A k \in K : IsFiniteSet({x \in T : c[x] = k})
        BY <2>1, FS_Subset
    <2>3. \A k \in K : SumOver(f, {x \in T : c[x] = k}) \in Int
        BY <2>2, SumInt
    <2> QED
        BY <2>1, <2>3
<1>2. {} \in G
    <2>1. \A k \in K : {x \in {} : c[x] = k} = {}
        OBVIOUS
    <2>2. \A k \in K : P({})[k] = 0
        BY <2>1, SumEmpty
    <2> HIDE DEF P
    <2>3. SumOver(P({}), K) = 0
        BY <2>2, SumZero
    <2> QED
        BY <2>3, SumEmpty
<1>3. ASSUME NEW T \in SUBSET S, NEW x \in S \ T, T \in G PROVE T \cup {x} \in G
    <2> DEFINE U == T \cup {x}
    <2>1. IsFiniteSet(T) /\ c[x] \in K
        BY <1>1
    <2>2. \A k \in K \ {c[x]} : {y \in U : c[y] = k} = {y \in T : c[y] = k}
        OBVIOUS
    <2>3. {y \in U : c[y] = c[x]} = {y \in T : c[y] = c[x]} \cup {x}
        OBVIOUS
    <2>4. P(U)[c[x]] = f[x] + P(T)[c[x]]
        <3> DEFINE V == {y \in T : c[y] = c[x]}
        <3>1. IsFiniteSet(V)
            BY <2>1, FS_Subset
        <3>2. x \notin V /\ \A y \in V \cup {x} : f[y] \in Int
            OBVIOUS
        <3>3. SumOver(f, V \cup {x}) = f[x] + SumOver(f, V)
            <4> HIDE DEF V
            <4> QED
                BY <3>1, <3>2, SumAdd
        <3> QED
            BY <2>1, <2>3, <3>3
    <2>5. \A k \in K \ {c[x]} : P(U)[k] = P(T)[k]
        BY <2>2
    <2>6. U \in SUBSET S
        OBVIOUS
    <2>7. SumOver(f, U) = f[x] + SumOver(f, T)
        BY <2>1, SumAdd
    <2>8. IsFiniteSet(K \ {c[x]})
        BY FS_Subset
    <2> HIDE DEF P, U
    <2>9. SumOver(P(U), K) = P(U)[c[x]] + SumOver(P(U), K \ {c[x]})
        <3>1. \A k \in K : P(U)[k] \in Int
            BY <1>1, <2>6
        <3> QED
            BY <3>1, <2>1, SumTakeOut
    <2>10. SumOver(P(T), K) = P(T)[c[x]] + SumOver(P(T), K \ {c[x]})
        <3>1. \A k \in K : P(T)[k] \in Int
            BY <1>1
        <3> QED
            BY <3>1, <2>1, SumTakeOut
    <2>11. SumOver(P(U), K \ {c[x]}) = SumOver(P(T), K \ {c[x]})
        <3>1. \A k \in K \ {c[x]} : P(U)[k] = P(T)[k] /\ P(U)[k] \in Int
            BY <2>5, <1>1, <2>6
        <3> QED
            BY <3>1, <2>8, SumSame
    <2>12. SumOver(P(T), K \ {c[x]}) \in Int
        <3>1. \A k \in K \ {c[x]} : P(T)[k] \in Int
            BY <1>1
        <3> QED
            BY <3>1, <2>8, SumInt
    <2>13. SumOver(P(T), K) = SumOver(f, T)
        BY <1>3
    <2>14. f[x] \in Int /\ P(T)[c[x]] \in Int
        BY <1>1, <2>1
    <2>15. SumOver(P(U), K) = SumOver(f, U)
        BY <2>4, <2>7, <2>9, <2>10, <2>11, <2>12, <2>13, <2>14
    <2> QED
        BY <2>15, <2>6 DEF U
<1>4. S \in G
    <2> HIDE DEF G
    <2> QED
        BY <1>2, <1>3, SubsetsFill
<1> QED
    BY <1>4

LEMMA ImageIsFinite ==
    ASSUME NEW S, IsFiniteSet(S), NEW f
    PROVE  IsFiniteSet({f[x] : x \in S})
<1> DEFINE T == {f[x] : x \in S}
           g == [x \in S |-> f[x]]
<1>1. g \in Surjection(S, T)
    BY DEF Surjection
<1> QED
    BY <1>1, FS_Surjection

\* R is S under the names m, and f of a name is g of what it names.
IsCopy(S, m, R) ==
    /\ \A x, y \in S : m[x] = m[y] => x = y
    /\ \A x \in S : m[x] \in R
    /\ \A y \in R : \E x \in S : y = m[x]
Agrees(S, m, f, g) == \A x \in S : f[m[x]] = g[x] /\ g[x] \in Int

LEMMA SumRenamedTo ==
    ASSUME NEW S, IsFiniteSet(S), NEW m, NEW R, IsCopy(S, m, R), NEW f, NEW g, Agrees(S, m, f, g)
    PROVE  IsFiniteSet(R) /\ SumOver(f, R) = SumOver(g, S)
<1>1. R = {m[x] : x \in S}
    BY DEF IsCopy
<1>2. \A x, y \in S : m[x] = m[y] => x = y
    BY DEF IsCopy
<1>3. \A x \in S : f[m[x]] = g[x] /\ g[x] \in Int
    BY DEF Agrees
<1>4. IsFiniteSet({m[x] : x \in S}) /\ SumOver(f, {m[x] : x \in S}) = SumOver(g, S)
    BY <1>2, <1>3, SumRenamed
<1> QED
    BY <1>1, <1>4

----------------------------------------------------------------------------
(* Pools, edges and what an entry of the queue leads to. *)

EntryT == [path : Seq(Assets), price : Nat, liquidity : Nat]
EdgeT == [from : Assets, to : Assets, known : Nat \ {0}, unknown : Nat \ {0}]

LEMMA MarketFacts ==
    ASSUME market \in Markets
    PROVE  /\ OnePoolPerPair(market.pools) /\ IsFiniteSet(market.pools)
           /\ \A p \in market.pools : /\ p.a \in Assets /\ p.b \in Assets /\ p.a # p.b
                                      /\ p.ra \in Nat /\ p.rb \in Nat
           /\ DOMAIN market.decimals \subseteq Assets
           /\ \A a \in DOMAIN market.decimals : market.decimals[a] \in Nat
           /\ Anchored \subseteq Assets /\ IsFiniteSet(Anchored)
           /\ \A a \in Anchored : market.seeds[a] \in Nat
    BY PriceGraphAssumption DEF Anchored

LEMMA NumberFacts ==
    /\ MAX_HOPS \in Nat \ {0} /\ KEPT \in Nat \ {0} /\ PRICE_UNIT \in Nat \ {0} /\ TRUNC \in Nat \ {0}
    /\ MIN_LIQUIDITY \in Nat /\ DIGITS \in Nat
    BY PriceGraphAssumption

LEMMA EdgeTypes ==
    ASSUME market \in Markets
    PROVE  Edges \subseteq EdgeT /\ \A e \in Edges : {e.from, e.to} \subseteq DOMAIN market.decimals
<1> DEFINE There(p) == [from |-> p.a, to |-> p.b, known |-> p.ra, unknown |-> p.rb]
           Back(p) == [from |-> p.b, to |-> p.a, known |-> p.rb, unknown |-> p.ra]
<1> SUFFICES ASSUME NEW e \in Edges
             PROVE  e \in EdgeT /\ {e.from, e.to} \subseteq DOMAIN market.decimals
    OBVIOUS
<1>1. PICK p \in market.pools : Usable(p) /\ (e = There(p) \/ e = Back(p))
    BY DEF Edges
<1>2. /\ p.a \in Assets /\ p.b \in Assets /\ p.ra \in Nat \ {0} /\ p.rb \in Nat \ {0}
      /\ {p.a, p.b} \subseteq DOMAIN market.decimals
    BY <1>1, MarketFacts DEF Usable
<1> QED
    BY <1>1, <1>2 DEF EdgeT

\* Two assets have one edge from the one to the other.
LEMMA OneEdge ==
    ASSUME market \in Markets, NEW e \in Edges, NEW f \in Edges, e.from = f.from, e.to = f.to
    PROVE  e = f
<1> DEFINE There(p) == [from |-> p.a, to |-> p.b, known |-> p.ra, unknown |-> p.rb]
           Back(p) == [from |-> p.b, to |-> p.a, known |-> p.rb, unknown |-> p.ra]
<1>1. PICK p \in market.pools : e = There(p) \/ e = Back(p)
    BY DEF Edges
<1>2. PICK q \in market.pools : f = There(q) \/ f = Back(q)
    BY DEF Edges
<1>3. {p.a, p.b} = {e.from, e.to} /\ {q.a, q.b} = {f.from, f.to}
    BY <1>1, <1>2
<1>4. p = q
    BY <1>3, MarketFacts DEF OnePoolPerPair
<1>5. p.a # p.b
    BY MarketFacts
<1> QED
    BY <1>1, <1>2, <1>4, <1>5

LEMMA EdgesFinite ==
    ASSUME market \in Markets
    PROVE  IsFiniteSet(Edges)
<1> DEFINE There(p) == [from |-> p.a, to |-> p.b, known |-> p.ra, unknown |-> p.rb]
           Back(p) == [from |-> p.b, to |-> p.a, known |-> p.rb, unknown |-> p.ra]
           U == {q \in market.pools : Usable(q)}
           T == {There(p) : p \in U}
           B == {Back(p) : p \in U}
           t == [p \in U |-> There(p)]
           b == [p \in U |-> Back(p)]
<1>1. IsFiniteSet(U)
    BY MarketFacts, FS_Subset
<1>2. T = {t[p] : p \in U} /\ B = {b[p] : p \in U}
    OBVIOUS
<1>3. IsFiniteSet({t[p] : p \in U}) /\ IsFiniteSet({b[p] : p \in U})
    <2> HIDE DEF t, b, U
    <2> QED
        BY <1>1, ImageIsFinite
<1>4. IsFiniteSet(T \cup B)
    <2> HIDE DEF T, B
    <2> QED
        BY <1>2, <1>3, FS_Union
<1>5. Edges \subseteq T \cup B
    BY DEF Edges
<1> QED
    BY <1>4, <1>5, FS_Subset

LEMMA NormalizedIsNat ==
    ASSUME market \in Markets, NEW a \in DOMAIN market.decimals, NEW r \in Nat
    PROVE  Normalize(r, market.decimals[a]) \in Nat
<1> DEFINE d == market.decimals[a]
<1>1. d \in Nat /\ DIGITS \in Nat
    BY MarketFacts, NumberFacts
<1>2. IF d <= DIGITS THEN Scale(DIGITS - d) \in Nat \ {0} ELSE Scale(d - DIGITS) \in Nat \ {0}
    BY PowersAssumption
<1> HIDE DEF d
<1>3. CASE d <= DIGITS
    <2> DEFINE s == Scale(DIGITS - d)
    <2>1. s \in Nat
        BY <1>2, <1>3
    <2>2. Normalize(r, d) = r * s
        BY <1>3 DEF Normalize
    <2> HIDE DEF s
    <2> QED
        BY <2>1, <2>2 DEF d
<1>4. CASE ~(d <= DIGITS)
    <2> DEFINE s == Scale(d - DIGITS)
    <2>1. s \in Nat \ {0}
        BY <1>2, <1>4
    <2>2. Normalize(r, d) = r \div s
        BY <1>4 DEF Normalize
    <2> HIDE DEF s
    <2>3. r \div s \in Nat
        BY <2>1
    <2> QED
        BY <2>3, <2>2 DEF d
<1> QED
    BY <1>3, <1>4

LEMMA MinOfTwo ==
    ASSUME NEW x \in Nat, NEW y \in Nat
    PROVE  Min({x, y}) \in {x, y} /\ Min({x, y}) <= x /\ Min({x, y}) <= y
<1>1. \E z \in {x, y} : \A w \in {x, y} : z <= w
    <2>1. CASE x <= y
        BY <2>1
    <2>2. CASE ~(x <= y)
        BY <2>2
    <2> QED
        BY <2>1, <2>2
<1> QED
    BY <1>1 DEF Min

LEMMA UsdIsNat ==
    ASSUME NEW r \in Nat, NEW p \in Nat
    PROVE  UsdValue(r, p) \in Nat
<1>1. TRUNC * PRICE_UNIT \in Nat \ {0} /\ r * p \in Nat
    BY NumberFacts
<1> DEFINE t == TRUNC * PRICE_UNIT
           v == r * p
<1>2. UsdValue(r, p) = v \div t
    BY DEF UsdValue
<1> HIDE DEF t, v
<1>3. v \div t \in Nat
    BY <1>1 DEF t, v
<1> QED
    BY <1>2, <1>3

LEMMA ComputedFacts ==
    ASSUME market \in Markets, NEW e \in Edges, NEW p \in Nat
    PROVE  ComputePrice(e, p) \in Nat /\ (p = 0 => ComputePrice(e, p) = 0)
<1>1. /\ e.known \in Nat /\ e.unknown \in Nat \ {0}
      /\ e.from \in DOMAIN market.decimals /\ e.to \in DOMAIN market.decimals
    BY EdgeTypes DEF EdgeT
<1>2. Scale(market.decimals[e.from]) \in Nat \ {0} /\ Scale(market.decimals[e.to]) \in Nat \ {0}
    BY <1>1, PowersAssumption
<1> DEFINE sf == Scale(market.decimals[e.from])
           st == Scale(market.decimals[e.to])
           v == e.known * st * p
           u == e.unknown * sf
<1>3. ComputePrice(e, p) = v \div u
    BY DEF ComputePrice
<1> HIDE DEF sf, st
<1>4. v \in Nat /\ (p = 0 => v = 0) /\ u \in Nat
    BY <1>1, <1>2 DEF sf, st
<1>5. u # 0
    BY <1>1, <1>2 DEF sf, st
<1> HIDE DEF v, u
<1>6. v \div u \in Nat /\ (v = 0 => v \div u = 0)
    BY <1>4, <1>5
<1> QED
    BY <1>3, <1>4, <1>6

LEMMA AlongFacts ==
    ASSUME market \in Markets, NEW o \in EntryT, NEW e \in Edges
    PROVE  /\ Along(o, e) \in EntryT
           /\ Along(o, e).path = Append(o.path, e.to)
           /\ Along(o, e).price = ComputePrice(e, o.price)
           /\ o.price = 0 => Along(o, e).price = 0
           /\ Along(o, e).liquidity <= o.liquidity
           /\ AssetOf(Along(o, e)) = e.to
           /\ Hops(Along(o, e)) = Len(o.path)
<1>1. e \in EdgeT /\ {e.from, e.to} \subseteq DOMAIN market.decimals
    BY EdgeTypes
<1> DEFINE price == ComputePrice(e, o.price)
           usd == LiquidityUsd(e, o.price, price)
           low == Min({o.liquidity, usd})
<1>2. o.price \in Nat /\ o.liquidity \in Nat /\ o.path \in Seq(Assets)
    BY DEF EntryT
<1>3. price \in Nat /\ (o.price = 0 => price = 0)
    BY <1>2, ComputedFacts
<1> HIDE DEF price
<1>4. usd \in Nat
    <2>1. KnownNorm(e) \in Nat /\ UnknownNorm(e) \in Nat
        BY <1>1, NormalizedIsNat DEF KnownNorm, UnknownNorm, EdgeT
    <2>2. UsdValue(KnownNorm(e), o.price) \in Nat /\ UsdValue(UnknownNorm(e), price) \in Nat
        BY <2>1, <1>2, <1>3, UsdIsNat
    <2> QED
        BY <2>2, MinOfTwo DEF LiquidityUsd
<1> HIDE DEF usd
<1>5. low \in Nat /\ low <= o.liquidity
    BY <1>2, <1>4, MinOfTwo
<1>6. Along(o, e) = [path |-> Append(o.path, e.to), price |-> price, liquidity |-> low]
    BY DEF Along, Entry, price, usd
<1> HIDE DEF low
<1>7. /\ Append(o.path, e.to) \in Seq(Assets)
      /\ Len(Append(o.path, e.to)) = Len(o.path) + 1
      /\ Append(o.path, e.to)[Len(o.path) + 1] = e.to
      /\ Len(o.path) \in Nat
    BY <1>1, <1>2, AppendProperties, LenProperties DEF EdgeT
<1>8. Along(o, e) \in EntryT
    BY <1>3, <1>5, <1>6, <1>7 DEF EntryT
<1>9. AssetOf(Along(o, e)) = e.to /\ Hops(Along(o, e)) = Len(o.path)
    BY <1>6, <1>7 DEF AssetOf, Last, Hops
<1> QED
    BY <1>3, <1>5, <1>6, <1>8, <1>9 DEF price

----------------------------------------------------------------------------
(* Paths, and what they make of the price they begin with. *)

Cut(p, n) == [i \in 1 .. n |-> p[i]]
HasEdge(a, b) == \E e \in Edges : e.from = a /\ e.to = b
Linked(p) ==
    /\ p \in Seq(Assets) /\ Len(p) # 0 /\ p[1] \in Anchored
    /\ \A i \in 2 .. Len(p) : HasEdge(p[i - 1], p[i])
Simple(p) ==
    /\ Linked(p)
    /\ \A i \in 2 .. Len(p) : p[i] \notin Anchored
    /\ \A i, j \in DOMAIN p : p[i] = p[j] => i = j

LEMMA EdgeOfIs ==
    ASSUME market \in Markets, NEW e \in Edges
    PROVE  EdgeOf(e.from, e.to) = e
<1>1. /\ EdgeOf(e.from, e.to) \in Edges
      /\ EdgeOf(e.from, e.to).from = e.from /\ EdgeOf(e.from, e.to).to = e.to
    BY DEF EdgeOf
<1> QED
    BY <1>1, OneEdge

WalkFrom(F, p, m) ==
    F = [n \in 1 .. m |-> IF n = 1 THEN SeedEntry(p[1])
                          ELSE Along(F[n - 1], EdgeOf(p[n - 1], p[n]))]

LEMMA WalkExists ==
    ASSUME NEW p, NEW m \in Nat
    PROVE  \E F : WalkFrom(F, p, m)
<1> DEFINE Turn(F, n) == Along(F[n - 1], EdgeOf(p[n - 1], p[n]))
           G == {n \in Nat : \E F : WalkFrom(F, p, n)}
<1>1. 0 \in G
    <2> DEFINE F == [n \in 1 .. 0 |-> SeedEntry(p[1])]
    <2>1. WalkFrom(F, p, 0)
        BY DEF WalkFrom
    <2> QED
        BY <2>1
<1>2. ASSUME NEW n \in Nat, n \in G PROVE n + 1 \in G
    <2>1. PICK F : WalkFrom(F, p, n)
        BY <1>2
    <2> DEFINE H == [k \in 1 .. n + 1 |-> IF k = 1 THEN SeedEntry(p[1]) ELSE Turn(F, k)]
    <2>2. F = [k \in 1 .. n |-> IF k = 1 THEN SeedEntry(p[1]) ELSE Turn(F, k)]
        BY <2>1 DEF WalkFrom
    <2> HIDE DEF Turn
    <2>3. \A k \in 1 .. n : H[k] = F[k]
        BY <2>2
    <2>4. \A k \in 1 .. n + 1 : k # 1 => Turn(H, k) = Turn(F, k)
        <3> SUFFICES ASSUME NEW k \in 1 .. n + 1, k # 1 PROVE H[k - 1] = F[k - 1]
            BY DEF Turn
        <3>1. k - 1 \in 1 .. n
            OBVIOUS
        <3> QED
            BY <3>1, <2>3
    <2>5. H = [k \in 1 .. n + 1 |-> IF k = 1 THEN SeedEntry(p[1]) ELSE Turn(H, k)]
        <3>1. \A k \in 1 .. n + 1 : H[k] = IF k = 1 THEN SeedEntry(p[1]) ELSE Turn(H, k)
            BY <2>4
        <3> QED
            BY <3>1
    <2> HIDE DEF H
    <2>6. WalkFrom(H, p, n + 1)
        BY <2>5 DEF WalkFrom, Turn
    <2> QED
        BY <2>6
<1> HIDE DEF G
<1>3. Nat \subseteq G
    BY <1>1, <1>2, NaturalsFill
<1> QED
    BY <1>3 DEF G

LEMMA WalkIs ==
    ASSUME NEW p, Len(p) \in Nat
    PROVE  WalkFrom(Walk(p), p, Len(p))
<1>1. \E F : WalkFrom(F, p, Len(p))
    BY WalkExists
<1>2. Walk(p) = CHOOSE F : WalkFrom(F, p, Len(p))
    BY DEF Walk, WalkFrom
<1> QED
    BY <1>1, <1>2

LEMMA WalkSteps ==
    ASSUME NEW p, Len(p) \in Nat, NEW n \in 1 .. Len(p)
    PROVE  Walk(p)[n] = IF n = 1 THEN SeedEntry(p[1])
                        ELSE Along(Walk(p)[n - 1], EdgeOf(p[n - 1], p[n]))
    BY WalkIs DEF WalkFrom

LEMMA SeedEntryFacts ==
    ASSUME market \in Markets, NEW a \in Anchored
    PROVE  /\ SeedEntry(a) \in EntryT /\ SeedEntry(a).path = <<a>>
           /\ AssetOf(SeedEntry(a)) = a /\ Hops(SeedEntry(a)) = 0
<1>1. a \in Assets /\ market.seeds[a] \in Nat /\ TRUNC \in Nat
    BY MarketFacts, NumberFacts
<1>2. market.seeds[a] * TRUNC \in Nat
    BY <1>1
<1>3. Unbounded \in Nat
    BY DEF Unbounded
<1>4. <<a>> \in Seq(Assets) /\ Len(<<a>>) = 1 /\ <<a>>[1] = a
    BY <1>1
<1> QED
    BY <1>2, <1>3, <1>4 DEF SeedEntry, Entry, EntryT, PriceTo24, AssetOf, Last, Hops

LEMMA CutFacts ==
    ASSUME NEW p \in Seq(Assets), NEW n \in 1 .. Len(p)
    PROVE  /\ Cut(p, n) \in Seq(Assets) /\ Len(Cut(p, n)) = n
           /\ \A i \in 1 .. n : Cut(p, n)[i] = p[i]
           /\ n < Len(p) => Append(Cut(p, n), p[n + 1]) = Cut(p, n + 1)
           /\ Cut(p, Len(p)) = p
           /\ Cut(p, 1) = <<p[1]>>
<1>1. Len(p) \in Nat /\ \A i \in 1 .. Len(p) : p[i] \in Assets
    BY LenProperties, ElementOfSeq
<1>2. n \in Nat /\ Cut(p, n) \in [1 .. n -> Assets]
    BY <1>1 DEF Cut
<1>3. Cut(p, n) \in Seq(Assets) /\ Len(Cut(p, n)) = n
    BY <1>2, IsASeq, LenProperties
<1>4. \A i \in 1 .. n : Cut(p, n)[i] = p[i]
    BY DEF Cut
<1>5. ASSUME n < Len(p) PROVE Append(Cut(p, n), p[n + 1]) = Cut(p, n + 1)
    <2> DEFINE a == Append(Cut(p, n), p[n + 1])
               c == Cut(p, n + 1)
    <2>1. p[n + 1] \in Assets /\ n + 1 \in 1 .. Len(p)
        BY <1>1, <1>5
    <2>2. /\ a \in Seq(Assets) /\ Len(a) = n + 1 /\ a[n + 1] = p[n + 1]
          /\ \A i \in 1 .. n : a[i] = Cut(p, n)[i]
        BY <1>3, <2>1, AppendProperties
    <2>3. c \in [1 .. n + 1 -> Assets] /\ \A i \in 1 .. n + 1 : c[i] = p[i]
        BY <1>1, <2>1 DEF Cut
    <2>4. DOMAIN a = 1 .. n + 1 /\ a \in [1 .. n + 1 -> Assets]
        BY <2>2, LenProperties
    <2>5. \A i \in 1 .. n + 1 : a[i] = c[i]
        <3> SUFFICES ASSUME NEW i \in 1 .. n + 1 PROVE a[i] = c[i]
            OBVIOUS
        <3>1. CASE i = n + 1
            BY <3>1, <2>2, <2>3
        <3>2. CASE i \in 1 .. n
            BY <3>2, <2>2, <2>3, <1>4
        <3> QED
            BY <3>1, <3>2, <1>2
    <2> HIDE DEF a, c
    <2>6. a = c
        BY <2>3, <2>4, <2>5
    <2> QED
        BY <2>6 DEF a, c
<1>6. Cut(p, Len(p)) = p
    <2>1. p = [i \in 1 .. Len(p) |-> p[i]]
        BY LenProperties
    <2> QED
        BY <2>1 DEF Cut
<1>7. Cut(p, 1) = <<p[1]>>
    BY DEF Cut
<1> QED
    BY <1>3, <1>4, <1>5, <1>6, <1>7

LEMMA WalkTyped ==
    ASSUME market \in Markets, NEW p, Linked(p)
    PROVE  \A n \in 1 .. Len(p) : Walk(p)[n] \in EntryT /\ Walk(p)[n].path = Cut(p, n)
<1> DEFINE Typed(n) == Walk(p)[n] \in EntryT /\ Walk(p)[n].path = Cut(p, n)
           G == {n \in Nat : n + 1 \in 1 .. Len(p) => Typed(n + 1)}
<1>1. p \in Seq(Assets) /\ Len(p) \in Nat
    BY LenProperties DEF Linked
<1>2. 0 \in G
    <2>1. 1 \in 1 .. Len(p) /\ p[1] \in Anchored
        BY <1>1 DEF Linked
    <2>2. Walk(p)[1] = SeedEntry(p[1])
        BY <1>1, <2>1, WalkSteps
    <2>3. Typed(1)
        BY <2>1, <2>2, <1>1, SeedEntryFacts, CutFacts
    <2> HIDE DEF Typed
    <2> QED
        BY <2>3
<1>3. ASSUME NEW n \in Nat, n \in G PROVE n + 1 \in G
    <2> SUFFICES ASSUME n + 2 \in 1 .. Len(p) PROVE Typed(n + 2)
        <3> HIDE DEF Typed
        <3> QED
            OBVIOUS
    <2>1. n + 1 \in 1 .. Len(p) /\ n + 1 < Len(p) /\ n + 2 \in 2 .. Len(p)
        BY <1>1
    <2>2. Typed(n + 1)
        <3> HIDE DEF Typed
        <3> QED
            BY <1>3, <2>1
    <2>3. HasEdge(p[n + 1], p[n + 2])
        BY <2>1 DEF Linked
    <2>4. PICK e \in Edges : e.from = p[n + 1] /\ e.to = p[n + 2]
        BY <2>3 DEF HasEdge
    <2>5. EdgeOf(p[n + 1], p[n + 2]) = e
        BY <2>4, EdgeOfIs
    <2>6. Walk(p)[n + 2] = Along(Walk(p)[n + 1], e)
        <3>1. n + 2 # 1 /\ (n + 2) - 1 = n + 1
            OBVIOUS
        <3> QED
            BY <1>1, <2>5, <3>1, WalkSteps
    <2>7. Walk(p)[n + 2] \in EntryT /\ Walk(p)[n + 2].path = Append(Cut(p, n + 1), p[n + 2])
        BY <2>2, <2>4, <2>6, AlongFacts
    <2>8. Append(Cut(p, n + 1), p[(n + 1) + 1]) = Cut(p, (n + 1) + 1)
        BY <1>1, <2>1, CutFacts
    <2>9. (n + 1) + 1 = n + 2
        OBVIOUS
    <2> QED
        BY <2>7, <2>8, <2>9
<1> HIDE DEF G
<1>4. Nat \subseteq G
    BY <1>2, <1>3, NaturalsFill
<1>5. ASSUME NEW n \in 1 .. Len(p) PROVE Typed(n)
    <2>1. n - 1 \in Nat /\ (n - 1) + 1 = n
        BY <1>1
    <2> HIDE DEF Typed
    <2> QED
        BY <1>4, <2>1 DEF G
<1> QED
    BY <1>5

\* The walk along the beginning of a path is the beginning of the walk.
LEMMA WalkOfCut ==
    ASSUME NEW p \in Seq(Assets), NEW m \in 1 .. Len(p)
    PROVE  AtEnd(Cut(p, m)) = Walk(p)[m]
<1> DEFINE c == Cut(p, m)
           G == {n \in Nat : n + 1 \in 1 .. m => Walk(c)[n + 1] = Walk(p)[n + 1]}
<1>1. /\ c \in Seq(Assets) /\ Len(c) = m /\ \A i \in 1 .. m : c[i] = p[i]
      /\ Len(p) \in Nat /\ m \in Nat
    BY CutFacts, LenProperties
<1> HIDE DEF c
<1>2. 0 \in G
    <2>1. ASSUME 1 \in 1 .. m PROVE Walk(c)[1] = Walk(p)[1]
        <3>1. Walk(c)[1] = SeedEntry(c[1]) /\ Walk(p)[1] = SeedEntry(p[1])
            BY <1>1, <2>1, WalkSteps
        <3> QED
            BY <3>1, <1>1, <2>1
    <2> QED
        BY <2>1
<1>3. ASSUME NEW n \in Nat, n \in G PROVE n + 1 \in G
    <2> SUFFICES ASSUME n + 2 \in 1 .. m PROVE Walk(c)[n + 2] = Walk(p)[n + 2]
        OBVIOUS
    <2>1. n + 1 \in 1 .. m /\ n + 2 # 1 /\ (n + 2) - 1 = n + 1
        BY <1>1
    <2>2. n + 2 \in 1 .. Len(c) /\ n + 2 \in 1 .. Len(p)
        BY <1>1
    <2>3. Walk(c)[n + 2] = Along(Walk(c)[n + 1], EdgeOf(c[n + 1], c[n + 2]))
        BY <1>1, <2>1, <2>2, WalkSteps
    <2>4. Walk(p)[n + 2] = Along(Walk(p)[n + 1], EdgeOf(p[n + 1], p[n + 2]))
        BY <1>1, <2>1, <2>2, WalkSteps
    <2>5. Walk(c)[n + 1] = Walk(p)[n + 1] /\ c[n + 1] = p[n + 1] /\ c[n + 2] = p[n + 2]
        BY <1>1, <1>3, <2>1
    <2> QED
        BY <2>3, <2>4, <2>5
<1> HIDE DEF G
<1>4. Nat \subseteq G
    BY <1>2, <1>3, NaturalsFill
<1>5. m - 1 \in Nat /\ (m - 1) + 1 = m
    BY <1>1
<1>6. Walk(c)[m] = Walk(p)[m]
    BY <1>4, <1>5, <1>1 DEF G
<1> QED
    BY <1>1, <1>6 DEF AtEnd, c

LEMMA CutIsLinked ==
    ASSUME NEW p, Linked(p), NEW m \in 1 .. Len(p)
    PROVE  Linked(Cut(p, m)) /\ (Simple(p) => Simple(Cut(p, m)))
<1> DEFINE c == Cut(p, m)
<1>1. /\ c \in Seq(Assets) /\ Len(c) = m /\ \A i \in 1 .. m : c[i] = p[i]
      /\ Len(p) \in Nat /\ m \in Nat /\ DOMAIN c = 1 .. m /\ DOMAIN p = 1 .. Len(p)
    BY CutFacts, LenProperties DEF Linked
<1> HIDE DEF c
<1>2. Linked(c)
    <2>1. m # 0 /\ c[1] = p[1] /\ p[1] \in Anchored
        BY <1>1 DEF Linked
    <2>2. ASSUME NEW i \in 2 .. m PROVE HasEdge(c[i - 1], c[i])
        <3>1. i \in 2 .. Len(p) /\ c[i] = p[i] /\ c[i - 1] = p[i - 1]
            BY <1>1
        <3> QED
            BY <3>1 DEF Linked
    <2> QED
        BY <1>1, <2>1, <2>2 DEF Linked
<1>3. ASSUME Simple(p) PROVE Simple(c)
    <2>1. ASSUME NEW i \in 2 .. m PROVE c[i] \notin Anchored
        <3>1. i \in 2 .. Len(p) /\ c[i] = p[i]
            BY <1>1
        <3> QED
            BY <3>1, <1>3 DEF Simple
    <2>2. ASSUME NEW i \in 1 .. m, NEW j \in 1 .. m, c[i] = c[j] PROVE i = j
        <3>1. i \in DOMAIN p /\ j \in DOMAIN p /\ p[i] = p[j]
            BY <1>1, <2>2
        <3> QED
            BY <3>1, <1>3 DEF Simple
    <2> QED
        BY <1>1, <1>2, <2>1, <2>2 DEF Simple
<1> QED
    BY <1>2, <1>3 DEF c

LEMMA PathsAre ==
    ASSUME market \in Markets
    PROVE  \A p : p \in Paths <=> Simple(p) /\ Len(p) \in 2 .. MAX_HOPS + 1
<1> SUFFICES ASSUME NEW p
             PROVE  p \in Paths <=> Simple(p) /\ Len(p) \in 2 .. MAX_HOPS + 1
    OBVIOUS
<1>1. MAX_HOPS \in Nat /\ Anchored \subseteq Assets
    BY NumberFacts, MarketFacts
<1>2. ASSUME p \in Paths PROVE Simple(p) /\ Len(p) \in 2 .. MAX_HOPS + 1
    <2>1. PICK n \in 2 .. MAX_HOPS + 1 : p \in [1 .. n -> Assets]
        BY <1>2 DEF Paths
    <2>2. n \in Nat
        BY <1>1
    <2>3. p \in Seq(Assets) /\ Len(p) = n
        BY <2>1, <2>2, IsASeq, LenProperties
    <2>4. /\ p[1] \in Anchored /\ \A i \in 2 .. Len(p) : p[i] \notin Anchored
          /\ \A i, j \in DOMAIN p : p[i] = p[j] => i = j
        BY <1>2 DEF Paths
    <2>5. \A i \in 2 .. Len(p) : HasEdge(p[i - 1], p[i])
        BY <1>2 DEF Paths, HasEdge
    <2>6. Linked(p)
        BY <2>2, <2>3, <2>4, <2>5 DEF Linked
    <2> QED
        BY <2>2, <2>3, <2>4, <2>6 DEF Simple
<1>3. ASSUME Simple(p), Len(p) \in 2 .. MAX_HOPS + 1 PROVE p \in Paths
    <2>1. p \in Seq(Assets)
        BY <1>3 DEF Simple, Linked
    <2>2. p \in [1 .. Len(p) -> Assets]
        BY <2>1, LenProperties, ElementOfSeq
    <2> QED
        BY <2>2, <1>3 DEF Paths, Simple, Linked, HasEdge
<1> QED
    BY <1>2, <1>3

LEMMA AtEndIs ==
    ASSUME market \in Markets, NEW p, Linked(p)
    PROVE  AtEnd(p) \in EntryT /\ AtEnd(p).path = p
<1>1. p \in Seq(Assets) /\ Len(p) \in Nat /\ Len(p) \in 1 .. Len(p)
    BY LenProperties DEF Linked
<1>2. Cut(p, Len(p)) = p
    BY <1>1, CutFacts
<1> QED
    BY <1>1, <1>2, WalkTyped DEF AtEnd

\* An observation stands for its path, and its path for it.
Real(o) == o \in EntryT /\ Simple(o.path) /\ o = AtEnd(o.path)

LEMMA ObservableIs ==
    ASSUME market \in Markets
    PROVE  \A o : o \in Observable <=> /\ Real(o) /\ Len(o.path) \in 2 .. MAX_HOPS + 1
                                       /\ o.price > 0 /\ o.liquidity >= MIN_LIQUIDITY
<1> SUFFICES ASSUME NEW o
             PROVE  o \in Observable <=> /\ Real(o) /\ Len(o.path) \in 2 .. MAX_HOPS + 1
                                         /\ o.price > 0 /\ o.liquidity >= MIN_LIQUIDITY
    OBVIOUS
<1>1. ASSUME o \in Observable
      PROVE  /\ Real(o) /\ Len(o.path) \in 2 .. MAX_HOPS + 1
             /\ o.price > 0 /\ o.liquidity >= MIN_LIQUIDITY
    <2>1. PICK p \in Paths : o = AtEnd(p)
        BY <1>1 DEF Observable
    <2>2. Simple(p) /\ Linked(p) /\ Len(p) \in 2 .. MAX_HOPS + 1
        BY PathsAre DEF Simple
    <2>3. o \in EntryT /\ o.path = p
        BY <2>1, <2>2, AtEndIs
    <2> QED
        BY <1>1, <2>1, <2>2, <2>3 DEF Observable, Real
<1>2. ASSUME Real(o), Len(o.path) \in 2 .. MAX_HOPS + 1, o.price > 0, o.liquidity >= MIN_LIQUIDITY
      PROVE  o \in Observable
    <2>1. o.path \in Paths /\ o = AtEnd(o.path)
        BY <1>2, PathsAre DEF Real
    <2> QED
        BY <2>1, <1>2 DEF Observable
<1> QED
    BY <1>1, <1>2

\* One more edge.
LEMMA OneFurther ==
    ASSUME market \in Markets, NEW o, Real(o), NEW e \in Onward(o)
    PROVE  Real(Along(o, e))
<1> DEFINE n == Len(o.path)
           q == Append(o.path, e.to)
           new == Along(o, e)
<1>1. /\ e \in Edges /\ e.from = o.path[n] /\ e.to \notin Anchored
      /\ \A i \in DOMAIN o.path : o.path[i] # e.to
    BY DEF Onward, AssetOf, Last, ToSet
<1>2. /\ o \in EntryT /\ o.path \in Seq(Assets) /\ n \in Nat /\ n # 0 /\ DOMAIN o.path = 1 .. n
      /\ o = AtEnd(o.path) /\ e.to \in Assets
    BY <1>1, EdgeTypes, LenProperties DEF Real, EntryT, Simple, Linked, EdgeT
<1>3. /\ q \in Seq(Assets) /\ Len(q) = n + 1 /\ q[n + 1] = e.to
      /\ \A i \in 1 .. n : q[i] = o.path[i]
      /\ DOMAIN q = 1 .. n + 1
    BY <1>2, AppendProperties, LenProperties
<1>4. new \in EntryT /\ new.path = q
    BY <1>1, <1>2, AlongFacts
<1> HIDE DEF q, new
<1>5. Linked(q)
    <2>1. q[1] = o.path[1] /\ o.path[1] \in Anchored
        BY <1>2, <1>3 DEF Real, Simple, Linked
    <2>2. ASSUME NEW i \in 2 .. n + 1 PROVE HasEdge(q[i - 1], q[i])
        <3>1. CASE i = n + 1
            <4>1. q[i] = e.to /\ q[i - 1] = e.from
                BY <3>1, <1>1, <1>2, <1>3
            <4> QED
                BY <4>1, <1>1 DEF HasEdge
        <3>2. CASE i # n + 1
            <4>1. i \in 2 .. n /\ q[i] = o.path[i] /\ q[i - 1] = o.path[i - 1]
                BY <3>2, <1>2, <1>3
            <4> QED
                BY <4>1, <1>2 DEF Real, Simple, Linked
        <3> QED
            BY <3>1, <3>2
    <2> QED
        BY <1>2, <1>3, <2>1, <2>2 DEF Linked
<1>6. Simple(q)
    <2>1. ASSUME NEW i \in 2 .. n + 1 PROVE q[i] \notin Anchored
        <3>1. i = n + 1 \/ (i \in 2 .. n /\ q[i] = o.path[i])
            BY <1>2, <1>3
        <3> QED
            BY <3>1, <1>1, <1>3 DEF Real, Simple
    <2>2. ASSUME NEW i \in 1 .. n + 1, NEW j \in 1 .. n + 1, q[i] = q[j] PROVE i = j
        <3>1. i \in 1 .. n /\ j \in 1 .. n => i = j
            BY <2>2, <1>2, <1>3 DEF Real, Simple
        <3>2. i = n + 1 /\ j \in 1 .. n => FALSE
            BY <2>2, <1>1, <1>2, <1>3
        <3>3. j = n + 1 /\ i \in 1 .. n => FALSE
            BY <2>2, <1>1, <1>2, <1>3
        <3> QED
            BY <3>1, <3>2, <3>3, <1>2
    <2> QED
        BY <1>3, <1>5, <2>1, <2>2 DEF Simple
<1>7. AtEnd(q) = new
    <2>1. Cut(q, n) = o.path
        <3>1. Cut(q, n) = [i \in 1 .. n |-> o.path[i]]
            BY <1>3 DEF Cut
        <3>2. o.path = [i \in 1 .. n |-> o.path[i]]
            BY <1>2, LenProperties
        <3> QED
            BY <3>1, <3>2
    <2>2. n \in 1 .. Len(q) /\ n + 1 \in 1 .. Len(q)
        BY <1>2, <1>3
    <2>3. Walk(q)[n] = o
        BY <2>1, <2>2, <1>2, <1>3, WalkOfCut
    <2>4. Walk(q)[n + 1] = Along(Walk(q)[n], EdgeOf(q[n], q[n + 1]))
        <3>1. n + 1 # 1 /\ (n + 1) - 1 = n /\ Len(q) \in Nat
            BY <1>2, <1>3
        <3> QED
            BY <3>1, <2>2, WalkSteps
    <2>5. q[n] = e.from /\ q[n + 1] = e.to
        BY <1>1, <1>2, <1>3
    <2>6. EdgeOf(q[n], q[n + 1]) = e
        BY <2>5, <1>1, EdgeOfIs
    <2> QED
        BY <2>3, <2>4, <2>6, <1>3 DEF AtEnd, new
<1> QED
    BY <1>4, <1>6, <1>7 DEF Real, new

LEMMA SeedsAreReal ==
    ASSUME market \in Markets, NEW a \in Anchored
    PROVE  Real(SeedEntry(a))
<1>1. SeedEntry(a) \in EntryT /\ SeedEntry(a).path = <<a>> /\ a \in Assets
    BY SeedEntryFacts, MarketFacts
<1>2. <<a>> \in Seq(Assets) /\ Len(<<a>>) = 1 /\ <<a>>[1] = a /\ DOMAIN <<a>> = {1}
    BY <1>1
<1>3. Simple(<<a>>)
    BY <1>2 DEF Simple, Linked
<1>4. AtEnd(<<a>>) = SeedEntry(a)
    <2>1. Len(<<a>>) \in Nat /\ 1 \in 1 .. Len(<<a>>)
        BY <1>2
    <2>2. Walk(<<a>>)[1] = SeedEntry(<<a>>[1])
        BY <2>1, WalkSteps
    <2> QED
        BY <2>2, <1>2 DEF AtEnd
<1> QED
    BY <1>1, <1>3, <1>4 DEF Real

\* What comes on the way to an observation could be observed too, and leads on to it.
LEMMA OnTheWay ==
    ASSUME market \in Markets, NEW o \in Observable
    PROVE  /\ \A n \in 1 .. Len(o.path) : Real(AtEnd(Cut(o.path, n)))
           /\ \A n \in 2 .. Len(o.path) : AtEnd(Cut(o.path, n)) \in Observable
           /\ AtEnd(Cut(o.path, 1)) = SeedEntry(o.path[1]) /\ o.path[1] \in Anchored
           /\ \A n \in 1 .. Len(o.path) - 1 :
                  \E e \in Offered(AtEnd(Cut(o.path, n))) :
                      AtEnd(Cut(o.path, n + 1)) = Along(AtEnd(Cut(o.path, n)), e)
<1> DEFINE p == o.path
           L == Len(p)
           W(n) == Walk(p)[n]
<1>1. /\ Real(o) /\ L \in 2 .. MAX_HOPS + 1 /\ o.price > 0 /\ o.liquidity >= MIN_LIQUIDITY
      /\ Simple(p) /\ Linked(p) /\ o = AtEnd(p) /\ p \in Seq(Assets) /\ MAX_HOPS \in Nat
      /\ MIN_LIQUIDITY \in Nat
    BY ObservableIs, NumberFacts DEF Real, Simple, Linked
<1>2. L \in Nat /\ DOMAIN p = 1 .. L
    BY <1>1, LenProperties
<1> HIDE DEF p
<1>3. \A n \in 1 .. L : W(n) = AtEnd(Cut(p, n)) /\ W(n) \in EntryT /\ W(n).path = Cut(p, n)
    BY <1>1, WalkOfCut, WalkTyped
<1>4. \A n \in 1 .. L : Real(W(n))
    BY <1>1, <1>3, CutIsLinked DEF Real
<1>5. ASSUME NEW n \in 1 .. L - 1
      PROVE  \E e \in Edges : /\ W(n + 1) = Along(W(n), e)
                              /\ e.from = p[n] /\ e.to = p[n + 1]
    <2>1. n + 1 \in 2 .. L /\ n + 1 \in 1 .. Len(p) /\ (n + 1) - 1 = n /\ n + 1 # 1 /\ Len(p) \in Nat
        BY <1>2
    <2>2. HasEdge(p[(n + 1) - 1], p[n + 1])
        BY <2>1, <1>1 DEF Linked
    <2>3. PICK e \in Edges : e.from = p[n] /\ e.to = p[n + 1]
        BY <2>1, <2>2 DEF HasEdge
    <2>4. EdgeOf(p[n], p[n + 1]) = e
        BY <2>3, EdgeOfIs
    <2>5. Walk(p)[n + 1] = Along(Walk(p)[n], EdgeOf(p[n], p[n + 1]))
        BY <2>1, WalkSteps
    <2> QED
        BY <2>3, <2>4, <2>5
<1> DEFINE Good(n) == W(n).price > 0 /\ W(n).liquidity >= MIN_LIQUIDITY
           G == {k \in Nat : L - k \in 1 .. L => Good(L - k)}
<1>6. Nat \subseteq G
    <2>1. 0 \in G
        <3>1. W(L) = o
            BY <1>1 DEF AtEnd
        <3> QED
            BY <3>1, <1>1, <1>2
    <2>2. ASSUME NEW k \in Nat, k \in G PROVE k + 1 \in G
        <3> SUFFICES ASSUME L - (k + 1) \in 1 .. L PROVE Good(L - (k + 1))
            <4> HIDE DEF Good
            <4> QED
                OBVIOUS
        <3> DEFINE n == L - (k + 1)
        <3>1. n \in 1 .. L - 1 /\ n + 1 = L - k /\ n \in 1 .. L /\ n + 1 \in 1 .. L
            BY <1>2
        <3> HIDE DEF n
        <3>2. Good(n + 1)
            <4> HIDE DEF Good
            <4> QED
                BY <2>2, <3>1
        <3>3. PICK e \in Edges : W(n + 1) = Along(W(n), e)
            BY <1>5, <3>1
        <3>4. /\ W(n) \in EntryT /\ W(n + 1) \in EntryT
              /\ (W(n).price = 0 => W(n + 1).price = 0) /\ W(n + 1).liquidity <= W(n).liquidity
            BY <3>1, <3>3, <1>3, AlongFacts
        <3> DEFINE pn == W(n).price
                   pm == W(n + 1).price
                   ln == W(n).liquidity
                   lm == W(n + 1).liquidity
        <3>5. pn \in Nat /\ pm \in Nat /\ ln \in Nat /\ lm \in Nat
            BY <3>4 DEF EntryT
        <3>6. pm > 0 /\ lm >= MIN_LIQUIDITY /\ (pn = 0 => pm = 0) /\ lm <= ln
            BY <3>2, <3>4
        <3>7. pn > 0 /\ ln >= MIN_LIQUIDITY
            <4> HIDE DEF pn, pm, ln, lm
            <4> QED
                BY <3>5, <3>6, <1>1
        <3> QED
            BY <3>7 DEF n
    <2> HIDE DEF G
    <2> QED
        BY <2>1, <2>2, NaturalsFill
<1>7. ASSUME NEW n \in 1 .. L PROVE Good(n)
    <2>1. L - n \in Nat /\ L - (L - n) = n
        BY <1>2
    <2> HIDE DEF Good
    <2> QED
        BY <2>1, <1>6
<1>8. ASSUME NEW n \in 2 .. L PROVE W(n) \in Observable
    <2>1. n \in 1 .. L /\ n \in 2 .. MAX_HOPS + 1
        BY <1>1, <1>2
    <2>2. Len(W(n).path) = n
        BY <2>1, <1>1, <1>3, CutFacts
    <2> QED
        BY <2>1, <2>2, <1>4, <1>7, ObservableIs
<1>9. ASSUME NEW n \in 1 .. L - 1
      PROVE  \E e \in Offered(W(n)) : W(n + 1) = Along(W(n), e)
    <2>1. PICK e \in Edges : W(n + 1) = Along(W(n), e) /\ e.from = p[n] /\ e.to = p[n + 1]
        BY <1>5
    <2>2. n \in 1 .. L /\ n + 1 \in 1 .. L /\ n + 1 \in 2 .. L
        BY <1>2
    <2>3. /\ Cut(p, n) \in Seq(Assets) /\ Len(Cut(p, n)) = n /\ \A i \in 1 .. n : Cut(p, n)[i] = p[i]
          /\ DOMAIN Cut(p, n) = 1 .. n
        BY <1>1, <2>2, CutFacts, LenProperties
    <2>4. AssetOf(W(n)) = e.from /\ Hops(W(n)) = n - 1 /\ n - 1 < MAX_HOPS
        BY <2>1, <2>2, <2>3, <1>1, <1>2, <1>3 DEF AssetOf, Last, Hops
    <2>5. e.to \notin Anchored /\ e.to \notin ToSet(W(n).path)
        <3>1. p[n + 1] \notin Anchored
            BY <2>2, <1>1 DEF Simple
        <3>2. ASSUME NEW i \in 1 .. n PROVE p[i] # p[n + 1]
            <4>1. i \in DOMAIN p /\ n + 1 \in DOMAIN p /\ i # n + 1
                BY <2>2, <1>2
            <4> QED
                BY <4>1, <1>1 DEF Simple
        <3> QED
            BY <3>1, <3>2, <2>1, <2>2, <2>3, <1>3 DEF ToSet
    <2>6. e \in Onward(W(n))
        BY <2>1, <2>4, <2>5 DEF Onward
    <2>7. ComputePrice(e, W(n).price) # 0 /\ Along(W(n), e).liquidity >= MIN_LIQUIDITY
        <3>1. ComputePrice(e, W(n).price) = W(n + 1).price
            BY <2>1, <2>2, <1>3, AlongFacts
        <3> QED
            BY <3>1, <2>1, <2>2, <1>7
    <2> QED
        BY <2>1, <2>4, <2>6, <2>7 DEF Offered
<1>10. W(1) = SeedEntry(p[1]) /\ p[1] \in Anchored
    <2>1. 1 \in 1 .. Len(p) /\ Len(p) \in Nat
        BY <1>1, <1>2
    <2> QED
        BY <2>1, <1>1, WalkSteps DEF Linked
<1>11. \A n \in 1 .. L : AtEnd(Cut(p, n)) = W(n)
    BY <1>3
<1> HIDE DEF W
<1>12. 1 \in 1 .. L /\ \A n \in 1 .. L - 1 : n \in 1 .. L /\ n + 1 \in 1 .. L
    BY <1>1, <1>2
<1>13. \A n \in 2 .. L : n \in 1 .. L
    BY <1>2
<1>14. /\ \A n \in 1 .. L : Real(AtEnd(Cut(p, n)))
       /\ \A n \in 2 .. L : AtEnd(Cut(p, n)) \in Observable
       /\ AtEnd(Cut(p, 1)) = SeedEntry(p[1]) /\ p[1] \in Anchored
       /\ \A n \in 1 .. L - 1 : \E e \in Offered(AtEnd(Cut(p, n))) :
              AtEnd(Cut(p, n + 1)) = Along(AtEnd(Cut(p, n)), e)
    BY <1>4, <1>8, <1>9, <1>10, <1>11, <1>12, <1>13
<1> QED
    BY <1>14 DEF p

----------------------------------------------------------------------------
(* The orders of observations, and their weighted median. *)

\* Of finitely many some are not before any other.
LEMMA LastOfOrder ==
    ASSUME NEW S, IsFiniteSet(S), S # {}, NEW R,
           \A x \in S : <<x, x>> \notin R,
           \A x, y, z \in S : <<x, y>> \in R /\ <<y, z>> \in R => <<x, z>> \in R
    PROVE  \E o \in S : \A x \in S : <<o, x>> \notin R
<1> DEFINE Ends(T) == \E o \in T : \A x \in T : <<o, x>> \notin R
           G == {T \in SUBSET S : T = {} \/ Ends(T)}
<1>1. {} \in G
    OBVIOUS
<1>2. ASSUME NEW T \in SUBSET S, NEW z \in S \ T, T \in G PROVE T \cup {z} \in G
    <2>1. CASE T = {}
        <3>1. \A x \in T \cup {z} : x = z
            BY <2>1
        <3> QED
            BY <3>1
    <2>2. CASE T # {}
        <3>1. PICK o \in T : \A x \in T : <<o, x>> \notin R
            BY <1>2, <2>2
        <3>2. CASE <<o, z>> \notin R
            BY <3>1, <3>2
        <3>3. CASE <<o, z>> \in R
            <4>1. \A x \in T : <<z, x>> \notin R
                BY <3>1, <3>3
            <4> QED
                BY <4>1
        <3> QED
            BY <3>2, <3>3
    <2> QED
        BY <2>1, <2>2
<1> HIDE DEF G
<1>3. S \in G
    BY <1>1, <1>2, SubsetsFill
<1> QED
    BY <1>3 DEF G

LEMMA KeysAreNumbers ==
    ASSUME NEW o \in EntryT
    PROVE  o.price \in Nat /\ o.liquidity \in Nat /\ Hops(o) \in Int
<1>1. o.path \in Seq(Assets)
    BY DEF EntryT
<1> QED
    BY <1>1, LenProperties DEF EntryT, Hops

LEMMA BetterIsOrder ==
    /\ \A x \in EntryT : ~Better(x, x)
    /\ \A x, y, z \in EntryT : Better(x, y) /\ Better(y, z) => Better(x, z)
<1>1. \A x \in EntryT : x.price \in Nat /\ x.liquidity \in Nat /\ Hops(x) \in Int
    BY KeysAreNumbers
<1>2. \A x \in EntryT : ~Better(x, x)
    BY <1>1 DEF Better
<1>3. ASSUME NEW x \in EntryT, NEW y \in EntryT, NEW z \in EntryT, Better(x, y), Better(y, z)
      PROVE  Better(x, z)
    BY <1>1, <1>3 DEF Better
<1> QED
    BY <1>2, <1>3

LEMMA SoonerIsOrder ==
    /\ \A x \in EntryT : ~Sooner(x, x)
    /\ \A x, y, z \in EntryT : Sooner(x, y) /\ Sooner(y, z) => Sooner(x, z)
    /\ \A x, y \in EntryT : x.price < y.price => Sooner(x, y)
    /\ \A x, y \in EntryT : ~Sooner(x, y) => y.price <= x.price
<1>1. \A x \in EntryT : x.price \in Nat /\ x.liquidity \in Nat /\ Hops(x) \in Int
    BY KeysAreNumbers
<1>2. \A x \in EntryT : ~Sooner(x, x)
    BY <1>1 DEF Sooner
<1>3. ASSUME NEW x \in EntryT, NEW y \in EntryT, NEW z \in EntryT, Sooner(x, y), Sooner(y, z)
      PROVE  Sooner(x, z)
    BY <1>1, <1>3 DEF Sooner
<1>4. \A x, y \in EntryT : x.price < y.price => Sooner(x, y)
    BY DEF Sooner
<1>5. \A x, y \in EntryT : ~Sooner(x, y) => y.price <= x.price
    BY <1>1 DEF Sooner
<1> QED
    BY <1>2, <1>3, <1>4, <1>5

LEMMA WorstExists ==
    ASSUME NEW S, IsFiniteSet(S), S # {}, S \subseteq EntryT
    PROVE  \E o \in S : \A x \in S : ~Better(o, x)
<1> DEFINE R == {w \in S \X S : Better(w[1], w[2])}
<1>1. \A x, y \in S : <<x, y>> \in R <=> Better(x, y)
    OBVIOUS
<1> HIDE DEF R
<1>2. /\ \A x \in S : <<x, x>> \notin R
      /\ \A x, y, z \in S : <<x, y>> \in R /\ <<y, z>> \in R => <<x, z>> \in R
    BY <1>1, BetterIsOrder
<1>3. \E o \in S : \A x \in S : <<o, x>> \notin R
    BY <1>2, LastOfOrder
<1> QED
    BY <1>1, <1>3

LEMMA FirstAndLastExist ==
    ASSUME NEW S, IsFiniteSet(S), S # {}, S \subseteq EntryT
    PROVE  /\ \E o \in S : \A x \in S : ~Sooner(o, x)
           /\ \E o \in S : \A x \in S : ~Sooner(x, o)
<1> DEFINE R == {w \in S \X S : Sooner(w[1], w[2])}
           B == {w \in S \X S : Sooner(w[2], w[1])}
<1>1. \A x, y \in S : (<<x, y>> \in R <=> Sooner(x, y)) /\ (<<x, y>> \in B <=> Sooner(y, x))
    OBVIOUS
<1> HIDE DEF R, B
<1>2. /\ \A x \in S : <<x, x>> \notin R
      /\ \A x, y, z \in S : <<x, y>> \in R /\ <<y, z>> \in R => <<x, z>> \in R
    BY <1>1, SoonerIsOrder
<1>3. /\ \A x \in S : <<x, x>> \notin B
      /\ \A x, y, z \in S : <<x, y>> \in B /\ <<y, z>> \in B => <<x, z>> \in B
    BY <1>1, SoonerIsOrder
<1>4. \E o \in S : \A x \in S : <<o, x>> \notin R
    BY <1>2, LastOfOrder
<1>5. \E o \in S : \A x \in S : <<o, x>> \notin B
    BY <1>3, LastOfOrder
<1> QED
    BY <1>1, <1>4, <1>5

LEMMA WeightIs ==
    ASSUME NEW o \in EntryT
    PROVE  Weight(o) \in Nat /\ Weight(o) >= 1
<1>1. o.liquidity \in Nat
    BY DEF EntryT
<1>2. \E z \in {o.liquidity, 1} : \A w \in {o.liquidity, 1} : z >= w
    <2>1. CASE o.liquidity >= 1
        BY <2>1, <1>1
    <2>2. CASE ~(o.liquidity >= 1)
        BY <2>2, <1>1
    <2> QED
        BY <2>1, <2>2
<1>3. /\ Max({o.liquidity, 1}) \in {o.liquidity, 1}
      /\ \A w \in {o.liquidity, 1} : Max({o.liquidity, 1}) >= w
    BY <1>2 DEF Max
<1> QED
    BY <1>1, <1>3 DEF Weight

LEMMA TotalFacts ==
    ASSUME NEW S, IsFiniteSet(S), S \subseteq EntryT
    PROVE  /\ Total(S) \in Nat
           /\ \A T \in SUBSET S : Total(T) \in Nat /\ Total(T) <= Total(S)
           /\ S # {} => Total(S) >= 1
           /\ Total({}) = 0
<1> DEFINE w(T) == [o \in T |-> Weight(o)]
<1>1. \A o \in S : Weight(o) \in Nat /\ Weight(o) >= 1
    BY WeightIs
<1>2. ASSUME NEW T \in SUBSET S
      PROVE  IsFiniteSet(T) /\ Total(T) = SumOver(w(S), T) /\ SumOver(w(S), T) \in Nat
    <2>1. IsFiniteSet(T)
        BY FS_Subset
    <2>2. \A o \in T : w(T)[o] = w(S)[o] /\ w(T)[o] \in Int /\ w(S)[o] \in Nat
        BY <1>1
    <2>3. Total(T) = SumOver(w(T), T)
        BY DEF Total
    <2> HIDE DEF w
    <2>4. SumOver(w(T), T) = SumOver(w(S), T)
        BY <2>1, <2>2, SumSame
    <2>5. SumOver(w(S), T) \in Nat
        BY <2>1, <2>2, SumNat
    <2> QED
        BY <2>1, <2>3, <2>4, <2>5
<1>3. \A x \in S : w(S)[x] \in Int /\ w(S)[x] >= 1
    BY <1>1
<1> HIDE DEF w
<1>4. ASSUME NEW T \in SUBSET S PROVE Total(T) <= Total(S)
    <2>1. IsFiniteSet(T) /\ IsFiniteSet(S \ T) /\ S \ T \in SUBSET S /\ S \in SUBSET S
        BY FS_Subset
    <2>2. T \cap (S \ T) = {} /\ \A x \in T \cup (S \ T) : w(S)[x] \in Int
        BY <1>3
    <2>3. SumOver(w(S), T \cup (S \ T)) = SumOver(w(S), T) + SumOver(w(S), S \ T)
        BY <2>1, <2>2, SumUnion
    <2>4. T \cup (S \ T) = S
        OBVIOUS
    <2>5. SumOver(w(S), S) = SumOver(w(S), T) + SumOver(w(S), S \ T)
        BY <2>3, <2>4, Zenon
    <2>6. SumOver(w(S), S \ T) \in Nat /\ SumOver(w(S), T) \in Nat
        BY <1>2, <2>1
    <2>7. Total(S) = SumOver(w(S), S) /\ Total(T) = SumOver(w(S), T)
        BY <1>2, <2>1
    <2> QED
        BY <2>5, <2>6, <2>7
<1>5. ASSUME S # {} PROVE Total(S) >= 1
    <2>1. PICK x \in S : TRUE
        BY <1>5
    <2>2. SumOver(w(S), S) = w(S)[x] + SumOver(w(S), S \ {x})
        BY <1>3, SumTakeOut
    <2>3. SumOver(w(S), S \ {x}) \in Nat /\ Total(S) = SumOver(w(S), S)
        BY <1>2
    <2> QED
        BY <2>2, <2>3, <1>3
<1>6. Total({}) = 0
    <2>1. Total({}) = SumOver(w(S), {})
        BY <1>2
    <2> QED
        BY <2>1, SumEmpty
<1> QED
    BY <1>2, <1>4, <1>5, <1>6

IsMedian(S, o) ==
    /\ Total({x \in S : Sooner(x, o)}) < (Total(S) + 1) \div 2
    /\ (Total(S) + 1) \div 2 <= Total({x \in S : ~Sooner(o, x)})

LEMMA MedianExists ==
    ASSUME NEW S, IsFiniteSet(S), S # {}, S \subseteq EntryT
    PROVE  WeightedMedian(S) \in S /\ IsMedian(S, WeightedMedian(S))
<1> DEFINE half == (Total(S) + 1) \div 2
           UpTo(o) == {x \in S : ~Sooner(o, x)}
           Before(o) == {x \in S : Sooner(x, o)}
           E == {o \in S : half <= Total(UpTo(o))}
<1>1. /\ Total(S) \in Nat /\ Total(S) >= 1 /\ Total({}) = 0
      /\ \A T \in SUBSET S : Total(T) \in Nat /\ Total(T) <= Total(S)
    BY TotalFacts
<1>2. half \in Nat /\ 0 < half /\ half <= Total(S)
    BY <1>1
<1> HIDE DEF half
<1>3. E # {}
    <2>1. PICK o \in S : \A x \in S : ~Sooner(o, x)
        BY FirstAndLastExist
    <2>2. UpTo(o) = S
        BY <2>1
    <2> QED
        BY <2>2, <1>2
<1>4. PICK o \in E : \A x \in E : ~Sooner(x, o)
    <2>1. IsFiniteSet(E) /\ E \subseteq EntryT
        BY FS_Subset
    <2> HIDE DEF E
    <2> QED
        BY <1>3, <2>1, FirstAndLastExist
<1>5. Total(Before(o)) < half
    <2>1. CASE Before(o) = {}
        BY <2>1, <1>1, <1>2
    <2>2. CASE Before(o) # {}
        <3>1. IsFiniteSet(Before(o)) /\ Before(o) \subseteq EntryT
            BY FS_Subset
        <3>2. PICK m \in Before(o) : \A x \in Before(o) : ~Sooner(m, x)
            <4> DEFINE B == Before(o)
            <4>1. IsFiniteSet(B) /\ B \subseteq EntryT /\ B # {}
                BY <3>1, <2>2
            <4> HIDE DEF B
            <4>2. \E m \in B : \A x \in B : ~Sooner(m, x)
                BY <4>1, FirstAndLastExist
            <4> QED
                BY <4>2 DEF B
        <3>3. Before(o) \subseteq UpTo(m) /\ m \in S
            BY <3>2
        <3>4. IsFiniteSet(UpTo(m)) /\ UpTo(m) \subseteq EntryT /\ UpTo(m) \in SUBSET S
            BY FS_Subset
        <3>5. Total(Before(o)) <= Total(UpTo(m))
            <4> HIDE DEF UpTo, Before
            <4> QED
                BY <3>3, <3>4, TotalFacts
        <3>6. m \notin E
            BY <3>2, <1>4
        <3>7. Total(UpTo(m)) < half
            BY <3>3, <3>4, <3>6, <1>1, <1>2
        <3>8. Total(UpTo(m)) \in Nat /\ Total(Before(o)) \in Nat
            BY <3>4, <1>1
        <3> QED
            BY <3>5, <3>7, <3>8, <1>2
    <2> QED
        BY <2>1, <2>2
<1>6. IsMedian(S, o) /\ o \in S
    BY <1>4, <1>5 DEF IsMedian, half
<1>7. WeightedMedian(S) = CHOOSE x \in S : IsMedian(S, x)
    BY DEF WeightedMedian, IsMedian
<1> HIDE DEF E
<1> QED
    BY <1>6, <1>7

\* The observation that is taken has the price below or at which half of the weight lies.
LEMMA MedianIsPrice ==
    ASSUME NEW S, IsFiniteSet(S), S # {}, S \subseteq EntryT
    PROVE  WeightedMedian(S).price = MedianPrice(S)
<1> DEFINE o == WeightedMedian(S)
           Cheap(q) == {x \in S : x.price <= q}
           Q == {q \in {x.price : x \in S} : 2 * Total(Cheap(q)) >= Total(S)}
           upTo == {x \in S : ~Sooner(o, x)}
           before == {x \in S : Sooner(x, o)}
           half == (Total(S) + 1) \div 2
<1>1. /\ Total(S) \in Nat /\ \A T \in SUBSET S : Total(T) \in Nat /\ IsFiniteSet(T)
    BY TotalFacts, FS_Subset
<1>2. half \in Nat /\ 2 * half >= Total(S) /\ 2 * half <= Total(S) + 1
    BY <1>1
<1>3. o \in S /\ Total(before) < half /\ half <= Total(upTo)
    BY MedianExists DEF IsMedian
<1> HIDE DEF o, half
<1>4. \A q \in Nat : \A T \in SUBSET Cheap(q) : Total(T) <= Total(Cheap(q))
    <2> SUFFICES ASSUME NEW q \in Nat, NEW T \in SUBSET Cheap(q)
                 PROVE  Total(T) <= Total(Cheap(q))
        OBVIOUS
    <2> DEFINE A == Cheap(q)
    <2>1. IsFiniteSet(A) /\ A \subseteq EntryT /\ T \in SUBSET A
        BY <1>1
    <2> HIDE DEF A
    <2>2. Total(T) <= Total(A)
        BY <2>1, TotalFacts
    <2> QED
        BY <2>2 DEF A
<1>5. \A x \in S : x.price \in Nat /\ x \in EntryT
    BY DEF EntryT
<1>6. o.price \in Q
    <2>1. upTo \subseteq Cheap(o.price)
        BY <1>3, <1>5, SoonerIsOrder
    <2>2. Total(upTo) <= Total(Cheap(o.price))
        BY <2>1, <1>3, <1>4, <1>5
    <2>3. Total(upTo) \in Nat /\ Total(Cheap(o.price)) \in Nat
        BY <1>1
    <2>4. 2 * Total(Cheap(o.price)) >= Total(S)
        BY <1>1, <1>2, <1>3, <2>2, <2>3
    <2> QED
        BY <2>4, <1>3
<1>7. ASSUME NEW q \in Q PROVE o.price <= q
    <2>1. q \in Nat /\ o.price \in Nat
        BY <1>3, <1>5
    <2> SUFFICES ASSUME q < o.price PROVE FALSE
        BY <2>1
    <2>2. Cheap(q) \subseteq before
        BY <1>3, <1>5, <2>1, SoonerIsOrder
    <2>3. Total(Cheap(q)) <= Total(before)
        <3> DEFINE B == before
        <3>1. IsFiniteSet(B) /\ B \subseteq EntryT /\ Cheap(q) \in SUBSET B
            BY <1>1, <2>2
        <3> HIDE DEF B
        <3>2. Total(Cheap(q)) <= Total(B)
            BY <3>1, TotalFacts
        <3> QED
            BY <3>2 DEF B
    <2>4. Total(Cheap(q)) \in Nat /\ Total(before) \in Nat
        BY <1>1
    <2>5. 2 * Total(Cheap(q)) >= Total(S)
        OBVIOUS
    <2> HIDE DEF Q, Cheap
    <2> QED
        BY <1>1, <1>2, <1>3, <2>3, <2>4, <2>5
<1>8. MedianPrice(S) = Min(Q)
    BY DEF MedianPrice
<1>9. Q \subseteq Nat
    BY <1>5
<1> HIDE DEF Q
<1>10. Min(Q) \in Q /\ \A q \in Q : Min(Q) <= q
    BY <1>6, <1>7 DEF Min
<1>11. Min(Q) = o.price
    <2> DEFINE m == Min(Q)
               p == o.price
    <2>1. m \in Nat /\ p \in Nat /\ m <= p
        BY <1>6, <1>9, <1>10
    <2>2. p <= m
        BY <1>7, <1>10
    <2> HIDE DEF m, p
    <2>3. m = p
        BY <2>1, <2>2
    <2> QED
        BY <2>3 DEF m, p
<1> QED
    BY <1>8, <1>11 DEF o

----------------------------------------------------------------------------
(* What depends on the market alone stays as it is. *)

LEMMA MarketStays ==
    ASSUME market' = market
    PROVE  /\ Edges' = Edges /\ Anchored' = Anchored
           /\ \A o, e : Along(o, e)' = Along(o, e)
           /\ \A a : SeedEntry(a)' = SeedEntry(a)
           /\ \A p : AtEnd(p)' = AtEnd(p)
           /\ Observable' = Observable
<1>1. Edges' = Edges /\ Anchored' = Anchored
    BY DEF Edges, Usable, Anchored
<1>2. \A a : SeedEntry(a)' = SeedEntry(a)
    BY DEF SeedEntry
<1>3. \A o, e : Along(o, e)' = Along(o, e)
    <2>1. \A e, p : ComputePrice(e, p)' = ComputePrice(e, p)
        BY DEF ComputePrice
    <2>2. \A e : KnownNorm(e)' = KnownNorm(e) /\ UnknownNorm(e)' = UnknownNorm(e)
        BY DEF KnownNorm, UnknownNorm
    <2>3. \A e, p, c : LiquidityUsd(e, p, c)' = LiquidityUsd(e, p, c)
        BY <2>2 DEF LiquidityUsd
    <2> QED
        BY <2>1, <2>3 DEF Along
<1>4. \A a, b : EdgeOf(a, b)' = EdgeOf(a, b)
    BY <1>1 DEF EdgeOf
<1>5. \A p : AtEnd(p)' = AtEnd(p)
    BY <1>2, <1>3, <1>4 DEF AtEnd, Walk
<1>6. Paths' = Paths
    BY <1>1 DEF Paths
<1>7. Observable' = Observable
    BY <1>5, <1>6 DEF Observable
<1> QED
    BY <1>1, <1>2, <1>3, <1>5, <1>7

----------------------------------------------------------------------------
(* What is kept of an asset. *)

\* K is what is kept of M.
Richest(K, M) ==
    /\ Cardinality(K) <= KEPT
    /\ M # K => Cardinality(K) = KEPT
    /\ \A o \in M \ K, kept \in K : ~Better(o, kept)

LEMMA KeptAsIs ==
    ASSUME NEW M, IsFiniteSet(M), M \subseteq EntryT, NEW K, K \subseteq M, Richest(K, M),
           NEW o \in EntryT, o \notin M, Cardinality(K) = KEPT, \A k \in K : ~Better(o, k)
    PROVE  Richest(K, M \cup {o})
<1>1. ASSUME NEW d \in (M \cup {o}) \ K, NEW k \in K PROVE ~Better(d, k)
    BY DEF Richest
<1> QED
    BY <1>1 DEF Richest

LEMMA KeptOneMore ==
    ASSUME NEW M, IsFiniteSet(M), M \subseteq EntryT, NEW K, K \subseteq M, Richest(K, M),
           NEW o \in EntryT, o \notin M, Cardinality(K) # KEPT
    PROVE  Richest(K \cup {o}, M \cup {o}) /\ K = M
<1>1. K = M
    BY DEF Richest
<1>2. Cardinality(K) \in Nat /\ Cardinality(K \cup {o}) = Cardinality(K) + 1 /\ KEPT \in Nat
    BY <1>1, FS_CardinalityType, FS_AddElement, NumberFacts
<1> QED
    BY <1>1, <1>2 DEF Richest

LEMMA KeptInstead ==
    ASSUME NEW M, IsFiniteSet(M), M \subseteq EntryT, NEW K, K \subseteq M, Richest(K, M),
           NEW o \in EntryT, o \notin M, Cardinality(K) = KEPT,
           NEW w \in K, \A k \in K : ~Better(w, k), NEW x \in K, Better(o, x)
    PROVE  Richest((K \ {w}) \cup {o}, M \cup {o})
<1> DEFINE L == (K \ {w}) \cup {o}
<1>1. IsFiniteSet(K) /\ IsFiniteSet(K \ {w}) /\ o \notin K \ {w} /\ Cardinality(K) \in Nat
    BY FS_Subset, FS_CardinalityType
<1>2. Cardinality(K \ {w}) = Cardinality(K) - 1
    BY <1>1, FS_RemoveElement
<1>3. Cardinality(L) = Cardinality(K \ {w}) + 1
    BY <1>1, FS_AddElement
<1>4. Cardinality(L) = KEPT /\ KEPT \in Nat
    BY <1>1, <1>2, <1>3, NumberFacts
<1>5. ASSUME NEW d \in (M \cup {o}) \ L, NEW k \in L PROVE ~Better(d, k)
    <2>1. d \in EntryT /\ k \in EntryT /\ x \in EntryT /\ (d = w \/ d \in M \ K)
        OBVIOUS
    <2>2. \A y \in K : ~Better(d, y)
        BY <2>1 DEF Richest
    <2>3. CASE k = o
        BY <2>1, <2>2, <2>3, BetterIsOrder
    <2>4. CASE k # o
        BY <2>2, <2>4
    <2> QED
        BY <2>3, <2>4
<1> HIDE DEF L
<1>6. Richest(L, M \cup {o})
    BY <1>4, <1>5 DEF Richest
<1> QED
    BY <1>6 DEF L

----------------------------------------------------------------------------
(* The search: the inductive invariant. *)

\* o lies behind q.
Behind(q, o) == Len(q.path) < Len(o.path) /\ Cut(o.path, Len(q.path)) = q.path

\* An entry of the queue was observed, or is a reference price.
Entered(q) == q \in seen \/ \E a \in Anchored : q = SeedEntry(a)

QueueKnown ==
    /\ queue \in Seq(EntryT)
    /\ \A i \in DOMAIN queue : Entered(queue[i])
    /\ \A i, j \in DOMAIN queue : queue[i].path = queue[j].path => i = j

\* What is to be followed was not followed before.
NotYet == \A i \in DOMAIN queue : \A o \in seen : ~Behind(queue[i], o)

\* What was not found yet lies behind what is to be followed.
AllAhead ==
    Dropped = {} => \A o \in Observable : o \in seen \/ \E i \in DOMAIN queue : Behind(queue[i], o)

SearchInv ==
    /\ market \in Markets
    /\ IsFiniteSet(seen) /\ seen \subseteq Observable /\ found \subseteq seen
    /\ QueueKnown /\ NotYet /\ RichestKept /\ AllAhead
    /\ resolved # Unresolved => queue = <<>> /\ resolved = Resolution

LEMMA RichestKeptIs ==
    ASSUME found \subseteq seen
    PROVE  RichestKept <=> \A a \in Assets : Richest(Of(a), Made(a))
<1>1. \A a \in Assets : Made(a) \ found = Made(a) \ Of(a)
    BY DEF Made, Of
<1> QED
    BY <1>1 DEF RichestKept, Richest

LEMMA ObservedFacts ==
    ASSUME market \in Markets, NEW o \in Observable
    PROVE  /\ o \in EntryT /\ Real(o) /\ Len(o.path) \in 2 .. MAX_HOPS + 1 /\ Len(o.path) \in Nat
           /\ AssetOf(o) \in Assets \ Anchored /\ Hops(o) \in 1 .. MAX_HOPS
<1>1. Real(o) /\ Len(o.path) \in 2 .. MAX_HOPS + 1 /\ MAX_HOPS \in Nat
    BY ObservableIs, NumberFacts
<1>2. o.path \in Seq(Assets) /\ Len(o.path) \in Nat
    BY <1>1, LenProperties DEF Real, Simple, Linked
<1>3. o.path[Len(o.path)] \in Assets /\ o.path[Len(o.path)] \notin Anchored
    BY <1>1, <1>2, ElementOfSeq DEF Real, Simple
<1> QED
    BY <1>1, <1>2, <1>3 DEF Real, AssetOf, Last, Hops

LEMMA EnteredFacts ==
    ASSUME SearchInv, NEW q, Entered(q)
    PROVE  /\ Real(q) /\ q \in EntryT /\ Len(q.path) \in 1 .. MAX_HOPS + 1
           /\ q \in seen \/ Len(q.path) = 1
<1>1. CASE q \in seen
    BY <1>1, ObservedFacts DEF SearchInv
<1>2. CASE q \notin seen
    <2>1. PICK a \in Anchored : q = SeedEntry(a)
        BY <1>2 DEF Entered
    <2>2. Real(q) /\ q.path = <<a>> /\ market \in Markets
        BY <2>1, SeedsAreReal, SeedEntryFacts DEF SearchInv
    <2>3. Len(q.path) = 1 /\ MAX_HOPS \in Nat
        BY <2>2, NumberFacts
    <2> QED
        BY <2>2, <2>3 DEF Real
<1> QED
    BY <1>1, <1>2

LEMMA EveryPlace ==
    ASSUME NEW S, IsFiniteSet(S), NEW f \in SetToSeqs(S)
    PROVE  /\ f \in Seq(S) /\ Len(f) = Cardinality(S) /\ DOMAIN f = 1 .. Len(f) /\ Len(f) \in Nat
           /\ \A i, j \in DOMAIN f : f[i] = f[j] => i = j
           /\ \A x \in S : \E i \in DOMAIN f : f[i] = x
<1> DEFINE n == Cardinality(S)
<1>1. n \in Nat
    BY FS_CardinalityType
<1>2. f \in [1 .. n -> S] /\ \A i, j \in 1 .. n : i # j => f[i] # f[j]
    BY DEF SetToSeqs
<1>3. f \in Seq(S) /\ Len(f) = n /\ DOMAIN f = 1 .. n
    BY <1>1, <1>2, IsASeq, LenProperties
<1>4. f \in Injection(1 .. n, S)
    BY <1>2 DEF Injection, IsInjective
<1>5. IsFiniteSet(1 .. n) /\ Cardinality(1 .. n) = n
    BY <1>1, FS_Interval
<1>6. f \in Surjection(1 .. n, S)
    BY <1>4, <1>5, FS_Injection
<1>7. \A x \in S : \E i \in 1 .. n : f[i] = x
    BY <1>6 DEF Surjection
<1> QED
    BY <1>1, <1>2, <1>3, <1>7

LEMMA SearchStarts == GraphInit => SearchInv
<1> SUFFICES ASSUME GraphInit PROVE SearchInv
    OBVIOUS
<1>1. market \in Markets /\ found = {} /\ seen = {} /\ resolved = Unresolved /\ queue \in SeedEntries
    BY DEF GraphInit
<1>2. IsFiniteSet(Anchored)
    BY <1>1, MarketFacts
<1>3. PICK s \in SetToSeqs(Anchored) : queue = [i \in DOMAIN s |-> SeedEntry(s[i])]
    BY <1>1 DEF SeedEntries
<1>4. /\ DOMAIN s = 1 .. Len(s) /\ Len(s) \in Nat /\ s \in Seq(Anchored)
      /\ \A i, j \in DOMAIN s : s[i] = s[j] => i = j
      /\ \A x \in Anchored : \E i \in DOMAIN s : s[i] = x
    BY <1>2, EveryPlace
<1>5. \A i \in DOMAIN s : s[i] \in Anchored
    BY <1>4, ElementOfSeq
<1>6. QueueKnown
    <2>1. DOMAIN queue = DOMAIN s /\ \A i \in DOMAIN s : queue[i] = SeedEntry(s[i])
        BY <1>3
    <2>2. \A i \in DOMAIN s : queue[i] \in EntryT /\ queue[i].path = <<s[i]>> /\ Entered(queue[i])
        BY <1>1, <1>5, <2>1, SeedEntryFacts DEF Entered
    <2>3. queue \in [1 .. Len(s) -> EntryT]
        BY <1>3, <1>4, <2>2
    <2>4. queue \in Seq(EntryT)
        BY <1>4, <2>3, IsASeq
    <2>5. ASSUME NEW i \in DOMAIN s, NEW j \in DOMAIN s, queue[i].path = queue[j].path PROVE i = j
        <3>1. <<s[i]>>[1] = <<s[j]>>[1]
            BY <2>2, <2>5
        <3> QED
            BY <3>1, <1>4
    <2> QED
        BY <2>1, <2>2, <2>4, <2>5 DEF QueueKnown
<1>7. RichestKept
    <2>1. \A a \in Assets : Of(a) = {} /\ Made(a) = {}
        BY <1>1 DEF Of, Made
    <2>2. Cardinality({}) = 0 /\ KEPT \in Nat
        BY FS_EmptySet, NumberFacts
    <2> QED
        BY <2>1, <2>2 DEF RichestKept
<1>8. AllAhead
    <2> SUFFICES ASSUME NEW o \in Observable PROVE \E i \in DOMAIN queue : Behind(queue[i], o)
        BY DEF AllAhead
    <2>1. o.path[1] \in Anchored /\ Len(o.path) \in 2 .. MAX_HOPS + 1 /\ MAX_HOPS \in Nat
        BY <1>1, ObservedFacts, NumberFacts DEF Real, Simple, Linked
    <2>2. PICK i \in DOMAIN s : s[i] = o.path[1]
        BY <1>4, <2>1
    <2>3. i \in DOMAIN queue /\ queue[i].path = <<o.path[1]>>
        BY <1>1, <1>3, <1>5, <2>2, SeedEntryFacts
    <2>4. Cut(o.path, 1) = <<o.path[1]>>
        BY DEF Cut
    <2>5. Behind(queue[i], o)
        BY <2>1, <2>3, <2>4 DEF Behind
    <2> QED
        BY <2>3, <2>5
<1>9. IsFiniteSet(seen)
    BY <1>1, FS_EmptySet
<1> QED
    BY <1>1, <1>6, <1>7, <1>8, <1>9 DEF SearchInv, NotYet

----------------------------------------------------------------------------
(* One entry of the queue is followed. *)

\* What an entry leads to was not seen before, each at an asset of its own.
LEMMA OfferedFacts ==
    ASSUME SearchInv, queue # <<>>, NEW q, q = Head(queue)
    PROVE  /\ Entered(q) /\ Real(q) /\ 1 \in DOMAIN queue /\ q = queue[1]
           /\ Len(q.path) \in Nat /\ q.path \in Seq(Assets) /\ Len(q.path) >= 1
           /\ IsFiniteSet(Offered(q))
           /\ \A e \in Offered(q) :
                  /\ e \in Edges /\ Along(q, e) \in Observable /\ Along(q, e) \notin seen
                  /\ AssetOf(Along(q, e)) = e.to
                  /\ Along(q, e).path = Append(q.path, e.to)
                  /\ Len(Along(q, e).path) = Len(q.path) + 1
                  /\ Cut(Along(q, e).path, Len(q.path)) = q.path
           /\ \A e, f \in Offered(q) : e.to = f.to => e = f
<1>1. market \in Markets /\ queue \in Seq(EntryT) /\ MAX_HOPS \in Nat
    BY NumberFacts DEF SearchInv, QueueKnown
<1>2. 1 \in DOMAIN queue /\ q = queue[1]
    BY <1>1, HeadTailProperties, LenProperties
<1>3. Entered(q)
    BY <1>2 DEF SearchInv, QueueKnown
<1>4. Real(q) /\ q \in EntryT /\ Len(q.path) \in 1 .. MAX_HOPS + 1
    BY <1>3, EnteredFacts
<1> DEFINE n == Len(q.path)
<1>5. n \in Nat /\ n >= 1 /\ q.path \in Seq(Assets) /\ Hops(q) = n - 1
    BY <1>1, <1>4 DEF EntryT, Hops
<1>6. Offered(q) \subseteq Edges
    BY DEF Offered, Onward
<1>7. IsFiniteSet(Offered(q))
    BY <1>1, <1>6, EdgesFinite, FS_Subset
<1>8. ASSUME NEW e \in Offered(q), NEW f \in Offered(q), e.to = f.to PROVE e = f
    <2>1. e.from = AssetOf(q) /\ f.from = AssetOf(q)
        BY DEF Offered, Onward
    <2> QED
        BY <2>1, <1>1, <1>6, <1>8, OneEdge
<1>9. ASSUME NEW e \in Offered(q)
      PROVE  /\ e \in Edges /\ Along(q, e) \in Observable /\ Along(q, e) \notin seen
             /\ AssetOf(Along(q, e)) = e.to
             /\ Along(q, e).path = Append(q.path, e.to)
             /\ Len(Along(q, e).path) = n + 1
             /\ Cut(Along(q, e).path, n) = q.path
    <2> DEFINE o == Along(q, e)
    <2>1. e \in Edges /\ e \in Onward(q) /\ e.to \in Assets
        BY <1>1, <1>6, EdgeTypes DEF Offered, EdgeT
    <2>2. /\ o \in EntryT /\ o.path = Append(q.path, e.to) /\ AssetOf(o) = e.to
          /\ o.price = ComputePrice(e, q.price)
        BY <1>1, <1>4, <2>1, AlongFacts
    <2>3. Real(o)
        BY <1>1, <1>4, <2>1, OneFurther
    <2>4. /\ Append(q.path, e.to) \in Seq(Assets) /\ Len(Append(q.path, e.to)) = n + 1
          /\ \A i \in 1 .. n : Append(q.path, e.to)[i] = q.path[i]
        BY <1>5, <2>1, AppendProperties
    <2>5. o.price > 0 /\ o.liquidity >= MIN_LIQUIDITY /\ n - 1 < MAX_HOPS
        <3>1. o.price # 0 /\ o.liquidity >= MIN_LIQUIDITY /\ n - 1 < MAX_HOPS
            BY <1>5, <2>2 DEF Offered
        <3>2. o.price \in Nat
            BY <2>2 DEF EntryT
        <3> QED
            BY <3>1, <3>2
    <2>6. Len(o.path) \in 2 .. MAX_HOPS + 1
        BY <1>1, <1>5, <2>2, <2>4, <2>5
    <2>7. o \in Observable
        BY <1>1, <2>3, <2>5, <2>6, ObservableIs
    <2>8. Cut(o.path, n) = q.path
        <3>1. Cut(o.path, n) = [i \in 1 .. n |-> q.path[i]]
            BY <2>2, <2>4 DEF Cut
        <3>2. q.path = [i \in 1 .. n |-> q.path[i]]
            BY <1>5, LenProperties
        <3> QED
            BY <3>1, <3>2
    <2>9. Behind(q, o)
        BY <1>5, <2>2, <2>4, <2>8 DEF Behind
    <2>10. o \notin seen
        BY <1>2, <2>9 DEF SearchInv, NotYet
    <2> QED
        BY <2>1, <2>2, <2>4, <2>7, <2>8, <2>10
<1> QED
    BY <1>2, <1>3, <1>4, <1>5, <1>7, <1>8, <1>9

\* The entries that are taken, in the order they are taken in.
LEMMA TakenFacts ==
    ASSUME SearchInv, Follow
    PROVE  \E s, new : /\ s \in Orders({e \in Offered(Head(queue)) : Accepted(Along(Head(queue), e))})
                       /\ new \in [DOMAIN s -> EntryT]
                       /\ \A i \in DOMAIN s : new[i] = Along(Head(queue), s[i])
                       /\ queue' = Tail(queue) \o new
<1> DEFINE q == Head(queue)
           T == {e \in Offered(q) : Accepted(Along(q, e))}
<1>1. PICK s \in Orders(T) : queue' = Tail(queue) \o [i \in DOMAIN s |-> Along(q, s[i])]
    BY DEF Follow
<1>2. queue # <<>>
    BY DEF Follow
<1>3. market \in Markets /\ \A e \in Offered(q) : Along(q, e) \in Observable
    BY <1>2, OfferedFacts DEF SearchInv
<1>4. IsFiniteSet(T)
    <2>1. IsFiniteSet(Offered(q)) /\ T \subseteq Offered(q)
        BY <1>2, OfferedFacts
    <2> QED
        BY <2>1, FS_Subset
<1>5. s \in Seq(T)
    BY <1>4, EveryPlace DEF Orders
<1>6. \A i \in DOMAIN s : s[i] \in Offered(q)
    BY <1>5, ElementOfSeq
<1>7. \A i \in DOMAIN s : Along(q, s[i]) \in EntryT
    BY <1>3, <1>6, ObservedFacts
<1> DEFINE new == [i \in DOMAIN s |-> Along(q, s[i])]
<1>8. new \in [DOMAIN s -> EntryT] /\ \A i \in DOMAIN s : new[i] = Along(q, s[i])
    BY <1>7
<1> QED
    BY <1>1, <1>8

\* The queue after it: what was behind the head, and then what is taken.
QueueGrown(q, T, s) ==
    /\ queue' \in Seq(EntryT) /\ Len(queue) \in Nat /\ Len(queue) >= 1
    /\ DOMAIN queue = 1 .. Len(queue) /\ Len(s) \in Nat /\ DOMAIN s = 1 .. Len(s)
    /\ DOMAIN queue' = 1 .. Len(queue) - 1 + Len(s)
    /\ \A i \in 1 .. Len(queue) - 1 : queue'[i] = queue[i + 1]
    /\ \A i \in DOMAIN s : s[i] \in T /\ queue'[Len(queue) - 1 + i] = Along(q, s[i])
    /\ \A i, j \in DOMAIN s : s[i] = s[j] => i = j
    /\ \A e \in T : \E i \in DOMAIN s : s[i] = e

LEMMA QueueAfter ==
    ASSUME SearchInv, queue # <<>>, NEW q, q = Head(queue),
           NEW T, T \subseteq Offered(q), NEW s \in Orders(T),
           NEW new \in [DOMAIN s -> EntryT], \A i \in DOMAIN s : new[i] = Along(q, s[i]),
           queue' = Tail(queue) \o new
    PROVE  QueueGrown(q, T, s)
<1>1. market \in Markets /\ queue \in Seq(EntryT)
    BY DEF SearchInv, QueueKnown
<1>2. IsFiniteSet(T)
    BY OfferedFacts, FS_Subset
<1>3. s \in SetToSeqs(T)
    BY DEF Orders
<1>4. /\ s \in Seq(T) /\ DOMAIN s = 1 .. Len(s) /\ Len(s) \in Nat
      /\ \A i, j \in DOMAIN s : s[i] = s[j] => i = j
      /\ \A e \in T : \E i \in DOMAIN s : s[i] = e
    BY <1>2, <1>3, EveryPlace
<1>5. \A i \in DOMAIN s : s[i] \in T
    BY <1>4, ElementOfSeq
<1> DEFINE m == Len(s)
           rest == Tail(queue)
           N == Len(queue) - 1
<1>7. new \in Seq(EntryT) /\ Len(new) = m /\ \A i \in 1 .. m : new[i] = Along(q, s[i])
    <2>1. m \in Nat /\ new \in [1 .. m -> EntryT]
        BY <1>4
    <2> HIDE DEF m
    <2>2. new \in Seq(EntryT)
        BY <2>1, IsASeq
    <2>3. DOMAIN new = 1 .. m /\ DOMAIN new = 1 .. Len(new) /\ Len(new) \in Nat
        BY <2>1, <2>2, LenProperties
    <2>4. Len(new) = m
        BY <2>1, <2>3
    <2> QED
        BY <2>2, <2>4, <1>4 DEF m
<1>8. /\ rest \in Seq(EntryT) /\ Len(rest) = N /\ \A i \in 1 .. N : rest[i] = queue[i + 1]
      /\ Len(queue) \in Nat /\ Len(queue) >= 1 /\ DOMAIN queue = 1 .. Len(queue)
    BY <1>1, HeadTailProperties, LenProperties
<1>9. queue' = rest \o new
    OBVIOUS
<1> HIDE DEF rest, m, N
<1>10. /\ rest \o new \in Seq(EntryT) /\ Len(rest \o new) = N + m
       /\ \A i \in 1 .. N + m : (rest \o new)[i] = IF i <= N THEN rest[i] ELSE new[i - N]
    BY <1>7, <1>8, ConcatProperties, Zenon
<1>11. queue' \in Seq(EntryT) /\ DOMAIN queue' = 1 .. N + m
    BY <1>9, <1>10, LenProperties
<1>12. \A i \in 1 .. N : queue'[i] = queue[i + 1]
    <2> SUFFICES ASSUME NEW i \in 1 .. N PROVE queue'[i] = queue[i + 1]
        OBVIOUS
    <2>1. i \in 1 .. N + m /\ i <= N
        BY <1>4, <1>8 DEF N, m
    <2> QED
        BY <2>1, <1>8, <1>9, <1>10
<1>13. \A i \in 1 .. m : queue'[N + i] = Along(q, s[i])
    <2> SUFFICES ASSUME NEW i \in 1 .. m PROVE queue'[N + i] = Along(q, s[i])
        OBVIOUS
    <2>1. N + i \in 1 .. N + m /\ ~(N + i <= N) /\ (N + i) - N = i
        BY <1>4, <1>8 DEF N, m
    <2> QED
        BY <2>1, <1>7, <1>9, <1>10
<1> QED
    BY <1>4, <1>5, <1>8, <1>11, <1>12, <1>13 DEF N, m, QueueGrown

\* An entry that lies behind the head is not one of those that are taken.
LEMMA NewEntries ==
    ASSUME SearchInv, queue # <<>>, NEW q, q = Head(queue), NEW e \in Offered(q)
    PROVE  /\ \A i \in DOMAIN queue : queue[i].path # Along(q, e).path
           /\ \A i \in DOMAIN queue : i # 1 => ~Behind(queue[i], Along(q, e))
           /\ \A o \in seen : ~Behind(Along(q, e), o)
<1> DEFINE o == Along(q, e)
           n == Len(q.path)
<1>1. /\ Entered(q) /\ Real(q) /\ 1 \in DOMAIN queue /\ q = queue[1]
      /\ n \in Nat /\ n >= 1 /\ q.path \in Seq(Assets)
      /\ o \in Observable /\ o \notin seen
      /\ Len(o.path) = n + 1 /\ Cut(o.path, n) = q.path
    BY OfferedFacts
<1>2. market \in Markets /\ seen \subseteq Observable
    BY DEF SearchInv
<1>3. Real(o) /\ o.path \in Seq(Assets)
    BY <1>1, <1>2, ObservedFacts DEF Real, Simple, Linked
<1>4. \A i \in DOMAIN queue : /\ Entered(queue[i]) /\ Real(queue[i])
                              /\ Len(queue[i].path) \in 1 .. MAX_HOPS + 1
                              /\ queue[i] \in seen \/ Len(queue[i].path) = 1
    <2>1. \A i \in DOMAIN queue : Entered(queue[i])
        BY DEF SearchInv, QueueKnown
    <2> QED
        BY <2>1, EnteredFacts
<1> HIDE DEF o, n
<1>5. ASSUME NEW i \in DOMAIN queue, queue[i].path = o.path PROVE FALSE
    <2>1. queue[i] = o
        BY <1>3, <1>4, <1>5 DEF Real
    <2>3. Len(o.path) # 1
        BY <1>1
    <2>2. Len(queue[i].path) # 1
        BY <2>3, <1>5
    <2> QED
        BY <2>1, <2>2, <1>1, <1>4
<1>6. ASSUME NEW i \in DOMAIN queue, i # 1, Behind(queue[i], o) PROVE FALSE
    <2> DEFINE r == queue[i]
               k == Len(r.path)
    <2>1. k \in Nat /\ k >= 1 /\ k <= n /\ Cut(o.path, k) = r.path
        BY <1>1, <1>4, <1>6, NumberFacts DEF Behind
    <2>2. Cut(o.path, k) = Cut(q.path, k)
        <3>1. Cut(o.path, k) = [j \in 1 .. k |-> o.path[j]] /\ Cut(q.path, k) = [j \in 1 .. k |-> q.path[j]]
            BY DEF Cut
        <3>2. \A j \in 1 .. n : q.path[j] = o.path[j]
            BY <1>1 DEF Cut
        <3>3. \A j \in 1 .. k : j \in 1 .. n
            BY <2>1, <1>1
        <3> QED
            BY <3>1, <3>2, <3>3
    <2>3. CASE k = n
        <3>1. Cut(q.path, n) = q.path
            BY <1>1, CutFacts DEF n
        <3>2. r.path = queue[1].path
            BY <2>1, <2>2, <2>3, <3>1, <1>1
        <3> QED
            BY <3>2, <1>1, <1>6 DEF SearchInv, QueueKnown
    <2>4. CASE k # n
        <3>1. Behind(r, q)
            BY <2>1, <2>2, <2>4, <1>1 DEF Behind, n
        <3>3. n # 1
            BY <2>1, <2>4, <1>1
        <3>2. q \in seen
            BY <3>3, <1>1, <1>4 DEF n
        <3> QED
            BY <3>1, <3>2 DEF SearchInv, NotYet
    <2> QED
        BY <2>3, <2>4
<1>7. ASSUME NEW p \in seen, Behind(o, p) PROVE FALSE
    <2>1. n + 1 < Len(p.path) /\ Cut(p.path, n + 1) = o.path /\ Len(p.path) \in Nat
        BY <1>1, <1>2, <1>7, ObservedFacts DEF Behind
    <2>2. Cut(p.path, n) = q.path
        <3>1. \A j \in 1 .. n + 1 : o.path[j] = p.path[j]
            BY <2>1 DEF Cut
        <3>2. \A j \in 1 .. n : j \in 1 .. n + 1
            BY <1>1
        <3>3. Cut(o.path, n) = Cut(p.path, n)
            BY <3>1, <3>2 DEF Cut
        <3> QED
            BY <3>3, <1>1
    <2>3. Behind(q, p)
        BY <2>1, <2>2, <1>1 DEF Behind, n
    <2> QED
        BY <2>3, <1>1 DEF SearchInv, NotYet
<1> QED
    BY <1>5, <1>6, <1>7 DEF o

LEMMA MadeFacts ==
    ASSUME SearchInv, NEW a \in Assets
    PROVE  /\ IsFiniteSet(Made(a)) /\ Made(a) \subseteq EntryT /\ Of(a) \subseteq Made(a)
           /\ IsFiniteSet(Of(a)) /\ Richest(Of(a), Made(a))
           /\ Full(a) => /\ Worst(a) \in Of(a)
                         /\ \A k \in Of(a) : ~Better(Worst(a), k)
<1>1. seen \subseteq EntryT
    BY ObservedFacts DEF SearchInv
<1>2. /\ IsFiniteSet(Made(a)) /\ Made(a) \subseteq EntryT /\ Of(a) \subseteq Made(a)
      /\ IsFiniteSet(Of(a))
    <2>1. Made(a) \subseteq seen /\ Of(a) \subseteq Made(a) /\ IsFiniteSet(seen)
        BY DEF SearchInv, Made, Of
    <2>2. IsFiniteSet(Made(a))
        BY <2>1, FS_Subset
    <2>3. IsFiniteSet(Of(a))
        BY <2>1, <2>2, FS_Subset
    <2> QED
        BY <1>1, <2>1, <2>2, <2>3
<1>3. Richest(Of(a), Made(a))
    BY RichestKeptIs DEF SearchInv
<1>4. ASSUME Full(a) PROVE Worst(a) \in Of(a) /\ \A k \in Of(a) : ~Better(Worst(a), k)
    <2>1. Of(a) # {}
        BY <1>4, FS_EmptySet, NumberFacts DEF Full
    <2>2. \E o \in Of(a) : \A x \in Of(a) : ~Better(o, x)
        BY <1>2, <2>1, WorstExists
    <2> QED
        BY <2>2 DEF Worst
<1> QED
    BY <1>2, <1>3, <1>4

\* What a step makes of the observations of one asset.
LEMMA KeptAfter ==
    ASSUME SearchInv, Follow, NEW q, q = Head(queue), NEW a \in Assets
    PROVE  /\ (\A e \in Offered(q) : e.to # a) => Of(a)' = Of(a) /\ Made(a)' = Made(a)
           /\ \A e \in Offered(q) : e.to = a =>
                  LET o == Along(q, e)
                  IN  /\ Made(a)' = Made(a) \cup {o}
                      /\ Of(a)' = IF ~Accepted(o) THEN Of(a)
                                  ELSE IF Full(a) THEN (Of(a) \ {Worst(a)}) \cup {o}
                                  ELSE Of(a) \cup {o}
<1> DEFINE taken == {e \in Offered(q) : Accepted(Along(q, e))}
           kept == {Along(q, e) : e \in taken}
           U == UNION {Evicted(o) : o \in kept}
<1>1. queue # <<>> /\ found' = (found \ U) \cup kept /\ seen' = seen \cup {Along(q, e) : e \in Offered(q)}
    BY DEF Follow
<1>2. /\ \A e \in Offered(q) : /\ AssetOf(Along(q, e)) = e.to /\ Along(q, e) \notin seen
                               /\ Along(q, e) \in Observable
      /\ \A e, f \in Offered(q) : e.to = f.to => e = f
    BY <1>1, OfferedFacts
<1>3. found \subseteq seen /\ market \in Markets
    BY DEF SearchInv
<1>4. \A x : x \in U <=> \E e \in taken : Full(e.to) /\ x = Worst(e.to)
    BY <1>2 DEF Evicted
<1>5. \A b \in Assets : Full(b) => Worst(b) \in found /\ AssetOf(Worst(b)) = b
    BY MadeFacts DEF Of
<1>6. \A e \in Offered(q) : e.to \in Assets
    BY <1>2, <1>3, ObservedFacts
<1>7. Made(a)' = {o \in seen' : AssetOf(o) = a} /\ Of(a)' = {o \in found' : AssetOf(o) = a}
    BY DEF Made, Of
<1>8. ASSUME \A e \in Offered(q) : e.to # a PROVE Of(a)' = Of(a) /\ Made(a)' = Made(a)
    <2>1. Made(a)' = Made(a)
        BY <1>1, <1>2, <1>7, <1>8 DEF Made
    <2>2. \A x \in U : AssetOf(x) # a
        BY <1>4, <1>5, <1>6, <1>8
    <2>3. \A x \in kept : AssetOf(x) # a
        BY <1>2, <1>8
    <2> HIDE DEF U, kept
    <2>4. Of(a)' = Of(a)
        BY <1>1, <1>7, <2>2, <2>3 DEF Of
    <2> QED
        BY <2>1, <2>4
<1>9. ASSUME NEW e \in Offered(q), e.to = a
      PROVE  /\ Made(a)' = Made(a) \cup {Along(q, e)}
             /\ Of(a)' = IF ~Accepted(Along(q, e)) THEN Of(a)
                         ELSE IF Full(a) THEN (Of(a) \ {Worst(a)}) \cup {Along(q, e)}
                         ELSE Of(a) \cup {Along(q, e)}
    <2> DEFINE o == Along(q, e)
    <2>1. \A f \in Offered(q) : AssetOf(Along(q, f)) = a <=> f = e
        BY <1>2, <1>9
    <2>2. Made(a)' = Made(a) \cup {o}
        BY <1>1, <1>7, <2>1 DEF Made
    <2>3. \A x \in kept : AssetOf(x) = a <=> x = o
        BY <1>2, <2>1
    <2>4. o \in kept <=> Accepted(o)
        <3>1. Accepted(o) => o \in kept
            OBVIOUS
        <3>2. o \in kept => Accepted(o)
            OBVIOUS
        <3> QED
            BY <3>1, <3>2
    <2>5. \A x \in U : AssetOf(x) = a => Accepted(o) /\ Full(a) /\ x = Worst(a)
        <3> SUFFICES ASSUME NEW x \in U, AssetOf(x) = a
                     PROVE  Accepted(o) /\ Full(a) /\ x = Worst(a)
            OBVIOUS
        <3>1. PICK f \in taken : Full(f.to) /\ x = Worst(f.to)
            BY <1>4
        <3>2. f.to = a
            BY <3>1, <1>5, <1>6
        <3>3. f = e
            BY <3>2, <1>2, <1>9
        <3> QED
            BY <3>1, <3>2, <3>3
    <2>6. Accepted(o) /\ Full(a) => Worst(a) \in U
        <3>1. ASSUME Accepted(o), Full(a) PROVE e \in taken
            BY <3>1
        <3> HIDE DEF U, taken
        <3> QED
            BY <3>1, <1>4, <1>9
    <2>7. AssetOf(o) = a
        BY <1>2, <1>9
    <2>8. \A x : x \in Of(a)' <=> AssetOf(x) = a /\ ((x \in found /\ x \notin U) \/ x \in kept)
        BY <1>1, <1>7
    <2>9. \A x : x \in Of(a) <=> x \in found /\ AssetOf(x) = a
        BY DEF Of
    <2> HIDE DEF U, kept, taken, o
    <2>10. CASE ~Accepted(o)
        <3>1. \A x : x \in Of(a)' <=> x \in Of(a)
            BY <2>10, <2>3, <2>4, <2>5, <2>8, <2>9
        <3> QED
            BY <2>10, <2>2, <3>1 DEF o
    <2>11. CASE Accepted(o) /\ Full(a)
        <3>1. \A x : x \in Of(a)' <=> x \in (Of(a) \ {Worst(a)}) \cup {o}
            BY <2>11, <2>3, <2>4, <2>5, <2>6, <2>7, <2>8, <2>9
        <3> QED
            BY <2>11, <2>2, <3>1 DEF o
    <2>12. CASE Accepted(o) /\ ~Full(a)
        <3>1. \A x : x \in Of(a)' <=> x \in Of(a) \cup {o}
            BY <2>12, <2>3, <2>4, <2>5, <2>7, <2>8, <2>9
        <3> QED
            BY <2>12, <2>2, <3>1 DEF o
    <2> QED
        BY <2>10, <2>11, <2>12
<1> QED
    BY <1>8, <1>9

LEMMA FollowKeepsRichest ==
    ASSUME SearchInv, Follow
    PROVE  /\ IsFiniteSet(seen') /\ seen' \subseteq Observable' /\ found' \subseteq seen'
           /\ RichestKept'
<1> DEFINE q == Head(queue)
           made == {Along(q, e) : e \in Offered(q)}
           f == [e \in Offered(q) |-> Along(q, e)]
<1>1. queue # <<>> /\ seen' = seen \cup made /\ market' = market
    BY DEF Follow
<1>2. /\ IsFiniteSet(Offered(q)) /\ q = Head(queue)
      /\ \A e \in Offered(q) : /\ Along(q, e) \in Observable /\ Along(q, e) \notin seen
                               /\ AssetOf(Along(q, e)) = e.to
    BY <1>1, OfferedFacts
<1>3. IsFiniteSet(seen')
    <2>1. made = {f[e] : e \in Offered(q)}
        OBVIOUS
    <2>2. IsFiniteSet({f[e] : e \in Offered(q)})
        <3> HIDE DEF f, q
        <3> QED
            BY <1>2, ImageIsFinite
    <2>3. IsFiniteSet(seen)
        BY DEF SearchInv
    <2> HIDE DEF made
    <2> QED
        BY <1>1, <2>1, <2>2, <2>3, FS_Union
<1>4. seen' \subseteq Observable'
    BY <1>1, <1>2, MarketStays DEF SearchInv
<1>5. found' \subseteq seen'
    <2>1. found' \subseteq found \cup made
        BY DEF Follow
    <2>2. found \subseteq seen
        BY DEF SearchInv
    <2> HIDE DEF made
    <2> QED
        BY <1>1, <2>1, <2>2
<1> HIDE DEF q
<1>6. ASSUME NEW a \in Assets PROVE Richest(Of(a)', Made(a)')
    <2>1. /\ IsFiniteSet(Made(a)) /\ Made(a) \subseteq EntryT /\ Of(a) \subseteq Made(a)
          /\ Richest(Of(a), Made(a))
          /\ Full(a) => Worst(a) \in Of(a) /\ \A k \in Of(a) : ~Better(Worst(a), k)
        BY MadeFacts
    <2>2. CASE \A e \in Offered(q) : e.to # a
        BY <1>2, <2>1, <2>2, KeptAfter
    <2>3. CASE \E e \in Offered(q) : e.to = a
        <3>1. PICK e \in Offered(q) : e.to = a
            BY <2>3
        <3> DEFINE o == Along(q, e)
        <3>2. /\ Made(a)' = Made(a) \cup {o}
              /\ Of(a)' = IF ~Accepted(o) THEN Of(a)
                          ELSE IF Full(a) THEN (Of(a) \ {Worst(a)}) \cup {o}
                          ELSE Of(a) \cup {o}
            BY <1>2, <3>1, KeptAfter
        <3>3. o \in EntryT /\ o \notin Made(a) /\ AssetOf(o) = a
            BY <1>2, <3>1, ObservedFacts DEF SearchInv, Made
        <3> HIDE DEF o
        <3>4. Accepted(o) <=> ~Full(a) \/ \E k \in Of(a) : Better(o, k)
            BY <3>3 DEF Accepted
        <3>5. Full(a) <=> Cardinality(Of(a)) = KEPT
            BY DEF Full
        <3>6. CASE ~Accepted(o)
            BY <2>1, <3>2, <3>3, <3>4, <3>5, <3>6, KeptAsIs
        <3>7. CASE Accepted(o) /\ ~Full(a)
            BY <2>1, <3>2, <3>3, <3>5, <3>7, KeptOneMore
        <3>8. CASE Accepted(o) /\ Full(a)
            <4>1. PICK k \in Of(a) : Better(o, k)
                BY <3>4, <3>8
            <4> QED
                BY <2>1, <3>2, <3>3, <3>5, <3>8, <4>1, KeptInstead
        <3> QED
            BY <3>6, <3>7, <3>8
    <2> QED
        BY <2>2, <2>3
<1>7. RichestKept'
    <2>1. \A a \in Assets : Made(a)' \ found' = Made(a)' \ Of(a)'
        BY DEF Made, Of
    <2> QED
        BY <1>6, <2>1 DEF RichestKept, Richest
<1> QED
    BY <1>3, <1>4, <1>5, <1>7

LEMMA FollowKeepsQueue ==
    ASSUME SearchInv, Follow
    PROVE  QueueKnown' /\ NotYet'
<1> DEFINE q == Head(queue)
<1>1. /\ queue # <<>> /\ seen' = seen \cup {Along(q, e) : e \in Offered(q)}
      /\ market' = market /\ q = Head(queue)
    BY DEF Follow
<1> DEFINE T == {e \in Offered(q) : Accepted(Along(q, e))}
<1>2. PICK s, new : /\ s \in Orders(T) /\ new \in [DOMAIN s -> EntryT]
                    /\ \A i \in DOMAIN s : new[i] = Along(q, s[i])
                    /\ queue' = Tail(queue) \o new
    BY TakenFacts
<1>3. T \subseteq Offered(q)
    OBVIOUS
<1> HIDE DEF q, T
<1>3a. QueueGrown(q, T, s)
    BY <1>1, <1>2, <1>3, QueueAfter
<1> DEFINE N == Len(queue) - 1
<1>4. /\ queue' \in Seq(EntryT) /\ Len(queue) \in Nat /\ Len(queue) >= 1
      /\ DOMAIN queue = 1 .. Len(queue) /\ Len(s) \in Nat /\ DOMAIN s = 1 .. Len(s)
      /\ DOMAIN queue' = 1 .. N + Len(s)
      /\ \A i \in 1 .. N : queue'[i] = queue[i + 1]
      /\ \A i \in DOMAIN s : s[i] \in T /\ queue'[N + i] = Along(q, s[i])
      /\ \A i, j \in DOMAIN s : s[i] = s[j] => i = j
    BY <1>3a DEF QueueGrown
<1>5. \A e \in Offered(q) :
          /\ \A i \in DOMAIN queue : queue[i].path # Along(q, e).path
          /\ \A i \in DOMAIN queue : i # 1 => ~Behind(queue[i], Along(q, e))
          /\ \A o \in seen : ~Behind(Along(q, e), o)
    BY <1>1, NewEntries
<1>6. /\ \A e \in Offered(q) : /\ AssetOf(Along(q, e)) = e.to
                               /\ Len(Along(q, e).path) = Len(q.path) + 1
      /\ \A e, f \in Offered(q) : e.to = f.to => e = f
      /\ Len(q.path) \in Nat
    BY <1>1, OfferedFacts
<1>7. \A i \in DOMAIN queue' :
          \/ i \in 1 .. N /\ i + 1 \in DOMAIN queue /\ i + 1 # 1 /\ queue'[i] = queue[i + 1]
          \/ i - N \in DOMAIN s /\ queue'[i] = Along(q, s[i - N]) /\ s[i - N] \in Offered(q)
    <2> SUFFICES ASSUME NEW i \in DOMAIN queue', ~(i <= N)
                 PROVE  i - N \in DOMAIN s /\ queue'[i] = Along(q, s[i - N]) /\ s[i - N] \in Offered(q)
        BY <1>4
    <2>1. i - N \in DOMAIN s /\ N + (i - N) = i
        BY <1>4
    <2> QED
        BY <2>1, <1>3, <1>4
<1> HIDE DEF N
<1>8. /\ \A i \in DOMAIN queue : Entered(queue[i])
      /\ \A i, j \in DOMAIN queue : queue[i].path = queue[j].path => i = j
      /\ \A i \in DOMAIN queue : \A o \in seen : ~Behind(queue[i], o)
    BY DEF SearchInv, QueueKnown, NotYet
<1>9. N \in Int /\ \A i \in DOMAIN queue' : i \in Int
    BY <1>4 DEF N
<1>10. ASSUME NEW i \in DOMAIN queue'
       PROVE  queue'[i] \in seen' \/ \E a \in Anchored' : queue'[i] = SeedEntry(a)'
    <2>1. Anchored' = Anchored /\ \A a : SeedEntry(a)' = SeedEntry(a)
        BY <1>1, MarketStays
    <2>2. CASE i + 1 \in DOMAIN queue /\ queue'[i] = queue[i + 1]
        <3>1. Entered(queue[i + 1])
            BY <2>2, <1>8
        <3>2. queue[i + 1] \in seen \/ \E a \in Anchored : queue[i + 1] = SeedEntry(a)
            BY <3>1 DEF Entered
        <3> QED
            BY <3>2, <2>1, <2>2, <1>1
    <2>3. CASE i - N \in DOMAIN s /\ queue'[i] = Along(q, s[i - N]) /\ s[i - N] \in Offered(q)
        BY <2>3, <1>1
    <2> QED
        BY <1>7, <2>2, <2>3
<1>11. ASSUME NEW i \in DOMAIN queue', NEW j \in DOMAIN queue', queue'[i].path = queue'[j].path
       PROVE  i = j
    <2>1. CASE i \in 1 .. N /\ i + 1 \in DOMAIN queue /\ queue'[i] = queue[i + 1]
        <3>1. j + 1 \in DOMAIN queue /\ queue'[j] = queue[j + 1]
            BY <2>1, <1>5, <1>7, <1>11
        <3>2. i + 1 = j + 1
            BY <2>1, <3>1, <1>8, <1>11
        <3> QED
            BY <3>2, <1>9
    <2>2. CASE i - N \in DOMAIN s /\ queue'[i] = Along(q, s[i - N]) /\ s[i - N] \in Offered(q)
        <3>1. j - N \in DOMAIN s /\ queue'[j] = Along(q, s[j - N]) /\ s[j - N] \in Offered(q)
            BY <2>2, <1>5, <1>7, <1>11
        <3>2. AssetOf(queue'[i]) = AssetOf(queue'[j])
            BY <1>11 DEF AssetOf
        <3>3. s[i - N] = s[j - N]
            BY <2>2, <3>1, <3>2, <1>6
        <3>4. i - N = j - N
            BY <2>2, <3>1, <3>3, <1>4
        <3> QED
            BY <3>4, <1>9
    <2> QED
        BY <2>1, <2>2, <1>7
<1>12. ASSUME NEW i \in DOMAIN queue', NEW o \in seen', Behind(queue'[i], o) PROVE FALSE
    <2>1. CASE o \in seen
        BY <2>1, <1>5, <1>7, <1>8, <1>12
    <2>2. CASE o \notin seen
        <3>1. PICK e \in Offered(q) : o = Along(q, e)
            BY <2>2, <1>1
        <3>2. CASE i + 1 \in DOMAIN queue /\ i + 1 # 1 /\ queue'[i] = queue[i + 1]
            BY <3>1, <3>2, <1>5, <1>12
        <3>3. CASE i - N \in DOMAIN s /\ queue'[i] = Along(q, s[i - N]) /\ s[i - N] \in Offered(q)
            BY <3>1, <3>3, <1>6, <1>12 DEF Behind
        <3> QED
            BY <3>2, <3>3, <1>7
    <2> QED
        BY <2>1, <2>2
<1>13. QueueKnown'
    BY <1>4, <1>10, <1>11 DEF QueueKnown, Entered
<1>14. NotYet'
    BY <1>12 DEF NotYet, Behind
<1> QED
    BY <1>13, <1>14

LEMMA DroppedStays ==
    ASSUME IsFiniteSet(seen'), seen \subseteq seen', Dropped' = {}
    PROVE  Dropped = {} /\ \A a \in Assets : Cardinality(Made(a)') <= KEPT
<1>1. ASSUME NEW a \in Assets PROVE Cardinality(Made(a)') <= KEPT /\ Cardinality(Made(a)) <= KEPT
    <2>1. Made(a)' \subseteq seen' /\ Made(a) \subseteq Made(a)'
        BY DEF Made
    <2>2. IsFiniteSet(Made(a)')
        BY <2>1, FS_Subset
    <2>3. /\ IsFiniteSet(Made(a)) /\ Cardinality(Made(a)) <= Cardinality(Made(a)')
          /\ Cardinality(Made(a)) \in Nat /\ Cardinality(Made(a)') \in Nat
        BY <2>1, <2>2, FS_Subset, FS_CardinalityType
    <2>4. ~(Cardinality(Made(a)') > KEPT)
        BY DEF Dropped
    <2> QED
        BY <2>3, <2>4, NumberFacts
<1>2. Dropped = {}
    <2>1. \A a \in Assets : Cardinality(Made(a)) \in Nat
        <3>1. \A a \in Assets : Made(a) \subseteq seen'
            BY DEF Made
        <3> QED
            BY <3>1, FS_Subset, FS_CardinalityType
    <2> QED
        BY <1>1, <2>1, NumberFacts DEF Dropped
<1> QED
    BY <1>1, <1>2

\* Where nothing is dropped, everything that is offered is taken.
LEMMA AllTaken ==
    ASSUME SearchInv, Follow, Dropped' = {}, NEW e \in Offered(Head(queue))
    PROVE  Accepted(Along(Head(queue), e))
<1> DEFINE q == Head(queue)
           o == Along(q, e)
<1>1. queue # <<>> /\ seen' = seen \cup {Along(q, x) : x \in Offered(q)}
    BY DEF Follow
<1>2. o \notin seen /\ o \in Observable /\ o \in seen'
    BY <1>1, OfferedFacts
<1>3. PICK a \in Assets : a = AssetOf(o)
    BY <1>2, ObservedFacts DEF SearchInv
<1>4. IsFiniteSet(seen') /\ seen \subseteq seen'
    BY <1>1, FollowKeepsRichest
<1>5. Cardinality(Made(a)') <= KEPT
    BY <1>3, <1>4, DroppedStays
<1> HIDE DEF o
<1>6. IsFiniteSet(Of(a)) /\ Of(a) \subseteq Made(a)
    BY <1>3, MadeFacts
<1>7. o \notin Of(a) /\ Of(a) \cup {o} \subseteq Made(a)' /\ Made(a)' \subseteq seen'
    BY <1>2, <1>3, <1>4, <1>6 DEF Made, Of
<1>8. /\ Cardinality(Of(a) \cup {o}) = Cardinality(Of(a)) + 1 /\ Cardinality(Of(a)) \in Nat
      /\ IsFiniteSet(Made(a)')
    BY <1>4, <1>6, <1>7, FS_AddElement, FS_CardinalityType, FS_Subset
<1>9. /\ Cardinality(Of(a) \cup {o}) <= Cardinality(Made(a)')
      /\ Cardinality(Made(a)') \in Nat
    BY <1>7, <1>8, FS_Subset, FS_CardinalityType
<1>10. ~Full(a)
    BY <1>5, <1>8, <1>9, NumberFacts DEF Full
<1> QED
    BY <1>3, <1>10 DEF Accepted, o

LEMMA FollowKeepsAhead ==
    ASSUME SearchInv, Follow
    PROVE  AllAhead'
<1> DEFINE q == Head(queue)
           T == {e \in Offered(q) : Accepted(Along(q, e))}
<1>1. /\ queue # <<>> /\ seen' = seen \cup {Along(q, e) : e \in Offered(q)}
      /\ market' = market /\ q = Head(queue) /\ market \in Markets
    BY DEF Follow, SearchInv
<1>2. PICK s, new : /\ s \in Orders(T) /\ new \in [DOMAIN s -> EntryT]
                    /\ \A i \in DOMAIN s : new[i] = Along(q, s[i])
                    /\ queue' = Tail(queue) \o new
    BY TakenFacts
<1>3. T \subseteq Offered(q) /\ (Dropped' = {} => T = Offered(q))
    BY AllTaken
<1> HIDE DEF q, T
<1>4. QueueGrown(q, T, s)
    BY <1>1, <1>2, <1>3, QueueAfter
<1>5. seen \subseteq seen' /\ IsFiniteSet(seen')
    BY <1>1, FollowKeepsRichest
<1>6. Observable' = Observable
    BY <1>1, MarketStays
<1> SUFFICES ASSUME Dropped' = {}, NEW o \in Observable, o \notin seen'
             PROVE  \E i \in DOMAIN queue' : Behind(queue'[i], o)
    BY <1>6 DEF AllAhead, Behind
<1>7. PICK i \in DOMAIN queue : Behind(queue[i], o)
    BY <1>5, DroppedStays DEF SearchInv, AllAhead
<1>8. CASE i = 1
    <2> DEFINE n == Len(q.path)
    <2>1. /\ q = queue[1] /\ Real(q) /\ n \in Nat /\ n >= 1
          /\ \A e \in Offered(q) : /\ Along(q, e).path = Append(q.path, e.to)
                                   /\ Len(Along(q, e).path) = n + 1
        BY <1>1, OfferedFacts
    <2>2. Real(o) /\ Len(o.path) \in Nat
        BY <1>1, ObservedFacts
    <2>3. n < Len(o.path) /\ Cut(o.path, n) = q.path
        BY <1>7, <1>8, <2>1 DEF Behind
    <2>4. AtEnd(Cut(o.path, n)) = q
        BY <2>1, <2>3 DEF Real
    <2>5. n \in 1 .. Len(o.path) - 1 /\ n + 1 \in 1 .. Len(o.path)
        BY <2>1, <2>2, <2>3
    <2>6. PICK e \in Offered(q) : AtEnd(Cut(o.path, n + 1)) = Along(q, e)
        BY <1>1, <2>4, <2>5, OnTheWay
    <2>7. Along(q, e).path = Cut(o.path, n + 1)
        <3>1. Linked(Cut(o.path, n + 1))
            BY <2>2, <2>5, CutIsLinked DEF Real, Simple
        <3> QED
            BY <1>1, <2>6, <3>1, AtEndIs
    <2>8. n + 1 # Len(o.path)
        <3> SUFFICES ASSUME n + 1 = Len(o.path) PROVE FALSE
            OBVIOUS
        <3>1. o.path \in Seq(Assets)
            BY <2>2 DEF Real, Simple, Linked
        <3>2. Cut(o.path, n + 1) = o.path
            BY <2>5, <3>1, CutFacts
        <3>3. Along(q, e) = o
            BY <2>2, <2>6, <3>2 DEF Real
        <3> QED
            BY <1>1, <3>3
    <2>9. Behind(Along(q, e), o)
        BY <2>1, <2>2, <2>3, <2>7, <2>8 DEF Behind
    <2>10. PICK j \in DOMAIN s : s[j] = e
        BY <1>3, <1>4 DEF QueueGrown
    <2>11. /\ queue'[Len(queue) - 1 + j] = Along(q, e)
           /\ Len(queue) - 1 + j \in DOMAIN queue'
        BY <1>4, <2>10 DEF QueueGrown
    <2> QED
        BY <2>9, <2>11
<1>9. CASE i # 1
    <2>1. i - 1 \in 1 .. Len(queue) - 1 /\ i - 1 \in DOMAIN queue' /\ (i - 1) + 1 = i
        BY <1>4, <1>9 DEF QueueGrown
    <2>2. queue'[i - 1] = queue[i]
        BY <1>4, <2>1 DEF QueueGrown
    <2> QED
        BY <1>7, <2>1, <2>2
<1> QED
    BY <1>8, <1>9

\* Every step keeps it.
LEMMA SearchStays ==
    ASSUME SearchInv, UNCHANGED <<market, queue, found, seen>>,
           resolved' # Unresolved => queue' = <<>> /\ resolved' = Resolution'
    PROVE  SearchInv'
<1>1. Observable' = Observable /\ Anchored' = Anchored /\ \A a : SeedEntry(a)' = SeedEntry(a)
    BY MarketStays
<1>2. \A a : Made(a)' = Made(a) /\ Of(a)' = Of(a)
    BY DEF Made, Of
<1>3. Dropped' = Dropped
    BY <1>2 DEF Dropped
<1>4. QueueKnown'
    <2>1. QueueKnown
        BY DEF SearchInv
    <2> QED
        BY <1>1, <2>1 DEF QueueKnown, Entered
<1>5. NotYet' /\ AllAhead'
    <2>1. NotYet /\ AllAhead
        BY DEF SearchInv
    <2> QED
        BY <1>1, <1>3, <2>1 DEF NotYet, AllAhead, Behind
<1>6. RichestKept'
    <2>1. RichestKept
        BY DEF SearchInv
    <2> QED
        BY <1>2, <2>1 DEF RichestKept
<1> QED
    BY <1>1, <1>4, <1>5, <1>6 DEF SearchInv

LEMMA SearchStep == SearchInv /\ [BlockNext]_<<graphVars, volumeVars>> => SearchInv'
<1> SUFFICES ASSUME SearchInv, [BlockNext]_<<graphVars, volumeVars>> PROVE SearchInv'
    OBVIOUS
<1>1. CASE Follow
    <2>1. market' = market /\ resolved' = resolved /\ queue # <<>>
        BY <1>1 DEF Follow
    <2>2. resolved' = Unresolved
        BY <2>1 DEF SearchInv
    <2> QED
        BY <1>1, <2>1, <2>2, FollowKeepsRichest, FollowKeepsQueue, FollowKeepsAhead DEF SearchInv
<1>2. CASE ResolvePrices
    <2>1. UNCHANGED <<market, queue, found, seen>> /\ queue = <<>> /\ resolved' = Resolution
        BY <1>2 DEF ResolvePrices
    <2>2. Resolution' = Resolution
        BY <2>1 DEF Resolution, Anchored, Of, Edges, Usable
    <2> QED
        BY <2>1, <2>2, SearchStays
<1>3. CASE UNCHANGED graphVars
    <2>1. UNCHANGED <<market, queue, found, seen>> /\ resolved' = resolved
        BY <1>3 DEF graphVars
    <2>2. Resolution' = Resolution
        BY <2>1 DEF Resolution, Anchored, Of, Edges, Usable
    <2>3. resolved' # Unresolved => queue' = <<>> /\ resolved' = Resolution'
        BY <2>1, <2>2 DEF SearchInv
    <2> QED
        BY <2>1, <2>3, SearchStays
<1> QED
    BY <1>1, <1>2, <1>3 DEF BlockNext, GraphNext, MakeRows, graphVars

----------------------------------------------------------------------------
(* What the search found, once it is over. *)

LEMMA OnesOfAsset ==
    ASSUME SearchInv, NEW a \in Assets
    PROVE  /\ Of(a) # {} <=> Made(a) # {}
           /\ a \notin Dropped => Of(a) = Made(a)
<1>1. /\ IsFiniteSet(Made(a)) /\ Of(a) \subseteq Made(a) /\ IsFiniteSet(Of(a))
      /\ Richest(Of(a), Made(a))
    BY MadeFacts
<1>2. /\ Cardinality(Made(a)) \in Nat /\ Cardinality(Of(a)) \in Nat
      /\ Cardinality(Of(a)) = Cardinality(Made(a)) => Of(a) = Made(a)
      /\ Cardinality(Of(a)) <= Cardinality(Made(a))
    BY <1>1, FS_Subset, FS_CardinalityType
<1>3. Made(a) # Of(a) => Cardinality(Of(a)) = KEPT /\ KEPT \in Nat \ {0}
    BY <1>1, NumberFacts DEF Richest
<1>4. Made(a) # Of(a) => Of(a) # {}
    BY <1>3, FS_EmptySet
<1>5. Made(a) # Of(a) => a \in Dropped
    BY <1>2, <1>3 DEF Dropped
<1> QED
    BY <1>1, <1>4, <1>5

LEMMA ReachedIs ==
    ASSUME SearchInv
    PROVE  /\ {AssetOf(o) : o \in found} = {AssetOf(o) : o \in seen}
           /\ {AssetOf(o) : o \in seen} \subseteq Assets \ Anchored
<1>1. \A o \in seen : AssetOf(o) \in Assets \ Anchored
    BY ObservedFacts DEF SearchInv
<1>2. ASSUME NEW o \in seen PROVE \E k \in found : AssetOf(k) = AssetOf(o)
    <2>1. AssetOf(o) \in Assets /\ Made(AssetOf(o)) # {}
        BY <1>1 DEF Made
    <2>2. Of(AssetOf(o)) # {}
        BY <2>1, OnesOfAsset
    <2> QED
        BY <2>2 DEF Of
<1>3. found \subseteq seen
    BY DEF SearchInv
<1> QED
    BY <1>1, <1>2, <1>3

\* What an asset costs.
PriceOf(a) ==
    IF a \in Anchored THEN market.seeds[a] ELSE Price24To12(WeightedMedian(Of(a)).price)

LEMMA ResolutionIs ==
    ASSUME SearchInv, resolved # Unresolved
    PROVE  /\ DOMAIN resolved.prices = Published \cap (Anchored \cup {AssetOf(o) : o \in seen})
           /\ DOMAIN resolved.prices \subseteq Assets
           /\ \A a \in DOMAIN resolved.prices :
                  /\ resolved.prices[a].price = PriceOf(a)
                  /\ a \notin Anchored => Of(a) # {}
<1> DEFINE reached == {AssetOf(o) : o \in found}
           selected == [a \in reached |-> WeightedMedian(Of(a))]
           all == [a \in Anchored \cup reached |->
                     IF a \in Anchored THEN [price |-> market.seeds[a], hops |-> 0]
                     ELSE [price |-> Price24To12(selected[a].price), hops |-> Hops(selected[a])]]
           prices == [a \in DOMAIN all \cap Published |-> all[a]]
           unpriced == (Published \cap {e.from : e \in Edges}) \ DOMAIN all
<1>1. resolved.prices = prices
    <2>1. Resolution = [prices |-> prices, unpriced |-> unpriced]
        BY DEF Resolution
    <2>2. resolved = Resolution
        BY DEF SearchInv
    <2> HIDE DEF prices, unpriced
    <2> QED
        BY <2>1, <2>2
<1>2. DOMAIN prices = Published \cap (Anchored \cup reached)
    OBVIOUS
<1>3. \A a \in DOMAIN prices : prices[a].price = PriceOf(a)
    BY DEF PriceOf
<1>4. \A a \in DOMAIN prices : a \notin Anchored => Of(a) # {}
    BY DEF Of
<1>5. reached = {AssetOf(o) : o \in seen} /\ reached \subseteq Assets /\ Anchored \subseteq Assets
    BY ReachedIs, MarketFacts DEF SearchInv
<1> HIDE DEF reached, prices
<1> QED
    BY <1>1, <1>2, <1>3, <1>4, <1>5

LEMMA PricesAreNumbers ==
    ASSUME SearchInv, resolved # Unresolved, NEW a \in DOMAIN resolved.prices
    PROVE  resolved.prices[a].price \in Nat
<1>1. /\ resolved.prices[a].price = PriceOf(a) /\ a \in Assets
      /\ a \notin Anchored => Of(a) # {}
    BY ResolutionIs
<1>2. CASE a \in Anchored
    BY <1>1, <1>2, MarketFacts DEF PriceOf, SearchInv
<1>3. CASE a \notin Anchored
    <2>1. Of(a) \subseteq EntryT /\ IsFiniteSet(Of(a)) /\ Of(a) # {}
        BY <1>1, <1>3, MadeFacts
    <2>2. WeightedMedian(Of(a)) \in EntryT
        BY <2>1, MedianExists
    <2>3. WeightedMedian(Of(a)).price \in Nat
        BY <2>2 DEF EntryT
    <2> DEFINE p == WeightedMedian(Of(a)).price
    <2> HIDE DEF p
    <2>4. \A x \in Nat : x \div TRUNC \in Nat
        BY NumberFacts
    <2> QED
        BY <1>1, <1>3, <2>3, <2>4 DEF PriceOf, Price24To12, p
<1> QED
    BY <1>2, <1>3

\* The prices that come out of it.
LEMMA SearchIsSound == SearchInv => GraphSound
<1> SUFFICES ASSUME SearchInv PROVE GraphSound
    OBVIOUS
<1>1. GraphTypeOK
    <2>1. /\ market \in Markets /\ found \subseteq seen /\ seen \subseteq Observable
          /\ \A i \in DOMAIN queue : Entered(queue[i])
        BY DEF SearchInv, QueueKnown
    <2>2. \A o \in seen : AssetOf(o) \in Assets \ Anchored /\ Hops(o) \in 1 .. MAX_HOPS
        BY <2>1, ObservedFacts
    <2>3. \A i \in DOMAIN queue : Hops(queue[i]) \in 0 .. MAX_HOPS
        BY <2>1, EnteredFacts, NumberFacts DEF Hops
    <2> QED
        BY <2>1, <2>2, <2>3 DEF GraphTypeOK
<1>2. RichestKept
    BY DEF SearchInv
<1>3. ASSUME resolved # Unresolved PROVE Dropped = {} => seen = Observable
    <2>1. queue = <<>> /\ AllAhead /\ seen \subseteq Observable
        BY <1>3 DEF SearchInv
    <2>2. DOMAIN queue = {}
        BY <2>1
    <2> QED
        BY <2>1, <2>2 DEF AllAhead
<1>4. ASSUME resolved # Unresolved PROVE NoneLost
    BY <1>3, <1>4, ResolutionIs DEF NoneLost
<1>5. ASSUME resolved # Unresolved, Dropped = {} PROVE PricesExact
    <2> SUFFICES ASSUME NEW a \in DOMAIN resolved.prices
                 PROVE  resolved.prices[a].price =
                            IF a \in Anchored THEN market.seeds[a]
                            ELSE Price24To12(MedianPrice({o \in Observable : AssetOf(o) = a}))
        BY DEF PricesExact
    <2>1. /\ resolved.prices[a].price = PriceOf(a) /\ a \in Assets
          /\ a \notin Anchored => Of(a) # {}
        BY <1>5, ResolutionIs
    <2>2. CASE a \in Anchored
        BY <2>1, <2>2 DEF PriceOf
    <2>3. CASE a \notin Anchored
        <3>1. Of(a) = {o \in Observable : AssetOf(o) = a}
            BY <1>3, <1>5, <2>1, OnesOfAsset DEF Made
        <3>2. Of(a) \subseteq EntryT /\ IsFiniteSet(Of(a)) /\ Of(a) # {}
            BY <2>1, <2>3, MadeFacts
        <3>3. WeightedMedian(Of(a)).price = MedianPrice(Of(a))
            BY <3>2, MedianIsPrice
        <3> QED
            BY <2>1, <2>3, <3>1, <3>3 DEF PriceOf
    <2> QED
        BY <2>2, <2>3
<1> QED
    BY <1>1, <1>2, <1>4, <1>5 DEF GraphSound

----------------------------------------------------------------------------
(* One trade for every fill that a codec knows. *)

TradeOf(f) == [who |-> f.who, in |-> f.in, paid |-> f.paid, out |-> f.out, got |-> f.got]
NameIn(era) ==
    IF Since(era, "v124") THEN (IF Since(era, "v128") THEN "Swapped3" ELSE "Swapped")
    ELSE "Executed"
Counted(i) == [at |-> <<i, NameIn(content.era)>>, trade |-> TradeOf(Fill(i))]

LEMMA InvertedIs ==
    ASSUME NEW e, NEW in, NEW paid, NEW out, NEW got
    PROVE  Inverted(Trade(e, in, paid, out, got)) = Trade(e, in, got, out, paid)
    BY DEF Inverted, Trade

\* Whatever the shape of its event, what is read of a fill is what was paid and got.
LEMMA BroadcastIsRead ==
    ASSUME NEW f \in Fills, NEW era, ~f.garbled
    PROVE  /\ BroadcastEvent(f, era).shape = "lists"
           /\ DecodeTradeEvent(BroadcastEvent(f, era)) = TradeOf(f)
<1> DEFINE e == BroadcastEvent(f, era)
           name == IF Since(era, "v128") THEN "Swapped3" ELSE "Swapped"
           amounts == IF f.fixed = "buy" THEN <<f.got, f.paid>> ELSE <<f.paid, f.got>>
<1>1. e = [name |-> name, pallet |-> f.pallet, kind |-> f.fixed, who |-> f.who,
           shape |-> "lists", assets |-> <<f.in, f.out>>, amounts |-> amounts]
    BY DEF BroadcastEvent
<1> HIDE DEF e, name
<1>2. e.shape = "lists" /\ e.kind = f.fixed /\ e.who = f.who /\ e.assets = <<f.in, f.out>> /\ e.amounts = amounts
    BY <1>1
<1> SUFFICES DecodeTradeEvent(e) = TradeOf(f)
    BY <1>2 DEF e
<1>3. DecodeTradeEvent(e) = CorrectedBroadcastTrade(e)
    BY <1>2 DEF DecodeTradeEvent
<1>4. CASE f.fixed = "buy"
    <2>1. DecodeTradeEvent(e) = Inverted(Trade(e, f.in, f.got, f.out, f.paid))
        BY <1>2, <1>3, <1>4 DEF CorrectedBroadcastTrade
    <2> QED
        BY <2>1, <1>2, InvertedIs DEF Trade, TradeOf
<1>5. CASE f.fixed # "buy"
    BY <1>2, <1>3, <1>5 DEF CorrectedBroadcastTrade, Inverted, Trade, TradeOf
<1> QED
    BY <1>4, <1>5

LEMMA LegacyIsRead ==
    ASSUME NEW f \in Fills, NEW era, ~f.garbled
    PROVE  /\ LegacyEvent(f, era).shape \in {"struct", "tuple"}
           /\ DecodeTradeEvent(LegacyEvent(f, era)) = TradeOf(f)
<1> DEFINE e == LegacyEvent(f, era)
           right == IF f.fixed = "sell" THEN <<f.paid, f.got>> ELSE <<f.got, f.paid>>
           wrong == f.pallet = "LBP" /\ f.fixed = "buy"
           shape == IF Since(era, "v55") THEN "struct" ELSE "tuple"
           assets == IF Since(era, "v55") \/ f.fixed = "sell" THEN <<f.in, f.out>> ELSE <<f.out, f.in>>
           amounts == IF wrong THEN <<right[2], right[1]>> ELSE right
<1>1. e = [name |-> "Executed", pallet |-> f.pallet, kind |-> f.fixed, who |-> f.who,
           shape |-> shape, assets |-> assets, amounts |-> amounts]
    BY DEF LegacyEvent
<1>2. f.fixed \in {"sell", "buy"}
    BY DEF Fills
<1> HIDE DEF e
<1>3. /\ e.shape = shape /\ e.kind = f.fixed /\ e.who = f.who /\ e.pallet = f.pallet
      /\ e.assets = assets /\ e.amounts = amounts
    BY <1>1
<1> SUFFICES DecodeTradeEvent(e) = TradeOf(f)
    BY <1>3 DEF e
<1>4. e.shape # "lists" /\ DecodeTradeEvent(e) = DecodeSwapEvent(e)
    BY <1>3 DEF DecodeTradeEvent
<1>5. CASE f.fixed = "sell"
    <2>1. e.amounts = <<f.paid, f.got>> /\ e.assets = <<f.in, f.out>>
        BY <1>3, <1>5
    <2> QED
        BY <2>1, <1>3, <1>4, <1>5 DEF DecodeSwapEvent, FieldsFromStruct, FieldsFromTuple, Trade, TradeOf
<1>6. CASE f.fixed = "buy" /\ Since(era, "v55")
    <2>1. e.assets = <<f.in, f.out>> /\ e.shape = "struct"
        BY <1>3, <1>6
    <2>2. CASE f.pallet = "LBP"
        <3>1. e.amounts = <<f.paid, f.got>>
            BY <1>3, <1>6, <2>2
        <3>2. DecodeTradeEvent(e) = Inverted(Trade(e, f.in, f.got, f.out, f.paid))
            BY <3>1, <2>1, <2>2, <1>3, <1>4, <1>6 DEF DecodeSwapEvent, FieldsFromStruct
        <3> QED
            BY <3>2, <1>3, InvertedIs DEF Trade, TradeOf
    <2>3. CASE f.pallet # "LBP"
        <3>1. e.amounts = <<f.got, f.paid>>
            BY <1>3, <1>6, <2>3
        <3> QED
            BY <3>1, <2>1, <2>3, <1>3, <1>4, <1>6 DEF DecodeSwapEvent, FieldsFromStruct, Trade, TradeOf
    <2> QED
        BY <2>2, <2>3
<1>7. CASE f.fixed = "buy" /\ ~Since(era, "v55")
    <2>1. e.assets = <<f.out, f.in>> /\ e.shape = "tuple"
        BY <1>3, <1>7
    <2>2. CASE f.pallet = "LBP"
        <3>1. e.amounts = <<f.paid, f.got>>
            BY <1>3, <1>7, <2>2
        <3>2. DecodeTradeEvent(e) = Inverted(Trade(e, f.in, f.got, f.out, f.paid))
            BY <3>1, <2>1, <2>2, <1>3, <1>4, <1>7 DEF DecodeSwapEvent, FieldsFromTuple
        <3> QED
            BY <3>2, <1>3, InvertedIs DEF Trade, TradeOf
    <2>3. CASE f.pallet # "LBP"
        <3>1. e.amounts = <<f.got, f.paid>>
            BY <1>3, <1>7, <2>3
        <3> QED
            BY <3>1, <2>1, <2>3, <1>3, <1>4, <1>7 DEF DecodeSwapEvent, FieldsFromTuple, Trade, TradeOf
    <2> QED
        BY <2>2, <2>3
<1> QED
    BY <1>2, <1>5, <1>6, <1>7

\* The events that count of one fill, and which of them a codec knows.
LEMMA EventsAre ==
    ASSUME NEW f, NEW era
    PROVE  /\ LegacyEvent(f, era).name = "Executed"
           /\ BroadcastEvent(f, era).name = IF Since(era, "v128") THEN "Swapped3" ELSE "Swapped"
           /\ Marker(f, era).name = "IntentionResolvedAMMTrade"
           /\ f.garbled => LegacyEvent(f, era).shape = "?" /\ BroadcastEvent(f, era).shape = "?"
<1>1. LegacyEvent(f, era).name = "Executed"
    BY DEF LegacyEvent
<1>2. BroadcastEvent(f, era).name = IF Since(era, "v128") THEN "Swapped3" ELSE "Swapped"
    BY DEF BroadcastEvent
<1>3. Marker(f, era).name = "IntentionResolvedAMMTrade"
    BY DEF Marker, LegacyEvent
<1>4. ASSUME f.garbled PROVE LegacyEvent(f, era).shape = "?" /\ BroadcastEvent(f, era).shape = "?"
    BY <1>4 DEF LegacyEvent, BroadcastEvent
<1> QED
    BY <1>1, <1>2, <1>3, <1>4

LEMMA OneTrade ==
    ASSUME content \in Contents, NEW i \in DOMAIN content.fills
    PROVE  TradesOf(content, i) = IF i \in Known THEN {Counted(i)} ELSE {}
<1> DEFINE f == Fill(i)
           era == content.era
           counts == {x \in EventsOf(f, era) : IsSwapEvent(x, era) /\ x.shape # "?"}
<1>1. f \in Fills
    <2>1. content.fills \in Seq(Fills)
        BY BlockVolumesAssumption
    <2> QED
        BY <2>1, ElementOfSeq DEF Fill
<1>2. i \in Known <=> ~f.garbled
    BY DEF Known, Fill
<1>3. TradesOf(content, i) = {[at |-> <<i, e.name>>, trade |-> DecodeTradeEvent(e)] : e \in counts}
    BY DEF TradesOf, Fill
<1> HIDE DEF f, era
<1>4. /\ LegacyEvent(f, era).name = "Executed"
      /\ BroadcastEvent(f, era).name = IF Since(era, "v128") THEN "Swapped3" ELSE "Swapped"
      /\ Marker(f, era).name = "IntentionResolvedAMMTrade"
      /\ f.garbled => LegacyEvent(f, era).shape = "?" /\ BroadcastEvent(f, era).shape = "?"
    BY EventsAre
<1>5. CASE f.garbled
    <2>1. counts = {}
        BY <1>4, <1>5 DEF EventsOf, IsSwapEvent
    <2> HIDE DEF counts
    <2> QED
        BY <1>2, <1>3, <1>5, <2>1
<1>6. CASE ~f.garbled /\ Since(era, "v124")
    <2>1. counts = {BroadcastEvent(f, era)}
        <3>1. BroadcastEvent(f, era).shape # "?"
            BY <1>1, <1>6, BroadcastIsRead
        <3> QED
            BY <1>4, <1>6, <3>1 DEF EventsOf, IsSwapEvent
    <2>2. DecodeTradeEvent(BroadcastEvent(f, era)) = TradeOf(f)
        BY <1>1, <1>6, BroadcastIsRead
    <2>3. Counted(i) = [at |-> <<i, BroadcastEvent(f, era).name>>, trade |-> TradeOf(f)]
        BY <1>4, <1>6 DEF Counted, NameIn, f, era
    <2> HIDE DEF counts
    <2> QED
        BY <1>2, <1>3, <1>6, <2>1, <2>2, <2>3
<1>7. CASE ~f.garbled /\ ~Since(era, "v124")
    <2>1. counts = {LegacyEvent(f, era)}
        <3>1. LegacyEvent(f, era).shape # "?"
            BY <1>1, <1>7, LegacyIsRead
        <3> QED
            BY <1>4, <1>7, <3>1 DEF EventsOf, IsSwapEvent
    <2>2. DecodeTradeEvent(LegacyEvent(f, era)) = TradeOf(f)
        BY <1>1, <1>7, LegacyIsRead
    <2>3. Counted(i) = [at |-> <<i, LegacyEvent(f, era).name>>, trade |-> TradeOf(f)]
        BY <1>4, <1>7 DEF Counted, NameIn, f, era
    <2> HIDE DEF counts
    <2> QED
        BY <1>2, <1>3, <1>7, <2>1, <2>2, <2>3
<1> QED
    BY <1>5, <1>6, <1>7

\* The trades of a block are its fills under other names.
LEMMA TradesAre ==
    ASSUME content \in Contents
    PROVE  /\ IsFiniteSet(Known)
           /\ \A i \in Known : /\ Fill(i) \in Fills /\ Fill(i).in # Fill(i).out
                               /\ Counted(i).trade = TradeOf(Fill(i))
           /\ \A i, j \in Known : Counted(i) = Counted(j) => i = j
           /\ Trades(content) = {Counted(i) : i \in Known}
<1>1. /\ content.fills \in Seq(Fills)
      /\ \A i \in DOMAIN content.fills : content.fills[i].in # content.fills[i].out
    BY BlockVolumesAssumption
<1>2. \A i \in DOMAIN content.fills : Fill(i) \in Fills
    BY <1>1, ElementOfSeq DEF Fill
<1>3. IsFiniteSet(Known)
    <2>1. DOMAIN content.fills = 1 .. Len(content.fills) /\ Len(content.fills) \in Nat
        BY <1>1, LenProperties
    <2>2. IsFiniteSet(1 .. Len(content.fills))
        BY <2>1, FS_Interval
    <2>3. Known \subseteq 1 .. Len(content.fills)
        BY <2>1 DEF Known
    <2> QED
        BY <2>2, <2>3, FS_Subset
<1>4. Known \subseteq DOMAIN content.fills
    BY DEF Known
<1>5. \A i, j \in Known : Counted(i) = Counted(j) => i = j
    <2> SUFFICES ASSUME NEW i \in Known, NEW j \in Known, Counted(i) = Counted(j) PROVE i = j
        OBVIOUS
    <2>1. Counted(i).at = <<i, NameIn(content.era)>> /\ Counted(j).at = <<j, NameIn(content.era)>>
        BY DEF Counted
    <2>2. Counted(i).at[1] = i /\ Counted(j).at[1] = j
        BY <2>1
    <2> QED
        BY <2>2
<1>6. Trades(content) = {Counted(i) : i \in Known}
    <2>1. Trades(content) = UNION {TradesOf(content, i) : i \in DOMAIN content.fills}
        BY DEF Trades
    <2>2. \A i \in DOMAIN content.fills : TradesOf(content, i) = IF i \in Known THEN {Counted(i)} ELSE {}
        BY OneTrade
    <2> QED
        BY <2>1, <2>2, <1>4
<1>7. \A i \in Known : Counted(i).trade = TradeOf(Fill(i))
    BY DEF Counted
<1> QED
    BY <1>1, <1>2, <1>3, <1>4, <1>5, <1>6, <1>7 DEF Fill

----------------------------------------------------------------------------
(* The sums of the legs. *)

LEMMA FieldSum ==
    ASSUME content \in Contents, NEW K, K \subseteq Known, NEW T, T \subseteq K, NEW field, NEW h,
           NEW a, NEW p, NEW d,
           \A i \in K : Leg(TradeOf(Fill(i)), a, p, d)[field] = IF i \in T THEN h[i] ELSE 0,
           \A i \in T : h[i] \in Int
    PROVE  SumVolumeField(field, {Counted(i) : i \in K}, a, p, d) = SumOver(h, T)
<1> DEFINE R == {Counted(i) : i \in K}
           m == [i \in K |-> Counted(i)]
           f == [x \in R |-> Leg(x.trade, a, p, d)[field]]
           g == [i \in K |-> Leg(TradeOf(Fill(i)), a, p, d)[field]]
<1>1. /\ IsFiniteSet(K) /\ \A i \in K : Counted(i).trade = TradeOf(Fill(i))
      /\ \A i, j \in K : Counted(i) = Counted(j) => i = j
    BY TradesAre, FS_Subset
<1>2. IsCopy(K, m, R)
    BY <1>1 DEF IsCopy
<1>3. \A i \in K : g[i] = IF i \in T THEN h[i] ELSE 0
    OBVIOUS
<1>4. \A i \in K : g[i] \in Int
    BY <1>3
<1>5. Agrees(K, m, f, g)
    <2>1. \A i \in K : m[i] = Counted(i) /\ Counted(i) \in R
        OBVIOUS
    <2>2. \A i \in K : f[m[i]] = g[i]
        BY <1>1, <2>1
    <2> HIDE DEF f, m, g
    <2> QED
        BY <2>2, <1>4 DEF Agrees
<1>6. SumVolumeField(field, R, a, p, d) = SumOver(f, R)
    BY DEF SumVolumeField
<1> HIDE DEF f, m, g, R
<1>7. SumOver(f, R) = SumOver(g, K)
    BY <1>1, <1>2, <1>5, SumRenamedTo
<1>8. SumOver(g, K) = SumOver(g, T)
    BY <1>1, <1>3, <1>4, SumWhere
<1>9. SumOver(g, T) = SumOver(h, T)
    <2>1. IsFiniteSet(T) /\ \A i \in T : g[i] = h[i] /\ g[i] \in Int
        BY <1>1, <1>3, <1>4, FS_Subset
    <2> QED
        BY <2>1, SumSame
<1> QED
    BY <1>6, <1>7, <1>8, <1>9 DEF R

\* What is sold of an asset is worth so much.
Worth(x, a) == CalculateUsdVolume(x, a, resolved.prices, market.decimals)

LEMMA WorthIs ==
    ASSUME SearchInv, resolved # Unresolved, NEW a, NEW x \in Nat
    PROVE  /\ Worth(x, a) \in Nat
           /\ a \in DOMAIN resolved.prices /\ a \in DOMAIN market.decimals =>
                  /\ Scale(market.decimals[a]) \in Nat \ {0}
                  /\ Worth(x, a) = (x * resolved.prices[a].price) \div Scale(market.decimals[a])
<1>1. CASE a \in DOMAIN resolved.prices /\ a \in DOMAIN market.decimals
    <2> DEFINE s == Scale(market.decimals[a])
               p == resolved.prices[a].price
    <2>1. s \in Nat \ {0}
        BY <1>1, PowersAssumption DEF SearchInv
    <2>2. p \in Nat
        BY <1>1, PricesAreNumbers
    <2>3. Worth(x, a) = (x * p) \div s
        BY <1>1 DEF Worth, CalculateUsdVolume
    <2> HIDE DEF s, p
    <2>4. x * p \in Nat
        BY <2>2
    <2>5. \A y \in Nat : y \div s \in Nat
        BY <2>1
    <2>6. (x * p) \div s \in Nat
        BY <2>4, <2>5
    <2> QED
        BY <2>1, <2>3, <2>6 DEF s, p
<1>2. CASE ~(a \in DOMAIN resolved.prices /\ a \in DOMAIN market.decimals)
    <2>1. Worth(x, a) = 0
        BY <1>2 DEF Worth, CalculateUsdVolume
    <2> QED
        BY <1>2, <2>1
<1> QED
    BY <1>1, <1>2

Into(K, a) == {i \in K : Fill(i).in = a}
OutOf(K, a) == {i \in K : Fill(i).out = a}
Paid == [i \in Known |-> Fill(i).paid]
Got == [i \in Known |-> Fill(i).got]
PaidWorth(a) == [i \in Known |-> Worth(Fill(i).paid, a)]
GotWorth(a) == [i \in Known |-> Worth(Fill(i).got, a)]

LEMMA AmountsAre ==
    ASSUME SearchInv, resolved # Unresolved, content \in Contents, NEW a
    PROVE  \A i \in Known : /\ Paid[i] = Fill(i).paid /\ Got[i] = Fill(i).got
                            /\ PaidWorth(a)[i] = Worth(Fill(i).paid, a)
                            /\ GotWorth(a)[i] = Worth(Fill(i).got, a)
                            /\ Paid[i] \in Nat /\ Got[i] \in Nat
                            /\ PaidWorth(a)[i] \in Nat /\ GotWorth(a)[i] \in Nat
<1>1. \A i \in Known : Fill(i) \in Fills
    BY TradesAre
<1>2. \A i \in Known : Fill(i).paid \in Nat /\ Fill(i).got \in Nat
    BY <1>1 DEF Fills
<1>3. \A i \in Known : Worth(Fill(i).paid, a) \in Nat /\ Worth(Fill(i).got, a) \in Nat
    BY <1>2, WorthIs
<1> QED
    BY <1>2, <1>3 DEF Paid, Got, PaidWorth, GotWorth

\* The row of an asset over some of the fills.
LEMMA RowIs ==
    ASSUME SearchInv, resolved # Unresolved, content \in Contents, NEW a, NEW K, K \subseteq Known
    PROVE  LET row == AggregateVolumeRows({Counted(i) : i \in K}, a, resolved.prices, market.decimals)
           IN  /\ row.sell = SumOver(Paid, Into(K, a))
               /\ row.buy = SumOver(Got, OutOf(K, a))
               /\ row.usdSell = SumOver(PaidWorth(a), Into(K, a))
               /\ row.usdBuy = SumOver(GotWorth(a), OutOf(K, a))
<1> DEFINE p == resolved.prices
           d == market.decimals
           R == {Counted(i) : i \in K}
           L(i) == Leg(TradeOf(Fill(i)), a, p, d)
           row == AggregateVolumeRows(R, a, p, d)
<1>1. \A i \in K : /\ Paid[i] = Fill(i).paid /\ Got[i] = Fill(i).got
                   /\ PaidWorth(a)[i] = Worth(Fill(i).paid, a)
                   /\ GotWorth(a)[i] = Worth(Fill(i).got, a)
                   /\ Paid[i] \in Int /\ Got[i] \in Int
                   /\ PaidWorth(a)[i] \in Int /\ GotWorth(a)[i] \in Int
    BY AmountsAre
<1>2. Into(K, a) \subseteq K /\ OutOf(K, a) \subseteq K
    BY DEF Into, OutOf
<1>3. \A f \in VolumeFields : row[f] = SumVolumeField(f, R, a, p, d)
    BY DEF AggregateVolumeRows
<1>4. /\ row.sell = SumVolumeField("sell", R, a, p, d)
      /\ row.buy = SumVolumeField("buy", R, a, p, d)
      /\ row.usdSell = SumVolumeField("usdSell", R, a, p, d)
      /\ row.usdBuy = SumVolumeField("usdBuy", R, a, p, d)
    BY <1>3 DEF VolumeFields
<1>5. ASSUME NEW i \in K
      PROVE  /\ L(i).sell = IF i \in Into(K, a) THEN Paid[i] ELSE 0
             /\ L(i).buy = IF i \in OutOf(K, a) THEN Got[i] ELSE 0
             /\ L(i).usdSell = IF i \in Into(K, a) THEN PaidWorth(a)[i] ELSE 0
             /\ L(i).usdBuy = IF i \in OutOf(K, a) THEN GotWorth(a)[i] ELSE 0
    <2> DEFINE t == TradeOf(Fill(i))
    <2>1. /\ t.in = Fill(i).in /\ t.out = Fill(i).out /\ t.paid = Fill(i).paid /\ t.got = Fill(i).got
        BY DEF TradeOf
    <2>2. /\ i \in Into(K, a) <=> Fill(i).in = a
          /\ i \in OutOf(K, a) <=> Fill(i).out = a
        BY DEF Into, OutOf
    <2> HIDE DEF t
    <2>3. /\ L(i).sell = IF t.in = a THEN t.paid ELSE 0
          /\ L(i).usdSell = IF t.in = a THEN Worth(t.paid, a) ELSE 0
          /\ L(i).buy = IF t.out = a THEN t.got ELSE 0
          /\ L(i).usdBuy = IF t.out = a THEN Worth(t.got, a) ELSE 0
        BY DEF Leg, Worth, t
    <2> QED
        BY <2>1, <2>2, <2>3, <1>1
<1>6. SumVolumeField("sell", R, a, p, d) = SumOver(Paid, Into(K, a))
    <2>1. \A i \in K : L(i)["sell"] = IF i \in Into(K, a) THEN Paid[i] ELSE 0
        BY <1>5
    <2> QED
        BY <1>1, <1>2, <2>1, FieldSum
<1>7. SumVolumeField("buy", R, a, p, d) = SumOver(Got, OutOf(K, a))
    <2>1. \A i \in K : L(i)["buy"] = IF i \in OutOf(K, a) THEN Got[i] ELSE 0
        BY <1>5
    <2> QED
        BY <1>1, <1>2, <2>1, FieldSum
<1>8. SumVolumeField("usdSell", R, a, p, d) = SumOver(PaidWorth(a), Into(K, a))
    <2>1. \A i \in K : L(i)["usdSell"] = IF i \in Into(K, a) THEN PaidWorth(a)[i] ELSE 0
        BY <1>5
    <2> QED
        BY <1>1, <1>2, <2>1, FieldSum
<1>9. SumVolumeField("usdBuy", R, a, p, d) = SumOver(GotWorth(a), OutOf(K, a))
    <2>1. \A i \in K : L(i)["usdBuy"] = IF i \in OutOf(K, a) THEN GotWorth(a)[i] ELSE 0
        BY <1>5
    <2> QED
        BY <1>1, <1>2, <2>1, FieldSum
<1> HIDE DEF row, R, p, d
<1>10. /\ row.sell = SumOver(Paid, Into(K, a))
       /\ row.buy = SumOver(Got, OutOf(K, a))
       /\ row.usdSell = SumOver(PaidWorth(a), Into(K, a))
       /\ row.usdBuy = SumOver(GotWorth(a), OutOf(K, a))
    BY <1>4, <1>6, <1>7, <1>8, <1>9
<1> QED
    BY <1>10 DEF row, R, p, d

----------------------------------------------------------------------------
(* The rows. *)

\* Once they are made.
RowsMade ==
    /\ SearchInv /\ content \in Contents /\ resolved # Unresolved
    /\ priceRows = PriceAndVolumeRows(Trades(content), resolved.prices, market.decimals)
    /\ accountRows = AccountVolumeRows(Trades(content), resolved.prices, market.decimals)

LEMMA PriceRowIs ==
    ASSUME RowsMade, NEW a \in DOMAIN priceRows
    PROVE  /\ a \in DOMAIN resolved.prices /\ a \in Assets
           /\ priceRows[a].price = resolved.prices[a].price
           /\ priceRows[a].volume.sell = SumOver(Paid, Into(Known, a))
           /\ priceRows[a].volume.buy = SumOver(Got, OutOf(Known, a))
           /\ priceRows[a].volume.usdSell = SumOver(PaidWorth(a), Into(Known, a))
           /\ priceRows[a].volume.usdBuy = SumOver(GotWorth(a), OutOf(Known, a))
<1> DEFINE prices == resolved.prices
           row == AggregateVolumeRows(Trades(content), a, prices, market.decimals)
<1>1. priceRows = [x \in {y \in DOMAIN prices : prices[y].price > 0} |->
                      [price |-> prices[x].price, hops |-> prices[x].hops,
                       volume |-> AggregateVolumeRows(Trades(content), x, prices, market.decimals)]]
    BY DEF RowsMade, PriceAndVolumeRows
<1>2. a \in DOMAIN prices /\ priceRows[a] = [price |-> prices[a].price, hops |-> prices[a].hops, volume |-> row]
    BY <1>1
<1> HIDE DEF row
<1>3. priceRows[a].price = prices[a].price /\ priceRows[a].volume = row
    BY <1>2
<1>4. Trades(content) = {Counted(i) : i \in Known}
    BY TradesAre DEF RowsMade
<1>5. /\ row.sell = SumOver(Paid, Into(Known, a))
      /\ row.buy = SumOver(Got, OutOf(Known, a))
      /\ row.usdSell = SumOver(PaidWorth(a), Into(Known, a))
      /\ row.usdBuy = SumOver(GotWorth(a), OutOf(Known, a))
    BY <1>4, RowIs DEF RowsMade, row
<1>6. a \in Assets
    BY <1>2, ResolutionIs DEF RowsMade
<1> QED
    BY <1>2, <1>3, <1>5, <1>6

\* The fills of a trader with an asset.
Mine(w, a) == {i \in Known : Fill(i).who = w /\ a \in {Fill(i).in, Fill(i).out}}

LEMMA AccountRowIs ==
    ASSUME RowsMade
    PROVE  /\ DOMAIN accountRows = UNION {{<<Fill(i).who, Fill(i).in>>, <<Fill(i).who, Fill(i).out>>} : i \in Known}
           /\ \A w, a : <<w, a>> \in DOMAIN accountRows =>
                  /\ accountRows[<<w, a>>].volume.sell = SumOver(Paid, Into(Mine(w, a), a))
                  /\ accountRows[<<w, a>>].volume.buy = SumOver(Got, OutOf(Mine(w, a), a))
                  /\ accountRows[<<w, a>>].volume.usdSell = SumOver(PaidWorth(a), Into(Mine(w, a), a))
                  /\ accountRows[<<w, a>>].volume.usdBuy = SumOver(GotWorth(a), OutOf(Mine(w, a), a))
                  /\ accountRows[<<w, a>>].count = Cardinality(Mine(w, a))
<1> DEFINE trades == Trades(content)
           keys == UNION {{<<x.trade.who, x.trade.in>>, <<x.trade.who, x.trade.out>>} : x \in trades}
           mine(k) == {x \in trades : x.trade.who = k[1] /\ k[2] \in {x.trade.in, x.trade.out}}
<1>1. accountRows = [k \in keys |-> [volume |-> AggregateVolumeRows(mine(k), k[2], resolved.prices, market.decimals),
                                     count |-> Cardinality(mine(k))]]
    BY DEF RowsMade, AccountVolumeRows
<1>2. /\ trades = {Counted(i) : i \in Known} /\ IsFiniteSet(Known)
      /\ \A i \in Known : Counted(i).trade = TradeOf(Fill(i))
      /\ \A i, j \in Known : Counted(i) = Counted(j) => i = j
    BY TradesAre DEF RowsMade
<1>3. \A i \in Known : /\ Counted(i).trade.who = Fill(i).who /\ Counted(i).trade.in = Fill(i).in
                       /\ Counted(i).trade.out = Fill(i).out
    <2>1. \A i \in Known : LET t == TradeOf(Fill(i))
                           IN  t.who = Fill(i).who /\ t.in = Fill(i).in /\ t.out = Fill(i).out
        BY DEF TradeOf
    <2> QED
        BY <2>1, <1>2
<1>4. keys = UNION {{<<Fill(i).who, Fill(i).in>>, <<Fill(i).who, Fill(i).out>>} : i \in Known}
    <2> HIDE DEF trades
    <2> SUFFICES ASSUME NEW k
                 PROVE  k \in keys <=> \E i \in Known : k = <<Fill(i).who, Fill(i).in>> \/ k = <<Fill(i).who, Fill(i).out>>
        OBVIOUS
    <2>1. k \in keys <=> \E x \in trades : k = <<x.trade.who, x.trade.in>> \/ k = <<x.trade.who, x.trade.out>>
        OBVIOUS
    <2> HIDE DEF keys
    <2> QED
        BY <2>1, <1>2, <1>3
<1>5. DOMAIN accountRows = keys
    BY <1>1
<1>6. ASSUME NEW w, NEW a, <<w, a>> \in DOMAIN accountRows
      PROVE  /\ accountRows[<<w, a>>].volume.sell = SumOver(Paid, Into(Mine(w, a), a))
             /\ accountRows[<<w, a>>].volume.buy = SumOver(Got, OutOf(Mine(w, a), a))
             /\ accountRows[<<w, a>>].volume.usdSell = SumOver(PaidWorth(a), Into(Mine(w, a), a))
             /\ accountRows[<<w, a>>].volume.usdBuy = SumOver(GotWorth(a), OutOf(Mine(w, a), a))
             /\ accountRows[<<w, a>>].count = Cardinality(Mine(w, a))
    <2> DEFINE K == Mine(w, a)
               R == {Counted(i) : i \in K}
               row == AggregateVolumeRows(R, a, resolved.prices, market.decimals)
               m == [i \in K |-> Counted(i)]
    <2>1. mine(<<w, a>>) = R
        <3>1. \A i \in Known : i \in K <=> Fill(i).who = w /\ a \in {Fill(i).in, Fill(i).out}
            BY DEF Mine
        <3>2. K \subseteq Known
            BY DEF Mine
        <3>3. mine(<<w, a>>) = {x \in trades : x.trade.who = w /\ a \in {x.trade.in, x.trade.out}}
            OBVIOUS
        <3> HIDE DEF trades, mine, K
        <3> QED
            BY <3>1, <3>2, <3>3, <1>2, <1>3
    <2>2. accountRows[<<w, a>>] = [volume |-> row, count |-> Cardinality(R)]
        <3>1. accountRows[<<w, a>>] =
                [volume |-> AggregateVolumeRows(mine(<<w, a>>), a, resolved.prices, market.decimals),
                 count |-> Cardinality(mine(<<w, a>>))]
            BY <1>1, <1>6
        <3> QED
            BY <2>1, <3>1
    <2>3. K \subseteq Known /\ IsFiniteSet(K)
        BY <1>2, FS_Subset DEF Mine
    <2>4. Cardinality(R) = Cardinality(K)
        <3>1. m \in Bijection(K, R)
            BY <1>2, <2>3 DEF Bijection, Injection, IsInjective, Surjection
        <3> HIDE DEF K, R, m
        <3> QED
            BY <2>3, <3>1, FS_Bijection DEF ExistsBijection
    <2>5. /\ row.sell = SumOver(Paid, Into(K, a))
          /\ row.buy = SumOver(Got, OutOf(K, a))
          /\ row.usdSell = SumOver(PaidWorth(a), Into(K, a))
          /\ row.usdBuy = SumOver(GotWorth(a), OutOf(K, a))
        BY <2>3, RowIs DEF RowsMade
    <2> HIDE DEF row, R, K
    <2>6. accountRows[<<w, a>>].volume = row /\ accountRows[<<w, a>>].count = Cardinality(R)
        BY <2>2
    <2> QED
        BY <2>4, <2>5, <2>6 DEF K
<1> QED
    BY <1>4, <1>5, <1>6

LEMMA RowsCountOnce == RowsMade => CountedOnce
<1> SUFFICES ASSUME RowsMade PROVE CountedOnce
    OBVIOUS
<1>1. /\ IsFiniteSet(Known) /\ \A i \in Known : Fill(i) \in Fills /\ Fill(i).in # Fill(i).out
    BY TradesAre DEF RowsMade
<1>2. \A i \in Known : Fill(i).who \in Traders /\ Fill(i).in \in Assets /\ Fill(i).out \in Assets
    BY <1>1 DEF Fills
<1>3. ASSUME NEW a \in DOMAIN priceRows
      PROVE  priceRows[a].volume.sell = Sold(Traders, a) /\ priceRows[a].volume.buy = Bought(Traders, a)
    <2>1. /\ Into(Known, a) = {i \in Known : Fill(i).who \in Traders /\ Fill(i).in = a}
          /\ OutOf(Known, a) = {i \in Known : Fill(i).who \in Traders /\ Fill(i).out = a}
        BY <1>2 DEF Into, OutOf
    <2>2. Sold(Traders, a) = SumOver(Paid, Into(Known, a)) /\ Bought(Traders, a) = SumOver(Got, OutOf(Known, a))
        BY <2>1 DEF Sold, Bought, Paid, Got
    <2> QED
        BY <2>2, PriceRowIs
<1>4. ASSUME NEW who \in Traders, NEW a \in Assets
      PROVE  LET k == <<who, a>>
                 mine == {i \in Known : Fill(i).who = who /\ a \in {Fill(i).in, Fill(i).out}}
             IN  IF mine = {} THEN k \notin DOMAIN accountRows
                 ELSE /\ accountRows[k].volume.sell = Sold({who}, a)
                      /\ accountRows[k].volume.buy = Bought({who}, a)
                      /\ accountRows[k].count = Cardinality(mine)
    <2> DEFINE k == <<who, a>>
    <2>1. k \in DOMAIN accountRows <=> \E i \in Known : k = <<Fill(i).who, Fill(i).in>> \/ k = <<Fill(i).who, Fill(i).out>>
        BY AccountRowIs
    <2>2. k \in DOMAIN accountRows <=> Mine(who, a) # {}
        BY <2>1 DEF Mine
    <2>3. /\ Into(Mine(who, a), a) = {i \in Known : Fill(i).who \in {who} /\ Fill(i).in = a}
          /\ OutOf(Mine(who, a), a) = {i \in Known : Fill(i).who \in {who} /\ Fill(i).out = a}
        BY DEF Into, OutOf, Mine
    <2>4. /\ Sold({who}, a) = SumOver(Paid, Into(Mine(who, a), a))
          /\ Bought({who}, a) = SumOver(Got, OutOf(Mine(who, a), a))
        BY <2>3 DEF Sold, Bought, Paid, Got
    <2>5. k \in DOMAIN accountRows =>
              /\ accountRows[k].volume.sell = SumOver(Paid, Into(Mine(who, a), a))
              /\ accountRows[k].volume.buy = SumOver(Got, OutOf(Mine(who, a), a))
              /\ accountRows[k].count = Cardinality(Mine(who, a))
        BY AccountRowIs
    <2>6. IF Mine(who, a) = {} THEN k \notin DOMAIN accountRows
          ELSE /\ accountRows[k].volume.sell = Sold({who}, a)
               /\ accountRows[k].volume.buy = Bought({who}, a)
               /\ accountRows[k].count = Cardinality(Mine(who, a))
        BY <2>2, <2>4, <2>5
    <2> QED
        BY <2>6 DEF Mine
<1> QED
    BY <1>3, <1>4 DEF CountedOnce

\* The traders of an asset share its fills between them.
LEMMA SharesAddUp ==
    ASSUME RowsMade, NEW a, NEW S, NEW f, NEW g, NEW O,
           S \in {Into(Known, a), OutOf(Known, a)},
           O = {k \in DOMAIN accountRows : k[2] = a},
           \A i \in Known : f[i] \in Int,
           \A k \in O : g[k] = SumOver(f, {i \in S : <<Fill(i).who, a>> = k})
    PROVE  SumOver(f, S) = SumOver(g, O)
<1> DEFINE c == [i \in S |-> <<Fill(i).who, a>>]
           h == [k \in O |-> SumOver(f, {i \in S : c[i] = k})]
           left == [i \in Known |-> <<Fill(i).who, Fill(i).in>>]
           right == [i \in Known |-> <<Fill(i).who, Fill(i).out>>]
<1>1. /\ IsFiniteSet(Known) /\ S \subseteq Known
      /\ \A i \in S : a = Fill(i).in \/ a = Fill(i).out
    BY TradesAre DEF RowsMade, Into, OutOf
<1>2. DOMAIN accountRows = UNION {{<<Fill(i).who, Fill(i).in>>, <<Fill(i).who, Fill(i).out>>} : i \in Known}
    BY AccountRowIs
<1>3. c \in [S -> O]
    <2> SUFFICES ASSUME NEW i \in S PROVE <<Fill(i).who, a>> \in O
        OBVIOUS
    <2>1. <<Fill(i).who, a>> \in DOMAIN accountRows
        BY <1>1, <1>2
    <2> QED
        BY <2>1
<1>4. IsFiniteSet(O)
    <2>1. O \subseteq {left[i] : i \in Known} \cup {right[i] : i \in Known}
        <3>1. O \subseteq DOMAIN accountRows
            OBVIOUS
        <3>2. \A i \in Known : left[i] = <<Fill(i).who, Fill(i).in>> /\ right[i] = <<Fill(i).who, Fill(i).out>>
            OBVIOUS
        <3> HIDE DEF left, right
        <3> QED
            BY <3>1, <3>2, <1>2
    <2> HIDE DEF left, right
    <2>2. IsFiniteSet({left[i] : i \in Known}) /\ IsFiniteSet({right[i] : i \in Known})
        BY <1>1, ImageIsFinite
    <2>3. IsFiniteSet({left[i] : i \in Known} \cup {right[i] : i \in Known})
        BY <2>2, FS_Union
    <2> QED
        BY <2>1, <2>3, FS_Subset
<1>5. IsFiniteSet(S) /\ \A i \in S : f[i] \in Int
    BY <1>1, FS_Subset
<1>6. \A k \in O : {i \in S : c[i] = k} = {i \in S : <<Fill(i).who, a>> = k}
    OBVIOUS
<1> HIDE DEF c
<1>7. SumOver([k \in O |-> SumOver(f, {i \in S : c[i] = k})], O) = SumOver(f, S)
    BY <1>3, <1>4, <1>5, SumGroups
<1>8. \A k \in O : h[k] = g[k] /\ h[k] \in Int
    <2> SUFFICES ASSUME NEW k \in O PROVE h[k] = g[k] /\ h[k] \in Int
        OBVIOUS
    <2>1. h[k] = SumOver(f, {i \in S : c[i] = k})
        OBVIOUS
    <2>2. IsFiniteSet({i \in S : c[i] = k}) /\ {i \in S : c[i] = k} \subseteq S
        BY <1>5, FS_Subset
    <2>3. SumOver(f, {i \in S : c[i] = k}) \in Int
        BY <1>5, <2>2, SumInt
    <2> QED
        BY <2>1, <2>3, <1>6
<1>9. SumOver(h, O) = SumOver(f, S)
    BY <1>7
<1> HIDE DEF h
<1>10. SumOver(h, O) = SumOver(g, O)
    BY <1>4, <1>8, SumSame
<1> QED
    BY <1>9, <1>10

LEMMA RowsAddUp == RowsMade => TradersAddUp
<1> SUFFICES ASSUME RowsMade, NEW a \in DOMAIN priceRows
             PROVE  LET ofAsset == {k \in DOMAIN accountRows : k[2] = a}
                        ofAll(field) == SumOver([k \in ofAsset |-> accountRows[k].volume[field]], ofAsset)
                    IN  /\ priceRows[a].volume.usdSell = ofAll("usdSell")
                        /\ priceRows[a].volume.usdBuy = ofAll("usdBuy")
    BY DEF TradersAddUp
<1> DEFINE O == {k \in DOMAIN accountRows : k[2] = a}
           sold == [k \in O |-> accountRows[k].volume.usdSell]
           bought == [k \in O |-> accountRows[k].volume.usdBuy]
<1>1. \A i \in Known : PaidWorth(a)[i] \in Int /\ GotWorth(a)[i] \in Int
    BY AmountsAre DEF RowsMade
<1>2. ASSUME NEW k \in O
      PROVE  /\ k = <<k[1], a>>
             /\ sold[k] = SumOver(PaidWorth(a), Into(Mine(k[1], a), a))
             /\ bought[k] = SumOver(GotWorth(a), OutOf(Mine(k[1], a), a))
    <2>1. k \in DOMAIN accountRows /\ k[2] = a
        OBVIOUS
    <2>2. \E w, x : k = <<w, x>>
        <3>1. \E i \in Known : k = <<Fill(i).who, Fill(i).in>> \/ k = <<Fill(i).who, Fill(i).out>>
            BY <2>1, AccountRowIs
        <3> QED
            BY <3>1
    <2>3. k = <<k[1], a>>
        BY <2>1, <2>2
    <2>4. /\ accountRows[<<k[1], a>>].volume.usdSell = SumOver(PaidWorth(a), Into(Mine(k[1], a), a))
          /\ accountRows[<<k[1], a>>].volume.usdBuy = SumOver(GotWorth(a), OutOf(Mine(k[1], a), a))
        BY <2>1, <2>3, AccountRowIs
    <2> QED
        BY <2>3, <2>4
<1>3. ASSUME NEW k \in O
      PROVE  /\ Into(Mine(k[1], a), a) = {i \in Into(Known, a) : <<Fill(i).who, a>> = k}
             /\ OutOf(Mine(k[1], a), a) = {i \in OutOf(Known, a) : <<Fill(i).who, a>> = k}
    <2>1. k = <<k[1], a>>
        BY <1>2
    <2>2. \A i \in Known : <<Fill(i).who, a>> = k <=> Fill(i).who = k[1]
        BY <2>1
    <2> HIDE DEF O
    <2> QED
        BY <2>2 DEF Into, OutOf, Mine
<1>4. SumOver(PaidWorth(a), Into(Known, a)) = SumOver(sold, O)
    <2>1. \A k \in O : sold[k] = SumOver(PaidWorth(a), {i \in Into(Known, a) : <<Fill(i).who, a>> = k})
        BY <1>2, <1>3
    <2>2. O = {k \in DOMAIN accountRows : k[2] = a}
        OBVIOUS
    <2> HIDE DEF O, sold
    <2> QED
        BY <1>1, <2>1, <2>2, SharesAddUp
<1>5. SumOver(GotWorth(a), OutOf(Known, a)) = SumOver(bought, O)
    <2>1. \A k \in O : bought[k] = SumOver(GotWorth(a), {i \in OutOf(Known, a) : <<Fill(i).who, a>> = k})
        BY <1>2, <1>3
    <2>2. O = {k \in DOMAIN accountRows : k[2] = a}
        OBVIOUS
    <2>3. OutOf(Known, a) \in {Into(Known, a), OutOf(Known, a)} /\ \A i \in Known : GotWorth(a)[i] \in Int
        BY <1>1
    <2> HIDE DEF O, bought
    <2> QED
        BY <2>1, <2>2, <2>3, SharesAddUp
<1> QED
    BY <1>4, <1>5, PriceRowIs

----------------------------------------------------------------------------
(* What is cut off. *)

LEMMA FloorBounds ==
    ASSUME NEW x \in Nat, NEW s \in Nat \ {0}
    PROVE  /\ x \div s \in Nat
           /\ (x \div s) * s <= x
           /\ x + 1 <= (x \div s) * s + s
<1> DEFINE q == x \div s
           r == x % s
<1>1. q \in Nat /\ r \in 0 .. s - 1
    OBVIOUS
<1>2. x = s * q + r
    OBVIOUS
<1>3. s * q = q * s
    BY <1>1
<1> HIDE DEF q, r
<1>4. q * s \in Int
    BY <1>1
<1> QED
    BY <1>1, <1>2, <1>3, <1>4 DEF q

LEMMA FloorsAddUp ==
    ASSUME NEW S, IsFiniteSet(S), NEW f, NEW g, NEW p \in Nat, NEW s \in Nat \ {0},
           \A i \in S : f[i] \in Nat /\ g[i] = (f[i] * p) \div s
    PROVE  /\ SumOver(g, S) \in Nat /\ SumOver(f, S) \in Nat /\ Cardinality(S) \in Nat
           /\ SumOver(g, S) * s <= SumOver(f, S) * p
           /\ SumOver(f, S) * p + Cardinality(S) <= SumOver(g, S) * s + Cardinality(S) * s
<1> DEFINE G == {T \in SUBSET S :
                    /\ SumOver(g, T) * s <= SumOver(f, T) * p
                    /\ SumOver(f, T) * p + Cardinality(T) <= SumOver(g, T) * s + Cardinality(T) * s}
<1>1. \A i \in S : g[i] \in Nat /\ g[i] * s <= f[i] * p /\ f[i] * p + 1 <= g[i] * s + s
    <2> SUFFICES ASSUME NEW i \in S
                 PROVE  g[i] \in Nat /\ g[i] * s <= f[i] * p /\ f[i] * p + 1 <= g[i] * s + s
        OBVIOUS
    <2> DEFINE x == f[i] * p
    <2>1. x \in Nat /\ g[i] = x \div s
        OBVIOUS
    <2> HIDE DEF x
    <2>2. g[i] \in Nat /\ g[i] * s <= x /\ x + 1 <= g[i] * s + s
        BY <2>1, FloorBounds
    <2> QED
        BY <2>2 DEF x
<1>2. \A T \in SUBSET S : /\ IsFiniteSet(T) /\ SumOver(g, T) \in Nat /\ SumOver(f, T) \in Nat
                          /\ Cardinality(T) \in Nat
    <2> SUFFICES ASSUME NEW T \in SUBSET S
                 PROVE  /\ IsFiniteSet(T) /\ SumOver(g, T) \in Nat /\ SumOver(f, T) \in Nat
                        /\ Cardinality(T) \in Nat
        OBVIOUS
    <2>1. IsFiniteSet(T) /\ \A i \in T : g[i] \in Nat /\ f[i] \in Nat
        BY <1>1, FS_Subset
    <2> QED
        BY <2>1, SumNat, FS_CardinalityType
<1>3. {} \in G
    <2>1. SumOver(g, {}) = 0 /\ SumOver(f, {}) = 0 /\ Cardinality({}) = 0
        BY SumEmpty, FS_EmptySet
    <2> QED
        BY <2>1
<1>4. ASSUME NEW T \in SUBSET S, NEW i \in S \ T, T \in G PROVE T \cup {i} \in G
    <2>1. SumOver(g, T \cup {i}) = g[i] + SumOver(g, T)
        <3>1. IsFiniteSet(T) /\ i \notin T /\ \A y \in T \cup {i} : g[y] \in Int
            BY <1>1, <1>2
        <3> QED
            BY <3>1, SumAdd
    <2>2. SumOver(f, T \cup {i}) = f[i] + SumOver(f, T)
        <3>1. IsFiniteSet(T) /\ i \notin T /\ \A y \in T \cup {i} : f[y] \in Int
            BY <1>2
        <3> QED
            BY <3>1, SumAdd
    <2>3. Cardinality(T \cup {i}) = Cardinality(T) + 1
        BY <1>2, FS_AddElement
    <2> DEFINE u == g[i]
               x == f[i]
               U == SumOver(g, T)
               X == SumOver(f, T)
               n == Cardinality(T)
    <2>4. /\ u \in Nat /\ x \in Nat /\ U \in Nat /\ X \in Nat /\ n \in Nat
          /\ u * s <= x * p /\ x * p + 1 <= u * s + s
          /\ U * s <= X * p /\ X * p + n <= U * s + n * s
        BY <1>1, <1>2, <1>4
    <2> HIDE DEF u, x, U, X, n
    <2>5. (u + U) * s = u * s + U * s /\ (x + X) * p = x * p + X * p /\ (n + 1) * s = n * s + s
        BY <2>4
    <2>6. /\ u * s \in Int /\ U * s \in Int /\ x * p \in Int /\ X * p \in Int /\ n * s \in Int
        BY <2>4
    <2>7. /\ (u + U) * s <= (x + X) * p
          /\ (x + X) * p + (n + 1) <= (u + U) * s + (n + 1) * s
        BY <2>4, <2>5, <2>6
    <2> QED
        BY <2>1, <2>2, <2>3, <2>7 DEF u, x, U, X, n
<1> HIDE DEF G
<1>5. S \in G
    BY <1>3, <1>4, SubsetsFill
<1> QED
    BY <1>2, <1>5 DEF G

LEMMA MaxWithOne ==
    ASSUME NEW n \in Nat
    PROVE  Max({n, 1}) \in Nat /\ Max({n, 1}) >= 1 /\ (n >= 1 => Max({n, 1}) = n)
<1>1. \E z \in {n, 1} : \A w \in {n, 1} : z >= w
    <2>1. CASE n >= 1
        BY <2>1
    <2>2. CASE ~(n >= 1)
        BY <2>2
    <2> QED
        BY <2>1, <2>2
<1>2. /\ Max({n, 1}) \in {n, 1}
      /\ \A w \in {n, 1} : Max({n, 1}) >= w
    BY <1>1 DEF Max
<1> QED
    BY <1>2

LEMMA RowsAreValued == RowsMade => ValuedAtPrice
<1> SUFFICES ASSUME RowsMade, NEW a \in DOMAIN priceRows, a \in DOMAIN market.decimals
             PROVE  LET trades == Cardinality({i \in Known : Fill(i).in = a})
                        scale == Scale(market.decimals[a])
                        exact == Sold(Traders, a) * priceRows[a].price
                    IN  /\ priceRows[a].volume.usdSell * scale <= exact
                        /\ exact < (priceRows[a].volume.usdSell + Max({trades, 1})) * scale
    BY DEF ValuedAtPrice
<1> DEFINE S == Into(Known, a)
           s == Scale(market.decimals[a])
           p == resolved.prices[a].price
           u == SumOver(PaidWorth(a), S)
           x == SumOver(Paid, S)
           n == Cardinality(S)
<1>1. /\ a \in DOMAIN resolved.prices /\ priceRows[a].price = p
      /\ priceRows[a].volume.sell = x /\ priceRows[a].volume.usdSell = u
    BY PriceRowIs
<1>2. Sold(Traders, a) = x
    BY <1>1, RowsCountOnce DEF CountedOnce
<1>3. s \in Nat \ {0} /\ p \in Nat
    <2>1. 0 \in Nat
        OBVIOUS
    <2> QED
        BY <1>1, <2>1, WorthIs, PricesAreNumbers DEF RowsMade
<1>4. IsFiniteSet(S) /\ S \subseteq Known
    BY TradesAre, FS_Subset DEF RowsMade, Into
<1>5. \A i \in S : Paid[i] \in Nat /\ PaidWorth(a)[i] = (Paid[i] * p) \div s
    <2>1. \A i \in Known : Paid[i] \in Nat /\ Paid[i] = Fill(i).paid /\ PaidWorth(a)[i] = Worth(Paid[i], a)
        BY AmountsAre DEF RowsMade
    <2>2. \A y \in Nat : Worth(y, a) = (y * p) \div s
        BY <1>1, WorthIs DEF RowsMade
    <2> QED
        BY <1>4, <2>1, <2>2
<1>6. {i \in Known : Fill(i).in = a} = S
    BY DEF Into
<1> HIDE DEF S, s, p
<1>7. /\ u \in Nat /\ x \in Nat /\ n \in Nat /\ u * s <= x * p
      /\ x * p + n <= u * s + n * s
    BY <1>3, <1>4, <1>5, FloorsAddUp
<1>8. n = 0 => x * p = 0
    <2> SUFFICES ASSUME n = 0 PROVE x * p = 0
        OBVIOUS
    <2>1. S = {}
        BY <1>4, FS_EmptySet
    <2>2. x = 0
        BY <2>1, SumEmpty
    <2> HIDE DEF x
    <2> QED
        BY <1>3, <2>2
<1> HIDE DEF u, x, n
<1>9. x * p < (u + Max({n, 1})) * s
    <2> DEFINE m == Max({n, 1})
    <2>1. m \in Nat /\ m >= 1 /\ (n >= 1 => m = n)
        BY <1>7, MaxWithOne
    <2> HIDE DEF m
    <2>2. (u + m) * s = u * s + m * s /\ u * s \in Nat /\ m * s \in Nat /\ n * s \in Nat /\ x * p \in Int
        BY <1>3, <1>7, <2>1
    <2>3. CASE n = 0
        <3>1. m * s >= 1
            BY <1>3, <2>1
        <3> QED
            BY <1>8, <2>2, <2>3, <3>1 DEF m
    <2>4. CASE n >= 1
        BY <1>7, <2>1, <2>2, <2>4 DEF m
    <2> QED
        BY <1>7, <2>3, <2>4
<1> QED
    BY <1>1, <1>2, <1>6, <1>7, <1>9 DEF n, s

----------------------------------------------------------------------------
(* The block. *)

BlockInv == SearchInv /\ (content # Unread => RowsMade)

LEMMA BlockStep == BlockInv /\ [BlockNext]_<<graphVars, volumeVars>> => BlockInv'
<1> SUFFICES ASSUME BlockInv, [BlockNext]_<<graphVars, volumeVars>> PROVE BlockInv'
    OBVIOUS
<1>1. SearchInv'
    BY SearchStep DEF BlockInv
<1>2. CASE MakeRows
    <2>1. /\ resolved' = resolved /\ market' = market /\ resolved # Unresolved
          /\ content' \in Contents
          /\ priceRows' = PriceAndVolumeRows(Trades(content'), resolved.prices, market.decimals)
          /\ accountRows' = AccountVolumeRows(Trades(content'), resolved.prices, market.decimals)
        BY <1>2 DEF MakeRows, graphVars
    <2> QED
        BY <1>1, <2>1 DEF BlockInv, RowsMade
<1>3. CASE GraphNext /\ UNCHANGED volumeVars
    <2>1. content' = content
        BY <1>3 DEF volumeVars
    <2>2. resolved = Unresolved
        <3>1. CASE Follow
            BY <3>1 DEF Follow, BlockInv, SearchInv
        <3>2. CASE ResolvePrices
            BY <3>2 DEF ResolvePrices
        <3> QED
            BY <1>3, <3>1, <3>2 DEF GraphNext
    <2>3. content = Unread
        BY <2>2 DEF BlockInv, RowsMade
    <2> QED
        BY <1>1, <2>1, <2>3 DEF BlockInv
<1>4. CASE UNCHANGED <<graphVars, volumeVars>>
    <2>1. /\ resolved' = resolved /\ market' = market /\ content' = content
          /\ priceRows' = priceRows /\ accountRows' = accountRows
        BY <1>4 DEF graphVars, volumeVars
    <2> QED
        BY <1>1, <2>1 DEF BlockInv, RowsMade
<1> QED
    BY <1>2, <1>3, <1>4 DEF BlockNext

\* A block is priced and its trades are counted as its pools and its fills say
\* (resolvePrices, extractVolume): every path is an observation or was left out because of
\* the cap, the best ones are kept, the price is the median of them, and every fill that a
\* codec knows is counted once, for both its assets and for its trader.
THEOREM BlockSafety == BlockSpec => []BlockSound
<1>1. BlockInit => BlockInv
    BY SearchStarts DEF BlockInit, BlockInv
<1>2. BlockInv => BlockSound
    <2>1. BlockInv => GraphSound
        BY SearchIsSound DEF BlockInv
    <2>2. BlockInv /\ content # Unread => VolumesSound
        BY RowsCountOnce, RowsAddUp, RowsAreValued DEF BlockInv, VolumesSound
    <2> QED
        BY <2>1, <2>2 DEF BlockSound
<1> QED
    BY <1>1, <1>2, BlockStep, PTL DEF BlockSpec
=============================================================================
