----------------------------- MODULE AssetTable -----------------------------
(***************************************************************************)
(* The assets table (price_data.assets) and the trackers that fill it      *)
(* (registry/tracker.ts).  The price pipeline that follows the chain keeps *)
(* a cache of the asset registry: it scans the registry where an event     *)
(* tells of a change or enough chain time has passed, and inserts what is  *)
(* new (indexer.ts).  A container of the backfill does the same over its   *)
(* own, older blocks and inserts when all of them are computed.  Of the    *)
(* rows of an asset the one that was inserted last is shown.               *)
(*                                                                         *)
(* An entry of the registry is its labels with the decimals, and its       *)
(* location; labels 0 are those of an asset that is not registered, or     *)
(* whose decimals nobody knows, which no scan brings.  Chain time is       *)
(* counted in blocks, and a batch is one block.                            *)
(***************************************************************************)
EXTENDS Integers, Sequences

CONSTANTS
    AssetIds,
    Native,         \* the native asset, whose labels the chain properties give
    Entries,        \* what an asset may be registered with
    FirstFollowed,  \* block the follower starts at
    LastHeight,     \* bound: length of the chain
    ScanInterval,   \* SNAPSHOT_INTERVAL_MINUTES at the head, the longer one before it
    MaxLapses,      \* bound: location reads that fail, and deaths of the follower
    MaxPublished    \* bound: runs of the backfill

ASSUME AssetAssumption ==
    /\ Native \in AssetIds
    /\ Entries \subseteq [labels : Nat \ {0}, place : Nat]
    /\ LastHeight \in Nat /\ FirstFollowed \in 2 .. LastHeight
    /\ {ScanInterval.head, ScanInterval.archive} \subseteq Nat \ {0}
    /\ {MaxLapses, MaxPublished} \subseteq Nat

VARIABLES
    registry,     \* the chain: per block its registry, and whether an event tells of a change
    follower,     \* the pipeline main
    table,        \* price_data.assets FINAL
    overwritten,  \* history: assets whose row is one of the backfill
    byNode,       \* history: assets inserted for blocks of the node since the last snapshot
    hidden,       \* history: assets inserted so, which the next snapshot had as the one before
    lapses, published

assetHistory == <<overwritten, byNode, hidden>>
assetVars == <<registry, follower, table, assetHistory, lapses, published>>

Unlisted == [labels |-> 0, place |-> 0]
NativeEntry == [labels |-> 1, place |-> 0]
Listed(state) == {a \in AssetIds : state[a] # Unlisted}
NeverScanned == 0
NoRows == [a \in {} |-> Unlisted]

\* A new tracker knows the native asset, and owes its row.
NewTracker == [cache |-> [a \in AssetIds |-> IF a = Native THEN NativeEntry ELSE Unlisted],
               seeded |-> TRUE, scanned |-> NeverScanned]
Started(at) == [step |-> "next", at |-> at, tracker |-> NewTracker, initialized |-> FALSE,
                previous |-> NoRows, atHead |-> FALSE, batch |-> NoRows]

----------------------------------------------------------------------------
(* The registry on the chain. *)

Mint(state, told) ==
    /\ Len(registry) < LastHeight
    /\ registry' = Append(registry, [assets |-> state, told |-> told])
    /\ UNCHANGED <<follower, table, assetHistory, lapses, published>>

Current == registry[Len(registry)].assets
QuietBlock == Mint(Current, FALSE)
\* With an event, or by a migration or a write of storage that none tells of.
Registers(a, entry, told) == Mint([Current EXCEPT ![a] = entry], told)

----------------------------------------------------------------------------
(* AssetRegistryTracker. *)

\* What a scan finds.  One whose read of the locations failed finds no location.
Discovered(h) ==
    {registry[h].assets} \cup
    {[a \in AssetIds |-> [registry[h].assets[a] EXCEPT !.place = 0]] : i \in 1 .. MaxLapses - lapses}
CountLapse(h, found) == lapses' = IF found = registry[h].assets THEN lapses ELSE lapses + 1

\* Mutant: a location that changed is not looked at.
DiffersInLabels(old, new) == old.labels # new.labels
\* assetMetadataChanged.
Differs(old, new) == old # new

\* maybeSnapshot: the cache, in which an asset stays that is not listed any more, and
\* the rows it returns.
Learn(tracker, found, h) ==
    [cache |-> [a \in AssetIds |-> IF a \in Listed(found) THEN found[a] ELSE tracker.cache[a]],
     seeded |-> FALSE, scanned |-> h]
NewRows(tracker, found) ==
    LET new == {a \in Listed(found) : Differs(tracker.cache[a], found[a])}
        native == IF tracker.seeded THEN {Native} ELSE {}
    IN  [a \in new \cup native |-> IF a \in new THEN found[a] ELSE NativeEntry]

\* Mutant: an event is no reason to scan.
ScanByTime(h, interval) ==
    follower.tracker.scanned = NeverScanned \/ h - follower.tracker.scanned >= interval
ScanDue(h, interval) ==
    \/ registry[h].told
    \/ follower.tracker.scanned = NeverScanned
    \/ h - follower.tracker.scanned >= interval

RowsOfCache(cache) == [a \in Listed(cache) |-> cache[a]]
\* diffAssetRows.
DiffRows(previous, current) ==
    LET new == {a \in DOMAIN current : a \in DOMAIN previous => Differs(previous[a], current[a])}
    IN  [a \in new |-> current[a]]

----------------------------------------------------------------------------
(* The follower. *)

NextHeight == follower.at + 1
ForBlock == follower.step = "next" /\ NextHeight <= Len(registry)

\* A block whose raw snapshot is there, which is not asked for at the head.  What the
\* scan returns is dropped: the cache is compared with the one of the last such block.
SnapshotBlock ==
    /\ ForBlock /\ ~follower.atHead /\ NextHeight < Len(registry)
    /\ \E found \in Discovered(NextHeight) :
        LET scan == ~follower.initialized \/ registry[NextHeight].told
            tracker == IF scan THEN Learn(follower.tracker, found, NextHeight) ELSE follower.tracker
            rows == DiffRows(follower.previous, RowsOfCache(tracker.cache))
        IN  /\ IF scan THEN CountLapse(NextHeight, found) ELSE UNCHANGED lapses
            /\ follower' = [follower EXCEPT
                   !.step = "insert", !.at = NextHeight, !.tracker = tracker, !.initialized = TRUE,
                   !.previous = RowsOfCache(tracker.cache), !.batch = rows]
            /\ byNode' = {}
            /\ hidden' = (hidden \cup byNode) \ DOMAIN rows
    /\ UNCHANGED <<registry, table, overwritten, published>>

\* A block read from the node.  The last block there is makes the follower live.
NodeBlock ==
    /\ ForBlock
    /\ \E found \in Discovered(NextHeight) :
        LET atHead == follower.atHead \/ NextHeight = Len(registry)
            scan == ScanDue(NextHeight, IF atHead THEN ScanInterval.head ELSE ScanInterval.archive)
            rows == IF scan THEN NewRows(follower.tracker, found) ELSE NoRows
        IN  /\ IF scan THEN CountLapse(NextHeight, found) ELSE UNCHANGED lapses
            /\ follower' = [follower EXCEPT
                   !.step = "insert", !.at = NextHeight, !.atHead = atHead, !.batch = rows,
                   !.tracker = IF scan THEN Learn(@, found, NextHeight) ELSE @]
            /\ byNode' = byNode \cup DOMAIN rows
            /\ hidden' = hidden \ DOMAIN rows
    /\ UNCHANGED <<registry, table, overwritten, published>>

Inserted(rows) == [a \in AssetIds |-> IF a \in DOMAIN rows THEN rows[a] ELSE table[a]]

InsertAssets ==
    /\ follower.step = "insert"
    /\ table' = Inserted(follower.batch)
    /\ overwritten' = overwritten \ DOMAIN follower.batch
    /\ follower' = [follower EXCEPT !.step = "save", !.batch = NoRows]
    /\ UNCHANGED <<registry, byNode, hidden, lapses, published>>

SaveHeight ==
    /\ follower.step = "save"
    /\ follower' = [follower EXCEPT !.step = "next"]
    /\ UNCHANGED <<registry, table, assetHistory, lapses, published>>

FollowerDies ==
    /\ lapses < MaxLapses
    /\ lapses' = lapses + 1
    /\ follower' = Started(IF follower.step = "next" THEN follower.at ELSE follower.at - 1)
    /\ byNode' = {}
    /\ UNCHANGED <<registry, table, overwritten, hidden, published>>

----------------------------------------------------------------------------
(* The backfill. *)

\* A container's run over older blocks, all with their snapshots: it scans at the first
\* and where an event tells of a change, and its rows are inserted at its end.
LastScan(from, to) ==
    CHOOSE h \in from .. to : /\ h = from \/ registry[h].told
                              /\ \A g \in (h + 1) .. to : ~registry[g].told
PublishRange(from, to) ==
    /\ published < MaxPublished
    /\ to < FirstFollowed /\ to <= Len(registry)
    /\ \E found \in Discovered(LastScan(from, to)) :
        LET rows == RowsOfCache(Learn(NewTracker, found, to).cache) IN
        /\ CountLapse(LastScan(from, to), found)
        /\ table' = Inserted(rows)
        /\ overwritten' = overwritten \cup {a \in DOMAIN rows : rows[a] # table[a]}
    /\ published' = published + 1
    /\ UNCHANGED <<registry, follower, byNode, hidden>>

----------------------------------------------------------------------------
AssetInit ==
    /\ registry = <<[assets |-> [a \in AssetIds |-> Unlisted], told |-> FALSE]>>
    /\ follower = Started(FirstFollowed - 1)
    /\ table = [a \in AssetIds |-> Unlisted]
    /\ overwritten = {} /\ byNode = {} /\ hidden = {}
    /\ lapses = 0 /\ published = 0

AssetNext ==
    \/ QuietBlock
    \/ \E a \in AssetIds, entry \in Entries, told \in BOOLEAN : Registers(a, entry, told)
    \/ SnapshotBlock \/ NodeBlock \/ InsertAssets \/ SaveHeight \/ FollowerDies
    \/ \E from, to \in 1 .. LastHeight : from <= to /\ PublishRange(from, to)

AssetSpec == AssetInit /\ [][AssetNext]_assetVars

----------------------------------------------------------------------------
EntryType == Entries \cup {[e EXCEPT !.place = 0] : e \in Entries} \cup {Unlisted, NativeEntry}
AssetTypeOK ==
    /\ Len(registry) \in 1 .. LastHeight
    /\ follower.step \in {"next", "insert", "save"}
    /\ follower.at \in FirstFollowed - 1 .. LastHeight /\ follower.tracker.scanned <= follower.at
    /\ \A a \in AssetIds : {table[a], follower.tracker.cache[a]} \subseteq EntryType
    /\ overwritten \cup byNode \cup hidden \subseteq AssetIds
    /\ lapses \in 0 .. MaxLapses /\ published \in 0 .. MaxPublished

\* A change of the asset that no event told of, nor any event since; at the head it is
\* not older than the interval of the scans.
Unnoticed(a) ==
    \E h \in 2 .. follower.at :
        /\ registry[h].assets[a] # registry[h - 1].assets[a]
        /\ \A g \in h .. follower.at : ~registry[g].told
        /\ follower.atHead => follower.at - h < ScanInterval.head

\* The labels and decimals that prices are computed with are those of the block.
LabelsOfBlock ==
    follower.tracker.scanned # NeverScanned =>
        \A a \in Listed(registry[follower.at].assets) :
            \/ follower.tracker.cache[a].labels = registry[follower.at].assets[a].labels
            \/ Unnoticed(a)

\* The row that is shown is what the follower knows, unless the backfill came after it,
\* or a snapshot took back what a block of the node had changed.
Shown ==
    follower.tracker.scanned # NeverScanned /\ follower.step # "insert" =>
        \A a \in Listed(follower.tracker.cache) :
            table[a] = follower.tracker.cache[a] \/ a \in overwritten \cup hidden

\* The registry the prices and the API read: main-live follows every change that an event
\* tells of, others within an interval, and its rows reach the table whatever dies.
RegistrySound == AssetTypeOK /\ LabelsOfBlock /\ Shown
=============================================================================
