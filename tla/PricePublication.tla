-------------------------- MODULE PricePublication --------------------------
(***************************************************************************)
(* One price pipeline between the processor and ClickHouse: the batches of *)
(* src/indexer.ts, the commit protocol of src/db/database.ts and the       *)
(* inserts of src/store/clickhouseStore.ts.  Database.transact is not      *)
(* atomic: it is a sequence of probes and inserts, one pair per chunk and  *)
(* table, and a checkpoint at the end, and the process may die between any *)
(* two of them and run the same blocks again.                              *)
(***************************************************************************)
EXTENDS Integers, FiniteSets

CONSTANTS
    First, Last,   \* the blocks of the run; a live run starts at the head First
    Assets,        \* assets the pools price
    Moved,         \* blocks whose pools, or the KSM anchor, changed
    Swaps,         \* blocks with a swap, all of them in Moved
    Upgrades,      \* blocks that change the runtime version
    BATCH,         \* bound: blocks the processor hands over at once
    CHUNK,         \* rows of one insert
    Deferred,      \* a bounded historical run: publish once, at the end
    Fresh,         \* no checkpoint yet
    MaxCrashes,    \* bound: deaths of the process
    MaxLate        \* bound: inserts that ClickHouse finishes after the process died

ASSUME PublicationAssumption ==
    /\ First \in Nat /\ Last \in Nat /\ First <= Last
    /\ Moved \subseteq First .. Last
    /\ Swaps \subseteq Moved
    /\ Upgrades \subseteq First .. Last
    /\ BATCH \in Nat \ {0} /\ CHUNK \in Nat \ {0}
    /\ Deferred \in BOOLEAN /\ Fresh \in BOOLEAN
    /\ ~Fresh => First > 1
    /\ MaxCrashes \in Nat /\ MaxLate \in Nat

Height == First .. Last
NoItem == "-"

BlockRow(b) == [table |-> "blocks", block |-> b, item |-> NoItem]
PriceRows(b) == {[table |-> "prices", block |-> b, item |-> a] : a \in Assets}
VolumeRows(b) == {[table |-> "volumes", block |-> b, item |-> a] : a \in Assets}
UpgradeRow(b) == [table |-> "upgrades", block |-> b, item |-> NoItem]
\* Keyed without the block: a later copy only replaces the earlier one.
AssetRows == {[table |-> "assets", block |-> First, item |-> a] : a \in Assets}
ErrorNames == [table |-> "errors", block |-> First, item |-> NoItem]

Rows == AssetRows \cup {ErrorNames} \cup
            UNION {{BlockRow(b), UpgradeRow(b)} \cup PriceRows(b) \cup VolumeRows(b) : b \in Height}

VARIABLES
    written,   \* per row: inserts that carried it, up to 2; 1 for a replacing table
    ckpt,      \* indexer_state of the pipeline, 0 without a row
    pc,        \* the process
    pos,       \* last block handed to the batch handler
    first,     \* nothing has been handed over in this run
    buf,       \* rows buffered or deferred, not yet inserted
    chunk,     \* rows of the insert in hand
    fresh,     \* those of them the probe did not find
    late,      \* rows of an insert the server still holds after the process died
    crashes, lates

vars == <<written, ckpt, pc, pos, first, buf, chunk, fresh, late, crashes, lates>>
process == <<pc, pos, first, buf, chunk, fresh>>

Max2(a, b) == IF a >= b THEN a ELSE b
Min2(a, b) == IF a <= b THEN a ELSE b

----------------------------------------------------------------------------
(* The tables. *)

\* Insertion order of flushAll and publishDeferred.
\* Mutant: prices go before blocks.
RankPricesFirst(t) == CASE t = "prices" -> 1 [] t = "blocks" -> 2 [] t = "volumes" -> 3
                        [] t = "assets" -> 4 [] t = "upgrades" -> 5 [] t = "errors" -> 6
Rank(t) == CASE t = "blocks" -> 1 [] t = "prices" -> 2 [] t = "volumes" -> 3
             [] t = "assets" -> 4 [] t = "upgrades" -> 5 [] t = "errors" -> 6

\* Tables where a second copy of a row is a second row, or a second volume in the
\* ohlc views.  The other two replace by key and are inserted without a probe.
Probed(r) == r.table \in {"blocks", "prices", "volumes", "upgrades"}

Stored == {r \in Rows : written[r] > 0}

\* One insert statement.
InsertInto(w, rows) ==
    [r \in Rows |-> IF r \in rows THEN Min2(w[r] + 1, IF Probed(r) THEN 2 ELSE 1) ELSE w[r]]

----------------------------------------------------------------------------
(* The process. *)

Heights == {b \in Height : BlockRow(b) \in Stored}
Highest(S) == CHOOSE b \in S : \A c \in S : c <= b

\* Where the run begins, as the last block it takes for done.  A bounded run starts
\* at its first block, or behind its checkpoint, which a range from genesis ignores.
\* A live run starts behind its checkpoint; without one the supervisor sends it
\* above the highest block of the table, and on an empty table to the chain head.
StartPos ==
    IF Deferred THEN Max2(First - 1, IF First = 0 THEN -1 ELSE ckpt)
    ELSE IF ckpt > 0 THEN ckpt
    ELSE IF Heights # {} THEN Highest(Heights)
    ELSE First - 1

Start ==
    /\ pc = "down"
    /\ pc' = "batch"
    /\ pos' = StartPos
    /\ first' = TRUE
    /\ buf' = {} /\ chunk' = {} /\ fresh' = {}
    /\ UNCHANGED <<written, ckpt, late, crashes, lates>>

\* What the handler computes for one block.  A block whose pools did not move is
\* skipped once there are previous prices; an upgrade is seen against the previous
\* block of the same run.
RowsOf(b, isFirst) ==
    {BlockRow(b)}
    \cup (IF b \in Moved \/ isFirst THEN PriceRows(b) ELSE {})
    \cup (IF b \in Swaps THEN VolumeRows(b) ELSE {})
    \cup (IF b \in Upgrades /\ ~isFirst THEN {UpgradeRow(b), ErrorNames} ELSE {})
    \cup (IF isFirst THEN AssetRows \cup {ErrorNames} ELSE {})

\* Mutant: publish past the end only.
PublishNowPastEnd(m) == ~Deferred \/ m > Last
PublishNow(m) == ~Deferred \/ m >= Last

\* Database.transact up to flushAll, which only stages the rows of a deferred run.
Batch ==
    /\ pc = "batch"
    /\ \E m \in (pos + 1) .. Min2(pos + BATCH, Last) :
        /\ pos' = m
        /\ buf' = buf \cup UNION {RowsOf(b, first /\ b = pos + 1) : b \in (pos + 1) .. m}
        /\ pc' = IF PublishNow(m) THEN "probe" ELSE "batch"
    /\ first' = FALSE
    /\ UNCHANGED <<written, ckpt, chunk, fresh, late, crashes, lates>>

\* A chunk of the first table with rows left, in the order they were added.
IsChunk(S) ==
    /\ S \in SUBSET buf /\ S # {}
    /\ \A r, s \in S : r.table = s.table
    /\ \A r \in S : \A s \in buf \ S :
          \/ Rank(r.table) < Rank(s.table)
          \/ r.table = s.table /\ r.block <= s.block /\ Cardinality(S) = CHUNK
    /\ Cardinality(S) <= CHUNK

\* Mutant: the rows go out without the probe.
UnseenAll(S) == S
\* existingPriceKeys and its siblings.
Unseen(S) == {r \in S : ~Probed(r) \/ r \notin Stored}

\* The query before the insert; with nothing new there is no insert.
Probe ==
    /\ pc = "probe"
    /\ \E S \in SUBSET buf :
        /\ IsChunk(S)
        /\ chunk' = S
        /\ fresh' = Unseen(S)
    /\ pc' = "insert"
    /\ UNCHANGED <<written, ckpt, pos, first, buf, late, crashes, lates>>

\* Mutant: what is left after one chunk of a table is dropped.
RestOfDropsTable(S) == {r \in buf : \A s \in S : r.table # s.table}
RestOf(S) == buf \ S

Insert ==
    /\ pc = "insert"
    /\ written' = InsertInto(written, fresh)
    /\ buf' = RestOf(chunk)
    /\ pc' = IF buf' = {} THEN "checkpoint" ELSE "probe"
    /\ chunk' = {} /\ fresh' = {}
    /\ UNCHANGED <<ckpt, pos, first, late, crashes, lates>>

\* saveCheckpoint.  A bounded run ends when it is through.
Checkpoint ==
    /\ pc = "checkpoint"
    /\ ckpt' = pos
    /\ pc' = IF Deferred THEN "done" ELSE "batch"
    /\ UNCHANGED <<written, pos, first, buf, chunk, fresh, late, crashes, lates>>

\* The process dies: killed, or on any error, since nothing above catches one.  An
\* insert on the wire is lost, or goes on in ClickHouse without its client.
Crash ==
    /\ pc \notin {"down", "done"}
    /\ crashes < MaxCrashes
    /\ crashes' = crashes + 1
    /\ pc' = "down"
    /\ buf' = {} /\ chunk' = {} /\ fresh' = {}
    /\ \/ UNCHANGED <<late, lates>>
       \/ /\ pc = "insert" /\ fresh # {} /\ late = {} /\ lates < MaxLate
          /\ late' = fresh
          /\ lates' = lates + 1
    /\ UNCHANGED <<written, ckpt, pos, first>>

LateInsert ==
    /\ late # {}
    /\ written' = InsertInto(written, late)
    /\ late' = {}
    /\ UNCHANGED <<ckpt, process, crashes, lates>>

----------------------------------------------------------------------------
Init ==
    /\ written = [r \in Rows |-> 0]
    /\ ckpt = IF Fresh THEN 0 ELSE First - 1
    /\ pc = "down"
    /\ pos = First - 1
    /\ first = TRUE
    /\ buf = {} /\ chunk = {} /\ fresh = {} /\ late = {}
    /\ crashes = 0 /\ lates = 0

Step == Start \/ Batch \/ Probe \/ Insert \/ Checkpoint

Next == Step \/ Crash \/ LateInsert

Spec == Init /\ [][Next]_vars

\* An insert that outlives its client is left to PriceTools, which meets it with the
\* repair tools; the promise of the probes is about the inserts that do not.
Prompt == Step \/ Crash

\* The supervisor restarts a dead process and a live one goes on; nothing makes it
\* crash.
FairSpec == Init /\ [][Prompt]_vars /\ WF_vars(Step)

----------------------------------------------------------------------------
(* Properties. *)

\* The type invariant, with the process never outside its blocks.
TypeOK ==
    /\ written \in [Rows -> 0 .. 2]
    /\ ckpt \in {0} \cup (First - 1 .. Last)
    /\ pc \in {"down", "batch", "probe", "insert", "checkpoint", "done"}
    /\ pos \in First - 1 .. Last
    /\ first \in BOOLEAN
    /\ buf \in SUBSET Rows /\ chunk \in SUBSET Rows /\ fresh \in SUBSET Rows
    /\ fresh \subseteq chunk /\ chunk \subseteq buf
    /\ late \in SUBSET Rows
    /\ crashes \in 0 .. MaxCrashes /\ lates \in 0 .. MaxLate

\* No replay, of a batch or of half a batch, counts a row twice (the comment over
\* ClickHouseStore: the probes "are what stop a replay from double-counting").
ExactlyOnce == \A r \in Rows : written[r] <= 1

\* What a block owes its readers: its own row, prices if its pools moved, volumes
\* if it traded.
Owed(b) ==
    {BlockRow(b)} \cup (IF b \in Moved THEN PriceRows(b) ELSE {})
                  \cup (IF b \in Swaps THEN VolumeRows(b) ELSE {})

\* The checkpoint, where there is one, never runs ahead of the tables.
CheckpointCovers ==
    ckpt > 0 => \A b \in Height : b <= ckpt => Owed(b) \subseteq Stored

\* "every visible price has corresponding block metadata" (comment of flushAll).
PricesHaveBlocks ==
    \A r \in Stored : r.table \in {"prices", "volumes"} => BlockRow(r.block) \in Stored

\* A bounded run shows nothing of its range before it has computed all of it, so a
\* range that fails half way leaves no block below the frontier of the main table.
NothingBeforeTheEnd ==
    [][Deferred /\ Stored = {} /\ Stored' # {} => pos = Last]_vars

\* Every block is published in the end, with everything it owes.
Published == ckpt = Last /\ \A b \in Height : Owed(b) \subseteq Stored
EventuallyPublished == <>[]Published

\* Blocks up to here are settled: the checkpoint, or none of the run's blocks.
Mark == IF ckpt > 0 THEN ckpt ELSE First - 1

\* The pipeline implements the ledger, over the rows that must not be doubled.
Ledger == INSTANCE PublicationLedger
             WITH Rows <- {r \in Rows : Probed(r)},
                  Owed <- Owed,
                  copies <- [r \in {s \in Rows : Probed(s)} |-> written[r]],
                  mark <- Mark
ImplementsLedger == Ledger!Spec

----------------------------------------------------------------------------
(* Statements of the repository that its code does not keep.  README.md gives *)
(* the constants under which TLC finds a counterexample to each.             *)

\* An upgrade that the pipeline has passed is on record ("Writes and checkpoints are
\* designed for replay and crash recovery", README.md).
UpgradesRecorded ==
    \A b \in Upgrades : First < b /\ b <= ckpt => UpgradeRow(b) \in Stored
=============================================================================
