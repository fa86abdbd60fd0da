----------------------------- MODULE PriceTools -----------------------------
(***************************************************************************)
(* The tools an operator runs on the price tables: the rollback and the    *)
(* candle repair of src/cli.ts and src/scripts/repair-volume.ts, over the  *)
(* queries of src/ohlc/repair.ts, beside a live pipeline (PricePublication) *)
(* that may be running.  Every statement is a step.  The candle tables are *)
(* fed by views that fire on an insert into prices and on nothing else, so *)
(* a deleted price leaves what it once added to its candle.                *)
(***************************************************************************)
EXTENDS PricePublication

CONSTANTS
    Candles,         \* interval tables, OHLC_TABLE_SPECS
    Width,           \* blocks in an interval of each
    CHUNK_SIZE,      \* blocks of one chunk of the volume repair
    SAFETY_LAG,      \* DEFAULT_SAFETY_LAG_BLOCKS
    Exotic,          \* blocks with a swap against an asset that is never priced
    ToolsAlone,      \* the pipeline is stopped while a rollback runs
    MaxTools,        \* bound: tools started
    MaxToolCrashes   \* bound: deaths of a tool

ASSUME ToolsAssumption ==
    /\ Width \in [Candles -> Nat \ {0}]
    /\ CHUNK_SIZE \in Nat \ {0} /\ SAFETY_LAG \in Nat
    /\ Exotic \subseteq Height
    /\ ToolsAlone \in BOOLEAN
    /\ MaxTools \in Nat /\ MaxToolCrashes \in Nat

VARIABLES
    value,     \* of a price row: the volumes of the pipeline, or corrected ones
    candles,   \* per table and price row: how often each of the two is in its candle
    tool,      \* the tool at work
    torn,      \* history: a tool died where running it again does not help
    dirty,     \* history: intervals the pipeline fed between clearing and rebuilding
    tools, toolCrashes

toolVars == <<value, candles, tool, torn, dirty, tools, toolCrashes>>
history == <<torn, dirty, tools, toolCrashes>>

Values == {"pipeline", "corrected"}
Prices == UNION {PriceRows(b) : b \in Height}
NoTable == [v \in Values |-> 0]

\* toStartOfInterval of a block's time.  No block is in the interval of NoTime.
Interval(t, b) == b \div Width[t]
NoTime == -1
Covered(t, r) == Interval(t, tool.from) <= Interval(t, r.block)
                 /\ Interval(t, r.block) <= Interval(t, tool.to)

----------------------------------------------------------------------------
(* The pipeline, and the views that its inserts feed. *)

\* Copies a statement adds to a row.
Added(r) == written'[r] - written[r]

\* A candle that takes a copy of a price row with these volumes.
Counted(candle, v) == [candle EXCEPT ![v] = Min2(@ + 1, 2)]

\* INSERT INTO prices: the views add each new copy to the candle of its block.
Fed(rows, v) ==
    [t \in Candles |-> [r \in Prices |->
        IF r \in rows THEN Counted(candles[t][r], v) ELSE candles[t][r]]]

\* Tables that are cleared and not rebuilt yet.
Cleared == IF tool.step = "clear" THEN Candles \ tool.todo
           ELSE IF tool.step \in {"rebuild", "restore"} THEN tool.todo ELSE {}

Paused == ToolsAlone /\ tool.kind = "rollback" /\ tool.step # "dead"

Pipeline ==
    /\ Next
    /\ Paused => pc' = "down"
    /\ LET rows == {r \in Prices : Added(r) > 0}
       IN /\ value' = [r \in Prices |-> IF r \in rows THEN "pipeline" ELSE value[r]]
          /\ candles' = Fed(rows, "pipeline")
          /\ dirty' = dirty \cup
                {[table |-> p[1], interval |-> Interval(p[1], p[2].block), kind |-> tool.kind, upTo |-> tool.to] :
                    p \in {q \in Cleared \X rows : Covered(q[1], q[2])}}
    /\ UNCHANGED <<tool, torn, tools, toolCrashes>>

----------------------------------------------------------------------------
(* Starting a tool. *)

NoTool == [kind |-> "none", step |-> "idle", at |-> 0, from |-> 0, to |-> 0, todo |-> {}, filter |-> FALSE]

\* max(block_height) of blocks, less the lag.
\* Mutant: the lag is forgotten.
SafeTipNoLag == IF Heights = {} THEN 0 ELSE Highest(Heights)
SafeTip == IF Heights = {} THEN 0 ELSE Max2(0, Highest(Heights) - SAFETY_LAG)

\* --rollback-to-block
Rollback(target) == [NoTool EXCEPT !.kind = "rollback", !.step = "range", !.at = target]

\* --repair-ohlc-from and -to
RepairOHLC(from, to) ==
    [NoTool EXCEPT !.kind = "ohlc", !.step = "clear", !.from = from, !.to = to, !.todo = Candles]

\* resolveRange.  The prices target brings the candles with it (parseArgs).
RepairVolume(from, filter) ==
    [NoTool EXCEPT !.kind = "volume", !.step = "read", !.at = from, !.from = from,
                   !.to = SafeTip, !.filter = filter]

\* The operator names a block that the pipeline has reached; the tool does not ask.
Reached == {b \in Height : b <= ckpt + 1}

Startable ==
    {Rollback(b) : b \in Reached}
    \cup {RepairOHLC(p[1], p[2]) : p \in {q \in Height \X Height : q[1] <= q[2]}}
    \cup {RepairVolume(b, f) : b \in {c \in Height : c <= SafeTip}, f \in BOOLEAN}

MayRun(kind) == kind = "rollback" /\ ToolsAlone => pc = "down"

StartTool ==
    /\ tool.kind = "none"
    /\ tools < MaxTools
    /\ tools' = tools + 1
    /\ tool' \in {t \in Startable : MayRun(t.kind)}
    /\ UNCHANGED <<vars, value, candles, torn, dirty, toolCrashes>>

\* The operator runs the command line again that died or threw.
Again ==
    CASE tool.kind = "rollback" -> Rollback(tool.at)
      [] tool.kind = "ohlc" -> RepairOHLC(tool.from, tool.to)
      [] tool.kind = "volume" -> RepairVolume(tool.from, tool.filter)

Rerun ==
    /\ tool.step = "dead"
    /\ MayRun(tool.kind)
    /\ tool' = Again
    /\ Again.kind = "volume" => Again.from <= Again.to
    /\ UNCHANGED <<vars, value, candles, history>>

\* Where no second run can help: the rollback finds the time range in the blocks it
\* deletes, and the volume repair holds the prices it deleted in memory.
Tears == \/ tool.kind = "rollback" /\ tool.step \in {"upgrades", "clear", "restore"}
         \/ tool.kind = "volume" /\ tool.step = "addPrices"

ToolCrash ==
    /\ tool.step \notin {"idle", "dead"}
    /\ toolCrashes < MaxToolCrashes
    /\ toolCrashes' = toolCrashes + 1
    /\ torn' = (torn \/ Tears)
    /\ tool' = [tool EXCEPT !.step = "dead"]
    /\ UNCHANGED <<vars, value, candles, dirty, tools>>

----------------------------------------------------------------------------
(* The rollback: rollbackToBlock. *)

\* DELETE FROM a table, synchronous; no view fires.
Delete(rows) ==
    /\ written' = [r \in Rows |-> IF r \in rows THEN 0 ELSE written[r]]
    /\ value' = [r \in Prices |-> IF r \in rows THEN "pipeline" ELSE value[r]]
    /\ UNCHANGED <<ckpt, process, late, crashes, lates, candles, history>>

From(table, b) == {r \in Rows : r.table = table /\ r.block >= b}

\* min() and max() of the times of the blocks that go; of none, the epoch.
RollbackRange ==
    /\ tool.step = "range"
    /\ LET gone == {b \in Heights : b >= tool.at}
       IN tool' = [tool EXCEPT !.step = "prices",
                               !.from = IF gone = {} THEN NoTime ELSE CHOOSE b \in gone : \A c \in gone : b <= c,
                               !.to = IF gone = {} THEN NoTime ELSE Highest(gone)]
    /\ UNCHANGED <<vars, value, candles, history>>

\* One DELETE after another; the step is named for the table that comes next.
AfterDelete == [prices |-> "volumes", volumes |-> "blocks", blocks |-> "upgrades", upgrades |-> "clear"]

RollbackDelete ==
    /\ tool.kind = "rollback" /\ tool.step \in DOMAIN AfterDelete
    /\ Delete(From(tool.step, tool.at))
    /\ tool' = [tool EXCEPT !.step = AfterDelete[tool.step], !.todo = Candles]

\* restoreRollbackOHLCPrefix: what the prices below the first deleted block add to
\* the interval of that block.
Prefix(t) == {r \in Prices : /\ r \in Stored
                             /\ BlockRow(r.block) \in Stored
                             /\ Interval(t, r.block) = Interval(t, tool.from)
                             /\ r.block < tool.from}

\* Mutant: the checkpoint is put on the first deleted block.
RolledBackToTarget == tool.at
RolledBackTo == tool.at - 1

RollbackCheckpoint ==
    /\ tool.step = "checkpoint"
    /\ ckpt' = RolledBackTo
    /\ tool' = NoTool
    /\ UNCHANGED <<written, process, late, crashes, lates, value, candles, history>>

----------------------------------------------------------------------------
(* Candles: clearOHLCForTimeRange, restoreRollbackOHLCPrefix and the second    *)
(* half of rebuildOHLCForTimeRange, one table at a time.                       *)

ClearTable ==
    /\ tool.step = "clear"
    /\ \E t \in tool.todo :
        /\ candles' = [candles EXCEPT ![t] = [r \in Prices |-> IF Covered(t, r) THEN NoTable ELSE candles[t][r]]]
        /\ tool' = IF tool.todo # {t} THEN [tool EXCEPT !.todo = @ \ {t}]
                   ELSE [tool EXCEPT !.step = IF tool.kind = "rollback" THEN "restore" ELSE "rebuild",
                                     !.todo = Candles]
        /\ dirty' = {d \in dirty : d.table = t => d.interval \notin Interval(t, tool.from) .. Interval(t, tool.to)}
    /\ UNCHANGED <<vars, value, torn, tools, toolCrashes>>

\* What the INSERT ... SELECT finds: stored prices of the intervals with a block row.
Rebuilt(t) == {r \in Prices : r \in Stored /\ BlockRow(r.block) \in Stored /\ Covered(t, r)}

FillTable ==
    /\ tool.step \in {"restore", "rebuild"}
    /\ \E t \in tool.todo :
        /\ LET rows == IF tool.step = "restore" THEN Prefix(t) ELSE Rebuilt(t)
           IN candles' = [candles EXCEPT ![t] = [r \in Prices |->
                            IF r \in rows THEN Counted(candles[t][r], value[r]) ELSE candles[t][r]]]
        /\ tool' = IF tool.todo # {t} THEN [tool EXCEPT !.todo = @ \ {t}]
                   ELSE IF tool.step = "restore" THEN [tool EXCEPT !.step = "checkpoint"]
                   ELSE NoTool
    /\ UNCHANGED <<vars, value, history>>

----------------------------------------------------------------------------
(* The volume repair: repairChunk for chunk after chunk. *)

ChunkEnd == Min2(tool.to, tool.at + CHUNK_SIZE - 1)
InChunk == tool.at .. ChunkEnd

\* rowsForTrade and its aggregation: the keys whose volumes the raw swaps give.
Corrected == UNION {PriceRows(b) : b \in Swaps \cap InChunk}

\* A swap leg of a priced asset without its price throws, and so does a corrected row
\* of an asset that has no price row, unless a filter has dropped it before.
Refused == ~(Corrected \subseteq Stored) \/ (~tool.filter /\ Exotic \cap InChunk # {})

\* The reads of a chunk.
ReadChunk ==
    /\ tool.step = "read"
    /\ tool' = [tool EXCEPT !.step = IF Refused THEN "dead" ELSE "dropVolumes"]
    /\ UNCHANGED <<vars, value, candles, history>>

DropVolumes ==
    /\ tool.step = "dropVolumes"
    /\ Delete({r \in Rows : r.table = "volumes" /\ r.block \in InChunk})
    /\ tool' = [tool EXCEPT !.step = "addVolumes"]

AddVolumes ==
    /\ tool.step = "addVolumes"
    /\ written' = InsertInto(written, UNION {VolumeRows(b) : b \in Swaps \cap InChunk})
    /\ tool' = [tool EXCEPT !.step = "dropPrices"]
    /\ UNCHANGED <<ckpt, process, late, crashes, lates, value, candles, history>>

DropPrices ==
    /\ tool.step = "dropPrices"
    /\ Delete(Corrected)
    /\ tool' = [tool EXCEPT !.step = "addPrices"]

\* Mutant: the candles are not rebuilt after the prices (--skip-ohlc is obeyed).
AfterChunksSkipped == NoTool
AfterChunks == [tool EXCEPT !.step = "clear", !.todo = Candles]

AddPrices ==
    /\ tool.step = "addPrices"
    /\ written' = InsertInto(written, Corrected)
    /\ value' = [r \in Prices |-> IF r \in Corrected THEN "corrected" ELSE value[r]]
    /\ candles' = Fed(Corrected, "corrected")
    /\ tool' = IF ChunkEnd < tool.to THEN [tool EXCEPT !.step = "read", !.at = ChunkEnd + 1]
               ELSE AfterChunks
    /\ UNCHANGED <<ckpt, process, late, crashes, lates, history>>

----------------------------------------------------------------------------
ToolsInit ==
    /\ Init
    /\ value = [r \in Prices |-> "pipeline"]
    /\ candles = [t \in Candles |-> [r \in Prices |-> NoTable]]
    /\ tool = NoTool
    /\ torn = FALSE /\ dirty = {}
    /\ tools = 0 /\ toolCrashes = 0

ToolStep ==
    \/ RollbackRange \/ RollbackDelete \/ RollbackCheckpoint
    \/ ClearTable \/ FillTable
    \/ ReadChunk \/ DropVolumes \/ AddVolumes \/ DropPrices \/ AddPrices

ToolsNext == Pipeline \/ StartTool \/ Rerun \/ ToolCrash \/ ToolStep

ToolsSpec == ToolsInit /\ [][ToolsNext]_<<vars, toolVars>>

----------------------------------------------------------------------------
(* Properties. *)

ToolsTypeOK ==
    /\ TypeOK
    /\ value \in [Prices -> Values]
    /\ candles \in [Candles -> [Prices -> [Values -> 0 .. 2]]]
    /\ tool.kind \in {"none", "rollback", "ohlc", "volume"}
    /\ tool.kind = "none" <=> tool.step = "idle"
    /\ tool.todo \subseteq Candles
    /\ tools \in 0 .. MaxTools /\ toolCrashes \in 0 .. MaxToolCrashes

\* No tool is half way, and none was left where it cannot be finished.
Settled == tool.kind = "none" /\ ~torn

\* "every visible price has corresponding block metadata" (comment of flushAll), with
\* a rollback taking rows away as well, which deletes prices first.
VisiblePrices == PricesHaveBlocks

\* What the safety lag is for: intervals that end at or below the safe tip are rebuilt
\* while nobody feeds them.
LagProtects ==
    \A d \in dirty : d.kind = "volume" =>
        \E b \in Height : Interval(d.table, b) = d.interval /\ b > d.upTo

\* An insert that outlives its client may land anywhere between two steps of a tool.
Inv == ToolsTypeOK /\ (lates = 0 => VisiblePrices /\ LagProtects)

\* A candle holds each stored price of its interval once, with the volumes it has now,
\* and nothing of a price that is gone: after every rollback and the replay it leads
\* to, after every repair, through deaths and second runs.  Only an interval that was
\* fed while it was being rebuilt may not.
Contribution(r) == [v \in Values |-> IF r \in Stored /\ value[r] = v THEN 1 ELSE 0]
CandlesExact ==
    Settled /\ lates = 0 =>
        \A t \in Candles : \A r \in Prices :
            \/ candles[t][r] = Contribution(r)
            \/ \E d \in dirty : d.table = t /\ d.interval = Interval(t, r.block)

\* A tool that is through has left nothing missing under the checkpoint: a rollback has
\* moved it below all it deleted, a repair has put back all it took out.
CheckpointKept == Settled => CheckpointCovers
=============================================================================
