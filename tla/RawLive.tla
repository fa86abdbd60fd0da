------------------------------ MODULE RawLive ------------------------------
(***************************************************************************)
(* The raw-live follower and its healer.  The container raw-live runs      *)
(* src/raw/indexer.ts without bounds: it resumes from its row in           *)
(* raw_ingestion_state, waits at the finality gate, and follows finalized  *)
(* blocks.  heal_live_raw_reorg in scripts/ingestion-supervisor.sh walks   *)
(* that row back when the block it names has left the chain.  The two      *)
(* share the row and raw_blocks and nothing else; the healer reads them    *)
(* and the node one call at a time while the follower goes on.             *)
(***************************************************************************)
EXTENDS Integers, FiniteSets

CONSTANTS
    Top,                \* bound: highest finalized height
    MaxReorgs,          \* bound: how often finalized blocks are replaced
    MaxCrashes,         \* bound: crashes of the follower, stops of the healer
    MaxUnanswered,      \* RAW_LIVE_FINALITY_MAX_UNANSWERED
    REORG_MAX_DEPTH     \* how far below its checkpoint the healer looks

ASSUME ConstantsAssumption ==
    /\ Top \in Nat \ {0}
    /\ MaxReorgs \in Nat
    /\ MaxCrashes \in Nat
    /\ MaxUnanswered \in Nat \ {0}
    /\ REORG_MAX_DEPTH \in Nat \ {0}

Height == 0 .. Top

\* A block hash is its height and the branch that minted it.
Branch == 0 .. MaxReorgs
Missing == -1
NoRow == [height |-> 0, hash |-> Missing]
Row == [height : Height, hash : Branch \cup {Missing}]

VARIABLES
    lineage,    \* node: the chain every branch belongs to, by the branch of each height
    branch,     \* node: the branch whose chain is the finalized one
    head,       \* node: finalized height
    ckpt,       \* raw_ingestion_state FINAL of raw-live, NoRow without a row
    aged,       \* its updated_at is REORG_STALL_SECONDS old
    raw,        \* raw_blocks FINAL: the branch of the stored block
    seams,      \* history: stored heights nothing has checked against the one below
    pc,         \* the follower
    last,       \* follower: lastProcessedBlock, what the gate compares with
    start,      \* follower: lower end of setBlockRange
    unanswered, \* follower: consecutive polls of the gate without an answer
    pos,        \* follower: last block handed to the batch callback
    prev,       \* follower: previousBlockHash, Missing when it is null
    buf,        \* follower: blocks buffered and not flushed
    heal,       \* healer: step, the row it read, the probe and what it found stored;
                \* history: the branch finalized when it read the row
    spent       \* how much of the bounds is used

node == <<lineage, branch, head>>
tables == <<ckpt, aged, raw, seams>>
run == <<last, start, unanswered, pos, prev, buf>>
follower == <<pc, run>>
vars == <<lineage, branch, head, ckpt, aged, raw, seams, pc, last, start,
          unanswered, pos, prev, buf, heal, spent>>

Min2(a, b) == IF a <= b THEN a ELSE b
Max2(a, b) == IF a >= b THEN a ELSE b
Chain == lineage[branch]
OnChain(row) == row.hash = Missing \/ Chain[row.height] = row.hash
\* The parent a block names, looked up among what is stored.
Linked(h, b) == raw[h - 1] = lineage[b][h - 1]

----------------------------------------------------------------------------
(* The node, and the backfill that fills history below the follower. *)

Finalize ==
    /\ head < Top
    /\ head' = head + 1
    /\ UNCHANGED <<lineage, branch, tables, follower, heal, spent>>

\* Finalized blocks above f leave the chain; genesis stays, and at least one block
\* is still to come.
Reorg(f) ==
    /\ spent.reorgs < MaxReorgs
    /\ f < head
    /\ head < Top
    /\ branch' = branch + 1
    /\ lineage' = [lineage EXCEPT
                      ![branch + 1] = [h \in Height |-> IF h <= f THEN Chain[h] ELSE branch + 1]]
    /\ spent' = [spent EXCEPT !.reorgs = @ + 1]
    /\ UNCHANGED <<head, tables, follower, heal>>

\* A range worker stores a block below everything raw-live has stored.
Backfill(h) ==
    /\ ckpt # NoRow
    /\ \A g \in 0 .. h : raw[g] = Missing
    /\ \E g \in Height : g = h + 1 /\ raw[g] # Missing
    /\ raw' = [raw EXCEPT ![h] = Chain[h]]
    /\ seams' = seams \cup {h, h + 1}
    /\ UNCHANGED <<node, ckpt, aged, follower, heal, spent>>

----------------------------------------------------------------------------
(* The follower: src/raw/indexer.ts, finalityGate.ts, database.ts *)

\* connect reads the row; a follower without one starts at the chain head, which
\* is the finalized height or the one above it, or at block 0 if nobody answers.
Connect ==
    /\ pc = "boot"
    /\ last' = ckpt.height
    /\ start' \in IF ckpt = NoRow THEN {0, head, Min2(head + 1, Top)} ELSE {ckpt.height}
    /\ unanswered' = 0
    /\ pc' = "gate"
    /\ UNCHANGED <<node, tables, pos, prev, buf, heal, spent>>

\* waitForFinalityAbove: a poll nobody answered.  The budget runs out or the gate
\* polls again.
GateUnanswered ==
    /\ pc = "gate"
    /\ unanswered' = unanswered + 1
    /\ pc' = IF unanswered + 1 >= MaxUnanswered THEN "down" ELSE "gate"
    /\ UNCHANGED <<node, tables, last, start, pos, prev, buf, heal, spent>>

\* Only a real answer clears the budget.
GateAnswered ==
    /\ pc = "gate"
    /\ unanswered' = 0
    /\ pc' = IF head > last THEN "start" ELSE "gate"
    /\ UNCHANGED <<node, tables, last, start, pos, prev, buf, heal, spent>>

\* rawProcessor.run, external: it connects again, crashes in processHotBlocks
\* unless finality is above the row, and aborts when the row's block is not found
\* on the chain.
RunnerStart ==
    /\ pc = "start"
    /\ pc' = IF head <= ckpt.height THEN "hot"
             ELSE IF OnChain(ckpt) THEN "follow"
             ELSE "down"
    /\ pos' = Max2(start - 1, ckpt.height)
    /\ prev' = Missing
    /\ buf' = {}
    /\ UNCHANGED <<node, tables, last, start, unanswered, heal, spent>>

\* Mutant: the parent hash is not compared.
IngestUnchecked ==
    /\ pc = "follow"
    /\ pos < head
    /\ pos' = pos + 1
    /\ prev' = Chain[pos + 1]
    /\ buf' = buf \cup {[height |-> pos + 1, hash |-> Chain[pos + 1], first |-> prev = Missing]}
    /\ UNCHANGED <<pc, node, tables, last, start, unanswered, heal, spent>>

\* The batch callback.  The parent hash is checked against the previous block of
\* this run; the first block of a run has none.
Ingest ==
    /\ pc = "follow"
    /\ pos < head
    /\ IF prev \in {Missing, Chain[pos]}
       THEN /\ pos' = pos + 1
            /\ prev' = Chain[pos + 1]
            /\ buf' = buf \cup {[height |-> pos + 1, hash |-> Chain[pos + 1], first |-> prev = Missing]}
            /\ UNCHANGED pc
       ELSE /\ pc' = "down"
            /\ UNCHANGED <<pos, prev, buf>>
    /\ UNCHANGED <<node, tables, last, start, unanswered, heal, spent>>

Buffered(h) == {b \in buf : b.height = h}

\* raw_blocks when the buffer is in it: the rows written last win.
Merged == [h \in Height |-> IF Buffered(h) = {} THEN raw[h]
                            ELSE (CHOOSE b \in Buffered(h) : TRUE).hash]

\* What an earlier run has left above the buffer.  With a checkpoint this run goes on to
\* replace it; without one the next run may begin anywhere.
LeftAbove ==
    {h \in Height : /\ ckpt = NoRow /\ raw[h] # Missing
                    /\ Buffered(h) = {} /\ Buffered(h - 1) # {}}

MergedSeams ==
    {h \in seams : Buffered(h) = {}} \cup {b.height : b \in {c \in buf : c.first}} \cup LeftAbove

\* transact: after any batch that trips shouldFlushRaw.
Flush ==
    /\ pc = "follow"
    /\ buf # {}
    /\ raw' = Merged
    /\ seams' = MergedSeams
    /\ buf' = {}
    /\ pc' = "checkpoint"
    /\ UNCHANGED <<node, ckpt, aged, last, start, unanswered, pos, prev, heal, spent>>

\* transact, saveCheckpoint.
SaveCheckpoint ==
    /\ pc = "checkpoint"
    /\ ckpt' = [height |-> pos, hash |-> prev]
    /\ aged' = FALSE
    /\ pc' = "follow"
    /\ UNCHANGED <<node, raw, seams, run, heal, spent>>

Crash ==
    /\ pc # "down"
    /\ spent.crashes < MaxCrashes
    /\ pc' = "down"
    /\ spent' = [spent EXCEPT !.crashes = @ + 1]
    /\ UNCHANGED <<node, tables, run, heal>>

\* The container's restart policy.
Restart ==
    /\ pc \in {"down", "hot"}
    /\ pc' = "boot"
    /\ UNCHANGED <<node, tables, run, heal, spent>>

----------------------------------------------------------------------------
(* The healer: heal_live_raw_reorg.  Every call it makes is a step. *)

\* Time passes without a new checkpoint.
Age ==
    /\ ckpt # NoRow
    /\ ~aged
    /\ aged' = TRUE
    /\ UNCHANGED <<node, ckpt, raw, seams, follower, heal, spent>>

Idle == [step |-> "idle", row |-> NoRow, probe |-> 0, stored |-> Missing, seen |-> 0]

\* Mutant: the last depth is not tried.
DeeperOffByOne(h) ==
    LET probe == h.probe - 1
    IN  IF h.row.height - probe < REORG_MAX_DEPTH /\ probe >= 0
        THEN [h EXCEPT !.step = "stored", !.probe = probe]
        ELSE Idle

\* The search goes one deeper, or gives up.
Deeper(h) ==
    LET probe == h.probe - 1
    IN  IF h.row.height - probe <= REORG_MAX_DEPTH /\ probe >= 0
        THEN [h EXCEPT !.step = "stored", !.probe = probe]
        ELSE Idle

\* The row raw-live would resume from, if it is stale.
HealRead ==
    /\ heal.step = "idle"
    /\ ckpt # NoRow
    /\ aged
    /\ heal' = [step |-> "chain", row |-> ckpt, probe |-> ckpt.height,
                stored |-> Missing, seen |-> branch]
    /\ UNCHANGED <<node, tables, follower, spent>>

\* rpc_block_hash of the row's height: no answer or the same hash ends the pass.
HealCheckAnswered ==
    /\ heal.step = "chain"
    /\ heal' = IF Chain[heal.row.height] = heal.row.hash THEN Idle ELSE Deeper(heal)
    /\ UNCHANGED <<node, tables, follower, spent>>

\* Mutant: an outage is taken for a reorg.
HealCheckOutage ==
    /\ heal.step = "chain"
    /\ heal' = Deeper(heal)
    /\ UNCHANGED <<node, tables, follower, spent>>

HealCheckUnanswered ==
    /\ heal.step = "chain"
    /\ heal' = Idle
    /\ UNCHANGED <<node, tables, follower, spent>>

\* stored_block_hash of the probe; a height without a row is passed over.
HealStored ==
    /\ heal.step = "stored"
    /\ heal' = IF raw[heal.probe] = Missing THEN Deeper(heal)
               ELSE [heal EXCEPT !.step = "compare", !.stored = raw[heal.probe]]
    /\ UNCHANGED <<node, tables, follower, spent>>

\* rpc_block_hash of the probe against what is stored there.
HealCompareAnswered ==
    /\ heal.step = "compare"
    /\ heal' = IF Chain[heal.probe] = heal.stored
               THEN [heal EXCEPT !.step = "insert"] ELSE Deeper(heal)
    /\ UNCHANGED <<node, tables, follower, spent>>

HealCompareUnanswered ==
    /\ heal.step = "compare"
    /\ heal' = Deeper(heal)
    /\ UNCHANGED <<node, tables, follower, spent>>

\* The rollback: a new row, stamped now.
HealInsert ==
    /\ heal.step = "insert"
    /\ ckpt' = [height |-> heal.probe, hash |-> heal.stored]
    /\ aged' = FALSE
    /\ heal' = [heal EXCEPT !.step = "restart"]
    /\ UNCHANGED <<node, raw, seams, follower, spent>>

\* docker compose restart: the follower is stopped and started, or the call fails
\* and it is left to its restart policy.
HealRestart ==
    /\ heal.step = "restart"
    /\ heal' = Idle
    /\ pc' \in {"boot", pc}
    /\ UNCHANGED <<node, tables, run, spent>>

\* A failed insert ends the pass, and so does the end of the supervisor.
HealStops ==
    /\ heal.step # "idle"
    /\ spent.crashes < MaxCrashes
    /\ heal' = Idle
    /\ spent' = [spent EXCEPT !.crashes = @ + 1]
    /\ UNCHANGED <<node, tables, follower>>

----------------------------------------------------------------------------
Init ==
    /\ lineage = [b \in Branch |-> [h \in Height |-> 0]]
    /\ branch = 0
    /\ head \in {0, 1}
    /\ ckpt \in {NoRow, [height |-> head, hash |-> 0]}
    /\ aged = FALSE
    /\ raw = [h \in Height |-> IF ckpt # NoRow /\ h <= head THEN 0 ELSE Missing]
    /\ seams = {}
    /\ pc = "boot"
    /\ last = 0
    /\ start = 0
    /\ unanswered = 0
    /\ pos = 0
    /\ prev = Missing
    /\ buf = {}
    /\ heal = Idle
    /\ spent = [reorgs |-> 0, crashes |-> 0]

Follow == Ingest \/ Flush \/ SaveCheckpoint
HealCheck == HealCheckAnswered \/ HealCheckUnanswered
HealCompare == HealCompareAnswered \/ HealCompareUnanswered

Next ==
    \/ Finalize
    \/ \E h \in Height : Reorg(h) \/ Backfill(h)
    \/ Connect \/ GateUnanswered \/ GateAnswered \/ RunnerStart
    \/ Follow \/ Crash \/ Restart
    \/ Age \/ HealRead \/ HealCheck \/ HealStored \/ HealCompare
    \/ HealInsert \/ HealRestart \/ HealStops

Spec == Init /\ [][Next]_vars

\* Finality advances; the container restarts; every block is handed on and every
\* flush trigger fires; the supervisor polls every POLL_SECONDS.  A node may leave
\* any call unanswered, but not every poll of the gate, nor every question about
\* one height.
Fairness ==
    /\ WF_vars(Finalize)
    /\ \A h \in Height : WF_vars(Backfill(h))
    /\ WF_vars(Connect) /\ SF_vars(GateAnswered) /\ WF_vars(RunnerStart)
    /\ WF_vars(Ingest) /\ SF_vars(Flush) /\ WF_vars(SaveCheckpoint) /\ WF_vars(Restart)
    /\ WF_vars(Age) /\ WF_vars(HealRead) /\ SF_vars(HealCheckAnswered)
    /\ WF_vars(HealStored)
    /\ \A h \in Height : SF_vars(heal.probe = h /\ HealCompareAnswered)
    /\ WF_vars(HealInsert) /\ WF_vars(HealRestart)

FairSpec == Spec /\ Fairness

----------------------------------------------------------------------------
(* Properties. *)

TypeOK ==
    /\ lineage \in [Branch -> [Height -> Branch]]
    /\ branch \in Branch
    /\ head \in Height
    /\ ckpt \in Row
    /\ aged \in BOOLEAN
    /\ raw \in [Height -> Branch \cup {Missing}]
    /\ seams \subseteq Height
    /\ pc \in {"boot", "gate", "start", "follow", "checkpoint", "down", "hot"}
    /\ last \in Height
    /\ start \in Height
    /\ unanswered \in 0 .. MaxUnanswered
    /\ pos \in Height
    /\ prev \in Branch \cup {Missing}
    /\ buf \subseteq [height : Height, hash : Branch, first : BOOLEAN]
    /\ heal \in [step : {"idle", "chain", "stored", "compare", "insert", "restart"},
                 row : Row, probe : Height, stored : Branch \cup {Missing}, seen : Branch]
    /\ spent \in [reorgs : 0 .. MaxReorgs, crashes : 0 .. MaxCrashes]

\* The follower is never started while it is caught up, whatever goes unanswered
\* and wherever the healer moves its row between the gate and the start: the
\* runner never falls through to processHotBlocks (finalityGate.ts).
NeverHot == pc # "hot"

\* The block a checkpoint names is stored, by the follower or as the ancestor the
\* healer found: a row in raw_ingestion_state never runs ahead of raw_blocks
\* (RawDatabase.transact, HealInsert).
CheckpointStored == ckpt # NoRow => raw[ckpt.height] = ckpt.hash

\* Up to the checkpoint every stored block is the child of the one below it, even
\* where a forked span was flushed, rolled back and indexed again; except at a
\* seam: the first block of a run, whose parent nothing checks, and what is left
\* above a flush of a database that has had no checkpoint yet.
LinkedBelow ==
    \A h \in 1 .. ckpt.height :
        (h \notin seams /\ raw[h] # Missing /\ raw[h - 1] # Missing) => Linked(h, raw[h])

\* The follower and the healer agree on what is stored, whatever goes unanswered: the
\* checkpoint's block is there, all below it is one chain, and nothing hot goes in.
Inv == TypeOK /\ NeverHot /\ CheckpointStored /\ LinkedBelow

\* The branches that were finalized since the healer read its row.
DuringPass == heal.seen .. branch

\* A rollback lands on a block that was on the chain during the pass, though its
\* hash was read from raw_blocks before the chain was asked; and a checkpoint
\* still on the chain is not rolled back because the node did not answer: unless
\* the follower has written a newer row since, the row had left the chain.
RollbackJustified ==
    [][ckpt'.height < ckpt.height =>
        /\ \E b \in DuringPass : lineage[b][ckpt'.height] = ckpt'.hash
        /\ ckpt = heal.row => \E b \in DuringPass : lineage[b][ckpt.height] # ckpt.hash]_vars

\* The row is at the head, or the follower is, where the next block will find it.
AtTip ==
    \/ ckpt.height = Top
    \/ pc = "follow" /\ pos = Top /\ prev = Chain[Top]
    \/ pc = "gate" /\ last = Top

\* The live tip recovers from every reorg: the checkpoint ends on the chain and
\* the follower at its head, whatever crashed or went unanswered on the way.
TipRecovers == <>[](OnChain(ckpt) /\ AtTip)

=============================================================================
