---------------------------- MODULE RawBackfill ----------------------------
(***************************************************************************)
(* The raw backfill: scripts/ingestion-supervisor.sh starts one container  *)
(* per block range, walking down from the checkpoint of the raw-live       *)
(* follower; every container runs src/raw/indexer.ts over its range and    *)
(* finalizes it in ClickHouse.  They share nothing but three tables        *)
(* (raw_ingestion_ranges, raw_ingestion_range_failures, raw_blocks), the   *)
(* per-pipeline checkpoint and what `docker ps -a` prints.                 *)
(***************************************************************************)
EXTENDS Integers, FiniteSets

CONSTANTS
    Top,                     \* highest height raw-live checkpoints in the model
    RANGE_SIZE,              \* blocks per range
    RAW_WORKERS,             \* cap on running raw containers
    RAW_FAILED_RETRY_LIMIT,  \* failure rows after which a range is blocked
    Chains,                  \* hash chains a node may serve (more than one: a fork)
    Missing,                 \* "no such block row"; not a chain
    MaxFaults,               \* bound: crashes of workers and of the supervisor
    MaxGaps,                 \* bound: incomplete windows served by the archive
    MaxInsertErrors,         \* bound: failed ClickHouse inserts of the supervisor
    MaxReadErrors            \* bound: failed ClickHouse queries of the supervisor

ASSUME ConstantsAssumption ==
    /\ Top \in Nat \ {0}
    /\ RANGE_SIZE \in Nat \ {0}
    /\ RAW_WORKERS \in Nat \ {0}
    /\ RAW_FAILED_RETRY_LIMIT \in Nat \ {0}
    /\ Chains # {}
    /\ Missing \notin Chains
    /\ MaxFaults \in Nat
    /\ MaxGaps \in Nat
    /\ MaxInsertErrors \in Nat
    /\ MaxReadErrors \in Nat

Height == 0 .. Top
Ranges == {r \in [from : Height, to : Height] : r.from <= r.to}
Blocks(r) == r.from .. r.to

Status == {"none", "running", "failed", "blocked", "completed"}

\* What `docker ps -a` shows of a range's container, refined by where the
\* process inside it stands.
Running == {"boot", "ingest", "checkpoint", "validate", "rethrow", "finalize", "done"}
Stopped == {"exit0", "exit1"}
Container == {"absent"} \cup Running \cup Stopped

NoCheckpoint == -1

MaxAttempts == RAW_FAILED_RETRY_LIMIT + MaxInsertErrors

VARIABLES
    status,     \* raw_ingestion_ranges FINAL: status of a range, "none" without a row
    aged,       \* ranges whose row's updated_at is older than the recovery cooldown
    failures,   \* rows of raw_ingestion_range_failures, counted up to the retry limit
    attempts,   \* history: containers started for a range, counted up to MaxAttempts
    ckpt,       \* raw_ingestion_state of the range's pipeline
    raw,        \* raw_blocks FINAL: the chain a stored block belongs to
    live,       \* raw_ingestion_state of raw-live, 0 before its first checkpoint
    pc,         \* container of a range
    pos,        \* worker: last block handed to the batch callback
    buf,        \* worker: blocks buffered and not flushed
    chain,      \* worker: chain of previousBlockHash, Missing when it is null
    sup,        \* the supervisor script
    spent       \* how much of the fault bounds is used

rows == <<status, aged, failures, attempts>>
worker == <<pc, pos, buf, chain>>
store == <<ckpt, raw>>
vars == <<status, aged, failures, attempts, ckpt, raw, live, pc, pos, buf, chain, sup, spent>>

Min2(a, b) == IF a <= b THEN a ELSE b
Max2(a, b) == IF a >= b THEN a ELSE b

----------------------------------------------------------------------------
(* The rows of the two range tables. *)

\* One insert of a row: the new status, and updated_at = now.
SetStatus(r, s) ==
    /\ status' = [status EXCEPT ![r] = s]
    /\ aged' = aged \ {r}

\* Mutant: the log collapses to one row per range, as a replacing table would.
AppendFailureCollapsed(r) == failures' = [failures EXCEPT ![r] = 1]

\* One more row of the append-only failure log.
AppendFailure(r) ==
    failures' = [failures EXCEPT ![r] = Min2(@ + 1, RAW_FAILED_RETRY_LIMIT)]

\* markRawRangeFailed: a completed range is left alone, row and log.
MarkRangeFailed(r) ==
    IF status[r] = "completed"
    THEN UNCHANGED <<status, aged, failures>>
    ELSE SetStatus(r, "failed") /\ AppendFailure(r)

Containers == {r \in Ranges : pc[r] # "absent"}
HasRow == {r \in Ranges : status[r] # "none"}
ActiveRaw == {r \in Ranges : pc[r] \in Running}
\* Mutant: an off-by-one in the cap.
SlotsFullOffByOne == Cardinality(ActiveRaw) > RAW_WORKERS
SlotsFull == Cardinality(ActiveRaw) >= RAW_WORKERS

----------------------------------------------------------------------------
(* The range worker: src/raw/indexer.ts, src/raw/database.ts, src/raw/ranges.ts *)

\* Mutants: the genesis case of rawResumeHead is dropped; the checkpoint is ignored.
ResumeHeadNoGenesis(r) == IF ckpt[r] # NoCheckpoint THEN ckpt[r] ELSE 0
ResumeHeadReplay(r) == IF r.from = 0 THEN -1 ELSE 0

\* rawResumeHead: only a genesis range without a checkpoint starts before block 0.
ResumeHead(r) ==
    IF ckpt[r] # NoCheckpoint THEN ckpt[r]
    ELSE IF r.from = 0 THEN -1 ELSE 0

\* setBlockRange: the run starts at the range, or behind the checkpoint in it.
StartPos(r) == Max2(r.from - 1, ResumeHead(r))

\* connect, markRangeRunning, and the test for a checkpoint already at the end.
Boot(r) ==
    /\ pc[r] = "boot"
    /\ IF status[r] = "completed"
       THEN UNCHANGED <<status, aged>>
       ELSE SetStatus(r, "running")
    /\ pc' = [pc EXCEPT ![r] = IF ResumeHead(r) >= r.to THEN "validate" ELSE "ingest"]
    /\ pos' = [pos EXCEPT ![r] = StartPos(r)]
    /\ buf' = [buf EXCEPT ![r] = {}]
    /\ chain' = [chain EXCEPT ![r] = Missing]
    /\ UNCHANGED <<failures, attempts, store, live, sup, spent>>

\* What the node serves next: the block above pos on the worker's own chain, or,
\* within the bounds, a later block (incomplete window) or another chain (fork).
Served(r, n, c) ==
    /\ n \in (pos[r] + 1) .. r.to
    /\ c \in Chains
    /\ n > pos[r] + 1 => spent.gaps < MaxGaps
    /\ chain[r] \notin {Missing, c} => spent.faults < MaxFaults

\* The integrity checks of the batch callback; both are skipped on the first
\* block of a run, when there is no previous block to compare with.
Linked(r, n, c) ==
    chain[r] # Missing => n = pos[r] + 1 /\ c = chain[r]

Ingest(r) ==
    /\ pc[r] = "ingest"
    /\ pos[r] < r.to
    /\ \E n \in Blocks(r), c \in Chains :
        /\ Served(r, n, c)
        /\ IF Linked(r, n, c)
           THEN /\ pos' = [pos EXCEPT ![r] = n]
                /\ buf' = [buf EXCEPT ![r] = @ \cup {n}]
                /\ chain' = [chain EXCEPT ![r] = c]
                /\ UNCHANGED pc
           ELSE /\ pc' = [pc EXCEPT ![r] = "exit1"]
                /\ UNCHANGED <<pos, buf, chain>>
        /\ spent' = [spent EXCEPT
                        !.gaps = IF n > pos[r] + 1 THEN @ + 1 ELSE @,
                        !.faults = IF chain[r] \notin {Missing, c} THEN @ + 1 ELSE @]
    /\ UNCHANGED <<rows, store, live, sup>>

\* transact, flushAll: after any batch that trips a flush limit, and after the
\* batch that reaches the end of the range.
Flush(r) ==
    /\ pc[r] = "ingest"
    /\ buf[r] # {}
    /\ raw' = [b \in Height |-> IF b \in buf[r] THEN chain[r] ELSE raw[b]]
    /\ buf' = [buf EXCEPT ![r] = {}]
    /\ pc' = [pc EXCEPT ![r] = "checkpoint"]
    /\ UNCHANGED <<rows, ckpt, live, pos, chain, sup, spent>>

\* transact, saveCheckpoint; a range end goes on to finalizeRange.
SaveCheckpoint(r) ==
    /\ pc[r] = "checkpoint"
    /\ ckpt' = [ckpt EXCEPT ![r] = pos[r]]
    /\ pc' = [pc EXCEPT ![r] = IF pos[r] >= r.to THEN "validate" ELSE "ingest"]
    /\ UNCHANGED <<rows, raw, live, pos, buf, chain, sup, spent>>

\* finalizeRawRange, the validation: every block there, parent links intact, and
\* the boundary with an adjacent completed range matching.
Whole(r) == \E c \in Chains : \A b \in Blocks(r) : raw[b] = c

BoundariesMatch(r) ==
    \A s \in Ranges :
        status[s] = "completed" =>
            /\ s.to = r.from - 1 => raw[s.to] = raw[r.from]
            /\ s.from = r.to + 1 => raw[s.from] = raw[r.to]

\* Mutant: only the block count is validated.
ValidRangeCountOnly(r) == \A b \in Blocks(r) : raw[b] # Missing
ValidRange(r) == Whole(r) /\ BoundariesMatch(r)

\* A failed validation is recorded and thrown.  The throw ends the process; when
\* nothing was ingested in this run it first passes the catch of runRaw.
Validate(r) ==
    /\ pc[r] = "validate"
    /\ IF ValidRange(r)
       THEN /\ pc' = [pc EXCEPT ![r] = "finalize"]
            /\ UNCHANGED <<status, aged, failures>>
       ELSE /\ pc' = [pc EXCEPT ![r] = IF chain[r] = Missing THEN "rethrow" ELSE "exit1"]
            /\ MarkRangeFailed(r)
    /\ UNCHANGED <<attempts, store, live, pos, buf, chain, sup, spent>>

\* runRaw: catch { markRangeFailed; throw } around the finalization on resume.
Rethrow(r) ==
    /\ pc[r] = "rethrow"
    /\ MarkRangeFailed(r)
    /\ pc' = [pc EXCEPT ![r] = "exit1"]
    /\ UNCHANGED <<attempts, store, live, pos, buf, chain, sup, spent>>

\* finalizeRawRange, the insert of the completed row.
FinalizeRange(r) ==
    /\ pc[r] = "finalize"
    /\ SetStatus(r, "completed")
    /\ pc' = [pc EXCEPT ![r] = "done"]
    /\ UNCHANGED <<failures, attempts, store, live, pos, buf, chain, sup, spent>>

Exit(r) ==
    /\ pc[r] = "done"
    /\ pc' = [pc EXCEPT ![r] = "exit0"]
    /\ UNCHANGED <<rows, store, live, pos, buf, chain, sup, spent>>

\* The process dies anywhere: killed or on an error (status 1), or stopped by
\* SIGTERM, whose handler forces process.exit(0) after its grace period.
Crash(r) ==
    /\ pc[r] \in Running
    /\ spent.faults < MaxFaults
    /\ \E how \in Stopped : pc' = [pc EXCEPT ![r] = how]
    /\ spent' = [spent EXCEPT !.faults = @ + 1]
    /\ UNCHANGED <<rows, store, live, pos, buf, chain, sup>>

WorkerStep(r) ==
    \/ Boot(r)
    \/ Ingest(r)
    \/ Flush(r)
    \/ SaveCheckpoint(r)
    \/ Validate(r)
    \/ Rethrow(r)
    \/ FinalizeRange(r)
    \/ Exit(r)

----------------------------------------------------------------------------
(* The supervisor: one poll is cleanup_stopped_raw, recover_orphaned_raw and *)
(* ensure_raw_workers in turn.  "todo" is what `docker ps`, or the query of  *)
(* recover_orphaned_raw, listed when the phase began; "range" is the one in  *)
(* hand and "step" the next command of the script for it.                    *)

Phase == {"cleanup", "recover", "frontier"}
Step == {"next", "fail", "log", "judge", "remove", "restart", "start"}
NoRange == [from |-> 0, to |-> 0]

Idle(phase, todo) ==
    [phase |-> phase, step |-> "next", range |-> NoRange, todo |-> todo]
Handle(step, r) ==
    [sup EXCEPT !.step = step, !.range = r, !.todo = @ \ {r}]
NextItem == Idle(sup.phase, sup.todo)

StoppedContainers == {r \in Ranges : pc[r] \in Stopped}

\* Mutant: recovery takes every row without looking at its status.
RecoverableAll == HasRow

\* The query of recover_orphaned_raw.  A running or blocked row must be old.
Recoverable ==
    {r \in Ranges : \/ status[r] = "failed"
                    \/ status[r] \in {"running", "blocked"} /\ r \in aged}

\* A statement that fails costs one unit of its bound.
InsertOk == UNCHANGED spent
InsertFails ==
    /\ spent.inserts < MaxInsertErrors
    /\ spent' = [spent EXCEPT !.inserts = @ + 1]
ReadOk(ok) ==
    IF ok THEN UNCHANGED spent
    ELSE /\ spent.reads < MaxReadErrors
         /\ spent' = [spent EXCEPT !.reads = @ + 1]

\* cleanup_stopped_raw: exit 0 of a completed range only removes the container;
\* every other stop is recorded as a failure.  A failed status query reads as
\* "not completed".
CleanupNext(r) ==
    /\ sup.phase = "cleanup" /\ sup.step = "next"
    /\ r \in sup.todo
    /\ \E ok \in BOOLEAN :
        /\ ReadOk(ok)
        /\ IF pc[r] = "exit0" /\ status[r] = "completed" /\ ok
           THEN sup' = Handle("remove", r)
           ELSE sup' = Handle("fail", r)
    /\ UNCHANGED <<rows, store, worker, live>>

\* Mutant: only the log is written.
MarkFailedNoRow ==
    /\ sup.step = "fail"
    /\ sup' = [sup EXCEPT !.step = "log"]
    /\ UNCHANGED <<rows, store, worker, live, spent>>

\* mark_raw_range_failed_from_supervisor: the row, whatever it said before ...
MarkFailed ==
    /\ sup.step = "fail"
    /\ \/ InsertOk /\ SetStatus(sup.range, "failed")
       \/ InsertFails /\ UNCHANGED <<status, aged>>
    /\ sup' = [sup EXCEPT !.step = "log"]
    /\ UNCHANGED <<failures, attempts, store, worker, live>>

\* ... and the failure log.  Either insert may fail and is then only logged.
LogFailure ==
    /\ sup.step = "log"
    /\ \/ InsertOk /\ AppendFailure(sup.range)
       \/ InsertFails /\ UNCHANGED failures
    /\ sup' = [sup EXCEPT !.step = "judge"]
    /\ UNCHANGED <<status, aged, attempts, store, worker, live>>

\* block_raw_range_if_retry_exhausted, then the worker cap.  Recovery stops at a
\* full cap; cleanup removes the container and defers the restart.  A failed count
\* of the failure rows reads as zero.
Judge ==
    LET r == sup.range
        drop == IF sup.phase = "cleanup" THEN [sup EXCEPT !.step = "remove"] ELSE NextItem
        defer == IF sup.phase = "cleanup" THEN drop ELSE Idle("frontier", {})
        again == [sup EXCEPT !.step = IF sup.phase = "cleanup" THEN "restart" ELSE "start"]
    IN
    /\ sup.step = "judge"
    /\ \/ /\ failures[r] >= RAW_FAILED_RETRY_LIMIT
          /\ \/ InsertOk /\ SetStatus(r, "blocked")
             \/ InsertFails /\ UNCHANGED <<status, aged>>
          /\ sup' = drop
       \/ /\ ReadOk(failures[r] < RAW_FAILED_RETRY_LIMIT)
          /\ sup' = IF SlotsFull THEN defer ELSE again
          /\ UNCHANGED <<status, aged>>
    /\ UNCHANGED <<failures, attempts, store, worker, live>>

\* remove_container; "restart" goes on to start the same range again.
RemoveContainer ==
    /\ sup.step \in {"remove", "restart"}
    /\ pc' = [pc EXCEPT ![sup.range] = "absent"]
    /\ sup' = IF sup.step = "restart" THEN [sup EXCEPT !.step = "start"] ELSE NextItem
    /\ UNCHANGED <<rows, store, pos, buf, chain, live, spent>>

\* start_raw_range for a range whose container was just seen to be gone.
Launch(r) ==
    /\ pc' = [pc EXCEPT ![r] = "boot"]
    /\ attempts' = [attempts EXCEPT ![r] = Min2(@ + 1, MaxAttempts)]

StartRange ==
    /\ sup.step = "start"
    /\ Launch(sup.range)
    /\ sup' = NextItem
    /\ UNCHANGED <<status, aged, failures, store, pos, buf, chain, live, spent>>

CleanupDone ==
    /\ sup.phase = "cleanup" /\ sup.step = "next" /\ sup.todo = {}
    /\ sup' = Idle("recover", Recoverable)
    /\ UNCHANGED <<rows, store, worker, live, spent>>

\* recover_orphaned_raw, ORDER BY from_block DESC, for ranges with no container.
RecoverNext(r) ==
    /\ sup.phase = "recover" /\ sup.step = "next"
    /\ r \in sup.todo
    /\ \A s \in sup.todo : s.from <= r.from
    /\ sup' = CASE pc[r] # "absent" -> [sup EXCEPT !.todo = @ \ {r}]
                [] pc[r] = "absent" /\ status[r] = "running" -> Handle("fail", r)
                [] pc[r] = "absent" /\ status[r] = "failed" -> Handle("judge", r)
                [] OTHER -> IF SlotsFull THEN Idle("frontier", {}) ELSE Handle("start", r)
    /\ UNCHANGED <<rows, store, worker, live, spent>>

RecoverDone ==
    /\ sup.phase = "recover" /\ sup.step = "next" /\ sup.todo = {}
    /\ sup' = Idle("frontier", {})
    /\ UNCHANGED <<rows, store, worker, live, spent>>

\* min_known_raw_from: container names, range rows, and raw-live's head.  When the
\* query of the rows fails its output is empty and the others still count.
FromsSeen(ok) ==
    {r.from : r \in Containers \cup (IF ok THEN HasRow ELSE {})} \cup ({live} \ {0})

IsMin(f, S) == f \in S /\ \A g \in S : f <= g

\* oldest_raw_frontier_blocked
FrontierBlocked(f) ==
    /\ \E r \in HasRow : r.from = f
    /\ \A r \in HasRow : r.from = f => status[r] = "blocked"

\* Mutant: off by one at the upper bound.
RangeBelowOverlap(f) == [from |-> Max2(0, f - RANGE_SIZE), to |-> f]
RangeBelow(f) == [from |-> Max2(0, f - RANGE_SIZE), to |-> f - 1]

\* One round of the loop of ensure_raw_workers.
StartNextRange ==
    /\ sup.phase = "frontier"
    /\ ~SlotsFull
    /\ \E rowsOk, blockedOk \in BOOLEAN :
        /\ ReadOk(rowsOk /\ blockedOk)
        /\ \E f \in FromsSeen(rowsOk) :
            /\ IsMin(f, FromsSeen(rowsOk))
            /\ f > 0
            /\ blockedOk => ~FrontierBlocked(f)
            /\ Launch(RangeBelow(f))
    /\ UNCHANGED <<status, aged, failures, store, pos, buf, chain, live, sup>>

\* The loop ends: cap reached, nothing known, frontier blocked or at genesis.
\* The next poll begins with what `docker ps` shows then.
EndPoll ==
    /\ sup.phase = "frontier"
    /\ \/ SlotsFull
       \/ \A f \in FromsSeen(TRUE) :
             IsMin(f, FromsSeen(TRUE)) => f = 0 \/ FrontierBlocked(f)
    /\ sup' = Idle("cleanup", StoppedContainers)
    /\ UNCHANGED <<rows, store, worker, live, spent>>

\* The script is killed between any two commands and started again.
SupervisorCrash ==
    /\ spent.faults < MaxFaults
    /\ spent' = [spent EXCEPT !.faults = @ + 1]
    /\ sup' = Idle("cleanup", StoppedContainers)
    /\ UNCHANGED <<rows, store, worker, live>>

SupervisorStep ==
    \/ \E r \in Ranges : CleanupNext(r) \/ RecoverNext(r)
    \/ MarkFailed
    \/ LogFailure
    \/ Judge
    \/ RemoveContainer
    \/ StartRange
    \/ CleanupDone
    \/ RecoverDone
    \/ StartNextRange
    \/ EndPoll

----------------------------------------------------------------------------
(* The environment: raw-live checkpoints, and time passes. *)

LiveCheckpoint ==
    /\ \E h \in (live + 1) .. Top : live' = h
    /\ UNCHANGED <<rows, store, worker, sup, spent>>

\* The cooldown of a row passes (15 minutes for running, six hours for blocked).
CooldownPasses(r) ==
    /\ status[r] \in {"running", "blocked"}
    /\ r \notin aged
    /\ aged' = aged \cup {r}
    /\ UNCHANGED <<status, failures, attempts, store, worker, live, sup, spent>>

----------------------------------------------------------------------------
Init ==
    /\ status = [r \in Ranges |-> "none"]
    /\ aged = {}
    /\ failures = [r \in Ranges |-> 0]
    /\ attempts = [r \in Ranges |-> 0]
    /\ ckpt = [r \in Ranges |-> NoCheckpoint]
    /\ raw = [b \in Height |-> Missing]
    /\ live = 0
    /\ pc = [r \in Ranges |-> "absent"]
    /\ pos = [r \in Ranges |-> NoCheckpoint]
    /\ buf = [r \in Ranges |-> {}]
    /\ chain = [r \in Ranges |-> Missing]
    /\ sup = Idle("cleanup", {})
    /\ spent = [faults |-> 0, gaps |-> 0, inserts |-> 0, reads |-> 0]

Next ==
    \/ \E r \in Ranges : WorkerStep(r) \/ Crash(r) \/ CooldownPasses(r)
    \/ SupervisorStep
    \/ SupervisorCrash
    \/ LiveCheckpoint

Spec == Init /\ [][Next]_vars

\* Live processes keep running, the script keeps polling, time passes and raw-live
\* reaches its first checkpoint.  Nothing makes a fault or an error happen.
Fairness ==
    /\ \A r \in Ranges : WF_vars(WorkerStep(r)) /\ WF_vars(CooldownPasses(r))
    /\ WF_vars(SupervisorStep)
    /\ WF_vars(LiveCheckpoint)

FairSpec == Spec /\ Fairness

----------------------------------------------------------------------------
(* Properties. *)

SpentType == [faults : 0 .. MaxFaults, gaps : 0 .. MaxGaps,
              inserts : 0 .. MaxInsertErrors, reads : 0 .. MaxReadErrors]

SupType == [phase : Phase, step : Step, range : Ranges, todo : SUBSET Ranges]

\* The type invariant: every table, container and script variable has its shape,
\* and no worker's position leaves its range.
TypeOK ==
    /\ status \in [Ranges -> Status]
    /\ aged \in SUBSET Ranges
    /\ failures \in [Ranges -> 0 .. RAW_FAILED_RETRY_LIMIT]
    /\ attempts \in [Ranges -> 0 .. MaxAttempts]
    /\ ckpt \in [Ranges -> Height \cup {NoCheckpoint}]
    /\ raw \in [Height -> Chains \cup {Missing}]
    /\ live \in Height
    /\ pc \in [Ranges -> Container]
    /\ pos \in [Ranges -> Height \cup {NoCheckpoint}]
    /\ buf \in [Ranges -> SUBSET Height]
    /\ chain \in [Ranges -> Chains \cup {Missing}]
    /\ sup \in SupType
    /\ spent \in SpentType
    /\ \A r \in Ranges :
          pc[r] \in Running \ {"boot"} =>
              pos[r] \in (r.from - 1) .. r.to /\ buf[r] \subseteq Blocks(r)

\* Ranges somebody has taken: a container, a row, or the one the script holds
\* between the commands that handle it.
InHand(r) == sup.step # "next" /\ sup.range = r
InCleanup(r) == InHand(r) /\ sup.phase = "cleanup"
Claimed == {r \in Ranges : pc[r] # "absent" \/ status[r] # "none" \/ InHand(r)}

Overlap(r, s) == r.from <= s.to /\ s.from <= r.to

\* Two different ranges never share a block, so no block is ingested by two
\* workers: the frontier only moves down (min_known_raw_from, ensure_raw_workers).
Disjoint == \A r, s \in Claimed : Overlap(r, s) => r = s

\* Below every taken range but the top one, the block that follows it is taken
\* too: no gap opens that ensure_raw_workers would never look at again.
NoHoles ==
    \A r, s \in Claimed :
        r.to < s.from => \E t \in Claimed : t.from = r.to + 1

\* The cap on running raw containers holds across cleanup, recovery and launch.
WorkerCap == Cardinality(ActiveRaw) <= RAW_WORKERS

\* A completed row means what the price pipeline takes it to mean: every block of
\* the range is stored and the parent links inside it hold (finalizeRawRange).
CompletedIsWhole == \A r \in Ranges : status[r] = "completed" => Whole(r)

\* The blocks the price pipeline reads below a completed row never change while
\* the row says completed.
CompletedDataStable ==
    [][\A r \in Ranges : status[r] = "completed" =>
          \A b \in Blocks(r) : raw'[b] = raw[b]]_vars

\* Once its container is gone and cleanup is done with it, a completed range
\* stays completed: recovery and launch never touch it again.
SettledForever ==
    [][\A r \in Ranges : status[r] = "completed" /\ pc[r] = "absent" /\ ~InCleanup(r) =>
          status'[r] = "completed" /\ pc'[r] = "absent"]_vars

\* A range that has used its attempts is not restarted by the per-minute loop, only as
\* a blocked range whose cooldown has passed.  An insert that fails costs at most one
\* attempt more, whichever row it was.
HotRetriesBounded ==
    [][\A r \in Ranges :
          /\ pc[r] # "boot"
          /\ pc'[r] = "boot"
          /\ attempts[r] >= RAW_FAILED_RETRY_LIMIT + spent.inserts
          => status[r] = "blocked" /\ r \in aged]_vars

\* History is ingested down to block 0 and every range of it is finalized.
BackfillComplete ==
    /\ \E r \in Claimed : r.from = 0
    /\ \A r \in Claimed : status[r] = "completed"

\* Under fairness, and a bounded number of crashes, the backfill finishes.
HistoryCompletes == <>[]BackfillComplete

----------------------------------------------------------------------------
(* Statements of the repository that its code does not keep.  README.md gives *)
(* the constants under which TLC finds a counterexample to each.             *)

\* "one row per failed attempt" (comment of mark_raw_range_failed_from_supervisor):
\* the failure log never has more rows for a range than containers were started.
OneFailureRowPerAttempt == \A r \in Ranges : failures[r] <= attempts[r]

\* "does not downgrade completed ranges to failed" (tests/raw/ranges.test.ts).
CompletedNotDowngraded ==
    [][\A r \in Ranges : status[r] = "completed" => status'[r] # "failed"]_vars

\* The boundary of two adjacent completed ranges has a matching parent hash.
BoundariesLinked ==
    \A r, s \in Ranges :
        status[r] = "completed" /\ status[s] = "completed" /\ r.to + 1 = s.from
            => raw[r.to] = raw[s.from]

=============================================================================
