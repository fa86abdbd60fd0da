---------------------------- MODULE MainBackfill ----------------------------
(***************************************************************************)
(* The price backfill: scripts/ingestion-supervisor.sh runs one main-live  *)
(* container that follows the chain upward, and starts bounded containers  *)
(* that walk down below the lowest block of the main tables, over raw      *)
(* ranges that are finalized.  Claims are kept nowhere but in the names    *)
(* `docker ps -a` prints and in the blocks table.  How a bounded run       *)
(* publishes is PricePublication; how raw ranges complete is RawBackfill.  *)
(***************************************************************************)
EXTENDS Integers, FiniteSets

CONSTANTS
    Top,               \* bound: highest chain head
    RANGE_SIZE,        \* blocks per raw range
    MAIN_MAX_RANGES,   \* raw ranges one container may take
    MAIN_WORKERS,      \* cap on running containers
    Broken,            \* blocks whose raw parent hash does not match the block below
    Established,       \* the tables of an earlier run are there
    MaxKills,          \* bound: containers that die with an error
    MaxStops,          \* bound: containers that SIGTERM makes exit with 0
    MaxDowngrades,     \* bound: completed raw rows that are marked failed
    MaxSupervisorCrashes \* bound: deaths of the script

ASSUME MainAssumption ==
    /\ Top \in Nat \ {0}
    /\ RANGE_SIZE \in Nat \ {0}
    /\ MAIN_MAX_RANGES \in Nat \ {0}
    /\ MAIN_WORKERS \in Nat \ {0}
    /\ Broken \subseteq 1 .. Top
    /\ Established \in BOOLEAN
    /\ MaxKills \in Nat /\ MaxStops \in Nat
    /\ MaxDowngrades \in Nat /\ MaxSupervisorCrashes \in Nat

Height == 0 .. Top
Ranges == {r \in [from : Height, to : Height] : r.from <= r.to}
Blocks(r) == r.from .. r.to

VARIABLES
    head,      \* best head of the chain
    rawLive,   \* checkpoint of raw-live, 0 before its first
    seed,      \* the block above the topmost raw range, 0 before there is one
    done,      \* raw ranges whose row says completed
    blocks,    \* heights in the main blocks table
    liveCkpt,  \* indexer_state of main-live, 0 before its first
    live,      \* the main-live container and the last block it took
    mc,        \* bounded container of a range
    sup,       \* the supervisor script
    spent      \* how much of the fault bounds is used

vars == <<head, rawLive, seed, done, blocks, liveCkpt, live, mc, sup, spent>>
source == <<head, rawLive, seed, done>>
tables == <<blocks, liveCkpt>>

Min2(a, b) == IF a <= b THEN a ELSE b
Max2(a, b) == IF a >= b THEN a ELSE b
Highest(S) == CHOOSE b \in S : \A c \in S : c <= b

Running == {"compute", "publish"}
Stopped == {"exit0", "exit1"}
Containers == {r \in Ranges : mc[r] # "absent"}
ActiveMain == {r \in Ranges : mc[r] \in Running}

----------------------------------------------------------------------------
(* The source: raw-live, and the raw ranges below its checkpoint. *)

HeadGrows == head < Top /\ head' = head + 1
    /\ UNCHANGED <<rawLive, seed, done, tables, live, mc, sup, spent>>

RawLiveCheckpoint ==
    /\ \E h \in (rawLive + 1) .. head : rawLive' = h
    /\ UNCHANGED <<head, seed, done, tables, live, mc, sup, spent>>

\* The frontier of the raw backfill walks down in equal steps from its seed.
RawRanges ==
    {r \in Ranges : /\ r.to < seed
                    /\ (seed - 1 - r.to) % RANGE_SIZE = 0
                    /\ r.from = Max2(0, r.to - RANGE_SIZE + 1)}

RawComplete ==
    /\ \E r \in RawRanges \ done : done' = done \cup {r}
    /\ UNCHANGED <<head, rawLive, seed, tables, live, mc, sup, spent>>

\* mark_raw_range_failed_from_supervisor on a range that did complete.
RawDowngrade ==
    /\ spent.downgrades < MaxDowngrades
    /\ spent' = [spent EXCEPT !.downgrades = @ + 1]
    /\ \E r \in done : done' = done \ {r}
    /\ UNCHANGED <<head, rawLive, seed, tables, live, mc, sup>>

----------------------------------------------------------------------------
(* A bounded container: one run of src/indexer.ts with deferred publication. *)

Finalized(r) == Blocks(r) \subseteq UNION {Blocks(d) : d \in done}

\* Every batch asserts finalized raw coverage and stages its rows.
Compute(r) ==
    /\ mc[r] = "compute"
    /\ mc' = [mc EXCEPT ![r] = IF Finalized(r) THEN "publish" ELSE "exit1"]
    /\ UNCHANGED <<source, tables, live, sup, spent>>

\* publishDeferred inserts the block rows in order, a chunk at a time, without
\* those it finds there.
Publish(r) ==
    /\ mc[r] = "publish"
    /\ \E n \in Blocks(r) \ blocks : blocks' = blocks \cup r.from .. n
    /\ UNCHANGED <<source, liveCkpt, live, mc, sup, spent>>

Finish(r) ==
    /\ mc[r] = "publish"
    /\ Blocks(r) \subseteq blocks
    /\ mc' = [mc EXCEPT ![r] = "exit0"]
    /\ UNCHANGED <<source, tables, live, sup, spent>>

\* The process dies on an error or is killed ...
Kill(r) ==
    /\ mc[r] \in Running
    /\ spent.kills < MaxKills
    /\ mc' = [mc EXCEPT ![r] = "exit1"]
    /\ spent' = [spent EXCEPT !.kills = @ + 1]
    /\ UNCHANGED <<source, tables, live, sup>>

\* ... or is told to stop, and then reports success whatever it had done.
Stop(r) ==
    /\ mc[r] \in Running
    /\ spent.stops < MaxStops
    /\ mc' = [mc EXCEPT ![r] = "exit0"]
    /\ spent' = [spent EXCEPT !.stops = @ + 1]
    /\ UNCHANGED <<source, tables, live, sup>>

----------------------------------------------------------------------------
(* The main-live container. *)

LiveInsert ==
    /\ live.pc = "up"
    /\ \E m \in (live.pos + 1) .. head :
        /\ blocks' = blocks \cup (live.pos + 1) .. m
        /\ live' = [pc |-> "flushed", pos |-> m]
    /\ UNCHANGED <<source, liveCkpt, mc, sup, spent>>

LiveCheckpoint ==
    /\ live.pc = "flushed"
    /\ liveCkpt' = live.pos
    /\ live' = [live EXCEPT !.pc = "up"]
    /\ UNCHANGED <<source, blocks, mc, sup, spent>>

LiveKill ==
    /\ live.pc \in {"up", "flushed"}
    /\ spent.kills < MaxKills
    /\ spent' = [spent EXCEPT !.kills = @ + 1]
    /\ live' = [live EXCEPT !.pc = "stopped"]
    /\ UNCHANGED <<source, tables, mc, sup>>

\* start_live_main: behind its checkpoint; above the table; at the chain head.
LiveStartPos ==
    IF liveCkpt > 0 THEN liveCkpt
    ELSE IF blocks # {} THEN Highest(blocks)
    ELSE head - 1

----------------------------------------------------------------------------
(* The supervisor: cleanup_stopped_main, cleanup_live_main,                  *)
(* ensure_raw_workers, ensure_main_workers and ensure_live_main in turn.     *)

NoRange == [from |-> 0, to |-> 0]
At(phase) == [phase |-> phase, step |-> "next", range |-> NoRange, todo |-> {}]
StoppedMain == {r \in Ranges : mc[r] \in Stopped}
NewPoll == [At("cleanup") EXCEPT !.todo = StoppedMain]

\* Mutant: every exit is taken for the end of the range.
SucceededAny(r) == TRUE
Succeeded(r) == mc[r] = "exit0"

\* cleanup_stopped_main removes the container; unless it succeeded ...
RemoveMain ==
    /\ sup.phase = "cleanup" /\ sup.step = "next"
    /\ \E r \in sup.todo :
        /\ mc' = [mc EXCEPT ![r] = "absent"]
        /\ sup' = [sup EXCEPT !.todo = @ \ {r}, !.range = r,
                              !.step = IF Succeeded(r) THEN "next" ELSE "start"]
    /\ UNCHANGED <<source, tables, live, spent>>

\* ... the same range is started again.
RestartMain ==
    /\ sup.phase = "cleanup" /\ sup.step = "start"
    /\ mc' = [mc EXCEPT ![sup.range] = "compute"]
    /\ sup' = [sup EXCEPT !.step = "next"]
    /\ UNCHANGED <<source, tables, live, spent>>

CleanupDone ==
    /\ sup.phase = "cleanup" /\ sup.step = "next" /\ sup.todo = {}
    /\ sup' = At("live")
    /\ UNCHANGED <<source, tables, live, mc, spent>>

\* cleanup_live_main
RemoveLive ==
    /\ sup.phase = "live" /\ sup.step = "next"
    /\ IF live.pc = "stopped"
       THEN /\ live' = [live EXCEPT !.pc = "absent"]
            /\ sup' = [sup EXCEPT !.step = "start"]
       ELSE sup' = At("raw") /\ UNCHANGED live
    /\ UNCHANGED <<source, tables, mc, spent>>

StartLive == live' = [pc |-> "up", pos |-> LiveStartPos]

RestartLive ==
    /\ sup.phase = "live" /\ sup.step = "start"
    /\ StartLive
    /\ sup' = At("raw")
    /\ UNCHANGED <<source, tables, mc, spent>>

\* ensure_raw_workers: the first range ends below the checkpoint raw-live has now.
SeedRaw ==
    /\ sup.phase = "raw"
    /\ seed' = IF seed = 0 THEN rawLive ELSE seed
    /\ sup' = At("launch")
    /\ UNCHANGED <<head, rawLive, done, tables, live, mc, spent>>

\* min_known_main_from; min() of an empty table is 0.
\* Mutant: containers are not counted.
FromsSeenTableOnly == IF blocks = {} THEN {0} ELSE blocks
FromsSeen ==
    {r.from : r \in Containers} \cup (IF blocks = {} THEN {0} ELSE blocks)
Frontier == CHOOSE f \in FromsSeen : \A g \in FromsSeen : f <= g

\* Mutant: the topmost range must end right below the frontier.
CoversExactly(d, t) == d.to = t
Covers(d, t) == d.from <= t /\ t <= d.to

\* The loop over completed ranges: the topmost covers the target, each next one
\* ends right below it, and there are at most MAIN_MAX_RANGES.  A batch that would
\* be empty begins above its target.
BatchFrom(target) ==
    LET Below(f) == {d \in done : d.to = f - 1}
        from[k \in 1 .. MAIN_MAX_RANGES] ==
            IF k = 1
            THEN IF \E d \in done : Covers(d, target)
                 THEN (CHOOSE d \in done : Covers(d, target)).from
                 ELSE target + 1
            ELSE IF from[k - 1] <= target /\ Below(from[k - 1]) # {}
                 THEN (CHOOSE d \in Below(from[k - 1]) : TRUE).from
                 ELSE from[k - 1]
    IN from[MAIN_MAX_RANGES]

\* parent_link_breaks
LinkBreaks(from, to) == Broken \cap (from + 1) .. to

CanLaunch ==
    /\ Cardinality(ActiveMain) < MAIN_WORKERS
    /\ Frontier > 0
    /\ BatchFrom(Frontier - 1) < Frontier
    /\ LinkBreaks(BatchFrom(Frontier - 1), Frontier) = {}

\* One round of the loop of ensure_main_workers.
LaunchMain ==
    /\ sup.phase = "launch"
    /\ CanLaunch
    /\ mc' = [mc EXCEPT ![[from |-> BatchFrom(Frontier - 1), to |-> Frontier - 1]] = "compute"]
    /\ UNCHANGED <<source, tables, live, sup, spent>>

LaunchDone ==
    /\ sup.phase = "launch"
    /\ ~CanLaunch
    /\ sup' = At("ensure")
    /\ UNCHANGED <<source, tables, live, mc, spent>>

\* ensure_live_main, and the next poll.
EnsureLive ==
    /\ sup.phase = "ensure"
    /\ IF live.pc = "absent" THEN StartLive ELSE UNCHANGED live
    /\ sup' = NewPoll
    /\ UNCHANGED <<source, tables, mc, spent>>

\* The script dies between two commands, or any of them fails under `set -e`, and
\* Docker starts it again.
SupervisorCrash ==
    /\ spent.supervisor < MaxSupervisorCrashes
    /\ spent' = [spent EXCEPT !.supervisor = @ + 1]
    /\ sup' = NewPoll
    /\ UNCHANGED <<source, tables, live, mc>>

----------------------------------------------------------------------------
Init ==
    /\ \E low \in 1 .. Top, mark \in 1 .. Top :
        IF Established
        THEN /\ low <= mark
             /\ head = mark /\ rawLive = mark /\ seed = mark
             /\ blocks = low .. mark
             /\ liveCkpt = mark
        ELSE /\ head = low /\ rawLive = 0 /\ seed = 0
             /\ blocks = {}
             /\ liveCkpt = 0
    /\ done = {}
    /\ live = [pc |-> "absent", pos |-> 0]
    /\ mc = [r \in Ranges |-> "absent"]
    /\ sup = At("cleanup")
    /\ spent = [kills |-> 0, stops |-> 0, downgrades |-> 0, supervisor |-> 0]

SourceStep == HeadGrows \/ RawLiveCheckpoint \/ RawComplete
WorkerStep(r) == Compute(r) \/ Publish(r) \/ Finish(r)
LiveStep == LiveInsert \/ LiveCheckpoint
SupervisorStep ==
    \/ RemoveMain \/ RestartMain \/ CleanupDone
    \/ RemoveLive \/ RestartLive
    \/ SeedRaw
    \/ LaunchMain \/ LaunchDone
    \/ EnsureLive

Next ==
    \/ SourceStep \/ RawDowngrade
    \/ \E r \in Ranges : WorkerStep(r) \/ Kill(r) \/ Stop(r)
    \/ LiveStep \/ LiveKill
    \/ SupervisorStep \/ SupervisorCrash

Spec == Init /\ [][Next]_vars

\* The chain and the raw backfill go on, running processes run and the script
\* polls.  Nothing makes a fault happen.
Fairness ==
    /\ WF_vars(SourceStep) /\ WF_vars(LiveStep) /\ WF_vars(SupervisorStep)
    /\ \A r \in Ranges : WF_vars(WorkerStep(r))

FairSpec == Spec /\ Fairness

----------------------------------------------------------------------------
(* Properties. *)

\* The type invariant; main-live is never ahead of the chain or behind its own
\* checkpoint.
TypeOK ==
    /\ head \in Height /\ rawLive \in 0 .. head /\ seed \in 0 .. rawLive
    /\ done \subseteq RawRanges
    /\ blocks \in SUBSET Height
    /\ liveCkpt \in 0 .. head
    /\ live \in [pc : {"absent", "up", "flushed", "stopped"}, pos : Height]
    /\ live.pos <= head
    /\ live.pc \in {"up", "flushed"} => liveCkpt <= live.pos
    /\ mc \in [Ranges -> {"absent"} \cup Running \cup Stopped]
    /\ sup \in [phase : {"cleanup", "live", "raw", "launch", "ensure"},
                step : {"next", "start"}, range : Ranges, todo : SUBSET Ranges]
    /\ spent \in [kills : 0 .. MaxKills, stops : 0 .. MaxStops,
                  downgrades : 0 .. MaxDowngrades, supervisor : 0 .. MaxSupervisorCrashes]

\* Ranges of the containers, and the one the script is about to start again.
Claimed ==
    {r \in Ranges : mc[r] # "absent" \/ (sup.step = "start" /\ sup.phase = "cleanup" /\ sup.range = r)}

\* "so parallel workers each claim the next lower contiguous batch without
\* overlapping" (comment of min_known_main_from).
ClaimsDisjoint ==
    \A r, s \in Claimed : r # s => Blocks(r) \cap Blocks(s) = {}

\* main-live never writes a block that a bounded worker has claimed.
LiveAboveClaims ==
    live.pc \in {"up", "flushed"} => \A r \in Claimed : r.to <= live.pos

\* What has been reached, the claims included, has no hole: the frontier is a
\* minimum, so nothing would ever look at a block above it again.  A container that
\* is stopped, and a script that dies between removing a container and starting it
\* again, do leave one.
Reached == blocks \cup UNION {Blocks(r) : r \in Claimed}
Undisturbed == spent.stops = 0 /\ spent.supervisor = 0
NoHole == Undisturbed => \A a, c \in Reached : \A b \in a .. c : b \in Reached

\* The prices reach genesis, unless one of these disturbs them.
HistoryPriced == <>[](0 .. Top \subseteq blocks \/ ~Undisturbed)

----------------------------------------------------------------------------
(* Statements of the repository that its code does not keep.  README.md gives *)
(* the constants under which TLC finds a counterexample to each.             *)

\* "Keep up to MAIN_WORKERS main (price) backfill containers running."
WorkerCap == Cardinality(ActiveMain) <= MAIN_WORKERS

\* "Price backfill descends contiguously (supervisor), so coverage is monotone", and a
\* month between the lowest and the highest block can be valued (jobs.ts:127-136).  A
\* container publishes its range upward, and several publish at once.
PricedRangeHasNoHole == \A a, c \in blocks : a .. c \subseteq blocks
=============================================================================
