----------------------------- MODULE SwapQueue -----------------------------
(***************************************************************************)
(* The queue behind account_swap_activity (api/src/db/accountSwapQueue.ts).*)
(* A view of raw_events queues every swap with the time of its insert; the *)
(* API pages through the queue, looks up who made each swap, writes the    *)
(* accounts' rows and only then moves the cursor it keeps in a table.      *)
(*                                                                         *)
(* A swap is a number, its place on the chain.  What an insert of the raw  *)
(* tables fills (the extrinsics, the queue, the actors of hook swaps)      *)
(* becomes visible table by table, and inserts overlap.                    *)
(***************************************************************************)
EXTENDS Integers, FiniteSets

CONSTANTS
    Swaps,
    Hooked,         \* swaps no extrinsic dispatched
    Handed,         \* ingested under the former view, which listed the first of them
    Drainers,       \* API processes: one, or two while a container is replaced
    BATCH,          \* rows of a page
    MAX_BATCHES,
    LastStamp,      \* bound on the clock of the server
    MaxFaults       \* bound on failed queries and deaths

ASSUME SwapQueueAssumption ==
    /\ Swaps \subseteq Nat \ {0} /\ IsFiniteSet(Swaps)
    /\ Hooked \subseteq Swaps /\ Handed \subseteq Swaps
    /\ {BATCH, MAX_BATCHES} \subseteq Nat \ {0}
    /\ LastStamp \in Nat /\ MaxFaults \in Nat

Stamp == 0 .. LastStamp
QueueRow == [at : Stamp, swap : Swaps]
Start == [at |-> 0, swap |-> 0]        \* 1970: every row is after it

VARIABLES
    clock,
    signers,    \* swaps whose extrinsic raw_extrinsics holds
    ingested,   \* swaps in raw_events
    running,    \* rows of inserts that are not visible yet
    actors,     \* hook swaps that swap_actor holds
    queue,      \* account_swap_activity_queue
    seeded,     \* account_swap_activity_queue_seed
    cursor,     \* account_swap_activity_queue_state
    listed,     \* account_swap_activity
    drain,      \* [step, position, page, found, batches]
    late,       \* rows that became visible behind a reader
    unnamed,    \* rows whose swap was looked up and not found
    orphans,    \* cursors of saves that are still on their way to the server
    faults

queueVars == <<clock, signers, ingested, running, actors, queue, seeded, cursor,
               listed, drain, late, unnamed, orphans, faults>>
server == <<clock, signers, ingested, running, actors>>
tables == <<queue, seeded, cursor, listed>>

After(r, s) == r.at > s.at \/ (r.at = s.at /\ r.swap > s.swap)

----------------------------------------------------------------------------
(* Ingestion (RawLive, RawBackfill): flushAll writes the extrinsics of a block, waits, *)
(* and writes its events.                                                              *)

Clock ==
    /\ clock < LastStamp
    /\ clock' = clock + 1
    /\ UNCHANGED <<signers, ingested, running, actors, tables, drain, late, unnamed, orphans, faults>>

FlushExtrinsics(s) ==
    /\ s \notin signers \cup Hooked
    /\ signers' = signers \cup {s}
    /\ UNCHANGED <<clock, ingested, running, actors, tables, drain, late, unnamed, orphans, faults>>

MayFlush(s) == s \in signers \cup Hooked

FlushEvents(s) ==
    /\ s \notin ingested /\ \A r \in running : r.swap # s
    /\ MayFlush(s)
    /\ running' = running \cup {[at |-> clock, swap |-> s]}
    /\ UNCHANGED <<clock, signers, ingested, actors, tables, drain, late, unnamed, orphans, faults>>

\* How far the reads and saves have got.
Positions == {drain[d].position : d \in Drainers} \cup orphans \cup {cursor}

Passed(rows) == {r \in rows : \E p \in Positions : ~After(r, p)}

\* account_swap_activity_queue_mv; a reader may have gone by.
Queued(r) ==
    /\ running' = running \ {r}
    /\ queue' = queue \cup {r}
    /\ ingested' = ingested \cup {r.swap}
    /\ late' = late \cup Passed({r})
    /\ UNCHANGED <<clock, signers, actors, seeded, cursor, listed, drain, unnamed, orphans, faults>>

\* swap_actor_mv, of the same insert.
Named(s) ==
    /\ s \in Hooked \ actors
    /\ s \in ingested \/ \E r \in running : r.swap = s
    /\ actors' = actors \cup {s}
    /\ UNCHANGED <<clock, signers, ingested, running, tables, drain, late, unnamed, orphans, faults>>

----------------------------------------------------------------------------
(* seedAccountSwapActivityQueue, once per start of the process. *)

Idle == [step |-> "idle", position |-> Start, page |-> {}, found |-> {}, batches |-> 0]
At(d, step) == drain[d].step = step
Goes(d, step) == drain' = [drain EXCEPT ![d].step = step]

LooksSeeded(d) ==
    /\ At(d, "boot")
    /\ Goes(d, IF seeded THEN "idle" ELSE "seed")
    /\ UNCHANGED <<server, tables, late, unnamed, orphans, faults>>

\* Swaps ingested since the last row that was listed, those of hooks left out.
CatchUp == {s \in ingested \ Hooked : \A t \in listed : s >= t}

SeedInserts(d) ==
    /\ At(d, "seed")
    /\ LET rows == IF listed = {} THEN {} ELSE {[at |-> clock, swap |-> s] : s \in CatchUp} IN
       /\ queue' = queue \cup rows
       /\ late' = late \cup Passed(rows)
    /\ Goes(d, "mark")
    /\ UNCHANGED <<server, seeded, cursor, listed, unnamed, orphans, faults>>

SeedMarks(d) ==
    /\ At(d, "mark")
    /\ seeded' = TRUE
    /\ Goes(d, "idle")
    /\ UNCHANGED <<server, queue, cursor, listed, late, unnamed, orphans, faults>>

----------------------------------------------------------------------------
(* drainAccountSwapActivityQueue. *)

\* Runs of one process do not overlap: drainRunning.
ReadCursor(d) ==
    /\ At(d, "idle")
    /\ \E r \in queue : After(r, cursor)      \* otherwise the run ends as it began
    /\ drain' = [drain EXCEPT ![d] = [Idle EXCEPT !.step = "page", !.position = cursor]]
    /\ UNCHANGED <<server, tables, late, unnamed, orphans, faults>>

\* Mutant: the cursor is a time.
AheadInTime(p) == {r \in queue : r.at > p.at}
Ahead(p) == {r \in queue : After(r, p)}
Page(p) == {r \in Ahead(p) : Cardinality({q \in Ahead(p) : After(r, q)}) < BATCH}
LastOf(page) == CHOOSE r \in page : \A q \in page : ~After(q, r)

ReadPage(d) ==
    /\ At(d, "page")
    /\ LET page == Page(drain[d].position) IN
       drain' = [drain EXCEPT ![d] =
                    IF page = {} THEN Idle
                    ELSE [@ EXCEPT !.step = "resolve", !.page = page,
                                   !.position = LastOf(page)]]
    /\ UNCHANGED <<server, tables, late, unnamed, orphans, faults>>

\* queueExtrinsics and hookSwapActors.
Resolve(d) ==
    /\ At(d, "resolve")
    /\ LET asked == {r.swap : r \in drain[d].page}
           found == asked \cap (signers \cup (actors \cap ingested)) IN
       /\ drain' = [drain EXCEPT ![d].step = "insert", ![d].found = found]
       /\ unnamed' = unnamed \cup {r \in drain[d].page : r.swap \notin found}
    /\ UNCHANGED <<server, tables, late, orphans, faults>>

InsertRows(d) ==
    /\ At(d, "insert")
    /\ listed' = listed \cup drain[d].found
    /\ Goes(d, "save")
    /\ UNCHANGED <<server, queue, seeded, cursor, late, unnamed, orphans, faults>>

Saved(d) == LastOf(drain[d].page)

SaveCursor(d) ==
    /\ At(d, "save")
    /\ cursor' = Saved(d)
    /\ drain' = [drain EXCEPT ![d] =
                    IF Cardinality(@.page) < BATCH \/ @.batches + 1 = MAX_BATCHES THEN Idle
                    ELSE [@ EXCEPT !.step = "page", !.page = {}, !.found = {},
                                   !.batches = drain[d].batches + 1]]
    /\ UNCHANGED <<server, queue, seeded, listed, late, unnamed, orphans, faults>>

\* A save nobody waits for any longer may yet be carried out.
Abandoned(d) ==
    /\ faults < MaxFaults
    /\ faults' = faults + 1
    /\ orphans' \in IF At(d, "save") THEN {orphans, orphans \cup {Saved(d)}} ELSE {orphans}
    /\ UNCHANGED <<server, tables, late, unnamed>>

\* A query fails and the run is over.
Fails(d) ==
    /\ drain[d].step \in {"page", "resolve", "insert", "save"}
    /\ drain' = [drain EXCEPT ![d] = Idle]
    /\ Abandoned(d)

Dies(d) ==
    /\ ~At(d, "boot")
    /\ drain' = [drain EXCEPT ![d] = [Idle EXCEPT !.step = "boot"]]
    /\ Abandoned(d)

OrphanSaves(c) ==
    /\ orphans' = orphans \ {c}
    /\ cursor' = c
    /\ UNCHANGED <<server, queue, seeded, listed, drain, late, unnamed, faults>>

DrainStep(d) ==
    \/ LooksSeeded(d) \/ SeedInserts(d) \/ SeedMarks(d)
    \/ ReadCursor(d) \/ ReadPage(d) \/ Resolve(d) \/ InsertRows(d) \/ SaveCursor(d)

----------------------------------------------------------------------------
FirstOf(S) == {s \in S : \A t \in S : s <= t}

\* A fresh database, or the first start after the former view: the swaps it had not
\* listed when it went are in raw_events and in no queue.
QueueInit ==
    /\ clock = 0
    /\ ingested \in {{}, Handed}
    /\ signers = ingested \ Hooked
    /\ actors = ingested \cap Hooked
    /\ listed = FirstOf(ingested)
    /\ running = {} /\ queue = {} /\ seeded = FALSE /\ cursor = Start
    /\ drain = [d \in Drainers |-> [Idle EXCEPT !.step = "boot"]]
    /\ late = {} /\ unnamed = {} /\ orphans = {} /\ faults = 0

QueueNext ==
    \/ Clock
    \/ \E s \in Swaps : FlushExtrinsics(s) \/ FlushEvents(s) \/ Named(s)
    \/ \E r \in running : Queued(r)
    \/ \E d \in Drainers : DrainStep(d) \/ Fails(d) \/ Dies(d)
    \/ \E c \in orphans : OrphanSaves(c)

QueueSpec == QueueInit /\ [][QueueNext]_queueVars

----------------------------------------------------------------------------
(* Properties. *)

QueueTypeOK ==
    /\ clock \in Stamp
    /\ signers \subseteq Swaps \ Hooked /\ actors \subseteq Hooked
    /\ ingested \subseteq Swaps /\ listed \subseteq Swaps
    /\ running \cup queue \cup late \cup unnamed \subseteq QueueRow
    /\ seeded \in BOOLEAN
    /\ cursor \in QueueRow \cup {Start} /\ orphans \subseteq QueueRow
    /\ \A d \in Drainers :
        /\ drain[d].step \in {"boot", "seed", "mark", "idle", "page", "resolve", "insert", "save"}
        /\ drain[d].position \in QueueRow \cup {Start}
        /\ drain[d].page \subseteq queue /\ drain[d].found \subseteq Swaps
        /\ drain[d].batches \in 0 .. MAX_BATCHES - 1
    /\ faults \in 0 .. MaxFaults

\* A row behind the cursor has reached the accounts' pages, whoever moved the cursor,
\* died or began again, unless it came late or nobody was known to have made the swap.
BehindCursorListed ==
    \A r \in queue \ (late \cup unnamed) : After(r, cursor) \/ r.swap \in listed

\* A signed swap is queued after its extrinsic is there to be looked up: nobody ever
\* fails to find its signer.
SignersFound == \A r \in unnamed : r.swap \in Hooked

\* Once seeded, no signed swap is known to raw_events alone, whenever it came.
HandedOver ==
    seeded => \A s \in ingested \ Hooked : s \in listed \/ \E r \in queue : r.swap = s

\* The queue loses no swap of those it can see in time.
QueueSound == QueueTypeOK /\ BehindCursorListed /\ SignersFound /\ HandedOver

=============================================================================
