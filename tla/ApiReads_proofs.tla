--------------------------- MODULE ApiReads_proofs ---------------------------
(***************************************************************************)
(* Proofs about the reads of the API process that MCApiReads checks: the   *)
(* swap queue, for every set of swaps, page size, number of API processes  *)
(* and number of faults; the generations of account locks, for every set   *)
(* of accounts and queries, and every number of changes and failures; the  *)
(* windows of the activity feed, for every set of rows and requests and    *)
(* every limit of a read; the unlock timelines, for every set of accounts, *)
(* locks, votes and dates; and the votes of a referendum, for every set of *)
(* voters, ballots and extrinsics.                                         *)
(***************************************************************************)
EXTENDS ActivityWindow, SwapQueue, LockSnapshots, LockTimeline, ReferendumVotes,
        FiniteSetTheorems, WellFoundedInduction, TLAPS

RunSteps == {"boot", "seed", "mark", "idle", "page", "resolve", "insert", "save"}
Run == [step : RunSteps, position : QueueRow \cup {Start}, page : SUBSET QueueRow,
        found : SUBSET Swaps, batches : 0 .. MAX_BATCHES - 1]

\* What the proof needs of the shape of the state, beside QueueTypeOK.
Shape ==
    /\ drain \in [Drainers -> Run]
    /\ IsFiniteSet(queue)
    /\ \A d \in Drainers :
        drain[d].step \in {"resolve", "insert", "save"} =>
            drain[d].page # {} /\ drain[d].position = LastOf(drain[d].page)

\* A row is done with: its swap is on the accounts' pages, or was given up on.
Handled(r) == r \in late \cup unnamed \/ r.swap \in listed
Behind(p) == {r \in queue : ~After(r, p)}

\* No save, done or on its way, is ahead of the work.
SavesBehindWork == \A c \in orphans \cup {cursor} : \A r \in Behind(c) : Handled(r)

\* Neither is a run: what it has passed is handled or on the page it holds, and once it
\* has looked its page up, found or given up.
RunsBehindWork ==
    \A d \in Drainers :
        /\ drain[d].step = "page" => \A r \in Behind(drain[d].position) : Handled(r)
        /\ drain[d].step = "resolve" =>
            \A r \in Behind(drain[d].position) : Handled(r) \/ r \in drain[d].page
        /\ drain[d].step = "insert" =>
            \A r \in Behind(drain[d].position) : Handled(r) \/ r.swap \in drain[d].found
        /\ drain[d].step = "save" => \A r \in Behind(drain[d].position) : Handled(r)

\* Extrinsics are written before the events they dispatched.
ExtrinsicsFirst ==
    /\ \A r \in running \cup queue : r.swap \in signers \cup Hooked
    /\ ingested \subseteq signers \cup Hooked

Known(s) == s \in listed \/ \E r \in queue : r.swap = s

\* Until the queue is seeded nothing is listed that the former view had not listed.
SeedingFirst ==
    /\ ~seeded => \A d \in Drainers : drain[d].step \in {"boot", "seed", "mark"}
    /\ \A s \in ingested \ Hooked :
        Known(s) \/ (listed # {} /\ ~seeded /\ \A t \in listed : s >= t)
    /\ (\E d \in Drainers : drain[d].step = "mark") => \A s \in ingested \ Hooked : Known(s)

IInv ==
    /\ QueueTypeOK /\ Shape
    /\ SavesBehindWork /\ RunsBehindWork
    /\ ExtrinsicsFirst /\ SignersFound
    /\ SeedingFirst

----------------------------------------------------------------------------
(* Lemmas about the order of the queue and its pages. *)

\* A nonempty set of naturals has a least element.
LEMMA LeastExists ==
    ASSUME NEW T, T \subseteq Nat, T # {}
    PROVE  \E x \in T : \A y \in T : x <= y
<1>1. PICK x \in T : \A y \in T : ~(<<y, x>> \in OpToRel(<, Nat))
    BY WFMin, NatLessThanWellFounded
<1>2. ASSUME NEW y \in T PROVE x <= y
    <2>1. <<y, x>> \notin OpToRel(<, Nat)
        BY <1>1
    <2>2. <<y, x>> \in Nat \X Nat
        OBVIOUS
    <2>3. ~(y < x)
        BY <2>1, <2>2 DEF OpToRel
    <2> QED
        BY <2>3
<1> QED
    BY <1>2

\* Among subsets of a finite set there is one that contains no other.
LEMMA MinimalExists ==
    ASSUME NEW S, IsFiniteSet(S), NEW T, T \subseteq SUBSET S, T # {}
    PROVE  \E A \in T : \A B \in T : B \subseteq A => B = A
<1>1. \A A \in T : IsFiniteSet(A) /\ Cardinality(A) \in Nat
    BY FS_Subset, FS_CardinalityType
<1>2. PICK n \in {Cardinality(A) : A \in T} : \A m \in {Cardinality(A) : A \in T} : n <= m
    <2> DEFINE C == {Cardinality(A) : A \in T}
    <2>1. C \subseteq Nat /\ C # {}
        BY <1>1
    <2> HIDE DEF C
    <2>2. \E x \in C : \A y \in C : x <= y
        BY <2>1, LeastExists
    <2> QED
        BY <2>2 DEF C
<1>3. PICK A \in T : n = Cardinality(A)
    BY <1>2
<1>4. ASSUME NEW B \in T, B \subseteq A PROVE B = A
    <2>1. Cardinality(A) <= Cardinality(B)
        BY <1>2, <1>3
    <2> QED
        BY <2>1, <1>4, <1>1, FS_Subset
<1> QED
    BY <1>4

\* Rows and cursors have places that can be compared.
LEMMA PlacesAreNumbers ==
    ASSUME NEW p \in QueueRow \cup {Start}
    PROVE  p.at \in Nat /\ p.swap \in Nat
<1>1. CASE p \in QueueRow
    <2>1. p.at \in Stamp /\ p.swap \in Swaps
        BY <1>1 DEF QueueRow
    <2>2. Stamp \subseteq Nat
        BY SwapQueueAssumption DEF Stamp
    <2> QED
        BY <2>1, <2>2, SwapQueueAssumption
<1>2. CASE p = Start
    BY <1>2 DEF Start
<1> QED
    BY <1>1, <1>2

\* The order is strict, total on places and transitive.
LEMMA OrderOfRows ==
    ASSUME NEW p \in QueueRow \cup {Start}, NEW q \in QueueRow \cup {Start},
           NEW r \in QueueRow \cup {Start}
    PROVE  /\ ~After(p, p)
           /\ After(p, q) => ~After(q, p)
           /\ After(p, q) /\ After(q, r) => After(p, r)
           /\ After(p, q) /\ ~After(p, r) => After(r, q)
BY PlacesAreNumbers DEF After

\* LastOf a page is on it, and no row of it is later.
LEMMA LastOfPage ==
    ASSUME NEW page, page \subseteq QueueRow, IsFiniteSet(page), page # {}
    PROVE  LastOf(page) \in page /\ \A q \in page : ~After(q, LastOf(page))
<1> DEFINE Later(r) == {q \in page : After(q, r)}
<1>1. PICK A \in {Later(r) : r \in page} : \A B \in {Later(r) : r \in page} : B \subseteq A => B = A
    <2> DEFINE T == {Later(r) : r \in page}
    <2>1. T \subseteq SUBSET page /\ T # {}
        OBVIOUS
    <2> HIDE DEF T
    <2>2. \E A \in T : \A B \in T : B \subseteq A => B = A
        BY <2>1, MinimalExists
    <2> QED
        BY <2>2 DEF T
<1>2. PICK r \in page : A = Later(r)
    BY <1>1
<1>3. ASSUME NEW q \in page, After(q, r) PROVE FALSE
    <2>1. Later(q) \subseteq Later(r)
        BY <1>3, OrderOfRows
    <2>2. Later(q) = Later(r)
        BY <2>1, <1>1, <1>2
    <2>3. q \in Later(r) /\ q \notin Later(q)
        BY <1>3, OrderOfRows
    <2> QED
        BY <2>2, <2>3
<1> QED
    BY <1>3 DEF LastOf

\* A page leaves out no row up to its last.
LEMMA PageHasNoGap ==
    ASSUME NEW p \in QueueRow \cup {Start}, queue \subseteq QueueRow, IsFiniteSet(queue),
           Page(p) # {}, NEW r \in queue, ~After(r, LastOf(Page(p)))
    PROVE  ~After(r, p) \/ r \in Page(p)
<1> DEFINE last == LastOf(Page(p))
           Preceding(x) == {q \in Ahead(p) : After(x, q)}
<1>1. Page(p) \subseteq Ahead(p) /\ Ahead(p) \subseteq queue /\ IsFiniteSet(Ahead(p))
    BY FS_Subset DEF Page, Ahead
<1>2. last \in Page(p)
    BY <1>1, LastOfPage, FS_Subset
<1>3. SUFFICES ASSUME After(r, p) PROVE r \in Page(p)
    OBVIOUS
<1>4. Preceding(r) \subseteq Preceding(last)
    BY <1>1, <1>2, OrderOfRows
<1>5. IsFiniteSet(Preceding(last)) /\ IsFiniteSet(Preceding(r))
    BY <1>1, FS_Subset
<1>6. Cardinality(Preceding(r)) <= Cardinality(Preceding(last))
    BY <1>4, <1>5, FS_Subset
<1>7. Cardinality(Preceding(last)) < BATCH
    BY <1>2 DEF Page
<1>8. Cardinality(Preceding(r)) < BATCH
    BY <1>5, <1>6, <1>7, FS_CardinalityType, SwapQueueAssumption
<1> QED
    BY <1>3, <1>8 DEF Page, Ahead

----------------------------------------------------------------------------
(* The shape of the state. *)

\* A run is a record of its fields, and one that starts over holds nothing.
LEMMA IdleIsRun ==
    Idle \in Run /\ [Idle EXCEPT !.step = "boot"] \in Run
BY SwapQueueAssumption DEF Idle, Run, RunSteps

\* The initial states are of the shape.
LEMMA InitShape == QueueInit => QueueTypeOK /\ Shape
<1> SUFFICES ASSUME QueueInit PROVE QueueTypeOK /\ Shape
    OBVIOUS
<1>1. drain \in [Drainers -> Run]
    BY IdleIsRun DEF QueueInit
<1>2. \A d \in Drainers : drain[d].step = "boot" /\ drain[d].page = {}
    BY DEF QueueInit, Idle
<1>3. ingested \subseteq Swaps /\ listed \subseteq Swaps
    BY SwapQueueAssumption DEF QueueInit, FirstOf
<1>4. Shape
    BY <1>1, <1>2, FS_EmptySet DEF QueueInit, Shape
<1>5. \A d \in Drainers :
        /\ drain[d].step \in RunSteps
        /\ drain[d].position \in QueueRow \cup {Start}
        /\ drain[d].page \subseteq queue /\ drain[d].found \subseteq Swaps
        /\ drain[d].batches \in 0 .. MAX_BATCHES - 1
    BY <1>1, <1>2 DEF Run
<1>6. clock \in Stamp /\ faults \in 0 .. MaxFaults
    BY SwapQueueAssumption DEF QueueInit, Stamp
<1>7. signers \subseteq Swaps \ Hooked /\ actors \subseteq Hooked
    BY <1>3 DEF QueueInit
<1>8. QueueTypeOK
    BY <1>3, <1>5, <1>6, <1>7 DEF QueueInit, QueueTypeOK, RunSteps
<1> QED
    BY <1>4, <1>8

\* What is left to show of a step that changes no run but d.
LEMMA OneRunMoves ==
    ASSUME QueueTypeOK, Shape, queue \subseteq queue', NEW d \in Drainers,
           drain' \in [Drainers -> Run],
           \A e \in Drainers \ {d} : drain'[e] = drain[e],
           drain'[d].page \subseteq queue',
           drain'[d].step \in {"resolve", "insert", "save"} =>
               drain'[d].page # {} /\ drain'[d].position = LastOf(drain'[d].page)
    PROVE  /\ \A e \in Drainers :
                /\ drain'[e].step \in RunSteps
                /\ drain'[e].position \in QueueRow \cup {Start}
                /\ drain'[e].page \subseteq queue' /\ drain'[e].found \subseteq Swaps
                /\ drain'[e].batches \in 0 .. MAX_BATCHES - 1
           /\ \A e \in Drainers :
                drain'[e].step \in {"resolve", "insert", "save"} =>
                    drain'[e].page # {} /\ drain'[e].position = LastOf(drain'[e].page)
<1>1. \A e \in Drainers : drain'[e] \in Run
    OBVIOUS
<1>2. \A e \in Drainers \ {d} : drain'[e].page \subseteq queue'
    BY DEF QueueTypeOK
<1> QED
    BY <1>1, <1>2 DEF Shape, Run

\* The saves an abandoned step leaves behind are of rows, and the fault is counted.
LEMMA AbandonedTypes ==
    ASSUME QueueTypeOK, Shape, NEW d \in Drainers, Abandoned(d)
    PROVE  orphans' \subseteq QueueRow /\ faults' \in 0 .. MaxFaults
<1>1. At(d, "save") => Saved(d) \in QueueRow
    <2> SUFFICES ASSUME At(d, "save") PROVE Saved(d) \in QueueRow
        OBVIOUS
    <2>1. drain[d].page \subseteq queue /\ drain[d].page # {}
        BY DEF QueueTypeOK, Shape, At
    <2>2. queue \subseteq QueueRow /\ IsFiniteSet(queue)
        BY DEF QueueTypeOK, Shape
    <2>3. IsFiniteSet(drain[d].page)
        BY <2>1, <2>2, FS_Subset
    <2>4. Saved(d) \in drain[d].page
        BY <2>1, <2>2, <2>3, LastOfPage DEF Saved
    <2> QED
        BY <2>1, <2>2, <2>4
<1>2. faults \in 0 .. MaxFaults /\ orphans \subseteq QueueRow
    BY DEF QueueTypeOK
<1>3. faults' \in 0 .. MaxFaults
    BY <1>2, SwapQueueAssumption DEF Abandoned
<1> QED
    BY <1>1, <1>2, <1>3 DEF Abandoned

\* Seeding inserts finitely many rows, of the swaps it catches up.
LEMMA SeedRows ==
    ASSUME QueueTypeOK, NEW rows, rows = {[at |-> clock, swap |-> s] : s \in CatchUp}
    PROVE  IsFiniteSet(rows) /\ rows \subseteq QueueRow
<1> DEFINE f == [s \in CatchUp |-> [at |-> clock, swap |-> s]]
<1>1. CatchUp \subseteq Swaps
    BY DEF CatchUp, QueueTypeOK
<1>2. IsFiniteSet(CatchUp)
    BY <1>1, FS_Subset, SwapQueueAssumption
<1>3. f \in Surjection(CatchUp, rows)
    BY DEF Surjection
<1>4. IsFiniteSet(rows)
    BY <1>2, <1>3, FS_Surjection
<1> QED
    BY <1>1, <1>4 DEF QueueRow, QueueTypeOK

\* Every step keeps the shape.
LEMMA ShapeStep ==
    QueueTypeOK /\ Shape /\ ExtrinsicsFirst /\ [QueueNext]_queueVars => QueueTypeOK' /\ Shape'
<1> SUFFICES ASSUME QueueTypeOK, Shape, ExtrinsicsFirst, [QueueNext]_queueVars
             PROVE  QueueTypeOK' /\ Shape'
    OBVIOUS
<1> USE DEF server, tables, At, Goes
<1>0. \A d \in Drainers : drain[d] \in Run
    BY DEF Shape
<1>1. ASSUME Clock PROVE QueueTypeOK' /\ Shape'
    <2>1. clock' \in Stamp
        BY <1>1, SwapQueueAssumption DEF Clock, Stamp, QueueTypeOK
    <2> QED
        BY <1>1, <2>1 DEF Clock, QueueTypeOK, Shape
<1>2. ASSUME NEW s \in Swaps, FlushExtrinsics(s) PROVE QueueTypeOK' /\ Shape'
    BY <1>2 DEF FlushExtrinsics, QueueTypeOK, Shape
<1>3. ASSUME NEW s \in Swaps, FlushEvents(s) PROVE QueueTypeOK' /\ Shape'
    <2>1. running' \subseteq QueueRow
        BY <1>3 DEF FlushEvents, QueueRow, QueueTypeOK
    <2> QED
        BY <1>3, <2>1 DEF FlushEvents, QueueTypeOK, Shape
<1>4. ASSUME NEW s \in Swaps, Named(s) PROVE QueueTypeOK' /\ Shape'
    BY <1>4 DEF Named, QueueTypeOK, Shape
<1>5. ASSUME NEW r \in running, Queued(r) PROVE QueueTypeOK' /\ Shape'
    <2>1. r \in QueueRow /\ r.swap \in Swaps
        BY DEF QueueTypeOK, QueueRow
    <2>2. Passed({r}) \subseteq QueueRow
        BY <2>1 DEF Passed
    <2>3. IsFiniteSet(queue')
        BY <1>5, FS_AddElement DEF Queued, Shape
    <2> QED
        BY <1>5, <2>1, <2>2, <2>3 DEF Queued, QueueTypeOK, Shape
<1>6. ASSUME NEW d \in Drainers, LooksSeeded(d) PROVE QueueTypeOK' /\ Shape'
    <2>1. drain' \in [Drainers -> Run] /\ (\A e \in Drainers \ {d} : drain'[e] = drain[e])
          /\ drain'[d].page = drain[d].page /\ drain'[d].step \in {"idle", "seed"}
        BY <1>0, <1>6 DEF LooksSeeded, Shape, Run, RunSteps
    <2> QED
        BY <1>6, <2>1, OneRunMoves DEF LooksSeeded, QueueTypeOK, Shape, RunSteps
<1>7. ASSUME NEW d \in Drainers, SeedInserts(d) PROVE QueueTypeOK' /\ Shape'
    <2> DEFINE all == {[at |-> clock, swap |-> s] : s \in CatchUp}
               rows == IF listed = {} THEN {} ELSE all
    <2>1. IsFiniteSet(all) /\ all \subseteq QueueRow
        BY SeedRows
    <2>2. IsFiniteSet(rows) /\ rows \subseteq QueueRow
        BY <2>1, FS_EmptySet
    <2> HIDE DEF rows
    <2>3. queue' = queue \cup rows /\ late' = late \cup Passed(rows)
        BY <1>7 DEF SeedInserts, rows
    <2>4. IsFiniteSet(queue') /\ queue' \subseteq QueueRow /\ late' \subseteq QueueRow
        BY <2>2, <2>3, FS_Union DEF Passed, QueueTypeOK, Shape
    <2>5. drain' \in [Drainers -> Run] /\ (\A e \in Drainers \ {d} : drain'[e] = drain[e])
          /\ drain'[d].page = drain[d].page /\ drain'[d].step = "mark"
        BY <1>0, <1>7 DEF SeedInserts, Shape, Run, RunSteps
    <2>6. queue \subseteq queue' /\ drain'[d].page \subseteq queue'
        BY <2>3, <2>5 DEF QueueTypeOK
    <2> HIDE DEF all
    <2> QED
        BY <1>7, <2>4, <2>5, <2>6, OneRunMoves DEF SeedInserts, QueueTypeOK, Shape, RunSteps
<1>8. ASSUME NEW d \in Drainers, SeedMarks(d) PROVE QueueTypeOK' /\ Shape'
    <2>1. drain' \in [Drainers -> Run] /\ (\A e \in Drainers \ {d} : drain'[e] = drain[e])
          /\ drain'[d].page = drain[d].page /\ drain'[d].step = "idle"
        BY <1>0, <1>8 DEF SeedMarks, Shape, Run, RunSteps
    <2> QED
        BY <1>8, <2>1, OneRunMoves DEF SeedMarks, QueueTypeOK, Shape, RunSteps
<1>9. ASSUME NEW d \in Drainers, ReadCursor(d) PROVE QueueTypeOK' /\ Shape'
    <2>1. drain' \in [Drainers -> Run] /\ (\A e \in Drainers \ {d} : drain'[e] = drain[e])
          /\ drain'[d].page = {} /\ drain'[d].step = "page"
        BY <1>0, <1>9, IdleIsRun DEF ReadCursor, Shape, Run, RunSteps, Idle, QueueTypeOK
    <2> QED
        BY <1>9, <2>1, OneRunMoves DEF ReadCursor, QueueTypeOK, Shape, RunSteps
<1>10. ASSUME NEW d \in Drainers, ReadPage(d) PROVE QueueTypeOK' /\ Shape'
    <2> DEFINE page == Page(drain[d].position)
    <2>1. page \subseteq queue /\ page \subseteq QueueRow /\ IsFiniteSet(page)
        BY FS_Subset DEF Page, Ahead, QueueTypeOK, Shape
    <2>2. page # {} => LastOf(page) \in QueueRow
        BY <2>1, LastOfPage
    <2> HIDE DEF page
    <2>3. drain' = [drain EXCEPT ![d] = IF page = {} THEN Idle
                        ELSE [@ EXCEPT !.step = "resolve", !.page = page,
                                       !.position = LastOf(page)]]
        BY <1>10 DEF ReadPage, page
    <2>4. drain' \in [Drainers -> Run] /\ (\A e \in Drainers \ {d} : drain'[e] = drain[e])
        BY <1>0, <2>1, <2>2, <2>3, IdleIsRun DEF Shape, Run, RunSteps
    <2>5. /\ drain'[d].page \subseteq queue
          /\ drain'[d].step \in {"resolve", "insert", "save"} =>
                drain'[d].page # {} /\ drain'[d].position = LastOf(drain'[d].page)
        BY <1>0, <2>1, <2>3 DEF Shape, Run, Idle
    <2> QED
        BY <1>10, <2>4, <2>5, OneRunMoves DEF ReadPage, QueueTypeOK, Shape, RunSteps
<1>11. ASSUME NEW d \in Drainers, Resolve(d) PROVE QueueTypeOK' /\ Shape'
    <2> DEFINE found == {r.swap : r \in drain[d].page} \cap (signers \cup (actors \cap ingested))
    <2>1. drain[d].page \subseteq QueueRow /\ drain[d].page \subseteq queue
        BY DEF QueueTypeOK
    <2>2. found \subseteq Swaps
        BY DEF QueueTypeOK
    <2> HIDE DEF found
    <2>3. drain' = [drain EXCEPT ![d].step = "insert", ![d].found = found]
          /\ unnamed' = unnamed \cup {r \in drain[d].page : r.swap \notin found}
        BY <1>11 DEF Resolve, found
    <2>4. drain' \in [Drainers -> Run] /\ (\A e \in Drainers \ {d} : drain'[e] = drain[e])
          /\ drain'[d].page = drain[d].page /\ drain'[d].position = drain[d].position
        BY <1>0, <2>2, <2>3 DEF Shape, Run, RunSteps
    <2>5. drain'[d].page # {} /\ drain'[d].position = LastOf(drain'[d].page)
        BY <1>11, <2>4 DEF Resolve, Shape
    <2>6. unnamed' \subseteq QueueRow
        BY <2>1, <2>3 DEF QueueTypeOK
    <2> QED
        BY <1>11, <2>1, <2>4, <2>5, <2>6, OneRunMoves DEF Resolve, QueueTypeOK, Shape, RunSteps
<1>12. ASSUME NEW d \in Drainers, InsertRows(d) PROVE QueueTypeOK' /\ Shape'
    <2>1. drain' \in [Drainers -> Run] /\ (\A e \in Drainers \ {d} : drain'[e] = drain[e])
          /\ drain'[d].page = drain[d].page /\ drain'[d].position = drain[d].position
        BY <1>0, <1>12 DEF InsertRows, Shape, Run, RunSteps
    <2>2. drain'[d].page # {} /\ drain'[d].position = LastOf(drain'[d].page)
        BY <1>12, <2>1 DEF InsertRows, Shape
    <2>3. listed' \subseteq Swaps
        BY <1>12 DEF InsertRows, QueueTypeOK
    <2> QED
        BY <1>12, <2>1, <2>2, <2>3, OneRunMoves DEF InsertRows, QueueTypeOK, Shape, RunSteps
<1>13. ASSUME NEW d \in Drainers, SaveCursor(d) PROVE QueueTypeOK' /\ Shape'
    <2>1. Saved(d) = drain[d].position
        BY <1>13 DEF SaveCursor, Saved, Shape
    <2>2. drain' \in [Drainers -> Run] /\ (\A e \in Drainers \ {d} : drain'[e] = drain[e])
          /\ drain'[d].page = {} /\ drain'[d].step \in {"idle", "page"}
        <3> DEFINE next == [drain[d] EXCEPT !.step = "page", !.page = {}, !.found = {},
                                            !.batches = @ + 1]
        <3>1. drain[d].batches \in 0 .. MAX_BATCHES - 1
            BY <1>0 DEF Run
        <3>2. drain[d].batches + 1 # MAX_BATCHES => drain[d].batches + 1 \in 0 .. MAX_BATCHES - 1
            BY <3>1, SwapQueueAssumption
        <3>3. next.page = {} /\ next.step = "page"
            BY <1>0 DEF Run
        <3>4. drain[d].batches + 1 # MAX_BATCHES => next \in Run
            BY <1>0, <3>2 DEF Run, RunSteps
        <3> HIDE DEF next
        <3>5. CASE Cardinality(drain[d].page) < BATCH \/ drain[d].batches + 1 = MAX_BATCHES
            <4>1. drain' = [drain EXCEPT ![d] = Idle]
                BY <1>13, <3>5 DEF SaveCursor
            <4>2. Idle.page = {} /\ Idle.step = "idle"
                BY DEF Idle
            <4> QED
                BY <4>1, <4>2, IdleIsRun DEF Shape
        <3>6. CASE ~(Cardinality(drain[d].page) < BATCH \/ drain[d].batches + 1 = MAX_BATCHES)
            <4>1. drain' = [drain EXCEPT ![d] = next]
                BY <1>13, <3>6 DEF SaveCursor, next
            <4> QED
                BY <3>3, <3>4, <3>6, <4>1 DEF Shape
        <3> QED
            BY <3>5, <3>6
    <2>3. cursor' \in QueueRow \cup {Start}
        BY <1>0, <1>13, <2>1 DEF SaveCursor, Run
    <2> QED
        BY <1>13, <2>2, <2>3, OneRunMoves DEF SaveCursor, QueueTypeOK, Shape, RunSteps
<1>14. ASSUME NEW d \in Drainers, Fails(d) \/ Dies(d) PROVE QueueTypeOK' /\ Shape'
    <2>1. Abandoned(d)
        BY <1>14 DEF Fails, Dies
    <2>2. drain' \in [Drainers -> Run] /\ (\A e \in Drainers \ {d} : drain'[e] = drain[e])
          /\ drain'[d].page = {} /\ drain'[d].step \in {"idle", "boot"}
        <3>1. Idle.page = {} /\ [Idle EXCEPT !.step = "boot"].page = {}
              /\ {Idle.step, [Idle EXCEPT !.step = "boot"].step} = {"idle", "boot"}
            BY DEF Idle
        <3>2. PICK run \in {Idle, [Idle EXCEPT !.step = "boot"]} : drain' = [drain EXCEPT ![d] = run]
            BY <1>14 DEF Fails, Dies
        <3> QED
            BY <3>1, <3>2, IdleIsRun DEF Shape
    <2> QED
        BY <2>1, <2>2, AbandonedTypes, OneRunMoves DEF Abandoned, QueueTypeOK, Shape, RunSteps
<1>15. ASSUME NEW c \in orphans, OrphanSaves(c) PROVE QueueTypeOK' /\ Shape'
    BY <1>15 DEF OrphanSaves, QueueTypeOK, Shape
<1>16. ASSUME UNCHANGED queueVars PROVE QueueTypeOK' /\ Shape'
    BY <1>16 DEF queueVars, QueueTypeOK, Shape
<1> QED
    BY <1>1, <1>2, <1>3, <1>4, <1>5, <1>6, <1>7, <1>8, <1>9, <1>10, <1>11, <1>12, <1>13,
       <1>14, <1>15, <1>16 DEF QueueNext, DrainStep

----------------------------------------------------------------------------
(* Nothing is passed over. *)

\* A step forgets no handled row, and a row it queues behind a reader is late.
LEMMA RowsComeHandled ==
    ASSUME QueueTypeOK, [QueueNext]_queueVars
    PROVE  /\ late \subseteq late' /\ unnamed \subseteq unnamed' /\ listed \subseteq listed'
           /\ \A p \in Positions : \A r \in queue' : After(r, p) \/ r \in queue \/ r \in late'
<1> USE DEF server, tables
<1>1. ASSUME NEW rows, queue' = queue \cup rows, late' = late \cup Passed(rows)
      PROVE  \A p \in Positions : \A r \in queue' : After(r, p) \/ r \in queue \/ r \in late'
    BY <1>1 DEF Passed
<1>2. ASSUME NEW r \in running, Queued(r)
      PROVE  /\ late \subseteq late' /\ unnamed \subseteq unnamed' /\ listed \subseteq listed'
             /\ \A p \in Positions : \A x \in queue' : After(x, p) \/ x \in queue \/ x \in late'
    <2>1. queue' = queue \cup {r} /\ late' = late \cup Passed({r})
        BY <1>2 DEF Queued
    <2>2. \A p \in Positions : \A x \in queue' : After(x, p) \/ x \in queue \/ x \in late'
        BY <2>1, <1>1
    <2> QED
        BY <1>2, <2>1, <2>2 DEF Queued
<1>3. ASSUME NEW d \in Drainers, SeedInserts(d)
      PROVE  /\ late \subseteq late' /\ unnamed \subseteq unnamed' /\ listed \subseteq listed'
             /\ \A p \in Positions : \A x \in queue' : After(x, p) \/ x \in queue \/ x \in late'
    <2>1. PICK rows : queue' = queue \cup rows /\ late' = late \cup Passed(rows)
        BY <1>3 DEF SeedInserts
    <2>2. \A p \in Positions : \A x \in queue' : After(x, p) \/ x \in queue \/ x \in late'
        BY <2>1, <1>1
    <2> QED
        BY <1>3, <2>1, <2>2 DEF SeedInserts
<1> QED
    BY <1>2, <1>3 DEF QueueNext, DrainStep, queueVars, Clock, FlushExtrinsics, FlushEvents, Named,
        LooksSeeded, SeedMarks, ReadCursor, ReadPage, Resolve, InsertRows, SaveCursor, Fails,
        Dies, Abandoned, OrphanSaves

\* The place a run saves is the one it has read to.
LEMMA SavedIsPosition ==
    ASSUME Shape, NEW d \in Drainers, At(d, "save")
    PROVE  Saved(d) = drain[d].position
BY DEF Shape, At, Saved

\* A step leaves a save, done or on its way, where it was, or takes it from a run that
\* has inserted all it read.
LEMMA SavesComeFromRuns ==
    ASSUME Shape, [QueueNext]_queueVars, NEW c \in (orphans \cup {cursor})'
    PROVE  \/ c \in orphans \cup {cursor}
           \/ \E d \in Drainers : drain[d].step = "save" /\ c = drain[d].position
<1> USE DEF server, tables
<1>1. ASSUME NEW d \in Drainers, SaveCursor(d)
      PROVE  c \in orphans \cup {cursor} \/ (drain[d].step = "save" /\ c = drain[d].position)
    BY <1>1, SavedIsPosition DEF SaveCursor, At
<1>2. ASSUME NEW d \in Drainers, Abandoned(d)
      PROVE  c \in orphans \cup {cursor} \/ (drain[d].step = "save" /\ c = drain[d].position)
    BY <1>2, SavedIsPosition DEF Abandoned, At
<1> QED
    BY <1>1, <1>2 DEF QueueNext, DrainStep, queueVars, Clock, FlushExtrinsics, FlushEvents, Named,
        Queued, LooksSeeded, SeedInserts, SeedMarks, ReadCursor, ReadPage, Resolve, InsertRows,
        Fails, Dies, OrphanSaves

\* Every step keeps the saves behind the work.
LEMMA SavesStep ==
    QueueTypeOK /\ Shape /\ SavesBehindWork /\ RunsBehindWork /\ [QueueNext]_queueVars
        => SavesBehindWork'
<1> SUFFICES ASSUME QueueTypeOK, Shape, SavesBehindWork, RunsBehindWork, [QueueNext]_queueVars,
                    NEW c \in (orphans \cup {cursor})',
                    NEW r \in queue', ~After(r, c)
             PROVE  Handled(r)'
    BY DEF SavesBehindWork, Behind
<1>1. c \in Positions /\ (r \in queue => Handled(r))
    BY SavesComeFromRuns DEF Positions, SavesBehindWork, RunsBehindWork, Behind
<1> QED
    BY <1>1, RowsComeHandled DEF Handled

\* A run that a step leaves alone stays behind its work.
LEMMA RunStands ==
    ASSUME QueueTypeOK, RunsBehindWork, [QueueNext]_queueVars,
           NEW d \in Drainers, drain'[d] = drain[d],
           NEW r \in queue', ~After(r, drain[d].position)
    PROVE  /\ drain[d].step \in {"page", "save"} => Handled(r)'
           /\ drain[d].step = "resolve" => Handled(r)' \/ r \in drain[d].page
           /\ drain[d].step = "insert" => Handled(r)' \/ r.swap \in drain[d].found
<1>1. drain[d].position \in Positions
    BY DEF Positions
<1>2. r \in queue \/ Handled(r)'
    BY <1>1, RowsComeHandled DEF Handled
<1>3. Handled(r) => Handled(r)'
    BY RowsComeHandled DEF Handled
<1> QED
    BY <1>2, <1>3 DEF RunsBehindWork, Behind

\* What RunsBehindWork asks of one run, after a step.
RunBehindWork(d) ==
    \A r \in queue :
        ~After(r, drain[d].position) =>
            /\ drain[d].step \in {"page", "save"} => Handled(r)
            /\ drain[d].step = "resolve" => Handled(r) \/ r \in drain[d].page
            /\ drain[d].step = "insert" => Handled(r) \/ r.swap \in drain[d].found

\* A step of a run keeps it behind its work.
LEMMA RunGoesOn ==
    ASSUME QueueTypeOK, Shape, SavesBehindWork, RunsBehindWork, [QueueNext]_queueVars,
           NEW d \in Drainers, DrainStep(d) \/ Fails(d) \/ Dies(d)
    PROVE  RunBehindWork(d)'
<1> USE DEF server, tables, At, Goes
<1>0. drain \in [Drainers -> Run] /\ drain[d] \in Run
    BY DEF Shape
<1>1. ASSUME drain'[d].step \notin {"page", "resolve", "insert", "save"} PROVE RunBehindWork(d)'
    BY <1>1 DEF RunBehindWork
<1>2. CASE LooksSeeded(d) \/ SeedInserts(d) \/ SeedMarks(d) \/ Fails(d) \/ Dies(d)
    <2>1. drain'[d].step \in {"idle", "seed", "mark", "boot"}
        BY <1>0, <1>2 DEF LooksSeeded, SeedInserts, SeedMarks, Fails, Dies, Idle, Run
    <2> QED
        BY <2>1, <1>1
<1>3. CASE ReadCursor(d)
    <2>1. drain'[d].position = cursor /\ drain'[d].step = "page" /\ queue' = queue
        BY <1>0, <1>3 DEF ReadCursor, Idle
    <2>2. \A r \in queue : ~After(r, cursor) => Handled(r)'
        BY <1>3, RowsComeHandled DEF SavesBehindWork, Behind, Handled
    <2> QED
        BY <2>1, <2>2 DEF RunBehindWork
<1>4. CASE ReadPage(d)
    <2> DEFINE p == drain[d].position
               page == Page(p)
    <2>1. drain[d].step = "page" /\ p \in QueueRow \cup {Start}
        BY <1>0, <1>4 DEF ReadPage, Run
    <2>2. page = {} => drain'[d].step = "idle"
        BY <1>0, <1>4 DEF ReadPage, Idle
    <2>3. page # {} =>
            /\ drain'[d].step = "resolve" /\ drain'[d].page = page
            /\ drain'[d].position = LastOf(page)
        BY <1>0, <1>4 DEF ReadPage, Run
    <2>4. queue' = queue /\ late' = late /\ unnamed' = unnamed /\ listed' = listed
        BY <1>4 DEF ReadPage
    <2>5. queue \subseteq QueueRow /\ IsFiniteSet(queue)
        BY DEF QueueTypeOK, Shape
    <2>6. ASSUME page # {}, NEW r \in queue, ~After(r, LastOf(page))
          PROVE  Handled(r) \/ r \in page
        <3>1. ~After(r, p) \/ r \in page
            BY <2>1, <2>5, <2>6, PageHasNoGap
        <3> QED
            BY <2>1, <3>1 DEF RunsBehindWork, Behind
    <2> HIDE DEF page
    <2> QED
        BY <1>1, <2>2, <2>3, <2>4, <2>6 DEF RunBehindWork, Handled
<1>5. CASE Resolve(d)
    <2> DEFINE found == {r.swap : r \in drain[d].page} \cap (signers \cup (actors \cap ingested))
    <2>1. /\ drain'[d].step = "insert" /\ drain'[d].position = drain[d].position
          /\ drain'[d].found = found
        BY <1>0, <1>5 DEF Resolve, Run
    <2>2. /\ queue' = queue /\ late' = late /\ listed' = listed
          /\ unnamed' = unnamed \cup {r \in drain[d].page : r.swap \notin found}
        BY <1>5 DEF Resolve
    <2>3. \A r \in queue : ~After(r, drain[d].position) => Handled(r) \/ r \in drain[d].page
        BY <1>5 DEF Resolve, RunsBehindWork, Behind
    <2> HIDE DEF found
    <2> QED
        BY <2>1, <2>2, <2>3 DEF RunBehindWork, Handled
<1>6. CASE InsertRows(d)
    <2>1. drain'[d].step = "save" /\ drain'[d].position = drain[d].position
        BY <1>0, <1>6 DEF InsertRows, Run
    <2>2. /\ queue' = queue /\ late' = late /\ unnamed' = unnamed
          /\ listed' = listed \cup drain[d].found
        BY <1>6 DEF InsertRows
    <2>3. \A r \in queue :
            ~After(r, drain[d].position) => Handled(r) \/ r.swap \in drain[d].found
        BY <1>6 DEF InsertRows, RunsBehindWork, Behind
    <2> QED
        BY <2>1, <2>2, <2>3 DEF RunBehindWork, Handled
<1>7. CASE SaveCursor(d)
    <2>1. \/ drain'[d].step = "idle"
          \/ drain'[d].step = "page" /\ drain'[d].position = drain[d].position
        BY <1>0, <1>7 DEF SaveCursor, Run, Idle
    <2>2. queue' = queue /\ late' = late /\ unnamed' = unnamed /\ listed' = listed
        BY <1>7 DEF SaveCursor
    <2>3. \A r \in queue : ~After(r, drain[d].position) => Handled(r)
        BY <1>7 DEF SaveCursor, RunsBehindWork, Behind
    <2> QED
        BY <2>1, <2>2, <2>3 DEF RunBehindWork, Handled
<1> QED
    BY <1>2, <1>3, <1>4, <1>5, <1>6, <1>7 DEF DrainStep

\* Every step keeps the runs behind their work.
LEMMA RunsStep ==
    QueueTypeOK /\ Shape /\ SavesBehindWork /\ RunsBehindWork /\ [QueueNext]_queueVars
        => RunsBehindWork'
<1> SUFFICES ASSUME QueueTypeOK, Shape, SavesBehindWork, RunsBehindWork, [QueueNext]_queueVars,
                    NEW d \in Drainers
             PROVE  RunBehindWork(d)'
    BY DEF RunsBehindWork, RunBehindWork, Behind
<1>1. CASE drain'[d] = drain[d]
    BY <1>1, RunStands DEF RunBehindWork
<1>2. CASE drain'[d] # drain[d]
    <2>1. PICK e \in Drainers : DrainStep(e) \/ Fails(e) \/ Dies(e)
        BY <1>2 DEF QueueNext, queueVars, Clock, FlushExtrinsics, FlushEvents, Named, Queued,
            OrphanSaves
    <2>2. \A x \in Drainers \ {e} : drain'[x] = drain[x]
        BY <2>1 DEF Shape, DrainStep, LooksSeeded, SeedInserts, SeedMarks, ReadCursor, ReadPage,
            Resolve, InsertRows, SaveCursor, Fails, Dies, Goes
    <2> QED
        BY <1>2, <2>1, <2>2, RunGoesOn
<1> QED
    BY <1>1, <1>2

----------------------------------------------------------------------------
(* Who made a swap is known, and the former view's swaps are handed over. *)

\* Every step keeps the extrinsics ahead of their events.
LEMMA ExtrinsicsStep ==
    QueueTypeOK /\ ExtrinsicsFirst /\ SignersFound /\ [QueueNext]_queueVars
        => ExtrinsicsFirst' /\ SignersFound'
<1> SUFFICES ASSUME QueueTypeOK, ExtrinsicsFirst, SignersFound, [QueueNext]_queueVars
             PROVE  ExtrinsicsFirst' /\ SignersFound'
    OBVIOUS
<1> USE DEF server, tables
<1>1. ASSUME NEW s \in Swaps, FlushExtrinsics(s) \/ FlushEvents(s) \/ Named(s)
      PROVE  ExtrinsicsFirst' /\ SignersFound'
    BY <1>1 DEF FlushExtrinsics, FlushEvents, MayFlush, Named, ExtrinsicsFirst, SignersFound
<1>2. ASSUME NEW r \in running, Queued(r) PROVE ExtrinsicsFirst' /\ SignersFound'
    BY <1>2 DEF Queued, ExtrinsicsFirst, SignersFound
<1>3. ASSUME NEW d \in Drainers, SeedInserts(d) PROVE ExtrinsicsFirst' /\ SignersFound'
    <2>1. queue' \subseteq queue \cup {[at |-> clock, swap |-> s] : s \in CatchUp}
        BY <1>3 DEF SeedInserts
    <2>2. \A r \in queue' : r.swap \in signers \cup Hooked
        BY <2>1 DEF ExtrinsicsFirst, CatchUp
    <2> QED
        BY <1>3, <2>2 DEF SeedInserts, ExtrinsicsFirst, SignersFound
<1>4. ASSUME NEW d \in Drainers, Resolve(d) PROVE ExtrinsicsFirst' /\ SignersFound'
    <2>1. \A r \in drain[d].page : r.swap \in signers \cup Hooked
        BY DEF QueueTypeOK, ExtrinsicsFirst
    <2>2. \A r \in unnamed' : r.swap \in Hooked
        BY <1>4, <2>1 DEF Resolve, SignersFound
    <2> QED
        BY <1>4, <2>2 DEF Resolve, ExtrinsicsFirst, SignersFound
<1>5. ASSUME running' = running, queue' = queue, signers' = signers, ingested' = ingested,
             unnamed' = unnamed
      PROVE  ExtrinsicsFirst' /\ SignersFound'
    BY <1>5 DEF ExtrinsicsFirst, SignersFound
<1> QED
    BY <1>1, <1>2, <1>3, <1>4, <1>5 DEF QueueNext, DrainStep, queueVars, Clock, LooksSeeded,
        SeedMarks, ReadCursor, ReadPage, InsertRows, SaveCursor, Fails, Dies, Abandoned, OrphanSaves

\* What the former view had listed is its earliest swap, so that the rest are caught up.
LEMMA InitSeeding == QueueInit => SeedingFirst
<1> SUFFICES ASSUME QueueInit, NEW s \in ingested \ Hooked
             PROVE  listed # {} /\ ~seeded /\ \A t \in listed : s >= t
    BY DEF SeedingFirst, QueueInit, Idle
<1>1. ingested \subseteq Nat
    BY SwapQueueAssumption DEF QueueInit
<1>2. listed # {}
    <2>1. PICK x \in ingested : \A y \in ingested : x <= y
        BY <1>1, LeastExists
    <2> QED
        BY <2>1 DEF QueueInit, FirstOf
<1>3. \A t \in listed : s >= t
    BY <1>1 DEF QueueInit, FirstOf
<1> QED
    BY <1>2, <1>3 DEF QueueInit

\* Every step of a process keeps to the order: seed, mark, and only then drain.
LEMMA SeedingStep ==
    QueueTypeOK /\ Shape /\ SeedingFirst /\ [QueueNext]_queueVars => SeedingFirst'
<1> SUFFICES ASSUME QueueTypeOK, Shape, SeedingFirst, [QueueNext]_queueVars
             PROVE  SeedingFirst'
    OBVIOUS
<1> USE DEF server, tables, At, Goes
<1>0. drain \in [Drainers -> Run]
    BY DEF Shape
<1>1. ASSUME NEW r \in running, Queued(r) PROVE SeedingFirst'
    BY <1>1 DEF Queued, SeedingFirst, Known
<1>2. ASSUME NEW d \in Drainers, LooksSeeded(d) PROVE SeedingFirst'
    <2>1. \A e \in Drainers : drain'[e].step \in {drain[e].step, "seed"} \/ (seeded /\ drain'[e].step = "idle")
        BY <1>0, <1>2 DEF LooksSeeded, Run
    <2> QED
        BY <1>2, <2>1 DEF LooksSeeded, SeedingFirst, Known
<1>3. ASSUME NEW d \in Drainers, SeedInserts(d) PROVE SeedingFirst'
    <2>1. queue \subseteq queue'
        BY <1>3 DEF SeedInserts
    <2>2. \A s \in ingested \ Hooked : Known(s)'
        <3> SUFFICES ASSUME NEW s \in ingested \ Hooked PROVE Known(s)'
            OBVIOUS
        <3>1. CASE Known(s)
            BY <1>3, <2>1, <3>1 DEF SeedInserts, Known
        <3>2. CASE listed # {} /\ \A t \in listed : s >= t
            <4>1. s \in CatchUp
                BY <3>2 DEF CatchUp
            <4>2. [at |-> clock, swap |-> s] \in queue'
                BY <1>3, <3>2, <4>1 DEF SeedInserts
            <4> QED
                BY <4>2 DEF Known
        <3> QED
            BY <3>1, <3>2 DEF SeedingFirst
    <2>3. \A e \in Drainers : drain'[e].step \in {drain[e].step, "mark"}
        BY <1>0, <1>3 DEF SeedInserts, Run
    <2> QED
        BY <1>3, <2>2, <2>3 DEF SeedInserts, SeedingFirst
<1>4. ASSUME NEW d \in Drainers, SeedMarks(d) PROVE SeedingFirst'
    BY <1>4 DEF SeedMarks, SeedingFirst, Known
<1>5. ASSUME NEW d \in Drainers, InsertRows(d) PROVE SeedingFirst'
    <2>1. seeded /\ seeded'
        BY <1>5 DEF InsertRows, SeedingFirst
    <2>2. \A s \in ingested \ Hooked : Known(s)'
        BY <1>5, <2>1 DEF InsertRows, SeedingFirst, Known
    <2> QED
        BY <1>5, <2>1, <2>2 DEF InsertRows, SeedingFirst
<1>6. ASSUME NEW d \in Drainers,
             ReadCursor(d) \/ ReadPage(d) \/ Resolve(d) \/ SaveCursor(d) \/ Fails(d) \/ Dies(d)
      PROVE  SeedingFirst'
    <2>1. listed' = listed /\ queue' = queue /\ ingested' = ingested /\ seeded' = seeded
        BY <1>6 DEF ReadCursor, ReadPage, Resolve, SaveCursor, Fails, Dies, Abandoned
    <2>2. \A e \in Drainers : drain'[e].step = drain[e].step \/ drain'[e].step = "boot"
                              \/ (seeded /\ drain'[e].step # "mark")
        <3>1. \A e \in Drainers \ {d} : drain'[e] = drain[e]
            BY <1>0, <1>6 DEF ReadCursor, ReadPage, Resolve, SaveCursor, Fails, Dies
        <3>2. CASE Dies(d)
            BY <1>0, <3>1, <3>2 DEF Dies, Idle
        <3>3. CASE ~Dies(d)
            <4>1. seeded
                BY <1>6, <3>3 DEF ReadCursor, ReadPage, Resolve, SaveCursor, Fails, SeedingFirst
            <4>2. drain'[d].step \in {"page", "resolve", "insert", "idle"}
                <5>1. Idle.step = "idle"
                    BY DEF Idle
                <5>2. CASE SaveCursor(d)
                    BY <1>0, <5>1, <5>2 DEF SaveCursor, Run
                <5>3. CASE ReadPage(d)
                    BY <1>0, <5>1, <5>3 DEF ReadPage, Run
                <5>4. CASE ReadCursor(d) \/ Resolve(d)
                    BY <1>0, <5>4 DEF ReadCursor, Resolve, Idle, Run
                <5>5. CASE Fails(d)
                    BY <1>0, <5>1, <5>5 DEF Fails
                <5> QED
                    BY <1>6, <3>3, <5>2, <5>3, <5>4, <5>5
            <4> QED
                BY <3>1, <4>1, <4>2
        <3> QED
            BY <3>2, <3>3
    <2> QED
        BY <2>1, <2>2 DEF SeedingFirst, Known
<1>7. ASSUME listed' = listed, queue' = queue, ingested' = ingested, seeded' = seeded, drain' = drain
      PROVE  SeedingFirst'
    BY <1>7 DEF SeedingFirst, Known
<1> QED
    BY <1>1, <1>2, <1>3, <1>4, <1>5, <1>6, <1>7 DEF QueueNext, DrainStep, queueVars, Clock,
        FlushExtrinsics, FlushEvents, Named, OrphanSaves

----------------------------------------------------------------------------
(* The invariant. *)

LEMMA Inductive == QueueSpec => []IInv
<1>1. QueueInit => IInv
    <2> SUFFICES ASSUME QueueInit PROVE IInv
        OBVIOUS
    <2>1. SavesBehindWork /\ RunsBehindWork
        BY DEF QueueInit, SavesBehindWork, RunsBehindWork, Behind
    <2>2. ExtrinsicsFirst /\ SignersFound
        BY DEF QueueInit, ExtrinsicsFirst, SignersFound
    <2> QED
        BY <2>1, <2>2, InitShape, InitSeeding DEF IInv
<1>2. IInv /\ [QueueNext]_queueVars => IInv'
    BY ShapeStep, SavesStep, RunsStep, ExtrinsicsStep, SeedingStep DEF IInv
<1> QED
    BY <1>1, <1>2, PTL DEF QueueSpec

\* In every reachable state the tables, the runs and the saves on their way have their types.
THEOREM TypeCorrect == QueueSpec => []QueueTypeOK
<1>1. IInv => QueueTypeOK
    BY DEF IInv
<1> QED
    BY <1>1, Inductive, PTL

\* The drain loses no swap it could see in time (drainAccountSwapActivityQueue and
\* seedAccountSwapActivityQueue of accountSwapQueue.ts), whatever the pages, the
\* processes that run it, their failures, and the order in which inserts and abandoned
\* saves come to be seen.
THEOREM QueueLosesNothing == QueueSpec => []QueueSound
<1>1. IInv => QueueSound
    <2> SUFFICES ASSUME IInv PROVE QueueSound
        OBVIOUS
    <2>1. BehindCursorListed
        BY DEF IInv, BehindCursorListed, SavesBehindWork, Behind, Handled
    <2>2. HandedOver
        BY DEF IInv, HandedOver, SeedingFirst, Known
    <2> QED
        BY <2>1, <2>2 DEF IInv, QueueSound
<1> QED
    BY <1>1, Inductive, PTL


----------------------------------------------------------------------------
(* The generations of account locks. *)

WithId == {"compare", "count", "insert", "verify", "flip", "list", "drop", "done"}
Published == {"list", "drop", "done"}
PassSteps == {"boot", "wait", "keys", "values"} \cup WithId
Asked == [step : {"none", "scan", "answer"}, of : Generation, rows : SUBSET LockRow]
HeldIn(ps, id) == {r.row : r \in {p \in ps : p.id = id}}

\* What the proof needs of the shape of the state, beside SnapTypeOK.
PassShape ==
    /\ pass = [step |-> pass.step, keys |-> pass.keys, read |-> pass.read, id |-> pass.id,
               left |-> pass.left, seen |-> pass.seen]
    /\ pass.step \in PassSteps
    /\ pass.id \in 0 .. LastTick
    /\ request \in [Queries -> Asked]

\* Below these are the ids of what is afloat, of the partitions and of the pointer: the
\* pass has the highest, once it has one.
Limit == IF pass.step \in {"boot", "wait"} THEN now + 1
         ELSE IF pass.step \in WithId THEN pass.id ELSE now
PartsLimit == IF pass.step \in WithId \ {"compare", "count"} THEN Limit + 1 ELSE Limit
PointerLimit == IF pass.step \in Published THEN Limit + 1 ELSE Limit

IdOf(s) == IF s.kind = "pointer" THEN s.to.id ELSE s.id
Numbered ==
    /\ pass.step \in WithId => 1 <= pass.id /\ pass.id <= now
    /\ \A p \in parts : p.id < PartsLimit
    /\ pointer.at = pointer.id /\ pointer.id < PointerLimit
    /\ \A q \in Queries : request[q].of.at = request[q].of.id /\ request[q].of.id <= pointer.id
    /\ \A s \in afloat : IdOf(s) \in 1 .. LastTick /\ IdOf(s) < Limit

\* A row afloat is of a partition nobody points at or will; a partition to drop is of
\* an older one than the pointer's; a pointer that would still count names a whole one.
LateRow(s) ==
    /\ s.kind = "row" /\ s.row \in LockRow
    /\ s.id # pointer.id
    /\ \A q \in Queries : request[q].of.id # s.id
    /\ \A t \in afloat : t.kind = "pointer" => t.to.id # s.id
LateDrop(s) == s.kind = "drop" /\ s.id < pointer.id
LatePointer(s) ==
    /\ s.kind = "pointer" /\ s.to \in Generation /\ s.to.at = s.to.id
    /\ s.to.id >= pointer.id => HeldIn(parts, s.to.id) = s.to.rows
Floating == \A s \in afloat : LateRow(s) \/ LateDrop(s) \/ LatePointer(s)

\* How far the pass is, and what its partition holds then.
Progress ==
    /\ InStep("keys") => pass.read = {}
    /\ pass.step \in {"compare", "count"} => pass.read # {}
    /\ InStep("insert") => /\ pass.left # {} /\ pass.left \subseteq pass.read
                           /\ HeldIn(parts, pass.id) = pass.read \ pass.left
    /\ pass.step \in {"verify", "flip"} => HeldIn(parts, pass.id) = pass.read
    /\ pass.step \in {"list", "drop"} => pointer.id = pass.id /\ pointer.rows = pass.read
    /\ InStep("drop") => \A id \in pass.left : id \in 1 .. LastTick /\ id < pass.id
    /\ InStep("count") => pass.seen.rows = pass.read
    /\ InStep("done") => IF pointer.id = pass.id THEN pointer.rows = pass.read
                         ELSE pass.seen.rows = pass.read

\* What the pass has read of an account is what the chain says.
Amounts(rows, a) == {r.amount : r \in {x \in rows : x.account = a}}
Accurate ==
    \A a \in Accounts \ (moved \cup failed) :
        /\ InStep("values") =>
              Amounts(pass.read, a) = IF a \in pass.keys THEN {} ELSE {locks[a]} \ {0}
        /\ pass.step \in WithId => Amounts(pass.read, a) = {locks[a]} \ {0}

Whole == HeldIn(parts, pointer.id) = pointer.rows
Gone(of) == HeldIn(parts, of.id) = {} /\ of.at < pointer.at
Looked ==
    \A q \in Queries :
        request[q].step = "scan" => HeldIn(parts, request[q].of.id) = request[q].of.rows \/ Gone(request[q].of)

SnapInv ==
    /\ SnapTypeOK /\ PassShape
    /\ Numbered /\ Floating /\ Progress /\ Accurate
    /\ Whole /\ Looked /\ AnswersWhole

\* What a statement does to the partitions and the pointer.
LEMMA Effects ==
    ASSUME NEW s, Applied(s)
    PROVE  /\ s.kind = "row" =>
                /\ pointer' = pointer /\ parts' = parts \cup {[id |-> s.id, row |-> s.row]}
                /\ \A j : HeldIn(parts', j) = IF j = s.id THEN HeldIn(parts, j) \cup {s.row}
                                              ELSE HeldIn(parts, j)
           /\ s.kind = "drop" =>
                /\ pointer' = pointer /\ parts' \subseteq parts
                /\ \A j : HeldIn(parts', j) = IF j = s.id THEN {} ELSE HeldIn(parts, j)
           /\ s.kind = "pointer" =>
                parts' = parts /\ pointer' = IF s.to.at >= pointer.at THEN s.to ELSE pointer
<1>1. ASSUME s.kind = "row"
      PROVE  /\ pointer' = pointer /\ parts' = parts \cup {[id |-> s.id, row |-> s.row]}
             /\ \A j : HeldIn(parts', j) = IF j = s.id THEN HeldIn(parts, j) \cup {s.row}
                                           ELSE HeldIn(parts, j)
    <2>1. pointer' = pointer /\ parts' = parts \cup {[id |-> s.id, row |-> s.row]}
        BY <1>1 DEF Applied
    <2>2. \A j : HeldIn(parts', j) = IF j = s.id THEN HeldIn(parts, j) \cup {s.row}
                                    ELSE HeldIn(parts, j)
        <3> DEFINE new == [id |-> s.id, row |-> s.row]
        <3>1. new.id = s.id /\ new.row = s.row /\ parts' = parts \cup {new}
            BY <2>1
        <3> HIDE DEF new
        <3> SUFFICES ASSUME NEW j
                     PROVE  HeldIn(parts', j) = IF j = s.id THEN HeldIn(parts, j) \cup {s.row}
                                                ELSE HeldIn(parts, j)
            OBVIOUS
        <3>2. {p \in parts' : p.id = j} = {p \in parts : p.id = j} \cup {p \in {new} : p.id = j}
            BY <3>1
        <3>3. HeldIn(parts', j) = HeldIn(parts, j) \cup HeldIn({new}, j)
            BY <3>2 DEF HeldIn
        <3>4. HeldIn({new}, j) = IF j = s.id THEN {s.row} ELSE {}
            BY <3>1 DEF HeldIn
        <3>5. QED
            BY <3>3, <3>4
    <2>3. QED
        BY <2>1, <2>2
<1>2. ASSUME s.kind = "drop"
      PROVE  /\ pointer' = pointer /\ parts' \subseteq parts
             /\ \A j : HeldIn(parts', j) = IF j = s.id THEN {} ELSE HeldIn(parts, j)
    <2>1. pointer' = pointer /\ parts' = {p \in parts : p.id # s.id}
        BY <1>2 DEF Applied
    <2>2. \A j : HeldIn(parts', j) = IF j = s.id THEN {} ELSE HeldIn(parts, j)
        BY <2>1 DEF HeldIn
    <2>3. QED
        BY <2>1, <2>2
<1>3. ASSUME s.kind = "pointer"
      PROVE  parts' = parts /\ pointer' = IF s.to.at >= pointer.at THEN s.to ELSE pointer
    BY <1>3 DEF Applied
<1>4. QED
    BY <1>1, <1>2, <1>3

LEMMA SnapNats ==
    ASSUME SnapInv
    PROVE  /\ now \in Nat /\ now <= LastTick /\ LastTick \in Nat
           /\ pass.id \in Nat /\ Limit \in Nat /\ PartsLimit \in Nat /\ PointerLimit \in Nat
           /\ Limit <= PartsLimit /\ Limit <= PointerLimit /\ Limit <= now + 1
           /\ pass.step \in WithId => Limit = pass.id /\ pass.id <= now
           /\ pointer.id \in Nat /\ pointer.at = pointer.id /\ pointer \in Generation
           /\ \A p \in parts : p.id \in Nat
           /\ \A s \in afloat : IdOf(s) \in Nat
           /\ \A q \in Queries : request[q].of.id \in Nat
<1>1. /\ now \in 0 .. LastTick /\ LastTick \in Nat /\ pass.id \in 0 .. LastTick
      /\ pointer \in Generation /\ parts \subseteq [id : 1 .. LastTick, row : LockRow]
      /\ request \in [Queries -> Asked] /\ pass.step \in PassSteps
    BY SnapshotAssumption DEF SnapInv, SnapTypeOK, PassShape
<1>2. now \in Nat /\ now <= LastTick /\ pass.id \in Nat
    BY <1>1
<1>3. pass.step \in WithId => Limit = pass.id /\ pass.id <= now
    BY <1>1 DEF SnapInv, Numbered, Limit, WithId
<1>4. Limit \in Nat /\ Limit <= now + 1
    BY <1>1, <1>2, <1>3 DEF Limit
<1>5. PartsLimit \in Nat /\ PointerLimit \in Nat /\ Limit <= PartsLimit /\ Limit <= PointerLimit
    BY <1>4 DEF PartsLimit, PointerLimit
<1>6. pointer.id \in Nat /\ pointer.at = pointer.id
    BY <1>1 DEF Generation, SnapInv, Numbered
<1>7. \A p \in parts : p.id \in Nat
    BY <1>1
<1>8. \A s \in afloat : IdOf(s) \in Nat
    BY <1>1 DEF SnapInv, Numbered
<1>9. \A q \in Queries : request[q].of.id \in Nat
    BY <1>1 DEF Asked, Generation
<1>10. QED
    BY <1>1, <1>2, <1>3, <1>4, <1>5, <1>6, <1>7, <1>8, <1>9

\* A step that touches neither the tables nor a request leaves them as they were, as long
\* as no bound on the ids comes down.
LEMMA StoreStands ==
    ASSUME SnapInv, UNCHANGED <<store, request>>,
           Limit <= Limit', PartsLimit <= PartsLimit', PointerLimit <= PointerLimit',
           Limit' \in Nat, PartsLimit' \in Nat, PointerLimit' \in Nat,
           (pass.step \in WithId => 1 <= pass.id /\ pass.id <= now)'
    PROVE  Numbered' /\ Floating' /\ Whole' /\ Looked' /\ AnswersWhole'
<1>1. parts' = parts /\ pointer' = pointer /\ afloat' = afloat /\ request' = request
    BY DEF store
<1>2. Numbered'
    BY <1>1, SnapNats DEF SnapInv, Numbered, IdOf
<1>3. Floating'
    BY <1>1 DEF SnapInv, Floating, LateRow, LateDrop, LatePointer
<1>4. Whole' /\ Looked' /\ AnswersWhole'
    BY <1>1 DEF SnapInv, Whole, Looked, Gone, AnswersWhole
<1>5. QED
    BY <1>2, <1>3, <1>4

LEMMA SnapInitInv == SnapInit => SnapInv
<1> SUFFICES ASSUME SnapInit PROVE SnapInv
    OBVIOUS
<1> USE SnapshotAssumption DEF SnapInit
<1>1. None \in Generation /\ None.id = 0 /\ None.at = 0 /\ None.rows = {}
    BY DEF None, Generation
<1>2. pass = [step |-> "boot", keys |-> {}, read |-> {}, id |-> 0, left |-> {}, seen |-> None]
    BY DEF Waiting
<1>3. SnapTypeOK
    BY <1>1, <1>2 DEF SnapTypeOK
<1>4. PassShape
    <2>1. Nothing \in Asked
        BY <1>1 DEF Nothing, Asked
    <2>2. request \in [Queries -> Asked]
        BY <2>1
    <2>3. pass.step = "boot" /\ pass.keys = {} /\ pass.read = {} /\ pass.id = 0 /\ pass.left = {}
          /\ pass.seen = None
        BY <1>2
    <2>4. 0 \in 0 .. LastTick
        OBVIOUS
    <2>5. pass = [step |-> pass.step, keys |-> pass.keys, read |-> pass.read, id |-> pass.id,
                 left |-> pass.left, seen |-> pass.seen]
        BY <1>2, <2>3
    <2>6. QED
        BY <2>2, <2>3, <2>4, <2>5 DEF PassShape, PassSteps
<1>5. Limit = 1 /\ PartsLimit = 1 /\ PointerLimit = 1
    BY <1>2 DEF Limit, PartsLimit, PointerLimit, WithId, Published
<1>6. Numbered
    BY <1>1, <1>2, <1>5 DEF Numbered, WithId, Nothing
<1>7. Floating /\ Progress /\ Accurate
    BY <1>2 DEF Floating, Progress, Accurate, InStep, WithId
<1>8. Whole
    BY <1>1 DEF Whole, HeldIn
<1>9. Looked /\ AnswersWhole
    BY DEF Looked, AnswersWhole, Nothing
<1>10. QED
    BY <1>3, <1>4, <1>6, <1>7, <1>8, <1>9 DEF SnapInv

LEMMA PassFacts ==
    ASSUME SnapInv
    PROVE  /\ pass = [step |-> pass.step, keys |-> pass.keys, read |-> pass.read, id |-> pass.id,
                      left |-> pass.left, seen |-> pass.seen]
           /\ pass.step \in PassSteps /\ pass.read \subseteq LockRow
           /\ pass.id \in 0 .. LastTick /\ pass.seen \in Generation
           /\ request \in [Queries -> Asked]
           /\ locks \in [Accounts -> 0 .. MaxLock] /\ changes \in 0 .. MaxChanges
           /\ now \in 0 .. LastTick /\ slips \in 0 .. MaxSlips
           /\ parts \subseteq [id : 1 .. LastTick, row : LockRow]
           /\ pointer \in Generation /\ moved \subseteq Accounts /\ failed \subseteq Accounts
           /\ {MaxLock, MIN_ROWS, FLOOR} \subseteq Nat \ {0}
           /\ {LastTick, MaxChanges, MaxSlips} \subseteq Nat
BY SnapshotAssumption DEF SnapInv, SnapTypeOK, PassShape

\* What is left to say of a step that moves nothing but the pass.
LEMMA PassMoves ==
    ASSUME SnapInv, UNCHANGED <<node, now, store, request, failed>>, slips' \in 0 .. MaxSlips,
           NEW st \in PassSteps, NEW ks, NEW rd \in SUBSET LockRow, NEW i \in 0 .. LastTick,
           NEW lf, NEW sn \in Generation,
           pass' = [step |-> st, keys |-> ks, read |-> rd, id |-> i, left |-> lf, seen |-> sn],
           st \in WithId => 1 <= i /\ i <= now,
           Limit <= Limit', PartsLimit <= PartsLimit', PointerLimit <= PointerLimit',
           Progress', Accurate'
    PROVE  SnapInv'
<1> USE PassFacts
<1>1. /\ pass'.step = st /\ pass'.keys = ks /\ pass'.read = rd /\ pass'.id = i
      /\ pass'.left = lf /\ pass'.seen = sn
    OBVIOUS
<1>2. UNCHANGED <<locks, changes, moved, parts, pointer, afloat, now, request, failed>>
    BY DEF node, store
<1>3. PassShape'
    BY <1>1, <1>2 DEF PassShape
<1>4. SnapTypeOK'
    BY <1>1, <1>2 DEF SnapTypeOK, PassSteps, WithId, SnapInv
<1>5. Limit' \in Nat
    <2>1. now' \in Nat /\ i \in Nat
        BY <1>2
    <2>2. QED
        BY <1>1, <2>1 DEF Limit
<1>6. PartsLimit' \in Nat /\ PointerLimit' \in Nat
    BY <1>5 DEF PartsLimit, PointerLimit
<1>7. Numbered' /\ Floating' /\ Whole' /\ Looked' /\ AnswersWhole'
    BY <1>1, <1>2, <1>5, <1>6, StoreStands DEF store
<1>8. QED
    BY <1>3, <1>4, <1>7 DEF SnapInv

\* A pass that is over, or given up, leaves nothing to say of it.
LEMMA PassEnds ==
    ASSUME SnapInv, NEW w \in {"wait", "boot"}, NEW i \in 0 .. LastTick, NEW rd \in SUBSET LockRow,
           NEW ks, NEW lf, NEW sn \in Generation,
           UNCHANGED <<node, now, store, request, failed>>, slips' \in 0 .. MaxSlips,
           pass' = [step |-> w, keys |-> ks, read |-> rd, id |-> i, left |-> lf, seen |-> sn]
    PROVE  SnapInv'
<1>1. pass'.step = w /\ w \in PassSteps /\ w \notin WithId /\ now' = now
    BY DEF PassSteps, WithId
<1>2. Limit' = now + 1 /\ PartsLimit' = now + 1 /\ PointerLimit' = now + 1
    BY <1>1 DEF Limit, PartsLimit, PointerLimit, WithId, Published
<1>3. PartsLimit <= now + 1 /\ PointerLimit <= now + 1
    BY SnapNats DEF PartsLimit, PointerLimit, Limit, Published, WithId
<1>4. Progress' /\ Accurate'
    BY <1>1 DEF Progress, Accurate, InStep, WithId
<1>5. QED
    BY <1>1, <1>2, <1>3, <1>4, SnapNats, PassMoves

LEMMA NoneFacts ==
    /\ None \in Generation /\ None.id = 0 /\ None.at = 0 /\ None.rows = {}
    /\ Waiting = [step |-> "wait", keys |-> {}, read |-> {}, id |-> 0, left |-> {}, seen |-> None]
    /\ 0 \in 0 .. LastTick
BY SnapshotAssumption DEF None, Generation, Waiting

LEMMA ChangeKeeps ==
    ASSUME SnapInv, NEW a \in Accounts, NEW n \in 0 .. MaxLock, Change(a, n)
    PROVE  SnapInv'
<1>1. /\ locks' = [locks EXCEPT ![a] = n] /\ changes' = changes + 1 /\ moved' = moved \cup {a}
      /\ changes < MaxChanges
      /\ UNCHANGED <<now, pass, parts, pointer, afloat, request, failed, slips>>
    BY DEF Change, store
<1>2. SnapTypeOK' /\ PassShape'
    BY <1>1, PassFacts DEF SnapInv, SnapTypeOK, PassShape
<1>3. Limit' = Limit /\ PartsLimit' = PartsLimit /\ PointerLimit' = PointerLimit
    BY <1>1 DEF Limit, PartsLimit, PointerLimit
<1>4. Progress'
    BY <1>1 DEF SnapInv, Progress, InStep
<1>5. Accurate'
    <2>1. \A b \in Accounts : b \notin moved' => b \notin moved /\ locks'[b] = locks[b]
        BY <1>1, PassFacts
    <2>2. QED
        BY <1>1, <2>1 DEF SnapInv, Accurate, InStep
<1>6. Numbered' /\ Floating' /\ Whole' /\ Looked' /\ AnswersWhole'
    <2>1. (pass.step \in WithId => 1 <= pass.id /\ pass.id <= now)'
        BY <1>1 DEF SnapInv, Numbered
    <2>2. QED
        BY <1>1, <1>3, <2>1, SnapNats, StoreStands DEF store
<1>7. QED
    BY <1>2, <1>4, <1>5, <1>6 DEF SnapInv

\* The timer: a pass begins, or the one under way goes on.
LEMMA TickKeeps ==
    ASSUME SnapInv, BaseTick \/ Boot
    PROVE  SnapInv'
<1> USE PassFacts, NoneFacts
<1>1. /\ now < LastTick /\ now' = now + 1
      /\ UNCHANGED <<locks, changes, parts, pointer, afloat, request, slips>>
    BY DEF BaseTick, Boot, store
<1>2. now \in Nat /\ now' \in 0 .. LastTick
    BY <1>1
<1>3. CASE pass.step \in {"boot", "wait"}
    <2>1. pass' = [step |-> "keys", keys |-> {}, read |-> {}, id |-> 0, left |-> {}, seen |-> None]
          /\ moved' = {} /\ failed' = {}
        BY <1>3 DEF BaseTick, Boot, Begin, InStep
    <2>2. /\ pass'.step = "keys" /\ pass'.read = {} /\ pass'.id = 0 /\ pass'.seen = None
          /\ pass'.keys = {} /\ pass'.left = {}
        BY <2>1
    <2>3. SnapTypeOK' /\ PassShape'
        BY <1>1, <1>2, <2>1, <2>2 DEF SnapInv, SnapTypeOK, PassShape, PassSteps
    <2>4. Limit = now + 1 /\ PartsLimit = now + 1 /\ PointerLimit = now + 1
        BY <1>3 DEF Limit, PartsLimit, PointerLimit, WithId, Published
    <2>5. Limit' = now + 1 /\ PartsLimit' = now + 1 /\ PointerLimit' = now + 1
        BY <1>1, <2>2 DEF Limit, PartsLimit, PointerLimit, WithId, Published
    <2>6. (pass.step \in WithId => 1 <= pass.id /\ pass.id <= now)'
        BY <2>2 DEF WithId
    <2>7. Numbered' /\ Floating' /\ Whole' /\ Looked' /\ AnswersWhole'
        BY <1>1, <1>2, <2>4, <2>5, <2>6, StoreStands DEF store
    <2>8. Progress' /\ Accurate'
        BY <2>2 DEF Progress, Accurate, InStep, WithId
    <2>9. QED
        BY <2>3, <2>7, <2>8 DEF SnapInv
<1>4. CASE pass.step \notin {"boot", "wait"}
    <2>1. UNCHANGED <<pass, moved, failed>>
        BY <1>4 DEF BaseTick, Boot, InStep
    <2>2. SnapTypeOK' /\ PassShape'
        BY <1>1, <1>2, <2>1 DEF SnapInv, SnapTypeOK, PassShape
    <2>3. Limit' \in Nat /\ Limit <= Limit'
        BY <1>1, <1>2, <2>1 DEF Limit
    <2>4. /\ PartsLimit' \in Nat /\ PartsLimit <= PartsLimit'
          /\ PointerLimit' \in Nat /\ PointerLimit <= PointerLimit'
        BY <2>1, <2>3, SnapNats DEF PartsLimit, PointerLimit
    <2>5. (pass.step \in WithId => 1 <= pass.id /\ pass.id <= now)'
        BY <1>1, <1>2, <2>1, SnapNats DEF SnapInv, Numbered
    <2>6. Numbered' /\ Floating' /\ Whole' /\ Looked' /\ AnswersWhole'
        BY <1>1, <2>3, <2>4, <2>5, StoreStands DEF store
    <2>7. Progress' /\ Accurate'
        BY <1>1, <2>1 DEF SnapInv, Progress, Accurate, InStep
    <2>8. QED
        BY <2>2, <2>6, <2>7 DEF SnapInv
<1>5. QED
    BY <1>3, <1>4

\* The enumeration.
LEMMA ReadKeysKeeps ==
    ASSUME SnapInv, ReadKeys
    PROVE  SnapInv'
<1> USE PassFacts
<1> DEFINE ks == {a \in Accounts : locks[a] > 0}
<1>1. /\ pass.step = "keys" /\ UNCHANGED <<node, now, store, request, failed, slips>>
      /\ pass' = [step |-> IF ks = {} THEN "wait" ELSE "values", keys |-> ks, read |-> pass.read,
                  id |-> pass.id, left |-> pass.left, seen |-> pass.seen]
    BY DEF ReadKeys, InStep
<1>2. \A a \in Accounts : (a \in ks <=> locks[a] # 0) /\ locks[a] \in Nat
    OBVIOUS
<1> HIDE DEF ks
<1>3. CASE ks = {}
    BY <1>1, <1>3, PassEnds
<1>4. CASE ks # {}
    <2>1. /\ pass' = [step |-> "values", keys |-> ks, read |-> pass.read,
                      id |-> pass.id, left |-> pass.left, seen |-> pass.seen]
          /\ "values" \in PassSteps /\ "values" \notin WithId
        BY <1>1, <1>4 DEF PassSteps, WithId
    <2>2. pass'.step = "values" /\ pass'.keys = ks /\ pass'.read = {} /\ locks' = locks
        BY <1>1, <2>1 DEF SnapInv, Progress, InStep, node
    <2>3. Limit <= Limit' /\ PartsLimit <= PartsLimit' /\ PointerLimit <= PointerLimit'
        BY <1>1, <2>2, SnapNats DEF Limit, PartsLimit, PointerLimit, WithId, Published
    <2>4. Progress'
        BY <2>2 DEF Progress, InStep
    <2>5. Accurate'
        <3>1. \A a : Amounts({}, a) = {}
            BY DEF Amounts
        <3>2. \A a \in Accounts : Amounts(pass'.read, a) = IF a \in pass'.keys THEN {} ELSE {locks'[a]} \ {0}
            BY <1>2, <2>2, <3>1
        <3>3. QED
            BY <2>2, <3>2 DEF Accurate, InStep, WithId
    <2>6. QED
        BY <1>1, <2>1, <2>3, <2>4, <2>5, PassMoves
<1>5. QED
    BY <1>3, <1>4

\* The rows that a chunk of one account brings.
RowsOf(a, n) == {[account |-> a, amount |-> m] : m \in {n} \ {0}}

LEMMA AmountsOne ==
    \A rows, a, n :
        /\ \A b : b # a => Amounts(rows \cup RowsOf(a, n), b) = Amounts(rows, b)
        /\ Amounts(rows \cup RowsOf(a, n), a) = Amounts(rows, a) \cup ({n} \ {0})
<1> SUFFICES ASSUME NEW rows, NEW a, NEW n
             PROVE  /\ \A b : b # a => Amounts(rows \cup RowsOf(a, n), b) = Amounts(rows, b)
                    /\ Amounts(rows \cup RowsOf(a, n), a) = Amounts(rows, a) \cup ({n} \ {0})
    OBVIOUS
<1>1. \A x \in RowsOf(a, n) : x.account = a /\ x.amount = n /\ n # 0
    BY DEF RowsOf
<1>2. [account |-> a, amount |-> n].account = a /\ [account |-> a, amount |-> n].amount = n
    OBVIOUS
<1>3. n # 0 => \E x \in RowsOf(a, n) : x.account = a /\ x.amount = n
    BY <1>2 DEF RowsOf
<1>4. ASSUME NEW b
      PROVE  Amounts(rows \cup RowsOf(a, n), b) = Amounts(rows, b) \cup Amounts(RowsOf(a, n), b)
    BY DEF Amounts
<1>5. ASSUME NEW b, b # a
      PROVE  Amounts(RowsOf(a, n), b) = {}
    BY <1>1, <1>5 DEF Amounts
<1>6. Amounts(RowsOf(a, n), a) = {n} \ {0}
    BY <1>1, <1>3 DEF Amounts
<1>7. QED
    BY <1>4, <1>5, <1>6

LEMMA ReadValueKeeps ==
    ASSUME SnapInv, NEW a \in Accounts, ReadValue(a)
    PROVE  SnapInv'
<1> DEFINE rd == pass.read \cup RowsOf(a, locks[a])
<1>1. /\ pass.step = "values" /\ a \in pass.keys
      /\ UNCHANGED <<node, now, store, request, failed, slips>>
      /\ pass' = [step |-> "values", keys |-> pass.keys \ {a}, read |-> rd,
                  id |-> pass.id, left |-> pass.left, seen |-> pass.seen]
    BY PassFacts DEF ReadValue, InStep, RowsOf
<1>2. rd \subseteq LockRow
    BY PassFacts DEF LockRow, RowsOf
<1>3. /\ \A b : b # a => Amounts(rd, b) = Amounts(pass.read, b)
      /\ Amounts(rd, a) = Amounts(pass.read, a) \cup ({locks[a]} \ {0})
    BY AmountsOne
<1> HIDE DEF rd
<1>4. "values" \in PassSteps /\ "values" \notin WithId
    BY DEF PassSteps, WithId
<1>5. pass'.step = "values" /\ pass'.keys = pass.keys \ {a} /\ pass'.read = rd
      /\ UNCHANGED <<locks, moved, failed, now>>
    BY <1>1, PassFacts DEF node
<1>6. Limit <= Limit' /\ PartsLimit <= PartsLimit' /\ PointerLimit <= PointerLimit'
    BY <1>1, <1>5, SnapNats DEF Limit, PartsLimit, PointerLimit, WithId, Published
<1>7. Progress'
    BY <1>5 DEF Progress, InStep
<1>8. Accurate'
    <2>1. \A b \in Accounts \ (moved \cup failed) :
             Amounts(pass.read, b) = IF b \in pass.keys THEN {} ELSE {locks[b]} \ {0}
        BY <1>1 DEF SnapInv, Accurate, InStep
    <2>2. \A b \in Accounts \ (moved \cup failed) :
             Amounts(rd, b) = IF b \in pass.keys \ {a} THEN {} ELSE {locks[b]} \ {0}
        BY <1>1, <1>3, <2>1
    <2>3. QED
        BY <1>4, <1>5, <2>2 DEF Accurate, InStep
<1>9. QED
    BY <1>1, <1>2, <1>4, <1>6, <1>7, <1>8, PassFacts, PassMoves

LEMMA ValueLostKeeps ==
    ASSUME SnapInv, NEW a \in Accounts, ValueLost(a)
    PROVE  SnapInv'
<1> USE PassFacts
<1>1. /\ pass.step = "values" /\ a \in pass.keys /\ failed' = failed \cup {a}
      /\ slips < MaxSlips /\ slips' = slips + 1
      /\ UNCHANGED <<locks, changes, moved, now, parts, pointer, afloat, request>>
      /\ pass' = [step |-> "values", keys |-> pass.keys \ {a}, read |-> pass.read,
                  id |-> pass.id, left |-> pass.left, seen |-> pass.seen]
    BY DEF ValueLost, InStep, node, store
<1>2. /\ pass'.step = "values" /\ pass'.keys = pass.keys \ {a} /\ pass'.read = pass.read
      /\ pass'.id = pass.id /\ pass'.left = pass.left /\ pass'.seen = pass.seen
    BY <1>1
<1>3. SnapTypeOK' /\ PassShape'
    BY <1>1, <1>2 DEF SnapInv, SnapTypeOK, PassShape, PassSteps
<1>4. Limit' = Limit /\ PartsLimit' = PartsLimit /\ PointerLimit' = PointerLimit
    BY <1>1, <1>2 DEF Limit, PartsLimit, PointerLimit
<1>5. Numbered' /\ Floating' /\ Whole' /\ Looked' /\ AnswersWhole'
    <2>1. (pass.step \in WithId => 1 <= pass.id /\ pass.id <= now)'
        BY <1>2 DEF WithId
    <2>2. QED
        BY <1>1, <1>4, <2>1, SnapNats, StoreStands DEF store
<1>6. Progress'
    BY <1>2 DEF Progress, InStep
<1>7. Accurate'
    <2>1. \A b \in Accounts \ (moved \cup failed) :
             Amounts(pass.read, b) = IF b \in pass.keys THEN {} ELSE {locks[b]} \ {0}
        BY <1>1 DEF SnapInv, Accurate, InStep
    <2>2. \A b \in Accounts \ (moved' \cup failed') :
             Amounts(pass.read, b) = IF b \in pass.keys \ {a} THEN {} ELSE {locks[b]} \ {0}
        BY <1>1, <2>1
    <2>3. QED
        BY <1>1, <1>2, <2>2 DEF Accurate, InStep, WithId
<1>8. QED
    BY <1>3, <1>5, <1>6, <1>7 DEF SnapInv

LEMMA EnumeratedKeeps ==
    ASSUME SnapInv, Enumerated
    PROVE  SnapInv'
<1> USE PassFacts
<1>1. /\ pass.step = "values" /\ pass.keys = {}
      /\ UNCHANGED <<node, now, store, request, failed, slips>>
    BY DEF Enumerated, InStep
<1>2. CASE Cardinality(pass.read) < MIN_ROWS
    BY <1>1, <1>2, NoneFacts, PassEnds DEF Enumerated
<1>3. CASE ~(Cardinality(pass.read) < MIN_ROWS)
    <2>1. /\ pass' = [step |-> "compare", keys |-> pass.keys, read |-> pass.read,
                      id |-> now, left |-> pass.left, seen |-> pass.seen]
          /\ "compare" \in PassSteps /\ "compare" \in WithId
        BY <1>3 DEF Enumerated, PassSteps, WithId
    <2>2. pass'.step = "compare" /\ pass'.read = pass.read /\ pass'.id = now
          /\ UNCHANGED <<locks, moved, failed, now>>
        BY <1>1, <2>1 DEF node
    <2>3. pass.read # {}
        <3>1. Cardinality({}) = 0
            BY FS_EmptySet
        <3>2. MIN_ROWS \in Nat \ {0}
            OBVIOUS
        <3>3. QED
            BY <1>3, <3>1, <3>2
    <2>4. 1 <= now
        BY <1>1, SnapNats DEF SnapInv, Numbered, PointerLimit, Limit, WithId, Published
    <2>5. Limit = now /\ PartsLimit = now /\ PointerLimit = now
        BY <1>1 DEF Limit, PartsLimit, PointerLimit, WithId, Published
    <2>6. Limit' = now /\ PartsLimit' = now /\ PointerLimit' = now
        BY <2>2 DEF Limit, PartsLimit, PointerLimit, WithId, Published
    <2>7. Progress'
        BY <2>2, <2>3 DEF Progress, InStep
    <2>8. Accurate'
        BY <1>1, <2>2 DEF SnapInv, Accurate, InStep
    <2>9. QED
        BY <1>1, <2>1, <2>4, <2>5, <2>6, <2>7, <2>8, SnapNats, PassMoves
<1>4. QED
    BY <1>2, <1>3

\* The comparison, the count, the verification and the list: one step of the pass to the
\* next, by what is already there.
LEMMA StepsKeep ==
    ASSUME SnapInv, Compare \/ Count \/ Verify \/ List \/ Finish
    PROVE  SnapInv'
<1>1. UNCHANGED <<node, now, store, request, failed, slips>> /\ slips' \in 0 .. MaxSlips
    BY PassFacts DEF Compare, Count, Verify, List, Finish
<1>2. UNCHANGED <<locks, moved, failed, now, parts, pointer>>
    BY <1>1 DEF node, store
<1>3. ASSUME NEW st \in PassSteps, pass.step \in WithId, st \in WithId,
             PartsLimit = pass.id + 1 => st \in WithId \ {"compare", "count"},
             PointerLimit = pass.id + 1 => st \in Published,
             NEW lf, NEW sn \in Generation,
             pass' = [step |-> st, keys |-> pass.keys, read |-> pass.read, id |-> pass.id,
                      left |-> lf, seen |-> sn],
             Progress'
      PROVE  SnapInv'
    <2>1. pass'.step = st /\ pass'.id = pass.id /\ pass'.read = pass.read
        BY <1>3
    <2>2. Limit' = Limit /\ PartsLimit <= PartsLimit' /\ PointerLimit <= PointerLimit'
        BY <1>2, <1>3, <2>1, SnapNats DEF Limit, PartsLimit, PointerLimit, WithId
    <2>3. Accurate'
        BY <1>2, <1>3, <2>1 DEF SnapInv, Accurate, InStep, WithId
    <2>4. 1 <= pass.id /\ pass.id <= now
        BY <1>3 DEF SnapInv, Numbered
    <2>5. QED
        BY <1>1, <1>3, <2>2, <2>3, <2>4, SnapNats, PassFacts, PassMoves
<1>4. pass.step \in {"compare", "count"} => PartsLimit = pass.id
    BY DEF PartsLimit, Limit, WithId
<1>5. pass.step \in {"compare", "count", "insert", "verify", "flip"} => PointerLimit = pass.id
    BY DEF PointerLimit, Limit, WithId, Published
<1>6. pass.id \in Nat /\ pass.id # pass.id + 1
    BY SnapNats
<1>7. CASE Compare
    <2>1. pass.step = "compare" /\ pass.read # {}
        BY <1>7 DEF Compare, InStep, SnapInv, Progress
    <2>2. CASE pointer # None /\ SameRows(pointer, pass.read)
        <3>1. pass' = [step |-> "count", keys |-> pass.keys, read |-> pass.read, id |-> pass.id,
                       left |-> pass.left, seen |-> pointer]
            BY <1>7, <2>2, PassFacts DEF Compare
        <3>2. pointer.rows = pass.read
            BY <2>2 DEF SameRows
        <3>3. Progress'
            BY <2>1, <3>1, <3>2 DEF Progress, InStep
        <3>4. "count" \in PassSteps /\ "count" \in WithId /\ pass.step \in WithId
            BY <2>1 DEF PassSteps, WithId
        <3>5. QED
            BY <1>3, <1>4, <1>5, <1>6, <2>1, <3>1, <3>3, <3>4, PassFacts
    <2>3. CASE ~(pointer # None /\ SameRows(pointer, pass.read))
        <3>1. pass' = [step |-> "insert", keys |-> pass.keys, read |-> pass.read, id |-> pass.id,
                       left |-> pass.read, seen |-> pass.seen]
            BY <1>7, <2>3, PassFacts DEF Compare
        <3>2. HeldIn(parts, pass.id) = {}
            BY <1>4, <1>6, <2>1, SnapNats DEF HeldIn, SnapInv, Numbered
        <3>3. Progress'
            BY <1>2, <2>1, <3>1, <3>2 DEF Progress, InStep
        <3>4. "insert" \in PassSteps /\ "insert" \in WithId /\ pass.step \in WithId
            BY <2>1 DEF PassSteps, WithId
        <3>5. QED
            BY <1>3, <1>4, <1>5, <1>6, <2>1, <3>1, <3>3, <3>4, PassFacts
    <2>4. QED
        BY <2>2, <2>3
<1>8. CASE Count
    <2>1. pass.step = "count" /\ pass.read # {} /\ pass.seen.rows = pass.read
        BY <1>8 DEF Count, InStep, SnapInv, Progress
    <2>2. CASE Skips
        <3>1. pass' = [step |-> "done", keys |-> pass.keys, read |-> pass.read, id |-> pass.id,
                       left |-> pass.left, seen |-> pass.seen]
            BY <1>8, <2>2, PassFacts DEF Count, GoesTo
        <3>2. pointer.id # pass.id
            BY <1>5, <2>1, SnapNats DEF SnapInv, Numbered
        <3>3. Progress'
            BY <1>2, <2>1, <3>1, <3>2 DEF Progress, InStep
        <3>4. "done" \in PassSteps /\ "done" \in WithId /\ pass.step \in WithId
            BY <2>1 DEF PassSteps, WithId
        <3>5. QED
            BY <1>3, <1>4, <1>5, <1>6, <2>1, <3>1, <3>3, <3>4, PassFacts
    <2>3. CASE ~Skips
        <3>1. pass' = [step |-> "insert", keys |-> pass.keys, read |-> pass.read, id |-> pass.id,
                       left |-> pass.read, seen |-> pass.seen]
            BY <1>8, <2>3, PassFacts DEF Count
        <3>2. HeldIn(parts, pass.id) = {}
            BY <1>4, <1>6, <2>1, SnapNats DEF HeldIn, SnapInv, Numbered
        <3>3. Progress'
            BY <1>2, <2>1, <3>1, <3>2 DEF Progress, InStep
        <3>4. "insert" \in PassSteps /\ "insert" \in WithId /\ pass.step \in WithId
            BY <2>1 DEF PassSteps, WithId
        <3>5. QED
            BY <1>3, <1>4, <1>5, <1>6, <2>1, <3>1, <3>3, <3>4, PassFacts
    <2>4. QED
        BY <2>2, <2>3
<1>9. CASE Verify
    <2>1. pass.step = "verify" /\ HeldIn(parts, pass.id) = pass.read
        BY <1>9 DEF Verify, InStep, SnapInv, Progress
    <2>2. CASE Cardinality(Held(pass.id)) = Cardinality(pass.read)
        <3>1. pass' = [step |-> "flip", keys |-> pass.keys, read |-> pass.read, id |-> pass.id,
                       left |-> pass.left, seen |-> pass.seen]
            BY <1>9, <2>2, PassFacts DEF Verify, GoesTo
        <3>2. Progress'
            BY <1>2, <2>1, <3>1 DEF Progress, InStep
        <3>3. /\ "flip" \in PassSteps /\ "flip" \in WithId \ {"compare", "count"}
              /\ pass.step \in WithId
            BY <2>1 DEF PassSteps, WithId
        <3>4. QED
            BY <1>3, <1>5, <1>6, <2>1, <3>1, <3>2, <3>3, PassFacts
    <2>3. CASE ~(Cardinality(Held(pass.id)) = Cardinality(pass.read))
        <3>1. pass' = Waiting
            BY <1>9, <2>3 DEF Verify
        <3>2. QED
            BY <1>1, <3>1, NoneFacts, PassEnds
    <2>4. QED
        BY <2>2, <2>3
<1>10. CASE List
    <2> DEFINE st == IF Superseded = {} THEN "done" ELSE "drop"
    <2>1. pass.step = "list" /\ pointer.id = pass.id /\ pointer.rows = pass.read
        BY <1>10 DEF List, InStep, SnapInv, Progress
    <2>2. pass' = [step |-> st, keys |-> pass.keys, read |-> pass.read, id |-> pass.id,
                   left |-> Superseded, seen |-> pass.seen]
        BY <1>10, PassFacts DEF List
    <2>3. st \in PassSteps /\ st \in Published /\ st \in WithId \ {"compare", "count"} /\ pass.step \in WithId
        BY <2>1 DEF PassSteps, WithId, Published
    <2>4. \A i \in Superseded : i \in 1 .. LastTick /\ i < pass.id
        <3>1. PartsLimit = pass.id + 1
            BY <2>1 DEF PartsLimit, Limit, WithId
        <3>2. \A p \in parts : p.id \in 1 .. LastTick /\ p.id < pass.id + 1 /\ p.id \in Nat
            BY <3>1, PassFacts, SnapNats DEF SnapInv, Numbered
        <3>3. QED
            BY <1>6, <3>2 DEF Superseded
    <2>5. pass'.step = st /\ pass'.left = Superseded /\ pass'.id = pass.id /\ pass'.read = pass.read
        BY <2>2
    <2>6. st = "done" \/ st = "drop"
        OBVIOUS
    <2> HIDE DEF st
    <2>7. Progress'
        BY <1>2, <2>1, <2>4, <2>5, <2>6 DEF Progress, InStep
    <2>8. QED
        BY <1>3, <2>2, <2>3, <2>7, PassFacts
<1>11. CASE Finish
    BY <1>1, <1>11, NoneFacts, PassEnds DEF Finish
<1>12. QED
    BY <1>7, <1>8, <1>9, <1>10, <1>11

LEMMA AfloatFacts ==
    ASSUME SnapInv, NEW s \in afloat
    PROVE  /\ LateRow(s) \/ LateDrop(s) \/ LatePointer(s)
           /\ s.kind \in {"row", "drop"} => s.id \in 1 .. LastTick /\ s.id \in Nat /\ s.id < Limit
           /\ s.kind = "pointer" => /\ s.to.id \in Nat /\ s.to.id < Limit /\ s.to.at = s.to.id
                                    /\ s.to \in Generation
           /\ s.kind \in {"row", "drop", "pointer"}
<1>1. LateRow(s) \/ LateDrop(s) \/ LatePointer(s)
    BY DEF SnapInv, Floating
<1>2. IdOf(s) \in 1 .. LastTick /\ IdOf(s) < Limit /\ IdOf(s) \in Nat
    BY SnapNats DEF SnapInv, Numbered
<1>3. s.kind \in {"row", "drop", "pointer"}
    BY <1>1 DEF LateRow, LateDrop, LatePointer
<1>4. s.kind = "pointer" => s.to.at = s.to.id /\ s.to \in Generation
    BY <1>1 DEF LateRow, LateDrop, LatePointer
<1>5. QED
    BY <1>1, <1>2, <1>3, <1>4 DEF IdOf

\* A row comes in: of the pass, or of one that was given up.
LEMMA RowKeeps ==
    ASSUME SnapInv, NEW i \in 1 .. LastTick, NEW r \in LockRow,
           pointer' = pointer, parts' = parts \cup {[id |-> i, row |-> r]},
           \A j : HeldIn(parts', j) = IF j = i THEN HeldIn(parts, j) \cup {r} ELSE HeldIn(parts, j),
           i # pointer.id, \A q \in Queries : request[q].of.id # i,
           \A t \in afloat : t.kind = "pointer" => t.to.id # i,
           i < PartsLimit, PartsLimit <= PartsLimit', PartsLimit' \in Nat,
           Limit' = Limit, PointerLimit' = PointerLimit, afloat' \subseteq afloat,
           UNCHANGED <<now, request>>, pass'.step \in WithId => pass'.id = pass.id /\ pass.step \in WithId
    PROVE  /\ parts' \subseteq [id : 1 .. LastTick, row : LockRow] /\ pointer' \in Generation
           /\ Numbered' /\ Floating' /\ Whole' /\ Looked' /\ AnswersWhole'
<1>1. \A p \in parts' : p \in parts \/ p.id = i
    OBVIOUS
<1>2. Numbered'
    <2>1. \A p \in parts' : p.id < PartsLimit'
        BY <1>1, SnapNats DEF SnapInv, Numbered
    <2>2. (pass.step \in WithId => 1 <= pass.id /\ pass.id <= now)'
        BY DEF SnapInv, Numbered
    <2>3. QED
        BY <2>1, <2>2 DEF SnapInv, Numbered, IdOf
<1>3. Floating'
    <2>1. ASSUME NEW s \in afloat'
          PROVE  (LateRow(s) \/ LateDrop(s) \/ LatePointer(s))'
        BY <2>1, AfloatFacts DEF LateRow, LateDrop, LatePointer
    <2>2. QED
        BY <2>1 DEF Floating
<1>4. Whole' /\ Looked' /\ AnswersWhole'
    BY DEF SnapInv, Whole, Looked, Gone, AnswersWhole
<1>5. QED
    BY <1>2, <1>3, <1>4, PassFacts

\* A partition goes that is older than the pointer's.
LEMMA DropKeeps ==
    ASSUME SnapInv, NEW i \in Nat, i < pointer.id,
           pointer' = pointer, parts' \subseteq parts,
           \A j : HeldIn(parts', j) = IF j = i THEN {} ELSE HeldIn(parts, j),
           Limit' = Limit, PartsLimit' = PartsLimit, PointerLimit' = PointerLimit, afloat' \subseteq afloat,
           UNCHANGED <<now, request>>, pass'.step \in WithId => pass'.id = pass.id /\ pass.step \in WithId
    PROVE  /\ parts' \subseteq [id : 1 .. LastTick, row : LockRow] /\ pointer' \in Generation
           /\ Numbered' /\ Floating' /\ Whole' /\ Looked' /\ AnswersWhole'
<1>1. Numbered'
    <2>1. (pass.step \in WithId => 1 <= pass.id /\ pass.id <= now)'
        BY DEF SnapInv, Numbered
    <2>2. QED
        BY <2>1 DEF SnapInv, Numbered, IdOf
<1>2. Floating'
    <2>1. ASSUME NEW s \in afloat'
          PROVE  (LateRow(s) \/ LateDrop(s) \/ LatePointer(s))'
        <3>1. s.kind = "pointer" /\ s.to.id >= pointer.id => s.to.id # i
            BY <2>1, AfloatFacts, SnapNats
        <3>2. QED
            BY <2>1, <3>1, AfloatFacts DEF LateRow, LateDrop, LatePointer
    <2>2. QED
        BY <2>1 DEF Floating
<1>3. Whole'
    BY SnapNats DEF SnapInv, Whole
<1>4. Looked'
    <2>1. \A q \in Queries : request[q].of.id = i => request[q].of.at < pointer.at
        BY SnapNats DEF SnapInv, Numbered
    <2>2. QED
        BY <2>1 DEF SnapInv, Looked, Gone
<1>5. AnswersWhole'
    BY DEF SnapInv, AnswersWhole
<1>6. QED
    BY <1>1, <1>2, <1>3, <1>4, <1>5, PassFacts

\* The pointer moves on to a partition that is there.
LEMMA PointerKeeps ==
    ASSUME SnapInv, NEW g \in Generation, pointer' = g, g.at = g.id, g.id >= pointer.id,
           HeldIn(parts, g.id) = g.rows, parts' = parts, afloat' \subseteq afloat,
           \A s \in afloat : s.kind = "row" => s.id # g.id,
           Limit' = Limit, PartsLimit' = PartsLimit, g.id < PointerLimit',
           UNCHANGED <<now, request>>, pass'.step \in WithId => pass'.id = pass.id /\ pass.step \in WithId
    PROVE  Numbered' /\ Floating' /\ Whole' /\ Looked' /\ AnswersWhole'
<1>0. g.id \in Nat /\ g.at = g.id
    BY PassFacts DEF Generation
<1>1. Numbered'
    <2>1. (pass.step \in WithId => 1 <= pass.id /\ pass.id <= now)'
        BY DEF SnapInv, Numbered
    <2>2. \A q \in Queries : request[q].of.id <= g.id
        BY <1>0, SnapNats DEF SnapInv, Numbered
    <2>3. QED
        BY <1>0, <2>1, <2>2 DEF SnapInv, Numbered, IdOf
<1>2. Floating'
    <2>1. ASSUME NEW s \in afloat'
          PROVE  (LateRow(s) \/ LateDrop(s) \/ LatePointer(s))'
        <3>1. s.kind = "drop" /\ s.id < pointer.id => s.id < g.id
            BY <1>0, <2>1, AfloatFacts, SnapNats
        <3>2. s.kind = "pointer" /\ s.to.id >= g.id => s.to.id >= pointer.id
            BY <1>0, <2>1, AfloatFacts, SnapNats
        <3>3. QED
            BY <2>1, <3>1, <3>2, AfloatFacts DEF LateRow, LateDrop, LatePointer
    <2>2. QED
        BY <2>1 DEF Floating
<1>3. Whole'
    BY DEF Whole
<1>4. \A q \in Queries : request[q].of.at < pointer.at => request[q].of.at < pointer'.at
    BY <1>0, SnapNats DEF SnapInv, Numbered
<1>5. Looked' /\ AnswersWhole'
    BY <1>4 DEF SnapInv, Looked, Gone, AnswersWhole
<1>6. QED
    BY <1>1, <1>2, <1>3, <1>5

LEMMA InsertKeeps ==
    ASSUME SnapInv, InsertRow
    PROVE  SnapInv'
<1>1. /\ pass.step = "insert" /\ pass.left \subseteq pass.read
      /\ HeldIn(parts, pass.id) = pass.read \ pass.left
    BY DEF InsertRow, InStep, SnapInv, Progress
<1>2. PICK r \in pass.left :
        /\ Applied(Put(r))
        /\ pass' = [pass EXCEPT !.left = @ \ {r}, !.step = IF pass.left = {r} THEN "verify" ELSE "insert"]
    <2>1. Statement = {Put(r) : r \in pass.left}
        BY <1>1 DEF Statement, InStep
    <2>2. PICK s \in Statement :
            /\ Applied(s)
            /\ pass' = [pass EXCEPT !.left = pass.left \ {s.row},
                            !.step = IF pass.left = {s.row} THEN "verify" ELSE "insert"]
        BY DEF InsertRow
    <2>3. PICK r \in pass.left : s = Put(r)
        BY <2>1
    <2>4. s.row = r
        BY <2>3 DEF Put
    <2>5. QED
        BY <2>2, <2>3, <2>4, Zenon
<1>3. UNCHANGED <<locks, changes, moved, now, afloat, request, failed, slips>>
    BY DEF InsertRow, node
<1> DEFINE st == IF pass.left = {r} THEN "verify" ELSE "insert"
<1>4. /\ pass'.step = st /\ pass'.left = pass.left \ {r} /\ pass'.id = pass.id
      /\ pass'.read = pass.read /\ pass'.seen = pass.seen /\ pass'.keys = pass.keys
      /\ pass' = [step |-> st, keys |-> pass.keys, read |-> pass.read, id |-> pass.id,
                  left |-> pass.left \ {r}, seen |-> pass.seen]
    BY <1>2, PassFacts
<1>5. /\ st \in PassSteps /\ st \in WithId \ ({"compare", "count"} \cup Published)
      /\ st = "verify" \/ (st = "insert" /\ pass.left # {r})
      /\ pass.step \in WithId \ ({"compare", "count"} \cup Published)
      /\ st = "verify" => pass.left = {r}
    BY <1>1 DEF PassSteps, WithId, Published
<1> HIDE DEF st
<1>6. Put(r).kind = "row" /\ Put(r).id = pass.id /\ Put(r).row = r
    BY DEF Put
<1>7. /\ pointer' = pointer /\ parts' = parts \cup {[id |-> pass.id, row |-> r]}
      /\ \A j : HeldIn(parts', j) = IF j = pass.id THEN HeldIn(parts, j) \cup {r} ELSE HeldIn(parts, j)
    BY <1>2, <1>6, Effects
<1>8. /\ Limit = pass.id /\ PartsLimit = pass.id + 1 /\ PointerLimit = pass.id
      /\ Limit' = Limit /\ PartsLimit' = PartsLimit /\ PointerLimit' = PointerLimit
    BY <1>3, <1>4, <1>5 DEF Limit, PartsLimit, PointerLimit, WithId, Published
<1>9. /\ pass.id \in 1 .. LastTick /\ r \in LockRow
      /\ pass.id # pointer.id /\ \A q \in Queries : request[q].of.id # pass.id
      /\ \A t \in afloat : t.kind = "pointer" => t.to.id # pass.id
    <2>1. pointer.id < pass.id /\ 1 <= pass.id
        BY <1>5, <1>8 DEF SnapInv, Numbered
    <2>2. \A q \in Queries : request[q].of.id # pass.id
        BY <2>1, SnapNats DEF SnapInv, Numbered
    <2>3. \A t \in afloat : t.kind = "pointer" => t.to.id # pass.id
        BY <1>8, AfloatFacts, SnapNats
    <2>4. pass.id \in 1 .. LastTick /\ pass.id # pointer.id
        BY <2>1, SnapNats, PassFacts
    <2>5. QED
        BY <1>1, <2>2, <2>3, <2>4, PassFacts
<1>10. /\ parts' \subseteq [id : 1 .. LastTick, row : LockRow] /\ pointer' \in Generation
       /\ Numbered' /\ Floating' /\ Whole' /\ Looked' /\ AnswersWhole'
    <2>1. pass.id < PartsLimit /\ PartsLimit <= PartsLimit' /\ PartsLimit' \in Nat
        BY <1>8, SnapNats
    <2>2. QED
        BY <1>3, <1>4, <1>5, <1>7, <1>8, <1>9, <2>1, RowKeeps
<1>11. SnapTypeOK' /\ PassShape'
    BY <1>3, <1>4, <1>5, <1>10, PassFacts DEF SnapInv, SnapTypeOK, PassShape, PassSteps, WithId
<1>12. Progress'
    <2>1. HeldIn(parts', pass.id) = pass.read \ (pass.left \ {r})
        BY <1>1, <1>7
    <2>2. QED
        BY <1>1, <1>4, <1>5, <2>1 DEF Progress, InStep
<1>13. Accurate'
    BY <1>3, <1>4, <1>5 DEF SnapInv, Accurate, InStep, WithId
<1>14. QED
    BY <1>10, <1>11, <1>12, <1>13 DEF SnapInv

LEMMA FlipKeeps ==
    ASSUME SnapInv, Flip
    PROVE  SnapInv'
<1> DEFINE g == [id |-> pass.id, at |-> pass.id, rows |-> pass.read]
<1>1. pass.step = "flip" /\ HeldIn(parts, pass.id) = pass.read
    BY DEF Flip, InStep, SnapInv, Progress
<1>2. UNCHANGED <<locks, changes, moved, now, afloat, request, failed, slips>>
    BY DEF Flip, node
<1>3. /\ pass'.step = "list" /\ pass'.left = pass.left /\ pass'.id = pass.id
      /\ pass'.read = pass.read /\ pass'.seen = pass.seen /\ pass'.keys = pass.keys
      /\ pass' = [step |-> "list", keys |-> pass.keys, read |-> pass.read, id |-> pass.id,
                  left |-> pass.left, seen |-> pass.seen]
    BY PassFacts DEF Flip, GoesTo
<1>4. pass.step \in WithId \ ({"compare", "count"} \cup Published)
      /\ "list" \in WithId \ {"compare", "count"} /\ "list" \in Published /\ "list" \in PassSteps
    BY <1>1 DEF WithId, Published, PassSteps
<1>5. /\ Limit = pass.id /\ PartsLimit = pass.id + 1 /\ PointerLimit = pass.id
      /\ Limit' = Limit /\ PartsLimit' = PartsLimit /\ PointerLimit' = pass.id + 1
    BY <1>1, <1>2, <1>3 DEF Limit, PartsLimit, PointerLimit, WithId, Published
<1>6. pointer.id < pass.id /\ pointer.at = pointer.id /\ pass.id \in Nat /\ pointer.id \in Nat
    BY <1>5, SnapNats DEF SnapInv, Numbered
<1>7. g \in Generation /\ g.id = pass.id /\ g.at = pass.id /\ g.rows = pass.read
    BY PassFacts DEF Generation
<1>8. Point.kind = "pointer" /\ Point.to = g
    BY DEF Point
<1> HIDE DEF g
<1>9. parts' = parts /\ pointer' = g
    <2>1. parts' = parts /\ pointer' = IF Point.to.at >= pointer.at THEN Point.to ELSE pointer
        BY <1>8, Effects DEF Flip
    <2>2. Point.to.at >= pointer.at
        BY <1>6, <1>7, <1>8
    <2>3. QED
        BY <1>8, <2>1, <2>2
<1>10. Numbered' /\ Floating' /\ Whole' /\ Looked' /\ AnswersWhole'
    <2>1. \A s \in afloat : s.kind = "row" => s.id # g.id
        BY <1>5, <1>7, AfloatFacts, SnapNats
    <2>2. g.id >= pointer.id /\ g.id < PointerLimit'
        BY <1>5, <1>6, <1>7
    <2>3. QED
        BY <1>1, <1>2, <1>3, <1>4, <1>5, <1>7, <1>9, <2>1, <2>2, PointerKeeps
<1>11. SnapTypeOK' /\ PassShape'
    BY <1>2, <1>3, <1>4, <1>7, <1>9, PassFacts DEF SnapInv, SnapTypeOK, PassShape
<1>12. Progress'
    BY <1>3, <1>7, <1>9 DEF Progress, InStep
<1>13. Accurate'
    BY <1>2, <1>3, <1>4 DEF SnapInv, Accurate, InStep
<1>14. QED
    BY <1>10, <1>11, <1>12, <1>13 DEF SnapInv

LEMMA DropStepKeeps ==
    ASSUME SnapInv, Drop
    PROVE  SnapInv'
<1>1. /\ pass.step = "drop" /\ pointer.id = pass.id /\ pointer.rows = pass.read
      /\ \A id \in pass.left : id \in 1 .. LastTick /\ id < pass.id
    BY DEF Drop, InStep, SnapInv, Progress
<1>2. PICK i \in pass.left :
        /\ Applied(DropOf(i))
        /\ pass' = [pass EXCEPT !.left = @ \ {i}, !.step = IF pass.left = {i} THEN "done" ELSE "drop"]
    <2>1. Statement = {DropOf(i) : i \in pass.left}
        BY <1>1 DEF Statement, InStep
    <2>2. PICK s \in Statement :
            /\ Applied(s)
            /\ pass' = [pass EXCEPT !.left = pass.left \ {s.id},
                            !.step = IF pass.left = {s.id} THEN "done" ELSE "drop"]
        BY DEF Drop
    <2>3. PICK i \in pass.left : s = DropOf(i)
        BY <2>1
    <2>4. s.id = i
        BY <2>3 DEF DropOf
    <2>5. QED
        BY <2>2, <2>3, <2>4, Zenon
<1>3. UNCHANGED <<locks, changes, moved, now, afloat, request, failed, slips>>
    BY DEF Drop, node
<1> DEFINE st == IF pass.left = {i} THEN "done" ELSE "drop"
<1>4. /\ pass'.step = st /\ pass'.left = pass.left \ {i} /\ pass'.id = pass.id
      /\ pass'.read = pass.read /\ pass'.seen = pass.seen /\ pass'.keys = pass.keys
      /\ pass' = [step |-> st, keys |-> pass.keys, read |-> pass.read, id |-> pass.id,
                  left |-> pass.left \ {i}, seen |-> pass.seen]
    BY <1>2, PassFacts
<1>5. /\ st \in PassSteps /\ st \in WithId \ {"compare", "count"} /\ st \in Published
      /\ st = "done" \/ st = "drop"
      /\ pass.step \in WithId \ {"compare", "count"} /\ pass.step \in Published
    BY <1>1 DEF PassSteps, WithId, Published
<1> HIDE DEF st
<1>6. DropOf(i).kind = "drop" /\ DropOf(i).id = i
    BY DEF DropOf
<1>7. /\ pointer' = pointer /\ parts' \subseteq parts
      /\ \A j : HeldIn(parts', j) = IF j = i THEN {} ELSE HeldIn(parts, j)
    BY <1>2, <1>6, Effects
<1>8. Limit' = Limit /\ PartsLimit' = PartsLimit /\ PointerLimit' = PointerLimit
    BY <1>1, <1>3, <1>4, <1>5 DEF Limit, PartsLimit, PointerLimit, WithId, Published
<1>9. i \in Nat /\ i < pointer.id
    BY <1>1
<1>10. /\ parts' \subseteq [id : 1 .. LastTick, row : LockRow] /\ pointer' \in Generation
       /\ Numbered' /\ Floating' /\ Whole' /\ Looked' /\ AnswersWhole'
    BY <1>3, <1>4, <1>5, <1>7, <1>8, <1>9, DropKeeps
<1>11. SnapTypeOK' /\ PassShape'
    BY <1>3, <1>4, <1>5, <1>10, PassFacts DEF SnapInv, SnapTypeOK, PassShape, PassSteps, WithId
<1>12. Progress'
    BY <1>1, <1>4, <1>5, <1>7 DEF Progress, InStep
<1>13. Accurate'
    BY <1>3, <1>4, <1>5 DEF SnapInv, Accurate, InStep, WithId
<1>14. QED
    BY <1>10, <1>11, <1>12, <1>13 DEF SnapInv

\* What lands late is a row nobody points at, an old partition's drop, or a pointer to a
\* partition that is there.
LEMMA LandsKeeps ==
    ASSUME SnapInv, NEW s \in afloat, Lands(s)
    PROVE  SnapInv'
<1>1. /\ Applied(s) /\ afloat' \subseteq afloat
      /\ UNCHANGED <<locks, changes, moved, now, pass, request, failed, slips>>
    BY DEF Lands, node
<1>2. Limit' = Limit /\ PartsLimit' = PartsLimit /\ PointerLimit' = PointerLimit
    BY <1>1 DEF Limit, PartsLimit, PointerLimit
<1>3. Accurate'
    BY <1>1 DEF SnapInv, Accurate, InStep
<1>4. ASSUME parts' \subseteq [id : 1 .. LastTick, row : LockRow], pointer' \in Generation
      PROVE  SnapTypeOK' /\ PassShape'
    BY <1>1, <1>4, PassFacts DEF SnapInv, SnapTypeOK, PassShape
<1>5. CASE LateRow(s)
    <2>1. s.kind = "row" /\ s.row \in LockRow /\ s.id \in 1 .. LastTick /\ s.id \in Nat /\ s.id < Limit
        BY <1>5, AfloatFacts DEF LateRow
    <2>2. /\ pointer' = pointer /\ parts' = parts \cup {[id |-> s.id, row |-> s.row]}
          /\ \A j : HeldIn(parts', j) = IF j = s.id THEN HeldIn(parts, j) \cup {s.row} ELSE HeldIn(parts, j)
        BY <1>1, <2>1, Effects
    <2>3. s.id < PartsLimit /\ PartsLimit <= PartsLimit' /\ PartsLimit' \in Nat
        BY <1>2, <2>1, SnapNats
    <2>4. /\ parts' \subseteq [id : 1 .. LastTick, row : LockRow] /\ pointer' \in Generation
          /\ Numbered' /\ Floating' /\ Whole' /\ Looked' /\ AnswersWhole'
        BY <1>1, <1>2, <1>5, <2>1, <2>2, <2>3, RowKeeps DEF LateRow
    <2>5. Progress'
        <3>0. pass.step \in WithId => pass.id # s.id
            BY <2>1, SnapNats
        <3>1. pass.step \in WithId => HeldIn(parts', pass.id) = HeldIn(parts, pass.id)
            BY <2>2, <3>0
        <3>2. QED
            BY <1>1, <2>2, <3>1 DEF SnapInv, Progress, InStep, WithId
    <2>6. QED
        BY <1>3, <1>4, <2>4, <2>5 DEF SnapInv
<1>6. CASE LateDrop(s)
    <2>1. s.kind = "drop" /\ s.id < pointer.id /\ s.id \in Nat /\ s.id < Limit
        BY <1>6, AfloatFacts DEF LateDrop
    <2>2. /\ pointer' = pointer /\ parts' \subseteq parts
          /\ \A j : HeldIn(parts', j) = IF j = s.id THEN {} ELSE HeldIn(parts, j)
        BY <1>1, <2>1, Effects
    <2>3. /\ parts' \subseteq [id : 1 .. LastTick, row : LockRow] /\ pointer' \in Generation
          /\ Numbered' /\ Floating' /\ Whole' /\ Looked' /\ AnswersWhole'
        BY <1>1, <1>2, <2>1, <2>2, DropKeeps
    <2>4. Progress'
        <3>0. pass.step \in WithId => pass.id # s.id
            BY <2>1, SnapNats
        <3>1. pass.step \in WithId => HeldIn(parts', pass.id) = HeldIn(parts, pass.id)
            BY <2>2, <3>0
        <3>2. QED
            BY <1>1, <2>2, <3>1 DEF SnapInv, Progress, InStep, WithId
    <2>5. QED
        BY <1>3, <1>4, <2>3, <2>4 DEF SnapInv
<1>7. CASE LatePointer(s) /\ s.to.at >= pointer.at
    <2>1. /\ s.kind = "pointer" /\ s.to \in Generation /\ s.to.at = s.to.id /\ s.to.id \in Nat
          /\ s.to.id < Limit /\ s.to.id >= pointer.id
        BY <1>7, AfloatFacts, SnapNats DEF LatePointer
    <2>2. parts' = parts /\ pointer' = s.to
        BY <1>1, <1>7, <2>1, Effects
    <2>3. HeldIn(parts, s.to.id) = s.to.rows
        BY <1>7, <2>1 DEF LatePointer
    <2>4. \A t \in afloat : t.kind = "row" => t.id # s.to.id
        BY <2>1, AfloatFacts DEF LateRow, LateDrop, LatePointer
    <2>5. s.to.id < PointerLimit'
        BY <1>2, <2>1, SnapNats
    <2>6. Numbered' /\ Floating' /\ Whole' /\ Looked' /\ AnswersWhole'
        BY <1>1, <1>2, <2>1, <2>2, <2>3, <2>4, <2>5, PointerKeeps
    <2>7. Progress'
        <3>1. pass.step \in WithId => s.to.id # pass.id /\ pointer.id # pass.id
            BY <2>1, SnapNats
        <3>2. QED
            BY <1>1, <2>2, <3>1 DEF SnapInv, Progress, InStep, WithId
    <2>8. QED
        BY <1>3, <1>4, <2>1, <2>2, <2>6, <2>7, PassFacts DEF SnapInv
<1>8. CASE LatePointer(s) /\ ~(s.to.at >= pointer.at)
    <2>1. parts' = parts /\ pointer' = pointer
        BY <1>1, <1>8, Effects DEF LatePointer
    <2>2. Numbered' /\ Floating' /\ Whole' /\ Looked' /\ AnswersWhole'
        <3>1. Numbered'
            BY <1>1, <1>2, <2>1 DEF SnapInv, Numbered, IdOf
        <3>2. Floating'
            BY <1>1, <2>1 DEF SnapInv, Floating, LateRow, LateDrop, LatePointer
        <3>3. QED
            BY <1>1, <2>1, <3>1, <3>2 DEF SnapInv, Whole, Looked, Gone, AnswersWhole
    <2>3. Progress'
        BY <1>1, <2>1 DEF SnapInv, Progress, InStep
    <2>4. QED
        BY <1>3, <1>4, <2>1, <2>2, <2>3, PassFacts DEF SnapInv
<1>9. QED
    BY <1>5, <1>6, <1>7, <1>8, AfloatFacts

\* The statement that a pass leaves behind when it is given up or dies.
LEMMA AbandonKeeps ==
    ASSUME SnapInv, NEW w \in {"wait", "boot"}, Abandons(w)
    PROVE  SnapInv'
<1>1. /\ pass' = [step |-> w, keys |-> {}, read |-> {}, id |-> 0, left |-> {}, seen |-> None]
      /\ UNCHANGED <<locks, changes, moved, now, parts, pointer, request, failed>>
      /\ slips' \in 0 .. MaxSlips
    <2>1. pass' = [Waiting EXCEPT !.step = w]
        BY DEF Abandons
    <2>2. pass' = [step |-> w, keys |-> {}, read |-> {}, id |-> 0, left |-> {}, seen |-> None]
        BY <2>1 DEF Waiting
    <2>3. slips' \in 0 .. MaxSlips
        BY PassFacts DEF Abandons
    <2>4. QED
        BY <2>2, <2>3 DEF Abandons, node
<1>2. CASE afloat' = afloat
    BY <1>1, <1>2, NoneFacts, PassEnds DEF node, store
<1>3. ASSUME NEW s \in Statement, afloat' = afloat \cup {s}
      PROVE  SnapInv'
    <2>1. /\ pass'.step = w /\ pass'.read = {} /\ pass'.id = 0 /\ pass'.seen = None
          /\ w \in PassSteps /\ w \notin WithId
        BY <1>1 DEF PassSteps, WithId
    <2>2. SnapTypeOK' /\ PassShape'
        BY <1>1, <2>1, NoneFacts, PassFacts DEF SnapInv, SnapTypeOK, PassShape, PassSteps
    <2>3. Limit' = now + 1 /\ PartsLimit' = now + 1 /\ PointerLimit' = now + 1
        BY <1>1, <2>1 DEF Limit, PartsLimit, PointerLimit, WithId, Published
    <2>4. PartsLimit <= now + 1 /\ PointerLimit <= now + 1 /\ Limit <= now + 1
        BY SnapNats DEF PartsLimit, PointerLimit, Limit, Published, WithId
    <2>5. /\ IdOf(s) \in 1 .. LastTick /\ IdOf(s) < now + 1
          /\ \/ /\ s.kind = "row" /\ s.row \in LockRow /\ s.id # pointer.id
                /\ \A q \in Queries : request[q].of.id # s.id
                /\ \A t \in afloat : t.kind = "pointer" => t.to.id # s.id
             \/ s.kind = "drop" /\ s.id < pointer.id
             \/ /\ s.kind = "pointer" /\ s.to \in Generation /\ s.to.at = s.to.id
                /\ HeldIn(parts, s.to.id) = s.to.rows
                /\ \A t \in afloat : t.kind = "row" => t.id # s.to.id
        <3>1. CASE pass.step = "insert"
            <4>1. PICK r \in pass.left : s = Put(r)
                BY <3>1 DEF Statement, InStep
            <4>2. s.kind = "row" /\ s.id = pass.id /\ s.row = r
                BY <4>1 DEF Put
            <4>3. Limit = pass.id /\ PointerLimit = pass.id /\ 1 <= pass.id /\ pass.id <= now
                BY <3>1 DEF Limit, PointerLimit, WithId, Published, SnapInv, Numbered
            <4>4. pass.id \in 1 .. LastTick /\ pass.id < now + 1
                BY <4>3, SnapNats
            <4>5. r \in LockRow
                BY <3>1, PassFacts DEF SnapInv, Progress, InStep
            <4>6. pointer.id < pass.id
                BY <4>3 DEF SnapInv, Numbered
            <4>7. \A q \in Queries : request[q].of.id # pass.id
                BY <4>6, SnapNats DEF SnapInv, Numbered
            <4>8. \A t \in afloat : t.kind = "pointer" => t.to.id # pass.id
                BY <4>3, AfloatFacts, SnapNats
            <4>9. pass.id # pointer.id
                BY <4>6, SnapNats
            <4>10. QED
                BY <4>2, <4>4, <4>5, <4>7, <4>8, <4>9 DEF IdOf
        <3>2. CASE pass.step = "flip"
            <4>1. s = Point
                BY <3>2 DEF Statement, InStep
            <4>2. /\ s.kind = "pointer" /\ s.to.id = pass.id /\ s.to.at = pass.id
                  /\ s.to.rows = pass.read
                  /\ s.to = [id |-> pass.id, at |-> pass.id, rows |-> pass.read]
                BY <4>1 DEF Point
            <4>3. Limit = pass.id /\ 1 <= pass.id /\ pass.id <= now
                BY <3>2 DEF Limit, WithId, SnapInv, Numbered
            <4>4. pass.id \in 1 .. LastTick /\ pass.id < now + 1
                BY <4>3, SnapNats
            <4>5. s.to \in Generation
                BY <4>2, PassFacts DEF Generation
            <4>6. HeldIn(parts, pass.id) = pass.read
                BY <3>2 DEF SnapInv, Progress
            <4>7. \A t \in afloat : t.kind = "row" => t.id # pass.id
                BY <4>3, AfloatFacts, SnapNats
            <4>8. QED
                BY <4>2, <4>4, <4>5, <4>6, <4>7 DEF IdOf
        <3>3. CASE pass.step = "drop"
            <4>1. PICK i \in pass.left : s = DropOf(i)
                BY <3>3 DEF Statement, InStep
            <4>2. s.kind = "drop" /\ s.id = i
                BY <4>1 DEF DropOf
            <4>3. i \in 1 .. LastTick /\ i < pass.id /\ pointer.id = pass.id /\ pass.id <= now
                BY <3>3 DEF SnapInv, Progress, Numbered, InStep, WithId
            <4>4. i < now + 1
                BY <4>3, SnapNats
            <4>5. QED
                BY <4>2, <4>3, <4>4 DEF IdOf
        <3>4. QED
            BY <3>1, <3>2, <3>3 DEF Statement, InStep
    <2>6. Numbered'
        <3>1. \A p \in parts : p.id < now + 1
            BY <2>4, SnapNats DEF SnapInv, Numbered
        <3>2. \A t \in afloat' : IdOf(t) \in 1 .. LastTick /\ IdOf(t) < now + 1
            BY <1>3, <2>4, <2>5, SnapNats DEF SnapInv, Numbered
        <3>3. pointer.id < now + 1
            BY <2>4, SnapNats DEF SnapInv, Numbered
        <3>4. QED
            BY <1>1, <2>1, <2>3, <3>1, <3>2, <3>3 DEF SnapInv, Numbered, IdOf
    <2>7. Floating'
        <3>1. ASSUME NEW t \in afloat
              PROVE  (LateRow(t) \/ LateDrop(t) \/ LatePointer(t))'
            BY <1>1, <1>3, <2>5, <3>1, AfloatFacts DEF LateRow, LateDrop, LatePointer
        <3>2. (LateRow(s) \/ LateDrop(s) \/ LatePointer(s))'
            BY <1>1, <1>3, <2>5 DEF LateRow, LateDrop, LatePointer
        <3>3. QED
            BY <1>3, <3>1, <3>2 DEF Floating
    <2>8. Whole' /\ Looked' /\ AnswersWhole'
        BY <1>1 DEF SnapInv, Whole, Looked, Gone, AnswersWhole
    <2>9. Progress' /\ Accurate'
        BY <2>1 DEF Progress, Accurate, InStep, WithId
    <2>10. QED
        BY <2>2, <2>6, <2>7, <2>8, <2>9 DEF SnapInv
<1>4. QED
    BY <1>2, <1>3 DEF Abandons

LEMMA RequestsKeep ==
    ASSUME SnapInv, Answered \/ \E q \in Queries : LooksUp(q) \/ Scans(q)
    PROVE  SnapInv'
<1>1. /\ UNCHANGED <<locks, changes, moved, now, pass, parts, pointer, afloat, failed, slips>>
      /\ Limit' = Limit /\ PartsLimit' = PartsLimit /\ PointerLimit' = PointerLimit
    BY DEF Answered, LooksUp, Scans, node, store, Limit, PartsLimit, PointerLimit
<1>2. /\ request \in [Queries -> Asked] /\ pointer \in Generation
      /\ \A q \in Queries : request[q] \in Asked
    BY PassFacts
<1>3. /\ request' \in [Queries -> Asked]
      /\ \A q \in Queries : \/ request'[q] = request[q]
                            \/ request'[q] = Nothing
                            \/ request'[q] = [step |-> "scan", of |-> pointer, rows |-> {}]
                            \/ /\ request[q].step = "scan"
                               /\ request'[q] = [step |-> "answer", of |-> request[q].of,
                                                 rows |-> HeldIn(parts, request[q].of.id)]
    <2>1. CASE Answered
        BY <2>1, NoneFacts DEF Answered, Nothing, Asked
    <2>2. ASSUME NEW q \in Queries, LooksUp(q)
          PROVE  request' = [request EXCEPT ![q] = [step |-> "scan", of |-> pointer, rows |-> {}]]
        BY <2>2 DEF LooksUp
    <2>3. [step |-> "scan", of |-> pointer, rows |-> {}] \in Asked
        BY <1>2 DEF Asked
    <2>4. ASSUME NEW q \in Queries, Scans(q)
          PROVE  /\ request[q].step = "scan"
                 /\ request' = [request EXCEPT ![q] = [step |-> "answer", of |-> request[q].of,
                                                       rows |-> HeldIn(parts, request[q].of.id)]]
                 /\ [step |-> "answer", of |-> request[q].of,
                     rows |-> HeldIn(parts, request[q].of.id)] \in Asked
        <3>1. HeldIn(parts, request[q].of.id) \subseteq LockRow
            BY PassFacts DEF HeldIn
        <3>2. request' = [request EXCEPT ![q] = [request[q] EXCEPT !.step = "answer",
                                                     !.rows = HeldIn(parts, request[q].of.id)]]
            BY <1>2, <2>4 DEF Scans, Held, HeldIn
        <3>3. PICK p : p = [request[q] EXCEPT !.step = "answer", !.rows = HeldIn(parts, request[q].of.id)]
            OBVIOUS
        <3>4. /\ p = [step |-> "answer", of |-> request[q].of, rows |-> HeldIn(parts, request[q].of.id)]
              /\ request[q].of \in Generation
            BY <1>2, <3>3 DEF Asked
        <3>5. p \in Asked
            BY <3>1, <3>4 DEF Asked
        <3>6. QED
            BY <2>4, <3>2, <3>3, <3>4, <3>5 DEF Scans
    <2>5. QED
        BY <1>2, <2>1, <2>2, <2>3, <2>4
<1>4. SnapTypeOK' /\ PassShape' /\ Progress' /\ Accurate' /\ Whole'
    BY <1>1, <1>3 DEF SnapInv, SnapTypeOK, PassShape, Progress, Accurate, Whole, InStep
<1>5. \A q \in Queries : request'[q].of \in {request[q].of, None, pointer}
    BY <1>3 DEF Nothing
<1>6. Numbered'
    <2>1. \A q \in Queries : request'[q].of.at = request'[q].of.id /\ request'[q].of.id <= pointer.id
        BY <1>5, NoneFacts, SnapNats DEF SnapInv, Numbered
    <2>2. QED
        BY <1>1, <2>1 DEF SnapInv, Numbered, IdOf
<1>7. Floating'
    <2>1. ASSUME NEW s \in afloat
          PROVE  (LateRow(s) \/ LateDrop(s) \/ LatePointer(s))'
        <3>1. LateRow(s) => \A q \in Queries : request'[q].of.id # s.id
            BY <1>5, <2>1, AfloatFacts, NoneFacts DEF LateRow
        <3>2. QED
            BY <1>1, <2>1, <3>1, AfloatFacts DEF LateRow, LateDrop, LatePointer
    <2>2. QED
        BY <1>1, <2>1 DEF Floating
<1>8. Looked' /\ AnswersWhole'
    <2>1. ASSUME NEW q \in Queries
          PROVE  /\ request'[q].step = "scan" =>
                      \/ HeldIn(parts, request'[q].of.id) = request'[q].of.rows
                      \/ Gone(request'[q].of)
                 /\ request'[q].step = "answer" =>
                      \/ request'[q].rows = request'[q].of.rows
                      \/ request'[q].rows = {} /\ request'[q].of.at < pointer.at
        <3>1. CASE request'[q] = request[q]
            BY <3>1 DEF SnapInv, Looked, AnswersWhole
        <3>2. CASE request'[q] = Nothing
            BY <3>2 DEF Nothing
        <3>3. CASE request'[q] = [step |-> "scan", of |-> pointer, rows |-> {}]
            BY <3>3 DEF SnapInv, Whole
        <3>4. CASE /\ request[q].step = "scan"
                   /\ request'[q] = [step |-> "answer", of |-> request[q].of,
                                     rows |-> HeldIn(parts, request[q].of.id)]
            BY <3>4 DEF SnapInv, Looked, Gone
        <3>5. QED
            BY <1>3, <3>1, <3>2, <3>3, <3>4
    <2>2. QED
        BY <1>1, <2>1 DEF Looked, AnswersWhole, Gone
<1>9. QED
    BY <1>4, <1>6, <1>7, <1>8 DEF SnapInv

LEMMA SnapStep == SnapInv /\ [SnapNext]_snapVars => SnapInv'
<1> SUFFICES ASSUME SnapInv, [SnapNext]_snapVars PROVE SnapInv'
    OBVIOUS
<1>1. CASE UNCHANGED snapVars
    <2>1. UNCHANGED <<locks, changes, now, pass, parts, pointer, request, afloat, moved, failed, slips>>
        BY <1>1 DEF snapVars
    <2>2. Limit' = Limit /\ PartsLimit' = PartsLimit /\ PointerLimit' = PointerLimit
        BY <2>1 DEF Limit, PartsLimit, PointerLimit
    <2>3. Numbered' /\ Floating' /\ Whole' /\ Looked' /\ AnswersWhole'
        <3>1. (pass.step \in WithId => 1 <= pass.id /\ pass.id <= now)'
            BY <2>1 DEF SnapInv, Numbered
        <3>2. QED
            BY <2>1, <2>2, <3>1, SnapNats, StoreStands DEF store
    <2>4. SnapTypeOK' /\ PassShape' /\ Progress' /\ Accurate'
        BY <2>1 DEF SnapInv, SnapTypeOK, PassShape, Progress, Accurate, InStep
    <2>5. QED
        BY <2>3, <2>4 DEF SnapInv
<1>2. CASE PassFails \/ ProcessDies
    BY <1>2, AbandonKeeps DEF PassFails, ProcessDies
<1>3. QED
    BY <1>1, <1>2, ChangeKeeps, TickKeeps, ReadKeysKeeps, ReadValueKeeps, ValueLostKeeps,
       EnumeratedKeeps, StepsKeep, InsertKeeps, FlipKeeps, DropStepKeeps, LandsKeeps, RequestsKeep
       DEF SnapNext

\* For every set of accounts, queries, locks, ticks and failures: the pointer names a whole
\* generation, a pass that is through leaves it saying what the chain says, and a query
\* answers with a whole generation or with none, whatever lands late.
THEOREM GenerationsWhole == SnapSpec => []SnapshotsSound
<1>1. SnapInv => SnapshotsSound
    <2> SUFFICES ASSUME SnapInv PROVE SnapshotsSound
        OBVIOUS
    <2>1. PointerWhole
        BY DEF SnapInv, Whole, PointerWhole, Held, HeldIn
    <2>2. PublishedCurrent
        <3> SUFFICES ASSUME InStep("done"), ~Overtaken, NEW a \in Accounts \ (moved \cup failed)
                     PROVE  Amounts(pointer.rows, a) = {locks[a]} \ {0}
            BY DEF PublishedCurrent, Amounts
        <3>1. pointer.rows = pass.read
            BY DEF SnapInv, Progress, Overtaken
        <3>2. QED
            BY <3>1 DEF SnapInv, Accurate, InStep, WithId
    <2>3. QED
        BY <2>1, <2>2 DEF SnapInv, SnapshotsSound
<1>2. QED
    BY SnapInitInv, SnapStep, <1>1, PTL DEF SnapSpec

----------------------------------------------------------------------------
(* The feed window: the order of rows, and what a limited read returns. *)

LEMMA NewerOrder ==
    \A r, s, t \in RowType :
        /\ ~Newer(r, r)
        /\ Newer(r, s) /\ Newer(s, t) => Newer(r, t)
        /\ Newer(r, t) => Newer(r, s) \/ Newer(s, t)
<1>1. \A r \in RowType : r.block \in Nat /\ r.event \in Nat
    BY DEF RowType
<1>2. QED
    BY <1>1 DEF Newer

\* A row that is newer than another has less before it.
LEMMA RankOrder ==
    ASSUME NEW S \in SUBSET RowType, IsFiniteSet(S)
    PROVE  /\ \A r \in RowType : Rank(r, S) \in Nat /\ Rank(r, S) <= Cardinality(S)
           /\ \A r, x \in RowType : Newer(r, x) => Rank(r, S) <= Rank(x, S)
           /\ \A r \in S, x \in RowType : Newer(r, x) => Rank(r, S) < Rank(x, S)
<1> DEFINE before(r) == {s \in S : Newer(s, r)}
<1>1. ASSUME NEW r \in RowType
      PROVE  /\ IsFiniteSet(before(r)) /\ Rank(r, S) = Cardinality(before(r))
             /\ Rank(r, S) \in Nat /\ Rank(r, S) <= Cardinality(S)
    <2>1. before(r) \subseteq S
        OBVIOUS
    <2>2. IsFiniteSet(before(r)) /\ Cardinality(before(r)) <= Cardinality(S)
        BY <2>1, FS_Subset
    <2>3. Cardinality(before(r)) \in Nat
        BY <2>2, FS_CardinalityType
    <2>4. QED
        BY <2>2, <2>3 DEF Rank
<1>2. ASSUME NEW r \in RowType, NEW x \in RowType, Newer(r, x)
      PROVE  /\ before(r) \subseteq before(x)
             /\ Rank(r, S) <= Rank(x, S)
             /\ r \in S => Rank(r, S) < Rank(x, S)
    <2>1. before(r) \subseteq before(x)
        BY <1>2, NewerOrder
    <2>2. Cardinality(before(r)) <= Cardinality(before(x))
        BY <1>1, <2>1, FS_Subset
    <2>3. Cardinality(before(r)) = Cardinality(before(x)) => before(r) = before(x)
        BY <1>1, <2>1, FS_Subset
    <2>4. r \in S => r \in before(x) /\ r \notin before(r)
        BY <1>2, NewerOrder
    <2>5. Rank(r, S) \in Nat /\ Rank(x, S) \in Nat
        BY <1>1
    <2>6. Rank(r, S) = Cardinality(before(r)) /\ Rank(x, S) = Cardinality(before(x))
        BY <1>1
    <2>7. r \in S => Cardinality(before(r)) # Cardinality(before(x))
        BY <2>3, <2>4
    <2>8. QED
        <3> HIDE DEF before
        <3> QED
            BY <2>1, <2>2, <2>5, <2>6, <2>7
<1>3. QED
    BY <1>1, <1>2

\* Of some rows there is one that none of them is newer than, and one that is newer than none.
LEMMA EndRows ==
    ASSUME NEW S \in SUBSET RowType, IsFiniteSet(S), NEW T \in SUBSET S, T # {}
    PROVE  /\ \E r \in T : \A t \in T : ~Newer(t, r)
           /\ \E r \in T : \A t \in T : ~Newer(r, t)
<1>1. /\ \A r \in S : Rank(r, S) \in Nat /\ Rank(r, S) <= Cardinality(S)
      /\ \A r, t \in S : Newer(r, t) => Rank(r, S) < Rank(t, S)
      /\ Cardinality(S) \in Nat
    BY RankOrder, FS_CardinalityType
<1> DEFINE N == {Rank(r, S) : r \in T}
           M == {Cardinality(S) - Rank(r, S) : r \in T}
<1>2. N \subseteq Nat /\ N # {} /\ M \subseteq Nat /\ M # {}
    BY <1>1
<1>3. PICK n \in N : \A k \in N : ~(k < n)
    <2> HIDE DEF N
    <2>1. PICK n \in N : \A k \in N : <<k, n>> \notin OpToRel(<, Nat)
        BY <1>2, WFMin, NatLessThanWellFounded, Zenon
    <2>2. \A k \in N : k < n => <<k, n>> \in OpToRel(<, Nat)
        BY <1>2 DEF OpToRel
    <2>3. QED
        BY <2>1, <2>2
<1>4. PICK m \in M : \A k \in M : ~(k < m)
    <2> HIDE DEF M
    <2>1. PICK m \in M : \A k \in M : <<k, m>> \notin OpToRel(<, Nat)
        BY <1>2, WFMin, NatLessThanWellFounded, Zenon
    <2>2. \A k \in M : k < m => <<k, m>> \in OpToRel(<, Nat)
        BY <1>2 DEF OpToRel
    <2>3. QED
        BY <2>1, <2>2
<1>5. \E r \in T : \A t \in T : ~Newer(t, r)
    <2>1. PICK r \in T : n = Rank(r, S)
        OBVIOUS
    <2>2. \A t \in T : ~(Rank(t, S) < Rank(r, S))
        BY <1>3, <2>1
    <2>3. QED
        BY <1>1, <2>2
<1>6. \E r \in T : \A t \in T : ~Newer(r, t)
    <2>1. PICK r \in T : m = Cardinality(S) - Rank(r, S)
        OBVIOUS
    <2>2. \A t \in T : ~(Cardinality(S) - Rank(t, S) < Cardinality(S) - Rank(r, S))
        BY <1>4, <2>1
    <2>3. \A t \in T : ~(Rank(r, S) < Rank(t, S))
        BY <1>1, <2>2
    <2>4. QED
        BY <1>1, <2>3
<1>7. QED
    BY <1>5, <1>6

\* A read that returns fewer rows than its limit has returned all there are; any read has
\* what is newer than a row it has.
LEMMA NewestFacts ==
    ASSUME NEW S \in SUBSET RowType, IsFiniteSet(S), NEW n \in Nat
    PROVE  /\ Newest(n, S) \subseteq S /\ IsFiniteSet(Newest(n, S)) /\ Cardinality(Newest(n, S)) \in Nat
           /\ Cardinality(Newest(n, S)) < n => Newest(n, S) = S
           /\ \A x \in Newest(n, S), r \in S : Newer(r, x) => r \in Newest(n, S)
<1>1. Newest(n, S) \subseteq S
    BY DEF Newest
<1>2. IsFiniteSet(Newest(n, S)) /\ Cardinality(Newest(n, S)) \in Nat
    BY <1>1, FS_Subset, FS_CardinalityType
<1>3. \A r \in S : Rank(r, S) \in Nat
    BY RankOrder
<1>4. ASSUME NEW x \in Newest(n, S), NEW r \in S, Newer(r, x) PROVE r \in Newest(n, S)
    <2>1. x \in S /\ Rank(x, S) < n
        BY DEF Newest
    <2>2. Rank(r, S) <= Rank(x, S)
        BY <1>4, <2>1, RankOrder
    <2>3. QED
        BY <1>3, <2>1, <2>2 DEF Newest
<1>5. ASSUME Cardinality(Newest(n, S)) < n, Newest(n, S) # S PROVE FALSE
    <2>1. S \ Newest(n, S) # {}
        BY <1>1, <1>5
    <2>2. PICK r \in S \ Newest(n, S) : \A t \in S \ Newest(n, S) : ~Newer(t, r)
        BY <2>1, EndRows
    <2>3. {s \in S : Newer(s, r)} \subseteq Newest(n, S)
        BY <2>2
    <2>4. Rank(r, S) <= Cardinality(Newest(n, S))
        BY <1>2, <2>3, FS_Subset DEF Rank
    <2>5. r \in Newest(n, S)
        BY <1>2, <1>3, <1>5, <2>2, <2>4 DEF Newest
    <2>6. QED
        BY <2>2, <2>5
<1>6. QED
    BY <1>1, <1>2, <1>4, <1>5

----------------------------------------------------------------------------
(* The feed window: what is shown of a block depends on the rows of the block. *)

SameAt(b, S, T) == \A s : s.block = b => (s \in S <=> s \in T)

LEMMA ExtrinsicIs ==
    ASSUME NEW r, NEW S
    PROVE  InExtrinsicOf(r, S)
               <=> r.ext # Hook /\ \E s \in S : s.ext # Hook /\ s.block = r.block /\ s.ext = r.ext
<1>1. <<r.block, r.ext>> \in Extrinsics(S)
          <=> \E s \in S : s.ext # Hook /\ <<r.block, r.ext>> = <<s.block, s.ext>>
    BY DEF Extrinsics, Signed
<1>2. QED
    BY <1>1 DEF InExtrinsicOf

LEMMA OwnedGrows ==
    ASSUME NEW r, NEW S, NEW T, S \subseteq T
    PROVE  /\ InExtrinsicOf(r, S) => InExtrinsicOf(r, T)
           /\ Owned(r, S) => Owned(r, T)
<1>1. \A U, V : U \subseteq V => (InExtrinsicOf(r, U) => InExtrinsicOf(r, V))
    BY ExtrinsicIs
<1>2. \A U, V : U \subseteq V => (NamedByHook(r, U) => NamedByHook(r, V))
    BY DEF NamedByHook, Signed
<1>3. {s \in S : s.family # "transfer"} \subseteq {s \in T : s.family # "transfer"}
    OBVIOUS
<1>4. QED
    BY <1>1, <1>2, <1>3 DEF Owned

LEMMA OwnedSame ==
    ASSUME NEW r, NEW S, NEW T, SameAt(r.block, S, T)
    PROVE  /\ InExtrinsicOf(r, S) <=> InExtrinsicOf(r, T)
           /\ Owned(r, S) <=> Owned(r, T)
<1>1. \A U, V : SameAt(r.block, U, V) => (InExtrinsicOf(r, U) <=> InExtrinsicOf(r, V))
    BY ExtrinsicIs DEF SameAt
<1>2. \A U, V : SameAt(r.block, U, V) => (NamedByHook(r, U) <=> NamedByHook(r, V))
    BY DEF NamedByHook, Signed, SameAt
<1>3. SameAt(r.block, {s \in S : s.family # "transfer"}, {s \in T : s.family # "transfer"})
    BY DEF SameAt
<1>4. QED
    BY <1>1, <1>2, <1>3 DEF Owned

\* Reads that have the same rows of a block show the same of it.
LEMMA BuildSame ==
    ASSUME NEW b, NEW c, NEW got, NEW all, \A f \in Families : SameAt(b, got[f], all[f])
    PROVE  SameAt(b, Build(got, c), Build(all, c))
<1>1. /\ SameAt(b, got["transfer"], all["transfer"]) /\ SameAt(b, got["trade"], all["trade"])
      /\ SameAt(b, got["liquidity"], all["liquidity"]) /\ SameAt(b, got["xcm"], all["xcm"])
    BY DEF Families
<1>2. SameAt(b, UserTransfers(got, c), UserTransfers(all, c))
    <2>1. SameAt(b, UnownedTransfers(got["transfer"], c), UnownedTransfers(all["transfer"], c))
        BY <1>1 DEF UnownedTransfers, SameAt
    <2>2. \A r : r.block = b => (InExtrinsicOf(r, got["trade"]) <=> InExtrinsicOf(r, all["trade"]))
        BY <1>1, OwnedSame
    <2>3. QED
        BY <1>1, <2>1, <2>2 DEF UserTransfers, SameAt
<1>3. SameAt(b, ShareLiquidity(got["trade"], c), ShareLiquidity(all["trade"], c))
    <2>1. SameAt(b, {t \in got["trade"] : t.share}, {t \in all["trade"] : t.share})
        BY <1>1 DEF SameAt
    <2>2. \A r : r.block = b => (InExtrinsicOf(r, {t \in got["trade"] : t.share})
                                 <=> InExtrinsicOf(r, {t \in all["trade"] : t.share}))
        BY <2>1, OwnedSame
    <2>3. QED
        BY <2>2 DEF ShareLiquidity, SameAt
<1>4. SameAt(b, UserTrades(got, c), UserTrades(all, c))
    <2> DEFINE lg == IF req.type = "all" /\ ~exact THEN got["liquidity"]
                     ELSE got["liquidity"] \cup ShareLiquidity(got["trade"], c)
               la == IF req.type = "all" /\ ~exact THEN all["liquidity"]
                     ELSE all["liquidity"] \cup ShareLiquidity(all["trade"], c)
    <2>1. SameAt(b, lg, la)
        BY <1>1, <1>3 DEF SameAt
    <2>2. \A r : r.block = b => (InExtrinsicOf(r, lg) <=> InExtrinsicOf(r, la))
        <3> HIDE DEF lg, la
        <3> QED
            BY <2>1, OwnedSame
    <2>3. /\ UserTrades(got, c) = {t \in got["trade"] : ~(t.share /\ InExtrinsicOf(t, lg))}
          /\ UserTrades(all, c) = {t \in all["trade"] : ~(t.share /\ InExtrinsicOf(t, la))}
        BY DEF UserTrades
    <2>4. QED
        <3> HIDE DEF lg, la
        <3> QED
            BY <1>1, <2>2, <2>3 DEF SameAt
<1> DEFINE mg == UserTransfers(got, c) \cup UserTrades(got, c) \cup got["liquidity"] \cup got["xcm"]
           ma == UserTransfers(all, c) \cup UserTrades(all, c) \cup all["liquidity"] \cup all["xcm"]
<1>5. SameAt(b, mg, ma)
    BY <1>1, <1>2, <1>4 DEF SameAt
<1>6. SameAt(b, Unowned(mg), Unowned(ma))
    <2> HIDE DEF mg, ma
    <2>1. SameAt(b, {s \in mg : s.executed}, {s \in ma : s.executed})
        BY <1>5 DEF SameAt
    <2>2. \A r : r.block = b => /\ Owned(r, mg) <=> Owned(r, ma)
                                /\ InExtrinsicOf(r, {s \in mg : s.executed})
                                   <=> InExtrinsicOf(r, {s \in ma : s.executed})
        BY <1>5, <2>1, OwnedSame
    <2>3. QED
        BY <1>5, <2>2 DEF Unowned, SameAt
<1>7. /\ Build(got, c) = {r \in Unowned(mg) : /\ req.type # "all" => r.family = req.type
                                              /\ req.floor # "none" => r.big}
      /\ Build(all, c) = {r \in Unowned(ma) : /\ req.type # "all" => r.family = req.type
                                              /\ req.floor # "none" => r.big}
    BY DEF Build
<1>8. QED
    <2> HIDE DEF mg, ma
    <2> QED
        BY <1>6, <1>7 DEF SameAt

\* Reads that have the large rows of a block show the same large rows of it, but for a swap
\* that paid for a small send: what decides on a row is then looked up in the tables.
LEMMA BuildLarge ==
    ASSUME WindowTypeOK, exact, NEW all \in [Families -> SUBSET chain], NEW got \in [Families -> SUBSET chain],
           \A f \in Families : \A s \in all[f] : s.family = f,
           \A f \in Families : got[f] \subseteq all[f],
           NEW r \in chain, r.big, ~Unfolded(r), req.type # "transfer",
           \A f \in Families : \A s \in all[f] : s.block = r.block /\ s.big => s \in got[f]
    PROVE  r \in Build(got, chain) <=> r \in Build(all, chain)
<1>1. /\ "transfer" \in Families /\ "trade" \in Families /\ "liquidity" \in Families /\ "xcm" \in Families
      /\ \A s \in chain : s \in Candidates \cup Arrivals /\ s \in RowType
    BY WindowAssumption DEF WindowTypeOK, Families
<1> DEFINE merged(g) == UserTransfers(g, chain) \cup UserTrades(g, chain) \cup g["liquidity"] \cup g["xcm"]
           shown(g) == \/ r \in g["transfer"] /\ ~Owned(r, chain)
                       \/ /\ r \in g["trade"]
                          /\ ~(r.share /\ InExtrinsicOf(r, OfFamily(chain, "liquidity")))
                          /\ ~InExtrinsicOf(r, {s \in g["xcm"] : s.executed})
                       \/ r \in g["liquidity"] \/ r \in g["xcm"]
<1>2. ASSUME NEW g \in [Families -> SUBSET chain], \A f \in Families : \A s \in g[f] : s.family = f
      PROVE  r \in Unowned(merged(g)) <=> shown(g)
    <2>1. /\ \A s \in g["transfer"] : s.family = "transfer" /\ s \in chain
          /\ \A s \in g["trade"] : s.family = "trade" /\ s \in chain
          /\ \A s \in g["liquidity"] : s.family = "liquidity" /\ s \in chain
          /\ \A s \in g["xcm"] : s.family = "xcm" /\ s \in chain
        BY <1>1, <1>2
    <2>2. /\ UserTransfers(g, chain) \subseteq g["transfer"]
          /\ r \in UserTransfers(g, chain)
                <=> r \in g["transfer"] /\ ~Owned(r, chain) /\ ~InExtrinsicOf(r, g["trade"])
        BY DEF UserTransfers, UnownedTransfers, Plain
    <2>3. r \in g["transfer"] /\ InExtrinsicOf(r, g["trade"]) => Owned(r, chain)
        <3>1. g["trade"] \subseteq {s \in chain : s.family # "transfer"}
            BY <2>1
        <3>2. InExtrinsicOf(r, g["trade"]) => InExtrinsicOf(r, {s \in chain : s.family # "transfer"})
            BY <3>1, OwnedGrows
        <3>3. InExtrinsicOf(r, g["trade"]) => r.ext # Hook
            BY ExtrinsicIs
        <3>4. QED
            BY <3>2, <3>3 DEF Owned
    <2>4. r \in UserTransfers(g, chain) <=> r \in g["transfer"] /\ ~Owned(r, chain)
        BY <2>2, <2>3
    <2> DEFINE liquidity == g["liquidity"] \cup ShareLiquidity(g["trade"], chain)
    <2>5. r \in g["trade"] /\ r.share =>
            (InExtrinsicOf(r, liquidity) <=> InExtrinsicOf(r, OfFamily(chain, "liquidity")))
        <3>1. ASSUME r \in g["trade"], r.share
              PROVE  InExtrinsicOf(r, liquidity) <=> InExtrinsicOf(r, OfFamily(chain, "liquidity"))
            <4>1. liquidity \subseteq OfFamily(chain, "liquidity")
                BY <2>1 DEF ShareLiquidity, OfFamily
            <4>2. InExtrinsicOf(r, liquidity) => InExtrinsicOf(r, OfFamily(chain, "liquidity"))
                BY <4>1, OwnedGrows
            <4>3. ASSUME InExtrinsicOf(r, OfFamily(chain, "liquidity"))
                  PROVE  InExtrinsicOf(r, liquidity)
                <5>1. PICK s \in OfFamily(chain, "liquidity") :
                         s.ext # Hook /\ s.block = r.block /\ s.ext = r.ext
                    BY <4>3, ExtrinsicIs
                <5>2. InExtrinsicOf(s, {t \in g["trade"] : t.share})
                    BY <3>1, <5>1, ExtrinsicIs
                <5>3. s \in liquidity
                    BY <5>1, <5>2 DEF ShareLiquidity
                <5>4. r.ext # Hook
                    BY <5>1
                <5>5. QED
                    <6> HIDE DEF liquidity
                    <6> QED
                        BY <5>1, <5>3, <5>4, ExtrinsicIs
            <4>4. QED
                BY <4>2, <4>3
        <3>2. QED
            BY <3>1
    <2>6. /\ UserTrades(g, chain) \subseteq g["trade"]
          /\ r \in UserTrades(g, chain)
                <=> r \in g["trade"] /\ ~(r.share /\ InExtrinsicOf(r, OfFamily(chain, "liquidity")))
        <3>1. UserTrades(g, chain) = {t \in g["trade"] : ~(t.share /\ InExtrinsicOf(t, liquidity))}
            BY DEF UserTrades
        <3>2. QED
            <4> HIDE DEF liquidity
            <4> QED
                BY <2>5, <3>1
    <2>7. merged(g) \subseteq chain
        BY <2>1, <2>2, <2>6
    <2>8. {s \in merged(g) : s.executed} = {s \in g["xcm"] : s.executed}
        <3>1. \A s \in chain : s.executed => s.family = "xcm"
            BY <1>1, WindowAssumption
        <3>2. \A s \in UserTransfers(g, chain) \cup UserTrades(g, chain) \cup g["liquidity"] : ~s.executed
            BY <2>1, <2>2, <2>6, <3>1
        <3>3. QED
            BY <3>2
    <2>9. Owned(r, merged(g)) => Owned(r, chain)
        BY <2>7, OwnedGrows
    <2>10. r \in Unowned(merged(g)) <=>
              /\ r \in merged(g)
              /\ r.family = "transfer" => ~Owned(r, merged(g))
              /\ r.family = "trade" => ~InExtrinsicOf(r, {s \in g["xcm"] : s.executed})
        BY <2>8 DEF Unowned
    <2>11. CASE r.family = "transfer"
        BY <2>1, <2>2, <2>4, <2>6, <2>9, <2>10, <2>11
    <2>12. CASE r.family = "trade"
        BY <2>1, <2>2, <2>6, <2>10, <2>12
    <2>13. CASE r.family \notin {"transfer", "trade"}
        BY <2>1, <2>2, <2>6, <2>10, <2>13
    <2>14. QED
        BY <2>11, <2>12, <2>13
<1>3. /\ \A f \in Families : \A s \in got[f] : s.family = f
      /\ \A f \in Families : r \in got[f] <=> r \in all[f]
    BY <1>1
<1>4. r \in all["trade"] => (InExtrinsicOf(r, {s \in got["xcm"] : s.executed})
                              <=> InExtrinsicOf(r, {s \in all["xcm"] : s.executed}))
    <2> SUFFICES ASSUME r \in all["trade"]
                 PROVE  InExtrinsicOf(r, {s \in got["xcm"] : s.executed})
                           <=> InExtrinsicOf(r, {s \in all["xcm"] : s.executed})
        OBVIOUS
    <2>1. r.family = "trade"
        BY <1>1
    <2>2. ~InExtrinsicOf(r, {s \in chain : s.executed /\ ~s.big})
        BY <2>1 DEF Unfolded
    <2>3. {s \in got["xcm"] : s.executed} \subseteq {s \in all["xcm"] : s.executed}
        BY <1>1
    <2>4. ASSUME InExtrinsicOf(r, {s \in all["xcm"] : s.executed})
          PROVE  InExtrinsicOf(r, {s \in got["xcm"] : s.executed})
        <3>1. PICK s \in all["xcm"] : s.executed /\ s.ext # Hook /\ s.block = r.block /\ s.ext = r.ext /\ r.ext # Hook
            BY <2>4, ExtrinsicIs
        <3>2. s \in chain
            BY <1>1, <3>1
        <3>3. s.big
            BY <2>2, <3>1, <3>2, ExtrinsicIs
        <3>4. s \in got["xcm"]
            BY <1>1, <3>1, <3>3
        <3>5. QED
            BY <3>1, <3>4, ExtrinsicIs
    <2>5. QED
        BY <2>3, <2>4, OwnedGrows
<1>5. shown(got) <=> shown(all)
    BY <1>1, <1>3, <1>4
<1>6. r \in Unowned(merged(got)) <=> r \in Unowned(merged(all))
    <2>1. r \in Unowned(merged(got)) <=> shown(got)
        BY <1>2, <1>3
    <2>2. r \in Unowned(merged(all)) <=> shown(all)
        BY <1>2
    <2> HIDE DEF merged, shown
    <2>3. QED
        BY <1>5, <2>1, <2>2
<1>7. \A g : r \in Build(g, chain) <=> /\ r \in Unowned(merged(g))
                                       /\ req.type # "all" => r.family = req.type
                                       /\ req.floor # "none" => r.big
    BY DEF Build
<1>8. QED
    <2> HIDE DEF merged, shown
    <2> QED
        BY <1>6, <1>7

----------------------------------------------------------------------------
(* The feed window: what the reads of a round are. *)

\* What a source had to read from when it was read.
ReadFrom(f, c, day) ==
    {r \in OfFamily(c, f) : (exact => r.big) /\ (day # NoFloor => Day(r) >= day)}

\* A source was read over all the rows that were known, and perhaps some that came in.
ReadBack(f) ==
    \E c \in SUBSET chain : known \subseteq c /\ raw[f] = Newest(limit[f], ReadFrom(f, c, back[f]))

WindowInv ==
    /\ WindowTypeOK
    /\ depth \in {req.want, WindowDepth(req.want)}
    /\ exact => req.floor # "none" /\ req.type # "transfer"
    /\ kept \subseteq Sources(req.type) /\ (kept # {} => exact)
    /\ since \in Int /\ back \in [Families -> Int]
    /\ \A f \in Families : raw[f] \subseteq OfFamily(chain, f)
    /\ \A f \in Families \ Sources(req.type) : raw[f] = {}
    /\ \A f \in Sources(req.type) : pc \in {"decide", "served"} \/ f \in kept => ReadBack(f)
    /\ pc = "served" => Short = {} /\ window = Prefix

LEMMA WindowFacts ==
    ASSUME WindowInv
    PROVE  /\ chain \in SUBSET RowType /\ IsFiniteSet(chain)
           /\ chain \subseteq Candidates \cup Arrivals
           /\ depth \in Nat /\ depth >= 1 /\ limit \in [Families -> Nat]
           /\ Sources(req.type) \subseteq Families
           /\ \A r \in RowType : r.block \in Nat /\ r.event \in Nat /\ Day(r) \in Nat
<1>1. chain \subseteq Candidates \cup Arrivals /\ Candidates \cup Arrivals \subseteq RowType
    BY WindowAssumption DEF WindowInv, WindowTypeOK
<1>2. IsFiniteSet(Candidates \cup Arrivals)
    BY WindowAssumption, FS_Union
<1>3. IsFiniteSet(chain)
    BY <1>1, <1>2, FS_Subset
<1>4. depth \in Nat /\ depth >= 1 /\ limit \in [Families -> Nat]
    BY DEF WindowInv, WindowTypeOK
<1>5. Sources(req.type) \subseteq Families
    BY WindowAssumption DEF WindowInv, WindowTypeOK, Sources, Families
<1>6. \A r \in RowType : r.block \in Nat /\ r.event \in Nat
    BY DEF RowType
<1>7. \A n \in Nat : n \div DAY \in Nat
    BY WindowAssumption
<1>8. QED
    BY <1>1, <1>3, <1>4, <1>5, <1>6, <1>7 DEF Day

\* What a round may show is of the chain, and its last row is the cutoff.
LEMMA PrefixFacts ==
    ASSUME WindowInv
    PROVE  /\ Visible \subseteq chain /\ Visible \in SUBSET RowType /\ IsFiniteSet(Visible)
           /\ Prefix \subseteq Visible
           /\ ~Full => Prefix = Visible /\ Cardinality(Prefix) < depth
           /\ Full => /\ ~(Cardinality(Prefix) < depth)
                      /\ Cutoff \in Prefix /\ \A s \in Prefix : ~Newer(Cutoff, s)
           /\ CutoffDay \in Int
<1>1. Visible \subseteq chain
    <2>1. \A f \in Families : raw[f] \subseteq chain
        BY DEF WindowInv, OfFamily
    <2>2. raw["transfer"] \subseteq chain /\ raw["trade"] \subseteq chain
          /\ raw["liquidity"] \subseteq chain /\ raw["xcm"] \subseteq chain
        BY <2>1 DEF Families
    <2>3. UserTransfers(raw, chain) \subseteq raw["transfer"] /\ UserTrades(raw, chain) \subseteq raw["trade"]
        BY DEF UserTransfers, UserTrades, UnownedTransfers
    <2>4. QED
        BY <2>2, <2>3 DEF Visible, Build, Unowned
<1>2. Visible \in SUBSET RowType /\ IsFiniteSet(Visible)
    BY <1>1, WindowFacts, FS_Subset
<1>3. depth \in Nat /\ depth >= 1
    BY WindowFacts
<1>4. /\ Prefix \subseteq Visible /\ IsFiniteSet(Prefix) /\ Cardinality(Prefix) \in Nat
      /\ Cardinality(Prefix) < depth => Prefix = Visible
    BY <1>2, <1>3, NewestFacts DEF Prefix
<1>5. Cardinality(Visible) \in Nat /\ Cardinality(Prefix) <= Cardinality(Visible)
    BY <1>2, <1>4, FS_Subset, FS_CardinalityType
<1>6. ASSUME ~Full PROVE Prefix = Visible /\ Cardinality(Prefix) < depth
    BY <1>3, <1>4, <1>5, <1>6 DEF Full
<1>7. ASSUME Full
      PROVE  /\ ~(Cardinality(Prefix) < depth)
             /\ Cutoff \in Prefix /\ \A s \in Prefix : ~Newer(Cutoff, s)
    <2>1. ~(Cardinality(Prefix) < depth)
        BY <1>3, <1>4, <1>5, <1>7 DEF Full
    <2>2. Prefix # {}
        BY <1>3, <2>1, FS_EmptySet
    <2>3. \E r \in Prefix : \A s \in Prefix : ~Newer(r, s)
        BY <1>2, <1>4, <2>2, EndRows
    <2>4. QED
        BY <2>1, <2>3 DEF Cutoff
<1>8. CutoffDay \in Int
    <2>1. Full => Day(Cutoff) \in Nat
        BY <1>2, <1>4, <1>7, WindowFacts
    <2>2. QED
        BY <2>1 DEF CutoffDay, NoFloor
<1>9. QED
    BY <1>1, <1>2, <1>4, <1>6, <1>7, <1>8

\* Down to the block of the last row, a window that is served has read all of each block.
LEMMA BlocksRead ==
    ASSUME WindowInv, pc = "served", ~CutShort, NEW r \in known, Proved(r),
           NEW f \in Sources(req.type), NEW s \in chain, s.family = f, s.block = r.block, exact => s.big
    PROVE  s \in raw[f]
<1>1. /\ r \in RowType /\ s \in RowType /\ s \in known /\ f \in Families
      /\ s.block \in Nat /\ s.event \in Nat /\ Day(s) \in Nat /\ limit[f] \in Nat
    <2>1. r \in Candidates /\ s \in known \cup Arrivals /\ chain \subseteq RowType /\ r \in chain
        BY WindowFacts DEF WindowInv, WindowTypeOK
    <2>2. s \in Arrivals => r.block < s.block
        BY <2>1, WindowAssumption
    <2>3. r.block \in Nat /\ s.block \in Nat
        BY <2>1, WindowFacts
    <2>4. s \notin Arrivals
        BY <2>2, <2>3
    <2>5. QED
        BY <2>1, <2>4, WindowFacts
<1>2. PICK c \in SUBSET chain : known \subseteq c /\ raw[f] = Newest(limit[f], ReadFrom(f, c, back[f]))
    BY DEF WindowInv, ReadBack
<1> DEFINE all == ReadFrom(f, c, back[f])
<1>3. all \in SUBSET RowType /\ IsFiniteSet(all)
    <2>1. all \subseteq chain
        BY DEF ReadFrom, OfFamily
    <2>2. QED
        BY <2>1, WindowFacts, FS_Subset
<1>4. /\ Cardinality(raw[f]) < limit[f] => raw[f] = all
      /\ \A x \in raw[f], t \in all : Newer(t, x) => t \in raw[f]
      /\ raw[f] \subseteq RowType
    <2> HIDE DEF all
    <2>1. raw[f] = Newest(limit[f], all)
        BY <1>2 DEF all
    <2>2. QED
        BY <1>1, <1>3, <2>1, NewestFacts
<1>5. Covers(f) /\ window = Prefix
    BY DEF WindowInv, Short
<1>6. back[f] \in Int /\ CutoffDay \in Int /\ back[f] <= CutoffDay
    <2>1. back[f] \in Int /\ CutoffDay \in Int
        BY <1>1, PrefixFacts DEF WindowInv
    <2>2. ~(back[f] > CutoffDay)
        BY DEF CutShort
    <2>3. QED
        BY <2>1, <2>2
<1>7. CutoffDay <= Day(s) => s \in all
    BY <1>1, <1>2, <1>6 DEF ReadFrom, OfFamily
<1>8. CASE ~Full
    <2>1. raw[f] = all
        BY <1>4, <1>5, <1>8 DEF Covers
    <2>2. CutoffDay <= Day(s)
        BY <1>1, <1>8 DEF CutoffDay, NoFloor
    <2>3. QED
        BY <1>7, <2>1, <2>2
<1>9. CASE Full
    <2>1. Cutoff \in RowType /\ Cutoff.block \in Nat /\ Cutoff.event \in Nat
        BY <1>9, PrefixFacts, WindowFacts
    <2>2. PICK w \in Prefix : r.block > w.block
        BY <1>5, <1>9, PrefixFacts DEF Proved
    <2>3. w \in RowType /\ w.block \in Nat /\ w.event \in Nat /\ ~Newer(Cutoff, w)
        BY <1>9, <2>2, PrefixFacts, WindowFacts
    <2>4. Cutoff.block < s.block
        BY <1>1, <2>1, <2>2, <2>3 DEF Newer
    <2>5. CutoffDay <= Day(s)
        <3>1. \A m, n \in Nat : m <= n => m \div DAY <= n \div DAY
            BY WindowAssumption
        <3>2. QED
            BY <1>1, <1>9, <2>1, <2>4, <3>1 DEF CutoffDay, Day
    <2>6. s \in all
        BY <1>7, <2>5
    <2>7. CASE Cardinality(raw[f]) < limit[f]
        BY <1>4, <2>6, <2>7
    <2>8. CASE \E x \in raw[f] : ~Newer(x, Cutoff)
        <3>1. PICK x \in raw[f] : ~Newer(x, Cutoff)
            BY <2>8
        <3>2. x \in RowType /\ x.block \in Nat /\ x.event \in Nat
            BY <1>4, <3>1, WindowFacts
        <3>3. Newer(s, x)
            BY <1>1, <2>1, <2>4, <3>1, <3>2 DEF Newer
        <3>4. QED
            BY <1>4, <2>6, <3>3
    <2>9. QED
        BY <1>5, <2>7, <2>8 DEF Covers
<1>10. QED
    BY <1>8, <1>9

LEMMA ServedExact == WindowInv => WindowExact
<1> SUFFICES ASSUME WindowInv, pc = "served", ~CutShort, NEW r \in known, Proved(r), ~Unfolded(r)
             PROVE  r \in window <=> r \in Feed
    BY DEF WindowExact
<1>1. r \in chain /\ r \in RowType /\ window = Prefix /\ depth \in Nat /\ WindowTypeOK
    BY WindowFacts DEF WindowInv, WindowTypeOK
<1>2. r \in window <=> r \in Visible
    <2>1. CASE Full
        <3>1. PICK w \in Prefix : r.block > w.block
            BY <1>1, <2>1, PrefixFacts DEF Proved
        <3>2. w \in RowType /\ w.block \in Nat /\ r.block \in Nat
            BY <1>1, <3>1, PrefixFacts, WindowFacts
        <3>3. Newer(r, w)
            BY <3>1, <3>2 DEF Newer
        <3>4. r \in Visible => r \in Prefix
            BY <1>1, <3>1, <3>3, NewestFacts, PrefixFacts DEF Prefix
        <3>5. QED
            BY <1>1, <3>4, PrefixFacts
    <2>2. CASE ~Full
        BY <1>1, <2>2, PrefixFacts
    <2>3. QED
        BY <2>1, <2>2
<1> DEFINE all == [f \in Families |-> IF f \in Sources(req.type) THEN OfFamily(chain, f) ELSE {}]
<1>3. /\ all \in [Families -> SUBSET chain] /\ raw \in [Families -> SUBSET chain]
      /\ \A f \in Families : raw[f] \subseteq all[f] /\ \A s \in all[f] : s.family = f
    BY DEF WindowInv, WindowTypeOK, OfFamily
<1>4. \A f \in Families : \A s \in all[f] : s.block = r.block /\ (exact => s.big) => s \in raw[f]
    BY BlocksRead DEF OfFamily
<1>5. Visible = Build(raw, chain) /\ Feed = Build(all, chain)
    BY DEF Visible, Feed
<1>6. CASE ~exact
    <2>1. \A f \in Families : SameAt(r.block, raw[f], all[f])
        BY <1>3, <1>4, <1>6 DEF SameAt
    <2> HIDE DEF all
    <2>2. SameAt(r.block, Visible, Feed)
        BY <1>5, <2>1, BuildSame
    <2>3. QED
        BY <1>2, <2>2 DEF SameAt
<1>7. CASE exact /\ ~r.big
    <2>1. req.floor # "none"
        BY <1>7 DEF WindowInv
    <2>2. r \notin Build(raw, chain) /\ r \notin Build(all, chain)
        BY <1>7, <2>1 DEF Build
    <2>3. QED
        BY <1>2, <1>5, <2>2
<1>8. CASE exact /\ r.big
    <2>1. req.type # "transfer"
        BY <1>8 DEF WindowInv
    <2>2. \A f \in Families : \A s \in all[f] : s.block = r.block /\ s.big => s \in raw[f]
        BY <1>4
    <2> HIDE DEF all
    <2>3. QED
        BY <1>1, <1>2, <1>3, <1>5, <1>8, <2>1, <2>2, BuildLarge
<1>9. QED
    BY <1>6, <1>7, <1>8

----------------------------------------------------------------------------
(* The feed window: the steps. *)

LEMMA LimitTypes ==
    /\ \A n \in Nat : FetchSize(n) \in Nat /\ Widened(n) \in Nat
    /\ \A q \in Requests : \A d \in {q.want, WindowDepth(q.want)} :
           /\ d \in Nat \ {0} /\ d >= q.want
           /\ SeedSize(d) \in Nat
<1>1. PROBE \in Nat /\ WIDEN \in Nat /\ CEILING \in Nat
    BY WindowAssumption
<1>2. \A q \in Requests : q.want \in Nat \ {0}
    BY WindowAssumption
<1>3. \A n \in Nat : FetchSize(n) \in Nat /\ Widened(n) \in Nat
    BY <1>1 DEF FetchSize, Widened, Least
<1>4. QED
    BY <1>2, <1>3, DepthAssumption

LEMMA WindowStart == WindowInit => WindowInv
<1> SUFFICES ASSUME WindowInit PROVE WindowInv
    OBVIOUS
<1>1. /\ chain \in SUBSET Candidates /\ known = chain /\ req \in Requests
      /\ depth = WindowDepth(req.want) /\ exact = Filtered
      /\ limit = [f \in Families |-> IF exact THEN SeedSize(depth) ELSE FetchSize(depth)]
      /\ kept = {} /\ since = NoFloor /\ back = [f \in Families |-> NoFloor]
      /\ raw = [f \in Families |-> {}] /\ pc = "load" /\ window = {}
    BY DEF WindowInit
<1>2. /\ depth \in Nat \ {0} /\ depth >= req.want /\ limit \in [Families -> Nat]
    BY <1>1, LimitTypes
<1>3. exact \in BOOLEAN /\ (exact => req.floor # "none" /\ req.type # "transfer")
    BY <1>1 DEF Filtered, Plain
<1>4. WindowTypeOK
    BY <1>1, <1>2, <1>3 DEF WindowTypeOK
<1>5. NoFloor \in Int
    BY DEF NoFloor
<1>6. QED
    BY <1>1, <1>3, <1>4, <1>5 DEF WindowInv

\* A step after which every source is read again, or is kept as it was read.
LEMMA ReadsChange ==
    ASSUME WindowInv, pc' = "load", UNCHANGED <<chain, known, req, back, raw, window>>,
           depth' \in {req.want, WindowDepth(req.want)},
           exact' \in BOOLEAN, exact' => req.floor # "none" /\ req.type # "transfer",
           limit' \in [Families -> Nat], since' \in Int,
           kept' \subseteq Sources(req.type), kept' # {} => exact' /\ exact,
           \A f \in kept' : ReadBack(f) /\ limit'[f] = limit[f]
    PROVE  WindowInv'
<1>1. req \in Requests /\ depth' \in Nat \ {0} /\ depth' >= req.want
    BY LimitTypes DEF WindowInv, WindowTypeOK
<1>2. WindowTypeOK'
    <2>1. kept' \subseteq Families
        BY WindowFacts
    <2>2. QED
        BY <1>1, <2>1 DEF WindowInv, WindowTypeOK
<1>3. ASSUME NEW f \in kept' PROVE ReadBack(f)'
    <2>1. exact' = exact
        BY <1>3 DEF WindowInv, WindowTypeOK
    <2>2. PICK c \in SUBSET chain : known \subseteq c /\ raw[f] = Newest(limit[f], ReadFrom(f, c, back[f]))
        BY <1>3 DEF ReadBack
    <2>3. ReadFrom(f, c, back[f]) = {r \in OfFamily(c, f) : (exact' => r.big) /\ (back'[f] # NoFloor => Day(r) >= back'[f])}
        BY <2>1 DEF ReadFrom
    <2>4. QED
        BY <2>2, <2>3 DEF ReadBack, ReadFrom
<1>4. QED
    BY <1>2, <1>3 DEF WindowInv

LEMMA LoadKeeps == WindowInv /\ Load => WindowInv'
<1> SUFFICES ASSUME WindowInv, Load PROVE WindowInv'
    OBVIOUS
<1>1. PICK c \in {chain, chain \cup Arrivals}, behind \in SUBSET Sources(req.type) :
        /\ chain' = c
        /\ raw' = [f \in Families |->
                    IF f \notin Sources(req.type) THEN {}
                    ELSE Read(f, IF f \in behind THEN c ELSE chain)]
    BY DEF Load
<1>2. /\ pc = "load" /\ pc' = "decide" /\ UNCHANGED <<known, req, depth, exact, limit, kept, since, window>>
      /\ back' = [f \in Families |-> IF f \in kept THEN back[f] ELSE since]
    BY DEF Load, reads
<1>3. chain \subseteq chain' /\ known \subseteq chain /\ chain' \subseteq known \cup Arrivals
      /\ chain' \subseteq Candidates \cup Arrivals
    BY <1>1 DEF WindowInv, WindowTypeOK
<1>4. back' \in [Families -> Int]
    BY <1>2 DEF WindowInv
<1>5. ASSUME NEW f \in Sources(req.type)
      PROVE  /\ raw'[f] \subseteq OfFamily(chain', f)
             /\ ReadBack(f)'
    <2>1. f \in Families
        BY WindowFacts
    <2>2. CASE f \in kept
        <3>1. raw'[f] = raw[f] /\ back'[f] = back[f]
            BY <1>1, <1>2, <2>1, <2>2 DEF Read
        <3>2. PICK d \in SUBSET chain : known \subseteq d /\ raw[f] = Newest(limit[f], ReadFrom(f, d, back[f]))
            BY <2>2 DEF WindowInv, ReadBack
        <3>3. raw[f] \subseteq OfFamily(chain, f)
            BY <2>1 DEF WindowInv
        <3>4. d \in SUBSET chain' /\ known' \subseteq d /\ raw'[f] = Newest(limit'[f], ReadFrom(f, d, back[f]))
            BY <1>2, <1>3, <3>1, <3>2
        <3>5. ReadFrom(f, d, back[f])
                = {r \in OfFamily(d, f) : (exact' => r.big) /\ (back'[f] # NoFloor => Day(r) >= back'[f])}
            BY <1>2, <3>1 DEF ReadFrom
        <3>6. ReadBack(f)'
            BY <3>4, <3>5 DEF ReadBack, ReadFrom
        <3>7. QED
            BY <1>3, <3>1, <3>3, <3>6 DEF OfFamily
    <2>3. CASE f \notin kept
        <3> DEFINE d == IF f \in behind THEN c ELSE chain
        <3>1. d \in SUBSET chain' /\ known \subseteq d
            BY <1>1, <1>3
        <3>2. raw'[f] = Newest(limit[f], Readable(f, d)) /\ back'[f] = since
            BY <1>1, <1>2, <2>1, <2>3 DEF Read
        <3> HIDE DEF d
        <3>3. Readable(f, d)
                = {r \in OfFamily(d, f) : (exact' => r.big) /\ (back'[f] # NoFloor => Day(r) >= back'[f])}
            BY <1>2, <3>2 DEF Readable
        <3>4. raw'[f] \subseteq OfFamily(d, f)
            BY <3>2 DEF Newest, Readable
        <3>5. ReadBack(f)'
            BY <1>2, <3>1, <3>2, <3>3 DEF ReadBack, ReadFrom
        <3>6. QED
            BY <3>1, <3>4, <3>5 DEF OfFamily
    <2>4. QED
        BY <2>2, <2>3
<1>6. \A f \in Families \ Sources(req.type) : raw'[f] = {}
    BY <1>1
<1>7. \A f \in Families : raw'[f] \subseteq OfFamily(chain', f)
    BY <1>5, <1>6
<1>8. raw' \in [Families -> SUBSET (Candidates \cup Arrivals)]
    <2>1. \A f \in Families : raw'[f] \in SUBSET (Candidates \cup Arrivals)
        BY <1>3, <1>7 DEF OfFamily
    <2>2. raw' = [f \in Families |-> raw'[f]]
        BY <1>1
    <2>3. QED
        BY <2>1, <2>2
<1>9. WindowTypeOK'
    BY <1>2, <1>3, <1>8 DEF WindowInv, WindowTypeOK
<1>10. QED
    BY <1>2, <1>4, <1>5, <1>6, <1>7, <1>9 DEF WindowInv

LEMMA ServeKeeps == WindowInv /\ Serve => WindowInv'
<1> SUFFICES ASSUME WindowInv, Serve PROVE WindowInv'
    OBVIOUS
<1>1. /\ pc = "decide" /\ Short = {} /\ window' = Prefix /\ pc' = "served"
      /\ UNCHANGED <<chain, known, req, depth, exact, limit, kept, since, back, raw>>
    BY DEF Serve, reads
<1>2. WindowTypeOK'
    <2>1. Prefix \subseteq chain
        BY PrefixFacts
    <2>2. QED
        BY <1>1, <2>1 DEF WindowInv, WindowTypeOK
<1>3. Visible' = Visible
    BY <1>1 DEF Visible, Build, UserTransfers, UserTrades
<1>4. Prefix' = Prefix
    BY <1>1, <1>3 DEF Prefix
<1>5. Short' = Short
    BY <1>1, <1>3, <1>4 DEF Short, Covers, Full, Cutoff
<1>6. \A f \in Sources(req.type) : ReadBack(f) => ReadBack(f)'
    BY <1>1 DEF ReadBack, ReadFrom
<1>7. QED
    BY <1>1, <1>2, <1>4, <1>5, <1>6 DEF WindowInv

LEMMA WindowStep == WindowInv /\ [WindowNext]_windowVars => WindowInv'
<1> SUFFICES ASSUME WindowInv, [WindowNext]_windowVars PROVE WindowInv'
    OBVIOUS
<1>a. /\ req \in Requests /\ depth \in {req.want, WindowDepth(req.want)} /\ depth \in Nat
      /\ limit \in [Families -> Nat] /\ exact \in BOOLEAN /\ NoFloor \in Int
      /\ exact => req.floor # "none" /\ req.type # "transfer"
    BY WindowFacts DEF WindowInv, WindowTypeOK, NoFloor
<1>b. SeedSize(depth) \in Nat /\ SeedSize(req.want) \in Nat /\ FetchSize(req.want) \in Nat
      /\ \A n \in Nat : Widened(n) \in Nat
    BY <1>a, LimitTypes
<1>1. CASE Load
    BY <1>1, LoadKeeps
<1>2. CASE Serve
    BY <1>2, ServeKeeps
<1>3. CASE GoExact
    <2>1. /\ pc' = "load" /\ UNCHANGED <<chain, known, req, depth, back, raw, window>>
          /\ exact' = TRUE /\ limit' = [f \in Families |-> SeedSize(depth)]
          /\ kept' = {} /\ since' = NoFloor
          /\ req.floor # "none" /\ req.type # "transfer"
        BY <1>3 DEF GoExact, Fresh, Deferred, Plain
    <2>2. limit' \in [Families -> Nat]
        BY <1>b, <2>1
    <2>3. QED
        BY <1>a, <2>1, <2>2, ReadsChange
<1>4. CASE Widen
    <2>1. /\ pc' = "load" /\ UNCHANGED <<chain, known, req, depth, exact, kept, since, back, raw, window>>
          /\ limit' = [f \in Families |-> Widened(limit[f])] /\ ~exact
        BY <1>4 DEF Widen
    <2>2. limit' \in [Families -> Nat] /\ kept' = {} /\ since' \in Int
        BY <1>a, <1>b, <2>1 DEF WindowInv
    <2>3. QED
        BY <1>a, <2>1, <2>2, ReadsChange
<1>5. CASE Deepen
    <2>1. /\ pc = "decide" /\ pc' = "load" /\ exact
          /\ UNCHANGED <<chain, known, req, depth, exact, back, raw, window>>
          /\ limit' = [f \in Families |-> IF f \in Short THEN Widened(limit[f]) ELSE limit[f]]
          /\ kept' = Sources(req.type) \ Short /\ since' = CutoffDay
        BY <1>5 DEF Deepen
    <2>2. limit' \in [Families -> Nat]
        BY <1>a, <1>b, <2>1
    <2>3. since' \in Int
        BY <2>1, PrefixFacts
    <2>4. \A f \in kept' : ReadBack(f) /\ limit'[f] = limit[f]
        BY <2>1, WindowFacts DEF WindowInv
    <2>5. QED
        BY <1>a, <2>1, <2>2, <2>3, <2>4, ReadsChange
<1>6. CASE TooBroad
    <2>1. pc = "decide" /\ UNCHANGED <<chain, known, req, back, raw, window>>
        BY <1>6 DEF TooBroad
    <2>2. CASE pc' = "refused" /\ UNCHANGED <<depth, reads>>
        <3>1. UNCHANGED <<exact, limit, kept, since>>
            BY <2>2 DEF reads
        <3>2. WindowTypeOK'
            BY <2>1, <2>2, <3>1 DEF WindowInv, WindowTypeOK
        <3>3. \A f \in Sources(req.type) : ReadBack(f) => ReadBack(f)'
            BY <2>1, <2>2, <3>1 DEF ReadBack, ReadFrom
        <3>4. QED
            BY <2>1, <2>2, <3>1, <3>2, <3>3 DEF WindowInv
    <2>3. CASE pc' = "load" /\ depth' = req.want /\ Fresh(Filtered, req.want)
        <3>1. /\ exact' = Filtered /\ kept' = {} /\ since' = NoFloor
              /\ limit' = [f \in Families |-> IF Filtered THEN SeedSize(req.want) ELSE FetchSize(req.want)]
            BY <2>3 DEF Fresh
        <3>2. limit' \in [Families -> Nat]
            BY <1>b, <3>1
        <3>3. exact' \in BOOLEAN /\ (exact' => req.floor # "none" /\ req.type # "transfer")
            BY <3>1 DEF Filtered, Plain
        <3>4. QED
            BY <1>a, <2>1, <2>3, <3>1, <3>2, <3>3, ReadsChange
    <2>4. QED
        BY <1>6, <2>2, <2>3 DEF TooBroad
<1>7. CASE UNCHANGED windowVars
    <2>1. UNCHANGED <<chain, known, req, depth, exact, limit, kept, since, back, raw, pc, window>>
        BY <1>7 DEF windowVars, reads
    <2>2. WindowTypeOK'
        BY <2>1 DEF WindowInv, WindowTypeOK
    <2>3. \A f \in Sources(req.type) : ReadBack(f) => ReadBack(f)'
        BY <2>1 DEF ReadBack, ReadFrom
    <2>4. Visible' = Visible
        BY <2>1 DEF Visible, Build, UserTransfers, UserTrades
    <2>5. Prefix' = Prefix
        BY <2>1, <2>4 DEF Prefix
    <2>6. Short' = Short
        BY <2>1, <2>4, <2>5 DEF Short, Covers, Full, Cutoff
    <2>7. QED
        BY <2>1, <2>2, <2>3, <2>5, <2>6 DEF WindowInv
<1>8. QED
    BY <1>1, <1>2, <1>3, <1>4, <1>5, <1>6, <1>7 DEF WindowNext

\* Of the rows known when a request came, a window that is served has those of the feed
\* and no others down to the block of its last row, for any rows, depth and limits, whatever
\* was read how deep or came in on the way; but for what Unfolded and CutShort name
\* (explorerService.ts, buildActivityWindow).
THEOREM WindowsComplete == WindowSpec => []WindowSound
<1>1. WindowInit => WindowInv
    BY WindowStart
<1>2. WindowInv /\ [WindowNext]_windowVars => WindowInv'
    BY WindowStep
<1>3. WindowInv => WindowSound
    BY ServedExact DEF WindowSound, WindowInv
<1>4. QED
    BY <1>1, <1>2, <1>3, PTL DEF WindowSpec

----------------------------------------------------------------------------
(* Sums over finite sets, and the greatest of a set of naturals. *)

\* What holds of 0 and of every successor holds of every natural number.
LEMMA NaturalsFill ==
    ASSUME NEW G, 0 \in G, \A n \in Nat : n \in G => n + 1 \in G
    PROVE  Nat \subseteq G
<1> DEFINE Bad == {n \in Nat : n \notin G}
<1> SUFFICES ASSUME Bad # {} PROVE FALSE
    OBVIOUS
<1>1. PICK n \in Bad : \A m \in Bad : n <= m
    <2>1. Bad \subseteq Nat
        OBVIOUS
    <2> HIDE DEF Bad
    <2> QED
        BY <2>1, LeastExists
<1>2. n # 0 /\ n \in Nat
    OBVIOUS
<1>3. n - 1 \in Nat /\ n - 1 \in G
    BY <1>1, <1>2
<1> QED
    BY <1>2, <1>3

\* What holds of the empty set and of every set with one element more holds of a finite set.
LEMMA SubsetsFill ==
    ASSUME NEW S, IsFiniteSet(S), NEW G, {} \in G,
           \A T \in SUBSET S : \A x \in S \ T : T \in G => T \cup {x} \in G
    PROVE  S \in G
<1> DEFINE Sized == {n \in Nat : \A T \in SUBSET S : Cardinality(T) = n => T \in G}
<1>1. \A T \in SUBSET S : IsFiniteSet(T) /\ Cardinality(T) \in Nat
    BY FS_Subset, FS_CardinalityType
<1>2. 0 \in Sized
    BY <1>1, FS_EmptySet
<1>3. ASSUME NEW n \in Nat, n \in Sized PROVE n + 1 \in Sized
    <2> SUFFICES ASSUME NEW T \in SUBSET S, Cardinality(T) = n + 1 PROVE T \in G
        OBVIOUS
    <2>1. Cardinality(T) # 0 /\ T # {}
        BY <1>1, FS_EmptySet
    <2>2. PICK x \in T : TRUE
        BY <2>1
    <2>3. Cardinality(T \ {x}) = Cardinality(T) - 1
        BY <1>1, <2>2, FS_RemoveElement
    <2>5. Cardinality(T \ {x}) = n
        BY <2>3
    <2>4. T \ {x} \in G /\ T = (T \ {x}) \cup {x}
        BY <1>3, <2>5, <2>2
    <2> QED
        BY <2>4
<1> HIDE DEF Sized
<1>4. Nat \subseteq Sized
    BY <1>2, <1>3, NaturalsFill
<1> QED
    BY <1>1, <1>4 DEF Sized

----------------------------------------------------------------------------
(* Sums over finite sets. *)

SumOver(f, S) == MapThenSumSet(LAMBDA x : f[x], S)

One(s) == CHOOSE x \in s : TRUE
\* The equation of the recursive function in MapThenFoldSet.
Sums(F, f, S) == F = [s \in SUBSET S |-> IF s = {} THEN 0 ELSE f[One(s)] + F[s \ {One(s)}]]

LEMMA SumsExist ==
    ASSUME NEW S, IsFiniteSet(S), NEW f, \A x \in S : f[x] \in Int
    PROVE  \E F \in [SUBSET S -> Int] : Sums(F, f, S)
<1> DEFINE Next(F) == [s \in SUBSET S |-> IF s = {} THEN 0 ELSE f[One(s)] + F[s \ {One(s)}]]
           Upto(F, n) == \A s \in SUBSET S : Cardinality(s) <= n => F[s] = Next(F)[s]
           G == {n \in Nat : \E F \in [SUBSET S -> Int] : Upto(F, n)}
<1>1. \A s \in SUBSET S : IsFiniteSet(s) /\ Cardinality(s) \in Nat
    BY FS_Subset, FS_CardinalityType
<1>2. \A s \in SUBSET S : s # {} => One(s) \in s /\ s \ {One(s)} \in SUBSET S
                                   /\ Cardinality(s \ {One(s)}) = Cardinality(s) - 1
    <2> SUFFICES ASSUME NEW s \in SUBSET S, s # {}
                 PROVE  One(s) \in s /\ Cardinality(s \ {One(s)}) = Cardinality(s) - 1
        OBVIOUS
    <2>1. One(s) \in s
        BY DEF One
    <2> QED
        BY <2>1, <1>1, FS_RemoveElement
<1>3. ASSUME NEW F \in [SUBSET S -> Int] PROVE Next(F) \in [SUBSET S -> Int]
    <2>1. \A s \in SUBSET S : s # {} => f[One(s)] \in Int /\ F[s \ {One(s)}] \in Int
        BY <1>2
    <2>2. \A s \in SUBSET S : (IF s = {} THEN 0 ELSE f[One(s)] + F[s \ {One(s)}]) \in Int
        BY <2>1
    <2> QED
        BY <2>2
<1>4. 0 \in G
    <2> DEFINE Z == [s \in SUBSET S |-> 0]
    <2>1. ASSUME NEW s \in SUBSET S, Cardinality(s) <= 0 PROVE s = {}
        BY <2>1, <1>1, FS_EmptySet
    <2>2. Upto(Z, 0)
        BY <2>1
    <2>3. Z \in [SUBSET S -> Int] /\ 0 \in Nat
        OBVIOUS
    <2> HIDE DEF Z, Upto
    <2> QED
        BY <2>2, <2>3
<1>5. ASSUME NEW n \in Nat, n \in G PROVE n + 1 \in G
    <2>1. PICK F \in [SUBSET S -> Int] : Upto(F, n)
        BY <1>5
    <2> DEFINE H == Next(F)
    <2>2. H \in [SUBSET S -> Int]
        BY <1>3
    <2>3. ASSUME NEW s \in SUBSET S, Cardinality(s) <= n + 1 PROVE H[s] = Next(H)[s]
        <3>1. CASE s = {}
            BY <3>1
        <3>2. CASE s # {}
            <4>1. s \ {One(s)} \in SUBSET S /\ Cardinality(s \ {One(s)}) <= n
                BY <3>2, <1>2, <1>1, <2>3
            <4>2. F[s \ {One(s)}] = H[s \ {One(s)}]
                BY <4>1, <2>1
            <4> QED
                BY <4>2, <3>2
        <3> QED
            BY <3>1, <3>2
    <2> HIDE DEF H, Next
    <2>4. Upto(H, n + 1)
        BY <2>3
    <2>5. n + 1 \in Nat
        OBVIOUS
    <2> HIDE DEF Upto
    <2> QED
        BY <2>4, <2>5, <2>2
<1>6. Cardinality(S) \in G
    <2> HIDE DEF G
    <2> QED
        BY <1>4, <1>5, NaturalsFill, <1>1
<1>7. PICK F \in [SUBSET S -> Int] : Upto(F, Cardinality(S))
    BY <1>6
<1>8. \A s \in SUBSET S : Cardinality(s) <= Cardinality(S)
    BY FS_Subset
<1>9. \A s \in SUBSET S : F[s] = Next(F)[s]
    BY <1>7, <1>8
<1>10. F = Next(F)
    BY <1>9
<1> QED
    BY <1>10 DEF Sums

LEMMA SumsAgree ==
    ASSUME NEW S, NEW R, NEW f, NEW g, NEW F, NEW H, Sums(F, f, S), Sums(H, g, R),
           NEW T, IsFiniteSet(T), T \subseteq S, T \subseteq R, \A x \in T : f[x] = g[x]
    PROVE  F[T] = H[T]
<1> DEFINE G == {n \in Nat : \A U \in SUBSET T : Cardinality(U) = n => F[U] = H[U]}
<1>1. \A s \in SUBSET T : IsFiniteSet(s) /\ Cardinality(s) \in Nat
    BY FS_Subset, FS_CardinalityType
<1>2. \A s \in SUBSET T : s # {} => One(s) \in s /\ s \ {One(s)} \in SUBSET T
                                   /\ Cardinality(s \ {One(s)}) = Cardinality(s) - 1
    <2> SUFFICES ASSUME NEW s \in SUBSET T, s # {}
                 PROVE  One(s) \in s /\ Cardinality(s \ {One(s)}) = Cardinality(s) - 1
        OBVIOUS
    <2>1. One(s) \in s
        BY DEF One
    <2> QED
        BY <2>1, <1>1, FS_RemoveElement
<1>3. \A s \in SUBSET T : /\ F[s] = IF s = {} THEN 0 ELSE f[One(s)] + F[s \ {One(s)}]
                          /\ H[s] = IF s = {} THEN 0 ELSE g[One(s)] + H[s \ {One(s)}]
    BY DEF Sums
<1>4. 0 \in G
    BY <1>1, <1>3, FS_EmptySet
<1>5. ASSUME NEW n \in Nat, n \in G PROVE n + 1 \in G
    <2> SUFFICES ASSUME NEW U \in SUBSET T, Cardinality(U) = n + 1 PROVE F[U] = H[U]
        OBVIOUS
    <2>1. U # {}
        BY FS_EmptySet
    <2>2. F[U \ {One(U)}] = H[U \ {One(U)}] /\ f[One(U)] = g[One(U)]
        BY <1>5, <2>1, <1>2
    <2> QED
        BY <2>1, <2>2, <1>3
<1> HIDE DEF G
<1>6. Nat \subseteq G
    BY <1>4, <1>5, NaturalsFill
<1> QED
    BY <1>1, <1>6 DEF G

\* F has the sums over all subsets.
SumTable(F, f, S) ==
    /\ F \in [SUBSET S -> Int] /\ Sums(F, f, S)
    /\ \A T \in SUBSET S : SumOver(f, T) = F[T]

LEMMA SumsOf ==
    ASSUME NEW S, IsFiniteSet(S), NEW f, \A x \in S : f[x] \in Int
    PROVE  \E F : SumTable(F, f, S)
<1>1. PICK F \in [SUBSET S -> Int] : Sums(F, f, S)
    BY SumsExist
<1>2. ASSUME NEW T \in SUBSET S PROVE SumOver(f, T) = F[T]
    <2> DEFINE H == CHOOSE iter : iter = [s \in SUBSET T |-> IF s = {} THEN 0
                                         ELSE f[CHOOSE x \in s : TRUE] + iter[s \ {CHOOSE x \in s : TRUE}]]
    <2>1. SumOver(f, T) = H[T]
        BY DEF SumOver, MapThenSumSet, MapThenFoldSet
    <2>2. IsFiniteSet(T)
        BY FS_Subset
    <2>3. PICK K \in [SUBSET T -> Int] : Sums(K, f, T)
        BY <2>2, SumsExist
    <2>4. Sums(H, f, T)
        BY <2>3 DEF Sums, One
    <2> HIDE DEF H
    <2>5. F[T] = H[T]
        BY <2>2, <2>4, <1>1, SumsAgree
    <2> QED
        BY <2>1, <2>5
<1> QED
    BY <1>1, <1>2 DEF SumTable

LEMMA SumEmpty ==
    ASSUME NEW f
    PROVE  SumOver(f, {}) = 0
<1>1. IsFiniteSet({}) /\ \A x \in {} : f[x] \in Int
    BY FS_EmptySet
<1>2. PICK F : SumTable(F, f, {})
    BY <1>1, SumsOf
<1> QED
    BY <1>2 DEF SumTable, Sums

LEMMA SumInt ==
    ASSUME NEW S, IsFiniteSet(S), NEW f, \A x \in S : f[x] \in Int
    PROVE  SumOver(f, S) \in Int
<1>1. PICK F : SumTable(F, f, S)
    BY SumsOf
<1> QED
    BY <1>1 DEF SumTable

LEMMA SumSame ==
    ASSUME NEW S, IsFiniteSet(S), NEW f, NEW g, \A x \in S : f[x] = g[x] /\ f[x] \in Int
    PROVE  SumOver(f, S) = SumOver(g, S)
<1>1. PICK F : SumTable(F, f, S)
    BY SumsOf
<1>2. \A x \in S : g[x] \in Int
    OBVIOUS
<1>3. PICK H : SumTable(H, g, S)
    BY <1>2, SumsOf
<1>4. F[S] = H[S]
    BY <1>1, <1>3, SumsAgree DEF SumTable
<1> QED
    BY <1>1, <1>3, <1>4 DEF SumTable

\* A sum is the same whatever element is added last.
LEMMA SumTakeOut ==
    ASSUME NEW S, IsFiniteSet(S), NEW f, \A x \in S : f[x] \in Int, NEW x \in S
    PROVE  SumOver(f, S) = f[x] + SumOver(f, S \ {x})
<1>1. PICK F : SumTable(F, f, S)
    BY SumsOf
<1> DEFINE G == {n \in Nat : \A T \in SUBSET S : Cardinality(T) = n =>
                                 \A y \in T : F[T] = f[y] + F[T \ {y}]}
<1>2. \A T \in SUBSET S : IsFiniteSet(T) /\ Cardinality(T) \in Nat
    BY FS_Subset, FS_CardinalityType
<1>3. \A T \in SUBSET S : \A y \in T : Cardinality(T \ {y}) = Cardinality(T) - 1
    BY <1>2, FS_RemoveElement
<1>4. 0 \in G
    BY <1>2, FS_EmptySet
<1>5. ASSUME NEW n \in Nat, n \in G PROVE n + 1 \in G
    <2> SUFFICES ASSUME NEW T \in SUBSET S, Cardinality(T) = n + 1, NEW y \in T
                 PROVE  F[T] = f[y] + F[T \ {y}]
        OBVIOUS
    <2> DEFINE z == One(T)
    <2>1. z \in T
        BY DEF One
    <2>2. F[T] = f[z] + F[T \ {z}]
        BY <1>1 DEF SumTable, Sums
    <2>3. CASE z = y
        BY <2>2, <2>3
    <2>4. CASE z # y
        <3> HIDE DEF z
        <3>1. Cardinality(T \ {z}) = n /\ Cardinality(T \ {y}) = n
            BY <1>3, <2>1
        <3>2. F[T \ {z}] = f[y] + F[(T \ {z}) \ {y}]
            BY <1>5, <3>1, <2>4
        <3>3. F[T \ {y}] = f[z] + F[(T \ {y}) \ {z}]
            BY <1>5, <3>1, <2>1, <2>4
        <3>4. (T \ {z}) \ {y} = (T \ {y}) \ {z}
            OBVIOUS
        <3>5. f[y] \in Int /\ f[z] \in Int /\ F[(T \ {y}) \ {z}] \in Int
            BY <1>1, <2>1 DEF SumTable
        <3>6. F[T \ {z}] = f[y] + F[(T \ {y}) \ {z}]
            BY <3>2, <3>4
        <3> QED
            BY <2>2, <3>3, <3>5, <3>6
    <2> QED
        BY <2>3, <2>4
<1> HIDE DEF G
<1>6. Nat \subseteq G
    BY <1>4, <1>5, NaturalsFill
<1>7. F[S] = f[x] + F[S \ {x}]
    BY <1>2, <1>6 DEF G
<1> QED
    BY <1>1, <1>7 DEF SumTable

LEMMA SumAdd ==
    ASSUME NEW S, IsFiniteSet(S), NEW x, x \notin S, NEW f, \A y \in S \cup {x} : f[y] \in Int
    PROVE  SumOver(f, S \cup {x}) = f[x] + SumOver(f, S)
<1>1. IsFiniteSet(S \cup {x}) /\ (S \cup {x}) \ {x} = S
    BY FS_AddElement
<1>2. SumOver(f, S \cup {x}) = f[x] + SumOver(f, (S \cup {x}) \ {x})
    BY <1>1, SumTakeOut
<1> QED
    BY <1>1, <1>2

LEMMA SumSingle ==
    ASSUME NEW x, NEW f, f[x] \in Int
    PROVE  SumOver(f, {x}) = f[x]
<1>1. SumOver(f, {} \cup {x}) = f[x] + SumOver(f, {})
    BY SumAdd, FS_EmptySet
<1> QED
    BY <1>1, SumEmpty

LEMMA SumUnion ==
    ASSUME NEW S, IsFiniteSet(S), NEW R, IsFiniteSet(R), S \cap R = {},
           NEW f, \A x \in S \cup R : f[x] \in Int
    PROVE  SumOver(f, S \cup R) = SumOver(f, S) + SumOver(f, R)
<1> DEFINE G == {T \in SUBSET R : SumOver(f, S \cup T) = SumOver(f, S) + SumOver(f, T)}
<1>1. \A T \in SUBSET R : /\ IsFiniteSet(T) /\ IsFiniteSet(S \cup T)
                          /\ SumOver(f, T) \in Int /\ SumOver(f, S \cup T) \in Int
    <2> SUFFICES ASSUME NEW T \in SUBSET R
                 PROVE  /\ IsFiniteSet(T) /\ IsFiniteSet(S \cup T)
                        /\ SumOver(f, T) \in Int /\ SumOver(f, S \cup T) \in Int
        OBVIOUS
    <2>1. IsFiniteSet(T)
        BY FS_Subset
    <2>2. IsFiniteSet(S \cup T)
        BY <2>1, FS_Union
    <2> QED
        BY <2>1, <2>2, SumInt
<1>2. SumOver(f, S) \in Int
    BY SumInt
<1>3. {} \in G
    <2>1. S \cup {} = S /\ SumOver(f, {}) = 0
        BY SumEmpty
    <2> QED
        BY <2>1, <1>2
<1>4. ASSUME NEW T \in SUBSET R, NEW x \in R \ T, T \in G PROVE T \cup {x} \in G
    <2>1. SumOver(f, T \cup {x}) = f[x] + SumOver(f, T)
        BY <1>1, SumAdd
    <2>2. SumOver(f, (S \cup T) \cup {x}) = f[x] + SumOver(f, S \cup T)
        <3>1. x \notin S \cup T
            OBVIOUS
        <3>2. \A y \in (S \cup T) \cup {x} : f[y] \in Int
            OBVIOUS
        <3> QED
            BY <3>1, <3>2, <1>1, SumAdd
    <2>3. (S \cup T) \cup {x} = S \cup (T \cup {x})
        OBVIOUS
    <2>4. f[x] \in Int /\ SumOver(f, T) \in Int
        BY <1>1
    <2>5. SumOver(f, S \cup T) = SumOver(f, S) + SumOver(f, T)
        BY <1>4
    <2>7. SumOver(f, S \cup (T \cup {x})) = f[x] + SumOver(f, S \cup T)
        BY <2>2, <2>3, Zenon
    <2>6. SumOver(f, S \cup (T \cup {x})) = SumOver(f, S) + SumOver(f, T \cup {x})
        BY <2>1, <2>7, <2>4, <2>5, <1>2
    <2> QED
        BY <2>6
<1> HIDE DEF G
<1>5. R \in G
    BY <1>3, <1>4, SubsetsFill
<1> QED
    BY <1>5 DEF G

LEMMA SumLeq ==
    ASSUME NEW S, IsFiniteSet(S), NEW f, NEW g,
           \A x \in S : f[x] \in Int /\ g[x] \in Int /\ f[x] <= g[x]
    PROVE  SumOver(f, S) <= SumOver(g, S)
<1> DEFINE G == {T \in SUBSET S : SumOver(f, T) <= SumOver(g, T)}
<1>1. \A T \in SUBSET S : IsFiniteSet(T) /\ SumOver(f, T) \in Int /\ SumOver(g, T) \in Int
    <2> SUFFICES ASSUME NEW T \in SUBSET S
                 PROVE  IsFiniteSet(T) /\ SumOver(f, T) \in Int /\ SumOver(g, T) \in Int
        OBVIOUS
    <2>1. IsFiniteSet(T)
        BY FS_Subset
    <2> QED
        BY <2>1, SumInt
<1>2. {} \in G
    <2>1. SumOver(f, {}) = 0 /\ SumOver(g, {}) = 0
        BY SumEmpty
    <2> QED
        BY <2>1
<1>3. ASSUME NEW T \in SUBSET S, NEW x \in S \ T, T \in G PROVE T \cup {x} \in G
    <2>1. SumOver(f, T \cup {x}) = f[x] + SumOver(f, T)
        BY <1>1, SumAdd
    <2>2. SumOver(g, T \cup {x}) = g[x] + SumOver(g, T)
        BY <1>1, SumAdd
    <2>3. SumOver(f, T) <= SumOver(g, T)
        BY <1>3
    <2>4. SumOver(f, T \cup {x}) <= SumOver(g, T \cup {x})
        BY <2>1, <2>2, <2>3, <1>1
    <2> QED
        BY <2>4
<1> HIDE DEF G
<1>4. S \in G
    BY <1>2, <1>3, SubsetsFill
<1> QED
    BY <1>4 DEF G

LEMMA SumZero ==
    ASSUME NEW S, IsFiniteSet(S), NEW f, \A x \in S : f[x] = 0
    PROVE  SumOver(f, S) = 0
<1> DEFINE G == {T \in SUBSET S : SumOver(f, T) = 0}
<1>1. {} \in G
    BY SumEmpty
<1>2. ASSUME NEW T \in SUBSET S, NEW x \in S \ T, T \in G PROVE T \cup {x} \in G
    <2>1. IsFiniteSet(T)
        BY FS_Subset
    <2>4. \A y \in T \cup {x} : f[y] \in Int
        OBVIOUS
    <2>2. SumOver(f, T \cup {x}) = f[x] + SumOver(f, T)
        BY <2>1, <2>4, SumAdd
    <2>3. SumOver(f, T \cup {x}) = 0
        BY <2>2, <1>2
    <2> QED
        BY <2>3
<1> HIDE DEF G
<1>3. S \in G
    BY <1>1, <1>2, SubsetsFill
<1> QED
    BY <1>3 DEF G

\* A sum of naturals is a natural.
LEMMA SumNat ==
    ASSUME NEW S, IsFiniteSet(S), NEW f, \A x \in S : f[x] \in Nat
    PROVE  SumOver(f, S) \in Nat
<1> DEFINE z == [x \in S |-> 0]
<1>1. SumOver(z, S) = 0
    BY SumZero
<1>2. SumOver(z, S) <= SumOver(f, S)
    <2>1. \A x \in S : z[x] \in Int /\ f[x] \in Int /\ z[x] <= f[x]
        OBVIOUS
    <2> HIDE DEF z
    <2> QED
        BY <2>1, SumLeq
<1>3. SumOver(f, S) \in Int
    BY SumInt
<1> QED
    BY <1>1, <1>2, <1>3

\* Where only some of the elements count.
LEMMA SumWhere ==
    ASSUME NEW S, IsFiniteSet(S), NEW T, T \subseteq S, NEW f,
           \A x \in S : f[x] \in Int, \A x \in S \ T : f[x] = 0
    PROVE  SumOver(f, S) = SumOver(f, T)
<1>1. IsFiniteSet(T) /\ IsFiniteSet(S \ T)
    BY FS_Subset
<1>2. SumOver(f, T \cup (S \ T)) = SumOver(f, T) + SumOver(f, S \ T)
    <2>1. T \cap (S \ T) = {} /\ \A x \in T \cup (S \ T) : f[x] \in Int
        OBVIOUS
    <2> QED
        BY <1>1, <2>1, SumUnion
<1>3. T \cup (S \ T) = S
    OBVIOUS
<1>4. SumOver(f, S \ T) = 0
    BY <1>1, SumZero
<1>5. SumOver(f, T) \in Int
    BY <1>1, SumInt
<1>6. SumOver(f, S) = SumOver(f, T) + SumOver(f, S \ T)
    BY <1>2, <1>3, Zenon
<1> QED
    BY <1>4, <1>5, <1>6

\* The elements may be counted under other names.
LEMMA SumRenamed ==
    ASSUME NEW S, IsFiniteSet(S), NEW m, \A x, y \in S : m[x] = m[y] => x = y,
           NEW f, NEW g, \A x \in S : f[m[x]] = g[x] /\ g[x] \in Int
    PROVE  IsFiniteSet({m[x] : x \in S}) /\ SumOver(f, {m[x] : x \in S}) = SumOver(g, S)
<1> DEFINE Im(T) == {m[x] : x \in T}
           G == {T \in SUBSET S : IsFiniteSet(Im(T)) /\ SumOver(f, Im(T)) = SumOver(g, T)}
<1>1. {} \in G
    <2>1. Im({}) = {} /\ SumOver(f, {}) = 0 /\ SumOver(g, {}) = 0
        BY SumEmpty
    <2> QED
        BY <2>1, FS_EmptySet
<1>2. ASSUME NEW T \in SUBSET S, NEW x \in S \ T, T \in G PROVE T \cup {x} \in G
    <2>1. IsFiniteSet(T) /\ IsFiniteSet(Im(T))
        BY <1>2, FS_Subset
    <2>2. Im(T \cup {x}) = Im(T) \cup {m[x]}
        OBVIOUS
    <2>3. m[x] \notin Im(T)
        OBVIOUS
    <2>4. \A y \in Im(T) \cup {m[x]} : f[y] \in Int
        OBVIOUS
    <2> HIDE DEF Im
    <2>5. SumOver(f, Im(T) \cup {m[x]}) = f[m[x]] + SumOver(f, Im(T))
        BY <2>1, <2>3, <2>4, SumAdd
    <2>6. SumOver(g, T \cup {x}) = g[x] + SumOver(g, T)
        BY <2>1, SumAdd
    <2>7. IsFiniteSet(Im(T) \cup {m[x]})
        BY <2>1, FS_AddElement
    <2>8. SumOver(f, Im(T)) = SumOver(g, T)
        BY <1>2
    <2> QED
        BY <2>2, <2>5, <2>6, <2>7, <2>8
<1>3. S \in G
    <2> HIDE DEF G
    <2> QED
        BY <1>1, <1>2, SubsetsFill
<1> QED
    BY <1>3

\* A sum may be made group by group.
LEMMA SumGroups ==
    ASSUME NEW S, IsFiniteSet(S), NEW K, IsFiniteSet(K), NEW c \in [S -> K],
           NEW f, \A x \in S : f[x] \in Int
    PROVE  SumOver([k \in K |-> SumOver(f, {x \in S : c[x] = k})], K) = SumOver(f, S)
<1> DEFINE P(T) == [k \in K |-> SumOver(f, {x \in T : c[x] = k})]
           G == {T \in SUBSET S : SumOver(P(T), K) = SumOver(f, T)}
<1>1. \A T \in SUBSET S : IsFiniteSet(T) /\ \A k \in K : P(T)[k] \in Int
    <2> SUFFICES ASSUME NEW T \in SUBSET S
                 PROVE  IsFiniteSet(T) /\ \A k \in K : P(T)[k] \in Int
        OBVIOUS
    <2>1. IsFiniteSet(T)
        BY FS_Subset
    <2>2. \A k \in K : IsFiniteSet({x \in T : c[x] = k})
        BY <2>1, FS_Subset
    <2>3. \A k \in K : SumOver(f, {x \in T : c[x] = k}) \in Int
        BY <2>2, SumInt
    <2> QED
        BY <2>1, <2>3
<1>2. {} \in G
    <2>1. \A k \in K : {x \in {} : c[x] = k} = {}
        OBVIOUS
    <2>2. \A k \in K : P({})[k] = 0
        BY <2>1, SumEmpty
    <2> HIDE DEF P
    <2>3. SumOver(P({}), K) = 0
        BY <2>2, SumZero
    <2> QED
        BY <2>3, SumEmpty
<1>3. ASSUME NEW T \in SUBSET S, NEW x \in S \ T, T \in G PROVE T \cup {x} \in G
    <2> DEFINE U == T \cup {x}
    <2>1. IsFiniteSet(T) /\ c[x] \in K
        BY <1>1
    <2>2. \A k \in K \ {c[x]} : {y \in U : c[y] = k} = {y \in T : c[y] = k}
        OBVIOUS
    <2>3. {y \in U : c[y] = c[x]} = {y \in T : c[y] = c[x]} \cup {x}
        OBVIOUS
    <2>4. P(U)[c[x]] = f[x] + P(T)[c[x]]
        <3> DEFINE V == {y \in T : c[y] = c[x]}
        <3>1. IsFiniteSet(V)
            BY <2>1, FS_Subset
        <3>2. x \notin V /\ \A y \in V \cup {x} : f[y] \in Int
            OBVIOUS
        <3>3. SumOver(f, V \cup {x}) = f[x] + SumOver(f, V)
            <4> HIDE DEF V
            <4> QED
                BY <3>1, <3>2, SumAdd
        <3> QED
            BY <2>1, <2>3, <3>3
    <2>5. \A k \in K \ {c[x]} : P(U)[k] = P(T)[k]
        BY <2>2
    <2>6. U \in SUBSET S
        OBVIOUS
    <2>7. SumOver(f, U) = f[x] + SumOver(f, T)
        BY <2>1, SumAdd
    <2>8. IsFiniteSet(K \ {c[x]})
        BY FS_Subset
    <2> HIDE DEF P, U
    <2>9. SumOver(P(U), K) = P(U)[c[x]] + SumOver(P(U), K \ {c[x]})
        <3>1. \A k \in K : P(U)[k] \in Int
            BY <1>1, <2>6
        <3> QED
            BY <3>1, <2>1, SumTakeOut
    <2>10. SumOver(P(T), K) = P(T)[c[x]] + SumOver(P(T), K \ {c[x]})
        <3>1. \A k \in K : P(T)[k] \in Int
            BY <1>1
        <3> QED
            BY <3>1, <2>1, SumTakeOut
    <2>11. SumOver(P(U), K \ {c[x]}) = SumOver(P(T), K \ {c[x]})
        <3>1. \A k \in K \ {c[x]} : P(U)[k] = P(T)[k] /\ P(U)[k] \in Int
            BY <2>5, <1>1, <2>6
        <3> QED
            BY <3>1, <2>8, SumSame
    <2>12. SumOver(P(T), K \ {c[x]}) \in Int
        <3>1. \A k \in K \ {c[x]} : P(T)[k] \in Int
            BY <1>1
        <3> QED
            BY <3>1, <2>8, SumInt
    <2>13. SumOver(P(T), K) = SumOver(f, T)
        BY <1>3
    <2>14. f[x] \in Int /\ P(T)[c[x]] \in Int
        BY <1>1, <2>1
    <2>15. SumOver(P(U), K) = SumOver(f, U)
        BY <2>4, <2>7, <2>9, <2>10, <2>11, <2>12, <2>13, <2>14
    <2> QED
        BY <2>15, <2>6 DEF U
<1>4. S \in G
    <2> HIDE DEF G
    <2> QED
        BY <1>2, <1>3, SubsetsFill
<1> QED
    BY <1>4

----------------------------------------------------------------------------
(* Totals of slices, and the sums of a stair. *)

AmountsIn(S) == [s \in S |-> s.amount]

LEMMA TotalIsSum ==
    ASSUME NEW S, IsFiniteSet(S), \A s \in S : s.amount \in Int
    PROVE  Total(S) = SumOver(AmountsIn(S), S)
<1> DEFINE f == AmountsIn(S)
<1>1. \A x \in S : f[x] = x.amount /\ f[x] \in Int
    BY DEF AmountsIn
<1>2. PICK K : SumTable(K, f, S)
    <2> HIDE DEF f
    <2> QED
        BY <1>1, SumsOf
<1> DEFINE H == CHOOSE iter : iter = [s \in SUBSET S |-> IF s = {} THEN 0
                        ELSE (CHOOSE x \in s : TRUE).amount + iter[s \ {CHOOSE x \in s : TRUE}]]
<1>3. Total(S) = H[S]
    BY DEF Total, MapThenSumSet, MapThenFoldSet
<1>4. \A s \in SUBSET S : s # {} => One(s) \in S /\ f[One(s)] = One(s).amount
    <2>1. \A s \in SUBSET S : s # {} => One(s) \in s
        BY DEF One
    <2> QED
        BY <2>1, <1>1
<1> HIDE DEF f
<1>5. K = [s \in SUBSET S |-> IF s = {} THEN 0 ELSE f[One(s)] + K[s \ {One(s)}]]
    BY <1>2 DEF SumTable, Sums
<1>6. K = [s \in SUBSET S |-> IF s = {} THEN 0 ELSE One(s).amount + K[s \ {One(s)}]]
    BY <1>4, <1>5
<1>7. H = [s \in SUBSET S |-> IF s = {} THEN 0 ELSE One(s).amount + H[s \ {One(s)}]]
    BY <1>6 DEF One
<1> HIDE DEF H
<1>8. Sums(H, f, S)
    BY <1>4, <1>7 DEF Sums
<1>9. H[S] = K[S]
    BY <1>2, <1>8, SumsAgree DEF SumTable
<1> QED
    BY <1>2, <1>3, <1>9 DEF SumTable, f

LEMMA TotalEmpty == Total({}) = 0
<1>1. IsFiniteSet({}) /\ \A s \in {} : s.amount \in Int
    BY FS_EmptySet
<1>2. Total({}) = SumOver(AmountsIn({}), {})
    BY <1>1, TotalIsSum
<1> QED
    BY <1>2, SumEmpty

LEMMA TotalInt ==
    ASSUME NEW S, IsFiniteSet(S), \A s \in S : s.amount \in Int
    PROVE  Total(S) \in Int
<1>1. \A s \in S : AmountsIn(S)[s] \in Int
    BY DEF AmountsIn
<1> QED
    BY <1>1, TotalIsSum, SumInt

LEMMA TotalNat ==
    ASSUME NEW S, IsFiniteSet(S), \A s \in S : s.amount \in Nat
    PROVE  Total(S) \in Nat
<1>1. \A s \in S : AmountsIn(S)[s] \in Nat /\ s.amount \in Int
    BY DEF AmountsIn
<1>2. SumOver(AmountsIn(S), S) \in Nat
    BY <1>1, SumNat
<1> QED
    BY <1>1, <1>2, TotalIsSum

LEMMA TotalSingle ==
    ASSUME NEW s, s.amount \in Int
    PROVE  Total({s}) = s.amount /\ IsFiniteSet({s})
<1>1. IsFiniteSet({s})
    BY FS_Singleton
<1>2. \A x \in {s} : x.amount \in Int
    OBVIOUS
<1>3. Total({s}) = SumOver(AmountsIn({s}), {s})
    BY <1>1, <1>2, TotalIsSum
<1>4. AmountsIn({s})[s] = s.amount
    BY DEF AmountsIn
<1>5. SumOver(AmountsIn({s}), {s}) = AmountsIn({s})[s]
    BY <1>4, SumSingle
<1> QED
    BY <1>1, <1>3, <1>4, <1>5

LEMMA TotalUnion ==
    ASSUME NEW S, IsFiniteSet(S), NEW R, IsFiniteSet(R), S \cap R = {},
           \A s \in S \cup R : s.amount \in Int
    PROVE  Total(S \cup R) = Total(S) + Total(R) /\ IsFiniteSet(S \cup R)
<1> DEFINE U == S \cup R
           f == AmountsIn(U)
<1>1. IsFiniteSet(U)
    BY FS_Union
<1>2. Total(U) = SumOver(f, U)
    BY <1>1, TotalIsSum
<1>3. \A x \in U : f[x] = x.amount /\ f[x] \in Int
    BY DEF AmountsIn
<1>4. Total(S) = SumOver(AmountsIn(S), S) /\ Total(R) = SumOver(AmountsIn(R), R)
    <2>1. (\A s \in S : s.amount \in Int) /\ \A s \in R : s.amount \in Int
        OBVIOUS
    <2> QED
        BY <2>1, TotalIsSum
<1>5. \A x \in S : f[x] = AmountsIn(S)[x] /\ f[x] \in Int
    BY <1>3 DEF AmountsIn
<1>6. \A x \in R : f[x] = AmountsIn(R)[x] /\ f[x] \in Int
    BY <1>3 DEF AmountsIn
<1> HIDE DEF f
<1>7. SumOver(f, S) = SumOver(AmountsIn(S), S)
    BY <1>5, SumSame
<1>8. SumOver(f, R) = SumOver(AmountsIn(R), R)
    BY <1>6, SumSame
<1>9. SumOver(f, S \cup R) = SumOver(f, S) + SumOver(f, R)
    BY <1>3, SumUnion
<1> QED
    BY <1>1, <1>2, <1>4, <1>7, <1>8, <1>9

\* The total of slices that are made one for each date.
LEMMA TotalRenamed ==
    ASSUME NEW D, IsFiniteSet(D), NEW m, \A x, y \in D : m[x] = m[y] => x = y,
           NEW g, \A x \in D : m[x].amount = g[x] /\ g[x] \in Int,
           NEW S, S = {m[x] : x \in D}
    PROVE  Total(S) = SumOver(g, D) /\ IsFiniteSet(S)
<1> DEFINE f == AmountsIn(S)
<1>1. \A x \in D : f[m[x]] = g[x] /\ g[x] \in Int
    BY DEF AmountsIn
<1>2. \A s \in S : s.amount \in Int
    OBVIOUS
<1> HIDE DEF f
<1>3. IsFiniteSet(S) /\ SumOver(f, S) = SumOver(g, D)
    BY <1>1, SumRenamed
<1>4. Total(S) = SumOver(f, S)
    BY <1>2, <1>3, TotalIsSum DEF f
<1> QED
    BY <1>3, <1>4

LEMMA GreatestExists ==
    ASSUME NEW S, IsFiniteSet(S), S \subseteq Int, S # {}
    PROVE  \E x \in S : \A y \in S : y <= x
<1> DEFINE G == {T \in SUBSET S : T = {} \/ \E x \in T : \A y \in T : y <= x}
<1>1. {} \in G
    OBVIOUS
<1>2. ASSUME NEW T \in SUBSET S, NEW z \in S \ T, T \in G PROVE T \cup {z} \in G
    <2>1. CASE T = {}
        <3>1. \E x \in T \cup {z} : \A y \in T \cup {z} : y <= x
            BY <2>1
        <3> QED
            BY <3>1
    <2>2. CASE T # {}
        <3>1. PICK x \in T : \A y \in T : y <= x
            BY <1>2, <2>2
        <3>2. CASE z <= x
            <4>1. \A y \in T \cup {z} : y <= x
                BY <3>1, <3>2
            <4> QED
                BY <4>1
        <3>3. CASE ~(z <= x)
            <4>1. \A y \in T \cup {z} : y <= z
                BY <3>1, <3>3
            <4> QED
                BY <4>1
        <3> QED
            BY <3>2, <3>3
    <2> QED
        BY <2>1, <2>2
<1> HIDE DEF G
<1>3. S \in G
    BY <1>1, <1>2, SubsetsFill
<1> QED
    BY <1>3 DEF G

LEMMA MaxIsGreatest ==
    ASSUME NEW S, IsFiniteSet(S), S \subseteq Int, S # {}
    PROVE  Max(S) \in S /\ \A y \in S : y <= Max(S)
<1>1. \E x \in S : \A y \in S : x >= y
    <2>1. PICK x \in S : \A y \in S : y <= x
        BY GreatestExists
    <2>2. \A y \in S : x >= y
        BY <2>1
    <2> QED
        BY <2>2
<1>2. Max(S) \in S /\ \A y \in S : Max(S) >= y
    BY <1>1 DEF Max
<1> QED
    BY <1>2

LEMMA HighestIs ==
    ASSUME NEW S, IsFiniteSet(S), S \subseteq Nat
    PROVE  /\ Highest(S) \in Nat /\ Highest(S) \in S \cup {0}
           /\ \A y \in S : y <= Highest(S)
<1> DEFINE U == S \cup {0}
<1>1. IsFiniteSet(U) /\ U # {} /\ U \subseteq Int
    BY FS_AddElement
<1>2. Max(U) \in U /\ \A y \in U : y <= Max(U)
    <2> HIDE DEF U
    <2> QED
        BY <1>1, MaxIsGreatest
<1>3. Highest(S) = Max(U)
    BY DEF Highest
<1> HIDE DEF U
<1>4. Highest(S) \in U /\ \A y \in U : y <= Highest(S)
    BY <1>2, <1>3
<1>5. Highest(S) \in S \cup {0} /\ \A y \in S : y <= Highest(S)
    BY <1>4 DEF U
<1>6. S \cup {0} \subseteq Nat
    OBVIOUS
<1> QED
    BY <1>5, <1>6

\* The highest of a set is known by what it is.
LEMMA HighestKnown ==
    ASSUME NEW S, IsFiniteSet(S), S \subseteq Nat, NEW x \in S \cup {0}, \A y \in S : y <= x
    PROVE  Highest(S) = x
<1>1. /\ Highest(S) \in Nat /\ Highest(S) \in S \cup {0}
      /\ \A y \in S : y <= Highest(S)
    BY HighestIs
<1> QED
    BY <1>1

LEMMA HighestEmpty == Highest({}) = 0
<1>1. IsFiniteSet({}) /\ {} \subseteq Nat /\ 0 \in {} \cup {0} /\ \A y \in {} : y <= 0
    BY FS_EmptySet
<1> QED
    BY <1>1, HighestKnown

\* The highest of what is all lower is lower.
LEMMA HighestLeq ==
    ASSUME NEW S, IsFiniteSet(S), S \subseteq Nat, NEW R, IsFiniteSet(R), R \subseteq Nat,
           \A x \in S : \E y \in R : x <= y
    PROVE  Highest(S) <= Highest(R)
<1>1. Highest(S) \in Nat /\ Highest(S) \in S \cup {0}
    BY HighestIs
<1>2. Highest(R) \in Nat /\ \A y \in R : y <= Highest(R)
    BY HighestIs
<1>3. CASE Highest(S) = 0
    BY <1>2, <1>3
<1>4. CASE Highest(S) \in S
    <2>1. PICK y \in R : Highest(S) <= y
        BY <1>4
    <2> QED
        BY <1>1, <1>2, <2>1
<1> QED
    BY <1>1, <1>3, <1>4

LEMMA HighestAtMost ==
    ASSUME NEW S, IsFiniteSet(S), S \subseteq Nat, NEW n \in Nat, \A x \in S : x <= n
    PROVE  Highest(S) <= n
<1>1. Highest(S) \in S \cup {0}
    BY HighestIs
<1>2. \A x \in S \cup {0} : x <= n
    OBVIOUS
<1> QED
    BY <1>1, <1>2

\* The dates of a stair up to a date, and the last before one.
UpTo(K, u) == {t \in K : t <= u}
LastBefore(K, t) == Highest({v \in K : v < t})

\* Down a stair the drops add up to the height of it.
LEMMA StairSum ==
    ASSUME NEW K, K \subseteq Nat \ {0}, NEW e \in [Nat -> Int], NEW u \in Nat
    PROVE  SumOver([t \in K |-> e[LastBefore(K, t)] - e[t]], UpTo(K, u)) = e[0] - e[Highest(UpTo(K, u))]
<1> DEFINE d == [t \in K |-> e[LastBefore(K, t)] - e[t]]
           G == {n \in Nat : SumOver(d, UpTo(K, n)) = e[0] - e[Highest(UpTo(K, n))]}
<1>10. \A t \in K : t \in Nat /\ t >= 1
    OBVIOUS
<1>1. \A n \in Nat : UpTo(K, n) \subseteq Nat /\ IsFiniteSet(UpTo(K, n))
    <2> SUFFICES ASSUME NEW n \in Nat
                 PROVE  UpTo(K, n) \subseteq Nat /\ IsFiniteSet(UpTo(K, n))
        OBVIOUS
    <2>3. \A t \in K : t <= n => t \in 0 .. n /\ t \in Nat
        BY <1>10
    <2>1. UpTo(K, n) \in SUBSET (0 .. n)
        BY <2>3 DEF UpTo
    <2>2. IsFiniteSet(0 .. n)
        BY FS_Interval
    <2> QED
        BY <2>1, <2>2, FS_Subset
<1>2. 0 \in G
    <2>5. \A t \in K : ~(t <= 0)
        BY <1>10
    <2>1. UpTo(K, 0) = {}
        BY <2>5 DEF UpTo
    <2>2. SumOver(d, {}) = 0
        BY SumEmpty
    <2>3. e[0] - e[0] = 0
        OBVIOUS
    <2>4. SumOver(d, UpTo(K, 0)) = e[0] - e[Highest(UpTo(K, 0))]
        BY <2>1, <2>2, <2>3, HighestEmpty
    <2> QED
        BY <2>4
<1>3. \A t \in K : LastBefore(K, t) = Highest(UpTo(K, t - 1)) /\ t - 1 \in Nat
    <2> SUFFICES ASSUME NEW t \in K
                 PROVE  LastBefore(K, t) = Highest(UpTo(K, t - 1)) /\ t - 1 \in Nat
        OBVIOUS
    <2>1. \A v \in K : v < t <=> v <= t - 1
        BY <1>10
    <2>2. t - 1 \in Nat
        BY <1>10
    <2>3. {v \in K : v < t} = UpTo(K, t - 1)
        BY <2>1 DEF UpTo
    <2> QED
        BY <2>2, <2>3 DEF LastBefore
<1>4. \A t \in K : LastBefore(K, t) \in Nat
    BY <1>1, <1>3, HighestIs
<1>5. \A t \in K : d[t] \in Int
    BY <1>4
<1>6. ASSUME NEW n \in Nat, n \in G PROVE n + 1 \in G
    <2>1. CASE n + 1 \notin K
        <3>2. \A v \in K : v <= n + 1 <=> v <= n
            <4>1. \A v \in K : v \in Nat /\ v # n + 1
                BY <1>10, <2>1
            <4> QED
                BY <4>1
        <3>1. UpTo(K, n + 1) = UpTo(K, n)
            BY <3>2 DEF UpTo
        <3> QED
            BY <3>1, <1>6
    <2>2. CASE n + 1 \in K
        <3>1. UpTo(K, n + 1) = UpTo(K, n) \cup {n + 1} /\ n + 1 \notin UpTo(K, n)
            <4>1. \A v \in K : v <= n + 1 <=> (v <= n \/ v = n + 1)
                BY <1>10
            <4>2. ~(n + 1 <= n)
                OBVIOUS
            <4> QED
                BY <2>2, <4>1, <4>2 DEF UpTo
        <3>2. Highest(UpTo(K, n + 1)) = n + 1
            <4>1. n + 1 \in UpTo(K, n + 1) \cup {0} /\ \A y \in UpTo(K, n + 1) : y <= n + 1
                BY <2>2 DEF UpTo
            <4>2. IsFiniteSet(UpTo(K, n + 1)) /\ UpTo(K, n + 1) \subseteq Nat
                BY <1>1
            <4> QED
                BY <4>1, <4>2, HighestKnown
        <3>3. d[n + 1] = e[Highest(UpTo(K, n))] - e[n + 1]
            <4>1. (n + 1) - 1 = n
                OBVIOUS
            <4> QED
                BY <2>2, <1>3, <4>1
        <3>4. \A y \in UpTo(K, n) \cup {n + 1} : d[y] \in Int
            BY <1>5, <2>2 DEF UpTo
        <3> HIDE DEF d
        <3>5. SumOver(d, UpTo(K, n) \cup {n + 1}) = d[n + 1] + SumOver(d, UpTo(K, n))
            BY <3>1, <3>4, <1>1, SumAdd
        <3>6. Highest(UpTo(K, n)) \in Nat
            BY <1>1, HighestIs
        <3>7. e[Highest(UpTo(K, n))] \in Int /\ e[n + 1] \in Int /\ e[0] \in Int
            BY <3>6
        <3>8. SumOver(d, UpTo(K, n)) = e[0] - e[Highest(UpTo(K, n))]
            BY <1>6
        <3>9. SumOver(d, UpTo(K, n + 1)) = e[0] - e[n + 1]
            BY <3>1, <3>3, <3>5, <3>7, <3>8
        <3> QED
            BY <3>2, <3>9
    <2> QED
        BY <2>1, <2>2
<1>7. u \in G
    <2> HIDE DEF G
    <2> QED
        BY <1>2, <1>6, NaturalsFill
<1> QED
    BY <1>7

LEMMA ImageIsFinite ==
    ASSUME NEW S, IsFiniteSet(S), NEW f
    PROVE  IsFiniteSet({f[x] : x \in S})
<1> DEFINE T == {f[x] : x \in S}
           g == [x \in S |-> f[x]]
<1>1. g \in Surjection(S, T)
    BY DEF Surjection
<1> QED
    BY <1>1, FS_Surjection

\* The slices of a stair, one for each date with a drop.
IsStair(K, e, D, m) ==
    /\ K \subseteq Nat \ {0} /\ e \in [Nat -> Int] /\ D \subseteq K
    /\ \A t \in K : m[t].until = t /\ m[t].amount = e[LastBefore(K, t)] - e[t]
    /\ \A t \in K \ D : e[LastBefore(K, t)] = e[t]

\* A are those slices, and B the ones of them that are free at u.
IsFlight(D, m, A, B, u) ==
    /\ \A x : x \in A <=> \E t \in D : x = m[t]
    /\ \A s : s \in B <=> s \in A /\ s.until <= u

LEMMA StairTotal ==
    ASSUME NEW K, NEW e, NEW D, NEW m, IsStair(K, e, D, m),
           NEW u \in Nat, NEW A, NEW B, IsFlight(D, m, A, B, u)
    PROVE  IsFiniteSet(B) /\ Total(B) = e[0] - e[Highest(UpTo(K, u))]
<1> DEFINE d == [t \in K |-> e[LastBefore(K, t)] - e[t]]
<1> USE DEF IsStair
<1>1. \A t \in K : t \in Nat
    OBVIOUS
<1>2. IsFiniteSet(UpTo(K, u)) /\ UpTo(D, u) \subseteq UpTo(K, u)
    <2>1. \A t \in K : t <= u => t \in 0 .. u
        <3> HIDE DEF IsStair
        <3> QED
            BY <1>1
    <2>2. UpTo(K, u) \in SUBSET (0 .. u)
        BY <2>1 DEF UpTo
    <2>3. IsFiniteSet(0 .. u)
        BY FS_Interval
    <2>4. IsFiniteSet(UpTo(K, u))
        BY <2>2, <2>3, FS_Subset
    <2> QED
        BY <2>4 DEF UpTo
<1>3. IsFiniteSet(UpTo(D, u))
    BY <1>2, FS_Subset
<1>4. \A t \in K : LastBefore(K, t) \in Nat
    <2> SUFFICES ASSUME NEW t \in K PROVE LastBefore(K, t) \in Nat
        OBVIOUS
    <2>1. \A v \in K : v < t => v \in 0 .. t
        BY <1>1
    <2>2. {v \in K : v < t} \in SUBSET (0 .. t) /\ {v \in K : v < t} \subseteq Nat
        BY <2>1, <1>1
    <2>3. IsFiniteSet(0 .. t)
        BY <1>1, FS_Interval
    <2>4. IsFiniteSet({v \in K : v < t})
        BY <2>2, <2>3, FS_Subset
    <2> QED
        BY <2>2, <2>4, HighestIs DEF LastBefore
<1>5. \A t \in K : d[t] \in Int
    BY <1>4, <1>1
<1>6. SumOver(d, UpTo(K, u)) = e[0] - e[Highest(UpTo(K, u))]
    BY StairSum
<1>7. SumOver(d, UpTo(K, u)) = SumOver(d, UpTo(D, u))
    <2>1. \A t \in UpTo(K, u) : d[t] \in Int
        BY <1>5 DEF UpTo
    <2>2. \A t \in UpTo(K, u) \ UpTo(D, u) : d[t] = 0
        <3> SUFFICES ASSUME NEW t \in UpTo(K, u) \ UpTo(D, u) PROVE d[t] = 0
            OBVIOUS
        <3>1. t \in K \ D
            BY DEF UpTo
        <3>2. e[t] \in Int /\ e[LastBefore(K, t)] = e[t]
            BY <3>1, <1>1
        <3> QED
            BY <3>1, <3>2
    <2> HIDE DEF d
    <2> QED
        BY <2>1, <2>2, <1>2, SumWhere
<1>8. /\ IsFiniteSet({m[t] : t \in UpTo(D, u)})
      /\ Total({m[t] : t \in UpTo(D, u)}) = SumOver(d, UpTo(D, u))
    <2>1. \A t \in UpTo(D, u) : m[t].until = t /\ m[t].amount = d[t] /\ d[t] \in Int
        BY <1>5 DEF UpTo
    <2>2. \A x, y \in UpTo(D, u) : m[x] = m[y] => x = y
        BY <2>1
    <2>3. \A t \in UpTo(D, u) : m[t].amount = d[t] /\ d[t] \in Int
        BY <2>1
    <2> HIDE DEF d
    <2> DEFINE R == UpTo(D, u)
    <2>4. /\ IsFiniteSet(R) /\ \A x, y \in R : m[x] = m[y] => x = y
          /\ \A x \in R : m[x].amount = d[x] /\ d[x] \in Int
        BY <2>2, <2>3, <1>3
    <2> HIDE DEF R
    <2>5. \A S : S = {m[x] : x \in R} => Total(S) = SumOver(d, R) /\ IsFiniteSet(S)
        BY <2>4, TotalRenamed
    <2> QED
        BY <2>5 DEF R
<1>9. B = {m[t] : t \in UpTo(D, u)}
    <2>1. \A t \in D : m[t].until = t
        OBVIOUS
    <2>2. \A s : s \in B <=> \E t \in D : s = m[t] /\ s.until <= u
        BY DEF IsFlight
    <2>3. \A s : s \in B <=> \E t \in UpTo(D, u) : s = m[t]
        BY <2>1, <2>2 DEF UpTo
    <2> QED
        BY <2>3
<1> QED
    BY <1>6, <1>7, <1>8, <1>9

----------------------------------------------------------------------------
(* The locks of an account. *)

SoundLocks(h) ==
    /\ h \in AccountLocks /\ h.vesting.claimable <= h.vesting.amount
    /\ IsFiniteSet(h.vote.classes)

LEMMA DivLeq ==
    ASSUME NEW a \in Nat, NEW b \in Nat, NEW n \in Nat \ {0}, a <= b
    PROVE  a \div n <= b \div n /\ a \div n \in Nat
OBVIOUS

LEMMA MulLeq ==
    ASSUME NEW x \in Nat, NEW a \in Int, NEW b \in Int, a <= b
    PROVE  x * a <= x * b
OBVIOUS

LEMMA LocksTyped ==
    ASSUME NEW h, SoundLocks(h), Horizon \in Nat
    PROVE  /\ \A s \in LockSources : OnChain(h)[s] \in Nat
           /\ h.vesting.amount \in Nat /\ h.vesting.claimable \in Nat /\ StillVesting(h) \in Nat
           /\ h.vesting.end \in Nat /\ h.vesting.end <= Horizon
           /\ h.vote.amount \in Nat /\ h.static \in Nat
           /\ \A c \in h.vote.classes : c.prior \in Nat /\ c.active \in Nat /\ c.unlock \in Nat
                                           /\ c.unlock <= Horizon
           /\ HeldBy(h) \subseteq LockSources
           /\ OnChain(h)["vesting"] = h.vesting.amount /\ OnChain(h)["vote"] = h.vote.amount
           /\ OnChain(h)["static"] = h.static
<1>1. /\ h.vesting.amount \in Nat /\ h.vesting.claimable \in Nat /\ h.vesting.end \in Instant
      /\ h.vote.amount \in Nat /\ h.static \in Nat /\ h.vote.classes \subseteq Class
    BY DEF SoundLocks, AccountLocks
<1>2. \A c \in h.vote.classes : c.prior \in Nat /\ c.active \in Nat /\ c.unlock \in Instant
    BY <1>1 DEF Class
<1>3. StillVesting(h) \in Nat
    BY <1>1 DEF StillVesting, SoundLocks
<1>4. \A i \in Instant : i \in Nat /\ i <= Horizon
    BY DEF Instant
<1>5. /\ OnChain(h)["vesting"] = h.vesting.amount /\ OnChain(h)["vote"] = h.vote.amount
      /\ OnChain(h)["static"] = h.static
    BY DEF OnChain
<1>6. \A s \in LockSources : OnChain(h)[s] \in Nat
    BY <1>1, <1>5 DEF LockSources
<1>7. HeldBy(h) \subseteq LockSources
    BY DEF HeldBy
<1> QED
    BY <1>1, <1>2, <1>3, <1>4, <1>5, <1>6, <1>7

LEMMA SourcesFinite ==
    ASSUME NEW h
    PROVE  IsFiniteSet(LockSources) /\ \A T \in SUBSET LockSources : IsFiniteSet(T)
<1>1. IsFiniteSet({"vesting"} \cup {"vote"} \cup {"static"})
    BY FS_Singleton, FS_Union
<1>2. LockSources = {"vesting"} \cup {"vote"} \cup {"static"}
    BY DEF LockSources
<1>3. IsFiniteSet(LockSources)
    BY <1>1, <1>2
<1> QED
    BY <1>3, FS_Subset

\* What holds the sources of a set, taken by a function.
LEMMA SourceValues ==
    ASSUME NEW T \in SUBSET LockSources, NEW f, \A s \in T : f[s] \in Nat
    PROVE  IsFiniteSet({f[s] : s \in T}) /\ {f[s] : s \in T} \subseteq Nat
<1>1. IsFiniteSet(T)
    BY SourcesFinite
<1> QED
    BY <1>1, ImageIsFinite

LEMMA ClassValues ==
    ASSUME NEW h, SoundLocks(h), NEW T \in SUBSET h.vote.classes,
           NEW f, \A c \in T : f[c] \in Nat
    PROVE  IsFiniteSet({f[c] : c \in T}) /\ {f[c] : c \in T} \subseteq Nat
<1>1. IsFiniteSet(T)
    BY FS_Subset DEF SoundLocks
<1> QED
    BY <1>1, ImageIsFinite

LEMMA FrozenIs ==
    ASSUME NEW h, SoundLocks(h), Horizon \in Nat
    PROVE  /\ Frozen(h) \in Nat
           /\ \A s \in HeldBy(h) : OnChain(h)[s] <= Frozen(h)
           /\ \A s \in LockSources : OnChain(h)[s] <= Frozen(h)
<1> DEFINE f == OnChain(h)
           S == {f[s] : s \in HeldBy(h)}
<1>1. HeldBy(h) \in SUBSET LockSources /\ \A s \in LockSources : f[s] \in Nat
    BY LocksTyped
<1>2. IsFiniteSet(S) /\ S \subseteq Nat
    <2> HIDE DEF f
    <2> QED
        BY <1>1, SourceValues
<1>3. Frozen(h) = Highest(S)
    BY DEF Frozen
<1>4. Frozen(h) \in Nat /\ \A y \in S : y <= Frozen(h)
    <2> HIDE DEF S
    <2> QED
        BY <1>2, <1>3, HighestIs
<1>5. \A s \in HeldBy(h) : f[s] <= Frozen(h)
    BY <1>4
<1>6. \A s \in LockSources : s \notin HeldBy(h) => f[s] = 0
    <2> HIDE DEF f
    <2>1. \A s \in LockSources : s \notin HeldBy(h) => ~(f[s] > 0)
        BY DEF HeldBy, f
    <2> QED
        BY <1>1, <2>1
<1>7. \A s \in LockSources : f[s] <= Frozen(h)
    BY <1>4, <1>5, <1>6
<1> QED
    BY <1>4, <1>5, <1>7

LEMMA VestingEnvFalls ==
    ASSUME NEW h, SoundLocks(h), Horizon \in Nat, NEW t \in Nat, NEW u \in Nat, t <= u
    PROVE  /\ VestingEnv(h, t) \in Nat /\ VestingEnv(h, u) <= VestingEnv(h, t)
           /\ (h.vesting.end <= t \/ StillVesting(h) = 0) => VestingEnv(h, t) = 0
<1> DEFINE x == StillVesting(h)
           n == h.vesting.end
<1>1. x \in Nat /\ n \in Nat
    BY LocksTyped
<1> HIDE DEF x, n
<1>2. \A v \in Nat : VestingEnv(h, v) = IF v >= n THEN 0 ELSE (x * (n - v)) \div n
    BY DEF VestingEnv, x, n
<1>3. \A v \in Nat : v < n => n \in Nat \ {0} /\ x * (n - v) \in Nat
    <2> SUFFICES ASSUME NEW v \in Nat, v < n PROVE n \in Nat \ {0} /\ x * (n - v) \in Nat
        OBVIOUS
    <2>1. n - v \in Nat
        BY <1>1
    <2> QED
        BY <1>1, <2>1
<1>4. CASE t >= n
    <2>1. u >= n
        BY <1>1, <1>4
    <2> QED
        BY <1>2, <1>4, <2>1 DEF n
<1>5. CASE t < n
    <2>1. VestingEnv(h, t) = (x * (n - t)) \div n
        BY <1>1, <1>2, <1>5
    <2>2. VestingEnv(h, t) \in Nat
        BY <2>1, <1>3, <1>5, DivLeq
    <2>3. VestingEnv(h, u) <= VestingEnv(h, t)
        <3>1. CASE u >= n
            BY <3>1, <1>2, <2>2
        <3>2. CASE u < n
            <4>1. VestingEnv(h, u) = (x * (n - u)) \div n
                BY <1>1, <1>2, <3>2
            <4>2. x * (n - u) <= x * (n - t)
                <5>1. n - u \in Int /\ n - t \in Int /\ n - u <= n - t
                    BY <1>1
                <5> QED
                    BY <1>1, <5>1, MulLeq
            <4>3. (x * (n - u)) \div n <= (x * (n - t)) \div n
                BY <4>2, <1>3, <1>5, <3>2, DivLeq
            <4> QED
                BY <2>1, <4>1, <4>3
        <3> QED
            BY <3>1, <3>2, <1>1
    <2>4. x = 0 => VestingEnv(h, t) = 0
        BY <2>1, <1>1, <1>3, <1>5
    <2> QED
        BY <2>2, <2>3, <2>4, <1>1, <1>5 DEF x, n
<1> QED
    BY <1>1, <1>4, <1>5

LEMMA PriorEnvFalls ==
    ASSUME NEW h, SoundLocks(h), Horizon \in Nat, NEW t \in Nat, NEW u \in Nat, t <= u
    PROVE  /\ PriorEnv(h, t) \in Nat /\ PriorEnv(h, u) <= PriorEnv(h, t)
           /\ (\A v \in Priors(h) : ~(t < v /\ v <= u)) => PriorEnv(h, u) = PriorEnv(h, t)
<1> DEFINE f == [c \in h.vote.classes |-> c.prior]
           Later(v) == {d \in h.vote.classes : v < d.unlock}
           S(v) == {f[c] : c \in Later(v)}
<1>1. \A c \in h.vote.classes : c.prior \in Nat /\ c.unlock \in Nat
    BY LocksTyped
<1>2. \A v : {c.prior : c \in Later(v)} = S(v)
    OBVIOUS
<1>3. \A v : PriorEnv(h, v) = Highest(S(v))
    BY <1>2 DEF PriorEnv
<1>4. \A v : IsFiniteSet(S(v)) /\ S(v) \subseteq Nat
    <2> SUFFICES ASSUME NEW v PROVE IsFiniteSet(S(v)) /\ S(v) \subseteq Nat
        OBVIOUS
    <2>1. Later(v) \in SUBSET h.vote.classes /\ \A c \in Later(v) : f[c] \in Nat
        BY <1>1
    <2> HIDE DEF Later, f
    <2> QED
        BY <2>1, ClassValues
<1>5. PriorEnv(h, t) \in Nat /\ PriorEnv(h, u) \in Nat
    <2> HIDE DEF S
    <2> QED
        BY <1>3, <1>4, HighestIs
<1>6. Later(u) \subseteq Later(t)
    BY <1>1
<1>7. PriorEnv(h, u) <= PriorEnv(h, t)
    <2>1. \A x \in S(u) : \E y \in S(t) : x <= y
        <3> SUFFICES ASSUME NEW x \in S(u) PROVE x \in S(t) /\ x <= x
            OBVIOUS
        <3>1. S(u) \subseteq S(t)
            BY <1>6
        <3>2. x \in Nat
            BY <1>4
        <3> HIDE DEF S
        <3> QED
            BY <3>1, <3>2
    <2> HIDE DEF S
    <2>2. Highest(S(u)) <= Highest(S(t))
        BY <2>1, <1>4, HighestLeq
    <2> QED
        BY <2>2, <1>3
<1>8. ASSUME \A v \in Priors(h) : ~(t < v /\ v <= u) PROVE PriorEnv(h, t) <= PriorEnv(h, u)
    <2>1. \A x \in S(t) : x <= Highest(S(u))
        <3> SUFFICES ASSUME NEW c \in Later(t) PROVE f[c] <= Highest(S(u))
            OBVIOUS
        <3>1. c \in h.vote.classes /\ f[c] = c.prior /\ t < c.unlock
            OBVIOUS
        <3>2. Highest(S(u)) \in Nat /\ \A y \in S(u) : y <= Highest(S(u))
            <4> HIDE DEF S
            <4> QED
                BY <1>4, HighestIs
        <3>3. CASE c.prior = 0
            BY <3>1, <3>2, <3>3
        <3>4. CASE c.prior # 0
            <4>1. c.unlock \in Priors(h)
                <5>1. c.prior > 0 /\ c.unlock > 0
                    BY <3>1, <3>4, <1>1
                <5> QED
                    BY <3>1, <5>1 DEF Priors
            <4>2. u < c.unlock
                BY <4>1, <3>1, <1>8, <1>1
            <4>3. c \in Later(u)
                BY <4>2, <3>1
            <4> QED
                BY <4>3, <3>2
        <3> QED
            BY <3>3, <3>4
    <2>2. Highest(S(u)) \in Nat
        BY <1>3, <1>5
    <2> HIDE DEF S
    <2>3. Highest(S(t)) <= Highest(S(u))
        BY <2>1, <2>2, <1>4, HighestAtMost
    <2> QED
        BY <2>3, <1>3
<1> QED
    BY <1>5, <1>7, <1>8

\* Nothing that is held changes between two instants.
Flat(h, t, u) ==
    /\ \A v \in Steps(h) : ~(t < v /\ v <= u)
    /\ h.vesting.end <= t \/ StillVesting(h) = 0

LEMMA LowerIs ==
    ASSUME NEW a \in Nat, NEW b \in Nat
    PROVE  /\ Lower(a, b) \in Nat /\ Lower(a, b) <= a /\ Lower(a, b) <= b
           /\ Lower(a, b) = a \/ Lower(a, b) = b
           /\ \A c \in Nat : c <= b => Lower(a, c) <= Lower(a, b)
           /\ b <= a => Lower(a, b) = b
BY DEF Lower

LEMMA CappedFalls ==
    ASSUME NEW h, SoundLocks(h), Horizon \in Nat, NEW s \in LockSources,
           NEW t \in Nat, NEW u \in Nat, t <= u
    PROVE  /\ Capped(h, s, t) \in Nat /\ Capped(h, s, t) <= OnChain(h)[s]
           /\ Capped(h, s, u) <= Capped(h, s, t)
           /\ s \in HeldBy(h) /\ Flat(h, t, u) => Capped(h, s, u) = Capped(h, s, t)
<1>1. OnChain(h)[s] \in Nat /\ h.static \in Nat
    BY LocksTyped
<1>5. \A x, y \in Nat : y <= x => /\ Lower(OnChain(h)[s], x) \in Nat
                                  /\ Lower(OnChain(h)[s], x) <= OnChain(h)[s]
                                  /\ Lower(OnChain(h)[s], y) <= Lower(OnChain(h)[s], x)
    BY <1>1, LowerIs
<1>2. CASE s = "vesting"
    <2>1. \A v : Capped(h, s, v) = Lower(OnChain(h)[s], VestingEnv(h, v))
        BY <1>2 DEF Capped
    <2>2. /\ VestingEnv(h, t) \in Nat /\ VestingEnv(h, u) \in Nat /\ VestingEnv(h, u) <= VestingEnv(h, t)
          /\ (h.vesting.end <= t \/ StillVesting(h) = 0) => VestingEnv(h, t) = 0
        BY VestingEnvFalls
    <2>3. Flat(h, t, u) => VestingEnv(h, u) = VestingEnv(h, t)
        BY <2>2 DEF Flat
    <2> QED
        BY <1>5, <2>1, <2>2, <2>3
<1>3. CASE s = "vote"
    <2>1. \A v : Capped(h, s, v) = Lower(OnChain(h)[s], PriorEnv(h, v))
        BY <1>3 DEF Capped
    <2>2. /\ PriorEnv(h, t) \in Nat /\ PriorEnv(h, u) \in Nat /\ PriorEnv(h, u) <= PriorEnv(h, t)
          /\ (\A v \in Priors(h) : ~(t < v /\ v <= u)) => PriorEnv(h, u) = PriorEnv(h, t)
        BY PriorEnvFalls
    <2>3. s \in HeldBy(h) /\ Flat(h, t, u) => PriorEnv(h, u) = PriorEnv(h, t)
        <3>1. s \in HeldBy(h) => Priors(h) \subseteq Steps(h)
            BY <1>3 DEF Steps
        <3> QED
            BY <2>2, <3>1 DEF Flat
    <2> QED
        BY <1>5, <2>1, <2>2, <2>3
<1>4. CASE s = "static"
    <2>1. \A v : Capped(h, s, v) = Lower(OnChain(h)[s], h.static)
        BY <1>4 DEF Capped
    <2> QED
        BY <1>1, <1>5, <2>1
<1> QED
    BY <1>2, <1>3, <1>4 DEF LockSources

\* What a set of sources needs at t.
Need(h, T, t) == Highest({Capped(h, s, t) : s \in T})

LEMMA NeedIs ==
    ASSUME NEW h, SoundLocks(h), Horizon \in Nat, NEW T \in SUBSET HeldBy(h), NEW t \in Nat
    PROVE  /\ IsFiniteSet({Capped(h, s, t) : s \in T}) /\ {Capped(h, s, t) : s \in T} \subseteq Nat
           /\ Need(h, T, t) \in Nat /\ Need(h, T, t) <= Frozen(h)
           /\ \A s \in T : Capped(h, s, t) <= Need(h, T, t)
<1> DEFINE f == [s \in T |-> Capped(h, s, t)]
           S == {Capped(h, s, t) : s \in T}
<1>1. T \in SUBSET LockSources /\ T \subseteq HeldBy(h)
    BY LocksTyped
<1>2. t <= t
    OBVIOUS
<1>3. \A s \in T : Capped(h, s, t) \in Nat /\ Capped(h, s, t) <= OnChain(h)[s]
    BY <1>1, <1>2, CappedFalls
<1>4. S = {f[s] : s \in T} /\ \A s \in T : f[s] \in Nat
    BY <1>3
<1>5. IsFiniteSet(S) /\ S \subseteq Nat
    <2> HIDE DEF f, S
    <2> QED
        BY <1>1, <1>4, SourceValues
<1>6. Frozen(h) \in Nat /\ \A s \in HeldBy(h) : OnChain(h)[s] <= Frozen(h)
    BY FrozenIs
<1>7. \A x \in S : x <= Frozen(h)
    <2> SUFFICES ASSUME NEW s \in T PROVE Capped(h, s, t) <= Frozen(h)
        OBVIOUS
    <2>1. OnChain(h)[s] \in Nat
        BY <1>1, LocksTyped
    <2> QED
        BY <2>1, <1>1, <1>3, <1>6
<1> HIDE DEF S
<1>8. /\ Highest(S) \in Nat /\ Highest(S) <= Frozen(h) /\ \A y \in S : y <= Highest(S)
    BY <1>5, <1>6, <1>7, HighestIs, HighestAtMost
<1> QED
    BY <1>5, <1>8 DEF Need, S

LEMMA NeedFalls ==
    ASSUME NEW h, SoundLocks(h), Horizon \in Nat, NEW T \in SUBSET HeldBy(h),
           NEW t \in Nat, NEW u \in Nat, t <= u
    PROVE  /\ Need(h, T, u) <= Need(h, T, t)
           /\ Flat(h, t, u) => Need(h, T, u) = Need(h, T, t)
<1> DEFINE S(v) == {Capped(h, s, v) : s \in T}
<1>1. \A s \in T : s \in LockSources /\ s \in HeldBy(h)
    BY LocksTyped
<1>2. \A s \in T : Capped(h, s, u) <= Capped(h, s, t)
    BY <1>1, CappedFalls
<1>3. \A x \in S(u) : \E y \in S(t) : x <= y
    BY <1>2
<1>4. IsFiniteSet(S(t)) /\ S(t) \subseteq Nat /\ IsFiniteSet(S(u)) /\ S(u) \subseteq Nat
    BY NeedIs
<1>5. Flat(h, t, u) => S(u) = S(t)
    <2> SUFFICES ASSUME Flat(h, t, u) PROVE S(u) = S(t)
        OBVIOUS
    <2>1. \A s \in T : Capped(h, s, u) = Capped(h, s, t)
        BY <1>1, CappedFalls
    <2> QED
        BY <2>1
<1> HIDE DEF S
<1>6. Highest(S(u)) <= Highest(S(t))
    BY <1>3, <1>4, HighestLeq
<1>7. Need(h, T, u) = Highest(S(u)) /\ Need(h, T, t) = Highest(S(t))
    BY DEF Need, S
<1> QED
    BY <1>5, <1>6, <1>7

LEMMA EnvelopeIsNeed ==
    ASSUME NEW h, NEW t
    PROVE  /\ Envelope(h, t) = Need(h, HeldBy(h), t)
           /\ Dated(h, t) = Need(h, HeldBy(h) \ {"static"}, t)
BY DEF Envelope, Dated, Need

LEMMA EnvelopeFalls ==
    ASSUME NEW h, SoundLocks(h), Horizon \in Nat, NEW t \in Nat, NEW u \in Nat, t <= u
    PROVE  /\ Envelope(h, t) \in Nat /\ Envelope(h, t) <= Frozen(h) /\ Envelope(h, u) <= Envelope(h, t)
           /\ Flat(h, t, u) => Envelope(h, u) = Envelope(h, t)
           /\ Dated(h, t) \in Nat /\ Dated(h, u) <= Dated(h, t)
           /\ Flat(h, t, u) => Dated(h, u) = Dated(h, t)
<1>1. HeldBy(h) \in SUBSET HeldBy(h) /\ HeldBy(h) \ {"static"} \in SUBSET HeldBy(h)
    OBVIOUS
<1>2. \A T \in SUBSET HeldBy(h) :
        /\ Need(h, T, t) \in Nat /\ Need(h, T, t) <= Frozen(h) /\ Need(h, T, u) <= Need(h, T, t)
        /\ Flat(h, t, u) => Need(h, T, u) = Need(h, T, t)
    BY NeedIs, NeedFalls
<1> DEFINE A == HeldBy(h)
           B == HeldBy(h) \ {"static"}
<1>3. /\ Need(h, A, t) \in Nat /\ Need(h, A, t) <= Frozen(h) /\ Need(h, A, u) <= Need(h, A, t)
      /\ Flat(h, t, u) => Need(h, A, u) = Need(h, A, t)
    BY <1>1, <1>2
<1>4. /\ Need(h, B, t) \in Nat /\ Need(h, B, t) <= Frozen(h) /\ Need(h, B, u) <= Need(h, B, t)
      /\ Flat(h, t, u) => Need(h, B, u) = Need(h, B, t)
    BY <1>1, <1>2
<1>5. \A v : Envelope(h, v) = Need(h, A, v) /\ Dated(h, v) = Need(h, B, v)
    BY EnvelopeIsNeed
<1> HIDE DEF A, B
<1> QED
    BY <1>3, <1>4, <1>5

LEMMA StepsAre ==
    ASSUME NEW h, SoundLocks(h), TimelineAssumption
    PROVE  /\ IsFiniteSet(Steps(h)) /\ Steps(h) \subseteq Nat \ {0}
           /\ \A t \in Steps(h) : t <= Horizon
           /\ IsFiniteSet(Priors(h)) /\ Priors(h) \subseteq Nat \ {0}
           /\ \A t \in Priors(h) : t <= Horizon
           /\ IsFiniteSet(KeptSteps(h)) /\ KeptSteps(h) \subseteq Steps(h)
           /\ Highest(KeptSteps(h)) = Highest(Steps(h))
<1>1. Horizon \in Nat /\ MAX_TIMELINE_STEPS \in Nat \ {0}
    BY DEF TimelineAssumption
<1>2. /\ \A c \in h.vote.classes : c.unlock \in Nat /\ c.unlock <= Horizon
      /\ h.vesting.end \in Nat /\ h.vesting.end <= Horizon
    BY <1>1, LocksTyped
<1>3. Priors(h) \subseteq Nat \ {0} /\ \A t \in Priors(h) : t <= Horizon
    BY <1>2 DEF Priors
<1>4. Steps(h) \subseteq Nat \ {0} /\ \A t \in Steps(h) : t <= Horizon
    BY <1>2, <1>3 DEF Steps
<1>5. \A S \in SUBSET (Nat \ {0}) : (\A t \in S : t <= Horizon) => IsFiniteSet(S)
    <2> SUFFICES ASSUME NEW S \in SUBSET (Nat \ {0}), \A t \in S : t <= Horizon
                 PROVE  IsFiniteSet(S)
        OBVIOUS
    <2>1. S \in SUBSET Nat
        OBVIOUS
    <2> QED
        BY <1>1, <2>1, FS_BoundedSetOfNaturals
<1>6. IsFiniteSet(Steps(h)) /\ IsFiniteSet(Priors(h))
    BY <1>3, <1>4, <1>5
<1>7. CASE Cardinality(Steps(h)) <= MAX_TIMELINE_STEPS
    <2>1. KeptSteps(h) = Steps(h)
        BY <1>7 DEF KeptSteps
    <2> QED
        BY <2>1, <1>3, <1>4, <1>6
<1>8. CASE ~(Cardinality(Steps(h)) <= MAX_TIMELINE_STEPS)
    <2>1. Cardinality(Steps(h)) \in Nat /\ Steps(h) # {}
        BY <1>1, <1>6, <1>8, FS_EmptySet, FS_CardinalityType
    <2>2. Steps(h) \subseteq Int
        BY <1>4
    <2>3. Max(Steps(h)) \in Steps(h) /\ \A y \in Steps(h) : y <= Max(Steps(h))
        BY <1>6, <2>1, <2>2, MaxIsGreatest
    <2>4. KeptSteps(h) = Earliest(MAX_TIMELINE_STEPS - 1, Steps(h)) \cup {Max(Steps(h))}
        BY <1>8 DEF KeptSteps
    <2>5. KeptSteps(h) \subseteq Steps(h) /\ Max(Steps(h)) \in KeptSteps(h)
        BY <2>3, <2>4 DEF Earliest
    <2>6. IsFiniteSet(KeptSteps(h))
        BY <1>6, <2>5, FS_Subset
    <2>7. Highest(Steps(h)) = Max(Steps(h))
        <3>1. Steps(h) \subseteq Nat /\ Max(Steps(h)) \in Steps(h) \cup {0}
            BY <1>4, <2>3
        <3> QED
            BY <3>1, <2>3, <1>6, HighestKnown
    <2>8. Highest(KeptSteps(h)) = Max(Steps(h))
        <3>1. KeptSteps(h) \subseteq Nat /\ Max(Steps(h)) \in KeptSteps(h) \cup {0}
            BY <1>4, <2>5
        <3>2. \A y \in KeptSteps(h) : y <= Max(Steps(h))
            BY <2>3, <2>5
        <3> QED
            BY <3>1, <3>2, <2>6, HighestKnown
    <2> QED
        BY <1>3, <1>4, <1>6, <2>5, <2>6, <2>7, <2>8
<1> QED
    BY <1>7, <1>8

\* Later the last date nothing changes.
LEMMA FlatAtEnd ==
    ASSUME NEW h, SoundLocks(h), TimelineAssumption, NEW t \in Nat, NEW u \in Nat,
           Highest(Steps(h)) <= t, t <= u
    PROVE  Flat(h, t, u)
<1>1. Horizon \in Nat
    BY DEF TimelineAssumption
<1>2. IsFiniteSet(Steps(h)) /\ Steps(h) \subseteq Nat /\ \A v \in Steps(h) : v \in Nat
    BY StepsAre
<1>3. \A v \in Steps(h) : v <= Highest(Steps(h)) /\ Highest(Steps(h)) \in Nat
    BY <1>2, HighestIs
<1>4. \A v \in Steps(h) : ~(t < v)
    BY <1>2, <1>3
<1>5. /\ h.vesting.end \in Nat /\ StillVesting(h) \in Nat /\ h.vesting.amount \in Nat
      /\ h.vesting.claimable \in Nat /\ OnChain(h)["vesting"] = h.vesting.amount
    BY <1>1, LocksTyped
<1>6. h.vesting.end <= t \/ StillVesting(h) = 0
    <2> SUFFICES ASSUME StillVesting(h) # 0, h.vesting.end # 0 PROVE h.vesting.end <= t
        BY <1>5
    <2>1. h.vesting.amount > 0
        BY <1>5 DEF StillVesting
    <2>2. "vesting" \in HeldBy(h)
        BY <2>1, <1>5 DEF HeldBy, LockSources
    <2>3. h.vesting.end \in Steps(h)
        BY <2>2, <1>5 DEF Steps
    <2> QED
        BY <2>3, <1>4, <1>2
<1> QED
    BY <1>4, <1>6 DEF Flat

----------------------------------------------------------------------------
(* The timeline of an account. *)

Stated(s, states) == s.state \in states /\ s.amount \in Nat \ {0} /\ s.until \in Instant
                        /\ s.cause \subseteq LockSources

\* One slice, unless it would be empty.
LEMMA OneOrNone ==
    ASSUME NEW r \in Nat, NEW x, x.amount = r, NEW S, S = IF r = 0 THEN {} ELSE {x}
    PROVE  IsFiniteSet(S) /\ Total(S) = r
<1>1. CASE r = 0
    BY <1>1, FS_EmptySet, TotalEmpty
<1>2. CASE r # 0
    <2>1. S = {x} /\ x.amount \in Int
        BY <1>2
    <2>2. Total({x}) = x.amount /\ IsFiniteSet({x})
        BY <2>1, TotalSingle
    <2> QED
        BY <2>1, <2>2
<1> QED
    BY <1>1, <1>2

LEMMA SoftShownIs ==
    ASSUME NEW h, SoundLocks(h), Horizon \in Nat
    PROVE  /\ SoftFloor(h) \in Nat /\ SoftFloor(h) <= Frozen(h)
           /\ SoftShown(h) = IF SoftFloor(h) > Envelope(h, 0) THEN SoftFloor(h) - Envelope(h, 0) ELSE 0
           /\ SoftFloor(h) # 0 => SoftFloor(h) = Open(h, "vote")
<1>1. Envelope(h, 0) \in Nat
    BY EnvelopeFalls
<1>2. SoftFloor(h) \in Nat /\ SoftFloor(h) <= Frozen(h)
    <2>1. Frozen(h) \in Nat /\ \A s \in HeldBy(h) : OnChain(h)[s] <= Frozen(h)
        BY FrozenIs
    <2>2. CASE "vote" \notin HeldBy(h)
        BY <2>1, <2>2 DEF SoftFloor
    <2>3. CASE "vote" \in HeldBy(h)
        <3> DEFINE f == [c \in h.vote.classes |-> c.active]
                   S == {f[c] : c \in h.vote.classes}
        <3>1. S = {c.active : c \in h.vote.classes}
            OBVIOUS
        <3>2. \A c \in h.vote.classes : f[c] \in Nat
            BY LocksTyped
        <3>3. IsFiniteSet(S) /\ S \subseteq Nat
            <4> HIDE DEF f
            <4> QED
                BY <3>2, ClassValues
        <3>4. h.vote.amount \in Nat /\ OnChain(h)["vote"] = h.vote.amount
            BY LocksTyped
        <3>5. SoftFloor(h) = Lower(h.vote.amount, Highest(S))
            BY <2>3, <3>1 DEF SoftFloor, Open
        <3> HIDE DEF S
        <3>6. Highest(S) \in Nat
            BY <3>3, HighestIs
        <3>7. SoftFloor(h) \in Nat /\ SoftFloor(h) <= h.vote.amount
            BY <3>4, <3>5, <3>6, LowerIs
        <3>8. h.vote.amount <= Frozen(h)
            BY <2>1, <2>3, <3>4
        <3> QED
            BY <2>1, <3>4, <3>7, <3>8
    <2> QED
        BY <2>2, <2>3
<1>3. SoftShown(h) = IF SoftFloor(h) > Envelope(h, 0) THEN SoftFloor(h) - Envelope(h, 0) ELSE 0
    <2> DEFINE z == SoftFloor(h) - Envelope(h, 0)
               U == {z} \cup {0}
    <2>1. SoftShown(h) = Max(U)
        BY DEF SoftShown, Highest
    <2>2. z \in Int
        BY <1>1, <1>2
    <2>6. IsFiniteSet({z})
        BY FS_Singleton
    <2>7. IsFiniteSet(U)
        BY <2>6, FS_AddElement
    <2>3. IsFiniteSet(U) /\ U # {} /\ U \subseteq Int
        BY <2>2, <2>7
    <2>4. Max(U) \in U /\ \A y \in U : y <= Max(U)
        <3> HIDE DEF U
        <3> QED
            BY <2>3, MaxIsGreatest
    <2>5. (Max(U) = z \/ Max(U) = 0) /\ z <= Max(U) /\ 0 <= Max(U)
        BY <2>4
    <2> QED
        BY <2>1, <2>2, <2>5, <1>1, <1>2
<1> QED
    BY <1>2, <1>3 DEF SoftFloor

LEMMA ReleasableIs ==
    ASSUME NEW h, SoundLocks(h), TimelineAssumption
    PROVE  /\ IsFiniteSet(Releasable(h))
           /\ Total(Releasable(h)) = Frozen(h) - Envelope(h, 0) - SoftShown(h)
           /\ \A s \in Releasable(h) : Stated(s, {"releasable"})
<1> DEFINE r == Frozen(h) - Envelope(h, 0) - SoftShown(h)
           x == Slice("releasable", {s \in HeldBy(h) : OnChain(h)[s] = Frozen(h)}, r, 0, FALSE)
<1>0. Horizon \in Nat
    BY DEF TimelineAssumption
<1>1. r \in Nat
    BY <1>0, EnvelopeFalls, FrozenIs, SoftShownIs
<1>2. Releasable(h) = IF r = 0 THEN {} ELSE {x}
    BY DEF Releasable
<1>3. x.amount = r
    BY DEF Slice
<1>4. r # 0 => Stated(x, {"releasable"})
    BY <1>0, <1>1, LocksTyped DEF Stated, Slice, Instant
<1> HIDE DEF r, x
<1>5. IsFiniteSet(Releasable(h)) /\ Total(Releasable(h)) = r
    BY <1>1, <1>2, <1>3, OneOrNone
<1> QED
    BY <1>2, <1>4, <1>5 DEF r

LEMMA SoftOpenIs ==
    ASSUME NEW h, SoundLocks(h), TimelineAssumption
    PROVE  /\ IsFiniteSet(SoftOpen(h)) /\ Total(SoftOpen(h)) = SoftShown(h) /\ SoftShown(h) \in Nat
           /\ \A s \in SoftOpen(h) : /\ Stated(s, {"active"}) /\ s.until = 0
                                     /\ s.cause = {"vote"} /\ s.amount = SoftShown(h)
<1> DEFINE r == SoftShown(h)
           x == Slice("active", {"vote"}, r, 0, FALSE)
<1>0. Horizon \in Nat
    BY DEF TimelineAssumption
<1>1. r \in Nat
    BY <1>0, EnvelopeFalls, SoftShownIs
<1>2. SoftOpen(h) = IF r = 0 THEN {} ELSE {x}
    BY DEF SoftOpen
<1>3. /\ x.amount = r /\ x.until = 0 /\ x.cause = {"vote"}
      /\ r # 0 => Stated(x, {"active"})
    BY <1>0, <1>1 DEF Slice, Stated, Instant, LockSources
<1> HIDE DEF r, x
<1>5. IsFiniteSet(SoftOpen(h)) /\ Total(SoftOpen(h)) = r
    BY <1>1, <1>2, <1>3, OneOrNone
<1> QED
    BY <1>1, <1>2, <1>3, <1>5 DEF r

LEMMA BeforeIs ==
    ASSUME NEW h, SoundLocks(h), TimelineAssumption, NEW t \in Nat
    PROVE  /\ Before(h, t) = LastBefore(KeptSteps(h), t) /\ Before(h, t) \in Nat
           /\ Before(h, t) <= t /\ Before(h, t) \in KeptSteps(h) \cup {0}
           /\ \A v \in KeptSteps(h) : ~(Before(h, t) < v /\ v < t)
           /\ Highest(UpTo(KeptSteps(h), t)) \in Nat /\ Highest(UpTo(KeptSteps(h), t)) <= t
           /\ IsFiniteSet(UpTo(KeptSteps(h), t)) /\ UpTo(KeptSteps(h), t) \subseteq Nat
<1> DEFINE S == {v \in KeptSteps(h) : v < t}
<1>1. IsFiniteSet(KeptSteps(h)) /\ \A v \in KeptSteps(h) : v \in Nat
    BY StepsAre
<1>2. IsFiniteSet(S) /\ S \subseteq Nat /\ \A v \in S : v <= t
    BY <1>1, FS_Subset
<1>3. Before(h, t) = Highest(S) /\ LastBefore(KeptSteps(h), t) = Highest(S)
    BY DEF Before, LastBefore
<1>4. /\ Highest(S) \in Nat /\ Highest(S) \in S \cup {0} /\ Highest(S) <= t
      /\ \A y \in S : y <= Highest(S)
    <2> HIDE DEF S
    <2> QED
        BY <1>2, HighestIs, HighestAtMost
<1>5. \A v \in KeptSteps(h) : ~(Highest(S) < v /\ v < t)
    BY <1>1, <1>4
<1> DEFINE U == UpTo(KeptSteps(h), t)
<1>6. IsFiniteSet(U) /\ U \subseteq Nat /\ \A v \in U : v <= t
    BY <1>1, FS_Subset DEF UpTo
<1>7. Highest(U) \in Nat /\ Highest(U) <= t
    <2> HIDE DEF U
    <2> QED
        BY <1>6, HighestIs, HighestAtMost
<1> QED
    BY <1>3, <1>4, <1>5, <1>6, <1>7

LEMMA ScheduledIs ==
    ASSUME NEW h, SoundLocks(h), TimelineAssumption, NEW u \in Nat
    PROVE  /\ \A s \in Scheduled(h) : Stated(s, {"scheduled"})
           /\ IsFiniteSet({s \in Scheduled(h) : s.until <= u})
           /\ Total({s \in Scheduled(h) : s.until <= u})
                    = Envelope(h, 0) - Envelope(h, Highest(UpTo(KeptSteps(h), u)))
<1> DEFINE K == KeptSteps(h)
           D == Drops(h)
           e == [v \in Nat |-> Envelope(h, v)]
           F(t) == Slice("scheduled", Binding(h, Before(h, t)), Envelope(h, Before(h, t)) - Envelope(h, t), t,
                         "vesting" \in Binding(h, Before(h, t)))
           m == [t \in K |-> F(t)]
<1>0. Horizon \in Nat
    BY DEF TimelineAssumption
<1>1. K \subseteq Nat \ {0} /\ \A t \in K : t <= Horizon
    BY StepsAre
<1>2. \A t \in K : Before(h, t) = LastBefore(K, t) /\ Before(h, t) \in Nat /\ Before(h, t) <= t
    BY <1>1, BeforeIs
<1>3. \A v \in Nat : Envelope(h, v) \in Nat
    BY <1>0, EnvelopeFalls
<1>4. e \in [Nat -> Int] /\ \A v \in Nat : e[v] = Envelope(h, v)
    BY <1>3
<1>5. D \subseteq K /\ \A t \in K : t \in D <=> Envelope(h, t) < Envelope(h, Before(h, t))
    BY DEF Drops
<1>6. \A t \in K : Envelope(h, t) <= Envelope(h, Before(h, t))
    BY <1>0, <1>1, <1>2, EnvelopeFalls
<1>7. \A t \in K \ D : e[LastBefore(K, t)] = e[t]
    <2> SUFFICES ASSUME NEW t \in K \ D PROVE e[LastBefore(K, t)] = e[t]
        OBVIOUS
    <2>1. t \in Nat /\ Before(h, t) \in Nat /\ Before(h, t) = LastBefore(K, t)
        BY <1>1, <1>2
    <2>2. Envelope(h, t) \in Nat /\ Envelope(h, Before(h, t)) \in Nat
        BY <1>3, <2>1
    <2>3. Envelope(h, t) = Envelope(h, Before(h, t))
        BY <1>5, <1>6, <2>2
    <2> QED
        BY <2>1, <2>3, <1>4
<1>8. \A t \in K : m[t].until = t /\ m[t].amount = e[LastBefore(K, t)] - e[t]
    <2> SUFFICES ASSUME NEW t \in K PROVE m[t].until = t /\ m[t].amount = e[LastBefore(K, t)] - e[t]
        OBVIOUS
    <2>1. t \in Nat /\ Before(h, t) \in Nat /\ Before(h, t) = LastBefore(K, t)
        BY <1>1, <1>2
    <2>2. m[t].until = t /\ m[t].amount = Envelope(h, Before(h, t)) - Envelope(h, t)
        BY DEF Slice
    <2> HIDE DEF m, e, F
    <2> QED
        BY <2>1, <2>2, <1>4
<1>9. Scheduled(h) = {m[t] : t \in D}
    BY <1>5 DEF Scheduled
<1>10. \A s \in Scheduled(h) : Stated(s, {"scheduled"})
    <2> SUFFICES ASSUME NEW t \in D PROVE Stated(F(t), {"scheduled"})
        BY DEF Scheduled
    <2>1. t \in K /\ t \in Nat /\ t <= Horizon /\ Before(h, t) \in Nat
        BY <1>1, <1>2, <1>5
    <2>2. Envelope(h, Before(h, t)) - Envelope(h, t) \in Nat \ {0}
        BY <1>3, <1>5, <2>1
    <2>3. Binding(h, Before(h, t)) \subseteq LockSources
        BY <1>0, LocksTyped DEF Binding
    <2> QED
        BY <2>1, <2>2, <2>3, <1>0 DEF Stated, Slice, Instant
<1> HIDE DEF m, e, D, K, F
<1>11. /\ IsFiniteSet({s \in Scheduled(h) : s.until <= u})
       /\ Total({s \in Scheduled(h) : s.until <= u}) = e[0] - e[Highest(UpTo(K, u))]
    <2>1. K \subseteq Nat \ {0} /\ D \subseteq K
        BY <1>1, <1>5
    <2>2. e \in [Nat -> Int]
        BY <1>4
    <2>3. IsStair(K, e, D, m)
        BY <2>1, <2>2, <1>7, <1>8 DEF IsStair
    <2> DEFINE A == Scheduled(h)
               B == {s \in A : s.until <= u}
    <2>4. A = {m[t] : t \in D} /\ B = {s \in A : s.until <= u}
        BY <1>9
    <2> HIDE DEF A, B
    <2>5. IsFiniteSet(B) /\ Total(B) = e[0] - e[Highest(UpTo(K, u))]
        <3>1. IsFlight(D, m, A, B, u)
            BY <2>4 DEF IsFlight
        <3> QED
            BY <2>3, <3>1, StairTotal
    <2> QED
        BY <2>5 DEF A, B
<1>13. e[0] = Envelope(h, 0) /\ e[Highest(UpTo(K, u))] = Envelope(h, Highest(UpTo(K, u)))
    BY <1>4, BeforeIs DEF K
<1> QED
    BY <1>10, <1>11, <1>13 DEF K

LEMMA ResidualIs ==
    ASSUME NEW h, SoundLocks(h), TimelineAssumption
    PROVE  /\ IsFiniteSet(Residual(h)) /\ Total(Residual(h)) = Rest(h) /\ Rest(h) \in Nat
           /\ Rest(h) <= Envelope(h, 0)
           /\ \A s \in Residual(h) : /\ Stated(s, {"active"}) /\ s.until = NotBefore(h) /\ s.amount = Rest(h)
                                     /\ s.cause = {q \in HeldBy(h) : Open(h, q) = Rest(h)} /\ Rest(h) # 0
           /\ NotBefore(h) \in KeptSteps(h) \cup {0}
           /\ NotBefore(h) # 0 => Dated(h, Before(h, NotBefore(h))) >= Rest(h)
<1> DEFINE r == Rest(h)
           x == Slice("active", {s \in HeldBy(h) : Open(h, s) = r}, r, NotBefore(h), FALSE)
           N == {t \in KeptSteps(h) : Dated(h, Before(h, t)) >= r}
<1>0. Horizon \in Nat
    BY DEF TimelineAssumption
<1>1. IsFiniteSet(KeptSteps(h)) /\ KeptSteps(h) \subseteq Nat /\ \A t \in KeptSteps(h) : t <= Horizon
    BY StepsAre
<1>2. Highest(KeptSteps(h)) \in Nat
    BY <1>1, HighestIs
<1>3. r \in Nat /\ r <= Envelope(h, 0)
    BY <1>0, <1>2, EnvelopeFalls DEF Rest
<1>4. IsFiniteSet(N) /\ N \subseteq Nat
    BY <1>1, FS_Subset
<1>5. NotBefore(h) = Highest(N)
    BY DEF NotBefore
<1>6. NotBefore(h) \in N \cup {0}
    <2> HIDE DEF N
    <2> QED
        BY <1>4, <1>5, HighestIs
<1>7. NotBefore(h) \in Instant
    BY <1>0, <1>1, <1>6 DEF Instant
<1>8. Residual(h) = IF r = 0 THEN {} ELSE {x}
    BY DEF Residual
<1>9. /\ x.amount = r /\ x.until = NotBefore(h) /\ x.cause = {s \in HeldBy(h) : Open(h, s) = r}
      /\ r # 0 => Stated(x, {"active"})
    BY <1>0, <1>3, <1>7, LocksTyped DEF Slice, Stated
<1>10. NotBefore(h) \in KeptSteps(h) \cup {0} /\ (NotBefore(h) # 0 => Dated(h, Before(h, NotBefore(h))) >= r)
    BY <1>6
<1> HIDE DEF r, x
<1>11. IsFiniteSet(Residual(h)) /\ Total(Residual(h)) = r
    BY <1>3, <1>8, <1>9, OneOrNone
<1> QED
    BY <1>3, <1>8, <1>9, <1>10, <1>11 DEF r

AnyState == {"releasable", "scheduled", "active"}

\* The slices of an account make up what is frozen, and the rest at every date.
LEMMA TimelineIs ==
    ASSUME NEW h, SoundLocks(h), TimelineAssumption
    PROVE  /\ IsFiniteSet(Timeline(h)) /\ \A s \in Timeline(h) : Stated(s, AnyState)
           /\ Total(Timeline(h)) = Frozen(h)
           /\ \A t \in Nat : ReleasedBy(Timeline(h), t)
                    = Frozen(h) - SoftShown(h) - Envelope(h, Highest(UpTo(KeptSteps(h), t)))
<1> DEFINE A == Releasable(h)
           B == SoftOpen(h)
           C == Scheduled(h)
           D == Residual(h)
           K == KeptSteps(h)
           Done(t) == {s \in C : s.until <= t}
<1>0. Horizon \in Nat
    BY DEF TimelineAssumption
<1>1. /\ IsFiniteSet(A) /\ Total(A) = Frozen(h) - Envelope(h, 0) - SoftShown(h)
      /\ \A s \in A : Stated(s, {"releasable"})
    BY ReleasableIs
<1>2. /\ IsFiniteSet(B) /\ Total(B) = SoftShown(h) /\ SoftShown(h) \in Nat
      /\ \A s \in B : /\ Stated(s, {"active"}) /\ s.until = 0
                      /\ s.cause = {"vote"} /\ s.amount = SoftShown(h)
    BY SoftOpenIs
<1>3. \A t \in Nat : /\ \A s \in C : Stated(s, {"scheduled"})
                     /\ IsFiniteSet(Done(t))
                     /\ Total(Done(t)) = Envelope(h, 0) - Envelope(h, Highest(UpTo(K, t)))
    BY ScheduledIs
<1>4. /\ IsFiniteSet(D) /\ Total(D) = Rest(h) /\ Rest(h) \in Nat /\ Rest(h) <= Envelope(h, 0)
      /\ \A s \in D : /\ Stated(s, {"active"}) /\ s.until = NotBefore(h) /\ s.amount = Rest(h)
                      /\ s.cause = {q \in HeldBy(h) : Open(h, q) = Rest(h)} /\ Rest(h) # 0
    BY ResidualIs
<1>5. /\ Frozen(h) \in Nat /\ Envelope(h, 0) \in Nat /\ Envelope(h, 0) <= Frozen(h)
      /\ \A t \in Nat : Envelope(h, Highest(UpTo(K, t))) \in Nat
    BY <1>0, FrozenIs, EnvelopeFalls, BeforeIs
<1>6. Timeline(h) = A \cup B \cup C \cup D
    BY DEF Timeline
<1>7. /\ \A s \in A : s.state = "releasable" /\ s.amount \in Int
      /\ \A s \in B : s.state = "active" /\ s.amount \in Int
      /\ \A s \in C : s.state = "scheduled" /\ s.amount \in Int
      /\ \A s \in D : s.state = "active" /\ s.amount \in Int
    <2>1. \A s \in C : Stated(s, {"scheduled"})
        BY <1>0, <1>3
    <2> HIDE DEF A, B, C, D
    <2> QED
        BY <2>1, <1>1, <1>2, <1>4 DEF Stated
<1>8. Done(Horizon) = C
    <2>1. \A s \in C : s.until \in 0 .. Horizon
        BY <1>0, <1>3 DEF Stated, Instant
    <2> QED
        BY <1>0, <2>1
<1>9. UpTo(K, Horizon) = K
    BY StepsAre DEF UpTo
<1>10. IsFiniteSet(C) /\ Total(C) = Envelope(h, 0) - Rest(h)
    BY <1>0, <1>3, <1>8, <1>9 DEF Rest
\* An open vote and an open rest of one amount would be one slice: there are no such.
<1>11. B \cap D = {}
    <2> SUFFICES ASSUME NEW s \in B, s \in D PROVE FALSE
        OBVIOUS
    <2>1. s.cause = {"vote"} /\ s.amount = SoftShown(h) /\ s.amount = Rest(h) /\ Rest(h) # 0
        BY <1>2, <1>4
    <2>2. s.cause = {q \in HeldBy(h) : Open(h, q) = Rest(h)}
        BY <1>4
    <2>3. Open(h, "vote") = Rest(h)
        BY <2>1, <2>2
    <2>4. SoftShown(h) = IF SoftFloor(h) > Envelope(h, 0) THEN SoftFloor(h) - Envelope(h, 0) ELSE 0
        BY <1>0, SoftShownIs
    <2>5. SoftFloor(h) \in Nat /\ (SoftFloor(h) # 0 => SoftFloor(h) = Open(h, "vote"))
        BY <1>0, SoftShownIs
    <2> HIDE DEF A, B, C, D
    <2>6. SoftFloor(h) > Envelope(h, 0)
        BY <2>1, <2>4, <1>4
    <2>7. SoftFloor(h) = Rest(h)
        BY <2>3, <2>5, <2>6, <1>5
    <2> QED
        BY <2>6, <2>7, <1>4, <1>5
<1>12. Total(A \cup B) = Total(A) + Total(B) /\ IsFiniteSet(A \cup B)
    <2>1. A \cap B = {} /\ \A s \in A \cup B : s.amount \in Int
        BY <1>7
    <2> HIDE DEF A, B
    <2> QED
        BY <2>1, <1>1, <1>2, TotalUnion
<1>13. Total((A \cup B) \cup C) = Total(A \cup B) + Total(C) /\ IsFiniteSet((A \cup B) \cup C)
    <2>1. (A \cup B) \cap C = {} /\ \A s \in (A \cup B) \cup C : s.amount \in Int
        BY <1>7
    <2> HIDE DEF A, B, C
    <2> QED
        BY <2>1, <1>12, <1>10, TotalUnion
<1>14. Total(((A \cup B) \cup C) \cup D) = Total((A \cup B) \cup C) + Total(D) /\ IsFiniteSet(((A \cup B) \cup C) \cup D)
    <2>1. ((A \cup B) \cup C) \cap D = {} /\ \A s \in ((A \cup B) \cup C) \cup D : s.amount \in Int
        BY <1>7, <1>11
    <2> HIDE DEF A, B, C, D
    <2> QED
        BY <2>1, <1>13, <1>4, TotalUnion
<1>15. IsFiniteSet(Timeline(h)) /\ Total(Timeline(h)) = Total((A \cup B) \cup C) + Total(D)
    <2> HIDE DEF A, B, C, D
    <2> QED
        BY <1>6, <1>14
<1>16. Total(Timeline(h)) = Frozen(h)
    <2> HIDE DEF A, B, C, D
    <2> QED
        BY <1>1, <1>2, <1>4, <1>5, <1>10, <1>12, <1>13, <1>15
<1>17. \A s \in Timeline(h) : Stated(s, AnyState)
    <2>1. \A s \in A \cup B \cup C \cup D : Stated(s, AnyState)
        BY <1>0, <1>1, <1>2, <1>3, <1>4 DEF Stated, AnyState
    <2> QED
        BY <1>6, <2>1
<1>18. ASSUME NEW t \in Nat
       PROVE  ReleasedBy(Timeline(h), t) = Frozen(h) - SoftShown(h) - Envelope(h, Highest(UpTo(K, t)))
    <2>1. {s \in Timeline(h) : s.state = "releasable" \/ (s.state = "scheduled" /\ s.until <= t)} = A \cup Done(t)
        BY <1>6, <1>7
    <2>2. ReleasedBy(Timeline(h), t) = Total(A \cup Done(t))
        BY <2>1 DEF ReleasedBy
    <2>3. A \cap Done(t) = {} /\ \A s \in A \cup Done(t) : s.amount \in Int
        BY <1>7
    <2>4. IsFiniteSet(Done(t)) /\ Total(Done(t)) = Envelope(h, 0) - Envelope(h, Highest(UpTo(K, t)))
        BY <1>3
    <2> HIDE DEF A, B, C, D, Done
    <2>5. Total(A \cup Done(t)) = Total(A) + Total(Done(t))
        BY <2>3, <2>4, <1>1, TotalUnion
    <2> QED
        BY <2>2, <2>4, <2>5, <1>1, <1>2, <1>5
<1> QED
    BY <1>15, <1>16, <1>17, <1>18

LEMMA TimelineHolds ==
    ASSUME NEW h, SoundLocks(h), TimelineAssumption, NEW t \in Nat
    PROVE  /\ Frozen(h) - ReleasedBy(Timeline(h), t) >= Envelope(h, t)
           /\ t \in KeptSteps(h) \cup {0, Horizon} =>
                Frozen(h) - ReleasedBy(Timeline(h), t) <= Highest({Envelope(h, t), SoftFloor(h)})
<1> DEFINE K == KeptSteps(h)
           b == Highest(UpTo(K, t))
<1>0. Horizon \in Nat
    BY DEF TimelineAssumption
<1>1. b \in Nat /\ b <= t /\ IsFiniteSet(UpTo(K, t)) /\ UpTo(K, t) \subseteq Nat
    BY BeforeIs
<1>2. /\ Frozen(h) \in Nat /\ SoftShown(h) \in Nat /\ SoftFloor(h) \in Nat
      /\ SoftShown(h) = IF SoftFloor(h) > Envelope(h, 0) THEN SoftFloor(h) - Envelope(h, 0) ELSE 0
    BY <1>0, FrozenIs, SoftShownIs, SoftOpenIs
<1>3. /\ Envelope(h, b) \in Nat /\ Envelope(h, t) \in Nat /\ Envelope(h, 0) \in Nat
      /\ Envelope(h, t) <= Envelope(h, b) /\ Envelope(h, b) <= Envelope(h, 0)
    BY <1>0, <1>1, EnvelopeFalls
<1>4. ReleasedBy(Timeline(h), t) = Frozen(h) - SoftShown(h) - Envelope(h, b)
    BY TimelineIs
<1> HIDE DEF b
<1>5. Frozen(h) - ReleasedBy(Timeline(h), t) = SoftShown(h) + Envelope(h, b)
    BY <1>2, <1>3, <1>4
<1>6. ASSUME t \in K \cup {0, Horizon} PROVE Envelope(h, b) = Envelope(h, t)
    <2>1. CASE t \in K \cup {0}
        <3>1. t \in UpTo(K, t) \cup {0} /\ \A y \in UpTo(K, t) : y <= t
            BY <2>1 DEF UpTo
        <3>2. b = t
            BY <3>1, <1>1, HighestKnown DEF b
        <3> QED
            BY <3>2
    <2>2. CASE t = Horizon
        <3>1. UpTo(K, t) = K
            BY <2>2, StepsAre DEF UpTo
        <3>2. b = Highest(Steps(h))
            BY <3>1, StepsAre DEF b
        <3>3. Flat(h, b, t)
            BY <3>2, <1>1, FlatAtEnd
        <3> QED
            BY <3>3, <1>0, <1>1, EnvelopeFalls
    <2> QED
        BY <1>6, <2>1, <2>2
<1>7. \A n \in {Envelope(h, t), SoftFloor(h)} : n <= Highest({Envelope(h, t), SoftFloor(h)})
                                           /\ Highest({Envelope(h, t), SoftFloor(h)}) \in Nat
    <2> DEFINE U == {Envelope(h, t), SoftFloor(h)}
    <2>1. U = {Envelope(h, t)} \cup {SoftFloor(h)}
        OBVIOUS
    <2>2. IsFiniteSet({Envelope(h, t)})
        BY FS_Singleton
    <2>3. IsFiniteSet(U) /\ U \subseteq Nat
        <3>1. IsFiniteSet({Envelope(h, t)} \cup {SoftFloor(h)})
            BY <2>2, FS_AddElement
        <3>2. U \subseteq Nat
            BY <1>2, <1>3
        <3> QED
            BY <2>1, <3>1, <3>2
    <2> HIDE DEF U
    <2>4. Highest(U) \in Nat /\ \A y \in U : y <= Highest(U)
        BY <2>3, HighestIs
    <2> QED
        BY <2>4 DEF U
<1>8. t \in K \cup {0, Horizon} =>
            SoftShown(h) + Envelope(h, b) <= Highest({Envelope(h, t), SoftFloor(h)})
    BY <1>2, <1>3, <1>6, <1>7
<1> QED
    BY <1>2, <1>3, <1>5, <1>8

\* The date of an open slice is a known minimum.
LEMMA OpenDated ==
    ASSUME NEW h, SoundLocks(h), TimelineAssumption, StillVesting(h) = 0, KeptSteps(h) = Steps(h),
           NEW s \in Timeline(h), s.state = "active", NEW t \in 0 .. s.until - 1
    PROVE  Dated(h, t) >= s.amount
<1>0. Horizon \in Nat
    BY DEF TimelineAssumption
<1>1. s \in SoftOpen(h) \cup Residual(h)
    <2>1. \A x \in Releasable(h) : x.state = "releasable"
        BY ReleasableIs DEF Stated
    <2>2. \A x \in Scheduled(h) : x.state = "scheduled"
        BY <1>0, ScheduledIs DEF Stated
    <2> QED
        BY <2>1, <2>2 DEF Timeline
<1>2. CASE s \in SoftOpen(h)
    <2>1. s.until = 0
        BY <1>2, SoftOpenIs
    <2> QED
        BY <2>1
<1>3. CASE s \in Residual(h)
    <2> DEFINE n == NotBefore(h)
               b == Before(h, n)
    <2>1. /\ s.until = n /\ s.amount = Rest(h) /\ Rest(h) \in Nat
          /\ n \in KeptSteps(h) \cup {0} /\ (n # 0 => Dated(h, b) >= Rest(h))
        BY <1>3, ResidualIs
    <2>2. n \in Nat /\ t \in Nat /\ t < n /\ n # 0
        BY <2>1, StepsAre
    <2>3. b \in Nat /\ b <= n /\ \A v \in KeptSteps(h) : ~(b < v /\ v < n)
        BY <2>2, BeforeIs
    <2>4. Dated(h, t) \in Nat /\ Dated(h, b) \in Nat
        BY <1>0, <2>2, <2>3, EnvelopeFalls
    <2>5. CASE t <= b
        <3>1. Dated(h, b) <= Dated(h, t)
            BY <1>0, <2>2, <2>3, <2>5, EnvelopeFalls
        <3> HIDE DEF n, b
        <3> QED
            BY <3>1, <2>1, <2>2, <2>4
    <2>6. CASE b < t
        <3>1. \A v \in Steps(h) : ~(b < v /\ v <= t)
            <4>1. \A v \in Steps(h) : v \in Nat /\ v \in KeptSteps(h)
                BY StepsAre
            <4> HIDE DEF n, b
            <4> QED
                BY <4>1, <2>2, <2>3
        <3>2. Flat(h, b, t)
            BY <3>1 DEF Flat
        <3>3. Dated(h, t) = Dated(h, b)
            BY <3>2, <1>0, <2>2, <2>3, <2>6, EnvelopeFalls
        <3> HIDE DEF n, b
        <3> QED
            BY <3>3, <2>1, <2>2
    <2> HIDE DEF n, b
    <2> QED
        BY <2>2, <2>3, <2>5, <2>6
<1> QED
    BY <1>1, <1>2, <1>3

----------------------------------------------------------------------------
(* The tranches of one lock. *)

IsTranche(S, state, n) == IsFiniteSet(S) /\ Total(S) = n /\ \A s \in S : Stated(s, {state})

LEMMA TrancheIs ==
    ASSUME NEW state, NEW n \in Nat, NEW until \in Instant, NEW linear,
           NEW S, S = Tranche(state, n, until, linear)
    PROVE  IsTranche(S, state, n)
<1> DEFINE x == Slice(state, {}, n, until, linear)
<1>1. S = IF n = 0 THEN {} ELSE {x}
    BY DEF Tranche
<1>2. /\ x.amount = n /\ x.until = until
      /\ n # 0 => Stated(x, {state})
    BY DEF Stated, Slice
<1> HIDE DEF x
<1>3. IsFiniteSet(S) /\ Total(S) = n
    BY <1>1, <1>2, OneOrNone
<1>4. \A s \in S : Stated(s, {state})
    BY <1>1, <1>2
<1> QED
    BY <1>3, <1>4 DEF IsTranche

LEMMA VestingTranchesAre ==
    ASSUME NEW h, SoundLocks(h), TimelineAssumption
    PROVE  /\ IsFiniteSet(VestingTranches(h)) /\ \A s \in VestingTranches(h) : Stated(s, AnyState)
           /\ Total(VestingTranches(h)) = h.vesting.amount
<1> DEFINE A == Tranche("releasable", h.vesting.claimable, 0, FALSE)
           B == Tranche("scheduled", StillVesting(h), h.vesting.end, TRUE)
<1>0. Horizon \in Nat
    BY DEF TimelineAssumption
<1>1. /\ h.vesting.amount \in Nat /\ h.vesting.claimable \in Nat /\ StillVesting(h) \in Nat
      /\ h.vesting.end \in Instant /\ 0 \in Instant
    BY <1>0, LocksTyped DEF Instant
<1>2. /\ IsFiniteSet(A) /\ Total(A) = h.vesting.claimable
      /\ \A s \in A : Stated(s, {"releasable"})
    <2>1. IsTranche(A, "releasable", h.vesting.claimable)
        BY <1>1, TrancheIs
    <2> HIDE DEF A
    <2> QED
        BY <2>1 DEF IsTranche
<1>3. /\ IsFiniteSet(B) /\ Total(B) = StillVesting(h)
      /\ \A s \in B : Stated(s, {"scheduled"})
    <2>1. IsTranche(B, "scheduled", StillVesting(h))
        BY <1>1, TrancheIs
    <2> HIDE DEF B
    <2> QED
        BY <2>1 DEF IsTranche
<1>4. VestingTranches(h) = A \cup B
    BY DEF VestingTranches
<1> HIDE DEF A, B
<1>5. A \cap B = {} /\ \A s \in A \cup B : s.amount \in Int
    BY <1>2, <1>3 DEF Stated
<1>6. Total(A \cup B) = Total(A) + Total(B) /\ IsFiniteSet(A \cup B)
    BY <1>2, <1>3, <1>5, TotalUnion
<1>7. \A s \in A \cup B : Stated(s, AnyState)
    BY <1>2, <1>3 DEF Stated, AnyState
<1>8. h.vesting.claimable + StillVesting(h) = h.vesting.amount
    BY <1>1 DEF StillVesting
<1> QED
    BY <1>2, <1>3, <1>4, <1>6, <1>7, <1>8

LEMMA VoteBoundFalls ==
    ASSUME NEW h, SoundLocks(h), Horizon \in Nat, NEW t \in Nat, NEW u \in Nat, t <= u
    PROVE  /\ VoteBound(h, t) \in Nat /\ VoteBound(h, t) <= h.vote.amount
           /\ VoteBound(h, u) <= VoteBound(h, t)
           /\ (\A v \in Priors(h) : ~(t < v /\ v <= u)) => VoteBound(h, u) = VoteBound(h, t)
<1> DEFINE f == [c \in h.vote.classes |-> c.active]
           A == {f[c] : c \in h.vote.classes}
           S(v) == {PriorEnv(h, v)} \cup A
<1>1. \A c \in h.vote.classes : f[c] \in Nat
    BY LocksTyped
<1>2. IsFiniteSet(A) /\ A \subseteq Nat
    <2> HIDE DEF f
    <2> QED
        BY <1>1, ClassValues
<1>3. \A v : VoteBound(h, v) = Lower(h.vote.amount, Highest(S(v)))
    <2>1. A = {c.active : c \in h.vote.classes}
        OBVIOUS
    <2> QED
        BY <2>1 DEF VoteBound
<1>4. /\ PriorEnv(h, t) \in Nat /\ PriorEnv(h, u) \in Nat /\ PriorEnv(h, u) <= PriorEnv(h, t)
      /\ (\A v \in Priors(h) : ~(t < v /\ v <= u)) => PriorEnv(h, u) = PriorEnv(h, t)
    BY PriorEnvFalls
<1> HIDE DEF A
<1>5. IsFiniteSet(S(t)) /\ S(t) \subseteq Nat /\ IsFiniteSet(S(u)) /\ S(u) \subseteq Nat
    <2>1. IsFiniteSet({PriorEnv(h, t)}) /\ IsFiniteSet({PriorEnv(h, u)})
        BY FS_Singleton
    <2> QED
        BY <2>1, <1>2, <1>4, FS_Union
<1>6. \A x \in S(u) : \E y \in S(t) : x <= y
    <2> SUFFICES ASSUME NEW x \in S(u) PROVE \E y \in S(t) : x <= y
        OBVIOUS
    <2>1. CASE x \in A
        <3>1. x <= x /\ x \in S(t)
            BY <2>1, <1>2
        <3> QED
            BY <3>1
    <2>2. CASE x = PriorEnv(h, u)
        BY <2>2, <1>4
    <2> QED
        BY <2>1, <2>2
<1>7. (\A v \in Priors(h) : ~(t < v /\ v <= u)) => S(u) = S(t)
    BY <1>4
<1>8. h.vote.amount \in Nat
    BY LocksTyped
<1> HIDE DEF S
<1>9. Highest(S(t)) \in Nat /\ Highest(S(u)) \in Nat /\ Highest(S(u)) <= Highest(S(t))
    BY <1>5, <1>6, HighestIs, HighestLeq
<1>10. /\ Lower(h.vote.amount, Highest(S(t))) \in Nat
       /\ Lower(h.vote.amount, Highest(S(t))) <= h.vote.amount
       /\ Lower(h.vote.amount, Highest(S(u))) <= Lower(h.vote.amount, Highest(S(t)))
    BY <1>8, <1>9, LowerIs
<1> QED
    BY <1>3, <1>7, <1>10

LEMMA VoteTranchesParts ==
    ASSUME NEW h, h.vote.amount # 0, NEW x
    PROVE  x \in VoteTranches(h) <=>
                \/ x \in Tranche("releasable", h.vote.amount - VoteBound(h, 0), 0, FALSE)
                \/ \E t \in Priors(h) :
                        x \in Tranche("scheduled", VoteBound(h, LastBefore(Priors(h), t)) - VoteBound(h, t), t, FALSE)
                \/ x \in Tranche("active", VoteBound(h, Highest(Priors(h))), 0, FALSE)
<1>1. x \in VoteTranches(h) <=>
            \/ x \in Tranche("releasable", h.vote.amount - VoteBound(h, 0), 0, FALSE)
            \/ \E t \in Priors(h) :
                    x \in Tranche("scheduled", VoteBound(h, LastPrior(h, t)) - VoteBound(h, t), t, FALSE)
            \/ x \in Tranche("active", VoteBound(h, Highest(Priors(h))), 0, FALSE)
    BY DEF VoteTranches
<1>2. ASSUME NEW t
      PROVE  LastPrior(h, t) = LastBefore(Priors(h), t)
    BY DEF LastPrior, LastBefore
<1>3. ASSUME NEW t
      PROVE  Tranche("scheduled", VoteBound(h, LastPrior(h, t)) - VoteBound(h, t), t, FALSE)
                = Tranche("scheduled", VoteBound(h, LastBefore(Priors(h), t)) - VoteBound(h, t), t, FALSE)
    BY <1>2
<1> QED
    BY <1>1, <1>3

LEMMA VoteTranchesAre ==
    ASSUME NEW h, SoundLocks(h), TimelineAssumption
    PROVE  /\ IsFiniteSet(VoteTranches(h)) /\ \A s \in VoteTranches(h) : Stated(s, AnyState)
           /\ Total(VoteTranches(h)) = h.vote.amount
           /\ \A t \in Nat : h.vote.amount - ReleasedBy(VoteTranches(h), t) = VoteBound(h, t)
<1>0. Horizon \in Nat
    BY DEF TimelineAssumption
<1>1. /\ h.vote.amount \in Nat
      /\ \A t \in Nat : VoteBound(h, t) \in Nat /\ VoteBound(h, t) <= h.vote.amount
    BY <1>0, LocksTyped, VoteBoundFalls
<1>2. CASE h.vote.amount = 0
    <2>1. VoteTranches(h) = {}
        BY <1>2 DEF VoteTranches
    <2>2. \A t : {s \in {} : s.state = "releasable" \/ (s.state = "scheduled" /\ s.until <= t)} = {}
        OBVIOUS
    <2>3. \A t : ReleasedBy({}, t) = 0
        BY <2>2, TotalEmpty DEF ReleasedBy
    <2>4. \A t \in Nat : VoteBound(h, t) = 0
        BY <1>1, <1>2
    <2> QED
        BY <1>2, <2>1, <2>3, <2>4, TotalEmpty, FS_EmptySet
<1>3. CASE h.vote.amount # 0
    <2> DEFINE K == Priors(h)
               e == [v \in Nat |-> VoteBound(h, v)]
               F(t) == Slice("scheduled", {}, VoteBound(h, LastBefore(K, t)) - VoteBound(h, t), t, FALSE)
               m == [t \in K |-> F(t)]
               D == {t \in K : VoteBound(h, LastBefore(K, t)) # VoteBound(h, t)}
               A == Tranche("releasable", h.vote.amount - VoteBound(h, 0), 0, FALSE)
               B == UNION {Tranche("scheduled", VoteBound(h, LastBefore(K, t)) - VoteBound(h, t), t, FALSE)
                                : t \in K}
               C == Tranche("active", VoteBound(h, Highest(K)), 0, FALSE)
    <2>1. IsFiniteSet(K) /\ K \subseteq Nat \ {0} /\ K \subseteq Nat /\ \A t \in K : t \in Nat /\ t <= Horizon
        BY StepsAre
    <2>2. VoteTranches(h) = A \cup B \cup C
        <3>1. \A x : x \in VoteTranches(h) <=> x \in A \/ x \in B \/ x \in C
            BY <1>3, VoteTranchesParts
        <3> HIDE DEF A, B, C
        <3> QED
            BY <3>1
    <2>3. \A t \in Nat : LastBefore(K, t) \in Nat /\ LastBefore(K, t) <= t
        <3> SUFFICES ASSUME NEW t \in Nat PROVE LastBefore(K, t) \in Nat /\ LastBefore(K, t) <= t
            OBVIOUS
        <3> DEFINE S == {v \in K : v < t}
        <3>1. IsFiniteSet(S) /\ S \subseteq Nat /\ \A v \in S : v <= t
            BY <2>1, FS_Subset
        <3>2. LastBefore(K, t) = Highest(S)
            BY DEF LastBefore
        <3> HIDE DEF S
        <3> QED
            BY <3>1, <3>2, HighestIs, HighestAtMost
    <2>4. e \in [Nat -> Int] /\ \A v \in Nat : e[v] = VoteBound(h, v)
        BY <1>1
    <2>5. B = {m[t] : t \in D}
        <3>1. \A t \in K : /\ VoteBound(h, LastBefore(K, t)) \in Nat /\ VoteBound(h, t) \in Nat
            BY <1>1, <2>1, <2>3
        <3>2. \A t \in K : VoteBound(h, LastBefore(K, t)) - VoteBound(h, t) = 0 <=> t \notin D
            BY <3>1
        <3>3. \A t \in K : Tranche("scheduled", VoteBound(h, LastBefore(K, t)) - VoteBound(h, t), t, FALSE)
                                = IF t \in D THEN {m[t]} ELSE {}
            BY <3>2 DEF Tranche
        <3> HIDE DEF m, F
        <3> DEFINE H(t) == Tranche("scheduled", VoteBound(h, LastBefore(K, t)) - VoteBound(h, t), t, FALSE)
        <3>6. \A x : x \in B <=> \E t \in K : x \in H(t)
            OBVIOUS
        <3>4. \A x : x \in B <=> \E t \in K : x \in IF t \in D THEN {m[t]} ELSE {}
            <4>1. \A t \in K : H(t) = IF t \in D THEN {m[t]} ELSE {}
                BY <3>3
            <4> HIDE DEF H, B, D, K
            <4> QED
                BY <3>6, <4>1
        <3>5. D \subseteq K
            OBVIOUS
        <3> HIDE DEF B, D
        <3> QED
            BY <3>4, <3>5
    <2>6. IsStair(K, e, D, m)
        <3>1. D \subseteq K
            OBVIOUS
        <3>2. \A t \in K : m[t].until = t /\ m[t].amount = VoteBound(h, LastBefore(K, t)) - VoteBound(h, t)
            BY DEF Slice
        <3>3. \A t \in K : t \in Nat /\ LastBefore(K, t) \in Nat
            BY <2>1, <2>3
        <3>4. \A t \in K \ D : VoteBound(h, LastBefore(K, t)) = VoteBound(h, t)
            OBVIOUS
        <3> HIDE DEF m, e, F, D, K
        <3>5. \A t \in K : m[t].until = t /\ m[t].amount = e[LastBefore(K, t)] - e[t]
            BY <3>2, <3>3, <2>4
        <3>6. \A t \in K \ D : e[LastBefore(K, t)] = e[t]
            BY <3>3, <3>4, <2>4
        <3> QED
            BY <3>1, <3>5, <3>6, <2>1, <2>4 DEF IsStair
    <2>7. \A t \in K : VoteBound(h, LastBefore(K, t)) - VoteBound(h, t) \in Nat
        BY <1>0, <1>1, <2>1, <2>3, VoteBoundFalls
    <2>8. \A s \in B : Stated(s, {"scheduled"})
        <3> SUFFICES ASSUME NEW t \in K,
                            NEW s \in Tranche("scheduled", VoteBound(h, LastBefore(K, t)) - VoteBound(h, t), t, FALSE)
                     PROVE  Stated(s, {"scheduled"})
            OBVIOUS
        <3> DEFINE S == Tranche("scheduled", VoteBound(h, LastBefore(K, t)) - VoteBound(h, t), t, FALSE)
        <3>1. t \in Instant
            BY <1>0, <2>1 DEF Instant
        <3>2. IsTranche(S, "scheduled", VoteBound(h, LastBefore(K, t)) - VoteBound(h, t))
            BY <3>1, <2>7, TrancheIs
        <3>3. s \in S
            OBVIOUS
        <3> HIDE DEF S
        <3> QED
            BY <3>2, <3>3 DEF IsTranche
    <2>9. /\ IsFiniteSet(A) /\ Total(A) = h.vote.amount - VoteBound(h, 0)
          /\ \A s \in A : Stated(s, {"releasable"})
        <3>1. h.vote.amount - VoteBound(h, 0) \in Nat /\ 0 \in Instant
            BY <1>0, <1>1 DEF Instant
        <3>2. IsTranche(A, "releasable", h.vote.amount - VoteBound(h, 0))
            BY <3>1, TrancheIs
        <3> HIDE DEF A
        <3> QED
            BY <3>2 DEF IsTranche
    <2>10. /\ IsFiniteSet(C) /\ Total(C) = VoteBound(h, Highest(K)) /\ VoteBound(h, Highest(K)) \in Nat
           /\ \A s \in C : Stated(s, {"active"})
        <3>1. VoteBound(h, Highest(K)) \in Nat /\ 0 \in Instant
            BY <1>0, <1>1, <2>1, HighestIs DEF Instant
        <3>2. IsTranche(C, "active", VoteBound(h, Highest(K)))
            BY <3>1, TrancheIs
        <3> HIDE DEF C
        <3> QED
            BY <3>1, <3>2 DEF IsTranche
    <2>11. ASSUME NEW u \in Nat
           PROVE  /\ IsFiniteSet({s \in B : s.until <= u})
                  /\ Total({s \in B : s.until <= u}) = VoteBound(h, 0) - VoteBound(h, Highest(UpTo(K, u)))
                  /\ VoteBound(h, Highest(UpTo(K, u))) = VoteBound(h, u)
        <3> DEFINE R == {s \in B : s.until <= u}
                   b == Highest(UpTo(K, u))
        <3>1. IsFiniteSet(UpTo(K, u)) /\ UpTo(K, u) \subseteq Nat /\ \A v \in UpTo(K, u) : v <= u
            BY <2>1, FS_Subset DEF UpTo
        <3>2. b \in Nat /\ b <= u /\ \A v \in UpTo(K, u) : v <= b
            BY <3>1, HighestIs, HighestAtMost
        <3>3. e[0] = VoteBound(h, 0) /\ e[b] = VoteBound(h, b)
            BY <2>4, <3>2
        <3>4. \A v \in Priors(h) : ~(b < v /\ v <= u)
            <4>1. \A v \in K : v <= u => v \in UpTo(K, u)
                BY DEF UpTo
            <4> HIDE DEF b
            <4> QED
                BY <4>1, <2>1, <3>2
        <3>5. VoteBound(h, u) = VoteBound(h, b)
            BY <3>2, <3>4, <1>0, VoteBoundFalls
        <3>6. R = {s \in B : s.until <= u}
            OBVIOUS
        <3> HIDE DEF R, b, e, m, D, K, F, A, B, C
        <3>7. IsFiniteSet(R) /\ Total(R) = e[0] - e[Highest(UpTo(K, u))]
            <4>1. IsFlight(D, m, B, R, u)
                BY <2>5, <3>6 DEF IsFlight
            <4> QED
                BY <2>6, <4>1, StairTotal
        <3> QED
            BY <3>3, <3>5, <3>7 DEF R, b
    <2>12. /\ \A s \in A : s.state = "releasable" /\ s.amount \in Int
           /\ \A s \in B : s.state = "scheduled" /\ s.amount \in Int /\ s.until \in Instant
           /\ \A s \in C : s.state = "active" /\ s.amount \in Int
        <3> HIDE DEF A, B, C
        <3> QED
            BY <2>8, <2>9, <2>10 DEF Stated
    <2>13. IsFiniteSet(B) /\ Total(B) = VoteBound(h, 0) - VoteBound(h, Highest(K))
        <3>0. \A s \in B : s.until <= Horizon
            <4> HIDE DEF B
            <4> QED
                BY <2>12, <1>0 DEF Instant
        <3>1. {s \in B : s.until <= Horizon} = B
            <4> HIDE DEF B
            <4> QED
                BY <3>0
        <3>2. UpTo(K, Horizon) = K
            BY <2>1 DEF UpTo
        <3> HIDE DEF B, K
        <3> QED
            BY <3>1, <3>2, <2>11, <1>0
    <2> HIDE DEF A, B, C
    <2>14. Total(A \cup B) = Total(A) + Total(B) /\ IsFiniteSet(A \cup B)
        <3>1. A \cap B = {} /\ \A s \in A \cup B : s.amount \in Int
            BY <2>12
        <3> QED
            BY <3>1, <2>9, <2>13, TotalUnion
    <2>15. Total((A \cup B) \cup C) = Total(A \cup B) + Total(C) /\ IsFiniteSet((A \cup B) \cup C)
        <3>1. (A \cup B) \cap C = {} /\ \A s \in (A \cup B) \cup C : s.amount \in Int
            BY <2>12
        <3> QED
            BY <3>1, <2>10, <2>14, TotalUnion
    <2>16. \A s \in A \cup B \cup C : Stated(s, AnyState)
        BY <2>8, <2>9, <2>10 DEF Stated, AnyState
    <2>17. Total(VoteTranches(h)) = h.vote.amount
        BY <2>2, <2>9, <2>10, <2>13, <2>14, <2>15, <1>1
    <2>18. ASSUME NEW t \in Nat PROVE h.vote.amount - ReleasedBy(VoteTranches(h), t) = VoteBound(h, t)
        <3> DEFINE R == {s \in B : s.until <= t}
        <3>1. {s \in VoteTranches(h) : s.state = "releasable" \/ (s.state = "scheduled" /\ s.until <= t)} = A \cup R
            BY <2>2, <2>12
        <3>2. ReleasedBy(VoteTranches(h), t) = Total(A \cup R)
            BY <3>1 DEF ReleasedBy
        <3>3. IsFiniteSet(R) /\ Total(R) = VoteBound(h, 0) - VoteBound(h, t)
            BY <2>11
        <3>4. A \cap R = {} /\ \A s \in A \cup R : s.amount \in Int
            BY <2>12
        <3> HIDE DEF R
        <3>5. Total(A \cup R) = Total(A) + Total(R)
            BY <3>3, <3>4, <2>9, TotalUnion
        <3> QED
            BY <3>2, <3>3, <3>5, <2>9, <1>1
    <2> QED
        BY <2>2, <2>15, <2>16, <2>17, <2>18
<1> QED
    BY <1>2, <1>3

----------------------------------------------------------------------------
(* The merge of several accounts. *)

\* R is S under the names m, and f of a name is g of what it names.
IsCopy(S, m, R) ==
    /\ \A x, y \in S : m[x] = m[y] => x = y
    /\ \A x \in S : m[x] \in R
    /\ \A y \in R : \E x \in S : y = m[x]
Agrees(S, m, f, g) == \A x \in S : f[m[x]] = g[x] /\ g[x] \in Int

LEMMA SumRenamedTo ==
    ASSUME NEW S, IsFiniteSet(S), NEW m, NEW R, IsCopy(S, m, R), NEW f, NEW g, Agrees(S, m, f, g)
    PROVE  IsFiniteSet(R) /\ SumOver(f, R) = SumOver(g, S)
<1>1. R = {m[x] : x \in S}
    BY DEF IsCopy
<1>2. \A x, y \in S : m[x] = m[y] => x = y
    BY DEF IsCopy
<1>3. \A x \in S : f[m[x]] = g[x] /\ g[x] \in Int
    BY DEF Agrees
<1>4. IsFiniteSet({m[x] : x \in S}) /\ SumOver(f, {m[x] : x \in S}) = SumOver(g, S)
    BY <1>2, <1>3, SumRenamed
<1> QED
    BY <1>1, <1>4

\* A sum is the sum of the sums of disjoint parts.
LEMMA SumParts ==
    ASSUME NEW S, IsFiniteSet(S), NEW K, IsFiniteSet(K), NEW f, \A x \in S : f[x] \in Int,
           NEW part, NEW g, \A k \in K : part[k] \subseteq S /\ g[k] = SumOver(f, part[k]),
           \A x \in S : \E k \in K : x \in part[k],
           \A k, j \in K : k # j => part[k] \cap part[j] = {}
    PROVE  SumOver(g, K) = SumOver(f, S)
<1> DEFINE c == [x \in S |-> CHOOSE k \in K : x \in part[k]]
           P(k) == {x \in S : c[x] = k}
           d == [k \in K |-> SumOver(f, P(k))]
<1>1. \A x \in S : c[x] \in K /\ x \in part[c[x]]
    OBVIOUS
<1>2. c \in [S -> K]
    BY <1>1
<1>3. \A k \in K : P(k) = part[k]
    <2> SUFFICES ASSUME NEW k \in K PROVE P(k) = part[k]
        OBVIOUS
    <2>1. \A x \in S : x \in part[k] => c[x] = k
        <3> HIDE DEF c
        <3> QED
            BY <1>1
    <2> HIDE DEF c
    <2> QED
        BY <1>1, <2>1
<1>4. \A k \in K : d[k] = g[k] /\ d[k] \in Int
    <2> SUFFICES ASSUME NEW k \in K PROVE d[k] = g[k] /\ d[k] \in Int
        OBVIOUS
    <2>1. IsFiniteSet(part[k]) /\ \A x \in part[k] : f[x] \in Int
        BY FS_Subset
    <2>2. SumOver(f, part[k]) \in Int
        BY <2>1, SumInt
    <2>3. d[k] = SumOver(f, P(k))
        OBVIOUS
    <2> HIDE DEF d, P
    <2> QED
        BY <2>2, <2>3, <1>3
<1>5. SumOver(d, K) = SumOver(f, S)
    <2> HIDE DEF c
    <2> QED
        BY <1>2, SumGroups
<1> HIDE DEF d
<1>6. SumOver(d, K) = SumOver(g, K)
    BY <1>4, SumSame
<1> QED
    BY <1>5, <1>6

IsParts(S, K, f, part, g) ==
    /\ \A x \in S : f[x] \in Int
    /\ \A k \in K : part[k] \subseteq S /\ g[k] = SumOver(f, part[k])
    /\ \A x \in S : \E k \in K : x \in part[k]
    /\ \A k, j \in K : k # j => part[k] \cap part[j] = {}

LEMMA SumPartsOf ==
    ASSUME NEW S, IsFiniteSet(S), NEW K, IsFiniteSet(K), NEW f, NEW part, NEW g, IsParts(S, K, f, part, g)
    PROVE  SumOver(g, K) = SumOver(f, S)
<1>1. \A x \in S : f[x] \in Int
    BY DEF IsParts
<1>2. \A k \in K : part[k] \subseteq S /\ g[k] = SumOver(f, part[k])
    BY DEF IsParts
<1>3. \A x \in S : \E k \in K : x \in part[k]
    BY DEF IsParts
<1>4. \A k, j \in K : k # j => part[k] \cap part[j] = {}
    BY DEF IsParts
<1> QED
    BY <1>1, <1>2, <1>3, <1>4, SumParts

Worth(ps) == [p \in ps |-> p.slice.amount]

LEMMA SumOfIs ==
    ASSUME NEW S, IsFiniteSet(S), \A p \in S : p.slice.amount \in Int
    PROVE  SumOf(S) = SumOver(Worth(S), S)
<1> DEFINE f == Worth(S)
<1>1. \A x \in S : f[x] = x.slice.amount /\ f[x] \in Int
    BY DEF Worth
<1>2. PICK K : SumTable(K, f, S)
    <2> HIDE DEF f
    <2> QED
        BY <1>1, SumsOf
<1> DEFINE H == CHOOSE iter : iter = [s \in SUBSET S |-> IF s = {} THEN 0
                        ELSE (CHOOSE x \in s : TRUE).slice.amount + iter[s \ {CHOOSE x \in s : TRUE}]]
<1>3. SumOf(S) = H[S]
    BY DEF SumOf, MapThenSumSet, MapThenFoldSet
<1>4. \A s \in SUBSET S : s # {} => One(s) \in S /\ f[One(s)] = One(s).slice.amount
    <2>1. \A s \in SUBSET S : s # {} => One(s) \in s
        BY DEF One
    <2> QED
        BY <2>1, <1>1
<1> HIDE DEF f
<1>5. K = [s \in SUBSET S |-> IF s = {} THEN 0 ELSE f[One(s)] + K[s \ {One(s)}]]
    BY <1>2 DEF SumTable, Sums
<1>6. K = [s \in SUBSET S |-> IF s = {} THEN 0 ELSE One(s).slice.amount + K[s \ {One(s)}]]
    BY <1>4, <1>5
<1>7. H = [s \in SUBSET S |-> IF s = {} THEN 0 ELSE One(s).slice.amount + H[s \ {One(s)}]]
    BY <1>6 DEF One
<1> HIDE DEF H
<1>8. Sums(H, f, S)
    BY <1>4, <1>7 DEF Sums
<1>9. H[S] = K[S]
    BY <1>2, <1>8, SumsAgree DEF SumTable
<1> QED
    BY <1>2, <1>3, <1>9 DEF SumTable, f

LEMMA SumOfWithin ==
    ASSUME NEW A, IsFiniteSet(A), \A p \in A : p.slice.amount \in Int, NEW S, S \subseteq A
    PROVE  SumOf(S) = SumOver(Worth(A), S) /\ SumOf(S) \in Int /\ IsFiniteSet(S)
<1>1. IsFiniteSet(S) /\ \A p \in S : p.slice.amount \in Int
    BY FS_Subset
<1>2. SumOf(S) = SumOver(Worth(S), S)
    BY <1>1, SumOfIs
<1>3. \A x \in S : Worth(S)[x] = Worth(A)[x] /\ Worth(S)[x] \in Int
    BY DEF Worth
<1>4. SumOver(Worth(S), S) = SumOver(Worth(A), S) /\ SumOver(Worth(S), S) \in Int
    BY <1>1, <1>3, SumSame, SumInt
<1> QED
    BY <1>1, <1>2, <1>4

LEMMA SumOfUnion ==
    ASSUME NEW S, IsFiniteSet(S), NEW R, IsFiniteSet(R), S \cap R = {},
           \A p \in S \cup R : p.slice.amount \in Int
    PROVE  SumOf(S \cup R) = SumOf(S) + SumOf(R)
<1> DEFINE U == S \cup R
           f == Worth(U)
<1>1. IsFiniteSet(U)
    BY FS_Union
<1>2. S \subseteq U /\ R \subseteq U /\ U \subseteq U /\ \A p \in U : p.slice.amount \in Int
    OBVIOUS
<1>3. \A x \in U : f[x] \in Int
    BY <1>2 DEF Worth
<1> HIDE DEF f
<1>4. SumOver(f, S \cup R) = SumOver(f, S) + SumOver(f, R)
    BY <1>3, SumUnion
<1>5. SumOf(S) = SumOver(f, S) /\ SumOf(R) = SumOver(f, R) /\ SumOf(U) = SumOver(f, U)
    <2> HIDE DEF U
    <2> QED
        BY <1>1, <1>2, SumOfWithin DEF f
<1> QED
    BY <1>4, <1>5

IsTagged(S, m, R, f) ==
    /\ \A s \in S : s.amount \in Int
    /\ \A x \in S : m[x].slice = x
    /\ \A x \in S : m[x] \in R
    /\ \A y \in R : \E x \in S : y = m[x]
    /\ \A p \in R : f[p] = p.slice.amount

LEMMA HolderPart ==
    ASSUME NEW S, IsFiniteSet(S), NEW m, NEW R, NEW f, IsTagged(S, m, R, f)
    PROVE  IsFiniteSet(R) /\ SumOver(f, R) = Total(S)
<1> DEFINE d == AmountsIn(S)
<1>0. \A s \in S : s.amount \in Int
    BY DEF IsTagged
<1>1. Total(S) = SumOver(d, S)
    BY <1>0, TotalIsSum
<1>2. IsCopy(S, m, R)
    BY DEF IsCopy, IsTagged
<1>3. Agrees(S, m, f, d)
    BY DEF Agrees, AmountsIn, IsTagged
<1> HIDE DEF d
<1>4. IsFiniteSet(R) /\ SumOver(f, R) = SumOver(d, S)
    BY <1>2, <1>3, SumRenamedTo
<1> QED
    BY <1>1, <1>4

\* What the accounts have apart, each its own slices T[a].
LEMMA SumByHolder ==
    ASSUME IsFiniteSet(Holders), NEW T,
           \A a \in Holders : IsFiniteSet(T[a]) /\ \A s \in T[a] : s.amount \in Int,
           NEW U, U = UNION {{[of |-> a, slice |-> s] : s \in T[a]} : a \in Holders},
           NEW g, \A a \in Holders : g[a] = Total(T[a])
    PROVE  IsFiniteSet(U) /\ SumOf(U) = SumOver(g, Holders)
<1> DEFINE part == [a \in Holders |-> {[of |-> a, slice |-> s] : s \in T[a]}]
           f == Worth(U)
<1>1. \A x : x \in U <=> \E a \in Holders : x \in part[a]
    OBVIOUS
<1>2. \A p \in U : p.slice.amount \in Int /\ f[p] = p.slice.amount
    BY DEF Worth
<1>3. ASSUME NEW a \in Holders
      PROVE  IsFiniteSet(part[a]) /\ part[a] \subseteq U /\ SumOver(f, part[a]) = g[a]
    <2> DEFINE S == T[a]
               R == part[a]
               m == [x \in S |-> [of |-> a, slice |-> x]]
    <2>1. (\A x \in S : m[x] \in R) /\ (\A y \in R : \E x \in S : y = m[x]) /\ \A x \in S : m[x].slice = x
        OBVIOUS
    <2>2. R \subseteq U
        BY <1>1
    <2>3. \A p \in R : f[p] = p.slice.amount
        BY <2>2, <1>2
    <2>4. IsFiniteSet(S) /\ \A s \in S : s.amount \in Int
        OBVIOUS
    <2> HIDE DEF S, R, part, f, m
    <2>5. IsTagged(S, m, R, f)
        BY <2>1, <2>3, <2>4 DEF IsTagged
    <2>6. IsFiniteSet(R) /\ SumOver(f, R) = Total(S)
        BY <2>4, <2>5, HolderPart
    <2> QED
        BY <2>2, <2>6 DEF R, S
<1>4. \A a, b \in Holders : a # b => part[a] \cap part[b] = {}
    OBVIOUS
<1>5. IsFiniteSet(U)
    <2> DEFINE P == {part[a] : a \in Holders}
    <2>1. U = UNION P
        BY <1>1
    <2> HIDE DEF part
    <2>2. IsFiniteSet(P)
        BY ImageIsFinite
    <2>3. \A Q \in P : IsFiniteSet(Q)
        BY <1>3
    <2> HIDE DEF P
    <2> QED
        BY <2>1, <2>2, <2>3, FS_UNION
<1> HIDE DEF part, f
<1>6. SumOver(g, Holders) = SumOver(f, U)
    <2>1. \A x \in U : f[x] \in Int
        BY <1>2
    <2>2. \A k \in Holders : part[k] \subseteq U /\ g[k] = SumOver(f, part[k])
        BY <1>3
    <2>3. \A x \in U : \E k \in Holders : x \in part[k]
        BY <1>1
    <2>4. \A k, j \in Holders : k # j => part[k] \cap part[j] = {}
        BY <1>4
    <2> QED
        BY <2>1, <2>2, <2>3, <2>4, <1>5, SumParts
<1>7. SumOf(U) = SumOver(f, U)
    BY <1>2, <1>5, SumOfIs DEF f
<1> QED
    BY <1>5, <1>6, <1>7

\* The groups of a merge: one slice for each cause and date, of what its members add up to.
IsGrouping(A, K, part, m, G, state) ==
    /\ IsFiniteSet(A) /\ IsFiniteSet(K)
    /\ \A p \in A : p.slice.amount \in Nat
    /\ \A k \in K : part[k] \subseteq A /\ k.until \in Instant
    /\ \A k \in K : \A p \in part[k] : p.slice.until = k.until
    /\ \A p \in A : \E k \in K : p \in part[k]
    /\ \A k, j \in K : k # j => part[k] \cap part[j] = {}
    /\ \A k \in K : m[k].state = state /\ m[k].until = k.until /\ m[k].amount = SumOf(part[k])
    /\ IsCopy(K, m, G)

LEMMA GroupIs ==
    ASSUME NEW all, IsFiniteSet(all), \A p \in all : Stated(p.slice, AnyState), NEW state
    PROVE  \E K, part, m : IsGrouping(Of(all, state), K, part, m, Group(all, state), state)
<1> DEFINE A == Of(all, state)
           K == {Key(p.slice) : p \in A}
           Part(k) == {p \in A : Key(p.slice) = k}
           part == [k \in K |-> Part(k)]
           F(k) == Slice(state, k.cause, SumOf(Part(k)), k.until, IsLinear(Part(k)))
           m == [k \in K |-> F(k)]
           G == Group(all, state)
<1>1. A \subseteq all /\ IsFiniteSet(A)
    <2>1. A \subseteq all
        BY DEF Of
    <2> QED
        BY <2>1, FS_Subset
<1>2. \A p \in A : p.slice.amount \in Nat /\ p.slice.until \in Instant
    BY <1>1 DEF Stated
<1>3. IsFiniteSet(K)
    <2> DEFINE f == [p \in A |-> Key(p.slice)]
    <2>1. K = {f[p] : p \in A}
        OBVIOUS
    <2> HIDE DEF f, K, A
    <2> QED
        BY <2>1, <1>1, ImageIsFinite
<1>4. \A p \in A : Key(p.slice).cause = p.slice.cause /\ Key(p.slice).until = p.slice.until
    BY DEF Key
<1>5. \A k \in K : k = [cause |-> k.cause, until |-> k.until]
    BY DEF Key
<1>6. \A k \in K : part[k] \subseteq A /\ k.until \in Instant
    <2> SUFFICES ASSUME NEW p \in A PROVE Key(p.slice).until \in Instant
        OBVIOUS
    <2> QED
        BY <1>2, <1>4
<1>7. \A k \in K : \A p \in part[k] : p.slice.until = k.until
    <2> SUFFICES ASSUME NEW k \in K, NEW p \in Part(k) PROVE p.slice.until = k.until
        OBVIOUS
    <2>1. p \in A /\ Key(p.slice) = k
        OBVIOUS
    <2> HIDE DEF A, K, Part
    <2> QED
        BY <2>1, <1>4
<1>8. \A p \in A : \E k \in K : p \in part[k]
    <2> SUFFICES ASSUME NEW p \in A PROVE \E k \in K : p \in part[k]
        OBVIOUS
    <2>1. Key(p.slice) \in K /\ p \in part[Key(p.slice)]
        OBVIOUS
    <2> QED
        BY <2>1
<1>9. \A k, j \in K : k # j => part[k] \cap part[j] = {}
    OBVIOUS
<1>10. \A k \in K : /\ m[k].state = state /\ m[k].until = k.until /\ m[k].amount = SumOf(part[k])
                    /\ m[k].cause = k.cause
    BY DEF Slice
<1>11. IsCopy(K, m, G)
    <2>1. \A x \in G : \E k \in K : x = m[k]
        BY DEF Group
    <2>2. \A k \in K : m[k] \in G
        BY DEF Group
    <2> HIDE DEF m, K, G
    <2>3. ASSUME NEW k \in K, NEW j \in K, m[k] = m[j]
          PROVE  k = j
        <3>1. k.cause = j.cause /\ k.until = j.until
            BY <2>3, <1>10
        <3>2. k = [cause |-> k.cause, until |-> k.until] /\ j = [cause |-> j.cause, until |-> j.until]
            BY <1>5
        <3> QED
            BY <3>1, <3>2, Zenon
    <2> QED
        BY <2>1, <2>2, <2>3 DEF IsCopy
<1> HIDE DEF A, K, part, m, G, F, Part
<1>12. IsGrouping(A, K, part, m, G, state)
    BY <1>1, <1>2, <1>3, <1>6, <1>7, <1>8, <1>9, <1>10, <1>11 DEF IsGrouping
<1> QED
    BY <1>12 DEF A, G

LEMMA GroupTyped ==
    ASSUME NEW all, IsFiniteSet(all), \A p \in all : Stated(p.slice, AnyState), NEW state
    PROVE  /\ IsFiniteSet(Group(all, state))
           /\ \A s \in Group(all, state) : s.state = state /\ s.until \in Instant /\ s.amount \in Nat
<1> DEFINE A == Of(all, state)
           G == Group(all, state)
<1>1. PICK K, part, m : IsGrouping(A, K, part, m, G, state)
    BY GroupIs
<1> HIDE DEF A, G
<1>2. G = {m[k] : k \in K} /\ IsFiniteSet(K)
    BY <1>1 DEF IsGrouping, IsCopy
<1>3. IsFiniteSet(G)
    BY <1>2, ImageIsFinite
<1>4. \A k \in K : m[k].state = state /\ m[k].until \in Instant /\ m[k].amount \in Nat
    <2> SUFFICES ASSUME NEW k \in K
                 PROVE  m[k].state = state /\ m[k].until \in Instant /\ m[k].amount \in Nat
        OBVIOUS
    <2>1. /\ m[k].state = state /\ m[k].until = k.until /\ m[k].amount = SumOf(part[k])
          /\ part[k] \subseteq A /\ k.until \in Instant
        BY <1>1 DEF IsGrouping
    <2>2. IsFiniteSet(A) /\ \A p \in A : p.slice.amount \in Nat
        BY <1>1 DEF IsGrouping
    <2>3. SumOf(part[k]) = SumOver(Worth(A), part[k]) /\ IsFiniteSet(part[k])
        BY <2>1, <2>2, SumOfWithin
    <2>4. \A p \in part[k] : Worth(A)[p] \in Nat
        BY <2>1, <2>2 DEF Worth
    <2>5. SumOver(Worth(A), part[k]) \in Nat
        BY <2>3, <2>4, SumNat
    <2> QED
        BY <2>1, <2>3, <2>5
<1> QED
    BY <1>2, <1>3, <1>4 DEF G

LEMMA GroupTotal ==
    ASSUME NEW all, IsFiniteSet(all), \A p \in all : Stated(p.slice, AnyState), NEW state, NEW t \in Nat,
           NEW R, R = {s \in Group(all, state) : s.until <= t},
           NEW P, P = {p \in Of(all, state) : p.slice.until <= t}
    PROVE  Total(R) = SumOf(P)
<1> DEFINE A == Of(all, state)
           G == Group(all, state)
<1>1. PICK K, part, m : IsGrouping(A, K, part, m, G, state)
    BY GroupIs
<1> DEFINE L == {k \in K : k.until <= t}
           g == [k \in K |-> SumOf(part[k])]
           f == Worth(A)
<1>2. P \subseteq A /\ R \subseteq G /\ L \subseteq K
    OBVIOUS
<1>3. (\A s : s \in R <=> s \in G /\ s.until <= t) /\ (\A p : p \in P <=> p \in A /\ p.slice.until <= t)
      /\ \A k : k \in L <=> k \in K /\ k.until <= t
    OBVIOUS
<1> HIDE DEF A, G, L
<1>4. IsFiniteSet(A) /\ IsFiniteSet(K) /\ \A p \in A : p.slice.amount \in Nat /\ f[p] \in Int
    BY <1>1 DEF IsGrouping, Worth
<1>5. IsFiniteSet(L) /\ IsFiniteSet(P) /\ SumOf(P) = SumOver(f, P)
    BY <1>2, <1>4, FS_Subset, SumOfWithin
<1> HIDE DEF f, g
<1>6. \A k \in K : g[k] = SumOf(part[k]) /\ part[k] \subseteq A /\ g[k] = SumOver(f, part[k]) /\ g[k] \in Int
    <2> SUFFICES ASSUME NEW k \in K
                 PROVE  g[k] = SumOf(part[k]) /\ part[k] \subseteq A /\ g[k] = SumOver(f, part[k]) /\ g[k] \in Int
        OBVIOUS
    <2>1. part[k] \subseteq A
        BY <1>1 DEF IsGrouping
    <2>2. SumOf(part[k]) = SumOver(f, part[k]) /\ SumOf(part[k]) \in Int
        BY <2>1, <1>4, SumOfWithin DEF f
    <2> QED
        BY <2>1, <2>2 DEF g
<1>7. SumOver(g, L) = SumOver(f, P)
    <2>1. \A k \in L : part[k] \subseteq P /\ g[k] = SumOver(f, part[k])
        <3> SUFFICES ASSUME NEW k \in L PROVE part[k] \subseteq P
            BY <1>2, <1>6
        <3>1. \A p \in part[k] : p \in A /\ p.slice.until = k.until
            BY <1>1, <1>2, <1>6 DEF IsGrouping
        <3> QED
            BY <3>1, <1>3
    <2>2. \A p \in P : \E k \in L : p \in part[k]
        <3> SUFFICES ASSUME NEW p \in P PROVE \E k \in L : p \in part[k]
            OBVIOUS
        <3>1. PICK k \in K : p \in part[k]
            BY <1>1, <1>2 DEF IsGrouping
        <3>2. p.slice.until = k.until
            BY <3>1, <1>1 DEF IsGrouping
        <3> QED
            BY <3>1, <3>2, <1>3
    <2>3. \A k, j \in L : k # j => part[k] \cap part[j] = {}
        BY <1>1, <1>2 DEF IsGrouping
    <2>4. \A p \in P : f[p] \in Int
        BY <1>2, <1>4
    <2> QED
        <3>1. IsParts(P, L, f, part, g)
            BY <2>1, <2>2, <2>3, <2>4 DEF IsParts
        <3> QED
            BY <3>1, <1>5, SumPartsOf
<1>8. IsCopy(L, m, R)
    <2>1. IsCopy(K, m, G) /\ \A k \in K : m[k].until = k.until
        BY <1>1 DEF IsGrouping
    <2>2. \A k \in L : m[k] \in R
        BY <2>1, <1>3 DEF IsCopy
    <2>3. \A x \in R : \E k \in L : x = m[k]
        <3> SUFFICES ASSUME NEW x \in R PROVE \E k \in L : x = m[k]
            OBVIOUS
        <3>1. PICK k \in K : x = m[k]
            BY <2>1, <1>2 DEF IsCopy
        <3> QED
            BY <3>1, <2>1, <1>3
    <2> QED
        BY <2>1, <2>2, <2>3, <1>2 DEF IsCopy
<1>9. IsFiniteSet(R) /\ \A s \in R : s.amount \in Int
    BY <1>2, GroupTyped, FS_Subset DEF G
<1>10. Agrees(L, m, AmountsIn(R), g)
    <2>1. \A k \in L : m[k] \in R /\ k \in K /\ m[k].amount = SumOf(part[k])
        BY <1>1, <1>2, <1>8 DEF IsGrouping, IsCopy
    <2> QED
        BY <2>1, <1>6 DEF Agrees, AmountsIn
<1>11. SumOver(AmountsIn(R), R) = SumOver(g, L)
    BY <1>5, <1>8, <1>10, SumRenamedTo
<1> QED
    BY <1>5, <1>7, <1>9, <1>11, TotalIsSum

LEMMA GroupAll ==
    ASSUME Horizon \in Nat, NEW all, IsFiniteSet(all), \A p \in all : Stated(p.slice, AnyState), NEW state
    PROVE  Total(Group(all, state)) = SumOf(Of(all, state))
<1> DEFINE G == Group(all, state)
           A == Of(all, state)
<1>1. \A s \in G : s.until \in Instant
    BY GroupTyped
<1>2. \A p \in A : p.slice.until \in Instant
    BY DEF Of, Stated
<1>3. G = {s \in G : s.until <= Horizon}
    <2> HIDE DEF G
    <2> QED
        BY <1>1 DEF Instant
<1>4. A = {p \in A : p.slice.until <= Horizon}
    <2> HIDE DEF A
    <2> QED
        BY <1>2 DEF Instant
<1>5. \A R, P : R = {s \in G : s.until <= Horizon} /\ P = {p \in A : p.slice.until <= Horizon}
                    => Total(R) = SumOf(P)
    <2> SUFFICES ASSUME NEW R, R = {s \in G : s.until <= Horizon},
                        NEW P, P = {p \in A : p.slice.until <= Horizon}
                 PROVE  Total(R) = SumOf(P)
        OBVIOUS
    <2> QED
        BY GroupTotal
<1> HIDE DEF G, A
<1>6. Total(G) = SumOf(A)
    BY <1>3, <1>4, <1>5
<1> QED
    BY <1>6 DEF G, A

ScheduledOnly(D) == \A d \in D : d.state = "scheduled" /\ d.until \in Instant /\ d.amount \in Nat

\* The folded dates are free at the last of them.
LEMMA FoldedTailIs ==
    ASSUME Horizon \in Nat, NEW D, IsFiniteSet(D), ScheduledOnly(D), NEW t \in Nat,
           NEW E, E = {s \in D : s.until <= t}
    PROVE  /\ ReleasedBy(FoldedTail(D), t) \in Int /\ ReleasedBy(FoldedTail(D), t) <= Total(E)
           /\ t = Horizon => ReleasedBy(FoldedTail(D), t) = Total(E)
<1>1. IsFiniteSet(E) /\ E \subseteq D /\ \A s \in D : s.amount \in Nat /\ s.until \in Nat /\ s.until <= Horizon
    BY FS_Subset DEF ScheduledOnly, Instant
<1>2. Total(E) \in Nat /\ Total(D) \in Nat
    BY <1>1, TotalNat
<1>3. \A S : ReleasedBy(S, t) = Total({s \in S : s.state = "releasable" \/ (s.state = "scheduled" /\ s.until <= t)})
    BY DEF ReleasedBy
<1>4. CASE D = {}
    <2>1. FoldedTail(D) = {} /\ E = {}
        BY <1>4 DEF FoldedTail
    <2>2. {s \in {} : s.state = "releasable" \/ (s.state = "scheduled" /\ s.until <= t)} = {}
        OBVIOUS
    <2>3. ReleasedBy(FoldedTail(D), t) = Total({})
        BY <1>3, <2>1, <2>2
    <2>4. ReleasedBy(FoldedTail(D), t) = 0 /\ Total(E) = 0
        BY <2>1, <2>3, TotalEmpty
    <2> QED
        BY <2>4
<1>5. CASE D # {}
    <2> DEFINE U == {d.until : d \in D}
               x == Slice("scheduled", UNION {d.cause : d \in D}, Total(D), Max(U), \E d \in D : d.linear)
               X == {s \in {x} : s.state = "releasable" \/ (s.state = "scheduled" /\ s.until <= t)}
    <2>1. FoldedTail(D) = {x}
        BY <1>5 DEF FoldedTail
    <2>2. IsFiniteSet(U) /\ U # {} /\ U \subseteq Int
        <3> DEFINE f == [d \in D |-> d.until]
        <3>1. U = {f[d] : d \in D}
            OBVIOUS
        <3>2. U # {} /\ U \subseteq Int
            BY <1>1, <1>5
        <3> HIDE DEF f, U
        <3> QED
            BY <3>1, <3>2, ImageIsFinite
    <2>3. x.state = "scheduled" /\ x.amount = Total(D) /\ x.until = Max(U)
        BY DEF Slice
    <2>4. \A d \in D : d.until \in U
        OBVIOUS
    <2>5. \E d \in D : d.until = Max(U)
        <3>1. Max(U) \in U
            <4> HIDE DEF U
            <4> QED
                BY <2>2, MaxIsGreatest
        <3> QED
            BY <3>1
    <2>6. \A d \in D : d.until <= Max(U)
        <3>1. \A u \in U : u <= Max(U)
            <4> HIDE DEF U
            <4> QED
                BY <2>2, MaxIsGreatest
        <3> QED
            BY <3>1, <2>4
    <2>7. Max(U) \in Nat /\ Max(U) <= Horizon
        BY <2>5, <1>1
    <2>8. ReleasedBy(FoldedTail(D), t) = Total(X)
        BY <2>1, <1>3
    <2> HIDE DEF x, U
    <2>9. CASE Max(U) <= t
        <3>1. X = {x}
            BY <2>3, <2>9
        <3>2. E = D
            <4>1. \A d \in D : d.until <= t
                BY <2>6, <2>7, <2>9, <1>1
            <4> QED
                BY <4>1
        <3>3. Total({x}) = Total(D)
            BY <2>3, <1>2, TotalSingle
        <3>4. Total(E) = Total(D)
            BY <3>2
        <3>5. ReleasedBy(FoldedTail(D), t) = Total(D)
            BY <2>8, <3>1, <3>3
        <3> QED
            BY <3>4, <3>5, <1>2
    <2>10. CASE ~(Max(U) <= t)
        <3>1. X = {}
            BY <2>3, <2>10
        <3>2. t # Horizon
            BY <2>7, <2>10
        <3>3. ReleasedBy(FoldedTail(D), t) = 0
            BY <2>8, <3>1, TotalEmpty
        <3> QED
            BY <3>2, <3>3, <1>2
    <2> QED
        BY <2>9, <2>10
<1> QED
    BY <1>4, <1>5

LEMMA MergeHolds ==
    ASSUME Horizon \in Nat, NEW all, IsFiniteSet(all), \A p \in all : Stated(p.slice, AnyState),
           NEW v \in Merges(all), NEW t \in Nat,
           NEW P, P = {p \in all : p.slice.state = "releasable"
                                    \/ (p.slice.state = "scheduled" /\ p.slice.until <= t)}
    PROVE  LET merged == ReleasedBy(v.now \cup v.kept, t) + ReleasedBy(v.tail, t) IN
           /\ merged \in Int /\ merged <= SumOf(P)
           /\ t = Horizon => merged = SumOf(P) /\ Total(v.open) + merged = SumOf(all)
<1> DEFINE R == Group(all, "releasable")
           G == Group(all, "scheduled")
           O == Group(all, "active")
           A == Of(all, "releasable")
           B == Of(all, "scheduled")
           C == Of(all, "active")
           Bt == {p \in B : p.slice.until <= t}
           Gt == {s \in G : s.until <= t}
<1>1. PICK first \in DatesKept(G) : v = [now |-> R, kept |-> first, tail |-> FoldedTail(G \ first), open |-> O]
    BY DEF Merges
<1> DEFINE D == G \ first
           Kt == {s \in first : s.until <= t}
           Dt == {s \in D : s.until <= t}
<1>2. /\ v.now = R /\ v.kept = first /\ v.tail = FoldedTail(D) /\ v.open = O /\ first \subseteq G
    BY <1>1 DEF DatesKept
<1>3. /\ IsFiniteSet(R) /\ IsFiniteSet(G) /\ IsFiniteSet(O)
      /\ \A s \in R : s.state = "releasable" /\ s.amount \in Nat
      /\ \A s \in G : s.state = "scheduled" /\ s.until \in Instant /\ s.amount \in Nat
      /\ \A s \in O : s.state = "active" /\ s.amount \in Nat
    BY GroupTyped
<1>4. Total(R) = SumOf(A) /\ Total(O) = SumOf(C)
    BY GroupAll
<1>5. Total(Gt) = SumOf(Bt)
    <2>1. Gt = {s \in Group(all, "scheduled") : s.until <= t}
          /\ Bt = {p \in Of(all, "scheduled") : p.slice.until <= t}
        OBVIOUS
    <2> HIDE DEF Gt, Bt
    <2> QED
        BY <2>1, GroupTotal
<1>6. /\ \A p : p \in A <=> p \in all /\ p.slice.state = "releasable"
      /\ \A p : p \in B <=> p \in all /\ p.slice.state = "scheduled"
      /\ \A p : p \in C <=> p \in all /\ p.slice.state = "active"
      /\ \A p : p \in Bt <=> p \in B /\ p.slice.until <= t
      /\ \A s : s \in Gt <=> s \in G /\ s.until <= t
      /\ \A s : s \in Kt <=> s \in first /\ s.until <= t
      /\ \A s : s \in Dt <=> s \in D /\ s.until <= t
      /\ \A s : s \in D <=> s \in G /\ s \notin first
    BY DEF Of
<1> HIDE DEF R, G, O, A, B, C, Bt, Gt
<1>7. \A p \in all : /\ p.slice.state \in AnyState /\ p.slice.amount \in Int /\ p.slice.until \in Nat
                     /\ p.slice.until <= Horizon
    BY DEF Stated, Instant
<1>8. SumOf(P) = SumOf(A) + SumOf(Bt) /\ SumOf(A) \in Int /\ SumOf(Bt) \in Int
    <2>1. A \subseteq all /\ Bt \subseteq all /\ A \cap Bt = {} /\ P = A \cup Bt
        BY <1>6
    <2>2. IsFiniteSet(A) /\ IsFiniteSet(Bt) /\ SumOf(A) \in Int /\ SumOf(Bt) \in Int
        BY <2>1, <1>7, SumOfWithin
    <2>3. \A p \in A \cup Bt : p.slice.amount \in Int
        BY <2>1, <1>7
    <2> QED
        BY <2>1, <2>2, <2>3, SumOfUnion
<1>9. t = Horizon => SumOf(all) = SumOf(P) + SumOf(C) /\ SumOf(C) \in Int
    <2> SUFFICES ASSUME t = Horizon PROVE SumOf(all) = SumOf(P) + SumOf(C) /\ SumOf(C) \in Int
        OBVIOUS
    <2>1. P \subseteq all /\ C \subseteq all
        BY <1>6
    <2>2. P \cap C = {}
        BY <1>6
    <2>3. all \subseteq P \cup C
        BY <1>6, <1>7 DEF AnyState
    <2>4. IsFiniteSet(P) /\ IsFiniteSet(C) /\ SumOf(C) \in Int
        BY <2>1, <1>7, SumOfWithin
    <2>5. P \cup C = all
        BY <2>1, <2>3
    <2>6. \A p \in P \cup C : p.slice.amount \in Int
        BY <2>5, <1>7
    <2> QED
        BY <2>2, <2>4, <2>5, <2>6, SumOfUnion
<1>10. IsFiniteSet(first) /\ IsFiniteSet(D) /\ IsFiniteSet(Kt) /\ IsFiniteSet(Dt)
       /\ D \subseteq G /\ Kt \subseteq first /\ Dt \subseteq D
    BY <1>2, <1>3, FS_Subset
<1>11. /\ \A s \in R \cup first \cup D : s.amount \in Nat /\ s.amount \in Int
       /\ \A s \in first \cup D : s.state = "scheduled"
    BY <1>2, <1>3, <1>6
<1>12. ReleasedBy(R \cup first, t) = Total(R) + Total(Kt)
    <2>1. {s \in R \cup first : s.state = "releasable" \/ (s.state = "scheduled" /\ s.until <= t)} = R \cup Kt
        BY <1>3, <1>6, <1>11
    <2>2. ReleasedBy(R \cup first, t) = Total(R \cup Kt)
        BY <2>1 DEF ReleasedBy
    <2>3. R \cap Kt = {} /\ \A s \in R \cup Kt : s.amount \in Int
        BY <1>3, <1>10, <1>11
    <2> QED
        BY <2>2, <2>3, <1>3, <1>10, TotalUnion
<1>13. Total(Gt) = Total(Kt) + Total(Dt)
    <2>1. Gt = Kt \cup Dt
        BY <1>2, <1>6
    <2>2. Kt \cap Dt = {}
        BY <1>6
    <2>3. \A s \in Kt \cup Dt : s.amount \in Int
        BY <1>10, <1>11
    <2> HIDE DEF Kt, Dt
    <2>4. Total(Kt \cup Dt) = Total(Kt) + Total(Dt)
        BY <2>2, <2>3, <1>10, TotalUnion
    <2> QED
        BY <2>1, <2>4
<1>14. Total(R) \in Int /\ Total(Kt) \in Int /\ Total(Dt) \in Int
    <2>1. /\ \A s \in R : s.amount \in Int
          /\ \A s \in Kt : s.amount \in Int
          /\ \A s \in Dt : s.amount \in Int
        BY <1>10, <1>11
    <2> HIDE DEF Kt, Dt
    <2> QED
        BY <2>1, <1>3, <1>10, TotalInt
<1>15. /\ ReleasedBy(FoldedTail(D), t) \in Int /\ ReleasedBy(FoldedTail(D), t) <= Total(Dt)
       /\ t = Horizon => ReleasedBy(FoldedTail(D), t) = Total(Dt)
    <2>1. ScheduledOnly(D)
        BY <1>3, <1>10 DEF ScheduledOnly
    <2>2. Dt = {s \in D : s.until <= t}
        OBVIOUS
    <2> HIDE DEF D, Dt
    <2> QED
        BY <2>1, <2>2, <1>10, FoldedTailIs
<1> HIDE DEF D, Kt, Dt
<1> DEFINE x == ReleasedBy(FoldedTail(D), t)
           merged == ReleasedBy(v.now \cup v.kept, t) + ReleasedBy(v.tail, t)
<1>16. merged = Total(R) + Total(Kt) + x
    BY <1>2, <1>12
<1>17. Total(v.open) = SumOf(C)
    BY <1>2, <1>4
<1> HIDE DEF x, merged
<1>18. merged \in Int /\ merged <= SumOf(P)
    BY <1>4, <1>5, <1>8, <1>13, <1>14, <1>15, <1>16 DEF x
<1>19. t = Horizon => merged = SumOf(P)
    BY <1>4, <1>5, <1>8, <1>13, <1>14, <1>15, <1>16 DEF x
<1>20. t = Horizon => Total(v.open) + merged = SumOf(all)
    BY <1>8, <1>9, <1>17, <1>19
<1> QED
    BY <1>18, <1>19, <1>20 DEF merged

Together(T, U, g) ==
    /\ \A a \in Holders : IsFiniteSet(T[a]) /\ \A s \in T[a] : s.amount \in Int
    /\ \A p : p \in U <=> \E a \in Holders : \E s \in T[a] : p = [of |-> a, slice |-> s]
    /\ \A a \in Holders : g[a] = Total(T[a])

LEMMA SumTogether ==
    ASSUME IsFiniteSet(Holders), NEW T, NEW U, NEW g, Together(T, U, g)
    PROVE  IsFiniteSet(U) /\ SumOf(U) = SumOver(g, Holders)
<1>1. \A a \in Holders : IsFiniteSet(T[a]) /\ \A s \in T[a] : s.amount \in Int
    BY DEF Together
<1>2. U = UNION {{[of |-> a, slice |-> s] : s \in T[a]} : a \in Holders}
    BY DEF Together
<1>3. \A a \in Holders : g[a] = Total(T[a])
    BY DEF Together
<1> QED
    BY <1>1, <1>2, <1>3, SumByHolder

Released(k, t) == [a \in Holders |-> ReleasedBy(stored[a][k], t)]
Totals(k) == [a \in Holders |-> Total(stored[a][k])]

Apart(k, t) == MapThenSumSet(LAMBDA a : ReleasedBy(stored[a][k], t), Holders)
AllOf(k) == MapThenSumSet(LAMBDA a : Total(stored[a][k]), Holders)

LEMMA ApartIsSum ==
    ASSUME IsFiniteSet(Holders), NEW k, NEW t, \A a \in Holders : Released(k, t)[a] \in Int
    PROVE  Apart(k, t) = SumOver(Released(k, t), Holders)
<1> DEFINE S == Holders
           f == Released(k, t)
<1>1. \A x \in S : f[x] = ReleasedBy(stored[x][k], t) /\ f[x] \in Int
    BY DEF Released
<1>2. PICK K : SumTable(K, f, S)
    <2> HIDE DEF f
    <2> QED
        BY <1>1, SumsOf
<1> DEFINE H == CHOOSE iter : iter = [s \in SUBSET S |-> IF s = {} THEN 0
                        ELSE ReleasedBy(stored[CHOOSE x \in s : TRUE][k], t) + iter[s \ {CHOOSE x \in s : TRUE}]]
<1>3. Apart(k, t) = H[S]
    BY DEF Apart, MapThenSumSet, MapThenFoldSet
<1>4. \A s \in SUBSET S : s # {} => One(s) \in S /\ f[One(s)] = ReleasedBy(stored[One(s)][k], t)
    <2>1. \A s \in SUBSET S : s # {} => One(s) \in s
        BY DEF One
    <2> QED
        BY <2>1, <1>1
<1> HIDE DEF f, S
<1>5. K = [s \in SUBSET S |-> IF s = {} THEN 0 ELSE f[One(s)] + K[s \ {One(s)}]]
    BY <1>2 DEF SumTable, Sums
<1>6. K = [s \in SUBSET S |-> IF s = {} THEN 0 ELSE ReleasedBy(stored[One(s)][k], t) + K[s \ {One(s)}]]
    BY <1>4, <1>5
<1>7. H = [s \in SUBSET S |-> IF s = {} THEN 0 ELSE ReleasedBy(stored[One(s)][k], t) + H[s \ {One(s)}]]
    BY <1>6 DEF One
<1> HIDE DEF H
<1>8. Sums(H, f, S)
    BY <1>4, <1>7 DEF Sums
<1>9. H[S] = K[S]
    BY <1>1, <1>2, <1>8, SumsAgree DEF SumTable, S
<1> QED
    BY <1>2, <1>3, <1>9 DEF SumTable, f, S

LEMMA TotalsIsSum ==
    ASSUME IsFiniteSet(Holders), NEW k, \A a \in Holders : Totals(k)[a] \in Int
    PROVE  AllOf(k) = SumOver(Totals(k), Holders)
<1> DEFINE S == Holders
           f == Totals(k)
<1>1. \A x \in S : f[x] = Total(stored[x][k]) /\ f[x] \in Int
    BY DEF Totals
<1>2. PICK K : SumTable(K, f, S)
    <2> HIDE DEF f
    <2> QED
        BY <1>1, SumsOf
<1> DEFINE H == CHOOSE iter : iter = [s \in SUBSET S |-> IF s = {} THEN 0
                        ELSE Total(stored[CHOOSE x \in s : TRUE][k]) + iter[s \ {CHOOSE x \in s : TRUE}]]
<1>3. AllOf(k) = H[S]
    BY DEF AllOf, MapThenSumSet, MapThenFoldSet
<1>4. \A s \in SUBSET S : s # {} => One(s) \in S /\ f[One(s)] = Total(stored[One(s)][k])
    <2>1. \A s \in SUBSET S : s # {} => One(s) \in s
        BY DEF One
    <2> QED
        BY <2>1, <1>1
<1> HIDE DEF f, S
<1>5. K = [s \in SUBSET S |-> IF s = {} THEN 0 ELSE f[One(s)] + K[s \ {One(s)}]]
    BY <1>2 DEF SumTable, Sums
<1>6. K = [s \in SUBSET S |-> IF s = {} THEN 0 ELSE Total(stored[One(s)][k]) + K[s \ {One(s)}]]
    BY <1>4, <1>5
<1>7. H = [s \in SUBSET S |-> IF s = {} THEN 0 ELSE Total(stored[One(s)][k]) + H[s \ {One(s)}]]
    BY <1>6 DEF One
<1> HIDE DEF H
<1>8. Sums(H, f, S)
    BY <1>4, <1>7 DEF Sums
<1>9. H[S] = K[S]
    BY <1>1, <1>2, <1>8, SumsAgree DEF SumTable, S
<1> QED
    BY <1>2, <1>3, <1>9 DEF SumTable, f, S

----------------------------------------------------------------------------
LineInv ==
    /\ holders \in Tags
    /\ \/ stored = [a \in Holders |-> NoDetail] /\ view = [k \in Kinds |-> Empty]
       \/ /\ stored = [a \in Holders |-> Detail(holders[a])]
          /\ DOMAIN view = Kinds
          /\ \A k \in Kinds : view[k] = Empty \/ view[k] \in Merges(Slices(k))

LEMMA HoldersSound ==
    ASSUME TimelineAssumption, holders \in Tags, NEW a \in Holders
    PROVE  SoundLocks(holders[a]) /\ holders \in [Holders -> AccountLocks]
BY DEF TimelineAssumption, SoundLocks

LEMMA StoredIs ==
    ASSUME TimelineAssumption, LineInv, NEW a \in Holders, NEW k \in Kinds
    PROVE  IsFiniteSet(stored[a][k]) /\ \A s \in stored[a][k] : Stated(s, AnyState)
<1> DEFINE h == holders[a]
<1>1. SoundLocks(h)
    BY HoldersSound DEF LineInv
<1>2. CASE stored = [b \in Holders |-> NoDetail]
    <2>1. stored[a][k] = {}
        BY <1>2 DEF NoDetail, Kinds
    <2> QED
        BY <2>1, FS_EmptySet
<1>3. CASE stored = [b \in Holders |-> Detail(holders[b])]
    <2>1. stored[a] = Detail(h)
        BY <1>3
    <2> HIDE DEF h
    <2>2. CASE k = "timeline"
        <3>1. stored[a][k] = Timeline(h)
            BY <2>1, <2>2 DEF Detail
        <3> QED
            BY <3>1, <1>1, TimelineIs
    <2>3. CASE k = "vesting"
        <3>1. stored[a][k] = VestingTranches(h)
            BY <2>1, <2>3 DEF Detail
        <3> QED
            BY <3>1, <1>1, VestingTranchesAre
    <2>4. CASE k = "vote"
        <3>1. stored[a][k] = VoteTranches(h)
            BY <2>1, <2>4 DEF Detail
        <3> QED
            BY <3>1, <1>1, VoteTranchesAre
    <2> QED
        BY <2>2, <2>3, <2>4 DEF Kinds
<1> QED
    BY <1>2, <1>3 DEF LineInv

LEMMA SlicesAre ==
    ASSUME TimelineAssumption, LineInv, NEW k \in Kinds
    PROVE  /\ IsFiniteSet(Slices(k)) /\ \A p \in Slices(k) : Stated(p.slice, AnyState)
           /\ SumOf(Slices(k)) = AllOf(k)
<1> DEFINE T == [a \in Holders |-> stored[a][k]]
           U == Slices(k)
           g == Totals(k)
<1>0. IsFiniteSet(Holders)
    BY DEF TimelineAssumption
<1>1. \A a \in Holders : IsFiniteSet(stored[a][k]) /\ \A s \in stored[a][k] : Stated(s, AnyState)
    BY StoredIs
<1>2. \A a \in Holders : \A s \in stored[a][k] : s.amount \in Int
    BY <1>1 DEF Stated
<1>3. \A p : p \in U <=> \E a \in Holders : \E s \in T[a] : p = [of |-> a, slice |-> s]
    BY DEF Slices
<1>4. \A a \in Holders : T[a] = stored[a][k] /\ g[a] = Total(stored[a][k])
    BY DEF Totals
<1> HIDE DEF T, U, g
<1>5. Together(T, U, g)
    BY <1>1, <1>2, <1>3, <1>4 DEF Together
<1>6. IsFiniteSet(U) /\ SumOf(U) = SumOver(g, Holders)
    BY <1>0, <1>5, SumTogether
<1>7. \A a \in Holders : g[a] \in Int
    BY <1>1, <1>2, <1>4, TotalInt
<1>8. AllOf(k) = SumOver(g, Holders)
    BY <1>0, <1>7, TotalsIsSum DEF g
<1>9. \A p \in U : Stated(p.slice, AnyState)
    <2> SUFFICES ASSUME NEW p \in U PROVE Stated(p.slice, AnyState)
        OBVIOUS
    <2>0. PICK a \in Holders : \E s \in T[a] : p = [of |-> a, slice |-> s]
        BY <1>3
    <2>1. PICK s \in T[a] : p = [of |-> a, slice |-> s]
        BY <2>0
    <2>2. p.slice = s /\ s \in stored[a][k]
        BY <2>1, <1>4
    <2> QED
        BY <2>2, <1>1
<1> QED
    BY <1>6, <1>8, <1>9 DEF U

LEMMA ReleasedTogether ==
    ASSUME TimelineAssumption, LineInv, NEW k \in Kinds, NEW t \in Nat,
           NEW P, P = {p \in Slices(k) : p.slice.state = "releasable"
                                    \/ (p.slice.state = "scheduled" /\ p.slice.until <= t)}
    PROVE  SumOf(P) = Apart(k, t)
<1> DEFINE R(S) == {s \in S : s.state = "releasable" \/ (s.state = "scheduled" /\ s.until <= t)}
           T == [a \in Holders |-> R(stored[a][k])]
           g == Released(k, t)
<1>0. IsFiniteSet(Holders)
    BY DEF TimelineAssumption
<1>1. \A a \in Holders : IsFiniteSet(stored[a][k]) /\ \A s \in stored[a][k] : Stated(s, AnyState)
    BY StoredIs
<1>2. \A a \in Holders : T[a] = R(stored[a][k]) /\ T[a] \subseteq stored[a][k]
    OBVIOUS
<1>3. \A a \in Holders : g[a] = Total(T[a])
    BY DEF Released, ReleasedBy
<1>4. \A p : p \in P <=> \E a \in Holders : \E s \in T[a] : p = [of |-> a, slice |-> s]
    <2> SUFFICES ASSUME NEW p PROVE p \in P <=> \E a \in Holders : \E s \in T[a] : p = [of |-> a, slice |-> s]
        OBVIOUS
    <2>1. p \in Slices(k) <=> \E a \in Holders : \E s \in stored[a][k] : p = [of |-> a, slice |-> s]
        BY DEF Slices
    <2>2. ASSUME p \in P PROVE \E a \in Holders : \E s \in T[a] : p = [of |-> a, slice |-> s]
        <3>1. p \in Slices(k) /\ (p.slice.state = "releasable"
                                    \/ (p.slice.state = "scheduled" /\ p.slice.until <= t))
            BY <2>2
        <3>0. PICK a \in Holders : \E s \in stored[a][k] : p = [of |-> a, slice |-> s]
            BY <2>1, <3>1
        <3>2. PICK s \in stored[a][k] : p = [of |-> a, slice |-> s]
            BY <3>0
        <3>3. p.slice = s
            BY <3>2
        <3>4. s \in T[a]
            BY <3>1, <3>3, <1>2
        <3> QED
            BY <3>2, <3>4
    <2>3. ASSUME NEW a \in Holders, NEW s \in T[a], p = [of |-> a, slice |-> s] PROVE p \in P
        <3>1. s \in stored[a][k] /\ (s.state = "releasable" \/ (s.state = "scheduled" /\ s.until <= t))
            BY <1>2
        <3>2. p.slice = s
            BY <2>3
        <3> QED
            BY <2>1, <2>3, <3>1, <3>2
    <2> QED
        BY <2>2, <2>3
<1> HIDE DEF T, g, R
<1>5. \A a \in Holders : IsFiniteSet(T[a]) /\ \A s \in T[a] : s.amount \in Int
    <2>1. \A a \in Holders : IsFiniteSet(T[a])
        BY <1>1, <1>2, FS_Subset
    <2> QED
        BY <2>1, <1>1, <1>2 DEF Stated
<1>6. Together(T, P, g)
    BY <1>3, <1>4, <1>5 DEF Together
<1>7. SumOf(P) = SumOver(g, Holders)
    BY <1>0, <1>6, SumTogether
<1>8. \A a \in Holders : g[a] \in Int
    BY <1>3, <1>5, TotalInt
<1>9. Apart(k, t) = SumOver(g, Holders)
    BY <1>0, <1>8, ApartIsSum DEF g
<1> QED
    BY <1>7, <1>9

LEMMA LineInvInit == ASSUME LineInit PROVE LineInv
BY DEF LineInit, LineInv

LEMMA LineInvNext == ASSUME LineInv, [LineNext]_lineVars PROVE LineInv'
<1>1. \A k : stored' = stored => Slices(k)' = Slices(k)
    BY DEF Slices
<1>2. CASE Collect
    <2>1. /\ stored' = [a \in Holders |-> Detail(holders[a])] /\ holders' = holders /\ view' = view
          /\ stored = [a \in Holders |-> NoDetail]
        BY <1>2 DEF Collect
    <2>2. DOMAIN view = Kinds /\ \A k \in Kinds : view[k] = Empty \/ (view[k] \in Merges(Slices(k)) /\ stored' = stored)
        <3>1. CASE view = [k \in Kinds |-> Empty]
            BY <3>1
        <3>2. CASE view # [k \in Kinds |-> Empty]
            BY <3>2, <2>1 DEF LineInv
        <3> QED
            BY <3>1, <3>2
    <2>3. \A k \in Kinds : view'[k] = Empty \/ view'[k] \in Merges(Slices(k))'
        <3> SUFFICES ASSUME NEW k \in Kinds PROVE view'[k] = Empty \/ view'[k] \in Merges(Slices(k)')
            OBVIOUS
        <3>1. stored' = stored => Slices(k)' = Slices(k)
            BY <1>1
        <3> QED
            BY <2>1, <2>2, <3>1
    <2>4. holders' \in Tags
        BY <2>1 DEF LineInv
    <2> QED
        BY <2>1, <2>2, <2>3, <2>4 DEF LineInv
<1>3. CASE AnswerTag
    <2>1. PICK line \in Merges(Slices("timeline")), vesting \in Merges(Slices("vesting")),
               vote \in Merges(Slices("vote")) :
            view' = [timeline |-> line, vesting |-> vesting, vote |-> vote]
        BY <1>3 DEF AnswerTag
    <2>2. /\ stored' = stored /\ holders' = holders /\ stored # [a \in Holders |-> NoDetail]
        BY <1>3 DEF AnswerTag
    <2>3. stored = [a \in Holders |-> Detail(holders[a])] /\ holders \in Tags
        BY <2>2 DEF LineInv
    <2>4. DOMAIN view' = Kinds
        BY <2>1 DEF Kinds
    <2>5. \A k \in Kinds : view'[k] \in Merges(Slices(k)')
        <3>1. /\ view'["timeline"] \in Merges(Slices("timeline"))
              /\ view'["vesting"] \in Merges(Slices("vesting"))
              /\ view'["vote"] \in Merges(Slices("vote"))
            BY <2>1
        <3>2. \A k \in Kinds : view'[k] \in Merges(Slices(k))
            BY <3>1 DEF Kinds
        <3>3. \A k : Slices(k)' = Slices(k)
            BY <1>1, <2>2
        <3> QED
            BY <3>2, <3>3
    <2> QED
        BY <2>2, <2>3, <2>4, <2>5 DEF LineInv
<1>4. CASE UNCHANGED lineVars
    <2>1. stored' = stored /\ holders' = holders /\ view' = view
        BY <1>4 DEF lineVars
    <2>2. \A k : Slices(k)' = Slices(k)
        BY <1>1, <2>1
    <2> QED
        BY <2>1, <2>2 DEF LineInv
<1> QED
    BY <1>2, <1>3, <1>4 DEF LineNext

LEMMA CollectedIs ==
    ASSUME TimelineAssumption, LineInv, Collected, NEW a \in Holders
    PROVE  /\ SoundLocks(holders[a])
           /\ stored[a].timeline = Timeline(holders[a])
           /\ stored[a].vesting = VestingTranches(holders[a])
           /\ stored[a].vote = VoteTranches(holders[a])
<1>1. stored = [b \in Holders |-> Detail(holders[b])] /\ holders \in Tags
    BY DEF LineInv, Collected
<1>2. stored[a] = Detail(holders[a])
    BY <1>1
<1> QED
    BY <1>1, <1>2, HoldersSound DEF Detail

LEMMA LineTyped == ASSUME TimelineAssumption, LineInv PROVE LineTypeOK
<1>1. holders \in [Holders -> AccountLocks]
    BY DEF LineInv, TimelineAssumption
<1>2. \A a \in Holders, k \in Kinds : \A s \in stored[a][k] :
            s.amount \in Nat \ {0} /\ s.until \in Instant /\ s.cause \subseteq LockSources
    BY StoredIs DEF Stated
<1>3. DOMAIN view = Kinds
    BY DEF LineInv
<1> QED
    BY <1>1, <1>2, <1>3 DEF LineTypeOK

LEMMA TimelineIsTrue == ASSUME TimelineAssumption, LineInv PROVE TimelineTrue
<1> SUFFICES ASSUME Collected, NEW a \in Holders
             PROVE  LET h == holders[a]
                        line == stored[a].timeline
                        held(t) == Frozen(h) - ReleasedBy(line, t) IN
                    /\ Total(line) = Frozen(h)
                    /\ \A t \in Instant : held(t) >= Envelope(h, t)
                    /\ \A t \in KeptSteps(h) \cup {0, Horizon} : held(t) <= Highest({Envelope(h, t), SoftFloor(h)})
    BY DEF TimelineTrue
<1> DEFINE h == holders[a]
<1>1. SoundLocks(h) /\ stored[a].timeline = Timeline(h)
    BY CollectedIs
<1> HIDE DEF h
<1>2. Total(Timeline(h)) = Frozen(h)
    BY <1>1, TimelineIs
<1>3. \A t \in Nat : /\ Frozen(h) - ReleasedBy(Timeline(h), t) >= Envelope(h, t)
                     /\ t \in KeptSteps(h) \cup {0, Horizon} =>
                            Frozen(h) - ReleasedBy(Timeline(h), t) <= Highest({Envelope(h, t), SoftFloor(h)})
    BY <1>1, TimelineHolds
<1>4. (\A t \in Instant : t \in Nat) /\ \A t \in KeptSteps(h) \cup {0, Horizon} : t \in Nat
    <2>1. Horizon \in Nat
        BY DEF TimelineAssumption
    <2>2. \A t \in KeptSteps(h) : t \in Nat
        BY <1>1, StepsAre
    <2> QED
        BY <2>1, <2>2 DEF Instant
<1> QED
    BY <1>1, <1>2, <1>3, <1>4 DEF h

LEMMA MinimumIsKnown == ASSUME TimelineAssumption, LineInv PROVE MinimumKnown
<1> SUFFICES ASSUME Collected, NEW a \in Holders, StillVesting(holders[a]) = 0,
                    KeptSteps(holders[a]) = Steps(holders[a]),
                    NEW s \in stored[a].timeline, s.state = "active", NEW t \in 0 .. s.until - 1
             PROVE  Dated(holders[a], t) >= s.amount
    BY DEF MinimumKnown
<1>1. SoundLocks(holders[a]) /\ stored[a].timeline = Timeline(holders[a])
    BY CollectedIs
<1> QED
    BY <1>1, OpenDated

LEMMA TranchesAreTrue == ASSUME TimelineAssumption, LineInv PROVE TranchesTrue
<1> SUFFICES ASSUME Collected, NEW a \in Holders
             PROVE  LET h == holders[a] IN
                    /\ Total(stored[a].vesting) = h.vesting.amount
                    /\ Total(stored[a].vote) = h.vote.amount
                    /\ \A t \in Instant : h.vote.amount - ReleasedBy(stored[a].vote, t) = VoteBound(h, t)
    BY DEF TranchesTrue
<1> DEFINE h == holders[a]
<1>1. SoundLocks(h) /\ stored[a].vesting = VestingTranches(h) /\ stored[a].vote = VoteTranches(h)
    BY CollectedIs
<1> HIDE DEF h
<1>2. Total(VestingTranches(h)) = h.vesting.amount
    BY <1>1, VestingTranchesAre
<1>3. /\ Total(VoteTranches(h)) = h.vote.amount
      /\ \A t \in Nat : h.vote.amount - ReleasedBy(VoteTranches(h), t) = VoteBound(h, t)
    BY <1>1, VoteTranchesAre
<1>4. \A t \in Instant : t \in Nat
    BY DEF TimelineAssumption, Instant
<1> QED
    BY <1>1, <1>2, <1>3, <1>4 DEF h

LEMMA MergeIsTrue == ASSUME TimelineAssumption, LineInv PROVE MergeTrue
<1>0. Horizon \in Nat
    BY DEF TimelineAssumption
<1>1. ASSUME NEW k \in Kinds, view[k] # Empty, NEW t \in Nat
      PROVE  LET merged == ReleasedBy(view[k].now \cup view[k].kept, t) + ReleasedBy(view[k].tail, t) IN
             /\ merged <= Apart(k, t)
             /\ t = Horizon => merged = Apart(k, t) /\ Total(view[k].open) + merged = AllOf(k)
    <2> DEFINE all == Slices(k)
               v == view[k]
               P == {p \in all : p.slice.state = "releasable"
                                    \/ (p.slice.state = "scheduled" /\ p.slice.until <= t)}
               merged == ReleasedBy(v.now \cup v.kept, t) + ReleasedBy(v.tail, t)
    <2>1. v \in Merges(all)
        BY <1>1 DEF LineInv
    <2>2. IsFiniteSet(all) /\ (\A p \in all : Stated(p.slice, AnyState)) /\ SumOf(all) = AllOf(k)
        BY SlicesAre
    <2>3. P = {p \in all : p.slice.state = "releasable"
                                    \/ (p.slice.state = "scheduled" /\ p.slice.until <= t)}
        OBVIOUS
    <2>4. SumOf(P) = Apart(k, t)
        <3> HIDE DEF P
        <3> QED
            BY <2>3, ReleasedTogether
    <2> HIDE DEF all, v, P
    <2>5. merged <= SumOf(P) /\ (t = Horizon => merged = SumOf(P) /\ Total(v.open) + merged = SumOf(all))
        BY <1>0, <2>1, <2>2, <2>3, MergeHolds
    <2> QED
        BY <2>2, <2>4, <2>5 DEF v
<1>2. \A t \in Instant : t \in Nat
    BY <1>0 DEF Instant
<1> QED
    BY <1>0, <1>1, <1>2 DEF MergeTrue, Apart, AllOf

\* Timelines and tranches add up to what is locked, show nothing free that a lock
\* still needs, and a tag is told what its accounts have, merged.
THEOREM TimelineSafety == LineSpec => []TimelineSound
<1>1. LineInit => LineInv
    BY LineInvInit
<1>2. LineInv /\ [LineNext]_lineVars => LineInv'
    BY LineInvNext
<1>3. LineInv => TimelineSound
    BY TimelineAssumption, LineTyped, TimelineIsTrue, MinimumIsKnown, TranchesAreTrue, MergeIsTrue
       DEF TimelineSound
<1> QED
    BY <1>1, <1>2, <1>3, PTL DEF LineSpec

----------------------------------------------------------------------------
(* ReferendumVotes: what the pallet has booked after an extrinsic. *)

Book == [Polls -> [Voters -> Ballots \cup {NoBallot}]]

\* The acts of account a in poll p among the places s.
ActsIn(items, s, p, a) == {n \in s : items[n].who = a /\ items[n].poll = p}
LastIn(items, s, p, a, old) ==
    IF ActsIn(items, s, p, a) = {} THEN old ELSE items[Max(ActsIn(items, s, p, a))].ballot
\* The books after the acts at the places s.
BookOf(b, items, s) == [p \in Polls |-> [a \in Voters |-> LastIn(items, s, p, a, b[p][a])]]

\* The equation of the recursive function in FoldLeft.
Folds(F, b, items) ==
    F = [s \in SUBSET DOMAIN items |->
            IF s = {} THEN b ELSE Booked(F[s \ {Max(s)}], items[Max(s)])]

LEMMA PlacesFinite ==
    ASSUME NEW items \in Seq(Items), NEW s \in SUBSET DOMAIN items
    PROVE  IsFiniteSet(s) /\ s \subseteq Nat /\ s \subseteq Int /\ \A n \in s : items[n] \in Items
<1>1. DOMAIN items = 1 .. Len(items) /\ Len(items) \in Nat /\ \A n \in 1 .. Len(items) : items[n] \in Items
    OBVIOUS
<1>2. IsFiniteSet(1 .. Len(items))
    BY <1>1, FS_Interval
<1>3. IsFiniteSet(s)
    BY <1>1, <1>2, FS_Subset
<1> QED
    BY <1>1, <1>3

LEMMA BookOfType ==
    ASSUME NEW b \in Book, NEW items \in Seq(Items), NEW s \in SUBSET DOMAIN items
    PROVE  BookOf(b, items, s) \in Book
<1>1. ASSUME NEW p \in Polls, NEW a \in Voters
      PROVE  LastIn(items, s, p, a, b[p][a]) \in Ballots \cup {NoBallot}
    <2> DEFINE A == ActsIn(items, s, p, a)
    <2>1. CASE A = {}
        BY <2>1 DEF LastIn, Book
    <2>2. CASE A # {}
        <3>1. A \in SUBSET DOMAIN items
            BY DEF ActsIn
        <3> HIDE DEF A
        <3>2. IsFiniteSet(A) /\ A \subseteq Int /\ \A n \in A : items[n] \in Items
            BY <3>1, PlacesFinite
        <3>3. Max(A) \in A
            BY <3>2, <2>2, MaxIsGreatest
        <3>4. items[Max(A)].ballot \in Ballots \cup {NoBallot}
            BY <3>2, <3>3 DEF Items
        <3> QED
            BY <3>4, <2>2 DEF LastIn, A
    <2> QED
        BY <2>1, <2>2
<1> QED
    BY <1>1 DEF BookOf, Book

\* The last act is booked over what the others have left.
LEMMA BookOfLast ==
    ASSUME NEW b \in Book, NEW items \in Seq(Items), NEW s \in SUBSET DOMAIN items, s # {}
    PROVE  BookOf(b, items, s) = Booked(BookOf(b, items, s \ {Max(s)}), items[Max(s)])
<1> DEFINE z == Max(s)
           i == items[z]
           r == s \ {z}
<1>1. IsFiniteSet(s) /\ s \subseteq Int /\ \A n \in s : items[n] \in Items
    BY PlacesFinite
<1>2. z \in s /\ \A n \in s : n <= z
    BY <1>1, MaxIsGreatest
<1>3. i \in Items /\ i.poll \in Polls /\ i.who \in Voters
    BY <1>1, <1>2 DEF Items
<1> HIDE DEF z, i
<1>4. ASSUME NEW p \in Polls, NEW a \in Voters, p # i.poll \/ a # i.who
      PROVE  LastIn(items, s, p, a, b[p][a]) = LastIn(items, r, p, a, b[p][a])
    <2>1. ActsIn(items, s, p, a) = ActsIn(items, r, p, a)
        BY <1>4 DEF ActsIn, i
    <2> QED
        BY <2>1 DEF LastIn
<1>5. LastIn(items, s, i.poll, i.who, b[i.poll][i.who]) = i.ballot
    <2> DEFINE A == ActsIn(items, s, i.poll, i.who)
    <2>1. A \subseteq s /\ z \in A
        BY <1>2 DEF ActsIn, i
    <2>2. IsFiniteSet(A) /\ A \subseteq Int /\ A # {}
        BY <1>1, <2>1, FS_Subset
    <2>3. Max(A) \in A /\ \A y \in A : y <= Max(A)
        <3> HIDE DEF A
        <3> QED
            BY <2>2, MaxIsGreatest
    <2>4. Max(A) = z
        <3> HIDE DEF A
        <3>1. Max(A) \in Int /\ z \in Int /\ Max(A) <= z /\ z <= Max(A)
            BY <2>1, <2>2, <2>3, <1>2
        <3> QED
            BY <3>1
    <2> QED
        BY <2>2, <2>4 DEF LastIn, i
<1> HIDE DEF r
<1> DEFINE B == BookOf(b, items, r)
<1>6. B = [p \in Polls |-> [a \in Voters |-> LastIn(items, r, p, a, b[p][a])]]
    BY DEF BookOf
<1>7. Booked(B, i) = [p \in Polls |-> [a \in Voters |->
                          IF p = i.poll /\ a = i.who THEN i.ballot ELSE B[p][a]]]
    <2> HIDE DEF B
    <2>1. B = [p \in Polls |-> B[p]] /\ \A p \in Polls : B[p] = [a \in Voters |-> B[p][a]]
        BY <1>6
    <2> QED
        BY <1>3, <2>1 DEF Booked
<1>8. ASSUME NEW p \in Polls, NEW a \in Voters
      PROVE  LastIn(items, s, p, a, b[p][a]) = IF p = i.poll /\ a = i.who THEN i.ballot ELSE B[p][a]
    <2> HIDE DEF B
    <2>1. B[p][a] = LastIn(items, r, p, a, b[p][a])
        BY <1>6
    <2> QED
        BY <2>1, <1>4, <1>5
<1> HIDE DEF B
<1>9. BookOf(b, items, s) = [p \in Polls |-> [a \in Voters |->
                          IF p = i.poll /\ a = i.who THEN i.ballot ELSE B[p][a]]]
    BY <1>8 DEF BookOf
<1> QED
    BY <1>7, <1>9 DEF B, i, r, z

LEMMA FoldIsBook ==
    ASSUME NEW items \in Seq(Items), books \in Book
    PROVE  BookedAll(items) = BookOf(books, items, DOMAIN items)
<1> DEFINE D == DOMAIN items
           H == [s \in SUBSET D |-> BookOf(books, items, s)]
           K == CHOOSE iter : iter = [s \in SUBSET D |->
                    IF s = {} THEN books ELSE Booked(iter[s \ {Max(s)}], items[Max(s)])]
<1>1. BookedAll(items) = K[D]
    BY DEF BookedAll, FoldLeft, MapThenFoldSet
<1>2. D = 1 .. Len(items) /\ Len(items) \in Nat
    OBVIOUS
<1>3. BookOf(books, items, {}) = books
    <2>1. \A p \in Polls, a \in Voters : LastIn(items, {}, p, a, books[p][a]) = books[p][a]
        BY DEF LastIn, ActsIn
    <2>2. books = [p \in Polls |-> [a \in Voters |-> books[p][a]]]
        BY DEF Book
    <2> QED
        BY <2>1, <2>2 DEF BookOf
<1>4. \A s \in SUBSET D : s # {} => Max(s) \in s /\ \A n \in s : n <= Max(s)
    BY PlacesFinite, MaxIsGreatest
<1>5. ASSUME NEW s \in SUBSET D
      PROVE  H[s] = IF s = {} THEN books ELSE Booked(H[s \ {Max(s)}], items[Max(s)])
    <2>1. CASE s = {}
        BY <2>1, <1>3
    <2>2. CASE s # {}
        BY <2>2, BookOfLast
    <2> QED
        BY <2>1, <2>2
<1>6. H = [s \in SUBSET D |-> IF s = {} THEN books ELSE Booked(H[s \ {Max(s)}], items[Max(s)])]
    BY <1>5
<1> HIDE DEF H
<1>7. K = [s \in SUBSET D |-> IF s = {} THEN books ELSE Booked(K[s \ {Max(s)}], items[Max(s)])]
    BY <1>6
<1> HIDE DEF K
<1> DEFINE G == {n \in Nat : \A s \in SUBSET D : s \subseteq 1 .. n => K[s] = H[s]}
<1>8. 0 \in G
    <2>1. ASSUME NEW s \in SUBSET D, s \subseteq 1 .. 0 PROVE s = {}
        BY <2>1
    <2> QED
        BY <2>1, <1>6, <1>7
<1>9. ASSUME NEW n \in Nat, n \in G PROVE n + 1 \in G
    <2> SUFFICES ASSUME NEW s \in SUBSET D, s \subseteq 1 .. (n + 1) PROVE K[s] = H[s]
        OBVIOUS
    <2>1. CASE s = {}
        BY <2>1, <1>6, <1>7
    <2>2. CASE s # {}
        <3> DEFINE r == s \ {Max(s)}
        <3>1. r \in SUBSET D /\ r \subseteq 1 .. n
            BY <2>2, <1>4
        <3>2. K[r] = H[r]
            BY <3>1, <1>9
        <3>3. K[s] = Booked(K[r], items[Max(s)]) /\ H[s] = Booked(H[r], items[Max(s)])
            BY <2>2, <1>6, <1>7
        <3> QED
            BY <3>2, <3>3
    <2> QED
        BY <2>1, <2>2
<1> HIDE DEF G
<1>10. Len(items) \in G
    BY <1>2, <1>8, <1>9, NaturalsFill
<1>11. K[D] = H[D]
    BY <1>2, <1>10 DEF G
<1> QED
    BY <1>1, <1>11 DEF H

----------------------------------------------------------------------------
(* ReferendumVotes: the sums of the tally, and the bound on items. *)

Lengths(h) == [n \in DOMAIN h |-> Len(h[n].items)]

LEMMA KeptIsSum ==
    ASSUME NEW h, IsFiniteSet(DOMAIN h), \A n \in DOMAIN h : Len(h[n].items) \in Int
    PROVE  KeptIn(h) = SumOver(Lengths(h), DOMAIN h)
<1> DEFINE S == DOMAIN h
           f == Lengths(h)
<1>1. \A x \in S : f[x] = Len(h[x].items) /\ f[x] \in Int
    BY DEF Lengths
<1>2. PICK K : SumTable(K, f, S)
    <2> HIDE DEF f
    <2> QED
        BY <1>1, SumsOf
<1> DEFINE H == CHOOSE iter : iter = [s \in SUBSET S |-> IF s = {} THEN 0
                    ELSE Len(h[CHOOSE x \in s : TRUE].items) + iter[s \ {CHOOSE x \in s : TRUE}]]
<1>3. KeptIn(h) = H[S]
    BY DEF KeptIn, MapThenSumSet, MapThenFoldSet
<1>4. \A s \in SUBSET S : s # {} => One(s) \in S /\ f[One(s)] = Len(h[One(s)].items)
    <2>1. \A s \in SUBSET S : s # {} => One(s) \in s
        BY DEF One
    <2> QED
        BY <2>1, <1>1
<1> HIDE DEF f, S
<1>5. K = [s \in SUBSET S |-> IF s = {} THEN 0 ELSE f[One(s)] + K[s \ {One(s)}]]
    BY <1>2 DEF SumTable, Sums
<1>6. K = [s \in SUBSET S |-> IF s = {} THEN 0 ELSE Len(h[One(s)].items) + K[s \ {One(s)}]]
    BY <1>4, <1>5
<1>7. H = [s \in SUBSET S |-> IF s = {} THEN 0 ELSE Len(h[One(s)].items) + H[s \ {One(s)}]]
    BY <1>6 DEF One
<1> HIDE DEF H
<1>8. Sums(H, f, S)
    BY <1>4, <1>7 DEF Sums
<1>9. H[S] = K[S]
    BY <1>1, <1>2, <1>8, SumsAgree DEF SumTable, S
<1> QED
    BY <1>2, <1>3, <1>9 DEF SumTable, f, S

Weights(votes, leg) == [a \in Voters |-> Weight(votes[a], leg)]

LEMMA WeighedIsSum ==
    ASSUME IsFiniteSet(Voters), NEW votes, NEW leg, \A a \in Voters : Weight(votes[a], leg) \in Int
    PROVE  Weighed(votes, leg) = SumOver(Weights(votes, leg), Voters)
<1> DEFINE S == Voters
           f == Weights(votes, leg)
<1>1. \A x \in S : f[x] = Weight(votes[x], leg) /\ f[x] \in Int
    BY DEF Weights
<1>2. PICK K : SumTable(K, f, S)
    <2> HIDE DEF f
    <2> QED
        BY <1>1, SumsOf
<1> DEFINE H == CHOOSE iter : iter = [s \in SUBSET S |-> IF s = {} THEN 0
                    ELSE Weight(votes[CHOOSE x \in s : TRUE], leg) + iter[s \ {CHOOSE x \in s : TRUE}]]
<1>3. Weighed(votes, leg) = H[S]
    BY DEF Weighed, MapThenSumSet, MapThenFoldSet
<1>4. \A s \in SUBSET S : s # {} => One(s) \in S /\ f[One(s)] = Weight(votes[One(s)], leg)
    <2>1. \A s \in SUBSET S : s # {} => One(s) \in s
        BY DEF One
    <2> QED
        BY <2>1, <1>1
<1> HIDE DEF f, S
<1>5. K = [s \in SUBSET S |-> IF s = {} THEN 0 ELSE f[One(s)] + K[s \ {One(s)}]]
    BY <1>2 DEF SumTable, Sums
<1>6. K = [s \in SUBSET S |-> IF s = {} THEN 0 ELSE Weight(votes[One(s)], leg) + K[s \ {One(s)}]]
    BY <1>4, <1>5
<1>7. H = [s \in SUBSET S |-> IF s = {} THEN 0 ELSE Weight(votes[One(s)], leg) + H[s \ {One(s)}]]
    BY <1>6 DEF One
<1> HIDE DEF H
<1>8. Sums(H, f, S)
    BY <1>4, <1>7 DEF Sums
<1>9. H[S] = K[S]
    BY <1>1, <1>2, <1>8, SumsAgree DEF SumTable, S
<1> QED
    BY <1>2, <1>3, <1>9 DEF SumTable, f, S

Countings(leg) == [a \in Voters |-> Counted(counted[a], leg)]

LEMMA CountedIsSum ==
    ASSUME IsFiniteSet(Voters), NEW leg, \A a \in Voters : Counted(counted[a], leg) \in Int
    PROVE  CountedSum(leg) = SumOver(Countings(leg), Voters)
<1> DEFINE S == Voters
           f == Countings(leg)
<1>1. \A x \in S : f[x] = Counted(counted[x], leg) /\ f[x] \in Int
    BY DEF Countings
<1>2. PICK K : SumTable(K, f, S)
    <2> HIDE DEF f
    <2> QED
        BY <1>1, SumsOf
<1> DEFINE H == CHOOSE iter : iter = [s \in SUBSET S |-> IF s = {} THEN 0
                    ELSE Counted(counted[CHOOSE x \in s : TRUE], leg) + iter[s \ {CHOOSE x \in s : TRUE}]]
<1>3. CountedSum(leg) = H[S]
    BY DEF CountedSum, MapThenSumSet, MapThenFoldSet
<1>4. \A s \in SUBSET S : s # {} => One(s) \in S /\ f[One(s)] = Counted(counted[One(s)], leg)
    <2>1. \A s \in SUBSET S : s # {} => One(s) \in s
        BY DEF One
    <2> QED
        BY <2>1, <1>1
<1> HIDE DEF f, S
<1>5. K = [s \in SUBSET S |-> IF s = {} THEN 0 ELSE f[One(s)] + K[s \ {One(s)}]]
    BY <1>2 DEF SumTable, Sums
<1>6. K = [s \in SUBSET S |-> IF s = {} THEN 0 ELSE Counted(counted[One(s)], leg) + K[s \ {One(s)}]]
    BY <1>4, <1>5
<1>7. H = [s \in SUBSET S |-> IF s = {} THEN 0 ELSE Counted(counted[One(s)], leg) + H[s \ {One(s)}]]
    BY <1>6 DEF One
<1> HIDE DEF H
<1>8. Sums(H, f, S)
    BY <1>4, <1>7 DEF Sums
<1>9. H[S] = K[S]
    BY <1>1, <1>2, <1>8, SumsAgree DEF SumTable, S
<1> QED
    BY <1>2, <1>3, <1>9 DEF SumTable, f, S

\* Tenths of a balance are its weight.
LEMMA WeightIsCounted ==
    ASSUME VotesAssumption, NEW b \in Ballots \cup {NoBallot}, NEW leg \in {"aye", "nay"}
    PROVE  Weight(b, leg) = Counted(b, leg) /\ Weight(b, leg) \in Int
<1>1. b[leg] \in Nat /\ b.conviction \in 0 .. 6
    <2>1. CASE b \in Ballots
        BY <2>1 DEF VotesAssumption
    <2>2. CASE b = NoBallot
        BY <2>2 DEF NoBallot
    <2> QED
        BY <2>1, <2>2
<1>2. ASSUME NEW n \in Nat, NEW c \in 0 .. 6 PROVE Power(n, c) = Counts(n, c) /\ Power(n, c) \in Int
    <2>1. CASE c = 0
        BY <2>1 DEF Power, Tenths, Counts
    <2>2. CASE c = 1
        BY <2>2 DEF Power, Tenths, Counts
    <2>3. CASE c = 2
        BY <2>3 DEF Power, Tenths, Counts
    <2>4. CASE c = 3
        BY <2>4 DEF Power, Tenths, Counts
    <2>5. CASE c = 4
        BY <2>5 DEF Power, Tenths, Counts
    <2>6. CASE c = 5
        BY <2>6 DEF Power, Tenths, Counts
    <2>7. CASE c = 6
        BY <2>7 DEF Power, Tenths, Counts
    <2>8. c = 0 \/ c = 1 \/ c = 2 \/ c = 3 \/ c = 4 \/ c = 5 \/ c = 6
        OBVIOUS
    <2> QED
        BY <2>1, <2>2, <2>3, <2>4, <2>5, <2>6, <2>7, <2>8
<1>3. 0 \in 0 .. 6
    OBVIOUS
<1>4. CASE b.kind = "Standard"
    BY <1>1, <1>2, <1>4 DEF Weight, Counted
<1>5. CASE b.kind # "Standard"
    BY <1>1, <1>2, <1>3, <1>5 DEF Weight, Counted
<1> QED
    BY <1>4, <1>5

----------------------------------------------------------------------------
(* ReferendumVotes: the page against the pallet. *)

Dispatches == [block : Nat, kind : {"own", "wrapped", "permit"}, items : Seq(Items)]

\* What an account did in this referendum while it ran; votes are only taken while it does.
Timely(n) == OpenAt("this", history[n].block)
MineIn(n, a) == ActsOf(history[n], a, "this")
IsLast(n, m, a) ==
    /\ n \in DOMAIN history /\ m \in MineIn(n, a) /\ Timely(n)
    /\ \A k \in DOMAIN history : Timely(k) => \A l \in MineIn(k, a) : k < n \/ (k = n /\ l <= m)
NoneTimely(a) == \A n \in DOMAIN history : Timely(n) => MineIn(n, a) = {}

LastCounts(a) ==
    \/ NoneTimely(a) /\ counted[a] = NoBallot
    \/ \E n \in DOMAIN history : \E m \in MineIn(n, a) :
        IsLast(n, m, a) /\ counted[a] = history[n].items[m].ballot

\* An extrinsic is in a block of the chain, and its votes were taken while their polls ran.
Placed(n) ==
    /\ submitted <= history[n].block /\ history[n].block <= tip
    /\ \A m \in VoteItems(history[n]) : OpenAt(history[n].items[m].poll, history[n].block)

VotesInv ==
    /\ rules \in {"opengov", "democracy"} /\ submitted \in {1, FirstVoted}
    /\ tip \in submitted .. submitted + MoreBlocks
    /\ shut \in [Polls -> Nat]
    /\ \A p \in Polls : shut[p] = 0 \/ (submitted < shut[p] /\ shut[p] <= tip)
    /\ books \in Book /\ counted \in [Voters -> Ballots \cup {NoBallot}]
    /\ history \in Seq(Dispatches)
    /\ \A n \in DOMAIN history : Placed(n)
    /\ shut["this"] = 0 => counted = books["this"]
    /\ \A a \in Voters : LastCounts(a)
    /\ Kept <= MaxItems

\* What the proof uses of the history.
HistoryTyped ==
    \A n \in DOMAIN history :
        /\ history[n].kind \in {"own", "wrapped", "permit"} /\ n \in Nat
        /\ DOMAIN history[n].items \subseteq Nat /\ IsFiniteSet(DOMAIN history[n].items)
        /\ \A m \in DOMAIN history[n].items : history[n].items[m].poll \in Polls
        /\ submitted <= history[n].block /\ history[n].block <= tip /\ history[n].block \in Nat
        /\ \A m \in VoteItems(history[n]) : OpenAt(history[n].items[m].poll, history[n].block)

\* The rows of an account are its votes here.
PageRows(a) == {r \in VoteRows : r.item.who = a}
IsVoteRow(r, n, m, a) ==
    /\ n \in DOMAIN history /\ m \in MineIn(n, a) /\ m \in VoteItems(history[n])
    /\ r.at = n /\ r.item = history[n].items[m]
    /\ r.event = IF HasEvents THEN m ELSE 0

LEMMA HistoryKnown ==
    ASSUME VotesInv
    PROVE  /\ HistoryTyped
           /\ IsFiniteSet(DOMAIN history) /\ DOMAIN history \subseteq Nat
           /\ submitted \in Nat /\ tip \in Nat /\ shut["this"] \in Nat
           /\ shut["this"] = 0 \/ (submitted < shut["this"] /\ shut["this"] <= tip)
<1>1. DOMAIN history = 1 .. Len(history) /\ Len(history) \in Nat
    BY DEF VotesInv
<1>2. IsFiniteSet(DOMAIN history) /\ DOMAIN history \subseteq Nat
    BY <1>1, FS_Interval
<1>3. \A n \in DOMAIN history : history[n] \in Dispatches
    BY DEF VotesInv
<1>4. ASSUME NEW n \in DOMAIN history
      PROVE  /\ history[n].kind \in {"own", "wrapped", "permit"} /\ history[n].block \in Nat
             /\ DOMAIN history[n].items \subseteq Nat /\ IsFiniteSet(DOMAIN history[n].items)
             /\ \A m \in DOMAIN history[n].items : history[n].items[m].poll \in Polls
    <2>1. /\ history[n].kind \in {"own", "wrapped", "permit"} /\ history[n].block \in Nat
          /\ history[n].items \in Seq(Items)
        BY <1>3 DEF Dispatches
    <2>2. DOMAIN history[n].items = 1 .. Len(history[n].items) /\ Len(history[n].items) \in Nat
        BY <2>1
    <2>3. IsFiniteSet(1 .. Len(history[n].items))
        BY <2>2, FS_Interval
    <2>5. \A m \in 1 .. Len(history[n].items) : history[n].items[m] \in Items
        BY <2>1
    <2>4. \A m \in 1 .. Len(history[n].items) : history[n].items[m].poll \in Polls
        BY <2>5 DEF Items
    <2> QED
        BY <2>1, <2>2, <2>3, <2>4
<1>5. HistoryTyped
    BY <1>2, <1>4 DEF HistoryTyped, VotesInv, Placed
<1>6. "this" \in Polls
    BY DEF Polls
<1>7. submitted \in Nat /\ tip \in Nat
    BY VotesAssumption DEF VotesInv, VotesAssumption
<1>8. /\ shut["this"] \in Nat
      /\ shut["this"] = 0 \/ (submitted < shut["this"] /\ shut["this"] <= tip)
    BY <1>6 DEF VotesInv
<1> QED
    BY <1>2, <1>5, <1>7, <1>8

\* What Clear excludes.
LEMMA ClearFacts ==
    ASSUME NEW a, Clear(a), NEW n \in DOMAIN history
    PROVE  /\ rules = "opengov" /\ HasEvents /\ NamesThis(history[n], DOMAIN history[n].items)
                => ActsOf(history[n], a, "other") = {}
           /\ \A k, m \in MineIn(n, a) : k = m
           /\ \A m \in MineIn(n, a) :
                \/ history[n].kind = "own"
                \/ /\ HasEvents
                   /\ m \in VoteItems(history[n]) /\ rules = "opengov"
                        => NamesThis(history[n], DecodedVotes(history[n]))
                   /\ m \in RemovalItems(history[n])
                        => rules # "democracy" /\ NamesThis(history[n], DecodedRemovals(history[n]))
<1>1. history[n] \in ToSet(history)
    BY DEF ToSet
<1>2. ~Entangled(a) /\ ~Twice(a) /\ ~Unseen(a)
    BY DEF Clear
<1>3. rules = "opengov" /\ HasEvents /\ NamesThis(history[n], DOMAIN history[n].items)
                => ActsOf(history[n], a, "other") = {}
    BY <1>1, <1>2 DEF Entangled
<1>4. \A k, m \in MineIn(n, a) : k = m
    BY <1>1, <1>2 DEF Twice, MineIn
<1>5. ASSUME NEW m \in MineIn(n, a), history[n].kind # "own"
      PROVE  /\ HasEvents
             /\ m \in VoteItems(history[n]) /\ rules = "opengov"
                    => NamesThis(history[n], DecodedVotes(history[n]))
             /\ m \in RemovalItems(history[n])
                    => rules # "democracy" /\ NamesThis(history[n], DecodedRemovals(history[n]))
    BY <1>1, <1>2, <1>5 DEF Unseen, MineIn
<1> QED
    BY <1>3, <1>4, <1>5

LEMMA CallsAreItems ==
    ASSUME NEW x
    PROVE  /\ VoteItems(x) \subseteq DOMAIN x.items /\ RemovalItems(x) \subseteq DOMAIN x.items
           /\ VoteCalls(x) \subseteq VoteItems(x) /\ RemovalCalls(x) \subseteq RemovalItems(x)
           /\ DecodedVotes(x) \subseteq DOMAIN x.items /\ DecodedRemovals(x) \subseteq RemovalItems(x)
           /\ RemovalEvents(x) \subseteq RemovalItems(x)
BY DEF VoteItems, RemovalItems, VoteCalls, RemovalCalls, DecodedVotes, DecodedRemovals, RemovalEvents

\* An account that acts in this referendum, and in no other, acts here.
LEMMA ActsHere ==
    ASSUME NEW a, NEW n \in DOMAIN history, HistoryTyped, NEW m \in DOMAIN history[n].items,
           history[n].items[m].who = a,
           history[n].items[m].poll = "this" \/ ActsOf(history[n], a, "other") = {}
    PROVE  m \in MineIn(n, a) /\ history[n].items[m].poll = "this"
<1>1. history[n].items[m].poll \in {"this", "other"}
    BY DEF HistoryTyped, Polls
<1>2. history[n].items[m].poll = "this"
    BY <1>1 DEF ActsOf
<1> QED
    BY <1>2 DEF MineIn, ActsOf

LEMMA VoteRowIs ==
    ASSUME NEW a, HistoryTyped, Clear(a), rules \in {"opengov", "democracy"}, NEW r \in PageRows(a)
    PROVE  \E n, m : IsVoteRow(r, n, m, a)
<1>1. r \in VoteRows /\ r.item.who = a
    BY DEF PageRows
<1>2. ASSUME NEW q \in CastVotes
      PROVE  \E n \in DOMAIN history : \E m \in VoteItems(history[n]) :
                q = [at |-> n, event |-> m, item |-> history[n].items[m]]
    BY DEF CastVotes
<1>3. CASE rules = "democracy"
    <2>1. r \in CastVotes /\ r.item.poll = "this" /\ HasEvents
        BY <1>1, <1>3 DEF VoteRows, HasEvents
    <2>2. PICK n \in DOMAIN history : \E m \in VoteItems(history[n]) :
                r = [at |-> n, event |-> m, item |-> history[n].items[m]]
        BY <2>1, <1>2
    <2>3. PICK m \in VoteItems(history[n]) : r = [at |-> n, event |-> m, item |-> history[n].items[m]]
        BY <2>2
    <2>4. m \in MineIn(n, a)
        BY <2>1, <2>3, <1>1, CallsAreItems DEF MineIn, ActsOf
    <2>5. IsVoteRow(r, n, m, a)
        BY <2>1, <2>3, <2>4 DEF IsVoteRow
    <2> QED
        BY <2>5
<1>4. CASE rules # "democracy" /\ HasEvents
    <2>1. r \in CastVotes /\ VotedIn(history[r.at])
        BY <1>1, <1>4 DEF VoteRows
    <2>2. PICK n \in DOMAIN history : \E m \in VoteItems(history[n]) :
                r = [at |-> n, event |-> m, item |-> history[n].items[m]]
        BY <2>1, <1>2
    <2>3. PICK m \in VoteItems(history[n]) : r = [at |-> n, event |-> m, item |-> history[n].items[m]]
        BY <2>2
    <2>4. NamesThis(history[n], DOMAIN history[n].items)
        <3>1. VotedIn(history[n])
            BY <2>1, <2>3
        <3>2. \/ NamesThis(history[n], VoteCalls(history[n]))
              \/ NamesThis(history[n], DecodedVotes(history[n]))
            BY <3>1 DEF VotedIn
        <3> QED
            BY <3>2, CallsAreItems DEF NamesThis
    <2>5. ActsOf(history[n], a, "other") = {}
        BY <2>4, <1>4, ClearFacts
    <2>6. m \in MineIn(n, a)
        <3>1. m \in DOMAIN history[n].items /\ history[n].items[m].who = a
            BY <2>3, <1>1, CallsAreItems
        <3> QED
            BY <3>1, <2>5, ActsHere
    <2>7. IsVoteRow(r, n, m, a)
        BY <2>3, <2>6, <1>4 DEF IsVoteRow
    <2> QED
        BY <2>7
<1>5. CASE rules # "democracy" /\ ~HasEvents
    <2>1. PICK q \in CastVotes : /\ r = [q EXCEPT !.event = 0] /\ q.item.poll = "this"
        BY <1>1, <1>5 DEF VoteRows
    <2>2. PICK n \in DOMAIN history : \E m \in VoteItems(history[n]) :
                q = [at |-> n, event |-> m, item |-> history[n].items[m]]
        BY <2>1, <1>2
    <2>3. PICK m \in VoteItems(history[n]) : q = [at |-> n, event |-> m, item |-> history[n].items[m]]
        BY <2>2
    <2>4. r.at = n /\ r.item = history[n].items[m] /\ r.event = 0
        BY <2>1, <2>3
    <2>5. m \in MineIn(n, a)
        BY <2>1, <2>3, <2>4, <1>1, CallsAreItems DEF MineIn, ActsOf
    <2>6. IsVoteRow(r, n, m, a)
        BY <2>3, <2>4, <2>5, <1>5 DEF IsVoteRow
    <2> QED
        BY <2>6
<1> QED
    BY <1>3, <1>4, <1>5

LEMMA VoteHasRow ==
    ASSUME VotesInv, NEW a, Clear(a), NEW n \in DOMAIN history, NEW m \in MineIn(n, a),
           m \in VoteItems(history[n])
    PROVE  \E r \in PageRows(a) : IsVoteRow(r, n, m, a)
<1> DEFINE r == [at |-> n, event |-> m, item |-> history[n].items[m]]
<1>0. HistoryTyped /\ submitted \in Nat /\ tip \in Nat /\ shut["this"] \in Nat /\ rules \in {"opengov", "democracy"}
    BY HistoryKnown DEF VotesInv
<1>1. r \in CastVotes
    BY DEF CastVotes
<1>2. /\ r.item.who = a /\ r.item.poll = "this" /\ m \in DOMAIN history[n].items
      /\ r.at = n /\ r.event = m /\ r.item = history[n].items[m]
    BY DEF MineIn, ActsOf
<1> HIDE DEF r
<1>3. Within(history[n], Until)
    <2>1. OpenAt("this", history[n].block)
        BY <1>0, <1>2 DEF HistoryTyped
    <2>2. submitted <= history[n].block /\ history[n].block <= tip /\ history[n].block \in Nat
        BY <1>0 DEF HistoryTyped
    <2>3. Until \in Nat /\ history[n].block <= Until
        BY <1>0, <2>1, <2>2 DEF Until, OpenAt
    <2> QED
        BY <1>0, <2>2, <2>3 DEF Within
<1>4. \/ history[n].kind = "own"
      \/ HasEvents /\ (rules = "opengov" => NamesThis(history[n], DecodedVotes(history[n])))
    BY ClearFacts
<1>5. CASE rules = "democracy"
    <2>1. r \in VoteRows /\ HasEvents
        BY <1>1, <1>2, <1>5 DEF VoteRows, HasEvents
    <2> QED
        BY <2>1, <1>2 DEF PageRows, IsVoteRow
<1>6. CASE rules # "democracy" /\ HasEvents
    <2>1. VotedIn(history[n])
        <3>1. CASE history[n].kind = "own"
            <4>1. m \in VoteCalls(history[n])
                BY <3>1 DEF VoteCalls
            <4> QED
                BY <4>1, <1>2, <1>3 DEF VotedIn, NamesThis
        <3>2. CASE history[n].kind # "own"
            <4>1. VoteCalls(history[n]) = {} /\ Cardinality({}) = 0
                BY <3>2, FS_EmptySet DEF VoteCalls
            <4>2. Cardinality(VoteItems(history[n])) > 0
                <5>1. IsFiniteSet(VoteItems(history[n]))
                    <6>1. IsFiniteSet(DOMAIN history[n].items)
                        BY <1>0 DEF HistoryTyped
                    <6> QED
                        BY <6>1, CallsAreItems, FS_Subset
                <5>2. Cardinality(VoteItems(history[n])) \in Nat /\ Cardinality(VoteItems(history[n])) # 0
                    BY <5>1, FS_CardinalityType, FS_EmptySet
                <5> QED
                    BY <5>2
            <4>3. HidesVotes(history[n])
                BY <4>1, <4>2 DEF HidesVotes
            <4> QED
                BY <3>2, <4>3, <1>0, <1>3, <1>4, <1>6 DEF VotedIn
        <3> QED
            BY <3>1, <3>2
    <2>2. r \in VoteRows
        BY <1>1, <1>2, <1>6, <2>1 DEF VoteRows
    <2> QED
        BY <2>2, <1>2, <1>6 DEF PageRows, IsVoteRow
<1>7. CASE rules # "democracy" /\ ~HasEvents
    <2> DEFINE q == [r EXCEPT !.event = 0]
    <2>1. q.at = n /\ q.event = 0 /\ q.item = history[n].items[m]
        BY DEF r
    <2>2. history[n].kind = "own"
        BY <1>4, <1>7
    <2>3. q \in VoteRows
        BY <1>1, <1>2, <1>3, <1>7, <2>2 DEF VoteRows
    <2> HIDE DEF q
    <2> QED
        BY <2>1, <2>3, <1>2, <1>7 DEF PageRows, IsVoteRow
<1> QED
    BY <1>5, <1>6, <1>7

LEMMA WithdrawalsAre ==
    ASSUME VotesInv, NEW a, Clear(a), NEW n \in DOMAIN history
    PROVE  n \in Withdrawals(a) <=> Timely(n) /\ \E m \in MineIn(n, a) : m \in RemovalItems(history[n])
<1> DEFINE x == history[n]
<1>0. /\ HistoryTyped /\ submitted \in Nat /\ tip \in Nat /\ shut["this"] \in Nat
      /\ rules \in {"opengov", "democracy"}
    BY HistoryKnown DEF VotesInv
<1>1. x.block \in Nat /\ submitted <= x.block /\ x.block <= tip /\ IsFiniteSet(DOMAIN x.items)
    BY <1>0 DEF HistoryTyped
<1>2. n \in Withdrawals(a) <=> RemovedIn(x) /\ a \in Withdrawers(x)
    BY DEF Withdrawals
<1>3. Within(x, LastWithdrawal) <=> Timely(n)
    BY <1>0, <1>1 DEF Within, LastWithdrawal, Timely, OpenAt
<1> HIDE DEF x
<1>x. x = history[n]
    BY DEF x
<1>4. CASE rules = "opengov" /\ HasEvents
    <2>1. ASSUME RemovedIn(x), a \in Withdrawers(x)
          PROVE  Timely(n) /\ \E m \in MineIn(n, a) : m \in RemovalItems(x)
        <3>1. PICK m \in RemovalEvents(x) : x.items[m].who = a
            BY <2>1, <1>4 DEF Withdrawers
        <3>2. NamesThis(x, RemovalCalls(x)) \/ NamesThis(x, DecodedRemovals(x))
            BY <2>1 DEF RemovedIn
        <3>3. NamesThis(x, DOMAIN x.items)
            BY <3>2, CallsAreItems DEF NamesThis
        <3>4. ActsOf(x, a, "other") = {}
            BY <3>3, <1>4, <1>x, ClearFacts
        <3>5. m \in DOMAIN x.items /\ m \in RemovalItems(x)
            BY CallsAreItems
        <3>6. m \in MineIn(n, a)
            BY <3>1, <3>4, <3>5, <1>0, <1>x, ActsHere
        <3>7. Timely(n)
            BY <2>1, <1>3 DEF RemovedIn
        <3> QED
            BY <3>5, <3>6, <3>7
    <2>2. ASSUME Timely(n), NEW m \in MineIn(n, a), m \in RemovalItems(x)
          PROVE  RemovedIn(x) /\ a \in Withdrawers(x)
        <3>1. x.items[m].who = a /\ x.items[m].poll = "this" /\ m \in DOMAIN x.items
            BY <1>x DEF MineIn, ActsOf
        <3>2. m \in RemovalEvents(x)
            BY <2>2, <3>1, <1>x DEF RemovalEvents, Timely
        <3>3. a \in Withdrawers(x)
            BY <3>1, <3>2, <1>4 DEF Withdrawers
        <3>4. CASE x.kind = "own"
            <4>1. m \in RemovalCalls(x)
                BY <2>2, <3>4 DEF RemovalCalls
            <4> QED
                BY <4>1, <3>1, <3>3, <2>2, <1>3 DEF RemovedIn, NamesThis
        <3>5. CASE x.kind # "own"
            <4>1. RemovalCalls(x) = {} /\ Cardinality({}) = 0
                BY <3>5, FS_EmptySet DEF RemovalCalls
            <4>2. Cardinality(RemovalEvents(x)) > 0
                <5>1. IsFiniteSet(RemovalEvents(x))
                    <6>1. RemovalEvents(x) \subseteq DOMAIN x.items
                        BY CallsAreItems
                    <6> QED
                        BY <6>1, <1>1, FS_Subset DEF x
                <5>2. Cardinality(RemovalEvents(x)) \in Nat /\ Cardinality(RemovalEvents(x)) # 0
                    BY <3>2, <5>1, FS_CardinalityType, FS_EmptySet
                <5> QED
                    BY <5>2
            <4>3. HidesRemovals(x)
                BY <4>1, <4>2 DEF HidesRemovals
            <4>4. NamesThis(x, DecodedRemovals(x))
                BY <3>5, <2>2, <1>x, ClearFacts
            <4> QED
                BY <4>3, <4>4, <3>3, <2>2, <1>3, <1>4 DEF RemovedIn
        <3> QED
            BY <3>4, <3>5
    <2> QED
        BY <2>1, <2>2, <1>2, <1>x
<1>5. CASE ~(rules = "opengov" /\ HasEvents)
    <2>1. ASSUME RemovedIn(x), a \in Withdrawers(x)
          PROVE  Timely(n) /\ \E m \in MineIn(n, a) : m \in RemovalItems(x)
        <3>1. PICK m \in RemovalCalls(x) : x.items[m].poll = "this" /\ x.items[m].who = a
            BY <2>1, <1>5 DEF Withdrawers
        <3>2. m \in RemovalItems(x) /\ m \in DOMAIN x.items
            BY CallsAreItems
        <3>3. m \in MineIn(n, a)
            BY <3>1, <3>2, <1>x DEF MineIn, ActsOf
        <3>4. Timely(n)
            BY <2>1, <1>3 DEF RemovedIn
        <3> QED
            BY <3>2, <3>3, <3>4
    <2>2. ASSUME Timely(n), NEW m \in MineIn(n, a), m \in RemovalItems(x)
          PROVE  RemovedIn(x) /\ a \in Withdrawers(x)
        <3>1. x.items[m].who = a /\ x.items[m].poll = "this"
            BY <1>x DEF MineIn, ActsOf
        <3>2. x.kind = "own"
            BY <2>2, <1>0, <1>5, <1>x, ClearFacts
        <3>3. m \in RemovalCalls(x)
            BY <2>2, <3>2 DEF RemovalCalls
        <3>4. NamesThis(x, RemovalCalls(x))
            BY <3>1, <3>3 DEF NamesThis
        <3> QED
            BY <3>1, <3>3, <3>4, <2>2, <1>3, <1>5 DEF RemovedIn, Withdrawers
    <2> QED
        BY <2>1, <2>2, <1>2, <1>x
<1> QED
    BY <1>4, <1>5

\* The vote the page takes is the last one.
LEMMA LatestVoteIs ==
    ASSUME VotesInv, NEW a, Clear(a), PageRows(a) # {}
    PROVE  /\ LatestVote(PageRows(a)) \in PageRows(a)
           /\ \A s \in PageRows(a) : s.at <= LatestVote(PageRows(a)).at
<1> DEFINE R == PageRows(a)
           Ats == {n \in DOMAIN history : \E r \in R : r.at = n}
<1>1. /\ HistoryTyped /\ IsFiniteSet(DOMAIN history) /\ DOMAIN history \subseteq Nat
      /\ rules \in {"opengov", "democracy"}
    BY HistoryKnown DEF VotesInv
<1>2. \A r \in R : \E n, m : IsVoteRow(r, n, m, a)
    BY <1>1, VoteRowIs
<1>3. \A r \in R : r.at \in Ats /\ r.at \in Nat
    BY <1>1, <1>2 DEF IsVoteRow
<1>4. IsFiniteSet(Ats) /\ Ats \subseteq Int /\ Ats # {}
    <2>1. Ats \subseteq DOMAIN history
        OBVIOUS
    <2> QED
        BY <2>1, <1>1, <1>3, FS_Subset
<1>5. PICK n \in Ats : \A k \in Ats : k <= n
    <2> HIDE DEF Ats
    <2> QED
        BY <1>4, GreatestExists
<1>6. PICK r \in R : r.at = n
    OBVIOUS
<1>7. ASSUME NEW s \in R, s.at = r.at PROVE s.event = r.event /\ s.event \in Nat
    <2>1. PICK k, m : IsVoteRow(r, k, m, a)
        BY <1>2
    <2>2. PICK l, p : IsVoteRow(s, l, p, a)
        BY <1>2
    <2>3. k = l /\ k \in DOMAIN history /\ m \in MineIn(k, a) /\ p \in MineIn(k, a)
        BY <1>7, <2>1, <2>2 DEF IsVoteRow
    <2>4. m = p
        BY <2>3, ClearFacts
    <2>5. m \in Nat
        BY <1>1, <2>3 DEF HistoryTyped, MineIn, ActsOf
    <2> QED
        BY <2>1, <2>2, <2>4, <2>5 DEF IsVoteRow
<1> HIDE DEF R
<1>8. \A s \in R : s.at < r.at \/ (s.at = r.at /\ s.event <= r.event)
    <2> SUFFICES ASSUME NEW s \in R PROVE s.at < r.at \/ (s.at = r.at /\ s.event <= r.event)
        OBVIOUS
    <2>1. s.at <= r.at /\ s.at \in Nat /\ r.at \in Nat
        BY <1>3, <1>5, <1>6
    <2>2. s.at = r.at => s.event <= r.event
        BY <1>7
    <2> QED
        BY <2>1, <2>2
<1>9. /\ LatestVote(R) \in R
      /\ \A s \in R : \/ s.at < LatestVote(R).at
                      \/ s.at = LatestVote(R).at /\ s.event <= LatestVote(R).event
    BY <1>6, <1>8 DEF LatestVote
<1>10. \A s \in R : s.at <= LatestVote(R).at
    BY <1>3, <1>9
<1> QED
    BY <1>9, <1>10 DEF R

LEMMA ShownIs ==
    ASSUME VotesInv, NEW a \in Voters, Clear(a)
    PROVE  VoteShown(a) = counted[a]
<1> DEFINE R == PageRows(a)
           L == LatestVote(R)
<1>1. /\ HistoryTyped /\ DOMAIN history \subseteq Nat /\ rules \in {"opengov", "democracy"}
    BY HistoryKnown DEF VotesInv
<1>2. VoteShown(a) = IF R = {} \/ TakenBack(L) THEN NoBallot ELSE L.item.ballot
    BY DEF VoteShown, PageRows
<1>3. ASSUME NEW r \in R
      PROVE  \E n \in DOMAIN history : \E m \in MineIn(n, a) :
                IsVoteRow(r, n, m, a) /\ Timely(n) /\ r.item.who = a
    <2>1. PICK n, m : IsVoteRow(r, n, m, a)
        BY <1>1, VoteRowIs
    <2>2. n \in DOMAIN history /\ m \in MineIn(n, a) /\ m \in VoteItems(history[n])
        BY <2>1 DEF IsVoteRow
    <2>3. history[n].items[m].poll = "this" /\ history[n].items[m].who = a
        BY <2>2 DEF MineIn, ActsOf
    <2>4. Timely(n)
        BY <1>1, <2>2, <2>3 DEF HistoryTyped, Timely
    <2>5. r.item.who = a
        BY <2>1, <2>3 DEF IsVoteRow
    <2> QED
        BY <2>1, <2>2, <2>4, <2>5
<1>4. R # {} => L \in R /\ \A s \in R : s.at <= L.at
    BY LatestVoteIs
<1>5. CASE NoneTimely(a) /\ counted[a] = NoBallot
    <2>1. R = {}
        BY <1>3, <1>5 DEF NoneTimely
    <2> QED
        BY <1>2, <1>5, <2>1
<1>6. ASSUME NEW n \in DOMAIN history, NEW m \in MineIn(n, a), IsLast(n, m, a)
      PROVE  VoteShown(a) = history[n].items[m].ballot
    <2>1. \A r \in R : r.at \in DOMAIN history /\ r.at <= n
        <3> SUFFICES ASSUME NEW r \in R PROVE r.at \in DOMAIN history /\ r.at <= n
            OBVIOUS
        <3>1. PICK k \in DOMAIN history : \E l \in MineIn(k, a) : IsVoteRow(r, k, l, a) /\ Timely(k)
            BY <1>3
        <3>2. PICK l \in MineIn(k, a) : IsVoteRow(r, k, l, a) /\ Timely(k)
            BY <3>1
        <3>3. r.at = k
            BY <3>2 DEF IsVoteRow
        <3>4. k < n \/ k = n
            BY <1>6, <3>2 DEF IsLast
        <3> QED
            BY <1>1, <3>3, <3>4
    <2>2. CASE m \in VoteItems(history[n])
        <3>1. PICK r \in R : IsVoteRow(r, n, m, a)
            BY <2>2, VoteHasRow
        <3>2. L \in R /\ r.at <= L.at
            BY <1>4, <3>1
        <3>3. L.at = n
            <4>1. r.at = n
                BY <3>1 DEF IsVoteRow
            <4> QED
                BY <4>1, <3>2, <2>1, <1>1
        <3>4. PICK k \in DOMAIN history : \E l \in MineIn(k, a) : IsVoteRow(L, k, l, a) /\ L.item.who = a
            BY <3>2, <1>3
        <3>5. PICK l \in MineIn(k, a) : IsVoteRow(L, k, l, a) /\ L.item.who = a
            BY <3>4
        <3>6. k = n /\ l = m
            <4>1. k = n
                BY <3>3, <3>5 DEF IsVoteRow
            <4> QED
                BY <4>1, ClearFacts
        <3>7. L.item = history[n].items[m] /\ L.item.who = a
            BY <3>5, <3>6 DEF IsVoteRow
        <3>8. ~TakenBack(L)
            <4> SUFFICES ASSUME NEW w \in Withdrawals(a), w > n PROVE FALSE
                BY <3>3, <3>7 DEF TakenBack
            <4>1. w \in DOMAIN history
                BY DEF Withdrawals
            <4>2. PICK q \in MineIn(w, a) : Timely(w)
                BY <4>1, WithdrawalsAre
            <4>3. w < n \/ w = n
                BY <4>1, <4>2, <1>6 DEF IsLast
            <4> QED
                BY <4>1, <4>3, <1>1
        <3> QED
            BY <1>2, <3>2, <3>7, <3>8
    <2>3. CASE m \notin VoteItems(history[n])
        <3>1. m \in RemovalItems(history[n]) /\ history[n].items[m].ballot = NoBallot
            BY <2>3 DEF RemovalItems, VoteItems, IsVote, MineIn, ActsOf
        <3>2. n \in Withdrawals(a)
            BY <1>6, <3>1, WithdrawalsAre DEF IsLast
        <3>3. ASSUME R # {} PROVE TakenBack(L)
            <4>1. L \in R
                BY <1>4, <3>3
            <4>2. PICK k \in DOMAIN history : \E l \in MineIn(k, a) : IsVoteRow(L, k, l, a) /\ L.item.who = a
                BY <4>1, <1>3
            <4>3. PICK l \in MineIn(k, a) : IsVoteRow(L, k, l, a) /\ L.item.who = a
                BY <4>2
            <4>4. k # n
                <5> SUFFICES ASSUME k = n PROVE FALSE
                    OBVIOUS
                <5>1. l = m
                    BY ClearFacts
                <5> QED
                    BY <5>1, <4>3, <2>3 DEF IsVoteRow
            <4>5. L.at = k /\ L.item.who = a
                BY <4>3 DEF IsVoteRow
            <4>6. n > L.at
                BY <4>1, <4>4, <4>5, <2>1, <1>1
            <4> QED
                BY <3>2, <4>5, <4>6 DEF TakenBack
        <3> QED
            BY <1>2, <3>1, <3>3
    <2> QED
        BY <2>2, <2>3
<1>7. LastCounts(a)
    BY DEF VotesInv
<1> QED
    BY <1>5, <1>6, <1>7 DEF LastCounts

LEMMA ShownSound == ASSUME VotesInv PROVE ShownAsCounted
BY ShownIs DEF ShownAsCounted

LEMMA TallySound == ASSUME VotesInv PROVE TallyAsCounted
<1> SUFFICES ASSUME \A a \in Voters : Clear(a)
             PROVE  DirectTally = [ayes |-> CountedSum("aye"), nays |-> CountedSum("nay"),
                                   support |-> Supporting(counted)]
    BY DEF TallyAsCounted
<1>1. Shown = counted
    <2>1. \A a \in Voters : VoteShown(a) = counted[a]
        BY ShownIs
    <2>2. counted = [a \in Voters |-> counted[a]]
        BY DEF VotesInv
    <2> QED
        BY <2>1, <2>2 DEF Shown
<1>2. IsFiniteSet(Voters)
    BY VotesAssumption DEF VotesAssumption
<1>3. ASSUME NEW leg \in {"aye", "nay"} PROVE Weighed(counted, leg) = CountedSum(leg)
    <2>1. \A a \in Voters : /\ Weight(counted[a], leg) = Counted(counted[a], leg)
                            /\ Weight(counted[a], leg) \in Int
        <3>1. \A a \in Voters : counted[a] \in Ballots \cup {NoBallot}
            BY DEF VotesInv
        <3> QED
            BY <3>1, VotesAssumption, WeightIsCounted
    <2>2. Weighed(counted, leg) = SumOver(Weights(counted, leg), Voters)
        BY <1>2, <2>1, WeighedIsSum
    <2>3. CountedSum(leg) = SumOver(Countings(leg), Voters)
        BY <1>2, <2>1, CountedIsSum
    <2>4. \A a \in Voters : /\ Weights(counted, leg)[a] = Countings(leg)[a]
                            /\ Weights(counted, leg)[a] \in Int
        BY <2>1 DEF Weights, Countings
    <2>5. SumOver(Weights(counted, leg), Voters) = SumOver(Countings(leg), Voters)
        BY <1>2, <2>4, SumSame
    <2> QED
        BY <2>2, <2>3, <2>5
<1>4. Weighed(counted, "aye") = CountedSum("aye") /\ Weighed(counted, "nay") = CountedSum("nay")
    BY <1>3
<1> QED
    BY <1>1, <1>4 DEF DirectTally

LEMMA FeedTrue == ASSUME VotesInv PROVE FeedNamesRight
<1> SUFFICES ASSUME NEW x \in ToSet(history), NEW n \in DOMAIN x.items, IsVote(x.items[n])
             PROVE  FeedNames(x, n) \subseteq {x.items[n].poll}
    BY DEF FeedNamesRight
<1>1. x.kind \in {"own", "wrapped", "permit"} /\ x.items \in Seq(Items)
    <2>1. PICK k \in DOMAIN history : x = history[k]
        BY DEF ToSet
    <2>2. history[k] \in Dispatches
        BY DEF VotesInv
    <2> QED
        BY <2>1, <2>2 DEF Dispatches
<1>2. ASSUME x.kind # "own", Cardinality(DecodedVotes(x)) = 1, NEW d \in DecodedVotes(x)
      PROVE  d = n
    <2>1. CASE x.kind = "permit"
        <3>1. Len(x.items) = 1 /\ d \in DOMAIN x.items
            BY <1>2, <2>1 DEF DecodedVotes
        <3> QED
            BY <3>1, <1>1
    <2>2. CASE x.kind = "wrapped"
        <3>1. n \in DecodedVotes(x)
            BY <2>2 DEF DecodedVotes, VoteItems
        <3>2. IsFiniteSet(DecodedVotes(x))
            <4>1. DOMAIN x.items = 1 .. Len(x.items) /\ Len(x.items) \in Nat
                BY <1>1
            <4>2. IsFiniteSet(DOMAIN x.items)
                BY <4>1, FS_Interval
            <4> QED
                BY <4>2, CallsAreItems, FS_Subset
        <3>3. PICK e : DecodedVotes(x) = {e}
            BY <3>2, <1>2, FS_Singleton
        <3> QED
            BY <3>1, <3>3, <1>2
    <2> QED
        BY <2>1, <2>2, <1>1, <1>2
<1> QED
    BY <1>2 DEF FeedNames

LEMMA VotesTyped == ASSUME VotesInv PROVE VotesTypeOK
<1>1. submitted \in Nat /\ tip \in Nat
    BY HistoryKnown
<1>2. \A p \in Polls : shut[p] = 0 \/ shut[p] \in submitted .. tip
    BY <1>1 DEF VotesInv
<1>3. "this" \in Polls /\ "other" \in Polls
    BY DEF Polls
<1>4. \A a \in Voters : {books["this"][a], books["other"][a], counted[a]} \subseteq Ballots \cup {NoBallot}
    BY <1>3 DEF VotesInv, Book
<1> QED
    BY <1>2, <1>4 DEF VotesTypeOK, VotesInv

LEMMA VotesInvInit == ASSUME VotesInit PROVE VotesInv
<1>1. history = <<>> /\ DOMAIN history = {} /\ IsFiniteSet({}) /\ history \in Seq(Dispatches)
    BY FS_EmptySet DEF VotesInit
<1>2. Kept = 0
    <2>1. \A n \in DOMAIN history : Len(history[n].items) \in Int
        BY <1>1
    <2>2. Kept = SumOver(Lengths(history), DOMAIN history)
        BY <1>1, <2>1, KeptIsSum DEF Kept
    <2> QED
        BY <1>1, <2>2, SumEmpty
<1>3. FirstVoted \in Nat /\ MoreBlocks \in Nat /\ MaxItems \in Nat
    BY VotesAssumption DEF VotesAssumption
<1>4. submitted \in {1, FirstVoted} /\ tip \in submitted .. submitted + MoreBlocks
    BY <1>3 DEF VotesInit
<1>5. books \in Book /\ counted \in [Voters -> Ballots \cup {NoBallot}] /\ counted = books["this"]
    BY DEF VotesInit, Book, Polls
<1>6. shut \in [Polls -> Nat] /\ \A p \in Polls : shut[p] = 0
    BY DEF VotesInit
<1>7. \A a \in Voters : LastCounts(a)
    BY <1>1 DEF VotesInit, LastCounts, NoneTimely
<1>8. rules \in {"opengov", "democracy"}
    BY DEF VotesInit
<1> QED
    BY <1>1, <1>2, <1>3, <1>4, <1>5, <1>6, <1>7, <1>8 DEF VotesInv

\* A further extrinsic leaves the ones before it where they are.
Grown(last, x) ==
    /\ DOMAIN history' = DOMAIN history \cup {last}
    /\ \A n \in DOMAIN history : n \in Nat /\ n < last /\ history'[n] = history[n]
    /\ history'[last] = [block |-> tip, kind |-> x.kind, items |-> x.items]

LEMMA HistoryGrows ==
    ASSUME VotesInv, NEW x \in Dispatched, Dispatch(x)
    PROVE  /\ x.items \in Seq(Items) /\ history' \in Seq(Dispatches)
           /\ \E last \in Nat : Grown(last, x)
<1>1. x.kind \in {"own", "wrapped", "permit"} /\ x.items \in Seq(Items)
    BY VotesAssumption DEF VotesAssumption
<1>2. tip \in Nat
    BY HistoryKnown
<1> DEFINE e == [block |-> tip, kind |-> x.kind, items |-> x.items]
<1>3. e \in Dispatches
    BY <1>1, <1>2 DEF Dispatches
<1>4. history' = Append(history, e)
    BY DEF Dispatch
<1>5. history \in Seq(Dispatches)
    BY DEF VotesInv
<1> HIDE DEF e
<1>6. Len(history) \in Nat /\ DOMAIN history = 1 .. Len(history)
    BY <1>5
<1>7. history' \in Seq(Dispatches) /\ Len(history') = Len(history) + 1
    BY <1>3, <1>4, <1>5
<1>8. DOMAIN history' = 1 .. Len(history) + 1
    BY <1>7
<1>9. \A n \in 1 .. Len(history) : history'[n] = history[n]
    BY <1>3, <1>4, <1>5
<1>10. history'[Len(history) + 1] = e
    BY <1>3, <1>4, <1>5
<1>11. DOMAIN history' = DOMAIN history \cup {Len(history) + 1}
    BY <1>6, <1>8
<1>12. Grown(Len(history) + 1, x) /\ Len(history) + 1 \in Nat
    BY <1>6, <1>9, <1>10, <1>11 DEF e, Grown
<1> QED
    BY <1>1, <1>7, <1>12

LEMMA KeptGrows ==
    ASSUME VotesInv, NEW x \in Dispatched, Dispatch(x)
    PROVE  Kept' <= MaxItems
<1> DEFINE H == history'
           f == Lengths(H)
<1>0. x.items \in Seq(Items) /\ H \in Seq(Dispatches)
    BY HistoryGrows
<1>1. PICK last \in Nat : Grown(last, x)
    BY HistoryGrows
<1>2. IsFiniteSet(DOMAIN history)
    BY HistoryKnown
<1>3. /\ DOMAIN H = DOMAIN history \cup {last} /\ last \notin DOMAIN history
      /\ \A n \in DOMAIN history : H[n] = history[n]
      /\ H[last].items = x.items
    BY <1>1 DEF Grown
<1>4. IsFiniteSet(DOMAIN H) /\ last \in DOMAIN H /\ DOMAIN H \ {last} = DOMAIN history
    BY <1>2, <1>3, FS_AddElement
<1>5. \A n \in DOMAIN H : Len(H[n].items) \in Int
    <2> HIDE DEF H
    <2>1. \A n \in DOMAIN H : H[n] \in Dispatches
        BY <1>0
    <2>2. \A n \in DOMAIN H : H[n].items \in Seq(Items)
        BY <2>1 DEF Dispatches
    <2> QED
        BY <2>2
<1>6. Kept = KeptIn(history) /\ Kept' = KeptIn(H)
    BY DEF Kept
<1> HIDE DEF H
<1>7. KeptIn(history) = SumOver(Lengths(history), DOMAIN history)
    <2>1. \A n \in DOMAIN history : Len(history[n].items) \in Int
        BY <1>3, <1>5
    <2> QED
        BY <1>2, <2>1, KeptIsSum
<1>8. KeptIn(H) = SumOver(f, DOMAIN H)
    BY <1>4, <1>5, KeptIsSum
<1>9. \A n \in DOMAIN H : f[n] \in Int
    BY <1>5 DEF Lengths
<1>10. SumOver(f, DOMAIN H) = f[last] + SumOver(f, DOMAIN H \ {last})
    <2> HIDE DEF f
    <2> QED
        BY <1>4, <1>9, SumTakeOut
<1>11. SumOver(f, DOMAIN history) = SumOver(Lengths(history), DOMAIN history)
    <2>1. \A n \in DOMAIN history : f[n] = Lengths(history)[n] /\ f[n] \in Int
        BY <1>3, <1>9 DEF Lengths
    <2> HIDE DEF f
    <2> QED
        BY <1>2, <2>1, SumSame
<1>12. f[last] = Len(x.items)
    BY <1>3, <1>4 DEF Lengths
<1>13. Kept + Len(x.items) <= MaxItems
    BY DEF Dispatch
<1>14. KeptIn(history) \in Int /\ Len(x.items) \in Int
    <2>1. \A n \in DOMAIN history : Lengths(history)[n] \in Int
        BY <1>3, <1>5 DEF Lengths
    <2>2. SumOver(Lengths(history), DOMAIN history) \in Int
        BY <1>2, <2>1, SumInt
    <2> QED
        BY <1>0, <1>7, <2>2
<1> HIDE DEF f
<1> QED
    BY <1>4, <1>6, <1>7, <1>8, <1>10, <1>11, <1>12, <1>13, <1>14

\* The last act of an account is the one that counts after an extrinsic too.
LEMMA DispatchCounts ==
    ASSUME VotesInv, NEW x \in Dispatched, Dispatch(x), NEW a \in Voters
    PROVE  LastCounts(a)'
<1> DEFINE D == DOMAIN history
           A == ActsOf(x, a, "this")
<1>0. PICK last \in Nat : Grown(last, x)
    BY HistoryGrows
<1>1. /\ last \in Nat /\ x.items \in Seq(Items)
      /\ DOMAIN history' = D \cup {last}
      /\ \A n \in D : n \in Nat /\ n < last /\ history'[n] = history[n]
      /\ history'[last] = [block |-> tip, kind |-> x.kind, items |-> x.items]
    BY <1>0, HistoryGrows DEF Grown
<1>2. shut' = shut /\ tip \in Nat /\ shut["this"] \in Nat
      /\ (shut["this"] = 0 \/ shut["this"] <= tip)
    BY HistoryKnown DEF Dispatch
<1>3. \A n \in D : MineIn(n, a)' = MineIn(n, a) /\ (Timely(n)' <=> Timely(n))
    BY <1>1, <1>2 DEF MineIn, ActsOf, Timely, OpenAt
<1>4. MineIn(last, a)' = A /\ (Timely(last)' <=> shut["this"] = 0)
    BY <1>1, <1>2 DEF MineIn, ActsOf, Timely, OpenAt
<1>5. \A n \in D : history'[n] = history[n]
    BY <1>1
<1>6. LastCounts(a)
    BY DEF VotesInv
<1>7. CASE shut["this"] # 0 \/ A = {}
    <2>1. counted'[a] = counted[a]
        <3>1. CASE shut["this"] # 0
            BY <3>1 DEF Dispatch
        <3>2. CASE shut["this"] = 0
            <4>1. counted' = BookedAll(x.items)["this"] /\ counted = books["this"] /\ books \in Book
                BY <3>2 DEF Dispatch, VotesInv
            <4>2. BookedAll(x.items) = BookOf(books, x.items, DOMAIN x.items)
                BY <1>1, <4>1, FoldIsBook
            <4>3. "this" \in Polls
                BY DEF Polls
            <4>4. counted'[a] = LastIn(x.items, DOMAIN x.items, "this", a, books["this"][a])
                BY <4>1, <4>2, <4>3 DEF BookOf
            <4>5. ActsIn(x.items, DOMAIN x.items, "this", a) = {}
                BY <1>7, <3>2 DEF ActsIn, ActsOf
            <4> QED
                BY <4>1, <4>4, <4>5 DEF LastIn
        <3> QED
            BY <3>1, <3>2
    <2>2. \A l \in MineIn(last, a)' : ~Timely(last)'
        BY <1>4, <1>7
    <2>3. CASE NoneTimely(a) /\ counted[a] = NoBallot
        <3>1. NoneTimely(a)'
            BY <1>1, <1>3, <2>2, <2>3 DEF NoneTimely
        <3> QED
            BY <2>1, <2>3, <3>1 DEF LastCounts
    <2>4. ASSUME NEW n \in D, NEW m \in MineIn(n, a), IsLast(n, m, a),
                 counted[a] = history[n].items[m].ballot
          PROVE  LastCounts(a)'
        <3>1. IsLast(n, m, a)'
            BY <1>1, <1>3, <2>2, <2>4 DEF IsLast
        <3>2. counted'[a] = history'[n].items[m].ballot /\ n \in DOMAIN history' /\ m \in MineIn(n, a)'
            BY <1>1, <1>3, <2>1, <2>4
        <3> QED
            BY <3>1, <3>2 DEF LastCounts
    <2> QED
        BY <1>6, <2>3, <2>4 DEF LastCounts
<1>8. CASE shut["this"] = 0 /\ A # {}
    <2>1. counted' = BookedAll(x.items)["this"] /\ books \in Book
        BY <1>8 DEF Dispatch, VotesInv
    <2>2. BookedAll(x.items) = BookOf(books, x.items, DOMAIN x.items)
        BY <1>1, <2>1, FoldIsBook
    <2>3. "this" \in Polls
        BY DEF Polls
    <2>4. A = ActsIn(x.items, DOMAIN x.items, "this", a)
        BY DEF ActsIn, ActsOf
    <2>5. counted'[a] = x.items[Max(A)].ballot
        BY <2>1, <2>2, <2>3, <2>4, <1>8 DEF BookOf, LastIn
    <2>6. Max(A) \in A /\ \A y \in A : y <= Max(A)
        <3>1. A \in SUBSET DOMAIN x.items
            BY DEF ActsOf
        <3> HIDE DEF A
        <3>2. IsFiniteSet(A) /\ A \subseteq Int
            BY <3>1, <1>1, PlacesFinite
        <3> QED
            BY <3>2, <1>8, MaxIsGreatest
    <2> DEFINE z == Max(A)
    <2> HIDE DEF z, A
    <2>7. IsLast(last, z, a)'
        <3>1. \A k \in D : k < last
            BY <1>1
        <3>2. last \in DOMAIN history' /\ z \in MineIn(last, a)' /\ Timely(last)'
            BY <1>1, <1>4, <1>8, <2>6 DEF z
        <3>3. \A l \in MineIn(last, a)' : l <= z
            BY <1>4, <2>6 DEF z
        <3> QED
            BY <1>1, <3>1, <3>2, <3>3 DEF IsLast
    <2>8. counted'[a] = history'[last].items[z].ballot /\ last \in DOMAIN history' /\ z \in MineIn(last, a)'
        BY <1>1, <1>4, <2>5, <2>6 DEF z
    <2> QED
        BY <2>7, <2>8 DEF LastCounts
<1> QED
    BY <1>7, <1>8

LEMMA DispatchKeeps ==
    ASSUME VotesInv, NEW x \in Dispatched, Dispatch(x)
    PROVE  VotesInv'
<1>0. PICK last \in Nat : Grown(last, x)
    BY HistoryGrows
<1>1. /\ last \in Nat /\ history' \in Seq(Dispatches) /\ x.items \in Seq(Items)
      /\ DOMAIN history' = DOMAIN history \cup {last}
      /\ \A n \in DOMAIN history : n \in Nat /\ n < last /\ history'[n] = history[n]
      /\ history'[last] = [block |-> tip, kind |-> x.kind, items |-> x.items]
    BY <1>0, HistoryGrows DEF Grown
<1>2. UNCHANGED <<rules, submitted, tip, shut>>
    BY DEF Dispatch
<1>3. submitted \in Nat /\ tip \in Nat /\ submitted <= tip
    BY HistoryKnown DEF VotesInv
<1>4. books' \in Book
    <2>1. books' = BookOf(books, x.items, DOMAIN x.items) /\ books \in Book
        BY <1>1, FoldIsBook DEF Dispatch, VotesInv
    <2> QED
        BY <2>1, <1>1, BookOfType
<1>5. counted' \in [Voters -> Ballots \cup {NoBallot}] /\ (shut["this"] = 0 => counted' = books'["this"])
    <2>1. CASE shut["this"] = 0
        <3>1. counted' = books'["this"]
            BY <2>1 DEF Dispatch
        <3> QED
            BY <3>1, <1>4 DEF Book, Polls
    <2>2. CASE shut["this"] # 0
        BY <2>2 DEF Dispatch, VotesInv
    <2> QED
        BY <2>1, <2>2
<1>6. ASSUME NEW m \in DOMAIN x.items, IsVote(x.items[m]) PROVE shut[x.items[m].poll] = 0
    <2>1. m \in 1 .. Len(x.items)
        BY <1>1
    <2> QED
        BY <2>1, <1>6 DEF Dispatch, AllAccepted, Accepted
<1>7. ASSUME NEW n \in DOMAIN history' PROVE Placed(n)'
    <2>1. CASE n = last
        <3>1. history'[n].block = tip /\ history'[n].items = x.items
            BY <2>1, <1>1
        <3>2. \A m \in VoteItems(history[n])' : m \in DOMAIN x.items /\ IsVote(x.items[m])
            BY <3>1 DEF VoteItems
        <3>3. \A m \in VoteItems(history[n])' : shut[x.items[m].poll] = 0
            BY <3>2, <1>6
        <3> QED
            BY <3>1, <3>3, <1>2, <1>3 DEF Placed, OpenAt
    <2>2. CASE n # last
        <3>1. n \in DOMAIN history /\ history'[n] = history[n]
            BY <2>2, <1>1
        <3>2. Placed(n)
            BY <3>1 DEF VotesInv
        <3>3. VoteItems(history[n])' = VoteItems(history[n])
            BY <3>1 DEF VoteItems
        <3> QED
            BY <3>1, <3>2, <3>3, <1>2 DEF Placed, OpenAt
    <2> QED
        BY <2>1, <2>2
<1>8. \A n \in DOMAIN history' : Placed(n)'
    BY <1>7
<1>9. Kept' <= MaxItems
    BY KeptGrows
<1>10. \A a \in Voters : LastCounts(a)'
    BY DispatchCounts
<1>11. /\ rules' \in {"opengov", "democracy"} /\ submitted' \in {1, FirstVoted}
       /\ tip' \in submitted' .. submitted' + MoreBlocks
       /\ shut' \in [Polls -> Nat]
       /\ \A p \in Polls : shut'[p] = 0 \/ (submitted' < shut'[p] /\ shut'[p] <= tip')
    BY <1>2 DEF VotesInv
<1>12. shut'["this"] = 0 => counted' = books'["this"]
    BY <1>2, <1>5
<1> QED
    BY <1>1, <1>4, <1>5, <1>8, <1>9, <1>10, <1>11, <1>12 DEF VotesInv

LEMMA BlockKeeps ==
    ASSUME VotesInv, NEW ends \in SUBSET Polls, NewVoteBlock(ends)
    PROVE  VotesInv'
<1>1. /\ submitted \in Nat /\ tip \in Nat /\ shut["this"] \in Nat /\ HistoryTyped
      /\ MoreBlocks \in Nat
    BY HistoryKnown, VotesAssumption DEF VotesAssumption
<1>2. /\ UNCHANGED <<rules, submitted, books, counted, history>> /\ tip' = tip + 1
      /\ tip < submitted + MoreBlocks
      /\ \A p \in ends : shut[p] = 0
      /\ shut' = [p \in Polls |-> IF p \in ends THEN tip + 1 ELSE shut[p]]
    BY DEF NewVoteBlock
<1>3. /\ shut' \in [Polls -> Nat]
      /\ \A p \in Polls : shut'[p] = 0 \/ (submitted < shut'[p] /\ shut'[p] <= tip')
    <2>1. \A p \in Polls : shut[p] \in Nat /\ (shut[p] = 0 \/ (submitted < shut[p] /\ shut[p] <= tip))
        BY DEF VotesInv
    <2>2. submitted <= tip
        BY <1>1 DEF VotesInv
    <2> QED
        BY <1>1, <1>2, <2>1, <2>2
<1>4. ASSUME NEW n \in DOMAIN history, NEW p \in Polls
      PROVE  OpenAt(p, history[n].block)' <=> OpenAt(p, history[n].block)
    <2>1. history[n].block \in Nat /\ history[n].block <= tip
        BY <1>1 DEF HistoryTyped
    <2>2. shut[p] \in Nat
        BY DEF VotesInv
    <2>3. shut'[p] = IF p \in ends THEN tip + 1 ELSE shut[p]
        BY <1>2
    <2>4. p \in ends => shut[p] = 0
        BY <1>2
    <2>5. history'[n].block = history[n].block
        BY <1>2
    <2> QED
        BY <1>1, <2>1, <2>2, <2>3, <2>4, <2>5 DEF OpenAt
<1>5. ASSUME NEW n \in DOMAIN history PROVE Placed(n)'
    <2>1. Placed(n) /\ history[n].block \in Nat
        BY <1>1 DEF HistoryTyped, VotesInv
    <2>2. \A m \in VoteItems(history[n]) : history[n].items[m].poll \in Polls
        BY <1>1, CallsAreItems DEF HistoryTyped
    <2>3. VoteItems(history[n])' = VoteItems(history[n]) /\ history'[n] = history[n]
        BY <1>2 DEF VoteItems
    <2>4. \A m \in VoteItems(history[n]) : OpenAt(history[n].items[m].poll, history[n].block)'
        <3>1. \A m \in VoteItems(history[n]) : OpenAt(history[n].items[m].poll, history[n].block)
            BY <2>1 DEF Placed
        <3>2. \A p \in Polls : OpenAt(p, history[n].block)' <=> OpenAt(p, history[n].block)
            BY <1>4
        <3> QED
            BY <2>2, <2>3, <3>1, <3>2 DEF OpenAt
    <2>5. submitted' <= history'[n].block /\ history'[n].block <= tip'
        BY <1>1, <1>2, <2>1 DEF Placed
    <2> QED
        BY <2>3, <2>4, <2>5 DEF Placed
<1>6. "this" \in Polls
    BY DEF Polls
<1>7. \A n \in DOMAIN history : (Timely(n)' <=> Timely(n)) /\ \A a : MineIn(n, a)' = MineIn(n, a)
    BY <1>2, <1>4, <1>6 DEF Timely, MineIn, ActsOf
<1>8. ASSUME NEW a \in Voters PROVE LastCounts(a)'
    <2>1. LastCounts(a)
        BY DEF VotesInv
    <2>2. NoneTimely(a)' <=> NoneTimely(a)
        BY <1>2, <1>7 DEF NoneTimely
    <2>3. \A n \in DOMAIN history : \A m \in MineIn(n, a) : IsLast(n, m, a) => IsLast(n, m, a)'
        BY <1>2, <1>7 DEF IsLast
    <2> QED
        BY <1>2, <1>7, <2>1, <2>2, <2>3 DEF LastCounts
<1>9. Kept' = Kept
    <2>1. Kept = KeptIn(history) /\ Kept' = KeptIn(history')
        BY DEF Kept
    <2> QED
        BY <1>2, <2>1
<1>10. /\ rules' \in {"opengov", "democracy"} /\ submitted' \in {1, FirstVoted}
       /\ tip' \in submitted' .. submitted' + MoreBlocks
       /\ books' \in Book /\ counted' \in [Voters -> Ballots \cup {NoBallot}]
       /\ history' \in Seq(Dispatches)
    BY <1>1, <1>2 DEF VotesInv
<1>11. shut'["this"] = 0 => counted' = books'["this"]
    <2>1. shut'["this"] = 0 => shut["this"] = 0
        BY <1>1, <1>2, <1>6
    <2> QED
        BY <1>2, <2>1 DEF VotesInv
<1>12. Kept' <= MaxItems
    BY <1>9 DEF VotesInv
<1> QED
    BY <1>2, <1>3, <1>5, <1>8, <1>10, <1>11, <1>12 DEF VotesInv

LEMMA VotesInvNext == ASSUME VotesInv, [VotesNext]_votesVars PROVE VotesInv'
<1>1. ASSUME NEW x \in Dispatched, Dispatch(x) PROVE VotesInv'
    BY <1>1, DispatchKeeps
<1>2. ASSUME NEW ends \in SUBSET Polls, NewVoteBlock(ends) PROVE VotesInv'
    BY <1>2, BlockKeeps
<1>3. ASSUME UNCHANGED votesVars PROVE VotesInv'
    <2>1. UNCHANGED <<rules, submitted, tip, shut, books, counted, history>>
        BY <1>3 DEF votesVars
    <2>2. Kept' = Kept
        <3>1. Kept = KeptIn(history) /\ Kept' = KeptIn(history')
            BY DEF Kept
        <3> QED
            BY <2>1, <3>1
    <2>3. \A n : Placed(n)' <=> Placed(n)
        BY <2>1 DEF Placed, OpenAt, VoteItems
    <2>4. \A a : LastCounts(a)' <=> LastCounts(a)
        BY <2>1 DEF LastCounts, NoneTimely, IsLast, Timely, MineIn, ActsOf, OpenAt
    <2> QED
        BY <2>1, <2>2, <2>3, <2>4 DEF VotesInv
<1> QED
    BY <1>1, <1>2, <1>3 DEF VotesNext

\* The votes and the tally of a referendum page are those of the pallet, however the votes
\* were dispatched, changed, withdrawn or unlocked; the feed names no other referendum.
THEOREM VotesSafety == VotesSpec => []VotesSound
<1>1. VotesInit => VotesInv
    BY VotesInvInit
<1>2. VotesInv /\ [VotesNext]_votesVars => VotesInv'
    BY VotesInvNext
<1>3. VotesInv => VotesSound
    BY VotesTyped, ShownSound, TallySound, FeedTrue DEF VotesSound
<1> QED
    BY <1>1, <1>2, <1>3, PTL DEF VotesSpec
=============================================================================
