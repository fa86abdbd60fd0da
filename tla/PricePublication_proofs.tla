----------------------- MODULE PricePublication_proofs -----------------------
(***************************************************************************)
(* Proofs about PricePublication for every run, batch and chunk size and   *)
(* number of deaths, and about the tools of PriceTools that work on its    *)
(* tables.                                                                 *)
(***************************************************************************)
EXTENDS PriceTools, WellFoundedInduction, TLAPS

\* A nonempty set of heights has a highest one.
LEMMA HighestExists ==
    ASSUME NEW S, S \subseteq Height, S # {}
    PROVE  Highest(S) \in S /\ \A c \in S : c <= Highest(S)
<1> USE PublicationAssumption DEF Height
<1> DEFINE Below == {Last - b : b \in S}
<1>1. Below \subseteq Nat /\ Below # {}
    <2>1. \A b \in S : Last - b \in Nat
        OBVIOUS
    <2>2. QED
        BY <2>1
<1>2. \E x \in Below : \A y \in Below : <<y, x>> \notin OpToRel(<, Nat)
    <2> HIDE DEF Below
    <2> QED
        BY <1>1, WFMin, NatLessThanWellFounded, Zenon
<1>3. PICK x \in Below : \A y \in Below : ~(y < x)
    <2> HIDE DEF Below
    <2>1. \A x, y \in Below : y < x => <<y, x>> \in OpToRel(<, Nat)
        BY <1>1 DEF OpToRel
    <2> QED
        BY <1>2, <2>1, Zenon
<1>4. PICK b \in S : x = Last - b
    BY <1>3
<1>5. \A c \in S : c <= b
    <2> TAKE c \in S
    <2>1. ~(Last - c < x)
        BY <1>3
    <2> QED
        BY <1>4, <2>1
<1>6. QED
    BY <1>4, <1>5 DEF Highest

\* What a block writes are rows of the model, and what it owes is among them.
LEMMA RowsOfFacts ==
    ASSUME NEW b \in Height, NEW isFirst \in BOOLEAN
    PROVE  /\ RowsOf(b, isFirst) \subseteq Rows
           /\ Owed(b) \subseteq RowsOf(b, isFirst)
           /\ BlockRow(b) \in Rows
<1>1. /\ BlockRow(b) \in Rows /\ UpgradeRow(b) \in Rows
      /\ PriceRows(b) \subseteq Rows /\ VolumeRows(b) \subseteq Rows
      /\ AssetRows \subseteq Rows /\ ErrorNames \in Rows
    BY DEF Rows
<1>2. QED
    BY <1>1 DEF RowsOf, Owed

\* A block's prices and volumes come with its own row.
LEMMA RowsOfHaveBlocks ==
    ASSUME NEW b \in Height, NEW isFirst \in BOOLEAN, NEW r \in RowsOf(b, isFirst),
           r.table \in {"prices", "volumes"}
    PROVE  BlockRow(r.block) \in RowsOf(b, isFirst)
<1>1. r.block = b
    BY DEF RowsOf, BlockRow, PriceRows, VolumeRows, UpgradeRow, AssetRows, ErrorNames
<1>2. QED
    BY <1>1 DEF RowsOf

\* The block rows a batch hands over are of the blocks it names.
LEMMA BatchBlocks ==
    ASSUME TypeOK, NEW m \in (pos + 1) .. Min2(pos + BATCH, Last)
    PROVE  /\ m \in First - 1 .. Last
           /\ m > pos
           /\ (pos + 1) .. m \subseteq Height
           /\ UNION {RowsOf(b, first /\ b = pos + 1) : b \in (pos + 1) .. m} \subseteq Rows
<1> USE PublicationAssumption DEF Height
<1>1. pos \in First - 1 .. Last /\ first \in BOOLEAN
    BY DEF TypeOK
<1>2. m <= Last /\ m > pos /\ m \in Int
    BY <1>1 DEF Min2
<1>3. (pos + 1) .. m \subseteq Height
    BY <1>1, <1>2
<1>4. \A b \in (pos + 1) .. m : RowsOf(b, first /\ b = pos + 1) \subseteq Rows
    BY <1>1, <1>3, RowsOfFacts
<1>5. QED
    BY <1>1, <1>2, <1>3, <1>4

LEMMA StartPosType == TypeOK => StartPos \in First - 1 .. Last
<1> SUFFICES ASSUME TypeOK PROVE StartPos \in First - 1 .. Last
    OBVIOUS
<1> USE PublicationAssumption
<1>1. ckpt \in {0} \cup (First - 1 .. Last)
    BY DEF TypeOK
<1>2. CASE Deferred
    BY <1>1, <1>2 DEF StartPos, Max2
<1>3. CASE ~Deferred /\ ckpt > 0
    BY <1>1, <1>3 DEF StartPos
<1>4. CASE ~Deferred /\ ~(ckpt > 0) /\ Heights # {}
    <2>1. Heights \subseteq Height
        BY DEF Heights
    <2>2. Highest(Heights) \in Height
        BY <2>1, <1>4, HighestExists
    <2>3. QED
        BY <1>4, <2>2 DEF StartPos, Height
<1>5. CASE ~Deferred /\ ~(ckpt > 0) /\ Heights = {}
    BY <1>5 DEF StartPos
<1>6. QED
    BY <1>2, <1>3, <1>4, <1>5

LEMMA InsertIntoType ==
    ASSUME NEW w \in [Rows -> 0 .. 2], NEW S
    PROVE  InsertInto(w, S) \in [Rows -> 0 .. 2]
<1>1. \A r \in Rows : w[r] \in 0 .. 2
    OBVIOUS
<1>2. \A r \in Rows : Min2(w[r] + 1, IF Probed(r) THEN 2 ELSE 1) \in 0 .. 2
    BY <1>1 DEF Min2
<1>3. QED
    BY <1>1, <1>2 DEF InsertInto

LEMMA TypeInit == Init => TypeOK
<1> SUFFICES ASSUME Init PROVE TypeOK
    OBVIOUS
<1>1. QED
    BY PublicationAssumption DEF Init, TypeOK

LEMMA TypeStep == TypeOK /\ [Next]_vars => TypeOK'
<1> SUFFICES ASSUME TypeOK, [Next]_vars PROVE TypeOK'
    OBVIOUS
<1> USE PublicationAssumption
<1>1. CASE Start
    BY <1>1, StartPosType DEF Start, TypeOK
<1>2. CASE Batch
    <2>1. PICK m \in (pos + 1) .. Min2(pos + BATCH, Last) :
              /\ pos' = m
              /\ buf' = buf \cup UNION {RowsOf(b, first /\ b = pos + 1) : b \in (pos + 1) .. m}
              /\ pc' = IF PublishNow(m) THEN "probe" ELSE "batch"
        BY <1>2 DEF Batch
    <2>2. pos' \in First - 1 .. Last /\ buf' \in SUBSET Rows /\ buf \subseteq buf'
        BY <2>1, BatchBlocks DEF TypeOK
    <2>3. QED
        BY <1>2, <2>1, <2>2 DEF Batch, TypeOK
<1>3. CASE Probe
    BY <1>3 DEF Probe, Unseen, TypeOK
<1>4. CASE Insert
    BY <1>4, InsertIntoType DEF Insert, RestOf, TypeOK
<1>5. CASE Checkpoint
    BY <1>5 DEF Checkpoint, TypeOK
<1>6. CASE Crash
    BY <1>6 DEF Crash, TypeOK
<1>7. CASE LateInsert
    BY <1>7, InsertIntoType DEF LateInsert, process, TypeOK
<1>8. CASE UNCHANGED vars
    BY <1>8 DEF vars, TypeOK
<1>9. QED
    BY <1>1, <1>2, <1>3, <1>4, <1>5, <1>6, <1>7, <1>8 DEF Next, Step

\* Every variable keeps its type, and the process never leaves the blocks of its run:
\* what setBlockRange and start_live_main compute is always inside it.
THEOREM TypeCorrect == Spec => []TypeOK
<1>1. QED
    BY TypeInit, TypeStep, PTL DEF Spec

----------------------------------------------------------------------------
(* A replay counts nothing twice, as long as no insert outlives its client. *)

\* What the probe did not find is still not there when the insert goes out.
OnceInv ==
    /\ ExactlyOnce
    /\ late = {} /\ lates = 0
    /\ pc = "insert" => \A r \in fresh : Probed(r) => written[r] = 0

LEMMA OnceInit == Init => OnceInv
BY DEF Init, OnceInv, ExactlyOnce

LEMMA OnceStep == MaxLate = 0 /\ TypeOK /\ OnceInv /\ [Next]_vars => OnceInv'
<1> SUFFICES ASSUME MaxLate = 0, TypeOK, OnceInv, [Next]_vars PROVE OnceInv'
    OBVIOUS
<1>1. CASE Start
    BY <1>1 DEF Start, OnceInv, ExactlyOnce
<1>2. CASE Batch
    BY <1>2 DEF Batch, OnceInv, ExactlyOnce
<1>3. CASE Probe
    <2>1. PICK S \in SUBSET buf : fresh' = Unseen(S)
        BY <1>3 DEF Probe
    <2>2. \A r \in fresh' : r \in Rows /\ (Probed(r) => r \notin Stored)
        BY <2>1 DEF Unseen, TypeOK
    <2>3. \A r \in fresh' : Probed(r) => written[r] = 0
        BY <2>2 DEF Stored, TypeOK
    <2>4. QED
        BY <1>3, <2>3 DEF Probe, OnceInv, ExactlyOnce
<1>4. CASE Insert
    <2>1. ASSUME NEW r \in Rows
          PROVE  written'[r] <= 1
        <3>1. written[r] \in 0 .. 2 /\ written[r] <= 1
            BY DEF OnceInv, ExactlyOnce, TypeOK
        <3>2. written'[r] = IF r \in fresh
                            THEN Min2(written[r] + 1, IF Probed(r) THEN 2 ELSE 1)
                            ELSE written[r]
            BY <1>4 DEF Insert, InsertInto
        <3>3. r \in fresh /\ Probed(r) => written[r] = 0
            BY <1>4 DEF Insert, OnceInv
        <3>4. QED
            BY <3>1, <3>2, <3>3 DEF Min2
    <2>2. pc' # "insert" /\ UNCHANGED <<late, lates>>
        BY <1>4 DEF Insert
    <2>3. QED
        BY <2>1, <2>2 DEF OnceInv, ExactlyOnce
<1>5. CASE Checkpoint
    BY <1>5 DEF Checkpoint, OnceInv, ExactlyOnce
<1>6. CASE Crash
    BY <1>6 DEF Crash, OnceInv, ExactlyOnce
<1>7. CASE LateInsert
    BY <1>7 DEF LateInsert, OnceInv
<1>8. CASE UNCHANGED vars
    BY <1>8 DEF vars, OnceInv, ExactlyOnce
<1>9. QED
    BY <1>1, <1>2, <1>3, <1>4, <1>5, <1>6, <1>7, <1>8 DEF Next, Step

\* However often the process dies between a probe and its insert, or half way through
\* a batch, no row is written twice (ClickHouseStore, insert*Rows).
THEOREM ReplayCountsOnce ==
    ASSUME MaxLate = 0
    PROVE  Spec => []ExactlyOnce
<1>1. TypeOK /\ OnceInv /\ [Next]_vars => OnceInv'
    BY OnceStep
<1>2. OnceInv => ExactlyOnce
    BY DEF OnceInv
<1>3. QED
    BY TypeInit, TypeStep, OnceInit, <1>1, <1>2, PTL DEF Spec

----------------------------------------------------------------------------
(* A bounded range shows nothing until it is computed. *)

\* The statements of publishDeferred only run behind the last block.
AtTheEnd == Deferred /\ pc \in {"probe", "insert", "checkpoint"} => pos = Last

LEMMA AtTheEndStep == TypeOK /\ AtTheEnd /\ [Next]_vars => AtTheEnd'
<1> SUFFICES ASSUME TypeOK, AtTheEnd, [Next]_vars PROVE AtTheEnd'
    OBVIOUS
<1>1. CASE Batch
    <2>1. PICK m \in (pos + 1) .. Min2(pos + BATCH, Last) :
              /\ pos' = m
              /\ pc' = IF PublishNow(m) THEN "probe" ELSE "batch"
        BY <1>1 DEF Batch
    <2>2. m \in First - 1 .. Last
        BY BatchBlocks
    <2>3. QED
        BY <2>1, <2>2, PublicationAssumption DEF AtTheEnd, PublishNow
<1>2. CASE Start \/ Probe \/ Insert \/ Checkpoint \/ Crash
    BY <1>2 DEF Start, Probe, Insert, Checkpoint, Crash, AtTheEnd
<1>3. CASE LateInsert \/ UNCHANGED vars
    BY <1>3 DEF LateInsert, process, vars, AtTheEnd
<1>4. QED
    BY <1>1, <1>2, <1>3 DEF Next, Step

\* The first row of a bounded range appears when all of it has been computed, so a
\* range that fails half way leaves nothing (Database.transact, deferred).
THEOREM NothingEarly ==
    ASSUME MaxLate = 0
    PROVE  Spec => NothingBeforeTheEnd
<1>1. Init => AtTheEnd
    BY DEF Init, AtTheEnd
<1>2. TypeOK /\ OnceInv /\ [Next]_vars => OnceInv'
    BY OnceStep
<1>3. OnceInv /\ AtTheEnd /\ [Next]_vars =>
          [Deferred /\ Stored = {} /\ Stored' # {} => pos = Last]_vars
    <2> SUFFICES ASSUME OnceInv, AtTheEnd, [Next]_vars, Deferred, Stored = {}, Stored' # {}
                 PROVE  pos = Last
        OBVIOUS
    <2>1. CASE Insert
        BY <2>1 DEF Insert, AtTheEnd
    <2>2. CASE ~Insert
        <3>1. UNCHANGED written
            BY <2>2 DEF Next, Step, Start, Batch, Probe, Checkpoint, Crash, LateInsert, OnceInv, vars
        <3>2. QED
            BY <3>1 DEF Stored
    <2>3. QED
        BY <2>1, <2>2
<1>4. QED
    BY TypeInit, TypeStep, OnceInit, AtTheEndStep, <1>1, <1>2, <1>3, PTL
    DEF Spec, NothingBeforeTheEnd

----------------------------------------------------------------------------
(* The order of the inserts. *)

\* What the probe found is stored, and stays so: an insert only adds.
ChunkSettled == pc = "insert" => \A r \in chunk : r \in fresh \/ r \in Stored

LEMMA InsertAdds ==
    ASSUME TypeOK, NEW S, S \subseteq Rows, written' = InsertInto(written, S)
    PROVE  Stored' = Stored \cup S
<1>1. \A r \in Rows : written[r] \in 0 .. 2
    BY DEF TypeOK
<1>2. \A r \in Rows : written'[r] = IF r \in S
                                   THEN Min2(written[r] + 1, IF Probed(r) THEN 2 ELSE 1)
                                   ELSE written[r]
    BY DEF InsertInto
<1>3. \A r \in Rows : written'[r] > 0 <=> written[r] > 0 \/ r \in S
    BY <1>1, <1>2 DEF Min2
<1>4. QED
    BY <1>3 DEF Stored

LEMMA StoredStep ==
    ASSUME TypeOK, [Next]_vars
    PROVE  /\ Insert => Stored' = Stored \cup fresh
           /\ LateInsert => Stored' = Stored \cup late
           /\ UNCHANGED written => Stored' = Stored
           /\ Stored \subseteq Stored'
<1>1. fresh \subseteq Rows /\ late \subseteq Rows
    BY DEF TypeOK
<1>2. Insert => Stored' = Stored \cup fresh
    BY <1>1, InsertAdds DEF Insert
<1>3. LateInsert => Stored' = Stored \cup late
    BY <1>1, InsertAdds DEF LateInsert
<1>4. ~Insert /\ ~LateInsert => UNCHANGED written
    BY DEF Next, Step, Start, Batch, Probe, Checkpoint, Crash, vars
<1>5. UNCHANGED written => Stored' = Stored
    BY DEF Stored
<1>6. QED
    BY <1>2, <1>3, <1>4, <1>5

LEMMA ChunkSettledStep == TypeOK /\ ChunkSettled /\ [Next]_vars => ChunkSettled'
<1> SUFFICES ASSUME TypeOK, ChunkSettled, [Next]_vars, pc' = "insert"
             PROVE  \A r \in chunk' : r \in fresh' \/ r \in Stored'
    BY DEF ChunkSettled
<1>1. CASE Probe
    BY <1>1, StoredStep DEF Probe, Unseen
<1>2. CASE Start \/ Batch \/ Insert \/ Checkpoint \/ Crash
    BY <1>2 DEF Start, Batch, Insert, Checkpoint, Crash
<1>3. CASE LateInsert \/ UNCHANGED vars
    BY <1>3, StoredStep DEF LateInsert, process, vars, ChunkSettled
<1>4. QED
    BY <1>1, <1>2, <1>3 DEF Next, Step

\* The rows that need their block's row.
OfBlock == {r \in Rows : r.table \in {"prices", "volumes"}}

\* Their block row is stored before they go out; until then it is at least buffered.
BlocksFirst ==
    /\ \A r \in OfBlock : r \in Stored \cup late => BlockRow(r.block) \in Stored
    /\ \A r \in OfBlock : r \in buf => BlockRow(r.block) \in Stored \cup buf
    /\ pc = "insert" => \A r \in OfBlock : r \in chunk => BlockRow(r.block) \in Stored

\* flushAll takes prices and volumes only when no block row is left.
LEMMA ChunkAfterBlocks ==
    ASSUME NEW S, IsChunk(S), NEW r \in OfBlock, r \in S, NEW b
    PROVE  BlockRow(b) \notin buf
<1> SUFFICES ASSUME BlockRow(b) \in buf PROVE FALSE
    OBVIOUS
<1>1. BlockRow(b).table = "blocks" /\ r.table \in {"prices", "volumes"}
    BY DEF BlockRow, OfBlock
<1>2. Rank("blocks") = 1 /\ Rank("prices") = 2 /\ Rank("volumes") = 3
    BY DEF Rank
<1>3. BlockRow(b) \notin S
    BY <1>1 DEF IsChunk
<1>4. Rank(r.table) < Rank("blocks")
    BY <1>1, <1>3 DEF IsChunk
<1>5. QED
    BY <1>1, <1>2, <1>4

LEMMA BlocksFirstStep ==
    TypeOK /\ ChunkSettled /\ BlocksFirst /\ [Next]_vars => BlocksFirst'
<1> SUFFICES ASSUME TypeOK, ChunkSettled, BlocksFirst, [Next]_vars PROVE BlocksFirst'
    OBVIOUS
<1> USE StoredStep
<1>1. CASE Start
    BY <1>1 DEF Start, BlocksFirst
<1>2. CASE Batch
    <2>1. PICK m \in (pos + 1) .. Min2(pos + BATCH, Last) :
              /\ buf' = buf \cup UNION {RowsOf(b, first /\ b = pos + 1) : b \in (pos + 1) .. m}
              /\ pc' = IF PublishNow(m) THEN "probe" ELSE "batch"
        BY <1>2 DEF Batch
    <2>2. ASSUME NEW r \in OfBlock, r \in buf'
          PROVE  BlockRow(r.block) \in Stored' \cup buf'
        <3>1. CASE r \in buf
            BY <2>1, <3>1 DEF BlocksFirst
        <3>2. CASE r \notin buf
            <4>1. PICK b \in (pos + 1) .. m : r \in RowsOf(b, first /\ b = pos + 1)
                BY <2>1, <2>2, <3>2
            <4>2. b \in Height /\ (first /\ b = pos + 1) \in BOOLEAN
                BY BatchBlocks DEF TypeOK
            <4>3. BlockRow(r.block) \in RowsOf(b, first /\ b = pos + 1)
                BY <4>1, <4>2, RowsOfHaveBlocks DEF OfBlock
            <4>4. QED
                BY <2>1, <4>3
        <3>3. QED
            BY <3>1, <3>2
    <2>3. pc' # "insert" /\ UNCHANGED <<written, late>>
        BY <1>2, <2>1 DEF Batch
    <2>4. QED
        BY <2>2, <2>3 DEF BlocksFirst
<1>3. CASE Probe
    <2>1. PICK S \in SUBSET buf : IsChunk(S) /\ chunk' = S
        BY <1>3 DEF Probe
    <2>2. \A r \in OfBlock : r \in S => BlockRow(r.block) \in Stored
        BY <2>1, ChunkAfterBlocks DEF BlocksFirst
    <2>3. UNCHANGED <<written, buf, late>>
        BY <1>3 DEF Probe
    <2>4. QED
        BY <2>1, <2>2, <2>3 DEF BlocksFirst
<1>4. CASE Insert
    <2>1. /\ Stored' = Stored \cup fresh /\ fresh \subseteq chunk /\ chunk \subseteq buf
          /\ buf' = buf \ chunk /\ pc' # "insert" /\ UNCHANGED late
          /\ pc = "insert"
        BY <1>4 DEF Insert, RestOf, TypeOK
    <2>2. chunk \subseteq Stored'
        BY <2>1 DEF ChunkSettled
    <2>3. QED
        BY <2>1, <2>2 DEF BlocksFirst
<1>5. CASE Checkpoint
    BY <1>5 DEF Checkpoint, BlocksFirst
<1>6. CASE Crash
    BY <1>6 DEF Crash, BlocksFirst, TypeOK
<1>7. CASE LateInsert
    BY <1>7 DEF LateInsert, process, BlocksFirst
<1>8. CASE UNCHANGED vars
    BY <1>8 DEF vars, BlocksFirst
<1>9. QED
    BY <1>1, <1>2, <1>3, <1>4, <1>5, <1>6, <1>7, <1>8 DEF Next, Step

\* "every visible price has corresponding block metadata" (flushAll), wherever the
\* process dies and whenever a late insert lands.
THEOREM PricesBehindBlocks == Spec => []PricesHaveBlocks
<1>1. Init => ChunkSettled /\ BlocksFirst
    BY DEF Init, ChunkSettled, BlocksFirst, Stored, OfBlock
<1>2. BlocksFirst => PricesHaveBlocks
    BY DEF BlocksFirst, PricesHaveBlocks, OfBlock, Stored
<1>3. QED
    BY TypeInit, TypeStep, ChunkSettledStep, BlocksFirstStep, <1>1, <1>2, PTL DEF Spec

----------------------------------------------------------------------------
(* The checkpoint.  A live pipeline that has none yet resumes above whatever *)
(* block rows are there (start_live_main), so it is left out.                *)

AnchoredRun == Deferred \/ ~Fresh

\* Everything owed up to the position is stored or still buffered; a checkpoint is
\* taken with empty buffers; a live run that is not fresh always has one.
CoverInv ==
    /\ CheckpointCovers
    /\ pc \notin {"down", "done"} =>
          \A b \in Height : b <= pos => Owed(b) \subseteq Stored \cup buf
    /\ pc = "checkpoint" => buf = {}
    /\ ~Deferred => ckpt > 0 /\ First > 1

\* A restart goes back to the checkpoint, or to before the first block.
LEMMA RestartCovered ==
    ASSUME TypeOK, CoverInv, NEW b \in Height, b <= StartPos
    PROVE  Owed(b) \subseteq Stored
<1> USE PublicationAssumption DEF Height
<1>1. ckpt \in {0} \cup (First - 1 .. Last)
    BY DEF TypeOK
<1>2. CASE Deferred
    <2>1. ckpt > 0 /\ b <= ckpt
        BY <1>1, <1>2 DEF StartPos, Max2
    <2>2. QED
        BY <2>1 DEF CoverInv, CheckpointCovers
<1>3. CASE ~Deferred
    <2>1. ckpt > 0 /\ b <= ckpt
        BY <1>3 DEF StartPos, CoverInv
    <2>2. QED
        BY <2>1 DEF CoverInv, CheckpointCovers
<1>4. QED
    BY <1>2, <1>3

LEMMA CoverInit == AnchoredRun /\ Init => CoverInv
<1> SUFFICES ASSUME AnchoredRun, Init PROVE CoverInv
    OBVIOUS
<1>1. CheckpointCovers
    BY PublicationAssumption DEF Init, CheckpointCovers, Height
<1>2. QED
    BY <1>1, PublicationAssumption DEF Init, CoverInv, AnchoredRun

LEMMA CoverStep ==
    TypeOK /\ ChunkSettled /\ CoverInv /\ [Next]_vars => CoverInv'
<1> SUFFICES ASSUME TypeOK, ChunkSettled, CoverInv, [Next]_vars PROVE CoverInv'
    OBVIOUS
<1> USE StoredStep
<1>1. UNCHANGED ckpt => CheckpointCovers'
    BY DEF CoverInv, CheckpointCovers
<1>2. CASE Start
    <2>1. \A b \in Height : b <= pos' => Owed(b) \subseteq Stored
        BY <1>2, RestartCovered DEF Start
    <2>2. UNCHANGED <<written, ckpt>> /\ pc' = "batch"
        BY <1>2 DEF Start
    <2>3. QED
        BY <1>1, <2>1, <2>2 DEF CoverInv
<1>3. CASE Batch
    <2>1. PICK m \in (pos + 1) .. Min2(pos + BATCH, Last) :
              /\ pos' = m
              /\ buf' = buf \cup UNION {RowsOf(b, first /\ b = pos + 1) : b \in (pos + 1) .. m}
              /\ pc' = IF PublishNow(m) THEN "probe" ELSE "batch"
        BY <1>3 DEF Batch
    <2>2. ASSUME NEW b \in Height, b <= m
          PROVE  Owed(b) \subseteq Stored' \cup buf'
        <3>1. CASE b <= pos
            BY <1>3, <2>1, <3>1 DEF Batch, CoverInv
        <3>2. CASE ~(b <= pos)
            <4>1. b \in (pos + 1) .. m /\ (first /\ b = pos + 1) \in BOOLEAN
                BY <2>2, <3>2, BatchBlocks, PublicationAssumption DEF TypeOK, Height
            <4>2. Owed(b) \subseteq RowsOf(b, first /\ b = pos + 1)
                BY <4>1, RowsOfFacts
            <4>3. QED
                BY <2>1, <4>1, <4>2
        <3>3. QED
            BY <3>1, <3>2
    <2>3. UNCHANGED ckpt /\ pc' \in {"probe", "batch"}
        BY <1>3, <2>1 DEF Batch
    <2>4. QED
        BY <1>1, <2>1, <2>2, <2>3 DEF CoverInv
<1>4. CASE Probe
    <2>1. UNCHANGED <<ckpt, pos, buf>> /\ pc = "probe" /\ pc' = "insert"
        BY <1>4 DEF Probe
    <2>2. QED
        BY <1>1, <2>1 DEF CoverInv
<1>5. CASE Insert
    <2>1. /\ Stored' = Stored \cup fresh
          /\ buf' = buf \ chunk
          /\ pc' = IF buf' = {} THEN "checkpoint" ELSE "probe"
          /\ pc = "insert"
          /\ UNCHANGED <<ckpt, pos>>
        BY <1>5 DEF Insert, RestOf
    <2>2. Stored \cup buf \subseteq Stored' \cup buf'
        BY <2>1 DEF ChunkSettled
    <2>3. QED
        BY <1>1, <2>1, <2>2 DEF CoverInv
<1>6. CASE Checkpoint
    <2>1. /\ pc = "checkpoint" /\ pc' # "checkpoint"
          /\ ckpt' = pos /\ UNCHANGED <<written, pos, buf>>
        BY <1>6 DEF Checkpoint
    <2>2. \A b \in Height : b <= ckpt' => Owed(b) \subseteq Stored'
        BY <2>1 DEF CoverInv
    <2>3. ~Deferred => ckpt' > 0
        BY <2>1, PublicationAssumption DEF CoverInv, TypeOK
    <2>4. QED
        BY <2>1, <2>2, <2>3 DEF CoverInv, CheckpointCovers
<1>7. CASE Crash
    BY <1>1, <1>7 DEF Crash, CoverInv
<1>8. CASE LateInsert \/ UNCHANGED vars
    BY <1>1, <1>8 DEF LateInsert, process, vars, CoverInv
<1>9. QED
    BY <1>2, <1>3, <1>4, <1>5, <1>6, <1>7, <1>8 DEF Next, Step

\* A checkpoint promises that everything up to it is in the tables: what follows a
\* death never skips a block (Database.transact, saveCheckpoint).
THEOREM CheckpointKeepsItsWord ==
    ASSUME AnchoredRun
    PROVE  Spec => []CheckpointCovers
<1>1. Init => ChunkSettled
    BY DEF Init, ChunkSettled
<1>2. Init => CoverInv
    BY CoverInit
<1>3. CoverInv => CheckpointCovers
    BY DEF CoverInv
<1>4. QED
    BY TypeInit, TypeStep, ChunkSettledStep, CoverStep, <1>1, <1>2, <1>3, PTL DEF Spec

----------------------------------------------------------------------------
(* The pipeline implements PublicationLedger. *)

\* A process that is up never stands below the mark; a bounded run has no checkpoint
\* inside its blocks until it is through.
MarkInv ==
    /\ pc \notin {"down", "done"} => Mark <= pos
    /\ Deferred /\ pc # "done" => Mark = First - 1

LEMMA MarkInit == Init => MarkInv
BY PublicationAssumption DEF Init, MarkInv, Mark

LEMMA MarkType == TypeOK => Mark \in First - 1 .. Last
BY PublicationAssumption DEF TypeOK, Mark

LEMMA MarkStep == TypeOK /\ CoverInv /\ MarkInv /\ [Next]_vars => MarkInv'
<1> SUFFICES ASSUME TypeOK, CoverInv, MarkInv, [Next]_vars PROVE MarkInv'
    OBVIOUS
<1> USE PublicationAssumption
<1>1. UNCHANGED ckpt => Mark' = Mark
    BY DEF Mark
<1>2. CASE Start
    <2>1. pos' = StartPos /\ UNCHANGED ckpt /\ pc = "down"
        BY <1>2 DEF Start
    <2>2. Mark <= StartPos
        <3>1. CASE Deferred
            BY <2>1, <3>1, StartPosType DEF MarkInv
        <3>2. CASE ~Deferred
            BY <3>2 DEF CoverInv, StartPos, Mark, TypeOK
        <3>3. QED
            BY <3>1, <3>2
    <2>3. QED
        BY <1>1, <2>1, <2>2 DEF MarkInv
<1>3. CASE Batch
    <2>1. PICK m \in (pos + 1) .. Min2(pos + BATCH, Last) : pos' = m
        BY <1>3 DEF Batch
    <2>2. m > pos /\ m \in Int /\ pos \in Int /\ Mark \in Int
        BY BatchBlocks, MarkType DEF TypeOK
    <2>3. pc = "batch" /\ UNCHANGED ckpt
        BY <1>3 DEF Batch
    <2>4. QED
        BY <1>1, <2>1, <2>2, <2>3 DEF MarkInv
<1>4. CASE Checkpoint
    <2>1. /\ pc = "checkpoint" /\ ckpt' = pos /\ UNCHANGED pos
          /\ pc' = IF Deferred THEN "done" ELSE "batch"
        BY <1>4 DEF Checkpoint
    <2>2. ~Deferred => Mark' = pos
        BY <2>1 DEF Mark, TypeOK, CoverInv
    <2>3. QED
        BY <2>1, <2>2 DEF MarkInv, TypeOK
<1>5. CASE Probe \/ Insert \/ Crash
    BY <1>1, <1>5 DEF Probe, Insert, Crash, MarkInv
<1>6. CASE LateInsert \/ UNCHANGED vars
    BY <1>1, <1>6 DEF LateInsert, process, vars, MarkInv
<1>7. QED
    BY <1>2, <1>3, <1>4, <1>5, <1>6 DEF Next, Step

ImplInv == TypeOK /\ OnceInv /\ ChunkSettled /\ CoverInv /\ MarkInv

\* An insert writes rows nobody has written: the ledger's Write.
LEMMA InsertWrites == ImplInv /\ Insert => Ledger!Write
<1> SUFFICES ASSUME ImplInv, Insert PROVE Ledger!Write
    OBVIOUS
<1>1. ASSUME NEW r \in Rows, Probed(r)
      PROVE  written'[r] = written[r] \/ (written[r] = 0 /\ written'[r] = 1)
    <2>1. written[r] \in 0 .. 2
        BY DEF ImplInv, TypeOK
    <2>2. written'[r] = IF r \in fresh THEN Min2(written[r] + 1, 2) ELSE written[r]
        BY <1>1 DEF Insert, InsertInto
    <2>3. r \in fresh => written[r] = 0
        BY <1>1 DEF Insert, ImplInv, OnceInv
    <2>4. QED
        BY <2>1, <2>2, <2>3 DEF Min2
<1>2. UNCHANGED Mark
    BY DEF Insert, Mark
<1>3. QED
    BY <1>1, <1>2 DEF Ledger!Write

\* A checkpoint only passes blocks that are settled: the ledger's Settle.
LEMMA CheckpointSettles ==
    ImplInv /\ Checkpoint => Ledger!Settle \/ UNCHANGED <<written, Mark>>
<1> SUFFICES ASSUME ImplInv, Checkpoint, ~(UNCHANGED Mark) PROVE Ledger!Settle
    BY DEF Checkpoint
<1> USE PublicationAssumption
<1>1. /\ pc = "checkpoint" /\ ckpt' = pos /\ UNCHANGED written
      /\ pos \in First - 1 .. Last /\ Mark \in First - 1 .. Last /\ Mark <= pos
    BY MarkType DEF Checkpoint, ImplInv, TypeOK, MarkInv
<1>2. Mark' \in {pos, First - 1}
    BY <1>1 DEF Mark
<1>3. Mark' = pos
    <2>1. CASE Mark' = First - 1
        <3>1. Deferred => Mark = First - 1
            BY <1>1 DEF ImplInv, MarkInv
        <3>2. ~Deferred => pos > 0
            BY <1>1 DEF ImplInv, CoverInv
        <3>3. ~Deferred => Mark' = pos
            BY <1>1, <3>2 DEF Mark
        <3>4. QED
            BY <2>1, <3>1, <3>3
    <2>2. QED
        BY <1>2, <2>1
<1>4. ASSUME NEW b \in (Mark + 1) .. Mark', NEW r \in Rows, Probed(r), r \in Owed(b)
      PROVE  written[r] = 1
    <2>1. b \in Height /\ b <= pos
        BY <1>1, <1>3 DEF Height
    <2>2. r \in Stored
        BY <1>1, <1>4, <2>1 DEF ImplInv, CoverInv
    <2>3. written[r] \in 0 .. 2 /\ written[r] > 0 /\ written[r] <= 1
        BY <2>2 DEF Stored, ImplInv, TypeOK, OnceInv, ExactlyOnce
    <2>4. QED
        BY <2>3
<1>5. QED
    BY <1>1, <1>3, <1>4 DEF Ledger!Settle

\* Every pipeline with a checkpoint, and every bounded range, implements the ledger:
\* a row once, and the mark only over settled blocks, through any number of deaths.
THEOREM PublicationImplementsLedger ==
    ASSUME AnchoredRun, MaxLate = 0
    PROVE  Spec => ImplementsLedger
<1>1. Init => Ledger!Init
    <2> SUFFICES ASSUME Init PROVE Ledger!Init
        OBVIOUS
    <2>1. Mark \in Int
        BY TypeInit, MarkType, PublicationAssumption
    <2>2. QED
        BY <2>1 DEF Init, Ledger!Init
<1>2. Init => ImplInv
    <2>1. Init => ChunkSettled
        BY DEF Init, ChunkSettled
    <2>2. QED
        BY <2>1, TypeInit, OnceInit, CoverInit, MarkInit DEF ImplInv
<1>3. ImplInv /\ [Next]_vars => ImplInv'
    BY TypeStep, OnceStep, ChunkSettledStep, CoverStep, MarkStep DEF ImplInv
<1>4. ImplInv /\ [Next]_vars =>
          [Ledger!Write \/ Ledger!Settle]_<<[r \in {s \in Rows : Probed(s)} |-> written[r]], Mark>>
    <2> SUFFICES ASSUME ImplInv, [Next]_vars
                 PROVE  Ledger!Write \/ Ledger!Settle \/ UNCHANGED <<written, Mark>>
        OBVIOUS
    <2>1. CASE Insert
        BY <2>1, InsertWrites
    <2>2. CASE Checkpoint
        BY <2>2, CheckpointSettles
    <2>3. CASE ~Insert /\ ~Checkpoint
        <3>1. UNCHANGED <<written, ckpt>>
            BY <2>3 DEF Next, Step, Start, Batch, Probe, Crash, LateInsert, vars, ImplInv, OnceInv
        <3>2. QED
            BY <3>1 DEF Mark
    <2>4. QED
        BY <2>1, <2>2, <2>3
<1>5. QED
    BY <1>1, <1>2, <1>3, <1>4, PTL DEF Spec, ImplementsLedger, Ledger!Spec

----------------------------------------------------------------------------
(* The tools of PriceTools.  They are proved about beside a live pipeline. *)

RollbackSteps == {"range", "prices", "volumes", "blocks", "upgrades", "clear", "restore",
                  "checkpoint", "dead"}
VolumeSteps == {"read", "dropVolumes", "addVolumes", "dropPrices", "addPrices", "clear",
                "rebuild", "dead"}

ToolType == [kind: {"none", "rollback", "ohlc", "volume"},
             step: {"idle"} \cup RollbackSteps \cup VolumeSteps,
             at: Int, from: Int, to: Int, todo: SUBSET Candles, filter: BOOLEAN]

\* A tool is on its own path, and the blocks it works on are blocks the pipeline has.
ToolOnPath ==
    /\ tool \in ToolType
    /\ tool.kind = "none" <=> tool.step = "idle"
    /\ tool.kind = "rollback" => tool.step \in RollbackSteps /\ tool.at \in Height
    /\ tool.kind = "ohlc" => tool.step \in {"clear", "rebuild", "dead"}
    /\ tool.kind = "volume" =>
          tool.step \in VolumeSteps /\ tool.from <= tool.at /\ tool.to <= SafeTip

TablesType ==
    /\ value \in [Prices -> Values]
    /\ candles \in [Candles -> [Prices -> [Values -> 0 .. 2]]]
    /\ torn \in BOOLEAN
    /\ tools \in 0 .. MaxTools /\ toolCrashes \in 0 .. MaxToolCrashes

ToolsType == TypeOK /\ ToolOnPath /\ TablesType

LEMMA LowestExists ==
    ASSUME NEW S, S \subseteq Height, S # {}
    PROVE  \E b \in S : \A c \in S : b <= c
<1>1. Height \subseteq Nat
    BY PublicationAssumption DEF Height
<1>2. PICK b \in S : \A c \in S : <<c, b>> \notin OpToRel(<, Nat)
    BY <1>1, WFMin, NatLessThanWellFounded, Zenon
<1>3. \A c \in S : b \in Nat /\ c \in Nat /\ ~(c < b)
    BY <1>1, <1>2 DEF OpToRel
<1>4. QED
    BY <1>3

LEMMA PriceRowsFacts ==
    /\ Prices \subseteq Rows
    /\ \A r \in Prices : r.table = "prices" /\ r.block \in Height
    /\ \A r \in Rows : r.table = "prices" => r \in PriceRows(r.block) /\ r.block \in Height /\ r \in Prices
    /\ \A r \in Rows : r.table = "volumes" => r \in VolumeRows(r.block) /\ r.block \in Height
    /\ \A r \in Rows : r.table = "blocks" => r = BlockRow(r.block) /\ r.block \in Height
    /\ \A r \in Rows : r.block \in Height
BY PublicationAssumption
DEF Prices, Rows, PriceRows, VolumeRows, BlockRow, UpgradeRow, AssetRows, ErrorNames, Height

LEMMA SafeTipType == SafeTip \in Nat
<1> USE PublicationAssumption, ToolsAssumption
<1>1. Heights \subseteq Height
    BY DEF Heights
<1>2. CASE Heights = {}
    BY <1>2 DEF SafeTip
<1>3. CASE Heights # {}
    <2>1. Highest(Heights) \in Height
        BY <1>1, <1>3, HighestExists
    <2>2. QED
        BY <1>3, <2>1 DEF SafeTip, Max2, Height
<1>4. QED
    BY <1>2, <1>3

\* As long as no block goes, the safe tip does not go back.
LEMMA SafeTipGrows ==
    ASSUME Heights \subseteq Heights'
    PROVE  SafeTip <= SafeTip' /\ SafeTip \in Nat /\ SafeTip' \in Nat
<1> USE PublicationAssumption, ToolsAssumption
<1>1. Heights \subseteq Height /\ Heights' \subseteq Height
    BY DEF Heights
<1>2. CASE Heights = {}
    <2>1. CASE Heights' = {}
        BY <1>2, <2>1 DEF SafeTip
    <2>2. CASE Heights' # {}
        <3>1. Highest(Heights)' \in Height
            BY <1>1, <2>2, HighestExists DEF Highest
        <3>2. QED
            BY <1>2, <2>2, <3>1 DEF SafeTip, Max2, Height
    <2>3. QED
        BY <2>1, <2>2
<1>3. CASE Heights # {}
    <2>1. Highest(Heights) \in Heights
        BY <1>1, <1>3, HighestExists
    <2>2. /\ Highest(Heights)' \in Heights'
          /\ \A c \in Heights' : c <= Highest(Heights)'
        BY <1>1, <1>3, HighestExists DEF Highest
    <2>3. Highest(Heights) <= Highest(Heights)'
        BY <2>1, <2>2
    <2>4. SafeTip = Max2(0, Highest(Heights) - SAFETY_LAG)
        BY <1>3 DEF SafeTip
    <2>5. SafeTip' = Max2(0, Highest(Heights)' - SAFETY_LAG)
        BY <2>2 DEF SafeTip
    <2>6. Highest(Heights) \in Int /\ Highest(Heights)' \in Int
        <3>1. Highest(Heights) \in Height /\ Highest(Heights)' \in Height
            BY <1>1, <2>1, <2>2
        <3>2. QED
            BY <3>1 DEF Height
    <2>7. QED
        BY <2>3, <2>4, <2>5, <2>6 DEF Max2
<1>4. QED
    BY <1>2, <1>3

\* What a tool's statements do to the tables.
LEMMA DeleteRemoves ==
    ASSUME TypeOK, NEW S, Delete(S)
    PROVE  /\ Stored' = Stored \ S
           /\ written' \in [Rows -> 0 .. 2]
           /\ \A r \in Rows : written'[r] = IF r \in S THEN 0 ELSE written[r]
<1>1. \A r \in Rows : written[r] \in 0 .. 2
    BY DEF TypeOK
<1>2. written' = [r \in Rows |-> IF r \in S THEN 0 ELSE written[r]]
    BY DEF Delete
<1>3. \A r \in Rows : written'[r] = IF r \in S THEN 0 ELSE written[r]
    BY <1>2
<1>4. QED
    BY <1>1, <1>2, <1>3 DEF Stored

LEMMA HeightsKept ==
    ASSUME \A b \in Height : BlockRow(b) \in Stored => BlockRow(b) \in Stored'
    PROVE  Heights \subseteq Heights'
BY DEF Heights

LEMMA CountedType ==
    ASSUME NEW c \in [Values -> 0 .. 2], NEW v \in Values
    PROVE  Counted(c, v) \in [Values -> 0 .. 2]
<1>1. c[v] \in 0 .. 2
    OBVIOUS
<1>2. Min2(c[v] + 1, 2) \in 0 .. 2
    BY <1>1 DEF Min2
<1>3. QED
    BY <1>2 DEF Counted

LEMMA FedType ==
    ASSUME TablesType, NEW S, NEW v \in Values
    PROVE  Fed(S, v) \in [Candles -> [Prices -> [Values -> 0 .. 2]]]
<1>1. ASSUME NEW t \in Candles, NEW r \in Prices
      PROVE  /\ candles[t][r] \in [Values -> 0 .. 2]
             /\ Counted(candles[t][r], v) \in [Values -> 0 .. 2]
    BY CountedType DEF TablesType
<1>2. QED
    BY <1>1 DEF Fed

LEMMA ToolsTypeInit == ToolsInit => ToolsType
<1> SUFFICES ASSUME ToolsInit PROVE ToolsType
    OBVIOUS
<1>1. TypeOK
    BY TypeInit DEF ToolsInit
<1>2. ToolOnPath
    BY DEF ToolsInit, NoTool, ToolOnPath, ToolType, RollbackSteps, VolumeSteps
<1>3. TablesType
    <2>1. NoTable \in [Values -> 0 .. 2]
        BY DEF NoTable
    <2>2. value \in [Prices -> Values]
        BY DEF ToolsInit, Values
    <2>3. candles \in [Candles -> [Prices -> [Values -> 0 .. 2]]]
        BY <2>1 DEF ToolsInit
    <2>4. torn \in BOOLEAN
        BY DEF ToolsInit
    <2>5. tools \in 0 .. MaxTools /\ toolCrashes \in 0 .. MaxToolCrashes
        BY ToolsAssumption DEF ToolsInit
    <2>6. QED
        BY <2>2, <2>3, <2>4, <2>5 DEF TablesType
<1>4. QED
    BY <1>1, <1>2, <1>3 DEF ToolsType

\* A statement of a tool that writes no table leaves the pipeline as it is.
LEMMA StillTypes ==
    ASSUME ToolsType, UNCHANGED vars
    PROVE  TypeOK' /\ SafeTip' = SafeTip /\ Stored' = Stored /\ Heights' = Heights
BY DEF vars, ToolsType, TypeOK, SafeTip, Heights, Stored

\* What a tool starts with is on its path.
LEMMA StartableOnPath ==
    ASSUME NEW t \in Startable
    PROVE  /\ t \in ToolType
           /\ t.kind \in {"rollback", "ohlc", "volume"}
           /\ t.kind = "rollback" => t.step = "range" /\ t.at \in Height /\ t.at <= ckpt + 1
           /\ t.kind = "ohlc" => t.step = "clear"
           /\ t.kind = "volume" => t.step = "read" /\ t.from = t.at /\ t.to = SafeTip
<1> USE PublicationAssumption, SafeTipType
<1>1. \A b \in Height : b \in Int
    BY DEF Height
<1>2. CASE \E b \in Reached : t = Rollback(b)
    <2>1. PICK b \in Reached : t = Rollback(b)
        BY <1>2
    <2>2. t = [kind |-> "rollback", step |-> "range", at |-> b, from |-> 0, to |-> 0,
               todo |-> {}, filter |-> FALSE]
        BY <2>1 DEF Rollback, NoTool
    <2>3. b \in Height /\ b <= ckpt + 1 /\ b \in Int
        BY <1>1 DEF Reached
    <2>4. QED
        BY <2>2, <2>3 DEF ToolType, RollbackSteps, VolumeSteps
<1>3. CASE \E p \in {q \in Height \X Height : q[1] <= q[2]} : t = RepairOHLC(p[1], p[2])
    <2>1. PICK b \in Height, c \in Height : t = RepairOHLC(b, c)
        BY <1>3
    <2>2. t = [kind |-> "ohlc", step |-> "clear", at |-> 0, from |-> b, to |-> c,
               todo |-> Candles, filter |-> FALSE]
        BY <2>1 DEF RepairOHLC, NoTool
    <2>3. QED
        BY <1>1, <2>2 DEF ToolType, RollbackSteps, VolumeSteps
<1>4. CASE \E b \in {c \in Height : c <= SafeTip}, f \in BOOLEAN : t = RepairVolume(b, f)
    <2>1. PICK b \in Height, f \in BOOLEAN : t = RepairVolume(b, f)
        BY <1>4
    <2>2. t = [kind |-> "volume", step |-> "read", at |-> b, from |-> b, to |-> SafeTip,
               todo |-> {}, filter |-> f]
        BY <2>1 DEF RepairVolume, NoTool
    <2>3. QED
        BY <1>1, <2>2 DEF ToolType, RollbackSteps, VolumeSteps
<1>5. QED
    BY <1>2, <1>3, <1>4 DEF Startable

\* The tool after each of its steps.
LEMMA ChunkEndFacts ==
    ASSUME ToolOnPath
    PROVE  /\ ChunkEnd \in Int /\ ChunkEnd <= tool.to
           /\ tool.at <= tool.to \/ ChunkEnd < tool.to => tool.at <= ChunkEnd
           /\ tool.at \in Int /\ tool.from \in Int /\ tool.to \in Int
<1>1. tool.at \in Int /\ tool.to \in Int /\ tool.from \in Int
    BY DEF ToolOnPath, ToolType
<1>2. QED
    BY <1>1, ToolsAssumption DEF ChunkEnd, Min2

\* The rows of a chunk.
LEMMA ChunkRows ==
    /\ \A r \in UNION {VolumeRows(b) : b \in Swaps \cap InChunk} :
          r \in Rows /\ r.table = "volumes" /\ r.block \in Swaps \cap InChunk
    /\ \A r \in Rows : r.table = "volumes" /\ r.block \in Swaps \cap InChunk =>
          r \in UNION {VolumeRows(b) : b \in Swaps \cap InChunk}
    /\ UNION {VolumeRows(b) : b \in Swaps \cap InChunk} \subseteq Rows
    /\ \A r \in Corrected : r \in Prices /\ r.table = "prices" /\ r.block \in Swaps \cap InChunk
    /\ Corrected \subseteq Rows
    /\ \A r \in Prices : r.block \in Swaps \cap InChunk => r \in Corrected
<1>1. Swaps \subseteq Height
    BY PublicationAssumption DEF Height
<1>2. \A b : /\ \A r \in VolumeRows(b) : r.table = "volumes" /\ r.block = b
             /\ \A r \in PriceRows(b) : r.table = "prices" /\ r.block = b
    BY DEF VolumeRows, PriceRows
<1>3. \A b \in Height : VolumeRows(b) \subseteq Rows /\ PriceRows(b) \subseteq Rows
    BY DEF Rows
<1>4. \A b \in Height : PriceRows(b) \subseteq Prices
    BY DEF Prices
<1>5. QED
    BY <1>1, <1>2, <1>3, <1>4, PriceRowsFacts DEF Corrected

\* What FillTable inserts into a table.
Filled(t) == IF tool.step = "restore" THEN Prefix(t) ELSE Rebuilt(t)

LEMMA DeleteTypes ==
    ASSUME TypeOK, TablesType, NEW S, Delete(S)
    PROVE  TypeOK' /\ TablesType'
<1>1. written' \in [Rows -> 0 .. 2]
    BY DeleteRemoves
<1>2. value' \in [Prices -> Values]
    BY DEF Delete, TablesType, Values
<1>3. UNCHANGED <<ckpt, process, late, crashes, lates, candles, history>>
    BY DEF Delete
<1>4. QED
    BY <1>1, <1>2, <1>3 DEF TypeOK, TablesType, process, history

\* The volume repair goes on in the same chunk.
LEMMA VolumeGoesOn ==
    ASSUME ToolOnPath, Heights \subseteq Heights', NEW s \in VolumeSteps,
           tool.step \in {"read", "dropVolumes", "addVolumes", "dropPrices", "addPrices"},
           tool' = [tool EXCEPT !.step = s]
    PROVE  ToolOnPath'
<1>1. tool.kind = "volume" /\ tool \in ToolType
    BY DEF ToolOnPath, ToolType, RollbackSteps
<1>2. SafeTip \in Int /\ SafeTip' \in Int /\ SafeTip <= SafeTip' /\ tool.to \in Int
    BY <1>1, SafeTipGrows DEF ToolType
<1>3. QED
    BY <1>1, <1>2 DEF ToolOnPath, ToolType, VolumeSteps

LEMMA ToolsTypeStep == ToolsType /\ [ToolsNext]_<<vars, toolVars>> => ToolsType'
<1> SUFFICES ASSUME ToolsType, [ToolsNext]_<<vars, toolVars>> PROVE ToolsType'
    OBVIOUS
<1> USE PublicationAssumption, ToolsAssumption
<1>a. TypeOK /\ ToolOnPath /\ TablesType /\ tool \in ToolType
    BY DEF ToolsType, ToolOnPath
<1>b. ASSUME UNCHANGED tool, Heights \subseteq Heights' PROVE ToolOnPath'
    <2>1. SafeTip <= SafeTip' /\ SafeTip \in Nat /\ SafeTip' \in Nat /\ tool.to \in Int
        BY <1>b, SafeTipGrows, <1>a DEF ToolType
    <2>2. QED
        BY <1>a, <1>b, <2>1 DEF ToolOnPath
<1>1. CASE Pipeline
    <2>1. [Next]_vars /\ UNCHANGED <<tool, torn, tools, toolCrashes>>
        BY <1>1 DEF Pipeline
    <2>2. TypeOK' /\ Stored \subseteq Stored'
        BY <1>a, <2>1, TypeStep, StoredStep
    <2>3. ToolOnPath'
        BY <1>b, <2>1, <2>2 DEF Heights
    <2>4. TablesType'
        <3>1. PICK rows : /\ value' = [r \in Prices |-> IF r \in rows THEN "pipeline" ELSE value[r]]
                          /\ candles' = Fed(rows, "pipeline")
            BY <1>1 DEF Pipeline
        <3>2. candles' \in [Candles -> [Prices -> [Values -> 0 .. 2]]]
            BY <1>a, <3>1, FedType DEF Values
        <3>3. value' \in [Prices -> Values]
            BY <1>a, <3>1 DEF TablesType, Values
        <3>4. QED
            BY <1>a, <2>1, <3>2, <3>3 DEF TablesType
    <2>5. QED
        BY <2>2, <2>3, <2>4 DEF ToolsType
<1>2. CASE StartTool
    <2>1. UNCHANGED <<vars, value, candles, torn, dirty, toolCrashes>> /\ tool' \in Startable
          /\ tools < MaxTools /\ tools' = tools + 1
        BY <1>2 DEF StartTool
    <2>2. ToolOnPath'
        BY <2>1, StartableOnPath, StillTypes, ChunkEndFacts DEF ToolOnPath, RollbackSteps, VolumeSteps, ToolType
    <2>3. TablesType'
        BY <1>a, <2>1 DEF TablesType
    <2>4. QED
        BY <2>1, <2>2, <2>3, StillTypes DEF ToolsType
<1>3. CASE Rerun
    <2>1. UNCHANGED <<vars, value, candles, history>> /\ tool' = Again /\ tool.step = "dead"
        BY <1>3 DEF Rerun
    <2>2. ToolOnPath'
        <3>1. tool.kind \in {"rollback", "ohlc", "volume"}
            BY <1>a, <2>1 DEF ToolOnPath, ToolType
        <3>2. SafeTip \in Int /\ SafeTip' = SafeTip
            BY <2>1, SafeTipType, StillTypes
        <3>3. CASE tool.kind = "rollback"
            <4>1. tool' = [kind |-> "rollback", step |-> "range", at |-> tool.at, from |-> 0, to |-> 0,
                                todo |-> {}, filter |-> FALSE]
                BY <2>1, <3>3 DEF Again, Rollback, NoTool
            <4>2. QED
                BY <1>a, <2>1, <3>3, <4>1 DEF ToolOnPath, ToolType, RollbackSteps, VolumeSteps
        <3>4. CASE tool.kind = "ohlc"
            <4>1. tool' = [kind |-> "ohlc", step |-> "clear", at |-> 0, from |-> tool.from, to |-> tool.to,
                                todo |-> Candles, filter |-> FALSE]
                BY <2>1, <3>4 DEF Again, RepairOHLC, NoTool
            <4>2. QED
                BY <1>a, <2>1, <3>4, <4>1 DEF ToolOnPath, ToolType, RollbackSteps, VolumeSteps
        <3>5. CASE tool.kind = "volume"
            <4>1. tool' = [kind |-> "volume", step |-> "read", at |-> tool.from, from |-> tool.from,
                                to |-> SafeTip, todo |-> {}, filter |-> tool.filter]
                BY <2>1, <3>5 DEF Again, RepairVolume, NoTool
            <4>2. QED
                BY <1>a, <2>1, <3>2, <3>5, <4>1 DEF ToolOnPath, ToolType, RollbackSteps, VolumeSteps
        <3>6. QED
            BY <3>1, <3>3, <3>4, <3>5
    <2>3. TablesType'
        BY <1>a, <2>1 DEF TablesType, history
    <2>4. QED
        BY <2>1, <2>2, <2>3, StillTypes DEF ToolsType
<1>4. CASE ToolCrash
    <2>1. /\ UNCHANGED <<vars, value, candles, dirty, tools>> /\ tool' = [tool EXCEPT !.step = "dead"]
          /\ tool.step # "idle" /\ torn' = (torn \/ Tears)
          /\ toolCrashes < MaxToolCrashes /\ toolCrashes' = toolCrashes + 1
        BY <1>4 DEF ToolCrash
    <2>2. ToolOnPath'
        BY <1>a, <2>1, StillTypes DEF ToolOnPath, ToolType, RollbackSteps, VolumeSteps
    <2>3. torn' \in BOOLEAN
        BY <1>a, <2>1 DEF TablesType
    <2>4. TablesType'
        BY <1>a, <2>1, <2>3 DEF TablesType
    <2>5. QED
        BY <2>1, <2>2, <2>4, StillTypes DEF ToolsType
<1>5. CASE RollbackRange
    <2>1. PICK gone \in SUBSET Heights :
            tool' = [tool EXCEPT !.step = "prices",
                       !.from = IF gone = {} THEN NoTime ELSE CHOOSE b \in gone : \A c \in gone : b <= c,
                       !.to = IF gone = {} THEN NoTime ELSE Highest(gone)]
        BY <1>5 DEF RollbackRange
    <2>2. UNCHANGED <<vars, value, candles, history>> /\ tool.step = "range"
        BY <1>5 DEF RollbackRange
    <2>3. tool.kind = "rollback"
        BY <1>a, <2>2 DEF ToolOnPath, ToolType, VolumeSteps
    <2>4. PICK lo \in Int, hi \in Int : tool' = [tool EXCEPT !.step = "prices", !.from = lo, !.to = hi]
        <3>1. CASE gone = {}
            <4>1. tool' = [tool EXCEPT !.step = "prices", !.from = -1, !.to = -1] /\ -1 \in Int
                BY <2>1, <3>1 DEF NoTime
            <4>2. QED
                BY <4>1
        <3>2. CASE gone # {}
            <4>1. gone \subseteq Height /\ Height \subseteq Int
                BY <2>1 DEF Heights, Height
            <4>2. Highest(gone) \in Int
                BY <3>2, <4>1, HighestExists
            <4>3. (CHOOSE b \in gone : \A c \in gone : b <= c) \in Int
                BY <3>2, <4>1, LowestExists
            <4>4. QED
                BY <2>1, <3>2, <4>2, <4>3
        <3>3. QED
            BY <3>1, <3>2
    <2>5. ToolOnPath'
        BY <1>a, <2>3, <2>4 DEF ToolOnPath, ToolType, RollbackSteps
    <2>6. TablesType'
        BY <1>a, <2>2 DEF TablesType, history
    <2>7. QED
        BY <2>2, <2>5, <2>6, StillTypes DEF ToolsType
<1>6. CASE RollbackDelete
    <2>1. /\ Delete(From(tool.step, tool.at)) /\ tool.kind = "rollback"
          /\ tool' = [tool EXCEPT !.step = AfterDelete[tool.step], !.todo = Candles]
          /\ tool.step \in {"prices", "volumes", "blocks", "upgrades"}
        BY <1>6 DEF RollbackDelete, AfterDelete
    <2>2. AfterDelete[tool.step] \in {"volumes", "blocks", "upgrades", "clear"}
        BY <2>1 DEF AfterDelete
    <2>3. ToolOnPath'
        BY <1>a, <2>1, <2>2 DEF ToolOnPath, ToolType, RollbackSteps
    <2>4. TypeOK' /\ TablesType'
        BY <1>a, <2>1, DeleteTypes
    <2>5. QED
        BY <2>3, <2>4 DEF ToolsType
<1>7. CASE RollbackCheckpoint
    <2>1. /\ tool.step = "checkpoint" /\ ckpt' = tool.at - 1 /\ tool' = NoTool
          /\ UNCHANGED <<written, process, late, crashes, lates, value, candles, history>>
        BY <1>7 DEF RollbackCheckpoint, RolledBackTo
    <2>2. tool.at \in Height
        BY <1>a, <2>1 DEF ToolOnPath, ToolType, VolumeSteps
    <2>3. TypeOK'
        BY <1>a, <2>1, <2>2 DEF TypeOK, process, Height
    <2>4. ToolOnPath'
        BY <2>1 DEF NoTool, ToolOnPath, ToolType, RollbackSteps, VolumeSteps
    <2>5. QED
        BY <1>a, <2>1, <2>3, <2>4 DEF TablesType, history, ToolsType
<1>8. CASE ClearTable
    <2>1. PICK t \in tool.todo :
            /\ candles' = [candles EXCEPT ![t] = [r \in Prices |-> IF Covered(t, r) THEN NoTable ELSE candles[t][r]]]
            /\ tool' = IF tool.todo # {t} THEN [tool EXCEPT !.todo = @ \ {t}]
                       ELSE [tool EXCEPT !.step = IF tool.kind = "rollback" THEN "restore" ELSE "rebuild",
                                         !.todo = Candles]
        BY <1>8 DEF ClearTable
    <2>2. UNCHANGED <<vars, value, torn, tools, toolCrashes>> /\ tool.step = "clear" /\ t \in Candles
        BY <1>8, <1>a DEF ClearTable, ToolType
    <2>3. ToolOnPath'
        BY <1>a, <2>1, <2>2, StillTypes DEF ToolOnPath, ToolType, RollbackSteps, VolumeSteps
    <2>4. [r \in Prices |-> IF Covered(t, r) THEN NoTable ELSE candles[t][r]] \in [Prices -> [Values -> 0 .. 2]]
        BY <1>a, <2>2 DEF TablesType, NoTable
    <2>5. candles' \in [Candles -> [Prices -> [Values -> 0 .. 2]]]
        BY <1>a, <2>1, <2>4 DEF TablesType
    <2>6. QED
        BY <1>a, <2>2, <2>3, <2>5, StillTypes DEF TablesType, ToolsType
<1>9. CASE FillTable
    <2>1. PICK t \in tool.todo :
            /\ candles' = [candles EXCEPT ![t] = [r \in Prices |->
                  IF r \in Filled(t) THEN Counted(candles[t][r], value[r]) ELSE candles[t][r]]]
            /\ tool' = IF tool.todo # {t} THEN [tool EXCEPT !.todo = @ \ {t}]
                       ELSE IF tool.step = "restore" THEN [tool EXCEPT !.step = "checkpoint"]
                       ELSE NoTool
        BY <1>9 DEF FillTable, Filled
    <2>2. UNCHANGED <<vars, value, history>> /\ tool.step \in {"restore", "rebuild"} /\ t \in Candles
        BY <1>9, <1>a DEF FillTable, ToolType
    <2>3. ToolOnPath'
        <3>1. CASE tool.todo # {t}
            BY <1>a, <2>1, <2>2, <3>1, StillTypes DEF ToolOnPath, ToolType, RollbackSteps, VolumeSteps
        <3>2. CASE ~(tool.todo # {t}) /\ tool.step = "restore"
            BY <1>a, <2>1, <2>2, <3>2, StillTypes DEF ToolOnPath, ToolType, RollbackSteps, VolumeSteps
        <3>3. CASE ~(tool.todo # {t}) /\ tool.step # "restore"
            BY <2>1, <3>3 DEF ToolOnPath, ToolType, RollbackSteps, VolumeSteps, NoTool
        <3>4. QED
            BY <3>1, <3>2, <3>3
    <2>4. ASSUME NEW r \in Prices
          PROVE  /\ candles[t][r] \in [Values -> 0 .. 2]
                 /\ Counted(candles[t][r], value[r]) \in [Values -> 0 .. 2]
        BY <1>a, <2>2, CountedType DEF TablesType
    <2>5. [r \in Prices |-> IF r \in Filled(t) THEN Counted(candles[t][r], value[r])
                            ELSE candles[t][r]] \in [Prices -> [Values -> 0 .. 2]]
        BY <2>4
    <2>6. candles' \in [Candles -> [Prices -> [Values -> 0 .. 2]]]
        BY <1>a, <2>1, <2>2, <2>5 DEF TablesType
    <2>7. QED
        BY <1>a, <2>2, <2>3, <2>6, StillTypes DEF TablesType, ToolsType, history
<1>10. CASE ReadChunk
    <2>1. /\ UNCHANGED <<vars, value, candles, history>> /\ tool.step = "read"
          /\ tool' = [tool EXCEPT !.step = IF Refused THEN "dead" ELSE "dropVolumes"]
        BY <1>10 DEF ReadChunk
    <2>2. ToolOnPath'
        BY <1>a, <2>1, StillTypes DEF ToolOnPath, ToolType, RollbackSteps, VolumeSteps
    <2>3. QED
        BY <1>a, <2>1, <2>2, StillTypes DEF TablesType, ToolsType, history
<1>11. CASE DropVolumes
    <2>1. PICK S : Delete(S) /\ S = {r \in Rows : r.table = "volumes" /\ r.block \in InChunk}
        BY <1>11 DEF DropVolumes
    <2>2. tool.step = "dropVolumes" /\ tool' = [tool EXCEPT !.step = "addVolumes"]
        BY <1>11 DEF DropVolumes
    <2>3. Heights \subseteq Heights'
        BY <1>a, <2>1, DeleteRemoves, HeightsKept DEF BlockRow
    <2>4. ToolOnPath'
        BY <1>a, <2>2, <2>3, VolumeGoesOn DEF VolumeSteps
    <2>5. QED
        BY <1>a, <2>1, <2>4, DeleteTypes DEF ToolsType
<1>12. CASE AddVolumes
    <2>1. /\ tool.step = "addVolumes" /\ tool' = [tool EXCEPT !.step = "dropPrices"]
          /\ UNCHANGED <<ckpt, process, late, crashes, lates, value, candles, history>>
        BY <1>12 DEF AddVolumes
    <2>2. PICK S : S \subseteq Rows /\ written' = InsertInto(written, S)
        BY <1>12, ChunkRows DEF AddVolumes
    <2>3. Stored \subseteq Stored' /\ written' \in [Rows -> 0 .. 2]
        BY <1>a, <2>2, InsertAdds, InsertIntoType DEF TypeOK
    <2>4. ToolOnPath'
        BY <1>a, <2>1, <2>3, HeightsKept, VolumeGoesOn DEF VolumeSteps
    <2>5. TypeOK' /\ TablesType'
        BY <1>a, <2>1, <2>3 DEF TypeOK, TablesType, process, history
    <2>6. QED
        BY <2>4, <2>5 DEF ToolsType
<1>13. CASE DropPrices
    <2>1. /\ tool.step = "dropPrices" /\ tool' = [tool EXCEPT !.step = "addPrices"]
          /\ Delete(Corrected)
        BY <1>13 DEF DropPrices
    <2>2. Heights \subseteq Heights'
        <3>1. \A b \in Height : BlockRow(b) \notin Corrected
            BY ChunkRows DEF BlockRow
        <3>2. QED
            BY <1>a, <2>1, <3>1, DeleteRemoves, HeightsKept
    <2>3. ToolOnPath'
        BY <1>a, <2>1, <2>2, VolumeGoesOn DEF VolumeSteps
    <2>4. QED
        BY <1>a, <2>1, <2>3, DeleteTypes DEF ToolsType
<1>14. CASE AddPrices
    <2>1. /\ tool.step = "addPrices" /\ written' = InsertInto(written, Corrected)
          /\ value' = [r \in Prices |-> IF r \in Corrected THEN "corrected" ELSE value[r]]
          /\ candles' = Fed(Corrected, "corrected")
          /\ tool' = IF ChunkEnd < tool.to THEN [tool EXCEPT !.step = "read", !.at = ChunkEnd + 1]
                     ELSE [tool EXCEPT !.step = "clear", !.todo = Candles]
          /\ UNCHANGED <<ckpt, process, late, crashes, lates, history>>
        BY <1>14 DEF AddPrices, AfterChunks
    <2>2. Corrected \subseteq Rows
        BY ChunkRows
    <2>3. Stored \subseteq Stored' /\ written' \in [Rows -> 0 .. 2]
        BY <1>a, <2>1, <2>2, InsertAdds, InsertIntoType DEF TypeOK
    <2>4. tool.kind = "volume"
        BY <1>a, <2>1 DEF ToolOnPath, ToolType, RollbackSteps
    <2>5. ToolOnPath'
        <3>1. Heights \subseteq Heights'
            BY <2>3, HeightsKept
        <3>2. SafeTip \in Int /\ SafeTip' \in Int /\ SafeTip <= SafeTip'
            BY <3>1, SafeTipGrows
        <3>3. CASE ChunkEnd < tool.to
            <4>1. PICK n \in Int : n = ChunkEnd + 1
                BY <1>a, ChunkEndFacts
            <4>2. tool.from <= n
                BY <1>a, <2>4, <3>3, <4>1, ChunkEndFacts DEF ToolOnPath
            <4>3. tool' = [tool EXCEPT !.step = "read", !.at = n]
                BY <2>1, <3>3, <4>1
            <4>4. tool.to <= SafeTip'
                BY <1>a, <2>4, <3>2 DEF ToolOnPath, ToolType
            <4>5. QED
                BY <1>a, <2>4, <4>2, <4>3, <4>4 DEF ToolOnPath, ToolType, VolumeSteps
        <3>4. CASE ~(ChunkEnd < tool.to)
            <4>1. tool' = [tool EXCEPT !.step = "clear", !.todo = Candles]
                BY <2>1, <3>4
            <4>2. tool.to <= SafeTip'
                BY <1>a, <2>4, <3>2 DEF ToolOnPath, ToolType
            <4>3. QED
                BY <1>a, <2>4, <4>1, <4>2 DEF ToolOnPath, ToolType, VolumeSteps
        <3>5. QED
            BY <3>3, <3>4
    <2>6. candles' \in [Candles -> [Prices -> [Values -> 0 .. 2]]]
        BY <1>a, <2>1, FedType DEF Values
    <2>7. value' \in [Prices -> Values]
        BY <1>a, <2>1 DEF TablesType, Values
    <2>8. TypeOK' /\ TablesType'
        BY <1>a, <2>1, <2>3, <2>6, <2>7 DEF TypeOK, TablesType, process, history
    <2>9. QED
        BY <2>5, <2>8 DEF ToolsType
<1>15. CASE UNCHANGED <<vars, toolVars>>
    <2>1. UNCHANGED <<vars, value, candles, tool, torn, tools, toolCrashes>>
        BY <1>15 DEF toolVars
    <2>2. QED
        BY <1>a, <1>b, <2>1, StillTypes DEF TablesType, ToolsType
<1>16. QED
    BY <1>1, <1>2, <1>3, <1>4, <1>5, <1>6, <1>7, <1>8, <1>9, <1>10, <1>11, <1>12, <1>13, <1>14, <1>15
    DEF ToolsNext, ToolStep

LEMMA ToolsTypeImplied == ToolsType => ToolsTypeOK
BY DEF ToolsType, ToolsTypeOK, ToolOnPath, ToolType, TablesType

\* Every variable of the tools keeps its type, and a tool is only ever at a statement of
\* its own path, at blocks the pipeline has: what rollbackToBlock, repairChunk and the
\* candle repair compute from the tables is inside them (src/cli.ts, repair-volume.ts).
THEOREM ToolsTypeCorrect == ToolsSpec => []ToolsTypeOK
<1>1. QED
    BY ToolsTypeInit, ToolsTypeStep, ToolsTypeImplied, PTL DEF ToolsSpec

----------------------------------------------------------------------------
(* A tool that is through leaves nothing missing under the checkpoint. *)

\* The pipeline is a live one with a checkpoint, and stopped while a rollback runs.
ToolsRun == ~Deferred /\ ~Fresh /\ ToolsAlone

\* The process and the tool keep clear of each other.
KeptPath ==
    /\ ckpt > 0
    /\ tool.kind = "rollback" => tool.at <= ckpt + 1 /\ (tool.step # "dead" => pc = "down")
    /\ pc # "down" => pc # "done" /\ ckpt <= pos
    /\ pc = "checkpoint" => buf = {}
    /\ \A r \in buf : r.table = "volumes" => r.block \in Swaps

LEMMA KeptPathInit == ToolsRun /\ ToolsInit => KeptPath
BY PublicationAssumption DEF ToolsRun, ToolsInit, Init, NoTool, KeptPath

LEMMA RowsOfTrades ==
    ASSUME NEW b \in Height, NEW isFirst \in BOOLEAN, NEW r \in RowsOf(b, isFirst), r.table = "volumes"
    PROVE  r.block \in Swaps
BY DEF RowsOf, BlockRow, PriceRows, VolumeRows, UpgradeRow, AssetRows, ErrorNames

LEMMA KeptPathPipeline ==
    ToolsRun /\ ToolsType /\ KeptPath /\ Pipeline => KeptPath'
<1> SUFFICES ASSUME ToolsRun, ToolsType, KeptPath, Pipeline PROVE KeptPath'
    OBVIOUS
<1> USE PublicationAssumption
<1>a. /\ TypeOK /\ Next /\ UNCHANGED tool
      /\ (tool.kind = "rollback" /\ tool.step # "dead" => pc' = "down")
    BY DEF Pipeline, ToolsType, Paused, ToolsRun
<1>b. /\ ckpt \in Int /\ ckpt > 0 /\ pos \in First - 1 .. Last /\ pos \in Int
      /\ tool.kind = "rollback" => tool.at \in Int /\ tool.at <= ckpt + 1
    BY DEF ToolsType, TypeOK, KeptPath, ToolOnPath, ToolType
<1>1. CASE Start
    <2>1. pos' = ckpt
        BY <1>1 DEF Start, StartPos, KeptPath, ToolsRun
    <2>2. QED
        BY <1>1, <1>a, <1>b, <2>1 DEF Start, KeptPath
<1>2. CASE Batch
    <2>1. PICK m \in (pos + 1) .. Min2(pos + BATCH, Last) :
              /\ pos' = m
              /\ buf' = buf \cup UNION {RowsOf(b, first /\ b = pos + 1) : b \in (pos + 1) .. m}
              /\ pc' = IF PublishNow(m) THEN "probe" ELSE "batch"
        BY <1>2 DEF Batch
    <2>2. m > pos /\ m \in Int /\ (pos + 1) .. m \subseteq Height /\ first \in BOOLEAN
        BY <1>a, BatchBlocks DEF TypeOK
    <2>3. \A r \in buf' : r.table = "volumes" => r.block \in Swaps
        BY <2>1, <2>2, RowsOfTrades DEF KeptPath
    <2>4. pc = "batch" /\ UNCHANGED ckpt
        BY <1>2 DEF Batch
    <2>5. QED
        BY <1>a, <1>b, <2>1, <2>2, <2>3, <2>4 DEF KeptPath
<1>3. CASE Probe
    BY <1>3, <1>a DEF Probe, KeptPath
<1>4. CASE Insert
    BY <1>4, <1>a DEF Insert, RestOf, KeptPath
<1>5. CASE Checkpoint
    <2>1. /\ pc = "checkpoint" /\ ckpt' = pos /\ pc' = "batch" /\ UNCHANGED <<pos, buf>>
        BY <1>5 DEF Checkpoint, ToolsRun
    <2>2. QED
        BY <1>a, <1>b, <2>1 DEF KeptPath
<1>6. CASE Crash
    BY <1>6, <1>a DEF Crash, KeptPath
<1>7. CASE LateInsert
    BY <1>7, <1>a DEF LateInsert, process, KeptPath
<1>8. QED
    BY <1>a, <1>1, <1>2, <1>3, <1>4, <1>5, <1>6, <1>7 DEF Next, Step

\* What a step of a tool does to the process and the tool's own place.
LEMMA KeptPathTool ==
    ToolsRun /\ ToolsType /\ KeptPath
      /\ (StartTool \/ Rerun \/ ToolCrash \/ ToolStep \/ UNCHANGED <<vars, toolVars>>) => KeptPath'
<1> SUFFICES ASSUME ToolsRun, ToolsType, KeptPath,
                    StartTool \/ Rerun \/ ToolCrash \/ ToolStep \/ UNCHANGED <<vars, toolVars>>
             PROVE  KeptPath'
    OBVIOUS
<1> USE PublicationAssumption
<1>a. tool \in ToolType /\ ToolOnPath
    BY DEF ToolsType, ToolOnPath
<1>1. CASE StartTool
    BY <1>1, StartableOnPath DEF StartTool, vars, MayRun, ToolsRun, KeptPath
<1>2. CASE Rerun
    <2>1. /\ UNCHANGED vars /\ tool' = Again /\ MayRun(tool.kind)
          /\ tool.kind \in {"rollback", "ohlc", "volume"}
        BY <1>2, <1>a DEF Rerun, ToolOnPath, ToolType
    <2>2. tool.kind = "rollback" => tool'.at = tool.at /\ pc = "down"
        BY <2>1 DEF Again, Rollback, NoTool, MayRun, ToolsRun
    <2>3. tool'.kind = tool.kind
        BY <2>1 DEF Again, Rollback, RepairOHLC, RepairVolume, NoTool
    <2>4. QED
        BY <2>1, <2>2, <2>3 DEF vars, KeptPath
<1>3. CASE ToolCrash
    BY <1>3, <1>a DEF ToolCrash, vars, KeptPath, ToolType
<1>4. CASE RollbackCheckpoint
    <2>1. /\ tool.step = "checkpoint" /\ ckpt' = tool.at - 1 /\ tool' = NoTool
          /\ UNCHANGED <<written, process, late, crashes, lates, value, candles, history>>
        BY <1>4 DEF RollbackCheckpoint, RolledBackTo
    <2>2. tool.kind = "rollback" /\ tool.at \in Height /\ pc = "down"
        BY <1>a, <2>1 DEF ToolOnPath, ToolType, VolumeSteps, KeptPath
    <2>3. ckpt' > 0
        BY <2>1, <2>2 DEF Height, ToolsRun
    <2>4. QED
        BY <2>1, <2>2, <2>3 DEF NoTool, process, KeptPath
<1>5. CASE ToolStep /\ ~RollbackCheckpoint
    <2>1. UNCHANGED <<ckpt, process>>
        BY <1>5 DEF ToolStep, RollbackRange, RollbackDelete, ClearTable, FillTable, ReadChunk,
                    DropVolumes, AddVolumes, DropPrices, AddPrices, Delete, vars, process
    <2>2. tool.step # "dead" /\ (tool'.kind = "rollback" => tool.kind = "rollback" /\ tool'.at = tool.at)
        <3>1. CASE RollbackRange
            BY <3>1, <1>a DEF RollbackRange, ToolType
        <3>2. CASE RollbackDelete
            BY <3>2, <1>a DEF RollbackDelete, ToolType, AfterDelete
        <3>3. CASE ClearTable
            BY <3>3, <1>a DEF ClearTable, ToolType
        <3>4. CASE FillTable
            BY <3>4, <1>a DEF FillTable, ToolType, NoTool
        <3>5. CASE ReadChunk
            BY <3>5, <1>a DEF ReadChunk, ToolOnPath, ToolType, RollbackSteps
        <3>6. CASE DropVolumes
            BY <3>6, <1>a DEF DropVolumes, ToolOnPath, ToolType, RollbackSteps
        <3>7. CASE AddVolumes
            BY <3>7, <1>a DEF AddVolumes, ToolOnPath, ToolType, RollbackSteps
        <3>8. CASE DropPrices
            BY <3>8, <1>a DEF DropPrices, ToolOnPath, ToolType, RollbackSteps
        <3>9. CASE AddPrices
            <4>1. tool.step = "addPrices" /\ tool.kind = "volume"
                BY <3>9, <1>a DEF AddPrices, ToolOnPath, ToolType, RollbackSteps
            <4>2. tool' = IF ChunkEnd < tool.to THEN [tool EXCEPT !.step = "read", !.at = ChunkEnd + 1]
                          ELSE [tool EXCEPT !.step = "clear", !.todo = Candles]
                BY <3>9 DEF AddPrices, AfterChunks
            <4>3. tool'.kind = "volume"
                BY <1>a, <4>1, <4>2 DEF ToolType
            <4>4. QED
                BY <4>1, <4>3
        <3>10. QED
            BY <1>5, <3>1, <3>2, <3>3, <3>4, <3>5, <3>6, <3>7, <3>8, <3>9 DEF ToolStep
    <2>3. QED
        BY <2>1, <2>2 DEF process, KeptPath
<1>6. CASE UNCHANGED <<vars, toolVars>>
    BY <1>6 DEF vars, toolVars, KeptPath
<1>7. QED
    BY <1>1, <1>2, <1>3, <1>4, <1>5, <1>6

\* What a tool may have taken out and not put back.
FirstOut ==
    IF tool.step = "dead" THEN tool.from
    ELSE IF tool.step \in {"read", "dropVolumes", "addVolumes"} THEN tool.at
    ELSE IF tool.step \in {"dropPrices", "addPrices"} THEN ChunkEnd + 1
    ELSE tool.to + 1
VolumesOut == {r \in Rows : r.table = "volumes" /\ FirstOut <= r.block /\ r.block <= tool.to}
Gone ==
    IF tool.kind = "rollback" THEN {r \in Rows : r.block >= tool.at}
    ELSE IF tool.kind = "volume"
    THEN VolumesOut \cup (IF tool.step = "addPrices" THEN Corrected ELSE {})
    ELSE {}

\* What is owed is stored, still on its way, or taken out by a tool that will put it
\* back; after a death that no second run makes good, nothing is said.
KeptRows ==
    ~torn =>
        /\ \A b \in Height : b <= ckpt => Owed(b) \subseteq Stored \cup Gone
        /\ pc # "down" => \A b \in Height : b <= pos => Owed(b) \subseteq Stored \cup buf \cup Gone
        /\ pc = "insert" => chunk \subseteq fresh \cup Stored \cup Gone

LEMMA KeptRowsInit == ToolsRun /\ ToolsInit => KeptRows
BY PublicationAssumption DEF ToolsRun, ToolsInit, Init, KeptRows, Height

LEMMA KeptRowsPipeline ==
    ToolsRun /\ ToolsType /\ KeptPath /\ KeptRows /\ Pipeline => KeptRows'
<1> SUFFICES ASSUME ToolsRun, ToolsType, KeptPath, KeptRows, Pipeline, ~torn' PROVE KeptRows'
    BY DEF KeptRows
<1> USE PublicationAssumption
<1>a. TypeOK /\ Next /\ [Next]_vars /\ UNCHANGED <<tool, torn>> /\ ~torn
    BY DEF Pipeline, ToolsType
<1>b. Gone' = Gone
    BY <1>a DEF Gone, VolumesOut, FirstOut, ChunkEnd, InChunk, Corrected
<1>c. Stored \subseteq Stored'
    BY <1>a, StoredStep
<1>1. CASE Start
    <2>1. pos' = ckpt /\ UNCHANGED <<written, ckpt>> /\ pc' = "batch"
        BY <1>1 DEF Start, StartPos, KeptPath, ToolsRun
    <2>2. QED
        BY <1>a, <1>b, <1>c, <2>1 DEF KeptRows
<1>2. CASE Batch
    <2>1. PICK m \in (pos + 1) .. Min2(pos + BATCH, Last) :
              /\ pos' = m
              /\ buf' = buf \cup UNION {RowsOf(b, first /\ b = pos + 1) : b \in (pos + 1) .. m}
              /\ pc' = IF PublishNow(m) THEN "probe" ELSE "batch"
        BY <1>2 DEF Batch
    <2>2. ASSUME NEW b \in Height, b <= m
          PROVE  Owed(b) \subseteq Stored' \cup buf' \cup Gone'
        <3>1. CASE b <= pos
            BY <1>2, <1>a, <1>b, <1>c, <2>1, <3>1 DEF Batch, KeptRows
        <3>2. CASE ~(b <= pos)
            <4>1. b \in (pos + 1) .. m /\ (first /\ b = pos + 1) \in BOOLEAN
                BY <1>a, <2>2, <3>2, BatchBlocks DEF TypeOK, Height
            <4>2. Owed(b) \subseteq RowsOf(b, first /\ b = pos + 1)
                BY <4>1, RowsOfFacts
            <4>3. QED
                BY <2>1, <4>1, <4>2
        <3>3. QED
            BY <3>1, <3>2
    <2>3. UNCHANGED ckpt /\ pc' \in {"probe", "batch"}
        BY <1>2, <2>1 DEF Batch
    <2>4. QED
        BY <1>a, <1>b, <1>c, <2>1, <2>2, <2>3 DEF KeptRows
<1>3. CASE Probe
    <2>1. UNCHANGED <<written, ckpt, pos, buf>> /\ pc = "probe" /\ pc' = "insert" /\ Stored' = Stored
        BY <1>3 DEF Probe, Stored
    <2>2. chunk' \subseteq fresh' \cup Stored'
        BY <1>3, <2>1 DEF Probe, Unseen
    <2>3. QED
        BY <1>a, <1>b, <2>1, <2>2 DEF KeptRows
<1>4. CASE Insert
    <2>1. /\ Stored' = Stored \cup fresh
          /\ buf' = buf \ chunk
          /\ pc' \in {"checkpoint", "probe"}
          /\ pc = "insert"
          /\ UNCHANGED <<ckpt, pos>>
        BY <1>4, <1>a, StoredStep DEF Insert, RestOf
    <2>2. Stored \cup buf \cup Gone \subseteq Stored' \cup buf' \cup Gone'
        BY <1>a, <1>b, <2>1 DEF KeptRows
    <2>3. QED
        BY <1>a, <1>b, <1>c, <2>1, <2>2 DEF KeptRows
<1>5. CASE Checkpoint
    <2>1. /\ pc = "checkpoint" /\ ckpt' = pos /\ pc' = "batch" /\ UNCHANGED <<written, pos, buf>>
          /\ Stored' = Stored /\ buf = {}
        BY <1>5 DEF Checkpoint, ToolsRun, Stored, KeptPath
    <2>2. QED
        BY <1>a, <1>b, <2>1 DEF KeptRows
<1>6. CASE Crash
    <2>1. pc' = "down" /\ UNCHANGED ckpt
        BY <1>6 DEF Crash
    <2>2. QED
        BY <1>a, <1>b, <1>c, <2>1 DEF KeptRows
<1>7. CASE LateInsert
    <2>1. UNCHANGED <<ckpt, pc, pos, buf, chunk, fresh>>
        BY <1>7 DEF LateInsert, process
    <2>2. QED
        BY <1>a, <1>b, <1>c, <2>1 DEF KeptRows
<1>8. QED
    BY <1>a, <1>1, <1>2, <1>3, <1>4, <1>5, <1>6, <1>7 DEF Next, Step

\* Volumes are only owed, and only on their way, for blocks with a swap.
Tradeable == {r \in Rows : r.table = "volumes" => r.block \in Swaps}

LEMMA OwedTradeable == \A b \in Height : Owed(b) \subseteq Tradeable
<1> SUFFICES ASSUME NEW b \in Height, NEW r \in Owed(b) PROVE r \in Tradeable
    OBVIOUS
<1>1. r \in Rows
    BY RowsOfFacts
<1>2. QED
    BY <1>1 DEF Owed, Tradeable, BlockRow, PriceRows, VolumeRows

\* A step of a tool that loses nothing keeps what is owed.
LEMMA KeptByTool ==
    ASSUME ToolsType, KeptPath, KeptRows, UNCHANGED <<ckpt, process>>, ~torn' => ~torn,
           ~torn' => \A r \in Tradeable : r \in Stored \cup Gone => r \in Stored' \cup Gone'
    PROVE  KeptRows'
<1> SUFFICES ASSUME ~torn' PROVE KeptRows'
    BY DEF KeptRows
<1>1. UNCHANGED <<ckpt, pc, pos, buf, chunk, fresh>>
    BY DEF process
<1>2. \A r \in Tradeable : r \in Stored \cup Gone => r \in Stored' \cup Gone'
    OBVIOUS
<1>3. buf \subseteq Tradeable /\ chunk \subseteq buf
    BY DEF ToolsType, TypeOK, KeptPath, Tradeable
<1>4. \A b \in Height : b <= ckpt' => Owed(b) \subseteq Stored' \cup Gone'
    <2> SUFFICES ASSUME NEW b \in Height, b <= ckpt, NEW r \in Owed(b) PROVE r \in Stored' \cup Gone'
        BY <1>1
    <2>1. r \in Tradeable /\ r \in Stored \cup Gone
        BY OwedTradeable DEF KeptRows
    <2>2. QED
        BY <1>2, <2>1
<1>5. ASSUME pc' # "down", NEW b \in Height, b <= pos', NEW r \in Owed(b)
      PROVE  r \in Stored' \cup buf' \cup Gone'
    <2>1. r \in Tradeable /\ r \in Stored \cup buf \cup Gone
        BY <1>1, <1>5, OwedTradeable DEF KeptRows
    <2>2. QED
        BY <1>1, <1>2, <2>1
<1>6. ASSUME pc' = "insert", NEW r \in chunk'
      PROVE  r \in fresh' \cup Stored' \cup Gone'
    <2>1. r \in Tradeable /\ r \in fresh \cup Stored \cup Gone
        BY <1>1, <1>3, <1>6 DEF KeptRows
    <2>2. QED
        BY <1>1, <1>2, <2>1
<1>7. QED
    BY <1>4, <1>5, <1>6 DEF KeptRows

\* A tool that works on goes on to miss what it missed.
LEMMA GoneWhile ==
    ASSUME ToolOnPath
    PROVE  /\ tool.kind \in {"none", "ohlc"} => Gone = {}
           /\ tool.kind = "volume" /\ tool.step \in {"clear", "rebuild"} => Gone = {}
           /\ Gone \subseteq Rows
<1>1. tool.to \in Int
    BY ChunkEndFacts
<1>2. \A r \in Rows : r.block \in Int
    BY PriceRowsFacts, PublicationAssumption DEF Height
<1>3. QED
    BY <1>1, <1>2, ChunkRows DEF Gone, VolumesOut, FirstOut

LEMMA KeptRowsTool ==
    ToolsRun /\ ToolsType /\ ToolsType' /\ KeptPath /\ KeptRows
      /\ (StartTool \/ Rerun \/ ToolCrash \/ ToolStep \/ UNCHANGED <<vars, toolVars>>) => KeptRows'
<1> SUFFICES ASSUME ToolsRun, ToolsType, ToolsType', KeptPath, KeptRows,
                    StartTool \/ Rerun \/ ToolCrash \/ ToolStep \/ UNCHANGED <<vars, toolVars>>
             PROVE  KeptRows'
    OBVIOUS
<1> USE PublicationAssumption
<1>a. tool \in ToolType /\ ToolOnPath /\ TypeOK
    BY DEF ToolsType, ToolOnPath
<1>b. /\ tool.at \in Int /\ tool.from \in Int /\ tool.to \in Int
      /\ tool'.at \in Int /\ tool'.from \in Int /\ tool'.to \in Int
      /\ ChunkEnd \in Int /\ ChunkEnd <= tool.to
      /\ tool.at <= tool.to \/ ChunkEnd < tool.to => tool.at <= ChunkEnd
    <2>1. tool' \in ToolType
        BY DEF ToolsType, ToolOnPath
    <2>2. QED
        BY <1>a, <2>1, ChunkEndFacts DEF ToolType
<1>c. \A r \in Rows : r.block \in Int
    BY PriceRowsFacts DEF Height
<1>d. UNCHANGED written => Stored' = Stored
    BY DEF Stored
<1>1. CASE StartTool
    <2>1. Gone = {} /\ UNCHANGED <<vars, torn>>
        BY <1>1, <1>a, GoneWhile DEF StartTool
    <2>2. QED
        BY <1>d, <2>1, KeptByTool DEF vars, process
<1>2. CASE Rerun
    <2>1. /\ UNCHANGED vars /\ UNCHANGED torn /\ tool' = Again /\ tool.step = "dead"
          /\ tool.kind \in {"rollback", "ohlc", "volume"}
        BY <1>2, <1>a DEF Rerun, ToolOnPath, ToolType, history
    <2>2. Gone \subseteq Gone'
        <3>1. CASE tool.kind = "ohlc"
            BY <1>a, <3>1, GoneWhile
        <3>2. CASE tool.kind = "rollback"
            <4>1. tool'.kind = "rollback" /\ tool'.at = tool.at
                BY <2>1, <3>2 DEF Again, Rollback, NoTool
            <4>2. QED
                BY <3>2, <4>1 DEF Gone
        <3>3. CASE tool.kind = "volume"
            <4>1. tool' = [kind |-> "volume", step |-> "read", at |-> tool.from, from |-> tool.from,
                           to |-> SafeTip, todo |-> {}, filter |-> tool.filter]
                BY <2>1, <3>3 DEF Again, RepairVolume, NoTool
            <4>2. tool.to <= SafeTip /\ SafeTip \in Int
                BY <1>a, <3>3, SafeTipType DEF ToolOnPath
            <4>3. VolumesOut \subseteq VolumesOut'
                BY <1>b, <1>c, <2>1, <4>1, <4>2 DEF VolumesOut, FirstOut
            <4>4. Gone = VolumesOut /\ Gone' = VolumesOut'
                BY <2>1, <3>3, <4>1 DEF Gone
            <4>5. QED
                BY <4>3, <4>4
        <3>4. QED
            BY <2>1, <3>1, <3>2, <3>3
    <2>3. QED
        BY <1>d, <2>1, <2>2, KeptByTool DEF vars, process
<1>3. CASE ToolCrash
    <2>1. /\ UNCHANGED vars /\ tool' = [tool EXCEPT !.step = "dead"] /\ torn' = (torn \/ Tears)
          /\ tool.step # "idle" /\ tool.step # "dead"
        BY <1>3 DEF ToolCrash
    <2>2. ~Tears => Gone \subseteq Gone'
        <3>1. CASE tool.kind \in {"ohlc", "none"}
            BY <1>a, <3>1, GoneWhile
        <3>2. CASE tool.kind = "rollback"
            <4>1. tool'.kind = "rollback" /\ tool'.at = tool.at
                BY <1>a, <2>1, <3>2 DEF ToolType
            <4>2. QED
                BY <3>2, <4>1 DEF Gone
        <3>3. CASE tool.kind = "volume" /\ tool.step # "addPrices"
            <4>1. /\ tool'.kind = "volume" /\ tool'.step = "dead" /\ tool'.from = tool.from
                  /\ tool'.to = tool.to
                BY <1>a, <2>1, <3>3 DEF ToolType
            <4>2. tool.from <= tool.at /\ tool.step \in VolumeSteps
                BY <1>a, <3>3 DEF ToolOnPath
            <4>3. FirstOut' = tool.from
                BY <4>1 DEF FirstOut
            <4>4. FirstOut \in Int /\ (tool.from <= FirstOut \/ FirstOut > tool.to)
                BY <1>b, <2>1, <4>2 DEF FirstOut
            <4>5. VolumesOut \subseteq VolumesOut'
                BY <1>b, <1>c, <4>1, <4>3, <4>4 DEF VolumesOut
            <4>6. QED
                BY <3>3, <4>1, <4>5 DEF Gone
        <3>4. QED
            BY <1>a, <3>1, <3>2, <3>3 DEF ToolType, Tears
    <2>3. QED
        BY <1>d, <2>1, <2>2, KeptByTool DEF vars, process
<1>4. CASE RollbackRange
    <2>1. /\ UNCHANGED vars /\ UNCHANGED torn /\ tool.step = "range"
          /\ tool'.kind = tool.kind /\ tool'.at = tool.at
        BY <1>4, <1>a DEF RollbackRange, ToolType, history
    <2>2. tool.kind = "rollback"
        BY <1>a, <2>1 DEF ToolOnPath, ToolType, VolumeSteps
    <2>3. Gone' = Gone
        BY <2>1, <2>2 DEF Gone
    <2>4. QED
        BY <1>d, <2>1, <2>3, KeptByTool DEF vars, process
<1>5. CASE RollbackDelete
    <2>1. /\ Delete(From(tool.step, tool.at)) /\ tool.kind = "rollback"
          /\ tool'.kind = "rollback" /\ tool'.at = tool.at
        BY <1>5, <1>a DEF RollbackDelete, ToolType
    <2>2. Gone' = Gone
        BY <2>1 DEF Gone
    <2>3. Stored' = Stored \ From(tool.step, tool.at)
        BY <1>a, <2>1, DeleteRemoves
    <2>4. From(tool.step, tool.at) \subseteq Gone
        BY <2>1 DEF From, Gone
    <2>5. UNCHANGED <<ckpt, process>> /\ UNCHANGED torn
        BY <2>1 DEF Delete, history
    <2>6. QED
        BY <2>2, <2>3, <2>4, <2>5, KeptByTool
<1>6. CASE RollbackCheckpoint
    <2>1. /\ tool.step = "checkpoint" /\ ckpt' = tool.at - 1 /\ tool' = NoTool
          /\ UNCHANGED <<written, process, torn>>
        BY <1>6 DEF RollbackCheckpoint, RolledBackTo, history
    <2>2. tool.kind = "rollback" /\ pc = "down" /\ tool.at <= ckpt + 1 /\ ckpt \in Int
        BY <1>a, <2>1 DEF ToolOnPath, ToolType, VolumeSteps, KeptPath, TypeOK
    <2>3. ASSUME ~torn, NEW b \in Height, b <= ckpt', NEW r \in Owed(b)
          PROVE  r \in Stored'
        <3>1. b \in Int /\ b <= ckpt /\ b < tool.at
            BY <1>b, <2>1, <2>2, <2>3 DEF Height
        <3>2. r \in Stored \cup Gone
            BY <2>3, <3>1 DEF KeptRows
        <3>3. r.block = b
            BY DEF Owed, BlockRow, PriceRows, VolumeRows
        <3>4. r \notin Gone
            BY <1>b, <2>2, <3>1, <3>3 DEF Gone
        <3>5. QED
            BY <1>d, <2>1, <3>2, <3>4
    <2>4. QED
        BY <2>1, <2>2, <2>3 DEF KeptRows, process
<1>7. CASE ClearTable
    <2>1. UNCHANGED vars /\ UNCHANGED torn /\ tool.step = "clear"
        BY <1>7 DEF ClearTable
    <2>2. PICK t \in tool.todo :
            tool' = IF tool.todo # {t} THEN [tool EXCEPT !.todo = @ \ {t}]
                    ELSE [tool EXCEPT !.step = IF tool.kind = "rollback" THEN "restore" ELSE "rebuild",
                                      !.todo = Candles]
        BY <1>7 DEF ClearTable
    <2>3. tool'.kind = tool.kind /\ tool'.at = tool.at
        BY <1>a, <2>2 DEF ToolType
    <2>4. Gone \subseteq Gone'
        <3>1. CASE tool.kind = "rollback"
            BY <2>3, <3>1 DEF Gone
        <3>2. CASE tool.kind # "rollback"
            BY <1>a, <2>1, <3>2, GoneWhile DEF ToolType
        <3>3. QED
            BY <3>1, <3>2
    <2>5. QED
        BY <1>d, <2>1, <2>4, KeptByTool DEF vars, process
<1>8. CASE FillTable
    <2>1. UNCHANGED vars /\ UNCHANGED torn /\ tool.step \in {"restore", "rebuild"}
        BY <1>8 DEF FillTable, history
    <2>2. PICK t \in tool.todo :
            tool' = IF tool.todo # {t} THEN [tool EXCEPT !.todo = @ \ {t}]
                    ELSE IF tool.step = "restore" THEN [tool EXCEPT !.step = "checkpoint"]
                    ELSE NoTool
        BY <1>8 DEF FillTable
    <2>3. Gone \subseteq Gone'
        <3>1. CASE tool.kind = "rollback"
            <4>1. tool.step = "restore"
                BY <1>a, <2>1, <3>1 DEF ToolOnPath, RollbackSteps
            <4>2. tool'.kind = tool.kind /\ tool'.at = tool.at
                BY <1>a, <2>2, <4>1 DEF ToolType
            <4>3. QED
                BY <3>1, <4>2 DEF Gone
        <3>2. CASE tool.kind # "rollback"
            <4>1. tool.kind = "volume" => tool.step = "rebuild"
                BY <1>a, <2>1 DEF ToolOnPath, VolumeSteps
            <4>2. QED
                BY <1>a, <3>2, <4>1, GoneWhile DEF ToolType
        <3>3. QED
            BY <3>1, <3>2
    <2>4. QED
        BY <1>d, <2>1, <2>3, KeptByTool DEF vars, process
<1>9. CASE ReadChunk
    <2>1. /\ UNCHANGED vars /\ UNCHANGED torn /\ tool.step = "read"
          /\ tool' = [tool EXCEPT !.step = IF Refused THEN "dead" ELSE "dropVolumes"]
        BY <1>9 DEF ReadChunk, history
    <2>2. tool.kind = "volume" /\ tool.from <= tool.at
        BY <1>a, <2>1 DEF ToolOnPath, ToolType, RollbackSteps
    <2>3. /\ tool'.kind = "volume" /\ tool'.step \in {"dead", "dropVolumes"}
          /\ tool'.at = tool.at /\ tool'.from = tool.from /\ tool'.to = tool.to
        BY <1>a, <2>1, <2>2 DEF ToolType
    <2>4. FirstOut = tool.at /\ FirstOut' \in {tool.at, tool.from}
        BY <2>1, <2>3 DEF FirstOut
    <2>5. VolumesOut \subseteq VolumesOut'
        BY <1>b, <1>c, <2>2, <2>3, <2>4 DEF VolumesOut
    <2>6. Gone \subseteq Gone'
        BY <2>1, <2>2, <2>3, <2>5 DEF Gone
    <2>7. QED
        BY <1>d, <2>1, <2>6, KeptByTool DEF vars, process
<1>10. CASE DropVolumes
    <2>1. PICK S : Delete(S) /\ S = {r \in Rows : r.table = "volumes" /\ r.block \in InChunk}
        BY <1>10 DEF DropVolumes
    <2>2. tool.step = "dropVolumes" /\ tool' = [tool EXCEPT !.step = "addVolumes"]
        BY <1>10 DEF DropVolumes
    <2>3. tool.kind = "volume"
        BY <1>a, <2>2 DEF ToolOnPath, ToolType, RollbackSteps
    <2>4. /\ tool'.kind = "volume" /\ tool'.step = "addVolumes" /\ tool'.at = tool.at /\ tool'.to = tool.to
        BY <1>a, <2>2, <2>3 DEF ToolType
    <2>5. Gone = VolumesOut /\ Gone' = VolumesOut' /\ VolumesOut' = VolumesOut
        BY <2>2, <2>3, <2>4 DEF Gone, VolumesOut, FirstOut
    <2>6. S \subseteq VolumesOut
        BY <1>b, <1>c, <2>1, <2>2 DEF VolumesOut, FirstOut, InChunk
    <2>7. Stored' = Stored \ S
        BY <1>a, <2>1, DeleteRemoves
    <2>8. UNCHANGED <<ckpt, process>> /\ UNCHANGED torn
        BY <2>1 DEF Delete, history
    <2>9. QED
        BY <2>5, <2>6, <2>7, <2>8, KeptByTool
<1>11. CASE AddVolumes
    <2>1. /\ tool.step = "addVolumes" /\ tool' = [tool EXCEPT !.step = "dropPrices"]
          /\ UNCHANGED <<ckpt, process>> /\ UNCHANGED torn
          /\ written' = InsertInto(written, UNION {VolumeRows(b) : b \in Swaps \cap InChunk})
        BY <1>11 DEF AddVolumes, history
    <2>2. tool.kind = "volume"
        BY <1>a, <2>1 DEF ToolOnPath, ToolType, RollbackSteps
    <2>3. /\ tool'.kind = "volume" /\ tool'.step = "dropPrices" /\ tool'.at = tool.at /\ tool'.to = tool.to
        BY <1>a, <2>1, <2>2 DEF ToolType
    <2>4. Stored' = Stored \cup UNION {VolumeRows(b) : b \in Swaps \cap InChunk}
        BY <1>a, <2>1, ChunkRows, InsertAdds
    <2>5. FirstOut = tool.at /\ FirstOut' = ChunkEnd + 1
        BY <2>1, <2>3 DEF FirstOut, ChunkEnd
    <2>6. ASSUME NEW r \in Tradeable, r \in Gone
          PROVE  r \in Stored' \cup Gone'
        <3>1. r \in Rows /\ r.table = "volumes" /\ tool.at <= r.block /\ r.block <= tool.to /\ r.block \in Swaps
            BY <2>1, <2>2, <2>5, <2>6 DEF Gone, VolumesOut, Tradeable
        <3>2. CASE r.block <= ChunkEnd
            <4>1. r.block \in Swaps \cap InChunk
                BY <1>b, <1>c, <3>1, <3>2 DEF InChunk
            <4>2. QED
                BY <2>4, <3>1, <4>1, ChunkRows
        <3>3. CASE ~(r.block <= ChunkEnd)
            <4>1. r \in VolumesOut'
                BY <1>b, <1>c, <2>3, <2>5, <3>1, <3>3 DEF VolumesOut
            <4>2. QED
                BY <2>3, <4>1 DEF Gone
        <3>4. QED
            BY <3>2, <3>3
    <2>7. QED
        BY <2>1, <2>4, <2>6, KeptByTool
<1>12. CASE DropPrices
    <2>1. /\ tool.step = "dropPrices" /\ tool' = [tool EXCEPT !.step = "addPrices"]
          /\ Delete(Corrected)
        BY <1>12 DEF DropPrices
    <2>2. tool.kind = "volume"
        BY <1>a, <2>1 DEF ToolOnPath, ToolType, RollbackSteps
    <2>3. /\ tool'.kind = "volume" /\ tool'.step = "addPrices" /\ tool'.at = tool.at /\ tool'.to = tool.to
        BY <1>a, <2>1, <2>2 DEF ToolType
    <2>4. Gone = VolumesOut /\ Gone' = VolumesOut \cup Corrected
        BY <2>1, <2>2, <2>3 DEF Gone, VolumesOut, FirstOut, ChunkEnd, Corrected, InChunk
    <2>5. Stored' = Stored \ Corrected /\ UNCHANGED <<ckpt, process>> /\ UNCHANGED torn
        BY <1>a, <2>1, DeleteRemoves DEF Delete, history
    <2>6. QED
        BY <2>4, <2>5, KeptByTool
<1>13. CASE AddPrices
    <2>1. /\ tool.step = "addPrices" /\ written' = InsertInto(written, Corrected)
          /\ tool' = IF ChunkEnd < tool.to THEN [tool EXCEPT !.step = "read", !.at = ChunkEnd + 1]
                     ELSE [tool EXCEPT !.step = "clear", !.todo = Candles]
          /\ UNCHANGED <<ckpt, process>> /\ UNCHANGED torn
        BY <1>13 DEF AddPrices, AfterChunks, history
    <2>2. tool.kind = "volume"
        BY <1>a, <2>1 DEF ToolOnPath, ToolType, RollbackSteps
    <2>3. Stored' = Stored \cup Corrected
        BY <1>a, <2>1, ChunkRows, InsertAdds
    <2>4. Gone = VolumesOut \cup Corrected /\ FirstOut = ChunkEnd + 1
        BY <2>1, <2>2 DEF Gone, FirstOut
    <2>5. VolumesOut \subseteq Gone'
        <3>1. CASE ChunkEnd < tool.to
            <4>1. tool'.kind = "volume" /\ tool'.step = "read" /\ tool'.at = ChunkEnd + 1 /\ tool'.to = tool.to
                BY <1>a, <2>1, <2>2, <3>1 DEF ToolType
            <4>2. VolumesOut' = VolumesOut
                BY <2>4, <4>1 DEF VolumesOut, FirstOut
            <4>3. QED
                BY <4>1, <4>2 DEF Gone
        <3>2. CASE ~(ChunkEnd < tool.to)
            BY <1>b, <1>c, <2>4, <3>2 DEF VolumesOut
        <3>3. QED
            BY <3>1, <3>2
    <2>6. QED
        BY <2>1, <2>3, <2>4, <2>5, KeptByTool
<1>14. CASE UNCHANGED <<vars, toolVars>>
    <2>1. UNCHANGED vars /\ UNCHANGED <<tool, torn>>
        BY <1>14 DEF toolVars
    <2>2. Gone' = Gone
        BY <2>1 DEF Gone, VolumesOut, FirstOut, ChunkEnd, InChunk, Corrected
    <2>3. QED
        BY <1>d, <2>1, <2>2, KeptByTool DEF vars, process
<1>15. QED
    BY <1>1, <1>2, <1>3, <1>4, <1>5, <1>6, <1>7, <1>8, <1>9, <1>10, <1>11, <1>12, <1>13, <1>14
    DEF ToolStep

\* A rollback that is through has moved the checkpoint below all it deleted, and a repair
\* has put back all it took out, beside a live pipeline and through deaths of both at
\* any statement; after a death where no second run can help, nothing is promised
\* (rollbackToBlock in src/cli.ts, repairChunk in repair-volume.ts).
THEOREM ToolsKeepCheckpoint ==
    ASSUME ToolsRun
    PROVE  ToolsSpec => []CheckpointKept
<1>1. ToolsInit => ToolsType /\ KeptPath /\ KeptRows
    BY ToolsTypeInit, KeptPathInit, KeptRowsInit
<1>2. ToolsType /\ KeptPath /\ KeptRows /\ [ToolsNext]_<<vars, toolVars>> =>
          ToolsType' /\ KeptPath' /\ KeptRows'
    BY ToolsTypeStep, KeptPathPipeline, KeptPathTool, KeptRowsPipeline, KeptRowsTool DEF ToolsNext
<1>3. ToolsType /\ KeptRows => CheckpointKept
    BY GoneWhile DEF ToolsType, KeptRows, CheckpointKept, Settled, CheckpointCovers
<1>4. QED
    BY <1>1, <1>2, <1>3, PTL DEF ToolsSpec

----------------------------------------------------------------------------
(* The order of the deletes and the inserts, of tools and pipeline together, as *)
(* long as no insert outlives its client.                                      *)

\* The tables a rollback has been through.
RolledTables ==
    IF tool.kind # "rollback" THEN {}
    ELSE IF tool.step = "volumes" THEN {"prices"}
    ELSE IF tool.step = "blocks" THEN {"prices", "volumes"}
    ELSE IF tool.step \in {"upgrades", "clear", "restore", "checkpoint"}
    THEN {"prices", "volumes", "blocks"}
    ELSE {}
RolledBack == \A r \in Stored : r.table \in RolledTables => r.block < tool.at

\* The blocks whose volumes and prices a repair takes out and puts back are stored.
ChunkHasBlocks ==
    tool.step \in {"dropVolumes", "addVolumes", "dropPrices", "addPrices"} =>
        \A b \in Swaps \cap InChunk : Assets # {} => BlockRow(b) \in Stored

VisibleInv ==
    /\ pc = "down" => buf = {}
    /\ lates = 0 =>
        /\ late = {}
        /\ VisiblePrices
        /\ \A r \in OfBlock : r \in buf => BlockRow(r.block) \in Stored \cup buf
        /\ pc = "insert" => \A r \in chunk :
              /\ r \in OfBlock => BlockRow(r.block) \in Stored
              /\ r.table = "blocks" => r \in fresh \cup Stored
        /\ RolledBack
        /\ ChunkHasBlocks

LEMMA VisibleInit == ToolsInit => VisibleInv
BY DEF ToolsInit, Init, NoTool, VisibleInv, VisiblePrices, PricesHaveBlocks, Stored, RolledBack,
       RolledTables, ChunkHasBlocks

LEMMA VisiblePipeline ==
    ToolsRun /\ ToolsType /\ VisibleInv /\ Pipeline => VisibleInv'
<1> SUFFICES ASSUME ToolsRun, ToolsType, VisibleInv, Pipeline PROVE VisibleInv'
    OBVIOUS
<1> USE PublicationAssumption
<1>a. /\ TypeOK /\ Next /\ [Next]_vars /\ UNCHANGED <<tool, torn>> /\ lates \in Nat
      /\ (tool.kind = "rollback" /\ tool.step # "dead" => pc' = "down")
    BY DEF Pipeline, ToolsType, TypeOK, Paused, ToolsRun
<1>b. Stored \subseteq Stored'
    BY <1>a, StoredStep
<1>c. ChunkHasBlocks => ChunkHasBlocks'
    BY <1>a, <1>b DEF ChunkHasBlocks, InChunk, ChunkEnd
<1>d. Stored' = Stored /\ RolledBack => RolledBack'
    BY <1>a DEF RolledBack, RolledTables
<1>e. UNCHANGED written => Stored' = Stored
    BY DEF Stored
<1>f. pc' # "down" => RolledTables' = {}
    BY <1>a DEF RolledTables
<1>1. CASE Start
    <2>1. UNCHANGED <<written, late, lates>> /\ buf' = {} /\ pc' = "batch"
        BY <1>1 DEF Start
    <2>2. QED
        BY <1>c, <1>d, <1>e, <2>1 DEF VisibleInv, VisiblePrices, PricesHaveBlocks
<1>2. CASE Batch
    <2>1. PICK m \in (pos + 1) .. Min2(pos + BATCH, Last) :
              /\ buf' = buf \cup UNION {RowsOf(b, first /\ b = pos + 1) : b \in (pos + 1) .. m}
              /\ pc' = IF PublishNow(m) THEN "probe" ELSE "batch"
        BY <1>2 DEF Batch
    <2>2. ASSUME lates = 0, NEW r \in OfBlock, r \in buf'
          PROVE  BlockRow(r.block) \in Stored' \cup buf'
        <3>1. CASE r \in buf
            BY <1>b, <2>1, <2>2, <3>1 DEF VisibleInv
        <3>2. CASE r \notin buf
            <4>1. PICK b \in (pos + 1) .. m : r \in RowsOf(b, first /\ b = pos + 1)
                BY <2>1, <2>2, <3>2
            <4>2. b \in Height /\ (first /\ b = pos + 1) \in BOOLEAN
                BY <1>a, BatchBlocks DEF TypeOK
            <4>3. BlockRow(r.block) \in RowsOf(b, first /\ b = pos + 1)
                BY <4>1, <4>2, RowsOfHaveBlocks DEF OfBlock
            <4>4. QED
                BY <2>1, <4>3
        <3>3. QED
            BY <3>1, <3>2
    <2>3. pc' \in {"probe", "batch"} /\ UNCHANGED <<written, late, lates>>
        BY <1>2, <2>1 DEF Batch
    <2>4. QED
        BY <1>c, <1>d, <1>e, <2>2, <2>3 DEF VisibleInv, VisiblePrices, PricesHaveBlocks
<1>3. CASE Probe
    <2>1. PICK S \in SUBSET buf : IsChunk(S) /\ chunk' = S /\ fresh' = Unseen(S)
        BY <1>3 DEF Probe
    <2>2. UNCHANGED <<written, buf, late, lates>> /\ pc' = "insert" /\ pc = "probe"
        BY <1>3 DEF Probe
    <2>3. lates = 0 => \A r \in OfBlock : r \in S => BlockRow(r.block) \in Stored
        BY <2>1, ChunkAfterBlocks DEF VisibleInv
    <2>4. \A r \in chunk' : r \in fresh' \cup Stored'
        BY <1>e, <2>1, <2>2 DEF Unseen
    <2>5. QED
        BY <1>c, <1>d, <1>e, <2>1, <2>2, <2>3, <2>4 DEF VisibleInv, VisiblePrices, PricesHaveBlocks
<1>4. CASE Insert
    <2>1. /\ Stored' = Stored \cup fresh /\ fresh \subseteq chunk /\ chunk \subseteq buf /\ buf \subseteq Rows
          /\ buf' = buf \ chunk /\ pc' \in {"checkpoint", "probe"} /\ UNCHANGED <<late, lates>>
          /\ pc = "insert"
        BY <1>4, <1>a, StoredStep DEF Insert, RestOf, TypeOK
    <2>2. lates = 0 => VisiblePrices'
        <3> SUFFICES ASSUME lates = 0, NEW r \in Stored', r.table \in {"prices", "volumes"}
                     PROVE  BlockRow(r.block) \in Stored'
            BY DEF VisiblePrices, PricesHaveBlocks
        <3>1. CASE r \in Stored
            BY <2>1, <3>1 DEF VisibleInv, VisiblePrices, PricesHaveBlocks
        <3>2. CASE r \in fresh
            BY <2>1, <3>2 DEF VisibleInv, OfBlock
        <3>3. QED
            BY <2>1, <3>1, <3>2
    <2>3. ASSUME lates = 0, NEW r \in OfBlock, r \in buf'
          PROVE  BlockRow(r.block) \in Stored' \cup buf'
        <3>1. BlockRow(r.block) \in Stored \cup buf
            BY <2>1, <2>3 DEF VisibleInv
        <3>2. BlockRow(r.block) \in chunk => BlockRow(r.block) \in fresh \cup Stored
            BY <2>1, <2>3 DEF VisibleInv, BlockRow
        <3>3. QED
            BY <2>1, <3>1, <3>2
    <2>4. RolledBack'
        BY <1>f, <2>1 DEF RolledBack
    <2>5. QED
        BY <1>c, <2>1, <2>2, <2>3, <2>4 DEF VisibleInv
<1>5. CASE Checkpoint
    <2>1. UNCHANGED <<written, buf, late, lates>> /\ pc' = "batch"
        BY <1>5 DEF Checkpoint, ToolsRun
    <2>2. QED
        BY <1>c, <1>d, <1>e, <2>1 DEF VisibleInv, VisiblePrices, PricesHaveBlocks
<1>6. CASE Crash
    <2>1. /\ UNCHANGED written /\ buf' = {} /\ pc' = "down"
          /\ UNCHANGED <<late, lates>> \/ lates' = lates + 1
        BY <1>6 DEF Crash
    <2>2. lates' = 0 => UNCHANGED <<late, lates>>
        BY <1>a, <2>1
    <2>3. QED
        BY <1>c, <1>d, <1>e, <2>1, <2>2 DEF VisibleInv, VisiblePrices, PricesHaveBlocks
<1>7. CASE LateInsert
    <2>1. late # {} /\ UNCHANGED lates /\ UNCHANGED <<pc, buf>>
        BY <1>7 DEF LateInsert, process
    <2>2. QED
        BY <2>1 DEF VisibleInv
<1>8. QED
    BY <1>a, <1>1, <1>2, <1>3, <1>4, <1>5, <1>6, <1>7 DEF Next, Step

\* A statement of a tool that lets go of no block row, and adds no price or volume of a
\* block without one.
LEMMA VisibleByTool ==
    ASSUME ToolsType, VisibleInv, UNCHANGED <<process, late, lates>>,
           \A b \in Height : BlockRow(b) \in Stored => BlockRow(b) \in Stored',
           lates = 0 => \A r \in OfBlock : r \in Stored' => r \in Stored \/ BlockRow(r.block) \in Stored,
           lates = 0 => RolledBack' /\ ChunkHasBlocks'
    PROVE  VisibleInv'
<1>1. UNCHANGED <<pc, buf, chunk, fresh, late, lates>>
    BY DEF process
<1>2. \A r \in OfBlock : r.block \in Height
    BY PriceRowsFacts DEF OfBlock
<1>3. lates = 0 => VisiblePrices'
    <2> SUFFICES ASSUME lates = 0, NEW r \in Stored', r.table \in {"prices", "volumes"}
                 PROVE  BlockRow(r.block) \in Stored'
        BY DEF VisiblePrices, PricesHaveBlocks
    <2>1. r \in OfBlock
        BY DEF Stored, OfBlock
    <2>2. r \in Stored => BlockRow(r.block) \in Stored
        BY DEF VisibleInv, VisiblePrices, PricesHaveBlocks
    <2>3. QED
        BY <1>2, <2>1, <2>2
<1>4. \A r \in chunk : r.table = "blocks" /\ r \in Stored => r \in Stored'
    BY PriceRowsFacts DEF Stored
<1>5. QED
    BY <1>1, <1>2, <1>3, <1>4 DEF VisibleInv

LEMMA VisibleTool ==
    ToolsRun /\ ToolsType /\ KeptPath /\ VisibleInv
      /\ (StartTool \/ Rerun \/ ToolCrash \/ ToolStep \/ UNCHANGED <<vars, toolVars>>) => VisibleInv'
<1> SUFFICES ASSUME ToolsRun, ToolsType, KeptPath, VisibleInv,
                    StartTool \/ Rerun \/ ToolCrash \/ ToolStep \/ UNCHANGED <<vars, toolVars>>
             PROVE  VisibleInv'
    OBVIOUS
<1> USE PublicationAssumption
<1>a. tool \in ToolType /\ ToolOnPath /\ TypeOK
    BY DEF ToolsType, ToolOnPath
<1>b. UNCHANGED written => Stored' = Stored
    BY DEF Stored
<1>c. \A r \in Rows : r.block \in Int
    BY PriceRowsFacts DEF Height
<1>d. UNCHANGED vars => UNCHANGED <<process, late, lates, written>>
    BY DEF vars, process
<1>1. CASE StartTool \/ Rerun \/ ToolCrash
    <2>1. UNCHANGED vars /\ tool'.step \in {"range", "clear", "read", "dead"}
          /\ (tool'.step = "clear" => tool'.kind = "ohlc")
        <3>1. CASE StartTool
            BY <3>1, StartableOnPath DEF StartTool
        <3>2. CASE Rerun
            <4>1. tool.kind \in {"rollback", "ohlc", "volume"} /\ tool' = Again /\ UNCHANGED vars
                BY <3>2, <1>a DEF Rerun, ToolOnPath, ToolType
            <4>2. QED
                BY <4>1 DEF Again, Rollback, RepairOHLC, RepairVolume, NoTool
        <3>3. CASE ToolCrash
            BY <3>3, <1>a DEF ToolCrash, ToolType
        <3>4. QED
            BY <1>1, <3>1, <3>2, <3>3
    <2>2. RolledBack' /\ ChunkHasBlocks'
        BY <2>1 DEF RolledBack, RolledTables, ChunkHasBlocks
    <2>3. QED
        BY <1>b, <1>d, <2>1, <2>2, VisibleByTool
<1>2. CASE RollbackRange
    <2>1. UNCHANGED vars /\ tool'.step = "prices"
        BY <1>2, <1>a DEF RollbackRange, ToolType
    <2>2. RolledBack' /\ ChunkHasBlocks'
        BY <2>1 DEF RolledBack, RolledTables, ChunkHasBlocks
    <2>3. QED
        BY <1>b, <1>d, <2>1, <2>2, VisibleByTool
<1>3. CASE RollbackDelete
    <2>1. /\ Delete(From(tool.step, tool.at)) /\ tool.kind = "rollback"
          /\ tool' = [tool EXCEPT !.step = AfterDelete[tool.step], !.todo = Candles]
          /\ tool.step \in {"prices", "volumes", "blocks", "upgrades"}
        BY <1>3 DEF RollbackDelete, AfterDelete
    <2>2. /\ tool'.kind = "rollback" /\ tool'.at = tool.at
          /\ tool'.step = AfterDelete[tool.step]
        BY <1>a, <2>1 DEF ToolType
    <2>3. Stored' = Stored \ From(tool.step, tool.at)
        BY <1>a, <2>1, DeleteRemoves
    <2>4. UNCHANGED <<process, late, lates>> /\ pc = "down" /\ buf = {}
        BY <2>1 DEF Delete, KeptPath, VisibleInv
    <2>5. tool.at \in Int /\ Stored \subseteq Rows
        BY <1>a DEF ToolType, Stored
    <2>6. RolledTables' \subseteq RolledTables \cup {tool.step}
        <3>1. /\ AfterDelete["prices"] = "volumes" /\ AfterDelete["volumes"] = "blocks"
              /\ AfterDelete["blocks"] = "upgrades" /\ AfterDelete["upgrades"] = "clear"
            BY DEF AfterDelete
        <3>2. CASE tool.step = "prices"
            BY <2>1, <2>2, <3>1, <3>2 DEF RolledTables
        <3>3. CASE tool.step = "volumes"
            BY <2>1, <2>2, <3>1, <3>3 DEF RolledTables
        <3>4. CASE tool.step = "blocks"
            BY <2>1, <2>2, <3>1, <3>4 DEF RolledTables
        <3>5. CASE tool.step = "upgrades"
            BY <2>1, <2>2, <3>1, <3>5 DEF RolledTables
        <3>6. QED
            BY <2>1, <3>2, <3>3, <3>4, <3>5
    <2>7. lates = 0 => RolledBack'
        <3> SUFFICES ASSUME lates = 0, NEW r \in Stored', r.table \in RolledTables' PROVE r.block < tool.at
            BY <2>2 DEF RolledBack
        <3>1. CASE r.table \in RolledTables
            BY <2>3, <3>1 DEF VisibleInv, RolledBack
        <3>2. CASE r.table = tool.step
            BY <1>c, <2>3, <2>5, <3>2 DEF From
        <3>3. QED
            BY <2>6, <3>1, <3>2
    <2>8. lates = 0 => VisiblePrices'
        <3> SUFFICES ASSUME lates = 0, NEW r \in Stored', r.table \in {"prices", "volumes"}
                     PROVE  BlockRow(r.block) \in Stored'
            BY DEF VisiblePrices, PricesHaveBlocks
        <3>1. r \in Stored /\ BlockRow(r.block) \in Stored
            BY <2>3 DEF VisibleInv, VisiblePrices, PricesHaveBlocks
        <3>2. BlockRow(r.block).table = "blocks" /\ BlockRow(r.block).block = r.block
            BY DEF BlockRow
        <3>3. tool.step = "blocks" => r.block < tool.at
            BY <2>1, <3>1 DEF VisibleInv, RolledBack, RolledTables
        <3>4. QED
            BY <1>c, <2>3, <2>5, <3>1, <3>2, <3>3 DEF From
    <2>9. ChunkHasBlocks'
        BY <2>1, <2>2 DEF AfterDelete, ChunkHasBlocks
    <2>10. QED
        BY <2>4, <2>7, <2>8, <2>9 DEF VisibleInv, process
<1>4. CASE RollbackCheckpoint
    <2>1. UNCHANGED <<written, process, late, lates>> /\ tool' = NoTool
        BY <1>4 DEF RollbackCheckpoint
    <2>2. RolledBack' /\ ChunkHasBlocks'
        BY <2>1 DEF NoTool, RolledBack, RolledTables, ChunkHasBlocks
    <2>3. QED
        BY <1>b, <2>1, <2>2, VisibleByTool
<1>5. CASE ClearTable \/ FillTable
    <2>1. /\ UNCHANGED vars /\ RolledTables' \subseteq RolledTables /\ ChunkHasBlocks'
          /\ RolledTables' = {} \/ tool'.at = tool.at
        <3>1. CASE ClearTable
            <4>1. UNCHANGED vars /\ tool.step = "clear"
                BY <3>1 DEF ClearTable
            <4>2. PICK t \in tool.todo :
                    tool' = IF tool.todo # {t} THEN [tool EXCEPT !.todo = @ \ {t}]
                            ELSE [tool EXCEPT !.step = IF tool.kind = "rollback" THEN "restore" ELSE "rebuild",
                                              !.todo = Candles]
                BY <3>1 DEF ClearTable
            <4>3. /\ tool'.kind = tool.kind /\ tool'.at = tool.at
                  /\ tool'.step \in {"clear", "restore", "rebuild"}
                BY <1>a, <4>1, <4>2 DEF ToolType
            <4>4. QED
                BY <4>1, <4>3 DEF RolledTables, ChunkHasBlocks
        <3>2. CASE FillTable
            <4>1. UNCHANGED vars /\ tool.step \in {"restore", "rebuild"}
                BY <3>2 DEF FillTable
            <4>2. PICK t \in tool.todo :
                    tool' = IF tool.todo # {t} THEN [tool EXCEPT !.todo = @ \ {t}]
                            ELSE IF tool.step = "restore" THEN [tool EXCEPT !.step = "checkpoint"]
                            ELSE NoTool
                BY <3>2 DEF FillTable
            <4>3. CASE tool' = NoTool
                BY <4>1, <4>3 DEF NoTool, RolledTables, ChunkHasBlocks
            <4>4. CASE tool' # NoTool
                <5>1. /\ tool'.kind = tool.kind /\ tool'.at = tool.at
                      /\ tool'.step = tool.step \/ (tool.step = "restore" /\ tool'.step = "checkpoint")
                    BY <1>a, <4>1, <4>2, <4>4 DEF ToolType
                <5>2. QED
                    BY <4>1, <5>1 DEF RolledTables, ChunkHasBlocks
            <4>5. QED
                BY <4>3, <4>4
        <3>3. QED
            BY <1>5, <3>1, <3>2
    <2>2. lates = 0 => RolledBack'
        BY <1>b, <1>d, <2>1 DEF VisibleInv, RolledBack
    <2>3. QED
        BY <1>b, <1>d, <2>1, <2>2, VisibleByTool
<1>6. CASE ReadChunk
    <2>1. /\ UNCHANGED vars /\ tool.step = "read"
          /\ tool' = [tool EXCEPT !.step = IF Refused THEN "dead" ELSE "dropVolumes"]
        BY <1>6 DEF ReadChunk
    <2>2. tool.kind = "volume"
        BY <1>a, <2>1 DEF ToolOnPath, ToolType, RollbackSteps
    <2>3. /\ tool'.kind = "volume" /\ tool'.at = tool.at /\ tool'.to = tool.to
          /\ tool'.step = IF Refused THEN "dead" ELSE "dropVolumes"
        BY <1>a, <2>1, <2>2 DEF ToolType
    <2>4. RolledBack'
        BY <2>3 DEF RolledBack, RolledTables
    <2>5. lates = 0 => ChunkHasBlocks'
        <3> SUFFICES ASSUME lates = 0, ~Refused, NEW b \in Swaps \cap InChunk, NEW a \in Assets
                     PROVE  BlockRow(b) \in Stored
            BY <1>b, <1>d, <2>1, <2>3 DEF ChunkHasBlocks, InChunk, ChunkEnd
        <3> DEFINE r == [table |-> "prices", block |-> b, item |-> a]
        <3>1. r \in Corrected /\ r.block = b /\ r.table = "prices"
            BY DEF Corrected, PriceRows
        <3>2. r \in Stored
            BY <3>1 DEF Refused
        <3>3. QED
            BY <3>1, <3>2 DEF VisibleInv, VisiblePrices, PricesHaveBlocks
    <2>6. QED
        BY <1>b, <1>d, <2>1, <2>4, <2>5, VisibleByTool
<1>7. CASE DropVolumes
    <2>1. PICK S : Delete(S) /\ S = {r \in Rows : r.table = "volumes" /\ r.block \in InChunk}
        BY <1>7 DEF DropVolumes
    <2>2. tool.step = "dropVolumes" /\ tool' = [tool EXCEPT !.step = "addVolumes"]
        BY <1>7 DEF DropVolumes
    <2>3. tool.kind = "volume"
        BY <1>a, <2>2 DEF ToolOnPath, ToolType, RollbackSteps
    <2>4. tool'.kind = "volume" /\ tool'.at = tool.at /\ tool'.to = tool.to
        BY <1>a, <2>2, <2>3 DEF ToolType
    <2>5. Stored' = Stored \ S /\ UNCHANGED <<process, late, lates>>
        BY <1>a, <2>1, DeleteRemoves DEF Delete
    <2>6. \A b \in Height : BlockRow(b) \in Stored => BlockRow(b) \in Stored'
        BY <2>1, <2>5 DEF BlockRow
    <2>7. RolledBack' /\ (lates = 0 => ChunkHasBlocks')
        BY <2>2, <2>4, <2>6 DEF RolledBack, RolledTables, VisibleInv, ChunkHasBlocks, InChunk, ChunkEnd, Height
    <2>8. QED
        BY <2>5, <2>6, <2>7, VisibleByTool
<1>8. CASE AddVolumes
    <2>1. /\ tool.step = "addVolumes" /\ tool' = [tool EXCEPT !.step = "dropPrices"]
          /\ UNCHANGED <<process, late, lates>>
          /\ written' = InsertInto(written, UNION {VolumeRows(b) : b \in Swaps \cap InChunk})
        BY <1>8 DEF AddVolumes
    <2>2. tool.kind = "volume"
        BY <1>a, <2>1 DEF ToolOnPath, ToolType, RollbackSteps
    <2>3. tool'.kind = "volume" /\ tool'.at = tool.at /\ tool'.to = tool.to
        BY <1>a, <2>1, <2>2 DEF ToolType
    <2>4. Stored' = Stored \cup UNION {VolumeRows(b) : b \in Swaps \cap InChunk}
        BY <1>a, <2>1, ChunkRows, InsertAdds
    <2>5. lates = 0 => \A r \in OfBlock : r \in Stored' => r \in Stored \/ BlockRow(r.block) \in Stored
        <3> SUFFICES ASSUME lates = 0, NEW r \in UNION {VolumeRows(b) : b \in Swaps \cap InChunk}
                     PROVE  BlockRow(r.block) \in Stored
            BY <2>4
        <3>1. r.block \in Swaps \cap InChunk /\ Assets # {}
            BY ChunkRows DEF VolumeRows
        <3>2. QED
            BY <2>1, <3>1 DEF VisibleInv, ChunkHasBlocks
    <2>6. RolledBack' /\ (lates = 0 => ChunkHasBlocks')
        BY <2>1, <2>3, <2>4 DEF RolledBack, RolledTables, VisibleInv, ChunkHasBlocks, InChunk, ChunkEnd
    <2>7. QED
        BY <2>1, <2>4, <2>5, <2>6, VisibleByTool
<1>9. CASE DropPrices
    <2>1. /\ tool.step = "dropPrices" /\ tool' = [tool EXCEPT !.step = "addPrices"]
          /\ Delete(Corrected)
        BY <1>9 DEF DropPrices
    <2>2. tool.kind = "volume"
        BY <1>a, <2>1 DEF ToolOnPath, ToolType, RollbackSteps
    <2>3. tool'.kind = "volume" /\ tool'.at = tool.at /\ tool'.to = tool.to
        BY <1>a, <2>1, <2>2 DEF ToolType
    <2>4. Stored' = Stored \ Corrected /\ UNCHANGED <<process, late, lates>>
        BY <1>a, <2>1, DeleteRemoves DEF Delete
    <2>5. \A b \in Height : BlockRow(b) \in Stored => BlockRow(b) \in Stored'
        BY <2>4, ChunkRows DEF BlockRow
    <2>6. RolledBack' /\ (lates = 0 => ChunkHasBlocks')
        BY <2>1, <2>3, <2>5 DEF RolledBack, RolledTables, VisibleInv, ChunkHasBlocks, InChunk, ChunkEnd, Height
    <2>7. QED
        BY <2>4, <2>5, <2>6, VisibleByTool
<1>10. CASE AddPrices
    <2>1. /\ tool.step = "addPrices" /\ written' = InsertInto(written, Corrected)
          /\ tool' = IF ChunkEnd < tool.to THEN [tool EXCEPT !.step = "read", !.at = ChunkEnd + 1]
                     ELSE [tool EXCEPT !.step = "clear", !.todo = Candles]
          /\ UNCHANGED <<process, late, lates>>
        BY <1>10 DEF AddPrices, AfterChunks
    <2>2. tool.kind = "volume"
        BY <1>a, <2>1 DEF ToolOnPath, ToolType, RollbackSteps
    <2>3. tool'.kind = "volume" /\ tool'.step \in {"read", "clear"}
        BY <1>a, <2>1, <2>2 DEF ToolType
    <2>4. Stored' = Stored \cup Corrected
        BY <1>a, <2>1, ChunkRows, InsertAdds
    <2>5. lates = 0 => \A r \in OfBlock : r \in Stored' => r \in Stored \/ BlockRow(r.block) \in Stored
        <3> SUFFICES ASSUME lates = 0, NEW r \in Corrected PROVE BlockRow(r.block) \in Stored
            BY <2>4
        <3>1. r.block \in Swaps \cap InChunk /\ Assets # {}
            BY ChunkRows DEF Corrected, PriceRows
        <3>2. QED
            BY <2>1, <3>1 DEF VisibleInv, ChunkHasBlocks
    <2>6. RolledBack' /\ ChunkHasBlocks'
        BY <2>3 DEF RolledBack, RolledTables, ChunkHasBlocks
    <2>7. QED
        BY <2>1, <2>4, <2>5, <2>6, VisibleByTool
<1>11. CASE UNCHANGED <<vars, toolVars>>
    <2>1. UNCHANGED vars /\ UNCHANGED tool
        BY <1>11 DEF toolVars
    <2>2. lates = 0 => RolledBack' /\ ChunkHasBlocks'
        BY <1>b, <1>d, <2>1 DEF VisibleInv, RolledBack, RolledTables, ChunkHasBlocks, InChunk, ChunkEnd
    <2>3. QED
        BY <1>b, <1>d, <2>1, <2>2, VisibleByTool
<1>12. QED
    BY <1>1, <1>2, <1>3, <1>4, <1>5, <1>6, <1>7, <1>8, <1>9, <1>10, <1>11 DEF ToolStep

----------------------------------------------------------------------------
(* The safety lag. *)

\* The lag is no shorter than what the pipeline hands over at once.
LagHolds == BATCH <= SAFETY_LAG

\* The pipeline only ever writes prices above its checkpoint, and blocks no more than a
\* batch above it, whatever was rolled back.
LagInv ==
    lates = 0 =>
        /\ LagProtects
        /\ \A b \in Heights : b <= ckpt + BATCH
        /\ pc = "batch" => pos = ckpt /\ buf = {}
        /\ pc # "down" => pos <= ckpt + BATCH
        /\ \A r \in buf : /\ r.table = "prices" => ckpt < r.block
                          /\ r.table = "blocks" => r.block <= pos
        /\ pc = "insert" => \A r \in fresh : r.table = "prices" => r \notin Stored

LEMMA LagInit == ToolsRun /\ ToolsInit => LagInv
<1> SUFFICES ASSUME ToolsRun, ToolsInit PROVE LagInv
    OBVIOUS
<1>1. Stored = {}
    BY DEF ToolsInit, Init, Stored
<1>2. Heights = {}
    BY <1>1 DEF Heights
<1>3. dirty = {} /\ pc = "down" /\ buf = {}
    BY DEF ToolsInit, Init
<1>4. QED
    BY <1>2, <1>3 DEF LagInv, LagProtects

\* What is repaired is at or below the checkpoint.
LEMMA SafeTipBelow ==
    ASSUME ToolsRun, LagHolds, TypeOK, KeptPath, LagInv, lates = 0
    PROVE  SafeTip <= ckpt
<1> USE PublicationAssumption, ToolsAssumption
<1>1. ckpt \in Int /\ ckpt > 0
    BY DEF TypeOK, KeptPath
<1>2. CASE Heights = {}
    BY <1>1, <1>2 DEF SafeTip
<1>3. CASE Heights # {}
    <2>1. Heights \subseteq Height
        BY DEF Heights
    <2>2. Highest(Heights) \in Heights /\ Highest(Heights) \in Height
        BY <1>3, <2>1, HighestExists
    <2>3. Highest(Heights) <= ckpt + BATCH
        BY <2>2 DEF LagInv
    <2>4. Highest(Heights) \in Int
        BY <2>2 DEF Height
    <2>5. SafeTip = Max2(0, Highest(Heights) - SAFETY_LAG)
        BY <1>3 DEF SafeTip
    <2>6. QED
        BY <1>1, <2>3, <2>4, <2>5 DEF Max2, LagHolds
<1>4. QED
    BY <1>2, <1>3

\* The copies a step of the pipeline adds are those of the insert in hand, each of them
\* the first one.
LEMMA AddedIsFresh ==
    ASSUME TypeOK, LagInv, lates = 0, late = {}, Next, NEW r \in Prices
    PROVE  /\ Added(r) > 0 <=> Insert /\ r \in fresh
           /\ Added(r) > 0 => r \notin Stored /\ r \in Stored' /\ r \in buf /\ r \in chunk /\ pc = "insert"
           /\ ~(Added(r) > 0) => (r \in Stored' <=> r \in Stored)
<1>1. r \in Rows /\ r.table = "prices" /\ written[r] \in 0 .. 2
    BY PriceRowsFacts DEF TypeOK
<1>2. CASE Insert
    <2>1. /\ written' = InsertInto(written, fresh) /\ pc = "insert"
          /\ fresh \subseteq chunk /\ chunk \subseteq buf
        BY <1>2 DEF Insert, TypeOK
    <2>2. written'[r] = IF r \in fresh THEN Min2(written[r] + 1, 2) ELSE written[r]
        BY <1>1, <2>1 DEF InsertInto, Probed
    <2>3. r \in fresh => written[r] = 0
        <3>1. r \in fresh => r \notin Stored
            BY <1>1, <2>1 DEF LagInv
        <3>2. r \notin Stored => written[r] = 0
            BY <1>1 DEF Stored
        <3>3. QED
            BY <3>1, <3>2
    <2>4. Added(r) = IF r \in fresh THEN 1 ELSE 0
        BY <1>1, <2>2, <2>3 DEF Added, Min2
    <2>5. (r \in Stored <=> written[r] > 0) /\ (r \in Stored' <=> written'[r] > 0)
        BY <1>1 DEF Stored
    <2>6. QED
        BY <1>1, <1>2, <2>1, <2>2, <2>3, <2>4, <2>5 DEF Min2
<1>3. CASE ~Insert
    <2>1. UNCHANGED written
        BY <1>3 DEF Next, Step, Start, Batch, Probe, Checkpoint, Crash, LateInsert
    <2>2. Added(r) = 0
        BY <1>1, <2>1 DEF Added
    <2>3. QED
        BY <1>3, <2>1, <2>2 DEF Stored
<1>4. QED
    BY <1>2, <1>3

LEMMA RowsOfHeights ==
    ASSUME NEW b \in Height, NEW isFirst \in BOOLEAN, NEW r \in RowsOf(b, isFirst),
           r.table \in {"blocks", "prices"}
    PROVE  r.block = b
BY DEF RowsOf, BlockRow, PriceRows, VolumeRows, UpgradeRow, AssetRows, ErrorNames

LEMMA LagPipeline ==
    ToolsRun /\ LagHolds /\ ToolsType /\ KeptPath /\ VisibleInv /\ LagInv /\ Pipeline => LagInv'
<1> SUFFICES ASSUME ToolsRun, LagHolds, ToolsType, KeptPath, VisibleInv, LagInv, Pipeline, lates' = 0
             PROVE  LagInv'
    BY DEF LagInv
<1> USE PublicationAssumption
<1>a. TypeOK /\ Next /\ [Next]_vars /\ UNCHANGED <<tool, torn>> /\ ToolOnPath /\ tool \in ToolType
    BY DEF Pipeline, ToolsType, ToolOnPath
<1>b. lates = 0 /\ late = {}
    <2>1. lates \in Nat /\ (UNCHANGED lates \/ lates' = lates + 1)
        BY <1>a DEF TypeOK, Next, Step, Start, Batch, Probe, Insert, Checkpoint, Crash, LateInsert
    <2>2. QED
        BY <2>1 DEF VisibleInv
<1>c. ckpt \in Int /\ pos \in Int /\ \A r \in Rows : r.block \in Int
    BY <1>a, PriceRowsFacts DEF TypeOK, Height
<1>d. LagProtects'
    <2> SUFFICES ASSUME NEW d \in dirty', d.kind = "volume"
                 PROVE  \E b \in Height : Interval(d.table, b) = d.interval /\ b > d.upTo
        BY DEF LagProtects
    <2>1. CASE d \in dirty
        BY <1>b, <2>1 DEF LagInv, LagProtects
    <2>2. CASE d \notin dirty
        <3>1. PICK t \in Candles, r \in Prices :
                /\ Added(r) > 0
                /\ d = [table |-> t, interval |-> Interval(t, r.block), kind |-> tool.kind, upTo |-> tool.to]
            <4>1. PICK p \in Cleared \X {r \in Prices : Added(r) > 0} :
                    d = [table |-> p[1], interval |-> Interval(p[1], p[2].block), kind |-> tool.kind, upTo |-> tool.to]
                BY <2>2 DEF Pipeline
            <4>2. Cleared \subseteq Candles
                BY <1>a DEF Cleared, ToolType
            <4>3. p[1] \in Candles /\ p[2] \in Prices /\ Added(p[2]) > 0
                BY <4>1, <4>2
            <4>4. QED
                BY <4>1, <4>3
        <3>2. r.block \in Height /\ ckpt < r.block
            BY <1>a, <1>b, <3>1, AddedIsFresh, PriceRowsFacts DEF LagInv
        <3>3. tool.to <= SafeTip /\ SafeTip <= ckpt /\ tool.to \in Int /\ SafeTip \in Int
            BY <1>a, <1>b, <3>1, SafeTipBelow, SafeTipType DEF ToolOnPath, ToolType
        <3>4. r.block > tool.to
            BY <1>c, <3>2, <3>3 DEF Height
        <3>5. QED
            BY <3>1, <3>2, <3>4
    <2>3. QED
        BY <2>1, <2>2
<1>e. UNCHANGED written => Stored' = Stored /\ Heights' = Heights
    BY DEF Stored, Heights
<1>f. UNCHANGED <<written, ckpt>> => \A b \in Heights' : b <= ckpt' + BATCH
    BY <1>b, <1>e DEF LagInv
<1>1. CASE Start
    <2>1. /\ pos' = ckpt /\ UNCHANGED <<written, ckpt>> /\ pc' = "batch" /\ buf' = {}
        BY <1>1 DEF Start, StartPos, KeptPath, ToolsRun
    <2>2. QED
        BY <1>c, <1>d, <1>f, <2>1 DEF LagInv
<1>2. CASE Batch
    <2>1. PICK m \in (pos + 1) .. Min2(pos + BATCH, Last) :
              /\ pos' = m
              /\ buf' = buf \cup UNION {RowsOf(b, first /\ b = pos + 1) : b \in (pos + 1) .. m}
              /\ pc' = IF PublishNow(m) THEN "probe" ELSE "batch"
        BY <1>2 DEF Batch
    <2>2. m > pos /\ m \in Int /\ (pos + 1) .. m \subseteq Height /\ first \in BOOLEAN
        BY <1>a, BatchBlocks DEF TypeOK
    <2>3. m <= pos + BATCH
        BY <1>c DEF Min2
    <2>4. pos = ckpt /\ buf = {} /\ UNCHANGED <<written, ckpt>> /\ pc' = "probe"
        BY <1>2, <1>b, <2>1 DEF Batch, LagInv, PublishNow, ToolsRun
    <2>5. ASSUME NEW r \in buf', r.table \in {"blocks", "prices"}
          PROVE  ckpt < r.block /\ r.block <= m
        <3>1. PICK b \in (pos + 1) .. m : r \in RowsOf(b, first /\ b = pos + 1)
            BY <2>1, <2>4
        <3>2. r.block = b
            BY <2>2, <2>5, <3>1, RowsOfHeights
        <3>3. QED
            BY <1>c, <2>2, <2>4, <3>1, <3>2
    <2>6. QED
        BY <1>d, <1>f, <2>1, <2>3, <2>4, <2>5 DEF LagInv
<1>3. CASE Probe
    <2>1. PICK S \in SUBSET buf : fresh' = Unseen(S)
        BY <1>3 DEF Probe
    <2>2. UNCHANGED <<written, ckpt, pos, buf>> /\ pc = "probe" /\ pc' = "insert"
        BY <1>3 DEF Probe
    <2>3. \A r \in fresh' : r.table = "prices" => r \notin Stored'
        BY <1>e, <2>1, <2>2 DEF Unseen, Probed
    <2>4. QED
        BY <1>b, <1>d, <1>f, <2>2, <2>3 DEF LagInv
<1>4. CASE Insert
    <2>1. /\ Stored' = Stored \cup fresh /\ fresh \subseteq buf
          /\ buf' = buf \ chunk /\ pc' \in {"checkpoint", "probe"} /\ UNCHANGED <<ckpt, pos>>
          /\ pc = "insert"
        BY <1>4, <1>a, StoredStep DEF Insert, RestOf, TypeOK
    <2>2. ASSUME NEW b \in Heights'
          PROVE  b <= ckpt + BATCH
        <3>1. b \in Height /\ BlockRow(b) \in Stored \cup fresh
            BY <2>1 DEF Heights
        <3>2. CASE BlockRow(b) \in Stored
            BY <1>b, <3>1, <3>2 DEF LagInv, Heights
        <3>3. CASE BlockRow(b) \in fresh
            <4>1. BlockRow(b) \in buf /\ BlockRow(b).table = "blocks" /\ BlockRow(b).block = b
                BY <2>1, <3>3 DEF BlockRow
            <4>2. b <= pos /\ pos <= ckpt + BATCH
                BY <1>b, <2>1, <4>1 DEF LagInv
            <4>3. QED
                BY <1>c, <3>1, <4>2 DEF Height
        <3>4. QED
            BY <3>1, <3>2, <3>3
    <2>3. QED
        BY <1>b, <1>d, <2>1, <2>2 DEF LagInv
<1>5. CASE Checkpoint
    <2>1. /\ pc = "checkpoint" /\ ckpt' = pos /\ pc' = "batch" /\ UNCHANGED <<written, pos, buf>>
          /\ buf = {} /\ ckpt <= pos
        BY <1>5 DEF Checkpoint, ToolsRun, KeptPath
    <2>2. ASSUME NEW b \in Heights'
          PROVE  b <= pos + BATCH
        <3>1. b \in Heights /\ b \in Int
            BY <1>e, <2>1 DEF Heights, Height
        <3>2. QED
            BY <1>b, <1>c, <2>1, <3>1 DEF LagInv
    <2>3. QED
        BY <1>c, <1>d, <2>1, <2>2 DEF LagInv
<1>6. CASE Crash
    <2>1. /\ UNCHANGED <<written, ckpt>> /\ buf' = {} /\ pc' = "down"
        BY <1>6 DEF Crash
    <2>2. QED
        BY <1>d, <1>f, <2>1 DEF LagInv
<1>7. CASE LateInsert
    BY <1>7, <1>b DEF LateInsert
<1>8. QED
    BY <1>a, <1>1, <1>2, <1>3, <1>4, <1>5, <1>6, <1>7 DEF Next, Step

\* A statement of a tool adds no block row, and no price above the safe tip.
LEMMA LagByTool ==
    ASSUME ToolsType, LagInv, lates = 0, UNCHANGED <<ckpt, process>>, dirty' \subseteq dirty,
           Heights' \subseteq Heights,
           \A r \in Prices : r \in Stored' => r \in Stored \/ r.block <= ckpt
    PROVE  LagInv'
<1>1. UNCHANGED <<ckpt, pc, pos, buf, chunk, fresh>>
    BY DEF process
<1>2. LagProtects'
    BY DEF LagInv, LagProtects
<1>3. ASSUME pc = "insert", NEW r \in fresh, r.table = "prices"
      PROVE  r \notin Stored'
    <2>1. r \in buf /\ r \in Prices /\ r.block \in Int /\ ckpt \in Int
        BY <1>3, PriceRowsFacts, PublicationAssumption DEF ToolsType, TypeOK, Height
    <2>2. r \notin Stored /\ ckpt < r.block
        BY <1>3, <2>1 DEF LagInv
    <2>3. QED
        BY <2>1, <2>2
<1>4. QED
    BY <1>1, <1>2, <1>3 DEF LagInv

LEMMA LagTool ==
    ToolsRun /\ LagHolds /\ ToolsType /\ KeptPath /\ VisibleInv /\ LagInv
      /\ (StartTool \/ Rerun \/ ToolCrash \/ ToolStep \/ UNCHANGED <<vars, toolVars>>) => LagInv'
<1> SUFFICES ASSUME ToolsRun, LagHolds, ToolsType, KeptPath, VisibleInv, LagInv,
                    StartTool \/ Rerun \/ ToolCrash \/ ToolStep \/ UNCHANGED <<vars, toolVars>>,
                    lates' = 0
             PROVE  LagInv'
    BY DEF LagInv
<1> USE PublicationAssumption
<1>a. tool \in ToolType /\ ToolOnPath /\ TypeOK
    BY DEF ToolsType, ToolOnPath
<1>b. UNCHANGED lates
    BY DEF StartTool, Rerun, ToolCrash, ToolStep, vars, RollbackRange, RollbackDelete, RollbackCheckpoint,
           ClearTable, FillTable, ReadChunk, DropVolumes, AddVolumes, DropPrices, AddPrices, Delete
<1>c. lates = 0
    BY <1>b
<1>1. CASE UNCHANGED vars /\ dirty' \subseteq dirty
    BY <1>1, <1>c, LagByTool DEF vars, process, Heights, Stored
<1>2. CASE RollbackCheckpoint
    <2>1. /\ tool.step = "checkpoint" /\ ckpt' = tool.at - 1
          /\ UNCHANGED <<written, pc, buf, dirty>>
        BY <1>2 DEF RollbackCheckpoint, RolledBackTo, process, history
    <2>2. tool.kind = "rollback" /\ pc = "down" /\ buf = {} /\ tool.at \in Int
        BY <1>a, <2>1 DEF ToolOnPath, ToolType, VolumeSteps, KeptPath, VisibleInv
    <2>3. LagProtects'
        BY <1>c, <2>1 DEF LagInv, LagProtects
    <2>4. ASSUME NEW b \in Heights'
          PROVE  b <= ckpt' + BATCH
        <3>1. b \in Height /\ BlockRow(b) \in Stored
            BY <2>1 DEF Heights, Stored
        <3>2. BlockRow(b).table \in RolledTables /\ BlockRow(b).block = b
            BY <2>1, <2>2 DEF BlockRow, RolledTables
        <3>3. b < tool.at
            BY <1>c, <3>1, <3>2 DEF VisibleInv, RolledBack
        <3>4. QED
            BY <2>1, <2>2, <3>1, <3>3 DEF Height
    <2>5. QED
        BY <2>1, <2>2, <2>3, <2>4 DEF LagInv
<1>3. CASE RollbackDelete \/ DropVolumes \/ DropPrices
    <2>1. PICK S : Delete(S)
        BY <1>3 DEF RollbackDelete, DropVolumes, DropPrices
    <2>2. UNCHANGED <<ckpt, process, dirty>> /\ Stored' = Stored \ S
        BY <1>a, <2>1, DeleteRemoves DEF Delete, history
    <2>3. QED
        BY <1>c, <2>2, LagByTool DEF Heights
<1>4. CASE AddVolumes
    <2>1. /\ UNCHANGED <<ckpt, process, dirty>>
          /\ written' = InsertInto(written, UNION {VolumeRows(b) : b \in Swaps \cap InChunk})
        BY <1>4 DEF AddVolumes, history
    <2>2. Stored' = Stored \cup UNION {VolumeRows(b) : b \in Swaps \cap InChunk}
        BY <1>a, <2>1, ChunkRows, InsertAdds
    <2>3. /\ Heights' \subseteq Heights
          /\ \A r \in Prices : r \in Stored' => r \in Stored
        BY <2>2, ChunkRows, PriceRowsFacts DEF Heights, BlockRow
    <2>4. QED
        BY <1>c, <2>1, <2>3, LagByTool
<1>5. CASE AddPrices
    <2>1. /\ tool.step = "addPrices" /\ UNCHANGED <<ckpt, process, dirty>>
          /\ written' = InsertInto(written, Corrected)
        BY <1>5 DEF AddPrices, history
    <2>2. tool.kind = "volume"
        BY <1>a, <2>1 DEF ToolOnPath, ToolType, RollbackSteps
    <2>3. Stored' = Stored \cup Corrected
        BY <1>a, <2>1, ChunkRows, InsertAdds
    <2>4. Heights' \subseteq Heights
        BY <2>3, ChunkRows DEF Heights, BlockRow
    <2>5. \A r \in Prices : r \in Stored' => r \in Stored \/ r.block <= ckpt
        <3> SUFFICES ASSUME NEW r \in Corrected PROVE r.block <= ckpt
            BY <2>3
        <3>1. r.block \in InChunk /\ r.block \in Height
            BY ChunkRows DEF Height
        <3>2. r.block <= ChunkEnd /\ ChunkEnd <= tool.to /\ ChunkEnd \in Int /\ tool.to \in Int
            BY <1>a, <3>1, ChunkEndFacts DEF InChunk
        <3>3. tool.to <= SafeTip /\ SafeTip <= ckpt /\ SafeTip \in Int /\ ckpt \in Int
            BY <1>a, <1>c, <2>2, SafeTipBelow, SafeTipType DEF ToolOnPath, TypeOK
        <3>4. QED
            BY <3>1, <3>2, <3>3 DEF Height
    <2>6. QED
        BY <1>c, <2>1, <2>4, <2>5, LagByTool
<1>6. QED
    BY <1>1, <1>2, <1>3, <1>4, <1>5
    DEF StartTool, Rerun, ToolCrash, ToolStep, RollbackRange, ClearTable, FillTable, ReadChunk, history, toolVars

\* Beside any of the tools, alive or dead half way, every visible price has its block,
\* and an interval that ends below the safe tip is not fed while a volume repair
\* rebuilds it (rollbackToBlock deletes prices first; DEFAULT_SAFETY_LAG_BLOCKS).
THEOREM ToolsSafe ==
    ASSUME ToolsRun, LagHolds
    PROVE  ToolsSpec => []Inv
<1>1. ToolsInit => ToolsType /\ KeptPath /\ VisibleInv /\ LagInv
    BY ToolsTypeInit, KeptPathInit, VisibleInit, LagInit
<1>2. ToolsType /\ KeptPath /\ VisibleInv /\ LagInv /\ [ToolsNext]_<<vars, toolVars>> =>
          ToolsType' /\ KeptPath' /\ VisibleInv' /\ LagInv'
    BY ToolsTypeStep, KeptPathPipeline, KeptPathTool, VisiblePipeline, VisibleTool, LagPipeline, LagTool
    DEF ToolsNext
<1>3. ToolsType /\ VisibleInv /\ LagInv => Inv
    BY ToolsTypeImplied DEF VisibleInv, LagInv, Inv
<1>4. QED
    BY <1>1, <1>2, <1>3, PTL DEF ToolsSpec

----------------------------------------------------------------------------
(* The candles. *)

LEMMA IntervalFacts ==
    ASSUME NEW t \in Candles, NEW b \in Int, NEW c \in Int
    PROVE  /\ Interval(t, b) \in Int
           /\ b <= c => Interval(t, b) <= Interval(t, c)
           /\ b \in Nat => Interval(t, b) > Interval(t, NoTime)
<1>1. PICK w \in Nat \ {0} : w = Width[t]
    BY ToolsAssumption
<1>2. b \div w \in Int
    BY <1>1
<1>3. b <= c => b \div w <= c \div w
    BY <1>1
<1>4. b \in Nat => b \div w >= 0 /\ (-1) \div w = -1
    BY <1>1
<1>5. QED
    BY <1>1, <1>2, <1>3, <1>4 DEF Interval, NoTime

DirtyAt(t, r) == \E d \in dirty : d.table = t /\ d.interval = Interval(t, r.block)

\* The candle says of a row what the tables say, or was fed while it was rebuilt.
Exact(t, r) == candles[t][r] = Contribution(r) \/ DirtyAt(t, r)

\* The candle is cleared and waits to be filled again.
Awaits(t, r) == t \in Cleared /\ Covered(t, r)

\* A repair at work may have spoilt the candle and will clear it and fill it.
Suspect(t, r) == /\ tool.kind # "none" /\ Covered(t, r)
                 /\ ~(tool.step = "rebuild" /\ t \notin tool.todo)

RepairedCandle(t, r) ==
    /\ Awaits(t, r) => candles[t][r] = NoTable \/ DirtyAt(t, r)
    /\ ~Suspect(t, r) => Exact(t, r)

\* A rollback that has taken its range from the blocks clears all that is above it.
RolledCandle(t, r) ==
    IF r.block < tool.at
    THEN IF Awaits(t, r) THEN candles[t][r] = NoTable ELSE Exact(t, r)
    ELSE candles[t][r] # NoTable /\ tool.step \notin {"range", "dead"} =>
            /\ Covered(t, r) /\ tool.from <= r.block
            /\ tool.step \notin {"restore", "checkpoint"}
            /\ tool.step = "clear" => t \in tool.todo

\* As long as the rollback can be run again, it finds the block of every candle again.
Traced(t, r) ==
    candles[t][r] # NoTable =>
        \/ BlockRow(r.block) \in Stored
        \/ tool.kind = "rollback" /\ r.block >= tool.at
              /\ tool.step \in {"upgrades", "clear", "restore", "checkpoint"}

RangeInv ==
    tool.kind = "rollback" /\ tool.step \notin {"range", "dead"} =>
        \/ tool.from = NoTime /\ tool.to = NoTime
        \/ tool.at <= tool.from /\ tool.from <= tool.to

CandleOK(t, r) ==
    /\ Traced(t, r)
    /\ IF tool.kind = "rollback" THEN RolledCandle(t, r) ELSE RepairedCandle(t, r)

CandleInv ==
    lates = 0 /\ ~torn => \A t \in Candles, r \in Prices : RangeInv /\ CandleOK(t, r)

Single(v) == [u \in Values |-> IF u = v THEN 1 ELSE 0]

LEMMA CountedOnce == \A v \in Values : Counted(NoTable, v) = Single(v)
<1> SUFFICES ASSUME NEW v \in Values PROVE Counted(NoTable, v) = Single(v)
    OBVIOUS
<1>1. NoTable \in [Values -> {0}]
    BY DEF NoTable
<1>2. NoTable[v] = 0
    BY DEF NoTable
<1>3. Min2(0 + 1, 2) = 1
    BY DEF Min2
<1>4. Counted(NoTable, v) = [NoTable EXCEPT ![v] = 1]
    BY <1>2, <1>3 DEF Counted
<1>5. \A u \in Values : NoTable[u] = 0
    BY DEF NoTable
<1>6. QED
    BY <1>1, <1>4, <1>5 DEF Single

LEMMA ContributionIs ==
    /\ \A r : r \in Stored => Contribution(r) = Single(value[r])
    /\ \A r : r \notin Stored => Contribution(r) = NoTable
    /\ \A r : r \in Stored' => Contribution(r)' = Single(value'[r])
    /\ \A r : r \notin Stored' => Contribution(r)' = NoTable
BY DEF Contribution, Single, NoTable

LEMMA CandleInit == ToolsInit => CandleInv
<1> SUFFICES ASSUME ToolsInit PROVE CandleInv
    OBVIOUS
<1>1. Stored = {} /\ tool.kind = "none"
    BY DEF ToolsInit, Init, Stored, NoTool
<1>2. \A t \in Candles, r \in Prices : candles[t][r] = NoTable /\ Contribution(r) = NoTable
    BY <1>1, ContributionIs DEF ToolsInit
<1>3. Cleared = {}
    BY DEF ToolsInit, NoTool, Cleared
<1>4. QED
    BY <1>1, <1>2, <1>3 DEF CandleInv, CandleOK, RangeInv, Traced, RepairedCandle, Exact, Awaits

CandleFacts == ToolsType /\ KeptPath /\ VisibleInv /\ LagInv /\ CandleInv

LEMMA CandlePipeline ==
    ToolsRun /\ CandleFacts /\ Pipeline => CandleInv'
<1> SUFFICES ASSUME ToolsRun, CandleFacts, Pipeline, lates' = 0, ~torn' PROVE CandleInv'
    BY DEF CandleInv
<1> USE PublicationAssumption
<1>a. /\ TypeOK /\ Next /\ [Next]_vars /\ UNCHANGED <<tool, torn>> /\ tool \in ToolType
      /\ TablesType /\ KeptPath /\ VisibleInv /\ LagInv /\ CandleInv
      /\ (tool.kind = "rollback" /\ tool.step # "dead" => pc' = "down")
    BY DEF Pipeline, Paused, ToolsRun, ToolsType, ToolOnPath, CandleFacts
<1>b. lates = 0 /\ late = {} /\ ~torn
    <2>1. lates \in Nat /\ (UNCHANGED lates \/ lates' = lates + 1)
        BY <1>a DEF TypeOK, Next, Step, Start, Batch, Probe, Insert, Checkpoint, Crash, LateInsert
    <2>2. QED
        BY <1>a, <2>1 DEF VisibleInv
<1>c. Stored \subseteq Stored' /\ dirty \subseteq dirty'
    BY <1>a, StoredStep DEF Pipeline
<1>d. RangeInv => RangeInv'
    BY <1>a DEF RangeInv
<1>e. ASSUME NEW t \in Candles, NEW r \in Prices
      PROVE  /\ Traced(t, r)'
             /\ tool.kind = "rollback" => RolledCandle(t, r)'
             /\ tool.kind # "rollback" => RepairedCandle(t, r)'
    <2>1. /\ Traced(t, r)
          /\ tool.kind = "rollback" => RolledCandle(t, r)
          /\ tool.kind # "rollback" => RepairedCandle(t, r)
        BY <1>a, <1>b DEF CandleInv, CandleOK
    <2>2. /\ Awaits(t, r)' = Awaits(t, r) /\ Suspect(t, r)' = Suspect(t, r)
          /\ Covered(t, r)' = Covered(t, r) /\ (DirtyAt(t, r) => DirtyAt(t, r)')
        BY <1>a, <1>c DEF Awaits, Suspect, Covered, Cleared, DirtyAt
    <2>3. /\ value'[r] = IF Added(r) > 0 THEN "pipeline" ELSE value[r]
          /\ candles'[t][r] = IF Added(r) > 0 THEN Counted(candles[t][r], "pipeline") ELSE candles[t][r]
        BY DEF Pipeline, Fed
    <2>4. CASE ~(Added(r) > 0)
        <3>1. r \in Stored' <=> r \in Stored
            BY <1>a, <1>b, <2>4, AddedIsFresh
        <3>2. candles'[t][r] = candles[t][r] /\ Contribution(r)' = Contribution(r)
            BY <2>3, <2>4, <3>1, ContributionIs
        <3>3. Exact(t, r) => Exact(t, r)'
            BY <2>2, <3>2 DEF Exact
        <3>4. QED
            BY <1>a, <1>c, <2>1, <2>2, <3>2, <3>3 DEF Traced, RolledCandle, RepairedCandle
    <2>5. CASE Added(r) > 0
        <3>1. r \notin Stored /\ r \in Stored' /\ r \in chunk /\ pc = "insert" /\ Insert
            BY <1>a, <1>b, <2>5, AddedIsFresh
        <3>2. Contribution(r) = NoTable /\ Contribution(r)' = Single("pipeline")
            BY <2>3, <2>5, <3>1, ContributionIs
        <3>3. candles[t][r] = NoTable => candles'[t][r] = Single("pipeline")
            BY <2>3, <2>5, CountedOnce DEF Values
        <3>4. Exact(t, r) => Exact(t, r)'
            BY <2>2, <3>2, <3>3 DEF Exact
        <3>5. BlockRow(r.block) \in Stored'
            <4>1. r \in OfBlock
                BY PriceRowsFacts DEF OfBlock
            <4>2. QED
                BY <1>a, <1>b, <1>c, <3>1, <4>1 DEF VisibleInv
        <3>6. tool.kind = "rollback" => tool.step = "dead"
            BY <1>a, <3>1 DEF Insert
        <3>7. tool.kind = "rollback" => ~Awaits(t, r)
            BY <3>6 DEF Awaits, Cleared
        <3>8. Awaits(t, r) => DirtyAt(t, r)'
            <4> SUFFICES ASSUME Awaits(t, r) PROVE DirtyAt(t, r)'
                OBVIOUS
            <4> DEFINE p == <<t, r>>
                       fed == {q \in Cleared \X {s \in Prices : Added(s) > 0} : Covered(q[1], q[2])}
                       d == [table |-> p[1], interval |-> Interval(p[1], p[2].block),
                             kind |-> tool.kind, upTo |-> tool.to]
            <4>1. p \in fed
                BY <2>5 DEF Awaits
            <4>2. d \in dirty'
                BY <4>1 DEF Pipeline
            <4>3. QED
                BY <4>2 DEF DirtyAt
        <3>9. QED
            BY <1>a, <2>1, <2>2, <3>4, <3>5, <3>6, <3>7, <3>8 DEF Traced, RolledCandle, RepairedCandle
    <2>6. QED
        BY <2>4, <2>5
<1>f. QED
    BY <1>a, <1>b, <1>d, <1>e DEF CandleInv, CandleOK

LEMMA CandleKnown ==
    ASSUME CandleFacts, lates = 0, ~torn
    PROVE  /\ TypeOK /\ tool \in ToolType /\ ToolOnPath /\ TablesType
           /\ tool.at \in Int /\ tool.from \in Int /\ tool.to \in Int
           /\ VisiblePrices /\ RolledBack /\ ChunkHasBlocks
           /\ \A t \in Candles, r \in Prices : RangeInv /\ CandleOK(t, r)
           /\ tool.step \in {"clear", "restore", "rebuild"} => tool.kind # "none"
           /\ tool.step = "restore" => tool.kind = "rollback"
           /\ tool.step = "rebuild" => tool.kind \in {"ohlc", "volume"}
<1>1. TypeOK /\ tool \in ToolType /\ ToolOnPath /\ TablesType
    BY DEF CandleFacts, ToolsType, ToolOnPath
<1>2. VisiblePrices /\ RolledBack /\ ChunkHasBlocks
      /\ \A t \in Candles, r \in Prices : RangeInv /\ CandleOK(t, r)
    BY DEF CandleFacts, VisibleInv, CandleInv
<1>3. /\ tool.step \in {"clear", "restore", "rebuild"} => tool.kind # "none"
      /\ tool.step = "restore" => tool.kind = "rollback"
      /\ tool.step = "rebuild" => tool.kind \in {"ohlc", "volume"}
    BY <1>1 DEF ToolOnPath, ToolType, RollbackSteps, VolumeSteps
<1>4. tool.at \in Int /\ tool.from \in Int /\ tool.to \in Int
    BY <1>1 DEF ToolType
<1>5. QED
    BY <1>1, <1>2, <1>3, <1>4

LEMMA RowFacts ==
    ASSUME NEW t \in Candles, NEW r \in Prices
    PROVE  /\ r \in Rows /\ r.table = "prices" /\ r.block \in Height
           /\ r.block \in Nat /\ r.block \in Int
           /\ Interval(t, r.block) \in Int
           /\ Interval(t, r.block) > Interval(t, NoTime)
           /\ BlockRow(r.block).table = "blocks" /\ BlockRow(r.block).block = r.block
<1>1. r \in Rows /\ r.table = "prices" /\ r.block \in Height
    BY PriceRowsFacts
<1>2. r.block \in Nat
    BY <1>1, PublicationAssumption DEF Height
<1>3. QED
    BY <1>1, <1>2, IntervalFacts DEF BlockRow

\* Nothing but the tool changes.
LEMMA SameTables ==
    ASSUME UNCHANGED <<written, value, candles, dirty>>, NEW t, NEW r
    PROVE  /\ Stored' = Stored /\ Heights' = Heights
           /\ candles'[t][r] = candles[t][r]
           /\ DirtyAt(t, r)' = DirtyAt(t, r)
           /\ Exact(t, r)' = Exact(t, r)
BY DEF Stored, Heights, DirtyAt, Exact, Contribution

LEMMA CandleStart ==
    ASSUME CandleFacts, lates = 0, ~torn, StartTool, NEW t \in Candles, NEW r \in Prices
    PROVE  RangeInv' /\ CandleOK(t, r)'
<1>1. UNCHANGED <<written, value, candles, dirty>> /\ tool' \in Startable /\ tool.kind = "none"
    BY DEF StartTool, vars
<1>2. ~Suspect(t, r) /\ CandleOK(t, r)
    BY <1>1, CandleKnown DEF Suspect
<1>3. Exact(t, r)' /\ (candles'[t][r] # NoTable => BlockRow(r.block) \in Stored')
    BY <1>1, <1>2, SameTables DEF CandleOK, RepairedCandle, Traced
<1>4. /\ tool'.kind = "rollback" => tool'.step = "range"
      /\ tool'.kind # "rollback" => tool'.step \in {"clear", "read"}
    BY <1>1, StartableOnPath
<1>5. tool'.step = "clear" => tool'.todo = Candles
    <2>1. \A b : Rollback(b).step = "range"
        BY DEF Rollback, NoTool
    <2>2. \A b, c : RepairOHLC(b, c).todo = Candles
        BY DEF RepairOHLC, NoTool
    <2>3. \A b, f : RepairVolume(b, f).step = "read"
        BY DEF RepairVolume, NoTool
    <2>4. \/ \E b : tool' = Rollback(b)
          \/ \E b, c : tool' = RepairOHLC(b, c)
          \/ \E b, f : tool' = RepairVolume(b, f)
        BY <1>1 DEF Startable
    <2>5. QED
        BY <2>1, <2>2, <2>3, <2>4
<1>6. Cleared' = {}
    BY <1>4, <1>5 DEF Cleared
<1>7. QED
    BY <1>3, <1>4, <1>6 DEF RangeInv, CandleOK, Traced, RolledCandle, RepairedCandle, Awaits

LEMMA CandleRerun ==
    ASSUME CandleFacts, lates = 0, ~torn, Rerun, NEW t \in Candles, NEW r \in Prices
    PROVE  RangeInv' /\ CandleOK(t, r)'
<1>1. UNCHANGED <<written, value, candles, dirty>> /\ tool' = Again /\ tool.step = "dead"
    BY DEF Rerun, vars, history
<1>2. CandleOK(t, r) /\ Cleared = {} /\ tool.kind \in {"rollback", "ohlc", "volume"}
    BY <1>1, CandleKnown DEF Cleared, ToolOnPath, ToolType
<1>3. candles'[t][r] # NoTable => BlockRow(r.block) \in Stored'
    BY <1>1, <1>2, SameTables DEF CandleOK, Traced
<1>4. CASE tool.kind = "rollback"
    <2>1. tool'.kind = "rollback" /\ tool'.step = "range" /\ tool'.at = tool.at
        BY <1>1, <1>4 DEF Again, Rollback, NoTool
    <2>2. Cleared' = {}
        BY <2>1 DEF Cleared
    <2>3. QED
        BY <1>1, <1>2, <1>3, <1>4, <2>1, <2>2, SameTables
        DEF RangeInv, CandleOK, Traced, RolledCandle, Awaits
<1>5. CASE tool.kind # "rollback"
    <2>1. /\ tool'.kind \in {"ohlc", "volume"} /\ tool'.step \in {"clear", "read"}
          /\ tool'.from = tool.from
          /\ tool'.to = IF tool.kind = "ohlc" THEN tool.to ELSE SafeTip
          /\ tool'.step = "clear" => tool'.todo = Candles
        BY <1>1, <1>2, <1>5 DEF Again, RepairOHLC, RepairVolume, NoTool
    <2>2. Cleared' = {}
        BY <2>1 DEF Cleared
    <2>3. Covered(t, r) => Covered(t, r)'
        <3>1. tool.to <= tool'.to /\ tool'.to \in Int /\ tool.to \in Int /\ r.block \in Int
            BY <1>2, <1>5, <2>1, CandleKnown, SafeTipType, RowFacts DEF ToolOnPath
        <3>2. Interval(t, tool.to) <= Interval(t, tool'.to)
            BY <3>1, IntervalFacts
        <3>3. Interval(t, tool.to) \in Int /\ Interval(t, tool'.to) \in Int /\ Interval(t, r.block) \in Int
            BY <3>1, IntervalFacts
        <3>4. QED
            BY <2>1, <3>2, <3>3 DEF Covered
    <2>4. Suspect(t, r) => Suspect(t, r)'
        BY <2>1, <2>3 DEF Suspect
    <2>5. ~Suspect(t, r)' => Exact(t, r)'
        BY <1>1, <1>2, <1>5, <2>4, SameTables DEF CandleOK, RepairedCandle
    <2>6. QED
        BY <1>3, <2>1, <2>2, <2>5 DEF RangeInv, CandleOK, Traced, RepairedCandle, Awaits
<1>6. QED
    BY <1>4, <1>5

LEMMA CandleCrash ==
    ASSUME CandleFacts, lates = 0, ~torn, ToolCrash, ~torn', NEW t \in Candles, NEW r \in Prices
    PROVE  RangeInv' /\ CandleOK(t, r)'
<1>1. /\ UNCHANGED <<written, value, candles, dirty>> /\ tool' = [tool EXCEPT !.step = "dead"]
      /\ ~Tears /\ tool.step # "idle"
    BY DEF ToolCrash, vars
<1>2. /\ tool'.kind = tool.kind /\ tool'.step = "dead" /\ tool'.at = tool.at
      /\ tool'.from = tool.from /\ tool'.to = tool.to
    BY <1>1, CandleKnown DEF ToolType
<1>3. CandleOK(t, r) /\ Cleared' = {} /\ Covered(t, r)' = Covered(t, r)
    BY <1>2, CandleKnown DEF Cleared, Covered
<1>4. r.block \in Int /\ tool.at \in Int /\ ToolOnPath
    BY RowFacts, CandleKnown
<1>5. CASE tool.kind = "rollback"
    <2>1. tool.step \notin {"upgrades", "clear", "restore", "rebuild"}
        BY <1>1, <1>4, <1>5 DEF Tears, ToolOnPath, RollbackSteps
    <2>2. Cleared = {}
        BY <2>1 DEF Cleared
    <2>3. candles[t][r] # NoTable => BlockRow(r.block) \in Stored
        BY <1>3, <1>4, <1>5, <2>1 DEF CandleOK, Traced, RolledCandle
    <2>4. r.block < tool.at => Exact(t, r)
        BY <1>3, <1>5, <2>2 DEF CandleOK, RolledCandle, Awaits
    <2>5. QED
        BY <1>1, <1>2, <1>3, <1>5, <2>3, <2>4, SameTables
        DEF RangeInv, CandleOK, Traced, RolledCandle, Awaits
<1>6. CASE tool.kind # "rollback"
    <2>1. Suspect(t, r) => Suspect(t, r)'
        BY <1>2, <1>3 DEF Suspect
    <2>2. QED
        BY <1>1, <1>2, <1>3, <1>6, <2>1, SameTables
        DEF RangeInv, CandleOK, Traced, RepairedCandle, Awaits
<1>7. QED
    BY <1>5, <1>6

LEMMA CandleRange ==
    ASSUME CandleFacts, lates = 0, ~torn, RollbackRange, NEW t \in Candles, NEW r \in Prices
    PROVE  RangeInv' /\ CandleOK(t, r)'
<1> USE PublicationAssumption
<1> DEFINE gone == {b \in Heights : b >= tool.at}
<1>1. /\ UNCHANGED <<written, value, candles, dirty>> /\ tool.step = "range"
      /\ tool' = [tool EXCEPT !.step = "prices",
                              !.from = IF gone = {} THEN NoTime ELSE CHOOSE b \in gone : \A c \in gone : b <= c,
                              !.to = IF gone = {} THEN NoTime ELSE Highest(gone)]
    BY DEF RollbackRange, vars, history
<1>2. tool.kind = "rollback" /\ tool.at \in Int
    BY <1>1, CandleKnown DEF ToolOnPath, ToolType, VolumeSteps
<1>3. /\ tool'.kind = "rollback" /\ tool'.step = "prices" /\ tool'.at = tool.at
      /\ tool'.from = IF gone = {} THEN NoTime ELSE CHOOSE b \in gone : \A c \in gone : b <= c
      /\ tool'.to = IF gone = {} THEN NoTime ELSE Highest(gone)
    BY <1>1, <1>2, CandleKnown DEF ToolType
<1>4. gone \subseteq Height
    BY DEF Heights
<1>5. gone # {} => /\ tool'.from \in gone /\ \A c \in gone : tool'.from <= c
                   /\ tool'.to \in gone /\ \A c \in gone : c <= tool'.to
    <2> SUFFICES ASSUME gone # {}
                 PROVE  /\ tool'.from \in gone /\ \A c \in gone : tool'.from <= c
                        /\ tool'.to \in gone /\ \A c \in gone : c <= tool'.to
        OBVIOUS
    <2> HIDE DEF gone
    <2>1. \E b \in gone : \A c \in gone : b <= c
        BY <1>4, LowestExists
    <2>2. Highest(gone) \in gone /\ \A c \in gone : c <= Highest(gone)
        BY <1>4, HighestExists
    <2>3. QED
        BY <1>3, <2>1, <2>2
<1>6. RangeInv'
    <2>1. CASE gone = {}
        BY <1>3, <2>1 DEF RangeInv
    <2>2. CASE gone # {}
        <3>1. tool.at <= tool'.from /\ tool'.from <= tool'.to
            BY <1>2, <1>4, <1>5, <2>2
        <3>2. QED
            BY <1>3, <3>1 DEF RangeInv
    <2>3. QED
        BY <2>1, <2>2
<1>7. CandleOK(t, r) /\ Cleared = {} /\ Cleared' = {}
    BY <1>1, <1>3, CandleKnown DEF Cleared
<1>8. r.block \in Height /\ r.block \in Int
    BY RowFacts
<1>9. candles[t][r] # NoTable => BlockRow(r.block) \in Stored
    BY <1>1, <1>7 DEF CandleOK, Traced
<1>10. ASSUME ~(r.block < tool.at), candles[t][r] # NoTable
       PROVE  Covered(t, r)' /\ tool'.from <= r.block
    <2>1. r.block \in gone
        BY <1>2, <1>8, <1>9, <1>10 DEF Heights
    <2>2. tool'.from <= r.block /\ r.block <= tool'.to
        BY <1>5, <2>1
    <2>3. tool'.from \in Int /\ tool'.to \in Int
        <3>1. tool'.from \in Height /\ tool'.to \in Height
            BY <1>4, <1>5, <2>1
        <3>2. QED
            BY <3>1 DEF Height
    <2>4. QED
        BY <1>8, <2>2, <2>3, IntervalFacts DEF Covered
<1>11. r.block < tool.at => Exact(t, r)
    BY <1>2, <1>7 DEF CandleOK, RolledCandle, Awaits
<1>12. RolledCandle(t, r)'
    BY <1>1, <1>3, <1>7, <1>10, <1>11, SameTables DEF RolledCandle, Awaits
<1>13. QED
    BY <1>1, <1>3, <1>6, <1>9, <1>12, SameTables DEF CandleOK, Traced

LEMMA CandleDelete ==
    ASSUME CandleFacts, lates = 0, ~torn, RollbackDelete, NEW t \in Candles, NEW r \in Prices
    PROVE  RangeInv' /\ CandleOK(t, r)'
<1>1. /\ Delete(From(tool.step, tool.at)) /\ tool.kind = "rollback"
      /\ tool' = [tool EXCEPT !.step = AfterDelete[tool.step], !.todo = Candles]
      /\ tool.step \in {"prices", "volumes", "blocks", "upgrades"}
    BY DEF RollbackDelete, AfterDelete
<1>2. /\ tool'.kind = "rollback" /\ tool'.at = tool.at /\ tool'.step = AfterDelete[tool.step]
      /\ tool'.from = tool.from /\ tool'.to = tool.to /\ tool'.todo = Candles
    BY <1>1, CandleKnown DEF ToolType
<1>3. /\ tool'.step \in {"volumes", "blocks", "upgrades", "clear"}
      /\ tool.step = "blocks" => tool'.step = "upgrades"
      /\ tool.step = "upgrades" => tool'.step = "clear"
    BY <1>1, <1>2 DEF AfterDelete
<1>4. Cleared = {} /\ Cleared' = {} /\ Covered(t, r)' = Covered(t, r)
    BY <1>1, <1>2, <1>3 DEF Cleared, Covered
<1>5. CandleOK(t, r) /\ RangeInv /\ tool.at \in Int /\ r.block \in Int /\ r \in Rows
    BY CandleKnown, RowFacts
<1>6. /\ Stored' = Stored \ From(tool.step, tool.at) /\ UNCHANGED <<candles, dirty>>
      /\ value' = [s \in Prices |-> IF s \in From(tool.step, tool.at) THEN "pipeline" ELSE value[s]]
    BY <1>1, CandleKnown, DeleteRemoves DEF Delete, history
<1>7. ASSUME r.block < tool.at PROVE Exact(t, r)'
    <2>1. r \notin From(tool.step, tool.at)
        BY <1>5, <1>7 DEF From
    <2>2. (r \in Stored' <=> r \in Stored) /\ value'[r] = value[r]
        BY <1>6, <2>1
    <2>3. Contribution(r)' = Contribution(r)
        BY <2>2, ContributionIs
    <2>4. Exact(t, r)
        BY <1>1, <1>4, <1>5, <1>7 DEF CandleOK, RolledCandle, Awaits
    <2>5. QED
        BY <1>6, <2>3, <2>4 DEF Exact, DirtyAt
<1>8. RolledCandle(t, r)'
    <2>1. RolledCandle(t, r) /\ ~Awaits(t, r)'
        BY <1>1, <1>4, <1>5 DEF CandleOK, Awaits
    <2>2. CASE r.block < tool.at
        BY <1>2, <1>7, <2>1, <2>2 DEF RolledCandle
    <2>3. CASE ~(r.block < tool.at)
        BY <1>1, <1>2, <1>3, <1>4, <1>6, <2>1, <2>3 DEF RolledCandle
    <2>4. QED
        BY <2>2, <2>3
<1>9. Traced(t, r)'
    <2> SUFFICES ASSUME candles[t][r] # NoTable, BlockRow(r.block) \notin Stored'
                 PROVE  r.block >= tool.at /\ tool'.step \in {"upgrades", "clear"}
        BY <1>2, <1>6 DEF Traced
    <2>1. CASE BlockRow(r.block) \in Stored
        <3>1. BlockRow(r.block) \in From(tool.step, tool.at)
            BY <1>6, <2>1
        <3>2. QED
            BY <1>3, <3>1, RowFacts DEF From
    <2>2. CASE BlockRow(r.block) \notin Stored
        BY <1>1, <1>3, <1>5, <2>2 DEF CandleOK, Traced
    <2>3. QED
        BY <2>1, <2>2
<1>10. RangeInv'
    BY <1>1, <1>2, <1>5 DEF RangeInv
<1>11. QED
    BY <1>2, <1>8, <1>9, <1>10 DEF CandleOK

LEMMA CandleCheckpoint ==
    ASSUME CandleFacts, lates = 0, ~torn, RollbackCheckpoint, NEW t \in Candles, NEW r \in Prices
    PROVE  RangeInv' /\ CandleOK(t, r)'
<1>1. UNCHANGED <<written, value, candles, dirty>> /\ tool' = NoTool /\ tool.step = "checkpoint"
    BY DEF RollbackCheckpoint, history
<1>2. tool.kind = "rollback"
    BY <1>1, CandleKnown DEF ToolOnPath, ToolType, VolumeSteps
<1>3. CandleOK(t, r) /\ RolledBack /\ tool.at \in Int /\ r.block \in Int /\ r.table = "prices"
    BY CandleKnown, RowFacts
<1>4. tool'.kind = "none" /\ tool'.step = "idle" /\ Cleared = {} /\ Cleared' = {}
    BY <1>1 DEF NoTool, Cleared
<1>5. ~(r.block < tool.at) => candles[t][r] = NoTable
    BY <1>1, <1>2, <1>3 DEF CandleOK, RolledCandle
<1>6. Exact(t, r)
    <2>1. CASE r.block < tool.at
        BY <1>2, <1>3, <1>4, <2>1 DEF CandleOK, RolledCandle, Awaits
    <2>2. CASE ~(r.block < tool.at)
        <3>1. r \notin Stored
            BY <1>1, <1>2, <1>3, <2>2 DEF RolledBack, RolledTables
        <3>2. QED
            BY <1>5, <2>2, <3>1, ContributionIs DEF Exact
    <2>3. QED
        BY <2>1, <2>2
<1>7. candles[t][r] # NoTable => BlockRow(r.block) \in Stored
    BY <1>3, <1>5 DEF CandleOK, Traced
<1>8. QED
    BY <1>1, <1>4, <1>6, <1>7, SameTables DEF RangeInv, CandleOK, Traced, RepairedCandle, Awaits

\* A table is cleared.
LEMMA CandleClear ==
    ASSUME CandleFacts, lates = 0, ~torn, ClearTable, NEW t \in Candles, NEW r \in Prices
    PROVE  RangeInv' /\ CandleOK(t, r)'
<1>1. PICK c \in tool.todo :
        /\ candles' = [candles EXCEPT ![c] = [s \in Prices |-> IF Covered(c, s) THEN NoTable ELSE candles[c][s]]]
        /\ tool' = IF tool.todo # {c} THEN [tool EXCEPT !.todo = @ \ {c}]
                   ELSE [tool EXCEPT !.step = IF tool.kind = "rollback" THEN "restore" ELSE "rebuild",
                                     !.todo = Candles]
        /\ dirty' = {d \in dirty : d.table = c => d.interval \notin Interval(c, tool.from) .. Interval(c, tool.to)}
    BY DEF ClearTable
<1>2. UNCHANGED <<written, value>> /\ tool.step = "clear" /\ tool.kind # "none"
    BY CandleKnown DEF ClearTable, vars
<1>3. /\ CandleOK(t, r) /\ RangeInv /\ tool \in ToolType /\ c \in Candles
      /\ candles \in [Candles -> [Prices -> [Values -> 0 .. 2]]]
    BY CandleKnown DEF ToolType, TablesType
<1>4. /\ tool'.kind = tool.kind /\ tool'.at = tool.at /\ tool'.from = tool.from /\ tool'.to = tool.to
      /\ tool'.todo = IF tool.todo # {c} THEN tool.todo \ {c} ELSE Candles
      /\ tool'.step = IF tool.todo # {c} THEN "clear"
                      ELSE IF tool.kind = "rollback" THEN "restore" ELSE "rebuild"
    BY <1>1, <1>2, <1>3 DEF ToolType
<1>5. Cleared' = Cleared \cup {c} /\ c \notin Cleared
    <2>1. Cleared = Candles \ tool.todo
        BY <1>2 DEF Cleared
    <2>2. CASE tool.todo # {c}
        BY <1>1, <1>3, <1>4, <2>1, <2>2 DEF Cleared
    <2>3. CASE tool.todo = {c}
        BY <1>1, <1>3, <1>4, <2>1, <2>3 DEF Cleared
    <2>4. QED
        BY <2>2, <2>3
<1>6. Covered(t, r)' = Covered(t, r) /\ Stored' = Stored /\ Contribution(r)' = Contribution(r)
    BY <1>2, <1>4 DEF Covered, Stored, Contribution
<1>7. t = c /\ Covered(t, r) => candles'[t][r] = NoTable
    BY <1>1, <1>3
<1>8. ASSUME ~(t = c /\ Covered(t, r))
      PROVE  candles'[t][r] = candles[t][r] /\ DirtyAt(t, r)' = DirtyAt(t, r) /\ Exact(t, r)' = Exact(t, r)
    <2>1. candles'[t][r] = candles[t][r]
        BY <1>1, <1>3, <1>8
    <2>2. DirtyAt(t, r)' = DirtyAt(t, r)
        <3>1. CASE t # c
            BY <1>1, <3>1 DEF DirtyAt
        <3>2. CASE t = c /\ ~Covered(t, r)
            <4>1. Interval(t, r.block) \notin Interval(t, tool.from) .. Interval(t, tool.to)
                BY <3>2 DEF Covered
            <4>2. QED
                BY <1>1, <3>2, <4>1 DEF DirtyAt
        <3>3. QED
            BY <1>8, <3>1, <3>2
    <2>3. QED
        BY <1>6, <2>1, <2>2 DEF Exact
<1>9. Traced(t, r)'
    BY <1>2, <1>3, <1>4, <1>6, <1>7, <1>8 DEF CandleOK, Traced
<1>10. ASSUME tool.kind = "rollback" PROVE RolledCandle(t, r)'
    <2>1. RolledCandle(t, r)
        BY <1>3, <1>10 DEF CandleOK
    <2>2. CASE r.block < tool.at
        <3>1. CASE t = c /\ Covered(t, r)
            BY <1>4, <1>5, <1>6, <1>7, <2>2, <3>1 DEF RolledCandle, Awaits
        <3>2. CASE ~(t = c /\ Covered(t, r))
            BY <1>4, <1>5, <1>6, <1>8, <2>1, <2>2, <3>2 DEF RolledCandle, Awaits
        <3>3. QED
            BY <3>1, <3>2
    <2>3. CASE ~(r.block < tool.at)
        <3> SUFFICES ASSUME candles'[t][r] # NoTable
                     PROVE  /\ Covered(t, r) /\ tool.from <= r.block
                            /\ tool'.step \notin {"restore", "checkpoint"}
                            /\ tool'.step = "clear" => t \in tool'.todo
            BY <1>4, <1>6, <2>3 DEF RolledCandle
        <3>1. candles[t][r] # NoTable
            BY <1>7, <1>8
        <3>2. Covered(t, r) /\ tool.from <= r.block /\ t \in tool.todo
            BY <1>2, <2>1, <2>3, <3>1 DEF RolledCandle
        <3>3. t # c
            BY <1>7, <3>2
        <3>4. QED
            BY <1>4, <3>2, <3>3
    <2>4. QED
        BY <2>2, <2>3
<1>11. ASSUME tool.kind # "rollback" PROVE RepairedCandle(t, r)'
    <2>1. RepairedCandle(t, r)
        BY <1>3, <1>11 DEF CandleOK
    <2>2. Awaits(t, r)' => candles'[t][r] = NoTable \/ DirtyAt(t, r)'
        BY <1>5, <1>6, <1>7, <1>8, <2>1 DEF RepairedCandle, Awaits
    <2>3. ASSUME ~Suspect(t, r)' PROVE Exact(t, r)'
        <3>1. ~Covered(t, r)
            BY <1>2, <1>4, <1>6, <1>11, <2>3 DEF Suspect
        <3>2. QED
            BY <1>8, <2>1, <3>1 DEF RepairedCandle, Suspect
    <2>4. QED
        BY <2>2, <2>3 DEF RepairedCandle
<1>12. RangeInv'
    BY <1>2, <1>3, <1>4 DEF RangeInv
<1>13. QED
    BY <1>4, <1>9, <1>10, <1>11, <1>12 DEF CandleOK

\* A table is filled again: after a rollback what is left of the interval it cuts, after
\* a clearing all that is stored.
LEMMA CandleRestore ==
    ASSUME CandleFacts, lates = 0, ~torn, FillTable, tool.step = "restore",
           NEW t \in Candles, NEW r \in Prices
    PROVE  RangeInv' /\ CandleOK(t, r)'
<1>1. PICK c \in tool.todo :
        /\ candles' = [candles EXCEPT ![c] = [s \in Prices |->
                          IF s \in Prefix(c) THEN Counted(candles[c][s], value[s]) ELSE candles[c][s]]]
        /\ tool' = IF tool.todo # {c} THEN [tool EXCEPT !.todo = @ \ {c}]
                   ELSE [tool EXCEPT !.step = "checkpoint"]
    BY DEF FillTable
<1>2. UNCHANGED <<written, value, dirty>> /\ tool.kind = "rollback"
    BY CandleKnown DEF FillTable, vars, history
<1>3. /\ CandleOK(t, r) /\ RangeInv /\ tool \in ToolType /\ c \in Candles
      /\ candles \in [Candles -> [Prices -> [Values -> 0 .. 2]]] /\ value[r] \in Values
      /\ tool.at \in Int /\ tool.from \in Int /\ tool.to \in Int
      /\ VisiblePrices /\ RolledBack
    BY CandleKnown DEF ToolType, TablesType
<1>4. /\ tool'.kind = "rollback" /\ tool'.at = tool.at /\ tool'.from = tool.from /\ tool'.to = tool.to
      /\ tool'.todo = IF tool.todo # {c} THEN tool.todo \ {c} ELSE tool.todo
      /\ tool'.step = IF tool.todo # {c} THEN "restore" ELSE "checkpoint"
    BY <1>1, <1>2, <1>3 DEF ToolType
<1>5. Cleared' = Cleared \ {c} /\ Cleared = tool.todo
    BY <1>3, <1>4 DEF Cleared
<1>6. /\ Covered(t, r)' = Covered(t, r) /\ Stored' = Stored /\ Contribution(r)' = Contribution(r)
      /\ DirtyAt(t, r)' = DirtyAt(t, r)
    BY <1>2, <1>4 DEF Covered, Stored, Contribution, DirtyAt
<1>7. candles'[t][r] = IF t = c /\ r \in Prefix(c) THEN Counted(candles[t][r], value[r]) ELSE candles[t][r]
    BY <1>1, <1>3
<1>8. RolledCandle(t, r)
    BY <1>2, <1>3 DEF CandleOK
<1>a. /\ r.block \in Int /\ Interval(t, r.block) \in Int /\ Interval(t, tool.from) \in Int
      /\ Interval(t, tool.to) \in Int /\ Interval(t, r.block) > Interval(t, NoTime)
      /\ r.table = "prices"
    BY <1>3, RowFacts, IntervalFacts
<1>9. ASSUME r \in Prefix(t)
      PROVE  r \in Stored /\ BlockRow(r.block) \in Stored /\ Covered(t, r) /\ r.block < tool.at
    <2>1. /\ r \in Stored /\ BlockRow(r.block) \in Stored
          /\ Interval(t, r.block) = Interval(t, tool.from) /\ r.block < tool.from
        BY <1>9 DEF Prefix
    <2>2. tool.from # NoTime
        BY <1>a, <2>1
    <2>3. Interval(t, tool.from) <= Interval(t, tool.to)
        BY <1>2, <1>3, <2>2, IntervalFacts DEF RangeInv
    <2>4. r.block < tool.at
        BY <1>2, <1>3, <1>a, <2>1 DEF RolledBack, RolledTables
    <2>5. QED
        BY <1>a, <2>1, <2>3, <2>4 DEF Covered
<1>10. ASSUME r \in Stored, Covered(t, r), r.block < tool.at PROVE r \in Prefix(t)
    <2>1. tool.from # NoTime \/ tool.to # NoTime
        BY <1>a, <1>10 DEF Covered
    <2>2. tool.at <= tool.from
        BY <1>2, <1>3, <2>1 DEF RangeInv
    <2>3. r.block < tool.from
        BY <1>3, <1>a, <1>10, <2>2
    <2>4. Interval(t, r.block) <= Interval(t, tool.from)
        BY <1>3, <1>a, <2>3, IntervalFacts
    <2>5. Interval(t, r.block) = Interval(t, tool.from)
        BY <1>a, <1>10, <2>4 DEF Covered
    <2>6. BlockRow(r.block) \in Stored
        BY <1>3, <1>10, <1>a DEF VisiblePrices, PricesHaveBlocks
    <2>7. QED
        BY <1>10, <2>3, <2>5, <2>6 DEF Prefix
<1>11. Traced(t, r)'
    <2>1. CASE t = c /\ r \in Prefix(c)
        BY <1>6, <1>9, <2>1 DEF Traced
    <2>2. CASE ~(t = c /\ r \in Prefix(c))
        BY <1>2, <1>3, <1>4, <1>6, <1>7, <2>2 DEF CandleOK, Traced
    <2>3. QED
        BY <2>1, <2>2
<1>12. CASE t # c
    <2>1. Awaits(t, r)' = Awaits(t, r) /\ candles'[t][r] = candles[t][r] /\ Exact(t, r)' = Exact(t, r)
        BY <1>5, <1>6, <1>7, <1>12 DEF Awaits, Exact
    <2>2. RolledCandle(t, r)'
        BY <1>4, <1>6, <1>8, <2>1 DEF RolledCandle
    <2>3. QED
        BY <1>2, <1>3, <1>4, <1>11, <2>2 DEF CandleOK, RangeInv
<1>13. CASE t = c /\ r.block < tool.at
    <2>1. ~Awaits(t, r)' /\ (Awaits(t, r) <=> Covered(t, r))
        BY <1>1, <1>5, <1>13 DEF Awaits
    <2>2. CASE r \in Prefix(t)
        <3>1. Covered(t, r) /\ r \in Stored
            BY <1>9, <2>2
        <3>2. candles[t][r] = NoTable
            BY <1>8, <1>13, <2>1, <3>1 DEF RolledCandle
        <3>3. candles'[t][r] = Single(value[r])
            BY <1>3, <1>7, <1>13, <2>2, <3>2, CountedOnce
        <3>4. Exact(t, r)'
            BY <1>6, <3>1, <3>3, ContributionIs DEF Exact
        <3>5. QED
            BY <1>2, <1>3, <1>4, <1>11, <1>13, <2>1, <3>4 DEF CandleOK, RangeInv, RolledCandle
    <2>3. CASE r \notin Prefix(t)
        <3>1. candles'[t][r] = candles[t][r]
            BY <1>7, <1>13, <2>3
        <3>2. Exact(t, r)
            <4>1. CASE Covered(t, r)
                <5>1. r \notin Stored /\ candles[t][r] = NoTable
                    BY <1>8, <1>10, <1>13, <2>1, <2>3, <4>1 DEF RolledCandle
                <5>2. QED
                    BY <5>1, ContributionIs DEF Exact
            <4>2. CASE ~Covered(t, r)
                BY <1>8, <1>13, <2>1, <4>2 DEF RolledCandle
            <4>3. QED
                BY <4>1, <4>2
        <3>3. Exact(t, r)'
            BY <1>6, <3>1, <3>2 DEF Exact
        <3>4. QED
            BY <1>2, <1>3, <1>4, <1>11, <1>13, <2>1, <3>3 DEF CandleOK, RangeInv, RolledCandle
    <2>4. QED
        BY <2>2, <2>3
<1>14. CASE t = c /\ ~(r.block < tool.at)
    <2>1. candles[t][r] = NoTable
        BY <1>8, <1>14 DEF RolledCandle
    <2>2. candles'[t][r] = NoTable
        BY <1>7, <1>9, <1>14, <2>1
    <2>3. RolledCandle(t, r)'
        BY <1>4, <1>14, <2>2 DEF RolledCandle
    <2>4. QED
        BY <1>2, <1>3, <1>4, <1>11, <2>3 DEF CandleOK, RangeInv
<1>15. QED
    BY <1>12, <1>13, <1>14

LEMMA CandleRebuild ==
    ASSUME CandleFacts, lates = 0, ~torn, FillTable, tool.step = "rebuild",
           NEW t \in Candles, NEW r \in Prices
    PROVE  RangeInv' /\ CandleOK(t, r)'
<1>1. PICK c \in tool.todo :
        /\ candles' = [candles EXCEPT ![c] = [s \in Prices |->
                          IF s \in Rebuilt(c) THEN Counted(candles[c][s], value[s]) ELSE candles[c][s]]]
        /\ tool' = IF tool.todo # {c} THEN [tool EXCEPT !.todo = @ \ {c}] ELSE NoTool
    BY DEF FillTable
<1>2. UNCHANGED <<written, value, dirty>> /\ tool.kind \in {"ohlc", "volume"}
    BY CandleKnown DEF FillTable, vars, history
<1>3. /\ CandleOK(t, r) /\ tool \in ToolType /\ c \in Candles
      /\ candles \in [Candles -> [Prices -> [Values -> 0 .. 2]]] /\ value[r] \in Values
      /\ VisiblePrices
    BY CandleKnown DEF ToolType, TablesType
<1>4. RepairedCandle(t, r) /\ Cleared = tool.todo
    BY <1>2, <1>3 DEF CandleOK, Cleared
<1>5. Stored' = Stored /\ Contribution(r)' = Contribution(r) /\ DirtyAt(t, r)' = DirtyAt(t, r)
    BY <1>2 DEF Stored, Contribution, DirtyAt
<1>6. candles'[t][r] = IF t = c /\ r \in Rebuilt(c) THEN Counted(candles[t][r], value[r]) ELSE candles[t][r]
    BY <1>1, <1>3
<1>7. /\ tool'.kind # "rollback"
      /\ Awaits(t, r)' => t # c /\ Awaits(t, r)
      /\ t # c /\ ~Suspect(t, r)' => ~Suspect(t, r)
    <2>1. CASE tool.todo # {c}
        <3>1. /\ tool'.kind = tool.kind /\ tool'.step = "rebuild" /\ tool'.todo = tool.todo \ {c}
              /\ tool'.from = tool.from /\ tool'.to = tool.to
            BY <1>1, <1>3, <2>1 DEF ToolType
        <3>2. Covered(t, r)' = Covered(t, r) /\ Cleared' = Cleared \ {c}
            BY <1>4, <3>1 DEF Covered, Cleared
        <3>3. QED
            BY <1>2, <3>1, <3>2 DEF Awaits, Suspect
    <2>2. CASE tool.todo = {c}
        <3>1. tool'.kind = "none" /\ Cleared' = {}
            BY <1>1, <2>2 DEF NoTool, Cleared
        <3>2. QED
            BY <2>2, <3>1 DEF Awaits, Suspect
    <2>3. QED
        BY <2>1, <2>2
<1>8. Traced(t, r)'
    <2>1. CASE t = c /\ r \in Rebuilt(c)
        BY <1>5, <2>1 DEF Traced, Rebuilt
    <2>2. CASE ~(t = c /\ r \in Rebuilt(c))
        BY <1>2, <1>3, <1>5, <1>6, <2>2 DEF CandleOK, Traced
    <2>3. QED
        BY <2>1, <2>2
<1>9. ASSUME t = c PROVE Exact(t, r)'
    <2>1. CASE ~Covered(t, r)
        <3>1. Exact(t, r) /\ candles'[t][r] = candles[t][r]
            BY <1>4, <1>6, <2>1 DEF RepairedCandle, Suspect, Rebuilt
        <3>2. QED
            BY <1>5, <3>1 DEF Exact
    <2>2. CASE Covered(t, r)
        <3>1. candles[t][r] = NoTable \/ DirtyAt(t, r)
            BY <1>1, <1>4, <1>9, <2>2 DEF RepairedCandle, Awaits
        <3>2. CASE DirtyAt(t, r)
            BY <1>5, <3>2 DEF Exact
        <3>3. CASE candles[t][r] = NoTable /\ r \in Rebuilt(t)
            <4>1. candles'[t][r] = Single(value[r])
                BY <1>3, <1>6, <1>9, <3>3, CountedOnce
            <4>2. QED
                BY <1>5, <3>3, <4>1, ContributionIs DEF Exact, Rebuilt
        <3>4. CASE candles[t][r] = NoTable /\ r \notin Rebuilt(t)
            <4>1. r \notin Stored
                BY <1>3, <2>2, <3>4, RowFacts DEF Rebuilt, VisiblePrices, PricesHaveBlocks
            <4>2. candles'[t][r] = NoTable
                BY <1>6, <1>9, <3>4
            <4>3. QED
                BY <1>5, <4>1, <4>2, ContributionIs DEF Exact
        <3>5. QED
            BY <3>1, <3>2, <3>3, <3>4
    <2>3. QED
        BY <2>1, <2>2
<1>10. ASSUME t # c
       PROVE  candles'[t][r] = candles[t][r] /\ Exact(t, r)' = Exact(t, r)
    BY <1>5, <1>6, <1>10 DEF Exact
<1>11. RepairedCandle(t, r)'
    <2>1. CASE t = c
        BY <1>7, <1>9, <2>1 DEF RepairedCandle
    <2>2. CASE t # c
        BY <1>4, <1>5, <1>7, <1>10, <2>2 DEF RepairedCandle
    <2>3. QED
        BY <2>1, <2>2
<1>12. QED
    BY <1>7, <1>8, <1>11 DEF CandleOK, RangeInv

\* The volume repair: only candles of its own range, which it will clear, are spoilt.
LEMMA CandleVolume ==
    ASSUME CandleFacts, lates = 0, ~torn,
           ReadChunk \/ DropVolumes \/ AddVolumes \/ DropPrices \/ AddPrices,
           NEW t \in Candles, NEW r \in Prices
    PROVE  RangeInv' /\ CandleOK(t, r)'
<1>1. /\ tool.step \in {"read", "dropVolumes", "addVolumes", "dropPrices", "addPrices"}
      /\ UNCHANGED dirty
    BY DEF ReadChunk, DropVolumes, AddVolumes, DropPrices, AddPrices, Delete, history
<1>2. /\ tool.kind = "volume" /\ tool \in ToolType /\ ToolOnPath /\ TypeOK /\ TablesType
      /\ tool.from <= tool.at /\ ChunkHasBlocks
    BY <1>1, CandleKnown DEF ToolOnPath, ToolType, RollbackSteps
<1>3. /\ tool'.kind = "volume" /\ tool'.from = tool.from /\ tool'.to = tool.to
      /\ tool'.step \in {"dead", "read", "dropVolumes", "addVolumes", "dropPrices", "addPrices", "clear"}
      /\ tool'.step = "clear" => tool'.todo = Candles
    <2>1. CASE ReadChunk
        BY <1>2, <2>1 DEF ReadChunk, ToolType
    <2>2. CASE DropVolumes
        BY <1>2, <2>2 DEF DropVolumes, ToolType
    <2>3. CASE AddVolumes
        BY <1>2, <2>3 DEF AddVolumes, ToolType
    <2>4. CASE DropPrices
        BY <1>2, <2>4 DEF DropPrices, ToolType
    <2>5. CASE AddPrices
        BY <1>2, <2>5 DEF AddPrices, AfterChunks, ToolType
    <2>6. QED
        BY <2>1, <2>2, <2>3, <2>4, <2>5
<1>4. Cleared = {} /\ Cleared' = {} /\ Covered(t, r)' = Covered(t, r)
    BY <1>1, <1>3 DEF Cleared, Covered
<1>5. (Suspect(t, r)' <=> Covered(t, r)) /\ (Suspect(t, r) <=> Covered(t, r))
    <2>1. tool'.kind # "none" /\ tool'.step # "rebuild" /\ tool.kind # "none" /\ tool.step # "rebuild"
        BY <1>1, <1>2, <1>3
    <2>2. QED
        BY <1>4, <2>1 DEF Suspect
<1>6. Traced(t, r) /\ RepairedCandle(t, r)
    BY <1>2, CandleKnown DEF CandleOK
<1>7. r \in Rows /\ r.table = "prices" /\ r.block \in Int
    BY RowFacts
<1>8. r \in Corrected =>
        /\ Covered(t, r)
        /\ tool.step = "addPrices" => BlockRow(r.block) \in Stored
    <2> SUFFICES ASSUME r \in Corrected
                 PROVE  Covered(t, r) /\ (tool.step = "addPrices" => BlockRow(r.block) \in Stored)
        OBVIOUS
    <2>1. r.block \in Swaps \cap InChunk
        BY ChunkRows
    <2>2. tool.from <= r.block /\ r.block <= tool.to /\ tool.from \in Int /\ tool.to \in Int
        BY <1>2, <1>7, <2>1, ChunkEndFacts DEF InChunk
    <2>3. Covered(t, r)
        BY <1>7, <2>2, IntervalFacts DEF Covered
    <2>4. Assets # {}
        BY DEF Corrected, PriceRows
    <2>5. QED
        BY <2>1, <2>3, <2>4, <1>2 DEF ChunkHasBlocks
<1>9. BlockRow(r.block) \in Stored => BlockRow(r.block) \in Stored'
    <2>1. CASE ReadChunk
        BY <2>1 DEF ReadChunk, vars, Stored
    <2>2. CASE DropVolumes \/ DropPrices
        <3>1. PICK S : Delete(S) /\ \A s \in S : s.table \in {"volumes", "prices"}
            <4>1. CASE DropVolumes
                BY <4>1 DEF DropVolumes
            <4>2. CASE DropPrices
                BY <4>2, ChunkRows DEF DropPrices
            <4>3. QED
                BY <2>2, <4>1, <4>2
        <3>2. Stored' = Stored \ S
            BY <1>2, <3>1, DeleteRemoves
        <3>3. QED
            BY <3>1, <3>2, RowFacts
    <2>3. CASE AddVolumes
        BY <1>2, <2>3, ChunkRows, InsertAdds DEF AddVolumes
    <2>4. CASE AddPrices
        BY <1>2, <2>4, ChunkRows, InsertAdds DEF AddPrices
    <2>5. QED
        BY <2>1, <2>2, <2>3, <2>4
<1>10. \/ candles'[t][r] = candles[t][r] /\ Contribution(r)' = Contribution(r)
       \/ /\ r \in Corrected
          /\ candles'[t][r] = candles[t][r] \/ tool.step = "addPrices"
    <2>1. CASE ReadChunk
        BY <2>1 DEF ReadChunk, vars, Contribution, Stored
    <2>2. CASE DropVolumes
        <3>1. PICK S : Delete(S) /\ \A s \in S : s.table = "volumes"
            BY <2>2 DEF DropVolumes
        <3>2. Stored' = Stored \ S /\ r \notin S
            BY <1>2, <1>7, <3>1, DeleteRemoves
        <3>3. value'[r] = value[r] /\ UNCHANGED candles
            BY <3>1, <3>2 DEF Delete
        <3>4. Contribution(r)' = Contribution(r)
            BY <3>2, <3>3, ContributionIs
        <3>5. QED
            BY <3>3, <3>4
    <2>3. CASE AddVolumes
        <3>1. Stored' = Stored \cup UNION {VolumeRows(b) : b \in Swaps \cap InChunk}
            BY <1>2, <2>3, ChunkRows, InsertAdds DEF AddVolumes
        <3>2. r \in Stored' <=> r \in Stored
            BY <1>7, <3>1, ChunkRows
        <3>3. UNCHANGED <<value, candles>>
            BY <2>3 DEF AddVolumes
        <3>4. Contribution(r)' = Contribution(r)
            BY <3>2, <3>3, ContributionIs
        <3>5. QED
            BY <3>3, <3>4
    <2>4. CASE DropPrices
        <3>1. Delete(Corrected) /\ Stored' = Stored \ Corrected /\ UNCHANGED candles
            BY <1>2, <2>4, DeleteRemoves DEF DropPrices, Delete
        <3>2. r \notin Corrected => value'[r] = value[r]
            BY <3>1 DEF Delete
        <3>3. r \notin Corrected => Contribution(r)' = Contribution(r)
            BY <3>1, <3>2, ContributionIs
        <3>4. QED
            BY <3>1, <3>3
    <2>5. CASE AddPrices
        <3>1. Stored' = Stored \cup Corrected
            BY <1>2, <2>5, ChunkRows, InsertAdds DEF AddPrices
        <3>2. r \notin Corrected => value'[r] = value[r] /\ candles'[t][r] = candles[t][r]
            BY <2>5 DEF AddPrices, Fed
        <3>3. r \notin Corrected => Contribution(r)' = Contribution(r)
            BY <3>1, <3>2, ContributionIs
        <3>4. QED
            BY <2>5, <3>2, <3>3 DEF AddPrices
    <2>6. QED
        BY <2>1, <2>2, <2>3, <2>4, <2>5
<1>11. Traced(t, r)'
    BY <1>2, <1>6, <1>8, <1>9, <1>10 DEF Traced
<1>12. ~Suspect(t, r)' => Exact(t, r)'
    <2> SUFFICES ASSUME ~Covered(t, r) PROVE Exact(t, r)'
        BY <1>5
    <2>1. candles'[t][r] = candles[t][r] /\ Contribution(r)' = Contribution(r)
        BY <1>8, <1>10
    <2>2. Exact(t, r)
        BY <1>5, <1>6 DEF RepairedCandle
    <2>3. QED
        BY <1>1, <2>1, <2>2 DEF Exact, DirtyAt
<1>13. ~Awaits(t, r)'
    BY <1>4 DEF Awaits
<1>14. QED
    BY <1>3, <1>11, <1>12, <1>13 DEF CandleOK, RangeInv, RepairedCandle

LEMMA CandleTool ==
    CandleFacts /\ (StartTool \/ Rerun \/ ToolCrash \/ ToolStep \/ UNCHANGED <<vars, toolVars>>)
        => CandleInv'
<1> SUFFICES ASSUME CandleFacts, lates' = 0, ~torn',
                    StartTool \/ Rerun \/ ToolCrash \/ ToolStep \/ UNCHANGED <<vars, toolVars>>
             PROVE  \A t \in Candles, r \in Prices : RangeInv' /\ CandleOK(t, r)'
    BY DEF CandleInv
<1>1. lates = 0 /\ ~torn
    <2>1. CASE StartTool \/ Rerun \/ UNCHANGED <<vars, toolVars>>
        BY <2>1 DEF StartTool, Rerun, vars, toolVars, history
    <2>2. CASE ToolCrash
        BY <2>2 DEF ToolCrash, vars
    <2>3. CASE ToolStep
        BY <2>3 DEF ToolStep, vars, history, RollbackRange, RollbackDelete, RollbackCheckpoint, ClearTable,
                    FillTable, ReadChunk, DropVolumes, AddVolumes, DropPrices, AddPrices, Delete
    <2>4. QED
        BY <2>1, <2>2, <2>3
<1>2. FillTable => tool.step \in {"restore", "rebuild"}
    BY DEF FillTable
<1>3. ASSUME NEW t \in Candles, NEW r \in Prices
      PROVE  RangeInv' /\ CandleOK(t, r)'
    <2>1. CASE UNCHANGED <<vars, toolVars>>
        <3>1. RangeInv /\ CandleOK(t, r)
            BY <1>1, CandleKnown
        <3>2. UNCHANGED <<written, value, candles, dirty, tool>>
            BY <2>1 DEF vars, toolVars
        <3>3. /\ RangeInv' = RangeInv /\ Awaits(t, r)' = Awaits(t, r) /\ Suspect(t, r)' = Suspect(t, r)
              /\ Covered(t, r)' = Covered(t, r)
            BY <3>2 DEF RangeInv, Awaits, Suspect, Covered, Cleared
        <3>4. QED
            BY <3>1, <3>2, <3>3, SameTables DEF CandleOK, Traced, RolledCandle, RepairedCandle
    <2>2. CASE StartTool \/ Rerun \/ ToolCrash
        BY <1>1, <2>2, CandleStart, CandleRerun, CandleCrash
    <2>3. CASE ToolStep
        BY <1>1, <1>2, <2>3, CandleRange, CandleDelete, CandleCheckpoint, CandleClear, CandleRestore,
           CandleRebuild, CandleVolume
        DEF ToolStep
    <2>4. QED
        BY <2>1, <2>2, <2>3
<1>4. QED
    BY <1>3

\* When no tool is half way, a candle holds each price of its interval once, with the
\* volumes it has now, and nothing of a price that is gone, unless the pipeline fed the
\* interval while a repair rebuilt it: after rollbacks and the replays they lead to,
\* after repairs, through deaths and second runs of a tool.
THEOREM CandlesAddUp ==
    ASSUME ToolsRun, LagHolds
    PROVE  ToolsSpec => []CandlesExact
<1>1. ToolsInit => CandleFacts
    BY ToolsTypeInit, KeptPathInit, VisibleInit, LagInit, CandleInit DEF CandleFacts
<1>2. CandleFacts /\ [ToolsNext]_<<vars, toolVars>> => CandleFacts'
    BY ToolsTypeStep, KeptPathPipeline, KeptPathTool, VisiblePipeline, VisibleTool, LagPipeline, LagTool,
       CandlePipeline, CandleTool
    DEF ToolsNext, CandleFacts
<1>3. CandleFacts => CandlesExact
    <2> SUFFICES ASSUME CandleFacts, Settled, lates = 0, NEW t \in Candles, NEW r \in Prices
                 PROVE  Exact(t, r)
        BY DEF CandlesExact, Exact, DirtyAt
    <2>1. CandleOK(t, r) /\ ~Suspect(t, r) /\ tool.kind = "none"
        BY CandleKnown DEF Settled, Suspect
    <2>2. QED
        BY <2>1 DEF CandleOK, RepairedCandle
<1>4. QED
    BY <1>1, <1>2, <1>3, PTL DEF ToolsSpec
=============================================================================
