---------------------------- MODULE RawLive_proofs ----------------------------
(***************************************************************************)
(* Proofs about RawLive for every height, number of reorgs and crashes,    *)
(* budget of the gate and depth of the healer: the follower and the healer *)
(* agree on what is stored, and a rollback is justified.                   *)
(***************************************************************************)
EXTENDS RawLive, TLAPS

----------------------------------------------------------------------------
(* The invariant. *)

\* A branch shares with the branch that minted a block of it all that lies below.
PrefixInv ==
    \A b \in 0 .. branch, h \in Height :
        /\ lineage[b][h] <= b
        /\ \A g \in 0 .. h : lineage[lineage[b][h]][g] = lineage[b][g]

\* Nobody knows a branch that is still to come.
KnownInv ==
    /\ spent.reorgs = branch
    /\ \A h \in Height : raw[h] <= branch
    /\ \A b \in buf : b.hash <= branch
    /\ prev <= branch

CkptInv ==
    /\ ckpt # NoRow => ckpt.hash # Missing
    /\ CheckpointStored

\* The gate compares with a height that the row is not above, so what it lets pass is
\* not caught up.
GateInv ==
    /\ pc \in {"gate", "start"} => ckpt.height <= last
    /\ pc = "start" => last < head
    /\ pc = "gate" => unanswered < MaxUnanswered
    /\ NeverHot

InRun == pc \in {"follow", "checkpoint"}

\* The buffer lies above the row, ends where the follower is, and has the hash the next
\* block is compared with.
RunInv ==
    InRun =>
        /\ ckpt.height <= pos
        /\ \A b \in buf : ckpt.height < b.height /\ b.height <= pos
        /\ \A b, c \in buf : b.height = c.height => b = c
        /\ buf # {} => \E b \in buf : b.height = pos
        /\ buf # {} => prev # Missing
        /\ prev # Missing => Merged[pos] = prev
        /\ pc = "checkpoint" => buf = {} /\ prev # Missing

\* What the healer has found is still so when it acts on it.
HealInv ==
    /\ heal.step \in {"chain", "stored", "compare", "insert"} =>
          /\ heal.row # NoRow /\ ckpt # NoRow
          /\ heal.probe <= heal.row.height /\ heal.row.height <= ckpt.height
          /\ heal.seen <= branch
    /\ heal.step \in {"compare", "insert"} =>
          heal.stored # Missing /\ raw[heal.probe] = heal.stored
    /\ heal.step = "insert" => \E b \in DuringPass : lineage[b][heal.probe] = heal.stored
    /\ heal.step \in {"stored", "compare", "insert"} =>
          \E b \in DuringPass : lineage[b][heal.row.height] # heal.row.hash

LinkedAt(lin, view, at, h) ==
    (h \notin at /\ view[h] # Missing /\ view[h - 1] # Missing) =>
        view[h - 1] = lin[view[h]][h - 1]

\* All is linked below the row, below where a follower will start, and in a run below
\* where it is, the buffer included; without a row, wherever something is stored.
LinkInv ==
    /\ \A h \in 1 .. ckpt.height : LinkedAt(lineage, raw, seams, h)
    /\ ckpt = NoRow => \A h \in 1 .. Top : LinkedAt(lineage, raw, seams, h)
    /\ pc \in {"gate", "start"} => \A h \in 1 .. start - 1 : LinkedAt(lineage, raw, seams, h)
    /\ InRun => \A h \in 1 .. pos : LinkedAt(lineage, Merged, MergedSeams, h)

TipInv ==
    /\ TypeOK
    /\ PrefixInv
    /\ KnownInv
    /\ CkptInv
    /\ GateInv
    /\ RunInv
    /\ HealInv
    /\ LinkInv

----------------------------------------------------------------------------
(* Constants, and the buffer laid over what is stored. *)

LEMMA BoundFacts ==
    /\ Top \in Nat \ {0} /\ MaxReorgs \in Nat /\ MaxCrashes \in Nat
    /\ MaxUnanswered \in Nat \ {0} /\ REORG_MAX_DEPTH \in Nat \ {0}
    /\ 0 \in Height /\ 0 \in Branch
    /\ \A h \in Height : h \in Nat /\ h <= Top
    /\ \A h \in Nat : h <= Top => h \in Height
    /\ \A b \in Branch \cup {Missing} : b \in Int
    /\ Missing = -1 /\ Missing \notin Branch
    /\ Branch = 0 .. MaxReorgs
BY ConstantsAssumption DEF Height, Branch, Missing

Over(rows, bs) ==
    [h \in Height |-> IF {b \in bs : b.height = h} = {} THEN rows[h]
                      ELSE (CHOOSE b \in {b \in bs : b.height = h} : TRUE).hash]

Apart(bs) == \A b, c \in bs : b.height = c.height => b = c

LEMMA OverFacts ==
    ASSUME NEW rows, NEW bs, Apart(bs), NEW h \in Height
    PROVE  /\ (\A b \in bs : b.height # h) => Over(rows, bs)[h] = rows[h]
           /\ \A b \in bs : b.height = h => Over(rows, bs)[h] = b.hash
<1>1. ASSUME \A b \in bs : b.height # h
      PROVE  Over(rows, bs)[h] = rows[h]
    BY <1>1 DEF Over
<1>2. ASSUME NEW b \in bs, b.height = h
      PROVE  Over(rows, bs)[h] = b.hash
    <2>1. {c \in bs : c.height = h} = {b}
        BY <1>2 DEF Apart
    <2>2. (CHOOSE c \in {b} : TRUE) = b
        OBVIOUS
    <2>3. Over(rows, bs)[h] = (CHOOSE c \in {c \in bs : c.height = h} : TRUE).hash
        BY <2>1 DEF Over
    <2>4. QED
        BY <2>1, <2>2, <2>3
<1>3. QED
    BY <1>1, <1>2

LEMMA MergedIsOver == Merged = Over(raw, buf) /\ Merged' = Over(raw', buf')
BY DEF Merged, Over, Buffered

\* With nothing buffered, what is stored is what is stored.
LEMMA MergedEmpty ==
    ASSUME raw \in [Height -> Branch \cup {Missing}], buf = {}
    PROVE  Merged = raw /\ MergedSeams = seams
BY DEF Merged, MergedSeams, LeftAbove, Buffered

LEMMA SeamFacts ==
    ASSUME NEW h
    PROVE  /\ h \in MergedSeams <=>
                  \/ h \in seams /\ \A b \in buf : b.height # h
                  \/ \E b \in buf : b.first /\ b.height = h
                  \/ h \in LeftAbove
           /\ h \in MergedSeams' <=>
                  \/ h \in seams' /\ \A b \in buf' : b.height # h
                  \/ \E b \in buf' : b.first /\ b.height = h
                  \/ h \in LeftAbove'
BY DEF MergedSeams, Buffered

LEMMA LeftFacts ==
    ASSUME NEW h \in Height
    PROVE  /\ h \in LeftAbove <=>
                  /\ ckpt = NoRow /\ raw[h] # Missing
                  /\ \A b \in buf : b.height # h
                  /\ \E b \in buf : b.height = h - 1
           /\ h \in LeftAbove' <=>
                  /\ ckpt' = NoRow /\ raw'[h] # Missing
                  /\ \A b \in buf' : b.height # h
                  /\ \E b \in buf' : b.height = h - 1
BY DEF LeftAbove, Buffered

----------------------------------------------------------------------------
(* Who changes what. *)

LEMMA Frame ==
    ASSUME [Next]_vars
    PROVE  /\ \/ UNCHANGED <<lineage, branch>>
              \/ \E f \in Height : Reorg(f)
           /\ UNCHANGED head \/ Finalize
           /\ UNCHANGED raw \/ Flush \/ (\E h \in Height : Backfill(h))
           /\ UNCHANGED seams \/ Flush \/ (\E h \in Height : Backfill(h))
           /\ UNCHANGED ckpt \/ SaveCheckpoint \/ HealInsert
           /\ UNCHANGED <<last, start>> \/ Connect
           /\ UNCHANGED unanswered \/ Connect \/ GateUnanswered \/ GateAnswered
           /\ UNCHANGED <<pos, prev, buf>> \/ RunnerStart \/ Ingest \/ Flush
           /\ \/ UNCHANGED pc
              \/ Connect \/ GateUnanswered \/ GateAnswered \/ RunnerStart
              \/ Ingest \/ Flush \/ SaveCheckpoint
              \/ pc' \in {"down", "boot"}
           /\ \/ UNCHANGED heal
              \/ HealRead \/ HealCheckAnswered \/ HealStored \/ HealCompareAnswered
              \/ HealCompareUnanswered \/ HealInsert
              \/ heal' = Idle
           /\ UNCHANGED spent \/ Crash \/ HealStops \/ (\E f \in Height : Reorg(f))
<1> USE DEF node, tables, run, follower
<1>1. CASE Finalize
    BY <1>1 DEF Finalize
<1>2. CASE \E h \in Height : Reorg(h)
    BY <1>2 DEF Reorg
<1>3. CASE \E h \in Height : Backfill(h)
    BY <1>3 DEF Backfill
<1>4. CASE Connect
    BY <1>4 DEF Connect
<1>5. CASE GateUnanswered
    BY <1>5 DEF GateUnanswered
<1>6. CASE GateAnswered
    BY <1>6 DEF GateAnswered
<1>7. CASE RunnerStart
    BY <1>7 DEF RunnerStart
<1>8. CASE Ingest
    BY <1>8 DEF Ingest
<1>9. CASE Flush
    BY <1>9 DEF Flush
<1>10. CASE SaveCheckpoint
    BY <1>10 DEF SaveCheckpoint
<1>11. CASE Crash
    BY <1>11 DEF Crash
<1>12. CASE Restart
    BY <1>12 DEF Restart
<1>13. CASE Age
    BY <1>13 DEF Age
<1>14. CASE HealRead
    BY <1>14 DEF HealRead
<1>15. CASE HealCheckAnswered
    BY <1>15 DEF HealCheckAnswered
<1>16. CASE HealCheckUnanswered
    BY <1>16 DEF HealCheckUnanswered
<1>17. CASE HealStored
    BY <1>17 DEF HealStored
<1>18. CASE HealCompareAnswered
    BY <1>18 DEF HealCompareAnswered
<1>19. CASE HealCompareUnanswered
    BY <1>19 DEF HealCompareUnanswered
<1>20. CASE HealInsert
    BY <1>20 DEF HealInsert
<1>21. CASE HealRestart
    BY <1>21 DEF HealRestart
<1>22. CASE HealStops
    BY <1>22 DEF HealStops
<1>23. CASE UNCHANGED vars
    BY <1>23 DEF vars
<1>24. QED
    BY <1>1, <1>2, <1>3, <1>4, <1>5, <1>6, <1>7, <1>8, <1>9, <1>10, <1>11, <1>12, <1>13, <1>14,
       <1>15, <1>16, <1>17, <1>18, <1>19, <1>20, <1>21, <1>22, <1>23
    DEF Next, Follow, HealCheck, HealCompare

----------------------------------------------------------------------------
(* Types. *)

HealState == [step : {"idle", "chain", "stored", "compare", "insert", "restart"},
              row : Row, probe : Height, stored : Branch \cup {Missing}, seen : Branch]

LEMMA IdleFacts == NoRow \in Row /\ Idle \in HealState /\ Idle.step = "idle"
BY BoundFacts DEF Idle, NoRow, Row, HealState

LEMMA FieldFacts ==
    ASSUME TypeOK
    PROVE  /\ spent.reorgs \in 0 .. MaxReorgs /\ spent.crashes \in 0 .. MaxCrashes
           /\ ckpt.height \in Height /\ ckpt.hash \in Branch \cup {Missing}
           /\ heal \in HealState /\ heal.probe \in Height /\ heal.stored \in Branch \cup {Missing}
           /\ heal.row.height \in Height /\ heal.seen \in Branch
           /\ \A b \in buf : b.height \in Height /\ b.hash \in Branch
<1>1. spent.reorgs \in 0 .. MaxReorgs /\ spent.crashes \in 0 .. MaxCrashes
    BY DEF TypeOK
<1>2. ckpt.height \in Height /\ ckpt.hash \in Branch \cup {Missing}
    BY DEF TypeOK, Row
<1>3. heal \in HealState /\ heal.row \in Row
    BY DEF TypeOK, HealState
<1>4. heal.row.height \in Height /\ heal.seen \in Branch
    BY <1>3 DEF HealState, Row
<1>5. heal.probe \in Height /\ heal.stored \in Branch \cup {Missing}
    BY <1>3 DEF HealState
<1>6. \A b \in buf : b.height \in Height /\ b.hash \in Branch
    BY DEF TypeOK
<1>7. QED
    BY <1>1, <1>2, <1>3, <1>4, <1>5, <1>6

LEMMA NextFacts ==
    ASSUME TypeOK
    PROVE  /\ pos < head => pos + 1 \in Height
           /\ head \in Nat /\ last \in Nat /\ start \in Nat /\ pos \in Nat
           /\ ckpt.height \in Nat /\ heal.probe \in Nat /\ heal.row.height \in Nat
           /\ branch \in Nat /\ heal.seen \in Nat
           /\ \A b \in 0 .. branch : b \in Branch /\ b \in Nat /\ b <= branch
<1>1. pos \in 0 .. Top /\ head \in 0 .. Top /\ branch \in 0 .. MaxReorgs
    BY DEF TypeOK, Height, Branch
<1>2. pos < head => pos + 1 \in 0 .. Top
    BY <1>1, ConstantsAssumption
<1>3. branch \in Nat /\ \A b \in 0 .. branch : b \in 0 .. MaxReorgs /\ b \in Nat /\ b <= branch
    BY <1>1, ConstantsAssumption
<1>4. /\ last \in 0 .. Top /\ start \in 0 .. Top /\ ckpt.height \in 0 .. Top
      /\ heal.probe \in 0 .. Top /\ heal.row.height \in 0 .. Top /\ heal.seen \in 0 .. MaxReorgs
    BY FieldFacts DEF TypeOK, Height, Branch
<1>5. QED
    BY <1>1, <1>2, <1>3, <1>4 DEF Height, Branch

LEMMA DeeperFacts ==
    ASSUME TypeOK
    PROVE  \/ Deeper(heal) = Idle
           \/ /\ heal.probe - 1 \in Height
              /\ Deeper(heal) = [heal EXCEPT !.step = "stored", !.probe = heal.probe - 1]
              /\ Deeper(heal) \in HealState
<1>1. heal.probe \in Height
    BY DEF TypeOK
<1>2. heal.probe - 1 >= 0 => heal.probe - 1 \in Height
    BY <1>1, ConstantsAssumption DEF Height
<1>3. heal \in HealState
    BY FieldFacts
<1>4. heal.probe - 1 >= 0 => [heal EXCEPT !.step = "stored", !.probe = heal.probe - 1] \in HealState
    BY <1>2, <1>3 DEF HealState
<1>5. QED
    BY <1>2, <1>4 DEF Deeper

LEMMA TypeInit == Init => TypeOK
<1> SUFFICES ASSUME Init PROVE TypeOK
    OBVIOUS
<1> USE BoundFacts
<1>1. 1 \in Height /\ 0 \in 0 .. MaxUnanswered
    BY ConstantsAssumption DEF Height
<1>2. head \in Height /\ ckpt \in Row
    BY <1>1, IdleFacts DEF Init, Row
<1>3. lineage \in [Branch -> [Height -> Branch]] /\ raw \in [Height -> Branch \cup {Missing}]
    BY DEF Init
<1>4. spent \in [reorgs : 0 .. MaxReorgs, crashes : 0 .. MaxCrashes]
    BY DEF Init
<1>5. QED
    BY <1>1, <1>2, <1>3, <1>4, IdleFacts DEF Init, TypeOK, HealState

LEMMA TypeStep == TipInv /\ [Next]_vars => TypeOK'
<1> SUFFICES ASSUME TipInv, [Next]_vars PROVE TypeOK'
    OBVIOUS
<1> USE BoundFacts
<1>0. TypeOK /\ KnownInv /\ GateInv
    BY DEF TipInv
<1>a. head' \in Height
    <2>1. CASE Finalize
        BY <1>0, <2>1 DEF Finalize, TypeOK, Height
    <2>2. QED
        BY <1>0, <2>1, Frame DEF TypeOK
<1>b. lineage' \in [Branch -> [Height -> Branch]] /\ branch' \in Branch
    <2>1. ASSUME NEW f \in Height, Reorg(f)
          PROVE  lineage' \in [Branch -> [Height -> Branch]] /\ branch' \in Branch
        <3>1. branch + 1 \in Branch
            <4>1. spent.reorgs = branch /\ spent.reorgs < MaxReorgs
                BY <1>0, <2>1 DEF Reorg, KnownInv
            <4>2. QED
                BY <1>0, <4>1, FieldFacts
        <3>2. [h \in Height |-> IF h <= f THEN Chain[h] ELSE branch + 1] \in [Height -> Branch]
            BY <1>0, <3>1 DEF Chain, TypeOK
        <3>3. QED
            BY <1>0, <2>1, <3>1, <3>2 DEF Reorg, TypeOK
    <2>2. QED
        BY <1>0, <2>1, Frame DEF TypeOK
<1>c. ckpt' \in Row
    <2>1. CASE SaveCheckpoint
        BY <1>0, <2>1 DEF SaveCheckpoint, TypeOK, Row
    <2>2. CASE HealInsert
        BY <1>0, <2>2 DEF HealInsert, TypeOK, Row
    <2>3. QED
        BY <1>0, <2>1, <2>2, Frame DEF TypeOK
<1>d. aged' \in BOOLEAN
    BY <1>0 DEF Next, Finalize, Reorg, Backfill, Connect, GateUnanswered, GateAnswered, RunnerStart,
        Follow, Ingest, Flush, SaveCheckpoint, Crash, Restart, Age, HealRead, HealCheck, HealCheckAnswered,
        HealCheckUnanswered, HealStored, HealCompare, HealCompareAnswered, HealCompareUnanswered,
        HealInsert, HealRestart, HealStops, TypeOK, vars, tables
<1>e. raw' \in [Height -> Branch \cup {Missing}] /\ seams' \subseteq Height
    <2>1. CASE Flush
        <3>1. raw' = Merged /\ seams' = MergedSeams
            BY <2>1 DEF Flush
        <3>2. \A b \in buf : b.height \in Height /\ b.hash \in Branch
            BY <1>0 DEF TypeOK
        <3>3. MergedSeams \subseteq Height
            BY <1>0, <3>2 DEF MergedSeams, LeftAbove, TypeOK
        <3>4. \A h \in Height : Buffered(h) # {} => (CHOOSE b \in Buffered(h) : TRUE).hash \in Branch
            BY <3>2 DEF Buffered
        <3>5. Merged \in [Height -> Branch \cup {Missing}]
            BY <1>0, <3>4 DEF Merged, TypeOK
        <3>6. QED
            BY <3>1, <3>3, <3>5
    <2>2. ASSUME NEW h \in Height, Backfill(h)
          PROVE  raw' \in [Height -> Branch \cup {Missing}] /\ seams' \subseteq Height
        <3>1. PICK g \in Height : g = h + 1 /\ raw[g] # Missing
            BY <2>2 DEF Backfill
        <3>2. raw' = [raw EXCEPT ![h] = Chain[h]] /\ seams' = seams \cup {h, g}
            BY <2>2, <3>1 DEF Backfill
        <3>3. Chain[h] \in Branch
            BY <1>0 DEF TypeOK, Chain
        <3>4. QED
            BY <1>0, <3>1, <3>2, <3>3 DEF TypeOK
    <2>3. QED
        BY <1>0, <2>1, <2>2, Frame DEF TypeOK
<1>f. pc' \in {"boot", "gate", "start", "follow", "checkpoint", "down", "hot"}
    <2>1. CASE Connect \/ GateUnanswered \/ GateAnswered \/ RunnerStart \/ Ingest \/ Flush \/ SaveCheckpoint
        BY <1>0, <2>1 DEF Connect, GateUnanswered, GateAnswered, RunnerStart, Ingest, Flush,
            SaveCheckpoint, TypeOK
    <2>2. QED
        BY <1>0, <2>1, Frame DEF TypeOK
<1>g. last' \in Height /\ start' \in Height
    <2>1. CASE Connect
        <3>1. ckpt.height \in Height /\ Min2(head + 1, Top) \in Height
            BY <1>0 DEF TypeOK, Row, Min2, Height
        <3>2. QED
            BY <1>0, <2>1, <3>1 DEF Connect, TypeOK
    <2>2. QED
        BY <1>0, <2>1, Frame DEF TypeOK
<1>h. unanswered' \in 0 .. MaxUnanswered
    <2>1. CASE GateUnanswered
        BY <1>0, <2>1 DEF GateUnanswered, GateInv, TypeOK
    <2>2. CASE Connect \/ GateAnswered
        BY <2>2 DEF Connect, GateAnswered
    <2>3. QED
        BY <1>0, <2>1, <2>2, Frame DEF TypeOK
<1>i. /\ pos' \in Height /\ prev' \in Branch \cup {Missing}
      /\ buf' \subseteq [height : Height, hash : Branch, first : BOOLEAN]
    <2>1. CASE RunnerStart
        <3>1. Max2(start - 1, ckpt.height) \in Height
            BY <1>0 DEF TypeOK, Row, Max2, Height
        <3>2. QED
            BY <2>1, <3>1 DEF RunnerStart
    <2>2. CASE Ingest
        <3>1. CASE prev \in {Missing, Chain[pos]}
            <4>1. pos + 1 \in Height /\ Chain[pos + 1] \in Branch
                <5>1. pos + 1 \in Height
                    BY <1>0, <2>2 DEF Ingest, TypeOK, Height
                <5>2. QED
                    BY <1>0, <5>1 DEF TypeOK, Chain
            <4>2. /\ pos' = pos + 1 /\ prev' = Chain[pos + 1]
                  /\ buf' = buf \cup {[height |-> pos + 1, hash |-> Chain[pos + 1],
                                       first |-> prev = Missing]}
                BY <2>2, <3>1 DEF Ingest
            <4>3. [height |-> pos + 1, hash |-> Chain[pos + 1], first |-> prev = Missing]
                     \in [height : Height, hash : Branch, first : BOOLEAN]
                BY <4>1, Zenon
            <4>4. QED
                <5>1. pos' \in Height /\ prev' \in Branch
                    BY <4>1, <4>2
                <5>2. buf \subseteq [height : Height, hash : Branch, first : BOOLEAN]
                    BY <1>0 DEF TypeOK
                <5>3. QED
                    BY <5>1, <5>2, <4>2, <4>3, Zenon
        <3>2. CASE ~(prev \in {Missing, Chain[pos]})
            BY <1>0, <2>2, <3>2 DEF Ingest, TypeOK
        <3>3. QED
            BY <3>1, <3>2
    <2>3. CASE Flush
        BY <1>0, <2>3 DEF Flush, TypeOK
    <2>4. QED
        BY <1>0, <2>1, <2>2, <2>3, Frame DEF TypeOK
<1>j. heal' \in HealState
    <2> USE IdleFacts
    <2>0. heal \in HealState /\ \A h \in Height : raw[h] \in Branch \cup {Missing}
        BY <1>0, FieldFacts DEF TypeOK
    <2>1. CASE HealRead
        <3>1. ckpt.height \in Height
            BY <1>0 DEF TypeOK, Row
        <3>2. QED
            BY <1>0, <2>1, <3>1 DEF HealRead, TypeOK, HealState
    <2>2. CASE HealCheckAnswered \/ HealCompareUnanswered
        <3>1. heal' \in {Idle, Deeper(heal)}
            BY <2>2 DEF HealCheckAnswered, HealCompareUnanswered
        <3>2. QED
            BY <1>0, <3>1, DeeperFacts
    <2>3. CASE HealStored
        <3>1. \/ heal' = Deeper(heal)
              \/ heal' = [heal EXCEPT !.step = "compare", !.stored = raw[heal.probe]]
            BY <2>3 DEF HealStored
        <3>2. [heal EXCEPT !.step = "compare", !.stored = raw[heal.probe]] \in HealState
            BY <2>0 DEF HealState
        <3>3. QED
            BY <1>0, <3>1, <3>2, DeeperFacts
    <2>4. CASE HealCompareAnswered
        <3>1. heal' = Deeper(heal) \/ heal' = [heal EXCEPT !.step = "insert"]
            BY <2>4 DEF HealCompareAnswered
        <3>2. [heal EXCEPT !.step = "insert"] \in HealState
            BY <2>0 DEF HealState
        <3>3. QED
            BY <1>0, <3>1, <3>2, DeeperFacts
    <2>5. CASE HealInsert
        BY <1>0, <2>5, FieldFacts DEF HealInsert, HealState
    <2>6. QED
        BY <1>0, <2>1, <2>2, <2>3, <2>4, <2>5, Frame, FieldFacts
<1>k. spent' \in [reorgs : 0 .. MaxReorgs, crashes : 0 .. MaxCrashes]
    <2>1. CASE Crash \/ HealStops
        <3>1. spent' = [spent EXCEPT !.crashes = spent.crashes + 1] /\ spent.crashes < MaxCrashes
            BY <2>1 DEF Crash, HealStops
        <3>2. spent.crashes + 1 \in 0 .. MaxCrashes
            BY <1>0, <3>1, FieldFacts
        <3>3. QED
            BY <1>0, <3>1, <3>2 DEF TypeOK
    <2>2. CASE \E f \in Height : Reorg(f)
        <3>1. spent' = [spent EXCEPT !.reorgs = spent.reorgs + 1] /\ spent.reorgs < MaxReorgs
            BY <2>2 DEF Reorg
        <3>2. spent.reorgs + 1 \in 0 .. MaxReorgs
            BY <1>0, <3>1, FieldFacts
        <3>3. QED
            BY <1>0, <3>1, <3>2 DEF TypeOK
    <2>3. QED
        BY <1>0, <2>1, <2>2, Frame DEF TypeOK
<1>l. QED
    BY <1>a, <1>b, <1>c, <1>d, <1>e, <1>f, <1>g, <1>h, <1>i, <1>j, <1>k DEF TypeOK, HealState

----------------------------------------------------------------------------
(* What a step leaves alone. *)

LEMMA TipParts ==
    ASSUME TipInv
    PROVE  TypeOK /\ PrefixInv /\ KnownInv /\ CkptInv /\ GateInv /\ RunInv /\ HealInv /\ LinkInv
BY DEF TipInv

\* A run goes on as it was, or ends.
LEMMA RunGoesOn ==
    ASSUME [Next]_vars, InRun', ~RunnerStart, ~Ingest, ~Flush
    PROVE  InRun /\ UNCHANGED <<pos, prev, buf>> /\ (UNCHANGED pc \/ SaveCheckpoint)
<1>1. UNCHANGED pc \/ SaveCheckpoint
    BY Frame DEF InRun, Connect, GateUnanswered, GateAnswered
<1>2. InRun
    BY <1>1 DEF InRun, SaveCheckpoint
<1>3. QED
    BY <1>1, <1>2, Frame

\* What is stored up to the row stays: a flush is above it, a backfilled block below
\* all that is stored.
LEMMA StoredKept ==
    ASSUME TipInv, [Next]_vars, NEW h \in Height, h <= ckpt.height, raw[h] # Missing
    PROVE  raw'[h] = raw[h]
<1> USE TipParts, FieldFacts
<1>1. CASE Flush
    <2>1. InRun
        BY <1>1 DEF Flush, InRun
    <2>2. Apart(buf) /\ \A b \in buf : ckpt.height < b.height
        BY <2>1 DEF RunInv, Apart
    <2>3. \A b \in buf : b.height # h
        BY <2>2, BoundFacts
    <2>4. Over(raw, buf)[h] = raw[h]
        BY <2>2, <2>3, OverFacts
    <2>5. QED
        BY <1>1, <2>4, MergedIsOver DEF Flush
<1>2. ASSUME NEW g \in Height, Backfill(g)
      PROVE  raw'[h] = raw[h]
    <2>1. ~(h \in 0 .. g)
        BY <1>2 DEF Backfill
    <2>2. h # g
        BY <2>1, BoundFacts
    <2>3. QED
        BY <1>2, <2>2 DEF Backfill, TypeOK
<1>3. QED
    BY <1>1, <1>2, Frame

\* Only the healer lowers the row, and nobody takes it away.
LEMMA RowKept ==
    ASSUME TipInv, [Next]_vars
    PROVE  /\ ckpt # NoRow => ckpt' # NoRow
           /\ ~HealInsert => ckpt.height <= ckpt'.height
           /\ HealInsert => ckpt # NoRow /\ ckpt'.height <= ckpt.height
<1> USE TipParts, FieldFacts, BoundFacts
<1>1. CASE SaveCheckpoint
    <2>1. ckpt' = [height |-> pos, hash |-> prev] /\ pc = "checkpoint"
        BY <1>1 DEF SaveCheckpoint
    <2>2. prev # Missing /\ ckpt.height <= pos
        BY <2>1 DEF RunInv, InRun
    <2>3. ~HealInsert
        BY <1>1 DEF SaveCheckpoint, HealInsert, follower, run
    <2>4. QED
        BY <2>1, <2>2, <2>3 DEF NoRow
<1>2. CASE HealInsert
    <2>1. ckpt' = [height |-> heal.probe, hash |-> heal.stored] /\ heal.step = "insert"
        BY <1>2 DEF HealInsert
    <2>2. /\ ckpt # NoRow /\ heal.stored # Missing
          /\ heal.probe <= heal.row.height /\ heal.row.height <= ckpt.height
        BY <2>1 DEF HealInv
    <2>3. QED
        BY <1>2, <2>1, <2>2 DEF NoRow
<1>3. QED
    BY <1>1, <1>2, Frame

----------------------------------------------------------------------------
(* Every step keeps every part of the invariant. *)

LEMMA PrefixStep == TipInv /\ [Next]_vars => PrefixInv'
<1> SUFFICES ASSUME TipInv, [Next]_vars PROVE PrefixInv'
    OBVIOUS
<1>0. TypeOK /\ PrefixInv
    BY TipParts
<1>1. ASSUME NEW f \in Height, Reorg(f)
      PROVE  PrefixInv'
    <2>1. TypeOK'
        BY TypeStep
    <2>2. /\ branch' = branch + 1 /\ branch \in Nat
          /\ branch + 1 \in Branch
        BY <1>0, <1>1, <2>1 DEF Reorg, TypeOK, Branch
    <2>3. \A b \in 0 .. branch : b \in Branch /\ b # branch + 1
        BY <1>0, NextFacts
    <2>4. \A b \in 0 .. branch : lineage'[b] = lineage[b]
        BY <1>0, <1>1, <2>2, <2>3 DEF Reorg, TypeOK
    <2>5. \A h \in Height : lineage'[branch + 1][h] = IF h <= f THEN lineage[branch][h] ELSE branch + 1
        BY <1>0, <1>1, <2>2 DEF Reorg, TypeOK, Chain
    <2>6. \A b \in 0 .. branch, h \in Height : lineage[b][h] \in 0 .. branch
        <3>1. \A b \in 0 .. branch, h \in Height : lineage[b][h] \in Branch /\ lineage[b][h] <= b
            BY <1>0, <2>3 DEF PrefixInv, TypeOK
        <3>2. QED
            BY <2>2, <3>1, ConstantsAssumption DEF Branch
    <2>7. ASSUME NEW b \in 0 .. branch, NEW h \in Height
          PROVE  /\ lineage'[b][h] <= b
                 /\ \A g \in 0 .. h : lineage'[lineage'[b][h]][g] = lineage'[b][g]
        BY <1>0, <2>4, <2>6 DEF PrefixInv
    <2>8. ASSUME NEW h \in Height
          PROVE  /\ lineage'[branch + 1][h] <= branch + 1
                 /\ \A g \in 0 .. h : lineage'[lineage'[branch + 1][h]][g] = lineage'[branch + 1][g]
        <3>1. CASE h <= f
            <4>1. lineage'[branch + 1][h] = lineage[branch][h] /\ lineage[branch][h] \in 0 .. branch
                BY <2>2, <2>5, <2>6, <3>1
            <4>2. \A g \in 0 .. h : g \in Height /\ g <= f
                BY <3>1, ConstantsAssumption DEF Height
            <4>3. \A g \in 0 .. h : lineage[lineage[branch][h]][g] = lineage[branch][g]
                BY <1>0, <2>2 DEF PrefixInv
            <4>4. QED
                BY <2>2, <2>4, <2>5, <4>1, <4>2, <4>3
        <3>2. CASE ~(h <= f)
            <4>1. lineage'[branch + 1][h] = branch + 1
                BY <2>5, <3>2
            <4>2. QED
                BY <2>2, <4>1
        <3>3. QED
            BY <3>1, <3>2
    <2>9. \A b \in 0 .. branch' : b \in 0 .. branch \/ b = branch + 1
        BY <2>2
    <2>10. QED
        BY <2>7, <2>8, <2>9 DEF PrefixInv
<1>2. QED
    BY <1>0, <1>1, Frame DEF PrefixInv

LEMMA KnownStep == TipInv /\ [Next]_vars => KnownInv'
<1> SUFFICES ASSUME TipInv, [Next]_vars PROVE KnownInv'
    OBVIOUS
<1> USE TipParts, FieldFacts
<1>1. branch \in Nat /\ \A h \in Height : Chain[h] <= branch /\ Chain[h] \in Int
    <2>1. branch \in 0 .. branch
        BY DEF TypeOK, Branch
    <2>2. QED
        BY <2>1 DEF PrefixInv, Chain, TypeOK, Branch
<1>2. branch' = branch \/ branch' = branch + 1
    BY Frame DEF Reorg
<1>3. spent'.reorgs = branch'
    <2>1. CASE Crash \/ HealStops
        <3>1. branch' = branch /\ spent' = [spent EXCEPT !.crashes = spent.crashes + 1]
            BY <2>1 DEF Crash, HealStops, node
        <3>2. QED
            BY <3>1 DEF KnownInv, TypeOK
    <2>2. CASE \E f \in Height : Reorg(f)
        BY <2>2 DEF KnownInv, Reorg, TypeOK
    <2>3. QED
        BY <2>1, <2>2, Frame DEF KnownInv
<1>4. \A h \in Height : raw'[h] <= branch
    <2>1. CASE Flush
        <3>1. Apart(buf)
            BY <2>1 DEF Flush, RunInv, InRun, Apart
        <3>2. \A h \in Height : Over(raw, buf)[h] <= branch
            BY <3>1, OverFacts DEF KnownInv
        <3>3. QED
            BY <2>1, <3>2, MergedIsOver DEF Flush
    <2>2. ASSUME NEW g \in Height, Backfill(g)
          PROVE  \A h \in Height : raw'[h] <= branch
        BY <1>1, <2>2 DEF Backfill, TypeOK, KnownInv
    <2>3. QED
        BY <2>1, <2>2, Frame DEF KnownInv
<1>5. (\A b \in buf' : b.hash <= branch) /\ prev' <= branch
    <2>1. CASE RunnerStart
        BY <1>1, <2>1, BoundFacts DEF RunnerStart
    <2>2. CASE Ingest
        <3>1. CASE prev \in {Missing, Chain[pos]}
            <4>1. pos + 1 \in Height
                BY <2>2, NextFacts DEF Ingest
            <4>2. QED
                BY <1>1, <2>2, <3>1, <4>1 DEF Ingest, KnownInv
        <3>2. CASE prev \notin {Missing, Chain[pos]}
            BY <2>2, <3>2 DEF Ingest, KnownInv
        <3>3. QED
            BY <3>1, <3>2
    <2>3. CASE Flush
        BY <2>3 DEF Flush, KnownInv
    <2>4. QED
        BY <2>1, <2>2, <2>3, Frame DEF KnownInv
<1>6. TypeOK'
    BY TypeStep
<1>7. QED
    <2>1. /\ \A h \in Height : raw'[h] \in Int
          /\ \A b \in buf' : b.hash \in Int
          /\ prev' \in Int
        BY <1>6, BoundFacts DEF TypeOK
    <2>2. QED
        BY <1>1, <1>2, <1>3, <1>4, <1>5, <2>1 DEF KnownInv

LEMMA CkptStep == TipInv /\ [Next]_vars => CkptInv'
<1> SUFFICES ASSUME TipInv, [Next]_vars PROVE CkptInv'
    OBVIOUS
<1> USE TipParts, FieldFacts
<1>1. CASE SaveCheckpoint
    <2>1. ckpt' = [height |-> pos, hash |-> prev] /\ raw' = raw /\ pc = "checkpoint"
        BY <1>1 DEF SaveCheckpoint
    <2>2. prev # Missing /\ buf = {} /\ Merged[pos] = prev
        BY <2>1 DEF RunInv, InRun
    <2>3. raw[pos] = prev
        BY <2>2, MergedEmpty DEF TypeOK
    <2>4. QED
        BY <2>1, <2>2, <2>3 DEF CkptInv, CheckpointStored
<1>2. CASE HealInsert
    <2>1. ckpt' = [height |-> heal.probe, hash |-> heal.stored] /\ raw' = raw /\ heal.step = "insert"
        BY <1>2 DEF HealInsert
    <2>2. heal.stored # Missing /\ raw[heal.probe] = heal.stored
        BY <2>1 DEF HealInv
    <2>3. QED
        BY <2>1, <2>2 DEF CkptInv, CheckpointStored
<1>3. CASE UNCHANGED ckpt
    <2>1. CASE ckpt = NoRow
        BY <1>3, <2>1 DEF CkptInv, CheckpointStored
    <2>2. CASE ckpt # NoRow
        <3>1. raw[ckpt.height] = ckpt.hash /\ ckpt.hash # Missing
            BY <2>2 DEF CkptInv, CheckpointStored
        <3>2. raw'[ckpt.height] = raw[ckpt.height]
            BY <3>1, StoredKept, BoundFacts
        <3>3. QED
            BY <1>3, <3>1, <3>2 DEF CkptInv, CheckpointStored
    <2>3. QED
        BY <2>1, <2>2
<1>4. QED
    BY <1>1, <1>2, <1>3, Frame

LEMMA NatStep ==
    ASSUME TipInv, [Next]_vars
    PROVE  ckpt'.height \in Nat /\ head' \in Nat /\ head <= head'
<1>1. TypeOK'
    BY TypeStep
<1>2. ckpt'.height \in Height /\ head' \in Height
    BY <1>1 DEF TypeOK, Row
<1>3. head' = head \/ head' = head + 1
    BY Frame DEF Finalize
<1>4. head \in Nat
    BY TipParts, NextFacts
<1>5. QED
    BY <1>2, <1>3, <1>4, BoundFacts

LEMMA GateStep == TipInv /\ [Next]_vars => GateInv'
<1> SUFFICES ASSUME TipInv, [Next]_vars PROVE GateInv'
    OBVIOUS
<1> USE TipParts, FieldFacts, BoundFacts
<1>1. head \in Nat /\ head' \in Nat /\ head <= head' /\ last \in Nat /\ ckpt.height \in Nat
    BY NextFacts, NatStep
<1>2. CASE Connect
    BY <1>1, <1>2 DEF Connect, GateInv, NeverHot, tables
<1>3. CASE GateUnanswered
    BY <1>1, <1>3 DEF GateUnanswered, GateInv, NeverHot, tables, TypeOK
<1>4. CASE GateAnswered
    BY <1>1, <1>4 DEF GateAnswered, GateInv, NeverHot, tables, node
<1>5. CASE RunnerStart
    <2>1. ckpt.height < head
        BY <1>1, <1>5 DEF RunnerStart, GateInv
    <2>2. pc' \in {"follow", "down"}
        BY <1>1, <1>5, <2>1 DEF RunnerStart
    <2>3. QED
        BY <2>2 DEF GateInv, NeverHot
<1>6. CASE Ingest \/ Flush \/ SaveCheckpoint
    BY <1>6 DEF Ingest, Flush, SaveCheckpoint, GateInv, NeverHot
<1>7. CASE /\ pc' \in {pc, "down", "boot"}
           /\ UNCHANGED <<last, unanswered>>
           /\ ~SaveCheckpoint
    <2>1. ckpt'.height <= ckpt.height /\ ckpt'.height \in Nat
        <3>1. CASE UNCHANGED ckpt
            BY <1>1, <3>1
        <3>2. CASE HealInsert
            BY <3>2, RowKept, NatStep
        <3>3. QED
            BY <1>7, <3>1, <3>2, Frame
    <2>2. QED
        BY <1>1, <1>7, <2>1 DEF GateInv, NeverHot
<1>8. QED
    BY <1>2, <1>3, <1>4, <1>5, <1>6, <1>7, Frame

LEMMA RunStep == TipInv /\ [Next]_vars => RunInv'
<1> SUFFICES ASSUME TipInv, [Next]_vars, InRun' PROVE RunInv'
    BY DEF RunInv
<1> USE TipParts, FieldFacts, BoundFacts
<1>1. CASE RunnerStart
    <2>1. /\ buf' = {} /\ prev' = Missing /\ ckpt' = ckpt /\ pos' = Max2(start - 1, ckpt.height)
          /\ pc' # "checkpoint"
        BY <1>1 DEF RunnerStart, tables
    <2>2. ckpt.height <= Max2(start - 1, ckpt.height)
        BY NextFacts DEF Max2
    <2>3. QED
        BY <2>1, <2>2 DEF RunInv
<1>2. CASE Ingest
    <2>1. /\ prev \in {Missing, Chain[pos]} /\ InRun /\ pc = "follow"
          /\ pos' = pos + 1 /\ prev' = Chain[pos + 1] /\ pc' = pc
          /\ buf' = buf \cup {[height |-> pos + 1, hash |-> Chain[pos + 1], first |-> prev = Missing]}
          /\ raw' = raw /\ ckpt' = ckpt
        BY <1>2 DEF Ingest, InRun, tables
    <2>2. pos + 1 \in Height /\ Chain[pos + 1] \in Branch /\ pos \in Nat
        <3>1. pos + 1 \in Height /\ pos \in Nat
            BY <1>2, NextFacts DEF Ingest
        <3>2. QED
            <4>1. lineage \in [Branch -> [Height -> Branch]] /\ branch \in Branch
                BY DEF TypeOK
            <4>2. QED
                BY <3>1, <4>1 DEF Chain
    <2>3. PICK n : n.height = pos + 1 /\ n.hash = Chain[pos + 1] /\ buf' = buf \cup {n}
        <3>1. [height |-> pos + 1, hash |-> Chain[pos + 1], first |-> prev = Missing].height = pos + 1
            BY Zenon
        <3>2. [height |-> pos + 1, hash |-> Chain[pos + 1], first |-> prev = Missing].hash = Chain[pos + 1]
            BY Zenon
        <3>3. QED
            BY <2>1, <3>1, <3>2, Zenon
    <2>4. /\ ckpt.height <= pos
          /\ \A b \in buf : ckpt.height < b.height /\ b.height <= pos /\ b.height \in Nat
          /\ \A b, c \in buf : b.height = c.height => b = c
        BY <2>1 DEF RunInv
    <2>5. \A b \in buf' : ckpt.height < b.height /\ b.height <= pos + 1
        BY <2>2, <2>3, <2>4
    <2>6. Apart(buf')
        BY <2>2, <2>3, <2>4 DEF Apart
    <2>7. Over(raw', buf')[pos + 1] = Chain[pos + 1]
        BY <2>2, <2>3, <2>6, OverFacts
    <2>8. Merged'[pos + 1] = Chain[pos + 1]
        BY <2>7, MergedIsOver
    <2>9. \E b \in buf' : b.height = pos + 1
        BY <2>3
    <2>10. QED
        BY <2>1, <2>2, <2>4, <2>5, <2>6, <2>8, <2>9 DEF RunInv, Apart
<1>3. CASE Flush
    <2>1. /\ InRun /\ buf # {} /\ buf' = {} /\ raw' = Merged
          /\ pos' = pos /\ prev' = prev /\ ckpt' = ckpt /\ pc' = "checkpoint"
        BY <1>3 DEF Flush, InRun
    <2>2. Merged' = raw'
        <3>1. TypeOK'
            BY TypeStep
        <3>2. Over(raw', buf') = raw'
            BY <2>1, <3>1 DEF Over, TypeOK
        <3>3. QED
            BY <3>2, MergedIsOver
    <2>3. QED
        BY <2>1, <2>2 DEF RunInv
<1>4. CASE ~RunnerStart /\ ~Ingest /\ ~Flush
    <2>1. InRun /\ UNCHANGED <<pos, prev, buf>> /\ (UNCHANGED pc \/ SaveCheckpoint)
        BY <1>4, RunGoesOn
    <2>2. ckpt'.height <= pos /\ \A b \in buf : ckpt'.height < b.height
        <3>1. /\ ckpt'.height \in Nat /\ ckpt.height \in Nat /\ pos \in Nat
              /\ \A b \in buf : b.height \in Nat
            BY NatStep, NextFacts
        <3>2. ckpt.height <= pos /\ \A b \in buf : ckpt.height < b.height
            BY <2>1 DEF RunInv
        <3>3. CASE SaveCheckpoint
            <4>1. ckpt'.height = pos /\ buf = {}
                BY <2>1, <3>3 DEF SaveCheckpoint, RunInv
            <4>2. QED
                BY <3>1, <4>1
        <3>4. CASE ckpt'.height <= ckpt.height
            BY <3>1, <3>2, <3>4
        <3>5. QED
            BY <3>1, <3>3, <3>4, Frame, RowKept
    <2>3. prev # Missing => Merged'[pos] = prev
        <3>1. CASE raw' = raw
            BY <2>1, <3>1, MergedIsOver DEF RunInv
        <3>2. ASSUME NEW g \in Height, Backfill(g), prev # Missing
              PROVE  Merged'[pos] = prev
            <4>1. raw[ckpt.height] # Missing
                BY <3>2 DEF Backfill, CkptInv, CheckpointStored
            <4>2. g < ckpt.height /\ raw' = [raw EXCEPT ![g] = Chain[g]]
                <5>1. ~(ckpt.height \in 0 .. g)
                    BY <3>2, <4>1 DEF Backfill
                <5>2. QED
                    BY <3>2, <5>1, NextFacts DEF Backfill
            <4>3. raw'[pos] = raw[pos] /\ pos \in Height
                <5>1. pos # g
                    <6>1. ckpt.height <= pos
                        BY <2>1 DEF RunInv
                    <6>2. QED
                        BY <4>2, <6>1, NextFacts
                <5>2. pos \in Height
                    BY DEF TypeOK
                <5>3. QED
                    BY <4>2, <5>1, <5>2 DEF TypeOK
            <4>4. Over(raw', buf)[pos] = Over(raw, buf)[pos]
                BY <4>3 DEF Over
            <4>5. QED
                BY <2>1, <3>2, <4>4, MergedIsOver DEF RunInv
        <3>3. QED
            BY <1>4, <3>1, <3>2, Frame
    <2>4. pc' = "checkpoint" => pc = "checkpoint"
        BY <2>1 DEF SaveCheckpoint
    <2>5. QED
        BY <2>1, <2>2, <2>3, <2>4 DEF RunInv
<1>5. QED
    BY <1>1, <1>2, <1>3, <1>4

Searching(h) == h.step \in {"chain", "stored", "compare", "insert"}

\* Whatever the others do during a pass, what the healer relies on stays.
LEMMA PassKept ==
    ASSUME TipInv, [Next]_vars, ~HealInsert, Searching(heal)
    PROVE  /\ ckpt' # NoRow /\ heal.row # NoRow
           /\ heal.probe <= heal.row.height /\ heal.row.height <= ckpt'.height
           /\ heal.seen <= branch'
           /\ heal.step \in {"compare", "insert"} =>
                 heal.stored # Missing /\ raw'[heal.probe] = heal.stored
           /\ \A h \in Height : \A x : (\E b \in heal.seen .. branch : lineage[b][h] = x) =>
                 \E b \in heal.seen .. branch' : lineage'[b][h] = x
           /\ \A h \in Height : \A x : (\E b \in heal.seen .. branch : lineage[b][h] # x) =>
                 \E b \in heal.seen .. branch' : lineage'[b][h] # x
<1> USE TipParts, FieldFacts, NextFacts
<1>1. /\ heal.row # NoRow /\ ckpt # NoRow
      /\ heal.probe <= heal.row.height /\ heal.row.height <= ckpt.height
      /\ heal.seen <= branch
    BY DEF HealInv, Searching
<1>2. ckpt' # NoRow /\ ckpt.height <= ckpt'.height /\ ckpt'.height \in Nat
    BY <1>1, RowKept, NatStep
<1>3. heal.step \in {"compare", "insert"} => raw'[heal.probe] = heal.stored /\ heal.stored # Missing
    <2>1. SUFFICES ASSUME heal.step \in {"compare", "insert"}
                   PROVE  raw'[heal.probe] = heal.stored /\ heal.stored # Missing
        OBVIOUS
    <2>2. heal.stored # Missing /\ raw[heal.probe] = heal.stored
        BY <2>1 DEF HealInv
    <2>3. heal.probe <= ckpt.height
        BY <1>1
    <2>4. QED
        BY <2>2, <2>3, StoredKept
<1>4. /\ branch <= branch' /\ branch' \in Nat
      /\ \A b \in heal.seen .. branch : lineage'[b] = lineage[b]
    <2>1. CASE \E f \in Height : Reorg(f)
        <3>1. \A b \in heal.seen .. branch : b \in Branch /\ b # branch + 1
            <4>1. \A b \in heal.seen .. branch : b \in 0 .. branch
                OBVIOUS
            <4>2. QED
                BY <4>1
        <3>2. branch' = branch + 1 /\ \A b \in heal.seen .. branch : lineage'[b] = lineage[b]
            BY <2>1, <3>1 DEF Reorg, TypeOK
        <3>3. QED
            BY <3>2
    <2>2. CASE UNCHANGED <<lineage, branch>>
        BY <2>2
    <2>3. QED
        BY <2>1, <2>2, Frame
<1>5. \A b \in heal.seen .. branch : b \in heal.seen .. branch' /\ lineage'[b] = lineage[b]
    BY <1>4
<1>6. QED
    BY <1>1, <1>2, <1>3, <1>4, <1>5

LEMMA HealStep == TipInv /\ [Next]_vars => HealInv'
<1> SUFFICES ASSUME TipInv, [Next]_vars, Searching(heal') PROVE HealInv'
    BY DEF HealInv, Searching
<1> USE TipParts, FieldFacts, NextFacts
<1>a. heal' # Idle /\ ~HealInsert
    <2>1. heal' # Idle
        BY IdleFacts DEF Searching
    <2>2. ASSUME HealInsert PROVE FALSE
        <3>1. heal' = [heal EXCEPT !.step = "restart"]
            BY <2>2 DEF HealInsert
        <3>2. heal'.step = "restart"
            BY <3>1 DEF HealState
        <3>3. QED
            BY <3>2 DEF Searching
    <2>3. QED
        BY <2>1, <2>2
<1>1. CASE HealRead
    <2>1. /\ heal' = [step |-> "chain", row |-> ckpt, probe |-> ckpt.height,
                      stored |-> Missing, seen |-> branch]
          /\ ckpt # NoRow /\ ckpt' = ckpt /\ branch' = branch
        BY <1>1 DEF HealRead, node, tables
    <2>2. /\ heal'.step = "chain" /\ heal'.row = ckpt /\ heal'.probe = ckpt.height
          /\ heal'.seen = branch
        BY <2>1
    <2>3. QED
        BY <2>1, <2>2 DEF HealInv
<1>2. CASE UNCHANGED heal
    <2>1. Searching(heal)
        BY <1>2
    <2>2. heal.step = "insert" => \E b \in heal.seen .. branch : lineage[b][heal.probe] = heal.stored
        BY DEF HealInv, DuringPass
    <2>3. heal.step \in {"stored", "compare", "insert"} =>
              \E b \in heal.seen .. branch : lineage[b][heal.row.height] # heal.row.hash
        BY DEF HealInv, DuringPass
    <2>4. /\ ckpt' # NoRow /\ heal.row # NoRow
          /\ heal.probe <= heal.row.height /\ heal.row.height <= ckpt'.height
          /\ heal.seen <= branch'
          /\ heal.step \in {"compare", "insert"} =>
                heal.stored # Missing /\ raw'[heal.probe] = heal.stored
        BY <1>a, <2>1, PassKept
    <2>5. heal.step = "insert" => \E b \in heal.seen .. branch' : lineage'[b][heal.probe] = heal.stored
        BY <1>a, <2>1, <2>2, PassKept
    <2>6. heal.step \in {"stored", "compare", "insert"} =>
              \E b \in heal.seen .. branch' : lineage'[b][heal.row.height] # heal.row.hash
        BY <1>a, <2>1, <2>3, PassKept
    <2>7. QED
        BY <1>2, <2>4, <2>5, <2>6 DEF HealInv, DuringPass
<1>3. ASSUME Searching(heal), UNCHANGED <<node, tables>>, heal' = Deeper(heal),
             \E b \in heal.seen .. branch : lineage[b][heal.row.height] # heal.row.hash
      PROVE  HealInv'
    <2>1. heal' = [heal EXCEPT !.step = "stored", !.probe = heal.probe - 1]
        BY <1>3, <1>a, DeeperFacts
    <2>2. /\ heal'.step = "stored" /\ heal'.row = heal.row /\ heal'.probe = heal.probe - 1
          /\ heal'.seen = heal.seen
        BY <2>1 DEF HealState
    <2>3. UNCHANGED <<lineage, branch, ckpt>>
        BY <1>3 DEF node, tables
    <2>4. /\ heal.row # NoRow /\ ckpt # NoRow
          /\ heal.probe <= heal.row.height /\ heal.row.height <= ckpt.height
          /\ heal.seen <= branch
        BY <1>3 DEF HealInv, Searching
    <2>5. heal.probe - 1 <= heal.row.height
        BY <2>4
    <2>6. QED
        BY <1>3, <2>2, <2>3, <2>4, <2>5 DEF HealInv, DuringPass
<1>4. CASE HealCheckAnswered
    <2>1. /\ heal' = Deeper(heal) /\ Searching(heal) /\ UNCHANGED <<node, tables>>
          /\ lineage[branch][heal.row.height] # heal.row.hash
        BY <1>4, <1>a DEF HealCheckAnswered, Searching, Chain
    <2>2. heal.seen <= branch
        BY <2>1 DEF HealInv, Searching
    <2>3. branch \in heal.seen .. branch
        BY <2>2
    <2>4. QED
        BY <1>3, <2>1, <2>3
<1>5. CASE HealCompareUnanswered
    <2>1. /\ heal' = Deeper(heal) /\ Searching(heal) /\ UNCHANGED <<node, tables>>
          /\ heal.step = "compare"
        BY <1>5 DEF HealCompareUnanswered, Searching
    <2>2. \E b \in heal.seen .. branch : lineage[b][heal.row.height] # heal.row.hash
        BY <2>1 DEF HealInv, DuringPass
    <2>3. QED
        BY <1>3, <2>1, <2>2
<1>6. CASE HealStored
    <2>1. UNCHANGED <<node, tables>> /\ heal.step = "stored" /\ Searching(heal)
        BY <1>6 DEF HealStored, Searching
    <2>2. /\ \E b \in heal.seen .. branch : lineage[b][heal.row.height] # heal.row.hash
          /\ heal.row # NoRow /\ ckpt # NoRow
          /\ heal.probe <= heal.row.height /\ heal.row.height <= ckpt.height
          /\ heal.seen <= branch
        BY <2>1 DEF HealInv, DuringPass, Searching
    <2>3. CASE raw[heal.probe] # Missing
        <3>1. heal' = [heal EXCEPT !.step = "compare", !.stored = raw[heal.probe]]
            BY <1>6, <2>3 DEF HealStored
        <3>2. /\ heal'.step = "compare" /\ heal'.row = heal.row /\ heal'.probe = heal.probe
              /\ heal'.seen = heal.seen /\ heal'.stored = raw[heal.probe]
            BY <3>1 DEF HealState
        <3>3. UNCHANGED <<lineage, branch, ckpt, raw>>
            BY <2>1 DEF node, tables
        <3>4. QED
            BY <2>2, <2>3, <3>2, <3>3 DEF HealInv, DuringPass
    <2>4. CASE raw[heal.probe] = Missing
        BY <1>3, <1>6, <2>1, <2>2, <2>4 DEF HealStored
    <2>5. QED
        BY <2>3, <2>4
<1>7. CASE HealCompareAnswered
    <2>1. UNCHANGED <<node, tables>> /\ heal.step = "compare" /\ Searching(heal)
        BY <1>7 DEF HealCompareAnswered, Searching
    <2>2. /\ \E b \in heal.seen .. branch : lineage[b][heal.row.height] # heal.row.hash
          /\ heal.row # NoRow /\ ckpt # NoRow
          /\ heal.probe <= heal.row.height /\ heal.row.height <= ckpt.height
          /\ heal.seen <= branch
          /\ heal.stored # Missing /\ raw[heal.probe] = heal.stored
        BY <2>1 DEF HealInv, DuringPass, Searching
    <2>3. CASE lineage[branch][heal.probe] = heal.stored
        <3>1. heal' = [heal EXCEPT !.step = "insert"]
            BY <1>7, <2>3 DEF HealCompareAnswered, Chain
        <3>2. /\ heal'.step = "insert" /\ heal'.row = heal.row /\ heal'.probe = heal.probe
              /\ heal'.seen = heal.seen /\ heal'.stored = heal.stored
            BY <3>1 DEF HealState
        <3>3. UNCHANGED <<lineage, branch, ckpt, raw>>
            BY <2>1 DEF node, tables
        <3>4. branch \in heal.seen .. branch
            BY <2>2
        <3>5. QED
            BY <2>2, <2>3, <3>2, <3>3, <3>4 DEF HealInv, DuringPass
    <2>4. CASE lineage[branch][heal.probe] # heal.stored
        BY <1>3, <1>7, <2>1, <2>2, <2>4 DEF HealCompareAnswered, Chain
    <2>5. QED
        BY <2>3, <2>4
<1>8. QED
    BY <1>a, <1>1, <1>2, <1>4, <1>5, <1>6, <1>7, Frame

----------------------------------------------------------------------------
(* Links. *)

LEMMA LinkedKept ==
    ASSUME NEW lin, NEW now, NEW v, NEW w, NEW at, NEW on, NEW h,
           LinkedAt(lin, v, at, h),
           h \notin on =>
               /\ h \notin at /\ w[h] = v[h] /\ w[h - 1] = v[h - 1]
               /\ v[h] # Missing => now[v[h]] = lin[v[h]]
    PROVE  LinkedAt(now, w, on, h)
BY DEF LinkedAt

LEMMA PlaceFacts ==
    ASSUME TypeOK
    PROVE  /\ \A h \in 1 .. Top : h \in Height /\ h - 1 \in Height /\ h \in Nat /\ h # 0
           /\ \A h \in 1 .. ckpt.height : h \in 1 .. Top
           /\ \A h \in 1 .. start - 1 : h \in 1 .. Top
           /\ \A h \in 1 .. pos : h \in 1 .. Top
<1>1. Top \in Nat
    BY ConstantsAssumption
<1>2. /\ ckpt.height \in Nat /\ ckpt.height <= Top
      /\ start \in Nat /\ start <= Top /\ pos \in Nat /\ pos <= Top
    BY FieldFacts, BoundFacts DEF TypeOK
<1>3. \A h \in 1 .. Top : h \in Height /\ h - 1 \in Height /\ h \in Nat /\ h # 0
    BY <1>1 DEF Height
<1>4. QED
    BY <1>1, <1>2, <1>3

\* The chain of a branch anybody knows stays as it is.
LEMMA ChainKept ==
    ASSUME TipInv, [Next]_vars, NEW x \in Branch \cup {Missing}, x # Missing, x <= branch
    PROVE  lineage'[x] = lineage[x]
<1>1. x \in Branch /\ x # branch + 1
    BY TipParts, NextFacts, BoundFacts
<1>2. CASE \E f \in Height : Reorg(f)
    BY <1>1, <1>2, TipParts DEF Reorg, TypeOK
<1>3. QED
    BY <1>2, Frame

LEMMA MergedFacts ==
    ASSUME TipInv, InRun, NEW h \in Height
    PROVE  Merged[h] \in Branch \cup {Missing} /\ Merged[h] <= branch
<1>1. Apart(buf)
    BY TipParts DEF RunInv, Apart
<1>2. \A b \in buf : b.hash \in Branch /\ b.hash <= branch
    BY TipParts, FieldFacts DEF KnownInv
<1>3. raw[h] \in Branch \cup {Missing} /\ raw[h] <= branch
    BY TipParts DEF KnownInv, TypeOK
<1>4. Over(raw, buf)[h] \in Branch \cup {Missing} /\ Over(raw, buf)[h] <= branch
    BY <1>1, <1>2, <1>3, OverFacts
<1>5. QED
    BY <1>4, MergedIsOver

LEMMA ViewUnchanged ==
    ASSUME UNCHANGED <<raw, buf, seams>>, UNCHANGED ckpt \/ (ckpt # NoRow /\ ckpt' # NoRow)
    PROVE  UNCHANGED <<Merged, MergedSeams>>
<1>1. UNCHANGED Merged
    BY MergedIsOver
<1>2. UNCHANGED LeftAbove
    BY DEF LeftAbove, Buffered
<1>3. QED
    BY <1>1, <1>2 DEF MergedSeams, Buffered

LEMMA LinkReorg ==
    ASSUME TipInv, NEW f \in Height, Reorg(f)
    PROVE  LinkInv'
<1> USE TipParts, PlaceFacts
<1>1. [Next]_vars
    BY DEF Next
<1>2. UNCHANGED <<raw, buf, seams, ckpt, start, pos, pc>>
    BY DEF Reorg, tables, follower, run
<1>3. UNCHANGED <<Merged, MergedSeams, InRun>>
    BY <1>2, ViewUnchanged DEF InRun
<1>4. ASSUME NEW h \in 1 .. Top
      PROVE  /\ raw[h] # Missing => lineage'[raw[h]] = lineage[raw[h]]
             /\ InRun /\ Merged[h] # Missing => lineage'[Merged[h]] = lineage[Merged[h]]
    <2>1. raw[h] \in Branch \cup {Missing} /\ raw[h] <= branch
        BY DEF TypeOK, KnownInv
    <2>2. InRun => Merged[h] \in Branch \cup {Missing} /\ Merged[h] <= branch
        BY MergedFacts
    <2>3. QED
        BY <1>1, <2>1, <2>2, ChainKept
<1>5. \A h \in 1 .. Top : LinkedAt(lineage, raw, seams, h) => LinkedAt(lineage', raw, seams, h)
    BY <1>4, LinkedKept
<1>6. InRun => \A h \in 1 .. Top : LinkedAt(lineage, Merged, MergedSeams, h) =>
                                      LinkedAt(lineage', Merged, MergedSeams, h)
    BY <1>4, LinkedKept
<1>7. QED
    BY <1>2, <1>3, <1>5, <1>6 DEF LinkInv

LEMMA LinkBackfill ==
    ASSUME TipInv, NEW g \in Height, Backfill(g)
    PROVE  LinkInv'
<1> USE TipParts, PlaceFacts, NextFacts
<1>1. /\ UNCHANGED <<lineage, buf, ckpt, start, pos, pc>> /\ ckpt # NoRow
      /\ raw' = [raw EXCEPT ![g] = Chain[g]] /\ seams' = seams \cup {g, g + 1}
    BY DEF Backfill, node, follower, run
<1>2. g \in Nat /\ g < ckpt.height
    <2>1. raw[ckpt.height] # Missing
        BY <1>1 DEF CkptInv, CheckpointStored
    <2>2. ~(ckpt.height \in 0 .. g)
        BY <2>1 DEF Backfill
    <2>3. QED
        BY <2>2, BoundFacts
<1>3. \A h \in Height : h # g => raw'[h] = raw[h]
    BY <1>1 DEF TypeOK
<1>4. ASSUME NEW h \in 1 .. Top, LinkedAt(lineage, raw, seams, h)
      PROVE  LinkedAt(lineage, raw', seams', h)
    <2>1. h \notin seams' => h \notin seams /\ h # g /\ h - 1 # g
        BY <1>1, <1>2
    <2>2. QED
        BY <1>3, <1>4, <2>1, LinkedKept
<1>5. ASSUME InRun, NEW h \in 1 .. Top, LinkedAt(lineage, Merged, MergedSeams, h)
      PROVE  LinkedAt(lineage, Merged', MergedSeams', h)
    <2>1. \A b \in buf : ckpt.height < b.height /\ b.height \in Nat
        BY <1>5, FieldFacts, BoundFacts DEF RunInv
    <2>2. \A i \in Height : i # g => Merged'[i] = Merged[i]
        BY <1>1, <1>3, MergedIsOver DEF Over
    <2>3. h \notin MergedSeams' => h \notin MergedSeams /\ h # g /\ h - 1 # g
        <3>1. SUFFICES ASSUME h \notin MergedSeams'
                       PROVE  h \notin MergedSeams /\ h # g /\ h - 1 # g
            OBVIOUS
        <3>2. /\ ~(h \in seams' /\ \A b \in buf : b.height # h)
              /\ ~(\E b \in buf : b.first /\ b.height = h)
            BY <1>1, <3>1, SeamFacts
        <3>3. h \notin LeftAbove
            BY <1>1 DEF LeftAbove
        <3>4. h \notin MergedSeams
            BY <1>1, <3>2, <3>3, SeamFacts
        <3>5. h = g \/ h = g + 1 => \A b \in buf : b.height # h
            BY <1>2, <2>1
        <3>6. h # g /\ h # g + 1
            BY <1>1, <3>2, <3>5
        <3>7. QED
            BY <1>2, <3>4, <3>6
    <2>4. h \in Height /\ h - 1 \in Height
        OBVIOUS
    <2>5. QED
        BY <1>5, <2>2, <2>3, <2>4, LinkedKept
<1>6. UNCHANGED InRun
    BY <1>1 DEF InRun
<1>7. QED
    BY <1>1, <1>4, <1>5, <1>6 DEF LinkInv

LEMMA LinkIngest ==
    ASSUME TipInv, Ingest
    PROVE  LinkInv'
<1> USE TipParts, PlaceFacts, NextFacts
<1>1. InRun /\ UNCHANGED <<lineage, raw, seams, ckpt, start>> /\ pc' \notin {"gate", "start"}
    BY DEF Ingest, node, tables, InRun
<1>2. CASE prev \notin {Missing, Chain[pos]}
    BY <1>1, <1>2 DEF Ingest, LinkInv, InRun
<1>3. CASE prev \in {Missing, Chain[pos]}
    <2> DEFINE n == [height |-> pos + 1, hash |-> Chain[pos + 1], first |-> prev = Missing]
    <2>1. pos' = pos + 1 /\ buf' = buf \cup {n} /\ pos + 1 \in Height /\ pos \in Height
        BY <1>3, NextFacts DEF Ingest, TypeOK
    <2>2. n.height = pos + 1 /\ n.hash = Chain[pos + 1] /\ (n.first <=> prev = Missing)
        BY Zenon
    <2> HIDE DEF n
    <2>3. /\ \A b \in buf : b.height <= pos /\ b.height \in Nat
          /\ \A b, c \in buf : b.height = c.height => b = c
        BY <1>1, FieldFacts, BoundFacts DEF RunInv
    <2>4. Apart(buf) /\ Apart(buf')
        BY <2>1, <2>2, <2>3 DEF Apart
    <2>5. Merged'[pos + 1] = Chain[pos + 1]
        BY <2>1, <2>2, <2>4, OverFacts, MergedIsOver
    <2>6. ASSUME NEW i \in Height, i # pos + 1
          PROVE  Merged'[i] = Merged[i]
        <3>1. \A b \in buf' : b.height = i => b \in buf
            BY <2>1, <2>2, <2>6
        <3>2. Over(raw, buf')[i] = Over(raw, buf)[i]
            BY <2>1, <2>4, <3>1, OverFacts
        <3>3. QED
            BY <1>1, <3>2, MergedIsOver
    <2>7. ASSUME NEW h \in 1 .. pos
          PROVE  LinkedAt(lineage, Merged', MergedSeams', h)
        <3>1. h \in Height /\ h - 1 \in Height /\ h # pos + 1 /\ h - 1 # pos + 1
            OBVIOUS
        <3>2. h \in MergedSeams => h \in MergedSeams'
            <4>1. \A i \in {h, h - 1} : (\E b \in buf' : b.height = i) <=> (\E b \in buf : b.height = i)
                BY <2>1, <2>2, <3>1
            <4>2. h \in LeftAbove => h \in LeftAbove'
                BY <1>1, <3>1, <4>1, LeftFacts
            <4>3. (\E b \in buf : b.first /\ b.height = h) => \E b \in buf' : b.first /\ b.height = h
                BY <2>1
            <4>4. h \in seams /\ (\A b \in buf : b.height # h) => h \in seams' /\ \A b \in buf' : b.height # h
                BY <1>1, <4>1
            <4>5. QED
                BY <4>2, <4>3, <4>4, SeamFacts
        <3>3. LinkedAt(lineage, Merged, MergedSeams, h)
            BY <1>1 DEF LinkInv
        <3>4. QED
            BY <2>6, <3>1, <3>2, <3>3, LinkedKept
    <2>8. LinkedAt(lineage, Merged', MergedSeams', pos + 1)
        <3>1. CASE prev = Missing
            <4>1. pos + 1 \in MergedSeams'
                BY <2>1, <2>2, <3>1, SeamFacts
            <4>2. QED
                BY <4>1 DEF LinkedAt
        <3>2. CASE prev = Chain[pos] /\ prev # Missing
            <4>1. Merged[pos] = Chain[pos]
                BY <1>1, <3>2 DEF RunInv
            <4>2. Merged'[pos] = Chain[pos]
                BY <2>1, <2>6, <4>1
            <4>3. lineage[Chain[pos + 1]][pos] = Chain[pos]
                <5>1. branch \in 0 .. branch /\ pos \in 0 .. pos + 1
                    OBVIOUS
                <5>2. QED
                    BY <2>1, <5>1 DEF PrefixInv, Chain
            <4>4. (pos + 1) - 1 = pos
                OBVIOUS
            <4>5. QED
                BY <2>5, <4>2, <4>3, <4>4 DEF LinkedAt
        <3>3. QED
            BY <1>3, <3>1, <3>2
    <2>9. \A h \in 1 .. pos' : h \in 1 .. pos \/ h = pos + 1
        BY <2>1
    <2>10. QED
        BY <1>1, <2>7, <2>8, <2>9 DEF LinkInv
<1>4. QED
    BY <1>2, <1>3

LEMMA LinkFlush ==
    ASSUME TipInv, Flush
    PROVE  LinkInv'
<1> USE TipParts, PlaceFacts, NextFacts
<1>1. /\ InRun /\ UNCHANGED <<lineage, ckpt, start, pos>> /\ pc' \notin {"gate", "start"}
      /\ raw' = Merged /\ seams' = MergedSeams /\ buf' = {} /\ buf # {}
    BY DEF Flush, node, InRun
<1>2. Merged' = raw' /\ MergedSeams' = seams'
    <2>1. raw' \in [Height -> Branch \cup {Missing}]
        <3>1. [Next]_vars
            BY DEF Next, Follow
        <3>2. QED
            BY <3>1, TypeStep DEF TypeOK
    <2>2. Over(raw', buf') = raw'
        BY <1>1, <2>1 DEF Over
    <2>3. MergedSeams' = seams'
        BY <1>1 DEF MergedSeams, LeftAbove, Buffered
    <2>4. QED
        BY <2>2, <2>3, MergedIsOver
<1>3. \A h \in 1 .. pos : LinkedAt(lineage, raw', seams', h)
    BY <1>1 DEF LinkInv
<1>4. \A h \in 1 .. ckpt.height : LinkedAt(lineage, raw', seams', h)
    <2>1. \A h \in 1 .. ckpt.height : h \in 1 .. pos
        BY <1>1 DEF RunInv
    <2>2. QED
        BY <1>3, <2>1
<1>5. ASSUME ckpt = NoRow, NEW h \in 1 .. Top, h \notin 1 .. pos
      PROVE  LinkedAt(lineage, raw', seams', h)
    <2>1. h \in Height /\ h - 1 \in Height /\ h > pos
        BY <1>5
    <2>2. /\ \A b \in buf : b.height <= pos /\ b.height \in Nat
          /\ \A b, c \in buf : b.height = c.height => b = c
          /\ \E b \in buf : b.height = pos
        BY <1>1, FieldFacts, BoundFacts DEF RunInv
    <2>3. Apart(buf) /\ \A b \in buf : b.height # h
        BY <2>1, <2>2 DEF Apart
    <2>4. raw'[h] = raw[h]
        BY <1>1, <2>1, <2>3, OverFacts, MergedIsOver
    <2>5. CASE h = pos + 1
        <3>1. raw[h] # Missing => h \in MergedSeams
            <4>1. \E b \in buf : b.height = h - 1
                BY <2>2, <2>5
            <4>2. QED
                BY <1>5, <2>1, <2>3, <4>1, LeftFacts, SeamFacts
        <3>2. QED
            BY <1>1, <2>4, <3>1 DEF LinkedAt
    <2>6. CASE h # pos + 1
        <3>1. \A b \in buf : b.height # h - 1
            BY <2>1, <2>2, <2>6
        <3>2. raw'[h - 1] = raw[h - 1]
            BY <1>1, <2>1, <2>3, <3>1, OverFacts, MergedIsOver
        <3>3. h \in seams => h \in seams'
            BY <1>1, <2>3, SeamFacts
        <3>4. LinkedAt(lineage, raw, seams, h)
            BY <1>5 DEF LinkInv
        <3>5. QED
            BY <2>4, <3>2, <3>3, <3>4, LinkedKept
    <2>7. QED
        BY <2>5, <2>6
<1>6. QED
    BY <1>1, <1>2, <1>3, <1>4, <1>5 DEF LinkInv

LEMMA LinkStep == TipInv /\ [Next]_vars => LinkInv'
<1> SUFFICES ASSUME TipInv, [Next]_vars PROVE LinkInv'
    OBVIOUS
<1> USE TipParts, PlaceFacts, NextFacts
<1>1. CASE \E f \in Height : Reorg(f)
    BY <1>1, LinkReorg
<1>2. CASE \E h \in Height : Backfill(h)
    BY <1>2, LinkBackfill
<1>3. CASE Connect
    <2>1. /\ UNCHANGED <<lineage, raw, seams, ckpt>> /\ pc' = "gate"
          /\ ckpt # NoRow => start' = ckpt.height
        BY <1>3 DEF Connect, node, tables
    <2>2. TypeOK'
        BY TypeStep
    <2>3. \A h \in 1 .. start' - 1 : h \in 1 .. Top
        <3>1. start' \in Height
            BY <2>2 DEF TypeOK
        <3>2. \A s \in Height : \A h \in 1 .. s - 1 : h \in 1 .. Top
            BY ConstantsAssumption DEF Height
        <3>3. QED
            BY <3>1, <3>2
    <2>4. ckpt # NoRow => \A h \in 1 .. start' - 1 : h \in 1 .. ckpt.height
        BY <2>1
    <2>5. \A h \in 1 .. start' - 1 : LinkedAt(lineage, raw, seams, h)
        BY <2>3, <2>4 DEF LinkInv
    <2>6. QED
        BY <2>1, <2>5 DEF LinkInv, InRun
<1>4. CASE RunnerStart
    <2>1. /\ UNCHANGED <<lineage, raw, seams, ckpt, start>> /\ pc' \notin {"gate", "start"}
          /\ pc = "start" /\ buf' = {} /\ pos' = Max2(start - 1, ckpt.height)
        BY <1>4 DEF RunnerStart, node, tables
    <2>2. Merged' = raw /\ MergedSeams' = seams
        <3>1. Over(raw, buf') = raw
            BY <2>1 DEF Over, TypeOK
        <3>2. MergedSeams' = seams'
            BY <2>1 DEF MergedSeams, LeftAbove, Buffered
        <3>3. QED
            BY <2>1, <3>1, <3>2, MergedIsOver
    <2>3. \A h \in 1 .. pos' : h \in 1 .. start - 1 \/ h \in 1 .. ckpt.height
        BY <2>1 DEF Max2
    <2>4. \A h \in 1 .. pos' : LinkedAt(lineage, raw, seams, h)
        BY <2>1, <2>3 DEF LinkInv
    <2>5. QED
        BY <2>1, <2>2, <2>4 DEF LinkInv
<1>5. CASE Ingest
    BY <1>5, LinkIngest
<1>6. CASE Flush
    BY <1>6, LinkFlush
<1>7. CASE SaveCheckpoint
    <2>1. /\ UNCHANGED <<lineage, raw, seams, start, pos, buf>> /\ pc' \notin {"gate", "start"}
          /\ pc = "checkpoint" /\ ckpt' = [height |-> pos, hash |-> prev]
        BY <1>7 DEF SaveCheckpoint, node, run
    <2>2. InRun /\ buf = {} /\ prev # Missing
        BY <2>1 DEF RunInv, InRun
    <2>3. \A h \in 1 .. pos : LinkedAt(lineage, raw, seams, h)
        BY <2>2, MergedEmpty DEF LinkInv, TypeOK
    <2>4. Merged' = raw /\ MergedSeams' = seams
        <3>1. Over(raw, buf') = raw
            BY <2>1, <2>2 DEF Over, TypeOK
        <3>2. MergedSeams' = seams'
            BY <2>1, <2>2 DEF MergedSeams, LeftAbove, Buffered
        <3>3. QED
            BY <2>1, <3>1, <3>2, MergedIsOver
    <2>5. ckpt' # NoRow /\ ckpt'.height = pos
        BY <2>1, <2>2 DEF NoRow
    <2>6. QED
        BY <2>1, <2>3, <2>4, <2>5 DEF LinkInv
<1>8. CASE HealInsert
    <2>1. UNCHANGED <<lineage, raw, seams, start, pos, buf, pc>>
        BY <1>8 DEF HealInsert, node, follower, run
    <2>2. ckpt # NoRow /\ ckpt' # NoRow /\ ckpt'.height <= ckpt.height
        BY <1>8, RowKept
    <2>3. UNCHANGED <<Merged, MergedSeams, InRun>>
        BY <2>1, <2>2, ViewUnchanged DEF InRun
    <2>4. \A h \in 1 .. ckpt'.height : h \in 1 .. ckpt.height
        BY <2>2, NatStep
    <2>5. QED
        BY <2>1, <2>2, <2>3, <2>4 DEF LinkInv
<1>9. CASE /\ UNCHANGED <<lineage, raw, seams, ckpt, start, pos, buf>>
           /\ pc' \in {"gate", "start"} => pc \in {"gate", "start"}
           /\ InRun' => InRun
    <2>1. UNCHANGED <<Merged, MergedSeams>>
        BY <1>9, ViewUnchanged
    <2>2. QED
        BY <1>9, <2>1 DEF LinkInv
<1>10. CASE ~SaveCheckpoint /\ ~RunnerStart /\ ~Ingest /\ ~Flush /\ ~Connect
    <2>1. pc' \in {"gate", "start"} => pc \in {"gate", "start"}
        BY <1>10, Frame DEF GateUnanswered, GateAnswered
    <2>2. InRun' => InRun
        BY <1>10, RunGoesOn
    <2>3. QED
        BY <1>1, <1>2, <1>8, <1>9, <1>10, <2>1, <2>2, Frame
<1>11. QED
    BY <1>3, <1>4, <1>5, <1>6, <1>7, <1>10

----------------------------------------------------------------------------
(* The theorems. *)

LEMMA TipInit == Init => TipInv
<1> SUFFICES ASSUME Init PROVE TipInv
    OBVIOUS
<1> USE BoundFacts
<1>1. TypeOK
    BY TypeInit
<1>2. /\ branch = 0 /\ pc = "boot" /\ buf = {} /\ prev = Missing /\ heal.step = "idle"
      /\ spent.reorgs = 0
    BY IdleFacts DEF Init
<1>3. \A h \in Height : lineage[0][h] = 0
    BY DEF Init
<1>4. \A h \in Height : raw[h] \in {0, Missing}
    BY DEF Init
<1>5. PrefixInv
    <2>1. \A h \in Height : \A g \in 0 .. h : g \in Height
        BY ConstantsAssumption DEF Height
    <2>2. \A b \in 0 .. branch : b = 0
        BY <1>2
    <2>3. QED
        BY <1>3, <2>1, <2>2 DEF PrefixInv
<1>6. KnownInv
    BY <1>2, <1>4 DEF KnownInv
<1>7. CkptInv
    <2>1. ckpt # NoRow => ckpt = [height |-> head, hash |-> 0] /\ head \in Height
        BY <1>1 DEF Init, TypeOK
    <2>2. ckpt # NoRow => raw[head] = 0
        BY <2>1 DEF Init
    <2>3. QED
        BY <2>1, <2>2 DEF CkptInv, CheckpointStored
<1>8. GateInv /\ RunInv /\ HealInv
    BY <1>2 DEF GateInv, NeverHot, RunInv, InRun, HealInv
<1>9. LinkInv
    <2>1. \A h \in 1 .. Top : LinkedAt(lineage, raw, seams, h)
        <3>1. \A h \in 1 .. Top : h \in Height /\ h - 1 \in Height
            BY <1>1, PlaceFacts
        <3>2. QED
            BY <1>3, <1>4, <3>1 DEF LinkedAt
    <2>2. \A h \in 1 .. ckpt.height : h \in 1 .. Top
        BY <1>1, PlaceFacts
    <2>3. QED
        BY <1>2, <2>1, <2>2 DEF LinkInv, InRun
<1>10. QED
    BY <1>1, <1>5, <1>6, <1>7, <1>8, <1>9 DEF TipInv

LEMMA TipStep == TipInv /\ [Next]_vars => TipInv'
BY TypeStep, PrefixStep, KnownStep, CkptStep, GateStep, RunStep, HealStep, LinkStep DEF TipInv

LEMMA TipInvHolds == Spec => []TipInv
<1>1. QED
    BY TipInit, TipStep, PTL DEF Spec

LEMMA TipGivesInv == TipInv => Inv
<1> SUFFICES ASSUME TipInv PROVE Inv
    OBVIOUS
<1>1. TypeOK /\ NeverHot /\ CheckpointStored
    BY TipParts DEF GateInv, CkptInv
<1>2. LinkedBelow
    BY TipParts DEF LinkInv, LinkedAt, LinkedBelow, Linked
<1>3. QED
    BY <1>1, <1>2 DEF Inv

\* At every height, with as many reorgs, crashes and lost answers as there may be: the
\* row of raw-live names a block that is stored, everything stored below it is one chain
\* but for the seams, and the runner never falls through to hot blocks.
THEOREM TipSound == Spec => []Inv
<1>1. QED
    BY TipInvHolds, TipGivesInv, PTL

\* The healer moves the row back only to a block that was on the chain during its pass,
\* and never because a call went unanswered (heal_live_raw_reorg).
THEOREM RollbacksJustified == Spec => RollbackJustified
<1> DEFINE Justified ==
      /\ \E b \in DuringPass : lineage[b][ckpt'.height] = ckpt'.hash
      /\ ckpt = heal.row => \E b \in DuringPass : lineage[b][ckpt.height] # ckpt.hash
<1>1. TipInv /\ [Next]_vars => [ckpt'.height < ckpt.height => Justified]_vars
    <2> SUFFICES ASSUME TipInv, [Next]_vars, ckpt'.height < ckpt.height PROVE Justified
        OBVIOUS
    <2>1. HealInsert
        <3>1. ckpt.height \in Nat /\ ckpt'.height \in Nat
            BY TipParts, NextFacts, NatStep
        <3>2. QED
            BY <3>1, RowKept
    <2>2. ckpt' = [height |-> heal.probe, hash |-> heal.stored] /\ heal.step = "insert"
        BY <2>1 DEF HealInsert
    <2>3. /\ \E b \in DuringPass : lineage[b][heal.probe] = heal.stored
          /\ \E b \in DuringPass : lineage[b][heal.row.height] # heal.row.hash
        BY <2>2, TipParts DEF HealInv
    <2>4. QED
        BY <2>2, <2>3
<1>2. QED
    BY <1>1, TipInvHolds, PTL DEF Spec, RollbackJustified
=============================================================================
