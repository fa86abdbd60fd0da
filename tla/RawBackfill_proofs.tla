------------------------ MODULE RawBackfill_proofs ------------------------
(***************************************************************************)
(* Proofs about RawBackfill for every number of blocks, workers, chains    *)
(* and faults.                                                             *)
(***************************************************************************)
EXTENDS RawBackfill, FiniteSetTheorems, TLAPS

\* A range is a nonempty interval of heights.
LEMMA RangeFacts ==
    /\ NoRange \in Ranges
    /\ \A r \in Ranges :
          /\ r.from \in Height /\ r.to \in Height
          /\ r.from \in 0 .. Top /\ r.to \in 0 .. Top
          /\ r.from <= r.to
          /\ Blocks(r) \subseteq Height
    /\ \A f \in Height : f > 0 => RangeBelow(f) \in Ranges
<1> USE ConstantsAssumption DEF Ranges, Height
<1>1. NoRange \in Ranges
    BY DEF NoRange
<1>2. ASSUME NEW r \in Ranges
      PROVE  /\ r.from \in Height /\ r.to \in Height
             /\ r.from \in 0 .. Top /\ r.to \in 0 .. Top
             /\ r.from <= r.to
             /\ Blocks(r) \subseteq Height
    BY DEF Blocks
<1>3. ASSUME NEW f \in Height, f > 0
      PROVE  RangeBelow(f) \in Ranges
    BY <1>3 DEF RangeBelow, Max2
<1>4. QED
    BY <1>1, <1>2, <1>3

\* What TypeOK needs to be inductive: checkpoints and buffers stay in their range.
WorkerPositions ==
    \A r \in Ranges :
        /\ ckpt[r] = NoCheckpoint \/ ckpt[r] \in Blocks(r)
        /\ pc[r] \in Running \ {"boot"} => \A b \in buf[r] : b \in r.from .. pos[r]
        /\ pc[r] = "checkpoint" => pos[r] \in Blocks(r)

TypeInv == TypeOK /\ WorkerPositions

LEMMA TypeInit == Init => TypeInv
<1> SUFFICES ASSUME Init PROVE TypeInv
    OBVIOUS
<1> USE RangeFacts, ConstantsAssumption
<1>1. TypeOK
    BY DEF Init, TypeOK, Status, Container, Running, Height, Idle, SupType, Phase, Step,
           SpentType, NoCheckpoint, MaxAttempts
<1>2. WorkerPositions
    BY DEF Init, WorkerPositions, Running
<1>3. QED
    BY <1>1, <1>2 DEF TypeInv

LEMMA StartPosInRange ==
    ASSUME TypeInv, NEW r \in Ranges
    PROVE  /\ StartPos(r) \in (r.from - 1) .. r.to
           /\ StartPos(r) \in Height \cup {NoCheckpoint}
           /\ ResumeHead(r) \in Int
           /\ ResumeHead(r) >= r.to => ckpt[r] = r.to
<1>1. r.from \in 0 .. Top /\ r.to \in 0 .. Top /\ r.from <= r.to /\ Top \in Nat
    BY RangeFacts, ConstantsAssumption
<1>2. CASE ckpt[r] = NoCheckpoint
    BY <1>1, <1>2 DEF StartPos, ResumeHead, Max2, NoCheckpoint, Height
<1>3. CASE ckpt[r] # NoCheckpoint
    <2>1. ckpt[r] \in r.from .. r.to
        BY <1>3 DEF TypeInv, WorkerPositions, Blocks
    <2>2. ResumeHead(r) = ckpt[r]
        BY <1>3 DEF ResumeHead
    <2>3. StartPos(r) = ckpt[r]
        BY <1>1, <2>1, <2>2 DEF StartPos, Max2
    <2>4. QED
        BY <1>1, <2>1, <2>2, <2>3 DEF Height
<1>4. QED
    BY <1>2, <1>3

LEMMA WorkerTypeStep ==
    ASSUME TypeInv, NEW r \in Ranges, WorkerStep(r)
    PROVE  TypeInv'
<1> USE RangeFacts, ConstantsAssumption
    DEF TypeInv, TypeOK, WorkerPositions, SetStatus, AppendFailure, MarkRangeFailed, Min2,
        Status, Container, Running, Stopped, rows, store, worker
<1>1. CASE Boot(r)
    BY <1>1, StartPosInRange DEF Boot
<1>2. CASE Ingest(r)
    <2>1. PICK n \in Blocks(r), c \in Chains :
              /\ Served(r, n, c)
              /\ \/ /\ pos' = [pos EXCEPT ![r] = n]
                    /\ buf' = [buf EXCEPT ![r] = @ \cup {n}]
                    /\ chain' = [chain EXCEPT ![r] = c]
                    /\ UNCHANGED pc
                 \/ /\ pc' = [pc EXCEPT ![r] = "exit1"]
                    /\ UNCHANGED <<pos, buf, chain>>
              /\ spent' = [spent EXCEPT
                        !.gaps = IF n > pos[r] + 1 THEN @ + 1 ELSE @,
                        !.faults = IF chain[r] \notin {Missing, c} THEN @ + 1 ELSE @]
        BY <1>2 DEF Ingest
    <2>2. /\ pc[r] = "ingest"
          /\ pos[r] \in (r.from - 1) .. r.to
          /\ UNCHANGED <<rows, store, live, sup>>
        BY <1>2 DEF Ingest
    <2>3. /\ r.from \in Int /\ r.to \in Int /\ pos[r] \in Int
          /\ n \in Int /\ n \in pos[r] + 1 .. r.to /\ n \in Height
        BY <2>1, <2>2, SMTT(30) DEF Served, Blocks, Height
    <2>4. spent' \in SpentType
        <3> DEFINE g == IF n > pos[r] + 1 THEN spent.gaps + 1 ELSE spent.gaps
                   f == IF chain[r] \notin {Missing, c} THEN spent.faults + 1 ELSE spent.faults
        <3>1. g \in 0 .. MaxGaps
            BY <2>1, <2>3 DEF Served, SpentType
        <3>2. f \in 0 .. MaxFaults
            BY <2>1, <2>3 DEF Served, SpentType
        <3>3. spent' = [spent EXCEPT !.gaps = g, !.faults = f]
            BY <2>1
        <3> HIDE DEF f, g
        <3>4. QED
            BY <3>1, <3>2, <3>3 DEF SpentType
    <2>5. CASE pc' = [pc EXCEPT ![r] = "exit1"] /\ UNCHANGED <<pos, buf, chain>>
        BY <2>2, <2>4, <2>5
    <2>6. CASE /\ pos' = [pos EXCEPT ![r] = n]
               /\ buf' = [buf EXCEPT ![r] = @ \cup {n}]
               /\ chain' = [chain EXCEPT ![r] = c]
               /\ UNCHANGED pc
        <3>1. /\ pos' \in [Ranges -> Height \cup {NoCheckpoint}]
              /\ buf' \in [Ranges -> SUBSET Height]
              /\ chain' \in [Ranges -> Chains \cup {Missing}]
            BY <2>3, <2>6
        <3>2. \A b \in buf[r] : b \in r.from .. pos[r]
            BY <2>2
        <3>3. /\ pos'[r] = n /\ pc'[r] = "ingest"
              /\ buf'[r] \subseteq r.from .. n
              /\ buf'[r] \subseteq Blocks(r)
            BY <2>1, <2>2, <2>3, <2>6, <3>2 DEF Blocks
        <3>4. \A s \in Ranges : s # r =>
                  pos'[s] = pos[s] /\ buf'[s] = buf[s] /\ pc'[s] = pc[s]
            BY <2>6
        <3>5. TypeOK'
            BY <2>2, <2>3, <2>4, <2>6, <3>1, <3>3, <3>4
        <3>6. WorkerPositions'
            BY <2>2, <2>3, <2>6, <3>3, <3>4
        <3>7. QED
            BY <3>5, <3>6
    <2>7. QED
        BY <2>1, <2>5, <2>6
<1>3. CASE Flush(r)
    <2>1. /\ pc[r] = "ingest" /\ buf[r] # {}
          /\ pos[r] \in (r.from - 1) .. r.to
          /\ \A b \in buf[r] : b \in r.from .. pos[r]
        BY <1>3 DEF Flush
    <2>2. pos[r] \in Blocks(r)
        BY <2>1 DEF Blocks
    <2>3. raw' \in [Height -> Chains \cup {Missing}]
        BY <1>3 DEF Flush
    <2>4. /\ pc' = [pc EXCEPT ![r] = "checkpoint"]
          /\ buf' = [buf EXCEPT ![r] = {}]
          /\ UNCHANGED <<rows, ckpt, live, pos, chain, sup, spent>>
        BY <1>3 DEF Flush
    <2>5. TypeOK'
        BY <2>1, <2>3, <2>4
    <2>6. WorkerPositions'
        BY <2>1, <2>2, <2>4 DEF Blocks
    <2>7. QED
        BY <2>5, <2>6
<1>4. CASE SaveCheckpoint(r)
    BY <1>4 DEF SaveCheckpoint, Blocks, Height
<1>5. CASE Validate(r)
    BY <1>5, SMTT(30) DEF Validate
<1>6. CASE Rethrow(r)
    BY <1>6 DEF Rethrow
<1>7. CASE FinalizeRange(r)
    BY <1>7 DEF FinalizeRange
<1>8. CASE Exit(r)
    BY <1>8 DEF Exit
<1>9. QED
    BY <1>1, <1>2, <1>3, <1>4, <1>5, <1>6, <1>7, <1>8 DEF WorkerStep

\* The supervisor's own steps; spent and sup are the only records they build.
LEMMA SpentStep ==
    ASSUME TypeInv
    PROVE  /\ InsertOk => spent' \in SpentType
           /\ InsertFails => spent' \in SpentType
           /\ \A ok \in BOOLEAN : ReadOk(ok) => spent' \in SpentType
<1> USE ConstantsAssumption DEF TypeInv, TypeOK, SpentType
<1>1. InsertOk => spent' \in SpentType
    BY DEF InsertOk
<1>2. InsertFails => spent' \in SpentType
    BY DEF InsertFails
<1>3. ASSUME NEW ok \in BOOLEAN, ReadOk(ok)
      PROVE  spent' \in SpentType
    BY <1>3 DEF ReadOk
<1>4. QED
    BY <1>1, <1>2, <1>3

LEMMA SupStep ==
    ASSUME TypeInv
    PROVE  /\ NextItem \in SupType
           /\ \A phase \in Phase : \A todo \in SUBSET Ranges : Idle(phase, todo) \in SupType
           /\ \A step \in Step : \A r \in Ranges : Handle(step, r) \in SupType
           /\ \A step \in Step : [sup EXCEPT !.step = step] \in SupType
           /\ \A r \in Ranges : [sup EXCEPT !.todo = @ \ {r}] \in SupType
           /\ sup.range \in Ranges
<1> USE RangeFacts DEF TypeInv, TypeOK, SupType, NextItem, Idle, Handle, Step
<1> QED
    OBVIOUS

\* The fields of the script's records.
LEMMA SupFields ==
    ASSUME TypeInv
    PROVE  /\ \A phase, todo : /\ Idle(phase, todo).phase = phase
                               /\ Idle(phase, todo).step = "next"
                               /\ Idle(phase, todo).todo = todo
           /\ \A step, r : /\ Handle(step, r).phase = sup.phase
                           /\ Handle(step, r).step = step
                           /\ Handle(step, r).range = r
                           /\ Handle(step, r).todo = sup.todo \ {r}
           /\ \A step : /\ [sup EXCEPT !.step = step].phase = sup.phase
                        /\ [sup EXCEPT !.step = step].step = step
           /\ \A r : /\ [sup EXCEPT !.todo = @ \ {r}].phase = sup.phase
                     /\ [sup EXCEPT !.todo = @ \ {r}].step = sup.step
                     /\ [sup EXCEPT !.todo = @ \ {r}].range = sup.range
                     /\ [sup EXCEPT !.todo = @ \ {r}].todo = sup.todo \ {r}
<1> QED
    BY DEF TypeInv, TypeOK, SupType, Idle, Handle

LEMMA JudgeSup ==
    ASSUME TypeInv, Judge
    PROVE  sup' \in SupType
<1>1. \/ sup' = Idle("frontier", {})
      \/ sup' = NextItem
      \/ \E step \in Step : sup' = [sup EXCEPT !.step = step]
    BY DEF Judge, Step
<1>2. Idle("frontier", {}) \in SupType
    BY SupStep DEF Phase
<1>3. QED
    BY <1>1, <1>2, SupStep

LEMMA SupervisorTypeStep ==
    ASSUME TypeInv, SupervisorStep
    PROVE  TypeInv'
<1> USE SupStep, SpentStep, RangeFacts, ConstantsAssumption
    DEF TypeInv, TypeOK, WorkerPositions, SetStatus, AppendFailure, Min2, MaxAttempts,
        Status, Container, Running, Stopped, rows, store, worker, Phase, Step
<1>1. ASSUME NEW r \in Ranges, CleanupNext(r) PROVE TypeInv'
    BY <1>1 DEF CleanupNext
<1>2. ASSUME NEW r \in Ranges, RecoverNext(r) PROVE TypeInv'
    BY <1>2 DEF RecoverNext
<1>3. CASE MarkFailed
    BY <1>3 DEF MarkFailed
<1>4. CASE LogFailure
    BY <1>4 DEF LogFailure
<1>5. CASE Judge
    <2>1. sup' \in SupType
        BY <1>5, JudgeSup
    <2>2. spent' \in SpentType
        <3>1. InsertOk \/ InsertFails \/ ReadOk(TRUE) \/ ReadOk(FALSE)
            BY <1>5 DEF Judge, ReadOk
        <3>2. QED
            BY <3>1
    <2>3. status' \in [Ranges -> Status] /\ aged' \in SUBSET Ranges
        BY <1>5 DEF Judge
    <2>4. UNCHANGED <<failures, attempts, store, worker, live>>
        BY <1>5 DEF Judge
    <2>5. QED
        BY <2>1, <2>2, <2>3, <2>4
<1>6. CASE RemoveContainer
    BY <1>6 DEF RemoveContainer
<1>7. CASE StartRange
    BY <1>7 DEF StartRange, Launch
<1>8. CASE CleanupDone
    BY <1>8 DEF CleanupDone, Recoverable
<1>9. CASE RecoverDone
    BY <1>9 DEF RecoverDone
<1>10. CASE StartNextRange
    <2>1. PICK ok \in BOOLEAN, f \in Height :
              ReadOk(ok) /\ f > 0 /\ Launch(RangeBelow(f))
        <3>1. \A ok \in BOOLEAN : FromsSeen(ok) \subseteq Height
            BY DEF FromsSeen, Containers, HasRow
        <3>2. QED
            BY <1>10, <3>1 DEF StartNextRange, IsMin
    <2>2. RangeBelow(f) \in Ranges
        BY <2>1
    <2>3. spent' \in SpentType
        BY <2>1
    <2>4. UNCHANGED <<status, aged, failures, store, pos, buf, chain, live, sup>>
        BY <1>10 DEF StartNextRange
    <2>5. QED
        BY <2>1, <2>2, <2>3, <2>4 DEF Launch
<1>11. CASE EndPoll
    BY <1>11 DEF EndPoll, StoppedContainers
<1>12. QED
    BY <1>1, <1>2, <1>3, <1>4, <1>5, <1>6, <1>7, <1>8, <1>9, <1>10, <1>11 DEF SupervisorStep

LEMMA TypeStep == TypeInv /\ [Next]_vars => TypeInv'
<1> SUFFICES ASSUME TypeInv, [Next]_vars PROVE TypeInv'
    OBVIOUS
<1> USE ConstantsAssumption DEF rows, store, worker
<1>1. ASSUME NEW r \in Ranges, WorkerStep(r) PROVE TypeInv'
    BY <1>1, WorkerTypeStep
<1>2. ASSUME NEW r \in Ranges, Crash(r) PROVE TypeInv'
    BY <1>2 DEF Crash, TypeInv, TypeOK, WorkerPositions, Container, Running, Stopped, SpentType
<1>3. ASSUME NEW r \in Ranges, CooldownPasses(r) PROVE TypeInv'
    BY <1>3 DEF CooldownPasses, TypeInv, TypeOK, WorkerPositions
<1>4. CASE SupervisorStep
    BY <1>4, SupervisorTypeStep
<1>5. CASE SupervisorCrash
    BY <1>5, SupStep DEF SupervisorCrash, StoppedContainers, Phase, TypeInv, TypeOK,
                         WorkerPositions, SpentType
<1>6. CASE LiveCheckpoint
    BY <1>6 DEF LiveCheckpoint, Height, TypeInv, TypeOK, WorkerPositions
<1>7. CASE UNCHANGED vars
    BY <1>7 DEF vars, TypeInv, TypeOK, WorkerPositions, Blocks
<1>8. QED
    BY <1>1, <1>2, <1>3, <1>4, <1>5, <1>6, <1>7 DEF Next

\* Every table, container and script variable keeps its shape, and no worker
\* leaves its range, in every state of every instance.
THEOREM TypeCorrect == Spec => []TypeOK
<1>1. TypeInv => TypeOK
    BY DEF TypeInv
<1>2. QED
    BY TypeInit, TypeStep, <1>1, PTL DEF Spec

----------------------------------------------------------------------------
(* Safety: what a completed row promises.  Every result below assumes that  *)
(* no query of the supervisor fails; with a failed query of the rows the    *)
(* frontier restarts at raw-live and ranges overlap.                        *)

\* Ranges with a container or a row, whatever the script is doing.
Known == {r \in Ranges : pc[r] # "absent" \/ status[r] # "none"}

\* The script only lists known ranges, never the one in hand; the frontier loop
\* has none in hand; and recovery never lists a settled range.
ScriptInv ==
    /\ sup.todo \subseteq Known
    /\ sup.step # "next" => sup.range \notin sup.todo
    /\ sup.phase = "frontier" => sup.step = "next"
    /\ sup.phase = "recover" =>
          /\ \A r \in sup.todo : pc[r] # "absent" \/ status[r] # "completed"
          /\ sup.step # "next" => status[sup.range] # "completed" /\ pc[sup.range] = "absent"

\* A range is finalized only after its last checkpoint, so a worker that starts on
\* a completed range has nothing left to ingest.
CheckpointInv ==
    \A r \in Ranges :
        /\ pc[r] \in {"validate", "rethrow", "finalize", "done"} => ckpt[r] = r.to
        /\ status[r] = "completed" => ckpt[r] = r.to /\ pc[r] \notin {"ingest", "checkpoint"}

\* Between the validation and the completed row the range stays whole.
Trusted == {r \in Ranges : pc[r] = "finalize" \/ status[r] = "completed"}
TrustedInv == \A r \in Trusted : Whole(r)

SafetyInv == TypeInv /\ ScriptInv /\ Disjoint /\ CheckpointInv /\ TrustedInv

LEMMA SafetyInit == Init => SafetyInv
<1> SUFFICES ASSUME Init PROVE SafetyInv
    OBVIOUS
<1>1. TypeInv
    BY TypeInit
<1>2. ScriptInv /\ Disjoint /\ CheckpointInv /\ TrustedInv
    BY DEF Init, ScriptInv, Disjoint, CheckpointInv, TrustedInv, Trusted, Claimed, InHand, Idle
<1>3. QED
    BY <1>1, <1>2 DEF SafetyInv

\* A worker, or its death, touches its own range only and makes no claim.
LEMMA WorkerFrame ==
    ASSUME TypeInv, NEW r \in Ranges, WorkerStep(r) \/ Crash(r)
    PROVE  /\ sup' = sup /\ live' = live
           /\ pc[r] \in Running /\ pc'[r] \in Running \cup Stopped
           /\ \A s \in Ranges : s # r =>
                  status'[s] = status[s] /\ pc'[s] = pc[s] /\ ckpt'[s] = ckpt[s]
           /\ status[r] # "none" => status'[r] # "none"
           /\ status[r] = "completed" => status'[r] = "completed"
<1> USE DEF TypeInv, TypeOK, SetStatus, MarkRangeFailed, Running, Stopped, rows, store, worker
<1>1. CASE Boot(r)
    BY <1>1 DEF Boot
<1>2. CASE Ingest(r)
    <2>1. pc' = pc \/ pc' = [pc EXCEPT ![r] = "exit1"]
        BY <1>2 DEF Ingest
    <2>2. pc[r] = "ingest" /\ UNCHANGED <<rows, store, live, sup>>
        BY <1>2 DEF Ingest
    <2>3. QED
        BY <2>1, <2>2
<1>3. CASE Flush(r)
    BY <1>3 DEF Flush
<1>4. CASE SaveCheckpoint(r)
    BY <1>4 DEF SaveCheckpoint
<1>5. CASE Validate(r)
    BY <1>5 DEF Validate
<1>6. CASE Rethrow(r)
    BY <1>6 DEF Rethrow
<1>7. CASE FinalizeRange(r)
    BY <1>7 DEF FinalizeRange
<1>8. CASE Exit(r)
    BY <1>8 DEF Exit
<1>9. CASE Crash(r)
    BY <1>9 DEF Crash
<1>10. QED
    BY <1>1, <1>2, <1>3, <1>4, <1>5, <1>6, <1>7, <1>8, <1>9 DEF WorkerStep

\* Only Flush writes blocks, its own; those of a trusted range belong to another.
LEMMA TrustedBlocksStable ==
    ASSUME SafetyInv, NEW r \in Ranges, WorkerStep(r) \/ Crash(r)
    PROVE  \A s \in Trusted : \A b \in Blocks(s) : raw'[b] = raw[b]
<1> USE DEF SafetyInv
<1>1. CASE Flush(r)
    <2> SUFFICES ASSUME NEW s \in Trusted, NEW b \in Blocks(s), b \in buf[r]
                 PROVE  FALSE
        <3>1. \A s \in Ranges : Blocks(s) \subseteq Height
            BY RangeFacts
        <3>2. QED
            BY <1>1, <3>1 DEF Flush, Trusted
    <2>1. s \in Ranges /\ s \in Claimed /\ s # r
        BY <1>1 DEF Trusted, Claimed, Flush, CheckpointInv
    <2>2. r \in Claimed /\ buf[r] \subseteq Blocks(r)
        BY <1>1 DEF Claimed, Flush, TypeInv, TypeOK, Running
    <2>3. Overlap(r, s)
        <3>1. /\ r.from \in Int /\ r.to \in Int /\ s.from \in Int /\ s.to \in Int
            BY <2>1, RangeFacts DEF Height
        <3>2. QED
            BY <2>2, <3>1 DEF Overlap, Blocks
    <2>4. QED
        BY <2>1, <2>2, <2>3 DEF Disjoint
<1>2. CASE ~Flush(r)
    <2>1. raw' = raw
        BY <1>2 DEF WorkerStep, Boot, Ingest, SaveCheckpoint, Validate, Rethrow, FinalizeRange,
                    Exit, Crash, store
    <2>2. QED
        BY <2>1
<1>3. QED
    BY <1>1, <1>2

LEMMA WorkerCheckpointStep ==
    ASSUME SafetyInv, NEW r \in Ranges, WorkerStep(r) \/ Crash(r)
    PROVE  CheckpointInv'
<1>1. /\ \A s \in Ranges : s # r =>
             status'[s] = status[s] /\ pc'[s] = pc[s] /\ ckpt'[s] = ckpt[s]
    BY WorkerFrame DEF SafetyInv
<1>2. /\ pc'[r] \in {"validate", "rethrow", "finalize", "done"} => ckpt'[r] = r.to
      /\ status'[r] = "completed" => ckpt'[r] = r.to /\ pc'[r] \notin {"ingest", "checkpoint"}
    <2> USE DEF SafetyInv, CheckpointInv, TypeInv, TypeOK, SetStatus, MarkRangeFailed,
                Running, Stopped, rows, store, worker
    <2>1. CASE Boot(r)
        <3>1. r.to \in Int
            BY RangeFacts DEF Height
        <3>2. ckpt[r] # NoCheckpoint => ResumeHead(r) = ckpt[r]
            BY DEF ResumeHead
        <3>3. ResumeHead(r) >= r.to => ckpt[r] = r.to
            BY StartPosInRange
        <3>4. r.to # NoCheckpoint
            BY RangeFacts DEF Height, NoCheckpoint
        <3>5. UNCHANGED <<ckpt>> /\ pc[r] = "boot"
            BY <2>1 DEF Boot
        <3>6. \/ ResumeHead(r) >= r.to /\ pc'[r] = "validate"
              \/ ~(ResumeHead(r) >= r.to) /\ pc'[r] = "ingest"
            BY <2>1 DEF Boot
        <3>7. status'[r] = "completed" => status[r] = "completed"
            BY <2>1 DEF Boot
        <3>8. status[r] = "completed" => ResumeHead(r) >= r.to
            BY <3>1, <3>2, <3>4
        <3>9. QED
            BY <3>3, <3>5, <3>6, <3>7, <3>8
    <2>2. CASE Ingest(r)
        <3>1. pc' = pc \/ pc' = [pc EXCEPT ![r] = "exit1"]
            BY <2>2 DEF Ingest
        <3>2. pc[r] = "ingest" /\ UNCHANGED <<rows, store>>
            BY <2>2 DEF Ingest
        <3>3. QED
            BY <3>1, <3>2
    <2>3. CASE Flush(r)
        BY <2>3 DEF Flush
    <2>4. CASE SaveCheckpoint(r)
        <3>1. pos[r] \in Blocks(r) /\ r.to \in Int /\ r.from \in Int
            BY <2>4, RangeFacts DEF SaveCheckpoint, WorkerPositions, Height
        <3>2. pos[r] >= r.to => pos[r] = r.to
            BY <3>1 DEF Blocks
        <3>3. QED
            BY <2>4, <3>2 DEF SaveCheckpoint
    <2>5. CASE Validate(r)
        BY <2>5 DEF Validate
    <2>6. CASE Rethrow(r)
        BY <2>6 DEF Rethrow
    <2>7. CASE FinalizeRange(r)
        BY <2>7 DEF FinalizeRange
    <2>8. CASE Exit(r)
        BY <2>8 DEF Exit
    <2>9. CASE Crash(r)
        BY <2>9 DEF Crash
    <2>10. QED
        BY <2>1, <2>2, <2>3, <2>4, <2>5, <2>6, <2>7, <2>8, <2>9 DEF WorkerStep
<1>3. QED
    BY <1>1, <1>2 DEF SafetyInv, CheckpointInv

LEMMA WorkerTrustedStep ==
    ASSUME SafetyInv, NEW r \in Ranges, WorkerStep(r) \/ Crash(r)
    PROVE  TrustedInv'
<1>1. \A s \in Trusted : Whole(s)'
    <2>1. \A s \in Trusted : \A b \in Blocks(s) : raw'[b] = raw[b]
        BY TrustedBlocksStable
    <2>2. QED
        BY <2>1 DEF SafetyInv, TrustedInv, Whole
<1>2. \A s \in Trusted' : s # r => s \in Trusted
    BY WorkerFrame DEF SafetyInv, Trusted
<1>3. r \in Trusted' => r \in Trusted \/ (Validate(r) /\ pc'[r] = "finalize")
    <2> USE DEF SafetyInv, TypeInv, TypeOK, Trusted, SetStatus, MarkRangeFailed,
                Running, Stopped, rows, store, worker
    <2>1. CASE Boot(r)
        BY <2>1 DEF Boot
    <2>2. CASE Ingest(r)
        <3>1. pc' = pc \/ pc' = [pc EXCEPT ![r] = "exit1"]
            BY <2>2 DEF Ingest
        <3>2. pc[r] = "ingest" /\ UNCHANGED rows
            BY <2>2 DEF Ingest
        <3>3. QED
            BY <3>1, <3>2
    <2>3. CASE Flush(r)
        BY <2>3 DEF Flush
    <2>4. CASE SaveCheckpoint(r)
        BY <2>4 DEF SaveCheckpoint
    <2>5. CASE Validate(r)
        BY <2>5 DEF Validate
    <2>6. CASE Rethrow(r)
        BY <2>6 DEF Rethrow
    <2>7. CASE FinalizeRange(r)
        BY <2>7 DEF FinalizeRange
    <2>8. CASE Exit(r)
        BY <2>8 DEF Exit
    <2>9. CASE Crash(r)
        BY <2>9 DEF Crash
    <2>10. QED
        BY <2>1, <2>2, <2>3, <2>4, <2>5, <2>6, <2>7, <2>8, <2>9 DEF WorkerStep
<1>4. Validate(r) /\ pc'[r] = "finalize" => Whole(r)'
    BY DEF Validate, ValidRange, Whole, store, SafetyInv, TypeInv, TypeOK
<1>5. \A s \in Trusted' : Whole(s)'
    BY <1>1, <1>2, <1>3, <1>4
<1>6. QED
    BY <1>5 DEF TrustedInv

LEMMA WorkerSafetyStep ==
    ASSUME SafetyInv, NEW r \in Ranges, WorkerStep(r) \/ Crash(r)
    PROVE  ScriptInv' /\ Disjoint' /\ CheckpointInv' /\ TrustedInv'
<1>1. /\ sup' = sup
      /\ pc[r] \in Running /\ pc'[r] \in Running \cup Stopped
      /\ \A s \in Ranges : s # r => status'[s] = status[s] /\ pc'[s] = pc[s]
      /\ status[r] # "none" => status'[r] # "none"
    BY WorkerFrame DEF SafetyInv
<1>2. pc[r] # "absent" /\ pc'[r] # "absent"
    BY <1>1 DEF Running, Stopped
<1>3. ScriptInv'
    <2>1. Known' = Known
        BY <1>1, <1>2 DEF Known
    <2>2. sup.phase = "recover" /\ sup.step # "next" => status'[sup.range] # "completed"
        <3>1. sup.phase = "recover" /\ sup.step # "next" => pc[sup.range] = "absent"
            BY DEF SafetyInv, ScriptInv
        <3>2. QED
            BY <1>1, <1>2, <3>1, SupStep DEF SafetyInv, ScriptInv
    <2>3. QED
        BY <1>1, <1>2, <2>1, <2>2 DEF SafetyInv, ScriptInv, TypeInv, TypeOK, SupType
<1>4. Disjoint'
    <2>1. Claimed' = Claimed
        BY <1>1, <1>2 DEF Claimed, InHand
    <2>2. QED
        BY <2>1 DEF SafetyInv, Disjoint
<1>5. QED
    BY <1>3, <1>4, WorkerCheckpointStep, WorkerTrustedStep

\* Every command of the script but the launch of a new range works on a range that
\* is already claimed, and writes no block, checkpoint or completed row.
LEMMA SupervisorFrame ==
    ASSUME SafetyInv, SupervisorStep
    PROVE  /\ UNCHANGED store
           /\ \A r \in Ranges : pc'[r] \in {pc[r], "absent", "boot"}
           /\ \A r \in Ranges : status'[r] \in {status[r], "failed", "blocked"}
<1> USE DEF SafetyInv, TypeInv, TypeOK, SetStatus, rows, store, worker
<1>1. ASSUME NEW r \in Ranges, CleanupNext(r) \/ RecoverNext(r)
      PROVE  UNCHANGED <<status, pc, ckpt, raw>>
    BY <1>1 DEF CleanupNext, RecoverNext
<1>2. CASE MarkFailed
    BY <1>2 DEF MarkFailed
<1>3. CASE Judge
    <2>1. /\ SetStatus(sup.range, "blocked") \/ UNCHANGED <<status, aged>>
          /\ UNCHANGED <<store, worker>>
        BY <1>3 DEF Judge
    <2>2. QED
        BY <2>1
<1>4. CASE RemoveContainer
    BY <1>4 DEF RemoveContainer
<1>5. CASE StartRange
    BY <1>5 DEF StartRange, Launch
<1>6. CASE StartNextRange
    BY <1>6 DEF StartNextRange, Launch
<1>7. CASE LogFailure \/ CleanupDone \/ RecoverDone \/ EndPoll
    BY <1>7 DEF LogFailure, CleanupDone, RecoverDone, EndPoll
<1>8. QED
    BY <1>1, <1>2, <1>3, <1>4, <1>5, <1>6, <1>7 DEF SupervisorStep

LEMMA SupervisorDataStep ==
    ASSUME SafetyInv, SupervisorStep
    PROVE  CheckpointInv' /\ TrustedInv'
<1>1. CheckpointInv'
    BY SupervisorFrame DEF SafetyInv, CheckpointInv, store
<1>2. Trusted' \subseteq Trusted /\ \A r \in Ranges : Whole(r)' = Whole(r)
    BY SupervisorFrame DEF Trusted, Whole, store
<1>3. QED
    BY <1>1, <1>2 DEF SafetyInv, TrustedInv, Trusted

\* The launch of a new range: below every range that has a container or a row.
LEMMA FrontierBelow ==
    ASSUME SafetyInv, StartNextRange, MaxReadErrors = 0
    PROVE  \E n \in Ranges :
              /\ Launch(n)
              /\ UNCHANGED <<status, sup>>
              /\ sup.step = "next"
              /\ \A r \in Claimed : ~Overlap(r, n)
<1>1. PICK f : /\ IsMin(f, FromsSeen(TRUE)) /\ f > 0 /\ Launch(RangeBelow(f))
               /\ UNCHANGED <<status, sup>>
    <2>1. spent.reads \in 0 .. 0
        BY DEF SafetyInv, TypeInv, TypeOK, SpentType
    <2>2. ~ReadOk(FALSE)
        BY <2>1 DEF ReadOk
    <2>3. QED
        BY <2>2 DEF StartNextRange, ReadOk
<1>2. sup.step = "next"
    BY DEF StartNextRange, SafetyInv, ScriptInv
<1>3. FromsSeen(TRUE) \subseteq Height
    BY RangeFacts DEF FromsSeen, Containers, HasRow, SafetyInv, TypeInv, TypeOK
<1>4. f \in Height /\ RangeBelow(f) \in Ranges
    BY <1>1, <1>3, RangeFacts DEF IsMin
<1>5. ASSUME NEW r \in Claimed
      PROVE  ~Overlap(r, RangeBelow(f))
    <2>1. r.from \in FromsSeen(TRUE)
        BY <1>2 DEF Claimed, InHand, FromsSeen, Containers, HasRow
    <2>2. f <= r.from
        BY <1>1, <2>1 DEF IsMin
    <2>3. r.from \in Int /\ f \in Int
        <3>1. r.from \in Height /\ f \in Height
            BY <1>3, <1>4, <2>1
        <3>2. Height \subseteq Int
            BY ConstantsAssumption DEF Height
        <3>3. QED
            BY <3>1, <3>2
    <2>4. RangeBelow(f).to = f - 1
        BY DEF RangeBelow
    <2>5. QED
        BY <2>2, <2>3, <2>4 DEF Overlap
<1>6. QED
    BY <1>1, <1>2, <1>4, <1>5

\* Nothing but that launch takes a range nobody had.
LEMMA NoNewClaim ==
    ASSUME SafetyInv, SupervisorStep, ~StartNextRange
    PROVE  Claimed' \subseteq Claimed
<1> USE SupStep DEF SafetyInv, TypeInv, TypeOK, SupType, Claimed, InHand, SetStatus, rows, store, worker
<1>1. ASSUME NEW r \in Ranges, CleanupNext(r) \/ RecoverNext(r)
      PROVE  Claimed' \subseteq Claimed
    <2>1. r \in Claimed
        BY <1>1 DEF CleanupNext, RecoverNext, ScriptInv, Known
    <2>2. UNCHANGED <<pc, status>>
        BY <1>1 DEF CleanupNext, RecoverNext
    <2>3. sup'.step = "next" \/ sup'.range = r
        <3>1. CASE CleanupNext(r)
            BY <3>1 DEF CleanupNext, Handle
        <3>2. CASE RecoverNext(r)
            <4>1. sup.step = "next"
                BY <3>2 DEF RecoverNext
            <4>2. \/ sup' = [sup EXCEPT !.todo = @ \ {r}]
                  \/ \E step \in Step : sup' = Handle(step, r)
                  \/ sup' = Idle("frontier", {})
                BY <3>2 DEF RecoverNext, Step
            <4>3. QED
                BY <4>1, <4>2, SupFields
        <3>3. QED
            BY <1>1, <3>1, <3>2
    <2>4. QED
        BY <2>1, <2>2, <2>3
<1>2. CASE MarkFailed
    BY <1>2 DEF MarkFailed
<1>3. CASE LogFailure
    BY <1>3 DEF LogFailure
<1>4. CASE Judge
    <2>1. /\ SetStatus(sup.range, "blocked") \/ UNCHANGED <<status, aged>>
          /\ UNCHANGED <<store, worker>>
          /\ sup.step = "judge"
        BY <1>4 DEF Judge
    <2>2. sup'.step = "next" \/ sup'.range = sup.range
        BY <1>4 DEF Judge, NextItem, Idle
    <2>3. QED
        BY <2>1, <2>2
<1>5. CASE RemoveContainer
    BY <1>5 DEF RemoveContainer, NextItem, Idle
<1>6. CASE StartRange
    <2>1. /\ sup.range \in Claimed
          /\ pc' = [pc EXCEPT ![sup.range] = "boot"]
          /\ UNCHANGED status
        BY <1>6 DEF StartRange, Launch
    <2>2. sup'.step = "next"
        BY <1>6 DEF StartRange, NextItem, Idle
    <2>3. QED
        BY <2>1, <2>2
<1>7. CASE CleanupDone \/ RecoverDone \/ EndPoll
    <2>1. UNCHANGED <<pc, status>>
        BY <1>7 DEF CleanupDone, RecoverDone, EndPoll
    <2>2. sup'.step = "next"
        <3>1. \/ sup' = Idle("recover", Recoverable)
              \/ sup' = Idle("frontier", {})
              \/ sup' = Idle("cleanup", StoppedContainers)
            BY <1>7 DEF CleanupDone, RecoverDone, EndPoll
        <3>2. QED
            BY <3>1, SupFields
    <2>3. QED
        BY <2>1, <2>2
<1>8. QED
    BY <1>1, <1>2, <1>3, <1>4, <1>5, <1>6, <1>7 DEF SupervisorStep

LEMMA SupervisorDisjointStep ==
    ASSUME SafetyInv, SupervisorStep, MaxReadErrors = 0
    PROVE  Disjoint'
<1>1. CASE StartNextRange
    <2>1. PICK n \in Ranges :
              /\ Launch(n) /\ UNCHANGED <<status, sup>>
              /\ \A r \in Claimed : ~Overlap(r, n)
        BY <1>1, FrontierBelow
    <2>2. Claimed' \subseteq Claimed \cup {n}
        BY <2>1 DEF Launch, Claimed, InHand, SafetyInv, TypeInv, TypeOK
    <2>3. \A r, s \in Ranges : Overlap(r, s) => Overlap(s, r)
        BY DEF Overlap
    <2>4. Claimed \subseteq Ranges
        BY DEF Claimed
    <2>5. QED
        BY <2>1, <2>2, <2>3, <2>4 DEF SafetyInv, Disjoint
<1>2. CASE ~StartNextRange
    BY <1>2, NoNewClaim DEF SafetyInv, Disjoint
<1>3. QED
    BY <1>1, <1>2

\* What the supervisor lists stays known, and what it holds is not listed twice.
LEMMA SupervisorScriptStep ==
    ASSUME SafetyInv, SupervisorStep, MaxReadErrors = 0
    PROVE  ScriptInv'
<1> USE SupStep DEF SafetyInv, ScriptInv, TypeInv, TypeOK, SupType, Known, SetStatus,
                    rows, store, worker
<1>1. ASSUME NEW r \in Ranges, CleanupNext(r) PROVE ScriptInv'
    <2>1. /\ sup.phase = "cleanup" /\ r \in sup.todo
          /\ \E step \in Step : sup' = Handle(step, r)
          /\ UNCHANGED <<pc, status>>
        BY <1>1 DEF CleanupNext, Step
    <2>2. QED
        BY <2>1, SupFields
<1>2. ASSUME NEW r \in Ranges, RecoverNext(r) PROVE ScriptInv'
    <2>1. /\ sup.phase = "recover" /\ sup.step = "next" /\ r \in sup.todo
          /\ UNCHANGED <<pc, status>>
        BY <1>2 DEF RecoverNext
    <2>2. \/ sup' = [sup EXCEPT !.todo = @ \ {r}]
          \/ pc[r] = "absent" /\ \E step \in Step : sup' = Handle(step, r)
          \/ sup' = Idle("frontier", {})
        BY <1>2 DEF RecoverNext, Step
    <2>3. QED
        BY <2>1, <2>2, SupFields
<1>3. CASE MarkFailed
    BY <1>3 DEF MarkFailed
<1>4. CASE LogFailure
    BY <1>4 DEF LogFailure
<1>5. CASE Judge
    <2>1. /\ SetStatus(sup.range, "blocked") \/ UNCHANGED <<status, aged>>
          /\ UNCHANGED <<store, worker>>
          /\ sup.step = "judge"
        BY <1>5 DEF Judge
    <2>2. \/ sup' = Idle("frontier", {})
          \/ sup' = NextItem
          \/ sup.phase = "cleanup" /\ \E step \in {"remove", "restart"} : sup' = [sup EXCEPT !.step = step]
          \/ sup' = [sup EXCEPT !.step = "start"]
        BY <1>5 DEF Judge
    <2>3. QED
        BY <2>1, <2>2 DEF NextItem, Idle
<1>6. CASE RemoveContainer
    BY <1>6 DEF RemoveContainer, NextItem, Idle
<1>7. CASE StartRange
    BY <1>7 DEF StartRange, Launch, NextItem, Idle
<1>8. CASE CleanupDone
    BY <1>8 DEF CleanupDone, Idle, Recoverable
<1>9. CASE RecoverDone
    BY <1>9 DEF RecoverDone, Idle
<1>10. CASE StartNextRange
    <2>1. PICK n \in Ranges : Launch(n) /\ UNCHANGED <<status, sup>>
        BY <1>10, FrontierBelow
    <2>2. sup.phase = "frontier" /\ sup.step = "next"
        BY <1>10 DEF StartNextRange
    <2>3. QED
        BY <2>1, <2>2 DEF Launch
<1>11. CASE EndPoll
    BY <1>11 DEF EndPoll, Idle, StoppedContainers, Stopped
<1>12. QED
    BY <1>1, <1>2, <1>3, <1>4, <1>5, <1>6, <1>7, <1>8, <1>9, <1>10, <1>11 DEF SupervisorStep

LEMMA EnvironmentSafetyStep ==
    ASSUME SafetyInv,
           \/ \E r \in Ranges : CooldownPasses(r)
           \/ SupervisorCrash
           \/ LiveCheckpoint
           \/ UNCHANGED vars
    PROVE  ScriptInv' /\ Disjoint' /\ CheckpointInv' /\ TrustedInv'
<1>1. UNCHANGED <<status, pc, ckpt, raw>>
    BY DEF CooldownPasses, SupervisorCrash, LiveCheckpoint, vars, rows, store, worker
<1>2. sup' = sup \/ sup' = Idle("cleanup", StoppedContainers)
    BY DEF CooldownPasses, SupervisorCrash, LiveCheckpoint, vars
<1>3. ScriptInv'
    BY <1>1, <1>2 DEF SafetyInv, ScriptInv, Known, Idle, StoppedContainers, Stopped
<1>4. Claimed' \subseteq Claimed
    BY <1>1, <1>2 DEF Claimed, InHand, Idle
<1>5. QED
    BY <1>1, <1>3, <1>4 DEF SafetyInv, Disjoint, CheckpointInv, TrustedInv, Trusted, Whole

LEMMA SafetyStep ==
    MaxReadErrors = 0 /\ SafetyInv /\ [Next]_vars => SafetyInv'
<1> SUFFICES ASSUME MaxReadErrors = 0, SafetyInv, [Next]_vars PROVE SafetyInv'
    OBVIOUS
<1>1. TypeInv'
    BY TypeStep DEF SafetyInv
<1>2. ASSUME NEW r \in Ranges, WorkerStep(r) \/ Crash(r) PROVE SafetyInv'
    BY <1>1, <1>2, WorkerSafetyStep DEF SafetyInv
<1>3. CASE SupervisorStep
    BY <1>1, <1>3, SupervisorScriptStep, SupervisorDisjointStep, SupervisorDataStep DEF SafetyInv
<1>4. CASE \/ \E r \in Ranges : CooldownPasses(r)
           \/ SupervisorCrash
           \/ LiveCheckpoint
           \/ UNCHANGED vars
    BY <1>1, <1>4, EnvironmentSafetyStep DEF SafetyInv
<1>5. QED
    BY <1>2, <1>3, <1>4 DEF Next

\* No two ranges that anybody has taken share a block, whatever the number of
\* workers, crashes, forks, gaps and failed inserts.
THEOREM RangesDisjoint ==
    ASSUME MaxReadErrors = 0
    PROVE  Spec => []Disjoint
<1>1. SafetyInv /\ [Next]_vars => SafetyInv'
    BY SafetyStep
<1>2. SafetyInv => Disjoint
    BY DEF SafetyInv
<1>3. QED
    BY SafetyInit, <1>1, <1>2, PTL DEF Spec

\* A completed row is never wrong: its blocks are all stored and linked.
THEOREM CompletedRangesWhole ==
    ASSUME MaxReadErrors = 0
    PROVE  Spec => []CompletedIsWhole
<1>1. SafetyInv /\ [Next]_vars => SafetyInv'
    BY SafetyStep
<1>2. SafetyInv => CompletedIsWhole
    BY DEF SafetyInv, TrustedInv, Trusted, CompletedIsWhole
<1>3. QED
    BY SafetyInit, <1>1, <1>2, PTL DEF Spec

\* And it stays right: no step of any worker rewrites a block below it.
THEOREM CompletedRangesStable ==
    ASSUME MaxReadErrors = 0
    PROVE  Spec => CompletedDataStable
<1> DEFINE Stable == \A r \in Ranges : status[r] = "completed" =>
                         \A b \in Blocks(r) : raw'[b] = raw[b]
<1>1. SafetyInv /\ [Next]_vars => SafetyInv'
    BY SafetyStep
<1>2. SafetyInv /\ [Next]_vars => [Stable]_vars
    <2> SUFFICES ASSUME SafetyInv, Next PROVE Stable
        OBVIOUS
    <2>1. ASSUME NEW r \in Ranges, WorkerStep(r) \/ Crash(r) PROVE Stable
        BY <2>1, TrustedBlocksStable DEF Trusted
    <2>2. CASE SupervisorStep
        BY <2>2, SupervisorFrame DEF store
    <2>3. CASE (\E r \in Ranges : CooldownPasses(r)) \/ SupervisorCrash \/ LiveCheckpoint
        BY <2>3 DEF CooldownPasses, SupervisorCrash, LiveCheckpoint, store
    <2>4. QED
        BY <2>1, <2>2, <2>3 DEF Next
<1>3. QED
    BY SafetyInit, <1>1, <1>2, PTL DEF Spec, CompletedDataStable

\* A completed range whose container is gone is never reopened.
THEOREM CompletedRangesSettled ==
    ASSUME MaxReadErrors = 0
    PROVE  Spec => SettledForever
<1> DEFINE Settled(r) == status[r] = "completed" /\ pc[r] = "absent"
           Stays == \A r \in Ranges :
                        status[r] = "completed" /\ pc[r] = "absent" /\ ~InCleanup(r) =>
                            status'[r] = "completed" /\ pc'[r] = "absent"
<1>1. SafetyInv /\ [Next]_vars => SafetyInv'
    BY SafetyStep
<1>2. SafetyInv /\ [Next]_vars => [Stays]_vars
    <2> SUFFICES ASSUME SafetyInv, Next, NEW r \in Ranges, Settled(r), ~InCleanup(r)
                 PROVE  Settled(r)'
        OBVIOUS
    <2>1. ASSUME NEW s \in Ranges, WorkerStep(s) \/ Crash(s) PROVE Settled(r)'
        <3>1. s # r
            BY <2>1, WorkerFrame DEF SafetyInv, Running
        <3>2. QED
            BY <2>1, <3>1, WorkerFrame DEF SafetyInv
    <2>2. CASE SupervisorStep
        <3>1. ~InHand(r)
            BY SupStep DEF InCleanup, InHand, SafetyInv, ScriptInv, TypeInv, TypeOK, SupType, Phase
        <3>2. CASE StartNextRange
            <4>1. PICK n \in Ranges : /\ Launch(n) /\ UNCHANGED status
                                      /\ \A s \in Claimed : ~Overlap(s, n)
                BY <3>2, FrontierBelow
            <4>2. r \in Claimed /\ Overlap(r, r)
                BY RangeFacts DEF Claimed, Overlap
            <4>3. n # r
                BY <4>1, <4>2
            <4>4. QED
                BY <4>1, <4>3 DEF Launch, SafetyInv, TypeInv, TypeOK
        <3>3. CASE MarkFailed \/ RemoveContainer \/ StartRange
            BY <3>1, <3>3 DEF MarkFailed, RemoveContainer, StartRange, Launch, SetStatus, InHand,
                              SafetyInv, TypeInv, TypeOK, rows, store, worker
        <3>4. CASE Judge
            <4>1. /\ SetStatus(sup.range, "blocked") \/ UNCHANGED <<status, aged>>
                  /\ UNCHANGED worker
                  /\ sup.step = "judge"
                BY <3>4 DEF Judge
            <4>2. QED
                BY <3>1, <4>1 DEF SetStatus, InHand, SafetyInv, TypeInv, TypeOK, worker
        <3>5. CASE \/ \E s \in Ranges : CleanupNext(s) \/ RecoverNext(s)
                   \/ LogFailure
                   \/ CleanupDone
                   \/ RecoverDone
                   \/ EndPoll
            BY <3>5 DEF CleanupNext, RecoverNext, LogFailure, CleanupDone, RecoverDone, EndPoll,
                        rows, worker
        <3>6. QED
            BY <2>2, <3>2, <3>3, <3>4, <3>5 DEF SupervisorStep
    <2>3. CASE (\E s \in Ranges : CooldownPasses(s)) \/ SupervisorCrash \/ LiveCheckpoint
        BY <2>3 DEF CooldownPasses, SupervisorCrash, LiveCheckpoint, rows, worker
    <2>4. QED
        BY <2>1, <2>2, <2>3 DEF Next
<1>3. QED
    BY SafetyInit, <1>1, <1>2, PTL DEF Spec, SettledForever

----------------------------------------------------------------------------
(* The worker cap needs no assumption: the count comes from `docker ps`.    *)

\* The slot a restart was promised is still free when the container starts.
CapInv ==
    /\ IsFiniteSet(ActiveRaw)
    /\ Cardinality(ActiveRaw) <= RAW_WORKERS
    /\ sup.step \in {"restart", "start"} => ~SlotsFull
    /\ sup.phase = "frontier" => sup.step = "next"

\* Workers never become active by themselves, and no slot is promised at the cap.
NoNewActive ==
    /\ ActiveRaw' \subseteq ActiveRaw
    /\ sup'.step \in {"restart", "start"} => sup.step \in {"restart", "start"} \/ ~SlotsFull
    /\ sup'.phase = "frontier" => sup'.step = "next"

LEMMA ScriptKeepsCap ==
    ASSUME TypeInv, CapInv, SupervisorStep, ~StartRange, ~StartNextRange
    PROVE  NoNewActive
<1> USE SupFields DEF NoNewActive, CapInv, TypeInv, TypeOK, SupType, ActiveRaw, rows, store, worker
<1>1. ASSUME NEW r \in Ranges, CleanupNext(r) PROVE NoNewActive
    <2>1. /\ sup' = Handle("remove", r) \/ sup' = Handle("fail", r)
          /\ sup.phase = "cleanup"
          /\ UNCHANGED pc
        BY <1>1 DEF CleanupNext
    <2>2. QED
        BY <2>1
<1>2. ASSUME NEW r \in Ranges, RecoverNext(r) PROVE NoNewActive
    <2>1. /\ \/ sup' = [sup EXCEPT !.todo = @ \ {r}]
             \/ sup' = Handle("fail", r)
             \/ sup' = Handle("judge", r)
             \/ sup' = Idle("frontier", {})
             \/ ~SlotsFull /\ sup' = Handle("start", r)
          /\ sup.phase = "recover"
          /\ UNCHANGED pc
        BY <1>2 DEF RecoverNext
    <2>2. QED
        BY <2>1
<1>3. CASE MarkFailed \/ LogFailure
    BY <1>3 DEF MarkFailed, LogFailure
<1>4. CASE Judge
    <2>1. /\ \/ sup' = Idle("frontier", {})
             \/ sup' = NextItem
             \/ sup.phase # "frontier" /\ sup' = [sup EXCEPT !.step = "remove"]
             \/ /\ sup.phase # "frontier"
                /\ ~SlotsFull
                /\ \/ sup' = [sup EXCEPT !.step = "restart"]
                   \/ sup' = [sup EXCEPT !.step = "start"]
          /\ UNCHANGED pc
        BY <1>4 DEF Judge
    <2>2. CASE sup' = Idle("frontier", {}) \/ sup' = NextItem
        <3>1. sup'.step = "next"
            BY <2>2 DEF NextItem
        <3>2. QED
            BY <2>1, <3>1
    <2>3. CASE sup.phase # "frontier" /\ sup' = [sup EXCEPT !.step = "remove"]
        BY <2>1, <2>3
    <2>4. CASE ~SlotsFull /\ sup.phase # "frontier" /\ sup' = [sup EXCEPT !.step = "restart"]
        BY <2>1, <2>4
    <2>5. CASE ~SlotsFull /\ sup.phase # "frontier" /\ sup' = [sup EXCEPT !.step = "start"]
        BY <2>1, <2>5
    <2>6. QED
        BY <2>1, <2>2, <2>3, <2>4, <2>5
<1>5. CASE RemoveContainer
    BY <1>5 DEF RemoveContainer, NextItem, Running
<1>6. CASE CleanupDone \/ RecoverDone \/ EndPoll
    <2>1. /\ \/ sup' = Idle("recover", Recoverable)
             \/ sup' = Idle("frontier", {})
             \/ sup' = Idle("cleanup", StoppedContainers)
          /\ UNCHANGED pc
        BY <1>6 DEF CleanupDone, RecoverDone, EndPoll
    <2>2. QED
        BY <2>1
<1>7. QED
    BY <1>1, <1>2, <1>3, <1>4, <1>5, <1>6 DEF SupervisorStep

LEMMA OthersKeepCap ==
    ASSUME TypeInv, CapInv, [Next]_vars, ~SupervisorStep
    PROVE  NoNewActive
<1>1. ASSUME NEW r \in Ranges, WorkerStep(r) \/ Crash(r) PROVE NoNewActive
    BY <1>1, WorkerFrame DEF NoNewActive, CapInv, ActiveRaw
<1>2. CASE \/ \E r \in Ranges : CooldownPasses(r)
           \/ SupervisorCrash
           \/ LiveCheckpoint
           \/ UNCHANGED vars
    <2>1. UNCHANGED pc /\ (sup' = sup \/ sup' = Idle("cleanup", StoppedContainers))
        BY <1>2 DEF CooldownPasses, SupervisorCrash, LiveCheckpoint, vars, worker
    <2>2. QED
        BY <2>1, SupFields DEF NoNewActive, CapInv, ActiveRaw
<1>3. QED
    BY <1>1, <1>2 DEF Next

LEMMA CapStep == TypeInv /\ CapInv /\ [Next]_vars => CapInv'
<1> SUFFICES ASSUME TypeInv, CapInv, [Next]_vars PROVE CapInv'
    OBVIOUS
<1>1. CASE NoNewActive
    <2>1. IsFiniteSet(ActiveRaw') /\ Cardinality(ActiveRaw') <= Cardinality(ActiveRaw)
        BY <1>1, FS_Subset DEF NoNewActive, CapInv
    <2>2. Cardinality(ActiveRaw) \in Nat /\ Cardinality(ActiveRaw') \in Nat
        BY <2>1, FS_CardinalityType DEF CapInv
    <2>3. SlotsFull' => SlotsFull
        BY <2>1, <2>2, ConstantsAssumption DEF SlotsFull
    <2>4. QED
        BY <1>1, <2>1, <2>2, <2>3, ConstantsAssumption DEF NoNewActive, CapInv
<1>2. CASE StartRange \/ StartNextRange
    <2>1. /\ ~SlotsFull
          /\ \E n : ActiveRaw' \subseteq ActiveRaw \cup {n}
          /\ sup'.step = "next"
        <3>1. CASE StartRange
            <4>1. ActiveRaw' \subseteq ActiveRaw \cup {sup.range}
                BY <3>1 DEF StartRange, Launch, ActiveRaw, TypeInv, TypeOK
            <4>2. sup'.step = "next" /\ ~SlotsFull
                BY <3>1, SupFields DEF StartRange, NextItem, CapInv
            <4>3. QED
                BY <4>1, <4>2
        <3>2. CASE StartNextRange
            <4>1. PICK n : Launch(n) /\ sup' = sup
                BY <3>2 DEF StartNextRange
            <4>2. QED
                BY <3>2, <4>1 DEF StartNextRange, Launch, CapInv, ActiveRaw, TypeInv, TypeOK
        <3>3. QED
            BY <1>2, <3>1, <3>2
    <2>2. PICK n : ActiveRaw' \subseteq ActiveRaw \cup {n}
        BY <2>1
    <2>3. /\ IsFiniteSet(ActiveRaw \cup {n})
          /\ Cardinality(ActiveRaw \cup {n}) <= Cardinality(ActiveRaw) + 1
          /\ Cardinality(ActiveRaw) \in Nat
        <3>1. IsFiniteSet(ActiveRaw)
            BY DEF CapInv
        <3>2. Cardinality(ActiveRaw) \in Nat
            BY <3>1, FS_CardinalityType
        <3>3. /\ IsFiniteSet(ActiveRaw \cup {n})
              /\ \/ Cardinality(ActiveRaw \cup {n}) = Cardinality(ActiveRaw)
                 \/ Cardinality(ActiveRaw \cup {n}) = Cardinality(ActiveRaw) + 1
            BY <3>1, FS_AddElement
        <3>4. QED
            BY <3>2, <3>3
    <2>4. /\ IsFiniteSet(ActiveRaw')
          /\ Cardinality(ActiveRaw') <= Cardinality(ActiveRaw \cup {n})
        BY <2>2, <2>3, FS_Subset
    <2>5. Cardinality(ActiveRaw') \in Nat /\ Cardinality(ActiveRaw \cup {n}) \in Nat
        BY <2>3, <2>4, FS_CardinalityType
    <2>6. Cardinality(ActiveRaw') <= RAW_WORKERS
        BY <2>1, <2>3, <2>4, <2>5, ConstantsAssumption DEF SlotsFull
    <2>7. QED
        BY <2>1, <2>4, <2>6 DEF CapInv
<1>3. QED
    BY <1>1, <1>2, ScriptKeepsCap, OthersKeepCap

\* Never more running raw containers than RAW_WORKERS, whatever fails.
THEOREM WorkersCapped == Spec => []WorkerCap
<1>1. Init => CapInv
    <2> SUFFICES ASSUME Init PROVE CapInv
        OBVIOUS
    <2>1. ActiveRaw = {}
        BY DEF Init, ActiveRaw, Running
    <2>2. QED
        BY <2>1, FS_EmptySet, ConstantsAssumption DEF CapInv, SlotsFull, Init, Idle
<1>2. CapInv => WorkerCap
    BY DEF CapInv, WorkerCap
<1>3. QED
    BY TypeInit, TypeStep, <1>1, CapStep, <1>2, PTL DEF Spec

----------------------------------------------------------------------------
(* No holes: with no failed insert, whoever once claimed a range leaves a   *)
(* container or a row, so the frontier never moves past a range again.      *)

\* The script holds known ranges, and has written a row before it lets a container go.
LeavesRow ==
    /\ sup.step # "next" => sup.range \in Known
    /\ sup.step \in {"log", "judge", "remove", "restart", "start"} => status[sup.range] # "none"

BelowLive == \A r \in Known : r.from < live

HoleInv == SafetyInv /\ LeavesRow /\ BelowLive /\ NoHoles

\* A known range stays known.
LEMMA KnownStays ==
    ASSUME SafetyInv, LeavesRow, [Next]_vars
    PROVE  Known \subseteq Known'
<1> USE DEF SafetyInv, TypeInv, TypeOK, SetStatus, rows, store, worker
<1>1. ASSUME NEW r \in Ranges, WorkerStep(r) \/ Crash(r) PROVE Known \subseteq Known'
    BY <1>1, WorkerFrame DEF Known, Running, Stopped
<1>2. CASE SupervisorStep
    <2>1. CASE RemoveContainer
        BY <2>1 DEF RemoveContainer, LeavesRow, Known
    <2>2. CASE ~RemoveContainer
        <3>1. \A r \in Ranges : pc'[r] \in {pc[r], "boot"}
            <4>1. CASE StartRange \/ StartNextRange
                BY <4>1 DEF StartRange, StartNextRange, Launch
            <4>2. CASE ~StartRange /\ ~StartNextRange
                BY <1>2, <2>2, <4>2 DEF SupervisorStep, CleanupNext, RecoverNext, MarkFailed,
                    LogFailure, Judge, CleanupDone, RecoverDone, EndPoll
            <4> QED
                BY <4>1, <4>2
        <3> QED
            BY <1>2, <3>1, SupervisorFrame DEF Known
    <2> QED
        BY <2>1, <2>2
<1>3. CASE (\E r \in Ranges : CooldownPasses(r)) \/ SupervisorCrash \/ LiveCheckpoint \/ UNCHANGED vars
    BY <1>3 DEF CooldownPasses, SupervisorCrash, LiveCheckpoint, vars, Known
<1> QED
    BY <1>1, <1>2, <1>3 DEF Next

\* Without a failed insert the script writes the row of what it takes in hand.
LEMMA LeavesRowStep ==
    ASSUME MaxReadErrors = 0, MaxInsertErrors = 0, SafetyInv, LeavesRow, [Next]_vars
    PROVE  LeavesRow'
<1> USE SupStep DEF SafetyInv, TypeInv, TypeOK, SetStatus, SupType, rows, store, worker
<1>0. Known \subseteq Known'
    BY KnownStays
<1>1. ASSUME NEW r \in Ranges, WorkerStep(r) \/ Crash(r) PROVE LeavesRow'
    <2>1. sup' = sup /\ \A s \in Ranges : status[s] # "none" => status'[s] # "none"
        BY <1>1, WorkerFrame
    <2> QED
        BY <1>0, <2>1 DEF LeavesRow
<1>2. ASSUME NEW r \in Ranges, CleanupNext(r) PROVE LeavesRow'
    <2>1. /\ sup.step = "next" /\ r \in Known /\ UNCHANGED status
          /\ \/ sup' = Handle("remove", r) /\ status[r] = "completed"
             \/ sup' = Handle("fail", r)
        BY <1>2 DEF CleanupNext, ScriptInv
    <2> QED
        BY <1>0, <2>1, SupFields DEF LeavesRow
<1>3. ASSUME NEW r \in Ranges, RecoverNext(r) PROVE LeavesRow'
    <2>1. sup.step = "next" /\ r \in Known /\ UNCHANGED status
        BY <1>3 DEF RecoverNext, ScriptInv
    <2>2. \/ sup' = [sup EXCEPT !.todo = @ \ {r}]
          \/ pc[r] = "absent" /\ \E step \in Step : sup' = Handle(step, r)
          \/ sup' = Idle("frontier", {})
        BY <1>3 DEF RecoverNext, Step
    <2> QED
        BY <1>0, <2>1, <2>2, SupFields DEF LeavesRow, Known
<1>4. CASE MarkFailed
    <2>1. spent.inserts \in 0 .. 0
        BY DEF SpentType
    <2>2. SetStatus(sup.range, "failed") /\ sup' = [sup EXCEPT !.step = "log"]
        BY <1>4, <2>1 DEF MarkFailed, InsertFails
    <2> QED
        BY <1>0, <1>4, <2>2 DEF MarkFailed, LeavesRow
<1>5. CASE LogFailure
    BY <1>0, <1>5 DEF LogFailure, LeavesRow
<1>6. CASE Judge
    <2>1. /\ SetStatus(sup.range, "blocked") \/ UNCHANGED <<status, aged>>
          /\ sup.step = "judge"
        BY <1>6 DEF Judge
    <2>2. sup'.step = "next" \/ sup'.range = sup.range
        BY <1>6 DEF Judge, NextItem, Idle
    <2> QED
        BY <1>0, <2>1, <2>2 DEF LeavesRow
<1>7. CASE RemoveContainer \/ StartRange
    <2>1. status' = status
        BY <1>7 DEF RemoveContainer, StartRange
    <2>2. sup'.step = "next" \/ (sup'.range = sup.range /\ sup.step = "restart")
        BY <1>7 DEF RemoveContainer, StartRange, NextItem, Idle
    <2> QED
        BY <1>0, <2>1, <2>2 DEF LeavesRow
<1>8. CASE CleanupDone \/ RecoverDone \/ StartNextRange \/ EndPoll \/ SupervisorCrash
    <2>1. \/ sup' = Idle("recover", Recoverable) \/ sup' = Idle("frontier", {})
          \/ sup' = Idle("cleanup", StoppedContainers)
          \/ sup' = sup /\ sup.step = "next"
        BY <1>8 DEF CleanupDone, RecoverDone, StartNextRange, EndPoll, SupervisorCrash, ScriptInv
    <2>2. sup'.step = "next"
        BY <2>1, SupFields
    <2> QED
        BY <2>2 DEF LeavesRow
<1>9. CASE (\E r \in Ranges : CooldownPasses(r)) \/ LiveCheckpoint \/ UNCHANGED vars
    BY <1>9 DEF CooldownPasses, LiveCheckpoint, vars, LeavesRow, Known
<1> QED
    BY <1>1, <1>2, <1>3, <1>4, <1>5, <1>6, <1>7, <1>8, <1>9 DEF Next, SupervisorStep

\* The launch at the frontier leaves no gap above the range it takes.
LEMMA FrontierLeavesNoHole ==
    ASSUME MaxReadErrors = 0, HoleInv, StartNextRange
    PROVE  NoHoles' /\ BelowLive'
<1> USE DEF HoleInv
<1>1. PICK f : /\ IsMin(f, FromsSeen(TRUE)) /\ f > 0 /\ Launch(RangeBelow(f))
               /\ UNCHANGED <<status, sup, live>>
    <2>1. spent.reads \in 0 .. 0
        BY DEF SafetyInv, TypeInv, TypeOK, SpentType
    <2>2. ~ReadOk(FALSE)
        BY <2>1 DEF ReadOk
    <2> QED
        BY <2>2 DEF StartNextRange, ReadOk
<1> DEFINE n == RangeBelow(f)
<1>2. sup.step = "next"
    BY DEF StartNextRange, SafetyInv, ScriptInv
<1>3. Claimed = Known /\ Claimed' = Known'
    BY <1>1, <1>2 DEF Claimed, Known, InHand
<1>4. FromsSeen(TRUE) \subseteq Height /\ f \in Height
    BY <1>1, RangeFacts DEF FromsSeen, Containers, HasRow, SafetyInv, TypeInv, TypeOK, IsMin
<1>5. n \in Ranges /\ n.to = f - 1 /\ n.from < f
    <2>1. n \in Ranges /\ n.to = f - 1
        BY <1>1, <1>4, RangeFacts DEF RangeBelow
    <2> HIDE DEF n
    <2>2. n.from \in Int /\ n.from <= n.to /\ f \in Int
        BY <1>4, <2>1, RangeFacts, ConstantsAssumption DEF Height
    <2> QED
        BY <2>1, <2>2
<1> HIDE DEF n
<1>6. Known' = Known \cup {n}
    <2>1. pc' = [pc EXCEPT ![n] = "boot"] /\ status' = status
        BY <1>1 DEF Launch, n
    <2> QED
        BY <1>5, <2>1 DEF Known, SafetyInv, TypeInv, TypeOK
<1>7. \A r \in Known : r.from \in Int /\ r.to \in Int /\ r.from <= r.to /\ f <= r.from
    <2>1. \A r \in Known : r.from \in FromsSeen(TRUE)
        BY DEF Known, FromsSeen, Containers, HasRow
    <2>2. \A r \in Known : r.from \in 0 .. Top /\ r.to \in 0 .. Top /\ r.from <= r.to
        BY RangeFacts DEF Known
    <2>3. \A r \in Known : f <= r.from
        BY <1>1, <2>1 DEF IsMin
    <2>4. 0 .. Top \subseteq Int
        BY ConstantsAssumption
    <2> QED
        BY <2>2, <2>3, <2>4
<1>8. f <= live /\ live \in Int /\ f \in Int
    <2>1. f = live \/ f \in {r.from : r \in Known}
        BY <1>1 DEF IsMin, FromsSeen, Known, Containers, HasRow
    <2>2. live \in Int /\ f \in Int
        BY <1>4, ConstantsAssumption DEF Height, SafetyInv, TypeInv, TypeOK
    <2> QED
        BY <2>1, <2>2, <1>7 DEF BelowLive
<1>9. n.from \in Int /\ n.to \in Int
    BY <1>5, RangeFacts, ConstantsAssumption
<1>10. BelowLive'
    BY <1>1, <1>5, <1>6, <1>8, <1>9 DEF BelowLive
<1>11. ASSUME NEW s \in Known PROVE \E t \in Known : t.from = f
    <2>1. f # live
        BY <1>7, <1>8 DEF BelowLive
    <2> QED
        BY <1>1, <2>1 DEF IsMin, FromsSeen, Known, Containers, HasRow
<1>12. ASSUME NEW r \in Known \cup {n}, NEW s \in Known \cup {n}, r.to < s.from
       PROVE  \E t \in Known : t.from = r.to + 1
    <2>1. CASE r = n
        <3>1. s \in Known
            BY <1>5, <1>9, <1>12, <2>1, RangeFacts
        <3> QED
            BY <1>5, <1>8, <1>11, <2>1, <3>1
    <2>2. CASE r \in Known /\ s = n
        BY <1>5, <1>7, <1>8, <1>9, <1>12, <2>2
    <2>3. CASE r \in Known /\ s \in Known
        BY <1>3, <1>12, <2>3 DEF NoHoles
    <2> QED
        BY <2>1, <2>2, <2>3
<1>13. NoHoles'
    BY <1>3, <1>6, <1>12 DEF NoHoles
<1> QED
    BY <1>10, <1>13

\* No other step claims a range, or drops one.
LEMMA HoleStep ==
    MaxReadErrors = 0 /\ MaxInsertErrors = 0 /\ HoleInv /\ [Next]_vars => HoleInv'
<1> SUFFICES ASSUME MaxReadErrors = 0, MaxInsertErrors = 0, HoleInv, [Next]_vars
             PROVE  HoleInv'
    OBVIOUS
<1> USE DEF HoleInv
<1>1. SafetyInv' /\ LeavesRow'
    BY SafetyStep, LeavesRowStep
<1>2. Claimed = Known /\ Claimed' = Known' /\ Known \subseteq Known'
    BY <1>1, KnownStays DEF Claimed, Known, InHand, LeavesRow
<1>3. live \in Int /\ live' \in Int /\ live <= live' /\ \A r \in Ranges : r.from \in Int
    <2>1. live \in Height /\ live' \in Height /\ \A r \in Ranges : r.from \in Height
        BY <1>1, RangeFacts DEF SafetyInv, TypeInv, TypeOK
    <2>2. live' = live \/ LiveCheckpoint
        BY WorkerFrame DEF Next, SupervisorStep, CooldownPasses, SupervisorCrash, vars, CleanupNext,
            RecoverNext, MarkFailed, LogFailure, Judge, RemoveContainer, StartRange, CleanupDone,
            RecoverDone, StartNextRange, EndPoll, SafetyInv
    <2> QED
        BY <2>1, <2>2, ConstantsAssumption DEF LiveCheckpoint, Height
<1>4. ASSUME Claimed' \subseteq Claimed PROVE NoHoles' /\ BelowLive'
    <2>1. Known' = Known
        BY <1>2, <1>4
    <2> QED
        BY <1>2, <1>3, <2>1 DEF NoHoles, BelowLive, Known
<1>5. ASSUME StartNextRange PROVE NoHoles' /\ BelowLive'
    BY <1>5, FrontierLeavesNoHole
<1>6. ASSUME SupervisorStep, ~StartNextRange PROVE NoHoles' /\ BelowLive'
    BY <1>4, <1>6, NoNewClaim
<1>7. ASSUME NEW r \in Ranges, WorkerStep(r) \/ Crash(r) PROVE Claimed' \subseteq Claimed
    BY <1>7, WorkerFrame DEF SafetyInv, Claimed, InHand, Running
<1>8. ASSUME \/ (\E r \in Ranges : CooldownPasses(r)) \/ SupervisorCrash \/ LiveCheckpoint
             \/ UNCHANGED vars
      PROVE  NoHoles' /\ BelowLive'
    <2>1. status' = status /\ pc' = pc
        BY <1>8 DEF CooldownPasses, SupervisorCrash, LiveCheckpoint, vars, rows, worker
    <2>2. Known' = Known
        BY <2>1 DEF Known
    <2> QED
        BY <1>2, <1>4, <2>2
<1>9. NoHoles' /\ BelowLive'
    BY <1>4, <1>5, <1>6, <1>7, <1>8 DEF Next
<1> QED
    BY <1>1, <1>9

\* While no query and no insert of the supervisor fails, history has no hole that the
\* frontier has passed (min_known_raw_from and start_raw_range of
\* ingestion-supervisor.sh), whatever dies and however the archive answers.
THEOREM HistoryHasNoHoles ==
    ASSUME MaxReadErrors = 0, MaxInsertErrors = 0
    PROVE  Spec => []NoHoles
<1>1. Init => HoleInv
    <2> SUFFICES ASSUME Init PROVE HoleInv
        OBVIOUS
    <2>1. Known = {} /\ Claimed = {} /\ sup.step = "next"
        BY DEF Init, Known, Claimed, InHand, Idle
    <2> QED
        BY <2>1, SafetyInit DEF HoleInv, LeavesRow, BelowLive, NoHoles
<1>2. HoleInv /\ [Next]_vars => HoleInv'
    BY HoleStep
<1>3. HoleInv => NoHoles
    BY DEF HoleInv
<1> QED
    BY <1>1, <1>2, <1>3, PTL DEF Spec

----------------------------------------------------------------------------
(* Retries: every attempt is accounted for by a failure row, or by an       *)
(* insert that failed.                                                      *)

\* Each container started for a range but the present ones has left a failure row, or
\* cost an insert.
Accounted(r, present) ==
    failures[r] < RAW_FAILED_RETRY_LIMIT =>
        attempts[r] <= failures[r] + spent.inserts + present

\* A range without a row has left no trace, so each of its attempts cost an insert.
Traceless(r, present) == status[r] = "none" => attempts[r] <= spent.inserts + present

\* Nothing runs in a container the script works on.
HandInv ==
    /\ sup.phase = "cleanup" =>
        /\ \A r \in sup.todo : pc[r] \in Stopped
        /\ sup.step \notin {"next", "start"} => pc[sup.range] \in Stopped
        /\ sup.step = "start" => pc[sup.range] = "absent"
    /\ sup.step \in {"remove", "restart"} => sup.phase = "cleanup"

\* Recovery starts a blocked range only when its cooldown has passed.
CooldownInv ==
    /\ sup.phase = "recover" =>
        \A r \in sup.todo : pc[r] = "absent" /\ status[r] = "blocked" => r \in aged
    /\ sup.step = "restart" => failures[sup.range] < RAW_FAILED_RETRY_LIMIT
    /\ sup.step = "start" =>
        \/ failures[sup.range] < RAW_FAILED_RETRY_LIMIT
        \/ status[sup.range] = "blocked" /\ sup.range \in aged

AttemptsInv ==
    /\ \A r \in Ranges :
        /\ Accounted(r, 1) /\ Traceless(r, 1)
        /\ pc[r] = "absent" =>
            /\ Accounted(r, 0) \/ status[r] = "completed"
            /\ Traceless(r, 0)
    /\ sup.step \in {"judge", "restart", "start"} => Accounted(sup.range, 0)
    /\ sup.step = "remove" => Accounted(sup.range, 0) \/ status[sup.range] = "completed"
    /\ sup.step \in {"log", "judge", "remove", "restart", "start"} => Traceless(sup.range, 0)

HotInv == SafetyInv /\ HandInv /\ CooldownInv /\ AttemptsInv

\* What a worker does to the rows is to its own, and it starts nothing.
LEMMA WorkerRows ==
    ASSUME TypeInv, NEW r \in Ranges, WorkerStep(r) \/ Crash(r)
    PROVE  /\ aged \subseteq aged' \cup {r} /\ attempts' = attempts
           /\ \A s \in Ranges : s # r => failures'[s] = failures[s]
           /\ failures'[r] \in {failures[r], Min2(failures[r] + 1, RAW_FAILED_RETRY_LIMIT)}
           /\ spent'.inserts = spent.inserts
           /\ pc'[r] = "boot" => pc[r] = "boot"
<1> USE DEF TypeInv, TypeOK, SpentType, SetStatus, MarkRangeFailed, AppendFailure, Running, Stopped, rows, store, worker
<1>1. CASE Boot(r)
    BY <1>1 DEF Boot
<1>2. CASE Ingest(r)
    <2>1. pc' = pc \/ pc' = [pc EXCEPT ![r] = "exit1"]
        BY <1>2 DEF Ingest
    <2>2. pc[r] = "ingest" /\ UNCHANGED <<rows, store, live, sup>>
        BY <1>2 DEF Ingest
    <2>3. spent'.inserts = spent.inserts
        BY <1>2 DEF Ingest
    <2> QED
        BY <2>1, <2>2, <2>3
<1>3. CASE Flush(r) \/ SaveCheckpoint(r)
    BY <1>3 DEF Flush, SaveCheckpoint
<1>4. CASE Validate(r) \/ Rethrow(r)
    <2>1. MarkRangeFailed(r) \/ UNCHANGED <<status, aged, failures>>
        BY <1>4 DEF Validate, Rethrow
    <2>2. /\ UNCHANGED <<attempts, spent>>
          /\ pc'[r] # "boot"
        BY <1>4 DEF Validate, Rethrow
    <2> QED
        BY <2>1, <2>2
<1>5. CASE FinalizeRange(r) \/ Exit(r)
    BY <1>5 DEF FinalizeRange, Exit
<1>6. CASE Crash(r)
    BY <1>6 DEF Crash
<1> QED
    BY <1>1, <1>2, <1>3, <1>4, <1>5, <1>6 DEF WorkerStep

\* Nothing runs in what the script holds.
LEMMA InHandStopped ==
    ASSUME SafetyInv, HandInv, sup.step # "next"
    PROVE  pc[sup.range] \notin Running /\ sup.range \notin sup.todo /\ sup.range \in Ranges
           /\ sup.phase \in {"cleanup", "recover"}
<1>1. sup.phase \in {"cleanup", "recover", "frontier"} /\ sup.range \in Ranges
    BY DEF SafetyInv, TypeInv, TypeOK, SupType, Phase
<1>2. sup.range \notin sup.todo /\ sup.phase # "frontier"
    BY DEF SafetyInv, ScriptInv
<1>3. CASE sup.phase = "cleanup"
    BY <1>1, <1>2, <1>3 DEF HandInv, Running, Stopped
<1>4. CASE sup.phase = "recover"
    BY <1>1, <1>2, <1>4 DEF SafetyInv, ScriptInv, Running
<1> QED
    BY <1>1, <1>2, <1>3, <1>4

\* What cleanup lists and holds stays stopped until it removes it.
LEMMA HandStep ==
    ASSUME MaxReadErrors = 0, SafetyInv, HandInv, [Next]_vars
    PROVE  HandInv'
<1> USE SupStep DEF SafetyInv, TypeInv, TypeOK, SetStatus, SupType, rows, store, worker
<1>1. ASSUME NEW r \in Ranges, WorkerStep(r) \/ Crash(r) PROVE HandInv'
    <2>1. sup' = sup /\ pc[r] \in Running /\ \A s \in Ranges \ {r} : pc'[s] = pc[s]
        BY <1>1, WorkerFrame
    <2>2. sup.phase = "cleanup" => r \notin sup.todo
        BY <2>1 DEF HandInv, Running, Stopped
    <2>3. sup.step # "next" => sup.range # r /\ sup.range \in Ranges
        BY <2>1, InHandStopped
    <2> QED
        BY <2>1, <2>2, <2>3 DEF HandInv
<1>2. ASSUME NEW r \in Ranges, CleanupNext(r) PROVE HandInv'
    <2>1. /\ sup.phase = "cleanup" /\ pc' = pc /\ r \in sup.todo
          /\ sup' = Handle("remove", r) \/ sup' = Handle("fail", r)
        BY <1>2 DEF CleanupNext
    <2> QED
        BY <2>1, SupFields DEF HandInv
<1>3. ASSUME NEW r \in Ranges, RecoverNext(r) PROVE HandInv'
    <2>1. sup.phase = "recover" /\ sup.step = "next"
        BY <1>3 DEF RecoverNext
    <2>2. \/ sup' = [sup EXCEPT !.todo = @ \ {r}]
          \/ \E step \in {"fail", "judge", "start"} : sup' = Handle(step, r)
          \/ sup' = Idle("frontier", {})
        BY <1>3 DEF RecoverNext
    <2> QED
        BY <2>1, <2>2, SupFields DEF HandInv
<1>4. CASE MarkFailed \/ LogFailure
    <2>1. pc' = pc /\ sup.step # "next" /\ sup.step # "start"
          /\ \E step \in {"log", "judge"} : sup' = [sup EXCEPT !.step = step]
        BY <1>4 DEF MarkFailed, LogFailure
    <2> QED
        BY <2>1, SupFields DEF HandInv
<1>5. CASE Judge
    <2>1. pc' = pc /\ sup.step = "judge"
        BY <1>5 DEF Judge
    <2>2. \/ sup' = Idle("frontier", {})
          \/ sup' = NextItem
          \/ sup.phase = "cleanup" /\ \E step \in {"remove", "restart"} : sup' = [sup EXCEPT !.step = step]
          \/ sup.phase # "cleanup" /\ sup' = [sup EXCEPT !.step = "start"]
        BY <1>5 DEF Judge
    <2> QED
        BY <2>1, <2>2, SupFields DEF HandInv, NextItem
<1>6. CASE RemoveContainer
    <2>1. sup.phase = "cleanup" /\ sup.range \notin sup.todo
        BY <1>6, InHandStopped DEF RemoveContainer, HandInv
    <2>2. pc' = [pc EXCEPT ![sup.range] = "absent"]
          /\ (sup' = [sup EXCEPT !.step = "start"] \/ sup' = NextItem)
        BY <1>6 DEF RemoveContainer
    <2> QED
        BY <2>1, <2>2, SupFields DEF HandInv, NextItem
<1>7. CASE StartRange
    <2>1. sup.range \notin sup.todo
        BY <1>7, InHandStopped DEF StartRange
    <2>2. pc' = [pc EXCEPT ![sup.range] = "boot"] /\ sup' = NextItem
        BY <1>7 DEF StartRange, Launch
    <2> QED
        BY <2>1, <2>2, SupFields DEF HandInv, NextItem
<1>8. CASE CleanupDone \/ RecoverDone \/ EndPoll \/ SupervisorCrash
    <2>1. \/ sup' = Idle("recover", Recoverable)
          \/ sup' = Idle("frontier", {})
          \/ sup' = Idle("cleanup", StoppedContainers) /\ pc' = pc
        BY <1>8 DEF CleanupDone, RecoverDone, EndPoll, SupervisorCrash
    <2> QED
        BY <2>1, SupFields DEF HandInv, StoppedContainers
<1>9. CASE StartNextRange
    BY <1>9 DEF StartNextRange, HandInv, ScriptInv
<1>10. CASE (\E r \in Ranges : CooldownPasses(r)) \/ LiveCheckpoint \/ UNCHANGED vars
    BY <1>10 DEF CooldownPasses, LiveCheckpoint, vars, HandInv
<1> QED
    BY <1>1, <1>2, <1>3, <1>4, <1>5, <1>6, <1>7, <1>8, <1>9, <1>10 DEF Next, SupervisorStep

\* The script starts again only what has attempts left, or has cooled down.
LEMMA CooldownStep ==
    ASSUME MaxReadErrors = 0, SafetyInv, HandInv, CooldownInv, [Next]_vars
    PROVE  CooldownInv'
<1> USE SupStep DEF SafetyInv, TypeInv, TypeOK, SetStatus, SupType, rows, store, worker
<1>1. ASSUME NEW r \in Ranges, WorkerStep(r) \/ Crash(r) PROVE CooldownInv'
    <2>1. /\ sup' = sup /\ pc[r] \in Running /\ aged \subseteq aged' \cup {r}
          /\ \A s \in Ranges \ {r} :
                status'[s] = status[s] /\ pc'[s] = pc[s] /\ failures'[s] = failures[s]
        BY <1>1, WorkerFrame, WorkerRows
    <2>2. sup.step # "next" => sup.range # r /\ sup.range \in Ranges
        BY <2>1, InHandStopped
    <2>3. pc'[r] # "absent"
        BY <1>1, WorkerFrame DEF Running, Stopped
    <2> QED
        BY <2>1, <2>2, <2>3 DEF CooldownInv
<1>2. ASSUME NEW r \in Ranges, CleanupNext(r) PROVE CooldownInv'
    <2>1. /\ sup.phase = "cleanup"
          /\ sup' = Handle("remove", r) \/ sup' = Handle("fail", r)
        BY <1>2 DEF CleanupNext
    <2> QED
        BY <2>1, SupFields DEF CooldownInv
<1>3. ASSUME NEW r \in Ranges, RecoverNext(r) PROVE CooldownInv'
    <2>1. /\ sup.phase = "recover" /\ sup.step = "next" /\ r \in sup.todo
          /\ UNCHANGED <<status, aged, pc, failures>>
        BY <1>3 DEF RecoverNext
    <2>2. \/ sup' = [sup EXCEPT !.todo = @ \ {r}]
          \/ \E step \in {"fail", "judge"} : sup' = Handle(step, r)
          \/ /\ pc[r] = "absent" /\ status[r] \notin {"running", "failed"}
             /\ sup' = Handle("start", r)
          \/ sup' = Idle("frontier", {})
        BY <1>3 DEF RecoverNext, Container
    <2>3. CASE pc[r] = "absent" /\ status[r] \notin {"running", "failed"} /\ sup' = Handle("start", r)
        <3>1. status[r] # "none" /\ status[r] # "completed"
            BY <2>1, <2>3 DEF ScriptInv, Known
        <3>2. status[r] = "blocked" /\ r \in aged
            BY <2>1, <2>3, <3>1 DEF CooldownInv, Status
        <3> QED
            BY <2>1, <2>3, <3>2, SupFields DEF CooldownInv
    <2>4. CASE \/ sup' = [sup EXCEPT !.todo = @ \ {r}]
               \/ \E step \in {"fail", "judge"} : sup' = Handle(step, r)
               \/ sup' = Idle("frontier", {})
        BY <2>1, <2>4, SupFields DEF CooldownInv
    <2> QED
        BY <2>2, <2>3, <2>4
<1>4. CASE MarkFailed \/ LogFailure
    <2>1. /\ sup.range \notin sup.todo
          /\ sup'.step \in {"log", "judge"} /\ sup'.todo = sup.todo /\ sup'.phase = sup.phase
          /\ pc' = pc
        BY <1>4, InHandStopped DEF MarkFailed, LogFailure
    <2>2. /\ \A r \in Ranges \ {sup.range} : status'[r] = status[r]
          /\ aged \subseteq aged' \cup {sup.range}
        BY <1>4 DEF MarkFailed, LogFailure
    <2> QED
        BY <2>1, <2>2 DEF CooldownInv
<1>5. CASE Judge
    <2>1. /\ sup.range \notin sup.todo /\ sup.range \in Ranges /\ pc' = pc /\ failures' = failures
          /\ SetStatus(sup.range, "blocked") \/ UNCHANGED <<status, aged>>
        BY <1>5, InHandStopped DEF Judge
    <2>2. \/ sup' = Idle("frontier", {})
          \/ sup' = NextItem
          \/ sup' = [sup EXCEPT !.step = "remove"] /\ sup.phase = "cleanup"
          \/ /\ failures[sup.range] < RAW_FAILED_RETRY_LIMIT
             /\ sup' = [sup EXCEPT !.step = "restart"] \/ sup' = [sup EXCEPT !.step = "start"]
        <3>1. spent.reads \in 0 .. 0
            BY DEF SpentType
        <3>2. ReadOk(failures[sup.range] < RAW_FAILED_RETRY_LIMIT) =>
                failures[sup.range] < RAW_FAILED_RETRY_LIMIT
            BY <3>1 DEF ReadOk
        <3> QED
            BY <1>5, <3>2 DEF Judge
    <2>3. \A r \in Ranges \ {sup.range} : status'[r] = status[r] /\ (r \in aged => r \in aged')
        BY <2>1
    <2>4. /\ sup'.todo \subseteq sup.todo
          /\ sup'.phase = "recover" => sup.phase = "recover"
          /\ sup'.step \in {"start", "restart"} =>
                sup'.range = sup.range /\ failures[sup.range] < RAW_FAILED_RETRY_LIMIT
        BY <2>2, SupFields DEF NextItem
    <2> QED
        BY <2>1, <2>3, <2>4 DEF CooldownInv
<1>6. CASE RemoveContainer
    <2>1. sup.phase = "cleanup"
        BY <1>6 DEF RemoveContainer, HandInv
    <2>2. /\ sup' = NextItem \/ (sup.step = "restart" /\ sup' = [sup EXCEPT !.step = "start"])
          /\ failures' = failures
        BY <1>6 DEF RemoveContainer
    <2> QED
        BY <2>1, <2>2, SupFields DEF CooldownInv, NextItem
<1>7. CASE StartRange
    <2>1. /\ pc' = [pc EXCEPT ![sup.range] = "boot"] /\ sup' = NextItem
          /\ UNCHANGED <<status, aged, failures>>
        BY <1>7 DEF StartRange, Launch
    <2> QED
        BY <2>1, SupFields DEF CooldownInv, NextItem
<1>8. CASE CleanupDone \/ RecoverDone \/ EndPoll \/ SupervisorCrash
    <2>1. \/ sup' = Idle("recover", Recoverable) /\ UNCHANGED <<status, aged, pc>>
          \/ sup' = Idle("frontier", {})
          \/ sup' = Idle("cleanup", StoppedContainers)
        BY <1>8 DEF CleanupDone, RecoverDone, EndPoll, SupervisorCrash
    <2> QED
        BY <2>1, SupFields DEF CooldownInv, Recoverable
<1>9. CASE StartNextRange
    BY <1>9 DEF StartNextRange, ScriptInv, CooldownInv
<1>10. CASE (\E r \in Ranges : CooldownPasses(r)) \/ LiveCheckpoint \/ UNCHANGED vars
    BY <1>10 DEF CooldownPasses, LiveCheckpoint, vars, CooldownInv
<1> QED
    BY <1>1, <1>2, <1>3, <1>4, <1>5, <1>6, <1>7, <1>8, <1>9, <1>10 DEF Next, SupervisorStep

\* Failure rows and failed inserts only accumulate.
LEMMA CountsKept ==
    ASSUME TypeInv, TypeInv', NEW s \in Ranges, NEW present \in {0, 1},
           attempts'[s] = attempts[s], failures'[s] >= failures[s],
           spent'.inserts >= spent.inserts
    PROVE  /\ Accounted(s, present) => Accounted(s, present)'
           /\ Traceless(s, present) /\ (status[s] # "none" => status'[s] # "none")
                => Traceless(s, present)'
<1>1. /\ failures[s] \in Nat /\ failures'[s] \in Nat /\ attempts[s] \in Nat
      /\ spent.inserts \in Nat /\ spent'.inserts \in Nat
    BY ConstantsAssumption DEF TypeInv, TypeOK, SpentType, MaxAttempts
<1> QED
    BY <1>1, ConstantsAssumption DEF Accounted, Traceless

\* The counters are numbers, and one start adds one attempt.
LEMMA LaunchCounts ==
    ASSUME TypeInv, TypeInv', NEW n \in Ranges, Launch(n), Accounted(n, 0), Traceless(n, 0),
           failures' = failures, status' = status, spent' = spent
    PROVE  Accounted(n, 1)' /\ Traceless(n, 1)'
<1>1. /\ failures[n] \in Nat /\ attempts[n] \in Nat /\ spent.inserts \in Nat /\ MaxAttempts \in Nat
    BY ConstantsAssumption DEF TypeInv, TypeOK, SpentType, MaxAttempts
<1>2. attempts'[n] = Min2(attempts[n] + 1, MaxAttempts)
    BY DEF Launch, TypeInv, TypeOK
<1>3. attempts'[n] <= attempts[n] + 1 /\ attempts'[n] \in Nat
    BY <1>1, <1>2 DEF Min2
<1> QED
    BY <1>1, <1>3, ConstantsAssumption DEF Accounted, Traceless

\* Every step keeps the account.
LEMMA AttemptsStep ==
    ASSUME MaxReadErrors = 0, SafetyInv, SafetyInv', HandInv, AttemptsInv, [Next]_vars
    PROVE  AttemptsInv'
<1> USE SupStep DEF SetStatus, rows, store, worker
<1>0. /\ TypeInv /\ TypeInv' /\ spent.inserts \in Nat
      /\ \A r \in Ranges : failures[r] \in Nat /\ attempts[r] \in Nat
    BY ConstantsAssumption DEF SafetyInv, TypeInv, TypeOK, SpentType, MaxAttempts
<1>1. /\ pc \in [Ranges -> Container] /\ status \in [Ranges -> Status]
      /\ failures \in [Ranges -> 0 .. RAW_FAILED_RETRY_LIMIT] /\ sup \in SupType
    BY <1>0 DEF TypeInv, TypeOK
<1>2. ~ReadOk(FALSE) /\ (ReadOk(TRUE) => spent' = spent)
    <2>1. spent.reads \in 0 .. 0
        BY <1>0 DEF TypeInv, TypeOK, SpentType
    <2> QED
        BY <2>1 DEF ReadOk
<1>3. ASSUME UNCHANGED <<failures, attempts>>, spent'.inserts = spent.inserts,
             \A s \in Ranges : /\ status'[s] = status[s]
                               /\ pc'[s] = "absent" => pc[s] = "absent",
             sup'.step \in {"next", "fail"} \/ UNCHANGED sup
      PROVE  AttemptsInv'
    BY <1>0, <1>1, <1>3 DEF AttemptsInv, Accounted, Traceless, SupType
<1>4. ASSUME NEW r \in Ranges, WorkerStep(r) \/ Crash(r) PROVE AttemptsInv'
    <2>1. /\ sup' = sup /\ attempts' = attempts /\ spent'.inserts = spent.inserts
          /\ \A s \in Ranges : failures'[s] >= failures[s]
          /\ \A s \in Ranges : status[s] # "none" => status'[s] # "none"
          /\ \A s \in Ranges : status[s] = "completed" => status'[s] = "completed"
          /\ \A s \in Ranges : pc'[s] = "absent" => pc[s] = "absent"
        <3>1. \A s \in Ranges : failures'[s] >= failures[s]
            BY <1>0, <1>1, <1>4, WorkerRows, ConstantsAssumption DEF Min2
        <3> QED
            BY <1>0, <1>4, <3>1, WorkerFrame, WorkerRows DEF Running, Stopped
    <2>2. \A s \in Ranges, present \in {0, 1} :
            /\ Accounted(s, present) => Accounted(s, present)'
            /\ Traceless(s, present) => Traceless(s, present)'
        BY <1>0, <2>1, CountsKept
    <2>3. sup.range \in Ranges
        BY <1>0
    <2> QED
        BY <2>1, <2>2, <2>3 DEF AttemptsInv
<1>5. ASSUME NEW r \in Ranges, CleanupNext(r) PROVE AttemptsInv'
    <2>1. /\ UNCHANGED <<status, failures, attempts, pc, spent>>
          /\ \/ sup' = Handle("remove", r) /\ status[r] = "completed"
             \/ sup' = Handle("fail", r)
        BY <1>2, <1>5 DEF CleanupNext
    <2> QED
        BY <1>0, <2>1, SupFields DEF AttemptsInv, Accounted, Traceless
<1>6. ASSUME NEW r \in Ranges, RecoverNext(r) PROVE AttemptsInv'
    <2>1. /\ UNCHANGED <<status, failures, attempts, pc, spent>>
          /\ sup.phase = "recover" /\ sup.step = "next" /\ r \in sup.todo
        BY <1>6 DEF RecoverNext
    <2>2. \/ sup' = [sup EXCEPT !.todo = @ \ {r}]
          \/ sup' = Handle("fail", r)
          \/ pc[r] = "absent" /\ \E step \in {"judge", "start"} : sup' = Handle(step, r)
          \/ sup' = Idle("frontier", {})
        BY <1>6 DEF RecoverNext
    <2>3. pc[r] = "absent" => Accounted(r, 0) /\ Traceless(r, 0)
        BY <2>1 DEF AttemptsInv, SafetyInv, ScriptInv
    <2>4. \A s \in Ranges : \A k \in {0, 1} :
            (Accounted(s, k) => Accounted(s, k)') /\ (Traceless(s, k) => Traceless(s, k)')
        BY <2>1 DEF Accounted, Traceless
    <2>5. \/ sup'.step \in {"next", "fail"}
          \/ sup'.range = r /\ pc[r] = "absent" /\ sup'.step \in {"judge", "start"}
        <3>1. CASE sup' = [sup EXCEPT !.todo = @ \ {r}]
            BY <1>0, <2>1, <3>1, SupFields
        <3>2. ASSUME NEW step, sup' = Handle(step, r) PROVE sup'.step = step /\ sup'.range = r
            BY <1>0, <3>2, SupFields
        <3>3. CASE sup' = Idle("frontier", {})
            BY <1>0, <3>3, SupFields
        <3> QED
            BY <2>2, <3>1, <3>2, <3>3
    <2> QED
        BY <2>1, <2>3, <2>4, <2>5 DEF AttemptsInv
<1>7. CASE MarkFailed
    <2>0. PICK r \in Ranges : r = sup.range
        BY <1>0
    <2>1. /\ UNCHANGED <<failures, attempts, pc>> /\ r \in Ranges /\ sup.step = "fail"
          /\ sup'.step = "log" /\ sup'.range = r
        BY <1>1, <1>7, <2>0 DEF MarkFailed, SupType
    <2>2. /\ spent'.inserts >= spent.inserts
          /\ \A s \in Ranges : status[s] # "none" => status'[s] # "none"
          /\ \A s \in Ranges : s # r => status'[s] = status[s]
          /\ \/ status'[r] = "failed"
             \/ spent'.inserts = spent.inserts + 1 /\ status'[r] = status[r]
        BY <1>0, <1>1, <1>7, <2>0 DEF MarkFailed, InsertOk, InsertFails, TypeInv, TypeOK, SpentType
    <2>3. \A s \in Ranges : \A k \in {0, 1} :
            (Accounted(s, k) => Accounted(s, k)') /\ (Traceless(s, k) => Traceless(s, k)')
        BY <1>0, <2>1, <2>2, CountsKept
    <2>4. pc[r] = "absent" => Accounted(r, 0)
        <3>1. pc[r] = "absent" => status[r] # "completed"
            BY <2>0, <2>1, InHandStopped DEF HandInv, SafetyInv, ScriptInv, Stopped
        <3> QED
            BY <2>1, <3>1 DEF AttemptsInv
    <2>5. Traceless(r, 0)'
        <3>1. Traceless(r, 1)
            BY DEF AttemptsInv
        <3>2. spent'.inserts \in Nat
            BY <1>0 DEF TypeInv, TypeOK, SpentType
        <3> QED
            BY <1>0, <2>1, <2>2, <3>1, <3>2 DEF Traceless
    <2> QED
        BY <2>1, <2>2, <2>3, <2>4, <2>5 DEF AttemptsInv
<1>8. CASE LogFailure
    <2>0. PICK r \in Ranges : r = sup.range
        BY <1>0
    <2>1. /\ UNCHANGED <<status, attempts, pc>> /\ r \in Ranges /\ sup.step = "log"
          /\ sup'.step = "judge" /\ sup'.range = r
        BY <1>1, <1>8, <2>0 DEF LogFailure, SupType
    <2>2. /\ spent'.inserts >= spent.inserts
          /\ \A s \in Ranges : failures'[s] >= failures[s]
          /\ \/ spent'.inserts = spent.inserts + 1 /\ failures'[r] = failures[r]
             \/ failures'[r] = Min2(failures[r] + 1, RAW_FAILED_RETRY_LIMIT)
        BY <1>0, <1>1, <1>8, <2>0, ConstantsAssumption
           DEF LogFailure, AppendFailure, InsertOk, InsertFails, Min2, TypeInv, TypeOK, SpentType
    <2>3. \A s \in Ranges : \A k \in {0, 1} :
            (Accounted(s, k) => Accounted(s, k)') /\ (Traceless(s, k) => Traceless(s, k)')
        BY <1>0, <2>1, <2>2, CountsKept
    <2>4. Accounted(r, 0)'
        <3>1. Accounted(r, 1)
            BY <2>1 DEF AttemptsInv
        <3>2. spent'.inserts \in Nat /\ failures'[r] \in Nat
            BY <1>0, <2>1, ConstantsAssumption DEF TypeInv, TypeOK, SpentType
        <3> QED
            BY <1>0, <2>1, <2>2, <3>1, <3>2, ConstantsAssumption DEF Accounted, Min2
    <2>5. Traceless(r, 0)
        BY <2>0, <2>1 DEF AttemptsInv
    <2> QED
        BY <2>1, <2>3, <2>4, <2>5 DEF AttemptsInv
<1>9. CASE Judge
    <2>0. PICK r \in Ranges : r = sup.range
        BY <1>0
    <2>1. /\ UNCHANGED <<failures, attempts, pc>> /\ r \in Ranges /\ sup.step = "judge"
          /\ SetStatus(r, "blocked") \/ UNCHANGED <<status, aged>>
        BY <1>9, <2>0 DEF Judge
    <2>2. spent'.inserts >= spent.inserts
        <3>1. InsertOk \/ InsertFails \/ ReadOk(TRUE) \/ ReadOk(FALSE)
            BY <1>9 DEF Judge, ReadOk
        <3> QED
            <4>1. InsertFails => spent'.inserts = spent.inserts + 1
                BY <1>0 DEF InsertFails, TypeInv, TypeOK, SpentType
            <4>2. InsertOk \/ ReadOk(TRUE) => spent' = spent
                BY <1>2, Zenon DEF InsertOk
            <4>3. InsertFails \/ spent' = spent
                BY <1>2, <3>1, <4>2, Zenon
            <4> QED
                BY <1>0, <4>1, <4>3
    <2>3. /\ \A s \in Ranges : status[s] # "none" => status'[s] # "none"
          /\ \A s \in Ranges : s # r => status'[s] = status[s]
        BY <1>1, <2>1
    <2>4. sup'.step = "next" \/ sup'.range = r
        <3>1. \/ sup' = Idle("frontier", {})
              \/ sup' = NextItem
              \/ \E step \in {"remove", "restart", "start"} : sup' = [sup EXCEPT !.step = step]
            BY <1>9 DEF Judge
        <3>2. \A step : [sup EXCEPT !.step = step].range = sup.range
            BY <1>1 DEF SupType
        <3>3. NextItem.step = "next" /\ Idle("frontier", {}).step = "next"
            BY DEF NextItem, Idle
        <3> QED
            BY <2>0, <3>1, <3>2, <3>3
    <2>5. \A s \in Ranges : \A k \in {0, 1} :
            (Accounted(s, k) => Accounted(s, k)') /\ (Traceless(s, k) => Traceless(s, k)')
        BY <1>0, <2>1, <2>2, <2>3, CountsKept
    <2>6. Accounted(r, 0) /\ Traceless(r, 0)
        BY <2>0, <2>1 DEF AttemptsInv
    <2> QED
        BY <2>1, <2>3, <2>4, <2>5, <2>6 DEF AttemptsInv
<1>10. CASE RemoveContainer
    <2>0. PICK r \in Ranges : r = sup.range
        BY <1>0
    <2>1. /\ UNCHANGED <<status, failures, attempts, spent>> /\ r \in Ranges
          /\ sup.step \in {"remove", "restart"}
          /\ sup'.step = "next" \/ (sup.step = "restart" /\ sup'.range = r /\ sup'.step = "start")
          /\ \A s \in Ranges : s # r => pc'[s] = pc[s]
        BY <1>1, <1>10, <2>0 DEF RemoveContainer, NextItem, Idle, SupType
    <2>2. \A s \in Ranges : \A k \in {0, 1} :
            (Accounted(s, k) => Accounted(s, k)') /\ (Traceless(s, k) => Traceless(s, k)')
        BY <2>1 DEF Accounted, Traceless
    <2>3. /\ Accounted(r, 0) \/ (status[r] = "completed" /\ sup.step = "remove")
          /\ Traceless(r, 0)
        BY <2>0, <2>1 DEF AttemptsInv
    <2> QED
        BY <2>1, <2>2, <2>3 DEF AttemptsInv
<1>11. ASSUME NEW n \in Ranges, Launch(n), UNCHANGED <<status, failures, spent>>,
              Accounted(n, 0), Traceless(n, 0), sup'.step = "next"
       PROVE  AttemptsInv'
    <2>1. Accounted(n, 1)' /\ Traceless(n, 1)'
        BY <1>0, <1>11, LaunchCounts
    <2>2. \A s \in Ranges : s # n => pc'[s] = pc[s] /\ attempts'[s] = attempts[s]
        BY <1>0, <1>11 DEF Launch, TypeInv, TypeOK
    <2>3. pc'[n] = "boot"
        BY <1>1, <1>11 DEF Launch
    <2>4. \A s \in Ranges : s # n => \A k \in {0, 1} :
            (Accounted(s, k) => Accounted(s, k)') /\ (Traceless(s, k) => Traceless(s, k)')
        BY <1>11, <2>2 DEF Accounted, Traceless
    <2> QED
        BY <1>11, <2>1, <2>2, <2>3, <2>4 DEF AttemptsInv
<1>12. CASE StartRange
    <2>1. sup.range \in Ranges /\ Accounted(sup.range, 0) /\ Traceless(sup.range, 0)
        BY <1>0, <1>12 DEF StartRange, AttemptsInv
    <2>2. sup'.step = "next" /\ Launch(sup.range) /\ UNCHANGED <<status, failures, spent>>
        BY <1>12 DEF StartRange, NextItem, Idle
    <2> QED
        BY <1>11, <2>1, <2>2
<1>13. CASE StartNextRange
    <2>1. PICK n \in Ranges : /\ Launch(n) /\ sup.step = "next" /\ UNCHANGED <<status, sup>>
                              /\ \A s \in Claimed : ~Overlap(s, n)
        BY <1>13, FrontierBelow
    <2>2. Overlap(n, n)
        BY RangeFacts DEF Overlap
    <2>3. pc[n] = "absent" /\ status[n] = "none"
        BY <2>1, <2>2 DEF Claimed
    <2>4. UNCHANGED <<failures, spent>>
        BY <1>2, <1>13 DEF StartNextRange, ReadOk
    <2>5. Accounted(n, 0) /\ Traceless(n, 0)
        BY <2>3 DEF AttemptsInv
    <2> QED
        BY <1>11, <2>1, <2>4, <2>5
<1>14. CASE CleanupDone \/ RecoverDone \/ EndPoll \/ SupervisorCrash
    <2>1. /\ UNCHANGED <<status, failures, attempts, pc>> /\ spent'.inserts = spent.inserts
          /\ \/ sup' = Idle("recover", Recoverable) \/ sup' = Idle("frontier", {})
             \/ sup' = Idle("cleanup", StoppedContainers)
        BY <1>0, <1>14 DEF CleanupDone, RecoverDone, EndPoll, SupervisorCrash, TypeInv, TypeOK, SpentType
    <2> QED
        BY <1>0, <1>3, <2>1, SupFields
<1>15. CASE (\E r \in Ranges : CooldownPasses(r)) \/ LiveCheckpoint \/ UNCHANGED vars
    BY <1>3, <1>15 DEF CooldownPasses, LiveCheckpoint, vars
<1> QED
    BY <1>4, <1>5, <1>6, <1>7, <1>8, <1>9, <1>10, <1>12, <1>13, <1>14, <1>15
       DEF Next, SupervisorStep

LEMMA HotStep ==
    MaxReadErrors = 0 /\ HotInv /\ [Next]_vars => HotInv'
BY SafetyStep, HandStep, CooldownStep, AttemptsStep DEF HotInv

\* While no query of the supervisor fails, a range that has used its attempts, and those
\* failed inserts gave it (RAW_FAILED_RETRY_LIMIT of ingestion-supervisor.sh), starts
\* again only as a blocked range that has cooled down.
THEOREM RetriesBounded ==
    ASSUME MaxReadErrors = 0
    PROVE  Spec => HotRetriesBounded
<1> DEFINE Bounded ==
        \A r \in Ranges :
            /\ pc[r] # "boot"
            /\ pc'[r] = "boot"
            /\ attempts[r] >= RAW_FAILED_RETRY_LIMIT + spent.inserts
            => status[r] = "blocked" /\ r \in aged
<1>1. Init => HotInv
    <2> SUFFICES ASSUME Init PROVE HotInv
        OBVIOUS
    <2>1. sup.step = "next" /\ sup.phase = "cleanup" /\ sup.todo = {}
        BY DEF Init, Idle
    <2>2. HandInv /\ CooldownInv
        BY <2>1 DEF HandInv, CooldownInv
    <2>3. AttemptsInv
        BY <2>1, ConstantsAssumption DEF Init, AttemptsInv, Accounted, Traceless
    <2> QED
        BY <2>2, <2>3, SafetyInit DEF HotInv
<1>2. HotInv /\ [Next]_vars => HotInv'
    BY HotStep
<1>3. MaxReadErrors = 0 /\ HotInv /\ [Next]_vars => [Bounded]_vars
    <2> SUFFICES ASSUME MaxReadErrors = 0, HotInv, Next, NEW r \in Ranges,
                        pc[r] # "boot", pc'[r] = "boot",
                        attempts[r] >= RAW_FAILED_RETRY_LIMIT + spent.inserts
                 PROVE  status[r] = "blocked" /\ r \in aged
        OBVIOUS
    <2> USE DEF HotInv
    <2>0. /\ TypeInv /\ pc \in [Ranges -> Container] /\ spent.inserts \in Nat
          /\ failures[r] \in Nat /\ attempts[r] \in Nat
        BY ConstantsAssumption DEF SafetyInv, TypeInv, TypeOK, SpentType, MaxAttempts
    <2>1. CASE StartRange
        <3>1. r = sup.range /\ sup.step = "start"
            BY <2>0, <2>1 DEF StartRange, Launch
        <3>2. ~(failures[r] < RAW_FAILED_RETRY_LIMIT)
            BY <2>0, <3>1, ConstantsAssumption DEF AttemptsInv, Accounted
        <3> QED
            BY <3>1, <3>2 DEF CooldownInv
    <2>2. CASE StartNextRange
        <3>1. PICK n \in Ranges : /\ Launch(n) /\ UNCHANGED <<status, sup>>
                                  /\ \A s \in Claimed : ~Overlap(s, n)
            BY <2>2, FrontierBelow
        <3>2. Overlap(n, n)
            BY RangeFacts DEF Overlap
        <3>3. pc[n] = "absent" /\ status[n] = "none"
            BY <3>1, <3>2 DEF Claimed
        <3>4. r = n
            BY <2>0, <3>1 DEF Launch
        <3>5. attempts[r] <= spent.inserts
            BY <2>0, <3>3, <3>4 DEF AttemptsInv, Traceless
        <3> QED
            BY <2>0, <3>5, ConstantsAssumption
    <2>3. ASSUME NEW s \in Ranges, WorkerStep(s) \/ Crash(s) PROVE FALSE
        BY <2>0, <2>3, WorkerFrame, WorkerRows
    <2>4. CASE RemoveContainer
        BY <2>0, <2>4 DEF RemoveContainer
    <2>5. ASSUME pc' = pc PROVE FALSE
        BY <2>5
    <2> QED
        BY <2>1, <2>2, <2>3, <2>4, <2>5 DEF Next, SupervisorStep, CleanupNext, RecoverNext, MarkFailed,
            LogFailure, Judge, CleanupDone, RecoverDone, EndPoll, CooldownPasses, SupervisorCrash,
            LiveCheckpoint, worker
<1> QED
    BY <1>1, <1>2, <1>3, PTL DEF Spec, HotRetriesBounded

=============================================================================
