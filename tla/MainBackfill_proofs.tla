------------------------- MODULE MainBackfill_proofs -------------------------
(***************************************************************************)
(* Proofs about MainBackfill for every number of blocks, workers and       *)
(* faults: the claims of the price containers never meet, and what has     *)
(* been written or claimed has no hole.                                    *)
(***************************************************************************)
EXTENDS MainBackfill, WellFoundedInduction, TLAPS

\* A nonempty set of heights has a lowest and a highest one.
LEMMA LowestExists ==
    ASSUME NEW S, S \subseteq Nat, S # {}
    PROVE  \E x \in S : \A y \in S : x <= y
<1>1. PICK x \in S : \A y \in S : <<y, x>> \notin OpToRel(<, Nat)
    BY WFMin, NatLessThanWellFounded, Zenon
<1>2. \A a, b \in S : b < a => <<b, a>> \in OpToRel(<, Nat)
    BY DEF OpToRel
<1>3. \A y \in S : ~(y < x)
    BY <1>1, <1>2, Zenon
<1>4. QED
    BY <1>3

LEMMA HighestExists ==
    ASSUME NEW S, S \subseteq Height, S # {}
    PROVE  Highest(S) \in S /\ \A c \in S : c <= Highest(S)
<1> USE MainAssumption DEF Height
<1> DEFINE Below == {Top - b : b \in S}
<1>1. Below \subseteq Nat /\ Below # {}
    <2>1. \A b \in S : Top - b \in Nat
        OBVIOUS
    <2>2. QED
        BY <2>1
<1>2. PICK x \in Below : \A y \in Below : x <= y
    <2> HIDE DEF Below
    <2> QED
        BY <1>1, LowestExists
<1>3. PICK b \in S : x = Top - b
    BY <1>2
<1>4. \A c \in S : c <= b
    <2> TAKE c \in S
    <2>1. x <= Top - c
        BY <1>2
    <2> QED
        BY <1>3, <2>1
<1>5. QED
    BY <1>3, <1>4 DEF Highest

LEMMA RangeFacts ==
    /\ NoRange \in Ranges
    /\ \A r \in Ranges :
          /\ r.from \in 0 .. Top /\ r.to \in 0 .. Top /\ r.from <= r.to
          /\ Blocks(r) \subseteq Height
BY MainAssumption DEF Ranges, Height, NoRange, Blocks

----------------------------------------------------------------------------
(* The frontier. *)

\* The blocks and containers in sight are heights, and main-live stays under the head.
LEMMA FrontierFacts ==
    ASSUME TypeOK
    PROVE  /\ Frontier \in Height
           /\ \A r \in Containers : Frontier <= r.from
           /\ \A b \in blocks : Frontier <= b
           /\ blocks = {} => Frontier = 0
<1> USE MainAssumption
<1>1. FromsSeen \subseteq Height /\ FromsSeen # {}
    <2>1. \A r \in Containers : r.from \in Height
        BY RangeFacts DEF Containers, Height
    <2>2. blocks \subseteq Height /\ 0 \in Height
        BY DEF TypeOK, Height
    <2>3. QED
        BY <2>1, <2>2 DEF FromsSeen
<1>2. Height \subseteq Nat
    BY DEF Height
<1>3. \E x \in FromsSeen : \A y \in FromsSeen : x <= y
    BY <1>1, <1>2, LowestExists
<1>4. Frontier \in FromsSeen /\ \A g \in FromsSeen : Frontier <= g
    BY <1>3 DEF Frontier
<1>5. /\ \A r \in Containers : r.from \in FromsSeen
      /\ \A b \in blocks : b \in FromsSeen
      /\ blocks = {} => 0 \in FromsSeen
    BY DEF FromsSeen
<1>6. blocks = {} => Frontier = 0
    BY <1>1, <1>4, <1>5 DEF Height
<1>7. QED
    BY <1>1, <1>4, <1>5, <1>6

----------------------------------------------------------------------------
(* The invariant. *)

\* What the script listed is still there: only the script removes containers.
ListInv == \A r \in sup.todo : mc[r] # "absent"

\* The table reaches up to every claim, and so does the checkpoint of main-live.
ClaimsBelow ==
    /\ \A r \in Claimed : \E b \in blocks : r.to <= b
    /\ liveCkpt > 0 => \A r \in Claimed : r.to <= liveCkpt

\* Where main-live stands in the table: its checkpoint and its last flush are in it,
\* and it does not leave a gap below itself.
LiveInTable ==
    /\ head \in 1 .. Top
    /\ blocks \subseteq 0 .. head
    /\ liveCkpt > 0 => liveCkpt \in blocks
    /\ live.pc = "flushed" => live.pos \in blocks
    /\ live.pc \in {"up", "flushed"} /\ blocks # {} => \E b \in blocks : b <= live.pos + 1

ClaimInv ==
    /\ TypeOK
    /\ ListInv
    /\ ClaimsBelow
    /\ LiveInTable
    /\ LiveAboveClaims
    /\ ClaimsDisjoint

\* Without a launch nobody claims anything new.
LEMMA NoNewClaim ==
    ASSUME ClaimInv, [Next]_vars, ~LaunchMain
    PROVE  Claimed' \subseteq Claimed
<1> SUFFICES ASSUME NEW r \in Ranges,
                    mc'[r] # "absent" \/ (sup'.step = "start" /\ sup'.phase = "cleanup" /\ sup'.range = r)
             PROVE  r \in Claimed
    BY DEF Claimed
<1> USE DEF ClaimInv, TypeOK, Claimed, ListInv
<1>1. CASE SourceStep \/ RawDowngrade
    BY <1>1 DEF SourceStep, HeadGrows, RawLiveCheckpoint, RawComplete, RawDowngrade
<1>2. CASE \E s \in Ranges : WorkerStep(s) \/ Kill(s) \/ Stop(s)
    BY <1>2 DEF WorkerStep, Compute, Publish, Finish, Kill, Stop, Running
<1>3. CASE LiveStep \/ LiveKill
    BY <1>3 DEF LiveStep, LiveInsert, LiveCheckpoint, LiveKill
<1>4. CASE RemoveMain
    <2>1. PICK s \in sup.todo :
              /\ mc' = [mc EXCEPT ![s] = "absent"]
              /\ sup' = [sup EXCEPT !.todo = @ \ {s}, !.range = s,
                                    !.step = IF Succeeded(s) THEN "next" ELSE "start"]
        BY <1>4 DEF RemoveMain
    <2>2. QED
        BY <2>1
<1>5. CASE RestartMain
    BY <1>5 DEF RestartMain
<1>6. CASE CleanupDone \/ RemoveLive \/ RestartLive \/ SeedRaw \/ LaunchDone
    BY <1>6 DEF CleanupDone, RemoveLive, RestartLive, SeedRaw, LaunchDone, At
<1>7. CASE EnsureLive \/ SupervisorCrash
    BY <1>7 DEF EnsureLive, SupervisorCrash, NewPoll, At
<1>8. CASE UNCHANGED vars
    BY <1>8 DEF vars
<1>9. QED
    BY <1>1, <1>2, <1>3, <1>4, <1>5, <1>6, <1>7, <1>8 DEF Next, SupervisorStep

\* The range a launch takes.
Launched == [from |-> BatchFrom(Frontier - 1), to |-> Frontier - 1]

\* A launch claims the blocks right below everything anybody has claimed or written.
LEMMA LaunchBelow ==
    ASSUME ClaimInv, LaunchMain
    PROVE  /\ Claimed' \subseteq Claimed \cup {Launched}
           /\ \A r \in Claimed : r.from > Launched.to
           /\ blocks # {}
           /\ \A b \in blocks : Launched.to < b
<1>1. /\ mc' = [mc EXCEPT ![Launched] = "compute"]
      /\ UNCHANGED <<sup, blocks>>
      /\ sup.phase = "launch" /\ Frontier > 0
    BY DEF LaunchMain, CanLaunch, Launched, tables
<1>2. /\ Frontier \in Int
      /\ \A r \in Containers : Frontier <= r.from
      /\ \A b \in blocks : Frontier <= b
      /\ blocks # {}
    BY <1>1, FrontierFacts, MainAssumption DEF ClaimInv, Height
<1>3. Claimed = Containers
    BY <1>1 DEF Claimed, Containers
<1>4. Claimed' \subseteq Claimed \cup {Launched}
    BY <1>1 DEF Claimed, ClaimInv, TypeOK
<1>5. \A r \in Claimed : r.from > Launched.to
    <2> TAKE r \in Claimed
    <2>1. r \in Ranges /\ Frontier <= r.from /\ r.from \in Int
        BY <1>2, <1>3, RangeFacts DEF Containers
    <2>2. QED
        BY <1>2, <2>1 DEF Launched
<1>6. \A b \in blocks : Launched.to < b
    <2> TAKE b \in blocks
    <2>1. b \in Int /\ Frontier <= b
        BY <1>2 DEF ClaimInv, TypeOK, Height
    <2>2. QED
        BY <1>2, <2>1 DEF Launched
<1>7. QED
    BY <1>2, <1>4, <1>5, <1>6

----------------------------------------------------------------------------
(* Types, with what LiveInTable adds to make them inductive. *)

LEMMA TypeInit == Init => ClaimInv
<1> SUFFICES ASSUME Init PROVE ClaimInv
    OBVIOUS
<1> USE MainAssumption
<1>1. PICK low \in 1 .. Top, mark \in 1 .. Top :
          IF Established
          THEN /\ low <= mark
               /\ head = mark /\ rawLive = mark /\ seed = mark
               /\ blocks = low .. mark
               /\ liveCkpt = mark
          ELSE /\ head = low /\ rawLive = 0 /\ seed = 0
               /\ blocks = {}
               /\ liveCkpt = 0
    BY DEF Init
<1>2. /\ done = {}
      /\ live = [pc |-> "absent", pos |-> 0]
      /\ mc = [r \in Ranges |-> "absent"]
      /\ sup = [phase |-> "cleanup", step |-> "next", range |-> NoRange, todo |-> {}]
      /\ spent = [kills |-> 0, stops |-> 0, downgrades |-> 0, supervisor |-> 0]
    BY DEF Init, At
<1>3. Claimed = {}
    BY <1>2 DEF Claimed
<1>4. TypeOK
    BY <1>1, <1>2, RangeFacts DEF TypeOK, Height
<1>5. QED
    BY <1>1, <1>2, <1>3, <1>4
    DEF ClaimInv, ListInv, ClaimsBelow, LiveInTable, LiveAboveClaims, ClaimsDisjoint

\* A main-live that starts stands inside the chain, not below its checkpoint, above
\* every claim, and leaves no gap below itself.
LEMMA LiveStart ==
    ASSUME ClaimInv
    PROVE  /\ LiveStartPos \in 0 .. head
           /\ liveCkpt <= LiveStartPos
           /\ \A r \in Claimed : r.to <= LiveStartPos
           /\ blocks # {} => \E b \in blocks : b <= LiveStartPos + 1
<1> USE MainAssumption DEF ClaimInv
<1>1. head \in 1 .. Top /\ liveCkpt \in 0 .. head /\ blocks \subseteq 0 .. head
    BY DEF TypeOK, LiveInTable
<1>2. CASE liveCkpt > 0
    <2>1. LiveStartPos = liveCkpt /\ liveCkpt \in blocks
        BY <1>2 DEF LiveStartPos, LiveInTable
    <2>2. liveCkpt <= liveCkpt + 1
        BY <1>1
    <2>3. QED
        BY <1>1, <1>2, <2>1, <2>2 DEF ClaimsBelow
<1>3. CASE ~(liveCkpt > 0) /\ blocks # {}
    <2>1. LiveStartPos = Highest(blocks)
        BY <1>3 DEF LiveStartPos
    <2>2. Highest(blocks) \in blocks /\ \A b \in blocks : b <= Highest(blocks)
        BY <1>3, HighestExists DEF TypeOK
    <2> DEFINE h == Highest(blocks)
    <2>h. h \in 0 .. head /\ \A b \in blocks : b \in 0 .. head
        <3> HIDE DEF h
        <3>1. h \in blocks
            BY <2>2 DEF h
        <3>2. QED
            BY <1>1, <3>1, Zenon
    <2> HIDE DEF h
    <2>3. ASSUME NEW r \in Claimed
          PROVE  r.to <= h
        <3>1. PICK b \in blocks : r.to <= b
            BY DEF ClaimsBelow
        <3>2. r \in Ranges
            BY DEF Claimed
        <3>3. r.to \in Int /\ b \in Int /\ h \in Int /\ b <= h
            BY <1>1, <2>2, <2>h, <3>2, RangeFacts DEF h
        <3>4. QED
            BY <3>1, <3>3
    <2>4. h <= h + 1
        BY <1>1, <2>h
    <2>5. QED
        BY <1>1, <1>3, <2>1, <2>2, <2>h, <2>3, <2>4 DEF h
<1>4. CASE ~(liveCkpt > 0) /\ blocks = {}
    <2>1. LiveStartPos = head - 1
        BY <1>4 DEF LiveStartPos
    <2>2. Claimed = {}
        BY <1>4 DEF ClaimsBelow
    <2>3. QED
        BY <1>1, <1>4, <2>1, <2>2
<1>5. QED
    BY <1>2, <1>3, <1>4

\* The blocks a bounded container publishes are below the head.
LEMMA PublishFacts ==
    ASSUME ClaimInv, NEW r \in Ranges, Publish(r)
    PROVE  /\ blocks \subseteq blocks'
           /\ blocks' \subseteq 0 .. head
           /\ blocks # {}
<1> USE MainAssumption DEF ClaimInv
<1>1. PICK n \in Blocks(r) \ blocks : blocks' = blocks \cup r.from .. n
    BY DEF Publish
<1>2. r \in Claimed
    BY DEF Publish, Claimed
<1>3. PICK b \in blocks : r.to <= b
    BY <1>2 DEF ClaimsBelow
<1>4. b \in 0 .. head /\ head \in 1 .. Top
    BY DEF LiveInTable
<1>5. r.from .. n \subseteq 0 .. head
    BY <1>1, <1>3, <1>4, RangeFacts DEF Blocks
<1>6. QED
    BY <1>1, <1>3, <1>5 DEF LiveInTable

\* Raw ranges only ever appear with their seed, so no completed one is forgotten.
LEMMA SeedFacts ==
    ASSUME TypeOK, SeedRaw
    PROVE  done \subseteq RawRanges' /\ seed' \in 0 .. rawLive
<1>1. seed' = IF seed = 0 THEN rawLive ELSE seed
    BY DEF SeedRaw
<1>2. CASE seed = 0
    <2>1. done = {}
        BY <1>2, RangeFacts DEF TypeOK, RawRanges
    <2>2. QED
        BY <1>1, <1>2, <2>1, MainAssumption DEF TypeOK, Height
<1>3. CASE seed # 0
    BY <1>1, <1>3 DEF TypeOK, RawRanges
<1>4. QED
    BY <1>2, <1>3

LEMMA TypeStep == ClaimInv /\ [Next]_vars => TypeOK'
<1> SUFFICES ASSUME ClaimInv, [Next]_vars PROVE TypeOK'
    OBVIOUS
<1> USE MainAssumption, RangeFacts DEF TypeOK, Height, source, tables
<1>0. TypeOK /\ head \in 1 .. Top /\ blocks \subseteq 0 .. head
    BY DEF ClaimInv, LiveInTable
<1>1. UNCHANGED seed => RawRanges' = RawRanges
    BY DEF RawRanges
<1>2. CASE HeadGrows
    BY <1>0, <1>1, <1>2 DEF HeadGrows
<1>3. CASE RawLiveCheckpoint
    BY <1>0, <1>1, <1>3 DEF RawLiveCheckpoint
<1>4. CASE RawComplete \/ RawDowngrade
    BY <1>0, <1>1, <1>4 DEF RawComplete, RawDowngrade
<1>5. ASSUME NEW r \in Ranges, Compute(r) \/ Finish(r) \/ Kill(r) \/ Stop(r)
      PROVE  TypeOK'
    BY <1>0, <1>1, <1>5 DEF Compute, Finish, Kill, Stop, Running, Stopped
<1>6. ASSUME NEW r \in Ranges, Publish(r)
      PROVE  TypeOK'
    <2>1. blocks' \in SUBSET Height
        BY <1>0, <1>6, PublishFacts
    <2>2. QED
        BY <1>0, <1>1, <1>6, <2>1 DEF Publish
<1>7. CASE LiveInsert
    <2>1. PICK m \in (live.pos + 1) .. head :
              /\ blocks' = blocks \cup (live.pos + 1) .. m
              /\ live' = [pc |-> "flushed", pos |-> m]
        BY <1>7 DEF LiveInsert
    <2>2. live.pos \in 0 .. Top /\ live.pc = "up"
        BY <1>0, <1>7 DEF LiveInsert
    <2>3. m \in 0 .. head /\ m > live.pos
        BY <1>0, <2>1, <2>2
    <2>4. blocks' \in SUBSET Height /\ liveCkpt <= m
        <3>1. (live.pos + 1) .. m \subseteq 0 .. Top
            BY <1>0, <2>2, <2>3
        <3>2. liveCkpt <= live.pos /\ liveCkpt \in Int
            BY <1>0, <2>2
        <3>3. blocks' \subseteq Height
            BY <1>0, <2>1, <3>1
        <3>4. liveCkpt <= m
            BY <2>2, <2>3, <3>2
        <3>5. QED
            BY <3>3, <3>4
    <2>5. /\ live' \in [pc : {"absent", "up", "flushed", "stopped"}, pos : Height]
          /\ live'.pos <= head
          /\ liveCkpt <= live'.pos
        BY <1>0, <2>1, <2>3, <2>4
    <2>6. UNCHANGED <<head, rawLive, seed, done, liveCkpt, mc, sup, spent>>
        BY <1>7 DEF LiveInsert
    <2>7. QED
        BY <1>0, <1>1, <2>4, <2>5, <2>6
<1>8. CASE LiveCheckpoint
    BY <1>0, <1>1, <1>8 DEF LiveCheckpoint
<1>9. CASE LiveKill
    BY <1>0, <1>1, <1>9 DEF LiveKill
<1>10. CASE RemoveMain \/ RestartMain \/ CleanupDone
    <2>1. UNCHANGED <<head, rawLive, seed, done, blocks, liveCkpt, live, spent>>
        BY <1>10 DEF RemoveMain, RestartMain, CleanupDone
    <2>2. mc' \in [Ranges -> {"absent"} \cup Running \cup Stopped]
        BY <1>0, <1>10 DEF RemoveMain, RestartMain, CleanupDone, Running
    <2>3. sup' \in [phase : {"cleanup", "live", "raw", "launch", "ensure"},
                   step : {"next", "start"}, range : Ranges, todo : SUBSET Ranges]
        <3>1. CASE RemoveMain
            <4>1. PICK r \in sup.todo :
                      sup' = [sup EXCEPT !.todo = @ \ {r}, !.range = r,
                                         !.step = IF Succeeded(r) THEN "next" ELSE "start"]
                BY <3>1 DEF RemoveMain
            <4>2. r \in Ranges /\ sup.todo \ {r} \in SUBSET Ranges
                BY <1>0
            <4>3. QED
                BY <1>0, <4>1, <4>2
        <3>2. CASE RestartMain \/ CleanupDone
            BY <1>0, <3>2 DEF RestartMain, CleanupDone, At
        <3>3. QED
            BY <1>10, <3>1, <3>2
    <2>4. QED
        BY <1>0, <1>1, <2>1, <2>2, <2>3
<1>11. CASE RemoveLive
    <2>1. /\ live' \in [pc : {"absent", "up", "flushed", "stopped"}, pos : Height]
          /\ live'.pos = live.pos
          /\ live'.pc \in {"up", "flushed"} => live'.pc = live.pc
        BY <1>0, <1>11 DEF RemoveLive
    <2>2. /\ UNCHANGED <<head, rawLive, seed, done, blocks, liveCkpt, mc, spent>>
          /\ sup' \in [phase : {"cleanup", "live", "raw", "launch", "ensure"},
                       step : {"next", "start"}, range : Ranges, todo : SUBSET Ranges]
        BY <1>0, <1>11 DEF RemoveLive, At
    <2>3. QED
        BY <1>0, <1>1, <2>1, <2>2
<1>12. CASE RestartLive \/ EnsureLive
    <2>1. /\ LiveStartPos \in 0 .. head /\ liveCkpt <= LiveStartPos
        BY LiveStart
    <2>2. \/ UNCHANGED live
          \/ live' = [pc |-> "up", pos |-> LiveStartPos]
        BY <1>12 DEF RestartLive, EnsureLive, StartLive
    <2>3. /\ live' \in [pc : {"absent", "up", "flushed", "stopped"}, pos : Height]
          /\ live'.pos <= head
          /\ live'.pc \in {"up", "flushed"} => liveCkpt <= live'.pos
        BY <1>0, <2>1, <2>2
    <2>4. /\ UNCHANGED <<head, rawLive, seed, done, blocks, liveCkpt, mc, spent>>
          /\ sup' \in [phase : {"cleanup", "live", "raw", "launch", "ensure"},
                       step : {"next", "start"}, range : Ranges, todo : SUBSET Ranges]
        BY <1>0, <1>12 DEF RestartLive, EnsureLive, At, NewPoll, StoppedMain
    <2>5. QED
        BY <1>0, <1>1, <2>3, <2>4
<1>13. CASE SeedRaw
    <2>1. done \subseteq RawRanges' /\ seed' \in 0 .. rawLive
        BY <1>0, <1>13, SeedFacts
    <2>2. QED
        BY <1>0, <1>13, <2>1 DEF SeedRaw, At
<1>14. CASE LaunchMain \/ LaunchDone
    <2>1. mc' \in [Ranges -> {"absent"} \cup Running \cup Stopped]
        BY <1>0, <1>14 DEF LaunchMain, LaunchDone, Running
    <2>2. /\ UNCHANGED <<source, tables, live, spent>>
          /\ sup' \in [phase : {"cleanup", "live", "raw", "launch", "ensure"},
                       step : {"next", "start"}, range : Ranges, todo : SUBSET Ranges]
        BY <1>0, <1>14 DEF LaunchMain, LaunchDone, At
    <2>3. QED
        BY <1>0, <1>1, <2>1, <2>2
<1>15. CASE SupervisorCrash
    BY <1>0, <1>1, <1>15 DEF SupervisorCrash, NewPoll, At, StoppedMain
<1>16. CASE UNCHANGED vars
    BY <1>0, <1>1, <1>16 DEF vars
<1>17. QED
    BY <1>2, <1>3, <1>4, <1>5, <1>6, <1>7, <1>8, <1>9, <1>10, <1>11, <1>12, <1>13, <1>14, <1>15,
       <1>16
    DEF Next, SourceStep, WorkerStep, LiveStep, SupervisorStep

----------------------------------------------------------------------------
(* The other parts, one lemma each. *)

\* Only cleanup_stopped_main removes a container, and it takes it off its list.
LEMMA ListStep == ClaimInv /\ [Next]_vars => ListInv'
<1> SUFFICES ASSUME ClaimInv, [Next]_vars, NEW r \in sup'.todo PROVE mc'[r] # "absent"
    BY DEF ListInv
<1> USE DEF ClaimInv, TypeOK, ListInv
<1>1. CASE SourceStep \/ RawDowngrade
    BY <1>1 DEF SourceStep, HeadGrows, RawLiveCheckpoint, RawComplete, RawDowngrade
<1>2. CASE \E s \in Ranges : WorkerStep(s) \/ Kill(s) \/ Stop(s)
    BY <1>2 DEF WorkerStep, Compute, Publish, Finish, Kill, Stop
<1>3. CASE LiveStep \/ LiveKill
    BY <1>3 DEF LiveStep, LiveInsert, LiveCheckpoint, LiveKill
<1>4. CASE RemoveMain
    BY <1>4 DEF RemoveMain
<1>5. CASE RestartMain
    BY <1>5 DEF RestartMain
<1>6. CASE CleanupDone \/ RemoveLive \/ RestartLive \/ SeedRaw \/ LaunchDone
    BY <1>6 DEF CleanupDone, RemoveLive, RestartLive, SeedRaw, LaunchDone, At
<1>7. CASE LaunchMain
    BY <1>7 DEF LaunchMain
<1>8. CASE EnsureLive \/ SupervisorCrash
    BY <1>8 DEF EnsureLive, SupervisorCrash, NewPoll, At, StoppedMain, Stopped
<1>9. CASE UNCHANGED vars
    BY <1>9 DEF vars
<1>10. QED
    BY <1>1, <1>2, <1>3, <1>4, <1>5, <1>6, <1>7, <1>8, <1>9 DEF Next, SupervisorStep

\* Blocks stay in the table.  It changes when a container publishes or main-live
\* flushes; the checkpoint and main-live change in the steps named here.
LEMMA TablesGrow ==
    ASSUME ClaimInv, [Next]_vars
    PROVE  /\ blocks \subseteq blocks'
           /\ head' \in 1 .. Top /\ head <= head'
           /\ ~LiveCheckpoint => UNCHANGED liveCkpt
           /\ ~LiveInsert /\ ~(\E r \in Ranges : Publish(r)) => UNCHANGED blocks
           /\ \/ UNCHANGED live
              \/ LiveInsert
              \/ LiveCheckpoint
              \/ live' = [pc |-> "up", pos |-> LiveStartPos] /\ UNCHANGED blocks
              \/ live'.pc \notin {"up", "flushed"}
<1> USE MainAssumption DEF ClaimInv, LiveInTable, TypeOK, Height, source, tables
<1>1. CASE SourceStep \/ RawDowngrade
    BY <1>1 DEF SourceStep, HeadGrows, RawLiveCheckpoint, RawComplete, RawDowngrade
<1>2. ASSUME NEW r \in Ranges, Compute(r) \/ Finish(r) \/ Kill(r) \/ Stop(r)
      PROVE  UNCHANGED <<head, blocks, liveCkpt, live>>
    BY <1>2 DEF Compute, Finish, Kill, Stop
<1>3. ASSUME NEW r \in Ranges, Publish(r)
      PROVE  UNCHANGED <<head, liveCkpt, live>> /\ blocks \subseteq blocks'
    BY <1>3 DEF Publish
<1>4. CASE LiveInsert
    BY <1>4 DEF LiveInsert
<1>5. CASE LiveCheckpoint
    BY <1>5 DEF LiveCheckpoint
<1>6. CASE LiveKill
    BY <1>6 DEF LiveKill
<1>7. CASE RemoveMain \/ RestartMain \/ CleanupDone
    <2>1. UNCHANGED <<head, blocks, liveCkpt, live>>
        BY <1>7 DEF RemoveMain, RestartMain, CleanupDone
    <2>2. QED
        BY <2>1
<1>8. CASE RemoveLive
    BY <1>8 DEF RemoveLive
<1>9. CASE RestartLive \/ EnsureLive
    BY <1>9 DEF RestartLive, EnsureLive, StartLive
<1>10. CASE SeedRaw \/ LaunchMain \/ LaunchDone \/ SupervisorCrash
    BY <1>10 DEF SeedRaw, LaunchMain, LaunchDone, SupervisorCrash
<1>11. CASE UNCHANGED vars
    BY <1>11 DEF vars
<1>12. CASE \E r \in Ranges : WorkerStep(r) \/ Kill(r) \/ Stop(r)
    BY <1>2, <1>3, <1>12 DEF WorkerStep
<1>13. QED
    BY <1>1, <1>4, <1>5, <1>6, <1>7, <1>8, <1>9, <1>10, <1>11, <1>12
    DEF Next, LiveStep, SupervisorStep

\* A flush of main-live puts the blocks above its position into the table.
LEMMA InsertFacts ==
    ASSUME ClaimInv, LiveInsert
    PROVE  /\ live.pc = "up" /\ live'.pc = "flushed"
           /\ live.pos \in Nat /\ live'.pos \in (live.pos + 1) .. head
           /\ blocks' = blocks \cup (live.pos + 1) .. live'.pos
           /\ UNCHANGED <<head, liveCkpt, mc, sup>>
<1>1. PICK m \in (live.pos + 1) .. head :
          /\ blocks' = blocks \cup (live.pos + 1) .. m
          /\ live' = [pc |-> "flushed", pos |-> m]
    BY DEF LiveInsert
<1>2. QED
    BY <1>1 DEF LiveInsert, source, ClaimInv, TypeOK, Height

LEMMA TableStep == ClaimInv /\ [Next]_vars => LiveInTable'
<1> SUFFICES ASSUME ClaimInv, [Next]_vars PROVE LiveInTable'
    OBVIOUS
<1> USE MainAssumption DEF LiveInTable
<1>0. /\ LiveInTable /\ TypeOK
      /\ blocks \subseteq blocks' /\ head' \in 1 .. Top /\ head <= head'
    BY TablesGrow DEF ClaimInv
<1>1. CASE LiveInsert
    <2>1. /\ live.pc = "up" /\ live'.pc = "flushed"
          /\ live.pos \in Nat /\ live'.pos \in (live.pos + 1) .. head
          /\ blocks' = blocks \cup (live.pos + 1) .. live'.pos
          /\ UNCHANGED <<head, liveCkpt>>
        BY <1>1, InsertFacts
    <2>2. live.pos + 1 \in blocks' /\ live'.pos \in blocks'
        BY <2>1
    <2>3. blocks' \subseteq 0 .. head
        <3>1. (live.pos + 1) .. live'.pos \subseteq 0 .. head
            BY <1>0, <2>1
        <3>2. QED
            BY <1>0, <2>1, <3>1
    <2>4. live.pos + 1 <= live'.pos + 1
        BY <2>1
    <2>5. QED
        BY <1>0, <2>1, <2>2, <2>3, <2>4
<1>2. CASE LiveCheckpoint
    BY <1>0, <1>2 DEF LiveCheckpoint, source, TypeOK, Height
<1>3. ASSUME NEW r \in Ranges, Publish(r)
      PROVE  LiveInTable'
    <2>1. blocks' \subseteq 0 .. head /\ blocks # {}
        BY <1>3, PublishFacts
    <2>2. UNCHANGED <<head, liveCkpt, live>>
        BY <1>3 DEF Publish, source
    <2>3. QED
        BY <1>0, <2>1, <2>2
<1>4. CASE ~LiveInsert /\ ~LiveCheckpoint /\ ~(\E r \in Ranges : Publish(r))
    <2>1. UNCHANGED <<blocks, liveCkpt>>
        BY <1>4, TablesGrow
    <2>2. \/ UNCHANGED live
          \/ live' = [pc |-> "up", pos |-> LiveStartPos]
          \/ live'.pc \notin {"up", "flushed"}
        BY <1>4, TablesGrow
    <2>3. blocks # {} => \E b \in blocks : b <= LiveStartPos + 1
        BY LiveStart
    <2>4. blocks \subseteq 0 .. head'
        BY <1>0 DEF TypeOK
    <2>5. QED
        BY <1>0, <2>1, <2>2, <2>3, <2>4
<1>5. QED
    BY <1>1, <1>2, <1>3, <1>4

\* A claim stays below the table, the checkpoint and main-live.
LEMMA BelowStep == ClaimInv /\ [Next]_vars => ClaimsBelow' /\ LiveAboveClaims'
<1> SUFFICES ASSUME ClaimInv, [Next]_vars, NEW r \in Claimed'
             PROVE  /\ \E b \in blocks' : r.to <= b
                    /\ liveCkpt' > 0 => r.to <= liveCkpt'
                    /\ live'.pc \in {"up", "flushed"} => r.to <= live'.pos
    BY DEF ClaimsBelow, LiveAboveClaims
<1> USE MainAssumption
<1>0. /\ TypeOK /\ LiveInTable /\ ClaimsBelow /\ LiveAboveClaims
      /\ blocks \subseteq blocks'
    BY TablesGrow DEF ClaimInv
<1>t. r \in Ranges /\ r.to \in Int
    BY RangeFacts DEF Claimed
<1>1. CASE LaunchMain
    <2>1. UNCHANGED <<blocks, liveCkpt, live>>
        BY <1>1 DEF LaunchMain, tables
    <2>2. CASE r \in Claimed
        BY <1>0, <2>1, <2>2 DEF ClaimsBelow, LiveAboveClaims
    <2>3. CASE r = Launched
        <3>1. blocks # {} /\ \A b \in blocks : r.to < b
            BY <1>1, <2>3, LaunchBelow
        <3>2. \A b \in blocks : b \in Int
            BY <1>0 DEF TypeOK, Height
        <3>3. \E b \in blocks : r.to <= b
            BY <1>t, <3>1, <3>2
        <3>4. liveCkpt > 0 => r.to <= liveCkpt
            <4>1. SUFFICES ASSUME liveCkpt > 0 PROVE r.to <= liveCkpt
                OBVIOUS
            <4>2. liveCkpt \in blocks
                BY <1>0, <4>1 DEF LiveInTable
            <4>3. r.to < liveCkpt /\ liveCkpt \in Int
                BY <3>1, <3>2, <4>2
            <4>4. QED
                BY <1>t, <4>3
        <3>5. live.pc \in {"up", "flushed"} => r.to <= live.pos
            <4>1. SUFFICES ASSUME live.pc \in {"up", "flushed"} PROVE r.to <= live.pos
                OBVIOUS
            <4>2. PICK b \in blocks : b <= live.pos + 1
                BY <1>0, <3>1, <4>1 DEF LiveInTable
            <4>3. live.pos \in Int
                BY <1>0 DEF TypeOK, Height
            <4>4. QED
                BY <1>t, <3>1, <3>2, <4>2, <4>3
        <3>6. QED
            BY <2>1, <3>3, <3>4, <3>5
    <2>4. QED
        BY <1>1, <2>2, <2>3, LaunchBelow
<1>2. CASE ~LaunchMain
    <2>1. r \in Claimed
        BY <1>2, NoNewClaim
    <2>2. \E b \in blocks' : r.to <= b
        BY <1>0, <2>1 DEF ClaimsBelow
    <2>3. CASE LiveInsert
        <3>1. /\ live.pc = "up"
              /\ live.pos \in Int /\ live'.pos \in Int /\ live.pos <= live'.pos
              /\ UNCHANGED liveCkpt
            BY <2>3, InsertFacts DEF ClaimInv
        <3>2. r.to <= live.pos
            BY <1>0, <2>1, <3>1 DEF LiveAboveClaims
        <3>3. r.to <= live'.pos
            BY <1>t, <3>1, <3>2
        <3>4. QED
            BY <1>0, <2>1, <2>2, <3>1, <3>3 DEF ClaimsBelow
    <2>4. CASE LiveCheckpoint
        <3>1. /\ live.pc = "flushed" /\ liveCkpt' = live.pos /\ live'.pos = live.pos
            BY <1>0, <2>4 DEF LiveCheckpoint, TypeOK
        <3>2. r.to <= live.pos
            BY <1>0, <2>1, <3>1 DEF LiveAboveClaims
        <3>3. QED
            BY <2>2, <3>1, <3>2
    <2>5. CASE ~LiveInsert /\ ~LiveCheckpoint
        <3>1. UNCHANGED liveCkpt
            BY <2>5, TablesGrow
        <3>2. \/ UNCHANGED live
              \/ live' = [pc |-> "up", pos |-> LiveStartPos]
              \/ live'.pc \notin {"up", "flushed"}
            BY <2>5, TablesGrow
        <3>3. r.to <= LiveStartPos
            BY <2>1, LiveStart
        <3>4. QED
            BY <1>0, <2>1, <2>2, <3>1, <3>2, <3>3 DEF ClaimsBelow, LiveAboveClaims
    <2>6. QED
        BY <2>3, <2>4, <2>5
<1>3. QED
    BY <1>1, <1>2

\* A launched range lies below every other claim, and nothing else adds a claim.
LEMMA DisjointStep == ClaimInv /\ [Next]_vars => ClaimsDisjoint'
<1> SUFFICES ASSUME ClaimInv, [Next]_vars,
                    NEW r \in Claimed', NEW s \in Claimed', r # s
             PROVE  Blocks(r) \cap Blocks(s) = {}
    BY DEF ClaimsDisjoint, Blocks
<1>1. r \in Claimed /\ s \in Claimed => Blocks(r) \cap Blocks(s) = {}
    BY DEF ClaimInv, ClaimsDisjoint
<1>2. CASE ~LaunchMain
    BY <1>1, <1>2, NoNewClaim
<1>3. CASE LaunchMain
    <2>1. r \in Ranges /\ s \in Ranges
        BY DEF Claimed
    <2>2. /\ r \in Claimed \/ r = Launched
          /\ s \in Claimed \/ s = Launched
          /\ \A q \in Claimed : q.from > Launched.to
        BY <1>3, LaunchBelow
    <2>3. /\ r.from \in Int /\ r.to \in Int /\ s.from \in Int /\ s.to \in Int
        BY <2>1, RangeFacts
    <2>4. CASE r = Launched /\ s \in Claimed
        <3>1. r.to < s.from
            BY <2>2, <2>3, <2>4
        <3>2. QED
            BY <2>3, <3>1 DEF Blocks
    <2>5. CASE s = Launched /\ r \in Claimed
        <3>1. s.to < r.from
            BY <2>2, <2>3, <2>5
        <3>2. QED
            BY <2>3, <3>1 DEF Blocks
    <2>6. QED
        BY <1>1, <2>2, <2>4, <2>5
<1>4. QED
    BY <1>2, <1>3

LEMMA ClaimStep == ClaimInv /\ [Next]_vars => ClaimInv'
BY TypeStep, ListStep, TableStep, BelowStep, DisjointStep DEF ClaimInv

LEMMA ClaimsHold == Spec => []ClaimInv
<1>1. Init => ClaimInv
    BY TypeInit
<1>2. ClaimInv /\ [Next]_vars => ClaimInv'
    BY ClaimStep
<1>3. QED
    BY <1>1, <1>2, PTL DEF Spec

----------------------------------------------------------------------------
(* No hole: what has been reached is an interval. *)

\* A container that reports success has its whole range in the table, unless it was
\* told to stop.
FinishedInTable ==
    spent.stops = 0 => \A r \in Ranges : mc[r] = "exit0" => Blocks(r) \subseteq blocks

\* Once there are blocks, a running main-live stands on one of them.
LiveStandsOnBlock ==
    live.pc \in {"up", "flushed"} /\ blocks # {} => live.pos \in blocks

HoleInv == ClaimInv /\ FinishedInTable /\ LiveStandsOnBlock /\ NoHole

\* A main-live that starts stands on a block, if there are any.
LEMMA LiveStartOnBlock ==
    ASSUME ClaimInv, blocks # {}
    PROVE  LiveStartPos \in blocks
<1>1. liveCkpt > 0 => liveCkpt \in blocks
    BY DEF ClaimInv, LiveInTable
<1>2. Highest(blocks) \in blocks
    BY HighestExists DEF ClaimInv, TypeOK
<1>3. QED
    BY <1>1, <1>2 DEF LiveStartPos

LEMMA StandsStep == HoleInv /\ [Next]_vars => LiveStandsOnBlock'
<1> SUFFICES ASSUME HoleInv, [Next]_vars, live'.pc \in {"up", "flushed"}, blocks' # {}
             PROVE  live'.pos \in blocks'
    BY DEF LiveStandsOnBlock
<1>0. ClaimInv /\ LiveStandsOnBlock /\ blocks \subseteq blocks'
    BY TablesGrow DEF HoleInv
<1>1. CASE LiveInsert
    <2>1. /\ live.pos \in Nat /\ live'.pos \in (live.pos + 1) .. head
          /\ blocks' = blocks \cup (live.pos + 1) .. live'.pos
        BY <1>0, <1>1, InsertFacts
    <2>2. head \in Int
        BY <1>0 DEF ClaimInv, LiveInTable
    <2>3. QED
        BY <2>1, <2>2
<1>2. CASE LiveCheckpoint
    <2>1. live.pc = "flushed" /\ live'.pos = live.pos /\ blocks' = blocks
        BY <1>0, <1>2 DEF LiveCheckpoint, ClaimInv, TypeOK
    <2>2. QED
        BY <1>0, <2>1 DEF LiveStandsOnBlock
<1>3. CASE ~LiveInsert /\ ~LiveCheckpoint
    <2>1. blocks # {}
        BY <1>0, <1>3, TablesGrow, PublishFacts
    <2>2. \/ UNCHANGED live
          \/ live' = [pc |-> "up", pos |-> LiveStartPos]
          \/ live'.pc \notin {"up", "flushed"}
        BY <1>0, <1>3, TablesGrow
    <2>3. LiveStartPos \in blocks
        BY <1>0, <2>1, LiveStartOnBlock
    <2>4. QED
        BY <1>0, <2>1, <2>2, <2>3 DEF LiveStandsOnBlock
<1>4. QED
    BY <1>1, <1>2, <1>3

LEMMA FinishedStep == HoleInv /\ [Next]_vars => FinishedInTable'
<1> SUFFICES ASSUME HoleInv, [Next]_vars, spent'.stops = 0,
                    NEW r \in Ranges, mc'[r] = "exit0"
             PROVE  Blocks(r) \subseteq blocks'
    BY DEF FinishedInTable, Blocks
<1>0. TypeOK /\ blocks \subseteq blocks'
    BY TablesGrow DEF HoleInv, ClaimInv
<1> USE DEF TypeOK
<1>s. spent.stops = 0 /\ mc[r] = "exit0" => Blocks(r) \subseteq blocks
    BY DEF HoleInv, FinishedInTable
<1>1. CASE SourceStep \/ RawDowngrade
    BY <1>0, <1>s, <1>1 DEF SourceStep, HeadGrows, RawLiveCheckpoint, RawComplete, RawDowngrade
<1>2. ASSUME NEW s \in Ranges, Compute(s) \/ Publish(s) \/ Kill(s)
      PROVE  Blocks(r) \subseteq blocks'
    BY <1>0, <1>s, <1>2 DEF Compute, Publish, Kill
<1>3. ASSUME NEW s \in Ranges, Finish(s)
      PROVE  Blocks(r) \subseteq blocks'
    BY <1>0, <1>s, <1>3 DEF Finish
<1>4. ASSUME NEW s \in Ranges, Stop(s)
      PROVE  Blocks(r) \subseteq blocks'
    BY <1>0, <1>4 DEF Stop
<1>5. CASE LiveStep \/ LiveKill
    BY <1>0, <1>s, <1>5 DEF LiveStep, LiveInsert, LiveCheckpoint, LiveKill
<1>6. CASE RemoveMain
    BY <1>0, <1>s, <1>6 DEF RemoveMain
<1>7. CASE RestartMain
    BY <1>0, <1>s, <1>7 DEF RestartMain
<1>8. CASE LaunchMain
    BY <1>0, <1>s, <1>8 DEF LaunchMain
<1>9. CASE CleanupDone \/ RemoveLive \/ RestartLive \/ SeedRaw \/ LaunchDone
    BY <1>0, <1>s, <1>9 DEF CleanupDone, RemoveLive, RestartLive, SeedRaw, LaunchDone
<1>10. CASE EnsureLive \/ SupervisorCrash
    BY <1>0, <1>s, <1>10 DEF EnsureLive, SupervisorCrash
<1>11. CASE UNCHANGED vars
    BY <1>0, <1>s, <1>11 DEF vars
<1>12. QED
    BY <1>1, <1>2, <1>3, <1>4, <1>5, <1>6, <1>7, <1>8, <1>9, <1>10, <1>11
    DEF Next, WorkerStep, SupervisorStep

\* What disturbed the backfill once has disturbed it for good.
LEMMA DisturbedForGood ==
    ASSUME ClaimInv, [Next]_vars, Undisturbed'
    PROVE  Undisturbed /\ ~SupervisorCrash
<1> USE DEF ClaimInv, TypeOK, Undisturbed
<1>0. ~SupervisorCrash
    BY DEF SupervisorCrash
<1> SUFFICES Undisturbed
    BY <1>0
<1>1. CASE SourceStep \/ RawDowngrade
    BY <1>1 DEF SourceStep, HeadGrows, RawLiveCheckpoint, RawComplete, RawDowngrade
<1>2. CASE \E s \in Ranges : WorkerStep(s) \/ Kill(s)
    BY <1>2 DEF WorkerStep, Compute, Publish, Finish, Kill
<1>3. ASSUME NEW s \in Ranges, Stop(s)
      PROVE  FALSE
    BY <1>3 DEF Stop
<1>4. CASE LiveStep \/ LiveKill
    BY <1>4 DEF LiveStep, LiveInsert, LiveCheckpoint, LiveKill
<1>5. CASE SupervisorStep
    BY <1>5 DEF SupervisorStep, RemoveMain, RestartMain, CleanupDone, RemoveLive, RestartLive,
                SeedRaw, LaunchMain, LaunchDone, EnsureLive
<1>6. CASE UNCHANGED vars
    BY <1>6 DEF vars
<1>7. QED
    BY <1>0, <1>1, <1>2, <1>3, <1>4, <1>5, <1>6 DEF Next

\* Undisturbed, a claim is given up only for blocks that are in the table.
LEMMA ClaimsKept ==
    ASSUME HoleInv, [Next]_vars, Undisturbed', NEW r \in Claimed
    PROVE  r \in Claimed' \/ Blocks(r) \subseteq blocks
<1>0. TypeOK /\ ListInv /\ Undisturbed /\ ~SupervisorCrash /\ r \in Ranges
    BY DisturbedForGood DEF HoleInv, ClaimInv, Claimed
<1> USE DEF TypeOK, Claimed
<1>s. mc[r] = "exit0" => Blocks(r) \subseteq blocks
    BY <1>0 DEF HoleInv, FinishedInTable, Undisturbed
<1>1. CASE SourceStep \/ RawDowngrade
    BY <1>0, <1>1 DEF SourceStep, HeadGrows, RawLiveCheckpoint, RawComplete, RawDowngrade
<1>2. CASE \E s \in Ranges : WorkerStep(s) \/ Kill(s) \/ Stop(s)
    BY <1>0, <1>2 DEF WorkerStep, Compute, Publish, Finish, Kill, Stop
<1>3. CASE LiveStep \/ LiveKill
    BY <1>0, <1>3 DEF LiveStep, LiveInsert, LiveCheckpoint, LiveKill
<1>4. CASE RemoveMain
    <2>1. PICK s \in sup.todo :
              /\ mc' = [mc EXCEPT ![s] = "absent"]
              /\ sup' = [sup EXCEPT !.todo = @ \ {s}, !.range = s,
                                    !.step = IF Succeeded(s) THEN "next" ELSE "start"]
        BY <1>4 DEF RemoveMain
    <2>2. sup.phase = "cleanup" /\ sup.step = "next" /\ s \in Ranges
        BY <1>0, <1>4, <2>1 DEF RemoveMain
    <2>3. CASE r # s
        BY <1>0, <2>1, <2>2, <2>3
    <2>4. CASE r = s
        BY <1>0, <1>s, <2>1, <2>2, <2>4 DEF Succeeded
    <2>5. QED
        BY <2>3, <2>4
<1>5. CASE RestartMain
    BY <1>0, <1>5 DEF RestartMain
<1>6. CASE LaunchMain
    BY <1>0, <1>6 DEF LaunchMain
<1>7. CASE CleanupDone \/ LaunchDone \/ SeedRaw \/ EnsureLive
    BY <1>0, <1>7 DEF CleanupDone, LaunchDone, SeedRaw, EnsureLive, At, NewPoll
<1>8. CASE RemoveLive \/ RestartLive
    BY <1>0, <1>8 DEF RemoveLive, RestartLive, At
<1>9. CASE UNCHANGED vars
    BY <1>9 DEF vars
<1>10. QED
    BY <1>0, <1>1, <1>2, <1>3, <1>4, <1>5, <1>6, <1>7, <1>8, <1>9 DEF Next, SupervisorStep

\* So a step adds an interval that adjoins what was reached: the launched range below the
\* frontier, or what main-live flushes above its position.
LEMMA ReachedAre ==
    ASSUME ClaimInv
    PROVE  \A x \in Reached : x \in Int
<1>1. \A x \in blocks : x \in Int
    BY DEF ClaimInv, TypeOK, Height
<1>2. \A r \in Claimed : \A x \in Blocks(r) : x \in Int
    BY RangeFacts DEF Claimed, Height
<1>3. QED
    BY <1>1, <1>2 DEF Reached

LEMMA HoleStep == HoleInv /\ [Next]_vars => NoHole'
<1> SUFFICES ASSUME HoleInv, [Next]_vars, Undisturbed',
                    NEW a \in Reached', NEW c \in Reached', NEW b \in a .. c
             PROVE  b \in Reached'
    BY DEF NoHole
<1> USE MainAssumption
<1>0. ClaimInv /\ TypeOK /\ Undisturbed /\ blocks \subseteq blocks'
    BY TablesGrow, DisturbedForGood DEF HoleInv, ClaimInv
<1>h. \A x, y \in Reached : \A z \in x .. y : z \in Reached
    BY <1>0 DEF HoleInv, NoHole
<1>i. \A x \in Reached : x \in Int
    BY <1>0, ReachedAre
<1>k. Reached \subseteq Reached'
    <2>1. \A r \in Claimed : r \in Claimed' \/ Blocks(r) \subseteq blocks
        BY ClaimsKept
    <2>2. \A r \in Ranges : Blocks(r)' = Blocks(r)
        BY DEF Blocks
    <2>3. QED
        BY <1>0, <2>1, <2>2 DEF Reached, Claimed
<1>1. CASE LaunchMain
    <2>1. /\ Claimed' \subseteq Claimed \cup {Launched}
          /\ \A r \in Claimed : r.from > Launched.to
          /\ blocks # {}
          /\ \A x \in blocks : Launched.to < x
        BY <1>0, <1>1, LaunchBelow
    <2>2. UNCHANGED blocks /\ sup.phase = "launch" /\ Frontier > 0
        BY <1>1 DEF LaunchMain, tables, CanLaunch
    <2>3. Frontier \in Int /\ Launched.to = Frontier - 1
        BY <1>0, <2>1, FrontierFacts DEF Height, Launched
    <2>4. Frontier \in Reached
        <3>1. FromsSeen \subseteq Reached
            <4>1. \A r \in Containers : r \in Claimed /\ r.from \in Blocks(r)
                BY RangeFacts DEF Containers, Claimed, Blocks
            <4>2. QED
                BY <2>1, <4>1 DEF FromsSeen, Reached
        <3>2. \E x \in FromsSeen : \A y \in FromsSeen : x <= y
            <4>1. FromsSeen # {}
                BY DEF FromsSeen
            <4>2. \A r \in Containers : r.from \in Nat
                BY RangeFacts DEF Containers
            <4>3. FromsSeen \subseteq Nat
                BY <1>0, <4>2 DEF FromsSeen, TypeOK, Height
            <4>4. QED
                BY <4>1, <4>3, LowestExists
        <3>3. Frontier \in FromsSeen
            BY <3>2 DEF Frontier
        <3>4. QED
            BY <3>1, <3>3
    <2>5. \A x \in Reached : Launched.to < x
        <3>1. \A r \in Claimed : \A x \in Blocks(r) : Launched.to < x
            <4> TAKE r \in Claimed
            <4> TAKE x \in Blocks(r)
            <4>1. r.from \in Int /\ r.to \in Int
                BY RangeFacts DEF Claimed
            <4>2. QED
                BY <2>1, <2>3, <4>1 DEF Blocks
        <3>2. QED
            BY <2>1, <3>1 DEF Reached
    <2>6. \A r \in Claimed' : r \in Claimed \/ (r = Launched /\ Launched \in Ranges)
        BY <2>1 DEF Claimed
    <2>7. \A x \in Reached' : x \in Reached \/ (x \in Blocks(Launched) /\ Launched \in Claimed')
        <3> TAKE x \in Reached'
        <3>1. x \in blocks' \/ \E r \in Claimed' : x \in Blocks(r)
            BY DEF Reached, Blocks
        <3>2. QED
            BY <2>2, <2>6, <3>1 DEF Reached
    <2>8. Launched \in Claimed' => Blocks(Launched) \subseteq Reached'
        BY DEF Reached, Blocks
    <2>9. Launched \in Claimed' => Launched.from \in Int
        BY <2>6, RangeFacts DEF Claimed
    <2>10. a \in Int /\ c \in Int /\ b \in Int /\ a <= b /\ b <= c
        <3>1. Launched \in Claimed' => \A x \in Blocks(Launched) : x \in Int
            BY DEF Blocks
        <3>2. \A x \in Reached' : x \in Int
            BY <1>i, <2>7, <3>1
        <3>3. QED
            BY <3>2
    <2>11. CASE a \in Reached
        <3>1. c \in Reached
            BY <2>3, <2>5, <2>7, <2>9, <2>10, <2>11 DEF Blocks
        <3>2. QED
            BY <1>h, <1>k, <2>11, <3>1
    <2>12. CASE a \in Blocks(Launched) /\ Launched \in Claimed'
        <3>1. CASE b <= Launched.to
            <4>1. b \in Blocks(Launched)
                BY <2>3, <2>9, <2>10, <2>12, <3>1 DEF Blocks
            <4>2. QED
                BY <2>8, <2>12, <4>1
        <3>2. CASE ~(b <= Launched.to)
            <4>1. b \in Frontier .. c
                BY <2>3, <2>10, <3>2
            <4>2. c \in Reached
                BY <2>3, <2>7, <2>9, <2>10, <3>2 DEF Blocks
            <4>3. QED
                BY <1>h, <1>k, <2>4, <4>1, <4>2
        <3>3. QED
            BY <3>1, <3>2
    <2>13. QED
        BY <2>7, <2>11, <2>12
<1>2. CASE ~LaunchMain
    <2>c. Claimed' \subseteq Claimed
        BY <1>0, <1>2, NoNewClaim
    <2>d. \A x \in Reached' : x \in blocks' \/ x \in Reached
        <3> TAKE x \in Reached'
        <3>1. x \in blocks' \/ \E r \in Claimed' : x \in Blocks(r)
            BY DEF Reached, Blocks
        <3>2. QED
            BY <2>c, <3>1 DEF Reached
    <2>1. CASE ~LiveInsert
        <3>1. blocks' \subseteq Reached
            <4>1. ASSUME NEW r \in Ranges, Publish(r)
                  PROVE  blocks' \subseteq Reached
                <5>1. PICK n \in Blocks(r) \ blocks : blocks' = blocks \cup r.from .. n
                    BY <4>1 DEF Publish
                <5>2. r \in Claimed
                    BY <4>1 DEF Publish, Claimed
                <5>3. r.from .. n \subseteq Blocks(r)
                    BY <5>1, RangeFacts DEF Blocks
                <5>4. QED
                    BY <5>1, <5>2, <5>3 DEF Reached
            <4>2. QED
                BY <1>0, <2>1, <4>1, TablesGrow DEF Reached
        <3>2. a \in Reached /\ c \in Reached
            BY <2>d, <3>1
        <3>3. QED
            BY <1>h, <1>k, <3>2
    <2>2. CASE LiveInsert
        <3>1. /\ live.pc = "up"
              /\ live.pos \in Nat /\ live'.pos \in (live.pos + 1) .. head
              /\ blocks' = blocks \cup (live.pos + 1) .. live'.pos
            BY <1>0, <2>2, InsertFacts
        <3> DEFINE p == live.pos
                   q == live'.pos
        <3>2. p \in Nat /\ q \in Int /\ p < q
            <4>1. head \in Int
                BY <1>0 DEF ClaimInv, LiveInTable
            <4>2. QED
                BY <3>1, <4>1
        <3>3. \A x \in Reached' : x \in Reached \/ x \in (p + 1) .. q
            BY <2>d, <3>1 DEF Reached
        <3>4. (p + 1) .. q \subseteq Reached'
            BY <3>1 DEF Reached
        <3>5. Reached = {} \/ p \in Reached
            <4>1. CASE blocks = {}
                <5>1. Claimed = {}
                    BY <1>0, <4>1 DEF ClaimInv, ClaimsBelow
                <5>2. QED
                    BY <4>1, <5>1 DEF Reached
            <4>2. CASE blocks # {}
                BY <3>1, <4>2 DEF HoleInv, LiveStandsOnBlock, Reached
            <4>3. QED
                BY <4>1, <4>2
        <3>6. a \in Int /\ c \in Int /\ b \in Int /\ a <= b /\ b <= c
            <4> HIDE DEF p, q
            <4>1. \A x \in (p + 1) .. q : x \in Int
                OBVIOUS
            <4>2. \A x \in Reached' : x \in Int
                BY <1>i, <3>3, <4>1
            <4>3. QED
                BY <4>2
        <3> HIDE DEF p, q
        <3>7. CASE b \in (p + 1) .. q
            BY <3>4, <3>7
        <3>8. CASE b <= p
            <4>1. a \in Reached
                BY <3>2, <3>3, <3>6, <3>8
            <4>2. p \in Reached /\ b \in a .. p
                BY <3>2, <3>5, <3>6, <3>8, <4>1
            <4>3. QED
                BY <1>h, <1>k, <4>1, <4>2
        <3>9. CASE b > q
            <4>1. c \in Reached
                BY <3>2, <3>3, <3>6, <3>9
            <4>2. p \in Reached /\ b \in p .. c
                BY <3>2, <3>5, <3>6, <3>9, <4>1
            <4>3. QED
                BY <1>h, <1>k, <4>1, <4>2
        <3>10. QED
            BY <3>2, <3>6, <3>7, <3>8, <3>9
    <2>3. QED
        BY <2>1, <2>2
<1>3. QED
    BY <1>1, <1>2

LEMMA HoleInit == Init => HoleInv
<1> SUFFICES ASSUME Init PROVE HoleInv
    OBVIOUS
<1>1. ClaimInv
    BY TypeInit
<1>2. Claimed = {}
    BY DEF Init, Claimed, At
<1>3. FinishedInTable /\ LiveStandsOnBlock
    BY DEF Init, FinishedInTable, LiveStandsOnBlock
<1>4. PICK low \in 1 .. Top, mark \in 1 .. Top : blocks = low .. mark \/ blocks = {}
    BY DEF Init
<1>5. NoHole
    BY <1>2, <1>4 DEF NoHole, Reached
<1>6. QED
    BY <1>1, <1>3, <1>5 DEF HoleInv

LEMMA HoleInvHolds == Spec => []HoleInv
<1>1. HoleInv /\ [Next]_vars => HoleInv'
    BY ClaimStep, FinishedStep, StandsStep, HoleStep DEF HoleInv
<1>2. QED
    BY <1>1, HoleInit, PTL DEF Spec

----------------------------------------------------------------------------
(* Theorems. *)

\* Types, and where main-live stands: its position is never ahead of the chain head nor
\* behind its own checkpoint, whichever of start_live_main's three cases set it.
THEOREM TypeCorrect == Spec => []TypeOK
<1>1. ClaimInv => TypeOK
    BY DEF ClaimInv
<1>2. QED
    BY <1>1, ClaimsHold, PTL

\* "so parallel workers each claim the next lower contiguous batch without overlapping"
\* (comment of min_known_main_from): for every number of workers, ranges per container
\* and faults, no two price containers, nor one and the range the script is about to
\* start again, share a block.
THEOREM ClaimsNeverMeet == Spec => []ClaimsDisjoint
<1>1. ClaimInv => ClaimsDisjoint
    BY DEF ClaimInv
<1>2. QED
    BY <1>1, ClaimsHold, PTL

\* main-live, wherever a restart puts it, stays above every range a bounded container
\* has claimed: the two kinds of container never write the same block.
THEOREM LiveStaysAbove == Spec => []LiveAboveClaims
<1>1. ClaimInv => LiveAboveClaims
    BY DEF ClaimInv
<1>2. QED
    BY <1>1, ClaimsHold, PTL

\* The price backfill leaves no hole behind: blocks that are written or claimed form an
\* interval, so the minimum the script takes for its frontier (min_known_main_from) misses
\* nothing above it.  Killed containers and downgraded raw ranges do not matter; a
\* container told to stop, and the death of the script, are excepted, because they do
\* leave one.
THEOREM HistoryHasNoHole == Spec => []NoHole
<1>1. HoleInv => NoHole
    BY DEF HoleInv
<1>2. QED
    BY <1>1, HoleInvHolds, PTL
=============================================================================
