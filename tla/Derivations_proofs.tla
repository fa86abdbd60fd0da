------------------------- MODULE Derivations_proofs -------------------------
(***************************************************************************)
(* Proofs about Derivations, for every list of jobs and months and for any *)
(* number of rows, deaths and failures, but for one process: a second one  *)
(* that passes the probe of system.processes between another's probe and   *)
(* its first statement breaks them (jobs.ts:40-43 admits it).              *)
(***************************************************************************)
EXTENDS Derivations, SequenceTheorems, WellFoundedInduction, TLAPS

Alone == \A p, q \in Procs : p = q

----------------------------------------------------------------------------
(* The inductive invariant. *)

Planned == {"busy"} \cup Statements
Here(q) == First(proc[q].todo)

\* A run that counted no fewer rows than the one that is shown.
Newer(m, run) == \A b \in live[m] : b.run.counted <= run.counted

\* What is in a twin may be published.
Ready(m) == \E r \in Run : staging[m] = Blocks(r) /\ Newer(m, r)

\* A table shows a run that counted so many rows.
Holds(table, n) == \E r \in Run : table = Blocks(r) /\ r.counted >= n

\* Statements of one twin do not meet, and each finds the tables as its kind needs them.
Alike(s, t) == t.model \in Twin(s.model) => s = t
Founded(s) ==
    /\ s.kind = "fill" => staging[s.model] = {} /\ Newer(s.model, s.run)
    /\ s.kind = "swap" => Ready(s.model)
Server ==
    /\ \A s, t \in running : Alike(s, t)
    /\ \A s \in running : Founded(s)

\* Nothing has counted rows that are not there; those that arrive find room.
Bounded ==
    /\ \A p \in Partitions : priced[p] <= rows[p] /\ (arriving[p] # 0 => rows[p] < MaxRows)
    /\ \A m \in Models : \A b \in live[m] \cup staging[m] : b.run.counted <= Countable(m)
    /\ \A s \in running : s.run.counted <= Countable(s.model)

\* Readers find one run.
Results == \A m \in Models : \E r \in Run : live[m] = Blocks(r)

\* A statement of the process is the one it waits for; nobody else's is on its twin.
Owns(q) ==
    \A s \in running :
        IF s.owner = q THEN proc[q].at = s.kind /\ s.model = Here(q)
        ELSE proc[q].at \in Statements => s.model \notin Twin(Here(q))

\* What is to be done is months, or one model; what could be counted still can.
Plan(q) ==
    proc[q].at \in Planned =>
        /\ proc[q].todo # {}
        /\ proc[q].todo \subseteq Partitions \/ \E m \in ToSet(Wholes) : proc[q].todo = {m}
        /\ \A p \in proc[q].todo \cap Partitions : rebuilt[q][p].asked <= Countable(p)

\* The tables are as the step needs them.
Prepared(q) ==
    /\ proc[q].at = "fill" => staging[Here(q)] = {}
    /\ proc[q].at = "swap" => Ready(Here(q))

\* On the way to the swap is a run that counts what was asked for, and after it readers
\* find that.
Wanted(q, m) == IF m \in Partitions THEN rebuilt[q][m].asked ELSE 0
Brings(q) ==
    /\ \A s \in running : s.owner = q /\ s.kind = "fill" => s.run.counted >= Wanted(q, s.model)
    /\ proc[q].at = "swap" => Holds(staging[Here(q)], Wanted(q, Here(q)))
    /\ proc[q].at = "sweep" => Holds(live[Here(q)], Wanted(q, Here(q)))

\* Readers find what is remembered as rebuilt.
Remembers(q) == \A p \in Partitions : Holds(live[p], rebuilt[q][p].held)

\* Where the source was read first, nothing is in the tables, nor will be, that counted more.
ReadAhead(q) ==
    \A m \in ReadFirst : proc[q].at \in {"busy", "clear", "fill"} /\ proc[q].todo = {m} =>
        LET read == proc[q].run.counted IN
        /\ read <= rows[m]
        /\ \A b \in live[m] \cup staging[m] : b.run.counted <= read
        /\ \A s \in running : s.model = m => s.run.counted <= read

Process(q) ==
    /\ Owns(q) /\ Plan(q) /\ Prepared(q) /\ ReadAhead(q)
    /\ Brings(q) /\ Remembers(q)

DerivationInv == TypeOK /\ Server /\ Bounded /\ Results /\ \A q \in Procs : Process(q)

----------------------------------------------------------------------------
(* The order of the models, their twins, and runs. *)

LEMMA ModelFacts ==
    /\ Models = Partitions \cup ToSet(Wholes) /\ Partitions \cap ToSet(Wholes) = {}
    /\ ReadFirst \subseteq ToSet(Wholes)
    /\ MaxRows \in Nat /\ MaxNow \in Nat \ {0} /\ MaxFaults \in Nat
    /\ FirstValued \in Nat \ {0} /\ "nobody" \notin Procs
BY DerivationsAssumption DEF Models

LEMMA OrderFacts ==
    /\ Order \in Seq(Models)
    /\ \A m \in Models : \E i \in 1 .. Len(Order) : Order[i] = m
<1>1. Months \in Seq(Models) /\ Wholes \in Seq(Models)
    BY DerivationsAssumption, ModelFacts, SeqMonotonic
<1>2. /\ Order \in Seq(Models) /\ Len(Order) = Len(Months) + Len(Wholes)
      /\ \A i \in 1 .. Len(Months) + Len(Wholes) :
             Order[i] = IF i <= Len(Months) THEN Months[i] ELSE Wholes[i - Len(Months)]
    BY <1>1, ConcatProperties DEF Order
<1>3. /\ Len(Months) \in Nat /\ DOMAIN Months = 1 .. Len(Months)
      /\ Len(Wholes) \in Nat /\ DOMAIN Wholes = 1 .. Len(Wholes)
    BY <1>1, LenProperties
<1>4. ASSUME NEW m \in Models
      PROVE  \E i \in 1 .. Len(Order) : Order[i] = m
    <2>1. CASE m \in Partitions
        <3>1. PICK i \in 1 .. Len(Months) : Months[i] = m
            BY <1>3, <2>1 DEF Partitions, ToSet
        <3>2. i \in 1 .. Len(Months) + Len(Wholes)
            BY <1>3
        <3>3. QED
            BY <1>2, <3>1, <3>2
    <2>2. CASE m \in ToSet(Wholes)
        <3>1. PICK i \in 1 .. Len(Wholes) : Wholes[i] = m
            BY <1>3, <2>2 DEF ToSet
        <3>2. i + Len(Months) \in 1 .. Len(Months) + Len(Wholes)
              /\ ~(i + Len(Months) <= Len(Months)) /\ (i + Len(Months)) - Len(Months) = i
            BY <1>3
        <3>3. QED
            BY <1>2, <3>1, <3>2
    <2>3. QED
        BY <2>1, <2>2, ModelFacts
<1>5. QED
    BY <1>2, <1>4

\* Among models that are left there is one that comes first.
LEMMA FirstFacts ==
    ASSUME NEW models \in SUBSET Models, models # {}
    PROVE  First(models) \in models
<1> DEFINE places == {i \in 1 .. Len(Order) : Order[i] \in models}
<1>1. DOMAIN Order = 1 .. Len(Order) /\ Len(Order) \in Nat
    BY OrderFacts, LenProperties
<1>2. places \subseteq Nat /\ places # {}
    BY <1>1, OrderFacts
<1>3. PICK least \in places : \A other \in places : ~(<<other, least>> \in OpToRel(<, Nat))
    BY <1>2, WFMin, NatLessThanWellFounded
<1>4. ASSUME NEW j \in 1 .. least - 1
      PROVE  Order[j] \notin models
    <2>1. j \in 1 .. Len(Order) /\ j < least /\ j \in Nat /\ least \in Nat
        BY <1>1
    <2>2. j \notin places
        BY <1>3, <2>1 DEF OpToRel
    <2>3. QED
        BY <2>1, <2>2
<1>5. \E i \in DOMAIN Order : Order[i] \in models /\ \A j \in 1 .. i - 1 : Order[j] \notin models
    BY <1>1, <1>4
<1>6. QED
    BY <1>5 DEF First

LEMMA OnlyFirst == ASSUME NEW m \in Models PROVE First({m}) = m
BY FirstFacts

LEMMA TwinFacts ==
    ASSUME NEW m \in Models
    PROVE  /\ m \in Twin(m) /\ Twin(m) \subseteq Models
           /\ \A n \in Twin(m) : Twin(n) = Twin(m)
BY ModelFacts DEF Twin

LEMMA BlocksFacts ==
    ASSUME NEW r \in Run
    PROVE  /\ Blocks(r) \subseteq Block /\ \A b \in Blocks(r) : b.run = r
           /\ Blocks(r) = {} => r.counted < FirstValued
           /\ Blocks(r) # {} => r.counted >= FirstValued
<1>1. r.counted \in Nat /\ FirstValued \in Nat
    BY ModelFacts DEF Run, Rows
<1>2. CASE r.counted < FirstValued
    BY <1>1, <1>2 DEF Blocks
<1>3. CASE r.counted >= FirstValued
    <2>1. ~(r.counted < FirstValued)
        BY <1>1, <1>3
    <2>2. Blocks(r) = [run : {r}, part : 1 .. 2]
        BY <2>1 DEF Blocks
    <2>3. [run |-> r, part |-> 1] \in Blocks(r)
        BY <2>2
    <2>4. \A b \in Blocks(r) : b \in Block /\ b.run = r
        BY <2>2 DEF Block
    <2>5. QED
        BY <1>3, <2>1, <2>3, <2>4
<1>4. QED
    BY <1>1, <1>2, <1>3

LEMMA NoRunFacts == NoRun \in Run /\ NoRun.counted = 0 /\ Blocks(NoRun) = {}
<1>1. 0 \in Rows /\ 0 \in Time
    BY ModelFacts DEF Rows, Time
<1>2. NoRun \in Run /\ NoRun.counted = 0
    BY <1>1 DEF NoRun, Run
<1>3. QED
    BY <1>2, BlocksFacts, ModelFacts DEF Blocks

LEMMA CountFacts ==
    ASSUME TypeOK, NEW m \in Models
    PROVE  Countable(m) \in Rows /\ rows[m] \in Rows /\ Countable(m) <= rows[m]
<1>1. rows[m] \in Rows /\ (m \in Partitions => priced[m] \in Rows)
    BY DEF TypeOK
<1>2. QED
    BY <1>1, ModelFacts DEF Countable, Min2, Rows

LEMMA RunFacts ==
    ASSUME TypeOK, NEW s \in running
    PROVE  /\ s.model \in Models /\ s.kind \in Statements /\ s.owner \in Procs \cup {"nobody"}
           /\ s.run \in Run /\ s.run.counted \in Nat
BY ModelFacts DEF TypeOK, Run, Rows

LEMMA TableFacts ==
    ASSUME TypeOK, NEW m \in Models, NEW b \in live[m] \cup staging[m]
    PROVE  b \in Block /\ b.run \in Run /\ b.run.counted \in Nat
BY ModelFacts DEF TypeOK, Block, Run, Rows

LEMMA ProcFacts ==
    ASSUME TypeOK, NEW q \in Procs
    PROVE  /\ proc[q] \in [at : Step, todo : SUBSET Models, run : Run,
                            wholes : SUBSET ToSet(Wholes)]
           /\ proc[q].at \in Step /\ proc[q].todo \subseteq Models /\ proc[q].run \in Run
           /\ proc[q].wholes \subseteq ToSet(Wholes)
BY DEF TypeOK

----------------------------------------------------------------------------
(* It holds in the beginning, and it is enough. *)

LEMMA DerivationStarts == Init => DerivationInv
<1> SUFFICES ASSUME Init PROVE DerivationInv
    OBVIOUS
<1>1. 0 \in Rows /\ 0 \in Time /\ 1 \in Time
    BY ModelFacts DEF Rows, Time
<1>2. Partitions \subseteq Models
    BY ModelFacts
<1>3. Resting \in [at : Step, todo : SUBSET Models, run : Run, wholes : SUBSET ToSet(Wholes)]
    BY NoRunFacts DEF Resting, Step
<1>4. Forgotten \in [Partitions -> [ingested : Time, seen : Time, held : Rows, asked : Rows]]
    BY <1>1 DEF Forgotten
<1>5. TypeOK
    BY <1>1, <1>3, <1>4, ModelFacts DEF Init, TypeOK
<1>6. Server /\ Results
    BY NoRunFacts DEF Init, Server, Results
<1>7. Bounded
    BY <1>2 DEF Init, Bounded
<1>8. ASSUME NEW q \in Procs
      PROVE  Process(q)
    <2>1. Owns(q) /\ Plan(q) /\ Prepared(q) /\ ReadAhead(q) /\ Brings(q)
        BY DEF Init, Resting, Owns, Plan, Prepared, ReadAhead, Brings, Planned, Statements
    <2>2. Holds({}, 0)
        BY NoRunFacts DEF Holds
    <2>3. \A p \in Partitions : live[p] = {} /\ rebuilt[q][p].held = 0
        BY <1>2 DEF Init, Forgotten
    <2>4. QED
        BY <2>1, <2>2, <2>3 DEF Process, Remembers
<1>9. QED
    BY <1>5, <1>6, <1>7, <1>8 DEF DerivationInv

LEMMA ResultsAreWhole == ASSUME TypeOK, Results PROVE WholeRuns
<1>1. ASSUME NEW m \in Models
      PROVE  \E b \in live[m] \cup {[run |-> NoRun]} : live[m] = Blocks(b.run)
    <2>1. PICK r \in Run : live[m] = Blocks(r)
        BY DEF Results
    <2>2. CASE live[m] = {}
        <3>1. [run |-> NoRun].run = NoRun
            OBVIOUS
        <3>2. QED
            BY <2>2, <3>1, NoRunFacts
    <2>3. CASE live[m] # {}
        BY <2>1, <2>3, BlocksFacts
    <2>4. QED
        BY <2>2, <2>3
<1>2. QED
    BY <1>1 DEF WholeRuns

----------------------------------------------------------------------------
(* Steps of the source: there is more to count, and nothing else. *)

LEMMA SourceKeeps ==
    ASSUME DerivationInv, UNCHANGED <<tables, running, proc, rebuilt>>, TypeOK',
           \A p \in Partitions :
               /\ priced'[p] <= rows'[p] /\ priced[p] <= priced'[p]
               /\ arriving'[p] # 0 => rows'[p] < MaxRows,
           \A m \in Models : rows[m] <= rows'[m]
    PROVE  DerivationInv'
<1>1. UNCHANGED <<live, staging, running, proc, rebuilt>>
    BY DEF tables
<1>2. TypeOK /\ Server /\ Bounded /\ Results /\ \A q \in Procs : Process(q)
    BY DEF DerivationInv
<1>3. ASSUME NEW m \in Models
      PROVE  /\ Countable(m) \in Nat /\ Countable(m)' \in Nat /\ Countable(m) <= Countable(m)'
             /\ rows[m] \in Nat /\ rows'[m] \in Nat /\ rows[m] <= rows'[m]
    <2>1. rows[m] \in Rows /\ rows'[m] \in Rows /\ rows[m] <= rows'[m]
        BY <1>2 DEF TypeOK
    <2>2. m \in Partitions =>
              priced[m] \in Rows /\ priced'[m] \in Rows /\ priced[m] <= priced'[m]
        BY <1>2 DEF TypeOK
    <2>3. QED
        BY <2>1, <2>2, ModelFacts DEF Countable, Min2, Rows
<1>4. Server' /\ Results'
    BY <1>1, <1>2 DEF Server, Alike, Founded, Newer, Ready, Results
<1>5. Bounded'
    <2>1. ASSUME NEW m \in Models, NEW b \in live[m] \cup staging[m]
          PROVE  b.run.counted <= Countable(m)'
        <3>1. b.run.counted \in Nat /\ b.run.counted <= Countable(m)
            BY <1>2, TableFacts DEF Bounded
        <3>2. QED
            BY <1>3, <3>1
    <2>2. ASSUME NEW s \in running
          PROVE  s.run.counted <= Countable(s.model)'
        <3>1. PICK m \in Models : m = s.model
            BY <1>2, RunFacts
        <3>2. s.run.counted \in Nat /\ s.run.counted <= Countable(m)
            BY <1>2, <3>1, RunFacts DEF Bounded
        <3>3. s.run.counted <= Countable(m)'
            BY <1>3, <3>2
        <3>4. QED
            BY <3>1, <3>3
    <2>3. QED
        BY <1>1, <2>1, <2>2 DEF Bounded
<1>6. ASSUME NEW q \in Procs PROVE Process(q)'
    <2>1. Owns(q)' /\ Prepared(q)' /\ Brings(q)' /\ Remembers(q)'
        BY <1>1, <1>2 DEF Process, Owns, Prepared, Here, Ready, Newer, Brings, Wanted, Remembers, Holds
    <2>2. Plan(q)'
        <3>1. ASSUME NEW p \in proc[q].todo \cap Partitions, proc[q].at \in Planned
              PROVE  rebuilt[q][p].asked <= Countable(p)'
            <4>1. rebuilt[q][p].asked <= Countable(p)
                BY <1>2, <3>1 DEF Process, Plan
            <4>2. rebuilt[q][p].asked \in Nat
                BY <1>2, ModelFacts DEF TypeOK, Rows
            <4>3. p \in Models
                BY ModelFacts
            <4>4. QED
                BY <1>3, <4>1, <4>2, <4>3
        <3>2. QED
            BY <1>1, <1>2, <3>1 DEF Process, Plan
    <2>3. ReadAhead(q)'
        <3>1. ASSUME NEW m \in ReadFirst, proc[q].at \in {"busy", "clear", "fill"},
                     proc[q].todo = {m}
              PROVE  /\ proc[q].run.counted <= rows'[m]
                     /\ \A b \in live[m] \cup staging[m] : b.run.counted <= proc[q].run.counted
                     /\ \A s \in running : s.model = m => s.run.counted <= proc[q].run.counted
            <4>1. /\ proc[q].run.counted <= rows[m]
                  /\ \A b \in live[m] \cup staging[m] : b.run.counted <= proc[q].run.counted
                  /\ \A s \in running : s.model = m => s.run.counted <= proc[q].run.counted
                BY <1>2, <3>1 DEF Process, ReadAhead
            <4>2. proc[q].run.counted \in Nat
                BY <1>2, ProcFacts, ModelFacts DEF Run, Rows
            <4>3. m \in Models
                BY ModelFacts
            <4>4. QED
                BY <1>3, <4>1, <4>2, <4>3
        <3>2. QED
            BY <1>1, <3>1 DEF ReadAhead
    <2>4. QED
        BY <2>1, <2>2, <2>3 DEF Process
<1>7. QED
    BY <1>4, <1>5, <1>6 DEF DerivationInv

LEMMA TickKeeps == ASSUME DerivationInv, Tick PROVE DerivationInv'
<1>1. /\ now' = now + 1 /\ now < MaxNow
      /\ UNCHANGED <<rows, ingested, arriving, covered, priced, live, staging, running, proc, rebuilt, faults>>
    BY DEF Tick, tables
<1>2. now' \in Time
    BY <1>1, ModelFacts DEF DerivationInv, TypeOK, Time
<1>3. TypeOK'
    BY <1>1, <1>2 DEF DerivationInv, TypeOK
<1>4. \A p \in Partitions :
          /\ priced'[p] <= rows'[p] /\ priced[p] <= priced'[p]
          /\ arriving'[p] # 0 => rows'[p] < MaxRows
    BY <1>1, ModelFacts DEF DerivationInv, TypeOK, Bounded, Rows
<1>5. \A m \in Models : rows[m] <= rows'[m]
    BY <1>1, ModelFacts DEF DerivationInv, TypeOK, Rows
<1>6. QED
    BY <1>1, <1>3, <1>4, <1>5, SourceKeeps DEF tables

LEMMA InsertStartKeeps ==
    ASSUME DerivationInv, NEW p \in Partitions, InsertStart(p)
    PROVE  DerivationInv'
<1>1. /\ arriving' = [arriving EXCEPT ![p] = now]
      /\ UNCHANGED <<now, rows, ingested, covered, priced, live, staging, running, proc, rebuilt, faults>>
    BY DEF InsertStart, tables
<1>2. TypeOK'
    BY <1>1 DEF DerivationInv, TypeOK
<1>3. \A o \in Partitions :
          /\ priced'[o] <= rows'[o] /\ priced[o] <= priced'[o]
          /\ arriving'[o] # 0 => rows'[o] < MaxRows
    <2>1. rows[p] < MaxRows
        BY DEF InsertStart
    <2>2. \A o \in Partitions : arriving'[o] # 0 => o = p \/ arriving[o] # 0
        BY <1>1 DEF DerivationInv, TypeOK
    <2>3. \A o \in Partitions : priced[o] \in Nat /\ priced[o] <= rows[o]
        BY ModelFacts DEF DerivationInv, TypeOK, Bounded, Rows
    <2>4. QED
        BY <1>1, <2>1, <2>2, <2>3 DEF DerivationInv, Bounded
<1>4. \A m \in Models : rows[m] <= rows'[m]
    BY <1>1, ModelFacts DEF DerivationInv, TypeOK, Rows
<1>5. QED
    BY <1>1, <1>2, <1>3, <1>4, SourceKeeps DEF tables

LEMMA InsertEndKeeps ==
    ASSUME DerivationInv, NEW p \in Partitions, InsertEnd(p)
    PROVE  DerivationInv'
<1>1. /\ arriving' = [arriving EXCEPT ![p] = 0]
      /\ rows' = [rows EXCEPT ![p] = rows[p] + 1]
      /\ ingested' = [ingested EXCEPT ![p] = Max2(ingested[p], arriving[p])]
      /\ \E still \in {covered[p], FALSE} : covered' = [covered EXCEPT ![p] = still]
      /\ UNCHANGED <<now, priced, live, staging, running, proc, rebuilt, faults>>
    BY DEF InsertEnd, tables
<1>2. rows[p] < MaxRows
    BY DEF DerivationInv, Bounded, InsertEnd
<1>3. rows[p] + 1 \in Rows /\ Max2(ingested[p], arriving[p]) \in Time /\ 0 \in Time
    BY <1>2, ModelFacts DEF DerivationInv, TypeOK, Rows, Time, Max2
<1>4. TypeOK'
    <2>1. covered \in [Partitions -> BOOLEAN] /\ covered[p] \in BOOLEAN
        BY DEF DerivationInv, TypeOK
    <2>2. covered' \in [Partitions -> BOOLEAN]
        BY <1>1, <2>1
    <2>3. QED
        BY <1>1, <1>3, <2>2 DEF DerivationInv, TypeOK
<1>5. \A m \in Models : rows[m] \in Nat /\ rows[m] <= rows'[m]
    BY <1>1, ModelFacts DEF DerivationInv, TypeOK, Rows
<1>6. \A o \in Partitions :
          /\ priced'[o] <= rows'[o] /\ priced[o] <= priced'[o]
          /\ arriving'[o] # 0 => rows'[o] < MaxRows
    <2>1. \A o \in Partitions : priced[o] \in Nat /\ priced[o] <= rows[o] /\ o \in Models
        BY ModelFacts DEF DerivationInv, TypeOK, Bounded, Rows
    <2>2. \A o \in Partitions : rows'[o] \in Nat
        BY <1>4, ModelFacts DEF TypeOK, Rows
    <2>3. \A o \in Partitions : arriving'[o] # 0 =>
              o # p /\ arriving[o] # 0 /\ rows'[o] = rows[o]
        BY <1>1 DEF DerivationInv, TypeOK
    <2>4. QED
        BY <1>1, <1>5, <2>1, <2>2, <2>3 DEF DerivationInv, Bounded
<1>7. QED
    BY <1>1, <1>4, <1>5, <1>6, SourceKeeps DEF tables

LEMMA GrowKeeps ==
    ASSUME DerivationInv, NEW m \in Models, Grow(m)
    PROVE  DerivationInv'
<1>1. /\ m \notin Partitions /\ rows[m] < MaxGrowth /\ rows' = [rows EXCEPT ![m] = rows[m] + 1]
      /\ UNCHANGED <<now, ingested, arriving, covered, priced, live, staging, running, proc, rebuilt, faults>>
    BY DEF Grow, tables
<1>2. rows[m] + 1 \in Rows
    BY <1>1, ModelFacts, DerivationsAssumption DEF DerivationInv, TypeOK, Rows
<1>3. TypeOK'
    BY <1>1, <1>2 DEF DerivationInv, TypeOK
<1>4. \A n \in Models : rows[n] <= rows'[n]
    BY <1>1, ModelFacts DEF DerivationInv, TypeOK, Rows
<1>5. \A o \in Partitions :
          /\ priced'[o] <= rows'[o] /\ priced[o] <= priced'[o]
          /\ arriving'[o] # 0 => rows'[o] < MaxRows
    BY <1>1, ModelFacts DEF DerivationInv, TypeOK, Bounded, Rows
<1>6. QED
    BY <1>1, <1>3, <1>4, <1>5, SourceKeeps DEF tables

LEMMA BlocksKeep ==
    ASSUME DerivationInv, NEW p \in Partitions, BlocksReach(p)
    PROVE  DerivationInv'
<1>1. /\ covered' = [covered EXCEPT ![p] = TRUE]
      /\ UNCHANGED <<now, rows, ingested, arriving, priced, live, staging, running, proc, rebuilt, faults>>
    BY DEF BlocksReach, tables
<1>2. TypeOK'
    BY <1>1 DEF DerivationInv, TypeOK
<1>3. \A o \in Partitions :
          /\ priced'[o] <= rows'[o] /\ priced[o] <= priced'[o]
          /\ arriving'[o] # 0 => rows'[o] < MaxRows
    BY <1>1, ModelFacts DEF DerivationInv, TypeOK, Bounded, Rows
<1>4. \A m \in Models : rows[m] <= rows'[m]
    BY <1>1, ModelFacts DEF DerivationInv, TypeOK, Rows
<1>5. QED
    BY <1>1, <1>2, <1>3, <1>4, SourceKeeps DEF tables

LEMMA PricesKeep ==
    ASSUME DerivationInv, NEW p \in Partitions, PricesReach(p)
    PROVE  DerivationInv'
<1>1. /\ priced[p] < rows[p] /\ priced' = [priced EXCEPT ![p] = priced[p] + 1]
      /\ UNCHANGED <<now, rows, ingested, arriving, covered, live, staging, running, proc, rebuilt, faults>>
    BY DEF PricesReach, tables
<1>2. p \in Models
    BY ModelFacts
<1>3. priced[p] + 1 \in Rows
    BY <1>1, <1>2, ModelFacts DEF DerivationInv, TypeOK, Rows
<1>4. TypeOK'
    BY <1>1, <1>3 DEF DerivationInv, TypeOK
<1>5. \A o \in Partitions :
          /\ priced'[o] <= rows'[o] /\ priced[o] <= priced'[o]
          /\ arriving'[o] # 0 => rows'[o] < MaxRows
    <2>1. \A o \in Partitions : priced[o] \in Nat /\ priced[o] <= rows[o] /\ rows[o] \in Nat
        BY ModelFacts DEF DerivationInv, TypeOK, Bounded, Rows
    <2>2. \A o \in Partitions : priced'[o] = IF o = p THEN priced[p] + 1 ELSE priced[o]
        BY <1>1 DEF DerivationInv, TypeOK
    <2>3. QED
        BY <1>1, <2>1, <2>2 DEF DerivationInv, Bounded
<1>6. \A m \in Models : rows[m] <= rows'[m]
    BY <1>1, ModelFacts DEF DerivationInv, TypeOK, Rows
<1>7. QED
    BY <1>1, <1>4, <1>5, <1>6, SourceKeeps DEF tables

----------------------------------------------------------------------------
(* Steps of a process that are its own: nothing is sent, nothing ends. *)

PlanType == [at : Step, todo : SUBSET Models, run : Run, wholes : SUBSET ToSet(Wholes)]
MemoryType == [Procs -> [Partitions -> [ingested : Time, seen : Time, held : Rows, asked : Rows]]]

LEMMA NextWholeFacts ==
    ASSUME TypeOK, NEW p, p.wholes \subseteq ToSet(Wholes)
    PROVE  /\ NextWhole(p) \in PlanType
           /\ p.wholes = {} => NextWhole(p).at = "end"
           /\ p.wholes # {} => \E m \in ToSet(Wholes) :
                  /\ NextWhole(p).at = "busy" /\ NextWhole(p).todo = {m}
                  /\ m \in ReadFirst =>
                         NextWhole(p).run.counted = rows[m]
<1>1. CASE p.wholes = {}
    <2>1. NextWhole(p) = [at |-> "end", todo |-> {}, run |-> NoRun, wholes |-> {}]
        BY <1>1 DEF NextWhole, Resting
    <2>2. QED
        BY <1>1, <2>1, NoRunFacts DEF PlanType, Step
<1>2. CASE p.wholes # {}
    <2>1. PICK m : m = First(p.wholes)
        OBVIOUS
    <2>2. m \in p.wholes /\ m \in ToSet(Wholes) /\ m \in Models
        BY <1>2, <2>1, FirstFacts, ModelFacts
    <2>3. PICK run : run = IF m \in ReadFirst THEN [counted |-> rows[m], at |-> now]
                           ELSE NoRun
        OBVIOUS
    <2>4. run \in Run
        <3>1. rows[m] \in Rows /\ 0 \in Rows /\ now \in Time
            BY <2>2, ModelFacts DEF TypeOK, Rows
        <3>2. QED
            BY <2>3, <3>1, NoRunFacts DEF Run
    <2>5. NextWhole(p) = [at |-> "busy", todo |-> {m}, wholes |-> p.wholes \ {m}, run |-> run]
        BY <1>2, <2>1, <2>3 DEF NextWhole
    <2>6. QED
        BY <1>2, <2>2, <2>3, <2>4, <2>5 DEF PlanType, Step
<1>3. QED
    BY <1>1, <1>2

\* The next model of the cycle is looked at, of which nobody has counted more.
LEMMA MovesOn ==
    ASSUME TypeOK, TypeOK', Bounded', UNCHANGED source, NEW q \in Procs,
           NEW p, p.wholes \subseteq ToSet(Wholes), proc'[q] = NextWhole(p),
           \A s \in running' : s.owner # q, Remembers(q)'
    PROVE  Process(q)'
<1>1. PICK plan : plan = NextWhole(p) /\ plan = proc'[q]
    OBVIOUS
<1>2. CASE p.wholes = {}
    <2>1. proc'[q].at = "end"
        BY <1>1, <1>2, NextWholeFacts
    <2>2. QED
        BY <2>1 DEF Process, Owns, Plan, Prepared, ReadAhead, Brings, Planned, Statements
<1>3. CASE p.wholes # {}
    <2>1. PICK m \in ToSet(Wholes) :
              /\ proc'[q].at = "busy" /\ proc'[q].todo = {m}
              /\ m \in ReadFirst => proc'[q].run.counted = rows[m] 
        BY <1>3, NextWholeFacts
    <2>2. m \in Models /\ m \notin Partitions
        BY ModelFacts
    <2>3. Owns(q)' /\ Prepared(q)' /\ Brings(q)'
        BY <2>1 DEF Owns, Prepared, Brings, Statements
    <2>4. Plan(q)'
        BY <2>1, <2>2 DEF Plan, Planned
    <2>5. ReadAhead(q)'
        <3>1. ASSUME NEW n \in ReadFirst, proc'[q].todo = {n}
              PROVE  n = m /\ proc'[q].run.counted = rows'[n] 
            BY <2>1, <3>1 DEF source
        <3>2. Countable(m)' = rows'[m]
            BY <2>2 DEF Countable
        <3>3. rows'[m] <= rows'[m]
            BY <2>2, ModelFacts DEF TypeOK, Rows
        <3>4. \A b \in live'[m] \cup staging'[m] : b.run.counted <= rows'[m]
            BY <2>2, <3>2 DEF Bounded
        <3>5. \A s \in running' : s.model = m => s.run.counted <= rows'[m]
            BY <3>2 DEF Bounded
        <3>6. QED
            BY <3>1, <3>3, <3>4, <3>5 DEF ReadAhead
    <2>6. QED
        BY <2>3, <2>4, <2>5 DEF Process
<1>4. QED
    BY <1>2, <1>3

LEMMA StillTables ==
    ASSUME DerivationInv, UNCHANGED <<source, tables, running>>
    PROVE  Server' /\ Bounded' /\ Results'
<1>1. UNCHANGED <<now, rows, ingested, arriving, covered, priced, live, staging, running>>
    BY DEF source, tables
<1>2. Server' /\ Results'
    BY <1>1 DEF DerivationInv, Server, Alike, Founded, Newer, Ready, Results
<1>3. Bounded'
    BY <1>1 DEF DerivationInv, Bounded, Countable
<1>4. QED
    BY <1>2, <1>3

LEMMA GoesType ==
    ASSUME TypeOK, NEW q \in Procs, NEW p \in PlanType, Goes(q, p), UNCHANGED <<tables, running>>,
           rebuilt' \in MemoryType, faults' \in 0 .. MaxFaults
    PROVE  TypeOK'
<1>1. /\ proc' = [proc EXCEPT ![q] = p]
      /\ UNCHANGED <<now, rows, ingested, arriving, covered, priced, live, staging, running>>
    BY DEF Goes, source, tables
<1>2. proc' \in [Procs -> PlanType]
    BY <1>1 DEF TypeOK, PlanType
<1>3. QED
    BY <1>1, <1>2 DEF TypeOK, PlanType, MemoryType

LEMMA ProcessMoves ==
    ASSUME Alone, DerivationInv, NEW q \in Procs, NEW p \in PlanType, Goes(q, p),
           UNCHANGED <<tables, running>>, rebuilt' \in MemoryType, faults' \in 0 .. MaxFaults,
           Process(q)'
    PROVE  DerivationInv'
<1>1. TypeOK'
    BY GoesType DEF DerivationInv
<1>2. Server' /\ Bounded' /\ Results'
    BY StillTables DEF Goes
<1>3. \A r \in Procs : r = q
    BY DEF Alone
<1>4. \A r \in Procs : Process(r)'
    BY <1>3
<1>5. QED
    BY <1>1, <1>2, <1>4 DEF DerivationInv

\* A process that is not at a statement has none on the server.
LEMMA NothingSent ==
    ASSUME DerivationInv, NEW q \in Procs, proc[q].at \notin Statements
    PROVE  \A s \in running : s.owner # q
BY RunFacts DEF DerivationInv, Process, Owns

LEMMA FaultFacts == ASSUME TypeOK, Fault PROVE faults' \in 0 .. MaxFaults
BY ModelFacts DEF TypeOK, Fault

\* A process goes on to its next whole model, and nothing else happens.
LEMMA MovesOnKeeps ==
    ASSUME Alone, DerivationInv, NEW q \in Procs, proc[q].at \notin Statements,
           NEW p, p.wholes \subseteq ToSet(Wholes), Goes(q, NextWhole(p)),
           UNCHANGED <<tables, running, rebuilt>>, faults' \in 0 .. MaxFaults
    PROVE  DerivationInv'
<1>1. NextWhole(p) \in PlanType
    BY NextWholeFacts DEF DerivationInv
<1>2. rebuilt' \in MemoryType
    BY DEF DerivationInv, TypeOK, MemoryType
<1>3. TypeOK'
    BY <1>1, <1>2, GoesType DEF DerivationInv
<1>4. Bounded'
    BY StillTables DEF Goes
<1>5. UNCHANGED source /\ proc'[q] = NextWhole(p)
    BY DEF Goes, DerivationInv, TypeOK
<1>6. \A s \in running' : s.owner # q
    BY NothingSent
<1>7. Process(q)'
    <2>1. Remembers(q)'
        BY DEF DerivationInv, Process, Remembers, Holds, tables
    <2>2. QED
        BY <1>3, <1>4, <1>5, <1>6, <2>1, MovesOn DEF DerivationInv
<1>8. QED
    BY <1>1, <1>2, <1>7, ProcessMoves

LEMMA LoadAssetsKeeps ==
    ASSUME Alone, DerivationInv, NEW q \in Procs, LoadAssets(q)
    PROVE  DerivationInv'
<1>1. PICK cycle : cycle = [Resting EXCEPT !.wholes = ToSet(Wholes)]
    OBVIOUS
<1>2. /\ proc[q].at = "assets" /\ UNCHANGED <<tables, running, rebuilt>>
      /\ \/ Goes(q, [cycle EXCEPT !.at = "stale"]) /\ UNCHANGED faults
         \/ Goes(q, NextWhole(cycle)) /\ Fault
    BY <1>1 DEF LoadAssets
<1>3. cycle = [at |-> "assets", todo |-> {}, run |-> NoRun, wholes |-> ToSet(Wholes)]
    BY <1>1 DEF Resting
<1>4. CASE Goes(q, [cycle EXCEPT !.at = "stale"]) /\ UNCHANGED faults
    <2>1. PICK plan : plan = [cycle EXCEPT !.at = "stale"]
        OBVIOUS
    <2>2. plan \in PlanType /\ plan.at = "stale"
        BY <1>3, <2>1, NoRunFacts DEF PlanType, Step
    <2>3. proc'[q] = plan
        BY <1>4, <2>1 DEF Goes, DerivationInv, TypeOK
    <2>4. Process(q)'
        <3>1. \A s \in running' : s.owner # q
            BY <1>2, NothingSent DEF Statements
        <3>2. Owns(q)'
            BY <2>2, <2>3, <3>1 DEF Owns, Statements
        <3>3. Plan(q)' /\ Prepared(q)' /\ ReadAhead(q)' /\ Brings(q)'
            BY <2>2, <2>3, <3>1 DEF Plan, Prepared, ReadAhead, Brings, Planned, Statements
        <3>4. Remembers(q)'
            BY <1>2 DEF DerivationInv, Process, Remembers, Holds, tables
        <3>5. QED
            BY <3>2, <3>3, <3>4 DEF Process
    <2>5. rebuilt' \in MemoryType /\ faults' \in 0 .. MaxFaults
        BY <1>2, <1>4 DEF DerivationInv, TypeOK, MemoryType
    <2>6. QED
        BY <1>2, <1>4, <2>1, <2>2, <2>4, <2>5, ProcessMoves
<1>5. CASE Goes(q, NextWhole(cycle)) /\ Fault
    <2>1. cycle.wholes \subseteq ToSet(Wholes) /\ proc[q].at \notin Statements
        BY <1>2, <1>3 DEF Statements
    <2>2. faults' \in 0 .. MaxFaults
        BY <1>5, FaultFacts DEF DerivationInv
    <2>3. QED
        BY <1>2, <1>5, <2>1, <2>2, MovesOnKeeps
<1>6. QED
    BY <1>2, <1>4, <1>5

LEMMA QueryStaleKeeps ==
    ASSUME Alone, DerivationInv, NEW q \in Procs, QueryStale(q)
    PROVE  DerivationInv'
<1>1. PICK todo : todo = {p \in Partitions : Stale(p) /\ Moved(q, p)}
    OBVIOUS
<1>2. proc[q].at = "stale" /\ UNCHANGED <<tables, running, faults>>
    BY DEF QueryStale
<1>3. CASE todo = {}
    <2>1. Goes(q, NextWhole(proc[q])) /\ UNCHANGED rebuilt
        BY <1>1, <1>3 DEF QueryStale
    <2>2. proc[q].wholes \subseteq ToSet(Wholes) /\ proc[q].at \notin Statements
        BY <1>2, ProcFacts DEF Statements, DerivationInv
    <2>3. faults' \in 0 .. MaxFaults
        BY <1>2 DEF DerivationInv, TypeOK
    <2>4. QED
        BY <1>2, <2>1, <2>2, <2>3, MovesOnKeeps
<1>4. CASE todo # {}
    <2>1. PICK plan : plan = [proc[q] EXCEPT !.at = "busy", !.todo = todo]
        OBVIOUS
    <2>2. /\ Goes(q, plan)
          /\ rebuilt' = [rebuilt EXCEPT ![q] = [p \in Partitions |->
                 [rebuilt[q][p] EXCEPT !.asked = Countable(p), !.seen = ingested[p]]]]
        BY <1>1, <1>4, <2>1 DEF QueryStale
    <2>3. todo \subseteq Partitions /\ todo \subseteq Models
        BY <1>1, ModelFacts
    <2>4. plan \in PlanType /\ plan.at = "busy" /\ plan.todo = todo
        BY <2>1, <2>3, ProcFacts DEF PlanType, Step, DerivationInv
    <2>5. /\ rebuilt' \in MemoryType
          /\ \A p \in Partitions : /\ rebuilt'[q][p].asked = Countable(p)
                                   /\ rebuilt'[q][p].held = rebuilt[q][p].held
        <3> DEFINE memory == [p \in Partitions |->
                       [rebuilt[q][p] EXCEPT !.asked = Countable(p), !.seen = ingested[p]]]
        <3>1. rebuilt \in MemoryType
            BY DEF DerivationInv, TypeOK, MemoryType
        <3>2. \A p \in Partitions : Countable(p) \in Rows /\ ingested[p] \in Time
            BY CountFacts, ModelFacts DEF DerivationInv, TypeOK
        <3>3. ASSUME NEW p \in Partitions
              PROVE  /\ memory[p] \in [ingested : Time, seen : Time, held : Rows, asked : Rows]
                     /\ memory[p].asked = Countable(p) /\ memory[p].held = rebuilt[q][p].held
            <4>1. PICK entry : entry = rebuilt[q][p]
                OBVIOUS
            <4>2. entry \in [ingested : Time, seen : Time, held : Rows, asked : Rows]
                BY <3>1, <4>1 DEF MemoryType
            <4>3. memory[p] = [entry EXCEPT !.asked = Countable(p), !.seen = ingested[p]]
                BY <4>1
            <4>4. QED
                BY <3>2, <4>2, <4>3
        <3>4. memory \in [Partitions -> [ingested : Time, seen : Time, held : Rows, asked : Rows]]
            BY <3>3
        <3> HIDE DEF memory
        <3>5. rebuilt' = [rebuilt EXCEPT ![q] = memory]
            BY <2>2 DEF memory
        <3>6. QED
            BY <3>1, <3>3, <3>4, <3>5 DEF MemoryType
    <2>6. UNCHANGED source /\ proc'[q] = plan
        BY <2>2 DEF Goes, DerivationInv, TypeOK
    <2>7. Owns(q)' /\ Prepared(q)' /\ Brings(q)'
        <3>1. \A s \in running' : s.owner # q
            BY <1>2, NothingSent DEF Statements
        <3>2. QED
            BY <2>4, <2>6, <3>1 DEF Owns, Prepared, Brings, Statements
    <2>8. ASSUME NEW p \in todo
          PROVE  rebuilt'[q][p].asked <= Countable(p)'
        <3>1. p \in Partitions /\ Countable(p) \in Nat
            BY <2>3, CountFacts, ModelFacts DEF DerivationInv, Rows
        <3>2. Countable(p)' = Countable(p)
            BY <2>6 DEF Countable, source
        <3>3. QED
            BY <2>5, <3>1, <3>2
    <2>9. Plan(q)'
        BY <1>4, <2>3, <2>4, <2>6, <2>8 DEF Plan, Planned
    <2>10. ReadAhead(q)'
        BY <2>3, <2>4, <2>6, ModelFacts DEF ReadAhead
    <2>11. Process(q)'
        <3>1. Remembers(q)'
            BY <1>2, <2>5 DEF DerivationInv, Process, Remembers, Holds, tables
        <3>2. QED
            BY <2>7, <2>9, <2>10, <3>1 DEF Process
    <2>12. faults' \in 0 .. MaxFaults
        BY <1>2 DEF DerivationInv, TypeOK
    <2>13. QED
        BY <1>2, <2>2, <2>4, <2>5, <2>11, <2>12, ProcessMoves
<1>5. QED
    BY <1>3, <1>4

LEMMA LookBusyKeeps ==
    ASSUME Alone, DerivationInv, NEW q \in Procs, LookBusy(q)
    PROVE  DerivationInv'
<1>1. /\ proc[q].at = "busy" /\ UNCHANGED <<tables, running, rebuilt, faults>>
      /\ IF Busy(Here(q)) THEN Goes(q, NextWhole(proc[q]))
         ELSE Goes(q, [proc[q] EXCEPT !.at = "clear"])
    BY DEF LookBusy, Here
<1>2. rebuilt' \in MemoryType /\ faults' \in 0 .. MaxFaults
    BY <1>1 DEF DerivationInv, TypeOK, MemoryType
<1>3. proc[q].wholes \subseteq ToSet(Wholes) /\ proc[q].at \notin Statements
    BY <1>1, ProcFacts DEF Statements, DerivationInv
<1>4. CASE Busy(Here(q))
    BY <1>1, <1>2, <1>3, <1>4, MovesOnKeeps
<1>5. CASE ~Busy(Here(q))
    <2>1. PICK plan : plan = [proc[q] EXCEPT !.at = "clear"]
        OBVIOUS
    <2>2. plan \in PlanType /\ plan.at = "clear" /\ plan.todo = proc[q].todo /\ plan.run = proc[q].run
        BY <2>1, ProcFacts DEF PlanType, Step, DerivationInv
    <2>3. Goes(q, plan) /\ UNCHANGED source /\ proc'[q] = plan
        BY <1>1, <1>5, <2>1 DEF Goes, DerivationInv, TypeOK
    <2>4. Here(q)' = Here(q)
        BY <2>2, <2>3 DEF Here
    <2>5. Owns(q)'
        <3>1. \A s \in running' : s.owner # q
            BY <1>1, <1>3, NothingSent
        <3>2. \A s \in running' : s.model \notin Twin(Here(q))
            BY <1>1, <1>5 DEF Busy
        <3>3. QED
            BY <2>4, <3>1, <3>2 DEF Owns
    <2>6. Prepared(q)'
        BY <2>2, <2>3 DEF Prepared
    <2>7. Process(q)
        BY DEF DerivationInv
    <2>7a. Brings(q)' /\ Remembers(q)'
        <3>1. \A s \in running' : s.owner # q
            BY <1>1, <1>3, NothingSent
        <3>2. QED
            BY <1>1, <2>2, <2>3, <2>7, <3>1 DEF Brings, Process, Remembers, Holds, tables
    <2>8. Plan(q)'
        BY <1>1, <2>2, <2>3, <2>7 DEF Plan, Planned, Statements, Process, Countable, source
    <2>9. ReadAhead(q)'
        BY <1>1, <2>2, <2>3, <2>7 DEF ReadAhead, Process, source, tables
    <2>10. Process(q)'
        BY <2>5, <2>6, <2>8, <2>9, <2>7a DEF Process
    <2>11. QED
        BY <1>1, <1>2, <2>2, <2>3, <2>10, ProcessMoves
<1>6. QED
    BY <1>4, <1>5

LEMMA RestKeeps ==
    ASSUME Alone, DerivationInv, NEW q \in Procs, Rest(q)
    PROVE  DerivationInv'
<1>1. Goes(q, Resting) /\ UNCHANGED <<tables, running, rebuilt, faults>>
    BY DEF Rest
<1>2. rebuilt' \in MemoryType /\ faults' \in 0 .. MaxFaults
    BY <1>1 DEF DerivationInv, TypeOK, MemoryType
<1>3. Resting \in PlanType /\ Resting.at = "assets"
    BY NoRunFacts DEF Resting, PlanType, Step
<1>4. proc'[q] = Resting
    BY <1>1 DEF Goes, DerivationInv, TypeOK
<1>5. Process(q)'
    <2>1. \A s \in running' : s.owner # q
        BY <1>1, NothingSent DEF Rest, Statements
    <2>2. Owns(q)' /\ Plan(q)' /\ Prepared(q)' /\ ReadAhead(q)' /\ Brings(q)'
        BY <1>3, <1>4, <2>1 DEF Owns, Plan, Prepared, ReadAhead, Brings, Planned, Statements
    <2>3. Remembers(q)'
        BY <1>1 DEF DerivationInv, Process, Remembers, Holds, tables
    <2>4. QED
        BY <2>2, <2>3 DEF Process
<1>6. QED
    BY <1>1, <1>2, <1>3, <1>5, ProcessMoves

----------------------------------------------------------------------------
(* A statement is sent. *)

LEMMA HereFacts ==
    ASSUME DerivationInv, NEW q \in Procs, proc[q].at \in Planned
    PROVE  /\ Here(q) \in proc[q].todo /\ Here(q) \in Models
           /\ Here(q) \notin Partitions => proc[q].todo = {Here(q)}
<1>1. proc[q].todo # {} /\ proc[q].todo \subseteq Models
      /\ (proc[q].todo \subseteq Partitions \/ \E m \in ToSet(Wholes) : proc[q].todo = {m})
    BY ProcFacts DEF DerivationInv, Process, Plan
<1>2. Here(q) \in proc[q].todo
    BY <1>1, FirstFacts DEF Here
<1>3. QED
    BY <1>1, <1>2, ModelFacts

\* What a computation counts that starts now.
LEMMA ComputationFacts ==
    ASSUME DerivationInv, NEW q \in Procs, proc[q].at = "fill"
    PROVE  /\ Computation(q, Here(q)) \in Run
           /\ Computation(q, Here(q)).counted >= Wanted(q, Here(q))
           /\ Computation(q, Here(q)).counted <= Countable(Here(q))
           /\ Newer(Here(q), Computation(q, Here(q)))
           /\ Here(q) \in ReadFirst => Computation(q, Here(q)) = proc[q].run
<1>1. PICK m : m = Here(q)
    OBVIOUS
<1>2. m \in Models /\ m \in proc[q].todo /\ (m \notin Partitions => proc[q].todo = {m})
    BY <1>1, HereFacts DEF Planned, Statements
<1>3. PICK run : run = Computation(q, m)
    OBVIOUS
<1>4. /\ Countable(m) \in Rows /\ rows[m] \in Rows /\ now \in Time /\ Rows \subseteq Nat /\ 0 \in Rows
      /\ \A b \in live[m] : b.run.counted <= Countable(m)
    BY <1>2, CountFacts, ModelFacts DEF DerivationInv, TypeOK, Rows, Bounded
<1> DEFINE Right == /\ run \in Run /\ run.counted >= Wanted(q, m) /\ run.counted <= Countable(m)
                    /\ \A b \in live[m] : b.run.counted <= run.counted
                    /\ m \in ReadFirst => run = proc[q].run
<1>5. ASSUME m \in ReadFirst PROVE Right
    <2>1. m \notin Partitions /\ run = proc[q].run
        BY <1>3, <1>5, ModelFacts DEF Computation
    <2>2. ReadAhead(q)
        BY DEF DerivationInv, Process
    <2>3. /\ run.counted <= rows[m]
          /\ \A b \in live[m] : b.run.counted <= run.counted
        BY <1>2, <1>5, <2>1, <2>2 DEF ReadAhead
    <2>4. run \in Run /\ run.counted \in Nat
        BY <2>1, ProcFacts, ModelFacts DEF DerivationInv, Run, Rows
    <2>5. Countable(m) = rows[m] /\ Wanted(q, m) = 0
        BY <2>1 DEF Countable, Wanted
    <2>6. QED
        BY <2>1, <2>3, <2>4, <2>5
<1>6. ASSUME m \notin ReadFirst PROVE Right
    <2>1. run = [counted |-> Countable(m), at |-> now]
        BY <1>3, <1>6 DEF Computation, Stamp
    <2>2. run.counted = Countable(m) /\ run \in Run
        BY <1>4, <2>1 DEF Run
    <2>3. Countable(m) \in Nat
        BY <1>4
    <2>4. Wanted(q, m) <= Countable(m)
        <3>1. CASE m \in Partitions
            BY <1>2, <3>1 DEF Wanted, DerivationInv, Process, Plan, Planned, Statements
        <3>2. CASE m \notin Partitions
            BY <2>3, <3>2 DEF Wanted
        <3>3. QED
            BY <3>1, <3>2
    <2>5. Wanted(q, m) \in Nat
        BY <1>2, ModelFacts DEF Wanted, DerivationInv, TypeOK, Rows
    <2>6. QED
        BY <1>4, <1>6, <2>2, <2>3, <2>4, <2>5
<1>7. Right
    BY <1>5, <1>6
<1>8. QED
    BY <1>1, <1>3, <1>7 DEF Newer

LEMMA SendKeeps ==
    ASSUME Alone, DerivationInv, NEW q \in Procs, Send(q)
    PROVE  DerivationInv'
<1>1. PICK m : m = Here(q)
    OBVIOUS
<1>2. PICK run : run = IF proc[q].at = "fill" THEN Computation(q, m) ELSE NoRun
    OBVIOUS
<1>3. PICK new : new = [owner |-> q, kind |-> proc[q].at, model |-> m, run |-> run]
    OBVIOUS
<1>4. /\ proc[q].at \in Statements /\ \A s \in running : s.owner # q
      /\ running' = running \cup {new}
      /\ UNCHANGED <<now, rows, ingested, arriving, covered, priced, live, staging, proc, rebuilt, faults>>
    BY <1>1, <1>2, <1>3 DEF Send, Sent, Here, source, tables
<1>5. m \in Models /\ m \in proc[q].todo /\ (m \notin Partitions => proc[q].todo = {m})
    BY <1>1, <1>4, HereFacts DEF Planned
<1>6. new.owner = q /\ new.kind = proc[q].at /\ new.model = m /\ new.run = run
    BY <1>3
<1>7. Countable(m) \in Nat /\ Process(q) /\ TypeOK
    BY <1>5, CountFacts, ModelFacts DEF DerivationInv, Rows
<1>8. /\ run \in Run /\ run.counted \in Nat /\ run.counted <= Countable(m)
      /\ proc[q].at = "fill" => run.counted >= Wanted(q, m) /\ Newer(m, run)
      /\ proc[q].at = "fill" /\ m \in ReadFirst => run = proc[q].run
      /\ proc[q].at # "fill" => run.counted = 0
    <2>1. CASE proc[q].at = "fill"
        <3>1. run = Computation(q, m)
            BY <1>2, <2>1
        <3>2. run \in Run => run.counted \in Nat
            BY ModelFacts DEF Run, Rows
        <3>3. QED
            BY <1>1, <2>1, <3>1, <3>2, ComputationFacts
    <2>2. CASE proc[q].at # "fill"
        <3>1. run = NoRun
            BY <1>2, <2>2
        <3>2. QED
            BY <1>7, <2>2, <3>1, NoRunFacts
    <2>3. QED
        BY <2>1, <2>2
<1>9. TypeOK'
    <2>1. new \in [owner : Procs \cup {"nobody"}, kind : Statements, model : Models, run : Run]
        BY <1>3, <1>4, <1>5, <1>8
    <2>2. QED
        BY <1>4, <1>7, <2>1 DEF TypeOK
<1>10. Server'
    <2>1. ASSUME NEW t \in running
          PROVE  Alike(new, t) /\ Alike(t, new)
        <3>1. t.model \in Models /\ t.model \notin Twin(m)
            BY <1>1, <1>4, <1>7, RunFacts DEF Process, Owns
        <3>2. m \notin Twin(t.model)
            BY <1>5, <3>1, TwinFacts
        <3>3. QED
            BY <1>6, <3>1, <3>2 DEF Alike
    <2>2. Alike(new, new)
        BY DEF Alike
    <2>3. \A s, t \in running : Alike(s, t)
        BY DEF DerivationInv, Server
    <2>4. \A s, t \in running' : Alike(s, t)
        BY <1>4, <2>1, <2>2, <2>3
    <2>5. Founded(new)
        BY <1>1, <1>6, <1>7, <1>8 DEF Founded, Process, Prepared
    <2>6. \A s \in running' : Founded(s)
        BY <1>4, <2>5 DEF DerivationInv, Server
    <2>7. \A s \in running' : Founded(s)'
        BY <1>4, <2>6 DEF Founded, Newer, Ready
    <2>8. QED
        BY <2>4, <2>7 DEF Server, Alike
<1>11. Bounded'
    <2>1. \A s \in running' : s.run.counted <= Countable(s.model)
        BY <1>4, <1>6, <1>8 DEF DerivationInv, Bounded
    <2>2. QED
        BY <1>4, <2>1 DEF DerivationInv, Bounded, Countable
<1>12. Results'
    BY <1>4 DEF DerivationInv, Results
<1>13. Process(q)'
    <2>1. Owns(q)'
        BY <1>1, <1>4, <1>6, <1>7 DEF Process, Owns, Here
    <2>2. Plan(q)' /\ Prepared(q)'
        BY <1>4, <1>7 DEF Process, Plan, Prepared, Here, Countable, Ready, Newer
    <2>3. ASSUME NEW n \in ReadFirst, proc[q].at \in {"busy", "clear", "fill"}, proc[q].todo = {n}
          PROVE  /\ proc[q].run.counted <= rows[n]
                 /\ \A b \in live[n] \cup staging[n] : b.run.counted <= proc[q].run.counted
                 /\ \A s \in running' : s.model = n => s.run.counted <= proc[q].run.counted
        <3>1. /\ proc[q].run.counted <= rows[n]
              /\ \A b \in live[n] \cup staging[n] : b.run.counted <= proc[q].run.counted
              /\ \A s \in running : s.model = n => s.run.counted <= proc[q].run.counted
            BY <1>7, <2>3 DEF Process, ReadAhead
        <3>2. m = n /\ proc[q].run.counted \in Nat
            BY <1>5, <1>7, <2>3, ProcFacts, ModelFacts DEF Run, Rows
        <3>3. run.counted <= proc[q].run.counted
            BY <1>8, <2>3, <3>2
        <3>4. QED
            BY <1>4, <1>6, <3>1, <3>3
    <2>4. ReadAhead(q)'
        BY <1>4, <2>3 DEF ReadAhead
    <2>5. Brings(q)' /\ Remembers(q)'
        BY <1>4, <1>6, <1>7, <1>8 DEF Process, Brings, Wanted, Remembers, Holds, Here
    <2>6. QED
        BY <2>1, <2>2, <2>4, <2>5 DEF Process
<1>14. \A r \in Procs : r = q
    BY DEF Alone
<1>15. QED
    BY <1>9, <1>10, <1>11, <1>12, <1>13, <1>14 DEF DerivationInv

----------------------------------------------------------------------------
(* A statement ends. *)

\* What any end of a statement does to the tables: those of its model, and no more.
Outcome(s) ==
    /\ \A n \in Models \ {s.model} : live'[n] = live[n] /\ staging'[n] = staging[n]
    /\ live' \in [Models -> SUBSET Block] /\ staging' \in [Models -> SUBSET Block]
    /\ \A b \in live'[s.model] \cup staging'[s.model] :
           b \in live[s.model] \cup staging[s.model] \/ b \in Blocks(s.run)
    /\ \/ live'[s.model] = live[s.model]
       \/ s.kind = "swap" /\ live'[s.model] = staging[s.model]

Ending(s) ==
    Effect(s, TRUE) \/ (s.kind = "fill" /\ Effect(s, FALSE)) \/ UNCHANGED tables

LEMMA OutcomeFacts ==
    ASSUME TypeOK, NEW s \in running, Ending(s)
    PROVE  Outcome(s)
<1>1. PICK m : m = s.model
    OBVIOUS
<1>2. /\ m \in Models /\ s.kind \in Statements /\ Blocks(s.run) \subseteq Block
      /\ live \in [Models -> SUBSET Block] /\ staging \in [Models -> SUBSET Block]
    BY <1>1, RunFacts, BlocksFacts DEF TypeOK
<1>3. CASE UNCHANGED tables
    BY <1>1, <1>2, <1>3 DEF Outcome, tables
<1>4. ASSUME NEW whole \in BOOLEAN, Effect(s, whole)
      PROVE  Outcome(s)
    <2>1. CASE s.kind = "clear"
        <3>1. live' = live /\ staging' = [staging EXCEPT ![m] = {}]
            BY <1>1, <1>4, <2>1 DEF Effect, Cleared
        <3>2. QED
            BY <1>1, <1>2, <3>1 DEF Outcome
    <2>2. CASE s.kind = "fill"
        <3>1. PICK blocks : blocks = {b \in Blocks(s.run) : whole \/ b.part = 1}
            OBVIOUS
        <3>2. live' = live /\ staging' = [staging EXCEPT ![m] = staging[m] \cup blocks]
            BY <1>1, <1>4, <2>2, <3>1 DEF Effect
        <3>3. blocks \subseteq Blocks(s.run) /\ staging[m] \cup blocks \in SUBSET Block
            BY <1>2, <3>1
        <3>4. QED
            BY <1>1, <1>2, <3>2, <3>3 DEF Outcome
    <2>3. CASE s.kind = "swap"
        <3>1. PICK left : left = IF m \in Partitions THEN staging[m] ELSE live[m]
            OBVIOUS
        <3>2. /\ live' = [live EXCEPT ![m] = staging[m]]
              /\ staging' = [staging EXCEPT ![m] = left]
            BY <1>1, <1>4, <2>3, <3>1 DEF Effect
        <3>3. left \in SUBSET Block /\ left \subseteq live[m] \cup staging[m]
            BY <1>2, <3>1
        <3>4. QED
            BY <1>1, <1>2, <2>3, <3>2, <3>3 DEF Outcome
    <2>4. CASE s.kind = "sweep"
        <3>1. live' = live /\ staging' = [staging EXCEPT ![m] = {}]
            BY <1>1, <1>4, <2>4 DEF Effect
        <3>2. QED
            BY <1>1, <1>2, <3>1 DEF Outcome
    <2>5. QED
        BY <1>2, <2>1, <2>2, <2>3, <2>4 DEF Statements
<1>5. QED
    BY <1>3, <1>4 DEF Ending

\* Another statement that runs is about another model.
LEMMA OtherModel ==
    ASSUME DerivationInv, NEW s \in running, NEW t \in running, s # t
    PROVE  t.model \in Models /\ t.model \notin Twin(s.model) /\ t.model # s.model
BY RunFacts, TwinFacts DEF DerivationInv, Server, Alike

LEMMA EndKeeps ==
    ASSUME DerivationInv, NEW s \in running, Ending(s), running' = running \ {s}, UNCHANGED source
    PROVE  Server' /\ Bounded' /\ Results'
<1>1. Outcome(s) /\ UNCHANGED <<now, rows, ingested, arriving, covered, priced>>
    BY OutcomeFacts DEF DerivationInv, source
<1>2. PICK m : m = s.model
    OBVIOUS
<1>3. /\ m \in Models /\ s.run \in Run /\ s.run.counted <= Countable(m)
      /\ \A b \in Blocks(s.run) : b.run = s.run
    BY <1>2, RunFacts, BlocksFacts DEF DerivationInv, Bounded
<1>4. Server'
    <2>1. \A t, u \in running' : Alike(t, u)
        BY DEF DerivationInv, Server
    <2>2. ASSUME NEW t \in running'
          PROVE  Founded(t)'
        <3>1. t \in running /\ t.model \in Models \ {s.model}
            BY OtherModel
        <3>2. live'[t.model] = live[t.model] /\ staging'[t.model] = staging[t.model]
            BY <1>1, <3>1 DEF Outcome
        <3>3. Founded(t)
            BY <3>1 DEF DerivationInv, Server
        <3>4. QED
            BY <3>2, <3>3 DEF Founded, Newer, Ready
    <2>3. QED
        BY <2>1, <2>2 DEF Server, Alike
<1>5. Bounded'
    <2>1. ASSUME NEW n \in Models, NEW b \in live'[n] \cup staging'[n]
          PROVE  b.run.counted <= Countable(n)
        <3>1. CASE n = m
            <4>1. b \in live[m] \cup staging[m] \/ b \in Blocks(s.run)
                BY <1>1, <1>2, <3>1 DEF Outcome
            <4>2. QED
                BY <1>3, <3>1, <4>1 DEF DerivationInv, Bounded
        <3>2. CASE n # m
            <4>1. b \in live[n] \cup staging[n]
                BY <1>1, <1>2, <3>2 DEF Outcome
            <4>2. QED
                BY <4>1 DEF DerivationInv, Bounded
        <3>3. QED
            BY <3>1, <3>2
    <2>2. \A t \in running' : t.run.counted <= Countable(t.model)
        BY DEF DerivationInv, Bounded
    <2>3. QED
        BY <1>1, <2>1, <2>2 DEF DerivationInv, Bounded, Countable
<1>6. Results'
    <2>1. ASSUME NEW n \in Models
          PROVE  \E r \in Run : live'[n] = Blocks(r)
        <3>1. CASE live'[n] = live[n]
            BY <3>1 DEF DerivationInv, Results
        <3>2. CASE live'[n] # live[n]
            <4>1. n = m /\ s.kind = "swap" /\ live'[m] = staging[m]
                BY <1>1, <1>2, <3>2 DEF Outcome
            <4>2. Ready(m)
                BY <1>2, <4>1 DEF DerivationInv, Server, Founded
            <4>3. QED
                BY <4>1, <4>2 DEF Ready
        <3>3. QED
            BY <3>1, <3>2
    <2>2. QED
        BY <2>1 DEF Results
<1>7. QED
    BY <1>4, <1>5, <1>6

\* A table that shows so many rows does so after any end of a statement.
LEMMA StillHolds ==
    ASSUME DerivationInv, NEW s \in running, Ending(s), NEW m \in Models, NEW n \in Nat,
           Holds(live[m], n)
    PROVE  Holds(live'[m], n)
<1>1. Outcome(s)
    BY OutcomeFacts DEF DerivationInv
<1>2. CASE live'[m] = live[m]
    BY <1>2
<1>3. CASE live'[m] # live[m]
    <2>1. m = s.model /\ s.kind = "swap" /\ live'[m] = staging[m]
        BY <1>1, <1>3 DEF Outcome
    <2>2. PICK new \in Run : staging[m] = Blocks(new) /\ Newer(m, new)
        BY <2>1 DEF DerivationInv, Server, Founded, Ready
    <2>3. PICK old \in Run : live[m] = Blocks(old) /\ old.counted >= n
        BY DEF Holds
    <2>4. old.counted \in Nat /\ new.counted \in Nat /\ FirstValued \in Nat
        BY ModelFacts DEF Run, Rows
    <2>5. CASE Blocks(old) # {}
        <3>1. PICK b \in Blocks(old) : b.run = old
            BY <2>5, BlocksFacts
        <3>2. old.counted <= new.counted
            BY <2>2, <2>3, <3>1 DEF Newer
        <3>3. new.counted >= n
            BY <2>3, <2>4, <3>2
        <3>4. QED
            BY <2>1, <2>2, <3>3 DEF Holds
    <2>6. CASE Blocks(old) = {} /\ Blocks(new) = {}
        BY <2>1, <2>2, <2>3, <2>6 DEF Holds
    <2>7. CASE Blocks(old) = {} /\ Blocks(new) # {}
        <3>1. old.counted < FirstValued /\ new.counted >= FirstValued
            BY <2>7, BlocksFacts
        <3>2. new.counted >= n
            BY <2>3, <2>4, <3>1
        <3>3. QED
            BY <2>1, <2>2, <3>2 DEF Holds
    <2>8. QED
        BY <2>5, <2>6, <2>7
<1>4. QED
    BY <1>2, <1>3

\* So what is remembered stays true, whichever statement ends.
LEMMA StillRemembers ==
    ASSUME DerivationInv, NEW s \in running, Ending(s), NEW q \in Procs, NEW p \in Partitions
    PROVE  Holds(live'[p], rebuilt[q][p].held)
<1>1. rebuilt[q][p].held \in Nat /\ p \in Models
    BY ModelFacts DEF DerivationInv, TypeOK, Rows
<1>2. Holds(live[p], rebuilt[q][p].held)
    BY DEF DerivationInv, Process, Remembers
<1>3. QED
    BY <1>1, <1>2, StillHolds

\* What was read ahead stays ahead of the tables, whoever writes them.
LEMMA StillAhead ==
    ASSUME DerivationInv, NEW s \in running, Ending(s), NEW n \in ReadFirst, NEW read,
           \A b \in live[n] \cup staging[n] : b.run.counted <= read,
           \A t \in running : t.model = n => t.run.counted <= read
    PROVE  \A b \in live'[n] \cup staging'[n] : b.run.counted <= read
<1>1. Outcome(s) /\ n \in Models /\ s.run \in Run
    BY OutcomeFacts, RunFacts, ModelFacts DEF DerivationInv
<1>2. CASE s.model # n
    BY <1>1, <1>2 DEF Outcome
<1>3. CASE s.model = n
    <2>1. \A b \in Blocks(s.run) : b.run.counted <= read
        BY <1>1, <1>3, BlocksFacts
    <2>2. QED
        BY <1>1, <1>3, <2>1 DEF Outcome
<1>4. QED
    BY <1>2, <1>3

LEMMA EndType ==
    ASSUME TypeOK, NEW s \in running, Ending(s), running' = running \ {s}, UNCHANGED source,
           proc' \in [Procs -> PlanType], rebuilt' \in MemoryType, faults' \in 0 .. MaxFaults
    PROVE  TypeOK'
<1>1. Outcome(s) /\ UNCHANGED <<now, rows, ingested, arriving, covered, priced>>
    BY OutcomeFacts DEF source
<1>2. live' \in [Models -> SUBSET Block] /\ staging' \in [Models -> SUBSET Block]
    BY <1>1 DEF Outcome
<1>3. QED
    BY <1>1, <1>2 DEF TypeOK, PlanType, MemoryType

LEMMA OrphanEndsKeeps ==
    ASSUME DerivationInv, NEW s \in running, OrphanEnds(s)
    PROVE  DerivationInv'
<1>1. /\ s.owner \notin Procs /\ Ending(s) /\ running' = running \ {s}
      /\ UNCHANGED <<source, proc, rebuilt, faults>>
      /\ UNCHANGED <<now, rows, ingested, arriving, covered, priced>>
    BY DEF OrphanEnds, Ending, source
<1>2. TypeOK'
    <2>1. proc' \in [Procs -> PlanType] /\ rebuilt' \in MemoryType /\ faults' \in 0 .. MaxFaults
        BY <1>1 DEF DerivationInv, TypeOK, PlanType, MemoryType
    <2>2. QED
        BY <1>1, <2>1, EndType DEF DerivationInv
<1>3. Server' /\ Bounded' /\ Results'
    BY <1>1, EndKeeps
<1>4. Outcome(s)
    BY <1>1, OutcomeFacts DEF DerivationInv
<1>5. ASSUME NEW q \in Procs PROVE Process(q)'
    <2>1. Process(q) /\ s.owner # q
        BY <1>1 DEF DerivationInv
    <2>2. Owns(q)'
        BY <1>1, <2>1 DEF Process, Owns, Here
    <2>3. Plan(q)'
        BY <1>1, <2>1 DEF Process, Plan, Countable
    <2>4. Prepared(q)'
        <3>1. ASSUME proc[q].at \in Statements
              PROVE  live'[Here(q)] = live[Here(q)] /\ staging'[Here(q)] = staging[Here(q)]
            <4>1. Here(q) \in Models /\ s.model \notin Twin(Here(q))
                BY <2>1, <3>1, HereFacts DEF Planned, Process, Owns
            <4>2. Here(q) # s.model
                BY <4>1, TwinFacts
            <4>3. QED
                BY <1>4, <4>1, <4>2 DEF Outcome
        <3>2. Here(q)' = Here(q)
            BY <1>1 DEF Here
        <3>3. QED
            BY <1>1, <2>1, <3>1, <3>2 DEF Process, Prepared, Ready, Newer, Statements
    <2>4a. Brings(q)'
        <3>1. ASSUME proc[q].at \in {"swap", "sweep"}
              PROVE  live'[Here(q)] = live[Here(q)] /\ staging'[Here(q)] = staging[Here(q)]
            <4>1. Here(q) \in Models /\ s.model \notin Twin(Here(q))
                BY <2>1, <3>1, HereFacts DEF Planned, Statements, Process, Owns
            <4>2. Here(q) # s.model
                BY <4>1, TwinFacts
            <4>3. QED
                BY <1>4, <4>1, <4>2 DEF Outcome
        <3>2. Here(q)' = Here(q)
            BY <1>1 DEF Here
        <3>3. QED
            BY <1>1, <2>1, <3>1, <3>2 DEF Process, Brings, Wanted
    <2>4b. Remembers(q)'
        BY <1>1, StillRemembers DEF Remembers
    <2>5. ReadAhead(q)'
        <3>1. ASSUME NEW n \in ReadFirst, proc[q].at \in {"busy", "clear", "fill"},
                     proc[q].todo = {n}
              PROVE  /\ proc[q].run.counted <= rows[n]
                     /\ \A b \in live'[n] \cup staging'[n] : b.run.counted <= proc[q].run.counted
                     /\ \A t \in running : t.model = n => t.run.counted <= proc[q].run.counted
            <4>1. /\ proc[q].run.counted <= rows[n]
                  /\ \A b \in live[n] \cup staging[n] : b.run.counted <= proc[q].run.counted
                  /\ \A t \in running : t.model = n => t.run.counted <= proc[q].run.counted
                BY <2>1, <3>1 DEF Process, ReadAhead
            <4>2. QED
                BY <1>1, <4>1, StillAhead
        <3>2. QED
            BY <1>1, <3>1 DEF ReadAhead
    <2>6. QED
        BY <2>2, <2>3, <2>4, <2>4a, <2>4b, <2>5 DEF Process
<1>6. QED
    BY <1>2, <1>3, <1>5 DEF DerivationInv

----------------------------------------------------------------------------
(* The process that waited for it goes on. *)

\* A statement that a process waits for is its only one.
LEMMA WaitedFor ==
    ASSUME DerivationInv, NEW s \in running, s.owner \in Procs
    PROVE  /\ proc[s.owner].at = s.kind /\ s.kind \in Statements
           /\ s.model = Here(s.owner) /\ s.model \in Models /\ s.model \in proc[s.owner].todo
           /\ s.model \notin Partitions => proc[s.owner].todo = {s.model}
           /\ \A t \in running \ {s} : t.owner # s.owner /\ t.model \notin Twin(s.model)
<1>1. Owns(s.owner) /\ s.kind \in Statements
    BY RunFacts DEF DerivationInv, Process
<1>2. proc[s.owner].at = s.kind /\ s.model = Here(s.owner)
    BY <1>1 DEF Owns
<1>3. /\ s.model \in Models /\ s.model \in proc[s.owner].todo
      /\ s.model \notin Partitions => proc[s.owner].todo = {s.model}
    BY <1>1, <1>2, HereFacts DEF Planned
<1>4. ASSUME NEW t \in running \ {s}
      PROVE  t.owner # s.owner /\ t.model \notin Twin(s.model)
    <2>1. t.model \notin Twin(s.model)
        BY OtherModel
    <2>2. t.owner = s.owner => t.model = s.model
        BY <1>1, <1>2 DEF Owns
    <2>3. QED
        BY <1>3, <2>1, <2>2, TwinFacts
<1>5. QED
    BY <1>1, <1>2, <1>3, <1>4

LEMMA FailsKeeps ==
    ASSUME Alone, DerivationInv, NEW s \in running, Fails(s)
    PROVE  DerivationInv'
<1>1. PICK q \in Procs : q = s.owner
    BY DEF Fails
<1>2. /\ Ending(s) /\ running' = running \ {s} /\ Fault /\ UNCHANGED <<source, rebuilt>>
      /\ proc' = [proc EXCEPT ![q] = NextWhole(proc[q])]
    BY <1>1 DEF Fails, Goes, Ending
<1>3. proc[q].wholes \subseteq ToSet(Wholes) /\ TypeOK
    BY ProcFacts DEF DerivationInv
<1>4. NextWhole(proc[q]) \in PlanType
    BY <1>3, NextWholeFacts
<1>5. proc' \in [Procs -> PlanType] /\ proc'[q] = NextWhole(proc[q])
    BY <1>2, <1>3, <1>4 DEF TypeOK, PlanType
<1>6. TypeOK'
    <2>1. rebuilt' \in MemoryType /\ faults' \in 0 .. MaxFaults
        BY <1>2, <1>3, FaultFacts DEF TypeOK, MemoryType
    <2>2. QED
        BY <1>2, <1>3, <1>5, <2>1, EndType
<1>7. Server' /\ Bounded' /\ Results'
    BY <1>2, EndKeeps
<1>8. Process(q)'
    <2>1. \A t \in running' : t.owner # q
        BY <1>1, <1>2, WaitedFor
    <2>2. Remembers(q)'
        BY <1>2, StillRemembers DEF Remembers
    <2>3. QED
        BY <1>2, <1>3, <1>5, <1>6, <1>7, <2>1, <2>2, MovesOn
<1>9. \A r \in Procs : r = q
    BY DEF Alone
<1>10. QED
    BY <1>6, <1>7, <1>8, <1>9 DEF DerivationInv

LEMMA DoneKeeps ==
    ASSUME Alone, DerivationInv, NEW s \in running, Done(s)
    PROVE  DerivationInv'
<1>1. PICK q \in Procs : q = s.owner
    BY DEF Done
<1>2. PICK m \in Models : m = s.model
    BY RunFacts DEF DerivationInv
<1>3. PICK p : p = proc[q]
    OBVIOUS
<1>4. /\ Effect(s, TRUE) /\ Ending(s) /\ running' = running \ {s}
      /\ UNCHANGED <<source, faults>> /\ UNCHANGED <<now, rows, ingested, arriving, covered, priced>>
      /\ proc' = [proc EXCEPT ![q] = After(p)]
      /\ rebuilt' = IF s.kind = "sweep" /\ m \in Partitions
                    THEN [rebuilt EXCEPT ![q][m] = Consumed(rebuilt[q][m])]
                    ELSE rebuilt
    BY <1>1, <1>2, <1>3 DEF Done, Goes, Ending, source, Consumes
<1>5. /\ p \in PlanType /\ p.todo \subseteq Models /\ p.wholes \subseteq ToSet(Wholes)
      /\ p.run \in Run /\ TypeOK
    BY <1>3, ProcFacts DEF DerivationInv, PlanType
<1>6. /\ p.at = s.kind /\ s.kind \in Statements /\ m = First(p.todo) /\ m \in p.todo
      /\ m \notin Partitions => p.todo = {m}
      /\ \A t \in running' : t.owner # q /\ t.model \notin Twin(m)
    BY <1>1, <1>2, <1>3, <1>4, WaitedFor DEF Here
<1>7. Process(q) /\ Server' /\ Bounded' /\ Results'
    BY <1>4, EndKeeps DEF DerivationInv
<1>8. /\ rebuilt' \in MemoryType
      /\ \A o \in Partitions :
             /\ rebuilt'[q][o].asked = rebuilt[q][o].asked
             /\ \/ rebuilt'[q][o].held = rebuilt[q][o].held
                \/ o = m /\ s.kind = "sweep" /\ rebuilt'[q][o].held = rebuilt[q][o].asked
    <2>1. rebuilt \in MemoryType
        BY <1>5 DEF TypeOK, MemoryType
    <2>2. CASE s.kind = "sweep" /\ m \in Partitions
        <3>1. PICK entry : entry = rebuilt[q][m]
            OBVIOUS
        <3>2. entry \in [ingested : Time, seen : Time, held : Rows, asked : Rows]
            BY <2>1, <2>2, <3>1 DEF MemoryType
        <3>3. PICK changed : changed = [entry EXCEPT !.ingested = entry.seen, !.held = entry.asked]
            OBVIOUS
        <3>4. /\ changed \in [ingested : Time, seen : Time, held : Rows, asked : Rows]
              /\ changed.asked = entry.asked /\ changed.held = entry.asked
            BY <3>2, <3>3
        <3>5. rebuilt' = [rebuilt EXCEPT ![q] = [rebuilt[q] EXCEPT ![m] = changed]]
            BY <1>4, <2>2, <3>1, <3>3 DEF Consumed
        <3>6. QED
            BY <2>1, <2>2, <3>1, <3>4, <3>5 DEF MemoryType
    <2>3. CASE ~(s.kind = "sweep" /\ m \in Partitions)
        BY <1>4, <2>1, <2>3
    <2>4. QED
        BY <2>2, <2>3
<1>8a. Remembers(q)'
    <2>1. ASSUME NEW o \in Partitions
          PROVE  Holds(live'[o], rebuilt'[q][o].held)
        <3>1. CASE rebuilt'[q][o].held = rebuilt[q][o].held
            BY <1>4, <3>1, StillRemembers
        <3>2. CASE o = m /\ s.kind = "sweep" /\ rebuilt'[q][o].held = rebuilt[q][o].asked
            <4>1. Holds(live[m], Wanted(q, m)) /\ Wanted(q, m) = rebuilt[q][m].asked
                BY <1>3, <1>6, <1>7, <3>2 DEF Process, Brings, Here, Wanted
            <4>2. Wanted(q, m) \in Nat
                BY <1>5, <3>2, <4>1, ModelFacts DEF TypeOK, Rows
            <4>3. Holds(live'[m], Wanted(q, m))
                BY <1>4, <4>1, <4>2, StillHolds
            <4>4. QED
                BY <3>2, <4>1, <4>3
        <3>3. QED
            BY <1>8, <3>1, <3>2
    <2>2. QED
        BY <2>1 DEF Remembers
<1> DEFINE Went == After(p) \in PlanType /\ (TypeOK' => Process(q)')
<1>9. proc'[q] = After(p)
    BY <1>4, <1>5 DEF TypeOK
<1>10. ASSUME NEW r, r \in PlanType, r = After(p), r.at \in {"fill", "swap", "sweep"},
              r.todo = p.todo, r.run = p.run, Prepared(q)', ReadAhead(q)', Brings(q)'
       PROVE  Went
    <2>1. proc'[q] = r /\ Here(q)' = m
        BY <1>6, <1>9, <1>10 DEF Here
    <2>2. Owns(q)'
        BY <1>6, <2>1 DEF Owns
    <2>3. Plan(q)'
        BY <1>3, <1>4, <1>6, <1>7, <1>8, <1>10, <2>1 DEF Process, Plan, Planned, Statements, Countable
    <2>4. QED
        BY <1>10, <1>8a, <2>2, <2>3 DEF Process
<1>11. ASSUME s.kind = "clear" PROVE Went
    <2>1. PICK r : r = [p EXCEPT !.at = "fill"]
        OBVIOUS
    <2>2. r = After(p) /\ r \in PlanType /\ r.at = "fill" /\ r.todo = p.todo /\ r.run = p.run
        BY <1>5, <1>6, <1>11, <2>1 DEF After, PlanType, Step
    <2>3. staging'[m] = {} /\ proc'[q] = r /\ Here(q)' = m
        BY <1>2, <1>4, <1>5, <1>6, <1>9, <1>11, <2>2 DEF Effect, Cleared, TypeOK, Here
    <2>4. Prepared(q)' /\ Brings(q)'
        BY <1>6, <2>2, <2>3 DEF Prepared, Brings
    <2>5. ReadAhead(q)'
        <3>1. ASSUME NEW n \in ReadFirst, p.todo = {n}
              PROVE  /\ p.run.counted <= rows[n]
                     /\ \A b \in live'[n] \cup staging'[n] : b.run.counted <= p.run.counted
                     /\ \A t \in running : t.model = n => t.run.counted <= p.run.counted
            <4>1. /\ p.run.counted <= rows[n]
                  /\ \A b \in live[n] \cup staging[n] : b.run.counted <= p.run.counted
                  /\ \A t \in running : t.model = n => t.run.counted <= p.run.counted
                BY <1>3, <1>6, <1>7, <1>11, <3>1 DEF Process, ReadAhead
            <4>2. QED
                BY <1>4, <4>1, StillAhead
        <3>2. QED
            BY <1>4, <2>2, <2>3, <3>1 DEF ReadAhead
    <2>6. QED
        BY <1>10, <2>2, <2>4, <2>5
<1>12. ASSUME s.kind = "fill" PROVE Went
    <2>1. PICK r : r = [p EXCEPT !.at = "swap"]
        OBVIOUS
    <2>2. r = After(p) /\ r \in PlanType /\ r.at = "swap" /\ r.todo = p.todo /\ r.run = p.run
        BY <1>5, <1>6, <1>12, <2>1 DEF After, PlanType, Step
    <2>3. /\ staging[m] = {} /\ s.run.counted >= Wanted(q, m) /\ Newer(m, s.run) /\ s.run \in Run
        BY <1>1, <1>2, <1>7, <1>12, RunFacts DEF DerivationInv, Server, Founded, Process, Brings
    <2>4. staging'[m] = Blocks(s.run) /\ live' = live
        <3>1. {b \in Blocks(s.run) : TRUE \/ b.part = 1} = Blocks(s.run)
            OBVIOUS
        <3>2. live' = live /\ staging' = [staging EXCEPT ![m] = staging[m] \cup Blocks(s.run)]
            BY <1>2, <1>4, <1>12, <3>1 DEF Effect
        <3>3. QED
            BY <1>5, <2>3, <3>2 DEF TypeOK
    <2>5. proc'[q] = r /\ Here(q)' = m
        BY <1>6, <1>9, <2>2 DEF Here
    <2>6. Ready(m)'
        BY <2>3, <2>4 DEF Ready, Newer
    <2>7. Prepared(q)' /\ Brings(q)'
        <3>1. Wanted(q, m)' = Wanted(q, m)
            BY <1>8 DEF Wanted
        <3>2. Holds(staging'[m], Wanted(q, m))
            BY <2>3, <2>4 DEF Holds
        <3>3. QED
            BY <1>6, <2>2, <2>5, <2>6, <3>1, <3>2 DEF Prepared, Brings
    <2>8. ReadAhead(q)'
        BY <2>2, <2>5 DEF ReadAhead
    <2>9. QED
        BY <1>10, <2>2, <2>7, <2>8
<1>13. ASSUME s.kind = "swap" PROVE Went
    <2>1. PICK r : r = [p EXCEPT !.at = "sweep"]
        OBVIOUS
    <2>2. r = After(p) /\ r \in PlanType /\ r.at = "sweep" /\ r.todo = p.todo /\ r.run = p.run
        BY <1>5, <1>6, <1>13, <2>1 DEF After, PlanType, Step
    <2>3. Prepared(q)' /\ ReadAhead(q)'
        BY <1>9, <2>2 DEF Prepared, ReadAhead
    <2>4. Brings(q)'
        <3>1. Holds(staging[m], Wanted(q, m))
            BY <1>3, <1>6, <1>7, <1>13 DEF Process, Brings, Here
        <3>2. live'[m] = staging[m]
            BY <1>2, <1>4, <1>5, <1>13 DEF Effect, TypeOK
        <3>3. Wanted(q, m)' = Wanted(q, m)
            BY <1>8 DEF Wanted
        <3>4. proc'[q] = r /\ Here(q)' = m
            BY <1>6, <1>9, <2>2 DEF Here
        <3>5. QED
            BY <1>6, <2>2, <3>1, <3>2, <3>3, <3>4 DEF Brings
    <2>5. QED
        BY <1>10, <2>2, <2>3, <2>4
<1>14. ASSUME s.kind = "sweep" /\ p.todo # {m} PROVE Went
    <2>1. PICK r : r = [p EXCEPT !.at = "clear", !.todo = p.todo \ {m}]
        OBVIOUS
    <2>2. /\ r = After(p) /\ r \in PlanType /\ r.at = "clear" /\ r.todo = p.todo \ {m}
        BY <1>5, <1>6, <1>14, <2>1 DEF After, PlanType, Step
    <2>3. m \in Partitions /\ p.todo \subseteq Partitions /\ r.todo # {}
        BY <1>3, <1>6, <1>7, <1>14, <2>2, ModelFacts DEF Process, Plan, Planned, Statements
    <2>4. First(r.todo) \in r.todo /\ First(r.todo) \in Partitions
        BY <1>5, <2>2, <2>3, FirstFacts
    <2>5. proc'[q] = r /\ Here(q)' = First(r.todo)
        BY <1>9, <2>2 DEF Here
    <2>6. Twin(Here(q)') = Twin(m)
        BY <2>3, <2>4, <2>5 DEF Twin
    <2>7. Owns(q)'
        BY <1>6, <2>5, <2>6 DEF Owns
    <2>8. Plan(q)'
        BY <1>3, <1>4, <1>6, <1>7, <1>8, <2>2, <2>3, <2>5
           DEF Process, Plan, Planned, Statements, Countable
    <2>9. Prepared(q)' /\ ReadAhead(q)' /\ Brings(q)'
        BY <1>6, <2>2, <2>3, <2>5, ModelFacts DEF Prepared, ReadAhead, Brings
    <2>10. QED
        BY <1>8a, <2>2, <2>7, <2>8, <2>9 DEF Process
<1>15. ASSUME s.kind = "sweep" /\ p.todo = {m} PROVE Went
    <2>1. After(p) = NextWhole(p)
        BY <1>6, <1>15 DEF After
    <2>2. After(p) \in PlanType
        BY <1>5, <2>1, NextWholeFacts
    <2>3. QED
        BY <1>4, <1>5, <1>6, <1>7, <1>9, <1>8a, <2>1, <2>2, MovesOn
<1>16. Went
    BY <1>6, <1>11, <1>12, <1>13, <1>14, <1>15 DEF Statements
<1>17. TypeOK'
    <2>1. proc' \in [Procs -> PlanType]
        BY <1>4, <1>5, <1>16 DEF TypeOK, PlanType
    <2>2. faults' \in 0 .. MaxFaults
        BY <1>4, <1>5 DEF TypeOK
    <2>3. QED
        BY <1>4, <1>5, <1>8, <2>1, <2>2, EndType
<1>18. \A o \in Procs : o = q
    BY DEF Alone
<1>19. QED
    BY <1>7, <1>16, <1>17, <1>18 DEF DerivationInv

----------------------------------------------------------------------------
(* The process dies: its statement goes on without it. *)

Heir(q, s) == IF s.owner = q THEN [s EXCEPT !.owner = "nobody"] ELSE s

LEMMA HeirFacts ==
    ASSUME TypeOK, NEW q \in Procs, NEW s \in running
    PROVE  /\ Heir(q, s) \in [owner : Procs \cup {"nobody"}, kind : Statements, model : Models,
                              run : Run]
           /\ Heir(q, s).owner # q
           /\ Heir(q, s).kind = s.kind /\ Heir(q, s).model = s.model /\ Heir(q, s).run = s.run
<1>1. s \in [owner : Procs \cup {"nobody"}, kind : Statements, model : Models, run : Run]
    BY DEF TypeOK
<1>2. CASE s.owner = q
    <2>1. PICK heir : heir = [s EXCEPT !.owner = "nobody"]
        OBVIOUS
    <2>2. heir = Heir(q, s)
        BY <1>2, <2>1 DEF Heir
    <2>3. QED
        BY <1>1, <2>1, <2>2, ModelFacts
<1>3. CASE s.owner # q
    BY <1>1, <1>3 DEF Heir
<1>4. QED
    BY <1>2, <1>3

LEMMA DieKeeps ==
    ASSUME Alone, DerivationInv, NEW q \in Procs, Die(q)
    PROVE  DerivationInv'
<1>1. /\ Fault /\ proc' = [proc EXCEPT ![q] = Resting]
      /\ rebuilt' = [rebuilt EXCEPT ![q] = Forgotten]
      /\ UNCHANGED <<now, rows, ingested, arriving, covered, priced, live, staging>>
    BY DEF Die, source, tables
<1>2. TypeOK
    BY DEF DerivationInv
<1>3. running' = {Heir(q, s) : s \in running}
    BY DEF Die, Heir
<1>4. \A t \in running' : \E s \in running :
          t = Heir(q, s) /\ t.kind = s.kind /\ t.model = s.model /\ t.run = s.run /\ t.owner # q
    BY <1>2, <1>3, HeirFacts
<1>5. TypeOK'
    <2>1. running' \subseteq
              [owner : Procs \cup {"nobody"}, kind : Statements, model : Models, run : Run]
        BY <1>2, <1>3, HeirFacts
    <2>2. Resting \in PlanType
        BY NoRunFacts DEF Resting, PlanType, Step
    <2>3. proc' \in [Procs -> PlanType]
        BY <1>1, <1>2, <2>2 DEF TypeOK, PlanType
    <2>4. Forgotten \in [Partitions -> [ingested : Time, seen : Time, held : Rows, asked : Rows]]
        BY ModelFacts DEF Forgotten, Time, Rows
    <2>5. rebuilt' \in MemoryType
        BY <1>1, <1>2, <2>4 DEF TypeOK, MemoryType
    <2>6. faults' \in 0 .. MaxFaults
        BY <1>1, <1>2, FaultFacts
    <2>7. QED
        BY <1>1, <1>2, <2>1, <2>3, <2>5, <2>6 DEF TypeOK, PlanType, MemoryType
<1>6. Server'
    <2>1. ASSUME NEW t \in running', NEW u \in running'
          PROVE  Alike(t, u)
        <3>1. PICK s \in running : t = Heir(q, s) /\ t.model = s.model
            BY <1>4
        <3>2. PICK r \in running : u = Heir(q, r) /\ u.model = r.model
            BY <1>4
        <3>3. Alike(s, r)
            BY DEF DerivationInv, Server
        <3>4. QED
            BY <3>1, <3>2, <3>3 DEF Alike
    <2>2. ASSUME NEW t \in running'
          PROVE  Founded(t)'
        <3>1. PICK s \in running : t.kind = s.kind /\ t.model = s.model /\ t.run = s.run
            BY <1>4
        <3>2. Founded(s)
            BY DEF DerivationInv, Server
        <3>3. QED
            BY <1>1, <3>1, <3>2 DEF Founded, Newer, Ready
    <2>3. QED
        BY <2>1, <2>2 DEF Server, Alike
<1>7. Bounded' /\ Results'
    <2>1. ASSUME NEW t \in running'
          PROVE  t.run.counted <= Countable(t.model)
        <3>1. PICK s \in running : t.model = s.model /\ t.run = s.run
            BY <1>4
        <3>2. s.run.counted <= Countable(s.model)
            BY DEF DerivationInv, Bounded
        <3>3. QED
            BY <3>1, <3>2
    <2>2. QED
        BY <1>1, <2>1 DEF DerivationInv, Bounded, Results, Countable
<1>8. Process(q)'
    <2>1. proc'[q] = Resting /\ Resting.at = "assets"
        BY <1>1, <1>2 DEF TypeOK, Resting
    <2>2. Owns(q)'
        BY <1>4, <2>1 DEF Owns, Statements
    <2>3. Plan(q)' /\ Prepared(q)' /\ ReadAhead(q)' /\ Brings(q)'
        BY <1>4, <2>1 DEF Plan, Prepared, ReadAhead, Brings, Planned, Statements
    <2>4. Remembers(q)'
        <3>1. ASSUME NEW p \in Partitions
              PROVE  Holds(live'[p], rebuilt'[q][p].held)
            <4>1. rebuilt'[q][p].held = 0
                BY <1>1, <1>2 DEF TypeOK, Forgotten
            <4>2. PICK r \in Run : live[p] = Blocks(r)
                BY ModelFacts DEF DerivationInv, Results
            <4>3. r.counted \in Nat
                BY ModelFacts DEF Run, Rows
            <4>4. QED
                BY <1>1, <4>1, <4>2, <4>3 DEF Holds
        <3>2. QED
            BY <3>1 DEF Remembers
    <2>5. QED
        BY <2>2, <2>3, <2>4 DEF Process
<1>9. \A r \in Procs : r = q
    BY DEF Alone
<1>10. QED
    BY <1>5, <1>6, <1>7, <1>8, <1>9 DEF DerivationInv

----------------------------------------------------------------------------
(* The theorems. *)

LEMMA NothingMoves == ASSUME DerivationInv, UNCHANGED vars PROVE DerivationInv'
<1>1. UNCHANGED <<now, rows, ingested, arriving, covered, priced, live, staging, running, proc, rebuilt,
                  faults>>
    BY DEF vars
<1>2. TypeOK'
    BY <1>1 DEF DerivationInv, TypeOK
<1>3. Server' /\ Bounded' /\ Results'
    BY <1>1, StillTables DEF source, tables
<1>4. \A q \in Procs : Process(q)'
    BY <1>1 DEF DerivationInv, Process, Owns, Plan, Prepared, ReadAhead, Brings, Remembers, Here,
                Countable, Ready, Newer, Wanted, Holds
<1>5. QED
    BY <1>2, <1>3, <1>4 DEF DerivationInv

LEMMA DerivationStep == ASSUME Alone, DerivationInv, [Next]_vars PROVE DerivationInv'
<1>1. CASE Tick
    BY <1>1, TickKeeps
<1>2. ASSUME NEW p \in Partitions, InsertStart(p) \/ InsertEnd(p) \/ BlocksReach(p) \/ PricesReach(p)
      PROVE  DerivationInv'
    BY <1>2, InsertStartKeeps, InsertEndKeeps, BlocksKeep, PricesKeep
<1>3. ASSUME NEW m \in Models, Grow(m) PROVE DerivationInv'
    BY <1>3, GrowKeeps
<1>4. ASSUME NEW q \in Procs, Cycle(q) \/ Die(q) PROVE DerivationInv'
    BY <1>4, LoadAssetsKeeps, QueryStaleKeeps, LookBusyKeeps, SendKeeps, RestKeeps, DieKeeps
       DEF Cycle
<1>5. ASSUME NEW s \in running, Done(s) \/ Fails(s) \/ OrphanEnds(s) PROVE DerivationInv'
    BY <1>5, DoneKeeps, FailsKeeps, OrphanEndsKeeps
<1>6. CASE UNCHANGED vars
    BY <1>6, NothingMoves
<1>7. QED
    BY <1>1, <1>2, <1>3, <1>4, <1>5, <1>6 DEF Next

LEMMA DerivationInvariant == ASSUME Alone PROVE Spec => []DerivationInv
<1>1. Init => DerivationInv
    BY DerivationStarts
<1>2. DerivationInv /\ [Next]_vars => DerivationInv'
    BY DerivationStep
<1>3. QED
    BY <1>1, <1>2, PTL DEF Spec

\* How many rows the run counted that a table shows.
CountOf(table) == IF table = {} THEN 0 ELSE (CHOOSE b \in table : TRUE).run.counted

LEMMA CountOfFacts ==
    ASSUME NEW r \in Run
    PROVE  /\ CountOf(Blocks(r)) \in Nat
           /\ Blocks(r) = {} => CountOf(Blocks(r)) = 0
           /\ Blocks(r) # {} => CountOf(Blocks(r)) = r.counted
<1>1. r.counted \in Nat
    BY ModelFacts DEF Run, Rows
<1>2. CASE Blocks(r) = {}
    BY <1>2 DEF CountOf
<1>3. CASE Blocks(r) # {}
    <2>1. (CHOOSE b \in Blocks(r) : TRUE) \in Blocks(r)
        BY <1>3
    <2>2. (CHOOSE b \in Blocks(r) : TRUE).run = r
        BY <2>1, BlocksFacts
    <2>3. QED
        BY <1>1, <1>3, <2>2 DEF CountOf
<1>4. QED
    BY <1>2, <1>3

LEMMA MemoryIsTrue == ASSUME TypeOK, \A q \in Procs : Remembers(q) PROVE Remembered
<1> SUFFICES ASSUME NEW q \in Procs, NEW p \in Partitions, rebuilt[q][p].held >= FirstValued
             PROVE  Counted(p) >= rebuilt[q][p].held
    BY DEF Remembered
<1>1. PICK r \in Run : live[p] = Blocks(r) /\ r.counted >= rebuilt[q][p].held
    BY DEF Remembers, Holds
<1>2. r.counted \in Nat /\ rebuilt[q][p].held \in Nat /\ FirstValued \in Nat
    BY ModelFacts DEF TypeOK, Run, Rows
<1>3. Blocks(r) # {}
    BY <1>1, <1>2, BlocksFacts
<1>4. CountOf(live[p]) = r.counted
    BY <1>1, <1>3, CountOfFacts
<1>5. QED
    BY <1>1, <1>4 DEF Counted, CountOf

\* While one process computes, a reader finds in every model what one run computed,
\* whole; and what the process takes for rebuilt is there, with every row that could be
\* counted when the month was decided on.  Also after failures in the middle of a fill,
\* and after the process died and another one started that meets the statement the dead
\* one has left behind (jobs.ts:11-13, 74-79, 249-251).
THEOREM RunsWhole == ASSUME Alone PROVE Spec => []Inv
<1>1. DerivationInv => Inv
    BY ResultsAreWhole, MemoryIsTrue DEF DerivationInv, Process, Inv
<1>2. QED
    BY <1>1, DerivationInvariant, PTL

\* A table that is replaced by one whose run counted no less does not go back.
LEMMA SwapCountsMore ==
    ASSUME NEW old \in Run, NEW new \in Run, \A b \in Blocks(old) : b.run.counted <= new.counted
    PROVE  CountOf(Blocks(new)) >= CountOf(Blocks(old))
<1>1. old.counted \in Nat /\ new.counted \in Nat /\ FirstValued \in Nat
    BY ModelFacts DEF Run, Rows
<1>2. CASE Blocks(old) = {}
    BY <1>2, CountOfFacts
<1>3. CASE Blocks(old) # {}
    <2>1. PICK b \in Blocks(old) : b.run = old
        BY <1>3, BlocksFacts
    <2>2. old.counted <= new.counted /\ old.counted >= FirstValued
        BY <1>3, <2>1, BlocksFacts
    <2>3. Blocks(new) # {}
        BY <1>1, <2>2, BlocksFacts
    <2>4. CountOf(Blocks(old)) = old.counted /\ CountOf(Blocks(new)) = new.counted
        BY <1>3, <2>3, CountOfFacts
    <2>5. QED
        BY <1>1, <2>2, <2>4
<1>4. QED
    BY <1>2, <1>3

LEMMA CountsMore ==
    ASSUME DerivationInv, [Next]_vars, NEW m \in Models
    PROVE  Counted(m)' >= Counted(m)
<1>1. Counted(m) = CountOf(live[m]) /\ Counted(m)' = CountOf(live'[m])
    BY DEF Counted, CountOf
<1>2. PICK old \in Run : live[m] = Blocks(old)
    BY DEF DerivationInv, Results
<1>3. CASE live'[m] = live[m]
    <2>1. CountOf(live[m]) \in Nat
        BY <1>2, CountOfFacts
    <2>2. QED
        BY <1>1, <1>3, <2>1
<1>4. CASE \E s \in running : Ending(s)
    <2>1. PICK s \in running : Ending(s)
        BY <1>4
    <2>2. Outcome(s)
        BY <2>1, OutcomeFacts DEF DerivationInv
    <2>3. CASE live'[m] # live[m]
        <3>1. m = s.model /\ s.kind = "swap" /\ live'[m] = staging[m]
            BY <2>2, <2>3 DEF Outcome
        <3>2. Ready(m)
            BY <3>1 DEF DerivationInv, Server, Founded
        <3>3. PICK new \in Run : staging[m] = Blocks(new) /\ Newer(m, new)
            BY <3>2 DEF Ready
        <3>4. QED
            BY <1>1, <1>2, <3>1, <3>3, SwapCountsMore DEF Newer
    <2>4. QED
        BY <1>3, <2>3
<1>5. UNCHANGED live \/ \E s \in running : Ending(s)
    BY DEF Next, vars, tables, Ending, Tick, InsertStart, InsertEnd, BlocksReach, PricesReach, Grow, Cycle,
           LoadAssets, QueryStale, LookBusy, Send, Rest, Die, Done, Fails, OrphanEnds
<1>6. QED
    BY <1>3, <1>4, <1>5

\* While one process computes, no month disappears while it is rebuilt and no model
\* goes back: what a process publishes, or the statement that a dead one has left
\* behind, never counted fewer rows than what readers find (jobs.ts:222-225).
THEOREM NothingGoesBack == ASSUME Alone PROVE Spec => NeverBack
<1>1. DerivationInv /\ [Next]_vars => [\A m \in Models : Counted(m)' >= Counted(m)]_vars
    BY CountsMore
<1>2. QED
    BY <1>1, DerivationInvariant, PTL DEF Spec, NeverBack
=============================================================================
