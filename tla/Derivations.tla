---------------------------- MODULE Derivations ----------------------------
(***************************************************************************)
(* The derivations runner (api/src/derivations): read models recomputed in *)
(* a staging twin and swapped into place.  A partition of                  *)
(* account_trade_volume is rebuilt when its source is newer than it and    *)
(* lies between the lowest and the highest block of the blocks table; what *)
(* is counted are the rows whose prices are there, and block rows come     *)
(* before prices and leave holes.  The other models are rebuilt whole in   *)
(* every cycle.  Statements run on the server: one that its process did    *)
(* not live to see the end of goes on, and only the probe of               *)
(* system.processes knows of it.                                           *)
(*                                                                         *)
(* The source of a model is a number of rows.  What a run computed from it *)
(* is written in two blocks; a table holds blocks, and is right when it    *)
(* holds both blocks of one run and nothing else.                          *)
(***************************************************************************)
EXTENDS Integers, Sequences, SequencesExt, FiniteSets

CONSTANTS
    Procs,          \* processes: the container, and others an operator starts
    Once,           \* those with DERIVATIONS_ONESHOT: one cycle
    Months,         \* partitions of account_trade_volume, the oldest first
    Wholes,         \* models recomputed whole, in the order of JOBS
    ReadFirst,      \* those whose source is read before staging is looked at
    FirstValued,    \* a source of fewer rows nets to nothing
    MaxRows,        \* bound: rows of a partition's source
    MaxGrowth,      \* bound: rows of the source of a whole model
    MaxNow,         \* bound: the clock
    MaxFaults       \* bound: processes killed, statements and registry loads that fail

Partitions == ToSet(Months)
Models == Partitions \cup ToSet(Wholes)

ASSUME DerivationsAssumption ==
    /\ Once \subseteq Procs /\ Procs # {} /\ "nobody" \notin Procs
    /\ Months \in Seq(Partitions) /\ Wholes \in Seq(ToSet(Wholes))
    /\ IsInjective(Months) /\ IsInjective(Wholes)
    /\ Partitions \cap ToSet(Wholes) = {}
    /\ ReadFirst \subseteq ToSet(Wholes)
    /\ FirstValued \in Nat \ {0} /\ MaxRows \in Nat /\ MaxGrowth \in 0 .. MaxRows
    /\ MaxNow \in Nat \ {0}
    /\ MaxFaults \in Nat

Rows == 0 .. MaxRows
Time == 0 .. MaxNow

VARIABLES
    now,
    rows,       \* rows of each source that a query sees
    ingested,   \* partitions: max(ingested_at) of those
    arriving,   \* partitions: ingested_at of an insert a query does not see yet
    covered,    \* partitions: between min and max of the blocks table
    priced,     \* partitions: rows whose prices a query sees
    live, staging,
    running,    \* statements on the server
    proc,       \* processes
    rebuilt,    \* rebuiltSourceWatermark of each process
    faults

source == <<now, rows, ingested, arriving, covered, priced>>
tables == <<live, staging>>
vars == <<now, rows, ingested, arriving, covered, priced, live, staging, running, proc, rebuilt,
          faults>>

Run == [counted : Rows,     \* rows of the source that it counted
        at : Time]          \* computed_at
Block == [run : Run, part : 1 .. 2]
NoRun == [counted |-> 0, at |-> 0]
Step == {"assets", "stale", "busy", "clear", "fill", "swap", "sweep", "end"}
Statements == {"clear", "fill", "swap", "sweep"}

\* What comes first of some models: the oldest month, or the next of JOBS.
Order == Months \o Wholes
First(models) ==
    Order[CHOOSE i \in DOMAIN Order :
              Order[i] \in models /\ \A j \in 1 .. i - 1 : Order[j] \notin models]

Min2(a, b) == IF a <= b THEN a ELSE b
Max2(a, b) == IF a >= b THEN a ELSE b

Blocks(run) == IF run.counted < FirstValued THEN {} ELSE [run : {run}, part : 1 .. 2]

\* max(computed_at), the epoch if there is no row.
Computed(table) == IF table = {} THEN 0
                   ELSE CHOOSE t \in Time : /\ \E b \in table : b.run.at = t
                                            /\ \A b \in table : b.run.at <= t

Resting == [at |-> "assets", todo |-> {}, run |-> NoRun, wholes |-> {}]

----------------------------------------------------------------------------
(* The source. *)

Tick ==
    /\ now < MaxNow
    /\ now' = now + 1
    /\ UNCHANGED <<rows, ingested, arriving, covered, priced, tables, running, proc, rebuilt, faults>>

\* An insert of raw events takes its time from now() and is seen when it is done.
InsertStart(p) ==
    /\ arriving[p] = 0 /\ rows[p] < MaxRows
    /\ arriving' = [arriving EXCEPT ![p] = now]
    /\ UNCHANGED <<now, rows, ingested, covered, priced, tables, running, proc, rebuilt, faults>>

\* A row may lie above the highest block of the blocks table.
InsertEnd(p) ==
    /\ arriving[p] # 0
    /\ arriving' = [arriving EXCEPT ![p] = 0]
    /\ rows' = [rows EXCEPT ![p] = @ + 1]
    /\ ingested' = [ingested EXCEPT ![p] = Max2(@, arriving[p])]
    /\ \E still \in {covered[p], FALSE} : covered' = [covered EXCEPT ![p] = still]
    /\ UNCHANGED <<now, priced, tables, running, proc, rebuilt, faults>>

Grow(m) ==
    /\ m \notin Partitions /\ rows[m] < MaxGrowth
    /\ rows' = [rows EXCEPT ![m] = @ + 1]
    /\ UNCHANGED <<now, ingested, arriving, covered, priced, tables, running, proc, rebuilt, faults>>

\* Block rows are there above the month's last row and below its first block.
BlocksReach(p) ==
    /\ ~covered[p]
    /\ covered' = [covered EXCEPT ![p] = TRUE]
    /\ UNCHANGED <<now, rows, ingested, arriving, priced, tables, running, proc, rebuilt, faults>>

\* The prices of a row, before that or after: several containers publish below the
\* frontier at once, each all its block rows before its first price.
PricesReach(p) ==
    /\ priced[p] < rows[p]
    /\ priced' = [priced EXCEPT ![p] = @ + 1]
    /\ UNCHANGED <<now, rows, ingested, arriving, covered, tables, running, proc, rebuilt, faults>>

----------------------------------------------------------------------------
(* A cycle. *)

Fault == faults < MaxFaults /\ faults' = faults + 1

Goes(q, p) ==
    /\ proc' = [proc EXCEPT ![q] = p]
    /\ UNCHANGED source

\* The next model that is recomputed whole; one that reads first reads now.
NextWhole(p) ==
    IF p.wholes = {} THEN [Resting EXCEPT !.at = "end"]
    ELSE LET m == First(p.wholes)
         IN  [at |-> "busy", todo |-> {m}, wholes |-> p.wholes \ {m},
              run |-> IF m \in ReadFirst THEN [counted |-> rows[m], at |-> now]
                      ELSE NoRun]

\* The registry is loaded; without it the partitions are left out of the cycle.
LoadAssets(q) ==
    /\ proc[q].at = "assets"
    /\ LET cycle == [Resting EXCEPT !.wholes = ToSet(Wholes)]
       IN  \/ Goes(q, [cycle EXCEPT !.at = "stale"]) /\ UNCHANGED faults
           \/ Goes(q, NextWhole(cycle)) /\ Fault
    /\ UNCHANGED <<tables, running, rebuilt>>

\* stalePartitionsSql.
Stale(p) ==
    /\ rows[p] > 0
    /\ live[p] = {} \/ ingested[p] > Computed(live[p])
    /\ covered[p]

\* The rows of a source that a statement counts that starts now: an unpriced trade is
\* dropped.
Countable(m) == IF m \in Partitions THEN Min2(rows[m], priced[m]) ELSE rows[m]

\* Mutant: every candidate is rebuilt.
MovedAlways(q, p) == TRUE
\* Mutant: a partition this process has rebuilt is not rebuilt.
MovedOnce(q, p) == rebuilt[q][p].ingested = 0
\* partitionsNeedingRebuild.
Moved(q, p) == rebuilt[q][p].ingested # ingested[p]

\* What the query said is what is remembered once the partition is published.
QueryStale(q) ==
    /\ proc[q].at = "stale"
    /\ LET todo == {p \in Partitions : Stale(p) /\ Moved(q, p)}
       IN  IF todo = {}
           THEN Goes(q, NextWhole(proc[q])) /\ UNCHANGED rebuilt
           ELSE /\ Goes(q, [proc[q] EXCEPT !.at = "busy", !.todo = todo])
                /\ rebuilt' = [rebuilt EXCEPT ![q] =
                       [p \in Partitions |->
                           [rebuilt[q][p] EXCEPT !.asked = Countable(p), !.seen = ingested[p]]]]
    /\ UNCHANGED <<tables, running, faults>>

Twin(m) == IF m \in Partitions THEN Partitions ELSE {m}

\* Mutant: nobody looks.
BusyNever(m) == FALSE
\* stagingBusy.
Busy(m) == \E s \in running : s.model \in Twin(m)

LookBusy(q) ==
    /\ proc[q].at = "busy"
    /\ IF Busy(First(proc[q].todo))
       THEN Goes(q, NextWhole(proc[q]))
       ELSE Goes(q, [proc[q] EXCEPT !.at = "clear"])
    /\ UNCHANGED <<tables, running, rebuilt, faults>>

----------------------------------------------------------------------------
(* Statements. *)

Stamp == now

\* The source as a query sees it that starts now.
Computation(q, m) ==
    IF m \in ReadFirst THEN proc[q].run ELSE [counted |-> Countable(m), at |-> Stamp]

Sent(q) == \E s \in running : s.owner = q

Send(q) ==
    /\ proc[q].at \in Statements
    /\ ~Sent(q)
    /\ LET m == First(proc[q].todo)
       IN  running' = running \cup
               {[owner |-> q, kind |-> proc[q].at, model |-> m,
                 run |-> IF proc[q].at = "fill" THEN Computation(q, m) ELSE NoRun]}
    /\ UNCHANGED <<source, tables, proc, rebuilt, faults>>

\* Mutant: staging is not cleared first.
ClearedNot(m) == staging[m]
Cleared(m) == {}

\* What a statement does to the tables, the first block only if it stops there.
Effect(s, whole) ==
    LET m == s.model
    IN  CASE s.kind = "clear" -> /\ staging' = [staging EXCEPT ![m] = Cleared(m)]
                                 /\ UNCHANGED live
          [] s.kind = "fill" -> /\ staging' = [staging EXCEPT ![m] =
                                       @ \cup {b \in Blocks(s.run) : whole \/ b.part = 1}]
                                /\ UNCHANGED live
          [] s.kind = "swap" -> /\ live' = [live EXCEPT ![m] = staging[m]]
                                /\ staging' = [staging EXCEPT ![m] =
                                       IF m \in Partitions THEN @ ELSE live[m]]
          [] s.kind = "sweep" -> /\ staging' = [staging EXCEPT ![m] = {}]
                                 /\ UNCHANGED live

\* After a statement: the next one, the next partition, or the next model.
After(p) ==
    CASE p.at = "clear" -> [p EXCEPT !.at = "fill"]
      [] p.at = "fill" -> [p EXCEPT !.at = "swap"]
      [] p.at = "swap" -> [p EXCEPT !.at = "sweep"]
      [] p.at = "sweep" -> IF p.todo # {First(p.todo)}
                           THEN [p EXCEPT !.at = "clear", !.todo = p.todo \ {First(p.todo)}]
                           ELSE NextWhole(p)

\* Mutant: the source is remembered before the swap.
ConsumesFill(s) == s.kind = "fill" /\ s.model \in Partitions
\* What the rebuild consumed is remembered, only after the swap succeeded.
Consumes(s) == s.kind = "sweep" /\ s.model \in Partitions
Consumed(memory) == [memory EXCEPT !.ingested = memory.seen, !.held = memory.asked]

Done(s) ==
    /\ s.owner \in Procs
    /\ Effect(s, TRUE)
    /\ running' = running \ {s}
    /\ Goes(s.owner, After(proc[s.owner]))
    /\ rebuilt' = IF Consumes(s)
                  THEN [rebuilt EXCEPT ![s.owner][s.model] = Consumed(@)]
                  ELSE rebuilt
    /\ UNCHANGED faults

\* A statement fails: the rest of the model is left to the next cycle.
Fails(s) ==
    /\ s.owner \in Procs
    /\ Fault
    /\ \/ s.kind = "fill" /\ Effect(s, FALSE)
       \/ UNCHANGED tables
    /\ running' = running \ {s}
    /\ Goes(s.owner, NextWhole(proc[s.owner]))
    /\ UNCHANGED rebuilt

\* One that nobody waits for ends like any other.
OrphanEnds(s) ==
    /\ s.owner \notin Procs
    /\ \/ Effect(s, TRUE)
       \/ s.kind = "fill" /\ Effect(s, FALSE)
       \/ UNCHANGED tables
    /\ running' = running \ {s}
    /\ UNCHANGED <<source, proc, rebuilt, faults>>

\* Of each month: the source that was rebuilt last, the one the last query saw, and
\* the rows that could be counted then.
Forgotten == [p \in Partitions |-> [ingested |-> 0, seen |-> 0, held |-> 0, asked |-> 0]]

\* The sleep between two cycles.
Rest(q) ==
    /\ proc[q].at = "end" /\ q \notin Once
    /\ Goes(q, Resting)
    /\ UNCHANGED <<tables, running, rebuilt, faults>>

\* The process dies and is started again; its statement stays on the server.
Die(q) ==
    /\ Fault
    /\ proc' = [proc EXCEPT ![q] = Resting]
    /\ rebuilt' = [rebuilt EXCEPT ![q] = Forgotten]
    /\ running' = {IF s.owner = q THEN [s EXCEPT !.owner = "nobody"] ELSE s : s \in running}
    /\ UNCHANGED <<source, tables>>

----------------------------------------------------------------------------
Init ==
    /\ now = 1
    /\ rows = [m \in Models |-> 0]
    /\ ingested = [p \in Partitions |-> 0]
    /\ arriving = [p \in Partitions |-> 0]
    /\ covered = [p \in Partitions |-> FALSE]
    /\ priced = [p \in Partitions |-> 0]
    /\ live = [m \in Models |-> {}]
    /\ staging = [m \in Models |-> {}]
    /\ running = {}
    /\ proc = [q \in Procs |-> Resting]
    /\ rebuilt = [q \in Procs |-> Forgotten]
    /\ faults = 0

Cycle(q) == LoadAssets(q) \/ QueryStale(q) \/ LookBusy(q) \/ Send(q) \/ Rest(q)

Next ==
    \/ Tick
    \/ \E p \in Partitions : InsertStart(p) \/ InsertEnd(p) \/ BlocksReach(p) \/ PricesReach(p)
    \/ \E m \in Models : Grow(m)
    \/ \E q \in Procs : Cycle(q) \/ Die(q)
    \/ \E s \in running : Done(s) \/ Fails(s) \/ OrphanEnds(s)

Spec == Init /\ [][Next]_vars

Ends(q) == \E s \in running : s.owner = q /\ (Done(s) \/ Fails(s))

\* Cycles follow each other, statements end, blocks and prices follow the source.
\* Failures are bounded by MaxFaults: nothing fails in every cycle.
Fairness ==
    /\ \A p \in Partitions :
        WF_vars(InsertEnd(p)) /\ WF_vars(BlocksReach(p)) /\ WF_vars(PricesReach(p))
    /\ \A q \in Procs : WF_vars(Cycle(q)) /\ WF_vars(Ends(q))
    /\ WF_vars(\E s \in running : OrphanEnds(s))

FairSpec == Spec /\ Fairness

----------------------------------------------------------------------------
(* Properties. *)

TypeOK ==
    /\ now \in Time
    /\ rows \in [Models -> Rows]
    /\ ingested \in [Partitions -> Time] /\ arriving \in [Partitions -> Time]
    /\ covered \in [Partitions -> BOOLEAN] /\ priced \in [Partitions -> Rows]
    /\ live \in [Models -> SUBSET Block] /\ staging \in [Models -> SUBSET Block]
    /\ running \subseteq [owner : Procs \cup {"nobody"}, kind : Statements, model : Models,
                          run : Run]
    /\ proc \in [Procs -> [at : Step, todo : SUBSET Models, run : Run,
                           wholes : SUBSET ToSet(Wholes)]]
    /\ rebuilt \in [Procs -> [Partitions -> [ingested : Time, seen : Time, held : Rows, asked : Rows]]]
    /\ faults \in 0 .. MaxFaults

Counted(m) == IF live[m] = {} THEN 0 ELSE (CHOOSE b \in live[m] : TRUE).run.counted

\* A reader finds the result of one full run, never half of one, two of them, or
\* what a run that failed or was killed has left behind (jobs.ts:11-13, 74-79).
WholeRuns == \A m \in Models : \E b \in live[m] \cup {[run |-> NoRun]} : live[m] = Blocks(b.run)

\* What a process takes for rebuilt is what readers find: the rows that could be
\* counted when it was decided on are in the month and stay in it, through rebuilds
\* that fail, deaths and statements of the dead.  Else "a failed rebuild must stay a
\* candidate" (jobs.ts:249) would be broken, and nothing would mark the month again.
Remembered ==
    \A q \in Procs, p \in Partitions :
        rebuilt[q][p].held >= FirstValued => Counted(p) >= rebuilt[q][p].held

\* What readers find, and what the processes believe of it, holds together.
Inv == TypeOK /\ WholeRuns /\ Remembered

\* No month disappears while it is rebuilt, and no model goes back to what an
\* older source gave (jobs.ts:222-225).
NeverBack == [][\A m \in Models : Counted(m)' >= Counted(m)]_vars

\* A run of a month counted fewer rows than there are, and the watermarks do not
\* tell: a row was stamped before the run began and seen, or priced, after.  The third
\* case is that of a process which remembers the source: it had a row without a price.
Overtaken(p) ==
    \/ \E b \in live[p] \cup staging[p] : b.run.counted < rows[p] /\ ingested[p] <= b.run.at
    \/ \E s \in running : /\ s.model = p /\ s.kind = "fill"
                          /\ s.run.counted < rows[p] /\ ingested[p] <= s.run.at
    \/ \E q \in Procs : /\ rebuilt[q][p].asked < rows[p]
                        /\ rebuilt[q][p].seen = ingested[p] /\ ingested[p] > 0

\* What does not stay overtaken gets there: the rows that have arrived are all counted
\* in the end, through failures, a dead process and its orphaned statement.
Converges ==
    \A m \in Models :
        <>[](m \in Partitions => ~Overtaken(m))
            => <>[](rows[m] >= FirstValued => Counted(m) = rows[m])

\* A month whose trades net to nothing writes no row and stays a candidate, but once
\* the source rests it is not rebuilt in every cycle (jobs.ts:182-190).
Settles == <>[](\A s \in running : s.model \notin Partitions)

\* Converges of a month without the exception: "subset-safe ... and correct under
\* out-of-order backward backfill" (jobs.ts:121-122).
MonthsConverge ==
    \A p \in Partitions : <>[](rows[p] >= FirstValued => Counted(p) = rows[p])

=============================================================================
