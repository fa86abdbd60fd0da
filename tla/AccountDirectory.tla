-------------------------- MODULE AccountDirectory --------------------------
(***************************************************************************)
(* The account directory (accountsPage in api/src/services/                *)
(* explorerService.ts) on top of the cache: readers seed a key from the    *)
(* page persisted in account_directory_snapshots and then read it stale-   *)
(* while-revalidate; a background pass recomputes the pages one after      *)
(* another; a computation looks for a persisted page before it computes    *)
(* one; the process dies and comes back with an empty cache.               *)
(***************************************************************************)
EXTENDS ApiCache, Sequences, SequencesExt

CONSTANTS
    PageOrder,      \* pages of the directory, in the order the pass refreshes them
    OtherTtl,       \* ttl of the other keys
    FRESH,          \* ACCOUNTS_FRESH_MS
    STALE,          \* ACCOUNTS_STALE_MS
    MAX_AGE,        \* ACCOUNT_DIRECTORY_SNAPSHOT_MAX_AGE_SECONDS
    Readers,        \* requests running at once
    MaxCrashes      \* bound: deaths of the API process

Pages == ToSet(PageOrder)
Others == Keys \ Pages

ASSUME DirectoryAssumption ==
    /\ Pages \subseteq Keys
    /\ PageOrder \in Seq(Pages) /\ PageOrder # <<>> /\ IsInjective(PageOrder)
    /\ OtherTtl \in Nat \ {0}
    /\ FRESH \in Nat \ {0}
    /\ STALE \in Nat /\ STALE >= FRESH
    /\ MAX_AGE \in Nat \ {0}
    /\ OldAge > MAX_AGE + STALE
    /\ MaxCrashes \in Nat

NoRow == -1

VARIABLES
    persisted,  \* account_directory_snapshots FINAL: age of a page's row
    reader,     \* requests: step, page, and the age of the row one has read
    pass,       \* prewarmAccountDirectory: pages left; the slot it awaits
    due,        \* the timer of the pass has fired
    crashes

requests == <<reader, pass, due>>
vars == <<store, used, inflight, builds, persisted, reader, pass, due, crashes>>

IdlePass == [todo |-> <<>>, awaits |-> None]
IdleReader == [step |-> "idle", page |-> PageOrder[1], row |-> NoRow]

\* Mutant: the age of the row is not looked at.
UsableAnyAge(k) == persisted[k] # NoRow
\* loadAccountDirectorySnapshot.
Usable(k) == persisted[k] # NoRow /\ persisted[k] <= MAX_AGE

----------------------------------------------------------------------------
(* Requests. *)

\* Mutant: after the round trip only a pending computation is looked for.
SeedUnlessPending(k) == ~Pending(k)
SeedStill(k) == ~Occupied(k)

\* accountsPage, seedStale: only a key that holds nothing is seeded.
Ask(r, k) ==
    /\ reader[r].step = "idle"
    /\ reader' = [reader EXCEPT ![r] = [step |-> IF Occupied(k) THEN "read" ELSE "seed",
                                        page |-> k, row |-> NoRow]]
    /\ UNCHANGED <<cache, persisted, pass, due, crashes>>

\* The row is read, or the query fails and the request goes on without.
ReadRow(r) ==
    /\ reader[r].step = "seed"
    /\ \E row \in {NoRow} \cup {persisted[k] : k \in {reader[r].page} \cap {k \in Pages : Usable(k)}} :
        reader' = [reader EXCEPT ![r].step = IF row = NoRow THEN "read" ELSE "adopt",
                                 ![r].row = row]
    /\ UNCHANGED <<cache, persisted, pass, due, crashes>>

\* How long a persisted page may still be served.
SeedLeft(row) == MAX_AGE - row

\* seedStale after the round trip: the key is checked again.
Adopt(r) ==
    /\ reader[r].step = "adopt"
    /\ LET k == reader[r].page
           row == reader[r].row
       IN  IF SeedStill(k) /\ SeedLeft(row) > 0
           THEN Install(k, [age |-> row, fresh |-> 0, left |-> SeedLeft(row), by |-> "seed"])
           ELSE UNCHANGED <<store, used>>
    /\ reader' = [reader EXCEPT ![r].step = "read", ![r].row = NoRow]
    /\ UNCHANGED <<inflight, builds, persisted, pass, due, crashes>>

\* The read itself; whoever joins a computation only waits.
ReadPage(r) ==
    /\ reader[r].step = "read"
    /\ ReadSwr(reader[r].page)
    /\ reader' = [reader EXCEPT ![r] = IdleReader]
    /\ UNCHANGED <<persisted, pass, due, crashes>>

\* Any other use of the cache.
ReadOther(k) ==
    /\ ReadThrough(k)
    /\ UNCHANGED <<persisted, requests, crashes>>

----------------------------------------------------------------------------
(* A computation. *)

\* What the pass does about the end of a computation it awaits: the next page, or
\* nothing more in this pass if it was rejected.
PassAfter(b, ok) ==
    pass' = IF pass.awaits = None \/ pass.todo = <<>> \/ Head(pass.todo) # b.key
               \/ pass.awaits # b.slot
            THEN pass
            ELSE IF ok THEN [todo |-> Tail(pass.todo), awaits |-> None]
            ELSE IdlePass

Loaded(b, age, ttl, fresh) ==
    /\ Install(b.key, [age |-> age, fresh |-> fresh, left |-> ttl, by |-> "load"])
    /\ End(b)
    /\ PassAfter(b, TRUE)
    /\ UNCHANGED <<persisted, reader, due, crashes>>

\* build: a usable persisted page is the result.
BuildAdopts(b) ==
    /\ b.step = "look" /\ b.key \in Pages
    /\ Usable(b.key)
    /\ Loaded(b, persisted[b.key], STALE, FRESH)

\* Otherwise, and when the query fails, the page is computed.
BuildLooks(b) ==
    /\ b.step = "look" /\ b.key \in Pages
    /\ Becomes(b, "compute", 0)
    /\ UNCHANGED <<store, used, persisted, requests, crashes>>

BuildComputes(b) ==
    /\ b.step = "compute"
    /\ Becomes(b, "persist", 0)
    /\ UNCHANGED <<store, used, persisted, requests, crashes>>

\* persistAccountDirectorySnapshot: computed_at is now; a failure is logged.
BuildPersists(b) ==
    /\ b.step = "persist"
    /\ persisted' \in {persisted, [persisted EXCEPT ![b.key] = 0]}
    /\ Becomes(b, "return", b.age)
    /\ UNCHANGED <<store, used, requests, crashes>>

BuildReturns(b) ==
    \/ b.step = "return" /\ Loaded(b, b.age, STALE, FRESH)
    \/ b.step = "look" /\ b.key \in Others /\ Loaded(b, 0, OtherTtl, OtherTtl)

BuildFails(b) ==
    /\ b.step \in {"look", "compute"}
    /\ b.step = "look" => b.key \in Others
    /\ End(b)
    /\ PassAfter(b, FALSE)
    /\ UNCHANGED <<store, used, persisted, reader, due, crashes>>

----------------------------------------------------------------------------
(* The pass, time, and the process. *)

\* prewarmAccountDirectory: a timer that fires while a pass runs joins that pass.
PassStart ==
    /\ due
    /\ due' = FALSE
    /\ pass' = IF pass = IdlePass THEN [todo |-> PageOrder, awaits |-> None] ELSE pass
    /\ UNCHANGED <<cache, persisted, reader, crashes>>

\* refreshAccountsPage: cacheRefresh, and await it.
PassRefresh ==
    /\ pass.todo # <<>>
    /\ pass.awaits = None
    /\ LET k == Head(pass.todo)
       IN  /\ StartUnless(k)
           /\ pass' = [pass EXCEPT !.awaits = inflight'[k]]
    /\ UNCHANGED <<store, used, persisted, reader, due, crashes>>

AgedRow(row) == IF row = NoRow THEN NoRow ELSE Older(row)

\* One unit of time.  A row ages on its way to the request: the round trip is
\* short against the unit, and what is left of the tolerance is taken on arrival.
Tick ==
    /\ CacheTick
    /\ persisted' = [k \in Pages |-> AgedRow(persisted[k])]
    /\ reader' = [r \in Readers |-> [reader[r] EXCEPT !.row = AgedRow(@)]]
    /\ due' = TRUE
    /\ UNCHANGED <<pass, crashes>>

Crash ==
    /\ crashes < MaxCrashes
    /\ crashes' = crashes + 1
    /\ store' = [k \in Keys |-> Absent]
    /\ used' = {}
    /\ inflight' = [k \in Keys |-> None]
    /\ builds' = {}
    /\ reader' = [r \in Readers |-> IdleReader]
    /\ pass' = IdlePass
    /\ due' = TRUE
    /\ UNCHANGED persisted

Init ==
    /\ CacheInit
    /\ persisted \in [Pages -> {NoRow, 0}]
    /\ reader = [r \in Readers |-> IdleReader]
    /\ pass = IdlePass
    /\ due = TRUE
    /\ crashes = 0

BuildStep(b) ==
    \/ BuildAdopts(b) \/ BuildLooks(b) \/ BuildComputes(b)
    \/ BuildPersists(b) \/ BuildReturns(b) \/ BuildFails(b)

ReaderStep(r) == ReadRow(r) \/ Adopt(r) \/ ReadPage(r)

Next ==
    \/ \E r \in Readers, k \in Pages : Ask(r, k)
    \/ \E r \in Readers : ReaderStep(r)
    \/ \E k \in Others : ReadOther(k)
    \/ \E b \in builds : BuildStep(b)
    \/ PassStart \/ PassRefresh \/ Tick \/ Crash

Spec == Init /\ [][Next]_vars

Awaited(k) == pass.awaits # None /\ pass.todo # <<>> /\ Head(pass.todo) = k

\* Queries answer and timers fire.  A page's query may fail, but not every time, nor
\* every time the pass awaits it.
Fairness ==
    /\ WF_vars(Tick) /\ WF_vars(PassStart) /\ WF_vars(PassRefresh)
    /\ \A r \in Readers : WF_vars(ReaderStep(r))
    /\ \A k \in Keys :
        /\ WF_vars(\E b \in builds : b.key = k /\ (BuildAdopts(b) \/ BuildLooks(b)))
        /\ SF_vars(\E b \in builds : b.key = k /\ BuildComputes(b))
        /\ SF_vars(\E b \in builds : b.key = k /\ Awaited(k) /\ BuildComputes(b))
        /\ WF_vars(\E b \in builds : b.key = k /\ (BuildPersists(b) \/ BuildReturns(b)))

FairSpec == Spec /\ Fairness

----------------------------------------------------------------------------
(* Properties. *)

TypeOK ==
    /\ CacheTypeOK
    /\ persisted \in [Pages -> 0 .. OldAge \cup {NoRow}]
    /\ reader \in [Readers -> [step : {"idle", "seed", "adopt", "read"}, page : Pages,
                               row : 0 .. OldAge \cup {NoRow}]]
    /\ pass.awaits \in Slot \cup {None}
    /\ due \in BOOLEAN
    /\ crashes \in 0 .. MaxCrashes

\* A page adopted from an earlier process is gone when the tolerance it was
\* published under has passed, however late it was adopted (cache.ts:138-143).
SeedWithinTolerance ==
    \A k \in Keys : store[k].by = "seed" => store[k].age + store[k].left <= MAX_AGE

\* Whoever puts a page into the cache, a reader, a seed or the pass: its limit holds, no
\* key is computed twice at once, and no adopted page outlives its tolerance.
Inv == TypeOK /\ Bounded /\ SingleFlight /\ SeedWithinTolerance

\* Every page is computed again and again, though a failing page ends the pass and
\* a computation may be content with a page another one has persisted.
PagesRecomputed ==
    \A k \in Pages : []<>(\E b \in builds : b.key = k /\ b.step = "persist")

\* What accountsPage says of the pass (explorerService.ts:11893-11895): a page it
\* is done with was rebuilt, and not satisfied by the one it exists to replace.
RefreshRebuilds ==
    [][\A b \in builds :
        (pass.todo # <<>> /\ b.key = Head(pass.todo) /\ pass'.todo = Tail(pass.todo)
            /\ b \notin builds') => b.step \in {"return", "compute"}]_vars

=============================================================================
