---------------------------- MODULE RawBalances ----------------------------
(***************************************************************************)
(* The balances of accounts (raw/balance.ts, raw/store.ts,                 *)
(* scripts/snapshot-balances.ts).  A block is searched for the accounts    *)
(* and assets whose balance it may have changed; each is read at the state *)
(* of the block and becomes a row of raw_balance_observations.  The        *)
(* follower of the head, a worker that fills the history below it and the  *)
(* snapshot script insert such rows in any order, and a balance that is    *)
(* shown is the one of the highest block.                                  *)
(*                                                                         *)
(* An amount is known by the block that set it.  A worker stands for all   *)
(* of them, their ranges being disjoint.  Where a follower may go on from  *)
(* a block that has left the chain is a question of RawLive: here it waits *)
(* for the healer.                                                         *)
(***************************************************************************)
EXTENDS Integers, Sequences, FiniteSets

CONSTANTS
    Who,         \* accounts
    Tokens,      \* assets of Tokens.Accounts
    Genesis,     \* the balances that exist before block 1
    Bodies,      \* what a block may hold: sets of Items
    LiveStart,   \* first block of the follower; the worker has those below
    CHUNK,       \* rows of an insert
    LastBlock,   \* bound: height of the chain
    MaxForks,    \* bound: how often blocks are replaced
    MaxSeeds,    \* bound: passes of the snapshot script
    MaxLosses,   \* bound: reads that fail, processes that die
    MaxTroubles  \* bound: all of these together

NATIVE == "0"
Keys == Who \X (Tokens \cup {NATIVE})

\* An event or a call: what tells of it, the accounts and assets its arguments name,
\* the balances it changes and those it removes.
Vias == {"Balances", "Tokens", "set_storage", "other"}
Items == [via : Vias, who : SUBSET Who, assets : SUBSET (Tokens \cup {NATIVE}),
          moves : SUBSET Keys, ends : SUBSET Keys]

ASSUME RawBalancesAssumption ==
    /\ IsFiniteSet(Keys) /\ Genesis \subseteq Keys
    /\ \A body \in Bodies : body \subseteq Items
    /\ LastBlock \in Nat /\ LiveStart \in 2 .. LastBlock
    /\ CHUNK \in Nat \ {0}
    /\ {MaxForks, MaxSeeds, MaxLosses, MaxTroubles} \subseteq Nat

VARIABLES
    branch,     \* the chain: the blocks from height 1
    rows,       \* raw_balance_observations, every row that was ever inserted
    warnings,   \* raw_parser_warnings: post_state_read_failed
    rawBlocks,  \* raw_blocks FINAL: the fork of the stored block, by height
    mark,       \* raw_ingestion_state: height and fork, by pipeline
    job,        \* the block a pipeline is at: the next statement and the rows
    pass,       \* the snapshot script: its anchor and the rows it has not inserted
    seeded,     \* history: anchors of the passes that came to their end
    used        \* how much of the bounds is used

balanceVars == <<branch, rows, warnings, rawBlocks, mark, job, pass, seeded, used>>

Pipelines == {"live", "range"}
NoFork == -1
Idle == [at |-> 0, rows |-> {}, lost |-> {}, fork |-> NoFork]
NoSeed == [anchor |-> <<0, 0>>, rows |-> {}]
Troubles == used.forks + used.seeds + used.losses

----------------------------------------------------------------------------
(* The chain. *)

Block(h) == <<h, branch[h].fork>>
Moved(h) == UNION {item.moves : item \in branch[h].body}
Ended(h) == UNION {item.ends : item \in branch[h].body}
Changes(h, k) == {g \in 1 .. h : k \in Moved(g)} \cup {0}
Highest(heights) == CHOOSE h \in heights : \A g \in heights : g <= h
LastMove(h, k) == Highest(Changes(h, k))

\* The amount of a balance at the state of a block, and whether it is in storage.
Amount(h, k) == IF LastMove(h, k) = 0 THEN <<0, 0>> ELSE Block(LastMove(h, k))
Exists(h, k) == IF LastMove(h, k) = 0 THEN k \in Genesis ELSE k \notin Ended(LastMove(h, k))

Grow(body) ==
    /\ Len(branch) < LastBlock
    /\ branch' = Append(branch, [fork |-> used.forks, body |-> body])
    /\ UNCHANGED <<rows, warnings, rawBlocks, mark, job, pass, seeded, used>>

\* Blocks above h leave the chain, and another comes after h.
Replace(h, body) ==
    /\ used.forks < MaxForks /\ Troubles < MaxTroubles
    /\ h \in LiveStart - 1 .. Len(branch) - 1
    /\ used' = [used EXCEPT !.forks = @ + 1]
    /\ branch' = Append(SubSeq(branch, 1, h), [fork |-> used'.forks, body |-> body])
    /\ UNCHANGED <<rows, warnings, rawBlocks, mark, job, pass, seeded>>

----------------------------------------------------------------------------
(* extractBalanceObservations. *)

\* Every account with every asset an event, a call or a storage key names; those of the
\* native pallet name none.  Where no asset can be decoded the item is passed over.
CandidatesOf(item) ==
    CASE item.via = "Balances" -> item.who \X {NATIVE}
      [] item.via \in {"Tokens", "set_storage"} -> item.who \X item.assets
      [] OTHER -> {}

\* Block 1 stands for genesis too: every balance in storage is a candidate.
Candidates(h) ==
    (UNION {CandidatesOf(item) : item \in branch[h].body})
        \cup {k \in Keys : h = 1 /\ Exists(h, k)}

Observation(h, k) == [height |-> h, key |-> k, amount |-> Amount(h, k), from |-> Block(h)]

\* Mutant: the checkpoint is saved before the rows are.
StatementsEarlyMark == <<"blocks", "checkpoint", "balances", "warnings">>

\* flushAll() and saveCheckpoint, as far as they are about balances.
Statements == <<"blocks", "balances", "warnings", "checkpoint">>

First(p) == IF p = "live" THEN LiveStart ELSE 1
LastOf(p) == IF p = "live" THEN Len(branch) ELSE LiveStart - 1
OnBranch(h, fork) == h > 0 => fork \in {branch[g].fork : g \in {h} \cap DOMAIN branch}

\* The block above the checkpoint: each candidate is read once, and a read that fails
\* becomes a warning.  A pass of batched reads that fails is read one by one.
Extract(p) ==
    LET h == mark[p].height + 1 IN
    /\ job[p] = Idle
    /\ h <= LastOf(p)
    /\ OnBranch(mark[p].height, mark[p].fork)
    /\ \E failed \in SUBSET Candidates(h) :
           /\ used.losses + Cardinality(failed) <= MaxLosses
           /\ Troubles + Cardinality(failed) <= MaxTroubles
           /\ used' = [used EXCEPT !.losses = @ + Cardinality(failed)]
           /\ job' = [job EXCEPT ![p] =
                  [at |-> 1, fork |-> branch[h].fork,
                   rows |-> {Observation(h, k) : k \in Candidates(h) \ failed},
                   lost |-> {<<h, k>> : k \in failed}]]
    /\ UNCHANGED <<branch, rows, warnings, rawBlocks, mark, pass, seeded>>

Statement(p) == IF job[p] = Idle THEN "none" ELSE Statements[job[p].at]
Advance(p) ==
    job' = [job EXCEPT ![p] =
               IF job[p].at = Len(Statements) THEN Idle ELSE [job[p] EXCEPT !.at = @ + 1]]

\* What the next insert of some rows carries.
ChunkOf(todo) ==
    IF Cardinality(todo) <= CHUNK THEN todo
    ELSE CHOOSE c \in SUBSET todo : Cardinality(c) = CHUNK

InsertBlock(p) ==
    /\ Statement(p) = "blocks"
    /\ rawBlocks' = [rawBlocks EXCEPT ![mark[p].height + 1] = job[p].fork]
    /\ Advance(p)
    /\ UNCHANGED <<branch, rows, warnings, mark, pass, seeded, used>>

\* flushBalanceObservations: chunk after chunk.
InsertChunk(p) ==
    /\ Statement(p) = "balances"
    /\ rows' = rows \cup ChunkOf(job[p].rows)
    /\ IF Cardinality(job[p].rows) <= CHUNK
       THEN Advance(p)
       ELSE job' = [job EXCEPT ![p].rows = @ \ ChunkOf(@)]
    /\ UNCHANGED <<branch, warnings, rawBlocks, mark, pass, seeded, used>>

InsertWarnings(p) ==
    /\ Statement(p) = "warnings"
    /\ warnings' = warnings \cup job[p].lost
    /\ Advance(p)
    /\ UNCHANGED <<branch, rows, rawBlocks, mark, pass, seeded, used>>

SaveMark(p) ==
    /\ Statement(p) = "checkpoint"
    /\ mark' = [mark EXCEPT ![p] = [height |-> @.height + 1, fork |-> job[p].fork]]
    /\ Advance(p)
    /\ UNCHANGED <<branch, rows, warnings, rawBlocks, pass, seeded, used>>

\* The process dies between two statements and is started again at its checkpoint.
Dies(p) ==
    /\ job[p] # Idle
    /\ used.losses < MaxLosses /\ Troubles < MaxTroubles
    /\ used' = [used EXCEPT !.losses = @ + 1]
    /\ job' = [job EXCEPT ![p] = Idle]
    /\ UNCHANGED <<branch, rows, warnings, rawBlocks, mark, pass, seeded>>

\* heal_live_raw_reorg: the checkpoint goes back to the highest block below it that is
\* stored and on the chain, and the follower is started again.  No row is deleted.  Where
\* the blocks below its first one are not stored yet, it goes back into the worker's.
Heal ==
    LET Common == {h \in 1 .. mark["live"].height - 1 : OnBranch(h, rawBlocks[h])} IN
    /\ mark["live"].height <= Len(branch)
    /\ ~OnBranch(mark["live"].height, mark["live"].fork)
    /\ \E h \in Common :
           /\ \A g \in Common : g <= h
           /\ mark' = [mark EXCEPT !["live"] = [height |-> h, fork |-> branch[h].fork]]
    /\ job' = [job EXCEPT !["live"] = Idle]
    /\ UNCHANGED <<branch, rows, warnings, rawBlocks, pass, seeded, used>>

----------------------------------------------------------------------------
(* The snapshot script: every balance in storage at the finalized head. *)

SeedStart ==
    /\ pass = NoSeed
    /\ used.seeds < MaxSeeds /\ Troubles < MaxTroubles
    /\ used' = [used EXCEPT !.seeds = @ + 1]
    /\ pass' = [anchor |-> Block(Len(branch)),
                rows |-> {Observation(Len(branch), k) : k \in {x \in Keys : Exists(Len(branch), x)}}]
    /\ UNCHANGED <<branch, rows, warnings, rawBlocks, mark, job, seeded>>

SeedPage ==
    /\ pass # NoSeed
    /\ rows' = rows \cup ChunkOf(pass.rows)
    /\ IF Cardinality(pass.rows) <= CHUNK
       THEN seeded' = seeded \cup {pass.anchor} /\ pass' = NoSeed
       ELSE pass' = [pass EXCEPT !.rows = @ \ ChunkOf(@)] /\ UNCHANGED seeded
    /\ UNCHANGED <<branch, warnings, rawBlocks, mark, job, used>>

SeedDies ==
    /\ pass # NoSeed
    /\ used.losses < MaxLosses /\ Troubles < MaxTroubles
    /\ used' = [used EXCEPT !.losses = @ + 1]
    /\ pass' = NoSeed
    /\ UNCHANGED <<branch, rows, warnings, rawBlocks, mark, job, seeded>>

----------------------------------------------------------------------------
BalanceInit ==
    /\ branch \in [1 .. LiveStart - 1 -> [fork : {0}, body : Bodies]]
    /\ rows = {} /\ warnings = {}
    /\ rawBlocks = [h \in 1 .. LastBlock |-> NoFork]
    /\ mark = [p \in Pipelines |-> [height |-> First(p) - 1, fork |-> 0]]
    /\ job = [p \in Pipelines |-> Idle]
    /\ pass = NoSeed /\ seeded = {}
    /\ used = [forks |-> 0, seeds |-> 0, losses |-> 0]

BalanceNext ==
    \/ \E body \in Bodies : Grow(body)
    \/ \E body \in Bodies, h \in 1 .. LastBlock : Replace(h, body)
    \/ \E p \in Pipelines :
           \/ Extract(p) \/ InsertBlock(p) \/ InsertChunk(p) \/ InsertWarnings(p)
           \/ SaveMark(p) \/ Dies(p)
    \/ Heal
    \/ SeedStart \/ SeedPage \/ SeedDies

BalanceSpec == BalanceInit /\ [][BalanceNext]_balanceVars

----------------------------------------------------------------------------
BalanceTypeOK ==
    /\ \A h \in 1 .. Len(branch) : branch[h].fork \in 0 .. MaxForks /\ branch[h].body \in Bodies
    /\ \A r \in rows : r.height \in 1 .. LastBlock /\ r.key \in Keys
    /\ \A w \in warnings : w[1] \in 1 .. LastBlock /\ w[2] \in Keys
    /\ mark["live"].height \in 0 .. LastBlock /\ mark["range"].height \in 0 .. LiveStart - 1
    /\ used.losses <= MaxLosses

\* account_asset_latest_balances: the rows argMax(total, block_height) takes its answer
\* from.  A row that a later insert replaced has gone into it all the same.
Latest(k) ==
    LET ofKey == {r \in rows : r.key = k} IN
    {r \in ofKey : \A other \in ofKey : other.height <= r.height}

\* A row of a block that has left the chain is never removed, and hides the others.
Orphaned(k) == \E r \in Latest(k) : ~OnBranch(r.height, r.from[2])

\* The balance shown of an account is the one it had at the block it is shown of.
ShownTrue ==
    \A k \in Keys : Orphaned(k) \/ \A r \in Latest(k) : r.amount = Amount(r.height, k)

\* No change in a block that a pipeline has left behind goes without a row of that block
\* or a warning, unless neither events nor calls tell of it.
Noticed ==
    \A p \in Pipelines : \A h \in First(p) .. mark[p].height :
        OnBranch(h, rawBlocks[h]) =>
            \A k \in Moved(h) \cap Candidates(h) :
                (\E r \in rows : r.key = k /\ r.from = Block(h)) \/ <<h, k>> \in warnings

\* After a pass of the snapshot script an account is shown as it was at the anchor or
\* later, unless it was removed and the block that removed it was not, or not yet, noticed.
Refreshed ==
    \A anchor \in seeded : OnBranch(anchor[1], anchor[2]) =>
        \A k \in Keys :
            \/ Orphaned(k)
            \/ \E r \in Latest(k) : r.height >= anchor[1]
            \/ ~Exists(anchor[1], k)

\* Whatever the order in which the follower, the worker, their replays and the snapshot
\* insert, the balances shown are true, nothing that can be noticed is passed over in
\* silence, and a snapshot leaves no account in storage behind.
BalancesSound == BalanceTypeOK /\ ShownTrue /\ Noticed /\ Refreshed
=============================================================================
