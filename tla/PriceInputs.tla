---------------------------- MODULE PriceInputs ----------------------------
(***************************************************************************)
(* What a block's prices are made of, in a pipeline that follows the head  *)
(* (indexer.ts, the loop over the blocks; pool/compositionCache.ts): the   *)
(* pools and their reserves, read from the block's raw snapshot or from    *)
(* the node, and the KSM anchor of KsmReference.  A block in which nothing *)
(* of this is seen to change is skipped: the prices of the last block that *)
(* was processed stay in force.                                            *)
(*                                                                         *)
(* A batch is one block long: a longer one is a run of batches between     *)
(* which the index does not age.                                           *)
(***************************************************************************)
EXTENDS KsmReference

CONSTANTS
    Pools,    \* pool accounts
    Kinds     \* what a block may do to them, of BlockKinds

BlockKinds == {"quiet", "swap", "transfer", "native", "created", "destroyed",
               "createdLegacy", "destroyedLegacy", "written", "migrated"}

ASSUME PriceInputsAssumption ==
    /\ Kinds \subseteq BlockKinds /\ "quiet" \in Kinds
    /\ "unknown" \notin Pools

VARIABLES
    pc,         \* where the handler of the batch is
    aged,       \* the index is older than RELOAD_INTERVAL_MS
    blockDay,   \* day of the block's timestamp
    pools,      \* the chain: pools of the block
    xykPools,   \* PoolCompositionCache.xykPools
    unseen,     \* the pools changed in snapshot blocks since xykPools was read
    snapshot,   \* pools of previousHistoricalSnapshot
    lastSeed,   \* lastSeedKey
    block,      \* the block: its anchor as first looked up, when, its event, its pools as read
    inForce     \* previousPrices: the anchor they were resolved with, and their block's day

loopVars == <<pc, aged, blockDay, pools, xykPools, unseen, snapshot,
              lastSeed, block, inForce>>
vars == <<refVars, loopVars>>

Unknown == {"unknown"}                     \* a set of pools that is null
NoBlock == [seed |-> NoAnchor, now |-> 0, kind |-> "quiet", read |-> {}]
NoPrices == [none |-> TRUE]

----------------------------------------------------------------------------
(* What happens on the chain. *)

Lifecycle == {"created", "destroyed", "createdLegacy", "destroyedLegacy"}

\* A block's event and the pool it is about, possible where the pools are P.
Events(P) ==
    {[kind |-> k, pool |-> p] : k \in Kinds \cap {"quiet", "written", "migrated"}, p \in Pools}
    \cup {[kind |-> k, pool |-> p] :
             k \in Kinds \cap {"swap", "transfer", "native", "destroyed", "destroyedLegacy"}, p \in P}
    \cup {[kind |-> k, pool |-> p] : k \in Kinds \cap {"created", "createdLegacy"}, p \in Pools \ P}

\* The pools after the event; storage that is written or migrated may hold any.
PoolsAfter(P, e) ==
    CASE e.kind \in {"created", "createdLegacy"} -> {P \cup {e.pool}}
      [] e.kind \in {"destroyed", "destroyedLegacy"} -> {P \ {e.pool}}
      [] e.kind \in {"written", "migrated"} -> SUBSET Pools
      [] OTHER -> {P}

----------------------------------------------------------------------------
(* PoolCompositionCache. *)

\* Mutant: a positional event is read like a named one, and finds no pool.
ProcessEventsNamed(cache, e) ==
    IF cache = Unknown THEN Unknown
    ELSE CASE e.kind = "created" -> cache \cup {e.pool}
           [] e.kind = "destroyed" -> cache \ {e.pool}
           [] OTHER -> cache

\* processEvents(): one pool comes or goes; an event without names drops the list.
ProcessEvents(cache, e) ==
    IF cache = Unknown \/ e.kind \in {"createdLegacy", "destroyedLegacy"} THEN Unknown
    ELSE CASE e.kind = "created" -> cache \cup {e.pool}
           [] e.kind = "destroyed" -> cache \ {e.pool}
           [] OTHER -> cache

\* A runtime upgrade calls invalidateAll() before either branch.
AfterUpgrade(cache, e) == IF e.kind = "migrated" THEN Unknown ELSE cache

\* A block of the node: its events, set_storage, then getXYKPools() at its state.
CacheAtBlock(cache, e, P) ==
    LET known == ProcessEvents(AfterUpgrade(cache, e), e)
    IN  IF known = Unknown \/ e.kind = "written" THEN P ELSE known

----------------------------------------------------------------------------
(* The handler of a batch. *)

\* A batch begins with refreshIfStale(), which asks for the rows.
RefreshStart ==
    /\ pc \in {"batch", "carried"}
    /\ aged
    /\ ReloadAsked
    /\ pc' = "refresh"
    /\ block' = NoBlock
    /\ UNCHANGED <<today, quote, stored, index, poll, throttled, faults, aged, blockDay,
                   pools, xykPools, unseen, snapshot, lastSeed, inForce>>

RefreshDone ==
    /\ pc = "refresh"
    /\ ReloadAnswered \/ ReloadFailed
    /\ pc' = "batch"
    /\ aged' = FALSE
    /\ UNCHANGED <<blockDay, pools, xykPools, unseen, snapshot, lastSeed,
                   block, inForce>>

Ready == pc \in {"batch", "carried"} /\ ~aged

\* A transfer to or from the account of a pool that the source of the block knows.
PoolTransfer(e, accounts) ==
    e.kind \in {"transfer", "swap"} \cup Lifecycle /\ e.pool \in accounts

\* Mutant: the anchor is not compared.
ShouldProcessQuiet(e, accounts, compositionChanged, seed) ==
    \/ PoolTransfer(e, accounts)
    \/ compositionChanged
    \/ e.kind \in {"swap", "written"}
    \/ inForce = NoPrices

ShouldProcess(e, accounts, compositionChanged, seed) ==
    \/ PoolTransfer(e, accounts)
    \/ compositionChanged
    \/ e.kind \in {"swap", "written"}
    \/ seed # lastSeed
    \/ inForce = NoPrices

\* The block is decided on: skipped, or its pools are asked for.
Decide(e, P, read, process, day) ==
    /\ blockDay' = day
    /\ pools' = P
    /\ block' = [seed |-> Lookup(index, day, today), now |-> today,
                 kind |-> IF process THEN "quiet" ELSE e.kind, read |-> read]
    /\ pc' = IF process THEN "resolve" ELSE "carried"
    /\ UNCHANGED <<refVars, aged, lastSeed, inForce>>

\* A block whose raw snapshot is there.  Where the follower has reached the head
\* (isLiveMode), or a stream of snapshots failed, its blocks are read from the node.
FromSnapshot ==
    /\ Ready
    /\ \E day \in blockDay .. today, e \in Events(pools) : \E P \in PoolsAfter(pools, e) :
           /\ snapshot' = P
           /\ xykPools' = AfterUpgrade(xykPools, e)
           /\ unseen' = (xykPools' # Unknown /\ (unseen \/ e.kind \in Lifecycle \cup {"written"}))
           /\ Decide(e, P, P,
                     ShouldProcess(e, P, snapshot # Unknown /\ snapshot # P, Lookup(index, day, today)),
                     day)

\* A block read from the node.
FromNode ==
    /\ Ready
    /\ \E day \in blockDay .. today, e \in Events(pools) : \E P \in PoolsAfter(pools, e) :
           /\ xykPools' = CacheAtBlock(xykPools, e, P)
           /\ unseen' = (unseen /\ ProcessEvents(AfterUpgrade(xykPools, e), e) # Unknown
                                /\ e.kind # "written")
           /\ Decide(e, P, xykPools',
                     ShouldProcess(e, xykPools', e.kind \in Lifecycle, Lookup(index, day, today)),
                     day)
    /\ UNCHANGED snapshot

\* The prices are resolved, with the anchor looked up again.
Resolve ==
    /\ pc = "resolve"
    /\ inForce' = [seed |-> Lookup(index, blockDay, today), day |-> blockDay]
    /\ lastSeed' = block.seed
    /\ block' = NoBlock
    /\ pc' = "batch"
    /\ UNCHANGED <<refVars, aged, blockDay, pools, xykPools, unseen, snapshot>>

\* RELOAD_INTERVAL_MS passes.
Age ==
    /\ ~aged
    /\ aged' = TRUE
    /\ UNCHANGED <<refVars, pc, blockDay, pools, xykPools, unseen, snapshot,
                   lastSeed, block, inForce>>

\* The process ends, by a failed read or from outside, and a new one takes
\* the blocks up from its checkpoint: the pools are those of an earlier block.
Restart ==
    /\ faults < MaxFaults
    /\ faults' = faults + 1
    /\ ReferenceStart
    /\ pc' = "batch" /\ aged' = FALSE
    /\ xykPools' = Unknown /\ unseen' = FALSE /\ snapshot' = Unknown
    /\ lastSeed' = NoAnchor /\ block' = NoBlock /\ inForce' = NoPrices
    /\ pools' \in SUBSET Pools
    /\ blockDay' \in 0 .. blockDay

Init ==
    /\ RefInit
    /\ pc = "batch" /\ aged = FALSE
    /\ xykPools = Unknown /\ unseen = FALSE /\ snapshot = Unknown
    /\ lastSeed = NoAnchor /\ block = NoBlock /\ inForce = NoPrices
    /\ blockDay = 0
    /\ pools \in SUBSET Pools

Handler == RefreshStart \/ RefreshDone \/ Resolve

Next ==
    \/ Handler
    \/ FromSnapshot \/ FromNode
    \/ Age
    \/ Restart
    \/ ReferenceStep /\ UNCHANGED loopVars

Spec == Init /\ [][Next]_vars
FairSpec ==
    /\ Spec
    /\ WF_vars(Handler) /\ WF_vars(Age)
    /\ WF_vars(Poll /\ UNCHANGED loopVars)
    /\ WF_vars(RetryDue /\ UNCHANGED loopVars)

----------------------------------------------------------------------------
TypeOK ==
    /\ ReferenceTypeOK
    /\ pc \in {"batch", "refresh", "resolve", "carried"}
    /\ {aged, unseen} \subseteq BOOLEAN
    /\ blockDay \in 0 .. today
    /\ pools \subseteq Pools
    /\ {xykPools, snapshot} \subseteq (SUBSET Pools) \cup {Unknown}

\* The pools a block is priced with are the chain's pools at that block,
\* whatever came and went, was written, was migrated or could not be decoded:
\* the list is kept up event by event and read anew in time.  A pipeline that
\* went through snapshot blocks with a list in hand has missed what happened
\* in them (processEvents is called for blocks of the node only).
PoolsExact == pc = "resolve" /\ ~unseen => block.read = pools

\* A block whose prices are carried over owes nothing: nothing in it moved a
\* pool, but for the two kinds of change the code does not look for (native
\* currency sent to a pool, a migration that renames no pool), and the anchor
\* the prices in force were resolved with is its own, although a poll or a
\* reload may have replaced it between the two lookups of a block.  Only when
\* the day or the live window ended since may it be another one: lastSeedKey
\* is the anchor of the first lookup, not the one in the price rows.
CarriedQuiet ==
    pc = "carried" =>
        /\ unseen \/ block.kind \in {"quiet", "native", "migrated"}
        /\ \/ inForce.seed = block.seed
           \/ inForce.day < blockDay
           \/ block.now - blockDay > LIVE_WINDOW

\* A block is priced with its own pools, or owes nothing.
Inv == TypeOK /\ PoolsExact /\ CarriedQuiet

\* With the poll, the retry interval and the batches going on, every recent day
\* gets its close without an operator, and what a reload dropped that had begun
\* before a poll's insert comes back: the index ends up equal to the table.
ReferenceConverges ==
    <>[](MissingSettledDays(stored, today - SETTLE_RECENT, today) = {} /\ index = stored)
=============================================================================
