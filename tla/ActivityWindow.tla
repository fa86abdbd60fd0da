--------------------------- MODULE ActivityWindow ---------------------------
(***************************************************************************)
(* One window of the chain-wide activity feed (buildActivityWindow in      *)
(* api/src/services/explorerService.ts).  The feed merges several tables.  *)
(* Each is read newest first under a limit of its own; rows of one table   *)
(* decide whether rows of another are shown (a swap owns the transfers of  *)
(* its extrinsic); the window is served once every table reaches back to   *)
(* its last row, and otherwise some of the reads are repeated deeper.      *)
(*                                                                         *)
(* A row is known by its place on the chain, the table it comes from, the  *)
(* accounts it names and what the code asks of it: whether it passes the   *)
(* value floor, whether it trades a pool share, and whether its message    *)
(* left through the XCM executor.                                          *)
(***************************************************************************)
EXTENDS Integers, FiniteSets

CONSTANTS
    Candidates,     \* rows the tables may hold when the request arrives
    Arrivals,       \* rows of a block that may be indexed while it is served
    Requests,       \* [want, type, floor]
    PROBE,          \* candidates read per row wanted (5 in the code)
    SEED,           \* smallest seed of an exact read (16)
    WIDEN,          \* growth of a read that was too short (4)
    CEILING,        \* MAX_ACTIVITY_SOURCE_ROWS
    DAY             \* blocks in a day

Families == {"transfer", "trade", "liquidity", "xcm"}

RowType == [block: Nat, event: Nat, ext: Nat, family: Families,
            parties: SUBSET {"a", "b"}, big: BOOLEAN, share: BOOLEAN, executed: BOOLEAN]

ASSUME WindowAssumption ==
    /\ Candidates \subseteq RowType /\ Arrivals \subseteq RowType
    /\ IsFiniteSet(Candidates) /\ IsFiniteSet(Arrivals)
    /\ \A r \in Candidates \cup Arrivals : r.executed => r.family = "xcm"
    /\ \A c \in Candidates, a \in Arrivals : c.block < a.block
    /\ Requests \subseteq [want: Nat \ {0}, type: {"all", "trade", "transfer"},
                           floor: {"none", "low", "high"}]
    /\ {PROBE, SEED, CEILING, DAY} \subseteq Nat \ {0}
    /\ WIDEN \in Nat /\ WIDEN > 1

Hook == 0           \* extrinsic_index of a row no extrinsic dispatched
NoFloor == -1       \* no lower bound on the day

VARIABLES
    chain,      \* rows the tables hold
    known,      \* rows they held when the request arrived
    req,
    depth,      \* rows the window has to prove
    exact,      \* sourceValueFiltered
    limit,      \* exactSourceLimits, or fetchN for every source
    kept,       \* sources of the last round that exactSourceCache still holds
    since,      \* exactSourceFrom, as a day
    back,       \* the day each source was read back to
    raw,        \* what the reads of the round returned
    pc,
    window      \* the rows served

reads == <<exact, limit, kept, since>>
windowVars == <<chain, known, req, depth, reads, back, raw, pc, window>>

----------------------------------------------------------------------------
(* Rows. *)

Newer(r, s) == r.block > s.block \/ (r.block = s.block /\ r.event > s.event)
Rank(r, S) == Cardinality({s \in S : Newer(s, r)})
Newest(n, S) == {r \in S : Rank(r, S) < n}
OfFamily(S, f) == {r \in S : r.family = f}
Day(r) == r.block \div DAY

Signed(S) == {r \in S : r.ext # Hook}
Extrinsics(S) == {<<r.block, r.ext>> : r \in Signed(S)}
InExtrinsicOf(r, S) == r.ext # Hook /\ <<r.block, r.ext>> \in Extrinsics(S)
NamedByHook(r, S) ==
    \E s \in S \ Signed(S) : s.block = r.block /\ s.parties \cap r.parties # {}

\* The row is plumbing of a higher-level activity among S.
Owned(r, S) ==
    LET semantic == {s \in S : s.family # "transfer"} IN
    IF r.ext # Hook THEN InExtrinsicOf(r, semantic) ELSE NamedByHook(r, semantic)

\* suppressSubordinateActivityRows, over the rows at hand.
Unowned(S) ==
    {r \in S :
        /\ r.family = "transfer" => ~Owned(r, S)
        /\ r.family = "trade" => ~InExtrinsicOf(r, {s \in S : s.executed})}

\* suppressTransferCandidates: the same rule, looked up in the tables.
UnownedTransfers(T, c) == {t \in T : ~Owned(t, c)}

\* liquidityExtrinsicsForShareTrades, looked up in the tables.
ShareLiquidity(trades, c) ==
    {r \in OfFamily(c, "liquidity") : InExtrinsicOf(r, {t \in trades : t.share})}

----------------------------------------------------------------------------
(* The reads of a round. *)

Plain(type) == type = "transfer"
Sources(type) == IF type = "all" THEN Families ELSE {type}

\* activityWindowDepth and activitySourceSeedSize: the least doubling that reaches n.
Doubled(base, n) ==
    CHOOSE m \in {base * 2^k : k \in 0 .. n} :
        m >= n /\ \A k \in 0 .. n : base * 2^k >= n => m <= base * 2^k
WindowDepth(want) == Doubled(1, want)
Least(m, n) == IF m < n THEN m ELSE n
SeedSize(want) == Least(Doubled(SEED, (want + 3) \div 4), CEILING)
FetchSize(want) == want * PROBE

\* The doublings get there: arithmetic of powers that is checked, not proved.
ASSUME DepthAssumption ==
    \A q \in Requests :
        /\ WindowDepth(q.want) \in Nat \ {0} /\ WindowDepth(q.want) >= q.want
        /\ {SeedSize(q.want), SeedSize(WindowDepth(q.want))} \subseteq Nat

\* The floor goes into the reads only once they are exact.
Readable(f, c) ==
    {r \in OfFamily(c, f) :
        (exact => r.big) /\ (since # NoFloor => Day(r) >= since)}
Read(f, c) ==
    IF f \in kept THEN raw[f] ELSE Newest(limit[f], Readable(f, c))

\* The reads are concurrent: of a block indexed meanwhile, any of them may see nothing.
Load ==
    /\ pc = "load"
    /\ \E c \in {chain, chain \cup Arrivals}, late \in SUBSET Sources(req.type) :
        /\ c = chain => late = {}
        /\ chain' = c
        /\ raw' = [f \in Families |->
                    IF f \notin Sources(req.type) THEN {}
                    ELSE Read(f, IF f \in late THEN c ELSE chain)]
    /\ back' = [f \in Families |-> IF f \in kept THEN back[f] ELSE since]
    /\ pc' = "decide"
    /\ UNCHANGED <<known, req, depth, reads, window>>

----------------------------------------------------------------------------
(* Classification. *)

UserTransfers(got, c) ==
    IF Plain(req.type) THEN UnownedTransfers(got["transfer"], c)
    ELSE {t \in IF exact THEN UnownedTransfers(got["transfer"], c) ELSE got["transfer"] :
            ~InExtrinsicOf(t, got["trade"])}

\* Mutant: share trades are judged by the liquidity rows at hand alone.
UserTradesAtHand(got, c) ==
    {t \in got["trade"] : ~(t.share /\ InExtrinsicOf(t, got["liquidity"]))}
\* dropShareRoutedTrades.
UserTrades(got, c) ==
    LET liquidity ==
            IF req.type = "all" /\ ~exact THEN got["liquidity"]
            ELSE got["liquidity"] \cup ShareLiquidity(got["trade"], c)
    IN {t \in got["trade"] : ~(t.share /\ InExtrinsicOf(t, liquidity))}

\* The rows a window may show, from what the sources returned.
Build(got, c) ==
    LET merged == Unowned(UserTransfers(got, c) \cup UserTrades(got, c)
                             \cup got["liquidity"] \cup got["xcm"])
    IN {r \in merged :
            /\ req.type # "all" => r.family = req.type
            /\ req.floor # "none" => r.big}

Visible == Build(raw, chain)

\* completeActivityPageCutoff: the last row of the window, if there are enough.
Full == Cardinality(Visible) >= depth
Prefix == Newest(depth, Visible)
Cutoff == LET rows == Prefix IN CHOOSE r \in rows : \A s \in rows : ~Newer(r, s)

\* activitySourceCoversCutoff.
Covers(f) ==
    \/ Cardinality(raw[f]) < limit[f]
    \/ Full /\ \E r \in raw[f] : ~Newer(r, Cutoff)

\* activitySourcesNeedingMore.
Short == {f \in Sources(req.type) : ~Covers(f)}

----------------------------------------------------------------------------
(* What follows a round. *)

Serve ==
    /\ pc = "decide"
    /\ Short = {}
    /\ window' = Prefix
    /\ pc' = "served"
    /\ UNCHANGED <<chain, known, req, depth, reads, back, raw>>

\* A low floor is tried on unfiltered rows first, and then by exact reads.
Deferred == req.floor = "low" /\ ~exact /\ ~Plain(req.type)

Fresh(filtered, d) ==
    /\ exact' = filtered
    /\ limit' = [f \in Families |-> IF filtered THEN SeedSize(d) ELSE FetchSize(d)]
    /\ kept' = {}
    /\ since' = NoFloor

GoExact ==
    /\ pc = "decide"
    /\ Short # {} /\ Deferred
    /\ Fresh(TRUE, depth)
    /\ pc' = "load"
    /\ UNCHANGED <<chain, known, req, depth, back, raw, window>>

\* A wider read of everything, while no read has reached the ceiling.
Widened(n) == Least(n * WIDEN, CEILING)

Widen ==
    /\ pc = "decide"
    /\ Short # {} /\ ~Deferred /\ ~exact
    /\ \A f \in Families : limit[f] < CEILING
    /\ limit' = [f \in Families |-> Widened(limit[f])]
    /\ pc' = "load"
    /\ UNCHANGED <<chain, known, req, depth, exact, kept, since, back, raw, window>>

\* activityCutoffFromDate: a source need not be read past the day of the cutoff.
CutoffDay == IF Full THEN Day(Cutoff) ELSE NoFloor

Deepen ==
    /\ pc = "decide"
    /\ Short # {} /\ exact
    /\ \A f \in Short : limit[f] < CEILING
    /\ limit' = [f \in Families |-> IF f \in Short THEN Widened(limit[f]) ELSE limit[f]]
    /\ kept' = Sources(req.type) \ Short
    /\ since' = CutoffDay
    /\ pc' = "load"
    /\ UNCHANGED <<chain, known, req, depth, exact, back, raw, window>>

AtCeiling ==
    IF exact THEN \E f \in Short : limit[f] >= CEILING
    ELSE \E f \in Families : limit[f] >= CEILING

\* The floor is put into the reads at once when it is high, or never for transfers.
Filtered == req.floor = "high" /\ ~Plain(req.type)

\* ACTIVITY_QUERY_TOO_BROAD: the bucket of the page is given up for the page itself.
TooBroad ==
    /\ pc = "decide"
    /\ Short # {} /\ ~Deferred /\ AtCeiling
    /\ IF depth = req.want
       THEN pc' = "refused" /\ UNCHANGED <<depth, reads>>
       ELSE /\ pc' = "load"
            /\ depth' = req.want
            /\ Fresh(Filtered, req.want)
    /\ UNCHANGED <<chain, known, req, back, raw, window>>

----------------------------------------------------------------------------
\* buildActivityWindow begins, over whatever the tables hold.
WindowInit ==
    /\ chain \in SUBSET Candidates
    /\ known = chain
    /\ req \in Requests
    /\ depth = WindowDepth(req.want)
    /\ exact = Filtered
    /\ limit = [f \in Families |-> IF exact THEN SeedSize(depth) ELSE FetchSize(depth)]
    /\ kept = {} /\ since = NoFloor
    /\ back = [f \in Families |-> NoFloor]
    /\ raw = [f \in Families |-> {}]
    /\ pc = "load"
    /\ window = {}

WindowNext == Load \/ Serve \/ GoExact \/ Widen \/ Deepen \/ TooBroad

WindowSpec == WindowInit /\ [][WindowNext]_windowVars

----------------------------------------------------------------------------
(* Properties. *)

WindowTypeOK ==
    /\ known \subseteq Candidates /\ known \subseteq chain
    /\ chain \subseteq known \cup Arrivals
    /\ req \in Requests /\ depth \in Nat \ {0} /\ depth >= req.want
    /\ exact \in BOOLEAN /\ limit \in [Families -> Nat]
    /\ kept \subseteq Families
    /\ raw \in [Families -> SUBSET (Candidates \cup Arrivals)]
    /\ pc \in {"load", "decide", "served", "refused"}
    /\ window \subseteq chain

\* The feed of a request: what complete reads of every source would show.
Feed ==
    Build([f \in Families |->
            IF f \in Sources(req.type) THEN OfFamily(chain, f) ELSE {}], chain)

\* A swap that paid for a send below the floor: an exact read of the sends misses it,
\* and the swap is shown for what it is.
Unfolded(r) ==
    /\ exact /\ r.family = "trade"
    /\ InExtrinsicOf(r, {s \in chain : s.executed /\ ~s.big})

\* A source was read back to the day of a cutoff that has since moved to an earlier
\* day: a send found deeper took more rows out of the window than it brought.
CutShort == \E f \in Sources(req.type) : back[f] > CutoffDay

\* The blocks newer than that of the window's last row.
Proved(r) == Cardinality(window) < depth \/ \E w \in window : r.block > w.block

\* A window is a prefix of the feed, whatever was read how deep on the way to it and
\* whatever arrived meanwhile: of the rows known when the request came, it holds those
\* of the feed and no others, down to the block of its last row (activitySourceCoversCutoff,
\* dropShareRoutedTrades, activityCutoffFromDate).
WindowExact ==
    pc = "served" /\ ~CutShort =>
        \A r \in known : Proved(r) /\ ~Unfolded(r) => (r \in window <=> r \in Feed)

WindowSound == WindowTypeOK /\ WindowExact
=============================================================================
