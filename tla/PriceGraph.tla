----------------------------- MODULE PriceGraph -----------------------------
(***************************************************************************)
(* The prices of a block (price/graph.ts, resolvePrices).  From the assets *)
(* that have a reference price every path of at most MAX_HOPS pools is     *)
(* followed, breadth first; what a path makes of the price is an           *)
(* observation of the asset it ends at, and the price of an asset is the   *)
(* median of its observations weighted by what the thinnest pool of each   *)
(* path holds.  Only so many observations of an asset are kept.            *)
(*                                                                         *)
(* A price of TRUNC * PRICE_UNIT is one dollar inside the graph, and one   *)
(* of PRICE_UNIT outside of it.  Two assets have at most one XYK pool, so  *)
(* that no two observations of an asset share a path: the merge of such    *)
(* observations is left out.                                               *)
(***************************************************************************)
EXTENDS Integers, FiniteSetsExt, SequencesExt

CONSTANTS
    Assets,         \* assets
    Markets,        \* what a block may be given: pools, decimals and reference prices
    Published,      \* pricedAssetIds
    MAX_HOPS,
    MIN_LIQUIDITY,  \* minGraphPathLiquidityUsd
    KEPT,           \* maxObservationsPerAsset
    PRICE_UNIT,
    TRUNC,
    DIGITS          \* the decimals reserves are normalized to

\* A pool holds ra of a and rb of b; some of the decimals may not be known.
OnePoolPerPair(pools) == \A p, q \in pools : {p.a, p.b} = {q.a, q.b} => p = q

ASSUME PriceGraphAssumption ==
    /\ \A m \in Markets :
           /\ OnePoolPerPair(m.pools) /\ IsFiniteSet(m.pools)
           /\ \A p \in m.pools : /\ {p.a, p.b} \subseteq Assets /\ p.a # p.b
                                /\ {p.ra, p.rb} \subseteq Nat
           /\ DOMAIN m.decimals \subseteq Assets
           /\ \A a \in DOMAIN m.decimals : m.decimals[a] \in Nat
           /\ DOMAIN m.seeds \subseteq Assets /\ IsFiniteSet(DOMAIN m.seeds)
           /\ \A a \in DOMAIN m.seeds : m.seeds[a] \in Nat
    /\ {MAX_HOPS, KEPT, PRICE_UNIT, TRUNC} \subseteq Nat \ {0}
    /\ {MIN_LIQUIDITY, DIGITS} \subseteq Nat

\* What an amount of so many decimals is divided by.
Scale(digits) == 10^digits

\* The powers in use are what powers of 10 are.
ASSUME PowersAssumption ==
    \A m \in Markets : \A a \in DOMAIN m.decimals :
        LET d == m.decimals[a]
        IN  /\ Scale(d) \in Nat \ {0}
            /\ IF d <= DIGITS THEN Scale(DIGITS - d) \in Nat \ {0} ELSE Scale(d - DIGITS) \in Nat \ {0}

VARIABLES
    market,    \* pools, decimals and reference prices of the block
    queue,     \* the paths that are still to be followed
    found,     \* observations
    seen,      \* history: every observation that was made, kept or not
    resolved   \* the prices of the block once they are known

graphVars == <<market, queue, found, seen, resolved>>

Unresolved == [none |-> TRUE]

----------------------------------------------------------------------------
(* buildGraph. *)

Normalize(reserve, digits) ==
    IF digits <= DIGITS THEN reserve * Scale(DIGITS - digits)
    ELSE reserve \div Scale(digits - DIGITS)

Usable(pool) == pool.ra # 0 /\ pool.rb # 0 /\ {pool.a, pool.b} \subseteq DOMAIN market.decimals

\* The two directions of a pool: the price of one side is known, that of the other is not.
Edges ==
    UNION {{[from |-> p.a, to |-> p.b, known |-> p.ra, unknown |-> p.rb],
            [from |-> p.b, to |-> p.a, known |-> p.rb, unknown |-> p.ra]} :
               p \in {q \in market.pools : Usable(q)}}

KnownNorm(e) == Normalize(e.known, market.decimals[e.from])
UnknownNorm(e) == Normalize(e.unknown, market.decimals[e.to])
Liquidity(e) == KnownNorm(e) + UnknownNorm(e)

ComputePrice(e, price) ==
    (e.known * Scale(market.decimals[e.to]) * price) \div (e.unknown * Scale(market.decimals[e.from]))

UsdValue(reserve, price) == (reserve * price) \div (TRUNC * PRICE_UNIT)

\* The poorer side of the pool counts.
LiquidityUsd(e, price, computed) ==
    Min({UsdValue(KnownNorm(e), price), UsdValue(UnknownNorm(e), computed)})

----------------------------------------------------------------------------
(* resolveGraphPricesByWeightedMedian. *)

Anchored == DOMAIN market.seeds
Unbounded == 10^8

Entry(path, price, liquidity) == [path |-> path, price |-> price, liquidity |-> liquidity]
Hops(o) == Len(o.path) - 1
AssetOf(o) == Last(o.path)

\* Mutant: a path may come back to where it was.
OnwardAnywhere(entry) == {e \in Edges : e.from = AssetOf(entry) /\ e.to \notin Anchored}

\* What an entry of the queue leads to, and in which order: pools that hold more come
\* first, those that hold the same in the order they were given in.
Onward(entry) ==
    {e \in Edges : e.from = AssetOf(entry) /\ e.to \notin Anchored \cup ToSet(entry.path)}

Along(entry, e) ==
    LET price == ComputePrice(e, entry.price)
    IN  Entry(Append(entry.path, e.to), price, Min({entry.liquidity, LiquidityUsd(e, entry.price, price)}))

Offered(entry) ==
    {e \in Onward(entry) :
        /\ Hops(entry) < MAX_HOPS
        /\ ComputePrice(e, entry.price) # 0
        /\ Along(entry, e).liquidity >= MIN_LIQUIDITY}

Orders(edges) ==
    {s \in SetToSeqs(edges) : \A i, j \in DOMAIN s : i < j => Liquidity(s[i]) >= Liquidity(s[j])}

\* The order the observations of an asset are kept in; of equal ones the older is kept.
Better(o, other) ==
    \/ o.liquidity > other.liquidity
    \/ o.liquidity = other.liquidity /\ Hops(o) < Hops(other)
    \/ o.liquidity = other.liquidity /\ Hops(o) = Hops(other) /\ o.price < other.price

Of(a) == {o \in found : AssetOf(o) = a}
Full(a) == Cardinality(Of(a)) = KEPT
Accepted(o) == ~Full(AssetOf(o)) \/ \E other \in Of(AssetOf(o)) : Better(o, other)
Worst(a) == CHOOSE o \in Of(a) : \A other \in Of(a) : ~Better(o, other)
Evicted(o) == {Worst(a) : a \in {x \in {AssetOf(o)} : Full(x) /\ Accepted(o)}}

\* One entry of the queue; an observation that is dropped later is followed all the same.
Follow ==
    /\ queue # <<>>
    /\ LET entry == Head(queue)
           taken == {e \in Offered(entry) : Accepted(Along(entry, e))}
           kept == {Along(entry, e) : e \in taken}
       IN  /\ \E s \in Orders(taken) :
                  queue' = Tail(queue) \o [i \in DOMAIN s |-> Along(entry, s[i])]
           /\ found' = (found \ UNION {Evicted(o) : o \in kept}) \cup kept
           /\ seen' = seen \cup {Along(entry, e) : e \in Offered(entry)}
    /\ UNCHANGED <<market, resolved>>

\* The sum of what f is over S.
SumOver(f, S) == MapThenSumSet(LAMBDA x : f[x], S)

Weight(o) == Max({o.liquidity, 1})
Total(S) == SumOver([o \in S |-> Weight(o)], S)

\* Where the sum of the weights, by price, by hops and from the richest down, first
\* reaches half of all.
Sooner(o, other) ==
    \/ o.price < other.price
    \/ o.price = other.price /\ Hops(o) < Hops(other)
    \/ o.price = other.price /\ Hops(o) = Hops(other) /\ o.liquidity > other.liquidity

WeightedMedian(S) ==
    CHOOSE o \in S :
        LET upTo == {other \in S : ~Sooner(o, other)}
            before == {other \in S : Sooner(other, o)}
        IN  Total(before) < (Total(S) + 1) \div 2 /\ (Total(S) + 1) \div 2 <= Total(upTo)

----------------------------------------------------------------------------
(* resolvePrices. *)

PriceTo24(price) == price * TRUNC
Price24To12(price) == price \div TRUNC

\* Prices and hops of the assets that are priced, and what is reported as not.
Resolution ==
    LET reached == {AssetOf(o) : o \in found}
        selected == [a \in reached |-> WeightedMedian(Of(a))]
        all == [a \in Anchored \cup reached |->
                   IF a \in Anchored THEN [price |-> market.seeds[a], hops |-> 0]
                   ELSE [price |-> Price24To12(selected[a].price), hops |-> Hops(selected[a])]]
    IN  [prices |-> [a \in DOMAIN all \cap Published |-> all[a]],
         unpriced |-> (Published \cap {e.from : e \in Edges}) \ DOMAIN all]

ResolvePrices ==
    /\ queue = <<>> /\ resolved = Unresolved
    /\ resolved' = Resolution
    /\ UNCHANGED <<market, queue, found, seen>>

----------------------------------------------------------------------------
SeedEntry(a) == Entry(<<a>>, PriceTo24(market.seeds[a]), Unbounded)
SeedEntries == {[i \in DOMAIN s |-> SeedEntry(s[i])] : s \in SetToSeqs(Anchored)}

GraphInit ==
    /\ market \in Markets
    /\ queue \in SeedEntries
    /\ found = {} /\ seen = {}
    /\ resolved = Unresolved

GraphNext == Follow \/ ResolvePrices

GraphSpec == GraphInit /\ [][GraphNext]_graphVars

----------------------------------------------------------------------------
(* The same, without the queue: every simple path from a reference price. *)

Paths ==
    {p \in UNION {[1 .. n -> Assets] : n \in 2 .. MAX_HOPS + 1} :
        /\ p[1] \in Anchored
        /\ \A i \in 2 .. Len(p) : p[i] \notin Anchored
        /\ \A i, j \in DOMAIN p : p[i] = p[j] => i = j
        /\ \A i \in 2 .. Len(p) : \E e \in Edges : e.from = p[i - 1] /\ e.to = p[i]}

\* What the price at the start of a path is at every step of it, and the thinnest pool so far.
EdgeOf(a, b) == CHOOSE e \in Edges : e.from = a /\ e.to = b
Walk(p) ==
    LET at[n \in 1 .. Len(p)] ==
            IF n = 1 THEN SeedEntry(p[1]) ELSE Along(at[n - 1], EdgeOf(p[n - 1], p[n]))
    IN  at
AtEnd(p) == Walk(p)[Len(p)]

Observable ==
    {o \in {AtEnd(p) : p \in Paths} : o.price > 0 /\ o.liquidity >= MIN_LIQUIDITY}

\* The lowest price below or at which half of the weight lies.
MedianPrice(S) ==
    Min({q \in {o.price : o \in S} : 2 * Total({o \in S : o.price <= q}) >= Total(S)})

\* The observations of an asset that were made, and the assets with more than are kept.
Made(a) == {o \in seen : AssetOf(o) = a}
Dropped == {a \in Assets : Cardinality(Made(a)) > KEPT}

GraphTypeOK ==
    /\ market \in Markets
    /\ found \subseteq seen /\ seen \subseteq Observable
    /\ \A o \in seen : AssetOf(o) \in Assets \ Anchored /\ Hops(o) \in 1 .. MAX_HOPS
    /\ \A i \in DOMAIN queue : Hops(queue[i]) \in 0 .. MAX_HOPS

\* Reference prices are kept as they are, and every other price is the weighted median of
\* all paths to its asset, in whatever order the pools were given.
PricesExact ==
    \A a \in DOMAIN resolved.prices :
        resolved.prices[a].price =
            IF a \in Anchored THEN market.seeds[a]
            ELSE Price24To12(MedianPrice({o \in Observable : AssetOf(o) = a}))

\* An asset has a price if and only if an observation of it was made; and where nothing
\* was dropped one was made for every path.  (Behind one that was not kept a path may be
\* passed over.)
NoneLost ==
    /\ Published \cap (Anchored \cup {AssetOf(o) : o \in seen}) = DOMAIN resolved.prices
    /\ Dropped = {} => seen = Observable

\* An asset keeps all that were made of it or as many as it may, and none of those it does
\* not keep comes before one it keeps, in whatever order they were made.
RichestKept ==
    \A a \in Assets :
        /\ Cardinality(Of(a)) <= KEPT
        /\ Made(a) # Of(a) => Cardinality(Of(a)) = KEPT
        /\ \A o \in Made(a) \ found, kept \in Of(a) : ~Better(o, kept)

\* The prices of a block are those of its pools (resolvePrices): none is lost, and none is
\* wrong as long as no more paths were found than are kept.
GraphSound ==
    /\ GraphTypeOK /\ RichestKept
    /\ resolved # Unresolved => NoneLost /\ (Dropped = {} => PricesExact)
=============================================================================
