---------------------------- MODULE BlockVolumes ----------------------------
(***************************************************************************)
(* The volumes of a block (blocks/extractVolume.ts, blocks/volumeMath.ts,  *)
(* registry/swapEvents.ts, the end of the loop of indexer.ts).  The same   *)
(* fill is told by different events in different eras, some of them side   *)
(* by side and some with their two amounts the wrong way round; it must be *)
(* counted once, on both its assets and for its trader, at the prices of   *)
(* its own block.                                                          *)
(***************************************************************************)
EXTENDS PriceGraph

CONSTANTS
    Traders,   \* accounts
    Contents   \* what a block may hold: its era and its fills in order

\* The eras in which the events of a fill look different.
Eras == <<"v16", "v19", "v55", "v124", "v128">>
Since(era, first) ==
    \E i, j \in DOMAIN Eras : Eras[i] = first /\ Eras[j] = era /\ i <= j

\* A fill by a pool: the trader fixed what it sells or what it buys.  An intention of the
\* Exchange pallet was filled by the XYK pool in its place; garbled: no codec knows it.
Fills == [who : Traders, in : Assets, out : Assets, paid : Nat, got : Nat,
          pallet : {"XYK", "LBP"}, fixed : {"sell", "buy"}, intention : BOOLEAN, garbled : BOOLEAN]

ASSUME BlockVolumesAssumption ==
    \A b \in Contents :
        /\ Since(b.era, "v16")
        /\ b.fills \in Seq(Fills)
        /\ \A i \in DOMAIN b.fills : b.fills[i].in # b.fills[i].out

VARIABLES
    content,      \* era and fills of the block
    priceRows,    \* rows of prices, by asset
    accountRows   \* rows of trade_volume_by_account

volumeVars == <<content, priceRows, accountRows>>

Unread == [none |-> TRUE]

----------------------------------------------------------------------------
(* What the runtime emits for a fill.  A struct names the assets, a tuple  *)
(* lists the one that was fixed first; the amount that was fixed comes     *)
(* before the price.  LBP.BuyExecuted and an exact-out fill in Broadcast   *)
(* have the two the wrong way round.                                       *)

LegacyEvent(f, era) ==
    LET right == IF f.fixed = "sell" THEN <<f.paid, f.got>> ELSE <<f.got, f.paid>>
        wrong == f.pallet = "LBP" /\ f.fixed = "buy"
    IN  [name |-> "Executed", pallet |-> f.pallet, kind |-> f.fixed, who |-> f.who,
         shape |-> IF f.garbled THEN "?" ELSE IF Since(era, "v55") THEN "struct" ELSE "tuple",
         assets |-> IF Since(era, "v55") \/ f.fixed = "sell" THEN <<f.in, f.out>> ELSE <<f.out, f.in>>,
         amounts |-> IF wrong THEN <<right[2], right[1]>> ELSE right]

BroadcastEvent(f, era) ==
    [name |-> IF Since(era, "v128") THEN "Swapped3" ELSE "Swapped",
     pallet |-> f.pallet, kind |-> f.fixed, who |-> f.who,
     shape |-> IF f.garbled THEN "?" ELSE "lists", assets |-> <<f.in, f.out>>,
     amounts |-> IF f.fixed = "buy" THEN <<f.got, f.paid>> ELSE <<f.paid, f.got>>]

Marker(f, era) == [LegacyEvent(f, era) EXCEPT !.name = "IntentionResolvedAMMTrade"]

EventsOf(f, era) ==
    {LegacyEvent(f, era)}
        \cup (IF Since(era, "v124") THEN {BroadcastEvent(f, era)} ELSE {})
        \cup (IF f.intention /\ ~Since(era, "v124") THEN {Marker(f, era)} ELSE {})

----------------------------------------------------------------------------
(* isSwapEvent and decodeTradeEvent. *)

\* Mutant: the events of the pools go on counting beside those of Broadcast.
IsSwapEventBoth(e, era) ==
    e.name \in {"Executed"} \cup (IF Since(era, "v124") THEN {"Swapped", "Swapped3"} ELSE {})

IsSwapEvent(e, era) ==
    e.name \in IF Since(era, "v124") THEN {"Swapped", "Swapped3"} ELSE {"Executed"}

Trade(e, in, paid, out, got) == [who |-> e.who, in |-> in, paid |-> paid, out |-> out, got |-> got]

FieldsFromStruct(e) ==
    IF e.kind = "sell" THEN Trade(e, e.assets[1], e.amounts[1], e.assets[2], e.amounts[2])
    ELSE Trade(e, e.assets[1], e.amounts[2], e.assets[2], e.amounts[1])

FieldsFromTuple(e) ==
    IF e.kind = "sell" THEN Trade(e, e.assets[1], e.amounts[1], e.assets[2], e.amounts[2])
    ELSE Trade(e, e.assets[2], e.amounts[2], e.assets[1], e.amounts[1])

Inverted(t) == Trade(t, t.in, t.got, t.out, t.paid)

DecodeSwapEvent(e) ==
    LET fields == IF e.shape = "tuple" THEN FieldsFromTuple(e) ELSE FieldsFromStruct(e)
    IN  IF e.pallet = "LBP" /\ e.kind = "buy" THEN Inverted(fields) ELSE fields

CorrectedBroadcastTrade(e) ==
    LET listed == Trade(e, e.assets[1], e.amounts[1], e.assets[2], e.amounts[2])
    IN  IF e.kind = "buy" THEN Inverted(listed) ELSE listed

DecodeTradeEvent(e) == IF e.shape = "lists" THEN CorrectedBroadcastTrade(e) ELSE DecodeSwapEvent(e)

\* The trades of the block, each with the place of its event (of a fill and by a name): an
\* event no codec knows is passed over.
TradesOf(b, i) ==
    {[at |-> <<i, e.name>>, trade |-> DecodeTradeEvent(e)] :
        e \in {x \in EventsOf(b.fills[i], b.era) : IsSwapEvent(x, b.era) /\ x.shape # "?"}}
Trades(b) == UNION {TradesOf(b, i) : i \in DOMAIN b.fills}

----------------------------------------------------------------------------
(* Rows.  A dollar is PRICE_UNIT; a share of the unit is cut off leg by leg. *)

CalculateUsdVolume(amount, a, prices, decimals) ==
    IF a \in DOMAIN prices /\ a \in DOMAIN decimals
    THEN (amount * prices[a].price) \div Scale(decimals[a])
    ELSE 0

\* What a trade adds to the row of an asset.
Leg(t, a, prices, decimals) ==
    [sell |-> IF t.in = a THEN t.paid ELSE 0,
     usdSell |-> IF t.in = a THEN CalculateUsdVolume(t.paid, a, prices, decimals) ELSE 0,
     buy |-> IF t.out = a THEN t.got ELSE 0,
     usdBuy |-> IF t.out = a THEN CalculateUsdVolume(t.got, a, prices, decimals) ELSE 0]

\* A field of all the legs together.
SumVolumeField(field, trades, a, prices, decimals) ==
    SumOver([x \in trades |-> Leg(x.trade, a, prices, decimals)[field]], trades)

VolumeFields == {"sell", "usdSell", "buy", "usdBuy"}
AggregateVolumeRows(trades, a, prices, decimals) ==
    [field \in VolumeFields |-> SumVolumeField(field, trades, a, prices, decimals)]

\* A row for every positive price, with the volumes of the asset where it was traded; the
\* volumes of an asset that has no price are dropped here.
PriceAndVolumeRows(trades, prices, decimals) ==
    [a \in {x \in DOMAIN prices : prices[x].price > 0} |->
        [price |-> prices[a].price, hops |-> prices[a].hops,
         volume |-> AggregateVolumeRows(trades, a, prices, decimals)]]

\* A row for every trader and asset, whether it has a price or not.
AccountVolumeRows(trades, prices, decimals) ==
    LET keys == UNION {{<<x.trade.who, x.trade.in>>, <<x.trade.who, x.trade.out>>} : x \in trades}
        mine(k) == {x \in trades : x.trade.who = k[1] /\ k[2] \in {x.trade.in, x.trade.out}}
    IN  [k \in keys |-> [volume |-> AggregateVolumeRows(mine(k), k[2], prices, decimals),
                          count |-> Cardinality(mine(k))]]

\* The block has its prices: now its trades are read.
MakeRows ==
    /\ resolved # Unresolved /\ content = Unread
    /\ \E b \in Contents :
           /\ content' = b
           /\ priceRows' = PriceAndVolumeRows(Trades(b), resolved.prices, market.decimals)
           /\ accountRows' = AccountVolumeRows(Trades(b), resolved.prices, market.decimals)
    /\ UNCHANGED graphVars

BlockInit == GraphInit /\ content = Unread /\ priceRows = Unread /\ accountRows = Unread

BlockNext ==
    \/ GraphNext /\ UNCHANGED volumeVars
    \/ MakeRows

BlockSpec == BlockInit /\ [][BlockNext]_<<graphVars, volumeVars>>

----------------------------------------------------------------------------
(* What there is to be counted, from the fills themselves. *)

Known == {i \in DOMAIN content.fills : ~content.fills[i].garbled}
Fill(i) == content.fills[i]

Sold(who, a) ==
    SumOver([i \in Known |-> Fill(i).paid], {i \in Known : Fill(i).who \in who /\ Fill(i).in = a})
Bought(who, a) ==
    SumOver([i \in Known |-> Fill(i).got], {i \in Known : Fill(i).who \in who /\ Fill(i).out = a})

\* Every fill is counted once, for what went in and for what came out, with every asset
\* that has a price; and with every trader, whatever the asset.
CountedOnce ==
    /\ \A a \in DOMAIN priceRows :
           priceRows[a].volume.sell = Sold(Traders, a) /\ priceRows[a].volume.buy = Bought(Traders, a)
    /\ \A who \in Traders, a \in Assets :
           LET k == <<who, a>>
               mine == {i \in Known : Fill(i).who = who /\ a \in {Fill(i).in, Fill(i).out}}
           IN  IF mine = {} THEN k \notin DOMAIN accountRows
               ELSE /\ accountRows[k].volume.sell = Sold({who}, a)
                    /\ accountRows[k].volume.buy = Bought({who}, a)
                    /\ accountRows[k].count = Cardinality(mine)

\* The traders of an asset make up its volume in dollars too, to the last digit.
TradersAddUp ==
    \A a \in DOMAIN priceRows :
        LET ofAsset == {k \in DOMAIN accountRows : k[2] = a}
            ofAll(field) == SumOver([k \in ofAsset |-> accountRows[k].volume[field]], ofAsset)
        IN  /\ priceRows[a].volume.usdSell = ofAll("usdSell")
            /\ priceRows[a].volume.usdBuy = ofAll("usdBuy")

\* A volume in dollars is what was sold, at the price of the block; what is cut off is
\* less than a unit per trade.
ValuedAtPrice ==
    \A a \in DOMAIN priceRows :
        LET trades == Cardinality({i \in Known : Fill(i).in = a})
            scale == Scale(market.decimals[a])
            exact == Sold(Traders, a) * priceRows[a].price
        IN  a \in DOMAIN market.decimals =>
                /\ priceRows[a].volume.usdSell * scale <= exact
                /\ exact < (priceRows[a].volume.usdSell + Max({trades, 1})) * scale

VolumesSound == CountedOnce /\ TradersAddUp /\ ValuedAtPrice

\* A block is priced and its trades are counted as its pools and its fills say, whatever
\* its era, the order of its pools and the paths between its assets.  (The rows are made
\* when the prices are known and leave them alone.)
BlockSound == IF content = Unread THEN GraphSound ELSE VolumesSound
=============================================================================
