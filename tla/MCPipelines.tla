---------------------------- MODULE MCPipelines ----------------------------
(***************************************************************************)
(* RawBalances, AssetTable and BlockVolumes for TLC.  The extraction of    *)
(* balances, the table of assets and the volumes of one block share no     *)
(* state, so a behaviour is that of one of them.                           *)
(***************************************************************************)
EXTENDS RawBalances, AssetTable, BlockVolumes

VARIABLE machine

volumesOf == <<graphVars, volumeVars>>
all == <<balanceVars, assetVars, volumesOf, machine>>

----------------------------------------------------------------------------
(* Balances that exist before the first block, and two blocks. *)

AtGenesis == {<<"a", "0">>, <<"a", "5">>}

Item(via, who, assets, moves, ends) ==
    [via |-> via, who |-> who, assets |-> assets, moves |-> moves, ends |-> ends]

\* A transfer of the native asset with one of a token; a token account that is killed,
\* a balance that the root origin sets, and one that nothing tells of.
TwoBodies == {
    {Item("Balances", {"a", "b"}, {}, {<<"a", "0">>, <<"b", "0">>}, {}),
     Item("Tokens", {"b"}, {}, {<<"b", "5">>}, {})},
    {Item("Tokens", {"a"}, {"5"}, {<<"a", "5">>}, {<<"a", "5">>}),
     Item("set_storage", {"b"}, {"0"}, {<<"b", "0">>}, {}),
     Item("other", {}, {}, {<<"b", "5">>}, {})}}

----------------------------------------------------------------------------
(* Two assets, and the native one is registered like any other, with other labels than *)
(* the chain properties have.  A location changes when a read of it fails.             *)

MCEntries == {[labels |-> 2, place |-> 1]}
MCInterval == [head |-> 2, archive |-> 3]

----------------------------------------------------------------------------
(* A pair of assets has a pool of some reserves or none; there are five pools at most. *)

Couples == {<<"K", "B">>, <<"K", "X">>, <<"K", "Y">>, <<"B", "X">>, <<"B", "Y">>, <<"X", "Y">>}
Holdings == {<<0, 3>>, <<20, 30>>, <<40, 7>>}
NoPool == <<"none">>
MaxPools == 5
PoolSets ==
    {{[a |-> q[1], b |-> q[2], ra |-> f[q][1], rb |-> f[q][2]] : q \in S} :
        S \in {T \in SUBSET Couples : Cardinality(T) <= MaxPools}, f \in [Couples -> Holdings]}
\* Once all decimals are known, once those of X are not.
Digits == {[K |-> 1, B |-> 1, X |-> 2, Y |-> 1], [K |-> 1, B |-> 0, Y |-> 2]}
MCMarkets == [pools : PoolSets, decimals : Digits, seeds : {[K |-> 3]}]

Swap(who, in, paid, out, got, pallet, fixed) ==
    [who |-> who, in |-> in, out |-> out, paid |-> paid, got |-> got, pallet |-> pallet,
     fixed |-> fixed, intention |-> FALSE, garbled |-> FALSE]
Intended(fill) == [fill EXCEPT !.intention = TRUE]
Garbled(fill) == [fill EXCEPT !.garbled = TRUE]

FillLists == {
    <<Swap("a", "K", 7, "B", 19, "XYK", "sell"), Swap("b", "B", 5, "K", 3, "XYK", "buy")>>,
    <<Intended(Swap("a", "K", 7, "B", 19, "XYK", "sell")),
      Swap("a", "B", 4, "X", 9, "LBP", "buy"), Swap("b", "K", 8, "X", 1, "LBP", "sell")>>,
    <<Swap("a", "Y", 5, "X", 6, "LBP", "buy"),
      Garbled(Swap("b", "K", 7, "B", 19, "XYK", "buy")),
      Swap("b", "X", 6, "Y", 5, "XYK", "sell")>>}
MCContents == [era : {"v16", "v19", "v55", "v124", "v128"}, fills : FillLists]

----------------------------------------------------------------------------
(* The machines that are not the one of the behaviour rest in one state. *)

Quiet == CHOOSE body \in Bodies : TRUE
NoBalances ==
    /\ branch = [h \in 1 .. LiveStart - 1 |-> [fork |-> 0, body |-> Quiet]]
    /\ rows = {} /\ warnings = {}
    /\ rawBlocks = [h \in 1 .. LastBlock |-> NoFork]
    /\ mark = [p \in Pipelines |-> [height |-> First(p) - 1, fork |-> 0]]
    /\ job = [p \in Pipelines |-> Idle]
    /\ pass = NoSeed /\ seeded = {}
    /\ used = [forks |-> 0, seeds |-> 0, losses |-> 0]

NoMarket == [pools |-> {}, decimals |-> [K |-> 1, B |-> 1, X |-> 2, Y |-> 1], seeds |-> [K |-> 3]]
NoVolumes ==
    /\ market = NoMarket /\ queue = <<>> /\ found = {} /\ seen = {} /\ resolved = Unresolved
    /\ content = Unread /\ priceRows = Unread /\ accountRows = Unread

AllInit ==
    \/ machine = "balances" /\ BalanceInit /\ AssetInit /\ NoVolumes
    \/ machine = "assets" /\ NoBalances /\ AssetInit /\ NoVolumes
    \/ machine = "volumes" /\ NoBalances /\ AssetInit /\ BlockInit

Balances == machine = "balances" /\ UNCHANGED <<assetVars, volumesOf, machine>>
Registry == machine = "assets" /\ UNCHANGED <<balanceVars, volumesOf, machine>>
Volumes == machine = "volumes" /\ UNCHANGED <<balanceVars, assetVars, machine>>

AllNext ==
    \/ \E body \in Bodies : Balances /\ Grow(body)
    \/ \E body \in Bodies, h \in 1 .. LastBlock : Balances /\ Replace(h, body)
    \/ \E p \in Pipelines : Balances /\ Extract(p)
    \/ \E p \in Pipelines : Balances /\ InsertBlock(p)
    \/ \E p \in Pipelines : Balances /\ InsertChunk(p)
    \/ \E p \in Pipelines : Balances /\ InsertWarnings(p)
    \/ \E p \in Pipelines : Balances /\ SaveMark(p)
    \/ \E p \in Pipelines : Balances /\ Dies(p)
    \/ Balances /\ Heal
    \/ Balances /\ SeedStart
    \/ Balances /\ SeedPage
    \/ Balances /\ SeedDies
    \/ Registry /\ QuietBlock
    \/ \E a \in AssetIds, entry \in Entries, told \in BOOLEAN : Registry /\ Registers(a, entry, told)
    \/ Registry /\ SnapshotBlock
    \/ Registry /\ NodeBlock
    \/ Registry /\ InsertAssets
    \/ Registry /\ SaveHeight
    \/ Registry /\ FollowerDies
    \/ \E from, to \in 1 .. LastHeight : Registry /\ from <= to /\ PublishRange(from, to)
    \/ Volumes /\ Follow /\ UNCHANGED volumeVars
    \/ Volumes /\ ResolvePrices /\ UNCHANGED volumeVars
    \/ Volumes /\ MakeRows

AllSpec == AllInit /\ [][AllNext]_all
=============================================================================
