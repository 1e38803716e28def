------------------------------ MODULE MCStartup ------------------------------
(* Settings that are right, wrong in every way, or both in different       *)
(* entries, for TLC.                                                       *)
EXTENDS Startup

MCAddressOf ==
    [t \in TokenNames |->
        CASE t \in {"0xa", "0xA"} -> <<1>> [] t = "0xb" -> <<2>> [] t = "0xc" -> <<3>>
          [] t = "0x0" -> <<0>> [] OTHER -> None]

MCLower == [a \in Addresses |-> <<"0x0", "0xa", "0xb", "0xc">>[a + 1]]

MCHash ==
    [t \in TokenNames |->
        CASE t = "0xa" -> 22 [] t = "0xb" -> 23 [] t = "usdc" -> 9 [] OTHER -> 10]

MCFnv == [c \in ChainNames |-> IF c = "degen" THEN 7 ELSE 5]

MCUpper == [s \in SymbolNames |-> "ETHUSDT"]

Id(chain, token) == [chain |-> chain, token |-> token]
EthA == Id("ethereum", "0xa")
EthB == Id("ethereum", "0xb")

Asset(id, decimals, symbol) == [id |-> id, decimals |-> decimals, binance_symbol |-> symbol]

GoodAssets ==
    <<Asset(EthA, 6, <<"ETHUSDT">>), Asset(EthB, 18, None),
      Asset(Id("base", "0xa"), 8, <<"ethusdt">>),
      Asset(Id("base", "0xc"), 8, None), Asset(EthA, 7, <<"ETHUSDT">>)>>

AssetLists ==
    {GoodAssets,
     Append(GoodAssets, Asset(Id("ethereum", ""), 6, None)),
     Append(GoodAssets, Asset(Id("ethereum", "0xA"), 9, <<"ethusdt">>)),
     Append(GoodAssets, Asset(Id("ethereum", "usdc"), 9, None))}

Key(xch, name, address, assets, fee) ==
    [exchange |-> xch, chain |-> ChainNumber(name), address |-> address, fee |-> fee,
     assets |-> [i \in DOMAIN assets |->
                    [chain |-> ChainNumber(name), slot |-> assets[i]]]]

MCFactoryPools ==
    {Key("uniswap_v3", "ethereum", <<1>>, <<1, 2>>, <<30>>),
     Key("uniswap_v2", "ethereum", <<2>>, <<1, 2>>, None),
     Key("uniswap_v2", "ethereum", <<3>>, <<1, 3>>, None),
     Key("aerodrome_v2", "base", <<4>>, <<1, 3>>, None),
     Key("uniswap_v2", "degen", <<5>>, <<1, 2>>, None)}

Bad == <<[factory |-> None]>>
Good == <<[factory |-> <<3>>]>>

Chain(name, rpc, tracked) ==
    [chain_id |-> name, rpc_url |-> rpc, start_assets |-> <<Head(tracked)>>,
     tracked_tokens |-> tracked, executor_address |-> <<<<2>>>>,
     execution_slippage_bps |-> None,
     uniswap_v3 |-> Bad, uniswap_v2 |-> Good, uniswap_v4 |-> None, curve |-> None,
     aerodrome_v2 |-> None, aerodrome_slipstream |-> None]

\* Which chains start: with and without a node, with good and malformed ids,
\* with names that are unknown, empty or used twice.
Entries ==
    {Chain("ethereum", rpc, <<EthA, EthB>>) : rpc \in BOOLEAN}
    \cup {[Chain("base", TRUE, <<Id("base", "0xa"), Id("base", "0xc")>>) EXCEPT
            !.aerodrome_v2 = Good, !.uniswap_v2 = None],
          [Chain("base", TRUE, <<Id("base", "0xa")>>) EXCEPT !.start_assets = <<Id("base", "")>>],
          Chain("degen", TRUE, <<Id("degen", "0xa"), Id("degen", "0xb")>>),
          Chain("degen", FALSE, <<Id("", "0xa")>>),
          Chain("", TRUE, <<EthA>>)}

Starts ==
    {[api_bind |-> bind, assets |-> assets, chains |-> chains] :
        bind \in BOOLEAN, assets \in AssetLists,
        chains \in {<<a>> : a \in Entries} \cup {<<a, b>> : a \in Entries, b \in Entries}}

\* Which pools are listed: good ones, in both orders of their coins, and ones
\* with an unknown, unregistered, hashed, mixed-case or foreign coin, with bad
\* hooks, address, variant or base pool, or with no coins.
V4Coins ==
    {<<EthA, EthB>>, <<EthB, EthA>>, <<EthA, Id("ethereum", "0xc")>>,
     <<Id("ethereum", "0xA"), EthB>>, <<EthA, Id("ethereum", "usdc")>>,
     <<EthB, Id("base", "0xc")>>, <<EthA, Id("ethereum", "")>>}

MCV4Pools ==
    {[coin0 |-> coins[1], coin1 |-> coins[2], terms |-> 1, hooks |-> None] :
        coins \in V4Coins}
    \cup {[coin0 |-> EthA, coin1 |-> EthB, terms |-> 1, hooks |-> <<hooks>>] :
        hooks \in {None, <<2>>}}

CurvePool(address, coins) ==
    [address |-> address, variant |-> <<1>>, coins |-> coins, base_pool |-> None]

MCCurvePools ==
    {CurvePool(<<1>>, <<EthA, EthB>>), CurvePool(None, <<EthA, EthB>>),
     CurvePool(<<2>>, <<>>),
     CurvePool(<<2>>, <<EthB, Id("ethereum", "0xc")>>),
     [CurvePool(<<3>>, <<EthB, EthA>>) EXCEPT !.base_pool = <<None>>],
     [CurvePool(<<3>>, <<EthB, EthA>>) EXCEPT !.variant = None]}

Lists(n, S) == UNION {[1 .. m -> S] : m \in 0 .. n}

Tables ==
    {[api_bind |-> TRUE, assets |-> assets,
      chains |-> <<[Chain("ethereum", TRUE, <<EthA, EthB>>) EXCEPT
                        !.uniswap_v2 = None, !.uniswap_v3 = Good,
                        !.uniswap_v4 = <<[pool_manager |-> manager, pools |-> v4]>>,
                        !.curve = curve]>>] :
        assets \in AssetLists, manager \in {None, <<1>>}, v4 \in Lists(2, MCV4Pools),
        curve \in {None} \cup {<<pools>> : pools \in {<<>>} \cup
                    {<<CurvePool(<<1>>, <<EthA, EthB>>), p>> : p \in MCCurvePools}}}

MCSettings == Starts \cup Tables
=============================================================================
