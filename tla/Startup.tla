------------------------------- MODULE Startup -------------------------------
(***************************************************************************)
(* From settings to running tasks (src/src/setup.rs): the registry, one      *)
(* provider, worker and scanner per chain, the exchanges of each with the    *)
(* Uniswap V4 and Curve pools listed by hand, the price feeds, and the API.  *)
(* `build` spawns the tasks of a chain before it looks at the next one, so   *)
(* they run while the rest starts up; run_once builds all of them first.     *)
(*                                                                         *)
(* A text that is parsed to an address is what it parses to, if anything,    *)
(* and so is the URL of a node. Cadences, sizes, fee tiers and the texts     *)
(* passed on as they are change no step and are left out.                    *)
(***************************************************************************)
EXTENDS Bridge, TLC

CONSTANTS
    SymbolNames,    \* the texts settings may use for a Binance symbol
    Upper,          \* Upper[s]: s in upper case
    Variants,       \* the Curve variants there are
    Terms,          \* fee and tick spacing of a V4 pool
    FactoryPools,   \* the pools of the chains' factories, as amm-rs keys
    SettingsToTry   \* the settings the program may be started with

-----------------------------------------------------------------------------
(* settings.rs *)

Factories == [factory : Option(Addresses)]

V4Pools == [coin0 : Ids, coin1 : Ids, terms : Terms,
            hooks : Option(Option(Addresses))]

UniswapV4Settings == [pool_manager : Option(Addresses), pools : Seq(V4Pools)]

CurvePools == [address : Option(Addresses), variant : Option(Variants),
               coins : Seq(Ids), base_pool : Option(Option(Addresses))]

ChainSettings ==
    [chain_id : ChainNames, rpc_url : BOOLEAN,
     start_assets : Seq(Ids), tracked_tokens : Seq(Ids),
     executor_address : Option(Option(Addresses)),
     execution_slippage_bps : Option(Nat),
     uniswap_v3 : Option(Factories), uniswap_v2 : Option(Factories),
     uniswap_v4 : Option(UniswapV4Settings), curve : Option(Seq(CurvePools)),
     aerodrome_v2 : Option(Factories), aerodrome_slipstream : Option(Factories)]

AssetSettings == [id : Ids, decimals : Nat, binance_symbol : Option(SymbolNames)]

Settings ==
    [api_bind : BOOLEAN, assets : Seq(AssetSettings), chains : Seq(ChainSettings)]

\* What amm-rs finds through factories: its PoolKey has a u16 for the fee.
FactoryKeys ==
    [exchange : {"uniswap_v3", "uniswap_v2", "aerodrome_v2", "aerodrome_slipstream"},
     chain : Nat, address : Seq(Nat), assets : Seq(CoreAssets) \ {<<>>},
     fee : Option(0 .. 2^16 - 1)]

ASSUME StartupAssumption ==
    /\ SettingsToTry \subseteq Settings
    /\ Upper \in [SymbolNames -> SymbolNames]
    /\ FactoryPools \subseteq FactoryKeys

\* asset_registry: an id listed twice keeps its last decimals.
AssetRegistry(assets) ==
    LET last(id) == Max({i \in DOMAIN assets : assets[i].id = id})
    IN  [id \in {asset.id : asset \in ToSet(assets)} |-> assets[last(id)].decimals]

-----------------------------------------------------------------------------
(* The exchanges of a chain. *)

Exchange(id, chain, factory, listed) ==
    <<[id |-> id, chain |-> chain, factory |-> factory, listed |-> listed]>>

\* An exchange whose pools its factory knows, if its address parses.
Deployed(id, chain, block) ==
    IF block = None \/ block[1].factory = None THEN <<>>
    ELSE Exchange(id, chain, block[1].factory, <<>>)

\* A mistake: the currencies stay in the order of the settings.
ResolveV4PoolUnsorted(pool, registry) ==
    IF /\ {pool.coin0, pool.coin1} \subseteq DOMAIN registry
       /\ None \notin {AssetAddress(pool.coin0), AssetAddress(pool.coin1), pool.hooks}
    THEN <<[address |-> <<AssetAddress(pool.coin0)[1], AssetAddress(pool.coin1)[1],
                          pool.terms, 0>>,
            assets |-> <<CoreAsset(pool.coin0), CoreAsset(pool.coin1)>>,
            decimals |-> <<>>]>>
    ELSE None

\* resolve_v4_pool: both coins registered and written as addresses, the hooks'
\* address too; the currencies in the order of their addresses. Nothing asks
\* whether the coins are of the exchange's chain.
ResolveV4Pool(pool, registry) ==
    LET known == {pool.coin0, pool.coin1} \subseteq DOMAIN registry
        addresses == AssetAddress(pool.coin0) \o AssetAddress(pool.coin1)
        hooks == IF pool.hooks = None THEN <<0>> ELSE pool.hooks[1]
        coins == IF addresses[1] < addresses[2] THEN <<pool.coin0, pool.coin1>>
                 ELSE <<pool.coin1, pool.coin0>>
    IN  IF ~known \/ Len(addresses) < 2 \/ hooks = None THEN None
        ELSE <<[address |-> <<AssetAddress(coins[1])[1], AssetAddress(coins[2])[1],
                              pool.terms, hooks[1]>>,
                assets |-> <<CoreAsset(coins[1]), CoreAsset(coins[2])>>,
                decimals |-> <<>>]>>

\* A mistake: one pool that does not resolve ends the listing.
BuildUniswapV4OrNone(chain, block, registry) ==
    IF block = None \/ block[1].pool_manager = None THEN <<>>
    ELSE LET resolved == [i \in DOMAIN block[1].pools |->
                             ResolveV4Pool(block[1].pools[i], registry)]
         IN  IF resolved = <<>> \/ None \in ToSet(resolved) THEN <<>>
             ELSE Exchange("uniswap_v4", chain, None, FlattenSeq(resolved))

\* build_uniswap_v4: no exchange without a manager, or without a pool.
BuildUniswapV4(chain, block, registry) ==
    IF block = None \/ block[1].pool_manager = None THEN <<>>
    ELSE LET pools == FlattenSeq([i \in DOMAIN block[1].pools |->
                                    ResolveV4Pool(block[1].pools[i], registry)])
         IN  IF pools = <<>> THEN <<>>
             ELSE Exchange("uniswap_v4", chain, None, pools)

\* resolve_coins: every coin is in the registry.
ResolveCoins(ids, registry) ==
    IF ToSet(ids) \subseteq DOMAIN registry
    THEN <<[coins |-> [i \in DOMAIN ids |-> CoreAsset(ids[i])],
            decimals |-> [i \in DOMAIN ids |-> registry[ids[i]]]]>>
    ELSE None

\* The loop body of build_curve.
ResolveCurvePool(pool, registry) ==
    LET resolved == ResolveCoins(pool.coins, registry)
    IN  IF \/ pool.address = None \/ pool.variant = None \/ resolved = None
           \/ pool.base_pool = <<None>>
        THEN None
        ELSE <<[address |-> pool.address, assets |-> resolved[1].coins,
                decimals |-> resolved[1].decimals]>>

\* build_curve.
BuildCurve(chain, block, registry) ==
    LET pools == IF block = None THEN <<>>
                 ELSE FlattenSeq([i \in DOMAIN block[1] |->
                                    ResolveCurvePool(block[1][i], registry)])
    IN  IF pools = <<>> THEN <<>> ELSE Exchange("curve", chain, None, pools)

\* build_exchanges.
BuildExchanges(c, registry, provider) ==
    LET chain == c.chain_id
    IN  IF provider = None THEN <<>>
        ELSE Deployed("uniswap_v3", chain, c.uniswap_v3)
             \o Deployed("uniswap_v2", chain, c.uniswap_v2)
             \o BuildUniswapV4(chain, c.uniswap_v4, registry)
             \o BuildCurve(chain, c.curve, registry)
             \o Deployed("aerodrome_v2", chain, c.aerodrome_v2)
             \o Deployed("aerodrome_slipstream", chain, c.aerodrome_slipstream)

\* build_executor: only where an address is set and amm-rs knows the chain.
BuildExecutor(c) ==
    IF \/ c.executor_address \in {None, <<None>>}
       \/ c.chain_id \notin {"ethereum", "base"}
    THEN None
    ELSE <<[sender |-> c.executor_address[1][1],
            slippage |-> IF c.execution_slippage_bps = None THEN 30
                         ELSE c.execution_slippage_bps[1]]>>

-----------------------------------------------------------------------------
(* The start. *)

VARIABLES
    settings,   \* what the program is started with
    mode,       \* "serve" or "once", by the command line
    pc,         \* where the start is
    turn,       \* the chain entry that is built next
    services,   \* registry, providers, chains and the feeds' assets
    workers,    \* what each sync worker was built with, in order
    published   \* published[c]: the pools of the store's snapshot of chain c

vars == <<settings, mode, pc, turn, services, workers, published>>

NoServices ==
    [registry |-> None, providers |-> None, chains |-> <<>>,
     price_ids |-> {}, symbols |-> None]

Init ==
    /\ settings \in SettingsToTry
    /\ mode \in {"serve", "once"}
    /\ pc = "services"
    /\ turn = 1
    /\ services = NoServices
    /\ workers = <<>>
    /\ published = None

\* A provider is the entry it was made for; of two of one name the last is kept.
Providers(chains) ==
    LET usable == {i \in DOMAIN chains : chains[i].rpc_url}
        last(name) == Max({i \in usable : chains[i].chain_id = name})
    IN  [name \in {chains[i].chain_id : i \in usable} |-> last(name)]

\* A mistake: a chain is listed before its provider is built.
BuildProvidersEagerly(chains) ==
    [providers |-> Providers(chains),
     chains |-> [i \in DOMAIN chains |-> chains[i].chain_id]]

\* build_providers: a chain whose provider cannot be built is not served.
BuildProviders(chains) ==
    [providers |-> Providers(chains),
     chains |-> FlattenSeq([i \in DOMAIN chains |->
                    IF chains[i].rpc_url THEN <<chains[i].chain_id>> ELSE <<>>])]

\* A mistake: symbols are told apart by their case.
BinanceSymbolsAsWritten(assets) ==
    LET named == SelectSeq(assets, LAMBDA asset : asset.binance_symbol # None)
    IN  [s \in {named[i].binance_symbol[1] : i \in DOMAIN named} |->
            {a.id : a \in {b \in ToSet(named) : b.binance_symbol[1] = s}}]

\* build_valuation: the assets of each stream, by symbol in upper case.
BinanceSymbols(assets) ==
    LET named == {asset \in ToSet(assets) : asset.binance_symbol # None}
        symbol(asset) == Upper[asset.binance_symbol[1]]
    IN  [s \in {symbol(asset) : asset \in named} |->
            {asset.id : asset \in {other \in named : symbol(other) = s}}]

\* build_services: a malformed id among the assets ends the start.
BuildServices ==
    LET ids == {asset.id : asset \in ToSet(settings.assets)}
        built == BuildProviders(settings.chains)
    IN  /\ pc = "services"
        /\ IF \A id \in ids : Valid(id)
           THEN /\ pc' = "chains"
                /\ services' = [registry |-> AssetRegistry(settings.assets),
                                providers |-> built.providers,
                                chains |-> built.chains,
                                price_ids |-> ids,
                                symbols |-> BinanceSymbols(settings.assets)]
                /\ published' = [c \in ToSet(built.chains) |-> {}]
           ELSE pc' = "failed" /\ UNCHANGED <<services, published>>
        /\ UNCHANGED <<settings, mode, turn, workers>>

\* A mistake: malformed ids are passed over.
ParseAssetsLoosely(ids) == <<ids>>

\* parse_assets: all of them, or an error.
ParseAssets(ids) == IF \A i \in DOMAIN ids : Valid(ids[i]) THEN <<ids>> ELSE None

\* build_chain.
BuildChain(c) ==
    LET tracked == ParseAssets(c.tracked_tokens)
        starts == ParseAssets(c.start_assets)
        provider == IF c.chain_id \in DOMAIN services.providers
                    THEN <<services.providers[c.chain_id]>> ELSE None
    IN  IF None \in {tracked, starts} THEN None
        ELSE <<[entry |-> turn, chain |-> c.chain_id,
                provider |-> provider,
                exchanges |-> BuildExchanges(c, services.registry, provider),
                tracked_tokens |-> tracked[1], start_assets |-> starts[1],
                executor |-> BuildExecutor(c)]>>

\* One turn of the loop over the chains: skipped without a provider, else its
\* worker and scanner are built and, when serving, spawned; an error ends the
\* process, and the tasks spawned before with it.
StartChain ==
    LET c == settings.chains[turn]
        built == BuildChain(c)
    IN  /\ pc = "chains"
        /\ turn <= Len(settings.chains)
        /\ IF c.chain_id \in ToSet(services.chains)
           THEN /\ workers' = workers \o built
                /\ pc' = IF built = None THEN "failed" ELSE pc
           ELSE UNCHANGED <<workers, pc>>
        /\ turn' = turn + 1
        /\ UNCHANGED <<settings, mode, services, published>>

\* api::serve binds the socket, or fails to; run_once goes on to its wait.
Serve ==
    /\ pc = "chains"
    /\ turn > Len(settings.chains)
    /\ pc' = CASE mode = "once" -> "warming"
               [] mode = "serve" /\ settings.api_bind -> "serving"
               [] OTHER -> "failed"
    /\ UNCHANGED <<settings, mode, turn, services, workers, published>>

-----------------------------------------------------------------------------
(* The tick of a worker that runs, end to end; PoolSync has its steps. *)

\* StateSource::discover: the pools listed, or those of the factory whose
\* assets are all tracked.
SourceDiscover(xch, number, tokens) ==
    IF xch.factory = None
    THEN {[exchange |-> xch.id, chain |-> number, address |-> pool.address,
           assets |-> pool.assets, fee |-> None] : pool \in ToSet(xch.listed)}
    ELSE {key \in FactoryPools :
            /\ key.exchange = xch.id /\ key.chain = number
            /\ ToSet(key.assets) \subseteq tokens}

\* StateSource::refresh: the pools of the keys.
SourceRefresh(keys) == {[id |-> key.address, assets |-> key.assets] : key \in keys}

\* What discover answers for an exchange of worker w.
Discovered(w, xch) ==
    LET tokens == {CoreAsset(id) : id \in ToSet(w.tracked_tokens)}
    IN  {ToArbKey(xch, key) :
            key \in SourceDiscover(xch, ChainNumber(w.chain), tokens)}

\* What refresh answers for those keys.
Refreshed(w, xch) ==
    {ArbPool(xch.chain, pool) :
        pool \in SourceRefresh({ToCoreKey(key) : key \in Discovered(w, xch)})}

Running == pc \in {"warming", "serving"} \/ (mode = "serve" /\ pc = "chains")

\* Worker w syncs: what the exchanges that answer have refreshed replaces what
\* its chain's slot held.
SyncTick(w) ==
    /\ Running
    /\ \E answered \in SUBSET ToSet(w.exchanges) :
        published' = [published EXCEPT ![w.chain] =
                        UNION {Refreshed(w, xch) : xch \in answered}]
    /\ UNCHANGED <<settings, mode, pc, turn, services, workers>>

Next ==
    \/ BuildServices \/ StartChain \/ Serve
    \/ \E i \in DOMAIN workers : SyncTick(workers[i])

Spec == Init /\ [][Next]_vars

-----------------------------------------------------------------------------
(* Properties. *)

\* Whatever the settings hold, an id that a registry, a worker, a scanner or a
\* published pool carries has its two parts, and a snapshot is published only
\* for a chain that is served.
StartTypeOK ==
    /\ pc \in {"services", "chains", "warming", "serving", "failed"}
    /\ turn \in 1 .. Len(settings.chains) + 1
    /\ DOMAIN services.registry \subseteq AssetIds
    /\ \A w \in ToSet(workers) :
        ToSet(w.tracked_tokens) \cup ToSet(w.start_assets) \subseteq AssetIds
    /\ DOMAIN published = ToSet(services.chains)
    /\ \A c \in DOMAIN published : \A pool \in published[c] :
        ToSet(pool.assets) \subseteq AssetIds

\* Some node of that name can be reached for this entry.
Served(c) ==
    \E other \in ToSet(settings.chains) : other.chain_id = c.chain_id /\ other.rpc_url

\* An asset's id, or one that a served chain tracks or starts from, is
\* malformed.
Malformed ==
    \/ \E asset \in ToSet(settings.assets) : ~Valid(asset.id)
    \/ \E c \in ToSet(settings.chains) :
        /\ Served(c)
        /\ ~(ToSet(c.tracked_tokens \o c.start_assets) \subseteq AssetIds)

\* The start fails for a malformed id, in whichever entry, or for a socket that
\* cannot be bound, and for nothing else: no node, factory, pool table or
\* executor can end it ("A chain whose provider cannot be built is logged and
\* skipped", "Pools that don't resolve are skipped"). And it never goes through
\* with a malformed id, however far the loop over the chains has come.
FailsOnlyOnIds ==
    /\ pc = "failed" => Malformed \/ (mode = "serve" /\ ~settings.api_bind)
    /\ pc \in {"warming", "serving"} => ~Malformed

\* What exchanges read: their factories, and each pool listed.
Offers(exchanges) ==
    UNION {{[id |-> xch.id, factory |-> xch.factory, pool |-> pool] :
                pool \in IF xch.factory = None THEN ToSet(xch.listed) ELSE {None}} :
            xch \in ToSet(exchanges)}

\* The entry c with no exchange, and with one factory or listed pool each.
Bare(c) ==
    [c EXCEPT !.uniswap_v3 = None, !.uniswap_v2 = None, !.uniswap_v4 = None,
              !.curve = None, !.aerodrome_v2 = None, !.aerodrome_slipstream = None]

FactoryBlocks == {"uniswap_v3", "uniswap_v2", "aerodrome_v2", "aerodrome_slipstream"}

WithFactory(c, block) == [Bare(c) EXCEPT ![block] = c[block]]
WithV4Pool(c, v4, pool) == [Bare(c) EXCEPT !.uniswap_v4 = <<[v4 EXCEPT !.pools = <<pool>>]>>]
WithCurvePool(c, pool) == [Bare(c) EXCEPT !.curve = << <<pool>> >>]

FactorySingles(c) == {WithFactory(c, block) : block \in FactoryBlocks}
V4Singles(c) ==
    UNION {{WithV4Pool(c, v4, pool) : pool \in ToSet(v4.pools)} : v4 \in ToSet(c.uniswap_v4)}
CurveSingles(c) ==
    UNION {{WithCurvePool(c, pool) : pool \in ToSet(curve)} : curve \in ToSet(c.curve)}

Singles(c) == FactorySingles(c) \cup V4Singles(c) \cup CurveSingles(c)

\* A bad entry costs only itself: a worker reads the very factories and pools
\* that each entry of its chain would give if it stood there alone.
EntriesStandAlone ==
    \A w \in ToSet(workers) :
        Offers(w.exchanges) =
            UNION {Offers(BuildExchanges(single, services.registry, w.provider)) :
                    single \in Singles(settings.chains[w.entry])}

\* "order does not matter - currencies are sorted by address before the id is
\* derived" (settings.rs): a V4 pool is the same with its coins swapped.
CoinOrderIsFree ==
    \A w \in ToSet(workers) : \A v4 \in ToSet(settings.chains[w.entry].uniswap_v4) :
        \A pool \in ToSet(v4.pools) :
            AssetAddress(pool.coin0) # AssetAddress(pool.coin1) =>
                ResolveV4Pool(pool, services.registry) =
                    ResolveV4Pool([pool EXCEPT !.coin0 = pool.coin1,
                                               !.coin1 = pool.coin0],
                                  services.registry)

\* Where no name is used for two entries.
NamesAreDistinct ==
    \A i, j \in DOMAIN settings.chains :
        settings.chains[i].chain_id = settings.chains[j].chain_id => i = j

\* The chains the API lists are those that have a node to be read from and a
\* worker to sync them; and each slot of the store has one writer, which reads
\* the node of its own entry, if no two entries share a name. PoolSync and
\* Pipeline rest on that; nothing in the code sees to the names.
OneWorkerPerServedChain ==
    pc \in {"warming", "serving"} =>
        /\ {w.chain : w \in ToSet(workers)} = ToSet(services.chains)
        /\ DOMAIN services.providers = ToSet(services.chains)
        /\ NamesAreDistinct =>
            /\ \A w \in ToSet(workers) : w.provider = <<w.entry>>
            /\ \A i, j \in DOMAIN workers :
                workers[i].chain = workers[j].chain => i = j

\* The poller asks for the very assets the registry knows, and assets of one
\* Binance symbol, however each is written, hang on one stream: Evaluation and
\* PriceFeeds rest on that.
OneFeedPerSymbol ==
    /\ services.price_ids = DOMAIN services.registry
    /\ services # NoServices =>
        \A a, b \in {asset \in ToSet(settings.assets) : asset.binance_symbol # None} :
            Upper[a.binance_symbol[1]] = Upper[b.binance_symbol[1]] =>
                \E s \in DOMAIN services.symbols : {a.id, b.id} \subseteq services.symbols[s]

\* An id as Settings.example.toml asks for: lower-case hex, of chain c.
Lowercase(c, id) ==
    id.chain = c /\ AssetAddress(id) # None /\ id.token = Lower[AssetAddress(id)[1]]

\* The pools that entry c lists, and their coins.
V4PoolsOf(c) == UNION {ToSet(v4.pools) : v4 \in ToSet(c.uniswap_v4)}
CurvePoolsOf(c) == UNION {ToSet(curve) : curve \in ToSet(c.curve)}
V4CoinsOf(c) == UNION {{pool.coin0, pool.coin1} : pool \in V4PoolsOf(c)}
CurveCoinsOf(c) == UNION {ToSet(pool.coins) : pool \in CurvePoolsOf(c)}

\* Every id a worker's exchanges were given is such an id, and every pool listed
\* has coins.
Conforms(w) ==
    LET c == settings.chains[w.entry]
    IN  /\ \A id \in ToSet(w.tracked_tokens) \cup V4CoinsOf(c) \cup CurveCoinsOf(c) :
                c.chain_id # "" /\ Lowercase(c.chain_id, id)
        /\ \A pool \in CurvePoolsOf(c) : pool.coins # <<>>

WorkersOf(chain) == {w \in ToSet(workers) : w.chain = chain}
TrackedOn(chain) == UNION {ToSet(w.tracked_tokens) : w \in WorkersOf(chain)}

\* "arb-router compares asset ids byte-for-byte" (amm_rpc.rs): where the
\* settings keep to lower case, every asset of a published pool comes back from
\* amm-rs as an id that is tracked or registered, byte for byte, so the search
\* and the prices meet it; and the decimals a Curve pool computes with are the
\* registry's for the id it is published under.
PublishedIsKnown ==
    \A chain \in DOMAIN published :
        (\A w \in WorkersOf(chain) : Conforms(w)) =>
            /\ \A pool \in published[chain] :
                /\ pool.assets # <<>>
                /\ ToSet(pool.assets) \subseteq TrackedOn(chain) \cup DOMAIN services.registry
            /\ \A w \in WorkersOf(chain) : \A xch \in ToSet(w.exchanges) :
                \A pool \in ToSet(xch.listed) : \A i \in DOMAIN pool.decimals :
                    LET id == ArbAsset(chain, pool.assets[i])[1]
                    IN  /\ id \in DOMAIN services.registry
                        /\ services.registry[id] = pool.decimals[i]

\* What discover found is what refresh is asked for: a key of amm-rs survives
\* the way through this program's names and back, so that no pool is lost or
\* read as another.
KeysSurvive ==
    \A w \in ToSet(workers) : Conforms(w) =>
        \A xch \in ToSet(w.exchanges) :
            LET tokens == {CoreAsset(id) : id \in ToSet(w.tracked_tokens)}
                keys == SourceDiscover(xch, ChainNumber(w.chain), tokens)
            IN  \A key \in keys : ToCoreKey(ToArbKey(xch, key)) = key
=============================================================================
