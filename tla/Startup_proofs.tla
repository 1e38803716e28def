---------------------------- MODULE Startup_proofs ----------------------------
(***************************************************************************)
(* Proofs about the start, for any settings, names, addresses and factory   *)
(* pools, and about the ids that go through amm-rs and back.                *)
(***************************************************************************)
EXTENDS Startup, Recursion

-----------------------------------------------------------------------------
(* Sequences. *)

LEMMA SeqHas ==
  ASSUME NEW T, NEW s \in Seq(T)
  PROVE  /\ Len(s) \in Nat /\ DOMAIN s = 1 .. Len(s)
         /\ \A i \in DOMAIN s : s[i] \in T
         /\ ToSet(s) \subseteq T
<1>1. Len(s) \in Nat /\ DOMAIN s = 1 .. Len(s)
  OBVIOUS
<1>2. \A i \in DOMAIN s : s[i] \in T
  OBVIOUS
<1> QED
  BY <1>1, <1>2 DEF ToSet

LEMMA SeqIs ==
  ASSUME NEW T, NEW n \in Nat, NEW f \in [1 .. n -> T]
  PROVE  f \in Seq(T) /\ Len(f) = n
OBVIOUS

LEMMA SeqOfOne ==
  ASSUME NEW T, NEW x \in T
  PROVE  /\ <<x>> \in Seq(T) /\ Len(<<x>>) = 1 /\ <<x>>[1] = x
         /\ ToSet(<<x>>) = {x}
<1>1. <<x>> \in Seq(T) /\ DOMAIN <<x>> = 1 .. 1 /\ Len(<<x>>) = 1
  OBVIOUS
<1>2. <<x>>[1] = x
  OBVIOUS
<1>3. DOMAIN <<x>> = {1}
  BY <1>1
<1> QED
  BY <1>1, <1>2, <1>3 DEF ToSet

LEMMA SeqOfNone ==
  ASSUME NEW T
  PROVE  <<>> \in Seq(T) /\ Len(<<>>) = 0 /\ DOMAIN <<>> = {} /\ ToSet(<<>>) = {}
<1>1. DOMAIN <<>> = {}
  OBVIOUS
<1> QED
  BY <1>1 DEF ToSet

-----------------------------------------------------------------------------
(* Ids through amm-rs and back. *)

LEMMA Remainders ==
  ASSUME NEW n \in Nat \ {0}
  PROVE  /\ \A x \in Nat : x % n \in 0 .. n - 1
         /\ \A x \in 0 .. n - 1 : x % n = x
OBVIOUS

LEMMA AddressesAreNumbers ==
  /\ Addresses \subseteq Nat
  /\ \A x \in Nat : x % AddressSpace \in Addresses
  /\ \A a \in Addresses : a % AddressSpace = a
<1>1. AddressSpace \in Nat \ {0}
  BY BridgeAssumption
<1> QED
  BY <1>1, Remainders DEF Addresses

LEMMA ChainNumberIsNat ==
  ASSUME NEW name \in ChainNames
  PROVE  ChainNumber(name) \in Nat
<1>1. CASE name \in DOMAIN KnownChains
  BY <1>1 DEF ChainNumber, KnownChains
<1>2. CASE name \notin DOMAIN KnownChains
  BY <1>2, BridgeAssumption DEF ChainNumber
<1> QED
  BY <1>1, <1>2

\* A text is an address, or none.
LEMMA AddressOption ==
  ASSUME NEW id \in Ids
  PROVE  \/ AssetAddress(id) = None
         \/ \E a \in Addresses : AssetAddress(id) = <<a>> /\ AssetAddress(id)[1] = a
<1>1. AddressOf[id.token] \in Option(Addresses)
  BY BridgeAssumption DEF Ids
<1>2. \A s \in [1 .. 1 -> Addresses] : s = <<s[1]>> /\ s[1] \in Addresses
  OBVIOUS
<1> QED
  BY <1>1, <1>2 DEF AssetAddress, Option

LEMMA CoreAssetType ==
  ASSUME NEW id \in Ids
  PROVE  CoreAsset(id) \in CoreAssets
<1>1. ChainNumber(id.chain) \in Nat
  BY ChainNumberIsNat DEF Ids
<1>2. Hash[id.token] \in Nat
  BY BridgeAssumption DEF Ids
<1>3. AssetAddress(id) # None => AssetAddress(id)[1] \in Nat
  BY AddressOption, AddressesAreNumbers
<1> QED
  BY <1>1, <1>2, <1>3 DEF CoreAsset, CoreAssets

\* Whatever a slot is, what comes back is an id of the exchange's chain.
LEMMA ArbAssetType ==
  ASSUME NEW chain \in ChainNames \ {""}, NEW core \in CoreAssets
  PROVE  /\ Len(ArbAsset(chain, core)) = 1
         /\ ArbAsset(chain, core) \in Seq(AssetIds)
         /\ ArbAsset(chain, core)[1] =
              [chain |-> chain, token |-> Lower[core.slot % AddressSpace]]
<1>1. core.slot % AddressSpace \in Addresses
  BY AddressesAreNumbers DEF CoreAssets
<1>2. Lower[core.slot % AddressSpace] \in TokenNames \ {""}
  BY <1>1, BridgeAssumption
<1> DEFINE id == [chain |-> chain, token |-> Lower[core.slot % AddressSpace]]
<1>3. id \in AssetIds
  BY <1>2 DEF AssetIds, Ids, Valid
<1>4. ArbAsset(chain, core) = <<id>>
  BY DEF ArbAsset
<1> HIDE DEF id
<1>5. Len(<<id>>) = 1 /\ <<id>> \in Seq(AssetIds) /\ <<id>>[1] = id
  BY <1>3, SeqOfOne
<1> QED
  BY <1>4, <1>5 DEF id

\* An id in lower-case hex comes back as it went.
LEMMA LowercaseComesBack ==
  ASSUME NEW chain \in ChainNames \ {""}, NEW id \in Ids, Lowercase(chain, id)
  PROVE  ArbAsset(chain, CoreAsset(id))[1] = id
<1>1. PICK a \in Addresses : AssetAddress(id) # None /\ AssetAddress(id)[1] = a
  BY AddressOption DEF Lowercase
<1>2. CoreAsset(id).slot = a
  BY <1>1 DEF CoreAsset
<1>3. a % AddressSpace = a
  BY AddressesAreNumbers
<1>4. id = [chain |-> chain, token |-> Lower[a]]
  BY <1>1 DEF Lowercase, Ids
<1> QED
  BY <1>2, <1>3, <1>4, ArbAssetType, CoreAssetType

\* A chain with a name loses no asset on the way back.
LEMMA ArbAssetsAre ==
  ASSUME NEW chain \in ChainNames \ {""}, NEW cores \in Seq(CoreAssets)
  PROVE  /\ ArbAssets(chain, cores) \in Seq(AssetIds)
         /\ Len(ArbAssets(chain, cores)) = Len(cores)
         /\ \A i \in 1 .. Len(cores) :
              ArbAssets(chain, cores)[i] = ArbAsset(chain, cores[i])[1]
<1> DEFINE seqs == [i \in DOMAIN cores |-> ArbAsset(chain, cores[i])]
<1>1. DOMAIN cores = 1 .. Len(cores) /\ Len(cores) \in Nat
      /\ \A i \in 1 .. Len(cores) : cores[i] \in CoreAssets
  BY SeqHas
<1>2. \A i \in 1 .. Len(cores) : seqs[i] \in Seq(AssetIds) /\ Len(seqs[i]) = 1
  BY <1>1, ArbAssetType
<1>3. seqs \in Seq(Seq(AssetIds)) /\ Len(seqs) = Len(cores)
  <2>1. seqs \in [1 .. Len(cores) -> Seq(AssetIds)]
    BY <1>1, <1>2
  <2> HIDE DEF seqs
  <2> QED
    BY <1>1, <2>1, SeqIs
<1>4. \A i \in 1 .. Len(cores) : seqs[i] = ArbAsset(chain, cores[i])
  BY <1>1
<1> HIDE DEF seqs
<1>5. /\ FlattenSeq(seqs) \in Seq(AssetIds)
      /\ Len(FlattenSeq(seqs)) = Len(seqs)
      /\ \A i \in 1 .. Len(seqs) : FlattenSeq(seqs)[i] = seqs[i][1]
  BY <1>2, <1>3, FlattenSingles
<1> QED
  BY <1>3, <1>4, <1>5 DEF ArbAssets, seqs

\* A chain without a name loses all of them.
LEMMA ArbAssetsOfNone ==
  ASSUME NEW cores \in Seq(CoreAssets)
  PROVE  ToSet(ArbAssets("", cores)) = {}
<1> DEFINE seqs == [i \in DOMAIN cores |-> ArbAsset("", cores[i])]
<1>1. \A i \in DOMAIN cores : seqs[i] = <<>>
  BY DEF ArbAsset, None
<1>2. seqs \in Seq(Seq(AssetIds)) /\ DOMAIN seqs = DOMAIN cores
  <2>1. DOMAIN cores = 1 .. Len(cores) /\ Len(cores) \in Nat
    BY SeqHas
  <2>2. seqs \in [1 .. Len(cores) -> Seq(AssetIds)] /\ DOMAIN seqs = DOMAIN cores
    BY <1>1, <2>1, SeqOfNone
  <2> HIDE DEF seqs
  <2> QED
    BY <2>1, <2>2, SeqIs
<1>3. ToSet(<<>>) = {}
  BY SeqOfNone
<1> HIDE DEF seqs
<1>4. ToSet(FlattenSeq(seqs)) = {}
  BY <1>1, <1>2, <1>3, FlattenHolds
<1> QED
  BY <1>4 DEF ArbAssets, seqs

LEMMA ArbAssetsType ==
  ASSUME NEW chain \in ChainNames, NEW cores \in Seq(CoreAssets)
  PROVE  ToSet(ArbAssets(chain, cores)) \subseteq AssetIds
<1>1. CASE chain = ""
  BY <1>1, ArbAssetsOfNone
<1>2. CASE chain # ""
  <2>1. ArbAssets(chain, cores) \in Seq(AssetIds)
    BY <1>2, ArbAssetsAre
  <2>2. \A s \in Seq(AssetIds) : ToSet(s) \subseteq AssetIds
    BY DEF ToSet
  <2> QED
    BY <2>1, <2>2
<1> QED
  BY <1>1, <1>2

-----------------------------------------------------------------------------
(* The exchanges of a chain. *)

\* What is built or resolved is one thing or nothing.
Small(s) == s = <<>> \/ \E x : s = <<x>>

LEMMA SmallIsSeq ==
  ASSUME NEW T, NEW s, Small(s), ToSet(s) \subseteq T
  PROVE  s \in Seq(T)
<1>1. CASE s = <<>>
  BY <1>1, SeqOfNone
<1>2. ASSUME NEW x, s = <<x>> PROVE s \in Seq(T)
  <2>1. ToSet(<<x>>) = {x}
    <3>1. x \in {x}
      OBVIOUS
    <3> QED
      BY <3>1, SeqOfOne
  <2> QED
    BY <1>2, <2>1, SeqOfOne
<1> QED
  BY <1>1, <1>2 DEF Small

LEMMA ConcatHolds ==
  ASSUME NEW T, NEW s \in Seq(T), NEW t \in Seq(T)
  PROVE  s \o t \in Seq(T) /\ ToSet(s \o t) = ToSet(s) \cup ToSet(t)
<1>1. s \o t \in Seq(T) /\ Len(s \o t) = Len(s) + Len(t)
  BY ConcatLies
<1>2. /\ Len(s) \in Nat /\ DOMAIN s = 1 .. Len(s)
      /\ Len(t) \in Nat /\ DOMAIN t = 1 .. Len(t)
      /\ DOMAIN (s \o t) = 1 .. Len(s \o t)
  BY <1>1, SeqHas
<1>3. /\ \A p \in 1 .. Len(s) : (s \o t)[p] = s[p]
      /\ \A p \in 1 .. Len(t) : (s \o t)[Len(s) + p] = t[p]
  BY ConcatLies
<1>4. ASSUME NEW p \in DOMAIN (s \o t) PROVE (s \o t)[p] \in ToSet(s) \cup ToSet(t)
  <2>1. \/ p \in 1 .. Len(s)
        \/ p - Len(s) \in 1 .. Len(t) /\ p = Len(s) + (p - Len(s))
    BY <1>1, <1>2
  <2>2. CASE p \in 1 .. Len(s)
    BY <1>2, <1>3, <2>2 DEF ToSet
  <2>3. CASE p - Len(s) \in 1 .. Len(t) /\ p = Len(s) + (p - Len(s))
    <3>1. (s \o t)[p] = t[p - Len(s)]
      BY <1>3, <2>3
    <3> QED
      BY <1>2, <2>3, <3>1 DEF ToSet
  <2> QED
    BY <2>1, <2>2, <2>3
<1>5. \A p \in 1 .. Len(s) : p \in DOMAIN (s \o t)
  BY <1>1, <1>2
<1>6. \A p \in 1 .. Len(t) : Len(s) + p \in DOMAIN (s \o t)
  BY <1>1, <1>2
<1> QED
  BY <1>1, <1>2, <1>3, <1>4, <1>5, <1>6 DEF ToSet

LEMMA FlattenSmall ==
  ASSUME NEW n \in Nat, NEW seqs, DOMAIN seqs = 1 .. n, seqs = [i \in 1 .. n |-> seqs[i]],
         \A i \in 1 .. n : Small(seqs[i])
  PROVE  /\ ToSet(FlattenSeq(seqs)) = UNION {ToSet(seqs[i]) : i \in 1 .. n}
         /\ FlattenSeq(seqs) \in Seq(UNION {ToSet(seqs[i]) : i \in 1 .. n})
<1> DEFINE T == UNION {ToSet(seqs[i]) : i \in 1 .. n}
<1>1. \A i \in 1 .. n : ToSet(seqs[i]) \subseteq T
  OBVIOUS
<1> HIDE DEF T
<1>2. \A i \in 1 .. n : seqs[i] \in Seq(T)
  BY <1>1, SmallIsSeq
<1>3. seqs \in Seq(Seq(T))
  <2>1. seqs \in [1 .. n -> Seq(T)]
    BY <1>2
  <2> QED
    BY <2>1, SeqIs
<1>4. FlattenSeq(seqs) \in Seq(T)
  BY <1>3, FlattenJoins
<1>5. ToSet(FlattenSeq(seqs)) = UNION {ToSet(seqs[i]) : i \in DOMAIN seqs}
  BY <1>3, FlattenHolds
<1> QED
  BY <1>4, <1>5 DEF T

\* What a chain's exchanges are put together from.
Pieces(c, registry) ==
    {Deployed("uniswap_v3", c.chain_id, c.uniswap_v3),
     Deployed("uniswap_v2", c.chain_id, c.uniswap_v2),
     BuildUniswapV4(c.chain_id, c.uniswap_v4, registry),
     BuildCurve(c.chain_id, c.curve, registry),
     Deployed("aerodrome_v2", c.chain_id, c.aerodrome_v2),
     Deployed("aerodrome_slipstream", c.chain_id, c.aerodrome_slipstream)}

LEMMA PiecesAreSmall ==
  ASSUME NEW c, NEW registry
  PROVE  \A piece \in Pieces(c, registry) : Small(piece)
<1>1. \A id, chain, factory, listed : Small(Exchange(id, chain, factory, listed))
  BY DEF Small, Exchange
<1>2. \A id, chain, block : Small(Deployed(id, chain, block))
  BY <1>1 DEF Deployed, Small
<1>3. \A chain, block : Small(BuildUniswapV4(chain, block, registry))
  BY <1>1 DEF BuildUniswapV4, Small
<1>4. \A chain, block : Small(BuildCurve(chain, block, registry))
  BY <1>1 DEF BuildCurve, Small
<1> QED
  BY <1>2, <1>3, <1>4 DEF Pieces

\* A chain with a node has the exchanges of its pieces, without one none.
LEMMA ExchangesOfPieces ==
  ASSUME NEW c, NEW registry, NEW provider
  PROVE  ToSet(BuildExchanges(c, registry, provider)) =
            IF provider = None THEN {}
            ELSE UNION {ToSet(piece) : piece \in Pieces(c, registry)}
<1>1. CASE provider = None
  <2>1. BuildExchanges(c, registry, provider) = <<>>
    BY <1>1 DEF BuildExchanges
  <2> QED
    BY <1>1, <2>1, SeqOfNone
<1>2. CASE provider # None
  <2> DEFINE p1 == Deployed("uniswap_v3", c.chain_id, c.uniswap_v3)
             p2 == Deployed("uniswap_v2", c.chain_id, c.uniswap_v2)
             p3 == BuildUniswapV4(c.chain_id, c.uniswap_v4, registry)
             p4 == BuildCurve(c.chain_id, c.curve, registry)
             p5 == Deployed("aerodrome_v2", c.chain_id, c.aerodrome_v2)
             p6 == Deployed("aerodrome_slipstream", c.chain_id, c.aerodrome_slipstream)
             T == UNION {ToSet(piece) : piece \in Pieces(c, registry)}
  <2>1. Pieces(c, registry) = {p1, p2, p3, p4, p5, p6}
    BY DEF Pieces
  <2>2. BuildExchanges(c, registry, provider) = p1 \o p2 \o p3 \o p4 \o p5 \o p6
    BY <1>2 DEF BuildExchanges
  <2>3. \A piece \in Pieces(c, registry) : ToSet(piece) \subseteq T
    OBVIOUS
  <2>4. T = ToSet(p1) \cup ToSet(p2) \cup ToSet(p3) \cup ToSet(p4) \cup ToSet(p5) \cup ToSet(p6)
    BY <2>1
  <2> HIDE DEF p1, p2, p3, p4, p5, p6, T
  <2>5. \A piece \in Pieces(c, registry) : piece \in Seq(T)
    BY <2>3, PiecesAreSmall, SmallIsSeq
  <2>6. /\ p1 \in Seq(T) /\ p2 \in Seq(T) /\ p3 \in Seq(T)
        /\ p4 \in Seq(T) /\ p5 \in Seq(T) /\ p6 \in Seq(T)
    BY <2>1, <2>5
  <2> HIDE <2>5
  <2> DEFINE q2 == p1 \o p2
             q3 == q2 \o p3
             q4 == q3 \o p4
             q5 == q4 \o p5
             q6 == q5 \o p6
  <2>7. q2 \in Seq(T) /\ ToSet(q2) = ToSet(p1) \cup ToSet(p2)
    BY <2>6, ConcatHolds
  <2> HIDE DEF q2
  <2>8. q3 \in Seq(T) /\ ToSet(q3) = ToSet(q2) \cup ToSet(p3)
    BY <2>6, <2>7, ConcatHolds
  <2> HIDE DEF q3
  <2>9. q4 \in Seq(T) /\ ToSet(q4) = ToSet(q3) \cup ToSet(p4)
    BY <2>6, <2>8, ConcatHolds
  <2> HIDE DEF q4
  <2>10. q5 \in Seq(T) /\ ToSet(q5) = ToSet(q4) \cup ToSet(p5)
    BY <2>6, <2>9, ConcatHolds
  <2> HIDE DEF q5
  <2>11. ToSet(q6) = ToSet(q5) \cup ToSet(p6)
    BY <2>6, <2>10, ConcatHolds
  <2> HIDE DEF q6
  <2>12. ToSet(BuildExchanges(c, registry, provider)) = T
    <3>1. BuildExchanges(c, registry, provider) = q6
      BY <2>2 DEF q2, q3, q4, q5, q6
    <3> QED
      BY <2>4, <2>7, <2>8, <2>9, <2>10, <2>11, <3>1
  <2> QED
    BY <1>2, <2>12 DEF T
<1> QED
  BY <1>1, <1>2

LEMMA OptionIs ==
  ASSUME NEW S, NEW o \in Option(S)
  PROVE  IF o = None THEN ToSet(o) = {}
         ELSE o[1] \in S /\ o = <<o[1]>> /\ ToSet(o) = {o[1]}
<1>1. CASE o = None
  BY <1>1, SeqOfNone DEF None
<1>2. CASE o # None
  <2>1. o \in [1 .. 1 -> S]
    BY <1>2 DEF Option
  <2>2. o[1] \in S /\ o = <<o[1]>>
    BY <2>1
  <2> QED
    BY <1>2, <2>2, SeqOfOne
<1> QED
  BY <1>1, <1>2

\* `pool` is listed with the coins `ids`, and with the decimals that the
\* registry has for them, if with any.
Lists(pool, ids, registry) ==
    /\ ids \in Seq(Ids) /\ ToSet(ids) \subseteq DOMAIN registry
    /\ pool.assets \in Seq(CoreAssets) /\ Len(pool.assets) = Len(ids)
    /\ \A i \in 1 .. Len(ids) : pool.assets[i] = CoreAsset(ids[i])
    /\ DOMAIN pool.decimals \subseteq 1 .. Len(ids)
    /\ \A i \in DOMAIN pool.decimals : pool.decimals[i] = registry[ids[i]]

\* The order of the currencies does not depend on the order of the coins.
LEMMA V4PoolIsSorted ==
  ASSUME NEW pool \in V4Pools, NEW registry,
         AssetAddress(pool.coin0) # AssetAddress(pool.coin1)
  PROVE  ResolveV4Pool(pool, registry) =
            ResolveV4Pool([pool EXCEPT !.coin0 = pool.coin1, !.coin1 = pool.coin0], registry)
<1> DEFINE other == [pool EXCEPT !.coin0 = pool.coin1, !.coin1 = pool.coin0]
<1>1. /\ other.coin0 = pool.coin1 /\ other.coin1 = pool.coin0
      /\ other.terms = pool.terms /\ other.hooks = pool.hooks
      /\ pool.coin0 \in Ids /\ pool.coin1 \in Ids
  BY DEF V4Pools
<1> HIDE DEF other
<1>2. {pool.coin0, pool.coin1} = {pool.coin1, pool.coin0}
  OBVIOUS
<1>3. CASE AssetAddress(pool.coin0) = None \/ AssetAddress(pool.coin1) = None
  <2> DEFINE o0 == AssetAddress(pool.coin0)
             o1 == AssetAddress(pool.coin1)
  <2>0. o0 \in Seq(Addresses) /\ o1 \in Seq(Addresses) /\ Len(o0) + Len(o1) < 2
    <3>1. \A o \in {o0, o1} : o = <<>> \/ \E a \in Addresses : o = <<a>>
      BY <1>1, AddressOption DEF None
    <3> HIDE DEF o0, o1
    <3>2. \A o \in {o0, o1} : o \in Seq(Addresses) /\ (Len(o) = 0 \/ Len(o) = 1)
      <4>1. \A a \in Addresses : <<a>> \in Seq(Addresses) /\ Len(<<a>>) = 1
        BY SeqOfOne
      <4> QED
        BY <3>1, <4>1, SeqOfNone
    <3>3. \A o \in {o0, o1} : o = <<>> => Len(o) = 0
      BY SeqOfNone
    <3>4. o0 = <<>> \/ o1 = <<>>
      BY <1>3 DEF o0, o1, None
    <3>5. /\ o0 \in Seq(Addresses) /\ (Len(o0) = 0 \/ Len(o0) = 1)
          /\ o1 \in Seq(Addresses) /\ (Len(o1) = 0 \/ Len(o1) = 1)
      BY <3>2, Zenon
    <3>6. Len(o0) = 0 \/ Len(o1) = 0
      BY <3>3, <3>4, Zenon
    <3>7. \A m, n \in {0, 1} : m = 0 \/ n = 0 => m + n < 2
      OBVIOUS
    <3>8. Len(o0) \in {0, 1} /\ Len(o1) \in {0, 1}
      BY <3>5, Zenon
    <3>9. Len(o0) + Len(o1) < 2
      BY <3>6, <3>7, <3>8, Zenon
    <3> QED
      BY <3>5, <3>9, Zenon
  <2> HIDE DEF o0, o1
  <2>1. Len(o0 \o o1) < 2
    BY <2>0, ConcatLies
  <2>2. Len(o1 \o o0) < 2
    BY <2>0, ConcatLies
  <2>3. ResolveV4Pool(pool, registry) = None
    BY <2>1 DEF ResolveV4Pool, o0, o1
  <2>4. ResolveV4Pool(other, registry) = None
    BY <1>1, <2>2 DEF ResolveV4Pool, o0, o1
  <2> QED
    BY <2>3, <2>4 DEF other
<1>4. CASE AssetAddress(pool.coin0) # None /\ AssetAddress(pool.coin1) # None
  <2>1. PICK a \in Addresses : AssetAddress(pool.coin0) = <<a>>
    BY <1>1, <1>4, AddressOption
  <2>2. PICK b \in Addresses : AssetAddress(pool.coin1) = <<b>>
    BY <1>1, <1>4, AddressOption
  <2>3. a # b /\ a \in Nat /\ b \in Nat
    BY <2>1, <2>2, AddressesAreNumbers
  <2>4. /\ Len(<<a>> \o <<b>>) = 2 /\ Len(<<b>> \o <<a>>) = 2
        /\ (<<a>> \o <<b>>)[1] = a /\ (<<a>> \o <<b>>)[2] = b
        /\ (<<b>> \o <<a>>)[1] = b /\ (<<b>> \o <<a>>)[2] = a
    OBVIOUS
  <2>5. (a < b <=> ~(b < a))
    BY <2>3
  <2>6. CASE a < b
    BY <1>1, <1>2, <2>1, <2>2, <2>4, <2>5, <2>6 DEF ResolveV4Pool, other
  <2>7. CASE ~(a < b)
    BY <1>1, <1>2, <2>1, <2>2, <2>4, <2>5, <2>7 DEF ResolveV4Pool, other
  <2> QED
    BY <2>6, <2>7
<1> QED
  BY <1>3, <1>4

LEMMA V4PoolLists ==
  ASSUME NEW pool \in V4Pools, NEW registry, ResolveV4Pool(pool, registry) # None
  PROVE  \E ids \in {<<pool.coin0, pool.coin1>>, <<pool.coin1, pool.coin0>>} :
            /\ Lists(ResolveV4Pool(pool, registry)[1], ids, registry)
            /\ Len(ids) = 2 /\ ToSet(ids) = {pool.coin0, pool.coin1}
<1> DEFINE addresses == AssetAddress(pool.coin0) \o AssetAddress(pool.coin1)
           ids == IF addresses[1] < addresses[2] THEN <<pool.coin0, pool.coin1>>
                  ELSE <<pool.coin1, pool.coin0>>
           listed == ResolveV4Pool(pool, registry)[1]
<1>1. pool.coin0 \in Ids /\ pool.coin1 \in Ids
  BY DEF V4Pools
<1>2. /\ {pool.coin0, pool.coin1} \subseteq DOMAIN registry
      /\ listed.assets = <<CoreAsset(ids[1]), CoreAsset(ids[2])>>
      /\ listed.decimals = <<>>
  BY DEF ResolveV4Pool
<1>3. ids \in {<<pool.coin0, pool.coin1>>, <<pool.coin1, pool.coin0>>}
  OBVIOUS
<1> HIDE DEF ids, listed
<1>4. \A x, y \in Ids : /\ <<x, y>> \in Seq(Ids) /\ Len(<<x, y>>) = 2
                        /\ ToSet(<<x, y>>) = {x, y}
  <2> TAKE x, y \in Ids
  <2>1. <<x, y>> \in Seq(Ids) /\ Len(<<x, y>>) = 2 /\ <<x, y>>[1] = x /\ <<x, y>>[2] = y
    OBVIOUS
  <2>2. DOMAIN <<x, y>> = {1, 2}
    <3>1. DOMAIN <<x, y>> = 1 .. 2
      BY <2>1
    <3> QED
      BY <3>1
  <2> QED
    BY <2>1, <2>2 DEF ToSet
<1>5. ids \in Seq(Ids) /\ Len(ids) = 2 /\ ToSet(ids) = {pool.coin0, pool.coin1}
  <2>1. CASE ids = <<pool.coin0, pool.coin1>>
    BY <1>1, <1>4, <2>1
  <2>2. CASE ids = <<pool.coin1, pool.coin0>>
    BY <1>1, <1>4, <2>2
  <2> QED
    BY <1>3, <2>1, <2>2
<1>6. CoreAsset(ids[1]) \in CoreAssets /\ CoreAsset(ids[2]) \in CoreAssets
  BY <1>5, CoreAssetType
<1>7. /\ listed.assets \in Seq(CoreAssets) /\ Len(listed.assets) = 2
      /\ \A i \in 1 .. 2 : listed.assets[i] = CoreAsset(ids[i])
  <2> DEFINE x == CoreAsset(ids[1])
             y == CoreAsset(ids[2])
  <2>1. x \in CoreAssets /\ y \in CoreAssets /\ listed.assets = <<x, y>>
    BY <1>2, <1>6
  <2> HIDE DEF x, y
  <2>2. /\ <<x, y>> \in Seq(CoreAssets) /\ Len(<<x, y>>) = 2
        /\ <<x, y>>[1] = x /\ <<x, y>>[2] = y
    BY <2>1
  <2>3. \A i \in 1 .. 2 : i = 1 \/ i = 2
    OBVIOUS
  <2>4. \A i \in 1 .. 2 : listed.assets[i] = CoreAsset(ids[i])
    BY <2>1, <2>2, <2>3 DEF x, y
  <2> QED
    BY <2>1, <2>2, <2>4
<1>8. DOMAIN listed.decimals = {}
  BY <1>2, SeqOfNone
<1>9. Lists(listed, ids, registry)
  BY <1>2, <1>5, <1>7, <1>8 DEF Lists
<1> QED
  BY <1>3, <1>5, <1>9 DEF listed

LEMMA CurvePoolLists ==
  ASSUME NEW pool \in CurvePools, NEW registry, ResolveCurvePool(pool, registry) # None
  PROVE  Lists(ResolveCurvePool(pool, registry)[1], pool.coins, registry)
<1> DEFINE listed == ResolveCurvePool(pool, registry)[1]
           ids == pool.coins
<1>1. ids \in Seq(Ids)
  BY DEF CurvePools
<1>2. ResolveCoins(ids, registry) # None
  BY DEF ResolveCurvePool
<1>3. /\ ToSet(ids) \subseteq DOMAIN registry
      /\ listed.assets = [i \in DOMAIN ids |-> CoreAsset(ids[i])]
      /\ listed.decimals = [i \in DOMAIN ids |-> registry[ids[i]]]
  BY <1>2 DEF ResolveCurvePool, ResolveCoins
<1> HIDE DEF listed, ids
<1>4. /\ Len(ids) \in Nat /\ DOMAIN ids = 1 .. Len(ids)
      /\ \A i \in DOMAIN ids : CoreAsset(ids[i]) \in CoreAssets
  BY <1>1, SeqHas, CoreAssetType
<1>5. listed.assets \in Seq(CoreAssets) /\ Len(listed.assets) = Len(ids)
  <2>1. listed.assets \in [1 .. Len(ids) -> CoreAssets]
    BY <1>3, <1>4
  <2> QED
    BY <1>4, <2>1, SeqIs
<1>6. \A i \in DOMAIN ids : listed.assets[i] = CoreAsset(ids[i])
  BY <1>3
<1>7. DOMAIN listed.decimals = DOMAIN ids
      /\ \A i \in DOMAIN ids : listed.decimals[i] = registry[ids[i]]
  BY <1>3
<1> QED
  BY <1>1, <1>3, <1>4, <1>5, <1>6, <1>7 DEF Lists, listed, ids

\* The pools that a block's entries resolve to.
V4Resolved(block, registry) ==
    IF block = None \/ block[1].pool_manager = None THEN {}
    ELSE UNION {ToSet(ResolveV4Pool(pool, registry)) : pool \in ToSet(block[1].pools)}

CurveResolved(block, registry) ==
    IF block = None THEN {}
    ELSE UNION {ToSet(ResolveCurvePool(pool, registry)) : pool \in ToSet(block[1])}

\* A piece lists the pools `resolved` as exchange `id`, or is none without any.
Offering(piece, id, chain, resolved) ==
    \/ piece = <<>> /\ resolved = {}
    \/ \E pools \in Seq(resolved) :
        ToSet(pools) = resolved /\ piece = Exchange(id, chain, None, pools)

LEMMA Listed ==
  ASSUME NEW T, NEW n \in Nat, NEW seqs, seqs = [i \in 1 .. n |-> seqs[i]],
         \A i \in 1 .. n : Small(seqs[i]),
         NEW resolved, \A i \in 1 .. n : ToSet(seqs[i]) \subseteq resolved,
         \A x \in resolved : \E i \in 1 .. n : x \in ToSet(seqs[i])
  PROVE  /\ FlattenSeq(seqs) \in Seq(resolved) /\ ToSet(FlattenSeq(seqs)) = resolved
         /\ FlattenSeq(seqs) = <<>> => resolved = {}
<1>1. DOMAIN seqs = 1 .. n
  OBVIOUS
<1>2. resolved = UNION {ToSet(seqs[i]) : i \in 1 .. n}
  OBVIOUS
<1>3. /\ ToSet(FlattenSeq(seqs)) = UNION {ToSet(seqs[i]) : i \in 1 .. n}
      /\ FlattenSeq(seqs) \in Seq(UNION {ToSet(seqs[i]) : i \in 1 .. n})
  BY <1>1, FlattenSmall
<1> QED
  BY <1>2, <1>3, SeqOfNone

LEMMA V4Offers ==
  ASSUME NEW chain, NEW block \in Option(UniswapV4Settings), NEW registry
  PROVE  Offering(BuildUniswapV4(chain, block, registry), "uniswap_v4", chain,
                  V4Resolved(block, registry))
<1>1. CASE block = None \/ block[1].pool_manager = None
  BY <1>1 DEF Offering, BuildUniswapV4, V4Resolved
<1>2. CASE ~(block = None \/ block[1].pool_manager = None)
  <2> DEFINE pools == block[1].pools
             seqs == [i \in DOMAIN pools |-> ResolveV4Pool(pools[i], registry)]
             resolved == V4Resolved(block, registry)
  <2>1. pools \in Seq(V4Pools)
    <3>1. block[1] \in UniswapV4Settings
      BY <1>2, OptionIs
    <3> QED
      BY <3>1 DEF UniswapV4Settings
  <2>2. Len(pools) \in Nat /\ DOMAIN pools = 1 .. Len(pools)
    BY <2>1, SeqHas
  <2>3. \A i \in 1 .. Len(pools) : seqs[i] = ResolveV4Pool(pools[i], registry)
    BY <2>2
  <2>4. seqs = [i \in 1 .. Len(pools) |-> seqs[i]]
    BY <2>2
  <2>5. \A pool : Small(ResolveV4Pool(pool, registry))
    BY DEF ResolveV4Pool, Small, None
  <2>6. resolved = UNION {ToSet(ResolveV4Pool(pool, registry)) : pool \in ToSet(pools)}
    BY <1>2 DEF V4Resolved
  <2>7. ToSet(pools) = {pools[i] : i \in 1 .. Len(pools)}
    BY <2>2 DEF ToSet
  <2>8. BuildUniswapV4(chain, block, registry) =
            IF FlattenSeq(seqs) = <<>> THEN <<>>
            ELSE Exchange("uniswap_v4", chain, None, FlattenSeq(seqs))
    BY <1>2 DEF BuildUniswapV4
  <2> HIDE DEF seqs, resolved, pools
  <2>9. resolved = UNION {ToSet(seqs[i]) : i \in 1 .. Len(pools)}
    BY <2>3, <2>6, <2>7
  <2>10. /\ FlattenSeq(seqs) \in Seq(resolved) /\ ToSet(FlattenSeq(seqs)) = resolved
         /\ FlattenSeq(seqs) = <<>> => resolved = {}
    <3>1. \A i \in 1 .. Len(pools) : Small(seqs[i])
      BY <2>3, <2>5
    <3> DEFINE n == Len(pools)
    <3>2. /\ n \in Nat /\ seqs = [i \in 1 .. n |-> seqs[i]]
          /\ \A i \in 1 .. n : Small(seqs[i])
          /\ \A i \in 1 .. n : ToSet(seqs[i]) \subseteq resolved
          /\ \A x \in resolved : \E i \in 1 .. n : x \in ToSet(seqs[i])
      BY <2>2, <2>4, <2>9, <3>1
    <3> HIDE DEF n
    <3> QED
      BY <3>2, Listed
  <2>11. Offering(BuildUniswapV4(chain, block, registry), "uniswap_v4", chain, resolved)
    BY <2>8, <2>10, Zenon DEF Offering
  <2> QED
    BY <2>11 DEF resolved
<1> QED
  BY <1>1, <1>2

LEMMA CurveOffers ==
  ASSUME NEW chain, NEW block \in Option(Seq(CurvePools)), NEW registry
  PROVE  Offering(BuildCurve(chain, block, registry), "curve", chain,
                  CurveResolved(block, registry))
<1>1. CASE block = None
  BY <1>1 DEF Offering, BuildCurve, CurveResolved
<1>2. CASE block # None
  <2> DEFINE pools == block[1]
             seqs == [i \in DOMAIN pools |-> ResolveCurvePool(pools[i], registry)]
             resolved == CurveResolved(block, registry)
  <2>1. pools \in Seq(CurvePools)
    BY <1>2, OptionIs
  <2>2. Len(pools) \in Nat /\ DOMAIN pools = 1 .. Len(pools)
    BY <2>1, SeqHas
  <2>3. \A i \in 1 .. Len(pools) : seqs[i] = ResolveCurvePool(pools[i], registry)
    BY <2>2
  <2>4. seqs = [i \in 1 .. Len(pools) |-> seqs[i]]
    BY <2>2
  <2>5. \A pool : Small(ResolveCurvePool(pool, registry))
    BY DEF ResolveCurvePool, Small, None
  <2>6. resolved = UNION {ToSet(ResolveCurvePool(pool, registry)) : pool \in ToSet(pools)}
    BY <1>2 DEF CurveResolved
  <2>7. ToSet(pools) = {pools[i] : i \in 1 .. Len(pools)}
    BY <2>2 DEF ToSet
  <2>8. BuildCurve(chain, block, registry) =
            IF FlattenSeq(seqs) = <<>> THEN <<>>
            ELSE Exchange("curve", chain, None, FlattenSeq(seqs))
    BY <1>2 DEF BuildCurve
  <2> HIDE DEF seqs, resolved, pools
  <2>9. resolved = UNION {ToSet(seqs[i]) : i \in 1 .. Len(pools)}
    BY <2>3, <2>6, <2>7
  <2>10. /\ FlattenSeq(seqs) \in Seq(resolved) /\ ToSet(FlattenSeq(seqs)) = resolved
         /\ FlattenSeq(seqs) = <<>> => resolved = {}
    <3>1. \A i \in 1 .. Len(pools) : Small(seqs[i])
      BY <2>3, <2>5
    <3> DEFINE n == Len(pools)
    <3>2. /\ n \in Nat /\ seqs = [i \in 1 .. n |-> seqs[i]]
          /\ \A i \in 1 .. n : Small(seqs[i])
          /\ \A i \in 1 .. n : ToSet(seqs[i]) \subseteq resolved
          /\ \A x \in resolved : \E i \in 1 .. n : x \in ToSet(seqs[i])
      BY <2>2, <2>4, <2>9, <3>1
    <3> HIDE DEF n
    <3> QED
      BY <3>2, Listed
  <2>11. Offering(BuildCurve(chain, block, registry), "curve", chain, resolved)
    BY <2>8, <2>10, Zenon DEF Offering
  <2> QED
    BY <2>11 DEF resolved
<1> QED
  BY <1>1, <1>2

\* The coins of the pools that an entry lists, in the order in which they are.
V4Listings(c) ==
    UNION {UNION {{<<pool.coin0, pool.coin1>>, <<pool.coin1, pool.coin0>>} :
                    pool \in ToSet(v4.pools)} : v4 \in ToSet(c.uniswap_v4)}

CurveListings(c) ==
    UNION {{pool.coins : pool \in ToSet(curve)} : curve \in ToSet(c.curve)}

\* xch is an exchange of entry c: what its pieces may be.
ExchangeOf(xch, c, registry) ==
    /\ xch.chain = c.chain_id
    /\ xch.factory # None => xch.listed = <<>>
    /\ xch.listed \in Seq(ToSet(xch.listed))
    /\ \A pool \in ToSet(xch.listed) :
        \/ \E ids \in V4Listings(c) :
            Lists(pool, ids, registry) /\ Len(ids) = 2
        \/ \E ids \in CurveListings(c) : Lists(pool, ids, registry)

LEMMA ExchangeIs ==
  ASSUME NEW id, NEW chain, NEW factory, NEW listed
  PROVE  \A xch \in ToSet(Exchange(id, chain, factory, listed)) :
            /\ xch.id = id /\ xch.chain = chain
            /\ xch.factory = factory /\ xch.listed = listed
<1> DEFINE xch == [id |-> id, chain |-> chain, factory |-> factory, listed |-> listed]
<1>1. ToSet(<<xch>>) = {xch}
  <2> HIDE DEF xch
  <2>1. xch \in {xch}
    OBVIOUS
  <2> QED
    BY <2>1, SeqOfOne
<1> QED
  BY <1>1 DEF Exchange

LEMMA ChainFields ==
  ASSUME NEW c \in ChainSettings
  PROVE  /\ c.chain_id \in ChainNames
         /\ c.tracked_tokens \in Seq(Ids) /\ c.start_assets \in Seq(Ids)
         /\ c.uniswap_v4 \in Option(UniswapV4Settings)
         /\ c.curve \in Option(Seq(CurvePools))
         /\ \A block \in {c.uniswap_v3, c.uniswap_v2, c.aerodrome_v2,
                          c.aerodrome_slipstream} : block \in Option(Factories)
BY DEF ChainSettings

LEMMA DeployedIs ==
  ASSUME NEW id, NEW c, NEW block, NEW registry,
         NEW xch \in ToSet(Deployed(id, c.chain_id, block))
  PROVE  ExchangeOf(xch, c, registry)
<1>1. CASE block = None \/ block[1].factory = None
  BY <1>1, SeqOfNone DEF Deployed
<1>2. CASE ~(block = None \/ block[1].factory = None)
  <2>1. Deployed(id, c.chain_id, block) = Exchange(id, c.chain_id, block[1].factory, <<>>)
    BY <1>2 DEF Deployed
  <2>2. xch.chain = c.chain_id /\ xch.listed = <<>>
    BY <2>1, ExchangeIs
  <2> QED
    BY <2>2, SeqOfNone DEF ExchangeOf
<1> QED
  BY <1>1, <1>2

LEMMA OfferingIs ==
  ASSUME NEW piece, NEW id, NEW chain, NEW resolved, Offering(piece, id, chain, resolved),
         NEW xch \in ToSet(piece)
  PROVE  /\ xch.id = id /\ xch.chain = chain /\ xch.factory = None
         /\ ToSet(xch.listed) = resolved /\ xch.listed \in Seq(resolved)
<1>1. piece # <<>>
  BY SeqOfNone
<1>2. PICK pools \in Seq(resolved) :
        ToSet(pools) = resolved /\ piece = Exchange(id, chain, None, pools)
  BY <1>1 DEF Offering
<1> QED
  BY <1>2, ExchangeIs

LEMMA V4ResolvedIs ==
  ASSUME NEW c \in ChainSettings, NEW registry,
         NEW pool \in V4Resolved(c.uniswap_v4, registry)
  PROVE  \E ids \in V4Listings(c) : Lists(pool, ids, registry) /\ Len(ids) = 2
<1> DEFINE v4 == c.uniswap_v4[1]
<1>1. c.uniswap_v4 # None
      /\ pool \in UNION {ToSet(ResolveV4Pool(p, registry)) : p \in ToSet(v4.pools)}
  BY DEF V4Resolved
<1>2. v4 \in UniswapV4Settings /\ v4 \in ToSet(c.uniswap_v4)
  BY <1>1, OptionIs, ChainFields
<1>3. v4.pools \in Seq(V4Pools)
  BY <1>2 DEF UniswapV4Settings
<1>4. PICK p \in ToSet(v4.pools) : pool \in ToSet(ResolveV4Pool(p, registry))
  BY <1>1
<1>5. p \in V4Pools
  BY <1>3, <1>4, SeqHas
<1>6. ResolveV4Pool(p, registry) # None
  BY <1>4, SeqOfNone DEF None
<1>7. pool = ResolveV4Pool(p, registry)[1]
  <2>1. \A x, y : y \in ToSet(<<x>>) => y = <<x>>[1]
    BY SeqOfOne DEF ToSet
  <2>2. PICK x : ResolveV4Pool(p, registry) = <<x>>
    BY <1>6 DEF ResolveV4Pool
  <2> QED
    BY <1>4, <2>1, <2>2
<1>8. PICK ids \in {<<p.coin0, p.coin1>>, <<p.coin1, p.coin0>>} :
        Lists(pool, ids, registry) /\ Len(ids) = 2
  BY <1>5, <1>6, <1>7, V4PoolLists
<1>9. ids \in V4Listings(c)
  BY <1>2, <1>4, <1>8 DEF V4Listings
<1> QED
  BY <1>8, <1>9

LEMMA CurveResolvedIs ==
  ASSUME NEW c \in ChainSettings, NEW registry,
         NEW pool \in CurveResolved(c.curve, registry)
  PROVE  \E ids \in CurveListings(c) : Lists(pool, ids, registry)
<1> DEFINE curve == c.curve[1]
<1>1. c.curve # None
      /\ pool \in UNION {ToSet(ResolveCurvePool(p, registry)) : p \in ToSet(curve)}
  BY DEF CurveResolved
<1>2. curve \in Seq(CurvePools) /\ curve \in ToSet(c.curve)
  BY <1>1, OptionIs, ChainFields
<1>4. PICK p \in ToSet(curve) : pool \in ToSet(ResolveCurvePool(p, registry))
  BY <1>1
<1>5. p \in CurvePools
  BY <1>2, <1>4, SeqHas
<1>6. ResolveCurvePool(p, registry) # None
  BY <1>4, SeqOfNone DEF None
<1>7. pool = ResolveCurvePool(p, registry)[1]
  <2>1. \A x, y : y \in ToSet(<<x>>) => y = <<x>>[1]
    BY SeqOfOne DEF ToSet
  <2>2. PICK x : ResolveCurvePool(p, registry) = <<x>>
    BY <1>6 DEF ResolveCurvePool
  <2> QED
    BY <1>4, <2>1, <2>2
<1>8. Lists(pool, p.coins, registry)
  BY <1>5, <1>6, <1>7, CurvePoolLists
<1>9. p.coins \in CurveListings(c)
  BY <1>2, <1>4 DEF CurveListings
<1> QED
  BY <1>8, <1>9

\* Whatever the settings hold, the exchanges of an entry are of its chain, and
\* each pool they list is one of the entry's, with its coins and their decimals.
LEMMA ExchangesAre ==
  ASSUME NEW c \in ChainSettings, NEW registry, NEW provider,
         NEW xch \in ToSet(BuildExchanges(c, registry, provider))
  PROVE  ExchangeOf(xch, c, registry)
<1>1. PICK piece \in Pieces(c, registry) : xch \in ToSet(piece)
  BY ExchangesOfPieces
<1>2. \A id, block : xch \in ToSet(Deployed(id, c.chain_id, block)) =>
                        ExchangeOf(xch, c, registry)
  BY DeployedIs
<1>3. CASE xch \in ToSet(BuildUniswapV4(c.chain_id, c.uniswap_v4, registry))
  <2> DEFINE resolved == V4Resolved(c.uniswap_v4, registry)
  <2>1. Offering(BuildUniswapV4(c.chain_id, c.uniswap_v4, registry), "uniswap_v4",
                 c.chain_id, resolved)
    BY V4Offers, ChainFields
  <2>2. \A pool \in resolved :
            \E ids \in V4Listings(c) : Lists(pool, ids, registry) /\ Len(ids) = 2
    BY V4ResolvedIs
  <2> HIDE DEF resolved
  <2>3. /\ xch.chain = c.chain_id /\ xch.factory = None
        /\ ToSet(xch.listed) = resolved /\ xch.listed \in Seq(resolved)
    BY <1>3, <2>1, OfferingIs
  <2> QED
    BY <2>2, <2>3, Zenon DEF ExchangeOf
<1>4. CASE xch \in ToSet(BuildCurve(c.chain_id, c.curve, registry))
  <2> DEFINE resolved == CurveResolved(c.curve, registry)
  <2>1. Offering(BuildCurve(c.chain_id, c.curve, registry), "curve", c.chain_id, resolved)
    BY CurveOffers, ChainFields
  <2>2. \A pool \in resolved : \E ids \in CurveListings(c) : Lists(pool, ids, registry)
    BY CurveResolvedIs
  <2> HIDE DEF resolved
  <2>3. /\ xch.chain = c.chain_id /\ xch.factory = None
        /\ ToSet(xch.listed) = resolved /\ xch.listed \in Seq(resolved)
    BY <1>4, <2>1, OfferingIs
  <2> QED
    BY <2>2, <2>3, Zenon DEF ExchangeOf
<1> QED
  BY <1>1, <1>2, <1>3, <1>4 DEF Pieces

-----------------------------------------------------------------------------
(* What exchanges offer, piece by piece. *)

OffersIt(o, xch) ==
    \E pool \in IF xch.factory = None THEN ToSet(xch.listed) ELSE {None} :
        o = [id |-> xch.id, factory |-> xch.factory, pool |-> pool]

LEMMA OffersAre ==
  ASSUME NEW e, NEW o
  PROVE  o \in Offers(e) <=> \E xch \in ToSet(e) : OffersIt(o, xch)
BY DEF Offers, OffersIt

LEMMA OffersOfPieces ==
  ASSUME NEW c, NEW registry, NEW provider, provider # None, NEW o
  PROVE  o \in Offers(BuildExchanges(c, registry, provider)) <=>
            \E piece \in Pieces(c, registry) : o \in Offers(piece)
<1> DEFINE e == BuildExchanges(c, registry, provider)
<1>1. ToSet(e) = UNION {ToSet(piece) : piece \in Pieces(c, registry)}
  BY ExchangesOfPieces
<1> HIDE DEF e
<1>2. o \in Offers(e) <=> \E xch \in ToSet(e) : OffersIt(o, xch)
  BY OffersAre
<1>3. \A piece : o \in Offers(piece) <=> \E xch \in ToSet(piece) : OffersIt(o, xch)
  BY OffersAre
<1>4. \A xch : xch \in ToSet(e) <=> \E piece \in Pieces(c, registry) : xch \in ToSet(piece)
  BY <1>1
<1>5. o \in Offers(e) <=> \E piece \in Pieces(c, registry) : o \in Offers(piece)
  BY <1>2, <1>3, <1>4, Zenon
<1> QED
  BY <1>5 DEF e

LEMMA NothingOffered ==
  ASSUME NEW o
  PROVE  o \notin Offers(<<>>)
<1>1. ToSet(<<>>) = {}
  BY SeqOfNone
<1> QED
  BY <1>1, OffersAre

LEMMA OffersOfOffering ==
  ASSUME NEW piece, NEW id, NEW chain, NEW resolved, Offering(piece, id, chain, resolved),
         NEW o
  PROVE  o \in Offers(piece) <=>
            \E pool \in resolved : o = [id |-> id, factory |-> None, pool |-> pool]
<1>1. CASE piece = <<>> /\ resolved = {}
  BY <1>1, NothingOffered
<1>2. CASE ~(piece = <<>> /\ resolved = {})
  <2>1. PICK pools \in Seq(resolved) :
          ToSet(pools) = resolved /\ piece = Exchange(id, chain, None, pools)
    BY <1>2 DEF Offering
  <2> DEFINE xch == [id |-> id, chain |-> chain, factory |-> None, listed |-> pools]
  <2>2. ToSet(piece) = {xch}
    <3>1. piece = <<xch>>
      BY <2>1 DEF Exchange
    <3> HIDE DEF xch
    <3>2. xch \in {xch}
      OBVIOUS
    <3> QED
      BY <3>1, <3>2, SeqOfOne
  <2>3. xch.id = id /\ xch.factory = None /\ xch.listed = pools
    OBVIOUS
  <2> HIDE DEF xch
  <2>4. o \in Offers(piece) <=> OffersIt(o, xch)
    BY <2>2, OffersAre
  <2> QED
    BY <2>1, <2>3, <2>4 DEF OffersIt
<1> QED
  BY <1>1, <1>2

LEMMA FieldsAlone ==
  ASSUME NEW c \in ChainSettings
  PROVE  \A block \in FactoryBlocks :
            /\ WithFactory(c, block).chain_id = c.chain_id
            /\ WithFactory(c, block).uniswap_v4 = None
            /\ WithFactory(c, block).curve = None
            /\ \A b \in FactoryBlocks :
                  WithFactory(c, block)[b] = IF b = block THEN c[b] ELSE None
BY DEF ChainSettings, FactoryBlocks, WithFactory, Bare

LEMMA V4FieldsAlone ==
  ASSUME NEW c \in ChainSettings, NEW v4, NEW pool
  PROVE  /\ WithV4Pool(c, v4, pool).chain_id = c.chain_id
         /\ WithV4Pool(c, v4, pool).uniswap_v4 = <<[v4 EXCEPT !.pools = <<pool>>]>>
         /\ WithV4Pool(c, v4, pool).curve = None
         /\ \A b \in FactoryBlocks : WithV4Pool(c, v4, pool)[b] = None
BY DEF ChainSettings, FactoryBlocks, WithV4Pool, Bare

LEMMA CurveFieldsAlone ==
  ASSUME NEW c \in ChainSettings, NEW pool
  PROVE  /\ WithCurvePool(c, pool).chain_id = c.chain_id
         /\ WithCurvePool(c, pool).uniswap_v4 = None
         /\ WithCurvePool(c, pool).curve = << <<pool>> >>
         /\ \A b \in FactoryBlocks : WithCurvePool(c, pool)[b] = None
BY DEF ChainSettings, FactoryBlocks, WithCurvePool, Bare

LEMMA SinglesAre ==
  ASSUME NEW c \in ChainSettings, NEW single
  PROVE  single \in Singles(c) <=>
            \/ \E block \in FactoryBlocks : single = WithFactory(c, block)
            \/ \E v4 \in ToSet(c.uniswap_v4) : \E pool \in ToSet(v4.pools) :
                  single = WithV4Pool(c, v4, pool)
            \/ \E curve \in ToSet(c.curve) : \E pool \in ToSet(curve) :
                  single = WithCurvePool(c, pool)
<1>1. single \in FactorySingles(c) <=>
        \E block \in FactoryBlocks : single = WithFactory(c, block)
  BY DEF FactorySingles
<1>2. single \in V4Singles(c) <=>
        \E v4 \in ToSet(c.uniswap_v4) : \E pool \in ToSet(v4.pools) :
            single = WithV4Pool(c, v4, pool)
  BY DEF V4Singles
<1>3. single \in CurveSingles(c) <=>
        \E curve \in ToSet(c.curve) : \E pool \in ToSet(curve) :
            single = WithCurvePool(c, pool)
  BY DEF CurveSingles
<1> QED
  BY <1>1, <1>2, <1>3 DEF Singles

LEMMA PiecesAre ==
  ASSUME NEW c, NEW registry, NEW piece
  PROVE  piece \in Pieces(c, registry) <=>
            \/ \E block \in FactoryBlocks : piece = Deployed(block, c.chain_id, c[block])
            \/ piece = BuildUniswapV4(c.chain_id, c.uniswap_v4, registry)
            \/ piece = BuildCurve(c.chain_id, c.curve, registry)
BY DEF Pieces, FactoryBlocks

LEMMA NonePieces ==
  ASSUME NEW id, NEW chain, NEW registry
  PROVE  /\ Deployed(id, chain, None) = <<>>
         /\ BuildUniswapV4(chain, None, registry) = <<>>
         /\ BuildCurve(chain, None, registry) = <<>>
BY DEF Deployed, BuildUniswapV4, BuildCurve

LEMMA OneFactory ==
  ASSUME NEW c \in ChainSettings, NEW registry, NEW block \in FactoryBlocks, NEW o
  PROVE  (\E piece \in Pieces(WithFactory(c, block), registry) : o \in Offers(piece))
            <=> o \in Offers(Deployed(block, c.chain_id, c[block]))
<1> DEFINE single == WithFactory(c, block)
<1>1. /\ single.chain_id = c.chain_id /\ single.uniswap_v4 = None /\ single.curve = None
      /\ \A b \in FactoryBlocks : single[b] = IF b = block THEN c[b] ELSE None
  BY FieldsAlone
<1> HIDE DEF single
<1>2. \A piece \in Pieces(single, registry) :
        piece = <<>> \/ piece = Deployed(block, c.chain_id, c[block])
  BY <1>1, PiecesAre, NonePieces
<1>3. Deployed(block, c.chain_id, c[block]) \in Pieces(single, registry)
  BY <1>1, PiecesAre
<1>4. (\E piece \in Pieces(single, registry) : o \in Offers(piece))
        <=> o \in Offers(Deployed(block, c.chain_id, c[block]))
  BY <1>2, <1>3, NothingOffered
<1> QED
  BY <1>4 DEF single

LEMMA OneV4Pool ==
  ASSUME NEW c \in ChainSettings, NEW registry,
         NEW v4 \in ToSet(c.uniswap_v4), NEW pool \in ToSet(v4.pools), NEW o
  PROVE  (\E piece \in Pieces(WithV4Pool(c, v4, pool), registry) : o \in Offers(piece))
            <=> /\ v4.pool_manager # None
                /\ \E p \in ToSet(ResolveV4Pool(pool, registry)) :
                        o = [id |-> "uniswap_v4", factory |-> None, pool |-> p]
<1> DEFINE single == WithV4Pool(c, v4, pool)
           alone == [v4 EXCEPT !.pools = <<pool>>]
           piece == BuildUniswapV4(c.chain_id, <<alone>>, registry)
           resolved == V4Resolved(<<alone>>, registry)
<1>1. /\ single.chain_id = c.chain_id /\ single.uniswap_v4 = <<alone>> /\ single.curve = None
      /\ \A b \in FactoryBlocks : single[b] = None
  BY V4FieldsAlone
<1>2. v4 \in UniswapV4Settings
  <2>1. c.uniswap_v4 \in Option(UniswapV4Settings)
    BY ChainFields
  <2> QED
    BY <2>1, OptionIs
<1>3. v4.pools \in Seq(V4Pools)
  BY <1>2 DEF UniswapV4Settings
<1>4. pool \in V4Pools
  BY <1>3, SeqHas
<1>5. /\ alone \in UniswapV4Settings /\ alone.pools = <<pool>>
      /\ alone.pool_manager = v4.pool_manager
  <2>1. <<pool>> \in Seq(V4Pools)
    BY <1>4, SeqOfOne
  <2> QED
    BY <1>2, <2>1 DEF UniswapV4Settings
<1> HIDE DEF single, alone
<1>6. <<alone>> \in Option(UniswapV4Settings) /\ <<alone>>[1] = alone /\ <<alone>> # None
  BY <1>5 DEF Option, None
<1>7. Offering(piece, "uniswap_v4", c.chain_id, resolved)
  BY <1>6, V4Offers
<1>8. resolved = IF v4.pool_manager = None THEN {} ELSE ToSet(ResolveV4Pool(pool, registry))
  <2>1. ToSet(<<pool>>) = {pool}
    BY <1>4, SeqOfOne
  <2>2. resolved = IF v4.pool_manager = None THEN {}
                   ELSE UNION {ToSet(ResolveV4Pool(p, registry)) : p \in {pool}}
    BY <1>5, <1>6, <2>1 DEF V4Resolved
  <2> QED
    BY <2>2
<1>9. piece \in Pieces(single, registry)
      /\ \A other \in Pieces(single, registry) : other = <<>> \/ other = piece
  BY <1>1, PiecesAre, NonePieces
<1> HIDE DEF piece, resolved
<1>10. o \in Offers(piece) <=>
          \E p \in resolved : o = [id |-> "uniswap_v4", factory |-> None, pool |-> p]
  BY <1>7, OffersOfOffering
<1>11. (\E other \in Pieces(single, registry) : o \in Offers(other)) <=> o \in Offers(piece)
  BY <1>9, NothingOffered
<1> QED
  BY <1>8, <1>10, <1>11 DEF single

LEMMA OneCurvePool ==
  ASSUME NEW c \in ChainSettings, NEW registry,
         NEW curve \in ToSet(c.curve), NEW pool \in ToSet(curve), NEW o
  PROVE  (\E piece \in Pieces(WithCurvePool(c, pool), registry) : o \in Offers(piece))
            <=> \E p \in ToSet(ResolveCurvePool(pool, registry)) :
                    o = [id |-> "curve", factory |-> None, pool |-> p]
<1> DEFINE single == WithCurvePool(c, pool)
           alone == <<pool>>
           piece == BuildCurve(c.chain_id, <<alone>>, registry)
           resolved == CurveResolved(<<alone>>, registry)
<1>1. /\ single.chain_id = c.chain_id /\ single.uniswap_v4 = None /\ single.curve = <<alone>>
      /\ \A b \in FactoryBlocks : single[b] = None
  BY CurveFieldsAlone
<1>2. curve \in Seq(CurvePools)
  <2>1. c.curve \in Option(Seq(CurvePools))
    BY ChainFields
  <2> QED
    BY <2>1, OptionIs
<1>3. pool \in CurvePools
  BY <1>2, SeqHas
<1>4. alone \in Seq(CurvePools) /\ ToSet(alone) = {pool}
  BY <1>3, SeqOfOne
<1> HIDE DEF single, alone
<1>5. <<alone>> \in Option(Seq(CurvePools)) /\ <<alone>>[1] = alone /\ <<alone>> # None
  BY <1>4 DEF Option, None
<1>6. Offering(piece, "curve", c.chain_id, resolved)
  BY <1>5, CurveOffers
<1>7. resolved = ToSet(ResolveCurvePool(pool, registry))
  <2>1. resolved = UNION {ToSet(ResolveCurvePool(p, registry)) : p \in {pool}}
    BY <1>4, <1>5 DEF CurveResolved
  <2> QED
    BY <2>1
<1>8. piece \in Pieces(single, registry)
      /\ \A other \in Pieces(single, registry) : other = <<>> \/ other = piece
  BY <1>1, PiecesAre, NonePieces
<1> HIDE DEF piece, resolved
<1>9. o \in Offers(piece) <=>
          \E p \in resolved : o = [id |-> "curve", factory |-> None, pool |-> p]
  BY <1>6, OffersOfOffering
<1>10. (\E other \in Pieces(single, registry) : o \in Offers(other)) <=> o \in Offers(piece)
  BY <1>8, NothingOffered
<1> QED
  BY <1>7, <1>9, <1>10 DEF single

LEMMA ManyV4Pools ==
  ASSUME NEW c \in ChainSettings, NEW registry, NEW o
  PROVE  o \in Offers(BuildUniswapV4(c.chain_id, c.uniswap_v4, registry)) <=>
            \E v4 \in ToSet(c.uniswap_v4) : \E pool \in ToSet(v4.pools) :
                /\ v4.pool_manager # None
                /\ \E p \in ToSet(ResolveV4Pool(pool, registry)) :
                        o = [id |-> "uniswap_v4", factory |-> None, pool |-> p]
<1> DEFINE block == c.uniswap_v4
           resolved == V4Resolved(block, registry)
           piece == BuildUniswapV4(c.chain_id, block, registry)
<1>1. block \in Option(UniswapV4Settings)
  BY ChainFields
<1>2. Offering(piece, "uniswap_v4", c.chain_id, resolved)
  BY <1>1, V4Offers
<1>3. ToSet(block) = IF block = None THEN {} ELSE {block[1]}
  BY <1>1, OptionIs
<1>4. \A p : p \in resolved <=>
          \E v4 \in ToSet(block) : \E pool \in ToSet(v4.pools) :
            v4.pool_manager # None /\ p \in ToSet(ResolveV4Pool(pool, registry))
  BY <1>3 DEF V4Resolved
<1> HIDE DEF resolved, piece, block
<1>5. o \in Offers(piece) <=>
          \E p \in resolved : o = [id |-> "uniswap_v4", factory |-> None, pool |-> p]
  BY <1>2, OffersOfOffering
<1>6. o \in Offers(piece) <=>
        \E v4 \in ToSet(block) : \E pool \in ToSet(v4.pools) :
            /\ v4.pool_manager # None
            /\ \E p \in ToSet(ResolveV4Pool(pool, registry)) :
                    o = [id |-> "uniswap_v4", factory |-> None, pool |-> p]
  BY <1>4, <1>5, Zenon
<1> QED
  BY <1>6 DEF piece, block

LEMMA ManyCurvePools ==
  ASSUME NEW c \in ChainSettings, NEW registry, NEW o
  PROVE  o \in Offers(BuildCurve(c.chain_id, c.curve, registry)) <=>
            \E curve \in ToSet(c.curve) : \E pool \in ToSet(curve) :
                \E p \in ToSet(ResolveCurvePool(pool, registry)) :
                    o = [id |-> "curve", factory |-> None, pool |-> p]
<1> DEFINE block == c.curve
           resolved == CurveResolved(block, registry)
           piece == BuildCurve(c.chain_id, block, registry)
<1>1. block \in Option(Seq(CurvePools))
  BY ChainFields
<1>2. Offering(piece, "curve", c.chain_id, resolved)
  BY <1>1, CurveOffers
<1>3. ToSet(block) = IF block = None THEN {} ELSE {block[1]}
  BY <1>1, OptionIs
<1>4. \A p : p \in resolved <=>
          \E curve \in ToSet(block) : \E pool \in ToSet(curve) :
            p \in ToSet(ResolveCurvePool(pool, registry))
  BY <1>3 DEF CurveResolved
<1> HIDE DEF resolved, piece, block
<1>5. o \in Offers(piece) <=>
          \E p \in resolved : o = [id |-> "curve", factory |-> None, pool |-> p]
  BY <1>2, OffersOfOffering
<1>6. o \in Offers(piece) <=>
        \E curve \in ToSet(block) : \E pool \in ToSet(curve) :
            \E p \in ToSet(ResolveCurvePool(pool, registry)) :
                o = [id |-> "curve", factory |-> None, pool |-> p]
  BY <1>4, <1>5, Zenon
<1> QED
  BY <1>6 DEF piece, block

\* A bad entry costs only itself: an exchange offers what each entry offers alone.
LEMMA OffersAlone ==
  ASSUME NEW c \in ChainSettings, NEW registry, NEW provider, provider # None
  PROVE  Offers(BuildExchanges(c, registry, provider)) =
            UNION {Offers(BuildExchanges(single, registry, provider)) : single \in Singles(c)}
<1> DEFINE Alone(single, o) == \E piece \in Pieces(single, registry) : o \in Offers(piece)
<1>1. ASSUME NEW o
      PROVE  Alone(c, o) <=> \E single \in Singles(c) : Alone(single, o)
  <2> DEFINE V4(pool) == \E p \in ToSet(ResolveV4Pool(pool, registry)) :
                            o = [id |-> "uniswap_v4", factory |-> None, pool |-> p]
             Curve(pool) == \E p \in ToSet(ResolveCurvePool(pool, registry)) :
                            o = [id |-> "curve", factory |-> None, pool |-> p]
  <2>1. Alone(c, o) <=>
          \/ \E block \in FactoryBlocks : o \in Offers(Deployed(block, c.chain_id, c[block]))
          \/ o \in Offers(BuildUniswapV4(c.chain_id, c.uniswap_v4, registry))
          \/ o \in Offers(BuildCurve(c.chain_id, c.curve, registry))
    BY PiecesAre
  <2>2. \A block \in FactoryBlocks :
          Alone(WithFactory(c, block), o)
            <=> o \in Offers(Deployed(block, c.chain_id, c[block]))
    BY OneFactory
  <2>3. \A v4 \in ToSet(c.uniswap_v4) : \A pool \in ToSet(v4.pools) :
          Alone(WithV4Pool(c, v4, pool), o) <=> v4.pool_manager # None /\ V4(pool)
    BY OneV4Pool
  <2>4. \A curve \in ToSet(c.curve) : \A pool \in ToSet(curve) :
          Alone(WithCurvePool(c, pool), o) <=> Curve(pool)
    BY OneCurvePool
  <2>5. o \in Offers(BuildUniswapV4(c.chain_id, c.uniswap_v4, registry)) <=>
          \E v4 \in ToSet(c.uniswap_v4) : \E pool \in ToSet(v4.pools) :
            v4.pool_manager # None /\ V4(pool)
    BY ManyV4Pools
  <2>6. o \in Offers(BuildCurve(c.chain_id, c.curve, registry)) <=>
          \E curve \in ToSet(c.curve) : \E pool \in ToSet(curve) : Curve(pool)
    BY ManyCurvePools
  <2> HIDE DEF Alone, V4, Curve
  <2>7. \A single : single \in Singles(c) <=>
          \/ \E block \in FactoryBlocks : single = WithFactory(c, block)
          \/ \E v4 \in ToSet(c.uniswap_v4) : \E pool \in ToSet(v4.pools) :
                single = WithV4Pool(c, v4, pool)
          \/ \E curve \in ToSet(c.curve) : \E pool \in ToSet(curve) :
                single = WithCurvePool(c, pool)
    BY SinglesAre
  <2>8. ASSUME Alone(c, o) PROVE \E single \in Singles(c) : Alone(single, o)
    <3>1. CASE \E block \in FactoryBlocks : o \in Offers(Deployed(block, c.chain_id, c[block]))
      BY <2>2, <2>7, <3>1, Zenon
    <3>2. CASE o \in Offers(BuildUniswapV4(c.chain_id, c.uniswap_v4, registry))
      BY <2>3, <2>5, <2>7, <3>2, Zenon
    <3>3. CASE o \in Offers(BuildCurve(c.chain_id, c.curve, registry))
      BY <2>4, <2>6, <2>7, <3>3, Zenon
    <3> QED
      BY <2>1, <2>8, <3>1, <3>2, <3>3, Zenon
  <2>9. ASSUME NEW single \in Singles(c), Alone(single, o) PROVE Alone(c, o)
    <3>1. ASSUME NEW block \in FactoryBlocks, single = WithFactory(c, block)
          PROVE  Alone(c, o)
      BY <2>1, <2>2, <2>9, <3>1, Zenon
    <3>2. ASSUME NEW v4 \in ToSet(c.uniswap_v4), NEW pool \in ToSet(v4.pools),
                 single = WithV4Pool(c, v4, pool)
          PROVE  Alone(c, o)
      <4>1. v4.pool_manager # None /\ V4(pool)
        BY <2>3, <2>9, <3>2, Zenon
      <4> QED
        BY <2>1, <2>5, <4>1, Zenon
    <3>3. ASSUME NEW curve \in ToSet(c.curve), NEW pool \in ToSet(curve),
                 single = WithCurvePool(c, pool)
          PROVE  Alone(c, o)
      <4>1. Curve(pool)
        BY <2>4, <2>9, <3>3, Zenon
      <4> QED
        BY <2>1, <2>6, <4>1, Zenon
    <3> QED
      BY <2>7, <3>1, <3>2, <3>3, Zenon
  <2> QED
    BY <2>8, <2>9
<1>2. \A single, o : o \in Offers(BuildExchanges(single, registry, provider))
                        <=> Alone(single, o)
  BY OffersOfPieces
<1> HIDE DEF Alone
<1>3. \A o : o \in Offers(BuildExchanges(c, registry, provider)) <=>
        \E single \in Singles(c) : o \in Offers(BuildExchanges(single, registry, provider))
  BY <1>1, <1>2, Zenon
<1> QED
  BY <1>3, Zenon

-----------------------------------------------------------------------------
(* The inductive invariant. *)

\* Nothing is built yet, or the registry refused an id.
Unbuilt ==
    /\ services = NoServices /\ workers = <<>> /\ published = None /\ turn = 1

\* The services are those of the settings, whose assets all have two parts.
ServicesBuilt ==
    LET ids == {asset.id : asset \in ToSet(settings.assets)}
        built == BuildProviders(settings.chains)
    IN  /\ \A id \in ids : Valid(id)
        /\ services = [registry |-> AssetRegistry(settings.assets),
                       providers |-> built.providers,
                       chains |-> built.chains,
                       price_ids |-> ids,
                       symbols |-> BinanceSymbols(settings.assets)]

\* w is what build_chain makes of entry n.
BuiltFrom(w, n) ==
    LET c == settings.chains[n]
    IN  /\ c.chain_id \in ToSet(services.chains)
        /\ w.entry = n /\ w.chain = c.chain_id
        /\ w.provider = <<services.providers[c.chain_id]>>
        /\ w.exchanges = BuildExchanges(c, services.registry, w.provider)
        /\ w.tracked_tokens = c.tracked_tokens /\ w.start_assets = c.start_assets
        /\ ToSet(c.tracked_tokens) \cup ToSet(c.start_assets) \subseteq AssetIds

\* The workers are those of the served entries that the loop is past, one each.
WorkersBuilt ==
    /\ workers \in Seq(ToSet(workers))
    /\ \A w \in ToSet(workers) : \E n \in 1 .. turn - 1 : BuiltFrom(w, n)
    /\ \A i, j \in DOMAIN workers : workers[i].entry = workers[j].entry => i = j
    /\ pc # "failed" =>
        \A n \in 1 .. turn - 1 :
            settings.chains[n].chain_id \in ToSet(services.chains) =>
                \E w \in ToSet(workers) : w.entry = n

\* Whatever is published has been refreshed by an exchange of its chain.
PublishedByWorkers ==
    /\ DOMAIN published = ToSet(services.chains)
    /\ published = [chain \in DOMAIN published |-> published[chain]]
    /\ \A chain \in DOMAIN published : \A pool \in published[chain] :
        \E w \in ToSet(workers) : \E xch \in ToSet(w.exchanges) :
            w.chain = chain /\ pool \in Refreshed(w, xch)

StartInv ==
    /\ settings \in Settings /\ mode \in {"serve", "once"}
    /\ pc \in {"services", "chains", "warming", "serving", "failed"}
    /\ turn \in 1 .. Len(settings.chains) + 1
    /\ \/ pc \in {"services", "failed"} /\ Unbuilt
       \/ /\ pc # "services"
          /\ ServicesBuilt /\ WorkersBuilt /\ PublishedByWorkers
    /\ pc \in {"warming", "serving"} => turn = Len(settings.chains) + 1
    /\ pc = "failed" => Malformed \/ (mode = "serve" /\ ~settings.api_bind)

LEMMA SettingsFields ==
  ASSUME settings \in Settings
  PROVE  /\ settings.assets \in Seq(AssetSettings)
         /\ settings.chains \in Seq(ChainSettings)
         /\ Len(settings.chains) \in Nat
         /\ DOMAIN settings.chains = 1 .. Len(settings.chains)
         /\ \A n \in 1 .. Len(settings.chains) : settings.chains[n] \in ChainSettings
         /\ ToSet(settings.assets) \subseteq AssetSettings
<1>1. settings.assets \in Seq(AssetSettings) /\ settings.chains \in Seq(ChainSettings)
  BY DEF Settings
<1> QED
  BY <1>1, SeqHas

\* The chains are those of the entries whose node can be reached, and have the
\* providers.
LEMMA ChainsAreServed ==
  ASSUME NEW chains \in Seq(ChainSettings)
  PROVE  /\ ToSet(BuildProviders(chains).chains) =
                {chains[i].chain_id : i \in {n \in DOMAIN chains : chains[n].rpc_url}}
         /\ DOMAIN BuildProviders(chains).providers = ToSet(BuildProviders(chains).chains)
<1> DEFINE usable == {n \in DOMAIN chains : chains[n].rpc_url}
           names == {chains[i].chain_id : i \in usable}
           seqs == [i \in DOMAIN chains |->
                      IF chains[i].rpc_url THEN <<chains[i].chain_id>> ELSE <<>>]
           n == Len(chains)
<1>1. n \in Nat /\ DOMAIN chains = 1 .. n
  BY SeqHas
<1>2. BuildProviders(chains).chains = FlattenSeq(seqs)
  BY DEF BuildProviders
<1>3. DOMAIN BuildProviders(chains).providers = names
  BY DEF BuildProviders, Providers
<1>4. seqs = [i \in 1 .. n |-> seqs[i]]
  BY <1>1
<1>5. \A i \in 1 .. n : seqs[i] = IF i \in usable THEN <<chains[i].chain_id>> ELSE <<>>
  BY <1>1
<1>6. \A x : ToSet(<<x>>) = {x}
  <2> TAKE x
  <2>1. x \in {x}
    OBVIOUS
  <2> QED
    BY <2>1, SeqOfOne
<1>7. \A i \in usable : i \in 1 .. n
  BY <1>1
<1>8. /\ \A i \in usable : chains[i].chain_id \in names
      /\ \A x \in names : \E i \in usable : x = chains[i].chain_id
  OBVIOUS
<1> HIDE DEF seqs, names, n, usable
<1>9. \A i \in 1 .. n : Small(seqs[i]) /\ ToSet(seqs[i]) \subseteq names
  <2> TAKE i \in 1 .. n
  <2>1. CASE i \in usable
    <3>1. PICK x \in names : seqs[i] = <<x>>
      BY <1>5, <1>8, <2>1
    <3> QED
      BY <1>6, <3>1 DEF Small
  <2>2. CASE i \notin usable
    BY <1>5, <2>2, SeqOfNone DEF Small
  <2> QED
    BY <2>1, <2>2
<1>10. \A x \in names : \E i \in 1 .. n : x \in ToSet(seqs[i])
  BY <1>5, <1>6, <1>7, <1>8
<1>11. ToSet(FlattenSeq(seqs)) = names
  BY <1>1, <1>4, <1>9, <1>10, Listed
<1> QED
  BY <1>2, <1>3, <1>11 DEF names, usable

LEMMA ServedChains ==
  ASSUME settings \in Settings, ServicesBuilt
  PROVE  /\ ToSet(services.chains) =
                {settings.chains[i].chain_id :
                    i \in {n \in DOMAIN settings.chains : settings.chains[n].rpc_url}}
         /\ DOMAIN services.providers = ToSet(services.chains)
         /\ services.registry = AssetRegistry(settings.assets)
<1>1. /\ services.chains = BuildProviders(settings.chains).chains
      /\ services.providers = BuildProviders(settings.chains).providers
      /\ services.registry = AssetRegistry(settings.assets)
  BY DEF ServicesBuilt
<1> QED
  BY <1>1, ChainsAreServed, SettingsFields

LEMMA ParseAssetsIs ==
  ASSUME NEW ids \in Seq(Ids)
  PROVE  /\ ToSet(ids) \subseteq AssetIds => ParseAssets(ids) = <<ids>>
         /\ ~(ToSet(ids) \subseteq AssetIds) => ParseAssets(ids) = None
<1>1. \A i \in DOMAIN ids : ids[i] \in Ids
  BY SeqHas
<1>2. (ToSet(ids) \subseteq AssetIds) <=> \A i \in DOMAIN ids : Valid(ids[i])
  BY <1>1 DEF ToSet, AssetIds
<1> QED
  BY <1>2 DEF ParseAssets

LEMMA OneIsNotNone ==
  ASSUME NEW x
  PROVE  <<x>> # None /\ <<x>>[1] = x
<1>1. Len(<<x>>) = 1 /\ Len(None) = 0
  BY DEF None
<1> QED
  BY <1>1

\* build_chain makes the worker of its entry, or refuses an id of it.
LEMMA BuildChainIs ==
  ASSUME settings \in Settings, ServicesBuilt, turn \in 1 .. Len(settings.chains),
         settings.chains[turn].chain_id \in ToSet(services.chains)
  PROVE  LET c == settings.chains[turn]
         IN  \/ /\ BuildChain(c) = None
                /\ ~(ToSet(c.tracked_tokens) \cup ToSet(c.start_assets) \subseteq AssetIds)
             \/ \E w : BuildChain(c) = <<w>> /\ BuiltFrom(w, turn)
<1> DEFINE c == settings.chains[turn]
           tracked == ParseAssets(c.tracked_tokens)
           starts == ParseAssets(c.start_assets)
           provider == IF c.chain_id \in DOMAIN services.providers
                       THEN <<services.providers[c.chain_id]>> ELSE None
           w == [entry |-> turn, chain |-> c.chain_id, provider |-> provider,
                 exchanges |-> BuildExchanges(c, services.registry, provider),
                 tracked_tokens |-> tracked[1], start_assets |-> starts[1],
                 executor |-> BuildExecutor(c)]
<1>1. c \in ChainSettings
  BY SettingsFields
<1>2. c.tracked_tokens \in Seq(Ids) /\ c.start_assets \in Seq(Ids)
  BY <1>1, ChainFields
<1>3. BuildChain(c) = IF None \in {tracked, starts} THEN None ELSE <<w>>
  BY DEF BuildChain
<1>4. w.entry = turn /\ w.chain = c.chain_id /\ w.provider = provider
      /\ w.exchanges = BuildExchanges(c, services.registry, provider)
      /\ w.tracked_tokens = tracked[1] /\ w.start_assets = starts[1]
  OBVIOUS
<1> HIDE DEF w, tracked, starts, provider, c
<1>5. CASE ToSet(c.tracked_tokens) \subseteq AssetIds /\ ToSet(c.start_assets) \subseteq AssetIds
  <2>1. tracked = <<c.tracked_tokens>> /\ starts = <<c.start_assets>>
    BY <1>2, <1>5, ParseAssetsIs DEF tracked, starts
  <2>2. /\ tracked # None /\ starts # None
        /\ tracked[1] = c.tracked_tokens /\ starts[1] = c.start_assets
    BY <2>1, OneIsNotNone
  <2>3. provider = <<services.providers[c.chain_id]>>
    BY ServedChains DEF c, provider
  <2>4. BuiltFrom(w, turn)
    BY <1>4, <1>5, <2>2, <2>3 DEF BuiltFrom, c
  <2>5. BuildChain(c) = <<w>>
    BY <1>3, <2>2
  <2> QED
    BY <2>4, <2>5 DEF c
<1>6. CASE ~(ToSet(c.tracked_tokens) \subseteq AssetIds)
  <2>1. tracked = None
    BY <1>2, <1>6, ParseAssetsIs DEF tracked
  <2> QED
    BY <1>3, <1>6, <2>1 DEF c
<1>7. CASE ~(ToSet(c.start_assets) \subseteq AssetIds)
  <2>1. starts = None
    BY <1>2, <1>7, ParseAssetsIs DEF starts
  <2> QED
    BY <1>3, <1>7, <2>1 DEF c
<1> QED
  BY <1>5, <1>6, <1>7

\* An entry that is served with a malformed id makes the settings malformed.
LEMMA EntryMalformed ==
  ASSUME settings \in Settings, ServicesBuilt, NEW n \in 1 .. Len(settings.chains),
         settings.chains[n].chain_id \in ToSet(services.chains)
  PROVE  LET c == settings.chains[n]
         IN  /\ Served(c)
             /\ ToSet(c.tracked_tokens \o c.start_assets) =
                    ToSet(c.tracked_tokens) \cup ToSet(c.start_assets)
<1> DEFINE c == settings.chains[n]
<1>1. c \in ChainSettings
  BY SettingsFields
<1>2. PICK i \in DOMAIN settings.chains :
        settings.chains[i].rpc_url /\ settings.chains[i].chain_id = c.chain_id
  BY ServedChains
<1>3. settings.chains[i] \in ToSet(settings.chains)
  BY DEF ToSet
<1>4. Served(c)
  BY <1>2, <1>3 DEF Served
<1>5. ToSet(c.tracked_tokens \o c.start_assets) =
        ToSet(c.tracked_tokens) \cup ToSet(c.start_assets)
  BY <1>1, ChainFields, ConcatHolds
<1> QED
  BY <1>4, <1>5

LEMMA StartInit ==
  Init => StartInv
<1> SUFFICES ASSUME Init PROVE StartInv
  OBVIOUS
<1>1. settings \in Settings
  BY StartupAssumption DEF Init
<1>2. Len(settings.chains) \in Nat
  BY <1>1, SettingsFields
<1>3. 1 \in 1 .. Len(settings.chains) + 1
  BY <1>2
<1> QED
  BY <1>1, <1>3 DEF Init, StartInv, Unbuilt

LEMMA StartBuildServices ==
  ASSUME StartInv, BuildServices
  PROVE  StartInv'
<1> DEFINE ids == {asset.id : asset \in ToSet(settings.assets)}
           built == BuildProviders(settings.chains)
<1>1. pc = "services" /\ Unbuilt /\ UNCHANGED <<settings, mode, turn, workers>>
  BY DEF BuildServices, StartInv
<1>2. CASE \A id \in ids : Valid(id)
  <2>1. /\ pc' = "chains"
        /\ services' = [registry |-> AssetRegistry(settings.assets),
                        providers |-> built.providers, chains |-> built.chains,
                        price_ids |-> ids,
                        symbols |-> BinanceSymbols(settings.assets)]
        /\ published' = [c \in ToSet(built.chains) |-> {}]
    BY <1>2 DEF BuildServices
  <2>2. ServicesBuilt'
    BY <1>1, <1>2, <2>1 DEF ServicesBuilt
  <2>3. services'.chains = built.chains
    BY <2>1
  <2>4. PublishedByWorkers'
    BY <2>1, <2>3 DEF PublishedByWorkers
  <2>5. WorkersBuilt'
    <3>1. workers' = <<>> /\ turn' = 1
      BY <1>1 DEF Unbuilt
    <3>2. /\ workers' \in Seq(ToSet(workers')) /\ ToSet(workers') = {}
          /\ DOMAIN workers' = {}
      BY <3>1, SeqOfNone
    <3>3. 1 .. turn' - 1 = {}
      BY <3>1
    <3> QED
      BY <3>2, <3>3 DEF WorkersBuilt
  <2> QED
    BY <1>1, <2>1, <2>2, <2>4, <2>5 DEF StartInv
<1>3. CASE ~(\A id \in ids : Valid(id))
  <2>1. pc' = "failed" /\ UNCHANGED <<services, published>>
    BY <1>3 DEF BuildServices
  <2>2. Malformed'
    BY <1>1, <1>3 DEF Malformed
  <2>3. Unbuilt'
    BY <1>1, <2>1 DEF Unbuilt
  <2> QED
    BY <1>1, <2>1, <2>2, <2>3 DEF StartInv
<1> QED
  BY <1>2, <1>3

\* One turn of the loop, once the services are built.
LEMMA LoopTurn ==
  ASSUME StartInv, StartChain
  PROVE  /\ pc = "chains" /\ turn \in 1 .. Len(settings.chains) /\ turn' = turn + 1
         /\ UNCHANGED <<settings, mode, services, published>>
         /\ ServicesBuilt /\ WorkersBuilt /\ PublishedByWorkers
         /\ turn' \in 1 .. Len(settings.chains) + 1
         /\ \A n \in 1 .. turn' - 1 : n \in 1 .. turn - 1 \/ n = turn
         /\ \A n \in 1 .. turn - 1 : n \in 1 .. turn' - 1 /\ n # turn
         /\ turn \in 1 .. turn' - 1
<1>1. /\ pc = "chains" /\ turn <= Len(settings.chains) /\ turn' = turn + 1
      /\ UNCHANGED <<settings, mode, services, published>>
  BY DEF StartChain
<1>2. ServicesBuilt /\ WorkersBuilt /\ PublishedByWorkers
      /\ turn \in 1 .. Len(settings.chains) + 1 /\ settings \in Settings
  BY <1>1 DEF StartInv
<1>3. Len(settings.chains) \in Nat
  BY <1>2, SettingsFields
<1> QED
  BY <1>1, <1>2, <1>3

LEMMA OneMore ==
  ASSUME NEW s, s \in Seq(ToSet(s)), NEW x
  PROVE  /\ s \o <<x>> \in Seq(ToSet(s \o <<x>>))
         /\ ToSet(s \o <<x>>) = ToSet(s) \cup {x}
         /\ Len(s) \in Nat
         /\ DOMAIN (s \o <<x>>) = 1 .. Len(s) + 1
         /\ \A i \in 1 .. Len(s) : i \in DOMAIN s /\ (s \o <<x>>)[i] = s[i]
                                    /\ s[i] \in ToSet(s)
         /\ (s \o <<x>>)[Len(s) + 1] = x
<1> DEFINE T == ToSet(s) \cup {x}
<1>1. ToSet(s) \subseteq T /\ x \in T
  OBVIOUS
<1> HIDE DEF T
<1>2. s \in Seq(T)
  BY <1>1
<1>3. /\ <<x>> \in Seq(T) /\ Len(<<x>>) = 1 /\ <<x>>[1] = x /\ ToSet(<<x>>) = {x}
  BY <1>1, SeqOfOne
<1>4. s \o <<x>> \in Seq(T) /\ ToSet(s \o <<x>>) = ToSet(s) \cup {x}
  <2> DEFINE t == <<x>>
  <2>1. t \in Seq(T) /\ ToSet(t) = {x}
    BY <1>3
  <2> HIDE DEF t
  <2>2. s \o t \in Seq(T) /\ ToSet(s \o t) = ToSet(s) \cup ToSet(t)
    BY <1>2, <2>1, ConcatHolds
  <2> QED
    BY <2>1, <2>2 DEF t
<1>5. /\ Len(s \o <<x>>) = Len(s) + 1 /\ Len(s) \in Nat
      /\ \A p \in 1 .. Len(s) : (s \o <<x>>)[p] = s[p]
      /\ \A p \in 1 .. 1 : (s \o <<x>>)[Len(s) + p] = <<x>>[p]
  BY <1>2, <1>3, ConcatLies
<1>6. (s \o <<x>>)[Len(s) + 1] = x
  <2>1. 1 \in 1 .. 1
    OBVIOUS
  <2> QED
    BY <1>3, <1>5, <2>1
<1>7. \A i \in 1 .. Len(s) : i \in DOMAIN s /\ s[i] \in ToSet(s)
  BY <1>2, SeqHas DEF ToSet
<1>8. DOMAIN (s \o <<x>>) = 1 .. Len(s) + 1
  BY <1>4, <1>5, SeqHas
<1> QED
  BY <1>4, <1>5, <1>6, <1>7, <1>8 DEF T

LEMMA PublishedStays ==
  ASSUME PublishedByWorkers, UNCHANGED <<workers, published, services>>
  PROVE  PublishedByWorkers'
BY DEF PublishedByWorkers, Refreshed, Discovered

LEMMA StartStartChain ==
  ASSUME StartInv, StartChain
  PROVE  StartInv'
<1> DEFINE c == settings.chains[turn]
           built == BuildChain(c)
<1>1. /\ pc = "chains" /\ turn \in 1 .. Len(settings.chains) /\ turn' = turn + 1
      /\ UNCHANGED <<settings, mode, services, published>>
      /\ ServicesBuilt /\ WorkersBuilt /\ PublishedByWorkers
      /\ turn' \in 1 .. Len(settings.chains) + 1
      /\ \A n \in 1 .. turn' - 1 : n \in 1 .. turn - 1 \/ n = turn
      /\ \A n \in 1 .. turn - 1 : n \in 1 .. turn' - 1 /\ n # turn
      /\ turn \in 1 .. turn' - 1
  BY LoopTurn
<1>2. settings \in Settings /\ mode \in {"serve", "once"}
  BY DEF StartInv
<1>3. ServicesBuilt'
  BY <1>1 DEF ServicesBuilt
<1>4. \A w, n : BuiltFrom(w, n) => BuiltFrom(w, n)'
  BY <1>1 DEF BuiltFrom
<1>5. CASE c.chain_id \notin ToSet(services.chains)
  <2>1. UNCHANGED <<workers, pc>>
    BY <1>5 DEF StartChain
  <2>2. WorkersBuilt'
    BY <1>1, <1>4, <1>5, <2>1 DEF WorkersBuilt
  <2>3. PublishedByWorkers'
    BY <1>1, <2>1, PublishedStays
  <2> QED
    BY <1>1, <1>2, <1>3, <2>1, <2>2, <2>3 DEF StartInv
<1>6. CASE c.chain_id \in ToSet(services.chains)
  <2>0. workers' = workers \o built /\ pc' = IF built = None THEN "failed" ELSE pc
    BY <1>6 DEF StartChain
  <2>1. CASE built = None /\ ~(ToSet(c.tracked_tokens) \cup ToSet(c.start_assets) \subseteq AssetIds)
    <3>1. workers' = workers
      BY <1>1, <2>0, <2>1 DEF WorkersBuilt, None
    <3>2. pc' = "failed"
      BY <2>0, <2>1
    <3>3. WorkersBuilt'
      BY <1>1, <1>4, <3>1, <3>2 DEF WorkersBuilt
    <3>4. PublishedByWorkers'
      BY <1>1, <3>1, PublishedStays
    <3>5. Malformed'
      <4>1. /\ Served(c)
            /\ ToSet(c.tracked_tokens \o c.start_assets) =
                    ToSet(c.tracked_tokens) \cup ToSet(c.start_assets)
        BY <1>1, <1>2, <1>6, EntryMalformed
      <4>2. c \in ToSet(settings.chains)
        BY <1>1, <1>2, SettingsFields DEF ToSet
      <4>3. Malformed
        BY <2>1, <4>1, <4>2 DEF Malformed
      <4> QED
        BY <1>1, <4>3 DEF Malformed, Served
    <3> QED
      BY <1>1, <1>2, <1>3, <3>2, <3>3, <3>4, <3>5 DEF StartInv
  <2>2. ASSUME NEW w, built = <<w>>, BuiltFrom(w, turn) PROVE StartInv'
    <3>1. workers' = workers \o <<w>> /\ pc' = "chains"
      BY <1>1, <2>0, <2>2, OneIsNotNone
    <3>2. workers \in Seq(ToSet(workers))
      BY <1>1 DEF WorkersBuilt
    <3>3. /\ workers' \in Seq(ToSet(workers'))
          /\ ToSet(workers') = ToSet(workers) \cup {w}
          /\ Len(workers) \in Nat
          /\ DOMAIN workers' = 1 .. Len(workers) + 1
          /\ \A i \in 1 .. Len(workers) : i \in DOMAIN workers /\ workers'[i] = workers[i]
                                            /\ workers[i] \in ToSet(workers)
          /\ workers'[Len(workers) + 1] = w
      BY <3>1, <3>2, OneMore
    <3>4. w.entry = turn
      BY <2>2 DEF BuiltFrom
    <3>5. \A v \in ToSet(workers') : \E n \in 1 .. turn' - 1 : BuiltFrom(v, n)'
      BY <1>1, <1>4, <2>2, <3>3 DEF WorkersBuilt
    <3>6. \A i, j \in DOMAIN workers' : workers'[i].entry = workers'[j].entry => i = j
      <4>1. \A v \in ToSet(workers) : v.entry # turn
        BY <1>1 DEF WorkersBuilt, BuiltFrom
      <4>2. \A i \in DOMAIN workers' : i \in 1 .. Len(workers) \/ i = Len(workers) + 1
        BY <3>3
      <4>3. \A i, j \in DOMAIN workers : workers[i].entry = workers[j].entry => i = j
        BY <1>1 DEF WorkersBuilt
      <4> QED
        BY <3>3, <3>4, <4>1, <4>2, <4>3
    <3>7. \A n \in 1 .. turn' - 1 :
            settings'.chains[n].chain_id \in ToSet(services'.chains) =>
                \E v \in ToSet(workers') : v.entry = n
      BY <1>1, <3>3, <3>4 DEF WorkersBuilt
    <3>8. WorkersBuilt'
      BY <3>3, <3>5, <3>6, <3>7 DEF WorkersBuilt
    <3>9. PublishedByWorkers'
      <4>1. \A v \in ToSet(workers) : v \in ToSet(workers')
        BY <3>3
      <4>2. \A v, xch : Refreshed(v, xch)' = Refreshed(v, xch)
        BY DEF Refreshed, Discovered
      <4>3. published' = published /\ services' = services
        BY <1>1
      <4> QED
        BY <1>1, <4>1, <4>2, <4>3 DEF PublishedByWorkers
    <3> QED
      BY <1>1, <1>2, <1>3, <3>1, <3>8, <3>9 DEF StartInv
  <2> QED
    BY <1>1, <1>2, <1>6, <2>1, <2>2, BuildChainIs
<1> QED
  BY <1>5, <1>6

LEMMA StartServe ==
  ASSUME StartInv, Serve
  PROVE  StartInv'
<1>1. /\ pc = "chains" /\ turn > Len(settings.chains)
      /\ pc' = CASE mode = "once" -> "warming"
                 [] mode = "serve" /\ settings.api_bind -> "serving"
                 [] OTHER -> "failed"
      /\ UNCHANGED <<settings, mode, turn, services, workers, published>>
  BY DEF Serve
<1>2. /\ settings \in Settings /\ mode \in {"serve", "once"}
      /\ turn \in 1 .. Len(settings.chains) + 1
      /\ ServicesBuilt /\ WorkersBuilt /\ PublishedByWorkers
  BY <1>1 DEF StartInv
<1>3. turn = Len(settings.chains) + 1
  BY <1>1, <1>2, SettingsFields
<1>4. /\ pc' \in {"warming", "serving", "failed"}
      /\ pc' = "failed" => mode = "serve" /\ ~settings.api_bind
  BY <1>1, <1>2
<1>5. ServicesBuilt'
  BY <1>1, <1>2 DEF ServicesBuilt
<1>6. WorkersBuilt'
  BY <1>1, <1>2, <1>4 DEF WorkersBuilt, BuiltFrom
<1>7. PublishedByWorkers'
  BY <1>1, <1>2 DEF PublishedByWorkers, Refreshed, Discovered
<1> QED
  BY <1>1, <1>2, <1>3, <1>4, <1>5, <1>6, <1>7 DEF StartInv

LEMMA StartSyncTick ==
  ASSUME StartInv, NEW i \in DOMAIN workers, SyncTick(workers[i])
  PROVE  StartInv'
<1> DEFINE w == workers[i]
<1>1. UNCHANGED <<settings, mode, pc, turn, services, workers>>
  BY DEF SyncTick
<1>2. PICK answered \in SUBSET ToSet(w.exchanges) :
        published' = [published EXCEPT ![w.chain] =
                        UNION {Refreshed(w, xch) : xch \in answered}]
  BY DEF SyncTick
<1>3. w \in ToSet(workers)
  BY DEF ToSet
<1>4. pc # "services" /\ ServicesBuilt /\ WorkersBuilt /\ PublishedByWorkers
  <2>1. ~Unbuilt
    BY SeqOfNone DEF Unbuilt
  <2> QED
    BY <2>1 DEF StartInv
<1>5. ServicesBuilt'
  BY <1>1, <1>4 DEF ServicesBuilt
<1>6. WorkersBuilt'
  BY <1>1, <1>4 DEF WorkersBuilt, BuiltFrom
<1>7. \A v, xch : Refreshed(v, xch)' = Refreshed(v, xch)
  BY DEF Refreshed, Discovered
<1> HIDE DEF w
<1>8. DOMAIN published' = DOMAIN published
  BY <1>2
<1>9. PublishedByWorkers'
  <2>1. published' = [chain \in DOMAIN published' |-> published'[chain]]
    BY <1>2, <1>8
  <2>2. DOMAIN published' = ToSet(services'.chains)
    BY <1>1, <1>4, <1>8 DEF PublishedByWorkers
  <2>3. ASSUME NEW chain \in DOMAIN published', NEW pool \in published'[chain]
        PROVE  \E v \in ToSet(workers) : \E xch \in ToSet(v.exchanges) :
                    v.chain = chain /\ pool \in Refreshed(v, xch)
    <3>1. CASE chain = w.chain
      <4>1. pool \in UNION {Refreshed(w, xch) : xch \in answered}
        BY <1>2, <1>8, <2>3, <3>1
      <4>2. PICK xch \in answered : pool \in Refreshed(w, xch)
        BY <4>1
      <4> QED
        BY <1>2, <1>3, <3>1, <4>2
    <3>2. CASE chain # w.chain
      <4>1. pool \in published[chain] /\ chain \in DOMAIN published
        BY <1>2, <1>8, <2>3, <3>2
      <4> QED
        BY <1>4, <4>1 DEF PublishedByWorkers
    <3> QED
      BY <3>1, <3>2
  <2> QED
    BY <1>1, <1>7, <2>1, <2>2, <2>3 DEF PublishedByWorkers
<1> QED
  BY <1>1, <1>4, <1>5, <1>6, <1>9 DEF StartInv, Malformed, Served

\* The start keeps to its phases: until the services are built there is nothing,
\* and from then on each worker is what build_chain makes of its entry, one per
\* served entry the loop is past, and each published pool is one that a worker of
\* its chain has refreshed; it ends only for a malformed id or an unbound socket.
THEOREM StartInvariant ==
  Spec => []StartInv
<1>1. StartInv /\ [Next]_vars => StartInv'
  <2> SUFFICES ASSUME StartInv, [Next]_vars PROVE StartInv'
    OBVIOUS
  <2>1. CASE BuildServices
    BY <2>1, StartBuildServices
  <2>2. CASE StartChain
    BY <2>2, StartStartChain
  <2>3. CASE Serve
    BY <2>3, StartServe
  <2>4. ASSUME NEW i \in DOMAIN workers, SyncTick(workers[i]) PROVE StartInv'
    BY <2>4, StartSyncTick
  <2>5. CASE UNCHANGED vars
    <3>1. UNCHANGED <<settings, mode, pc, turn, services, workers, published>>
      BY <2>5 DEF vars
    <3>2. (Unbuilt <=> Unbuilt') /\ (ServicesBuilt <=> ServicesBuilt')
          /\ (Malformed <=> Malformed')
      BY <3>1 DEF Unbuilt, ServicesBuilt, Malformed, Served
    <3>3. WorkersBuilt <=> WorkersBuilt'
      BY <3>1 DEF WorkersBuilt, BuiltFrom
    <3>4. PublishedByWorkers <=> PublishedByWorkers'
      BY <3>1 DEF PublishedByWorkers, Refreshed, Discovered
    <3> QED
      BY <3>1, <3>2, <3>3, <3>4 DEF StartInv
  <2> QED
    BY <2>1, <2>2, <2>3, <2>4, <2>5 DEF Next
<1> QED
  BY <1>1, StartInit, PTL DEF Spec

-----------------------------------------------------------------------------
(* What the pools of a worker are published with. *)

LEMMA EqualSeqs ==
  ASSUME NEW S, NEW T, NEW s \in Seq(S), NEW t \in Seq(T), Len(s) = Len(t),
         \A i \in 1 .. Len(s) : s[i] = t[i]
  PROVE  s = t
OBVIOUS

\* The assets of a key, through this program's names and back.
There(chain, cores) ==
    [i \in DOMAIN ArbAssets(chain, cores) |-> CoreAsset(ArbAssets(chain, cores)[i])]

LEMMA ThereType ==
  ASSUME NEW chain \in ChainNames, NEW cores \in Seq(CoreAssets)
  PROVE  There(chain, cores) \in Seq(CoreAssets)
<1> DEFINE arb == ArbAssets(chain, cores)
<1>1. CASE chain = ""
  <2>1. ToSet(arb) = {}
    BY <1>1, ArbAssetsOfNone
  <2>2. DOMAIN arb = {}
    BY <2>1 DEF ToSet
  <2>3. There(chain, cores) = <<>>
    BY <2>2 DEF There
  <2> QED
    BY <2>3, SeqOfNone
<1>2. CASE chain # ""
  <2>1. arb \in Seq(AssetIds)
    BY <1>2, ArbAssetsAre
  <2> HIDE DEF arb
  <2>2. Len(arb) \in Nat /\ DOMAIN arb = 1 .. Len(arb)
        /\ \A i \in DOMAIN arb : arb[i] \in Ids
    BY <2>1, SeqHas DEF AssetIds
  <2>3. [i \in DOMAIN arb |-> CoreAsset(arb[i])] \in [1 .. Len(arb) -> CoreAssets]
    BY <2>2, CoreAssetType
  <2>4. [i \in DOMAIN arb |-> CoreAsset(arb[i])] \in Seq(CoreAssets)
    BY <2>2, <2>3, SeqIs
  <2> QED
    BY <2>4 DEF There, arb
<1> QED
  BY <1>1, <1>2

LEMMA RefreshedIs ==
  ASSUME NEW w, NEW xch, NEW pool \in Refreshed(w, xch)
  PROVE  \E key \in SourceDiscover(xch, ChainNumber(w.chain),
                                   {CoreAsset(id) : id \in ToSet(w.tracked_tokens)}) :
            pool.assets = ArbAssets(xch.chain, There(xch.chain, key.assets))
<1> DEFINE tokens == {CoreAsset(id) : id \in ToSet(w.tracked_tokens)}
           keys == SourceDiscover(xch, ChainNumber(w.chain), tokens)
<1>1. Discovered(w, xch) = {ToArbKey(xch, key) : key \in keys}
  BY DEF Discovered
<1> HIDE DEF tokens, keys
<1>2. PICK core \in SourceRefresh({ToCoreKey(key) : key \in Discovered(w, xch)}) :
        pool = ArbPool(xch.chain, core)
  BY DEF Refreshed
<1>3. PICK arb \in Discovered(w, xch) :
        core = [id |-> ToCoreKey(arb).address, assets |-> ToCoreKey(arb).assets]
  BY <1>2 DEF SourceRefresh
<1>4. PICK key \in keys : arb = ToArbKey(xch, key)
  BY <1>1, <1>3
<1>5. arb.assets = ArbAssets(xch.chain, key.assets)
  BY <1>4 DEF ToArbKey
<1>6. core.assets = There(xch.chain, key.assets)
  <2>1. ToCoreKey(arb).assets = [i \in DOMAIN arb.assets |-> CoreAsset(arb.assets[i])]
    BY DEF ToCoreKey
  <2> QED
    BY <1>3, <1>5, <2>1 DEF There
<1>7. pool.assets = ArbAssets(xch.chain, There(xch.chain, key.assets))
  BY <1>2, <1>6 DEF ArbPool
<1> QED
  BY <1>7 DEF keys, tokens

\* A key that discover answers: of an exchange with a factory, with assets that
\* are all tracked, or of one without, with the coins of a pool listed.
Sourced(assets, tokens, c, registry) ==
    \/ assets # <<>> /\ ToSet(assets) \subseteq tokens
    \/ \E ids \in V4Listings(c) \cup CurveListings(c) :
        /\ ids \in Seq(Ids) /\ ToSet(ids) \subseteq DOMAIN registry
        /\ Len(assets) = Len(ids)
        /\ \A i \in 1 .. Len(ids) : assets[i] = CoreAsset(ids[i])
        /\ Len(ids) = 2 \/ ids \in CurveListings(c)

IsKey(key, id, number) ==
    key = [exchange |-> id, chain |-> number, address |-> key.address,
           assets |-> key.assets, fee |-> key.fee]

LEMMA KeyIs ==
  ASSUME NEW c, NEW registry, NEW xch, ExchangeOf(xch, c, registry),
         NEW number \in Nat, NEW tokens, NEW key \in SourceDiscover(xch, number, tokens)
  PROVE  /\ IsKey(key, xch.id, number)
         /\ key.assets \in Seq(CoreAssets)
         /\ key.fee \in Option(0 .. 2^16 - 1)
         /\ Sourced(key.assets, tokens, c, registry)
<1>1. CASE xch.factory = None
  <2>1. PICK pool \in ToSet(xch.listed) :
          key = [exchange |-> xch.id, chain |-> number, address |-> pool.address,
                 assets |-> pool.assets, fee |-> None]
    BY <1>1 DEF SourceDiscover
  <2>2. PICK ids \in V4Listings(c) \cup CurveListings(c) :
          Lists(pool, ids, registry) /\ (Len(ids) = 2 \/ ids \in CurveListings(c))
    BY DEF ExchangeOf
  <2>3. None \in Option(0 .. 2^16 - 1)
    BY DEF Option
  <2>4. key.assets = pool.assets /\ key.fee = None /\ key.address = pool.address
    BY <2>1
  <2>5. IsKey(key, xch.id, number)
    BY <2>1 DEF IsKey
  <2>6. /\ ids \in Seq(Ids) /\ ToSet(ids) \subseteq DOMAIN registry
        /\ pool.assets \in Seq(CoreAssets) /\ Len(pool.assets) = Len(ids)
        /\ \A i \in 1 .. Len(ids) : pool.assets[i] = CoreAsset(ids[i])
    BY <2>2 DEF Lists
  <2> QED
    BY <2>2, <2>3, <2>4, <2>5, <2>6 DEF Sourced
<1>2. CASE xch.factory # None
  <2>1. key \in FactoryPools /\ key.exchange = xch.id /\ key.chain = number
        /\ ToSet(key.assets) \subseteq tokens
    BY <1>2 DEF SourceDiscover
  <2>2. key \in FactoryKeys
    BY <2>1, StartupAssumption
  <2>3. /\ key.assets \in Seq(CoreAssets) \ {<<>>}
        /\ key.fee \in Option(0 .. 2^16 - 1)
        /\ IsKey(key, key.exchange, key.chain)
    BY <2>2 DEF FactoryKeys, IsKey
  <2> QED
    BY <2>1, <2>3 DEF Sourced
<1> QED
  BY <1>1, <1>2

LEMMA WorkerFields ==
  ASSUME settings \in Settings, NEW w, NEW n \in 1 .. Len(settings.chains), BuiltFrom(w, n)
  PROVE  /\ settings.chains[n] \in ChainSettings
         /\ w.entry = n /\ w.chain = settings.chains[n].chain_id /\ w.chain \in ChainNames
         /\ w.provider = <<services.providers[w.chain]>> /\ w.provider # None
         /\ w.chain \in ToSet(services.chains)
         /\ w.tracked_tokens = settings.chains[n].tracked_tokens
         /\ w.tracked_tokens \in Seq(Ids)
         /\ w.exchanges = BuildExchanges(settings.chains[n], services.registry, w.provider)
         /\ \A xch \in ToSet(w.exchanges) :
                xch.chain = w.chain
                /\ ExchangeOf(xch, settings.chains[n], services.registry)
<1> DEFINE c == settings.chains[n]
<1>1. c \in ChainSettings
  BY SettingsFields
<1> HIDE DEF c
<1>2. /\ w.entry = n /\ w.chain = c.chain_id /\ c.chain_id \in ToSet(services.chains)
      /\ w.provider = <<services.providers[c.chain_id]>>
      /\ w.exchanges = BuildExchanges(c, services.registry, w.provider)
      /\ w.tracked_tokens = c.tracked_tokens
  BY DEF BuiltFrom, c
<1>3. c.chain_id \in ChainNames /\ c.tracked_tokens \in Seq(Ids)
  BY <1>1, ChainFields
<1>4. \A xch \in ToSet(w.exchanges) : ExchangeOf(xch, c, services.registry)
  BY <1>1, <1>2, ExchangesAre
<1>5. \A xch : ExchangeOf(xch, c, services.registry) => xch.chain = c.chain_id
  BY DEF ExchangeOf
<1>6. w.provider # None
  BY <1>2, OneIsNotNone
<1> QED
  BY <1>1, <1>2, <1>3, <1>4, <1>5, <1>6 DEF c

LEMMA RefreshedIds ==
  ASSUME settings \in Settings, NEW w, NEW n \in 1 .. Len(settings.chains), BuiltFrom(w, n),
         NEW xch \in ToSet(w.exchanges), NEW pool \in Refreshed(w, xch)
  PROVE  ToSet(pool.assets) \subseteq AssetIds
<1> DEFINE tokens == {CoreAsset(id) : id \in ToSet(w.tracked_tokens)}
<1>1. /\ w.chain \in ChainNames /\ xch.chain = w.chain
      /\ ExchangeOf(xch, settings.chains[n], services.registry)
  BY WorkerFields
<1>2. ChainNumber(w.chain) \in Nat
  BY <1>1, ChainNumberIsNat
<1>3. PICK key \in SourceDiscover(xch, ChainNumber(w.chain), tokens) :
        pool.assets = ArbAssets(xch.chain, There(xch.chain, key.assets))
  BY RefreshedIs
<1> HIDE DEF tokens
<1>4. key.assets \in Seq(CoreAssets)
  BY <1>1, <1>2, <1>3, KeyIs
<1>5. There(xch.chain, key.assets) \in Seq(CoreAssets)
  BY <1>1, <1>4, ThereType
<1> QED
  BY <1>1, <1>3, <1>5, ArbAssetsType

\* `assets` are those of ids that worker w tracks or the registry has, in the
\* lower case that the example settings ask for, and not none.
IdsOf(w, assets) ==
    \E ids \in Seq(Ids) :
        /\ Len(ids) = Len(assets) /\ ids # <<>>
        /\ \A i \in 1 .. Len(ids) :
            assets[i] = CoreAsset(ids[i]) /\ Lowercase(w.chain, ids[i])
        /\ ToSet(ids) \subseteq ToSet(w.tracked_tokens) \cup DOMAIN services.registry

\* Where the ids are as the example settings ask for, the assets of a key are
\* those of ids that are tracked or registered, and not none.
LEMMA ConformingKey ==
  ASSUME settings \in Settings, NEW w, NEW n \in 1 .. Len(settings.chains), BuiltFrom(w, n),
         Conforms(w), NEW xch \in ToSet(w.exchanges),
         NEW key \in SourceDiscover(xch, ChainNumber(w.chain),
                                    {CoreAsset(id) : id \in ToSet(w.tracked_tokens)})
  PROVE  /\ w.chain # "" /\ key.assets \in Seq(CoreAssets)
         /\ IdsOf(w, key.assets)
<1> DEFINE c == settings.chains[n]
           tokens == {CoreAsset(id) : id \in ToSet(w.tracked_tokens)}
           coins == V4CoinsOf(c) \cup CurveCoinsOf(c)
<1>1. /\ w.entry = n /\ w.chain = c.chain_id /\ w.chain \in ChainNames
      /\ w.tracked_tokens \in Seq(Ids)
      /\ ExchangeOf(xch, c, services.registry)
  BY WorkerFields
<1>2. /\ \A id \in ToSet(w.tracked_tokens) \cup coins : w.chain # "" /\ Lowercase(w.chain, id)
      /\ \A pool \in CurvePoolsOf(c) : pool.coins # <<>>
  BY <1>1 DEF Conforms
<1>3. ChainNumber(w.chain) \in Nat
  BY <1>1, ChainNumberIsNat
<1>4. \A ids \in V4Listings(c) : \E x, y \in coins : ids = <<x, y>>
  <2> TAKE ids \in V4Listings(c)
  <2>1. PICK v4 \in ToSet(c.uniswap_v4) :
          ids \in UNION {{<<pool.coin0, pool.coin1>>, <<pool.coin1, pool.coin0>>} :
                            pool \in ToSet(v4.pools)}
    BY DEF V4Listings
  <2>2. PICK pool \in ToSet(v4.pools) :
          ids \in {<<pool.coin0, pool.coin1>>, <<pool.coin1, pool.coin0>>}
    BY <2>1
  <2>3. pool \in V4PoolsOf(c)
    BY <2>1, <2>2 DEF V4PoolsOf
  <2>4. pool.coin0 \in V4CoinsOf(c) /\ pool.coin1 \in V4CoinsOf(c)
    BY <2>3 DEF V4CoinsOf
  <2> QED
    BY <2>2, <2>4
<1>5. \A ids \in CurveListings(c) : ToSet(ids) \subseteq coins /\ ids # <<>>
  <2> TAKE ids \in CurveListings(c)
  <2>1. PICK curve \in ToSet(c.curve) : ids \in {pool.coins : pool \in ToSet(curve)}
    BY DEF CurveListings
  <2>2. PICK pool \in ToSet(curve) : ids = pool.coins
    BY <2>1
  <2>3. pool \in CurvePoolsOf(c)
    BY <2>1, <2>2 DEF CurvePoolsOf
  <2>4. ToSet(pool.coins) \subseteq CurveCoinsOf(c)
    BY <2>3 DEF CurveCoinsOf
  <2> QED
    BY <1>2, <2>2, <2>3, <2>4
<1> HIDE DEF coins, c
<1>6. key.assets \in Seq(CoreAssets) /\ Sourced(key.assets, tokens, c, services.registry)
  <2> DEFINE number == ChainNumber(w.chain)
  <2>1. number \in Nat /\ key \in SourceDiscover(xch, number, tokens)
    BY <1>3
  <2> HIDE DEF number, tokens
  <2> QED
    BY <1>1, <2>1, KeyIs
<1>7. CASE key.assets # <<>> /\ ToSet(key.assets) \subseteq tokens
  <2> DEFINE m == Len(key.assets)
             origin(i) == CHOOSE id \in ToSet(w.tracked_tokens) : CoreAsset(id) = key.assets[i]
             ids == [i \in 1 .. m |-> origin(i)]
  <2>1. m \in Nat /\ DOMAIN key.assets = 1 .. m
    BY <1>6, SeqHas
  <2>2. \A i \in 1 .. m : key.assets[i] \in tokens
    BY <1>7, <2>1 DEF ToSet
  <2>3. \A i \in 1 .. m : origin(i) \in ToSet(w.tracked_tokens)
                            /\ CoreAsset(origin(i)) = key.assets[i]
    BY <2>2
  <2>4. 1 \in 1 .. m
    <3>1. m # 0
      BY <1>6, <1>7
    <3> QED
      BY <2>1, <3>1
  <2> HIDE DEF origin
  <2>5. ids \in [1 .. m -> ToSet(w.tracked_tokens)]
    BY <2>3
  <2>6. \A i \in 1 .. m : ids[i] = origin(i)
    OBVIOUS
  <2> HIDE DEF ids, m
  <2>7. ids \in Seq(ToSet(w.tracked_tokens)) /\ Len(ids) = m
    BY <2>1, <2>5, SeqIs
  <2>8. ToSet(w.tracked_tokens) \subseteq Ids
    BY <1>1, SeqHas
  <2>9. ids \in Seq(Ids) /\ ToSet(ids) \subseteq ToSet(w.tracked_tokens)
    BY <2>7, <2>8, SeqHas
  <2>10. ids # <<>>
    BY <2>4, <2>7, SeqOfNone
  <2>11. \A i \in 1 .. m : key.assets[i] = CoreAsset(ids[i]) /\ Lowercase(w.chain, ids[i])
    BY <1>2, <2>3, <2>6
  <2>12. w.chain # ""
    BY <1>2, <2>3, <2>4
  <2> QED
    BY <1>6, <2>7, <2>9, <2>10, <2>11, <2>12 DEF m, IdsOf
<1>8. ASSUME NEW ids \in V4Listings(c) \cup CurveListings(c),
             ids \in Seq(Ids), ToSet(ids) \subseteq DOMAIN services.registry,
             Len(key.assets) = Len(ids),
             \A i \in 1 .. Len(ids) : key.assets[i] = CoreAsset(ids[i])
      PROVE  /\ w.chain # "" /\ ids # <<>>
             /\ \A i \in 1 .. Len(ids) : Lowercase(w.chain, ids[i])
  <2>1. ToSet(ids) \subseteq coins /\ ids # <<>>
    <3>1. CASE ids \in V4Listings(c)
      <4>1. PICK x, y \in coins : ids = <<x, y>>
        BY <1>4, <3>1
      <4>2. Len(<<x, y>>) = 2 /\ <<x, y>> \in Seq(coins)
        OBVIOUS
      <4> QED
        BY <4>1, <4>2, SeqHas, SeqOfNone
    <3>2. CASE ids \in CurveListings(c)
      BY <1>5, <3>2
    <3> QED
      BY <1>8, <3>1, <3>2
  <2>2. Len(ids) \in Nat /\ DOMAIN ids = 1 .. Len(ids)
    BY <1>8, SeqHas
  <2>3. \A i \in 1 .. Len(ids) : ids[i] \in coins
    BY <2>1, <2>2 DEF ToSet
  <2>4. 1 \in 1 .. Len(ids)
    <3>1. Len(ids) # 0
      BY <1>8, <2>1
    <3> QED
      BY <2>2, <3>1
  <2> QED
    BY <1>2, <2>1, <2>3, <2>4
<1> QED
  BY <1>6, <1>7, <1>8 DEF Sourced, IdsOf

\* Such a key comes back as it was, and its pool is published with those ids.
LEMMA KeyComesBack ==
  ASSUME NEW chain \in ChainNames \ {""}, NEW cores \in Seq(CoreAssets), NEW ids \in Seq(Ids),
         Len(ids) = Len(cores),
         \A i \in 1 .. Len(ids) : cores[i] = CoreAsset(ids[i]) /\ Lowercase(chain, ids[i])
  PROVE  ArbAssets(chain, cores) = ids /\ There(chain, cores) = cores
<1>1. ArbAssets(chain, cores) \in Seq(AssetIds)
      /\ Len(ArbAssets(chain, cores)) = Len(cores)
      /\ \A i \in 1 .. Len(cores) : ArbAssets(chain, cores)[i] = ArbAsset(chain, cores[i])[1]
  BY ArbAssetsAre
<1>2. Len(ids) \in Nat /\ DOMAIN ids = 1 .. Len(ids) /\ \A i \in DOMAIN ids : ids[i] \in Ids
  BY SeqHas
<1>3. \A i \in 1 .. Len(ids) : ArbAsset(chain, cores[i])[1] = ids[i]
  BY <1>2, LowercaseComesBack
<1>4. ArbAssets(chain, cores) = ids
  <2> DEFINE arb == ArbAssets(chain, cores)
  <2>1. arb \in Seq(AssetIds) /\ Len(arb) = Len(ids) /\ \A i \in 1 .. Len(arb) : arb[i] = ids[i]
    BY <1>1, <1>3
  <2> HIDE DEF arb
  <2>2. arb = ids
    BY <2>1, EqualSeqs
  <2> QED
    BY <2>2 DEF arb
<1>5. There(chain, cores) = [i \in DOMAIN ids |-> CoreAsset(ids[i])]
  BY <1>4 DEF There
<1>6. There(chain, cores) \in Seq(CoreAssets)
  BY ThereType
<1>7. Len(There(chain, cores)) = Len(cores)
  <2>1. There(chain, cores) \in [1 .. Len(ids) -> CoreAssets]
    BY <1>2, <1>5, CoreAssetType
  <2> QED
    BY <1>2, <2>1, SeqIs
<1>8. \A i \in 1 .. Len(cores) : There(chain, cores)[i] = cores[i]
  BY <1>2, <1>5
<1>9. There(chain, cores) = cores
  <2> DEFINE there == There(chain, cores)
  <2>1. there \in Seq(CoreAssets) /\ Len(there) = Len(cores)
        /\ \A i \in 1 .. Len(there) : there[i] = cores[i]
    BY <1>6, <1>7, <1>8
  <2> HIDE DEF there
  <2>2. there = cores
    BY <2>1, EqualSeqs
  <2> QED
    BY <2>2 DEF there
<1> QED
  BY <1>4, <1>9

-----------------------------------------------------------------------------
(* The properties. *)

LEMMA RegistryIs ==
  ASSUME settings \in Settings, ServicesBuilt
  PROVE  /\ DOMAIN services.registry = {asset.id : asset \in ToSet(settings.assets)}
         /\ DOMAIN services.registry \subseteq AssetIds
<1>1. DOMAIN services.registry = {asset.id : asset \in ToSet(settings.assets)}
  BY ServedChains DEF AssetRegistry
<1>2. ASSUME NEW asset \in ToSet(settings.assets) PROVE asset.id \in AssetIds
  <2>1. asset.id \in Ids
    BY SettingsFields DEF AssetSettings
  <2>2. Valid(asset.id)
    BY DEF ServicesBuilt
  <2> QED
    BY <2>1, <2>2 DEF AssetIds
<1> QED
  BY <1>1, <1>2

LEMMA WorkerIs ==
  ASSUME StartInv, NEW w \in ToSet(workers)
  PROVE  /\ settings \in Settings /\ ServicesBuilt /\ WorkersBuilt /\ PublishedByWorkers
         /\ \E n \in 1 .. Len(settings.chains) : BuiltFrom(w, n)
<1>1. ~Unbuilt
  BY SeqOfNone DEF Unbuilt
<1>2. settings \in Settings /\ ServicesBuilt /\ WorkersBuilt /\ PublishedByWorkers
      /\ turn \in 1 .. Len(settings.chains) + 1
  BY <1>1 DEF StartInv
<1>3. PICK n \in 1 .. turn - 1 : BuiltFrom(w, n)
  BY <1>2 DEF WorkersBuilt
<1>4. n \in 1 .. Len(settings.chains)
  BY <1>2, SettingsFields
<1> QED
  BY <1>2, <1>3, <1>4

LEMMA TypeStep ==
  StartInv => StartTypeOK
<1> SUFFICES ASSUME StartInv PROVE StartTypeOK
  OBVIOUS
<1>1. /\ pc \in {"services", "chains", "warming", "serving", "failed"}
      /\ turn \in 1 .. Len(settings.chains) + 1 /\ settings \in Settings
  BY DEF StartInv
<1>2. CASE Unbuilt
  <2>1. /\ services.registry = <<>> /\ services.chains = <<>>
        /\ workers = <<>> /\ published = <<>>
    BY <1>2 DEF Unbuilt, NoServices, None
  <2> QED
    BY <1>1, <2>1, SeqOfNone DEF StartTypeOK
<1>3. CASE ServicesBuilt /\ WorkersBuilt /\ PublishedByWorkers
  <2>1. DOMAIN services.registry \subseteq AssetIds
    BY <1>1, <1>3, RegistryIs
  <2>2. ASSUME NEW w \in ToSet(workers)
        PROVE  ToSet(w.tracked_tokens) \cup ToSet(w.start_assets) \subseteq AssetIds
    <3>1. PICK n \in 1 .. Len(settings.chains) : BuiltFrom(w, n)
      BY WorkerIs
    <3> QED
      BY <3>1 DEF BuiltFrom
  <2>3. ASSUME NEW chain \in DOMAIN published, NEW pool \in published[chain]
        PROVE  ToSet(pool.assets) \subseteq AssetIds
    <3>1. PICK w \in ToSet(workers) : \E xch \in ToSet(w.exchanges) : pool \in Refreshed(w, xch)
      BY <1>3 DEF PublishedByWorkers
    <3>2. PICK n \in 1 .. Len(settings.chains) : BuiltFrom(w, n)
      BY WorkerIs
    <3> QED
      BY <1>1, <3>1, <3>2, RefreshedIds
  <2>4. DOMAIN published = ToSet(services.chains)
    BY <1>3 DEF PublishedByWorkers
  <2> QED
    BY <1>1, <2>1, <2>2, <2>3, <2>4 DEF StartTypeOK
<1> QED
  BY <1>2, <1>3 DEF StartInv

\* Whatever the settings hold, no id without its two parts gets into the
\* registry, a worker, a scanner or a published pool, though amm-rs makes the
\* pools' names anew, and a snapshot is published only for a chain that is served.
THEOREM StartTypes ==
  Spec => []StartTypeOK
BY StartInvariant, TypeStep, PTL

LEMMA FailureStep ==
  StartInv => FailsOnlyOnIds
<1> SUFFICES ASSUME StartInv PROVE FailsOnlyOnIds
  OBVIOUS
<1>1. pc = "failed" => Malformed \/ (mode = "serve" /\ ~settings.api_bind)
  BY DEF StartInv
<1>2. ASSUME pc \in {"warming", "serving"} PROVE ~Malformed
  <2>1. /\ settings \in Settings /\ ServicesBuilt /\ WorkersBuilt
        /\ turn = Len(settings.chains) + 1 /\ pc # "failed"
    BY <1>2 DEF StartInv
  <2>2. \A asset \in ToSet(settings.assets) : Valid(asset.id)
    BY <2>1 DEF ServicesBuilt
  <2>3. ASSUME NEW c \in ToSet(settings.chains), Served(c)
        PROVE  ToSet(c.tracked_tokens \o c.start_assets) \subseteq AssetIds
    <3>1. PICK n \in 1 .. Len(settings.chains) : c = settings.chains[n]
      BY <2>1, SettingsFields DEF ToSet
    <3>2. PICK i \in DOMAIN settings.chains :
            settings.chains[i].rpc_url /\ settings.chains[i].chain_id = c.chain_id
      BY <2>3 DEF Served, ToSet
    <3>3. c.chain_id \in ToSet(services.chains)
      BY <2>1, <3>2, ServedChains
    <3>4. n \in 1 .. turn - 1
      BY <2>1, <3>1, SettingsFields
    <3>5. PICK w \in ToSet(workers) : w.entry = n
      BY <2>1, <3>1, <3>3, <3>4 DEF WorkersBuilt
    <3>6. PICK m \in 1 .. Len(settings.chains) : BuiltFrom(w, m)
      BY WorkerIs
    <3>7. m = n
      BY <3>5, <3>6 DEF BuiltFrom
    <3>8. ToSet(c.tracked_tokens) \cup ToSet(c.start_assets) \subseteq AssetIds
      BY <3>1, <3>6, <3>7 DEF BuiltFrom
    <3>9. ToSet(c.tracked_tokens \o c.start_assets) =
            ToSet(c.tracked_tokens) \cup ToSet(c.start_assets)
      BY <2>1, <3>1, <3>3, EntryMalformed
    <3> QED
      BY <3>8, <3>9
  <2> QED
    BY <2>2, <2>3 DEF Malformed
<1> QED
  BY <1>1, <1>2 DEF FailsOnlyOnIds

\* However many entries there are, and whatever their nodes, factories, pool
\* tables and executors hold: the start fails for a malformed id or a socket that
\* cannot be bound and nothing else, and never goes through with a malformed id.
THEOREM FailsOnIdsAlone ==
  Spec => []FailsOnlyOnIds
BY StartInvariant, FailureStep, PTL

LEMMA StandAloneStep ==
  StartInv => EntriesStandAlone
<1> SUFFICES ASSUME StartInv, NEW w \in ToSet(workers)
             PROVE  Offers(w.exchanges) =
                        UNION {Offers(BuildExchanges(single, services.registry, w.provider)) :
                                single \in Singles(settings.chains[w.entry])}
  BY DEF EntriesStandAlone
<1>1. PICK n \in 1 .. Len(settings.chains) : BuiltFrom(w, n) /\ settings \in Settings
  BY WorkerIs
<1>2. /\ settings.chains[n] \in ChainSettings /\ w.entry = n /\ w.provider # None
      /\ w.exchanges = BuildExchanges(settings.chains[n], services.registry, w.provider)
  BY <1>1, WorkerFields
<1> QED
  BY <1>2, OffersAlone

\* However many factories and pools an entry lists, and whatever is wrong with
\* some of them: its worker reads what each of them gives alone, no less, no more.
THEOREM BadEntriesCostThemselves ==
  Spec => []EntriesStandAlone
BY StartInvariant, StandAloneStep, PTL

LEMMA CoinOrderStep ==
  StartInv => CoinOrderIsFree
<1> SUFFICES ASSUME StartInv, NEW w \in ToSet(workers),
                    NEW v4 \in ToSet(settings.chains[w.entry].uniswap_v4),
                    NEW pool \in ToSet(v4.pools),
                    AssetAddress(pool.coin0) # AssetAddress(pool.coin1)
             PROVE  ResolveV4Pool(pool, services.registry) =
                        ResolveV4Pool([pool EXCEPT !.coin0 = pool.coin1,
                                                   !.coin1 = pool.coin0],
                                      services.registry)
  BY DEF CoinOrderIsFree
<1>1. PICK n \in 1 .. Len(settings.chains) : BuiltFrom(w, n) /\ settings \in Settings
  BY WorkerIs
<1> DEFINE c == settings.chains[w.entry]
<1>2. c \in ChainSettings
  BY <1>1, WorkerFields
<1>3. v4 \in ToSet(c.uniswap_v4)
  OBVIOUS
<1> HIDE DEF c
<1>4. v4 \in UniswapV4Settings
  <2>1. c.uniswap_v4 \in Option(UniswapV4Settings)
    BY <1>2, ChainFields
  <2> QED
    BY <1>3, <2>1, OptionIs
<1>5. v4.pools \in Seq(V4Pools)
  BY <1>4 DEF UniswapV4Settings
<1>6. pool \in V4Pools
  BY <1>5, SeqHas
<1> QED
  BY <1>6, V4PoolIsSorted

\* A V4 pool is the same with its coins swapped, for any coins: with an address
\* each, with one that is hashed, or unknown to the registry.
THEOREM CoinsInAnyOrder ==
  Spec => []CoinOrderIsFree
BY StartInvariant, CoinOrderStep, PTL

LEMMA OneWorkerStep ==
  StartInv => OneWorkerPerServedChain
<1> SUFFICES ASSUME StartInv, pc \in {"warming", "serving"}
             PROVE  /\ {w.chain : w \in ToSet(workers)} = ToSet(services.chains)
                    /\ DOMAIN services.providers = ToSet(services.chains)
                    /\ NamesAreDistinct =>
                        /\ \A w \in ToSet(workers) : w.provider = <<w.entry>>
                        /\ \A i, j \in DOMAIN workers :
                            workers[i].chain = workers[j].chain => i = j
  BY DEF OneWorkerPerServedChain
<1>1. /\ settings \in Settings /\ ServicesBuilt /\ WorkersBuilt
      /\ turn = Len(settings.chains) + 1 /\ pc # "failed"
  BY DEF StartInv
<1>2. /\ Len(settings.chains) \in Nat /\ DOMAIN settings.chains = 1 .. Len(settings.chains)
      /\ \A n \in 1 .. Len(settings.chains) : n \in 1 .. turn - 1
  BY <1>1, SettingsFields
<1>3. \A w \in ToSet(workers) : \E n \in 1 .. Len(settings.chains) : BuiltFrom(w, n)
  BY WorkerIs
<1>4. /\ ToSet(services.chains) =
            {settings.chains[i].chain_id :
                i \in {n \in DOMAIN settings.chains : settings.chains[n].rpc_url}}
      /\ DOMAIN services.providers = ToSet(services.chains)
  BY <1>1, ServedChains
<1>5. {w.chain : w \in ToSet(workers)} = ToSet(services.chains)
  <2>1. \A w \in ToSet(workers) : w.chain \in ToSet(services.chains)
    BY <1>3 DEF BuiltFrom
  <2>2. ASSUME NEW name \in ToSet(services.chains)
        PROVE  \E w \in ToSet(workers) : w.chain = name
    <3>1. PICK i \in 1 .. Len(settings.chains) : settings.chains[i].chain_id = name
      BY <1>2, <1>4
    <3>2. PICK w \in ToSet(workers) : w.entry = i
      BY <1>1, <1>2, <3>1 DEF WorkersBuilt
    <3>3. PICK n \in 1 .. Len(settings.chains) : BuiltFrom(w, n)
      BY <1>3
    <3> QED
      BY <3>1, <3>2, <3>3 DEF BuiltFrom
  <2> QED
    BY <2>1, <2>2
<1>6. ASSUME NamesAreDistinct, NEW w \in ToSet(workers) PROVE w.provider = <<w.entry>>
  <2>1. PICK n \in 1 .. Len(settings.chains) : BuiltFrom(w, n)
    BY <1>3
  <2> DEFINE name == settings.chains[n].chain_id
             usable == {i \in DOMAIN settings.chains : settings.chains[i].rpc_url}
             named == {i \in usable : settings.chains[i].chain_id = name}
  <2>2. w.entry = n /\ w.provider = <<services.providers[name]>>
        /\ name \in ToSet(services.chains)
    BY <2>1 DEF BuiltFrom
  <2>3. named = {n}
    <3>1. \A i \in named : i = n
      BY <1>2, <1>6 DEF NamesAreDistinct
    <3>2. PICK i \in usable : settings.chains[i].chain_id = name
      BY <1>4, <2>2
    <3> QED
      BY <3>1, <3>2
  <2>4. services.providers[name] = Max(named)
    <3>1. services.providers = Providers(settings.chains)
      BY <1>1 DEF ServicesBuilt, BuildProviders
    <3>2. name \in {settings.chains[i].chain_id : i \in usable}
      BY <1>4, <2>2
    <3> QED
      BY <3>1, <3>2 DEF Providers
  <2>5. Max({n}) = n
    BY DEF Max
  <2> QED
    BY <2>2, <2>3, <2>4, <2>5
<1>7. ASSUME NamesAreDistinct, NEW i \in DOMAIN workers, NEW j \in DOMAIN workers,
             workers[i].chain = workers[j].chain
      PROVE  i = j
  <2>1. workers[i] \in ToSet(workers) /\ workers[j] \in ToSet(workers)
    BY DEF ToSet
  <2>2. PICK n \in 1 .. Len(settings.chains) : BuiltFrom(workers[i], n)
    BY <1>3, <2>1
  <2>3. PICK m \in 1 .. Len(settings.chains) : BuiltFrom(workers[j], m)
    BY <1>3, <2>1
  <2>4. n = m
    BY <1>2, <1>7, <2>2, <2>3 DEF BuiltFrom, NamesAreDistinct
  <2>5. workers[i].entry = workers[j].entry
    BY <2>2, <2>3, <2>4 DEF BuiltFrom
  <2> QED
    BY <1>1, <2>5 DEF WorkersBuilt
<1> QED
  BY <1>4, <1>5, <1>6, <1>7

\* For any number of entries: once all are started, the chains listed are those
\* with a node, each has a worker, and where names are distinct exactly one, which
\* reads the node of its own entry.
THEOREM WorkersMatchChains ==
  Spec => []OneWorkerPerServedChain
BY StartInvariant, OneWorkerStep, PTL

LEMMA OneFeedStep ==
  StartInv => OneFeedPerSymbol
<1> SUFFICES ASSUME StartInv PROVE OneFeedPerSymbol
  OBVIOUS
<1>1. CASE Unbuilt
  <2>1. services = NoServices /\ services.price_ids = {} /\ services.registry = <<>>
    BY <1>1 DEF Unbuilt, NoServices, None
  <2> QED
    BY <2>1, SeqOfNone DEF OneFeedPerSymbol
<1>2. CASE ServicesBuilt
  <2>0. settings \in Settings
    BY DEF StartInv
  <2>1. /\ services.price_ids = {asset.id : asset \in ToSet(settings.assets)}
        /\ services.symbols = BinanceSymbols(settings.assets)
    BY <1>2 DEF ServicesBuilt
  <2>2. services.price_ids = DOMAIN services.registry
    BY <1>2, <2>0, <2>1, RegistryIs
  <2> DEFINE named == {asset \in ToSet(settings.assets) : asset.binance_symbol # None}
             symbol(asset) == Upper[asset.binance_symbol[1]]
             hung(s) == {asset.id : asset \in {other \in named : symbol(other) = s}}
  <2>3. services.symbols = [s \in {symbol(asset) : asset \in named} |-> hung(s)]
    BY <2>1 DEF BinanceSymbols
  <2>4. ASSUME NEW a \in named, NEW b \in named, symbol(a) = symbol(b)
        PROVE  \E s \in DOMAIN services.symbols : {a.id, b.id} \subseteq services.symbols[s]
    <3>1. symbol(a) \in DOMAIN services.symbols
          /\ services.symbols[symbol(a)] = hung(symbol(a))
      BY <2>3
    <3>2. a.id \in hung(symbol(a)) /\ b.id \in hung(symbol(a))
      BY <2>4
    <3> QED
      BY <3>1, <3>2
  <2> QED
    BY <2>2, <2>4 DEF OneFeedPerSymbol
<1> QED
  BY <1>1, <1>2 DEF StartInv

\* However the symbols are written: the poller asks for the very assets the
\* registry knows, and assets of one symbol hang on one stream.
THEOREM OneStreamPerSymbol ==
  Spec => []OneFeedPerSymbol
BY StartInvariant, OneFeedStep, PTL

\* The coins of what an entry lists are its coins.
LEMMA ListingsAreCoins ==
  ASSUME NEW c, NEW ids \in V4Listings(c) \cup CurveListings(c)
  PROVE  ToSet(ids) \subseteq V4CoinsOf(c) \cup CurveCoinsOf(c)
<1>1. CASE ids \in V4Listings(c)
  <2>1. PICK v4 \in ToSet(c.uniswap_v4) :
          ids \in UNION {{<<pool.coin0, pool.coin1>>, <<pool.coin1, pool.coin0>>} :
                            pool \in ToSet(v4.pools)}
    BY <1>1 DEF V4Listings
  <2>2. PICK pool \in ToSet(v4.pools) :
          ids \in {<<pool.coin0, pool.coin1>>, <<pool.coin1, pool.coin0>>}
    BY <2>1
  <2>3. pool \in V4PoolsOf(c)
    BY <2>1, <2>2 DEF V4PoolsOf
  <2>4. pool.coin0 \in V4CoinsOf(c) /\ pool.coin1 \in V4CoinsOf(c)
    BY <2>3 DEF V4CoinsOf
  <2>5. \A x, y \in V4CoinsOf(c) : ToSet(<<x, y>>) \subseteq V4CoinsOf(c)
    <3> TAKE x, y \in V4CoinsOf(c)
    <3>1. <<x, y>> \in Seq(V4CoinsOf(c))
      OBVIOUS
    <3> QED
      BY <3>1, SeqHas
  <2> QED
    BY <2>2, <2>4, <2>5
<1>2. CASE ids \in CurveListings(c)
  <2>1. PICK curve \in ToSet(c.curve) : ids \in {pool.coins : pool \in ToSet(curve)}
    BY <1>2 DEF CurveListings
  <2>2. PICK pool \in ToSet(curve) : ids = pool.coins
    BY <2>1
  <2>3. pool \in CurvePoolsOf(c)
    BY <2>1, <2>2 DEF CurvePoolsOf
  <2>4. ToSet(pool.coins) \subseteq CurveCoinsOf(c)
    BY <2>3 DEF CurveCoinsOf
  <2> QED
    BY <2>2, <2>4
<1> QED
  BY <1>1, <1>2

LEMMA U16 == 2^16 \in Nat \ {0}
OBVIOUS

LEMMA RemaindersOfOption ==
  ASSUME NEW n \in Nat \ {0}, NEW x \in Option(0 .. n - 1)
  PROVE  [i \in DOMAIN x |-> x[i] % n] = x
<1>1. CASE x = None
  BY <1>1, SeqOfNone DEF None
<1>2. CASE x \in [1 .. 1 -> 0 .. n - 1]
  <2>1. \A v \in 0 .. n - 1 : v % n = v
    BY Remainders
  <2>2. x = [i \in 1 .. 1 |-> x[i]] /\ DOMAIN x = 1 .. 1
    BY <1>2
  <2>3. \A i \in 1 .. 1 : x[i] % n = x[i]
    <3>1. \A i \in 1 .. 1 : x[i] \in 0 .. n - 1
      BY <1>2
    <3> QED
      BY <2>1, <3>1, Zenon
  <2> QED
    BY <2>2, <2>3
<1> QED
  BY <1>1, <1>2 DEF Option

LEMMA FeeFits ==
  ASSUME NEW fee \in Option(0 .. 2^16 - 1)
  PROVE  [i \in DOMAIN fee |-> fee[i] % 2^16] = fee
BY U16, RemaindersOfOption

LEMMA KnownStep ==
  StartInv => PublishedIsKnown
<1> SUFFICES ASSUME StartInv, NEW chain \in DOMAIN published,
                    \A w \in WorkersOf(chain) : Conforms(w)
             PROVE  /\ \A pool \in published[chain] :
                        /\ pool.assets # <<>>
                        /\ ToSet(pool.assets) \subseteq
                                TrackedOn(chain) \cup DOMAIN services.registry
                    /\ \A w \in WorkersOf(chain) : \A xch \in ToSet(w.exchanges) :
                        \A pool \in ToSet(xch.listed) : \A i \in DOMAIN pool.decimals :
                            LET id == ArbAsset(chain, pool.assets[i])[1]
                            IN  /\ id \in DOMAIN services.registry
                                /\ services.registry[id] = pool.decimals[i]
  BY DEF PublishedIsKnown
<1> DEFINE own == WorkersOf(chain)
<1>0. \A w : w \in own <=> w \in ToSet(workers) /\ w.chain = chain
  BY DEF WorkersOf
<1> HIDE DEF own
<1>1. ASSUME NEW pool \in published[chain]
      PROVE  \E w \in own :
                /\ pool.assets # <<>>
                /\ ToSet(pool.assets) \subseteq
                        ToSet(w.tracked_tokens) \cup DOMAIN services.registry
  <2>1. PublishedByWorkers
    <3>1. CASE Unbuilt
      BY <3>1, SeqOfNone DEF Unbuilt, None
    <3> QED
      BY <3>1 DEF StartInv
  <2>2. PICK w \in ToSet(workers) : \E xch \in ToSet(w.exchanges) :
          w.chain = chain /\ pool \in Refreshed(w, xch)
    BY <2>1 DEF PublishedByWorkers
  <2>3. PICK xch \in ToSet(w.exchanges) : w.chain = chain /\ pool \in Refreshed(w, xch)
    BY <2>2
  <2>4. Conforms(w) /\ w \in own
    BY <1>0, <2>3 DEF own
  <2>5. PICK n \in 1 .. Len(settings.chains) : BuiltFrom(w, n) /\ settings \in Settings
    BY WorkerIs
  <2>6. xch.chain = w.chain /\ w.chain \in ChainNames
    BY <2>5, WorkerFields
  <2>7. PICK key \in SourceDiscover(xch, ChainNumber(w.chain),
                                    {CoreAsset(id) : id \in ToSet(w.tracked_tokens)}) :
          pool.assets = ArbAssets(xch.chain, There(xch.chain, key.assets))
    BY <2>3, RefreshedIs
  <2>8. /\ w.chain # "" /\ key.assets \in Seq(CoreAssets)
        /\ IdsOf(w, key.assets)
    BY <2>4, <2>5, ConformingKey
  <2>9. PICK ids \in Seq(Ids) :
            /\ Len(ids) = Len(key.assets) /\ ids # <<>>
            /\ \A i \in 1 .. Len(ids) :
                key.assets[i] = CoreAsset(ids[i]) /\ Lowercase(w.chain, ids[i])
            /\ ToSet(ids) \subseteq ToSet(w.tracked_tokens) \cup DOMAIN services.registry
    BY <2>8 DEF IdsOf
  <2>10. /\ ArbAssets(w.chain, key.assets) = ids
         /\ There(w.chain, key.assets) = key.assets
    BY <2>6, <2>8, <2>9, KeyComesBack
  <2>11. pool.assets = ids
    BY <2>6, <2>7, <2>10
  <2> QED
    BY <2>4, <2>9, <2>11
<1>2. ASSUME NEW w \in own, NEW xch \in ToSet(w.exchanges), NEW pool \in ToSet(xch.listed),
             NEW i \in DOMAIN pool.decimals
      PROVE  /\ ArbAsset(chain, pool.assets[i])[1] \in DOMAIN services.registry
             /\ services.registry[ArbAsset(chain, pool.assets[i])[1]] = pool.decimals[i]
  <2>1. PICK n \in 1 .. Len(settings.chains) : BuiltFrom(w, n) /\ settings \in Settings
    BY <1>0, WorkerIs
  <2> DEFINE c == settings.chains[n]
  <2>2. /\ ExchangeOf(xch, c, services.registry) /\ w.chain = chain
        /\ chain \in ChainNames /\ w.entry = n /\ c.chain_id = chain
    BY <1>0, <2>1, WorkerFields
  <2>3. Conforms(w)
    BY DEF own
  <2>4. \A id \in V4CoinsOf(c) \cup CurveCoinsOf(c) : chain # "" /\ Lowercase(chain, id)
    BY <2>2, <2>3 DEF Conforms
  <2> HIDE DEF c
  <2>5. PICK ids \in V4Listings(c) \cup CurveListings(c) :
          Lists(pool, ids, services.registry)
    BY <2>2 DEF ExchangeOf
  <2>6. ToSet(ids) \subseteq V4CoinsOf(c) \cup CurveCoinsOf(c)
    BY <2>5, ListingsAreCoins
  <2>7. /\ ids \in Seq(Ids) /\ ToSet(ids) \subseteq DOMAIN services.registry
        /\ i \in 1 .. Len(ids) /\ pool.assets[i] = CoreAsset(ids[i])
        /\ pool.decimals[i] = services.registry[ids[i]]
    BY <2>5 DEF Lists
  <2>8. ids[i] \in ToSet(ids) /\ ids[i] \in Ids
    BY <2>7, SeqHas DEF ToSet
  <2>9. ArbAsset(chain, CoreAsset(ids[i]))[1] = ids[i]
    BY <2>2, <2>4, <2>6, <2>8, LowercaseComesBack
  <2> QED
    BY <2>7, <2>8, <2>9
<1>3. ASSUME NEW pool \in published[chain]
      PROVE  /\ pool.assets # <<>>
             /\ ToSet(pool.assets) \subseteq TrackedOn(chain) \cup DOMAIN services.registry
  <2>1. PICK w \in own : /\ pool.assets # <<>>
                         /\ ToSet(pool.assets) \subseteq
                                ToSet(w.tracked_tokens) \cup DOMAIN services.registry
    BY <1>1
  <2>2. ToSet(w.tracked_tokens) \subseteq TrackedOn(chain)
    BY DEF TrackedOn, own
  <2> QED
    BY <2>1, <2>2
<1> QED
  BY <1>2, <1>3 DEF own

\* For any address, and any number of chains, tokens and pools: where the settings
\* keep to lower case, a published pool has assets, each of them byte for byte an
\* id that is tracked or registered, and a Curve pool computes with the registry's
\* decimals for them.
THEOREM PublishedMeetsRegistry ==
  Spec => []PublishedIsKnown
BY StartInvariant, KnownStep, PTL

LEMMA KeysStep ==
  StartInv => KeysSurvive
<1> SUFFICES ASSUME StartInv, NEW w \in ToSet(workers), Conforms(w),
                    NEW xch \in ToSet(w.exchanges),
                    NEW key \in SourceDiscover(xch, ChainNumber(w.chain),
                                    {CoreAsset(id) : id \in ToSet(w.tracked_tokens)})
             PROVE  ToCoreKey(ToArbKey(xch, key)) = key
  BY DEF KeysSurvive
<1> DEFINE number == ChainNumber(w.chain)
           tokens == {CoreAsset(id) : id \in ToSet(w.tracked_tokens)}
           registry == services.registry
<1>1. PICK n \in 1 .. Len(settings.chains) : BuiltFrom(w, n) /\ settings \in Settings
  BY WorkerIs
<1> DEFINE c == settings.chains[n]
<1>2. /\ xch.chain = w.chain /\ w.chain \in ChainNames
      /\ ExchangeOf(xch, c, registry)
  BY <1>1, WorkerFields
<1>3. /\ w.chain # "" /\ key.assets \in Seq(CoreAssets)
      /\ IdsOf(w, key.assets)
  BY <1>1, ConformingKey
<1>4. There(w.chain, key.assets) = key.assets
  <2>1. PICK ids \in Seq(Ids) :
          /\ Len(ids) = Len(key.assets)
          /\ \A i \in 1 .. Len(ids) :
              key.assets[i] = CoreAsset(ids[i]) /\ Lowercase(w.chain, ids[i])
    BY <1>3 DEF IdsOf
  <2> QED
    BY <1>2, <1>3, <2>1, KeyComesBack
<1>5. number \in Nat /\ key \in SourceDiscover(xch, number, tokens)
  BY <1>2, ChainNumberIsNat
<1> HIDE DEF number, tokens, c, registry
<1>6. /\ key = [exchange |-> xch.id, chain |-> number, address |-> key.address,
                assets |-> key.assets, fee |-> key.fee]
      /\ key.fee \in Option(0 .. 2^16 - 1)
  <2>1. key.fee \in Option(0 .. 2^16 - 1)
    BY <1>2, <1>5, KeyIs
  <2>2. IsKey(key, xch.id, number)
    BY <1>2, <1>5, KeyIs
  <2> QED
    BY <2>1, <2>2 DEF IsKey
<1>7. [i \in DOMAIN key.fee |-> key.fee[i] % 2^16] = key.fee
  BY <1>6, FeeFits
<1> DEFINE arb == ToArbKey(xch, key)
<1>8. /\ arb.exchange = xch.id /\ arb.chain = w.chain /\ arb.address = key.address
      /\ arb.assets = ArbAssets(w.chain, key.assets) /\ arb.fee = key.fee
  BY <1>2 DEF ToArbKey
<1> HIDE DEF arb
<1>9. ToCoreKey(arb) =
        [exchange |-> xch.id, chain |-> number, address |-> key.address,
         assets |-> There(w.chain, key.assets), fee |-> key.fee]
  BY <1>7, <1>8 DEF ToCoreKey, There, number
<1>10. ToCoreKey(arb) = key
  BY <1>4, <1>6, <1>9
<1> QED
  BY <1>10 DEF arb

\* For any address and fee tier: the key that amm-rs is asked to refresh is the one
\* it discovered, though it went through this program's names in between.
THEOREM KeysComeBack ==
  Spec => []KeysSurvive
BY StartInvariant, KeysStep, PTL
=============================================================================
