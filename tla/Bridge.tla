-------------------------------- MODULE Bridge --------------------------------
(***************************************************************************)
(* The names of assets, and their translation between this program, where   *)
(* an asset is "chain:token", and amm-rs, where it is a chain number with a  *)
(* 32-byte slot (src/src/adapters/exchanges). Names are compared byte by     *)
(* byte, so every way of writing a token is a token of its own here.         *)
(*                                                                         *)
(* An Option<x> is <<>> or <<x>>. An id is the pair of its parts, "" for a   *)
(* part that is missing; a token with a colon in it is not modelled. An      *)
(* address is its number, and so is a slot.                                  *)
(***************************************************************************)
EXTENDS Integers, Sequences, SequencesExt

CONSTANTS
    ChainNames,     \* the chain namespaces settings may use, "" among them
    TokenNames,     \* the texts settings may use for a token, "" among them
    AddressSpace,   \* how many addresses there are: 2^160
    AddressOf,      \* AddressOf[t]: the address that t parses to, if any
    Lower,          \* Lower[a]: the lower-case hex of address a
    Hash,           \* Hash[t]: keccak256 of t
    Fnv             \* Fnv[c]: the FNV-1a hash of a chain name

None == <<>>
Option(S) == {None} \cup [1 .. 1 -> S]

Addresses == 0 .. AddressSpace - 1

ASSUME BridgeAssumption ==
    /\ AddressSpace \in Nat \ {0}
    /\ AddressOf \in [TokenNames -> Option(Addresses)]
    /\ \A a \in Addresses : Lower[a] \in TokenNames \ {""} /\ AddressOf[Lower[a]] = <<a>>
    /\ Hash \in [TokenNames -> Nat]
    /\ Fnv \in [ChainNames -> Nat]

Ids == [chain : ChainNames, token : TokenNames]

\* AssetId::new takes an id with two parts.
Valid(id) == id.chain # "" /\ id.token # ""

AssetIds == {id \in Ids : Valid(id)}

-----------------------------------------------------------------------------
(* To amm-rs. *)

\* chain_id: the number of a chain.
KnownChains ==
    [ethereum |-> 1, optimism |-> 10, bsc |-> 56, bnb |-> 56, bnbchain |-> 56,
     polygon |-> 137, base |-> 8453, arbitrum |-> 42161, avalanche |-> 43114]

ChainNumber(name) ==
    IF name \in DOMAIN KnownChains THEN KnownChains[name] ELSE Fnv[name]

\* amm_core's AssetId: a chain number with a slot.
CoreAssets == [chain : Nat, slot : Nat]

\* asset_address.
AssetAddress(id) == AddressOf[id.token]

\* A mistake: every token is hashed.
CoreAssetHashed(id) == [chain |-> ChainNumber(id.chain), slot |-> Hash[id.token]]

\* core_asset: an address is its own slot, any other token is hashed.
CoreAsset(id) ==
    [chain |-> ChainNumber(id.chain),
     slot |-> IF AssetAddress(id) = None THEN Hash[id.token] ELSE AssetAddress(id)[1]]

\* AmmRpcExchange::to_core_key.
ToCoreKey(key) ==
    [exchange |-> key.exchange,
     chain |-> ChainNumber(key.chain),
     address |-> key.address,
     assets |-> [i \in DOMAIN key.assets |-> CoreAsset(key.assets[i])],
     fee |-> [i \in DOMAIN key.fee |-> key.fee[i] % 2^16]]

-----------------------------------------------------------------------------
(* From amm-rs. *)

\* A mistake: an address is written as alloy displays it, in mixed case.
ArbAssetChecksummed(chain, core) ==
    LET written == {t \in TokenNames : AddressOf[t] = <<core.slot % AddressSpace>>}
        shown == CHOOSE t \in written :
                    written # {Lower[core.slot % AddressSpace]} =>
                        t # Lower[core.slot % AddressSpace]
    IN  IF chain = "" THEN None ELSE <<[chain |-> chain, token |-> shown]>>

\* arb_asset: the lower-case address in the slot's last bytes, under the name
\* of the exchange's chain, whatever chain the slot was made for.
ArbAsset(chain, core) ==
    IF chain = "" THEN None
    ELSE <<[chain |-> chain, token |-> Lower[core.slot % AddressSpace]]>>

\* filter_map(arb_asset).
ArbAssets(chain, cores) ==
    FlattenSeq([i \in DOMAIN cores |-> ArbAsset(chain, cores[i])])

\* AmmRpcExchange::to_arb_key.
ToArbKey(xch, key) ==
    [exchange |-> xch.id, chain |-> xch.chain, address |-> key.address,
     assets |-> ArbAssets(xch.chain, key.assets), fee |-> key.fee]

\* AmmCorePool::new.
ArbPool(chain, pool) ==
    [id |-> pool.id, assets |-> ArbAssets(chain, pool.assets)]
=============================================================================
