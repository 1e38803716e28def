------------------------------ MODULE Snapshots ------------------------------
(***************************************************************************)
(* The values the sync worker and the scanner exchange: an immutable       *)
(* PoolSnapshot, the entries it is built from, and the two questions the   *)
(* scanner asks of it about the age of a path's pools.                     *)
(*                                                                         *)
(* An entry is one quotable pool with its provenance:                      *)
(*   xch           position of its exchange in SyncWorker.exchanges        *)
(*   pool          the PoolId                                              *)
(*   state         the on-chain state the pool quotes from: the block it   *)
(*                 was read at, and which fork of that block               *)
(*   synced_block, synced_at    the PoolMeta stamped by the worker         *)
(* The Vec<PoolEntry> given to from_entries is in exchange order, so the   *)
(* set of entries determines it: of two entries with the same PoolId the   *)
(* one of the later exchange is the one inserted last in by_id.            *)
(***************************************************************************)
EXTENDS Integers

CONSTANTS
    Chains,         \* the configured chains
    Pools,          \* every PoolId any exchange may list
    NumExchanges,   \* length of SyncWorker.exchanges
    MaxStaleness    \* config::MAX_POOL_STALENESS, in clock units

ASSUME NumExchangesAssumption == NumExchanges \in Nat
ASSUME MaxStalenessAssumption == MaxStaleness \in Nat

Exchanges == 1 .. NumExchanges

\* The wall clock starts here: OffsetDateTime::UNIX_EPOCH is 0 and every real
\* reading is later than it by more than the staleness bound.
Epoch == 0
StartOfTime == MaxStaleness + 1

\* The state of a pool as of one block of one fork.
States == [block : Nat, fork : Nat]

Entries == [xch : Exchanges, pool : Pools, state : States,
            synced_block : Nat, synced_at : Nat]

Snapshots == [block : Nat, taken_at : Nat, entries : SUBSET Entries]

-----------------------------------------------------------------------------
(* PoolSnapshot::from_entries. Its indexes are functions of the entries, so *)
(* they are operators here: by_asset is every entry (duplicates included),  *)
(* by_id keeps the last entry inserted for each PoolId.                     *)

FromEntries(block, taken_at, entries) ==
    [block |-> block, taken_at |-> taken_at, entries |-> entries]

\* empty_snapshot(): what a chain serves before its first sync.
EmptySnapshot == FromEntries(0, Epoch, {})

\* PoolSnapshot::get: the by_id entry of a pool that is present.
Present(snap) == {e.pool : e \in snap.entries}

Get(snap, id) ==
    CHOOSE e \in snap.entries :
        /\ e.pool = id
        /\ \A f \in snap.entries : f.pool = id => f.xch <= e.xch

-----------------------------------------------------------------------------
(* The freshness guard. A path enters it only through the pools of its      *)
(* hops, so here a path is that set of pools.                               *)

\* is_fresh: every pool is present and was synced at most MaxStaleness ago.
IsFresh(snap, path, now) ==
    \A p \in path :
        /\ p \in Present(snap)
        /\ now - Get(snap, p).synced_at <= MaxStaleness

\* worst_synced_at: the oldest sync time on the path; a missing pool counts as
\* synced at the epoch.
SyncedAt(snap, p) ==
    IF p \in Present(snap) THEN Get(snap, p).synced_at ELSE Epoch

WorstSyncedAt(snap, path) ==
    LET times == {SyncedAt(snap, p) : p \in path}
    IN  CHOOSE t \in times : \A u \in times : t <= u
=============================================================================
