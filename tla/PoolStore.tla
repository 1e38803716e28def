------------------------------ MODULE PoolStore ------------------------------
(***************************************************************************)
(* ArcSwapPoolStore (src/src/adapters/pool_store/mod.rs): one atomically    *)
(* swapped snapshot per configured chain. It is what a sync worker and a    *)
(* scanner share, together with the wall clock they both read.              *)
(***************************************************************************)
EXTENDS Snapshots

VARIABLES
    clock,  \* OffsetDateTime::now_utc()
    slot    \* slot[c]: the snapshot the store serves for chain c

\* ArcSwapPoolStore::new: every chain starts with the empty snapshot.
StoreInit ==
    /\ clock = StartOfTime
    /\ slot = [c \in Chains |-> EmptySnapshot]

\* store(): publish a snapshot by one pointer swap.
Store(c, snap) == slot' = [slot EXCEPT ![c] = snap]

\* snapshot(): load the snapshot served now.
Load(c) == slot[c]
=============================================================================
