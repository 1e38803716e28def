------------------------------- MODULE PoolSync -------------------------------
(***************************************************************************)
(* One SyncWorker per chain, publishing to the pool store                   *)
(* (src/src/adapters/pool_store/mod.rs).                                    *)
(*                                                                         *)
(* A tick of a worker is split at its awaits, where the chain, the clock    *)
(* and the readers of the store move on:                                    *)
(*   reading     latest_block() is on its way to the RPC node               *)
(*   answered    the node has answered; the reply has not been read yet     *)
(*   refreshing  the block is pinned; every supporting exchange discovers,  *)
(*               then refreshes, concurrently (join_all)                    *)
(*   sleeping    the tick ended, published or failed                        *)
(*                                                                         *)
(* The chain is part of the environment: it grows, its newest block may be  *)
(* replaced by a fork, and the RPC node that answers latest_block may lag   *)
(* behind the head. Calls may fail and nothing in the code times them out.  *)
(***************************************************************************)
EXTENDS PoolStore, Sequences

CONSTANTS
    Listing,    \* Listing[c][x]: the pools exchange x can discover on chain c
    Supported,  \* Supported[c]: the exchanges whose supports(c) holds
    MaxLag,     \* how many blocks the answering RPC node may trail the head
    MaxBlock,   \* bound on the length of a chain
    MaxFork,    \* bound on how often one block is replaced by a fork
    MaxClock    \* bound on the wall clock

ASSUME ListingAssumption == Listing \in [Chains -> [Exchanges -> SUBSET Pools]]
ASSUME SupportedAssumption == Supported \in [Chains -> SUBSET Exchanges]
ASSUME BoundsAssumption ==
    /\ MaxLag \in Nat
    /\ MaxBlock \in Nat \ {0}
    /\ MaxFork \in Nat
    /\ MaxClock \in Nat

VARIABLES
    chain,  \* chain[c][n]: which fork of block n is canonical on chain c
    phase,  \* phase[c]: where the worker's tick is
    at,     \* at[c]: the block number latest_block answered
    now,    \* now[c]: the time the worker took when it read that answer
    task,   \* task[c][x]: progress of refresh_exchange for exchange x
    keys,   \* keys[c][x]: the pool keys x discovered this tick
    pools   \* pools[c][x]: the pools x refreshed this tick, with their state

envVars == <<clock, chain>>
workerVars == <<phase, at, now, task, keys, pools>>
syncVars == <<clock, chain, phase, at, now, task, keys, pools, slot>>

Phases == {"reading", "answered", "refreshing", "sleeping"}
Progress == {"idle", "discovering", "refreshing", "done", "failed"}

\* Every refresh_exchange future of chain c is reset.
NoTask == [x \in Exchanges |-> "idle"]
NoPools == [x \in Exchanges |-> {}]

\* Workers start their first tick at once; the store starts empty.
Init ==
    /\ StoreInit
    /\ chain = [c \in Chains |-> <<0>>]
    /\ phase = [c \in Chains |-> "reading"]
    /\ at = [c \in Chains |-> 0]
    /\ now = [c \in Chains |-> Epoch]
    /\ task = [c \in Chains |-> NoTask]
    /\ keys = [c \in Chains |-> NoPools]
    /\ pools = [c \in Chains |-> NoPools]

-----------------------------------------------------------------------------
(* The environment. *)

\* Wall-clock time passes.
Tick ==
    /\ clock < MaxClock
    /\ clock' = clock + 1
    /\ UNCHANGED <<chain, workerVars, slot>>

\* Chain c grows by one block.
NewBlock(c) ==
    /\ Len(chain[c]) < MaxBlock
    /\ chain' = [chain EXCEPT ![c] = Append(@, 0)]
    /\ UNCHANGED <<clock, workerVars, slot>>

\* The newest block of chain c is replaced by another of the same height.
Reorg(c) ==
    LET head == Len(chain[c])
    IN  /\ chain[c][head] < MaxFork
        /\ chain' = [chain EXCEPT ![c][head] = @ + 1]
        /\ UNCHANGED <<clock, workerVars, slot>>

\* The state any pool of chain c has at block number n, on the canonical fork.
StateAt(c, n) == [block |-> n, fork |-> chain[c][n]]

-----------------------------------------------------------------------------
(* SyncWorker::refresh_once. *)

\* A mistake: two confirmations are subtracted from the answer unchecked.
AnswerHeadUnchecked(c) ==
    /\ phase[c] = "reading"
    /\ at' = [at EXCEPT ![c] = Len(chain[c]) - 2]
    /\ phase' = [phase EXCEPT ![c] = "answered"]
    /\ UNCHANGED <<envVars, now, task, keys, pools, slot>>

\* The RPC node evaluates eth_blockNumber; it may trail the head by MaxLag.
AnswerHead(c) ==
    /\ phase[c] = "reading"
    /\ \E n \in 1 .. Len(chain[c]) :
        /\ n + MaxLag >= Len(chain[c])
        /\ at' = [at EXCEPT ![c] = n]
    /\ phase' = [phase EXCEPT ![c] = "answered"]
    /\ UNCHANGED <<envVars, now, task, keys, pools, slot>>

\* A mistake: a failed tick publishes an empty snapshot.
ReadFailsPublishing(c) ==
    /\ phase[c] = "reading"
    /\ slot' = [slot EXCEPT ![c] = EmptySnapshot]
    /\ phase' = [phase EXCEPT ![c] = "sleeping"]
    /\ UNCHANGED <<envVars, at, now, task, keys, pools>>

\* latest_block fails: the tick ends, nothing is published.
ReadFails(c) ==
    /\ phase[c] = "reading"
    /\ phase' = [phase EXCEPT ![c] = "sleeping"]
    /\ UNCHANGED <<envVars, at, now, task, keys, pools, slot>>

\* A mistake: the ticks of all chains exclude each other.
PinBlockExclusive(c) ==
    /\ phase[c] = "answered"
    /\ \A d \in Chains : phase[d] # "refreshing"
    /\ now' = [now EXCEPT ![c] = clock]
    /\ phase' = [phase EXCEPT ![c] = "refreshing"]
    /\ task' = [task EXCEPT ![c] = [x \in Exchanges |->
                    IF x \in Supported[c] THEN "discovering" ELSE "idle"]]
    /\ UNCHANGED <<envVars, at, keys, pools, slot>>

\* The worker reads the answer, takes the time, and starts every supporting
\* exchange.
PinBlock(c) ==
    /\ phase[c] = "answered"
    /\ now' = [now EXCEPT ![c] = clock]
    /\ phase' = [phase EXCEPT ![c] = "refreshing"]
    /\ task' = [task EXCEPT ![c] = [x \in Exchanges |->
                    IF x \in Supported[c] THEN "discovering" ELSE "idle"]]
    /\ UNCHANGED <<envVars, at, keys, pools, slot>>

\* exchange.discover returns: it reads the head, not the pinned block, and may
\* miss pools it cannot read.
Discover(c, x) ==
    /\ phase[c] = "refreshing"
    /\ task[c][x] = "discovering"
    /\ \E found \in SUBSET Listing[c][x] : keys' = [keys EXCEPT ![c][x] = found]
    /\ task' = [task EXCEPT ![c][x] = "refreshing"]
    /\ UNCHANGED <<envVars, phase, at, now, pools, slot>>

\* A mistake: pools are refreshed at the latest block, not at the pinned one.
RefreshLatest(c, x) ==
    /\ phase[c] = "refreshing"
    /\ task[c][x] = "refreshing"
    /\ pools' = [pools EXCEPT ![c][x] =
                    [pool : keys[c][x], state : {StateAt(c, Len(chain[c]))}]]
    /\ task' = [task EXCEPT ![c][x] = "done"]
    /\ keys' = [keys EXCEPT ![c][x] = {}]
    /\ UNCHANGED <<envVars, phase, at, now, slot>>

\* exchange.refresh returns: every discovered pool, in the state it has at the
\* pinned block number on the fork that is canonical when the node answers.
Refresh(c, x) ==
    /\ phase[c] = "refreshing"
    /\ task[c][x] = "refreshing"
    /\ pools' = [pools EXCEPT ![c][x] =
                    [pool : keys[c][x], state : {StateAt(c, at[c])}]]
    /\ task' = [task EXCEPT ![c][x] = "done"]
    /\ keys' = [keys EXCEPT ![c][x] = {}]
    /\ UNCHANGED <<envVars, phase, at, now, slot>>

\* discover or refresh returns an error: the exchange is skipped this tick.
ExchangeFails(c, x) ==
    /\ phase[c] = "refreshing"
    /\ task[c][x] \in {"discovering", "refreshing"}
    /\ task' = [task EXCEPT ![c][x] = "failed"]
    /\ keys' = [keys EXCEPT ![c][x] = {}]
    /\ UNCHANGED <<envVars, phase, at, now, pools, slot>>

\* The entries of a tick: every pool of every exchange that answered, stamped
\* with the tick's block and time.
Assemble(c) ==
    UNION {{[xch |-> x, pool |-> q.pool, state |-> q.state,
             synced_block |-> at[c], synced_at |-> now[c]] : q \in pools[c][x]}
           : x \in Exchanges}

\* All exchanges have returned: the snapshot is published, even when some or
\* all of them failed, and the tick ends with its local variables.
Publish(c) ==
    /\ phase[c] = "refreshing"
    /\ \A x \in Supported[c] : task[c][x] \in {"done", "failed"}
    /\ Store(c, FromEntries(at[c], now[c], Assemble(c)))
    /\ phase' = [phase EXCEPT ![c] = "sleeping"]
    /\ task' = [task EXCEPT ![c] = NoTask]
    /\ pools' = [pools EXCEPT ![c] = NoPools]
    /\ at' = [at EXCEPT ![c] = 0]
    /\ now' = [now EXCEPT ![c] = Epoch]
    /\ UNCHANGED <<envVars, keys>>

\* SyncWorker::run: after the sleep the next tick begins.
Wake(c) ==
    /\ phase[c] = "sleeping"
    /\ phase' = [phase EXCEPT ![c] = "reading"]
    /\ UNCHANGED <<envVars, at, now, task, keys, pools, slot>>

Worker(c) ==
    \/ AnswerHead(c)
    \/ ReadFails(c)
    \/ PinBlock(c)
    \/ \E x \in Exchanges : Discover(c, x) \/ Refresh(c, x) \/ ExchangeFails(c, x)
    \/ Publish(c)
    \/ Wake(c)

Next ==
    \/ Tick
    \/ \E c \in Chains : NewBlock(c) \/ Reorg(c) \/ Worker(c)

Spec == Init /\ [][Next]_syncVars

\* The worker task is always polled again (tokio), every RPC call of an
\* exchange returns or fails, and latest_block, asked again and again, is
\* answered again and again.
WorkerFairness(c) ==
    /\ WF_syncVars(PinBlock(c))
    /\ WF_syncVars(Publish(c))
    /\ WF_syncVars(Wake(c))
    /\ WF_syncVars(AnswerHead(c) \/ ReadFails(c))
    /\ SF_syncVars(AnswerHead(c))
    /\ \A x \in Exchanges :
        WF_syncVars(Discover(c, x) \/ Refresh(c, x) \/ ExchangeFails(c, x))

-----------------------------------------------------------------------------
(* Properties. *)

\* Every variable has its type.
TypeOK ==
    /\ clock \in Nat
    /\ chain \in [Chains -> Seq(Nat)]
    /\ phase \in [Chains -> Phases]
    /\ at \in [Chains -> Nat]
    /\ now \in [Chains -> Nat]
    /\ task \in [Chains -> [Exchanges -> Progress]]
    /\ keys \in [Chains -> [Exchanges -> SUBSET Pools]]
    /\ pools \in [Chains -> [Exchanges -> SUBSET [pool : Pools, state : States]]]
    /\ slot \in [Chains -> Snapshots]

\* A published snapshot is never torn across blocks: although exchanges answer
\* one by one while the chain grows, every pool in it quotes the state of the
\* snapshot's block, and carries the meta of that tick (pool_store.rs: "An
\* immutable, block-consistent view of all pools on one chain").
BlockConsistent ==
    \A c \in Chains : \A e \in slot[c].entries :
        /\ e.state.block = slot[c].block
        /\ e.synced_block = slot[c].block
        /\ e.synced_at = slot[c].taken_at

-----------------------------------------------------------------------------
(* The inductive invariant behind BlockConsistent and the register. *)

\* A worker never runs ahead of its chain, and what it is about to publish is
\* no older, beyond the lag of the RPC node, than what the store serves.
AtFollowsChain ==
    \A c \in Chains :
        /\ chain[c] # <<>>
        /\ slot[c].block <= Len(chain[c])
        /\ phase[c] \in {"answered", "refreshing"} =>
            /\ at[c] \in 1 .. Len(chain[c])
            /\ slot[c].block <= at[c] + MaxLag

\* Whatever a worker holds was read at the pinned block, in this tick.
ReadsArePinned ==
    \A c \in Chains : \A x \in Exchanges : \A q \in pools[c][x] :
        /\ phase[c] = "refreshing"
        /\ q.state.block = at[c]

\* The time of a tick lies between the store's snapshot and the present.
TimesOrdered ==
    \A c \in Chains :
        /\ slot[c].taken_at <= clock
        /\ phase[c] = "refreshing" => now[c] \in slot[c].taken_at .. clock

SyncInv ==
    /\ TypeOK
    /\ AtFollowsChain
    /\ ReadsArePinned
    /\ TimesOrdered
    /\ BlockConsistent

\* No block is replaced more often than MaxFork allows, nor is a pool read on
\* a fork that never was.
ForksBounded ==
    \A c \in Chains :
        /\ \A n \in 1 .. Len(chain[c]) : chain[c][n] <= MaxFork
        /\ \A x \in Exchanges : \A q \in pools[c][x] : q.state.fork <= MaxFork
        /\ \A e \in slot[c].entries : e.state.fork <= MaxFork

-----------------------------------------------------------------------------

\* The stronger reading of the same comment: all pools of a snapshot quote one
\* and the same state of the chain, so that a path can be priced across them.
ForkConsistent ==
    \A c \in Chains : \A e, f \in slot[c].entries : e.state = f.state

\* What a reader of the store sees of each snapshot.
StoreView ==
    [c \in Chains |->
        [block |-> slot[c].block, taken_at |-> slot[c].taken_at,
         pools |-> {[pool |-> e.pool, block |-> e.state.block]
                    : e \in slot[c].entries}]]

Register == INSTANCE SnapshotRegister WITH view <- StoreView

\* The store is the register its readers are promised (SnapshotRegister): no
\* reader sees part of a tick, a failed tick changes nothing, and neither the
\* time nor, beyond MaxLag, the block of what it serves goes back.
ImplementsRegister == Register!RegisterSpec

\* A chain's store catches up: once the chain has reached block n, a snapshot
\* of a block at most MaxLag behind n is eventually served, however often
\* single exchanges fail and latest_block fails in between.
CatchesUp(c) ==
    \A n \in 1 .. MaxBlock :
        Len(chain[c]) >= n ~> slot[c].block + MaxLag >= n
=============================================================================
