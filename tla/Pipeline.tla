------------------------------- MODULE Pipeline -------------------------------
(***************************************************************************)
(* The router at run time: on every chain a sync task and a scan task of    *)
(* their own, which meet only in the pool store, and the served sets the    *)
(* API reads. setup::build spawns the two loops of every chain; tokio runs  *)
(* them on several threads, so their steps interleave freely, and a client  *)
(* of the API (src/src/adapters/api/mod.rs) may ask at any time.            *)
(***************************************************************************)
EXTENDS PoolSync, Scanner

VARIABLE shown  \* shown[c]: the newest block that an opportunity a client has
                \* been shown was quoted on, 0 before the first (history)

vars == <<syncVars, scanVars, shown>>

PipeInit ==
    /\ Init
    /\ ScanInit
    /\ shown = [c \in Chains |-> 0]

SyncStep == Next /\ UNCHANGED <<scanVars, shown>>

ScanTask(c) == ScanStep(c) /\ UNCHANGED <<chain, workerVars, shown>>

\* GET /v1/opportunities answers with what the notifier holds for the chains
\* asked for, less what returns too little; an opportunity of the answer was
\* quoted on a block no client has been shown yet.
GetOpportunities(c) ==
    /\ \E opp \in memory[c] : \E q \in opp.quoted :
        /\ q.state.block > shown[c]
        /\ shown' = [shown EXCEPT ![c] = q.state.block]
    /\ UNCHANGED <<syncVars, scanVars>>

\* GET /v1/status, for chain c.
Status(c) == [block |-> Load(c).block, synced_at |-> Load(c).taken_at]

PipeNext ==
    \/ SyncStep
    \/ \E c \in Chains : ScanTask(c) \/ GetOpportunities(c)

PipeSpec == PipeInit /\ [][PipeNext]_vars

\* A scan tick awaits nothing but in-memory locks, so its task is always run
\* to the next step unless it has panicked; time passes. Nothing is assumed of
\* the sync tasks or of the RPC nodes they wait for.
PipeFairness ==
    /\ WF_vars(Tick /\ UNCHANGED <<scanVars, shown>>)
    /\ \A c \in Chains : WF_vars(ScanTask(c))

FairPipeSpec == PipeSpec /\ PipeFairness

-----------------------------------------------------------------------------
(* Properties. *)

\* Every variable of the scanners has its type.
ScanTypeOK ==
    /\ stage \in [Chains -> Stages]
    /\ snap \in [Chains -> Snapshots]
    /\ tick \in [Chains -> Nat]
    /\ todo \in [Chains -> SUBSET Paths]
    /\ opps \in [Chains -> SUBSET Opportunities]
    /\ memory \in [Chains -> SUBSET Opportunities]
    /\ shown \in [Chains -> Nat]

PipeTypeOK == TypeOK /\ ScanTypeOK

\* Everything served for a chain was quoted on one block: no two hops, no two
\* opportunities of a served set mix states of different blocks although new
\* snapshots are published while the scan runs (scan_once loads one snapshot
\* per tick), and an execution plan is built on the very states that were
\* quoted.
ServedFromOneBlock ==
    \A c \in Chains : \A o, p \in memory[c] :
        /\ \A q \in o.quoted, r \in p.quoted : q.state.block = r.state.block
        /\ o.execution \in {{}, o.quoted}

\* Nothing stale is served: when an opportunity was detected, all its pools
\* had been synced within MaxStaleness, and the worst_pool_synced_at it
\* reports is no later than the detection and than the store's snapshot.
ServedFresh ==
    \A c \in Chains : \A o \in memory[c] :
        /\ o.detected_at - o.worst_pool_synced_at <= MaxStaleness
        /\ o.worst_pool_synced_at <= o.detected_at
        /\ o.worst_pool_synced_at <= slot[c].taken_at

\* GET /v1/opportunities is never ahead of a later GET /v1/status: whatever
\* scans and syncs do between the two, the status is of the block that an
\* opportunity shown before was quoted on or of a newer one, up to the lag of
\* the RPC node.
ServedBehindStore ==
    \A c \in Chains : shown[c] <= Status(c).block + MaxLag

\* The served set of a chain only moves forward in time: a set computed on an
\* older snapshot, or detected earlier, never replaces a newer one, and
\* nothing of the old set survives a replacement by a newer set.
ServedMovesForward ==
    [][\A c \in Chains : memory'[c] # memory[c] =>
        \A o \in memory[c], p \in memory'[c] :
            /\ p.detected_at >= o.detected_at
            /\ p.worst_pool_synced_at >= o.worst_pool_synced_at]_vars

\* The times and block of what is served, which a board shows.
StampOf(s) == [block |-> s.block, taken_at |-> s.taken_at]

Notice(opp) ==
    [block |-> (CHOOSE q \in opp.quoted : TRUE).state.block,
     taken_at |-> opp.worst_pool_synced_at, detected_at |-> opp.detected_at]

Board == INSTANCE ServedBoard WITH
    latest <- [c \in Chains |-> StampOf(slot[c])],
    copy <- [c \in Chains |-> StampOf(snap[c])],
    board <- [c \in Chains |-> {Notice(opp) : opp \in memory[c]}]

\* The tasks of all chains together are the board their clients are promised
\* (ServedBoard): every served set is that of one whole scan of one snapshot,
\* whatever is published while the scan runs.
ImplementsBoard == Board!BoardSpec

\* The chain's snapshot is too old for any path to pass the freshness guard.
Stale(c) == clock - slot[c].taken_at > MaxStaleness

\* A sync that stops, whatever it hangs on, ends in an empty served set: if
\* from some time on the store's snapshot is stale for good, then from some
\* time on nothing is served (MemoryNotifier: "an empty batch clears it"). Only
\* a scan task that has panicked leaves its last set up for ever.
StaleIsCleared ==
    \A c \in Chains : <>[]Stale(c) => <>[](memory[c] = {} \/ stage[c] = "dead")
=============================================================================
