------------------------------- MODULE Scanner -------------------------------
(***************************************************************************)
(* One Scanner per chain (src/src/core/application/scanner.rs) and the      *)
(* MemoryNotifier whose sets the API serves                                 *)
(* (src/src/adapters/notifier/mod.rs).                                      *)
(*                                                                         *)
(* scan_once is split where another thread can act: it loads one snapshot,  *)
(* reads the clock, evaluates the paths of that snapshot one by one, and    *)
(* replaces the served set. What a path yields depends on the prices read   *)
(* while it is evaluated, so here a fresh path may or may not turn out      *)
(* profitable; its amounts are determined by the pool states it is quoted   *)
(* on, so an opportunity carries those states.                              *)
(*                                                                         *)
(* A path is the set of pools of its hops: the graph of a snapshot has it   *)
(* exactly when the snapshot has all of them. Routes that share a canonical *)
(* key are one path here, so the rank_and_dedup before the enrichment is    *)
(* already in the set `opps`; Ranking has its loop.                         *)
(***************************************************************************)
EXTENDS PoolStore

CONSTANTS
    Paths,      \* the paths the pools of Pools can form, from the start assets
    Executable, \* those the executor can encode; {} where none is configured
    Overflowing \* those whose return may overflow a Decimal (see Evaluation)

ASSUME PathsAssumption == Paths \subseteq (SUBSET Pools) \ {{}}
ASSUME ExecutableAssumption == Executable \subseteq Paths
ASSUME OverflowingAssumption == Overflowing \subseteq Paths

VARIABLES
    stage,      \* stage[c]: where scan_once is
    snap,       \* snap[c]: the snapshot the tick loaded
    tick,       \* tick[c]: the tick's `now`
    todo,       \* todo[c]: the paths not evaluated yet
    opps,       \* opps[c]: the opportunities found so far
    memory      \* memory[c]: MemoryNotifier.latest

scanVars == <<stage, snap, tick, todo, opps, memory>>

Stages == {"loading", "stamping", "evaluating", "notifying", "sleeping", "dead"}

\* A pool state a quote was computed on.
Quotes == [pool : Pools, state : States]

Opportunities ==
    [path : Paths, quoted : SUBSET Quotes, worst_pool_synced_at : Nat,
     detected_at : Nat, execution : SUBSET Quotes]

ScanInit ==
    /\ stage = [c \in Chains |-> "loading"]
    /\ snap = [c \in Chains |-> EmptySnapshot]
    /\ tick = [c \in Chains |-> Epoch]
    /\ todo = [c \in Chains |-> {}]
    /\ opps = [c \in Chains |-> {}]
    /\ memory = [c \in Chains |-> {}]

-----------------------------------------------------------------------------
(* Scanner::scan_once. *)

\* `let snapshot = self.pool_store.snapshot(&self.chain)`.
LoadSnapshot(c) ==
    /\ stage[c] = "loading"
    /\ snap' = [snap EXCEPT ![c] = Load(c)]
    /\ stage' = [stage EXCEPT ![c] = "stamping"]
    /\ UNCHANGED <<clock, slot, tick, todo, opps, memory>>

\* A mistake: hops that do not resolve are left out of a path.
PathsTrimmed(s) == {path \cap Present(s) : path \in Paths}

\* find_paths over the snapshot's graph.
PathsIn(s) == {path \in Paths : path \subseteq Present(s)}

\* `let now = OffsetDateTime::now_utc()`, and the paths of the graph.
Stamp(c) ==
    /\ stage[c] = "stamping"
    /\ tick' = [tick EXCEPT ![c] = clock]
    /\ todo' = [todo EXCEPT ![c] = PathsIn(snap[c])]
    /\ stage' = [stage EXCEPT ![c] = "evaluating"]
    /\ UNCHANGED <<clock, slot, snap, opps, memory>>

\* quote_path: each hop is quoted by the entry get() finds for its pool.
Quote(s, path) == {[pool |-> p, state |-> Get(s, p).state] : p \in path}

\* The opportunity a path of snapshot s yields in a tick stamped `t`.
Opportunity(s, path, t) ==
    [path |-> path, quoted |-> Quote(s, path),
     worst_pool_synced_at |-> WorstSyncedAt(s, path),
     detected_at |-> t, execution |-> {}]

\* evaluate() of one path, priced out or not profitable, or not fresh.
Discard(c, path) ==
    /\ stage[c] = "evaluating"
    /\ path \in todo[c]
    /\ todo' = [todo EXCEPT ![c] = @ \ {path}]
    /\ UNCHANGED <<clock, slot, stage, snap, tick, opps, memory>>

\* A mistake: the path is quoted on the store's snapshot, not on the tick's.
DetectReloading(c, path) ==
    /\ stage[c] = "evaluating"
    /\ path \in todo[c]
    /\ IsFresh(Load(c), path, tick[c])
    /\ todo' = [todo EXCEPT ![c] = @ \ {path}]
    /\ opps' = [opps EXCEPT ![c] = @ \cup {Opportunity(Load(c), path, tick[c])}]
    /\ UNCHANGED <<clock, slot, stage, snap, tick, memory>>

\* A mistake: the freshness guard is left out.
DetectUnguarded(c, path) ==
    /\ stage[c] = "evaluating"
    /\ path \in todo[c]
    /\ todo' = [todo EXCEPT ![c] = @ \ {path}]
    /\ opps' = [opps EXCEPT ![c] = @ \cup {Opportunity(snap[c], path, tick[c])}]
    /\ UNCHANGED <<clock, slot, stage, snap, tick, memory>>

\* evaluate() of one fresh path that is profitable at the prices read.
Detect(c, path) ==
    /\ stage[c] = "evaluating"
    /\ path \in todo[c]
    /\ IsFresh(snap[c], path, tick[c])
    /\ todo' = [todo EXCEPT ![c] = @ \ {path}]
    /\ opps' = [opps EXCEPT ![c] = @ \cup {Opportunity(snap[c], path, tick[c])}]
    /\ UNCHANGED <<clock, slot, stage, snap, tick, memory>>

\* roi_bps panics on a fresh path. Nobody awaits the handle of the scan task: it
\* ends with its local variables, and what it served last stays.
Panic(c, path) ==
    /\ stage[c] = "evaluating"
    /\ path \in todo[c] \cap Overflowing
    /\ IsFresh(snap[c], path, tick[c])
    /\ todo' = [todo EXCEPT ![c] = {}]
    /\ opps' = [opps EXCEPT ![c] = {}]
    /\ snap' = [snap EXCEPT ![c] = EmptySnapshot]
    /\ tick' = [tick EXCEPT ![c] = Epoch]
    /\ stage' = [stage EXCEPT ![c] = "dead"]
    /\ UNCHANGED <<clock, slot, memory>>

\* All paths are evaluated: executor.build(opp, &snapshot).ok() adds to an
\* opportunity a plan built on the pool states of the scanned snapshot, or
\* leaves it without one when the build fails.
Enrich(c) ==
    /\ stage[c] = "evaluating"
    /\ todo[c] = {}
    /\ \E built \in SUBSET {o \in opps[c] : o.path \in Executable} :
        opps' = [opps EXCEPT ![c] =
            (@ \ built) \cup
            {[opp EXCEPT !.execution = Quote(snap[c], opp.path)] : opp \in built}]
    /\ stage' = [stage EXCEPT ![c] = "notifying"]
    /\ UNCHANGED <<clock, slot, snap, tick, todo, memory>>

\* A mistake: the new set is added to the one served.
NotifyAppending(c) ==
    /\ stage[c] = "notifying"
    /\ memory' = [memory EXCEPT ![c] = @ \cup opps[c]]
    /\ opps' = [opps EXCEPT ![c] = {}]
    /\ snap' = [snap EXCEPT ![c] = EmptySnapshot]
    /\ tick' = [tick EXCEPT ![c] = Epoch]
    /\ stage' = [stage EXCEPT ![c] = "sleeping"]
    /\ UNCHANGED <<clock, slot, todo>>

\* A mistake: an empty set is not worth a notification.
NotifyUnlessEmpty(c) ==
    /\ stage[c] = "notifying"
    /\ memory' = IF opps[c] = {} THEN memory ELSE [memory EXCEPT ![c] = opps[c]]
    /\ opps' = [opps EXCEPT ![c] = {}]
    /\ snap' = [snap EXCEPT ![c] = EmptySnapshot]
    /\ tick' = [tick EXCEPT ![c] = Epoch]
    /\ stage' = [stage EXCEPT ![c] = "sleeping"]
    /\ UNCHANGED <<clock, slot, todo>>

\* notify: the chain's served set is replaced, also by an empty one. The tick
\* ends with its local variables.
Notify(c) ==
    /\ stage[c] = "notifying"
    /\ memory' = [memory EXCEPT ![c] = opps[c]]
    /\ opps' = [opps EXCEPT ![c] = {}]
    /\ snap' = [snap EXCEPT ![c] = EmptySnapshot]
    /\ tick' = [tick EXCEPT ![c] = Epoch]
    /\ stage' = [stage EXCEPT ![c] = "sleeping"]
    /\ UNCHANGED <<clock, slot, todo>>

\* Scanner::run: after the sleep the next tick begins.
ScanWake(c) ==
    /\ stage[c] = "sleeping"
    /\ stage' = [stage EXCEPT ![c] = "loading"]
    /\ UNCHANGED <<clock, slot, snap, tick, todo, opps, memory>>

ScanStep(c) ==
    \/ LoadSnapshot(c)
    \/ Stamp(c)
    \/ \E path \in Paths : Discard(c, path) \/ Detect(c, path) \/ Panic(c, path)
    \/ Enrich(c)
    \/ Notify(c)
    \/ ScanWake(c)
=============================================================================
