------------------------------- MODULE ScanOnce -------------------------------
(***************************************************************************)
(* What one scan makes of one snapshot (Scanner::scan_once in               *)
(* src/src/core/application/scanner.rs): the paths that PathFinder finds     *)
(* from every start asset, one after the other, are evaluated, and Ranking   *)
(* merges and orders those that turn out profitable. Scanner has the awaits  *)
(* of a scan, Evaluation the verdict on a path.                              *)
(***************************************************************************)
EXTENDS PathFinder, Ranking

CONSTANTS
    StartLists,     \* the lists EngineConfig.start_assets may be
    MaxProfitable   \* bound on the profitable paths of a scan

ASSUME ScanAssumption ==
    /\ StartLists \subseteq Seq(Assets)
    /\ MaxProfitable \in Nat

VARIABLES
    unsearched, \* the start assets still to search from
    paths,      \* what the searches have found
    evaluated   \* every evaluation has returned

searchVars == <<snapshot, start, found, unsearched, paths>>
scanVars == <<searchVars, evaluated, vars>>

ScanInit ==
    /\ SearchInit
    /\ unsearched \in StartLists
    /\ paths = <<>>
    /\ evaluated = FALSE
    /\ batch = <<>> /\ next = 0 /\ best = <<>> /\ ranked = <<>>

\* flat_map(find_paths) takes the next start asset.
SearchNext ==
    /\ unsearched # <<>>
    /\ Search(Head(unsearched))
    /\ unsearched' = Tail(unsearched)
    /\ paths' = paths \o found'
    /\ UNCHANGED <<evaluated, vars>>

\* join_all: any of the paths are reported, in path order, with any scores; but
\* only a cycle is reported without a price.
EvaluateAll ==
    /\ unsearched = <<>>
    /\ ~evaluated
    /\ \E k \in 0 .. MaxProfitable : \E at \in [1 .. k -> DOMAIN paths] :
        \E profits \in [1 .. k -> Profits \cup {Unpriced}], rois \in [1 .. k -> Rois] :
            /\ \A i, j \in 1 .. k : i < j => at[i] < at[j]
            /\ \A i \in 1 .. k : profits[i] = Unpriced => IsCycle(paths[at[i]])
            /\ batch' = [i \in 1 .. k |->
                            [path |-> paths[at[i]], profit |-> profits[i], roi |-> rois[i]]]
    /\ evaluated' = TRUE
    /\ start' = None
    /\ found' = <<>>
    /\ UNCHANGED <<snapshot, unsearched, paths, next, best, ranked>>

\* rank_and_dedup.
Rank == evaluated /\ Next /\ UNCHANGED <<searchVars, evaluated>>

ScanNext == SearchNext \/ EvaluateAll \/ Rank

ScanSpec == ScanInit /\ [][ScanNext]_scanVars

-----------------------------------------------------------------------------
(* Properties. *)

\* However often a scan finds a trade, it serves it once: not again from
\* another start asset, as a rotation of a cycle ("The same cycle can be
\* discovered from several starting rotations"), nor for a start asset or a pool
\* that is listed twice. It takes what the search guarantees, that no path uses
\* a pool twice, for the keys of the ranking to say so.
ServesNoTradeTwice ==
    \A i, j \in Kept : SameTrade(ranked[i].path, ranked[j].path) => i = j
=============================================================================
