------------------------------ MODULE PathFinder ------------------------------
(***************************************************************************)
(* The asset graph of a snapshot and the bounded depth-first search over    *)
(* it (src/src/core/application/graph). A snapshot is the sequence of its   *)
(* pools in the order from_entries inserts them, each with its assets; a    *)
(* pool listed by two exchanges is in it twice.                             *)
(***************************************************************************)
EXTENDS Routes, SequencesExt

CONSTANTS MaxHops,      \* EngineConfig.max_hops
          BeamWidth,    \* config::BEAM_WIDTH
          SnapshotsToSearch   \* the snapshots a scan may load

Entries == [pool : PoolIds, assets : Seq(Assets)]

ASSUME SearchAssumption ==
    /\ MaxHops \in Nat
    /\ BeamWidth \in Nat
    /\ SnapshotsToSearch \subseteq Seq(Entries)

\* Iterator::filter: the elements of s that are in S, in their order.
Filtered(s, S) ==
    FlattenSeq([i \in 1 .. Len(s) |-> IF s[i] \in S THEN <<s[i]>> ELSE <<>>])

\* PoolSnapshot::pools_from: by_asset holds a pool once for every time it lists
\* the asset.
PoolsFrom(snapshot, asset) ==
    LET Listings(entry) ==
            LET uses == Filtered(entry.assets, {asset})
            IN  [k \in 1 .. Len(uses) |-> entry]
    IN  FlattenSeq([i \in 1 .. Len(snapshot) |-> Listings(snapshot[i])])

\* A mistake: every pool is taken for a pair.
EdgesOfPairs(snapshot, asset) ==
    LET pools == PoolsFrom(snapshot, asset)
        FirstOther(entry) == Filtered(entry.assets, Assets \ {asset})[1]
    IN  [i \in 1 .. Len(pools) |->
            [pool |-> pools[i].pool, source |-> asset,
             destination |-> FirstOther(pools[i])]]

\* Graph::edges_from: one hop per pool of the asset and other asset it holds.
EdgesFrom(snapshot, asset) ==
    LET pools == PoolsFrom(snapshot, asset)
        EdgesOf(entry) ==
            LET others == Filtered(entry.assets, Assets \ {asset})
            IN  [j \in 1 .. Len(others) |->
                    [pool |-> entry.pool, source |-> asset,
                     destination |-> others[j]]]
    IN  FlattenSeq([i \in 1 .. Len(pools) |-> EdgesOf(pools[i])])

\* A mistake: only the pool of the hop before is not used again.
FrontierBackwards(snapshot, current, hops) ==
    LET open == Filtered(EdgesFrom(snapshot, current), {edge \in Hops :
                    hops = <<>> \/ Last(hops).pool # edge.pool})
    IN  SubSeq(open, 1, IF Len(open) < BeamWidth THEN Len(open) ELSE BeamWidth)

\* The edges expand takes from where `hops` have led: those of unused pools, at
\* most BeamWidth of them.
Frontier(snapshot, current, hops) ==
    LET open == Filtered(EdgesFrom(snapshot, current), {edge \in Hops :
                    \A i \in 1 .. Len(hops) : hops[i].pool # edge.pool})
    IN  SubSeq(open, 1, IF Len(open) < BeamWidth THEN Len(open) ELSE BeamWidth)

\* find_paths: expand[hops] is what expand emits when `hops` are taken, every
\* extension of them before its own extensions.
FindPaths(snapshot, start) ==
    LET PathOf(hops) == [start |-> start, hops |-> hops]
        expand[hops \in Seq(Hops)] ==
            IF Len(hops) >= MaxHops THEN <<>>
            ELSE LET edges == Frontier(snapshot, Destination(PathOf(hops)), hops)
                     taken(i) == Append(hops, edges[i])
                 IN  FlattenSeq([i \in 1 .. Len(edges) |->
                        << PathOf(taken(i)) >> \o expand[taken(i)]])
    IN  expand[<<>>]

-----------------------------------------------------------------------------
(* One search. *)

VARIABLES
    snapshot,   \* the snapshot the graph is built from
    start,      \* the start asset, None before the first search
    found       \* `out`

None == <<>>

SearchInit ==
    /\ snapshot \in SnapshotsToSearch
    /\ start = None
    /\ found = <<>>

\* find_paths from one asset.
Search(asset) ==
    /\ start' = <<asset>>
    /\ found' = FindPaths(snapshot, asset)
    /\ UNCHANGED snapshot

-----------------------------------------------------------------------------
(* Properties. *)

\* The pool of a hop is in the snapshot and holds both assets of the hop.
Traded(hop) ==
    /\ hop.source # hop.destination
    /\ \E i \in 1 .. Len(snapshot) :
        /\ snapshot[i].pool = hop.pool
        /\ {hop.source, hop.destination} \subseteq ToSet(snapshot[i].assets)

\* What the search is for: every connected path from start over the pools of
\* the snapshot, of at most MaxHops hops, that uses no pool twice.
Trails ==
    LET edges == {hop \in Hops : Traded(hop)}
        walks == UNION {[1 .. n -> edges] : n \in 1 .. MaxHops}
        paths == {[start |-> start[1], hops |-> walk] : walk \in walks}
    IN  {path \in paths : Connected(path) /\ NoPoolReuse(path)}

\* No pool is listed twice, and no asset of one.
ListedOnce ==
    \A i \in 1 .. Len(snapshot) :
        /\ IsInjective(snapshot[i].assets)
        /\ \A j \in 1 .. Len(snapshot) : snapshot[i].pool = snapshot[j].pool => i = j

\* Whatever the beam cuts off, every path found is a trail, the way to each of
\* them was found before it, and no path is found twice unless a pool, or an
\* asset of a pool, is listed twice (finder.rs: "The only traversal guard is
\* no-pool-reuse").
FindsOnlyTrails ==
    start # None =>
        /\ ToSet(found) \subseteq Trails
        /\ \A i \in 1 .. Len(found) : Len(found[i].hops) > 1 =>
            \E j \in 1 .. i - 1 : found[j].hops = Front(found[i].hops)
        /\ ListedOnce => IsInjective(found)

\* No asset has more edges than the beam takes.
BeamFits ==
    \A asset \in Assets : Len(EdgesFrom(snapshot, asset)) <= BeamWidth

\* Where the beam fits, the search is exhaustive: every trail is found, through
\* every ordered pair of assets of an N-asset pool, and cycles as well as paths
\* that end on another asset.
FindsEveryTrail == start # None /\ BeamFits => Trails \subseteq ToSet(found)
=============================================================================
