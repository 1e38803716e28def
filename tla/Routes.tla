-------------------------------- MODULE Routes --------------------------------
(***************************************************************************)
(* Paths through pools (src/src/primitives/opportunity.rs). A PoolId is a   *)
(* number: of its text only the order is ever used. A canonical key is the  *)
(* sequence of ids the code joins with "->".                                *)
(***************************************************************************)
EXTENDS Integers, Sequences

CONSTANTS Assets, PoolIds

ASSUME PoolIdsAssumption == PoolIds \subseteq Nat

Hops == [pool : PoolIds, source : Assets, destination : Assets]

Routes == [start : Assets, hops : Seq(Hops)]

\* Path::destination.
Destination(path) ==
    IF path.hops = <<>> THEN path.start
    ELSE path.hops[Len(path.hops)].destination

\* Path::is_cycle.
IsCycle(path) == Destination(path) = path.start

Ids(path) == [i \in 1 .. Len(path.hops) |-> path.hops[i].pool]

\* min_by_key: the index of the smallest id, the first one if it occurs twice.
MinIndex(ids) ==
    CHOOSE i \in 1 .. Len(ids) :
        \A j \in 1 .. Len(ids) : ids[i] <= ids[j] /\ (j < i => ids[i] < ids[j])

\* A sequence rotated so that its k-th element comes first.
Rotated(s, k) ==
    [i \in 1 .. Len(s) |->
        IF i + k - 1 <= Len(s) THEN s[i + k - 1] ELSE s[i + k - 1 - Len(s)]]

\* A mistake: a cycle keeps the order it was found in.
KeyAsFound(path) == Ids(path)

\* Path::canonical_key.
CanonicalKey(path) ==
    IF path.hops = <<>> THEN <<>>
    ELSE IF IsCycle(path) THEN Rotated(Ids(path), MinIndex(Ids(path)))
    ELSE Ids(path)

-----------------------------------------------------------------------------
(* What two paths may have in common. *)

\* A path hangs together: it begins at its start and every hop goes on from
\* where the one before it ended.
Connected(path) ==
    /\ path.hops # <<>>
    /\ path.hops[1].source = path.start
    /\ \A i \in 1 .. Len(path.hops) - 1 :
        path.hops[i].destination = path.hops[i + 1].source

\* No pool is used twice.
NoPoolReuse(path) ==
    \A i, j \in 1 .. Len(path.hops) :
        path.hops[i].pool = path.hops[j].pool => i = j

\* The cycle `path` entered at its k-th hop.
EnteredAt(path, k) ==
    [start |-> path.hops[k].source, hops |-> Rotated(path.hops, k)]

\* Both paths make the same swaps: they are equal, or the same cycle entered at
\* another hop.
SameTrade(p, q) ==
    \/ p = q
    \/ /\ IsCycle(p)
       /\ \E k \in 1 .. Len(p.hops) : q = EnteredAt(p, k)
=============================================================================
