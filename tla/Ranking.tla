------------------------------- MODULE Ranking -------------------------------
(***************************************************************************)
(* rank_and_dedup (src/src/core/application/evaluation/rank.rs): one pass   *)
(* over the opportunities of a scan tick that keeps the best of each        *)
(* canonical key, then a sort. The map is a HashMap, so the order its       *)
(* values come in is arbitrary.                                             *)
(***************************************************************************)
EXTENDS Routes, FiniteSets

CONSTANTS
    Unpriced,   \* profit_usd = None, which orders below every priced profit
    Profits,    \* the USD profits of priced opportunities
    Rois,       \* roi_bps
    Batches     \* the sequences of opportunities a scan tick may rank

ASSUME ScoreAssumption ==
    /\ Unpriced \in Int
    /\ Profits \subseteq Int
    /\ Rois \subseteq Nat
    /\ \A profit \in Profits : Unpriced < profit

Opportunities == [path : Routes, profit : Profits \cup {Unpriced}, roi : Rois]

ASSUME BatchesAssumption == Batches \subseteq Seq(Opportunities)

VARIABLES
    batch,  \* the opportunities given to rank_and_dedup, in path order
    next,   \* how many of them the loop has seen
    best,   \* best: from canonical key to the opportunity kept for it
    ranked  \* the result; <<>> until it is computed

vars == <<batch, next, best, ranked>>

Key(opp) == CanonicalKey(opp.path)

\* score(o) >= score(p): by profit, then by return.
AtLeast(o, p) ==
    \/ o.profit > p.profit
    \/ o.profit = p.profit /\ o.roi >= p.roi

Init ==
    /\ batch \in Batches
    /\ next = 0
    /\ best = <<>>
    /\ ranked = <<>>

\* A mistake: the first opportunity of a key is kept, whatever its score.
BeatenByFirst(opp) == Key(opp) \in DOMAIN best

\* A mistake: the last of the equally good ones is kept.
BeatenByBetter(opp) == Key(opp) \in DOMAIN best /\ ~AtLeast(opp, best[Key(opp)])

\* The opportunity at hand does not beat the one kept for its key.
Beaten(opp) == Key(opp) \in DOMAIN best /\ AtLeast(best[Key(opp)], opp)

\* The loop body, for an opportunity that is dropped and for one that is kept.
Drop ==
    /\ next < Len(batch)
    /\ Beaten(batch[next + 1])
    /\ next' = next + 1
    /\ UNCHANGED <<batch, best, ranked>>

Keep ==
    LET opp == batch[next + 1]
    IN  /\ next < Len(batch)
        /\ ~Beaten(opp)
        /\ best' = [k \in DOMAIN best \cup {Key(opp)} |->
                        IF k = Key(opp) THEN opp ELSE best[k]]
        /\ next' = next + 1
        /\ UNCHANGED <<batch, ranked>>

\* The sort: the kept opportunities, in an order that never ranks a better one
\* behind a worse one.
Orders(kept) ==
    LET positions == 1 .. Cardinality(kept)
    IN  {order \in [positions -> kept] :
            /\ \A opp \in kept : \E i \in positions : order[i] = opp
            /\ \A i, j \in positions : i <= j => AtLeast(order[i], order[j])}

Sort ==
    /\ next = Len(batch)
    /\ ranked = <<>>
    /\ ranked' \in Orders({best[k] : k \in DOMAIN best})
    /\ UNCHANGED <<batch, next, best>>

Next == Drop \/ Keep \/ Sort

Spec == Init /\ [][Next]_vars

-----------------------------------------------------------------------------
(* Properties. *)

Positions == 1 .. Len(batch)

Kept == 1 .. Len(ranked)

\* The opportunity at position i, and none before it of the same key that
\* scores at least as high.
IsFirstBest(i) ==
    \A h \in 1 .. i - 1 :
        Key(batch[h]) = Key(batch[i]) => ~AtLeast(batch[h], batch[i])

\* Deduplication loses no key and no profit: every opportunity of the batch is
\* represented by one of the same key that scores at least as high, no key is
\* served twice, and nothing is served that was not found. The first one
\* served is the best of the whole batch.
RankedBest ==
    ranked # <<>> =>
        /\ \A i \in Positions : \E j \in Kept :
            Key(ranked[j]) = Key(batch[i]) /\ AtLeast(ranked[j], batch[i])
        /\ \A i, j \in Kept : Key(ranked[i]) = Key(ranked[j]) => i = j
        /\ \A j \in Kept : \E i \in Positions : ranked[j] = batch[i]
        /\ \A i \in Positions : AtLeast(ranked[1], batch[i])

\* Of opportunities that share a key and a score the one found first is served,
\* so which rotation of a cycle is served depends on the path order only, not
\* on the hash order (rank.rs: `score(existing) >= score(&opp)` keeps).
FirstOfEquals ==
    \A j \in Kept : \E i \in Positions :
        ranked[j] = batch[i] /\ IsFirstBest(i)

\* rank.rs: "Collapse duplicate opportunities [...] The same cycle can be
\* discovered from several starting rotations; they share a `canonical_key`".
\* Taken at its word, an opportunity is dropped only for one that makes the
\* same swaps.
MergesOnlyRotations ==
    ranked # <<>> =>
        \A i \in Positions : \E j \in Kept :
            SameTrade(ranked[j].path, batch[i].path)
=============================================================================
