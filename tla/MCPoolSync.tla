----------------------------- MODULE MCPoolSync -----------------------------
(* Small instances of PoolSync for TLC. *)
EXTENDS PoolSync

CONSTANTS eth, bsc,     \* chains
          p1, p2, p3    \* pools

\* On eth two exchanges list p2 both, as two configurations of one factory do;
\* bsc has one exchange.
MCListing ==
    [c \in Chains |->
        IF c = eth THEN <<{p1, p2}, {p2, p3}>> ELSE <<{p1}, {}>>]

MCSupported == [c \in Chains |-> IF c = eth THEN {1, 2} ELSE {1}]

\* Exchanges without a pool, when only blocks matter.
MCBareListing == [c \in Chains |-> [x \in Exchanges |-> {}]]

\* Only eth's RPC answers: bsc's worker may hang for ever in any call.
SoloSpec == Spec /\ WorkerFairness(eth)

\* Chains are independent: whatever the worker of bsc hangs on, the store of eth
\* catches up with its chain, however often single exchanges of eth fail and
\* its latest_block fails in between.
SoloCatchesUp == CatchesUp(eth)
=============================================================================
