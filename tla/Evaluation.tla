------------------------------ MODULE Evaluation ------------------------------
(***************************************************************************)
(* Scanner::evaluate of one fresh path, with the sums of                    *)
(* src/src/core/application/evaluation/detect.rs. It reads prices up to     *)
(* four times, each time as of then: on other threads the price feeds write *)
(* in between, and a price may expire. Those writes are the action Reprice. *)
(*                                                                         *)
(* Sums are exact, as Decimal's are at these sizes. An Option<x> is <<>> or *)
(* <<x>>. An amount counts base units, 10^decimals of which make one whole; *)
(* a USD sum counts units of 1/Scale USD, so that dividing a base-unit      *)
(* amount by 10^decimals stays exact.                                       *)
(***************************************************************************)
EXTENDS Integers, Sequences

CONSTANTS
    Assets,         \* the assets a path may begin or end on
    Decimals,       \* Decimals[a]: the registry's decimals, <<>> if a is not in it
    MaxDecimals,    \* bound on the decimals of an asset
    InputUsd,       \* EngineConfig.input_usd, in whole USD
    PriceLevels,    \* the prices in whole USD a feed may report
    MaxSum,         \* Decimal::MAX: a checked sum beyond it is None
    BasisPoints,    \* 10_000
    U32Max,         \* u32::MAX
    Hops,           \* what a pool quotes along a pair, [gives, takes, limit]
    Paths,          \* the fresh paths
    MaxWrites       \* bound on the number of price writes

ASSUME SumsAssumption ==
    /\ MaxDecimals \in Nat
    /\ InputUsd \in Nat
    /\ PriceLevels \subseteq Nat
    /\ MaxSum \in Nat
    /\ BasisPoints \in Nat \ {0}
    /\ U32Max \in Nat
    /\ MaxWrites \in Nat
    /\ \A a \in Assets : Decimals[a] \in {<<>>} \cup {<<d>> : d \in 0 .. MaxDecimals}
    /\ \A hop \in Hops :
        hop.gives \in Nat /\ hop.takes \in Nat \ {0} /\ hop.limit \in Nat
    /\ Paths \subseteq [start : Assets, destination : Assets, hops : Seq(Hops)]

None == <<>>

\* pow10: ten times the power before, as its loop computes it.
Tens[n \in 0 .. MaxDecimals] == IF n = 0 THEN 1 ELSE 10 * Tens[n - 1]

Scale == Tens[MaxDecimals]

Prices == {None} \cup {<<level>> : level \in PriceLevels}

\* The feeds price the very assets the registry is built from.
Priced == {a \in Assets : Decimals[a] # None}

VARIABLES
    path,       \* the path being evaluated
    price,      \* price[a]: what Valuation::price(a) returns now
    writes,     \* how many prices were written
    seen,       \* seen[a]: the prices a has had since the path was sized
    pc,         \* where evaluate is
    input, output, profit, roi,     \* the fields of Priced and Opportunity
    cost        \* in_usd of net_profit_usd

vars == <<path, price, writes, seen, pc, input, output, profit, roi, cost>>

IsCycle == path.start = path.destination

-----------------------------------------------------------------------------
(* detect.rs *)

\* Checked arithmetic: None beyond what a Decimal can hold.
Checked(amount) == IF amount > MaxSum THEN None ELSE <<amount>>

\* The same for a USD sum, which counts 1 / Scale USD.
CheckedUsd(sum) == IF sum > MaxSum * Scale THEN None ELSE <<sum>>

Pow10(a) == Tens[Decimals[a][1]]

\* value_usd, in units of 1/Scale USD, at the prices p.
ValueUsd(p, a, amount) ==
    IF Decimals[a] = None \/ p[a] = None THEN None
    ELSE CheckedUsd(amount * p[a][1] * (Scale \div Pow10(a)))

\* A mistake: the amount is rounded up.
AmountForUsdCeiled(p, a, usd) ==
    IF Decimals[a] = None \/ p[a] \in {None, <<0>>} THEN None
    ELSE Checked((usd * Pow10(a)) \div p[a][1] + 1)

\* amount_for_usd: None for an unknown or unpriced asset and for a price of 0.
AmountForUsd(p, a, usd) ==
    IF Decimals[a] = None \/ p[a] \in {None, <<0>>} THEN None
    ELSE Checked((usd * Pow10(a)) \div p[a][1])

\* amount_to_u256: whole and not negative; sizing rounds to base units before.
ToU256(amount) == IF amount < 0 THEN None ELSE <<amount>>

\* A mistake: what a Decimal cannot hold is taken all the same.
FromU256Unchecked(raw) == <<raw>>

\* u256_to_amount: None beyond what a Decimal can hold.
FromU256(raw) == Checked(raw)

\* One hop: what the pool gives for an amount, or None for nothing in or out,
\* for an amount beyond what it can quote, and for one lost in a conversion.
QuoteHop(hop, amount) ==
    LET raw == IF amount = None THEN None ELSE ToU256(amount[1])
    IN  IF raw = None THEN None
        ELSE LET out == (raw[1] * hop.gives) \div hop.takes
             IN  IF raw[1] = 0 \/ raw[1] > hop.limit \/ out = 0 THEN None
                 ELSE FromU256(out)

\* quote_path: each hop's output is the next one's input.
QuotePath(hops, amount) ==
    LET after[i \in 0 .. Len(hops)] ==
            IF i = 0 THEN <<amount>> ELSE QuoteHop(hops[i], after[i - 1])
    IN  IF hops = <<>> THEN None ELSE after[Len(hops)]

\* net_profit_usd, from the two values it reads.
Net(in_usd, out_usd) ==
    IF in_usd = None \/ out_usd = None THEN None ELSE <<out_usd[1] - in_usd[1]>>

\* roi_bps divides and multiplies with Decimal's plain operators, which panic
\* beyond what a Decimal can hold. The differences above cannot get there.
Overflows(base, gain) ==
    base > 0 /\ gain > 0 /\ gain * BasisPoints > MaxSum * base

\* roi_bps: 0 for no base or no gain, clamped to u32.
RoiBps(base, gain) ==
    IF base <= 0 \/ gain <= 0 THEN 0
    ELSE LET bps == (gain * BasisPoints) \div base
         IN  IF bps > U32Max THEN U32Max ELSE bps

Panics(gain, base) ==
    gain # None /\ base # None /\ Overflows(base[1], gain[1])

\* A mistake: the return is taken over what came out.
RoiOverOutput(gain, base) ==
    IF gain = None \/ base = None THEN 0 ELSE RoiBps(base[1] + gain[1], gain[1])

\* The return on a cross-asset path: 0 when its profit or base is unknown.
RoiOf(gain, base) ==
    IF gain = None \/ base = None THEN 0 ELSE RoiBps(base[1], gain[1])

\* is_profitable.
IsProfitable(in, out, gain) ==
    IF IsCycle THEN out > in ELSE gain # None /\ gain[1] > 0

-----------------------------------------------------------------------------
(* evaluate() *)

Init ==
    /\ path \in Paths
    /\ \E listed \in [Priced -> Prices] :
        price = [a \in Assets |-> IF a \in Priced THEN listed[a] ELSE None]
    /\ writes = 0
    /\ seen = [a \in Assets |-> {}]
    /\ pc = "sizing"
    /\ input = 0
    /\ output = 0
    /\ profit = None
    /\ roi = 0
    /\ cost = None

\* A feed writes a price, or a price expires.
Reprice(a) ==
    /\ writes < MaxWrites
    /\ pc \notin {"reported", "rejected", "panicked"}
    /\ \E level \in Prices \ {price[a]} : price' = [price EXCEPT ![a] = level]
    /\ writes' = writes + 1
    /\ seen' = IF pc = "sizing" THEN seen
               ELSE [seen EXCEPT ![a] = @ \cup {price'[a]}]
    /\ UNCHANGED <<path, pc, input, output, profit, roi, cost>>

\* amount_for_usd and quote_path: the first price read.
Size ==
    LET sized == AmountForUsd(price, path.start, InputUsd)
        quoted == IF sized = None THEN None ELSE QuotePath(path.hops, sized[1])
    IN  /\ pc = "sizing"
        /\ IF quoted = None
           THEN pc' = "rejected" /\ UNCHANGED <<input, output>>
           ELSE /\ input' = sized[1]
                /\ output' = quoted[1]
                /\ pc' = IF IsCycle THEN "gaining" ELSE "costing"
        /\ seen' = [a \in Assets |-> {price[a]}]
        /\ UNCHANGED <<path, price, writes, profit, roi, cost>>

\* price() of a cycle: the gain, valued at the start asset's price. A panic ends
\* the scan task.
Gain ==
    /\ pc = "gaining"
    /\ profit' = ValueUsd(price, path.start, output - input)
    /\ IF Overflows(input, output - input) THEN pc' = "panicked" /\ UNCHANGED roi
       ELSE pc' = "deciding" /\ roi' = RoiBps(input, output - input)
    /\ UNCHANGED <<path, price, writes, seen, input, output, cost>>

\* net_profit_usd of a cross-asset path: what went in, then what came out.
Cost ==
    /\ pc = "costing"
    /\ cost' = ValueUsd(price, path.start, input)
    /\ pc' = IF cost' = None THEN "basing" ELSE "valuing"
    /\ UNCHANGED <<path, price, writes, seen, input, output, profit, roi>>

\* A mistake: the output is valued at the start asset's price.
ValueAtStart ==
    /\ pc = "valuing"
    /\ profit' = Net(cost, ValueUsd(price, path.start, output))
    /\ pc' = "basing"
    /\ UNCHANGED <<path, price, writes, seen, input, output, roi, cost>>

Value ==
    /\ pc = "valuing"
    /\ profit' = Net(cost, ValueUsd(price, path.destination, output))
    /\ pc' = "basing"
    /\ UNCHANGED <<path, price, writes, seen, input, output, roi, cost>>

\* The start asset's price is read once more for the base of the return.
Base ==
    LET base == ValueUsd(price, path.start, input)
    IN  /\ pc = "basing"
        /\ IF Panics(profit, base) THEN pc' = "panicked" /\ UNCHANGED roi
           ELSE pc' = "deciding" /\ roi' = RoiOf(profit, base)
        /\ UNCHANGED <<path, price, writes, seen, input, output, profit, cost>>

Decide ==
    /\ pc = "deciding"
    /\ pc' = IF IsProfitable(input, output, profit) THEN "reported" ELSE "rejected"
    /\ UNCHANGED <<path, price, writes, seen, input, output, profit, roi, cost>>

Step == Size \/ Gain \/ Cost \/ Value \/ Base \/ Decide

Next == Step \/ \E a \in Priced : Reprice(a)

Spec == Init /\ [][Next]_vars

-----------------------------------------------------------------------------
(* Properties. *)

Sized == pc \notin {"sizing", "rejected"}

\* No price has changed since the path was sized.
Undisturbed == \A a \in Assets : seen[a] = {price[a]}

\* amount_for_usd is "the inverse of value_usd": the input is the largest
\* base-unit amount worth no more than the configured size.
SizedToBudget ==
    Sized /\ Undisturbed =>
        LET unit == price[path.start][1] * (Scale \div Pow10(path.start))
        IN  /\ input * unit <= InputUsd * Scale
            /\ (input + 1) * unit > InputUsd * Scale

\* A cross-asset path is reported only for a positive difference of two values
\* that its endpoints had during the evaluation, if not at one moment: every
\* price that enters it was the price of that asset at some time since the
\* path was sized.
CrossProfitFromSeenPrices ==
    pc = "reported" /\ ~IsCycle =>
        \E in_price \in seen[path.start], out_price \in seen[path.destination] :
            /\ in_price # None /\ out_price # None
            /\ profit[1] =
                output * out_price[1] * (Scale \div Pow10(path.destination))
                - input * in_price[1] * (Scale \div Pow10(path.start))
            /\ profit[1] > 0

\* If no price changes while a path is evaluated, the awaits do not matter: it
\* is reported exactly when its output is worth more than its input at those
\* prices, with that difference as its profit and the basis points it adds.
UndisturbedIsAtomic ==
    LET worth(a, amount) == amount * price[a][1] * (Scale \div Pow10(a))
        gain == worth(path.destination, output) - worth(path.start, input)
        priced == price[path.destination] # None
        held == worth(path.destination, output) <= MaxSum * Scale
    IN  pc \in {"deciding", "reported"} /\ Undisturbed =>
            /\ pc = "reported" /\ priced /\ held => gain > 0
            /\ pc = "deciding" /\ priced /\ held /\ gain > 0 =>
                IsProfitable(input, output, profit)
            /\ priced /\ held => profit = <<gain>>
            /\ priced /\ held /\ gain > 0 =>
                /\ roi * worth(path.start, input) <= gain * BasisPoints
                /\ roi < U32Max =>
                    (roi + 1) * worth(path.start, input) > gain * BasisPoints

\* The division of roi_bps cannot panic on a cycle that is sized at BasisPoints
\* base units or more, whatever the pools quote and the feeds write: what a
\* conversion lets through as an output is held by a Decimal, and so is its ratio
\* to such an input in basis points. Below that size a pool that returns enough
\* panics it, and so may a crossing of any size, whose base is its input at a
\* price that has collapsed since the profit was computed.
CyclesPanicOnDustOnly == pc = "panicked" /\ IsCycle => input < BasisPoints

\* "No panics/`unwrap` outside tests", "a scan tick ... never crashes the runner"
\* (the design document, section 11): no evaluation panics, whatever it is
\* quoted and the feeds write.
NeverPanics == pc # "panicked"
=============================================================================
