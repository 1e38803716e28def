------------------------------- MODULE Executor -------------------------------
(***************************************************************************)
(* AmmRpcExecutor::build (src/src/adapters/executor/amm_rpc.rs), for the    *)
(* opportunity that Evaluation reports: sign-ready transactions, built once *)
(* on the pools that were quoted. A failed build leaves the opportunity     *)
(* without a plan.                                                          *)
(*                                                                         *)
(* amm-rs plans one transaction per span, a run of hops of one router. When *)
(* a plan has several, nothing has happened on chain that the later ones    *)
(* could go by: each is given what the one before it is sure to deliver.    *)
(***************************************************************************)
EXTENDS Evaluation, SequencesExt

CONSTANTS
    Routers,    \* the routers of the chain's configuration
    Slippage    \* the executor's tolerance, in basis points

ASSUME SlippageAssumption == Slippage \in 0 .. 10000

VARIABLES
    built,  \* build has returned
    plan    \* opportunity.execution: None, or the transactions to submit

execVars == <<built, plan>>

-----------------------------------------------------------------------------
(* amm-rs, as build uses it. *)

\* The spans of a route: its maximal runs of hops of one router.
Extend(spans, hop) ==
    IF spans # <<>> /\ Last(spans)[1].router = hop.router
    THEN [spans EXCEPT ![Len(spans)] = Append(@, hop)]
    ELSE Append(spans, <<hop>>)

Spans(hops) ==
    LET grown[i \in 0 .. Len(hops)] ==
            IF i = 0 THEN <<>> ELSE Extend(grown[i - 1], hops[i])
    IN  grown[Len(hops)]

\* The least a transaction may deliver that was quoted `amount`.
Floored(amount) == (amount * (10000 - Slippage)) \div 10000

\* The transaction for one span: what it takes, what it was quoted, and what it
\* delivers or else reverts. None when the span cannot be quoted.
Prepared(span, amount) ==
    LET quoted == QuotePath(span, amount)
    IN  IF quoted = None THEN None
        ELSE <<[input |-> amount, quoted |-> quoted[1],
                min_received |-> Floored(quoted[1])]>>

-----------------------------------------------------------------------------
(* build() *)

\* A mistake: the next span is given what the one before it was quoted.
ObservedQuote(transactions, amount) ==
    IF transactions = <<>> THEN amount ELSE Last(transactions).quoted

\* A mistake: no span is told of the one before it.
ObservedNothing(transactions, amount) == amount

\* `observed`, the input of the next span.
Observed(transactions, amount) ==
    IF transactions = <<>> THEN amount ELSE Last(transactions).min_received

\* One turn of the next_tx loop.
NextTx(transactions, span, amount) ==
    LET prepared == Prepared(span, Observed(transactions, amount))
    IN  IF prepared = None THEN None ELSE <<Append(transactions, prepared[1])>>

Transactions(spans, amount) ==
    LET sofar[k \in 0 .. Len(spans)] ==
            IF k = 0 THEN << <<>> >>
            ELSE IF sofar[k - 1] = None THEN None
            ELSE NextTx(sofar[k - 1][1], spans[k], amount)
    IN  sofar[Len(spans)]

\* What build returns, None for an error: a pool of a router that is not
\* configured, or a span that cannot be quoted.
PlanOf(hops, amount) ==
    LET spans == Spans(hops)
        transactions == Transactions(spans, amount)
    IN  IF transactions = None \/ \E i \in DOMAIN hops : hops[i].router \notin Routers
        THEN None
        ELSE <<[atomic |-> Len(spans) = 1, transactions |-> transactions[1]]>>

ExecInit == Init /\ built = FALSE /\ plan = None

\* A reported opportunity is enriched.
Build ==
    /\ pc = "reported"
    /\ ~built
    /\ built' = TRUE
    /\ plan' = PlanOf(path.hops, input)
    /\ UNCHANGED vars

ExecNext == (Next /\ UNCHANGED execVars) \/ Build

ExecSpec == ExecInit /\ [][ExecNext]_<<vars, execVars>>

-----------------------------------------------------------------------------
(* Properties. *)

\* Submitted in order, no transaction asks for more than it is sure to get: the
\* first takes the opportunity's input, and each later one no more than the one
\* before it delivers at its floor, however far the pools have drifted between
\* the two (execution.rs: "their slippage floors guard against drift").
PlanIsFunded ==
    plan # None =>
        LET txs == plan[1].transactions
        IN  /\ txs[1].input = input
            /\ \A k \in 2 .. Len(txs) : txs[k].input <= txs[k - 1].min_received

\* A plan never promises more than the tolerance leaves of the output reported
\* with it, and an atomic one promises just that; only a plan of several
\* transactions, each with a tolerance of its own, may promise less.
PlanKeepsPromise ==
    plan # None =>
        LET txs == plan[1].transactions
            promised == Last(txs).min_received
        IN  /\ promised <= Floored(output)
            /\ plan[1].atomic <=> Len(txs) = 1
            /\ plan[1].atomic => promised = Floored(output)
=============================================================================
