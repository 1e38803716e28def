----------------------------- MODULE MCEvaluation -----------------------------
(* A small instance of Executor, and so of Evaluation, for TLC. *)
EXTENDS Executor

CONSTANTS usdc, weth, odd   \* assets; odd is not in the registry

MCAssets == {usdc, weth, odd}

MCDecimals ==
    [a \in MCAssets |-> CASE a = usdc -> <<0>> [] a = weth -> <<1>> [] OTHER -> None]

\* A pool of some router that gives `gives` for every `takes`, for at most
\* `limit`.
Pool(router, gives, takes, limit) ==
    [router |-> router, gives |-> gives, takes |-> takes, limit |-> limit]

V2(gives, takes) == Pool("v2", gives, takes, 99)

Aero(gives, takes) == Pool("aero", gives, takes, 99)

Route(from, to, hops) == [start |-> from, destination |-> to, hops |-> hops]

\* Cycles that win, lose and come out even; crossings that win or lose
\* depending on the prices; hops that cannot quote, or more than an amount can
\* hold; gains beyond what a return can count, or a Decimal hold; an
\* unregistered end. Of the cycles that win one has a single router, one crosses
\* routers, one crosses them with a span that its floor cannot feed, one needs a
\* router that is not configured.
MCPaths ==
    {Route(usdc, usdc, <<V2(2, 1), V2(3, 5)>>),
     Route(usdc, usdc, <<V2(2, 1), Aero(3, 5), Aero(5, 4)>>),
     Route(usdc, usdc, <<V2(1, 1), Aero(1, 10), V2(30, 1)>>),
     Route(usdc, usdc, <<V2(3, 1), Pool("curve", 1, 1, 99)>>),
     Route(usdc, usdc, <<V2(1, 2), V2(1, 1)>>),
     Route(weth, weth, <<V2(1, 1)>>),
     Route(usdc, weth, <<V2(5, 1)>>),
     Route(weth, usdc, <<V2(1, 4), Aero(1, 1)>>),
     Route(weth, usdc, <<Pool("v2", 1, 1, 9)>>),
     Route(usdc, usdc, <<V2(999, 1)>>),
     Route(usdc, usdc, <<V2(390, 1)>>),
     Route(usdc, usdc, <<V2(500, 1)>>),
     Route(weth, usdc, <<V2(60, 1)>>),
     Route(usdc, odd, <<V2(1, 1)>>),
     Route(odd, usdc, <<V2(1, 1)>>)}

MCHops == UNION {ToSet(route.hops) : route \in MCPaths}
=============================================================================
