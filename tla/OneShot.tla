------------------------------- MODULE OneShot -------------------------------
(***************************************************************************)
(* The one-shot mode (setup::run_once in src/src/setup.rs): wait for the    *)
(* price feeds to warm, then sync and scan every chain once, all of them at *)
(* the same time, and report. The feeds run on throughout. The ticks are    *)
(* polled by one task: a panic in one of them ends the program.             *)
(*                                                                         *)
(* The wait reads the price of one asset after the other, while the feeds   *)
(* write. Its short nap is shorter than a unit of time.                     *)
(***************************************************************************)
EXTENDS PriceFeeds

CONSTANTS
    Configured,     \* the chains of the settings
    Built,          \* those whose provider could be built
    StartAssets,    \* StartAssets[c]: where the scans of chain c start
    WarmDeadline    \* how long warm_prices waits, in units of time

ASSUME OneShotAssumption ==
    /\ Built \subseteq Configured
    /\ StartAssets \in [Configured -> SUBSET Assets]
    /\ WarmDeadline \in Nat

VARIABLES
    stage,      \* where run_once is
    unread,     \* the needed assets this round has not read yet
    priced,     \* every asset read in this round had a price (TRUE between rounds)
    deadline,   \* until the wait gives up
    warm,       \* the wait ended because the feeds were warm
    chainTick,  \* chainTick[c]: where the tick of chain c is
    memory,     \* the chains whose opportunities the memory notifier holds
    since       \* how long ago a warm wait ended, until past MaxStaleness (history)

shotVars ==
    <<stage, unread, priced, deadline, warm, chainTick, memory, since>>
vars == <<feedVars, shotVars>>

\* Start assets are needed even of a chain that could not be built.
Needed == UNION {StartAssets[c] : c \in Configured}
WantBinance == Needed \cap Covered

Init ==
    /\ FeedInit
    /\ stage = "polling"
    /\ unread = Needed
    /\ priced = TRUE
    /\ deadline = WarmDeadline
    /\ warm = FALSE
    /\ chainTick = [c \in Built |-> "syncing"]
    /\ memory = {}
    /\ since = 0

-----------------------------------------------------------------------------
(* warm_prices. *)

\* A mistake: the last asset read decides.
ReadPriceLast(a) ==
    /\ stage = "polling"
    /\ a \in unread
    /\ unread' = unread \ {a}
    /\ priced' = (Source(a) # "none")
    /\ UNCHANGED <<feedVars, stage, deadline, warm, chainTick, memory, since>>

\* One read of valuation.price.
ReadPrice(a) ==
    /\ stage = "polling"
    /\ a \in unread
    /\ unread' = unread \ {a}
    /\ priced' = (priced /\ Source(a) # "none")
    /\ UNCHANGED <<feedVars, stage, deadline, warm, chainTick, memory, since>>

\* price_and_source of every asset that Binance should price.
BinanceReady == \A a \in WantBinance : Source(a) = "binance"

\* The round ends with warm feeds.
Warm ==
    /\ stage = "polling"
    /\ unread = {}
    /\ priced /\ BinanceReady
    /\ stage' = "ticking"
    /\ warm' = TRUE
    /\ UNCHANGED <<feedVars, unread, priced, deadline, chainTick, memory, since>>

\* A mistake: the wait gives up on Binance only.
GiveUpOnBinance ==
    /\ stage = "polling"
    /\ unread = {}
    /\ priced /\ ~BinanceReady
    /\ deadline = 0
    /\ stage' = "ticking"
    /\ priced' = TRUE
    /\ UNCHANGED <<feedVars, unread, deadline, warm, chainTick, memory, since>>

\* The round ends at the deadline: the scans go on with what there is.
GiveUp ==
    /\ stage = "polling"
    /\ unread = {}
    /\ ~(priced /\ BinanceReady)
    /\ deadline = 0
    /\ stage' = "ticking"
    /\ priced' = TRUE
    /\ UNCHANGED <<feedVars, unread, deadline, warm, chainTick, memory, since>>

\* The round ends too early for either.
Nap ==
    /\ stage = "polling"
    /\ unread = {}
    /\ ~(priced /\ BinanceReady)
    /\ deadline > 0
    /\ stage' = "napping"
    /\ priced' = TRUE
    /\ UNCHANGED <<feedVars, unread, deadline, warm, chainTick, memory, since>>

\* The next round, with a flag of its own. A nap outlasts any write to memory.
NextRound ==
    /\ stage = "napping"
    /\ link # "writing" /\ poll # "writing"
    /\ stage' = "polling"
    /\ unread' = Needed
    /\ UNCHANGED <<feedVars, priced, deadline, warm, chainTick, memory, since>>

-----------------------------------------------------------------------------
(* One tick per chain, and the report. *)

\* refresh_once of chain c returns.
SyncDone(c) ==
    /\ stage = "ticking"
    /\ chainTick[c] = "syncing"
    /\ chainTick' = [chainTick EXCEPT ![c] = "scanning"]
    /\ UNCHANGED <<feedVars, stage, unread, priced, deadline, warm, memory, since>>

\* A mistake: the first sync that fails ends every tick (try_join_all).
SyncFailsAll(c) ==
    /\ stage = "ticking"
    /\ chainTick[c] = "syncing"
    /\ chainTick' = [chainTick EXCEPT ![c] = "unsynced"]
    /\ stage' = "reported"
    /\ UNCHANGED <<feedVars, unread, priced, deadline, warm, memory, since>>

\* It fails: chain c is not scanned.
SyncFails(c) ==
    /\ stage = "ticking"
    /\ chainTick[c] = "syncing"
    /\ chainTick' = [chainTick EXCEPT ![c] = "unsynced"]
    /\ UNCHANGED <<feedVars, stage, unread, priced, deadline, warm, memory, since>>

\* A call of it never returns: nothing bounds it.
SyncHangs(c) ==
    /\ stage = "ticking"
    /\ chainTick[c] = "syncing"
    /\ chainTick' = [chainTick EXCEPT ![c] = "hung"]
    /\ UNCHANGED <<feedVars, stage, unread, priced, deadline, warm, memory, since>>

\* The start assets of chain c that scan_once can size paths from.
Priced(c) == {a \in StartAssets[c] : Source(a) # "none"}

\* scan_once of chain c: the notifier holds what it found, next to what the
\* scans of the other chains did.
ScanDone(c) ==
    /\ stage = "ticking"
    /\ chainTick[c] = "scanning"
    /\ chainTick' = [chainTick EXCEPT ![c] = "scanned"]
    /\ memory' = memory \cup {c}
    /\ UNCHANGED <<feedVars, stage, unread, priced, deadline, warm, since>>

\* It returns the error of its notifier, which is logged. (The composite
\* notifier of build_services swallows the errors of its members; that scan_once
\* hands one on is what its caller counts with.)
ScanFails(c) ==
    /\ stage = "ticking"
    /\ chainTick[c] = "scanning"
    /\ chainTick' = [chainTick EXCEPT ![c] = "unscanned"]
    /\ UNCHANGED <<feedVars, stage, unread, priced, deadline, warm, memory, since>>

\* The return of a path it could size overflows (see Evaluation): nothing
\* catches the panic, and the process ends without a report.
ScanPanics(c) ==
    /\ stage = "ticking"
    /\ chainTick[c] = "scanning"
    /\ Priced(c) # {}
    /\ stage' = "crashed"
    /\ UNCHANGED <<feedVars, unread, priced, deadline, warm, chainTick, memory, since>>

\* How a tick ends.
Over == {"unsynced", "scanned", "unscanned"}

\* join_all has every tick: what the notifier holds is printed.
Report ==
    /\ stage = "ticking"
    /\ \A c \in Built : chainTick[c] \in Over
    /\ stage' = "reported"
    /\ UNCHANGED <<feedVars, unread, priced, deadline, warm, chainTick, memory, since>>

Shot ==
    \/ \E a \in Needed : ReadPrice(a)
    \/ Warm \/ GiveUp \/ Nap \/ NextRound
    \/ \E c \in Built : SyncDone(c) \/ SyncFails(c) \/ SyncHangs(c)
    \/ \E c \in Built : ScanDone(c) \/ ScanFails(c) \/ ScanPanics(c)
    \/ Report

\* The feeds run until the process exits.
Exited == stage \in {"reported", "crashed"}

Feeds == ~Exited /\ (Stream \/ Poller) /\ UNCHANGED shotVars

\* Time passes, but not while the wait reads memory.
PassAll ==
    /\ stage # "polling" /\ ~Exited
    /\ stage = "napping" => deadline > 0
    /\ Pass
    /\ deadline' = IF stage = "napping" THEN deadline - 1 ELSE deadline
    /\ since' = IF warm /\ since <= MaxStaleness THEN since + 1 ELSE since
    /\ UNCHANGED <<stage, unread, priced, warm, chainTick, memory>>

Next == Shot \/ Feeds \/ PassAll

Spec == Init /\ [][Next]_vars

\* Nothing is assumed of the feeds and of the RPC nodes but that tasks are run;
\* time passes.
Fairness ==
    /\ WF_vars(Shot)
    /\ SF_vars(NextRound)
    /\ SF_vars(PassAll)
    /\ WF_vars(Feeds /\ Stream)
    /\ WF_vars(Feeds /\ Poller)

FairSpec == Spec /\ Fairness

-----------------------------------------------------------------------------
(* Properties. *)

\* A warm wait pays off (setup.rs: "Scans need USD prices to size and value
\* paths, so wait for the feeds"): although the wait reads price after price
\* while the feeds write, and although both feeds may hang right after it, a
\* scan that ends within what the deadline leaves of the staleness window can
\* size paths from every start asset.
WarmScansAreSized ==
    [][\A c \in Built :
        ScanDone(c) /\ warm /\ since <= MaxStaleness - WarmDeadline =>
            Priced(c) = StartAssets[c]]_vars

\* Every tick comes to its end but those whose sync never returns: a chain that
\* has synced is scanned, and the notifier holds what it found, whichever of the
\* others fail or hang, and whether or not the feeds ever deliver a price
\* (setup.rs: "Every chain: sync once, then scan once - all chains running
\* concurrently"). The report comes unless a sync hangs, which join_all waits
\* for. A scan that panics is the one thing that ends all ticks at once.
OneShotEnds ==
    <>(\/ /\ \A c \in Built : chainTick[c] \in Over \cup {"hung"}
          /\ memory = {c \in Built : chainTick[c] = "scanned"}
          /\ stage = "reported" \/ \E c \in Built : chainTick[c] = "hung"
       \/ stage = "crashed")
=============================================================================
