------------------------------ MODULE PriceFeeds ------------------------------
(***************************************************************************)
(* The price store and the two tasks that feed it                           *)
(* (src/src/adapters/valuation): a Binance stream that reconnects, and a    *)
(* CoinGecko poller. The scanners read the store at any time.               *)
(*                                                                         *)
(* Time is kept as ages and countdowns, so it needs no bound: the age of a  *)
(* price is now - PricePoint.at, and stops counting once it is stale. A     *)
(* timer that is due fires before the next unit of time passes, and writing *)
(* to memory takes no time; a network call takes as long as it takes.       *)
(***************************************************************************)
EXTENDS Integers

CONSTANTS
    Assets,         \* the priced assets
    Levels,         \* the USD prices a feed may report
    Symbols,        \* the Binance symbols of the stream
    Covers,         \* Covers[s]: the assets that name symbol s, at least one
    CoinOf,         \* CoinOf[a]: the CoinGecko id of asset a
    MaxStaleness,   \* PriceStore.max_staleness, in units of time
    RecvTimeout,    \* binance::RECV_TIMEOUT
    ReconnectMax,   \* binance::RECONNECT_MAX
    FirstBackoff,   \* the first reconnect backoff
    Interval,       \* CoinGeckoFeed.interval
    Faults          \* what the network does besides answering

ASSUME FeedsAssumption ==
    /\ Levels \subseteq Nat
    /\ Covers \in [Symbols -> SUBSET Assets]
    /\ \A s \in Symbols : Covers[s] # {}
    /\ MaxStaleness \in Nat
    /\ RecvTimeout \in Nat
    /\ ReconnectMax \in Nat
    /\ FirstBackoff \in 0 .. ReconnectMax
    /\ Interval \in Nat
    /\ Faults \subseteq {"drop", "vanish", "refuse", "noise", "hang"}

VARIABLES
    binance,    \* binance[a]: the price a has from Binance, or None
    coingecko,  \* coingecko[a]: the price a has from CoinGecko, or None
    link,       \* where BinanceFeed::run is
    peer,       \* whether the other end of the open socket is still there
    timer,      \* until next() times out, or until the backoff is slept
    backoff,    \* the backoff of the next reconnect
    update,     \* the mid price being fanned out, and the assets to write
    excused,    \* since the last update a reconnect was tried, or a message
                \* without a price was read
    poll,       \* where CoinGeckoFeed::run is
    rest,       \* until the poller's sleep ends
    answer      \* the reply being stored, and the assets still to write

streamVars == <<binance, link, peer, timer, backoff, update, excused>>
pollVars == <<coingecko, poll, rest, answer>>
feedVars == <<streamVars, pollVars>>

None == [usd |-> 0, age |-> MaxStaleness + 1]
Points == [usd : Levels, age : 0 .. MaxStaleness + 1] \cup {None}
At(usd) == [usd |-> usd, age |-> 0]

Coins == {CoinOf[a] : a \in Assets}
Covered == UNION {Covers[s] : s \in Symbols}

NoUpdate == [usd |-> 0, left |-> {}]
NoAnswer == [usd |-> [coin \in Coins |-> 0], left |-> {}]

\* With no symbols the stream's task returns at once.
FeedInit ==
    /\ binance = [a \in Assets |-> None]
    /\ coingecko = [a \in Assets |-> None]
    /\ link = IF Symbols = {} THEN "off" ELSE "connecting"
    /\ peer = "gone"
    /\ timer = 0
    /\ backoff = FirstBackoff
    /\ update = NoUpdate
    /\ excused = FALSE
    /\ poll = "asking"
    /\ rest = 0
    /\ answer = NoAnswer

-----------------------------------------------------------------------------
(* PriceStore: reads. *)

\* A mistake: a price counts however old it is.
FreshAtAnyAge(point) == point # None

\* fresh: known, and not past the staleness window.
Fresh(point) == point # None /\ point.age <= MaxStaleness

\* price_and_source: Binance before CoinGecko.
Source(a) ==
    IF Fresh(binance[a]) THEN "binance"
    ELSE IF Fresh(coingecko[a]) THEN "coingecko"
    ELSE "none"

\* price: what that source says, 0 for a missing price.
Price(a) ==
    CASE Source(a) = "binance" -> binance[a].usd
      [] Source(a) = "coingecko" -> coingecko[a].usd
      [] OTHER -> 0

-----------------------------------------------------------------------------
(* Time. *)

Older(point) == [point EXCEPT !.age = IF @ > MaxStaleness THEN @ ELSE @ + 1]

Pass ==
    /\ link \in {"open", "waiting"} => timer > 0
    /\ link # "writing"
    /\ poll = "resting" => rest > 0
    /\ poll # "writing"
    /\ binance' = [a \in Assets |-> Older(binance[a])]
    /\ coingecko' = [a \in Assets |-> Older(coingecko[a])]
    /\ timer' = IF link \in {"open", "waiting"} THEN timer - 1 ELSE timer
    /\ rest' = IF poll = "resting" THEN rest - 1 ELSE rest
    /\ UNCHANGED <<link, peer, backoff, update, excused, poll, answer>>

-----------------------------------------------------------------------------
(* BinanceFeed. *)

\* connect_async succeeds: the first next() begins to wait.
Connect ==
    /\ link = "connecting"
    /\ link' = "open"
    /\ peer' = "alive"
    /\ timer' = RecvTimeout
    /\ UNCHANGED <<binance, backoff, update, excused, pollVars>>

\* The stream ends, in whatever way, and run sleeps its backoff.
EndStream ==
    /\ link' = "waiting"
    /\ peer' = "gone"
    /\ timer' = backoff
    /\ UNCHANGED <<binance, backoff, update, excused, pollVars>>

\* A mistake: the first connect that fails ends the task.
RefuseForGood ==
    /\ "refuse" \in Faults
    /\ link = "connecting"
    /\ link' = "off"
    /\ UNCHANGED <<binance, peer, timer, backoff, update, excused, pollVars>>

\* connect_async fails.
Refuse ==
    /\ "refuse" \in Faults
    /\ link = "connecting"
    /\ EndStream

\* connect_async is never answered: nothing times it out.
ConnectHangs ==
    /\ "hang" \in Faults
    /\ link = "connecting"
    /\ link' = "hung"
    /\ UNCHANGED <<binance, peer, timer, backoff, update, excused, pollVars>>

\* A bookTicker message of a tracked symbol arrives; ingest begins to write.
Receive(s) ==
    /\ link = "open"
    /\ peer = "alive"
    /\ \E usd \in Levels : update' = [usd |-> usd, left |-> Covers[s]]
    /\ link' = "writing"
    /\ UNCHANGED <<binance, peer, timer, backoff, excused, pollVars>>

\* A mistake: only the first asset of a symbol is written.
WriteFirstMid(a) ==
    /\ link = "writing"
    /\ a \in update.left
    /\ binance' = [binance EXCEPT ![a] = At(update.usd)]
    /\ update' = [update EXCEPT !.left = {}]
    /\ UNCHANGED <<link, peer, timer, backoff, excused, pollVars>>

\* set_binance of one asset of the symbol: each takes the lock by itself.
WriteMid(a) ==
    /\ link = "writing"
    /\ a \in update.left
    /\ binance' = [binance EXCEPT ![a] = At(update.usd)]
    /\ update' = [update EXCEPT !.left = @ \ {a}]
    /\ UNCHANGED <<link, peer, timer, backoff, excused, pollVars>>

\* The update is written everywhere; next() waits again.
ReadOn ==
    /\ link = "writing"
    /\ update.left = {}
    /\ link' = "open"
    /\ timer' = RecvTimeout
    /\ update' = NoUpdate
    /\ excused' = FALSE
    /\ UNCHANGED <<binance, peer, backoff, pollVars>>

\* A message that carries no price (a ping, another symbol) restarts the wait.
Noise ==
    /\ "noise" \in Faults
    /\ link = "open"
    /\ peer = "alive"
    /\ timer < RecvTimeout
    /\ timer' = RecvTimeout
    /\ excused' = TRUE
    /\ UNCHANGED <<binance, link, peer, backoff, update, pollVars>>

\* The server closes the socket, or a read fails.
Drop ==
    /\ "drop" \in Faults
    /\ link = "open"
    /\ peer = "alive"
    /\ EndStream

\* The other end disappears without closing the socket.
Vanish ==
    /\ "vanish" \in Faults
    /\ link = "open"
    /\ peer = "alive"
    /\ peer' = "gone"
    /\ UNCHANGED <<binance, link, timer, backoff, update, excused, pollVars>>

\* next() times out.
TimesOut ==
    /\ link = "open"
    /\ timer = 0
    /\ EndStream

\* A mistake: the backoff is doubled without a cap (2 * MaxStaleness is enough
\* of it).
DoubledUncapped ==
    IF 2 * backoff > 2 * MaxStaleness THEN 2 * MaxStaleness ELSE 2 * backoff

\* The backoff doubles up to its cap, and is never reset.
Doubled == IF 2 * backoff > ReconnectMax THEN ReconnectMax ELSE 2 * backoff

\* The backoff is slept; the next connect is tried.
Reconnect ==
    /\ link = "waiting"
    /\ timer = 0
    /\ link' = "connecting"
    /\ backoff' = Doubled
    /\ excused' = TRUE
    /\ UNCHANGED <<binance, peer, timer, update, pollVars>>

Stream ==
    \/ Connect \/ Refuse \/ ConnectHangs
    \/ \E s \in Symbols : Receive(s)
    \/ \E a \in Assets : WriteMid(a)
    \/ ReadOn \/ Noise \/ Drop \/ Vanish \/ TimesOut \/ Reconnect

-----------------------------------------------------------------------------
(* CoinGeckoFeed. *)

\* The request is answered, with a price for each coin of `priced`.
Answer(priced) ==
    /\ poll = "asking"
    /\ \E usd \in [priced -> Levels] :
        answer' = [usd |-> [coin \in Coins |->
                                IF coin \in priced THEN usd[coin] ELSE 0],
                   left |-> {a \in Assets : CoinOf[a] \in priced}]
    /\ poll' = "writing"
    /\ UNCHANGED <<streamVars, coingecko, rest>>

\* set_coingecko of one asset of the answer.
WritePolled(a) ==
    /\ poll = "writing"
    /\ a \in answer.left
    /\ coingecko' = [coingecko EXCEPT ![a] = At(answer.usd[CoinOf[a]])]
    /\ answer' = [answer EXCEPT !.left = @ \ {a}]
    /\ UNCHANGED <<streamVars, poll, rest>>

\* The answer is stored; the poller sleeps.
Stored ==
    /\ poll = "writing"
    /\ answer.left = {}
    /\ poll' = "resting"
    /\ rest' = Interval
    /\ answer' = NoAnswer
    /\ UNCHANGED <<streamVars, coingecko>>

\* A mistake: the first error ends the loop.
AskFailsForGood ==
    /\ poll = "asking"
    /\ poll' = "ended"
    /\ UNCHANGED <<streamVars, coingecko, rest, answer>>

\* The request or its decoding fails; run logs that and sleeps.
AskFails ==
    /\ poll = "asking"
    /\ poll' = "resting"
    /\ rest' = Interval
    /\ UNCHANGED <<streamVars, coingecko, answer>>

\* The request is never answered: nothing times it out.
AskHangs ==
    /\ "hang" \in Faults
    /\ poll = "asking"
    /\ poll' = "hung"
    /\ UNCHANGED <<streamVars, coingecko, rest, answer>>

AskAgain ==
    /\ poll = "resting"
    /\ rest = 0
    /\ poll' = "asking"
    /\ UNCHANGED <<streamVars, coingecko, rest, answer>>

Poller ==
    \/ \E priced \in SUBSET Coins : Answer(priced)
    \/ \E a \in Assets : WritePolled(a)
    \/ Stored \/ AskFails \/ AskHangs \/ AskAgain

FeedNext == Pass \/ Stream \/ Poller

FeedSpec == FeedInit /\ [][FeedNext]_feedVars

\* Both tasks are polled by the runtime and time passes; every call that does
\* not hang returns. Servers that are asked again and again answer again and
\* again: Binance accepts, CoinGecko prices every coin.
FeedFairness ==
    /\ WF_feedVars(Pass)
    /\ WF_feedVars(Connect \/ Refuse \/ ConnectHangs)
    /\ SF_feedVars(Connect)
    /\ WF_feedVars(\E a \in Assets : WriteMid(a))
    /\ WF_feedVars(ReadOn)
    /\ WF_feedVars(TimesOut)
    /\ WF_feedVars(Reconnect)
    /\ WF_feedVars(\/ \E priced \in SUBSET Coins : Answer(priced)
                   \/ AskFails \/ AskHangs)
    /\ SF_feedVars(Answer(Coins))
    /\ WF_feedVars(\E a \in Assets : WritePolled(a))
    /\ WF_feedVars(Stored)
    /\ WF_feedVars(AskAgain)

FairFeedSpec == FeedSpec /\ FeedFairness

-----------------------------------------------------------------------------
(* Properties. *)

\* Every variable has its type.
FeedTypeOK ==
    /\ binance \in [Assets -> Points]
    /\ coingecko \in [Assets -> Points]
    /\ link \in {"off", "connecting", "open", "writing", "waiting", "hung"}
    /\ peer \in {"alive", "gone"}
    /\ timer \in 0 .. (IF RecvTimeout > ReconnectMax THEN RecvTimeout ELSE ReconnectMax)
    /\ backoff \in 0 .. ReconnectMax
    /\ update \in [usd : Levels \cup {0}, left : SUBSET Assets]
    /\ excused \in BOOLEAN
    /\ poll \in {"asking", "writing", "resting", "hung"}
    /\ rest \in 0 .. Interval
    /\ answer \in [usd : [Coins -> Levels \cup {0}], left : SUBSET Assets]

\* Neither feed has written one of a and b and still holds the price of the other.
WrittenAlike(a, b) ==
    /\ a \in update.left <=> b \in update.left
    /\ a \in answer.left <=> b \in answer.left

\* One token on several chains has one price: assets that share their symbol
\* and their coin are priced alike at every moment, but for the one gap between
\* two chains that is an artefact of the feeds: that a feed has written the one
\* and not yet the other (binance.rs: "One symbol's mid price fans out to every
\* asset it covers").
SameTokenSamePrice ==
    \A s \in Symbols : \A a, b \in Covers[s] :
        CoinOf[a] = CoinOf[b] /\ WrittenAlike(a, b) =>
            Price(a) = Price(b) /\ Source(a) = Source(b)

\* The staleness window outlasts one stall of the stream: a receive timeout and
\* the longest backoff fit in it, so Binance prices do not all lapse before the
\* feed has tried to reconnect - unless messages without a price have kept the
\* socket open, which keep no price fresh.
TriesBeforeLapse ==
    (Covered # {} /\ \A a \in Covered : binance[a] # None /\ ~Fresh(binance[a]))
        => excused

Connected == link = "open" /\ peer = "alive"

\* binance.rs: "held open in a reconnect loop with exponential backoff and a
\* receive timeout, so a dropped connection self-heals". A feed that has once been
\* connected is so again and again, to a server that is there, whatever becomes of
\* its connections.
SelfHeals == <>Connected => []<>Connected

\* Every fault but a hang heals: a feed whose connects are all answered in the end
\* is connected again and again, from the start on.
HealsUnlessHung == Symbols # {} /\ ~<>[](link = "hung") => []<>Connected

\* A Binance feed that hangs does not freeze prices: from some time on none of
\* its prices is used any more, so they no longer mask CoinGecko's.
DeadFeedYields ==
    <>[](link = "hung") => <>[](\A a \in Assets : Source(a) # "binance")

\* The poller survives its failures: unless a request hangs, every asset has a
\* price again and again, whatever becomes of Binance.
PollerKeepsPricing ==
    ~<>[](poll = "hung") => \A a \in Assets : []<>(Source(a) # "none")
=============================================================================
