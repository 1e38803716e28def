---------------------------- MODULE OneShot_proofs ----------------------------
(***************************************************************************)
(* Proofs about the price feeds, for any symbols, assets, prices, faults and *)
(* durations, and about the one-shot mode that waits for them, for any       *)
(* chains and start assets.                                                 *)
(***************************************************************************)
EXTENDS OneShot, TLAPS

-----------------------------------------------------------------------------
(* Types. *)

\* What a feed is about to write is a price.
PricesInHand ==
    /\ link = "writing" => update.usd \in Levels
    /\ poll = "writing" => \A a \in answer.left : answer.usd[CoinOf[a]] \in Levels

FeedTypes == FeedTypeOK /\ PricesInHand

\* A countdown never exceeds the longer of the two waits.
LongestWait == IF RecvTimeout > ReconnectMax THEN RecvTimeout ELSE ReconnectMax

LEMMA Waits ==
  /\ LongestWait \in Nat
  /\ RecvTimeout \in 0 .. LongestWait
  /\ \A n \in 0 .. ReconnectMax : n \in 0 .. LongestWait
BY FeedsAssumption DEF LongestWait

LEMMA NothingInHand ==
  /\ NoUpdate \in [usd : Levels \cup {0}, left : SUBSET Assets]
  /\ NoAnswer \in [usd : [Coins -> Levels \cup {0}], left : SUBSET Assets]
BY DEF NoUpdate, NoAnswer

LEMMA NoneIsPoint == None \in Points
BY DEF Points

\* A fresh write is a price of age zero.
LEMMA AtIsPoint ==
  ASSUME NEW usd \in Levels
  PROVE  At(usd) \in Points /\ At(usd).age = 0 /\ At(usd).usd = usd
BY FeedsAssumption DEF At, Points

\* Aging a price keeps what it says; a missing price stays missing.
LEMMA OlderIsPoint ==
  ASSUME NEW point \in Points
  PROVE  /\ Older(point) \in Points
         /\ point = None => Older(point) = None
         /\ point.age \in Nat
         /\ Older(point).age <= point.age + 1
<1>1. CASE point = None
  <2>1. None.age = MaxStaleness + 1 /\ None.usd = 0
    BY DEF None
  <2>2. Older(point) = None
    BY <1>1, <2>1, FeedsAssumption DEF Older, None
  <2> QED
    BY <1>1, <2>1, <2>2, NoneIsPoint, FeedsAssumption
<1>2. CASE point \in [usd : Levels, age : 0 .. MaxStaleness + 1]
  <2>1. point.age \in 0 .. MaxStaleness + 1 /\ point.usd \in Levels
    BY <1>2
  <2>2. Older(point) = [usd |-> point.usd,
                        age |-> IF point.age > MaxStaleness THEN point.age ELSE point.age + 1]
    BY <1>2 DEF Older
  <2>3. Older(point).age \in 0 .. MaxStaleness + 1 /\ Older(point).age <= point.age + 1
    BY <2>1, <2>2, FeedsAssumption
  <2>4. Older(point) \in Points
    BY <2>1, <2>2, <2>3 DEF Points
  <2>5. point = None => Older(point) = None
    <3>1. ASSUME point = None PROVE Older(point) = point
      <4>1. point.age = MaxStaleness + 1
        BY <3>1 DEF None
      <4> QED
        BY <1>2, <2>2, <4>1, FeedsAssumption
    <3> QED
      BY <3>1
  <2> QED
    BY <2>1, <2>3, <2>4, <2>5
<1> QED
  BY <1>1, <1>2 DEF Points

LEMMA InitTypes == FeedInit => FeedTypes
<1> SUFFICES ASSUME FeedInit PROVE FeedTypes
  OBVIOUS
<1>1. binance \in [Assets -> Points] /\ coingecko \in [Assets -> Points]
  BY NoneIsPoint DEF FeedInit
<1>2. /\ timer \in 0 .. LongestWait /\ backoff \in 0 .. ReconnectMax
      /\ rest \in 0 .. Interval
  BY Waits, FeedsAssumption DEF FeedInit
<1>3. FeedTypeOK
  BY <1>1, <1>2, NothingInHand DEF FeedInit, FeedTypeOK, LongestWait
<1>4. PricesInHand
  BY DEF FeedInit, PricesInHand
<1> QED
  BY <1>3, <1>4 DEF FeedTypes

\* A step of the stream.
LEMMA StreamTypes ==
  ASSUME FeedTypes, Stream
  PROVE  FeedTypes'
<1> USE FeedsAssumption DEF FeedTypes, FeedTypeOK, PricesInHand
<1>1. CASE Connect \/ ConnectHangs
  BY <1>1, Waits DEF Connect, ConnectHangs, pollVars, LongestWait
<1>2. CASE Noise \/ Vanish
  BY <1>2, Waits DEF Noise, Vanish, pollVars, LongestWait
<1>3. CASE Refuse \/ Drop \/ TimesOut
  BY <1>3 DEF Refuse, Drop, TimesOut, EndStream, pollVars
<1>4. ASSUME NEW s \in Symbols, Receive(s)
      PROVE  FeedTypes'
  BY <1>4 DEF Receive, pollVars
<1>5. ASSUME NEW a \in Assets, WriteMid(a)
      PROVE  FeedTypes'
  <2>1. At(update.usd) \in Points
    BY <1>5, AtIsPoint DEF WriteMid
  <2>2. binance' \in [Assets -> Points]
    BY <1>5, <2>1 DEF WriteMid
  <2> QED
    BY <1>5, <2>2 DEF WriteMid, pollVars
<1>6. CASE ReadOn
  BY <1>6, NothingInHand, Waits DEF ReadOn, pollVars, LongestWait
<1>7. CASE Reconnect
  <2>1. Doubled \in 0 .. ReconnectMax
    BY DEF Doubled
  <2> QED
    BY <1>7, <2>1 DEF Reconnect, pollVars
<1> QED
  BY <1>1, <1>2, <1>3, <1>4, <1>5, <1>6, <1>7 DEF Stream

\* A step of the poller.
LEMMA PollerTypes ==
  ASSUME FeedTypes, Poller
  PROVE  FeedTypes'
<1> USE FeedsAssumption DEF FeedTypes, FeedTypeOK, PricesInHand
<1>1. CASE Stored \/ AskFails \/ AskHangs \/ AskAgain
  BY <1>1, NothingInHand DEF Stored, AskFails, AskHangs, AskAgain, streamVars
<1>2. ASSUME NEW answered \in SUBSET Coins, Answer(answered)
      PROVE  FeedTypes'
  <2>1. PICK usd \in [answered -> Levels] :
          answer' = [usd |-> [coin \in Coins |->
                                  IF coin \in answered THEN usd[coin] ELSE 0],
                     left |-> {a \in Assets : CoinOf[a] \in answered}]
    BY <1>2 DEF Answer
  <2>2. answer' \in [usd : [Coins -> Levels \cup {0}], left : SUBSET Assets]
    BY <2>1
  <2>3. \A a \in answer'.left : answer'.usd[CoinOf[a]] \in Levels
    BY <2>1 DEF Coins
  <2> QED
    BY <1>2, <2>2, <2>3 DEF Answer, streamVars
<1>3. ASSUME NEW a \in Assets, WritePolled(a)
      PROVE  FeedTypes'
  <2>1. At(answer.usd[CoinOf[a]]) \in Points
    BY <1>3, AtIsPoint DEF WritePolled
  <2>2. coingecko' \in [Assets -> Points]
    BY <1>3, <2>1 DEF WritePolled
  <2> QED
    BY <1>3, <2>2 DEF WritePolled, streamVars
<1> QED
  BY <1>1, <1>2, <1>3 DEF Poller

\* Time passes.
LEMMA PassTypes ==
  ASSUME FeedTypes, Pass
  PROVE  FeedTypes'
<1> USE FeedsAssumption DEF FeedTypes, FeedTypeOK, PricesInHand
<1>1. binance' \in [Assets -> Points] /\ coingecko' \in [Assets -> Points]
  BY OlderIsPoint DEF Pass
<1>2. /\ timer' \in 0 .. (IF RecvTimeout > ReconnectMax THEN RecvTimeout ELSE ReconnectMax)
      /\ rest' \in 0 .. Interval
  BY DEF Pass
<1> QED
  BY <1>1, <1>2 DEF Pass

LEMMA StepTypes == FeedTypes /\ [FeedNext]_feedVars => FeedTypes'
<1> SUFFICES ASSUME FeedTypes, [FeedNext]_feedVars
             PROVE  FeedTypes'
  OBVIOUS
<1>1. CASE UNCHANGED feedVars
  BY <1>1 DEF feedVars, streamVars, pollVars, FeedTypes, FeedTypeOK, PricesInHand
<1> QED
  BY <1>1, StreamTypes, PollerTypes, PassTypes DEF FeedNext

\* Every variable of the feeds keeps its type.
THEOREM FeedTypeCorrect == FeedSpec => []FeedTypeOK
<1>1. FeedTypes => FeedTypeOK
  BY DEF FeedTypes
<1> QED
  BY <1>1, InitTypes, StepTypes, PTL DEF FeedSpec

-----------------------------------------------------------------------------
(* Assets of one symbol, and assets of one coin, agree. *)

\* No asset takes its price from two symbols: each entry of the settings names
\* at most one, and no id is listed twice with different ones.
SymbolsDisjoint ==
    \A s, r \in Symbols : s # r => Covers[s] \cap Covers[r] = {}

\* The mid price in hand is that of symbol s: it is in the store for every asset
\* of s but those still to write, and as no time passes it is of age zero.
FansOut(s) ==
    /\ link = "writing"
    /\ update.left \subseteq Covers[s]
    /\ \A a \in Covers[s] \ update.left : binance[a] = At(update.usd)

\* While the stream writes, it writes the price of some symbol.
WritesSomeSymbol == link = "writing" => \E s \in Symbols : FansOut(s)

\* A feed that is not writing has nothing left to write.
NothingPending ==
    /\ link # "writing" => update.left = {}
    /\ poll # "writing" => answer.left = {}

\* Two assets of a symbol agree unless just one of them is still to be written:
\* those written have the new price, the others still share the old one.
SymbolsAgree ==
    \A s \in Symbols : \A a, b \in Covers[s] :
        (a \in update.left <=> b \in update.left) => binance[a] = binance[b]

OfCoin(coin) == {a \in Assets : CoinOf[a] = coin}

\* The price in hand for a coin is in the store for each of its assets but
\* those still to write.
Stores(coin) ==
    \A a \in OfCoin(coin) \ answer.left : coingecko[a] = At(answer.usd[coin])

StoresPending == \A a \in answer.left : Stores(CoinOf[a])

CoinsAgree ==
    \A a, b \in Assets :
        CoinOf[a] = CoinOf[b] /\ (a \in answer.left <=> b \in answer.left) =>
            coingecko[a] = coingecko[b]

StreamAgree == WritesSomeSymbol /\ SymbolsAgree
PollAgree == StoresPending /\ CoinsAgree

AgreeInv == FeedTypeOK /\ NothingPending /\ StreamAgree /\ PollAgree

\* A step that leaves a feed's writes alone keeps what they agree on.
LEMMA StreamUntouched ==
  ASSUME StreamAgree, UNCHANGED <<binance, update>>,
         link' = "writing" <=> link = "writing"
  PROVE  StreamAgree'
BY DEF StreamAgree, WritesSomeSymbol, SymbolsAgree, FansOut

LEMMA PollUntouched ==
  ASSUME PollAgree, UNCHANGED <<coingecko, answer>>
  PROVE  PollAgree'
BY DEF PollAgree, StoresPending, CoinsAgree, Stores, OfCoin

\* Writing one asset leads one step further in the fan-out of its symbol. That
\* the stream writes some symbol does not rest on the symbols' being disjoint.
LEMMA WriteMidFansOut ==
  ASSUME FeedTypeOK, NEW a \in Assets, WriteMid(a), NEW s \in Symbols, FansOut(s)
  PROVE  FansOut(s)'
<1>1. /\ binance' = [binance EXCEPT ![a] = At(update.usd)]
      /\ update' = [update EXCEPT !.left = @ \ {a}]
      /\ UNCHANGED link
  BY DEF WriteMid
<1>2. update'.left = update.left \ {a} /\ update'.usd = update.usd
  BY <1>1 DEF FeedTypeOK
<1>3. Covers[s] \subseteq Assets
  BY FeedsAssumption
<1>4. ASSUME NEW b \in Covers[s] \ update'.left
      PROVE  binance'[b] = At(update.usd)
  BY <1>1, <1>2, <1>3 DEF FeedTypeOK, FansOut
<1> QED
  BY <1>1, <1>2, <1>4 DEF FansOut

LEMMA StepWrites ==
  ASSUME FeedTypeOK, WritesSomeSymbol, [FeedNext]_feedVars
  PROVE  WritesSomeSymbol'
<1>1. ASSUME NEW s \in Symbols, Receive(s)
      PROVE  FansOut(s)'
  BY <1>1 DEF Receive, FansOut
<1>2. ASSUME NEW a \in Assets, WriteMid(a)
      PROVE  WritesSomeSymbol'
  BY <1>2, WriteMidFansOut DEF WritesSomeSymbol, WriteMid
<1>3. \/ \E s \in Symbols : Receive(s)
      \/ \E a \in Assets : WriteMid(a)
      \/ link' # "writing"
      \/ UNCHANGED <<link, binance, update>>
  BY DEF FeedNext, feedVars, streamVars, Pass, Stream, Connect, Refuse, ConnectHangs,
         ReadOn, Noise, Drop, Vanish, TimesOut, Reconnect, EndStream, Poller, Answer,
         WritePolled, Stored, AskFails, AskHangs, AskAgain
<1> QED
  BY <1>1, <1>2, <1>3 DEF WritesSomeSymbol, FansOut

LEMMA StepPending ==
  ASSUME NothingPending, [FeedNext]_feedVars
  PROVE  NothingPending'
BY DEF NothingPending, FeedNext, feedVars, streamVars, pollVars, Pass, Stream, Connect,
       Refuse, ConnectHangs, Receive, WriteMid, ReadOn, Noise, Drop, Vanish, TimesOut,
       Reconnect, EndStream, Poller, Answer, WritePolled, Stored, AskFails, AskHangs,
       AskAgain, NoUpdate, NoAnswer

LEMMA StreamAgrees ==
  ASSUME SymbolsDisjoint, FeedTypeOK, NothingPending, StreamAgree, Stream
  PROVE  StreamAgree'
<1>1. CASE Connect \/ Refuse \/ ConnectHangs \/ Noise \/ Drop \/ Vanish \/ TimesOut
           \/ Reconnect
  BY <1>1, StreamUntouched DEF Connect, Refuse, ConnectHangs, Noise, Drop, Vanish,
     TimesOut, Reconnect, EndStream
<1>2. ASSUME NEW s \in Symbols, Receive(s)
      PROVE  StreamAgree'
  <2>1. /\ link = "open" /\ link' = "writing"
        /\ update'.left = Covers[s]
        /\ UNCHANGED binance
    BY <1>2 DEF Receive
  <2>2. FansOut(s)'
    BY <2>1 DEF FansOut
  <2>3. update.left = {}
    BY <2>1 DEF NothingPending
  <2>4. \A r \in Symbols : \A a, b \in Covers[r] : binance[a] = binance[b]
    BY <2>3 DEF StreamAgree, SymbolsAgree
  <2> QED
    BY <2>1, <2>2, <2>4 DEF StreamAgree, WritesSomeSymbol, SymbolsAgree
<1>3. ASSUME NEW a \in Assets, WriteMid(a)
      PROVE  StreamAgree'
  <2>1. /\ a \in update.left /\ link = "writing"
        /\ binance' = [binance EXCEPT ![a] = At(update.usd)]
        /\ update' = [update EXCEPT !.left = @ \ {a}]
    BY <1>3 DEF WriteMid
  <2>2. update'.left = update.left \ {a}
    BY <2>1 DEF FeedTypeOK
  <2>3. \A b \in Assets : binance'[b] = IF b = a THEN At(update.usd) ELSE binance[b]
    BY <2>1 DEF FeedTypeOK
  <2>4. PICK s \in Symbols : FansOut(s)
    BY <2>1 DEF StreamAgree, WritesSomeSymbol
  <2>5. FansOut(s)'
    BY <1>3, <2>4, WriteMidFansOut
  <2>6. ASSUME NEW r \in Symbols, NEW b \in Covers[r], NEW c \in Covers[r],
               b \in update'.left <=> c \in update'.left
        PROVE  binance'[b] = binance'[c]
    <3>1. b \in Assets /\ c \in Assets
      BY FeedsAssumption
    <3>2. CASE b # a /\ c # a
      <4>1. binance[b] = binance[c]
        BY <2>2, <2>6, <3>2 DEF StreamAgree, SymbolsAgree
      <4> QED
        BY <2>3, <3>1, <3>2, <4>1
    <3>3. CASE b = a \/ c = a
      <4>1. a \in Covers[s] /\ a \in Covers[r]
        BY <2>1, <2>4, <3>3 DEF FansOut
      <4>2. r = s
        BY <4>1 DEF SymbolsDisjoint
      <4>3. b \notin update'.left /\ c \notin update'.left
        BY <2>2, <2>6, <3>3
      <4> QED
        BY <2>5, <4>2, <4>3 DEF FansOut
    <3> QED
      BY <3>2, <3>3
  <2> QED
    BY <2>5, <2>6 DEF StreamAgree, WritesSomeSymbol, SymbolsAgree
<1>4. CASE ReadOn
  <2>1. /\ update.left = {} /\ update'.left = {} /\ link' = "open"
        /\ UNCHANGED binance
    BY <1>4 DEF ReadOn, NoUpdate
  <2> QED
    BY <2>1 DEF StreamAgree, WritesSomeSymbol, SymbolsAgree
<1> QED
  BY <1>1, <1>2, <1>3, <1>4 DEF Stream

LEMMA PollerAgrees ==
  ASSUME FeedTypeOK, NothingPending, PollAgree, Poller
  PROVE  PollAgree'
<1>1. CASE AskFails \/ AskHangs \/ AskAgain
  BY <1>1, PollUntouched DEF AskFails, AskHangs, AskAgain
<1>2. ASSUME NEW answered \in SUBSET Coins, Answer(answered)
      PROVE  PollAgree'
  <2>1. /\ poll = "asking"
        /\ answer'.left = {a \in Assets : CoinOf[a] \in answered}
        /\ UNCHANGED coingecko
    BY <1>2 DEF Answer
  <2>2. answer.left = {}
    BY <2>1 DEF NothingPending
  <2>3. CoinsAgree'
    BY <2>1, <2>2 DEF PollAgree, CoinsAgree
  <2>4. StoresPending'
    BY <2>1 DEF StoresPending, Stores, OfCoin
  <2> QED
    BY <2>3, <2>4 DEF PollAgree
<1>3. ASSUME NEW a \in Assets, WritePolled(a)
      PROVE  PollAgree'
  <2> DEFINE mine == CoinOf[a]
  <2>1. /\ a \in answer.left
        /\ coingecko' = [coingecko EXCEPT ![a] = At(answer.usd[mine])]
        /\ answer' = [answer EXCEPT !.left = @ \ {a}]
    BY <1>3 DEF WritePolled
  <2>2. answer'.left = answer.left \ {a} /\ answer'.usd = answer.usd
    BY <2>1 DEF FeedTypeOK
  <2>3. Stores(mine)
    BY <2>1 DEF PollAgree, StoresPending
  <2>4. \A b \in Assets : coingecko'[b] = IF b = a THEN At(answer.usd[mine]) ELSE coingecko[b]
    BY <2>1 DEF FeedTypeOK
  <2>5. Stores(mine)'
    BY <2>2, <2>3, <2>4 DEF Stores, OfCoin
  <2>6. ASSUME NEW b \in answer'.left
        PROVE  Stores(CoinOf[b])'
    <3>1. CASE CoinOf[b] = mine
      BY <2>5, <3>1
    <3>2. CASE CoinOf[b] # mine
      <4>1. Stores(CoinOf[b])
        BY <2>2, <2>6 DEF PollAgree, StoresPending
      <4>2. a \notin OfCoin(CoinOf[b])
        BY <3>2 DEF OfCoin
      <4> QED
        BY <2>2, <2>4, <4>1, <4>2 DEF Stores, OfCoin
    <3> QED
      BY <3>1, <3>2
  <2>7. ASSUME NEW b \in Assets, NEW c \in Assets, CoinOf[b] = CoinOf[c],
               b \in answer'.left <=> c \in answer'.left
        PROVE  coingecko'[b] = coingecko'[c]
    <3>1. CASE b # a /\ c # a
      <4>1. coingecko[b] = coingecko[c]
        BY <2>2, <2>7, <3>1 DEF PollAgree, CoinsAgree
      <4> QED
        BY <2>4, <3>1, <4>1
    <3>2. CASE b = a \/ c = a
      <4>1. b \in OfCoin(mine) \ answer'.left /\ c \in OfCoin(mine) \ answer'.left
        BY <2>2, <2>7, <3>2 DEF OfCoin
      <4> QED
        BY <2>5, <4>1 DEF Stores, OfCoin
    <3> QED
      BY <3>1, <3>2
  <2> HIDE DEF mine
  <2> QED
    BY <2>6, <2>7 DEF PollAgree, StoresPending, CoinsAgree
<1>4. CASE Stored
  <2>1. answer.left = {} /\ answer'.left = {} /\ UNCHANGED coingecko
    BY <1>4 DEF Stored, NoAnswer
  <2> QED
    BY <2>1 DEF PollAgree, StoresPending, CoinsAgree
<1> QED
  BY <1>1, <1>2, <1>3, <1>4 DEF Poller

\* Each task leaves the other's part of the store alone.
LEMMA StreamKeepsPoll == Stream => UNCHANGED pollVars
BY DEF Stream, Connect, Refuse, ConnectHangs, Receive, WriteMid, ReadOn, Noise, Drop,
       Vanish, TimesOut, Reconnect, EndStream

LEMMA PollerKeepsStream == Poller => UNCHANGED streamVars
BY DEF Poller, Answer, WritePolled, Stored, AskFails, AskHangs, AskAgain

\* Time makes all prices older alike.
LEMMA PassAgrees ==
  ASSUME FeedTypeOK, NothingPending, StreamAgree, PollAgree, Pass
  PROVE  StreamAgree' /\ PollAgree'
<1>1. /\ link' # "writing" /\ UNCHANGED <<update, answer>>
      /\ update.left = {} /\ answer.left = {}
      /\ \A a \in Assets : binance'[a] = Older(binance[a])
      /\ \A a \in Assets : coingecko'[a] = Older(coingecko[a])
  BY DEF Pass, NothingPending
<1>2. SymbolsAgree'
  BY <1>1, FeedsAssumption DEF StreamAgree, SymbolsAgree
<1>3. CoinsAgree'
  BY <1>1 DEF PollAgree, CoinsAgree
<1> QED
  BY <1>1, <1>2, <1>3 DEF StreamAgree, PollAgree, WritesSomeSymbol, StoresPending

LEMMA StepAgrees ==
  ASSUME SymbolsDisjoint, AgreeInv, FeedTypeOK', [FeedNext]_feedVars
  PROVE  AgreeInv'
<1> USE DEF AgreeInv
<1>0. NothingPending'
  BY StepPending
<1>1. CASE Stream
  BY <1>0, <1>1, StreamAgrees, PollUntouched, StreamKeepsPoll DEF pollVars
<1>2. CASE Poller
  BY <1>0, <1>2, PollerAgrees, StreamUntouched, PollerKeepsStream DEF streamVars
<1>3. CASE Pass
  BY <1>0, <1>3, PassAgrees
<1>4. CASE UNCHANGED feedVars
  BY <1>0, <1>4, StreamUntouched, PollUntouched DEF feedVars, streamVars, pollVars
<1> QED
  BY <1>1, <1>2, <1>3, <1>4 DEF FeedNext

\* One token on several chains has one price but while a feed has written the one
\* asset and not the other, for any number of symbols and assets and any faults.
\* Without SymbolsDisjoint it is false: the stream would write an asset of two
\* symbols with either price.
THEOREM OneTokenOnePrice == SymbolsDisjoint => (FeedSpec => []SameTokenSamePrice)
<1> SUFFICES ASSUME SymbolsDisjoint PROVE FeedSpec => []SameTokenSamePrice
  OBVIOUS
<1>1. FeedInit => AgreeInv
  <2> SUFFICES ASSUME FeedInit PROVE AgreeInv
    OBVIOUS
  <2>1. FeedTypeOK
    BY InitTypes DEF FeedTypes
  <2>2. /\ link # "writing"
        /\ update.left = {} /\ answer.left = {}
        /\ \A a \in Assets : binance[a] = None /\ coingecko[a] = None
    BY DEF FeedInit, NoUpdate, NoAnswer
  <2>3. SymbolsAgree
    BY <2>2, FeedsAssumption DEF SymbolsAgree
  <2> QED
    BY <2>1, <2>2, <2>3 DEF AgreeInv, NothingPending, StreamAgree, PollAgree,
       WritesSomeSymbol, StoresPending, CoinsAgree
<1>2. AgreeInv => SameTokenSamePrice
  <2> SUFFICES ASSUME AgreeInv,
                      NEW s \in Symbols, NEW a \in Covers[s], NEW b \in Covers[s],
                      CoinOf[a] = CoinOf[b], WrittenAlike(a, b)
               PROVE  Price(a) = Price(b) /\ Source(a) = Source(b)
    BY DEF SameTokenSamePrice
  <2>1. a \in Assets /\ b \in Assets
    BY FeedsAssumption
  <2>2. binance[a] = binance[b]
    BY DEF AgreeInv, StreamAgree, SymbolsAgree, WrittenAlike
  <2>3. coingecko[a] = coingecko[b]
    BY <2>1 DEF AgreeInv, PollAgree, CoinsAgree, WrittenAlike
  <2> QED
    BY <2>2, <2>3 DEF Price, Source
<1>3. FeedTypeOK /\ FeedTypeOK' /\ AgreeInv /\ [FeedNext]_feedVars => AgreeInv'
  BY StepAgrees
<1> QED
  BY <1>1, <1>2, <1>3, FeedTypeCorrect, PTL DEF FeedSpec

-----------------------------------------------------------------------------
(* The staleness window outlasts a stall of the stream. *)

\* The durations of the code: 30 s and 60 s fit in a window of 120 s.
WindowOutlastsStall == RecvTimeout + ReconnectMax <= MaxStaleness

\* How long ago, at most, the stream wrote last when it has not been excused:
\* as long as it has been waiting for a message, and then for its backoff.
SinceLastWrite ==
    CASE link = "open" -> RecvTimeout - timer
      [] link = "writing" -> RecvTimeout
      [] link = "waiting" -> RecvTimeout + backoff - timer
      [] OTHER -> 0

\* The stream waits for no longer than it may.
WaitsBounded ==
    /\ link = "open" => timer \in 0 .. RecvTimeout
    /\ link = "waiting" => timer \in 0 .. backoff

\* The price of a that keeps the stream from having let everything lapse.
Kept(a) ==
    \/ binance[a] = None
    \/ /\ link \in {"open", "writing", "waiting"}
       /\ binance[a].age <= SinceLastWrite

\* Before the first update nothing covered has a price from Binance; after it,
\* some price is no older than the last write, until a reconnect or a message
\* without a price excuses the stream.
LapseInv ==
    /\ FeedTypeOK
    /\ WritesSomeSymbol
    /\ WaitsBounded
    /\ ~excused /\ Covered # {} =>
        \E a \in Covered : Kept(a)

LEMMA CoveredAreAssets == Covered \subseteq Assets
BY FeedsAssumption DEF Covered

\* A step that is not the passing of time leaves the ages as they are, and
\* does not shorten the wait.
LEMMA KeptUntouched ==
  ASSUME FeedTypeOK, NEW a \in Assets, Kept(a), UNCHANGED binance,
         \/ link \notin {"open", "writing", "waiting"}
         \/ /\ link' \in {"open", "writing", "waiting"}
            /\ SinceLastWrite \in Int
            /\ SinceLastWrite' \in Int
            /\ SinceLastWrite <= SinceLastWrite'
  PROVE  Kept(a)'
<1>1. binance[a] # None => binance[a].age \in Nat
  BY OlderIsPoint DEF FeedTypeOK
<1> QED
  BY <1>1 DEF Kept

\* A fresh write keeps the asset.
LEMMA WrittenIsKept ==
  ASSUME FeedTypeOK', NEW a \in Assets, link' \in {"open", "writing"},
         WaitsBounded', binance'[a].age = 0
  PROVE  Kept(a)'
BY FeedsAssumption DEF Kept, SinceLastWrite, WaitsBounded

LEMMA StepWaits ==
  ASSUME FeedTypeOK, WaitsBounded, [FeedNext]_feedVars
  PROVE  WaitsBounded'
<1> USE FeedsAssumption DEF FeedTypeOK, WaitsBounded
<1>1. CASE Connect \/ ConnectHangs \/ ReadOn \/ Noise \/ Vanish \/ Reconnect
  BY <1>1 DEF Connect, ConnectHangs, ReadOn, Noise, Vanish, Reconnect
<1>2. CASE Refuse \/ Drop \/ TimesOut
  BY <1>2 DEF Refuse, Drop, TimesOut, EndStream
<1>3. ASSUME NEW s \in Symbols, Receive(s)
      PROVE  WaitsBounded'
  BY <1>3 DEF Receive
<1>4. ASSUME NEW a \in Assets, WriteMid(a)
      PROVE  WaitsBounded'
  BY <1>4 DEF WriteMid
<1>5. CASE Pass
  BY <1>5 DEF Pass
<1>6. CASE Poller \/ UNCHANGED feedVars
  BY <1>6, PollerKeepsStream DEF feedVars, streamVars
<1> QED
  BY <1>1, <1>2, <1>3, <1>4, <1>5, <1>6 DEF FeedNext, Stream

\* Time ages a kept price no faster than it stretches the wait.
LEMMA PassKeeps ==
  ASSUME FeedTypeOK, WaitsBounded, Pass, NEW a \in Assets, Kept(a)
  PROVE  Kept(a)'
<1>1. /\ binance[a] \in Points
      /\ binance'[a] = Older(binance[a])
      /\ link' = link /\ link # "writing" /\ backoff' = backoff
      /\ link \in {"open", "waiting"} => timer' = timer - 1
  BY DEF Pass, FeedTypeOK
<1>2. CASE binance[a] = None
  BY <1>1, <1>2, OlderIsPoint DEF Kept
<1>3. CASE link \in {"open", "waiting"} /\ binance[a].age <= SinceLastWrite
  <2>1. binance'[a].age <= binance[a].age + 1 /\ binance[a].age \in Int
        /\ binance'[a].age \in Int
    <3>1. Older(binance[a]) \in Points
      BY <1>1, OlderIsPoint
    <3> QED
      BY <1>1, <3>1, OlderIsPoint
  <2>2. SinceLastWrite' = SinceLastWrite + 1 /\ SinceLastWrite \in Int
    BY <1>1, <1>3, FeedsAssumption DEF SinceLastWrite, FeedTypeOK
  <2> QED
    BY <1>1, <1>3, <2>1, <2>2 DEF Kept
<1> QED
  BY <1>1, <1>2, <1>3 DEF Kept

\* Finishing an update has given every asset of its symbol a price of age zero.
LEMMA ReadOnKeeps ==
  ASSUME FeedTypeOK', WaitsBounded', WritesSomeSymbol, ReadOn
  PROVE  \E a \in Covered : Kept(a)'
<1>1. PICK s \in Symbols : FansOut(s)
  BY DEF ReadOn, WritesSomeSymbol
<1>2. PICK a \in Covers[s] : TRUE
  BY FeedsAssumption
<1>3. binance'[a] = At(update.usd)
  BY <1>1, <1>2 DEF ReadOn, FansOut
<1>4. binance'[a].age = 0
  BY <1>3 DEF At
<1>5. a \in Covered /\ a \in Assets
  BY <1>2, FeedsAssumption DEF Covered
<1> QED
  BY <1>4, <1>5, WrittenIsKept DEF ReadOn

LEMMA StreamKeeps ==
  ASSUME FeedTypeOK, FeedTypeOK', WaitsBounded, WaitsBounded', Stream,
         ~Noise, ~Reconnect, ~ReadOn, NEW a \in Assets, Kept(a)
  PROVE  Kept(a)'
<1>0. SinceLastWrite \in Int /\ SinceLastWrite' \in Int
  BY FeedsAssumption DEF FeedTypeOK, SinceLastWrite
<1>1. CASE Connect \/ Refuse \/ ConnectHangs
  <2>1. link = "connecting" /\ binance' = binance
    BY <1>1 DEF Connect, Refuse, ConnectHangs, EndStream
  <2> QED
    BY <2>1 DEF Kept
<1>2. CASE Drop \/ TimesOut
  <2>1. /\ link = "open" /\ link' = "waiting" /\ binance' = binance
        /\ backoff' = backoff /\ timer' = backoff
    BY <1>2 DEF Drop, TimesOut, EndStream
  <2>2. SinceLastWrite <= SinceLastWrite'
    BY <2>1, FeedsAssumption DEF SinceLastWrite, FeedTypeOK
  <2> QED
    BY <1>0, <2>1, <2>2, KeptUntouched
<1>3. ASSUME NEW s \in Symbols, Receive(s)
      PROVE  Kept(a)'
  <2>1. /\ link = "open" /\ link' = "writing" /\ binance' = binance
        /\ timer' = timer
    BY <1>3 DEF Receive
  <2>2. SinceLastWrite <= SinceLastWrite'
    BY <2>1, FeedsAssumption DEF SinceLastWrite, FeedTypeOK
  <2> QED
    BY <1>0, <2>1, <2>2, KeptUntouched
<1>4. ASSUME NEW b \in Assets, WriteMid(b)
      PROVE  Kept(a)'
  <2>1. /\ link = "writing" /\ link' = "writing"
        /\ binance' = [binance EXCEPT ![b] = At(update.usd)]
    BY <1>4 DEF WriteMid
  <2>2. CASE a = b
    <3>1. binance'[a] = At(update.usd)
      BY <2>1, <2>2 DEF FeedTypeOK
    <3>2. binance'[a].age = 0
      BY <3>1 DEF At
    <3> QED
      BY <2>1, <3>2, WrittenIsKept
  <2>3. CASE a # b
    <3>1. binance'[a] = binance[a]
      BY <2>1, <2>3 DEF FeedTypeOK
    <3>2. SinceLastWrite' = SinceLastWrite
      BY <2>1 DEF SinceLastWrite
    <3> QED
      BY <2>1, <3>1, <3>2 DEF Kept
  <2> QED
    BY <2>2, <2>3
<1>5. CASE Vanish
  <2>1. UNCHANGED <<binance, link, timer, backoff>>
    BY <1>5 DEF Vanish
  <2> QED
    BY <2>1 DEF Kept, SinceLastWrite
<1> QED
  BY <1>1, <1>2, <1>3, <1>4, <1>5 DEF Stream

LEMMA StepLapse ==
  ASSUME LapseInv, FeedTypeOK', [FeedNext]_feedVars
  PROVE  LapseInv'
<1>1. /\ FeedTypeOK /\ WritesSomeSymbol /\ WaitsBounded
      /\ WritesSomeSymbol' /\ WaitsBounded'
  BY StepWrites, StepWaits DEF LapseInv
<1>2. ASSUME ~excused', Covered # {}
      PROVE  \E a \in Covered : Kept(a)'
  <2>1. CASE ReadOn
    BY <1>1, <2>1, ReadOnKeeps
  <2>2. CASE ~ReadOn
    <3>1. ~Noise /\ ~Reconnect
      BY <1>2 DEF Noise, Reconnect
    <3>2. excused' = excused
      BY <2>2, <3>1, PollerKeepsStream DEF FeedNext, feedVars, streamVars, Pass, Stream,
         Connect, Refuse, ConnectHangs, Receive, WriteMid, Drop, Vanish, TimesOut,
         EndStream
    <3>3. PICK a \in Covered : Kept(a)
      BY <1>2, <3>2 DEF LapseInv
    <3>4. a \in Assets
      BY CoveredAreAssets
    <3>5. CASE Stream
      BY <1>1, <2>2, <3>1, <3>3, <3>4, <3>5, StreamKeeps
    <3>6. CASE Pass
      BY <1>1, <3>3, <3>4, <3>6, PassKeeps
    <3>7. CASE Poller \/ UNCHANGED feedVars
      <4>1. UNCHANGED streamVars
        BY <3>7, PollerKeepsStream DEF feedVars
      <4> QED
        BY <3>3, <4>1 DEF streamVars, Kept, SinceLastWrite
    <3> QED
      BY <3>5, <3>6, <3>7 DEF FeedNext
  <2> QED
    BY <2>1, <2>2
<1> QED
  BY <1>1, <1>2 DEF LapseInv

\* While a receive timeout and the longest backoff fit in the staleness window,
\* Binance prices do not all lapse before the stream has tried to reconnect or
\* has been kept open by messages without a price.
THEOREM ReconnectsBeforeLapse == WindowOutlastsStall => (FeedSpec => []TriesBeforeLapse)
<1> SUFFICES ASSUME WindowOutlastsStall PROVE FeedSpec => []TriesBeforeLapse
  OBVIOUS
<1>1. FeedInit => LapseInv
  <2> SUFFICES ASSUME FeedInit PROVE LapseInv
    OBVIOUS
  <2>1. FeedTypeOK
    BY InitTypes DEF FeedTypes
  <2>2. link \notin {"writing", "open", "waiting"}
    BY DEF FeedInit
  <2>3. \A a \in Covered : Kept(a)
    BY CoveredAreAssets DEF FeedInit, Kept
  <2> QED
    BY <2>1, <2>2, <2>3 DEF LapseInv, WritesSomeSymbol, WaitsBounded
<1>2. LapseInv => TriesBeforeLapse
  <2> SUFFICES ASSUME LapseInv, ~excused, Covered # {}
               PROVE  \E a \in Covered : binance[a] = None \/ Fresh(binance[a])
    BY DEF TriesBeforeLapse
  <2>1. PICK a \in Covered : Kept(a)
    BY DEF LapseInv
  <2>2. a \in Assets
    BY CoveredAreAssets
  <2>3. binance[a].age \in Nat
    BY <2>2, OlderIsPoint DEF LapseInv, FeedTypeOK
  <2>4. SinceLastWrite \in Int /\ SinceLastWrite <= RecvTimeout + ReconnectMax
    BY FeedsAssumption DEF LapseInv, FeedTypeOK, WaitsBounded, SinceLastWrite
  <2> QED
    BY <2>1, <2>3, <2>4, FeedsAssumption DEF Kept, Fresh, WindowOutlastsStall
<1>3. FeedTypeOK' /\ LapseInv /\ [FeedNext]_feedVars => LapseInv'
  BY StepLapse
<1> QED
  BY <1>1, <1>2, <1>3, FeedTypeCorrect, PTL DEF FeedSpec

-----------------------------------------------------------------------------
(* The feeds under the one-shot mode are the feeds of PriceFeeds. *)

\* No step of run_once disturbs the feeds, so whatever PriceFeeds promises of
\* them the one-shot mode has.
THEOREM OneShotRunsFeeds == Spec => FeedSpec
<1>1. Init => FeedInit
  BY DEF Init
<1>2. [Next]_vars => [FeedNext]_feedVars
  <2>1. Shot => UNCHANGED feedVars
    BY DEF Shot, ReadPrice, Warm, GiveUp, Nap, NextRound, SyncDone, SyncFails, SyncHangs,
           ScanDone, ScanFails, ScanPanics, Report
  <2>2. Feeds => FeedNext
    BY DEF Feeds, FeedNext
  <2>3. PassAll => FeedNext
    BY DEF PassAll, FeedNext
  <2> QED
    BY <2>1, <2>2, <2>3 DEF Next, vars
<1> QED
  BY <1>1, <1>2, PTL DEF Spec, FeedSpec

-----------------------------------------------------------------------------
(* What a warm wait leaves behind. *)

\* The time that has passed since the start: what is gone of the deadline, and
\* what has passed since a warm wait ended.
Elapsed == WarmDeadline - deadline + since

ShotOK ==
    stage \in {"polling", "napping", "ticking", "reported", "crashed"}

ClocksOK ==
    /\ deadline \in 0 .. WarmDeadline
    /\ since \in 0 .. MaxStaleness + 1

\* Elapsed is counted while the wait lasts, and after it if it was warm.
Counted == stage \in {"polling", "napping"} \/ warm

\* No price is older than the run, but for one that counts as stale.
Young(point) == point.age <= Elapsed \/ point.age = MaxStaleness + 1

NoneOlderThanRun ==
    Counted => \A a \in Assets : Young(binance[a]) /\ Young(coingecko[a])

\* As long as a round goes well, every asset it has read has a price: the wait
\* reads while the feeds write, but a write never takes a price away, and no
\* time passes.
RoundGoesWell ==
    stage = "polling" /\ priced => \A a \in Needed \ unread : Source(a) # "none"

\* After a warm wait every needed asset has a price that is no older than the
\* run.
WarmSince ==
    warm => /\ stage \in {"ticking", "reported", "crashed"}
            /\ \A a \in Needed :
                binance[a].age <= Elapsed \/ coingecko[a].age <= Elapsed

WarmInv == FeedTypes /\ ShotOK /\ ClocksOK /\ NoneOlderThanRun /\ RoundGoesWell /\ WarmSince

LEMMA NeededAreAssets == Needed \subseteq Assets
BY OneShotAssumption DEF Needed

\* A price is fresh exactly when its age is within the window.
LEMMA FreshByAge ==
  ASSUME NEW point \in Points
  PROVE  /\ point.age \in 0 .. MaxStaleness + 1
         /\ Fresh(point) <=> point.age <= MaxStaleness
BY FeedsAssumption DEF Points, None, Fresh

LEMMA SourceByAge ==
  ASSUME FeedTypes, NEW a \in Assets
  PROVE  /\ binance[a] \in Points /\ coingecko[a] \in Points
         /\ binance[a].age \in 0 .. MaxStaleness + 1
         /\ coingecko[a].age \in 0 .. MaxStaleness + 1
         /\ Source(a) # "none" <=>
                binance[a].age <= MaxStaleness \/ coingecko[a].age <= MaxStaleness
<1>1. binance[a] \in Points /\ coingecko[a] \in Points
  BY DEF FeedTypes, FeedTypeOK
<1> QED
  BY <1>1, FreshByAge DEF Source

LEMMA WarmInit == Init => WarmInv
<1> SUFFICES ASSUME Init PROVE WarmInv
  OBVIOUS
<1>1. FeedTypes
  BY InitTypes DEF Init
<1>2. ClocksOK
  BY OneShotAssumption, FeedsAssumption DEF Init, ClocksOK
<1>3. ShotOK /\ NoneOlderThanRun
  BY DEF ShotOK, Init, FeedInit, NoneOlderThanRun, Young, None
<1>4. RoundGoesWell
  BY DEF Init, RoundGoesWell
<1>5. WarmSince
  BY DEF Init, WarmSince
<1> QED
  BY <1>1, <1>2, <1>3, <1>4, <1>5 DEF WarmInv

\* A feed's step leaves an asset's price as it was, or makes it new.
LEMMA FeedsRenew ==
  ASSUME FeedTypes, Stream \/ Poller, NEW a \in Assets
  PROVE  /\ binance'[a] = binance[a] \/ binance'[a].age = 0
         /\ coingecko'[a] = coingecko[a] \/ coingecko'[a].age = 0
<1> USE DEF FeedTypes, FeedTypeOK
<1>1. CASE Stream
  <2>1. UNCHANGED coingecko
    BY <1>1, StreamKeepsPoll DEF pollVars
  <2>2. ASSUME NEW b \in Assets, WriteMid(b)
        PROVE  binance'[a] = binance[a] \/ binance'[a].age = 0
    BY <2>2 DEF WriteMid, At
  <2>3. (\E b \in Assets : WriteMid(b)) \/ UNCHANGED binance
    BY <1>1 DEF Stream, Connect, Refuse, ConnectHangs, Receive, ReadOn, Noise, Drop,
       Vanish, TimesOut, Reconnect, EndStream
  <2> QED
    BY <2>1, <2>2, <2>3
<1>2. CASE Poller
  <2>1. UNCHANGED binance
    BY <1>2, PollerKeepsStream DEF streamVars
  <2>2. ASSUME NEW b \in Assets, WritePolled(b)
        PROVE  coingecko'[a] = coingecko[a] \/ coingecko'[a].age = 0
    BY <2>2 DEF WritePolled, At
  <2>3. (\E b \in Assets : WritePolled(b)) \/ UNCHANGED coingecko
    BY <1>2 DEF Poller, Answer, Stored, AskFails, AskHangs, AskAgain
  <2> QED
    BY <2>1, <2>2, <2>3
<1> QED
  BY <1>1, <1>2

LEMMA FeedsKeepWarm ==
  ASSUME WarmInv, Feeds, FeedTypes'
  PROVE  WarmInv'
<1>0. ShotOK'
  BY DEF WarmInv, ShotOK, Feeds, shotVars
<1>1. /\ FeedTypes /\ ClocksOK
      /\ \A a \in Assets : /\ binance'[a] = binance[a] \/ binance'[a].age = 0
                           /\ coingecko'[a] = coingecko[a] \/ coingecko'[a].age = 0
      /\ UNCHANGED shotVars
  BY FeedsRenew DEF WarmInv, Feeds
<1>2. ClocksOK' /\ Elapsed' = Elapsed /\ Elapsed \in Nat
  BY <1>1, OneShotAssumption, FeedsAssumption DEF ClocksOK, Elapsed, shotVars
<1>3. NoneOlderThanRun'
  BY <1>1, <1>2 DEF WarmInv, NoneOlderThanRun, Counted, Young, shotVars
<1>4. RoundGoesWell'
  <2> SUFFICES ASSUME stage' = "polling", priced', NEW a \in Needed \ unread'
               PROVE  Source(a)' # "none"
    BY DEF RoundGoesWell
  <2>1. a \in Assets /\ Source(a) # "none"
    BY <1>1, NeededAreAssets DEF WarmInv, RoundGoesWell, shotVars
  <2>2. binance'[a].age <= MaxStaleness \/ coingecko'[a].age <= MaxStaleness
    BY <1>1, <2>1, SourceByAge, FeedsAssumption
  <2>3. binance'[a] \in Points /\ coingecko'[a] \in Points
    BY <2>1 DEF FeedTypes, FeedTypeOK
  <2>4. Fresh(binance'[a]) \/ Fresh(coingecko'[a])
    BY <2>2, <2>3, FreshByAge
  <2> QED
    BY <2>4 DEF Source, Fresh
<1>5. WarmSince'
  BY <1>1, <1>2, NeededAreAssets DEF WarmInv, WarmSince, shotVars
<1> QED
  BY <1>0, <1>2, <1>3, <1>4, <1>5 DEF WarmInv

\* Time makes prices no older than it makes the run, and passes in no round.
LEMMA PassKeepsWarm ==
  ASSUME WarmInv, PassAll, FeedTypes'
  PROVE  WarmInv'
<1>0. ShotOK' /\ stage \in {"napping", "ticking"}
  BY DEF WarmInv, ShotOK, PassAll, Exited
<1>1. /\ FeedTypes /\ ClocksOK
      /\ \A a \in Assets : /\ binance'[a] = Older(binance[a])
                           /\ coingecko'[a] = Older(coingecko[a])
      /\ UNCHANGED <<stage, warm>>
      /\ stage # "polling" /\ stage' # "polling"
  BY DEF WarmInv, PassAll, Pass, WarmSince
<1>2. ClocksOK'
  BY <1>1, OneShotAssumption, FeedsAssumption DEF ClocksOK, PassAll
<1>3. \A a \in Assets :
        /\ binance'[a].age \in 0 .. MaxStaleness + 1
        /\ binance'[a].age <= binance[a].age + 1
        /\ binance[a].age = MaxStaleness + 1 => binance'[a].age = MaxStaleness + 1
        /\ coingecko'[a].age \in 0 .. MaxStaleness + 1
        /\ coingecko'[a].age <= coingecko[a].age + 1
        /\ coingecko[a].age = MaxStaleness + 1 => coingecko'[a].age = MaxStaleness + 1
  <2> TAKE a \in Assets
  <2>1. \A point \in Points :
          /\ Older(point).age \in 0 .. MaxStaleness + 1
          /\ Older(point).age <= point.age + 1
          /\ point.age = MaxStaleness + 1 => Older(point).age = MaxStaleness + 1
    <3> TAKE point \in Points
    <3>1. Older(point).age \in 0 .. MaxStaleness + 1
      BY OlderIsPoint, FreshByAge
    <3>2. point.age = MaxStaleness + 1 => Older(point).age = MaxStaleness + 1
      <4>1. CASE point = None
        BY <4>1, OlderIsPoint DEF None
      <4>2. CASE point # None
        BY <4>2, FeedsAssumption DEF Older, Points
      <4> QED
        BY <4>1, <4>2
    <3> QED
      BY <3>1, <3>2, OlderIsPoint
  <2> QED
    BY <1>1, <2>1, SourceByAge
<1>4. Counted => \/ Elapsed' = Elapsed + 1
                \/ Elapsed' >= MaxStaleness + 1
  BY <1>0, <1>1, OneShotAssumption, FeedsAssumption
  DEF PassAll, ClocksOK, Elapsed, Counted, WarmInv, WarmSince
<1>5. Elapsed \in Nat /\ Elapsed' \in Nat
  <2>1. Elapsed \in Nat
    BY <1>1, OneShotAssumption, FeedsAssumption DEF ClocksOK, Elapsed
  <2>2. Elapsed' \in Nat
    <3>1. deadline' \in 0 .. WarmDeadline /\ since' \in 0 .. MaxStaleness + 1
      BY <1>2 DEF ClocksOK
    <3>2. WarmDeadline \in Nat /\ MaxStaleness \in Nat
      BY OneShotAssumption, FeedsAssumption
    <3>3. WarmDeadline - deadline' + since' \in Nat
      <4>1. \A d \in 0 .. WarmDeadline, t \in 0 .. MaxStaleness + 1 :
                WarmDeadline - d + t \in Nat
        BY <3>2
      <4> QED
        BY <3>1, <4>1
    <3> QED
      BY <3>3 DEF Elapsed
  <2> QED
    BY <2>1, <2>2
<1>6. \A a \in Assets :
        /\ binance[a].age \in 0 .. MaxStaleness + 1
        /\ coingecko[a].age \in 0 .. MaxStaleness + 1
  BY <1>1, SourceByAge
<1>7. NoneOlderThanRun'
  <2> SUFFICES ASSUME Counted', NEW a \in Assets
               PROVE  Young(binance[a])' /\ Young(coingecko[a])'
    BY DEF NoneOlderThanRun
  <2>1. Counted
    BY <1>1 DEF Counted
  <2>2. Young(binance[a]) /\ Young(coingecko[a])
    BY <2>1 DEF WarmInv, NoneOlderThanRun
  <2> QED
    BY <1>3, <1>4, <1>5, <1>6, <2>1, <2>2, FeedsAssumption DEF Young
<1>8. RoundGoesWell'
  BY <1>1 DEF RoundGoesWell
<1>9. WarmSince'
  <2>1. ASSUME NEW a \in Needed, warm
        PROVE  binance'[a].age <= Elapsed' \/ coingecko'[a].age <= Elapsed'
    <3>1. a \in Assets /\ (binance[a].age <= Elapsed \/ coingecko[a].age <= Elapsed)
      BY <2>1, NeededAreAssets DEF WarmInv, WarmSince
    <3> QED
      BY <1>3, <1>4, <1>5, <1>6, <2>1, <3>1, FeedsAssumption DEF Counted
  <2> QED
    BY <1>1, <2>1 DEF WarmInv, WarmSince
<1> QED
  BY <1>0, <1>2, <1>7, <1>8, <1>9 DEF WarmInv

LEMMA ShotKeepsWarm ==
  ASSUME WarmInv, Shot, FeedTypes'
  PROVE  WarmInv'
<1>1. UNCHANGED <<feedVars, deadline, since>>
  BY DEF Shot, ReadPrice, Warm, GiveUp, Nap, NextRound, SyncDone, SyncFails, SyncHangs,
         ScanDone, ScanFails, ScanPanics, Report
<1>0. ShotOK'
  BY DEF Shot, ReadPrice, Warm, GiveUp, Nap, NextRound, SyncDone, SyncFails, SyncHangs,
     ScanDone, ScanFails, ScanPanics, Report, WarmInv, ShotOK
<1>2. ClocksOK' /\ NoneOlderThanRun' /\ Elapsed' = Elapsed
  <2>1. Counted' => Counted
    BY DEF Shot, ReadPrice, Warm, GiveUp, Nap, NextRound, SyncDone, SyncFails, SyncHangs,
       ScanDone, ScanFails, ScanPanics, Report, Counted
  <2> QED
    BY <1>1, <2>1 DEF WarmInv, ClocksOK, NoneOlderThanRun, Young, Elapsed, feedVars,
       streamVars, pollVars
<1>3. \A a : Source(a)' = Source(a)
  BY <1>1 DEF Source, feedVars, streamVars, pollVars
<1>4. RoundGoesWell'
  <2>1. ASSUME NEW b \in Needed, ReadPrice(b)
        PROVE  RoundGoesWell'
    BY <1>3, <2>1 DEF ReadPrice, WarmInv, RoundGoesWell
  <2>2. CASE NextRound
    BY <2>2 DEF NextRound, RoundGoesWell
  <2>3. (\E b \in Needed : ReadPrice(b)) \/ NextRound \/ stage' # "polling"
    BY DEF Shot, Warm, GiveUp, Nap, SyncDone, SyncFails, SyncHangs, ScanDone, ScanFails,
       ScanPanics, Report, WarmInv, WarmSince
  <2> QED
    BY <2>1, <2>2, <2>3 DEF RoundGoesWell
<1>5. WarmSince'
  <2>1. CASE Warm
    <3>1. \A a \in Needed : binance[a].age <= Elapsed \/ coingecko[a].age <= Elapsed
      <4> TAKE a \in Needed
      <4>1. a \in Assets /\ Source(a) # "none"
        BY <2>1, NeededAreAssets DEF Warm, WarmInv, RoundGoesWell
      <4> QED
        BY <2>1, <4>1, SourceByAge, FeedsAssumption
        DEF Warm, WarmInv, NoneOlderThanRun, Counted, Young
    <3> QED
      BY <1>1, <1>2, <2>1, <3>1 DEF Warm, WarmSince, feedVars, streamVars, pollVars
  <2>2. CASE ~Warm
    <3>1. /\ warm' = warm
          /\ stage \in {"ticking", "reported", "crashed"} =>
                stage' \in {"ticking", "reported", "crashed"}
      BY <2>2 DEF Shot, ReadPrice, GiveUp, Nap, NextRound, SyncDone, SyncFails, SyncHangs,
         ScanDone, ScanFails, ScanPanics, Report
    <3> QED
      BY <1>1, <1>2, <3>1 DEF WarmInv, WarmSince, feedVars, streamVars, pollVars
  <2> QED
    BY <2>1, <2>2
<1> QED
  BY <1>0, <1>1, <1>2, <1>4, <1>5 DEF WarmInv

LEMMA StepWarm == WarmInv /\ FeedTypes' /\ [Next]_vars => WarmInv'
<1>1. WarmInv /\ UNCHANGED vars => WarmInv'
  BY DEF vars, shotVars, feedVars, streamVars, pollVars, WarmInv, FeedTypes, FeedTypeOK,
     PricesInHand, ShotOK, ClocksOK, NoneOlderThanRun, Counted, Young, Elapsed, RoundGoesWell, WarmSince,
     Source
<1> QED
  BY <1>1, FeedsKeepWarm, PassKeepsWarm, ShotKeepsWarm DEF Next

THEOREM WarmInvariant == Spec => []WarmInv
<1>1. FeedSpec => []FeedTypes
  BY InitTypes, StepTypes, PTL DEF FeedSpec
<1> QED
  BY <1>1, OneShotRunsFeeds, WarmInit, StepWarm, PTL DEF Spec

\* A warm wait pays off: a scan that ends within what the deadline leaves of the
\* staleness window can size paths from every start asset, although the wait
\* reads price after price while the feeds write, and although the feeds may
\* stop for good right after it.
THEOREM WarmWaitPaysOff == Spec => WarmScansAreSized
<1>1. ASSUME WarmInv, NEW c \in Built, ScanDone(c), warm, since <= MaxStaleness - WarmDeadline
      PROVE  Priced(c) = StartAssets[c]
  <2>1. Elapsed <= MaxStaleness /\ Elapsed \in Int
    BY <1>1, OneShotAssumption, FeedsAssumption DEF WarmInv, ClocksOK, Elapsed
  <2>2. \A a \in StartAssets[c] : Source(a) # "none"
    <3> TAKE a \in StartAssets[c]
    <3>1. a \in Needed /\ a \in Assets
      BY OneShotAssumption DEF Needed
    <3> QED
      BY <1>1, <2>1, <3>1, SourceByAge, FeedsAssumption DEF WarmInv, WarmSince
  <2> QED
    BY <2>2 DEF Priced
<1>2. WarmInv /\ [Next]_vars =>
        [\A c \in Built :
            ScanDone(c) /\ warm /\ since <= MaxStaleness - WarmDeadline =>
                Priced(c) = StartAssets[c]]_vars
  BY <1>1
<1> QED
  BY <1>2, WarmInvariant, PTL DEF Spec, WarmScansAreSized
=============================================================================
