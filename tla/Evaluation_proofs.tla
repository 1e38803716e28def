--------------------------- MODULE Evaluation_proofs ---------------------------
(***************************************************************************)
(* Proofs about Evaluation for any assets, decimals, prices and paths, and  *)
(* any number of price writes between the reads of an evaluation.           *)
(***************************************************************************)
EXTENDS Evaluation, Recursion

-----------------------------------------------------------------------------
(* Powers of ten. *)

LEMMA TensAre ==
  Tens = [n \in 0 .. MaxDecimals |-> IF n = 0 THEN 1 ELSE 10 * Tens[n - 1]]
<1> DEFINE step == [p \in (1 .. MaxDecimals) \X Nat |-> 10 * p[2]]
<1>1. MaxDecimals \in Nat
  BY SumsAssumption
<1>2. step \in Steps(MaxDecimals, Nat)
  BY DEF Steps
<1>3. PICK f : Runs(f, Nat, 1, MaxDecimals, step)
  <2>1. 1 \in Nat
    OBVIOUS
  <2> HIDE DEF step
  <2> QED
    BY <1>1, <1>2, <2>1, Iterates
<1>4. f = [i \in 0 .. MaxDecimals |-> IF i = 0 THEN 1 ELSE 10 * f[i - 1]]
  <2>1. \A i \in 1 .. MaxDecimals : step[<<i, f[i - 1]>>] = 10 * f[i - 1]
    BY <1>1, <1>3 DEF Runs
  <2>2. \A i \in 0 .. MaxDecimals : f[i] = IF i = 0 THEN 1 ELSE 10 * f[i - 1]
    <3>1. \A i \in 0 .. MaxDecimals : i = 0 \/ i \in 1 .. MaxDecimals
      BY <1>1
    <3> HIDE DEF step
    <3> QED
      BY <1>3, <2>1, <3>1 DEF Runs
  <2> QED
    BY <1>3, <2>2 DEF Runs
<1> QED
  BY <1>4 DEF Tens

\* Every power of ten divides the largest, so values in units of 1 / Scale are
\* exact.
LEMMA TensDivide ==
  /\ \A n \in 0 .. MaxDecimals : Tens[n] \in Nat \ {0}
  /\ \A n \in 0 .. MaxDecimals : \E k \in Nat \ {0} : Scale = Tens[n] * k
<1> DEFINE S == {n \in Nat : n <= MaxDecimals => Tens[n] \in Nat \ {0}}
           R == {j \in Nat : j <= MaxDecimals =>
                    \E k \in Nat \ {0} : Scale = Tens[MaxDecimals - j] * k}
<1>0. MaxDecimals \in Nat
  BY SumsAssumption
<1>1. \A n \in 0 .. MaxDecimals : Tens[n] = IF n = 0 THEN 1 ELSE 10 * Tens[n - 1]
  BY TensAre
<1>2. Nat \subseteq S
  <2>1. 0 \in S
    BY <1>0, <1>1
  <2>2. ASSUME NEW n \in Nat, n \in S PROVE n + 1 \in S
    BY <1>0, <1>1, <2>2
  <2> HIDE DEF S
  <2> QED
    BY <2>1, <2>2, Induction
<1>3. \A n \in 0 .. MaxDecimals : Tens[n] \in Nat \ {0}
  BY <1>0, <1>2
<1>4. Nat \subseteq R
  <2>1. 0 \in R
    BY <1>0, <1>3 DEF Scale
  <2>2. ASSUME NEW j \in Nat, j \in R PROVE j + 1 \in R
    <3> SUFFICES ASSUME j + 1 <= MaxDecimals
                 PROVE  \E k \in Nat \ {0} : Scale = Tens[MaxDecimals - (j + 1)] * k
      OBVIOUS
    <3> DEFINE n == MaxDecimals - j
    <3>1. PICK k \in Nat \ {0} : Scale = Tens[n] * k
      BY <1>0, <2>2
    <3>2. n \in 1 .. MaxDecimals /\ MaxDecimals - (j + 1) = n - 1
      BY <1>0
    <3>3. Tens[n] = 10 * Tens[n - 1] /\ Tens[n - 1] \in Nat
      <4> HIDE DEF n
      <4> QED
        BY <1>0, <1>1, <1>3, <3>2
    <3>4. Scale = Tens[n - 1] * (10 * k) /\ 10 * k \in Nat \ {0}
      <4> HIDE DEF n
      <4> QED
        BY <3>1, <3>3
    <3> QED
      BY <3>2, <3>4
  <2> HIDE DEF R
  <2> QED
    BY <2>1, <2>2, Induction
<1>5. \A n \in 0 .. MaxDecimals : \E k \in Nat \ {0} : Scale = Tens[n] * k
  <2> TAKE n \in 0 .. MaxDecimals
  <2>1. MaxDecimals - n \in R /\ MaxDecimals - n <= MaxDecimals
        /\ MaxDecimals - (MaxDecimals - n) = n
    BY <1>0, <1>4
  <2> QED
    BY <2>1
<1> QED
  BY <1>3, <1>5

-----------------------------------------------------------------------------
(* Quotes. *)

Sums == {None} \cup {<<m>> : m \in Nat}

LEMMA OptionParts ==
  /\ \A x : <<x>> # None /\ <<x>>[1] = x
  /\ \A s \in Sums : s # None => s[1] \in Nat /\ s = <<s[1]>>
<1>1. \A x : <<x>> # None /\ <<x>>[1] = x
  BY DEF None
<1> QED
  BY <1>1 DEF Sums

LEMMA CheckedOf ==
  ASSUME NEW sum \in Int
  PROVE  /\ Checked(sum) # None => Checked(sum) = <<sum>> /\ Checked(sum)[1] = sum
         /\ Checked(sum) # None <=> sum <= MaxSum
BY OptionParts, SumsAssumption DEF Checked

LEMMA MostUsd == MaxSum * Scale \in Nat
<1>1. Scale \in Nat
  BY TensDivide, SumsAssumption DEF Scale
<1> QED
  BY <1>1, SumsAssumption

LEMMA CheckedUsdOf ==
  ASSUME NEW sum \in Int
  PROVE  /\ CheckedUsd(sum) # None => CheckedUsd(sum) = <<sum>> /\ CheckedUsd(sum)[1] = sum
         /\ CheckedUsd(sum) # None <=> sum <= MaxSum * Scale
<1> DEFINE most == MaxSum * Scale
<1>1. most \in Nat
  BY MostUsd
<1>2. CheckedUsd(sum) = IF sum > most THEN None ELSE <<sum>>
  BY DEF CheckedUsd
<1> HIDE DEF most
<1>3. /\ CheckedUsd(sum) # None => CheckedUsd(sum) = <<sum>> /\ CheckedUsd(sum)[1] = sum
      /\ CheckedUsd(sum) # None <=> sum <= most
  BY <1>1, <1>2, OptionParts
<1> QED
  BY <1>3 DEF most

\* A hop gives a positive amount that a Decimal holds for a positive amount, or
\* nothing.
LEMMA HopGives ==
  ASSUME NEW hop \in Hops, NEW amount \in Sums
  PROVE  /\ QuoteHop(hop, amount) \in Sums
         /\ QuoteHop(hop, amount) # <<0>>
         /\ QuoteHop(hop, amount) # None => QuoteHop(hop, amount)[1] <= MaxSum
         /\ amount = None => QuoteHop(hop, amount) = None
         /\ amount = <<0>> => QuoteHop(hop, amount) = None
<1>1. CASE amount = None
  BY <1>1, OptionParts DEF QuoteHop, Sums
<1>2. ASSUME NEW m \in Nat, amount = <<m>>
      PROVE  /\ QuoteHop(hop, amount) \in Sums
             /\ QuoteHop(hop, amount) # <<0>>
             /\ QuoteHop(hop, amount) # None => QuoteHop(hop, amount)[1] <= MaxSum
             /\ amount = <<0>> => QuoteHop(hop, amount) = None
  <2> DEFINE out == (m * hop.gives) \div hop.takes
  <2>1. hop.gives \in Nat /\ hop.takes \in Nat \ {0}
    BY SumsAssumption
  <2>2. out \in Nat
    BY <2>1
  <2>3. amount # None /\ amount[1] = m /\ ToU256(m) = <<m>> /\ <<m>> # None /\ <<m>>[1] = m
    BY <1>2, OptionParts DEF ToU256
  <2>4. QuoteHop(hop, amount) =
            IF m = 0 \/ m > hop.limit \/ out = 0 THEN None ELSE Checked(out)
    BY <2>3 DEF QuoteHop, FromU256
  <2> HIDE DEF out
  <2>5. /\ Checked(out) = None \/ Checked(out) = <<out>>
        /\ Checked(out) # None => Checked(out)[1] <= MaxSum
    BY <2>2, CheckedOf DEF Checked
  <2>6. \A x, y : <<x>> = <<y>> => x = y
    OBVIOUS
  <2> QED
    BY <1>2, <2>2, <2>4, <2>5, <2>6, OptionParts DEF Sums
<1> QED
  BY <1>1, <1>2, OptionParts DEF Sums

\* f threads an amount through the hops.
Threads(f, hops, amount) ==
    /\ f[0] = <<amount>>
    /\ \A i \in 1 .. Len(hops) :
        f[i] \in Sums /\ f[i] # <<0>> /\ f[i] = QuoteHop(hops[i], f[i - 1])

\* quote_path is that threading.
LEMMA PathThreads ==
  ASSUME NEW hops \in Seq(Hops), NEW amount \in Nat
  PROVE  \E f : /\ Threads(f, hops, amount)
                /\ QuotePath(hops, amount) = IF hops = <<>> THEN None ELSE f[Len(hops)]
<1> DEFINE n == Len(hops)
           step == [p \in (1 .. n) \X Sums |-> QuoteHop(hops[p[1]], p[2])]
           Rec(f) == f = [i \in 0 .. n |-> IF i = 0 THEN <<amount>>
                                           ELSE QuoteHop(hops[i], f[i - 1])]
           after == CHOOSE f : Rec(f)
<1>1. n \in Nat /\ \A i \in 1 .. n : hops[i] \in Hops
  OBVIOUS
<1>2. step \in Steps(n, Sums)
  BY <1>1, HopGives DEF Steps
<1>3. <<amount>> \in Sums
  BY DEF Sums
<1>4. \E f : Rec(f)
  <2>1. PICK f : Runs(f, Sums, <<amount>>, n, step)
    <3> HIDE DEF step, n
    <3> QED
      BY <1>1, <1>2, <1>3, Iterates
  <2>2. \A i \in 1 .. n : step[<<i, f[i - 1]>>] = QuoteHop(hops[i], f[i - 1])
    <3>1. \A i \in 1 .. n : f[i - 1] \in Sums
      <4> HIDE DEF step, n
      <4> QED
        BY <1>1, <2>1 DEF Runs
    <3> HIDE DEF n
    <3> QED
      BY <3>1
  <2>3. \A i \in 0 .. n : f[i] = IF i = 0 THEN <<amount>> ELSE QuoteHop(hops[i], f[i - 1])
    <3>1. \A i \in 0 .. n : i = 0 \/ i \in 1 .. n
      OBVIOUS
    <3> HIDE DEF step, n
    <3> QED
      BY <2>1, <2>2, <3>1 DEF Runs
  <2>4. Rec(f)
    <3> HIDE DEF step, n
    <3> QED
      BY <2>1, <2>3 DEF Runs
  <2> QED
    BY <2>4
<1>5. Rec(after)
  <2> HIDE DEF Rec
  <2> QED
    BY <1>4
<1>6. \A i \in 0 .. n : after[i] = IF i = 0 THEN <<amount>> ELSE QuoteHop(hops[i], after[i - 1])
  <2> HIDE DEF n, after
  <2> QED
    BY <1>5
<1>7. QuotePath(hops, amount) = IF hops = <<>> THEN None ELSE after[n]
  BY DEF QuotePath
<1> HIDE DEF step, Rec, after, n
<1>8. after[0] = <<amount>> /\ \A i \in 1 .. n : after[i] = QuoteHop(hops[i], after[i - 1])
  <2>1. 0 \in 0 .. n /\ \A i \in 1 .. n : i \in 0 .. n /\ i # 0
    BY <1>1
  <2> QED
    BY <1>6, <2>1
<1> DEFINE S == {i \in Nat : i + 1 <= n => after[i + 1] \in Sums /\ after[i + 1] # <<0>>}
<1>9. 0 \in S
  <2> SUFFICES ASSUME 1 <= n PROVE after[1] \in Sums /\ after[1] # <<0>>
    OBVIOUS
  <2>1. after[1] = QuoteHop(hops[1], after[0]) /\ hops[1] \in Hops
    BY <1>1, <1>8
  <2> QED
    BY <1>3, <1>8, <2>1, HopGives
<1>10. ASSUME NEW i \in Nat, i \in S PROVE i + 1 \in S
  <2> SUFFICES ASSUME i + 2 <= n PROVE after[i + 2] \in Sums /\ after[i + 2] # <<0>>
    OBVIOUS
  <2>1. after[i + 2] = QuoteHop(hops[i + 2], after[i + 1]) /\ hops[i + 2] \in Hops
    <3>1. i + 2 \in 1 .. n /\ (i + 2) - 1 = i + 1
      BY <1>1
    <3> QED
      BY <1>1, <1>8, <3>1
  <2>2. after[i + 1] \in Sums
    BY <1>1, <1>10
  <2> HIDE DEF S
  <2> QED
    BY <2>1, <2>2, HopGives
<1>11. Nat \subseteq S
  <2> HIDE DEF S
  <2> QED
    BY <1>9, <1>10, Induction
<1>12. \A i \in 1 .. n : after[i] \in Sums /\ after[i] # <<0>>
  <2> TAKE i \in 1 .. n
  <2>1. i - 1 \in Nat /\ (i - 1) + 1 = i /\ i <= n
    BY <1>1
  <2> QED
    BY <1>11, <2>1
<1> QED
  BY <1>7, <1>8, <1>12 DEF Threads, n

\* If the last quote of a thread is there, so is every quote before it.
LEMMA ThreadsWhole ==
  ASSUME NEW hops \in Seq(Hops), NEW amount \in Nat, NEW f, Threads(f, hops, amount),
         f[Len(hops)] # None
  PROVE  \A i \in 0 .. Len(hops) :
            f[i] \in Sums /\ f[i] # None /\ (Len(hops) > 0 => f[i] # <<0>>)
<1> DEFINE n == Len(hops)
           S == {j \in Nat : j <= n => f[n - j] # None /\ (j > 0 => f[n - j] # <<0>>)}
<1>1. n \in Nat /\ \A i \in 1 .. n : hops[i] \in Hops
  OBVIOUS
<1>2. f[0] \in Sums
  BY DEF Threads, Sums
<1>3. \A i \in 0 .. n : f[i] \in Sums
  <2> TAKE i \in 0 .. n
  <2>1. i = 0 \/ i \in 1 .. n
    BY <1>1
  <2>2. \A k \in 1 .. n : f[k] \in Sums
    BY DEF Threads
  <2> QED
    BY <1>2, <2>1, <2>2
<1> HIDE DEF n
<1>4. 0 \in S
  BY <1>1 DEF n
<1>5. ASSUME NEW j \in Nat, j \in S PROVE j + 1 \in S
  <2> SUFFICES ASSUME j + 1 <= n PROVE f[n - (j + 1)] # None /\ f[n - (j + 1)] # <<0>>
    OBVIOUS
  <2>1. n - j \in 1 .. n /\ n - (j + 1) = (n - j) - 1 /\ n - (j + 1) \in 0 .. n
    BY <1>1
  <2>2. f[n - j] = QuoteHop(hops[n - j], f[n - (j + 1)]) /\ hops[n - j] \in Hops
    BY <1>1, <2>1 DEF Threads, n
  <2>3. f[n - j] # None
    BY <1>1, <1>5
  <2>4. f[n - (j + 1)] \in Sums
    BY <1>3, <2>1
  <2> HIDE DEF S
  <2> QED
    BY <2>2, <2>3, <2>4, HopGives
<1>6. Nat \subseteq S
  <2> HIDE DEF S
  <2> QED
    BY <1>4, <1>5, Induction
<1>7. \A i \in 0 .. n : f[i] # None /\ (i < n => f[i] # <<0>>)
  <2> TAKE i \in 0 .. n
  <2>1. n - i \in Nat /\ n - (n - i) = i /\ n - i <= n /\ (i < n => n - i > 0)
    BY <1>1
  <2> QED
    BY <1>6, <2>1
<1>8. n > 0 => f[n] # <<0>>
  BY <1>1 DEF Threads, n
<1> QED
  BY <1>1, <1>3, <1>7, <1>8 DEF n

\* A path gives a positive amount that a Decimal holds for a positive amount, or
\* nothing.
LEMMA PathGives ==
  ASSUME NEW hops \in Seq(Hops), NEW amount \in Nat, QuotePath(hops, amount) # None
  PROVE  /\ amount > 0
         /\ QuotePath(hops, amount)[1] \in Nat \ {0}
         /\ QuotePath(hops, amount) = <<QuotePath(hops, amount)[1]>>
         /\ QuotePath(hops, amount)[1] <= MaxSum
<1>1. PICK f : /\ Threads(f, hops, amount)
               /\ QuotePath(hops, amount) = IF hops = <<>> THEN None ELSE f[Len(hops)]
  BY PathThreads
<1>2. hops # <<>> /\ Len(hops) \in Nat /\ Len(hops) > 0 /\ f[Len(hops)] # None
      /\ QuotePath(hops, amount) = f[Len(hops)]
  BY <1>1
<1>3. f[0] # <<0>> /\ f[Len(hops)] \in Sums /\ f[Len(hops)] # <<0>>
  BY <1>1, <1>2, ThreadsWhole
<1>4. f[0] = <<amount>>
  BY <1>1 DEF Threads
<1>5. f[Len(hops)][1] <= MaxSum
  <2> DEFINE n == Len(hops)
  <2>1. n \in 1 .. Len(hops) /\ n - 1 \in 0 .. Len(hops) /\ hops[n] \in Hops
    BY <1>2
  <2>2. f[n - 1] \in Sums
    BY <1>1, <1>2, <2>1, ThreadsWhole
  <2>3. f[n] = QuoteHop(hops[n], f[n - 1]) /\ f[n] # None
    BY <1>1, <1>2, <2>1 DEF Threads
  <2> HIDE DEF n
  <2>4. f[n][1] <= MaxSum
    BY <2>1, <2>2, <2>3, HopGives
  <2> QED
    BY <2>4 DEF n
<1> QED
  BY <1>2, <1>3, <1>4, <1>5, OptionParts DEF Sums

-----------------------------------------------------------------------------
(* The invariant of an evaluation. *)

\* value_usd at the price q.
ValueAt(q, a, amount) ==
    IF Decimals[a] = None \/ q = None THEN None
    ELSE CheckedUsd(amount * q[1] * (Scale \div Pow10(a)))

EvalTypes ==
    /\ path \in Paths
    /\ price \in [Assets -> Prices]
    /\ \A a \in Assets : Decimals[a] = None => price[a] = None
    /\ seen \in [Assets -> SUBSET Prices]
    /\ pc \in {"sizing", "gaining", "costing", "valuing", "basing", "deciding",
               "reported", "rejected", "panicked"}
    /\ input \in Nat
    /\ output \in Nat

\* Once the path is sized, the price an asset has now is one it has had since.
SeenNow == pc # "sizing" => \A a \in Assets : price[a] \in seen[a]

\* The path was sized at a price that its start asset has had, and quoted.
SizedAt(q) ==
    /\ Decimals[path.start] # None
    /\ q \notin {None, <<0>>}
    /\ input = (InputUsd * Pow10(path.start)) \div q[1]

SizedOnce ==
    Sized => /\ input > 0 /\ output > 0 /\ output <= MaxSum
             /\ QuotePath(path.hops, input) = <<output>>
             /\ \E q \in seen[path.start] : SizedAt(q)

\* A cycle and a crossing are priced by steps of their own.
Branches ==
    /\ pc = "gaining" => IsCycle
    /\ pc \in {"costing", "valuing", "basing"} => ~IsCycle
    /\ pc \in {"sizing", "gaining", "costing", "valuing"} => profit = None

\* What the input may have been worth since the path was sized, and what a
\* crossing may have gained.
StartValues == {ValueAt(q, path.start, input) : q \in seen[path.start]}

EndValues == {ValueAt(q, path.destination, output) : q \in seen[path.destination]}

Gains == {Net(in, out) : in \in StartValues, out \in EndValues}

Gained ==
    IsCycle /\ pc \in {"deciding", "reported"} =>
        /\ roi = RoiBps(input, output - input)
        /\ \E q \in seen[path.start] : profit = ValueAt(q, path.start, output - input)

Costed == pc = "valuing" => cost \in StartValues

Valued == ~IsCycle /\ pc \in {"basing", "deciding", "reported"} => profit \in Gains

Based ==
    ~IsCycle /\ pc \in {"deciding", "reported"} =>
        \E base \in StartValues : roi = RoiOf(profit, base)

Decided == pc = "reported" => IsProfitable(input, output, profit)

Reads == Gained /\ Costed /\ Valued /\ Based /\ Decided

EvalInv ==
    EvalTypes /\ SeenNow /\ SizedOnce /\ Branches /\ Reads /\ CyclesPanicOnDustOnly

LEMMA PathEnds ==
  ASSUME EvalTypes
  PROVE  /\ path.start \in Assets /\ path.destination \in Assets
         /\ path.hops \in Seq(Hops)
BY SumsAssumption DEF EvalTypes

LEMMA ValueUsdIs == \A a, amount : ValueUsd(price, a, amount) = ValueAt(price[a], a, amount)
BY DEF ValueUsd, ValueAt

LEMMA InitEval == Init => EvalInv
<1> SUFFICES ASSUME Init PROVE EvalInv
  OBVIOUS
<1>1. PICK listed \in [Priced -> Prices] :
        price = [a \in Assets |-> IF a \in Priced THEN listed[a] ELSE None]
  BY DEF Init
<1>2. price \in [Assets -> Prices] /\ \A a \in Assets : Decimals[a] = None => price[a] = None
  BY <1>1 DEF Priced, Prices
<1>3. EvalTypes
  BY <1>2 DEF EvalTypes, Init
<1> QED
  BY <1>3 DEF Init, EvalInv, SeenNow, SizedOnce, Sized, Branches, Reads, Gained, Costed,
     Valued, Based, Decided, CyclesPanicOnDustOnly

\* A write only adds to what an asset's price has been.
LEMMA RepriceKeeps ==
  ASSUME EvalInv, NEW a \in Priced, Reprice(a)
  PROVE  EvalInv'
<1>1. PICK level \in Prices \ {price[a]} : price' = [price EXCEPT ![a] = level]
  BY DEF Reprice
<1>2. /\ UNCHANGED <<path, pc, input, output, profit, roi, cost>>
      /\ pc \notin {"reported", "rejected", "panicked"}
      /\ seen' = IF pc = "sizing" THEN seen
                 ELSE [seen EXCEPT ![a] = @ \cup {price'[a]}]
  BY DEF Reprice
<1>3. a \in Assets /\ Decimals[a] # None
  BY DEF Priced
<1>4. price' \in [Assets -> Prices] /\ price'[a] = level
  BY <1>1, <1>3 DEF EvalInv, EvalTypes
<1>5. EvalTypes'
  BY <1>1, <1>2, <1>3, <1>4 DEF EvalInv, EvalTypes
<1>6. SeenNow'
  BY <1>1, <1>2, <1>3 DEF EvalInv, EvalTypes, SeenNow
<1>7. \A b \in Assets : seen[b] \subseteq seen'[b]
  BY <1>2, <1>3 DEF EvalInv, EvalTypes
<1>8. path.start \in Assets /\ path.destination \in Assets
  BY PathEnds DEF EvalInv
<1>9. SizedOnce' /\ Branches'
  BY <1>2, <1>7, <1>8 DEF EvalInv, SizedOnce, Sized, SizedAt, Branches, IsCycle
<1>10. StartValues \subseteq StartValues' /\ EndValues \subseteq EndValues'
  BY <1>2, <1>7, <1>8 DEF StartValues, EndValues
<1>11. Gains \subseteq Gains'
  BY <1>10 DEF Gains
<1>12. Gained' /\ Decided'
  BY <1>2, <1>7, <1>8 DEF EvalInv, Reads, Gained, Decided, IsCycle
<1>13. Costed' /\ Valued' /\ Based'
  BY <1>2, <1>10, <1>11 DEF EvalInv, Reads, Costed, Valued, Based, IsCycle
<1>14. CyclesPanicOnDustOnly'
  BY <1>2 DEF CyclesPanicOnDustOnly
<1> QED
  BY <1>5, <1>6, <1>9, <1>12, <1>13, <1>14 DEF EvalInv, Reads

\* What amount_for_usd gives for the path's start.
LEMMA Sizes ==
  ASSUME EvalTypes, AmountForUsd(price, path.start, InputUsd) # None
  PROVE  LET sized == AmountForUsd(price, path.start, InputUsd)
         IN  /\ sized[1] \in Nat
             /\ Decimals[path.start] # None
             /\ price[path.start] \notin {None, <<0>>}
             /\ sized[1] = (InputUsd * Pow10(path.start)) \div price[path.start][1]
<1> DEFINE q == price[path.start]
           m == (InputUsd * Pow10(path.start)) \div q[1]
<1>1. path.start \in Assets
  BY PathEnds
<1>2. Decimals[path.start] # None /\ q \notin {None, <<0>>}
  BY DEF AmountForUsd
<1>3. PICK d \in 0 .. MaxDecimals : Decimals[path.start] = <<d>>
  BY <1>1, <1>2, SumsAssumption DEF None
<1>4. Pow10(path.start) \in Nat
  BY <1>3, TensDivide DEF Pow10
<1>5. PICK level \in PriceLevels : q = <<level>>
  BY <1>1, <1>2 DEF EvalTypes, Prices
<1>6. q[1] \in Nat \ {0}
  BY <1>2, <1>5, SumsAssumption
<1>7. m \in Nat
  <2>1. \A x, y \in Nat : \A z \in Nat \ {0} : (x * y) \div z \in Nat
    OBVIOUS
  <2> QED
    BY <1>4, <1>6, <2>1, SumsAssumption
<1>8. AmountForUsd(price, path.start, InputUsd) = Checked(m)
  BY <1>2 DEF AmountForUsd
<1> HIDE DEF q, m
<1>9. AmountForUsd(price, path.start, InputUsd)[1] = m
  BY <1>7, <1>8, CheckedOf
<1> QED
  BY <1>2, <1>7, <1>9 DEF q, m

LEMMA SizeKeeps ==
  ASSUME EvalInv, Size
  PROVE  EvalInv'
<1> DEFINE sized == AmountForUsd(price, path.start, InputUsd)
           quoted == IF sized = None THEN None ELSE QuotePath(path.hops, sized[1])
<1>1. /\ pc = "sizing" /\ profit = None
      /\ UNCHANGED <<path, price, writes, profit, roi, cost>>
      /\ seen' = [a \in Assets |-> {price[a]}]
  BY DEF Size, EvalInv, Branches
<1>2. EvalTypes /\ path.start \in Assets /\ path.destination \in Assets
  BY PathEnds DEF EvalInv
<1>3. SeenNow' /\ seen' \in [Assets -> SUBSET Prices]
  BY <1>1, <1>2 DEF SeenNow, EvalTypes
<1>4. CASE quoted = None
  <2>1. pc' = "rejected" /\ UNCHANGED <<input, output>>
    BY <1>4 DEF Size
  <2>2. EvalTypes'
    BY <1>1, <1>2, <1>3, <2>1 DEF EvalTypes
  <2> QED
    BY <1>3, <2>1, <2>2 DEF EvalInv, SizedOnce, Sized, Branches, Reads, Gained, Costed,
       Valued, Based, Decided, CyclesPanicOnDustOnly
<1>5. CASE quoted # None
  <2>1. /\ input' = sized[1] /\ output' = quoted[1]
        /\ pc' = IF IsCycle THEN "gaining" ELSE "costing"
    BY <1>5 DEF Size
  <2>2. sized # None /\ quoted = QuotePath(path.hops, sized[1])
    BY <1>5
  <2>3. /\ sized[1] \in Nat
        /\ Decimals[path.start] # None
        /\ price[path.start] \notin {None, <<0>>}
        /\ sized[1] = (InputUsd * Pow10(path.start)) \div price[path.start][1]
    BY <1>2, <2>2, Sizes
  <2>4. /\ sized[1] > 0 /\ quoted[1] \in Nat \ {0} /\ quoted = <<quoted[1]>>
        /\ quoted[1] <= MaxSum
    <3> HIDE DEF sized, quoted
    <3> QED
      BY <1>2, <1>5, <2>2, <2>3, PathEnds, PathGives
  <2> HIDE DEF sized, quoted
  <2>5. EvalTypes'
    BY <1>1, <1>2, <1>3, <2>1, <2>3, <2>4 DEF EvalTypes
  <2>6. SizedOnce'
    <3>1. price[path.start] \in seen'[path'.start]
      BY <1>1, <1>2
    <3>2. input' > 0 /\ output' > 0 /\ output' <= MaxSum /\ QuotePath(path'.hops, input') = <<output'>>
      BY <1>1, <2>1, <2>2, <2>4
    <3> QED
      BY <1>1, <2>1, <2>3, <3>1, <3>2 DEF SizedOnce, SizedAt
  <2>7. Branches' /\ Reads' /\ CyclesPanicOnDustOnly'
    BY <1>1, <2>1 DEF Branches, IsCycle, Reads, Gained, Costed, Valued, Based, Decided,
       CyclesPanicOnDustOnly
  <2> QED
    BY <1>3, <2>5, <2>6, <2>7 DEF EvalInv
<1> QED
  BY <1>4, <1>5

\* After sizing, a step leaves the amounts, the prices and what was seen alone.
LEMMA LaterKeeps ==
  ASSUME EvalInv, Gain \/ Cost \/ Value \/ Base \/ Decide
  PROVE  /\ UNCHANGED <<path, price, writes, seen, input, output>>
         /\ EvalTypes' /\ SeenNow' /\ SizedOnce'
         /\ StartValues' = StartValues /\ EndValues' = EndValues /\ Gains' = Gains
         /\ IsCycle' = IsCycle
         /\ path.start \in Assets /\ path.destination \in Assets
<1>1. /\ UNCHANGED <<path, price, writes, seen, input, output>>
      /\ pc' \in {"valuing", "basing", "deciding", "reported", "rejected", "panicked"}
      /\ pc \notin {"sizing", "rejected"}
  BY DEF Gain, Cost, Value, Base, Decide
<1>2. StartValues' = StartValues /\ EndValues' = EndValues
  BY <1>1 DEF StartValues, EndValues
<1>3. EvalTypes' /\ SeenNow' /\ SizedOnce'
  BY <1>1 DEF EvalInv, EvalTypes, SeenNow, SizedOnce, Sized, SizedAt
<1> QED
  BY <1>1, <1>2, <1>3, PathEnds DEF EvalInv, Gains, IsCycle

\* What a Decimal holds is in basis points of BasisPoints units or more, too.
LEMMA DustPanics ==
  ASSUME NEW in \in Nat, NEW out \in Nat, out <= MaxSum, Overflows(in, out - in)
  PROVE  in < BasisPoints
<1> SUFFICES ASSUME in >= BasisPoints PROVE FALSE
  BY SumsAssumption
<1> DEFINE gain == out - in
<1>1. MaxSum \in Nat /\ BasisPoints \in Nat
  BY SumsAssumption
<1>2. gain > 0 /\ gain * BasisPoints > MaxSum * in
  BY DEF Overflows
<1>3. gain \in Nat /\ gain <= MaxSum
  BY <1>1, <1>2
<1> HIDE DEF gain
<1>4. \A x, y, z \in Nat : x <= y => x * z <= y * z /\ z * x <= z * y
  OBVIOUS
<1>5. gain * BasisPoints <= MaxSum * BasisPoints /\ MaxSum * BasisPoints <= MaxSum * in
  BY <1>1, <1>3, <1>4
<1>6. gain * BasisPoints \in Nat /\ MaxSum * BasisPoints \in Nat /\ MaxSum * in \in Nat
  BY <1>1, <1>3
<1> QED
  BY <1>2, <1>5, <1>6

LEMMA GainKeeps ==
  ASSUME EvalInv, Gain
  PROVE  EvalInv'
<1>1. /\ EvalTypes' /\ SeenNow' /\ SizedOnce' /\ IsCycle' = IsCycle
      /\ UNCHANGED <<path, price, writes, seen, input, output>>
      /\ path.start \in Assets
  BY LaterKeeps
<1>2. IsCycle /\ pc = "gaining"
  BY DEF Gain, EvalInv, Branches
<1>3. /\ pc' \in {"deciding", "panicked"}
      /\ pc' = "panicked" => Overflows(input, output - input)
      /\ pc' = "deciding" => roi' = RoiBps(input, output - input)
      /\ profit' = ValueAt(price[path.start], path.start, output - input)
  BY ValueUsdIs DEF Gain
<1>4. price[path.start] \in seen[path.start]
  BY <1>1, <1>2 DEF EvalInv, SeenNow
<1>5. Branches' /\ Reads'
  BY <1>1, <1>2, <1>3, <1>4 DEF Branches, Reads, Gained, Costed, Valued, Based, Decided
<1>6. CyclesPanicOnDustOnly'
  <2> SUFFICES ASSUME Overflows(input, output - input) PROVE input < BasisPoints
    BY <1>1, <1>3 DEF CyclesPanicOnDustOnly
  <2>1. input \in Nat /\ output \in Nat /\ output <= MaxSum
    BY <1>2 DEF EvalInv, EvalTypes, SizedOnce, Sized
  <2> QED
    BY <2>1, DustPanics
<1> QED
  BY <1>1, <1>5, <1>6 DEF EvalInv

LEMMA CostKeeps ==
  ASSUME EvalInv, Cost
  PROVE  EvalInv'
<1>1. /\ EvalTypes' /\ SeenNow' /\ SizedOnce' /\ IsCycle' = IsCycle
      /\ Gains' = Gains /\ StartValues' = StartValues
      /\ path.start \in Assets /\ path.destination \in Assets
  BY LaterKeeps
<1>2. /\ ~IsCycle /\ pc = "costing" /\ profit = None /\ profit' = profit
      /\ cost' = ValueAt(price[path.start], path.start, input)
      /\ pc' = IF cost' = None THEN "basing" ELSE "valuing"
  BY ValueUsdIs DEF Cost, EvalInv, Branches
<1>3. cost' \in StartValues /\ EndValues # {}
  BY <1>1, <1>2 DEF EvalInv, SeenNow, StartValues, EndValues
<1>4. cost' = None => None \in Gains
  BY <1>3 DEF Gains, Net
<1>5. Branches' /\ Reads'
  BY <1>1, <1>2, <1>3, <1>4 DEF Branches, Reads, Gained, Costed, Valued, Based, Decided
<1>6. CyclesPanicOnDustOnly'
  BY <1>2 DEF CyclesPanicOnDustOnly
<1> QED
  BY <1>1, <1>5, <1>6 DEF EvalInv

LEMMA ValueKeeps ==
  ASSUME EvalInv, Value
  PROVE  EvalInv'
<1>1. /\ EvalTypes' /\ SeenNow' /\ SizedOnce' /\ IsCycle' = IsCycle
      /\ Gains' = Gains /\ path.destination \in Assets
  BY LaterKeeps
<1>2. /\ ~IsCycle /\ pc = "valuing" /\ pc' = "basing"
      /\ profit' = Net(cost, ValueAt(price[path.destination], path.destination, output))
  BY ValueUsdIs DEF Value, EvalInv, Branches
<1>3. profit' \in Gains
  BY <1>1, <1>2 DEF EvalInv, SeenNow, Reads, Costed, EndValues, Gains
<1>4. Branches' /\ Reads'
  BY <1>1, <1>2, <1>3 DEF Branches, Reads, Gained, Costed, Valued, Based, Decided
<1>5. CyclesPanicOnDustOnly'
  BY <1>2 DEF CyclesPanicOnDustOnly
<1> QED
  BY <1>1, <1>4, <1>5 DEF EvalInv

LEMMA BaseKeeps ==
  ASSUME EvalInv, Base
  PROVE  EvalInv'
<1> DEFINE q == price[path.start]
           base == ValueAt(q, path.start, input)
<1>1. /\ EvalTypes' /\ SeenNow' /\ SizedOnce' /\ IsCycle' = IsCycle
      /\ Gains' = Gains /\ StartValues' = StartValues
      /\ path.start \in Assets
      /\ UNCHANGED <<path, price, writes, seen, input, output>>
  BY LaterKeeps
<1>2. /\ ~IsCycle /\ pc = "basing" /\ profit' = profit
      /\ pc' \in {"deciding", "panicked"}
      /\ pc' = "panicked" => Panics(profit, base)
      /\ pc' = "deciding" => roi' = RoiOf(profit, base)
  BY ValueUsdIs DEF Base, EvalInv, Branches
<1>3. q \in seen[path.start] /\ base \in StartValues
  BY <1>1, <1>2 DEF EvalInv, SeenNow, StartValues
<1>4. Branches' /\ Reads'
  <2> HIDE DEF base
  <2> QED
    BY <1>1, <1>2, <1>3 DEF EvalInv, Branches, Reads, Gained, Costed, Valued, Based, Decided
<1>5. CyclesPanicOnDustOnly'
  BY <1>1, <1>2 DEF CyclesPanicOnDustOnly
<1> QED
  BY <1>1, <1>4, <1>5 DEF EvalInv

LEMMA DecideKeeps ==
  ASSUME EvalInv, Decide
  PROVE  EvalInv'
<1>1. /\ EvalTypes' /\ SeenNow' /\ SizedOnce' /\ IsCycle' = IsCycle
      /\ Gains' = Gains /\ StartValues' = StartValues
      /\ UNCHANGED <<path, price, writes, seen, input, output>>
  BY LaterKeeps
<1>2. /\ pc = "deciding" /\ UNCHANGED <<profit, roi, cost>>
      /\ pc' = IF IsProfitable(input, output, profit) THEN "reported" ELSE "rejected"
  BY DEF Decide
<1>3. Branches' /\ Costed' /\ Decided' /\ CyclesPanicOnDustOnly'
  BY <1>1, <1>2 DEF Branches, Costed, Decided, CyclesPanicOnDustOnly, IsProfitable
<1>4. Gained' /\ Valued' /\ Based'
  BY <1>1, <1>2 DEF EvalInv, Reads, Gained, Valued, Based
<1> QED
  BY <1>1, <1>3, <1>4 DEF EvalInv, Reads

LEMMA StepEval == EvalInv /\ [Next]_vars => EvalInv'
<1>1. EvalInv /\ UNCHANGED vars => EvalInv'
  BY DEF vars, EvalInv, EvalTypes, SeenNow, SizedOnce, Sized, SizedAt, Branches, IsCycle,
     StartValues, EndValues, Gains, Reads, Gained, Costed, Valued, Based, Decided,
     IsProfitable, CyclesPanicOnDustOnly
<1> QED
  BY <1>1, RepriceKeeps, SizeKeeps, GainKeeps, CostKeeps, ValueKeeps, BaseKeeps, DecideKeeps
  DEF Next, Step

THEOREM EvalInvariant == Spec => []EvalInv
BY InitEval, StepEval, PTL DEF Spec

-----------------------------------------------------------------------------
(* What an evaluation reports. *)

\* A crossing is reported only for a positive difference of two values that its
\* ends have had since it was sized.
THEOREM CrossVerdict == Spec => []CrossProfitFromSeenPrices
<1>1. EvalInv => CrossProfitFromSeenPrices
  <2> SUFFICES ASSUME EvalInv, pc = "reported", ~IsCycle
               PROVE  CrossProfitFromSeenPrices
    BY DEF CrossProfitFromSeenPrices
  <2>1. profit \in Gains /\ profit # None /\ profit[1] > 0
    BY DEF EvalInv, Reads, Valued, Decided, IsProfitable
  <2>2. PICK p \in seen[path.start], q \in seen[path.destination] :
          profit = Net(ValueAt(p, path.start, input), ValueAt(q, path.destination, output))
    BY <2>1 DEF Gains, StartValues, EndValues
  <2> DEFINE in == input * p[1] * (Scale \div Pow10(path.start))
             out == output * q[1] * (Scale \div Pow10(path.destination))
  <2>3. /\ ValueAt(p, path.start, input) # None
        /\ ValueAt(q, path.destination, output) # None
    BY <2>1, <2>2 DEF Net
  <2>4. p # None /\ q # None /\ CheckedUsd(in) # None /\ CheckedUsd(out) # None
        /\ profit = Net(CheckedUsd(in), CheckedUsd(out))
    BY <2>2, <2>3 DEF ValueAt
  <2>5. profit[1] = out - in
    <3> HIDE DEF in, out
    <3> QED
      BY <2>4, OptionParts DEF Net, CheckedUsd
  <2> QED
    BY <2>1, <2>4, <2>5 DEF CrossProfitFromSeenPrices
<1> QED
  BY <1>1, EvalInvariant, PTL

\* The plain division of roi_bps cannot panic on a cycle sized at BasisPoints
\* base units or more, whatever is quoted and written: both conversions of its
\* output are bounded by what a Decimal holds.
THEOREM CycleDivides == Spec => []CyclesPanicOnDustOnly
<1>1. EvalInv => CyclesPanicOnDustOnly
  BY DEF EvalInv
<1> QED
  BY <1>1, EvalInvariant, PTL

-----------------------------------------------------------------------------
(* Undisturbed evaluations. *)

\* A base unit is worth a whole number of value units.
LEMMA UnitOf ==
  ASSUME NEW a \in Assets, Decimals[a] # None
  PROVE  /\ Pow10(a) \in Nat \ {0}
         /\ Scale \div Pow10(a) \in Nat \ {0}
         /\ Pow10(a) * (Scale \div Pow10(a)) = Scale
<1>1. PICK d \in 0 .. MaxDecimals : Decimals[a] = <<d>>
  BY SumsAssumption DEF None
<1>2. PICK k \in Nat \ {0} : Scale = Tens[d] * k
  BY TensDivide
<1>3. Pow10(a) = Tens[d] /\ Tens[d] \in Nat \ {0}
  BY <1>1, TensDivide DEF Pow10
<1>4. \A t, x \in Nat \ {0} : (t * x) \div t = x
  OBVIOUS
<1>5. Scale \div Pow10(a) = k
  BY <1>2, <1>3, <1>4
<1> QED
  BY <1>2, <1>3, <1>5

LEMMA Associates == \A x \in Int : \A p, u \in Nat : x * p * u = x * (p * u)
OBVIOUS

LEMMA Distributes == \A x, y, k \in Int : (x - y) * k = x * k - y * k
OBVIOUS

LEMMA Scales ==
  ASSUME NEW x \in Int, NEW y \in Int, NEW k \in Nat \ {0}
  PROVE  /\ x * k \in Int
         /\ x <= y <=> x * k <= y * k
         /\ x < y <=> x * k < y * k
OBVIOUS

\* The basis points of a return are those of exact arithmetic, rounded down.
LEMMA RoiBounds ==
  ASSUME NEW base \in Nat \ {0}, NEW gain \in Nat \ {0}
  PROVE  /\ RoiBps(base, gain) \in Nat
         /\ RoiBps(base, gain) * base <= gain * BasisPoints
         /\ RoiBps(base, gain) < U32Max =>
                (RoiBps(base, gain) + 1) * base > gain * BasisPoints
<1> DEFINE bps == (gain * BasisPoints) \div base
           roi0 == RoiBps(base, gain)
<1>1. gain * BasisPoints \in Nat
  BY SumsAssumption
<1>2. \A n \in Nat : \A b \in Nat \ {0} :
        /\ n \div b \in Nat
        /\ (n \div b) * b <= n
        /\ (n \div b + 1) * b > n
  OBVIOUS
<1>3. bps \in Nat /\ bps * base <= gain * BasisPoints /\ (bps + 1) * base > gain * BasisPoints
  BY <1>1, <1>2
<1>4. roi0 = IF bps > U32Max THEN U32Max ELSE bps
  BY DEF RoiBps
<1> HIDE DEF bps, roi0
<1>5. roi0 \in Nat /\ roi0 <= bps /\ (roi0 < U32Max => roi0 = bps)
  BY <1>3, <1>4, SumsAssumption
<1>6. roi0 * base <= bps * base
  BY <1>3, <1>5, Scales
<1>7. roi0 * base <= gain * BasisPoints
  <2>1. roi0 * base \in Int /\ bps * base \in Int
    BY <1>3, <1>5, Scales
  <2> QED
    BY <1>1, <1>3, <1>6, <2>1
<1> QED
  BY <1>3, <1>5, <1>7 DEF roi0

\* What the current prices make of the amounts of an undisturbed evaluation.
LEMMA UndisturbedSize ==
  ASSUME EvalInv, Sized, Undisturbed
  PROVE  /\ path.start \in Assets /\ path.destination \in Assets
         /\ Decimals[path.start] # None
         /\ price[path.start] # None
         /\ price[path.start][1] \in Nat \ {0}
         /\ input \in Nat \ {0} /\ output \in Nat \ {0}
         /\ input = (InputUsd * Pow10(path.start)) \div price[path.start][1]
         /\ StartValues = {ValueAt(price[path.start], path.start, input)}
         /\ EndValues = {ValueAt(price[path.destination], path.destination, output)}
<1>1. path.start \in Assets /\ path.destination \in Assets
  BY PathEnds DEF EvalInv
<1>2. seen[path.start] = {price[path.start]} /\ seen[path.destination] = {price[path.destination]}
  BY <1>1 DEF Undisturbed
<1>3. SizedAt(price[path.start]) /\ input > 0 /\ output > 0 /\ input \in Nat /\ output \in Nat
  BY <1>2 DEF EvalInv, EvalTypes, SizedOnce
<1>4. price[path.start] \in Prices /\ price[path.start] \notin {None, <<0>>}
  BY <1>1, <1>3 DEF EvalInv, EvalTypes, SizedAt
<1>5. price[path.start][1] \in Nat \ {0}
  BY <1>4, SumsAssumption DEF Prices
<1> QED
  BY <1>1, <1>2, <1>3, <1>4, <1>5 DEF SizedAt, StartValues, EndValues

LEMMA BudgetInv == EvalInv => SizedToBudget
<1> SUFFICES ASSUME EvalInv, Sized, Undisturbed
             PROVE  LET unit == price[path.start][1] * (Scale \div Pow10(path.start))
                    IN  /\ input * unit <= InputUsd * Scale
                        /\ (input + 1) * unit > InputUsd * Scale
  BY DEF SizedToBudget
<1> DEFINE p == price[path.start][1]
           t == Pow10(path.start)
           u == Scale \div t
<1>1. /\ p \in Nat \ {0} /\ input \in Nat
      /\ input = (InputUsd * t) \div p
  BY UndisturbedSize
<1>2. t \in Nat \ {0} /\ u \in Nat \ {0} /\ t * u = Scale
  BY UndisturbedSize, UnitOf
<1> HIDE DEF p, t, u
<1>3. InputUsd * t \in Nat /\ (InputUsd * t) * u = InputUsd * Scale
  <2>1. InputUsd \in Nat
    BY SumsAssumption
  <2>2. (InputUsd * t) * u = InputUsd * (t * u)
    BY <1>2, <2>1, Associates
  <2> QED
    BY <1>2, <2>1, <2>2
<1>4. \A n \in Nat : \A b \in Nat \ {0} : (n \div b) * b <= n /\ (n \div b + 1) * b > n
  OBVIOUS
<1>5. input * p <= InputUsd * t /\ (input + 1) * p > InputUsd * t
  BY <1>1, <1>3, <1>4
<1>6. input * p \in Int /\ (input + 1) * p \in Int
  BY <1>1
<1>7. (input * p) * u <= InputUsd * Scale
  BY <1>2, <1>3, <1>5, <1>6, Scales
<1>8. ((input + 1) * p) * u > InputUsd * Scale
  BY <1>2, <1>3, <1>5, <1>6, Scales
<1>9. input * (p * u) = (input * p) * u /\ (input + 1) * (p * u) = ((input + 1) * p) * u
  BY <1>1, <1>2, Associates
<1>10. input * (p * u) <= InputUsd * Scale /\ (input + 1) * (p * u) > InputUsd * Scale
  BY <1>7, <1>8, <1>9
<1> QED
  BY <1>10 DEF p, t, u

\* amount_for_usd is "the inverse of value_usd": the input is the largest
\* base-unit amount worth no more than the configured size.
THEOREM SizesToBudget == Spec => []SizedToBudget
BY BudgetInv, EvalInvariant, PTL

\* The size that is configured is a sum a Decimal can hold.
BudgetFits == InputUsd <= MaxSum

\* What `amount` base units of a are worth now.
Worth(a, amount) == amount * price[a][1] * (Scale \div Pow10(a))

\* A base unit of a is worth k.
UnitWorth(a, k) ==
    /\ \A amount \in Int : Worth(a, amount) = amount * k
    /\ price[a][1] > 0 => k > 0
    /\ \A amount : ValueAt(price[a], a, amount) = CheckedUsd(Worth(a, amount))

LEMMA WorthOf ==
  ASSUME EvalTypes, NEW a \in Assets, price[a] # None
  PROVE  \E k \in Nat : UnitWorth(a, k)
<1> DEFINE p == price[a][1]
           u == Scale \div Pow10(a)
<1>1. Decimals[a] # None
  BY DEF EvalTypes
<1>2. p \in Nat
  <2>1. price[a] \in Prices
    BY DEF EvalTypes
  <2> QED
    BY <2>1, SumsAssumption DEF Prices
<1>3. u \in Nat \ {0}
  BY <1>1, UnitOf
<1>4. \A amount : ValueAt(price[a], a, amount) = CheckedUsd(Worth(a, amount))
  BY <1>1 DEF ValueAt, Worth
<1>5. \A amount : Worth(a, amount) = amount * p * u
  BY DEF Worth
<1> HIDE DEF p, u
<1>6. p * u \in Nat /\ (p > 0 => p * u > 0)
  BY <1>2, <1>3
<1>7. \A amount \in Int : Worth(a, amount) = amount * (p * u)
  BY <1>2, <1>3, <1>5, Associates
<1> QED
  BY <1>4, <1>6, <1>7 DEF p, UnitWorth

\* What is worth the budget at most can be held.
LEMMA InputIsHeld ==
  ASSUME BudgetFits, EvalInv, Sized, Undisturbed
  PROVE  /\ Worth(path.start, input) \in Nat \ {0}
         /\ Worth(path.start, input) <= MaxSum * Scale
         /\ ValueAt(price[path.start], path.start, input) = <<Worth(path.start, input)>>
<1>1. /\ path.start \in Assets /\ price[path.start] # None
      /\ price[path.start][1] \in Nat \ {0} /\ input \in Nat \ {0}
      /\ Decimals[path.start] # None
  BY UndisturbedSize
<1>2. PICK k \in Nat : UnitWorth(path.start, k)
  <2>1. EvalTypes
    BY DEF EvalInv
  <2> QED
    BY <1>1, <2>1, WorthOf
<1>3. Worth(path.start, input) = input * k /\ k > 0
  BY <1>1, <1>2 DEF UnitWorth
<1>4. Worth(path.start, input) \in Nat \ {0}
  BY <1>1, <1>3
<1>5. Worth(path.start, input) <= InputUsd * Scale
  <2>1. input * (price[path.start][1] * (Scale \div Pow10(path.start))) <= InputUsd * Scale
    BY BudgetInv DEF SizedToBudget
  <2>2. Worth(path.start, input) =
            input * (price[path.start][1] * (Scale \div Pow10(path.start)))
    BY <1>1, UnitOf, Associates DEF Worth
  <2> QED
    BY <2>1, <2>2
<1>6. InputUsd * Scale \in Nat /\ MaxSum * Scale \in Nat /\ InputUsd * Scale <= MaxSum * Scale
  <2>1. Scale \in Nat \ {0}
    BY TensDivide, SumsAssumption DEF Scale
  <2>2. InputUsd \in Nat /\ MaxSum \in Nat /\ InputUsd <= MaxSum
    BY SumsAssumption DEF BudgetFits
  <2> QED
    BY <2>1, <2>2, Scales
<1>7. Worth(path.start, input) <= MaxSum * Scale
  BY <1>4, <1>5, <1>6
<1> QED
  BY <1>2, <1>4, <1>7, CheckedUsdOf DEF UnitWorth

\* The verdict on a cycle whose asset is priced, in terms of worth.
LEMMA CycleWorth ==
  ASSUME BudgetFits, EvalInv, Undisturbed, IsCycle, pc \in {"deciding", "reported"},
         Worth(path.destination, output) <= MaxSum * Scale
  PROVE  LET gain == Worth(path.destination, output) - Worth(path.start, input)
         IN  /\ gain \in Int
             /\ profit = <<gain>>
             /\ gain > 0 <=> output > input
             /\ gain > 0 =>
                    /\ roi * Worth(path.start, input) <= gain * BasisPoints
                    /\ roi < U32Max =>
                        (roi + 1) * Worth(path.start, input) > gain * BasisPoints
<1> DEFINE a == path.start
<1>1. Sized
  BY DEF Sized
<1>2. /\ a \in Assets /\ price[a] # None /\ path.destination = a
      /\ price[a][1] \in Nat \ {0} /\ input \in Nat \ {0} /\ output \in Nat \ {0}
  BY <1>1, UndisturbedSize DEF IsCycle
<1>3. PICK k \in Nat : UnitWorth(a, k)
  <2>1. EvalTypes
    BY DEF EvalInv
  <2> HIDE DEF a
  <2> QED
    BY <1>2, <2>1, WorthOf
<1>4. k \in Nat \ {0}
  BY <1>2, <1>3 DEF UnitWorth
<1>5. Gained /\ seen[a] = {price[a]}
  BY <1>2 DEF EvalInv, Reads, Undisturbed
<1>6. roi = RoiBps(input, output - input) /\ profit = ValueAt(price[a], a, output - input)
  BY <1>5 DEF Gained
<1> HIDE DEF a
<1> DEFINE in == Worth(a, input)
           out == Worth(a, output)
           gain == out - in
<1>7. in = input * k /\ out = output * k /\ in \in Nat /\ out \in Nat
  BY <1>2, <1>3, <1>4 DEF UnitWorth
<1>8. Worth(a, output - input) = gain /\ gain = (output - input) * k /\ gain \in Int
  <2>1. Worth(a, output - input) = (output - input) * k
    BY <1>2, <1>3 DEF UnitWorth
  <2>2. (output - input) * k = output * k - input * k
    BY <1>2, <1>4, Distributes
  <2> QED
    BY <1>7, <2>1, <2>2
<1>9. out <= MaxSum * Scale
  BY <1>2
<1> HIDE DEF in, out
<1>10. gain <= MaxSum * Scale
  <2>1. MaxSum * Scale \in Nat
    BY MostUsd
  <2> QED
    BY <1>7, <1>9, <2>1
<1>11. profit = <<gain>>
  BY <1>3, <1>6, <1>8, <1>10, CheckedUsdOf DEF UnitWorth
<1>12. gain > 0 <=> output > input
  BY <1>2, <1>4, <1>7, Scales
<1>13. ASSUME gain > 0
       PROVE  /\ roi * in <= gain * BasisPoints
              /\ roi < U32Max => (roi + 1) * in > gain * BasisPoints
  <2> DEFINE g == output - input
  <2>1. g \in Nat \ {0}
    BY <1>2, <1>12, <1>13
  <2>2. roi = RoiBps(input, g)
    BY <1>6
  <2>3. gain = g * k
    BY <1>8
  <2> HIDE DEF g, gain
  <2>4. /\ roi \in Nat
        /\ roi * input <= g * BasisPoints
        /\ roi < U32Max => (roi + 1) * input > g * BasisPoints
    BY <1>2, <2>1, <2>2, RoiBounds
  <2>5. BasisPoints \in Nat
    BY SumsAssumption
  <2>6. /\ roi * input \in Int /\ (roi + 1) * input \in Int
        /\ g * BasisPoints \in Int
    BY <1>2, <2>1, <2>4, <2>5
  <2>7. /\ (roi * input) * k <= (g * BasisPoints) * k
        /\ roi < U32Max => ((roi + 1) * input) * k > (g * BasisPoints) * k
    BY <1>4, <2>4, <2>6, Scales
  <2>8. /\ (roi * input) * k = roi * in
        /\ ((roi + 1) * input) * k = (roi + 1) * in
    BY <1>2, <1>4, <1>7, <2>4, Associates
  <2>9. (g * BasisPoints) * k = gain * BasisPoints
    BY <1>4, <2>1, <2>3, <2>5
  <2> QED
    BY <2>7, <2>8, <2>9
<1> QED
  BY <1>2, <1>8, <1>11, <1>12, <1>13 DEF in, out, a

\* The same for a crossing whose two ends are priced.
LEMMA CrossingWorth ==
  ASSUME BudgetFits, EvalInv, Undisturbed, ~IsCycle, pc \in {"deciding", "reported"},
         price[path.destination] # None,
         Worth(path.destination, output) <= MaxSum * Scale
  PROVE  LET gain == Worth(path.destination, output) - Worth(path.start, input)
         IN  /\ gain \in Int
             /\ profit = <<gain>>
             /\ gain > 0 =>
                    /\ roi * Worth(path.start, input) <= gain * BasisPoints
                    /\ roi < U32Max =>
                        (roi + 1) * Worth(path.start, input) > gain * BasisPoints
<1> DEFINE in == Worth(path.start, input)
           out == Worth(path.destination, output)
           gain == out - in
<1>1. Sized
  BY DEF Sized
<1>2. /\ path.destination \in Assets /\ output \in Nat \ {0}
      /\ StartValues = {ValueAt(price[path.start], path.start, input)}
      /\ EndValues = {ValueAt(price[path.destination], path.destination, output)}
  BY <1>1, UndisturbedSize
<1>3. PICK k \in Nat : UnitWorth(path.destination, k)
  <2>1. EvalTypes
    BY DEF EvalInv
  <2> QED
    BY <1>2, <2>1, WorthOf
<1>4. out = output * k
  BY <1>2, <1>3 DEF UnitWorth
<1>5. out \in Nat
  BY <1>2, <1>4
<1>6. in \in Nat \ {0} /\ ValueAt(price[path.start], path.start, input) = <<in>>
  BY <1>1, InputIsHeld
<1>7. ValueAt(price[path.destination], path.destination, output) = <<out>>
  BY <1>3, <1>5, CheckedUsdOf DEF UnitWorth
<1> HIDE DEF in, out
<1>8. Gains = {<<out - in>>}
  BY <1>2, <1>6, <1>7, OptionParts DEF Gains, Net
<1>9. profit = <<gain>> /\ gain \in Int
  BY <1>5, <1>6, <1>8 DEF EvalInv, Reads, Valued
<1>10. roi = RoiOf(<<gain>>, <<in>>)
  BY <1>2, <1>6, <1>9 DEF EvalInv, Reads, Based
<1> HIDE DEF gain
<1>11. roi = RoiBps(in, gain)
  BY <1>10, OptionParts DEF RoiOf
<1>12. gain > 0 =>
        /\ roi * in <= gain * BasisPoints
        /\ roi < U32Max => (roi + 1) * in > gain * BasisPoints
  BY <1>6, <1>9, <1>11, RoiBounds
<1> QED
  BY <1>9, <1>12 DEF in, out, gain

\* If no price changes while a path is evaluated, the awaits between its reads
\* do not matter: it is reported exactly when its output is worth more than its
\* input, with that difference as its profit and the basis points it adds.
THEOREM UndisturbedAtomic == BudgetFits => (Spec => []UndisturbedIsAtomic)
<1> SUFFICES ASSUME BudgetFits PROVE Spec => []UndisturbedIsAtomic
  OBVIOUS
<1>1. EvalInv => UndisturbedIsAtomic
  <2> SUFFICES ASSUME EvalInv, pc \in {"deciding", "reported"}, Undisturbed,
                      price[path.destination] # None,
                      Worth(path.destination, output) <= MaxSum * Scale
               PROVE  LET gain == Worth(path.destination, output) - Worth(path.start, input)
                      IN  /\ pc = "reported" => gain > 0
                          /\ pc = "deciding" /\ gain > 0 =>
                                IsProfitable(input, output, profit)
                          /\ profit = <<gain>>
                          /\ gain > 0 =>
                                /\ roi * Worth(path.start, input) <= gain * BasisPoints
                                /\ roi < U32Max =>
                                    (roi + 1) * Worth(path.start, input) > gain * BasisPoints
    BY DEF UndisturbedIsAtomic, Worth
  <2>1. pc = "reported" => IsProfitable(input, output, profit)
    BY DEF EvalInv, Reads, Decided
  <2>2. CASE IsCycle
    BY <2>1, <2>2, CycleWorth DEF IsProfitable
  <2>3. CASE ~IsCycle
    BY <2>1, <2>3, CrossingWorth, OptionParts DEF IsProfitable
  <2> QED
    BY <2>2, <2>3
<1> QED
  BY <1>1, EvalInvariant, PTL
=============================================================================
