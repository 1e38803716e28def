---------------------------- MODULE Executor_proofs ----------------------------
(***************************************************************************)
(* Proofs about Executor for any pools, routers, tolerance and length of    *)
(* route. A plan is compared with the quote of the whole path: the spans cut *)
(* the path up, and quoting a span for no more than the path's quote had     *)
(* there gives no more than the path's quote has at its end.                *)
(***************************************************************************)
EXTENDS Executor, Evaluation_proofs

-----------------------------------------------------------------------------
(* More in, no less out. *)

LEMMA DivGrows ==
  ASSUME NEW x \in Nat, NEW y \in Nat, x <= y, NEW d \in Nat \ {0}
  PROVE  x \div d \in Nat /\ x \div d <= y \div d
<1> DEFINE p == x \div d
           q == y \div d
<1>1. p \in Nat /\ q \in Nat /\ p * d <= x /\ y < (q + 1) * d
  OBVIOUS
<1> HIDE DEF p, q
<1>2. p * d < (q + 1) * d
  BY <1>1
<1>3. p < q + 1
  BY <1>1, <1>2, Scales
<1> QED
  BY <1>1, <1>3 DEF p, q

LEMMA ProductGrows ==
  ASSUME NEW x \in Nat, NEW y \in Nat, x <= y, NEW k \in Nat
  PROVE  x * k \in Nat /\ y * k \in Nat /\ x * k <= y * k
OBVIOUS

\* A floor takes away, and takes more away from less.
LEMMA FloorOf ==
  ASSUME NEW x \in Nat, NEW y \in Nat, x <= y
  PROVE  Floored(x) \in Nat /\ Floored(x) <= x /\ Floored(x) <= Floored(y)
<1> DEFINE k == 10000 - Slippage
<1>1. k \in Nat /\ k <= 10000
  <2>1. \A s \in 0 .. 10000 : 10000 - s \in Nat /\ 10000 - s <= 10000
    OBVIOUS
  <2> QED
    BY <2>1, SlippageAssumption
<1> HIDE DEF k
<1>2. x * k \in Nat /\ y * k \in Nat /\ x * k <= y * k
  BY <1>1, ProductGrows
<1>3. (x * k) \div 10000 \in Nat /\ (x * k) \div 10000 <= (y * k) \div 10000
  BY <1>2, DivGrows
<1>4. x * k <= x * 10000
  BY <1>1
<1>5. (x * k) \div 10000 <= x
  BY <1>2, <1>4
<1> QED
  BY <1>3, <1>5 DEF Floored, k

LEMMA HopGrows ==
  ASSUME NEW hop \in Hops, NEW little \in Sums, NEW much \in Sums,
         QuoteHop(hop, little) # None, QuoteHop(hop, much) # None,
         little[1] <= much[1]
  PROVE  QuoteHop(hop, little)[1] <= QuoteHop(hop, much)[1]
<1>1. ASSUME NEW amount \in Sums, QuoteHop(hop, amount) # None
      PROVE  /\ amount # None /\ amount[1] \in Nat
             /\ QuoteHop(hop, amount)[1] = (amount[1] * hop.gives) \div hop.takes
  <2>1. amount # None
    BY <1>1, HopGives
  <2>2. amount[1] \in Nat
    BY <2>1, OptionParts
  <2>3. ToU256(amount[1]) = <<amount[1]>> /\ ToU256(amount[1]) # None
        /\ ToU256(amount[1])[1] = amount[1]
    BY <2>2, OptionParts DEF ToU256
  <2> DEFINE out == (amount[1] * hop.gives) \div hop.takes
  <2>4. QuoteHop(hop, amount) =
          IF amount[1] = 0 \/ amount[1] > hop.limit \/ out = 0 THEN None ELSE Checked(out)
    BY <2>1, <2>3 DEF QuoteHop, FromU256
  <2> HIDE DEF out
  <2>5. Checked(out) # None /\ QuoteHop(hop, amount) = Checked(out)
    BY <1>1, <2>4
  <2>6. Checked(out)[1] = out
    BY <2>5, OptionParts DEF Checked
  <2> QED
    BY <2>1, <2>2, <2>5, <2>6 DEF out
<1>2. hop.gives \in Nat /\ hop.takes \in Nat \ {0}
  BY SumsAssumption
<1>3. little[1] \in Nat /\ much[1] \in Nat
  BY <1>1
<1>4. little[1] * hop.gives \in Nat /\ much[1] * hop.gives \in Nat
      /\ little[1] * hop.gives <= much[1] * hop.gives
  BY <1>2, <1>3, ProductGrows
<1>5. (little[1] * hop.gives) \div hop.takes <= (much[1] * hop.gives) \div hop.takes
  BY <1>2, <1>4, DivGrows
<1> QED
  BY <1>1, <1>5

\* span is what hops hold after the first c.
Piece(span, hops, c) ==
    /\ span \in Seq(Hops)
    /\ c \in Nat
    /\ c + Len(span) <= Len(hops)
    /\ \A t \in 1 .. Len(span) : span[t] = hops[c + t]

\* A piece of a path that is given no more than the path's quote has there gives
\* no more than the path's quote has after it.
LEMMA PieceGives ==
  ASSUME NEW hops \in Seq(Hops), NEW amount \in Nat, NEW f,
         Threads(f, hops, amount), f[Len(hops)] # None,
         NEW c, NEW span, Piece(span, hops, c),
         NEW x \in Nat, x <= f[c][1], QuotePath(span, x) # None
  PROVE  QuotePath(span, x)[1] <= f[c + Len(span)][1]
<1> DEFINE n == Len(hops)
           m == Len(span)
<1>1. n \in Nat /\ m \in Nat /\ c \in Nat /\ c + m <= n /\ \A i \in 1 .. n : hops[i] \in Hops
  BY DEF Piece
<1>2. PICK h : Threads(h, span, x) /\ QuotePath(span, x) = IF span = <<>> THEN None ELSE h[m]
  BY PathThreads DEF Piece
<1>3. m > 0 /\ h[m] # None /\ QuotePath(span, x) = h[m]
  BY <1>1, <1>2 DEF Piece
<1>4. \A i \in 0 .. n : f[i] \in Sums /\ f[i] # None
  BY ThreadsWhole
<1>5. \A i \in 0 .. m : h[i] \in Sums /\ h[i] # None
  BY <1>2, <1>3, ThreadsWhole DEF Piece
<1>6. \A i \in 1 .. n : f[i] = QuoteHop(hops[i], f[i - 1])
  BY DEF Threads
<1>7. \A t \in 1 .. m : h[t] = QuoteHop(hops[c + t], h[t - 1])
  BY <1>2 DEF Threads, Piece
<1>8. h[0][1] <= f[c][1]
  BY <1>2, OptionParts DEF Threads
<1> HIDE DEF n, m
<1> DEFINE S == {t \in Nat : t <= m => h[t][1] <= f[c + t][1]}
<1>9. 0 \in S
  BY <1>1, <1>8
<1>10. ASSUME NEW t \in Nat, t \in S PROVE t + 1 \in S
  <2> SUFFICES ASSUME t + 1 <= m PROVE h[t + 1][1] <= f[c + (t + 1)][1]
    OBVIOUS
  <2>1. h[t][1] <= f[c + t][1]
    BY <1>1, <1>10
  <2> HIDE DEF S
  <2>2. c + (t + 1) \in 1 .. n /\ (c + (t + 1)) - 1 = c + t /\ c + t \in 0 .. n
        /\ c + (t + 1) \in 0 .. n
    BY <1>1
  <2>3. t + 1 \in 1 .. m /\ (t + 1) - 1 = t /\ t \in 0 .. m /\ t + 1 \in 0 .. m
    BY <1>1
  <2>4. f[c + (t + 1)] = QuoteHop(hops[c + (t + 1)], f[c + t])
    BY <1>6, <2>2
  <2>5. h[t + 1] = QuoteHop(hops[c + (t + 1)], h[t])
    BY <1>7, <2>3
  <2>6. hops[c + (t + 1)] \in Hops
    BY <1>1, <2>2
  <2>7. /\ f[c + t] \in Sums /\ f[c + (t + 1)] # None
        /\ h[t] \in Sums /\ h[t + 1] # None
    BY <1>4, <1>5, <2>2, <2>3
  <2> QED
    BY <2>1, <2>4, <2>5, <2>6, <2>7, HopGrows
<1>11. Nat \subseteq S
  <2> HIDE DEF S
  <2> QED
    BY <1>9, <1>10, Induction
<1> QED
  BY <1>1, <1>3, <1>11 DEF m

-----------------------------------------------------------------------------
(* Spans cut the hops up. *)

\* b bounds the spans g within the first i hops: the j-th begins after the
\* first b[j - 1] and ends with the b[j]-th.
Cuts(b, g, hops, i) ==
    /\ g \in Seq(Seq(Hops))
    /\ b \in [0 .. Len(g) -> 0 .. i]
    /\ b[0] = 0
    /\ b[Len(g)] = i
    /\ \A j \in 1 .. Len(g) :
        /\ b[j] = b[j - 1] + Len(g[j])
        /\ Len(g[j]) > 0
        /\ \A t \in 1 .. Len(g[j]) : g[j][t] = hops[b[j - 1] + t]

LEMMA CutParts ==
  ASSUME NEW hops, NEW i \in Nat, NEW g, NEW b, Cuts(b, g, hops, i), NEW j \in 1 .. Len(g)
  PROVE  /\ g[j] \in Seq(Hops)
         /\ b[j] \in 0 .. i /\ b[j - 1] \in 0 .. i
         /\ b[j] = b[j - 1] + Len(g[j])
         /\ Len(g[j]) \in Nat /\ Len(g[j]) > 0
         /\ \A t \in 1 .. Len(g[j]) : g[j][t] = hops[b[j - 1] + t]
<1>1. g \in Seq(Seq(Hops)) /\ b \in [0 .. Len(g) -> 0 .. i]
  BY DEF Cuts
<1>2. j \in 0 .. Len(g) /\ j - 1 \in 0 .. Len(g)
  BY <1>1
<1>3. g[j] \in Seq(Hops) /\ b[j] \in 0 .. i /\ b[j - 1] \in 0 .. i
  <2>1. g[j] \in Seq(Hops)
    <3>1. \A D : \A s \in Seq(D) : \A k \in 1 .. Len(s) : s[k] \in D
      OBVIOUS
    <3> QED
      BY <1>1, <3>1
  <2>2. b[j] \in 0 .. i /\ b[j - 1] \in 0 .. i
    BY <1>1, <1>2
  <2> QED
    BY <2>1, <2>2
<1>4. Len(g[j]) \in Nat
  BY <1>3
<1> QED
  BY <1>3, <1>4 DEF Cuts

LEMMA ExtendGives ==
  ASSUME NEW g \in Seq(Seq(Hops)), NEW hop \in Hops
  PROVE  /\ Extend(g, hop) \in Seq(Seq(Hops))
         /\ \/ /\ Len(g) > 0
               /\ Extend(g, hop) = [g EXCEPT ![Len(g)] = Append(@, hop)]
            \/ Extend(g, hop) = Append(g, <<hop>>)
<1>1. Append(g, <<hop>>) \in Seq(Seq(Hops))
  OBVIOUS
<1>2. g # <<>> => /\ Len(g) > 0
                  /\ [g EXCEPT ![Len(g)] = Append(@, hop)] \in Seq(Seq(Hops))
  <2> SUFFICES ASSUME g # <<>>
               PROVE  /\ Len(g) > 0
                      /\ [g EXCEPT ![Len(g)] = Append(@, hop)] \in Seq(Seq(Hops))
    OBVIOUS
  <2>1. Len(g) \in 1 .. Len(g) /\ Len(g) > 0
    OBVIOUS
  <2>2. Append(g[Len(g)], hop) \in Seq(Hops)
    BY <2>1
  <2> QED
    BY <2>1, <2>2
<1> QED
  BY <1>1, <1>2 DEF Extend

\* One hop more: the last span grows, or another begins.
LEMMA ExtendCuts ==
  ASSUME NEW hops \in Seq(Hops), NEW i \in Nat, i + 1 <= Len(hops),
         NEW g, NEW b, Cuts(b, g, hops, i)
  PROVE  \E c : Cuts(c, Extend(g, hops[i + 1]), hops, i + 1)
<1> DEFINE hop == hops[i + 1]
           next == Extend(g, hop)
           m == Len(next)
           c == [j \in 0 .. m |-> IF j = m THEN i + 1 ELSE b[j]]
<1>1. hop \in Hops /\ g \in Seq(Seq(Hops)) /\ Len(g) \in Nat
  BY DEF Cuts
<1>2. next \in Seq(Seq(Hops))
  BY <1>1, ExtendGives
<1>3. CASE Len(g) > 0 /\ next = [g EXCEPT ![Len(g)] = Append(@, hop)]
  <2>1. m = Len(g) /\ m > 0
    BY <1>1, <1>3
  <2>2. \A j \in 1 .. m : next[j] = IF j = m THEN Append(g[m], hop) ELSE g[j]
    BY <1>1, <1>3, <2>1
  <2>3. g[m] \in Seq(Hops) /\ b[m] = i /\ b[m - 1] \in 0 .. i /\ i = b[m - 1] + Len(g[m])
        /\ Len(g[m]) \in Nat
    <3>1. m \in 1 .. Len(g)
      BY <1>1, <2>1
    <3>2. b[m] = i
      BY <2>1 DEF Cuts
    <3> HIDE DEF next, m
    <3> QED
      BY <3>1, <3>2, CutParts
  <2>4. /\ Len(next[m]) = Len(g[m]) + 1
        /\ next[m][Len(g[m]) + 1] = hop
        /\ \A t \in 1 .. Len(g[m]) : next[m][t] = g[m][t]
    <3>1. m \in 1 .. m
      BY <1>1, <2>1
    <3> HIDE DEF next, m, hop
    <3>2. next[m] = Append(g[m], hop)
      BY <2>2, <3>1
    <3> QED
      BY <2>3, <3>2
  <2> HIDE DEF next, m, hop
  <2>5. c \in [0 .. m -> 0 .. i + 1] /\ c[0] = 0 /\ c[m] = i + 1
    BY <1>1, <2>1 DEF Cuts
  <2>6. ASSUME NEW j \in 1 .. m
        PROVE  /\ c[j] = c[j - 1] + Len(next[j])
               /\ Len(next[j]) > 0
               /\ \A t \in 1 .. Len(next[j]) : next[j][t] = hops[c[j - 1] + t]
    <3>1. c[j - 1] = b[j - 1] /\ (j # m => c[j] = b[j])
      BY <1>1, <2>1
    <3>2. CASE j # m
      <4>1. next[j] = g[j] /\ j \in 1 .. Len(g)
        BY <2>1, <2>2, <3>2
      <4> HIDE DEF c
      <4> QED
        BY SMTT(30), <3>1, <3>2, <4>1, CutParts
    <3>3. CASE j = m
      <4>1. c[m - 1] = b[m - 1] /\ Len(g[m]) \in Nat
        <5> HIDE DEF c
        <5>1. c[m - 1] = b[m - 1]
          BY <3>1, <3>3
        <5> QED
          BY <2>3, <5>1
      <4>2. c[m] = c[m - 1] + Len(next[m]) /\ Len(next[m]) > 0
        BY SMTT(30), <2>3, <2>4, <2>5, <4>1
      <4>3. \A t \in 1 .. Len(g[m]) : g[m][t] = hops[b[m - 1] + t]
        BY SMTT(30), <2>1 DEF Cuts
      <4>4. hop = hops[b[m - 1] + (Len(g[m]) + 1)]
        <5>1. b[m - 1] + (Len(g[m]) + 1) = i + 1
          BY <2>3, <4>1
        <5> QED
          BY <5>1 DEF hop
      <4>5. \A t \in 1 .. Len(next[m]) : t \in 1 .. Len(g[m]) \/ t = Len(g[m]) + 1
        BY <2>4, <4>1
      <4> QED
        BY <2>4, <3>3, <4>1, <4>2, <4>3, <4>4, <4>5
    <3> QED
      BY <3>2, <3>3
  <2>7. Cuts(c, next, hops, i + 1)
    <3> HIDE DEF c
    <3> QED
      BY <1>2, <2>5, <2>6 DEF Cuts, m
  <2> QED
    BY <2>7 DEF next, hop
<1>4. CASE next = Append(g, <<hop>>)
  <2>1. m = Len(g) + 1 /\ next[m] = <<hop>> /\ \A j \in 1 .. Len(g) : next[j] = g[j]
    BY <1>1, <1>4
  <2> HIDE DEF next, m, hop
  <2>2. c \in [0 .. m -> 0 .. i + 1] /\ c[0] = 0 /\ c[m] = i + 1 /\ c[m - 1] = i
    BY <1>1, <2>1 DEF Cuts
  <2>3. ASSUME NEW j \in 1 .. m
        PROVE  /\ c[j] = c[j - 1] + Len(next[j])
               /\ Len(next[j]) > 0
               /\ \A t \in 1 .. Len(next[j]) : next[j][t] = hops[c[j - 1] + t]
    <3>1. CASE j # m
      <4>1. next[j] = g[j] /\ j \in 1 .. Len(g) /\ c[j - 1] = b[j - 1] /\ c[j] = b[j]
        BY <1>1, <2>1, <3>1
      <4> HIDE DEF c
      <4> QED
        BY <4>1, CutParts
    <3>2. CASE j = m
      <4>1. next[m][1] = hops[c[m - 1] + 1] /\ Len(next[m]) = 1
        BY <2>1, <2>2 DEF hop
      <4>2. \A t \in 1 .. 1 : t = 1
        OBVIOUS
      <4> QED
        BY <2>2, <3>2, <4>1, <4>2
    <3> QED
      BY <3>1, <3>2
  <2>4. Cuts(c, next, hops, i + 1)
    <3> HIDE DEF c
    <3> QED
      BY <1>2, <2>2, <2>3 DEF Cuts, m
  <2> QED
    BY <2>4 DEF next, hop
<1> QED
  BY <1>1, <1>3, <1>4, ExtendGives

LEMMA SpansCut ==
  ASSUME NEW hops \in Seq(Hops)
  PROVE  \E b : Cuts(b, Spans(hops), hops, Len(hops))
<1> DEFINE n == Len(hops)
           D == Seq(Seq(Hops))
           step == [p \in (1 .. n) \X D |-> Extend(p[2], hops[p[1]])]
           Rec(f) == f = [i \in 0 .. n |-> IF i = 0 THEN <<>>
                                           ELSE Extend(f[i - 1], hops[i])]
           grown == CHOOSE f : Rec(f)
<1>1. n \in Nat /\ \A i \in 1 .. n : hops[i] \in Hops
  OBVIOUS
<1>2. step \in Steps(n, D)
  BY <1>1, ExtendGives DEF Steps
<1>3. <<>> \in D
  OBVIOUS
<1>4. \E f : Rec(f)
  <2>1. PICK f : Runs(f, D, <<>>, n, step)
    <3> HIDE DEF step, n, D
    <3> QED
      BY <1>1, <1>2, <1>3, Iterates
  <2>2. \A i \in 1 .. n : step[<<i, f[i - 1]>>] = Extend(f[i - 1], hops[i])
    <3>1. \A i \in 1 .. n : f[i - 1] \in D
      <4> HIDE DEF step, D
      <4> QED
        BY <1>1, <2>1 DEF Runs
    <3> HIDE DEF D, n
    <3> QED
      BY <3>1
  <2>3. \A i \in 0 .. n : f[i] = IF i = 0 THEN <<>> ELSE Extend(f[i - 1], hops[i])
    <3>1. \A i \in 0 .. n : i = 0 \/ i \in 1 .. n
      OBVIOUS
    <3> HIDE DEF step, n, D
    <3> QED
      BY <2>1, <2>2, <3>1 DEF Runs
  <2>4. Rec(f)
    <3> HIDE DEF step, n, D
    <3> QED
      BY <2>1, <2>3 DEF Runs
  <2> QED
    BY <2>4
<1>5. Rec(grown)
  <2> HIDE DEF Rec
  <2> QED
    BY <1>4
<1>6. \A i \in 0 .. n : grown[i] = IF i = 0 THEN <<>> ELSE Extend(grown[i - 1], hops[i])
  <2> HIDE DEF n, grown
  <2> QED
    BY <1>5
<1>7. Spans(hops) = grown[n]
  BY DEF Spans
<1> HIDE DEF step, Rec, grown, n, D
<1> DEFINE S == {i \in Nat : i <= n => \E b : Cuts(b, grown[i], hops, i)}
<1>8. 0 \in S
  <2> DEFINE b == [j \in 0 .. 0 |-> 0]
  <2>1. grown[0] = <<>>
    BY <1>1, <1>6
  <2>2. Cuts(b, <<>>, hops, 0)
    BY DEF Cuts
  <2> QED
    BY <2>1, <2>2
<1>9. ASSUME NEW i \in Nat, i \in S PROVE i + 1 \in S
  <2> SUFFICES ASSUME i + 1 <= n PROVE \E b : Cuts(b, grown[i + 1], hops, i + 1)
    OBVIOUS
  <2>1. PICK b : Cuts(b, grown[i], hops, i)
    BY <1>1, <1>9
  <2> HIDE DEF S
  <2>2. i + 1 \in 0 .. n /\ i + 1 # 0 /\ (i + 1) - 1 = i
    BY <1>1
  <2>3. grown[i + 1] = Extend(grown[i], hops[i + 1])
    BY <1>6, <2>2
  <2> QED
    BY <2>1, <2>3, ExtendCuts DEF n
<1>10. Nat \subseteq S
  <2> HIDE DEF S
  <2> QED
    BY <1>8, <1>9, Induction
<1> QED
  BY <1>1, <1>7, <1>10 DEF n

-----------------------------------------------------------------------------
(* The transactions of a plan. *)

Txs == [input : Nat, quoted : Nat, min_received : Nat]

\* One turn of the loop adds a transaction for its span, or fails.
LEMMA NextGives ==
  ASSUME NEW T \in Seq(Txs), NEW span \in Seq(Hops), NEW amount \in Nat,
         NextTx(T, span, amount) # None
  PROVE  \E tx \in Txs :
            /\ NextTx(T, span, amount) = <<Append(T, tx)>>
            /\ tx.input = Observed(T, amount)
            /\ QuotePath(span, tx.input) = <<tx.quoted>>
            /\ tx.min_received = Floored(tx.quoted)
<1> DEFINE x == Observed(T, amount)
           q == QuotePath(span, x)
           tx == [input |-> x, quoted |-> q[1], min_received |-> Floored(q[1])]
<1>1. x \in Nat
  <2>1. CASE T = <<>>
    BY <2>1 DEF Observed
  <2>2. CASE T # <<>>
    <3>1. T[Len(T)] \in Txs
      <4>1. Len(T) \in 1 .. Len(T)
        BY <2>2
      <4> QED
        BY <4>1
    <3>2. x = T[Len(T)].min_received
      BY <2>2 DEF Observed, Last
    <3>3. \A t \in Txs : t.min_received \in Nat
      BY DEF Txs
    <3> QED
      BY <3>1, <3>2, <3>3
  <2> QED
    BY <2>1, <2>2
<1>2. q # None
  <2> SUFFICES ASSUME q = None PROVE FALSE
    OBVIOUS
  <2>1. Prepared(span, x) = None
    BY DEF Prepared
  <2> QED
    BY <2>1 DEF NextTx
<1>3. q = <<q[1]>> /\ q[1] \in Nat
  <2> HIDE DEF x
  <2> QED
    BY <1>1, <1>2, PathGives
<1>4. Floored(q[1]) \in Nat
  <2> HIDE DEF q
  <2> QED
    BY <1>3, FloorOf
<1>5. NextTx(T, span, amount) = <<Append(T, tx)>>
  <2>1. Prepared(span, x) = <<tx>>
    BY <1>2 DEF Prepared
  <2>2. <<tx>> # None /\ <<tx>>[1] = tx
    BY OptionParts
  <2> HIDE DEF tx
  <2> QED
    BY <2>1, <2>2 DEF NextTx
<1>6. tx \in Txs /\ tx.input = x /\ tx.quoted = q[1] /\ tx.min_received = Floored(q[1])
  <2> HIDE DEF x, q
  <2> QED
    BY <1>1, <1>3, <1>4 DEF Txs
<1>7. QuotePath(span, tx.input) = <<tx.quoted>>
  <2> HIDE DEF tx
  <2> QED
    BY <1>3, <1>6
<1> HIDE DEF tx
<1> QED
  BY <1>5, <1>6, <1>7

\* The first k transactions, each given what the one before it is sure to give.
Chained(T, spans, amount, k) ==
    /\ T \in Seq(Txs)
    /\ Len(T) = k
    /\ \A j \in 1 .. k :
        /\ QuotePath(spans[j], T[j].input) = <<T[j].quoted>>
        /\ T[j].min_received = Floored(T[j].quoted)
        /\ T[j].input = IF j = 1 THEN amount ELSE T[j - 1].min_received

LEMMA NextChains ==
  ASSUME NEW spans \in Seq(Seq(Hops)), NEW amount \in Nat, NEW k \in Nat,
         k + 1 <= Len(spans), NEW T, Chained(T, spans, amount, k),
         NextTx(T, spans[k + 1], amount) # None
  PROVE  \E U : /\ NextTx(T, spans[k + 1], amount) = <<U>>
                /\ Chained(U, spans, amount, k + 1)
<1>1. T \in Seq(Txs) /\ Len(T) = k
  BY DEF Chained
<1>2. spans[k + 1] \in Seq(Hops)
  <2>1. k + 1 \in 1 .. Len(spans)
    OBVIOUS
  <2> QED
    BY <2>1
<1>3. PICK tx \in Txs :
        /\ NextTx(T, spans[k + 1], amount) = <<Append(T, tx)>>
        /\ tx.input = Observed(T, amount)
        /\ QuotePath(spans[k + 1], tx.input) = <<tx.quoted>>
        /\ tx.min_received = Floored(tx.quoted)
  BY <1>1, <1>2, NextGives
<1>4. tx.input = IF k + 1 = 1 THEN amount ELSE T[(k + 1) - 1].min_received
  BY <1>1, <1>3 DEF Observed, Last
<1> DEFINE U == Append(T, tx)
<1>5. /\ U \in Seq(Txs) /\ Len(U) = k + 1 /\ U[k + 1] = tx
      /\ \A j \in 1 .. k : U[j] = T[j]
  BY <1>1
<1> HIDE DEF U
<1>6. ASSUME NEW j \in 1 .. k + 1
      PROVE  /\ QuotePath(spans[j], U[j].input) = <<U[j].quoted>>
             /\ U[j].min_received = Floored(U[j].quoted)
             /\ U[j].input = IF j = 1 THEN amount ELSE U[j - 1].min_received
  <2>1. CASE j \in 1 .. k
    <3>1. U[j] = T[j] /\ (j # 1 => U[j - 1] = T[j - 1])
      BY <1>5, <2>1
    <3> QED
      BY <2>1, <3>1 DEF Chained
  <2>2. CASE j = k + 1
    <3>1. j # 1 => U[j - 1] = T[(k + 1) - 1]
      BY <1>5, <2>2
    <3> QED
      BY <1>3, <1>4, <1>5, <2>2, <3>1
  <2>3. j \in 1 .. k \/ j = k + 1
    OBVIOUS
  <2> QED
    BY <2>1, <2>2, <2>3
<1>7. Chained(U, spans, amount, k + 1)
  BY <1>5, <1>6 DEF Chained
<1> QED
  BY <1>3, <1>7 DEF U

LEMMA TransactionsChain ==
  ASSUME NEW spans \in Seq(Seq(Hops)), NEW amount \in Nat,
         Transactions(spans, amount) # None
  PROVE  \E T : /\ Transactions(spans, amount) = <<T>>
                /\ Chained(T, spans, amount, Len(spans))
<1> DEFINE n == Len(spans)
           Turn(s, k) == IF s = None THEN None ELSE NextTx(s[1], spans[k], amount)
           D == {None} \cup {<<T>> : T \in Seq(Txs)}
           step == [p \in (1 .. n) \X D |-> Turn(p[2], p[1])]
           Rec(f) == f = [k \in 0 .. n |->
                            IF k = 0 THEN << <<>> >>
                            ELSE IF f[k - 1] = None THEN None
                            ELSE NextTx(f[k - 1][1], spans[k], amount)]
           sofar == CHOOSE f : Rec(f)
<1>1. n \in Nat /\ \A k \in 1 .. n : spans[k] \in Seq(Hops)
  OBVIOUS
<1>2. ASSUME NEW k \in 1 .. n, NEW s \in D PROVE Turn(s, k) \in D
  <2>1. CASE s = None
    BY <2>1
  <2>2. ASSUME NEW T \in Seq(Txs), s = <<T>> PROVE Turn(s, k) \in D
    <3>1. Turn(s, k) = NextTx(T, spans[k], amount)
      BY <2>2, OptionParts
    <3>2. spans[k] \in Seq(Hops)
      BY <1>1
    <3>3. NextTx(T, spans[k], amount) # None =>
            \E tx \in Txs : NextTx(T, spans[k], amount) = <<Append(T, tx)>>
      <4> HIDE DEF n
      <4> QED
        BY <3>2, NextGives
    <3>4. \A tx \in Txs : Append(T, tx) \in Seq(Txs)
      OBVIOUS
    <3> HIDE DEF Turn
    <3> QED
      BY <3>1, <3>3, <3>4
  <2> HIDE DEF Turn
  <2> QED
    BY <2>1, <2>2
<1>3. step \in Steps(n, D)
  <2> HIDE DEF Turn, n, D
  <2> QED
    BY <1>2 DEF Steps
<1>4. << <<>> >> \in D
  <2>1. <<>> \in Seq(Txs)
    OBVIOUS
  <2> QED
    BY <2>1
<1>5. \E f : Rec(f)
  <2>1. PICK f : Runs(f, D, << <<>> >>, n, step)
    <3> HIDE DEF step, n, D
    <3> QED
      BY <1>1, <1>3, <1>4, Iterates
  <2>2. \A k \in 1 .. n : step[<<k, f[k - 1]>>] = Turn(f[k - 1], k)
    <3>1. \A k \in 1 .. n : f[k - 1] \in D
      <4> HIDE DEF step, D, n
      <4> QED
        BY <1>1, <2>1 DEF Runs
    <3> HIDE DEF D, n, Turn
    <3> QED
      BY <3>1
  <2>3. \A k \in 0 .. n : f[k] = IF k = 0 THEN << <<>> >> ELSE Turn(f[k - 1], k)
    <3>1. \A k \in 0 .. n : k = 0 \/ k \in 1 .. n
      OBVIOUS
    <3> HIDE DEF step, n, D, Turn
    <3> QED
      BY <2>1, <2>2, <3>1 DEF Runs
  <2>4. f = [k \in 0 .. n |-> f[k]]
    <3> HIDE DEF step, n, D
    <3> QED
      BY <2>1 DEF Runs
  <2>5. Rec(f)
    BY <2>3, <2>4
  <2> QED
    BY <2>5
<1>6. Rec(sofar)
  <2> HIDE DEF Rec
  <2> QED
    BY <1>5
<1>7. \A k \in 0 .. n : sofar[k] = IF k = 0 THEN << <<>> >>
                                     ELSE Turn(sofar[k - 1], k)
  <2> HIDE DEF n, sofar
  <2> QED
    BY <1>6
<1>8. Transactions(spans, amount) = sofar[n]
  BY DEF Transactions
<1> HIDE DEF step, Rec, sofar, n, D
<1> DEFINE Holds(s, k) == s = None \/ \E T : s = <<T>> /\ Chained(T, spans, amount, k)
           S == {k \in Nat : k <= n => Holds(sofar[k], k)}
<1>9. 0 \in S
  <2>1. sofar[0] = << <<>> >>
    BY <1>1, <1>7
  <2>2. Chained(<<>>, spans, amount, 0)
    BY DEF Chained
  <2> QED
    BY <2>1, <2>2
<1>10. ASSUME NEW k \in Nat, k \in S PROVE k + 1 \in S
  <2> SUFFICES ASSUME k + 1 <= n PROVE Holds(sofar[k + 1], k + 1)
    OBVIOUS
  <2>1. Holds(sofar[k], k)
    BY <1>1, <1>10
  <2> HIDE DEF S
  <2>2. k + 1 \in 0 .. n /\ k + 1 # 0 /\ (k + 1) - 1 = k
    BY <1>1
  <2> HIDE DEF Turn
  <2>3. sofar[k + 1] = Turn(sofar[k], k + 1)
    BY <1>7, <2>2
  <2>4. CASE sofar[k] = None
    BY <2>3, <2>4 DEF Turn
  <2>5. CASE sofar[k] # None
    <3>1. PICK T : sofar[k] = <<T>> /\ Chained(T, spans, amount, k)
      BY <2>1, <2>5
    <3>2. Turn(sofar[k], k + 1) = NextTx(T, spans[k + 1], amount)
      BY <3>1, OptionParts DEF Turn
    <3>3. NextTx(T, spans[k + 1], amount) # None =>
            \E U : /\ NextTx(T, spans[k + 1], amount) = <<U>>
                   /\ Chained(U, spans, amount, k + 1)
      BY <3>1, NextChains DEF n
    <3> QED
      BY <2>3, <3>2, <3>3
  <2> QED
    BY <2>4, <2>5
<1>11. Nat \subseteq S
  <2> HIDE DEF S
  <2> QED
    BY <1>9, <1>10, Induction
<1>12. Holds(sofar[n], n)
  BY <1>1, <1>11
<1> QED
  BY <1>8, <1>12 DEF n

\* No transaction is given, or quoted, more than the quote of the whole path has
\* where its span begins, or ends.
LEMMA ChainBelowPath ==
  ASSUME NEW hops \in Seq(Hops), NEW amount \in Nat, NEW f,
         Threads(f, hops, amount), f[Len(hops)] # None,
         NEW g, NEW b, Cuts(b, g, hops, Len(hops)),
         NEW T, Chained(T, g, amount, Len(g))
  PROVE  \A j \in 1 .. Len(g) : T[j].input <= f[b[j - 1]][1] /\ T[j].quoted <= f[b[j]][1]
<1> DEFINE n == Len(hops)
           m == Len(g)
           S == {i \in Nat : i + 1 <= m =>
                    T[i + 1].input <= f[b[i]][1] /\ T[i + 1].quoted <= f[b[i + 1]][1]}
<1>1. n \in Nat /\ m \in Nat
  BY DEF Cuts
<1>2. \A i \in 0 .. n : f[i] # None /\ f[i][1] \in Nat
  <2>1. \A i \in 0 .. n : f[i] \in Sums /\ f[i] # None
    BY ThreadsWhole
  <2> QED
    BY <2>1, OptionParts
<1>3. \A j \in 1 .. m : T[j].input \in Nat /\ T[j].quoted \in Nat
  <2>1. \A j \in 1 .. m : T[j] \in Txs
    BY <1>1 DEF Chained
  <2> QED
    BY <2>1 DEF Txs
<1> HIDE DEF n, m
\* A transaction given no more than the path has there is quoted no more.
<1>4. ASSUME NEW j \in 1 .. m, T[j].input <= f[b[j - 1]][1]
      PROVE  T[j].quoted <= f[b[j]][1]
  <2>1. /\ g[j] \in Seq(Hops)
        /\ b[j] \in 0 .. n /\ b[j - 1] \in 0 .. n
        /\ b[j] = b[j - 1] + Len(g[j])
        /\ \A t \in 1 .. Len(g[j]) : g[j][t] = hops[b[j - 1] + t]
    <3>1. Len(hops) \in Nat /\ j \in 1 .. Len(g)
      BY <1>1 DEF m, n
    <3>2. /\ g[j] \in Seq(Hops)
          /\ b[j] \in 0 .. Len(hops) /\ b[j - 1] \in 0 .. Len(hops)
          /\ b[j] = b[j - 1] + Len(g[j])
      BY <3>1, CutParts
    <3>3. \A t \in 1 .. Len(g[j]) : g[j][t] = hops[b[j - 1] + t]
      BY <3>1, CutParts
    <3> QED
      BY <3>2, <3>3 DEF n
  <2>2. Piece(g[j], hops, b[j - 1])
    BY SMTT(30), <1>1, <2>1 DEF Piece, n
  <2>3. QuotePath(g[j], T[j].input) = <<T[j].quoted>>
    BY DEF Chained, m
  <2>4. QuotePath(g[j], T[j].input)[1] <= f[b[j - 1] + Len(g[j])][1]
    BY <1>3, <1>4, <2>2, <2>3, OptionParts, PieceGives
  <2> QED
    BY <2>1, <2>3, <2>4, OptionParts
<1>5. 0 \in S
  <2> SUFFICES ASSUME 1 <= m PROVE T[1].input <= f[b[0]][1] /\ T[1].quoted <= f[b[1]][1]
    OBVIOUS
  <2>1. 1 \in 1 .. m /\ 1 - 1 = 0
    BY <1>1
  <2>2. T[1].input = amount
    BY <2>1 DEF Chained, m
  <2>3. b[0] = 0 /\ f[0] = <<amount>>
    BY DEF Cuts, Threads
  <2>4. T[1].input <= f[b[0]][1]
    BY <2>2, <2>3, OptionParts
  <2> QED
    BY <1>4, <2>1, <2>4
<1>6. ASSUME NEW i \in Nat, i \in S PROVE i + 1 \in S
  <2> SUFFICES ASSUME i + 2 <= m
               PROVE  T[i + 2].input <= f[b[i + 1]][1] /\ T[i + 2].quoted <= f[b[i + 2]][1]
    OBVIOUS
  <2>1. T[i + 1].quoted <= f[b[i + 1]][1]
    BY <1>1, <1>6
  <2> HIDE DEF S
  <2>2. i + 1 \in 1 .. m /\ i + 2 \in 1 .. m /\ (i + 2) - 1 = i + 1 /\ i + 2 # 1
    BY <1>1
  <2>3. T[i + 2].input = T[i + 1].min_received
        /\ T[i + 1].min_received = Floored(T[i + 1].quoted)
    BY <2>2 DEF Chained, m
  <2>4. T[i + 1].quoted \in Nat /\ T[i + 2].input \in Nat
    BY <1>3, <2>2
  <2>5. Floored(T[i + 1].quoted) \in Nat /\ Floored(T[i + 1].quoted) <= T[i + 1].quoted
    <3>1. \A x \in Nat : x <= x
      OBVIOUS
    <3> QED
      BY <2>4, <3>1, FloorOf
  <2>6. f[b[i + 1]][1] \in Nat
    <3>1. b[i + 1] \in 0 .. n
      BY <1>1, <2>2, CutParts DEF m, n
    <3> QED
      BY <1>2, <3>1
  <2>7. T[i + 2].input <= f[b[i + 1]][1]
    BY <2>1, <2>3, <2>4, <2>5, <2>6
  <2> QED
    BY <1>4, <2>2, <2>7
<1>7. Nat \subseteq S
  <2> HIDE DEF S
  <2> QED
    BY <1>5, <1>6, Induction
<1> QED
  <2> TAKE j \in 1 .. Len(g)
  <2>1. j - 1 \in Nat /\ (j - 1) + 1 = j /\ j <= m
    BY <1>1 DEF m
  <2> QED
    BY <1>7, <2>1

-----------------------------------------------------------------------------
(* The invariant of a build. *)

\* Nothing moves once an opportunity is reported, so its plan stays the one for
\* the input, and the quote, it was reported with.
PlanInv == plan # None => pc = "reported" /\ plan = PlanOf(path.hops, input)

\* What is true of a plan for the quote that was reported.
PlanHolds(made, in, out) ==
    LET txs == made[1].transactions
        promised == txs[Len(txs)].min_received
    IN  /\ Len(txs) > 0
        /\ txs[1].input = in
        /\ \A k \in 2 .. Len(txs) : txs[k].input <= txs[k - 1].min_received
        /\ promised <= Floored(out)
        /\ made[1].atomic <=> Len(txs) = 1
        /\ made[1].atomic => promised = Floored(out)

LEMMA PlanIsSound ==
  ASSUME NEW hops \in Seq(Hops), NEW in \in Nat, NEW out \in Nat,
         QuotePath(hops, in) = <<out>>, PlanOf(hops, in) # None
  PROVE  PlanHolds(PlanOf(hops, in), in, out)
<1> DEFINE n == Len(hops)
           g == Spans(hops)
           m == Len(g)
<1>1. PICK f : /\ Threads(f, hops, in)
               /\ QuotePath(hops, in) = IF hops = <<>> THEN None ELSE f[n]
  BY PathThreads
<1>2. hops # <<>> /\ n \in Nat /\ n > 0 /\ f[n] = <<out>> /\ f[n] # None /\ f[n][1] = out
  BY <1>1, OptionParts
<1>3. PICK b : Cuts(b, g, hops, n)
  BY SpansCut
<1>4. g \in Seq(Seq(Hops)) /\ m \in Nat /\ b[0] = 0 /\ b[m] = n /\ m > 0
  BY <1>2, <1>3 DEF Cuts
<1>5. Transactions(g, in) # None
        /\ PlanOf(hops, in) = <<[atomic |-> m = 1, transactions |-> Transactions(g, in)[1]]>>
  BY DEF PlanOf
<1>6. PICK T : Transactions(g, in) = <<T>> /\ Chained(T, g, in, m)
  <2> HIDE DEF g
  <2> QED
    BY <1>4, <1>5, TransactionsChain
<1> DEFINE made == [atomic |-> m = 1, transactions |-> T]
<1>7. PlanOf(hops, in)[1] = made /\ made.atomic = (m = 1) /\ made.transactions = T
  BY <1>5, <1>6, OptionParts
<1> HIDE DEF made
<1>8. T[m].quoted <= out /\ T[m].quoted \in Nat /\ T[m].min_received = Floored(T[m].quoted)
  <2> HIDE DEF n, g, m
  <2>1. m \in 1 .. m
    BY <1>4
  <2>2. T[m].quoted <= f[b[m]][1]
    BY <1>1, <1>2, <1>3, <1>6, <2>1, ChainBelowPath DEF n, m
  <2>3. T[m] \in Txs
    BY <1>4, <1>6, <2>1 DEF Chained
  <2> QED
    BY <1>2, <1>4, <1>6, <2>1, <2>2, <2>3 DEF Chained, Txs
<1>9. ASSUME m = 1 PROVE T[m].quoted = out
  <2>1. g[1] = hops
    <3>1. /\ g[1] \in Seq(Hops) /\ b[1] = b[0] + Len(g[1])
          /\ \A t \in 1 .. Len(g[1]) : g[1][t] = hops[b[0] + t]
      <4>1. 1 \in 1 .. Len(g) /\ 1 - 1 = 0
        BY <1>9
      <4> QED
        BY <1>2, <1>3, <4>1, CutParts
    <3>2. Len(g[1]) = Len(hops)
      BY <1>4, <1>9, <3>1
    <3>3. \A t \in 1 .. Len(hops) : g[1][t] = hops[t]
      BY <1>4, <3>1, <3>2
    <3> HIDE DEF g
    <3> QED
      BY SMTT(30), <3>1, <3>2, <3>3
  <2>2. QuotePath(g[1], T[1].input) = <<T[1].quoted>> /\ T[1].input = in
    BY <1>4, <1>6, <1>9 DEF Chained
  <2>3. \A x, y : <<x>> = <<y>> => x = y
    OBVIOUS
  <2> QED
    BY <1>9, <2>1, <2>2, <2>3
<1> HIDE DEF g, m, n
<1>10. Len(T) = m /\ T[1].input = in
       /\ \A k \in 2 .. m : T[k].input = T[k - 1].min_received /\ T[k].input \in Nat
  <2>1. Len(T) = m /\ T[1].input = in
    BY <1>4, <1>6 DEF Chained
  <2>2. \A k \in 2 .. m : T[k].input = T[k - 1].min_received
    BY <1>4, <1>6 DEF Chained
  <2>3. \A k \in 2 .. m : T[k] \in Txs
    BY <1>4, <1>6 DEF Chained
  <2> QED
    BY <2>1, <2>2, <2>3 DEF Txs
<1>11. T[m].min_received <= Floored(out) /\ (m = 1 => T[m].min_received = Floored(out))
  BY <1>8, <1>9, FloorOf
<1>12. \A k \in 2 .. m : T[k].input <= T[k - 1].min_received
  <2>1. \A x \in Nat : x <= x
    OBVIOUS
  <2> QED
    BY <1>10, <2>1
<1> DEFINE P == PlanOf(hops, in)
<1>13. P[1].transactions = T /\ (P[1].atomic <=> Len(T) = 1)
  BY <1>7, <1>10
<1> HIDE DEF P
<1>14. PlanHolds(P, in, out)
  BY <1>4, <1>10, <1>11, <1>12, <1>13, Zenon DEF PlanHolds
<1> QED
  BY <1>14 DEF P

\* Enriching an opportunity leaves its evaluation alone.
THEOREM ExecutorRunsEvaluation == ExecSpec => Spec
<1>1. ExecInit => Init
  BY DEF ExecInit
<1>2. [ExecNext]_<<vars, execVars>> => [Next]_vars
  BY DEF ExecNext, Build
<1> QED
  BY <1>1, <1>2, PTL DEF ExecSpec, Spec

LEMMA PlanStays == EvalInv /\ PlanInv /\ [ExecNext]_<<vars, execVars>> => PlanInv'
<1> SUFFICES ASSUME EvalInv, PlanInv, [ExecNext]_<<vars, execVars>> PROVE PlanInv'
  OBVIOUS
<1>1. CASE Build
  BY <1>1 DEF Build, PlanInv, PlanOf, vars, None
<1>2. CASE Next /\ UNCHANGED execVars
  <2>1. pc # "reported"
    BY <1>2 DEF Next, Step, Size, Gain, Cost, Value, Base, Decide, Reprice
  <2> QED
    BY <1>2, <2>1 DEF PlanInv, execVars
<1>3. CASE UNCHANGED <<vars, execVars>>
  BY <1>3 DEF PlanInv, vars, execVars
<1> QED
  BY <1>1, <1>2, <1>3 DEF ExecNext

THEOREM PlanInvariant == ExecSpec => [](EvalInv /\ PlanInv)
<1>1. ExecSpec => []EvalInv
  BY ExecutorRunsEvaluation, EvalInvariant, PTL
<1>2. ExecInit => PlanInv
  BY DEF ExecInit, PlanInv
<1> QED
  BY <1>1, <1>2, PlanStays, PTL DEF ExecSpec

LEMMA PlanIs ==
  ASSUME EvalInv, PlanInv, plan # None
  PROVE  PlanHolds(plan, input, output)
<1>1. pc = "reported" /\ plan = PlanOf(path.hops, input)
  BY DEF PlanInv
<1>2. QuotePath(path.hops, input) = <<output>>
  BY <1>1 DEF EvalInv, SizedOnce, Sized
<1>3. path.hops \in Seq(Hops) /\ input \in Nat /\ output \in Nat
  BY PathEnds DEF EvalInv, EvalTypes
<1> QED
  BY <1>1, <1>2, <1>3, PlanIsSound

\* However long the route and however many its routers, no transaction asks for
\* more than the one before it is sure to deliver.
THEOREM PlansAreFunded == ExecSpec => []PlanIsFunded
<1>1. EvalInv /\ PlanInv => PlanIsFunded
  BY PlanIs DEF PlanIsFunded, PlanHolds
<1> QED
  BY <1>1, PlanInvariant, PTL

\* However long the route and however many its routers, a plan promises no more
\* than the tolerance leaves of the reported output.
THEOREM PlansKeepPromise == ExecSpec => []PlanKeepsPromise
<1>1. EvalInv /\ PlanInv => PlanKeepsPromise
  BY PlanIs DEF PlanKeepsPromise, PlanHolds, Last
<1> QED
  BY <1>1, PlanInvariant, PTL
================================================================================
