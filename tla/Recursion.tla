------------------------------- MODULE Recursion -------------------------------
(***************************************************************************)
(* Induction over the numbers, and the recursive functions it gives. A set  *)
(* stands for the predicate and a function for the step, so a proof cites    *)
(* these lemmas like any other: no operator has to be instantiated.         *)
(***************************************************************************)
EXTENDS Integers, SequencesExt, WellFoundedInduction, TLAPS

\* Some number of a set of numbers is the least.
LEMMA Least ==
  ASSUME NEW S \in SUBSET Nat, S # {}
  PROVE  \E m \in S : \A k \in S : m <= k
<1> DEFINE less == OpToRel(<, Nat)
<1>1. IsWellFoundedOn(less, Nat)
  BY NatLessThanWellFounded
<1>2. \A y, z \in Nat : <<y, z>> \in less <=> y < z
  BY DEF OpToRel
<1> HIDE DEF less
<1>3. PICK m \in S : \A k \in S : ~(<<k, m>> \in less)
  BY <1>1, WFMin
<1>4. \A k \in S : m <= k
  <2> TAKE k \in S
  <2>1. ~(k < m)
    BY <1>2, <1>3
  <2> QED
    BY <2>1
<1> QED
  BY <1>4

\* A set with 0 and the successor of each of its numbers holds all of them.
LEMMA Induction ==
  ASSUME NEW S, 0 \in S, \A n \in Nat : n \in S => n + 1 \in S
  PROVE  Nat \subseteq S
<1> SUFFICES ASSUME NEW x \in Nat \ S PROVE FALSE
  OBVIOUS
<1> DEFINE Others == Nat \ S
<1>1. PICK m \in Others : \A k \in Others : m <= k
  <2>1. Others \in SUBSET Nat /\ Others # {}
    OBVIOUS
  <2> HIDE DEF Others
  <2> QED
    BY <2>1, Least
<1>2. m # 0 /\ m - 1 \in Nat /\ m - 1 \in S
  BY <1>1
<1> QED
  BY <1>1, <1>2

\* The steps of a recursion over 1 .. n with values in D, and a function that
\* takes them one after the other from b.
Steps(n, D) == [(1 .. n) \X D -> D]

Runs(f, D, b, n, step) ==
    /\ f \in [0 .. n -> D]
    /\ f[0] = b
    /\ \A i \in 1 .. n : f[i] = step[<<i, f[i - 1]>>]

\* What a recursive function over 0 .. n computes exists, and has the type that
\* its steps have.
LEMMA Iterates ==
  ASSUME NEW D, NEW b \in D, NEW n \in Nat, NEW step \in Steps(n, D)
  PROVE  \E f : Runs(f, D, b, n, step)
<1> DEFINE Run(f, m) == Runs(f, D, b, m, step)
           S == {m \in Nat : m <= n => \E f : Run(f, m)}
<1> USE DEF Runs, Steps
<1>1. 0 \in S
  <2> DEFINE f == [i \in 0 .. 0 |-> b]
  <2>1. Run(f, 0)
    OBVIOUS
  <2> QED
    BY <2>1
<1>2. ASSUME NEW m \in Nat, m \in S PROVE m + 1 \in S
  <2> SUFFICES ASSUME m + 1 <= n PROVE \E f : Run(f, m + 1)
    OBVIOUS
  <2>1. PICK f : Run(f, m)
    BY <1>2
  <2> DEFINE g == [i \in 0 .. m + 1 |-> IF i <= m THEN f[i] ELSE step[<<m + 1, f[m]>>]]
  <2>2. step[<<m + 1, f[m]>>] \in D
    BY <2>1
  <2>3. g \in [0 .. m + 1 -> D] /\ g[0] = b
    BY <2>1, <2>2
  <2>4. ASSUME NEW i \in 1 .. m + 1 PROVE g[i] = step[<<i, g[i - 1]>>]
    <3>1. i - 1 \in 0 .. m /\ i \in 0 .. m + 1 /\ (~(i <= m) => i = m + 1)
      OBVIOUS
    <3>2. g[i - 1] = f[i - 1] /\ g[i] = IF i <= m THEN f[i] ELSE step[<<m + 1, f[m]>>]
      BY <3>1
    <3>3. CASE i <= m
      <4>1. i \in 1 .. m
        BY <3>3
      <4> QED
        BY <2>1, <3>2, <3>3, <4>1
    <3>4. CASE i = m + 1
      <4>1. i - 1 = m /\ ~(i <= m)
        BY <3>4
      <4> QED
        BY <3>2, <3>4, <4>1
    <3> QED
      BY <3>1, <3>3, <3>4
  <2> QED
    BY <2>3, <2>4
<1>3. Nat \subseteq S
  <2> HIDE DEF S
  <2> QED
    BY <1>1, <1>2, Induction
<1> QED
  BY <1>3

-----------------------------------------------------------------------------
(* Flattened sequences. *)

\* Where the blocks of a flattened sequence lie: block i of `seqs` is in `flat`
\* behind b[i - 1], and ends at b[i].
Joins(flat, seqs, b) ==
  /\ b \in [0 .. Len(seqs) -> Nat]
  /\ b[0] = 0 /\ b[Len(seqs)] = Len(flat)
  /\ \A i \in 1 .. Len(seqs) : b[i] = b[i - 1] + Len(seqs[i])
  /\ \A i \in 1 .. Len(seqs) : \A j \in 1 .. Len(seqs[i]) :
        flat[b[i - 1] + j] = seqs[i][j]

\* What \o puts where.
LEMMA ConcatLies ==
  ASSUME NEW T, NEW s \in Seq(T), NEW t \in Seq(T)
  PROVE  /\ s \o t \in Seq(T)
         /\ Len(s \o t) = Len(s) + Len(t)
         /\ Len(s) \in Nat /\ Len(t) \in Nat
         /\ \A p \in 1 .. Len(s) : (s \o t)[p] = s[p]
         /\ \A p \in 1 .. Len(t) : (s \o t)[Len(s) + p] = t[p]
         /\ <<>> \o s = s
  OBVIOUS

\* A position of a block is behind the blocks before it, and not behind it.
LEMMA InBlock ==
  ASSUME NEW before \in Nat, NEW length \in Nat, NEW end, end = before + length,
         NEW j \in 1 .. length
  PROVE  /\ before + j \in Nat
         /\ before < before + j
         /\ before + j <= end
  OBVIOUS

\* What lies between two numbers, and before one behind.
LEMMA Before ==
  ASSUME NEW p \in Nat, NEW v \in Nat, NEW w \in Nat, NEW q \in Nat,
         p <= v, v <= w, w < q
  PROVE  p < q
  OBVIOUS

LEMMA Between ==
  ASSUME NEW u \in Nat, NEW p \in Nat, NEW v \in Nat, NEW w \in Nat,
         u < p, p <= v, v <= w
  PROVE  p \in 1 .. w
  OBVIOUS

\* Places behind the first of a block.
LEMMA Behind ==
  ASSUME NEW x \in Nat, NEW end \in Nat, NEW j \in 1 .. end
  PROVE  /\ x + (1 + j) # x + 1
         /\ x + 1 \in 1 .. (x + (1 + j)) - 1
         /\ \A l \in 1 .. j - 1 : /\ x + (1 + l) \in 1 .. (x + (1 + j)) - 1
                                   /\ l \in 1 .. end
<1>1. j \in Nat /\ j >= 1
  OBVIOUS
<1>2. \A l \in 1 .. j - 1 : l \in 1 .. end
  OBVIOUS
<1> QED
  BY <1>1, <1>2

\* FlattenSeq goes through its argument once and appends each block.
LEMMA FlattenAppends ==
  ASSUME NEW T, NEW seqs \in Seq(Seq(T))
  PROVE  \E f : /\ f \in [0 .. Len(seqs) -> Seq(T)]
                /\ f[0] = <<>>
                /\ \A i \in 1 .. Len(seqs) : f[i] = f[i - 1] \o seqs[i]
                /\ FlattenSeq(seqs) = f[Len(seqs)]
<1> DEFINE n == Len(seqs)
           D == Seq(T)
           step == [p \in (1 .. n) \X D |-> p[2] \o seqs[p[1]]]
           Rec(f) == f = [i \in 1 .. n |-> IF i = 1 THEN seqs[i] ELSE f[i - 1] \o seqs[i]]
           flatten == CHOOSE f : Rec(f)
<1>1. n \in Nat /\ \A i \in 1 .. n : seqs[i] \in D
  OBVIOUS
<1>2. step \in Steps(n, D)
  BY <1>1 DEF Steps
<1>3. PICK f : Runs(f, D, <<>>, n, step)
  <2>1. <<>> \in D
    OBVIOUS
  <2> HIDE DEF step, n, D
  <2> QED
    BY <1>1, <1>2, <2>1, Iterates
<1>4. /\ f \in [0 .. n -> D] /\ f[0] = <<>>
      /\ \A i \in 1 .. n : f[i] = f[i - 1] \o seqs[i]
  <2>1. \A i \in 1 .. n : f[i - 1] \in D
    <3> TAKE i \in 1 .. n
    <3>1. i - 1 \in 0 .. n
      BY <1>1
    <3> HIDE DEF step, n, D
    <3> QED
      BY <1>3, <3>1 DEF Runs
  <2>2. \A i \in 1 .. n : step[<<i, f[i - 1]>>] = f[i - 1] \o seqs[i]
    <3> HIDE DEF n, D
    <3> QED
      BY <2>1
  <2> HIDE DEF step, n, D
  <2>3. \A i \in 1 .. n : f[i] = step[<<i, f[i - 1]>>]
    BY <1>3 DEF Runs
  <2> QED
    BY <1>3, <2>2, <2>3 DEF Runs
<1>5. CASE n = 0
  <2>1. seqs = <<>>
    BY <1>5
  <2>2. FlattenSeq(seqs) = f[n]
    BY <1>4, <1>5, <2>1 DEF FlattenSeq
  <2> QED
    BY <1>4, <2>2
<1>6. CASE n # 0
  <2> DEFINE g == [i \in 1 .. n |-> f[i]]
  <2>1. Rec(g)
    <3>1. ASSUME NEW i \in 1 .. n
          PROVE  g[i] = IF i = 1 THEN seqs[i] ELSE g[i - 1] \o seqs[i]
      <4>1. CASE i = 1
        <5>1. 1 \in 1 .. n /\ seqs[1] \in Seq(T)
          BY <1>1, <4>1
        <5>2. <<>> \o seqs[1] = seqs[1]
          BY <5>1, ConcatLies
        <5>3. f[1] = f[0] \o seqs[1]
          <6>1. f[1] = f[1 - 1] \o seqs[1]
            BY <1>4, <5>1, Zenon
          <6>2. 1 - 1 = 0
            OBVIOUS
          <6> QED
            BY <6>1, <6>2, Zenon
        <5>4. f[1] = seqs[1]
          BY <1>4, <5>2, <5>3
        <5> HIDE DEF n
        <5> QED
          BY <4>1, <5>1, <5>4
      <4>2. CASE i # 1
        <5>1. i - 1 \in 1 .. n
          BY <1>1, <4>2
        <5> HIDE DEF n
        <5> QED
          BY <1>4, <4>2, <5>1
      <4> QED
        BY <4>1, <4>2
    <3> QED
      BY <3>1
  <2>2. Rec(flatten)
    <3> HIDE DEF Rec
    <3> QED
      BY <2>1
  <2>3. \A i \in 1 .. n : flatten[i] = IF i = 1 THEN seqs[i] ELSE flatten[i - 1] \o seqs[i]
    <3> HIDE DEF n, flatten
    <3> QED
      BY <2>2
  <2>4. FlattenSeq(seqs) = flatten[n]
    BY <1>6 DEF FlattenSeq
  <2> DEFINE S == {i \in Nat : i \in 1 .. n => flatten[i] = f[i]}
  <2> HIDE DEF flatten, n, Rec, g, step, D
  <2>5. 0 \in S
    BY <1>1
  <2>6. ASSUME NEW i \in Nat, i \in S PROVE i + 1 \in S
    <3> SUFFICES ASSUME i + 1 \in 1 .. n PROVE flatten[i + 1] = f[i + 1]
      OBVIOUS
    <3>0. (i + 1) - 1 = i
      OBVIOUS
    <3>1. CASE i = 0
      <4>1. flatten[1] = seqs[1] /\ f[1] = f[0] \o seqs[1]
        <5>1. 1 \in 1 .. n /\ 1 - 1 = 0
          BY <3>1
        <5>2. f[1] = f[1 - 1] \o seqs[1]
          BY <1>4, <5>1
        <5> QED
          BY <2>3, <5>1, <5>2
      <4>2. <<>> \o seqs[1] = seqs[1]
        BY <1>1, <3>1 DEF D
      <4> QED
        BY <1>4, <3>1, <4>1, <4>2
    <3>2. CASE i # 0
      <4>1. i \in 1 .. n
        BY <1>1, <3>2
      <4>2. flatten[i] = f[i]
        BY <2>6, <4>1
      <4>3. flatten[i + 1] = flatten[i] \o seqs[i + 1] /\ f[i + 1] = f[i] \o seqs[i + 1]
        <5>1. f[i + 1] = f[(i + 1) - 1] \o seqs[i + 1]
          BY <1>4
        <5>2. flatten[i + 1] = flatten[(i + 1) - 1] \o seqs[i + 1]
          <6>1. i + 1 # 1
            BY <3>2
          <6> QED
            BY <2>3, <6>1
        <5> QED
          BY <3>0, <5>1, <5>2
      <4> QED
        BY <4>2, <4>3
    <3> QED
      BY <3>1, <3>2
  <2>7. Nat \subseteq S
    <3> HIDE DEF S
    <3> QED
      BY <2>5, <2>6, Induction
  <2>8. flatten[n] = f[n]
    BY <1>1, <1>6, <2>7
  <2> QED
    BY <1>4, <2>4, <2>8 DEF n, D
<1> QED
  BY <1>5, <1>6

\* FlattenSeq puts the blocks one behind the other.
LEMMA FlattenJoins ==
  ASSUME NEW T, NEW seqs \in Seq(Seq(T))
  PROVE  /\ FlattenSeq(seqs) \in Seq(T)
         /\ \E b : Joins(FlattenSeq(seqs), seqs, b)
<1> DEFINE n == Len(seqs)
<1>1. n \in Nat /\ \A i \in 1 .. n : seqs[i] \in Seq(T) /\ Len(seqs[i]) \in Nat
  OBVIOUS
<1>2. PICK f : /\ f \in [0 .. n -> Seq(T)]
               /\ f[0] = <<>>
               /\ \A i \in 1 .. n : f[i] = f[i - 1] \o seqs[i]
               /\ FlattenSeq(seqs) = f[n]
  BY FlattenAppends
<1> DEFINE b == [i \in 0 .. n |-> Len(f[i])]
           Lies(m) == \A i \in 1 .. m : /\ b[i] <= b[m]
                                        /\ \A j \in 1 .. Len(seqs[i]) :
                                              f[m][b[i - 1] + j] = seqs[i][j]
           S == {m \in Nat : m <= n => Lies(m)}
<1> HIDE DEF n
<1>3. b \in [0 .. n -> Nat] /\ b[0] = 0
  BY <1>1, <1>2
<1>4. \A i \in 1 .. n : b[i] = b[i - 1] + Len(seqs[i])
  <2> TAKE i \in 1 .. n
  <2>1. i \in 0 .. n /\ i - 1 \in 0 .. n
    BY <1>1
  <2>2. f[i - 1] \in Seq(T) /\ seqs[i] \in Seq(T) /\ f[i] = f[i - 1] \o seqs[i]
    BY <1>1, <1>2, <2>1
  <2>3. Len(f[i]) = Len(f[i - 1]) + Len(seqs[i])
    BY <2>2
  <2> QED
    BY <2>1, <2>3
<1>5. ASSUME NEW m \in Nat, m + 1 <= n, Lies(m) PROVE Lies(m + 1)
  <2>1. /\ m \in 0 .. n /\ m + 1 \in 1 .. n /\ (m + 1) - 1 = m
        /\ f[m] \in Seq(T) /\ seqs[m + 1] \in Seq(T)
        /\ f[m + 1] = f[m] \o seqs[m + 1]
    <3>1. m \in 0 .. n /\ m + 1 \in 1 .. n /\ (m + 1) - 1 = m
      BY <1>1, <1>5
    <3>2. f[m + 1] = f[(m + 1) - 1] \o seqs[m + 1]
      BY <1>2, <3>1
    <3> HIDE DEF b
    <3> QED
      BY <1>1, <1>2, <3>1, <3>2
  <2>2. b[m] = Len(f[m]) /\ b[m + 1] = b[m] + Len(seqs[m + 1]) /\ Len(seqs[m + 1]) \in Nat
    BY <1>1, <1>4, <2>1
  <2>3. b[m] \in Nat /\ b[m + 1] \in Nat
    BY <1>3, <2>1
  <2> TAKE i \in 1 .. m + 1
  <2>4. CASE i = m + 1
    <3>1. ASSUME NEW j \in 1 .. Len(seqs[m + 1])
          PROVE  (f[m] \o seqs[m + 1])[Len(f[m]) + j] = seqs[m + 1][j]
      <4> HIDE DEF b
      <4>1. \A p \in 1 .. Len(seqs[m + 1]) :
              (f[m] \o seqs[m + 1])[Len(f[m]) + p] = seqs[m + 1][p]
        <5> DEFINE x == f[m]
                   y == seqs[m + 1]
        <5>1. x \in Seq(T) /\ y \in Seq(T)
          BY <2>1
        <5> HIDE DEF x, y
        <5>2. \A p \in 1 .. Len(y) : (x \o y)[Len(x) + p] = y[p]
          BY <5>1, ConcatLies
        <5> QED
          BY <5>2 DEF x, y
      <4> QED
        BY <4>1
    <3>2. b[m + 1] <= b[m + 1]
      BY <2>3
    <3> HIDE DEF b
    <3> QED
      BY <2>1, <2>2, <2>4, <3>1, <3>2
  <2>5. CASE i \in 1 .. m
    <3>1. /\ i \in 1 .. n /\ i - 1 \in 0 .. n /\ i \in 0 .. n
          /\ b[i] <= b[m]
          /\ \A j \in 1 .. Len(seqs[i]) : f[m][b[i - 1] + j] = seqs[i][j]
      <4>1. i \in 1 .. n /\ i - 1 \in 0 .. n /\ i \in 0 .. n
        BY <1>1, <1>5, <2>5
      <4> HIDE DEF b
      <4> QED
        BY <1>5, <2>5, <4>1
    <3>2. /\ b[i] = b[i - 1] + Len(seqs[i]) /\ Len(seqs[i]) \in Nat
          /\ b[i] \in Nat /\ b[i - 1] \in Nat
      BY <1>1, <1>3, <1>4, <3>1
    <3>3. ASSUME NEW j \in 1 .. Len(seqs[i])
          PROVE  f[m + 1][b[i - 1] + j] = seqs[i][j]
      <4>1. b[i - 1] + j \in 1 .. Len(f[m])
        <5>1. i - 1 \in Nat /\ j \in Nat /\ Len(f[m]) = b[m]
          BY <2>1
        <5> HIDE DEF b
        <5>2. b[i] <= b[m]
          BY <3>1
        <5> HIDE DEF Lies
        <5>3. b[i - 1] < b[i - 1] + j /\ b[i - 1] + j <= b[i] /\ b[i - 1] + j \in Nat
          BY <3>2, InBlock
        <5> QED
          BY <2>3, <3>2, <5>1, <5>2, <5>3, Between
      <4>2. ASSUME NEW p \in 1 .. Len(f[m]) PROVE (f[m] \o seqs[m + 1])[p] = f[m][p]
        <5> DEFINE x == f[m]
                   y == seqs[m + 1]
        <5>1. x \in Seq(T) /\ y \in Seq(T) /\ p \in 1 .. Len(x)
          BY <2>1
        <5> HIDE DEF x, y
        <5>2. (x \o y)[p] = x[p]
          BY <5>1, ConcatLies
        <5> QED
          BY <5>2 DEF x, y
      <4> HIDE DEF b
      <4> QED
        BY <2>1, <3>1, <4>1, <4>2
    <3>4. b[i] <= b[m + 1]
      <4> HIDE DEF b
      <4>1. b[i] <= b[m] /\ b[m + 1] = b[m] + Len(seqs[m + 1]) /\ Len(seqs[m + 1]) \in Nat
        BY <2>2, <3>1
      <4> HIDE DEF Lies
      <4> QED
        BY <2>3, <3>2, <4>1
    <3> HIDE DEF b
    <3> QED
      BY <3>3, <3>4
  <2>6. i = m + 1 \/ i \in 1 .. m
    OBVIOUS
  <2> HIDE DEF b
  <2> QED
    BY <2>4, <2>5, <2>6
<1> HIDE DEF b
<1>6. Nat \subseteq S
  <2>1. 0 \in S
    OBVIOUS
  <2>2. ASSUME NEW m \in Nat, m \in S PROVE m + 1 \in S
    <3> HIDE DEF Lies
    <3> QED
      BY <1>1, <1>5, <2>2
  <2> HIDE DEF S
  <2> QED
    BY <2>1, <2>2, Induction
<1>7. Lies(n)
  BY <1>1, <1>6
<1>8. b[n] = Len(f[n])
  BY <1>1 DEF b
<1>9. Joins(f[n], seqs, b)
  BY <1>3, <1>4, <1>7, <1>8 DEF Joins, n
<1> QED
  BY <1>1, <1>2, <1>9

\* Later blocks lie behind earlier ones, and the blocks cover the sequence.
Rises(seqs, b) == \A i, j \in 0 .. Len(seqs) : i <= j => b[i] <= b[j]

Covers(flat, seqs, b) ==
  \A p \in 1 .. Len(flat) : \E i \in 1 .. Len(seqs) :
    \E j \in 1 .. Len(seqs[i]) : p = b[i - 1] + j

\* Each position of a flattened sequence is a position of one block, and later
\* blocks lie behind earlier ones.
LEMMA JoinsCover ==
  ASSUME NEW T, NEW seqs \in Seq(Seq(T)), NEW flat, NEW b, Joins(flat, seqs, b)
  PROVE  Rises(seqs, b) /\ Covers(flat, seqs, b)
<1> DEFINE n == Len(seqs)
<1>1. n \in Nat /\ \A i \in 1 .. n : Len(seqs[i]) \in Nat
  OBVIOUS
<1>2. /\ b \in [0 .. n -> Nat] /\ b[0] = 0 /\ b[n] = Len(flat)
      /\ \A i \in 1 .. n : b[i] = b[i - 1] + Len(seqs[i])
  BY DEF Joins
<1> HIDE DEF n
<1> DEFINE R == {m \in Nat : m <= n => \A i \in 0 .. m : b[i] <= b[m]}
           C == {m \in Nat : m <= n =>
                    \A p \in 1 .. b[m] : \E i \in 1 .. n :
                        \E j \in 1 .. Len(seqs[i]) : p = b[i - 1] + j}
<1>3. Nat \subseteq R
  <2>1. 0 \in R
    BY <1>2
  <2>2. ASSUME NEW m \in Nat, m \in R PROVE m + 1 \in R
    <3> SUFFICES ASSUME m + 1 <= n, NEW i \in 0 .. m + 1 PROVE b[i] <= b[m + 1]
      OBVIOUS
    <3>1. /\ m \in 0 .. n /\ m + 1 \in 1 .. n /\ (m + 1) - 1 = m
          /\ i \in 0 .. n /\ (i = m + 1 \/ i \in 0 .. m)
      BY <1>1
    <3>2. /\ b[m + 1] = b[m] + Len(seqs[m + 1]) /\ Len(seqs[m + 1]) \in Nat
          /\ b[m] \in Nat /\ b[i] \in Nat
      BY <1>1, <1>2, <3>1
    <3>3. i \in 0 .. m => b[i] <= b[m]
      BY <1>1, <2>2, <3>1
    <3> QED
      BY <3>1, <3>2, <3>3
  <2> HIDE DEF R
  <2> QED
    BY <2>1, <2>2, Induction
<1>4. Nat \subseteq C
  <2>1. 0 \in C
    BY <1>2
  <2>2. ASSUME NEW m \in Nat, m \in C PROVE m + 1 \in C
    <3> SUFFICES ASSUME m + 1 <= n, NEW p \in 1 .. b[m + 1]
                 PROVE  \E i \in 1 .. n : \E j \in 1 .. Len(seqs[i]) : p = b[i - 1] + j
      OBVIOUS
    <3>1. /\ m \in 0 .. n /\ m + 1 \in 1 .. n /\ (m + 1) - 1 = m
      BY <1>1
    <3>2. /\ b[m + 1] = b[m] + Len(seqs[m + 1]) /\ Len(seqs[m + 1]) \in Nat
          /\ b[m] \in Nat
      BY <1>1, <1>2, <3>1
    <3>3. CASE p <= b[m]
      <4>1. p \in 1 .. b[m] /\ m <= n
        BY <1>1, <3>1, <3>2, <3>3
      <4> QED
        BY <2>2, <4>1
    <3>4. CASE p > b[m]
      <4>1. p - b[m] \in 1 .. Len(seqs[m + 1]) /\ p = b[m] + (p - b[m])
        BY <3>2, <3>4
      <4> QED
        BY <3>1, <4>1
    <3> QED
      BY <3>2, <3>3, <3>4
  <2> HIDE DEF C
  <2> QED
    BY <2>1, <2>2, Induction
<1>5. \A i, j \in 0 .. n : i <= j => b[i] <= b[j]
  <2> TAKE i, j \in 0 .. n
  <2>1. j \in R /\ j <= n
    BY <1>1, <1>3
  <2> QED
    BY <1>1, <2>1
<1>6. n \in C
  BY <1>1, <1>4
<1> QED
  BY <1>1, <1>2, <1>5, <1>6 DEF n, Rises, Covers

\* No position is of two blocks, or of one block twice.
LEMMA JoinsOnce ==
  ASSUME NEW T, NEW seqs \in Seq(Seq(T)), NEW flat, NEW b, Joins(flat, seqs, b),
         NEW i \in 1 .. Len(seqs), NEW j \in 1 .. Len(seqs[i]),
         NEW k \in 1 .. Len(seqs), NEW l \in 1 .. Len(seqs[k])
  PROVE  /\ b[i - 1] + j \in 1 .. Len(flat)
         /\ i < k => b[i - 1] + j < b[k - 1] + l
         /\ b[i - 1] + j = b[k - 1] + l => i = k /\ j = l
<1>1. \A x, y \in 0 .. Len(seqs) : x <= y => b[x] <= b[y]
  BY JoinsCover DEF Rises
<1>2. /\ b \in [0 .. Len(seqs) -> Nat] /\ b[Len(seqs)] = Len(flat)
      /\ \A x \in 1 .. Len(seqs) : b[x] = b[x - 1] + Len(seqs[x])
  BY DEF Joins
<1>3. /\ Len(seqs) \in Nat /\ Len(seqs[i]) \in Nat /\ Len(seqs[k]) \in Nat
  OBVIOUS
<1>4. /\ i - 1 \in 0 .. Len(seqs) /\ k - 1 \in 0 .. Len(seqs)
      /\ i \in 0 .. Len(seqs) /\ k \in 0 .. Len(seqs) /\ Len(seqs) \in 0 .. Len(seqs)
  BY <1>3
<1>5. /\ b[i - 1] \in Nat /\ b[k - 1] \in Nat /\ b[i] \in Nat /\ b[k] \in Nat
      /\ b[i] = b[i - 1] + Len(seqs[i]) /\ b[k] = b[k - 1] + Len(seqs[k])
      /\ b[i] <= Len(flat) /\ Len(flat) \in Nat
  <2>1. b[i] <= b[Len(seqs)]
    BY <1>1, <1>3, <1>4
  <2>2. b[i - 1] \in Nat /\ b[k - 1] \in Nat /\ b[i] \in Nat /\ b[k] \in Nat
    BY <1>2, <1>4
  <2>3. b[Len(seqs)] = Len(flat) /\ b[Len(seqs)] \in Nat
    BY <1>2, <1>4
  <2> QED
    BY <1>2, <2>1, <2>2, <2>3
<1>6. /\ i < k => b[i] <= b[k - 1]
      /\ k < i => b[k] <= b[i - 1]
  BY <1>1, <1>3, <1>4
<1> DEFINE p == b[i - 1] + j
           q == b[k - 1] + l
<1>7. p \in Nat /\ b[i - 1] < p /\ p <= b[i]
  BY <1>3, <1>5, InBlock
<1>8. q \in Nat /\ b[k - 1] < q /\ q <= b[k]
  BY <1>3, <1>5, InBlock
<1>9. p \in 1 .. Len(flat)
  <2> HIDE DEF p
  <2> QED
    BY <1>5, <1>7, Between
<1>10. i < k => p < q
  <2> SUFFICES ASSUME i < k PROVE p < q
    OBVIOUS
  <2> HIDE DEF p, q
  <2>1. b[i] <= b[k - 1]
    BY <1>6
  <2> QED
    BY <1>5, <1>7, <1>8, <2>1, Before
<1>11. k < i => q < p
  <2> SUFFICES ASSUME k < i PROVE q < p
    OBVIOUS
  <2> HIDE DEF p, q
  <2>1. b[k] <= b[i - 1]
    BY <1>6
  <2> QED
    BY <1>5, <1>7, <1>8, <2>1, Before
<1>12. p = q => i = k /\ j = l
  <2> SUFFICES ASSUME p = q PROVE i = k /\ j = l
    OBVIOUS
  <2>1. ~(i < k) /\ ~(k < i)
    <3> HIDE DEF p, q
    <3> QED
      BY <1>7, <1>8, <1>10, <1>11
  <2>2. i = k
    BY <1>3, <2>1
  <2>3. \A x \in Nat : \A y, z \in Int : x + y = x + z => y = z
    OBVIOUS
  <2>4. b[i - 1] \in Nat /\ j \in Int /\ l \in Int /\ b[i - 1] + j = b[i - 1] + l
    BY <1>5, <2>2
  <2>5. j = l
    BY <2>3, <2>4
  <2> QED
    BY <2>2, <2>5
<1> QED
  BY <1>9, <1>10, <1>12

\* A flattened sequence holds what its blocks hold.
LEMMA FlattenHolds ==
  ASSUME NEW T, NEW seqs \in Seq(Seq(T))
  PROVE  ToSet(FlattenSeq(seqs)) = UNION {ToSet(seqs[i]) : i \in DOMAIN seqs}
<1> DEFINE flat == FlattenSeq(seqs)
<1>1. PICK b : Joins(flat, seqs, b)
  BY FlattenJoins
<1>2. flat \in Seq(T)
  BY FlattenJoins
<1> HIDE DEF flat
<1>3. Covers(flat, seqs, b)
  BY <1>1, JoinsCover
<1>4. ASSUME NEW p \in 1 .. Len(flat)
      PROVE  \E i \in 1 .. Len(seqs) : flat[p] \in ToSet(seqs[i])
  <2>1. PICK i \in 1 .. Len(seqs) : \E j \in 1 .. Len(seqs[i]) : p = b[i - 1] + j
    BY <1>3 DEF Covers
  <2>2. PICK j \in 1 .. Len(seqs[i]) : p = b[i - 1] + j
    BY <2>1
  <2>3. flat[p] = seqs[i][j]
    BY <1>1, <2>2 DEF Joins
  <2>4. seqs[i] \in Seq(T)
    OBVIOUS
  <2> QED
    BY <2>3, <2>4 DEF ToSet
<1>5. ASSUME NEW i \in 1 .. Len(seqs), NEW j \in 1 .. Len(seqs[i])
      PROVE  \E p \in 1 .. Len(flat) : flat[p] = seqs[i][j]
  <2>1. b[i - 1] + j \in 1 .. Len(flat)
    BY <1>1, JoinsOnce
  <2>2. flat[b[i - 1] + j] = seqs[i][j]
    BY <1>1 DEF Joins
  <2> QED
    BY <2>1, <2>2
<1>6. DOMAIN flat = 1 .. Len(flat) /\ DOMAIN seqs = 1 .. Len(seqs)
  BY <1>2
<1>7. \A i \in 1 .. Len(seqs) : DOMAIN seqs[i] = 1 .. Len(seqs[i])
  OBVIOUS
<1>8. ToSet(flat) \subseteq UNION {ToSet(seqs[i]) : i \in DOMAIN seqs}
  <2> SUFFICES ASSUME NEW x \in ToSet(flat)
               PROVE  x \in UNION {ToSet(seqs[i]) : i \in DOMAIN seqs}
    OBVIOUS
  <2>1. PICK p \in 1 .. Len(flat) : x = flat[p]
    BY <1>6 DEF ToSet
  <2>2. PICK i \in 1 .. Len(seqs) : flat[p] \in ToSet(seqs[i])
    BY <1>4
  <2> QED
    BY <1>6, <2>1, <2>2
<1>9. UNION {ToSet(seqs[i]) : i \in DOMAIN seqs} \subseteq ToSet(flat)
  <2> SUFFICES ASSUME NEW i \in 1 .. Len(seqs), NEW x \in ToSet(seqs[i])
               PROVE  x \in ToSet(flat)
    BY <1>6
  <2>1. PICK j \in 1 .. Len(seqs[i]) : x = seqs[i][j]
    BY <1>7 DEF ToSet
  <2>2. PICK p \in 1 .. Len(flat) : flat[p] = seqs[i][j]
    BY <1>5
  <2> QED
    BY <1>6, <2>1, <2>2 DEF ToSet
<1> QED
  BY <1>8, <1>9 DEF flat

\* If each block holds one element, the flattened sequence has them in order.
LEMMA FlattenSingles ==
  ASSUME NEW T, NEW seqs \in Seq(Seq(T)), \A i \in 1 .. Len(seqs) : Len(seqs[i]) = 1
  PROVE  /\ FlattenSeq(seqs) \in Seq(T)
         /\ Len(FlattenSeq(seqs)) = Len(seqs)
         /\ \A i \in 1 .. Len(seqs) : FlattenSeq(seqs)[i] = seqs[i][1]
<1> DEFINE flat == FlattenSeq(seqs)
           n == Len(seqs)
<1>1. PICK b : Joins(flat, seqs, b)
  BY FlattenJoins
<1>2. flat \in Seq(T) /\ n \in Nat
  BY FlattenJoins
<1> HIDE DEF flat
<1>3. /\ b[0] = 0 /\ b[n] = Len(flat)
      /\ \A i \in 1 .. n : b[i] = b[i - 1] + 1 /\ flat[b[i - 1] + 1] = seqs[i][1]
  <2>1. b[0] = 0 /\ b[n] = Len(flat)
    BY <1>1 DEF Joins
  <2>2. \A i \in 1 .. n : b[i] = b[i - 1] + 1
    BY <1>1 DEF Joins
  <2>3. \A i \in 1 .. n : \A j \in 1 .. Len(seqs[i]) : flat[b[i - 1] + j] = seqs[i][j]
    BY <1>1, Zenon DEF Joins
  <2>4. \A i \in 1 .. n : 1 \in 1 .. Len(seqs[i])
    <3>1. 1 \in 1 .. 1
      OBVIOUS
    <3> QED
      BY <3>1, Zenon
  <2>5. \A i \in 1 .. n : flat[b[i - 1] + 1] = seqs[i][1]
    BY <2>3, <2>4, Zenon
  <2> QED
    BY <2>1, <2>2, <2>5, Zenon
<1> DEFINE S == {i \in Nat : i <= n => b[i] = i}
<1>4. Nat \subseteq S
  <2> HIDE DEF n
  <2>1. 0 \in S
    BY <1>3
  <2>2. ASSUME NEW i \in Nat, i \in S PROVE i + 1 \in S
    <3> SUFFICES ASSUME i + 1 <= n PROVE b[i + 1] = i + 1
      OBVIOUS
    <3>1. i + 1 \in 1 .. n /\ (i + 1) - 1 = i /\ b[i] = i
      BY <1>2, <2>2
    <3> QED
      BY <1>3, <3>1
  <2> HIDE DEF S
  <2> QED
    BY <2>1, <2>2, Induction
<1>5. \A i \in 0 .. n : b[i] = i
  <2> HIDE DEF n
  <2> QED
    BY <1>2, <1>4
<1>6. Len(flat) = n
  <2> HIDE DEF n
  <2> QED
    BY <1>2, <1>3, <1>5
<1>7. ASSUME NEW i \in 1 .. n PROVE flat[i] = seqs[i][1]
  <2> HIDE DEF n
  <2>1. i - 1 \in 0 .. n /\ (i - 1) + 1 = i
    BY <1>2
  <2>2. b[i - 1] + 1 = i
    BY <1>5, <2>1
  <2> QED
    BY <1>3, <2>2
<1> QED
  BY <1>2, <1>6, <1>7 DEF flat
=============================================================================
