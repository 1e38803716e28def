---------------------------- MODULE ScanOnce_proofs ----------------------------
(***************************************************************************)
(* Proofs about what a scan makes of any snapshot: what the search finds,   *)
(* that a cycle has one key wherever it is entered, and what rank_and_dedup *)
(* keeps of a batch. The recursion of the search is unrolled once, in        *)
(* SearchExpands; what a canonical key is matters only to ServesNoTradeTwice. *)
(***************************************************************************)
EXTENDS ScanOnce, Recursion, FiniteSetTheorems, SequenceTheorems

-----------------------------------------------------------------------------
(* Filters. *)

\* Element i of `picked` is the element m[i] of s, and in S; all of s that are in
\* S are picked, each once.
Selects(picked, s, S, m) ==
  /\ m \in [1 .. Len(picked) -> 1 .. Len(s)]
  /\ \A i \in 1 .. Len(picked) : picked[i] = s[m[i]] /\ s[m[i]] \in S
  /\ \A i, j \in 1 .. Len(picked) : m[i] = m[j] => i = j
  /\ \A k \in 1 .. Len(s) : s[k] \in S => \E i \in 1 .. Len(picked) : m[i] = k

\* A filter keeps the elements of S and no others, each once, and in one place.
LEMMA FilteredFrom ==
  ASSUME NEW T, NEW s \in Seq(T), NEW S
  PROVE  /\ Filtered(s, S) \in Seq(T)
         /\ Len(Filtered(s, S)) <= Len(s)
         /\ \E m : Selects(Filtered(s, S), s, S, m)
<1> DEFINE n == Len(s)
           seqs == [i \in 1 .. n |-> IF s[i] \in S THEN <<s[i]>> ELSE <<>>]
           F == FlattenSeq(seqs)
<1>1. n \in Nat /\ \A i \in 1 .. n : s[i] \in T
  OBVIOUS
<1>2. /\ seqs \in Seq(Seq(T)) /\ Len(seqs) = n
      /\ \A i \in 1 .. n : s[i] \in S => Len(seqs[i]) = 1 /\ seqs[i][1] = s[i]
      /\ \A i \in 1 .. n : s[i] \notin S => Len(seqs[i]) = 0
      /\ \A i \in 1 .. n : Len(seqs[i]) \in 0 .. 1
  <2>1. \A i \in 1 .. n : seqs[i] \in Seq(T)
    BY <1>1
  <2>2. seqs \in Seq(Seq(T)) /\ Len(seqs) = n
    <3> HIDE DEF n
    <3>1. seqs = [i \in 1 .. n |-> seqs[i]] /\ DOMAIN seqs = 1 .. n
      OBVIOUS
    <3> HIDE DEF seqs
    <3> QED
      BY <1>1, <2>1, <3>1
  <2> QED
    BY <1>1, <2>2
<1>3. F \in Seq(T) /\ Filtered(s, S) = F
  <2>1. F \in Seq(T)
    <3> HIDE DEF seqs
    <3> QED
      BY <1>2, FlattenJoins
  <2> QED
    BY <2>1 DEF Filtered
<1>4. PICK b : Joins(F, seqs, b)
  <2> HIDE DEF seqs
  <2> QED
    BY <1>2, FlattenJoins
<1> HIDE DEF seqs, F, n
<1>5. /\ b \in [0 .. n -> Nat] /\ b[0] = 0 /\ b[n] = Len(F)
      /\ \A i \in 1 .. n : b[i] = b[i - 1] + Len(seqs[i])
      /\ \A i \in 1 .. n : \A j \in 1 .. Len(seqs[i]) : F[b[i - 1] + j] = seqs[i][j]
  BY <1>2, <1>4 DEF Joins
<1>6. Len(F) <= n
  <2> DEFINE R == {i \in Nat : i <= n => b[i] <= i}
  <2>1. 0 \in R
    BY <1>5
  <2>2. ASSUME NEW i \in Nat, i \in R PROVE i + 1 \in R
    <3> SUFFICES ASSUME i + 1 <= n PROVE b[i + 1] <= i + 1
      OBVIOUS
    <3>1. i \in 0 .. n /\ i + 1 \in 1 .. n /\ (i + 1) - 1 = i /\ i <= n
      BY <1>1
    <3>2. b[i + 1] = b[i] + Len(seqs[i + 1])
      BY <1>5, <3>1
    <3>3. b[i] \in Nat /\ b[i] <= i /\ Len(seqs[i + 1]) \in 0 .. 1
      BY <1>2, <1>5, <2>2, <3>1
    <3>4. Len(seqs[i + 1]) \in Nat /\ Len(seqs[i + 1]) <= 1
      <4> DEFINE length == Len(seqs[i + 1])
      <4>1. length \in 0 .. 1
        BY <3>3
      <4> HIDE DEF length
      <4>2. length \in Nat /\ length <= 1
        BY <4>1
      <4> QED
        BY <4>2 DEF length
    <3>5. \A x, y, z \in Nat : x <= i /\ y <= 1 /\ z = x + y => z <= i + 1
      OBVIOUS
    <3> QED
      BY <1>5, <3>1, <3>2, <3>3, <3>4, <3>5
  <2>3. Nat \subseteq R
    <3> HIDE DEF R
    <3> QED
      BY <2>1, <2>2, Induction
  <2> QED
    BY <1>1, <1>5, <2>3
<1>7. \A p \in 1 .. Len(F) : \E i \in 1 .. n :
        s[i] \in S /\ p = b[i - 1] + 1 /\ F[p] = s[i]
  <2> TAKE p \in 1 .. Len(F)
  <2>0. seqs \in Seq(Seq(T)) /\ Len(seqs) = n
    BY <1>2
  <2>1. PICK i \in 1 .. n : \E j \in 1 .. Len(seqs[i]) : p = b[i - 1] + j
    <3>1. \A q \in 1 .. Len(F) : \E i \in 1 .. Len(seqs) :
            \E j \in 1 .. Len(seqs[i]) : q = b[i - 1] + j
      <4>1. Covers(F, seqs, b)
        BY <1>4, <2>0, JoinsCover
      <4> QED
        BY <4>1 DEF Covers
    <3> QED
      BY <2>0, <3>1
  <2>2. PICK j \in 1 .. Len(seqs[i]) : p = b[i - 1] + j
    BY <2>1
  <2>3. Len(seqs[i]) = 1 /\ j = 1
    <3> DEFINE length == Len(seqs[i])
    <3>1. length \in 0 .. 1 /\ j \in 1 .. length
      BY <1>2
    <3> HIDE DEF length
    <3>2. length = 1 /\ j = 1
      BY <3>1
    <3> QED
      BY <3>2 DEF length
  <2>4. s[i] \in S /\ seqs[i][1] = s[i]
    <3>1. s[i] \notin S => Len(seqs[i]) = 0
      BY <1>2
    <3>2. s[i] \in S
      BY <2>3, <3>1
    <3> QED
      BY <1>2, <3>2
  <2>5. F[b[i - 1] + 1] = seqs[i][1]
    BY <1>5, <2>2, <2>3
  <2> QED
    BY <2>2, <2>3, <2>4, <2>5
<1> DEFINE Of(p, i) == s[i] \in S /\ p = b[i - 1] + 1 /\ F[p] = s[i]
           m == [p \in 1 .. Len(F) |-> CHOOSE i \in 1 .. n : Of(p, i)]
<1>8. \A p \in 1 .. Len(F) : m[p] \in 1 .. n /\ Of(p, m[p])
  <2> TAKE p \in 1 .. Len(F)
  <2>1. \E i \in 1 .. n : Of(p, i)
    BY <1>7
  <2> HIDE DEF Of
  <2> QED
    BY <2>1
<1>9. m \in [1 .. Len(F) -> 1 .. n]
  <2> HIDE DEF Of
  <2>1. m = [p \in 1 .. Len(F) |-> m[p]]
    OBVIOUS
  <2> HIDE DEF m
  <2> QED
    BY <1>8, <2>1
<1> HIDE DEF m
<1>10. \A i, j \in 1 .. Len(F) : m[i] = m[j] => i = j
  BY <1>8
<1>11. \A k \in 1 .. n : s[k] \in S => \E i \in 1 .. Len(F) : m[i] = k
  <2> TAKE k \in 1 .. n
  <2> SUFFICES ASSUME s[k] \in S PROVE \E i \in 1 .. Len(F) : m[i] = k
    OBVIOUS
  <2> DEFINE p == b[k - 1] + 1
  <2>1. k \in 1 .. Len(seqs) /\ 1 \in 1 .. Len(seqs[k])
    BY <1>2
  <2>2. p \in 1 .. Len(F)
    BY <1>2, <1>4, <2>1, JoinsOnce
  <2> DEFINE i == m[p]
  <2>3. i \in 1 .. Len(seqs) /\ 1 \in 1 .. Len(seqs[i]) /\ p = b[i - 1] + 1
    <3> HIDE DEF p
    <3>1. i \in 1 .. n /\ s[i] \in S /\ p = b[i - 1] + 1
      BY <1>8, <2>2
    <3> HIDE DEF i
    <3> QED
      BY <1>2, <3>1
  <2> HIDE DEF i
  <2>4. i = k
    BY <1>2, <1>4, <2>1, <2>3, JoinsOnce
  <2> HIDE DEF p
  <2> QED
    BY <2>2, <2>4 DEF i
<1>12. Selects(F, s, S, m)
  BY <1>8, <1>9, <1>10, <1>11 DEF Selects, n
<1> QED
  BY <1>3, <1>6, <1>12 DEF n

-----------------------------------------------------------------------------
(* The edges of an asset. *)

\* All trades that begin with `asset`, each once if nothing is listed twice.
EdgesAre(edges, asset) ==
  /\ edges \in Seq(Hops)
  /\ \A p \in 1 .. Len(edges) : edges[p].source = asset /\ Traded(edges[p])
  /\ \A hop \in Hops : hop.source = asset /\ Traded(hop) =>
        \E p \in 1 .. Len(edges) : edges[p] = hop
  /\ ListedOnce => \A p, q \in 1 .. Len(edges) : edges[p] = edges[q] => p = q

\* m tells which pool of the snapshot each of `pools` is: those that hold the
\* asset, each once if nothing is listed twice.
Holds(pools, asset, m) ==
  /\ m \in [1 .. Len(pools) -> 1 .. Len(snapshot)]
  /\ \A i \in 1 .. Len(pools) :
        pools[i] = snapshot[m[i]] /\ Contains(snapshot[m[i]].assets, asset)
  /\ \A k \in 1 .. Len(snapshot) :
        Contains(snapshot[k].assets, asset) => \E i \in 1 .. Len(pools) : m[i] = k
  /\ ListedOnce => \A i, j \in 1 .. Len(pools) : m[i] = m[j] => i = j

\* by_asset holds a pool for every time it lists the asset.
LEMMA PoolsHold ==
  ASSUME snapshot \in Seq(Entries), NEW asset \in Assets
  PROVE  /\ PoolsFrom(snapshot, asset) \in Seq(Entries)
         /\ \E m : Holds(PoolsFrom(snapshot, asset), asset, m)
<1> DEFINE n == Len(snapshot)
           Uses(i) == Filtered(snapshot[i].assets, {asset})
           block(i) == [k \in 1 .. Len(Uses(i)) |-> snapshot[i]]
           seqs == [i \in 1 .. n |-> block(i)]
           pools == FlattenSeq(seqs)
<1>1. pools = PoolsFrom(snapshot, asset)
  BY DEF PoolsFrom
<1>2. n \in Nat /\ \A i \in 1 .. n : snapshot[i] \in Entries
                                     /\ snapshot[i].assets \in Seq(Assets)
  <2>1. n \in Nat /\ \A i \in 1 .. n : snapshot[i] \in Entries
    OBVIOUS
  <2>2. \A entry \in Entries : entry.assets \in Seq(Assets)
    BY DEF Entries
  <2> QED
    BY <2>1, <2>2
<1>3. ASSUME NEW i \in 1 .. n
      PROVE  /\ Len(Uses(i)) \in Nat
             /\ \E o : Selects(Uses(i), snapshot[i].assets, {asset}, o)
  <2> DEFINE assets == snapshot[i].assets
  <2>1. assets \in Seq(Assets)
    BY <1>2
  <2> HIDE DEF assets
  <2>2. /\ Filtered(assets, {asset}) \in Seq(Assets)
        /\ \E o : Selects(Filtered(assets, {asset}), assets, {asset}, o)
    BY <2>1, FilteredFrom
  <2>3. Len(Filtered(assets, {asset})) \in Nat
    BY <2>2
  <2> QED
    BY <2>2, <2>3 DEF assets
<1>4. \A i \in 1 .. n : Len(Uses(i)) > 0 <=> Contains(snapshot[i].assets, asset)
  <2> TAKE i \in 1 .. n
  <2>1. PICK o : Selects(Uses(i), snapshot[i].assets, {asset}, o)
    BY <1>3
  <2> DEFINE uses == Uses(i)
  <2>2. Len(uses) \in Nat
    BY <1>3
  <2>3. Selects(uses, snapshot[i].assets, {asset}, o)
    BY <2>1
  <2> HIDE DEF uses
  <2>4. ASSUME Len(uses) > 0 PROVE Contains(snapshot[i].assets, asset)
    <3>1. 1 \in 1 .. Len(uses)
      BY <2>2, <2>4
    <3>2. o[1] \in 1 .. Len(snapshot[i].assets) /\ snapshot[i].assets[o[1]] = asset
      BY <2>3, <3>1 DEF Selects
    <3> QED
      BY <3>2 DEF Contains
  <2>5. ASSUME Contains(snapshot[i].assets, asset) PROVE Len(uses) > 0
    <3>1. PICK k \in 1 .. Len(snapshot[i].assets) : snapshot[i].assets[k] = asset
      BY <2>5 DEF Contains
    <3>2. \E x \in 1 .. Len(uses) : o[x] = k
      BY <2>3, <3>1 DEF Selects
    <3> QED
      BY <2>2, <3>2
  <2> QED
    BY <2>4, <2>5 DEF uses
<1>5. ListedOnce => \A i \in 1 .. n : \A j, l \in 1 .. Len(Uses(i)) : j = l
  <2> SUFFICES ASSUME ListedOnce, NEW i \in 1 .. n,
                      NEW j \in 1 .. Len(Uses(i)), NEW l \in 1 .. Len(Uses(i))
               PROVE  j = l
    OBVIOUS
  <2>1. PICK o : Selects(Uses(i), snapshot[i].assets, {asset}, o)
    BY <1>3
  <2>2. /\ o[j] \in 1 .. Len(snapshot[i].assets) /\ o[l] \in 1 .. Len(snapshot[i].assets)
        /\ snapshot[i].assets[o[j]] = asset /\ snapshot[i].assets[o[l]] = asset
    BY <2>1 DEF Selects
  <2>3. IsInjective(snapshot[i].assets) /\ DOMAIN snapshot[i].assets = 1 .. Len(snapshot[i].assets)
    BY <1>2 DEF ListedOnce
  <2>4. o[j] = o[l]
    BY <2>2, <2>3, Zenon DEF IsInjective
  <2> QED
    BY <2>1, <2>4 DEF Selects
<1>6. /\ seqs \in Seq(Seq(Entries)) /\ Len(seqs) = n
      /\ \A i \in 1 .. n : Len(seqs[i]) = Len(Uses(i))
      /\ \A i \in 1 .. n : \A j \in 1 .. Len(Uses(i)) : seqs[i][j] = snapshot[i]
  <2>1. ASSUME NEW i \in 1 .. n
        PROVE  /\ block(i) \in Seq(Entries) /\ Len(block(i)) = Len(Uses(i))
               /\ \A j \in 1 .. Len(Uses(i)) : block(i)[j] = snapshot[i]
    <3>1. Len(Uses(i)) \in Nat /\ snapshot[i] \in Entries
      BY <1>2, <1>3
    <3> HIDE DEF Uses
    <3> QED
      BY <3>1
  <2> HIDE DEF block, Uses, n
  <2>2. Len(seqs) = n /\ \A i \in 1 .. n : seqs[i] = block(i)
    BY <1>2
  <2>3. seqs \in Seq(Seq(Entries))
    BY <1>2, <2>1
  <2> HIDE DEF seqs
  <2> QED
    BY <2>1, <2>2, <2>3
<1> HIDE DEF seqs, block, Uses
<1>7. pools \in Seq(Entries) /\ \E b : Joins(pools, seqs, b)
  BY <1>6, FlattenJoins
<1>8. PICK b : Joins(pools, seqs, b)
  BY <1>7
<1> HIDE DEF pools, n
<1> DEFINE Of(p, i) == \E j \in 1 .. Len(seqs[i]) : p = b[i - 1] + j
           m == [p \in 1 .. Len(pools) |-> CHOOSE i \in 1 .. n : Of(p, i)]
<1>9. \A p \in 1 .. Len(pools) : m[p] \in 1 .. n /\ Of(p, m[p])
  <2> TAKE p \in 1 .. Len(pools)
  <2>1. \E i \in 1 .. n : Of(p, i)
    <3>1. Covers(pools, seqs, b)
      BY <1>6, <1>8, JoinsCover
    <3> QED
      BY <1>6, <3>1 DEF Covers
  <2> HIDE DEF Of
  <2> QED
    BY <2>1
<1>10. m \in [1 .. Len(pools) -> 1 .. n]
  <2> HIDE DEF Of
  <2>1. m = [p \in 1 .. Len(pools) |-> m[p]]
    OBVIOUS
  <2> HIDE DEF m
  <2> QED
    BY <1>9, <2>1
<1> HIDE DEF m
<1>11. \A p \in 1 .. Len(pools) :
          pools[p] = snapshot[m[p]] /\ Contains(snapshot[m[p]].assets, asset)
  <2> TAKE p \in 1 .. Len(pools)
  <2> DEFINE i == m[p]
  <2>1. i \in 1 .. n
    BY <1>9
  <2>2. PICK j \in 1 .. Len(seqs[i]) : p = b[i - 1] + j
    BY <1>9
  <2> HIDE DEF i
  <2>3. j \in 1 .. Len(Uses(i)) /\ seqs[i][j] = snapshot[i]
    BY <1>6, <2>1
  <2>4. pools[p] = seqs[i][j]
    BY <1>6, <1>8, <2>1, <2>2 DEF Joins
  <2>5. Len(Uses(i)) \in Nat
    BY <1>3, <2>1 DEF n
  <2>6. Len(Uses(i)) > 0
    BY <2>3, <2>5
  <2>7. Contains(snapshot[i].assets, asset)
    BY <1>4, <2>1, <2>6
  <2> QED
    BY <2>3, <2>4, <2>7 DEF i
<1>12. \A i \in 1 .. n : \A j \in 1 .. Len(seqs[i]) :
          b[i - 1] + j \in 1 .. Len(pools) /\ m[b[i - 1] + j] = i
  <2> TAKE i \in 1 .. n
  <2> TAKE j \in 1 .. Len(seqs[i])
  <2> DEFINE p == b[i - 1] + j
  <2>1. p \in 1 .. Len(pools)
    BY <1>6, <1>8, JoinsOnce
  <2>2. m[p] \in 1 .. n /\ Of(p, m[p])
    <3> HIDE DEF p, Of
    <3> QED
      BY <1>9, <2>1
  <2> DEFINE k == m[p]
  <2>3. PICK l \in 1 .. Len(seqs[k]) : p = b[k - 1] + l
    BY <2>2
  <2>4. k \in 1 .. n
    BY <2>2
  <2> HIDE DEF k
  <2>5. i = k
    <3>1. i \in 1 .. Len(seqs) /\ k \in 1 .. Len(seqs) /\ b[i - 1] + j = b[k - 1] + l
      BY <1>6, <2>3, <2>4
    <3>2. seqs \in Seq(Seq(Entries)) /\ l \in 1 .. Len(seqs[k])
      BY <1>6, <2>3
    <3> HIDE DEF p, Of
    <3> QED
      BY <1>8, <3>1, <3>2, JoinsOnce
  <2> QED
    BY <2>1, <2>5 DEF k
<1>13. \A k \in 1 .. n : Contains(snapshot[k].assets, asset) =>
          \E p \in 1 .. Len(pools) : m[p] = k
  <2> SUFFICES ASSUME NEW k \in 1 .. n, Contains(snapshot[k].assets, asset)
               PROVE  \E p \in 1 .. Len(pools) : m[p] = k
    OBVIOUS
  <2>1. 1 \in 1 .. Len(seqs[k])
    <3>1. Len(Uses(k)) \in Nat
      BY <1>3 DEF n
    <3>2. Len(Uses(k)) > 0 /\ Len(seqs[k]) = Len(Uses(k))
      BY <1>4, <1>6
    <3> QED
      BY <3>1, <3>2
  <2> QED
    BY <1>12, <2>1
<1>14. ASSUME ListedOnce, NEW p \in 1 .. Len(pools), NEW q \in 1 .. Len(pools), m[p] = m[q]
       PROVE  p = q
  <2>1. m[p] \in 1 .. n /\ Of(p, m[p]) /\ Of(q, m[q])
    <3> HIDE DEF Of
    <3> QED
      BY <1>9
  <2>2. PICK j \in 1 .. Len(seqs[m[p]]) : p = b[m[p] - 1] + j
    BY <2>1
  <2>3. PICK l \in 1 .. Len(seqs[m[p]]) : q = b[m[p] - 1] + l
    BY <1>14, <2>1
  <2>4. j = l
    BY <1>5, <1>6, <1>14, <2>1
  <2> QED
    BY <2>2, <2>3, <2>4
<1>15. Holds(pools, asset, m)
  BY <1>10, <1>11, <1>13, <1>14 DEF Holds, n
<1> QED
  BY <1>1, <1>7, <1>15

\* edges_from gives them.
LEMMA EdgesFromAsset ==
  ASSUME snapshot \in Seq(Entries), NEW asset \in Assets
  PROVE  EdgesAre(EdgesFrom(snapshot, asset), asset)
<1> DEFINE pools == PoolsFrom(snapshot, asset)
           Others(entry) == Filtered(entry.assets, Assets \ {asset})
           Edge(entry, other) == [pool |-> entry.pool, source |-> asset,
                                  destination |-> other]
           EdgesOf(entry) == [j \in 1 .. Len(Others(entry)) |->
                                Edge(entry, Others(entry)[j])]
           seqs == [i \in 1 .. Len(pools) |-> EdgesOf(pools[i])]
           edges == FlattenSeq(seqs)
<1>1. edges = EdgesFrom(snapshot, asset)
  BY DEF EdgesFrom
<1>2. /\ pools \in Seq(Entries)
      /\ \E m : Holds(pools, asset, m)
  BY PoolsHold
<1>3. PICK m : Holds(pools, asset, m)
  BY <1>2
<1>4. ASSUME NEW entry \in Entries
      PROVE  /\ entry.assets \in Seq(Assets) /\ entry.pool \in PoolIds
             /\ Others(entry) \in Seq(Assets)
             /\ \E o : Selects(Others(entry), entry.assets, Assets \ {asset}, o)
  <2>1. entry.assets \in Seq(Assets) /\ entry.pool \in PoolIds
    BY DEF Entries
  <2> QED
    BY <2>1, FilteredFrom
<1> HIDE DEF pools
<1>5. \A i \in 1 .. Len(pools) : pools[i] \in Entries
  BY <1>2
<1>6. ASSUME NEW entry \in Entries
      PROVE  /\ EdgesOf(entry) \in Seq(Hops)
             /\ Len(EdgesOf(entry)) = Len(Others(entry))
  <2> HIDE DEF Edge
  <2>1. Others(entry) \in Seq(Assets) /\ entry.pool \in PoolIds
    BY <1>4
  <2> HIDE DEF Others
  <2>2. \A j \in 1 .. Len(Others(entry)) : Others(entry)[j] \in Assets
    BY <2>1
  <2>3. \A j \in 1 .. Len(Others(entry)) : Edge(entry, Others(entry)[j]) \in Hops
    BY <2>1, <2>2 DEF Edge, Hops
  <2> QED
    BY <2>1, <2>3
<1> HIDE DEF EdgesOf
<1>7. /\ seqs \in Seq(Seq(Hops)) /\ Len(seqs) = Len(pools)
  <2>1. Len(pools) \in Nat /\ \A i \in 1 .. Len(pools) : EdgesOf(pools[i]) \in Seq(Hops)
    BY <1>2, <1>5, <1>6
  <2> QED
    BY <2>1
<1>8. edges \in Seq(Hops) /\ \E b : Joins(edges, seqs, b)
  <2> HIDE DEF seqs
  <2> QED
    BY <1>7, FlattenJoins
<1>9. PICK b : Joins(edges, seqs, b)
  BY <1>8
<1>10. ASSUME NEW i \in 1 .. Len(pools), NEW j \in 1 .. Len(Others(pools[i]))
       PROVE  /\ i \in 1 .. Len(seqs) /\ j \in 1 .. Len(seqs[i])
              /\ b[i - 1] + j \in 1 .. Len(edges)
              /\ edges[b[i - 1] + j] = Edge(pools[i], Others(pools[i])[j])
  <2>1. /\ i \in 1 .. Len(seqs) /\ seqs[i] = EdgesOf(pools[i])
        /\ Len(seqs[i]) = Len(Others(pools[i]))
    <3> HIDE DEF Others
    <3>1. Len(EdgesOf(pools[i])) = Len(Others(pools[i]))
      BY <1>5, <1>6
    <3> QED
      BY <1>7, <3>1
  <2>2. seqs[i][j] = Edge(pools[i], Others(pools[i])[j])
    <3> HIDE DEF Edge, Others, seqs
    <3> QED
      BY <2>1 DEF EdgesOf
  <2> HIDE DEF seqs, edges, Edge, Others
  <2>3. j \in 1 .. Len(seqs[i])
    BY <2>1
  <2>4. edges[b[i - 1] + j] = seqs[i][j]
    BY <1>9, <2>1, <2>3 DEF Joins
  <2>5. b[i - 1] + j \in 1 .. Len(edges)
    BY <1>7, <1>9, <2>1, <2>3, JoinsOnce
  <2> QED
    BY <2>1, <2>2, <2>3, <2>4, <2>5
<1>11. ASSUME NEW p \in 1 .. Len(edges)
       PROVE  \E i \in 1 .. Len(pools) : \E j \in 1 .. Len(Others(pools[i])) :
                p = b[i - 1] + j
  <2> HIDE DEF edges
  <2>1. Covers(edges, seqs, b)
    <3> HIDE DEF seqs
    <3> QED
      BY <1>7, <1>9, JoinsCover
  <2>2. PICK i \in 1 .. Len(seqs) : \E j \in 1 .. Len(seqs[i]) : p = b[i - 1] + j
    <3> HIDE DEF seqs
    <3> QED
      BY <2>1 DEF Covers
  <2>3. i \in 1 .. Len(pools) /\ Len(seqs[i]) = Len(Others(pools[i]))
    <3> HIDE DEF Others
    <3>1. i \in 1 .. Len(pools)
      BY <1>7
    <3>2. Len(EdgesOf(pools[i])) = Len(Others(pools[i]))
      BY <1>5, <1>6, <3>1
    <3> QED
      BY <3>1, <3>2
  <2> HIDE DEF seqs, Others
  <2> QED
    BY <2>2, <2>3
<1> HIDE DEF seqs, edges, Others, Edge
<1>12. ASSUME NEW i \in 1 .. Len(pools), NEW j \in 1 .. Len(Others(pools[i]))
       PROVE  /\ m[i] \in 1 .. Len(snapshot) /\ pools[i] = snapshot[m[i]]
              /\ Contains(pools[i].assets, asset)
              /\ Others(pools[i])[j] \in ToSet(pools[i].assets)
              /\ Others(pools[i])[j] # asset
  <2>1. /\ m[i] \in 1 .. Len(snapshot) /\ pools[i] = snapshot[m[i]]
        /\ Contains(snapshot[m[i]].assets, asset)
    BY <1>3 DEF Holds
  <2>2. PICK o : Selects(Others(pools[i]), pools[i].assets, Assets \ {asset}, o)
    BY <1>4, <1>5 DEF Others
  <2>3. /\ o[j] \in 1 .. Len(pools[i].assets)
        /\ Others(pools[i])[j] = pools[i].assets[o[j]]
        /\ pools[i].assets[o[j]] \in Assets \ {asset}
    BY <2>2 DEF Selects
  <2>4. pools[i].assets[o[j]] \in ToSet(pools[i].assets)
    <3>1. pools[i].assets \in Seq(Assets)
      BY <1>4, <1>5
    <3> QED
      BY <2>3, <3>1 DEF ToSet
  <2> QED
    BY <2>1, <2>3, <2>4
<1>13. \A p \in 1 .. Len(edges) : edges[p].source = asset /\ Traded(edges[p])
  <2> TAKE p \in 1 .. Len(edges)
  <2>1. PICK i \in 1 .. Len(pools) : \E j \in 1 .. Len(Others(pools[i])) : p = b[i - 1] + j
    BY <1>11
  <2>0. PICK j \in 1 .. Len(Others(pools[i])) : p = b[i - 1] + j
    BY <2>1
  <2>2. edges[p] = Edge(pools[i], Others(pools[i])[j])
    BY <1>10, <2>0
  <2>3. /\ edges[p].pool = pools[i].pool /\ edges[p].source = asset
        /\ edges[p].destination = Others(pools[i])[j]
    BY <2>2 DEF Edge
  <2>4. asset \in ToSet(pools[i].assets)
    <3>1. pools[i].assets \in Seq(Assets) /\ Contains(pools[i].assets, asset)
      BY <1>4, <1>5, <1>12
    <3> QED
      BY <3>1 DEF Contains, ToSet
  <2> DEFINE other == Others(pools[i])[j]
  <2>5. /\ m[i] \in 1 .. Len(snapshot) /\ pools[i] = snapshot[m[i]]
        /\ other \in ToSet(pools[i].assets) /\ other # asset
    BY <1>12
  <2> HIDE DEF other
  <2>6. edges[p].destination = other
    BY <2>3 DEF other
  <2> QED
    BY <2>3, <2>4, <2>5, <2>6 DEF Traded
<1>14. ASSUME NEW hop \in Hops, hop.source = asset, Traded(hop)
       PROVE  \E p \in 1 .. Len(edges) : edges[p] = hop
  <2>1. PICK k \in 1 .. Len(snapshot) :
          /\ snapshot[k].pool = hop.pool
          /\ asset \in ToSet(snapshot[k].assets)
          /\ hop.destination \in ToSet(snapshot[k].assets)
    BY <1>14 DEF Traded
  <2>2. snapshot[k] \in Entries /\ snapshot[k].assets \in Seq(Assets)
    BY <1>4
  <2>3. Contains(snapshot[k].assets, asset)
    BY <2>1, <2>2 DEF Contains, ToSet
  <2>4. PICK i \in 1 .. Len(pools) : m[i] = k
    BY <1>3, <2>3 DEF Holds
  <2>5. pools[i] = snapshot[k]
    BY <1>3, <2>4 DEF Holds
  <2>6. PICK o : Selects(Others(pools[i]), pools[i].assets, Assets \ {asset}, o)
    BY <1>4, <1>5 DEF Others
  <2>7. PICK l \in 1 .. Len(pools[i].assets) : pools[i].assets[l] = hop.destination
    <3>1. DOMAIN pools[i].assets = 1 .. Len(pools[i].assets)
      BY <2>2, <2>5
    <3>2. hop.destination \in ToSet(pools[i].assets)
      BY <2>1, <2>5
    <3> QED
      BY <3>1, <3>2, Zenon DEF ToSet
  <2>8. hop.destination \in Assets \ {asset}
    BY <1>14 DEF Hops, Traded
  <2>9. PICK j \in 1 .. Len(Others(pools[i])) : o[j] = l
    BY <2>6, <2>7, <2>8 DEF Selects
  <2>10. Others(pools[i])[j] = hop.destination
    BY <2>6, <2>7, <2>9 DEF Selects
  <2>11. hop = Edge(pools[i], Others(pools[i])[j])
    BY <1>14, <2>1, <2>5, <2>10 DEF Edge, Hops
  <2> QED
    BY <1>10, <2>11
<1>15. ASSUME ListedOnce, NEW p \in 1 .. Len(edges), NEW q \in 1 .. Len(edges),
              edges[p] = edges[q]
       PROVE  p = q
  <2>1. PICK i \in 1 .. Len(pools) : \E j \in 1 .. Len(Others(pools[i])) : p = b[i - 1] + j
    BY <1>11
  <2>2. PICK k \in 1 .. Len(pools) : \E l \in 1 .. Len(Others(pools[k])) : q = b[k - 1] + l
    BY <1>11
  <2>7. PICK j \in 1 .. Len(Others(pools[i])) : p = b[i - 1] + j
    BY <2>1
  <2>8. PICK l \in 1 .. Len(Others(pools[k])) : q = b[k - 1] + l
    BY <2>2
  <2>3. Edge(pools[i], Others(pools[i])[j]) = Edge(pools[k], Others(pools[k])[l])
    BY <1>10, <1>15, <2>7, <2>8
  <2>4. /\ pools[i].pool = pools[k].pool
        /\ Others(pools[i])[j] = Others(pools[k])[l]
    BY <2>3 DEF Edge
  <2>5. i = k
    <3>1. /\ m[i] \in 1 .. Len(snapshot) /\ m[k] \in 1 .. Len(snapshot)
          /\ pools[i] = snapshot[m[i]] /\ pools[k] = snapshot[m[k]]
      BY <1>12
    <3>2. \A x, y \in 1 .. Len(snapshot) : snapshot[x].pool = snapshot[y].pool => x = y
      BY <1>15 DEF ListedOnce
    <3>3. m[i] = m[k]
      BY <2>4, <3>1, <3>2
    <3> QED
      BY <1>3, <1>15, <3>3 DEF Holds
  <2>6. j = l
    <3>1. PICK o : Selects(Others(pools[i]), pools[i].assets, Assets \ {asset}, o)
      BY <1>4, <1>5 DEF Others
    <3>2. /\ o[j] \in 1 .. Len(pools[i].assets) /\ o[l] \in 1 .. Len(pools[i].assets)
          /\ pools[i].assets[o[j]] = pools[i].assets[o[l]]
      BY <2>4, <2>5, <3>1 DEF Selects
    <3>3. pools[i].assets \in Seq(Assets) /\ IsInjective(pools[i].assets)
      BY <1>4, <1>5, <1>12, <1>15, <2>1 DEF ListedOnce
    <3>4. o[j] = o[l]
      <4>1. DOMAIN pools[i].assets = 1 .. Len(pools[i].assets)
        BY <3>3
      <4> QED
        BY <3>2, <3>3, <4>1, Zenon DEF IsInjective
    <3> QED
      BY <2>5, <3>1, <3>4 DEF Selects
  <2> QED
    BY <2>7, <2>8, <2>5, <2>6
<1> QED
  BY <1>1, <1>8, <1>13, <1>14, <1>15 DEF EdgesAre

\* The trades that go on from `asset` with an unused pool, each once if nothing
\* is listed twice, and all of them where the beam fits.
FrontierIs(edges, asset, hops) ==
  /\ edges \in Seq(Hops)
  /\ \A p \in 1 .. Len(edges) :
        /\ edges[p].source = asset /\ Traded(edges[p])
        /\ \A i \in 1 .. Len(hops) : hops[i].pool # edges[p].pool
  /\ BeamFits => \A hop \in Hops :
        /\ hop.source = asset /\ Traded(hop)
        /\ \A i \in 1 .. Len(hops) : hops[i].pool # hop.pool
        => \E p \in 1 .. Len(edges) : edges[p] = hop
  /\ ListedOnce => \A p, q \in 1 .. Len(edges) : edges[p] = edges[q] => p = q

\* Filter and beam leave those.
LEMMA FrontierOf ==
  ASSUME snapshot \in Seq(Entries), NEW asset \in Assets, NEW hops \in Seq(Hops)
  PROVE  FrontierIs(Frontier(snapshot, asset, hops), asset, hops)
<1> DEFINE all == EdgesFrom(snapshot, asset)
           Unused == {edge \in Hops : \A i \in 1 .. Len(hops) : hops[i].pool # edge.pool}
           open == Filtered(all, Unused)
           n == IF Len(open) < BeamWidth THEN Len(open) ELSE BeamWidth
           edges == SubSeq(open, 1, n)
<1>1. edges = Frontier(snapshot, asset, hops)
  BY DEF Frontier
<1>2. EdgesAre(all, asset)
  BY EdgesFromAsset
<1> HIDE DEF all
<1>3. all \in Seq(Hops)
  BY <1>2 DEF EdgesAre
<1>4. /\ open \in Seq(Hops) /\ Len(open) <= Len(all)
      /\ \E m : Selects(open, all, Unused, m)
  <2> HIDE DEF Unused
  <2> QED
    BY <1>3, FilteredFrom
<1>5. PICK m : Selects(open, all, Unused, m)
  BY <1>4
<1> HIDE DEF open
<1>6. Len(open) \in Nat /\ Len(all) \in Nat /\ BeamWidth \in Nat
  BY <1>3, <1>4, SearchAssumption
<1>7. n \in 0 .. Len(open) /\ (Len(open) <= BeamWidth => n = Len(open))
  BY <1>6
<1> HIDE DEF n
<1>8. /\ edges \in Seq(Hops) /\ Len(edges) = n
      /\ \A p \in 1 .. n : edges[p] = open[p] /\ p \in 1 .. Len(open)
  <2>1. \A p \in 1 .. n : p \in 1 .. Len(open)
    BY <1>6, <1>7
  <2>2. n \in Nat
    BY <1>6, <1>7
  <2>3. edges = [p \in 1 .. n |-> open[p]]
    BY <1>4, <1>6, <1>7, <2>2
  <2>4. \A p \in 1 .. n : open[p] \in Hops
    BY <1>4, <2>1
  <2> HIDE DEF edges
  <2>5. \A p \in 1 .. n : edges[p] = open[p]
    BY <2>3
  <2>6. edges \in Seq(Hops) /\ Len(edges) = n
    BY <2>2, <2>3, <2>4
  <2> QED
    BY <2>1, <2>5, <2>6
<1> HIDE DEF edges
<1>9. \A p \in 1 .. Len(edges) :
        /\ m[p] \in 1 .. Len(all) /\ edges[p] = all[m[p]] /\ all[m[p]] \in Unused
  <2> TAKE p \in 1 .. Len(edges)
  <2>1. p \in 1 .. Len(open) /\ edges[p] = open[p]
    BY <1>8
  <2> HIDE DEF Unused
  <2> QED
    BY <1>5, <2>1 DEF Selects
<1>10. \A p \in 1 .. Len(edges) :
         /\ edges[p].source = asset /\ Traded(edges[p])
         /\ \A i \in 1 .. Len(hops) : hops[i].pool # edges[p].pool
  BY SMTT(30), <1>2, <1>9 DEF EdgesAre
<1>11. ASSUME BeamFits, NEW hop \in Hops, hop.source = asset, Traded(hop),
              \A i \in 1 .. Len(hops) : hops[i].pool # hop.pool
       PROVE  \E p \in 1 .. Len(edges) : edges[p] = hop
  <2>1. n = Len(open)
    <3>1. Len(all) <= BeamWidth
      BY <1>11 DEF BeamFits, all
    <3> QED
      BY <1>4, <1>6, <1>7, <3>1
  <2>2. PICK k \in 1 .. Len(all) : all[k] = hop
    BY <1>2, <1>11 DEF EdgesAre
  <2>3. hop \in Unused
    BY <1>11
  <2> HIDE DEF Unused
  <2>4. PICK p \in 1 .. Len(open) : m[p] = k
    BY <1>5, <2>2, <2>3 DEF Selects
  <2>5. p \in 1 .. Len(edges) /\ edges[p] = hop
    BY <1>8, <1>9, <2>1, <2>2, <2>4
  <2> QED
    BY <2>5
<1>12. ASSUME ListedOnce, NEW p \in 1 .. Len(edges), NEW q \in 1 .. Len(edges),
              edges[p] = edges[q]
       PROVE  p = q
  <2>1. m[p] = m[q]
    BY <1>2, <1>9, <1>12 DEF EdgesAre
  <2>2. p \in 1 .. Len(open) /\ q \in 1 .. Len(open)
    BY <1>8
  <2> QED
    BY <1>5, <2>1, <2>2 DEF Selects
<1> QED
  BY <1>1, <1>8, <1>10, <1>11, <1>12 DEF FrontierIs

-----------------------------------------------------------------------------
(* The recursion of the search. *)

PathFrom(asset, hops) == [start |-> asset, hops |-> hops]

\* The edges taken where `hops` have led from `asset`.
EdgesAt(asset, hops) == Frontier(snapshot, Destination(PathFrom(asset, hops)), hops)

\* What `edge` adds to the paths found behind `hops`, if f has what is found
\* behind that edge.
Block(f, asset, hops, edge) ==
  << PathFrom(asset, Append(hops, edge)) >> \o f[Append(hops, edge)]

Blocks(f, asset, hops) ==
  [i \in 1 .. Len(EdgesAt(asset, hops)) |-> Block(f, asset, hops, EdgesAt(asset, hops)[i])]

\* The body of the recursion.
Expansion(f, asset, hops) ==
  IF Len(hops) >= MaxHops THEN <<>> ELSE FlattenSeq(Blocks(f, asset, hops))

\* The edges go on from an asset.
LEMMA EdgesAtHops ==
  ASSUME snapshot \in Seq(Entries), NEW asset \in Assets, NEW hops \in Seq(Hops)
  PROVE  /\ Destination(PathFrom(asset, hops)) \in Assets
         /\ FrontierIs(EdgesAt(asset, hops), Destination(PathFrom(asset, hops)), hops)
         /\ EdgesAt(asset, hops) \in Seq(Hops)
<1>1. Destination(PathFrom(asset, hops)) \in Assets
  <2>1. CASE hops = <<>>
    BY <2>1 DEF Destination, PathFrom
  <2>2. CASE hops # <<>>
    <3>1. hops[Len(hops)] \in Hops
      BY <2>2
    <3> QED
      BY <2>2, <3>1 DEF Destination, PathFrom, Hops
  <2> QED
    BY <2>1, <2>2
<1>2. FrontierIs(EdgesAt(asset, hops), Destination(PathFrom(asset, hops)), hops)
  BY <1>1, FrontierOf DEF EdgesAt
<1> QED
  BY <1>1, <1>2 DEF FrontierIs

Searches == [Seq(Hops) -> Seq(Routes)]

\* Every block is the path of its edge and what is found behind it.
LEMMA BlocksAre ==
  ASSUME snapshot \in Seq(Entries), NEW asset \in Assets, NEW hops \in Seq(Hops),
         NEW f \in Searches
  PROVE  /\ Blocks(f, asset, hops) \in Seq(Seq(Routes))
         /\ Len(Blocks(f, asset, hops)) = Len(EdgesAt(asset, hops))
         /\ \A i \in 1 .. Len(EdgesAt(asset, hops)) :
              LET taken == Append(hops, EdgesAt(asset, hops)[i])
              IN  /\ taken \in Seq(Hops) /\ Len(taken) = Len(hops) + 1
                  /\ f[taken] \in Seq(Routes)
                  /\ Len(Blocks(f, asset, hops)[i]) = 1 + Len(f[taken])
                  /\ Blocks(f, asset, hops)[i][1] = PathFrom(asset, taken)
                  /\ \A j \in 1 .. Len(f[taken]) :
                        Blocks(f, asset, hops)[i][1 + j] = f[taken][j]
<1> DEFINE edges == EdgesAt(asset, hops)
           Taken(i) == Append(hops, edges[i])
           block(i) == Block(f, asset, hops, edges[i])
<1>1. edges \in Seq(Hops) /\ Len(edges) \in Nat
  BY EdgesAtHops
<1> HIDE DEF edges
<1>2. ASSUME NEW i \in 1 .. Len(edges)
      PROVE  /\ Taken(i) \in Seq(Hops) /\ Len(Taken(i)) = Len(hops) + 1
             /\ f[Taken(i)] \in Seq(Routes)
             /\ << PathFrom(asset, Taken(i)) >> \in Seq(Routes)
  <2>1. Taken(i) \in Seq(Hops) /\ Len(Taken(i)) = Len(hops) + 1
    BY <1>1
  <2> HIDE DEF Taken
  <2>2. PathFrom(asset, Taken(i)) \in Routes
    BY <2>1 DEF PathFrom, Routes
  <2>3. f[Taken(i)] \in Seq(Routes)
    BY <2>1 DEF Searches
  <2> QED
    BY <2>1, <2>2, <2>3
<1>3. ASSUME NEW i \in 1 .. Len(edges)
      PROVE  /\ block(i) \in Seq(Routes)
             /\ Len(block(i)) = 1 + Len(f[Taken(i)])
             /\ block(i)[1] = PathFrom(asset, Taken(i))
             /\ \A j \in 1 .. Len(f[Taken(i)]) : block(i)[1 + j] = f[Taken(i)][j]
  <2> DEFINE x == << PathFrom(asset, Taken(i)) >>
             y == f[Taken(i)]
  <2>1. x \in Seq(Routes) /\ y \in Seq(Routes)
    BY <1>2
  <2>2. Len(x) = 1 /\ 1 \in 1 .. Len(x) /\ x[1] = PathFrom(asset, Taken(i))
    OBVIOUS
  <2>3. block(i) = x \o y
    BY DEF Block
  <2> HIDE DEF x, y, block
  <2>4. /\ x \o y \in Seq(Routes)
        /\ Len(x \o y) = Len(x) + Len(y)
        /\ \A p \in 1 .. Len(x) : (x \o y)[p] = x[p]
        /\ \A p \in 1 .. Len(y) : (x \o y)[Len(x) + p] = y[p]
    BY <2>1, ConcatLies
  <2>5. /\ block(i) \in Seq(Routes)
        /\ Len(block(i)) = 1 + Len(y)
        /\ block(i)[1] = PathFrom(asset, Taken(i))
        /\ \A j \in 1 .. Len(y) : block(i)[1 + j] = y[j]
    BY <2>2, <2>3, <2>4
  <2> QED
    BY <2>5 DEF y
<1>4. Blocks(f, asset, hops) = [i \in 1 .. Len(edges) |-> block(i)]
  BY DEF Blocks, edges
<1> HIDE DEF block
<1>5. /\ Blocks(f, asset, hops) \in Seq(Seq(Routes))
      /\ Len(Blocks(f, asset, hops)) = Len(edges)
      /\ \A i \in 1 .. Len(edges) : Blocks(f, asset, hops)[i] = block(i)
  <2>1. \A i \in 1 .. Len(edges) : block(i) \in Seq(Routes)
    BY <1>3
  <2> QED
    BY <1>1, <1>4, <2>1
<1> QED
  BY <1>2, <1>3, <1>5 DEF edges

\* Paths are found.
LEMMA ExpansionType ==
  ASSUME snapshot \in Seq(Entries), NEW asset \in Assets, NEW hops \in Seq(Hops),
         NEW f \in Searches
  PROVE  Expansion(f, asset, hops) \in Seq(Routes)
<1>1. Blocks(f, asset, hops) \in Seq(Seq(Routes))
  BY BlocksAre
<1>2. FlattenSeq(Blocks(f, asset, hops)) \in Seq(Routes)
  BY <1>1, FlattenJoins
<1>3. <<>> \in Seq(Routes)
  OBVIOUS
<1> QED
  BY <1>2, <1>3 DEF Expansion

\* What is found behind some hops depends only on what is found behind one more.
LEMMA ExpansionDepends ==
  ASSUME snapshot \in Seq(Entries), NEW asset \in Assets, NEW hops \in Seq(Hops),
         NEW f, NEW g,
         \A longer \in Seq(Hops) : Len(longer) = Len(hops) + 1 => f[longer] = g[longer]
  PROVE  Expansion(f, asset, hops) = Expansion(g, asset, hops)
<1> DEFINE edges == EdgesAt(asset, hops)
<1>1. ASSUME NEW i \in 1 .. Len(edges)
      PROVE  Block(f, asset, hops, edges[i]) = Block(g, asset, hops, edges[i])
  <2> DEFINE taken == Append(hops, edges[i])
  <2>1. taken \in Seq(Hops) /\ Len(taken) = Len(hops) + 1
    <3>1. edges \in Seq(Hops)
      BY EdgesAtHops
    <3> HIDE DEF edges
    <3> QED
      BY <3>1
  <2> HIDE DEF taken
  <2>2. f[taken] = g[taken]
    BY <2>1
  <2> QED
    BY <2>2 DEF Block, taken
<1>2. Blocks(f, asset, hops) = Blocks(g, asset, hops)
  BY <1>1 DEF Blocks
<1> QED
  BY <1>2 DEF Expansion

\* The recursion ends, after MaxHops hops, so the search is what its equation
\* says.
LEMMA SearchExpands ==
  ASSUME snapshot \in Seq(Entries), NEW asset \in Assets
  PROVE  \E f \in Searches :
           /\ \A hops \in Seq(Hops) : f[hops] = Expansion(f, asset, hops)
           /\ FindPaths(snapshot, asset) = f[<<>>]
<1> DEFINE n == MaxHops + 1
           D == Searches
           Next1(f) == [hops \in Seq(Hops) |-> Expansion(f, asset, hops)]
           step == [p \in (1 .. n) \X D |-> Next1(p[2])]
           none == [hops \in Seq(Hops) |-> <<>>]
           Rec(f) == f = Next1(f)
           expand == CHOOSE f : Rec(f)
<1>1. MaxHops \in Nat /\ n \in Nat
  BY SearchAssumption
<1>2. ASSUME NEW f \in D PROVE Next1(f) \in D
  BY ExpansionType DEF Searches
<1>3. step \in Steps(n, D)
  <2> HIDE DEF Next1, D
  <2> QED
    BY <1>2 DEF Steps
<1>4. none \in D
  BY DEF Searches
<1>5. PICK level : Runs(level, D, none, n, step)
  <2> HIDE DEF step, none, D, n
  <2> QED
    BY <1>1, <1>3, <1>4, Iterates
<1>6. /\ level \in [0 .. n -> D] /\ level[0] = none
      /\ \A i \in 1 .. n : level[i] = Next1(level[i - 1])
  <2>1. level \in [0 .. n -> D] /\ level[0] = none
    BY <1>5 DEF Runs
  <2>2. ASSUME NEW i \in 1 .. n PROVE level[i] = Next1(level[i - 1])
    <3>1. i - 1 \in 0 .. n
      BY <1>1
    <3> HIDE DEF n, D, none, Next1
    <3>2. level[i - 1] \in D
      BY <2>1, <3>1
    <3>3. level[i] = step[<<i, level[i - 1]>>]
      <4> HIDE DEF step
      <4> QED
        BY <1>5 DEF Runs
    <3> QED
      BY <3>2, <3>3
  <2> QED
    BY <2>1, <2>2
<1> DEFINE Settled(i) == \A hops \in Seq(Hops) :
                            Len(hops) + i >= MaxHops => level[i][hops] = level[i + 1][hops]
           S == {i \in Nat : i <= MaxHops => Settled(i)}
<1> HIDE DEF D, none, n, step
<1>7. ASSUME NEW i \in 0 .. MaxHops
      PROVE  /\ i \in 0 .. n /\ i + 1 \in 0 .. n
             /\ level[i] \in D /\ level[i + 1] \in D
             /\ level[i + 1] = Next1(level[i])
  <2>1. i \in 0 .. n /\ i + 1 \in 1 .. n /\ i + 1 \in 0 .. n /\ (i + 1) - 1 = i
    BY <1>1 DEF n
  <2> HIDE DEF Next1
  <2>2. level[i + 1] = Next1(level[(i + 1) - 1])
    BY <1>6, <2>1
  <2> QED
    BY <1>6, <2>1, <2>2
<1>8. 0 \in S
  <2> SUFFICES ASSUME NEW hops \in Seq(Hops), Len(hops) >= MaxHops
               PROVE  level[0][hops] = level[1][hops]
    BY <1>1
  <2>1. level[1] = Next1(level[0])
    BY <1>1, <1>7
  <2>2. level[1][hops] = Expansion(level[0], asset, hops)
    BY <2>1
  <2>3. level[0][hops] = <<>>
    BY <1>6 DEF none
  <2> QED
    BY <2>2, <2>3 DEF Expansion
<1>9. ASSUME NEW i \in Nat, i \in S PROVE i + 1 \in S
  <2> SUFFICES ASSUME i + 1 <= MaxHops, NEW hops \in Seq(Hops),
                      Len(hops) + (i + 1) >= MaxHops
               PROVE  level[i + 1][hops] = level[(i + 1) + 1][hops]
    OBVIOUS
  <2>1. i \in 0 .. MaxHops /\ i + 1 \in 0 .. MaxHops /\ Settled(i)
    BY <1>1, <1>9
  <2>2. /\ level[i] \in D /\ level[i + 1] \in D
        /\ level[i + 1] = Next1(level[i])
        /\ level[(i + 1) + 1] = Next1(level[i + 1])
    <3> HIDE DEF Next1
    <3> QED
      BY <1>7, <2>1
  <2>3. ASSUME NEW longer \in Seq(Hops), Len(longer) = Len(hops) + 1
        PROVE  level[i][longer] = level[i + 1][longer]
    <3>1. Len(longer) + i >= MaxHops
      <4>1. Len(hops) \in Nat
        OBVIOUS
      <4> QED
        BY <1>1, <2>3, <4>1
    <3> QED
      BY <2>1, <3>1
  <2>4. Expansion(level[i], asset, hops) = Expansion(level[i + 1], asset, hops)
    <3> DEFINE x == level[i]
               y == level[i + 1]
    <3>1. \A longer \in Seq(Hops) : Len(longer) = Len(hops) + 1 => x[longer] = y[longer]
      BY <2>3
    <3> HIDE DEF x, y
    <3>2. Expansion(x, asset, hops) = Expansion(y, asset, hops)
      BY <3>1, ExpansionDepends
    <3> QED
      BY <3>2 DEF x, y
  <2> QED
    BY <2>2, <2>4
<1>10. Settled(MaxHops)
  <2>1. Nat \subseteq S
    <3> HIDE DEF S
    <3> QED
      BY <1>8, <1>9, Induction
  <2> QED
    BY <1>1, <2>1
<1> DEFINE f == level[MaxHops]
<1>11. f \in D /\ \A hops \in Seq(Hops) : f[hops] = Expansion(f, asset, hops)
  <2>1. MaxHops \in 0 .. MaxHops
    BY <1>1
  <2>2. f \in D /\ level[MaxHops + 1] = Next1(f)
    <3> HIDE DEF Next1
    <3> QED
      BY <1>7, <2>1
  <2>3. ASSUME NEW hops \in Seq(Hops) PROVE f[hops] = Expansion(f, asset, hops)
    <3>1. Len(hops) + MaxHops >= MaxHops
      BY <1>1
    <3>2. f[hops] = level[MaxHops + 1][hops]
      BY <1>10, <3>1
    <3> QED
      BY <2>2, <3>2
  <2> QED
    BY <2>2, <2>3
<1>12. Rec(f)
  <2> HIDE DEF f
  <2>1. f \in [Seq(Hops) -> Seq(Routes)]
    BY <1>11 DEF D, Searches
  <2> QED
    BY <1>11, <2>1
<1>13. Rec(expand)
  <2> HIDE DEF Rec, f
  <2> QED
    BY <1>12
<1>14. FindPaths(snapshot, asset) = expand[<<>>]
  BY DEF FindPaths, Expansion, Blocks, Block, EdgesAt, PathFrom
<1> HIDE DEF f, expand
<1>15. ASSUME NEW hops \in Seq(Hops) PROVE expand[hops] = Expansion(expand, asset, hops)
  BY <1>13
<1> DEFINE Same(i) == \A hops \in Seq(Hops) : Len(hops) + i >= MaxHops => expand[hops] = f[hops]
           R == {i \in Nat : Same(i)}
<1>16. 0 \in R
  <2> SUFFICES ASSUME NEW hops \in Seq(Hops), Len(hops) >= MaxHops
               PROVE  expand[hops] = f[hops]
    BY <1>1
  <2> QED
    BY <1>11, <1>15 DEF Expansion
<1>17. ASSUME NEW i \in Nat, i \in R PROVE i + 1 \in R
  <2> SUFFICES ASSUME NEW hops \in Seq(Hops), Len(hops) + (i + 1) >= MaxHops
               PROVE  expand[hops] = f[hops]
    OBVIOUS
  <2>1. ASSUME NEW longer \in Seq(Hops), Len(longer) = Len(hops) + 1
        PROVE  expand[longer] = f[longer]
    <3>1. Len(longer) + i >= MaxHops
      <4>1. Len(hops) \in Nat
        OBVIOUS
      <4> QED
        BY <1>1, <2>1, <4>1
    <3> QED
      BY <1>17, <3>1
  <2>2. Expansion(expand, asset, hops) = Expansion(f, asset, hops)
    BY <2>1, ExpansionDepends
  <2> QED
    BY <1>11, <1>15, <2>2
<1>18. expand[<<>>] = f[<<>>]
  <2>1. Nat \subseteq R
    <3> HIDE DEF R
    <3> QED
      BY <1>16, <1>17, Induction
  <2>2. Same(MaxHops)
    BY <1>1, <2>1
  <2>3. <<>> \in Seq(Hops) /\ Len(<<>>) + MaxHops >= MaxHops
    BY <1>1
  <2> QED
    BY <2>2, <2>3
<1> QED
  BY <1>11, <1>14, <1>18 DEF D

-----------------------------------------------------------------------------
(* What is found. *)

\* f is what the search from `asset` computes.
IsSearch(f, asset) ==
  f \in Searches /\ \A hops \in Seq(Hops) : f[hops] = Expansion(f, asset, hops)

\* Where block i of what is found behind `hops` begins, and that nothing else
\* is found: b[i - 1] + 1 has the path of edge i, and behind it what is found
\* behind that edge.
Opens(f, asset, hops, b) ==
  LET edges == EdgesAt(asset, hops)
      taken(i) == Append(hops, edges[i])
  IN  /\ \A i \in 1 .. Len(edges) :
           /\ b[i - 1] \in Nat
           /\ b[i - 1] + 1 \in 1 .. Len(f[hops])
           /\ f[hops][b[i - 1] + 1] = PathFrom(asset, taken(i))
           /\ \A j \in 1 .. Len(f[taken(i)]) :
                /\ b[i - 1] + (1 + j) \in 1 .. Len(f[hops])
                /\ f[hops][b[i - 1] + (1 + j)] = f[taken(i)][j]
      /\ \A p \in 1 .. Len(f[hops]) : \E i \in 1 .. Len(edges) :
           \/ p = b[i - 1] + 1
           \/ \E j \in 1 .. Len(f[taken(i)]) : p = b[i - 1] + (1 + j)

LEMMA SearchOpens ==
  ASSUME snapshot \in Seq(Entries), NEW asset \in Assets, NEW f, IsSearch(f, asset),
         NEW hops \in Seq(Hops), Len(hops) < MaxHops
  PROVE  \E b : Opens(f, asset, hops, b)
<1> DEFINE edges == EdgesAt(asset, hops)
           taken(i) == Append(hops, edges[i])
           blocks == Blocks(f, asset, hops)
<1>1. f \in Searches
  BY DEF IsSearch
<1>2. f[hops] = FlattenSeq(blocks)
  <2>1. ~(Len(hops) >= MaxHops)
    BY SearchAssumption
  <2> QED
    BY <2>1 DEF IsSearch, Expansion
<1>3. /\ blocks \in Seq(Seq(Routes)) /\ Len(blocks) = Len(edges)
      /\ \A i \in 1 .. Len(edges) :
           /\ f[taken(i)] \in Seq(Routes)
           /\ Len(blocks[i]) = 1 + Len(f[taken(i)])
           /\ blocks[i][1] = PathFrom(asset, taken(i))
           /\ \A j \in 1 .. Len(f[taken(i)]) : blocks[i][1 + j] = f[taken(i)][j]
  BY ZenonT(30), <1>1, BlocksAre
<1> HIDE DEF blocks, edges
<1>4. PICK b : Joins(f[hops], blocks, b)
  BY <1>2, <1>3, FlattenJoins
<1>5. Covers(f[hops], blocks, b)
  BY <1>3, <1>4, JoinsCover
<1>6. /\ b \in [0 .. Len(blocks) -> Nat]
      /\ \A i \in 1 .. Len(blocks) : \A j \in 1 .. Len(blocks[i]) :
            f[hops][b[i - 1] + j] = blocks[i][j]
  BY <1>4 DEF Joins
<1> HIDE DEF taken
<1>7. ASSUME NEW i \in 1 .. Len(edges)
      PROVE  /\ b[i - 1] \in Nat
             /\ Len(f[taken(i)]) \in Nat
             /\ \A j \in 1 .. 1 + Len(f[taken(i)]) :
                  /\ b[i - 1] + j \in 1 .. Len(f[hops])
                  /\ f[hops][b[i - 1] + j] = blocks[i][j]
  <2>1. i \in 1 .. Len(blocks) /\ i - 1 \in 0 .. Len(blocks)
    BY <1>3
  <2>2. b[i - 1] \in Nat
    BY <1>6, <2>1
  <2>3. Len(f[taken(i)]) \in Nat /\ Len(blocks[i]) = 1 + Len(f[taken(i)])
    BY <1>3
  <2>4. ASSUME NEW j \in 1 .. 1 + Len(f[taken(i)])
        PROVE  b[i - 1] + j \in 1 .. Len(f[hops]) /\ f[hops][b[i - 1] + j] = blocks[i][j]
    <3>1. j \in 1 .. Len(blocks[i])
      BY <2>3
    <3> QED
      BY <1>3, <1>4, <1>6, <2>1, <3>1, JoinsOnce
  <2> QED
    BY <2>2, <2>3, <2>4
<1>8. ASSUME NEW i \in 1 .. Len(edges)
      PROVE  /\ b[i - 1] \in Nat
             /\ b[i - 1] + 1 \in 1 .. Len(f[hops])
             /\ f[hops][b[i - 1] + 1] = PathFrom(asset, taken(i))
             /\ \A j \in 1 .. Len(f[taken(i)]) :
                  /\ b[i - 1] + (1 + j) \in 1 .. Len(f[hops])
                  /\ f[hops][b[i - 1] + (1 + j)] = f[taken(i)][j]
  <2>1. 1 \in 1 .. 1 + Len(f[taken(i)])
    BY <1>7
  <2>2. \A j \in 1 .. Len(f[taken(i)]) : 1 + j \in 1 .. 1 + Len(f[taken(i)])
    BY <1>7
  <2>3. /\ blocks[i][1] = PathFrom(asset, taken(i))
        /\ \A j \in 1 .. Len(f[taken(i)]) : blocks[i][1 + j] = f[taken(i)][j]
    BY <1>3
  <2>4. ASSUME NEW j \in 1 .. Len(f[taken(i)])
        PROVE  /\ b[i - 1] + (1 + j) \in 1 .. Len(f[hops])
               /\ f[hops][b[i - 1] + (1 + j)] = f[taken(i)][j]
    <3> DEFINE k == 1 + j
    <3>1. k \in 1 .. 1 + Len(f[taken(i)]) /\ blocks[i][k] = f[taken(i)][j]
      BY <2>2, <2>3
    <3> HIDE DEF k
    <3>2. b[i - 1] + k \in 1 .. Len(f[hops]) /\ f[hops][b[i - 1] + k] = f[taken(i)][j]
      BY <1>7, <3>1
    <3> QED
      BY <3>2 DEF k
  <2> QED
    BY <1>7, <2>1, <2>3, <2>4
<1>9. ASSUME NEW p \in 1 .. Len(f[hops])
      PROVE  \E i \in 1 .. Len(edges) :
               \/ p = b[i - 1] + 1
               \/ \E j \in 1 .. Len(f[taken(i)]) : p = b[i - 1] + (1 + j)
  <2>1. PICK i \in 1 .. Len(blocks) : \E j \in 1 .. Len(blocks[i]) : p = b[i - 1] + j
    BY <1>5 DEF Covers
  <2>2. PICK j \in 1 .. Len(blocks[i]) : p = b[i - 1] + j
    BY <2>1
  <2>3. i \in 1 .. Len(edges) /\ Len(blocks[i]) = 1 + Len(f[taken(i)])
    BY <1>3
  <2>4. Len(f[taken(i)]) \in Nat
    BY <1>7, <2>3
  <2>5. j = 1 \/ (j - 1 \in 1 .. Len(f[taken(i)]) /\ j = 1 + (j - 1))
    BY <2>3, <2>4
  <2> QED
    BY <2>2, <2>3, <2>5
<1> QED
  BY <1>8, <1>9 DEF Opens, edges, taken

\* The k-th hop of a walk from `asset` is a trade that goes on from where the hop
\* before it led, through a pool not used before.
GoesOn(asset, walk, k) ==
  /\ Traded(walk[k])
  /\ walk[k].source = (IF k = 1 THEN asset ELSE walk[k - 1].destination)
  /\ \A l \in 1 .. k - 1 : walk[l].pool # walk[k].pool

\* `walk` begins with `hops` and goes on.
Extends(walk, hops) ==
  /\ Len(walk) > Len(hops)
  /\ \A k \in 1 .. Len(hops) : walk[k] = hops[k]

LEMMA GoesOnByPrefix ==
  ASSUME NEW asset, NEW v, NEW w, NEW k \in Nat \ {0},
         \A l \in 1 .. k : v[l] = w[l]
  PROVE  GoesOn(asset, v, k) <=> GoesOn(asset, w, k)
<1>1. v[k] = w[k]
  OBVIOUS
<1>2. k # 1 => v[k - 1] = w[k - 1]
  OBVIOUS
<1>3. \A l \in 1 .. k - 1 : v[l] = w[l]
  OBVIOUS
<1> QED
  BY <1>1, <1>2, <1>3 DEF GoesOn

\* Every edge taken goes on, and a walk that goes on takes one.
LEMMA EdgesGoOn ==
  ASSUME snapshot \in Seq(Entries), NEW asset \in Assets, NEW hops \in Seq(Hops),
         NEW hop \in Hops
  PROVE  LET taken == Append(hops, hop)
         IN  /\ taken \in Seq(Hops) /\ Len(taken) = Len(hops) + 1
             /\ \A k \in 1 .. Len(hops) : taken[k] = hops[k]
             /\ taken[Len(hops) + 1] = hop
             /\ GoesOn(asset, taken, Len(hops) + 1) <=>
                  /\ hop.source = Destination(PathFrom(asset, hops)) /\ Traded(hop)
                  /\ \A i \in 1 .. Len(hops) : hops[i].pool # hop.pool
<1> DEFINE taken == Append(hops, hop)
           n == Len(hops)
<1>1. /\ taken \in Seq(Hops) /\ Len(taken) = n + 1 /\ n \in Nat
      /\ \A k \in 1 .. n : taken[k] = hops[k]
      /\ taken[n + 1] = hop
  OBVIOUS
<1>2. Destination(PathFrom(asset, hops)) =
        IF n + 1 = 1 THEN asset ELSE taken[(n + 1) - 1].destination
  <2>1. hops = <<>> <=> n = 0
    OBVIOUS
  <2>2. n # 0 => n \in 1 .. n
    BY <1>1
  <2> HIDE DEF n, taken
  <2>3. CASE n = 0
    BY <2>1, <2>3 DEF Destination, PathFrom
  <2>4. CASE n # 0
    <3>1. n + 1 # 1 /\ (n + 1) - 1 = n /\ taken[n] = hops[n]
      BY <1>1, <2>2, <2>4
    <3>2. Destination(PathFrom(asset, hops)) = hops[n].destination
      BY <2>1, <2>4 DEF Destination, PathFrom, n
    <3> QED
      BY <3>1, <3>2
  <2> QED
    BY <2>3, <2>4
<1>3. GoesOn(asset, taken, n + 1) <=>
        /\ hop.source = Destination(PathFrom(asset, hops)) /\ Traded(hop)
        /\ \A i \in 1 .. n : hops[i].pool # hop.pool
  <2>1. (n + 1) - 1 = n
    BY <1>1
  <2> HIDE DEF n, taken
  <2> QED
    BY <1>1, <1>2, <2>1 DEF GoesOn
<1> QED
  BY <1>1, <1>3

\* What is found behind `hops`: walks that go on from there, the way to each
\* found before it, and each once if nothing is listed twice.
FindsWalks(f, asset, hops) ==
  /\ \A p \in 1 .. Len(f[hops]) :
        LET path == f[hops][p]
        IN  /\ path.start = asset
            /\ path.hops \in Seq(Hops) /\ Len(path.hops) <= MaxHops
            /\ Extends(path.hops, hops)
            /\ \A k \in Len(hops) + 1 .. Len(path.hops) : GoesOn(asset, path.hops, k)
            /\ Len(path.hops) > Len(hops) + 1 =>
                  \E q \in 1 .. p - 1 : f[hops][q].hops = Front(path.hops)
  /\ ListedOnce =>
        \A p, q \in 1 .. Len(f[hops]) : f[hops][p] = f[hops][q] => p = q

\* Every walk that goes on from `hops` is found.
FindsAllWalks(f, asset, hops) ==
  \A walk \in Seq(Hops) :
    /\ Extends(walk, hops) /\ Len(walk) <= MaxHops
    /\ \A k \in Len(hops) + 1 .. Len(walk) : GoesOn(asset, walk, k)
    => \E p \in 1 .. Len(f[hops]) : f[hops][p] = PathFrom(asset, walk)

\* Nothing is found behind MaxHops hops, and no longer walk is asked for.
LEMMA SearchEnds ==
  ASSUME NEW asset \in Assets, NEW f, IsSearch(f, asset),
         NEW hops \in Seq(Hops), Len(hops) >= MaxHops
  PROVE  FindsWalks(f, asset, hops) /\ FindsAllWalks(f, asset, hops)
<1>1. f[hops] = <<>>
  BY DEF IsSearch, Expansion
<1>2. FindsWalks(f, asset, hops)
  BY <1>1 DEF FindsWalks
<1>3. FindsAllWalks(f, asset, hops)
  <2> SUFFICES ASSUME NEW walk \in Seq(Hops), Len(walk) > Len(hops), Len(walk) <= MaxHops
               PROVE  FALSE
    BY DEF FindsAllWalks, Extends
  <2>1. Len(walk) \in Nat /\ Len(hops) \in Nat /\ MaxHops \in Nat
    BY SearchAssumption
  <2> QED
    BY <2>1
<1> QED
  BY <1>2, <1>3

\* What is found one hop further is found with one hop less.
LEMMA FindsWalksBefore ==
  ASSUME snapshot \in Seq(Entries), NEW asset \in Assets, NEW f, IsSearch(f, asset),
         NEW hops \in Seq(Hops), Len(hops) < MaxHops,
         \A longer \in Seq(Hops) : Len(longer) = Len(hops) + 1 => FindsWalks(f, asset, longer)
  PROVE  FindsWalks(f, asset, hops)
<1> DEFINE n == Len(hops)
           edges == EdgesAt(asset, hops)
           taken(i) == Append(hops, edges[i])
           here == Destination(PathFrom(asset, hops))
<1>1. PICK b : Opens(f, asset, hops, b)
  BY SearchOpens
<1>2. n \in Nat /\ MaxHops \in Nat /\ n < MaxHops
  BY SearchAssumption
<1>3. edges \in Seq(Hops) /\ FrontierIs(edges, here, hops)
  BY EdgesAtHops
<1> HIDE DEF edges
<1>4. ASSUME NEW i \in 1 .. Len(edges)
      PROVE  /\ taken(i) \in Seq(Hops) /\ Len(taken(i)) = n + 1
             /\ \A k \in 1 .. n : taken(i)[k] = hops[k]
             /\ taken(i)[n + 1] = edges[i]
             /\ GoesOn(asset, taken(i), n + 1)
             /\ FindsWalks(f, asset, taken(i))
             /\ Len(f[taken(i)]) \in Nat
  <2>1. edges[i] \in Hops
    BY <1>3
  <2>2. /\ edges[i].source = here /\ Traded(edges[i])
        /\ \A k \in 1 .. Len(hops) : hops[k].pool # edges[i].pool
    BY <1>3 DEF FrontierIs
  <2>3. /\ taken(i) \in Seq(Hops) /\ Len(taken(i)) = n + 1
        /\ \A k \in 1 .. n : taken(i)[k] = hops[k]
        /\ taken(i)[n + 1] = edges[i]
        /\ GoesOn(asset, taken(i), n + 1)
    BY <2>1, <2>2, EdgesGoOn
  <2> HIDE DEF taken, n
  <2>4. FindsWalks(f, asset, taken(i))
    BY <2>3 DEF n
  <2>5. f[taken(i)] \in Seq(Routes)
    BY <2>3 DEF IsSearch, Searches
  <2> QED
    BY <2>3, <2>4, <2>5
<1>5. /\ \A i \in 1 .. Len(edges) :
           /\ b[i - 1] \in Nat
           /\ b[i - 1] + 1 \in 1 .. Len(f[hops])
           /\ f[hops][b[i - 1] + 1] = PathFrom(asset, taken(i))
           /\ \A j \in 1 .. Len(f[taken(i)]) :
                /\ b[i - 1] + (1 + j) \in 1 .. Len(f[hops])
                /\ f[hops][b[i - 1] + (1 + j)] = f[taken(i)][j]
      /\ \A p \in 1 .. Len(f[hops]) : \E i \in 1 .. Len(edges) :
           \/ p = b[i - 1] + 1
           \/ \E j \in 1 .. Len(f[taken(i)]) : p = b[i - 1] + (1 + j)
  BY <1>1 DEF Opens, edges
<1> HIDE DEF taken, n, here
\* The path of an edge.
<1>6. ASSUME NEW i \in 1 .. Len(edges)
      PROVE  LET walk == f[hops][b[i - 1] + 1].hops
             IN  /\ f[hops][b[i - 1] + 1].start = asset
                 /\ walk = taken(i) /\ Len(walk) = n + 1
                 /\ walk \in Seq(Hops) /\ Len(walk) <= MaxHops
                 /\ Extends(walk, hops)
                 /\ \A k \in n + 1 .. Len(walk) : GoesOn(asset, walk, k)
  <2> DEFINE walk == f[hops][b[i - 1] + 1].hops
  <2>1. f[hops][b[i - 1] + 1] = PathFrom(asset, taken(i))
    BY <1>5
  <2>2. f[hops][b[i - 1] + 1].start = asset /\ walk = taken(i)
    BY <2>1 DEF PathFrom
  <2>3. Len(taken(i)) <= MaxHops /\ Extends(taken(i), hops)
    BY <1>2, <1>4 DEF Extends, n
  <2>4. \A k \in n + 1 .. Len(taken(i)) : GoesOn(asset, taken(i), k)
    <3>1. \A k \in n + 1 .. n + 1 : k = n + 1
      BY <1>2
    <3> QED
      BY <1>4, <3>1
  <2> HIDE DEF walk
  <2> QED
    BY <1>4, <2>2, <2>3, <2>4 DEF walk
\* A path found behind an edge.
<1>7. ASSUME NEW i \in 1 .. Len(edges), NEW j \in 1 .. Len(f[taken(i)])
      PROVE  LET walk == f[taken(i)][j].hops
             IN  /\ f[taken(i)][j].start = asset
                 /\ Len(walk) > n + 1 /\ walk[n + 1] = edges[i]
                 /\ \A k \in 1 .. n + 1 : walk[k] = taken(i)[k]
                 /\ walk \in Seq(Hops) /\ Len(walk) <= MaxHops
                 /\ Extends(walk, hops)
                 /\ \A k \in n + 1 .. Len(walk) : GoesOn(asset, walk, k)
  <2> DEFINE walk == f[taken(i)][j].hops
  <2>1. /\ taken(i) \in Seq(Hops) /\ Len(taken(i)) = n + 1
        /\ \A k \in 1 .. n : taken(i)[k] = hops[k]
        /\ taken(i)[n + 1] = edges[i]
        /\ GoesOn(asset, taken(i), n + 1)
    BY <1>4
  <2>2. /\ f[taken(i)][j].start = asset
        /\ walk \in Seq(Hops) /\ Len(walk) <= MaxHops
        /\ Extends(walk, taken(i))
        /\ \A k \in Len(taken(i)) + 1 .. Len(walk) : GoesOn(asset, walk, k)
    BY <1>4 DEF FindsWalks
  <2> HIDE DEF walk
  <2>3. Len(walk) > n + 1 /\ \A k \in 1 .. n + 1 : walk[k] = taken(i)[k]
    BY <2>1, <2>2 DEF Extends
  <2>4. walk[n + 1] = edges[i]
    BY <1>2, <2>1, <2>3
  <2>5. Extends(walk, hops)
    <3>1. Len(walk) \in Nat /\ Len(walk) > n
      BY <1>2, <2>2, <2>3
    <3>2. \A k \in 1 .. n : walk[k] = hops[k]
      BY <1>2, <2>1, <2>3
    <3> QED
      BY <3>1, <3>2 DEF Extends, n
  <2>6. GoesOn(asset, walk, n + 1)
    <3>1. n + 1 \in Nat \ {0}
      BY <1>2
    <3> QED
      BY <2>1, <2>3, <3>1, GoesOnByPrefix
  <2>7. \A k \in n + 1 .. Len(walk) : GoesOn(asset, walk, k)
    <3> TAKE k \in n + 1 .. Len(walk)
    <3>1. k = n + 1 \/ k \in Len(taken(i)) + 1 .. Len(walk)
      BY <1>2, <2>1
    <3> QED
      BY <2>2, <2>6, <3>1
  <2> QED
    BY <2>2, <2>3, <2>4, <2>5, <2>7 DEF walk
<1>8. ASSUME NEW p \in 1 .. Len(f[hops])
      PROVE  LET path == f[hops][p]
             IN  /\ path.start = asset
                 /\ path.hops \in Seq(Hops) /\ Len(path.hops) <= MaxHops
                 /\ Extends(path.hops, hops)
                 /\ \A k \in n + 1 .. Len(path.hops) : GoesOn(asset, path.hops, k)
                 /\ Len(path.hops) > n + 1 =>
                      \E q \in 1 .. p - 1 : f[hops][q].hops = Front(path.hops)
  <2>1. PICK i \in 1 .. Len(edges) :
           \/ p = b[i - 1] + 1
           \/ \E j \in 1 .. Len(f[taken(i)]) : p = b[i - 1] + (1 + j)
    BY <1>5
  <2>2. CASE p = b[i - 1] + 1
    <3>1. ~(Len(f[hops][p].hops) > n + 1)
      BY <1>2, <1>6, <2>2
    <3> QED
      BY <1>6, <2>2, <3>1
  <2>3. CASE \E j \in 1 .. Len(f[taken(i)]) : p = b[i - 1] + (1 + j)
    <3>1. PICK j \in 1 .. Len(f[taken(i)]) : p = b[i - 1] + (1 + j)
      BY <2>3
    <3>2. f[hops][p] = f[taken(i)][j] /\ b[i - 1] \in Nat
      BY <1>5, <3>1
    <3> DEFINE walk == f[taken(i)][j].hops
    <3>3. /\ walk \in Seq(Hops) /\ Len(walk) > n + 1
          /\ \A k \in 1 .. n + 1 : walk[k] = taken(i)[k]
      BY <1>7
    <3>4. \E q \in 1 .. p - 1 : f[hops][q].hops = Front(walk)
      <4>1. CASE Len(walk) > Len(taken(i)) + 1
        <5>1. PICK l \in 1 .. j - 1 : f[taken(i)][l].hops = Front(walk)
          BY <1>4, <4>1 DEF FindsWalks
        <5>2. l \in 1 .. Len(f[taken(i)])
          BY <1>4, <3>2, Behind
        <5> DEFINE q == b[i - 1] + (1 + l)
        <5>3. q \in 1 .. Len(f[hops]) /\ f[hops][q] = f[taken(i)][l]
          BY <1>5, <5>2
        <5>4. q \in 1 .. p - 1
          BY <1>4, <3>1, <3>2, Behind
        <5> HIDE DEF q, walk
        <5> QED
          BY <5>1, <5>3, <5>4
      <4>2. CASE ~(Len(walk) > Len(taken(i)) + 1)
        <5> HIDE DEF walk
        <5>1. taken(i) \in Seq(Hops) /\ Len(taken(i)) = n + 1
          BY <1>4
        <5>2. Len(walk) = n + 2 /\ Len(walk) - 1 = n + 1
          BY <1>2, <3>3, <4>2, <5>1
        <5>3. Front(walk) = [k \in 1 .. n + 1 |-> walk[k]]
          BY <1>2, <3>3, <5>2 DEF Front
        <5>4. taken(i) = [k \in 1 .. n + 1 |-> taken(i)[k]]
          BY <5>1
        <5>5. Front(walk) = taken(i)
          BY <3>3, <5>3, <5>4
        <5> DEFINE q == b[i - 1] + 1
        <5>6. f[hops][q].hops = Front(walk)
          BY <1>6, <5>5
        <5>7. q \in 1 .. p - 1
          BY <1>4, <3>1, <3>2, Behind
        <5> HIDE DEF q
        <5> QED
          BY <5>6, <5>7
      <4> QED
        BY <4>1, <4>2
    <3>5. /\ f[taken(i)][j].start = asset
          /\ walk \in Seq(Hops) /\ Len(walk) <= MaxHops
          /\ Extends(walk, hops)
          /\ \A k \in n + 1 .. Len(walk) : GoesOn(asset, walk, k)
      BY <1>7
    <3>6. walk = f[hops][p].hops
      BY <3>2
    <3> HIDE DEF walk
    <3> QED
      BY <3>2, <3>4, <3>5, <3>6
  <2> QED
    BY <2>1, <2>2, <2>3
<1>9. ASSUME ListedOnce, NEW p \in 1 .. Len(f[hops]), NEW q \in 1 .. Len(f[hops]),
             f[hops][p] = f[hops][q]
      PROVE  p = q
  <2>1. PICK i \in 1 .. Len(edges) :
           \/ p = b[i - 1] + 1
           \/ \E j \in 1 .. Len(f[taken(i)]) : p = b[i - 1] + (1 + j)
    BY <1>5
  <2>2. PICK k \in 1 .. Len(edges) :
           \/ q = b[k - 1] + 1
           \/ \E j \in 1 .. Len(f[taken(k)]) : q = b[k - 1] + (1 + j)
    BY <1>5
  <2>3. ASSUME NEW r \in 1 .. Len(f[hops]), NEW e \in 1 .. Len(edges),
               \/ r = b[e - 1] + 1
               \/ \E j \in 1 .. Len(f[taken(e)]) : r = b[e - 1] + (1 + j)
        PROVE  /\ f[hops][r].hops[n + 1] = edges[e]
               /\ r = b[e - 1] + 1 <=> Len(f[hops][r].hops) = n + 1
    <3>1. CASE r = b[e - 1] + 1
      BY <1>4, <1>6, <3>1
    <3>2. CASE \E j \in 1 .. Len(f[taken(e)]) : r = b[e - 1] + (1 + j)
      <4>1. PICK j \in 1 .. Len(f[taken(e)]) : r = b[e - 1] + (1 + j)
        BY <3>2
      <4>2. f[hops][r] = f[taken(e)][j] /\ b[e - 1] \in Nat
        BY <1>5, <4>1
      <4>3. r # b[e - 1] + 1
        BY <1>4, <4>1, <4>2, Behind
      <4>4. /\ f[hops][r].hops[n + 1] = edges[e]
            /\ f[hops][r].hops \in Seq(Hops) /\ Len(f[hops][r].hops) > n + 1
        <5>1. LET walk == f[taken(e)][j].hops
              IN  walk[n + 1] = edges[e] /\ walk \in Seq(Hops) /\ Len(walk) > n + 1
          BY <1>7
        <5> QED
          BY <4>2, <5>1
      <4>5. Len(f[hops][r].hops) # n + 1
        BY <1>2, <4>4
      <4> QED
        BY <4>3, <4>4, <4>5
    <3> QED
      BY <2>3, <3>1, <3>2
  <2>4. /\ f[hops][p].hops[n + 1] = edges[i]
        /\ p = b[i - 1] + 1 <=> Len(f[hops][p].hops) = n + 1
    BY <2>1, <2>3
  <2>5. /\ f[hops][q].hops[n + 1] = edges[k]
        /\ q = b[k - 1] + 1 <=> Len(f[hops][q].hops) = n + 1
    BY <2>2, <2>3
  <2>6. i = k
    <3>1. edges[i] = edges[k]
      BY <1>9, <2>4, <2>5
    <3> QED
      BY <1>3, <1>9, <3>1 DEF FrontierIs
  <2>7. CASE p = b[i - 1] + 1
    BY <1>9, <2>4, <2>5, <2>6, <2>7
  <2>8. CASE p # b[i - 1] + 1
    <3>1. q # b[k - 1] + 1
      BY <1>9, <2>4, <2>5, <2>8
    <3>2. PICK j \in 1 .. Len(f[taken(i)]) : p = b[i - 1] + (1 + j)
      BY <2>1, <2>8
    <3>3. PICK l \in 1 .. Len(f[taken(i)]) : q = b[i - 1] + (1 + l)
      BY <2>2, <2>6, <3>1
    <3>4. f[taken(i)][j] = f[taken(i)][l]
      BY <1>5, <1>9, <3>2, <3>3
    <3>5. j = l
      BY <1>4, <1>9, <3>4 DEF FindsWalks
    <3> QED
      BY <3>2, <3>3, <3>5
  <2> QED
    BY <2>7, <2>8
<1> QED
  BY <1>8, <1>9 DEF FindsWalks, n

\* What one hop more leads to is found with one hop less.
LEMMA FindsAllWalksBefore ==
  ASSUME snapshot \in Seq(Entries), NEW asset \in Assets, NEW f, IsSearch(f, asset),
         NEW hops \in Seq(Hops), Len(hops) < MaxHops, BeamFits,
         \A longer \in Seq(Hops) :
            Len(longer) = Len(hops) + 1 => FindsAllWalks(f, asset, longer)
  PROVE  FindsAllWalks(f, asset, hops)
<1> DEFINE n == Len(hops)
           edges == EdgesAt(asset, hops)
           here == Destination(PathFrom(asset, hops))
<1> SUFFICES ASSUME NEW walk \in Seq(Hops), Extends(walk, hops), Len(walk) <= MaxHops,
                    \A k \in n + 1 .. Len(walk) : GoesOn(asset, walk, k)
             PROVE  \E p \in 1 .. Len(f[hops]) : f[hops][p] = PathFrom(asset, walk)
  BY DEF FindsAllWalks
<1>1. PICK b : Opens(f, asset, hops, b)
  BY SearchOpens
<1>2. n \in Nat /\ Len(walk) \in Nat /\ Len(walk) >= n + 1
  BY DEF Extends
<1> DEFINE hop == walk[n + 1]
           taken == Append(hops, hop)
<1>3. hop \in Hops
  BY <1>2
<1>4. /\ taken \in Seq(Hops) /\ Len(taken) = n + 1
      /\ \A k \in 1 .. n : taken[k] = hops[k]
      /\ taken[n + 1] = hop
      /\ GoesOn(asset, taken, n + 1) <=>
            /\ hop.source = here /\ Traded(hop)
            /\ \A i \in 1 .. n : hops[i].pool # hop.pool
  <2> HIDE DEF hop
  <2> QED
    BY <1>3, EdgesGoOn
<1> HIDE DEF n, taken, here
<1>5. \A k \in 1 .. n + 1 : taken[k] = walk[k]
  <2> TAKE k \in 1 .. n + 1
  <2>1. k = n + 1 \/ k \in 1 .. n
    BY <1>2
  <2>2. k \in 1 .. n => walk[k] = hops[k]
    BY DEF Extends, n
  <2> QED
    BY <1>4, <2>1, <2>2
<1>6. GoesOn(asset, taken, n + 1)
  <2>1. GoesOn(asset, walk, n + 1) /\ n + 1 \in Nat \ {0}
    BY <1>2
  <2> QED
    BY <1>5, <2>1, GoesOnByPrefix
<1>7. PICK i \in 1 .. Len(edges) : edges[i] = hop
  <2>1. FrontierIs(edges, here, hops)
    BY EdgesAtHops DEF here
  <2> HIDE DEF edges, hop
  <2> QED
    BY <1>3, <1>4, <1>6, <2>1 DEF FrontierIs, n
<1>8. Append(hops, edges[i]) = taken
  BY <1>7 DEF taken
<1>9. /\ b[i - 1] + 1 \in 1 .. Len(f[hops])
      /\ f[hops][b[i - 1] + 1] = PathFrom(asset, taken)
      /\ \A j \in 1 .. Len(f[taken]) :
           /\ b[i - 1] + (1 + j) \in 1 .. Len(f[hops])
           /\ f[hops][b[i - 1] + (1 + j)] = f[taken][j]
  <2> HIDE DEF edges
  <2> QED
    BY <1>1, <1>8 DEF Opens, edges
<1>10. CASE Len(walk) = n + 1
  <2>1. taken = walk
    <3>1. taken = [k \in 1 .. n + 1 |-> taken[k]] /\ walk = [k \in 1 .. n + 1 |-> walk[k]]
      BY <1>4, <1>10
    <3> QED
      BY <1>5, <3>1
  <2> QED
    BY <1>9, <2>1
<1>11. CASE Len(walk) # n + 1
  <2>1. FindsAllWalks(f, asset, taken)
    BY <1>4 DEF n
  <2>2. Extends(walk, taken)
    BY <1>2, <1>4, <1>5, <1>11 DEF Extends
  <2>3. \A k \in Len(taken) + 1 .. Len(walk) : GoesOn(asset, walk, k)
    <3>1. \A k \in Len(taken) + 1 .. Len(walk) : k \in n + 1 .. Len(walk)
      BY <1>2, <1>4
    <3> QED
      BY <3>1
  <2>4. PICK j \in 1 .. Len(f[taken]) : f[taken][j] = PathFrom(asset, walk)
    BY <2>1, <2>2, <2>3 DEF FindsAllWalks
  <2> QED
    BY <1>9, <2>4
<1> QED
  BY <1>10, <1>11

\* What the search from `asset` finds.
LEMMA SearchFinds ==
  ASSUME snapshot \in Seq(Entries), NEW asset \in Assets
  PROVE  \E f : /\ IsSearch(f, asset) /\ FindPaths(snapshot, asset) = f[<<>>]
                /\ FindsWalks(f, asset, <<>>)
                /\ BeamFits => FindsAllWalks(f, asset, <<>>)
<1>1. PICK f : IsSearch(f, asset) /\ FindPaths(snapshot, asset) = f[<<>>]
  BY SearchExpands DEF IsSearch
<1> DEFINE Good(hops) == /\ FindsWalks(f, asset, hops)
                         /\ BeamFits => FindsAllWalks(f, asset, hops)
           S == {i \in Nat : \A hops \in Seq(Hops) : Len(hops) + i >= MaxHops => Good(hops)}
<1>2. MaxHops \in Nat /\ \A hops \in Seq(Hops) : Len(hops) \in Nat
  BY SearchAssumption
<1>3. 0 \in S
  <2> SUFFICES ASSUME NEW hops \in Seq(Hops), Len(hops) + 0 >= MaxHops PROVE Good(hops)
    OBVIOUS
  <2>1. Len(hops) >= MaxHops
    BY <1>2
  <2> QED
    BY <1>1, <2>1, SearchEnds
<1>4. ASSUME NEW i \in Nat, i \in S PROVE i + 1 \in S
  <2> SUFFICES ASSUME NEW hops \in Seq(Hops), Len(hops) + (i + 1) >= MaxHops
               PROVE  Good(hops)
    OBVIOUS
  <2>1. CASE Len(hops) >= MaxHops
    BY <1>1, <2>1, SearchEnds
  <2>2. CASE ~(Len(hops) >= MaxHops)
    <3>1. Len(hops) < MaxHops
      BY <1>2, <2>2
    <3>2. ASSUME NEW longer \in Seq(Hops), Len(longer) = Len(hops) + 1 PROVE Good(longer)
      <4>1. Len(longer) + i >= MaxHops
        BY <1>2, <3>2
      <4> HIDE DEF Good
      <4> QED
        BY <1>4, <4>1
    <3>3. FindsWalks(f, asset, hops)
      BY <1>1, <3>1, <3>2, FindsWalksBefore
    <3>4. BeamFits => FindsAllWalks(f, asset, hops)
      BY <1>1, <3>1, <3>2, FindsAllWalksBefore
    <3> QED
      BY <3>3, <3>4
  <2> QED
    BY <2>1, <2>2
<1>5. Nat \subseteq S
  <2> HIDE DEF S
  <2> QED
    BY <1>3, <1>4, Induction
<1>6. Good(<<>>)
  <2>1. <<>> \in Seq(Hops) /\ Len(<<>>) = 0
    OBVIOUS
  <2>2. Len(<<>>) + MaxHops >= MaxHops
    BY <1>2, <2>1
  <2> HIDE DEF Good
  <2> QED
    BY <1>2, <1>5, <2>1, <2>2
<1> QED
  BY <1>1, <1>6

\* Walks that go on from the start are the trails.
LEMMA WalksAreTrails ==
  ASSUME NEW asset \in Assets, start = <<asset>>, NEW path
  PROVE  path \in Trails <=>
           /\ path = PathFrom(asset, path.hops)
           /\ path.hops \in Seq(Hops) /\ Len(path.hops) \in 1 .. MaxHops
           /\ \A k \in 1 .. Len(path.hops) : GoesOn(asset, path.hops, k)
<1> DEFINE edges == {hop \in Hops : Traded(hop)}
<1>0. MaxHops \in Nat
  BY SearchAssumption
<1>1. ASSUME path \in Trails
      PROVE  /\ path = PathFrom(asset, path.hops)
             /\ path.hops \in Seq(Hops) /\ Len(path.hops) \in 1 .. MaxHops
             /\ \A k \in 1 .. Len(path.hops) : GoesOn(asset, path.hops, k)
  <2>1. PICK n \in 1 .. MaxHops : \E walk \in [1 .. n -> edges] :
          path = [start |-> start[1], hops |-> walk]
    BY <1>1 DEF Trails
  <2>2. PICK walk \in [1 .. n -> edges] : path = PathFrom(asset, walk)
    BY <2>1 DEF PathFrom
  <2>3. /\ path.hops = walk /\ path.start = asset
        /\ path = PathFrom(asset, path.hops)
    BY <2>2 DEF PathFrom
  <2>4. walk \in Seq(Hops) /\ Len(walk) = n
    <3>1. n \in Nat /\ walk \in [1 .. n -> Hops]
      BY <1>0, <2>2
    <3> QED
      BY <3>1
  <2>5. Connected(path) /\ NoPoolReuse(path)
    BY <1>1 DEF Trails
  <2>6. ASSUME NEW k \in 1 .. n PROVE GoesOn(asset, walk, k)
    <3>1. Traded(walk[k])
      BY <2>2
    <3>2. walk[k].source = IF k = 1 THEN asset ELSE walk[k - 1].destination
      <4>1. CASE k = 1
        BY <2>3, <2>5, <4>1 DEF Connected
      <4>2. CASE k # 1
        <5>1. k - 1 \in 1 .. Len(walk) - 1 /\ (k - 1) + 1 = k
          BY <1>0, <2>4, <4>2
        <5>2. walk[k - 1].destination = walk[(k - 1) + 1].source
          BY <2>3, <2>5, <5>1 DEF Connected
        <5> QED
          BY <4>2, <5>1, <5>2
      <4> QED
        BY <4>1, <4>2
    <3>3. \A l \in 1 .. k - 1 : walk[l].pool # walk[k].pool
      <4> TAKE l \in 1 .. k - 1
      <4>1. l \in 1 .. Len(walk) /\ k \in 1 .. Len(walk) /\ l # k
        BY <1>0, <2>4
      <4> QED
        BY <2>3, <2>5, <4>1 DEF NoPoolReuse
    <3> QED
      BY <3>1, <3>2, <3>3 DEF GoesOn
  <2> QED
    BY <2>3, <2>4, <2>6
<1>2. ASSUME path = PathFrom(asset, path.hops),
             path.hops \in Seq(Hops), Len(path.hops) \in 1 .. MaxHops,
             \A k \in 1 .. Len(path.hops) : GoesOn(asset, path.hops, k)
      PROVE  path \in Trails
  <2> DEFINE walk == path.hops
             n == Len(walk)
  <2>1. walk \in Seq(Hops) /\ n \in 1 .. MaxHops /\ n \in Nat
    BY <1>0, <1>2
  <2>2. path = [start |-> start[1], hops |-> walk] /\ path.start = asset
    BY <1>2 DEF PathFrom
  <2>3. \A k \in 1 .. n : GoesOn(asset, walk, k)
    BY <1>2
  <2>4. walk \in [1 .. n -> edges]
    <3>1. \A k \in 1 .. n : walk[k] \in Hops /\ Traded(walk[k])
      BY <2>1, <2>3 DEF GoesOn
    <3>2. walk = [k \in 1 .. n |-> walk[k]]
      BY <2>1
    <3> HIDE DEF walk, n
    <3> QED
      BY <3>1, <3>2
  <2>5. Connected(path)
    <3>1. walk # <<>>
      BY <2>1
    <3>2. walk[1].source = path.start
      BY <2>1, <2>2, <2>3 DEF GoesOn
    <3>3. ASSUME NEW i \in 1 .. n - 1 PROVE walk[i].destination = walk[i + 1].source
      <4>1. i + 1 \in 1 .. n /\ i + 1 # 1 /\ (i + 1) - 1 = i
        BY <2>1
      <4> QED
        BY <2>3, <4>1 DEF GoesOn
    <3> QED
      BY <3>1, <3>2, <3>3 DEF Connected
  <2>6. NoPoolReuse(path)
    <3> SUFFICES ASSUME NEW i \in 1 .. n, NEW j \in 1 .. n, walk[i].pool = walk[j].pool
                 PROVE  i = j
      BY DEF NoPoolReuse
    <3>1. ~(i < j)
      <4> SUFFICES ASSUME i < j PROVE FALSE
        OBVIOUS
      <4>1. i \in 1 .. j - 1
        BY <2>1
      <4> QED
        BY <2>3, <4>1 DEF GoesOn
    <3>2. ~(j < i)
      <4> SUFFICES ASSUME j < i PROVE FALSE
        OBVIOUS
      <4>1. j \in 1 .. i - 1
        BY <2>1
      <4> QED
        BY <2>3, <4>1 DEF GoesOn
    <3> QED
      BY <2>1, <3>1, <3>2
  <2> HIDE DEF walk, n
  <2> QED
    BY <2>1, <2>2, <2>4, <2>5, <2>6 DEF Trails
<1> QED
  BY <1>1, <1>2

-----------------------------------------------------------------------------
(* A cycle has one key, wherever it is entered. *)

\* The place of a rotated sequence that its i-th element comes from.
Shift(n, k, i) == IF i + k - 1 <= n THEN i + k - 1 ELSE i + k - 1 - n

\* Shifts permute the places, and two of them make one.
LEMMA ShiftsTurn ==
  ASSUME NEW n \in Nat, NEW k \in 1 .. n
  PROVE  /\ \A i \in 1 .. n : Shift(n, k, i) \in 1 .. n
         /\ \A i, j \in 1 .. n : Shift(n, k, i) = Shift(n, k, j) => i = j
         /\ \A m \in 1 .. n : \E l \in 1 .. n : Shift(n, k, l) = m
         /\ \A l, i \in 1 .. n :
              Shift(n, k, Shift(n, l, i)) = Shift(n, Shift(n, k, l), i)
<1>1. \A i \in 1 .. n : Shift(n, k, i) \in 1 .. n
  BY DEF Shift
<1>2. \A i, j \in 1 .. n : Shift(n, k, i) = Shift(n, k, j) => i = j
  BY DEF Shift
<1>3. ASSUME NEW m \in 1 .. n PROVE \E l \in 1 .. n : Shift(n, k, l) = m
  <2>1. CASE m >= k
    <3>1. m - k + 1 \in 1 .. n /\ Shift(n, k, m - k + 1) = m
      BY <2>1 DEF Shift
    <3> QED
      BY <3>1
  <2>2. CASE m < k
    <3>1. m - k + 1 + n \in 1 .. n /\ Shift(n, k, m - k + 1 + n) = m
      BY <2>2 DEF Shift
    <3> QED
      BY <3>1
  <2> QED
    BY <2>1, <2>2
<1>4. ASSUME NEW l \in 1 .. n, NEW i \in 1 .. n
      PROVE  Shift(n, k, Shift(n, l, i)) = Shift(n, Shift(n, k, l), i)
  BY DEF Shift
<1> QED
  BY <1>1, <1>2, <1>3, <1>4

LEMMA RotatedBy ==
  ASSUME NEW T, NEW s \in Seq(T), NEW k \in 1 .. Len(s)
  PROVE  /\ Rotated(s, k) \in Seq(T) /\ Len(Rotated(s, k)) = Len(s)
         /\ \A i \in 1 .. Len(s) : Rotated(s, k)[i] = s[Shift(Len(s), k, i)]
<1> DEFINE n == Len(s)
<1>1. n \in Nat /\ \A i \in 1 .. n : Shift(n, k, i) \in 1 .. n
  <2>1. n \in Nat /\ k \in 1 .. n
    OBVIOUS
  <2> HIDE DEF n
  <2> QED
    BY <2>1, ShiftsTurn
<1>2. Rotated(s, k) = [i \in 1 .. n |-> s[Shift(n, k, i)]]
  BY DEF Rotated, Shift
<1> HIDE DEF n
<1>3. \A i \in 1 .. n : s[Shift(n, k, i)] \in T
  BY <1>1 DEF n
<1> QED
  BY <1>1, <1>2, <1>3 DEF n

\* Where no id occurs twice, the smallest one has one place.
LEMMA MinIndexIs ==
  ASSUME NEW ids \in Seq(Nat), NEW i \in 1 .. Len(ids),
         \A j, k \in 1 .. Len(ids) : ids[j] = ids[k] => j = k,
         \A j \in 1 .. Len(ids) : ids[i] <= ids[j]
  PROVE  MinIndex(ids) = i
<1> DEFINE First(m) == \A j \in 1 .. Len(ids) : ids[m] <= ids[j] /\ (j < m => ids[m] < ids[j])
<1>1. \A j \in 1 .. Len(ids) : ids[j] \in Nat
  OBVIOUS
<1>2. First(i)
  <2> TAKE j \in 1 .. Len(ids)
  <2>1. j < i => ids[j] # ids[i]
    OBVIOUS
  <2>2. ids[i] \in Nat /\ ids[j] \in Nat /\ ids[i] <= ids[j]
    BY <1>1
  <2> QED
    BY <2>1, <2>2
<1>3. MinIndex(ids) \in 1 .. Len(ids) /\ First(MinIndex(ids))
  <2>1. MinIndex(ids) = CHOOSE m \in 1 .. Len(ids) : First(m)
    BY DEF MinIndex
  <2> HIDE DEF First
  <2> QED
    BY <1>2, <2>1
<1>4. ids[MinIndex(ids)] = ids[i]
  <2>1. ids[MinIndex(ids)] <= ids[i] /\ ids[i] <= ids[MinIndex(ids)]
    BY <1>3
  <2>2. ids[MinIndex(ids)] \in Nat /\ ids[i] \in Nat
    BY <1>1, <1>3
  <2> QED
    BY <2>1, <2>2
<1> QED
  BY <1>3, <1>4

LEMMA SmallestId ==
  ASSUME NEW ids \in Seq(Nat), ids # <<>>
  PROVE  \E i \in 1 .. Len(ids) : \A j \in 1 .. Len(ids) : ids[i] <= ids[j]
<1> DEFINE S == {ids[j] : j \in 1 .. Len(ids)}
<1>1. S \in SUBSET Nat /\ S # {}
  <2>1. 1 \in 1 .. Len(ids)
    OBVIOUS
  <2> QED
    BY <2>1
<1>2. PICK m \in S : \A k \in S : m <= k
  <2> HIDE DEF S
  <2> QED
    BY <1>1, Least
<1> QED
  BY <1>2

\* Rotated to its smallest id, a rotation is what the original is.
LEMMA RotationsAgree ==
  ASSUME NEW ids \in Seq(Nat), NEW k \in 1 .. Len(ids),
         \A i, j \in 1 .. Len(ids) : ids[i] = ids[j] => i = j
  PROVE  Rotated(Rotated(ids, k), MinIndex(Rotated(ids, k))) = Rotated(ids, MinIndex(ids))
<1> DEFINE n == Len(ids)
           turned == Rotated(ids, k)
<1>1. n \in Nat /\ k \in 1 .. n /\ \A i \in 1 .. n : ids[i] \in Nat
  OBVIOUS
<1>2. /\ turned \in Seq(Nat) /\ Len(turned) = n
      /\ \A i \in 1 .. n : turned[i] = ids[Shift(n, k, i)]
  BY RotatedBy
<1>3. PICK m \in 1 .. n : \A j \in 1 .. n : ids[m] <= ids[j]
  <2>1. ids # <<>>
    BY <1>1
  <2> QED
    BY <2>1, SmallestId
<1> HIDE DEF n, turned
<1>4. \A i \in 1 .. n : Shift(n, k, i) \in 1 .. n
  BY <1>1, ShiftsTurn
<1>5. PICK l \in 1 .. n : Shift(n, k, l) = m
  <2>1. \A x \in 1 .. n : \E y \in 1 .. n : Shift(n, k, y) = x
    BY <1>1, ShiftsTurn
  <2> QED
    BY <2>1
<1>6. MinIndex(ids) = m
  BY <1>3, MinIndexIs DEF n
<1>7. MinIndex(turned) = l
  <2>1. \A i, j \in 1 .. n : turned[i] = turned[j] => i = j
    <3> TAKE i, j \in 1 .. n
    <3> HAVE turned[i] = turned[j]
    <3>1. Shift(n, k, i) = Shift(n, k, j)
      BY <1>2, <1>4 DEF n
    <3> QED
      BY <1>1, <3>1, ShiftsTurn
  <2>2. \A j \in 1 .. n : turned[l] <= turned[j]
    BY <1>2, <1>3, <1>4, <1>5
  <2> QED
    BY <1>2, <2>1, <2>2, MinIndexIs
<1>8. /\ Rotated(turned, l) \in Seq(Nat) /\ Len(Rotated(turned, l)) = n
      /\ \A i \in 1 .. n : Rotated(turned, l)[i] = turned[Shift(n, l, i)]
  <2>1. turned \in Seq(Nat) /\ Len(turned) = n /\ l \in 1 .. Len(turned)
    BY <1>2
  <2>2. /\ Rotated(turned, l) \in Seq(Nat) /\ Len(Rotated(turned, l)) = Len(turned)
        /\ \A i \in 1 .. Len(turned) :
             Rotated(turned, l)[i] = turned[Shift(Len(turned), l, i)]
    BY ZenonT(30), <2>1, RotatedBy
  <2> QED
    BY <2>1, <2>2
<1>9. /\ Rotated(ids, m) \in Seq(Nat) /\ Len(Rotated(ids, m)) = n
      /\ \A i \in 1 .. n : Rotated(ids, m)[i] = ids[Shift(n, m, i)]
  BY ZenonT(30), RotatedBy DEF n
<1>10. ASSUME NEW i \in 1 .. n PROVE Rotated(turned, l)[i] = Rotated(ids, m)[i]
  <2>1. Shift(n, l, i) \in 1 .. n
    BY <1>1, ShiftsTurn
  <2>2. turned[Shift(n, l, i)] = ids[Shift(n, k, Shift(n, l, i))]
    BY <1>2, <2>1
  <2>3. Shift(n, k, Shift(n, l, i)) = Shift(n, m, i)
    BY <1>1, <1>5, ShiftsTurn
  <2> QED
    BY <1>8, <1>9, <2>2, <2>3
<1>11. Rotated(turned, l) = Rotated(ids, m)
  <2> DEFINE x == Rotated(turned, l)
             y == Rotated(ids, m)
  <2>1. x \in Seq(Nat) /\ y \in Seq(Nat) /\ Len(x) = n /\ Len(y) = n
    BY <1>8, <1>9
  <2>2. \A i \in 1 .. n : x[i] = y[i]
    BY <1>10
  <2> HIDE DEF x, y
  <2>3. x = [i \in 1 .. n |-> x[i]] /\ y = [i \in 1 .. n |-> y[i]]
    BY <2>1
  <2>4. x = y
    BY <2>2, <2>3
  <2> QED
    BY <2>4 DEF x, y
<1> QED
  BY <1>6, <1>7, <1>11 DEF turned

\* The paths a search may find.
TradeRoutes == {path \in Routes : Connected(path) /\ NoPoolReuse(path)}

\* The same trade has the same key.
LEMMA SameTradeSameKey ==
  ASSUME NEW p \in TradeRoutes, NEW q, SameTrade(p, q)
  PROVE  CanonicalKey(p) = CanonicalKey(q)
<1>1. CASE p = q
  BY <1>1
<1>2. CASE IsCycle(p) /\ \E k \in 1 .. Len(p.hops) : q = EnteredAt(p, k)
  <2> DEFINE hops == p.hops
             n == Len(hops)
             ids == Ids(p)
  <2>1. PICK k \in 1 .. n : q = EnteredAt(p, k)
    BY <1>2
  <2>2. /\ hops \in Seq(Hops) /\ n \in Nat /\ hops # <<>>
        /\ hops[1].source = p.start
        /\ \A i \in 1 .. n - 1 : hops[i].destination = hops[i + 1].source
        /\ \A i, j \in 1 .. n : hops[i].pool = hops[j].pool => i = j
    BY DEF TradeRoutes, Routes, Connected, NoPoolReuse
  <2>3. /\ ids \in Seq(Nat) /\ Len(ids) = n
        /\ \A i \in 1 .. n : ids[i] = hops[i].pool
    <3>1. \A i \in 1 .. n : hops[i].pool \in Nat
      <4>1. \A i \in 1 .. n : hops[i] \in Hops
        BY <2>2
      <4> QED
        BY <4>1, PoolIdsAssumption DEF Hops
    <3>2. ids = [i \in 1 .. n |-> hops[i].pool]
      BY DEF Ids
    <3> HIDE DEF hops, n, ids
    <3> QED
      BY <2>2, <3>1, <3>2
  <2>4. /\ q.start = hops[k].source /\ q.hops = Rotated(hops, k)
    BY <2>1 DEF EnteredAt
  <2>5. /\ q.hops \in Seq(Hops) /\ Len(q.hops) = n
        /\ \A i \in 1 .. n : q.hops[i] = hops[Shift(n, k, i)]
    <3> HIDE DEF hops
    <3> QED
      BY <2>2, <2>4, RotatedBy
  <2> HIDE DEF hops, n, ids
  <2>6. Ids(q) = Rotated(ids, k)
    <3>1. Ids(q) = [i \in 1 .. n |-> q.hops[i].pool]
      BY <2>5 DEF Ids
    <3>2. Rotated(ids, k) = [i \in 1 .. n |-> Rotated(ids, k)[i]]
      <4>1. Rotated(ids, k) \in Seq(Nat) /\ Len(Rotated(ids, k)) = n
        BY <2>3, RotatedBy
      <4> DEFINE x == Rotated(ids, k)
      <4> HIDE DEF x
      <4>2. x \in Seq(Nat) /\ Len(x) = n
        BY <4>1 DEF x
      <4>3. x = [i \in 1 .. n |-> x[i]]
        BY <4>2
      <4> QED
        BY <4>3 DEF x
    <3>3. ASSUME NEW i \in 1 .. n PROVE q.hops[i].pool = Rotated(ids, k)[i]
      <4>1. Shift(n, k, i) \in 1 .. n
        BY <2>2, ShiftsTurn
      <4>2. Rotated(ids, k)[i] = ids[Shift(n, k, i)]
        BY <2>3, RotatedBy
      <4> QED
        BY <2>3, <2>5, <4>1, <4>2
    <3> QED
      BY <3>1, <3>2, <3>3
  <2>7. IsCycle(q) /\ q.hops # <<>>
    <3>1. n # 0 /\ q.hops # <<>> /\ n \in 1 .. n
      BY <2>2, <2>5 DEF n
    <3>2. Destination(q) = hops[Shift(n, k, n)].destination
      BY <2>5, <3>1 DEF Destination
    <3>3. CASE k = 1
      <4>1. Shift(n, k, n) = n
        BY <2>2, <3>3 DEF Shift
      <4>2. hops[n].destination = p.start
        BY <1>2, <2>2 DEF IsCycle, Destination, hops, n
      <4> QED
        BY <2>2, <2>4, <3>1, <3>2, <3>3, <4>1, <4>2 DEF IsCycle
    <3>4. CASE k # 1
      <4>1. Shift(n, k, n) = k - 1 /\ k - 1 \in 1 .. n - 1 /\ (k - 1) + 1 = k
        BY <2>2, <3>4 DEF Shift
      <4>2. hops[k - 1].destination = hops[(k - 1) + 1].source
        BY <2>2, <4>1
      <4> QED
        BY <2>4, <3>1, <3>2, <4>1, <4>2 DEF IsCycle
    <3> QED
      BY <3>3, <3>4
  <2>8. Rotated(Ids(q), MinIndex(Ids(q))) = Rotated(ids, MinIndex(ids))
    <3>1. \A i, j \in 1 .. Len(ids) : ids[i] = ids[j] => i = j
      BY <2>2, <2>3
    <3> QED
      BY <2>3, <2>6, <3>1, RotationsAgree
  <2>9. CanonicalKey(p) = Rotated(ids, MinIndex(ids))
    BY <1>2, <2>2 DEF CanonicalKey, hops, ids
  <2>10. CanonicalKey(q) = Rotated(Ids(q), MinIndex(Ids(q)))
    BY <2>7 DEF CanonicalKey
  <2> QED
    BY <2>8, <2>9, <2>10
<1> QED
  BY <1>1, <1>2 DEF SameTrade

LEMMA PairRotates ==
  ASSUME NEW x \in Nat, NEW y \in Nat, x < y
  PROVE  /\ Rotated(<<x, y>>, MinIndex(<<x, y>>)) = <<x, y>>
         /\ Rotated(<<y, x>>, MinIndex(<<y, x>>)) = <<x, y>>
<1>1. \A v, w \in Nat : /\ <<v, w>> \in Seq(Nat) /\ Len(<<v, w>>) = 2
                        /\ <<v, w>>[1] = v /\ <<v, w>>[2] = w
  OBVIOUS
<1>2. \A i \in 1 .. 2 : i = 1 \/ i = 2
  OBVIOUS
<1>3. ASSUME NEW s \in Seq(Nat), Len(s) = 2,
             NEW m \in {1, 2}, s[m] = x, s[3 - m] = y
      PROVE  Rotated(s, MinIndex(s)) = <<x, y>>
  <2>1. m \in 1 .. 2 /\ \A j \in 1 .. 2 : s[m] <= s[j] /\ (j # m => s[m] < s[j])
    BY <1>2, <1>3
  <2>2. MinIndex(s) = m
    BY <1>3, <2>1 DEF MinIndex
  <2>3. Rotated(s, m) = [i \in 1 .. 2 |-> IF i + m - 1 <= 2 THEN s[i + m - 1] ELSE s[i + m - 1 - 2]]
    BY <1>3 DEF Rotated
  <2>4. Rotated(s, m) \in [1 .. 2 -> Nat] /\ Rotated(s, m)[1] = x /\ Rotated(s, m)[2] = y
    BY <1>3, <2>3
  <2>5. Rotated(s, m) = <<x, y>>
    BY <2>4
  <2> QED
    BY <2>2, <2>5
<1>4. Rotated(<<x, y>>, MinIndex(<<x, y>>)) = <<x, y>>
  <2> DEFINE s == <<x, y>>
  <2>1. s \in Seq(Nat) /\ Len(s) = 2 /\ s[1] = x /\ s[3 - 1] = y
    BY <1>1
  <2> HIDE DEF s
  <2>2. Rotated(s, MinIndex(s)) = <<x, y>>
    BY <1>3, <2>1
  <2> QED
    BY <2>2 DEF s
<1>5. Rotated(<<y, x>>, MinIndex(<<y, x>>)) = <<x, y>>
  <2> DEFINE s == <<y, x>>
  <2>1. s \in Seq(Nat) /\ Len(s) = 2 /\ s[2] = x /\ s[3 - 2] = y
    BY <1>1
  <2> HIDE DEF s
  <2>2. Rotated(s, MinIndex(s)) = <<x, y>>
    BY <1>3, <2>1
  <2> QED
    BY <2>2 DEF s
<1> QED
  BY <1>4, <1>5

Swap(pool, source, destination) == [pool |-> pool, source |-> source, destination |-> destination]

\* Out through pool p and back through pool q.
RoundTrip(a, b, p, q) == [start |-> a, hops |-> <<Swap(p, a, b), Swap(q, b, a)>>]

\* The converse fails: a key tells neither assets nor direction. Out through one
\* pool and back through another has the key of the opposite trade, out through the
\* other and back through the one, for any two assets and pools.
THEOREM OppositesShareKey ==
  ASSUME NEW a \in Assets, NEW b \in Assets, a # b,
         NEW p \in PoolIds, NEW q \in PoolIds, p # q
  PROVE  /\ {RoundTrip(a, b, p, q), RoundTrip(a, b, q, p)} \subseteq TradeRoutes
         /\ CanonicalKey(RoundTrip(a, b, p, q)) = CanonicalKey(RoundTrip(a, b, q, p))
         /\ ~SameTrade(RoundTrip(a, b, p, q), RoundTrip(a, b, q, p))
<1>1. p \in Nat /\ q \in Nat
  BY PoolIdsAssumption
<1>2. \A v \in PoolIds, w \in PoolIds :
        LET path == RoundTrip(a, b, v, w)
        IN  /\ path.start = a /\ path.hops = <<Swap(v, a, b), Swap(w, b, a)>>
            /\ Len(path.hops) = 2 /\ path.hops \in Seq(Hops)
            /\ path.hops[1].pool = v /\ path.hops[2].pool = w
            /\ path.hops[1].source = a /\ path.hops[1].destination = b
            /\ path.hops[2].source = b /\ path.hops[2].destination = a
            /\ path \in Routes
  <2> TAKE v \in PoolIds, w \in PoolIds
  <2> DEFINE x == Swap(v, a, b)
             y == Swap(w, b, a)
  <2>1. /\ x \in Hops /\ y \in Hops
        /\ x.pool = v /\ x.source = a /\ x.destination = b
        /\ y.pool = w /\ y.source = b /\ y.destination = a
    BY DEF Swap, Hops
  <2> HIDE DEF x, y
  <2>2. <<x, y>> \in Seq(Hops) /\ Len(<<x, y>>) = 2 /\ <<x, y>>[1] = x /\ <<x, y>>[2] = y
    BY <2>1
  <2>3. RoundTrip(a, b, v, w) = [start |-> a, hops |-> <<x, y>>]
    BY DEF RoundTrip, x, y
  <2>4. RoundTrip(a, b, v, w) \in Routes
    BY <2>2, <2>3 DEF Routes
  <2> QED
    BY <2>1, <2>2, <2>3, <2>4 DEF x, y
<1>3. \A i \in 1 .. 2 : i = 1 \/ i = 2
  OBVIOUS
<1>4. \A v \in PoolIds, w \in PoolIds : v # w => RoundTrip(a, b, v, w) \in TradeRoutes
  <2> TAKE v \in PoolIds, w \in PoolIds
  <2> HAVE v # w
  <2> DEFINE path == RoundTrip(a, b, v, w)
  <2>1. /\ path.start = a /\ Len(path.hops) = 2
        /\ path.hops[1].pool = v /\ path.hops[2].pool = w
        /\ path.hops[1].source = a /\ path.hops[1].destination = b
        /\ path.hops[2].source = b /\ path \in Routes /\ path.hops \in Seq(Hops)
    BY <1>2
  <2> HIDE DEF path
  <2>2. path.hops # <<>>
    BY <2>1
  <2>3. \A i \in 1 .. Len(path.hops) - 1 : i = 1
    BY <2>1
  <2>4. Connected(path)
    BY <2>1, <2>2, <2>3 DEF Connected
  <2>5. NoPoolReuse(path)
    BY <1>3, <2>1 DEF NoPoolReuse
  <2> QED
    BY <2>1, <2>4, <2>5 DEF TradeRoutes, path
<1>5. \A v \in PoolIds, w \in PoolIds :
        CanonicalKey(RoundTrip(a, b, v, w)) = Rotated(<<v, w>>, MinIndex(<<v, w>>))
  <2> TAKE v \in PoolIds, w \in PoolIds
  <2> DEFINE path == RoundTrip(a, b, v, w)
  <2>1. /\ path.start = a /\ Len(path.hops) = 2 /\ path.hops \in Seq(Hops)
        /\ path.hops[1].pool = v /\ path.hops[2].pool = w
        /\ path.hops[2].destination = a
    BY <1>2
  <2> HIDE DEF path
  <2>2. path.hops # <<>> /\ IsCycle(path)
    BY <2>1 DEF IsCycle, Destination
  <2>3. Ids(path) = <<v, w>>
    <3>1. Ids(path) = [i \in 1 .. 2 |-> path.hops[i].pool]
      BY <2>1 DEF Ids
    <3>2. [i \in 1 .. 2 |-> path.hops[i].pool] = <<v, w>>
      BY <1>3, <2>1
    <3> QED
      BY <3>1, <3>2
  <2>4. CanonicalKey(path) = Rotated(<<v, w>>, MinIndex(<<v, w>>))
    BY <2>2, <2>3 DEF CanonicalKey
  <2> QED
    BY <2>4 DEF path
<1>6. CanonicalKey(RoundTrip(a, b, p, q)) = CanonicalKey(RoundTrip(a, b, q, p))
  <2>1. /\ CanonicalKey(RoundTrip(a, b, p, q)) = Rotated(<<p, q>>, MinIndex(<<p, q>>))
        /\ CanonicalKey(RoundTrip(a, b, q, p)) = Rotated(<<q, p>>, MinIndex(<<q, p>>))
    BY <1>5
  <2>2. p < q \/ q < p
    BY <1>1
  <2>3. Rotated(<<p, q>>, MinIndex(<<p, q>>)) = Rotated(<<q, p>>, MinIndex(<<q, p>>))
    <3>1. CASE p < q
      <4>1. /\ Rotated(<<p, q>>, MinIndex(<<p, q>>)) = <<p, q>>
            /\ Rotated(<<q, p>>, MinIndex(<<q, p>>)) = <<p, q>>
        BY <1>1, <3>1, PairRotates, Zenon
      <4> QED
        BY <4>1, Zenon
    <3>2. CASE q < p
      <4>1. /\ Rotated(<<q, p>>, MinIndex(<<q, p>>)) = <<q, p>>
            /\ Rotated(<<p, q>>, MinIndex(<<p, q>>)) = <<q, p>>
        BY <1>1, <3>2, PairRotates, Zenon
      <4> QED
        BY <4>1, Zenon
    <3> QED
      BY <2>2, <3>1, <3>2, Zenon
  <2> QED
    BY <2>1, <2>3, Zenon
<1>7. ~SameTrade(RoundTrip(a, b, p, q), RoundTrip(a, b, q, p))
  <2> DEFINE path == RoundTrip(a, b, p, q)
             back == RoundTrip(a, b, q, p)
  <2>1. /\ path.start = a /\ Len(path.hops) = 2
        /\ path.hops[1].pool = p /\ path.hops[1].source = a /\ path.hops[2].source = b
        /\ back.start = a /\ back.hops[1].pool = q
    BY <1>2
  <2> HIDE DEF path, back
  <2>2. path # back
    BY <2>1
  <2>3. ASSUME NEW k \in 1 .. Len(path.hops), back = EnteredAt(path, k) PROVE FALSE
    <3>1. path.hops[k].source = a
      BY <2>1, <2>3 DEF EnteredAt
    <3>2. k = 1
      BY <1>3, <2>1, <3>1
    <3>3. back.hops[1] = path.hops[1]
      BY <2>1, <2>3, <3>2 DEF EnteredAt, Rotated
    <3> QED
      BY <2>1, <3>3
  <2> QED
    BY <2>2, <2>3 DEF SameTrade, path, back
<1> QED
  BY <1>4, <1>6, <1>7

-----------------------------------------------------------------------------
(* The score is a total order up to equal scores. *)

\* Scores compare as pairs of integers: reflexive, total, transitive.
LEMMA AtLeastIsTotalOrder ==
  ASSUME NEW o \in Opportunities, NEW p \in Opportunities, NEW q \in Opportunities
  PROVE  /\ AtLeast(o, o)
         /\ AtLeast(o, p) \/ AtLeast(p, o)
         /\ AtLeast(o, p) /\ AtLeast(p, q) => AtLeast(o, q)
<1>1. \A r \in Opportunities : r.profit \in Int /\ r.roi \in Int
  <2>1. Profits \cup {Unpriced} \subseteq Int /\ Rois \subseteq Int
    BY ScoreAssumption
  <2>2. \A r \in Opportunities : r.profit \in Profits \cup {Unpriced} /\ r.roi \in Rois
    BY DEF Opportunities
  <2> QED
    BY <2>1, <2>2
<1>2. /\ o.profit \in Int /\ o.roi \in Int
      /\ p.profit \in Int /\ p.roi \in Int
      /\ q.profit \in Int /\ q.roi \in Int
  BY <1>1
<1> QED
  BY <1>2 DEF AtLeast

-----------------------------------------------------------------------------
(* The invariant. *)

\* The batch is a sequence of opportunities, of which the loop has seen a part.
BatchInv ==
  /\ batch \in Seq(Opportunities)
  /\ next \in 0 .. Len(batch)

\* After each opportunity, the loop holds for every key seen one that scores at
\* least as high as all of that key, and of those the one seen first; it holds
\* nothing else.
LoopInv ==
  /\ \A i \in 1 .. next :
       /\ Key(batch[i]) \in DOMAIN best
       /\ AtLeast(best[Key(batch[i])], batch[i])
  /\ \A k \in DOMAIN best :
       \E i \in 1 .. next :
         best[k] = batch[i] /\ Key(batch[i]) = k /\ IsFirstBest(i)

\* The opportunities kept when the loop is done.
Survivors == {best[k] : k \in DOMAIN best}

\* The result is none yet, or every survivor of the whole batch, best first, in
\* as many positions as there are survivors.
SortInv ==
  ranked # <<>> =>
    /\ next = Len(batch)
    /\ ranked \in [1 .. Cardinality(Survivors) -> Survivors]
    /\ \A opp \in Survivors : \E i \in 1 .. Cardinality(Survivors) : ranked[i] = opp
    /\ \A i, j \in 1 .. Cardinality(Survivors) :
         i <= j => AtLeast(ranked[i], ranked[j])

RankInv == BatchInv /\ LoopInv /\ SortInv

LEMMA InitEstablishesRankInv == Init => RankInv
<1> SUFFICES ASSUME Init PROVE RankInv
  OBVIOUS
<1>1. BatchInv
  BY BatchesAssumption DEF Init, BatchInv
<1>2. LoopInv
  BY DEF Init, LoopInv
<1>3. SortInv
  BY DEF Init, SortInv
<1> QED
  BY <1>1, <1>2, <1>3 DEF RankInv

\* The loop body drops an opportunity only for one kept of its key.
LEMMA DropKeepsRankInv == RankInv /\ Drop => RankInv'
<1> SUFFICES ASSUME RankInv, Drop PROVE RankInv'
  OBVIOUS
<1> DEFINE opp == batch[next + 1]
<1>1. /\ batch' = batch /\ best' = best /\ ranked' = ranked
      /\ next \in Nat /\ next' = next + 1 /\ next < Len(batch)
      /\ Len(batch) \in Nat
  BY DEF RankInv, BatchInv, Drop
<1>2. Key(opp) \in DOMAIN best /\ AtLeast(best[Key(opp)], opp)
  BY DEF Drop, Beaten
<1>3. BatchInv'
  BY <1>1 DEF RankInv, BatchInv
<1>4. \A i \in 1 .. next' :
        /\ Key(batch[i]) \in DOMAIN best
        /\ AtLeast(best[Key(batch[i])], batch[i])
  <2> TAKE i \in 1 .. next'
  <2>1. i \in 1 .. next \/ i = next + 1
    BY <1>1
  <2> QED
    BY <1>2, <2>1 DEF RankInv, LoopInv
<1>5. \A k \in DOMAIN best : \E i \in 1 .. next' :
        best[k] = batch[i] /\ Key(batch[i]) = k /\ IsFirstBest(i)
  <2> TAKE k \in DOMAIN best
  <2>1. PICK i \in 1 .. next :
          best[k] = batch[i] /\ Key(batch[i]) = k /\ IsFirstBest(i)
    BY DEF RankInv, LoopInv
  <2>2. i \in 1 .. next'
    BY <1>1, <2>1
  <2> QED
    BY <2>1, <2>2
<1>6. LoopInv'
  BY <1>1, <1>4, <1>5 DEF LoopInv, IsFirstBest, Key, AtLeast
<1>7. SortInv'
  BY <1>1 DEF RankInv, SortInv
<1> QED
  BY <1>3, <1>6, <1>7 DEF RankInv

\* The loop body keeps an opportunity that beats all of its key before it.
LEMMA KeepKeepsRankInv == RankInv /\ Keep => RankInv'
<1> SUFFICES ASSUME RankInv, Keep PROVE RankInv'
  OBVIOUS
<1> DEFINE opp == batch[next + 1]
<1>1. /\ batch' = batch /\ ranked' = ranked
      /\ next \in Nat /\ next' = next + 1 /\ next < Len(batch)
      /\ Len(batch) \in Nat
  BY DEF RankInv, BatchInv, Keep
<1>2. /\ ~Beaten(opp)
      /\ best' = [k \in DOMAIN best \cup {Key(opp)} |->
                    IF k = Key(opp) THEN opp ELSE best[k]]
  BY DEF Keep
<1>3. \A i \in 1 .. next + 1 : batch[i] \in Opportunities
  BY <1>1 DEF RankInv, BatchInv
<1>4. BatchInv'
  BY <1>1 DEF RankInv, BatchInv
<1>5. opp \in Opportunities /\ AtLeast(opp, opp)
  BY <1>1, <1>3, AtLeastIsTotalOrder
<1>6. \A i \in 1 .. next : Key(batch[i]) = Key(opp) => ~AtLeast(batch[i], opp)
  <2> SUFFICES ASSUME NEW i \in 1 .. next, Key(batch[i]) = Key(opp),
                      AtLeast(batch[i], opp)
               PROVE  FALSE
    OBVIOUS
  <2>1. Key(opp) \in DOMAIN best /\ AtLeast(best[Key(opp)], batch[i])
    BY DEF RankInv, LoopInv
  <2>2. best[Key(opp)] \in Opportunities
    BY <1>1, <1>3, <2>1 DEF RankInv, LoopInv
  <2>3. batch[i] \in Opportunities
    BY <1>1, <1>3
  <2>4. AtLeast(best[Key(opp)], opp)
    BY <1>5, <2>1, <2>2, <2>3, AtLeastIsTotalOrder
  <2> QED
    BY <1>2, <2>1, <2>4 DEF Beaten
<1>7. \A i \in 1 .. next' :
        /\ Key(batch[i]) \in DOMAIN best'
        /\ AtLeast(best'[Key(batch[i])], batch[i])
  <2> TAKE i \in 1 .. next'
  <2>1. CASE i = next + 1
    BY <1>2, <1>5, <2>1
  <2>2. CASE i \in 1 .. next /\ Key(batch[i]) # Key(opp)
    BY <1>2, <2>2 DEF RankInv, LoopInv
  <2>3. CASE i \in 1 .. next /\ Key(batch[i]) = Key(opp)
    <3>1. batch[i] \in Opportunities
      BY <1>1, <1>3, <2>3
    <3>2. AtLeast(opp, batch[i])
      BY <1>5, <1>6, <2>3, <3>1, AtLeastIsTotalOrder
    <3> QED
      BY <1>2, <2>3, <3>2
  <2> QED
    BY <1>1, <2>1, <2>2, <2>3
<1>8. \A k \in DOMAIN best' : \E i \in 1 .. next' :
        best'[k] = batch[i] /\ Key(batch[i]) = k /\ IsFirstBest(i)
  <2> TAKE k \in DOMAIN best'
  <2>1. CASE k = Key(opp)
    <3>1. IsFirstBest(next + 1)
      BY <1>1, <1>6 DEF IsFirstBest
    <3>2. next + 1 \in 1 .. next'
      BY <1>1
    <3> QED
      BY <1>2, <2>1, <3>1, <3>2
  <2>2. CASE k # Key(opp)
    <3>1. k \in DOMAIN best /\ best'[k] = best[k]
      BY <1>2, <2>2
    <3>2. PICK i \in 1 .. next :
            best[k] = batch[i] /\ Key(batch[i]) = k /\ IsFirstBest(i)
      BY <3>1 DEF RankInv, LoopInv
    <3>3. i \in 1 .. next'
      BY <1>1, <3>2
    <3> QED
      BY <3>1, <3>2, <3>3
  <2> QED
    BY <2>1, <2>2
<1>9. LoopInv'
  BY <1>1, <1>7, <1>8 DEF LoopInv, IsFirstBest, Key, AtLeast
<1>10. SortInv'
  BY <1>1 DEF RankInv, SortInv
<1> QED
  BY <1>4, <1>9, <1>10 DEF RankInv

LEMMA SortKeepsRankInv == RankInv /\ Sort => RankInv'
<1> SUFFICES ASSUME RankInv, Sort PROVE RankInv'
  OBVIOUS
<1>1. batch' = batch /\ next' = next /\ best' = best /\ next = Len(batch)
  BY DEF Sort
<1>2. BatchInv' /\ LoopInv'
  BY <1>1 DEF RankInv, BatchInv, LoopInv, IsFirstBest, Key, AtLeast
<1>3. ranked' \in Orders(Survivors) /\ Survivors' = Survivors
  BY <1>1 DEF Sort, Survivors
<1>4. /\ ranked' \in [1 .. Cardinality(Survivors) -> Survivors]
      /\ \A opp \in Survivors :
           \E i \in 1 .. Cardinality(Survivors) : ranked'[i] = opp
      /\ \A i, j \in 1 .. Cardinality(Survivors) :
           i <= j => AtLeast(ranked'[i], ranked'[j])
  BY <1>3, Zenon DEF Orders
<1>5. SortInv'
  BY <1>1, <1>3, <1>4 DEF SortInv, AtLeast
<1> QED
  BY <1>2, <1>5 DEF RankInv

LEMMA RankInvStutters == RankInv /\ UNCHANGED vars => RankInv'
<1> SUFFICES ASSUME RankInv, UNCHANGED vars PROVE RankInv'
  OBVIOUS
<1>1. batch' = batch /\ next' = next /\ best' = best /\ ranked' = ranked
  BY DEF vars
<1>2. BatchInv' /\ LoopInv'
  BY <1>1 DEF RankInv, BatchInv, LoopInv, IsFirstBest, Key, AtLeast
<1>3. Survivors' = Survivors
  BY <1>1 DEF Survivors
<1>4. SortInv'
  BY <1>1, <1>3 DEF RankInv, SortInv, AtLeast
<1> QED
  BY <1>2, <1>4 DEF RankInv

\* The loop and the sort keep the invariant.
THEOREM RankInvariant == Spec => []RankInv
<1>1. RankInv /\ [Next]_vars => RankInv'
  BY DropKeepsRankInv, KeepKeepsRankInv, SortKeepsRankInv, RankInvStutters DEF Next
<1> QED
  BY InitEstablishesRankInv, <1>1, PTL DEF Spec

-----------------------------------------------------------------------------
(* What is served. *)

\* There are finitely many survivors: each is an opportunity of the batch.
LEMMA SurvivorsAreFinite ==
  RankInv => IsFiniteSet(Survivors) /\ Cardinality(Survivors) \in Nat
<1> SUFFICES ASSUME RankInv
             PROVE  IsFiniteSet(Survivors) /\ Cardinality(Survivors) \in Nat
  OBVIOUS
<1> DEFINE Seen == {batch[i] : i \in 1 .. next}
           seen == [i \in 1 .. next |-> batch[i]]
<1>1. next \in Nat
  BY DEF RankInv, BatchInv
<1>2. IsFiniteSet(1 .. next)
  BY <1>1, FS_Interval
<1>3. seen \in Surjection(1 .. next, Seen)
  BY DEF Surjection
<1>4. IsFiniteSet(Seen)
  <2> HIDE DEF Seen, seen
  <2> QED
    BY <1>2, <1>3, FS_Surjection
<1>5. Survivors \in SUBSET Seen
  BY DEF RankInv, LoopInv, Survivors
<1>6. IsFiniteSet(Survivors)
  <2> HIDE DEF Seen
  <2> QED
    BY <1>4, <1>5, FS_Subset
<1> QED
  BY <1>6, FS_CardinalityType

\* Every survivor has one place in the result, and the result is a sequence.
LEMMA SurvivorsRankedOnce ==
  ASSUME RankInv, ranked # <<>>
  PROVE  /\ Kept = 1 .. Cardinality(Survivors)
         /\ \A i, j \in Kept : ranked[i] = ranked[j] => i = j
<1> DEFINE n == Cardinality(Survivors)
<1>1. IsFiniteSet(Survivors) /\ n \in Nat
  BY SurvivorsAreFinite
<1>2. /\ ranked \in [1 .. n -> Survivors]
      /\ \A opp \in Survivors : \E i \in 1 .. n : ranked[i] = opp
  BY DEF RankInv, SortInv
<1>3. Kept = 1 .. n
  <2>1. Len(ranked) = n
    <3> HIDE DEF n
    <3>1. ranked \in Seq(Survivors)
      BY <1>1, <1>2
    <3> QED
      BY <1>1, <1>2, <3>1
  <2> QED
    BY <2>1 DEF Kept
<1>4. IsFiniteSet(1 .. n) /\ Cardinality(1 .. n) = n
  <2> HIDE DEF n
  <2> QED
    BY <1>1, FS_Interval
<1>5. ranked \in Surjection(1 .. n, Survivors)
  BY <1>2 DEF Surjection
<1>6. ranked \in Injection(1 .. n, Survivors)
  BY <1>4, <1>5, FS_SurjSameCardinalityImpliesInj
<1>7. \A i, j \in 1 .. n : ranked[i] = ranked[j] => i = j
  <2> HIDE DEF n
  <2> QED
    BY <1>2, <1>6, Zenon DEF Injection, IsInjective
<1> QED
  BY <1>3, <1>7

\* No key and no profit is lost on the way to the result.
LEMMA RankedIsBest == RankInv => RankedBest
<1> SUFFICES ASSUME RankInv, ranked # <<>> PROVE RankedBest
  BY DEF RankedBest
<1>1. /\ next = Len(batch) /\ next \in Nat
      /\ \A i \in Positions : batch[i] \in Opportunities
  BY DEF RankInv, BatchInv, SortInv, Positions
<1>2. /\ ranked \in [Kept -> Survivors]
      /\ \A opp \in Survivors : \E j \in Kept : ranked[j] = opp
      /\ \A i, j \in Kept : i <= j => AtLeast(ranked[i], ranked[j])
  BY SurvivorsRankedOnce DEF RankInv, SortInv
<1>3. /\ Kept \subseteq Nat \ {0}
      /\ \A j \in Kept : 1 \in Kept
  BY SurvivorsRankedOnce, SurvivorsAreFinite
<1>4. \A k \in DOMAIN best :
        Key(best[k]) = k /\ \E i \in Positions : best[k] = batch[i]
  BY <1>1 DEF RankInv, LoopInv, Positions
<1>5. \A i \in Positions : \E j \in Kept :
        Key(ranked[j]) = Key(batch[i]) /\ AtLeast(ranked[j], batch[i])
  <2> TAKE i \in Positions
  <2>1. /\ Key(batch[i]) \in DOMAIN best
        /\ AtLeast(best[Key(batch[i])], batch[i])
    BY <1>1 DEF RankInv, LoopInv, Positions
  <2>2. PICK j \in Kept : ranked[j] = best[Key(batch[i])]
    BY <1>2, <2>1 DEF Survivors
  <2> QED
    BY <1>4, <2>1, <2>2
<1>6. \A i, j \in Kept : Key(ranked[i]) = Key(ranked[j]) => i = j
  <2> SUFFICES ASSUME NEW i \in Kept, NEW j \in Kept,
                      Key(ranked[i]) = Key(ranked[j])
               PROVE  i = j
    OBVIOUS
  <2>1. ranked[i] \in Survivors /\ ranked[j] \in Survivors
    BY <1>2
  <2>2. ranked[i] = ranked[j]
    BY <1>4, <2>1 DEF Survivors
  <2> QED
    BY <2>2, SurvivorsRankedOnce
<1>7. \A j \in Kept : \E i \in Positions : ranked[j] = batch[i]
  BY <1>2, <1>4 DEF Survivors
<1>8. \A i \in Positions : AtLeast(ranked[1], batch[i])
  <2> TAKE i \in Positions
  <2>1. PICK j \in Kept : AtLeast(ranked[j], batch[i])
    BY <1>5
  <2>2. 1 \in Kept /\ AtLeast(ranked[1], ranked[j])
    BY <1>2, <1>3
  <2>3. /\ batch[i] \in Opportunities
        /\ ranked[j] \in Opportunities
        /\ ranked[1] \in Opportunities
    BY <1>1, <1>7, <2>1, <2>2
  <2> QED
    BY <2>1, <2>2, <2>3, AtLeastIsTotalOrder
<1> QED
  BY <1>5, <1>6, <1>7, <1>8 DEF RankedBest

\* Deduplication loses no key and no profit: every opportunity of the batch is
\* represented by one of the same key that scores at least as high, no key is
\* served twice, nothing is served that was not found, and the first one served
\* is the best of the whole batch.
THEOREM ServesTheBest == Spec => []RankedBest
  BY RankInvariant, RankedIsBest, PTL

\* What is kept of a key is the first of its best.
LEMMA RankedIsFirst == RankInv => FirstOfEquals
<1> SUFFICES ASSUME RankInv, NEW j \in Kept
             PROVE  \E i \in Positions : ranked[j] = batch[i] /\ IsFirstBest(i)
  BY DEF FirstOfEquals
<1>1. ranked # <<>>
  BY DEF Kept
<1>2. next = Len(batch) /\ ranked \in [Kept -> Survivors]
  BY <1>1, SurvivorsRankedOnce DEF RankInv, SortInv
<1>3. PICK k \in DOMAIN best : ranked[j] = best[k]
  BY <1>2 DEF Survivors
<1>4. PICK i \in 1 .. next : best[k] = batch[i] /\ IsFirstBest(i)
  BY DEF RankInv, LoopInv
<1> QED
  BY <1>2, <1>3, <1>4 DEF Positions

\* Of opportunities that share a key and a score the one found first is served,
\* in whatever order the map hands them to the sort.
THEOREM ServesFirstOfEquals == Spec => []FirstOfEquals
  BY RankInvariant, RankedIsFirst, PTL


-----------------------------------------------------------------------------
(* The scan. *)

\* The snapshot is one to search, and what was found last is what the search
\* from the start asset computes.
SearchInv ==
  /\ snapshot \in Seq(Entries)
  /\ start # None =>
        \E asset \in Assets : start = <<asset>> /\ found = FindPaths(snapshot, asset)

LEMMA FoundAreTrails == SearchInv => FindsOnlyTrails
<1> SUFFICES ASSUME SearchInv, start # None
             PROVE  /\ ToSet(found) \subseteq Trails
                    /\ \A i \in 1 .. Len(found) : Len(found[i].hops) > 1 =>
                          \E j \in 1 .. i - 1 : found[j].hops = Front(found[i].hops)
                    /\ ListedOnce => IsInjective(found)
  BY DEF FindsOnlyTrails
<1>1. snapshot \in Seq(Entries)
  BY DEF SearchInv
<1>2. PICK asset \in Assets : start = <<asset>> /\ found = FindPaths(snapshot, asset)
  BY DEF SearchInv
<1>3. PICK f : /\ IsSearch(f, asset) /\ found = f[<<>>]
               /\ FindsWalks(f, asset, <<>>)
  BY <1>1, <1>2, SearchFinds
<1>4. found \in Seq(Routes)
  <2>1. <<>> \in Seq(Hops)
    OBVIOUS
  <2> QED
    BY <1>3, <2>1 DEF IsSearch, Searches
<1>5. Len(<<>>) = 0
  OBVIOUS
<1>6. ASSUME NEW p \in 1 .. Len(found)
      PROVE  /\ found[p] \in Trails
             /\ Len(found[p].hops) > 1 =>
                  \E q \in 1 .. p - 1 : found[q].hops = Front(found[p].hops)
  <2>1. /\ found[p].start = asset
        /\ found[p].hops \in Seq(Hops) /\ Len(found[p].hops) <= MaxHops
        /\ Len(found[p].hops) > 0
        /\ \A k \in 0 + 1 .. Len(found[p].hops) : GoesOn(asset, found[p].hops, k)
        /\ Len(found[p].hops) > 0 + 1 =>
              \E q \in 1 .. p - 1 : found[q].hops = Front(found[p].hops)
    BY <1>3, <1>5 DEF FindsWalks, Extends
  <2>2. found[p] = PathFrom(asset, found[p].hops)
    <3>1. found[p] \in Routes
      BY <1>4
    <3> QED
      BY <2>1, <3>1 DEF Routes, PathFrom
  <2>3. Len(found[p].hops) \in 1 .. MaxHops
    BY <2>1, SearchAssumption
  <2>4. 0 + 1 = 1
    OBVIOUS
  <2>5. found[p] \in Trails
    BY <1>2, <2>1, <2>2, <2>3, <2>4, WalksAreTrails
  <2> QED
    BY <2>1, <2>4, <2>5
<1>7. DOMAIN found = 1 .. Len(found)
  BY <1>4
<1>8. ToSet(found) \subseteq Trails
  BY <1>6, <1>7 DEF ToSet
<1>9. ListedOnce => IsInjective(found)
  BY <1>3, <1>7, Zenon DEF FindsWalks, IsInjective
<1> QED
  BY <1>6, <1>8, <1>9

LEMMA TrailsAreFound == SearchInv => FindsEveryTrail
<1> SUFFICES ASSUME SearchInv, start # None, BeamFits, NEW path \in Trails
             PROVE  path \in ToSet(found)
  BY DEF FindsEveryTrail
<1>1. snapshot \in Seq(Entries)
  BY DEF SearchInv
<1>2. PICK asset \in Assets : start = <<asset>> /\ found = FindPaths(snapshot, asset)
  BY DEF SearchInv
<1>3. PICK f : /\ IsSearch(f, asset) /\ found = f[<<>>]
               /\ FindsAllWalks(f, asset, <<>>)
  BY <1>1, <1>2, SearchFinds
<1>4. found \in Seq(Routes)
  <2>1. <<>> \in Seq(Hops)
    OBVIOUS
  <2> QED
    BY <1>3, <2>1 DEF IsSearch, Searches
<1>5. /\ path = PathFrom(asset, path.hops)
      /\ path.hops \in Seq(Hops) /\ Len(path.hops) \in 1 .. MaxHops
      /\ \A k \in 1 .. Len(path.hops) : GoesOn(asset, path.hops, k)
  BY <1>2, WalksAreTrails
<1>6. Extends(path.hops, <<>>) /\ Len(path.hops) <= MaxHops
  BY <1>5, SearchAssumption DEF Extends
<1>7. \A k \in Len(<<>>) + 1 .. Len(path.hops) : GoesOn(asset, path.hops, k)
  <2>1. Len(<<>>) + 1 = 1
    OBVIOUS
  <2> QED
    BY <1>5, <2>1
<1>8. PICK p \in 1 .. Len(found) : found[p] = PathFrom(asset, path.hops)
  BY <1>3, <1>5, <1>6, <1>7 DEF FindsAllWalks
<1> QED
  BY <1>4, <1>5, <1>8 DEF ToSet

\* The paths to evaluate and those of the batch are trails, and the loop has not
\* begun before every path is evaluated.
ScanInv ==
  /\ SearchInv
  /\ unsearched \in Seq(Assets)
  /\ paths \in Seq(TradeRoutes)
  /\ \A i \in 1 .. Len(batch) : batch[i].path \in TradeRoutes
  /\ RankInv
  /\ ~evaluated => next = 0 /\ best = <<>> /\ ranked = <<>>

LEMMA InitEstablishesScanInv == ScanInit => ScanInv
<1> SUFFICES ASSUME ScanInit PROVE ScanInv
  OBVIOUS
<1>1. SearchInv
  BY SearchAssumption DEF ScanInit, SearchInit, SearchInv
<1>2. unsearched \in Seq(Assets) /\ paths \in Seq(TradeRoutes)
  BY ScanAssumption DEF ScanInit
<1>3. /\ batch = <<>> /\ Len(batch) = 0
      /\ next = 0 /\ best = <<>> /\ ranked = <<>>
  BY DEF ScanInit
<1>4. RankInv
  BY <1>3 DEF RankInv, BatchInv, LoopInv, SortInv
<1> QED
  BY <1>1, <1>2, <1>3, <1>4 DEF ScanInv

LEMMA SearchKeepsScanInv == ScanInv /\ SearchNext => ScanInv'
<1> SUFFICES ASSUME ScanInv, SearchNext PROVE ScanInv'
  OBVIOUS
<1> DEFINE asset == Head(unsearched)
<1>1. asset \in Assets /\ unsearched' \in Seq(Assets)
  BY DEF ScanInv, SearchNext
<1>2. /\ snapshot' = snapshot /\ snapshot \in Seq(Entries)
      /\ start' = <<asset>> /\ found' = FindPaths(snapshot, asset)
  BY DEF ScanInv, SearchInv, SearchNext, Search
<1> HIDE DEF asset
<1>3. SearchInv'
  BY <1>1, <1>2 DEF SearchInv
<1>4. found' \in Seq(TradeRoutes)
  <2>1. FindsOnlyTrails'
    BY <1>3, FoundAreTrails, PTL
  <2>2. ToSet(found') \subseteq Trails'
    BY <1>2, <2>1 DEF FindsOnlyTrails, None
  <2>3. PICK f : IsSearch(f, asset) /\ found' = f[<<>>]
    BY <1>1, <1>2, SearchFinds
  <2>4. found' \in Seq(Routes)
    <3>1. <<>> \in Seq(Hops)
      OBVIOUS
    <3> QED
      BY <2>3, <3>1 DEF IsSearch, Searches
  <2>5. \A path \in Trails' : Connected(path) /\ NoPoolReuse(path)
    BY DEF Trails
  <2>6. \A p \in 1 .. Len(found') : found'[p] \in TradeRoutes
    BY <2>2, <2>4, <2>5 DEF ToSet, TradeRoutes
  <2> QED
    BY <2>4, <2>6
<1>5. paths' \in Seq(TradeRoutes)
  <2>1. paths' = paths \o found' /\ paths \in Seq(TradeRoutes)
    BY DEF ScanInv, SearchNext
  <2> QED
    BY <1>4, <2>1, ConcatLies
<1>6. /\ batch' = batch /\ next' = next /\ best' = best /\ ranked' = ranked
      /\ evaluated' = evaluated
  BY DEF SearchNext, vars
<1>7. RankInv'
  BY <1>6, RankInvStutters DEF ScanInv, vars
<1> QED
  BY <1>1, <1>3, <1>5, <1>6, <1>7 DEF ScanInv

LEMMA EvaluateKeepsScanInv == ScanInv /\ EvaluateAll => ScanInv'
<1> SUFFICES ASSUME ScanInv, EvaluateAll PROVE ScanInv'
  OBVIOUS
<1>1. /\ snapshot' = snapshot /\ unsearched' = unsearched /\ paths' = paths
      /\ next' = next /\ best' = best /\ ranked' = ranked
      /\ next = 0 /\ best = <<>> /\ ranked = <<>>
      /\ start' = None /\ evaluated' = TRUE
  BY DEF ScanInv, EvaluateAll
<1>2. PICK k \in 0 .. MaxProfitable : \E at \in [1 .. k -> DOMAIN paths] :
        \E profits \in [1 .. k -> Profits \cup {Unpriced}], rois \in [1 .. k -> Rois] :
            batch' = [i \in 1 .. k |->
                        [path |-> paths[at[i]], profit |-> profits[i], roi |-> rois[i]]]
  BY DEF EvaluateAll
<1>3. PICK at \in [1 .. k -> DOMAIN paths] :
        \E profits \in [1 .. k -> Profits \cup {Unpriced}], rois \in [1 .. k -> Rois] :
            batch' = [i \in 1 .. k |->
                        [path |-> paths[at[i]], profit |-> profits[i], roi |-> rois[i]]]
  BY <1>2
<1>4. PICK profits \in [1 .. k -> Profits \cup {Unpriced}], rois \in [1 .. k -> Rois] :
        batch' = [i \in 1 .. k |->
                    [path |-> paths[at[i]], profit |-> profits[i], roi |-> rois[i]]]
  BY <1>3
<1>5. k \in Nat
  BY ScanAssumption
<1>6. \A i \in 1 .. k : paths[at[i]] \in TradeRoutes
  BY DEF ScanInv
<1>7. \A i \in 1 .. k :
        /\ batch'[i].path \in TradeRoutes
        /\ batch'[i] \in Opportunities
  BY <1>4, <1>6 DEF Opportunities, TradeRoutes
<1>8. batch' \in Seq(Opportunities) /\ Len(batch') = k
  BY <1>4, <1>5, <1>7
<1>9. RankInv'
  <2>1. BatchInv'
    BY <1>1, <1>5, <1>8 DEF BatchInv
  <2>2. LoopInv'
    BY <1>1 DEF LoopInv
  <2>3. SortInv'
    BY <1>1 DEF SortInv
  <2> QED
    BY <2>1, <2>2, <2>3 DEF RankInv
<1>10. SearchInv'
  BY <1>1 DEF ScanInv, SearchInv
<1> QED
  BY <1>1, <1>7, <1>8, <1>9, <1>10 DEF ScanInv

LEMMA RankKeepsScanInv == ScanInv /\ Rank => ScanInv'
<1> SUFFICES ASSUME ScanInv, Rank PROVE ScanInv'
  OBVIOUS
<1>1. /\ snapshot' = snapshot /\ start' = start /\ found' = found
      /\ unsearched' = unsearched /\ paths' = paths
      /\ evaluated' = evaluated /\ evaluated
  BY DEF Rank, searchVars
<1>2. batch' = batch
  BY DEF Rank, Next, Drop, Keep, Sort
<1>3. RankInv'
  BY DropKeepsRankInv, KeepKeepsRankInv, SortKeepsRankInv DEF ScanInv, Rank, Next
<1>4. SearchInv'
  BY <1>1 DEF ScanInv, SearchInv
<1> QED
  BY <1>1, <1>2, <1>3, <1>4 DEF ScanInv

\* A scan keeps the invariant.
THEOREM ScanInvariant == ScanSpec => []ScanInv
<1>1. ScanInv /\ [ScanNext]_scanVars => ScanInv'
  <2> SUFFICES ASSUME ScanInv, [ScanNext]_scanVars PROVE ScanInv'
    OBVIOUS
  <2>1. CASE UNCHANGED scanVars
    <3>1. /\ snapshot' = snapshot /\ start' = start /\ found' = found
          /\ unsearched' = unsearched /\ paths' = paths /\ evaluated' = evaluated
          /\ batch' = batch /\ next' = next /\ best' = best /\ ranked' = ranked
      BY <2>1 DEF scanVars, searchVars, vars
    <3>2. RankInv'
      BY <3>1, RankInvStutters DEF ScanInv, vars
    <3>3. SearchInv'
      BY <3>1 DEF ScanInv, SearchInv
    <3> QED
      BY <3>1, <3>2, <3>3 DEF ScanInv
  <2> QED
    BY <2>1, SearchKeepsScanInv, EvaluateKeepsScanInv, RankKeepsScanInv DEF ScanNext
<1> QED
  BY InitEstablishesScanInv, <1>1, PTL DEF ScanSpec

\* Whatever the beam cuts off and however long the hops may get, every path found
\* is a connected walk over pools of the snapshot that uses no pool twice; the way
\* to it was found before it, and it is found once (finder.rs: "The only
\* traversal guard is no-pool-reuse").
THEOREM OnlyTrailsAreFound == ScanSpec => []FindsOnlyTrails
<1>1. ScanInv => FindsOnlyTrails
  BY FoundAreTrails DEF ScanInv
<1> QED
  BY ScanInvariant, <1>1, PTL

\* Where no asset has more edges than the beam takes, the search is exhaustive.
THEOREM EveryTrailIsFound == ScanSpec => []FindsEveryTrail
<1>1. ScanInv => FindsEveryTrail
  BY TrailsAreFound DEF ScanInv
<1> QED
  BY ScanInvariant, <1>1, PTL

\* Of what a scan finds, ranking serves the best of every key, the first of
\* equals, and nothing else.
THEOREM ScanServesTheBest == ScanSpec => [](RankedBest /\ FirstOfEquals)
<1>1. ScanInv => RankedBest /\ FirstOfEquals
  BY RankedIsBest, RankedIsFirst DEF ScanInv, RankInv
<1> QED
  BY ScanInvariant, <1>1, PTL

\* However often a scan finds a trade, it serves it once: from whatever start
\* assets, entered at whatever hop, and if pools or start assets are listed twice.
THEOREM NoTradeIsServedTwice == ScanSpec => []ServesNoTradeTwice
<1>1. ScanInv => ServesNoTradeTwice
  <2> SUFFICES ASSUME ScanInv, NEW i \in Kept, NEW j \in Kept,
                      SameTrade(ranked[i].path, ranked[j].path)
               PROVE  i = j
    BY DEF ServesNoTradeTwice
  <2>1. ranked # <<>>
    BY DEF Kept
  <2>2. RankedBest
    BY RankedIsBest DEF ScanInv
  <2>3. PICK h \in Positions : ranked[i] = batch[h]
    BY <2>1, <2>2 DEF RankedBest
  <2>4. ranked[i].path \in TradeRoutes
    BY <2>3 DEF ScanInv, Positions
  <2>5. Key(ranked[i]) = Key(ranked[j])
    BY <2>4, SameTradeSameKey DEF Key
  <2> QED
    BY <2>1, <2>2, <2>5 DEF RankedBest
<1> QED
  BY ScanInvariant, <1>1, PTL
=============================================================================
