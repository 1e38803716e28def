--------------------------- MODULE Pipeline_proofs ---------------------------
(***************************************************************************)
(* Proofs about Pipeline for every number of chains, exchanges, pools and   *)
(* paths, every lag of the RPC nodes, every staleness and every bound.      *)
(***************************************************************************)
EXTENDS Pipeline, PoolSync_proofs, WellFoundedInduction

-----------------------------------------------------------------------------
(* What the helpers of Snapshots return. *)

\* A nonempty bounded set of naturals has a largest element.
LEMMA LargestNatural ==
  ASSUME NEW S \in SUBSET Nat, S # {}, NEW n \in Nat, \A s \in S : s <= n
  PROVE  \E m \in S : \A s \in S : s <= m
<1> DEFINE below == {n - s : s \in S}
           less == OpToRel(<, Nat)
<1>1. below \subseteq Nat /\ below # {}
  <2>1. \A s \in S : n - s \in Nat
    OBVIOUS
  <2> QED
    BY <2>1
<1>2. IsWellFoundedOn(less, Nat)
  BY NatLessThanWellFounded
<1>3. \A x, y \in Nat : <<y, x>> \in less <=> y < x
  BY DEF OpToRel
<1> HIDE DEF less
<1>4. PICK x \in below : \A y \in below : ~(<<y, x>> \in less)
  BY <1>1, <1>2, WFMin
<1>5. PICK m \in S : x = n - m
  OBVIOUS
<1>6. ASSUME NEW s \in S PROVE s <= m
  <2>1. n - s \in below /\ n - s \in Nat /\ x \in Nat
    BY <1>1
  <2>2. ~(n - s < n - m)
    BY <2>1, <1>3, <1>4, <1>5
  <2> QED
    BY <2>2
<1> QED
  BY <1>6

\* get() finds an entry of every pool that is present.
LEMMA GetIsEntry ==
  ASSUME NEW s \in Snapshots, NEW p \in Present(s)
  PROVE  Get(s, p) \in s.entries /\ Get(s, p).pool = p
<1> DEFINE positions == {e.xch : e \in {f \in s.entries : f.pool = p}}
<1>1. s.entries \subseteq Entries
  BY DEF Snapshots
<1>2. \A e \in s.entries : e.xch \in 1 .. NumExchanges
  BY <1>1 DEF Entries, Exchanges
<1>3. positions \in SUBSET Nat /\ \A x \in positions : x <= NumExchanges
  BY <1>2, NumExchangesAssumption
<1>4. positions # {}
  BY DEF Present
<1>5. PICK m \in positions : \A x \in positions : x <= m
  BY <1>3, <1>4, NumExchangesAssumption, LargestNatural
<1>6. \E e \in s.entries :
        /\ e.pool = p
        /\ \A f \in s.entries : f.pool = p => f.xch <= e.xch
  BY <1>5
<1> QED
  BY <1>6 DEF Get

\* A snapshot that was published whole: all its entries are of its block and
\* carry the time of its tick.
Whole(s) ==
    \A e \in s.entries : e.state.block = s.block /\ e.synced_at = s.taken_at

\* On a whole snapshot a path is quoted on states of the snapshot's block, and
\* the worst sync time on it is the time of the tick.
LEMMA PathOfWhole ==
  ASSUME NEW s \in Snapshots, Whole(s),
         NEW path \in Paths, path \subseteq Present(s)
  PROVE  /\ Quote(s, path) \in SUBSET Quotes
         /\ Quote(s, path) # {}
         /\ \A q \in Quote(s, path) : q.state.block = s.block
         /\ WorstSyncedAt(s, path) = s.taken_at
<1>1. path # {} /\ path \subseteq Pools
  BY PathsAssumption
<1>2. ASSUME NEW p \in path
      PROVE  /\ Get(s, p).state \in States
             /\ Get(s, p).state.block = s.block
             /\ SyncedAt(s, p) = s.taken_at
  <2>1. p \in Present(s) /\ Get(s, p) \in s.entries
    BY GetIsEntry
  <2> QED
    BY <2>1 DEF Snapshots, Entries, Whole, SyncedAt
<1>3. /\ Quote(s, path) \in SUBSET Quotes
      /\ Quote(s, path) # {}
      /\ \A q \in Quote(s, path) : q.state.block = s.block
  <2>1. ASSUME NEW q \in Quote(s, path)
        PROVE  q \in Quotes /\ q.state.block = s.block
    <3>1. PICK p \in path : q = [pool |-> p, state |-> Get(s, p).state]
      BY DEF Quote
    <3> QED
      BY <1>1, <1>2, <3>1 DEF Quotes
  <2>2. Quote(s, path) # {}
    BY <1>1 DEF Quote
  <2> QED
    BY <2>1, <2>2
<1>4. {SyncedAt(s, p) : p \in path} = {s.taken_at}
  BY <1>1, <1>2
<1>5. s.taken_at <= s.taken_at
  BY DEF Snapshots
<1>6. WorstSyncedAt(s, path) = s.taken_at
  BY <1>4, <1>5 DEF WorstSyncedAt
<1> QED
  BY <1>3, <1>6

-----------------------------------------------------------------------------
(* The inductive invariant, chain by chain. *)

Scanning(c) == stage[c] \in {"stamping", "evaluating", "notifying"}
Stamped(c) == stage[c] \in {"evaluating", "notifying"}

\* What a scan works on was published whole and lies before the present; its
\* time is read after the snapshot is loaded.
ScansWholeSnapshot(c) ==
    /\ Whole(snap[c])
    /\ snap[c].taken_at <= slot[c].taken_at
    /\ tick[c] <= clock
    /\ Stamped(c) => snap[c].taken_at <= tick[c]

\* opp is what a scan at time t of a snapshot of block b, taken at a, finds.
FoundOn(opp, b, a, t) ==
    /\ opp.quoted # {}
    /\ \A q \in opp.quoted : q.state.block = b
    /\ opp.execution \in {{}, opp.quoted}
    /\ opp.worst_pool_synced_at = a
    /\ opp.detected_at = t
    /\ a <= t
    /\ t - a <= MaxStaleness

\* What a scan has found was found on its snapshot, at its time.
OppsFromScan(c) ==
    \A opp \in opps[c] :
        /\ Stamped(c)
        /\ FoundOn(opp, snap[c].block, snap[c].taken_at, tick[c])
        /\ opp.quoted = Quote(snap[c], opp.path)

\* What is served was found by one scan, of a snapshot that is no newer than
\* the one of the scan under way, and at a time that is no later.
MemoryFromOneScan(c) ==
    \E b, a, t \in Nat :
        /\ \A opp \in memory[c] : FoundOn(opp, b, a, t)
        /\ a <= slot[c].taken_at
        /\ t <= clock
        /\ Scanning(c) => a <= snap[c].taken_at
        /\ Stamped(c) => t <= tick[c]

\* Block n has been reached by chain c, and neither what is served for c nor
\* what its worker is about to publish is further than the lag behind it.
Behind(c, n) ==
    /\ n <= Len(chain[c])
    /\ n <= slot[c].block + MaxLag
    /\ phase[c] \in {"answered", "refreshing"} => n <= at[c] + MaxLag

\* Every block that was shown, is served or is being scanned is such a block.
BlocksBehind(c) ==
    /\ Behind(c, shown[c])
    /\ Behind(c, snap[c].block)
    /\ \A opp \in memory[c] : \A q \in opp.quoted : Behind(c, q.state.block)

ScanInv(c) ==
    /\ ScansWholeSnapshot(c)
    /\ OppsFromScan(c)
    /\ MemoryFromOneScan(c)
    /\ BlocksBehind(c)

PipeInv ==
    /\ SyncInv
    /\ ScanTypeOK
    /\ \A c \in Chains : ScanInv(c)

-----------------------------------------------------------------------------
(* The sync tasks of the composition are those of PoolSync. *)

\* A step of the composition is a step of the sync tasks or leaves them alone.
LEMMA PipeStepIsSyncStep == [PipeNext]_vars => [Next]_syncVars
<1> SUFFICES ASSUME [PipeNext]_vars PROVE [Next]_syncVars
  OBVIOUS
<1>1. CASE SyncStep
  BY <1>1 DEF SyncStep
<1>2. ASSUME NEW c \in Chains, ScanTask(c)
      PROVE  UNCHANGED syncVars
  BY <1>2 DEF ScanTask, ScanStep, LoadSnapshot, Stamp, Discard, Detect, Panic,
              Enrich, Notify, ScanWake, syncVars, workerVars
<1>3. ASSUME NEW c \in Chains, GetOpportunities(c)
      PROVE  UNCHANGED syncVars
  BY <1>3 DEF GetOpportunities
<1>4. CASE UNCHANGED vars
  BY <1>4 DEF vars
<1> QED
  BY <1>1, <1>2, <1>3, <1>4 DEF PipeNext

\* Composed with scanners and clients, the sync tasks do what they do alone, so
\* that every theorem about PoolSync holds of the composition.
THEOREM PipelineImplementsPoolSync == PipeSpec => Spec
<1>1. PipeInit => Init
  BY DEF PipeInit
<1> QED
  BY <1>1, PipeStepIsSyncStep, PTL DEF PipeSpec, Spec

\* A step of the sync tasks moves the clock, the chains and the published
\* snapshots on, and leaves behind what was behind.
LEMMA SyncMovesOn ==
  ASSUME SyncInv, SyncInv', Next, NEW c \in Chains
  PROVE  /\ clock <= clock'
         /\ slot[c].taken_at <= slot'[c].taken_at
         /\ \A n \in Nat : Behind(c, n) => Behind(c, n)'
<1> USE BoundsAssumption
<1>0. /\ clock \in Nat /\ clock' \in Nat
      /\ Len(chain[c]) \in Nat /\ at[c] \in Nat /\ now[c] \in Nat
      /\ slot[c].block \in Nat /\ slot[c].taken_at \in Nat
  BY DEF SyncInv, TypeOK, Snapshots
<1>1. CASE Tick
  BY <1>0, <1>1 DEF Tick, workerVars, Behind
<1>2. ASSUME NEW d \in Chains, NewBlock(d)
      PROVE  /\ UNCHANGED <<clock, slot, phase, at>>
             /\ Len(chain'[c]) \in Nat
             /\ Len(chain[c]) <= Len(chain'[c])
  <2>1. Len(Append(chain[c], 0)) = Len(chain[c]) + 1
    BY DEF SyncInv, TypeOK
  <2>2. chain'[c] = IF c = d THEN Append(chain[c], 0) ELSE chain[c]
    BY <1>2 DEF NewBlock, SyncInv, TypeOK
  <2> QED
    BY <1>0, <1>2, <2>1, <2>2 DEF NewBlock, workerVars
<1>3. ASSUME NEW d \in Chains, Reorg(d)
      PROVE  /\ UNCHANGED <<clock, slot, phase, at>>
             /\ Len(chain'[c]) = Len(chain[c])
  <2>1. /\ chain \in [Chains -> Seq(Nat)]
        /\ chain' = [chain EXCEPT ![d][Len(chain[d])] = @ + 1]
        /\ UNCHANGED <<clock, slot, phase, at>>
    BY <1>3 DEF Reorg, workerVars, SyncInv, TypeOK
  <2>2. CASE c # d
    BY <2>1, <2>2
  <2>3. CASE c = d
    <3>1. chain'[c] = [chain[c] EXCEPT ![Len(chain[c])] = @ + 1]
      BY <2>1, <2>3
    <3>2. chain[c] \in Seq(Nat)
      BY <2>1
    <3>3. Len([chain[c] EXCEPT ![Len(chain[c])] = @ + 1]) = Len(chain[c])
      BY <3>2
    <3> QED
      BY <2>1, <3>1, <3>3
  <2> QED
    BY <2>2, <2>3
<1>4. ASSUME NEW d \in Chains, Worker(d)
      PROVE  /\ UNCHANGED <<clock, chain>>
             /\ slot[c].taken_at <= slot'[c].taken_at
             /\ \A n \in Nat : Behind(c, n) => Behind(c, n)'
  <2>1. CASE AnswerHead(d)
    <3>1. PICK m \in 1 .. Len(chain[d]) :
            m + MaxLag >= Len(chain[d]) /\ at' = [at EXCEPT ![d] = m]
      BY <2>1 DEF AnswerHead
    <3>2. /\ UNCHANGED <<clock, chain, slot>>
          /\ phase' = [phase EXCEPT ![d] = "answered"]
      BY <2>1 DEF AnswerHead, envVars
    <3>3. c = d => at'[c] \in Nat /\ at'[c] + MaxLag >= Len(chain[c])
      BY <1>0, <3>1 DEF SyncInv, TypeOK
    <3>4. c # d => at'[c] = at[c] /\ phase'[c] = phase[c]
      BY <3>1, <3>2 DEF SyncInv, TypeOK
    <3>5. CASE c = d
      BY <1>0, <3>2, <3>3, <3>5 DEF Behind
    <3>6. CASE c # d
      BY <1>0, <3>2, <3>4, <3>6 DEF Behind
    <3> QED
      BY <3>5, <3>6
  <2>2. CASE ReadFails(d) \/ Wake(d)
    <3>1. /\ UNCHANGED <<clock, chain, slot, at>>
          /\ phase' \in {[phase EXCEPT ![d] = p] : p \in {"reading", "sleeping"}}
      BY <2>2 DEF ReadFails, Wake, envVars
    <3>2. phase'[c] # phase[c] => phase'[c] \notin {"answered", "refreshing"}
      BY <3>1 DEF SyncInv, TypeOK
    <3> QED
      BY <1>0, <3>1, <3>2 DEF Behind
  <2>3. CASE PinBlock(d)
    <3>1. /\ UNCHANGED <<clock, chain, slot, at>>
          /\ phase[d] = "answered"
          /\ phase' = [phase EXCEPT ![d] = "refreshing"]
      BY <2>3 DEF PinBlock, envVars
    <3>2. phase'[c] # phase[c] => phase[c] = "answered"
      BY <3>1 DEF SyncInv, TypeOK
    <3> QED
      BY <1>0, <3>1, <3>2 DEF Behind
  <2>4. ASSUME NEW x \in Exchanges,
               Discover(d, x) \/ Refresh(d, x) \/ ExchangeFails(d, x)
        PROVE  UNCHANGED <<clock, chain, slot, phase, at>>
    BY <2>4 DEF Discover, Refresh, ExchangeFails, envVars
  <2>5. CASE Publish(d)
    <3>1. /\ UNCHANGED <<clock, chain>>
          /\ phase[d] = "refreshing"
          /\ slot' = [slot EXCEPT ![d] = FromEntries(at[d], now[d], Assemble(d))]
          /\ phase' = [phase EXCEPT ![d] = "sleeping"]
          /\ at' = [at EXCEPT ![d] = 0]
      BY <2>5 DEF Publish, Store, envVars
    <3>2. c = d => /\ slot'[c].block = at[c]
                   /\ slot'[c].taken_at = now[c]
                   /\ phase'[c] = "sleeping"
                   /\ slot[c].taken_at <= now[c]
      BY <1>0, <3>1 DEF FromEntries, SyncInv, TypeOK, TimesOrdered
    <3>3. c # d => slot'[c] = slot[c] /\ at'[c] = at[c] /\ phase'[c] = phase[c]
      BY <3>1 DEF SyncInv, TypeOK
    <3> QED
      BY <1>0, <3>1, <3>2, <3>3 DEF Behind
  <2> QED
    BY <1>0, <1>4, <2>1, <2>2, <2>3, <2>4, <2>5 DEF Worker, Behind
<1> QED
  BY <1>0, <1>1, <1>2, <1>3, <1>4 DEF Next, Behind

-----------------------------------------------------------------------------
(* The invariant is inductive. *)

LEMMA InitPipe == PipeInit => PipeInv
<1> SUFFICES ASSUME PipeInit PROVE PipeInv
  OBVIOUS
<1>1. SyncInv
  BY InitSync DEF PipeInit
<1>2. ScanTypeOK
  BY EmptySnapshotType DEF PipeInit, ScanInit, ScanTypeOK, Stages, Epoch
<1>3. ASSUME NEW c \in Chains
      PROVE  ScanInv(c)
  <2>1. /\ stage[c] = "loading" /\ snap[c] = EmptySnapshot
        /\ tick[c] = 0 /\ opps[c] = {} /\ memory[c] = {} /\ shown[c] = 0
    BY <1>3 DEF PipeInit, ScanInit, Epoch
  <2>2. /\ clock \in Nat /\ slot[c].taken_at \in Nat /\ slot[c].block \in Nat
        /\ Len(chain[c]) \in Nat
    BY <1>1 DEF SyncInv, TypeOK, Snapshots
  <2>3. ScansWholeSnapshot(c)
    BY <2>1, <2>2, EmptySnapshotIsEmpty DEF ScansWholeSnapshot, Whole, Stamped
  <2>4. OppsFromScan(c)
    BY <2>1 DEF OppsFromScan
  <2>5. MemoryFromOneScan(c)
    <3>1. 0 \in Nat /\ 0 <= slot[c].taken_at /\ 0 <= clock
      BY <2>2
    <3> QED
      BY <2>1, <3>1 DEF MemoryFromOneScan, Scanning, Stamped
  <2>6. phase[c] = "reading"
    BY DEF PipeInit, Init
  <2>7. Behind(c, 0)
    BY <2>2, <2>6, BoundsAssumption DEF Behind
  <2>8. BlocksBehind(c)
    BY <2>1, <2>7, EmptySnapshotIsEmpty DEF BlocksBehind
  <2> QED
    BY <2>3, <2>4, <2>5, <2>8 DEF ScanInv
<1> QED
  BY <1>1, <1>2, <1>3 DEF PipeInv

\* What is quoted for a path has the type of a state of the chain.
LEMMA ServedBlockType ==
  ASSUME ScanTypeOK, NEW c \in Chains, NEW opp \in memory[c] \cup opps[c]
  PROVE  /\ opp \in Opportunities
         /\ \A q \in opp.quoted : q.state.block \in Nat
<1>1. opp \in Opportunities
  BY DEF ScanTypeOK
<1> QED
  BY <1>1 DEF Opportunities, Quotes, States

\* A step of the sync tasks.
LEMMA SyncKeepsPipe ==
  ASSUME PipeInv, SyncStep
  PROVE  PipeInv'
<1> USE DEF PipeInv
<1>1. SyncInv'
  BY StepSync DEF SyncStep
<1>2. UNCHANGED <<stage, snap, tick, todo, opps, memory, shown>>
  BY DEF SyncStep, scanVars
<1>3. ScanTypeOK'
  BY <1>2 DEF ScanTypeOK
<1>4. ASSUME NEW c \in Chains
      PROVE  ScanInv(c)'
  <2>0. /\ clock \in Nat /\ clock' \in Nat
        /\ slot[c].taken_at \in Nat /\ slot'[c].taken_at \in Nat
        /\ snap[c].taken_at \in Nat /\ snap[c].block \in Nat
        /\ tick[c] \in Nat /\ shown[c] \in Nat
    BY <1>1 DEF SyncInv, TypeOK, ScanTypeOK, Snapshots
  <2>1. /\ clock <= clock'
        /\ slot[c].taken_at <= slot'[c].taken_at
        /\ \A n \in Nat : Behind(c, n) => Behind(c, n)'
    BY <1>1, SyncMovesOn DEF SyncStep
  <2>2. ScansWholeSnapshot(c)'
    BY <1>2, <2>0, <2>1 DEF ScanInv, ScansWholeSnapshot, Whole, Stamped
  <2>3. OppsFromScan(c)'
    BY <1>2 DEF ScanInv, OppsFromScan, FoundOn, Stamped
  <2>4. MemoryFromOneScan(c)'
    <3>1. PICK b \in Nat, a \in Nat, t \in Nat :
            /\ \A opp \in memory[c] : FoundOn(opp, b, a, t)
            /\ a <= slot[c].taken_at
            /\ t <= clock
            /\ Scanning(c) => a <= snap[c].taken_at
            /\ Stamped(c) => t <= tick[c]
      BY DEF ScanInv, MemoryFromOneScan
    <3>2. a <= slot'[c].taken_at /\ t <= clock'
      BY <2>0, <2>1, <3>1
    <3> QED
      BY <1>2, <3>1, <3>2 DEF MemoryFromOneScan, FoundOn, Scanning, Stamped
  <2>5. BlocksBehind(c)'
    <3>1. \A opp \in memory[c] : \A q \in opp.quoted : q.state.block \in Nat
      BY ServedBlockType
    <3>2. /\ Behind(c, shown[c])' /\ Behind(c, snap[c].block)'
          /\ \A opp \in memory[c] : \A q \in opp.quoted : Behind(c, q.state.block)'
      BY <1>2, <2>0, <2>1, <3>1 DEF ScanInv, BlocksBehind, Behind
    <3> QED
      BY <1>2, <3>2 DEF BlocksBehind
  <2> QED
    BY <2>2, <2>3, <2>4, <2>5 DEF ScanInv
<1> QED
  BY <1>1, <1>3, <1>4

\* What is served stays the set of one scan when a scan loads the published
\* snapshot, reads the clock, or goes on.
LEMMA MemoryIsKept ==
  ASSUME NEW c \in Chains, MemoryFromOneScan(c), UNCHANGED <<clock, slot>>,
         memory'[c] = memory[c],
         Scanning(c)' => \/ Scanning(c) /\ snap'[c] = snap[c]
                         \/ snap'[c] = slot[c],
         Stamped(c)' => \/ Stamped(c) /\ tick'[c] = tick[c]
                        \/ tick'[c] = clock
  PROVE  MemoryFromOneScan(c)'
<1>1. PICK b \in Nat, a \in Nat, t \in Nat :
        /\ \A opp \in memory[c] : FoundOn(opp, b, a, t)
        /\ a <= slot[c].taken_at
        /\ t <= clock
        /\ Scanning(c) => a <= snap[c].taken_at
        /\ Stamped(c) => t <= tick[c]
  BY DEF MemoryFromOneScan
<1>2. /\ \A opp \in memory'[c] : FoundOn(opp, b, a, t)
      /\ a <= slot'[c].taken_at
      /\ t <= clock'
  BY <1>1
<1>3. Scanning(c)' => a <= snap'[c].taken_at
  BY <1>1
<1>4. Stamped(c)' => t <= tick'[c]
  BY <1>1
<1> QED
  BY <1>2, <1>3, <1>4 DEF MemoryFromOneScan, FoundOn

\* A chain of which nothing is touched keeps its part.
LEMMA Untouched ==
  ASSUME NEW c \in Chains, ScanInv(c), UNCHANGED <<clock, slot, chain, phase, at>>,
         stage'[c] = stage[c], snap'[c] = snap[c], tick'[c] = tick[c],
         opps'[c] = opps[c], memory'[c] = memory[c], shown'[c] = shown[c]
  PROVE  ScanInv(c)'
<1>1. ScansWholeSnapshot(c)'
  BY DEF ScanInv, ScansWholeSnapshot, Whole, Stamped
<1>2. OppsFromScan(c)'
  BY DEF ScanInv, OppsFromScan, FoundOn, Stamped
<1>3. MemoryFromOneScan(c)'
  BY MemoryIsKept DEF ScanInv, Scanning, Stamped
<1>4. BlocksBehind(c)'
  BY DEF ScanInv, BlocksBehind, Behind
<1> QED
  BY <1>1, <1>2, <1>3, <1>4 DEF ScanInv

\* The types a scan step of chain c starts from.
LEMMA ScanTypes ==
  ASSUME PipeInv, NEW c \in Chains
  PROVE  /\ slot[c] \in Snapshots /\ Whole(slot[c])
         /\ slot[c].taken_at <= clock
         /\ snap[c] \in Snapshots
         /\ clock \in Nat /\ tick[c] \in Nat
         /\ slot[c].taken_at \in Nat /\ slot[c].block \in Nat
         /\ snap[c].taken_at \in Nat /\ snap[c].block \in Nat
<1>1. slot[c] \in Snapshots /\ snap[c] \in Snapshots /\ clock \in Nat /\ tick[c] \in Nat
  BY DEF PipeInv, SyncInv, TypeOK, ScanTypeOK
<1>2. Whole(slot[c]) /\ slot[c].taken_at <= clock
  BY DEF PipeInv, SyncInv, BlockConsistent, Whole, TimesOrdered
<1> QED
  BY <1>1, <1>2 DEF Snapshots

\* The scan loads the published snapshot.
LEMMA LoadKeepsPipe ==
  ASSUME PipeInv, NEW c \in Chains, LoadSnapshot(c), UNCHANGED <<chain, workerVars, shown>>
  PROVE  ScanTypeOK' /\ ScanInv(c)'
<1> USE DEF PipeInv, LoadSnapshot, Load
<1>1. /\ stage[c] = "loading"
      /\ stage' = [stage EXCEPT ![c] = "stamping"]
      /\ snap' = [snap EXCEPT ![c] = slot[c]]
      /\ UNCHANGED <<clock, slot, chain, phase, at, tick, todo, opps, memory, shown>>
  BY DEF workerVars
<1>2. ScanTypeOK'
  BY <1>1, ScanTypes DEF ScanTypeOK, Stages
<1>3. stage'[c] = "stamping" /\ snap'[c] = slot[c]
  BY <1>1 DEF ScanTypeOK
<1>4. ScansWholeSnapshot(c)'
  BY <1>1, <1>3, ScanTypes DEF ScanInv, ScansWholeSnapshot, Whole, Stamped
<1>5. OppsFromScan(c)'
  BY <1>1 DEF ScanInv, OppsFromScan, Stamped
<1>6. MemoryFromOneScan(c)'
  BY <1>1, <1>3, MemoryIsKept DEF ScanInv, Scanning, Stamped
<1>7. Behind(c, slot[c].block)
  BY ScanTypes, BoundsAssumption DEF SyncInv, AtFollowsChain, Behind
<1>8. BlocksBehind(c)'
  BY <1>1, <1>3, <1>7 DEF ScanInv, BlocksBehind, Behind
<1> QED
  BY <1>2, <1>4, <1>5, <1>6, <1>8 DEF ScanInv

\* The scan reads the clock.
LEMMA StampKeepsPipe ==
  ASSUME PipeInv, NEW c \in Chains, Stamp(c), UNCHANGED <<chain, workerVars, shown>>
  PROVE  ScanTypeOK' /\ ScanInv(c)'
<1> USE DEF PipeInv, Stamp
<1>1. /\ stage[c] = "stamping"
      /\ stage' = [stage EXCEPT ![c] = "evaluating"]
      /\ tick' = [tick EXCEPT ![c] = clock]
      /\ UNCHANGED <<clock, slot, chain, phase, at, snap, opps, memory, shown>>
  BY DEF workerVars
<1>2. PathsIn(snap[c]) \in SUBSET Paths
  BY DEF PathsIn
<1>3. ScanTypeOK'
  BY <1>1, <1>2, ScanTypes DEF ScanTypeOK, Stages
<1>4. stage'[c] = "evaluating" /\ tick'[c] = clock
  BY <1>1 DEF ScanTypeOK
<1>5. ScansWholeSnapshot(c)'
  BY <1>1, <1>4, ScanTypes DEF ScanInv, ScansWholeSnapshot, Whole, Stamped
<1>6. OppsFromScan(c)'
  BY <1>1 DEF ScanInv, OppsFromScan, Stamped
<1>7. MemoryFromOneScan(c)'
  BY <1>1, <1>4, MemoryIsKept DEF ScanInv, Scanning, Stamped
<1>8. BlocksBehind(c)'
  BY <1>1 DEF ScanInv, BlocksBehind, Behind
<1> QED
  BY <1>3, <1>5, <1>6, <1>7, <1>8 DEF ScanInv

\* A path is evaluated and yields nothing.
LEMMA DiscardKeepsPipe ==
  ASSUME PipeInv, NEW c \in Chains, NEW path \in Paths, Discard(c, path),
         UNCHANGED <<chain, workerVars, shown>>
  PROVE  ScanTypeOK' /\ ScanInv(c)'
<1> USE DEF PipeInv, Discard
<1>1. ScanTypeOK'
  BY DEF ScanTypeOK
<1>2. ScanInv(c)'
  BY Untouched DEF workerVars
<1> QED
  BY <1>1, <1>2

\* An opportunity found on the scan's snapshot.
LEMMA OpportunityIsFound ==
  ASSUME PipeInv, NEW c \in Chains, NEW path \in Paths, Stamped(c),
         IsFresh(snap[c], path, tick[c])
  PROVE  LET opp == Opportunity(snap[c], path, tick[c])
         IN  /\ opp \in Opportunities
             /\ FoundOn(opp, snap[c].block, snap[c].taken_at, tick[c])
             /\ opp.quoted = Quote(snap[c], opp.path)
<1> DEFINE opp == Opportunity(snap[c], path, tick[c])
<1>1. path \subseteq Present(snap[c])
  BY DEF IsFresh
<1>2. Whole(snap[c]) /\ snap[c].taken_at <= tick[c]
  BY DEF PipeInv, ScanInv, ScansWholeSnapshot
<1>3. /\ Quote(snap[c], path) \in SUBSET Quotes
      /\ Quote(snap[c], path) # {}
      /\ \A q \in Quote(snap[c], path) : q.state.block = snap[c].block
      /\ WorstSyncedAt(snap[c], path) = snap[c].taken_at
  BY <1>1, <1>2, ScanTypes, PathOfWhole
<1>4. tick[c] - snap[c].taken_at <= MaxStaleness
  <2>1. PICK p \in path : p \in Present(snap[c])
    BY <1>1, PathsAssumption
  <2>2. Get(snap[c], p).synced_at = snap[c].taken_at
    BY <1>2, <2>1, ScanTypes, GetIsEntry DEF Whole
  <2> QED
    BY <2>1, <2>2 DEF IsFresh
<1>5. /\ opp.path = path
      /\ opp.quoted = Quote(snap[c], path)
      /\ opp.worst_pool_synced_at = snap[c].taken_at
      /\ opp.detected_at = tick[c]
      /\ opp.execution = {}
  BY <1>3 DEF Opportunity
<1>6. opp \in Opportunities
  BY <1>3, ScanTypes DEF Opportunity, Opportunities
<1>7. FoundOn(opp, snap[c].block, snap[c].taken_at, tick[c])
  BY <1>2, <1>3, <1>4, <1>5 DEF FoundOn
<1> QED
  BY <1>5, <1>6, <1>7

\* A path is evaluated and yields an opportunity.
LEMMA DetectKeepsPipe ==
  ASSUME PipeInv, NEW c \in Chains, NEW path \in Paths, Detect(c, path),
         UNCHANGED <<chain, workerVars, shown>>
  PROVE  ScanTypeOK' /\ ScanInv(c)'
<1> USE DEF PipeInv, Detect
<1> DEFINE opp == Opportunity(snap[c], path, tick[c])
<1>1. /\ stage[c] = "evaluating"
      /\ opps' = [opps EXCEPT ![c] = @ \cup {opp}]
      /\ todo' = [todo EXCEPT ![c] = @ \ {path}]
      /\ UNCHANGED <<clock, slot, chain, phase, at, stage, snap, tick, memory, shown>>
  BY DEF workerVars
<1>2. /\ opp \in Opportunities
      /\ FoundOn(opp, snap[c].block, snap[c].taken_at, tick[c])
      /\ opp.quoted = Quote(snap[c], opp.path)
  BY OpportunityIsFound DEF Stamped
<1> HIDE DEF opp
<1>3. ScanTypeOK'
  BY <1>1, <1>2 DEF ScanTypeOK
<1>4. opps'[c] = opps[c] \cup {opp}
  BY <1>1 DEF ScanTypeOK
<1>5. ScansWholeSnapshot(c)'
  BY <1>1 DEF ScanInv, ScansWholeSnapshot, Whole, Stamped
<1>6. OppsFromScan(c)'
  <2>1. \A o \in opps'[c] :
          /\ FoundOn(o, snap[c].block, snap[c].taken_at, tick[c])
          /\ o.quoted = Quote(snap[c], o.path)
    BY <1>2, <1>4 DEF ScanInv, OppsFromScan
  <2> QED
    BY <1>1, <2>1 DEF OppsFromScan, FoundOn, Stamped
<1>7. MemoryFromOneScan(c)'
  BY <1>1, MemoryIsKept DEF ScanInv, Scanning, Stamped
<1>8. BlocksBehind(c)'
  BY <1>1 DEF ScanInv, BlocksBehind, Behind
<1> QED
  BY <1>3, <1>5, <1>6, <1>7, <1>8 DEF ScanInv

\* The executor adds plans to some of the opportunities.
LEMMA EnrichKeepsPipe ==
  ASSUME PipeInv, NEW c \in Chains, Enrich(c), UNCHANGED <<chain, workerVars, shown>>
  PROVE  ScanTypeOK' /\ ScanInv(c)'
<1> USE DEF PipeInv
<1> DEFINE Plan(opp) == [opp EXCEPT !.execution = Quote(snap[c], opp.path)]
<1>1. /\ stage[c] = "evaluating"
      /\ stage' = [stage EXCEPT ![c] = "notifying"]
      /\ UNCHANGED <<clock, slot, chain, phase, at, snap, tick, todo, memory, shown>>
  BY DEF Enrich, workerVars
<1>2. PICK built \in SUBSET {o \in opps[c] : o.path \in Executable} :
        opps' = [opps EXCEPT ![c] = (@ \ built) \cup {Plan(opp) : opp \in built}]
  BY DEF Enrich
<1>3. opps'[c] = (opps[c] \ built) \cup {Plan(opp) : opp \in built}
  BY <1>2 DEF ScanTypeOK
<1>4. ASSUME NEW opp \in opps[c]
      PROVE  /\ Plan(opp) \in Opportunities
             /\ FoundOn(Plan(opp), snap[c].block, snap[c].taken_at, tick[c])
             /\ Plan(opp).quoted = Quote(snap[c], Plan(opp).path)
  <2>1. opp \in Opportunities
    BY DEF ScanTypeOK
  <2>2. /\ FoundOn(opp, snap[c].block, snap[c].taken_at, tick[c])
        /\ opp.quoted = Quote(snap[c], opp.path)
    BY DEF ScanInv, OppsFromScan
  <2>3. Plan(opp) = [opp EXCEPT !.execution = opp.quoted]
    BY <2>2
  <2>4. /\ Plan(opp).path = opp.path /\ Plan(opp).quoted = opp.quoted
        /\ Plan(opp).worst_pool_synced_at = opp.worst_pool_synced_at
        /\ Plan(opp).detected_at = opp.detected_at
        /\ Plan(opp).execution = opp.quoted
        /\ Plan(opp) \in Opportunities
    BY <2>1, <2>3 DEF Opportunities
  <2> HIDE DEF Plan
  <2> QED
    BY <2>2, <2>4 DEF FoundOn
<1> HIDE DEF Plan
<1>5. ASSUME NEW opp \in opps'[c]
      PROVE  /\ opp \in Opportunities
             /\ FoundOn(opp, snap[c].block, snap[c].taken_at, tick[c])
             /\ opp.quoted = Quote(snap[c], opp.path)
  <2>1. CASE opp \in opps[c]
    BY <2>1 DEF ScanTypeOK, ScanInv, OppsFromScan
  <2>2. CASE \E o \in opps[c] : opp = Plan(o)
    BY <1>4, <2>2
  <2> QED
    BY <1>3, <2>1, <2>2
<1>6. ScanTypeOK'
  <2>1. opps' \in [Chains -> SUBSET Opportunities]
    <3>1. opps' = [opps EXCEPT ![c] = opps'[c]]
      BY <1>2 DEF ScanTypeOK
    <3>2. opps'[c] \in SUBSET Opportunities
      BY <1>5
    <3> QED
      BY <3>1, <3>2 DEF ScanTypeOK
  <2> QED
    BY <1>1, <2>1 DEF ScanTypeOK, Stages
<1>7. stage'[c] = "notifying"
  BY <1>1 DEF ScanTypeOK
<1>8. ScansWholeSnapshot(c)'
  BY <1>1, <1>7 DEF ScanInv, ScansWholeSnapshot, Whole, Stamped
<1>9. OppsFromScan(c)'
  BY <1>1, <1>5, <1>7 DEF OppsFromScan, FoundOn, Stamped
<1>10. MemoryFromOneScan(c)'
  BY <1>1, <1>7, MemoryIsKept DEF ScanInv, Scanning, Stamped
<1>11. BlocksBehind(c)'
  BY <1>1 DEF ScanInv, BlocksBehind, Behind
<1> QED
  BY <1>6, <1>8, <1>9, <1>10, <1>11 DEF ScanInv

\* The served set is replaced.
LEMMA NotifyKeepsPipe ==
  ASSUME PipeInv, NEW c \in Chains, Notify(c), UNCHANGED <<chain, workerVars, shown>>
  PROVE  ScanTypeOK' /\ ScanInv(c)'
<1> USE DEF PipeInv, Notify
<1>1. /\ stage[c] = "notifying"
      /\ stage' = [stage EXCEPT ![c] = "sleeping"]
      /\ snap' = [snap EXCEPT ![c] = EmptySnapshot]
      /\ tick' = [tick EXCEPT ![c] = 0]
      /\ opps' = [opps EXCEPT ![c] = {}]
      /\ memory' = [memory EXCEPT ![c] = opps[c]]
      /\ UNCHANGED <<clock, slot, chain, phase, at, todo, shown>>
  BY DEF workerVars, Epoch
<1>2. ScanTypeOK'
  BY <1>1, EmptySnapshotType DEF ScanTypeOK, Stages
<1>3. /\ stage'[c] = "sleeping" /\ snap'[c] = EmptySnapshot
      /\ tick'[c] = 0 /\ opps'[c] = {} /\ memory'[c] = opps[c]
  BY <1>1 DEF ScanTypeOK
<1>4. ScansWholeSnapshot(c)'
  BY <1>1, <1>3, ScanTypes, EmptySnapshotIsEmpty
     DEF ScansWholeSnapshot, Whole, Stamped
<1>5. OppsFromScan(c)'
  BY <1>3 DEF OppsFromScan
<1>6. /\ \A opp \in opps[c] : FoundOn(opp, snap[c].block, snap[c].taken_at, tick[c])
      /\ snap[c].taken_at <= slot[c].taken_at
      /\ tick[c] <= clock
  BY DEF ScanInv, OppsFromScan, ScansWholeSnapshot
<1>7. MemoryFromOneScan(c)'
  <2>1. snap[c].block \in Nat /\ snap[c].taken_at \in Nat /\ tick[c] \in Nat
    BY ScanTypes
  <2>2. ~Scanning(c)' /\ ~Stamped(c)'
    BY <1>3 DEF Scanning, Stamped
  <2>3. /\ \A opp \in memory'[c] : FoundOn(opp, snap[c].block, snap[c].taken_at, tick[c])
        /\ snap[c].taken_at <= slot'[c].taken_at
        /\ tick[c] <= clock'
    BY <1>1, <1>3, <1>6
  <2> QED
    BY <2>1, <2>2, <2>3
       DEF MemoryFromOneScan, FoundOn
<1>8. BlocksBehind(c)'
  <2>1. Behind(c, shown[c]) /\ Behind(c, snap[c].block)
    BY DEF ScanInv, BlocksBehind
  <2>2. \A opp \in opps[c] : \A q \in opp.quoted : Behind(c, q.state.block)
    BY <1>6, <2>1 DEF FoundOn
  <2>3. Behind(c, 0)
    BY <2>1, ScanTypes, BoundsAssumption
       DEF Behind, SyncInv, TypeOK
  <2> QED
    BY <1>1, <1>3, <2>1, <2>2, <2>3, EmptySnapshotIsEmpty DEF BlocksBehind, Behind
<1> QED
  BY <1>2, <1>4, <1>5, <1>7, <1>8 DEF ScanInv

\* The scan task dies.
LEMMA PanicKeepsPipe ==
  ASSUME PipeInv, NEW c \in Chains, NEW path \in Paths, Panic(c, path),
         UNCHANGED <<chain, workerVars, shown>>
  PROVE  ScanTypeOK' /\ ScanInv(c)'
<1> USE DEF PipeInv, Panic
<1>1. /\ stage' = [stage EXCEPT ![c] = "dead"]
      /\ snap' = [snap EXCEPT ![c] = EmptySnapshot]
      /\ tick' = [tick EXCEPT ![c] = 0]
      /\ todo' = [todo EXCEPT ![c] = {}]
      /\ opps' = [opps EXCEPT ![c] = {}]
      /\ UNCHANGED <<clock, slot, chain, phase, at, memory, shown>>
  BY DEF workerVars, Epoch
<1>2. ScanTypeOK'
  BY <1>1, EmptySnapshotType DEF ScanTypeOK, Stages
<1>3. stage'[c] = "dead" /\ snap'[c] = EmptySnapshot /\ tick'[c] = 0 /\ opps'[c] = {}
  BY <1>1 DEF ScanTypeOK
<1>4. ScansWholeSnapshot(c)'
  BY <1>1, <1>3, ScanTypes, EmptySnapshotIsEmpty
     DEF ScansWholeSnapshot, Whole, Stamped
<1>5. OppsFromScan(c)'
  BY <1>3 DEF OppsFromScan
<1>6. MemoryFromOneScan(c)'
  <2>1. ~Scanning(c)' /\ ~Stamped(c)'
    BY <1>3 DEF Scanning, Stamped
  <2>2. PICK b, a, t \in Nat :
          /\ \A opp \in memory[c] : FoundOn(opp, b, a, t)
          /\ a <= slot[c].taken_at
          /\ t <= clock
    BY DEF ScanInv, MemoryFromOneScan
  <2>3. /\ \A opp \in memory'[c] : FoundOn(opp, b, a, t)
        /\ a <= slot'[c].taken_at
        /\ t <= clock'
    BY <1>1, <2>2
  <2> QED
    BY <2>1, <2>3 DEF MemoryFromOneScan, FoundOn
<1>7. BlocksBehind(c)'
  <2>1. BlocksBehind(c)
    BY DEF ScanInv
  <2>2. Behind(c, 0)
    BY <2>1, ScanTypes, BoundsAssumption
       DEF BlocksBehind, Behind, SyncInv, TypeOK
  <2> QED
    BY <1>1, <1>3, <2>1, <2>2, EmptySnapshotIsEmpty DEF BlocksBehind, Behind
<1> QED
  BY <1>2, <1>4, <1>5, <1>6, <1>7 DEF ScanInv

\* The next tick begins.
LEMMA ScanWakeKeepsPipe ==
  ASSUME PipeInv, NEW c \in Chains, ScanWake(c), UNCHANGED <<chain, workerVars, shown>>
  PROVE  ScanTypeOK' /\ ScanInv(c)'
<1> USE DEF PipeInv, ScanWake
<1>1. /\ stage[c] = "sleeping"
      /\ stage' = [stage EXCEPT ![c] = "loading"]
      /\ UNCHANGED <<clock, slot, chain, phase, at, snap, tick, todo, opps, memory, shown>>
  BY DEF workerVars
<1>2. ScanTypeOK'
  BY <1>1 DEF ScanTypeOK, Stages
<1>3. stage'[c] = "loading"
  BY <1>1 DEF ScanTypeOK
<1>4. ScansWholeSnapshot(c)' /\ OppsFromScan(c)'
  <2>1. ScansWholeSnapshot(c)'
    BY <1>1, <1>3 DEF ScanInv, ScansWholeSnapshot, Whole, Stamped
  <2>2. opps[c] = {} /\ opps'[c] = {}
    BY <1>1 DEF ScanInv, OppsFromScan, Stamped
  <2> QED
    BY <2>1, <2>2 DEF OppsFromScan
<1>5. MemoryFromOneScan(c)'
  BY <1>1, <1>3, MemoryIsKept DEF ScanInv, Scanning, Stamped
<1>6. BlocksBehind(c)'
  BY <1>1 DEF ScanInv, BlocksBehind, Behind
<1> QED
  BY <1>2, <1>4, <1>5, <1>6 DEF ScanInv

\* A step of the scan of one chain touches no other chain.
LEMMA ScanIsLocal ==
  ASSUME ScanTypeOK, NEW c \in Chains, ScanTask(c), NEW d \in Chains, d # c
  PROVE  /\ stage'[d] = stage[d] /\ snap'[d] = snap[d] /\ tick'[d] = tick[d]
         /\ opps'[d] = opps[d] /\ memory'[d] = memory[d] /\ shown'[d] = shown[d]
BY DEF ScanTypeOK, ScanTask, ScanStep, LoadSnapshot, Stamp, Discard, Detect, Panic,
       Enrich, Notify, ScanWake

LEMMA ScanKeepsPipe ==
  ASSUME PipeInv, NEW c \in Chains, ScanTask(c)
  PROVE  PipeInv'
<1>1. UNCHANGED <<clock, slot, chain, workerVars, shown>>
  BY DEF ScanTask, ScanStep, LoadSnapshot, Stamp, Discard, Detect, Panic, Enrich,
         Notify, ScanWake
<1>2. SyncInv'
  <2>1. UNCHANGED syncVars
    BY <1>1 DEF syncVars, workerVars
  <2> QED
    BY <2>1, StepSync DEF PipeInv
<1>3. ScanTypeOK' /\ ScanInv(c)'
  BY <1>1, LoadKeepsPipe, StampKeepsPipe, DiscardKeepsPipe, DetectKeepsPipe,
     PanicKeepsPipe, EnrichKeepsPipe, NotifyKeepsPipe, ScanWakeKeepsPipe
  DEF ScanTask, ScanStep
<1>4. ASSUME NEW d \in Chains, d # c
      PROVE  ScanInv(d)'
  <2>1. UNCHANGED <<clock, slot, chain, phase, at>> /\ ScanInv(d)
    BY <1>1 DEF workerVars, PipeInv
  <2> QED
    BY <1>4, <2>1, ScanIsLocal, Untouched DEF PipeInv
<1> QED
  BY <1>2, <1>3, <1>4 DEF PipeInv

\* A client asks for what is served.
LEMMA ClientKeepsPipe ==
  ASSUME PipeInv, NEW c \in Chains, GetOpportunities(c)
  PROVE  PipeInv'
<1> USE DEF PipeInv
<1>1. PICK opp \in memory[c] : \E q \in opp.quoted :
        shown' = [shown EXCEPT ![c] = q.state.block]
  BY DEF GetOpportunities
<1>2. PICK q \in opp.quoted : shown' = [shown EXCEPT ![c] = q.state.block]
  BY <1>1
<1>3. UNCHANGED <<syncVars, scanVars>>
  BY DEF GetOpportunities
<1>4. SyncInv'
  BY <1>3, StepSync
<1>5. q.state.block \in Nat
  BY <1>1, <1>2, ServedBlockType
<1>6. ScanTypeOK'
  BY <1>2, <1>3, <1>5 DEF ScanTypeOK, scanVars
<1>7. Behind(c, q.state.block)
  BY <1>1, <1>2 DEF ScanInv, BlocksBehind
<1>8. ASSUME NEW d \in Chains
      PROVE  ScanInv(d)'
  <2>1. /\ UNCHANGED <<clock, slot, chain, phase, at, stage, snap, tick, opps, memory>>
        /\ ScanInv(d)
    BY <1>3 DEF syncVars, scanVars
  <2>2. CASE d # c
    <3>1. shown'[d] = shown[d]
      BY <1>2, <2>2 DEF ScanTypeOK
    <3> QED
      BY <2>1, <3>1, Untouched
  <2>3. CASE d = c
    <3>1. shown'[c] = q.state.block
      BY <1>2 DEF ScanTypeOK
    <3>2. BlocksBehind(c)'
      BY <1>7, <2>1, <2>3, <3>1 DEF ScanInv, BlocksBehind, Behind
    <3>3. MemoryFromOneScan(c)'
      BY <2>1, <2>3, MemoryIsKept DEF ScanInv, Scanning, Stamped
    <3>4. ScansWholeSnapshot(c)' /\ OppsFromScan(c)'
      BY <2>1, <2>3
         DEF ScanInv, ScansWholeSnapshot, Whole, OppsFromScan, FoundOn, Stamped
    <3> QED
      BY <2>3, <3>2, <3>3, <3>4 DEF ScanInv
  <2> QED
    BY <2>2, <2>3
<1> QED
  BY <1>4, <1>6, <1>8

LEMMA StepPipe == PipeInv /\ [PipeNext]_vars => PipeInv'
<1> SUFFICES ASSUME PipeInv, [PipeNext]_vars
             PROVE  PipeInv'
  OBVIOUS
<1>1. CASE PipeNext
  BY <1>1, SyncKeepsPipe, ScanKeepsPipe, ClientKeepsPipe DEF PipeNext
<1>2. CASE UNCHANGED vars
  <2>1. UNCHANGED <<syncVars, scanVars, shown>>
    BY <1>2 DEF vars
  <2>2. SyncInv'
    BY <2>1, StepSync DEF PipeInv
  <2>3. ScanTypeOK'
    BY <2>1 DEF PipeInv, ScanTypeOK, scanVars
  <2>4. ASSUME NEW c \in Chains
        PROVE  ScanInv(c)'
    BY <2>1, Untouched DEF PipeInv, syncVars, scanVars
  <2> QED
    BY <2>2, <2>3, <2>4 DEF PipeInv
<1> QED
  BY <1>1, <1>2

\* The inductive invariant holds in every reachable state.
THEOREM PipeInvariant == PipeSpec => []PipeInv
  BY InitPipe, StepPipe, PTL DEF PipeSpec

-----------------------------------------------------------------------------
(* What clients of the API are shown. *)

\* Every variable of the tasks keeps its type.
THEOREM PipeTypeCorrect == PipeSpec => []PipeTypeOK
<1>1. PipeInv => PipeTypeOK
  BY DEF PipeInv, SyncInv, PipeTypeOK
<1> QED
  BY <1>1, PipeInvariant, PTL

\* Whatever is published while a scan runs, everything served for a chain was
\* quoted on one block, and plans are built on what was quoted.
THEOREM ServesOneBlock == PipeSpec => []ServedFromOneBlock
<1>1. PipeInv => ServedFromOneBlock
  <2> SUFFICES ASSUME PipeInv, NEW c \in Chains,
                      NEW o \in memory[c], NEW p \in memory[c]
               PROVE  /\ \A q \in o.quoted, r \in p.quoted : q.state.block = r.state.block
                      /\ o.execution \in {{}, o.quoted}
    BY DEF ServedFromOneBlock
  <2>1. PICK b \in Nat, a \in Nat, t \in Nat :
          \A opp \in memory[c] : FoundOn(opp, b, a, t)
    BY DEF PipeInv, ScanInv, MemoryFromOneScan
  <2> QED
    BY <2>1 DEF FoundOn
<1> QED
  BY <1>1, PipeInvariant, PTL

\* Nothing stale is served: all pools of an opportunity had been synced within
\* the staleness bound when it was detected, and no later than that.
THEOREM ServesFresh == PipeSpec => []ServedFresh
<1>1. PipeInv => ServedFresh
  <2> SUFFICES ASSUME PipeInv, NEW c \in Chains, NEW o \in memory[c]
               PROVE  /\ o.detected_at - o.worst_pool_synced_at <= MaxStaleness
                      /\ o.worst_pool_synced_at <= o.detected_at
                      /\ o.worst_pool_synced_at <= slot[c].taken_at
    BY DEF ServedFresh
  <2>1. PICK b \in Nat, a \in Nat, t \in Nat :
          /\ \A opp \in memory[c] : FoundOn(opp, b, a, t)
          /\ a <= slot[c].taken_at
    BY DEF PipeInv, ScanInv, MemoryFromOneScan
  <2> QED
    BY <2>1 DEF FoundOn
<1> QED
  BY <1>1, PipeInvariant, PTL

\* A client never sees the status of a chain behind, by more than the lag, an
\* opportunity it was shown before.
THEOREM NeverShownAhead == PipeSpec => []ServedBehindStore
<1>1. PipeInv => ServedBehindStore
  BY DEF PipeInv, ScanInv, BlocksBehind, Behind, ServedBehindStore, Status, Load
<1> QED
  BY <1>1, PipeInvariant, PTL

\* The served set of a chain changes only when its scan notifies.
LEMMA OnlyNotifyServes ==
  ASSUME ScanTypeOK, [PipeNext]_vars, NEW c \in Chains, memory'[c] # memory[c]
  PROVE  Notify(c) /\ memory'[c] = opps[c]
<1>1. CASE SyncStep \/ UNCHANGED vars
  BY <1>1 DEF SyncStep, vars, scanVars
<1>2. ASSUME NEW d \in Chains, GetOpportunities(d)
      PROVE  FALSE
  BY <1>2 DEF GetOpportunities, scanVars
<1>3. ASSUME NEW d \in Chains, ScanTask(d)
      PROVE  Notify(c)
  <2>1. d = c
    BY <1>3, ScanIsLocal
  <2> QED
    BY <1>3, <2>1 DEF ScanTask, ScanStep, LoadSnapshot, Stamp, Discard, Detect,
                      Panic, Enrich, ScanWake
<1>4. Notify(c)
  BY <1>1, <1>2, <1>3 DEF PipeNext
<1> QED
  BY <1>4 DEF Notify, ScanTypeOK

\* A served set is never replaced by one found earlier or on an older snapshot.
THEOREM NeverServesOlder == PipeSpec => ServedMovesForward
<1> DEFINE Forward ==
      \A c \in Chains : memory'[c] # memory[c] =>
        \A o \in memory[c], p \in memory'[c] :
            /\ p.detected_at >= o.detected_at
            /\ p.worst_pool_synced_at >= o.worst_pool_synced_at
<1>1. ASSUME PipeInv, [PipeNext]_vars
      PROVE  Forward
  <2> SUFFICES ASSUME NEW c \in Chains, memory'[c] # memory[c],
                      NEW o \in memory[c], NEW p \in memory'[c]
               PROVE  /\ p.detected_at >= o.detected_at
                      /\ p.worst_pool_synced_at >= o.worst_pool_synced_at
    OBVIOUS
  <2>1. stage[c] = "notifying" /\ p \in opps[c]
    BY <1>1, OnlyNotifyServes DEF PipeInv, Notify
  <2>2. p.detected_at = tick[c] /\ p.worst_pool_synced_at = snap[c].taken_at
    BY <1>1, <2>1 DEF PipeInv, ScanInv, OppsFromScan, FoundOn
  <2>3. PICK b \in Nat, a \in Nat, t \in Nat :
          /\ \A opp \in memory[c] : FoundOn(opp, b, a, t)
          /\ Scanning(c) => a <= snap[c].taken_at
          /\ Stamped(c) => t <= tick[c]
    BY <1>1 DEF PipeInv, ScanInv, MemoryFromOneScan
  <2>4. o.detected_at = t /\ o.worst_pool_synced_at = a
    BY <2>3 DEF FoundOn
  <2>5. a <= snap[c].taken_at /\ t <= tick[c]
    BY <2>1, <2>3 DEF Scanning, Stamped
  <2>6. snap[c].taken_at \in Nat /\ tick[c] \in Nat
    BY <1>1, ScanTypes
  <2> QED
    BY <2>2, <2>4, <2>5, <2>6
<1>2. ASSUME PipeInv, [PipeNext]_vars
      PROVE  [Forward]_vars
  BY <1>1, <1>2
<1> HIDE DEF Forward
<1>3. PipeSpec => [][Forward]_vars
  BY <1>2, PipeInvariant, PTL DEF PipeSpec
<1> QED
  BY <1>3 DEF ServedMovesForward, Forward

-----------------------------------------------------------------------------
(* The tasks implement the board. *)

\* What the board is made of in a state of the tasks.
Latest == [c \in Chains |-> StampOf(slot[c])]
Copy == [c \in Chains |-> StampOf(snap[c])]
Shown == [c \in Chains |-> {Notice(opp) : opp \in memory[c]}]

LEMMA BlankStamp == StampOf(EmptySnapshot) = Board!Blank
BY EmptySnapshotIsEmpty DEF StampOf, Board!Blank

\* Before the first sync nothing is published, copied or served.
LEMMA InitBoard == PipeInit => Board!BoardInit
<1> SUFFICES ASSUME PipeInit PROVE Board!BoardInit
  OBVIOUS
<1>1. \A c \in Chains :
        /\ slot[c] = EmptySnapshot /\ snap[c] = EmptySnapshot /\ memory[c] = {}
  BY DEF PipeInit, Init, StoreInit, ScanInit
<1>2. Latest = [c \in Chains |-> Board!Blank] /\ Copy = [c \in Chains |-> Board!Blank]
  BY <1>1, BlankStamp DEF Latest, Copy
<1>3. Shown = [c \in Chains |-> {}]
  BY <1>1 DEF Shown
<1> QED
  BY <1>2, <1>3 DEF Board!BoardInit, Latest, Copy, Shown

\* What a scan puts on the board is one notice of its copy, or none.
LEMMA ScanGivesNotice ==
  ASSUME PipeInv, NEW c \in Chains
  PROVE  {Notice(opp) : opp \in opps[c]} \in
           {{}} \cup {{notice} : notice \in Board!Notices(StampOf(snap[c]))}
<1> DEFINE notice == [block |-> snap[c].block, taken_at |-> snap[c].taken_at,
                      detected_at |-> tick[c]]
<1>1. ASSUME NEW opp \in opps[c]
      PROVE  Notice(opp) = notice /\ notice \in Board!Notices(StampOf(snap[c]))
  <2>1. FoundOn(opp, snap[c].block, snap[c].taken_at, tick[c])
    BY DEF PipeInv, ScanInv, OppsFromScan
  <2>2. (CHOOSE q \in opp.quoted : TRUE) \in opp.quoted
    BY <2>1 DEF FoundOn
  <2>3. Notice(opp) = notice
    BY <2>1, <2>2 DEF FoundOn, Notice
  <2>4. tick[c] \in snap[c].taken_at .. snap[c].taken_at + MaxStaleness
    BY <2>1, ScanTypes, MaxStalenessAssumption DEF FoundOn
  <2>5. notice \in Board!Notices(StampOf(snap[c]))
    BY <2>4 DEF Board!Notices, StampOf
  <2> QED
    BY <2>3, <2>5
<1> HIDE DEF notice
<1>2. CASE opps[c] = {}
  BY <1>2
<1>3. CASE opps[c] # {}
  <2>1. {Notice(opp) : opp \in opps[c]} = {notice}
    BY <1>1, <1>3
  <2> QED
    BY <1>1, <1>3, <2>1
<1> QED
  BY <1>2, <1>3

\* Every step publishes, takes a copy, replaces one chain's board, abandons a
\* scan, or changes nothing a client or a scan can see.
LEMMA StepBoard ==
  ASSUME PipeInv, PipeInv', [PipeNext]_vars
  PROVE  [Board!BoardNext]_<<Latest, Copy, Shown>>
<1>1. CASE UNCHANGED <<slot, snap, memory>>
  BY <1>1 DEF Latest, Copy, Shown
<1>2. ASSUME NEW c \in Chains, Publish(c), UNCHANGED scanVars
      PROVE  Board!Publish(c)
  <2>1. \A d \in Chains \ {c} : slot'[d] = slot[d]
    BY <1>2 DEF Publish, Store, PipeInv, SyncInv, TypeOK
  <2>2. Latest'[c] \in Board!Stamps
    BY DEF PipeInv, SyncInv, TypeOK, Snapshots, Latest, StampOf, Board!Stamps
  <2>3. Latest' = [Latest EXCEPT ![c] = Latest'[c]]
    BY <2>1 DEF Latest
  <2>4. UNCHANGED <<Copy, Shown>>
    BY <1>2 DEF Copy, Shown, scanVars
  <2> QED
    BY <2>2, <2>3, <2>4 DEF Board!Publish, Latest, Copy, Shown
<1>3. ASSUME NEW c \in Chains, LoadSnapshot(c)
      PROVE  Board!Take(c)
  <2>1. /\ snap' = [snap EXCEPT ![c] = slot[c]]
        /\ UNCHANGED <<slot, memory>>
    BY <1>3 DEF LoadSnapshot, Load
  <2>2. Copy' = [Copy EXCEPT ![c] = Latest[c]]
    BY <2>1 DEF Copy, Latest, PipeInv, ScanTypeOK
  <2>3. UNCHANGED <<Latest, Shown>>
    BY <2>1 DEF Latest, Shown
  <2> QED
    BY <2>2, <2>3 DEF Board!Take, Latest, Copy, Shown
<1>4. ASSUME NEW c \in Chains, Notify(c)
      PROVE  Board!Replace(c)
  <2> DEFINE notices == {Notice(opp) : opp \in opps[c]}
  <2>1. /\ memory' = [memory EXCEPT ![c] = opps[c]]
        /\ snap' = [snap EXCEPT ![c] = EmptySnapshot]
        /\ UNCHANGED slot
    BY <1>4 DEF Notify
  <2>2. notices \in {{}} \cup {{notice} : notice \in Board!Notices(Copy[c])}
    BY ScanGivesNotice DEF Copy
  <2>3. Shown' = [Shown EXCEPT ![c] = notices]
    BY <2>1 DEF Shown, PipeInv, ScanTypeOK
  <2>4. Copy' = [Copy EXCEPT ![c] = Board!Blank]
    BY <2>1, BlankStamp DEF Copy, PipeInv, ScanTypeOK
  <2>5. UNCHANGED Latest
    BY <2>1 DEF Latest
  <2> HIDE DEF notices
  <2> QED
    BY <2>2, <2>3, <2>4, <2>5 DEF Board!Replace, Latest, Copy, Shown
<1>5. ASSUME NEW c \in Chains, NEW path \in Paths, Panic(c, path)
      PROVE  Board!Abandon(c)
  <2>1. /\ snap' = [snap EXCEPT ![c] = EmptySnapshot]
        /\ UNCHANGED <<slot, memory>>
    BY <1>5 DEF Panic
  <2>2. Copy' = [Copy EXCEPT ![c] = Board!Blank]
    BY <2>1, BlankStamp DEF Copy, PipeInv, ScanTypeOK
  <2>3. UNCHANGED <<Latest, Shown>>
    BY <2>1 DEF Latest, Shown
  <2> QED
    BY <2>2, <2>3 DEF Board!Abandon, Latest, Copy, Shown
<1>6. \/ UNCHANGED <<slot, snap, memory>>
      \/ \E c \in Chains : Publish(c) /\ UNCHANGED scanVars
      \/ \E c \in Chains : LoadSnapshot(c) \/ Notify(c)
      \/ \E c \in Chains, path \in Paths : Panic(c, path)
  <2>1. CASE SyncStep
    BY <2>1 DEF SyncStep, Next, Tick, NewBlock, Reorg, Worker, AnswerHead, ReadFails,
                PinBlock, Discover, Refresh, ExchangeFails, Wake, scanVars
  <2>2. ASSUME NEW c \in Chains, ScanTask(c)
        PROVE  \/ UNCHANGED <<slot, snap, memory>>
               \/ LoadSnapshot(c) \/ Notify(c)
               \/ \E path \in Paths : Panic(c, path)
    BY <2>2 DEF ScanTask, ScanStep, Stamp, Discard, Detect, Enrich, ScanWake
  <2>3. ASSUME NEW c \in Chains, GetOpportunities(c)
        PROVE  UNCHANGED <<slot, snap, memory>>
    BY <2>3 DEF GetOpportunities, syncVars, scanVars
  <2>4. CASE UNCHANGED vars
    BY <2>4 DEF vars, syncVars, scanVars
  <2> QED
    BY <2>1, <2>2, <2>3, <2>4 DEF PipeNext
<1> QED
  BY <1>1, <1>2, <1>3, <1>4, <1>5, <1>6 DEF Board!BoardNext

\* The tasks of all chains together are the board their clients are promised:
\* every served set is that of one whole scan of one fresh snapshot.
THEOREM PipelineImplementsBoard == PipeSpec => ImplementsBoard
<1>1. ASSUME PipeInv, PipeInv', [PipeNext]_vars
      PROVE  [Board!BoardNext]_<<[c \in Chains |-> StampOf(slot[c])],
                                 [c \in Chains |-> StampOf(snap[c])],
                                 [c \in Chains |-> {Notice(opp) : opp \in memory[c]}]>>
  BY <1>1, StepBoard DEF Latest, Copy, Shown
<1> QED
  BY <1>1, InitBoard, PipeInvariant, PTL
     DEF PipeSpec, ImplementsBoard, Board!BoardSpec
=============================================================================
