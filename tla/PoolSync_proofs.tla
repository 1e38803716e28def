--------------------------- MODULE PoolSync_proofs ---------------------------
(***************************************************************************)
(* Proofs about PoolSync for every number of chains, exchanges and pools,   *)
(* every lag of the RPC node and every bound.                               *)
(***************************************************************************)
EXTENDS PoolSync, SequenceTheorems, TLAPS

-----------------------------------------------------------------------------
(* What the helpers return. *)

\* The snapshot a chain serves before its first sync is a snapshot.
LEMMA EmptySnapshotType == EmptySnapshot \in Snapshots
  BY MaxStalenessAssumption DEF EmptySnapshot, FromEntries, Snapshots, Epoch

\* A worker that holds only pool states read at its pinned block assembles
\* entries that all carry that block, and the time of its tick.
LEMMA AssembleIsPinned ==
  ASSUME NEW c \in Chains, TypeOK, ReadsArePinned
  PROVE  /\ Assemble(c) \subseteq Entries
         /\ \A e \in Assemble(c) :
              /\ e.state.block = at[c]
              /\ e.synced_block = at[c]
              /\ e.synced_at = now[c]
              /\ \E x \in Exchanges : \E q \in pools[c][x] : e.state = q.state
<1> SUFFICES ASSUME NEW e \in Assemble(c)
             PROVE  /\ e \in Entries
                    /\ e.state.block = at[c]
                    /\ e.synced_block = at[c]
                    /\ e.synced_at = now[c]
                    /\ \E x \in Exchanges : \E q \in pools[c][x] : e.state = q.state
  OBVIOUS
<1>0. PICK x \in Exchanges : \E q \in pools[c][x] :
        e = [xch |-> x, pool |-> q.pool, state |-> q.state,
             synced_block |-> at[c], synced_at |-> now[c]]
  BY DEF Assemble
<1>1. PICK q \in pools[c][x] :
        e = [xch |-> x, pool |-> q.pool, state |-> q.state,
             synced_block |-> at[c], synced_at |-> now[c]]
  BY <1>0
<1>2. q \in [pool : Pools, state : States]
  BY DEF TypeOK
<1>3. at[c] \in Nat /\ now[c] \in Nat
  BY DEF TypeOK
<1>4. q.state.block = at[c]
  BY DEF ReadsArePinned
<1>5. e \in Entries
  BY <1>1, <1>2, <1>3 DEF Entries
<1> QED
  BY <1>1, <1>4, <1>5

\* The state of a pool at a block of the chain is a state.
LEMMA StateAtType ==
  ASSUME NEW c \in Chains, TypeOK, NEW n \in 1 .. Len(chain[c])
  PROVE  StateAt(c, n) \in States /\ StateAt(c, n).block = n
<1>1. chain[c] \in Seq(Nat)
  BY DEF TypeOK
<1>2. Len(chain[c]) \in Nat /\ chain[c][n] \in Nat
  BY <1>1
<1>3. n \in Nat
  BY <1>2
<1> QED
  BY <1>2, <1>3 DEF StateAt, States

-----------------------------------------------------------------------------
(* The inductive invariant. *)

\* Before the first sync a chain serves a snapshot with nothing in it.
LEMMA EmptySnapshotIsEmpty ==
  EmptySnapshot.block = 0 /\ EmptySnapshot.taken_at = 0 /\ EmptySnapshot.entries = {}
BY DEF EmptySnapshot, FromEntries, Epoch

LEMMA InitSync == Init => SyncInv
<1> SUFFICES ASSUME Init PROVE SyncInv
  OBVIOUS
<1>1. TypeOK
  BY EmptySnapshotType, MaxStalenessAssumption
     DEF TypeOK, Phases, Progress, Init, StoreInit, NoTask, NoPools, Epoch, StartOfTime
<1>2. /\ clock \in Nat
      /\ \A c \in Chains : slot[c] = EmptySnapshot /\ chain[c] = <<0>>
      /\ \A c \in Chains : phase[c] = "reading" /\ pools[c] = NoPools
  BY MaxStalenessAssumption DEF Init, StoreInit, StartOfTime
<1>3. AtFollowsChain
  <2> SUFFICES ASSUME NEW c \in Chains
               PROVE  /\ chain[c] # <<>>
                      /\ slot[c].block <= Len(chain[c])
                      /\ phase[c] \notin {"answered", "refreshing"}
    BY DEF AtFollowsChain
  <2>1. Len(<<0>>) = 1 /\ <<0>> # <<>>
    OBVIOUS
  <2> QED
    BY <1>2, <2>1, EmptySnapshotIsEmpty
<1>4. ReadsArePinned
  BY <1>2 DEF ReadsArePinned, NoPools
<1>5. TimesOrdered
  <2> SUFFICES ASSUME NEW c \in Chains
               PROVE  slot[c].taken_at <= clock /\ phase[c] # "refreshing"
    BY DEF TimesOrdered
  <2>1. slot[c].taken_at = 0 /\ phase[c] = "reading"
    BY <1>2, EmptySnapshotIsEmpty
  <2> QED
    BY <1>2, <2>1
<1>6. BlockConsistent
  BY <1>2, EmptySnapshotIsEmpty DEF BlockConsistent
<1> QED
  BY <1>1, <1>3, <1>4, <1>5, <1>6 DEF SyncInv

\* A step of the environment.
LEMMA EnvironmentKeepsSync ==
  ASSUME SyncInv, Tick \/ \E c \in Chains : NewBlock(c) \/ Reorg(c)
  PROVE  SyncInv'
<1> USE DEF SyncInv
<1>1. CASE Tick
  <2> USE <1>1 DEF Tick, workerVars
  <2>1. TypeOK'
    BY DEF TypeOK
  <2>2. AtFollowsChain' /\ ReadsArePinned' /\ BlockConsistent'
    BY DEF AtFollowsChain, ReadsArePinned, BlockConsistent
  <2>3. TimesOrdered'
    BY DEF TimesOrdered, TypeOK, Snapshots
  <2> QED
    BY <2>1, <2>2, <2>3
<1>2. ASSUME NEW c \in Chains, NewBlock(c)
      PROVE  SyncInv'
  <2> USE <1>2 DEF NewBlock, workerVars
  <2>1. chain[c] \in Seq(Nat)
    BY DEF TypeOK
  <2>2. /\ Append(chain[c], 0) \in Seq(Nat)
        /\ Append(chain[c], 0) # <<>>
        /\ Len(Append(chain[c], 0)) = Len(chain[c]) + 1
        /\ Len(chain[c]) \in Nat
    BY <2>1
  <2>3. chain' = [chain EXCEPT ![c] = Append(chain[c], 0)]
    BY DEF TypeOK
  <2>4. TypeOK'
    BY <2>2, <2>3 DEF TypeOK
  <2>5. AtFollowsChain'
    <3> SUFFICES ASSUME NEW d \in Chains
                 PROVE  /\ chain'[d] # <<>>
                        /\ slot[d].block <= Len(chain'[d])
                        /\ phase[d] \in {"answered", "refreshing"} =>
                             /\ at[d] \in 1 .. Len(chain'[d])
                             /\ slot[d].block <= at[d] + MaxLag
      BY DEF AtFollowsChain
    <3>1. slot[d].block \in Nat /\ at[d] \in Nat /\ Len(chain[d]) \in Nat
      BY DEF TypeOK, Snapshots
    <3>2. CASE d = c
      BY <2>2, <2>3, <3>1, <3>2 DEF AtFollowsChain, TypeOK
    <3>3. CASE d # c
      BY <2>3, <3>1, <3>3 DEF AtFollowsChain, TypeOK
    <3> QED
      BY <3>2, <3>3
  <2>6. ReadsArePinned' /\ TimesOrdered' /\ BlockConsistent'
    BY DEF ReadsArePinned, TimesOrdered, BlockConsistent
  <2> QED
    BY <2>4, <2>5, <2>6
<1>3. ASSUME NEW c \in Chains, Reorg(c)
      PROVE  SyncInv'
  <2> USE <1>3 DEF Reorg, workerVars
  <2> DEFINE head == Len(chain[c])
             forked == [chain[c] EXCEPT ![head] = @ + 1]
  <2>1. chain[c] \in Seq(Nat) /\ chain[c] # <<>>
    BY DEF TypeOK, AtFollowsChain
  <2>2. forked \in Seq(Nat) /\ Len(forked) = head /\ forked # <<>>
    BY <2>1
  <2>3. chain' = [chain EXCEPT ![c] = forked]
    BY DEF TypeOK
  <2> HIDE DEF forked
  <2>4. TypeOK'
    BY <2>2, <2>3 DEF TypeOK
  <2>5. AtFollowsChain'
    BY <2>2, <2>3 DEF AtFollowsChain, TypeOK, Snapshots
  <2>6. ReadsArePinned' /\ TimesOrdered' /\ BlockConsistent'
    BY DEF ReadsArePinned, TimesOrdered, BlockConsistent
  <2> QED
    BY <2>4, <2>5, <2>6
<1> QED
  BY <1>1, <1>2, <1>3

\* A step of a worker.
LEMMA WorkerKeepsSync ==
  ASSUME SyncInv, NEW c \in Chains, Worker(c)
  PROVE  SyncInv'
<1> USE BoundsAssumption DEF SyncInv, envVars
<1>0. /\ chain[c] \in Seq(Nat) /\ Len(chain[c]) \in Nat
      /\ at[c] \in Nat /\ now[c] \in Nat /\ clock \in Nat
      /\ slot[c] \in Snapshots
      /\ slot[c].block \in Nat /\ slot[c].taken_at \in Nat
  BY DEF TypeOK, Snapshots
<1>1. CASE AnswerHead(c)
  <2> USE <1>1 DEF AnswerHead
  <2>1. PICK n \in 1 .. Len(chain[c]) :
          n + MaxLag >= Len(chain[c]) /\ at' = [at EXCEPT ![c] = n]
    OBVIOUS
  <2>2. n \in Nat
    BY <1>0
  <2>3. TypeOK'
    BY <2>1, <2>2 DEF TypeOK, Phases
  <2>4. AtFollowsChain'
    BY <1>0, <2>1, <2>2 DEF AtFollowsChain, TypeOK
  <2>5. ReadsArePinned'
    BY <2>1 DEF ReadsArePinned, TypeOK
  <2>6. TimesOrdered' /\ BlockConsistent'
    BY DEF TimesOrdered, BlockConsistent, TypeOK
  <2> QED
    BY <2>3, <2>4, <2>5, <2>6
<1>2. CASE ReadFails(c)
  <2> USE <1>2 DEF ReadFails
  <2>1. TypeOK'
    BY DEF TypeOK, Phases
  <2>2. AtFollowsChain' /\ ReadsArePinned' /\ TimesOrdered' /\ BlockConsistent'
    <3>1. AtFollowsChain'
      BY DEF AtFollowsChain, TypeOK
    <3>2. ReadsArePinned' /\ BlockConsistent'
      BY DEF ReadsArePinned, BlockConsistent, TypeOK
    <3>3. TimesOrdered'
      BY DEF TimesOrdered, TypeOK
    <3> QED
      BY <3>1, <3>2, <3>3
  <2> QED
    BY <2>1, <2>2
<1>3. CASE PinBlock(c)
  <2> USE <1>3 DEF PinBlock
  <2>1. TypeOK'
    BY <1>0 DEF TypeOK, Phases, Progress
  <2>2. AtFollowsChain' /\ ReadsArePinned' /\ BlockConsistent'
    <3>1. AtFollowsChain'
      BY DEF AtFollowsChain, TypeOK
    <3>2. ReadsArePinned' /\ BlockConsistent'
      BY DEF ReadsArePinned, BlockConsistent, TypeOK
    <3> QED
      BY <3>1, <3>2
  <2>3. TimesOrdered'
    BY <1>0 DEF TimesOrdered, TypeOK
  <2> QED
    BY <2>1, <2>2, <2>3
<1>4. ASSUME NEW x \in Exchanges, Discover(c, x)
      PROVE  SyncInv'
  <2> USE <1>4 DEF Discover
  <2>1. TypeOK'
    <3>1. PICK found \in SUBSET Listing[c][x] :
            keys' = [keys EXCEPT ![c][x] = found]
      OBVIOUS
    <3>2. found \in SUBSET Pools
      BY ListingAssumption
    <3> QED
      BY <3>1, <3>2 DEF TypeOK, Progress
  <2>2. AtFollowsChain' /\ ReadsArePinned' /\ TimesOrdered' /\ BlockConsistent'
    BY DEF AtFollowsChain, ReadsArePinned, TimesOrdered, BlockConsistent
  <2> QED
    BY <2>1, <2>2
<1>5. ASSUME NEW x \in Exchanges, Refresh(c, x)
      PROVE  SyncInv'
  <2> DEFINE read == [pool : keys[c][x], state : {StateAt(c, at[c])}]
  <2>1. at[c] \in 1 .. Len(chain[c])
    BY <1>5 DEF Refresh, AtFollowsChain
  <2>2. StateAt(c, at[c]) \in States /\ StateAt(c, at[c]).block = at[c]
    BY <2>1, StateAtType
  <2>3. /\ read \subseteq [pool : Pools, state : States]
        /\ \A q \in read : q.state.block = at[c]
    BY <2>2 DEF TypeOK
  <2>4. /\ phase[c] = "refreshing"
        /\ pools' = [pools EXCEPT ![c][x] = read]
        /\ task' = [task EXCEPT ![c][x] = "done"]
        /\ keys' = [keys EXCEPT ![c][x] = {}]
        /\ UNCHANGED <<clock, chain, phase, at, now, slot>>
    BY <1>5 DEF Refresh
  <2> HIDE DEF read
  <2>5. TypeOK'
    BY <2>3, <2>4 DEF TypeOK, Progress
  <2>6. ReadsArePinned'
    <3> SUFFICES ASSUME NEW d \in Chains, NEW y \in Exchanges,
                        NEW q \in pools'[d][y]
                 PROVE  phase[d] = "refreshing" /\ q.state.block = at[d]
      BY <2>4 DEF ReadsArePinned
    <3>1. CASE d = c /\ y = x
      BY <2>3, <2>4, <3>1 DEF TypeOK
    <3>2. CASE ~(d = c /\ y = x)
      BY <2>4, <3>2 DEF ReadsArePinned, TypeOK
    <3> QED
      BY <3>1, <3>2
  <2>7. AtFollowsChain' /\ TimesOrdered' /\ BlockConsistent'
    BY <2>4 DEF AtFollowsChain, TimesOrdered, BlockConsistent
  <2> QED
    BY <2>5, <2>6, <2>7
<1>6. ASSUME NEW x \in Exchanges, ExchangeFails(c, x)
      PROVE  SyncInv'
  <2> USE <1>6 DEF ExchangeFails
  <2>1. TypeOK'
    BY DEF TypeOK, Progress
  <2>2. AtFollowsChain' /\ ReadsArePinned' /\ TimesOrdered' /\ BlockConsistent'
    BY DEF AtFollowsChain, ReadsArePinned, TimesOrdered, BlockConsistent
  <2> QED
    BY <2>1, <2>2
<1>7. CASE Publish(c)
  <2> USE <1>7 DEF Publish, Store
  <2> DEFINE published == FromEntries(at[c], now[c], Assemble(c))
  <2>1. /\ Assemble(c) \subseteq Entries
        /\ \A e \in Assemble(c) :
             /\ e.state.block = at[c]
             /\ e.synced_block = at[c]
             /\ e.synced_at = now[c]
    BY AssembleIsPinned
  <2>2. /\ published \in Snapshots
        /\ published.block = at[c]
        /\ published.taken_at = now[c]
        /\ published.entries = Assemble(c)
    BY <1>0, <2>1 DEF FromEntries, Snapshots
  <2>3. slot' = [slot EXCEPT ![c] = published]
    OBVIOUS
  <2> HIDE DEF published
  <2>4. TypeOK'
    BY <2>2, <2>3 DEF TypeOK, Phases, Progress, NoTask, NoPools, Epoch
  <2>5. AtFollowsChain'
    BY <1>0, <2>2, <2>3 DEF AtFollowsChain, TypeOK
  <2>6. ReadsArePinned'
    BY DEF ReadsArePinned, TypeOK, NoPools
  <2>7. TimesOrdered'
    BY <1>0, <2>2, <2>3 DEF TimesOrdered, TypeOK
  <2>8. BlockConsistent'
    BY <2>1, <2>2, <2>3 DEF BlockConsistent, TypeOK
  <2> QED
    BY <2>4, <2>5, <2>6, <2>7, <2>8
<1>8. CASE Wake(c)
  <2> USE <1>8 DEF Wake
  <2>1. TypeOK'
    BY DEF TypeOK, Phases
  <2>2. AtFollowsChain' /\ ReadsArePinned' /\ TimesOrdered' /\ BlockConsistent'
    <3>1. AtFollowsChain'
      BY DEF AtFollowsChain, TypeOK
    <3>2. ReadsArePinned' /\ BlockConsistent'
      BY DEF ReadsArePinned, BlockConsistent, TypeOK
    <3>3. TimesOrdered'
      BY DEF TimesOrdered, TypeOK
    <3> QED
      BY <3>1, <3>2, <3>3
  <2> QED
    BY <2>1, <2>2
<1> QED
  BY <1>1, <1>2, <1>3, <1>4, <1>5, <1>6, <1>7, <1>8 DEF Worker

LEMMA StepSync == SyncInv /\ [Next]_syncVars => SyncInv'
<1> SUFFICES ASSUME SyncInv, [Next]_syncVars
             PROVE  SyncInv'
  OBVIOUS
<1>1. CASE Next
  BY <1>1, EnvironmentKeepsSync, WorkerKeepsSync DEF Next
<1>2. CASE UNCHANGED syncVars
  BY <1>2 DEF syncVars, SyncInv, TypeOK, AtFollowsChain, ReadsArePinned,
              TimesOrdered, BlockConsistent
<1> QED
  BY <1>1, <1>2

\* The inductive invariant holds in every reachable state.
THEOREM SyncInvariant == Spec => []SyncInv
  BY InitSync, StepSync, PTL DEF Spec

\* Every variable of the sync workers and the store keeps its type.
THEOREM SyncTypeCorrect == Spec => []TypeOK
<1>1. SyncInv => TypeOK
  BY DEF SyncInv
<1> QED
  BY <1>1, SyncInvariant, PTL

\* No published snapshot is torn across blocks, for any number of exchanges
\* answering in any order while the chain grows, forks and the RPC node lags.
THEOREM SnapshotsAreBlockConsistent == Spec => []BlockConsistent
<1>1. SyncInv => BlockConsistent
  BY DEF SyncInv
<1> QED
  BY <1>1, SyncInvariant, PTL

-----------------------------------------------------------------------------
(* The store implements the register. *)

\* A worker that is about to publish holds a block and a time at which the
\* register may be written.
LEMMA PublishSucceeds ==
  ASSUME SyncInv, NEW c \in Chains, Publish(c)
  PROVE  Register!Write(c)
<1> USE DEF SyncInv
<1>1. /\ Assemble(c) \subseteq Entries
      /\ \A e \in Assemble(c) : e.state.block = at[c]
  BY AssembleIsPinned
<1> DEFINE published == FromEntries(at[c], now[c], Assemble(c))
<1>2. slot' = [slot EXCEPT ![c] = published]
  BY DEF Publish, Store
<1>3. /\ published.block = at[c]
      /\ published.taken_at = now[c]
      /\ published.entries = Assemble(c)
  BY DEF FromEntries
<1> HIDE DEF published
<1>4. slot'[c] = published /\ \A d \in Chains \ {c} : slot'[d] = slot[d]
  BY <1>2 DEF TypeOK
<1>5. /\ StoreView'[c].block = at[c]
      /\ StoreView'[c].taken_at = now[c]
      /\ \A q \in StoreView'[c].pools : q.block = at[c]
  BY <1>1, <1>3, <1>4 DEF StoreView
<1>6. /\ StoreView[c].block = slot[c].block
      /\ StoreView[c].taken_at = slot[c].taken_at
  BY DEF StoreView
<1>7. Register!OfOneBlock(StoreView'[c])
  BY <1>5 DEF Register!OfOneBlock
<1>8. now[c] >= slot[c].taken_at
  BY DEF TimesOrdered, Publish, TypeOK, Snapshots
<1>9. at[c] + MaxLag >= slot[c].block
  BY BoundsAssumption DEF AtFollowsChain, Publish, TypeOK, Snapshots
<1>10. Register!Succeeds(StoreView[c], StoreView'[c])
  BY <1>5, <1>6, <1>8, <1>9 DEF Register!Succeeds
<1>11. StoreView' = [StoreView EXCEPT ![c] = StoreView'[c]]
  BY <1>4 DEF StoreView
<1> QED
  BY <1>7, <1>10, <1>11 DEF Register!Write

\* The initial store is the initial register.
LEMMA InitRegister == Init => Register!RegisterInit
<1> SUFFICES ASSUME Init PROVE Register!RegisterInit
  OBVIOUS
<1>1. ASSUME NEW c \in Chains
      PROVE  /\ slot[c].block = 0
             /\ slot[c].taken_at = 0
             /\ slot[c].entries = {}
  BY DEF Init, StoreInit, EmptySnapshot, FromEntries, Epoch
<1>2. ASSUME NEW c \in Chains
      PROVE  StoreView[c] = Register!Empty
  <2>1. {[pool |-> e.pool, block |-> e.state.block] : e \in slot[c].entries} = {}
    BY <1>1
  <2> QED
    BY <1>1, <2>1 DEF StoreView, Register!Empty
<1>3. StoreView = [c \in Chains |-> StoreView[c]]
  BY DEF StoreView
<1> QED
  BY <1>2, <1>3 DEF Register!RegisterInit

\* Every step writes one chain's register as the register allows, or leaves
\* all registers alone.
LEMMA StepRegister ==
  ASSUME SyncInv, [Next]_syncVars
  PROVE  [\E c \in Chains : Register!Write(c)]_StoreView
<1>1. CASE UNCHANGED slot
  BY <1>1 DEF StoreView
<1>2. ASSUME NEW c \in Chains, Publish(c)
      PROVE  [\E d \in Chains : Register!Write(d)]_StoreView
  BY <1>2, PublishSucceeds
<1>3. UNCHANGED slot \/ \E c \in Chains : Publish(c)
  BY DEF Next, Tick, NewBlock, Reorg, Worker, AnswerHead, ReadFails, PinBlock,
         Discover, Refresh, ExchangeFails, Wake, syncVars
<1> QED
  BY <1>1, <1>2, <1>3

\* The store is the register its readers are promised: each published snapshot
\* is whole, of one block, and follows the one before it.
THEOREM StoreImplementsRegister == Spec => ImplementsRegister
  BY InitRegister, StepRegister, SyncInvariant, PTL
     DEF Spec, ImplementsRegister, Register!RegisterSpec

-----------------------------------------------------------------------------
(* Forks. *)

LEMMA InitForks == Init => ForksBounded
<1> SUFFICES ASSUME Init, NEW c \in Chains
             PROVE  /\ \A n \in 1 .. Len(chain[c]) : chain[c][n] <= MaxFork
                    /\ \A x \in Exchanges : pools[c][x] = {}
                    /\ slot[c].entries = {}
  BY DEF ForksBounded
<1>1. chain[c] = <<0>>
  BY DEF Init
<1>2. \A n \in 1 .. Len(chain[c]) : chain[c][n] <= MaxFork
  BY <1>1, BoundsAssumption
<1> QED
  BY <1>2 DEF Init, StoreInit, NoPools, EmptySnapshot, FromEntries

LEMMA StepForks ==
  ASSUME SyncInv, ForksBounded, [Next]_syncVars
  PROVE  ForksBounded'
<1> USE BoundsAssumption DEF SyncInv
<1>1. CASE UNCHANGED <<chain, pools, slot>>
  BY <1>1 DEF ForksBounded
<1>2. ASSUME NEW c \in Chains, NewBlock(c)
      PROVE  ForksBounded'
  <2>1. /\ chain[c] \in Seq(Nat)
        /\ chain' = [chain EXCEPT ![c] = Append(chain[c], 0)]
        /\ UNCHANGED <<pools, slot>>
    BY <1>2 DEF NewBlock, workerVars, TypeOK
  <2>2. ASSUME NEW n \in 1 .. Len(Append(chain[c], 0))
        PROVE  Append(chain[c], 0)[n] <= MaxFork
    BY <2>1 DEF ForksBounded
  <2> QED
    BY <2>1, <2>2 DEF ForksBounded, TypeOK
<1>3. ASSUME NEW c \in Chains, Reorg(c)
      PROVE  ForksBounded'
  <2> DEFINE head == Len(chain[c])
             forked == [chain[c] EXCEPT ![head] = @ + 1]
  <2>1. /\ chain[c] \in Seq(Nat) /\ chain[c] # <<>>
        /\ chain[c][head] < MaxFork
        /\ chain' = [chain EXCEPT ![c] = forked]
        /\ UNCHANGED <<pools, slot>>
    <3>1. chain[c] \in Seq(Nat) /\ chain[c] # <<>>
      BY DEF TypeOK, AtFollowsChain
    <3> QED
      BY <1>3, <3>1 DEF Reorg, workerVars
  <2>2. ASSUME NEW n \in 1 .. Len(forked)
        PROVE  forked[n] <= MaxFork
    BY <2>1 DEF ForksBounded
  <2> HIDE DEF forked
  <2> QED
    BY <2>1, <2>2 DEF ForksBounded, TypeOK
<1>4. ASSUME NEW c \in Chains, NEW x \in Exchanges, Refresh(c, x)
      PROVE  ForksBounded'
  <2> DEFINE read == [pool : keys[c][x], state : {StateAt(c, at[c])}]
  <2>1. at[c] \in 1 .. Len(chain[c])
    BY <1>4 DEF Refresh, AtFollowsChain
  <2>2. StateAt(c, at[c]).fork <= MaxFork
    BY <2>1 DEF StateAt, ForksBounded
  <2>3. \A q \in read : q.state.fork <= MaxFork
    BY <2>2
  <2>4. /\ pools' = [pools EXCEPT ![c][x] = read]
        /\ UNCHANGED <<chain, slot>>
    BY <1>4 DEF Refresh, envVars
  <2> HIDE DEF read
  <2>5. ASSUME NEW d \in Chains, NEW y \in Exchanges, NEW q \in pools'[d][y]
        PROVE  q.state.fork <= MaxFork
    BY <2>3, <2>4 DEF ForksBounded, TypeOK
  <2> QED
    BY <2>4, <2>5 DEF ForksBounded
<1>5. ASSUME NEW c \in Chains, Publish(c)
      PROVE  ForksBounded'
  <2>1. \A e \in Assemble(c) : e.state.fork <= MaxFork
    BY AssembleIsPinned DEF ForksBounded
  <2> DEFINE published == FromEntries(at[c], now[c], Assemble(c))
  <2>2. /\ slot' = [slot EXCEPT ![c] = published]
        /\ pools' = [pools EXCEPT ![c] = NoPools]
        /\ UNCHANGED chain
    BY <1>5 DEF Publish, Store, envVars
  <2>3. published.entries = Assemble(c)
    BY DEF FromEntries
  <2> HIDE DEF published
  <2> QED
    BY <2>1, <2>2, <2>3 DEF ForksBounded, TypeOK, NoPools
<1> QED
  BY <1>1, <1>2, <1>3, <1>4, <1>5
     DEF Next, Tick, Worker, AnswerHead, ReadFails, PinBlock, Discover,
         ExchangeFails, Wake, syncVars, envVars, workerVars

\* On a chain that never replaces a block, all pools of a snapshot quote the
\* same state of the chain. Without that assumption it is false: the block is
\* pinned by its number.
THEOREM NoForkNoTear == MaxFork = 0 => (Spec => []ForkConsistent)
<1> SUFFICES ASSUME MaxFork = 0 PROVE Spec => []ForkConsistent
  OBVIOUS
<1>1. SyncInv /\ ForksBounded => ForkConsistent
  <2> SUFFICES ASSUME SyncInv, ForksBounded, NEW c \in Chains,
                      NEW e \in slot[c].entries, NEW f \in slot[c].entries
               PROVE  e.state = f.state
    BY DEF ForkConsistent
  <2>1. e.state \in States /\ f.state \in States
    BY DEF SyncInv, TypeOK, Snapshots, Entries
  <2>2. e.state.block = f.state.block
    BY DEF SyncInv, BlockConsistent
  <2>3. e.state.fork = 0 /\ f.state.fork = 0
    BY <2>1 DEF ForksBounded, States
  <2> QED
    BY <2>1, <2>2, <2>3 DEF States
<1> QED
  BY <1>1, InitForks, StepForks, SyncInvariant, PTL DEF Spec
=============================================================================
