-------------------------- MODULE ChainStateProofs --------------------------
(***************************************************************************)
(* Proofs about ChainState for every block tree, every number of threads   *)
(* and every number of crashes, failed writes and RPC commands: the types, *)
(* that candidates have the data of their whole branch, that the index on  *)
(* disk is complete below the coins on disk at every moment, and that the  *)
(* block tree satisfies what CheckBlockIndex asserts of it.                *)
(***************************************************************************)
EXTENDS ChainState, FiniteSetTheorems, WellFoundedInduction, TLAPS

\* The places at which a thread holds cs_main.
Critical == {"step", "inv", "dIndex", "dCoins", "cIndex", "cCoins", "iIndex", "iCoins", "pCoins"}
Place == Critical \cup {"idle", "find", "check", "periodic"}

\* A known block has a known parent.
KnownClosed == \A b \in Known : Anc[b] \subseteq Known

\* The index on disk lags behind the one in memory ...
DiskBehind == \A b \in Block : disk[b] # None =>
  /\ \A a \in Anc[b] : disk[a] # None
  /\ idx[b] # None
  /\ disk[b].have => idx[b].have
  /\ disk[b].undo => idx[b].undo

\* ... by the blocks in setDirtyBlockIndex only.
CleanSaved == \A b \in Known \ dirty :
  /\ disk[b] # None
  /\ idx[b].have => disk[b].have
  /\ idx[b].undo => disk[b].undo

\* nChainTx # 0 and mapBlocksUnlinked stand for data that is there.
LinkedHasData == /\ \A b \in linked : \A a \in Anc[b] : HasData(a)
                 /\ \A b \in unlinked : HasData(b)

\* No candidate has less work than the tip.
NoWorse == \A c \in cand : Work[c] >= Work[tip]

\* The branch of b can be connected and disconnected: in memory, and on disk.
Built(b) == \A a \in Anc[b] : HasData(a) /\ (a # Genesis => idx[a].undo)
Saved(b) == \A a \in Anc[b] : /\ disk[a] # None /\ disk[a].have
                              /\ a # Genesis => disk[a].undo

\* What a thread inside ActivateBestChain, InvalidateBlock or FlushStateToDisk
\* relies on.
ThreadOk(t) ==
  /\ pc[t] \in Critical => cs = t
  /\ pc[t] \in {"step", "dIndex", "dCoins", "cIndex", "cCoins"} => loc[t].most \in linked
  /\ pc[t] \in {"step", "dIndex", "dCoins"} => loc[t].most \notin Anc[tip]
  /\ pc[t] \in {"dIndex", "dCoins", "iIndex", "iCoins"} => tip # Genesis /\ coins = Prev[tip]
  /\ pc[t] \in {"cIndex", "cCoins"} => coins \in Anc[loc[t].most]
  /\ pc[t] \in {"inv", "iIndex", "iCoins"} => loc[t].most \in Block \ {Genesis}
  /\ pc[t] \in {"dCoins", "cCoins", "iCoins", "pCoins"} => Saved(coins)
ThreadsOk == \A t \in Thread : ThreadOk(t)

\* The inductive invariant.
IInv == /\ TypeOK
        /\ KnownClosed
        /\ DiskBehind
        /\ CleanSaved
        /\ LinkedHasData
        /\ CandidatesAreLinked
        /\ NoWorse
        /\ Built(tip) /\ Built(coins)
        /\ ThreadsOk
        /\ DiskChainComplete

-----------------------------------------------------------------------------
(* The block tree *)

\* Every branch runs from a block down to Genesis through its predecessor, with
\* less work at every step.
LEMMA AncFacts ==
  ASSUME NEW b \in Block
  PROVE  /\ b \in Anc[b] /\ Genesis \in Anc[b] /\ Anc[b] \subseteq Block
         /\ \A a \in Anc[b] : a \in Block /\ Anc[a] \subseteq Anc[b]
         /\ \A a \in Anc[b] : a # b => Work[a] < Work[b]
         /\ Work[b] \in Nat
         /\ b # Genesis => Prev[b] \in Block /\ Anc[b] = {b} \cup Anc[Prev[b]]
BY ChainStateAssumption

\* The predecessor of a block is a proper ancestor.
LEMMA PrevFacts ==
  ASSUME NEW b \in Block \ {Genesis}
  PROVE  Prev[b] \in Block /\ Prev[b] \in Anc[b] /\ Work[Prev[b]] < Work[b]
<1>1. Prev[b] \in Block /\ Anc[b] = {b} \cup Anc[Prev[b]]
  BY AncFacts
<1>2. Prev[b] \in Anc[b]
  BY <1>1, AncFacts
<1>3. Prev[b] # b
  BY ChainStateAssumption
<1>. QED  BY <1>1, <1>2, <1>3, AncFacts

\* CBlockIndexWorkComparator looks at the work first.
LEMMA WorkFirst ==
  ASSUME NEW s, NEW a \in Block, NEW b \in Block
  PROVE  /\ LessBy(s, a, b) => Work[b] >= Work[a]
         /\ ~LessBy(s, a, b) => Work[a] >= Work[b]
<1>1. Work[a] \in Nat /\ Work[b] \in Nat
  BY AncFacts
<1>. QED  BY <1>1 DEF LessBy

\* The bounds are numbers.
LEMMA BoundFacts ==
  /\ MaxInvalidate \in Nat /\ MaxReconsider \in Nat
  /\ MaxCrash \in Nat /\ MaxWriteFail \in Nat
BY ChainStateAssumption

\* A set of numbers has a least one.
LEMMA LeastNat ==
  ASSUME NEW T \in SUBSET Nat, T # {}
  PROVE  \E x \in T : \A y \in T : x <= y
<1>1. PICK x \in T : \A y \in T : ~(<<y, x>> \in OpToRel(<, Nat))
  BY NatLessThanWellFounded, WFMin
<1>2. \A y \in T : ~(y < x)
  BY <1>1 DEF OpToRel
<1>. QED  BY <1>2

\* A set of blocks has a highest one.
LEMMA HeightFacts ==
  ASSUME NEW b \in Block
  PROVE  /\ Cardinality(Anc[b]) \in Nat /\ Cardinality(Anc[b]) <= Cardinality(Block)
         /\ Cardinality(Block) \in Nat
         /\ \A a \in Anc[b] : Cardinality(Anc[a]) <= Cardinality(Anc[b])
<1>1. IsFiniteSet(Block) /\ Anc[b] \subseteq Block
  BY ChainStateAssumption, AncFacts
<1>2. IsFiniteSet(Anc[b]) /\ Cardinality(Anc[b]) <= Cardinality(Block)
  BY <1>1, FS_Subset
<1>3. Cardinality(Anc[b]) \in Nat /\ Cardinality(Block) \in Nat
  BY <1>1, <1>2, FS_CardinalityType
<1>4. ASSUME NEW a \in Anc[b]
      PROVE  Cardinality(Anc[a]) <= Cardinality(Anc[b])
  <2>1. Anc[a] \subseteq Anc[b]
    BY AncFacts
  <2>. QED  BY <1>2, <2>1, FS_Subset
<1>. QED  BY <1>2, <1>3, <1>4

LEMMA Highest ==
  ASSUME NEW T \in SUBSET Block, T # {}
  PROVE  \E a \in T : \A d \in T : Height(d) <= Height(a)
<1>. DEFINE card(a) == Cardinality(Anc[a])
            depth(a) == Cardinality(Block) - card(a)
            D == {depth(a) : a \in T}
<1>1. \A a \in T : card(a) \in Nat /\ depth(a) \in Nat /\ Cardinality(Block) \in Nat
  BY HeightFacts
<1>2. D \in SUBSET Nat /\ D # {}
  BY <1>1
<1>3. PICK x \in D : \A y \in D : x <= y
  BY <1>2, LeastNat
<1>4. PICK a \in T : x = depth(a)
  BY <1>3
<1>5. ASSUME NEW d \in T
      PROVE  Height(d) <= Height(a)
  <2>1. depth(a) <= depth(d)
    BY <1>3, <1>4
  <2>. QED  BY <1>1, <2>1 DEF Height
<1>. QED  BY <1>5

\* Two blocks of one branch are on one line.
LEMMA Comparable ==
  ASSUME NEW b \in Block, NEW a \in Anc[b], NEW d \in Anc[b]
  PROVE  a \in Anc[d] \/ d \in Anc[a]
<1>. DEFINE line(x) == \A y, z \in Anc[x] : y \in Anc[z] \/ z \in Anc[y]
            B == {x \in Block : ~line(x)}
            T == {Work[x] : x \in B}
<1>1. ASSUME B # {}
      PROVE  FALSE
  <2>1. T \in SUBSET Nat /\ T # {}
    BY <1>1, AncFacts
  <2>2. PICK w \in T : \A v \in T : w <= v
    BY <2>1, LeastNat
  <2>3. PICK x \in B : w = Work[x]
    BY <2>2
  <2>4. x # Genesis
    BY <2>3, ChainStateAssumption
  <2>5. Prev[x] \in Block /\ Work[Prev[x]] < Work[x] /\ Anc[x] = {x} \cup Anc[Prev[x]]
    BY <2>3, <2>4, PrevFacts, AncFacts
  <2>6. Prev[x] \notin B
    <3>1. SUFFICES ASSUME Prev[x] \in B
                   PROVE  FALSE
      OBVIOUS
    <3>2. Work[Prev[x]] \in T
      BY <3>1
    <3>3. Work[x] <= Work[Prev[x]] /\ Work[x] \in Nat /\ Work[Prev[x]] \in Nat
      BY <2>2, <2>3, <2>5, <3>2, AncFacts
    <3>. QED  BY <2>5, <3>3
  <2>7. line(Prev[x])
    BY <2>5, <2>6
  <2>8. line(x)
    BY <2>3, <2>5, <2>7
  <2>. QED  BY <2>3, <2>8
<1>2. line(b)
  BY <1>1
<1>. QED  BY <1>2

\* Of two blocks of one branch, the lower one is an ancestor of the other.
LEMMA Lower ==
  ASSUME NEW c \in Block, NEW a \in Anc[c], NEW f \in Anc[c], Height(a) > Height(f)
  PROVE  f \in Anc[a]
<1>1. a \in Block /\ f \in Block
  BY AncFacts
<1>2. SUFFICES ASSUME a \in Anc[f]
               PROVE  FALSE
  BY Comparable
<1>3. /\ Cardinality(Anc[a]) <= Cardinality(Anc[f])
      /\ Cardinality(Anc[a]) \in Nat /\ Cardinality(Anc[f]) \in Nat
  BY <1>1, <1>2, HeightFacts
<1>. QED  BY <1>3 DEF Height

\* The walk of FindMostWorkChain down from an unusable candidate stops at a failed block.
LEMMA FirstFailedFacts ==
  ASSUME NEW c \in Block, ~Usable(c)
  PROVE  /\ FirstFailed(c) \in Path(c) /\ Failed(FirstFailed(c))
         /\ \A a \in Above(c) : a \in Path(c) /\ FirstFailed(c) \in Anc[a]
<1>. DEFINE T == {a \in Path(c) : Failed(a)}
            best(a) == Failed(a) /\ \A d \in Path(c) : Failed(d) => Height(d) <= Height(a)
<1>1. T \in SUBSET Block /\ T # {}
  BY AncFacts DEF Usable, Path
<1>2. PICK a \in T : \A d \in T : Height(d) <= Height(a)
  BY <1>1, Highest
<1>3. \E x \in Path(c) : best(x)
  BY <1>2
<1>4. FirstFailed(c) = CHOOSE x \in Path(c) : best(x)
  BY DEF FirstFailed
<1>. HIDE DEF best
<1>5. FirstFailed(c) \in Path(c) /\ best(FirstFailed(c))
  BY <1>3, <1>4
<1>6. Failed(FirstFailed(c))
  BY <1>5 DEF best
<1>7. ASSUME NEW x \in Above(c)
      PROVE  x \in Path(c) /\ FirstFailed(c) \in Anc[x]
  <2>1. x \in Path(c) /\ Height(x) > Height(FirstFailed(c))
    BY DEF Above
  <2>2. x \in Anc[c] /\ FirstFailed(c) \in Anc[c]
    BY <1>5, <2>1 DEF Path
  <2>. QED  BY <2>1, <2>2, Lower
<1>. QED  BY <1>5, <1>6, <1>7

\* FindMostWorkChain marks children of failed blocks off the active chain, and none of
\* the branch it returns.
LEMMA MarkedFacts ==
  ASSUME cand \subseteq Block, tip \in Block
  PROVE  /\ \A a \in MarkedChildren : a \in Block \ Active /\ \E f \in Anc[a] : Failed(f) /\ f \in Block
         /\ MostWork # None => /\ MostWork \in cand /\ Usable(MostWork)
                               /\ MarkedChildren \cap Anc[MostWork] = {}
<1>1. ASSUME NEW a \in MarkedChildren
      PROVE  \E c \in cand : /\ a \in Path(c) /\ FirstFailed(c) \in Anc[a] /\ FirstFailed(c) \in Path(c)
                             /\ Failed(FirstFailed(c))
  <2>1. PICK c \in Rejected : a \in Above(c)
    BY DEF MarkedChildren
  <2>2. c \in cand /\ c \in Block /\ ~Usable(c)
    BY <2>1 DEF Rejected
  <2>. QED  BY <2>1, <2>2, FirstFailedFacts
<1>2. ASSUME NEW a \in MarkedChildren
      PROVE  a \in Block \ Active /\ \E f \in Anc[a] : Failed(f) /\ f \in Block
  <2>1. PICK c \in cand : /\ a \in Path(c) /\ FirstFailed(c) \in Anc[a] /\ FirstFailed(c) \in Path(c)
                          /\ Failed(FirstFailed(c))
    BY <1>1
  <2>2. a \in Block /\ FirstFailed(c) \in Block /\ a \notin Active
    BY <2>1, AncFacts DEF Path
  <2>. QED  BY <2>1, <2>2
<1>3. ASSUME MostWork # None
      PROVE  MostWork \in Best
  BY <1>3 DEF MostWork
<1>4. ASSUME MostWork # None
      PROVE  MostWork \in cand /\ Usable(MostWork)
  BY <1>3, <1>4 DEF Best
<1>5. ASSUME MostWork # None, NEW a \in MarkedChildren, a \in Anc[MostWork]
      PROVE  FALSE
  <2>1. PICK c \in cand : /\ a \in Path(c) /\ FirstFailed(c) \in Anc[a] /\ FirstFailed(c) \in Path(c)
                          /\ Failed(FirstFailed(c))
    BY <1>5, <1>1
  <2>2. MostWork \in Block /\ Usable(MostWork)
    BY <1>4, <1>5
  <2>3. FirstFailed(c) \in Anc[MostWork]
    BY <1>5, <2>1, <2>2, AncFacts
  <2>4. FirstFailed(c) \in Path(MostWork)
    BY <2>1, <2>3 DEF Path
  <2>. QED  BY <2>1, <2>2, <2>4 DEF Usable
<1>. QED  BY <1>2, <1>4, <1>5

-----------------------------------------------------------------------------
(* Steps in memory *)

\* Most steps only add to the block index, and note what they add in
\* setDirtyBlockIndex.
MemoryStep ==
  /\ idx' \in [Block -> Status \cup {None}]
  /\ \A b \in Block : idx[b] # None =>
       idx'[b] # None /\ (idx[b].have => idx'[b].have) /\ (idx[b].undo => idx'[b].undo)
  /\ \A b \in Block : idx[b] = None /\ idx'[b] # None => b # Genesis /\ idx[Prev[b]] # None
  /\ \A b \in Block \ dirty' : idx'[b] # None =>
       /\ b \notin dirty /\ idx[b] # None
       /\ (idx'[b].have => idx[b].have) /\ (idx'[b].undo => idx[b].undo)
  /\ UNCHANGED <<disk, coinsDisk>>

\* Such a step loses no data and keeps the index on disk behind.
LEMMA MemoryKeeps ==
  ASSUME IInv, MemoryStep
  PROVE  /\ KnownClosed' /\ DiskBehind' /\ CleanSaved' /\ DiskChainComplete'
         /\ Known \subseteq Known'
         /\ \A b \in Block : HasData(b) => HasData(b)'
         /\ \A b \in Block : Built(b) => Built(b)'
         /\ \A b \in Block : Saved(b) => Saved(b)'
<1>1. Known \subseteq Known'
  BY DEF Known, MemoryStep
<1>2. \A b \in Block : HasData(b) => HasData(b)'
  BY DEF HasData, MemoryStep
<1>3. ASSUME NEW b \in Block, Built(b)
      PROVE  Built(b)'
  <2>1. ASSUME NEW a \in Anc[b]
        PROVE  HasData(a)' /\ (a # Genesis => idx'[a].undo)
    BY <1>2, <1>3, <2>1, AncFacts DEF Built, HasData, MemoryStep
  <2>. QED  BY <2>1 DEF Built
<1>4. KnownClosed'
  <2>1. ASSUME NEW b \in Block, idx'[b] # None
        PROVE  Anc[b] \subseteq Known'
    <3>1. CASE idx[b] # None
      BY <1>1, <3>1 DEF IInv, KnownClosed, Known
    <3>2. CASE idx[b] = None
      <4>1. b # Genesis /\ idx[Prev[b]] # None
        BY <2>1, <3>2 DEF MemoryStep
      <4>2. Prev[b] \in Known /\ Anc[b] = {b} \cup Anc[Prev[b]]
        BY <4>1, AncFacts DEF Known
      <4>3. Anc[Prev[b]] \subseteq Known /\ b \in Known'
        BY <4>2, <2>1 DEF IInv, KnownClosed, Known
      <4>. QED  BY <4>2, <4>3, <1>1
    <3>. QED  BY <3>1, <3>2
  <2>. QED  BY <2>1 DEF KnownClosed, Known
<1>5. DiskBehind'
  BY DEF IInv, DiskBehind, MemoryStep
<1>6. CleanSaved'
  BY DEF IInv, CleanSaved, MemoryStep, Known
<1>7. DiskChainComplete' /\ \A b \in Block : Saved(b) => Saved(b)'
  BY DEF IInv, DiskChainComplete, Saved, MemoryStep
<1>. QED  BY <1>1, <1>2, <1>3, <1>4, <1>5, <1>6, <1>7

\* Steps that leave the index alone are among them.
LEMMA MemoryUnchanged ==
  ASSUME TypeOK, UNCHANGED <<idx, dirty, disk, coinsDisk>>
  PROVE  MemoryStep
BY DEF MemoryStep, TypeOK

\* A thread that holds cs_main, or finds it free, is alone: its own step decides
\* what every thread may rely on afterwards.
LEMMA ThreadStep ==
  ASSUME IInv, NEW t \in Thread, NEW p \in Place, cs \in {None, t},
         pc' = [pc EXCEPT ![t] = p], ThreadOk(t)'
  PROVE  ThreadsOk'
<1>. SUFFICES ASSUME NEW u \in Thread, u # t
              PROVE  ThreadOk(u)'
  BY DEF ThreadsOk
<1>1. pc[u] \notin Critical
  BY ChainStateAssumption DEF IInv, ThreadsOk, ThreadOk
<1>2. pc'[u] = pc[u]
  BY DEF IInv, TypeOK
<1>. QED  BY <1>1, <1>2 DEF ThreadOk, Critical

\* A thread that does not hold cs_main relies on nothing.
LEMMA ThreadOutside ==
  ASSUME NEW t \in Thread, pc'[t] \notin Critical
  PROVE  ThreadOk(t)'
BY DEF ThreadOk, Critical

\* The types of what a step changes besides the tree.
Bounds == [inv : 0 .. MaxInvalidate, rec : 0 .. MaxReconsider,
           crash : 0 .. MaxCrash, fail : 0 .. MaxWriteFail]
StepTypes == /\ cs' \in Thread \cup {None}
             /\ pc' \in [Thread -> Place]
             /\ loc' \in [Thread -> Locals]
             /\ count' \in Bounds

\* A built block is known.
\* A step in memory that leaves the links alone keeps the invariant if it keeps
\* the candidates, the tip and the threads in order.
LEMMA StepKeeps ==
  ASSUME IInv, MemoryStep, StepTypes, ThreadsOk',
         UNCHANGED <<kind, linked, seq, nSeq, unlinked>>,
         dirty' \subseteq Known',
         cand' \subseteq linked, \A c \in cand' : Work[c] >= Work[tip'],
         tip' \in Block, coins' \in Block, Built(tip)', Built(coins)'
  PROVE  IInv'
<1>1. /\ KnownClosed' /\ DiskBehind' /\ CleanSaved' /\ DiskChainComplete'
      /\ Known \subseteq Known'
      /\ \A b \in Block : HasData(b) => HasData(b)'
  BY MemoryKeeps
<1>2. tip' \in Known' /\ coins' \in Known'
  BY AncFacts DEF Built, HasData, Known
<1>3. /\ linked' \subseteq Known' /\ cand' \subseteq Known' /\ unlinked' \subseteq Known'
  BY <1>1 DEF IInv, TypeOK
<1>4. TypeOK'
  <2>1. /\ kind' \in Kinds /\ seq' \in [Block -> Nat] /\ nSeq' \in Nat
        /\ disk' \in [Block -> Status \cup {None}] /\ coinsDisk' \in Block
        /\ idx' \in [Block -> Status \cup {None}]
    BY DEF IInv, TypeOK, MemoryStep
  <2>2. cs' \in Thread \cup {None} /\ loc' \in [Thread -> Locals] /\ count' \in Bounds
    BY DEF StepTypes
  <2>3. pc' \in [Thread -> {"idle", "find", "step", "inv", "check", "periodic",
                        "dIndex", "dCoins", "cIndex", "cCoins", "iIndex",
                        "iCoins", "pCoins"}]
    BY DEF StepTypes, Place, Critical
  <2>. QED  BY <1>2, <1>3, <2>1, <2>2, <2>3 DEF TypeOK, Bounds
<1>5. LinkedHasData'
  <2>1. linked \subseteq Block /\ unlinked \subseteq Block
    BY DEF IInv, TypeOK, Known
  <2>. QED  BY <1>1, <2>1, AncFacts DEF IInv, LinkedHasData
<1>6. CandidatesAreLinked' /\ NoWorse'
  BY DEF CandidatesAreLinked, NoWorse
<1>. QED  BY <1>1, <1>4, <1>5, <1>6 DEF IInv

\* What a step that changes neither the tip nor the coins keeps.
LEMMA ChainKept ==
  ASSUME IInv, MemoryStep, UNCHANGED <<tip, coins>>
  PROVE  tip' \in Block /\ coins' \in Block /\ Built(tip)' /\ Built(coins)'
<1>1. tip \in Block /\ coins \in Block
  BY DEF IInv, TypeOK, Known
<1>2. Built(tip) /\ Built(coins)
  BY DEF IInv
<1>3. /\ \A a \in Anc[tip] : HasData(a)' /\ (a # Genesis => idx'[a].undo)
      /\ \A a \in Anc[coins] : HasData(a)' /\ (a # Genesis => idx'[a].undo)
  BY <1>1, <1>2, AncFacts DEF Built, HasData, MemoryStep
<1>. QED  BY <1>1, <1>3 DEF Built

\* A thread goes somewhere.
LEMMA GotoTypes ==
  ASSUME TypeOK, NEW t \in Thread, NEW p \in Place, Goto(t, p)
  PROVE  pc' = [pc EXCEPT ![t] = p] /\ pc' \in [Thread -> Place] /\ pc'[t] = p
BY DEF Goto, TypeOK, Place, Critical

\* Locals of one thread are replaced.
LEMMA LocalTypes ==
  ASSUME TypeOK, NEW t \in Thread, NEW l \in Locals, loc' = [loc EXCEPT ![t] = l]
  PROVE  loc' \in [Thread -> Locals] /\ loc'[t] = l
BY DEF TypeOK

\* The locals with which ActivateBestChain starts and ends.
LEMMA HeldTypes ==
  ASSUME NEW b \in Block \cup {None}
  PROVE  NoLocals \in Locals /\ [NoLocals EXCEPT !.held = b] \in Locals
BY DEF NoLocals, Locals

\* Activate and Return, from a state in which no other thread holds cs_main,
\* leave no thread holding it.
LEMMA ActivateKeeps ==
  ASSUME IInv, NEW t \in Thread, NEW b \in Block \cup {None}, cs \in {None, t},
         Activate(t, b) \/ Return(t)
  PROVE  pc' \in [Thread -> Place] /\ loc' \in [Thread -> Locals] /\ ThreadsOk'
<1>1. PICK p \in {"find", "idle"} : Goto(t, p)
  BY DEF Activate, Return
<1>2. p \in Place /\ p \notin Critical
  BY DEF Place, Critical
<1>3. pc' = [pc EXCEPT ![t] = p] /\ pc' \in [Thread -> Place] /\ pc'[t] = p
  BY <1>1, <1>2, GotoTypes DEF IInv
<1>4. PICK l \in Locals : loc' = [loc EXCEPT ![t] = l]
  BY HeldTypes DEF Activate, Return
<1>5. loc' \in [Thread -> Locals]
  BY <1>4, LocalTypes, Zenon DEF IInv
<1>6. ThreadOk(t)'
  BY <1>2, <1>3, ThreadOutside
<1>7. ThreadsOk'
  BY <1>2, <1>3, <1>6, ThreadStep
<1>. QED  BY <1>3, <1>5, <1>7

-----------------------------------------------------------------------------
(* AcceptBlock *)

\* A block whose parent is known gets a new entry, or data for its old one.
LEMMA EntryStep ==
  ASSUME TypeOK, NEW b \in Block \ {Genesis}, idx[Prev[b]] # None, NEW e \in Status,
         Entry(b).have => e.have, Entry(b).undo => e.undo,
         idx' = [idx EXCEPT ![b] = e], dirty' = dirty \cup {b},
         UNCHANGED <<disk, coinsDisk>>
  PROVE  MemoryStep /\ dirty' \subseteq Known'
<1>1. e # None
  BY ChainStateAssumption
<1>2. idx'[b] = e /\ \A a \in Block : a # b => idx'[a] = idx[a]
  BY DEF TypeOK
<1>3. idx' \in [Block -> Status \cup {None}]
  BY DEF TypeOK
<1>4. idx[b] # None => Entry(b) = idx[b]
  BY DEF Entry
<1>5. MemoryStep
  BY <1>1, <1>2, <1>3, <1>4 DEF MemoryStep
<1>. QED  BY <1>1, <1>2, <1>5 DEF TypeOK, Known

\* The entry of a block, new or old, and the fields AcceptBlock sets in it.
LEMMA EntryTypes ==
  ASSUME TypeOK, NEW b \in Block
  PROVE  /\ Entry(b) \in Status
         /\ [Entry(b) EXCEPT !.have = TRUE] \in Status
         /\ [Entry(b) EXCEPT !.fv = TRUE] \in Status
BY DEF Entry, Header, Status, TypeOK

\* The blocks that become linked have the data of their whole branch.
LEMMA LinkingHasData ==
  ASSUME IInv, MemoryStep, NEW b \in Block \ {Genesis}, HasData(b)', Prev[b] \in linked
  PROVE  /\ Linking(b) \subseteq Block
         /\ \A d \in Linking(b) : \A a \in Anc[d] : HasData(a)'
<1>1. \A a \in Block : HasData(a) => HasData(a)'
  BY MemoryKeeps
<1>2. \A a \in Anc[b] : HasData(a)'
  BY <1>1, AncFacts DEF IInv, LinkedHasData
<1>3. \A a \in unlinked : HasData(a)'
  BY <1>1 DEF IInv, LinkedHasData, TypeOK, Known
<1>. QED  BY <1>2, <1>3 DEF Linking

\* ReceivedBlockTransactions links only blocks whose branch has data, and offers
\* only those that do not have less work than the tip.
LEMMA AcceptBlockKeeps ==
  ASSUME IInv, NEW t \in Thread, NEW b \in Block, AcceptBlock(t, b)
  PROVE  IInv'
<1>. DEFINE e == [Entry(b) EXCEPT !.have = TRUE]
<1>1. b # Genesis /\ idx[Prev[b]] # None /\ cs = None
  BY DEF AcceptBlock, Acceptable, Idle
<1>2. e \in Status /\ e.have /\ (Entry(b).undo => e.undo)
  BY EntryTypes, Zenon DEF IInv, Status
<1>3. MemoryStep /\ dirty' \subseteq Known'
  <2>1. /\ idx' = [idx EXCEPT ![b] = e] /\ dirty' = dirty \cup {b}
        /\ UNCHANGED <<disk, coinsDisk>>
    BY DEF AcceptBlock
  <2>. HIDE DEF e
  <2>. QED  BY <1>1, <1>2, <2>1, EntryStep, Zenon DEF IInv
<1>4. HasData(b)'
  <2>1. idx'[b] = e
    BY DEF AcceptBlock, IInv, TypeOK
  <2>. HIDE DEF e
  <2>. QED  BY <1>2, <2>1, ChainStateAssumption DEF HasData
<1>5. tip' \in Block /\ coins' \in Block /\ Built(tip)' /\ Built(coins)'
  BY <1>3, ChainKept DEF AcceptBlock
<1>6. pc' \in [Thread -> Place] /\ loc' \in [Thread -> Locals] /\ ThreadsOk'
  BY <1>1, ActivateKeeps DEF AcceptBlock
<1>7. /\ KnownClosed' /\ DiskBehind' /\ CleanSaved' /\ DiskChainComplete'
      /\ Known \subseteq Known'
      /\ \A d \in Block : HasData(d) => HasData(d)'
  BY <1>3, MemoryKeeps
<1>8. /\ LinkedHasData' /\ CandidatesAreLinked' /\ NoWorse'
      /\ seq' \in [Block -> Nat] /\ nSeq' \in Nat
      /\ linked' \subseteq Block /\ unlinked' \subseteq Block
  <2>1. /\ linked \subseteq Block /\ unlinked \subseteq Block /\ cand \subseteq linked
        /\ \A d \in linked : \A a \in Anc[d] : HasData(a)'
        /\ \A d \in unlinked : HasData(d)'
        /\ \A c \in cand : Work[c] >= Work[tip]
    BY <1>7, AncFacts DEF IInv, TypeOK, Known, LinkedHasData, CandidatesAreLinked, NoWorse
  <2>2. CASE Prev[b] \notin linked
    <3>1. /\ unlinked' = unlinked \cup {b}
          /\ UNCHANGED <<seq, nSeq, cand, linked, tip>>
      BY <2>2 DEF AcceptBlock
    <3>. QED
      BY <1>4, <2>1, <3>1 DEF LinkedHasData, CandidatesAreLinked, NoWorse, IInv, TypeOK
  <2>3. CASE Prev[b] \in linked
    <3>1. /\ Linking(b) \subseteq Block
          /\ \A d \in Linking(b) : \A a \in Anc[d] : HasData(a)'
      BY <1>1, <1>3, <1>4, <2>3, LinkingHasData
    <3>2. Cardinality(Linking(b)) \in Nat
      BY <3>1, ChainStateAssumption, FS_Subset, FS_CardinalityType
    <3>3. PICK f \in Numberings(b) :
            /\ seq' = [d \in Block |-> IF d \in Linking(b) THEN f[d] ELSE seq[d]]
            /\ cand' = cand \cup {d \in Linking(b) : ~LessBy(seq', d, tip)}
      BY <2>3 DEF AcceptBlock
    <3>4. /\ linked' = linked \cup Linking(b) /\ unlinked' = unlinked \ Linking(b)
          /\ nSeq' = nSeq + Cardinality(Linking(b)) /\ tip' = tip
      BY <2>3 DEF AcceptBlock
    <3>5. f \in [Linking(b) -> nSeq .. nSeq + Cardinality(Linking(b)) - 1] /\ nSeq \in Nat
      BY DEF Numberings, IInv, TypeOK
    <3>6. seq' \in [Block -> Nat] /\ nSeq' \in Nat
      BY <3>2, <3>3, <3>4, <3>5 DEF IInv, TypeOK
    <3>7. \A d \in Linking(b) : ~LessBy(seq', d, tip) => Work[d] >= Work[tip]
      <4>1. tip \in Block
        BY DEF IInv, TypeOK, Known
      <4>. QED  BY <3>1, <4>1, WorkFirst
    <3>8. LinkedHasData'
      BY <2>1, <3>1, <3>4 DEF LinkedHasData
    <3>9. CandidatesAreLinked' /\ NoWorse'
      BY <2>1, <3>3, <3>4, <3>7 DEF CandidatesAreLinked, NoWorse
    <3>. QED  BY <2>1, <3>1, <3>4, <3>6, <3>8, <3>9
  <2>. QED  BY <2>2, <2>3
<1>9. TypeOK'
  <2>1. linked' \subseteq Known' /\ unlinked' \subseteq Known' /\ cand' \subseteq Known'
    BY <1>8, AncFacts DEF LinkedHasData, HasData, Known, CandidatesAreLinked
  <2>2. tip' \in Known' /\ coins' \in Known'
    BY <1>7 DEF AcceptBlock, IInv, TypeOK
  <2>3. /\ kind' \in Kinds /\ disk' \in [Block -> Status \cup {None}] /\ coinsDisk' \in Block
        /\ cs' \in Thread \cup {None} /\ count' \in Bounds
    BY DEF AcceptBlock, IInv, TypeOK, Bounds
  <2>4. idx' \in [Block -> Status \cup {None}]
    BY <1>3 DEF MemoryStep
  <2>. QED  BY <1>3, <1>6, <1>8, <2>1, <2>2, <2>3, <2>4 DEF TypeOK, Place, Critical, Bounds
<1>. QED  BY <1>5, <1>6, <1>7, <1>8, <1>9 DEF IInv

\* A block that is there already changes nothing but the thread.
LEMMA AcceptKnownKeeps ==
  ASSUME IInv, NEW t \in Thread, NEW b \in Block, AcceptKnown(t, b)
  PROVE  IInv'
<1>1. cs = None
  BY DEF AcceptKnown, Idle
<1>2. MemoryStep
  BY MemoryUnchanged DEF AcceptKnown, tree, IInv
<1>3. pc' \in [Thread -> Place] /\ loc' \in [Thread -> Locals] /\ ThreadsOk'
  BY <1>1, ActivateKeeps DEF AcceptKnown
<1>4. tip' \in Block /\ coins' \in Block /\ Built(tip)' /\ Built(coins)'
  BY <1>2, ChainKept DEF AcceptKnown
<1>5. StepTypes
  BY <1>3 DEF StepTypes, AcceptKnown, IInv, TypeOK, Bounds
<1>6. /\ UNCHANGED <<kind, linked, seq, nSeq, unlinked>> /\ dirty' \subseteq Known'
      /\ cand' \subseteq linked /\ \A c \in cand' : Work[c] >= Work[tip']
  BY DEF AcceptKnown, tree, IInv, TypeOK, Known, CandidatesAreLinked, NoWorse
<1>. QED  BY <1>2, <1>3, <1>4, <1>5, <1>6, StepKeeps

\* Steps of an idle thread that only write an entry of the index.
LEMMA IdleKeeps ==
  ASSUME IInv, MemoryStep, dirty' \subseteq Known', count' \in Bounds,
         UNCHANGED <<kind, linked, seq, nSeq, cand, unlinked, tip, coins, cs, pc, loc>>
  PROVE  IInv'
<1>1. tip' \in Block /\ coins' \in Block /\ Built(tip)' /\ Built(coins)'
  BY ChainKept
<1>2. StepTypes
  BY DEF StepTypes, IInv, TypeOK, Place, Critical
<1>3. ThreadsOk'
  <2>1. \A b \in Block : Saved(b) => Saved(b)'
    BY MemoryKeeps
  <2>2. ASSUME NEW t \in Thread
        PROVE  ThreadOk(t)'
    BY <2>1 DEF IInv, ThreadsOk, ThreadOk, TypeOK, Known, Saved, MemoryStep
  <2>. QED  BY <2>2 DEF ThreadsOk
<1>4. cand' \subseteq linked /\ \A c \in cand' : Work[c] >= Work[tip']
  BY DEF IInv, CandidatesAreLinked, NoWorse
<1>. QED  BY <1>1, <1>2, <1>3, <1>4, StepKeeps

\* A header marked failed has no data to save.
LEMMA AcceptBadContextKeeps ==
  ASSUME IInv, NEW t \in Thread, NEW b \in Block, AcceptBadContext(t, b)
  PROVE  IInv'
<1>. DEFINE e == [Entry(b) EXCEPT !.fv = TRUE]
<1>1. b # Genesis /\ idx[Prev[b]] # None
  BY DEF AcceptBadContext, Acceptable
<1>2. e \in Status /\ (Entry(b).have => e.have) /\ (Entry(b).undo => e.undo)
  BY EntryTypes, Zenon DEF IInv, Status
<1>3. MemoryStep /\ dirty' \subseteq Known'
  <2>1. /\ idx' = [idx EXCEPT ![b] = e] /\ dirty' = dirty \cup {b}
        /\ UNCHANGED <<disk, coinsDisk>>
    BY DEF AcceptBadContext
  <2>. HIDE DEF e
  <2>. QED  BY <1>1, <1>2, <2>1, EntryStep DEF IInv
<1>4. /\ UNCHANGED <<kind, linked, seq, nSeq, cand, unlinked, tip, coins, cs, pc, loc>>
      /\ count' \in Bounds
  BY DEF AcceptBadContext, threads, IInv, TypeOK, Bounds
<1>. QED  BY <1>3, <1>4, IdleKeeps

\* A header whose data could not be stored stays without data.
LEMMA AcceptWriteFailsKeeps ==
  ASSUME IInv, NEW t \in Thread, NEW b \in Block, AcceptWriteFails(t, b)
  PROVE  IInv'
<1>1. b # Genesis /\ idx[Prev[b]] # None
  BY DEF AcceptWriteFails, Acceptable
<1>2. MemoryStep /\ dirty' \subseteq Known'
  <2>1. CASE idx[b] = None
    <3>1. /\ idx' = [idx EXCEPT ![b] = Entry(b)] /\ dirty' = dirty \cup {b}
          /\ UNCHANGED <<disk, coinsDisk>>
      BY <2>1 DEF AcceptWriteFails
    <3>. QED  BY <1>1, <3>1, EntryStep, EntryTypes DEF IInv
  <2>2. CASE idx[b] # None
    <3>1. UNCHANGED <<idx, dirty, disk, coinsDisk>>
      BY <2>2 DEF AcceptWriteFails, Entry, IInv, TypeOK
    <3>. QED  BY <3>1, MemoryUnchanged DEF IInv, TypeOK, Known
  <2>. QED  BY <2>1, <2>2
<1>3. count' \in Bounds
  <2>1. /\ count \in Bounds /\ count.fail < MaxWriteFail /\ MaxWriteFail \in Nat
        /\ count' = [count EXCEPT !.fail = @ + 1]
    BY BoundFacts DEF AcceptWriteFails, IInv, TypeOK, Bounds
  <2>. QED  BY <2>1 DEF Bounds
<1>4. UNCHANGED <<kind, linked, seq, nSeq, cand, unlinked, tip, coins, cs, pc, loc>>
  BY DEF AcceptWriteFails, threads
<1>. QED  BY <1>2, <1>3, <1>4, IdleKeeps

-----------------------------------------------------------------------------
(* ReconsiderBlock, FindMostWorkChain, InvalidBlockFound: the failure flags *)

\* Failure flags of known blocks are not part of what has to be saved in time.
LEMMA FlagStep ==
  ASSUME TypeOK, NEW S \in SUBSET Known,
         \A b \in S : /\ idx'[b] \in Status
                       /\ idx'[b].have = idx[b].have /\ idx'[b].undo = idx[b].undo,
         \A b \in Block \ S : idx'[b] = idx[b],
         idx' \in [Block -> Status \cup {None}],
         dirty \subseteq dirty', dirty' \subseteq dirty \cup S,
         UNCHANGED <<disk, coinsDisk>>
  PROVE  MemoryStep /\ dirty' \subseteq Known'
<1>1. \A b \in S : idx[b] # None /\ idx'[b] # None
  BY ChainStateAssumption DEF Known
<1>2. MemoryStep
  BY <1>1 DEF MemoryStep
<1>. QED  BY <1>1, <1>2 DEF TypeOK, Known

\* A known block has a status.
LEMMA KnownStatus ==
  ASSUME TypeOK, NEW b \in Known
  PROVE  b \in Block /\ idx[b] \in Status
BY DEF TypeOK, Known

\* ReconsiderBlock offers linked blocks that beat the tip, and loses no data.
LEMMA ReconsiderKeeps ==
  ASSUME IInv, NEW p \in Known, NEW t \in Thread, NEW b \in Block \cup {None},
         ReconsiderBlock(p), Activate(t, b), cs = None, cs' = cs, count' \in Bounds
  PROVE  IInv'
<1>. DEFINE cleared == FailedBelow(p) \cup FailedAbove(p)
<1>. DEFINE flagless(a) == [idx[a] EXCEPT !.fv = FALSE, !.fc = FALSE]
<1>1. cleared \in SUBSET Known
  BY DEF FailedBelow, FailedAbove, IInv, KnownClosed
<1>2. \A a \in cleared : /\ flagless(a) \in Status
                         /\ flagless(a).have = idx[a].have /\ flagless(a).undo = idx[a].undo
  <2>1. \A a \in cleared : idx[a] \in Status
    BY <1>1, KnownStatus DEF IInv
  <2>. QED  BY <2>1 DEF Status
<1>3. /\ idx' = [a \in Block |-> IF a \in cleared THEN flagless(a) ELSE idx[a]]
      /\ dirty' = dirty \cup cleared
      /\ cand' = cand \cup ReconsideredCandidates(p)
      /\ UNCHANGED <<kind, linked, seq, nSeq, unlinked, tip, coins, disk, coinsDisk>>
  BY Zenon DEF ReconsiderBlock
<1>. HIDE DEF cleared, flagless
<1>4. MemoryStep /\ dirty' \subseteq Known'
  <2>1. idx' \in [Block -> Status \cup {None}]
    BY <1>2, <1>3 DEF IInv, TypeOK
  <2>2. \A a \in cleared : idx'[a] = flagless(a)
    BY <1>1, <1>3 DEF Known
  <2>3. \A a \in Block \ cleared : idx'[a] = idx[a]
    BY <1>3
  <2>4. \A a \in cleared : /\ idx'[a] \in Status
                           /\ idx'[a].have = idx[a].have /\ idx'[a].undo = idx[a].undo
    BY <1>2, <2>2
  <2>5. /\ TypeOK /\ dirty \subseteq dirty' /\ dirty' \subseteq dirty \cup cleared
        /\ UNCHANGED <<disk, coinsDisk>>
    BY <1>3 DEF IInv
  <2>. QED  BY <1>1, <2>1, <2>3, <2>4, <2>5, FlagStep
<1>5. pc' \in [Thread -> Place] /\ loc' \in [Thread -> Locals] /\ ThreadsOk'
  BY ActivateKeeps
<1>6. tip' \in Block /\ coins' \in Block /\ Built(tip)' /\ Built(coins)'
  BY <1>3, <1>4, ChainKept
<1>7. StepTypes
  BY <1>5 DEF StepTypes, IInv, TypeOK
<1>8. cand' \subseteq linked /\ \A c \in cand' : Work[c] >= Work[tip']
  <2>1. \A d \in ReconsideredCandidates(p) : d \in linked /\ Less(tip, d) /\ d \in Block
    BY DEF ReconsideredCandidates, FailedBelow, Known
  <2>2. \A d \in ReconsideredCandidates(p) : Work[d] >= Work[tip]
    <3>1. tip \in Block
      BY DEF IInv, TypeOK, Known
    <3>. QED  BY <2>1, <3>1, WorkFirst DEF Less
  <2>. QED  BY <1>3, <2>1, <2>2 DEF IInv, CandidatesAreLinked, NoWorse
<1>. QED  BY <1>3, <1>4, <1>5, <1>6, <1>7, <1>8, StepKeeps

\* The reconsiderblock command.
LEMMA ReconsiderCommandKeeps ==
  ASSUME IInv, NEW t \in Thread, NEW p \in Block, ReconsiderCommand(t, p)
  PROVE  IInv'
<1>1. p \in Known /\ cs = None /\ cs' = cs /\ ReconsiderBlock(p) /\ Activate(t, None)
  BY DEF ReconsiderCommand, Idle
<1>2. count' \in Bounds
  <2>1. /\ count \in Bounds /\ count.rec < MaxReconsider /\ MaxReconsider \in Nat
        /\ count' = [count EXCEPT !.rec = @ + 1]
    BY BoundFacts DEF ReconsiderCommand, IInv, TypeOK, Bounds
  <2>. QED  BY <2>1 DEF Bounds
<1>. QED  BY <1>1, <1>2, ReconsiderKeeps

\* The child of a failed block that matches a checkpoint.
LEMMA AcceptOnCheckpointKeeps ==
  ASSUME IInv, NEW t \in Thread, NEW b \in Block, AcceptOnCheckpoint(t, b)
  PROVE  IInv'
<1>1. Prev[b] \in Known /\ cs = None /\ cs' = cs /\ ReconsiderBlock(Prev[b]) /\ Activate(t, b)
  BY AncFacts DEF AcceptOnCheckpoint, Idle, Known
<1>2. count' \in Bounds
  BY DEF AcceptOnCheckpoint, IInv, TypeOK, Bounds
<1>. QED  BY <1>1, <1>2, ReconsiderKeeps

\* FindMostWorkChain marks only known blocks, and returns a candidate.
LEMMA FindFacts ==
  ASSUME IInv
  PROVE  MarkedChildren \in SUBSET Known /\ MostWork \in cand \cup {None}
<1>1. \A c \in cand : c \in Known
  BY DEF IInv, TypeOK
<1>2. \A c \in Rejected : c \in cand
  BY DEF Rejected
<1>3. \A c \in cand : Above(c) \subseteq Known
  BY <1>1 DEF Above, Path, IInv, KnownClosed
<1>4. MarkedChildren \in SUBSET Known
  BY <1>2, <1>3 DEF MarkedChildren
<1>5. MostWork \in cand \cup {None}
  BY DEF MostWork, Best
<1>. QED  BY <1>4, <1>5

\* FindMostWorkChain leaves the thread at home, or holding cs_main with a target
\* that is linked and not yet in the chain.
LEMMA FindKeeps ==
  ASSUME IInv, NEW t \in Thread, Find(t)
  PROVE  IInv'
<1>. DEFINE marked(a) == [idx[a] EXCEPT !.fc = TRUE]
<1>1. MarkedChildren \in SUBSET Known /\ MostWork \in cand \cup {None}
  BY FindFacts
<1>2. \A a \in MarkedChildren : /\ marked(a) \in Status
                                /\ marked(a).have = idx[a].have /\ marked(a).undo = idx[a].undo
  <2>1. \A a \in MarkedChildren : idx[a] \in Status
    BY <1>1, KnownStatus DEF IInv
  <2>. QED  BY <2>1 DEF Status
<1>3. /\ idx' = [a \in Block |-> IF a \in MarkedChildren THEN marked(a) ELSE idx[a]]
      /\ cs = None /\ cand' \subseteq cand
      /\ UNCHANGED <<kind, linked, seq, nSeq, unlinked, dirty, tip, coins, disk, coinsDisk, count>>
  BY DEF Find
<1>. HIDE DEF marked
<1>4. MemoryStep /\ dirty' \subseteq Known'
  <2>1. idx' \in [Block -> Status \cup {None}]
    BY <1>2, <1>3 DEF IInv, TypeOK
  <2>2. \A a \in MarkedChildren : idx'[a] = marked(a)
    BY <1>1, <1>3 DEF Known
  <2>3. \A a \in Block \ MarkedChildren : idx'[a] = idx[a]
    BY <1>3
  <2>4. \A a \in MarkedChildren : /\ idx'[a] \in Status
                                  /\ idx'[a].have = idx[a].have /\ idx'[a].undo = idx[a].undo
    BY <1>2, <2>2
  <2>5. /\ TypeOK /\ dirty \subseteq dirty' /\ dirty' \subseteq dirty \cup MarkedChildren
        /\ UNCHANGED <<disk, coinsDisk>>
    BY <1>3 DEF IInv
  <2>. QED  BY <1>1, <2>1, <2>3, <2>4, <2>5, FlagStep
<1>5. cs' \in Thread \cup {None} /\ pc' \in [Thread -> Place] /\ loc' \in [Thread -> Locals] /\ ThreadsOk'
  <2>1. CASE Return(t) /\ UNCHANGED cs
    BY <1>3, <2>1, ActivateKeeps
  <2>2. CASE /\ MostWork \notin {None, tip} /\ Goto(t, "step") /\ cs' = t
             /\ loc' = [loc EXCEPT ![t].most = MostWork, ![t].old = tip]
    <3>1. /\ pc' = [pc EXCEPT ![t] = "step"] /\ pc' \in [Thread -> Place] /\ pc'[t] = "step"
          /\ "step" \in Place
      BY <2>2, GotoTypes DEF IInv, Place, Critical
    <3>2. MostWork \in Block /\ MostWork \in linked /\ Work[MostWork] >= Work[tip] /\ tip \in Block
      BY <1>1, <2>2 DEF IInv, TypeOK, Known, CandidatesAreLinked, NoWorse
    <3>3. loc' \in [Thread -> Locals] /\ loc'[t].most = MostWork
      <4>. DEFINE l == [loc[t] EXCEPT !.most = MostWork, !.old = tip]
      <4>1. l \in Locals /\ l.most = MostWork
        <5>1. loc[t] \in Locals
          BY DEF IInv, TypeOK
        <5>. QED  BY <3>2, <5>1 DEF Locals
      <4>2. loc' = [loc EXCEPT ![t] = l]
        BY <2>2
      <4>. HIDE DEF l
      <4>. QED  BY <4>1, <4>2, LocalTypes DEF IInv
    <3>4. MostWork \notin Anc[tip]
      BY <2>2, <3>2, AncFacts
    <3>5. ThreadOk(t)'
      BY <1>3, <2>2, <3>1, <3>2, <3>3, <3>4 DEF ThreadOk
    <3>. QED  BY <1>3, <2>2, <3>1, <3>3, <3>5, ThreadStep, Zenon
  <2>. QED  BY <2>1, <2>2, <1>3 DEF Find
<1>6. tip' \in Block /\ coins' \in Block /\ Built(tip)' /\ Built(coins)'
  BY <1>3, <1>4, ChainKept
<1>7. StepTypes
  BY <1>3, <1>5 DEF StepTypes, IInv, TypeOK, Bounds
<1>8. cand' \subseteq linked /\ \A c \in cand' : Work[c] >= Work[tip']
  BY <1>3 DEF IInv, CandidatesAreLinked, NoWorse
<1>. QED  BY <1>3, <1>4, <1>5, <1>6, <1>7, <1>8, StepKeeps

-----------------------------------------------------------------------------
(* One step of ActivateBestChain *)

\* One entry of the index changes and keeps its data; new undo data is noted.
LEMMA EntrySet ==
  ASSUME TypeOK, NEW n \in Known, NEW e \in Status,
         e.have = idx[n].have, idx[n].undo => e.undo,
         idx' = [idx EXCEPT ![n] = e],
         dirty \subseteq dirty', dirty' \subseteq dirty \cup {n},
         e.undo /\ ~idx[n].undo => n \in dirty',
         UNCHANGED <<disk, coinsDisk>>
  PROVE  MemoryStep /\ dirty' \subseteq Known'
<1>1. n \in Block /\ idx[n] # None /\ e # None
  BY ChainStateAssumption DEF Known
<1>2. idx'[n] = e /\ \A a \in Block : a # n => idx'[a] = idx[a]
  BY <1>1 DEF TypeOK
<1>3. idx' \in [Block -> Status \cup {None}]
  BY DEF TypeOK
<1>4. MemoryStep
  BY <1>1, <1>2, <1>3 DEF MemoryStep
<1>. QED  BY <1>1, <1>2, <1>4 DEF TypeOK, Known

\* The fields a step may set in an entry.
LEMMA FieldTypes ==
  ASSUME NEW s \in Status
  PROVE  /\ [s EXCEPT !.undo = TRUE] \in Status
         /\ [s EXCEPT !.undo = TRUE].have = s.have /\ [s EXCEPT !.undo = TRUE].undo
         /\ [s EXCEPT !.fv = TRUE] \in Status
         /\ [s EXCEPT !.fv = TRUE].have = s.have /\ [s EXCEPT !.fv = TRUE].undo = s.undo
         /\ [s EXCEPT !.fc = TRUE] \in Status
         /\ [s EXCEPT !.fc = TRUE].have = s.have /\ [s EXCEPT !.fc = TRUE].undo = s.undo
BY Zenon DEF Status

\* What a thread knows when a step begins.
LEMMA StepFacts ==
  ASSUME IInv, NEW t \in Thread, pc[t] = "step"
  PROVE  /\ cs = t /\ loc[t].most \in linked /\ loc[t].most \in Block
         /\ loc[t].most \notin Anc[tip] /\ tip \in Block
BY DEF IInv, TypeOK, Known, ThreadsOk, ThreadOk, Critical

\* The end of a step that only moves the thread that holds cs_main.
LEMMA HolderTypes ==
  ASSUME IInv, UNCHANGED <<loc, count>>, cs' = cs \/ cs' = None,
         pc' \in [Thread -> Place]
  PROVE  StepTypes
BY DEF IInv, TypeOK, StepTypes, Bounds

\* The parent of a built block is built.
LEMMA PrevBuilt ==
  ASSUME IInv, MemoryStep, tip # Genesis
  PROVE  Prev[tip] \in Block /\ \A a \in Anc[Prev[tip]] : HasData(a)' /\ (a # Genesis => idx'[a].undo)
<1>1. tip \in Block
  BY DEF IInv, TypeOK, Known
<1>2. Prev[tip] \in Block /\ Anc[Prev[tip]] \subseteq Anc[tip]
  BY <1>1, AncFacts
<1>3. \A a \in Anc[tip] : a \in Block /\ HasData(a) /\ (a # Genesis => idx[a].undo)
  BY <1>1, AncFacts DEF IInv, Built
<1>. QED  BY <1>2, <1>3 DEF HasData, MemoryStep

\* DisconnectBlock: the coins move to the parent, which is built.
LEMMA StepDisconnectKeeps ==
  ASSUME IInv, NEW t \in Thread, StepDisconnect(t)
  PROVE  IInv'
<1>1. /\ pc[t] = "step" /\ tip \notin Anc[loc[t].most] /\ coins' = Prev[tip] /\ Goto(t, "dIndex")
      /\ UNCHANGED <<kind, idx, linked, seq, nSeq, unlinked, cand, dirty, tip, disk, coinsDisk, cs, loc, count>>
  BY DEF StepDisconnect, tree
<1>2. /\ cs = t /\ loc[t].most \in linked /\ loc[t].most \in Block
      /\ loc[t].most \notin Anc[tip] /\ tip \in Block
  BY <1>1, StepFacts
<1>3. tip # Genesis
  BY <1>1, <1>2, AncFacts
<1>4. MemoryStep
  BY <1>1, MemoryUnchanged DEF IInv
<1>5. pc' = [pc EXCEPT ![t] = "dIndex"] /\ pc' \in [Thread -> Place] /\ pc'[t] = "dIndex" /\ "dIndex" \in Place
  BY <1>1, GotoTypes, Zenon DEF IInv, Place, Critical
<1>6. ThreadsOk'
  <2>1. ThreadOk(t)'
    BY <1>1, <1>2, <1>3, <1>5, Zenon DEF ThreadOk
  <2>. QED  BY <1>2, <1>5, <2>1, ThreadStep
<1>7. StepTypes
  BY <1>1, <1>5, HolderTypes, Zenon
<1>8. coins' \in Block /\ Built(coins)' /\ Built(tip)' /\ tip' \in Block
  <2>1. Prev[tip] \in Block /\ \A a \in Anc[Prev[tip]] : HasData(a)' /\ (a # Genesis => idx'[a].undo)
    BY <1>3, <1>4, PrevBuilt
  <2>2. Built(tip)'
    BY <1>1 DEF IInv, Built, HasData
  <2>. QED  BY <1>1, <1>2, <2>1, <2>2 DEF Built
<1>9. dirty' \subseteq Known' /\ cand' \subseteq linked /\ \A c \in cand' : Work[c] >= Work[tip']
  BY <1>1 DEF IInv, TypeOK, Known, CandidatesAreLinked, NoWorse
<1>. QED  BY <1>1, <1>4, <1>6, <1>7, <1>8, <1>9, StepKeeps

\* A tip that cannot be read back ends the call.
LEMMA StepFailsKeeps ==
  ASSUME IInv, NEW t \in Thread, StepFails(t)
  PROVE  IInv'
<1>1. /\ pc[t] = "step" /\ Return(t) /\ cs' = None
      /\ UNCHANGED <<kind, idx, linked, seq, nSeq, unlinked, cand, dirty, tip, coins, disk, coinsDisk, count>>
  BY Zenon DEF StepFails, tree
<1>2. cs = t
  BY <1>1, StepFacts
<1>3. MemoryStep
  BY <1>1, MemoryUnchanged DEF IInv
<1>4. pc' \in [Thread -> Place] /\ loc' \in [Thread -> Locals] /\ ThreadsOk'
  <2>1. None \in Block \cup {None}
    OBVIOUS
  <2>. QED  BY <1>1, <1>2, <2>1, ActivateKeeps
<1>5. tip' \in Block /\ coins' \in Block /\ Built(tip)' /\ Built(coins)'
  BY <1>1, <1>3, ChainKept
<1>6. StepTypes
  BY <1>1, <1>4 DEF StepTypes, IInv, TypeOK, Bounds
<1>7. dirty' \subseteq Known' /\ cand' \subseteq linked /\ \A c \in cand' : Work[c] >= Work[tip']
  BY <1>1 DEF IInv, TypeOK, Known, CandidatesAreLinked, NoWorse
<1>. QED  BY <1>1, <1>3, <1>4, <1>5, <1>6, <1>7, StepKeeps

\* The block to connect lies on the way, right above the tip, and has its data.
LEMMA NextBlockFacts ==
  ASSUME IInv, NEW t \in Thread, Connecting(t)
  PROVE  /\ NextBlock(t) \in Known /\ NextBlock(t) \in Block /\ NextBlock(t) # Genesis
         /\ NextBlock(t) \in Anc[loc[t].most] /\ Prev[NextBlock(t)] = tip
         /\ HasData(NextBlock(t))
         /\ Anc[NextBlock(t)] = {NextBlock(t)} \cup Anc[tip]
         /\ cs = t /\ loc[t].most \in linked /\ loc[t].most \in Block /\ tip \in Block
<1>. DEFINE m == loc[t].most
<1>. DEFINE n == NextBlock(t)
<1>1. /\ cs = t /\ m \in linked /\ m \in Block /\ m \notin Anc[tip] /\ tip \in Block
      /\ tip \in Anc[m]
  BY StepFacts DEF Connecting
<1>2. tip # m
  BY <1>1, AncFacts, Zenon
<1>3. \E k \in Anc[m] \ {Genesis} : Prev[k] = tip
  BY <1>1, <1>2, ChainStateAssumption
<1>4. n \in Anc[m] \ {Genesis} /\ Prev[n] = tip
  BY <1>3 DEF NextBlock
<1>. HIDE DEF m, n
<1>5. n \in Block /\ Anc[n] = {n} \cup Anc[tip]
  BY <1>1, <1>4, AncFacts
<1>6. HasData(n) /\ n \in Known
  BY <1>1, <1>4, <1>5 DEF IInv, LinkedHasData, HasData, Known
<1>. QED  BY <1>1, <1>4, <1>5, <1>6 DEF m, n

\* ConnectBlock: the coins move to the next block, whose undo data is noted in
\* setDirtyBlockIndex.
LEMMA StepConnectKeeps ==
  ASSUME IInv, NEW t \in Thread, StepConnect(t)
  PROVE  IInv'
<1>. DEFINE n == NextBlock(t)
<1>. DEFINE e == [idx[n] EXCEPT !.undo = TRUE]
<1>1. /\ Connecting(t) /\ coins' = n /\ idx' = [idx EXCEPT ![n] = e]
      /\ dirty' = IF idx[n].undo THEN dirty ELSE dirty \cup {n}
      /\ Goto(t, "cIndex")
      /\ UNCHANGED <<kind, linked, seq, nSeq, cand, unlinked, tip, disk, coinsDisk, cs, loc, count>>
  BY DEF StepConnect
<1>2. /\ n \in Known /\ n \in Block /\ n # Genesis /\ n \in Anc[loc[t].most] /\ HasData(n)
      /\ Anc[n] = {n} \cup Anc[tip]
      /\ cs = t /\ loc[t].most \in linked /\ loc[t].most \in Block /\ tip \in Block
  BY <1>1, NextBlockFacts
<1>3. e \in Status /\ e.have = idx[n].have /\ e.undo
  BY <1>2, KnownStatus, FieldTypes, Zenon DEF IInv
<1>. HIDE DEF n, e
<1>4. MemoryStep /\ dirty' \subseteq Known'
  BY <1>1, <1>2, <1>3, EntrySet DEF IInv
<1>5. /\ pc' = [pc EXCEPT ![t] = "cIndex"] /\ pc' \in [Thread -> Place] /\ pc'[t] = "cIndex"
      /\ "cIndex" \in Place
  BY <1>1, GotoTypes DEF IInv, Place, Critical
<1>6. ThreadsOk'
  <2>1. ThreadOk(t)'
    BY <1>1, <1>2, <1>5 DEF ThreadOk
  <2>. QED  BY <1>2, <1>5, <2>1, ThreadStep
<1>7. StepTypes
  BY <1>1, <1>5, HolderTypes
<1>8. coins' \in Block /\ Built(coins)' /\ Built(tip)' /\ tip' \in Block
  <2>1. \A a \in Anc[tip] : HasData(a)' /\ (a # Genesis => idx'[a].undo)
    <3>1. Built(tip) /\ \A b \in Block : Built(b) => Built(b)'
      BY <1>4, MemoryKeeps DEF IInv
    <3>2. \A a \in Anc[tip] : a \in Block /\ HasData(a) /\ (a # Genesis => idx[a].undo)
      BY <1>2, <3>1, AncFacts DEF Built
    <3>. QED  BY <1>4, <3>2 DEF HasData, MemoryStep
  <2>2. idx'[n] # None /\ idx'[n].have /\ idx'[n].undo
    <3>1. idx'[n] = e
      BY <1>1, <1>2, Zenon DEF IInv, TypeOK
    <3>2. idx[n].have
      BY <1>2 DEF HasData
    <3>. QED  BY <1>3, <3>1, <3>2, ChainStateAssumption, Zenon
  <2>. QED  BY <1>1, <1>2, <2>1, <2>2, Zenon DEF Built, HasData
<1>9. cand' \subseteq linked /\ \A c \in cand' : Work[c] >= Work[tip']
  BY <1>1 DEF IInv, CandidatesAreLinked, NoWorse
<1>. QED  BY <1>1, <1>4, <1>6, <1>7, <1>8, <1>9, StepKeeps

\* ConnectBlock refuses: only a failure flag and a candidate change.
LEMMA StepRefusedKeeps ==
  ASSUME IInv, NEW t \in Thread, StepRefused(t)
  PROVE  IInv'
<1>. DEFINE n == NextBlock(t)
<1>. DEFINE e == [idx[n] EXCEPT !.fv = TRUE]
<1>1. /\ Connecting(t) /\ Goto(t, "check") /\ cs' = None /\ cand' \subseteq cand
      /\ UNCHANGED <<kind, linked, seq, nSeq, unlinked, tip, coins, disk, coinsDisk, loc, count>>
      /\ \/ idx' = [idx EXCEPT ![n] = e] /\ dirty' = dirty \cup {n}
         \/ UNCHANGED <<idx, dirty>>
  BY DEF StepRefused
<1>2. n \in Known /\ cs = t
  BY <1>1, NextBlockFacts
<1>3. e \in Status /\ e.have = idx[n].have /\ e.undo = idx[n].undo
  BY <1>2, KnownStatus, FieldTypes DEF IInv
<1>. HIDE DEF n, e
<1>4. MemoryStep /\ dirty' \subseteq Known'
  <2>1. CASE idx' = [idx EXCEPT ![n] = e] /\ dirty' = dirty \cup {n}
    BY <1>1, <1>2, <1>3, <2>1, EntrySet, Zenon DEF IInv
  <2>2. CASE UNCHANGED <<idx, dirty>>
    BY <1>1, <2>2, MemoryUnchanged DEF IInv, TypeOK, Known
  <2>. QED  BY <1>1, <2>1, <2>2
<1>5. /\ pc' = [pc EXCEPT ![t] = "check"] /\ pc' \in [Thread -> Place] /\ pc'[t] = "check"
      /\ "check" \in Place /\ "check" \notin Critical
  BY <1>1, GotoTypes DEF IInv, Place, Critical
<1>6. ThreadsOk'
  BY <1>2, <1>5, ThreadOutside, ThreadStep, Zenon
<1>7. StepTypes
  BY <1>1, <1>5, HolderTypes
<1>8. tip' \in Block /\ coins' \in Block /\ Built(tip)' /\ Built(coins)'
  BY <1>1, <1>4, ChainKept
<1>9. cand' \subseteq linked /\ \A c \in cand' : Work[c] >= Work[tip']
  BY <1>1 DEF IInv, CandidatesAreLinked, NoWorse
<1>. QED  BY <1>1, <1>4, <1>6, <1>7, <1>8, <1>9, StepKeeps

-----------------------------------------------------------------------------
(* FlushStateToDisk *)

\* Writing setDirtyBlockIndex brings the index on disk up to date: every branch
\* that is built in memory is then saved.
LEMMA IndexWrittenFacts ==
  ASSUME IInv, IndexWritten, UNCHANGED <<idx, coinsDisk>>
  PROVE  /\ disk' \in [Block -> Status \cup {None}]
         /\ DiskBehind' /\ CleanSaved' /\ DiskChainComplete'
         /\ \A b \in Block : Built(b) => Saved(b)'
<1>1. /\ \A b \in dirty : b \in Block /\ idx[b] # None /\ disk'[b] = idx[b]
      /\ \A b \in Block \ dirty : disk'[b] = disk[b]
      /\ dirty' = {} /\ idx' = idx /\ coinsDisk' = coinsDisk
  BY DEF IndexWritten, IInv, TypeOK, Known
<1>2. disk' \in [Block -> Status \cup {None}]
  BY DEF IndexWritten, IInv, TypeOK
<1>3. \A b \in Known : /\ disk'[b] # None
                       /\ idx[b].have => disk'[b].have
                       /\ idx[b].undo => disk'[b].undo
  BY <1>1 DEF IInv, CleanSaved, Known
<1>4. \A b \in Block : disk'[b] # None => /\ idx[b] # None
                                          /\ disk'[b].have => idx[b].have
                                          /\ disk'[b].undo => idx[b].undo
  BY <1>1 DEF IInv, DiskBehind
<1>5. DiskBehind'
  <2>1. ASSUME NEW b \in Block, disk'[b] # None
        PROVE  \A a \in Anc[b] : disk'[a] # None
    <3>1. b \in Known
      BY <1>4, <2>1 DEF Known
    <3>2. Anc[b] \subseteq Known
      BY <3>1 DEF IInv, KnownClosed
    <3>. QED  BY <1>3, <3>2
  <2>. QED  BY <1>1, <1>4, <2>1 DEF DiskBehind
<1>6. CleanSaved'
  BY <1>1, <1>3 DEF CleanSaved, Known
<1>7. DiskChainComplete'
  <2>1. coinsDisk \in Block /\ \A a \in Anc[coinsDisk] : a \in Block
    BY AncFacts DEF IInv, TypeOK
  <2>2. ASSUME NEW a \in Anc[coinsDisk]
        PROVE  disk'[a] # None /\ disk'[a].have /\ (a # Genesis => disk'[a].undo)
    <3>1. a \in Block /\ disk[a] # None /\ disk[a].have /\ (a # Genesis => disk[a].undo)
      BY <2>1, <2>2 DEF IInv, DiskChainComplete
    <3>2. a \in Known /\ idx[a].have /\ (a # Genesis => idx[a].undo)
      BY <3>1 DEF IInv, DiskBehind, Known
    <3>. QED  BY <1>3, <3>2
  <2>. QED  BY <1>1, <2>2 DEF DiskChainComplete
<1>8. ASSUME NEW b \in Block, Built(b)
      PROVE  Saved(b)'
  <2>1. \A a \in Anc[b] : a \in Known /\ idx[a].have /\ (a # Genesis => idx[a].undo)
    BY <1>8, AncFacts DEF Built, HasData, Known
  <2>. QED  BY <1>3, <2>1 DEF Saved
<1>. QED  BY <1>2, <1>5, <1>6, <1>7, <1>8

\* A step that leaves the index in memory alone keeps the invariant if it keeps
\* the disk, the candidates, the tip and the threads in order.
LEMMA FlushKeeps ==
  ASSUME IInv, UNCHANGED <<kind, idx, linked, seq, nSeq, unlinked>>,
         disk' \in [Block -> Status \cup {None}], coinsDisk' \in Block,
         DiskBehind', CleanSaved', DiskChainComplete',
         dirty' \subseteq Known, cand' \subseteq linked,
         \A c \in cand' : Work[c] >= Work[tip'],
         tip' \in {tip, coins}, coins' = coins, StepTypes, ThreadsOk'
  PROVE  IInv'
<1>1. Known' = Known
  BY DEF Known
<1>2. linked \subseteq Known /\ unlinked \subseteq Known /\ tip \in Known /\ coins \in Known
  BY DEF IInv, TypeOK
<1>3. tip' \in Known /\ coins' \in Known /\ cand' \subseteq Known
  BY <1>2
<1>4. TypeOK'
  <2>1. /\ kind' \in Kinds /\ seq' \in [Block -> Nat] /\ nSeq' \in Nat
        /\ idx' \in [Block -> Status \cup {None}]
    BY DEF IInv, TypeOK
  <2>2. cs' \in Thread \cup {None} /\ loc' \in [Thread -> Locals] /\ count' \in Bounds
    BY DEF StepTypes
  <2>3. pc' \in [Thread -> {"idle", "find", "step", "inv", "check", "periodic",
                        "dIndex", "dCoins", "cIndex", "cCoins", "iIndex",
                        "iCoins", "pCoins"}]
    BY DEF StepTypes, Place, Critical
  <2>. QED  BY <1>1, <1>2, <1>3, <2>1, <2>2, <2>3 DEF TypeOK, Bounds
<1>5. KnownClosed' /\ LinkedHasData'
  BY <1>1 DEF IInv, KnownClosed, LinkedHasData, HasData
<1>6. CandidatesAreLinked' /\ NoWorse'
  BY DEF CandidatesAreLinked, NoWorse
<1>7. Built(tip)' /\ Built(coins)'
  BY DEF IInv, Built, HasData
<1>. QED  BY <1>4, <1>5, <1>6, <1>7 DEF IInv

\* The first write of FlushStateToDisk leaves the coins' branch saved.
LEMMA WriteIndexKeeps ==
  ASSUME IInv, NEW t \in Thread, WriteIndex(t)
  PROVE  IInv'
<1>1. /\ IndexWritten
      /\ UNCHANGED <<kind, idx, linked, seq, nSeq, unlinked, cand, tip, coins, coinsDisk, cs, loc, count>>
  BY DEF WriteIndex, tree
<1>2. /\ disk' \in [Block -> Status \cup {None}]
      /\ DiskBehind' /\ CleanSaved' /\ DiskChainComplete'
      /\ \A b \in Block : Built(b) => Saved(b)'
  BY <1>1, IndexWrittenFacts
<1>3. PICK p \in {"dCoins", "cCoins", "iCoins"} :
        /\ Goto(t, p)
        /\ \/ pc[t] = "dIndex" /\ p = "dCoins"
           \/ pc[t] = "cIndex" /\ p = "cCoins"
           \/ pc[t] = "iIndex" /\ p = "iCoins"
  BY DEF WriteIndex
<1>4. /\ pc' = [pc EXCEPT ![t] = p] /\ pc' \in [Thread -> Place] /\ pc'[t] = p /\ p \in Place
  BY <1>3, GotoTypes DEF IInv, Place, Critical
<1>5. cs = t /\ ThreadOk(t)
  BY <1>3 DEF IInv, ThreadsOk, ThreadOk, Critical
<1>6. ThreadsOk'
  <2>1. Saved(coins)'
    <3>1. coins \in Block /\ Built(coins)
      BY DEF IInv, TypeOK, Known
    <3>2. \A a \in Anc[coins] : disk'[a] # None /\ disk'[a].have /\ (a # Genesis => disk'[a].undo)
      BY <1>2, <3>1 DEF Saved
    <3>. QED  BY <1>1, <3>2 DEF Saved
  <2>2. ThreadOk(t)'
    BY <1>1, <1>3, <1>4, <1>5, <2>1 DEF ThreadOk, Critical
  <2>. QED  BY <1>4, <1>5, <2>2, ThreadStep
<1>7. StepTypes
  BY <1>1, <1>4, HolderTypes
<1>8. /\ dirty' \subseteq Known /\ cand' \subseteq linked /\ \A c \in cand' : Work[c] >= Work[tip']
      /\ coinsDisk' \in Block
  BY <1>1 DEF IndexWritten, IInv, TypeOK, CandidatesAreLinked, NoWorse
<1>. QED  BY <1>1, <1>2, <1>6, <1>7, <1>8, FlushKeeps

\* The end of ConnectTip: the lock is released, or the step goes on towards a
\* block that the new tip has not reached.
LEMMA ConnectedKeeps ==
  ASSUME IInv, NEW t \in Thread, pc[t] \in {"cIndex", "cCoins"}, Connected(t),
         UNCHANGED <<linked, coins, loc>>
  PROVE  /\ tip' = coins /\ cand' \subseteq linked /\ \A c \in cand' : Work[c] >= Work[tip']
         /\ cs' \in {cs, None} /\ pc' \in [Thread -> Place] /\ ThreadsOk'
<1>1. tip' = coins /\ cand' = Pruned(coins) /\ coins \in Block
  BY Zenon DEF Connected, IInv, TypeOK, Known
<1>2. cand' \subseteq linked
  BY <1>1 DEF Pruned, IInv, CandidatesAreLinked
<1>3. \A c \in cand' : Work[c] >= Work[tip']
  <2>1. \A c \in cand' : ~Less(c, coins) /\ c \in Block
    BY <1>1 DEF Pruned, IInv, TypeOK, Known
  <2>. QED  BY <1>1, <2>1, WorkFirst DEF Less
<1>4. cs = t /\ loc[t].most \in linked /\ loc[t].most \in Block /\ coins \in Anc[loc[t].most]
  BY Zenon DEF IInv, ThreadsOk, ThreadOk, Critical, TypeOK, Known
<1>5. CASE Goto(t, "check") /\ cs' = None
  <2>1. /\ pc' = [pc EXCEPT ![t] = "check"] /\ pc' \in [Thread -> Place] /\ pc'[t] = "check"
        /\ "check" \in Place /\ "check" \notin Critical
    BY <1>5, GotoTypes DEF IInv, Place, Critical
  <2>2. ThreadsOk'
    BY <1>4, <2>1, ThreadOutside, ThreadStep, Zenon
  <2>. QED  BY <1>1, <1>2, <1>3, <1>5, <2>1, <2>2
<1>6. CASE coins # loc[t].most /\ Goto(t, "step") /\ UNCHANGED cs
  <2>1. /\ pc' = [pc EXCEPT ![t] = "step"] /\ pc' \in [Thread -> Place] /\ pc'[t] = "step"
        /\ "step" \in Place
    BY <1>6, GotoTypes DEF IInv, Place, Critical
  <2>2. loc[t].most \notin Anc[coins]
    <3>1. Work[coins] < Work[loc[t].most] /\ Work[coins] \in Nat /\ Work[loc[t].most] \in Nat
      BY <1>1, <1>4, <1>6, AncFacts, Zenon
    <3>2. loc[t].most \in Anc[coins] => Work[loc[t].most] < Work[coins]
      BY <1>1, <1>6, AncFacts
    <3>. QED  BY <3>1, <3>2
  <2>3. ThreadOk(t)'
    BY <1>1, <1>4, <1>6, <2>1, <2>2 DEF ThreadOk
  <2>4. ThreadsOk'
    BY <1>4, <2>1, <2>3, ThreadStep, Zenon
  <2>. QED  BY <1>1, <1>2, <1>3, <1>6, <2>1, <2>4
<1>. QED  BY <1>5, <1>6 DEF Connected

\* ConnectTip without a flush.
LEMMA NoFlushKeeps ==
  ASSUME IInv, NEW t \in Thread, NoFlush(t)
  PROVE  IInv'
<1>1. /\ pc[t] = "cIndex" /\ Connected(t)
      /\ UNCHANGED <<kind, idx, linked, seq, nSeq, unlinked, dirty, coins, disk, coinsDisk, loc, count>>
  BY DEF NoFlush, tree
<1>2. /\ tip' = coins /\ cand' \subseteq linked /\ \A c \in cand' : Work[c] >= Work[tip']
      /\ cs' \in {cs, None} /\ pc' \in [Thread -> Place] /\ ThreadsOk'
  BY <1>1, ConnectedKeeps
<1>3. StepTypes
  BY <1>1, <1>2, HolderTypes
<1>4. /\ disk' \in [Block -> Status \cup {None}] /\ coinsDisk' \in Block /\ dirty' \subseteq Known
      /\ DiskBehind' /\ CleanSaved' /\ DiskChainComplete'
  BY <1>1, Zenon DEF IInv, TypeOK, DiskBehind, CleanSaved, DiskChainComplete, Known
<1>. QED  BY <1>1, <1>2, <1>3, <1>4, FlushKeeps

\* The end of DisconnectTip: the tip moves to its parent.
LEMMA DisconnectedKeeps ==
  ASSUME IInv, NEW t \in Thread, UNCHANGED <<linked, coins, cand, cs, loc>>, tip' = coins,
         \/ pc[t] = "dCoins" /\ Goto(t, "step")
         \/ pc[t] = "iCoins" /\ Goto(t, "inv")
  PROVE  /\ \A c \in cand' : Work[c] >= Work[tip']
         /\ pc' \in [Thread -> Place] /\ ThreadsOk'
<1>1. cs = t /\ tip \in Block \ {Genesis} /\ coins = Prev[tip] /\ ThreadOk(t)
  BY DEF IInv, ThreadsOk, ThreadOk, Critical, TypeOK, Known
<1>2. coins \in Block /\ Work[coins] < Work[tip] /\ Anc[coins] \subseteq Anc[tip]
  BY <1>1, PrevFacts, AncFacts
<1>3. \A c \in cand' : Work[c] >= Work[tip']
  <2>1. \A c \in cand : c \in Block /\ Work[c] >= Work[tip]
    BY DEF IInv, NoWorse, TypeOK, Known
  <2>. QED  BY <1>1, <1>2, <2>1, AncFacts
<1>4. CASE pc[t] = "dCoins" /\ Goto(t, "step")
  <2>1. /\ pc' = [pc EXCEPT ![t] = "step"] /\ pc' \in [Thread -> Place] /\ pc'[t] = "step"
        /\ "step" \in Place
    BY <1>4, GotoTypes DEF IInv, Place, Critical
  <2>2. ThreadOk(t)'
    BY <1>1, <1>2, <1>4, <2>1 DEF ThreadOk
  <2>. QED  BY <1>1, <1>3, <2>1, <2>2, ThreadStep, Zenon
<1>5. CASE pc[t] = "iCoins" /\ Goto(t, "inv")
  <2>1. /\ pc' = [pc EXCEPT ![t] = "inv"] /\ pc' \in [Thread -> Place] /\ pc'[t] = "inv"
        /\ "inv" \in Place
    BY <1>5, GotoTypes DEF IInv, Place, Critical
  <2>2. ThreadOk(t)'
    BY <1>1, <1>5, <2>1, Zenon DEF ThreadOk
  <2>. QED  BY <1>1, <1>3, <2>1, <2>2, ThreadStep, Zenon
<1>. QED  BY <1>4, <1>5

\* The second write of FlushStateToDisk finds that branch saved.
LEMMA WriteCoinsKeeps ==
  ASSUME IInv, NEW t \in Thread, WriteCoins(t)
  PROVE  IInv'
<1>1. /\ coinsDisk' = coins
      /\ UNCHANGED <<kind, idx, linked, seq, nSeq, unlinked, dirty, coins, disk, count>>
  BY DEF WriteCoins, tree
<1>2. pc[t] \in {"dCoins", "iCoins", "cCoins", "pCoins"}
  BY DEF WriteCoins
<1>3. cs = t /\ Saved(coins) /\ coins \in Block
  BY <1>2 DEF IInv, ThreadsOk, ThreadOk, Critical, TypeOK, Known
<1>4. /\ disk' \in [Block -> Status \cup {None}] /\ coinsDisk' \in Block /\ dirty' \subseteq Known
      /\ DiskBehind' /\ CleanSaved' /\ DiskChainComplete'
  <2>1. DiskChainComplete'
    BY <1>1, <1>3 DEF Saved, DiskChainComplete
  <2>. QED  BY <1>1, <1>3, <2>1 DEF IInv, TypeOK, DiskBehind, CleanSaved, Known
<1>5. /\ tip' \in {tip, coins} /\ cand' \subseteq linked /\ \A c \in cand' : Work[c] >= Work[tip']
      /\ StepTypes /\ ThreadsOk'
  <2>1. cand \subseteq linked /\ \A c \in cand : Work[c] >= Work[tip]
    BY DEF IInv, CandidatesAreLinked, NoWorse
  <2>2. CASE /\ tip' = coins /\ UNCHANGED <<cand, cs, loc>>
             /\ \/ pc[t] = "dCoins" /\ Goto(t, "step")
                \/ pc[t] = "iCoins" /\ Goto(t, "inv")
    <3>1. /\ \A c \in cand' : Work[c] >= Work[tip']
          /\ pc' \in [Thread -> Place] /\ ThreadsOk'
      BY <1>1, <2>2, DisconnectedKeeps
    <3>. QED  BY <1>1, <2>1, <2>2, <3>1, HolderTypes
  <2>3. CASE pc[t] = "cCoins" /\ Connected(t) /\ UNCHANGED loc
    <3>1. /\ tip' = coins /\ cand' \subseteq linked /\ \A c \in cand' : Work[c] >= Work[tip']
          /\ cs' \in {cs, None} /\ pc' \in [Thread -> Place] /\ ThreadsOk'
      BY <1>1, <2>3, ConnectedKeeps
    <3>. QED  BY <1>1, <2>3, <3>1, HolderTypes
  <2>4. CASE pc[t] = "pCoins" /\ Return(t) /\ cs' = None /\ UNCHANGED <<cand, tip>>
    <3>1. pc' \in [Thread -> Place] /\ loc' \in [Thread -> Locals] /\ ThreadsOk'
      <4>1. None \in Block \cup {None}
        OBVIOUS
      <4>. QED  BY <1>3, <2>4, <4>1, ActivateKeeps
    <3>2. StepTypes
      BY <1>1, <2>4, <3>1 DEF StepTypes, IInv, TypeOK, Bounds
    <3>. QED  BY <2>1, <2>4, <3>1, <3>2
  <2>. QED  BY <2>2, <2>3, <2>4 DEF WriteCoins
<1>. QED  BY <1>1, <1>4, <1>5, FlushKeeps

\* The test at the end of the loop runs without cs_main, next to a thread that
\* may hold it.
LEMMA CheckKeeps ==
  ASSUME IInv, NEW t \in Thread, Check(t)
  PROVE  IInv'
<1>1. /\ pc[t] = "check"
      /\ UNCHANGED <<kind, idx, linked, seq, nSeq, unlinked, cand, dirty, tip, coins, disk, coinsDisk, cs, count>>
  BY Zenon DEF Check, tree
<1>2. PICK p \in {"periodic", "find"}, l \in Locals :
        Goto(t, p) /\ loc' = [loc EXCEPT ![t] = l]
  <2>1. loc[t].held \in Block \cup {None}
    BY DEF IInv, TypeOK, Locals
  <2>. QED  BY <2>1, HeldTypes DEF Check, Activate
<1>3. /\ pc' = [pc EXCEPT ![t] = p] /\ pc' \in [Thread -> Place] /\ pc'[t] = p
      /\ p \in Place /\ p \notin Critical
  BY <1>2, GotoTypes DEF IInv, Place, Critical
<1>4. loc' \in [Thread -> Locals]
  BY <1>2, LocalTypes DEF IInv
<1>5. ThreadsOk'
  <2>1. ThreadOk(t)'
    BY <1>3, ThreadOutside
  <2>2. ASSUME NEW u \in Thread, u # t
        PROVE  ThreadOk(u)'
    <3>1. pc'[u] = pc[u] /\ loc'[u] = loc[u] /\ ThreadOk(u)
      BY <1>2, <1>3, <2>2 DEF IInv, TypeOK, ThreadsOk
    <3>. QED  BY <1>1, <3>1 DEF ThreadOk, Saved
  <2>. QED  BY <2>1, <2>2 DEF ThreadsOk
<1>6. StepTypes
  BY <1>1, <1>3, <1>4, Zenon DEF StepTypes, IInv, TypeOK, Bounds
<1>7. MemoryStep
  BY <1>1, MemoryUnchanged DEF IInv
<1>8. tip' \in Block /\ coins' \in Block /\ Built(tip)' /\ Built(coins)'
  BY <1>1, <1>7, ChainKept
<1>9. dirty' \subseteq Known' /\ cand' \subseteq linked /\ \A c \in cand' : Work[c] >= Work[tip']
  BY <1>1 DEF IInv, TypeOK, Known, CandidatesAreLinked, NoWorse
<1>. QED  BY <1>1, <1>5, <1>6, <1>7, <1>8, <1>9, StepKeeps

\* The flush after the loop.
LEMMA PeriodicKeeps ==
  ASSUME IInv, NEW t \in Thread, Periodic(t)
  PROVE  IInv'
<1>1. /\ cs = None
      /\ UNCHANGED <<kind, idx, linked, seq, nSeq, unlinked, cand, tip, coins, coinsDisk, count>>
  BY DEF Periodic, tree
<1>2. cand' \subseteq linked /\ \A c \in cand' : Work[c] >= Work[tip']
  BY <1>1 DEF IInv, CandidatesAreLinked, NoWorse
<1>3. CASE Return(t) /\ UNCHANGED <<disk, dirty, cs>>
  <2>1. pc' \in [Thread -> Place] /\ loc' \in [Thread -> Locals] /\ ThreadsOk'
    <3>1. None \in Block \cup {None}
      OBVIOUS
    <3>. QED  BY <1>1, <1>3, <3>1, ActivateKeeps
  <2>2. StepTypes
    BY <1>1, <1>3, <2>1 DEF StepTypes, IInv, TypeOK, Bounds
  <2>3. /\ disk' \in [Block -> Status \cup {None}] /\ coinsDisk' \in Block /\ dirty' \subseteq Known
        /\ DiskBehind' /\ CleanSaved' /\ DiskChainComplete'
    BY <1>1, <1>3, Zenon DEF IInv, TypeOK, DiskBehind, CleanSaved, DiskChainComplete, Known
  <2>. QED  BY <1>1, <1>2, <2>1, <2>2, <2>3, FlushKeeps
<1>4. CASE IndexWritten /\ Goto(t, "pCoins") /\ cs' = t /\ UNCHANGED loc
  <2>1. /\ disk' \in [Block -> Status \cup {None}]
        /\ DiskBehind' /\ CleanSaved' /\ DiskChainComplete'
        /\ \A b \in Block : Built(b) => Saved(b)'
    BY <1>1, <1>4, IndexWrittenFacts
  <2>2. /\ pc' = [pc EXCEPT ![t] = "pCoins"] /\ pc' \in [Thread -> Place] /\ pc'[t] = "pCoins"
        /\ "pCoins" \in Place
    BY <1>4, GotoTypes DEF IInv, Place, Critical
  <2>3. Saved(coins)'
    <3>1. coins \in Block /\ Built(coins)
      BY DEF IInv, TypeOK, Known
    <3>2. \A a \in Anc[coins] : disk'[a] # None /\ disk'[a].have /\ (a # Genesis => disk'[a].undo)
      BY <2>1, <3>1 DEF Saved
    <3>. QED  BY <1>1, <3>2 DEF Saved
  <2>4. ThreadsOk'
    <3>1. ThreadOk(t)'
      BY <1>4, <2>2, <2>3 DEF ThreadOk
    <3>. QED  BY <1>1, <2>2, <3>1, ThreadStep, Zenon
  <2>5. StepTypes
    BY <1>1, <1>4, <2>2 DEF StepTypes, IInv, TypeOK, Bounds
  <2>6. dirty' \subseteq Known /\ coinsDisk' \in Block
    BY <1>1, <1>4 DEF IndexWritten, IInv, TypeOK
  <2>. QED  BY <1>1, <1>2, <2>1, <2>4, <2>5, <2>6, FlushKeeps
<1>. QED  BY <1>3, <1>4 DEF Periodic

-----------------------------------------------------------------------------
(* InvalidateBlock *)

\* InvalidateBlock marks its argument.
LEMMA InvalidateBlockKeeps ==
  ASSUME IInv, NEW t \in Thread, NEW b \in Block, InvalidateBlock(t, b)
  PROVE  IInv'
<1>. DEFINE e == [idx[b] EXCEPT !.fv = TRUE]
<1>1. /\ cs = None /\ b \in Known /\ b # Genesis
      /\ idx' = [idx EXCEPT ![b] = e] /\ dirty' = dirty \cup {b} /\ cand' = cand \ {b}
      /\ Goto(t, "inv") /\ cs' = t /\ loc' = [loc EXCEPT ![t].most = b]
      /\ UNCHANGED <<kind, linked, seq, nSeq, unlinked, tip, coins, disk, coinsDisk>>
  BY DEF InvalidateBlock, Idle
<1>2. e \in Status /\ e.have = idx[b].have /\ e.undo = idx[b].undo
  BY <1>1, KnownStatus, FieldTypes, Zenon DEF IInv
<1>. HIDE DEF e
<1>3. MemoryStep /\ dirty' \subseteq Known'
  BY <1>1, <1>2, EntrySet DEF IInv
<1>4. /\ pc' = [pc EXCEPT ![t] = "inv"] /\ pc' \in [Thread -> Place] /\ pc'[t] = "inv"
      /\ "inv" \in Place
  BY <1>1, GotoTypes DEF IInv, Place, Critical
<1>5. loc' \in [Thread -> Locals] /\ loc'[t].most = b
  BY <1>1 DEF IInv, TypeOK, Locals
<1>6. ThreadsOk'
  <2>1. ThreadOk(t)'
    BY <1>1, <1>4, <1>5 DEF ThreadOk
  <2>. QED  BY <1>1, <1>4, <2>1, ThreadStep
<1>7. StepTypes
  <2>1. /\ count \in Bounds /\ count.inv < MaxInvalidate /\ MaxInvalidate \in Nat
        /\ count' = [count EXCEPT !.inv = @ + 1]
    BY BoundFacts DEF InvalidateBlock, IInv, TypeOK, Bounds
  <2>2. count' \in Bounds
    BY <2>1 DEF Bounds
  <2>. QED  BY <1>1, <1>4, <1>5, <2>2 DEF StepTypes
<1>8. tip' \in Block /\ coins' \in Block /\ Built(tip)' /\ Built(coins)'
  BY <1>1, <1>3, ChainKept
<1>9. cand' \subseteq linked /\ \A c \in cand' : Work[c] >= Work[tip']
  BY <1>1 DEF IInv, CandidatesAreLinked, NoWorse
<1>. QED  BY <1>1, <1>3, <1>6, <1>7, <1>8, <1>9, StepKeeps

\* InvalidateBlock disconnects a tip above its argument, never Genesis.
LEMMA InvalidateTipKeeps ==
  ASSUME IInv, NEW t \in Thread, InvalidateTip(t)
  PROVE  IInv'
<1>. DEFINE e == [idx[tip] EXCEPT !.fc = TRUE]
<1>1. /\ pc[t] = "inv" /\ loc[t].most \in Anc[tip]
      /\ idx' = [idx EXCEPT ![tip] = e] /\ dirty' = dirty \cup {tip} /\ cand' = cand \ {tip}
      /\ coins' = Prev[tip] /\ Goto(t, "iIndex")
      /\ UNCHANGED <<kind, linked, seq, nSeq, unlinked, tip, disk, coinsDisk, cs, loc, count>>
  BY DEF InvalidateTip, Active
<1>2. cs = t /\ loc[t].most \in Block \ {Genesis} /\ tip \in Known
  BY <1>1 DEF IInv, TypeOK, ThreadsOk, ThreadOk, Critical
<1>3. tip # Genesis /\ tip \in Block
  BY <1>1, <1>2, ChainStateAssumption DEF Known
<1>4. e \in Status /\ e.have = idx[tip].have /\ e.undo = idx[tip].undo
  BY <1>2, KnownStatus, FieldTypes, Zenon DEF IInv
<1>. HIDE DEF e
<1>5. MemoryStep /\ dirty' \subseteq Known'
  BY <1>1, <1>2, <1>4, EntrySet, Zenon DEF IInv
<1>6. /\ pc' = [pc EXCEPT ![t] = "iIndex"] /\ pc' \in [Thread -> Place] /\ pc'[t] = "iIndex"
      /\ "iIndex" \in Place
  BY <1>1, GotoTypes DEF IInv, Place, Critical
<1>7. ThreadsOk'
  <2>1. ThreadOk(t)'
    BY <1>1, <1>2, <1>3, <1>6, Zenon DEF ThreadOk
  <2>. QED  BY <1>2, <1>6, <2>1, ThreadStep
<1>8. StepTypes
  BY <1>1, <1>6, HolderTypes
<1>9. coins' \in Block /\ Built(coins)' /\ Built(tip)' /\ tip' \in Block
  <2>1. Prev[tip] \in Block /\ \A a \in Anc[Prev[tip]] : HasData(a)' /\ (a # Genesis => idx'[a].undo)
    BY <1>3, <1>5, PrevBuilt
  <2>2. \A a \in Anc[tip] : a \in Block /\ HasData(a) /\ (a # Genesis => idx[a].undo)
    BY <1>3, AncFacts DEF IInv, Built
  <2>3. \A a \in Anc[tip] : HasData(a)' /\ (a # Genesis => idx'[a].undo)
    BY <1>5, <2>2 DEF HasData, MemoryStep
  <2>. QED  BY <1>1, <1>3, <2>1, <2>3 DEF Built
<1>10. cand' \subseteq linked /\ \A c \in cand' : Work[c] >= Work[tip']
  BY <1>1, Zenon DEF IInv, CandidatesAreLinked, NoWorse
<1>. QED  BY <1>1, <1>5, <1>7, <1>8, <1>9, <1>10, StepKeeps

\* InvalidateBlock puts back linked blocks that are no worse than the tip.
LEMMA InvalidateDoneKeeps ==
  ASSUME IInv, NEW t \in Thread, InvalidateDone(t)
  PROVE  IInv'
<1>1. /\ pc[t] = "inv" /\ cand' = cand \cup PutBack /\ Activate(t, None) /\ cs' = None
      /\ UNCHANGED <<kind, idx, linked, seq, nSeq, unlinked, dirty, tip, coins, disk, coinsDisk, count>>
  BY DEF InvalidateDone, tree
<1>2. cs = t
  BY <1>1 DEF IInv, ThreadsOk, ThreadOk, Critical
<1>3. MemoryStep
  BY <1>1, MemoryUnchanged DEF IInv
<1>4. pc' \in [Thread -> Place] /\ loc' \in [Thread -> Locals] /\ ThreadsOk'
  <2>1. None \in Block \cup {None}
    OBVIOUS
  <2>. QED  BY <1>1, <1>2, <2>1, ActivateKeeps
<1>5. tip' \in Block /\ coins' \in Block /\ Built(tip)' /\ Built(coins)'
  BY <1>1, <1>3, ChainKept
<1>6. StepTypes
  BY <1>1, <1>4 DEF StepTypes, IInv, TypeOK, Bounds
<1>7. cand' \subseteq linked /\ \A c \in cand' : Work[c] >= Work[tip']
  <2>1. \A d \in PutBack : d \in linked /\ d \in Block /\ ~Less(d, tip)
    BY DEF PutBack, Known
  <2>2. \A d \in PutBack : Work[d] >= Work[tip]
    <3>1. tip \in Block
      BY <1>1, <1>5
    <3>. QED  BY <2>1, <3>1, WorkFirst DEF Less
  <2>. QED  BY <1>1, <2>1, <2>2 DEF IInv, CandidatesAreLinked, NoWorse
<1>8. dirty' \subseteq Known'
  BY <1>1 DEF IInv, TypeOK, Known
<1>. QED  BY <1>1, <1>3, <1>4, <1>5, <1>6, <1>7, <1>8, StepKeeps

-----------------------------------------------------------------------------
(* The start, and a start after a crash *)

\* What LoadBlockIndexDB reads is a state the node can go on from, because the
\* index on disk was complete below the coins on disk.
LEMMA CrashKeeps ==
  ASSUME IInv, Crash
  PROVE  IInv'
<1>1. /\ idx' = disk /\ linked' = LoadedLinked /\ cand' = LoadedCandidates
      /\ unlinked' = {b \in Block : disk[b] # None /\ disk[b].have} \ LoadedLinked
      /\ seq' = [b \in Block |-> 0] /\ nSeq' = 1 /\ dirty' = {}
      /\ tip' = coinsDisk /\ coins' = coinsDisk /\ cs' = None
      /\ loc' = [t \in Thread |-> NoLocals]
      /\ UNCHANGED <<kind, disk, coinsDisk>>
  BY DEF Crash
<1>2. Known' = {b \in Block : disk[b] # None} /\ coinsDisk \in Block
  BY <1>1 DEF Known, IInv, TypeOK
<1>3. KnownClosed' /\ DiskBehind' /\ CleanSaved' /\ DiskChainComplete'
  <2>1. KnownClosed'
    BY <1>1, <1>2, AncFacts DEF IInv, DiskBehind, KnownClosed
  <2>2. DiskBehind' /\ CleanSaved'
    BY <1>1, <1>2 DEF IInv, DiskBehind, CleanSaved
  <2>3. DiskChainComplete'
    BY <1>1 DEF IInv, DiskChainComplete
  <2>. QED  BY <2>1, <2>2, <2>3
<1>4. Built(tip)' /\ Built(coins)'
  BY <1>1 DEF IInv, DiskChainComplete, Built, HasData
<1>5. LinkedHasData' /\ CandidatesAreLinked'
  <2>1. \A b \in linked' : \A a \in Anc[b] : HasData(a)'
    BY <1>1 DEF LoadedLinked, HasData
  <2>2. \A b \in unlinked' : HasData(b)'
    BY <1>1 DEF HasData
  <2>. QED  BY <1>1, <2>1, <2>2 DEF LinkedHasData, CandidatesAreLinked, LoadedCandidates
<1>6. NoWorse'
  <2>. DEFINE zero == [d \in Block |-> 0]
  <2>1. \A b \in cand' : b \in Block /\ ~LessBy(zero, b, coinsDisk)
    BY <1>1 DEF LoadedCandidates, LoadedLinked
  <2>. HIDE DEF zero
  <2>2. \A b \in cand' : Work[b] >= Work[coinsDisk]
    BY <1>2, <2>1, WorkFirst
  <2>. QED  BY <1>1, <2>2 DEF NoWorse
<1>7. ThreadsOk' /\ pc' \in [Thread -> {"idle", "find"}]
  <2>1. pc' \in [Thread -> {"idle", "find"}]
    BY DEF Crash
  <2>2. \A t \in Thread : pc'[t] \notin Critical
    BY <2>1 DEF Critical
  <2>. QED  BY <2>1, <2>2, ThreadOutside DEF ThreadsOk
<1>8. TypeOK'
  <2>1. count' \in Bounds
    <3>1. /\ count \in Bounds /\ count.crash < MaxCrash /\ MaxCrash \in Nat
          /\ count' = [count EXCEPT !.crash = @ + 1]
      BY BoundFacts DEF Crash, IInv, TypeOK, Bounds
    <3>. QED  BY <3>1 DEF Bounds
  <2>2. tip' \in Known' /\ coins' \in Known'
    BY <1>1, <1>2, AncFacts DEF IInv, DiskChainComplete
  <2>3. linked' \subseteq Known' /\ unlinked' \subseteq Known' /\ cand' \subseteq Known'
    BY <1>1, <1>2, AncFacts DEF LoadedLinked, LoadedCandidates
  <2>4. seq' \in [Block -> Nat] /\ nSeq' \in Nat /\ dirty' \subseteq Known'
    BY <1>1
  <2>5. loc' \in [Thread -> Locals]
    BY <1>1, HeldTypes, Zenon
  <2>6. /\ kind' \in Kinds /\ idx' \in [Block -> Status \cup {None}]
        /\ disk' \in [Block -> Status \cup {None}] /\ coinsDisk' \in Block
        /\ cs' \in Thread \cup {None}
    BY <1>1 DEF IInv, TypeOK
  <2>. QED  BY <1>7, <2>1, <2>2, <2>3, <2>4, <2>5, <2>6 DEF TypeOK, Bounds
<1>. QED  BY <1>3, <1>4, <1>5, <1>6, <1>7, <1>8 DEF IInv

\* The node with the genesis block alone.
LEMMA InitIInv ==
  ASSUME Init
  PROVE  IInv
<1>. DEFINE g == [Header EXCEPT !.have = TRUE]
<1>1. g \in Status /\ g.have /\ g # None
  <2>1. g \in Status /\ g.have
    BY Zenon DEF Header, Status
  <2>. QED  BY <2>1, ChainStateAssumption, Zenon
<1>2. /\ idx = [b \in Block |-> IF b = Genesis THEN g ELSE None] /\ disk = idx
      /\ linked = {Genesis} /\ cand = {Genesis} /\ unlinked = {} /\ dirty = {}
      /\ tip = Genesis /\ coins = Genesis /\ coinsDisk = Genesis
      /\ Genesis \in Block /\ Anc[Genesis] = {Genesis}
  BY ChainStateAssumption DEF Init
<1>. HIDE DEF g
<1>3. idx[Genesis] = g /\ Known = {Genesis}
  BY <1>1, <1>2 DEF Known
<1>4. TypeOK
  <2>1. idx \in [Block -> Status \cup {None}]
    BY <1>1, <1>2, Zenon
  <2>2. /\ seq \in [Block -> Nat] /\ nSeq \in Nat /\ kind \in Kinds /\ cs \in Thread \cup {None}
        /\ pc \in [Thread -> {"idle"}]
    BY DEF Init
  <2>3. loc \in [Thread -> Locals]
    BY HeldTypes, Zenon DEF Init
  <2>4. count \in Bounds
    <3>1. count = [inv |-> 0, rec |-> 0, crash |-> 0, fail |-> 0]
      BY DEF Init
    <3>. QED  BY <3>1, BoundFacts DEF Bounds
  <2>. QED  BY <1>2, <1>3, <2>1, <2>2, <2>3, <2>4 DEF TypeOK, Bounds
<1>5. KnownClosed /\ DiskBehind /\ CleanSaved
  BY <1>1, <1>2, <1>3 DEF KnownClosed, DiskBehind, CleanSaved
<1>6. LinkedHasData /\ CandidatesAreLinked /\ Built(tip) /\ Built(coins) /\ DiskChainComplete
  <2>1. LinkedHasData /\ CandidatesAreLinked
    BY <1>1, <1>2, <1>3 DEF LinkedHasData, CandidatesAreLinked, HasData
  <2>2. Built(tip) /\ Built(coins)
    BY <1>1, <1>2, <1>3 DEF Built, HasData
  <2>3. DiskChainComplete
    BY <1>1, <1>2, <1>3 DEF DiskChainComplete
  <2>. QED  BY <2>1, <2>2, <2>3
<1>7. NoWorse
  BY <1>2, AncFacts DEF NoWorse
<1>8. ThreadsOk
  <2>1. \A t \in Thread : pc[t] = "idle"
    BY DEF Init
  <2>. QED  BY <2>1 DEF ThreadsOk, ThreadOk, Critical
<1>. QED  BY <1>4, <1>5, <1>6, <1>7, <1>8 DEF IInv

\* A step that changes nothing.
LEMMA StutterKeeps ==
  ASSUME IInv, UNCHANGED vars
  PROVE  IInv'
<1>1. MemoryStep
  BY MemoryUnchanged DEF vars, IInv
<1>2. dirty' \subseteq Known' /\ count' \in Bounds
  BY DEF vars, IInv, TypeOK, Known, Bounds
<1>. QED  BY <1>1, <1>2, IdleKeeps DEF vars

-----------------------------------------------------------------------------
(* What each step does to the entries of mapBlockIndex *)

\* The entries stay, with their data; those in U get undo data, those in F and C a mark.
Marks(U, F, C) == \A a \in Block :
  /\ idx'[a] = None <=> idx[a] = None
  /\ idx[a] # None => /\ idx'[a].have <=> idx[a].have
                      /\ idx'[a].undo <=> (idx[a].undo \/ a \in U)
                      /\ idx'[a].fv <=> (idx[a].fv \/ a \in F)
                      /\ idx'[a].fc <=> (idx[a].fc \/ a \in C)

\* The entry of b is written; a new one, or one without data.
Written(b) == /\ idx'[b] \in Status /\ idx'[b] # None /\ ~HasData(b) /\ b # Genesis
              /\ \A a \in Block \ {b} : idx'[a] = idx[a]
              /\ idx[b] # None => (idx'[b].undo <=> idx[b].undo) /\ ~Failed(b)
              /\ idx[b] = None => ~idx'[b].undo

LEMMA NothingMarked ==
  ASSUME idx' = idx
  PROVE  Marks({}, {}, {})
BY DEF Marks

\* One field of one entry is set.
LEMMA FieldSet ==
  ASSUME NEW s \in Status
  PROVE  LET u == [s EXCEPT !.undo = TRUE]
             v == [s EXCEPT !.fv = TRUE]
             c == [s EXCEPT !.fc = TRUE]
         IN  /\ u \in Status /\ u.have = s.have /\ u.undo /\ u.fv = s.fv /\ u.fc = s.fc
             /\ v \in Status /\ v.have = s.have /\ v.undo = s.undo /\ v.fv /\ v.fc = s.fc
             /\ c \in Status /\ c.have = s.have /\ c.undo = s.undo /\ c.fv = s.fv /\ c.fc
BY Zenon DEF Status

LEMMA EntryMarked ==
  ASSUME TypeOK, NEW n \in Known
  PROVE  /\ idx' = [idx EXCEPT ![n].undo = TRUE] => Marks({n}, {}, {})
         /\ idx' = [idx EXCEPT ![n].fv = TRUE] => Marks({}, {n}, {})
         /\ idx' = [idx EXCEPT ![n].fc = TRUE] => Marks({}, {}, {n})
<1>1. n \in Block /\ idx[n] \in Status /\ idx[n] # None /\ idx \in [Block -> Status \cup {None}]
  BY KnownStatus DEF Known, TypeOK
<1>2. \A e \in Status : e # None
  BY ChainStateAssumption
<1>3. ASSUME idx' = [idx EXCEPT ![n].undo = TRUE]
      PROVE  Marks({n}, {}, {})
  <2>. DEFINE e == [idx[n] EXCEPT !.undo = TRUE]
  <2>1. e \in Status /\ e.have = idx[n].have /\ e.undo /\ e.fv = idx[n].fv /\ e.fc = idx[n].fc
    BY <1>1, FieldSet, Zenon
  <2>2. idx'[n] = e /\ \A a \in Block \ {n} : idx'[a] = idx[a]
    BY <1>1, <1>3
  <2>. HIDE DEF e
  <2>. QED  BY <1>1, <1>2, <2>1, <2>2 DEF Marks
<1>4. ASSUME idx' = [idx EXCEPT ![n].fv = TRUE]
      PROVE  Marks({}, {n}, {})
  <2>. DEFINE e == [idx[n] EXCEPT !.fv = TRUE]
  <2>1. e \in Status /\ e.have = idx[n].have /\ e.undo = idx[n].undo /\ e.fv /\ e.fc = idx[n].fc
    BY <1>1, FieldSet, Zenon
  <2>2. idx'[n] = e /\ \A a \in Block \ {n} : idx'[a] = idx[a]
    BY <1>1, <1>4
  <2>. HIDE DEF e
  <2>. QED  BY <1>1, <1>2, <2>1, <2>2 DEF Marks
<1>5. ASSUME idx' = [idx EXCEPT ![n].fc = TRUE]
      PROVE  Marks({}, {}, {n})
  <2>. DEFINE e == [idx[n] EXCEPT !.fc = TRUE]
  <2>1. e \in Status /\ e.have = idx[n].have /\ e.undo = idx[n].undo /\ e.fv = idx[n].fv /\ e.fc
    BY <1>1, FieldSet, Zenon
  <2>2. idx'[n] = e /\ \A a \in Block \ {n} : idx'[a] = idx[a]
    BY <1>1, <1>5
  <2>. HIDE DEF e
  <2>. QED  BY <1>1, <1>2, <2>1, <2>2 DEF Marks
<1>. QED  BY <1>3, <1>4, <1>5

\* FindMostWorkChain.
LEMMA FindMarks ==
  ASSUME IInv, NEW t \in Thread, Find(t)
  PROVE  Marks({}, {}, MarkedChildren)
<1>. DEFINE marked(a) == [idx[a] EXCEPT !.fc = TRUE]
<1>1. MarkedChildren \in SUBSET Known
  BY FindFacts
<1>2. \A a \in MarkedChildren : a \in Block /\ idx[a] \in Status /\ idx[a] # None
  BY <1>1, KnownStatus DEF IInv, Known
<1>3. \A a \in MarkedChildren : /\ marked(a) \in Status /\ marked(a).have = idx[a].have
                                /\ marked(a).undo = idx[a].undo /\ marked(a).fv = idx[a].fv /\ marked(a).fc
  BY <1>2, FieldSet
<1>4. /\ \A a \in MarkedChildren : idx'[a] = marked(a)
      /\ \A a \in Block \ MarkedChildren : idx'[a] = idx[a]
  BY <1>2 DEF Find
<1>. HIDE DEF marked
<1>5. \A e \in Status : e # None
  BY ChainStateAssumption
<1>. QED  BY <1>2, <1>3, <1>4, <1>5 DEF Marks

\* ReconsiderBlock takes marks away, and notes it.
Clears == \A a \in Block :
  /\ idx'[a] = None <=> idx[a] = None
  /\ idx[a] # None => /\ idx'[a].have <=> idx[a].have
                      /\ idx'[a].undo <=> idx[a].undo
                      /\ idx'[a].fv => idx[a].fv
                      /\ idx'[a].fc => idx[a].fc
                      /\ a \in dirty' \/ idx'[a] = idx[a]
LEMMA ReconsiderClears ==
  ASSUME IInv, NEW p \in Known, ReconsiderBlock(p)
  PROVE  Clears
<1>. DEFINE cleared == FailedBelow(p) \cup FailedAbove(p)
            flagless(a) == [idx[a] EXCEPT !.fv = FALSE, !.fc = FALSE]
<1>1. cleared \in SUBSET Known
  BY Zenon DEF FailedBelow, FailedAbove, IInv, KnownClosed
<1>2. \A a \in cleared : a \in Block /\ idx[a] \in Status /\ idx[a] # None
  BY <1>1, KnownStatus DEF IInv, Known
<1>3. \A a \in cleared : /\ flagless(a) \in Status /\ flagless(a).have = idx[a].have
                         /\ flagless(a).undo = idx[a].undo /\ ~flagless(a).fv /\ ~flagless(a).fc
  <2>1. \A a \in cleared : idx[a] \in Status
    BY <1>2
  <2>. QED  BY <2>1 DEF Status
<1>4. idx' = [a \in Block |-> IF a \in cleared THEN flagless(a) ELSE idx[a]] /\ dirty' = dirty \cup cleared
  BY Zenon DEF ReconsiderBlock
<1>. HIDE DEF flagless, cleared
<1>5. /\ \A a \in cleared : idx'[a] = flagless(a)
      /\ \A a \in Block \ cleared : idx'[a] = idx[a]
  BY <1>2, <1>4
<1>6. \A e \in Status : e # None
  BY ChainStateAssumption
<1>. QED  BY <1>2, <1>3, <1>4, <1>5, <1>6 DEF Clears

\* Both callers of ReconsiderBlock.
LEMMA ReconsiderSteps ==
  ASSUME IInv, NEW t \in Thread, NEW b \in Block, ReconsiderCommand(t, b) \/ AcceptOnCheckpoint(t, b)
  PROVE  /\ Clears /\ dirty \subseteq dirty' /\ cs = None /\ Goto(t, "find")
         /\ UNCHANGED <<kind, linked, unlinked, seq, tip, coins, disk, coinsDisk>>
<1>1. ASSUME NEW p \in Known, ReconsiderBlock(p)
      PROVE  /\ Clears /\ dirty \subseteq dirty'
             /\ UNCHANGED <<kind, linked, unlinked, seq, tip, coins, disk, coinsDisk>>
  BY <1>1, ReconsiderClears, Zenon DEF ReconsiderBlock
<1>2. CASE ReconsiderCommand(t, b)
  <2>1. b \in Known /\ ReconsiderBlock(b) /\ cs = None /\ Goto(t, "find")
    BY <1>2 DEF ReconsiderCommand, Idle, Activate
  <2>. QED  BY <1>1, <2>1
<1>3. CASE AcceptOnCheckpoint(t, b)
  <2>1. b # Genesis /\ idx[Prev[b]] # None /\ ReconsiderBlock(Prev[b]) /\ cs = None /\ Goto(t, "find")
    BY <1>3 DEF AcceptOnCheckpoint, Idle, Activate
  <2>2. Prev[b] \in Known
    BY <2>1, AncFacts DEF Known
  <2>. QED  BY <1>1, <2>1, <2>2
<1>. QED  BY <1>2, <1>3

\* AcceptBlock, and its two failures.
LEMMA AcceptWrites ==
  ASSUME IInv, NEW t \in Thread, NEW b \in Block
  PROVE  /\ AcceptBlock(t, b) => Written(b) /\ idx'[b].have /\ ~idx'[b].fv /\ ~idx'[b].fc
         /\ AcceptBadContext(t, b) => Written(b) /\ ~idx'[b].have /\ idx'[b].fv
         /\ AcceptWriteFails(t, b) => Written(b) /\ ~idx'[b].have /\ ~idx'[b].fv /\ ~idx'[b].fc
<1>. DEFINE e == Entry(b)
            h == [e EXCEPT !.have = TRUE]
            v == [e EXCEPT !.fv = TRUE]
<1>1. e \in Status /\ h \in Status /\ v \in Status
  BY EntryTypes DEF IInv
<1>2. /\ h.have /\ h.undo = e.undo /\ h.fv = e.fv /\ h.fc = e.fc
      /\ v.have = e.have /\ v.undo = e.undo /\ v.fv
  <2>1. e \in Status
    BY <1>1
  <2>. HIDE DEF e
  <2>. QED  BY <2>1 DEF Status
<1>3. /\ idx[b] # None => e = idx[b]
      /\ idx[b] = None => ~e.have /\ ~e.undo /\ ~e.fv /\ ~e.fc
  BY DEF Entry, Header
<1>4. idx \in [Block -> Status \cup {None}]
  BY DEF IInv, TypeOK
<1>5. \A x \in Status : x # None
  BY ChainStateAssumption
<1>6. ASSUME Acceptable(b), LacksData(b)
      PROVE  b # Genesis /\ ~HasData(b) /\ ~e.have /\ ~e.fv /\ ~e.fc /\ (idx[b] # None => ~Failed(b))
  BY <1>3, <1>6 DEF Acceptable, LacksData, HasData, Failed
<1>. HIDE DEF e, h, v
<1>7. ASSUME NEW x \in Status, idx' = [idx EXCEPT ![b] = x], x.undo = e.undo, Acceptable(b), LacksData(b)
      PROVE  Written(b) /\ idx'[b] = x
  <2>1. idx'[b] = x /\ \A a \in Block \ {b} : idx'[a] = idx[a]
    BY <1>4, <1>7
  <2>. QED  BY <1>3, <1>5, <1>6, <1>7, <2>1 DEF Written
<1>8. ASSUME AcceptBlock(t, b)
      PROVE  Written(b) /\ idx'[b].have /\ ~idx'[b].fv /\ ~idx'[b].fc
  <2>1. idx' = [idx EXCEPT ![b] = h] /\ Acceptable(b) /\ LacksData(b)
    BY <1>8 DEF AcceptBlock, h, e
  <2>2. Written(b) /\ idx'[b] = h
    BY <1>1, <1>2, <1>7, <2>1, Zenon
  <2>. QED  BY <1>2, <1>6, <2>1, <2>2
<1>9. ASSUME AcceptBadContext(t, b)
      PROVE  Written(b) /\ ~idx'[b].have /\ idx'[b].fv
  <2>1. idx' = [idx EXCEPT ![b] = v] /\ Acceptable(b) /\ LacksData(b)
    BY <1>9 DEF AcceptBadContext, v, e
  <2>2. Written(b) /\ idx'[b] = v
    BY <1>1, <1>2, <1>7, <2>1
  <2>. QED  BY <1>2, <1>6, <2>1, <2>2
<1>10. ASSUME AcceptWriteFails(t, b)
       PROVE  Written(b) /\ ~idx'[b].have /\ ~idx'[b].fv /\ ~idx'[b].fc
  <2>1. idx' = [idx EXCEPT ![b] = e] /\ Acceptable(b) /\ LacksData(b)
    BY <1>10 DEF AcceptWriteFails, e
  <2>2. Written(b) /\ idx'[b] = e
    BY <1>1, <1>7, <2>1, Zenon
  <2>. QED  BY <1>6, <2>1, <2>2
<1>. QED  BY <1>8, <1>9, <1>10

\* What a step of ActivateBestChain or InvalidateBlock sets.
LEMMA RunMarks ==
  ASSUME IInv, NEW t \in Thread, Run(t)
  PROVE  /\ UNCHANGED <<kind, linked, unlinked, seq>>
         /\ Find(t) => Marks({}, {}, MarkedChildren)
         /\ StepConnect(t) => Marks({NextBlock(t)}, {}, {})
         /\ StepRefused(t) => Marks({}, {NextBlock(t)}, {}) \/ idx' = idx
         /\ InvalidateTip(t) => Marks({}, {}, {tip})
         /\ \E U, F, C : Marks(U, F, C)
<1>1. UNCHANGED <<kind, linked, unlinked, seq>>
  BY DEF Run, Find, StepDisconnect, StepFails, StepConnect, StepRefused, WriteIndex, WriteCoins, NoFlush,
         Check, Periodic, InvalidateTip, InvalidateDone, tree
<1>2. ASSUME StepConnect(t)
      PROVE  Marks({NextBlock(t)}, {}, {})
  BY <1>2, NextBlockFacts, EntryMarked DEF StepConnect, IInv
<1>3. ASSUME StepRefused(t)
      PROVE  Marks({}, {NextBlock(t)}, {}) \/ idx' = idx
  BY <1>3, NextBlockFacts, EntryMarked DEF StepRefused, IInv
<1>4. ASSUME InvalidateTip(t)
      PROVE  Marks({}, {}, {tip})
  BY <1>4, EntryMarked DEF InvalidateTip, IInv, TypeOK
<1>5. \/ Find(t) \/ StepConnect(t) \/ StepRefused(t) \/ InvalidateTip(t) \/ idx' = idx
  BY Zenon DEF Run, StepDisconnect, StepFails, WriteIndex, WriteCoins, NoFlush, Check, Periodic, InvalidateDone, tree
<1>. QED  BY <1>1, <1>2, <1>3, <1>4, <1>5, FindMarks, NothingMarked

-----------------------------------------------------------------------------
(* The tree is consistent *)

\* Steps that give no block its data leave the links as they are.
SameData == \A a \in Block : HasData(a)' <=> HasData(a)

LEMMA TreeKept ==
  ASSUME TreeConsistent, KnownClosed', SameData, UNCHANGED <<linked, unlinked, seq>>
  PROVE  TreeConsistent'
<1>1. \A b \in Block : Anc[b] \subseteq Block
  BY AncFacts
<1>2. linked' = {b \in Block : \A a \in Anc[b] : HasData(a)'}
  BY <1>1 DEF TreeConsistent, SameData
<1>3. unlinked' = {b \in Block : HasData(b)'} \ linked'
  BY DEF TreeConsistent, SameData
<1>4. \A b \in Block \ linked' : seq'[b] = 0
  BY DEF TreeConsistent
<1>. QED  BY <1>2, <1>3, <1>4 DEF TreeConsistent, KnownClosed

LEMMA MarksData ==
  ASSUME NEW U, NEW F, NEW C, Marks(U, F, C) \/ Clears
  PROVE  SameData
BY DEF SameData, Marks, Clears, HasData

LEMMA WrittenData ==
  ASSUME NEW b \in Block, Written(b), ~idx'[b].have
  PROVE  SameData
BY DEF Written, SameData, HasData

\* The data of b arrives. The blocks that have now the data of their whole branch are the
\* ones ReceivedBlockTransactions links: b, and the blocks of mapBlocksUnlinked above it.
LEMMA LinkingExact ==
  ASSUME IInv, TreeConsistent, NEW b \in Block, Written(b), HasData(b)', Prev[b] \in linked
  PROVE  {d \in Block : \A a \in Anc[d] : HasData(a)'} = linked \cup Linking(b)
<1>1. b # Genesis /\ ~HasData(b) /\ \A a \in Block \ {b} : HasData(a)' <=> HasData(a)
  BY DEF Written, HasData
<1>2. Prev[b] \in Block /\ Anc[b] = {b} \cup Anc[Prev[b]]
  BY <1>1, AncFacts
<1>3. ASSUME NEW d \in Block, \A a \in Anc[d] : HasData(a)', d \notin linked
      PROVE  d \in Linking(b)
  <2>1. b \in Anc[d]
    BY <1>1, <1>3, AncFacts DEF TreeConsistent
  <2>2. ASSUME NEW a \in Anc[d] \ Anc[b]
        PROVE  a \in unlinked
    <3>1. a \in Block /\ b \in Anc[a] /\ a # b
      BY <2>1, AncFacts, Comparable
    <3>2. HasData(a)
      BY <1>1, <1>3, <3>1
    <3>3. a \notin linked
      BY <1>1, <3>1 DEF TreeConsistent
    <3>. QED  BY <3>1, <3>2, <3>3 DEF TreeConsistent
  <2>. QED  BY <2>1, <2>2 DEF Linking
<1>4. ASSUME NEW d \in linked
      PROVE  d \in Block /\ \A a \in Anc[d] : HasData(a)'
  <2>1. d \in Block /\ \A a \in Anc[d] : HasData(a)
    BY DEF TreeConsistent
  <2>. QED  BY <1>1, <2>1, AncFacts
<1>5. ASSUME NEW d \in Linking(b)
      PROVE  d \in Block /\ \A a \in Anc[d] : HasData(a)'
  <2>1. d \in Block /\ b \in Anc[d] /\ Anc[d] \ Anc[b] \subseteq unlinked
    BY DEF Linking
  <2>2. \A a \in unlinked : a \in Block /\ HasData(a)
    BY DEF TreeConsistent
  <2>3. \A a \in Anc[b] : HasData(a)'
    BY <1>2, <1>4
  <2>. QED  BY <1>1, <2>1, <2>2, <2>3
<1>. QED  BY <1>3, <1>4, <1>5

LEMMA AcceptBlockTree ==
  ASSUME IInv, IInv', TreeConsistent, NEW t \in Thread, NEW b \in Block, AcceptBlock(t, b)
  PROVE  TreeConsistent'
<1>. DEFINE full == {d \in Block : \A a \in Anc[d] : HasData(a)'}
<1>1. Written(b) /\ HasData(b)'
  BY AcceptWrites DEF Written, HasData
<1>2. b # Genesis /\ ~HasData(b) /\ \A a \in Block \ {b} : HasData(a)' <=> HasData(a)
  BY <1>1 DEF Written, HasData
<1>3. Prev[b] \in Block /\ Anc[b] = {b} \cup Anc[Prev[b]] /\ b \notin linked
  BY <1>2, AncFacts DEF TreeConsistent
<1>4. \A a \in Known' : Anc[a] \subseteq Known'
  BY DEF IInv, KnownClosed
<1>5. CASE Prev[b] \in linked
  <2>1. full = linked \cup Linking(b)
    BY <1>1, <1>5, LinkingExact
  <2>. HIDE DEF full
  <2>2. PICK f \in Numberings(b) : seq' = [d \in Block |-> IF d \in Linking(b) THEN f[d] ELSE seq[d]]
    BY <1>5 DEF AcceptBlock
  <2>3. linked' = linked \cup Linking(b) /\ unlinked' = unlinked \ Linking(b)
    BY <1>5 DEF AcceptBlock
  <2>4. \A d \in Block \ linked' : seq'[d] = 0
    BY <2>2, <2>3 DEF TreeConsistent
  <2>5. b \in Linking(b)
    BY AncFacts DEF Linking
  <2>6. unlinked' = {d \in Block : HasData(d)'} \ linked'
    <3>1. unlinked = {d \in Block : HasData(d)} \ linked
      BY DEF TreeConsistent
    <3>2. {d \in Block : HasData(d)'} = {d \in Block : HasData(d)} \cup {b}
      BY <1>1, <1>2
    <3>. QED  BY <2>3, <2>5, <3>1, <3>2
  <2>. QED  BY <1>4, <2>1, <2>3, <2>4, <2>6 DEF TreeConsistent, full
<1>6. CASE Prev[b] \notin linked
  <2>1. unlinked' = unlinked \cup {b} /\ UNCHANGED <<seq, linked>>
    BY <1>6 DEF AcceptBlock
  <2>2. PICK a \in Anc[Prev[b]] : ~HasData(a)
    BY <1>3, <1>6 DEF TreeConsistent
  <2>3. a # b /\ a \in Block /\ a \in Anc[b]
    <3>1. Work[Prev[b]] < Work[b] /\ Work[Prev[b]] \in Nat /\ Work[b] \in Nat
      BY <1>2, <1>3, PrevFacts, AncFacts
    <3>2. a = Prev[b] \/ Work[a] < Work[Prev[b]]
      BY <1>3, <2>2, AncFacts
    <3>3. a \in Block /\ Work[a] \in Nat
      BY <1>3, <2>2, AncFacts
    <3>. QED  BY <1>3, <2>2, <3>1, <3>2, <3>3
  <2>4. ~HasData(a)'
    BY <1>2, <2>2, <2>3
  <2>5. \A d \in Block : b \in Anc[d] => a \in Anc[d]
    BY <2>3, AncFacts
  <2>6. linked' = full
    <3>1. ASSUME NEW d \in full
          PROVE  d \in linked
      <4>1. b \notin Anc[d]
        BY <2>4, <2>5
      <4>2. \A c \in Anc[d] : HasData(c)
        BY <1>2, <4>1, AncFacts
      <4>. QED  BY <4>2 DEF TreeConsistent
    <3>2. ASSUME NEW d \in linked
          PROVE  d \in full
      <4>1. d \in Block /\ \A c \in Anc[d] : HasData(c)
        BY DEF TreeConsistent
      <4>. QED  BY <1>2, <4>1, AncFacts
    <3>. QED  BY <2>1, <3>1, <3>2
  <2>7. unlinked' = {d \in Block : HasData(d)'} \ linked'
    <3>1. unlinked = {d \in Block : HasData(d)} \ linked
      BY DEF TreeConsistent
    <3>2. {d \in Block : HasData(d)'} = {d \in Block : HasData(d)} \cup {b}
      BY <1>1, <1>2
    <3>. QED  BY <1>3, <2>1, <3>1, <3>2
  <2>8. \A d \in Block \ linked' : seq'[d] = 0
    BY <2>1 DEF TreeConsistent
  <2>. QED  BY <1>4, <2>6, <2>7, <2>8 DEF TreeConsistent
<1>. QED  BY <1>5, <1>6

LEMMA CrashTree ==
  ASSUME IInv', Crash
  PROVE  TreeConsistent'
<1>1. /\ idx' = disk /\ linked' = LoadedLinked /\ seq' = [d \in Block |-> 0]
      /\ unlinked' = {d \in Block : disk[d] # None /\ disk[d].have} \ LoadedLinked
  BY DEF Crash
<1>2. linked' = {d \in Block : \A a \in Anc[d] : HasData(a)'}
  BY <1>1 DEF LoadedLinked, HasData
<1>3. unlinked' = {d \in Block : HasData(d)'} \ linked'
  BY <1>1 DEF HasData
<1>4. \A d \in Block \ linked' : seq'[d] = 0
  BY <1>1
<1>. QED  BY <1>2, <1>3, <1>4 DEF TreeConsistent, IInv, KnownClosed

LEMMA TreeStep ==
  ASSUME IInv, IInv', TreeConsistent, [Next]_vars
  PROVE  TreeConsistent'
<1>0. KnownClosed' /\ TypeOK
  BY DEF IInv
<1>1. CASE Crash
  BY <1>1, CrashTree
<1>2. ASSUME UNCHANGED <<idx, linked, unlinked, seq>>
      PROVE  TreeConsistent'
  BY <1>0, <1>2, NothingMarked, MarksData, TreeKept
<1>3. ASSUME NEW t \in Thread, Run(t)
      PROVE  TreeConsistent'
  BY <1>0, <1>3, RunMarks, MarksData, TreeKept
<1>4. ASSUME NEW t \in Thread, NEW b \in Block, Arrive(t, b)
      PROVE  TreeConsistent'
  <2>1. CASE AcceptBlock(t, b)
    BY <2>1, AcceptBlockTree
  <2>2. CASE AcceptBadContext(t, b) \/ AcceptWriteFails(t, b)
    <3>1. Written(b) /\ ~idx'[b].have
      BY <2>2, AcceptWrites
    <3>2. UNCHANGED <<linked, unlinked, seq>>
      BY <2>2 DEF AcceptBadContext, AcceptWriteFails
    <3>. QED  BY <1>0, <3>1, <3>2, WrittenData, TreeKept
  <2>3. CASE ReconsiderCommand(t, b) \/ AcceptOnCheckpoint(t, b)
    BY <1>0, <2>3, ReconsiderSteps, MarksData, TreeKept
  <2>4. CASE InvalidateBlock(t, b)
    <3>1. b \in Known /\ idx' = [idx EXCEPT ![b].fv = TRUE] /\ UNCHANGED <<linked, unlinked, seq>>
      BY <2>4 DEF InvalidateBlock
    <3>. QED  BY <1>0, <3>1, EntryMarked, MarksData, TreeKept
  <2>5. CASE AcceptKnown(t, b) \/ AcceptRefused(t, b)
    BY <1>2, <2>5 DEF AcceptKnown, AcceptRefused, tree, vars
  <2>. QED  BY <1>4, <2>1, <2>2, <2>3, <2>4, <2>5 DEF Arrive
<1>5. CASE UNCHANGED vars
  BY <1>2, <1>5 DEF vars
<1>. QED  BY <1>1, <1>3, <1>4, <1>5 DEF Next

\* A node that has the genesis block and nothing else.
LEMMA InitFacts ==
  ASSUME Init
  PROVE  /\ Genesis \in Block /\ Anc[Genesis] = {Genesis}
         /\ tip = Genesis /\ coins = Genesis /\ coinsDisk = Genesis /\ disk = idx /\ dirty = {}
         /\ \A b \in Block : idx[b] # None <=> b = Genesis
         /\ HasData(Genesis) /\ ~idx[Genesis].undo /\ ~idx[Genesis].fv /\ ~idx[Genesis].fc
         /\ \A t \in Thread : pc[t] = "idle"
<1>. DEFINE g == [Header EXCEPT !.have = TRUE]
<1>1. Anc[Genesis] = {Genesis} /\ Genesis \in Block /\ None \notin Status
  BY ChainStateAssumption
<1>2. g \in Status /\ g.have /\ ~g.undo /\ ~g.fv /\ ~g.fc
  BY DEF Header, Status
<1>3. /\ idx[Genesis] = g /\ \A b \in Block : b # Genesis => idx[b] = None
      /\ tip = Genesis /\ coins = Genesis /\ coinsDisk = Genesis /\ disk = idx /\ dirty = {}
      /\ \A t \in Thread : pc[t] = "idle"
  BY <1>1 DEF Init
<1>. HIDE DEF g
<1>. QED  BY <1>1, <1>2, <1>3 DEF HasData

LEMMA InitTree == Init => TreeConsistent
<1>. SUFFICES ASSUME Init
              PROVE  TreeConsistent
  OBVIOUS
<1>1. /\ Known = {Genesis} /\ Anc[Genesis] = {Genesis} /\ Genesis \in Block
      /\ \A b \in Block : HasData(b) <=> b = Genesis
  BY InitFacts DEF HasData, Known
<1>2. \A b \in Block : (\A a \in Anc[b] : HasData(a)) <=> b = Genesis
  BY <1>1, AncFacts
<1>3. linked = {Genesis} /\ unlinked = {} /\ \A b \in Block \ {Genesis} : seq[b] = 0
  BY DEF Init
<1>. QED  BY <1>1, <1>2, <1>3 DEF TreeConsistent

-----------------------------------------------------------------------------
(* Theorems *)

\* Every step of the node, a crash included, keeps the invariant.
LEMMA Inductive == IInv /\ [Next]_vars => IInv'
<1>. SUFFICES ASSUME IInv, [Next]_vars
              PROVE  IInv'
  OBVIOUS
<1>1. CASE UNCHANGED vars
  BY <1>1, StutterKeeps
<1>2. CASE Crash
  BY <1>2, CrashKeeps
<1>3. ASSUME NEW t \in Thread, Run(t)
      PROVE  IInv'
  BY <1>3, FindKeeps, StepDisconnectKeeps, StepFailsKeeps, StepConnectKeeps, StepRefusedKeeps,
     WriteIndexKeeps, WriteCoinsKeeps, NoFlushKeeps, CheckKeeps, PeriodicKeeps,
     InvalidateTipKeeps, InvalidateDoneKeeps DEF Run
<1>4. ASSUME NEW t \in Thread, NEW b \in Block, Arrive(t, b)
      PROVE  IInv'
  <2>1. CASE AcceptRefused(t, b)
    BY <2>1, StutterKeeps, Zenon DEF AcceptRefused
  <2>. QED  BY <1>4, <2>1, AcceptBlockKeeps, AcceptKnownKeeps, AcceptBadContextKeeps,
               AcceptWriteFailsKeeps, AcceptOnCheckpointKeeps, InvalidateBlockKeeps,
               ReconsiderCommandKeeps DEF Arrive
<1>. QED  BY <1>1, <1>2, <1>3, <1>4 DEF Next

\* The inductive invariant holds in every state of the node.
THEOREM Invariance == Spec => []IInv
<1>1. Init => IInv
  BY InitIInv
<1>2. IInv /\ [Next]_vars => IInv'
  BY Inductive
<1>. QED  BY <1>1, <1>2, PTL DEF Spec

\* Every variable keeps its type: in particular the tip, the candidates and
\* setDirtyBlockIndex never name a block that is not in mapBlockIndex.
THEOREM TypeCorrect == Spec => []TypeOK
<1>1. IInv => TypeOK
  BY DEF IInv
<1>. QED  BY <1>1, Invariance, PTL

\* The assertion of FindMostWorkChain (main.cpp:2317): every candidate has the
\* data of its whole branch, whatever the order in which blocks arrive, are
\* invalidated, reconsidered or loaded again.
THEOREM CandidatesLinked == Spec => []CandidatesAreLinked
<1>1. IInv => CandidatesAreLinked
  BY DEF IInv
<1>. QED  BY <1>1, Invariance, PTL

\* FlushStateToDisk writes the index before the coins: at every moment, between
\* the two writes included, the index on disk holds every block below the coins'
\* best block with its data and undo data.
THEOREM CrashSafe == Spec => []DiskChainComplete
<1>1. IInv => DiskChainComplete
  BY DEF IInv
<1>. QED  BY <1>1, Invariance, PTL

\* CheckBlockIndex's assertions on nChainTx, mapBlocksUnlinked and nSequenceId hold at every
\* moment, in whatever order headers and data come, writes fail and the node crashes: the
\* walk of ReceivedBlockTransactions over mapBlocksUnlinked finds exactly the blocks it should.
THEOREM TreeAlwaysConsistent == Spec => []TreeConsistent
<1>1. Init => TreeConsistent
  BY InitTree
<1>2. IInv /\ IInv' /\ TreeConsistent /\ [Next]_vars => TreeConsistent'
  BY TreeStep
<1>. QED  BY <1>1, <1>2, Invariance, PTL DEF Spec
=============================================================================
