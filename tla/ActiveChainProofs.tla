------------------------- MODULE ActiveChainProofs -------------------------
(***************************************************************************)
(* More proofs about ChainState, over the invariant of ChainStateProofs:   *)
(* the active chain is valid whenever cs_main is free, and every failure   *)
(* mark has a cause.                                                       *)
(***************************************************************************)
EXTENDS ChainStateProofs

\* The places between an update of the coins and that of the tip.
Between == {"dIndex", "dCoins", "iIndex", "iCoins", "cIndex", "cCoins"}
Invalidating == {"inv", "iIndex", "iCoins"}
Activating == {"step", "dIndex", "dCoins", "cIndex", "cCoins"}

\* No failure mark on the branch of b: in memory, and on disk.
Clean(b) == \A a \in Anc[b] : ~Failed(a)
DiskClean(b) == \A a \in Anc[b] : disk[a] # None /\ ~disk[a].fv /\ ~disk[a].fc

-----------------------------------------------------------------------------
(* The active chain *)

\* Only ConnectBlock writes undo data.
UndoConnected == \A b \in Block : idx[b] # None /\ idx[b].undo => kind[b] \in {"ok", "corrupt"}

\* The coins on disk are those of a block of the active chain.
CoinsDiskBehind == coinsDisk \in Anc[tip]

CoinsAtTip == coins = tip \/ \E t \in Thread : pc[t] \in Between
TipBelowCoins == \A t \in Thread : pc[t] \in {"cIndex", "cCoins"} => tip \in Anc[coins]

\* InvalidateBlock writes its marks before the coins: a crash in between leaves a tip on
\* a failed branch.
NotBoth == count.inv = 0 \/ count.crash = 0

ThreadClean(t) ==
  /\ pc[t] \in Activating => Clean(loc[t].most)
  /\ pc[t] \in Invalidating => \A a \in Anc[tip] : Failed(a) => loc[t].most \in Anc[a]
ActiveClean ==
  NotBoth => /\ Clean(tip) \/ \E t \in Thread : pc[t] \in Invalidating
             /\ \A t \in Thread : ThreadClean(t)

\* A mark that is gone in memory is gone on disk, or will be with the next write.
ClearedSaved == \A b \in Known \ dirty : ~Failed(b) => ~disk[b].fv /\ ~disk[b].fc
DiskActiveClean ==
  count.inv = 0 =>
    /\ DiskClean(coinsDisk)
    /\ \A t \in Thread : /\ pc[t] \notin Invalidating
                         /\ pc[t] \in {"dCoins", "cCoins", "pCoins"} => DiskClean(coins)

AInv == /\ UndoConnected /\ CoinsDiskBehind /\ CoinsAtTip /\ TipBelowCoins
        /\ ActiveClean /\ ClearedSaved /\ DiskActiveClean

-----------------------------------------------------------------------------
(* The cause of a failure mark *)

NoReconsider == count.rec = 0 /\ Checkpointed = {}

Caused == \A b \in Known : Failed(b) => \E a \in Anc[b] : idx[a].fv
DiskCaused == \A b \in Block : disk[b] # None /\ (disk[b].fv \/ disk[b].fc) =>
                \E a \in Anc[b] : disk[a].fv
\* BLOCK_FAILED_VALID on disk and in memory.
FvSaved == \A b \in Known \ dirty : idx[b].fv => disk[b].fv
FvKept == \A b \in Block : disk[b] # None /\ disk[b].fv => idx[b].fv
Invalidated == \A t \in Thread : pc[t] \in Invalidating => loc[t].most \in Known /\ idx[loc[t].most].fv

CInv == NoReconsider => Caused /\ DiskCaused /\ FvSaved /\ FvKept /\ Invalidated

-----------------------------------------------------------------------------
(* The active chain: what the steps have in common *)

LEMMA CountStep ==
  ASSUME IInv, [Next]_vars
  PROVE  /\ count'.inv = 0 => count.inv = 0
         /\ count'.crash = 0 => count.crash = 0
         /\ count'.rec = 0 => count.rec = 0
         /\ Crash => count'.crash # 0 /\ count'.inv = count.inv
         /\ \A t \in Thread, b \in Block : InvalidateBlock(t, b) => count'.inv # 0
         /\ \A t \in Thread, b \in Block : ReconsiderCommand(t, b) => count'.rec # 0
<1>1. /\ count = [inv |-> count.inv, rec |-> count.rec, crash |-> count.crash, fail |-> count.fail]
      /\ count.inv \in Nat /\ count.rec \in Nat /\ count.crash \in Nat /\ count.fail \in Nat
  <2>1. count \in Bounds
    BY DEF IInv, TypeOK, Bounds
  <2>. QED  BY <2>1, BoundFacts DEF Bounds
<1>2. /\ Crash => count' = [count EXCEPT !.crash = count.crash + 1]
      /\ \A t \in Thread, b \in Block : InvalidateBlock(t, b) => count' = [count EXCEPT !.inv = count.inv + 1]
      /\ \A t \in Thread, b \in Block : ReconsiderCommand(t, b) => count' = [count EXCEPT !.rec = count.rec + 1]
      /\ \A t \in Thread, b \in Block : AcceptWriteFails(t, b) => count' = [count EXCEPT !.fail = count.fail + 1]
  BY DEF Crash, InvalidateBlock, ReconsiderCommand, AcceptWriteFails
<1>3. \/ count' = count
      \/ Crash
      \/ \E t \in Thread, b \in Block : InvalidateBlock(t, b) \/ ReconsiderCommand(t, b) \/ AcceptWriteFails(t, b)
  <2>1. ASSUME NEW t \in Thread, Run(t)
        PROVE  count' = count
    BY <2>1 DEF Run, Find, StepDisconnect, StepFails, StepConnect, StepRefused, WriteIndex, WriteCoins,
                NoFlush, Check, Periodic, InvalidateTip, InvalidateDone
  <2>2. ASSUME NEW t \in Thread, NEW b \in Block, Arrive(t, b)
        PROVE  \/ count' = count
               \/ InvalidateBlock(t, b) \/ ReconsiderCommand(t, b) \/ AcceptWriteFails(t, b)
    BY <2>2 DEF Arrive, AcceptRefused, AcceptBlock, AcceptKnown, AcceptBadContext, AcceptOnCheckpoint, vars
  <2>3. CASE UNCHANGED vars
    BY <2>3 DEF vars
  <2>. QED  BY <2>1, <2>2, <2>3 DEF Next
<1>. QED  BY <1>1, <1>2, <1>3

\* A thread at cs_main is the only one that relies on anything.
LEMMA Alone ==
  ASSUME IInv, NEW t \in Thread, cs \in {None, t}
  PROVE  /\ \A u \in Thread \ {t} : pc[u] \notin Critical
         /\ cs = None => pc[t] \notin Critical
BY ChainStateAssumption DEF IInv, ThreadsOk, ThreadOk

LEMMA AloneMoves ==
  ASSUME IInv, NEW t \in Thread, cs \in {None, t}, NEW p \in Place, Goto(t, p)
  PROVE  pc'[t] = p /\ \A u \in Thread \ {t} : pc'[u] \notin Critical
<1>1. pc' = [pc EXCEPT ![t] = p] /\ pc \in [Thread -> Place]
  BY DEF Goto, IInv, TypeOK, Place, Critical
<1>2. \A u \in Thread \ {t} : pc[u] \notin Critical
  BY Alone
<1>. QED  BY <1>1, <1>2

LEMMA SoloBefore ==
  ASSUME AInv, NEW t \in Thread, \A u \in Thread \ {t} : pc[u] \notin Critical
  PROVE  /\ coins = tip \/ pc[t] \in Between
         /\ NotBoth => (Clean(tip) \/ pc[t] \in Invalidating) /\ ThreadClean(t)
         /\ count.inv = 0 => /\ NotBoth /\ Clean(tip) /\ DiskClean(coinsDisk)
                             /\ pc[t] \notin Invalidating
                             /\ pc[t] \in {"dCoins", "cCoins", "pCoins"} => DiskClean(coins)
<1>1. Between \subseteq Critical /\ Invalidating \subseteq Critical
  BY DEF Between, Invalidating, Critical
<1>2. coins = tip \/ pc[t] \in Between
  BY <1>1 DEF AInv, CoinsAtTip
<1>3. NotBoth => (Clean(tip) \/ pc[t] \in Invalidating) /\ ThreadClean(t)
  BY <1>1 DEF AInv, ActiveClean
<1>4. count.inv = 0 => NotBoth
  BY DEF NotBoth
<1>. QED  BY <1>2, <1>3, <1>4 DEF AInv, DiskActiveClean

LEMMA SoloAfter ==
  ASSUME NEW t \in Thread, \A u \in Thread \ {t} : pc'[u] \notin Critical,
         UndoConnected', CoinsDiskBehind', ClearedSaved',
         coins' = tip' \/ pc'[t] \in Between,
         pc'[t] \in {"cIndex", "cCoins"} => tip' \in Anc[coins'],
         NotBoth' => (pc'[t] \notin Invalidating => Clean(tip)') /\ ThreadClean(t)',
         count'.inv = 0 => /\ DiskClean(coinsDisk)' /\ pc'[t] \notin Invalidating
                           /\ pc'[t] \in {"dCoins", "cCoins", "pCoins"} => DiskClean(coins)'
  PROVE  AInv'
<1>1. /\ Between \subseteq Critical /\ Invalidating \subseteq Critical /\ Activating \subseteq Critical
      /\ {"cIndex", "cCoins", "dCoins", "pCoins"} \subseteq Critical
  BY DEF Between, Invalidating, Activating, Critical
<1>2. CoinsAtTip' /\ TipBelowCoins'
  BY <1>1 DEF CoinsAtTip, TipBelowCoins
<1>3. ActiveClean'
  <2>1. \A u \in Thread \ {t} : ThreadClean(u)'
    BY <1>1 DEF ThreadClean
  <2>. QED  BY <2>1 DEF ActiveClean
<1>4. DiskActiveClean'
  BY <1>1 DEF DiskActiveClean
<1>. QED  BY <1>2, <1>3, <1>4 DEF AInv

\* Branches without marks, and marks elsewhere.
\* Only a step that connects writes undo data, and marks come and go through
\* setDirtyBlockIndex.
LEMMA IndexKept ==
  ASSUME AInv, kind' = kind, disk' = disk, dirty \subseteq dirty',
         \/ \E U, F, C : Marks(U, F, C) /\ \A a \in U : kind[a] \in {"ok", "corrupt"}
         \/ Clears
         \/ \E b \in Block : Written(b) /\ (idx[b] = None => b \in dirty')
  PROVE  UndoConnected' /\ ClearedSaved'
<1>0. UndoConnected /\ ClearedSaved
  BY DEF AInv
<1>1. ASSUME NEW U, NEW F, NEW C, Marks(U, F, C), \A a \in U : kind[a] \in {"ok", "corrupt"}
      PROVE  UndoConnected' /\ ClearedSaved'
  BY <1>0, <1>1 DEF UndoConnected, ClearedSaved, Marks, Known, Failed
<1>2. CASE Clears
  BY <1>0, <1>2 DEF UndoConnected, ClearedSaved, Clears, Known, Failed
<1>3. ASSUME NEW b \in Block, Written(b), idx[b] = None => b \in dirty'
      PROVE  UndoConnected' /\ ClearedSaved'
  BY <1>0, <1>3 DEF UndoConnected, ClearedSaved, Written, Known, Failed
<1>. QED  BY <1>1, <1>2, <1>3

\* Writing setDirtyBlockIndex brings the marks on disk up to date.
LEMMA SavedWritten ==
  ASSUME IInv, ClearedSaved, IndexWritten, idx' = idx
  PROVE  ClearedSaved' /\ \A b \in Known : Clean(b) => DiskClean(b)'
<1>1. /\ dirty' = {} /\ \A a \in Block : disk'[a] = IF a \in dirty THEN idx[a] ELSE disk[a]
      /\ Known' = Known
  BY DEF IndexWritten, Known
<1>2. \A a \in Known : a \in Block /\ idx[a] # None /\ (a \notin dirty => disk[a] # None)
  BY DEF IInv, CleanSaved, Known
<1>3. \A a \in Known : ~Failed(a) => disk'[a] # None /\ ~disk'[a].fv /\ ~disk'[a].fc
  BY <1>1, <1>2 DEF ClearedSaved, Failed
<1>4. ClearedSaved'
  BY <1>1, <1>3 DEF ClearedSaved, Failed
<1>5. ASSUME NEW b \in Known, Clean(b)
      PROVE  DiskClean(b)'
  <2>1. \A a \in Anc[b] : a \in Known
    BY DEF IInv, KnownClosed
  <2>. QED  BY <1>3, <1>5, <2>1 DEF Clean, DiskClean
<1>. QED  BY <1>4, <1>5

-----------------------------------------------------------------------------
(* The active chain: steps that find cs_main free *)

LEMMA FreeActive ==
  ASSUME IInv, AInv, [Next]_vars, NEW t \in Thread, cs = None,
         \A u \in Thread : pc'[u] \notin Critical,
         UNCHANGED <<tip, coins, disk, coinsDisk>>, UndoConnected', ClearedSaved',
         NotBoth' => Clean(tip)'
  PROVE  AInv'
<1>1. \A u \in Thread : pc[u] \notin Critical
  BY Alone
<1>2. /\ {"cIndex", "cCoins", "dCoins", "pCoins"} \subseteq Critical
      /\ Between \subseteq Critical /\ Invalidating \subseteq Critical /\ Activating \subseteq Critical
  BY DEF Between, Invalidating, Activating, Critical
<1>3. coins' = tip' /\ (count.inv = 0 => DiskClean(coinsDisk))
  BY <1>1, <1>2, SoloBefore
<1>4. count'.inv = 0 => DiskClean(coinsDisk)'
  BY <1>3, CountStep DEF DiskClean
<1>5. CoinsDiskBehind'
  BY DEF AInv, CoinsDiskBehind
<1>6. ThreadClean(t)' /\ pc'[t] \notin Critical
  BY <1>2 DEF ThreadClean
<1>. QED  BY <1>2, <1>3, <1>4, <1>5, <1>6, SoloAfter

\* What is known when cs_main is free.
LEMMA FreeFacts ==
  ASSUME IInv, AInv, cs = None, [Next]_vars, NEW t \in Thread
  PROVE  /\ \A u \in Thread : pc[u] \notin Critical
         /\ NotBoth => Clean(tip)
         /\ coins = tip /\ tip \in Block /\ tip \in Known /\ Built(tip)
         /\ (NotBoth' /\ ~Crash) => NotBoth
<1>1. \A u \in Thread : pc[u] \notin Critical
  BY Alone
<1>2. Between \subseteq Critical /\ Invalidating \subseteq Critical
  BY DEF Between, Invalidating, Critical
<1>3. coins = tip /\ (NotBoth => Clean(tip))
  BY <1>1, <1>2, SoloBefore
<1>4. tip \in Block /\ tip \in Known /\ Built(tip)
  BY DEF IInv, TypeOK, Known
<1>5. NotBoth' => NotBoth
  BY CountStep DEF NotBoth
<1>. QED  BY <1>1, <1>3, <1>4, <1>5

LEMMA AcceptActive ==
  ASSUME IInv, AInv, [Next]_vars, NEW t \in Thread, NEW b \in Block,
         AcceptBlock(t, b) \/ AcceptBadContext(t, b) \/ AcceptWriteFails(t, b)
  PROVE  AInv'
<1>1. Written(b)
  BY AcceptWrites
<1>2. /\ cs = None /\ kind' = kind /\ UNCHANGED <<tip, coins, disk, coinsDisk>>
      /\ dirty \subseteq dirty' /\ (idx[b] = None => b \in dirty')
  BY DEF AcceptBlock, AcceptBadContext, AcceptWriteFails, Idle
<1>3. \A u \in Thread : pc'[u] \notin Critical
  <2>1. CASE Goto(t, "find")
    BY <1>2, <2>1, AloneMoves DEF Place, Critical
  <2>2. CASE pc' = pc
    BY <1>2, <2>2, Alone
  <2>. QED  BY <2>1, <2>2 DEF AcceptBlock, AcceptBadContext, AcceptWriteFails, Activate, threads
<1>4. UndoConnected' /\ ClearedSaved'
  BY <1>1, <1>2, IndexKept
<1>5. NotBoth' => Clean(tip)'
  <2>1. Clean(tip) => \A a \in Anc[tip] : ~Failed(a)'
    <3>1. ASSUME NEW a \in Anc[tip], Clean(tip)
          PROVE  ~Failed(a)'
      <4>1. a \in Block /\ HasData(a) /\ ~Failed(a)
        BY <1>2, <3>1, FreeFacts, AncFacts DEF Built, Clean
      <4>2. idx'[a] = idx[a]
        BY <1>1, <4>1 DEF Written
      <4>. QED  BY <4>1, <4>2 DEF Failed
    <3>. QED  BY <3>1
  <2>2. NotBoth' => Clean(tip)
    BY <1>2, FreeFacts, CountStep DEF NotBoth
  <2>. QED  BY <1>2, <2>1, <2>2 DEF Clean
<1>. QED  BY <1>2, <1>3, <1>4, <1>5, FreeActive

LEMMA ReconsiderActive ==
  ASSUME IInv, AInv, [Next]_vars, NEW t \in Thread, NEW b \in Block,
         ReconsiderCommand(t, b) \/ AcceptOnCheckpoint(t, b)
  PROVE  AInv'
<1>1. /\ Clears /\ dirty \subseteq dirty' /\ cs = None /\ Goto(t, "find")
      /\ UNCHANGED <<kind, tip, coins, disk, coinsDisk>>
  BY ReconsiderSteps
<1>2. \A u \in Thread : pc'[u] \notin Critical
  BY <1>1, AloneMoves DEF Place, Critical
<1>3. UndoConnected' /\ ClearedSaved'
  BY <1>1, IndexKept
<1>4. NotBoth' => Clean(tip)'
  <2>1. NotBoth' => Clean(tip)
    BY <1>1, FreeFacts, CountStep DEF NotBoth
  <2>2. tip \in Known
    BY <1>1, FreeFacts
  <2>3. Clean(tip) => \A a \in Anc[tip] : ~Failed(a)'
    <3>1. \A a \in Anc[tip] : a \in Block /\ idx[a] # None
      BY <2>2 DEF IInv, KnownClosed, Known
    <3>. QED  BY <1>1, <3>1 DEF Clean, Clears, Failed
  <2>. QED  BY <1>1, <2>1, <2>3 DEF Clean
<1>. QED  BY <1>1, <1>2, <1>3, <1>4, FreeActive

LEMMA SameActive ==
  ASSUME IInv, AInv, [Next]_vars, NEW t \in Thread, cs = None,
         UNCHANGED <<kind, idx, dirty, tip, coins, disk, coinsDisk>>,
         \A u \in Thread : pc'[u] \notin Critical
  PROVE  AInv'
<1>1. Marks({}, {}, {})
  BY NothingMarked
<1>2. UndoConnected' /\ ClearedSaved'
  BY DEF AInv, UndoConnected, ClearedSaved, Known, Failed
<1>3. NotBoth' => Clean(tip)
  BY FreeFacts, CountStep DEF NotBoth
<1>4. Clean(tip)' <=> Clean(tip)
  BY DEF Clean, Failed
<1>. QED  BY <1>2, <1>3, <1>4, FreeActive

\* FindMostWorkChain returns a branch without marks, and the marks it sets are elsewhere.
LEMMA FindActive ==
  ASSUME IInv, AInv, [Next]_vars, NEW t \in Thread, Find(t)
  PROVE  AInv'
<1>1. /\ cs = None /\ kind' = kind /\ UNCHANGED <<dirty, tip, coins, disk, coinsDisk, count>>
  BY DEF Find
<1>2. Marks({}, {}, MarkedChildren)
  BY FindMarks
<1>3. /\ \A u \in Thread : pc[u] \notin Critical
      /\ NotBoth => Clean(tip)
      /\ coins = tip /\ tip \in Block /\ tip \in Known
  BY <1>1, FreeFacts
<1>4. cand \subseteq Block /\ cand \subseteq Known
  BY DEF IInv, TypeOK, Known
<1>5. /\ \A a \in MarkedChildren : a \notin Active
      /\ MostWork # None => /\ MostWork \in cand /\ Usable(MostWork)
                            /\ MarkedChildren \cap Anc[MostWork] = {}
  BY <1>3, <1>4, MarkedFacts
<1>6. UndoConnected' /\ ClearedSaved'
  BY <1>1, <1>2, IndexKept
<1>7. Clean(tip) => \A a \in Anc[tip] : ~Failed(a)'
  <2>1. \A a \in Anc[tip] : a \in Block /\ idx[a] # None /\ a \notin MarkedChildren
    BY <1>3, <1>5 DEF IInv, KnownClosed, Known, Active
  <2>. QED  BY <1>2, <2>1 DEF Clean, Marks, Failed
<1>8. NotBoth' => Clean(tip) /\ Clean(tip)'
  <2>1. NotBoth' <=> NotBoth
    BY <1>1 DEF NotBoth
  <2>. QED  BY <1>1, <1>3, <1>7, <2>1 DEF Clean
<1>9. CASE Return(t)
  <2>1. \A u \in Thread : pc'[u] \notin Critical
    BY <1>1, <1>9, AloneMoves DEF Return, Place, Critical
  <2>. QED  BY <1>1, <1>6, <1>8, <2>1, FreeActive
<1>10. CASE /\ MostWork \notin {None, tip} /\ Goto(t, "step")
            /\ loc' = [loc EXCEPT ![t].most = MostWork, ![t].old = tip]
  <2>1. pc'[t] = "step" /\ \A u \in Thread \ {t} : pc'[u] \notin Critical
    BY <1>1, <1>10, AloneMoves DEF Place, Critical
  <2>2. loc'[t].most = MostWork
    <3>1. loc[t] \in Locals /\ loc \in [Thread -> Locals]
      BY DEF IInv, TypeOK
    <3>. QED  BY <1>10, <3>1 DEF Locals
  <2>3. Clean(tip) => \A a \in Anc[MostWork] : ~Failed(a)'
    <3>1. MostWork \in Known /\ Usable(MostWork) /\ MarkedChildren \cap Anc[MostWork] = {}
      BY <1>4, <1>5, <1>10
    <3>2. \A a \in Anc[MostWork] : a \in Block /\ idx[a] # None /\ a \notin MarkedChildren
      BY <3>1 DEF IInv, KnownClosed, Known
    <3>3. Clean(tip) => \A a \in Anc[MostWork] : ~Failed(a)
      BY <3>1 DEF Usable, Path, Active, Clean
    <3>. QED  BY <1>2, <3>2, <3>3, Zenon DEF Marks, Failed
  <2>4. NotBoth' => ThreadClean(t)'
    BY <1>8, <2>1, <2>2, <2>3 DEF ThreadClean, Clean, Activating, Invalidating
  <2>5. /\ pc'[t] \notin Invalidating /\ pc'[t] \notin {"cIndex", "cCoins"}
        /\ pc'[t] \notin {"dCoins", "cCoins", "pCoins"}
    BY <2>1 DEF Invalidating
  <2>6. count'.inv = 0 => DiskClean(coinsDisk)'
    <3>1. count.inv = 0 => DiskClean(coinsDisk)
      BY <1>3, SoloBefore
    <3>. QED  BY <1>1, <3>1 DEF DiskClean
  <2>7. CoinsDiskBehind' /\ coins' = tip'
    BY <1>1, <1>3 DEF AInv, CoinsDiskBehind
  <2>. QED  BY <1>6, <1>8, <2>1, <2>4, <2>5, <2>6, <2>7, SoloAfter
<1>. QED  BY <1>9, <1>10 DEF Find

LEMMA InvalidateBlockActive ==
  ASSUME IInv, AInv, [Next]_vars, NEW t \in Thread, NEW b \in Block, InvalidateBlock(t, b)
  PROVE  AInv'
<1>1. /\ cs = None /\ kind' = kind /\ UNCHANGED <<tip, coins, disk, coinsDisk>> /\ b \in Known
      /\ dirty \subseteq dirty' /\ idx' = [idx EXCEPT ![b].fv = TRUE] /\ Goto(t, "inv")
      /\ loc' = [loc EXCEPT ![t].most = b]
  BY DEF InvalidateBlock, Idle
<1>2. Marks({}, {b}, {})
  BY <1>1, EntryMarked DEF IInv
<1>3. coins = tip /\ tip \in Known /\ (NotBoth' => Clean(tip))
  BY <1>1, FreeFacts, CountStep DEF NotBoth
<1>4. UndoConnected' /\ ClearedSaved'
  BY <1>1, <1>2, IndexKept
<1>5. pc'[t] = "inv" /\ \A u \in Thread \ {t} : pc'[u] \notin Critical
  BY <1>1, AloneMoves DEF Place, Critical
<1>6. loc'[t].most = b
  <2>1. loc[t] \in Locals /\ loc \in [Thread -> Locals]
    BY DEF IInv, TypeOK
  <2>. QED  BY <1>1, <2>1 DEF Locals
<1>7. Clean(tip) => \A a \in Anc[tip] : Failed(a)' => b \in Anc[a]
  <2>1. \A a \in Anc[tip] : a \in Block /\ idx[a] # None
    BY <1>3 DEF IInv, KnownClosed, Known
  <2>2. Clean(tip) => \A a \in Anc[tip] : Failed(a)' => a = b
    BY <1>2, <2>1 DEF Clean, Marks, Failed
  <2>. QED  BY <2>2, AncFacts
<1>8. NotBoth' => ThreadClean(t)'
  BY <1>1, <1>3, <1>5, <1>6, <1>7 DEF ThreadClean, Activating
<1>9. pc'[t] \in Invalidating /\ pc'[t] \notin {"cIndex", "cCoins"} /\ count'.inv # 0
  BY <1>5, CountStep DEF Invalidating
<1>10. CoinsDiskBehind' /\ coins' = tip'
  BY <1>1, <1>3 DEF AInv, CoinsDiskBehind
<1>. QED  BY <1>4, <1>5, <1>8, <1>9, <1>10, SoloAfter
-----------------------------------------------------------------------------
(* The active chain: steps of the thread that holds cs_main *)

LEMMA HolderFacts ==
  ASSUME IInv, AInv, NEW t \in Thread, pc[t] \in Critical
  PROVE  /\ cs = t /\ \A u \in Thread \ {t} : pc[u] \notin Critical
         /\ tip \in Block /\ tip \in Known /\ coins \in Block /\ coins \in Known
         /\ coins = tip \/ pc[t] \in Between
         /\ NotBoth => (Clean(tip) \/ pc[t] \in Invalidating) /\ ThreadClean(t)
         /\ count.inv = 0 => /\ NotBoth /\ Clean(tip) /\ DiskClean(coinsDisk)
                             /\ pc[t] \notin Invalidating
                             /\ pc[t] \in {"dCoins", "cCoins", "pCoins"} => DiskClean(coins)
<1>1. cs = t
  BY DEF IInv, ThreadsOk, ThreadOk
<1>2. \A u \in Thread \ {t} : pc[u] \notin Critical
  BY <1>1, Alone
<1>3. tip \in Block /\ tip \in Known
  BY DEF IInv, TypeOK, Known
<1>4. coins \in Block
  BY DEF IInv, TypeOK, Known
<1>5. coins \in Known
  BY <1>4, AncFacts DEF IInv, Built, HasData, Known
<1>. QED  BY <1>1, <1>2, <1>3, <1>4, <1>5, SoloBefore

\* A step that writes nothing to disk and leaves the tip.
LEMMA HolderActive ==
  ASSUME IInv, AInv, NEW t \in Thread, pc[t] \in Critical, NEW p \in Place, Goto(t, p),
         UNCHANGED <<tip, disk, coinsDisk, count>>,
         p \notin {"dCoins", "cCoins", "pCoins"},
         p \in Invalidating => pc[t] \in Invalidating,
         UndoConnected', ClearedSaved',
         coins' = tip \/ p \in Between,
         p \in {"cIndex", "cCoins"} => tip \in Anc[coins'],
         NotBoth => (p \notin Invalidating => Clean(tip)') /\ ThreadClean(t)'
  PROVE  AInv'
<1>1. pc'[t] = p /\ \A u \in Thread \ {t} : pc'[u] \notin Critical
  BY HolderFacts, AloneMoves
<1>2. CoinsDiskBehind'
  BY DEF AInv, CoinsDiskBehind
<1>3. NotBoth' <=> NotBoth
  BY DEF NotBoth
<1>4. count'.inv = 0 => DiskClean(coinsDisk)' /\ p \notin Invalidating
  <2>1. count.inv = 0 => DiskClean(coinsDisk) /\ pc[t] \notin Invalidating
    BY HolderFacts
  <2>. QED  BY <2>1 DEF DiskClean
<1>. QED  BY <1>1, <1>2, <1>3, <1>4, SoloAfter

LEMMA SameIndex ==
  ASSUME IInv, AInv, UNCHANGED <<kind, idx, dirty, disk>>
  PROVE  UndoConnected' /\ ClearedSaved' /\ \A b : Clean(b) => \A a \in Anc[b] : ~Failed(a)'
<1>1. UndoConnected' /\ ClearedSaved'
  BY DEF AInv, UndoConnected, ClearedSaved, Known, Failed
<1>2. \A b : Clean(b) => \A a \in Anc[b] : ~Failed(a)'
  BY DEF Clean, Failed
<1>. QED  BY <1>1, <1>2

LEMMA DisconnectActive ==
  ASSUME IInv, AInv, NEW t \in Thread, StepDisconnect(t) \/ StepFails(t)
  PROVE  AInv'
<1>1. /\ pc[t] = "step" /\ UNCHANGED <<kind, idx, dirty, disk, tip, coinsDisk, count>>
      /\ pc[t] \in Critical /\ pc[t] \notin Invalidating /\ pc[t] \notin Between /\ pc[t] \in Activating
  BY DEF StepDisconnect, StepFails, tree, Critical, Invalidating, Between, Activating
<1>2. coins = tip /\ (NotBoth => Clean(tip) /\ Clean(loc[t].most))
  BY <1>1, HolderFacts DEF ThreadClean
<1>3. NotBoth => Clean(tip)'
  BY <1>1, <1>2, SameIndex DEF Clean
<1>4. CASE StepDisconnect(t)
  <2>1. Goto(t, "dIndex") /\ loc' = loc
    BY <1>4 DEF StepDisconnect
  <2>2. pc'[t] = "dIndex"
    BY <1>1, <2>1, HolderFacts, AloneMoves DEF Place, Critical
  <2>3. NotBoth => Clean(loc[t].most)'
    BY <1>1, <1>2, <2>1, SameIndex DEF Clean
  <2>4. NotBoth => ThreadClean(t)'
    BY <2>2, <2>3 DEF ThreadClean, Invalidating
  <2>5. /\ "dIndex" \in Place /\ "dIndex" \in Between /\ "dIndex" \notin Invalidating
        /\ "dIndex" \notin {"dCoins", "cCoins", "pCoins"} /\ "dIndex" \notin {"cIndex", "cCoins"}
    BY DEF Place, Critical, Between, Invalidating
  <2>. QED  BY <1>1, <1>3, <2>1, <2>4, <2>5, SameIndex, HolderActive
<1>5. CASE StepFails(t)
  <2>1. Goto(t, "idle") /\ coins' = coins
    BY <1>5 DEF StepFails, Return
  <2>2. pc'[t] = "idle"
    BY <1>1, <2>1, HolderFacts, AloneMoves DEF Place, Critical
  <2>4. ThreadClean(t)'
    BY <2>2 DEF ThreadClean, Invalidating, Activating
  <2>5. /\ "idle" \in Place /\ "idle" \notin Invalidating
        /\ "idle" \notin {"dCoins", "cCoins", "pCoins"} /\ "idle" \notin {"cIndex", "cCoins"}
    BY DEF Place, Critical, Invalidating
  <2>. QED  BY <1>1, <1>2, <1>3, <2>1, <2>4, <2>5, SameIndex, HolderActive
<1>. QED  BY <1>4, <1>5

\* The block to connect is above the tip and below pindexMostWork.
LEMMA ConnectingFacts ==
  ASSUME IInv, AInv, NEW t \in Thread, Connecting(t)
  PROVE  /\ pc[t] = "step" /\ pc[t] \in Critical /\ coins = tip
         /\ NextBlock(t) \in Known /\ NextBlock(t) \in Block /\ loc[t].most \in Known
         /\ NextBlock(t) \notin Anc[tip] /\ tip \in Anc[NextBlock(t)] /\ tip \in Known
         /\ NextBlock(t) \in Anc[loc[t].most]
         /\ NotBoth => Clean(tip) /\ Clean(loc[t].most)
<1>1. /\ pc[t] = "step" /\ pc[t] \in Critical /\ pc[t] \notin Invalidating /\ pc[t] \notin Between
      /\ pc[t] \in Activating
  BY DEF Connecting, Critical, Invalidating, Between, Activating
<1>2. coins = tip /\ tip \in Known /\ tip \in Block /\ (NotBoth => Clean(tip) /\ Clean(loc[t].most))
  BY <1>1, HolderFacts DEF ThreadClean
<1>3. /\ NextBlock(t) \in Known /\ NextBlock(t) \in Block /\ NextBlock(t) # Genesis
      /\ Anc[NextBlock(t)] = {NextBlock(t)} \cup Anc[tip] /\ NextBlock(t) \in Anc[loc[t].most]
      /\ loc[t].most \in linked /\ loc[t].most \in Block
  BY NextBlockFacts
<1>4. tip \in Anc[NextBlock(t)]
  BY <1>2, <1>3, AncFacts
<1>5. NextBlock(t) \notin Anc[tip]
  <2>1. Prev[NextBlock(t)] = tip
    BY NextBlockFacts
  <2>2. Work[tip] < Work[NextBlock(t)]
    BY <1>3, <2>1, PrevFacts
  <2>3. \A a \in Anc[tip] : Work[a] <= Work[tip]
    BY <1>2, AncFacts
  <2>. QED  BY <1>2, <1>3, <2>2, <2>3, AncFacts
<1>6. loc[t].most \in Known
  BY <1>3, AncFacts DEF IInv, LinkedHasData, HasData, Known
<1>. QED  BY <1>1, <1>2, <1>3, <1>4, <1>5, <1>6

LEMMA ConnectActive ==
  ASSUME IInv, AInv, NEW t \in Thread, StepConnect(t)
  PROVE  AInv'
<1>. DEFINE n == NextBlock(t)
<1>1. /\ Connecting(t) /\ kind[n] \in {"ok", "corrupt"} /\ coins' = n /\ kind' = kind
      /\ idx' = [idx EXCEPT ![n].undo = TRUE] /\ dirty \subseteq dirty' /\ Goto(t, "cIndex")
      /\ UNCHANGED <<tip, disk, coinsDisk, loc, count>>
  BY DEF StepConnect
<1>2. /\ pc[t] = "step" /\ pc[t] \in Critical /\ n \in Known /\ tip \in Anc[n]
      /\ tip \in Known /\ loc[t].most \in Known /\ (NotBoth => Clean(tip) /\ Clean(loc[t].most))
  BY <1>1, ConnectingFacts
<1>. HIDE DEF n
<1>3. Marks({n}, {}, {})
  BY <1>1, <1>2, EntryMarked, Zenon DEF IInv
<1>4. UndoConnected' /\ ClearedSaved'
  BY <1>1, <1>3, IndexKept
<1>5. \A b \in Known : Clean(b) => \A a \in Anc[b] : ~Failed(a)'
  <2>1. \A b \in Known : \A a \in Anc[b] : a \in Block /\ idx[a] # None
    BY DEF IInv, KnownClosed, Known
  <2>. QED  BY <1>3, <2>1 DEF Clean, Marks, Failed
<1>6. NotBoth => Clean(tip)' /\ Clean(loc[t].most)'
  BY <1>1, <1>2, <1>5 DEF Clean
<1>7. pc'[t] = "cIndex"
  BY <1>1, <1>2, HolderFacts, AloneMoves DEF Place, Critical
<1>8. NotBoth => ThreadClean(t)'
  BY <1>6, <1>7 DEF ThreadClean, Invalidating
<1>9. /\ "cIndex" \in Place /\ "cIndex" \in Between /\ "cIndex" \notin Invalidating
      /\ "cIndex" \notin {"dCoins", "cCoins", "pCoins"}
  BY DEF Place, Critical, Between, Invalidating
<1>. QED  BY <1>1, <1>2, <1>4, <1>6, <1>8, <1>9, HolderActive

\* InvalidBlockFound marks a block above the tip.
LEMMA RefusedActive ==
  ASSUME IInv, AInv, NEW t \in Thread, StepRefused(t)
  PROVE  AInv'
<1>. DEFINE n == NextBlock(t)
<1>1. /\ Connecting(t) /\ kind' = kind /\ dirty \subseteq dirty' /\ Goto(t, "check")
      /\ UNCHANGED <<tip, coins, disk, coinsDisk, loc, count>>
      /\ idx' = [idx EXCEPT ![n].fv = TRUE] \/ idx' = idx
  BY DEF StepRefused
<1>2. /\ pc[t] = "step" /\ pc[t] \in Critical /\ n \in Known /\ n \notin Anc[tip] /\ coins = tip
      /\ tip \in Known /\ (NotBoth => Clean(tip))
  BY <1>1, ConnectingFacts
<1>. HIDE DEF n
<1>3. Marks({}, {n}, {}) \/ Marks({}, {}, {})
  BY <1>1, <1>2, EntryMarked, NothingMarked DEF IInv
<1>4. UndoConnected' /\ ClearedSaved'
  BY <1>1, <1>3, IndexKept
<1>5. Clean(tip) => \A a \in Anc[tip] : ~Failed(a)'
  <2>1. \A a \in Anc[tip] : a \in Block /\ idx[a] # None /\ a # n
    BY <1>2 DEF IInv, KnownClosed, Known
  <2>. QED  BY <1>3, <2>1 DEF Clean, Marks, Failed
<1>6. NotBoth => Clean(tip)'
  BY <1>1, <1>2, <1>5 DEF Clean
<1>7. pc'[t] = "check"
  BY <1>1, <1>2, HolderFacts, AloneMoves DEF Place, Critical
<1>8. ThreadClean(t)'
  BY <1>7 DEF ThreadClean, Invalidating, Activating
<1>9. /\ "check" \in Place /\ "check" \notin Invalidating
      /\ "check" \notin {"dCoins", "cCoins", "pCoins"} /\ "check" \notin {"cIndex", "cCoins"}
  BY DEF Place, Critical, Invalidating
<1>. QED  BY <1>1, <1>2, <1>4, <1>6, <1>8, <1>9, HolderActive

LEMMA InvalidateTipActive ==
  ASSUME IInv, AInv, NEW t \in Thread, InvalidateTip(t)
  PROVE  AInv'
<1>1. /\ pc[t] = "inv" /\ loc[t].most \in Anc[tip] /\ kind' = kind /\ dirty \subseteq dirty'
      /\ idx' = [idx EXCEPT ![tip].fc = TRUE] /\ Goto(t, "iIndex")
      /\ UNCHANGED <<tip, disk, coinsDisk, loc, count>>
  BY DEF InvalidateTip, Active
<1>2. /\ pc[t] \in Critical /\ pc[t] \in Invalidating
      /\ "iIndex" \in Place /\ "iIndex" \in Between /\ "iIndex" \in Invalidating
      /\ "iIndex" \notin {"dCoins", "cCoins", "pCoins"} /\ "iIndex" \notin {"cIndex", "cCoins"}
      /\ "iIndex" \notin Activating
  BY <1>1 DEF Place, Critical, Between, Invalidating, Activating
<1>3. tip \in Known /\ tip \in Block /\ (NotBoth => ThreadClean(t))
  BY <1>2, HolderFacts
<1>4. Marks({}, {}, {tip})
  BY <1>1, <1>3, EntryMarked, Zenon DEF IInv
<1>5. UndoConnected' /\ ClearedSaved'
  BY <1>1, <1>4, IndexKept
<1>6. NotBoth => \A a \in Anc[tip] : Failed(a) => loc[t].most \in Anc[a]
  BY <1>2, <1>3 DEF ThreadClean
<1>7. NotBoth => \A a \in Anc[tip] : Failed(a)' => loc[t].most \in Anc[a]
  <2>1. \A a \in Anc[tip] : a \in Block /\ idx[a] # None
    BY <1>3 DEF IInv, KnownClosed, Known
  <2>2. \A a \in Anc[tip] : Failed(a)' => Failed(a) \/ a = tip
    BY <1>4, <2>1 DEF Marks, Failed
  <2>. QED  BY <1>1, <1>6, <2>2
<1>8. pc'[t] = "iIndex"
  BY <1>1, <1>2, HolderFacts, AloneMoves
<1>9. NotBoth => ThreadClean(t)'
  BY <1>1, <1>2, <1>7, <1>8 DEF ThreadClean
<1>. QED  BY <1>1, <1>2, <1>5, <1>9, HolderActive

LEMMA InvalidateDoneActive ==
  ASSUME IInv, AInv, NEW t \in Thread, InvalidateDone(t)
  PROVE  AInv'
<1>1. /\ pc[t] = "inv" /\ loc[t].most \notin Anc[tip] /\ Goto(t, "find")
      /\ UNCHANGED <<kind, idx, dirty, tip, coins, disk, coinsDisk, count>>
  BY DEF InvalidateDone, Active, Activate, tree
<1>2. /\ pc[t] \in Critical /\ pc[t] \in Invalidating /\ pc[t] \notin Between
      /\ "find" \in Place /\ "find" \notin Invalidating /\ "find" \notin Activating
      /\ "find" \notin {"dCoins", "cCoins", "pCoins"} /\ "find" \notin {"cIndex", "cCoins"}
  BY <1>1 DEF Place, Critical, Between, Invalidating, Activating
<1>3. tip \in Block /\ coins = tip /\ (NotBoth => ThreadClean(t))
  BY <1>2, HolderFacts
<1>4. NotBoth => Clean(tip)
  <2>1. \A a \in Anc[tip] : Anc[a] \subseteq Anc[tip]
    BY <1>3, AncFacts
  <2>. QED  BY <1>1, <1>2, <1>3, <2>1 DEF ThreadClean, Clean
<1>5. NotBoth => Clean(tip)'
  BY <1>1, <1>4, SameIndex DEF Clean
<1>6. pc'[t] = "find"
  BY <1>1, <1>2, HolderFacts, AloneMoves
<1>7. ThreadClean(t)'
  BY <1>2, <1>6 DEF ThreadClean
<1>. QED  BY <1>1, <1>2, <1>3, <1>5, <1>7, SameIndex, HolderActive
-----------------------------------------------------------------------------
(* The active chain: FlushStateToDisk, the loop's condition, a crash *)

\* The branches the coins move along, and what is known of them.
LEMMA CoinsClean ==
  ASSUME IInv, AInv, NEW t \in Thread, pc[t] \in Critical, pc[t] \notin Invalidating, NotBoth
  PROVE  Clean(tip) /\ Clean(coins)
<1>1. Clean(tip) /\ ThreadClean(t) /\ (coins = tip \/ pc[t] \in Between)
  BY HolderFacts
<1>2. ThreadOk(t) /\ tip \in Block
  BY DEF IInv, ThreadsOk, TypeOK, Known
<1>3. CASE coins = tip
  BY <1>1, <1>3
<1>4. CASE pc[t] \in {"dIndex", "dCoins"}
  <2>1. Prev[tip] \in Anc[tip] /\ coins = Prev[tip]
    BY <1>2, <1>4, PrevFacts DEF ThreadOk
  <2>. QED  BY <1>1, <1>2, <2>1, AncFacts, Zenon DEF Clean
<1>5. CASE pc[t] \in {"cIndex", "cCoins"}
  <2>1. coins \in Anc[loc[t].most] /\ Clean(loc[t].most) /\ loc[t].most \in linked
    BY <1>1, <1>2, <1>5 DEF ThreadOk, ThreadClean, Activating
  <2>2. loc[t].most \in Block
    BY <2>1 DEF IInv, TypeOK, Known
  <2>. QED  BY <1>1, <2>1, <2>2, AncFacts DEF Clean
<1>. QED  BY <1>1, <1>3, <1>4, <1>5 DEF Between, Invalidating

LEMMA WriteIndexActive ==
  ASSUME IInv, AInv, NEW t \in Thread, WriteIndex(t)
  PROVE  AInv'
<1>1. /\ pc[t] \in {"dIndex", "cIndex", "iIndex"} /\ IndexWritten
      /\ UNCHANGED <<kind, idx, tip, coins, coinsDisk, loc, count>>
  BY DEF WriteIndex, tree
<1>2. PICK p \in {"dCoins", "cCoins", "iCoins"} :
        /\ Goto(t, p) /\ (p = "dCoins" <=> pc[t] = "dIndex")
        /\ (p = "cCoins" <=> pc[t] = "cIndex") /\ (p = "iCoins" <=> pc[t] = "iIndex")
  BY DEF WriteIndex
<1>3. /\ pc[t] \in Critical /\ p \in Place /\ p \in Between
      /\ p \in Invalidating <=> pc[t] \in Invalidating
      /\ p \in Activating <=> pc[t] \in Activating
      /\ p \in {"cIndex", "cCoins"} => pc[t] = "cIndex"
  BY <1>1, <1>2 DEF Critical, Place, Between, Invalidating, Activating
<1>4. pc'[t] = p /\ \A u \in Thread \ {t} : pc'[u] \notin Critical
  BY <1>2, <1>3, HolderFacts, AloneMoves
<1>5. ClearedSaved' /\ \A b \in Known : Clean(b) => DiskClean(b)'
  BY <1>1, SavedWritten DEF AInv
<1>6. UndoConnected' /\ CoinsDiskBehind'
  BY <1>1 DEF AInv, UndoConnected, CoinsDiskBehind
<1>7. p \in {"cIndex", "cCoins"} => tip' \in Anc[coins']
  BY <1>1, <1>3 DEF AInv, TipBelowCoins
<1>8. NotBoth' => (p \notin Invalidating => Clean(tip)') /\ ThreadClean(t)'
  <2>1. NotBoth' <=> NotBoth
    BY <1>1 DEF NotBoth
  <2>2. NotBoth => (p \notin Invalidating => Clean(tip)) /\ ThreadClean(t)
    BY <1>3, HolderFacts
  <2>3. Clean(tip) => Clean(tip)'
    BY <1>1 DEF Clean, Failed
  <2>4. ThreadClean(t) => ThreadClean(t)'
    BY <1>1, <1>3, <1>4 DEF ThreadClean, Clean, Failed
  <2>. QED  BY <2>1, <2>2, <2>3, <2>4
<1>9. count'.inv = 0 => DiskClean(coinsDisk)' /\ p \notin Invalidating /\ DiskClean(coins)'
  <2>1. count.inv = 0 => p \notin Invalidating /\ Clean(tip) /\ Clean(coins)
    BY <1>3, HolderFacts, CoinsClean
  <2>2. tip \in Block /\ coinsDisk \in Anc[tip] /\ tip \in Known /\ coins \in Known
    BY <1>3, HolderFacts DEF AInv, CoinsDiskBehind
  <2>3. coinsDisk \in Known /\ (Clean(tip) => Clean(coinsDisk))
    BY <2>2, AncFacts DEF IInv, KnownClosed, Clean
  <2>4. \A b \in Known : Clean(b) => \A a \in Anc[b] : disk'[a] # None /\ ~disk'[a].fv /\ ~disk'[a].fc
    BY <1>5 DEF DiskClean
  <2>. QED  BY <1>1, <2>1, <2>2, <2>3, <2>4 DEF DiskClean
<1>. QED  BY <1>3, <1>4, <1>5, <1>6, <1>7, <1>8, <1>9, SoloAfter, Zenon

\* UpdateTip: the tip moves to the coins.
LEMMA TipMoves ==
  ASSUME IInv, AInv, NEW t \in Thread, pc[t] \in {"dCoins", "cIndex", "cCoins"},
         NEW p \in {"step", "check"}, Goto(t, p), tip' = coins, coins' = coins, loc' = loc,
         UNCHANGED <<kind, idx, dirty, disk, count>>, CoinsDiskBehind',
         count.inv = 0 => DiskClean(coinsDisk)'
  PROVE  AInv'
<1>1. /\ pc[t] \in Critical /\ pc[t] \notin Invalidating /\ p \in Place /\ pc[t] \in Activating
      /\ p \notin Invalidating /\ p \notin {"cIndex", "cCoins"} /\ p \notin {"dCoins", "cCoins", "pCoins"}
  BY DEF Critical, Place, Invalidating, Activating
<1>2. pc'[t] = p /\ \A u \in Thread \ {t} : pc'[u] \notin Critical
  BY <1>1, HolderFacts, AloneMoves
<1>3. NotBoth => Clean(coins) /\ Clean(loc[t].most)
  BY <1>1, CoinsClean, HolderFacts DEF ThreadClean
<1>4. NotBoth => Clean(tip)' /\ Clean(loc[t].most)'
  BY <1>3, SameIndex DEF Clean
<1>5. NotBoth => ThreadClean(t)'
  BY <1>1, <1>2, <1>4, Zenon DEF ThreadClean
<1>6. NotBoth' <=> NotBoth
  BY DEF NotBoth
<1>. QED  BY <1>1, <1>2, <1>4, <1>5, <1>6, SameIndex, SoloAfter, Zenon

LEMMA WriteCoinsActive ==
  ASSUME IInv, AInv, NEW t \in Thread, WriteCoins(t)
  PROVE  AInv'
<1>1. /\ coinsDisk' = coins /\ coins' = coins /\ UNCHANGED <<kind, idx, dirty, disk, count>>
      /\ pc[t] \in {"dCoins", "iCoins", "cCoins", "pCoins"} /\ pc[t] \in Critical
  BY DEF WriteCoins, tree, Critical
<1>2. tip \in Block /\ coins \in Block
  BY <1>1, HolderFacts
<1>3. pc[t] # "iCoins" => (count.inv = 0 => DiskClean(coinsDisk)')
  <2>1. pc[t] # "iCoins" => (count.inv = 0 => DiskClean(coins))
    BY <1>1, HolderFacts
  <2>. QED  BY <1>1, <2>1 DEF DiskClean
<1>4. CASE pc[t] \in {"dCoins", "cCoins"}
  <2>1. PICK p \in {"step", "check"} : Goto(t, p) /\ tip' = coins /\ loc' = loc
    BY <1>4 DEF WriteCoins, Connected
  <2>2. CoinsDiskBehind'
    BY <1>1, <1>2, <2>1, AncFacts DEF CoinsDiskBehind
  <2>. QED  BY <1>1, <1>3, <1>4, <2>1, <2>2, TipMoves
<1>5. CASE pc[t] = "iCoins"
  <2>1. tip' = coins /\ Goto(t, "inv") /\ loc' = loc
    BY <1>5 DEF WriteCoins
  <2>2. pc[t] \in Invalidating /\ "inv" \in Place /\ "inv" \in Invalidating
        /\ "inv" \notin {"cIndex", "cCoins"} /\ "inv" \notin Activating
    BY <1>5 DEF Invalidating, Activating, Place, Critical
  <2>3. pc'[t] = "inv" /\ \A u \in Thread \ {t} : pc'[u] \notin Critical
    BY <1>1, <2>1, <2>2, HolderFacts, AloneMoves
  <2>4. coins \in Anc[tip] /\ Anc[coins] \subseteq Anc[tip]
    <3>1. tip # Genesis /\ coins = Prev[tip]
      BY <1>5 DEF IInv, ThreadsOk, ThreadOk
    <3>2. Prev[tip] \in Anc[tip]
      BY <1>2, <3>1, PrevFacts
    <3>. QED  BY <1>2, <3>1, <3>2, AncFacts
  <2>5. NotBoth => \A a \in Anc[tip] : Failed(a) => loc[t].most \in Anc[a]
    BY <1>1, <2>2, HolderFacts DEF ThreadClean
  <2>6. NotBoth => ThreadClean(t)'
    BY <1>1, <2>1, <2>2, <2>3, <2>4, <2>5 DEF ThreadClean, Failed
  <2>7. count'.inv # 0 /\ (NotBoth' <=> NotBoth)
    BY <1>1, <2>2, HolderFacts DEF NotBoth
  <2>8. CoinsDiskBehind' /\ coins' = tip'
    BY <1>1, <1>2, <2>1, AncFacts DEF CoinsDiskBehind
  <2>. QED  BY <1>1, <2>2, <2>3, <2>6, <2>7, <2>8, SameIndex, SoloAfter
<1>6. CASE pc[t] = "pCoins"
  <2>1. tip' = tip /\ Goto(t, "idle")
    BY <1>6 DEF WriteCoins, Return
  <2>2. /\ pc[t] \notin Between /\ pc[t] \notin Invalidating /\ "idle" \in Place
        /\ "idle" \notin Invalidating /\ "idle" \notin Activating
        /\ "idle" \notin {"cIndex", "cCoins"} /\ "idle" \notin {"dCoins", "cCoins", "pCoins"}
    BY <1>6 DEF Between, Invalidating, Activating, Place, Critical
  <2>3. pc'[t] = "idle" /\ \A u \in Thread \ {t} : pc'[u] \notin Critical
    BY <1>1, <2>1, <2>2, HolderFacts, AloneMoves
  <2>4. coins = tip /\ (NotBoth => Clean(tip))
    BY <1>1, <2>2, HolderFacts
  <2>5. NotBoth' => Clean(tip)'
    BY <1>1, <2>1, <2>4 DEF NotBoth, Clean, Failed
  <2>6. ThreadClean(t)'
    BY <2>2, <2>3 DEF ThreadClean
  <2>7. CoinsDiskBehind' /\ coins' = tip'
    BY <1>1, <1>2, <2>1, <2>4, AncFacts DEF CoinsDiskBehind
  <2>. QED  BY <1>1, <1>3, <1>6, <2>2, <2>3, <2>5, <2>6, <2>7, SameIndex, SoloAfter, Zenon
<1>. QED  BY <1>1, <1>4, <1>5, <1>6

LEMMA NoFlushActive ==
  ASSUME IInv, AInv, NEW t \in Thread, NoFlush(t)
  PROVE  AInv'
<1>1. /\ pc[t] = "cIndex" /\ tip' = coins /\ coins' = coins /\ loc' = loc
      /\ UNCHANGED <<kind, idx, dirty, disk, coinsDisk, count>>
  BY DEF NoFlush, Connected, tree
<1>2. PICK p \in {"step", "check"} : Goto(t, p)
  BY DEF NoFlush, Connected
<1>3. pc[t] \in Critical
  BY <1>1 DEF Critical
<1>4. CoinsDiskBehind'
  <2>1. coinsDisk \in Anc[tip] /\ tip \in Anc[coins] /\ coins \in Block
    BY <1>1, <1>3, HolderFacts DEF AInv, CoinsDiskBehind, TipBelowCoins
  <2>. QED  BY <1>1, <2>1, AncFacts DEF CoinsDiskBehind
<1>5. count.inv = 0 => DiskClean(coinsDisk)'
  <2>1. count.inv = 0 => DiskClean(coinsDisk)
    BY <1>3, HolderFacts
  <2>. QED  BY <1>1, <2>1, Zenon DEF DiskClean
<1>. QED  BY <1>1, <1>2, <1>4, <1>5, TipMoves

\* A thread outside cs_main moves and relies on nothing.
LEMMA OutsideActive ==
  ASSUME IInv, AInv, NEW t \in Thread, pc[t] \notin Critical, NEW p \in Place, p \notin Critical,
         Goto(t, p), \A u \in Thread \ {t} : loc'[u] = loc[u],
         UNCHANGED <<kind, idx, dirty, tip, coins, disk, coinsDisk, count>>
  PROVE  AInv'
<1>1. /\ Between \subseteq Critical /\ Invalidating \subseteq Critical /\ Activating \subseteq Critical
      /\ {"cIndex", "cCoins", "dCoins", "pCoins"} \subseteq Critical
  BY DEF Between, Invalidating, Activating, Critical
<1>2. pc'[t] = p /\ \A u \in Thread \ {t} : pc'[u] = pc[u]
  BY DEF Goto, IInv, TypeOK, Place, Critical
<1>3. CoinsAtTip' /\ TipBelowCoins'
  BY <1>1, <1>2 DEF AInv, CoinsAtTip, TipBelowCoins
<1>4. \A u \in Thread : ThreadClean(u) => ThreadClean(u)'
  <2>1. ASSUME NEW u \in Thread \ {t}, ThreadClean(u)
        PROVE  ThreadClean(u)'
    BY <1>2, <2>1 DEF ThreadClean, Clean, Failed
  <2>2. ThreadClean(t)'
    BY <1>1, <1>2 DEF ThreadClean
  <2>. QED  BY <2>1, <2>2, Zenon
<1>5. ActiveClean'
  <2>1. (NotBoth' <=> NotBoth) /\ (Clean(tip) => Clean(tip)')
    BY DEF NotBoth, Clean, Failed
  <2>2. \A u \in Thread : pc[u] \in Invalidating => pc'[u] \in Invalidating
    BY <1>1, <1>2
  <2>. QED  BY <1>4, <2>1, <2>2 DEF AInv, ActiveClean
<1>6. DiskActiveClean'
  <2>1. \A u \in Thread : pc'[u] \in Critical => pc'[u] = pc[u]
    BY <1>2
  <2>. QED  BY <1>1, <2>1 DEF AInv, DiskActiveClean, DiskClean
<1>7. CoinsDiskBehind'
  BY DEF AInv, CoinsDiskBehind
<1>. QED  BY <1>3, <1>5, <1>6, <1>7, SameIndex DEF AInv

LEMMA CheckActive ==
  ASSUME IInv, AInv, NEW t \in Thread, Check(t)
  PROVE  AInv'
<1>1. /\ pc[t] = "check" /\ pc[t] \notin Critical
      /\ UNCHANGED <<kind, idx, dirty, tip, coins, disk, coinsDisk, count>>
  BY DEF Check, tree, Critical
<1>2. PICK p \in {"periodic", "find"} : Goto(t, p)
  BY DEF Check, Activate
<1>3. p \in Place /\ p \notin Critical
  BY DEF Place, Critical
<1>4. \A u \in Thread \ {t} : loc'[u] = loc[u]
  <2>1. loc \in [Thread -> Locals]
    BY DEF IInv, TypeOK
  <2>2. \E l : loc' = [loc EXCEPT ![t] = l]
    BY DEF Check, Activate
  <2>. QED  BY <2>1, <2>2
<1>. QED  BY <1>1, <1>2, <1>3, <1>4, OutsideActive

LEMMA PeriodicActive ==
  ASSUME IInv, AInv, [Next]_vars, NEW t \in Thread, Periodic(t)
  PROVE  AInv'
<1>1. /\ pc[t] = "periodic" /\ cs = None /\ UNCHANGED <<kind, idx, tip, coins, coinsDisk, count>>
  BY DEF Periodic, tree
<1>2. CASE Return(t) /\ UNCHANGED <<disk, dirty, cs>>
  <2>1. \A u \in Thread : pc'[u] \notin Critical
    BY <1>1, <1>2, AloneMoves DEF Return, Place, Critical
  <2>. QED  BY <1>1, <1>2, <2>1, SameActive
<1>3. CASE IndexWritten /\ Goto(t, "pCoins")
  <2>1. pc'[t] = "pCoins" /\ \A u \in Thread \ {t} : pc'[u] \notin Critical
    BY <1>1, <1>3, AloneMoves DEF Place, Critical
  <2>2. ClearedSaved' /\ \A b \in Known : Clean(b) => DiskClean(b)'
    BY <1>1, <1>3, SavedWritten DEF AInv
  <2>3. coins = tip /\ tip \in Known /\ tip \in Block /\ (NotBoth => Clean(tip))
    BY <1>1, FreeFacts
  <2>4. UndoConnected' /\ CoinsDiskBehind'
    BY <1>1 DEF AInv, UndoConnected, CoinsDiskBehind
  <2>5. NotBoth' => NotBoth /\ Clean(tip)'
    BY <1>1, <2>3 DEF NotBoth, Clean, Failed
  <2>6. /\ pc'[t] \notin Invalidating /\ pc'[t] \notin Activating /\ pc'[t] \notin {"cIndex", "cCoins"}
    BY <2>1 DEF Invalidating, Activating
  <2>7. ThreadClean(t)'
    BY <2>6 DEF ThreadClean
  <2>8. count'.inv = 0 => DiskClean(coinsDisk)' /\ DiskClean(coins)'
    <3>1. count.inv = 0 => Clean(tip)
      BY <2>3 DEF NotBoth
    <3>2. coinsDisk \in Anc[tip]
      BY DEF AInv, CoinsDiskBehind
    <3>3. coinsDisk \in Known /\ (Clean(tip) => Clean(coinsDisk))
      BY <2>3, <3>2, AncFacts DEF IInv, KnownClosed, Clean
    <3>4. \A b \in Known : Clean(b) => \A a \in Anc[b] : disk'[a] # None /\ ~disk'[a].fv /\ ~disk'[a].fc
      BY <2>2 DEF DiskClean
    <3>. QED  BY <1>1, <2>3, <3>1, <3>3, <3>4 DEF DiskClean
  <2>. QED  BY <1>1, <2>1, <2>2, <2>3, <2>4, <2>5, <2>6, <2>7, <2>8, SoloAfter
<1>. QED  BY <1>2, <1>3 DEF Periodic

\* A start after a crash begins with the coins on disk, whose branch the index on disk
\* holds without marks unless InvalidateBlock was at work.
LEMMA CrashActive ==
  ASSUME IInv, AInv, [Next]_vars, Crash
  PROVE  AInv'
<1>1. /\ idx' = disk /\ dirty' = {} /\ tip' = coinsDisk /\ coins' = coinsDisk
      /\ UNCHANGED <<kind, disk, coinsDisk>>
  BY DEF Crash
<1>2. PICK t \in Thread : pc' = [u \in Thread |-> IF u = t THEN "find" ELSE "idle"]
  BY DEF Crash
<1>3. \A u \in Thread : pc'[u] \notin Critical
  BY <1>2 DEF Critical
<1>4. UndoConnected'
  <2>1. UndoConnected /\ DiskBehind
    BY DEF AInv, IInv
  <2>. QED  BY <1>1, <2>1 DEF UndoConnected, DiskBehind
<1>5. ClearedSaved'
  BY <1>1 DEF ClearedSaved, Known, Failed
<1>6. coinsDisk \in Block
  BY DEF IInv, TypeOK, Known
<1>7. CoinsDiskBehind'
  BY <1>1, <1>6, AncFacts DEF CoinsDiskBehind
<1>8. count'.inv = 0 => DiskClean(coinsDisk)'
  <2>1. count.inv = 0 => DiskClean(coinsDisk)
    BY DEF AInv, DiskActiveClean
  <2>. QED  BY <1>1, <2>1, CountStep DEF DiskClean
<1>9. NotBoth' => Clean(tip)'
  <2>1. NotBoth' => DiskClean(coinsDisk)'
    BY <1>8, CountStep DEF NotBoth
  <2>. QED  BY <1>1, <2>1 DEF DiskClean, Clean, Failed
<1>10. /\ pc'[t] \notin Invalidating /\ pc'[t] \notin Activating /\ pc'[t] \notin {"cIndex", "cCoins"}
       /\ pc'[t] \notin {"dCoins", "cCoins", "pCoins"}
  BY <1>3 DEF Critical, Invalidating, Activating
<1>11. ThreadClean(t)'
  BY <1>10 DEF ThreadClean
<1>. QED  BY <1>1, <1>3, <1>4, <1>5, <1>7, <1>8, <1>9, <1>10, <1>11, SoloAfter
LEMMA StutterActive ==
  ASSUME AInv, UNCHANGED vars
  PROVE  AInv'
<1>1. UNCHANGED <<kind, idx, dirty, tip, coins, disk, coinsDisk, pc, loc, count>>
  BY DEF vars
<1>2. (NotBoth' <=> NotBoth) /\ (Clean(tip)' <=> Clean(tip))
  BY <1>1 DEF NotBoth, Clean, Failed
<1>3. \A t \in Thread : ThreadClean(t)' <=> ThreadClean(t)
  BY <1>1 DEF ThreadClean, Clean, Failed
<1>4. ActiveClean'
  BY <1>1, <1>2, <1>3 DEF AInv, ActiveClean
<1>5. DiskActiveClean'
  BY <1>1 DEF AInv, DiskActiveClean, DiskClean
<1>6. UndoConnected' /\ ClearedSaved'
  BY <1>1 DEF AInv, UndoConnected, ClearedSaved, Known, Failed
<1>7. CoinsDiskBehind' /\ CoinsAtTip' /\ TipBelowCoins'
  BY <1>1 DEF AInv, CoinsDiskBehind, CoinsAtTip, TipBelowCoins
<1>. QED  BY <1>4, <1>5, <1>6, <1>7 DEF AInv

LEMMA InitActive == Init => AInv
<1>. SUFFICES ASSUME Init
              PROVE  AInv
  OBVIOUS
<1>1. UndoConnected /\ CoinsDiskBehind /\ ClearedSaved
  BY InitFacts DEF UndoConnected, CoinsDiskBehind, ClearedSaved, Known, Failed
<1>2. Clean(tip) /\ DiskClean(coinsDisk)
  BY InitFacts DEF Clean, DiskClean, Failed
<1>3. CoinsAtTip /\ TipBelowCoins
  BY InitFacts DEF CoinsAtTip, TipBelowCoins
<1>4. ActiveClean
  BY <1>2, InitFacts DEF ActiveClean, ThreadClean, Activating, Invalidating
<1>5. DiskActiveClean
  BY <1>2, InitFacts, Zenon DEF DiskActiveClean, Invalidating
<1>. QED  BY <1>1, <1>3, <1>4, <1>5 DEF AInv

LEMMA ActiveStep ==
  ASSUME IInv, AInv, [Next]_vars
  PROVE  AInv'
<1>1. ASSUME NEW t \in Thread, Run(t)
      PROVE  AInv'
  BY <1>1, FindActive, DisconnectActive, ConnectActive, RefusedActive, WriteIndexActive, WriteCoinsActive,
     NoFlushActive, CheckActive, PeriodicActive, InvalidateTipActive, InvalidateDoneActive DEF Run
<1>2. ASSUME NEW t \in Thread, NEW b \in Block, Arrive(t, b)
      PROVE  AInv'
  <2>1. CASE AcceptKnown(t, b)
    <3>1. /\ cs = None /\ UNCHANGED <<kind, idx, dirty, tip, coins, disk, coinsDisk>> /\ Goto(t, "find")
      BY <2>1 DEF AcceptKnown, Idle, tree, Activate
    <3>2. \A u \in Thread : pc'[u] \notin Critical
      BY <3>1, AloneMoves DEF Place, Critical
    <3>. QED  BY <3>1, <3>2, SameActive
  <2>2. CASE AcceptRefused(t, b)
    BY <2>2, StutterActive DEF AcceptRefused
  <2>. QED  BY <1>2, <2>1, <2>2, AcceptActive, ReconsiderActive, InvalidateBlockActive DEF Arrive
<1>3. CASE Crash
  BY <1>3, CrashActive
<1>4. CASE UNCHANGED vars
  BY <1>4, StutterActive
<1>. QED  BY <1>1, <1>2, <1>3, <1>4 DEF Next

LEMMA ActiveInvariant == Spec => []AInv
<1>1. Init => AInv
  BY InitActive
<1>2. IInv /\ AInv /\ [Next]_vars => AInv'
  BY ActiveStep
<1>. QED  BY <1>1, <1>2, Invariance, PTL DEF Spec

LEMMA ActiveValid ==
  ASSUME IInv, AInv, NotBoth
  PROVE  ActiveChainValid
<1>. SUFFICES ASSUME cs = None
              PROVE  /\ coins = tip
                     /\ \A a \in Active : /\ ~Failed(a) /\ HasData(a)
                                          /\ a # Genesis => idx[a].undo /\ kind[a] \in {"ok", "corrupt"}
  BY DEF ActiveChainValid
<1>1. \A t \in Thread : pc[t] \notin Critical
  BY Alone
<1>2. \A t \in Thread : pc[t] \notin Between /\ pc[t] \notin Invalidating
  BY <1>1 DEF Critical, Between, Invalidating
<1>3. coins = tip /\ Clean(tip)
  BY <1>2 DEF AInv, CoinsAtTip, ActiveClean
<1>4. \A a \in Anc[tip] : a \in Block
  BY AncFacts DEF IInv, TypeOK, Known
<1>5. \A a \in Anc[tip] : HasData(a) /\ (a # Genesis => idx[a].undo)
  BY DEF IInv, Built
<1>. QED  BY <1>3, <1>4, <1>5 DEF Active, Clean, AInv, UndoConnected, HasData

\* Whenever cs_main is free the coins belong to chainActive's tip, and every block of
\* chainActive is valid, unmarked, on disk and undoable: through every reorganisation that
\* ActivateBestChain interrupts, fails or loses to a crash, and through invalidateblock and
\* reconsiderblock.  Only invalidateblock and a crash in one run are left out, because
\* DisconnectTip in InvalidateBlock writes its marks before the coins leave the block.
THEOREM ActiveChainAlwaysValid == Spec => [](NotBoth => ActiveChainValid)
<1>1. IInv /\ AInv => (NotBoth => ActiveChainValid)
  BY ActiveValid
<1>. QED  BY <1>1, Invariance, ActiveInvariant, PTL

-----------------------------------------------------------------------------
(* The cause of a failure mark *)

LEMMA NoReconsiderStep ==
  ASSUME IInv, [Next]_vars, NoReconsider'
  PROVE  NoReconsider /\ \A t \in Thread, b \in Block : ~ReconsiderCommand(t, b) /\ ~AcceptOnCheckpoint(t, b)
<1>1. NoReconsider /\ Checkpointed = {}
  BY CountStep DEF NoReconsider
<1>2. \A t \in Thread, b \in Block : ~ReconsiderCommand(t, b)
  BY CountStep DEF NoReconsider
<1>3. \A t \in Thread, b \in Block : ~AcceptOnCheckpoint(t, b)
  BY <1>1 DEF AcceptOnCheckpoint
<1>. QED  BY <1>1, <1>2, <1>3

Causes == Caused /\ DiskCaused /\ FvSaved /\ FvKept
FvGrows == \A b \in Known : b \in Known' /\ (idx[b].fv => idx'[b].fv)

\* A block that gets BLOCK_FAILED_CHILD has a failed ancestor.
LEMMA CauseMarks ==
  ASSUME IInv, Causes, NEW U, NEW F, NEW C, Marks(U, F, C), F \subseteq dirty', dirty \subseteq dirty',
         disk' = disk, \A c \in C : c \in Known => \E f \in Anc[c] : Failed(f)
  PROVE  Causes' /\ FvGrows
<1>1. \A b \in Block : (b \in Known' <=> b \in Known) /\ (b \in Known <=> idx[b] # None)
  BY DEF Marks, Known
<1>2. FvGrows
  BY DEF FvGrows, Marks, Known
<1>3. \A b \in Known : b \in Block /\ \A a \in Anc[b] : a \in Known
  BY DEF IInv, KnownClosed, Known
<1>4. Caused'
  <2>1. ASSUME NEW b \in Known, Failed(b)'
        PROVE  \E a \in Anc[b] : idx'[a].fv
    <3>1. Failed(b) \/ b \in F \/ b \in C
      BY <1>1, <1>3, <2>1 DEF Marks, Failed
    <3>2. CASE b \in F
      BY <1>1, <1>3, <3>2, AncFacts DEF Marks
    <3>3. ASSUME NEW f \in Anc[b], Failed(f)
          PROVE  \E a \in Anc[b] : idx'[a].fv
      <4>1. f \in Known
        BY <1>3
      <4>2. PICK a \in Anc[f] : idx[a].fv
        BY <3>3, <4>1 DEF Causes, Caused
      <4>3. a \in Anc[b] /\ a \in Known
        BY <1>3, <4>1, <4>2, AncFacts
      <4>. QED  BY <1>2, <4>2, <4>3, Zenon DEF FvGrows
    <3>4. CASE Failed(b)
      BY <1>3, <3>3, <3>4, AncFacts
    <3>5. CASE b \in C
      BY <3>3, <3>5
    <3>. QED  BY <3>1, <3>2, <3>4, <3>5
  <2>2. \A b \in Known' : b \in Known
    BY <1>1 DEF Known
  <2>. QED  BY <2>1, <2>2 DEF Caused
<1>5. DiskCaused'
  BY DEF Causes, DiskCaused
<1>6. FvSaved'
  <2>1. ASSUME NEW b \in Known' \ dirty', idx'[b].fv
        PROVE  disk[b].fv
    <3>1. b \in Known \ dirty /\ b \in Block /\ b \notin F
      BY <1>1 DEF Known
    <3>2. idx[b].fv
      BY <1>1, <2>1, <3>1 DEF Marks
    <3>. QED  BY <3>1, <3>2 DEF Causes, FvSaved
  <2>. QED  BY <2>1 DEF FvSaved
<1>7. FvKept'
  <2>1. ASSUME NEW b \in Block, disk[b] # None, disk[b].fv
        PROVE  idx'[b].fv
    <3>1. b \in Known /\ idx[b].fv
      BY <2>1 DEF Causes, FvKept, IInv, DiskBehind, Known
    <3>. QED  BY <1>2, <3>1 DEF FvGrows
  <2>. QED  BY <2>1 DEF FvKept
<1>. QED  BY <1>2, <1>4, <1>5, <1>6, <1>7 DEF Causes
\* The only mark AcceptBlock sets is BLOCK_FAILED_VALID.
LEMMA CauseWritten ==
  ASSUME IInv, Causes, NEW b \in Block, Written(b), dirty \subseteq dirty', disk' = disk,
         idx'[b].fc => idx'[b].fv, idx'[b].fv => b \in dirty'
  PROVE  Causes' /\ FvGrows
<1>1. /\ b \in Known' /\ \A a \in Block \ {b} : idx'[a] = idx[a] /\ (a \in Known' <=> a \in Known)
      /\ b \in Known => ~idx[b].fv
  BY DEF Written, Known, Failed
<1>2. FvGrows
  BY <1>1 DEF FvGrows, Known
<1>3. \A a \in Known : a \in Block /\ \A d \in Anc[a] : d \in Known
  BY DEF IInv, KnownClosed, Known
<1>4. Caused'
  <2>1. ASSUME NEW a \in Known', Failed(a)'
        PROVE  \E d \in Anc[a] : idx'[d].fv
    <3>1. a \in Block
      BY DEF Known
    <3>2. CASE a = b
      BY <2>1, <3>1, <3>2, AncFacts DEF Failed
    <3>3. CASE a # b
      <4>1. a \in Known /\ Failed(a)
        BY <1>1, <2>1, <3>1, <3>3 DEF Failed
      <4>2. PICK d \in Anc[a] : idx[d].fv
        BY <4>1 DEF Causes, Caused
      <4>. QED  BY <1>2, <1>3, <4>1, <4>2 DEF FvGrows
    <3>. QED  BY <3>2, <3>3
  <2>. QED  BY <2>1 DEF Caused
<1>5. DiskCaused'
  BY DEF Causes, DiskCaused
<1>6. FvSaved'
  <2>1. ASSUME NEW a \in Known' \ dirty', idx'[a].fv
        PROVE  disk[a].fv
    <3>1. a # b /\ a \in Block
      BY <2>1 DEF Known
    <3>2. a \in Known \ dirty /\ idx[a].fv
      BY <1>1, <2>1, <3>1
    <3>. QED  BY <3>2 DEF Causes, FvSaved
  <2>. QED  BY <2>1 DEF FvSaved
<1>7. FvKept'
  <2>1. ASSUME NEW a \in Block, disk[a] # None, disk[a].fv
        PROVE  idx'[a].fv
    <3>1. a \in Known /\ idx[a].fv
      BY <2>1 DEF Causes, FvKept, IInv, DiskBehind, Known
    <3>. QED  BY <1>2, <3>1 DEF FvGrows
  <2>. QED  BY <2>1 DEF FvKept
<1>. QED  BY <1>2, <1>4, <1>5, <1>6, <1>7 DEF Causes

\* setDirtyBlockIndex takes a mark to disk together with its cause, or after it.
LEMMA CauseDisk ==
  ASSUME IInv, Causes, IndexWritten, idx' = idx
  PROVE  Causes' /\ FvGrows
<1>1. dirty' = {} /\ \A a \in Block : disk'[a] = IF a \in dirty THEN idx[a] ELSE disk[a]
  BY DEF IndexWritten
<1>2. dirty \subseteq Known /\ \A a \in Known : a \in Block /\ \A d \in Anc[a] : d \in Known
  BY DEF IInv, TypeOK, KnownClosed, Known
<1>3. \A a \in Known : idx[a].fv => disk'[a].fv
  BY <1>1, <1>2 DEF Causes, FvSaved
<1>4. DiskCaused'
  <2>1. ASSUME NEW b \in Block, disk'[b] # None, disk'[b].fv \/ disk'[b].fc
        PROVE  \E a \in Anc[b] : disk'[a].fv
    <3>1. CASE b \in dirty
      <4>1. b \in Known /\ Failed(b)
        BY <1>1, <1>2, <2>1, <3>1 DEF Failed
      <4>2. PICK a \in Anc[b] : idx[a].fv
        BY <4>1 DEF Causes, Caused
      <4>. QED  BY <1>2, <1>3, <4>1, <4>2
    <3>2. CASE b \notin dirty
      <4>1. disk[b] # None /\ (disk[b].fv \/ disk[b].fc)
        BY <1>1, <2>1, <3>2
      <4>2. PICK a \in Anc[b] : disk[a].fv
        BY <4>1 DEF Causes, DiskCaused
      <4>3. a \in Block /\ disk[a] # None
        BY <4>1, AncFacts DEF IInv, DiskBehind
      <4>4. a \in Known /\ idx[a].fv
        BY <4>2, <4>3 DEF Causes, FvKept, IInv, DiskBehind, Known
      <4>. QED  BY <1>3, <4>4
    <3>. QED  BY <3>1, <3>2
  <2>. QED  BY <2>1 DEF DiskCaused
<1>5. FvSaved'
  BY <1>3 DEF FvSaved, Known
<1>6. FvKept'
  BY <1>1 DEF Causes, FvKept
<1>7. Caused' /\ FvGrows
  BY DEF Causes, Caused, FvGrows, Known, Failed
<1>. QED  BY <1>4, <1>5, <1>6, <1>7 DEF Causes

LEMMA CauseSame ==
  ASSUME IInv, Causes, UNCHANGED <<idx, dirty, disk>>
  PROVE  Causes' /\ FvGrows
<1>1. Marks({}, {}, {})
  BY NothingMarked
<1>. QED  BY <1>1, CauseMarks

LEMMA RunCauses ==
  ASSUME IInv, Causes, Invalidated, NEW t \in Thread, Run(t)
  PROVE  Causes' /\ FvGrows
<1>1. tip \in Known /\ tip \in Block /\ cand \subseteq Block
  BY DEF IInv, TypeOK, Known
<1>2. CASE Find(t)
  <2>1. Marks({}, {}, MarkedChildren) /\ dirty \subseteq dirty' /\ {} \subseteq dirty' /\ disk' = disk
    BY <1>2, FindMarks DEF Find
  <2>2. \A c \in MarkedChildren : c \in Known => \E f \in Anc[c] : Failed(f)
    BY <1>1, MarkedFacts
  <2>. QED  BY <2>1, <2>2, CauseMarks
<1>3. CASE StepConnect(t)
  <2>1. Marks({NextBlock(t)}, {}, {}) /\ dirty \subseteq dirty' /\ {} \subseteq dirty' /\ disk' = disk
    BY <1>3, RunMarks DEF StepConnect
  <2>. QED  BY <2>1, CauseMarks
<1>4. CASE StepRefused(t)
  <2>1. CASE UNCHANGED <<idx, dirty>>
    BY <1>4, <2>1, CauseSame DEF StepRefused
  <2>2. CASE dirty' = dirty \cup {NextBlock(t)} /\ Marks({}, {NextBlock(t)}, {})
    BY <1>4, <2>2, CauseMarks DEF StepRefused
  <2>. QED  BY <1>4, <2>1, <2>2, NextBlockFacts, EntryMarked DEF StepRefused, IInv
<1>5. CASE InvalidateTip(t)
  <2>1. Marks({}, {}, {tip}) /\ dirty \subseteq dirty' /\ {} \subseteq dirty' /\ disk' = disk
    BY <1>5, RunMarks, Zenon DEF InvalidateTip
  <2>2. loc[t].most \in Anc[tip] /\ Failed(loc[t].most)
    BY <1>5 DEF InvalidateTip, Active, Invalidated, Invalidating, Failed
  <2>. QED  BY <2>1, <2>2, CauseMarks
<1>6. CASE WriteIndex(t) \/ (Periodic(t) /\ IndexWritten)
  BY <1>6, CauseDisk DEF WriteIndex, Periodic, tree
<1>7. CASE UNCHANGED <<idx, dirty, disk>>
  BY <1>7, CauseSame
<1>. QED
  BY <1>2, <1>3, <1>4, <1>5, <1>6, <1>7, Zenon
     DEF Run, StepDisconnect, StepFails, WriteCoins, NoFlush, Check, Periodic, InvalidateDone, tree

LEMMA ArriveCauses ==
  ASSUME IInv, Causes, NEW t \in Thread, NEW b \in Block, Arrive(t, b),
         ~ReconsiderCommand(t, b), ~AcceptOnCheckpoint(t, b)
  PROVE  Causes' /\ FvGrows
<1>1. CASE AcceptBlock(t, b)
  BY <1>1, AcceptWrites, CauseWritten, Zenon DEF AcceptBlock
<1>2. CASE AcceptBadContext(t, b)
  BY <1>2, AcceptWrites, CauseWritten DEF AcceptBadContext
<1>3. CASE AcceptWriteFails(t, b)
  BY <1>3, AcceptWrites, CauseWritten DEF AcceptWriteFails
<1>4. CASE InvalidateBlock(t, b)
  <2>1. /\ b \in Known /\ idx' = [idx EXCEPT ![b].fv = TRUE] /\ dirty' = dirty \cup {b} /\ disk' = disk
    BY <1>4 DEF InvalidateBlock
  <2>2. Marks({}, {b}, {})
    BY <2>1, EntryMarked DEF IInv
  <2>. QED  BY <2>1, <2>2, CauseMarks
<1>5. CASE AcceptKnown(t, b) \/ AcceptRefused(t, b)
  BY <1>5, CauseSame, Zenon DEF AcceptKnown, AcceptRefused, tree, vars
<1>. QED  BY <1>1, <1>2, <1>3, <1>4, <1>5 DEF Arrive

\* The argument of InvalidateBlock keeps its mark until the thread is done.
LEMMA InvalidatedKept ==
  ASSUME IInv, Invalidated, FvGrows, NEW t \in Thread,
         Run(t) \/ \E b \in Block : Arrive(t, b)
  PROVE  Invalidated'
<1>1. pc \in [Thread -> Place] /\ loc \in [Thread -> Locals]
  BY DEF IInv, TypeOK, Place, Critical
<1>2. \A u \in Thread \ {t} : pc'[u] = pc[u] /\ loc'[u] = loc[u]
  <2>1. /\ \E p : pc' = [pc EXCEPT ![t] = p] \/ pc' = pc
        /\ loc' = loc \/ \E l : loc' = [loc EXCEPT ![t] = l]
    <3>1. CASE Run(t)
      BY <3>1 DEF Run, Find, StepDisconnect, StepFails, StepConnect, StepRefused, WriteIndex, WriteCoins,
                  NoFlush, Connected, Check, Periodic, InvalidateTip, InvalidateDone, Goto, Return, Activate
    <3>2. CASE \E b \in Block : Arrive(t, b)
      BY <3>2, Zenon DEF Arrive, AcceptRefused, AcceptBlock, AcceptKnown, AcceptBadContext, AcceptWriteFails,
                  AcceptOnCheckpoint, InvalidateBlock, ReconsiderCommand, Idle, Goto, Activate, vars, threads
    <3>. QED  BY <3>1, <3>2
  <2>. QED  BY <1>1, <2>1
<1>3. ASSUME NEW p \in {"idle", "find", "step", "check", "periodic", "dIndex", "dCoins", "cIndex", "cCoins", "pCoins"},
             Goto(t, p)
      PROVE  pc'[t] \notin Invalidating
  BY <1>1, <1>3 DEF Goto, Invalidating
<1>4. \/ pc'[t] \notin Invalidating
      \/ pc[t] \in Invalidating /\ loc' = loc
      \/ \E b \in Block : InvalidateBlock(t, b)
  <2>1. CASE Run(t)
    <3>1. CASE InvalidateTip(t)
      BY <3>1 DEF InvalidateTip, Invalidating
    <3>2. CASE WriteIndex(t)
      BY <1>3, <3>2 DEF WriteIndex, Invalidating
    <3>3. CASE WriteCoins(t)
      BY <1>3, <3>3, Zenon DEF WriteCoins, Connected, Return, Invalidating
    <3>4. CASE Find(t) \/ StepDisconnect(t) \/ StepFails(t) \/ StepConnect(t) \/ StepRefused(t)
      BY <1>3, <3>4 DEF Find, StepDisconnect, StepFails, StepConnect, StepRefused, Return
    <3>5. CASE NoFlush(t) \/ Check(t) \/ Periodic(t) \/ InvalidateDone(t)
      BY <1>3, <3>5 DEF NoFlush, Connected, Check, Periodic, InvalidateDone, Return, Activate
    <3>. QED  BY <2>1, <3>1, <3>2, <3>3, <3>4, <3>5, Zenon DEF Run
  <2>2. ASSUME NEW b \in Block, Arrive(t, b), ~InvalidateBlock(t, b)
        PROVE  pc'[t] \notin Invalidating
    <3>1. CASE AcceptRefused(t, b) \/ AcceptBadContext(t, b) \/ AcceptWriteFails(t, b)
      BY <3>1 DEF AcceptRefused, AcceptBadContext, AcceptWriteFails, Idle, vars, threads, Invalidating
    <3>2. CASE AcceptBlock(t, b) \/ AcceptKnown(t, b) \/ AcceptOnCheckpoint(t, b) \/ ReconsiderCommand(t, b)
      BY <1>3, <3>2 DEF AcceptBlock, AcceptKnown, AcceptOnCheckpoint, ReconsiderCommand, Activate
    <3>. QED  BY <2>2, <3>1, <3>2 DEF Arrive
  <2>. QED  BY <2>1, <2>2
<1>5. ASSUME NEW u \in Thread, pc[u] \in Invalidating, loc'[u] = loc[u]
      PROVE  loc'[u].most \in Known' /\ idx'[loc'[u].most].fv
  BY <1>5, Zenon DEF Invalidated, FvGrows
<1>6. ASSUME NEW b \in Block, InvalidateBlock(t, b)
      PROVE  loc'[t].most \in Known' /\ idx'[loc'[t].most].fv
  <2>1. b \in Known /\ idx' = [idx EXCEPT ![b].fv = TRUE] /\ loc' = [loc EXCEPT ![t].most = b]
    BY <1>6 DEF InvalidateBlock
  <2>2. Marks({}, {b}, {})
    BY <2>1, EntryMarked DEF IInv
  <2>3. loc'[t].most = b
    BY <1>1, <2>1 DEF Locals
  <2>. QED  BY <2>1, <2>2, <2>3 DEF Marks, Known
<1>7. \A u \in Thread \ {t} : pc'[u] \in Invalidating => loc'[u].most \in Known' /\ idx'[loc'[u].most].fv
  BY <1>2, <1>5
<1>8. pc'[t] \in Invalidating => loc'[t].most \in Known' /\ idx'[loc'[t].most].fv
  BY <1>4, <1>5, <1>6
<1>. QED  BY <1>7, <1>8, Zenon DEF Invalidated

LEMMA CauseStep ==
  ASSUME IInv, CInv, [Next]_vars
  PROVE  CInv'
<1>. SUFFICES ASSUME NoReconsider'
              PROVE  Causes' /\ Invalidated'
  BY DEF CInv, Causes
<1>1. /\ NoReconsider /\ Causes /\ Invalidated
      /\ \A t \in Thread, b \in Block : ~ReconsiderCommand(t, b) /\ ~AcceptOnCheckpoint(t, b)
  BY NoReconsiderStep DEF CInv, Causes
<1>2. ASSUME NEW t \in Thread, Run(t)
      PROVE  Causes' /\ Invalidated'
  BY <1>1, <1>2, RunCauses, InvalidatedKept
<1>3. ASSUME NEW t \in Thread, NEW b \in Block, Arrive(t, b)
      PROVE  Causes' /\ Invalidated'
  BY <1>1, <1>3, ArriveCauses, InvalidatedKept
<1>4. CASE Crash
  <2>1. /\ idx' = disk /\ dirty' = {} /\ disk' = disk
        /\ \E t \in Thread : pc' = [u \in Thread |-> IF u = t THEN "find" ELSE "idle"]
    BY <1>4 DEF Crash
  <2>2. Caused'
    BY <1>1, <2>1 DEF Causes, DiskCaused, Caused, Known, Failed
  <2>3. DiskCaused' /\ FvSaved' /\ FvKept'
    BY <1>1, <2>1 DEF Causes, DiskCaused, FvSaved, FvKept, Known
  <2>4. Invalidated'
    BY <2>1 DEF Invalidated, Invalidating
  <2>. QED  BY <2>2, <2>3, <2>4 DEF Causes
<1>5. CASE UNCHANGED vars
  <2>1. UNCHANGED <<idx, dirty, disk, pc, loc>>
    BY <1>5 DEF vars
  <2>2. Causes'
    BY <1>1, <2>1, CauseSame
  <2>3. Invalidated'
    BY <1>1, <2>1, Zenon DEF Invalidated, Known
  <2>. QED  BY <2>2, <2>3
<1>. QED  BY <1>2, <1>3, <1>4, <1>5 DEF Next

LEMMA InitCauses == Init => CInv
<1>. SUFFICES ASSUME Init
              PROVE  CInv
  OBVIOUS
<1>1. Caused /\ DiskCaused /\ FvSaved /\ FvKept
  BY InitFacts, Zenon DEF Caused, DiskCaused, FvSaved, FvKept, Known, Failed
<1>2. Invalidated
  BY InitFacts DEF Invalidated, Invalidating
<1>. QED  BY <1>1, <1>2 DEF CInv

\* As long as nothing was reconsidered, every block marked failed has an ancestor, or is one,
\* that itself failed validation or was invalidated by hand (BLOCK_FAILED_VALID): no block is
\* given up without a cause, also when a crash loses part of setDirtyBlockIndex.
THEOREM FailureAlwaysHasCause == Spec => [](NoReconsider => FailedHasCause)
<1>1. Init => CInv
  BY InitCauses
<1>2. IInv /\ CInv /\ [Next]_vars => CInv'
  BY CauseStep
<1>3. CInv => (NoReconsider => FailedHasCause)
  BY DEF CInv, Caused, FailedHasCause
<1>. QED  BY <1>1, <1>2, <1>3, Invariance, PTL DEF Spec
=============================================================================
