-------------------------- MODULE CandidateProofs --------------------------
(***************************************************************************)
(* Proofs about setBlockIndexCandidates in ChainState, over the invariants *)
(* of ChainStateProofs and ActiveChainProofs: as long as nothing was       *)
(* reconsidered, and invalidateblock and a crash are not combined, the     *)
(* best branch is active when all threads are done, the set is complete,   *)
(* and it is never empty.                                                  *)
(***************************************************************************)
EXTENDS ActiveChainProofs

Calm == NotBoth /\ NoReconsider

\* The blocks whose branch is complete and has no failure mark.
Good == {b \in Block : b \in linked /\ Clean(b)}

\* No candidate is worse than the tip.
NoneWorse == \A c \in cand : ~Less(c, tip)

\* f is a candidate that was connected before, and every good block that is no
\* candidate is worse than f.  ConnectBlock cannot refuse f any more, so that
\* f stands for what PruneBlockIndexCandidates dropped through every attempt to
\* connect a better branch.
Covers(f) == /\ f \in cand /\ f \in Good /\ Built(f)
             /\ \A b \in Good : b \in cand \/ Less(b, f)
Covered == \E f \in Block : Covers(f)

\* No good block is better than the tip.
Settled == \A b \in Good : ~Less(tip, b)

\* Thread t will still call FindMostWorkChain, or connect what it returned.
Working(t) == /\ pc[t] \notin {"idle", "periodic", "pCoins"}
              /\ ~(pc[t] = "check" /\ loc[t].most = tip)

\* pindexMostWork is the best good block while cs_main is held.
Chosen(t) == pc[t] \in Activating => \A b \in Good : ~Less(loc[t].most, b)

DInv ==
  /\ NoneWorse
  /\ Calm => /\ Covered \/ \E t \in Thread : pc[t] \in Invalidating
             /\ \A t \in Thread : Chosen(t)
             /\ Readable => Settled \/ \E t \in Thread : Working(t)

-----------------------------------------------------------------------------
(* CBlockIndexWorkComparator *)

\* It is a strict total order.
LEMMA Order ==
  ASSUME NEW s \in [Block -> Nat], NEW a \in Block, NEW b \in Block, NEW c \in Block
  PROVE  /\ ~LessBy(s, a, a)
         /\ LessBy(s, a, b) /\ LessBy(s, b, c) => LessBy(s, a, c)
         /\ LessBy(s, a, b) => ~LessBy(s, b, a)
         /\ LessBy(s, a, b) /\ ~LessBy(s, c, b) => LessBy(s, a, c)
<1>1. /\ Work[a] \in Nat /\ Work[b] \in Nat /\ Work[c] \in Nat
      /\ Addr[a] \in Nat /\ Addr[b] \in Nat /\ Addr[c] \in Nat
      /\ (Addr[c] = Addr[b] => c = b)
  BY ChainStateAssumption
<1>2. s[a] \in Nat /\ s[b] \in Nat /\ s[c] \in Nat
  OBVIOUS
<1>3. ~LessBy(s, c, b) => LessBy(s, b, c) \/ c = b
  BY <1>1, <1>2 DEF LessBy
<1>4. LessBy(s, a, b) /\ LessBy(s, b, c) => LessBy(s, a, c)
  BY <1>1, <1>2 DEF LessBy
<1>5. ~LessBy(s, a, a) /\ (LessBy(s, a, b) => ~LessBy(s, b, a))
  BY <1>1, <1>2 DEF LessBy
<1>. QED  BY <1>3, <1>4, <1>5

\* A set of blocks has a best one.
LEMMA Greatest ==
  ASSUME NEW s \in [Block -> Nat], NEW T \in SUBSET Block, T # {}
  PROVE  \E c \in T : \A d \in T : ~LessBy(s, c, d)
<1>. DEFINE better(c) == {d \in Block : LessBy(s, c, d)}
            rank(c) == Cardinality(better(c))
            R == {rank(c) : c \in T}
<1>1. \A c \in Block : IsFiniteSet(better(c)) /\ rank(c) \in Nat
  <2>1. ASSUME NEW c \in Block
        PROVE  IsFiniteSet(better(c)) /\ rank(c) \in Nat
    <3>1. better(c) \subseteq Block /\ IsFiniteSet(Block)
      BY ChainStateAssumption
    <3>. QED  BY <3>1, FS_Subset, FS_CardinalityType
  <2>. QED  BY <2>1
<1>2. R \in SUBSET Nat /\ R # {}
  BY <1>1
<1>3. PICK x \in R : \A y \in R : x <= y
  BY <1>2, LeastNat
<1>4. PICK c \in T : x = rank(c)
  BY <1>3
<1>5. ASSUME NEW d \in T, LessBy(s, c, d)
      PROVE  FALSE
  <2>1. better(d) \subseteq better(c)
    BY <1>5, Order
  <2>2. d \in better(c) /\ d \notin better(d)
    BY <1>5, Order
  <2>3. rank(d) <= rank(c) /\ (rank(d) = rank(c) => better(d) = better(c))
    BY <1>1, <2>1, FS_Subset
  <2>4. rank(c) <= rank(d) /\ rank(c) \in Nat /\ rank(d) \in Nat
    BY <1>1, <1>3, <1>4
  <2>. HIDE DEF better, rank
  <2>. QED  BY <2>2, <2>3, <2>4
<1>. QED  BY <1>5

-----------------------------------------------------------------------------
(* The good blocks *)

LEMMA GoodFacts ==
  ASSUME IInv
  PROVE  /\ seq \in [Block -> Nat] /\ tip \in Block /\ cand \subseteq linked /\ linked \subseteq Block
         /\ \A b \in Good : /\ b \in Block /\ b \in linked
                             /\ \A a \in Anc[b] : a \in Block /\ HasData(a) /\ ~Failed(a)
<1>1. /\ seq \in [Block -> Nat] /\ tip \in Block /\ cand \subseteq linked /\ linked \subseteq Block
      /\ LinkedHasData
  BY DEF IInv, TypeOK, Known, CandidatesAreLinked
<1>2. ASSUME NEW b \in Good
      PROVE  /\ b \in Block /\ b \in linked
             /\ \A a \in Anc[b] : a \in Block /\ HasData(a) /\ ~Failed(a)
  BY <1>1, AncFacts DEF Good, LinkedHasData, Clean
<1>. QED  BY <1>1, <1>2

\* A new mark takes blocks out of Good, and only those above it.
LEMMA GoodMarks ==
  ASSUME IInv, NEW U, NEW F, NEW C, Marks(U, F, C), linked' = linked
  PROVE  /\ Good' \subseteq Good
         /\ \A b \in Good : (\A a \in Anc[b] : a \notin F /\ a \notin C) => b \in Good'
         /\ \A b \in Block : Built(b) => Built(b)'
<1>1. ASSUME NEW b \in Good'
      PROVE  b \in Good
  <2>1. b \in Block /\ b \in linked /\ \A a \in Anc[b] : ~Failed(a)'
    BY <1>1 DEF Good, Clean
  <2>2. \A a \in Anc[b] : a \in Block /\ idx[a] # None
    BY <2>1, AncFacts DEF IInv, LinkedHasData, HasData
  <2>3. \A a \in Anc[b] : ~Failed(a)
    BY <2>1, <2>2 DEF Marks, Failed
  <2>. QED  BY <2>1, <2>3 DEF Good, Clean
<1>2. ASSUME NEW b \in Good, \A a \in Anc[b] : a \notin F /\ a \notin C
      PROVE  b \in Good'
  <2>1. b \in Block /\ b \in linked /\ \A a \in Anc[b] : a \in Block /\ idx[a] # None /\ ~Failed(a)
    BY <1>2, GoodFacts DEF HasData
  <2>2. \A a \in Anc[b] : ~Failed(a)'
    BY <1>2, <2>1 DEF Marks, Failed
  <2>. QED  BY <2>1, <2>2 DEF Good, Clean
<1>3. ASSUME NEW b \in Block, Built(b)
      PROVE  Built(b)'
  <2>1. \A a \in Anc[b] : a \in Block
    BY AncFacts
  <2>. QED  BY <1>3, <2>1 DEF Built, Marks, HasData
<1>. QED  BY <1>1, <1>2, <1>3

LEMMA GoodSame ==
  ASSUME UNCHANGED <<idx, linked>>
  PROVE  Good' = Good /\ \A b : Built(b)' <=> Built(b)
BY DEF Good, Clean, Failed, Built, HasData

\* An entry that had no data is on no complete branch.
LEMMA GoodWritten ==
  ASSUME IInv, NEW b \in Block, Written(b)
  PROVE  /\ \A d \in linked : \A a \in Anc[d] : a # b /\ (Failed(a)' <=> Failed(a))
         /\ \A d \in Block : Built(d) => Built(d)'
         /\ linked' = linked => Good' = Good
<1>1. ~HasData(b) /\ \A a \in Block \ {b} : idx'[a] = idx[a]
  BY DEF Written
<1>2. ASSUME NEW d \in linked, NEW a \in Anc[d]
      PROVE  a # b /\ (Failed(a)' <=> Failed(a))
  <2>1. HasData(a) /\ a \in Block
    BY GoodFacts, AncFacts DEF IInv, LinkedHasData
  <2>. QED  BY <1>1, <2>1 DEF Failed
<1>3. ASSUME NEW d \in Block, Built(d)
      PROVE  Built(d)'
  <2>1. \A a \in Anc[d] : idx'[a] = idx[a]
    BY <1>1, <1>3, AncFacts DEF Built
  <2>. QED  BY <1>3, <2>1 DEF Built, HasData
<1>4. linked' = linked => Good' = Good
  BY <1>2, Zenon DEF Good, Clean
<1>. QED  BY <1>2, <1>3, <1>4, Zenon

\* What a connected candidate covers it covers after a step that drops no good candidate.
LEMMA CoversKept ==
  ASSUME NEW f \in Block, Covers(f), seq' = seq, Good' \subseteq Good, cand \cap Good' \subseteq cand',
         f \in Good', Built(f)'
  PROVE  Covered'
<1>1. f \in cand /\ \A b \in Good : b \in cand \/ Less(b, f)
  BY DEF Covers
<1>2. \A b \in Good' : b \in cand' \/ Less(b, f)'
  BY <1>1 DEF Less, LessBy
<1>3. Covers(f)'
  BY <1>1, <1>2 DEF Covers
<1>. QED  BY <1>3 DEF Covered

\* The tip covers everything when every good block at least as good is a candidate.
LEMMA TipCovers ==
  ASSUME IInv', TreeConsistent', Clean(tip)', \A b \in Good' : b \in cand' \/ Less(b, tip)'
  PROVE  Covered'
<1>1. tip' \in Block /\ seq' \in [Block -> Nat] /\ Built(tip)'
  BY DEF IInv, TypeOK, Known
<1>2. PICK f \in Block : f = tip'
  BY <1>1
<1>3. Built(f)'
  BY <1>1, <1>2 DEF Built
<1>4. f \in linked'
  BY <1>2, <1>3 DEF TreeConsistent, Built
<1>5. f \in Good'
  BY <1>2, <1>4 DEF Good, Clean
<1>6. \A b \in Good' : b \in cand' \/ Less(b, f)'
  BY <1>2 DEF Less
<1>7. ~Less(f, f)'
  BY <1>1, Order DEF Less
<1>8. Covers(f)'
  BY <1>3, <1>5, <1>6, <1>7 DEF Covers
<1>. QED  BY <1>8 DEF Covered

-----------------------------------------------------------------------------
(* The candidates: what the steps have in common *)

LEMMA CalmStep ==
  ASSUME IInv, [Next]_vars, Calm'
  PROVE  /\ Calm /\ (Crash => count.inv = 0)
         /\ \A t \in Thread, b \in Block : ~ReconsiderCommand(t, b) /\ ~AcceptOnCheckpoint(t, b)
<1>1. NotBoth' /\ NoReconsider'
  BY DEF Calm
<1>2. NotBoth /\ (Crash => count.inv = 0)
  BY <1>1, CountStep DEF NotBoth
<1>. QED  BY <1>1, <1>2, NoReconsiderStep DEF Calm

LEMMA HolderLock ==
  ASSUME IInv, NEW t \in Thread, pc[t] \in Critical
  PROVE  cs = t
BY DEF IInv, ThreadsOk, ThreadOk

\* With cs_main free the tip is on a branch without failure marks.
LEMMA FreeClean ==
  ASSUME AInv', Calm', \A u \in Thread : pc'[u] \notin Critical
  PROVE  Clean(tip)'
<1>1. \A u \in Thread : pc'[u] \notin Invalidating
  BY DEF Critical, Invalidating
<1>. QED  BY <1>1 DEF Calm, AInv, ActiveClean

\* A step of the only thread that may be in a critical section.
LEMMA SoloStep ==
  ASSUME NEW t \in Thread, \A u \in Thread \ {t} : pc'[u] \notin Critical, NoneWorse',
         Calm' => /\ Covered' \/ pc'[t] \in Invalidating
                  /\ Chosen(t)'
                  /\ Readable' => Settled' \/ \E u \in Thread : Working(u)'
  PROVE  DInv'
<1>1. \A u \in Thread \ {t} : Chosen(u)'
  BY DEF Chosen, Activating, Critical
<1>2. Calm' => /\ Covered' \/ \E u \in Thread : pc'[u] \in Invalidating
               /\ \A u \in Thread : Chosen(u)'
               /\ Readable' => Settled' \/ \E u \in Thread : Working(u)'
  BY <1>1, Zenon
<1>. QED  BY <1>2, Zenon DEF DInv

\* A step at cs_main that leaves the tip where it is.
LEMMA TipStays ==
  ASSUME IInv, DInv, [Next]_vars, NEW t \in Thread, cs \in {None, t}, NEW p \in Place, Goto(t, p),
         UNCHANGED <<seq, tip, kind>>, Good' \subseteq Good, cand' \subseteq cand,
         \A u \in Thread \ {t} : loc'[u] = loc[u],
         Calm /\ Calm' => /\ Covered' \/ p \in Invalidating
                          /\ Chosen(t)'
                          /\ Readable /\ Working(t) => Settled' \/ Working(t)'
  PROVE  DInv'
<1>1. pc'[t] = p /\ \A u \in Thread \ {t} : pc'[u] \notin Critical /\ pc'[u] = pc[u]
  <2>1. pc' = [pc EXCEPT ![t] = p]
    BY DEF Goto
  <2>2. \A u \in Thread \ {t} : pc'[u] = pc[u]
    BY <2>1 DEF IInv, TypeOK
  <2>. QED  BY <2>2, AloneMoves
<1>2. NoneWorse'
  BY DEF DInv, NoneWorse, Less, LessBy
<1>3. ASSUME Calm'
      PROVE  Calm /\ (Readable' <=> Readable)
  BY <1>3, CalmStep DEF Readable
<1>4. ASSUME Settled
      PROVE  Settled'
  BY <1>4 DEF Settled, Less, LessBy
<1>5. ASSUME NEW u \in Thread \ {t}, Working(u)
      PROVE  Working(u)'
  BY <1>1, <1>5 DEF Working
<1>6. ASSUME Calm', Readable'
      PROVE  Settled' \/ \E u \in Thread : Working(u)'
  <2>1. Settled \/ \E u \in Thread : Working(u)
    BY <1>3, <1>6 DEF DInv
  <2>. QED  BY <1>3, <1>4, <1>5, <1>6, <2>1
<1>. QED  BY <1>1, <1>2, <1>3, <1>6, SoloStep

\* It keeps pindexMostWork the best good block.
LEMMA ChosenKept ==
  ASSUME DInv, Calm, NEW t \in Thread, Good' \subseteq Good, seq' = seq,
         pc'[t] \in Activating => pc[t] \in Activating /\ loc'[t].most = loc[t].most
  PROVE  Chosen(t)'
<1>1. Chosen(t)
  BY DEF DInv
<1>. QED  BY <1>1 DEF Chosen, Less, LessBy

\* A step of a thread outside every critical section that touches no block.
LEMMA OutsideStays ==
  ASSUME IInv, DInv, [Next]_vars, NEW t \in Thread, NEW p \in Place, pc[t] \notin Critical,
         p \notin Critical, Goto(t, p), UNCHANGED <<idx, linked, seq, cand, tip, kind>>,
         \A u \in Thread \ {t} : loc'[u] = loc[u],
         Working(t) => Working(t)'
  PROVE  DInv'
<1>1. /\ pc'[t] = p /\ \A u \in Thread \ {t} : pc'[u] = pc[u]
      /\ pc[t] \notin Activating /\ pc[t] \notin Invalidating /\ p \notin Activating
  BY DEF Goto, IInv, TypeOK, Activating, Invalidating, Critical
<1>2. Good' = Good /\ \A b : Built(b)' <=> Built(b)
  BY GoodSame
<1>3. NoneWorse'
  BY DEF DInv, NoneWorse, Less, LessBy
<1>4. ASSUME Calm'
      PROVE  Calm
  BY <1>4, CalmStep
<1>5. ASSUME Covered
      PROVE  Covered'
  BY <1>2, <1>5, CoversKept DEF Covered, Covers
<1>6. ASSUME NEW u \in Thread, pc[u] \in Invalidating
      PROVE  pc'[u] \in Invalidating
  BY <1>1, <1>6
<1>7. ASSUME Calm, NEW u \in Thread
      PROVE  Chosen(u)'
  BY <1>1, <1>2, <1>7, ChosenKept
<1>8. Settled => Settled'
  BY <1>2 DEF Settled, Less, LessBy
<1>9. ASSUME NEW u \in Thread, Working(u)
      PROVE  Working(u)'
  BY <1>1, <1>9 DEF Working
<1>10. Readable' <=> Readable
  BY DEF Readable
<1>. QED  BY <1>3, <1>4, <1>5, <1>6, <1>7, <1>8, <1>9, <1>10, Zenon DEF DInv

-----------------------------------------------------------------------------
(* FindMostWorkChain *)

\* It finds the best good block, and throws no good block out.
LEMMA FindBest ==
  ASSUME IInv, NEW f \in Block, Covers(f)
  PROVE  /\ MostWork # None /\ \A b \in Good : ~Less(MostWork, b)
         /\ Good \cap MarkedChildren = {} /\ Good \cap Dropped = {}
         /\ \A b \in Good : \A a \in Anc[b] : a \notin MarkedChildren
<1>. DEFINE T == {c \in cand : Usable(c)}
<1>1. /\ seq \in [Block -> Nat] /\ tip \in Block /\ cand \subseteq Block
      /\ \A b \in Good : b \in Block /\ \A a \in Anc[b] : a \in Block /\ ~Failed(a)
  BY GoodFacts
<1>2. \A b \in Good : Usable(b)
  BY <1>1 DEF Usable, Path
<1>3. f \in cand /\ f \in Good /\ \A b \in Good : b \in cand \/ Less(b, f)
  BY DEF Covers
<1>4. PICK c \in T : \A d \in T : ~LessBy(seq, c, d)
  <2>1. T \in SUBSET Block /\ T # {}
    BY <1>1, <1>2, <1>3
  <2>. QED  BY <1>1, <2>1, Greatest
<1>5. c \in Best
  BY <1>4 DEF Best, Less
<1>6. MostWork \in Best /\ MostWork \in cand /\ MostWork \in Block
  BY <1>1, <1>5 DEF MostWork, Best
<1>7. ~Less(MostWork, f) /\ \A b \in Good \cap cand : ~Less(MostWork, b)
  BY <1>2, <1>3, <1>6 DEF Best
<1>8. ASSUME NEW b \in Good
      PROVE  ~Less(MostWork, b)
  <2>1. CASE b \in cand
    BY <1>7, <2>1
  <2>2. CASE Less(b, f)
    BY <1>1, <1>3, <1>6, <1>7, <2>2, Order DEF Less
  <2>. QED  BY <1>3, <2>1, <2>2
<1>9. MostWork # None
  <2>1. None \notin Block
    BY ChainStateAssumption
  <2>. QED  BY <1>6, <2>1
<1>10. ASSUME NEW b \in Good, NEW a \in Anc[b]
       PROVE  a \notin MarkedChildren
  <2>1. ASSUME a \in MarkedChildren
        PROVE  FALSE
    <3>1. PICK g \in Anc[a] : Failed(g)
      BY <1>1, <2>1, MarkedFacts
    <3>2. g \in Anc[b]
      BY <1>1, AncFacts
    <3>. QED  BY <1>1, <3>1, <3>2
  <2>. QED  BY <2>1
<1>11. Good \cap MarkedChildren = {}
  BY <1>1, <1>10, AncFacts
<1>12. ASSUME NEW d \in Rejected
       PROVE  FirstFailed(d) \notin Good
  <2>1. d \in Block /\ ~Usable(d)
    BY <1>1 DEF Rejected
  <2>2. FirstFailed(d) \in Path(d) /\ Failed(FirstFailed(d))
    BY <2>1, FirstFailedFacts
  <2>3. FirstFailed(d) \in Block /\ FirstFailed(d) \in Anc[FirstFailed(d)]
    BY <2>1, <2>2, AncFacts DEF Path
  <2>. QED  BY <1>1, <2>2, <2>3
<1>13. Good \cap Dropped = {}
  BY <1>11, <1>12 DEF Dropped
<1>. QED  BY <1>8, <1>9, <1>10, <1>11, <1>13

\* No thread is invalidating while cs_main is free, so that something covers the good blocks.
LEMMA FreeCovered ==
  ASSUME IInv, DInv, Calm, cs = None
  PROVE  Covered
<1>1. \A t \in Thread : pc[t] \notin Invalidating
  BY Alone DEF Invalidating, Critical
<1>. QED  BY <1>1 DEF DInv

LEMMA FindCandidates ==
  ASSUME IInv, DInv, [Next]_vars, NEW t \in Thread, Find(t)
  PROVE  DInv'
<1>1. /\ pc[t] = "find" /\ cs = None /\ cand' = cand \ Dropped
      /\ UNCHANGED <<kind, linked, seq, tip>>
  BY DEF Find
<1>2. Marks({}, {}, MarkedChildren)
  BY FindMarks
<1>3. Good' \subseteq Good
  BY <1>1, <1>2, GoodMarks
<1>4. /\ loc \in [Thread -> Locals] /\ loc[t] \in Locals
  BY DEF IInv, TypeOK
<1>5. ASSUME Calm
      PROVE  /\ Covered'
             /\ MostWork # None /\ \A b \in Good' : ~Less(MostWork, b)
  <2>1. PICK f \in Block : Covers(f)
    BY <1>1, <1>5, FreeCovered DEF Covered
  <2>2. f \in Good /\ Built(f)
    BY <2>1 DEF Covers
  <2>3. f \in Good' /\ Built(f)'
    BY <1>1, <1>2, <2>1, <2>2, GoodMarks, FindBest
  <2>4. cand \cap Good' \subseteq cand'
    BY <1>1, <1>3, <2>1, FindBest
  <2>5. Covered'
    BY <1>1, <1>3, <2>1, <2>3, <2>4, CoversKept
  <2>. QED  BY <1>3, <2>1, <2>5, FindBest
<1>6. CASE MostWork \in {None, tip} /\ Return(t)
  <2>1. Goto(t, "idle") /\ pc'[t] = "idle" /\ loc' = [loc EXCEPT ![t] = NoLocals]
    BY <1>1, <1>6, GotoTypes DEF Return, IInv, Place
  <2>2. \A u \in Thread \ {t} : loc'[u] = loc[u]
    BY <1>4, <2>1
  <2>3. Calm => Settled'
    BY <1>1, <1>5, <1>6 DEF Settled, Less, LessBy
  <2>4. Chosen(t)'
    BY <2>1 DEF Chosen, Activating
  <2>5. "idle" \in Place
    BY DEF Place
  <2>. QED  BY <1>1, <1>3, <1>5, <2>1, <2>2, <2>3, <2>4, <2>5, TipStays
<1>7. CASE /\ Goto(t, "step")
           /\ loc' = [loc EXCEPT ![t].most = MostWork, ![t].old = tip]
  <2>1. pc'[t] = "step"
    BY <1>7, GotoTypes DEF IInv, Place, Critical
  <2>2. loc'[t].most = MostWork /\ \A u \in Thread \ {t} : loc'[u] = loc[u]
    BY <1>4, <1>7 DEF Locals
  <2>3. Calm => Chosen(t)'
    BY <1>1, <1>5, <2>2 DEF Chosen, Less, LessBy
  <2>4. Working(t)'
    BY <2>1 DEF Working
  <2>5. "step" \in Place
    BY DEF Place, Critical
  <2>. QED  BY <1>1, <1>3, <1>5, <1>7, <2>2, <2>3, <2>4, <2>5, TipStays
<1>. QED  BY <1>6, <1>7 DEF Find

-----------------------------------------------------------------------------
(* The steps of a thread that leave the tip where it is *)

\* ActivateBestStep never touches what covers the good blocks.
LEMMA HolderCovered ==
  ASSUME IInv, DInv, Calm, NEW t \in Thread, pc[t] \in Activating
  PROVE  Covered
<1>1. cs = t /\ pc[t] \notin Invalidating
  BY HolderLock DEF Activating, Critical, Invalidating
<1>2. \A u \in Thread : pc[u] \notin Invalidating
  BY <1>1, Alone DEF Invalidating, Critical
<1>. QED  BY <1>2 DEF DInv

LEMMA IndexSteps ==
  ASSUME IInv, DInv, [Next]_vars, NEW t \in Thread,
         StepDisconnect(t) \/ StepFails(t) \/ WriteIndex(t)
  PROVE  DInv'
<1>1. /\ UNCHANGED <<kind, idx, linked, seq, cand, tip>>
      /\ pc[t] \in {"step", "dIndex", "cIndex", "iIndex"}
  BY DEF StepDisconnect, StepFails, WriteIndex, tree
<1>2. cs = t
  BY <1>1, HolderLock DEF Critical
<1>3. Good' = Good /\ \A b : Built(b)' <=> Built(b)
  BY <1>1, GoodSame
<1>4. Covered => Covered'
  BY <1>1, <1>3, CoversKept DEF Covered, Covers
<1>5. CASE StepDisconnect(t) \/ WriteIndex(t)
  <2>1. loc' = loc
    BY <1>5 DEF StepDisconnect, WriteIndex
  <2>2. PICK p \in {"dIndex", "dCoins", "cCoins", "iCoins"} :
          /\ Goto(t, p)
          /\ p \in {"dIndex", "dCoins", "cCoins"} => pc[t] \in Activating
    BY <1>5 DEF StepDisconnect, WriteIndex, Activating
  <2>3. p \in Place /\ pc'[t] = p
    BY <2>2, GotoTypes DEF IInv, Place, Critical
  <2>4. Calm => Covered' \/ p \in Invalidating
    BY <1>4, <2>2, HolderCovered DEF Invalidating
  <2>5. Calm => Chosen(t)'
    <3>1. pc'[t] \in Activating => pc[t] \in Activating
      BY <2>2, <2>3 DEF Activating
    <3>. QED  BY <1>1, <1>3, <2>1, <3>1, ChosenKept
  <2>6. Working(t)'
    BY <2>2, <2>3 DEF Working
  <2>. QED  BY <1>1, <1>2, <1>3, <2>1, <2>2, <2>3, <2>4, <2>5, <2>6, TipStays, Zenon
<1>6. CASE StepFails(t)
  <2>1. Goto(t, "idle") /\ loc' = [loc EXCEPT ![t] = NoLocals] /\ pc[t] = "step" /\ kind[tip] = "corrupt"
    BY <1>6 DEF StepFails, Return
  <2>2. pc'[t] = "idle" /\ "idle" \in Place
    BY <2>1, GotoTypes DEF IInv, Place
  <2>3. \A u \in Thread \ {t} : loc'[u] = loc[u]
    BY <2>1 DEF IInv, TypeOK
  <2>4. ~Readable
    BY <2>1, GoodFacts DEF Readable
  <2>5. Chosen(t)'
    BY <2>2 DEF Chosen, Activating
  <2>6. Calm => Covered'
    BY <1>4, <2>1, HolderCovered DEF Activating
  <2>. QED  BY <1>1, <1>2, <1>3, <2>1, <2>2, <2>3, <2>4, <2>5, <2>6, TipStays
<1>. QED  BY <1>5, <1>6

LEMMA ConnectCandidates ==
  ASSUME IInv, DInv, [Next]_vars, NEW t \in Thread, StepConnect(t)
  PROVE  DInv'
<1>1. /\ UNCHANGED <<kind, linked, seq, cand, tip, loc>> /\ pc[t] = "step" /\ Goto(t, "cIndex")
      /\ Connecting(t) /\ idx' = [idx EXCEPT ![NextBlock(t)].undo = TRUE]
  BY DEF StepConnect, Connecting
<1>2. cs = t /\ NextBlock(t) \in Known
  BY <1>1, NextBlockFacts
<1>3. Marks({NextBlock(t)}, {}, {})
  BY <1>1, <1>2, EntryMarked DEF IInv
<1>4. Good' \subseteq Good /\ Good \subseteq Good' /\ \A b \in Block : Built(b) => Built(b)'
  BY <1>1, <1>3, GoodMarks
<1>5. pc'[t] = "cIndex" /\ "cIndex" \in Place
  BY <1>1, GotoTypes DEF IInv, Place, Critical
<1>6. Calm => Covered'
  <2>1. ASSUME Calm
        PROVE  Covered'
    <3>1. PICK f \in Block : Covers(f)
      BY <1>1, <2>1, HolderCovered DEF Covered, Activating
    <3>. QED  BY <1>1, <1>4, <3>1, CoversKept DEF Covers
  <2>. QED  BY <2>1
<1>7. Calm => Chosen(t)'
  BY <1>1, <1>4, <1>5, ChosenKept DEF Activating
<1>8. Working(t)'
  BY <1>5 DEF Working
<1>. QED  BY <1>1, <1>2, <1>4, <1>5, <1>6, <1>7, <1>8, TipStays

LEMMA RefusedCandidates ==
  ASSUME IInv, AInv, DInv, [Next]_vars, NEW t \in Thread, StepRefused(t)
  PROVE  DInv'
<1>. DEFINE n == NextBlock(t)
<1>1. /\ UNCHANGED <<kind, linked, seq, tip, loc>> /\ pc[t] = "step" /\ Goto(t, "check") /\ Connecting(t)
      /\ \/ kind[n] = "connect" /\ idx' = [idx EXCEPT ![n].fv = TRUE] /\ cand' = cand \ {n}
         \/ UNCHANGED <<idx, cand>>
  BY DEF StepRefused, Connecting
<1>2. cs = t /\ n \in Known /\ n \in Block /\ n # Genesis
  BY <1>1, NextBlockFacts
<1>. HIDE DEF n
<1>3. ASSUME NEW f \in Block, Built(f), kind[n] = "connect"
      PROVE  n \notin Anc[f]
  BY <1>2, <1>3 DEF Built, HasData, AInv, UndoConnected
<1>4. /\ Good' \subseteq Good /\ cand' \subseteq cand /\ cand \cap Good' \subseteq cand'
      /\ \A b \in Block : Built(b) => Built(b)' /\ (b \in Good => b \in Good')
  <2>1. CASE kind[n] = "connect" /\ idx' = [idx EXCEPT ![n].fv = TRUE] /\ cand' = cand \ {n}
    <3>1. Marks({}, {n}, {})
      BY <1>2, <2>1, EntryMarked DEF IInv
    <3>2. n \notin Good'
      <4>1. PICK m \in Block : m = n
        BY <1>2
      <4>2. Failed(m)' /\ m \in Anc[m]
        BY <1>2, <3>1, <4>1, AncFacts DEF Marks, Failed, Known
      <4>. QED  BY <4>1, <4>2 DEF Good, Clean
    <3>3. Good' \subseteq Good /\ \A b \in Good : (\A a \in Anc[b] : a \notin {n}) => b \in Good'
      BY <1>1, <3>1, GoodMarks
    <3>4. \A b \in Block : Built(b) => Built(b)'
      BY <1>1, <3>1, GoodMarks
    <3>. QED  BY <1>3, <2>1, <3>2, <3>3, <3>4
  <2>2. CASE UNCHANGED <<idx, cand>>
    BY <1>1, <2>2, GoodSame
  <2>. QED  BY <1>1, <2>1, <2>2
<1>5. pc'[t] = "check" /\ "check" \in Place
  BY <1>1, GotoTypes DEF IInv, Place
<1>6. Calm => Covered'
  <2>1. ASSUME Calm
        PROVE  Covered'
    <3>1. PICK f \in Block : Covers(f)
      BY <1>1, <2>1, HolderCovered DEF Covered, Activating
    <3>. QED  BY <1>1, <1>4, <3>1, CoversKept DEF Covers
  <2>. QED  BY <2>1
<1>7. Chosen(t)'
  BY <1>5 DEF Chosen, Activating
<1>8. Working(t)'
  <2>1. loc[t].most # tip
    BY <1>1, StepFacts, AncFacts
  <2>. QED  BY <1>1, <1>5, <2>1 DEF Working
<1>. QED  BY <1>1, <1>2, <1>4, <1>5, <1>6, <1>7, <1>8, TipStays

LEMMA CheckCandidates ==
  ASSUME IInv, DInv, [Next]_vars, NEW t \in Thread, Check(t) \/ Periodic(t)
  PROVE  DInv'
<1>1. UNCHANGED <<kind, idx, linked, seq, cand, tip>> /\ pc[t] \in {"check", "periodic"}
  BY DEF Check, Periodic, tree
<1>2. loc \in [Thread -> Locals] /\ pc[t] \notin Critical
  BY <1>1 DEF IInv, TypeOK, Critical
<1>3. CASE Check(t)
  <2>1. PICK p \in {"periodic", "find"} :
          Goto(t, p) /\ (p = "periodic" => loc[t].most = tip) /\ \E l : loc' = [loc EXCEPT ![t] = l]
    BY <1>3, Zenon DEF Check, Activate
  <2>2. p \in Place /\ p \notin Critical /\ pc'[t] = p
    BY <2>1, GotoTypes DEF IInv, Place, Critical
  <2>3. \A u \in Thread \ {t} : loc'[u] = loc[u]
    BY <1>2, <2>1
  <2>4. Working(t) => Working(t)'
    BY <1>3, <2>1, <2>2 DEF Working, Check
  <2>. QED  BY <1>1, <1>2, <2>1, <2>2, <2>3, <2>4, OutsideStays
<1>4. CASE Periodic(t)
  <2>1. /\ cs = None /\ pc[t] = "periodic"
        /\ \/ Goto(t, "idle") /\ loc' = [loc EXCEPT ![t] = NoLocals]
           \/ Goto(t, "pCoins") /\ loc' = loc
    BY <1>4 DEF Periodic, Return
  <2>2. PICK p \in {"idle", "pCoins"} : Goto(t, p)
    BY <2>1
  <2>3. p \in Place /\ pc'[t] = p /\ p \notin Activating
    BY <2>2, GotoTypes DEF IInv, Place, Critical, Activating
  <2>4. \A u \in Thread \ {t} : loc'[u] = loc[u]
    BY <1>2, <2>1
  <2>5. Good' = Good /\ \A b : Built(b)' <=> Built(b)
    BY <1>1, GoodSame
  <2>6. Calm => Covered'
    BY <1>1, <2>1, <2>5, FreeCovered, CoversKept DEF Covered, Covers
  <2>7. Chosen(t)' /\ ~Working(t)
    BY <2>1, <2>3 DEF Chosen, Working
  <2>. QED  BY <1>1, <2>1, <2>2, <2>3, <2>4, <2>5, <2>6, <2>7, TipStays
<1>. QED  BY <1>3, <1>4

LEMMA InvalidateCandidates ==
  ASSUME IInv, DInv, [Next]_vars, NEW t \in Thread,
         InvalidateTip(t) \/ \E b \in Block : InvalidateBlock(t, b)
  PROVE  DInv'
<1>1. PICK p \in {"inv", "iIndex"} : Goto(t, p)
  BY DEF InvalidateTip, InvalidateBlock
<1>2. p \in Place /\ pc'[t] = p /\ p \in Invalidating /\ p \notin Activating
  BY <1>1, GotoTypes DEF IInv, Place, Critical, Activating, Invalidating
<1>3. UNCHANGED <<kind, linked, seq, tip>> /\ cand' \subseteq cand /\ cs \in {None, t}
  BY DEF InvalidateTip, InvalidateBlock, Idle, IInv, ThreadsOk, ThreadOk, Critical
<1>4. \A u \in Thread \ {t} : loc'[u] = loc[u]
  BY DEF InvalidateTip, InvalidateBlock, IInv, TypeOK
<1>5. Good' \subseteq Good
  <2>1. CASE InvalidateTip(t)
    <3>1. tip \in Known /\ idx' = [idx EXCEPT ![tip].fc = TRUE]
      BY <2>1 DEF InvalidateTip, IInv, TypeOK
    <3>2. Marks({}, {}, {tip})
      BY <3>1, EntryMarked DEF IInv
    <3>. QED  BY <1>3, <3>2, GoodMarks
  <2>2. ASSUME NEW b \in Block, InvalidateBlock(t, b)
        PROVE  Good' \subseteq Good
    <3>1. b \in Known /\ idx' = [idx EXCEPT ![b].fv = TRUE]
      BY <2>2 DEF InvalidateBlock
    <3>2. Marks({}, {b}, {})
      BY <3>1, EntryMarked, Zenon DEF IInv
    <3>. QED  BY <1>3, <3>2, GoodMarks
  <2>. QED  BY <2>1, <2>2
<1>6. Chosen(t)' /\ Working(t)'
  BY <1>1, <1>2 DEF Chosen, Working
<1>. QED  BY <1>1, <1>2, <1>3, <1>4, <1>5, <1>6, TipStays

-----------------------------------------------------------------------------
(* The tip moves *)

\* DisconnectTip
LEMMA DisconnectCandidates ==
  ASSUME IInv, DInv, [Next]_vars, NEW t \in Thread, pc[t] \in {"dCoins", "iCoins"}, WriteCoins(t)
  PROVE  DInv'
<1>1. /\ UNCHANGED <<kind, idx, linked, seq, cand, loc>> /\ tip' = coins
      /\ \/ pc[t] = "dCoins" /\ Goto(t, "step")
         \/ pc[t] = "iCoins" /\ Goto(t, "inv")
  BY DEF WriteCoins, tree
<1>2. cs = t /\ tip # Genesis /\ coins = Prev[tip]
  BY DEF IInv, ThreadsOk, ThreadOk, Critical
<1>3. PICK p \in {"step", "inv"} : Goto(t, p) /\ (p = "step" => pc[t] = "dCoins")
  BY <1>1
<1>4. p \in Place /\ pc'[t] = p /\ \A u \in Thread \ {t} : pc'[u] \notin Critical
  BY <1>2, <1>3, AloneMoves DEF IInv, Place, Critical
<1>5. Good' = Good /\ \A b : Built(b)' <=> Built(b)
  BY <1>1, GoodSame
<1>6. NoneWorse'
  <2>1. ASSUME NEW c \in cand
        PROVE  ~LessBy(seq, c, coins)
    <3>1. c \in Block /\ tip \in Block /\ Work[c] >= Work[tip]
      BY GoodFacts DEF IInv, NoWorse
    <3>2. Prev[tip] \in Block /\ Work[Prev[tip]] < Work[tip]
      BY <1>2, <3>1, PrevFacts
    <3>3. Work[c] \in Nat /\ Work[tip] \in Nat /\ Work[Prev[tip]] \in Nat
      BY <3>1, <3>2, AncFacts
    <3>. QED  BY <1>2, <3>1, <3>2, <3>3, WorkFirst
  <2>. QED  BY <1>1, <2>1 DEF NoneWorse, Less
<1>7. Working(t)'
  BY <1>3, <1>4 DEF Working
<1>8. Calm => Covered' \/ p \in Invalidating
  BY <1>1, <1>3, <1>5, HolderCovered, CoversKept DEF Covered, Covers, Activating, Invalidating
<1>9. Calm => Chosen(t)'
  BY <1>1, <1>3, <1>4, <1>5, ChosenKept DEF Activating
<1>. QED  BY <1>4, <1>6, <1>7, <1>8, <1>9, CalmStep, SoloStep

\* PruneBlockIndexCandidates: the new tip covers what it drops.
LEMMA PrunedCovered ==
  ASSUME IInv, DInv, Calm, NEW t \in Thread, pc[t] \in {"cIndex", "cCoins"},
         coins \in Good, Built(coins), cand' = Pruned(coins), UNCHANGED <<idx, linked, seq>>
  PROVE  Covered'
<1>1. PICK f \in Block : Covers(f)
  BY HolderCovered DEF Covered, Activating
<1>2. f \in cand /\ f \in Good /\ Built(f) /\ \A b \in Good : b \in cand \/ Less(b, f)
  BY <1>1 DEF Covers
<1>3. Good' = Good /\ \A b : Built(b)' <=> Built(b)
  BY GoodSame
<1>4. seq \in [Block -> Nat] /\ \A b \in Good : b \in Block
  BY GoodFacts
<1>5. cand' = {c \in cand : ~Less(c, coins)}
  BY DEF Pruned
<1>6. CASE ~Less(f, coins)
  <2>1. ASSUME NEW b \in Good, b \notin cand'
        PROVE  Less(b, f)
    <3>1. CASE b \in cand
      <4>1. Less(b, coins)
        BY <1>5, <2>1, <3>1
      <4>. QED  BY <1>4, <1>6, <4>1, Order DEF Less
    <3>. QED  BY <1>2, <3>1
  <2>2. f \in cand'
    BY <1>2, <1>5, <1>6
  <2>3. \A b \in Good' : b \in cand' \/ Less(b, f)'
    BY <1>3, <2>1 DEF Less, LessBy
  <2>4. Covers(f)'
    BY <1>2, <1>3, <2>2, <2>3 DEF Covers
  <2>. QED  BY <2>4 DEF Covered
<1>7. CASE Less(f, coins)
  <2>1. PICK g \in Block : g = coins
    BY <1>4
  <2>2. ~Less(g, f) /\ ~Less(g, g)
    BY <1>4, <1>7, <2>1, Order DEF Less
  <2>3. g \in cand' /\ g \in Good /\ Built(g)
    <3>1. g \in Good /\ Built(g)
      BY <2>1 DEF Built
    <3>. QED  BY <1>2, <1>5, <2>1, <2>2, <3>1
  <2>4. ASSUME NEW b \in Good, b \notin cand'
        PROVE  Less(b, g)
    <3>1. CASE b \in cand
      BY <1>5, <2>1, <2>4, <3>1
    <3>2. CASE Less(b, f)
      BY <1>4, <1>7, <2>1, <3>2, Order DEF Less
    <3>. QED  BY <1>2, <3>1, <3>2
  <2>5. \A b \in Good' : b \in cand' \/ Less(b, g)'
    BY <1>3, <2>4 DEF Less, LessBy
  <2>6. Covers(g)'
    BY <1>3, <2>3, <2>5 DEF Covers
  <2>. QED  BY <2>6 DEF Covered
<1>. QED  BY <1>6, <1>7

\* ConnectTip
LEMMA ConnectedCandidates ==
  ASSUME IInv, AInv, TreeConsistent, DInv, [Next]_vars, NEW t \in Thread, pc[t] \in {"cIndex", "cCoins"},
         Connected(t), UNCHANGED <<kind, idx, linked, seq, loc>>
  PROVE  DInv'
<1>1. /\ tip' = coins /\ cand' = Pruned(coins)
      /\ \/ Goto(t, "check")
         \/ Goto(t, "step") /\ coins # loc[t].most
  BY DEF Connected
<1>2. /\ cs = t /\ pc[t] \in Activating /\ pc[t] \in Critical /\ pc[t] \notin Invalidating
      /\ Built(coins) /\ coins \in Block
  BY DEF IInv, ThreadsOk, ThreadOk, Critical, Activating, Invalidating, TypeOK, Known
<1>3. PICK p \in {"check", "step"} : Goto(t, p)
  BY <1>1
<1>4. p \in Place /\ pc'[t] = p /\ \A u \in Thread \ {t} : pc'[u] \notin Critical
  BY <1>2, <1>3, AloneMoves DEF IInv, Place, Critical
<1>5. Good' = Good
  BY GoodSame
<1>6. NoneWorse'
  BY <1>1 DEF NoneWorse, Pruned, Less, LessBy
<1>7. ASSUME Calm
      PROVE  coins \in Good
  <2>1. coins \in linked
    BY <1>2 DEF TreeConsistent, Built
  <2>2. Clean(coins)
    BY <1>2, <1>7, CoinsClean DEF Calm
  <2>. QED  BY <1>2, <2>1, <2>2 DEF Good
<1>8. Calm => Covered'
  BY <1>1, <1>2, <1>7, PrunedCovered
<1>9. Calm => Chosen(t)'
  BY <1>2, <1>5, ChosenKept
<1>10. Calm => Settled' \/ Working(t)'
  <2>1. CASE coins = loc[t].most
    <3>1. Calm => \A b \in Good : ~Less(coins, b)
      BY <1>2, <2>1 DEF DInv, Chosen
    <3>. QED  BY <1>1, <1>5, <3>1 DEF Settled, Less, LessBy
  <2>2. CASE coins # loc[t].most
    BY <1>1, <1>3, <1>4, <2>2 DEF Working
  <2>. QED  BY <2>1, <2>2
<1>. QED  BY <1>4, <1>6, <1>8, <1>9, <1>10, CalmStep, SoloStep

\* The rest of WriteCoins, and ConnectTip without a flush.
LEMMA CoinsCandidates ==
  ASSUME IInv, AInv, TreeConsistent, DInv, [Next]_vars, NEW t \in Thread, WriteCoins(t) \/ NoFlush(t)
  PROVE  DInv'
<1>1. CASE pc[t] \in {"dCoins", "iCoins"} /\ WriteCoins(t)
  BY <1>1, DisconnectCandidates
<1>2. CASE pc[t] \in {"cIndex", "cCoins"} /\ Connected(t)
  <2>1. UNCHANGED <<kind, idx, linked, seq, loc>>
    BY <1>2 DEF WriteCoins, NoFlush, tree
  <2>. QED  BY <1>2, <2>1, ConnectedCandidates
<1>3. CASE pc[t] = "pCoins" /\ WriteCoins(t)
  <2>1. /\ Goto(t, "idle") /\ UNCHANGED <<kind, idx, linked, seq, cand, tip>>
        /\ loc' = [loc EXCEPT ![t] = NoLocals] /\ loc \in [Thread -> Locals]
    BY <1>3 DEF WriteCoins, Return, tree, IInv, TypeOK
  <2>2. "idle" \in Place /\ pc'[t] = "idle"
    BY <2>1, GotoTypes DEF IInv, Place
  <2>3. cs = t /\ \A u \in Thread : pc[u] \notin Invalidating
    BY <1>3, Alone DEF IInv, ThreadsOk, ThreadOk, Critical, Invalidating
  <2>4. Good' = Good /\ \A b : Built(b)' <=> Built(b)
    BY <2>1, GoodSame
  <2>5. Calm => Covered'
    BY <2>1, <2>3, <2>4, CoversKept DEF DInv, Covered, Covers
  <2>6. Chosen(t)' /\ ~Working(t)
    BY <1>3, <2>2 DEF Chosen, Working, Activating
  <2>7. \A u \in Thread \ {t} : loc'[u] = loc[u]
    BY <2>1
  <2>. QED  BY <2>1, <2>2, <2>3, <2>4, <2>5, <2>6, <2>7, TipStays
<1>. QED  BY <1>1, <1>2, <1>3, Zenon DEF WriteCoins, NoFlush

-----------------------------------------------------------------------------
(* Candidates are added *)

\* The end of InvalidateBlock: the new tip is good, and PutBack restores what it covers.
LEMMA InvalidatedCandidates ==
  ASSUME IInv, IInv', AInv', TreeConsistent', DInv, [Next]_vars, NEW t \in Thread, InvalidateDone(t)
  PROVE  DInv'
<1>1. /\ pc[t] = "inv" /\ Goto(t, "find") /\ cand' = cand \cup PutBack
      /\ UNCHANGED <<kind, idx, linked, seq, tip>>
  BY DEF InvalidateDone, Activate, tree
<1>2. cs = t
  BY <1>1, HolderLock DEF Critical
<1>3. pc'[t] = "find" /\ \A u \in Thread : pc'[u] \notin Critical
  BY <1>1, <1>2, AloneMoves DEF Place, Critical
<1>4. NoneWorse'
  BY <1>1, Zenon DEF DInv, NoneWorse, PutBack, Less, LessBy
<1>5. Chosen(t)' /\ Working(t)'
  BY <1>3 DEF Chosen, Working, Activating
<1>6. ASSUME Calm'
      PROVE  Covered'
  <2>1. Clean(tip)'
    BY <1>3, <1>6, FreeClean
  <2>2. Good' = Good
    BY <1>1, GoodSame
  <2>3. ASSUME NEW b \in Good
        PROVE  b \in cand' \/ Less(b, tip)
    <3>1. b \in Block /\ b \in linked /\ b \in Anc[b] /\ \A a \in Anc[b] : HasData(a) /\ ~Failed(a)
      BY GoodFacts, AncFacts
    <3>2. b \in Known /\ ~Failed(b)
      BY <3>1 DEF Known, HasData
    <3>. QED  BY <1>1, <3>1, <3>2 DEF PutBack
  <2>4. \A b \in Good' : b \in cand' \/ Less(b, tip)'
    BY <1>1, <2>2, <2>3 DEF Less, LessBy
  <2>. QED  BY <2>1, <2>4, TipCovers
<1>. QED  BY <1>3, <1>4, <1>5, <1>6, SoloStep

\* LoadBlockIndexDB
LEMMA CrashCandidates ==
  ASSUME IInv, IInv', AInv', TreeConsistent', DInv, [Next]_vars, Crash
  PROVE  DInv'
<1>1. /\ cand' = LoadedCandidates /\ seq' = [b \in Block |-> 0] /\ tip' = coinsDisk
      /\ idx' = disk /\ linked' = LoadedLinked
      /\ \E t \in Thread : pc' = [u \in Thread |-> IF u = t THEN "find" ELSE "idle"]
  BY DEF Crash
<1>2. PICK t \in Thread : pc' = [u \in Thread |-> IF u = t THEN "find" ELSE "idle"]
  BY <1>1
<1>3. pc'[t] = "find" /\ \A u \in Thread : pc'[u] \notin Critical
  BY <1>2 DEF Critical
<1>4. NoneWorse'
  BY <1>1 DEF NoneWorse, LoadedCandidates, Less
<1>5. Chosen(t)' /\ Working(t)'
  BY <1>3 DEF Chosen, Working, Activating
<1>6. ASSUME Calm'
      PROVE  Covered'
  <2>1. Clean(tip)'
    BY <1>3, <1>6, FreeClean
  <2>2. ASSUME NEW b \in Good'
        PROVE  b \in cand' \/ Less(b, tip)'
    <3>1. b \in LoadedLinked /\ b \in Block /\ \A a \in Anc[b] : ~Failed(a)'
      BY <1>1, <2>2 DEF Good, Clean
    <3>2. ~disk[b].fv /\ ~disk[b].fc
      BY <1>1, <3>1, AncFacts DEF Failed
    <3>. QED  BY <1>1, <3>1, <3>2 DEF LoadedCandidates, Less
  <2>. QED  BY <2>1, <2>2, TipCovers
<1>. QED  BY <1>3, <1>4, <1>5, <1>6, SoloStep

\* ReceivedBlockTransactions numbers the new blocks only, so that the order of the others stays.
LEMMA LinkedCandidates ==
  ASSUME IInv, TreeConsistent, DInv, [Next]_vars, NEW t \in Thread, NEW b \in Block,
         AcceptBlock(t, b), Prev[b] \in linked, seq' \in [Block -> Nat]
  PROVE  DInv'
<1>1. /\ cs = None /\ Goto(t, "find") /\ UNCHANGED <<kind, tip>> /\ linked' = linked \cup Linking(b)
      /\ \E f \in Numberings(b) : seq' = [d \in Block |-> IF d \in Linking(b) THEN f[d] ELSE seq[d]]
      /\ cand' = cand \cup {d \in Linking(b) : ~LessBy(seq', d, tip)}
  BY DEF AcceptBlock, Idle, Activate
<1>2. Written(b)
  BY AcceptWrites
<1>3. /\ seq \in [Block -> Nat] /\ tip \in Block /\ cand \subseteq linked /\ linked \subseteq Block
  BY GoodFacts
<1>4. tip \in linked
  BY <1>3 DEF IInv, Built, TreeConsistent
<1>5. \A d \in linked : d \in Block /\ d \notin Linking(b)
  <2>1. \A d \in linked : b \notin Anc[d]
    BY <1>2, GoodWritten
  <2>. QED  BY <1>3, <2>1 DEF Linking
<1>6. \A d \in linked : seq'[d] = seq[d]
  BY <1>1, <1>3, <1>5
<1>7. \A d, e \in linked : LessBy(seq', d, e) <=> LessBy(seq, d, e)
  BY <1>6, Zenon DEF LessBy
<1>8. NoneWorse'
  BY <1>1, <1>3, <1>4, <1>7, Zenon DEF DInv, NoneWorse, Less
<1>9. pc'[t] = "find" /\ \A u \in Thread \ {t} : pc'[u] \notin Critical
  BY <1>1, AloneMoves, Zenon DEF Place
<1>10. Chosen(t)' /\ Working(t)'
  BY <1>9 DEF Chosen, Working, Activating
<1>11. ASSUME Calm
       PROVE  Covered'
  <2>1. PICK f \in Block : Covers(f)
    BY <1>1, <1>11, FreeCovered DEF Covered
  <2>2. f \in cand /\ f \in Good /\ f \in linked /\ Built(f) /\ \A d \in Good : d \in cand \/ Less(d, f)
    BY <1>3, <2>1 DEF Covers
  <2>3. \A d \in linked : d \in Good' <=> d \in Good
    <3>1. ASSUME NEW d \in linked
          PROVE  d \in Good' <=> d \in Good
      <4>1. \A a \in Anc[d] : Failed(a)' <=> Failed(a)
        BY <1>2, GoodWritten
      <4>. QED  BY <1>1, <1>3, <4>1 DEF Good, Clean
    <3>. QED  BY <3>1
  <2>4. Built(f)'
    BY <1>2, <2>2, GoodWritten
  <2>5. ASSUME NEW d \in Good'
        PROVE  d \in cand' \/ LessBy(seq', d, f)
    <3>1. d \in Block /\ d \in linked \cup Linking(b)
      BY <1>1, <2>5 DEF Good
    <3>2. CASE d \in linked
      BY <1>1, <1>7, <2>2, <2>3, <2>5, <3>2, Zenon DEF Less
    <3>3. CASE d \in Linking(b) /\ LessBy(seq', d, tip)
      <4>1. ~LessBy(seq', f, tip)
        BY <1>4, <1>7, <2>2, Zenon DEF DInv, NoneWorse, Less
      <4>. QED  BY <1>3, <3>1, <3>3, <4>1, Order
    <3>. QED  BY <1>1, <3>1, <3>2, <3>3
  <2>6. \A d \in Good' : d \in cand' \/ Less(d, f)'
    BY <2>5 DEF Less
  <2>7. Covers(f)'
    BY <1>1, <2>2, <2>3, <2>4, <2>6, Zenon DEF Covers
  <2>. QED  BY <2>7 DEF Covered
<1>. QED  BY <1>8, <1>9, <1>10, <1>11, CalmStep, SoloStep

\* A block that links nothing changes no candidate.
LEMMA ArriveCandidates ==
  ASSUME IInv, DInv, [Next]_vars, NEW t \in Thread, NEW b \in Block,
         \/ AcceptBlock(t, b) /\ Prev[b] \notin linked
         \/ AcceptKnown(t, b) \/ AcceptBadContext(t, b) \/ AcceptWriteFails(t, b)
  PROVE  DInv'
<1>1. cs = None /\ pc[t] = "idle" /\ UNCHANGED <<kind, linked, seq, cand, tip>>
  BY DEF AcceptBlock, AcceptKnown, AcceptBadContext, AcceptWriteFails, Idle, tree
<1>2. pc \in [Thread -> Place] /\ loc \in [Thread -> Locals]
  BY DEF IInv, TypeOK, Place, Critical
<1>3. Good' = Good /\ \A d \in Block : Built(d) => Built(d)'
  <2>1. CASE AcceptKnown(t, b)
    <3>1. idx' = idx
      BY <2>1 DEF AcceptKnown, tree
    <3>. QED  BY <1>1, <3>1, GoodSame
  <2>2. CASE AcceptBlock(t, b) \/ AcceptBadContext(t, b) \/ AcceptWriteFails(t, b)
    <3>1. Written(b)
      BY <2>2, AcceptWrites, Zenon
    <3>. QED  BY <1>1, <3>1, GoodWritten, Zenon
  <2>. QED  BY <2>1, <2>2
<1>4. PICK p \in {"idle", "find"} : Goto(t, p) /\ \A u \in Thread \ {t} : loc'[u] = loc[u]
  <2>1. CASE Activate(t, b)
    BY <1>2, <2>1 DEF Activate
  <2>2. CASE UNCHANGED threads
    <3>1. pc' = [pc EXCEPT ![t] = "idle"] /\ loc' = loc
      BY <1>1, <1>2, <2>2 DEF threads
    <3>. QED  BY <3>1 DEF Goto
  <2>. QED  BY <2>1, <2>2 DEF AcceptBlock, AcceptKnown, AcceptBadContext, AcceptWriteFails
<1>5. p \in Place /\ pc'[t] = p
  BY <1>4, GotoTypes DEF IInv, Place
<1>6. Calm => Covered'
  BY <1>1, <1>3, FreeCovered, CoversKept, Zenon DEF Covered, Covers
<1>7. Chosen(t)' /\ ~Working(t)
  BY <1>1, <1>4, <1>5, Zenon DEF Chosen, Working, Activating
<1>. QED  BY <1>1, <1>3, <1>4, <1>5, <1>6, <1>7, TipStays, Zenon

LEMMA ReconsiderCandidates ==
  ASSUME IInv, DInv, [Next]_vars, NEW t \in Thread, NEW b \in Block,
         ReconsiderCommand(t, b) \/ AcceptOnCheckpoint(t, b)
  PROVE  DInv'
<1>1. PICK p : cand' = cand \cup ReconsideredCandidates(p)
  BY DEF ReconsiderCommand, AcceptOnCheckpoint, ReconsiderBlock
<1>2. UNCHANGED <<seq, tip>>
  BY ReconsiderSteps
<1>3. /\ seq \in [Block -> Nat] /\ tip \in Block /\ cand \subseteq linked /\ linked \subseteq Block
  BY GoodFacts
<1>4. ASSUME NEW c \in ReconsideredCandidates(p)
      PROVE  ~Less(c, tip)
  <2>1. c \in linked /\ Less(tip, c)
    BY DEF ReconsideredCandidates
  <2>. QED  BY <1>3, <2>1, Order DEF Less
<1>5. NoneWorse'
  BY <1>1, <1>2, <1>4 DEF DInv, NoneWorse, Less
<1>6. ~Calm'
  BY CalmStep
<1>. QED  BY <1>5, <1>6, Zenon DEF DInv

LEMMA StutterCandidates ==
  ASSUME DInv, UNCHANGED vars
  PROVE  DInv'
<1>1. UNCHANGED <<kind, idx, linked, seq, cand, tip, pc, loc, count>>
  BY DEF vars
<1>2. Good' = Good /\ \A b : Built(b)' <=> Built(b)
  BY <1>1, GoodSame
<1>3. NoneWorse' <=> NoneWorse
  BY <1>1 DEF NoneWorse, Less, LessBy
<1>4. (Calm' <=> Calm) /\ (Readable' <=> Readable) /\ (Settled => Settled')
  BY <1>1, <1>2 DEF Calm, NotBoth, NoReconsider, Readable, Settled, Less, LessBy
<1>5. Covered => Covered'
  BY <1>1, <1>2, CoversKept DEF Covered, Covers
<1>6. ASSUME NEW t \in Thread
      PROVE  /\ Chosen(t) => Chosen(t)'
             /\ Working(t) => Working(t)'
             /\ pc[t] \in Invalidating => pc'[t] \in Invalidating
  BY <1>1, <1>2 DEF Chosen, Working, Less, LessBy
<1>. QED  BY <1>3, <1>4, <1>5, <1>6, Zenon DEF DInv

LEMMA CandidateStep ==
  ASSUME IInv, IInv', AInv, AInv', TreeConsistent, TreeConsistent', DInv, [Next]_vars
  PROVE  DInv'
<1>1. ASSUME NEW t \in Thread, Run(t)
      PROVE  DInv'
  <2>1. CASE Find(t)
    BY <2>1, FindCandidates
  <2>2. CASE StepDisconnect(t) \/ StepFails(t) \/ WriteIndex(t)
    BY <2>2, IndexSteps
  <2>3. CASE StepConnect(t)
    BY <2>3, ConnectCandidates
  <2>4. CASE StepRefused(t)
    BY <2>4, RefusedCandidates
  <2>5. CASE WriteCoins(t) \/ NoFlush(t)
    BY <2>5, CoinsCandidates
  <2>6. CASE Check(t) \/ Periodic(t)
    BY <2>6, CheckCandidates
  <2>7. CASE InvalidateTip(t)
    BY <2>7, InvalidateCandidates
  <2>8. CASE InvalidateDone(t)
    BY <2>8, InvalidatedCandidates
  <2>. QED  BY <1>1, <2>1, <2>2, <2>3, <2>4, <2>5, <2>6, <2>7, <2>8, Zenon DEF Run
<1>2. ASSUME NEW t \in Thread, NEW b \in Block, Arrive(t, b)
      PROVE  DInv'
  <2>1. CASE AcceptRefused(t, b)
    BY <2>1, StutterCandidates DEF AcceptRefused
  <2>2. CASE AcceptBlock(t, b) /\ Prev[b] \in linked
    <3>1. seq' \in [Block -> Nat]
      BY DEF IInv, TypeOK
    <3>. QED  BY <2>2, <3>1, LinkedCandidates
  <2>3. CASE \/ AcceptBlock(t, b) /\ Prev[b] \notin linked
             \/ AcceptKnown(t, b) \/ AcceptBadContext(t, b) \/ AcceptWriteFails(t, b)
    BY <2>3, ArriveCandidates
  <2>4. CASE ReconsiderCommand(t, b) \/ AcceptOnCheckpoint(t, b)
    BY <2>4, ReconsiderCandidates
  <2>5. CASE InvalidateBlock(t, b)
    BY <2>5, InvalidateCandidates
  <2>. QED  BY <1>2, <2>1, <2>2, <2>3, <2>4, <2>5, Zenon DEF Arrive
<1>3. CASE Crash
  BY <1>3, CrashCandidates
<1>4. CASE UNCHANGED vars
  BY <1>4, StutterCandidates
<1>. QED  BY <1>1, <1>2, <1>3, <1>4 DEF Next

LEMMA InitCandidates == Init => DInv
<1>. SUFFICES ASSUME Init
              PROVE  DInv
  OBVIOUS
<1>1. /\ Genesis \in Block /\ Anc[Genesis] = {Genesis} /\ tip = Genesis /\ HasData(Genesis)
      /\ ~Failed(Genesis) /\ linked = {Genesis} /\ cand = {Genesis} /\ seq \in [Block -> Nat]
      /\ \A t \in Thread : pc[t] = "idle"
  BY InitFacts DEF Init, Failed
<1>2. ~Less(Genesis, Genesis)
  BY <1>1, Order DEF Less
<1>3. Good = {Genesis} /\ Built(Genesis)
  BY <1>1 DEF Good, Clean, Built
<1>4. NoneWorse /\ Settled
  BY <1>1, <1>2, <1>3 DEF NoneWorse, Settled
<1>5. Covered
  BY <1>1, <1>3 DEF Covered, Covers
<1>6. \A t \in Thread : Chosen(t)
  BY <1>1 DEF Chosen, Activating
<1>. QED  BY <1>4, <1>5, <1>6, Zenon DEF DInv

LEMMA CandidateInvariant == Spec => []DInv
<1>1. IInv /\ IInv' /\ AInv /\ AInv' /\ TreeConsistent /\ TreeConsistent' /\ DInv /\ [Next]_vars => DInv'
  BY CandidateStep
<1>. QED  BY <1>1, InitCandidates, Invariance, ActiveInvariant, TreeAlwaysConsistent, PTL DEF Spec

-----------------------------------------------------------------------------
(* The theorems *)

\* ActivateBestChain leaves the best chain active: when every thread is done, no complete
\* branch without a failed block beats the tip, for any block tree, any verdicts of
\* ConnectBlock and any number of threads, whatever arrives while cs_main is released between
\* two steps.
THEOREM BestChainAlwaysActive == Spec => [](Calm => BestChainActive)
<1>1. ASSUME IInv, DInv, Calm
      PROVE  BestChainActive
  <2>. SUFFICES ASSUME Readable, \A t \in Thread : pc[t] = "idle",
                       NEW b \in linked, \A a \in Anc[b] : ~Failed(a)
                PROVE  ~Less(tip, b)
    BY Zenon DEF BestChainActive
  <2>1. b \in Good
    BY <1>1, GoodFacts DEF Good, Clean
  <2>2. \A t \in Thread : ~Working(t)
    BY DEF Working
  <2>3. Settled
    BY <1>1, <2>2 DEF DInv
  <2>. QED  BY <2>1, <2>3 DEF Settled
<1>2. IInv /\ DInv => (Calm => BestChainActive)
  BY <1>1
<1>. QED  BY <1>2, CandidateInvariant, Invariance, PTL

\* CheckBlockIndex's assertions on setBlockIndexCandidates hold whenever no thread is between
\* two steps of ActivateBestChain: it holds no block worse than the tip, and every complete
\* block at least as good without an invalid ancestor, although PruneBlockIndexCandidates
\* drops blocks and a later failure or invalidation can make them good enough again.
THEOREM CandidatesAlwaysComplete == Spec => [](Calm => CandidatesWhenQuiescent)
<1>1. Init => CInv
  BY InitCauses
<1>2. IInv /\ CInv /\ [Next]_vars => CInv'
  BY CauseStep
<1>3. Spec => []CInv
  BY <1>1, <1>2, Invariance, PTL DEF Spec
<1>4. ASSUME IInv, CInv, DInv, Calm
      PROVE  CandidatesWhenQuiescent
  <2>. SUFFICES ASSUME Quiescent, Readable
                PROVE  CandidatesComplete
    BY Zenon DEF CandidatesWhenQuiescent
  <2>1. NoneWorse
    BY <1>4 DEF DInv
  <2>2. \A t \in Thread : ~Working(t) /\ pc[t] \notin Invalidating
    BY DEF Quiescent, Working, Invalidating
  <2>3. Settled /\ Covered
    BY <1>4, <2>2 DEF DInv
  <2>4. PICK f \in Block : Covers(f)
    BY <2>3 DEF Covered
  <2>5. ASSUME NEW b \in linked, ~Less(b, tip), \A a \in Anc[b] : ~idx[a].fv
        PROVE  b \in cand
    <3>1. seq \in [Block -> Nat] /\ tip \in Block /\ b \in Block
      BY <1>4, GoodFacts
    <3>2. ASSUME NEW a \in Anc[b]
          PROVE  ~Failed(a)
      <4>1. a \in Known /\ Anc[a] \subseteq Anc[b]
        BY <1>4, <3>1, AncFacts DEF IInv, LinkedHasData, HasData, Known
      <4>. QED  BY <1>4, <2>5, <4>1 DEF CInv, Calm, Caused
    <3>3. b \in Good
      BY <3>1, <3>2 DEF Good, Clean
    <3>4. ASSUME Less(b, f)
          PROVE  FALSE
      <4>1. ~Less(tip, f)
        BY <2>3, <2>4 DEF Settled, Covers
      <4>. QED  BY <2>5, <3>1, <3>4, <4>1, Order DEF Less
    <3>. QED  BY <2>4, <3>3, <3>4 DEF Covers
  <2>. QED  BY <2>1, <2>5 DEF CandidatesComplete, NoneWorse
<1>5. IInv /\ CInv /\ DInv => (Calm => CandidatesWhenQuiescent)
  BY <1>4
<1>. QED  BY <1>3, <1>5, CandidateInvariant, Invariance, PTL

\* The assertion at the end of PruneBlockIndexCandidates: whenever cs_main is free, also after
\* a restart, there is a candidate, and it needs no readable block file.
THEOREM CandidatesNeverEmpty == Spec => [](Calm => CandidatesNonempty)
<1>1. ASSUME IInv, DInv, Calm
      PROVE  CandidatesNonempty
  BY <1>1, FreeCovered DEF CandidatesNonempty, Covered, Covers
<1>2. IInv /\ DInv => (Calm => CandidatesNonempty)
  BY <1>1
<1>. QED  BY <1>2, CandidateInvariant, Invariance, PTL
=============================================================================
