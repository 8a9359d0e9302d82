-------------------------- MODULE CheckQueueProofs --------------------------
(***************************************************************************)
(* Proofs about the script verification queue (CheckQueue), for every      *)
(* number of worker threads, every batch size and every sequence of        *)
(* batches.                                                                *)
(*                                                                         *)
(* The invariant counts: nTodo, nTotal and nIdle are the sizes of three    *)
(* sets. It also says what is known of the block's verdict while the       *)
(* checks are spread over the queue, the threads' groups and fAllOk.       *)
(***************************************************************************)
EXTENDS CheckQueue, FiniteSetTheorems, SequenceTheorems, TLAPS

\* Workers never leave Loop but for good; the master always comes back.
Roles ==
  /\ pc[Master] # "exited"
  /\ \A w \in Workers : pc[w] \notin {"outside", "adding"}

\* Nobody runs an empty group.
GroupsNonempty == \A t \in Threads : pc[t] \in {"executing", "executed"} => nNow[t] >= 1

Counters == CountersAgree /\ IsFiniteSet(InGroups)

\* What thread t's group has shown so far, and will show, is that its checks pass.
GroupPasses(t) ==
  /\ pc[t] = "executing" => fOk[t] /\ \A i \in DOMAIN vChecks[t] : vChecks[t][i]
  /\ pc[t] = "executed" => fOk[t]

QueuePasses == \A i \in DOMAIN queue : queue[i]

Passing == fAllOk /\ QueuePasses /\ \A t \in Threads : GroupPasses(t)

\* The checks of this block pass exactly when all that is left of them does.
VerdictPending == pc[Master] # "outside" => (allGood <=> Passing)

\* Between two blocks nothing is left over.
Settled == pc[Master] = "outside" => nTodo = 0 /\ fAllOk /\ verdict = allGood

IInv ==
  /\ TypeOK /\ Roles /\ GroupsNonempty /\ Counters /\ VerdictPending /\ Settled

-----------------------------------------------------------------------------
(* Counting. *)

LEMMA ThreadsFinite == IsFiniteSet(Threads)
  BY FS_AddElement, CheckQueueAssumption DEF Threads

\* Two sets of threads that differ in t only.
LEMMA CountChange ==
  ASSUME NEW S \in SUBSET Threads, NEW t \in Threads
  PROVE  /\ IsFiniteSet(S) /\ Cardinality(S) \in Nat
         /\ IsFiniteSet(S \cup {t}) /\ IsFiniteSet(S \ {t})
         /\ Cardinality(S \cup {t}) = IF t \in S THEN Cardinality(S) ELSE Cardinality(S) + 1
         /\ Cardinality(S \ {t}) = IF t \in S THEN Cardinality(S) - 1 ELSE Cardinality(S)
  <1>1. IsFiniteSet(S)
    BY ThreadsFinite, FS_Subset
  <1> QED
    BY <1>1, FS_AddElement, FS_RemoveElement, FS_CardinalityType

\* The places of one group.
LEMMA GroupFinite ==
  ASSUME NEW t, NEW n \in Nat
  PROVE  IsFiniteSet({t} \X (1..n)) /\ Cardinality({t} \X (1..n)) = n
  <1>1. IsFiniteSet({t}) /\ Cardinality({t}) = 1
    BY FS_Singleton
  <1>2. IsFiniteSet(1..n) /\ Cardinality(1..n) = n
    BY FS_Interval
  <1>3. /\ IsFiniteSet({t} \X (1..n))
        /\ Cardinality({t} \X (1..n)) = Cardinality({t}) * Cardinality(1..n)
    BY Zenon, <1>1, <1>2, FS_Product
  <1> QED
    BY <1>1, <1>2, <1>3

\* When one group changes its size, the number of places changes with it.
LEMMA HeldChange ==
  ASSUME NEW f \in [Threads -> Nat], NEW g \in [Threads -> Nat], NEW t \in Threads,
         \A u \in Threads \ {t} : f[u] = g[u], IsFiniteSet(Held(f))
  PROVE  /\ IsFiniteSet(Held(g))
         /\ Cardinality(Held(f)) \in Nat /\ Cardinality(Held(g)) \in Nat
         /\ Cardinality(Held(g)) - g[t] = Cardinality(Held(f)) - f[t]
         /\ Cardinality(Held(f)) >= f[t]
  <1> DEFINE F == {t} \X (1..f[t])
             G == {t} \X (1..g[t])
             Rest == Held(f) \ F
  <1>1. F \subseteq Held(f) /\ Held(f) \cap F = F
    BY DEF Held
  <1>2. Held(g) = Rest \cup G /\ Rest \cap G = {}
    BY DEF Held
  <1>3. IsFiniteSet(F) /\ Cardinality(F) = f[t] /\ IsFiniteSet(G) /\ Cardinality(G) = g[t]
    BY GroupFinite
  <1> HIDE DEF F, G, Rest
  <1>4. Rest = Held(f) \ F
    BY DEF Rest
  <1>5. IsFiniteSet(Rest) /\ Cardinality(Rest) = Cardinality(Held(f)) - f[t]
    <2>1. /\ IsFiniteSet(Held(f) \ F)
          /\ Cardinality(Held(f) \ F) = Cardinality(Held(f)) - Cardinality(Held(f) \cap F)
      BY Zenon, FS_Difference
    <2> QED
      BY <2>1, <1>1, <1>3, <1>4
  <1>6. Cardinality(Rest) \in Nat /\ Cardinality(Held(f)) \in Nat
    BY <1>5, FS_CardinalityType
  <1>7. IsFiniteSet(Held(g)) /\ Cardinality(Held(g)) = Cardinality(Rest) + g[t]
    <2>1. Cardinality(Rest \cap G) = 0
      BY <1>2, FS_EmptySet
    <2>2. IsFiniteSet(Rest \cup G)
          /\ Cardinality(Rest \cup G) = Cardinality(Rest) + Cardinality(G) - Cardinality(Rest \cap G)
      BY <1>3, <1>5, FS_Union
    <2> QED
      BY <2>1, <2>2, <1>2, <1>3, <1>6
  <1> QED
    BY <1>5, <1>6, <1>7

\* With no place there is no group.
LEMMA NothingHeld ==
  ASSUME NEW f \in [Threads -> Nat], IsFiniteSet(Held(f)), Cardinality(Held(f)) = 0, NEW t \in Threads
  PROVE  f[t] = 0
  <1>1. Held(f) = {}
    BY FS_EmptySet
  <1>2. f[t] > 0 => <<t, 1>> \in Held(f)
    BY DEF Held
  <1> QED
    BY <1>1, <1>2

\* A share of the queue is at least one check and at most all of them.
LEMMA GroupSizeBounds ==
  ASSUME NEW n \in Nat \ {0}, NEW total \in Nat, NEW idle \in Nat
  PROVE  GroupSize(n, total, idle) \in 1..n
  <1> DEFINE k == total + idle + 1
             share == n \div k
  <1>1. share \in Int /\ 0 <= share /\ share <= n
    OBVIOUS
  <1> HIDE DEF share
  <1>2. GroupSize(n, total, idle) = LET capped == IF share < nBatchSize THEN share ELSE nBatchSize
                                    IN  IF capped < 1 THEN 1 ELSE capped
    BY DEF GroupSize, share, k
  <1> QED
    BY <1>1, <1>2, CheckQueueAssumption

-----------------------------------------------------------------------------
(* A critical section of Loop, before its outcome: the thread's last group *)
(* has been merged and the thread is inside Loop, not idle.                *)

PCs == InLoop \cup {"outside", "adding", "exited"}

\* The groups without t's.
Others(t) == [Holding EXCEPT ![t] = 0]

\* What is left of the block's checks when t's result has been merged.
PassingAfter(t) == OkAfter(t) /\ QueuePasses /\ \A u \in Threads \ {t} : GroupPasses(u)

LEMMA HoldingType == TypeOK => Holding \in [Threads -> Nat]
  BY DEF TypeOK, Holding

LEMMA Section ==
  ASSUME IInv, NEW t \in Threads, AtSection(t)
  PROVE  /\ TodoAfter(t) \in Nat /\ TotalAfter(t) \in Nat /\ IdleAfter(t) \in Nat
         /\ OkAfter(t) \in BOOLEAN
         /\ Others(t) \in [Threads -> Nat] /\ IsFiniteSet(Held(Others(t)))
         /\ TodoAfter(t) = Len(queue) + Cardinality(Held(Others(t)))
         /\ TotalAfter(t) = Cardinality(Inside \cup {t})
         /\ IdleAfter(t) = Cardinality(Idle \ {t})
         /\ Passing <=> PassingAfter(t)
  <1>1. /\ Holding \in [Threads -> Nat] /\ Others(t) \in [Threads -> Nat]
        /\ \A u \in Threads \ {t} : Holding[u] = Others(t)[u]
        /\ Others(t)[t] = 0
    BY HoldingType DEF IInv, Others
  <1>2. Holding[t] = IF pc[t] = "executed" THEN nNow[t] ELSE 0
    BY DEF AtSection, Holding
  <1>3. /\ IsFiniteSet(Held(Holding)) /\ nTodo = Len(queue) + Cardinality(Held(Holding))
        /\ nTotal = Cardinality(Inside) /\ nIdle = Cardinality(Idle)
    BY DEF IInv, Counters, CountersAgree, InGroups
  <1>4. /\ nTodo \in Nat /\ nTotal \in Nat /\ nIdle \in Nat /\ Len(queue) \in Nat
        /\ nNow[t] \in Nat /\ fAllOk \in BOOLEAN /\ fOk[t] \in BOOLEAN /\ pc[t] \in PCs
    BY DEF IInv, TypeOK, PCs
  <1>5. /\ IsFiniteSet(Held(Others(t)))
        /\ Cardinality(Held(Holding)) \in Nat /\ Cardinality(Held(Others(t))) \in Nat
        /\ Cardinality(Held(Others(t))) = Cardinality(Held(Holding)) - Holding[t]
    <2>1. \A f, g : f \in [Threads -> Nat] /\ g \in [Threads -> Nat] /\ IsFiniteSet(Held(f))
                    /\ (\A u \in Threads \ {t} : f[u] = g[u])
            => /\ IsFiniteSet(Held(g))
               /\ Cardinality(Held(f)) \in Nat /\ Cardinality(Held(g)) \in Nat
               /\ Cardinality(Held(g)) - g[t] = Cardinality(Held(f)) - f[t]
      BY HeldChange
    <2>2. /\ IsFiniteSet(Held(Others(t)))
          /\ Cardinality(Held(Holding)) \in Nat /\ Cardinality(Held(Others(t))) \in Nat
          /\ Cardinality(Held(Others(t))) - Others(t)[t] = Cardinality(Held(Holding)) - Holding[t]
      BY Zenon, <2>1, <1>1, <1>3
    <2>3. Holding[t] \in Nat
      BY <1>1
    <2> QED
      BY <2>2, <2>3, <1>1
  <1>6. TodoAfter(t) \in Nat /\ TodoAfter(t) = Len(queue) + Cardinality(Held(Others(t)))
    BY <1>2, <1>3, <1>4, <1>5 DEF TodoAfter
  <1>7. TotalAfter(t) \in Nat /\ TotalAfter(t) = Cardinality(Inside \cup {t})
    <2>1. Inside \in SUBSET Threads /\ (t \in Inside <=> pc[t] # "entering")
      BY DEF Inside, AtSection, InLoop
    <2>2. Cardinality(Inside \cup {t}) = IF t \in Inside THEN Cardinality(Inside) ELSE Cardinality(Inside) + 1
      BY <2>1, CountChange
    <2> QED
      BY <2>1, <2>2, <1>3, <1>4 DEF TotalAfter
  <1>8. IdleAfter(t) \in Nat /\ IdleAfter(t) = Cardinality(Idle \ {t})
    <2>1. Idle \in SUBSET Threads /\ (t \in Idle <=> pc[t] = "woken")
      BY DEF Idle, AtSection
    <2>2. /\ Cardinality(Idle \ {t}) = IF t \in Idle THEN Cardinality(Idle) - 1 ELSE Cardinality(Idle)
          /\ IsFiniteSet(Idle \ {t})
      BY <2>1, CountChange
    <2>3. Cardinality(Idle \ {t}) \in Nat
      BY <2>2, FS_CardinalityType
    <2> QED
      BY <2>1, <2>2, <2>3, <1>3, <1>4 DEF IdleAfter
  <1>9. OkAfter(t) \in BOOLEAN
    BY <1>4 DEF OkAfter
  <1>10. Passing <=> PassingAfter(t)
    <2>1. GroupPasses(t) <=> (pc[t] = "executed" => fOk[t])
      BY DEF GroupPasses, AtSection
    <2>2. OkAfter(t) <=> fAllOk /\ (pc[t] = "executed" => fOk[t])
      BY <1>4 DEF OkAfter
    <2> QED
      BY <2>1, <2>2 DEF Passing, PassingAfter
  <1> QED
    BY <1>1, <1>5, <1>6, <1>7, <1>8, <1>9, <1>10

\* The others stay where they are, but a waiting master may be woken.
LEMMA GotoOthers ==
  ASSUME TypeOK, NEW t \in Threads, NEW p \in PCs, Goto(t, p)
  PROVE  /\ pc' \in [Threads -> PCs] /\ pc'[t] = p
         /\ \A u \in Threads \ {t} :
              \/ pc'[u] = pc[u]
              \/ u = Master /\ pc[u] = "waiting" /\ pc'[u] = "woken"
  <1>1. pc \in [Threads -> PCs] /\ Master \in Threads
    BY DEF TypeOK, PCs, Threads
  <1>2. CASE t = Master
    <2>1. ~MasterNotified(t)
      BY <1>2 DEF MasterNotified
    <2> QED
      BY <1>1, <1>2, <2>1 DEF Goto
  <1>3. CASE t # Master
    BY <1>1, <1>3 DEF Goto, PCs, InLoop
  <1> QED
    BY <1>2, <1>3

\* With nothing to do the queue is empty and nobody has a group.
LEMMA NothingToDo ==
  ASSUME IInv, nTodo = 0
  PROVE  queue = <<>> /\ \A u \in Threads : pc[u] \notin {"executing", "executed"}
  <1>1. /\ nTodo = Len(queue) + Cardinality(Held(Holding)) /\ IsFiniteSet(Held(Holding))
        /\ queue \in Seq(BOOLEAN) /\ Holding \in [Threads -> Nat]
    BY HoldingType DEF IInv, Counters, CountersAgree, InGroups, TypeOK
  <1>2. Cardinality(Held(Holding)) \in Nat /\ Len(queue) \in Nat
    BY <1>1, FS_CardinalityType
  <1>3. Cardinality(Held(Holding)) = 0 /\ Len(queue) = 0
    BY <1>1, <1>2
  <1>4. ASSUME NEW u \in Threads, pc[u] \in {"executing", "executed"}
        PROVE  FALSE
    <2>1. Holding[u] = 0
      BY <1>1, <1>3, NothingHeld
    <2>2. Holding[u] = nNow[u] /\ nNow[u] >= 1
      BY <1>4 DEF Holding, IInv, GroupsNonempty
    <2> QED
      BY <2>1, <2>2
  <1> QED
    BY <1>1, <1>3, <1>4

\* Between two blocks a critical section merges nothing.
LEMMA OutsideSection ==
  ASSUME IInv, pc[Master] = "outside", NEW t \in Threads, AtSection(t)
  PROVE  TodoAfter(t) = 0 /\ OkAfter(t) = fAllOk /\ fAllOk /\ verdict = allGood /\ queue = <<>>
  <1>1. nTodo = 0 /\ fAllOk /\ verdict = allGood
    BY DEF IInv, Settled
  <1>2. queue = <<>> /\ pc[t] # "executed"
    BY <1>1, NothingToDo
  <1> QED
    BY <1>1, <1>2 DEF TodoAfter, OkAfter

\* What a thread's move to p does to the sets of threads and to the others.
LEMMA Moves ==
  ASSUME IInv, NEW t \in Threads, AtSection(t),
         NEW p \in PCs \ {"entering", "woken"}, Goto(t, p),
         \A u \in Threads \ {t} : nNow'[u] = nNow[u] /\ fOk'[u] = fOk[u] /\ vChecks'[u] = vChecks[u]
  PROVE  /\ pc' \in [Threads -> PCs] /\ pc'[t] = p
         /\ Inside' = IF p \in InLoop THEN Inside \cup {t} ELSE (Inside \cup {t}) \ {t}
         /\ Idle' = IF p = "waiting" THEN (Idle \ {t}) \cup {t} ELSE Idle \ {t}
         /\ \A u \in Threads \ {t} :
              /\ Holding'[u] = Others(t)[u]
              /\ GroupPasses(u)' <=> GroupPasses(u)
              /\ pc'[u] \in {"executing", "executed"} => nNow'[u] >= 1
              /\ u = Master => pc'[u] # "exited" /\ (pc'[u] = "outside" <=> pc[u] = "outside")
              /\ u # Master => pc'[u] \notin {"outside", "adding"}
  <1>1. /\ pc' \in [Threads -> PCs] /\ pc'[t] = p
        /\ \A u \in Threads \ {t} :
             \/ pc'[u] = pc[u]
             \/ u = Master /\ pc[u] = "waiting" /\ pc'[u] = "woken"
    BY GotoOthers DEF IInv
  <1>2. /\ pc[t] \in InLoop /\ pc \in [Threads -> PCs] /\ Holding \in [Threads -> Nat]
        /\ nNow \in [Threads -> Nat]
    BY HoldingType DEF AtSection, InLoop, IInv, TypeOK, PCs
  <1>3. Inside' = IF p \in InLoop THEN Inside \cup {t} ELSE (Inside \cup {t}) \ {t}
    BY <1>1, <1>2 DEF Inside, InLoop
  <1>4. Idle' = IF p = "waiting" THEN (Idle \ {t}) \cup {t} ELSE Idle \ {t}
    BY <1>1, <1>2 DEF Idle
  <1>5. ASSUME NEW u \in Threads \ {t}
        PROVE  /\ Holding'[u] = Others(t)[u]
               /\ GroupPasses(u)' <=> GroupPasses(u)
               /\ pc'[u] \in {"executing", "executed"} => nNow'[u] >= 1
               /\ u = Master => pc'[u] # "exited" /\ (pc'[u] = "outside" <=> pc[u] = "outside")
               /\ u # Master => pc'[u] \notin {"outside", "adding"}
    <2>1. pc'[u] = pc[u] \/ (u = Master /\ pc[u] = "waiting" /\ pc'[u] = "woken")
      BY <1>1
    <2>2. /\ pc[u] \in {"executing", "executed"} => nNow[u] >= 1
          /\ u = Master => pc[u] # "exited"
          /\ u # Master => pc[u] \notin {"outside", "adding"}
      BY DEF IInv, GroupsNonempty, Roles, Threads
    <2>3. Others(t)[u] = Holding[u]
      BY <1>2 DEF Others
    <2>4. /\ Holding[u] = IF pc[u] \in {"executing", "executed"} THEN nNow[u] ELSE 0
          /\ Holding'[u] = IF pc'[u] \in {"executing", "executed"} THEN nNow'[u] ELSE 0
      BY DEF Holding
    <2>5. GroupPasses(u)' <=> GroupPasses(u)
      BY <2>1 DEF GroupPasses
    <2> QED
      BY <2>1, <2>2, <2>3, <2>4, <2>5
  <1> QED
    BY <1>1, <1>3, <1>4, <1>5

\* The last section of a call of Loop: Wait's verdict is the conjunction.
LEMMA ReturnStep ==
  ASSUME IInv, NEW t \in Threads, Return(t)
  PROVE  IInv'
  <1> DEFINE p == IF t = Master THEN "outside" ELSE "exited"
  <1>1. /\ AtSection(t) /\ queue = <<>> /\ queue' = queue /\ CanReturn(t)
        /\ nTotal' = TotalAfter(t) - 1 /\ nIdle' = IdleAfter(t) /\ nTodo' = TodoAfter(t)
        /\ Goto(t, p) /\ TodoAfter(t) = 0
        /\ UNCHANGED <<vChecks, nNow, fOk, fQuit, notifier, blocks, adds, allGood>>
    BY DEF Return, CanReturn, local
  <1>2. /\ t = Master => fAllOk' = TRUE /\ verdict' = OkAfter(t)
        /\ t # Master => fAllOk' = OkAfter(t) /\ verdict' = verdict
    BY DEF Return
  <1>3. p \in PCs \ {"entering", "woken"} /\ p \notin InLoop /\ p # "waiting"
    BY DEF PCs, InLoop
  <1>p. (t = Master => p = "outside") /\ (t # Master => p = "exited")
    OBVIOUS
  <1> HIDE DEF p
  <1>4. /\ TodoAfter(t) \in Nat /\ TotalAfter(t) \in Nat /\ IdleAfter(t) \in Nat
        /\ OkAfter(t) \in BOOLEAN
        /\ Others(t) \in [Threads -> Nat] /\ IsFiniteSet(Held(Others(t)))
        /\ TodoAfter(t) = Len(queue) + Cardinality(Held(Others(t)))
        /\ TotalAfter(t) = Cardinality(Inside \cup {t})
        /\ IdleAfter(t) = Cardinality(Idle \ {t})
        /\ Passing <=> PassingAfter(t)
    BY <1>1, Section
  <1>5. /\ pc' \in [Threads -> PCs] /\ pc'[t] = p
        /\ Inside' = (Inside \cup {t}) \ {t}
        /\ Idle' = Idle \ {t}
        /\ \A u \in Threads \ {t} :
             /\ Holding'[u] = Others(t)[u]
             /\ GroupPasses(u)' <=> GroupPasses(u)
             /\ pc'[u] \in {"executing", "executed"} => nNow'[u] >= 1
             /\ u = Master => pc'[u] # "exited" /\ (pc'[u] = "outside" <=> pc[u] = "outside")
             /\ u # Master => pc'[u] \notin {"outside", "adding"}
    BY <1>1, <1>3, Moves
  <1>6. pc'[t] \notin {"executing", "executed"}
    BY <1>3, <1>5 DEF InLoop
  <1>7. Holding' = Others(t)
    <2>1. Holding'[t] = 0 /\ Others(t)[t] = 0
      BY <1>6, HoldingType DEF Holding, Others
    <2>2. Holding' = [u \in Threads |-> Holding'[u]]
      BY DEF Holding
    <2> QED
      BY <2>1, <2>2, <1>4, <1>5
  <1>8. Counters'
    <2>1. Inside \cup {t} \in SUBSET Threads /\ t \in Inside \cup {t}
      BY DEF Inside
    <2>2. Cardinality(Inside') = TotalAfter(t) - 1
      BY <2>1, <1>4, <1>5, CountChange
    <2>3. InGroups' = Held(Others(t))
      BY <1>7 DEF InGroups, Held, Threads
    <2> QED
      BY <2>2, <2>3, <1>1, <1>4, <1>5 DEF Counters, CountersAgree
  <1>9. TypeOK'
    <2>1. nTotal' \in Nat
      <3>1. IsFiniteSet(Inside')
        BY ThreadsFinite, FS_Subset DEF Inside
      <3> QED
        BY <3>1, <1>8, FS_CardinalityType DEF Counters, CountersAgree
    <2>2. fAllOk' \in BOOLEAN /\ verdict' \in BOOLEAN
      BY <1>2, <1>4 DEF IInv, TypeOK
    <2> QED
      BY <2>1, <2>2, <1>1, <1>4, <1>5 DEF IInv, TypeOK, PCs
  <1>10. Roles'
    BY <1>5, <1>p, CheckQueueAssumption DEF Roles, Threads
  <1>11. GroupsNonempty'
    BY <1>5, <1>6 DEF GroupsNonempty
  <1>12. t # Master => (pc'[Master] = "outside" <=> pc[Master] = "outside")
    BY <1>5 DEF Threads
  <1>13. VerdictPending'
    <2> SUFFICES ASSUME pc'[Master] # "outside"
                 PROVE  allGood' <=> Passing'
      BY DEF VerdictPending
    <2>1. t # Master /\ pc[Master] # "outside"
      BY <1>5, <1>p, <1>12
    <2>2. allGood' <=> PassingAfter(t)
      BY <2>1, <1>1, <1>4 DEF IInv, VerdictPending
    <2>3. GroupPasses(t)'
      BY <1>6 DEF GroupPasses
    <2>4. QueuePasses' <=> QueuePasses
      BY <1>1 DEF QueuePasses
    <2>5. (\A u \in Threads : GroupPasses(u)') <=> (\A u \in Threads \ {t} : GroupPasses(u))
      BY <2>3, <1>5
    <2>6. fAllOk' = OkAfter(t)
      BY <2>1, <1>2
    <2> QED
      BY <2>2, <2>4, <2>5, <2>6 DEF Passing, PassingAfter
  <1>14. Settled'
    <2> SUFFICES ASSUME pc'[Master] = "outside"
                 PROVE  nTodo' = 0 /\ fAllOk' /\ verdict' = allGood'
      BY DEF Settled
    <2>1. CASE t # Master
      <3>1. OkAfter(t) = fAllOk /\ fAllOk /\ verdict = allGood
        BY <2>1, <1>1, <1>12, OutsideSection
      <3> QED
        BY <3>1, <2>1, <1>1, <1>2
    <2>2. CASE t = Master
      <3>1. pc[Master] # "outside"
        BY <2>2, <1>1 DEF AtSection
      <3>2. allGood <=> PassingAfter(t)
        BY <3>1, <1>4 DEF IInv, VerdictPending
      <3>3. QueuePasses
        BY <1>1 DEF QueuePasses
      <3>4. ASSUME NEW u \in Threads \ {t}
            PROVE  GroupPasses(u)
        <4>1. Cardinality(Held(Others(t))) = 0
          <5>1. Cardinality(Held(Others(t))) \in Nat /\ Len(queue) \in Nat
            BY <1>1, <1>4, FS_CardinalityType
          <5> QED
            BY <5>1, <1>1, <1>4
        <4>2. Others(t)[u] = 0
          BY <4>1, <1>4, NothingHeld
        <4>3. pc[u] \in {"executing", "executed"} => nNow[u] >= 1
          BY DEF IInv, GroupsNonempty
        <4>4. Others(t)[u] = IF pc[u] \in {"executing", "executed"} THEN nNow[u] ELSE 0
          BY DEF Others, Holding
        <4> QED
          BY <4>2, <4>3, <4>4 DEF GroupPasses
      <3>5. allGood <=> OkAfter(t)
        BY <3>2, <3>3, <3>4 DEF PassingAfter
      <3>6. allGood \in BOOLEAN
        BY DEF IInv, TypeOK
      <3> QED
        BY <3>5, <3>6, <2>2, <1>1, <1>2, <1>4
    <2> QED
      BY <2>1, <2>2
  <1> QED
    BY <1>8, <1>9, <1>10, <1>11, <1>13, <1>14 DEF IInv

\* A section that ends in a wait.
LEMMA SleepStep ==
  ASSUME IInv, NEW t \in Threads, Sleep(t)
  PROVE  IInv'
  <1> DEFINE p == "waiting"
  <1>1. /\ AtSection(t) /\ queue = <<>> /\ queue' = queue
        /\ nTotal' = TotalAfter(t) /\ nTodo' = TodoAfter(t) /\ fAllOk' = OkAfter(t)
        /\ nIdle' = IF pc[t] = "woken" THEN nIdle ELSE nIdle + 1
        /\ Goto(t, p)
        /\ UNCHANGED <<vChecks, nNow, fOk, fQuit, notifier, blocks, adds, allGood, verdict>>
    BY DEF Sleep, local, master
  <1>3. p \in PCs \ {"entering", "woken"} /\ p \in InLoop /\ p = "waiting"
    BY DEF PCs, InLoop
  <1> HIDE DEF p
  <1>4. /\ TodoAfter(t) \in Nat /\ TotalAfter(t) \in Nat /\ IdleAfter(t) \in Nat
        /\ OkAfter(t) \in BOOLEAN
        /\ Others(t) \in [Threads -> Nat] /\ IsFiniteSet(Held(Others(t)))
        /\ TodoAfter(t) = Len(queue) + Cardinality(Held(Others(t)))
        /\ TotalAfter(t) = Cardinality(Inside \cup {t})
        /\ IdleAfter(t) = Cardinality(Idle \ {t})
        /\ Passing <=> PassingAfter(t)
    BY <1>1, Section
  <1>5. /\ pc' \in [Threads -> PCs] /\ pc'[t] = p
        /\ Inside' = Inside \cup {t}
        /\ Idle' = (Idle \ {t}) \cup {t}
        /\ \A u \in Threads \ {t} :
             /\ Holding'[u] = Others(t)[u]
             /\ GroupPasses(u)' <=> GroupPasses(u)
             /\ pc'[u] \in {"executing", "executed"} => nNow'[u] >= 1
             /\ u = Master => pc'[u] # "exited" /\ (pc'[u] = "outside" <=> pc[u] = "outside")
             /\ u # Master => pc'[u] \notin {"outside", "adding"}
    BY <1>1, <1>3, Moves
  <1>6. pc'[t] = "waiting"
    BY <1>3, <1>5
  <1>7. Holding' = Others(t)
    <2>1. Holding'[t] = 0 /\ Others(t)[t] = 0
      BY <1>6, HoldingType DEF Holding, Others
    <2>2. Holding' = [u \in Threads |-> Holding'[u]]
      BY DEF Holding
    <2> QED
      BY <2>1, <2>2, <1>4, <1>5
  <1>8. nIdle' = IdleAfter(t) + 1 /\ nIdle' \in Nat
    BY <1>1, <1>4 DEF IdleAfter, IInv, TypeOK
  <1>9. Counters'
    <2>1. Idle \ {t} \in SUBSET Threads
      BY DEF Idle
    <2>2. Cardinality(Idle') = IdleAfter(t) + 1
      BY <2>1, <1>4, <1>5, CountChange
    <2>3. InGroups' = Held(Others(t))
      BY <1>7 DEF InGroups, Held, Threads
    <2> QED
      BY <2>2, <2>3, <1>1, <1>4, <1>5, <1>8 DEF Counters, CountersAgree
  <1>10. TypeOK'
    BY <1>1, <1>4, <1>5, <1>8 DEF IInv, TypeOK, PCs
  <1>11. Roles'
    BY <1>5, <1>6, CheckQueueAssumption DEF Roles, Threads
  <1>12. GroupsNonempty'
    BY <1>5, <1>6 DEF GroupsNonempty
  <1>13. pc'[Master] = "outside" <=> pc[Master] = "outside"
    BY <1>1, <1>5, <1>6 DEF Threads, AtSection
  <1>14. VerdictPending'
    <2> SUFFICES ASSUME pc'[Master] # "outside"
                 PROVE  allGood' <=> Passing'
      BY DEF VerdictPending
    <2>1. allGood' <=> PassingAfter(t)
      BY <1>1, <1>4, <1>13 DEF IInv, VerdictPending
    <2>2. GroupPasses(t)'
      BY <1>6 DEF GroupPasses
    <2>3. QueuePasses' <=> QueuePasses
      BY <1>1 DEF QueuePasses
    <2>4. (\A u \in Threads : GroupPasses(u)') <=> (\A u \in Threads \ {t} : GroupPasses(u))
      BY <2>2, <1>5
    <2> QED
      BY <2>1, <2>3, <2>4, <1>1 DEF Passing, PassingAfter
  <1>15. Settled'
    <2> SUFFICES ASSUME pc'[Master] = "outside"
                 PROVE  nTodo' = 0 /\ fAllOk' /\ verdict' = allGood'
      BY DEF Settled
    <2>1. TodoAfter(t) = 0 /\ OkAfter(t) = fAllOk /\ fAllOk /\ verdict = allGood
      BY <1>1, <1>13, OutsideSection
    <2> QED
      BY <2>1, <1>1
  <1> QED
    BY <1>9, <1>10, <1>11, <1>12, <1>14, <1>15 DEF IInv

\* A section that ends with a new group: the queue is cut in two.
LEMMA CutQueue ==
  ASSUME NEW q \in Seq(BOOLEAN), NEW n \in 1..Len(q)
  PROVE  LET rest == Len(q) - n
             front == SubSeq(q, 1, rest)
             back == SubSeq(q, rest + 1, Len(q))
         IN  /\ front \in Seq(BOOLEAN) /\ back \in Seq(BOOLEAN)
             /\ Len(front) = Len(q) - n
             /\ (\A i \in DOMAIN q : q[i]) <=> (\A i \in DOMAIN front : front[i]) /\ (\A i \in DOMAIN back : back[i])
  <1> DEFINE L == Len(q)
             rest == L - n
             front == SubSeq(q, 1, rest)
             back == SubSeq(q, rest + 1, L)
  <1>1. L \in Nat /\ rest \in Nat /\ rest + n = L /\ DOMAIN q = 1..L
    OBVIOUS
  <1>2. \A i \in 1..L : q[i] \in BOOLEAN
    OBVIOUS
  <1>3. /\ front \in Seq(BOOLEAN) /\ Len(front) = rest
        /\ \A i \in 1..rest : front[i] = q[i]
    <2>1. \A i \in 1..rest : q[i] \in BOOLEAN
      BY <1>1, <1>2
    <2>2. rest \in Int /\ 1 \in Int
      BY <1>1
    <2> HIDE DEF rest
    <2>3. /\ SubSeq(q, 1, rest) \in Seq(BOOLEAN)
          /\ Len(SubSeq(q, 1, rest)) = IF 1 <= rest THEN rest - 1 + 1 ELSE 0
          /\ \A i \in 1..(rest - 1 + 1) : SubSeq(q, 1, rest)[i] = q[1 + i - 1]
      BY <2>1, <2>2, SubSeqProperties
    <2>4. rest - 1 + 1 = rest /\ \A i \in 1..rest : 1 + i - 1 = i
      BY <2>2
    <2> QED
      BY <2>3, <2>4, <1>1
  <1>4. /\ back \in Seq(BOOLEAN) /\ Len(back) = n
        /\ \A i \in 1..n : back[i] = q[rest + i]
    <2>1. \A i \in (rest + 1)..L : q[i] \in BOOLEAN
      BY <1>1, <1>2
    <2> QED
      BY <1>1, <2>1, SubSeqProperties
  <1>5. (\A i \in 1..L : q[i]) <=> (\A i \in 1..rest : q[i]) /\ (\A i \in 1..n : q[rest + i])
    <2>1. ASSUME \A i \in 1..rest : q[i], \A i \in 1..n : q[rest + i], NEW i \in 1..L
          PROVE  q[i]
      <3>1. CASE i <= rest
        BY <3>1, <2>1, <1>1
      <3>2. CASE i > rest
        <4>1. i - rest \in 1..n /\ rest + (i - rest) = i
          BY <3>2, <1>1
        <4>2. q[rest + (i - rest)]
          BY <4>1, <2>1
        <4> QED
          BY <4>1, <4>2
      <3> QED
        BY <3>1, <3>2, <1>1
    <2>2. ASSUME \A i \in 1..L : q[i]
          PROVE  (\A i \in 1..rest : q[i]) /\ (\A i \in 1..n : q[rest + i])
      <3>1. \A i \in 1..n : rest + i \in 1..L
        BY <1>1
      <3>2. \A i \in 1..rest : i \in 1..L
        BY <1>1
      <3> QED
        BY <2>2, <3>1, <3>2
    <2> QED
      BY <2>1, <2>2
  <1>6. DOMAIN front = 1..rest /\ DOMAIN back = 1..n
    BY <1>3, <1>4
  <1> HIDE DEF front, back, rest, L
  <1>7. (\A i \in DOMAIN q : q[i]) <=> (\A i \in DOMAIN front : front[i]) /\ (\A i \in DOMAIN back : back[i])
    BY <1>1, <1>3, <1>4, <1>5, <1>6
  <1> QED
    BY <1>3, <1>4, <1>7 DEF front, back, rest, L

LEMMA TakeStep ==
  ASSUME IInv, NEW t \in Threads, Take(t)
  PROVE  IInv'
  <1> DEFINE p == "executing"
             n == GroupSize(Len(queue), TotalAfter(t), IdleAfter(t))
             rest == Len(queue) - n
  <1>1. /\ AtSection(t) /\ queue # <<>>
        /\ nNow' = [nNow EXCEPT ![t] = n]
        /\ vChecks' = [vChecks EXCEPT ![t] = SubSeq(queue, rest + 1, Len(queue))]
        /\ queue' = SubSeq(queue, 1, rest)
        /\ nTotal' = TotalAfter(t) /\ nIdle' = IdleAfter(t) /\ nTodo' = TodoAfter(t) /\ fAllOk' = OkAfter(t)
        /\ fOk' = [fOk EXCEPT ![t] = OkAfter(t)]
        /\ Goto(t, p)
        /\ UNCHANGED <<fQuit, notifier, blocks, adds, allGood, verdict>>
    BY DEF Take, master
  <1>2. p \in PCs \ {"entering", "woken"} /\ p \in InLoop /\ p = "executing"
    BY DEF PCs, InLoop
  <1> HIDE DEF p
  <1>3. /\ TodoAfter(t) \in Nat /\ TotalAfter(t) \in Nat /\ IdleAfter(t) \in Nat
        /\ OkAfter(t) \in BOOLEAN
        /\ Others(t) \in [Threads -> Nat] /\ IsFiniteSet(Held(Others(t)))
        /\ TodoAfter(t) = Len(queue) + Cardinality(Held(Others(t)))
        /\ TotalAfter(t) = Cardinality(Inside \cup {t})
        /\ IdleAfter(t) = Cardinality(Idle \ {t})
        /\ Passing <=> PassingAfter(t)
    BY <1>1, Section
  <1>4. /\ queue \in Seq(BOOLEAN) /\ nNow \in [Threads -> Nat] /\ fOk \in [Threads -> BOOLEAN]
        /\ vChecks \in [Threads -> Seq(BOOLEAN)]
    BY DEF IInv, TypeOK
  <1>5. n \in 1..Len(queue)
    <2>1. Len(queue) \in Nat \ {0}
      BY <1>1, <1>4
    <2> QED
      BY <2>1, <1>3, GroupSizeBounds
  <1> HIDE DEF n
  <1>6. /\ queue' \in Seq(BOOLEAN) /\ vChecks'[t] \in Seq(BOOLEAN)
        /\ Len(queue') = Len(queue) - n
        /\ QueuePasses <=> QueuePasses' /\ \A i \in DOMAIN vChecks'[t] : vChecks'[t][i]
    <2>1. /\ SubSeq(queue, 1, rest) \in Seq(BOOLEAN) /\ SubSeq(queue, rest + 1, Len(queue)) \in Seq(BOOLEAN)
          /\ Len(SubSeq(queue, 1, rest)) = Len(queue) - n
          /\ (\A i \in DOMAIN queue : queue[i])
               <=> /\ \A i \in DOMAIN SubSeq(queue, 1, rest) : SubSeq(queue, 1, rest)[i]
                   /\ \A i \in DOMAIN SubSeq(queue, rest + 1, Len(queue)) : SubSeq(queue, rest + 1, Len(queue))[i]
      BY <1>4, <1>5, CutQueue
    <2>2. vChecks'[t] = SubSeq(queue, rest + 1, Len(queue))
      BY <1>1, <1>4
    <2> HIDE DEF rest
    <2> QED
      BY <2>1, <2>2, <1>1 DEF QueuePasses
  <1> HIDE DEF rest
  <1>7. /\ nNow' \in [Threads -> Nat] /\ nNow'[t] = n
        /\ fOk' \in [Threads -> BOOLEAN] /\ fOk'[t] = OkAfter(t)
        /\ vChecks' \in [Threads -> Seq(BOOLEAN)]
        /\ \A u \in Threads \ {t} : nNow'[u] = nNow[u] /\ fOk'[u] = fOk[u] /\ vChecks'[u] = vChecks[u]
    <2>1. nNow' \in [Threads -> Nat] /\ nNow'[t] = n /\ \A u \in Threads \ {t} : nNow'[u] = nNow[u]
      BY <1>1, <1>4, <1>5
    <2>2. fOk' \in [Threads -> BOOLEAN] /\ fOk'[t] = OkAfter(t) /\ \A u \in Threads \ {t} : fOk'[u] = fOk[u]
      BY <1>1, <1>3, <1>4
    <2>3. vChecks' \in [Threads -> Seq(BOOLEAN)] /\ \A u \in Threads \ {t} : vChecks'[u] = vChecks[u]
      BY <1>1, <1>4, <1>6
    <2> QED
      BY <2>1, <2>2, <2>3
  <1>8. /\ pc' \in [Threads -> PCs] /\ pc'[t] = p
        /\ Inside' = Inside \cup {t}
        /\ Idle' = Idle \ {t}
        /\ \A u \in Threads \ {t} :
             /\ Holding'[u] = Others(t)[u]
             /\ GroupPasses(u)' <=> GroupPasses(u)
             /\ pc'[u] \in {"executing", "executed"} => nNow'[u] >= 1
             /\ u = Master => pc'[u] # "exited" /\ (pc'[u] = "outside" <=> pc[u] = "outside")
             /\ u # Master => pc'[u] \notin {"outside", "adding"}
    <2>1. p # "waiting"
      BY <1>2
    <2> QED
      BY <1>1, <1>2, <1>7, <2>1, Moves
  <1>9. pc'[t] = "executing"
    BY <1>2, <1>8
  <1>10. Counters'
    <2>1. Holding'[t] = n /\ Others(t)[t] = 0 /\ n \in Nat
      BY <1>5, <1>7, <1>9, HoldingType DEF Holding, Others, IInv
    <2>2. Holding' \in [Threads -> Nat]
      BY <1>7 DEF Holding
    <2>3. /\ IsFiniteSet(Held(Holding'))
          /\ Cardinality(Held(Others(t))) \in Nat /\ Cardinality(Held(Holding')) \in Nat
          /\ Cardinality(Held(Holding')) - Holding'[t] = Cardinality(Held(Others(t))) - Others(t)[t]
      <3>1. \A f, g : f \in [Threads -> Nat] /\ g \in [Threads -> Nat] /\ IsFiniteSet(Held(f))
                      /\ (\A u \in Threads \ {t} : f[u] = g[u])
              => /\ IsFiniteSet(Held(g))
                 /\ Cardinality(Held(f)) \in Nat /\ Cardinality(Held(g)) \in Nat
                 /\ Cardinality(Held(g)) - g[t] = Cardinality(Held(f)) - f[t]
        BY HeldChange
      <3> QED
        BY Zenon, <3>1, <2>2, <1>3, <1>8
    <2>4. InGroups' = Held(Holding')
      BY DEF InGroups, Held, Threads
    <2>5. nTodo' = Len(queue') + Cardinality(Held(Holding'))
      <3>1. Len(queue) \in Nat
        BY <1>4
      <3>2. Cardinality(Held(Holding')) = Cardinality(Held(Others(t))) + n
        BY <2>1, <2>3
      <3>3. nTodo' = Len(queue) + Cardinality(Held(Others(t))) /\ Len(queue') = Len(queue) - n
        BY <1>1, <1>3, <1>6
      <3>4. n \in Nat /\ Cardinality(Held(Others(t))) \in Nat
        BY <2>1, <2>3
      <3> QED
        BY <3>1, <3>2, <3>3, <3>4
    <2> QED
      BY <2>3, <2>4, <2>5, <1>1, <1>3, <1>8 DEF Counters, CountersAgree
  <1>11. TypeOK'
    BY <1>1, <1>3, <1>6, <1>7, <1>8 DEF IInv, TypeOK, PCs
  <1>12. Roles'
    BY <1>8, <1>9, CheckQueueAssumption DEF Roles, Threads
  <1>13. GroupsNonempty'
    BY <1>5, <1>7, <1>8 DEF GroupsNonempty
  <1>14. pc[Master] # "outside"
    BY <1>1, OutsideSection
  <1>15. pc'[Master] # "outside"
    BY <1>8, <1>9, <1>14 DEF Threads
  <1>16. VerdictPending'
    <2>1. allGood' <=> PassingAfter(t)
      BY <1>1, <1>3, <1>14 DEF IInv, VerdictPending
    <2>2. GroupPasses(t)' <=> OkAfter(t) /\ \A i \in DOMAIN vChecks'[t] : vChecks'[t][i]
      BY <1>7, <1>9 DEF GroupPasses
    <2>3. (\A u \in Threads : GroupPasses(u)')
            <=> GroupPasses(t)' /\ \A u \in Threads \ {t} : GroupPasses(u)
      BY <1>8
    <2>4. fAllOk' = OkAfter(t)
      BY <1>1
    <2>5. Passing' <=> PassingAfter(t)
      BY Zenon, <2>2, <2>3, <2>4, <1>6 DEF Passing, PassingAfter
    <2> QED
      BY <2>1, <2>5 DEF VerdictPending
  <1>17. Settled'
    BY <1>15 DEF Settled
  <1> QED
    BY <1>10, <1>11, <1>12, <1>13, <1>16, <1>17 DEF IInv

-----------------------------------------------------------------------------
(* The steps outside of the critical sections. *)

LEMMA ExecuteStep ==
  ASSUME IInv, NEW t \in Threads, Execute(t)
  PROVE  IInv'
  <1>1. /\ pc[t] = "executing"
        /\ fOk' = [fOk EXCEPT ![t] = fOk[t] /\ \A i \in DOMAIN vChecks[t] : vChecks[t][i]]
        /\ vChecks' = [vChecks EXCEPT ![t] = <<>>]
        /\ pc' = [pc EXCEPT ![t] = "executed"]
        /\ UNCHANGED <<queue, nIdle, nTotal, fAllOk, nTodo, nNow, blocks, adds, allGood, verdict, fQuit, notifier>>
    BY DEF Execute, shared, master
  <1>2. /\ pc \in [Threads -> PCs] /\ fOk \in [Threads -> BOOLEAN]
        /\ vChecks \in [Threads -> Seq(BOOLEAN)]
    BY DEF IInv, TypeOK, PCs
  <1>3. pc' \in [Threads -> PCs] /\ pc'[t] = "executed" /\ \A u \in Threads \ {t} : pc'[u] = pc[u]
    BY <1>1, <1>2 DEF PCs, InLoop
  <1>4. /\ fOk' \in [Threads -> BOOLEAN]
        /\ fOk'[t] <=> fOk[t] /\ \A i \in DOMAIN vChecks[t] : vChecks[t][i]
        /\ \A u \in Threads \ {t} : fOk'[u] = fOk[u]
    <2> DEFINE ok == fOk[t] /\ \A i \in DOMAIN vChecks[t] : vChecks[t][i]
    <2>1. ok \in BOOLEAN /\ fOk' = [fOk EXCEPT ![t] = ok]
      BY <1>1
    <2> HIDE DEF ok
    <2>2. fOk' \in [Threads -> BOOLEAN] /\ fOk'[t] = ok /\ \A u \in Threads \ {t} : fOk'[u] = fOk[u]
      BY <2>1, <1>2
    <2> QED
      BY <2>2 DEF ok
  <1>5. vChecks' \in [Threads -> Seq(BOOLEAN)] /\ \A u \in Threads \ {t} : vChecks'[u] = vChecks[u]
    BY <1>1, <1>2
  <1>6. TypeOK'
    BY <1>1, <1>3, <1>4, <1>5 DEF IInv, TypeOK, PCs
  <1>7. Holding' = Holding /\ Inside' = Inside /\ Idle' = Idle
    <2>1. \A u \in Threads : pc'[u] \in {"executing", "executed"} <=> pc[u] \in {"executing", "executed"}
      BY <1>1, <1>3
    <2>2. Holding' = Holding
      BY <2>1, <1>1 DEF Holding
    <2>3. Inside' = Inside
      BY <1>1, <1>3 DEF Inside, InLoop
    <2>4. Idle' = Idle
      BY <1>1, <1>3 DEF Idle
    <2> QED
      BY <2>2, <2>3, <2>4
  <1>8. Counters'
    <2>1. InGroups' = InGroups
      BY <1>7 DEF InGroups, Held, Threads
    <2> QED
      BY <2>1, <1>1, <1>7 DEF IInv, Counters, CountersAgree
  <1>9. Roles' /\ GroupsNonempty'
    BY <1>1, <1>3, CheckQueueAssumption DEF IInv, Roles, GroupsNonempty, Threads
  <1>10. pc'[Master] = "outside" <=> pc[Master] = "outside"
    BY <1>1, <1>3 DEF Threads
  <1>11. Passing' <=> Passing
    <2>1. GroupPasses(t)' <=> GroupPasses(t)
      BY <1>1, <1>3, <1>4 DEF GroupPasses
    <2>2. \A u \in Threads \ {t} : GroupPasses(u)' <=> GroupPasses(u)
      BY <1>3, <1>4, <1>5 DEF GroupPasses
    <2>3. QueuePasses' <=> QueuePasses
      BY <1>1 DEF QueuePasses
    <2> QED
      BY <2>1, <2>2, <2>3, <1>1 DEF Passing
  <1>12. VerdictPending' /\ Settled'
    BY <1>1, <1>10, <1>11 DEF IInv, VerdictPending, Settled
  <1> QED
    BY <1>6, <1>8, <1>9, <1>12 DEF IInv

\* A step that only wakes waiting threads.
LEMMA WakeStep ==
  ASSUME IInv, NEW W \in SUBSET Threads, \A u \in W : pc[u] = "waiting",
         pc' = [u \in Threads |-> IF u \in W THEN "woken" ELSE pc[u]],
         UNCHANGED <<queue, nIdle, nTotal, fAllOk, nTodo, vChecks, nNow, fOk, blocks, adds, allGood, verdict, fQuit>>,
         notifier' \in {"none", "workers", "master", "done"}
  PROVE  IInv'
  <1>1. pc \in [Threads -> PCs] /\ Master \in Threads
    BY DEF IInv, TypeOK, PCs, Threads
  <1>2. /\ pc' \in [Threads -> PCs]
        /\ \A u \in Threads : pc'[u] = pc[u] \/ (pc[u] = "waiting" /\ pc'[u] = "woken")
    BY <1>1 DEF PCs, InLoop
  <1>3. TypeOK'
    BY <1>2 DEF IInv, TypeOK, PCs
  <1>4. Holding' = Holding /\ Inside' = Inside /\ Idle' = Idle
    <2>1. \A u \in Threads : pc'[u] \in {"executing", "executed"} <=> pc[u] \in {"executing", "executed"}
      BY <1>2
    <2>2. Holding' = Holding
      BY <2>1 DEF Holding
    <2>3. Inside' = Inside
      BY <1>2 DEF Inside, InLoop
    <2>4. Idle' = Idle
      BY <1>2 DEF Idle
    <2> QED
      BY <2>2, <2>3, <2>4
  <1>5. Counters'
    <2>1. InGroups' = InGroups
      BY <1>4 DEF InGroups, Held, Threads
    <2> QED
      BY <2>1, <1>4 DEF IInv, Counters, CountersAgree
  <1>6. Roles' /\ GroupsNonempty'
    BY <1>1, <1>2 DEF IInv, Roles, GroupsNonempty, Threads
  <1>7. pc'[Master] = "outside" <=> pc[Master] = "outside"
    BY <1>1, <1>2
  <1>8. Passing' <=> Passing
    <2>1. \A u \in Threads : GroupPasses(u)' <=> GroupPasses(u)
      BY <1>2 DEF GroupPasses
    <2> QED
      BY <2>1 DEF Passing, QueuePasses
  <1>9. VerdictPending' /\ Settled'
    BY <1>7, <1>8 DEF IInv, VerdictPending, Settled
  <1> QED
    BY <1>3, <1>5, <1>6, <1>9 DEF IInv

LEMMA MakeControlStep == IInv /\ MakeControl => IInv'
  <1> SUFFICES ASSUME IInv, MakeControl
               PROVE  IInv'
    OBVIOUS
  <1>1. /\ pc[Master] = "outside" /\ blocks < MaxBlocks
        /\ pc' = [pc EXCEPT ![Master] = "adding"]
        /\ blocks' = blocks + 1 /\ adds' = 0 /\ allGood' = TRUE
        /\ UNCHANGED <<queue, nIdle, nTotal, fAllOk, nTodo, vChecks, nNow, fOk, fQuit, notifier, verdict>>
    BY DEF MakeControl, shared, local
  <1>2. pc \in [Threads -> PCs] /\ Master \in Threads
    BY DEF IInv, TypeOK, PCs, Threads
  <1>3. pc' \in [Threads -> PCs] /\ pc'[Master] = "adding" /\ \A u \in Threads \ {Master} : pc'[u] = pc[u]
    BY <1>1, <1>2 DEF PCs
  <1>4. nTodo = 0 /\ fAllOk
    BY <1>1 DEF IInv, Settled
  <1>5. queue = <<>> /\ \A u \in Threads : pc[u] \notin {"executing", "executed"}
    BY <1>4, NothingToDo
  <1>6. TypeOK'
    <2>1. blocks' \in 0..MaxBlocks /\ adds' \in 0..MaxAdds
      BY <1>1, CheckQueueAssumption DEF IInv, TypeOK
    <2> QED
      BY <2>1, <1>1, <1>3 DEF IInv, TypeOK, PCs
  <1>7. Holding' = Holding /\ Inside' = Inside /\ Idle' = Idle
    <2>1. Holding' = Holding
      BY <1>1, <1>3, <1>5 DEF Holding
    <2>2. Inside' = Inside
      BY <1>1, <1>3 DEF Inside, InLoop
    <2>3. Idle' = Idle
      BY <1>1, <1>3 DEF Idle
    <2> QED
      BY <2>1, <2>2, <2>3
  <1>8. Counters'
    <2>1. InGroups' = InGroups
      BY <1>7 DEF InGroups, Held, Threads
    <2> QED
      BY <2>1, <1>1, <1>7 DEF IInv, Counters, CountersAgree
  <1>9. Roles' /\ GroupsNonempty'
    BY <1>1, <1>3, CheckQueueAssumption DEF IInv, Roles, GroupsNonempty, Threads
  <1>10. Passing'
    <2>1. \A u \in Threads : GroupPasses(u)'
      BY <1>3, <1>5 DEF GroupPasses
    <2>2. QueuePasses'
      BY <1>1, <1>5 DEF QueuePasses
    <2> QED
      BY <2>1, <2>2, <1>1, <1>4 DEF Passing
  <1>11. VerdictPending' /\ Settled'
    BY <1>1, <1>3, <1>10 DEF VerdictPending, Settled
  <1> QED
    BY <1>6, <1>8, <1>9, <1>11 DEF IInv

LEMMA CallWaitStep == IInv /\ CallWait => IInv'
  <1> SUFFICES ASSUME IInv, CallWait
               PROVE  IInv'
    OBVIOUS
  <1>1. /\ pc[Master] = "adding"
        /\ pc' = [pc EXCEPT ![Master] = "entering"]
        /\ nNow' = [nNow EXCEPT ![Master] = 0]
        /\ UNCHANGED <<queue, nIdle, nTotal, fAllOk, nTodo, vChecks, fOk, blocks, adds, allGood, verdict, fQuit, notifier>>
    BY DEF CallWait, shared, master
  <1>2. pc \in [Threads -> PCs] /\ Master \in Threads /\ nNow \in [Threads -> Nat]
    BY DEF IInv, TypeOK, PCs, Threads
  <1>3. /\ pc' \in [Threads -> PCs] /\ pc'[Master] = "entering"
        /\ \A u \in Threads \ {Master} : pc'[u] = pc[u] /\ nNow'[u] = nNow[u]
        /\ nNow' \in [Threads -> Nat]
    BY <1>1, <1>2 DEF PCs, InLoop
  <1>4. TypeOK'
    BY <1>1, <1>3 DEF IInv, TypeOK, PCs
  <1>5. Holding' = Holding /\ Inside' = Inside /\ Idle' = Idle
    <2>1. Holding' = Holding
      <3>1. \A u \in Threads : (IF pc'[u] \in {"executing", "executed"} THEN nNow'[u] ELSE 0)
                               = (IF pc[u] \in {"executing", "executed"} THEN nNow[u] ELSE 0)
        BY <1>1, <1>3
      <3> QED
        BY <3>1 DEF Holding
    <2>2. Inside' = Inside
      BY <1>1, <1>3 DEF Inside, InLoop
    <2>3. Idle' = Idle
      BY <1>1, <1>3 DEF Idle
    <2> QED
      BY <2>1, <2>2, <2>3
  <1>6. Counters'
    <2>1. InGroups' = InGroups
      BY <1>5 DEF InGroups, Held, Threads
    <2> QED
      BY <2>1, <1>1, <1>5 DEF IInv, Counters, CountersAgree
  <1>7. Roles' /\ GroupsNonempty'
    BY <1>1, <1>3, CheckQueueAssumption DEF IInv, Roles, GroupsNonempty, Threads
  <1>8. Passing' <=> Passing
    <2>1. \A u \in Threads : GroupPasses(u)' <=> GroupPasses(u)
      BY <1>1, <1>3 DEF GroupPasses
    <2> QED
      BY <2>1, <1>1 DEF Passing, QueuePasses
  <1>9. VerdictPending' /\ Settled'
    BY <1>1, <1>3, <1>8 DEF IInv, VerdictPending, Settled
  <1> QED
    BY <1>4, <1>6, <1>7, <1>9 DEF IInv

\* New checks count for the verdict from the moment they are queued.
LEMMA AddStep == IInv /\ Add => IInv'
  <1> SUFFICES ASSUME IInv, Add
               PROVE  IInv'
    OBVIOUS
  <1>b. PICK b \in Batches : \E woken \in WokenByAdd(Len(b)) :
          /\ queue' = queue \o b
          /\ nTodo' = nTodo + Len(b)
          /\ pc' = [t \in Threads |-> IF t \in woken THEN "woken" ELSE pc[t]]
          /\ allGood' = (allGood /\ \A i \in DOMAIN b : b[i])
    BY DEF Add
  <1>1. PICK W \in WokenByAdd(Len(b)) :
          /\ queue' = queue \o b
          /\ nTodo' = nTodo + Len(b)
          /\ pc' = [t \in Threads |-> IF t \in W THEN "woken" ELSE pc[t]]
          /\ allGood' = (allGood /\ \A i \in DOMAIN b : b[i])
    BY <1>b
  <1>2. /\ pc[Master] = "adding" /\ adds < MaxAdds /\ adds' = adds + 1
        /\ UNCHANGED <<nIdle, nTotal, fAllOk, vChecks, nNow, fOk, fQuit, notifier, blocks, verdict>>
    BY DEF Add, local
  <1>3. W \subseteq WaitingWorkers
    <2>1. WokenByAdd(Len(b)) \subseteq SUBSET WaitingWorkers
      BY DEF WokenByAdd
    <2> QED
      BY <2>1
  <1>4. pc \in [Threads -> PCs] /\ Master \in Threads /\ queue \in Seq(BOOLEAN) /\ b \in Seq(BOOLEAN)
    BY CheckQueueAssumption DEF IInv, TypeOK, PCs, Threads
  <1>5. /\ pc' \in [Threads -> PCs]
        /\ \A u \in Threads : pc'[u] = pc[u] \/ (pc[u] = "waiting" /\ pc'[u] = "woken")
    BY <1>1, <1>3, <1>4 DEF PCs, InLoop, WaitingWorkers
  <1>6. /\ queue' \in Seq(BOOLEAN) /\ Len(queue') = Len(queue) + Len(b)
        /\ QueuePasses' <=> QueuePasses /\ \A i \in DOMAIN b : b[i]
    <2> DEFINE q == queue \o b
    <2>1. /\ q \in Seq(BOOLEAN) /\ Len(q) = Len(queue) + Len(b) /\ DOMAIN q = 1..(Len(queue) + Len(b))
          /\ DOMAIN queue = 1..Len(queue) /\ DOMAIN b = 1..Len(b) /\ Len(queue) \in Nat /\ Len(b) \in Nat
      BY <1>4
    <2>2. /\ \A i \in 1..Len(queue) : q[i] = queue[i]
          /\ \A i \in 1..Len(b) : q[Len(queue) + i] = b[i]
      BY <1>4
    <2> HIDE DEF q
    <2>3. ASSUME \A i \in DOMAIN queue : queue[i], \A i \in DOMAIN b : b[i], NEW i \in DOMAIN q
          PROVE  q[i]
      <3>1. CASE i \in 1..Len(queue)
        BY <3>1, <2>1, <2>2, <2>3
      <3>2. CASE i \notin 1..Len(queue)
        <4>1. i - Len(queue) \in 1..Len(b) /\ Len(queue) + (i - Len(queue)) = i
          BY <3>2, <2>1
        <4>2. q[Len(queue) + (i - Len(queue))] = b[i - Len(queue)]
          BY <4>1, <2>2
        <4> QED
          BY <4>1, <4>2, <2>1, <2>3
      <3> QED
        BY <3>1, <3>2
    <2>4. ASSUME \A i \in DOMAIN q : q[i]
          PROVE  (\A i \in DOMAIN queue : queue[i]) /\ (\A i \in DOMAIN b : b[i])
      <3>1. \A i \in 1..Len(queue) : i \in DOMAIN q
        BY <2>1
      <3>2. \A i \in 1..Len(b) : Len(queue) + i \in DOMAIN q
        BY <2>1
      <3> QED
        BY <3>1, <3>2, <2>1, <2>2, <2>4
    <2>5. queue' = q
      BY <1>1 DEF q
    <2> QED
      BY <2>1, <2>3, <2>4, <2>5 DEF QueuePasses
  <1>7. TypeOK'
    <2>1. adds' \in 0..MaxAdds /\ nTodo' \in Nat /\ allGood' \in BOOLEAN
      BY <1>1, <1>2, <1>4, CheckQueueAssumption DEF IInv, TypeOK
    <2> QED
      BY <2>1, <1>2, <1>5, <1>6 DEF IInv, TypeOK, PCs
  <1>8. Holding' = Holding /\ Inside' = Inside /\ Idle' = Idle
    <2>1. \A u \in Threads : pc'[u] \in {"executing", "executed"} <=> pc[u] \in {"executing", "executed"}
      BY <1>5
    <2>2. Holding' = Holding
      BY <2>1, <1>2 DEF Holding
    <2>3. Inside' = Inside
      BY <1>5 DEF Inside, InLoop
    <2>4. Idle' = Idle
      BY <1>5 DEF Idle
    <2> QED
      BY <2>2, <2>3, <2>4
  <1>9. Counters'
    <2>1. InGroups' = InGroups
      BY <1>8 DEF InGroups, Held, Threads
    <2>2. /\ nTodo = Len(queue) + Cardinality(InGroups) /\ IsFiniteSet(InGroups)
          /\ nTotal = Cardinality(Inside) /\ nIdle = Cardinality(Idle)
      BY DEF IInv, Counters, CountersAgree
    <2>3. Cardinality(InGroups) \in Nat /\ Len(queue) \in Nat /\ Len(b) \in Nat
      BY <2>2, <1>4, FS_CardinalityType
    <2>4. nTodo' = Len(queue') + Cardinality(InGroups)
      BY <2>2, <2>3, <1>1, <1>6
    <2> QED
      BY <2>1, <2>2, <2>4, <1>2, <1>8 DEF Counters, CountersAgree
  <1>10. Roles' /\ GroupsNonempty'
    BY <1>2, <1>4, <1>5 DEF IInv, Roles, GroupsNonempty, Threads
  <1>11. Passing' <=> Passing /\ \A i \in DOMAIN b : b[i]
    <2>1. \A u \in Threads : GroupPasses(u)' <=> GroupPasses(u)
      BY <1>2, <1>5 DEF GroupPasses
    <2> QED
      BY <2>1, <1>2, <1>6 DEF Passing
  <1>12. pc'[Master] = "adding"
    BY <1>2, <1>4, <1>5
  <1>13. VerdictPending' /\ Settled'
    BY <1>1, <1>2, <1>11, <1>12 DEF IInv, VerdictPending, Settled
  <1> QED
    BY <1>7, <1>9, <1>10, <1>13 DEF IInv

-----------------------------------------------------------------------------
(* The invariant and what follows from it. *)

LEMMA InitIInv == Init => IInv
  <1> SUFFICES ASSUME Init
               PROVE  IInv
    OBVIOUS
  <1>1. /\ pc \in [Threads -> PCs] /\ Master \in Threads /\ pc[Master] = "outside"
        /\ \A w \in Workers : pc[w] = "entering"
        /\ \A t \in Threads : pc[t] \in {"outside", "entering"}
    BY CheckQueueAssumption DEF Init, PCs, InLoop, Threads
  <1>2. TypeOK
    <2>1. queue \in Seq(BOOLEAN) /\ vChecks \in [Threads -> Seq(BOOLEAN)] /\ nNow \in [Threads -> Nat]
      BY DEF Init
    <2>2. fOk \in [Threads -> BOOLEAN] /\ fAllOk \in BOOLEAN /\ fQuit \in BOOLEAN
          /\ allGood \in BOOLEAN /\ verdict \in BOOLEAN
      BY DEF Init
    <2>3. /\ nIdle \in Nat /\ nTotal \in Nat /\ nTodo \in Nat
          /\ blocks \in 0..MaxBlocks /\ adds \in 0..MaxAdds
          /\ notifier \in {"none", "workers", "master", "done"}
      BY CheckQueueAssumption DEF Init
    <2> QED
      BY <2>1, <2>2, <2>3, <1>1 DEF TypeOK, PCs
  <1>3. Counters
    <2>1. \A t \in Threads : Holding[t] = 0
      BY <1>1 DEF Holding
    <2>2. InGroups = {}
      BY <2>1 DEF InGroups, Held
    <2>3. Inside = {} /\ Idle = {}
      BY <1>1 DEF Inside, Idle, InLoop
    <2> QED
      BY <2>2, <2>3, FS_EmptySet DEF Counters, CountersAgree, Init
  <1>4. Roles /\ GroupsNonempty
    BY <1>1 DEF Roles, GroupsNonempty
  <1>5. VerdictPending /\ Settled
    BY <1>1 DEF VerdictPending, Settled, Init
  <1> QED
    BY <1>2, <1>3, <1>4, <1>5 DEF IInv

LEMMA NextIInv == IInv /\ [Next]_vars => IInv'
  <1> SUFFICES ASSUME IInv, [Next]_vars
               PROVE  IInv'
    OBVIOUS
  <1>1. CASE MakeControl
    BY <1>1, MakeControlStep
  <1>2. CASE Add
    BY <1>2, AddStep
  <1>3. CASE CallWait
    BY <1>3, CallWaitStep
  <1>W. ASSUME NEW W \in SUBSET Threads, \A u \in W : pc[u] = "waiting",
               \/ pc' = [u \in Threads |-> IF u \in W THEN "woken" ELSE pc[u]]
               \/ W = {} /\ pc' = pc,
               UNCHANGED <<queue, nIdle, nTotal, fAllOk, nTodo, vChecks, nNow, fOk, blocks, adds, allGood, verdict>>,
               fQuit' = fQuit, notifier' \in {"none", "workers", "master", "done"}
        PROVE  IInv'
    <2>1. pc' = [u \in Threads |-> IF u \in W THEN "woken" ELSE pc[u]]
      BY <1>W DEF IInv, TypeOK
    <2> QED
      BY <2>1, <1>W, WakeStep
  <1>4. CASE Interrupt
    <2>1. /\ fQuit' = TRUE /\ notifier' = "workers"
          /\ UNCHANGED <<queue, nIdle, nTotal, fAllOk, nTodo, vChecks, nNow, fOk, blocks, adds, allGood, verdict, pc>>
      BY <1>4 DEF Interrupt, shared, local, master
    <2>2. TypeOK'
      BY <2>1 DEF IInv, TypeOK
    <2>3. Roles' /\ GroupsNonempty' /\ VerdictPending' /\ Settled'
      BY <2>1 DEF IInv, Roles, GroupsNonempty, VerdictPending, Settled, Passing, GroupPasses, QueuePasses
    <2>4. Counters'
      BY <2>1 DEF IInv, Counters, CountersAgree, InGroups, Held, Holding, Inside, Idle
    <2> QED
      BY <2>2, <2>3, <2>4 DEF IInv
  <1>5. CASE InterruptNotify
    <2>1. UNCHANGED <<queue, nIdle, nTotal, fAllOk, nTodo, vChecks, nNow, fOk, blocks, adds, allGood, verdict, fQuit>>
      BY <1>5 DEF InterruptNotify, shared, local, master
    <2>2. CASE /\ notifier' = "master"
               /\ pc' = [t \in Threads |-> IF t \in WaitingWorkers THEN "woken" ELSE pc[t]]
      <3>1. WaitingWorkers \in SUBSET Threads /\ \A u \in WaitingWorkers : pc[u] = "waiting"
        BY DEF WaitingWorkers, Threads
      <3> QED
        BY <3>1, <2>1, <2>2, <1>W
    <2>3. CASE /\ notifier' = "done"
               /\ pc' = [pc EXCEPT ![Master] = IF @ = "waiting" THEN "woken" ELSE @]
      <3> DEFINE W == {u \in {Master} : pc[u] = "waiting"}
      <3>1. W \in SUBSET Threads /\ \A u \in W : pc[u] = "waiting"
        BY DEF Threads
      <3>2. pc' = [u \in Threads |-> IF u \in W THEN "woken" ELSE pc[u]]
        BY <2>3 DEF IInv, TypeOK, Threads
      <3> HIDE DEF W
      <3> QED
        BY <3>1, <3>2, <2>1, <2>3, <1>W
    <2> QED
      BY <1>5, <2>2, <2>3 DEF InterruptNotify
  <1>6. ASSUME NEW t \in Threads, Return(t) \/ Sleep(t) \/ Take(t) \/ Execute(t) \/ SpuriousWakeup(t)
        PROVE  IInv'
    <2>1. CASE SpuriousWakeup(t)
      <3>1. /\ pc[t] = "waiting" /\ pc' = [pc EXCEPT ![t] = "woken"] /\ notifier' = notifier
            /\ UNCHANGED <<queue, nIdle, nTotal, fAllOk, nTodo, vChecks, nNow, fOk, blocks, adds, allGood, verdict, fQuit>>
        BY <2>1 DEF SpuriousWakeup, shared, local, master
      <3>2. {t} \in SUBSET Threads /\ \A u \in {t} : pc[u] = "waiting"
        BY <3>1
      <3>3. pc' = [u \in Threads |-> IF u \in {t} THEN "woken" ELSE pc[u]]
        BY <3>1 DEF IInv, TypeOK
      <3>4. notifier' \in {"none", "workers", "master", "done"}
        BY <3>1 DEF IInv, TypeOK
      <3> QED
        BY <3>1, <3>2, <3>3, <3>4, <1>W
    <2> QED
      BY <1>6, <2>1, ReturnStep, SleepStep, TakeStep, ExecuteStep
  <1>7. CASE UNCHANGED vars
    <2>1. UNCHANGED <<queue, nIdle, nTotal, fAllOk, nTodo, vChecks, nNow, fOk, blocks, adds, allGood, verdict, fQuit, pc, notifier>>
      BY <1>7 DEF vars, shared, local, master
    <2>2. {} \in SUBSET Threads /\ \A u \in {} : pc[u] = "waiting"
      OBVIOUS
    <2>3. notifier' \in {"none", "workers", "master", "done"}
      BY <2>1 DEF IInv, TypeOK
    <2> QED
      BY <2>1, <2>2, <2>3, <1>W
  <1> QED
    BY <1>1, <1>2, <1>3, <1>4, <1>5, <1>6, <1>7 DEF Next

LEMMA Invariance == Spec => []IInv
  BY InitIInv, NextIInv, PTL DEF Spec

\* Every variable keeps its type; in particular nTodo, nTotal and nIdle, which
\* are unsigned or decremented without a test in Loop, never pass below zero.
THEOREM CheckQueueTypeOK == Spec => []TypeOK
  <1>1. IInv => TypeOK
    BY DEF IInv
  <1> QED
    BY <1>1, Invariance, PTL

\* nTodo, nTotal and nIdle are the numbers of checks and threads they stand for
\* in every state between two critical sections of Loop, Add and Wait, for every
\* number of script check threads.
THEOREM CountersAlwaysAgree == Spec => []CountersAgree
  <1>1. IInv => CountersAgree
    BY DEF IInv, Counters
  <1> QED
    BY <1>1, Invariance, PTL

\* The assertion of CCheckQueueControl's constructor holds whenever ConnectBlock
\* may run it, with any number of threads and batches of any size.
THEOREM ConstructorAssertHolds == Spec => []AssertIdle
  <1>1. IInv => AssertIdle
    <2> SUFFICES ASSUME IInv, pc[Master] = "outside"
                 PROVE  IsIdle
      BY DEF AssertIdle
    <2>1. nTodo = 0 /\ fAllOk
      BY DEF IInv, Settled
    <2>2. \A u \in Threads : pc[u] \notin {"executing", "executed"}
      BY <2>1, NothingToDo
    <2>3. Inside = Idle
      BY <2>2 DEF Inside, Idle, InLoop
    <2> QED
      BY <2>1, <2>3 DEF IsIdle, IInv, Counters, CountersAgree
  <1> QED
    BY <1>1, Invariance, PTL

\* Wait returns the conjunction of all checks added since the control was made,
\* however Loop's threads divided them: ConnectBlock accepts the scripts of a
\* block exactly when every one of them verifies.
THEOREM WaitReturnsConjunction == Spec => []VerdictIsConjunction
  <1>1. IInv => VerdictIsConjunction
    BY DEF IInv, Settled, VerdictIsConjunction
  <1> QED
    BY <1>1, Invariance, PTL
=============================================================================
