----------------------------- MODULE ChainState -----------------------------
(***************************************************************************)
(* The block tree and the active chain (main.cpp): blocks are accepted     *)
(* into mapBlockIndex, ActivateBestChain moves the active chain to the     *)
(* best candidate in steps that release cs_main, InvalidateBlock and       *)
(* ReconsiderBlock change a verdict by RPC, FlushStateToDisk writes the    *)
(* block index and then the coins, and LoadBlockIndexDB rebuilds           *)
(* everything after a crash.                                               *)
(*                                                                         *)
(* Left out because nothing here depends on it: fork warnings and          *)
(* pindexBestInvalid, pindexBestHeader, notifications, and the missing-    *)
(* data branch of FindMostWorkChain, which needs deleted block files (this *)
(* code deletes none; CandidatesAreLinked shows the branch is dead).       *)
(***************************************************************************)
EXTENDS Integers, FiniteSets

CONSTANTS Block,          \* block hashes
          Genesis,
          Prev,           \* hashPrevBlock of every block but Genesis
          Anc,            \* every block with its ancestors, itself included
          Work,           \* nChainWork
          Addr,           \* address of the CBlockIndex, the last tie breaker
          Kinds,          \* the assignments of a verdict to every block
          Checkpointed,   \* blocks that match a checkpoint
          Thread,         \* threads that process blocks or RPC commands
          None,
          MaxInvalidate, MaxReconsider, MaxCrash, MaxWriteFail  \* bounds

\* What the checks say of a block's contents: "ok"; "context": refused by
\* ContextualCheckBlock; "connect": refused by ConnectBlock; "corrupt": the copy
\* on disk no longer matches its header, refused with CorruptionPossible.
Kind == {"ok", "context", "connect", "corrupt"}

\* nStatus: BLOCK_HAVE_DATA (with VALID_TRANSACTIONS), BLOCK_HAVE_UNDO (with
\* VALID_SCRIPTS), BLOCK_FAILED_VALID, BLOCK_FAILED_CHILD.
Status == [have : BOOLEAN, undo : BOOLEAN, fv : BOOLEAN, fc : BOOLEAN]

ASSUME ChainStateAssumption ==
  /\ IsFiniteSet(Block)
  /\ Genesis \in Block
  /\ Prev \in [Block \ {Genesis} -> Block]
  /\ Anc \in [Block -> SUBSET Block]
  /\ Anc[Genesis] = {Genesis}
  /\ \A b \in Block \ {Genesis} : Prev[b] # b /\ Anc[b] = {b} \cup Anc[Prev[b]]
  /\ \A b \in Block : Genesis \in Anc[b]
  /\ \A b \in Block : \A a \in Anc[b] \ {b} :
       \E n \in Anc[b] \ {Genesis} : Prev[n] = a
  /\ \A b \in Block : \A a \in Anc[b] : Anc[a] \subseteq Anc[b]
  /\ Work \in [Block -> Nat]
  /\ \A b \in Block : \A a \in Anc[b] \ {b} : Work[a] < Work[b]
  /\ Addr \in [Block -> Nat]
  /\ \A a, b \in Block : Addr[a] = Addr[b] => a = b
  /\ Kinds \subseteq [Block -> Kind]
  /\ \A k \in Kinds : k[Genesis] = "ok"
  /\ Checkpointed \subseteq Block
  /\ \A k \in Kinds : \A b \in Checkpointed : k[b] = "ok"
  /\ None \notin Block /\ None \notin Thread /\ None \notin Status
  /\ {MaxInvalidate, MaxReconsider, MaxCrash, MaxWriteFail} \subseteq Nat
  \* InvalidateBlock meeting a tip it cannot read back is not modelled
  /\ MaxInvalidate > 0 => \A k \in Kinds, b \in Block : k[b] # "corrupt"

VARIABLES kind,       \* the verdicts of this behaviour
          idx,        \* mapBlockIndex: nStatus of each known block
          linked,     \* blocks with nChainTx # 0
          seq,        \* nSequenceId
          nSeq,       \* nBlockSequenceId
          cand,       \* setBlockIndexCandidates
          unlinked,   \* the second components of mapBlocksUnlinked
          dirty,      \* setDirtyBlockIndex
          tip,        \* chainActive.Tip()
          coins,      \* gpCoinsTip->GetBestBlock()
          disk,       \* the block index on disk
          coinsDisk,  \* the best block of the coin database on disk
          cs,         \* the thread that holds cs_main
          pc,         \* where each thread is
          loc,        \* the local variables of each thread
          count       \* how often each bounded event has happened

tree    == <<kind, idx, linked, seq, nSeq, unlinked>>
threads == <<cs, pc, loc>>
vars    == <<kind, idx, linked, seq, nSeq, cand, unlinked, dirty, tip, coins,
             disk, coinsDisk, cs, pc, loc, count>>

\* pindexMostWork (or the argument of InvalidateBlock), pindexOldTip, and pblock,
\* the block still in memory
Locals == [most : Block \cup {None}, old : Block \cup {None}, held : Block \cup {None}]
NoLocals == [most |-> None, old |-> None, held |-> None]
Header == [have |-> FALSE, undo |-> FALSE, fv |-> FALSE, fc |-> FALSE]

-----------------------------------------------------------------------------
(* The tree *)

Height(b) == Cardinality(Anc[b]) - 1

Known    == {b \in Block : idx[b] # None}
Failed(b) == idx[b].fv \/ idx[b].fc
Active   == Anc[tip]

\* CBlockIndexWorkComparator for a given assignment of sequence ids
LessBy(s, a, b) == \/ Work[a] < Work[b]
                   \/ Work[a] = Work[b] /\ s[a] > s[b]
                   \/ Work[a] = Work[b] /\ s[a] = s[b] /\ Addr[a] > Addr[b]
Less(a, b) == LessBy(seq, a, b)

-----------------------------------------------------------------------------
(* FindMostWorkChain *)

Path(c) == Anc[c] \ Active
Usable(c) == \A a \in Path(c) : ~Failed(a)

Best == {c \in cand : Usable(c) /\ \A d \in cand : Usable(d) => ~Less(c, d)}
MostWork == IF Best = {} THEN None ELSE CHOOSE c \in Best : TRUE

\* The candidates looked at and thrown out before MostWork is found.
Rejected == {c \in cand : ~Usable(c) /\ (MostWork # None => Less(MostWork, c))}

\* The failed block the walk down from c meets first, and the blocks above it.
FirstFailed(c) == CHOOSE a \in Path(c) :
                    /\ Failed(a)
                    /\ \A d \in Path(c) : Failed(d) => Height(d) <= Height(a)
Above(c) == {a \in Path(c) : Height(a) > Height(FirstFailed(c))}

MarkedChildren == UNION {Above(c) : c \in Rejected}
Dropped == MarkedChildren \cup {FirstFailed(c) : c \in Rejected}

-----------------------------------------------------------------------------
(* ReceivedBlockTransactions *)

\* The blocks that become linked when b's data arrives: b and the descendants
\* that were waiting in mapBlocksUnlinked.
LinkingNone(b) == {b}
Linking(b) == {d \in Block : b \in Anc[d] /\ Anc[d] \ Anc[b] \subseteq unlinked}

\* The sequence ids they may get: breadth first, and at one height in the order
\* of mapBlocksUnlinked, which the model does not record.
Numberings(b) == {f \in [Linking(b) -> nSeq .. nSeq + Cardinality(Linking(b)) - 1] :
                    \A d, e \in Linking(b) :
                      /\ f[d] = f[e] => d = e
                      /\ Height(d) < Height(e) => f[d] < f[e]}

-----------------------------------------------------------------------------
(* Candidates after each operation *)

\* PruneBlockIndexCandidates for a new tip t
PrunedNot(t) == cand
Pruned(t) == {c \in cand : ~Less(c, t)}

\* The blocks InvalidateBlock puts back once the tip is out of the way.
PutBackNone == {}
PutBack == {d \in Known : ~Failed(d) /\ d \in linked /\ ~Less(d, tip)}

\* LoadBlockIndexDB
LoadedLinked == {b \in Block : \A a \in Anc[b] : disk[a] # None /\ disk[a].have}
LoadedCandidates ==
  {b \in LoadedLinked : /\ ~disk[b].fv /\ ~disk[b].fc
                        /\ ~LessBy([d \in Block |-> 0], b, coinsDisk)}

-----------------------------------------------------------------------------
TypeOK ==
  /\ kind \in Kinds
  /\ idx \in [Block -> Status \cup {None}]
  /\ linked \subseteq Known
  /\ seq \in [Block -> Nat] /\ nSeq \in Nat
  /\ cand \subseteq Known /\ unlinked \subseteq Known /\ dirty \subseteq Known
  /\ tip \in Known /\ coins \in Known
  /\ disk \in [Block -> Status \cup {None}] /\ coinsDisk \in Block
  /\ cs \in Thread \cup {None}
  /\ pc \in [Thread -> {"idle", "find", "step", "inv", "check", "periodic",
                        "dIndex", "dCoins", "cIndex", "cCoins", "iIndex",
                        "iCoins", "pCoins"}]
  /\ loc \in [Thread -> Locals]
  /\ count \in [inv : 0 .. MaxInvalidate, rec : 0 .. MaxReconsider,
                crash : 0 .. MaxCrash, fail : 0 .. MaxWriteFail]

\* A node that has the genesis block and nothing else.
Init ==
  /\ kind \in Kinds
  /\ idx = [b \in Block |-> IF b = Genesis THEN [Header EXCEPT !.have = TRUE] ELSE None]
  /\ linked = {Genesis} /\ cand = {Genesis} /\ unlinked = {} /\ dirty = {}
  /\ seq = [b \in Block |-> IF b = Genesis THEN 1 ELSE 0] /\ nSeq = 2
  /\ tip = Genesis /\ coins = Genesis
  /\ disk = idx /\ coinsDisk = Genesis
  /\ cs = None /\ pc = [t \in Thread |-> "idle"]
  /\ loc = [t \in Thread |-> NoLocals]
  /\ count = [inv |-> 0, rec |-> 0, crash |-> 0, fail |-> 0]

-----------------------------------------------------------------------------
(* ProcessNewBlock and AcceptBlock.  A block whose parent is unknown, or whose  *)
(* parent or itself is marked failed, is refused.                               *)

Idle(t) == pc[t] = "idle" /\ cs = None
Goto(t, where) == pc' = [pc EXCEPT ![t] = where]
Activate(t, b) == Goto(t, "find") /\ loc' = [loc EXCEPT ![t] = [NoLocals EXCEPT !.held = b]]
Return(t) == Goto(t, "idle") /\ loc' = [loc EXCEPT ![t] = NoLocals]

Acceptable(b) == /\ b # Genesis
                 /\ idx[Prev[b]] # None /\ ~Failed(Prev[b])
                 /\ idx[b] # None => ~Failed(b)
Entry(b) == IF idx[b] = None THEN Header ELSE idx[b]
LacksData(b) == ~Entry(b).have

AcceptRefused(t, b) ==
  /\ Idle(t) /\ ~Acceptable(b)
  /\ b # Genesis /\ idx[Prev[b]] # None /\ Failed(Prev[b]) => Prev[b] \notin Checkpointed
  /\ UNCHANGED vars

\* The data is stored: ReceivedBlockTransactions, then ActivateBestChain.
AcceptBlock(t, b) ==
  /\ Idle(t) /\ Acceptable(b) /\ LacksData(b) /\ kind[b] # "context"
  /\ idx' = [idx EXCEPT ![b] = [Entry(b) EXCEPT !.have = TRUE]]
  /\ dirty' = dirty \cup {b}
  /\ \/ /\ Prev[b] \in linked
        /\ \E f \in Numberings(b) :
             LET s == [d \in Block |-> IF d \in Linking(b) THEN f[d] ELSE seq[d]] IN
             /\ seq' = s
             /\ cand' = cand \cup {d \in Linking(b) : ~LessBy(s, d, tip)}
        /\ nSeq' = nSeq + Cardinality(Linking(b))
        /\ linked' = linked \cup Linking(b)
        /\ unlinked' = unlinked \ Linking(b)
     \/ /\ Prev[b] \notin linked
        /\ unlinked' = unlinked \cup {b}
        /\ UNCHANGED <<seq, nSeq, cand, linked>>
  /\ Activate(t, b)
  /\ UNCHANGED <<kind, tip, coins, disk, coinsDisk, cs, count>>

\* The data is there already (submitblock, a block file read again).
AcceptKnown(t, b) ==
  /\ Idle(t) /\ Acceptable(b) /\ ~LacksData(b)
  /\ Activate(t, b)
  /\ UNCHANGED <<tree, cand, dirty, tip, coins, disk, coinsDisk, cs, count>>

\* ContextualCheckBlock refuses the block: its header stays, marked failed.
AcceptBadContext(t, b) ==
  /\ Idle(t) /\ Acceptable(b) /\ LacksData(b) /\ kind[b] = "context"
  /\ idx' = [idx EXCEPT ![b] = [Entry(b) EXCEPT !.fv = TRUE]]
  /\ dirty' = dirty \cup {b}
  /\ UNCHANGED <<kind, linked, seq, nSeq, cand, unlinked, tip, coins, disk, coinsDisk,
                 threads, count>>

\* FindBlockPos or WriteBlockToDisk fails: the header stays, without data.
AcceptWriteFails(t, b) ==
  /\ Idle(t) /\ Acceptable(b) /\ LacksData(b) /\ kind[b] # "context"
  /\ count.fail < MaxWriteFail
  /\ count' = [count EXCEPT !.fail = @ + 1]
  /\ idx' = [idx EXCEPT ![b] = Entry(b)]
  /\ dirty' = IF idx[b] = None THEN dirty \cup {b} ELSE dirty
  /\ UNCHANGED <<kind, linked, seq, nSeq, cand, unlinked, tip, coins, disk, coinsDisk, threads>>

-----------------------------------------------------------------------------
(* ReconsiderBlock *)

FailedBelowSelf(p) == {p} \cap {d \in Known : Failed(d)}
FailedBelow(p) == {d \in Known : Failed(d) /\ p \in Anc[d]}
FailedAbove(p) == {a \in Anc[p] : Failed(a)}
ReconsideredCandidates(p) == {d \in FailedBelow(p) : d \in linked /\ Less(tip, d)}

ReconsiderBlock(p) ==
  LET cleared == FailedBelow(p) \cup FailedAbove(p) IN
  /\ idx' = [b \in Block |-> IF b \in cleared
                             THEN [idx[b] EXCEPT !.fv = FALSE, !.fc = FALSE] ELSE idx[b]]
  /\ dirty' = dirty \cup cleared
  /\ cand' = cand \cup ReconsideredCandidates(p)
  /\ UNCHANGED <<kind, linked, seq, nSeq, unlinked, tip, coins, disk, coinsDisk>>

\* The reconsiderblock command
ReconsiderCommand(t, p) ==
  /\ Idle(t) /\ p \in Known
  /\ count.rec < MaxReconsider
  /\ count' = [count EXCEPT !.rec = @ + 1]
  /\ ReconsiderBlock(p)
  /\ Activate(t, None)
  /\ UNCHANGED cs

\* A child of a failed block that matches a checkpoint arrives: the parent is
\* reconsidered and the child itself dropped.
AcceptOnCheckpoint(t, b) ==
  /\ Idle(t) /\ b # Genesis /\ Prev[b] \in Checkpointed
  /\ idx[Prev[b]] # None /\ Failed(Prev[b])
  /\ ReconsiderBlock(Prev[b])
  /\ Activate(t, b)
  /\ UNCHANGED <<cs, count>>

-----------------------------------------------------------------------------
(* ActivateBestChain *)

\* FindMostWorkChain; cs_main is then kept for the step if there is one.
Find(t) ==
  /\ pc[t] = "find" /\ cs = None
  /\ idx' = [b \in Block |-> IF b \in MarkedChildren
                             THEN [idx[b] EXCEPT !.fc = TRUE] ELSE idx[b]]
  /\ cand' = cand \ Dropped
  /\ \/ /\ MostWork \in {None, tip}
        /\ Return(t)
        /\ UNCHANGED cs
     \/ /\ MostWork \notin {None, tip}
        /\ Goto(t, "step")
        /\ cs' = t
        /\ loc' = [loc EXCEPT ![t].most = MostWork, ![t].old = tip]
  /\ UNCHANGED <<kind, linked, seq, nSeq, unlinked, dirty, tip, coins, disk, coinsDisk, count>>

\* The step: DisconnectBlock, while the tip is not on the way to loc[t].most.
StepDisconnect(t) ==
  /\ pc[t] = "step" /\ tip \notin Anc[loc[t].most]
  /\ coins' = Prev[tip]
  /\ Goto(t, "dIndex")
  /\ UNCHANGED <<tree, cand, dirty, tip, disk, coinsDisk, cs, loc, count>>

\* DisconnectBlock cannot use the copy on disk: ActivateBestChain returns false.
StepFails(t) ==
  /\ pc[t] = "step" /\ tip \notin Anc[loc[t].most] /\ kind[tip] = "corrupt"
  /\ Return(t) /\ cs' = None
  /\ UNCHANGED <<tree, cand, dirty, tip, coins, disk, coinsDisk, count>>

\* The block to connect next; the last one may be in memory.
NextBlockLast(t) == loc[t].most
NextBlock(t) == CHOOSE n \in Anc[loc[t].most] \ {Genesis} : Prev[n] = tip
InMemory(t) == NextBlock(t) = loc[t].most /\ loc[t].most = loc[t].held
Connecting(t) == pc[t] = "step" /\ tip \in Anc[loc[t].most]

\* ConnectBlock succeeds and writes undo data unless it has before.
StepConnect(t) ==
  /\ Connecting(t)
  /\ LET n == NextBlock(t) IN
     /\ kind[n] = "ok" \/ (kind[n] = "corrupt" /\ InMemory(t))
     /\ coins' = n
     /\ idx' = [idx EXCEPT ![n].undo = TRUE]
     /\ dirty' = IF idx[n].undo THEN dirty ELSE dirty \cup {n}
  /\ Goto(t, "cIndex")
  /\ UNCHANGED <<kind, linked, seq, nSeq, cand, unlinked, tip, disk, coinsDisk, cs, loc, count>>

\* ConnectBlock refuses the block: InvalidBlockFound, unless the failure may be
\* due to corruption.  Either way cs_main is released and the loop goes on.
StepRefused(t) ==
  /\ Connecting(t)
  /\ LET n == NextBlock(t) IN
     \/ /\ kind[n] = "connect"
        /\ idx' = [idx EXCEPT ![n].fv = TRUE]
        /\ dirty' = dirty \cup {n}
        /\ cand' = cand \ {n}
     \/ /\ kind[n] = "corrupt" /\ ~InMemory(t)
        /\ UNCHANGED <<idx, dirty, cand>>
  /\ Goto(t, "check") /\ cs' = None
  /\ UNCHANGED <<kind, linked, seq, nSeq, unlinked, tip, coins, disk, coinsDisk, loc, count>>

\* The end of ConnectTip: UpdateTip and PruneBlockIndexCandidates.  The lock is
\* released once the chain has more work than the step started with.
ConnectedUnset(t) ==
  /\ UNCHANGED <<tip, cand>>
  /\ Goto(t, "check") /\ cs' = None
Connected(t) ==
  /\ tip' = coins
  /\ cand' = Pruned(coins)
  /\ IF Work[coins] > Work[loc[t].old] \/ coins = loc[t].most
     THEN Goto(t, "check") /\ cs' = None
     ELSE Goto(t, "step") /\ UNCHANGED cs

-----------------------------------------------------------------------------
(* FlushStateToDisk: the block files and the index, then the coins *)

IndexWrittenNot == dirty' = {} /\ UNCHANGED disk
IndexWritten == /\ disk' = [b \in Block |-> IF b \in dirty THEN idx[b] ELSE disk[b]]
                /\ dirty' = {}

WriteIndex(t) ==
  /\ IndexWritten
  /\ \/ pc[t] = "dIndex" /\ Goto(t, "dCoins")
     \/ pc[t] = "cIndex" /\ Goto(t, "cCoins")
     \/ pc[t] = "iIndex" /\ Goto(t, "iCoins")
  /\ UNCHANGED <<tree, cand, tip, coins, coinsDisk, cs, loc, count>>

\* The coins are written, and the caller continues: DisconnectTip of a step or
\* of InvalidateBlock, ConnectTip, or the periodic flush.
WriteCoins(t) ==
  /\ coinsDisk' = coins
  /\ \/ pc[t] = "dCoins" /\ tip' = coins /\ Goto(t, "step") /\ UNCHANGED <<cand, cs, loc>>
     \/ pc[t] = "iCoins" /\ tip' = coins /\ Goto(t, "inv") /\ UNCHANGED <<cand, cs, loc>>
     \/ pc[t] = "cCoins" /\ Connected(t) /\ UNCHANGED loc
     \/ pc[t] = "pCoins" /\ Return(t) /\ cs' = None /\ UNCHANGED <<cand, tip>>
  /\ UNCHANGED <<tree, dirty, coins, disk, count>>

\* FLUSH_STATE_IF_NEEDED and the cache is not full.
NoFlush(t) ==
  /\ pc[t] = "cIndex" /\ Connected(t)
  /\ UNCHANGED <<tree, dirty, coins, disk, coinsDisk, loc, count>>

\* The loop's condition, read without cs_main
CheckOnce(t) ==
  /\ pc[t] = "check"
  /\ Goto(t, "periodic") /\ loc' = [loc EXCEPT ![t] = NoLocals]
  /\ UNCHANGED <<tree, cand, dirty, tip, coins, disk, coinsDisk, cs, count>>
Check(t) ==
  /\ pc[t] = "check"
  /\ IF loc[t].most = tip
     THEN Goto(t, "periodic") /\ loc' = [loc EXCEPT ![t] = NoLocals]
     ELSE Activate(t, loc[t].held)
  /\ UNCHANGED <<tree, cand, dirty, tip, coins, disk, coinsDisk, cs, count>>

\* FLUSH_STATE_PERIODIC, due or not
Periodic(t) ==
  /\ pc[t] = "periodic" /\ cs = None
  /\ \/ Return(t) /\ UNCHANGED <<disk, dirty, cs>>
     \/ IndexWritten /\ Goto(t, "pCoins") /\ cs' = t /\ UNCHANGED loc
  /\ UNCHANGED <<tree, cand, tip, coins, coinsDisk, count>>

-----------------------------------------------------------------------------
(* InvalidateBlock.  The genesis block is left out: it cannot be disconnected.  *)

InvalidateBlock(t, b) ==
  /\ Idle(t) /\ b \in Known \ {Genesis}
  /\ count.inv < MaxInvalidate
  /\ count' = [count EXCEPT !.inv = @ + 1]
  /\ idx' = [idx EXCEPT ![b].fv = TRUE]
  /\ dirty' = dirty \cup {b}
  /\ cand' = cand \ {b}
  /\ Goto(t, "inv") /\ cs' = t
  /\ loc' = [loc EXCEPT ![t].most = b]
  /\ UNCHANGED <<kind, linked, seq, nSeq, unlinked, tip, coins, disk, coinsDisk>>

InvalidateTip(t) ==
  /\ pc[t] = "inv" /\ loc[t].most \in Active
  /\ idx' = [idx EXCEPT ![tip].fc = TRUE]
  /\ dirty' = dirty \cup {tip}
  /\ cand' = cand \ {tip}
  /\ coins' = Prev[tip]
  /\ Goto(t, "iIndex")
  /\ UNCHANGED <<kind, linked, seq, nSeq, unlinked, tip, disk, coinsDisk, cs, loc, count>>

InvalidateDone(t) ==
  /\ pc[t] = "inv" /\ loc[t].most \notin Active
  /\ cand' = cand \cup PutBack
  /\ Activate(t, None) /\ cs' = None
  /\ UNCHANGED <<tree, dirty, tip, coins, disk, coinsDisk, count>>

-----------------------------------------------------------------------------
\* A crash at any point, and a start: LoadBlockIndexDB, then ThreadImport calls
\* ActivateBestChain.
Crash ==
  /\ count.crash < MaxCrash
  /\ count' = [count EXCEPT !.crash = @ + 1]
  /\ idx' = disk
  /\ linked' = LoadedLinked
  /\ unlinked' = {b \in Block : disk[b] # None /\ disk[b].have} \ LoadedLinked
  /\ cand' = LoadedCandidates
  /\ seq' = [b \in Block |-> 0] /\ nSeq' = 1
  /\ dirty' = {}
  /\ tip' = coinsDisk /\ coins' = coinsDisk
  /\ cs' = None
  /\ \E t \in Thread : pc' = [u \in Thread |-> IF u = t THEN "find" ELSE "idle"]
  /\ loc' = [t \in Thread |-> NoLocals]
  /\ UNCHANGED <<kind, disk, coinsDisk>>

Run(t) == \/ Find(t) \/ StepDisconnect(t) \/ StepFails(t) \/ StepConnect(t) \/ StepRefused(t)
          \/ WriteIndex(t) \/ WriteCoins(t) \/ NoFlush(t)
          \/ Check(t) \/ Periodic(t) \/ InvalidateTip(t) \/ InvalidateDone(t)

Arrive(t, b) == \/ AcceptRefused(t, b) \/ AcceptBlock(t, b) \/ AcceptKnown(t, b) \/ AcceptBadContext(t, b)
                \/ AcceptWriteFails(t, b) \/ AcceptOnCheckpoint(t, b)
                \/ InvalidateBlock(t, b) \/ ReconsiderCommand(t, b)

Next == \/ \E t \in Thread : Run(t) \/ \E b \in Block : Arrive(t, b)
        \/ Crash

Spec == Init /\ [][Next]_vars

\* Every thread that is inside ActivateBestChain or InvalidateBlock keeps running.
FairSpec == Spec /\ \A t \in Thread : WF_vars(Run(t))

-----------------------------------------------------------------------------
(* Properties *)

HasData(b) == idx[b] # None /\ idx[b].have

\* No thread is between two steps of ActivateBestChain.
Quiescent == \A t \in Thread : pc[t] \in {"idle", "periodic"}
Readable == \A b \in Block : kind[b] # "corrupt"

\* ReconsiderBlock repairs one branch only (main.cpp:2541-2563): it clears the
\* marks of all ancestors of its argument, but makes candidates of descendants
\* only and leaves the FAILED_CHILD marks of the ancestors' other descendants.
\* That is a whole repair when nothing but Genesis has two children and every
\* block is valid and came with its data, and nothing is to repair when it is
\* never called.
RepairIsWhole ==
  \/ count.rec = 0 /\ Checkpointed = {}
  \/ /\ count.fail = 0 /\ \A b \in Block : kind[b] = "ok"
     /\ \A b, d \in Known : \/ b \in Anc[d] \/ d \in Anc[b]
                              \/ Anc[b] \cap Anc[d] = {Genesis}

\* The block tree CheckBlockIndex asserts (main.cpp:3543-3605): nChainTx is set
\* exactly for the blocks whose ancestors all have data, mapBlocksUnlinked holds
\* the others that have data, and only linked blocks have a sequence id.
TreeConsistent ==
  /\ linked = {b \in Block : \A a \in Anc[b] : HasData(a)}
  /\ unlinked = {b \in Block : HasData(b)} \ linked
  /\ \A b \in Block \ linked : seq[b] = 0
  /\ \A b \in Known : Anc[b] \subseteq Known

\* A block is marked failed only if it or an ancestor is invalid (main.cpp:3574).
FailedHasCause ==
  RepairIsWhole => \A b \in Known : Failed(b) => \E a \in Anc[b] : idx[a].fv

\* setBlockIndexCandidates, as CheckBlockIndex asserts it (main.cpp:3577-3585):
\* it holds no block worse than the tip and every one as good that has no invalid
\* ancestor.  While a thread is between two steps, or after a step that failed
\* because a block could not be read back, blocks pruned earlier may be missing.
CandidatesComplete ==
  /\ \A c \in cand : ~Less(c, tip)
  /\ \A b \in linked : ~Less(b, tip) /\ (\A a \in Anc[b] : ~idx[a].fv) => b \in cand
CandidatesWhenQuiescent == Quiescent /\ Readable /\ RepairIsWhole => CandidatesComplete

\* The assertion at the end of PruneBlockIndexCandidates (main.cpp:2362) also
\* after a restart: there is always a candidate to fall back on.
CandidatesNonempty == cs = None /\ RepairIsWhole => cand # {}

\* Candidates have the data of their whole branch, so that FindMostWorkChain's
\* assertion holds and its missing-data branch is dead.
CandidatesAreLinked == cand \subseteq linked

\* The tip whenever cs_main is free: its coins are the cache's, and every
\* block below it is valid and can be disconnected again.
ActiveChainValid ==
  cs = None => /\ coins = tip
               /\ \A a \in Active : /\ ~Failed(a) /\ HasData(a)
                                    /\ a # Genesis => idx[a].undo /\ kind[a] \in {"ok", "corrupt"}

\* When ActivateBestChain has returned in every thread, no complete branch
\* without a failed block beats the tip, whatever the order in which blocks came
\* and whatever another thread did while cs_main was released.
BestChainActive ==
  Readable /\ RepairIsWhole /\ (\A t \in Thread : pc[t] = "idle") =>
    \A b \in linked : (\A a \in Anc[b] : ~Failed(a)) => ~Less(tip, b)

\* FlushStateToDisk writes what the coins refer to before the coins: after a
\* crash at any point, every block below the coins' best block is in the index
\* on disk with its data and undo data.
DiskChainComplete ==
  \A a \in Anc[coinsDisk] : /\ disk[a] # None /\ disk[a].have
                            /\ a # Genesis => disk[a].undo

\* "The result is either failure or an activated best chain" (main.cpp:2434):
\* every call of ActivateBestChain returns.
ActivationReturns == \A t \in Thread : pc[t] = "find" ~> pc[t] = "idle"
=============================================================================
