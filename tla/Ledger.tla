------------------------------- MODULE Ledger -------------------------------
(***************************************************************************)
(* Transactions as blocks come and go: the coins (gpCoinsTip), the         *)
(* databases of zerocoin serials and mints (gpZerocoinDB) and the memory   *)
(* pool, under ConnectTip, DisconnectTip, AcceptToMemoryPool,              *)
(* CreateNewBlock, VerifyDB, crashes and restarts. Every operation holds   *)
(* cs_main, so each is one action; which block to connect is decided in    *)
(* ChainState and free here.                                               *)
(*                                                                         *)
(* A transaction is its inputs, outputs and kind; amounts, scripts, sizes  *)
(* and signatures are taken to be valid, and -txindex is on (its default), *)
(* so that IsTransactionInChain finds every transaction of the chain.      *)
(***************************************************************************)
EXTENDS Integers, FiniteSets, SequencesExt

CONSTANTS Tx,
          Kind,        \* "coinbase", "stake", "plain" or "zspend"
          Ins,         \* vin: the outpoints <<transaction, index>> spent
          Outs,        \* vout: the indices of the outputs
          Serial,      \* the serial number a "zspend" reveals
          Pubcoins,    \* the public coins a transaction mints
          CbHeight,    \* the height a coinbase starts with
          LowFee,      \* transactions the fee and priority rules may refuse
          Maturity,    \* COINBASE_MATURITY
          LastPow,     \* LAST_POW_BLOCK
          CheckBlocks, \* -checkblocks, the depth of VerifyDB
          None,
          MaxHeight, MaxBody, MaxStop   \* bounds

Coinbase == {t \in Tx : Kind[t] = "coinbase"}
ZSpend == {t \in Tx : Kind[t] = "zspend"}
Plain == {t \in Tx : Kind[t] = "plain"}
Serials == {Serial[t] : t \in ZSpend}
AllPubcoins == UNION {Pubcoins[t] : t \in Tx}
Outpoint == UNION {{<<t, n>> : n \in Outs[t]} : t \in Tx}

ASSUME LedgerAssumption ==
  /\ Kind \in [Tx -> {"coinbase", "stake", "plain", "zspend"}]
  /\ Outs \in [Tx -> SUBSET Nat] /\ \A t \in Tx : Outs[t] # {}
  /\ Ins \in [Tx -> SUBSET Outpoint]
  /\ \A t \in Tx : (Ins[t] = {}) <=> Kind[t] \in {"coinbase", "zspend"}
  /\ DOMAIN Serial = ZSpend /\ None \notin Serials
  /\ DOMAIN Pubcoins = Tx /\ DOMAIN CbHeight = Coinbase
  /\ LowFee \subseteq Plain
  /\ {Maturity, LastPow, CheckBlocks, MaxHeight, MaxBody, MaxStop} \subseteq Nat
  /\ None \notin Tx

VARIABLES chain,    \* chainActive above genesis: transactions and undo data
          db,       \* [coins, spends, mints]: gpCoinsTip and gpZerocoinDB
          disk,     \* [n, coins]: the coin database, at the block of height n
          pool,     \* [tx, next]: mempool.mapTx and mempool.mapNextTx
          erased,   \* history: an interrupted disconnect left records erased
          stops     \* crashes and interruptions so far

vars == <<chain, db, disk, pool, erased, stops>>

-----------------------------------------------------------------------------
(* CCoins *)

Pruned == [out |-> {}, cb |-> FALSE, cs |-> FALSE, h |-> 0]
FromTx(t, h) ==
  [out |-> Outs[t], cb |-> Kind[t] = "coinbase", cs |-> Kind[t] = "stake", h |-> h]

HaveInputs(c, t) == \A o \in Ins[t] : o[2] \in c[o[1]].out

\* CheckInputs: a coinbase or coinstake is spent only Maturity blocks later.
Mature(c, t, h) ==
  \A o \in Ins[t] : (c[o[1]].cb \/ c[o[1]].cs) => h - c[o[1]].h >= Maturity

Parents(t) == {o[1] : o \in Ins[t]}
SpentBy(t, q) == {o[2] : o \in {x \in Ins[t] : x[1] = q}}

\* CCoins::Spend keeps the metadata of a transaction whose last output goes.
Undo(c, t) ==
  [q \in {p \in Parents(t) : c[p].out \subseteq SpentBy(t, p)} |->
     [cb |-> c[q].cb, cs |-> c[q].cs, h |-> c[q].h]]

UpdateCoins(c, t, h) ==
  [q \in Tx |-> IF q = t THEN FromTx(t, h)
                ELSE IF q \in DOMAIN Undo(c, t) THEN Pruned
                ELSE [c[q] EXCEPT !.out = @ \ SpentBy(t, q)]]

\* DisconnectBlock for one transaction, with undo data u. The metadata that is
\* put back does not include fCoinStake.
RestoredMetaNoFlag(m) == [out |-> {}, cb |-> FALSE, cs |-> FALSE, h |-> m.h]
RestoredMeta(m) == [out |-> {}, cb |-> m.cb, cs |-> FALSE, h |-> m.h]
DisconnectTx(d, t, u, h) ==
  LET c == [d.coins EXCEPT ![t] = Pruned]
      Base(q) == IF q \in DOMAIN u THEN RestoredMeta(u[q]) ELSE c[q]
  IN [clean |-> /\ d.clean
                /\ d.coins[t] = FromTx(t, h)
                /\ \A q \in Parents(t) :
                     /\ (c[q].out = {}) <=> (q \in DOMAIN u)
                     /\ c[q].out \cap SpentBy(t, q) = {},
      coins |-> [q \in Tx |-> IF q \in Parents(t)
                              THEN [Base(q) EXCEPT !.out = @ \cup SpentBy(t, q)]
                              ELSE c[q]]]

-----------------------------------------------------------------------------
(* Blocks *)

IsProofOfStake(vtx) == Len(vtx) > 1 /\ Kind[vtx[2]] = "stake"
TxAt(b) == ToSet(b.vtx)
ChainTxs(ch) == UNION {TxAt(ch[i]) : i \in DOMAIN ch}

\* CheckBlock, ContextualCheckBlock and the proof-of-stake period of ConnectBlock:
\* what depends on the block and its height h alone.
CheckBlock(vtx, h) ==
  /\ CbHeight[vtx[1]] = h
  /\ IsProofOfStake(vtx) <=> h > LastPow
  /\ IsProofOfStake(vtx) => \A i \in 3..Len(vtx) : Kind[vtx[i]] # "stake"
  /\ \A i, j \in DOMAIN vtx :
       i # j /\ {vtx[i], vtx[j]} \subseteq ZSpend => Serial[vtx[i]] # Serial[vtx[j]]

Orderings(S) == {s \in BoundedSeq(S, MaxBody) : IsInjective(s)}
Blocks == {<<cb>> \o s : cb \in Coinbase, s \in Orderings(Tx \ Coinbase)}
BlocksAt == [h \in 1..MaxHeight |-> {v \in Blocks : CheckBlock(v, h)}]

\* GetTransaction looks into the pool first and then reports no block.
InChain(t, ch, p) == t \notin p.tx /\ t \in ChainTxs(ch)
HeightOf(t, ch) == CHOOSE i \in DOMAIN ch : t \in TxAt(ch[i])

\* IsSerialInBlockchain, and ContextualCheckZerocoinMint.
SerialUsed(d, ch, p, t) ==
  LET r == d.spends[Serial[t]] IN r # None /\ InChain(r, ch, p)
MintKnown(d, ch, p, t) ==
  \E q \in Pubcoins[t] : d.mints[q] # None /\ InChain(d.mints[q], ch, p)

ConnectableOnce(c, d, ch, p, t, h, verifying) ==
  IF Kind[t] = "zspend"
  THEN ~InChain(t, ch, p) /\ ~SerialUsed(d, ch, p, t) /\ ~MintKnown(d, ch, p, t)
  ELSE Kind[t] = "coinbase" \/ (HaveInputs(c, t) /\ ~MintKnown(d, ch, p, t) /\ Mature(c, t, h))
Connectable(c, d, ch, p, t, h, verifying) ==
  CASE Kind[t] = "zspend" ->
         /\ InChain(t, ch, p) => verifying /\ h <= HeightOf(t, ch)
         /\ ~SerialUsed(d, ch, p, t)
         /\ ~MintKnown(d, ch, p, t)
    [] Kind[t] = "coinbase" -> TRUE
    [] OTHER -> HaveInputs(c, t) /\ ~MintKnown(d, ch, p, t) /\ Mature(c, t, h)

RecordIfNew(d, b) ==
  LET First(S, old) ==
        IF old # None \/ S \cap TxAt(b) = {} THEN old ELSE CHOOSE t \in S : t \in TxAt(b)
  IN [d EXCEPT
        !.spends = [s \in Serials |-> First({t \in ZSpend : Serial[t] = s}, @[s])],
        !.mints = [q \in AllPubcoins |-> First({t \in Tx : q \in Pubcoins[t]}, @[q])]]
\* What ConnectBlock stores in gpZerocoinDB, and DisconnectBlock erases there.
Record(d, b) ==
  LET LastOf(S, old) ==
        IF S \cap TxAt(b) = {} THEN old
        ELSE b.vtx[CHOOSE i \in DOMAIN b.vtx :
                     b.vtx[i] \in S /\ \A j \in i+1..Len(b.vtx) : b.vtx[j] \notin S]
  IN [d EXCEPT
        !.spends = [s \in Serials |-> LastOf({t \in ZSpend : Serial[t] = s}, @[s])],
        !.mints = [q \in AllPubcoins |-> LastOf({t \in Tx : q \in Pubcoins[t]}, @[q])]]
Erase(d, b) ==
  [d EXCEPT
     !.spends = [s \in Serials |->
        IF \E t \in TxAt(b) \cap ZSpend : Serial[t] = s THEN None ELSE @[s]],
     !.mints = [q \in AllPubcoins |->
        IF \E t \in TxAt(b) : q \in Pubcoins[t] THEN None ELSE @[q]]]

\* ConnectBlock after CheckBlock: the resulting databases and undo data when ok holds.
ConnectBlock(d, ch, p, vtx, h, verifying) ==
  LET Step(s, t) ==
        IF s.ok /\ Connectable(s.coins, d, ch, p, t, h, verifying)
        THEN [ok |-> TRUE, coins |-> UpdateCoins(s.coins, t, h),
              undo |-> Append(s.undo, Undo(s.coins, t))]
        ELSE [s EXCEPT !.ok = FALSE]
      r == FoldLeft(Step, [ok |-> TRUE, coins |-> d.coins, undo |-> << >>], vtx)
      b == [vtx |-> vtx, undo |-> r.undo]
  IN [ok |-> r.ok, block |-> b, db |-> Record([d EXCEPT !.coins = r.coins], b)]

\* DisconnectBlock undoes the transactions from the last to the first.
DisconnectBlock(d, b, h) ==
  LET Step(s, i) == DisconnectTx(s, b.vtx[i], b.undo[i], h)
      r == FoldLeft(Step, [clean |-> TRUE, coins |-> d.coins],
                    Reverse([i \in DOMAIN b.vtx |-> i]))
  IN [clean |-> r.clean, db |-> Erase([d EXCEPT !.coins = r.coins], b)]

-----------------------------------------------------------------------------
(* CTxMemPool *)

EmptyPool == [tx |-> {}, next |-> << >>]

\* addUnchecked: a zerocoin spend has no entry in mapNextTx.
AddUnchecked(p, t) ==
  [tx |-> p.tx \cup {t},
   next |-> [o \in DOMAIN p.next \cup Ins[t] |-> IF o \in Ins[t] THEN t ELSE p.next[o]]]

Without(p, S) ==
  [tx |-> p.tx \ S,
   next |-> Restrict(p.next, DOMAIN p.next \ UNION {Ins[t] : t \in S})]

Children(p, t) == {p.next[o] : o \in {x \in DOMAIN p.next : x[1] = t}}

\* remove with fRecursive: t, or its children when t is not in the pool, and
\* everything in the pool that depends on them.
RemoveRecursive(p, t) ==
  LET start == IF t \in p.tx THEN {t} ELSE Children(p, t)
      Closed == {S \in SUBSET p.tx : /\ start \subseteq S
                                     /\ \A x \in S : Children(p, x) \subseteq S}
  IN Without(p, {x \in p.tx : \A S \in Closed : x \in S})

RemoveOne(p, t) == Without(p, {t} \cap p.tx)

Conflicts(p, t) == {p.next[o] : o \in Ins[t] \cap DOMAIN p.next} \ {t}
RemoveConflicts(p, t) == FoldLeft(RemoveRecursive, p, SetToSeq(Conflicts(p, t)))

RemoveForBlockOnly(p, vtx) == FoldLeft(RemoveOne, p, vtx)
RemoveForBlock(p, vtx) ==
  LET Step(q, t) == RemoveConflicts(RemoveOne(q, t), t) IN FoldLeft(Step, p, vtx)

RemoveSpendsLate(p, c, h) ==
  LET Bad(t) == \E o \in Ins[t] : /\ o[1] \notin p.tx
                                  /\ (c[o[1]].cb \/ c[o[1]].cs) /\ h + 1 - c[o[1]].h < Maturity
  IN FoldLeft(RemoveRecursive, p, SetToSeq({t \in p.tx : Bad(t)}))
\* removeCoinbaseSpends also takes out what has a null prevout: every zspend.
RemoveCoinbaseSpends(p, c, h) ==
  LET Bad(t) == \/ Kind[t] = "zspend"
                \/ \E o \in Ins[t] :
                     /\ o[1] \notin p.tx
                     /\ \/ c[o[1]].out = {}
                        \/ (c[o[1]].cb \/ c[o[1]].cs) /\ h - c[o[1]].h < Maturity
  IN FoldLeft(RemoveRecursive, p, SetToSeq({t \in p.tx : Bad(t)}))

\* CCoinsViewMemPool over the coins: a pool transaction hides the coins entry.
MempoolHeight == 2147483647
PoolView(c, p) == [q \in Tx |-> IF q \in p.tx THEN FromTx(q, MempoolHeight) ELSE c[q]]

\* AcceptToMemoryPool, apart from the fee rules; h is one above the coins' block.
Acceptable(d, ch, p, t, h) ==
  LET v == PoolView(d.coins, p)
  IN CASE Kind[t] = "zspend" ->
            t \notin p.tx /\ ~InChain(t, ch, p) /\ ~SerialUsed(d, ch, p, t)
       [] Kind[t] = "plain" ->
            /\ t \notin p.tx
            /\ Ins[t] \cap DOMAIN p.next = {}
            /\ v[t].out = {}
            /\ ~MintKnown(d, ch, p, t)
            /\ HaveInputs(v, t)
            /\ Mature(v, t, h)
       [] OTHER -> FALSE

ResurrectBackwards(d, ch, p, vtx, h, refused) ==
  LET Step(q, t) == IF t \notin refused /\ Acceptable(d, ch, q, t, h)
                    THEN AddUnchecked(q, t) ELSE RemoveRecursive(q, t)
  IN RemoveCoinbaseSpends(FoldLeft(Step, p, Reverse(vtx)), d.coins, h)
\* DisconnectTip offers the block's transactions to the pool again, while
\* chainActive still ends in the block; refused: those the fee rules refuse.
Resurrect(d, ch, p, vtx, h, refused) ==
  LET Step(q, t) == IF t \notin refused /\ Acceptable(d, ch, q, t, h)
                    THEN AddUnchecked(q, t) ELSE RemoveRecursive(q, t)
  IN RemoveCoinbaseSpends(FoldLeft(Step, p, vtx), d.coins, h)

-----------------------------------------------------------------------------
(* CreateNewBlock *)

Height == Len(chain)

SelectedUnordered(d, ch, p, ord, h) ==
  SelectSeq(ord, LAMBDA t : HaveInputs(PoolView(d.coins, p), t))
\* The transactions taken from the pool in priority order ord; each one that
\* does not fit the view of the coins is skipped. The stake is not in the view.
Selected(d, ch, p, ord, h) ==
  LET Step(s, t) ==
        IF IF Kind[t] = "zspend"
           THEN ~InChain(t, ch, p) /\ Serial[t] \notin s.serials
           ELSE HaveInputs(s.coins, t) /\ Mature(s.coins, t, h)
        THEN [coins |-> UpdateCoins(s.coins, t, h),
              serials |-> s.serials \cup (IF Kind[t] = "zspend" THEN {Serial[t]} ELSE {}),
              vtx |-> Append(s.vtx, t)]
        ELSE s
  IN FoldLeft(Step, [coins |-> d.coins, serials |-> {}, vtx |-> << >>], ord).vtx

\* The coinstakes the wallet can offer: mature coins that no pool transaction
\* spends.
Stakes(d, p, h) ==
  IF h <= LastPow THEN {<< >>}
  ELSE {<<t>> : t \in {x \in Tx : /\ Kind[x] = "stake" /\ d.coins[x].out = {}
                                   /\ HaveInputs(d.coins, x) /\ Mature(d.coins, x, h)
                                   /\ Ins[x] \cap DOMAIN p.next = {}}}

Templates(d, ch, p, S, h) ==
  {<<cb>> \o st \o Selected(d, ch, p, ord, h) :
     cb \in {t \in Coinbase : CbHeight[t] = h}, st \in Stakes(d, p, h),
     ord \in Orderings(S)}

\* TestBlockValidity: only here does ConnectBlock check that no transaction
\* overwrites one that has unspent outputs.
TestBlockValidity(d, ch, p, vtx, h) ==
  /\ CheckBlock(vtx, h)
  /\ \A t \in ToSet(vtx) : d.coins[t].out = {}
  /\ ConnectBlock(d, ch, p, vtx, h, FALSE).ok

-----------------------------------------------------------------------------
(* VerifyDB *)

\* The loop stops below height Height - CheckBlocks, which is one block more
\* than asked for; genesis is left out.
VerifyDepth == IF CheckBlocks < Height THEN CheckBlocks + 1 ELSE Height

\* The databases after the last k blocks were disconnected in a scratch view of
\* the coins (level 3), and after they were connected again (level 4).
VerifyDown(k) ==
  LET Step(s, i) == LET r == DisconnectBlock(s.db, chain[i], i)
                    IN [ok |-> s.ok /\ r.clean, db |-> r.db]
  IN FoldLeft(Step, [ok |-> TRUE, db |-> db], Reverse([i \in 1..k |-> Height - k + i]))
VerifyUp(k) ==
  LET Step(s, i) == LET r == ConnectBlock(s.db, chain, pool, chain[i].vtx, i, TRUE)
                    IN IF s.ok /\ r.ok THEN [ok |-> TRUE, db |-> r.db]
                       ELSE [s EXCEPT !.ok = FALSE]
  IN FoldLeft(Step, VerifyDown(k), [i \in 1..k |-> Height - k + i])

-----------------------------------------------------------------------------
(* The operations *)

Init ==
  /\ chain = << >>
  /\ db = [coins |-> [t \in Tx |-> Pruned],
           spends |-> [s \in Serials |-> None],
           mints |-> [q \in AllPubcoins |-> None]]
  /\ disk = [n |-> 0, coins |-> [t \in Tx |-> Pruned]]
  /\ pool = EmptyPool
  /\ erased = FALSE
  /\ stops = 0

AcceptToMemoryPool(t) ==
  /\ Acceptable(db, chain, pool, t, Height + 1)
  /\ pool' = AddUnchecked(pool, t)
  /\ UNCHANGED <<chain, db, disk, erased, stops>>

\* A block that ConnectBlock refuses changes nothing here. FlushStateToDisk
\* writes the coins if the cache is full or a new block file was begun.
ConnectTip(vtx) ==
  LET r == ConnectBlock(db, chain, pool, vtx, Height + 1, FALSE)
  IN /\ r.ok
     /\ chain' = Append(chain, r.block)
     /\ db' = r.db
     /\ disk' \in {disk, [n |-> Height + 1, coins |-> r.db.coins]}
     /\ pool' = RemoveForBlock(pool, vtx)
     /\ UNCHANGED <<erased, stops>>

\* DisconnectTip, which always writes the coins.
DisconnectTip(refused) ==
  /\ Height > 0
  /\ LET b == Last(chain)
         r == DisconnectBlock(db, b, Height)
     IN /\ r.clean
        /\ chain' = Front(chain)
        /\ db' = r.db
        /\ disk' = [n |-> Height - 1, coins |-> r.db.coins]
        /\ pool' = Resurrect(r.db, chain, pool, b.vtx, Height, refused)
  /\ UNCHANGED <<erased, stops>>

\* The periodic flush of ActivateBestChain.
Flush ==
  /\ disk.n # Height
  /\ disk' = [n |-> Height, coins |-> db.coins]
  /\ UNCHANGED <<chain, db, pool, erased, stops>>

\* A template that fails TestBlockValidity empties the pool; a good one changes
\* nothing until its block is found.
CreateNewBlock ==
  /\ pool.tx # {}
  /\ \E v \in Templates(db, chain, pool, pool.tx, Height + 1) :
       ~TestBlockValidity(db, chain, pool, v, Height + 1)
  /\ pool' = EmptyPool
  /\ UNCHANGED <<chain, db, disk, erased, stops>>

VerifyDB ==
  /\ Height > 0
  /\ db' = [VerifyUp(VerifyDepth).db EXCEPT !.coins = db.coins]
  /\ UNCHANGED <<chain, disk, pool, erased, stops>>

Lossy(d) == <<d.spends, d.mints>> # <<db.spends, db.mints>>

\* A shutdown requested while VerifyDB has disconnected k blocks: it returns,
\* Shutdown flushes the coins, and the node starts again.
VerifyStops(k) ==
  /\ stops < MaxStop
  /\ db' = [VerifyDown(k).db EXCEPT !.coins = db.coins]
  /\ disk' = [n |-> Height, coins |-> db.coins]
  /\ pool' = EmptyPool
  /\ erased' = (erased \/ Lossy(db'))
  /\ stops' = stops + 1
  /\ UNCHANGED chain

\* A restart from the coin database; gpZerocoinDB keeps what d holds.
RestartWith(d) ==
  /\ stops < MaxStop
  /\ chain' = SubSeq(chain, 1, disk.n)
  /\ db' = [d EXCEPT !.coins = disk.coins]
  /\ pool' = EmptyPool
  /\ stops' = stops + 1
  /\ UNCHANGED disk

\* A crash in DisconnectTip, after DisconnectBlock erased the block's records
\* and before the coins are written.
DisconnectCrash ==
  /\ Height > 0
  /\ RestartWith(Erase(db, Last(chain)))
  /\ erased' = (erased \/ Lossy(db'))

\* A crash anywhere else; -reindexzerocoin rebuilds the records from the chain.
Reindexed(d, ch) ==
  FoldLeft(Record, [d EXCEPT !.spends = [s \in Serials |-> None],
                             !.mints = [q \in AllPubcoins |-> None]], ch)
Crash(reindex) ==
  /\ RestartWith(IF reindex THEN Reindexed(db, SubSeq(chain, 1, disk.n)) ELSE db)
  /\ UNCHANGED erased

Next ==
  \/ \E t \in Tx : AcceptToMemoryPool(t)
  \/ /\ Height < MaxHeight
     /\ \E vtx \in BlocksAt[Height + 1] : ConnectTip(vtx)
  \/ \E refused \in SUBSET LowFee : DisconnectTip(refused)
  \/ Flush
  \/ CreateNewBlock
  \/ VerifyDB
  \/ \E k \in 1..VerifyDepth : VerifyStops(k)
  \/ DisconnectCrash
  \/ \E reindex \in BOOLEAN : Crash(reindex)

Spec == Init /\ [][Next]_vars

-----------------------------------------------------------------------------
\* The variables keep their types: the coins and the records are total maps, the
\* database is at a block of the chain, and mapNextTx maps outpoints to members
\* of mapTx.
TypeOK ==
  /\ \A i \in DOMAIN chain : Len(chain[i].undo) = Len(chain[i].vtx)
  /\ Height <= MaxHeight /\ disk.n \in 0..Height
  /\ \A c \in {db.coins, disk.coins} : \A t \in Tx :
       /\ c[t].out \subseteq Outs[t]
       /\ c[t].h \in 0..MaxHeight /\ {c[t].cb, c[t].cs} \subseteq BOOLEAN
  /\ db.spends \in [Serials -> ZSpend \cup {None}]
  /\ db.mints \in [AllPubcoins -> Tx \cup {None}]
  /\ pool.tx \subseteq Plain \cup ZSpend
  /\ DOMAIN pool.next \subseteq Outpoint
  /\ \A o \in DOMAIN pool.next : pool.next[o] \in pool.tx
  /\ stops \in 0..MaxStop

\* What the coins must be: every output created in ch and not spent in ch, with
\* the height and the flags of its transaction.
CoinsOf(ch) ==
  LET spent == UNION {Ins[t] : t \in ChainTxs(ch)}
      Left(t) == {n \in Outs[t] : <<t, n>> \notin spent}
  IN [t \in Tx |-> IF t \notin ChainTxs(ch) \/ Left(t) = {} THEN Pruned
                   ELSE [FromTx(t, HeightOf(t, ch)) EXCEPT !.out = Left(t)]]

\* Through any sequence of connects, disconnects and restarts the coins are
\* exactly those of the active chain, and those on disk are exactly those of
\* the part of it that was written: undo data loses nothing.
CoinsMatchChain ==
  /\ db.coins = CoinsOf(chain)
  /\ disk.coins = CoinsOf(SubSeq(chain, 1, disk.n))

\* CTxMemPool::check: every input of a pool transaction is an output of another
\* pool transaction or an unspent coin, and mapNextTx holds exactly the inputs of
\* the pool, each mapped to the one transaction that spends it.
PoolConsistent ==
  /\ \A t \in pool.tx : /\ HaveInputs(PoolView(db.coins, pool), t)
                         /\ \A o \in Ins[t] : o \in DOMAIN pool.next /\ pool.next[o] = t
  /\ \A o \in DOMAIN pool.next : pool.next[o] \in pool.tx /\ o \in Ins[pool.next[o]]

\* CheckInputs in CTxMemPool::check: what the pool spends is mature in the next
\* block, also after a disconnect lowered the height; and no pool transaction is
\* already in the chain.
PoolMinable ==
  \A t \in pool.tx \cap Plain :
    Mature(PoolView(db.coins, pool), t, Height + 1) /\ t \notin ChainTxs(chain)

\* A reorganisation loses no payment without a cause: a plain transaction that
\* was in the pool or in the chain and is in neither after a ConnectTip or
\* DisconnectTip has an input that is gone or immature, or pays too little.
DroppedForCause ==
  [][(chain' # chain /\ stops' = stops) =>
       \A t \in Plain \cap (pool.tx \cup ChainTxs(chain)) :
         \/ t \in pool'.tx \cup ChainTxs(chain') \cup LowFee
         \/ ~HaveInputs(PoolView(db'.coins, pool'), t)
         \/ ~Mature(PoolView(db'.coins, pool'), t, Len(chain') + 1)]_vars

\* The records of the chain's zerocoin spends and mints.
Recorded(d, ch) ==
  /\ \A t \in ChainTxs(ch) \cap ZSpend : d.spends[Serial[t]] = t
  /\ \A t \in ChainTxs(ch) : \A q \in Pubcoins[t] : d.mints[q] = t

\* Unless an interrupted disconnect erased records, gpZerocoinDB knows the serial
\* of every spend and every mint of the active chain, whatever branch or crash
\* came before; so no serial is spent twice in it.
ZerocoinsRecorded == ~erased => Recorded(db, chain)

\* VerifyDB's level 3 is a "memory-only disconnect of tip blocks" (verifydb.cpp):
\* it leaves the databases as they are, also when a shutdown stops it.
VerifyIsMemoryOnly ==
  [][(\E k \in 1..VerifyDepth : VerifyStops(k)) => db' = db]_vars

\* As long as no record was lost, VerifyDB finds nothing down to genesis: the undo
\* data match the blocks and the blocks connect again. In particular
\* DisconnectTip never fails.
VerifyPasses == ~erased => VerifyUp(Height).ok

\* Every block CreateNewBlock can make of the plain transactions of the pool
\* passes TestBlockValidity, so they never cause the pool to be emptied.
PlainTemplatesValid ==
  \A v \in Templates(db, chain, pool, pool.tx \cap Plain, Height + 1) :
    TestBlockValidity(db, chain, pool, v, Height + 1)
=============================================================================
