----------------------------- MODULE CoinsCache -----------------------------
(***************************************************************************)
(* The coin views (coins.h, coins.cpp, coinsviewdb.cpp): the database      *)
(* CCoinsViewDB, the tip cache gpCoinsTip over it, and the short-lived     *)
(* CCoinsViewCache that ConnectTip, DisconnectTip, AcceptToMemoryPool and  *)
(* others put on top of the tip cache and then flush into it or drop.      *)
(* All of it runs under cs_main, so one view is open at a time.            *)
(***************************************************************************)
CONSTANTS Txid,     \* transaction ids
          Coins,    \* contents of a CCoins that still has an unspent output
          Pruned,   \* a CCoins for which IsPruned() holds
          Block,    \* block hashes
          Null,     \* the null hash
          NoEntry,  \* no entry in cacheCoins
          NoSnap    \* no state was ever committed under that hash

VARIABLES db,        \* coin records of the database; a missing record is Pruned
          dbBest,    \* record 'B'
          tip,       \* gpCoinsTip->cacheCoins
          tipBest,   \* gpCoinsTip->hashBlock
          view,      \* cacheCoins of the view on top of gpCoinsTip
          viewOpen,  \* that view exists
          snap,      \* the state first committed under each hash (history)
          health     \* "ok"; "undef": Flush() failed; "lost": and was repeated

vars == <<db, dbBest, tip, tipBest, view, viewOpen, snap, health>>

Content == Coins \cup {Pruned}
Hash    == Block \cup {Null}

\* CCoinsCacheEntry: the coins and the two flags.
Entry == [coins : Content, dirty : BOOLEAN, fresh : BOOLEAN]

ASSUME CoinsCacheAssumption ==
  /\ Pruned \notin Coins
  /\ Null \notin Block
  /\ NoEntry \notin Entry
  /\ NoSnap \notin [Txid -> Content]

Empty == [t \in Txid |-> NoEntry]

-----------------------------------------------------------------------------
(* What each layer answers to GetCoins. *)

TipView == [t \in Txid |-> IF tip[t] = NoEntry THEN db[t] ELSE tip[t].coins]

View == [t \in Txid |-> IF view[t] = NoEntry THEN TipView[t] ELSE view[t].coins]

\* CCoinsViewCache::GetBestBlock: a null hash is read from the base.
TipBestBlock == IF tipBest = Null THEN dbBest ELSE tipBest

-----------------------------------------------------------------------------
(* FetchCoins and ModifyCoins. *)

\* FetchCoins of the tip cache: a record of the database is copied in; the
\* database holds no pruned record, so the copy carries no flag.
TipFetched(t) == 
  IF tip[t] = NoEntry /\ db[t] # Pruned
  THEN [tip EXCEPT ![t] = [coins |-> db[t], dirty |-> FALSE, fresh |-> FALSE]]
  ELSE tip

\* The entry FetchCoins leaves in the upper view, after base->GetCoins filled
\* the tip cache.
Fetched(t) == 
  LET below == TipFetched(t)[t] IN
  IF view[t] # NoEntry THEN view[t]
  ELSE IF below = NoEntry THEN NoEntry
  ELSE [coins |-> below.coins, dirty |-> FALSE, fresh |-> below.coins = Pruned]

\* The entry ModifyCoins hands out: as fetched, or a new one marked fresh.
Found(t) == IF Fetched(t) = NoEntry
            THEN [coins |-> Pruned, dirty |-> FALSE, fresh |-> TRUE]
            ELSE Fetched(t)

\* The entry once the modifier is destroyed: dirty, and erased if it is fresh
\* and the modification left nothing unspent.
ModifiedClean(t, c) == IF Found(t).fresh /\ c = Pruned THEN NoEntry
                       ELSE [Found(t) EXCEPT !.coins = c]
Modified(t, c) == IF Found(t).fresh /\ c = Pruned THEN NoEntry
                  ELSE [Found(t) EXCEPT !.coins = c, !.dirty = TRUE]

-----------------------------------------------------------------------------
(* BatchWrite: the upper view's entries move into the tip cache. *)

Merged(t) ==
  CASE view[t] = NoEntry \/ ~view[t].dirty -> tip[t]
    [] OTHER ->
       IF tip[t] = NoEntry
       THEN IF view[t].coins = Pruned THEN NoEntry
            ELSE [coins |-> view[t].coins, dirty |-> TRUE, fresh |-> TRUE]
       ELSE IF tip[t].fresh /\ view[t].coins = Pruned THEN NoEntry
            ELSE [tip[t] EXCEPT !.coins = view[t].coins, !.dirty = TRUE]

\* The batch CCoinsViewDB::BatchWrite builds from the tip cache: dirty entries
\* only, a pruned one as the erasure of its record.
WrittenNoErase(t) == IF tip[t] # NoEntry /\ tip[t].dirty /\ tip[t].coins # Pruned
                     THEN tip[t].coins ELSE db[t]
Written(t) == IF tip[t] # NoEntry /\ tip[t].dirty THEN tip[t].coins ELSE db[t]

\* The best block goes in the same batch, unless it is null.
WrittenBestOld == dbBest
WrittenBest == IF tipBest = Null THEN dbBest ELSE tipBest

\* FlushStateToDisk is called by ConnectTip and DisconnectTip once the view they
\* used has been flushed, and by nothing that runs while a view holds entries.
MayFlush == ~viewOpen

-----------------------------------------------------------------------------

Init == /\ db = [t \in Txid |-> Pruned]
        /\ dbBest = Null
        /\ tip = Empty
        /\ tipBest = Null
        /\ view = Empty
        /\ viewOpen = FALSE
        /\ snap = [b \in Hash |-> IF b = Null THEN db ELSE NoSnap]
        /\ health = "ok"

\* CCoinsViewCache view(gpCoinsTip)
OpenView == /\ ~viewOpen
            /\ viewOpen' = TRUE
            /\ view' = Empty
            /\ UNCHANGED <<db, dbBest, tip, tipBest, snap, health>>

\* GetCoins, AccessCoins or HaveCoins on the view
Fetch(t) == /\ viewOpen
            /\ tip' = TipFetched(t)
            /\ view' = [view EXCEPT ![t] = Fetched(t)]
            /\ UNCHANGED <<db, dbBest, tipBest, viewOpen, snap, health>>

\* GetCoins, AccessCoins or HaveCoins on gpCoinsTip itself
FetchTip(t) == /\ tip' = TipFetched(t)
               /\ UNCHANGED <<db, dbBest, tipBest, view, viewOpen, snap, health>>

\* ModifyCoins, the caller's change to c, and the modifier's destructor.
\* base->GetCoins is asked only when the view has no entry.
Modify(t, c) == 
  /\ viewOpen
  /\ tip' = IF view[t] = NoEntry THEN TipFetched(t) ELSE tip
  /\ view' = [view EXCEPT ![t] = Modified(t, c)]
  /\ UNCHANGED <<db, dbBest, tipBest, viewOpen, snap, health>>

\* The view goes out of scope without Flush.
DiscardView == /\ viewOpen
               /\ viewOpen' = FALSE
               /\ view' = Empty
               /\ UNCHANGED <<db, dbBest, tip, tipBest, snap, health>>

\* The end of ConnectBlock or DisconnectBlock and the flush in ConnectTip or
\* DisconnectTip: SetBestBlock(b), then Flush(). A block hash always stands
\* for the same set of coins (see DisconnectTx in Ledger).
CommitView(b) ==
  /\ viewOpen
  /\ snap[b] \in {NoSnap, View}
  /\ snap' = [snap EXCEPT ![b] = View]
  /\ tip' = [t \in Txid |-> Merged(t)]
  /\ tipBest' = b
  /\ viewOpen' = FALSE
  /\ view' = Empty
  /\ UNCHANGED <<db, dbBest, health>>

\* gpCoinsTip->Flush() in FlushStateToDisk. The tip cache is emptied and keeps
\* its hashBlock.
FlushTip == /\ MayFlush
            /\ db' = [t \in Txid |-> Written(t)]
            /\ dbBest' = WrittenBest
            /\ tip' = Empty
            /\ health' = IF health = "ok" THEN "ok" ELSE "lost"
            /\ UNCHANGED <<tipBest, view, viewOpen, snap>>

\* The same, with the write of the batch refused by the database: BatchWrite
\* has already cleared the map when HandleError throws. FlushStateToDisk turns
\* the exception into Abort, which asks for a shutdown; the shutdown sequence,
\* and any block handled before it, flushes again.
FlushTipFails == /\ MayFlush
                 /\ tip' = Empty
                 /\ health' = IF health = "ok" THEN "undef" ELSE health
                 /\ UNCHANGED <<db, dbBest, tipBest, view, viewOpen, snap>>

\* The process dies and starts again: only the database is left.
Crash == /\ tip' = Empty
         /\ tipBest' = Null
         /\ view' = Empty
         /\ viewOpen' = FALSE
         /\ health' = IF health = "undef" THEN "ok" ELSE health
         /\ UNCHANGED <<db, dbBest, snap>>

Next == \/ OpenView
        \/ \E t \in Txid : Fetch(t)
        \/ \E t \in Txid : FetchTip(t)
        \/ \E t \in Txid, c \in Content : Modify(t, c)
        \/ DiscardView
        \/ \E b \in Block : CommitView(b)
        \/ FlushTip
        \/ FlushTipFails
        \/ Crash

Spec == Init /\ [][Next]_vars

-----------------------------------------------------------------------------
(* Properties *)

\* Every variable keeps its shape.
TypeOK == /\ db \in [Txid -> Content]
          /\ dbBest \in Hash
          /\ tip \in [Txid -> Entry \cup {NoEntry}]
          /\ tipBest \in Hash
          /\ view \in [Txid -> Entry \cup {NoEntry}]
          /\ viewOpen \in BOOLEAN
          /\ snap \in [Hash -> [Txid -> Content] \cup {NoSnap}]
          /\ health \in {"ok", "undef", "lost"}

\* An entry without DIRTY equals what its parent holds, and FRESH means the
\* parent has nothing unspent: the comments on the two flags in coins.h.
TipFlags == \A t \in Txid : tip[t] # NoEntry =>
              /\ ~tip[t].dirty => tip[t].coins = db[t]
              /\ tip[t].fresh => db[t] = Pruned
ViewFlags == \A t \in Txid : view[t] # NoEntry =>
               /\ ~view[t].dirty => view[t].coins = TipView[t]
               /\ view[t].fresh => TipView[t] = Pruned
FlagsMeanWhatTheySay == TipFlags /\ ViewFlags

\* The assertion in CCoinsViewCache::BatchWrite cannot fail: a modified entry
\* that is not pruned and that the tip cache lacks is always marked fresh.
AssertFresh == \A t \in Txid :
  (/\ view[t] # NoEntry
   /\ view[t].dirty
   /\ view[t].coins # Pruned
   /\ tip[t] = NoEntry) => view[t].fresh

\* As long as no write was repeated after a failed one, the coins on disk are
\* exactly those committed under the block hash on disk: whatever the moment
\* of a crash, the node restarts from the coin set of the block it believes in.
DiskIsASnapshot == health # "lost" => db = snap[dbBest]

\* While writes succeed, the tip cache shows the coin set of its best block.
TipIsASnapshot == health = "ok" => TipView = snap[TipBestBlock]

\* init.cpp: "Writes do not need similar protection, as failure to write is
\* handled by the caller." If it were, the database would stay the coin set of
\* its best block whatever write fails.
FailedWriteIsHandled == db = snap[dbBest]

\* The three layers together are one map with a scratch copy (UTXOView).
Abs == INSTANCE UTXOView WITH
         pending  <- IF viewOpen THEN View ELSE TipView,
         utxo     <- TipView,
         best     <- TipBestBlock,
         disk     <- db,
         diskBest <- dbBest

\* Every step of the layered caches is a step of the one map, or invisible:
\* flags, copies and lazy reads never change what a reader sees, a flush keeps
\* it, and a commit publishes exactly the edited view.
ImplementsUTXOView == Abs!Spec
=============================================================================
