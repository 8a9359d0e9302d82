-------------------------- MODULE CoinsCacheProofs --------------------------
(***************************************************************************)
(* CoinsCache for any sets of txids, contents and block hashes: the flags  *)
(* mean what coins.h says, the assertion in BatchWrite holds, the database *)
(* is always the coin set of its own best block, and the layered caches    *)
(* implement the single map of UTXOView.                                   *)
(***************************************************************************)
EXTENDS CoinsCache, TLAPS

\* An entry that is not marked fresh was copied from an entry of the tip cache,
\* which only a flush of the tip cache could have removed.
ViewBacked == \A t \in Txid : view[t] # NoEntry /\ ~view[t].fresh => tip[t] # NoEntry

\* A closed view leaves nothing behind.
ClosedIsEmpty == ~viewOpen => view = Empty

\* The inductive invariant.
IInv == /\ TypeOK
        /\ TipFlags
        /\ ViewFlags
        /\ ViewBacked
        /\ ClosedIsEmpty
        /\ DiskIsASnapshot
        /\ TipIsASnapshot

-----------------------------------------------------------------------------
(* What the helpers return. *)

\* FetchCoins on the tip cache leaves every entry it finds, and adds only a
\* clean copy of a database record.
LEMMA TipFetchedType ==
  ASSUME TypeOK, NEW t \in Txid
  PROVE  TipFetched(t) \in [Txid -> Entry \cup {NoEntry}]
  BY CoinsCacheAssumption DEF TipFetched, TypeOK, Entry

\* ... so every reader of the tip cache sees what it saw before.
LEMMA TipFetchedKeepsView ==
  ASSUME TypeOK, TipFlags, NEW t \in Txid, tip' = TipFetched(t), UNCHANGED db
  PROVE  /\ TipView' = TipView
         /\ TipFlags'
         /\ \A s \in Txid : tip[s] # NoEntry => tip'[s] = tip[s]
<1>. DEFINE copy(s) == [coins |-> db[s], dirty |-> FALSE, fresh |-> FALSE]
<1>1. ASSUME NEW s \in Txid
      PROVE  tip'[s] = tip[s] \/ (tip[s] = NoEntry /\ tip'[s] = copy(s))
  BY DEF TipFetched, TypeOK
<1>2. ASSUME NEW s \in Txid
      PROVE  /\ copy(s) # NoEntry
             /\ copy(s).coins = db[s]
             /\ copy(s).dirty = FALSE
             /\ copy(s).fresh = FALSE
  <2>1. copy(s) \in Entry
    BY DEF TypeOK, Entry
  <2>. QED  BY <2>1, CoinsCacheAssumption
<1>. HIDE DEF copy
<1>3. TipView' = TipView
  <2>1. ASSUME NEW s \in Txid
        PROVE  (IF tip'[s] = NoEntry THEN db'[s] ELSE tip'[s].coins)
             = (IF tip[s] = NoEntry THEN db[s] ELSE tip[s].coins)
    BY <1>1, <1>2
  <2>. QED  BY <2>1, Zenon DEF TipView
<1>4. TipFlags'
  <2>1. ASSUME NEW s \in Txid, tip'[s] # NoEntry
        PROVE  /\ ~tip'[s].dirty => tip'[s].coins = db'[s]
               /\ tip'[s].fresh => db'[s] = Pruned
    BY <1>1, <1>2, <2>1 DEF TipFlags
  <2>. QED  BY <2>1 DEF TipFlags
<1>. QED  BY <1>1, <1>3, <1>4

\* What FetchCoins puts in the upper view is a clean copy of what the tip cache
\* shows, marked fresh exactly when it is pruned; without a copy there is
\* nothing unspent below.
LEMMA FetchedEntry ==
  ASSUME TypeOK, NEW t \in Txid, view[t] = NoEntry
  PROVE  /\ Fetched(t) \in Entry \cup {NoEntry}
         /\ Fetched(t) # NoEntry =>
              /\ Fetched(t).coins = TipView[t]
              /\ ~Fetched(t).dirty
              /\ Fetched(t).fresh = (TipView[t] = Pruned)
              /\ TipFetched(t)[t] # NoEntry
         /\ Fetched(t) = NoEntry => TipView[t] = Pruned
<1>1. TipFetched(t)[t] = IF tip[t] = NoEntry /\ db[t] # Pruned
                         THEN [coins |-> db[t], dirty |-> FALSE, fresh |-> FALSE]
                         ELSE tip[t]
  BY DEF TipFetched, TypeOK
<1>2. [coins |-> db[t], dirty |-> FALSE, fresh |-> FALSE] \in Entry
  BY DEF TypeOK, Entry
<1>3. TipFetched(t)[t] # NoEntry => TipFetched(t)[t].coins = TipView[t]
  BY <1>1, <1>2, CoinsCacheAssumption DEF TipView
<1>4. TipFetched(t)[t] = NoEntry => TipView[t] = Pruned
  BY <1>1, <1>2, CoinsCacheAssumption DEF TipView
<1>5. TipView[t] \in Content
  BY DEF TipView, TypeOK, Entry
<1>6. [coins |-> TipView[t], dirty |-> FALSE, fresh |-> TipView[t] = Pruned] \in Entry
  BY <1>5 DEF Entry
<1>7. Fetched(t) = IF TipFetched(t)[t] = NoEntry THEN NoEntry
                   ELSE [coins |-> TipView[t], dirty |-> FALSE, fresh |-> TipView[t] = Pruned]
  BY <1>3 DEF Fetched
<1>8. CASE TipFetched(t)[t] = NoEntry
  BY <1>4, <1>7, <1>8
<1>9. CASE TipFetched(t)[t] # NoEntry
  <2>. DEFINE e == [coins |-> TipView[t], dirty |-> FALSE, fresh |-> TipView[t] = Pruned]
  <2>1. e # NoEntry
    BY <1>6, CoinsCacheAssumption
  <2>2. e.coins = TipView[t] /\ ~e.dirty /\ e.fresh = (TipView[t] = Pruned)
    OBVIOUS
  <2>3. Fetched(t) = e
    BY <1>7, <1>9
  <2>. HIDE DEF e
  <2>4. e \in Entry
    BY <1>6 DEF e
  <2>. QED  BY <1>9, <2>1, <2>2, <2>3, <2>4
<1>. QED  BY <1>8, <1>9

\* The entry a modifier leaves behind is consistent with the new contents.
LEMMA ModifiedEntry ==
  ASSUME TypeOK, ViewFlags, ViewBacked, NEW t \in Txid, NEW c \in Content
  PROVE  /\ Modified(t, c) \in Entry \cup {NoEntry}
         /\ Modified(t, c) # NoEntry =>
              /\ Modified(t, c).coins = c
              /\ Modified(t, c).dirty
              /\ Modified(t, c).fresh => TipView[t] = Pruned
              /\ ~Modified(t, c).fresh =>
                    tip[t] # NoEntry \/ (view[t] = NoEntry /\ TipFetched(t)[t] # NoEntry)
         /\ Modified(t, c) = NoEntry => c = Pruned /\ TipView[t] = Pruned
<1>1. /\ Found(t) \in Entry
      /\ Found(t).fresh => TipView[t] = Pruned
      /\ ~Found(t).fresh =>
            tip[t] # NoEntry \/ (view[t] = NoEntry /\ TipFetched(t)[t] # NoEntry)
  <2>1. CASE view[t] # NoEntry
    <3>1. Found(t) = view[t]
      BY <2>1 DEF Found, Fetched
    <3>2. view[t] \in Entry
      BY <2>1 DEF TypeOK
    <3>. QED  BY <2>1, <3>1, <3>2 DEF ViewFlags, ViewBacked
  <2>2. CASE view[t] = NoEntry /\ Fetched(t) # NoEntry
    BY <2>2, FetchedEntry DEF Found
  <2>3. CASE view[t] = NoEntry /\ Fetched(t) = NoEntry
    <3>. DEFINE new == [coins |-> Pruned, dirty |-> FALSE, fresh |-> TRUE]
    <3>1. new \in Entry /\ new.fresh
      BY DEF Entry, Content
    <3>2. Found(t) = new
      BY <2>3 DEF Found
    <3>3. TipView[t] = Pruned
      BY <2>3, FetchedEntry
    <3>. QED  BY <3>1, <3>2, <3>3
  <2>. QED  BY <2>1, <2>2, <2>3
<1>. DEFINE e == [Found(t) EXCEPT !.coins = c, !.dirty = TRUE]
<1>2. /\ e \in Entry
      /\ e.coins = c
      /\ e.dirty
      /\ e.fresh = Found(t).fresh
  BY <1>1 DEF Entry
<1>3. Modified(t, c) = IF Found(t).fresh /\ c = Pruned THEN NoEntry ELSE e
  BY DEF Modified
<1>4. e # NoEntry
  BY <1>2, CoinsCacheAssumption
<1>. HIDE DEF e
<1>. QED  BY <1>1, <1>2, <1>3, <1>4

\* BatchWrite leaves in the tip cache, for each txid, what the view shows, with
\* flags that are right for the database below.
LEMMA MergedEntry ==
  ASSUME TypeOK, TipFlags, ViewFlags, ViewBacked, NEW t \in Txid
  PROVE  /\ Merged(t) \in Entry \cup {NoEntry}
         /\ (IF Merged(t) = NoEntry THEN db[t] ELSE Merged(t).coins) = View[t]
         /\ Merged(t) # NoEntry =>
              /\ ~Merged(t).dirty => Merged(t).coins = db[t]
              /\ Merged(t).fresh => db[t] = Pruned
<1>1. View[t] = IF view[t] = NoEntry THEN TipView[t] ELSE view[t].coins
  BY DEF View
<1>2. TipView[t] = IF tip[t] = NoEntry THEN db[t] ELSE tip[t].coins
  BY DEF TipView
<1>3. CASE view[t] = NoEntry \/ ~view[t].dirty
  <2>1. Merged(t) = tip[t]
    BY <1>3 DEF Merged
  <2>2. View[t] = TipView[t]
    BY <1>1, <1>3 DEF ViewFlags
  <2>. QED  BY <1>2, <2>1, <2>2 DEF TypeOK, TipFlags
<1>4. CASE view[t] # NoEntry /\ view[t].dirty
  <2>0. view[t] \in Entry /\ view[t].coins \in Content
    BY <1>4 DEF TypeOK, Entry
  <2>1. CASE tip[t] = NoEntry
    <3>1. view[t].fresh /\ db[t] = Pruned
      BY <1>2, <1>4, <2>0, <2>1 DEF ViewBacked, ViewFlags, Entry
    <3>2. CASE view[t].coins = Pruned
      BY <1>1, <1>4, <2>1, <3>1, <3>2 DEF Merged
    <3>3. CASE view[t].coins # Pruned
      <4>. DEFINE new == [coins |-> view[t].coins, dirty |-> TRUE, fresh |-> TRUE]
      <4>1. new \in Entry /\ new.coins = view[t].coins /\ new.dirty
        BY <2>0 DEF Entry
      <4>2. Merged(t) = new
        BY <1>4, <2>1, <3>3 DEF Merged
      <4>3. new # NoEntry
        BY <4>1, CoinsCacheAssumption
      <4>. HIDE DEF new
      <4>. QED  BY <1>1, <1>4, <3>1, <4>1, <4>2, <4>3
    <3>. QED  BY <3>2, <3>3
  <2>2. CASE tip[t] # NoEntry /\ tip[t].fresh /\ view[t].coins = Pruned
    BY <1>1, <1>4, <2>2 DEF Merged, TipFlags
  <2>3. CASE tip[t] # NoEntry /\ ~(tip[t].fresh /\ view[t].coins = Pruned)
    <3>. DEFINE new == [tip[t] EXCEPT !.coins = view[t].coins, !.dirty = TRUE]
    <3>1. /\ new \in Entry
          /\ new.coins = view[t].coins
          /\ new.dirty
          /\ new.fresh = tip[t].fresh
      BY <2>0, <2>3 DEF TypeOK, Entry
    <3>2. Merged(t) = new
      BY <1>4, <2>3 DEF Merged
    <3>3. new # NoEntry
      BY <3>1, CoinsCacheAssumption
    <3>. HIDE DEF new
    <3>. QED  BY <1>1, <1>4, <2>3, <3>1, <3>2, <3>3 DEF TipFlags
  <2>. QED  BY <2>1, <2>2, <2>3
<1>. QED  BY <1>3, <1>4

\* The batch written to the database turns it into what the tip cache shows.
LEMMA WrittenIsTipView ==
  ASSUME TypeOK, TipFlags
  PROVE  [t \in Txid |-> Written(t)] = TipView
<1>1. ASSUME NEW t \in Txid
      PROVE  Written(t) = IF tip[t] = NoEntry THEN db[t] ELSE tip[t].coins
  BY DEF Written, TipFlags
<1>. QED  BY <1>1 DEF TipView

-----------------------------------------------------------------------------
(* The invariant is inductive. *)

LEMMA ViewsAreContents ==
  ASSUME TypeOK
  PROVE  TipView \in [Txid -> Content] /\ View \in [Txid -> Content]
<1>1. TipView \in [Txid -> Content]
  BY DEF TipView, TypeOK, Entry
<1>2. View \in [Txid -> Content]
  BY <1>1 DEF View, TypeOK, Entry
<1>. QED  BY <1>1, <1>2

\* The invariant holds of an empty database and empty caches.
LEMMA InitIInv == Init => IInv
<1>. SUFFICES ASSUME Init PROVE IInv
  OBVIOUS
<1>1. db \in [Txid -> Content]
  BY DEF Init, Content
<1>2. TypeOK
  BY <1>1 DEF Init, TypeOK, Empty, Hash
<1>3. TipFlags /\ ViewFlags /\ ViewBacked /\ ClosedIsEmpty
  BY DEF Init, TipFlags, ViewFlags, ViewBacked, ClosedIsEmpty, Empty
<1>4. TipView = db
  BY <1>1 DEF Init, TipView, Empty
<1>5. snap[Null] = db
  BY DEF Init, Hash
<1>6. DiskIsASnapshot /\ TipIsASnapshot
  BY <1>4, <1>5 DEF Init, DiskIsASnapshot, TipIsASnapshot, TipBestBlock
<1>. QED  BY <1>2, <1>3, <1>6 DEF IInv

\* A step that empties the tip cache while the view is closed.
LEMMA EmptyTip ==
  ASSUME tip' = Empty, view' = Empty
  PROVE  TipFlags' /\ ViewFlags' /\ ViewBacked' /\ ClosedIsEmpty'
  BY DEF TipFlags, ViewFlags, ViewBacked, ClosedIsEmpty, Empty

LEMMA EmptyTipView ==
  ASSUME tip' = Empty, db' \in [Txid -> Content]
  PROVE  TipView' = db'
  BY DEF TipView, Empty

\* What the two ways of filling the caches (Fetch, Modify) have in common.
LEMMA FetchKeeps ==
  ASSUME IInv, NEW t \in Txid, tip' \in {tip, TipFetched(t)},
         UNCHANGED <<db, dbBest, tipBest, snap, health>>
  PROVE  /\ tip' \in [Txid -> Entry \cup {NoEntry}]
         /\ TipFlags'
         /\ TipView' = TipView
         /\ DiskIsASnapshot'
         /\ TipIsASnapshot'
         /\ \A s \in Txid : tip[s] # NoEntry => tip'[s] # NoEntry
<1>. USE DEF IInv
<1>1. CASE tip' = tip
  <2>1. TipView' = TipView
    BY <1>1 DEF TipView
  <2>2. TipFlags'
    BY <1>1 DEF TipFlags
  <2>. QED  BY <1>1, <2>1, <2>2 DEF TypeOK, DiskIsASnapshot, TipIsASnapshot, TipBestBlock
<1>2. CASE tip' = TipFetched(t)
  <2>1. TipView' = TipView /\ TipFlags' /\ \A s \in Txid : tip[s] # NoEntry => tip'[s] = tip[s]
    BY <1>2, TipFetchedKeepsView
  <2>2. tip' \in [Txid -> Entry \cup {NoEntry}]
    BY <1>2, TipFetchedType
  <2>3. DiskIsASnapshot' /\ TipIsASnapshot'
    BY <2>1 DEF DiskIsASnapshot, TipIsASnapshot, TipBestBlock
  <2>. QED  BY <2>1, <2>2, <2>3
<1>. QED  BY <1>1, <1>2

LEMMA NextIInv == IInv /\ [Next]_vars => IInv'
<1>. SUFFICES ASSUME IInv, [Next]_vars PROVE IInv'
  OBVIOUS
<1>. USE DEF IInv
<1>1. CASE OpenView
  <2>1. TypeOK'
    BY <1>1 DEF OpenView, TypeOK, Empty
  <2>2. TipView' = TipView
    BY <1>1 DEF OpenView, TipView
  <2>3. TipFlags' /\ ViewFlags' /\ ViewBacked' /\ ClosedIsEmpty'
    BY <1>1 DEF OpenView, TipFlags, ViewFlags, ViewBacked, ClosedIsEmpty, Empty
  <2>4. DiskIsASnapshot' /\ TipIsASnapshot'
    BY <1>1, <2>2 DEF OpenView, DiskIsASnapshot, TipIsASnapshot, TipBestBlock
  <2>. QED  BY <2>1, <2>3, <2>4
<1>2. ASSUME NEW t \in Txid, Fetch(t) PROVE IInv'
  <2>1. /\ tip' \in [Txid -> Entry \cup {NoEntry}]
        /\ TipFlags'
        /\ TipView' = TipView
        /\ DiskIsASnapshot'
        /\ TipIsASnapshot'
        /\ \A s \in Txid : tip[s] # NoEntry => tip'[s] # NoEntry
    BY <1>2, FetchKeeps DEF Fetch
  <2>2. Fetched(t) \in Entry \cup {NoEntry}
    <3>1. CASE view[t] = NoEntry
      BY <3>1, FetchedEntry
    <3>2. CASE view[t] # NoEntry
      BY <3>2 DEF Fetched, TypeOK
    <3>. QED  BY <3>1, <3>2
  <2>3. \A s \in Txid : view'[s] = IF s = t THEN Fetched(t) ELSE view[s]
    BY <1>2 DEF Fetch, TypeOK
  <2>4. TypeOK'
    BY <1>2, <2>1, <2>2 DEF Fetch, TypeOK
  <2>5. ASSUME NEW s \in Txid, view'[s] # NoEntry
        PROVE  /\ ~view'[s].dirty => view'[s].coins = TipView'[s]
               /\ view'[s].fresh => TipView'[s] = Pruned
               /\ ~view'[s].fresh => tip'[s] # NoEntry
    <3>1. CASE view'[s] = view[s]
      BY <2>1, <2>5, <3>1 DEF ViewFlags, ViewBacked
    <3>2. CASE s = t /\ view[t] = NoEntry
      <4>1. view'[s] = Fetched(t) /\ tip' = TipFetched(t)
        BY <1>2, <2>3, <3>2 DEF Fetch
      <4>. QED  BY <2>1, <2>5, <3>2, <4>1, FetchedEntry
    <3>3. CASE s = t /\ view[t] # NoEntry
      BY <2>3, <3>1, <3>3 DEF Fetched
    <3>. QED  BY <2>3, <3>1, <3>2, <3>3
  <2>6. ViewFlags' /\ ViewBacked'
    BY <2>5 DEF ViewFlags, ViewBacked
  <2>7. ClosedIsEmpty'
    BY <1>2 DEF Fetch, ClosedIsEmpty
  <2>. QED  BY <2>1, <2>4, <2>6, <2>7
<1>3. ASSUME NEW t \in Txid, FetchTip(t) PROVE IInv'
  <2>1. /\ tip' \in [Txid -> Entry \cup {NoEntry}]
        /\ TipFlags'
        /\ TipView' = TipView
        /\ DiskIsASnapshot'
        /\ TipIsASnapshot'
        /\ \A s \in Txid : tip[s] # NoEntry => tip'[s] # NoEntry
    BY <1>3, FetchKeeps DEF FetchTip
  <2>2. TypeOK'
    BY <1>3, <2>1 DEF FetchTip, TypeOK
  <2>3. ViewFlags' /\ ViewBacked' /\ ClosedIsEmpty'
    BY <1>3, <2>1 DEF FetchTip, ViewFlags, ViewBacked, ClosedIsEmpty
  <2>. QED  BY <2>1, <2>2, <2>3
<1>4. ASSUME NEW t \in Txid, NEW c \in Content, Modify(t, c) PROVE IInv'
  <2>1. /\ tip' \in [Txid -> Entry \cup {NoEntry}]
        /\ TipFlags'
        /\ TipView' = TipView
        /\ DiskIsASnapshot'
        /\ TipIsASnapshot'
        /\ \A s \in Txid : tip[s] # NoEntry => tip'[s] # NoEntry
    BY <1>4, FetchKeeps DEF Modify
  <2>2. \A s \in Txid : view'[s] = IF s = t THEN Modified(t, c) ELSE view[s]
    BY <1>4 DEF Modify, TypeOK
  <2>3. TypeOK'
    BY <1>4, <2>1, ModifiedEntry DEF Modify, TypeOK
  <2>4. ASSUME NEW s \in Txid, view'[s] # NoEntry
        PROVE  /\ ~view'[s].dirty => view'[s].coins = TipView'[s]
               /\ view'[s].fresh => TipView'[s] = Pruned
               /\ ~view'[s].fresh => tip'[s] # NoEntry
    <3>1. CASE s # t
      BY <2>1, <2>2, <2>4, <3>1 DEF ViewFlags, ViewBacked
    <3>2. CASE s = t
      <4>1. view'[s] = Modified(t, c)
        BY <2>2, <3>2
      <4>2. view[t] = NoEntry => tip' = TipFetched(t)
        BY <1>4 DEF Modify
      <4>. QED  BY <2>1, <2>4, <3>2, <4>1, <4>2, ModifiedEntry
    <3>. QED  BY <3>1, <3>2
  <2>5. ViewFlags' /\ ViewBacked'
    BY <2>4 DEF ViewFlags, ViewBacked
  <2>6. ClosedIsEmpty'
    BY <1>4 DEF Modify, ClosedIsEmpty
  <2>. QED  BY <2>1, <2>3, <2>5, <2>6
<1>5. CASE DiscardView
  <2>1. TypeOK'
    BY <1>5 DEF DiscardView, TypeOK, Empty
  <2>2. TipView' = TipView
    BY <1>5 DEF DiscardView, TipView
  <2>3. TipFlags' /\ ViewFlags' /\ ViewBacked' /\ ClosedIsEmpty'
    BY <1>5 DEF DiscardView, TipFlags, ViewFlags, ViewBacked, ClosedIsEmpty, Empty
  <2>4. DiskIsASnapshot' /\ TipIsASnapshot'
    BY <1>5, <2>2 DEF DiscardView, DiskIsASnapshot, TipIsASnapshot, TipBestBlock
  <2>. QED  BY <2>1, <2>3, <2>4
<1>6. ASSUME NEW b \in Block, CommitView(b) PROVE IInv'
  <2>1. \A t \in Txid : tip'[t] = Merged(t)
    BY <1>6 DEF CommitView
  <2>2. View \in [Txid -> Content]
    BY ViewsAreContents
  <2>3. TypeOK'
    BY <1>6, <2>2, MergedEntry DEF CommitView, TypeOK, Empty, Hash
  <2>4. TipView' = View
    <3>1. ASSUME NEW t \in Txid
          PROVE  (IF tip'[t] = NoEntry THEN db'[t] ELSE tip'[t].coins) = View[t]
      BY <1>6, <2>1, MergedEntry DEF CommitView
    <3>2. View = [t \in Txid |-> View[t]]
      BY <2>2
    <3>. QED  BY <3>1, <3>2 DEF TipView
  <2>5. TipFlags'
    <3>1. ASSUME NEW t \in Txid, tip'[t] # NoEntry
          PROVE  /\ ~tip'[t].dirty => tip'[t].coins = db'[t]
                 /\ tip'[t].fresh => db'[t] = Pruned
      BY <1>6, <2>1, <3>1, MergedEntry DEF CommitView
    <3>. QED  BY <3>1 DEF TipFlags
  <2>6. ViewFlags' /\ ViewBacked' /\ ClosedIsEmpty'
    BY <1>6 DEF CommitView, ViewFlags, ViewBacked, ClosedIsEmpty, Empty
  <2>7. TipIsASnapshot'
    <3>1. TipBestBlock' = b
      BY <1>6, CoinsCacheAssumption DEF CommitView, TipBestBlock
    <3>2. snap'[b] = View
      BY <1>6 DEF CommitView, TypeOK, Hash
    <3>. QED  BY <2>4, <3>1, <3>2 DEF TipIsASnapshot
  <2>8. DiskIsASnapshot'
    <3>1. SUFFICES ASSUME health # "lost" PROVE db = snap'[dbBest]
      BY <1>6 DEF CommitView, DiskIsASnapshot
    <3>2. db = snap[dbBest] /\ db # NoSnap
      BY <3>1, CoinsCacheAssumption DEF DiskIsASnapshot, TypeOK
    <3>. QED  BY <1>6, <3>2 DEF CommitView, TypeOK, Hash
  <2>. QED  BY <2>3, <2>5, <2>6, <2>7, <2>8
<1>7. CASE FlushTip
  <2>1. db' = TipView
    BY <1>7, WrittenIsTipView DEF FlushTip
  <2>2. db' \in [Txid -> Content]
    BY <2>1, ViewsAreContents
  <2>3. view' = Empty
    BY <1>7 DEF FlushTip, MayFlush, ClosedIsEmpty
  <2>4. TipFlags' /\ ViewFlags' /\ ViewBacked' /\ ClosedIsEmpty'
    BY <1>7, <2>3, EmptyTip DEF FlushTip
  <2>5. TypeOK'
    BY <1>7, <2>2 DEF FlushTip, TypeOK, Empty, WrittenBest
  <2>6. dbBest' = TipBestBlock /\ TipBestBlock' = TipBestBlock
    BY <1>7 DEF FlushTip, WrittenBest, TipBestBlock
  <2>7. TipView' = TipView
    BY <1>7, <2>1, <2>2, EmptyTipView DEF FlushTip
  <2>8. health' # "lost" => health = "ok" /\ health' = "ok"
    BY <1>7 DEF FlushTip, TypeOK
  <2>9. DiskIsASnapshot' /\ TipIsASnapshot'
    BY <1>7, <2>1, <2>6, <2>7, <2>8 DEF FlushTip, DiskIsASnapshot, TipIsASnapshot
  <2>. QED  BY <2>4, <2>5, <2>9
<1>8. CASE FlushTipFails
  <2>1. view' = Empty
    BY <1>8 DEF FlushTipFails, MayFlush, ClosedIsEmpty
  <2>2. TipFlags' /\ ViewFlags' /\ ViewBacked' /\ ClosedIsEmpty'
    BY <1>8, <2>1, EmptyTip DEF FlushTipFails
  <2>3. TypeOK'
    BY <1>8 DEF FlushTipFails, TypeOK, Empty
  <2>4. health' # "ok" /\ (health' # "lost" => health # "lost")
    BY <1>8 DEF FlushTipFails, TypeOK
  <2>5. DiskIsASnapshot' /\ TipIsASnapshot'
    BY <1>8, <2>4 DEF FlushTipFails, DiskIsASnapshot, TipIsASnapshot
  <2>. QED  BY <2>2, <2>3, <2>5
<1>9. CASE Crash
  <2>1. TipFlags' /\ ViewFlags' /\ ViewBacked' /\ ClosedIsEmpty'
    BY <1>9, EmptyTip DEF Crash
  <2>2. TypeOK'
    BY <1>9 DEF Crash, TypeOK, Empty, Hash
  <2>3. TipView' = db /\ TipBestBlock' = dbBest
    BY <1>9, EmptyTipView DEF Crash, TypeOK, TipBestBlock
  <2>4. health' # "lost" => health # "lost"
    BY <1>9 DEF Crash
  <2>5. DiskIsASnapshot' /\ TipIsASnapshot'
    BY <1>9, <2>3, <2>4 DEF Crash, DiskIsASnapshot, TipIsASnapshot
  <2>. QED  BY <2>1, <2>2, <2>5
<1>10. CASE UNCHANGED vars
  <2>1. TipView' = TipView
    BY <1>10 DEF vars, TipView
  <2>. QED
    BY <1>10, <2>1 DEF vars, TypeOK, TipFlags, ViewFlags, ViewBacked, ClosedIsEmpty,
                       DiskIsASnapshot, TipIsASnapshot, TipBestBlock
<1>. QED
  BY <1>1, <1>2, <1>3, <1>4, <1>5, <1>6, <1>7, <1>8, <1>9, <1>10 DEF Next

-----------------------------------------------------------------------------
(* Safety *)

\* The inductive invariant holds in every reachable state.
THEOREM Invariance == Spec => []IInv
  BY InitIInv, NextIInv, PTL DEF Spec

\* Every variable keeps its shape through every operation on the views.
THEOREM TypeCorrect == Spec => []TypeOK
<1>1. IInv => TypeOK
  BY DEF IInv
<1>. QED  BY <1>1, Invariance, PTL

\* DIRTY and FRESH mean in both caches what their comments in coins.h say.
THEOREM FlagsCorrect == Spec => []FlagsMeanWhatTheySay
<1>1. IInv => FlagsMeanWhatTheySay
  BY DEF IInv, FlagsMeanWhatTheySay
<1>. QED  BY <1>1, Invariance, PTL

\* The assertion in CCoinsViewCache::BatchWrite never fails.
THEOREM AssertionHolds == Spec => []AssertFresh
<1>1. IInv => AssertFresh
  BY DEF IInv, AssertFresh, ViewBacked, TypeOK, Entry
<1>. QED  BY <1>1, Invariance, PTL

\* Unless a write was repeated after one that failed, the database holds the
\* coin set of the block it names, at every instant a crash may strike.
THEOREM CrashConsistent == Spec => []DiskIsASnapshot
<1>1. IInv => DiskIsASnapshot
  BY DEF IInv
<1>. QED  BY <1>1, Invariance, PTL

\* While writes succeed the tip cache shows the coin set of its best block.
THEOREM TipCorrect == Spec => []TipIsASnapshot
<1>1. IInv => TipIsASnapshot
  BY DEF IInv
<1>. QED  BY <1>1, Invariance, PTL

-----------------------------------------------------------------------------
(* Refinement *)

LEMMA InitRefines == Init => Abs!Init
<1>. SUFFICES ASSUME Init PROVE Abs!Init
  OBVIOUS
<1>1. TipView = db
  BY DEF Init, TipView, Empty
<1>2. TipBestBlock = Null
  BY DEF Init, TipBestBlock
<1>. QED  BY <1>1, <1>2 DEF Init, Hash, Abs!Init

\* A step that fills caches below an unchanged view is invisible.
LEMMA FetchInvisible ==
  ASSUME IInv, IInv', TipView' = TipView, View' = View, viewOpen' = viewOpen,
         UNCHANGED <<db, dbBest, tipBest, snap, health>>
  PROVE  UNCHANGED Abs!uvars
  BY DEF Abs!uvars, TipBestBlock

LEMMA NextRefines == IInv /\ IInv' /\ [Next]_vars => [Abs!Next]_(Abs!uvars)
<1>. SUFFICES ASSUME IInv, IInv', [Next]_vars PROVE [Abs!Next]_(Abs!uvars)
  OBVIOUS
<1>. USE DEF IInv
<1>a. TipView \in [Txid -> Content] /\ View \in [Txid -> Content]
  BY ViewsAreContents
<1>b. TipView' \in [Txid -> Content]
  BY DEF TipView, TypeOK, Entry
<1>1. CASE OpenView
  <2>1. TipView' = TipView /\ View' = TipView
    <3>1. TipView' = TipView
      BY <1>1 DEF OpenView, TipView
    <3>2. View' = [t \in Txid |-> TipView'[t]]
      BY <1>1 DEF OpenView, View, Empty
    <3>. QED  BY <3>1, <3>2, <1>a
  <2>. QED  BY <1>1, <2>1 DEF OpenView, Abs!uvars, TipBestBlock
<1>2. ASSUME NEW t \in Txid, Fetch(t) PROVE UNCHANGED Abs!uvars
  <2>1. TipView' = TipView
    BY <1>2, FetchKeeps DEF Fetch
  <2>2. View' = View
    <3>1. ASSUME NEW s \in Txid
          PROVE  (IF view'[s] = NoEntry THEN TipView'[s] ELSE view'[s].coins)
               = (IF view[s] = NoEntry THEN TipView[s] ELSE view[s].coins)
      <4>1. view'[s] = IF s = t THEN Fetched(t) ELSE view[s]
        BY <1>2 DEF Fetch, TypeOK
      <4>2. view[t] # NoEntry => Fetched(t) = view[t]
        BY DEF Fetched
      <4>. QED  BY <2>1, <4>1, <4>2, FetchedEntry
    <3>. QED  BY <3>1 DEF View
  <2>. QED  BY <1>2, <2>1, <2>2, FetchInvisible DEF Fetch
<1>3. ASSUME NEW t \in Txid, FetchTip(t) PROVE UNCHANGED Abs!uvars
  <2>1. TipView' = TipView
    BY <1>3, FetchKeeps DEF FetchTip
  <2>2. View' = View
    BY <1>3, <2>1 DEF FetchTip, View
  <2>. QED  BY <1>3, <2>1, <2>2, FetchInvisible DEF FetchTip
<1>4. ASSUME NEW t \in Txid, NEW c \in Content, Modify(t, c) PROVE Abs!Modify(t, c)
  <2>1. TipView' = TipView
    BY <1>4, FetchKeeps DEF Modify
  <2>2. View' = [View EXCEPT ![t] = c]
    <3>1. ASSUME NEW s \in Txid
          PROVE  (IF view'[s] = NoEntry THEN TipView'[s] ELSE view'[s].coins)
               = (IF s = t THEN c ELSE View[s])
      <4>1. view'[s] = IF s = t THEN Modified(t, c) ELSE view[s]
        BY <1>4 DEF Modify, TypeOK
      <4>2. View[s] = IF view[s] = NoEntry THEN TipView[s] ELSE view[s].coins
        BY DEF View
      <4>. QED  BY <2>1, <4>1, <4>2, ModifiedEntry
    <3>2. View' = [s \in Txid |-> IF s = t THEN c ELSE View[s]]
      BY <3>1 DEF View
    <3>. QED  BY <3>2, <1>a
  <2>. QED  BY <1>4, <2>1, <2>2 DEF Modify, Abs!Modify, TipBestBlock
<1>5. CASE DiscardView
  <2>1. TipView' = TipView
    BY <1>5 DEF DiscardView, TipView
  <2>. QED  BY <1>5, <2>1 DEF DiscardView, Abs!Discard, Abs!Next, TipBestBlock
<1>6. ASSUME NEW b \in Block, CommitView(b) PROVE Abs!Commit(b)
  <2>1. TipView' = View
    <3>1. ASSUME NEW t \in Txid
          PROVE  (IF tip'[t] = NoEntry THEN db'[t] ELSE tip'[t].coins) = View[t]
      BY <1>6, MergedEntry DEF CommitView
    <3>2. View = [t \in Txid |-> View[t]]
      BY <1>a
    <3>. QED  BY <3>1, <3>2 DEF TipView
  <2>2. TipBestBlock' = b
    BY <1>6, CoinsCacheAssumption DEF CommitView, TipBestBlock
  <2>. QED  BY <1>6, <2>1, <2>2 DEF CommitView, Abs!Commit
<1>7. CASE FlushTip
  <2>1. db' = TipView
    BY <1>7, WrittenIsTipView DEF FlushTip
  <2>2. TipView' = TipView
    BY <1>7, <1>a, <2>1, EmptyTipView DEF FlushTip
  <2>3. dbBest' = TipBestBlock /\ TipBestBlock' = TipBestBlock
    BY <1>7 DEF FlushTip, WrittenBest, TipBestBlock
  <2>. QED  BY <1>7, <2>1, <2>2, <2>3 DEF FlushTip, MayFlush, Abs!Flush, Abs!Next
<1>8. CASE FlushTipFails
  BY <1>8, <1>b DEF FlushTipFails, MayFlush, TipBestBlock, Abs!FlushFails, Abs!Next, Abs!Content, Content
<1>9. CASE Crash
  <2>1. TipView' = db /\ TipBestBlock' = dbBest
    BY <1>9, EmptyTipView DEF Crash, TypeOK, TipBestBlock
  <2>. QED  BY <1>9, <2>1 DEF Crash, Abs!Restart, Abs!Next
<1>10. CASE UNCHANGED vars
  <2>1. TipView' = TipView
    BY <1>10 DEF vars, TipView
  <2>2. View' = View
    BY <1>10, <2>1 DEF vars, View
  <2>. QED  BY <1>10, <2>1, <2>2, FetchInvisible DEF vars
<1>11. Content = Abs!Content
  BY DEF Content, Abs!Content
<1>. QED
  BY <1>1, <1>2, <1>3, <1>4, <1>5, <1>6, <1>7, <1>8, <1>9, <1>10, <1>11 DEF Next, Abs!Next

\* The layered caches implement the single map: nothing a reader can see
\* depends on which layer holds an entry or on its flags.
THEOREM Refinement == Spec => ImplementsUTXOView
<1>1. Init /\ [][Next]_vars /\ []IInv => Abs!Init /\ [][Abs!Next]_(Abs!uvars)
  BY InitRefines, NextRefines, PTL
<1>. QED  BY <1>1, Invariance, PTL DEF Spec, ImplementsUTXOView, Abs!Spec
=============================================================================
