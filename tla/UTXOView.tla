------------------------------ MODULE UTXOView ------------------------------
(***************************************************************************)
(* What the stack of coin views promises its users (coins.h): one map from *)
(* transaction ids to unspent outputs, edited through a scratch copy,      *)
(* labelled with the block whose state it represents, and saved to disk    *)
(* together with that label in one atomic step.                            *)
(***************************************************************************)
CONSTANTS Txid,     \* transaction ids
          Coins,    \* contents of a CCoins that still has an unspent output
          Pruned,   \* a CCoins without unspent outputs, or no CCoins at all
          Block,    \* block hashes
          Null,     \* the null hash
          NoSnap    \* no state was ever committed under that hash

VARIABLES pending,   \* the state as seen through the view being edited
          utxo,      \* the state as seen through the tip view
          best,      \* GetBestBlock() of the tip view
          disk,      \* the coins of the database
          diskBest,  \* its record 'B'
          snap,      \* the state first committed under each hash (history)
          health     \* "ok", "undef" after a failed write, "lost" after the next one

uvars == <<pending, utxo, best, disk, diskBest, snap, health>>

Content == Coins \cup {Pruned}

Init == /\ disk = [t \in Txid |-> Pruned]
        /\ utxo = disk
        /\ pending = disk
        /\ diskBest = Null
        /\ best = Null
        /\ snap = [b \in Block \cup {Null} |-> IF b = Null THEN disk ELSE NoSnap]
        /\ health = "ok"

Modify(t, c) == /\ pending' = [pending EXCEPT ![t] = c]
                /\ UNCHANGED <<utxo, best, disk, diskBest, snap, health>>

Discard == /\ pending' = utxo
           /\ UNCHANGED <<utxo, best, disk, diskBest, snap, health>>

Commit(b) == /\ snap[b] \in {NoSnap, pending}
             /\ snap' = [snap EXCEPT ![b] = pending]
             /\ utxo' = pending
             /\ best' = b
             /\ UNCHANGED <<pending, disk, diskBest, health>>

Flush == /\ disk' = utxo
         /\ diskBest' = best
         /\ health' = IF health = "ok" THEN "ok" ELSE "lost"
         /\ UNCHANGED <<pending, utxo, best, snap>>

FlushFails == /\ utxo' \in [Txid -> Content]
              /\ pending' = utxo'
              /\ health' = IF health = "ok" THEN "undef" ELSE health
              /\ UNCHANGED <<best, disk, diskBest, snap>>

Restart == /\ utxo' = disk
           /\ pending' = disk
           /\ best' = diskBest
           /\ health' = IF health = "undef" THEN "ok" ELSE health
           /\ UNCHANGED <<disk, diskBest, snap>>

Next == \/ \E t \in Txid, c \in Content : Modify(t, c)
        \/ Discard
        \/ \E b \in Block : Commit(b)
        \/ Flush
        \/ FlushFails
        \/ Restart

Spec == Init /\ [][Next]_uvars
=============================================================================
