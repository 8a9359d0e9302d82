---------------------------- MODULE AddrManDisk ----------------------------
(***************************************************************************)
(* The address manager over restarts: CAddrMan::Serialize and Unserialize  *)
(* (addrman.h), which write peers.dat and read it at the next start. The   *)
(* file holds neither ids nor vRandom, mapAddr or vvTried: they are built  *)
(* anew.                                                                   *)
(***************************************************************************)
EXTENDS AddrMan, SequencesExt

\* The ids of mapInfo in the order of the map, and those of one table.
Ids(m)      == SetToSortSeq(DOMAIN m.mapInfo, <)
NewIds(m)   == SelectSeq(Ids(m), LAMBDA n : m.mapInfo[n].refs # 0)
TriedIds(m) == SelectSeq(Ids(m), LAMBDA n : m.mapInfo[n].tried)

\* mapUnkIds: the number of new entries written before n.
UnkIdCountsAll(m, n) == Cardinality({k \in DOMAIN m.mapInfo : k < n})
UnkId(m, n) == Cardinality({k \in DOMAIN m.mapInfo : k < n /\ m.mapInfo[k].refs # 0})

\* What is written of a CAddrInfo.
Written(info) == [addr |-> info.addr, source |-> info.source, good |-> info.good]

Serialize(m) ==
  [nNew     |-> m.nNew,
   nTried   |-> m.nTried,
   vNew     |-> [i \in DOMAIN NewIds(m) |-> Written(m.mapInfo[NewIds(m)[i]])],
   vTried   |-> [i \in DOMAIN TriedIds(m) |-> Written(m.mapInfo[TriedIds(m)[i]])],
   vBuckets |-> [b \in NewBucket |->
                   LET used == SelectSeq(SetToSortSeq(BucketPos, <), LAMBDA p : m.vvNew[b, p] # None)
                   IN [i \in DOMAIN used |-> UnkId(m, m.vvNew[b, used[i]])]]]

-----------------------------------------------------------------------------

\* An entry read from the file: the memory-only fields start afresh.
Read(m, w) == LET c == Create(m, w.addr, w.source)
              IN [c EXCEPT !.mapInfo[m.nIdCount].good = w.good]

\* A new entry. When the number of buckets has changed it is given a place for
\* its own source, if that is free.
ReadNew(m, w, same) ==
  LET r    == Read(m, w)
      slot == SlotIn(w.addr, GetNewBucket[<<w.addr.ip, w.source>>])
  IN IF same \/ r.vvNew[slot] # None THEN r ELSE AddRef(r, m.nIdCount, slot)

\* A tried entry; it is lost when its slot is taken.
ReadTried(m, w) ==
  LET slot == GetTriedSlot[w.addr] IN
  IF m.vvTried[slot] # None THEN [m EXCEPT !.nTried = @ - 1]
  ELSE [Read(m, w) EXCEPT !.mapInfo[m.nIdCount].tried = TRUE, !.vvTried[slot] = m.nIdCount]

\* One index of bucket b. vvNew is used only if the number of buckets is the same.
ReadIndex(m, b, n, same, nNew) ==
  LET slot == SlotIn(m.mapInfo[n].addr, b) IN
  IF n < nNew /\ same /\ m.vvNew[slot] = None /\ m.mapInfo[n].refs < MaxRefs
  THEN AddRef(m, n, slot) ELSE m

\* The last loop: new entries without a place are deleted.
Prune(m) == FoldLeft(LAMBDA acc, n : IF ~acc.mapInfo[n].tried /\ acc.mapInfo[n].refs = 0
                                     THEN Delete(acc, n) ELSE acc,
                     m, Ids(m))

Unserialize(d, same) ==
  LET new     == FoldLeft(LAMBDA m, w : ReadNew(m, w, same), [Empty EXCEPT !.nNew = d.nNew], d.vNew)
      all     == FoldLeft(ReadTried, [new EXCEPT !.nTried = d.nTried], d.vTried)
      indexed == FoldLeft(LAMBDA m, b : FoldLeft(LAMBDA k, n : ReadIndex(k, b, n, same, d.nNew), m, d.vBuckets[b]),
                          all, SetToSortSeq(NewBucket, <))
  IN Prune(indexed)

\* DumpAddresses, the end of the process, and CAddrDB::Read of the next one. To
\* start from an older dump, after a crash, is to restart when it was written.
Restart(same) == am' = Unserialize(Serialize(am), same)

\* CAddrDB::Write opens peers.dat itself for writing, so a crash while it is
\* written leaves a file whose checksum is wrong, and the node starts with none.
StartWithout == am' = Empty

DiskNext == Next \/ (\E same \in BOOLEAN : Restart(same)) \/ StartWithout

DiskSpec == Init /\ [][DiskNext]_am

-----------------------------------------------------------------------------

\* What a user of the address manager can see of its tables.
Contents(m) == {[info  |-> Written(m.mapInfo[n]),
                 tried |-> m.mapInfo[n].tried,
                 slots |-> SlotsOf(m, n)] : n \in DOMAIN m.mapInfo}

\* The format is a faithful one: what Unserialize builds from what Serialize
\* wrote has the same addresses in the same slots of the same tables, although
\* ids are given anew and the file names entries by their place in it.
RestartKeepsTables == [][Restart(TRUE) => Contents(am') = Contents(am)]_am
=============================================================================
