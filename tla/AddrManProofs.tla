--------------------------- MODULE AddrManProofs ---------------------------
(***************************************************************************)
(* Proofs about the address manager (AddrMan), for every set of addresses, *)
(* every size of the tables and every choice of the hash functions.        *)
(*                                                                         *)
(* The helpers are called in states where Check_ fails: an entry that      *)
(* Create made has no place yet, one that MakeTried has taken out of the   *)
(* new table is in no table, and nNew is one off. The invariant is         *)
(* therefore stated with what is missing: X is the set of ids that may be  *)
(* without a place, d is the number of entries nNew does not count.        *)
(***************************************************************************)
EXTENDS AddrMan, FiniteSetTheorems, TLAPS

\* The value is a record with the fields of CAddrMan.
Fields(m) ==
  m = [mapInfo |-> m.mapInfo, mapAddr |-> m.mapAddr, vRandom |-> m.vRandom,
       nIdCount |-> m.nIdCount, nNew |-> m.nNew, nTried |-> m.nTried,
       vvNew |-> m.vvNew, vvTried |-> m.vvTried]

\* mapInfo and mapAddr are inverse to each other.
Maps(mi, ma, id) ==
  /\ id \in Nat
  /\ \A n \in DOMAIN mi : n \in Nat /\ n < id /\ mi[n] \in Info
  /\ \A n \in DOMAIN mi : mi[n].addr.ip \in DOMAIN ma /\ ma[mi[n].addr.ip] = n
  /\ \A ip \in DOMAIN ma : ip \in Ip /\ ma[ip] \in DOMAIN mi /\ mi[ma[ip]].addr.ip = ip

\* vRandom and nRandomPos are inverse to each other.
Order(mi, vr) ==
  /\ vr \in Seq(Nat)
  /\ \A n \in DOMAIN mi : mi[n].pos \in 1..Len(vr) /\ vr[mi[n].pos] = n
  /\ \A i \in 1..Len(vr) : vr[i] \in DOMAIN mi /\ mi[vr[i]].pos = i

SlotsWith(vn, n) == {s \in NewSlot : vn[s] = n}

\* The new table holds new entries at their places, nRefCount times each.
NewTable(mi, vn) ==
  /\ vn \in [NewSlot -> Nat \cup {None}]
  /\ \A s \in NewSlot : vn[s] # None =>
       /\ vn[s] \in DOMAIN mi
       /\ ~mi[vn[s]].tried
       /\ s = SlotIn(mi[vn[s]].addr, s[1])
  /\ \A n \in DOMAIN mi :
       /\ mi[n].refs = Cardinality(SlotsWith(vn, n))
       /\ mi[n].refs <= MaxRefs

\* The tried table holds every tried entry at its place.
TriedTable(mi, vt) ==
  /\ vt \in [TriedSlot -> Nat \cup {None}]
  /\ \A s \in TriedSlot : vt[s] # None =>
       /\ vt[s] \in DOMAIN mi
       /\ mi[vt[s]].tried
       /\ GetTriedSlot[mi[vt[s]].addr] = s
  /\ \A n \in DOMAIN mi : mi[n].tried => mi[n].good /\ vt[GetTriedSlot[mi[n].addr]] = n

NewOf(mi)   == {n \in DOMAIN mi : ~mi[n].tried}
TriedOf(mi) == {n \in DOMAIN mi : mi[n].tried}

\* The counters, of which nNew lacks d entries.
Counts(mi, vr, nn, nt, d) ==
  /\ IsFiniteSet(DOMAIN mi)
  /\ Len(vr) = Cardinality(DOMAIN mi)
  /\ nt = Cardinality(TriedOf(mi))
  /\ nn = Cardinality(NewOf(mi)) - d

\* Every new entry has a place, those in X excepted.
Placed(mi, X) == \A n \in DOMAIN mi : ~mi[n].tried /\ n \notin X => mi[n].refs >= 1

Consistent(m, X, d) ==
  /\ Fields(m)
  /\ Maps(m.mapInfo, m.mapAddr, m.nIdCount)
  /\ Order(m.mapInfo, m.vRandom)
  /\ NewTable(m.mapInfo, m.vvNew)
  /\ TriedTable(m.mapInfo, m.vvTried)
  /\ Counts(m.mapInfo, m.vRandom, m.nNew, m.nTried, d)
  /\ Placed(m.mapInfo, X)

\* The slot of entry k in the tried table.
HasSlot(mi, k, slot) == GetTriedSlot[mi[k].addr] = slot

\* A connection to entry k has succeeded once.
Worked(mi, k) == mi[k].good

\* Entry k is the same in two maps but for its place in vRandom.
SameEntry(mi, mj, k) ==
  /\ k \in DOMAIN mj
  /\ mj[k] \in Info
  /\ mj[k].addr = mi[k].addr
  /\ mj[k].source = mi[k].source
  /\ mj[k].tried = mi[k].tried
  /\ mj[k].refs = mi[k].refs
  /\ mj[k].good = mi[k].good

-----------------------------------------------------------------------------
(* The time limits of the provers for every step that names none. *)
USE SMTT(30), ZenonT(30)

(* Finite sets. *)

LEMMA NewSlotFinite == IsFiniteSet(NewSlot)
  BY FS_Product, AddrManAssumption DEF NewSlot

LEMMA SlotsFinite ==
  ASSUME NEW vn, NEW n
  PROVE  /\ IsFiniteSet(SlotsWith(vn, n))
         /\ Cardinality(SlotsWith(vn, n)) \in Nat
  <1>1. SlotsWith(vn, n) \in SUBSET NewSlot
    BY DEF SlotsWith
  <1>2. IsFiniteSet(SlotsWith(vn, n))
    BY <1>1, NewSlotFinite, FS_Subset
  <1> QED
    BY <1>2, FS_CardinalityType

\* The two tables divide the entries.
LEMMA TablesDivide ==
  ASSUME NEW mi, IsFiniteSet(DOMAIN mi)
  PROVE  /\ IsFiniteSet(NewOf(mi)) /\ Cardinality(NewOf(mi)) \in Nat
         /\ IsFiniteSet(TriedOf(mi)) /\ Cardinality(TriedOf(mi)) \in Nat
         /\ Cardinality(DOMAIN mi) = Cardinality(NewOf(mi)) + Cardinality(TriedOf(mi))
  <1>1. NewOf(mi) \in SUBSET DOMAIN mi /\ TriedOf(mi) \in SUBSET DOMAIN mi
    BY DEF NewOf, TriedOf
  <1>2. IsFiniteSet(NewOf(mi)) /\ IsFiniteSet(TriedOf(mi))
    BY <1>1, FS_Subset
  <1>3. Cardinality(NewOf(mi)) \in Nat /\ Cardinality(TriedOf(mi)) \in Nat
    BY <1>2, FS_CardinalityType
  <1>4. NewOf(mi) \cap TriedOf(mi) = {} /\ NewOf(mi) \cup TriedOf(mi) = DOMAIN mi
    BY DEF NewOf, TriedOf
  <1>5. Cardinality(NewOf(mi) \cup TriedOf(mi))
          = Cardinality(NewOf(mi)) + Cardinality(TriedOf(mi)) - Cardinality(NewOf(mi) \cap TriedOf(mi))
    BY <1>2, FS_Union
  <1>6. Cardinality(NewOf(mi) \cap TriedOf(mi)) = 0
    BY <1>4, FS_EmptySet
  <1>7. Cardinality(DOMAIN mi) = Cardinality(NewOf(mi) \cup TriedOf(mi))
    BY <1>4
  <1> QED
    BY <1>2, <1>3, <1>5, <1>6, <1>7

-----------------------------------------------------------------------------
(* Changes that leave the set of entries and the tables' shape alone. *)

\* What does not look at nRandomPos is kept by a map with the same entries.
LEMMA SameEntries ==
  ASSUME NEW mi, NEW mj, NEW ma, NEW id, NEW vn, NEW vt, NEW X,
         DOMAIN mj = DOMAIN mi, \A k \in DOMAIN mi : SameEntry(mi, mj, k)
  PROVE  /\ Maps(mi, ma, id) => Maps(mj, ma, id)
         /\ NewTable(mi, vn) => NewTable(mj, vn)
         /\ TriedTable(mi, vt) => TriedTable(mj, vt)
         /\ Placed(mi, X) => Placed(mj, X)
         /\ NewOf(mj) = NewOf(mi)
         /\ TriedOf(mj) = TriedOf(mi)
  <1>1. Maps(mi, ma, id) => Maps(mj, ma, id)
    BY DEF Maps, SameEntry
  <1>2. NewTable(mi, vn) => NewTable(mj, vn)
    BY DEF NewTable, SameEntry
  <1>3. TriedTable(mi, vt) => TriedTable(mj, vt)
    BY DEF TriedTable, SameEntry
  <1>4. Placed(mi, X) => Placed(mj, X)
    BY DEF Placed, SameEntry
  <1>5. NewOf(mj) = NewOf(mi) /\ TriedOf(mj) = TriedOf(mi)
    BY DEF NewOf, TriedOf, SameEntry
  <1> QED
    BY <1>1, <1>2, <1>3, <1>4, <1>5

\* An entry with one field changed.
LEMMA PosChange ==
  ASSUME NEW info \in Info, NEW i \in Int
  PROVE  /\ [info EXCEPT !.pos = i] \in Info
         /\ [info EXCEPT !.pos = i].addr = info.addr
         /\ [info EXCEPT !.pos = i].source = info.source
         /\ [info EXCEPT !.pos = i].tried = info.tried
         /\ [info EXCEPT !.pos = i].refs = info.refs
         /\ [info EXCEPT !.pos = i].pos = i
         /\ [info EXCEPT !.pos = i].good = info.good
  BY DEF Info

LEMMA RefsChange ==
  ASSUME NEW info \in Info, NEW i \in Int
  PROVE  /\ [info EXCEPT !.refs = i] \in Info
         /\ [info EXCEPT !.refs = i].addr = info.addr
         /\ [info EXCEPT !.refs = i].source = info.source
         /\ [info EXCEPT !.refs = i].tried = info.tried
         /\ [info EXCEPT !.refs = i].refs = i
         /\ [info EXCEPT !.refs = i].pos = info.pos
         /\ [info EXCEPT !.refs = i].good = info.good
  BY DEF Info

LEMMA TriedChange ==
  ASSUME NEW info \in Info, NEW t \in BOOLEAN
  PROVE  /\ [info EXCEPT !.tried = t] \in Info
         /\ [info EXCEPT !.tried = t].addr = info.addr
         /\ [info EXCEPT !.tried = t].source = info.source
         /\ [info EXCEPT !.tried = t].tried = t
         /\ [info EXCEPT !.tried = t].refs = info.refs
         /\ [info EXCEPT !.tried = t].pos = info.pos
         /\ [info EXCEPT !.tried = t].good = info.good
  BY DEF Info

LEMMA GoodChange ==
  ASSUME NEW info \in Info, NEW t \in BOOLEAN
  PROVE  /\ [info EXCEPT !.good = t] \in Info
         /\ [info EXCEPT !.good = t].addr = info.addr
         /\ [info EXCEPT !.good = t].source = info.source
         /\ [info EXCEPT !.good = t].tried = info.tried
         /\ [info EXCEPT !.good = t].refs = info.refs
         /\ [info EXCEPT !.good = t].pos = info.pos
         /\ [info EXCEPT !.good = t].good = t
  BY DEF Info

\* SwapRandom exchanges two ids of vRandom and keeps all else.
LEMMA SwapOrder ==
  ASSUME NEW m, Fields(m), Maps(m.mapInfo, m.mapAddr, m.nIdCount), Order(m.mapInfo, m.vRandom),
         NEW i \in 1..Len(m.vRandom), NEW j \in 1..Len(m.vRandom),
         NEW r, r = SwapRandom(m, i, j)
  PROVE  /\ Fields(r)
         /\ Order(r.mapInfo, r.vRandom)
         /\ Len(r.vRandom) = Len(m.vRandom)
         /\ r.vRandom[j] = m.vRandom[i]
         /\ DOMAIN r.mapInfo = DOMAIN m.mapInfo
         /\ \A k \in DOMAIN m.mapInfo : SameEntry(m.mapInfo, r.mapInfo, k)
         /\ r.mapAddr = m.mapAddr /\ r.nIdCount = m.nIdCount /\ r.nNew = m.nNew
         /\ r.nTried = m.nTried /\ r.vvNew = m.vvNew /\ r.vvTried = m.vvTried
  <1>1. CASE i = j
    BY <1>1 DEF SwapRandom, SameEntry, Maps
  <1>2. CASE i # j
    <2> DEFINE a == m.vRandom[i]
    <2> DEFINE b == m.vRandom[j]
    <2>1. /\ r.mapInfo = [m.mapInfo EXCEPT ![a].pos = j, ![b].pos = i]
          /\ r.vRandom = [m.vRandom EXCEPT ![i] = b, ![j] = a]
          /\ Fields(r)
          /\ r.mapAddr = m.mapAddr /\ r.nIdCount = m.nIdCount /\ r.nNew = m.nNew
          /\ r.nTried = m.nTried /\ r.vvNew = m.vvNew /\ r.vvTried = m.vvTried
      BY ZenonT(30), <1>2 DEF SwapRandom, Fields
    <2>2. a \in DOMAIN m.mapInfo /\ b \in DOMAIN m.mapInfo /\ a # b /\ a \in Nat /\ b \in Nat
      BY ZenonT(30), <1>2 DEF Order, Maps
    <2>3. r.vRandom \in Seq(Nat) /\ Len(r.vRandom) = Len(m.vRandom)
      BY <2>1, <2>2 DEF Order
    <2>4. \A k \in 1..Len(m.vRandom) : r.vRandom[k] = IF k = i THEN b ELSE IF k = j THEN a ELSE m.vRandom[k]
      BY <2>1, <1>2 DEF Order
    <2>5. /\ DOMAIN r.mapInfo = DOMAIN m.mapInfo
          /\ r.mapInfo[a] = [m.mapInfo[a] EXCEPT !.pos = j]
          /\ r.mapInfo[b] = [m.mapInfo[b] EXCEPT !.pos = i]
          /\ \A k \in DOMAIN m.mapInfo \ {a, b} : r.mapInfo[k] = m.mapInfo[k]
      BY ZenonT(30), <2>1, <2>2
    <2>6. /\ r.mapInfo[a].pos = j /\ SameEntry(m.mapInfo, r.mapInfo, a)
          /\ r.mapInfo[b].pos = i /\ SameEntry(m.mapInfo, r.mapInfo, b)
      <3>1. m.mapInfo[a] \in Info /\ m.mapInfo[b] \in Info /\ i \in Int /\ j \in Int
        BY <2>2 DEF Maps
      <3> HIDE DEF a, b
      <3> QED
        BY <3>1, <2>2, <2>5, PosChange DEF SameEntry
    <2>7. \A k \in DOMAIN m.mapInfo : SameEntry(m.mapInfo, r.mapInfo, k)
      BY ZenonT(30), <2>5, <2>6 DEF Maps, SameEntry
    <2>8. m.mapInfo[a].pos = i /\ m.mapInfo[b].pos = j
      BY DEF Order
    <2> HIDE DEF a, b
    <2>9. \A n \in DOMAIN m.mapInfo : r.mapInfo[n].pos \in 1..Len(r.vRandom) /\ r.vRandom[r.mapInfo[n].pos] = n
      <3> SUFFICES ASSUME NEW n \in DOMAIN m.mapInfo
                   PROVE  r.mapInfo[n].pos \in 1..Len(m.vRandom) /\ r.vRandom[r.mapInfo[n].pos] = n
        BY <2>3
      <3>1. CASE n = a
        BY <3>1, <2>4, <2>6, <1>2
      <3>2. CASE n = b
        BY <3>2, <2>4, <2>6
      <3>3. CASE n # a /\ n # b
        <4>1. r.mapInfo[n] = m.mapInfo[n]
          BY <3>3, <2>5
        <4>2. m.mapInfo[n].pos \in 1..Len(m.vRandom) /\ m.vRandom[m.mapInfo[n].pos] = n
          BY DEF Order
        <4>3. m.mapInfo[n].pos # i /\ m.mapInfo[n].pos # j
          BY <4>2, <3>3 DEF a, b
        <4> QED
          BY <4>1, <4>2, <4>3, <2>4
      <3> QED
        BY <3>1, <3>2, <3>3
    <2>10. \A k \in 1..Len(m.vRandom) : r.vRandom[k] \in DOMAIN m.mapInfo /\ r.mapInfo[r.vRandom[k]].pos = k
      <3> SUFFICES ASSUME NEW k \in 1..Len(m.vRandom)
                   PROVE  r.vRandom[k] \in DOMAIN m.mapInfo /\ r.mapInfo[r.vRandom[k]].pos = k
        OBVIOUS
      <3>1. CASE k = i \/ k = j
        BY <3>1, <2>2, <2>4, <2>6, <1>2
      <3>2. CASE k # i /\ k # j
        <4>1. r.vRandom[k] = m.vRandom[k]
          BY <3>2, <2>4
        <4>2. m.vRandom[k] \in DOMAIN m.mapInfo /\ m.mapInfo[m.vRandom[k]].pos = k
          BY DEF Order
        <4>3. m.vRandom[k] # a /\ m.vRandom[k] # b
          BY <4>2, <3>2, <2>8
        <4> QED
          BY <4>1, <4>2, <4>3, <2>5
      <3> QED
        BY <3>1, <3>2
    <2>11. Order(r.mapInfo, r.vRandom)
      BY <2>3, <2>5, <2>9, <2>10 DEF Order
    <2> QED
      BY ZenonT(30), <2>1, <2>3, <2>4, <2>5, <2>7, <2>11, <1>2 DEF a
  <1> QED
    BY <1>1, <1>2

-----------------------------------------------------------------------------
(* Delete. *)

LEMMA NoSlot ==
  ASSUME NEW mi, NEW vn, NewTable(mi, vn), NEW n \in DOMAIN mi
  PROVE  mi[n].refs = 0 <=> \A t \in NewSlot : vn[t] # n
  <1>1. mi[n].refs = Cardinality(SlotsWith(vn, n))
    BY DEF NewTable
  <1>2. IsFiniteSet(SlotsWith(vn, n))
    BY SlotsFinite
  <1>3. SlotsWith(vn, n) = {} <=> \A t \in NewSlot : vn[t] # n
    BY DEF SlotsWith
  <1> QED
    BY <1>1, <1>2, <1>3, FS_EmptySet

LEMMA NewTableShrinks ==
  ASSUME NEW mi, NEW mj, NEW vn, NewTable(mi, vn), DOMAIN mj \subseteq DOMAIN mi,
         \A k \in DOMAIN mj : SameEntry(mi, mj, k),
         \A t \in NewSlot : vn[t] # None => vn[t] \in DOMAIN mj
  PROVE  NewTable(mj, vn)
  BY DEF NewTable, SameEntry

LEMMA DeleteConsistent ==
  ASSUME NEW m, NEW X, NEW d \in Int, Consistent(m, X, d),
         NEW n \in DOMAIN m.mapInfo, ~m.mapInfo[n].tried, m.mapInfo[n].refs = 0,
         NEW r, r = Delete(m, n)
  PROVE  /\ Consistent(r, X, d)
         /\ DOMAIN r.mapInfo = DOMAIN m.mapInfo \ {n}
         /\ \A k \in DOMAIN m.mapInfo \ {n} : SameEntry(m.mapInfo, r.mapInfo, k)
         /\ r.vvNew = m.vvNew /\ r.vvTried = m.vvTried /\ r.nIdCount = m.nIdCount
  <1> DEFINE s == SwapRandom(m, m.mapInfo[n].pos, Len(m.vRandom))
  <1> DEFINE L == Len(m.vRandom)
  <1>1. L \in Nat /\ m.mapInfo[n].pos \in 1..L /\ L \in 1..L /\ m.vRandom[m.mapInfo[n].pos] = n
    BY DEF Consistent, Order
  <1>2. /\ Fields(s)
        /\ Order(s.mapInfo, s.vRandom)
        /\ Len(s.vRandom) = L
        /\ s.vRandom[L] = n
        /\ DOMAIN s.mapInfo = DOMAIN m.mapInfo
        /\ \A k \in DOMAIN m.mapInfo : SameEntry(m.mapInfo, s.mapInfo, k)
        /\ s.mapAddr = m.mapAddr /\ s.nIdCount = m.nIdCount /\ s.nNew = m.nNew
        /\ s.nTried = m.nTried /\ s.vvNew = m.vvNew /\ s.vvTried = m.vvTried
    <2> HIDE DEF s
    <2>1. s = SwapRandom(m, m.mapInfo[n].pos, Len(m.vRandom))
      BY DEF s
    <2>2. Fields(m) /\ Maps(m.mapInfo, m.mapAddr, m.nIdCount) /\ Order(m.mapInfo, m.vRandom)
      BY DEF Consistent
    <2> QED
      BY <1>1, <2>1, <2>2, SwapOrder
  <1>3. r = [s EXCEPT !.vRandom = SubSeq(s.vRandom, 1, Len(s.vRandom) - 1),
                      !.mapAddr = Drop(s.mapAddr, s.mapInfo[n].addr.ip),
                      !.mapInfo = Drop(s.mapInfo, n),
                      !.nNew    = s.nNew - 1]
    BY DEF Delete
  <1> HIDE DEF s, L
  <1>4. /\ r.vRandom = SubSeq(s.vRandom, 1, L - 1)
        /\ r.mapAddr = Drop(m.mapAddr, m.mapInfo[n].addr.ip)
        /\ r.mapInfo = Drop(s.mapInfo, n)
        /\ r.nNew = m.nNew - 1 /\ r.nIdCount = m.nIdCount /\ r.nTried = m.nTried
        /\ r.vvNew = m.vvNew /\ r.vvTried = m.vvTried
        /\ Fields(r)
    <2>1. s.mapInfo[n].addr = m.mapInfo[n].addr
      BY <1>2 DEF SameEntry
    <2> DEFINE v == SubSeq(s.vRandom, 1, L - 1)
    <2> DEFINE a == Drop(m.mapAddr, m.mapInfo[n].addr.ip)
    <2> DEFINE i == Drop(s.mapInfo, n)
    <2>2. r = [s EXCEPT !.vRandom = v, !.mapAddr = a, !.mapInfo = i, !.nNew = m.nNew - 1]
      BY <1>2, <1>3, <2>1
    <2> HIDE DEF v, a, i
    <2>3. /\ r.vRandom = v /\ r.mapAddr = a /\ r.mapInfo = i /\ r.nNew = m.nNew - 1
          /\ r.nIdCount = m.nIdCount /\ r.nTried = m.nTried
          /\ r.vvNew = m.vvNew /\ r.vvTried = m.vvTried
          /\ Fields(r)
      BY ZenonT(30), <1>2, <2>2 DEF Fields
    <2> QED
      BY <2>3 DEF v, a, i
  <1>5. /\ DOMAIN r.mapInfo = DOMAIN m.mapInfo \ {n}
        /\ \A k \in DOMAIN m.mapInfo \ {n} : r.mapInfo[k] = s.mapInfo[k]
    BY <1>2, <1>4 DEF Drop
  <1>6. \A k \in DOMAIN m.mapInfo \ {n} : SameEntry(m.mapInfo, r.mapInfo, k)
    BY <1>2, <1>5 DEF SameEntry
  <1>7. Maps(r.mapInfo, r.mapAddr, r.nIdCount)
    <2> DEFINE ip0 == m.mapInfo[n].addr.ip
    <2>1. Maps(m.mapInfo, m.mapAddr, m.nIdCount)
      BY DEF Consistent
    <2>2. /\ DOMAIN r.mapAddr = DOMAIN m.mapAddr \ {ip0}
          /\ \A ip \in DOMAIN m.mapAddr \ {ip0} : r.mapAddr[ip] = m.mapAddr[ip]
      BY <1>4 DEF Drop
    <2>3. \A k \in DOMAIN m.mapInfo \ {n} : m.mapInfo[k].addr.ip # ip0
      BY <2>1 DEF Maps
    <2>4. \A ip \in DOMAIN m.mapAddr \ {ip0} : m.mapAddr[ip] # n
      BY <2>1 DEF Maps
    <2> HIDE DEF ip0
    <2>5. \A k \in DOMAIN r.mapInfo : /\ k \in Nat /\ k < r.nIdCount /\ r.mapInfo[k] \in Info
                                      /\ r.mapInfo[k].addr.ip \in DOMAIN r.mapAddr
                                      /\ r.mapAddr[r.mapInfo[k].addr.ip] = k
      <3> SUFFICES ASSUME NEW k \in DOMAIN m.mapInfo \ {n}
                   PROVE  /\ k \in Nat /\ k < r.nIdCount /\ r.mapInfo[k] \in Info
                          /\ r.mapInfo[k].addr.ip \in DOMAIN r.mapAddr
                          /\ r.mapAddr[r.mapInfo[k].addr.ip] = k
        BY <1>5
      <3>1. /\ k \in Nat /\ k < m.nIdCount
            /\ m.mapInfo[k].addr.ip \in DOMAIN m.mapAddr /\ m.mapAddr[m.mapInfo[k].addr.ip] = k
        BY <2>1 DEF Maps
      <3>2. r.mapInfo[k] \in Info /\ r.mapInfo[k].addr = m.mapInfo[k].addr /\ r.nIdCount = m.nIdCount
        BY <1>4, <1>6 DEF SameEntry
      <3> QED
        BY <3>1, <3>2, <2>2, <2>3
    <2>6. \A ip \in DOMAIN r.mapAddr : /\ ip \in Ip /\ r.mapAddr[ip] \in DOMAIN r.mapInfo
                                       /\ r.mapInfo[r.mapAddr[ip]].addr.ip = ip
      <3> SUFFICES ASSUME NEW ip \in DOMAIN m.mapAddr \ {ip0}
                   PROVE  /\ ip \in Ip /\ m.mapAddr[ip] \in DOMAIN r.mapInfo
                          /\ r.mapInfo[m.mapAddr[ip]].addr.ip = ip
        BY <2>2
      <3>1. ip \in Ip /\ m.mapAddr[ip] \in DOMAIN m.mapInfo /\ m.mapInfo[m.mapAddr[ip]].addr.ip = ip
        BY <2>1 DEF Maps
      <3>2. m.mapAddr[ip] \in DOMAIN m.mapInfo \ {n}
        BY <3>1, <2>4
      <3> QED
        BY <3>1, <3>2, <1>5, <1>6 DEF SameEntry
    <2> QED
      BY ZenonT(30), <2>1, <2>5, <2>6, <1>4 DEF Maps
  <1>8. /\ r.vRandom \in Seq(Nat) /\ Len(r.vRandom) = L - 1
        /\ \A i \in 1..(L - 1) : r.vRandom[i] = s.vRandom[i]
    BY <1>1, <1>2, <1>4 DEF Order
  <1>9. Order(r.mapInfo, r.vRandom)
    <2>1. \A k \in DOMAIN r.mapInfo : r.mapInfo[k].pos \in 1..(L - 1) /\ r.vRandom[r.mapInfo[k].pos] = k
      <3> SUFFICES ASSUME NEW k \in DOMAIN r.mapInfo
                   PROVE  r.mapInfo[k].pos \in 1..(L - 1) /\ r.vRandom[r.mapInfo[k].pos] = k
        OBVIOUS
      <3>1. k # n /\ k \in DOMAIN s.mapInfo /\ r.mapInfo[k] = s.mapInfo[k]
        BY <1>2, <1>5
      <3>2. s.mapInfo[k].pos \in 1..L /\ s.vRandom[s.mapInfo[k].pos] = k
        BY <3>1, <1>2 DEF Order
      <3>3. s.mapInfo[k].pos # L
        BY <3>1, <3>2, <1>2
      <3>4. s.mapInfo[k].pos \in 1..(L - 1)
        BY <3>2, <3>3, <1>1
      <3> QED
        BY <3>1, <3>2, <3>4, <1>8
    <2>2. \A i \in 1..(L - 1) : r.vRandom[i] \in DOMAIN r.mapInfo /\ r.mapInfo[r.vRandom[i]].pos = i
      <3> SUFFICES ASSUME NEW i \in 1..(L - 1)
                   PROVE  r.vRandom[i] \in DOMAIN r.mapInfo /\ r.mapInfo[r.vRandom[i]].pos = i
        OBVIOUS
      <3>1. s.vRandom[i] \in DOMAIN s.mapInfo /\ s.mapInfo[s.vRandom[i]].pos = i
        BY <1>1, <1>2 DEF Order
      <3>2. s.mapInfo[n].pos = L
        BY <1>1, <1>2 DEF Order
      <3>3. s.vRandom[i] # n
        BY <3>1, <3>2, <1>1
      <3>4. r.vRandom[i] = s.vRandom[i]
        BY <1>8
      <3>5. s.vRandom[i] \in DOMAIN m.mapInfo \ {n}
        BY <3>1, <3>3, <1>2
      <3> QED
        BY <3>1, <3>4, <3>5, <1>5
    <2> QED
      BY <2>1, <2>2, <1>8 DEF Order
  <1>10. NewTable(r.mapInfo, r.vvNew)
    <2>1. NewTable(m.mapInfo, m.vvNew)
      BY DEF Consistent
    <2>2. \A t \in NewSlot : m.vvNew[t] # n
      BY <2>1, NoSlot
    <2>3. \A t \in NewSlot : m.vvNew[t] # None => m.vvNew[t] \in DOMAIN r.mapInfo
      BY <2>1, <2>2, <1>5 DEF NewTable
    <2>4. NewTable(r.mapInfo, m.vvNew)
      BY <2>1, <2>3, <1>5, <1>6, NewTableShrinks
    <2> QED
      BY <2>4, <1>4
  <1>11. TriedTable(r.mapInfo, r.vvTried)
    <2>1. TriedTable(m.mapInfo, m.vvTried) /\ r.vvTried = m.vvTried
      BY <1>4 DEF Consistent
    <2>2. \A t \in TriedSlot : m.vvTried[t] # None =>
            /\ m.vvTried[t] \in DOMAIN r.mapInfo
            /\ r.mapInfo[m.vvTried[t]].tried
            /\ GetTriedSlot[r.mapInfo[m.vvTried[t]].addr] = t
      <3> SUFFICES ASSUME NEW t \in TriedSlot, m.vvTried[t] # None
                   PROVE  /\ m.vvTried[t] \in DOMAIN r.mapInfo
                          /\ r.mapInfo[m.vvTried[t]].tried
                          /\ GetTriedSlot[r.mapInfo[m.vvTried[t]].addr] = t
        OBVIOUS
      <3>1. /\ m.vvTried[t] \in DOMAIN m.mapInfo /\ m.mapInfo[m.vvTried[t]].tried
            /\ GetTriedSlot[m.mapInfo[m.vvTried[t]].addr] = t
        BY <2>1 DEF TriedTable
      <3>2. m.vvTried[t] \in DOMAIN m.mapInfo \ {n}
        BY <3>1
      <3> QED
        BY <3>1, <3>2, <1>5, <1>6 DEF SameEntry
    <2>3. \A k \in DOMAIN r.mapInfo : r.mapInfo[k].tried =>
            r.mapInfo[k].good /\ m.vvTried[GetTriedSlot[r.mapInfo[k].addr]] = k
      <3> SUFFICES ASSUME NEW k \in DOMAIN m.mapInfo \ {n}, r.mapInfo[k].tried
                   PROVE  r.mapInfo[k].good /\ m.vvTried[GetTriedSlot[r.mapInfo[k].addr]] = k
        BY <1>5
      <3>1. m.mapInfo[k].tried => m.mapInfo[k].good /\ m.vvTried[GetTriedSlot[m.mapInfo[k].addr]] = k
        BY <2>1 DEF TriedTable
      <3> QED
        BY <3>1, <1>5, <1>6 DEF SameEntry
    <2> QED
      BY <2>1, <2>2, <2>3 DEF TriedTable
  <1>12. Counts(r.mapInfo, r.vRandom, r.nNew, r.nTried, d)
    <2>1. Counts(m.mapInfo, m.vRandom, m.nNew, m.nTried, d)
      BY DEF Consistent
    <2>2. NewOf(r.mapInfo) = NewOf(m.mapInfo) \ {n} /\ n \in NewOf(m.mapInfo)
      BY <1>5, <1>6 DEF NewOf, SameEntry
    <2>3. TriedOf(r.mapInfo) = TriedOf(m.mapInfo)
      BY <1>5, <1>6 DEF TriedOf, SameEntry
    <2>4. IsFiniteSet(NewOf(m.mapInfo)) /\ Cardinality(NewOf(m.mapInfo)) \in Nat
      BY <2>1, TablesDivide DEF Counts
    <2>5. Cardinality(NewOf(r.mapInfo)) = Cardinality(NewOf(m.mapInfo)) - 1
      BY ZenonT(30), <2>2, <2>4, FS_RemoveElement
    <2>6. /\ IsFiniteSet(DOMAIN r.mapInfo)
          /\ Cardinality(DOMAIN r.mapInfo) = Cardinality(DOMAIN m.mapInfo) - 1
      BY ZenonT(30), <2>1, <1>5, FS_RemoveElement DEF Counts
    <2> QED
      BY <2>1, <2>3, <2>4, <2>5, <2>6, <1>4, <1>8 DEF Counts, L
  <1>13. Placed(r.mapInfo, X)
    BY <1>5, <1>6 DEF Consistent, Placed, SameEntry
  <1> QED
    BY <1>4, <1>5, <1>6, <1>7, <1>9, <1>10, <1>11, <1>12, <1>13 DEF Consistent

-----------------------------------------------------------------------------
(* Places in the new table. *)

\* A new nRefCount matters to the new table only.
LEMMA RefsOnly ==
  ASSUME NEW mi, NEW n \in DOMAIN mi, NEW x \in Int,
         NEW ma, NEW id, NEW vr, NEW vt, Maps(mi, ma, id), Order(mi, vr), TriedTable(mi, vt),
         NEW mj, mj = [mi EXCEPT ![n].refs = x]
  PROVE  /\ DOMAIN mj = DOMAIN mi
         /\ \A k \in DOMAIN mi \ {n} : mj[k] = mi[k]
         /\ mj[n] \in Info /\ mj[n].addr = mi[n].addr /\ mj[n].source = mi[n].source
         /\ mj[n].tried = mi[n].tried /\ mj[n].pos = mi[n].pos /\ mj[n].good = mi[n].good
         /\ mj[n].refs = x
         /\ Maps(mj, ma, id) /\ Order(mj, vr) /\ TriedTable(mj, vt)
         /\ NewOf(mj) = NewOf(mi) /\ TriedOf(mj) = TriedOf(mi)
  <1>1. /\ DOMAIN mj = DOMAIN mi
        /\ \A k \in DOMAIN mi \ {n} : mj[k] = mi[k]
        /\ mj[n] = [mi[n] EXCEPT !.refs = x]
    OBVIOUS
  <1>2. mi[n] \in Info
    BY DEF Maps
  <1>3. /\ mj[n] \in Info /\ mj[n].addr = mi[n].addr /\ mj[n].source = mi[n].source
        /\ mj[n].tried = mi[n].tried /\ mj[n].pos = mi[n].pos /\ mj[n].good = mi[n].good
        /\ mj[n].refs = x
    BY ZenonT(30), <1>1, <1>2, RefsChange
  <1>4. \A k \in DOMAIN mi : /\ mj[k] \in Info /\ mj[k].addr = mi[k].addr /\ mj[k].tried = mi[k].tried
                             /\ mj[k].pos = mi[k].pos /\ mj[k].good = mi[k].good
    BY <1>1, <1>3 DEF Maps
  <1>5. Maps(mj, ma, id)
    BY <1>1, <1>4 DEF Maps
  <1>6. Order(mj, vr)
    BY <1>1, <1>4 DEF Order
  <1>7. TriedTable(mj, vt)
    BY <1>1, <1>4 DEF TriedTable
  <1>8. NewOf(mj) = NewOf(mi) /\ TriedOf(mj) = TriedOf(mi)
    BY <1>1, <1>4 DEF NewOf, TriedOf
  <1> QED
    BY <1>1, <1>3, <1>5, <1>6, <1>7, <1>8

\* Emptying an occupied slot.
LEMMA NewTableClear ==
  ASSUME NEW mi, \A k \in DOMAIN mi : k \in Nat,
         NEW vn, NewTable(mi, vn), NEW slot \in NewSlot, vn[slot] # None,
         NEW mj, DOMAIN mj = DOMAIN mi, \A k \in DOMAIN mi \ {vn[slot]} : mj[k] = mi[k],
         mj[vn[slot]].addr = mi[vn[slot]].addr, mj[vn[slot]].tried = mi[vn[slot]].tried,
         mj[vn[slot]].refs = mi[vn[slot]].refs - 1,
         NEW vm, vm = [vn EXCEPT ![slot] = None]
  PROVE  NewTable(mj, vm) /\ mi[vn[slot]].refs >= 1
  <1> DEFINE n == vn[slot]
  <1>1. n \in DOMAIN mi /\ n \in Nat /\ n # None
    BY DEF NewTable, None
  <1>2. /\ vm \in [NewSlot -> Nat \cup {None}]
        /\ vm[slot] = None
        /\ \A s \in NewSlot \ {slot} : vm[s] = vn[s]
    BY DEF NewTable
  <1>3. SlotsWith(vm, n) = SlotsWith(vn, n) \ {slot} /\ slot \in SlotsWith(vn, n)
    BY <1>1, <1>2 DEF SlotsWith
  <1>4. \A k \in DOMAIN mi \ {n} : k # None => SlotsWith(vm, k) = SlotsWith(vn, k)
    BY <1>2 DEF SlotsWith
  <1>5. \A k \in DOMAIN mi : mi[k].refs = Cardinality(SlotsWith(vn, k)) /\ mi[k].refs <= MaxRefs
    BY DEF NewTable
  <1>6. IsFiniteSet(SlotsWith(vn, n)) /\ Cardinality(SlotsWith(vn, n)) \in Nat
    BY SlotsFinite
  <1>7. IsFiniteSet(SlotsWith(vm, n)) /\ Cardinality(SlotsWith(vm, n)) \in Nat
    BY SlotsFinite
  <1>8. \A s \in NewSlot : vm[s] # None =>
          vm[s] \in DOMAIN mj /\ ~mj[vm[s]].tried /\ s = SlotIn(mj[vm[s]].addr, s[1])
    BY <1>1, <1>2 DEF NewTable
  <1>9. \A k \in DOMAIN mi : k # None => mj[k].refs = Cardinality(SlotsWith(vm, k)) /\ mj[k].refs <= MaxRefs
    <2> HIDE DEF n
    <2>1. Cardinality(SlotsWith(vm, n)) = Cardinality(SlotsWith(vn, n)) - 1
      BY ZenonT(30), <1>3, <1>6, FS_RemoveElement
    <2>2. mj[n].refs = mi[n].refs - 1
      BY DEF n
    <2>3. \A k \in DOMAIN mi \ {n} : mj[k] = mi[k]
      BY DEF n
    <2>4. MaxRefs \in Nat
      BY AddrManAssumption
    <2> SUFFICES ASSUME NEW k \in DOMAIN mi, k # None
                 PROVE  mj[k].refs = Cardinality(SlotsWith(vm, k)) /\ mj[k].refs <= MaxRefs
      BY ZenonT(30)
    <2>5. CASE k = n
      BY <2>1, <2>2, <2>4, <2>5, <1>1, <1>5, <1>6
    <2>6. CASE k # n
      BY ZenonT(30), <2>3, <2>6, <1>4, <1>5
    <2> QED
      BY <2>5, <2>6
  <1>10. mi[n].refs >= 1
    <2> HIDE DEF n
    <2>1. Cardinality(SlotsWith(vm, n)) = Cardinality(SlotsWith(vn, n)) - 1
      BY ZenonT(30), <1>3, <1>6, FS_RemoveElement
    <2> QED
      BY <2>1, <1>1, <1>5, <1>6, <1>7
  <1>11. \A k \in DOMAIN mi : k # None
    BY DEF None
  <1> QED
    BY ZenonT(30), <1>2, <1>8, <1>9, <1>10, <1>11 DEF NewTable

\* Filling an empty slot with an entry whose place it is.
LEMMA NewTableFill ==
  ASSUME NEW mi, \A k \in DOMAIN mi : k \in Nat,
         NEW vn, NewTable(mi, vn), NEW slot \in NewSlot, vn[slot] = None,
         NEW n \in DOMAIN mi, ~mi[n].tried, slot = SlotIn(mi[n].addr, slot[1]), mi[n].refs < MaxRefs,
         NEW mj, DOMAIN mj = DOMAIN mi, \A k \in DOMAIN mi \ {n} : mj[k] = mi[k],
         mj[n].addr = mi[n].addr, mj[n].tried = mi[n].tried, mj[n].refs = mi[n].refs + 1,
         NEW vm, vm = [vn EXCEPT ![slot] = n]
  PROVE  NewTable(mj, vm)
  <1>1. n \in Nat /\ \A k \in DOMAIN mi : k # None
    BY DEF None
  <1>2. /\ vm \in [NewSlot -> Nat \cup {None}]
        /\ vm[slot] = n
        /\ \A s \in NewSlot \ {slot} : vm[s] = vn[s]
    BY <1>1 DEF NewTable
  <1>3. SlotsWith(vm, n) = SlotsWith(vn, n) \cup {slot} /\ slot \notin SlotsWith(vn, n)
    BY <1>1, <1>2 DEF SlotsWith
  <1>4. \A k \in DOMAIN mi \ {n} : SlotsWith(vm, k) = SlotsWith(vn, k)
    BY <1>1, <1>2 DEF SlotsWith
  <1>5. \A k \in DOMAIN mi : mi[k].refs = Cardinality(SlotsWith(vn, k)) /\ mi[k].refs <= MaxRefs
    BY DEF NewTable
  <1>6. IsFiniteSet(SlotsWith(vn, n)) /\ Cardinality(SlotsWith(vn, n)) \in Nat
    BY SlotsFinite
  <1>7. Cardinality(SlotsWith(vm, n)) = Cardinality(SlotsWith(vn, n)) + 1
    BY ZenonT(30), <1>3, <1>6, FS_AddElement
  <1>8. \A s \in NewSlot : vm[s] # None =>
          vm[s] \in DOMAIN mj /\ ~mj[vm[s]].tried /\ s = SlotIn(mj[vm[s]].addr, s[1])
    BY <1>2 DEF NewTable
  <1>9. \A k \in DOMAIN mi : mj[k].refs = Cardinality(SlotsWith(vm, k)) /\ mj[k].refs <= MaxRefs
    <2> SUFFICES ASSUME NEW k \in DOMAIN mi
                 PROVE  mj[k].refs = Cardinality(SlotsWith(vm, k)) /\ mj[k].refs <= MaxRefs
      BY ZenonT(30)
    <2>1. CASE k = n
      BY <2>1, <1>5, <1>6, <1>7, AddrManAssumption
    <2>2. CASE k # n
      BY ZenonT(30), <2>2, <1>4, <1>5
    <2> QED
      BY <2>1, <2>2
  <1> QED
    BY ZenonT(30), <1>2, <1>8, <1>9 DEF NewTable

LEMMA ClearNewConsistent ==
  ASSUME NEW m, NEW X, NEW d \in Int, Consistent(m, X, d), NEW slot \in NewSlot,
         NEW r, r = ClearNew(m, slot)
  PROVE  /\ Consistent(r, X, d)
         /\ r.vvNew[slot] = None
         /\ \A k \in DOMAIN m.mapInfo : k # m.vvNew[slot] => SameEntry(m.mapInfo, r.mapInfo, k)
         /\ r.vvTried = m.vvTried
  <1> DEFINE n == m.vvNew[slot]
  <1> DEFINE x == m.mapInfo[n].refs - 1
  <1> DEFINE mi == [m.mapInfo EXCEPT ![n].refs = x]
  <1> DEFINE vn == [m.vvNew EXCEPT ![slot] = None]
  <1> DEFINE c == [m EXCEPT !.mapInfo = mi, !.vvNew = vn]
  <1>F. Fields(m)
    BY DEF Consistent
  <1>M. Maps(m.mapInfo, m.mapAddr, m.nIdCount)
    BY DEF Consistent
  <1>O. Order(m.mapInfo, m.vRandom)
    BY DEF Consistent
  <1>N. NewTable(m.mapInfo, m.vvNew)
    BY DEF Consistent
  <1>T. TriedTable(m.mapInfo, m.vvTried)
    BY DEF Consistent
  <1>C. Counts(m.mapInfo, m.vRandom, m.nNew, m.nTried, d)
    BY DEF Consistent
  <1>P. Placed(m.mapInfo, X)
    BY DEF Consistent
  <1>1. CASE n = None
    <2>1. r = m
      BY <1>1 DEF ClearNew
    <2> QED
      BY <2>1, <1>M, <1>1 DEF SameEntry, Maps
  <1>2. CASE n # None
    <2>1. /\ n \in DOMAIN m.mapInfo /\ m.mapInfo[n] \in Info
          /\ ~m.mapInfo[n].tried /\ \A k \in DOMAIN m.mapInfo : k \in Nat
      BY <1>M, <1>N, <1>2 DEF NewTable, Maps
    <2>2. /\ c.mapInfo = mi
          /\ c.vvNew = vn
          /\ c.mapAddr = m.mapAddr /\ c.vRandom = m.vRandom /\ c.nIdCount = m.nIdCount
          /\ c.nNew = m.nNew /\ c.nTried = m.nTried /\ c.vvTried = m.vvTried
          /\ Fields(c)
      <3>1. c = [m EXCEPT !.mapInfo = mi, !.vvNew = vn]
        OBVIOUS
      <3> HIDE DEF mi, vn, c
      <3> QED
        BY ZenonT(30), <3>1, <1>F DEF Fields
    <2>3. x \in Int
      BY <2>1 DEF Info
    <2>4. r = IF c.mapInfo[n].refs = 0 THEN Delete(c, n) ELSE c
      BY <1>2 DEF ClearNew
    <2> HIDE DEF c, n, x
    <2>5. /\ DOMAIN c.mapInfo = DOMAIN m.mapInfo
          /\ \A k \in DOMAIN m.mapInfo \ {n} : c.mapInfo[k] = m.mapInfo[k]
          /\ c.mapInfo[n].addr = m.mapInfo[n].addr /\ c.mapInfo[n].tried = m.mapInfo[n].tried
          /\ c.mapInfo[n].refs = x
          /\ Maps(c.mapInfo, c.mapAddr, c.nIdCount) /\ Order(c.mapInfo, c.vRandom)
          /\ TriedTable(c.mapInfo, c.vvTried)
          /\ NewOf(c.mapInfo) = NewOf(m.mapInfo) /\ TriedOf(c.mapInfo) = TriedOf(m.mapInfo)
      BY <1>M, <1>O, <1>T, <2>1, <2>2, <2>3, RefsOnly
    <2>6. NewTable(c.mapInfo, c.vvNew) /\ m.mapInfo[n].refs >= 1
      <3>1. /\ \A k \in DOMAIN m.mapInfo \ {m.vvNew[slot]} : c.mapInfo[k] = m.mapInfo[k]
            /\ c.mapInfo[m.vvNew[slot]].addr = m.mapInfo[m.vvNew[slot]].addr
            /\ c.mapInfo[m.vvNew[slot]].tried = m.mapInfo[m.vvNew[slot]].tried
            /\ c.mapInfo[m.vvNew[slot]].refs = m.mapInfo[m.vvNew[slot]].refs - 1
            /\ m.vvNew[slot] # None
        BY <1>2, <2>5 DEF n, x
      <3>2. NewTable(c.mapInfo, vn) /\ m.mapInfo[m.vvNew[slot]].refs >= 1
        BY ZenonT(30), <1>N, <2>1, <2>5, <3>1, NewTableClear
      <3> QED
        BY <2>2, <3>2 DEF n
    <2>7. Counts(c.mapInfo, c.vRandom, c.nNew, c.nTried, d)
      BY <1>C, <2>2, <2>5 DEF Counts
    <2>8. Placed(c.mapInfo, X \cup {n})
      BY <1>P, <2>5 DEF Placed
    <2>9. Consistent(c, X \cup {n}, d)
      BY <2>2, <2>5, <2>6, <2>7, <2>8 DEF Consistent
    <2>10. c.vvNew[slot] = None
      BY <1>N, <2>2 DEF NewTable
    <2>11. \A k \in DOMAIN m.mapInfo \ {n} : SameEntry(m.mapInfo, c.mapInfo, k)
      BY <1>M, <2>5 DEF SameEntry, Maps
    <2>12. CASE x = 0
      <3>1. r = Delete(c, n)
        BY <2>4, <2>5, <2>12
      <3>2. /\ Consistent(r, X \cup {n}, d)
            /\ DOMAIN r.mapInfo = DOMAIN c.mapInfo \ {n}
            /\ \A k \in DOMAIN c.mapInfo \ {n} : SameEntry(c.mapInfo, r.mapInfo, k)
            /\ r.vvNew = c.vvNew /\ r.vvTried = c.vvTried
        BY <3>1, <2>1, <2>5, <2>9, <2>12, DeleteConsistent
      <3>3. Placed(r.mapInfo, X)
        BY <3>2 DEF Consistent, Placed
      <3>4. Consistent(r, X, d)
        BY <3>2, <3>3 DEF Consistent
      <3>5. \A k \in DOMAIN m.mapInfo \ {n} : SameEntry(m.mapInfo, r.mapInfo, k)
        BY <3>2, <2>5, <2>11 DEF SameEntry
      <3> QED
        BY <3>2, <3>4, <3>5, <2>2, <2>10 DEF n
    <2>13. CASE x # 0
      <3>1. r = c
        BY <2>4, <2>5, <2>13
      <3>2. x >= 1
        BY <2>1, <2>3, <2>6, <2>13 DEF x, Info
      <3>3. Placed(c.mapInfo, X)
        BY <3>2, <2>5, <1>P DEF Placed
      <3>4. Consistent(r, X, d)
        BY <3>1, <3>3, <2>9 DEF Consistent
      <3> QED
        BY <3>1, <3>4, <2>2, <2>10, <2>11 DEF n
    <2> QED
      BY <2>12, <2>13
  <1> QED
    BY <1>1, <1>2

\* Add_ gives an entry one more place.
LEMMA AddRefConsistent ==
  ASSUME NEW m, NEW X, NEW d \in Int, Consistent(m, X, d), NEW slot \in NewSlot, m.vvNew[slot] = None,
         NEW n \in DOMAIN m.mapInfo, ~m.mapInfo[n].tried, slot = SlotIn(m.mapInfo[n].addr, slot[1]),
         m.mapInfo[n].refs < MaxRefs,
         NEW r, r = AddRef(m, n, slot),
         NEW Y, Y = X \ {n}
  PROVE  /\ Consistent(r, Y, d)
         /\ DOMAIN r.mapInfo = DOMAIN m.mapInfo
         /\ \A k \in DOMAIN m.mapInfo \ {n} : r.mapInfo[k] = m.mapInfo[k]
         /\ r.mapInfo[n].addr = m.mapInfo[n].addr
         /\ r.nNew = m.nNew
         /\ r.vvTried = m.vvTried
  <1> DEFINE x == m.mapInfo[n].refs + 1
  <1>F. Fields(m)
    BY DEF Consistent
  <1>M. Maps(m.mapInfo, m.mapAddr, m.nIdCount)
    BY DEF Consistent
  <1>O. Order(m.mapInfo, m.vRandom)
    BY DEF Consistent
  <1>N. NewTable(m.mapInfo, m.vvNew)
    BY DEF Consistent
  <1>T. TriedTable(m.mapInfo, m.vvTried)
    BY DEF Consistent
  <1>C. Counts(m.mapInfo, m.vRandom, m.nNew, m.nTried, d)
    BY DEF Consistent
  <1>P. Placed(m.mapInfo, X)
    BY DEF Consistent
  <1>1. /\ r.mapInfo = [m.mapInfo EXCEPT ![n].refs = x]
        /\ r.vvNew = [m.vvNew EXCEPT ![slot] = n]
        /\ r.mapAddr = m.mapAddr /\ r.vRandom = m.vRandom /\ r.nIdCount = m.nIdCount
        /\ r.nNew = m.nNew /\ r.nTried = m.nTried /\ r.vvTried = m.vvTried
        /\ Fields(r)
    BY ZenonT(30), <1>F DEF Fields, AddRef
  <1>2. x \in Int /\ x >= 1
    <2>1. m.mapInfo[n].refs \in Nat
      BY <1>N, SlotsFinite DEF NewTable
    <2> QED
      BY <2>1
  <1> HIDE DEF x
  <1>3. /\ DOMAIN r.mapInfo = DOMAIN m.mapInfo
        /\ \A k \in DOMAIN m.mapInfo \ {n} : r.mapInfo[k] = m.mapInfo[k]
        /\ r.mapInfo[n].addr = m.mapInfo[n].addr /\ r.mapInfo[n].tried = m.mapInfo[n].tried
        /\ r.mapInfo[n].refs = x
        /\ Maps(r.mapInfo, r.mapAddr, r.nIdCount) /\ Order(r.mapInfo, r.vRandom)
        /\ TriedTable(r.mapInfo, r.vvTried)
        /\ NewOf(r.mapInfo) = NewOf(m.mapInfo) /\ TriedOf(r.mapInfo) = TriedOf(m.mapInfo)
    BY <1>M, <1>O, <1>T, <1>1, <1>2, RefsOnly
  <1>4. NewTable(r.mapInfo, r.vvNew)
    <2>1. \A k \in DOMAIN m.mapInfo : k \in Nat
      BY <1>M DEF Maps
    <2>2. r.mapInfo[n].refs = m.mapInfo[n].refs + 1
      BY <1>3 DEF x
    <2>3. NewTable(m.mapInfo, m.vvNew)
      BY <1>N
    <2>4. /\ DOMAIN r.mapInfo = DOMAIN m.mapInfo
          /\ \A k \in DOMAIN m.mapInfo \ {n} : r.mapInfo[k] = m.mapInfo[k]
          /\ r.mapInfo[n].addr = m.mapInfo[n].addr /\ r.mapInfo[n].tried = m.mapInfo[n].tried
      BY <1>3
    <2>5. r.vvNew = [m.vvNew EXCEPT ![slot] = n]
      BY <1>1
    <2> QED
      BY <2>1, <2>2, <2>3, <2>4, <2>5, NewTableFill
  <1>5. Counts(r.mapInfo, r.vRandom, r.nNew, r.nTried, d)
    BY <1>C, <1>1, <1>3 DEF Counts
  <1>6. Placed(r.mapInfo, X \ {n})
    BY <1>P, <1>2, <1>3 DEF Placed
  <1> QED
    BY <1>1, <1>3, <1>4, <1>5, <1>6 DEF Consistent

\* nNew catches up with k entries.
LEMMA CountShift ==
  ASSUME NEW m, NEW X, NEW d \in Int, Consistent(m, X, d), NEW k \in Int, NEW e \in Int, e = d - k,
         NEW r, r = [m EXCEPT !.nNew = m.nNew + k]
  PROVE  /\ Consistent(r, X, e)
         /\ r.mapInfo = m.mapInfo /\ r.vvNew = m.vvNew /\ r.vvTried = m.vvTried
         /\ r.nIdCount = m.nIdCount
  <1>0. Fields(m) /\ Counts(m.mapInfo, m.vRandom, m.nNew, m.nTried, d)
    BY DEF Consistent
  <1>1. /\ r.mapInfo = m.mapInfo /\ r.mapAddr = m.mapAddr /\ r.vRandom = m.vRandom
        /\ r.nIdCount = m.nIdCount /\ r.nTried = m.nTried /\ r.vvNew = m.vvNew /\ r.vvTried = m.vvTried
        /\ r.nNew = m.nNew + k
        /\ Fields(r)
    BY <1>0 DEF Fields
  <1>2. Counts(r.mapInfo, r.vRandom, r.nNew, r.nTried, e)
    <2>1. Cardinality(NewOf(m.mapInfo)) \in Nat
      BY <1>0, TablesDivide DEF Counts
    <2> QED
      BY <1>0, <1>1, <2>1 DEF Counts
  <1> QED
    BY <1>1, <1>2 DEF Consistent

LEMMA EnterNewConsistent ==
  ASSUME NEW m, NEW X, NEW d \in Int, Consistent(m, X, d), NEW slot \in NewSlot, m.vvNew[slot] = None,
         NEW n \in DOMAIN m.mapInfo, ~m.mapInfo[n].tried, slot = SlotIn(m.mapInfo[n].addr, slot[1]),
         m.mapInfo[n].refs = 0,
         NEW r, r = EnterNew(m, n, slot),
         NEW Y, Y = X \ {n}, NEW e \in Int, e = d - 1
  PROVE  /\ Consistent(r, Y, e)
         /\ DOMAIN r.mapInfo = DOMAIN m.mapInfo
         /\ \A k \in DOMAIN m.mapInfo \ {n} : r.mapInfo[k] = m.mapInfo[k]
         /\ r.mapInfo[n].addr = m.mapInfo[n].addr
         /\ r.vvTried = m.vvTried
  <1> DEFINE a == AddRef(m, n, slot)
  <1> DEFINE mi == [m.mapInfo EXCEPT ![n].refs = 1]
  <1> DEFINE vn == [m.vvNew EXCEPT ![slot] = n]
  <1>1. a = [m EXCEPT !.mapInfo = mi, !.vvNew = vn]
    BY DEF AddRef
  <1>2. r = [m EXCEPT !.mapInfo = mi, !.vvNew = vn, !.nNew = m.nNew + 1]
    BY DEF EnterNew
  <1>3. Fields(m)
    BY DEF Consistent
  <1>4. MaxRefs > 0
    BY AddrManAssumption
  <1>5. a = AddRef(m, n, slot)
    OBVIOUS
  <1> HIDE DEF a, mi, vn
  <1>6. r = [a EXCEPT !.nNew = a.nNew + 1]
    BY <1>1, <1>2, <1>3 DEF Fields
  <1>7. /\ Consistent(a, Y, d)
        /\ DOMAIN a.mapInfo = DOMAIN m.mapInfo
        /\ \A k \in DOMAIN m.mapInfo \ {n} : a.mapInfo[k] = m.mapInfo[k]
        /\ a.mapInfo[n].addr = m.mapInfo[n].addr
        /\ a.vvTried = m.vvTried
    BY <1>4, <1>5, AddRefConsistent
  <1>8. Consistent(r, Y, e) /\ r.mapInfo = a.mapInfo /\ r.vvTried = a.vvTried
    BY <1>6, <1>7, CountShift
  <1> QED
    BY <1>7, <1>8

-----------------------------------------------------------------------------
(* From one table to the other. *)

\* The buckets MakeTried visits are the slots that hold the entry.
LEMMA BucketsAreSlots ==
  ASSUME NEW m, NewTable(m.mapInfo, m.vvNew), NEW n \in DOMAIN m.mapInfo, n # None,
         m.mapInfo[n] \in Info
  PROVE  Cardinality(BucketsOf(m, n)) = Cardinality(SlotsWith(m.vvNew, n))
  <1> DEFINE B == BucketsOf(m, n)
  <1> DEFINE S == SlotsWith(m.vvNew, n)
  <1> DEFINE f == [b \in B |-> SlotIn(m.mapInfo[n].addr, b)]
  <1>1. m.mapInfo[n].addr \in Service
    BY DEF Info
  <1>2. \A b \in NewBucket : SlotIn(m.mapInfo[n].addr, b) \in NewSlot /\ SlotIn(m.mapInfo[n].addr, b)[1] = b
    BY <1>1, AddrManAssumption DEF SlotIn, NewSlot
  <1>3. f \in [B -> S]
    BY <1>2 DEF BucketsOf, SlotsWith
  <1>4. \A a, b \in B : f[a] = f[b] => a = b
    BY <1>2 DEF BucketsOf
  <1>5. \A s \in S : \E b \in B : f[b] = s
    <2> SUFFICES ASSUME NEW s \in S PROVE \E b \in B : f[b] = s
      OBVIOUS
    <2>1. s \in NewSlot /\ m.vvNew[s] = n
      BY DEF SlotsWith
    <2>2. s = SlotIn(m.mapInfo[n].addr, s[1])
      BY <2>1 DEF NewTable
    <2>3. s[1] \in NewBucket
      BY <2>1 DEF NewSlot
    <2>4. s[1] \in B
      BY <2>1, <2>2, <2>3 DEF BucketsOf
    <2> QED
      BY <2>2, <2>4
  <1>6. IsFiniteSet(B)
    <2>1. B \in SUBSET NewBucket
      BY DEF BucketsOf
    <2> QED
      BY <2>1, AddrManAssumption, FS_Subset
  <1> HIDE DEF B, S
  <1>7. f \in Bijection(B, S)
    BY <1>3, <1>4, <1>5 DEF Bijection, Injection, IsInjective, Surjection
  <1>8. ExistsBijection(B, S)
    BY <1>7 DEF ExistsBijection
  <1>9. Cardinality(S) = Cardinality(B)
    BY <1>6, <1>8, FS_Bijection
  <1> QED
    BY <1>9 DEF B, S

\* The loop of MakeTried takes the entry out of the new table.
LEMMA LeaveNewConsistent ==
  ASSUME NEW m, NEW X, NEW d \in Int, Consistent(m, X, d),
         NEW n \in DOMAIN m.mapInfo, ~m.mapInfo[n].tried,
         NEW r, r = LeaveNew(m, n),
         NEW Y, Y = X \cup {n}, NEW e \in Int, e = d + 1
  PROVE  /\ Consistent(r, Y, e)
         /\ DOMAIN r.mapInfo = DOMAIN m.mapInfo
         /\ \A k \in DOMAIN m.mapInfo \ {n} : r.mapInfo[k] = m.mapInfo[k]
         /\ r.mapInfo[n].addr = m.mapInfo[n].addr
         /\ r.mapInfo[n].good = m.mapInfo[n].good
         /\ ~r.mapInfo[n].tried
         /\ r.mapInfo[n].refs = 0
         /\ r.vvTried = m.vvTried
  <1> DEFINE x == m.mapInfo[n].refs - Cardinality(BucketsOf(m, n))
  <1> DEFINE mi == [m.mapInfo EXCEPT ![n].refs = x]
  <1> DEFINE vn == [s \in NewSlot |->
                      IF m.vvNew[s] = n /\ s = SlotIn(m.mapInfo[n].addr, s[1]) THEN None ELSE m.vvNew[s]]
  <1>F. Fields(m)
    BY DEF Consistent
  <1>M. Maps(m.mapInfo, m.mapAddr, m.nIdCount)
    BY DEF Consistent
  <1>O. Order(m.mapInfo, m.vRandom)
    BY DEF Consistent
  <1>N. NewTable(m.mapInfo, m.vvNew)
    BY DEF Consistent
  <1>T. TriedTable(m.mapInfo, m.vvTried)
    BY DEF Consistent
  <1>C. Counts(m.mapInfo, m.vRandom, m.nNew, m.nTried, d)
    BY DEF Consistent
  <1>P. Placed(m.mapInfo, X)
    BY DEF Consistent
  <1>1. r = [m EXCEPT !.vvNew = vn, !.mapInfo = mi, !.nNew = m.nNew - 1]
    BY DEF LeaveNew
  <1>2. x = 0
    <2>1. n # None /\ m.mapInfo[n] \in Info
      BY <1>M DEF Maps, None
    <2>2. Cardinality(BucketsOf(m, n)) = Cardinality(SlotsWith(m.vvNew, n))
      BY <1>N, <2>1, BucketsAreSlots
    <2>3. m.mapInfo[n].refs = Cardinality(SlotsWith(m.vvNew, n))
      BY <1>N DEF NewTable
    <2>4. Cardinality(SlotsWith(m.vvNew, n)) \in Nat
      BY SlotsFinite
    <2> QED
      BY <2>2, <2>3, <2>4
  <1>3. /\ vn \in [NewSlot -> Nat \cup {None}]
        /\ \A s \in NewSlot : vn[s] = IF m.vvNew[s] = n THEN None ELSE m.vvNew[s]
    <2>1. n # None
      BY <1>M DEF Maps, None
    <2>2. m.vvNew \in [NewSlot -> Nat \cup {None}]
      BY <1>N DEF NewTable
    <2>3. \A s \in NewSlot : m.vvNew[s] = n => s = SlotIn(m.mapInfo[n].addr, s[1])
      BY <1>N, <2>1 DEF NewTable
    <2> QED
      BY <2>2, <2>3
  <1>4. mi = [m.mapInfo EXCEPT ![n].refs = 0]
    BY <1>2
  <1> HIDE DEF x, mi, vn
  <1>5. /\ r.mapInfo = mi /\ r.vvNew = vn /\ r.nNew = m.nNew - 1
        /\ r.mapAddr = m.mapAddr /\ r.vRandom = m.vRandom /\ r.nIdCount = m.nIdCount
        /\ r.nTried = m.nTried /\ r.vvTried = m.vvTried
        /\ Fields(r)
    BY ZenonT(30), <1>F, <1>1 DEF Fields
  <1>6. /\ DOMAIN mi = DOMAIN m.mapInfo
        /\ \A k \in DOMAIN m.mapInfo \ {n} : mi[k] = m.mapInfo[k]
        /\ mi[n].addr = m.mapInfo[n].addr /\ mi[n].tried = m.mapInfo[n].tried
        /\ mi[n].good = m.mapInfo[n].good /\ mi[n].refs = 0
        /\ Maps(mi, m.mapAddr, m.nIdCount) /\ Order(mi, m.vRandom) /\ TriedTable(mi, m.vvTried)
        /\ NewOf(mi) = NewOf(m.mapInfo) /\ TriedOf(mi) = TriedOf(m.mapInfo)
    BY <1>M, <1>O, <1>T, <1>4, RefsOnly
  <1>7. NewTable(mi, vn)
    <2>1. \A s \in NewSlot : vn[s] # None =>
            /\ vn[s] \in DOMAIN mi
            /\ ~mi[vn[s]].tried
            /\ s = SlotIn(mi[vn[s]].addr, s[1])
      BY <1>N, <1>3, <1>6 DEF NewTable
    <2>2. \A k \in DOMAIN m.mapInfo \ {n} : SlotsWith(vn, k) = SlotsWith(m.vvNew, k)
      <3>1. \A k \in DOMAIN m.mapInfo : k # None
        BY <1>M DEF Maps, None
      <3> QED
        BY <3>1, <1>3 DEF SlotsWith
    <2>3. SlotsWith(vn, n) = {}
      <3>1. n # None
        BY <1>M DEF Maps, None
      <3> QED
        BY <3>1, <1>3 DEF SlotsWith
    <2>4. Cardinality(SlotsWith(vn, n)) = 0 /\ 0 <= MaxRefs
      BY <2>3, FS_EmptySet, AddrManAssumption
    <2>5. \A k \in DOMAIN mi : mi[k].refs = Cardinality(SlotsWith(vn, k)) /\ mi[k].refs <= MaxRefs
      <3> SUFFICES ASSUME NEW k \in DOMAIN m.mapInfo
                   PROVE  mi[k].refs = Cardinality(SlotsWith(vn, k)) /\ mi[k].refs <= MaxRefs
        BY <1>6
      <3>1. CASE k = n
        BY <3>1, <2>4, <1>6
      <3>2. CASE k # n
        BY <3>2, <2>2, <1>N, <1>6 DEF NewTable
      <3> QED
        BY <3>1, <3>2
    <2> QED
      BY <2>1, <2>5, <1>3 DEF NewTable
  <1>8. Counts(mi, m.vRandom, m.nNew - 1, m.nTried, e)
    <2>1. Cardinality(NewOf(m.mapInfo)) \in Nat
      BY <1>C, TablesDivide DEF Counts
    <2> QED
      BY <1>C, <1>6, <2>1 DEF Counts
  <1>9. Placed(mi, Y)
    BY <1>P, <1>6 DEF Placed
  <1>10. Consistent(r, Y, e)
    BY <1>5, <1>6, <1>7, <1>8, <1>9 DEF Consistent
  <1> QED
    BY <1>5, <1>6, <1>10

\* A change of fInTried.
LEMMA TriedOnly ==
  ASSUME NEW mi, NEW n \in DOMAIN mi, NEW t \in BOOLEAN,
         NEW ma, NEW id, NEW vr, NEW vn, Maps(mi, ma, id), Order(mi, vr), NewTable(mi, vn),
         mi[n].refs = 0,
         NEW mj, mj = [mi EXCEPT ![n].tried = t]
  PROVE  /\ DOMAIN mj = DOMAIN mi
         /\ \A k \in DOMAIN mi \ {n} : mj[k] = mi[k]
         /\ mj[n] \in Info /\ mj[n].addr = mi[n].addr /\ mj[n].source = mi[n].source
         /\ mj[n].tried = t /\ mj[n].refs = 0 /\ mj[n].good = mi[n].good
         /\ Maps(mj, ma, id) /\ Order(mj, vr) /\ NewTable(mj, vn)
  <1>1. /\ DOMAIN mj = DOMAIN mi
        /\ \A k \in DOMAIN mi \ {n} : mj[k] = mi[k]
        /\ mj[n] = [mi[n] EXCEPT !.tried = t]
    OBVIOUS
  <1>2. mi[n] \in Info
    BY DEF Maps
  <1>3. /\ mj[n] \in Info /\ mj[n].addr = mi[n].addr /\ mj[n].source = mi[n].source
        /\ mj[n].tried = t /\ mj[n].pos = mi[n].pos /\ mj[n].good = mi[n].good
        /\ mj[n].refs = mi[n].refs
    BY ZenonT(30), <1>1, <1>2, TriedChange
  <1>4. \A k \in DOMAIN mi : /\ mj[k] \in Info /\ mj[k].addr = mi[k].addr /\ mj[k].refs = mi[k].refs
                             /\ mj[k].pos = mi[k].pos
    BY <1>1, <1>3 DEF Maps
  <1>5. Maps(mj, ma, id)
    BY <1>1, <1>4 DEF Maps
  <1>6. Order(mj, vr)
    BY <1>1, <1>4 DEF Order
  <1>7. NewTable(mj, vn)
    <2>1. \A s \in NewSlot : vn[s] # n
      BY NoSlot
    <2>2. \A s \in NewSlot : vn[s] # None =>
            vn[s] \in DOMAIN mj /\ ~mj[vn[s]].tried /\ s = SlotIn(mj[vn[s]].addr, s[1])
      BY <2>1, <1>1 DEF NewTable
    <2>3. \A k \in DOMAIN mj : mj[k].refs = Cardinality(SlotsWith(vn, k)) /\ mj[k].refs <= MaxRefs
      BY <1>1, <1>4 DEF NewTable
    <2> QED
      BY <2>2, <2>3 DEF NewTable
  <1> QED
    BY <1>1, <1>3, <1>5, <1>6, <1>7

LEMMA UntryConsistent ==
  ASSUME NEW m, NEW X, NEW d \in Int, Consistent(m, X, d),
         NEW slot \in TriedSlot, m.vvTried[slot] # None,
         NEW old, old = m.vvTried[slot],
         NEW r, r = Untry(m, slot),
         NEW Y, Y = X \cup {old}, NEW e \in Int, e = d + 1
  PROVE  /\ old \in DOMAIN m.mapInfo
         /\ Consistent(r, Y, e)
         /\ DOMAIN r.mapInfo = DOMAIN m.mapInfo
         /\ \A k \in DOMAIN m.mapInfo \ {old} : r.mapInfo[k] = m.mapInfo[k]
         /\ r.mapInfo[old] \in Info /\ r.mapInfo[old].addr = m.mapInfo[old].addr
         /\ r.mapInfo[old].source = m.mapInfo[old].source
         /\ ~r.mapInfo[old].tried /\ r.mapInfo[old].refs = 0
         /\ r.vvTried[slot] = None
  <1> DEFINE mi == [m.mapInfo EXCEPT ![old].tried = FALSE]
  <1> DEFINE vt == [m.vvTried EXCEPT ![slot] = None]
  <1>F. Fields(m)
    BY DEF Consistent
  <1>M. Maps(m.mapInfo, m.mapAddr, m.nIdCount)
    BY DEF Consistent
  <1>O. Order(m.mapInfo, m.vRandom)
    BY DEF Consistent
  <1>N. NewTable(m.mapInfo, m.vvNew)
    BY DEF Consistent
  <1>T. TriedTable(m.mapInfo, m.vvTried)
    BY DEF Consistent
  <1>C. Counts(m.mapInfo, m.vRandom, m.nNew, m.nTried, d)
    BY DEF Consistent
  <1>P. Placed(m.mapInfo, X)
    BY DEF Consistent
  <1>1. r = [m EXCEPT !.mapInfo = mi, !.vvTried = vt, !.nTried = m.nTried - 1]
    BY DEF Untry
  <1>2. old \in DOMAIN m.mapInfo /\ m.mapInfo[old].tried /\ GetTriedSlot[m.mapInfo[old].addr] = slot
    BY <1>T DEF TriedTable
  <1>3. m.mapInfo[old].refs = 0
    <2>1. old # None /\ \A s \in NewSlot : m.vvNew[s] # old
      BY <1>N, <1>2 DEF NewTable
    <2> QED
      BY <2>1, <1>N, <1>2, NoSlot
  <1>4. /\ vt \in [TriedSlot -> Nat \cup {None}] /\ vt[slot] = None
        /\ \A s \in TriedSlot \ {slot} : vt[s] = m.vvTried[s]
    BY <1>T DEF TriedTable
  <1>5. mi = [m.mapInfo EXCEPT ![old].tried = FALSE]
    OBVIOUS
  <1> HIDE DEF mi, vt
  <1>6. /\ r.mapInfo = mi /\ r.vvTried = vt /\ r.nTried = m.nTried - 1
        /\ r.mapAddr = m.mapAddr /\ r.vRandom = m.vRandom /\ r.nIdCount = m.nIdCount
        /\ r.nNew = m.nNew /\ r.vvNew = m.vvNew
        /\ Fields(r)
    BY ZenonT(30), <1>F, <1>1 DEF Fields
  <1>7. /\ DOMAIN mi = DOMAIN m.mapInfo
        /\ \A k \in DOMAIN m.mapInfo \ {old} : mi[k] = m.mapInfo[k]
        /\ mi[old] \in Info /\ mi[old].addr = m.mapInfo[old].addr /\ mi[old].source = m.mapInfo[old].source
        /\ mi[old].tried = FALSE /\ mi[old].refs = 0
        /\ Maps(mi, m.mapAddr, m.nIdCount) /\ Order(mi, m.vRandom) /\ NewTable(mi, m.vvNew)
    <2> DEFINE t == FALSE
    <2>1. t \in BOOLEAN /\ mi = [m.mapInfo EXCEPT ![old].tried = t]
      BY <1>5
    <2>2. t = FALSE
      OBVIOUS
    <2> HIDE DEF t
    <2> QED
      BY <1>M, <1>O, <1>N, <1>2, <1>3, <2>1, <2>2, TriedOnly
  <1>8. TriedTable(mi, vt)
    <2>1. \A s \in TriedSlot : vt[s] # None => vt[s] # old
      BY <1>T, <1>2, <1>4 DEF TriedTable
    <2>2. \A s \in TriedSlot : vt[s] # None =>
            vt[s] \in DOMAIN mi /\ mi[vt[s]].tried /\ GetTriedSlot[mi[vt[s]].addr] = s
      <3> SUFFICES ASSUME NEW s \in TriedSlot, vt[s] # None
                   PROVE  vt[s] \in DOMAIN mi /\ mi[vt[s]].tried /\ GetTriedSlot[mi[vt[s]].addr] = s
        OBVIOUS
      <3>1. vt[s] = m.vvTried[s] /\ vt[s] # old
        BY <2>1, <1>4
      <3>2. /\ vt[s] \in DOMAIN m.mapInfo /\ m.mapInfo[vt[s]].tried
            /\ GetTriedSlot[m.mapInfo[vt[s]].addr] = s
        BY <3>1, <1>T DEF TriedTable
      <3>3. vt[s] \in DOMAIN mi /\ mi[vt[s]] = m.mapInfo[vt[s]]
        BY <3>1, <3>2, <1>7
      <3> QED
        BY <3>2, <3>3
    <2>3. \A k \in DOMAIN mi : mi[k].tried => mi[k].good /\ vt[GetTriedSlot[mi[k].addr]] = k
      <3> SUFFICES ASSUME NEW k \in DOMAIN m.mapInfo, mi[k].tried
                   PROVE  mi[k].good /\ vt[GetTriedSlot[mi[k].addr]] = k
        BY <1>7
      <3>1. k # old /\ mi[k] = m.mapInfo[k]
        BY <1>7
      <3>2. m.mapInfo[k].good /\ m.vvTried[GetTriedSlot[m.mapInfo[k].addr]] = k
        BY <3>1, <1>T DEF TriedTable
      <3>3. GetTriedSlot[m.mapInfo[k].addr] \in TriedSlot
        BY <1>M, AddrManAssumption DEF Maps, Info
      <3>4. GetTriedSlot[m.mapInfo[k].addr] # slot
        BY <3>1, <3>2
      <3> QED
        BY <3>1, <3>2, <3>3, <3>4, <1>4
    <2> QED
      BY <2>2, <2>3, <1>4 DEF TriedTable
  <1>9. Counts(mi, m.vRandom, m.nNew, m.nTried - 1, e)
    <2>1. /\ IsFiniteSet(NewOf(m.mapInfo)) /\ Cardinality(NewOf(m.mapInfo)) \in Nat
          /\ IsFiniteSet(TriedOf(m.mapInfo)) /\ Cardinality(TriedOf(m.mapInfo)) \in Nat
      BY <1>C, TablesDivide DEF Counts
    <2>2. TriedOf(mi) = TriedOf(m.mapInfo) \ {old} /\ old \in TriedOf(m.mapInfo)
      BY <1>2, <1>7 DEF TriedOf
    <2>3. NewOf(mi) = NewOf(m.mapInfo) \cup {old} /\ old \notin NewOf(m.mapInfo)
      BY <1>2, <1>7 DEF NewOf
    <2>4. Cardinality(TriedOf(mi)) = Cardinality(TriedOf(m.mapInfo)) - 1
      <3>1. Cardinality(TriedOf(m.mapInfo) \ {old}) = Cardinality(TriedOf(m.mapInfo)) - 1
        BY ZenonT(30), <2>1, <2>2, FS_RemoveElement
      <3> QED
        BY <2>2, <3>1
    <2>5. Cardinality(NewOf(mi)) = Cardinality(NewOf(m.mapInfo)) + 1
      BY ZenonT(30), <2>1, <2>3, FS_AddElement
    <2> QED
      BY <2>1, <2>4, <2>5, <1>C, <1>7 DEF Counts
  <1>10. Placed(mi, Y)
    BY <1>P, <1>7 DEF Placed
  <1>11. Consistent(r, Y, e)
    <2>1. /\ Maps(r.mapInfo, r.mapAddr, r.nIdCount) /\ Order(r.mapInfo, r.vRandom)
          /\ NewTable(r.mapInfo, r.vvNew) /\ TriedTable(r.mapInfo, r.vvTried)
          /\ Counts(r.mapInfo, r.vRandom, r.nNew, r.nTried, e) /\ Placed(r.mapInfo, Y) /\ Fields(r)
      BY ZenonT(30), <1>6, <1>7, <1>8, <1>9, <1>10
    <2> QED
      BY ZenonT(30), <2>1 DEF Consistent
  <1> QED
    BY <1>2, <1>4, <1>6, <1>7, <1>11

LEMMA SettleConsistent ==
  ASSUME NEW m, NEW X, NEW d \in Int, Consistent(m, X, d),
         NEW n \in DOMAIN m.mapInfo, ~m.mapInfo[n].tried, m.mapInfo[n].refs = 0, Worked(m.mapInfo, n),
         NEW slot \in TriedSlot, HasSlot(m.mapInfo, n, slot), m.vvTried[slot] = None,
         NEW r, r = Settle(m, n, slot),
         NEW Y, Y = X \ {n}, NEW e \in Int, e = d - 1
  PROVE  /\ Consistent(r, Y, e)
         /\ DOMAIN r.mapInfo = DOMAIN m.mapInfo
         /\ \A k \in DOMAIN m.mapInfo : r.mapInfo[k].addr = m.mapInfo[k].addr
  <1> DEFINE mi == [m.mapInfo EXCEPT ![n].tried = TRUE]
  <1> DEFINE vt == [m.vvTried EXCEPT ![slot] = n]
  <1>F. Fields(m)
    BY DEF Consistent
  <1>M. Maps(m.mapInfo, m.mapAddr, m.nIdCount)
    BY DEF Consistent
  <1>O. Order(m.mapInfo, m.vRandom)
    BY DEF Consistent
  <1>N. NewTable(m.mapInfo, m.vvNew)
    BY DEF Consistent
  <1>T. TriedTable(m.mapInfo, m.vvTried)
    BY DEF Consistent
  <1>C. Counts(m.mapInfo, m.vRandom, m.nNew, m.nTried, d)
    BY DEF Consistent
  <1>P. Placed(m.mapInfo, X)
    BY DEF Consistent
  <1>1. r = [m EXCEPT !.vvTried = vt, !.nTried = m.nTried + 1, !.mapInfo = mi]
    BY DEF Settle
  <1>2. n \in Nat /\ n # None
    BY <1>M DEF Maps, None
  <1>3. /\ vt \in [TriedSlot -> Nat \cup {None}] /\ vt[slot] = n
        /\ \A s \in TriedSlot \ {slot} : vt[s] = m.vvTried[s]
    BY <1>T, <1>2 DEF TriedTable
  <1>4. mi = [m.mapInfo EXCEPT ![n].tried = TRUE]
    OBVIOUS
  <1> HIDE DEF mi, vt
  <1>5. /\ r.mapInfo = mi /\ r.vvTried = vt /\ r.nTried = m.nTried + 1
        /\ r.mapAddr = m.mapAddr /\ r.vRandom = m.vRandom /\ r.nIdCount = m.nIdCount
        /\ r.nNew = m.nNew /\ r.vvNew = m.vvNew
        /\ Fields(r)
    BY ZenonT(30), <1>F, <1>1 DEF Fields
  <1>6. /\ DOMAIN mi = DOMAIN m.mapInfo
        /\ \A k \in DOMAIN m.mapInfo \ {n} : mi[k] = m.mapInfo[k]
        /\ mi[n].addr = m.mapInfo[n].addr /\ mi[n].good
        /\ mi[n].tried = TRUE /\ mi[n].refs = 0
        /\ Maps(mi, m.mapAddr, m.nIdCount) /\ Order(mi, m.vRandom) /\ NewTable(mi, m.vvNew)
    <2> DEFINE t == TRUE
    <2>1. t \in BOOLEAN /\ mi = [m.mapInfo EXCEPT ![n].tried = t]
      BY <1>4
    <2>2. t = TRUE
      OBVIOUS
    <2> HIDE DEF t
    <2>3. /\ DOMAIN mi = DOMAIN m.mapInfo
          /\ \A k \in DOMAIN m.mapInfo \ {n} : mi[k] = m.mapInfo[k]
          /\ mi[n].addr = m.mapInfo[n].addr
          /\ mi[n].tried = t /\ mi[n].refs = 0
          /\ Maps(mi, m.mapAddr, m.nIdCount) /\ Order(mi, m.vRandom) /\ NewTable(mi, m.vvNew)
      BY <1>M, <1>O, <1>N, <2>1, TriedOnly
    <2>4. mi[n].good
      <3>1. mi[n] = [m.mapInfo[n] EXCEPT !.tried = t] /\ m.mapInfo[n] \in Info
        BY <1>M, <2>1 DEF Maps
      <3> QED
        BY <3>1, <2>1 DEF Info, Worked
    <2> QED
      BY <2>2, <2>3, <2>4
  <1>7. TriedTable(mi, vt)
    <2>1. \A s \in TriedSlot \ {slot} : m.vvTried[s] # n
      BY <1>T, <1>2 DEF TriedTable
    <2>2. \A s \in TriedSlot : vt[s] # None =>
            vt[s] \in DOMAIN mi /\ mi[vt[s]].tried /\ GetTriedSlot[mi[vt[s]].addr] = s
      <3> SUFFICES ASSUME NEW s \in TriedSlot, vt[s] # None
                   PROVE  vt[s] \in DOMAIN mi /\ mi[vt[s]].tried /\ GetTriedSlot[mi[vt[s]].addr] = s
        OBVIOUS
      <3>1. CASE s = slot
        BY <3>1, <1>3, <1>6 DEF HasSlot
      <3>2. CASE s # slot
        <4>1. vt[s] = m.vvTried[s] /\ vt[s] # n
          BY <3>2, <2>1, <1>3
        <4>2. /\ vt[s] \in DOMAIN m.mapInfo /\ m.mapInfo[vt[s]].tried
              /\ GetTriedSlot[m.mapInfo[vt[s]].addr] = s
          BY <4>1, <1>T DEF TriedTable
        <4>3. vt[s] \in DOMAIN mi /\ mi[vt[s]] = m.mapInfo[vt[s]]
          BY <4>1, <4>2, <1>6
        <4> QED
          BY <4>2, <4>3
      <3> QED
        BY <3>1, <3>2
    <2>3. \A k \in DOMAIN mi : mi[k].tried => mi[k].good /\ vt[GetTriedSlot[mi[k].addr]] = k
      <3> SUFFICES ASSUME NEW k \in DOMAIN m.mapInfo, mi[k].tried
                   PROVE  mi[k].good /\ vt[GetTriedSlot[mi[k].addr]] = k
        BY <1>6
      <3>1. CASE k = n
        BY <3>1, <1>3, <1>6 DEF HasSlot
      <3>2. CASE k # n
        <4>1. mi[k] = m.mapInfo[k]
          BY <3>2, <1>6
        <4>2. m.mapInfo[k].good /\ m.vvTried[GetTriedSlot[m.mapInfo[k].addr]] = k
          BY <4>1, <1>T DEF TriedTable
        <4>3. GetTriedSlot[m.mapInfo[k].addr] \in TriedSlot
          BY <1>M, AddrManAssumption DEF Maps, Info
        <4>4. k # None
          BY <1>M DEF Maps, None
        <4>5. GetTriedSlot[m.mapInfo[k].addr] # slot
          BY <4>2, <4>4
        <4> QED
          BY <4>1, <4>2, <4>3, <4>5, <1>3
      <3> QED
        BY <3>1, <3>2
    <2> QED
      BY <2>2, <2>3, <1>3 DEF TriedTable
  <1>8. Counts(mi, m.vRandom, m.nNew, m.nTried + 1, e)
    <2>1. /\ IsFiniteSet(NewOf(m.mapInfo)) /\ Cardinality(NewOf(m.mapInfo)) \in Nat
          /\ IsFiniteSet(TriedOf(m.mapInfo)) /\ Cardinality(TriedOf(m.mapInfo)) \in Nat
      BY <1>C, TablesDivide DEF Counts
    <2>2. TriedOf(mi) = TriedOf(m.mapInfo) \cup {n} /\ n \notin TriedOf(m.mapInfo)
      BY <1>6 DEF TriedOf
    <2>3. NewOf(mi) = NewOf(m.mapInfo) \ {n} /\ n \in NewOf(m.mapInfo)
      BY <1>6 DEF NewOf
    <2>4. Cardinality(TriedOf(mi)) = Cardinality(TriedOf(m.mapInfo)) + 1
      BY ZenonT(30), <2>1, <2>2, FS_AddElement
    <2>5. Cardinality(NewOf(mi)) = Cardinality(NewOf(m.mapInfo)) - 1
      <3>1. Cardinality(NewOf(m.mapInfo) \ {n}) = Cardinality(NewOf(m.mapInfo)) - 1
        BY ZenonT(30), <2>1, <2>3, FS_RemoveElement
      <3> QED
        BY <2>3, <3>1
    <2> QED
      BY <2>1, <2>4, <2>5, <1>C, <1>6 DEF Counts
  <1>9. Placed(mi, Y)
    BY <1>P, <1>6 DEF Placed
  <1>10. Consistent(r, Y, e)
    <2>1. /\ Maps(r.mapInfo, r.mapAddr, r.nIdCount) /\ Order(r.mapInfo, r.vRandom)
          /\ NewTable(r.mapInfo, r.vvNew) /\ TriedTable(r.mapInfo, r.vvTried)
          /\ Counts(r.mapInfo, r.vRandom, r.nNew, r.nTried, e) /\ Placed(r.mapInfo, Y) /\ Fields(r)
      BY ZenonT(30), <1>5, <1>6, <1>7, <1>8, <1>9
    <2> QED
      BY ZenonT(30), <2>1 DEF Consistent
  <1> QED
    BY <1>5, <1>6, <1>10

\* The place for an entry's own source is one of its places.
LEMMA HomeSlot ==
  ASSUME NEW info \in Info, NEW src \in Source
  PROVE  LET slot == SlotIn(info.addr, GetNewBucket[<<info.addr.ip, src>>])
         IN slot \in NewSlot /\ slot = SlotIn(info.addr, slot[1])
  <1>1. info.addr \in Service /\ info.addr.ip \in Ip
    BY AddrManAssumption DEF Info
  <1>2. GetNewBucket[<<info.addr.ip, src>>] \in NewBucket
    BY <1>1, AddrManAssumption
  <1>3. GetNewPosition[<<info.addr, GetNewBucket[<<info.addr.ip, src>>]>>] \in BucketPos
    BY <1>1, <1>2, AddrManAssumption
  <1> QED
    BY <1>2, <1>3 DEF SlotIn, NewSlot

\* Entries without a place in the new table, the tried ones among them, keep
\* their ids and addresses; only the displaced one changes otherwise.
LEMMA EvictConsistent ==
  ASSUME NEW m, NEW X, NEW d \in Int, Consistent(m, X, d), NEW slot \in TriedSlot,
         NEW r, r = Evict(m, slot)
  PROVE  /\ Consistent(r, X, d)
         /\ r.vvTried[slot] = None
         /\ \A k \in DOMAIN m.mapInfo : m.mapInfo[k].refs = 0 =>
              /\ k \in DOMAIN r.mapInfo
              /\ r.mapInfo[k].addr = m.mapInfo[k].addr
              /\ ~m.mapInfo[k].tried => SameEntry(m.mapInfo, r.mapInfo, k)
  <1> DEFINE old == m.vvTried[slot]
  <1> DEFINE u == Untry(m, slot)
  <1> DEFINE h == Home(m.mapInfo[old])
  <1> DEFINE c == ClearNew(u, h)
  <1> DEFINE Y == X \cup {old}
  <1> DEFINE Z == Y \ {old}
  <1> DEFINE e == d + 1
  <1>1. CASE old = None
    <2>1. r = m
      BY <1>1 DEF Evict
    <2> QED
      BY <2>1, <1>1 DEF SameEntry, Consistent, Maps
  <1>2. CASE old # None
    <2>1. r = EnterNew(c, old, h)
      BY <1>2 DEF Evict
    <2>2. /\ old = m.vvTried[slot] /\ u = Untry(m, slot) /\ c = ClearNew(u, h)
          /\ Y = X \cup {old} /\ Z = Y \ {old} /\ e \in Int /\ e = d + 1 /\ d = e - 1
      OBVIOUS
    <2>3. h = SlotIn(m.mapInfo[old].addr, GetNewBucket[<<m.mapInfo[old].addr.ip, m.mapInfo[old].source>>])
      BY DEF Home
    <2> HIDE DEF old, u, h, c, Y, Z, e
    <2>4. /\ old \in DOMAIN m.mapInfo
          /\ Consistent(u, Y, e)
          /\ DOMAIN u.mapInfo = DOMAIN m.mapInfo
          /\ \A k \in DOMAIN m.mapInfo \ {old} : u.mapInfo[k] = m.mapInfo[k]
          /\ u.mapInfo[old] \in Info /\ u.mapInfo[old].addr = m.mapInfo[old].addr
          /\ u.mapInfo[old].source = m.mapInfo[old].source
          /\ ~u.mapInfo[old].tried /\ u.mapInfo[old].refs = 0
          /\ u.vvTried[slot] = None
      BY <1>2, <2>2, UntryConsistent
    <2>5. m.mapInfo[old].tried
      BY <1>2, <2>2 DEF Consistent, TriedTable
    <2>6. h \in NewSlot /\ h = SlotIn(u.mapInfo[old].addr, h[1])
      <3>1. u.mapInfo[old].source \in Source
        BY <2>4 DEF Info
      <3>2. h = SlotIn(u.mapInfo[old].addr, GetNewBucket[<<u.mapInfo[old].addr.ip, u.mapInfo[old].source>>])
        BY <2>3, <2>4
      <3> QED
        BY <3>1, <3>2, <2>4, HomeSlot
    <2>7. \A k \in DOMAIN u.mapInfo : u.mapInfo[k].refs = 0 => k # u.vvNew[h]
      <3>1. NewTable(u.mapInfo, u.vvNew)
        BY <2>4 DEF Consistent
      <3> QED
        BY <3>1, <2>6, NoSlot
    <2>8. /\ Consistent(c, Y, e)
          /\ c.vvNew[h] = None
          /\ \A k \in DOMAIN u.mapInfo : k # u.vvNew[h] => SameEntry(u.mapInfo, c.mapInfo, k)
          /\ c.vvTried = u.vvTried
      BY <2>2, <2>4, <2>6, ClearNewConsistent
    <2>9. SameEntry(u.mapInfo, c.mapInfo, old)
      BY <2>4, <2>7, <2>8
    <2>10. /\ old \in DOMAIN c.mapInfo /\ ~c.mapInfo[old].tried /\ c.mapInfo[old].refs = 0
           /\ h = SlotIn(c.mapInfo[old].addr, h[1]) /\ c.mapInfo[old].addr = m.mapInfo[old].addr
      BY <2>4, <2>6, <2>9 DEF SameEntry
    <2>11. /\ Consistent(r, Z, d)
           /\ DOMAIN r.mapInfo = DOMAIN c.mapInfo
           /\ \A k \in DOMAIN c.mapInfo \ {old} : r.mapInfo[k] = c.mapInfo[k]
           /\ r.mapInfo[old].addr = c.mapInfo[old].addr
           /\ r.vvTried = c.vvTried
      <3>1. /\ Consistent(c, Y, e) /\ h \in NewSlot /\ c.vvNew[h] = None
            /\ old \in DOMAIN c.mapInfo /\ ~c.mapInfo[old].tried
            /\ h = SlotIn(c.mapInfo[old].addr, h[1]) /\ c.mapInfo[old].refs = 0
            /\ r = EnterNew(c, old, h) /\ Z = Y \ {old} /\ e \in Int /\ d \in Int /\ d = e - 1
        BY <2>1, <2>2, <2>6, <2>8, <2>10
      <3> QED
        BY <3>1, EnterNewConsistent
    <2>12. Consistent(r, X, d)
      <3>1. Placed(r.mapInfo, X)
        BY <2>2, <2>11 DEF Consistent, Placed
      <3> QED
        BY <3>1, <2>11 DEF Consistent
    <2>13. ASSUME NEW k \in DOMAIN m.mapInfo, m.mapInfo[k].refs = 0
           PROVE  /\ k \in DOMAIN r.mapInfo
                  /\ r.mapInfo[k].addr = m.mapInfo[k].addr
                  /\ ~m.mapInfo[k].tried => SameEntry(m.mapInfo, r.mapInfo, k)
      <3>1. CASE k = old
        BY <3>1, <2>5, <2>10, <2>11
      <3>2. CASE k # old
        <4>1. u.mapInfo[k] = m.mapInfo[k]
          BY <3>2, <2>4
        <4>2. SameEntry(u.mapInfo, c.mapInfo, k)
          BY <4>1, <2>4, <2>7, <2>8, <2>13
        <4>3. r.mapInfo[k] = c.mapInfo[k] /\ k \in DOMAIN r.mapInfo
          BY <4>2, <3>2, <2>11 DEF SameEntry
        <4> QED
          BY <4>1, <4>2, <4>3 DEF SameEntry
      <3> QED
        BY <3>1, <3>2
    <2> QED
      BY <2>4, <2>8, <2>11, <2>12, <2>13
  <1> QED
    BY <1>1, <1>2

LEMMA MakeTriedConsistent ==
  ASSUME NEW m, NEW X, NEW d \in Int, Consistent(m, X, d),
         NEW n \in DOMAIN m.mapInfo, ~m.mapInfo[n].tried, Worked(m.mapInfo, n),
         NEW r, r = MakeTried(m, n)
  PROVE  /\ Consistent(r, X, d)
         /\ \A k \in DOMAIN m.mapInfo : m.mapInfo[k].tried =>
              k \in DOMAIN r.mapInfo /\ r.mapInfo[k].addr = m.mapInfo[k].addr
  <1> DEFINE slot == GetTriedSlot[m.mapInfo[n].addr]
  <1> DEFINE l == LeaveNew(m, n)
  <1> DEFINE v == Evict(l, slot)
  <1> DEFINE Y == X \cup {n}
  <1> DEFINE Z == Y \ {n}
  <1> DEFINE e == d + 1
  <1>1. /\ r = Settle(v, n, slot) /\ v = Evict(l, slot) /\ l = LeaveNew(m, n)
        /\ Y = X \cup {n} /\ Z = Y \ {n} /\ e \in Int /\ e = d + 1 /\ d = e - 1
    BY DEF MakeTried
  <1>2. slot \in TriedSlot /\ slot = GetTriedSlot[m.mapInfo[n].addr]
    BY ZenonT(30), AddrManAssumption DEF Consistent, Maps, Info
  <1> HIDE DEF slot, l, v, Y, Z, e
  <1>3. /\ Consistent(l, Y, e)
        /\ DOMAIN l.mapInfo = DOMAIN m.mapInfo
        /\ \A k \in DOMAIN m.mapInfo \ {n} : l.mapInfo[k] = m.mapInfo[k]
        /\ l.mapInfo[n].addr = m.mapInfo[n].addr
        /\ l.mapInfo[n].good = m.mapInfo[n].good
        /\ ~l.mapInfo[n].tried
        /\ l.mapInfo[n].refs = 0
    BY <1>1, LeaveNewConsistent
  <1>5. /\ Consistent(v, Y, e)
        /\ v.vvTried[slot] = None
        /\ \A k \in DOMAIN l.mapInfo : l.mapInfo[k].refs = 0 =>
             /\ k \in DOMAIN v.mapInfo
             /\ v.mapInfo[k].addr = l.mapInfo[k].addr
             /\ ~l.mapInfo[k].tried => SameEntry(l.mapInfo, v.mapInfo, k)
    <2>1. Consistent(l, Y, e) /\ e \in Int /\ v = Evict(l, slot) /\ slot \in TriedSlot
      BY <1>1, <1>2, <1>3
    <2> QED
      BY <2>1, EvictConsistent
  <1>6. SameEntry(l.mapInfo, v.mapInfo, n)
    BY <1>3, <1>5
  <1>7. /\ n \in DOMAIN v.mapInfo /\ ~v.mapInfo[n].tried /\ v.mapInfo[n].refs = 0 /\ Worked(v.mapInfo, n)
        /\ HasSlot(v.mapInfo, n, slot)
    BY <1>2, <1>3, <1>6 DEF SameEntry, Worked, HasSlot
  <1>8. /\ Consistent(r, Z, d)
        /\ DOMAIN r.mapInfo = DOMAIN v.mapInfo
        /\ \A k \in DOMAIN v.mapInfo : r.mapInfo[k].addr = v.mapInfo[k].addr
    <2>1. /\ Consistent(v, Y, e) /\ e \in Int /\ d = e - 1 /\ Z = Y \ {n}
          /\ r = Settle(v, n, slot) /\ v.vvTried[slot] = None /\ slot \in TriedSlot
      BY ZenonT(30), <1>1, <1>2, <1>5
    <2>2. Consistent(r, Z, d)
      BY <2>1, <1>7, SettleConsistent
    <2>3. DOMAIN r.mapInfo = DOMAIN v.mapInfo
      BY <2>1, <2>2, <1>7, SettleConsistent
    <2>4. \A k \in DOMAIN v.mapInfo : r.mapInfo[k].addr = v.mapInfo[k].addr
      BY <2>1, <2>2, <1>7, SettleConsistent
    <2> QED
      BY <2>2, <2>3, <2>4
  <1>9. Consistent(r, X, d)
    <2>1. Placed(r.mapInfo, X)
      BY <1>1, <1>8 DEF Consistent, Placed
    <2> QED
      BY <2>1, <1>8 DEF Consistent
  <1>10. ASSUME NEW k \in DOMAIN m.mapInfo, m.mapInfo[k].tried
         PROVE  k \in DOMAIN r.mapInfo /\ r.mapInfo[k].addr = m.mapInfo[k].addr
    <2>1. k # n /\ l.mapInfo[k] = m.mapInfo[k]
      BY <1>3, <1>10
    <2>2. m.mapInfo[k].refs = 0
      <3>1. NewTable(m.mapInfo, m.vvNew) /\ k # None
        BY DEF Consistent, Maps, None
      <3>2. \A t \in NewSlot : m.vvNew[t] # k
        BY <3>1, <1>10 DEF NewTable
      <3> QED
        BY <3>1, <3>2, NoSlot
    <2> QED
      BY <2>1, <2>2, <1>3, <1>5, <1>8
  <1> QED
    BY <1>8, <1>9, <1>10

-----------------------------------------------------------------------------
(* Add_. *)

\* Create and the increment of nNew after it.
Created(m, svc, src) == [Create(m, svc, src) EXCEPT !.nNew = m.nNew + 1]

\* Add_ of an unknown address makes an entry without a place.
LEMMA CreateConsistent ==
  ASSUME NEW m, NEW X, NEW d \in Int, Consistent(m, X, d),
         NEW svc \in Service, NEW src \in Source, svc.ip \notin DOMAIN m.mapAddr,
         NEW n, n = m.nIdCount,
         NEW r, r = Created(m, svc, src),
         NEW Y, Y = X \cup {n}
  PROVE  /\ Consistent(r, Y, d)
         /\ n \notin DOMAIN m.mapInfo
         /\ DOMAIN r.mapInfo = DOMAIN m.mapInfo \cup {n}
         /\ \A k \in DOMAIN m.mapInfo : r.mapInfo[k] = m.mapInfo[k]
         /\ ~r.mapInfo[n].tried
         /\ r.mapInfo[n].refs = 0
  <1> DEFINE L == Len(m.vRandom)
  <1> DEFINE info == [addr |-> svc, source |-> src, tried |-> FALSE, refs |-> 0, pos |-> L + 1, good |-> FALSE]
  <1> DEFINE mi == Put(m.mapInfo, n, info)
  <1> DEFINE ma == Put(m.mapAddr, svc.ip, n)
  <1> DEFINE vr == Append(m.vRandom, n)
  <1>F. Fields(m)
    BY DEF Consistent
  <1>M. Maps(m.mapInfo, m.mapAddr, m.nIdCount)
    BY DEF Consistent
  <1>O. Order(m.mapInfo, m.vRandom)
    BY DEF Consistent
  <1>N. NewTable(m.mapInfo, m.vvNew)
    BY DEF Consistent
  <1>T. TriedTable(m.mapInfo, m.vvTried)
    BY DEF Consistent
  <1>C. Counts(m.mapInfo, m.vRandom, m.nNew, m.nTried, d)
    BY DEF Consistent
  <1>P. Placed(m.mapInfo, X)
    BY DEF Consistent
  <1>1. r = [[m EXCEPT !.nIdCount = n + 1, !.mapInfo = mi, !.mapAddr = ma, !.vRandom = vr]
              EXCEPT !.nNew = m.nNew + 1]
    BY DEF Created, Create
  <1>2. n \in Nat /\ n \notin DOMAIN m.mapInfo /\ L \in Nat
    BY <1>M, <1>O DEF Maps, Order
  <1>3. /\ info \in Info /\ info.addr = svc /\ info.tried = FALSE /\ info.refs = 0 /\ info.pos = L + 1
        /\ svc.ip \in Ip
    BY <1>2, AddrManAssumption DEF Info
  <1>4. /\ DOMAIN mi = DOMAIN m.mapInfo \cup {n} /\ mi[n] = info
        /\ \A k \in DOMAIN m.mapInfo : mi[k] = m.mapInfo[k]
    BY <1>2 DEF Put
  <1>5. /\ DOMAIN ma = DOMAIN m.mapAddr \cup {svc.ip} /\ ma[svc.ip] = n
        /\ \A ip \in DOMAIN m.mapAddr : ma[ip] = m.mapAddr[ip]
    BY DEF Put
  <1>6. /\ vr \in Seq(Nat) /\ Len(vr) = L + 1 /\ vr[L + 1] = n
        /\ \A i \in 1..L : vr[i] = m.vRandom[i]
    BY <1>O, <1>2 DEF Order
  <1> HIDE DEF info, mi, ma, vr, L
  <1>7. /\ r.mapInfo = mi /\ r.mapAddr = ma /\ r.vRandom = vr /\ r.nIdCount = n + 1
        /\ r.nNew = m.nNew + 1 /\ r.nTried = m.nTried /\ r.vvNew = m.vvNew /\ r.vvTried = m.vvTried
        /\ Fields(r)
    BY ZenonT(30), <1>F, <1>1 DEF Fields
  <1>8. Maps(mi, ma, n + 1)
    <2>1. \A k \in DOMAIN mi : k \in Nat /\ k < n + 1 /\ mi[k] \in Info
      BY <1>M, <1>2, <1>3, <1>4 DEF Maps
    <2>2. \A k \in DOMAIN mi : mi[k].addr.ip \in DOMAIN ma /\ ma[mi[k].addr.ip] = k
      BY <1>M, <1>3, <1>4, <1>5 DEF Maps
    <2>3. \A ip \in DOMAIN ma : ip \in Ip /\ ma[ip] \in DOMAIN mi /\ mi[ma[ip]].addr.ip = ip
      BY <1>M, <1>3, <1>4, <1>5 DEF Maps
    <2> QED
      BY <2>1, <2>2, <2>3, <1>2 DEF Maps
  <1>9. Order(mi, vr)
    <2>1. \A k \in DOMAIN mi : mi[k].pos \in 1..(L + 1) /\ vr[mi[k].pos] = k
      <3> SUFFICES ASSUME NEW k \in DOMAIN mi PROVE mi[k].pos \in 1..(L + 1) /\ vr[mi[k].pos] = k
        OBVIOUS
      <3>1. CASE k = n
        BY <3>1, <1>2, <1>3, <1>4, <1>6
      <3>2. CASE k # n
        <4>1. k \in DOMAIN m.mapInfo /\ mi[k] = m.mapInfo[k]
          BY <3>2, <1>4
        <4>2. m.mapInfo[k].pos \in 1..L /\ m.vRandom[m.mapInfo[k].pos] = k
          BY <4>1, <1>O DEF Order, L
        <4> QED
          BY <4>1, <4>2, <1>2, <1>6
      <3> QED
        BY <3>1, <3>2
    <2>2. \A i \in 1..(L + 1) : vr[i] \in DOMAIN mi /\ mi[vr[i]].pos = i
      <3> SUFFICES ASSUME NEW i \in 1..(L + 1) PROVE vr[i] \in DOMAIN mi /\ mi[vr[i]].pos = i
        OBVIOUS
      <3>1. CASE i = L + 1
        BY <3>1, <1>3, <1>4, <1>6
      <3>2. CASE i # L + 1
        <4>1. i \in 1..L
          BY <3>2, <1>2
        <4>2. m.vRandom[i] \in DOMAIN m.mapInfo /\ m.mapInfo[m.vRandom[i]].pos = i
          BY <4>1, <1>O DEF Order, L
        <4> QED
          BY <4>1, <4>2, <1>4, <1>6
      <3> QED
        BY <3>1, <3>2
    <2> QED
      BY <2>1, <2>2, <1>6 DEF Order
  <1>10. NewTable(mi, m.vvNew)
    <2>1. n # None
      BY <1>2 DEF None
    <2>2. \A s \in NewSlot : m.vvNew[s] # n
      BY <2>1, <1>N, <1>2 DEF NewTable
    <2>3. SlotsWith(m.vvNew, n) = {}
      BY <2>2 DEF SlotsWith
    <2>4. Cardinality(SlotsWith(m.vvNew, n)) = 0 /\ 0 <= MaxRefs
      BY <2>3, FS_EmptySet, AddrManAssumption
    <2>5. \A k \in DOMAIN mi : mi[k].refs = Cardinality(SlotsWith(m.vvNew, k)) /\ mi[k].refs <= MaxRefs
      <3> SUFFICES ASSUME NEW k \in DOMAIN mi
                   PROVE  mi[k].refs = Cardinality(SlotsWith(m.vvNew, k)) /\ mi[k].refs <= MaxRefs
        OBVIOUS
      <3>1. CASE k = n
        BY <3>1, <2>4, <1>3, <1>4
      <3>2. CASE k # n
        BY <3>2, <1>N, <1>4 DEF NewTable
      <3> QED
        BY <3>1, <3>2
    <2>6. \A s \in NewSlot : m.vvNew[s] # None =>
            /\ m.vvNew[s] \in DOMAIN mi
            /\ ~mi[m.vvNew[s]].tried
            /\ s = SlotIn(mi[m.vvNew[s]].addr, s[1])
      BY <1>N, <1>4 DEF NewTable
    <2>7. m.vvNew \in [NewSlot -> Nat \cup {None}]
      BY <1>N DEF NewTable
    <2> QED
      BY <2>5, <2>6, <2>7 DEF NewTable
  <1>11. TriedTable(mi, m.vvTried)
    <2>1. \A s \in TriedSlot : m.vvTried[s] # None =>
            m.vvTried[s] \in DOMAIN mi /\ mi[m.vvTried[s]].tried /\ GetTriedSlot[mi[m.vvTried[s]].addr] = s
      BY <1>T, <1>4 DEF TriedTable
    <2>2. \A k \in DOMAIN mi : mi[k].tried => mi[k].good /\ m.vvTried[GetTriedSlot[mi[k].addr]] = k
      BY <1>T, <1>3, <1>4 DEF TriedTable
    <2> QED
      BY <2>1, <2>2, <1>T DEF TriedTable
  <1>12. Counts(mi, vr, m.nNew + 1, m.nTried, d)
    <2>1. IsFiniteSet(NewOf(m.mapInfo)) /\ Cardinality(NewOf(m.mapInfo)) \in Nat /\ IsFiniteSet(DOMAIN m.mapInfo)
      BY <1>C, TablesDivide DEF Counts
    <2>2. TriedOf(mi) = TriedOf(m.mapInfo)
      BY <1>3, <1>4 DEF TriedOf
    <2>3. NewOf(mi) = NewOf(m.mapInfo) \cup {n} /\ n \notin NewOf(m.mapInfo)
      BY <1>2, <1>3, <1>4 DEF NewOf
    <2>4. Cardinality(NewOf(mi)) = Cardinality(NewOf(m.mapInfo)) + 1
      BY ZenonT(30), <2>1, <2>3, FS_AddElement
    <2>5. IsFiniteSet(DOMAIN mi) /\ Cardinality(DOMAIN mi) = Cardinality(DOMAIN m.mapInfo) + 1
      BY <2>1, <1>2, <1>4, FS_AddElement
    <2> QED
      BY <2>1, <2>2, <2>4, <2>5, <1>C, <1>6 DEF Counts, L
  <1>13. Placed(mi, Y)
    BY <1>P, <1>4 DEF Placed
  <1>14. Consistent(r, Y, d)
    <2>1. /\ Maps(r.mapInfo, r.mapAddr, r.nIdCount) /\ Order(r.mapInfo, r.vRandom)
          /\ NewTable(r.mapInfo, r.vvNew) /\ TriedTable(r.mapInfo, r.vvTried)
          /\ Counts(r.mapInfo, r.vRandom, r.nNew, r.nTried, d) /\ Placed(r.mapInfo, Y) /\ Fields(r)
      BY ZenonT(30), <1>7, <1>8, <1>9, <1>10, <1>11, <1>12, <1>13
    <2> QED
      BY ZenonT(30), <2>1 DEF Consistent
  <1> QED
    BY <1>2, <1>3, <1>4, <1>7, <1>14

LEMMA PlaceConsistent ==
  ASSUME NEW m, NEW X, NEW d \in Int, Consistent(m, X, d),
         NEW n \in DOMAIN m.mapInfo, ~m.mapInfo[n].tried, m.mapInfo[n].refs < MaxRefs,
         NEW src \in Source, NEW terrible \in BOOLEAN,
         NEW r, r = Place(m, n, src, terrible),
         NEW Y, Y = X \ {n}
  PROVE  /\ Consistent(r, Y, d)
         /\ \A k \in DOMAIN m.mapInfo : m.mapInfo[k].tried =>
              k \in DOMAIN r.mapInfo /\ r.mapInfo[k].addr = m.mapInfo[k].addr
  <1> DEFINE slot == SlotIn(m.mapInfo[n].addr, GetNewBucket[<<m.mapInfo[n].addr.ip, src>>])
  <1> DEFINE c == ClearNew(m, slot)
  <1>M. Maps(m.mapInfo, m.mapAddr, m.nIdCount)
    BY ZenonT(30) DEF Consistent
  <1>N. NewTable(m.mapInfo, m.vvNew)
    BY DEF Consistent
  <1>P. Placed(m.mapInfo, X)
    BY DEF Consistent
  <1>1. slot \in NewSlot /\ slot = SlotIn(m.mapInfo[n].addr, slot[1])
    <2>1. m.mapInfo[n] \in Info
      BY <1>M DEF Maps
    <2> QED
      BY <2>1, HomeSlot
  <1>2. \/ r = m /\ m.vvNew[slot] = n
        \/ r = AddRef(c, n, slot) /\ m.vvNew[slot] # n
        \/ r = Delete(m, n) /\ m.mapInfo[n].refs = 0
        \/ r = m /\ m.mapInfo[n].refs # 0
    BY ZenonT(30) DEF Place
  <1>3. c = ClearNew(m, slot)
    OBVIOUS
  <1>4. m.mapInfo[n].refs \in Nat
    BY <1>N, SlotsFinite DEF NewTable
  <1> HIDE DEF slot, c
  <1>5. CASE r = m /\ m.mapInfo[n].refs # 0
    <2>1. Placed(m.mapInfo, Y)
      BY <1>P, <1>4, <1>5 DEF Placed
    <2> QED
      BY <2>1, <1>5 DEF Consistent
  <1>6. CASE r = m /\ m.vvNew[slot] = n
    <2>1. m.mapInfo[n].refs # 0
      BY <1>N, <1>1, <1>6, NoSlot
    <2> QED
      BY <2>1, <1>5, <1>6
  <1>7. CASE r = Delete(m, n) /\ m.mapInfo[n].refs = 0
    <2>1. /\ Consistent(r, X, d)
          /\ DOMAIN r.mapInfo = DOMAIN m.mapInfo \ {n}
          /\ \A k \in DOMAIN m.mapInfo \ {n} : SameEntry(m.mapInfo, r.mapInfo, k)
      BY <1>7, DeleteConsistent
    <2>2. Placed(r.mapInfo, Y)
      BY ZenonT(30), <2>1 DEF Consistent, Placed
    <2>3. Consistent(r, Y, d)
      BY ZenonT(30), <2>1, <2>2 DEF Consistent
    <2> QED
      BY <2>1, <2>3 DEF SameEntry
  <1>8. CASE r = AddRef(c, n, slot) /\ m.vvNew[slot] # n
    <2>1. /\ Consistent(c, X, d)
          /\ c.vvNew[slot] = None
          /\ \A k \in DOMAIN m.mapInfo : k # m.vvNew[slot] => SameEntry(m.mapInfo, c.mapInfo, k)
      BY <1>1, <1>3, ClearNewConsistent
    <2>2. SameEntry(m.mapInfo, c.mapInfo, n)
      BY <2>1, <1>8
    <2>3. /\ n \in DOMAIN c.mapInfo /\ ~c.mapInfo[n].tried /\ slot = SlotIn(c.mapInfo[n].addr, slot[1])
          /\ c.mapInfo[n].refs < MaxRefs
      BY <2>2, <1>1 DEF SameEntry
    <2>4. Consistent(r, Y, d)
      BY <2>1, <2>3, <1>1, <1>8, AddRefConsistent
    <2>5. /\ DOMAIN r.mapInfo = DOMAIN c.mapInfo
          /\ \A k \in DOMAIN c.mapInfo \ {n} : r.mapInfo[k] = c.mapInfo[k]
      BY <2>1, <2>3, <2>4, <1>1, <1>8, AddRefConsistent
    <2>6. ASSUME NEW k \in DOMAIN m.mapInfo, m.mapInfo[k].tried
          PROVE  k \in DOMAIN r.mapInfo /\ r.mapInfo[k].addr = m.mapInfo[k].addr
      <3>1. k # n /\ k # m.vvNew[slot]
        <4>1. k # None
          BY <1>M DEF Maps, None
        <4> QED
          BY <4>1, <2>6, <1>N, <1>1 DEF NewTable
      <3>2. SameEntry(m.mapInfo, c.mapInfo, k)
        BY <3>1, <2>1
      <3> QED
        BY <3>1, <3>2, <2>5 DEF SameEntry
    <2> QED
      BY <2>4, <2>6
  <1> QED
    BY <1>2, <1>5, <1>6, <1>7, <1>8

-----------------------------------------------------------------------------
(* Good_ and GetAddr_. *)

\* The assignments Good_ makes in any case.
Marked(m, n) == [m EXCEPT !.mapInfo = [m.mapInfo EXCEPT ![n].good = TRUE]]

LEMMA GoodOnlyConsistent ==
  ASSUME NEW m, NEW X, NEW d \in Int, Consistent(m, X, d), NEW n \in DOMAIN m.mapInfo,
         NEW r, r = Marked(m, n)
  PROVE  /\ Consistent(r, X, d)
         /\ DOMAIN r.mapInfo = DOMAIN m.mapInfo
         /\ \A k \in DOMAIN m.mapInfo : r.mapInfo[k].addr = m.mapInfo[k].addr
                                        /\ r.mapInfo[k].tried = m.mapInfo[k].tried
         /\ Worked(r.mapInfo, n)
  <1> DEFINE mi == [m.mapInfo EXCEPT ![n].good = TRUE]
  <1>F. Fields(m)
    BY DEF Consistent
  <1>M. Maps(m.mapInfo, m.mapAddr, m.nIdCount)
    BY DEF Consistent
  <1>O. Order(m.mapInfo, m.vRandom)
    BY DEF Consistent
  <1>N. NewTable(m.mapInfo, m.vvNew)
    BY DEF Consistent
  <1>T. TriedTable(m.mapInfo, m.vvTried)
    BY DEF Consistent
  <1>C. Counts(m.mapInfo, m.vRandom, m.nNew, m.nTried, d)
    BY DEF Consistent
  <1>P. Placed(m.mapInfo, X)
    BY DEF Consistent
  <1>1. /\ DOMAIN mi = DOMAIN m.mapInfo
        /\ \A k \in DOMAIN m.mapInfo \ {n} : mi[k] = m.mapInfo[k]
        /\ mi[n] = [m.mapInfo[n] EXCEPT !.good = TRUE]
    OBVIOUS
  <1>2. m.mapInfo[n] \in Info
    BY <1>M DEF Maps
  <1>3. r = [m EXCEPT !.mapInfo = mi]
    BY DEF Marked
  <1> HIDE DEF mi
  <1>4. /\ mi[n] \in Info /\ mi[n].addr = m.mapInfo[n].addr /\ mi[n].tried = m.mapInfo[n].tried
        /\ mi[n].pos = m.mapInfo[n].pos /\ mi[n].refs = m.mapInfo[n].refs
    BY ZenonT(30), <1>1, <1>2 DEF Info
  <1>5. mi[n].good
    BY <1>1, <1>2 DEF Info
  <1>6. /\ r.mapInfo = mi /\ r.mapAddr = m.mapAddr /\ r.vRandom = m.vRandom /\ r.nIdCount = m.nIdCount
        /\ r.nNew = m.nNew /\ r.nTried = m.nTried /\ r.vvNew = m.vvNew /\ r.vvTried = m.vvTried
        /\ Fields(r)
    BY ZenonT(30), <1>F, <1>3 DEF Fields
  <1>7. \A k \in DOMAIN m.mapInfo :
          /\ mi[k] \in Info /\ mi[k].addr = m.mapInfo[k].addr /\ mi[k].tried = m.mapInfo[k].tried
          /\ mi[k].pos = m.mapInfo[k].pos /\ mi[k].refs = m.mapInfo[k].refs
    BY ZenonT(30), <1>M, <1>1, <1>4 DEF Maps
  <1>8. Maps(mi, m.mapAddr, m.nIdCount)
    BY <1>M, <1>1, <1>7 DEF Maps
  <1>9. Order(mi, m.vRandom)
    BY <1>O, <1>1, <1>7 DEF Order
  <1>10. NewTable(mi, m.vvNew)
    BY <1>N, <1>1, <1>7 DEF NewTable
  <1>11. TriedTable(mi, m.vvTried)
    <2>1. \A k \in DOMAIN mi : mi[k].tried => mi[k].good
      BY ZenonT(30), <1>T, <1>1, <1>5 DEF TriedTable
    <2> QED
      BY <2>1, <1>T, <1>1, <1>7 DEF TriedTable
  <1>12. NewOf(mi) = NewOf(m.mapInfo) /\ TriedOf(mi) = TriedOf(m.mapInfo)
    BY <1>1, <1>7 DEF NewOf, TriedOf
  <1>13. Counts(mi, m.vRandom, m.nNew, m.nTried, d)
    BY <1>C, <1>1, <1>12 DEF Counts
  <1>14. Placed(mi, X)
    BY <1>P, <1>1, <1>7 DEF Placed
  <1>15. Consistent(r, X, d)
    BY <1>6, <1>8, <1>9, <1>10, <1>11, <1>13, <1>14 DEF Consistent
  <1> QED
    BY ZenonT(30), <1>1, <1>5, <1>6, <1>7, <1>15 DEF Worked

LEMMA ShuffleConsistent ==
  ASSUME NEW m, NEW X, NEW d \in Int, Consistent(m, X, d),
         NEW p \in Bijection(1..Len(m.vRandom), 1..Len(m.vRandom)),
         NEW r, r = Shuffle(m, p)
  PROVE  /\ Consistent(r, X, d)
         /\ \A k \in DOMAIN m.mapInfo : SameEntry(m.mapInfo, r.mapInfo, k)
  <1> DEFINE L == Len(m.vRandom)
  <1> DEFINE at(n) == CHOOSE i \in 1..L : p[i] = m.mapInfo[n].pos
  <1> DEFINE vr == [i \in 1..L |-> m.vRandom[p[i]]]
  <1> DEFINE mi == [n \in DOMAIN m.mapInfo |-> [m.mapInfo[n] EXCEPT !.pos = at(n)]]
  <1>F. Fields(m)
    BY DEF Consistent
  <1>M. Maps(m.mapInfo, m.mapAddr, m.nIdCount)
    BY DEF Consistent
  <1>O. Order(m.mapInfo, m.vRandom)
    BY DEF Consistent
  <1>N. NewTable(m.mapInfo, m.vvNew)
    BY DEF Consistent
  <1>T. TriedTable(m.mapInfo, m.vvTried)
    BY DEF Consistent
  <1>C. Counts(m.mapInfo, m.vRandom, m.nNew, m.nTried, d)
    BY DEF Consistent
  <1>P. Placed(m.mapInfo, X)
    BY DEF Consistent
  <1>1. r = [m EXCEPT !.vRandom = vr, !.mapInfo = mi]
    BY DEF Shuffle
  <1>2. /\ p \in [1..L -> 1..L] /\ \A j \in 1..L : \E i \in 1..L : p[i] = j
        /\ \A i, j \in 1..L : p[i] = p[j] => i = j
    BY DEF Bijection, Injection, Surjection, IsInjective
  <1>3. L \in Nat
    BY <1>O DEF Order
  <1>4. \A n \in DOMAIN m.mapInfo : at(n) \in 1..L /\ p[at(n)] = m.mapInfo[n].pos
    BY ZenonT(30), <1>O, <1>2 DEF Order
  <1>5. /\ vr \in Seq(Nat) /\ Len(vr) = L /\ \A i \in 1..L : vr[i] = m.vRandom[p[i]]
    <2>1. \A i \in 1..L : m.vRandom[p[i]] \in Nat
      <3>1. \A j \in 1..L : m.vRandom[j] \in Nat
        BY <1>O DEF Order
      <3>2. \A i \in 1..L : p[i] \in 1..L
        BY ZenonT(30), <1>2
      <3> HIDE DEF L
      <3> QED
        BY <3>1, <3>2
    <2> QED
      BY <2>1, <1>3
  <1>6. /\ DOMAIN mi = DOMAIN m.mapInfo
        /\ \A n \in DOMAIN m.mapInfo : mi[n] = [m.mapInfo[n] EXCEPT !.pos = at(n)]
    OBVIOUS
  <1> HIDE DEF L, at, vr, mi
  <1>7. \A n \in DOMAIN m.mapInfo : SameEntry(m.mapInfo, mi, n) /\ mi[n].pos = at(n)
    <2> SUFFICES ASSUME NEW n \in DOMAIN m.mapInfo
                 PROVE  SameEntry(m.mapInfo, mi, n) /\ mi[n].pos = at(n)
      OBVIOUS
    <2>1. m.mapInfo[n] \in Info /\ at(n) \in Int /\ mi[n] = [m.mapInfo[n] EXCEPT !.pos = at(n)]
      BY <1>M, <1>3, <1>4, <1>6 DEF Maps
    <2> QED
      BY <2>1, <1>6, PosChange DEF SameEntry
  <1>8. /\ r.mapInfo = mi /\ r.vRandom = vr /\ r.mapAddr = m.mapAddr /\ r.nIdCount = m.nIdCount
        /\ r.nNew = m.nNew /\ r.nTried = m.nTried /\ r.vvNew = m.vvNew /\ r.vvTried = m.vvTried
        /\ Fields(r)
    BY ZenonT(30), <1>F, <1>1 DEF Fields
  <1>9. Order(mi, vr)
    <2>1. \A n \in DOMAIN m.mapInfo : mi[n].pos \in 1..L /\ vr[mi[n].pos] = n
      <3> SUFFICES ASSUME NEW n \in DOMAIN m.mapInfo PROVE mi[n].pos \in 1..L /\ vr[mi[n].pos] = n
        OBVIOUS
      <3>1. mi[n].pos = at(n) /\ at(n) \in 1..L /\ p[at(n)] = m.mapInfo[n].pos
        BY <1>4, <1>7
      <3>2. vr[at(n)] = m.vRandom[m.mapInfo[n].pos]
        BY <3>1, <1>5
      <3> QED
        BY <3>1, <3>2, <1>O DEF Order
    <2>2. \A i \in 1..L : vr[i] \in DOMAIN m.mapInfo /\ mi[vr[i]].pos = i
      <3> SUFFICES ASSUME NEW i \in 1..L PROVE vr[i] \in DOMAIN m.mapInfo /\ mi[vr[i]].pos = i
        OBVIOUS
      <3>1. p[i] \in 1..L /\ vr[i] = m.vRandom[p[i]]
        BY ZenonT(30), <1>2, <1>5
      <3>2. vr[i] \in DOMAIN m.mapInfo /\ m.mapInfo[vr[i]].pos = p[i]
        BY <3>1, <1>O DEF Order, L
      <3>3. p[at(vr[i])] = p[i] /\ at(vr[i]) \in 1..L
        BY <3>2, <1>4
      <3> QED
        BY <3>2, <3>3, <1>2, <1>7
    <2> QED
      BY <2>1, <2>2, <1>5, <1>6 DEF Order
  <1>10. /\ Maps(mi, m.mapAddr, m.nIdCount) /\ NewTable(mi, m.vvNew) /\ TriedTable(mi, m.vvTried)
         /\ Placed(mi, X) /\ NewOf(mi) = NewOf(m.mapInfo) /\ TriedOf(mi) = TriedOf(m.mapInfo)
    BY <1>M, <1>N, <1>T, <1>P, <1>6, <1>7, SameEntries
  <1>11. Counts(mi, vr, m.nNew, m.nTried, d)
    BY <1>C, <1>5, <1>6, <1>10 DEF Counts, L
  <1>12. Consistent(r, X, d)
    BY <1>8, <1>9, <1>10, <1>11 DEF Consistent
  <1> QED
    BY <1>7, <1>8, <1>12

-----------------------------------------------------------------------------
(* The invariant and the theorems. *)

\* Between two operations nothing is missing.
IInv == Consistent(am, {}, 0)

\* What an operation keeps of the tried entries.
Survive(m, r) == \A n \in Tried(m) : m.mapInfo[n].addr.ip \in DOMAIN r.mapAddr

LEMMA Survivors ==
  ASSUME NEW m, NEW r, NEW X, NEW d \in Int, Consistent(r, X, d),
         \A k \in DOMAIN m.mapInfo : m.mapInfo[k].tried =>
           k \in DOMAIN r.mapInfo /\ r.mapInfo[k].addr = m.mapInfo[k].addr
  PROVE  Survive(m, r)
  <1>1. Maps(r.mapInfo, r.mapAddr, r.nIdCount)
    BY DEF Consistent
  <1> QED
    BY <1>1 DEF Survive, Tried, Maps

LEMMA InitIInv == Init => IInv
  <1> SUFFICES ASSUME am = Empty PROVE Consistent(am, {}, 0)
    BY DEF Init, IInv
  <1>1. /\ DOMAIN am.mapInfo = {} /\ DOMAIN am.mapAddr = {} /\ am.vRandom = <<>>
        /\ am.nIdCount = 0 /\ am.nNew = 0 /\ am.nTried = 0
        /\ am.vvNew = [s \in NewSlot |-> None] /\ am.vvTried = [s \in TriedSlot |-> None]
        /\ Fields(am)
    BY DEF Empty, Fields
  <1>2. Maps(am.mapInfo, am.mapAddr, am.nIdCount)
    BY <1>1 DEF Maps
  <1>3. Order(am.mapInfo, am.vRandom)
    BY <1>1 DEF Order
  <1>4. NewTable(am.mapInfo, am.vvNew)
    BY <1>1 DEF NewTable
  <1>5. TriedTable(am.mapInfo, am.vvTried)
    BY <1>1 DEF TriedTable
  <1>6. Counts(am.mapInfo, am.vRandom, am.nNew, am.nTried, 0)
    <2>1. NewOf(am.mapInfo) = {} /\ TriedOf(am.mapInfo) = {}
      BY <1>1 DEF NewOf, TriedOf
    <2>2. Len(am.vRandom) = 0
      BY <1>1
    <2> QED
      BY <1>1, <2>1, <2>2, FS_EmptySet DEF Counts
  <1>7. Placed(am.mapInfo, {})
    BY <1>1 DEF Placed
  <1> QED
    BY <1>1, <1>2, <1>3, <1>4, <1>5, <1>6, <1>7 DEF Consistent

LEMMA AddUnknownStep ==
  ASSUME NEW svc \in Service, NEW src \in Source, NEW terrible \in BOOLEAN,
         IInv, AddUnknown(svc, src, terrible)
  PROVE  IInv' /\ Survive(am, am')
  <1> DEFINE n == am.nIdCount
  <1> DEFINE c == Created(am, svc, src)
  <1> DEFINE X == {}
  <1> DEFINE Y == X \cup {n}
  <1> DEFINE Z == Y \ {n}
  <1>1. /\ Consistent(am, X, 0) /\ svc.ip \notin DOMAIN am.mapAddr
        /\ n = am.nIdCount /\ c = Created(am, svc, src)
        /\ Y = X \cup {n} /\ Z = Y \ {n} /\ am' = Place(c, n, src, terrible)
    BY DEF IInv, AddUnknown, Created
  <1>2. Z = {}
    OBVIOUS
  <1> HIDE DEF n, c, X, Y, Z
  <1>3. Consistent(c, Y, 0)
    BY <1>1, CreateConsistent
  <1>4. /\ n \notin DOMAIN am.mapInfo
        /\ DOMAIN c.mapInfo = DOMAIN am.mapInfo \cup {n}
        /\ \A k \in DOMAIN am.mapInfo : c.mapInfo[k] = am.mapInfo[k]
        /\ ~c.mapInfo[n].tried
        /\ c.mapInfo[n].refs = 0
    <2>1. n \notin DOMAIN am.mapInfo
      BY <1>1, <1>3, CreateConsistent
    <2>2. DOMAIN c.mapInfo = DOMAIN am.mapInfo \cup {n}
      BY <1>1, <1>3, CreateConsistent
    <2>3. \A k \in DOMAIN am.mapInfo : c.mapInfo[k] = am.mapInfo[k]
      BY <1>1, <1>3, CreateConsistent
    <2>4. ~c.mapInfo[n].tried /\ c.mapInfo[n].refs = 0
      BY <1>1, <1>3, CreateConsistent
    <2> QED
      BY <2>1, <2>2, <2>3, <2>4
  <1>5. n \in DOMAIN c.mapInfo /\ c.mapInfo[n].refs < MaxRefs
    BY <1>4, AddrManAssumption
  <1>6. /\ am' = Place(c, n, src, terrible) /\ Z = Y \ {n} /\ ~c.mapInfo[n].tried
    BY <1>1, <1>4
  <1>7. Consistent(am', Z, 0)
    BY <1>3, <1>5, <1>6, PlaceConsistent
  <1>8. \A k \in DOMAIN c.mapInfo : c.mapInfo[k].tried =>
          k \in DOMAIN am'.mapInfo /\ am'.mapInfo[k].addr = c.mapInfo[k].addr
    BY <1>3, <1>5, <1>6, <1>7, PlaceConsistent
  <1>9. \A k \in DOMAIN am.mapInfo : am.mapInfo[k].tried =>
          k \in DOMAIN am'.mapInfo /\ am'.mapInfo[k].addr = am.mapInfo[k].addr
    BY <1>4, <1>8
  <1> QED
    BY <1>2, <1>7, <1>9, Survivors DEF IInv

LEMMA AddKnownStep ==
  ASSUME NEW ip \in Ip, NEW src \in Source, NEW terrible \in BOOLEAN, IInv, AddKnown(ip, src, terrible)
  PROVE  IInv' /\ Survive(am, am')
  <1> DEFINE n == am.mapAddr[ip]
  <1> DEFINE X == {}
  <1> DEFINE Z == X \ {n}
  <1>1. /\ Consistent(am, X, 0) /\ ip \in DOMAIN am.mapAddr /\ ~am.mapInfo[n].tried
        /\ am.mapInfo[n].refs # MaxRefs /\ am' = Place(am, n, src, terrible)
        /\ Z = X \ {n}
    BY DEF IInv, AddKnown, MayAddAgain
  <1>2. Z = {}
    OBVIOUS
  <1>3. n \in DOMAIN am.mapInfo
    BY ZenonT(30), <1>1 DEF Consistent, Maps
  <1> HIDE DEF n, X, Z
  <1>4. am.mapInfo[n].refs < MaxRefs
    <2>1. am.mapInfo[n].refs <= MaxRefs /\ am.mapInfo[n].refs \in Int
      BY ZenonT(30), <1>1, <1>3 DEF Consistent, NewTable, Maps, Info
    <2>2. am.mapInfo[n].refs # MaxRefs
      BY <1>1
    <2>3. MaxRefs \in Int
      BY AddrManAssumption
    <2> HIDE DEF n
    <2> QED
      BY <2>1, <2>2, <2>3
  <1>5. Consistent(am', Z, 0)
    BY <1>1, <1>3, <1>4, PlaceConsistent
  <1>6. \A k \in DOMAIN am.mapInfo : am.mapInfo[k].tried =>
          k \in DOMAIN am'.mapInfo /\ am'.mapInfo[k].addr = am.mapInfo[k].addr
    BY <1>1, <1>3, <1>4, <1>5, PlaceConsistent
  <1> QED
    BY <1>2, <1>5, <1>6, Survivors DEF IInv

LEMMA GoodStep ==
  ASSUME NEW svc \in Service, IInv, Good(svc)
  PROVE  IInv' /\ Survive(am, am')
  <1> DEFINE n == am.mapAddr[svc.ip]
  <1> DEFINE m == Marked(am, n)
  <1> DEFINE X == {}
  <1>1. /\ Consistent(am, X, 0) /\ svc.ip \in DOMAIN am.mapAddr
        /\ m = Marked(am, n)
        /\ am' = IF am.mapInfo[n].tried \/ BucketsOf(am, n) = {} THEN m ELSE MakeTried(m, n)
    BY DEF IInv, Good, Marked
  <1>2. n \in DOMAIN am.mapInfo
    BY ZenonT(30), <1>1 DEF Consistent, Maps
  <1>3. X = {}
    OBVIOUS
  <1> HIDE DEF n, m, X
  <1>4. Consistent(m, X, 0)
    BY <1>1, <1>2, GoodOnlyConsistent
  <1>5. /\ DOMAIN m.mapInfo = DOMAIN am.mapInfo
        /\ \A k \in DOMAIN am.mapInfo : m.mapInfo[k].addr = am.mapInfo[k].addr
                                        /\ m.mapInfo[k].tried = am.mapInfo[k].tried
        /\ Worked(m.mapInfo, n)
    <2>1. DOMAIN m.mapInfo = DOMAIN am.mapInfo
      BY <1>1, <1>2, <1>4, GoodOnlyConsistent
    <2>2. \A k \in DOMAIN am.mapInfo : m.mapInfo[k].addr = am.mapInfo[k].addr
                                       /\ m.mapInfo[k].tried = am.mapInfo[k].tried
      BY <1>1, <1>2, <1>4, GoodOnlyConsistent
    <2>3. Worked(m.mapInfo, n)
      BY <1>1, <1>2, <1>4, GoodOnlyConsistent
    <2> QED
      BY <2>1, <2>2, <2>3
  <1>6. CASE am' = m
    BY <1>3, <1>4, <1>5, <1>6, Survivors DEF IInv
  <1>7. CASE am' = MakeTried(m, n) /\ ~am.mapInfo[n].tried
    <2>1. n \in DOMAIN m.mapInfo /\ ~m.mapInfo[n].tried
      BY <1>2, <1>5, <1>7
    <2>2. Consistent(am', X, 0)
      BY <2>1, <1>4, <1>5, <1>7, MakeTriedConsistent
    <2>3. \A k \in DOMAIN m.mapInfo : m.mapInfo[k].tried =>
            k \in DOMAIN am'.mapInfo /\ am'.mapInfo[k].addr = m.mapInfo[k].addr
      BY <2>1, <2>2, <1>4, <1>5, <1>7, MakeTriedConsistent
    <2>4. \A k \in DOMAIN am.mapInfo : am.mapInfo[k].tried =>
            k \in DOMAIN am'.mapInfo /\ am'.mapInfo[k].addr = am.mapInfo[k].addr
      BY <2>3, <1>5
    <2> QED
      BY <2>2, <2>4, <1>3, Survivors DEF IInv
  <1> QED
    BY <1>1, <1>6, <1>7

LEMMA GetAddrStep ==
  ASSUME IInv, GetAddr
  PROVE  IInv' /\ Survive(am, am')
  <1> DEFINE X == {}
  <1>1. Consistent(am, X, 0) /\ X = {}
    BY DEF IInv
  <1> HIDE DEF X
  <1>2. PICK p \in Bijection(1..Len(am.vRandom), 1..Len(am.vRandom)) :
          am' = Shuffle(am, p)
    BY DEF GetAddr
  <1>3. Consistent(am', X, 0)
    BY <1>1, <1>2, ShuffleConsistent
  <1>4. \A k \in DOMAIN am.mapInfo : SameEntry(am.mapInfo, am'.mapInfo, k)
    BY <1>1, <1>2, <1>3, ShuffleConsistent
  <1>5. \A k \in DOMAIN am.mapInfo : am.mapInfo[k].tried =>
          k \in DOMAIN am'.mapInfo /\ am'.mapInfo[k].addr = am.mapInfo[k].addr
    BY <1>4 DEF SameEntry
  <1> QED
    BY <1>1, <1>3, <1>5, Survivors DEF IInv

LEMMA NextIInv == IInv /\ [Next]_am => IInv' /\ (UNCHANGED am \/ Survive(am, am'))
  <1> SUFFICES ASSUME IInv, [Next]_am PROVE IInv' /\ (UNCHANGED am \/ Survive(am, am'))
    OBVIOUS
  <1>1. CASE UNCHANGED am
    BY <1>1 DEF IInv
  <1>2. CASE \E svc \in Service, src \in Source, terrible \in BOOLEAN : AddUnknown(svc, src, terrible)
    BY <1>2, AddUnknownStep
  <1>3. CASE \E ip \in Ip, src \in Source, terrible \in BOOLEAN : AddKnown(ip, src, terrible)
    BY <1>3, AddKnownStep
  <1>4. CASE \E svc \in Service : Good(svc)
    BY <1>4, GoodStep
  <1>5. CASE GetAddr
    BY <1>5, GetAddrStep
  <1> QED
    BY <1>1, <1>2, <1>3, <1>4, <1>5 DEF Next

\* The invariant holds between any two operations.
THEOREM Invariance == Spec => []IInv
  BY InitIInv, NextIInv, PTL DEF Spec

LEMMA IInvFacts ==
  ASSUME IInv
  PROVE  /\ Maps(am.mapInfo, am.mapAddr, am.nIdCount) /\ Order(am.mapInfo, am.vRandom)
         /\ NewTable(am.mapInfo, am.vvNew) /\ TriedTable(am.mapInfo, am.vvTried)
         /\ Placed(am.mapInfo, {})
         /\ New(am) = NewOf(am.mapInfo) /\ Tried(am) = TriedOf(am.mapInfo)
         /\ IsFiniteSet(New(am)) /\ Cardinality(New(am)) \in Nat
         /\ IsFiniteSet(Tried(am)) /\ Cardinality(Tried(am)) \in Nat
         /\ am.nNew = Cardinality(New(am)) /\ am.nTried = Cardinality(Tried(am))
         /\ Len(am.vRandom) = am.nTried + am.nNew
  <1>1. /\ Maps(am.mapInfo, am.mapAddr, am.nIdCount) /\ Order(am.mapInfo, am.vRandom)
        /\ NewTable(am.mapInfo, am.vvNew) /\ TriedTable(am.mapInfo, am.vvTried)
        /\ Placed(am.mapInfo, {}) /\ Counts(am.mapInfo, am.vRandom, am.nNew, am.nTried, 0)
    BY DEF IInv, Consistent
  <1>2. New(am) = NewOf(am.mapInfo) /\ Tried(am) = TriedOf(am.mapInfo)
    BY DEF New, NewOf, Tried, TriedOf
  <1>3. /\ IsFiniteSet(NewOf(am.mapInfo)) /\ Cardinality(NewOf(am.mapInfo)) \in Nat
        /\ IsFiniteSet(TriedOf(am.mapInfo)) /\ Cardinality(TriedOf(am.mapInfo)) \in Nat
        /\ Cardinality(DOMAIN am.mapInfo) = Cardinality(NewOf(am.mapInfo)) + Cardinality(TriedOf(am.mapInfo))
    BY <1>1, TablesDivide DEF Counts
  <1>4. /\ am.nNew = Cardinality(NewOf(am.mapInfo)) - 0 /\ am.nTried = Cardinality(TriedOf(am.mapInfo))
        /\ Len(am.vRandom) = Cardinality(DOMAIN am.mapInfo)
    BY <1>1 DEF Counts
  <1>5. am.nNew = Cardinality(NewOf(am.mapInfo)) /\ Len(am.vRandom) = am.nTried + am.nNew
    BY <1>3, <1>4
  <1> QED
    BY <1>1, <1>2, <1>3, <1>4, <1>5

LEMMA IInvTypeOK == IInv => TypeOK
  <1> SUFFICES ASSUME IInv PROVE TypeOK
    OBVIOUS
  <1>0. /\ Maps(am.mapInfo, am.mapAddr, am.nIdCount) /\ Order(am.mapInfo, am.vRandom)
        /\ NewTable(am.mapInfo, am.vvNew) /\ TriedTable(am.mapInfo, am.vvTried)
    BY IInvFacts
  <1>1. /\ DOMAIN am.mapInfo \subseteq 0..(am.nIdCount - 1)
        /\ \A n \in DOMAIN am.mapInfo : am.mapInfo[n] \in Info
        /\ DOMAIN am.mapAddr \subseteq Ip
        /\ am.nIdCount \in Nat
    BY ONLY <1>0 DEF Maps
  <1>2. am.vRandom \in Seq(Nat)
    BY ONLY <1>0, <1>1 DEF Order
  <1>3. am.vvNew \in [NewSlot -> Nat \cup {None}]
    BY ONLY <1>0 DEF NewTable
  <1>4. am.vvTried \in [TriedSlot -> Nat \cup {None}]
    BY ONLY <1>0 DEF TriedTable
  <1> QED
    BY ONLY <1>1, <1>2, <1>3, <1>4 DEF TypeOK

LEMMA IInvCheck == IInv => CheckPasses
  <1> SUFFICES ASSUME IInv PROVE Check(am)
    BY DEF CheckPasses
  <1>a. Maps(am.mapInfo, am.mapAddr, am.nIdCount)
    BY IInvFacts
  <1>b. Order(am.mapInfo, am.vRandom)
    BY IInvFacts
  <1>c. NewTable(am.mapInfo, am.vvNew)
    BY IInvFacts
  <1>d. TriedTable(am.mapInfo, am.vvTried)
    BY IInvFacts
  <1>e. Placed(am.mapInfo, {})
    BY IInvFacts
  <1>1. \A n \in Tried(am) : am.mapInfo[n].good /\ am.mapInfo[n].refs = 0
    <2> SUFFICES ASSUME NEW n \in DOMAIN am.mapInfo, am.mapInfo[n].tried
                 PROVE  am.mapInfo[n].good /\ am.mapInfo[n].refs = 0
      BY DEF Tried
    <2>1. n # None /\ \A t \in NewSlot : am.vvNew[t] # n
      BY <1>a, <1>c DEF Maps, NewTable, None
    <2>2. am.mapInfo[n].refs = 0
      BY ONLY <2>1, <1>c, n \in DOMAIN am.mapInfo, NoSlot
    <2> QED
      BY ZenonT(30), <2>2, <1>d DEF TriedTable
  <1>2. \A n \in New(am) : am.mapInfo[n].refs \in 1..MaxRefs
    <2> SUFFICES ASSUME NEW n \in DOMAIN am.mapInfo, ~am.mapInfo[n].tried
                 PROVE  am.mapInfo[n].refs \in 1..MaxRefs
      BY DEF New
    <2>1. am.mapInfo[n].refs >= 1 /\ am.mapInfo[n].refs <= MaxRefs /\ am.mapInfo[n].refs \in Int
      BY ZenonT(30), <1>a, <1>c, <1>e DEF Placed, NewTable, Maps, Info
    <2>2. MaxRefs \in Int
      BY AddrManAssumption
    <2> QED
      BY <2>1, <2>2
  <1>3. \A n \in DOMAIN am.mapInfo :
          /\ am.mapInfo[n].addr.ip \in DOMAIN am.mapAddr
          /\ am.mapAddr[am.mapInfo[n].addr.ip] = n
          /\ am.mapInfo[n].pos \in 1..Len(am.vRandom)
          /\ am.vRandom[am.mapInfo[n].pos] = n
    BY ZenonT(30), <1>a, <1>b DEF Maps, Order
  <1>4. \A s \in TriedSlot : am.vvTried[s] # None =>
          /\ am.vvTried[s] \in Tried(am)
          /\ GetTriedSlot[am.mapInfo[am.vvTried[s]].addr] = s
    BY ZenonT(30), <1>d DEF TriedTable, Tried
  <1>5. \A n \in Tried(am) : \E s \in TriedSlot : am.vvTried[s] = n
    <2> SUFFICES ASSUME NEW n \in DOMAIN am.mapInfo, am.mapInfo[n].tried
                 PROVE  \E s \in TriedSlot : am.vvTried[s] = n
      BY DEF Tried
    <2>1. am.mapInfo[n].addr \in Service
      BY ZenonT(30), <1>a DEF Maps, Info
    <2>2. GetTriedSlot[am.mapInfo[n].addr] \in TriedSlot
      BY <2>1, AddrManAssumption
    <2>3. am.vvTried[GetTriedSlot[am.mapInfo[n].addr]] = n
      BY ZenonT(30), <1>d DEF TriedTable
    <2> QED
      BY <2>2, <2>3
  <1>6. \A s \in NewSlot : am.vvNew[s] # None =>
          /\ am.vvNew[s] \in New(am)
          /\ s = SlotIn(am.mapInfo[am.vvNew[s]].addr, s[1])
    BY ZenonT(30), <1>c DEF NewTable, New
  <1>7. \A n \in New(am) : Cardinality(SlotsOf(am, n)) = am.mapInfo[n].refs
    BY ZenonT(30), <1>c DEF NewTable, New, SlotsOf, SlotsWith
  <1>8. /\ Len(am.vRandom) = am.nTried + am.nNew
        /\ Cardinality(Tried(am)) = am.nTried
        /\ Cardinality(New(am)) = am.nNew
    BY IInvFacts
  <1> QED
    BY ZenonT(30), <1>1, <1>2, <1>3, <1>4, <1>5, <1>6, <1>7, <1>8 DEF Check

LEMMA IInvSelect == IInv => SelectReturns
  <1> SUFFICES ASSUME IInv PROVE SelectReturns
    OBVIOUS
  <1>0. Check(am)
    BY IInvCheck DEF CheckPasses
  <1>1. ASSUME am.nTried > 0
        PROVE  \E s \in TriedSlot : am.vvTried[s] # None
    <2>1. Tried(am) # {}
      BY <1>1, IInvFacts, FS_EmptySet
    <2>2. PICK n \in Tried(am) : TRUE
      BY <2>1
    <2>3. Maps(am.mapInfo, am.mapAddr, am.nIdCount)
      BY IInvFacts
    <2>4. n # None
      BY ONLY <2>2, <2>3 DEF Maps, Tried, None
    <2> QED
      BY <1>0, <2>2, <2>4 DEF Check
  <1>2. ASSUME am.vRandom # <<>>, am.nTried = 0 \/ am.nNew # 0
        PROVE  \E s \in NewSlot : am.vvNew[s] # None
    <2>1. Len(am.vRandom) # 0
      BY <1>2, IInvFacts DEF Order
    <2>2. am.nNew # 0
      BY <1>2, <2>1, IInvFacts
    <2>3. New(am) # {}
      BY <2>2, IInvFacts, FS_EmptySet
    <2>4. PICK n \in New(am) : TRUE
      BY <2>3
    <2>m. Maps(am.mapInfo, am.mapAddr, am.nIdCount)
      BY IInvFacts
    <2>r. am.mapInfo[n].refs \in 1..MaxRefs
      BY <1>0, <2>4 DEF Check
    <2>5. n \in DOMAIN am.mapInfo /\ am.mapInfo[n].refs # 0 /\ n # None
      BY ONLY <2>r, <2>4, <2>m, AddrManAssumption DEF New, Maps, None
    <2>6. NewTable(am.mapInfo, am.vvNew)
      BY IInvFacts
    <2>7. PICK t \in NewSlot : am.vvNew[t] = n
      BY <2>5, <2>6, NoSlot
    <2> QED
      BY <2>5, <2>7
  <1> QED
    BY <1>1, <1>2 DEF SelectReturns

\* TypeOK for every set of addresses, table size and hash function.
THEOREM AddrManTypeOK == Spec => []TypeOK
  BY Invariance, IInvTypeOK, PTL

\* Check_ finds no error after any sequence of operations.
THEOREM AddrManCheckPasses == Spec => []CheckPasses
  BY Invariance, IInvCheck, PTL

\* The table Select_ searches is never empty.
THEOREM AddrManSelectReturns == Spec => []SelectReturns
  BY Invariance, IInvSelect, PTL

\* No operation forgets an address that once worked in one step.
THEOREM AddrManTriedSurvives == Spec => TriedSurvives
  <1> DEFINE Kept == am' # Empty => \A n \in Tried(am) : am.mapInfo[n].addr.ip \in DOMAIN am'.mapAddr
  <1>1. IInv /\ [Next]_am => [Kept]_am
    BY NextIInv DEF Survive
  <1>2. Init => IInv
    BY InitIInv
  <1>3. IInv /\ [Next]_am => IInv'
    BY NextIInv
  <1>4. Spec => [][Kept]_am
    <2> HIDE DEF Kept
    <2> QED
      BY <1>1, <1>2, <1>3, PTL DEF Spec
  <1> QED
    BY <1>4 DEF TriedSurvives
=============================================================================
