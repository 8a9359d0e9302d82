------------------------------ MODULE AddrMan ------------------------------
(***************************************************************************)
(* The address manager (addrman.h, addrman.cpp): the addresses of other    *)
(* nodes, kept in a "new" and a "tried" table of buckets, with indexes by  *)
(* id, by network address and in random order. Every public operation runs *)
(* under CAddrMan::cs, so each is one action.                              *)
(*                                                                         *)
(* A bucket and the position in it are hashes of the address, its source   *)
(* and a secret key: here they are constant functions. Times and attempt   *)
(* counters matter only through the decisions they lead to (IsTerrible,    *)
(* "no new information", the stochastic test); each decision is free.      *)
(***************************************************************************)
EXTENDS Integers, Sequences, FiniteSets, Functions

CONSTANTS Ip,           \* network addresses (CNetAddr), all routable
          Service,      \* records of an address and a port (CService)
          Source,       \* where an address was heard of (CNetAddr)
          NewBucket,    \* 0 .. ADDRMAN_NEW_BUCKET_COUNT - 1
          BucketPos,    \* 0 .. ADDRMAN_BUCKET_SIZE - 1
          TriedBucket,  \* 0 .. ADDRMAN_TRIED_BUCKET_COUNT - 1
          GetNewBucket,    \* [Ip \X Source -> NewBucket]
          GetNewPosition,  \* [Service \X NewBucket -> BucketPos]
          GetTriedSlot,    \* [Service -> TriedBucket \X BucketPos]
          MaxRefs,      \* ADDRMAN_NEW_BUCKETS_PER_ADDRESS
          MaxIds        \* bound on nIdCount

VARIABLE am  \* the fields of CAddrMan

NewSlot   == NewBucket \X BucketPos
TriedSlot == TriedBucket \X BucketPos

ASSUME AddrManAssumption ==
  /\ \A svc \in Service : svc.ip \in Ip
  /\ GetNewBucket \in [Ip \X Source -> NewBucket]
  /\ GetNewPosition \in [Service \X NewBucket -> BucketPos]
  /\ GetTriedSlot \in [Service -> TriedSlot]
  /\ MaxRefs \in Nat \ {0}
  /\ MaxIds \in Nat
  /\ IsFiniteSet(NewBucket)
  /\ IsFiniteSet(BucketPos)

None == -1

\* CAddrInfo. refs is nRefCount, pos is nRandomPos + 1 and good stands for
\* nLastSuccess # 0.
Info == [addr : Service, source : Source, tried : BOOLEAN, refs : Int, pos : Int,
         good : BOOLEAN]

\* The slot of the new table an address has in bucket b.
SlotIn(svc, b) == <<b, GetNewPosition[<<svc, b>>]>>

\* The state after Clear().
Empty == [mapInfo  |-> [n \in {} |-> 0],
          mapAddr  |-> [ip \in {} |-> 0],
          vRandom  |-> <<>>,
          nIdCount |-> 0,
          nNew     |-> 0,
          nTried   |-> 0,
          vvNew    |-> [s \in NewSlot |-> None],
          vvTried  |-> [s \in TriedSlot |-> None]]

Put(f, k, v) == [x \in DOMAIN f \cup {k} |-> IF x = k THEN v ELSE f[x]]
Drop(f, k)   == [x \in DOMAIN f \ {k} |-> f[x]]

-----------------------------------------------------------------------------
(* The private helpers, as functions from the fields to the fields. *)

Create(m, svc, src) ==
  LET n == m.nIdCount IN
  [m EXCEPT !.nIdCount = n + 1,
            !.mapInfo  = Put(m.mapInfo, n, [addr |-> svc, source |-> src, tried |-> FALSE, refs |-> 0,
                                            pos |-> Len(m.vRandom) + 1, good |-> FALSE]),
            !.mapAddr  = Put(m.mapAddr, svc.ip, n),
            !.vRandom  = Append(m.vRandom, n)]

SwapRandom(m, i, j) ==
  IF i = j THEN m
  ELSE [m EXCEPT !.mapInfo = [m.mapInfo EXCEPT ![m.vRandom[i]].pos = j, ![m.vRandom[j]].pos = i],
                 !.vRandom = [m.vRandom EXCEPT ![i] = m.vRandom[j], ![j] = m.vRandom[i]]]

\* Delete: the id moves to the end of vRandom and is dropped from there.
Delete(m, n) ==
  LET s == SwapRandom(m, m.mapInfo[n].pos, Len(m.vRandom)) IN
  [s EXCEPT !.vRandom = SubSeq(s.vRandom, 1, Len(s.vRandom) - 1),
            !.mapAddr = Drop(s.mapAddr, s.mapInfo[n].addr.ip),
            !.mapInfo = Drop(s.mapInfo, n),
            !.nNew    = s.nNew - 1]

ClearNew(m, slot) ==
  LET n       == m.vvNew[slot]
      cleared == [m EXCEPT !.mapInfo = [m.mapInfo EXCEPT ![n].refs = m.mapInfo[n].refs - 1],
                           !.vvNew   = [m.vvNew EXCEPT ![slot] = None]]
  IN IF n = None THEN m
     ELSE IF cleared.mapInfo[n].refs = 0 THEN Delete(cleared, n)
     ELSE cleared

\* The buckets of the new table that hold n.
BucketsOf(m, n) == {b \in NewBucket : m.vvNew[SlotIn(m.mapInfo[n].addr, b)] = n}

\* MakeTried, first part: n leaves every new bucket.
LeaveNew(m, n) ==
  [m EXCEPT !.vvNew   = [s \in NewSlot |->
                           IF m.vvNew[s] = n /\ s = SlotIn(m.mapInfo[n].addr, s[1]) THEN None
                           ELSE m.vvNew[s]],
            !.mapInfo = [m.mapInfo EXCEPT ![n].refs = m.mapInfo[n].refs - Cardinality(BucketsOf(m, n))],
            !.nNew    = m.nNew - 1]

\* The place of an entry in the new table for its own source.
Home(info) == SlotIn(info.addr, GetNewBucket[<<info.addr.ip, info.source>>])

\* The entry in a tried slot leaves the tried table ...
Untry(m, slot) ==
  [m EXCEPT !.mapInfo = [m.mapInfo EXCEPT ![m.vvTried[slot]].tried = FALSE],
            !.vvTried = [m.vvTried EXCEPT ![slot] = None],
            !.nTried  = m.nTried - 1]

\* ... and is entered into the new one again.
EnterNew(m, n, slot) ==
  [m EXCEPT !.mapInfo = [m.mapInfo EXCEPT ![n].refs = 1],
            !.vvNew   = [m.vvNew EXCEPT ![slot] = n],
            !.nNew    = m.nNew + 1]

\* MakeTried, second part: the entry in a tried slot goes back to the new
\* table, and whatever is at its place there is cleared.
EvictOverwrites(m, slot) ==
  LET old == m.vvTried[slot] IN
  IF old = None THEN m ELSE EnterNew(Untry(m, slot), old, Home(m.mapInfo[old]))
EvictForgets(m, slot) ==
  LET old == m.vvTried[slot] IN
  IF old = None THEN m ELSE Delete([Untry(m, slot) EXCEPT !.nNew = m.nNew + 1], old)
Evict(m, slot) ==
  LET old == m.vvTried[slot] IN
  IF old = None THEN m
  ELSE EnterNew(ClearNew(Untry(m, slot), Home(m.mapInfo[old])), old, Home(m.mapInfo[old]))

\* MakeTried, last part: n takes the tried slot.
Settle(m, n, slot) ==
  [m EXCEPT !.vvTried = [m.vvTried EXCEPT ![slot] = n],
            !.nTried  = m.nTried + 1,
            !.mapInfo = [m.mapInfo EXCEPT ![n].tried = TRUE]]

MakeTriedNoSlot(m, n) ==
  LET free == Evict(LeaveNew(m, n), GetTriedSlot[m.mapInfo[n].addr])
  IN [free EXCEPT !.nTried  = free.nTried + 1,
                  !.mapInfo = [free.mapInfo EXCEPT ![n].tried = TRUE]]
MakeTried(m, n) ==
  LET slot == GetTriedSlot[m.mapInfo[n].addr]
  IN Settle(Evict(LeaveNew(m, n), slot), n, slot)

\* One more place in the new table.
AddRef(m, n, slot) ==
  [m EXCEPT !.mapInfo = [m.mapInfo EXCEPT ![n].refs = m.mapInfo[n].refs + 1],
            !.vvNew   = [m.vvNew EXCEPT ![slot] = n]]

\* The second half of Add_: give n a place in the bucket of this source.
\* terrible is what IsTerrible says of an entry that is already there.
Place(m, n, src, terrible) ==
  LET info   == m.mapInfo[n]
      slot   == SlotIn(info.addr, GetNewBucket[<<info.addr.ip, src>>])
      there  == m.vvNew[slot]
      insert == there = None \/ terrible \/ (m.mapInfo[there].refs > 1 /\ info.refs = 0)
  IN IF there = n THEN m
     ELSE IF insert THEN AddRef(ClearNew(m, slot), n, slot)
     ELSE IF info.refs = 0 THEN Delete(m, n)
     ELSE m

-----------------------------------------------------------------------------
(* The operations. *)

Init == am = Empty

\* Add_ of an address that is not known yet.
AddUnknown(svc, src, terrible) ==
  /\ svc.ip \notin DOMAIN am.mapAddr
  /\ am.nIdCount < MaxIds
  /\ LET m == [Create(am, svc, src) EXCEPT !.nNew = am.nNew + 1]
     IN am' = Place(m, am.nIdCount, src, terrible)

\* Add_ of a known address, with news, and lucky in the stochastic test; it
\* returns early when the entry is tried or in as many buckets as allowed.
\* The port of the announcement is not looked at.
MayAddAgain(info) == ~info.tried /\ info.refs # MaxRefs

AddKnown(ip, src, terrible) ==
  /\ ip \in DOMAIN am.mapAddr
  /\ LET n == am.mapAddr[ip] IN
     /\ MayAddAgain(am.mapInfo[n])
     /\ am' = Place(am, n, src, terrible)

\* Good_
Good(svc) ==
  /\ svc.ip \in DOMAIN am.mapAddr
  /\ LET n == am.mapAddr[svc.ip]
         m == [am EXCEPT !.mapInfo = [am.mapInfo EXCEPT ![n].good = TRUE]]
     IN /\ am.mapInfo[n].addr = svc
        /\ am' = IF am.mapInfo[n].tried \/ BucketsOf(am, n) = {} THEN m ELSE MakeTried(m, n)

\* GetAddr_ shuffles a prefix of vRandom, in the longest case all of it.
Shuffle(m, p) ==
  [m EXCEPT !.vRandom = [i \in 1..Len(m.vRandom) |-> m.vRandom[p[i]]],
            !.mapInfo = [n \in DOMAIN m.mapInfo |->
                           [m.mapInfo[n] EXCEPT !.pos = CHOOSE i \in 1..Len(m.vRandom) :
                                                          p[i] = m.mapInfo[n].pos]]]

GetAddr == \E p \in Bijection(1..Len(am.vRandom), 1..Len(am.vRandom)) : am' = Shuffle(am, p)

Next ==
  \/ \E svc \in Service, src \in Source, terrible \in BOOLEAN : AddUnknown(svc, src, terrible)
  \/ \E ip \in Ip, src \in Source, terrible \in BOOLEAN : AddKnown(ip, src, terrible)
  \/ \E svc \in Service : Good(svc)
  \/ GetAddr

Spec == Init /\ [][Next]_am
-----------------------------------------------------------------------------
(* Properties. *)

New(m)   == {n \in DOMAIN m.mapInfo : ~m.mapInfo[n].tried}
Tried(m) == {n \in DOMAIN m.mapInfo : m.mapInfo[n].tried}

SlotsOf(m, n) == {s \in NewSlot : m.vvNew[s] = n}

TypeOK ==
  /\ DOMAIN am.mapInfo \subseteq 0..(am.nIdCount - 1)
  /\ \A n \in DOMAIN am.mapInfo : am.mapInfo[n] \in Info
  /\ DOMAIN am.mapAddr \subseteq Ip
  /\ am.vRandom \in Seq(Nat)
  /\ am.nIdCount \in Nat
  /\ am.vvNew \in [NewSlot -> Nat \cup {None}]
  /\ am.vvTried \in [TriedSlot -> Nat \cup {None}]

\* Check_, which a build with DEBUG_ADDRMAN calls around every operation, finds
\* no error: the counters, the reference counts, the three indexes and the two
\* tables agree, through every chain of evictions (the error codes are given).
Check(m) ==
  /\ Len(m.vRandom) = m.nTried + m.nNew                                  \* -7
  /\ \A n \in Tried(m) : m.mapInfo[n].good /\ m.mapInfo[n].refs = 0       \* -1 -2
  /\ \A n \in New(m) : m.mapInfo[n].refs \in 1..MaxRefs                  \* -3 -4
  /\ \A n \in DOMAIN m.mapInfo :
       LET info == m.mapInfo[n] IN
       /\ info.addr.ip \in DOMAIN m.mapAddr
       /\ m.mapAddr[info.addr.ip] = n                                    \* -5
       /\ info.pos \in 1..Len(m.vRandom)
       /\ m.vRandom[info.pos] = n                                        \* -14
  /\ Cardinality(Tried(m)) = m.nTried                                    \* -9
  /\ Cardinality(New(m)) = m.nNew                                        \* -10
  /\ \A s \in TriedSlot : m.vvTried[s] # None =>
       /\ m.vvTried[s] \in Tried(m)                                      \* -11
       /\ GetTriedSlot[m.mapInfo[m.vvTried[s]].addr] = s                 \* -17 -18
  /\ \A n \in Tried(m) : \E s \in TriedSlot : m.vvTried[s] = n           \* -13
  /\ \A s \in NewSlot : m.vvNew[s] # None =>
       /\ m.vvNew[s] \in New(m)                                          \* -12
       /\ s = SlotIn(m.mapInfo[m.vvNew[s]].addr, s[1])                   \* -19
  /\ \A n \in New(m) : Cardinality(SlotsOf(m, n)) = m.mapInfo[n].refs    \* -12 -15
CheckPasses == Check(am)

\* Select_ draws slots until it meets an occupied one, in a loop without another
\* way out, while CAddrMan::cs is held: in the table it has chosen by the
\* counters there is an occupied slot.
SelectReturns ==
  /\ am.nTried > 0 => \E s \in TriedSlot : am.vvTried[s] # None
  /\ am.vRandom # <<>> /\ (am.nTried = 0 \/ am.nNew # 0) => \E s \in NewSlot : am.vvNew[s] # None

\* An address that once worked is not forgotten in one step: MakeTried moves the
\* entry it displaces back to the new table, whatever that table holds there. A
\* start without a readable peers.dat is the exception.
TriedSurvives ==
  [][am' # Empty => \A n \in Tried(am) : am.mapInfo[n].addr.ip \in DOMAIN am'.mapAddr]_am
=============================================================================
