-------------------------------- MODULE Relay --------------------------------
(***************************************************************************)
(* How a transaction gets from the peers that announce it into the pool:     *)
(* requests with a retry at the next peer (AskFor, mapAlreadyAskedFor), and  *)
(* transactions that come before their parents (mapOrphanTransactions,       *)
(* mapOrphanTransactionsByPrev), as main.cpp and net.cpp handle "inv", "tx"  *)
(* and SendMessages, all under cs_main.                                      *)
(*                                                                           *)
(* Transactions are numbers, in the order of their hashes. Each keeps an     *)
(* output nobody spends, so that its coins stay in the view once it is mined.*)
(* Times are relative to now: a request time of 0 or less has come.          *)
(***************************************************************************)
EXTENDS Integers, SequencesExt

CONSTANTS
  Tx, Peer, Responsive,
  Case,          \* the cases that are looked at: the transactions each one spends from, its kind
                 \* ("good", "large" for more than 5000 bytes, and of what is refused when its inputs
                 \* are there "poor", or "bad" with a penalty), what each peer may announce, once (a
                 \* bound), and -maxorphantx
  Retry,         \* two minutes
  MaxAsked       \* MAX_INV_SZ, the size of mapAlreadyAskedFor

ASSUME RelayAssumption ==
  /\ Tx \subseteq Nat /\ Responsive \subseteq Peer /\ Retry \in Nat \ {0} /\ MaxAsked \in Nat \ {0, 1}
  /\ Case \subseteq [parents : [Tx -> SUBSET Tx], kind : [Tx -> {"good", "large", "poor", "bad"}],
                      announces : [Peer -> SUBSET Tx], limit : Nat]

VARIABLES
  case,
  pool, chain,    \* the memory pool, and the transactions of the active chain
  orphans,        \* tx: mapOrphanTransactions with fromPeer; prev: mapOrphanTransactionsByPrev
  asked,          \* mapAlreadyAskedFor
  askFor,         \* mapAskFor of each peer, pairs of a request time and a transaction
  requested,      \* what each peer was sent a getdata for and has not answered
  announced,      \* what each peer has announced
  received, penalized, mined   \* history: transactions that came as "tx", peers that were
                               \* punished, transactions that came in a block first

vars == <<case, pool, chain, orphans, asked, askFor, requested, announced, received, penalized, mined>>
txVars  == <<case, pool, chain, orphans, penalized, mined>>
askVars == <<asked, askFor, requested, announced, received>>

None == [t \in {} |-> 0]
Put(f, k, v) == [x \in DOMAIN f \cup {k} |-> IF x = k THEN v ELSE f[x]]
Drop(f, S)   == [x \in DOMAIN f \ S |-> f[x]]

Parents == case.parents
Kind    == case.kind

Init ==
  /\ case \in Case
  /\ pool = {} /\ chain = {}
  /\ orphans = [tx |-> None, prev |-> None]
  /\ asked = None
  /\ askFor = [p \in Peer |-> {}]
  /\ requested = [p \in Peer |-> {}]
  /\ announced = [p \in Peer |-> {}]
  /\ received = {} /\ penalized = {} /\ mined = {}

AlreadyHave(t) == t \in pool \cup chain \cup DOMAIN orphans.tx

-----------------------------------------------------------------------------
(* Requests. *)

\* limitedmap::insert drops an entry with the least time when the new one fills it.
Insert(t, time) ==
  IF Cardinality(DOMAIN asked) + 1 = MaxAsked
  THEN {Put(Drop(asked, {old}), t, time) : old \in {o \in DOMAIN asked : \A x \in DOMAIN asked : asked[o] <= asked[x]}}
  ELSE {Put(asked, t, time)}

AskForOnce(p, t) ==
  IF t \in DOMAIN asked
  THEN UNCHANGED <<asked, askFor>>
  ELSE /\ asked' \in Insert(t, 0)
       /\ askFor' = [askFor EXCEPT ![p] = @ \cup {<<0, t>>}]
AskFor(p, t) ==
  LET time == IF t \in DOMAIN asked THEN Max({asked[t] + Retry, 0}) ELSE 0 IN
  /\ asked' \in IF t \in DOMAIN asked THEN {[asked EXCEPT ![t] = time]} ELSE Insert(t, time)
  /\ askFor' = [askFor EXCEPT ![p] = @ \cup {<<time, t>>}]

\* "inv" with a transaction.
ReceiveInv(p, t) ==
  /\ t \in case.announces[p] \ announced[p]
  /\ announced' = [announced EXCEPT ![p] = @ \cup {t}]
  /\ IF AlreadyHave(t) THEN UNCHANGED <<asked, askFor>> ELSE AskFor(p, t)
  /\ UNCHANGED <<txVars, requested, received>>

\* SendMessages asks for what is due and still missing.
SendGetData(p) ==
  LET due == {e \in askFor[p] : e[1] <= 0} IN
  /\ due # {}
  /\ askFor' = [askFor EXCEPT ![p] = @ \ due]
  /\ requested' = [requested EXCEPT ![p] = @ \cup {e[2] : e \in {d \in due : ~AlreadyHave(d[2])}}]
  /\ UNCHANGED <<txVars, asked, announced, received>>

\* Time passes. Only the next Retry counts of a request in the past.
Tick ==
  /\ asked' = [t \in DOMAIN asked |-> Max({asked[t] - 1, -Retry})]
  /\ askFor' = [p \in Peer |-> {<<Max({e[1] - 1, 0}), e[2]>> : e \in askFor[p]}]
  /\ <<asked, askFor>>' # <<asked, askFor>>
  /\ UNCHANGED <<txVars, requested, announced, received>>

-----------------------------------------------------------------------------
(* Orphans. *)

AddOrphanTx(m, t, p) ==
  IF t \in DOMAIN m.tx \/ Kind[t] = "large" THEN m
  ELSE [tx |-> Put(m.tx, t, p),
        prev |-> [q \in DOMAIN m.prev \cup Parents[t] |->
                    (IF q \in DOMAIN m.prev THEN m.prev[q] ELSE {}) \cup (IF q \in Parents[t] THEN {t} ELSE {})]]

EraseOrphanTxOnly(m, t) == [m EXCEPT !.tx = Drop(@, {t})]
EraseOrphanTx(m, t) ==
  IF t \notin DOMAIN m.tx THEN m
  ELSE LET less(q) == IF q \in Parents[t] THEN m.prev[q] \ {t} ELSE m.prev[q] IN
       [tx |-> Drop(m.tx, {t}),
        prev |-> [q \in {q \in DOMAIN m.prev : less(q) # {}} |-> less(q)]]

Erased(m, S) == FoldSet(LAMBDA t, n : EraseOrphanTx(n, t), m, S)

\* LimitOrphanTxSize: random ones go.
Limited(m) ==
  IF Cardinality(DOMAIN m.tx) <= case.limit THEN {m}
  ELSE {Erased(m, S) : S \in kSubset(Cardinality(DOMAIN m.tx) - case.limit, DOMAIN m.tx)}

\* AcceptToMemoryPool of t, when p is the pool.
Verdict(t, p) ==
  IF t \in p \cup chain THEN "have"
  ELSE IF ~(Parents[t] \subseteq p \cup chain) THEN "missing"
  ELSE IF Kind[t] = "large" THEN "good" ELSE Kind[t]

\* The walk over the orphans of an accepted transaction: w.work is vWorkQueue,
\* w.erase vEraseQueue, w.bad setMisbehaving.
TryOrphan(w, o) ==
  IF orphans.tx[o] \in w.bad THEN w
  ELSE CASE Verdict(o, w.pool) = "missing" -> w
         [] Verdict(o, w.pool) = "good"    -> [w EXCEPT !.pool = @ \cup {o}, !.work = Append(@, o), !.erase = @ \cup {o}]
         [] Verdict(o, w.pool) = "bad"     -> [w EXCEPT !.bad = @ \cup {orphans.tx[o]}, !.erase = @ \cup {o}]
         [] OTHER                          -> [w EXCEPT !.erase = @ \cup {o}]

Waiting(t) == IF t \in DOMAIN orphans.prev THEN SetToSortSeq(orphans.prev[t], <) ELSE <<>>

WalkOneLevel(w) == FoldLeft(TryOrphan, [w EXCEPT !.work = <<>>], Waiting(Head(w.work)))
RECURSIVE Walk(_)
Walk(w) == IF w.work = <<>> THEN w ELSE Walk(FoldLeft(TryOrphan, [w EXCEPT !.work = Tail(@)], Waiting(Head(w.work))))

\* "tx", of a transaction that is no zerocoin spend.
ReceiveTx(p, t) ==
  LET v == Verdict(t, pool)
      w == Walk([pool |-> pool \cup {t}, work |-> <<t>>, erase |-> {}, bad |-> {}])
  IN
  /\ t \in requested[p]
  /\ requested' = [requested EXCEPT ![p] = @ \ {t}]
  /\ received' = received \cup {t}
  /\ asked' = Drop(asked, {t})
  /\ CASE v = "good"    -> pool' = w.pool /\ orphans' = Erased(orphans, w.erase) /\ penalized' = penalized \cup w.bad
       [] v = "missing" -> orphans' \in Limited(AddOrphanTx(orphans, t, p)) /\ UNCHANGED <<pool, penalized>>
       [] v = "bad"     -> penalized' = penalized \cup {p} /\ UNCHANGED <<pool, orphans>>
       [] OTHER         -> UNCHANGED <<pool, orphans, penalized>>
  /\ UNCHANGED <<case, chain, mined, askFor, announced>>

\* A block with t is connected; the orphans are not looked at.
ConnectTip(t) ==
  /\ t \notin chain /\ Parents[t] \subseteq chain /\ Kind[t] # "bad"
  /\ chain' = chain \cup {t}
  /\ pool' = pool \ {t}
  /\ mined' = IF t \in pool THEN mined ELSE mined \cup {t}
  /\ UNCHANGED <<case, orphans, penalized, askVars>>

Next ==
  \/ \E p \in Peer, t \in Tx : ReceiveInv(p, t) \/ ReceiveTx(p, t)
  \/ \E p \in Peer : SendGetData(p)
  \/ \E t \in Tx : ConnectTip(t)
  \/ Tick

\* Time passes, every peer is served, and a responsive one answers.
Spec ==
  /\ Init /\ [][Next]_vars
  /\ WF_vars(Tick)
  /\ \A p \in Peer : WF_vars(SendGetData(p))
  /\ \A p \in Responsive, t \in Tx : WF_vars(ReceiveTx(p, t))

-----------------------------------------------------------------------------
(* Properties. *)

\* The two orphan maps agree through additions, random evictions and the walk, and
\* the pool of orphans is within its limit: the walk, which reads
\* mapOrphanTransactions[orphanHash] for every hash it finds by parent, never
\* creates an empty entry there, and never misses one.
OrphanMapsAgree ==
  /\ orphans.prev = [q \in UNION {Parents[t] : t \in DOMAIN orphans.tx} |-> {t \in DOMAIN orphans.tx : q \in Parents[t]}]
  /\ Cardinality(DOMAIN orphans.tx) <= case.limit

\* "Recursively process any orphan transactions that depended on this one": no
\* orphan that could be accepted is left behind. The exceptions are orphans of a
\* peer that was punished, which the walk passes over and nothing erases, and
\* orphans with a parent that came in a block, which starts no walk.
NothingStranded ==
  \A t \in DOMAIN orphans.tx :
    Parents[t] \subseteq pool \cup chain => orphans.tx[t] \in penalized \/ Parents[t] \cap mined # {}

\* "Each retry is 2 minutes after the last": a transaction that a responsive peer
\* announces arrives, however many silent peers were asked for it before.
FetchedInTheEnd ==
  \A p \in Responsive, t \in Tx : (t \in announced[p]) ~> (t \in received \/ AlreadyHave(t))
=============================================================================
