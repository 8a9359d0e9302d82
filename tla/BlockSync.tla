------------------------------ MODULE BlockSync ------------------------------
(***************************************************************************)
(* A node that is behind fetches the chain of a peer (main.cpp, net.h).     *)
(* The client asks with "getblocks"; the server announces at most Limit     *)
(* blocks with "inv" and remembers the last one in hashContinue; the client  *)
(* asks for the blocks with "getdata"; when hashContinue is asked for the    *)
(* server adds an inv of its tip, whose block has an unknown parent and so  *)
(* makes the client send the next getblocks.  Announcements of new tips run  *)
(* at the same time, and setInventoryKnown filters what is announced twice.  *)
(*                                                                          *)
(* Both ends run this code; the model has the two ends of one connection.    *)
(* Blocks of the server's chain are their heights, all valid, work is the    *)
(* height.  The client may start on a stale branch of its own.  The headers  *)
(* messages are switched off (chainparams.cpp:164).                          *)
(***************************************************************************)
EXTENDS Integers, Sequences, SequencesExt

CONSTANTS Limit,       \* blocks announced per getblocks (500)
          KnownMax,    \* size of setInventoryKnown (SendBufferSize / 1000)
          Starts,      \* heights of the server when the client connects
          Forks,       \* heights at which the client's own branch leaves
          Stales,      \* lengths of that branch
          RecentFrom,  \* the lowest height whose block is under six hours old
          MaxGrow, MaxDrop   \* bounds: new blocks, lost connections

ASSUME BlockSyncAssumption ==
  /\ {Limit, KnownMax, RecentFrom, MaxGrow, MaxDrop} \subseteq Nat /\ Limit > 0 /\ KnownMax > Limit
  /\ Starts \cup Forks \cup Stales \subseteq Nat
  \* the reorganisation limit is far below the number of blocks in a batch
  /\ \A s \in Stales : s < Limit

VARIABLES height,     \* the server's chainActive.Height()
          known,      \* its setInventoryKnown for the client
          toSend,     \* its vInventoryToSend
          continue,   \* its hashContinue, 0 when null
          getData,    \* its vRecvGetData
          have,       \* the client has the server's blocks up to this height
          branch,     \* [fork, len]: the client's own branch
          requested,  \* its vBlockRequested
          started,    \* its fSyncStarted for the server
          nSync,      \* its nSyncStarted
          toServer, toClient,   \* messages on their way
          goal,       \* history: the server's height when they connected
          count       \* how often each bounded event has happened

server == <<height, known, toSend, continue, getData>>
client == <<have, branch, requested, started, nSync>>
vars == <<server, client, toServer, toClient, goal, count>>

GetBlocks(from, stop) == [type |-> "getblocks", from |-> from, stop |-> stop]
GetData(invs) == [type |-> "getdata", invs |-> invs]
Inv(invs) == [type |-> "inv", invs |-> invs]
BlockMsg(b) == [type |-> "block", block |-> b]

\* mruset: the most recent KnownMax elements inserted
Insert(mru, b) == IF b \in ToSet(mru) THEN mru
                  ELSE IF Len(mru) = KnownMax THEN Append(Tail(mru), b) ELSE Append(mru, b)

-----------------------------------------------------------------------------
TypeOK ==
  /\ height \in Nat /\ goal \in 0 .. height /\ continue \in 0 .. height /\ have \in 0 .. height
  /\ ToSet(known) \subseteq 1 .. height /\ Len(known) <= KnownMax
  /\ ToSet(toSend) \subseteq 1 .. height /\ ToSet(getData) \subseteq 1 .. height
  /\ requested \subseteq 1 .. height /\ started \in BOOLEAN /\ nSync \in 0 .. MaxDrop + 1
  /\ \A m \in ToSet(toServer) : \/ m.type = "getblocks" /\ m.from <= have /\ m.stop <= height
                                \/ m.type = "getdata" /\ m.invs # <<>>
  /\ \A m \in ToSet(toClient) : \/ m.type = "inv" /\ m.invs # <<>>
                                \/ m.type = "block" /\ m.block \in 1 .. height

\* The two have just connected.
Init ==
  /\ height \in Starts
  /\ branch \in [fork : {f \in Forks : f <= height}, len : Stales]
  /\ have = branch.fork
  /\ known = <<>> /\ toSend = <<>> /\ continue = 0 /\ getData = <<>>
  /\ requested = {} /\ started = FALSE /\ nSync = 0
  /\ toServer = <<>> /\ toClient = <<>>
  /\ goal = height
  /\ count = [grow |-> 0, drop |-> 0]

-----------------------------------------------------------------------------
(* The server *)

\* vInventoryToSend after PushInventory for each of the blocks
PushInventory(blocks) == toSend \o SelectSeq(blocks, LAMBDA b : b \notin ToSet(known))

\* ActivateBestChain has a new tip and announces it.
NewTip ==
  /\ count.grow < MaxGrow
  /\ count' = [count EXCEPT !.grow = @ + 1]
  /\ height' = height + 1
  /\ toSend' = PushInventory(<<height + 1>>)
  /\ UNCHANGED <<known, continue, getData, client, toServer, toClient, goal>>

\* SendMessages: announce what the client is not known to have.  After[i] is
\* setInventoryKnown, and the inv message, after i entries of vInventoryToSend.
Announced ==
  LET After[i \in 0 .. Len(toSend)] ==
        IF i = 0 THEN [known |-> known, invs |-> <<>>]
        ELSE LET before == After[i - 1] IN
             IF toSend[i] \in ToSet(before.known) THEN before
             ELSE [known |-> Insert(before.known, toSend[i]),
                   invs  |-> Append(before.invs, toSend[i])]
  IN After[Len(toSend)]

SendMessages ==
  /\ toSend # <<>>
  /\ toSend' = <<>>
  /\ LET a == Announced IN
     /\ known' = a.known
     /\ toClient' = IF a.invs = <<>> THEN toClient ELSE Append(toClient, Inv(a.invs))
  /\ UNCHANGED <<height, continue, getData, client, toServer, goal, count>>

\* The next message is looked at only when vRecvGetData has been worked off.
Incoming(type) == getData = <<>> /\ toServer # <<>> /\ Head(toServer).type = type

\* The last block that getblocks announces: the loop ends at the tip, before
\* hashStop, or after Limit blocks.
LastServed(from, stop) ==
  LET ends == {height, from + Limit} \cup (IF stop > from THEN {stop - 1} ELSE {}) IN
  CHOOSE e \in ends : \A x \in ends : e <= x

ContinueNever(from, last) == continue
ContinueAfter(from, last) == IF last = from + Limit THEN last ELSE continue

FirstServedLate(from) == from + 2
FirstServed(from) == from + 1

ServeGetBlocks ==
  /\ Incoming("getblocks")
  /\ LET from == Head(toServer).from
         last == LastServed(from, Head(toServer).stop)
         batch == [i \in 1 .. last - FirstServed(from) + 1 |-> FirstServed(from) + i - 1] IN
     /\ toSend' = PushInventory(batch)
     /\ continue' = ContinueAfter(from, last)
  /\ toServer' = Tail(toServer)
  /\ UNCHANGED <<height, known, getData, client, toClient, goal, count>>

\* ProcessGetData: one block, and after hashContinue the tip.
ProcessGetDataOnce(queue) ==
  /\ getData' = <<>>
  /\ toClient' = toClient \o <<BlockMsg(Head(queue))>>
                          \o IF Head(queue) = continue THEN <<Inv(<<height>>)>> ELSE <<>>
  /\ continue' = IF Head(queue) = continue THEN 0 ELSE continue
ProcessGetData(queue) ==
  /\ getData' = Tail(queue)
  /\ toClient' = toClient \o <<BlockMsg(Head(queue))>>
                          \o IF Head(queue) = continue THEN <<Inv(<<height>>)>> ELSE <<>>
  /\ continue' = IF Head(queue) = continue THEN 0 ELSE continue

ServeGetData ==
  /\ Incoming("getdata")
  /\ ProcessGetData(Head(toServer).invs)
  /\ toServer' = Tail(toServer)
  /\ UNCHANGED <<height, known, toSend, client, goal, count>>

ServeMore ==
  /\ getData # <<>>
  /\ ProcessGetData(getData)
  /\ UNCHANGED <<height, known, toSend, client, toServer, goal, count>>

-----------------------------------------------------------------------------
(* The client *)

\* The first block of chainActive.GetLocator() on the server's chain: the tip,
\* once the server's blocks have more work than the client's own branch.
Locator(h) == IF branch.len = 0 \/ h > branch.fork + branch.len THEN h ELSE branch.fork

\* SendMessages: start block sync, with one peer only unless pindexBestHeader is
\* recent.
BestHeader == IF have > branch.fork + branch.len THEN have ELSE branch.fork + branch.len
StartSync ==
  /\ ~started
  /\ nSync = 0 \/ BestHeader >= RecentFrom
  /\ started' = TRUE /\ nSync' = nSync + 1
  /\ toServer' = Append(toServer, GetBlocks(Locator(have), 0))
  /\ UNCHANGED <<server, have, branch, requested, toClient, goal, count>>

Received(type) == toClient # <<>> /\ Head(toClient).type = type

\* "inv": ask for the blocks that are not in mapBlockIndex.
ReceiveInv ==
  /\ Received("inv")
  /\ LET fetch == SelectSeq(Head(toClient).invs, LAMBDA b : b > have) IN
     toServer' = IF fetch = <<>> THEN toServer ELSE Append(toServer, GetData(fetch))
  /\ toClient' = Tail(toClient)
  /\ UNCHANGED <<server, client, goal, count>>

\* "block" whose parent is unknown: it is dropped, and the server is asked for
\* the blocks up to it, or up to its parent if that was done before.
StopFor(b) == IF b \in requested THEN b - 1 ELSE b

ReceiveOrphan ==
  /\ Received("block")
  /\ LET b == Head(toClient).block IN
     /\ b - 1 > have
     /\ requested' = requested \cup {StopFor(b)}
     /\ toServer' = Append(toServer, GetBlocks(Locator(have), StopFor(b)))
  /\ toClient' = Tail(toClient)
  /\ UNCHANGED <<server, have, branch, started, nSync, goal, count>>

\* "block" otherwise: ProcessNewBlock, unless it is in mapBlockIndex.
ReceiveBlock ==
  /\ Received("block")
  /\ LET b == Head(toClient).block IN
     /\ b - 1 <= have
     /\ have' = IF b > have THEN b ELSE have
  /\ toClient' = Tail(toClient)
  /\ UNCHANGED <<server, branch, requested, started, nSync, toServer, goal, count>>

-----------------------------------------------------------------------------
\* The connection is lost with everything on its way, and made again.  The
\* destructor of CNode does not call FinalizeNode, so that the client's
\* nSyncStarted keeps counting the lost peer.
Reconnect ==
  /\ count.drop < MaxDrop
  /\ count' = [count EXCEPT !.drop = @ + 1]
  /\ known' = <<>> /\ toSend' = <<>> /\ continue' = 0 /\ getData' = <<>>
  /\ requested' = {} /\ started' = FALSE
  /\ toServer' = <<>> /\ toClient' = <<>>
  /\ goal' = height
  /\ UNCHANGED <<height, have, branch, nSync>>

Server == SendMessages \/ ServeGetBlocks \/ ServeGetData \/ ServeMore
Client == StartSync \/ ReceiveInv \/ ReceiveOrphan \/ ReceiveBlock
Next == NewTip \/ Server \/ Client \/ Reconnect

\* ThreadMessageHandler of each node visits every peer again and again, and
\* calls ProcessMessages and SendMessages for it.
Spec == /\ Init /\ [][Next]_vars
        /\ WF_vars(SendMessages)
        /\ WF_vars(ServeGetBlocks \/ ServeGetData \/ ServeMore)
        /\ WF_vars(StartSync)
        /\ WF_vars(ReceiveInv \/ ReceiveOrphan \/ ReceiveBlock)

-----------------------------------------------------------------------------
(* Properties *)

\* A block of the server's chain at the time of connecting, other than its last
\* one, never arrives before its parent: the client drops only blocks that were
\* announced as tips (the block handler, main.cpp:4283).
BatchesInOrder ==
  Received("block") /\ Head(toClient).block < goal => Head(toClient).block - 1 <= have

\* setInventoryKnown makes the server announce a block once.  Every such block
\* that the client still lacks is on its way: announced, asked for, queued or
\* sent.  (Tips announced later may be dropped as orphans and are then gone.)
OnItsWay(b) ==
  \/ \E m \in ToSet(toClient) : m.type = "inv" /\ b \in ToSet(m.invs)
  \/ \E m \in ToSet(toServer) : m.type = "getdata" /\ b \in ToSet(m.invs)
  \/ b \in ToSet(getData)
  \/ BlockMsg(b) \in ToSet(toClient)
AnnouncedNotLost == \A b \in ToSet(known) : b < goal /\ b > have => OnItsWay(b)

\* The batches chain up: whatever is announced meanwhile, the client gets the
\* chain the server had when they connected, except perhaps its last two blocks,
\* which hashStop cuts off and which come with a later announcement.
\* For a client less than six hours behind (RecentFrom = 0): otherwise a lost
\* connection leaves nSyncStarted at 1 and the sync is not started again.
CatchesUp == <>[](have >= goal - 2)

\* "Number of nodes with fSyncStarted" (main.cpp:147), of the peers that exist.
SyncStartedCounts == nSync = IF started THEN 1 ELSE 0
=============================================================================
