--------------------------- MODULE ShutdownProofs ---------------------------
(***************************************************************************)
(* Proofs about the shutdown of the node (Shutdown with HTTPServer and     *)
(* Scheduler), for every number of RPC threads, requests and tasks.        *)
(***************************************************************************)
EXTENDS Shutdown, FiniteSetTheorems, SequenceTheorems, TLAPS

-----------------------------------------------------------------------------
(* The invariant. *)

ReqStates == {"none", "lookup", "queued", "handled", "replying", "answered", "lost"}
HttpType ==
  [alive : BOOLEAN, running : BOOLEAN, numThreads : Nat, queue : Seq(Request),
   cond : SUBSET (Worker \cup {"main"}), gencb : {"request", "reject"}, loop : {"on", "ended", "broken"}]
WorkerType == [pc : {"new", "top", "busy", "leaving", "gone"}, item : Request \cup {"none"}]

Types ==
  /\ http \in HttpType
  /\ worker \in [Worker -> WorkerType]
  /\ \A w \in Worker : worker[w].pc = "busy" => worker[w].item \in Request
  /\ req \in [Request -> ReqStates]

\* A request is "queued" exactly while it is in the work queue, where it is once.
Queued ==
  /\ \A i \in 1..Len(http.queue) : req[http.queue[i]] = "queued"
  /\ \A i, j \in 1..Len(http.queue) : http.queue[i] = http.queue[j] => i = j
  /\ \A r \in Request : req[r] = "queued" => \E i \in 1..Len(http.queue) : http.queue[i] = r

\* A request is "handled" exactly while a worker has it, and only one.
Handled ==
  /\ \A r \in Request : req[r] = "handled" => \E w \in Worker : worker[w].pc = "busy" /\ worker[w].item = r
  /\ \A w \in Worker : worker[w].pc = "busy" => req[worker[w].item] = "handled"
  /\ \A v, w \in Worker :
       worker[v].pc = "busy" /\ worker[w].pc = "busy" /\ worker[v].item = worker[w].item => v = w

\* numThreads counts the workers between the ends of their ThreadCounters.
Running == {w \in Worker : worker[w].pc \in {"top", "busy", "leaving"}}
ThreadsCounted == http.numThreads = Cardinality(Running)

AfterJoin      == {"StopNode", "stop", "join", "FlushStateToDisk", "done"}
AfterDelete    == {"LoopBreak", "JoinHTTP"} \cup AfterJoin
AfterWait      == {"DeleteQueue"} \cup AfterDelete
AfterInterrupt == {"InterruptRPC", "interrupt", "PrepareShutdown", "WaitExit"} \cup AfterWait

\* What the main thread's calls have achieved, and what does not come back.
Stages ==
  /\ main \in AfterInterrupt => ~http.running
  /\ main \in AfterWait => \A w \in Worker : worker[w].pc # "busy"
  /\ main \in AfterDelete => http.queue = <<>> /\ ~http.alive
  /\ main \in AfterJoin => ~OnLoop
  /\ "pc" \in DOMAIN sched
  /\ main \in {"FlushStateToDisk", "done"} => sched.pc = "gone"

IInv == Types /\ Queued /\ Handled /\ ThreadsCounted /\ Stages

-----------------------------------------------------------------------------
(* Steps of the event thread. *)

HTTPInv == Types /\ Queued /\ Handled /\ ThreadsCounted

\* The server's record has seven fields.
LEMMA HttpShape ==
  ASSUME NEW h \in HttpType
  PROVE  /\ h = [alive |-> h.alive, running |-> h.running, numThreads |-> h.numThreads, queue |-> h.queue,
                 cond |-> h.cond, gencb |-> h.gencb, loop |-> h.loop]
         /\ h.alive \in BOOLEAN /\ h.running \in BOOLEAN /\ h.numThreads \in Nat /\ h.queue \in Seq(Request)
         /\ h.cond \in SUBSET (Worker \cup {"main"}) /\ h.gencb \in {"request", "reject"}
         /\ h.loop \in {"on", "ended", "broken"}
  BY DEF HttpType

\* One worker moves to another place, with the item it has.
LEMMA WorkerFields ==
  ASSUME NEW f \in [Worker -> WorkerType], NEW w \in Worker,
         NEW p \in {"new", "top", "busy", "leaving", "gone"}, NEW g, g = [f EXCEPT ![w].pc = p]
  PROVE  /\ g \in [Worker -> WorkerType] /\ g[w].pc = p /\ g[w].item = f[w].item
         /\ \A v \in Worker \ {w} : g[v] = f[v]
  <1>1. f[w] \in WorkerType /\ f[w] = [pc |-> f[w].pc, item |-> f[w].item]
    BY DEF WorkerType
  <1> DEFINE x == [f[w] EXCEPT !.pc = p]
  <1>2. x \in WorkerType /\ x.pc = p /\ x.item = f[w].item
    BY <1>1 DEF WorkerType
  <1>3. g = [f EXCEPT ![w] = x]
    OBVIOUS
  <1> HIDE DEF x
  <1> QED
    BY <1>2, <1>3

\* A request that is in no worker's hands and not in the queue moves on.
LEMMA RequestMoves ==
  ASSUME HTTPInv, NEW r \in Request, req[r] \notin {"queued", "handled"},
         NEW s \in ReqStates \ {"queued", "handled"}, req' = [req EXCEPT ![r] = s],
         UNCHANGED <<http, worker>>
  PROVE  HTTPInv'
  <1>1. /\ req' \in [Request -> ReqStates] /\ req'[r] = s
        /\ \A q \in Request \ {r} : req'[q] = req[q]
    BY DEF HTTPInv, Types, ReqStates
  <1>2. Types'
    BY <1>1 DEF HTTPInv, Types, ReqStates
  <1>3. Queued'
    <2>1. \A i \in 1..Len(http.queue) : http.queue[i] \in Request /\ req[http.queue[i]] = "queued"
      BY DEF HTTPInv, Types, Queued, HttpType
    <2>2. \A i \in 1..Len(http.queue) : req'[http.queue[i]] = "queued"
      BY <1>1, <2>1
    <2>3. \A q \in Request : req'[q] = "queued" => req[q] = "queued"
      BY <1>1 DEF ReqStates
    <2> QED
      BY <2>2, <2>3 DEF HTTPInv, Queued
  <1>4. Handled'
    BY <1>1 DEF HTTPInv, Handled, ReqStates
  <1>5. ThreadsCounted'
    BY DEF HTTPInv, ThreadsCounted, Running
  <1> QED
    BY <1>2, <1>3, <1>4, <1>5 DEF HTTPInv

\* Nothing of the queue, the workers or the requests changes.
LEMMA QueueUntouched ==
  ASSUME HTTPInv, http' \in HttpType, http'.queue = http.queue, http'.numThreads = http.numThreads,
         UNCHANGED <<worker, req>>
  PROVE  HTTPInv'
  <1>1. Types'
    BY DEF HTTPInv, Types
  <1>2. Queued'
    BY DEF HTTPInv, Queued
  <1>3. Handled' /\ ThreadsCounted'
    BY DEF HTTPInv, Handled, ThreadsCounted, Running
  <1> QED
    BY <1>1, <1>2, <1>3 DEF HTTPInv

LEMMA ReceiveStep ==
  ASSUME HTTPInv, NEW r \in Request, Receive(r)
  PROVE  HTTPInv'
  <1>1. PICK s \in {"lookup", "replying", "answered"} : req' = [req EXCEPT ![r] = s]
    BY DEF Receive
  <1>2. req[r] = "none" /\ UNCHANGED <<http, worker>>
    BY DEF Receive
  <1>3. s \in ReqStates \ {"queued", "handled"}
    BY DEF ReqStates
  <1> QED
    BY <1>1, <1>2, <1>3, RequestMoves

LEMMA SendReplyStep ==
  ASSUME HTTPInv, NEW r \in Request, SendReply(r)
  PROVE  HTTPInv'
  <1>1. req[r] = "replying" /\ req' = [req EXCEPT ![r] = "answered"] /\ UNCHANGED <<http, worker>>
    BY DEF SendReply
  <1>2. "answered" \in ReqStates \ {"queued", "handled"}
    BY DEF ReqStates
  <1> QED
    BY <1>1, <1>2, RequestMoves

LEMMA EnqueueStep ==
  ASSUME HTTPInv, NEW r \in Request, Enqueue(r)
  PROVE  HTTPInv'
  <1>1. CASE UNCHANGED <<http, worker, req>>
    BY <1>1, QueueUntouched DEF HTTPInv, Types
  <1>2. CASE req' = [req EXCEPT ![r] = "replying"] /\ UNCHANGED <<http, worker>>
    <2>1. "replying" \in ReqStates \ {"queued", "handled"} /\ req[r] = "lookup"
      BY DEF ReqStates, Enqueue
    <2> QED
      BY <1>2, <2>1, RequestMoves
  <1>3. ASSUME NEW c \in NotifyOne(http.cond),
               http' = [http EXCEPT !.queue = Append(@, r), !.cond = c],
               req' = [req EXCEPT ![r] = "queued"], UNCHANGED worker
        PROVE  HTTPInv'
    <2> DEFINE L == Len(http.queue)
               q == Append(http.queue, r)
    <2>0. http \in HttpType /\ http.queue \in Seq(Request) /\ req[r] = "lookup" /\ L \in Nat
      <3>1. http \in HttpType /\ req[r] = "lookup"
        BY DEF HTTPInv, Types, Enqueue
      <3>2. http.queue \in Seq(Request)
        BY <3>1 DEF HttpType
      <3> QED
        BY <3>1, <3>2
    <2>1. c \in SUBSET (Worker \cup {"main"})
      BY <2>0 DEF NotifyOne, HttpType
    <2>2. /\ q \in Seq(Request) /\ Len(q) = L + 1 /\ q[L + 1] = r
          /\ \A i \in 1..L : q[i] = http.queue[i] /\ q[i] \in Request
      BY <2>0
    <2>3. http' = [http EXCEPT !.queue = q, !.cond = c]
      BY <1>3
    <2> HIDE DEF q, L
    <2>4. http' \in HttpType /\ http'.queue = q /\ http'.numThreads = http.numThreads
      <3>1. http = [alive |-> http.alive, running |-> http.running, numThreads |-> http.numThreads, queue |-> http.queue,
                      cond |-> http.cond, gencb |-> http.gencb, loop |-> http.loop]
        BY <2>0, HttpShape
      <3>2. http' = [alive |-> http.alive, running |-> http.running, numThreads |-> http.numThreads, queue |-> q,
                     cond |-> c, gencb |-> http.gencb, loop |-> http.loop]
        BY <2>3, <3>1
      <3> QED
        BY <2>0, <2>1, <2>2, <3>2 DEF HttpType
    <2>5. /\ req' \in [Request -> ReqStates] /\ req'[r] = "queued"
          /\ \A u \in Request \ {r} : req'[u] = req[u]
      BY <1>3 DEF HTTPInv, Types, ReqStates
    <2>6. Types'
      BY <2>4, <2>5, <1>3 DEF HTTPInv, Types
    <2>7. \A i \in 1..L : req[http.queue[i]] = "queued" /\ q[i] # r
      BY <2>0, <2>2 DEF HTTPInv, Queued, L
    <2>8. Queued'
      <3>1. \A i \in 1..(L + 1) : req'[q[i]] = "queued"
        BY <2>0, <2>2, <2>5, <2>7
      <3>2. \A i, j \in 1..L : q[i] = q[j] => i = j
        BY <2>2 DEF HTTPInv, Queued, L
      <3>3. \A i, j \in 1..(L + 1) : q[i] = q[j] => i = j
        BY <2>0, <2>2, <2>7, <3>2
      <3>4. ASSUME NEW u \in Request, req'[u] = "queued"
            PROVE  \E i \in 1..(L + 1) : q[i] = u
        <4>1. CASE u = r
          BY <4>1, <2>0, <2>2
        <4>2. CASE u # r
          <5>1. \E i \in 1..L : http.queue[i] = u
            BY <4>2, <3>4, <2>5 DEF HTTPInv, Queued, L
          <5> QED
            BY <5>1, <2>0, <2>2
        <4> QED
          BY <4>1, <4>2
      <3> QED
        BY <3>1, <3>3, <3>4, <2>2, <2>4 DEF Queued
    <2>9. Handled'
      <3>1. \A u \in Request : req'[u] = "handled" <=> req[u] = "handled"
        BY <2>0, <2>5
      <3> QED
        BY <3>1, <1>3 DEF HTTPInv, Handled, Types
    <2>10. ThreadsCounted'
      BY <2>4, <1>3 DEF HTTPInv, ThreadsCounted, Running
    <2> QED
      BY <2>6, <2>8, <2>9, <2>10 DEF HTTPInv
  <1> QED
    BY <1>1, <1>2, <1>3 DEF Enqueue, OnQueue

LEMMA LoopEndsStep ==
  ASSUME HTTPInv, LoopEnds
  PROVE  HTTPInv'
  <1>1. http \in HttpType /\ http' = [http EXCEPT !.loop = "ended"] /\ UNCHANGED <<worker, req>>
    BY DEF LoopEnds, HTTPInv, Types
  <1>2. http' \in HttpType /\ http'.queue = http.queue /\ http'.numThreads = http.numThreads
    BY <1>1 DEF HttpType
  <1> QED
    BY <1>1, <1>2, QueueUntouched

-----------------------------------------------------------------------------
(* Steps of a worker. *)

LEMMA WorkersFinite == IsFiniteSet(Running) /\ Cardinality(Running) \in Nat /\ IsFiniteSet(Worker)
  <1>1. Running \in SUBSET Worker
    BY DEF Running
  <1> QED
    BY <1>1, HTTPAssumption, FS_Subset, FS_CardinalityType

LEMMA RunBeginsStep ==
  ASSUME HTTPInv, NEW w \in Worker, RunBegins(w)
  PROVE  HTTPInv'
  <1>1. CASE UNCHANGED <<http, worker, req>>
    BY <1>1, QueueUntouched DEF HTTPInv, Types
  <1>2. CASE /\ http' = [http EXCEPT !.numThreads = @ + 1]
             /\ worker' = [worker EXCEPT ![w].pc = "top"]
             /\ UNCHANGED req
    <2>1. http \in HttpType /\ worker[w].pc = "new"
      BY DEF HTTPInv, Types, HttpType, RunBegins
    <2>2. http' \in HttpType /\ http'.queue = http.queue /\ http'.numThreads = http.numThreads + 1
      <3> DEFINE n == http.numThreads + 1
      <3>1. n \in Nat
        BY <2>1 DEF HttpType
      <3>2. http = [alive |-> http.alive, running |-> http.running, numThreads |-> http.numThreads, queue |-> http.queue,
                      cond |-> http.cond, gencb |-> http.gencb, loop |-> http.loop]
        BY <2>1, HttpShape
      <3>3. http' = [alive |-> http.alive, running |-> http.running, numThreads |-> n, queue |-> http.queue,
                     cond |-> http.cond, gencb |-> http.gencb, loop |-> http.loop]
        BY <1>2, <3>2
      <3> HIDE DEF n
      <3>4. http' \in HttpType /\ http'.queue = http.queue /\ http'.numThreads = n
        BY <2>1, <3>1, <3>3 DEF HttpType
      <3> QED
        BY <3>4 DEF n
    <2>3. /\ worker' \in [Worker -> WorkerType]
          /\ worker'[w].pc = "top" /\ \A v \in Worker \ {w} : worker'[v] = worker[v]
      BY <1>2, WorkerFields DEF HTTPInv, Types
    <2>4. Types'
      BY <1>2, <2>2, <2>3 DEF HTTPInv, Types
    <2>5. Queued'
      BY <1>2, <2>2 DEF HTTPInv, Queued
    <2>6. Handled'
      BY <1>2, <2>1, <2>3 DEF HTTPInv, Handled
    <2>7. ThreadsCounted'
      <3>1. Running' = Running \cup {w} /\ w \notin Running
        BY <2>1, <2>3 DEF Running
      <3>2. Cardinality(Running \cup {w}) = Cardinality(Running) + 1
        BY <3>1, WorkersFinite, FS_AddElement
      <3> QED
        BY <3>1, <3>2, <2>2 DEF HTTPInv, ThreadsCounted
    <2> QED
      BY <2>4, <2>5, <2>6, <2>7 DEF HTTPInv
  <1> QED
    BY <1>1, <1>2 DEF RunBegins, OnQueue

LEMMA RunEndsStep ==
  ASSUME HTTPInv, NEW w \in Worker, RunEnds(w)
  PROVE  HTTPInv'
  <1>1. CASE UNCHANGED <<http, worker, req>>
    BY <1>1, QueueUntouched DEF HTTPInv, Types
  <1>2. CASE /\ http' = [http EXCEPT !.numThreads = @ - 1, !.cond = {}]
             /\ worker' = [worker EXCEPT ![w].pc = "gone"]
             /\ UNCHANGED req
    <2>1. http \in HttpType /\ worker[w].pc = "leaving"
      BY DEF HTTPInv, Types, HttpType, RunEnds
    <2>2. /\ worker' \in [Worker -> WorkerType]
          /\ worker'[w].pc = "gone" /\ \A v \in Worker \ {w} : worker'[v] = worker[v]
      BY <1>2, WorkerFields DEF HTTPInv, Types
    <2>3. /\ Running' = Running \ {w} /\ w \in Running
          /\ Cardinality(Running \ {w}) = http.numThreads - 1 /\ http.numThreads - 1 \in Nat
      <3>1. Running' = Running \ {w} /\ w \in Running
        BY <2>1, <2>2 DEF Running
      <3>2. Cardinality(Running \ {w}) = Cardinality(Running) - 1 /\ IsFiniteSet(Running \ {w})
        BY <3>1, WorkersFinite, FS_RemoveElement
      <3>3. Cardinality(Running \ {w}) \in Nat
        BY <3>2, FS_CardinalityType
      <3> QED
        BY <3>1, <3>2, <3>3 DEF HTTPInv, ThreadsCounted
    <2>4. http' \in HttpType /\ http'.queue = http.queue /\ http'.numThreads = http.numThreads - 1
      <3> DEFINE n == http.numThreads - 1
      <3>1. n \in Nat
        BY <2>1, <2>3 DEF HttpType
      <3>2. http = [alive |-> http.alive, running |-> http.running, numThreads |-> http.numThreads, queue |-> http.queue,
                      cond |-> http.cond, gencb |-> http.gencb, loop |-> http.loop]
        BY <2>1, HttpShape
      <3>3. http' = [alive |-> http.alive, running |-> http.running, numThreads |-> n, queue |-> http.queue,
                     cond |-> {}, gencb |-> http.gencb, loop |-> http.loop]
        BY <1>2, <3>2
      <3> HIDE DEF n
      <3>4. http' \in HttpType /\ http'.queue = http.queue /\ http'.numThreads = n
        BY <2>1, <3>1, <3>3 DEF HttpType
      <3> QED
        BY <3>4 DEF n
    <2>5. Types'
      BY <1>2, <2>2, <2>4 DEF HTTPInv, Types
    <2>6. Queued'
      BY <1>2, <2>4 DEF HTTPInv, Queued
    <2>7. Handled'
      BY <1>2, <2>1, <2>2 DEF HTTPInv, Handled
    <2>8. ThreadsCounted'
      BY <2>3, <2>4 DEF ThreadsCounted
    <2> QED
      BY <2>5, <2>6, <2>7, <2>8 DEF HTTPInv
  <1> QED
    BY <1>1, <1>2 DEF RunEnds, OnQueue

LEMMA RepliesStep ==
  ASSUME HTTPInv, NEW w \in Worker, Replies(w)
  PROVE  HTTPInv'
  <1> DEFINE r == worker[w].item
  <1>1. /\ worker[w].pc = "busy" /\ r \in Request
        /\ req' = [req EXCEPT ![r] = "replying"]
        /\ worker' = [worker EXCEPT ![w] = [pc |-> "top", item |-> "none"]]
        /\ UNCHANGED http
    BY DEF Replies, HTTPInv, Types
  <1> HIDE DEF r
  <1>2. /\ worker' \in [Worker -> WorkerType]
        /\ worker'[w].pc = "top" /\ \A v \in Worker \ {w} : worker'[v] = worker[v]
    BY <1>1 DEF HTTPInv, Types, WorkerType
  <1>3. /\ req' \in [Request -> ReqStates] /\ req'[r] = "replying"
        /\ \A q \in Request \ {r} : req'[q] = req[q]
    BY <1>1 DEF HTTPInv, Types, ReqStates
  <1>4. Types'
    BY <1>1, <1>2, <1>3 DEF HTTPInv, Types, ReqStates
  <1>5. Queued'
    <2>1. req[r] = "handled"
      BY <1>1 DEF HTTPInv, Handled, r
    <2>2. \A i \in 1..Len(http.queue) : http.queue[i] \in Request /\ req[http.queue[i]] = "queued"
      BY DEF HTTPInv, Types, Queued, HttpType
    <2>3. \A i \in 1..Len(http.queue) : req'[http.queue[i]] = "queued"
      BY <1>3, <2>1, <2>2
    <2>4. \A q \in Request : req'[q] = "queued" => req[q] = "queued"
      BY <1>3
    <2> QED
      BY <1>1, <2>3, <2>4 DEF HTTPInv, Queued
  <1>6. Handled'
    <2>1. \A q \in Request : req'[q] = "handled" => q # r /\ req[q] = "handled"
      BY <1>3
    <2>2. \A v \in Worker : worker'[v].pc = "busy" => v # w /\ worker'[v] = worker[v]
      BY <1>2
    <2>3. \A v \in Worker : worker'[v].pc = "busy" => worker[v].item # r /\ worker[v].item \in Request
      BY <1>1, <2>2 DEF HTTPInv, Handled, Types, r
    <2>4. \A v \in Worker : worker'[v].pc = "busy" => req'[worker'[v].item] = "handled"
      BY <2>2, <2>3, <1>3 DEF HTTPInv, Handled
    <2>5. ASSUME NEW q \in Request, req'[q] = "handled"
          PROVE  \E v \in Worker : worker'[v].pc = "busy" /\ worker'[v].item = q
      <3>1. PICK v \in Worker : worker[v].pc = "busy" /\ worker[v].item = q
        BY <2>1, <2>5 DEF HTTPInv, Handled
      <3>2. v # w
        BY <3>1, <2>1, <2>5 DEF r
      <3> QED
        BY <3>1, <3>2, <1>2
    <2>6. \A u, v \in Worker :
            worker'[u].pc = "busy" /\ worker'[v].pc = "busy" /\ worker'[u].item = worker'[v].item => u = v
      BY <2>2 DEF HTTPInv, Handled
    <2> QED
      BY <2>4, <2>5, <2>6 DEF Handled
  <1>7. ThreadsCounted'
    BY <1>1, <1>2 DEF HTTPInv, ThreadsCounted, Running
  <1> QED
    BY <1>4, <1>5, <1>6, <1>7 DEF HTTPInv

\* A worker leaves, waits, or takes the first request of the queue.
LEMMA TakesWorkStep ==
  ASSUME HTTPInv, NEW w \in Worker, TakesWork(w)
  PROVE  HTTPInv'
  <1>0. http \in HttpType /\ http.queue \in Seq(Request) /\ worker[w].pc = "top"
    <2>1. http \in HttpType /\ worker[w].pc = "top"
      BY DEF HTTPInv, Types, TakesWork
    <2> QED
      BY <2>1, HttpShape
  <1>1. CASE UNCHANGED <<http, worker, req>>
    BY <1>1, QueueUntouched DEF HTTPInv, Types
  <1>2. CASE worker' = [worker EXCEPT ![w].pc = "leaving"] /\ UNCHANGED <<http, req>>
    <2>1. /\ worker' \in [Worker -> WorkerType]
          /\ worker'[w].pc = "leaving" /\ \A v \in Worker \ {w} : worker'[v] = worker[v]
      BY <1>2, WorkerFields DEF HTTPInv, Types
    <2>2. Types'
      BY <1>2, <2>1 DEF HTTPInv, Types
    <2>3. Queued'
      BY <1>2 DEF HTTPInv, Queued
    <2>4. Handled'
      BY <1>0, <1>2, <2>1 DEF HTTPInv, Handled
    <2>5. ThreadsCounted'
      BY <1>0, <1>2, <2>1 DEF HTTPInv, ThreadsCounted, Running
    <2> QED
      BY <2>2, <2>3, <2>4, <2>5 DEF HTTPInv
  <1>3. CASE http' = [http EXCEPT !.cond = @ \cup {w}] /\ UNCHANGED <<worker, req>>
    <2>1. http' \in HttpType /\ http'.queue = http.queue /\ http'.numThreads = http.numThreads
      <3>1. http = [alive |-> http.alive, running |-> http.running, numThreads |-> http.numThreads, queue |-> http.queue,
                      cond |-> http.cond, gencb |-> http.gencb, loop |-> http.loop]
            /\ http.cond \cup {w} \in SUBSET (Worker \cup {"main"})
        BY <1>0, HttpShape
      <3>2. http' = [alive |-> http.alive, running |-> http.running, numThreads |-> http.numThreads, queue |-> http.queue,
                     cond |-> http.cond \cup {w}, gencb |-> http.gencb, loop |-> http.loop]
        BY <1>3, <3>1
      <3> QED
        BY <1>0, <3>1, <3>2 DEF HttpType
    <2> QED
      BY <1>3, <2>1, QueueUntouched DEF HTTPInv, Types
  <1>4. CASE /\ http.queue # <<>>
             /\ http' = [http EXCEPT !.queue = Tail(@)]
             /\ worker' = [worker EXCEPT ![w] = [pc |-> "busy", item |-> Head(http.queue)]]
             /\ req' = [req EXCEPT ![Head(http.queue)] = "handled"]
    <2> DEFINE L == Len(http.queue)
               q == Tail(http.queue)
               r == Head(http.queue)
    <2>1. /\ L \in Nat \ {0} /\ r = http.queue[1] /\ r \in Request
          /\ q \in Seq(Request) /\ Len(q) = L - 1 /\ \A i \in 1..(L - 1) : q[i] = http.queue[i + 1]
      BY <1>0, <1>4
    <2>2. http' = [http EXCEPT !.queue = q]
      BY <1>4
    <2>3. worker' = [worker EXCEPT ![w] = [pc |-> "busy", item |-> r]] /\ req' = [req EXCEPT ![r] = "handled"]
      BY <1>4
    <2>4. /\ \A i \in 1..L : req[http.queue[i]] = "queued"
          /\ \A i, j \in 1..L : http.queue[i] = http.queue[j] => i = j
          /\ \A u \in Request : req[u] = "queued" => \E i \in 1..L : http.queue[i] = u
      BY DEF HTTPInv, Queued
    <2> HIDE DEF L, q, r
    <2>5. http' \in HttpType /\ http'.queue = q /\ http'.numThreads = http.numThreads
      <3>1. http = [alive |-> http.alive, running |-> http.running, numThreads |-> http.numThreads, queue |-> http.queue,
                      cond |-> http.cond, gencb |-> http.gencb, loop |-> http.loop]
        BY <1>0, HttpShape
      <3>2. http' = [alive |-> http.alive, running |-> http.running, numThreads |-> http.numThreads, queue |-> q,
                     cond |-> http.cond, gencb |-> http.gencb, loop |-> http.loop]
        BY <2>2, <3>1
      <3> QED
        BY <1>0, <2>1, <3>2 DEF HttpType
    <2>6. /\ worker' \in [Worker -> WorkerType]
          /\ worker'[w].pc = "busy" /\ worker'[w].item = r /\ \A v \in Worker \ {w} : worker'[v] = worker[v]
      BY <2>1, <2>3 DEF HTTPInv, Types, WorkerType
    <2>7. /\ req' \in [Request -> ReqStates] /\ req'[r] = "handled"
          /\ \A u \in Request \ {r} : req'[u] = req[u]
      BY <2>1, <2>3 DEF HTTPInv, Types, ReqStates
    <2>8. Types'
      <3>1. \A v \in Worker : worker'[v].pc = "busy" => worker'[v].item \in Request
        BY <2>1, <2>6 DEF HTTPInv, Types
      <3> QED
        BY <2>5, <2>6, <2>7, <3>1 DEF Types
    <2>9. req[r] = "queued" /\ \A i \in 1..(L - 1) : q[i] # r /\ req[q[i]] = "queued" /\ q[i] \in Request
      <3>1. req[r] = "queued"
        BY <2>1, <2>4
      <3>2. ASSUME NEW i \in 1..(L - 1)
            PROVE  q[i] # r /\ req[q[i]] = "queued" /\ q[i] \in Request
        <4>1. i + 1 \in 1..L /\ 1 \in 1..L /\ i + 1 # 1 /\ q[i] = http.queue[i + 1]
          BY <2>1
        <4>2. q[i] \in Request
          BY <2>1
        <4> QED
          BY <2>1, <2>4, <4>1, <4>2
      <3> QED
        BY <3>1, <3>2
    <2>10. Queued'
      <3>1. \A i \in 1..(L - 1) : req'[q[i]] = "queued"
        BY <2>7, <2>9
      <3>2. \A i, j \in 1..(L - 1) : q[i] = q[j] => i = j
        <4>1. ASSUME NEW i \in 1..(L - 1), NEW j \in 1..(L - 1), q[i] = q[j]
              PROVE  i = j
          <5>1. i + 1 \in 1..L /\ j + 1 \in 1..L /\ http.queue[i + 1] = http.queue[j + 1]
            BY <2>1, <4>1
          <5>2. i + 1 = j + 1
            BY <2>4, <5>1
          <5> QED
            BY <5>2
        <4> QED
          BY <4>1
      <3>3. ASSUME NEW u \in Request, req'[u] = "queued"
            PROVE  \E i \in 1..(L - 1) : q[i] = u
        <4>1. u # r /\ req[u] = "queued"
          BY <2>7, <3>3
        <4>2. PICK k \in 1..L : http.queue[k] = u
          BY <2>4, <4>1
        <4>3. k # 1
          BY <2>1, <4>1, <4>2
        <4>4. k - 1 \in 1..(L - 1) /\ q[k - 1] = u
          BY <2>1, <4>2, <4>3
        <4> QED
          BY <4>4
      <3> QED
        BY <2>1, <2>5, <3>1, <3>2, <3>3 DEF Queued
    <2>11. \A v \in Worker : worker[v].pc = "busy" => v # w /\ worker[v].item # r /\ worker[v].item \in Request
      BY <1>0, <2>9 DEF HTTPInv, Handled, Types
    <2>12. Handled'
      <3>1. \A v \in Worker : worker'[v].pc = "busy" => req'[worker'[v].item] = "handled"
        BY <2>6, <2>7, <2>11 DEF HTTPInv, Handled
      <3>2. ASSUME NEW u \in Request, req'[u] = "handled"
            PROVE  \E v \in Worker : worker'[v].pc = "busy" /\ worker'[v].item = u
        <4>1. CASE u = r
          BY <4>1, <2>6
        <4>2. CASE u # r
          <5>1. PICK v \in Worker : worker[v].pc = "busy" /\ worker[v].item = u
            BY <2>7, <3>2, <4>2 DEF HTTPInv, Handled
          <5> QED
            BY <5>1, <2>6, <2>11
        <4> QED
          BY <4>1, <4>2
      <3>3. \A u, v \in Worker :
              worker'[u].pc = "busy" /\ worker'[v].pc = "busy" /\ worker'[u].item = worker'[v].item => u = v
        BY <2>6, <2>11 DEF HTTPInv, Handled
      <3> QED
        BY <3>1, <3>2, <3>3 DEF Handled
    <2>13. ThreadsCounted'
      BY <1>0, <2>5, <2>6 DEF HTTPInv, ThreadsCounted, Running
    <2> QED
      BY <2>8, <2>10, <2>12, <2>13 DEF HTTPInv
  <1> QED
    BY <1>1, <1>2, <1>3, <1>4 DEF TakesWork, OnQueue

-----------------------------------------------------------------------------
(* Steps of the main thread. *)

\* The calls that leave the queue and the number of threads alone.
LEMMA MainFieldStep ==
  ASSUME HTTPInv, StopAccepting \/ InterruptQueue \/ WaitExitBlocks \/ LoopBreak
  PROVE  HTTPInv'
  <1>0. http \in HttpType
    BY DEF HTTPInv, Types
  <1>1. /\ http = [alive |-> http.alive, running |-> http.running, numThreads |-> http.numThreads, queue |-> http.queue,
                   cond |-> http.cond, gencb |-> http.gencb, loop |-> http.loop]
        /\ http.cond \cup {"main"} \in SUBSET (Worker \cup {"main"})
    BY <1>0, HttpShape
  <1>2. http' \in HttpType /\ http'.queue = http.queue /\ http'.numThreads = http.numThreads
    <2>1. CASE StopAccepting
      BY <1>0, <1>1, <2>1 DEF StopAccepting, HttpType
    <2>2. CASE InterruptQueue
      BY <1>0, <1>1, <2>2 DEF InterruptQueue, HttpType
    <2>3. CASE WaitExitBlocks
      <3>1. http' = [alive |-> http.alive, running |-> http.running, numThreads |-> http.numThreads, queue |-> http.queue,
                     cond |-> http.cond \cup {"main"}, gencb |-> http.gencb, loop |-> http.loop]
        BY <2>3, <1>1 DEF WaitExitBlocks
      <3> QED
        BY <1>0, <1>1, <3>1 DEF HttpType
    <2>4. CASE LoopBreak
      BY <1>0, <1>1, <2>4 DEF LoopBreak, HttpType
    <2> QED
      BY <2>1, <2>2, <2>3, <2>4
  <1>3. UNCHANGED <<worker, req>>
    BY DEF StopAccepting, InterruptQueue, WaitExitBlocks, LoopBreak
  <1> QED
    BY <1>2, <1>3, QueueUntouched DEF HTTPInv, Types

\* The queue is deleted: the requests left in it are answered.
LEMMA DeleteQueueStep ==
  ASSUME HTTPInv, DeleteQueue
  PROVE  HTTPInv' /\ http'.queue = <<>> /\ http'.alive = FALSE /\ http'.running = http.running
  <1>0. http \in HttpType
    BY DEF HTTPInv, Types
  <1>1. http = [alive |-> http.alive, running |-> http.running, numThreads |-> http.numThreads, queue |-> http.queue,
                cond |-> http.cond, gencb |-> http.gencb, loop |-> http.loop]
    BY <1>0, HttpShape
  <1>2. http' = [alive |-> FALSE, running |-> http.running, numThreads |-> http.numThreads, queue |-> <<>>,
                 cond |-> http.cond, gencb |-> http.gencb, loop |-> http.loop]
    BY <1>1 DEF DeleteQueue
  <1>3. /\ http' \in HttpType /\ http'.queue = <<>> /\ http'.alive = FALSE /\ http'.running = http.running
        /\ http'.numThreads = http.numThreads
    BY <1>0, <1>2 DEF HttpType
  <1>4. \A r \in Request : r \in ToSet(http.queue) <=> req[r] = "queued"
    <2>1. \A r : r \in ToSet(http.queue) <=> \E i \in 1..Len(http.queue) : http.queue[i] = r
      <3>1. ToSet(http.queue) = {http.queue[i] : i \in DOMAIN http.queue} /\ DOMAIN http.queue = 1..Len(http.queue)
        BY <1>0, HttpShape DEF ToSet
      <3> QED
        BY <3>1
    <2> QED
      BY <2>1 DEF HTTPInv, Queued
  <1>5. \A r \in Request : req'[r] = IF req[r] = "queued" THEN "replying" ELSE req[r]
    BY <1>4 DEF DeleteQueue
  <1>6. req' \in [Request -> ReqStates]
    <2>1. req' = [r \in Request |-> req'[r]]
      BY DEF DeleteQueue
    <2>2. \A r \in Request : req'[r] \in ReqStates
      BY <1>5 DEF HTTPInv, Types, ReqStates
    <2> QED
      BY <2>1, <2>2
  <1>7. Types'
    BY <1>3, <1>6 DEF HTTPInv, Types, DeleteQueue
  <1>8. Queued'
    <2>1. Len(http'.queue) = 0 /\ \A r \in Request : req'[r] # "queued"
      BY <1>3, <1>5
    <2> QED
      BY <2>1 DEF Queued
  <1>9. Handled'
    <2>1. \A r \in Request : req'[r] = "handled" <=> req[r] = "handled"
      BY <1>5
    <2> QED
      BY <2>1 DEF HTTPInv, Handled, Types, DeleteQueue
  <1>10. ThreadsCounted'
    BY <1>3 DEF HTTPInv, ThreadsCounted, Running, DeleteQueue
  <1> QED
    BY <1>3, <1>7, <1>8, <1>9, <1>10 DEF HTTPInv

\* evhttp_free loses the replies that are not sent.
LEMMA JoinHTTPStep ==
  ASSUME HTTPInv, JoinHTTP
  PROVE  HTTPInv' /\ ~OnLoop'
  <1>1. \A r \in Request : req'[r] = IF req[r] = "replying" THEN "lost" ELSE req[r]
    BY DEF JoinHTTP
  <1>2. req' \in [Request -> ReqStates]
    <2>1. req' = [r \in Request |-> req'[r]]
      BY DEF JoinHTTP
    <2>2. \A r \in Request : req'[r] \in ReqStates
      BY <1>1 DEF HTTPInv, Types, ReqStates
    <2> QED
      BY <2>1, <2>2
  <1>3. http' = http /\ worker' = worker /\ ~OnLoop
    BY DEF JoinHTTP
  <1>4. \A r \in Request : /\ (req'[r] = "queued") <=> (req[r] = "queued")
                           /\ (req'[r] = "handled") <=> (req[r] = "handled")
                           /\ (req'[r] = "lookup") <=> (req[r] = "lookup")
    BY <1>1
  <1>5. Types'
    BY <1>2, <1>3 DEF HTTPInv, Types
  <1>6. Queued'
    <2>1. \A i \in 1..Len(http.queue) : http.queue[i] \in Request /\ req[http.queue[i]] = "queued"
      BY DEF HTTPInv, Types, Queued, HttpType
    <2> QED
      BY <1>3, <1>4, <2>1 DEF HTTPInv, Queued
  <1>7. Handled'
    BY <1>3, <1>4 DEF HTTPInv, Handled, Types
  <1>8. ThreadsCounted'
    BY <1>3 DEF HTTPInv, ThreadsCounted, Running
  <1>9. ~OnLoop'
    BY <1>3, <1>4 DEF OnLoop, InCallback
  <1> QED
    BY <1>5, <1>6, <1>7, <1>8, <1>9 DEF HTTPInv

-----------------------------------------------------------------------------
(* What no step of the server's own threads undoes. *)

Frame ==
  /\ ~http.running => ~http'.running /\ \A w \in Worker : worker'[w].pc = "busy" => worker[w].pc = "busy"
  /\ ~http.alive => ~http'.alive /\ http'.queue = http.queue
  /\ OnLoop' => OnLoop

LEMMA EventFrame ==
  ASSUME HTTPInv, NEW r \in Request, Receive(r) \/ Enqueue(r) \/ SendReply(r)
  PROVE  Frame
  <1>0. http \in HttpType /\ req \in [Request -> ReqStates]
    BY DEF HTTPInv, Types
  <1>1. worker' = worker
    BY DEF Receive, Enqueue, SendReply, OnQueue
  <1>2. CASE Receive(r)
    <2>1. http' = http /\ http.loop = "on"
      BY <1>2 DEF Receive
    <2> QED
      BY <1>1, <2>1 DEF Frame, OnLoop
  <1>3. CASE SendReply(r)
    <2>1. http' = http /\ http.loop = "on"
      BY <1>3 DEF SendReply
    <2> QED
      BY <1>1, <2>1 DEF Frame, OnLoop
  <1>4. CASE Enqueue(r)
    <2>1. OnLoop
      BY <1>4 DEF Enqueue, OnLoop, InCallback
    <2>2. CASE http' = http
      BY <1>1, <2>1, <2>2 DEF Frame
    <2>3. CASE http.alive /\ \E c \in NotifyOne(http.cond) : http' = [http EXCEPT !.queue = Append(@, r), !.cond = c]
      <3>1. http'.running = http.running
        BY <1>0, <2>3 DEF HttpType
      <3> QED
        BY <1>1, <2>1, <2>3, <3>1 DEF Frame
    <2> QED
      BY <1>4, <2>2, <2>3 DEF Enqueue, OnQueue
  <1> QED
    BY <1>2, <1>3, <1>4

LEMMA LoopEndsFrame ==
  ASSUME HTTPInv, LoopEnds
  PROVE  Frame
  <1>1. http \in HttpType /\ worker' = worker /\ http.loop = "on"
    BY DEF HTTPInv, Types, LoopEnds
  <1>2. http'.running = http.running /\ http'.alive = http.alive /\ http'.queue = http.queue
    BY <1>1 DEF LoopEnds, HttpType
  <1> QED
    BY <1>1, <1>2 DEF Frame, OnLoop

LEMMA WorkerFrame ==
  ASSUME HTTPInv, NEW w \in Worker, RunBegins(w) \/ TakesWork(w) \/ Replies(w) \/ RunEnds(w)
  PROVE  Frame
  <1>0. http \in HttpType /\ req \in [Request -> ReqStates] /\ worker \in [Worker -> WorkerType]
    BY DEF HTTPInv, Types
  <1>1. CASE UNCHANGED <<http, worker, req>>
    BY <1>1 DEF Frame, OnLoop, InCallback
  <1>2. CASE RunBegins(w) /\ http.alive
    <2>1. http'.running = http.running /\ http'.loop = http.loop /\ req' = req
      BY <1>0, <1>2 DEF RunBegins, OnQueue, HttpType
    <2>2. \A v \in Worker : worker'[v].pc = "busy" => worker[v].pc = "busy"
      <3>1. worker' = [worker EXCEPT ![w].pc = "top"]
        BY <1>2 DEF RunBegins, OnQueue
      <3> QED
        BY <1>0, <3>1, WorkerFields
    <2> QED
      BY <1>2, <2>1, <2>2 DEF Frame, OnLoop, InCallback
  <1>3. CASE RunEnds(w) /\ http.alive
    <2>1. http'.running = http.running /\ http'.loop = http.loop /\ req' = req
      BY <1>0, <1>3 DEF RunEnds, OnQueue, HttpType
    <2>2. \A v \in Worker : worker'[v].pc = "busy" => worker[v].pc = "busy"
      <3>1. worker' = [worker EXCEPT ![w].pc = "gone"]
        BY <1>3 DEF RunEnds, OnQueue
      <3> QED
        BY <1>0, <3>1, WorkerFields
    <2> QED
      BY <1>3, <2>1, <2>2 DEF Frame, OnLoop, InCallback
  <1>4. CASE Replies(w)
    <2>1. http' = http /\ \A r \in Request : req'[r] = "lookup" => req[r] = "lookup"
      BY <1>0, <1>4 DEF Replies
    <2>2. \A v \in Worker : worker'[v].pc = "busy" => worker[v].pc = "busy"
      BY <1>0, <1>4 DEF Replies
    <2> QED
      BY <2>1, <2>2 DEF Frame, OnLoop, InCallback
  <1>5. CASE TakesWork(w) /\ http.alive /\ ~http.running
    <2>1. worker' = [worker EXCEPT ![w].pc = "leaving"] /\ http' = http /\ req' = req
      BY <1>5 DEF TakesWork, OnQueue
    <2>2. \A v \in Worker : worker'[v].pc = "busy" => worker[v].pc = "busy"
      BY <1>0, <2>1, WorkerFields
    <2> QED
      BY <2>1, <2>2 DEF Frame, OnLoop, InCallback
  <1>6. CASE TakesWork(w) /\ http.alive /\ http.running
    <2>1. CASE http' = [http EXCEPT !.cond = @ \cup {w}] /\ req' = req
      <3>1. http'.loop = http.loop
        BY <1>0, <2>1 DEF HttpType
      <3> QED
        BY <1>6, <2>1, <3>1 DEF Frame, OnLoop, InCallback
    <2>2. CASE http' = [http EXCEPT !.queue = Tail(@)] /\ req' = [req EXCEPT ![Head(http.queue)] = "handled"]
      <3>1. http'.loop = http.loop
        BY <1>0, <2>2 DEF HttpType
      <3>2. \A r \in Request : req'[r] = "lookup" => req[r] = "lookup"
        BY <1>0, <2>2
      <3> QED
        BY <1>6, <3>1, <3>2 DEF Frame, OnLoop, InCallback
    <2> QED
      BY <1>6, <2>1, <2>2 DEF TakesWork, OnQueue
  <1>7. http.alive \/ UNCHANGED <<http, worker, req>> \/ Replies(w)
    BY DEF RunBegins, TakesWork, RunEnds, OnQueue
  <1> QED
    BY <1>1, <1>2, <1>3, <1>4, <1>5, <1>6, <1>7

\* The stages of the main thread, when it does not move.
LEMMA StagesFramed ==
  ASSUME Stages, Frame, UNCHANGED <<main, sched>>
  PROVE  Stages'
  BY DEF Stages, Frame, AfterInterrupt, AfterWait, AfterDelete, AfterJoin

-----------------------------------------------------------------------------
(* The invariant is inductive. *)

LEMMA InitIInv == Init => IInv
  <1> SUFFICES ASSUME Init PROVE IInv
    OBVIOUS
  <1>1. http = [alive |-> TRUE, running |-> TRUE, numThreads |-> 0, queue |-> <<>>, cond |-> {},
                gencb |-> "request", loop |-> "on"]
    BY DEF Init, HTTPInit
  <1>2. http \in HttpType
    <2>1. <<>> \in Seq(Request) /\ {} \in SUBSET (Worker \cup {"main"})
      OBVIOUS
    <2> QED
      BY <1>1, <2>1 DEF HttpType
  <1>3. http.queue = <<>> /\ http.numThreads = 0 /\ Len(http.queue) = 0
    BY <1>1
  <1>4. worker \in [Worker -> WorkerType] /\ \A w \in Worker : worker[w].pc = "new"
    BY DEF Init, HTTPInit, NoItem, WorkerType
  <1>5. req \in [Request -> ReqStates] /\ \A r \in Request : req[r] = "none"
    BY DEF Init, HTTPInit, ReqStates
  <1>6. Types
    BY <1>2, <1>4, <1>5 DEF Types
  <1>7. Queued /\ Handled
    BY <1>3, <1>4, <1>5 DEF Queued, Handled
  <1>8. ThreadsCounted
    <2>1. Running = {}
      BY <1>4 DEF Running
    <2> QED
      BY <2>1, <1>3, FS_EmptySet DEF ThreadsCounted
  <1>9. Stages
    BY DEF Init, SchedInit, Stages, AfterInterrupt, AfterWait, AfterDelete, AfterJoin
  <1> QED
    BY <1>6, <1>7, <1>8, <1>9 DEF IInv

LEMMA NextIInv == IInv /\ [Next]_vars => IInv'
  <1> SUFFICES ASSUME IInv, [Next]_vars PROVE IInv'
    OBVIOUS
  <1>0. HTTPInv /\ Stages /\ http \in HttpType
    BY DEF IInv, HTTPInv, Types
  <1>1. ASSUME HTTPInv', Stages' PROVE IInv'
    BY <1>1 DEF IInv, HTTPInv
  <1>2. ASSUME UNCHANGED httpVars PROVE HTTPInv' /\ (OnLoop' <=> OnLoop) /\ http' = http /\ worker' = worker
    <2>1. http' = http /\ worker' = worker /\ req' = req
      BY <1>2 DEF httpVars
    <2> QED
      BY <1>0, <2>1, QueueUntouched DEF HTTPInv, Types, OnLoop, InCallback
  <1>3. ASSUME HTTPInv', Frame, UNCHANGED <<sched, main>> PROVE IInv'
    BY <1>0, <1>1, <1>3, StagesFramed
  <1>4. CASE UNCHANGED vars
    <2>1. UNCHANGED httpVars /\ sched' = sched /\ main' = main
      BY <1>4 DEF vars
    <2>2. Frame
      BY <2>1, <1>2 DEF Frame
    <2> QED
      BY <2>1, <2>2, <1>2, <1>3
  <1>5. ASSUME NEW r \in Request, OfHTTP(Receive(r) \/ Enqueue(r) \/ SendReply(r)) PROVE IInv'
    <2>1. (Receive(r) \/ Enqueue(r) \/ SendReply(r)) /\ UNCHANGED <<sched, main>>
      BY <1>5 DEF OfHTTP
    <2>2. HTTPInv'
      BY <1>0, <2>1, ReceiveStep, EnqueueStep, SendReplyStep
    <2> QED
      BY <1>0, <1>3, <2>1, <2>2, EventFrame
  <1>6. CASE OfHTTP(LoopEnds)
    <2>1. LoopEnds /\ UNCHANGED <<sched, main>>
      BY <1>6 DEF OfHTTP
    <2> QED
      BY <1>0, <1>3, <2>1, LoopEndsStep, LoopEndsFrame
  <1>7. ASSUME NEW w \in Worker, OfHTTP(WorkerStep(w) \/ TipArrives(w)) PROVE IInv'
    <2>1. (RunBegins(w) \/ TakesWork(w) \/ Replies(w) \/ RunEnds(w)) /\ UNCHANGED <<sched, main>>
      BY <1>7 DEF OfHTTP, WorkerStep, TipArrives, Handles
    <2>2. HTTPInv'
      BY <1>0, <2>1, RunBeginsStep, TakesWorkStep, RepliesStep, RunEndsStep
    <2> QED
      BY <1>0, <1>3, <2>1, <2>2, WorkerFrame
  <1>8. CASE StartShutdown
    <2>1. UNCHANGED httpVars /\ sched' = sched /\ main' = main
      BY <1>8 DEF StartShutdown
    <2>2. Frame
      BY <2>1, <1>2 DEF Frame
    <2> QED
      BY <2>1, <2>2, <1>2, <1>3
  \* The scheduler's thread, once gone, does nothing more.
  <1>9. ASSUME (\E t \in Task : OfSched(BecomesDue(t))) \/ OfSched(ServiceStep) PROVE IInv'
    <2>1. UNCHANGED httpVars /\ main' = main
      BY <1>9 DEF OfSched
    <2>2. "pc" \in DOMAIN sched
      BY <1>0 DEF Stages
    <2>3. "pc" \in DOMAIN sched' /\ (sched.pc = "gone" => sched'.pc = "gone")
      <3>1. CASE \E t \in Task : OfSched(BecomesDue(t))
        BY <2>2, <3>1 DEF OfSched, BecomesDue
      <3>2. CASE OfSched(ServiceStep)
        BY <2>2, <3>2 DEF OfSched, ServiceStep, ServiceBegins, ServiceWaits, ServiceTakes, ServiceRepeats, ServiceEnds
      <3> QED
        BY <1>9, <3>1, <3>2
    <2>4. Stages'
      BY <1>0, <1>2, <2>1, <2>3 DEF Stages
    <2> QED
      BY <1>1, <1>2, <2>1, <2>4
  <1>10. CASE MainStep
    <2>1. CASE StartNode
      <3>1. UNCHANGED httpVars /\ main' = "WaitForShutdown" /\ \E t \in Task : schedule(t)
        BY <2>1 DEF StartNode, Goes, OnSched
      <3>2. "pc" \in DOMAIN sched'
        BY <1>0, <3>1 DEF schedule, Stages
      <3>3. Stages'
        BY <3>1, <3>2 DEF Stages, AfterInterrupt, AfterWait, AfterDelete, AfterJoin
      <3> QED
        BY <1>1, <1>2, <3>1, <3>3
    <2>2. CASE WaitForShutdown
      <3>1. UNCHANGED httpVars /\ sched' = sched /\ main' = "Interrupt"
        BY <2>2 DEF WaitForShutdown, Goes
      <3>2. Stages'
        BY <1>0, <3>1 DEF Stages, AfterInterrupt, AfterWait, AfterDelete, AfterJoin
      <3> QED
        BY <1>1, <1>2, <3>1, <3>2
    <2>3. CASE Interrupt
      <3>1. CASE Goes("Interrupt", "InterruptQueue") /\ OnHTTP(StopAccepting)
        <4>1. StopAccepting /\ main' = "InterruptQueue" /\ sched' = sched
          BY <3>1 DEF Goes, OnHTTP
        <4>2. Stages'
          BY <1>0, <4>1 DEF Stages, AfterInterrupt, AfterWait, AfterDelete, AfterJoin
        <4> QED
          BY <1>0, <1>1, <4>1, <4>2, MainFieldStep
      <3>2. CASE Goes("InterruptQueue", "InterruptRPC") /\ OnHTTP(InterruptQueue)
        <4>1. InterruptQueue /\ main' = "InterruptRPC" /\ sched' = sched
          BY <3>2 DEF Goes, OnHTTP
        <4>2. ~http'.running
          BY <1>0, <4>1 DEF InterruptQueue, HttpType
        <4>3. Stages'
          BY <1>0, <4>1, <4>2 DEF Stages, AfterInterrupt, AfterWait, AfterDelete, AfterJoin
        <4> QED
          BY <1>0, <1>1, <4>1, <4>3, MainFieldStep
      <3>3. CASE Goes("InterruptRPC", "interrupt") /\ OnHTTP(InterruptRPC)
        <4>1. main = "InterruptRPC" /\ main' = "interrupt" /\ UNCHANGED <<http, worker, req, sched>>
          BY <3>3 DEF Goes, OnHTTP, InterruptRPC
        <4>2. Stages'
          BY <1>0, <4>1 DEF Stages, AfterInterrupt, AfterWait, AfterDelete, AfterJoin
        <4>3. HTTPInv'
          BY <1>0, <4>1, QueueUntouched DEF HTTPInv, Types
        <4> QED
          BY <1>1, <4>2, <4>3
      <3>4. CASE Goes("interrupt", "PrepareShutdown") /\ OnSched(interrupt)
        <4>1. main = "interrupt" /\ main' = "PrepareShutdown" /\ interrupt /\ UNCHANGED httpVars
          BY <3>4 DEF Goes, OnSched
        <4>2. "pc" \in DOMAIN sched'
          BY <1>0, <4>1 DEF interrupt, Stages
        <4>3. Stages'
          BY <1>0, <1>2, <4>1, <4>2 DEF Stages, AfterInterrupt, AfterWait, AfterDelete, AfterJoin
        <4> QED
          BY <1>1, <1>2, <4>1, <4>3
      <3> QED
        BY <2>3, <3>1, <3>2, <3>3, <3>4 DEF Interrupt
    <2>4. CASE Goes("PrepareShutdown", "WaitExit") /\ OnHTTP(UnregisterHandlers)
      <3>1. main = "PrepareShutdown" /\ main' = "WaitExit" /\ UNCHANGED <<http, worker, req, sched>>
        BY <2>4 DEF Goes, OnHTTP, UnregisterHandlers
      <3>2. Stages'
        BY <1>0, <3>1 DEF Stages, AfterInterrupt, AfterWait, AfterDelete, AfterJoin
      <3>3. HTTPInv'
        BY <1>0, <3>1, QueueUntouched DEF HTTPInv, Types
      <3> QED
        BY <1>1, <3>2, <3>3
    <2>5. CASE StopHTTPServer
      <3>1. CASE Goes("WaitExit", "WaitExit") /\ OnHTTP(WaitExitBlocks)
        <4>1. main = "WaitExit" /\ main' = "WaitExit" /\ WaitExitBlocks /\ sched' = sched
          BY <3>1 DEF Goes, OnHTTP
        <4>2. http'.running = http.running
          BY <1>0, <4>1 DEF WaitExitBlocks, HttpType
        <4>3. Stages'
          BY <1>0, <4>1, <4>2 DEF Stages, AfterInterrupt, AfterWait, AfterDelete, AfterJoin
        <4> QED
          BY <1>0, <1>1, <4>1, <4>3, MainFieldStep
      \* numThreads is 0: no worker is in Run.
      <3>2. CASE Goes("WaitExit", "DeleteQueue") /\ OnHTTP(WaitExitReturns)
        <4>1. main = "WaitExit" /\ main' = "DeleteQueue" /\ UNCHANGED httpVars /\ sched' = sched /\ http.numThreads = 0
          BY <3>2 DEF Goes, OnHTTP, WaitExitReturns
        <4>2. Running = {}
          BY <1>0, <4>1, WorkersFinite, FS_EmptySet DEF HTTPInv, ThreadsCounted
        <4>3. \A w \in Worker : worker[w].pc # "busy"
          BY <4>2 DEF Running
        <4>4. Stages'
          BY <1>0, <1>2, <4>1, <4>3 DEF Stages, AfterInterrupt, AfterWait, AfterDelete, AfterJoin
        <4> QED
          BY <1>1, <1>2, <4>1, <4>4
      <3>3. CASE Goes("DeleteQueue", "LoopBreak") /\ OnHTTP(DeleteQueue)
        <4>1. main = "DeleteQueue" /\ main' = "LoopBreak" /\ DeleteQueue /\ sched' = sched /\ worker' = worker
          BY <3>3 DEF Goes, OnHTTP, DeleteQueue
        <4>2. HTTPInv' /\ http'.queue = <<>> /\ ~http'.alive /\ http'.running = http.running
          BY <1>0, <4>1, DeleteQueueStep
        <4>3. Stages'
          BY <1>0, <4>1, <4>2 DEF Stages, AfterInterrupt, AfterWait, AfterDelete, AfterJoin
        <4> QED
          BY <1>1, <4>2, <4>3
      <3>4. CASE Goes("LoopBreak", "JoinHTTP") /\ UNCHANGED <<httpVars, sched>>
        <4>1. main = "LoopBreak" /\ main' = "JoinHTTP" /\ UNCHANGED httpVars /\ sched' = sched
          BY <3>4 DEF Goes
        <4>2. Stages'
          BY <1>0, <1>2, <4>1 DEF Stages, AfterInterrupt, AfterWait, AfterDelete, AfterJoin
        <4> QED
          BY <1>1, <1>2, <4>1, <4>2
      <3>5. CASE Goes("LoopBreak", "JoinHTTP") /\ OnHTTP(LoopBreak)
        <4>1. main = "LoopBreak" /\ main' = "JoinHTTP" /\ LoopBreak /\ sched' = sched /\ worker' = worker
          BY <3>5 DEF Goes, OnHTTP, LoopBreak
        <4>2. http'.running = http.running /\ http'.alive = http.alive /\ http'.queue = http.queue
          BY <1>0, <4>1 DEF LoopBreak, HttpType
        <4>3. Stages'
          BY <1>0, <4>1, <4>2 DEF Stages, AfterInterrupt, AfterWait, AfterDelete, AfterJoin
        <4> QED
          BY <1>0, <1>1, <4>1, <4>3, MainFieldStep
      <3>6. CASE Goes("JoinHTTP", "StopNode") /\ OnHTTP(JoinHTTP)
        <4>1. main = "JoinHTTP" /\ main' = "StopNode" /\ JoinHTTP /\ sched' = sched /\ worker' = worker /\ http' = http
          BY <3>6 DEF Goes, OnHTTP, JoinHTTP
        <4>2. HTTPInv' /\ ~OnLoop'
          BY <1>0, <4>1, JoinHTTPStep
        <4>3. Stages'
          BY <1>0, <4>1, <4>2 DEF Stages, AfterInterrupt, AfterWait, AfterDelete, AfterJoin
        <4> QED
          BY <1>1, <4>2, <4>3
      <3> QED
        BY <2>5, <3>1, <3>2, <3>3, <3>4, <3>5, <3>6 DEF StopHTTPServer
    <2>6. CASE StopNode
      <3>1. main = "StopNode" /\ main' = "stop" /\ UNCHANGED httpVars /\ sched' = sched
        BY <2>6 DEF Goes, StopNode
      <3>2. Stages'
        BY <1>0, <1>2, <3>1 DEF Stages, AfterInterrupt, AfterWait, AfterDelete, AfterJoin
      <3> QED
        BY <1>1, <1>2, <3>1, <3>2
    <2>7. CASE StopScheduler
      <3>1. CASE Goes("stop", "stop") /\ OnSched(stopBlocks)
        <4>1. main = "stop" /\ main' = "stop" /\ UNCHANGED httpVars /\ stopBlocks
          BY <3>1 DEF Goes, OnSched
        <4>2. "pc" \in DOMAIN sched'
          BY <1>0, <4>1 DEF stopBlocks, Stages
        <4>3. Stages'
          BY <1>0, <1>2, <4>1, <4>2 DEF Stages, AfterInterrupt, AfterWait, AfterDelete, AfterJoin
        <4> QED
          BY <1>1, <1>2, <4>1, <4>3
      <3>2. CASE Goes("stop", "join") /\ OnSched(stopReturns)
        <4>1. main = "stop" /\ main' = "join" /\ UNCHANGED httpVars /\ sched' = sched
          BY <3>2 DEF Goes, OnSched, stopReturns
        <4>2. Stages'
          BY <1>0, <1>2, <4>1 DEF Stages, AfterInterrupt, AfterWait, AfterDelete, AfterJoin
        <4> QED
          BY <1>1, <1>2, <4>1, <4>2
      <3>3. CASE Goes("join", "FlushStateToDisk") /\ sched.pc = "gone" /\ UNCHANGED <<httpVars, sched>>
        <4>1. main = "join" /\ main' = "FlushStateToDisk" /\ UNCHANGED httpVars /\ sched' = sched /\ sched.pc = "gone"
          BY <3>3 DEF Goes
        <4>2. Stages'
          BY <1>0, <1>2, <4>1 DEF Stages, AfterInterrupt, AfterWait, AfterDelete, AfterJoin
        <4> QED
          BY <1>1, <1>2, <4>1, <4>2
      <3> QED
        BY <2>7, <3>1, <3>2, <3>3 DEF StopScheduler
    <2>8. CASE FlushStateToDisk
      <3>1. main = "FlushStateToDisk" /\ main' = "done" /\ UNCHANGED httpVars /\ sched' = sched
        BY <2>8 DEF Goes, FlushStateToDisk
      <3>2. Stages'
        BY <1>0, <1>2, <3>1 DEF Stages, AfterInterrupt, AfterWait, AfterDelete, AfterJoin
      <3> QED
        BY <1>1, <1>2, <3>1, <3>2
    <2> QED
      BY <1>10, <2>1, <2>2, <2>3, <2>4, <2>5, <2>6, <2>7, <2>8 DEF MainStep
  <1> QED
    BY <1>4, <1>5, <1>6, <1>7, <1>8, <1>9, <1>10 DEF Next

LEMMA Invariance == Spec => []IInv
  BY InitIInv, NextIInv, PTL DEF Spec

-----------------------------------------------------------------------------
(* The theorems. *)

\* When StopHTTPServer begins to wait for the event loop, no accepted request is in the
\* work queue or with a worker: WaitExit has seen numThreads at 0, and ~HTTPRequest has
\* replied for what was still queued.
THEOREM RepliesAlwaysHandedOver == Spec => []RepliesHandedOver
  <1>1. IInv => RepliesHandedOver
    <2> SUFFICES ASSUME IInv, main \in {"LoopBreak", "JoinHTTP"}, NEW r \in Request
                 PROVE  req[r] \notin {"queued", "handled"}
      BY DEF RepliesHandedOver
    <2>1. main \in AfterDelete /\ main \in AfterWait
      BY DEF AfterDelete, AfterWait
    <2>2. http.queue = <<>> /\ \A w \in Worker : worker[w].pc # "busy"
      BY <2>1 DEF IInv, Stages
    <2>3. 1..Len(http.queue) = {}
      BY <2>2
    <2>4. req[r] # "queued"
      BY <2>3 DEF IInv, Queued
    <2>5. req[r] # "handled"
      BY <2>2 DEF IInv, Handled
    <2> QED
      BY <2>4, <2>5
  <1> QED
    BY <1>1, Invariance, PTL

\* PrepareShutdown's last FlushStateToDisk and the deletes after it run when no worker
\* is in a handler, the scheduler's thread has ended and the event thread is joined.
THEOREM FlushIsLast == Spec => []FlushedLast
  <1>1. IInv => FlushedLast
    <2> SUFFICES ASSUME IInv, main \in {"FlushStateToDisk", "done"}
                 PROVE  (\A w \in Worker : worker[w].pc # "busy") /\ sched.pc = "gone" /\ ~OnLoop
      BY DEF FlushedLast
    <2>1. main \in AfterJoin /\ main \in AfterWait
      BY DEF AfterJoin, AfterDelete, AfterWait
    <2> QED
      BY <2>1 DEF IInv, Stages
  <1> QED
    BY <1>1, Invariance, PTL
=============================================================================
