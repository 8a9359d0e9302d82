----------------------------- MODULE HTTPServer -----------------------------
(***************************************************************************)
(* The HTTP server behind the RPC interface (httpserver.cpp): the event     *)
(* thread, which takes requests and sends replies, the bounded WorkQueue    *)
(* and its detached worker threads. What the main thread does to them at a  *)
(* shutdown is here as operators; module Shutdown puts them in order.       *)
(*                                                                          *)
(* A request goes from "none" (not sent) through "lookup" (in              *)
(* http_request_cb, before Enqueue), "queued", "handled" (a worker runs its *)
(* handler) and "replying" (its reply is an event on the base) to           *)
(* "answered"; it is "lost" when its connection is freed without an answer. *)
(***************************************************************************)
EXTENDS Naturals, FiniteSets, Sequences, SequencesExt

CONSTANTS Worker,     \* -rpcthreads
          Request,
          LongPoll,   \* the requests whose handler waits for a new tip or the end of RPC
          MaxDepth    \* -rpcworkqueue

ASSUME HTTPAssumption ==
  /\ LongPoll \subseteq Request /\ MaxDepth \in Nat \ {0}
  /\ IsFiniteSet(Worker) /\ "main" \notin Worker

VARIABLES
  http,     \* the work queue (alive until its delete, running, numThreads, queue), the threads
            \* blocked on cond, the callback of the server and its event loop
  worker,   \* where each worker is, and its work item
  req,
  rpcRunning,
  raced     \* a thread has used what the main thread has freed: nothing is known from there on

httpVars == <<http, worker, req, rpcRunning, raced>>

NoItem == [pc |-> "new", item |-> "none"]

HTTPInit ==
  /\ http = [alive |-> TRUE, running |-> TRUE, numThreads |-> 0, queue |-> <<>>, cond |-> {},
             gencb |-> "request", loop |-> "on"]
  /\ worker = [w \in Worker |-> NoItem]
  /\ req = [r \in Request |-> "none"]
  /\ rpcRunning = TRUE
  /\ raced = FALSE

InCallback == \E r \in Request : req[r] = "lookup"
OnLoop     == http.loop = "on" \/ InCallback    \* a callback is finished before the loop ends

-----------------------------------------------------------------------------
(* The event thread. *)

\* A request arrives: http_request_cb answers some at once (address, method, path)
\* and looks up the handler of the others; http_reject_request_cb answers 503.
Receive(r) ==
  /\ http.loop = "on" /\ ~InCallback
  /\ req[r] = "none"
  /\ IF http.gencb = "request"
     THEN \E s \in {"lookup", "replying"} : req' = [req EXCEPT ![r] = s]
     ELSE req' = [req EXCEPT ![r] = "answered"]
  /\ UNCHANGED <<http, worker, rpcRunning, raced>>

\* notify_one and notify_all on WorkQueue::cond; WaitExit blocks on it too.
NotifyOne(waiting) == IF waiting = {} THEN {{}} ELSE {waiting \ {t} : t \in waiting}

\* A step on the work queue; when it has been deleted, a use of freed memory.
OnQueue(A) ==
  IF http.alive THEN A /\ UNCHANGED raced ELSE raced' = TRUE /\ UNCHANGED <<http, worker, req>>

Enqueue(r) ==
  /\ req[r] = "lookup"
  /\ OnQueue(/\ IF Len(http.queue) >= MaxDepth
                THEN req' = [req EXCEPT ![r] = "replying"] /\ UNCHANGED http
                ELSE /\ \E c \in NotifyOne(http.cond) :
                          http' = [http EXCEPT !.queue = Append(@, r), !.cond = c]
                     /\ req' = [req EXCEPT ![r] = "queued"]
             /\ UNCHANGED worker)
  /\ UNCHANGED rpcRunning

\* evhttp_send_reply, an event of the base.
SendReply(r) ==
  /\ http.loop = "on" /\ ~InCallback
  /\ req[r] = "replying"
  /\ req' = [req EXCEPT ![r] = "answered"]
  /\ UNCHANGED <<http, worker, rpcRunning, raced>>

\* event_base_dispatch returns once nothing is listened to or outstanding, though
\* an idle connection may keep it.
LoopEnds ==
  /\ http.loop = "on" /\ http.gencb = "reject"
  /\ \A r \in Request : req[r] \in {"none", "answered"}
  /\ http' = [http EXCEPT !.loop = "ended"]
  /\ UNCHANGED <<worker, req, rpcRunning, raced>>

-----------------------------------------------------------------------------
(* A worker: Run with its ThreadCounter. *)

RunBegins(w) ==
  /\ worker[w].pc = "new"
  /\ OnQueue(/\ http' = [http EXCEPT !.numThreads = @ + 1]
             /\ worker' = [worker EXCEPT ![w].pc = "top"]
             /\ UNCHANGED req)
  /\ UNCHANGED rpcRunning

\* The section under cs, entered from the top of the loop or from cond.wait. The
\* read of running outside of it decides nothing that the one inside does not.
TakesWork(w) ==
  /\ worker[w].pc = "top" /\ w \notin http.cond
  /\ OnQueue(IF ~http.running
             THEN worker' = [worker EXCEPT ![w].pc = "leaving"] /\ UNCHANGED <<http, req>>
             ELSE IF http.queue = <<>>
             THEN http' = [http EXCEPT !.cond = @ \cup {w}] /\ UNCHANGED <<worker, req>>
             ELSE /\ http' = [http EXCEPT !.queue = Tail(@)]
                  /\ worker' = [worker EXCEPT ![w] = [pc |-> "busy", item |-> Head(http.queue)]]
                  /\ req' = [req EXCEPT ![Head(http.queue)] = "handled"])
  /\ UNCHANGED rpcRunning

\* The handler returns and the item is deleted. Whether the handler has replied or
\* ~HTTPRequest does, the reply is on its way.
Replies(w) ==
  /\ worker[w].pc = "busy"
  /\ req' = [req EXCEPT ![worker[w].item] = "replying"]
  /\ worker' = [worker EXCEPT ![w] = [pc |-> "top", item |-> "none"]]
  /\ UNCHANGED <<http, rpcRunning, raced>>

Handles(w)  == (worker[w].item \in LongPoll => ~rpcRunning) /\ Replies(w)
TipArrives(w) == worker[w].item \in LongPoll /\ Replies(w)

RunEnds(w) ==
  /\ worker[w].pc = "leaving"
  /\ OnQueue(/\ http' = [http EXCEPT !.numThreads = @ - 1, !.cond = {}]
             /\ worker' = [worker EXCEPT ![w].pc = "gone"]
             /\ UNCHANGED req)
  /\ UNCHANGED rpcRunning

WorkerStep(w) == RunBegins(w) \/ TakesWork(w) \/ Handles(w) \/ RunEnds(w)

-----------------------------------------------------------------------------
(* What the main thread calls. *)

\* InterruptHTTPServer, first half.
StopAccepting == http' = [http EXCEPT !.gencb = "reject"] /\ UNCHANGED <<worker, req, rpcRunning, raced>>

\* WorkQueue::Interrupt.
InterruptQueue ==
  http' = [http EXCEPT !.running = FALSE, !.cond = {}] /\ UNCHANGED <<worker, req, rpcRunning, raced>>

InterruptRPC == rpcRunning' = FALSE /\ UNCHANGED <<http, worker, req, raced>>

\* StopHTTPRPC and StopREST erase from pathHandlers without a lock: a callback that
\* is still looking for its handler reads what is being moved.
UnregisterHandlers == raced' \in {FALSE, InCallback} /\ UNCHANGED <<http, worker, req, rpcRunning>>

\* WaitExit: its two outcomes.
WaitExitBlocks ==
  /\ http.numThreads > 0
  /\ http' = [http EXCEPT !.cond = @ \cup {"main"}]
  /\ UNCHANGED <<worker, req, rpcRunning, raced>>
WaitExitReturns == http.numThreads = 0 /\ UNCHANGED httpVars

\* delete workQueue: ~HTTPRequest replies to what is left in it.
DeleteQueueDropsItems ==
  /\ http' = [http EXCEPT !.alive = FALSE, !.queue = <<>>]
  /\ UNCHANGED <<worker, req, rpcRunning, raced>>
DeleteQueue ==
  /\ http' = [http EXCEPT !.alive = FALSE, !.queue = <<>>]
  /\ req' = [r \in Request |-> IF r \in ToSet(http.queue) THEN "replying" ELSE req[r]]
  /\ UNCHANGED <<worker, rpcRunning, raced>>

\* The loop ends by itself within two seconds, or is broken.
LoopBreak ==
  /\ http.loop = "on"
  /\ http' = [http EXCEPT !.loop = "broken"]
  /\ UNCHANGED <<worker, req, rpcRunning, raced>>

\* threadHTTP.join, evhttp_free.
JoinHTTP ==
  /\ ~OnLoop
  /\ req' = [r \in Request |-> IF req[r] = "replying" THEN "lost" ELSE req[r]]
  /\ UNCHANGED <<http, worker, rpcRunning, raced>>
=============================================================================
