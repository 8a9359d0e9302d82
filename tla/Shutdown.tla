------------------------------ MODULE Shutdown ------------------------------
(***************************************************************************)
(* The services of the node and the main thread that starts them and takes   *)
(* them down again: AppInit2, WaitForShutdown, Interrupt and PrepareShutdown *)
(* (init.cpp, coind.cpp) over the HTTP server and the scheduler. The script  *)
(* check threads, joined just before the last flush, are module CheckQueue's.*)
(***************************************************************************)
EXTENDS HTTPServer, Scheduler

VARIABLES main,            \* the next call of the main thread
          fRequestShutdown

vars == <<httpVars, sched, main, fRequestShutdown>>

Init == HTTPInit /\ SchedInit /\ main = "StartNode" /\ fRequestShutdown = FALSE

\* A signal, the stop command, or a failed write.
StartShutdown ==
  /\ ~fRequestShutdown
  /\ fRequestShutdown' = TRUE
  /\ UNCHANGED <<httpVars, sched, main>>

Goes(from, to) == main = from /\ main' = to /\ UNCHANGED fRequestShutdown
OnHTTP(A)  == A /\ UNCHANGED sched
OnSched(A) == A /\ UNCHANGED httpVars

\* The end of AppInit2, which looks for a shutdown only long before, and leaves then.
StartNode ==
  /\ Goes("StartNode", "WaitForShutdown")
  /\ \E t \in Task : OnSched(schedule(t))

WaitForShutdown ==
  /\ fRequestShutdown
  /\ Goes("StartNode", "Interrupt") \/ Goes("WaitForShutdown", "Interrupt")
  /\ UNCHANGED <<httpVars, sched>>

InterruptKeepsRPC ==
  \/ Goes("Interrupt", "InterruptQueue") /\ OnHTTP(StopAccepting)
  \/ Goes("InterruptQueue", "interrupt") /\ OnHTTP(InterruptQueue)
  \/ Goes("interrupt", "PrepareShutdown") /\ OnSched(interrupt)
Interrupt ==
  \/ Goes("Interrupt", "InterruptQueue") /\ OnHTTP(StopAccepting)
  \/ Goes("InterruptQueue", "InterruptRPC") /\ OnHTTP(InterruptQueue)
  \/ Goes("InterruptRPC", "interrupt") /\ OnHTTP(InterruptRPC)
  \/ Goes("interrupt", "PrepareShutdown") /\ OnSched(interrupt)

StopHTTPServer ==
  \/ Goes("WaitExit", "WaitExit") /\ "main" \notin http.cond /\ OnHTTP(WaitExitBlocks)
  \/ Goes("WaitExit", "DeleteQueue") /\ "main" \notin http.cond /\ OnHTTP(WaitExitReturns)
  \/ Goes("DeleteQueue", "LoopBreak") /\ OnHTTP(DeleteQueue)
  \/ Goes("LoopBreak", "JoinHTTP") /\ http.loop = "ended" /\ UNCHANGED <<httpVars, sched>>
  \/ Goes("LoopBreak", "JoinHTTP") /\ OnHTTP(LoopBreak)
  \/ Goes("JoinHTTP", "StopNode") /\ OnHTTP(JoinHTTP)

\* StopNode writes peers.dat and joins the network threads.
StopNode == Goes("StopNode", "stop") /\ UNCHANGED <<httpVars, sched>>

StopSchedulerNoJoin ==
  \/ Goes("stop", "stop") /\ "main" \notin sched.cond /\ OnSched(stopBlocks)
  \/ Goes("stop", "FlushStateToDisk") /\ "main" \notin sched.cond /\ OnSched(stopReturns)
StopScheduler ==
  \/ Goes("stop", "stop") /\ "main" \notin sched.cond /\ OnSched(stopBlocks)
  \/ Goes("stop", "join") /\ "main" \notin sched.cond /\ OnSched(stopReturns)
  \/ Goes("join", "FlushStateToDisk") /\ sched.pc = "gone" /\ UNCHANGED <<httpVars, sched>>

\* The last flush, and the databases are closed.
FlushStateToDisk == Goes("FlushStateToDisk", "done") /\ UNCHANGED <<httpVars, sched>>

MainStep ==
  \/ StartNode \/ WaitForShutdown \/ Interrupt
  \/ Goes("PrepareShutdown", "WaitExit") /\ OnHTTP(UnregisterHandlers)
  \/ StopHTTPServer \/ StopNode \/ StopScheduler \/ FlushStateToDisk

OfHTTP(A)  == A /\ UNCHANGED <<sched, main, fRequestShutdown>>
OfSched(A) == A /\ UNCHANGED <<httpVars, main, fRequestShutdown>>

Next ==
  /\ ~raced
  /\ \/ MainStep \/ StartShutdown
     \/ \E r \in Request : OfHTTP(Receive(r) \/ Enqueue(r) \/ SendReply(r))
     \/ OfHTTP(LoopEnds)
     \/ \E w \in Worker : OfHTTP(WorkerStep(w) \/ TipArrives(w))
     \/ \E t \in Task : OfSched(BecomesDue(t))
     \/ OfSched(ServiceStep)

\* Every thread goes on when it can. Nothing is assumed of clients, of new tips, of
\* the clock or of a shutdown being asked for.
Spec ==
  /\ Init /\ [][Next]_vars
  /\ WF_vars(~raced /\ MainStep)
  /\ \A r \in Request : WF_vars(~raced /\ OfHTTP(Enqueue(r) \/ SendReply(r)))
  /\ \A w \in Worker : WF_vars(~raced /\ OfHTTP(WorkerStep(w)))
  /\ WF_vars(~raced /\ OfSched(ServiceStep))

-----------------------------------------------------------------------------
(* Properties. The exception in all of them is a thread that meets freed memory: *)
(* a worker that starts so late, or a callback that ends so late, that the queue  *)
(* is deleted, or a callback that looks for its handler while they are erased.    *)

\* A shutdown comes to its last flush, whatever requests and tasks are under way:
\* longpolls are let go, no notification of WorkQueue::cond or newTaskScheduled is
\* lost and nobody waits for somebody who waits.
ShutdownCompletes == fRequestShutdown ~> (main = "done" \/ raced)

\* "Give event loop a few seconds to exit (to send back last RPC responses), then
\* break it": when that time begins, the reply to every request that was accepted is
\* on the event loop, also to one that Enqueue took after Interrupt.
RepliesHandedOver ==
  main \in {"LoopBreak", "JoinHTTP"} /\ ~raced => \A r \in Request : req[r] \notin {"queued", "handled"}

\* The coins and the index are flushed and deleted when no handler, task or
\* callback runs any more, and none starts later.
FlushedLast ==
  main \in {"FlushStateToDisk", "done"} /\ ~raced =>
    /\ \A w \in Worker : worker[w].pc # "busy"
    /\ sched.pc = "gone"
    /\ ~OnLoop
=============================================================================
