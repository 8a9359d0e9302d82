------------------------------ MODULE Scheduler ------------------------------
(***************************************************************************)
(* CScheduler (scheduler.cpp) with the one thread that services it. Times    *)
(* are abstract: a task in taskQueue is due or not yet due, and those that   *)
(* are due are first in the queue. All tasks repeat, as scheduleEvery makes  *)
(* them; the node has one, DumpData.                                         *)
(***************************************************************************)
EXTENDS Naturals

CONSTANT Task

VARIABLE sched   \* taskQueue, the tasks that are due, the one that runs, stopRequested,
                 \* nThreadsServicingQueue, the threads blocked on newTaskScheduled, where the
                 \* service thread is and the tasks whose time it waits for

NoTask == "none"

SchedInit ==
  sched = [taskQueue |-> {}, due |-> {}, runs |-> NoTask, stopRequested |-> FALSE, threads |-> 0,
           cond |-> {}, until |-> {}, pc |-> "new"]

\* notify_one wakes one of the service thread and a caller of stop.
Notified(waiting) == IF waiting = {} THEN {{}} ELSE {waiting \ {t} : t \in waiting}

schedule(t) == \E c \in Notified(sched.cond) : sched' = [sched EXCEPT !.taskQueue = @ \cup {t}, !.cond = c]

\* The time of a task comes.
BecomesDue(t) == t \in sched.taskQueue \ sched.due /\ sched' = [sched EXCEPT !.due = @ \cup {t}]

\* serviceQueue.
ServiceBegins == sched.pc = "new" /\ sched' = [sched EXCEPT !.threads = @ + 1, !.pc = "loop"]

\* The thread has the lock, and waits for a task or for the time of the first one.
ServiceWaits ==
  /\ sched.pc = "loop" /\ "service" \notin sched.cond
  /\ ~sched.stopRequested
  /\ sched.due = {}
  /\ sched' = [sched EXCEPT !.cond = @ \cup {"service"}, !.until = sched.taskQueue]

\* wait_until finds that the time has come; a thread that waits for a task to be
\* scheduled has no time to wait for.
ServiceTakes ==
  /\ sched.pc = "loop"
  /\ "service" \in sched.cond => sched.until \cap sched.due # {}
  /\ ~sched.stopRequested
  /\ \E t \in sched.due :
       sched' = [sched EXCEPT !.taskQueue = @ \ {t}, !.due = @ \ {t}, !.runs = t, !.cond = @ \ {"service"}, !.pc = "busy"]

\* Repeat puts the task back when it has run.
ServiceRepeats ==
  /\ sched.pc = "busy"
  /\ \E c \in Notified(sched.cond) :
       sched' = [sched EXCEPT !.taskQueue = @ \cup {sched.runs}, !.runs = NoTask, !.cond = c, !.pc = "loop"]

ServiceEnds ==
  /\ sched.pc = "loop" /\ "service" \notin sched.cond
  /\ sched.stopRequested
  /\ \E c \in Notified(sched.cond) : sched' = [sched EXCEPT !.threads = @ - 1, !.cond = c, !.pc = "gone"]

ServiceStep == ServiceBegins \/ ServiceWaits \/ ServiceTakes \/ ServiceRepeats \/ ServiceEnds

\* What the main thread calls: interrupt(false), and stop with its two outcomes.
interrupt == sched' = [sched EXCEPT !.stopRequested = TRUE, !.cond = {}]
stopBlocks == sched.threads > 0 /\ sched' = [sched EXCEPT !.cond = @ \cup {"main"}]
stopReturns == sched.threads = 0 /\ UNCHANGED sched
=============================================================================
