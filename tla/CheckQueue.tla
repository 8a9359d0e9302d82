------------------------------ MODULE CheckQueue ------------------------------
(***************************************************************************)
(* The script verification queue (checkqueue.h): one master thread, inside *)
(* ConnectBlock, adds batches of checks; worker threads and, in Wait, the  *)
(* master itself take them in small groups and run them.  Every critical   *)
(* section of the queue's mutex is one step; the checks of a group run     *)
(* outside it.  A check is the value it will return.                       *)
(*                                                                         *)
(* A thread blocked on its condition variable is "waiting"; a notification *)
(* (or a spurious wakeup) makes it "woken", and it then takes the mutex    *)
(* and evaluates the predicate of the wait again.                          *)
(***************************************************************************)
EXTENDS Integers, Sequences, FiniteSets

CONSTANTS Workers,     \* the script_check_threads
          Master,      \* the thread that holds cs_main in ConnectBlock
          nBatchSize,  \* most checks a thread takes at once (128 in main.cpp)
          Batches,     \* what one call of Add may push: sequences of BOOLEAN
          MaxBlocks,   \* bound: ConnectBlock calls
          MaxAdds      \* bound: Add calls of one ConnectBlock

ASSUME CheckQueueAssumption ==
  /\ Master \notin Workers /\ IsFiniteSet(Workers)
  /\ nBatchSize \in Nat \ {0}
  /\ Batches \subseteq Seq(BOOLEAN)
  /\ MaxBlocks \in Nat
  /\ MaxAdds \in Nat

VARIABLES queue, nIdle, nTotal, fAllOk, nTodo, fQuit,  \* fields of CCheckQueue
          pc,        \* where each thread is
          vChecks,   \* the group a thread took from the queue
          nNow,      \* and its size
          fOk,       \* the thread's own result so far
          notifier,  \* the shutdown thread inside Interrupt
          blocks,    \* ConnectBlock calls made
          adds,      \* Add calls of the current one
          allGood,   \* history: every check added since the control was made passes
          verdict    \* what the last Wait returned

shared == <<queue, nIdle, nTotal, fAllOk, nTodo>>
local == <<vChecks, nNow, fOk>>
master == <<blocks, adds, allGood, verdict>>
vars == <<shared, local, master, fQuit, pc, notifier>>

Threads == Workers \cup {Master}
InLoop == {"entering", "executing", "executed", "waiting", "woken"}

TypeOK ==
  /\ queue \in Seq(BOOLEAN)
  /\ nIdle \in Nat /\ nTotal \in Nat /\ nTodo \in Nat
  /\ fAllOk \in BOOLEAN /\ fQuit \in BOOLEAN
  /\ pc \in [Threads -> InLoop \cup {"outside", "adding", "exited"}]
  /\ vChecks \in [Threads -> Seq(BOOLEAN)]
  /\ nNow \in [Threads -> Nat]
  /\ fOk \in [Threads -> BOOLEAN]
  /\ notifier \in {"none", "workers", "master", "done"}
  /\ blocks \in 0..MaxBlocks /\ adds \in 0..MaxAdds
  /\ allGood \in BOOLEAN /\ verdict \in BOOLEAN

Init ==
  /\ queue = <<>> /\ nIdle = 0 /\ nTotal = 0 /\ nTodo = 0
  /\ fAllOk = TRUE /\ fQuit = FALSE
  /\ pc = [t \in Threads |-> IF t = Master THEN "outside" ELSE "entering"]
  /\ vChecks = [t \in Threads |-> <<>>]
  /\ nNow = [t \in Threads |-> 0]
  /\ fOk = [t \in Threads |-> TRUE]
  /\ notifier = "none"
  /\ blocks = 0 /\ adds = 0 /\ allGood = TRUE /\ verdict = TRUE

-----------------------------------------------------------------------------
(* The master: CCheckQueueControl and Add *)

IsIdle == nTotal = nIdle /\ nTodo = 0 /\ fAllOk

\* The control's constructor.  It asserts IsIdle: see AssertIdle.
MakeControl ==
  /\ pc[Master] = "outside"
  /\ blocks < MaxBlocks
  /\ pc' = [pc EXCEPT ![Master] = "adding"]
  /\ blocks' = blocks + 1
  /\ adds' = 0
  /\ allGood' = TRUE
  /\ UNCHANGED <<shared, local, fQuit, notifier, verdict>>

WaitingWorkers == {w \in Workers : pc[w] = "waiting"}

\* The workers that condWorker's notification may wake when n checks arrive.
WokenByAdd(n) ==
  IF n > 1 THEN {WaitingWorkers}
  ELSE IF n = 1 /\ WaitingWorkers # {} THEN {{w} : w \in WaitingWorkers}
  ELSE {{}}

Add ==
  /\ pc[Master] = "adding"
  /\ adds < MaxAdds
  /\ \E b \in Batches : \E woken \in WokenByAdd(Len(b)) :
       /\ queue' = queue \o b
       /\ nTodo' = nTodo + Len(b)
       /\ pc' = [t \in Threads |-> IF t \in woken THEN "woken" ELSE pc[t]]
       /\ allGood' = (allGood /\ \A i \in DOMAIN b : b[i])
  /\ adds' = adds + 1
  /\ UNCHANGED <<nIdle, nTotal, fAllOk, local, fQuit, notifier, blocks, verdict>>

\* Wait, called by ConnectBlock or, after an early return, by the destructor.
CallWait ==
  /\ pc[Master] = "adding"
  /\ pc' = [pc EXCEPT ![Master] = "entering"]
  /\ nNow' = [nNow EXCEPT ![Master] = 0]
  /\ UNCHANGED <<shared, vChecks, fOk, master, fQuit, notifier>>

-----------------------------------------------------------------------------
(* Loop: one critical section is a clean-up of the previous group followed *)
(* by a return, a wait or a new group.                                      *)

AtSection(t) == pc[t] \in {"entering", "executed", "woken"}

\* Mutant: the group's result is lost.
OkAfterDropped(t) == fAllOk
\* Mutant: the group counts as one check.
TodoAfterOne(t) == IF pc[t] = "executed" THEN nTodo - 1 ELSE nTodo
\* Mutant: the last worker does not tell the master.
MasterNeverNotified(t) == FALSE

OkAfter(t) == IF pc[t] = "executed" THEN fAllOk /\ fOk[t] ELSE fAllOk
TodoAfter(t) == IF pc[t] = "executed" THEN nTodo - nNow[t] ELSE nTodo
TotalAfter(t) == IF pc[t] = "entering" THEN nTotal + 1 ELSE nTotal
MasterNotified(t) == t # Master /\ pc[t] = "executed" /\ TodoAfter(t) = 0

\* t moves to p; the last group's worker also wakes a waiting master.
Goto(t, p) ==
  pc' = [pc EXCEPT ![t] = p,
                   ![Master] = IF MasterNotified(t) /\ @ = "waiting" THEN "woken" ELSE @]

CanReturn(t) == (t = Master \/ fQuit) /\ TodoAfter(t) = 0

\* Mutant: nIdle-- is missing after the wait.
IdleAfterMissing(t) == nIdle

\* The wait's predicate was true, so a woken thread is no longer idle.
IdleAfter(t) == IF pc[t] = "woken" THEN nIdle - 1 ELSE nIdle

Return(t) ==
  /\ AtSection(t)
  /\ queue = <<>>
  /\ CanReturn(t)
  /\ nTotal' = TotalAfter(t) - 1
  /\ nIdle' = IdleAfter(t)
  /\ nTodo' = TodoAfter(t)
  /\ IF t = Master
       THEN fAllOk' = TRUE /\ verdict' = OkAfter(t) /\ Goto(t, "outside")
       ELSE fAllOk' = OkAfter(t) /\ verdict' = verdict /\ Goto(t, "exited")
  /\ UNCHANGED <<queue, local, fQuit, notifier, blocks, adds, allGood>>

Sleep(t) ==
  /\ AtSection(t)
  /\ queue = <<>>
  /\ ~CanReturn(t)
  /\ nTotal' = TotalAfter(t)
  /\ nIdle' = IF pc[t] = "woken" THEN nIdle ELSE nIdle + 1
  /\ nTodo' = TodoAfter(t)
  /\ fAllOk' = OkAfter(t)
  /\ Goto(t, "waiting")
  /\ UNCHANGED <<queue, local, fQuit, notifier, master>>

GroupSize(n, total, idle) ==
  LET share == n \div (total + idle + 1)
      capped == IF share < nBatchSize THEN share ELSE nBatchSize
  IN  IF capped < 1 THEN 1 ELSE capped

Take(t) ==
  /\ AtSection(t)
  /\ queue # <<>>
  /\ LET n == GroupSize(Len(queue), TotalAfter(t), IdleAfter(t))
         rest == Len(queue) - n
     IN  /\ nNow' = [nNow EXCEPT ![t] = n]
         /\ vChecks' = [vChecks EXCEPT ![t] = SubSeq(queue, rest + 1, Len(queue))]
         /\ queue' = SubSeq(queue, 1, rest)
  /\ nTotal' = TotalAfter(t)
  /\ nIdle' = IdleAfter(t)
  /\ nTodo' = TodoAfter(t)
  /\ fAllOk' = OkAfter(t)
  /\ fOk' = [fOk EXCEPT ![t] = OkAfter(t)]
  /\ Goto(t, "executing")
  /\ UNCHANGED <<fQuit, notifier, master>>

Execute(t) ==
  /\ pc[t] = "executing"
  /\ fOk' = [fOk EXCEPT ![t] = @ /\ \A i \in DOMAIN vChecks[t] : vChecks[t][i]]
  /\ vChecks' = [vChecks EXCEPT ![t] = <<>>]
  /\ pc' = [pc EXCEPT ![t] = "executed"]
  /\ UNCHANGED <<shared, nNow, master, fQuit, notifier>>

-----------------------------------------------------------------------------
(* Interrupt sets fQuit under the mutex and notifies after releasing it. *)

Interrupt ==
  /\ notifier = "none"
  /\ fQuit' = TRUE
  /\ notifier' = "workers"
  /\ UNCHANGED <<shared, local, master, pc>>

InterruptNotify ==
  \/ /\ notifier = "workers"
     /\ notifier' = "master"
     /\ pc' = [t \in Threads |-> IF t \in WaitingWorkers THEN "woken" ELSE pc[t]]
     /\ UNCHANGED <<shared, local, master, fQuit>>
  \/ /\ notifier = "master"
     /\ notifier' = "done"
     /\ pc' = [pc EXCEPT ![Master] = IF @ = "waiting" THEN "woken" ELSE @]
     /\ UNCHANGED <<shared, local, master, fQuit>>

SpuriousWakeup(t) ==
  /\ pc[t] = "waiting"
  /\ pc' = [pc EXCEPT ![t] = "woken"]
  /\ UNCHANGED <<shared, local, master, fQuit, notifier>>

Loop(t) == Return(t) \/ Sleep(t) \/ Take(t) \/ Execute(t)

Next ==
  \/ MakeControl
  \/ Add
  \/ CallWait
  \/ Interrupt
  \/ InterruptNotify
  \/ \E t \in Threads : Return(t) \/ Sleep(t) \/ Take(t) \/ Execute(t) \/ SpuriousWakeup(t)

Spec == Init /\ [][Next]_vars

(* Every thread that can take the mutex eventually does, checks terminate, *)
(* ConnectBlock eventually waits; nobody has to shut the node down.        *)
Fairness ==
  /\ \A t \in Threads : WF_vars(Loop(t))
  /\ WF_vars(CallWait)
  /\ WF_vars(InterruptNotify)

FairSpec == Spec /\ Fairness

-----------------------------------------------------------------------------
(* Properties *)

\* The assertion of CCheckQueueControl's constructor never fails: whenever the
\* master is between two blocks every worker that entered the loop is counted
\* idle, nothing is left to do and the result flag has been reset.
AssertIdle == pc[Master] = "outside" => IsIdle

\* Wait returns true exactly when every check of this block passes, whichever
\* threads ran them and in whatever order their results were merged, also
\* while the node is shutting down.
VerdictIsConjunction == pc[Master] = "outside" => verdict = allGood

\* The checks in the threads' own groups, as places in them.
Held(size) == UNION {{t} \X (1..size[t]) : t \in Threads}
Holding == [t \in Threads |-> IF pc[t] \in {"executing", "executed"} THEN nNow[t] ELSE 0]
InGroups == Held(Holding)
Inside == {t \in Threads : pc[t] \in InLoop \ {"entering"}}
Idle == {t \in Threads : pc[t] \in {"waiting", "woken"}}

\* nTodo counts the queued checks and those in the threads' own groups, nTotal
\* the threads inside Loop, nIdle those blocked on a condition variable.
CountersAgree ==
  /\ nTodo = Len(queue) + Cardinality(InGroups)
  /\ nTotal = Cardinality(Inside)
  /\ nIdle = Cardinality(Idle)

\* A call of Wait always returns: no notification the master depends on is lost.
WaitReturns == (pc[Master] = "entering") ~> (pc[Master] = "outside")

\* "Interrupt all script checking threads once they're out of work" (main.h:95):
\* after Interrupt every worker leaves Loop, so that PrepareShutdown can join it.
WorkersExit == fQuit ~> (\A w \in Workers : pc[w] = "exited")
=============================================================================
