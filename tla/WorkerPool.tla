------------------------------ MODULE WorkerPool ------------------------------
(***************************************************************************)
(* The judge worker pool (backend/src/judge/worker_pool.{hpp,cpp}) with    *)
(* the threads that use it: the HTTP threads that run submitHandler, the   *)
(* worker threads, and the main thread, which calls shutdown() from the    *)
(* signal hook and again from the destructor.                              *)
(*                                                                         *)
(* A critical section of mutex_ is one step.  What happens outside it is a *)
(* step of its own: the notify_one() of submit() after the unlock, the     *)
(* future.get() of the caller, the run of a task, the notify_all() and the *)
(* joins of shutdown().                                                    *)
(***************************************************************************)
EXTENDS Naturals, Sequences, FiniteSets

CONSTANTS Workers,  \* the worker threads of the pool
          Tasks,    \* the submissions; each is submitted at most once
          NoTask    \* what a worker that runs nothing runs

ASSUME WorkersAssumption == IsFiniteSet(Workers) /\ Workers # {}
ASSUME TasksAssumption == IsFiniteSet(Tasks) /\ NoTask \notin Tasks

VARIABLES tasks,    \* tasks_: the queue
          stopping, \* stopping_
          wpc,      \* where each worker is in workerLoop()
          running,  \* running[w]: the task worker w runs
          result,   \* result[t]: the shared state of the future of task t
          cpc,      \* where the caller of submit(t) is
          mpc,      \* where the main thread is in shutdown()
          dtor      \* TRUE when that shutdown() is the destructor's

vars == <<tasks, stopping, wpc, running, result, cpc, mpc, dtor>>

Init == /\ tasks = <<>>
        /\ stopping = FALSE
        /\ wpc = [w \in Workers |-> "ready"]
        /\ running = [w \in Workers |-> NoTask]
        /\ result = [t \in Tasks |-> "none"]
        /\ cpc = [t \in Tasks |-> "start"]
        /\ mpc = "serving"
        /\ dtor = FALSE

(* The workers blocked in available_.wait(): they hold no lock and take a  *)
(* step only when a notification, or a spurious wakeup, lets them.         *)
Asleep == {w \in Workers : wpc[w] = "asleep"}

-------------------------------------------------------------------------------
(* submit(), and submitHandler around it. *)

(* The critical section of submit().  A stopping pool throws: the handler  *)
(* answers 500.  The destructor runs when no handler is left to call.      *)
Submit(t) ==
  /\ cpc[t] = "start"
  /\ ~dtor
  /\ \/ /\ stopping
        /\ cpc' = [cpc EXCEPT ![t] = "refused"]
        /\ UNCHANGED tasks
     \/ /\ ~stopping
        /\ cpc' = [cpc EXCEPT ![t] = "notify"]
        /\ tasks' = Append(tasks, t)
  /\ UNCHANGED <<stopping, wpc, running, result, mpc, dtor>>

Mutant_NotifyFirstOnly(t) ==
  /\ cpc[t] = "notify"
  /\ cpc' = [cpc EXCEPT ![t] = "get"]
  /\ \/ Len(tasks) = 1 /\ \E w \in Asleep : wpc' = [wpc EXCEPT ![w] = "ready"]
     \/ (Asleep = {} \/ Len(tasks) # 1) /\ UNCHANGED wpc
  /\ UNCHANGED <<tasks, stopping, running, result, mpc, dtor>>

(* notify_one() wakes one sleeping worker, if there is one. *)
NotifyOne(t) ==
  /\ cpc[t] = "notify"
  /\ cpc' = [cpc EXCEPT ![t] = "get"]
  /\ \/ \E w \in Asleep : wpc' = [wpc EXCEPT ![w] = "ready"]
     \/ Asleep = {} /\ UNCHANGED wpc
  /\ UNCHANGED <<tasks, stopping, running, result, mpc, dtor>>

(* future.get() blocks until the shared state is ready, then the handler   *)
(* answers 200 with the verdict or 500 with the exception.                 *)
Get(t) ==
  /\ cpc[t] = "get"
  /\ result[t] # "none"
  /\ cpc' = [cpc EXCEPT ![t] = "answered"]
  /\ UNCHANGED <<tasks, stopping, wpc, running, result, mpc, dtor>>

-------------------------------------------------------------------------------
(* workerLoop(): the predicate of the wait and what follows it under the   *)
(* same lock.                                                              *)

Mutant_SleepWhenStopping(w) ==
  /\ wpc[w] = "ready"
  /\ tasks = <<>>
  /\ wpc' = [wpc EXCEPT ![w] = "asleep"]
  /\ UNCHANGED <<tasks, stopping, running, result, cpc, mpc, dtor>>

Sleep(w) ==
  /\ wpc[w] = "ready"
  /\ ~stopping
  /\ tasks = <<>>
  /\ wpc' = [wpc EXCEPT ![w] = "asleep"]
  /\ UNCHANGED <<tasks, stopping, running, result, cpc, mpc, dtor>>

Mutant_ExitWithoutDraining(w) ==
  /\ wpc[w] = "ready"
  /\ stopping
  /\ wpc' = [wpc EXCEPT ![w] = "exited"]
  /\ UNCHANGED <<tasks, stopping, running, result, cpc, mpc, dtor>>

Exit(w) ==
  /\ wpc[w] = "ready"
  /\ stopping
  /\ tasks = <<>>
  /\ wpc' = [wpc EXCEPT ![w] = "exited"]
  /\ UNCHANGED <<tasks, stopping, running, result, cpc, mpc, dtor>>

Mutant_TakeWithoutPop(w) ==
  /\ wpc[w] = "ready"
  /\ tasks # <<>>
  /\ wpc' = [wpc EXCEPT ![w] = "busy"]
  /\ running' = [running EXCEPT ![w] = Head(tasks)]
  /\ UNCHANGED <<tasks, stopping, result, cpc, mpc, dtor>>

Mutant_TakeNewest(w) ==
  /\ wpc[w] = "ready"
  /\ tasks # <<>>
  /\ wpc' = [wpc EXCEPT ![w] = "busy"]
  /\ running' = [running EXCEPT ![w] = tasks[Len(tasks)]]
  /\ tasks' = SubSeq(tasks, 1, Len(tasks) - 1)
  /\ UNCHANGED <<stopping, result, cpc, mpc, dtor>>

Take(w) ==
  /\ wpc[w] = "ready"
  /\ tasks # <<>>
  /\ wpc' = [wpc EXCEPT ![w] = "busy"]
  /\ running' = [running EXCEPT ![w] = Head(tasks)]
  /\ tasks' = Tail(tasks)
  /\ UNCHANGED <<stopping, result, cpc, mpc, dtor>>

Mutant_ExceptionLeavesLoop(w) ==
  /\ wpc[w] = "busy"
  /\ \E r \in {"value", "exception"} :
       /\ result' = [result EXCEPT ![running[w]] = r]
       /\ wpc' = [wpc EXCEPT ![w] = IF r = "value" THEN "ready" ELSE "dead"]
  /\ running' = [running EXCEPT ![w] = NoTask]
  /\ UNCHANGED <<tasks, stopping, cpc, mpc, dtor>>

(* task(): the packaged_task stores the value or the exception of the      *)
(* pipeline in the shared state; neither leaves the try block.             *)
Run(w) ==
  /\ wpc[w] = "busy"
  /\ \E r \in {"value", "exception"} :
       result' = [result EXCEPT ![running[w]] = r]
  /\ wpc' = [wpc EXCEPT ![w] = "ready"]
  /\ running' = [running EXCEPT ![w] = NoTask]
  /\ UNCHANGED <<tasks, stopping, cpc, mpc, dtor>>

(* A condition variable may wake a waiter that nobody notified. *)
SpuriousWakeup(w) ==
  /\ wpc[w] = "asleep"
  /\ wpc' = [wpc EXCEPT ![w] = "ready"]
  /\ UNCHANGED <<tasks, stopping, running, result, cpc, mpc, dtor>>

-------------------------------------------------------------------------------
(* shutdown(), on the main thread: d is FALSE for the signal hook and TRUE *)
(* for the destructor.  main() runs the hook once, and destroys the pool   *)
(* when the listen thread and with it every handler is gone.               *)

Handling(t) == cpc[t] \in {"notify", "get"}

After(d) == IF d THEN "destroyed" ELSE "serving"

Shutdown(d) ==
  /\ mpc = "serving"
  /\ IF d THEN \A t \in Tasks : ~Handling(t) ELSE ~stopping
  /\ dtor' = d
  /\ stopping' = TRUE
  /\ mpc' = IF stopping THEN After(d) ELSE "notify"
  /\ UNCHANGED <<tasks, wpc, running, result, cpc>>

Mutant_NotifyAllOnlyOne ==
  /\ mpc = "notify"
  /\ mpc' = "join"
  /\ \/ \E w \in Asleep : wpc' = [wpc EXCEPT ![w] = "ready"]
     \/ Asleep = {} /\ UNCHANGED wpc
  /\ UNCHANGED <<tasks, stopping, running, result, cpc, dtor>>

NotifyAll ==
  /\ mpc = "notify"
  /\ mpc' = "join"
  /\ wpc' = [w \in Workers |-> IF w \in Asleep THEN "ready" ELSE wpc[w]]
  /\ UNCHANGED <<tasks, stopping, running, result, cpc, dtor>>

Mutant_Detach ==
  /\ mpc = "join"
  /\ mpc' = After(dtor)
  /\ UNCHANGED <<tasks, stopping, wpc, running, result, cpc, dtor>>

Join ==
  /\ mpc = "join"
  /\ \A w \in Workers : wpc[w] = "exited"
  /\ mpc' = After(dtor)
  /\ UNCHANGED <<tasks, stopping, wpc, running, result, cpc, dtor>>

(* The process is gone; the step lets a finished behaviour stutter. *)
Destroyed == mpc = "destroyed" /\ UNCHANGED vars

-------------------------------------------------------------------------------
WorkerStep(w) == Sleep(w) \/ Exit(w) \/ Take(w) \/ Run(w)

CallerStep(t) == NotifyOne(t) \/ Get(t)

Next == \/ \E t \in Tasks : Submit(t) \/ CallerStep(t)
        \/ \E w \in Workers : WorkerStep(w) \/ SpuriousWakeup(w)
        \/ \E d \in BOOLEAN : Shutdown(d)
        \/ NotifyAll
        \/ Join
        \/ Destroyed

Safety == Init /\ [][Next]_vars

(* A thread inside the pool's code goes on; nobody has to submit a task,   *)
(* send a signal or wake a sleeper spuriously.  Run is fair because the    *)
(* pipeline kills what exceeds its limits (runner.cpp, compiler.cpp).      *)
Spec == /\ Safety
        /\ \A w \in Workers : WF_vars(WorkerStep(w))
        /\ \A t \in Tasks : WF_vars(CallerStep(t))
        /\ WF_vars(NotifyAll)
        /\ WF_vars(Join)
-------------------------------------------------------------------------------
(* What the pool must guarantee. *)

InQueue(t) == \E i \in DOMAIN tasks : tasks[i] = t

RunBy(t) == {w \in Workers : running[w] = t}

Unfinished(t) == Handling(t) /\ result[t] = "none"

(* The workers about to test the predicate, and the callers about to wake  *)
(* somebody.                                                               *)
Ready == {w \in Workers : wpc[w] = "ready"}

Notifying == {t \in Tasks : cpc[t] = "notify"}

TypeOK ==
  /\ tasks \in Seq(Tasks)
  /\ stopping \in BOOLEAN
  /\ wpc \in [Workers -> {"ready", "asleep", "busy", "exited"}]
  /\ running \in [Workers -> Tasks \union {NoTask}]
  /\ result \in [Tasks -> {"none", "value", "exception"}]
  /\ cpc \in [Tasks -> {"start", "notify", "get", "answered", "refused"}]
  /\ mpc \in {"serving", "notify", "join", "destroyed"}
  /\ dtor \in BOOLEAN

(* A submission whose handler still waits for an outcome is in the queue   *)
(* once or run by one worker, never both, never neither: the moves out of  *)
(* tasks_ in workerLoop() lose and duplicate nothing, and no finished or   *)
(* refused submission is left in the queue or run.                         *)
NoTaskLost ==
  /\ \A i, j \in DOMAIN tasks : tasks[i] = tasks[j] => i = j
  /\ \A w1, w2 \in Workers :
       running[w1] = running[w2] /\ running[w1] # NoTask => w1 = w2
  /\ \A t \in Tasks :
       /\ Unfinished(t) <=> (InQueue(t) \/ RunBy(t) # {})
       /\ ~(InQueue(t) /\ RunBy(t) # {})

(* While a worker sleeps, each queued task has an awake worker of its own  *)
(* or a notify_one() still to come: submit() may notify after it unlocked, *)
(* and a worker may barge in front of the one that was notified, without a *)
(* task being left to wait beside an idle worker.                          *)
WakeupsSuffice ==
  Asleep # {} =>
    Len(tasks) <= Cardinality(Ready) + Cardinality(Notifying)

(* A worker sleeps in a stopping pool only until the notify_all() that     *)
(* shutdown() is about to make: stopping_ is set under the lock the worker *)
(* tests it under.                                                         *)
SleepersAreTold == stopping /\ Asleep # {} => mpc = "notify"

(* When shutdown() has returned, to the hook or from the destructor, no    *)
(* worker thread is left, the queue is empty and every accepted submission *)
(* has its outcome: the pool is drained, not dropped.                      *)
ShutdownReturned == stopping /\ mpc \in {"serving", "destroyed"}

ShutdownDrains ==
  ShutdownReturned =>
    /\ \A w \in Workers : wpc[w] = "exited"
    /\ tasks = <<>>
    /\ \A t \in Tasks : Handling(t) => result[t] # "none"

(* A handler whose submission was accepted gets its answer, also when the  *)
(* pool shuts down in between: future.get() never blocks for good.         *)
AcceptedIsAnswered == \A t \in Tasks : Handling(t) ~> cpc[t] = "answered"

(* shutdown() returns: every worker is woken, finds the queue empty sooner *)
(* or later and leaves its loop.                                           *)
ShutdownReturns == (mpc = "notify") ~> ShutdownReturned

(* The pool implements the abstract service: at most one submission per    *)
(* worker at a time, first come first started, each exactly once, and a    *)
(* free worker never lets the queue wait for ever.                         *)
StatusOf(t) ==
  CASE cpc[t] = "start"                          -> "new"
    [] cpc[t] = "refused"                        -> "refused"
    [] cpc[t] \notin {"start", "refused"} /\ result[t] # "none"  -> "finished"
    [] Unfinished(t) /\ RunBy(t) # {}            -> "running"
    [] OTHER                                     -> "queued"

Service == INSTANCE JudgeQueue
             WITH Width <- Cardinality(Workers),
                  status <- [t \in Tasks |-> StatusOf(t)],
                  queue <- tasks,
                  closed <- stopping

ImplementsService == Service!Spec
===============================================================================
