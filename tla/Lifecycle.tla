------------------------------- MODULE Lifecycle -------------------------------
(***************************************************************************)
(* The life of the backend process, from the start of the listen thread to *)
(* the return of main(): main.cpp, SignalGuard (util/signal.cpp), the      *)
(* accept loop and thread pool of the HTTP server (httplib.h), the         *)
(* submission handlers, and the judge pool, taken as the abstract service  *)
(* JudgeQueue that WorkerPool implements.                                  *)
(*                                                                         *)
(* Each request is one POST /api/submissions on a connection of its own,   *)
(* and its bytes arrive with the connection: keep_alive() then serves it   *)
(* also when the server socket is closed before a thread takes it up.      *)
(***************************************************************************)
EXTENDS Naturals, Sequences, FiniteSets

CONSTANTS Requests,     \* the submissions clients send
          HttpThreads,  \* threads of the server's pool, at least 8 in httplib.h
          JudgeWorkers, \* kJudgeWorkers, 8 in main.cpp
          MaxSignals    \* bound on the SIGTERM/SIGINT the process is sent

ASSUME LifecycleAssumption == /\ IsFiniteSet(Requests)
                              /\ HttpThreads \in Nat \ {0}
                              /\ JudgeWorkers \in Nat \ {0}
                              /\ MaxSignals \in Nat

VARIABLES main,      \* where main() is
          listener,  \* where the listen thread is
          socket,    \* the server socket: svr_sock_ and its kernel backlog
          isRunning, \* Server::is_running_
          stopping,  \* SignalGuard::stopping_
          handler,   \* where the signal handler is
          signals,   \* how many signals were delivered
          req,       \* where each request is
          status, queue, closed   \* the judge service

Judge == INSTANCE JudgeQueue WITH Tasks <- Requests, Width <- JudgeWorkers

judge == <<status, queue, closed>>
server == <<listener, socket, isRunning>>
signal == <<stopping, handler, signals>>
vars == <<main, server, signal, req, judge>>

Init == /\ main = "spawn"
        /\ listener = "none"
        /\ socket = "none"
        /\ isRunning = FALSE
        /\ stopping = FALSE
        /\ handler = "idle"
        /\ signals = 0
        /\ req = [r \in Requests |-> "client"]
        /\ Judge!Init

-------------------------------------------------------------------------------
(* onSignal(): the flag is stored and the condition variable notified, but *)
(* g_mutex is not taken.                                                   *)

Signal == /\ handler = "idle"
          /\ signals < MaxSignals
          /\ main # "exited"
          /\ signals' = signals + 1
          /\ stopping' = TRUE
          /\ handler' = "notify"
          /\ UNCHANGED <<main, server, req, judge>>

Notify == /\ handler = "notify"
          /\ handler' = "idle"
          /\ main' = IF main = "asleep" THEN "test" ELSE main
          /\ UNCHANGED <<server, stopping, signals, req, judge>>

-------------------------------------------------------------------------------
(* main() *)

(* std::thread listen_thread(...) *)
Spawn == /\ main = "spawn"
         /\ main' = "test"
         /\ listener' = "bind"
         /\ UNCHANGED <<socket, isRunning, signal, req, judge>>

(* g_cv.wait(lock, predicate): the predicate is tested under g_mutex ...   *)
Test == /\ main = "test"
        /\ main' = IF stopping THEN "hook" ELSE "blocking"
        /\ UNCHANGED <<server, signal, req, judge>>

(* ... and when it is false the thread blocks: g_mutex keeps out a         *)
(* notifier that takes it, and the signal handler does not.                *)
Block == /\ main = "blocking"
         /\ main' = "asleep"
         /\ UNCHANGED <<server, signal, req, judge>>

SpuriousWakeup == /\ main = "asleep"
                  /\ main' = "test"
                  /\ UNCHANGED <<server, signal, req, judge>>

(* The hook: judge_pool.shutdown() closes the pool, then waits until its   *)
(* workers have emptied the queue.                                         *)
Hook == /\ main = "hook"
        /\ main' = "drain"
        /\ Judge!Close
        /\ UNCHANGED <<server, signal, req>>

Drain == /\ main = "drain"
         /\ queue = <<>>
         /\ Judge!Running = {}
         /\ main' = "stop"
         /\ UNCHANGED <<server, signal, req, judge>>

Mutant_StopKeepsSocket == /\ main = "stop"
                          /\ main' = "join"
                          /\ UNCHANGED <<server, signal, req, judge>>

(* server.stop(): closes the socket, and with it the connections nobody    *)
(* has accepted, but only when the accept loop has announced itself.       *)
Stop == /\ main = "stop"
        /\ main' = "join"
        /\ socket' = IF isRunning THEN "closed" ELSE socket
        /\ req' = [r \in Requests |->
                     IF isRunning /\ req[r] = "backlog" THEN "reset" ELSE req[r]]
        /\ UNCHANGED <<listener, isRunning, signal, judge>>

Mutant_Detach == /\ main = "join"
                 /\ main' = "exited"
                 /\ UNCHANGED <<server, signal, req, judge>>

(* listen_thread.join(), then the destructors: the process is gone. *)
JoinListener == /\ main = "join"
                /\ listener = "gone"
                /\ main' = "exited"
                /\ UNCHANGED <<server, signal, req, judge>>

-------------------------------------------------------------------------------
(* The listen thread: bind_to_port() and listen_internal(). *)

Mutant_BindThrows ==
  /\ listener = "bind"
  /\ \/ listener' = "bound" /\ socket' = "open"
     \/ listener' = "terminated" /\ UNCHANGED socket
  /\ UNCHANGED <<main, isRunning, signal, req, judge>>

(* From listen(2) on the kernel completes connections.  A bind that fails  *)
(* is logged and ends the thread.                                          *)
Bind == /\ listener = "bind"
        /\ \/ listener' = "bound" /\ socket' = "open"
           \/ listener' = "gone" /\ UNCHANGED socket
        /\ UNCHANGED <<main, isRunning, signal, req, judge>>

Announce == /\ listener = "bound"
            /\ listener' = "accepting"
            /\ isRunning' = TRUE
            /\ UNCHANGED <<main, socket, signal, req, judge>>

Accept(r) == /\ listener = "accepting"
             /\ socket = "open"
             /\ req[r] = "backlog"
             /\ req' = [req EXCEPT ![r] = "queued"]
             /\ UNCHANGED <<main, server, signal, judge>>

(* accept() fails on the closed socket: the loop ends. *)
LeaveLoop == /\ listener = "accepting"
             /\ socket = "closed"
             /\ listener' = "joining"
             /\ UNCHANGED <<main, socket, isRunning, signal, req, judge>>

(* accept() fails on the open socket, for want of kernel memory, say: the  *)
(* loop closes the socket and ends, and nobody tells main().               *)
AcceptFails == /\ listener = "accepting"
               /\ socket = "open"
               /\ listener' = "joining"
               /\ socket' = "closed"
               /\ req' = [r \in Requests |-> IF req[r] = "backlog" THEN "reset" ELSE req[r]]
               /\ UNCHANGED <<main, isRunning, signal, judge>>

InPool(r) == req[r] \in {"queued", "handling", "judging"}

Mutant_DropQueuedJobs ==
  /\ listener = "joining"
  /\ \A r \in Requests : req[r] \notin {"handling", "judging"}
  /\ listener' = "gone"
  /\ isRunning' = FALSE
  /\ req' = [r \in Requests |-> IF req[r] = "queued" THEN "reset" ELSE req[r]]
  /\ UNCHANGED <<main, socket, signal, judge>>

(* task_queue->shutdown(): the pool runs what is queued and is joined.     *)
JoinPool == /\ listener = "joining"
            /\ \A r \in Requests : ~InPool(r)
            /\ listener' = "gone"
            /\ isRunning' = FALSE
            /\ UNCHANGED <<main, socket, signal, req, judge>>

-------------------------------------------------------------------------------
(* Clients, and submitHandler on a thread of the server's pool. *)

Connect(r) == /\ req[r] = "client"
              /\ socket = "open"
              /\ req' = [req EXCEPT ![r] = "backlog"]
              /\ UNCHANGED <<main, server, signal, judge>>

Busy == {r \in Requests : req[r] \in {"handling", "judging"}}

Handle(r) == /\ req[r] = "queued"
             /\ Cardinality(Busy) < HttpThreads
             /\ req' = [req EXCEPT ![r] = "handling"]
             /\ UNCHANGED <<main, server, signal, judge>>

(* judge_pool.submit(): accepted, or refused with an exception that the    *)
(* handler turns into a 500.                                               *)
Submit(r) == /\ req[r] = "handling"
             /\ \/ Judge!Accept(r) /\ req' = [req EXCEPT ![r] = "judging"]
                \/ Judge!Refuse(r) /\ req' = [req EXCEPT ![r] = "failed"]
             /\ UNCHANGED <<main, server, signal>>

Answer(r) == /\ req[r] = "judging"
             /\ status[r] = "finished"
             /\ req' = [req EXCEPT ![r] = "answered"]
             /\ UNCHANGED <<main, server, signal, judge>>

JudgeStart == Judge!Start /\ UNCHANGED <<main, server, signal, req>>

JudgeFinish(r) == Judge!Finish(r) /\ UNCHANGED <<main, server, signal, req>>

-------------------------------------------------------------------------------
MainStep == Spawn \/ Test \/ Block \/ Hook \/ Drain \/ Stop \/ JoinListener

ListenerStep == Bind \/ Announce \/ LeaveLoop \/ JoinPool

RequestStep(r) == Handle(r) \/ Submit(r) \/ Answer(r) \/ JudgeFinish(r)

Next == \/ Signal \/ Notify \/ SpuriousWakeup
        \/ MainStep
        \/ ListenerStep \/ AcceptFails
        \/ JudgeStart
        \/ \E r \in Requests : Connect(r) \/ Accept(r) \/ RequestStep(r)

Safety == Init /\ [][Next]_vars

(* Every thread of the process goes on when it can, the handler finishes   *)
(* what it began, and the judge service is the fair one that WorkerPool    *)
(* implements.  Nobody must connect, send a signal or wake main(), and     *)
(* accept() need not fail.                                                 *)
Spec == /\ Safety
        /\ WF_vars(MainStep)
        /\ WF_vars(ListenerStep)
        /\ WF_vars(Notify)
        /\ WF_vars(JudgeStart)
        /\ \A r \in Requests : WF_vars(Accept(r)) /\ WF_vars(RequestStep(r))

-------------------------------------------------------------------------------
(* What the process must guarantee. *)

TypeOK ==
  /\ main \in {"spawn", "test", "blocking", "asleep", "hook", "drain", "stop",
               "join", "exited"}
  /\ listener \in {"none", "bind", "bound", "accepting", "joining", "gone"}
  /\ socket \in {"none", "open", "closed"}
  /\ isRunning \in BOOLEAN
  /\ stopping \in BOOLEAN
  /\ handler \in {"idle", "notify"}
  /\ signals \in 0 .. MaxSignals
  /\ req \in [Requests -> {"client", "backlog", "queued", "handling", "judging",
                           "answered", "failed", "reset"}]
  /\ status \in [Requests -> Judge!Status]
  /\ queue \in Seq(Requests)
  /\ closed \in BOOLEAN

(* main() returns, and destroys the judge pool, the connection pool and    *)
(* the logger that the handlers refer to, only when no handler is running  *)
(* or queued and no submission is being judged.                            *)
ExitIsQuiet ==
  main = "exited" => \A r \in Requests :
                       ~InPool(r) /\ status[r] \notin {"queued", "running"}

(* A request the server accepted is answered, also when the process shuts  *)
(* down around it: with the verdict, or with the 500 of a closed pool.     *)
AcceptedIsAnswered ==
  \A r \in Requests : InPool(r) ~> req[r] \in {"answered", "failed"}

(* A signal that main() did not hear: it was handled between the test of   *)
(* stopping_ and the wait.  A stop() that did nothing: it came before the  *)
(* accept loop had announced itself, and main() joins a thread that goes   *)
(* on serving.                                                             *)
Unheard == main = "asleep" /\ handler = "idle"

Unstopped == main = "join" /\ listener = "accepting" /\ socket = "open"

(* A signal that finds main() asleep and the server accepting ends the     *)
(* process; any other does so too, unless one of those two things comes    *)
(* of it.                                                                  *)
GracefulExit ==
  /\ (handler = "notify" /\ main = "asleep" /\ listener = "accepting") ~> (main = "exited")
  /\ <>[](stopping => main = "exited" \/ Unheard \/ Unstopped)
===============================================================================
