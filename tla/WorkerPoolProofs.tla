--------------------------- MODULE WorkerPoolProofs ---------------------------
(***************************************************************************)
(* Safety of the judge worker pool for any number of workers and           *)
(* submissions.  IInv adds to the properties of WorkerPool what makes them *)
(* inductive: how a worker's program counter and the task it runs go       *)
(* together, which futures are ready, and what stopping_ tells.            *)
(***************************************************************************)
EXTENDS WorkerPool, FiniteSetTheorems, FunctionTheorems, SequenceTheorems, TLAPS

-------------------------------------------------------------------------------
(* Which elements a push adds to a queue and a pop removes from it, and    *)
(* that neither repeats an element.                                        *)

Occurs(y, s) == \E i \in DOMAIN s : s[i] = y

Distinct(s) == \A i, j \in DOMAIN s : s[i] = s[j] => i = j

(* A push adds its argument and keeps the rest. *)
LEMMA AppendOccurs ==
  ASSUME NEW S, NEW s \in Seq(S), NEW x \in S, NEW y
  PROVE  Occurs(y, Append(s, x)) <=> (y = x \/ Occurs(y, s))
<1>1. /\ DOMAIN s = 1 .. Len(s) /\ Len(s) \in Nat
      /\ DOMAIN Append(s, x) = 1 .. Len(s) + 1
      /\ \A i \in 1 .. Len(s) : Append(s, x)[i] = s[i]
      /\ Append(s, x)[Len(s) + 1] = x
  BY AppendProperties, LenProperties
<1>2. \A i \in 1 .. Len(s) + 1 : i \in 1 .. Len(s) \/ i = Len(s) + 1
  BY <1>1
<1>3. \A i \in 1 .. Len(s) : i \in 1 .. Len(s) + 1
  BY <1>1
<1>4. Len(s) + 1 \in 1 .. Len(s) + 1
  BY <1>1
<1>5. ASSUME Occurs(y, Append(s, x)) PROVE y = x \/ Occurs(y, s)
  BY <1>1, <1>2, <1>5 DEF Occurs
<1>6. ASSUME y = x \/ Occurs(y, s) PROVE Occurs(y, Append(s, x))
  BY <1>1, <1>3, <1>4, <1>6 DEF Occurs
<1>7. QED
  BY <1>5, <1>6

(* A push of something new repeats nothing. *)
LEMMA AppendDistinct ==
  ASSUME NEW S, NEW s \in Seq(S), NEW x \in S, Distinct(s), ~Occurs(x, s)
  PROVE  Distinct(Append(s, x))
<1>1. /\ DOMAIN s = 1 .. Len(s) /\ Len(s) \in Nat
      /\ DOMAIN Append(s, x) = 1 .. Len(s) + 1
      /\ \A i \in 1 .. Len(s) : Append(s, x)[i] = s[i]
      /\ Append(s, x)[Len(s) + 1] = x
  BY AppendProperties, LenProperties
<1>2. SUFFICES ASSUME NEW i \in 1 .. Len(s) + 1, NEW j \in 1 .. Len(s) + 1,
                      Append(s, x)[i] = Append(s, x)[j]
               PROVE  i = j
  BY <1>1 DEF Distinct
<1>3. CASE i \in 1 .. Len(s) /\ j \in 1 .. Len(s)
  BY <1>1, <1>2, <1>3 DEF Distinct
<1>4. CASE i = Len(s) + 1 \/ j = Len(s) + 1
  BY <1>1, <1>2, <1>4 DEF Occurs
<1>5. QED
  BY <1>1, <1>3, <1>4

(* A pop removes the front and nothing else. *)
LEMMA TailOccurs ==
  ASSUME NEW S, NEW s \in Seq(S), s # <<>>, Distinct(s), NEW y
  PROVE  /\ Occurs(Head(s), s)
         /\ Occurs(y, Tail(s)) <=> (Occurs(y, s) /\ y # Head(s))
         /\ Distinct(Tail(s))
<1>1. /\ DOMAIN s = 1 .. Len(s) /\ Len(s) \in Nat \ {0}
      /\ DOMAIN Tail(s) = 1 .. Len(s) - 1
      /\ \A i \in 1 .. Len(s) - 1 : Tail(s)[i] = s[i + 1]
      /\ Head(s) = s[1]
  BY HeadTailProperties, LenProperties, EmptySeq
<1>2. Occurs(Head(s), s)
  BY <1>1 DEF Occurs
<1>3. ASSUME NEW i \in 1 .. Len(s) - 1 PROVE i + 1 \in 1 .. Len(s) /\ i + 1 # 1
  BY <1>1
<1>4. ASSUME Occurs(y, Tail(s)) PROVE Occurs(y, s) /\ y # Head(s)
  <2>1. PICK i \in 1 .. Len(s) - 1 : s[i + 1] = y
    BY <1>1, <1>4 DEF Occurs
  <2>2. Occurs(y, s)
    BY <1>1, <1>3, <2>1 DEF Occurs
  <2>3. 1 \in 1 .. Len(s)
    BY <1>1
  <2>4. y # Head(s)
    BY <1>1, <1>3, <2>1, <2>3 DEF Distinct
  <2>5. QED
    BY <2>2, <2>4
<1>5. ASSUME Occurs(y, s), y # Head(s) PROVE Occurs(y, Tail(s))
  <2>1. PICK i \in 1 .. Len(s) : s[i] = y
    BY <1>1, <1>5 DEF Occurs
  <2>2. i - 1 \in 1 .. Len(s) - 1 /\ (i - 1) + 1 = i
    BY <1>1, <1>5, <2>1
  <2>3. QED
    BY <1>1, <2>1, <2>2 DEF Occurs
<1>6. Distinct(Tail(s))
  BY <1>1, <1>3 DEF Distinct
<1>7. QED
  BY <1>2, <1>4, <1>5, <1>6

-------------------------------------------------------------------------------
(* The invariant. *)

(* A worker runs a task exactly while it is busy. *)
BusyRuns == \A w \in Workers : running[w] # NoTask <=> wpc[w] = "busy"

(* Only an accepted submission has an outcome, and an answered one has. *)
OutcomeOfAccepted ==
  \A t \in Tasks :
    /\ result[t] # "none" => cpc[t] \in {"notify", "get", "answered"}
    /\ cpc[t] = "answered" => result[t] # "none"

(* A worker leaves its loop only when nothing is queued and nothing can be *)
(* any more.                                                               *)
ExitedMeansDrained ==
  \A w \in Workers : wpc[w] = "exited" => stopping /\ tasks = <<>>

(* What the main thread knows at each point of shutdown(). *)
MainKnows ==
  /\ mpc # "serving" => stopping
  /\ ShutdownReturned => \A w \in Workers : wpc[w] = "exited"

IInv == /\ TypeOK
        /\ NoTaskLost
        /\ BusyRuns
        /\ OutcomeOfAccepted
        /\ ExitedMeansDrained
        /\ MainKnows
        /\ SleepersAreTold

-------------------------------------------------------------------------------
(* Type correctness. *)

LEMMA TypeInit == Init => TypeOK
BY EmptySeq DEF Init, TypeOK

LEMMA TypeStep ==
  ASSUME TypeOK, [Next]_vars
  PROVE  TypeOK'
<1> USE DEF TypeOK
<1>1. ASSUME NEW t \in Tasks, Submit(t)
      PROVE  TypeOK'
  <2>1. tasks' \in Seq(Tasks)
    BY <1>1, AppendProperties DEF Submit
  <2>2. QED
    BY <1>1, <2>1 DEF Submit
<1>2. ASSUME NEW t \in Tasks, CallerStep(t)
      PROVE  TypeOK'
  BY <1>2 DEF CallerStep, NotifyOne, Get, Asleep
<1>3. ASSUME NEW w \in Workers, Take(w)
      PROVE  TypeOK'
  BY <1>3, HeadTailProperties DEF Take
<1>4. ASSUME NEW w \in Workers, Run(w)
      PROVE  TypeOK'
  BY <1>4 DEF Run
<1>5. ASSUME NEW w \in Workers, Sleep(w) \/ Exit(w) \/ SpuriousWakeup(w)
      PROVE  TypeOK'
  BY <1>5 DEF Sleep, Exit, SpuriousWakeup
<1>6. ASSUME NEW d \in BOOLEAN, Shutdown(d)
      PROVE  TypeOK'
  BY <1>6 DEF Shutdown, After
<1>7. CASE NotifyAll \/ Join \/ Destroyed \/ UNCHANGED vars
  BY <1>7 DEF NotifyAll, Join, Destroyed, After, vars
<1>8. QED
  BY <1>1, <1>2, <1>3, <1>4, <1>5, <1>6, <1>7 DEF Next, WorkerStep

(* Every state variable of the pool stays in its type, for any number of   *)
(* workers and submissions.                                                *)
THEOREM TypeCorrect == Spec => []TypeOK
BY TypeInit, TypeStep, PTL DEF Spec, Safety

-------------------------------------------------------------------------------
(* IInv, action by action. *)

(* NoTaskLost in the vocabulary of the lemmas. *)
LEMMA NoTaskLostAlt ==
  NoTaskLost <=>
    /\ Distinct(tasks)
    /\ \A w1, w2 \in Workers :
         running[w1] = running[w2] /\ running[w1] # NoTask => w1 = w2
    /\ \A t \in Tasks :
         /\ Unfinished(t) <=>
              (Occurs(t, tasks) \/ \E w \in Workers : running[w] = t)
         /\ ~(Occurs(t, tasks) /\ \E w \in Workers : running[w] = t)
BY DEF NoTaskLost, Distinct, Occurs, InQueue, RunBy

LEMMA InvInit == Init => IInv
<1> SUFFICES ASSUME Init PROVE IInv
  OBVIOUS
<1>1. TypeOK
  BY TypeInit
<1>2. NoTaskLost
  <2>1. DOMAIN tasks = {}
    BY EmptySeq, LenProperties DEF Init
  <2>2. QED
    BY <2>1, TasksAssumption
    DEF Init, NoTaskLost, InQueue, RunBy, Unfinished, Handling
<1>3. QED
  BY <1>1, <1>2
  DEF Init, IInv, BusyRuns, OutcomeOfAccepted, ExitedMeansDrained, MainKnows,
      SleepersAreTold, ShutdownReturned, Asleep

(* An accepted submission is queued, once; a refused one never is. *)
LEMMA InvSubmit ==
  ASSUME IInv, TypeOK', NEW t \in Tasks, Submit(t)
  PROVE  IInv'
<1> USE DEF IInv, TypeOK
<1>1. result[t] = "none" /\ ~Occurs(t, tasks) /\ ~\E w \in Workers : running[w] = t
  BY NoTaskLostAlt DEF Submit, OutcomeOfAccepted, Unfinished, Handling
<1>2. NoTaskLost'
  <2>1. CASE stopping
    <3>1. \A u \in Tasks : Unfinished(u)' <=> Unfinished(u)
      BY <2>1 DEF Submit, Unfinished, Handling
    <3>2. QED
      BY <2>1, <3>1 DEF Submit, NoTaskLost, InQueue, RunBy
  <2>2. CASE ~stopping
    <3>1. tasks' = Append(tasks, t) /\ Distinct(tasks)
      BY <2>2, NoTaskLostAlt DEF Submit
    <3>2. Distinct(tasks')
      BY <1>1, <3>1, AppendDistinct
    <3>3. \A u \in Tasks : Occurs(u, tasks') <=> (u = t \/ Occurs(u, tasks))
      BY <3>1, AppendOccurs
    <3>4. \A u \in Tasks : Unfinished(u)' <=> (u = t \/ Unfinished(u))
      BY <1>1, <2>2 DEF Submit, Unfinished, Handling
    <3>5. running' = running
      BY DEF Submit
    <3>6. QED
      BY <1>1, <3>2, <3>3, <3>4, <3>5, NoTaskLostAlt
      DEF Distinct, Occurs, NoTaskLost, InQueue, RunBy
  <2>3. QED
    BY <2>1, <2>2
<1>3. ExitedMeansDrained'
  BY DEF Submit, ExitedMeansDrained
<1>4. QED
  BY <1>1, <1>2, <1>3
  DEF Submit, BusyRuns, OutcomeOfAccepted, MainKnows, SleepersAreTold,
      ShutdownReturned, Asleep

(* The caller's own steps touch neither the queue nor what runs. *)
LEMMA InvCaller ==
  ASSUME IInv, TypeOK', NEW t \in Tasks, CallerStep(t)
  PROVE  IInv'
<1> USE DEF IInv, TypeOK
<1>1. UNCHANGED <<tasks, stopping, running, result, mpc, dtor>>
  BY DEF CallerStep, NotifyOne, Get
<1>2. \A u \in Tasks : Unfinished(u)' <=> Unfinished(u)
  BY DEF CallerStep, NotifyOne, Get, Unfinished, Handling
<1>3. NoTaskLost'
  BY <1>1, <1>2 DEF NoTaskLost, InQueue, RunBy
<1>4. \A w \in Workers : \/ wpc'[w] = wpc[w]
                         \/ wpc[w] = "asleep" /\ wpc'[w] = "ready"
  BY DEF CallerStep, NotifyOne, Get, Asleep
<1>5. BusyRuns' /\ ExitedMeansDrained' /\ MainKnows' /\ SleepersAreTold'
  BY <1>1, <1>4
  DEF BusyRuns, ExitedMeansDrained, MainKnows, SleepersAreTold, ShutdownReturned,
      Asleep
<1>6. OutcomeOfAccepted'
  BY <1>1 DEF CallerStep, NotifyOne, Get, OutcomeOfAccepted
<1>7. QED
  BY <1>3, <1>5, <1>6

(* The task at the front moves from the queue to one worker. *)
LEMMA InvTake ==
  ASSUME IInv, TypeOK', NEW w \in Workers, Take(w)
  PROVE  IInv'
<1> DEFINE h == Head(tasks)
<1> USE DEF IInv, TypeOK
<1>1. /\ Distinct(tasks)
      /\ tasks \in Seq(Tasks) /\ tasks # <<>>
      /\ tasks' = Tail(tasks)
      /\ h \in Tasks
  BY NoTaskLostAlt, HeadTailProperties DEF Take
<1>2. /\ Distinct(tasks')
      /\ Occurs(h, tasks)
      /\ \A u : Occurs(u, tasks') <=> (Occurs(u, tasks) /\ u # h)
  BY <1>1, TailOccurs
<1>3. /\ running[w] = NoTask
      /\ running' = [running EXCEPT ![w] = h]
      /\ \A v \in Workers : running[v] # h
  BY <1>1, <1>2, NoTaskLostAlt DEF Take, BusyRuns
<1>4. \A u \in Tasks : Unfinished(u)' <=> Unfinished(u)
  BY DEF Take, Unfinished, Handling
<1>5. \A u \in Tasks : (\E v \in Workers : running'[v] = u)
                       <=> (u = h \/ \E v \in Workers : running[v] = u)
  BY <1>1, <1>3, TasksAssumption
<1>6. \A v1, v2 \in Workers :
        running'[v1] = running'[v2] /\ running'[v1] # NoTask => v1 = v2
  BY <1>3, NoTaskLostAlt
<1>7. NoTaskLost'
  <2>1. \A u \in Tasks :
          /\ Unfinished(u) <=>
               (Occurs(u, tasks) \/ \E v \in Workers : running[v] = u)
          /\ ~(Occurs(u, tasks) /\ \E v \in Workers : running[v] = u)
    BY NoTaskLostAlt
  <2>2. \A u \in Tasks :
          /\ Unfinished(u)' <=>
               (Occurs(u, tasks') \/ \E v \in Workers : running'[v] = u)
          /\ ~(Occurs(u, tasks') /\ \E v \in Workers : running'[v] = u)
    BY <1>1, <1>2, <1>4, <1>5, <2>1
  <2>3. QED
    BY <1>2, <1>6, <2>2 DEF Distinct, Occurs, NoTaskLost, InQueue, RunBy
<1>8. BusyRuns'
  BY <1>1, <1>3, TasksAssumption DEF Take, BusyRuns
<1>9. OutcomeOfAccepted'
  BY DEF Take, OutcomeOfAccepted
<1>10. ExitedMeansDrained'
  BY <1>1 DEF Take, ExitedMeansDrained
<1>11. MainKnows' /\ SleepersAreTold'
  BY DEF Take, MainKnows, ShutdownReturned, SleepersAreTold, Asleep
<1>12. QED
  BY <1>7, <1>8, <1>9, <1>10, <1>11

(* The outcome of the task is stored and the worker lets go of it. *)
LEMMA InvRun ==
  ASSUME IInv, TypeOK', NEW w \in Workers, Run(w)
  PROVE  IInv'
<1> DEFINE t == running[w]
<1> USE DEF IInv, TypeOK
<1>1. t \in Tasks
  BY DEF Run, BusyRuns
<1>2. /\ Unfinished(t)
      /\ ~Occurs(t, tasks)
      /\ \A v \in Workers : running[v] = t => v = w
  BY <1>1, NoTaskLostAlt, TasksAssumption
<1>3. PICK r \in {"value", "exception"} : result' = [result EXCEPT ![t] = r]
  BY DEF Run
<1>4. \A u \in Tasks : Unfinished(u)' <=> (Unfinished(u) /\ u # t)
  BY <1>1, <1>3 DEF Run, Unfinished, Handling
<1>5. /\ running' = [running EXCEPT ![w] = NoTask]
      /\ tasks' = tasks
  BY DEF Run
<1>6. \A u \in Tasks : (\E v \in Workers : running'[v] = u)
                       <=> (u # t /\ \E v \in Workers : running[v] = u)
  BY <1>1, <1>2, <1>5, TasksAssumption
<1>7. \A v1, v2 \in Workers :
        running'[v1] = running'[v2] /\ running'[v1] # NoTask => v1 = v2
  BY <1>5, NoTaskLostAlt
<1>8. NoTaskLost'
  BY <1>2, <1>4, <1>5, <1>6, <1>7, NoTaskLostAlt
  DEF Distinct, Occurs, NoTaskLost, InQueue, RunBy
<1>9. BusyRuns'
  BY DEF Run, BusyRuns
<1>10. OutcomeOfAccepted'
  BY <1>1, <1>2, <1>3 DEF Run, OutcomeOfAccepted, Unfinished, Handling
<1>11. ExitedMeansDrained' /\ MainKnows' /\ SleepersAreTold'
  BY DEF Run, ExitedMeansDrained, MainKnows, ShutdownReturned, SleepersAreTold, Asleep
<1>12. QED
  BY <1>8, <1>9, <1>10, <1>11

(* A worker that sleeps, wakes or leaves moves no task. *)
LEMMA InvIdleWorker ==
  ASSUME IInv, TypeOK', NEW w \in Workers,
         Sleep(w) \/ Exit(w) \/ SpuriousWakeup(w)
  PROVE  IInv'
<1> USE DEF IInv, TypeOK
<1>1. UNCHANGED <<tasks, stopping, running, result, cpc, mpc, dtor>>
  BY DEF Sleep, Exit, SpuriousWakeup
<1>2. NoTaskLost' /\ OutcomeOfAccepted'
  BY <1>1
  DEF NoTaskLost, InQueue, RunBy, Unfinished, Handling, OutcomeOfAccepted
<1>3. BusyRuns' /\ ExitedMeansDrained' /\ MainKnows' /\ SleepersAreTold'
  BY <1>1
  DEF Sleep, Exit, SpuriousWakeup, BusyRuns, ExitedMeansDrained, MainKnows,
      ShutdownReturned, SleepersAreTold, Asleep
<1>4. QED
  BY <1>2, <1>3

(* shutdown() raises stopping_ under the lock and wakes every sleeper. *)
LEMMA InvMain ==
  ASSUME IInv, TypeOK',
         (\E d \in BOOLEAN : Shutdown(d)) \/ NotifyAll \/ Join
  PROVE  IInv'
<1> USE DEF IInv, TypeOK
<1>1. UNCHANGED <<tasks, running, result, cpc>>
  BY DEF Shutdown, NotifyAll, Join
<1>2. NoTaskLost' /\ OutcomeOfAccepted'
  BY <1>1
  DEF NoTaskLost, InQueue, RunBy, Unfinished, Handling, OutcomeOfAccepted
<1>3. CASE \E d \in BOOLEAN : Shutdown(d)
  BY <1>1, <1>2, <1>3
  DEF Shutdown, After, BusyRuns, ExitedMeansDrained, MainKnows, ShutdownReturned,
      SleepersAreTold, Asleep
<1>4. CASE NotifyAll \/ Join
  BY <1>1, <1>2, <1>4
  DEF NotifyAll, Join, After, BusyRuns, ExitedMeansDrained, MainKnows,
      ShutdownReturned, SleepersAreTold, Asleep
<1>5. QED
  BY <1>3, <1>4

LEMMA InvStep ==
  ASSUME IInv, [Next]_vars
  PROVE  IInv'
<1>1. TypeOK'
  BY TypeStep DEF IInv
<1>2. CASE Destroyed \/ UNCHANGED vars
  BY <1>2
  DEF Destroyed, vars, IInv, TypeOK, NoTaskLost, InQueue, RunBy, Unfinished,
      Handling, BusyRuns, OutcomeOfAccepted, ExitedMeansDrained, MainKnows,
      ShutdownReturned, SleepersAreTold, Asleep
<1>3. QED
  BY <1>1, <1>2, InvSubmit, InvCaller, InvTake, InvRun, InvIdleWorker, InvMain
  DEF Next, WorkerStep

LEMMA Inductive == Spec => []IInv
BY InvInit, InvStep, PTL DEF Spec, Safety

(* Every accepted submission without an outcome is in the queue once or    *)
(* run by one worker, whatever the number of workers and handlers.         *)
THEOREM NoTaskIsLost == Spec => []NoTaskLost
<1>1. IInv => NoTaskLost
  BY DEF IInv
<1>2. QED
  BY <1>1, Inductive, PTL

(* No worker sleeps through a shutdown. *)
THEOREM SleepersAreAlwaysTold == Spec => []SleepersAreTold
<1>1. IInv => SleepersAreTold
  BY DEF IInv
<1>2. QED
  BY <1>1, Inductive, PTL

(* When shutdown() has returned the pool is drained: no worker is left, no *)
(* task is queued, and every accepted submission has its outcome.          *)
THEOREM ShutdownAlwaysDrains == Spec => []ShutdownDrains
<1>1. ASSUME IInv
      PROVE  ShutdownDrains
  <2> SUFFICES ASSUME ShutdownReturned
               PROVE  /\ \A w \in Workers : wpc[w] = "exited"
                      /\ tasks = <<>>
                      /\ \A t \in Tasks : Handling(t) => result[t] # "none"
    BY DEF ShutdownDrains
  <2>1. \A w \in Workers : wpc[w] = "exited"
    BY <1>1 DEF IInv, MainKnows
  <2>2. tasks = <<>>
    BY <1>1, <2>1, WorkersAssumption DEF IInv, ExitedMeansDrained
  <2>3. \A w \in Workers : running[w] = NoTask
    BY <1>1, <2>1 DEF IInv, BusyRuns
  <2>4. \A t \in Tasks : ~Occurs(t, tasks)
    BY <2>2, EmptySeq, LenProperties DEF Occurs
  <2>5. \A t \in Tasks : ~Unfinished(t)
    BY <1>1, <2>3, <2>4, NoTaskLostAlt, TasksAssumption DEF IInv
  <2>6. QED
    BY <2>1, <2>2, <2>5 DEF Unfinished
<1>2. QED
  BY <1>1, Inductive, PTL

-------------------------------------------------------------------------------
(* No task waits beside an idle worker. *)

(* The two sets that are counted are finite. *)
LEMMA CountsAreFinite ==
  /\ IsFiniteSet(Ready) /\ Cardinality(Ready) \in Nat
  /\ IsFiniteSet(Notifying) /\ Cardinality(Notifying) \in Nat
<1>1. Ready \in SUBSET Workers /\ Notifying \in SUBSET Tasks
  BY DEF Ready, Notifying
<1>2. QED
  BY <1>1, WorkersAssumption, TasksAssumption, FS_Subset, FS_CardinalityType

LEMMA WakeupsInit == Init => WakeupsSuffice
BY DEF Init, WakeupsSuffice, Asleep

(* Each step changes the number of queued tasks and the number of threads  *)
(* on their way to them in step, or empties the set of sleepers.           *)
LEMMA WakeupsStep ==
  ASSUME TypeOK, WakeupsSuffice, [Next]_vars
  PROVE  WakeupsSuffice'
<1> USE CountsAreFinite DEF TypeOK
<1>len. Len(tasks) \in Nat
  BY LenProperties
<1>1. ASSUME NEW t \in Tasks, Submit(t)
      PROVE  WakeupsSuffice'
  <2>1. CASE stopping
    <3>1. Asleep' = Asleep /\ Ready' = Ready /\ tasks' = tasks
      BY <1>1, <2>1 DEF Submit, Asleep, Ready
    <3>2. Notifying' = Notifying
      BY <1>1, <2>1 DEF Submit, Notifying
    <3>3. QED
      BY <3>1, <3>2 DEF WakeupsSuffice
  <2>2. CASE ~stopping
    <3>1. Asleep' = Asleep /\ Ready' = Ready /\ tasks' = Append(tasks, t)
      BY <1>1, <2>2 DEF Submit, Asleep, Ready
    <3>2. Notifying' = Notifying \cup {t} /\ t \notin Notifying
      BY <1>1, <2>2 DEF Submit, Notifying
    <3>3. Cardinality(Notifying') = Cardinality(Notifying) + 1
      BY <3>2, FS_AddElement
    <3>4. Len(tasks') = Len(tasks) + 1
      BY <3>1, AppendProperties
    <3>5. QED
      BY <1>len, <3>1, <3>3, <3>4 DEF WakeupsSuffice
  <2>3. QED
    BY <2>1, <2>2
<1>2. ASSUME NEW t \in Tasks, NotifyOne(t)
      PROVE  WakeupsSuffice'
  <2>1. CASE Asleep = {}
    <3>1. Asleep' = {}
      BY <1>2, <2>1 DEF NotifyOne, Asleep
    <3>2. QED
      BY <3>1 DEF WakeupsSuffice
  <2>2. CASE Asleep # {}
    <3>1. PICK w \in Asleep : wpc' = [wpc EXCEPT ![w] = "ready"]
      BY <1>2, <2>2 DEF NotifyOne
    <3>2. Ready' = Ready \cup {w} /\ w \notin Ready
      BY <3>1 DEF Ready, Asleep
    <3>3. Notifying' = Notifying \ {t} /\ t \in Notifying
      BY <1>2 DEF NotifyOne, Notifying
    <3>4. /\ Cardinality(Ready') = Cardinality(Ready) + 1
          /\ Cardinality(Notifying') = Cardinality(Notifying) - 1
      BY <3>2, <3>3, FS_AddElement, FS_RemoveElement
    <3>5. tasks' = tasks
      BY <1>2 DEF NotifyOne
    <3>6. QED
      BY <1>len, <2>2, <3>4, <3>5 DEF WakeupsSuffice
  <2>3. QED
    BY <2>1, <2>2
<1>3. ASSUME NEW t \in Tasks, Get(t)
      PROVE  WakeupsSuffice'
  <2>1. Asleep' = Asleep /\ Ready' = Ready /\ tasks' = tasks
    BY <1>3 DEF Get, Asleep, Ready
  <2>2. Notifying' = Notifying
    BY <1>3 DEF Get, Notifying
  <2>3. QED
    BY <2>1, <2>2 DEF WakeupsSuffice
<1>4. ASSUME NEW w \in Workers, Sleep(w) \/ Exit(w)
      PROVE  WakeupsSuffice'
  <2>1. tasks' = <<>>
    BY <1>4 DEF Sleep, Exit
  <2>2. Cardinality(Ready') \in Nat /\ Cardinality(Notifying') \in Nat
    <3>1. Ready' \in SUBSET Workers /\ Notifying' \in SUBSET Tasks
      BY DEF Ready, Notifying
    <3>2. QED
      BY <3>1, WorkersAssumption, TasksAssumption, FS_Subset, FS_CardinalityType
  <2>3. QED
    BY <2>1, <2>2, EmptySeq DEF WakeupsSuffice
<1>5. ASSUME NEW w \in Workers, Take(w)
      PROVE  WakeupsSuffice'
  <2>1. Asleep' = Asleep
    BY <1>5 DEF Take, Asleep
  <2>2. Ready' = Ready \ {w} /\ w \in Ready
    BY <1>5 DEF Take, Ready
  <2>3. Notifying' = Notifying
    BY <1>5 DEF Take, Notifying
  <2>4. Len(tasks') = Len(tasks) - 1
    BY <1>5, HeadTailProperties DEF Take
  <2>5. Cardinality(Ready') = Cardinality(Ready) - 1
    BY <2>2, FS_RemoveElement
  <2>6. QED
    BY <1>len, <2>1, <2>3, <2>4, <2>5 DEF WakeupsSuffice
<1>6. ASSUME NEW w \in Workers, Run(w) \/ SpuriousWakeup(w)
      PROVE  WakeupsSuffice'
  <2>1. Asleep' \subseteq Asleep
    BY <1>6 DEF Run, SpuriousWakeup, Asleep
  <2>2. Ready' = Ready \cup {w}
    BY <1>6 DEF Run, SpuriousWakeup, Ready
  <2>3. Notifying' = Notifying /\ tasks' = tasks
    BY <1>6 DEF Run, SpuriousWakeup, Notifying
  <2>4. \/ Cardinality(Ready') = Cardinality(Ready)
        \/ Cardinality(Ready') = Cardinality(Ready) + 1
    BY <2>2, FS_AddElement
  <2>5. Cardinality(Ready') \in Nat /\ Cardinality(Ready') >= Cardinality(Ready)
    BY <2>4
  <2>6. QED
    BY <1>len, <2>1, <2>3, <2>4, <2>5 DEF WakeupsSuffice
<1>7. CASE (\E d \in BOOLEAN : Shutdown(d)) \/ Join \/ Destroyed \/ UNCHANGED vars
  BY <1>7
  DEF Shutdown, Join, Destroyed, vars, WakeupsSuffice, Asleep, Ready, Notifying
<1>8. CASE NotifyAll
  <2>1. Asleep' = {}
    BY <1>8 DEF NotifyAll, Asleep
  <2>2. QED
    BY <2>1 DEF WakeupsSuffice
<1>9. QED
  BY <1>1, <1>2, <1>3, <1>4, <1>5, <1>6, <1>7, <1>8
  DEF Next, WorkerStep, CallerStep

(* While a worker sleeps, as many awake workers and pending notifications  *)
(* exist as there are queued tasks, for any number of them: submit() may   *)
(* notify after it unlocked.                                               *)
THEOREM WakeupsAlwaysSuffice == Spec => []WakeupsSuffice
BY WakeupsInit, WakeupsStep, TypeCorrect, PTL DEF Spec, Safety
-------------------------------------------------------------------------------
(* The pool implements the abstract service, step by step. *)

(* What the status of a submission in the abstract service says of the pool. *)
StatusMeans(t) ==
  /\ StatusOf(t) = "new" <=> cpc[t] = "start"
  /\ StatusOf(t) = "refused" <=> cpc[t] = "refused"
  /\ StatusOf(t) = "finished" <=> result[t] # "none"
  /\ StatusOf(t) = "running" <=> \E w \in Workers : running[w] = t
  /\ StatusOf(t) = "queued" <=> Occurs(t, tasks)
  /\ StatusOf(t) \in {"new", "queued", "running", "finished", "refused"}

StatusesMean == \A t \in Tasks : StatusMeans(t)

LEMMA StatusNow == IInv => StatusesMean
<1> SUFFICES ASSUME IInv, NEW t \in Tasks PROVE StatusMeans(t)
  BY DEF StatusesMean
<1>1. /\ Unfinished(t) <=> (Occurs(t, tasks) \/ \E w \in Workers : running[w] = t)
      /\ ~(Occurs(t, tasks) /\ \E w \in Workers : running[w] = t)
  BY NoTaskLostAlt DEF IInv
<1>2. RunBy(t) # {} <=> \E w \in Workers : running[w] = t
  BY DEF RunBy
<1>3. /\ result[t] # "none" => cpc[t] \in {"notify", "get", "answered"}
      /\ cpc[t] = "answered" => result[t] # "none"
      /\ cpc[t] \in {"start", "notify", "get", "answered", "refused"}
  BY DEF IInv, OutcomeOfAccepted, TypeOK
<1>4. Unfinished(t) <=> cpc[t] \in {"notify", "get"} /\ result[t] = "none"
  BY DEF Unfinished, Handling
<1> QED  BY <1>1, <1>2, <1>3, <1>4 DEF StatusOf, StatusMeans

LEMMA StatusNext == IInv' => StatusesMean'
BY StatusNow, PTL

(* A step keeps the status of a submission if it keeps what that means. *)
LEMMA StatusKept ==
  ASSUME IInv, IInv', NEW t \in Tasks,
         cpc[t] \in {"start", "refused"} \/ cpc'[t] \in {"start", "refused"}
            => cpc'[t] = cpc[t],
         result[t] = "none" <=> result'[t] = "none",
         (\E w \in Workers : running[w] = t) <=> (\E w \in Workers : running'[w] = t),
         Occurs(t, tasks) <=> Occurs(t, tasks')
  PROVE  StatusOf(t)' = StatusOf(t)
<1>1. /\ StatusOf(t)' = "new" <=> cpc'[t] = "start"
      /\ StatusOf(t)' = "refused" <=> cpc'[t] = "refused"
      /\ StatusOf(t)' = "finished" <=> result'[t] # "none"
      /\ StatusOf(t)' = "running" <=> \E w \in Workers : running'[w] = t
      /\ StatusOf(t)' = "queued" <=> Occurs(t, tasks')
      /\ StatusOf(t)' \in {"new", "queued", "running", "finished", "refused"}
  BY StatusNext DEF StatusesMean, StatusMeans, Occurs
<1>2. StatusMeans(t)
  BY StatusNow DEF StatusesMean
<1> QED  BY <1>1, <1>2 DEF StatusMeans

(* A free worker is one less than there may run. *)
LEMMA RunningIsBounded ==
  ASSUME IInv, NEW w \in Workers, running[w] = NoTask
  PROVE  Cardinality({t \in Tasks : \E v \in Workers : running[v] = t}) < Cardinality(Workers)
<1> DEFINE S == {t \in Tasks : \E v \in Workers : running[v] = t}
           f == [t \in S |-> CHOOSE v \in Workers : running[v] = t]
<1>1. \A t \in S : f[t] \in Workers \ {w} /\ running[f[t]] = t
  BY TasksAssumption
<1>2. f \in Injection(S, Workers \ {w})
  <2>1. f \in [S -> Workers \ {w}]
    BY <1>1
  <2>2. \A a, b \in S : f[a] = f[b] => a = b
    BY <1>1
  <2> HIDE DEF f
  <2> QED  BY <2>1, <2>2, Fun_IsInj
<1>3. /\ IsFiniteSet(Workers \ {w}) /\ Cardinality(Workers \ {w}) = Cardinality(Workers) - 1
      /\ Cardinality(Workers) \in Nat
  BY WorkersAssumption, FS_RemoveElement, FS_CardinalityType
<1>4. Cardinality(S) <= Cardinality(Workers \ {w}) /\ Cardinality(S) \in Nat
  <2> HIDE DEF S, f
  <2> QED  BY <1>2, <1>3, FS_Injection, FS_CardinalityType
<1> QED  BY <1>3, <1>4

(* A step that changes one status, in the form of JudgeQueue's actions. *)
LEMMA StatusUpdate ==
  ASSUME NEW t \in Tasks, NEW s, StatusOf(t)' = s,
         \A u \in Tasks \ {t} : StatusOf(u)' = StatusOf(u)
  PROVE  [u \in Tasks |-> StatusOf(u)]' = [[u \in Tasks |-> StatusOf(u)] EXCEPT ![t] = s]
OBVIOUS

LEMMA RefineInit == Init => Service!Init
<1> SUFFICES ASSUME Init PROVE Service!Init
  OBVIOUS
<1>1. ASSUME NEW t \in Tasks PROVE StatusOf(t) = "new"
  <2>1. cpc[t] = "start"
    BY DEF Init
  <2> QED  BY <2>1, InvInit, StatusNow DEF StatusesMean, StatusMeans
<1> QED  BY <1>1 DEF Init, Service!Init

(* Submit accepts or refuses, Take starts, Run finishes, the first Shutdown *)
(* closes; every other step leaves the service as it is.                    *)
LEMMA RefineStep ==
  ASSUME IInv, IInv', [Next]_vars
  PROVE  [Service!Next]_(Service!qvars)
<1> DEFINE Same(t) == StatusOf(t)' = StatusOf(t)
<1>0. ASSUME \A t \in Tasks : Same(t), UNCHANGED <<tasks, stopping>>
      PROVE  UNCHANGED Service!qvars
  BY <1>0 DEF Service!qvars
<1>1. ASSUME NEW t \in Tasks, Submit(t)
      PROVE  Service!Next
  <2>1. \A u \in Tasks \ {t} : Same(u)
    <3>1. ASSUME NEW u \in Tasks \ {t} PROVE Occurs(u, tasks') <=> Occurs(u, tasks)
      <4>1. tasks \in Seq(Tasks) /\ (tasks' = tasks \/ tasks' = Append(tasks, t))
        BY <1>1 DEF Submit, IInv, TypeOK
      <4>2. Occurs(u, Append(tasks, t)) <=> Occurs(u, tasks)
        BY <4>1, AppendOccurs
      <4> QED  BY <4>1, <4>2 DEF Occurs
    <3>2. ASSUME NEW u \in Tasks \ {t} PROVE cpc'[u] = cpc[u]
      BY <1>1 DEF Submit, IInv, TypeOK
    <3> QED  BY <1>1, <3>1, <3>2, StatusKept DEF Submit
  <2>2. StatusOf(t) = "new"
    BY <1>1, StatusNow DEF Submit, StatusesMean, StatusMeans
  <2>3. CASE stopping
    <3>1. StatusOf(t)' = "refused"
      <4>1. cpc'[t] = "refused"
        BY <1>1, <2>3 DEF Submit, IInv, TypeOK
      <4> QED  BY <4>1, StatusNext DEF StatusesMean, StatusMeans
    <3>2. Service!Refuse(t)
      BY <1>1, <2>1, <2>2, <2>3, <3>1, StatusUpdate DEF Submit, Service!Refuse
    <3> QED  BY <3>2 DEF Service!Next
  <2>4. CASE ~stopping
    <3>1. Occurs(t, tasks')
      <4>1. tasks \in Seq(Tasks) /\ tasks' = Append(tasks, t)
        BY <1>1, <2>4 DEF Submit, IInv, TypeOK
      <4> QED  BY <4>1, AppendOccurs
    <3>2. StatusOf(t)' = "queued"
      BY <3>1, StatusNext DEF StatusesMean, StatusMeans, Occurs
    <3>3. Service!Accept(t)
      BY <1>1, <2>1, <2>2, <2>4, <3>2, StatusUpdate DEF Submit, Service!Accept
    <3> QED  BY <3>3 DEF Service!Next
  <2> QED  BY <2>3, <2>4
<1>2. ASSUME NEW t \in Tasks, CallerStep(t)
      PROVE  UNCHANGED Service!qvars
  <2>1. \A u \in Tasks : cpc[u] \in {"start", "refused"} \/ cpc'[u] \in {"start", "refused"}
                           => cpc'[u] = cpc[u]
    BY <1>2 DEF CallerStep, NotifyOne, Get, IInv, TypeOK
  <2>2. UNCHANGED <<tasks, stopping, running, result>>
    BY <1>2 DEF CallerStep, NotifyOne, Get
  <2> QED  BY <1>0, <2>1, <2>2, StatusKept
<1>3. ASSUME NEW w \in Workers, Take(w)
      PROVE  Service!Next
  <2>0. PICK h : h = Head(tasks)
    OBVIOUS
  <2>1. /\ tasks \in Seq(Tasks) /\ tasks # <<>> /\ h \in Tasks
        /\ tasks' = Tail(tasks) /\ running' = [running EXCEPT ![w] = h]
        /\ running[w] = NoTask
    BY <1>3, <2>0, HeadTailProperties DEF Take, IInv, TypeOK, BusyRuns
  <2>2. \A u : Occurs(u, tasks') <=> (Occurs(u, tasks) /\ u # h)
    BY <2>0, <2>1, NoTaskLostAlt, TailOccurs DEF IInv
  <2>3. ASSUME NEW u \in Tasks \ {h} PROVE Same(u)
    <3>1. (\E v \in Workers : running[v] = u) <=> (\E v \in Workers : running'[v] = u)
      BY <2>1, TasksAssumption DEF IInv, TypeOK
    <3> QED  BY <1>3, <2>2, <3>1, StatusKept DEF Take
  <2>4. StatusOf(h)' = "running"
    <3>1. \E v \in Workers : running'[v] = h
      BY <2>1 DEF IInv, TypeOK
    <3> QED  BY <2>1, <3>1, StatusNext DEF StatusesMean, StatusMeans
  <2>5. Service!Cardinality(Service!Running) < Cardinality(Workers)
    <3>1. Service!Running = {t \in Tasks : \E v \in Workers : running[v] = t}
      BY StatusNow DEF StatusesMean, StatusMeans, Service!Running
    <3> QED  BY <2>1, <3>1, RunningIsBounded DEF Service!Cardinality, Service!IsFiniteSet, Cardinality, IsFiniteSet
  <2>6. Service!Start
    BY <1>3, <2>0, <2>1, <2>3, <2>4, <2>5, StatusUpdate DEF Take, Service!Start
  <2> QED  BY <2>6 DEF Service!Next
<1>4. ASSUME NEW w \in Workers, Run(w)
      PROVE  Service!Next
  <2>0. PICK t : t = running[w]
    OBVIOUS
  <2>1. t \in Tasks /\ \A v \in Workers : running[v] = t => v = w
    BY <1>4, <2>0 DEF Run, IInv, TypeOK, BusyRuns, NoTaskLost
  <2>2. /\ \E r \in {"value", "exception"} : result' = [result EXCEPT ![t] = r]
        /\ running' = [running EXCEPT ![w] = NoTask]
        /\ UNCHANGED <<tasks, stopping, cpc>>
    BY <1>4, <2>0 DEF Run
  <2>3. ASSUME NEW u \in Tasks \ {t} PROVE Same(u)
    <3>1. (\E v \in Workers : running[v] = u) <=> (\E v \in Workers : running'[v] = u)
      BY <2>0, <2>2, TasksAssumption DEF IInv, TypeOK
    <3>2. result'[u] = result[u]
      BY <2>2 DEF IInv, TypeOK
    <3> QED  BY <2>2, <3>1, <3>2, StatusKept
  <2>4. StatusOf(t) = "running"
    BY <2>0, <2>1, StatusNow DEF StatusesMean, StatusMeans
  <2>5. StatusOf(t)' = "finished"
    <3>1. result'[t] # "none"
      BY <2>1, <2>2 DEF IInv, TypeOK
    <3> QED  BY <2>1, <3>1, StatusNext DEF StatusesMean, StatusMeans
  <2>6. Service!Finish(t)
    BY <2>1, <2>2, <2>3, <2>4, <2>5, StatusUpdate DEF Service!Finish
  <2> QED  BY <2>1, <2>6 DEF Service!Next
<1>5. ASSUME NEW w \in Workers, Sleep(w) \/ Exit(w) \/ SpuriousWakeup(w)
      PROVE  UNCHANGED Service!qvars
  BY <1>0, <1>5, StatusKept DEF Sleep, Exit, SpuriousWakeup
<1>6. ASSUME NEW d \in BOOLEAN, Shutdown(d)
      PROVE  [Service!Next]_(Service!qvars)
  <2>1. \A t \in Tasks : Same(t)
    BY <1>6, StatusKept DEF Shutdown
  <2>2. CASE stopping
    BY <1>0, <1>6, <2>1, <2>2 DEF Shutdown
  <2>3. CASE ~stopping
    <3>1. Service!Close
      BY <1>6, <2>1, <2>3 DEF Shutdown, Service!Close
    <3> QED  BY <3>1 DEF Service!Next
  <2> QED  BY <2>2, <2>3
<1>7. CASE NotifyAll \/ Join \/ Destroyed \/ UNCHANGED vars
  BY <1>0, <1>7, StatusKept DEF NotifyAll, Join, Destroyed, vars
<1> QED  BY <1>1, <1>2, <1>3, <1>4, <1>5, <1>6, <1>7 DEF Next, WorkerStep

(* The pool with its threads, mutex and condition variable does only what   *)
(* the abstract service may do, for any number of workers and submissions:  *)
(* first come first started, at most one per worker, each once.             *)
THEOREM PoolIsAService == Spec => Service!Safety
BY RefineInit, RefineStep, Inductive, PTL DEF Spec, Safety, Service!Safety
===============================================================================
