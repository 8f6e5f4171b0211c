------------------------------ MODULE JudgeQueue ------------------------------
(***************************************************************************)
(* What the judge worker pool promises to the submission handlers, with no *)
(* threads, mutex or condition variable: submissions are accepted in some  *)
(* order until the service closes, at most Width of them run at a time,    *)
(* they start in the order they were accepted, each runs once, and every   *)
(* accepted submission is finished, even when the service closes first.    *)
(* WorkerPool is shown to implement this specification.                    *)
(***************************************************************************)
EXTENDS Naturals, Sequences, FiniteSets

CONSTANTS Tasks,    \* the submissions ever made to the service
          Width     \* how many of them may run at the same time

VARIABLES status,   \* status[t]: where submission t stands
          queue,    \* the accepted submissions that have not started, in order
          closed    \* TRUE once no submission is accepted any more

qvars == <<status, queue, closed>>

Status == {"new", "queued", "running", "finished", "refused"}

Running == {t \in Tasks : status[t] = "running"}

Init == /\ status = [t \in Tasks |-> "new"]
        /\ queue = <<>>
        /\ closed = FALSE

Accept(t) == /\ status[t] = "new"
             /\ ~closed
             /\ status' = [status EXCEPT ![t] = "queued"]
             /\ queue' = Append(queue, t)
             /\ UNCHANGED closed

Refuse(t) == /\ status[t] = "new"
             /\ closed
             /\ status' = [status EXCEPT ![t] = "refused"]
             /\ UNCHANGED <<queue, closed>>

Start == /\ queue # <<>>
         /\ Cardinality(Running) < Width
         /\ status' = [status EXCEPT ![Head(queue)] = "running"]
         /\ queue' = Tail(queue)
         /\ UNCHANGED closed

Finish(t) == /\ status[t] = "running"
             /\ status' = [status EXCEPT ![t] = "finished"]
             /\ UNCHANGED <<queue, closed>>

Close == /\ ~closed
         /\ closed' = TRUE
         /\ UNCHANGED <<status, queue>>

Next == \/ \E t \in Tasks : Accept(t) \/ Refuse(t) \/ Finish(t)
        \/ Start
        \/ Close

Safety == Init /\ [][Next]_qvars

(* A queued submission starts whenever fewer than Width are running, and a *)
(* running one finishes: no closing, no quiet period suspends either.      *)
Spec == /\ Safety
        /\ WF_qvars(Start)
        /\ \A t \in Tasks : WF_qvars(Finish(t))
===============================================================================
