---------------------------- MODULE ConnectionPool ----------------------------
(***************************************************************************)
(* The MySQL connection pool (backend/src/db/pool.{hpp,cpp}): acquireFor() *)
(* with its timed wait and its health check, the lease that gives the      *)
(* connection back when it goes out of scope, and shutdown().  The clients *)
(* are the HTTP threads; none ever holds two leases.                       *)
(*                                                                         *)
(* A critical section of State::mutex is one step.  The ping, the close    *)
(* and the new connection of ensureHealthy() happen outside it.  A MYSQL*  *)
(* is an address: the library may hand out again one it has freed.         *)
(***************************************************************************)
EXTENDS Naturals, Sequences, FiniteSets

CONSTANTS Clients,   \* the threads that acquire connections
          Conns,     \* the addresses a MYSQL handle can have
          NoConn,    \* the null handle
          Capacity   \* config.pool_size

ASSUME CapacityAssumption == Capacity \in Nat \ {0}
ASSUME ClientsAssumption == IsFiniteSet(Clients)
ASSUME ConnsAssumption == IsFiniteSet(Conns) /\ NoConn \notin Conns

VARIABLES idle,      \* State::idle
          in_use,    \* State::in_use
          stopping,  \* State::stopping
          cpc,       \* where each client is
          conn,      \* the handle each client has taken or leased
          open,      \* the handles that mysql_close has not freed
          broken,    \* the open handles whose server side is gone
          dbUp       \* whether MySQL answers

vars == <<idle, in_use, stopping, cpc, conn, open, broken, dbUp>>

Elems(s) == {s[i] : i \in DOMAIN s}

(* The constructor opens Capacity connections or the process does not start. *)
Init == /\ idle \in [1 .. Capacity -> Conns]
        /\ \A i, j \in 1 .. Capacity : idle[i] = idle[j] => i = j
        /\ in_use = 0
        /\ stopping = FALSE
        /\ cpc = [c \in Clients |-> "out"]
        /\ conn = [c \in Clients |-> NoConn]
        /\ open = Elems(idle)
        /\ broken = {}
        /\ dbUp = TRUE

(* The clients blocked in available.wait_for(). *)
Waiting == {c \in Clients : cpc[c] = "waiting"}

(* available.notify_one(), made by a thread that leaves the program        *)
(* counters at pcs.                                                        *)
NotifyOne(pcs) == \/ \E d \in Waiting : cpc' = [pcs EXCEPT ![d] = "woken"]
                  \/ Waiting = {} /\ cpc' = pcs

-------------------------------------------------------------------------------
(* acquireFor() *)

Mutant_LeaseWithoutPop(c, mayWait) ==
  \/ /\ stopping
     /\ cpc' = [cpc EXCEPT ![c] = "out"]
     /\ UNCHANGED <<idle, in_use, conn>>
  \/ /\ ~stopping
     /\ idle # <<>>
     /\ conn' = [conn EXCEPT ![c] = Head(idle)]
     /\ in_use' = in_use + 1
     /\ cpc' = [cpc EXCEPT ![c] = "ping"]
     /\ UNCHANGED idle
  \/ /\ ~stopping
     /\ idle = <<>>
     /\ cpc' = [cpc EXCEPT ![c] = IF mayWait THEN "waiting" ELSE "out"]
     /\ UNCHANGED <<idle, in_use, conn>>

(* The predicate of the wait and what follows it under the lock.  A client *)
(* whose time is up tests it once more, and throws when it is false.       *)
TestUnderLock(c, mayWait) ==
  \/ /\ stopping
     /\ cpc' = [cpc EXCEPT ![c] = "out"]
     /\ UNCHANGED <<idle, in_use, conn>>
  \/ /\ ~stopping
     /\ idle # <<>>
     /\ conn' = [conn EXCEPT ![c] = Head(idle)]
     /\ idle' = Tail(idle)
     /\ in_use' = in_use + 1
     /\ cpc' = [cpc EXCEPT ![c] = "ping"]
  \/ /\ ~stopping
     /\ idle = <<>>
     /\ cpc' = [cpc EXCEPT ![c] = IF mayWait THEN "waiting" ELSE "out"]
     /\ UNCHANGED <<idle, in_use, conn>>

Acquire(c) == /\ cpc[c] = "out"
              /\ TestUnderLock(c, TRUE)
              /\ UNCHANGED <<stopping, open, broken, dbUp>>

Woken(c) == /\ cpc[c] = "woken"
            /\ TestUnderLock(c, TRUE)
            /\ UNCHANGED <<stopping, open, broken, dbUp>>

Mutant_WaitAnew(c) == /\ cpc[c] = "expired"
                      /\ TestUnderLock(c, TRUE)
                      /\ UNCHANGED <<stopping, open, broken, dbUp>>

Expired(c) == /\ cpc[c] = "expired"
              /\ TestUnderLock(c, FALSE)
              /\ UNCHANGED <<stopping, open, broken, dbUp>>

(* wait_for() leaves the wait set when the timeout passes, or spuriously. *)
Timeout(c) == /\ cpc[c] = "waiting"
              /\ cpc' = [cpc EXCEPT ![c] = "expired"]
              /\ UNCHANGED <<idle, in_use, stopping, conn, open, broken, dbUp>>

SpuriousWakeup(c) ==
  /\ cpc[c] = "waiting"
  /\ cpc' = [cpc EXCEPT ![c] = "woken"]
  /\ UNCHANGED <<idle, in_use, stopping, conn, open, broken, dbUp>>

Mutant_ReplaceWithoutClose(c) ==
  /\ cpc[c] = "ping"
  /\ \/ /\ dbUp /\ conn[c] \notin broken
        /\ cpc' = [cpc EXCEPT ![c] = "leased"]
        /\ UNCHANGED <<conn, open, broken>>
     \/ /\ ~dbUp \/ conn[c] \in broken
        /\ cpc' = [cpc EXCEPT ![c] = "connect"]
        /\ conn' = [conn EXCEPT ![c] = NoConn]
        /\ UNCHANGED <<open, broken>>
  /\ UNCHANGED <<idle, in_use, stopping, dbUp>>

(* ensureHealthy(): a connection that answers the ping is leased, another  *)
(* is closed and a new one opened in its place.                            *)
Ping(c) ==
  /\ cpc[c] = "ping"
  /\ \/ /\ dbUp /\ conn[c] \notin broken
        /\ cpc' = [cpc EXCEPT ![c] = "leased"]
        /\ UNCHANGED <<conn, open, broken>>
     \/ /\ ~dbUp \/ conn[c] \in broken
        /\ cpc' = [cpc EXCEPT ![c] = "connect"]
        /\ conn' = [conn EXCEPT ![c] = NoConn]
        /\ open' = open \ {conn[c]}
        /\ broken' = broken \ {conn[c]}
  /\ UNCHANGED <<idle, in_use, stopping, dbUp>>

(* createConnection() *)
Connect(c) ==
  /\ cpc[c] = "connect"
  /\ \/ /\ dbUp
        /\ \E h \in Conns \ open :
             /\ conn' = [conn EXCEPT ![c] = h]
             /\ open' = open \union {h}
        /\ cpc' = [cpc EXCEPT ![c] = "leased"]
     \/ /\ ~dbUp
        /\ cpc' = [cpc EXCEPT ![c] = "giveup"]
        /\ UNCHANGED <<conn, open>>
  /\ UNCHANGED <<idle, in_use, stopping, broken, dbUp>>

Mutant_GiveUpStillCounted(c) ==
  /\ cpc[c] = "giveup"
  /\ NotifyOne([cpc EXCEPT ![c] = "out"])
  /\ UNCHANGED <<idle, in_use, stopping, conn, open, broken, dbUp>>

Mutant_GiveUpAndRelease(c) ==
  /\ cpc[c] = "giveup"
  /\ in_use' = in_use - 2
  /\ NotifyOne([cpc EXCEPT ![c] = "out"])
  /\ UNCHANGED <<idle, stopping, conn, open, broken, dbUp>>

(* The catch block of acquireFor(): the closed connection is not replaced. *)
GiveUp(c) ==
  /\ cpc[c] = "giveup"
  /\ in_use' = in_use - 1
  /\ NotifyOne([cpc EXCEPT ![c] = "out"])
  /\ UNCHANGED <<idle, stopping, conn, open, broken, dbUp>>

-------------------------------------------------------------------------------
(* ConnectionLease::release() and giveBack() *)

Mutant_ReleaseUnconditionally(c) ==
  /\ cpc[c] = "leased"
  /\ conn' = [conn EXCEPT ![c] = NoConn]
  /\ in_use' = IF in_use > 0 THEN in_use - 1 ELSE in_use
  /\ idle' = Append(idle, conn[c])
  /\ cpc' = [cpc EXCEPT ![c] = "out"]
  /\ UNCHANGED <<open, broken, stopping, dbUp>>

Release(c) ==
  /\ cpc[c] = "leased"
  /\ conn' = [conn EXCEPT ![c] = NoConn]
  /\ in_use' = IF in_use > 0 THEN in_use - 1 ELSE in_use
  /\ \/ /\ stopping
        /\ open' = open \ {conn[c]}
        /\ broken' = broken \ {conn[c]}
        /\ cpc' = [cpc EXCEPT ![c] = "out"]
        /\ UNCHANGED idle
     \/ /\ ~stopping
        /\ idle' = Append(idle, conn[c])
        /\ NotifyOne([cpc EXCEPT ![c] = "out"])
        /\ UNCHANGED <<open, broken>>
  /\ UNCHANGED <<stopping, dbUp>>

(* shutdown(): one critical section closes what is idle and wakes everyone. *)
Shutdown ==
  /\ ~stopping
  /\ stopping' = TRUE
  /\ open' = open \ Elems(idle)
  /\ broken' = broken \ Elems(idle)
  /\ idle' = <<>>
  /\ cpc' = [c \in Clients |-> IF c \in Waiting THEN "woken" ELSE cpc[c]]
  /\ UNCHANGED <<in_use, conn, dbUp>>

-------------------------------------------------------------------------------
(* MySQL: it goes away with all its sessions, comes back, or drops one     *)
(* session that was idle for too long.                                     *)

DbDown == /\ dbUp
          /\ dbUp' = FALSE
          /\ broken' = open
          /\ UNCHANGED <<idle, in_use, stopping, cpc, conn, open>>

DbUp == /\ ~dbUp
        /\ dbUp' = TRUE
        /\ UNCHANGED <<idle, in_use, stopping, cpc, conn, open, broken>>

DbDrops(h) == /\ h \in open \ broken
              /\ broken' = broken \union {h}
              /\ UNCHANGED <<idle, in_use, stopping, cpc, conn, open, dbUp>>

-------------------------------------------------------------------------------
ClientStep(c) == \/ Woken(c) \/ Expired(c)
                 \/ Ping(c) \/ Connect(c) \/ GiveUp(c)
                 \/ Release(c)

Next == \/ \E c \in Clients :
             Acquire(c) \/ ClientStep(c) \/ Timeout(c) \/ SpuriousWakeup(c)
        \/ Shutdown
        \/ DbDown
        \/ DbUp
        \/ \E h \in Conns : DbDrops(h)

Safety == Init /\ [][Next]_vars

(* A client that is inside acquireFor() or holds a lease goes on: mysql    *)
(* calls return (connect_timeout, MySQL errors) and a lease lives as long  *)
(* as one DAO call.  The deadline of a wait is absolute: waking the client *)
(* and letting it wait again does not move it, hence strong fairness.      *)
Spec == /\ Safety
        /\ \A c \in Clients : WF_vars(ClientStep(c)) /\ SF_vars(Timeout(c))

-------------------------------------------------------------------------------
(* What the pool must guarantee. *)

PCs == {"out", "waiting", "woken", "expired", "ping", "connect", "giveup", "leased"}

TypeOK == /\ idle \in Seq(Conns)
          /\ in_use \in Nat
          /\ stopping \in BOOLEAN
          /\ cpc \in [Clients -> PCs]
          /\ conn \in [Clients -> Conns \union {NoConn}]
          /\ open \in SUBSET Conns
          /\ broken \in SUBSET open
          /\ dbUp \in BOOLEAN

(* The clients that hold a connection, and those in_use counts. *)
Holders == {c \in Clients : conn[c] # NoConn}

Counted == {c \in Clients : cpc[c] \in {"ping", "connect", "giveup", "leased"}}

(* No connection is leased to two clients, or leased and idle at the same  *)
(* time, or twice in the idle list: two requests would share one MySQL     *)
(* session and its transaction.                                            *)
LeasesExclusive ==
  /\ \A i, j \in DOMAIN idle : idle[i] = idle[j] => i = j
  /\ \A c, d \in Holders : conn[c] = conn[d] => c = d
  /\ \A c \in Holders : conn[c] \notin Elems(idle)

(* The open handles are exactly the idle and the held ones: none is used   *)
(* or closed again after mysql_close, none is forgotten open; after        *)
(* shutdown the last release closes the last one.                          *)
HandlesAccounted == open = Elems(idle) \union {conn[c] : c \in Holders}

(* in_use counts the clients between a successful wait and the return of   *)
(* their connection, so that its decrement never wraps, and the pool never *)
(* has more connections than pool_size.                                    *)
CapacityBound == /\ in_use = Cardinality(Counted)
                 /\ Len(idle) + in_use <= Capacity

(* While a client waits, each idle connection is about to be tested for by *)
(* a client that was woken or whose time is up; and nobody waits for a     *)
(* pool that is stopping.                                                  *)
WakeupsSuffice ==
  Waiting # {} =>
    /\ ~stopping
    /\ Len(idle) <= Cardinality({c \in Clients : cpc[c] \in {"woken", "expired"}})

(* No step adds a connection to those the pool owns: what an outage took   *)
(* from it stays lost until the process restarts.                          *)
NeverRegrows == [][Len(idle') + in_use' <= Len(idle) + in_use]_vars

(* acquireFor() returns or throws, however the connections move. *)
AcquireReturns ==
  \A c \in Clients : cpc[c] \in {"waiting", "woken", "expired", "ping", "connect", "giveup"}
                       ~> cpc[c] \in {"leased", "out"}

(* SPEC.md 11.2: the connection pool is stable and leaks nothing.  Until   *)
(* it shuts down it would then own pool_size connections, idle or in use.  *)
CapacityKept == ~stopping => Len(idle) + in_use = Capacity
===============================================================================
