------------------------- MODULE ConnectionPoolProofs -------------------------
(***************************************************************************)
(* Safety of the connection pool for any number of clients, addresses and  *)
(* connections.  The invariant is inductive once it also says who holds a  *)
(* handle and that a stopping pool has nothing idle.                       *)
(***************************************************************************)
EXTENDS ConnectionPool, FiniteSetTheorems, SequenceTheorems, TLAPS

(* A client holds a handle exactly while it pings or leases it. *)
HoldersByPc == \A c \in Clients : conn[c] # NoConn <=> cpc[c] \in {"ping", "leased"}

StoppedIsEmpty == stopping => idle = <<>>

(* Who has which connection ... *)
OwnInv == /\ TypeOK
          /\ LeasesExclusive
          /\ HandlesAccounted
          /\ HoldersByPc
          /\ StoppedIsEmpty

(* ... and how many there are. *)
IInv == OwnInv /\ CapacityBound

-------------------------------------------------------------------------------
(* Lemmas on the idle list and on the counted clients. *)

Distinct(s) == \A i, j \in DOMAIN s : s[i] = s[j] => i = j

(* What a push onto the idle list does to its elements. *)
LEMMA PushIdle ==
  ASSUME NEW s \in Seq(Conns), NEW h \in Conns, h \notin Elems(s), Distinct(s)
  PROVE  /\ Append(s, h) \in Seq(Conns)
         /\ Len(Append(s, h)) = Len(s) + 1
         /\ Elems(Append(s, h)) = Elems(s) \union {h}
         /\ Distinct(Append(s, h))
<1>1. /\ Append(s, h) \in Seq(Conns) /\ Len(Append(s, h)) = Len(s) + 1
      /\ DOMAIN s = 1 .. Len(s) /\ Len(s) \in Nat
      /\ DOMAIN Append(s, h) = 1 .. Len(s) + 1
      /\ \A i \in 1 .. Len(s) : Append(s, h)[i] = s[i]
      /\ Append(s, h)[Len(s) + 1] = h
  BY AppendProperties, LenProperties
<1>2. DOMAIN Append(s, h) = DOMAIN s \union {Len(s) + 1}
  BY <1>1
<1>3. Elems(Append(s, h)) = Elems(s) \union {h}
  BY <1>1, <1>2 DEF Elems
<1>4. \A i \in DOMAIN s : s[i] # h
  BY DEF Elems
<1>5. Distinct(Append(s, h))
  BY <1>1, <1>2, <1>4 DEF Distinct
<1>6. QED
  BY <1>1, <1>3, <1>5

(* What a pop from it does. *)
LEMMA PopIdle ==
  ASSUME NEW s \in Seq(Conns), s # <<>>, Distinct(s)
  PROVE  /\ Tail(s) \in Seq(Conns)
         /\ Head(s) \in Conns
         /\ Len(Tail(s)) = Len(s) - 1
         /\ Head(s) \in Elems(s)
         /\ Elems(Tail(s)) = Elems(s) \ {Head(s)}
         /\ Distinct(Tail(s))
<1>1. /\ Tail(s) \in Seq(Conns) /\ Head(s) \in Conns /\ Len(Tail(s)) = Len(s) - 1
      /\ DOMAIN s = 1 .. Len(s) /\ Len(s) \in Nat \ {0}
      /\ DOMAIN Tail(s) = 1 .. Len(s) - 1
      /\ \A i \in 1 .. Len(s) - 1 : Tail(s)[i] = s[i + 1]
      /\ Head(s) = s[1]
  BY HeadTailProperties, LenProperties, EmptySeq
<1>2. ASSUME NEW i \in DOMAIN Tail(s)
      PROVE  i + 1 \in DOMAIN s /\ i + 1 # 1 /\ 1 \in DOMAIN s /\ Tail(s)[i] = s[i + 1]
  BY <1>1
<1>3. ASSUME NEW i \in DOMAIN s, i # 1
      PROVE  i - 1 \in DOMAIN Tail(s) /\ Tail(s)[i - 1] = s[i]
  BY <1>1, <1>3
<1>4. Head(s) \in Elems(s)
  BY <1>1 DEF Elems
<1>5. Elems(Tail(s)) \subseteq Elems(s) \ {Head(s)}
  BY <1>1, <1>2 DEF Elems, Distinct
<1>6. ASSUME NEW y \in Elems(s) \ {Head(s)} PROVE y \in Elems(Tail(s))
  <2>1. PICK i \in DOMAIN s : s[i] = y /\ i # 1
    BY <1>1 DEF Elems
  <2>2. QED
    BY <1>3, <2>1 DEF Elems
<1>7. Distinct(Tail(s))
  BY <1>1, <1>2 DEF Distinct
<1>8. QED
  BY <1>1, <1>4, <1>5, <1>6, <1>7

LEMMA CountedIsFinite ==
  IsFiniteSet(Counted) /\ Cardinality(Counted) \in Nat
<1>1. Counted \in SUBSET Clients
  BY DEF Counted
<1>2. QED
  BY <1>1, ClientsAssumption, FS_Subset, FS_CardinalityType

(* A notification moves at most one waiting client, and to "woken". *)
LEMMA NotifyMoves ==
  ASSUME TypeOK, NEW c \in Clients, cpc[c] \notin {"waiting"},
         NotifyOne([cpc EXCEPT ![c] = "out"])
  PROVE  /\ cpc' \in [Clients -> PCs]
         /\ cpc'[c] = "out"
         /\ \A d \in Clients \ {c} : \/ cpc'[d] = cpc[d]
                                     \/ cpc[d] = "waiting" /\ cpc'[d] = "woken"
BY DEF TypeOK, NotifyOne, Waiting, PCs

-------------------------------------------------------------------------------
(* Ownership, action by action. *)

LEMMA OwnInit == Init => OwnInv
<1> SUFFICES ASSUME Init PROVE OwnInv
  OBVIOUS
<1>1. idle \in Seq(Conns) /\ DOMAIN idle = 1 .. Capacity
  BY SeqDef, CapacityAssumption DEF Init
<1>2. TypeOK
  <2>1. open \in SUBSET Conns
    BY <1>1 DEF Init, Elems
  <2>2. QED
    BY <1>1, <2>1 DEF Init, TypeOK, PCs
<1>3. Holders = {}
  BY DEF Init, Holders
<1>4. QED
  BY <1>1, <1>2, <1>3
  DEF Init, OwnInv, LeasesExclusive, HandlesAccounted, HoldersByPc, StoppedIsEmpty

(* Testing the predicate under the lock: the front of the idle list moves  *)
(* to the client, or nobody's connection changes.                          *)
LEMMA OwnTest ==
  ASSUME OwnInv, NEW c \in Clients, NEW b \in BOOLEAN,
         cpc[c] \in {"out", "woken", "expired"},
         TestUnderLock(c, b), UNCHANGED <<stopping, open, broken, dbUp>>
  PROVE  OwnInv'
<1> USE DEF OwnInv, TypeOK, PCs
<1>1. CASE UNCHANGED <<idle, in_use, conn>>
  <2>1. cpc' \in [Clients -> PCs] /\ \A d \in Clients :
          cpc'[d] \in {"ping", "leased"} <=> cpc[d] \in {"ping", "leased"}
    BY <1>1 DEF TestUnderLock, HoldersByPc
  <2>2. QED
    BY <1>1, <2>1
    DEF LeasesExclusive, HandlesAccounted, Holders, HoldersByPc, StoppedIsEmpty
<1>2. CASE /\ ~stopping /\ idle # <<>>
           /\ conn' = [conn EXCEPT ![c] = Head(idle)]
           /\ idle' = Tail(idle)
           /\ in_use' = in_use + 1
           /\ cpc' = [cpc EXCEPT ![c] = "ping"]
  <2> DEFINE h == Head(idle)
  <2>1. /\ idle' \in Seq(Conns) /\ h \in Conns
        /\ Elems(idle') = Elems(idle) \ {h} /\ h \in Elems(idle)
        /\ Distinct(idle')
    BY <1>2, PopIdle DEF LeasesExclusive, Distinct
  <2>2. conn[c] = NoConn
    BY DEF HoldersByPc
  <2>3. /\ Holders' = Holders \union {c} /\ c \notin Holders
        /\ conn'[c] = h
        /\ \A d \in Holders : conn'[d] = conn[d]
    BY <1>2, <2>1, <2>2, ConnsAssumption DEF Holders
  <2>4. LeasesExclusive'
    <3>1. \A d \in Holders : conn[d] # h
      BY <2>1 DEF LeasesExclusive
    <3>2. QED
      BY <2>1, <2>3, <3>1 DEF LeasesExclusive, Distinct
  <2>5. HandlesAccounted'
    BY <2>1, <2>3 DEF HandlesAccounted
  <2>6. QED
    BY <1>2, <2>1, <2>4, <2>5, ConnsAssumption DEF HoldersByPc, StoppedIsEmpty
<1>3. QED
  BY <1>1, <1>2 DEF TestUnderLock

(* ensureHealthy(): what fails the ping is closed before it is replaced.   *)
LEMMA OwnPing ==
  ASSUME OwnInv, NEW c \in Clients, Ping(c)
  PROVE  OwnInv'
<1> USE DEF OwnInv, TypeOK, PCs
<1>1. CASE UNCHANGED <<conn, open, broken>>
  <2>1. /\ cpc' = [cpc EXCEPT ![c] = "leased"] \/ conn[c] = NoConn
        /\ UNCHANGED <<idle, in_use, stopping, dbUp>>
    BY <1>1 DEF Ping
  <2>2. conn[c] # NoConn
    BY DEF Ping, HoldersByPc
  <2>3. QED
    BY <1>1, <2>1, <2>2
    DEF Ping, LeasesExclusive, HandlesAccounted, Holders, HoldersByPc, StoppedIsEmpty
<1>2. CASE /\ cpc' = [cpc EXCEPT ![c] = "connect"]
           /\ conn' = [conn EXCEPT ![c] = NoConn]
           /\ open' = open \ {conn[c]}
           /\ broken' = broken \ {conn[c]}
  <2>1. c \in Holders /\ Holders' = Holders \ {c}
    BY <1>2 DEF Ping, HoldersByPc, Holders
  <2>2. \A d \in Holders' : conn'[d] = conn[d] /\ conn[d] # conn[c]
    BY <1>2, <2>1 DEF LeasesExclusive, Holders
  <2>3. idle' = idle /\ conn[c] \notin Elems(idle)
    BY <2>1 DEF Ping, LeasesExclusive
  <2>4. LeasesExclusive'
    BY <2>1, <2>2, <2>3 DEF LeasesExclusive
  <2>5. HandlesAccounted'
    BY <1>2, <2>1, <2>2, <2>3 DEF HandlesAccounted
  <2>6. QED
    BY <1>2, <2>4, <2>5 DEF Ping, HoldersByPc, StoppedIsEmpty
<1>3. QED
  BY <1>1, <1>2 DEF Ping

(* createConnection() returns an address that nobody has. *)
LEMMA OwnConnect ==
  ASSUME OwnInv, NEW c \in Clients, Connect(c)
  PROVE  OwnInv'
<1> USE DEF OwnInv, TypeOK, PCs
<1>1. CASE cpc' = [cpc EXCEPT ![c] = "giveup"] /\ UNCHANGED <<conn, open>>
  BY <1>1
  DEF Connect, LeasesExclusive, HandlesAccounted, Holders, HoldersByPc, StoppedIsEmpty
<1>2. ASSUME NEW h \in Conns \ open,
             conn' = [conn EXCEPT ![c] = h],
             open' = open \union {h},
             cpc' = [cpc EXCEPT ![c] = "leased"]
      PROVE  OwnInv'
  <2>1. Holders' = Holders \union {c} /\ c \notin Holders
    BY <1>2, ConnsAssumption DEF Connect, HoldersByPc, Holders
  <2>2. conn'[c] = h /\ \A d \in Holders : conn'[d] = conn[d] /\ conn[d] # h
    BY <1>2, <2>1 DEF HandlesAccounted
  <2>3. idle' = idle /\ h \notin Elems(idle)
    BY <1>2 DEF Connect, HandlesAccounted
  <2>4. LeasesExclusive'
    BY <2>1, <2>2, <2>3 DEF LeasesExclusive
  <2>5. HandlesAccounted'
    BY <1>2, <2>1, <2>2, <2>3 DEF HandlesAccounted
  <2>6. QED
    BY <1>2, <2>4, <2>5, ConnsAssumption DEF Connect, HoldersByPc, StoppedIsEmpty
<1>3. QED
  BY <1>1, <1>2 DEF Connect

(* The catch block gives up a connection that is closed already. *)
LEMMA OwnGiveUp ==
  ASSUME OwnInv, NEW c \in Clients, GiveUp(c), in_use' \in Nat
  PROVE  OwnInv'
<1> USE DEF OwnInv, TypeOK
<1>1. /\ cpc' \in [Clients -> PCs] /\ cpc'[c] = "out"
      /\ \A d \in Clients \ {c} : \/ cpc'[d] = cpc[d]
                                  \/ cpc[d] = "waiting" /\ cpc'[d] = "woken"
  BY NotifyMoves DEF GiveUp
<1>2. QED
  BY <1>1
  DEF GiveUp, LeasesExclusive, HandlesAccounted, Holders, HoldersByPc, StoppedIsEmpty

(* giveBack(): the connection goes to the idle list, or is closed. *)
LEMMA OwnRelease ==
  ASSUME OwnInv, NEW c \in Clients, Release(c), in_use' \in Nat
  PROVE  OwnInv'
<1> USE DEF OwnInv, TypeOK
<1> DEFINE h == conn[c]
<1>1. /\ c \in Holders /\ Holders' = Holders \ {c}
      /\ h \in Conns
  BY DEF Release, HoldersByPc, Holders
<1>2. /\ h \notin Elems(idle)
      /\ \A d \in Holders' : conn'[d] = conn[d] /\ conn[d] # h
  BY <1>1 DEF Release, LeasesExclusive
<1>3. /\ cpc' \in [Clients -> PCs] /\ cpc'[c] = "out"
      /\ \A d \in Clients \ {c} : \/ cpc'[d] = cpc[d]
                                  \/ cpc[d] = "waiting" /\ cpc'[d] = "woken"
  <2>1. CASE stopping
    BY <2>1 DEF Release, PCs
  <2>2. CASE ~stopping
    BY <2>2, NotifyMoves DEF Release
  <2>3. QED
    BY <2>1, <2>2
<1>4. HoldersByPc'
  BY <1>3 DEF Release, HoldersByPc
<1>5. CASE stopping
  <2>1. idle' = idle /\ open' = open \ {h} /\ broken' = broken \ {h}
    BY <1>5 DEF Release
  <2>2. LeasesExclusive'
    BY <1>1, <1>2, <2>1 DEF LeasesExclusive
  <2>3. HandlesAccounted'
    BY <1>1, <1>2, <2>1 DEF HandlesAccounted
  <2>4. QED
    BY <1>3, <1>4, <2>1, <2>2, <2>3 DEF Release, StoppedIsEmpty
<1>6. CASE ~stopping
  <2>1. idle' = Append(idle, h) /\ UNCHANGED <<open, broken>>
    BY <1>6 DEF Release
  <2>2. /\ idle' \in Seq(Conns)
        /\ Elems(idle') = Elems(idle) \union {h}
        /\ Distinct(idle')
    BY <1>1, <1>2, <2>1, PushIdle DEF LeasesExclusive, Distinct
  <2>3. LeasesExclusive'
    BY <1>1, <1>2, <2>2 DEF LeasesExclusive, Distinct
  <2>4. HandlesAccounted'
    BY <1>1, <1>2, <2>1, <2>2 DEF HandlesAccounted
  <2>5. QED
    BY <1>3, <1>4, <1>6, <2>1, <2>2, <2>3, <2>4 DEF Release, StoppedIsEmpty
<1>7. QED
  BY <1>5, <1>6

(* shutdown() closes what is idle, and only that. *)
LEMMA OwnShutdown ==
  ASSUME OwnInv, Shutdown
  PROVE  OwnInv'
<1> USE DEF OwnInv, TypeOK
<1>1. idle' = <<>> /\ Elems(idle') = {} /\ DOMAIN idle' = {} /\ idle' \in Seq(Conns)
  BY EmptySeq, LenProperties DEF Shutdown, Elems
<1>2. Holders' = Holders /\ \A c \in Holders : conn'[c] = conn[c]
  BY DEF Shutdown, Holders
<1>3. LeasesExclusive'
  BY <1>1, <1>2 DEF LeasesExclusive
<1>4. HandlesAccounted'
  BY <1>1, <1>2 DEF Shutdown, HandlesAccounted, LeasesExclusive
<1>5. cpc' \in [Clients -> PCs] /\ HoldersByPc'
  BY DEF Shutdown, Waiting, HoldersByPc, PCs
<1>6. QED
  BY <1>1, <1>3, <1>4, <1>5 DEF Shutdown, StoppedIsEmpty

(* What the timer, MySQL and a spurious wakeup do owns nothing. *)
LEMMA OwnOther ==
  ASSUME OwnInv,
         \/ \E c \in Clients : Timeout(c) \/ SpuriousWakeup(c)
         \/ DbDown \/ DbUp \/ \E h \in Conns : DbDrops(h)
         \/ UNCHANGED vars
  PROVE  OwnInv'
<1> USE DEF OwnInv, TypeOK, PCs
<1>1. UNCHANGED <<idle, in_use, stopping, conn, open>>
  BY DEF Timeout, SpuriousWakeup, DbDown, DbUp, DbDrops, vars
<1>2. /\ cpc' \in [Clients -> PCs]
      /\ \A d \in Clients : cpc'[d] \in {"ping", "leased"} <=> cpc[d] \in {"ping", "leased"}
  BY DEF Timeout, SpuriousWakeup, DbDown, DbUp, DbDrops, vars
<1>3. broken' \in SUBSET open' /\ dbUp' \in BOOLEAN
  BY DEF Timeout, SpuriousWakeup, DbDown, DbUp, DbDrops, vars
<1>4. QED
  BY <1>1, <1>2, <1>3
  DEF LeasesExclusive, HandlesAccounted, Holders, HoldersByPc, StoppedIsEmpty

-------------------------------------------------------------------------------
(* The count. *)

LEMMA CountInit ==
  ASSUME Init
  PROVE  CapacityBound
<1>1. Counted = {} /\ in_use = 0
  BY DEF Init, Counted
<1>2. Len(idle) = Capacity
  BY SeqDef, CapacityAssumption DEF Init
<1>3. QED
  BY <1>1, <1>2, FS_EmptySet, CapacityAssumption DEF CapacityBound

(* A step of client c leaves it counted or not; the others do not change   *)
(* sides.                                                                  *)
LEMMA CountMoves ==
  ASSUME NEW c \in Clients,
         \A d \in Clients \ {c} : d \in Counted' <=> d \in Counted
  PROVE  /\ Counted' \in SUBSET Clients
         /\ (c \in Counted' <=> c \in Counted) => Counted' = Counted
         /\ c \in Counted' /\ c \notin Counted =>
              Cardinality(Counted') = Cardinality(Counted) + 1
         /\ c \notin Counted' /\ c \in Counted =>
              Cardinality(Counted') = Cardinality(Counted) - 1
<1>1. Counted \subseteq Clients /\ Counted' \subseteq Clients
  BY DEF Counted
<1>2. ASSUME c \in Counted', c \notin Counted
      PROVE  Cardinality(Counted') = Cardinality(Counted) + 1
  <2>1. Counted' = Counted \union {c}
    BY <1>1, <1>2
  <2>2. QED
    BY <1>2, <2>1, CountedIsFinite, FS_AddElement
<1>3. ASSUME c \notin Counted', c \in Counted
      PROVE  Cardinality(Counted') = Cardinality(Counted) - 1
  <2>1. Counted' = Counted \ {c}
    BY <1>1, <1>3
  <2>2. QED
    BY <1>3, <2>1, CountedIsFinite, FS_RemoveElement
<1>4. QED
  BY <1>1, <1>2, <1>3

(* A successful wait takes one idle connection and counts the client. *)
LEMMA CountTest ==
  ASSUME IInv, NEW c \in Clients, NEW b \in BOOLEAN,
         cpc[c] \in {"out", "woken", "expired"}, TestUnderLock(c, b)
  PROVE  CapacityBound' /\ Len(idle') + in_use' = Len(idle) + in_use
<1> USE DEF IInv, OwnInv, TypeOK, PCs
<1>1. c \notin Counted
  BY DEF Counted
<1>2. \A d \in Clients \ {c} : d \in Counted' <=> d \in Counted
  BY DEF TestUnderLock, Counted
<1>3. CASE UNCHANGED <<idle, in_use, conn>>
  <2>1. c \notin Counted'
    BY <1>3 DEF TestUnderLock, Counted, HoldersByPc
  <2>2. QED
    BY <1>1, <1>2, <1>3, <2>1, CountMoves DEF CapacityBound
<1>4. CASE /\ idle # <<>>
           /\ idle' = Tail(idle)
           /\ in_use' = in_use + 1
           /\ cpc' = [cpc EXCEPT ![c] = "ping"]
  <2>1. c \in Counted'
    BY <1>4 DEF Counted
  <2>2. Cardinality(Counted') = Cardinality(Counted) + 1
    BY <1>1, <1>2, <2>1, CountMoves
  <2>3. Len(idle') = Len(idle) - 1 /\ Len(idle) \in Nat
    BY <1>4, HeadTailProperties, LenProperties
  <2>4. in_use' = in_use + 1 /\ in_use = Cardinality(Counted)
    BY <1>4 DEF CapacityBound
  <2>5. Len(idle') + in_use' = Len(idle) + in_use
    BY <2>3, <2>4
  <2>6. in_use' = Cardinality(Counted')
    BY <2>2, <2>4
  <2>7. Len(idle') + in_use' <= Capacity
    BY <2>5 DEF CapacityBound
  <2>8. QED
    BY <2>5, <2>6, <2>7 DEF CapacityBound
<1>5. QED
  BY <1>3, <1>4 DEF TestUnderLock

(* Giving up stops the count without an idle connection in exchange: this  *)
(* is where the pool shrinks.                                              *)
LEMMA CountGiveUp ==
  ASSUME IInv, NEW c \in Clients, GiveUp(c)
  PROVE  /\ CapacityBound' /\ in_use' \in Nat
         /\ Len(idle') + in_use' = Len(idle) + in_use - 1
<1> USE DEF IInv, OwnInv, TypeOK
<1>1. /\ cpc'[c] = "out"
      /\ \A d \in Clients \ {c} : \/ cpc'[d] = cpc[d]
                                  \/ cpc[d] = "waiting" /\ cpc'[d] = "woken"
  BY NotifyMoves DEF GiveUp
<1>2. c \in Counted /\ c \notin Counted'
  BY <1>1 DEF GiveUp, Counted
<1>3. \A d \in Clients \ {c} : d \in Counted' <=> d \in Counted
  BY <1>1 DEF Counted
<1>4. Cardinality(Counted') = Cardinality(Counted) - 1
  BY <1>2, <1>3, CountMoves
<1>5. Cardinality(Counted) # 0
  BY <1>2, CountedIsFinite, FS_EmptySet
<1>6. QED
  BY <1>4, <1>5, CountedIsFinite, LenProperties, CapacityAssumption
  DEF GiveUp, CapacityBound

(* giveBack() exchanges the count for an idle connection, or closes it.    *)
LEMMA CountRelease ==
  ASSUME IInv, NEW c \in Clients, Release(c)
  PROVE  /\ CapacityBound' /\ in_use' \in Nat
         /\ Len(idle') + in_use' <= Len(idle) + in_use
<1> USE DEF IInv, OwnInv, TypeOK
<1>1. /\ cpc'[c] = "out"
      /\ \A d \in Clients \ {c} : \/ cpc'[d] = cpc[d]
                                  \/ cpc[d] = "waiting" /\ cpc'[d] = "woken"
  <2>1. CASE stopping
    BY <2>1 DEF Release
  <2>2. CASE ~stopping
    BY <2>2, NotifyMoves DEF Release
  <2>3. QED
    BY <2>1, <2>2
<1>2. c \in Counted /\ c \notin Counted'
  BY <1>1 DEF Release, Counted
<1>3. \A d \in Clients \ {c} : d \in Counted' <=> d \in Counted
  BY <1>1 DEF Counted
<1>4. Cardinality(Counted') = Cardinality(Counted) - 1
  BY <1>2, <1>3, CountMoves
<1>5. Cardinality(Counted) # 0
  BY <1>2, CountedIsFinite, FS_EmptySet
<1>6. in_use > 0 /\ in_use' = in_use - 1 /\ in_use' = Cardinality(Counted')
  BY <1>4, <1>5, CountedIsFinite DEF CapacityBound, Release
<1>7. Len(idle') = Len(idle) \/ Len(idle') = Len(idle) + 1
  <2>1. conn[c] \in Conns
    BY DEF Release, HoldersByPc
  <2>2. QED
    BY <2>1, AppendProperties DEF Release
<1>8. Len(idle) \in Nat
  BY LenProperties
<1>9. QED
  BY <1>6, <1>7, <1>8, CapacityAssumption DEF CapacityBound

(* The steps that leave the count and the idle list alone. *)
LEMMA CountOther ==
  ASSUME IInv,
         \/ \E c \in Clients :
              Ping(c) \/ Connect(c) \/ Timeout(c) \/ SpuriousWakeup(c)
         \/ DbDown \/ DbUp \/ \E h \in Conns : DbDrops(h)
         \/ UNCHANGED vars
  PROVE  CapacityBound' /\ Len(idle') + in_use' = Len(idle) + in_use
<1> USE DEF IInv, OwnInv, TypeOK, PCs
<1>1. UNCHANGED <<idle, in_use>>
  BY DEF Ping, Connect, Timeout, SpuriousWakeup, DbDown, DbUp, DbDrops, vars
<1>2. Counted' = Counted
  BY DEF Ping, Connect, Timeout, SpuriousWakeup, DbDown, DbUp, DbDrops, vars, Counted
<1>3. QED
  BY <1>1, <1>2 DEF CapacityBound

LEMMA CountShutdown ==
  ASSUME IInv, Shutdown
  PROVE  CapacityBound' /\ Len(idle') + in_use' <= Len(idle) + in_use
<1> USE DEF IInv, OwnInv, TypeOK, PCs
<1>1. Counted' = Counted
  BY DEF Shutdown, Counted, Waiting
<1>2. Len(idle') = 0 /\ Len(idle) \in Nat /\ in_use' = in_use
  BY EmptySeq, LenProperties DEF Shutdown
<1>3. QED
  BY <1>1, <1>2, CapacityAssumption DEF CapacityBound

-------------------------------------------------------------------------------
(* Together. *)

LEMMA InvStep ==
  ASSUME IInv, [Next]_vars
  PROVE  IInv' /\ Len(idle') + in_use' <= Len(idle) + in_use
<1>1. Len(idle) \in Nat /\ in_use \in Nat
  BY LenProperties DEF IInv, OwnInv, TypeOK
<1>2. ASSUME NEW c \in Clients, Acquire(c) \/ Woken(c) \/ Expired(c)
      PROVE  IInv' /\ Len(idle') + in_use' <= Len(idle) + in_use
  <2>1. PICK b \in BOOLEAN :
          /\ cpc[c] \in {"out", "woken", "expired"}
          /\ TestUnderLock(c, b)
          /\ UNCHANGED <<stopping, open, broken, dbUp>>
    BY <1>2 DEF Acquire, Woken, Expired
  <2>2. OwnInv'
    BY <2>1, OwnTest DEF IInv
  <2>3. CapacityBound' /\ Len(idle') + in_use' = Len(idle) + in_use
    BY <2>1, CountTest
  <2>4. QED
    BY <1>1, <2>2, <2>3 DEF IInv
<1>3. ASSUME NEW c \in Clients, GiveUp(c)
      PROVE  IInv' /\ Len(idle') + in_use' <= Len(idle) + in_use
  BY <1>1, <1>3, OwnGiveUp, CountGiveUp DEF IInv
<1>4. ASSUME NEW c \in Clients, Release(c)
      PROVE  IInv' /\ Len(idle') + in_use' <= Len(idle) + in_use
  BY <1>4, OwnRelease, CountRelease DEF IInv
<1>5. CASE Shutdown
  BY <1>5, OwnShutdown, CountShutdown DEF IInv
<1>6. CASE \/ \E c \in Clients :
                Ping(c) \/ Connect(c) \/ Timeout(c) \/ SpuriousWakeup(c)
           \/ DbDown \/ DbUp \/ \E h \in Conns : DbDrops(h)
           \/ UNCHANGED vars
  <2>1. CapacityBound' /\ Len(idle') + in_use' <= Len(idle) + in_use
    BY <1>1, <1>6, CountOther
  <2>2. OwnInv'
    BY <1>6, OwnPing, OwnConnect, OwnOther DEF IInv
  <2>3. QED
    BY <2>1, <2>2 DEF IInv
<1>7. QED
  BY <1>2, <1>3, <1>4, <1>5, <1>6 DEF Next, ClientStep

LEMMA Inductive == Spec => []IInv
<1>1. Init => IInv
  BY OwnInit, CountInit DEF IInv
<1>2. IInv /\ [Next]_vars => IInv'
  BY InvStep
<1>3. QED
  BY <1>1, <1>2, PTL DEF Spec, Safety

(* Every state variable of the pool stays in its type. *)
THEOREM TypeCorrect == Spec => []TypeOK
<1>1. IInv => TypeOK
  BY DEF IInv, OwnInv
<1>2. QED
  BY <1>1, Inductive, PTL

(* A connection has one owner at a time: one client, or the idle list.     *)
THEOREM LeasesAreExclusive == Spec => []LeasesExclusive
<1>1. IInv => LeasesExclusive
  BY DEF IInv, OwnInv
<1>2. QED
  BY <1>1, Inductive, PTL

(* Every open handle has an owner and every owned handle is open, before   *)
(* and after shutdown().                                                   *)
THEOREM HandlesAreAccounted == Spec => []HandlesAccounted
<1>1. IInv => HandlesAccounted
  BY DEF IInv, OwnInv
<1>2. QED
  BY <1>1, Inductive, PTL

(* in_use is exact and the pool never exceeds pool_size. *)
THEOREM CapacityIsBounded == Spec => []CapacityBound
<1>1. IInv => CapacityBound
  BY DEF IInv
<1>2. QED
  BY <1>1, Inductive, PTL

(* The pool never grows back: a connection lost to a failed reconnection   *)
(* is lost for the life of the process.                                    *)
THEOREM PoolNeverRegrows == Spec => NeverRegrows
<1>1. IInv /\ [Next]_vars => [Len(idle') + in_use' <= Len(idle) + in_use]_vars
  BY InvStep
<1>2. QED
  BY <1>1, Inductive, PTL DEF Spec, Safety, NeverRegrows

-------------------------------------------------------------------------------
(* The wakeups. *)

(* The clients about to test the predicate. *)
Awake == {c \in Clients : cpc[c] \in {"woken", "expired"}}

LEMMA AwakeIsFinite ==
  /\ IsFiniteSet(Awake) /\ Cardinality(Awake) \in Nat
  /\ IsFiniteSet(Awake') /\ Cardinality(Awake') \in Nat
<1>1. Awake \in SUBSET Clients /\ Awake' \in SUBSET Clients
  BY DEF Awake
<1>2. QED
  BY <1>1, ClientsAssumption, FS_Subset, FS_CardinalityType

(* A step that lets a client fall asleep, or no client, and takes at most   *)
(* as many from the awake ones as from the idle list.                       *)
LEMMA WakeupsKept ==
  ASSUME TypeOK, WakeupsSuffice, stopping' = stopping, Waiting' # {} => Waiting # {},
         Len(idle') \in Nat, Len(idle) \in Nat,
         NEW n \in Nat, Len(idle') <= Len(idle) + n,
         Waiting # {} => Cardinality(Awake') >= Cardinality(Awake) + n
  PROVE  WakeupsSuffice'
BY AwakeIsFinite DEF WakeupsSuffice, Awake

(* A notification finds a client that waits, or nobody waits. *)
LEMMA NotifyWakes ==
  ASSUME TypeOK, NEW c \in Clients, cpc[c] \notin {"waiting", "woken", "expired"},
         NotifyOne([cpc EXCEPT ![c] = "out"])
  PROVE  /\ Waiting' # {} => Waiting # {}
         /\ Waiting # {} => Cardinality(Awake') = Cardinality(Awake) + 1
<1> USE DEF TypeOK
<1>1. CASE Waiting = {}
  BY <1>1 DEF NotifyOne, Waiting
<1>2. ASSUME NEW d \in Waiting, cpc' = [[cpc EXCEPT ![c] = "out"] EXCEPT ![d] = "woken"]
      PROVE  Cardinality(Awake') = Cardinality(Awake) + 1
  <2>1. Awake' = Awake \cup {d} /\ d \notin Awake
    BY <1>2 DEF Awake, Waiting
  <2>2. QED
    BY <2>1, AwakeIsFinite, FS_AddElement
<1>3. QED
  BY <1>1, <1>2 DEF NotifyOne

LEMMA WakeupsTest ==
  ASSUME TypeOK, WakeupsSuffice, NEW c \in Clients, NEW b \in BOOLEAN,
         cpc[c] \in {"out", "woken", "expired"},
         TestUnderLock(c, b), stopping' = stopping
  PROVE  WakeupsSuffice'
<1> USE DEF TypeOK
<1>1. Len(idle) \in Nat
  BY LenProperties
<1>2. CASE stopping
  <2>1. Waiting = {}
    BY <1>2 DEF WakeupsSuffice
  <2>2. Waiting' = {}
    BY <1>2, <2>1 DEF TestUnderLock, Waiting
  <2>3. QED
    BY <2>2 DEF WakeupsSuffice
<1>3. CASE ~stopping /\ idle # <<>>
  <2>1. idle' = Tail(idle) /\ Len(idle') = Len(idle) - 1 /\ Len(idle') \in Nat
    BY <1>3, HeadTailProperties, LenProperties DEF TestUnderLock
  <2>2. cpc' = [cpc EXCEPT ![c] = "ping"]
    BY <1>3 DEF TestUnderLock
  <2>3. Waiting' = Waiting /\ Awake' = Awake \ {c}
    BY <2>2 DEF Waiting, Awake
  <2>4. Cardinality(Awake') >= Cardinality(Awake) - 1
    <3>1. Cardinality(Awake \ {c}) = IF c \in Awake THEN Cardinality(Awake) - 1
                                                   ELSE Cardinality(Awake)
      BY AwakeIsFinite, FS_RemoveElement
    <3>2. Cardinality(Awake) \in Nat
      BY AwakeIsFinite
    <3>3. QED
      BY <2>3, <3>1, <3>2
  <2>5. ASSUME Waiting # {} PROVE Len(idle') <= Cardinality(Awake')
    <3>1. Len(idle) <= Cardinality(Awake)
      BY <2>5 DEF WakeupsSuffice, Awake
    <3>2. QED
      BY <1>1, <2>1, <2>4, <3>1, AwakeIsFinite
  <2>6. QED
    BY <1>3, <2>3, <2>5 DEF WakeupsSuffice, Awake
<1>4. CASE ~stopping /\ idle = <<>>
  <2>1. Len(idle') = 0 /\ ~stopping'
    BY <1>4, EmptySeq DEF TestUnderLock
  <2>2. QED
    BY <2>1, AwakeIsFinite DEF WakeupsSuffice, Awake
<1>5. QED
  BY <1>2, <1>3, <1>4

LEMMA WakeupsStep ==
  ASSUME TypeOK, WakeupsSuffice, HoldersByPc, [Next]_vars
  PROVE  WakeupsSuffice'
<1> USE DEF TypeOK
<1>1. Len(idle) \in Nat
  BY LenProperties
<1>2. ASSUME NEW c \in Clients, Acquire(c) \/ Woken(c) \/ Expired(c)
      PROVE  WakeupsSuffice'
  <2>1. PICK b \in BOOLEAN :
          /\ cpc[c] \in {"out", "woken", "expired"}
          /\ TestUnderLock(c, b)
          /\ UNCHANGED <<stopping, open, broken, dbUp>>
    BY <1>2 DEF Acquire, Woken, Expired
  <2>2. QED
    BY <2>1, WakeupsTest
<1>3. ASSUME NEW c \in Clients, Timeout(c) \/ SpuriousWakeup(c)
      PROVE  WakeupsSuffice'
  <2>1. Waiting' \subseteq Waiting /\ Awake' = Awake \cup {c} /\ c \notin Awake
    BY <1>3 DEF Timeout, SpuriousWakeup, Waiting, Awake
  <2>2. Cardinality(Awake') = Cardinality(Awake) + 1
    BY <2>1, AwakeIsFinite, FS_AddElement
  <2>3. UNCHANGED <<idle, stopping>>
    BY <1>3 DEF Timeout, SpuriousWakeup
  <2>4. Len(idle') <= Len(idle) + 0 /\ Cardinality(Awake') >= Cardinality(Awake) + 0
    BY <1>1, <2>2, <2>3, AwakeIsFinite
  <2>5. QED
    BY <1>1, <2>1, <2>3, <2>4, WakeupsKept
<1>4. ASSUME NEW c \in Clients, GiveUp(c)
      PROVE  WakeupsSuffice'
  <2>1. /\ Waiting' # {} => Waiting # {}
        /\ Waiting # {} => Cardinality(Awake') = Cardinality(Awake) + 1
    BY <1>4, NotifyWakes DEF GiveUp
  <2>2. UNCHANGED <<idle, stopping>>
    BY <1>4 DEF GiveUp
  <2>3. QED
    BY <1>1, <2>1, <2>2, WakeupsKept, AwakeIsFinite
<1>5. ASSUME NEW c \in Clients, Release(c)
      PROVE  WakeupsSuffice'
  <2>1. CASE stopping
    <3>1. Waiting = {}
      BY <2>1 DEF WakeupsSuffice
    <3>2. Waiting' = {}
      BY <1>5, <2>1, <3>1 DEF Release, Waiting
    <3>3. QED
      BY <3>2 DEF WakeupsSuffice
  <2>2. CASE ~stopping
    <3>1. /\ Waiting' # {} => Waiting # {}
          /\ Waiting # {} => Cardinality(Awake') = Cardinality(Awake) + 1
      BY <1>5, <2>2, NotifyWakes DEF Release
    <3>2. conn[c] \in Conns /\ idle' = Append(idle, conn[c]) /\ stopping' = stopping
      BY <1>5, <2>2 DEF Release, HoldersByPc
    <3>3. Len(idle') = Len(idle) + 1
      BY <3>2, AppendProperties
    <3>4. QED
      BY <1>1, <3>1, <3>2, <3>3, WakeupsKept, AwakeIsFinite
  <2>3. QED
    BY <2>1, <2>2
<1>6. CASE Shutdown
  <2>1. Waiting' = {}
    BY <1>6 DEF Shutdown, Waiting
  <2>2. QED
    BY <2>1 DEF WakeupsSuffice
<1>7. CASE \/ \E c \in Clients : Ping(c) \/ Connect(c)
           \/ DbDown \/ DbUp \/ \E h \in Conns : DbDrops(h)
           \/ UNCHANGED vars
  <2>1. UNCHANGED <<idle, stopping>> /\ Waiting' = Waiting /\ Awake' = Awake
    BY <1>7 DEF Ping, Connect, DbDown, DbUp, DbDrops, vars, Waiting, Awake
  <2>2. QED
    BY <2>1 DEF WakeupsSuffice, Awake
<1>8. QED
  BY <1>2, <1>3, <1>4, <1>5, <1>6, <1>7 DEF Next, ClientStep

(* While a client waits, every idle connection has a client on its way to   *)
(* it, and nobody waits for a pool that stops: the notify_one() of release  *)
(* and of a failed reconnection, and the notify_all() of shutdown(), lose   *)
(* no wakeup, for any number of clients and connections.                    *)
THEOREM WakeupsAlwaysSuffice == Spec => []WakeupsSuffice
<1>1. Init => WakeupsSuffice
  BY DEF Init, WakeupsSuffice, Waiting
<1>2. IInv => TypeOK /\ HoldersByPc
  BY DEF IInv, OwnInv
<1>3. QED
  BY <1>1, <1>2, WakeupsStep, Inductive, PTL DEF Spec, Safety
===============================================================================
