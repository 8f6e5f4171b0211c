--------------------------- MODULE PipelineProofs ---------------------------
(***************************************************************************)
(* Proofs about Pipeline: type correctness, that a verdict differs from    *)
(* the deserved one only for the causes the code leaves open, and that     *)
(* every pipeline gives back its descriptors.  All hold for any number of  *)
(* workers, submissions and cases, and any size of the table.              *)
(*                                                                         *)
(* A verdict is about one run, and the run is only a worker's own while    *)
(* nobody closes a number of it.  So the invariant speaks of clean workers *)
(* (no stale close has crossed them): the four numbers of a run are the    *)
(* ends of two pipes of the worker that nobody else reads or writes, and   *)
(* what they hold is what the program was given and has written.  A worker *)
(* that was crossed may see anything, and nothing is said of it but that   *)
(* it owes the numbers of its table to a later close().                    *)
(***************************************************************************)
EXTENDS Pipeline, FiniteSetTheorems, FunctionTheorems, TLAPS

-------------------------------------------------------------------------------
(* Where a worker is: in compileSource(), or in runBinary(). *)
Compile == {"spawn", "unshare", "compiling", "joinCompiler", "closeAgain"}

Run == {"fork", "ends", "feed", "running", "joinReader", "judge"}

Reading == {"compiling", "joinCompiler", "running", "joinReader"}

Reaped == {"joinCompiler", "closeAgain", "joinReader", "judge"}

NoChildYet == {"start", "spawn", "open", "fork", "done"}

(* What each place of a worker says of its locals. *)
PlaceOK(w) ==
  /\ pc[w] \in {"start", "open", "done"} => fd[w] = <<>>
  /\ pc[w] \in Compile => fd[w] \in [1 .. 2 -> Fds] /\ fd[w][1] # fd[w][2]
  /\ pc[w] \in Run => /\ fd[w] \in [1 .. 4 -> Fds]
                      /\ \A i, j \in 1 .. 4 : fd[w][i] = fd[w][j] => i = j
  /\ child[w] = NoChild <=> pc[w] \in NoChildYet
  /\ pc[w] \in Compile \ NoChildYet => child[w].fate \in Compilations
  /\ pc[w] \in Run \ NoChildYet => child[w].fate \in Programs
  /\ pc[w] \in Reaped => ~child[w].alive
  /\ killed[w] => pc[w] \in Reaped
  /\ reader[w] # "none" <=> pc[w] \in Reading
  /\ reader[w] = "blocked" <=> on[w] # Free
  /\ sink[w] # Nothing => pc[w] \in Reading \union {"judge"}
  /\ verdict[w] # "AC" => pc[w] = "done"

PlacesOK == \A w \in Workers : PlaceOK(w)

(* No end is open twice in the table, and a child that may write holds the  *)
(* end that it writes to.                                                   *)
TableOK == \A m, n \in Fds : files[m] = files[n] /\ files[m] # Free => m = n

ChildrenOK == \A w \in Workers : Alive(w) /\ child[w].out # Free => child[w].out \in inherited[w]

(* The numbers that w will still close: who made the pipe of an end does. *)
OwedAt(p, f) == CASE p \in {"spawn", "unshare"} -> {f[1], f[2]}
                  [] p \in {"compiling", "joinCompiler", "closeAgain"} -> {f[1]}
                  [] p \in {"fork", "ends"} -> {f[1], f[2], f[3], f[4]}
                  [] p = "feed" -> {f[2], f[3]}
                  [] p \in {"running", "joinReader", "judge"} -> {f[3]}
                  [] OTHER -> {}

Owed(w) == OwedAt(pc[w], fd[w])

OwedOK == \A n \in Fds : \/ files[n] \in leaked \union {Free}
                         \/ n \in Owed(files[n].pipe[1])

(* What g++ makes of a submission: the verdict needs no descriptor. *)
CompileOK ==
  \A w \in Workers : pc[w] \in Compile \ NoChildYet =>
    /\ deserved[w] = IF child[w].fate = "compiles" THEN "AC" ELSE "CE"
    /\ killed[w] => child[w].fate = "hangs" \/ "early" \in disturbed[w]

-------------------------------------------------------------------------------
(* A worker nobody has crossed, while a program of its runs: p is the pipe  *)
(* of the input and q that of the output.                                   *)
Clean(w) == "crossed" \notin disturbed[w]

OwnEnds(w, p, q) ==
  /\ pc[w] \in {"fork", "ends"} => files[fd[w][1]] = End(p, "r") /\ files[fd[w][4]] = End(q, "w")
  /\ pc[w] \in {"fork", "ends", "feed"} => files[fd[w][2]] = End(p, "w")
  /\ pc[w] \notin {"fork", "ends", "feed"} => \A n \in Fds : files[n] # End(p, "w")
  /\ files[fd[w][3]] = End(q, "r")
  /\ pc[w] # "fork" => child[w].in = End(p, "r") /\ child[w].out = End(q, "w")
  /\ on[w] \in {Free, q}

(* Nobody else reads or writes its pipes. *)
Alone(w, p, q) ==
  \A v \in Workers \ {w} :
    /\ on[v] \notin {p, q}
    /\ Alive(v) /\ child[v].out # Free => child[v].out.pipe \notin {p, q}

(* Who holds its input open was told so. *)
HoldersTold(w, p) ==
  \A v \in Workers : End(p, "w") \in inherited[v] \union orphan[v] \union daemon[v] =>
                       v # w /\ "held" \in disturbed[w]

(* The input goes to the program and its output to the reader, whole. *)
Produced(w, q) ==
  /\ child[w].fate = "loops" => "cpu" \in disturbed[w]
  /\ child[w].fate \in {"right", "wrong"} =>
       {sink[w], content[q]} = {Nothing, Text(w, child[w].fate)}

Flows(w, p, q) ==
  IF pc[w] \in {"fork", "ends", "feed"}
  THEN /\ content[p] = Nothing /\ content[q] = Nothing
       /\ pc[w] # "fork" /\ ~child[w].alive =>
            \/ child[w].fate = "crashes"
            \/ child[w].fate = "loops" /\ "cpu" \in disturbed[w]
  ELSE /\ content[p] = Text(w, "input")
       /\ child[w].alive => sink[w] = Nothing /\ content[q] = Nothing
       /\ ~child[w].alive /\ ~killed[w] => Produced(w, q)
       /\ reader[w] \in {"stop", "end"} \/ pc[w] = "judge" => content[q] = Nothing /\ ~child[w].alive
       /\ killed[w] => child[w].fate = "loops" \/ disturbed[w] \intersect {"held", "early"} # {}
       /\ pc[w] \in Reaped /\ ~killed[w] => child[w].mem <= maxrss

RunOK(w, p, q) == OwnEnds(w, p, q) /\ Alone(w, p, q) /\ HoldersTold(w, p) /\ Flows(w, p, q)

DeservedOK(w) ==
  /\ pc[w] \in {"open", "fork"} => deserved[w] = "AC"
  /\ pc[w] \in Run \ {"fork"} => deserved[w] = Deserves(w, child[w].fate, child[w].mem)
  /\ pc[w] = "done" =>
       \/ verdict[w] = deserved[w]
       \/ verdict[w] = "MLE" /\ OverLimit(w) /\ (deserved[w] = "TLE" => "cpu" \in disturbed[w])
       \/ verdict[w] = "TLE" /\ disturbed[w] \intersect {"held", "early"} # {}
       \/ verdict[w] = "CE" /\ disturbed[w] \intersect {"early", "failed"} # {}
       \/ verdict[w] = "RE" /\ disturbed[w] \intersect {"cpu", "failed"} # {}
       \/ verdict[w] = "none" /\ "failed" \in disturbed[w]

CleanOK ==
  \A w \in Workers : Clean(w) =>
    /\ DeservedOK(w)
    /\ pc[w] \in Run => \E a, b \in 1 .. MaxPipes : a # b /\ RunOK(w, <<w, a>>, <<w, b>>)

Inv == TypeOK /\ PlacesOK /\ TableOK /\ ChildrenOK /\ OwedOK /\ CompileOK /\ CleanOK
-------------------------------------------------------------------------------
(* The kernel: which numbers and pipes pipe() takes. *)

LEMMA RankBounds ==
  ASSUME NEW S, IsFiniteSet(S), S \subseteq Nat, NEW n \in S
  PROVE  Rank(n, S) \in 1 .. Cardinality(S)
<1> DEFINE L == {m \in S : m < n}
<1>1. IsFiniteSet(S \ {n}) /\ Cardinality(S \ {n}) = Cardinality(S) - 1 /\ Cardinality(S) \in Nat
  BY FS_RemoveElement, FS_CardinalityType
<1>2. L \in SUBSET (S \ {n})
  OBVIOUS
<1>3. Cardinality(L) <= Cardinality(S) - 1 /\ Cardinality(L) \in Nat
  <2> HIDE DEF L
  <2> QED  BY <1>1, <1>2, FS_Subset, FS_CardinalityType
<1> QED  BY <1>1, <1>3 DEF Rank

LEMMA RankGrows ==
  ASSUME NEW S, IsFiniteSet(S), S \subseteq Nat, NEW m \in S, NEW n \in S, m < n
  PROVE  Rank(m, S) < Rank(n, S)
<1> DEFINE L(x) == {y \in S : y < x}
<1>1. \A x : L(x) \in SUBSET S
  OBVIOUS
<1>2. IsFiniteSet(L(m)) /\ IsFiniteSet(L(n)) /\ m \notin L(m) /\ L(m) \cup {m} \in SUBSET L(n)
  <2>1. m \notin L(m) /\ L(m) \cup {m} \in SUBSET L(n)
    <3>1. m \in Nat /\ n \in Nat /\ ~(m < m)
      OBVIOUS
    <3>2. \A y \in S : y < m => y < n
      BY <3>1
    <3> QED  BY <3>1, <3>2
  <2> HIDE DEF L
  <2>2. IsFiniteSet(L(m)) /\ IsFiniteSet(L(n))
    BY <1>1, FS_Subset
  <2> QED  BY <2>1, <2>2
<1>3. /\ Cardinality(L(m)) + 1 <= Cardinality(L(n))
      /\ Cardinality(L(m)) \in Nat /\ Cardinality(L(n)) \in Nat
  <2> HIDE DEF L
  <2>1. Cardinality(L(m) \cup {m}) = Cardinality(L(m)) + 1
    BY <1>2, FS_AddElement
  <2>2. Cardinality(L(m) \cup {m}) <= Cardinality(L(n))
    BY <1>2, FS_Subset
  <2> QED  BY <1>2, <2>1, <2>2, FS_CardinalityType
<1> QED  BY <1>3 DEF Rank

(* No rank is missing, and none is taken twice. *)
LEMMA NthRank ==
  ASSUME NEW S, IsFiniteSet(S), S \subseteq Nat
  PROVE  /\ \A i \in 1 .. Cardinality(S) : Nth(i, S) \in S /\ Rank(Nth(i, S), S) = i
         /\ \A n \in S : Rank(n, S) \in 1 .. Cardinality(S) /\ Nth(Rank(n, S), S) = n
<1> DEFINE f == [n \in S |-> Rank(n, S)]
           N == 1 .. Cardinality(S)
<1>1. \A n \in S : Rank(n, S) \in N
  BY RankBounds
<1>2. \A m, n \in S : Rank(m, S) = Rank(n, S) => m = n
  <2> SUFFICES ASSUME NEW m \in S, NEW n \in S, Rank(m, S) = Rank(n, S), m # n PROVE FALSE
    OBVIOUS
  <2>1. m < n \/ n < m
    OBVIOUS
  <2>2. Rank(m, S) < Rank(n, S) \/ Rank(n, S) < Rank(m, S)
    BY <2>1, RankGrows
  <2> QED  BY <1>1, <2>2
<1>3. f \in [S -> N] /\ \A m, n \in S : f[m] = f[n] => m = n
  BY <1>1, <1>2
<1>4. IsFiniteSet(N) /\ Cardinality(N) = Cardinality(S)
  BY FS_Interval, FS_CardinalityType
<1>5. f \in Surjection(S, N)
  <2> HIDE DEF f, N
  <2>1. f \in Injection(S, N)
    BY <1>3, Fun_IsInj
  <2> QED  BY <1>4, <2>1, FS_Injection
<1>6. \A i \in N : \E n \in S : Rank(n, S) = i
  BY <1>5 DEF Surjection
<1>7. \A i \in N : Nth(i, S) \in S /\ Rank(Nth(i, S), S) = i
  BY <1>6 DEF Nth
<1>8. \A n \in S : Nth(Rank(n, S), S) = n
  BY <1>1, <1>2, <1>7
<1> QED  BY <1>1, <1>7, <1>8

LEMMA Finite ==
  ASSUME NEW w
  PROVE  /\ IsFiniteSet(FreeNumbers) /\ FreeNumbers \subseteq Nat
         /\ IsFiniteSet(UnusedPipes(w)) /\ UnusedPipes(w) \subseteq Nat
<1>1. FreeNumbers \in SUBSET Fds /\ UnusedPipes(w) \in SUBSET (1 .. MaxPipes)
  BY DEF FreeNumbers, UnusedPipes
<1>2. IsFiniteSet(1 .. MaxPipes)
  BY FS_Interval, PipelineAssumption
<1>3. IsFiniteSet(FreeNumbers)
  BY <1>1, FS_Subset, PipelineAssumption
<1>4. IsFiniteSet(UnusedPipes(w))
  BY <1>1, <1>2, FS_Subset
<1> QED  BY <1>1, <1>3, <1>4, PipelineAssumption

(* One pipe() makes two ends of an unused pipe, two calls those of two. *)
LEMMA NewEnds ==
  ASSUME NEW w \in Workers, NEW k \in 1 .. 2, k <= Cardinality(UnusedPipes(w))
  PROVE  \E a, b \in 1 .. MaxPipes :
           /\ a \in UnusedPipes(w) /\ b \in UnusedPipes(w)
           /\ NewEnd(w, 1) = End(<<w, a>>, "r") /\ NewEnd(w, 2) = End(<<w, a>>, "w")
           /\ k = 2 => /\ a # b
                       /\ NewEnd(w, 3) = End(<<w, b>>, "r")
                       /\ NewEnd(w, 4) = End(<<w, b>>, "w")
<1> DEFINE U == UnusedPipes(w)
<1>1. IsFiniteSet(U) /\ U \subseteq Nat /\ Cardinality(U) \in Nat /\ U \subseteq 1 .. MaxPipes
  BY Finite, FS_CardinalityType DEF UnusedPipes
<1>2. \A i \in 1 .. Cardinality(U) : Nth(i, U) \in U /\ Rank(Nth(i, U), U) = i
  <2> HIDE DEF U
  <2> QED  BY <1>1, NthRank
<1>3. /\ (1 + 1) \div 2 = 1 /\ (2 + 1) \div 2 = 1 /\ (3 + 1) \div 2 = 2 /\ (4 + 1) \div 2 = 2
      /\ 1 % 2 = 1 /\ 2 % 2 = 0 /\ 3 % 2 = 1 /\ 4 % 2 = 0
  OBVIOUS
<1>4. /\ NewEnd(w, 1) = End(<<w, Nth(1, U)>>, "r") /\ NewEnd(w, 2) = End(<<w, Nth(1, U)>>, "w")
      /\ NewEnd(w, 3) = End(<<w, Nth(2, U)>>, "r") /\ NewEnd(w, 4) = End(<<w, Nth(2, U)>>, "w")
  BY <1>3 DEF NewEnd
<1>5. 1 \in 1 .. Cardinality(U) /\ (k = 2 => 2 \in 1 .. Cardinality(U))
  BY <1>1
<1>6. Nth(1, U) \in U /\ (k = 2 => Nth(2, U) \in U /\ Nth(1, U) # Nth(2, U))
  BY <1>2, <1>5
<1> HIDE DEF U
<1>7. CASE k = 2
  BY <1>1, <1>4, <1>6, <1>7 DEF U
<1>8. CASE k = 1
  BY <1>1, <1>4, <1>6, <1>8 DEF U
<1> QED  BY <1>7, <1>8

(* The numbers were free, and hold the new ends.                            *)
LEMMA OpenTable ==
  ASSUME NEW w \in Workers, NEW k \in 0 .. 2, Open(w, k)
  PROVE  /\ Numbers(k) \in [1 .. 2 * k -> Fds]
         /\ \A i \in 1 .. 2 * k : /\ files[Numbers(k)[i]] = Free
                                  /\ files'[Numbers(k)[i]] = NewEnd(w, i)
         /\ \A i, j \in 1 .. 2 * k : Numbers(k)[i] = Numbers(k)[j] => i = j
         /\ \A n \in Fds : \/ files'[n] = files[n]
                           \/ \E i \in 1 .. 2 * k : n = Numbers(k)[i]
<1> DEFINE F == FreeNumbers
<1>1. IsFiniteSet(F) /\ F \subseteq Nat /\ Cardinality(F) \in Nat /\ F \subseteq Fds
  BY Finite, FS_CardinalityType DEF FreeNumbers
<1>2. /\ \A i \in 1 .. Cardinality(F) : Nth(i, F) \in F /\ Rank(Nth(i, F), F) = i
      /\ \A n \in F : Rank(n, F) \in 1 .. Cardinality(F) /\ Nth(Rank(n, F), F) = n
  <2> HIDE DEF F
  <2> QED  BY <1>1, NthRank
<1>3. 2 * k <= Cardinality(F) /\ \A i \in 1 .. 2 * k : i \in 1 .. Cardinality(F)
  BY <1>1 DEF Open
<1>4. Numbers(k) = [i \in 1 .. 2 * k |-> Nth(i, F)]
  BY DEF Numbers
<1>5. \A n \in Fds : files'[n] = IF n \in F /\ Rank(n, F) <= 2 * k
                                 THEN NewEnd(w, Rank(n, F)) ELSE files[n]
  BY DEF Open
<1>6. \A n \in F : files[n] = Free
  BY DEF FreeNumbers
<1> HIDE DEF F
<1>7. \A n \in F : Rank(n, F) <= 2 * k => Rank(n, F) \in 1 .. 2 * k
  BY <1>1, <1>2
<1>8. Numbers(k) \in [1 .. 2 * k -> Fds]
  BY <1>1, <1>2, <1>3, <1>4
<1>9. \A i \in 1 .. 2 * k : /\ Numbers(k)[i] \in F /\ Numbers(k)[i] \in Fds
                            /\ Rank(Numbers(k)[i], F) = i /\ i <= 2 * k
  <2> SUFFICES ASSUME NEW i \in 1 .. 2 * k
               PROVE  /\ Numbers(k)[i] \in F /\ Numbers(k)[i] \in Fds
                      /\ Rank(Numbers(k)[i], F) = i /\ i <= 2 * k
    OBVIOUS
  <2>1. Numbers(k)[i] = Nth(i, F) /\ i <= 2 * k
    BY <1>4
  <2>2. Nth(i, F) \in F /\ Rank(Nth(i, F), F) = i
    BY <1>2, <1>3
  <2> QED  BY <1>1, <2>1, <2>2
<1>10. \A i \in 1 .. 2 * k : files'[Numbers(k)[i]] = NewEnd(w, i)
  BY <1>5, <1>9
<1>11. \A n \in F : Rank(n, F) <= 2 * k => n = Numbers(k)[Rank(n, F)]
  <2> SUFFICES ASSUME NEW n \in F, Rank(n, F) <= 2 * k PROVE n = Numbers(k)[Rank(n, F)]
    OBVIOUS
  <2>1. Numbers(k)[Rank(n, F)] = Nth(Rank(n, F), F)
    BY <1>4, <1>7
  <2> QED  BY <1>2, <2>1
<1>12. \A n \in Fds : files'[n] = files[n] \/ \E i \in 1 .. 2 * k : n = Numbers(k)[i]
  BY <1>5, <1>7, <1>11
<1> QED  BY <1>6, <1>8, <1>9, <1>10, <1>12

-------------------------------------------------------------------------------
(* The types. *)

LEMMA Constants ==
  /\ Free \notin Pipes /\ Free \notin Ends /\ NoChild \notin Children
  /\ \A w \in Workloads : Workload(w)
BY PipelineAssumption

LEMMA NoNumbers == <<>> \in Seq(Fds)
OBVIOUS

LEMMA TextTypes ==
  /\ Nothing \in Texts
  /\ \A w \in Workers : \A t \in {"input", "right", "wrong", "errors"} : Text(w, t) \in Texts
  /\ \A a, b \in Texts : Joined(a, b) \in Texts
  /\ \A w \in Workers : Output(w) \in Texts
<1>1. /\ Nothing \in Texts /\ Text(Free, "mixed") \in Texts
      /\ \A w \in Workers : \A t \in {"input", "right", "wrong", "errors"} : Text(w, t) \in Texts
  BY DEF Nothing, Text, Texts
<1>2. \A a, b \in Texts : Joined(a, b) \in Texts
  BY <1>1 DEF Joined
<1>3. ASSUME NEW w \in Workers PROVE Output(w) \in Texts
  <2>1. Output(w) \in {Text(w, "right"), Text(w, "wrong"), Text(w, "errors"), Nothing}
    BY DEF Output
  <2> QED  BY <1>1, <2>1
<1> QED  BY <1>1, <1>2, <1>3

(* What is kept in a record of disturbances only grows. *)
LEMMA HappensType ==
  ASSUME TypeOK, NEW x, NEW y, NEW z, Happens(x, y, z)
  PROVE  /\ \A v \in Workers : /\ disturbed[v] \subseteq disturbed'[v]
                               /\ v \in x => "crossed" \in disturbed'[v]
                               /\ v \in y => "held" \in disturbed'[v]
                               /\ z[v] \subseteq disturbed'[v]
         /\ z \in [Workers -> SUBSET Disturbances] =>
              disturbed' \in [Workers -> SUBSET Disturbances]
<1>1. \A v \in Workers : /\ disturbed[v] \subseteq disturbed'[v]
                         /\ v \in x => "crossed" \in disturbed'[v]
                         /\ v \in y => "held" \in disturbed'[v]
                         /\ z[v] \subseteq disturbed'[v]
  BY DEF Happens
<1>2. ASSUME z \in [Workers -> SUBSET Disturbances]
      PROVE  disturbed' \in [Workers -> SUBSET Disturbances]
  BY <1>2 DEF TypeOK, Happens, Disturbances
<1> QED  BY <1>1, <1>2

LEMMA OwnType ==
  /\ NotHere \in [Workers -> SUBSET Disturbances]
  /\ \A w \in Workers : \A d \in Disturbances : /\ Only(w, d) \in [Workers -> SUBSET Disturbances]
                                                /\ d \in Only(w, d)[w]
BY DEF NotHere, Only

LEMMA CloseType ==
  ASSUME TypeOK, NEW numbers, Close(numbers)
  PROVE  /\ files' \in [Fds -> Ends \union {Free}]
         /\ \A n \in Fds : /\ n \in numbers => files'[n] = Free
                           /\ n \notin numbers => files'[n] = files[n]
BY DEF TypeOK, Close

LEMMA OpenType ==
  ASSUME TypeOK, NEW w \in Workers, NEW k \in 0 .. 2, Open(w, k)
  PROVE  /\ files' \in [Fds -> Ends \union {Free}]
         /\ content' \in [Pipes -> Texts]
         /\ Numbers(k) \in Seq(Fds)
         /\ \A i \in 1 .. 2 * k : NewEnd(w, i) \in Ends
<1>1. ASSUME NEW i \in 1 .. 2 * k PROVE NewEnd(w, i) \in Ends
  <2>1. k \in 1 .. 2 /\ k <= Cardinality(UnusedPipes(w))
    <3>1. k # 0
      OBVIOUS
    <3> QED  BY <3>1 DEF Open
  <2>2. PICK a, b \in 1 .. MaxPipes :
           /\ NewEnd(w, 1) = End(<<w, a>>, "r") /\ NewEnd(w, 2) = End(<<w, a>>, "w")
           /\ k = 2 => /\ NewEnd(w, 3) = End(<<w, b>>, "r")
                       /\ NewEnd(w, 4) = End(<<w, b>>, "w")
    BY <2>1, NewEnds
  <2>3. i \in {1, 2} \/ (k = 2 /\ i \in {3, 4})
    <3>1. CASE k = 1
      BY <3>1
    <3>2. CASE k = 2
      BY <3>2
    <3> QED  BY <2>1, <3>1, <3>2
  <2> QED  BY <2>2, <2>3 DEF End, Ends, Pipes
<1>2. content' \in [Pipes -> Texts]
  BY TextTypes DEF TypeOK, Open
<1>3. \A n \in Fds : files'[n] \in Ends \union {Free}
  <2>1. \A n \in Fds : files'[n] = files[n] \/ \E i \in 1 .. 2 * k : n = Numbers(k)[i]
    BY OpenTable
  <2>2. \A i \in 1 .. 2 * k : files'[Numbers(k)[i]] = NewEnd(w, i)
    BY OpenTable
  <2>3. ASSUME NEW n \in Fds PROVE files'[n] \in Ends \cup {Free}
    <3>1. CASE files'[n] = files[n]
      BY <3>1 DEF TypeOK
    <3>2. CASE \E i \in 1 .. 2 * k : n = Numbers(k)[i]
      BY <1>1, <2>2, <3>2
    <3> QED  BY <2>1, <3>1, <3>2
  <2> QED  BY <2>3
<1>4. files' = [n \in Fds |-> files'[n]]
  BY DEF Open
<1>5. files' \in [Fds -> Ends \union {Free}]
  BY <1>3, <1>4
<1>6. Numbers(k) \in [1 .. 2 * k -> Fds]
  BY OpenTable
<1>7. 2 * k \in Nat
  OBVIOUS
<1>8. Numbers(k) \in Seq(Fds)
  BY <1>6, <1>7
<1> QED  BY <1>1, <1>2, <1>5, <1>8

LEMMA ForkType ==
  ASSUME TypeOK, NEW w \in Workers, NEW fate \in Compilations \union Programs,
         NEW mem \in Nat, NEW closes, NEW in \in Ends \union {Free}, NEW out \in Ends \union {Free},
         Fork(w, fate, mem, closes, in, out)
  PROVE  /\ child' \in [Workers -> Children \union {NoChild}]
         /\ inherited' \in [Workers -> SUBSET Ends]
         /\ disturbed' \in [Workers -> SUBSET Disturbances]
<1>1. child' \in [Workers -> Children \union {NoChild}]
  BY DEF TypeOK, Fork, Children
<1>2. {files[n] : n \in Fds \ closes} \ {Free} \subseteq Ends
  BY DEF TypeOK
<1> QED  BY <1>1, <1>2, HappensType, OwnType DEF TypeOK, Fork

(* A step of a worker, of its reader thread or of its processes. *)
Step(w) == WorkerStep(w) \/ ReaderStep(w) \/ ChildStep(w) \/ DaemonEnds(w)

LEMMA TypeInit == Init => TypeOK
<1> SUFFICES ASSUME Init PROVE TypeOK
  OBVIOUS
<1>1. Workload(work) /\ work \in Workloads
  BY Constants DEF Init
<1>2. /\ case \in [Workers -> 1 .. work.cases] /\ failures \in [Workers -> Nat]
      /\ \A w \in Workers : failures[w] <= work.failures[w]
  BY <1>1 DEF Init, Workload
<1>6. disturbed \in [Workers -> SUBSET Disturbances]
  BY DEF Init
<1>3. left \in [Workers -> Nat] /\ \A w \in Workers : left[w] <= work.rounds[w]
  <2>1. work.rounds \in [Workers -> Nat]
    BY <1>1 DEF Workload
  <2>2. left = [w \in Workers |-> IF work.rounds[w] = 0 THEN 0 ELSE work.rounds[w] - 1]
    BY DEF Init
  <2> QED  BY <2>1, <2>2
<1>4. fd \in [Workers -> Seq(Fds)]
  BY DEF Init
<1>5. content \in [Pipes -> Texts] /\ sink \in [Workers -> Texts]
  BY TextTypes DEF Init
<1> QED  BY <1>1, <1>2, <1>3, <1>4, <1>5, <1>6 DEF Init, TypeOK, Verdicts

(* A step keeps the types, given what the place of a worker says.          *)
LEMMA GiveUpTypes ==
  ASSUME TypeOK, NEW w \in Workers, NEW v \in {"RE", "CE", "none"}, GiveUp(w, v),
         files' \in [Fds -> Ends \union {Free}], content' \in [Pipes -> Texts],
         child' \in [Workers -> Children \union {NoChild}],
         inherited' \in [Workers -> SUBSET Ends],
         orphan' \in [Workers -> SUBSET Ends], daemon' \in [Workers -> SUBSET Ends],
         UNCHANGED maxrss,
         disturbed' \in [Workers -> SUBSET Disturbances],
         leaked' \subseteq Ends
  PROVE  TypeOK'
<1> USE DEF readers
<1>1. Workload(work)
  BY Constants DEF TypeOK
<1>2. /\ failures' \in [Workers -> Nat]
      /\ \A u \in Workers : failures'[u] <= work.failures[u]
  <2>1. /\ work.failures \in [Workers -> Nat]
        /\ failures \in [Workers -> Nat] /\ \A u \in Workers : failures[u] <= work.failures[u]
    BY <1>1 DEF TypeOK, Workload
  <2>2. failures[w] > 0 /\ failures' = [failures EXCEPT ![w] = @ - 1] /\ UNCHANGED work
    BY DEF GiveUp
  <2> QED  BY <2>1, <2>2
<1>3. fd' \in [Workers -> Seq(Fds)]
  BY NoNumbers DEF GiveUp, TypeOK
<1>4. pc' \in [Workers -> {"start", "spawn", "unshare", "compiling", "joinCompiler",
                         "closeAgain", "open", "fork", "ends", "feed", "running",
                         "joinReader", "judge", "done"}]
  BY DEF GiveUp, TypeOK
<1>5. verdict' \in [Workers -> Verdicts]
  BY DEF GiveUp, TypeOK, Verdicts
<1> QED  BY <1>2, <1>3, <1>4, <1>5 DEF GiveUp, TypeOK

(* What a std::thread that cannot be made leaves of its worker.             *)
LEMMA AbandonTypes ==
  ASSUME TypeOK, NEW w \in Workers, NEW n \in Fds, Abandon(w, n)
  PROVE  /\ child' \in [Workers -> Children \union {NoChild}]
         /\ inherited' \in [Workers -> SUBSET Ends]
         /\ leaked' \subseteq Ends
BY DEF Abandon, TypeOK

LEMMA StartTypes ==
  ASSUME TypeOK, PlacesOK, NEW w \in Workers,
         \/ StartFails(w) \/ OpenErr(w) \/ CompilerForkFails(w) \/ SpawnCompiler(w)
         \/ CloseErrWrite(w) \/ CompilerReaderFails(w)
  PROVE  TypeOK'
<1> USE DEF system, procs, threads, readers, results, world
<1>1. Workload(work)
  BY Constants DEF TypeOK
<1>2. CASE StartFails(w)
  <2>1. PICK v \in {"RE", "CE"} : GiveUp(w, v)
    BY <1>2 DEF StartFails
  <2>2. disturbed' \in [Workers -> SUBSET Disturbances]
    BY <1>2, HappensType, OwnType DEF StartFails, Disturbances
  <2>3. UNCHANGED <<files, content, child, inherited, orphan, daemon, maxrss, leaked>>
    BY <1>2 DEF StartFails
  <2> QED  BY <2>1, <2>2, <2>3, GiveUpTypes DEF TypeOK
<1>3. CASE OpenErr(w)
  <2>1. Open(w, 1) /\ 1 \in 0 .. 2
    BY <1>3 DEF OpenErr
  <2>2. /\ files' \in [Fds -> Ends \union {Free}] /\ content' \in [Pipes -> Texts]
        /\ Numbers(1) \in Seq(Fds)
    BY <2>1, OpenType
  <2> QED  BY <1>3, <2>2 DEF OpenErr, TypeOK
<1>4. CASE CompilerForkFails(w)
  <2>1. GiveUp(w, "CE") /\ UNCHANGED <<content, child, inherited, orphan, daemon, maxrss, leaked>>
    BY <1>4 DEF CompilerForkFails
  <2>2. disturbed' \in [Workers -> SUBSET Disturbances]
    BY <1>4, HappensType, OwnType DEF CompilerForkFails, Disturbances
  <2>3. files' \in [Fds -> Ends \union {Free}]
    BY <1>4, CloseType DEF CompilerForkFails
  <2> QED  BY <2>1, <2>2, <2>3, GiveUpTypes DEF TypeOK
<1>5. CASE SpawnCompiler(w)
  <2>1. PICK fate \in work.compilations[w] :
          /\ Fork(w, fate, work.compiler, {fd[w][1]}, Free, files[fd[w][2]])
          /\ deserved' = [deserved EXCEPT ![w] = IF fate = "compiles" THEN "AC" ELSE "CE"]
    BY <1>5 DEF SpawnCompiler
  <2>2. /\ fate \in Compilations \union Programs /\ work.compiler \in Nat
        /\ files[fd[w][2]] \in Ends \union {Free}
    <3>1. fd[w][2] \in Fds
      BY <1>5 DEF SpawnCompiler, PlacesOK, PlaceOK, Compile
    <3> QED  BY <1>1, <3>1 DEF Workload, TypeOK
  <2>3. /\ child' \in [Workers -> Children \union {NoChild}]
        /\ inherited' \in [Workers -> SUBSET Ends]
        /\ disturbed' \in [Workers -> SUBSET Disturbances]
    BY <2>1, <2>2, ForkType
  <2> QED  BY <1>5, <2>1, <2>3 DEF SpawnCompiler, TypeOK, Verdicts
<1>6. CASE CloseErrWrite(w)
  <2>1. disturbed' \in [Workers -> SUBSET Disturbances]
    BY <1>6, HappensType, OwnType DEF CloseErrWrite, Uses
  <2>2. files' \in [Fds -> Ends \union {Free}]
    BY <1>6, CloseType DEF CloseErrWrite
  <2> QED  BY <1>6, <2>1, <2>2 DEF CloseErrWrite, TypeOK
<1>7. CASE CompilerReaderFails(w)
  <2>1. GiveUp(w, "none") /\ Abandon(w, fd[w][1]) /\ fd[w][1] \in Fds
    BY <1>7 DEF CompilerReaderFails, Abandon, PlacesOK, PlaceOK, Compile
  <2>2. disturbed' \in [Workers -> SUBSET Disturbances]
    BY <1>7, HappensType, OwnType DEF CompilerReaderFails, Disturbances
  <2>3. files' \in [Fds -> Ends \union {Free}]
    BY <1>7, CloseType DEF CompilerReaderFails
  <2>4. /\ orphan' \in [Workers -> SUBSET Ends] /\ daemon' \in [Workers -> SUBSET Ends]
        /\ content' \in [Pipes -> Texts] /\ UNCHANGED maxrss
    BY <1>7, <2>1 DEF CompilerReaderFails, Abandon, TypeOK
  <2> QED  BY <2>1, <2>2, <2>3, <2>4, AbandonTypes, GiveUpTypes
<1> QED  BY <1>2, <1>3, <1>4, <1>5, <1>6, <1>7

LEMMA CompileTypes ==
  ASSUME TypeOK, PlacesOK, NEW w \in Workers,
         JoinCompiler(w) \/ CloseErrAgain(w) \/ PipesFail(w) \/ OpenPipes(w) \/ ForkFails(w)
  PROVE  TypeOK'
<1> USE DEF system, procs, threads, readers, results, world
<1>1. Workload(work)
  BY Constants DEF TypeOK
<1>2. CASE JoinCompiler(w)
  BY <1>2, TextTypes DEF JoinCompiler, TypeOK
<1>3. CASE CloseErrAgain(w)
  <2>1. disturbed' \in [Workers -> SUBSET Disturbances]
    BY <1>3, HappensType, OwnType DEF CloseErrAgain, Uses
  <2>2. files' \in [Fds -> Ends \union {Free}]
    BY <1>3, CloseType DEF CloseErrAgain
  <2> QED  BY <1>3, <2>1, <2>2, NoNumbers DEF CloseErrAgain, TypeOK, Verdicts
<1>4. CASE PipesFail(w)
  <2>1. GiveUp(w, "RE") /\ UNCHANGED <<child, inherited, orphan, daemon, maxrss>>
    BY <1>4 DEF PipesFail
  <2>2. disturbed' \in [Workers -> SUBSET Disturbances]
    BY <1>4, HappensType, OwnType DEF PipesFail, Disturbances
  <2>3. PICK k \in 0 .. 2 : Open(w, k) /\ leaked' = leaked \union {NewEnd(w, i) : i \in 1 .. 2 * k}
    BY <1>4 DEF PipesFail
  <2>4. /\ files' \in [Fds -> Ends \union {Free}] /\ content' \in [Pipes -> Texts]
        /\ \A i \in 1 .. 2 * k : NewEnd(w, i) \in Ends
    BY <2>3, OpenType
  <2>5. leaked' \subseteq Ends
    BY <2>3, <2>4 DEF TypeOK
  <2> QED  BY <2>1, <2>2, <2>4, <2>5, GiveUpTypes DEF TypeOK
<1>5. CASE OpenPipes(w)
  <2>1. Open(w, 2) /\ 2 \in 0 .. 2
    BY <1>5 DEF OpenPipes
  <2>2. /\ files' \in [Fds -> Ends \union {Free}] /\ content' \in [Pipes -> Texts]
        /\ Numbers(2) \in Seq(Fds)
    BY <2>1, OpenType
  <2> QED  BY <1>5, <2>2 DEF OpenPipes, TypeOK
<1>6. CASE ForkFails(w)
  <2>1. GiveUp(w, "RE") /\ UNCHANGED <<content, child, inherited, orphan, daemon, maxrss, leaked>>
    BY <1>6 DEF ForkFails
  <2>2. disturbed' \in [Workers -> SUBSET Disturbances]
    BY <1>6, HappensType, OwnType DEF ForkFails, Disturbances
  <2>3. files' \in [Fds -> Ends \union {Free}]
    BY <1>6, CloseType DEF ForkFails
  <2> QED  BY <2>1, <2>2, <2>3, GiveUpTypes DEF TypeOK
<1> QED  BY <1>2, <1>3, <1>4, <1>5, <1>6

LEMMA RunTypes ==
  ASSUME TypeOK, PlacesOK, NEW w \in Workers,
         \/ SpawnProgram(w) \/ CloseChildEnds(w) \/ Feed(w) \/ ReaderFails(w)
         \/ SecondReaderFails(w) \/ JoinReader(w) \/ Judge(w)
  PROVE  TypeOK'
<1> USE DEF system, procs, threads, readers, results, world
<1>1. Workload(work)
  BY Constants DEF TypeOK
<1>2. pc[w] \in Run => /\ fd[w] \in [1 .. 4 -> Fds]
                       /\ \A i \in 1 .. 4 : files[fd[w][i]] \in Ends \union {Free}
  BY DEF PlacesOK, PlaceOK, TypeOK
<1>3. CASE SpawnProgram(w)
  <2>1. PICK fate \in work.programs[w], mem \in work.memory[w] :
          /\ Fork(w, fate, mem, {fd[w][2], fd[w][3]}, files[fd[w][1]], files[fd[w][4]])
          /\ deserved' = [deserved EXCEPT ![w] = IF @ = "AC" THEN Deserves(w, fate, mem) ELSE @]
    BY <1>3 DEF SpawnProgram
  <2>2. /\ fate \in Programs /\ mem \in Nat
        /\ files[fd[w][1]] \in Ends \union {Free} /\ files[fd[w][4]] \in Ends \union {Free}
    BY <1>1, <1>2, <1>3 DEF Workload, SpawnProgram, Run
  <2>3. /\ child' \in [Workers -> Children \union {NoChild}]
        /\ inherited' \in [Workers -> SUBSET Ends]
        /\ disturbed' \in [Workers -> SUBSET Disturbances]
    BY <2>1, <2>2, ForkType
  <2>4. Deserves(w, fate, mem) \in Verdicts
    BY <2>2 DEF Deserves, Programs, Verdicts
  <2> QED  BY <1>3, <2>1, <2>3, <2>4 DEF SpawnProgram, TypeOK
<1>4. CASE CloseChildEnds(w)
  <2>1. disturbed' \in [Workers -> SUBSET Disturbances]
    BY <1>4, HappensType, OwnType DEF CloseChildEnds, Uses
  <2>2. files' \in [Fds -> Ends \union {Free}]
    BY <1>4, CloseType DEF CloseChildEnds
  <2> QED  BY <1>4, <2>1, <2>2 DEF CloseChildEnds, TypeOK
<1>5. ASSUME WriteInput(w), pc[w] = "feed"
      PROVE  files' \in [Fds -> Ends \union {Free}] /\ content' \in [Pipes -> Texts]
  <2>1. files' \in [Fds -> Ends \union {Free}]
    BY <1>5, CloseType DEF WriteInput
  <2>2. content' \in [Pipes -> Texts]
    <3>1. Text(w, "input") \in Texts /\ \A a, b \in Texts : Joined(a, b) \in Texts
      BY TextTypes
    <3> QED  BY <1>5, <3>1 DEF WriteInput, TypeOK
  <2> QED  BY <2>1, <2>2
<1>8. CASE Feed(w)
  <2>1. disturbed' \in [Workers -> SUBSET Disturbances]
    BY <1>8, HappensType, OwnType DEF Feed, Uses
  <2>2. files' \in [Fds -> Ends \union {Free}] /\ content' \in [Pipes -> Texts]
    BY <1>5, <1>8 DEF Feed
  <2> QED  BY <1>8, <2>1, <2>2 DEF Feed, TypeOK
<1>9. CASE ReaderFails(w)
  <2>1. GiveUp(w, "none") /\ Abandon(w, fd[w][3]) /\ fd[w][3] \in Fds
    BY <1>2, <1>9 DEF ReaderFails, Abandon, Run
  <2>2. disturbed' \in [Workers -> SUBSET Disturbances]
    BY <1>9, HappensType, OwnType DEF ReaderFails, Disturbances
  <2>3. files' \in [Fds -> Ends \union {Free}] /\ content' \in [Pipes -> Texts]
    BY <1>5, <1>9 DEF ReaderFails
  <2>4. /\ orphan' \in [Workers -> SUBSET Ends] /\ daemon' \in [Workers -> SUBSET Ends]
        /\ UNCHANGED maxrss
    BY <1>9, <2>1 DEF ReaderFails, Abandon, TypeOK
  <2> QED  BY <2>1, <2>2, <2>3, <2>4, AbandonTypes, GiveUpTypes
<1>10. CASE SecondReaderFails(w)
  BY <1>10 DEF SecondReaderFails, TypeOK
<1>6. CASE JoinReader(w)
  BY <1>6 DEF JoinReader, TypeOK
<1>7. CASE Judge(w)
  <2>1. disturbed' \in [Workers -> SUBSET Disturbances]
    BY <1>7, HappensType, OwnType DEF Judge, Uses
  <2>2. files' \in [Fds -> Ends \union {Free}]
    BY <1>7, CloseType DEF Judge
  <2>3. CaseVerdict(w) \in Verdicts
    BY DEF CaseVerdict, StatusVerdict, Verdicts
  <2>4. verdict' \in [Workers -> Verdicts]
    BY <1>7, <2>3 DEF Judge, Aggregated, TypeOK
  <2>5. case' \in [Workers -> 1 .. work.cases]
    <3>1. \/ case' = case
          \/ case[w] < work.cases /\ case' = [case EXCEPT ![w] = @ + 1]
      BY <1>7 DEF Judge
    <3>2. case \in [Workers -> 1 .. work.cases] /\ work.cases \in Nat
      BY <1>1 DEF TypeOK, Workload
    <3>3. case[w] < work.cases => case[w] + 1 \in 1 .. work.cases
      BY <3>2
    <3> QED  BY <3>1, <3>2, <3>3
  <2> QED  BY <1>7, <2>1, <2>2, <2>4, <2>5, TextTypes, NoNumbers DEF Judge, TypeOK
<1> QED  BY <1>3, <1>4, <1>6, <1>7, <1>8, <1>9, <1>10

LEMMA ReaderTypes ==
  ASSUME TypeOK, PlacesOK, NEW w \in Workers, ReaderStep(w)
  PROVE  TypeOK'
<1> USE DEF system, procs, threads, readers, results, world
<1>1. CASE Read(w)
  <2>1. Drained(w) \in Fds
    BY <1>1 DEF Read, Drained, PlacesOK, PlaceOK, Reading, Compile, Run
  <2>2. files[Drained(w)] \in Ends \union {Free}
    BY <2>1 DEF TypeOK
  <2>3. /\ on' \in [Workers -> Pipes \union {Free}]
        /\ reader' \in [Workers -> {"none", "read", "blocked", "stop", "end"}]
    BY <1>1, <2>2 DEF Read, TypeOK, Ends
  <2>4. disturbed' \in [Workers -> SUBSET Disturbances]
    <3>1. UNCHANGED disturbed \/ Uses(w, {Drained(w)})
      BY <1>1 DEF Read
    <3> QED  BY <3>1, HappensType, OwnType DEF Uses, TypeOK
  <2> QED  BY <1>1, <2>3, <2>4 DEF Read, TypeOK
<1>2. CASE ReadSome(w)
  <2>1. on[w] \in Pipes
    BY <1>2 DEF ReadSome, PlacesOK, PlaceOK, TypeOK
  <2>2. sink' \in [Workers -> Texts] /\ content' \in [Pipes -> Texts]
    <3>1. Nothing \in Texts /\ \A a, b \in Texts : Joined(a, b) \in Texts
      BY TextTypes
    <3> QED  BY <1>2, <2>1, <3>1 DEF ReadSome, TypeOK
  <2> QED  BY <1>2, <2>2 DEF ReadSome, TypeOK
<1>3. CASE ReadEof(w)
  BY <1>3 DEF ReadEof, TypeOK
<1>4. CASE ReaderEnds(w)
  <2>1. \/ UNCHANGED <<files, disturbed>>
        \/ Close({fd[w][1]}) /\ Uses(w, {fd[w][1]})
    BY <1>4 DEF ReaderEnds
  <2>2. /\ disturbed' \in [Workers -> SUBSET Disturbances]
        /\ files' \in [Fds -> Ends \union {Free}]
    BY <2>1, HappensType, OwnType, CloseType DEF Uses, TypeOK
  <2> QED  BY <1>4, <2>2 DEF ReaderEnds, TypeOK
<1> QED  BY <1>1, <1>2, <1>3, <1>4 DEF ReaderStep

LEMMA LargerIs ==
  \A a, b \in Nat : Larger(a, b) \in Nat /\ a <= Larger(a, b) /\ b <= Larger(a, b)
BY DEF Larger

(* A child that ends is the same, but dead.                                 *)
LEMMA Buried ==
  ASSUME TypeOK, NEW w \in Workers, child[w] # NoChild, Dies(w)
  PROVE  /\ child'[w] # NoChild /\ child'[w] \in Children /\ ~child'[w].alive
         /\ child'[w].fate = child[w].fate /\ child'[w].mem = child[w].mem
         /\ child'[w].in = child[w].in /\ child'[w].out = child[w].out
         /\ inherited'[w] = {}
         /\ daemon'[w] \subseteq daemon[w] \union inherited[w]
         /\ child' \in [Workers -> Children \union {NoChild}]
         /\ inherited' \in [Workers -> SUBSET Ends]
         /\ daemon' \in [Workers -> SUBSET Ends]
         /\ \A v \in Workers \ {w} : /\ child'[v] = child[v] /\ inherited'[v] = inherited[v]
                                      /\ daemon'[v] = daemon[v]
<1>1. /\ child[w] \in Children
      /\ child' = [child EXCEPT ![w] = [child[w] EXCEPT !.alive = FALSE]]
  BY DEF TypeOK, Dies
<1>2. ASSUME NEW c \in Children, NEW d, d = [c EXCEPT !.alive = FALSE]
      PROVE  /\ d \in Children /\ ~d.alive /\ d.fate = c.fate /\ d.mem = c.mem
             /\ d.in = c.in /\ d.out = c.out
  BY <1>2 DEF Children
<1>3. child'[w] = [child[w] EXCEPT !.alive = FALSE]
  BY <1>1 DEF TypeOK
<1>4. child' \in [Workers -> Children \union {NoChild}]
  BY <1>1, <1>2 DEF TypeOK
<1>5. inherited' = [inherited EXCEPT ![w] = {}]
  BY DEF Dies
<1>6. daemon' = daemon \/ daemon' = [daemon EXCEPT ![w] = @ \union inherited[w]]
  BY DEF Dies, Leaves
<1>7. \A v \in Workers \ {w} : child'[v] = child[v]
  BY <1>1 DEF TypeOK
<1>8. /\ inherited'[w] = {} /\ inherited' \in [Workers -> SUBSET Ends]
      /\ \A v \in Workers \ {w} : inherited'[v] = inherited[v]
  BY <1>5 DEF TypeOK
<1>9. /\ daemon'[w] \subseteq daemon[w] \union inherited[w] /\ daemon' \in [Workers -> SUBSET Ends]
      /\ \A v \in Workers \ {w} : daemon'[v] = daemon[v]
  <2>1. /\ daemon \in [Workers -> SUBSET Ends] /\ inherited[w] \in SUBSET Ends
        /\ daemon[w] \in SUBSET Ends
    BY DEF TypeOK
  <2>2. CASE daemon' = daemon
    BY <2>1, <2>2
  <2>3. CASE daemon' = [daemon EXCEPT ![w] = @ \union inherited[w]]
    BY <2>1, <2>3
  <2> QED  BY <1>6, <2>2, <2>3
<1>10. /\ child'[w] # NoChild /\ child'[w] \in Children /\ ~child'[w].alive
       /\ child'[w].fate = child[w].fate /\ child'[w].mem = child[w].mem
       /\ child'[w].in = child[w].in /\ child'[w].out = child[w].out
  BY <1>1, <1>2, <1>3, Constants
<1> QED  BY <1>4, <1>7, <1>8, <1>9, <1>10

LEMMA ProcessTypes ==
  ASSUME TypeOK, PlacesOK, NEW w \in Workers,
         Reap(w) \/ Kill(w) \/ NextSubmission(w) \/ ChildStep(w) \/ DaemonEnds(w)
  PROVE  TypeOK'
<1> USE DEF system, procs, threads, readers, results, world
<1>1. Joining(w) \in {"joinCompiler", "joinReader"}
  BY DEF Joining
<1>2. CASE Reap(w)
  <2>1. child[w] \in Children
    <3>1. pc[w] \in {"compiling", "running"} /\ PlaceOK(w)
      BY <1>2 DEF Reap, PlacesOK
    <3> QED  BY <3>1 DEF PlaceOK, NoChildYet, TypeOK
  <2>2. maxrss' \in Nat
    <3>1. maxrss' = Larger(maxrss, child[w].mem) /\ child[w].mem \in Nat /\ maxrss \in Nat
      BY <1>2, <2>1 DEF Reap, TypeOK, Children
    <3> QED  BY <3>1, LargerIs
  <2> QED  BY <1>1, <1>2, <2>2 DEF Reap, TypeOK
<1>3. CASE Kill(w)
  <2>1. child[w] # NoChild /\ child[w] \in Children
    <3>1. pc[w] \in {"compiling", "running"} /\ PlaceOK(w)
      BY <1>3 DEF Kill, PlacesOK
    <3> QED  BY <3>1 DEF PlaceOK, NoChildYet, TypeOK
  <2>2. /\ child' \in [Workers -> Children \union {NoChild}]
        /\ inherited' \in [Workers -> SUBSET Ends] /\ daemon' \in [Workers -> SUBSET Ends]
    BY <1>3, <2>1, Buried DEF Kill
  <2>3. orphan' \in [Workers -> SUBSET Ends]
    BY <1>3 DEF Kill, TypeOK
  <2>4. maxrss' \in Nat
    <3>1. PICK m \in Nat : maxrss' = Larger(maxrss, m)
      BY <1>3, <2>1 DEF Kill, Children
    <3> QED  BY <3>1, LargerIs DEF TypeOK
  <2>5. disturbed' \in [Workers -> SUBSET Disturbances]
    BY <1>3, HappensType, OwnType DEF Kill, Disturbances, TypeOK
  <2>6. /\ failures' \in [Workers -> Nat]
        /\ \A v \in Workers : failures'[v] <= work.failures[v]
    <3>1. Workload(work)
      BY Constants DEF TypeOK
    <3>2. failures' = failures \/ (failures[w] > 0 /\ failures' = [failures EXCEPT ![w] = @ - 1])
      BY <1>3 DEF Kill
    <3>3. work.failures \in [Workers -> Nat] /\ failures \in [Workers -> Nat]
      BY <3>1 DEF Workload, TypeOK
    <3>4. CASE failures' = failures
      BY <3>4 DEF TypeOK
    <3>5. CASE failures[w] > 0 /\ failures' = [failures EXCEPT ![w] = @ - 1]
      BY <3>3, <3>5 DEF TypeOK
    <3> QED  BY <3>2, <3>4, <3>5
  <2> QED  BY <1>1, <1>3, <2>2, <2>3, <2>4, <2>5, <2>6 DEF Kill, TypeOK
<1>4. CASE NextSubmission(w)
  <2>1. Workload(work)
    BY Constants DEF TypeOK
  <2>2. 1 \in 1 .. work.cases
    BY <2>1 DEF Workload
  <2>3. left' \in [Workers -> Nat] /\ \A v \in Workers : left'[v] <= work.rounds[v]
    <3>1. /\ work.rounds \in [Workers -> Nat]
          /\ left \in [Workers -> Nat] /\ \A v \in Workers : left[v] <= work.rounds[v]
      BY <2>1 DEF TypeOK, Workload
    <3>2. left[w] > 0 /\ left' = [left EXCEPT ![w] = @ - 1]
      BY <1>4 DEF NextSubmission
    <3> QED  BY <3>1, <3>2
  <2> QED  BY <1>4, <2>2, <2>3 DEF NextSubmission, TypeOK, Verdicts
<1>5. CASE Exit(w)
  <2>1. child[w] # NoChild /\ child[w] \in Children
    BY <1>5 DEF Exit, Alive, TypeOK
  <2>2. /\ child' \in [Workers -> Children \union {NoChild}]
        /\ inherited' \in [Workers -> SUBSET Ends] /\ daemon' \in [Workers -> SUBSET Ends]
    BY <1>5, <2>1, Buried DEF Exit
  <2>3. content' \in [Pipes -> Texts]
    <3>1. Output(w) \in Texts /\ \A a, b \in Texts : Joined(a, b) \in Texts
      BY TextTypes
    <3>2. child[w].out \in Ends \union {Free}
      BY <2>1 DEF Children
    <3> QED  BY <1>5, <3>1, <3>2 DEF Exit, TypeOK, Ends
  <2> QED  BY <1>5, <2>2, <2>3 DEF Exit, TypeOK
<1>6. CASE CpuLimit(w)
  <2>1. child[w] # NoChild
    BY <1>6 DEF CpuLimit, Alive
  <2>2. /\ child' \in [Workers -> Children \union {NoChild}]
        /\ inherited' \in [Workers -> SUBSET Ends] /\ daemon' \in [Workers -> SUBSET Ends]
    BY <1>6, <2>1, Buried DEF CpuLimit
  <2>3. disturbed' \in [Workers -> SUBSET Disturbances]
    BY <1>6, HappensType, OwnType DEF CpuLimit, Disturbances
  <2> QED  BY <1>6, <2>2, <2>3 DEF CpuLimit, TypeOK
<1>7. CASE OrphanEnds(w)
  BY <1>7 DEF OrphanEnds, TypeOK
<1>8. CASE DaemonEnds(w)
  BY <1>8 DEF DaemonEnds, TypeOK
<1> QED  BY <1>2, <1>3, <1>4, <1>5, <1>6, <1>7, <1>8 DEF ChildStep

LEMMA TypeStep ==
  ASSUME TypeOK, PlacesOK, NEW w \in Workers, Step(w)
  PROVE  TypeOK'
BY StartTypes, CompileTypes, RunTypes, ReaderTypes, ProcessTypes DEF Step, WorkerStep

-------------------------------------------------------------------------------
(* A step is its worker's own: it leaves what is the others', but for what  *)
(* has happened to them.                                                    *)
Same(v) == /\ pc'[v] = pc[v] /\ fd'[v] = fd[v] /\ child'[v] = child[v]
           /\ inherited'[v] = inherited[v] /\ orphan'[v] = orphan[v] /\ daemon'[v] = daemon[v]
           /\ reader'[v] = reader[v] /\ on'[v] = on[v] /\ sink'[v] = sink[v]
           /\ killed'[v] = killed[v] /\ verdict'[v] = verdict[v] /\ deserved'[v] = deserved[v]
           /\ disturbed[v] \subseteq disturbed'[v]

LEMMA Frame ==
  ASSUME TypeOK, NEW w \in Workers, Step(w), NEW v \in Workers \ {w}
  PROVE  Same(v)
<1> USE DEF system, procs, threads, readers, results, world
<1>1. CASE StartFails(w) \/ CompilerForkFails(w) \/ PipesFail(w) \/ ForkFails(w)
  <2>1. (\E u : GiveUp(w, u)) /\ (\E x, y, z : Happens(x, y, z)) /\ UNCHANGED procs
    BY <1>1 DEF StartFails, CompilerForkFails, PipesFail, ForkFails
  <2> QED  BY <2>1, HappensType DEF GiveUp, Same, TypeOK
<1>7. CASE CompilerReaderFails(w) \/ ReaderFails(w)
  <2>1. (\E u : GiveUp(w, u)) /\ \E x, y, z : Happens(x, y, z)
    BY <1>7 DEF CompilerReaderFails, ReaderFails, Abandon
  <2>2. /\ child'[v] = child[v] /\ inherited'[v] = inherited[v]
        /\ orphan'[v] = orphan[v] /\ daemon'[v] = daemon[v]
    BY <1>7 DEF CompilerReaderFails, ReaderFails, Abandon, TypeOK
  <2> QED  BY <2>1, <2>2, HappensType DEF GiveUp, Same, TypeOK
<1>2. CASE OpenErr(w) \/ OpenPipes(w) \/ JoinCompiler(w) \/ JoinReader(w) \/ SecondReaderFails(w)
  BY <1>2 DEF OpenErr, OpenPipes, JoinCompiler, JoinReader, SecondReaderFails, Same, TypeOK
<1>3. CASE SpawnCompiler(w) \/ SpawnProgram(w)
  <2>1. ASSUME NEW f, NEW m, NEW c, NEW i, NEW o, Fork(w, f, m, c, i, o)
        PROVE  /\ child'[v] = child[v] /\ inherited'[v] = inherited[v]
               /\ disturbed[v] \subseteq disturbed'[v]
    <3>1. child'[v] = child[v] /\ inherited'[v] = inherited[v]
      BY <2>1 DEF Fork, TypeOK
    <3>2. PICK x, y : Happens(x, y, NotHere)
      BY <2>1 DEF Fork
    <3> QED  BY <3>1, <3>2, HappensType
  <2>2. CASE SpawnCompiler(w)
    <3>1. PICK f \in work.compilations[w] :
            Fork(w, f, work.compiler, {fd[w][1]}, Free, files[fd[w][2]])
      BY <2>2 DEF SpawnCompiler
    <3>2. deserved'[v] = deserved[v]
      BY <2>2 DEF SpawnCompiler, TypeOK
    <3> QED  BY <2>1, <2>2, <3>1, <3>2 DEF SpawnCompiler, Same, TypeOK
  <2>3. CASE SpawnProgram(w)
    <3>1. PICK f \in work.programs[w], m \in work.memory[w] :
            Fork(w, f, m, {fd[w][2], fd[w][3]}, files[fd[w][1]], files[fd[w][4]])
      BY <2>3 DEF SpawnProgram
    <3>2. deserved'[v] = deserved[v]
      BY <2>3 DEF SpawnProgram, TypeOK
    <3> QED  BY <2>1, <2>3, <3>1, <3>2 DEF SpawnProgram, Same, TypeOK
  <2> QED  BY <1>3, <2>2, <2>3
<1>4. CASE CloseErrWrite(w) \/ CloseErrAgain(w) \/ CloseChildEnds(w) \/ Feed(w) \/ Judge(w)
  <2>1. \E x, y, z : Happens(x, y, z)
    BY <1>4 DEF CloseErrWrite, CloseErrAgain, CloseChildEnds, Feed, Judge, Uses
  <2>2. disturbed[v] \subseteq disturbed'[v]
    BY <2>1, HappensType
  <2> QED
    BY <1>4, <2>2
    DEF CloseErrWrite, CloseErrAgain, CloseChildEnds, Feed, Judge, Same, TypeOK
<1>5. CASE ReaderStep(w)
  <2>1. UNCHANGED disturbed \/ \E x, y, z : Happens(x, y, z)
    BY <1>5 DEF ReaderStep, Read, ReadSome, ReadEof, ReaderEnds, Uses
  <2>2. disturbed[v] \subseteq disturbed'[v]
    BY <2>1, HappensType
  <2> QED
    BY <1>5, <2>2 DEF ReaderStep, Read, ReadSome, ReadEof, ReaderEnds, Same, TypeOK
<1>6. CASE Reap(w) \/ NextSubmission(w) \/ OrphanEnds(w) \/ DaemonEnds(w)
  BY <1>6 DEF Reap, NextSubmission, OrphanEnds, DaemonEnds, Same, TypeOK
<1>8. CASE Kill(w) \/ Exit(w) \/ CpuLimit(w)
  <2>1. Dies(w)
    BY <1>8 DEF Kill, Exit, CpuLimit
  <2>2. /\ child'[v] = child[v] /\ inherited'[v] = inherited[v] /\ daemon'[v] = daemon[v]
    BY <2>1 DEF Dies, Leaves, TypeOK
  <2>3. UNCHANGED disturbed \/ \E x, y, z : Happens(x, y, z)
    BY <1>8 DEF Kill, Exit, CpuLimit
  <2>4. disturbed[v] \subseteq disturbed'[v]
    BY <2>3, HappensType
  <2> QED  BY <1>8, <2>2, <2>4 DEF Kill, Exit, CpuLimit, Same, TypeOK
<1> QED
  BY <1>1, <1>2, <1>3, <1>4, <1>5, <1>6, <1>7, <1>8 DEF Step, WorkerStep, ChildStep

(* The children of the two forks.                                           *)
LEMMA Spawned ==
  ASSUME TypeOK, PlacesOK, NEW w \in Workers
  PROVE  /\ SpawnCompiler(w) =>
              /\ child'[w] \in Children /\ child'[w].alive
              /\ child'[w].fate \in Compilations
              /\ child'[w].in = Free /\ child'[w].out = files[fd[w][2]]
              /\ inherited'[w] = {files[n] : n \in Fds \ {fd[w][1]}} \ {Free}
              /\ deserved'[w] = IF child'[w].fate = "compiles" THEN "AC" ELSE "CE"
         /\ SpawnProgram(w) =>
              /\ child'[w] \in Children /\ child'[w].alive
              /\ child'[w].fate \in Programs
              /\ child'[w].in = files[fd[w][1]] /\ child'[w].out = files[fd[w][4]]
              /\ inherited'[w] = {files[n] : n \in Fds \ {fd[w][2], fd[w][3]}} \ {Free}
              /\ deserved[w] = "AC" => deserved'[w] = Deserves(w, child'[w].fate, child'[w].mem)
<1>0. Workload(work) /\ PlaceOK(w)
  BY Constants DEF TypeOK, PlacesOK
<1>1. ASSUME SpawnCompiler(w)
      PROVE  /\ child'[w] \in Children /\ child'[w].alive
             /\ child'[w].fate \in Compilations
             /\ child'[w].in = Free /\ child'[w].out = files[fd[w][2]]
             /\ inherited'[w] = {files[n] : n \in Fds \ {fd[w][1]}} \ {Free}
             /\ deserved'[w] = IF child'[w].fate = "compiles" THEN "AC" ELSE "CE"
  <2>1. PICK f \in work.compilations[w] :
          /\ Fork(w, f, work.compiler, {fd[w][1]}, Free, files[fd[w][2]])
          /\ deserved' = [deserved EXCEPT ![w] = IF f = "compiles" THEN "AC" ELSE "CE"]
    BY <1>1 DEF SpawnCompiler
  <2>2. f \in Compilations /\ files[fd[w][2]] \in Ends \union {Free} /\ work.compiler \in Nat
    BY <1>0, <1>1 DEF Workload, SpawnCompiler, PlaceOK, Compile, TypeOK
  <2>3. child'[w] = [fate |-> f, mem |-> work.compiler,
                     in |-> Free, out |-> files[fd[w][2]], alive |-> TRUE]
    BY <2>1 DEF Fork, TypeOK
  <2>4. inherited'[w] = {files[n] : n \in Fds \ {fd[w][1]}} \ {Free}
    BY <2>1 DEF Fork, TypeOK
  <2>5. deserved'[w] = IF f = "compiles" THEN "AC" ELSE "CE"
    BY <2>1 DEF TypeOK
  <2> QED  BY <2>2, <2>3, <2>4, <2>5 DEF Children
<1>2. ASSUME SpawnProgram(w)
      PROVE  /\ child'[w] \in Children /\ child'[w].alive
             /\ child'[w].fate \in Programs
             /\ child'[w].in = files[fd[w][1]] /\ child'[w].out = files[fd[w][4]]
             /\ inherited'[w] = {files[n] : n \in Fds \ {fd[w][2], fd[w][3]}} \ {Free}
             /\ deserved[w] = "AC" => deserved'[w] = Deserves(w, child'[w].fate, child'[w].mem)
  <2>1. PICK f \in work.programs[w], m \in work.memory[w] :
          /\ Fork(w, f, m, {fd[w][2], fd[w][3]}, files[fd[w][1]], files[fd[w][4]])
          /\ deserved' = [deserved EXCEPT ![w] = IF @ = "AC" THEN Deserves(w, f, m) ELSE @]
    BY <1>2 DEF SpawnProgram
  <2>2. /\ f \in Programs /\ m \in Nat
        /\ files[fd[w][1]] \in Ends \union {Free} /\ files[fd[w][4]] \in Ends \union {Free}
    BY <1>0, <1>2 DEF Workload, SpawnProgram, PlaceOK, Run, TypeOK
  <2>3. child'[w] = [fate |-> f, mem |-> m,
                     in |-> files[fd[w][1]], out |-> files[fd[w][4]], alive |-> TRUE]
    BY <2>1 DEF Fork, TypeOK
  <2>4. inherited'[w] = {files[n] : n \in Fds \ {fd[w][2], fd[w][3]}} \ {Free}
    BY <2>1 DEF Fork, TypeOK
  <2>5. deserved[w] = "AC" => deserved'[w] = Deserves(w, f, m)
    BY <2>1 DEF TypeOK
  <2> QED  BY <2>2, <2>3, <2>4, <2>5 DEF Children
<1> QED  BY <1>1, <1>2

(* Each step takes its worker to a place where its locals are as they       *)
(* should.                                                                  *)
LEMMA PlaceStep ==
  ASSUME TypeOK, PlacesOK, NEW w \in Workers, Step(w)
  PROVE  PlaceOK(w)'
<1> USE DEF system, procs, threads, readers, results, world
<1>0. PlaceOK(w)
  BY DEF PlacesOK
<1> USE DEF Compile, Run, Reading, Reaped, NoChildYet
<1>1. CASE StartFails(w) \/ CompilerForkFails(w) \/ PipesFail(w) \/ ForkFails(w)
  <2>1. /\ \E u : GiveUp(w, u)
        /\ pc[w] \in {"start", "spawn", "open", "fork"} /\ UNCHANGED child
    BY <1>1 DEF StartFails, CompilerForkFails, PipesFail, ForkFails
  <2> QED  BY <1>0, <2>1 DEF GiveUp, PlaceOK, TypeOK
<1>12. CASE CompilerReaderFails(w) \/ ReaderFails(w)
  <2>1. (\E u : GiveUp(w, u)) /\ pc[w] \in {"unshare", "feed"} /\ child'[w] = NoChild
    BY <1>12 DEF CompilerReaderFails, ReaderFails, Abandon, TypeOK
  <2> QED  BY <1>0, <2>1 DEF GiveUp, PlaceOK, TypeOK
<1>13. CASE SecondReaderFails(w)
  BY <1>0, <1>13 DEF SecondReaderFails, PlaceOK
<1>2. CASE OpenErr(w)
  <2>1. Open(w, 1)
    BY <1>2 DEF OpenErr
  <2>2. /\ Numbers(1) \in [1 .. 2 * 1 -> Fds]
        /\ \A i, j \in 1 .. 2 * 1 : Numbers(1)[i] = Numbers(1)[j] => i = j
    BY <2>1, OpenTable
  <2>3. Numbers(1) \in [1 .. 2 -> Fds] /\ Numbers(1)[1] # Numbers(1)[2]
    BY <2>2
  <2> QED  BY <1>0, <1>2, <2>3 DEF OpenErr, PlaceOK, TypeOK
<1>3. CASE OpenPipes(w)
  <2>1. Open(w, 2)
    BY <1>3 DEF OpenPipes
  <2>2. /\ Numbers(2) \in [1 .. 2 * 2 -> Fds]
        /\ \A i, j \in 1 .. 2 * 2 : Numbers(2)[i] = Numbers(2)[j] => i = j
    BY <2>1, OpenTable
  <2>3. /\ Numbers(2) \in [1 .. 4 -> Fds]
        /\ \A i, j \in 1 .. 4 : Numbers(2)[i] = Numbers(2)[j] => i = j
    BY <2>2
  <2> QED  BY <1>0, <1>3, <2>3 DEF OpenPipes, PlaceOK, TypeOK
<1>4. CASE SpawnCompiler(w) \/ SpawnProgram(w)
  <2>1. CASE SpawnCompiler(w)
    <3>1. child'[w] # NoChild /\ child'[w].alive /\ child'[w].fate \in Compilations
      BY <2>1, Spawned, Constants
    <3>2. pc'[w] = "unshare" /\ UNCHANGED <<fd, killed, readers, verdict>>
      BY <2>1 DEF SpawnCompiler, TypeOK
    <3> QED  BY <1>0, <2>1, <3>1, <3>2 DEF SpawnCompiler, PlaceOK
  <2>2. CASE SpawnProgram(w)
    <3>1. child'[w] # NoChild /\ child'[w].alive /\ child'[w].fate \in Programs
      BY <2>2, Spawned, Constants
    <3>2. pc'[w] = "ends" /\ UNCHANGED <<fd, killed, readers, verdict>>
      BY <2>2 DEF SpawnProgram, TypeOK
    <3> QED  BY <1>0, <2>2, <3>1, <3>2 DEF SpawnProgram, PlaceOK
  <2> QED  BY <1>4, <2>1, <2>2
<1>5. CASE CloseErrWrite(w) \/ JoinCompiler(w) \/ CloseErrAgain(w)
  BY <1>0, <1>5 DEF CloseErrWrite, JoinCompiler, CloseErrAgain, PlaceOK, TypeOK
<1>6. CASE CloseChildEnds(w) \/ Feed(w) \/ JoinReader(w)
  BY <1>0, <1>6 DEF CloseChildEnds, Feed, JoinReader, PlaceOK, TypeOK
<1>7. CASE Judge(w)
  BY <1>0, <1>7 DEF Judge, PlaceOK, TypeOK
<1>8. CASE ReaderStep(w)
  <2>1. Read(w) => files[Drained(w)] \in Ends \union {Free}
    BY <1>0 DEF Read, Drained, PlaceOK, TypeOK
  <2>2. CASE Read(w)
    <3>1. UNCHANGED <<pc, fd, child, killed, verdict, case, sink>> /\ reader[w] = "read"
      BY <2>2 DEF Read
    <3>2. \/ reader'[w] = "stop" /\ on'[w] = on[w]
          \/ reader'[w] = "blocked" /\ on'[w] \in Pipes
      BY <2>1, <2>2 DEF Read, TypeOK, Ends
    <3> QED  BY <1>0, <3>1, <3>2, Constants DEF PlaceOK
  <2>3. CASE ReadSome(w) \/ ReadEof(w)
    <3>1. UNCHANGED <<pc, fd, child, killed, verdict, case>> /\ reader[w] = "blocked"
      BY <2>3 DEF ReadSome, ReadEof
    <3>2. reader'[w] \in {"read", "stop"} /\ on'[w] = Free
      BY <2>3 DEF ReadSome, ReadEof, TypeOK
    <3> QED  BY <1>0, <2>3, <3>1, <3>2, Constants DEF PlaceOK
  <2>4. CASE ReaderEnds(w)
    <3>1. UNCHANGED <<pc, fd, child, killed, verdict, case, sink, on>> /\ reader[w] = "stop"
      BY <2>4 DEF ReaderEnds
    <3>2. reader'[w] = "end"
      BY <2>4 DEF ReaderEnds, TypeOK
    <3> QED  BY <1>0, <3>1, <3>2 DEF PlaceOK
  <2> QED  BY <1>8, <2>2, <2>3, <2>4 DEF ReaderStep
<1>9. CASE Reap(w) \/ Kill(w)
  <2>1. child[w] # NoChild /\ child[w] \in Children
    BY <1>0, <1>9 DEF Reap, Kill, PlaceOK, TypeOK
  <2>2. pc'[w] = IF pc[w] = "compiling" THEN "joinCompiler" ELSE "joinReader"
    BY <1>9 DEF Reap, Kill, Joining, TypeOK
  <2>3. child'[w] # NoChild /\ ~child'[w].alive /\ child'[w].fate = child[w].fate
    <3>1. CASE Reap(w)
      BY <2>1, <3>1 DEF Reap
    <3>2. CASE Kill(w)
      BY <2>1, <3>2, Buried DEF Kill
    <3> QED  BY <1>9, <3>1, <3>2
  <2>4. UNCHANGED <<fd, readers, verdict>> /\ pc[w] \in {"compiling", "running"}
    BY <1>9 DEF Reap, Kill
  <2> QED  BY <1>0, <2>2, <2>3, <2>4 DEF PlaceOK
<1>10. CASE Exit(w) \/ CpuLimit(w)
  <2>1. child[w] # NoChild
    BY <1>10 DEF Exit, CpuLimit, Alive
  <2>2. child'[w] # NoChild /\ ~child'[w].alive /\ child'[w].fate = child[w].fate
    BY <1>10, <2>1, Buried DEF Exit, CpuLimit
  <2>3. UNCHANGED <<pc, fd, killed, readers, verdict>>
    BY <1>10 DEF Exit, CpuLimit
  <2> QED  BY <1>0, <2>1, <2>2, <2>3 DEF PlaceOK
<1>11. CASE NextSubmission(w) \/ OrphanEnds(w) \/ DaemonEnds(w)
  BY <1>0, <1>11 DEF NextSubmission, OrphanEnds, DaemonEnds, PlaceOK, TypeOK
<1> QED
  BY <1>1, <1>2, <1>3, <1>4, <1>5, <1>6, <1>7, <1>8, <1>9, <1>10, <1>11, <1>12, <1>13
  DEF Step, WorkerStep, ChildStep


LEMMA PlacesStep ==
  ASSUME TypeOK, PlacesOK, NEW w \in Workers, Step(w)
  PROVE  PlacesOK'
<1> SUFFICES ASSUME NEW v \in Workers PROVE PlaceOK(v)'
  BY DEF PlacesOK
<1>1. CASE v = w
  BY <1>1, PlaceStep
<1>2. CASE v # w
  <2>1. Same(v)
    BY <1>2, Frame
  <2>2. PlaceOK(v)
    BY DEF PlacesOK
  <2> QED  BY <2>1, <2>2 DEF Same, PlaceOK
<1> QED  BY <1>1, <1>2

-------------------------------------------------------------------------------
(* The table: a step opens new ends of its worker's, closes numbers, or     *)
(* leaves it alone.                                                         *)
LEMMA Fresh ==
  ASSUME NEW w \in Workers, NEW k \in 0 .. 2, Open(w, k)
  PROVE  /\ \A i \in 1 .. 2 * k : NewEnd(w, i) \notin OpenEnds \union leaked
         /\ \A i, j \in 1 .. 2 * k : NewEnd(w, i) = NewEnd(w, j) => i = j
         /\ \A i \in 1 .. 2 * k : \E a \in UnusedPipes(w) : \E s \in {"r", "w"} :
               NewEnd(w, i) = End(<<w, a>>, s)
<1>1. CASE k = 0
  BY <1>1
<1>2. CASE k = 1
  <2>1. k \in 1 .. 2 /\ k <= Cardinality(UnusedPipes(w))
    BY <1>2 DEF Open
  <2>2. PICK a \in 1 .. MaxPipes :
           /\ a \in UnusedPipes(w)
           /\ NewEnd(w, 1) = End(<<w, a>>, "r") /\ NewEnd(w, 2) = End(<<w, a>>, "w")
    BY <2>1, NewEnds
  <2>3. \A i \in 1 .. 2 * k : i \in {1, 2}
    BY <1>2
  <2>4. NewEnd(w, 1) # NewEnd(w, 2)
    BY <2>2 DEF End
  <2>5. \A s \in {"r", "w"} : End(<<w, a>>, s) \notin OpenEnds \union leaked
    BY <2>2 DEF UnusedPipes
  <2>6. \A i \in 1 .. 2 * k : \E s \in {"r", "w"} : NewEnd(w, i) = End(<<w, a>>, s)
    BY <2>2, <2>3
  <2> QED  BY <2>2, <2>3, <2>4, <2>5, <2>6
<1>3. CASE k = 2
  <2>1. k \in 1 .. 2 /\ k <= Cardinality(UnusedPipes(w))
    BY <1>3 DEF Open
  <2>2. PICK a, b \in 1 .. MaxPipes :
           /\ a \in UnusedPipes(w) /\ b \in UnusedPipes(w) /\ a # b
           /\ NewEnd(w, 1) = End(<<w, a>>, "r") /\ NewEnd(w, 2) = End(<<w, a>>, "w")
           /\ NewEnd(w, 3) = End(<<w, b>>, "r") /\ NewEnd(w, 4) = End(<<w, b>>, "w")
    BY <1>3, <2>1, NewEnds
  <2>3. \A i \in 1 .. 2 * k : i \in {1, 2, 3, 4}
    BY <1>3
  <2>4. \A i, j \in {1, 2, 3, 4} : NewEnd(w, i) = NewEnd(w, j) => i = j
    BY <2>2 DEF End
  <2>5. \A s \in {"r", "w"} : /\ End(<<w, a>>, s) \notin OpenEnds \union leaked
                              /\ End(<<w, b>>, s) \notin OpenEnds \union leaked
    BY <2>2 DEF UnusedPipes
  <2>6. \A i \in 1 .. 2 * k : \E c \in {a, b} : \E s \in {"r", "w"} :
           NewEnd(w, i) = End(<<w, c>>, s)
    BY <2>2, <2>3
  <2>7. \A i \in 1 .. 2 * k : NewEnd(w, i) \notin OpenEnds \union leaked
    BY <2>5, <2>6
  <2>8. \A i \in 1 .. 2 * k : \E c \in UnusedPipes(w) : \E s \in {"r", "w"} :
           NewEnd(w, i) = End(<<w, c>>, s)
    BY <2>2, <2>6
  <2>9. \A i, j \in 1 .. 2 * k : NewEnd(w, i) = NewEnd(w, j) => i = j
    BY <2>3, <2>4
  <2> QED  BY <2>7, <2>8, <2>9
<1>4. k = 0 \/ k = 1 \/ k = 2
  OBVIOUS
<1> QED  BY <1>1, <1>2, <1>3, <1>4, Zenon

LEMMA TableMoves ==
  ASSUME TypeOK, NEW w \in Workers, Step(w)
  PROVE  \/ UNCHANGED files
         \/ \E numbers : /\ Close(numbers)
                         /\ \A v \in Foreign(w, {files[n] : n \in numbers}) :
                              "crossed" \in disturbed'[v]
         \/ \E k \in 0 .. 2 : Open(w, k)
<1> USE DEF system, procs, threads, readers, results, world
<1>1. ASSUME NEW numbers, NEW x, NEW y, Happens(Foreign(w, {files[n] : n \in numbers}), x, y)
      PROVE  \A v \in Foreign(w, {files[n] : n \in numbers}) : "crossed" \in disturbed'[v]
  <2>1. \A v \in Foreign(w, {files[n] : n \in numbers}) : v \in Workers
    BY DEF Foreign
  <2> QED  BY <1>1, <2>1, HappensType
<1>2. ASSUME NEW numbers, Close(numbers), Uses(w, numbers)
      PROVE  \A v \in Foreign(w, {files[n] : n \in numbers}) : "crossed" \in disturbed'[v]
  BY <1>1, <1>2 DEF Uses
<1>3. CASE CompilerForkFails(w)
  <2> DEFINE numbers == {fd[w][1], fd[w][2]}
  <2>1. {files[fd[w][i]] : i \in 1 .. 2} = {files[n] : n \in numbers}
    <3>1. 1 .. 2 = {1, 2}
      OBVIOUS
    <3> QED  BY <3>1
  <2>2. Close(numbers) /\ Happens(Foreign(w, {files[n] : n \in numbers}), {}, Only(w, "failed"))
    BY <1>3, <2>1 DEF CompilerForkFails
  <2> HIDE DEF numbers
  <2> QED  BY <1>1, <2>2
<1>4. CASE ForkFails(w)
  <2> DEFINE numbers == {fd[w][i] : i \in 1 .. 4}
  <2>1. {files[fd[w][i]] : i \in 1 .. 4} = {files[n] : n \in numbers}
    OBVIOUS
  <2>2. Close(numbers) /\ Happens(Foreign(w, {files[n] : n \in numbers}), {}, Only(w, "failed"))
    BY <1>4, <2>1 DEF ForkFails
  <2> HIDE DEF numbers
  <2> QED  BY <1>1, <2>2
<1>5. CASE \E numbers : Close(numbers) /\ Uses(w, numbers)
  BY <1>2, <1>5
<1>7. CASE CompilerReaderFails(w) \/ ReaderFails(w)
  <2> DEFINE numbers == {fd[w][2]}
  <2>1. {files[fd[w][2]]} = {files[n] : n \in numbers}
    OBVIOUS
  <2>2. Close(numbers) /\ Happens(Foreign(w, {files[n] : n \in numbers}), {}, Only(w, "failed"))
    BY <1>7, <2>1 DEF CompilerReaderFails, ReaderFails, WriteInput
  <2> HIDE DEF numbers
  <2> QED  BY <1>1, <2>2
<1>6. \/ UNCHANGED files
      \/ \E numbers : Close(numbers) /\ Uses(w, numbers)
      \/ CompilerForkFails(w) \/ ForkFails(w) \/ CompilerReaderFails(w) \/ ReaderFails(w)
      \/ \E k \in 0 .. 2 : Open(w, k)
  <2>1. CASE WorkerStep(w)
    BY <2>1
    DEF WorkerStep, StartFails, OpenErr, SpawnCompiler, CloseErrWrite, JoinCompiler,
        CloseErrAgain, PipesFail, OpenPipes, SpawnProgram, CloseChildEnds, Feed, WriteInput,
        SecondReaderFails, JoinReader, Judge, Reap, Kill, NextSubmission
  <2>2. CASE ReaderStep(w)
    BY <2>2 DEF ReaderStep, Read, ReadSome, ReadEof, ReaderEnds
  <2>3. CASE ChildStep(w) \/ DaemonEnds(w)
    BY <2>3 DEF ChildStep, Exit, CpuLimit, OrphanEnds, DaemonEnds
  <2> QED  BY <2>1, <2>2, <2>3 DEF Step
<1> QED  BY <1>3, <1>4, <1>5, <1>6, <1>7

LEMMA TableStep ==
  ASSUME TypeOK, TableOK, NEW w \in Workers, Step(w)
  PROVE  TableOK'
<1>1. CASE UNCHANGED files
  BY <1>1 DEF TableOK
<1>2. CASE \E numbers : Close(numbers)
  BY <1>2, CloseType DEF TableOK
<1>3. CASE \E k \in 0 .. 2 : Open(w, k)
  <2>1. PICK k \in 0 .. 2 : Open(w, k)
    BY <1>3
  <2> DEFINE new(n) == \E i \in 1 .. 2 * k : n = Numbers(k)[i]
  <2>2. \A n \in Fds : new(n) \/ files'[n] = files[n]
    BY <2>1, OpenTable
  <2>3. \A i \in 1 .. 2 * k : files'[Numbers(k)[i]] = NewEnd(w, i)
    BY <2>1, OpenTable
  <2>4. /\ \A i \in 1 .. 2 * k : NewEnd(w, i) \notin OpenEnds
        /\ \A i, j \in 1 .. 2 * k : NewEnd(w, i) = NewEnd(w, j) => i = j
    BY <2>1, Fresh
  <2>5. \A n \in Fds : files[n] # Free => files[n] \in OpenEnds
    BY DEF OpenEnds, InTable
  <2>6. \A i \in 1 .. 2 * k : NewEnd(w, i) # Free
    BY <2>1, OpenType, Constants
  <2> SUFFICES ASSUME NEW m \in Fds, NEW n \in Fds, files'[m] = files'[n], files'[m] # Free
               PROVE  m = n
    BY DEF TableOK
  <2>7. CASE new(m) /\ new(n)
    BY <2>3, <2>4, <2>7
  <2>8. CASE new(m) /\ ~new(n)
    BY <2>2, <2>3, <2>4, <2>5, <2>6, <2>8
  <2>9. CASE ~new(m) /\ new(n)
    BY <2>2, <2>3, <2>4, <2>5, <2>6, <2>9
  <2>10. CASE ~new(m) /\ ~new(n)
    BY <2>2, <2>10 DEF TableOK
  <2> QED  BY <2>7, <2>8, <2>9, <2>10
<1> QED  BY <1>1, <1>2, <1>3, TableMoves

-------------------------------------------------------------------------------
(* The children. *)

LEMMA ChildrenStep ==
  ASSUME TypeOK, PlacesOK, ChildrenOK, NEW w \in Workers, Step(w)
  PROVE  ChildrenOK'
<1> SUFFICES ASSUME NEW v \in Workers, Alive(v)', child'[v].out # Free
             PROVE  child'[v].out \in inherited'[v]
  BY DEF ChildrenOK
<1> USE DEF system, procs, threads, readers, results, world
<1>0. PlaceOK(w)
  BY DEF PlacesOK
<1>1. CASE v # w
  <2>1. Same(v)
    BY <1>1, Frame
  <2> QED  BY <2>1 DEF Same, ChildrenOK, Alive
<1>2. CASE v = w /\ child'[w] = child[w] /\ inherited'[w] = inherited[w]
  BY <1>2 DEF ChildrenOK, Alive
<1>3. CASE v = w /\ SpawnCompiler(w)
  <2>1. /\ child'[w].out = files[fd[w][2]]
        /\ inherited'[w] = {files[n] : n \in Fds \ {fd[w][1]}} \ {Free}
    BY <1>3, Spawned
  <2>2. fd[w][2] \in Fds \ {fd[w][1]}
    BY <1>0, <1>3 DEF SpawnCompiler, PlaceOK, Compile
  <2> QED  BY <1>3, <2>1, <2>2
<1>4. CASE v = w /\ SpawnProgram(w)
  <2>1. /\ child'[w].out = files[fd[w][4]]
        /\ inherited'[w] = {files[n] : n \in Fds \ {fd[w][2], fd[w][3]}} \ {Free}
    BY <1>4, Spawned
  <2>2. fd[w][4] \in Fds \ {fd[w][2], fd[w][3]}
    BY <1>0, <1>4 DEF SpawnProgram, PlaceOK, Run
  <2> QED  BY <1>4, <2>1, <2>2
<1>5. CASE v = w /\ (CloseErrAgain(w) \/ Judge(w) \/ CompilerReaderFails(w) \/ ReaderFails(w))
  <2>1. child'[w] = NoChild
    BY <1>5 DEF CloseErrAgain, Judge, CompilerReaderFails, ReaderFails, Abandon, TypeOK
  <2> QED  BY <1>5, <2>1 DEF Alive
<1>6. CASE v = w /\ (Kill(w) \/ Exit(w) \/ CpuLimit(w))
  <2>1. child[w] # NoChild
    BY <1>0, <1>6 DEF Kill, Exit, CpuLimit, Alive, PlaceOK, NoChildYet
  <2>2. ~child'[w].alive
    BY <1>6, <2>1, Buried DEF Kill, Exit, CpuLimit
  <2> QED  BY <1>6, <2>2 DEF Alive
<1>7. \/ child' = child /\ inherited' = inherited
      \/ SpawnCompiler(w) \/ SpawnProgram(w) \/ CloseErrAgain(w) \/ Judge(w)
      \/ CompilerReaderFails(w) \/ ReaderFails(w) \/ Kill(w) \/ Exit(w) \/ CpuLimit(w)
  <2>1. CASE WorkerStep(w)
    BY <2>1
    DEF WorkerStep, StartFails, OpenErr, CompilerForkFails, CloseErrWrite, JoinCompiler,
        PipesFail, OpenPipes, ForkFails, CloseChildEnds, Feed, SecondReaderFails, JoinReader,
        Reap, NextSubmission
  <2>2. CASE ReaderStep(w)
    BY <2>2 DEF ReaderStep, Read, ReadSome, ReadEof, ReaderEnds
  <2>3. CASE ChildStep(w) \/ DaemonEnds(w)
    BY <2>3 DEF ChildStep, OrphanEnds, DaemonEnds
  <2> QED  BY <2>1, <2>2, <2>3 DEF Step
<1> QED  BY <1>1, <1>2, <1>3, <1>4, <1>5, <1>6, <1>7

-------------------------------------------------------------------------------
(* What a worker still has to close. *)

LEMMA OwedKept ==
  ASSUME TypeOK, PlacesOK, NEW w \in Workers, Step(w), NEW n \in Owed(w), n \in Fds,
         files[n] # Free => files[n].pipe[1] = w
  PROVE  n \in Owed(w)' \/ files'[n] \in leaked' \union {Free}
<1> USE DEF system, procs, threads, readers, results, world
<1> USE DEF OwedAt
<1>1. n \in OwedAt(pc[w], fd[w])
  BY DEF Owed
<1> SUFFICES n \in OwedAt(pc'[w], fd'[w]) \/ files'[n] \in leaked' \union {Free}
  BY DEF Owed
<1>2. CASE StartFails(w) \/ OpenErr(w) \/ PipesFail(w) \/ OpenPipes(w) \/ NextSubmission(w)
  BY <1>1, <1>2 DEF StartFails, OpenErr, PipesFail, OpenPipes, NextSubmission, TypeOK
<1>3. CASE CompilerForkFails(w) \/ CloseErrWrite(w) \/ CloseErrAgain(w)
  BY <1>1, <1>3, CloseType DEF CompilerForkFails, CloseErrWrite, CloseErrAgain, TypeOK
<1>4. CASE ForkFails(w)
  <2>1. n \in {fd[w][i] : i \in 1 .. 4} /\ Close({fd[w][i] : i \in 1 .. 4})
    BY <1>1, <1>4 DEF ForkFails
  <2>2. files'[n] = Free
    BY <2>1 DEF Close
  <2> QED  BY <2>2
<1>5. CASE CloseChildEnds(w) \/ Feed(w) \/ Judge(w)
  <2>1. CASE CloseChildEnds(w)
    <3>1. pc[w] = "ends" /\ pc'[w] = "feed" /\ UNCHANGED fd /\ Close({fd[w][1], fd[w][4]})
      BY <2>1 DEF CloseChildEnds, TypeOK
    <3>2. n \in {fd[w][1], fd[w][2], fd[w][3], fd[w][4]}
      BY <1>1, <3>1
    <3>3. n \in {fd[w][1], fd[w][4]} => files'[n] = Free
      BY <3>1 DEF Close
    <3>4. n \in {fd[w][2], fd[w][3]} => n \in OwedAt(pc'[w], fd'[w])
      BY <3>1
    <3> QED  BY <3>2, <3>3, <3>4
  <2>2. CASE Feed(w)
    <3>1. pc[w] = "feed" /\ pc'[w] = "running" /\ UNCHANGED fd /\ Close({fd[w][2]})
      BY <2>2 DEF Feed, WriteInput, TypeOK
    <3>2. n \in {fd[w][2], fd[w][3]}
      BY <1>1, <3>1
    <3>3. n = fd[w][2] => files'[n] = Free
      BY <3>1 DEF Close
    <3>4. n = fd[w][3] => n \in OwedAt(pc'[w], fd'[w])
      BY <3>1
    <3> QED  BY <3>2, <3>3, <3>4
  <2>3. CASE Judge(w)
    <3>1. n = fd[w][3] /\ Close({fd[w][3]})
      BY <1>1, <2>3 DEF Judge
    <3>2. files'[n] = Free
      BY <3>1 DEF Close
    <3> QED  BY <3>2
  <2> QED  BY <1>5, <2>1, <2>2, <2>3
<1>6. CASE \/ SpawnCompiler(w) \/ SpawnProgram(w) \/ JoinCompiler(w) \/ JoinReader(w)
           \/ Reap(w) \/ Kill(w)
  <2>1. /\ fd'[w] = fd[w]
        /\ pc[w] \in {"spawn", "fork", "joinCompiler", "joinReader", "compiling", "running"}
    BY <1>6 DEF SpawnCompiler, SpawnProgram, JoinCompiler, JoinReader, Reap, Kill
  <2>2. pc'[w] = CASE pc[w] = "spawn" -> "unshare"
                   [] pc[w] = "fork" -> "ends"
                   [] pc[w] = "joinCompiler" -> "closeAgain"
                   [] pc[w] = "joinReader" -> "judge"
                   [] pc[w] = "compiling" -> "joinCompiler"
                   [] pc[w] = "running" -> "joinReader"
    <3>1. CASE SpawnCompiler(w) \/ SpawnProgram(w)
      BY <3>1 DEF SpawnCompiler, SpawnProgram, TypeOK
    <3>2. CASE JoinCompiler(w) \/ JoinReader(w)
      BY <3>2 DEF JoinCompiler, JoinReader, TypeOK
    <3>3. CASE Reap(w) \/ Kill(w)
      BY <3>3 DEF Reap, Kill, Joining, TypeOK
    <3> QED  BY <1>6, <3>1, <3>2, <3>3
  <2> QED  BY <1>1, <2>1, <2>2
<1>7. CASE SecondReaderFails(w) \/ ReaderStep(w) \/ ChildStep(w) \/ DaemonEnds(w)
  <2>1. UNCHANGED <<pc, fd>>
    BY <1>7
    DEF SecondReaderFails, ReaderStep, Read, ReadSome, ReadEof, ReaderEnds, ChildStep, Exit,
        CpuLimit, OrphanEnds, DaemonEnds
  <2> QED  BY <1>1, <2>1
<1>8. CASE CompilerReaderFails(w) \/ ReaderFails(w)
  <2>1. PICK m \in Fds : Abandon(w, m) /\ Close({fd[w][2]}) /\ n \in {m, fd[w][2]}
    <3>1. PlaceOK(w)
      BY DEF PlacesOK
    <3>2. CASE CompilerReaderFails(w)
      BY <1>1, <3>1, <3>2 DEF CompilerReaderFails, PlaceOK, Compile
    <3>3. CASE ReaderFails(w)
      BY <1>1, <3>1, <3>3 DEF ReaderFails, WriteInput, PlaceOK, Run
    <3> QED  BY <1>8, <3>2, <3>3
  <2>2. /\ n = fd[w][2] => files'[n] = Free
        /\ n # fd[w][2] => files'[n] = files[n]
    BY <2>1, CloseType
  <2>3. files[m] # Free /\ files[m].pipe[1] = w => files[m] \in leaked'
    BY <2>1 DEF Abandon
  <2> QED  BY <2>1, <2>2, <2>3
<1> QED  BY <1>2, <1>3, <1>4, <1>5, <1>6, <1>7, <1>8 DEF Step, WorkerStep

(* The number of an end that a step opened is owed by who opened it, or the *)
(* end leaked.                                                              *)
LEMMA OpenedIsOwed ==
  ASSUME TypeOK, NEW w \in Workers, Step(w), NEW n \in Fds
  PROVE  /\ leaked \subseteq leaked'
         /\ \/ files'[n] \in {files[n], Free} \union leaked'
            \/ n \in Owed(w)' /\ files'[n].pipe[1] = w
<1>0. ASSUME NEW k \in 0 .. 2, Open(w, k)
      PROVE  \A i \in 1 .. 2 * k : NewEnd(w, i).pipe[1] = w
  <2>1. \A i \in 1 .. 2 * k : \E a \in UnusedPipes(w) : \E s \in {"r", "w"} :
          NewEnd(w, i) = End(<<w, a>>, s)
    BY <1>0, Fresh
  <2>2. \A a, s : End(<<w, a>>, s).pipe[1] = w
    BY DEF End
  <2> QED  BY <2>1, <2>2
<1> USE DEF system, procs, threads, readers, results, world
<1>1. CASE OpenErr(w)
  <2>1. Open(w, 1) /\ UNCHANGED leaked /\ pc'[w] = "spawn" /\ fd'[w] = Numbers(1)
    BY <1>1 DEF OpenErr, TypeOK
  <2>2. files'[n] = files[n] \/ \E i \in 1 .. 2 * 1 : n = Numbers(1)[i]
    BY <2>1, OpenTable
  <2>5. files'[n] = files[n] \/ files'[n].pipe[1] = w
    BY <1>0, <2>1, <2>2, OpenTable
  <2>3. \A i \in 1 .. 2 * 1 : i \in {1, 2}
    OBVIOUS
  <2>4. files'[n] = files[n] \/ n \in {fd'[w][1], fd'[w][2]}
    BY <2>1, <2>2, <2>3
  <2> QED  BY <2>1, <2>4, <2>5 DEF Owed, OwedAt
<1>2. CASE OpenPipes(w)
  <2>1. Open(w, 2) /\ UNCHANGED leaked /\ pc'[w] = "fork" /\ fd'[w] = Numbers(2)
    BY <1>2 DEF OpenPipes, TypeOK
  <2>2. files'[n] = files[n] \/ \E i \in 1 .. 2 * 2 : n = Numbers(2)[i]
    BY <2>1, OpenTable
  <2>5. files'[n] = files[n] \/ files'[n].pipe[1] = w
    BY <1>0, <2>1, <2>2, OpenTable
  <2>3. \A i \in 1 .. 2 * 2 : i \in {1, 2, 3, 4}
    OBVIOUS
  <2>4. files'[n] = files[n] \/ n \in {fd'[w][1], fd'[w][2], fd'[w][3], fd'[w][4]}
    BY <2>1, <2>2, <2>3
  <2> QED  BY <2>1, <2>4, <2>5 DEF Owed, OwedAt
<1>3. CASE PipesFail(w)
  <2>1. PICK k \in 0 .. 2 : /\ Open(w, k)
                            /\ leaked' = leaked \union {NewEnd(w, i) : i \in 1 .. 2 * k}
    BY <1>3 DEF PipesFail
  <2>2. k \in 0 .. 2
    OBVIOUS
  <2>3. files'[n] = files[n] \/ \E i \in 1 .. 2 * k : files'[n] = NewEnd(w, i)
    BY <2>1, <2>2, OpenTable
  <2> QED  BY <2>1, <2>3
<1>4. ASSUME NEW numbers, Close(numbers) PROVE files'[n] \in {files[n], Free}
  BY <1>4, CloseType
<1>5. \/ OpenErr(w) \/ OpenPipes(w) \/ PipesFail(w)
      \/ leaked \subseteq leaked' /\ (UNCHANGED files \/ \E numbers : Close(numbers))
  <2>1. CASE WorkerStep(w)
    BY <2>1
    DEF WorkerStep, StartFails, CompilerForkFails, SpawnCompiler, CloseErrWrite,
        CompilerReaderFails, JoinCompiler, CloseErrAgain, ForkFails, SpawnProgram,
        CloseChildEnds, Feed, WriteInput, ReaderFails, SecondReaderFails, Abandon, JoinReader,
        Judge, Reap, Kill, NextSubmission
  <2>2. CASE ReaderStep(w)
    BY <2>2 DEF ReaderStep, Read, ReadSome, ReadEof, ReaderEnds
  <2>3. CASE ChildStep(w) \/ DaemonEnds(w)
    BY <2>3 DEF ChildStep, Exit, CpuLimit, OrphanEnds, DaemonEnds
  <2> QED  BY <2>1, <2>2, <2>3 DEF Step
<1> QED  BY <1>1, <1>2, <1>3, <1>4, <1>5

LEMMA OwedStep ==
  ASSUME TypeOK, PlacesOK, OwedOK, NEW w \in Workers, Step(w)
  PROVE  OwedOK'
<1> SUFFICES ASSUME NEW n \in Fds, files'[n] \notin leaked' \union {Free}
             PROVE  n \in OwedAt(pc'[files'[n].pipe[1]], fd'[files'[n].pipe[1]])
  BY DEF OwedOK, Owed
<1>1. /\ leaked \subseteq leaked'
      /\ files'[n] = files[n] \/ (n \in Owed(w)' /\ files'[n].pipe[1] = w)
  BY OpenedIsOwed
<1>2. CASE files'[n] = files[n]
  <2> DEFINE v == files[n].pipe[1]
  <2>1. v \in Workers
    BY <1>2 DEF TypeOK, Ends, Pipes
  <2>2. n \in Owed(v)
    BY <1>1, <1>2 DEF OwedOK
  <2> HIDE DEF v
  <2>3. CASE v = w
    <3>1. n \in Owed(w)' \/ files'[n] \in leaked' \union {Free}
      BY <2>2, <2>3, OwedKept DEF v
    <3>2. n \in OwedAt(pc'[w], fd'[w])
      BY <3>1 DEF Owed
    <3>3. files'[n].pipe[1] = w
      BY <1>2, <2>3 DEF v
    <3> QED  BY <3>2, <3>3
  <2>4. CASE v # w
    <3>1. Same(v)
      BY <2>1, <2>4, Frame
    <3>2. n \in OwedAt(pc[v], fd[v]) /\ pc'[v] = pc[v] /\ fd'[v] = fd[v]
      BY <2>2, <3>1 DEF Same, Owed
    <3>3. files'[n].pipe[1] = v
      BY <1>2 DEF v
    <3> QED  BY <3>2, <3>3
  <2> QED  BY <2>3, <2>4
<1>3. CASE files'[n] # files[n]
  BY <1>1, <1>3 DEF Owed
<1> QED  BY <1>2, <1>3

(* What g++ makes of a submission, and that one that does not hang is       *)
(* killed only early.                                                       *)
LEMMA CompileStep ==
  ASSUME TypeOK, PlacesOK, CompileOK, NEW w \in Workers, Step(w)
  PROVE  CompileOK'
<1> SUFFICES ASSUME NEW v \in Workers, pc'[v] \in Compile \ NoChildYet
             PROVE  /\ deserved'[v] = IF child'[v].fate = "compiles" THEN "AC" ELSE "CE"
                    /\ killed'[v] => child'[v].fate = "hangs" \/ "early" \in disturbed'[v]
  BY DEF CompileOK
<1> USE DEF system, procs, threads, readers, results, world
<1>0. PlaceOK(w)
  BY DEF PlacesOK
<1>1. CASE v # w
  <2>1. Same(v)
    BY <1>1, Frame
  <2> QED  BY <1>1, <2>1 DEF Same, CompileOK
<1>2. CASE v = w /\ SpawnCompiler(w)
  <2>1. deserved'[w] = IF child'[w].fate = "compiles" THEN "AC" ELSE "CE"
    BY <1>2, Spawned
  <2>2. ~killed'[w]
    BY <1>0, <1>2 DEF SpawnCompiler, PlaceOK, Reaped, TypeOK
  <2> QED  BY <1>2, <2>1, <2>2
<1>3. CASE v = w /\ Kill(w)
  <2>1. child[w] # NoChild /\ pc[w] = "compiling" /\ child[w].fate \in Compilations
    BY <1>0, <1>3 DEF Kill, Joining, PlaceOK, NoChildYet, Compile, TypeOK
  <2>2. child'[w].fate = child[w].fate
    BY <1>3, <2>1, Buried DEF Kill
  <2>3. child[w].fate = "hangs" \/ "early" \in disturbed'[w]
    <3>1. "early" \in Only(w, "early")[w]
      BY OwnType DEF Disturbances
    <3>2. (child[w].alive /\ ~CanExit(w)) \/ Happens({}, {}, Only(w, "early"))
      BY <1>3 DEF Kill
    <3>3. ~CanExit(w) => child[w].fate = "hangs"
      BY <2>1 DEF CanExit, Compilations
    <3> QED  BY <3>1, <3>2, <3>3, HappensType
  <2> QED  BY <1>3, <2>1, <2>2, <2>3 DEF Kill, CompileOK, Compile, NoChildYet
<1>4. CASE v = w /\ (Exit(w) \/ CpuLimit(w))
  <2>1. child[w] # NoChild
    BY <1>4 DEF Exit, CpuLimit, Alive
  <2>2. child'[w].fate = child[w].fate
    BY <1>4, <2>1, Buried DEF Exit, CpuLimit
  <2>3. disturbed[w] \subseteq disturbed'[w]
    BY <1>4, HappensType DEF Exit, CpuLimit
  <2> QED  BY <1>4, <2>2, <2>3 DEF Exit, CpuLimit, CompileOK
<1>5. CASE v = w /\ (\/ CloseErrWrite(w) \/ JoinCompiler(w) \/ Reap(w)
                     \/ ReaderStep(w) \/ OrphanEnds(w) \/ DaemonEnds(w))
  <2>1. /\ UNCHANGED <<child, killed, deserved>>
        /\ pc[w] \in Compile \ NoChildYet
    BY <1>5
    DEF CloseErrWrite, JoinCompiler, Reap, Joining, ReaderStep, Read, ReadSome, ReadEof,
        ReaderEnds, OrphanEnds, DaemonEnds, Compile, NoChildYet, TypeOK
  <2>2. UNCHANGED disturbed \/ \E x, y, z : Happens(x, y, z)
    BY <1>5
    DEF CloseErrWrite, JoinCompiler, Reap, ReaderStep, Read, ReadSome, ReadEof, ReaderEnds,
        OrphanEnds, DaemonEnds, Uses
  <2>3. disturbed[w] \subseteq disturbed'[w]
    BY <2>2, HappensType
  <2> QED  BY <1>5, <2>1, <2>3 DEF CompileOK
<1>6. CASE v = w /\ (\/ StartFails(w) \/ OpenErr(w) \/ CompilerForkFails(w)
                     \/ CloseErrAgain(w) \/ PipesFail(w) \/ OpenPipes(w) \/ ForkFails(w)
                     \/ SpawnProgram(w) \/ CloseChildEnds(w) \/ Feed(w) \/ JoinReader(w)
                     \/ CompilerReaderFails(w) \/ ReaderFails(w) \/ SecondReaderFails(w)
                     \/ Judge(w) \/ NextSubmission(w))
  BY <1>6
  DEF CompilerReaderFails, ReaderFails, SecondReaderFails, Abandon, StartFails, OpenErr,
      CompilerForkFails, CloseErrAgain, PipesFail, OpenPipes, ForkFails, SpawnProgram,
      CloseChildEnds, Feed, JoinReader, Judge, NextSubmission, GiveUp,
      Compile, NoChildYet, TypeOK
<1> QED  BY <1>1, <1>2, <1>3, <1>4, <1>5, <1>6 DEF Step, WorkerStep, ChildStep

-------------------------------------------------------------------------------
(* A step of v that does not cross w leaves the pipes of w alone.           *)

LEMMA EndIs ==
  /\ \A p, s : End(p, s).pipe = p /\ End(p, s).side = s
  /\ \A e \in Ends : e.pipe \in Pipes /\ e # Free
  /\ \A p \in Pipes : \A s \in {"r", "w"} : End(p, s) \in Ends
  /\ \A w, a : <<w, a>>[1] = w /\ (w \in Workers /\ a \in 1 .. MaxPipes => <<w, a>> \in Pipes)
BY Constants DEF End, Ends, Pipes

LEMMA OpenIs ==
  /\ \A n \in Fds : files[n] # Free => files[n] \in OpenEnds
  /\ \A v \in Workers : inherited[v] \union orphan[v] \union daemon[v] \subseteq OpenEnds
  /\ \A v \in Workers : on[v] # Free => End(on[v], "r") \in OpenEnds
<1> DEFINE held == UNION {inherited[w] \union orphan[w] \union daemon[w] : w \in Workers}
           blocked == {End(on[w], "r") : w \in {v \in Workers : on[v] # Free}}
<1>1. OpenEnds = InTable \union held \union blocked
  BY DEF OpenEnds
<1>2. \A v \in Workers : on[v] # Free => End(on[v], "r") \in blocked
  OBVIOUS
<1>3. \A n \in Fds : files[n] # Free => files[n] \in InTable
  BY DEF InTable
<1>4. \A v \in Workers : inherited[v] \union orphan[v] \union daemon[v] \subseteq held
  OBVIOUS
<1> HIDE DEF held, blocked
<1>5. InTable \subseteq OpenEnds /\ held \subseteq OpenEnds /\ blocked \subseteq OpenEnds
  BY <1>1
<1>6. \A v \in Workers : inherited[v] \union orphan[v] \union daemon[v] \subseteq OpenEnds
  BY <1>4, <1>5
<1> QED  BY <1>2, <1>3, <1>5, <1>6

(* Who has the write end of a pipe open.                                    *)
LEMMA WriterIs ==
  ASSUME NEW p, HasWriter(p)
  PROVE  \/ \E n \in Fds : files[n] = End(p, "w")
         \/ \E v \in Workers : End(p, "w") \in inherited[v] \union orphan[v] \union daemon[v]
<1> DEFINE held == UNION {inherited[w] \union orphan[w] \union daemon[w] : w \in Workers}
           blocked == {End(on[w], "r") : w \in {v \in Workers : on[v] # Free}}
<1>1. End(p, "w") \in InTable \union held \union blocked
  BY DEF OpenEnds, HasWriter
<1>2. End(p, "w") \notin blocked
  <2>1. \A r : End(r, "r").side = "r" /\ End(p, "w").side = "w"
    BY DEF End
  <2> QED  BY <2>1
<1>3. End(p, "w") \in InTable => \E n \in Fds : files[n] = End(p, "w")
  BY DEF InTable
<1>4. End(p, "w") \in held =>
        \E v \in Workers : End(p, "w") \in inherited[v] \union orphan[v] \union daemon[v]
  OBVIOUS
<1> HIDE DEF held, blocked
<1> QED  BY <1>1, <1>2, <1>3, <1>4

LEMMA CrossedBy ==
  ASSUME NEW v, NEW w \in Workers \ {v}, NEW S, NEW e \in S, e \in Ends, e.pipe[1] = w
  PROVE  w \in Foreign(v, S)
BY EndIs DEF Foreign

LEMMA StaysClean ==
  ASSUME TypeOK, NEW v \in Workers, Step(v), NEW w \in Workers \ {v}, Clean(w)'
  PROVE  Clean(w)
BY Frame DEF Same, Clean

LEMMA FilesKept ==
  ASSUME TypeOK, NEW v \in Workers, Step(v), NEW w \in Workers \ {v}, Clean(w)',
         NEW n \in Fds, NEW e \in Ends, e.pipe[1] = w
  PROVE  files'[n] = e <=> files[n] = e
<1>1. CASE UNCHANGED files
  BY <1>1
<1>2. ASSUME NEW numbers, Close(numbers),
             \A u \in Foreign(v, {files[m] : m \in numbers}) : "crossed" \in disturbed'[u]
      PROVE  files'[n] = e <=> files[n] = e
  <2>1. files[n] = e => n \notin numbers
    <3> SUFFICES ASSUME files[n] = e, n \in numbers PROVE FALSE
      OBVIOUS
    <3>1. e \in {files[m] : m \in numbers}
      OBVIOUS
    <3>2. w \in Foreign(v, {files[m] : m \in numbers})
      BY <3>1, CrossedBy
    <3> QED  BY <1>2, <3>2 DEF Clean
  <2>2. e # Free
    BY EndIs
  <2> QED  BY <1>2, <2>1, <2>2, CloseType
<1>3. ASSUME NEW k \in 0 .. 2, Open(v, k)
      PROVE  files'[n] = e <=> files[n] = e
  <2>1. CASE files'[n] = files[n]
    BY <2>1
  <2>2. CASE \E i \in 1 .. 2 * k : n = Numbers(k)[i]
    <3>1. PICK i \in 1 .. 2 * k : n = Numbers(k)[i]
      BY <2>2
    <3>2. files[n] = Free /\ files'[n] = NewEnd(v, i)
      BY <1>3, <3>1, OpenTable
    <3>3. \E a \in UnusedPipes(v) : \E s \in {"r", "w"} : NewEnd(v, i) = End(<<v, a>>, s)
      BY <1>3, Fresh
    <3>4. NewEnd(v, i).pipe[1] = v
      BY <3>3, EndIs
    <3> QED  BY <3>2, <3>4, EndIs
  <2> QED  BY <1>3, <2>1, <2>2, OpenTable
<1> QED  BY <1>1, <1>2, <1>3, TableMoves

(* Whom a fork of v has to tell, and what its child holds.                  *)
LEMMA Forked ==
  ASSUME TypeOK, NEW v \in Workers, SpawnCompiler(v) \/ SpawnProgram(v), NEW w \in Workers \ {v}
  PROVE  /\ child'[v].out \in Ends /\ child'[v].out.pipe[1] = w => "crossed" \in disturbed'[w]
         /\ inherited'[v] \subseteq InTable
         /\ Len(fd[w]) = 4 /\ files[fd[w][2]] \in inherited'[v] /\ files[fd[w][2]].pipe[1] = w
              => "held" \in disturbed'[w]
<1>1. ASSUME NEW f, NEW m, NEW c, NEW i, NEW o, Fork(v, f, m, c, i, o)
      PROVE  /\ child'[v].out \in Ends /\ child'[v].out.pipe[1] = w => "crossed" \in disturbed'[w]
             /\ inherited'[v] \subseteq InTable
             /\ Len(fd[w]) = 4 /\ files[fd[w][2]] \in inherited'[v] /\ files[fd[w][2]].pipe[1] = w
                  => "held" \in disturbed'[w]
  <2> DEFINE held == {u \in Workers \ {v} : /\ Len(fd[u]) = 4
                                            /\ files[fd[u][2]] \in inherited'[v]
                                            /\ files[fd[u][2]].pipe[1] = u}
  <2>1. Happens(Foreign(v, {i, o}), held, NotHere)
    BY <1>1 DEF Fork
  <2>2. /\ w \in Foreign(v, {i, o}) => "crossed" \in disturbed'[w]
        /\ w \in held => "held" \in disturbed'[w]
    <3> HIDE DEF held
    <3> QED  BY <2>1, HappensType
  <2>3. child'[v].out = o
    BY <1>1 DEF Fork, TypeOK
  <2>4. child'[v].out \in Ends /\ child'[v].out.pipe[1] = w => w \in Foreign(v, {i, o})
    BY <2>3, CrossedBy
  <2>5. inherited'[v] \subseteq InTable
    BY <1>1 DEF Fork, InTable, TypeOK
  <2> QED  BY <2>2, <2>4, <2>5
<1>2. CASE SpawnCompiler(v)
  <2>1. PICK f \in work.compilations[v] :
          Fork(v, f, work.compiler, {fd[v][1]}, Free, files[fd[v][2]])
    BY <1>2 DEF SpawnCompiler
  <2> QED  BY <1>1, <2>1
<1>3. CASE SpawnProgram(v)
  <2>1. PICK f \in work.programs[v], m \in work.memory[v] :
          Fork(v, f, m, {fd[v][2], fd[v][3]}, files[fd[v][1]], files[fd[v][4]])
    BY <1>3 DEF SpawnProgram
  <2> QED  BY <1>1, <2>1
<1> QED  BY <1>2, <1>3

(* The steps that are no fork leave what the child holds, or drop it.       *)
LEMMA Holders ==
  ASSUME TypeOK, PlacesOK, NEW v \in Workers, Step(v)
  PROVE  \/ SpawnCompiler(v) \/ SpawnProgram(v)
         \/ /\ inherited'[v] \union orphan'[v] \union daemon'[v]
                  \subseteq inherited[v] \union orphan[v] \union daemon[v]
            /\ child'[v] # NoChild /\ child'[v].alive =>
                 /\ child[v] # NoChild /\ child[v].alive /\ child'[v].out = child[v].out
<1> USE DEF system, procs, threads, readers, results, world
<1>1. PlaceOK(v)
  BY DEF PlacesOK
<1>2. CASE CloseErrAgain(v) \/ Judge(v)
  BY <1>2 DEF CloseErrAgain, Judge, TypeOK
<1>3. CASE Kill(v) \/ Exit(v) \/ CpuLimit(v)
  <2>1. child[v] # NoChild
    BY <1>1, <1>3 DEF Kill, Exit, CpuLimit, Alive, PlaceOK, NoChildYet
  <2>2. ~child'[v].alive /\ inherited'[v] = {} /\ daemon'[v] \subseteq daemon[v] \union inherited[v]
    BY <1>3, <2>1, Buried DEF Kill, Exit, CpuLimit
  <2>3. orphan'[v] \subseteq orphan[v] \union inherited[v]
    BY <1>3 DEF Kill, Exit, CpuLimit, TypeOK
  <2> QED  BY <2>2, <2>3
<1>4. CASE OrphanEnds(v) \/ DaemonEnds(v)
  BY <1>4 DEF OrphanEnds, DaemonEnds, TypeOK
<1>6. CASE CompilerReaderFails(v) \/ ReaderFails(v)
  BY <1>6 DEF CompilerReaderFails, ReaderFails, Abandon, TypeOK
<1>5. \/ UNCHANGED <<child, inherited, orphan, daemon>>
      \/ SpawnCompiler(v) \/ SpawnProgram(v) \/ CloseErrAgain(v) \/ Judge(v)
      \/ Kill(v) \/ Exit(v) \/ CpuLimit(v) \/ OrphanEnds(v) \/ DaemonEnds(v)
      \/ CompilerReaderFails(v) \/ ReaderFails(v)
  <2>1. CASE WorkerStep(v)
    BY <2>1
    DEF WorkerStep, StartFails, OpenErr, CompilerForkFails, CloseErrWrite, JoinCompiler,
        PipesFail, OpenPipes, ForkFails, CloseChildEnds, Feed, SecondReaderFails, JoinReader,
        Reap, NextSubmission
  <2>2. CASE ReaderStep(v)
    BY <2>2 DEF ReaderStep, Read, ReadSome, ReadEof, ReaderEnds
  <2> QED  BY <2>1, <2>2 DEF Step, ChildStep
<1> QED  BY <1>2, <1>3, <1>4, <1>5, <1>6

(* A read() of v does not come to wait on a pipe of w.                      *)
LEMMA ReadElsewhere ==
  ASSUME TypeOK, NEW v \in Workers, Step(v), NEW w \in Workers \ {v}, Clean(w)'
  PROVE  on'[v] \in {on[v], Free} \/ on'[v][1] # w
<1> USE DEF system, procs, threads, readers, results, world
<1>1. CASE Read(v)
  <2> DEFINE file == files[Drained(v)]
  <2>1. CASE on'[v] = on[v]
    BY <2>1
  <2>2. CASE on'[v] # on[v]
    <3>1. file # Free /\ on'[v] = file.pipe /\ Uses(v, {Drained(v)})
      BY <1>1, <2>2 DEF Read, TypeOK
    <3>2. SUFFICES ASSUME file.pipe[1] = w PROVE FALSE
      BY <3>1
    <3>3. w \in Foreign(v, {files[n] : n \in {Drained(v)}})
      BY <3>1, <3>2 DEF Foreign
    <3>4. "crossed" \in disturbed'[w]
      BY <3>1, <3>3, HappensType DEF Uses
    <3> QED  BY <3>4 DEF Clean
  <2> QED  BY <2>1, <2>2
<1>2. CASE ReadSome(v) \/ ReadEof(v)
  BY <1>2 DEF ReadSome, ReadEof, TypeOK
<1>3. CASE ReaderEnds(v) \/ ChildStep(v) \/ DaemonEnds(v)
  BY <1>3 DEF ReaderEnds, ChildStep, Exit, CpuLimit, OrphanEnds, DaemonEnds
<1>4. CASE WorkerStep(v)
  BY <1>4
  DEF WorkerStep, StartFails, OpenErr, CompilerForkFails, SpawnCompiler, CloseErrWrite,
      JoinCompiler, CloseErrAgain, PipesFail, OpenPipes, ForkFails, SpawnProgram,
      CloseChildEnds, Feed, CompilerReaderFails, ReaderFails, SecondReaderFails, Abandon,
      JoinReader, Judge, Reap, Kill, NextSubmission, GiveUp
<1> QED  BY <1>1, <1>2, <1>3, <1>4 DEF Step, ReaderStep

(* What is in a pipe of w changes only for the reader or the child of v,    *)
(* which do not use it.                                                     *)
LEMMA ContentKept ==
  ASSUME TypeOK, PlacesOK, NEW v \in Workers, Step(v), NEW w \in Workers \ {v}, Clean(w)',
         NEW p \in Pipes, p[1] = w, on[v] # p,
         Alive(v) /\ child[v].out # Free => child[v].out.pipe # p
  PROVE  content'[p] = content[p]
<1> USE DEF system, procs, threads, readers, results, world
<1>1. CASE OpenErr(v) \/ OpenPipes(v) \/ PipesFail(v)
  <2>1. \E k : Open(v, k)
    BY <1>1 DEF OpenErr, OpenPipes, PipesFail
  <2> QED  BY <2>1 DEF Open
<1>2. CASE Feed(v) \/ ReaderFails(v)
  <2> DEFINE file == files[fd[v][2]]
  <2>1. CASE content' = content
    BY <2>1
  <2>2. CASE content' # content
    <3>1. /\ file # Free
          /\ \E own : Happens(Foreign(v, {file}), {}, own)
          /\ content' = [content EXCEPT ![file.pipe] = Joined(@, Text(v, "input"))]
      <4>1. WriteInput(v) /\ \E own : Happens(Foreign(v, {file}), {}, own)
        <5>1. {files[n] : n \in {fd[v][2]}} = {file}
          OBVIOUS
        <5> QED  BY <1>2, <5>1 DEF Feed, ReaderFails, Uses
      <4> QED  BY <2>2, <4>1 DEF WriteInput
    <3>2. CASE file.pipe # p
      BY <3>1, <3>2 DEF TypeOK
    <3>3. CASE file.pipe = p
      <4>1. w \in Foreign(v, {file})
        BY <3>1, <3>3 DEF Foreign
      <4>2. "crossed" \in disturbed'[w]
        BY <3>1, <4>1, HappensType
      <4> QED  BY <4>2 DEF Clean
    <3> QED  BY <3>2, <3>3
  <2> QED  BY <2>1, <2>2
<1>3. CASE ReadSome(v)
  BY <1>3 DEF ReadSome, TypeOK
<1>4. CASE Exit(v)
  BY <1>4 DEF Exit, TypeOK
<1>5. CASE UNCHANGED content
  BY <1>5
<1>6. \/ OpenErr(v) \/ OpenPipes(v) \/ PipesFail(v) \/ Feed(v) \/ ReaderFails(v)
      \/ ReadSome(v) \/ Exit(v) \/ UNCHANGED content
  <2>1. CASE WorkerStep(v)
    BY <2>1
    DEF WorkerStep, StartFails, CompilerForkFails, SpawnCompiler, CloseErrWrite,
        CompilerReaderFails, JoinCompiler, CloseErrAgain, ForkFails, SpawnProgram,
        CloseChildEnds, SecondReaderFails, JoinReader, Judge, Reap, Kill, NextSubmission
  <2>2. CASE ReaderStep(v) \/ ChildStep(v) \/ DaemonEnds(v)
    BY <2>2 DEF ReaderStep, Read, ReadEof, ReaderEnds, ChildStep, CpuLimit, OrphanEnds, DaemonEnds
  <2> QED  BY <2>1, <2>2 DEF Step
<1> QED  BY <1>1, <1>2, <1>3, <1>4, <1>5, <1>6

(* The memory of what was reaped only grows, and the limits stay.           *)
LEMMA MemoryGrows ==
  ASSUME TypeOK, PlacesOK, NEW v \in Workers, Step(v)
  PROVE  /\ work' = work /\ maxrss \in Nat /\ maxrss' \in Nat /\ maxrss <= maxrss'
         /\ \A w \in Workers : OverLimit(w) => OverLimit(w)'
<1> USE DEF system, procs, threads, readers, results, world
<1>1. maxrss \in Nat /\ maxrss' \in Nat /\ Workload(work)
  BY TypeStep, Constants DEF TypeOK
<1>2. ASSUME Reap(v) \/ Kill(v) PROVE maxrss <= maxrss'
  <2>1. pc[v] \in {"compiling", "running"} /\ PlaceOK(v)
    BY <1>2 DEF Reap, Kill, PlacesOK
  <2>2. child[v] \in Children
    BY <2>1 DEF PlaceOK, NoChildYet, TypeOK
  <2>3. PICK m \in Nat : maxrss' = Larger(maxrss, m)
    <3>1. child[v].mem \in Nat
      BY <2>2 DEF Children
    <3>2. CASE Reap(v)
      BY <3>1, <3>2 DEF Reap
    <3>3. CASE Kill(v)
      <4>1. PICK reached \in IF child[v].alive THEN 0 .. child[v].mem ELSE {child[v].mem} :
              maxrss' = Larger(maxrss, reached)
        BY <3>3 DEF Kill
      <4>2. reached \in Nat
        BY <3>1
      <4> QED  BY <4>1, <4>2
    <3> QED  BY <1>2, <3>2, <3>3
  <2> QED  BY <1>1, <2>3, LargerIs
<1>3. ASSUME UNCHANGED maxrss PROVE maxrss <= maxrss'
  BY <1>1, <1>3
<1>4. work' = work /\ (Reap(v) \/ Kill(v) \/ UNCHANGED maxrss)
  <2>1. CASE WorkerStep(v)
    BY <2>1
    DEF WorkerStep, StartFails, OpenErr, CompilerForkFails, SpawnCompiler, CloseErrWrite,
        JoinCompiler, CloseErrAgain, PipesFail, OpenPipes, ForkFails, SpawnProgram,
        CloseChildEnds, Feed, CompilerReaderFails, ReaderFails, SecondReaderFails, Abandon,
        JoinReader, Judge, Reap, Kill, NextSubmission, GiveUp
  <2>2. CASE ReaderStep(v) \/ ChildStep(v) \/ DaemonEnds(v)
    BY <2>2
    DEF ReaderStep, Read, ReadSome, ReadEof, ReaderEnds, ChildStep, Exit, CpuLimit, OrphanEnds,
        DaemonEnds
  <2> QED  BY <2>1, <2>2 DEF Step
<1>5. maxrss <= maxrss'
  BY <1>2, <1>3, <1>4
<1>6. work.limit \in [Workers -> Nat]
  BY <1>1 DEF Workload
<1>7. \A w \in Workers : OverLimit(w) => OverLimit(w)'
  BY <1>1, <1>4, <1>5, <1>6 DEF OverLimit
<1> QED  BY <1>1, <1>4, <1>5, <1>7

LEMMA BystanderRun ==
  ASSUME TypeOK, PlacesOK, NEW v \in Workers, Step(v), NEW w \in Workers \ {v}, Clean(w)',
         NEW a \in 1 .. MaxPipes, NEW b \in 1 .. MaxPipes, a # b, pc[w] \in Run,
         RunOK(w, <<w, a>>, <<w, b>>)
  PROVE  RunOK(w, <<w, a>>, <<w, b>>)'
<1> DEFINE p == <<w, a>>
           q == <<w, b>>
<1>0. PlaceOK(w) /\ Same(w)
  BY Frame DEF PlacesOK
<1>1. p \in Pipes /\ q \in Pipes /\ p[1] = w /\ q[1] = w /\ p # Free /\ q # Free
  BY EndIs, Constants
<1>2. OwnEnds(w, p, q) /\ Alone(w, p, q) /\ HoldersTold(w, p) /\ Flows(w, p, q)
  BY DEF RunOK
<1> HIDE DEF p, q
<1>3. \A s \in {"r", "w"} : /\ End(p, s) \in Ends /\ End(p, s).pipe = p
                            /\ End(q, s) \in Ends /\ End(q, s).pipe = q
  BY <1>1, EndIs
<1>4. /\ fd[w] \in [1 .. 4 -> Fds]
      /\ fd[w][1] \in Fds /\ fd[w][2] \in Fds /\ fd[w][3] \in Fds /\ fd[w][4] \in Fds
  BY <1>0 DEF PlaceOK
<1>5. OwnEnds(w, p, q)'
  <2>1. \A n \in Fds : \A s \in {"r", "w"} :
           /\ files'[n] = End(p, s) <=> files[n] = End(p, s)
           /\ files'[n] = End(q, s) <=> files[n] = End(q, s)
    BY <1>1, <1>3, FilesKept
  <2> QED  BY <1>0, <1>2, <1>4, <2>1 DEF OwnEnds, Same
<1>6. ASSUME NEW u \in Workers \ {w}
      PROVE  /\ on'[u] \notin {p, q}
             /\ Alive(u)' /\ child'[u].out # Free => child'[u].out.pipe \notin {p, q}
  <2>1. CASE u # v
    <3>1. Same(u)
      BY <2>1, Frame
    <3> QED  BY <1>2, <3>1 DEF Alone, Same, Alive
  <2>2. CASE u = v
    <3>1. on'[v] \notin {p, q}
      <4>1. on'[v] \in {on[v], Free} \/ on'[v][1] # w
        BY ReadElsewhere
      <4> QED  BY <1>1, <1>2, <4>1 DEF Alone
    <3>2. CASE SpawnCompiler(v) \/ SpawnProgram(v)
      <4>1. child'[v] \in Children
        BY <3>2, Spawned
      <4>2. child'[v].out \in Ends \union {Free}
        BY <4>1 DEF Children
      <4>3. child'[v].out \in Ends /\ child'[v].out.pipe[1] = w => "crossed" \in disturbed'[w]
        BY <3>2, Forked
      <4> QED  BY <1>1, <2>2, <3>1, <4>2, <4>3 DEF Clean
    <3>3. CASE child'[v] # NoChild /\ child'[v].alive =>
                 child[v] # NoChild /\ child[v].alive /\ child'[v].out = child[v].out
      BY <1>2, <2>2, <3>1, <3>3 DEF Alone, Alive
    <3> QED  BY <3>2, <3>3, Holders
  <2> QED  BY <2>1, <2>2
<1>7. ASSUME NEW u \in Workers, End(p, "w") \in inherited'[u] \union orphan'[u] \union daemon'[u]
      PROVE  u # w /\ "held" \in disturbed'[w]
  <2>1. disturbed[w] \subseteq disturbed'[w]
    BY <1>0 DEF Same
  <2>2. CASE End(p, "w") \in inherited[u] \union orphan[u] \union daemon[u]
    BY <1>2, <2>1, <2>2 DEF HoldersTold
  <2>3. CASE End(p, "w") \notin inherited[u] \union orphan[u] \union daemon[u]
    <3>1. u = v
      <4>1. u # v => Same(u)
        BY Frame
      <4> QED  BY <1>7, <2>3, <4>1 DEF Same
    <3>2. (SpawnCompiler(v) \/ SpawnProgram(v)) /\ End(p, "w") \in inherited'[v]
      <4>1. SpawnCompiler(v) \/ SpawnProgram(v)
        BY <1>7, <2>3, <3>1, Holders
      <4>2. UNCHANGED <<orphan, daemon>>
        BY <4>1 DEF SpawnCompiler, SpawnProgram
      <4> QED  BY <1>7, <2>3, <3>1, <4>1, <4>2
    <3>3. \E n \in Fds : files[n] = End(p, "w")
      <4>1. End(p, "w") \in InTable
        BY <3>2, Forked
      <4> QED  BY <4>1 DEF InTable
    <3>4. files[fd[w][2]] = End(p, "w")
      BY <1>2, <3>3 DEF OwnEnds
    <3>5. Len(fd[w]) = 4
      BY <1>4
    <3>6. files[fd[w][2]] \in inherited'[v] /\ files[fd[w][2]].pipe[1] = w
      BY <1>1, <1>3, <3>2, <3>4
    <3>7. "held" \in disturbed'[w]
      BY <3>2, <3>5, <3>6, Forked
    <3> QED  BY <3>1, <3>7
  <2> QED  BY <2>2, <2>3
<1>8. Flows(w, p, q)'
  <2>1. content'[p] = content[p] /\ content'[q] = content[q]
    <3>1. /\ on[v] \notin {p, q}
          /\ Alive(v) /\ child[v].out # Free => child[v].out.pipe \notin {p, q}
      BY <1>2 DEF Alone
    <3> QED  BY <1>1, <3>1, ContentKept
  <2>2. maxrss \in Nat /\ maxrss' \in Nat /\ maxrss <= maxrss'
    BY MemoryGrows
  <2>3. pc[w] \in Reaped /\ ~killed[w] /\ pc[w] \notin {"fork", "ends", "feed"} =>
          child[w].mem <= maxrss'
    <3>1. pc[w] \in Reaped => child[w].mem \in Nat
      BY <1>0 DEF PlaceOK, Reaped, NoChildYet, TypeOK, Children
    <3> QED  BY <1>2, <2>2, <3>1 DEF Flows
  <2>4. Produced(w, q) => Produced(w, q)'
    BY <1>0, <2>1 DEF Produced, Same
  <2>5. disturbed[w] \subseteq disturbed'[w]
    BY <1>0 DEF Same
  <2> QED  BY <1>0, <1>2, <2>1, <2>3, <2>4, <2>5 DEF Flows, Same
<1>9. Alone(w, p, q)'
  BY <1>6 DEF Alone
<1>10. HoldersTold(w, p)'
  BY <1>7 DEF HoldersTold
<1> QED  BY <1>5, <1>8, <1>9, <1>10 DEF RunOK, p, q

LEMMA BystanderDeserved ==
  ASSUME TypeOK, PlacesOK, NEW v \in Workers, Step(v), NEW w \in Workers \ {v}, DeservedOK(w)
  PROVE  DeservedOK(w)'
<1>1. Same(w) /\ (OverLimit(w) => OverLimit(w)') /\ work' = work
  BY Frame, MemoryGrows
<1>2. \A fate, mem : Deserves(w, fate, mem)' = Deserves(w, fate, mem)
  BY <1>1 DEF Deserves
<1> QED  BY <1>1, <1>2 DEF Same, DeservedOK

-------------------------------------------------------------------------------
(* The steps of a worker on its own pipes. *)

LEMMA OwnClean ==
  ASSUME TypeOK, NEW w \in Workers, Step(w), Clean(w)', pc'[w] \in Run \union {"open"}
  PROVE  Clean(w) /\ disturbed[w] \subseteq disturbed'[w]
<1> USE DEF system, procs, threads, readers, results, world
<1>1. CASE NextSubmission(w)
  BY <1>1 DEF NextSubmission, Run, TypeOK
<1>2. CASE UNCHANGED disturbed \/ \E x, y, z : Happens(x, y, z)
  <2>1. disturbed[w] \subseteq disturbed'[w]
    BY <1>2, HappensType
  <2> QED  BY <2>1 DEF Clean
<1>3. CASE WorkerStep(w) /\ ~NextSubmission(w)
  <2>1. UNCHANGED disturbed \/ \E x, y, z : Happens(x, y, z)
    BY <1>3
    DEF WorkerStep, StartFails, OpenErr, CompilerForkFails, SpawnCompiler, CloseErrWrite,
        JoinCompiler, CloseErrAgain, PipesFail, OpenPipes, ForkFails, SpawnProgram,
        CloseChildEnds, Feed, CompilerReaderFails, ReaderFails, SecondReaderFails, Abandon,
        JoinReader, Judge, Reap, Kill, Fork, Uses
  <2> QED  BY <1>2, <2>1
<1>4. CASE ReaderStep(w) \/ ChildStep(w) \/ DaemonEnds(w)
  <2>1. UNCHANGED disturbed \/ \E x, y, z : Happens(x, y, z)
    BY <1>4
    DEF ReaderStep, Read, ReadSome, ReadEof, ReaderEnds, ChildStep, Exit, CpuLimit, OrphanEnds,
        DaemonEnds, Uses
  <2> QED  BY <1>2, <2>1
<1> QED  BY <1>1, <1>3, <1>4 DEF Step

(* Three pipes that nobody has.                                             *)
LEMMA OpenPipesRun ==
  ASSUME TypeOK, PlacesOK, ChildrenOK, NEW w \in Workers, OpenPipes(w)
  PROVE  \E a, b \in 1 .. MaxPipes : a # b /\ RunOK(w, <<w, a>>, <<w, b>>)'
<1> USE DEF system, procs, threads, readers, results, world
<1>1. Open(w, 2) /\ PlaceOK(w)
  BY DEF OpenPipes, PlacesOK
<1>2. 2 \in 1 .. 2 /\ 2 <= Cardinality(UnusedPipes(w))
  BY <1>1 DEF Open
<1>3. PICK a, b \in 1 .. MaxPipes :
        /\ a \in UnusedPipes(w) /\ b \in UnusedPipes(w) /\ a # b
        /\ NewEnd(w, 1) = End(<<w, a>>, "r") /\ NewEnd(w, 2) = End(<<w, a>>, "w")
        /\ NewEnd(w, 3) = End(<<w, b>>, "r") /\ NewEnd(w, 4) = End(<<w, b>>, "w")
  BY <1>2, NewEnds
<1> DEFINE p == <<w, a>>
           q == <<w, b>>
<1>4. p \in Pipes /\ q \in Pipes /\ p # Free /\ q # Free
  BY EndIs, Constants
<1>5. \A s \in {"r", "w"} : End(p, s) \notin OpenEnds /\ End(q, s) \notin OpenEnds
  BY <1>3 DEF UnusedPipes
<1>6. content'[p] = Nothing /\ content'[q] = Nothing
  <2>1. p[1] = w /\ p[2] = a /\ q[1] = w /\ q[2] = b
    OBVIOUS
  <2>2. content' = [r \in Pipes |-> IF r[1] = w /\ r[2] \in UnusedPipes(w) THEN Nothing ELSE content[r]]
    BY <1>1 DEF Open
  <2> QED  BY <1>3, <1>4, <2>1, <2>2
<1> HIDE DEF p, q
<1>7. pc'[w] = "fork" /\ fd'[w] = Numbers(2) /\ UNCHANGED <<child, inherited, orphan, daemon, on, sink>>
  BY DEF OpenPipes, TypeOK
<1>8. /\ files'[fd'[w][1]] = NewEnd(w, 1) /\ files'[fd'[w][2]] = NewEnd(w, 2)
      /\ files'[fd'[w][3]] = NewEnd(w, 3) /\ files'[fd'[w][4]] = NewEnd(w, 4)
  <2>1. \A i \in 1 .. 2 * 2 : files'[Numbers(2)[i]] = NewEnd(w, i)
    BY <1>1, OpenTable
  <2>2. 1 \in 1 .. 2 * 2 /\ 2 \in 1 .. 2 * 2 /\ 3 \in 1 .. 2 * 2 /\ 4 \in 1 .. 2 * 2
    OBVIOUS
  <2> QED  BY <1>7, <2>1, <2>2
<1>9. OwnEnds(w, p, q)'
  <2>1. on[w] = Free
    BY <1>1 DEF OpenPipes, PlaceOK, Reading
  <2> QED  BY <1>3, <1>7, <1>8, <2>1 DEF OwnEnds, p, q
<1>10. Alone(w, p, q)'
  <2> SUFFICES ASSUME NEW v \in Workers \ {w}
               PROVE  /\ on[v] \notin {p, q}
                      /\ Alive(v) /\ child[v].out # Free => child[v].out.pipe \notin {p, q}
    BY <1>7 DEF Alone, Alive
  <2>1. on[v] \notin {p, q}
    <3>1. on[v] # Free => End(on[v], "r") \in OpenEnds
      BY OpenIs
    <3> QED  BY <1>4, <1>5, <3>1
  <2>2. ASSUME Alive(v), child[v].out # Free PROVE child[v].out.pipe \notin {p, q}
    <3>1. child[v].out \in inherited[v]
      BY <2>2 DEF ChildrenOK
    <3>2. child[v].out \in OpenEnds /\ child[v].out \in Ends
      BY <3>1, OpenIs DEF TypeOK
    <3>3. child[v].out = End(child[v].out.pipe, child[v].out.side) /\ child[v].out.side \in {"r", "w"}
      BY <3>2 DEF Ends, End
    <3> QED  BY <1>5, <3>2, <3>3
  <2> QED  BY <2>1, <2>2
<1>11. HoldersTold(w, p)'
  <2>1. \A v \in Workers : inherited[v] \union orphan[v] \union daemon[v] \subseteq OpenEnds
    BY OpenIs
  <2> QED  BY <1>5, <1>7, <2>1 DEF HoldersTold
<1>12. Flows(w, p, q)'
  BY <1>6, <1>7 DEF Flows
<1>13. RunOK(w, p, q)'
  BY <1>9, <1>10, <1>11, <1>12 DEF RunOK
<1> QED  BY <1>3, <1>13 DEF p, q

(* Nobody comes to share the pipes by a step of w.                          *)
LEMMA OwnShared ==
  ASSUME TypeOK, PlacesOK, TableOK, NEW w \in Workers, Step(w), Clean(w)',
         NEW p \in Pipes, NEW q \in Pipes,
         pc[w] \in Run, pc'[w] \in Run, RunOK(w, p, q)
  PROVE  Alone(w, p, q)' /\ HoldersTold(w, p)'
<1>1. OwnEnds(w, p, q) /\ Alone(w, p, q) /\ HoldersTold(w, p)
  BY DEF RunOK
<1>2. \A v \in Workers \ {w} : Same(v)
  BY Frame
<1>3. Alone(w, p, q)'
  BY <1>1, <1>2 DEF Alone, Alive, Same
<1>4. End(p, "w") \notin inherited'[w] \union orphan'[w] \union daemon'[w]
  <2>1. End(p, "w") \notin inherited[w] \union orphan[w] \union daemon[w]
    BY <1>1 DEF HoldersTold
  <2>2. CASE SpawnProgram(w)
    <3>1. PlaceOK(w) /\ pc[w] = "fork"
      BY <2>2 DEF PlacesOK, SpawnProgram
    <3>2. files[fd[w][2]] = End(p, "w") /\ fd[w][2] \in Fds
      BY <1>1, <3>1 DEF OwnEnds, PlaceOK, Run
    <3>3. End(p, "w") # Free
      BY EndIs
    <3>4. \A n \in Fds \ {fd[w][2], fd[w][3]} : files[n] # End(p, "w")
      BY <3>2, <3>3 DEF TableOK
    <3>5. inherited'[w] = {files[n] : n \in Fds \ {fd[w][2], fd[w][3]}} \ {Free}
      BY <2>2, Spawned
    <3>6. UNCHANGED <<orphan, daemon>>
      BY <2>2 DEF SpawnProgram
    <3> QED  BY <2>1, <3>4, <3>5, <3>6
  <2>3. ~SpawnCompiler(w)
    BY DEF SpawnCompiler, Run
  <2> QED  BY <2>1, <2>2, <2>3, Holders
<1>5. disturbed[w] \subseteq disturbed'[w]
  BY OwnClean
<1>6. HoldersTold(w, p)'
  <2> SUFFICES ASSUME NEW v \in Workers,
                      End(p, "w") \in inherited'[v] \union orphan'[v] \union daemon'[v]
               PROVE  v # w /\ "held" \in disturbed'[w]
    BY DEF HoldersTold
  <2>1. v # w
    BY <1>4
  <2>2. End(p, "w") \in inherited[v] \union orphan[v] \union daemon[v]
    BY <1>2, <2>1 DEF Same
  <2> QED  BY <1>1, <1>5, <2>1, <2>2 DEF HoldersTold
<1> QED  BY <1>3, <1>6

(* The steps of runBinary() ...                                             *)
LEMMA SpawnProgramRun ==
  ASSUME TypeOK, PlacesOK, NEW w \in Workers, SpawnProgram(w),
         NEW p \in Pipes, NEW q \in Pipes, OwnEnds(w, p, q), Flows(w, p, q)
  PROVE  OwnEnds(w, p, q)' /\ Flows(w, p, q)'
<1>1. pc[w] = "fork" /\ pc'[w] = "ends"
  BY DEF SpawnProgram, TypeOK
<1>2. UNCHANGED <<files, fd, on, content>>
  BY DEF SpawnProgram, readers
<1>3. /\ child'[w].alive
      /\ child'[w].in = files[fd[w][1]] /\ child'[w].out = files[fd[w][4]]
  BY Spawned
<1>4. OwnEnds(w, p, q)'
  BY <1>1, <1>2, <1>3 DEF OwnEnds
<1>5. Flows(w, p, q)'
  BY <1>1, <1>2, <1>3 DEF Flows
<1> QED  BY <1>4, <1>5

LEMMA CloseChildEndsRun ==
  ASSUME TypeOK, PlacesOK, NEW w \in Workers, CloseChildEnds(w),
         NEW p \in Pipes, NEW q \in Pipes, OwnEnds(w, p, q), Flows(w, p, q)
  PROVE  OwnEnds(w, p, q)' /\ Flows(w, p, q)'
<1>1. pc[w] = "ends" /\ pc'[w] = "feed" /\ Close({fd[w][1], fd[w][4]})
  BY DEF CloseChildEnds, TypeOK
<1>2. UNCHANGED <<fd, on, content, child>>
  BY DEF CloseChildEnds, readers, procs
<1>3. /\ fd[w][2] \in Fds \ {fd[w][1], fd[w][4]}
      /\ fd[w][3] \in Fds \ {fd[w][1], fd[w][4]}
  BY <1>1 DEF PlacesOK, PlaceOK, Run
<1>4. files'[fd[w][2]] = files[fd[w][2]] /\ files'[fd[w][3]] = files[fd[w][3]]
  BY <1>1, <1>3, CloseType
<1>5. OwnEnds(w, p, q)'
  BY <1>1, <1>2, <1>4 DEF OwnEnds
<1>7. disturbed[w] \subseteq disturbed'[w]
  BY HappensType DEF CloseChildEnds, Uses
<1>6. Flows(w, p, q)'
  BY <1>1, <1>2, <1>7 DEF Flows
<1> QED  BY <1>5, <1>6

LEMMA FeedRun ==
  ASSUME TypeOK, PlacesOK, TableOK, NEW w \in Workers, Feed(w),
         NEW p \in Pipes, NEW q \in Pipes, p # q, OwnEnds(w, p, q), Flows(w, p, q)
  PROVE  OwnEnds(w, p, q)' /\ Flows(w, p, q)'
<1>1. pc[w] = "feed" /\ pc'[w] = "running" /\ Close({fd[w][2]}) /\ reader'[w] = "read"
  BY DEF Feed, WriteInput, TypeOK
<1>2. UNCHANGED <<fd, on, sink, child, killed>>
  BY DEF Feed, procs
<1>3. PlaceOK(w) /\ fd[w][2] \in Fds /\ fd[w][3] \in Fds \ {fd[w][2]}
  BY <1>1 DEF PlacesOK, PlaceOK, Run
<1>4. files[fd[w][2]] = End(p, "w") /\ files[fd[w][3]] = End(q, "r") /\ End(p, "w") # Free
  BY <1>1, EndIs DEF OwnEnds
<1>5. \A n \in Fds : files'[n] # End(p, "w")
  <2>1. \A n \in Fds \ {fd[w][2]} : files[n] # End(p, "w")
    BY <1>3, <1>4 DEF TableOK
  <2> QED  BY <1>1, <1>3, <1>4, <2>1, CloseType
<1>6. files'[fd[w][3]] = End(q, "r")
  BY <1>1, <1>3, <1>4, CloseType
<1>7. OwnEnds(w, p, q)'
  BY <1>1, <1>2, <1>5, <1>6 DEF OwnEnds
<1>8. content'[p] = Text(w, "input") /\ content'[q] = Nothing
  <2>1. content[p] = Nothing /\ content[q] = Nothing
    BY <1>1 DEF Flows
  <2>2. content' = [content EXCEPT ![p] = Joined(@, Text(w, "input"))]
    <3>1. /\ files[fd[w][2]] # Free
          /\ files[fd[w][2]].side = "w" /\ files[fd[w][2]].pipe = p
      BY <1>4, EndIs
    <3> QED  BY <3>1 DEF Feed, WriteInput
  <2>3. Joined(Nothing, Text(w, "input")) = Text(w, "input")
    BY DEF Joined
  <2> QED  BY <2>1, <2>2, <2>3 DEF TypeOK
<1>9. sink[w] = Nothing /\ ~killed[w] /\ child[w] # NoChild
  BY <1>1, <1>3 DEF PlaceOK, Reading, Reaped, NoChildYet
<1>10. ~child[w].alive => \/ child[w].fate = "crashes"
                          \/ child[w].fate = "loops" /\ "cpu" \in disturbed[w]
  BY <1>1 DEF Flows
<1>12. disturbed[w] \subseteq disturbed'[w]
  BY HappensType DEF Feed, Uses
<1>11. Flows(w, p, q)'
  BY <1>1, <1>2, <1>8, <1>9, <1>10, <1>12 DEF Flows, Produced, Reaped
<1> QED  BY <1>7, <1>11

LEMMA JoinReaderRun ==
  ASSUME TypeOK, PlacesOK, NEW w \in Workers, JoinReader(w),
         NEW p \in Pipes, NEW q \in Pipes, OwnEnds(w, p, q), Flows(w, p, q)
  PROVE  OwnEnds(w, p, q)' /\ Flows(w, p, q)'
<1>1. pc[w] = "joinReader" /\ pc'[w] = "judge" /\ reader[w] = "end" /\ reader'[w] = "none"
  BY DEF JoinReader, TypeOK
<1>2. UNCHANGED <<files, content, child, fd, on, sink, killed, maxrss, disturbed>>
  BY DEF JoinReader, system, procs
<1>3. OwnEnds(w, p, q)'
  BY <1>1, <1>2 DEF OwnEnds
<1>4. Flows(w, p, q)'
  BY <1>1, <1>2 DEF Flows, Produced, Reaped
<1> QED  BY <1>3, <1>4

LEMMA ReapRun ==
  ASSUME TypeOK, PlacesOK, NEW w \in Workers, Reap(w), pc[w] \in Run,
         NEW p \in Pipes, NEW q \in Pipes, OwnEnds(w, p, q), Flows(w, p, q)
  PROVE  OwnEnds(w, p, q)' /\ Flows(w, p, q)'
<1>1. pc[w] = "running" /\ pc'[w] = "joinReader" /\ ~child[w].alive
  BY DEF Reap, Joining, Run, TypeOK
<1>2. UNCHANGED <<files, content, child, fd, reader, on, sink, killed, disturbed>>
  BY DEF Reap, readers
<1>3. child[w].mem <= maxrss'
  <2>1. child[w].mem \in Nat /\ maxrss \in Nat
    BY <1>1 DEF PlacesOK, PlaceOK, NoChildYet, TypeOK, Children
  <2> QED  BY <2>1, LargerIs DEF Reap
<1>4. ~killed[w]
  BY <1>1 DEF PlacesOK, PlaceOK, Reaped
<1>5. OwnEnds(w, p, q)'
  BY <1>1, <1>2 DEF OwnEnds
<1>6. Flows(w, p, q)'
  BY <1>1, <1>2, <1>3, <1>4 DEF Flows, Produced, Reaped
<1> QED  BY <1>5, <1>6

(* A program is killed because it does not end, because somebody holds its  *)
(* input open, or early.                                                    *)
LEMMA KillRun ==
  ASSUME TypeOK, PlacesOK, NEW w \in Workers, Kill(w), pc[w] \in Run,
         NEW p \in Pipes, NEW q \in Pipes,
         OwnEnds(w, p, q), HoldersTold(w, p), Flows(w, p, q)
  PROVE  OwnEnds(w, p, q)' /\ Flows(w, p, q)'
<1>1. pc[w] = "running" /\ pc'[w] = "joinReader" /\ killed'[w]
  BY DEF Kill, Joining, Run, TypeOK
<1>2. UNCHANGED <<files, content, fd, reader, on, sink>>
  BY DEF Kill, readers
<1>3. PlaceOK(w) /\ child[w] # NoChild /\ child[w].fate \in Programs
  BY <1>1 DEF PlacesOK, PlaceOK, Run, NoChildYet
<1>4. /\ ~child'[w].alive /\ child'[w].fate = child[w].fate
      /\ child'[w].in = child[w].in /\ child'[w].out = child[w].out
  BY <1>3, Buried DEF Kill
<1>5. child[w].in = End(p, "r")
  BY <1>1 DEF OwnEnds
<1>6. child[w].fate = "loops" \/ disturbed'[w] \intersect {"held", "early"} # {}
  <2>1. CASE child[w].alive /\ ~CanExit(w) /\ child[w].fate \in {"right", "wrong"}
    <3>1. HasWriter(p)
      BY <1>5, <2>1, EndIs DEF CanExit
    <3>2. \A n \in Fds : files[n] # End(p, "w")
      BY <1>1 DEF OwnEnds
    <3>3. PICK v \in Workers : End(p, "w") \in inherited[v] \union orphan[v] \union daemon[v]
      BY <3>1, <3>2, WriterIs
    <3>4. "held" \in disturbed[w]
      BY <3>3 DEF HoldersTold
    <3>5. disturbed[w] \subseteq disturbed'[w]
      BY HappensType DEF Kill
    <3> QED  BY <3>4, <3>5
  <2>2. CASE child[w].alive /\ ~CanExit(w) /\ child[w].fate \notin {"right", "wrong"}
    BY <1>3, <2>2 DEF CanExit, Programs
  <2>3. CASE ~(child[w].alive /\ ~CanExit(w))
    <3>1. Happens({}, {}, Only(w, "early"))
      BY <2>3 DEF Kill
    <3>2. "early" \in Only(w, "early")[w]
      BY OwnType DEF Disturbances
    <3> QED  BY <3>1, <3>2, HappensType
  <2> QED  BY <2>1, <2>2, <2>3
<1>7. OwnEnds(w, p, q)'
  BY <1>1, <1>2, <1>4 DEF OwnEnds
<1>8. Flows(w, p, q)'
  BY <1>1, <1>2, <1>4, <1>6 DEF Flows, Reaped
<1> QED  BY <1>7, <1>8

(* ... of the reader thread ...                                             *)
LEMMA ReadRun ==
  ASSUME TypeOK, PlacesOK, NEW w \in Workers, Read(w), pc[w] \in Run,
         NEW p \in Pipes, NEW q \in Pipes, OwnEnds(w, p, q), Flows(w, p, q)
  PROVE  OwnEnds(w, p, q)' /\ Flows(w, p, q)'
<1>1. Len(fd[w]) = 4
  BY DEF PlacesOK, PlaceOK
<1>2. files[Drained(w)] = End(q, "r")
  BY <1>1 DEF Drained, OwnEnds
<1>3. files[Drained(w)] # Free /\ files[Drained(w)].side = "r" /\ files[Drained(w)].pipe = q
  BY <1>2, EndIs
<1>4. reader'[w] = "blocked" /\ on'[w] = q /\ Uses(w, {Drained(w)})
  BY <1>3 DEF Read, TypeOK
<1>5. UNCHANGED <<files, content, child, pc, fd, killed, sink, maxrss>>
  BY DEF Read, system, procs, threads
<1>6. disturbed[w] \subseteq disturbed'[w]
  BY <1>4, HappensType DEF Uses
<1>7. OwnEnds(w, p, q)'
  BY <1>4, <1>5 DEF OwnEnds
<1>8. Flows(w, p, q)'
  BY <1>4, <1>5, <1>6 DEF Flows, Produced, Run
<1> QED  BY <1>7, <1>8

(* It reads all there is at once.                                           *)
LEMMA ReadSomeRun ==
  ASSUME TypeOK, PlacesOK, NEW w \in Workers, ReadSome(w), pc[w] \in Run,
         NEW p \in Pipes, NEW q \in Pipes, p # q, OwnEnds(w, p, q), Flows(w, p, q)
  PROVE  OwnEnds(w, p, q)' /\ Flows(w, p, q)'
<1>1. PlaceOK(w) /\ pc[w] \in {"running", "joinReader"} /\ on[w] = q
  <2>1. PlaceOK(w) /\ on[w] \in {Free, q}
    BY DEF PlacesOK, OwnEnds
  <2>2. on[w] # Free /\ pc[w] \in Reading
    BY <2>1 DEF PlaceOK, ReadSome
  <2> QED  BY <2>1, <2>2 DEF Reading, Run
<1>2. /\ content[q] # Nothing /\ content'[q] = Nothing /\ content'[p] = content[p]
      /\ sink'[w] = Joined(sink[w], content[q])
      /\ reader'[w] = "read" /\ on'[w] = Free
  BY <1>1 DEF ReadSome, TypeOK
<1>3. UNCHANGED <<files, child, pc, fd, killed, maxrss, disturbed>>
  BY DEF ReadSome, procs, threads
<1>4. ~child[w].alive /\ content[p] = Text(w, "input") /\ (~killed[w] => Produced(w, q))
  BY <1>1, <1>2 DEF Flows
<1>5. Produced(w, q) => Produced(w, q)'
  <2> SUFFICES ASSUME Produced(w, q), child[w].fate \in {"right", "wrong"}
               PROVE  sink'[w] = Text(w, child[w].fate)
    BY <1>2, <1>3 DEF Produced
  <2>1. {sink[w], content[q]} = {Nothing, Text(w, child[w].fate)}
    BY DEF Produced
  <2>2. sink[w] = Nothing /\ content[q] = Text(w, child[w].fate)
    <3>1. Text(w, child[w].fate) # Nothing
      BY <1>2, <2>1
    <3> QED  BY <1>2, <2>1, <3>1
  <2> QED  BY <1>2, <2>2 DEF Joined
<1>6. OwnEnds(w, p, q)'
  BY <1>2, <1>3 DEF OwnEnds
<1>7. Flows(w, p, q)'
  BY <1>1, <1>2, <1>3, <1>4, <1>5 DEF Flows
<1> QED  BY <1>6, <1>7

(* It comes to the end when the program has ended.                          *)
LEMMA ReadEofRun ==
  ASSUME TypeOK, PlacesOK, ChildrenOK, NEW w \in Workers, ReadEof(w), pc[w] \in Run,
         NEW p \in Pipes, NEW q \in Pipes, OwnEnds(w, p, q), Flows(w, p, q)
  PROVE  OwnEnds(w, p, q)' /\ Flows(w, p, q)'
<1>1. PlaceOK(w) /\ pc[w] \in {"running", "joinReader"} /\ on[w] = q
  <2>1. PlaceOK(w) /\ on[w] \in {Free, q}
    BY DEF PlacesOK, OwnEnds
  <2>2. on[w] # Free /\ pc[w] \in Reading
    BY <2>1 DEF PlaceOK, ReadEof
  <2> QED  BY <2>1, <2>2 DEF Reading, Run
<1>2. content[q] = Nothing /\ ~HasWriter(q) /\ reader'[w] = "stop" /\ on'[w] = Free
  BY <1>1 DEF ReadEof, TypeOK
<1>3. UNCHANGED <<files, content, child, pc, fd, killed, sink, maxrss, disturbed>>
  BY DEF ReadEof, system, procs, threads
<1>4. ~child[w].alive
  <2> SUFFICES ASSUME child[w].alive PROVE FALSE
    OBVIOUS
  <2>1. child[w] # NoChild /\ child[w].out = End(q, "w")
    BY <1>1 DEF PlaceOK, NoChildYet, OwnEnds
  <2>2. End(q, "w") \in inherited[w]
    BY <2>1, EndIs DEF ChildrenOK, Alive
  <2> QED  BY <1>2, <2>2, OpenIs DEF HasWriter
<1>5. OwnEnds(w, p, q)'
  BY <1>2, <1>3 DEF OwnEnds
<1>6. Flows(w, p, q)'
  BY <1>1, <1>2, <1>3, <1>4 DEF Flows, Produced
<1> QED  BY <1>5, <1>6

LEMMA ReaderEndsRun ==
  ASSUME TypeOK, PlacesOK, NEW w \in Workers, ReaderEnds(w), pc[w] \in Run,
         NEW p \in Pipes, NEW q \in Pipes, OwnEnds(w, p, q), Flows(w, p, q)
  PROVE  OwnEnds(w, p, q)' /\ Flows(w, p, q)'
<1>1. PlaceOK(w) /\ Len(fd[w]) = 4
  BY DEF PlacesOK, PlaceOK
<1>2. UNCHANGED <<files, content, child, pc, fd, killed, sink, on, maxrss, disturbed>>
  BY <1>1 DEF ReaderEnds, procs, threads
<1>3. reader[w] = "stop" /\ reader'[w] = "end"
  BY DEF ReaderEnds, TypeOK
<1>4. OwnEnds(w, p, q)'
  BY <1>2 DEF OwnEnds
<1>5. Flows(w, p, q)'
  BY <1>2, <1>3 DEF Flows, Produced
<1> QED  BY <1>4, <1>5

(* ... and of the program, which ends after its input does.                 *)
LEMMA ExitRun ==
  ASSUME TypeOK, PlacesOK, NEW w \in Workers, Exit(w), pc[w] \in Run,
         NEW p \in Pipes, NEW q \in Pipes, p # q, OwnEnds(w, p, q), Flows(w, p, q)
  PROVE  OwnEnds(w, p, q)' /\ Flows(w, p, q)'
<1>1. /\ PlaceOK(w) /\ child[w] # NoChild /\ child[w].alive
      /\ pc[w] \in {"ends", "feed", "running"} /\ child[w].fate \in Programs
  BY DEF PlacesOK, PlaceOK, Exit, Alive, NoChildYet, Reaped, Run
<1>2. ~killed[w]
  BY <1>1 DEF PlaceOK, Reaped
<1>3. /\ child'[w] # NoChild /\ ~child'[w].alive /\ child'[w].fate = child[w].fate
      /\ child'[w].in = child[w].in /\ child'[w].out = child[w].out
  BY <1>1, Buried DEF Exit
<1>4. UNCHANGED <<files, pc, fd, killed, reader, on, sink, maxrss, disturbed>>
  BY DEF Exit, threads, readers
<1>5. child[w].in = End(p, "r") /\ child[w].out = End(q, "w")
  BY <1>1 DEF OwnEnds
<1>6. Input(w) = content[p] /\ content' = [content EXCEPT ![q] = Joined(@, Output(w))]
  <2>1. child[w].in # Free /\ child[w].out # Free /\ child[w].in.pipe = p /\ child[w].out.pipe = q
    BY <1>5, EndIs
  <2> QED  BY <2>1 DEF Input, Exit
<1>7. content[q] = Nothing
  BY <1>1 DEF Flows
<1>8. content'[p] = content[p] /\ content'[q] = Output(w)
  BY <1>6, <1>7 DEF Joined, TypeOK
<1>9. child[w].fate # "loops"
  BY DEF Exit, CanExit
<1>10. OwnEnds(w, p, q)'
  BY <1>3, <1>4 DEF OwnEnds
<1>11. CASE pc[w] \in {"ends", "feed"}
  <2>1. HasWriter(p)
    <3>1. fd[w][2] \in Fds /\ files[fd[w][2]] = End(p, "w") /\ End(p, "w") # Free
      BY <1>1, <1>11, EndIs DEF PlaceOK, Run, OwnEnds
    <3> QED  BY <3>1, OpenIs DEF HasWriter
  <2>2. child[w].fate = "crashes"
    <3>1. child[w].in # Free /\ child[w].in.pipe = p
      BY <1>5, EndIs
    <3>2. child[w].fate \notin {"right", "wrong"}
      BY <2>1, <3>1 DEF Exit, CanExit
    <3> QED  BY <1>1, <1>9, <3>2 DEF Programs
  <2>3. Output(w) = Nothing
    BY <2>2 DEF Output
  <2> QED  BY <1>3, <1>4, <1>8, <1>10, <1>11, <2>2, <2>3 DEF Flows
<1>12. CASE pc[w] = "running"
  <2>1. content[p] = Text(w, "input") /\ sink[w] = Nothing /\ reader[w] \notin {"stop", "end"}
    BY <1>1, <1>12 DEF Flows
  <2>2. child[w].fate \in {"right", "wrong"} => Output(w) = Text(w, child[w].fate)
    BY <1>6, <2>1 DEF Output
  <2>3. Produced(w, q)'
    BY <1>3, <1>4, <1>8, <1>9, <2>1, <2>2 DEF Produced
  <2> QED  BY <1>2, <1>3, <1>4, <1>8, <1>10, <1>12, <2>1, <2>3 DEF Flows, Reaped
<1> QED  BY <1>1, <1>11, <1>12

(* One that computes for ever meets its limit of CPU time.                  *)
LEMMA CpuLimitRun ==
  ASSUME TypeOK, PlacesOK, NEW w \in Workers, CpuLimit(w), pc[w] \in Run,
         NEW p \in Pipes, NEW q \in Pipes, OwnEnds(w, p, q), Flows(w, p, q)
  PROVE  OwnEnds(w, p, q)' /\ Flows(w, p, q)'
<1>1. /\ PlaceOK(w) /\ child[w] # NoChild /\ child[w].alive /\ child[w].fate = "loops"
      /\ pc[w] \in {"ends", "feed", "running"} /\ ~killed[w]
  BY DEF PlacesOK, PlaceOK, CpuLimit, Alive, NoChildYet, Reaped, Run
<1>2. /\ ~child'[w].alive /\ child'[w].fate = child[w].fate
      /\ child'[w].in = child[w].in /\ child'[w].out = child[w].out
  BY <1>1, Buried DEF CpuLimit
<1>3. UNCHANGED <<files, content, pc, fd, killed, reader, on, sink>>
  BY DEF CpuLimit, threads, readers
<1>4. "cpu" \in disturbed'[w]
  <2>1. "cpu" \in Only(w, "cpu")[w]
    BY OwnType DEF Disturbances
  <2> QED  BY <2>1, HappensType DEF CpuLimit
<1>5. OwnEnds(w, p, q)'
  BY <1>2, <1>3 DEF OwnEnds
<1>6. Flows(w, p, q)'
  BY <1>1, <1>2, <1>3, <1>4 DEF Flows, Produced, Reaped
<1> QED  BY <1>5, <1>6

LEMMA OwnRun ==
  ASSUME TypeOK, PlacesOK, TableOK, ChildrenOK, CleanOK,
         NEW w \in Workers, Step(w), Clean(w)', pc'[w] \in Run
  PROVE  \E a, b \in 1 .. MaxPipes : a # b /\ RunOK(w, <<w, a>>, <<w, b>>)'
<1>1. CASE OpenPipes(w)
  BY <1>1, OpenPipesRun
<1>2. CASE ~OpenPipes(w)
  <2>1. \/ SpawnProgram(w) \/ CloseChildEnds(w) \/ Feed(w) \/ JoinReader(w)
        \/ pc[w] \in Run /\ (Reap(w) \/ Kill(w))
        \/ pc[w] \in Run /\ ReaderStep(w)
        \/ pc[w] \in Run /\ (ChildStep(w) \/ DaemonEnds(w) \/ SecondReaderFails(w))
    <3>1. CASE WorkerStep(w)
      <4>1. CASE \/ StartFails(w) \/ CompilerForkFails(w) \/ PipesFail(w) \/ ForkFails(w)
                 \/ CompilerReaderFails(w) \/ ReaderFails(w)
        <5>1. pc'[w] = "done"
          BY <4>1
          DEF StartFails, CompilerForkFails, PipesFail, ForkFails, CompilerReaderFails,
              ReaderFails, Abandon, GiveUp, TypeOK
        <5> QED  BY <5>1 DEF Run
      <4>2. CASE OpenErr(w) \/ SpawnCompiler(w) \/ CloseErrWrite(w) \/ JoinCompiler(w)
                 \/ CloseErrAgain(w) \/ Judge(w) \/ NextSubmission(w)
        <5>1. pc'[w] \in {"spawn", "unshare", "compiling", "closeAgain", "open", "done", "start"}
          BY <4>2
          DEF OpenErr, SpawnCompiler, CloseErrWrite, JoinCompiler, CloseErrAgain, Judge,
              NextSubmission, TypeOK
        <5> QED  BY <5>1 DEF Run
      <4>3. CASE Reap(w) \/ Kill(w)
        <5>1. pc[w] \in Run
          BY <4>3 DEF Reap, Kill, Joining, Run, TypeOK
        <5> QED  BY <4>3, <5>1
      <4>4. CASE SecondReaderFails(w)
        BY <4>4 DEF SecondReaderFails, Run
      <4> QED  BY <1>2, <3>1, <4>1, <4>2, <4>3, <4>4 DEF WorkerStep
    <3>2. CASE ReaderStep(w) \/ ChildStep(w) \/ DaemonEnds(w)
      <4>1. UNCHANGED pc
        BY <3>2
        DEF ReaderStep, Read, ReadSome, ReadEof, ReaderEnds, ChildStep, Exit, CpuLimit,
            OrphanEnds, DaemonEnds, threads
      <4> QED  BY <3>2, <4>1
    <3> QED  BY <3>1, <3>2 DEF Step
  <2>2. pc[w] \in Run
    BY <2>1 DEF SpawnProgram, CloseChildEnds, Feed, JoinReader, Run
  <2>3. Clean(w)
    BY OwnClean
  <2>4. PICK a, b \in 1 .. MaxPipes : a # b /\ RunOK(w, <<w, a>>, <<w, b>>)
    BY <2>2, <2>3 DEF CleanOK
  <2> DEFINE p == <<w, a>>
             q == <<w, b>>
  <2>5. p \in Pipes /\ q \in Pipes /\ p # q
    BY <2>4, EndIs
  <2>6. OwnEnds(w, p, q) /\ Alone(w, p, q) /\ HoldersTold(w, p) /\ Flows(w, p, q)
    BY <2>4 DEF RunOK
  <2>7. RunOK(w, p, q)
    BY <2>4
  <2> HIDE DEF p, q
  <2>8. Alone(w, p, q)' /\ HoldersTold(w, p)'
    BY <2>2, <2>5, <2>7, OwnShared
  <2>9. OwnEnds(w, p, q)' /\ Flows(w, p, q)'
    <3>1. CASE SpawnProgram(w)
      BY <2>5, <2>6, <3>1, SpawnProgramRun
    <3>2. CASE CloseChildEnds(w)
      BY <2>5, <2>6, <3>2, CloseChildEndsRun
    <3>3. CASE Feed(w)
      BY <2>5, <2>6, <3>3, FeedRun
    <3>4. CASE JoinReader(w)
      BY <2>5, <2>6, <3>4, JoinReaderRun
    <3>5. CASE Reap(w)
      BY <2>2, <2>5, <2>6, <3>5, ReapRun
    <3>6. CASE Kill(w)
      BY <2>2, <2>5, <2>6, <3>6, KillRun
    <3>7. CASE Read(w)
      BY <2>2, <2>5, <2>6, <3>7, ReadRun
    <3>8. CASE ReadSome(w)
      BY <2>2, <2>5, <2>6, <3>8, ReadSomeRun
    <3>9. CASE ReadEof(w)
      BY <2>2, <2>5, <2>6, <3>9, ReadEofRun
    <3>10. CASE ReaderEnds(w)
      BY <2>2, <2>5, <2>6, <3>10, ReaderEndsRun
    <3>11. CASE Exit(w)
      BY <2>2, <2>5, <2>6, <3>11, ExitRun
    <3>12. CASE OrphanEnds(w) \/ DaemonEnds(w) \/ SecondReaderFails(w)
      <4>1. UNCHANGED <<files, content, child, pc, fd, killed, reader, on, sink, maxrss, disturbed>>
        BY <3>12 DEF OrphanEnds, DaemonEnds, SecondReaderFails, system, procs, threads, readers
      <4> QED  BY <2>6, <4>1 DEF OwnEnds, Flows, Produced
    <3>13. CASE CpuLimit(w)
      BY <2>2, <2>5, <2>6, <3>13, CpuLimitRun
    <3> QED
      BY <2>1, <3>1, <3>2, <3>3, <3>4, <3>5, <3>6, <3>7, <3>8, <3>9, <3>10, <3>11, <3>12, <3>13
      DEF ReaderStep, ChildStep
  <2>10. RunOK(w, p, q)'
    BY <2>8, <2>9 DEF RunOK
  <2> QED  BY <2>4, <2>10 DEF p, q
<1> QED  BY <1>1, <1>2

(* The verdict on a test case is the one deserved, but for what disturbed   *)
(* it.                                                                      *)
LEMMA JudgeDeserved ==
  ASSUME TypeOK, PlacesOK, NEW w \in Workers, Judge(w),
         NEW p, NEW q, Flows(w, p, q), DeservedOK(w)
  PROVE  DeservedOK(w)'
<1>1. /\ PlaceOK(w) /\ pc[w] = "judge" /\ child[w].fate \in Programs /\ ~child[w].alive
      /\ verdict[w] = "AC" /\ deserved[w] = Deserves(w, child[w].fate, child[w].mem)
  BY DEF PlacesOK, PlaceOK, Judge, Run, NoChildYet, Reaped, DeservedOK
<1>2. /\ verdict'[w] = CaseVerdict(w) /\ UNCHANGED <<deserved, maxrss, work>>
      /\ pc'[w] \in {"open", "done"} /\ (pc'[w] = "open" => verdict'[w] = "AC")
  BY <1>1 DEF Judge, Aggregated, TypeOK, world
<1>3. disturbed[w] \subseteq disturbed'[w]
  <2>1. \E x, y, z : Happens(x, y, z)
    BY DEF Judge, Uses
  <2> QED  BY <2>1, HappensType
<1>4. CASE killed[w]
  <2>1. CaseVerdict(w) = "TLE"
    BY <1>4 DEF CaseVerdict
  <2>2. child[w].fate = "loops" \/ disturbed[w] \intersect {"held", "early"} # {}
    BY <1>1, <1>4 DEF Flows
  <2>3. child[w].fate = "loops" => deserved[w] = "TLE"
    BY <1>1 DEF Deserves
  <2> QED  BY <1>1, <1>2, <1>3, <2>1, <2>2, <2>3 DEF DeservedOK, Run
<1>5. CASE ~killed[w] /\ OverLimit(w)
  <2>1. CaseVerdict(w) = "MLE"
    BY <1>5 DEF CaseVerdict
  <2>2. deserved[w] = "TLE" => child[w].fate = "loops"
    BY <1>1 DEF Deserves, Programs
  <2>3. child[w].fate = "loops" => "cpu" \in disturbed[w]
    BY <1>1, <1>5 DEF Flows, Produced
  <2>4. OverLimit(w)'
    BY <1>2, <1>5 DEF OverLimit
  <2> QED  BY <1>2, <1>3, <2>1, <2>2, <2>3, <2>4 DEF DeservedOK, Run
<1>6. CASE ~killed[w] /\ ~OverLimit(w)
  <2>1. Produced(w, q) /\ content[q] = Nothing /\ child[w].mem <= maxrss
    BY <1>1, <1>6 DEF Flows, Reaped
  <2>2. ~(child[w].mem > work.limit[w])
    <3>1. child[w].mem \in Nat /\ maxrss \in Nat
      BY <1>1 DEF PlaceOK, NoChildYet, TypeOK, Children
    <3>2. Workload(work)
      BY Constants DEF TypeOK
    <3>3. work.limit[w] \in Nat
      BY <3>2 DEF Workload
    <3> QED  BY <1>6, <2>1, <3>1, <3>3 DEF OverLimit
  <2>3. CaseVerdict(w) = StatusVerdict(w)
    BY <1>6 DEF CaseVerdict
  <2>4. CASE child[w].fate \in {"right", "wrong"}
    <3>1. sink[w] = Text(w, child[w].fate)
      BY <2>1, <2>4 DEF Produced
    <3>2. Text(w, "right") # Text(w, "wrong")
      BY DEF Text
    <3>3. CaseVerdict(w) = IF child[w].fate = "right" THEN "AC" ELSE "WA"
      BY <2>3, <2>4, <3>1, <3>2 DEF StatusVerdict
    <3>4. deserved[w] = IF child[w].fate = "right" THEN "AC" ELSE "WA"
      BY <1>1, <2>2, <2>4 DEF Deserves
    <3> QED  BY <1>1, <1>2, <3>3, <3>4 DEF DeservedOK, Run
  <2>5. CASE child[w].fate = "crashes"
    <3>1. CaseVerdict(w) = "RE"
      BY <2>3, <2>5 DEF StatusVerdict
    <3>2. deserved[w] = "RE"
      BY <1>1, <2>2, <2>5 DEF Deserves
    <3> QED  BY <1>1, <1>2, <3>1, <3>2 DEF DeservedOK, Run
  <2>6. CASE child[w].fate = "loops"
    <3>1. CaseVerdict(w) = "RE"
      BY <2>3, <2>6 DEF StatusVerdict
    <3>2. "cpu" \in disturbed'[w]
      BY <1>3, <2>1, <2>6 DEF Produced
    <3> QED  BY <1>1, <1>2, <3>1, <3>2 DEF DeservedOK, Run
  <2> QED  BY <1>1, <2>4, <2>5, <2>6 DEF Programs
<1> QED  BY <1>4, <1>5, <1>6

LEMMA OwnDeserved ==
  ASSUME TypeOK, PlacesOK, CompileOK, CleanOK, NEW w \in Workers, Step(w), Clean(w)'
  PROVE  DeservedOK(w)'
<1> USE DEF system, procs, threads, readers, results, world
<1>0. PlaceOK(w)
  BY DEF PlacesOK
<1>1. CASE \/ StartFails(w) \/ CompilerForkFails(w) \/ PipesFail(w) \/ ForkFails(w)
           \/ CompilerReaderFails(w) \/ ReaderFails(w)
  <2>1. \E u \in {"RE", "CE", "none"} : GiveUp(w, u)
    BY <1>1
    DEF StartFails, CompilerForkFails, PipesFail, ForkFails, CompilerReaderFails, ReaderFails, Abandon
  <2>2. \E x, y : Happens(x, y, Only(w, "failed"))
    BY <1>1
    DEF StartFails, CompilerForkFails, PipesFail, ForkFails, CompilerReaderFails, ReaderFails
  <2>3. "failed" \in disturbed'[w]
    <3>1. "failed" \in Only(w, "failed")[w]
      BY OwnType DEF Disturbances
    <3> QED  BY <2>2, <3>1, HappensType
  <2>4. pc'[w] = "done" /\ verdict'[w] \in {"RE", "CE", "none"}
    BY <2>1 DEF GiveUp, TypeOK
  <2> QED  BY <2>3, <2>4 DEF DeservedOK, Run
<1>2. CASE CloseErrAgain(w)
  <2>1. /\ pc[w] = "closeAgain" /\ child[w].fate \in Compilations
        /\ deserved[w] = IF child[w].fate = "compiles" THEN "AC" ELSE "CE"
        /\ killed[w] => child[w].fate = "hangs" \/ "early" \in disturbed[w]
    BY <1>0, <1>2 DEF CloseErrAgain, CompileOK, Compile, NoChildYet, PlaceOK
  <2>2. /\ UNCHANGED deserved
        /\ IF ~killed[w] /\ child[w].fate = "compiles"
           THEN pc'[w] = "open"
           ELSE pc'[w] = "done" /\ verdict'[w] = "CE"
    BY <1>2 DEF CloseErrAgain, TypeOK
  <2>3. disturbed[w] \subseteq disturbed'[w]
    BY <1>2, HappensType DEF CloseErrAgain, Uses
  <2> QED  BY <2>1, <2>2, <2>3 DEF DeservedOK, Run
<1>3. CASE OpenErr(w) \/ CloseErrWrite(w) \/ JoinCompiler(w) \/ NextSubmission(w) \/ SpawnCompiler(w)
  <2>1. pc'[w] \in {"spawn", "compiling", "closeAgain", "start", "unshare"}
    BY <1>3 DEF OpenErr, CloseErrWrite, JoinCompiler, NextSubmission, SpawnCompiler, TypeOK
  <2> QED  BY <2>1 DEF DeservedOK, Run
<1>4. CASE /\ pc'[w] \in Run \union {"open"} /\ pc[w] \in Run \union {"open"}
           /\ \/ OpenPipes(w) \/ CloseChildEnds(w) \/ Feed(w) \/ JoinReader(w) \/ Reap(w)
              \/ Kill(w) \/ ReaderStep(w) \/ Exit(w) \/ CpuLimit(w)
  <2>1. DeservedOK(w)
    BY <1>4, OwnClean DEF CleanOK
  <2>4. \A fate, mem : Deserves(w, fate, mem)' = Deserves(w, fate, mem)
    BY MemoryGrows DEF Deserves
  <2>2. CASE OpenPipes(w)
    BY <2>1, <2>2 DEF OpenPipes, DeservedOK, Run, TypeOK
  <2>3. CASE ~OpenPipes(w)
    <3>1. /\ deserved'[w] = deserved[w]
          /\ pc[w] \in Run => child'[w].fate = child[w].fate /\ child'[w].mem = child[w].mem
      <4>1. CASE Kill(w) \/ Exit(w) \/ CpuLimit(w)
        <5>1. child[w] # NoChild
          BY <1>0, <4>1 DEF Kill, Exit, CpuLimit, Alive, PlaceOK, NoChildYet
        <5>2. child'[w].fate = child[w].fate /\ child'[w].mem = child[w].mem
          BY <4>1, <5>1, Buried DEF Kill, Exit, CpuLimit
        <5> QED  BY <4>1, <5>2 DEF Kill, Exit, CpuLimit
      <4>2. CASE CloseChildEnds(w) \/ Feed(w) \/ JoinReader(w) \/ Reap(w)
        BY <4>2 DEF CloseChildEnds, Feed, JoinReader, Reap
      <4>3. CASE ReaderStep(w)
        BY <4>3 DEF ReaderStep, Read, ReadSome, ReadEof, ReaderEnds
      <4> QED  BY <1>4, <2>3, <4>1, <4>2, <4>3
    <3>2. pc[w] \in Run \ {"fork"} <=> pc'[w] \in Run \ {"fork"}
      <4>1. CASE CloseChildEnds(w) \/ Feed(w) \/ JoinReader(w) \/ Reap(w) \/ Kill(w)
        BY <1>4, <4>1
        DEF CloseChildEnds, Feed, JoinReader, Reap, Kill, Joining, Run, TypeOK
      <4>2. CASE ReaderStep(w) \/ Exit(w) \/ CpuLimit(w)
        BY <4>2 DEF ReaderStep, Read, ReadSome, ReadEof, ReaderEnds, Exit, CpuLimit
      <4> QED  BY <1>4, <2>3, <4>1, <4>2
    <3>3. pc[w] = pc'[w] \/ pc'[w] \in Run \ {"fork"}
      <4>1. CASE CloseChildEnds(w) \/ Feed(w) \/ JoinReader(w) \/ Reap(w) \/ Kill(w)
        BY <1>4, <4>1
        DEF CloseChildEnds, Feed, JoinReader, Reap, Kill, Joining, Run, TypeOK
      <4>2. CASE ReaderStep(w) \/ Exit(w) \/ CpuLimit(w)
        BY <4>2 DEF ReaderStep, Read, ReadSome, ReadEof, ReaderEnds, Exit, CpuLimit
      <4> QED  BY <1>4, <2>3, <4>1, <4>2
    <3> QED  BY <1>4, <2>1, <2>4, <3>1, <3>2, <3>3 DEF DeservedOK, Run
  <2> QED  BY <2>2, <2>3
<1>5. CASE SpawnProgram(w)
  <2>1. pc[w] = "fork" /\ pc'[w] = "ends"
    BY <1>5 DEF SpawnProgram, TypeOK
  <2>2. deserved[w] = "AC"
    BY <2>1, OwnClean DEF Run, CleanOK, DeservedOK
  <2>3. deserved'[w] = Deserves(w, child'[w].fate, child'[w].mem)
    BY <1>5, <2>2, Spawned
  <2>4. \A fate, mem : Deserves(w, fate, mem)' = Deserves(w, fate, mem)
    BY MemoryGrows DEF Deserves
  <2> QED  BY <2>1, <2>3, <2>4 DEF DeservedOK, Run
<1>6. CASE Judge(w)
  <2>1. pc[w] = "judge" /\ Clean(w)
    <3>1. pc[w] = "judge" /\ \E x, y, z : Happens(x, y, z)
      BY <1>6 DEF Judge, Uses
    <3>2. disturbed[w] \subseteq disturbed'[w]
      BY <3>1, HappensType
    <3> QED  BY <3>1, <3>2 DEF Clean
  <2>2. DeservedOK(w) /\ \E p, q : Flows(w, p, q)
    BY <2>1 DEF CleanOK, RunOK, Run
  <2> QED  BY <1>6, <2>2, JudgeDeserved
<1>7. CASE OrphanEnds(w) \/ DaemonEnds(w) \/ SecondReaderFails(w)
  <2>1. UNCHANGED <<pc, child, verdict, deserved, maxrss, work, disturbed>>
    BY <1>7 DEF OrphanEnds, DaemonEnds, SecondReaderFails
  <2>2. DeservedOK(w)
    BY <2>1 DEF Clean, CleanOK
  <2> QED  BY <2>1, <2>2 DEF DeservedOK, OverLimit, Deserves
<1>8. CASE pc'[w] \notin Run \union {"open", "done"}
  BY <1>8 DEF DeservedOK, Run
<1>9. CASE /\ pc'[w] \in Run \union {"open", "done"}
           /\ \/ OpenPipes(w) \/ CloseChildEnds(w) \/ Feed(w) \/ JoinReader(w) \/ Reap(w)
              \/ Kill(w) \/ ReaderStep(w) \/ Exit(w) \/ CpuLimit(w)
  <2>1. CASE OpenPipes(w) \/ CloseChildEnds(w) \/ Feed(w) \/ JoinReader(w) \/ Reap(w) \/ Kill(w)
    <3>1. pc[w] \in Run \union {"open"} /\ pc'[w] \in Run
      BY <1>9, <2>1
      DEF OpenPipes, CloseChildEnds, Feed, JoinReader, Reap, Kill, Joining, Run, TypeOK
    <3> QED  BY <1>4, <2>1, <3>1
  <2>2. CASE ReaderStep(w) \/ Exit(w) \/ CpuLimit(w)
    <3>1. UNCHANGED pc
      BY <2>2 DEF ReaderStep, Read, ReadSome, ReadEof, ReaderEnds, Exit, CpuLimit
    <3>2. pc[w] \notin NoChildYet
      <4>1. CASE ReaderStep(w)
        <5>1. reader[w] # "none"
          BY <4>1 DEF ReaderStep, Read, ReadSome, ReadEof, ReaderEnds
        <5> QED  BY <1>0, <5>1 DEF PlaceOK, Reading, NoChildYet
      <4>2. CASE Exit(w) \/ CpuLimit(w)
        BY <1>0, <4>2 DEF PlaceOK, Exit, CpuLimit, Alive
      <4> QED  BY <2>2, <4>1, <4>2
    <3>3. pc[w] \in Run /\ pc'[w] \in Run
      BY <1>9, <3>1, <3>2 DEF NoChildYet
    <3> QED  BY <1>4, <2>2, <3>3
  <2> QED  BY <1>9, <2>1, <2>2
<1> QED
  BY <1>1, <1>2, <1>3, <1>5, <1>6, <1>7, <1>8, <1>9 DEF Step, WorkerStep, ChildStep

LEMMA CleanStep ==
  ASSUME TypeOK, PlacesOK, TableOK, ChildrenOK, CompileOK, CleanOK, NEW w \in Workers, Step(w)
  PROVE  CleanOK'
<1> SUFFICES ASSUME NEW v \in Workers, Clean(v)'
             PROVE  /\ DeservedOK(v)'
                    /\ pc'[v] \in Run => \E a, b \in 1 .. MaxPipes :
                                             a # b /\ RunOK(v, <<v, a>>, <<v, b>>)'
  BY DEF CleanOK
<1>1. CASE v = w
  BY <1>1, OwnRun, OwnDeserved
<1>2. CASE v # w
  <2>1. Clean(v) /\ Same(v)
    BY <1>2, StaysClean, Frame
  <2>2. DeservedOK(v)'
    BY <1>2, <2>1, BystanderDeserved DEF CleanOK
  <2>3. ASSUME pc'[v] \in Run
        PROVE  \E a, b \in 1 .. MaxPipes : a # b /\ RunOK(v, <<v, a>>, <<v, b>>)'
    <3>1. pc[v] \in Run
      BY <2>1, <2>3 DEF Same
    <3>2. PICK a, b \in 1 .. MaxPipes : a # b /\ RunOK(v, <<v, a>>, <<v, b>>)
      BY <2>1, <3>1 DEF CleanOK
    <3>3. RunOK(v, <<v, a>>, <<v, b>>)'
      BY <1>2, <3>1, <3>2, BystanderRun
    <3> QED  BY <3>2, <3>3
  <2> QED  BY <2>2, <2>3
<1> QED  BY <1>1, <1>2

-------------------------------------------------------------------------------
(* The invariant. *)

LEMMA InvInit == Init => Inv
<1> SUFFICES ASSUME Init PROVE Inv
  OBVIOUS
<1>1. TypeOK
  BY TypeInit
<1>2. \A w \in Workers : pc[w] \in {"start", "done"}
  BY DEF Init
<1>3. PlacesOK
  BY DEF Init, PlacesOK, PlaceOK, Compile, Run, Reading, Reaped, NoChildYet
<1>4. TableOK /\ ChildrenOK /\ OwedOK
  BY DEF Init, TableOK, ChildrenOK, OwedOK, Alive
<1>5. CompileOK
  BY <1>2 DEF CompileOK, Compile, NoChildYet
<1>6. CleanOK
  <2>1. \A w \in Workers : verdict[w] = deserved[w]
    BY DEF Init
  <2> QED  BY <1>2, <2>1 DEF CleanOK, DeservedOK, Run
<1> QED  BY <1>1, <1>3, <1>4, <1>5, <1>6 DEF Inv

LEMMA InvNext == Inv /\ [Next]_vars => Inv'
<1> SUFFICES ASSUME Inv, [Next]_vars PROVE Inv'
  OBVIOUS
<1>1. CASE UNCHANGED vars
  <2>1. UNCHANGED <<files, content, child, inherited, orphan, daemon, maxrss, pc, fd, reader, on,
                    sink, killed, case, verdict, left, work, failures, deserved, disturbed,
                    leaked, aborted>>
    BY <1>1 DEF vars, system, procs, threads, readers, results, world
  <2>2. TypeOK'
    BY <2>1 DEF Inv, TypeOK
  <2>3. PlacesOK' /\ TableOK' /\ ChildrenOK' /\ OwedOK' /\ CompileOK'
    BY <2>1
    DEF Inv, PlacesOK, PlaceOK, TableOK, ChildrenOK, Alive, OwedOK, Owed, CompileOK
  <2>4. ASSUME NEW w \in Workers, NEW p, NEW q
        PROVE  RunOK(w, p, q)' <=> RunOK(w, p, q)
    <3>1. (OwnEnds(w, p, q)' <=> OwnEnds(w, p, q)) /\ (Alone(w, p, q)' <=> Alone(w, p, q))
      BY <2>1 DEF OwnEnds, Alone, Alive
    <3>2. (HoldersTold(w, p)' <=> HoldersTold(w, p)) /\ (Flows(w, p, q)' <=> Flows(w, p, q))
      BY <2>1 DEF HoldersTold, Flows, Produced
    <3> QED  BY <3>1, <3>2 DEF RunOK
  <2>5. \A w \in Workers : (DeservedOK(w)' <=> DeservedOK(w)) /\ (Clean(w)' <=> Clean(w))
    BY <2>1 DEF DeservedOK, Deserves, OverLimit, Clean
  <2>6. CleanOK'
    BY <2>1, <2>4, <2>5 DEF Inv, CleanOK
  <2> QED  BY <2>2, <2>3, <2>6 DEF Inv
<1>2. CASE Next
  <2>1. PICK w \in Workers : Step(w)
    BY <1>2 DEF Next, Progress, Step
  <2>2. TypeOK /\ PlacesOK /\ TableOK /\ ChildrenOK /\ OwedOK /\ CompileOK /\ CleanOK
    BY DEF Inv
  <2>3. TypeOK' /\ PlacesOK'
    BY <2>1, <2>2, TypeStep, PlacesStep
  <2>4. TableOK' /\ ChildrenOK'
    BY <2>1, <2>2, TableStep, ChildrenStep
  <2>5. OwedOK' /\ CompileOK'
    BY <2>1, <2>2, OwedStep, CompileStep
  <2>6. CleanOK'
    BY <2>1, <2>2, CleanStep
  <2> QED  BY <2>3, <2>4, <2>5, <2>6 DEF Inv
<1> QED  BY <1>1, <1>2

LEMMA InvAlways == Spec => []Inv
BY InvInit, InvNext, PTL DEF Spec, Safety

(* Every variable of the pipeline keeps its type; in particular no worker   *)
(* judges a test case that the problem does not have (pipeline.cpp).        *)
THEOREM TypeCorrect == Spec => []TypeOK
<1>1. Inv => TypeOK
  BY DEF Inv
<1> QED  BY <1>1, InvAlways, PTL

(* The verdict of a submission is the one it deserves, but for what the     *)
(* code lets come between: ru_maxrss of g++ or of any child before (MLE), a *)
(* process that holds its input open (TLE), a time limit that passes early  *)
(* (TLE, CE), RLIMIT_CPU (RE, or MLE), a failed call (RE, CE, none) or      *)
(* another worker that used one of its descriptors.  None of them makes it  *)
(* AC or WA, but for the last.                                              *)
THEOREM VerdictsAreDeserved == Spec => []VerdictDeserved
<1>1. Inv => VerdictDeserved
  BY DEF Inv, CleanOK, Clean, DeservedOK, VerdictDeserved, Run
<1> QED  BY <1>1, InvAlways, PTL

(* Between submissions only the ends that a failed pipe() or a thread that  *)
(* could not be made left are open: whatever close() of a number that was   *)
(* another worker's frees, it never leaves a descriptor that nobody will    *)
(* close.                                                                   *)
THEOREM DescriptorsAreReturned == Spec => []DescriptorsReturned
<1>1. ASSUME Inv PROVE DescriptorsReturned
  <2> SUFFICES ASSUME \A w \in Workers : pc[w] \in {"start", "done"}, NEW n \in Fds, files[n] # Free
               PROVE  files[n] \in leaked
    BY DEF DescriptorsReturned, InTable
  <2>1. \A w \in Workers : Owed(w) = {}
    BY DEF Owed, OwedAt
  <2>2. files[n].pipe[1] \in Workers
    BY <1>1 DEF Inv, TypeOK, Ends, Pipes
  <2> QED  BY <1>1, <2>1, <2>2 DEF Inv, OwedOK
<1> QED  BY <1>1, InvAlways, PTL
===============================================================================
