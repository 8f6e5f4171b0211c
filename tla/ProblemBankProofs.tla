------------------------- MODULE ProblemBankProofs -------------------------
(* That the invariants of the problem bank hold for every number of         *)
(* administrators, readers, seed entries, ids and requests.                  *)
EXTENDS ProblemBank, TLAPS

(* The bounds leave room for the seed problems.                              *)
LEMMA Bounds ==
    /\ Seeds \in Nat /\ Seeds >= 1
    /\ MaxId \in Nat /\ MaxId >= Seeds /\ 1 \in Ids
    /\ MaxRequests \in Nat
BY SeedsAssumption, MaxIdAssumption, MaxRequestsAssumption DEF Ids

(* Each query function reads one or two child tables.                        *)
LEMMA ChildrenTables ==
    ASSUME NEW k \in Kinds
    PROVE  /\ Len(Children(k)) \in 1..2
           /\ \A s \in 1..Len(Children(k)) : Children(k)[s] \in {"cases", "links"}
BY DEF Kinds, Children

-----------------------------------------------------------------------------
(* Type correctness. *)

LEMMA InitType == Init => TypeOK
<1> SUFFICES ASSUME Init PROVE TypeOK
  OBVIOUS
<1>1. BankType
  <2>1. row \in [Ids -> Nat] /\ cases = row /\ links = row
    BY Bounds DEF Init, Ids
  <2>2. nextId \in 1..MaxId + 1 /\ writes \in Nat /\ halfCleared \in BOOLEAN
    <3>1. nextId = Seeds + 1 /\ writes = Seeds /\ halfCleared = FALSE
      BY DEF Init
    <3>2. Seeds + 1 \in 1..MaxId + 1
      BY Bounds
    <3> QED
      BY <3>1, <3>2, Bounds
  <2> QED
    BY <2>1, <2>2 DEF BankType
<1>3. AdminType
  BY Bounds DEF Init, AdminType
<1>2. ReaderType
  <2>1. "list" \in Kinds /\ 1 <= Len(Children("list"))
    BY DEF Kinds, Children
  <2>2. NoView \in [Tables -> [Ids -> Nat]]
    BY DEF NoView, NoRevision
  <2> QED
    BY <2>1, <2>2 DEF Init, ReaderType
<1> QED
  BY <1>1, <1>2, <1>3 DEF TypeOK

(* Writing leaves to the readers what they have read.                        *)
LEMMA ReaderTypeKept ==
    ASSUME ReaderType, UNCHANGED reading
    PROVE  ReaderType'
BY DEF ReaderType, reading

(* Who overlaps whom concerns running requests only.                         *)
LEMMA OverlapType ==
    ASSUME AdminType, Start \/ Continue
    PROVE  requests' \in 0..MaxRequests /\ overlapped' \subseteq Admins
<1>1. Busy' \subseteq Admins
  BY DEF Busy
<1>2. requests \in 0..MaxRequests /\ overlapped \subseteq Admins
  BY DEF AdminType
<1>3. CASE Start
  <2>1. requests < MaxRequests /\ requests' = requests + 1
    BY <1>3 DEF Start
  <2>2. requests' \in 0..MaxRequests
    BY <2>1, <1>2, Bounds
  <2> QED
    BY <2>2, <1>1, <1>3 DEF Start
<1>4. CASE Continue
  BY <1>1, <1>2, <1>4 DEF Continue
<1> QED
  BY <1>3, <1>4

(* Where a request goes next is a label, and an id it takes is an id.        *)
LEMMA WriteAdminType ==
    ASSUME BankType, AdminType, NEW a \in Admins, Write(a)
    PROVE  AdminType'
<1>1. Start \/ Continue
  BY DEF Write, Insert, Fill, CheckExists, Delete, UpdateRow, Replace, ClearLinks,
     ClearCases, ClearProblems, ClearTags, ResetIds, LoadInsert, LoadFill, LoadDone, Fail
<1>2. requests' \in 0..MaxRequests /\ overlapped' \subseteq Admins
  BY <1>1, OverlapType
<1> USE <1>2 DEF AdminType, BankType, Ids
<1>3. CASE Insert(a) \/ LoadInsert(a)
  <2>1. nextId \in Ids
    BY <1>3 DEF Insert, LoadInsert, TakeId
  <2>2. CASE Insert(a)
    BY <2>1, <2>2 DEF Insert, TakeId
  <2>3. CASE LoadInsert(a)
    BY <2>1, <2>3 DEF LoadInsert, TakeId
  <2> QED
    BY <1>3, <2>2, <2>3
<1>4. CASE Fill(a) \/ Replace(a) \/ LoadDone(a) \/ Fail(a)
  <2>1. Answer(a)
    BY <1>4 DEF Fill, Replace, LoadDone, Fail
  <2>2. 1 \in Ids /\ 0 \in 0..Seeds
    BY Bounds
  <2> HIDE DEF Ids
  <2>3. /\ pc' = [pc EXCEPT ![a] = "idle"]
        /\ id' = [id EXCEPT ![a] = 1]
        /\ loaded' = [loaded EXCEPT ![a] = 0]
    BY <2>1 DEF Answer
  <2> QED
    BY <2>2, <2>3
<1>5. ASSUME NEW i \in Ids, CheckExists(a, i) \/ Delete(a, i) PROVE AdminType'
  BY <1>5 DEF CheckExists, Delete
<1>6. CASE \/ UpdateRow(a) \/ ClearLinks(a) \/ ClearCases(a)
           \/ ClearProblems(a) \/ ClearTags(a) \/ ResetIds(a)
  BY <1>6 DEF UpdateRow, ClearLinks, ClearCases, ClearProblems, ClearTags, ResetIds, Goto
<1>7. CASE LoadFill(a)
  <2>1. pc' = [pc EXCEPT ![a] = "loading"] /\ id' = id
    BY <1>7 DEF LoadFill
  <2>2. loaded' = [loaded EXCEPT ![a] = @ + 1]
    BY <1>7 DEF LoadFill
  <2>3. pc[a] = "seeding" /\ loaded[a] \in 0..Seeds /\ loaded[a] < Seeds
    BY <1>7 DEF LoadFill
  <2> HIDE <1>2 DEF AdminType, BankType, Ids
  <2>4. loaded[a] + 1 \in 0..Seeds
    BY <2>3, Bounds
  <2> USE <1>2 DEF AdminType, BankType, Ids
  <2> QED
    BY <2>1, <2>2, <2>4
<1> QED
  BY <1>3, <1>4, <1>5, <1>6, <1>7 DEF Write

(* Every revision written is a number, and so is every one cleared.          *)
LEMMA WriteBankType ==
    ASSUME BankType, AdminType, NEW a \in Admins, Write(a)
    PROVE  BankType'
<1> USE DEF BankType
<1>1. 0 \in Nat /\ writes + 1 \in Nat /\ id[a] \in Ids
  BY DEF AdminType
<1>2. NoRevision \in [Ids -> Nat]
  BY DEF NoRevision
<1>3. CASE Insert(a) \/ LoadInsert(a)
  <2>1. nextId <= MaxId /\ nextId' = nextId + 1 /\ UNCHANGED <<tables, writes, halfCleared>>
    BY <1>3 DEF Insert, LoadInsert, TakeId
  <2>2. nextId' \in 1..MaxId + 1
    BY <2>1, Bounds
  <2> QED
    BY <2>1, <2>2 DEF tables
<1>4. CASE Fill(a) \/ Replace(a) \/ LoadFill(a)
  <2>1. Commit(id[a]) /\ UNCHANGED <<nextId, halfCleared>>
    BY <1>4 DEF Fill, Replace, LoadFill
  <2> QED
    BY <2>1, <1>1 DEF Commit
<1>5. ASSUME NEW i \in Ids, Delete(a, i) PROVE BankType'
  BY <1>1, <1>5 DEF Delete
<1>6. CASE ClearLinks(a) \/ ClearCases(a) \/ ClearProblems(a) \/ ClearTags(a)
  BY <1>2, <1>6 DEF ClearLinks, ClearCases, ClearProblems, ClearTags
<1>7. CASE ResetIds(a)
  BY <1>7 DEF ResetIds, tables
<1>8. CASE UpdateRow(a) \/ LoadDone(a) \/ Fail(a)
  BY <1>8 DEF UpdateRow, LoadDone, Fail, tables
<1>9. ASSUME NEW i \in Ids, CheckExists(a, i) PROVE BankType'
  BY <1>9 DEF CheckExists, tables
<1> QED
  BY <1>3, <1>4, <1>5, <1>6, <1>7, <1>8, <1>9 DEF Write

(* A SELECT reads numbers, and the step it leaves is one of its function's.  *)
LEMMA ReadReaderType ==
    ASSUME BankType, ReaderType, NEW r \in Readers, Read(r)
    PROVE  ReaderType'
<1>1. ASSUME NEW k \in Kinds, NEW S \in SUBSET Ids, SelectRows(r, k, S) PROVE ReaderType'
  <2> DEFINE found == [i \in Ids |-> IF i \in S THEN row[i] ELSE 0]
  <2>1. found \in [Ids -> Nat]
    BY DEF BankType
  <2>2. [t \in Tables |-> found] \in [Tables -> [Ids -> Nat]]
    BY <2>1
  <2>3. 1 <= Len(Children(k))
    BY ChildrenTables
  <2>4. /\ view' = [view EXCEPT ![r] = [t \in Tables |-> found]]
        /\ left' = [left EXCEPT ![r] = {i \in Ids : found[i] # 0}]
        /\ kind' = [kind EXCEPT ![r] = k]
        /\ step' = [step EXCEPT ![r] = 1]
    BY <1>1 DEF SelectRows
  <2> HIDE DEF found
  <2> QED
    BY <2>2, <2>3, <2>4 DEF ReaderType
<1>2. CASE SelectChild(r)
  <2>1. PICK i \in left[r] :
           /\ view' = [view EXCEPT ![r][Children(kind[r])[step[r]]][i] =
                  IF Children(kind[r])[step[r]] = "cases" THEN cases[i] ELSE links[i]]
           /\ IF step[r] < Len(Children(kind[r]))
                THEN step' = [step EXCEPT ![r] = @ + 1] /\ left' = left
                ELSE /\ step' = [step EXCEPT ![r] = 1]
                     /\ left' = [left EXCEPT ![r] = @ \ {i}]
    BY <1>2 DEF SelectChild
  <2>2. i \in Ids /\ kind[r] \in Kinds /\ step[r] \in 1..Len(Children(kind[r]))
    BY ChildrenTables DEF ReaderType
  <2>3. Len(Children(kind[r])) \in 1..2 /\ Children(kind[r])[step[r]] \in Tables
    BY <2>2, ChildrenTables DEF Tables
  <2>4. cases[i] \in Nat /\ links[i] \in Nat
    BY <2>2 DEF BankType
  <2>5. view' \in [Readers -> [Tables -> [Ids -> Nat]]]
    BY <2>1, <2>2, <2>3, <2>4 DEF ReaderType
  <2>6. kind' = kind
    BY <1>2 DEF SelectChild
  <2>7. left' \in [Readers -> SUBSET Ids]
    <3>1. left \in [Readers -> SUBSET Ids] /\ left[r] \ {i} \in SUBSET Ids
      BY DEF ReaderType
    <3>2. left' = left \/ left' = [left EXCEPT ![r] = left[r] \ {i}]
      BY <2>1
    <3> QED
      BY <3>1, <3>2
  <2>8. /\ step' \in [Readers -> 1..2]
        /\ \A q \in Readers : step'[q] <= Len(Children(kind[q]))
    <3> DEFINE n == Len(Children(kind[r]))
    <3>1. step \in [Readers -> 1..2] /\ \A q \in Readers : step[q] <= Len(Children(kind[q]))
      BY DEF ReaderType
    <3>2. n \in 1..2 /\ step[r] \in 1..n
      BY <2>2, <2>3
    <3>3. IF step[r] < n THEN step' = [step EXCEPT ![r] = step[r] + 1]
                         ELSE step' = [step EXCEPT ![r] = 1]
      BY <2>1
    <3> HIDE DEF n
    <3>4. PICK s \in 1..2 : s <= n /\ step' = [step EXCEPT ![r] = s]
      <4>1. CASE step[r] < n
        <5>1. step[r] + 1 \in 1..2 /\ step[r] + 1 <= n
          BY <4>1, <3>2
        <5> QED
          BY <5>1, <3>3, <4>1
      <4>2. CASE ~(step[r] < n)
        <5>1. 1 \in 1..2 /\ 1 <= n
          BY <3>2
        <5> QED
          BY <5>1, <3>3, <4>2
      <4> QED
        BY <4>1, <4>2
    <3> QED
      BY <3>1, <3>4 DEF n
  <2> QED
    BY <2>5, <2>6, <2>7, <2>8 DEF ReaderType
<1>3. CASE ReadFails(r)
  BY <1>3 DEF ReadFails, ReaderType, NoView, NoRevision
<1>4. ASSUME NEW k \in {"detail", "full"}, NEW i \in Ids, SelectRows(r, k, {i}) PROVE ReaderType'
  <2>1. k \in Kinds /\ {i} \in SUBSET Ids
    BY DEF Kinds
  <2> QED
    BY <1>1, <1>4, <2>1
<1>5. ASSUME NEW k \in {"list", "listFull"}, SelectRows(r, k, Ids) PROVE ReaderType'
  <2>1. k \in Kinds /\ Ids \in SUBSET Ids
    BY DEF Kinds
  <2> QED
    BY <1>1, <1>5, <2>1
<1>6. CASE SelectRows(r, "list", {i \in Ids : links[i] # 0})
  <2>1. "list" \in Kinds /\ {i \in Ids : links[i] # 0} \in SUBSET Ids
    BY DEF Kinds
  <2> QED
    BY <1>1, <1>6, <2>1
<1> QED
  BY <1>2, <1>3, <1>4, <1>5, <1>6 DEF Read

(* Reading changes nothing but what the reader has read.                     *)
LEMMA ReadKeeps ==
    ASSUME NEW r \in Readers, Read(r)
    PROVE  UNCHANGED <<tables, nextId, writes, admin, halfCleared>>
BY DEF Read, SelectRows, SelectChild, ReadFails

(* Writing changes nothing of what the readers have read.                    *)
LEMMA WriteKeeps ==
    ASSUME NEW a \in Admins, Write(a)
    PROVE  UNCHANGED reading
BY DEF Write, Insert, Fill, CheckExists, Delete, UpdateRow, Replace, ClearLinks,
   ClearCases, ClearProblems, ClearTags, ResetIds, LoadInsert, LoadFill, LoadDone, Fail

(* Type correctness: in every reachable state every variable has its type,   *)
(* and a reset that is inserting a seed entry has entries left to load.      *)
THEOREM TypeCorrect == Spec => []TypeOK
<1>1. TypeOK /\ [Next]_vars => TypeOK'
  <2> SUFFICES ASSUME TypeOK, [Next]_vars PROVE TypeOK'
    OBVIOUS
  <2>1. ASSUME NEW a \in Admins, Write(a) PROVE TypeOK'
    BY <2>1, WriteBankType, WriteAdminType, WriteKeeps, ReaderTypeKept DEF TypeOK
  <2>2. ASSUME NEW r \in Readers, Read(r) PROVE TypeOK'
    <3>1. BankType' /\ AdminType'
      BY <2>2, ReadKeeps DEF TypeOK, BankType, AdminType, tables, admin
    <3> QED
      BY <2>2, <3>1, ReadReaderType DEF TypeOK
  <2>3. CASE UNCHANGED vars
    BY <2>3 DEF vars, TypeOK, BankType, AdminType, ReaderType
  <2> QED
    BY <2>1, <2>2, <2>3 DEF Next
<1> QED
  BY <1>1, InitType, PTL DEF Spec

-----------------------------------------------------------------------------
(* Whole problems. *)

(* Who is not between the DELETE of the tests and the one of the problems    *)
(* cannot make a bare problem lose its excuse.                               *)
LEMMA StrippedStays ==
    ASSUME NEW a \in Admins, pc[a] # "clearProblems", halfCleared' = halfCleared,
           \A b \in Admins \ {a} : pc'[b] = pc[b]
    PROVE  Stripped => Stripped'
BY DEF Stripped

(* A step of one request leaves the others where they are.                   *)
LEMMA OthersWait ==
    ASSUME TypeOK, NEW a \in Admins, Write(a)
    PROVE  \A b \in Admins \ {a} : pc'[b] = pc[b]
<1>1. pc' = pc \/ \E l : pc' = [pc EXCEPT ![a] = l]
  BY DEF Write, Insert, Fill, CheckExists, Delete, UpdateRow, Replace, ClearLinks, ClearCases,
     ClearProblems, ClearTags, ResetIds, LoadInsert, LoadFill, LoadDone, Fail, TakeId, Goto, Answer
<1> QED
  BY <1>1 DEF TypeOK, AdminType

(* What one writing step does to the rows: each keeps its revision, goes, or *)
(* gets the one just committed.                                              *)
RowsMoveOn ==
    \A i \in Ids : \/ row'[i] \in {row[i], 0}
                   \/ row'[i] = writes + 1 /\ writes' = writes + 1

WriteEffect ==
    /\ WholeProblems'
    /\ writes' \in {writes, writes + 1}
    /\ RowsMoveOn
    /\ Stripped => Stripped' \/ \A i \in Ids : row'[i] = 0

LEMMA WriteKeepsWhole ==
    ASSUME TypeOK, WholeProblems, NEW a \in Admins, Write(a)
    PROVE  WriteEffect
<1>0. \A b \in Admins \ {a} : pc'[b] = pc[b]
  BY OthersWait
<1>1. ASSUME UNCHANGED <<tables, writes>>, Stripped => Stripped' PROVE WriteEffect
  BY <1>1 DEF WriteEffect, WholeProblems, RowsMoveOn, tables
<1>2. CASE \/ Insert(a) \/ UpdateRow(a) \/ ResetIds(a) \/ LoadInsert(a) \/ LoadDone(a)
           \/ \E i \in Ids : CheckExists(a, i)
  <2>1. /\ UNCHANGED <<tables, writes>> /\ halfCleared' = halfCleared
        /\ pc[a] # "clearProblems"
    BY <1>2 DEF Insert, UpdateRow, ResetIds, LoadInsert, LoadDone, CheckExists
  <2> QED
    BY <1>0, <1>1, <2>1, StrippedStays
<1>3. CASE Fail(a)
  <2>1. UNCHANGED <<tables, writes>> /\ halfCleared' = (halfCleared \/ pc[a] = "clearProblems")
    BY <1>3 DEF Fail
  <2>2. Stripped => Stripped'
    BY <1>0, <2>1 DEF Stripped
  <2> QED
    BY <1>1, <2>1, <2>2
<1>4. CASE Fill(a) \/ Replace(a) \/ LoadFill(a)
  <2>1. /\ Commit(id[a]) /\ halfCleared' = halfCleared
        /\ pc[a] # "clearProblems" /\ id[a] \in Ids
    BY <1>4 DEF Fill, Replace, LoadFill, TypeOK, AdminType
  <2>2. Stripped => Stripped'
    BY <1>0, <2>1, StrippedStays
  <2>3. writes + 1 # 0 /\ writes' = writes + 1
    BY <2>1 DEF Commit, TypeOK, BankType
  <2>4. ASSUME NEW i \in Ids
        PROVE  \/ row'[i] = row[i] /\ cases'[i] = cases[i] /\ links'[i] = links[i]
               \/ row'[i] = writes + 1 /\ cases'[i] = writes + 1 /\ links'[i] = writes + 1
    BY <2>1 DEF Commit, TypeOK, BankType
  <2>5. WholeProblems'
    BY <2>2, <2>3, <2>4 DEF WholeProblems
  <2> QED
    BY <2>2, <2>3, <2>4, <2>5 DEF WriteEffect, RowsMoveOn
<1>5. ASSUME NEW j \in Ids, Delete(a, j) PROVE WriteEffect
  <2>1. halfCleared' = halfCleared /\ pc[a] # "clearProblems" /\ writes' = writes
    BY <1>5 DEF Delete
  <2>2. Stripped => Stripped'
    BY <1>0, <2>1, StrippedStays
  <2>3. ASSUME NEW i \in Ids
        PROVE  \/ row'[i] = row[i] /\ cases'[i] = cases[i] /\ links'[i] = links[i]
               \/ row'[i] = 0 /\ cases'[i] = 0 /\ links'[i] = 0
    BY <1>5 DEF Delete, TypeOK, BankType
  <2>4. WholeProblems'
    BY <2>2, <2>3 DEF WholeProblems
  <2> QED
    BY <2>1, <2>2, <2>3, <2>4 DEF WriteEffect, RowsMoveOn
<1>6. CASE ClearLinks(a) \/ ClearTags(a)
  <2>1. /\ UNCHANGED <<row, cases, writes, halfCleared>> /\ pc[a] # "clearProblems"
        /\ \A i \in Ids : links'[i] = 0
    BY <1>6 DEF ClearLinks, ClearTags, NoRevision
  <2>2. Stripped => Stripped'
    BY <1>0, <2>1, StrippedStays
  <2>3. WholeProblems'
    BY <2>1, <2>2 DEF WholeProblems
  <2> QED
    BY <2>1, <2>2, <2>3 DEF WriteEffect, RowsMoveOn
<1>7. CASE ClearCases(a)
  <2>1. UNCHANGED <<row, links, writes>> /\ \A i \in Ids : cases'[i] = 0
    BY <1>7 DEF ClearCases, NoRevision
  <2>2. pc'[a] = "clearProblems"
    BY <1>7 DEF ClearCases, Goto, TypeOK, AdminType
  <2>3. Stripped'
    BY <2>2 DEF Stripped
  <2> QED
    BY <2>1, <2>3 DEF WriteEffect, RowsMoveOn, WholeProblems
<1>8. CASE ClearProblems(a)
  <2>1. writes' = writes /\ \A i \in Ids : row'[i] = 0 /\ cases'[i] = 0 /\ links'[i] = 0
    BY <1>8 DEF ClearProblems, NoRevision
  <2> QED
    BY <2>1 DEF WriteEffect, RowsMoveOn, WholeProblems
<1> QED
  BY <1>2, <1>3, <1>4, <1>5, <1>6, <1>7, <1>8 DEF Write

(* Whatever the administrators do and whatever fails, no problem is stored   *)
(* with tests or tags of another revision, and none without tests unless a   *)
(* reset is between its DELETEs or failed there.                             *)
THEOREM ProblemsStayWhole == Spec => []WholeProblems
<1>1. Init => WholeProblems
  BY DEF Init, WholeProblems
<1>2. TypeOK /\ WholeProblems /\ [Next]_vars => WholeProblems'
  <2> SUFFICES ASSUME TypeOK, WholeProblems, [Next]_vars PROVE WholeProblems'
    OBVIOUS
  <2>1. ASSUME NEW a \in Admins, Write(a) PROVE WholeProblems'
    BY <2>1, WriteKeepsWhole DEF WriteEffect
  <2>2. ASSUME NEW r \in Readers, Read(r) PROVE WholeProblems'
    BY <2>2, ReadKeeps DEF WholeProblems, Stripped, tables, admin
  <2>3. CASE UNCHANGED vars
    BY <2>3 DEF vars, WholeProblems, Stripped
  <2> QED
    BY <2>1, <2>2, <2>3 DEF Next
<1> QED
  BY <1>1, <1>2, TypeCorrect, PTL DEF Spec

-----------------------------------------------------------------------------
(* What the readers see. *)

(* Revisions are numbered in the order they are committed: a row holds no    *)
(* later one than the last, a row that was read is still there, gone or      *)
(* replaced by a later one, and only problems that were found are read on.   *)
InOrder ==
    /\ \A i \in Ids : row[i] <= writes
    /\ \A r \in Readers, i \in Ids :
          /\ view[r]["row"][i] <= writes
          /\ row[i] = 0 \/ row[i] >= view[r]["row"][i]
          /\ view[r]["row"][i] = 0 => view[r]["cases"][i] = 0 /\ i \notin left[r]

ReadInv == InOrder /\ ReadsFollowTheRow

LEMMA WriteKeepsRead ==
    ASSUME TypeOK, WholeProblems, ReadInv, NEW a \in Admins, Write(a), TypeOK'
    PROVE  ReadInv'
<1>1. UNCHANGED <<view, left>>
  BY WriteKeeps DEF reading
<1>2. writes' \in {writes, writes + 1} /\ RowsMoveOn
  BY WriteKeepsWhole DEF WriteEffect
<1>3. Stripped => Stripped' \/ \A i \in Ids : row'[i] = 0
  BY WriteKeepsWhole DEF WriteEffect
<1>4. writes \in Nat /\ \A i \in Ids : row[i] \in Nat /\ row[i] <= writes
  BY DEF TypeOK, BankType, ReadInv, InOrder
<1>5. ASSUME NEW i \in Ids PROVE row'[i] <= writes'
  BY <1>2, <1>4 DEF RowsMoveOn
<1>6. ASSUME NEW r \in Readers, NEW i \in Ids
      PROVE  /\ view[r]["row"][i] \in Nat
             /\ view[r]["row"][i] <= writes
             /\ row[i] = 0 \/ row[i] >= view[r]["row"][i]
             /\ view[r]["row"][i] = 0 => view[r]["cases"][i] = 0 /\ i \notin left[r]
  BY DEF TypeOK, ReaderType, Tables, ReadInv, InOrder
<1>7. ASSUME NEW r \in Readers, NEW i \in Ids
      PROVE  /\ view[r]["row"][i] <= writes'
             /\ row'[i] = 0 \/ row'[i] >= view[r]["row"][i]
  BY <1>2, <1>4, <1>6 DEF RowsMoveOn
<1>8. InOrder'
  BY <1>1, <1>5, <1>6, <1>7 DEF InOrder
<1>9. ReadsFollowTheRow'
  <2>1. ASSUME NEW r \in Readers, NEW i \in Ids
        PROVE  /\ \A t \in Tables : view[r][t][i] = 0 \/ view[r][t][i] >= view[r]["row"][i]
               /\ view[r]["cases"][i] # view[r]["row"][i] => row'[i] # view[r]["row"][i] \/ Stripped'
    <3>1. /\ \A t \in Tables : view[r][t][i] = 0 \/ view[r][t][i] >= view[r]["row"][i]
          /\ view[r]["cases"][i] # view[r]["row"][i] => row[i] # view[r]["row"][i] \/ Stripped
      BY DEF ReadInv, ReadsFollowTheRow
    <3>2. ASSUME view[r]["cases"][i] # view[r]["row"][i]
          PROVE  row'[i] # view[r]["row"][i] \/ Stripped'
      <4>1. view[r]["row"][i] # 0
        BY <1>6, <3>2
      <4>2. CASE row[i] # view[r]["row"][i]
        BY <1>2, <1>4, <1>6, <4>1, <4>2 DEF RowsMoveOn
      <4>3. CASE Stripped
        BY <1>3, <4>1, <4>3
      <4> QED
        BY <3>1, <3>2, <4>2, <4>3
    <3> QED
      BY <3>1, <3>2
  <2> QED
    BY <1>1, <2>1 DEF ReadsFollowTheRow
<1> QED
  BY <1>8, <1>9 DEF ReadInv

LEMMA ReadKeepsRead ==
    ASSUME TypeOK, WholeProblems, ReadInv, NEW r \in Readers, Read(r), TypeOK'
    PROVE  ReadInv'
<1>1. UNCHANGED <<row, cases, links, writes, pc, halfCleared>>
  BY ReadKeeps DEF tables, admin
<1>2. Stripped' = Stripped
  BY <1>1 DEF Stripped
<1> DEFINE Sound(v, l, i) ==
        /\ v["row"][i] <= writes
        /\ row[i] = 0 \/ row[i] >= v["row"][i]
        /\ v["row"][i] = 0 => v["cases"][i] = 0 /\ i \notin l
        /\ \A t \in Tables : v[t][i] = 0 \/ v[t][i] >= v["row"][i]
        /\ v["cases"][i] # v["row"][i] => row[i] # v["row"][i] \/ Stripped
<1>3. ASSUME NEW q \in Readers, NEW i \in Ids PROVE Sound(view[q], left[q], i)
  BY DEF ReadInv, InOrder, ReadsFollowTheRow
<1>4. SUFFICES ASSUME NEW q \in Readers, NEW i \in Ids PROVE Sound(view'[q], left'[q], i)
  BY <1>1, <1>2 DEF ReadInv, InOrder, ReadsFollowTheRow
<1>5. /\ view \in [Readers -> [Tables -> [Ids -> Nat]]] /\ left \in [Readers -> SUBSET Ids]
      /\ row[i] \in Nat /\ row[i] <= writes /\ writes \in Nat
      /\ cases[i] \in {0, row[i]} /\ links[i] \in {0, row[i]}
      /\ row[i] # 0 /\ cases[i] = 0 => Stripped
      /\ "row" \in Tables /\ "cases" \in Tables
  BY DEF TypeOK, BankType, ReaderType, ReadInv, InOrder, WholeProblems, Tables
<1>6. ASSUME NEW k, NEW S \in SUBSET Ids, SelectRows(r, k, S) PROVE Sound(view'[q], left'[q], i)
  <2> DEFINE found == [j \in Ids |-> IF j \in S THEN row[j] ELSE 0]
  <2>1. /\ view' = [view EXCEPT ![r] = [t \in Tables |-> found]]
        /\ left' = [left EXCEPT ![r] = {j \in Ids : found[j] # 0}]
    BY <1>6 DEF SelectRows
  <2>2. found[i] \in {0, row[i]}
    OBVIOUS
  <2> HIDE DEF found
  <2>3. CASE q = r
    <3>1. \A t \in Tables : view'[q][t][i] = found[i]
      BY <1>5, <2>1, <2>3
    <3>2. left'[q] = {j \in Ids : found[j] # 0}
      BY <1>5, <2>1, <2>3
    <3> QED
      BY <1>5, <2>2, <3>1, <3>2
  <2>4. CASE q # r
    BY <1>3, <1>5, <2>1, <2>4
  <2> QED
    BY <2>3, <2>4
<1>7. CASE SelectChild(r)
  <2> DEFINE table == Children(kind[r])[step[r]]
  <2>1. PICK j \in left[r] :
           /\ view' = [view EXCEPT ![r][table][j] =
                  IF table = "cases" THEN cases[j] ELSE links[j]]
           /\ left' = left \/ left' = [left EXCEPT ![r] = @ \ {j}]
    BY <1>7 DEF SelectChild
  <2>2. table \in {"cases", "links"} /\ j \in Ids
    BY ChildrenTables DEF TypeOK, ReaderType
  <2> HIDE DEF table
  <2>3. left'[q] \subseteq left[q]
    BY <1>5, <2>1
  <2>4. CASE q = r /\ i = j
    <3>1. view[q]["row"][i] # 0 /\ view[q]["row"][i] \in Nat
      BY <1>3, <1>5, <2>4
    <3>2. view'[q]["row"][i] = view[q]["row"][i]
      BY <1>5, <2>1, <2>2, <2>4
    <3>3. \A t \in Tables : view'[q][t][i] =
             IF t = table THEN IF t = "cases" THEN cases[i] ELSE links[i] ELSE view[q][t][i]
      BY <1>5, <2>1, <2>2, <2>4 DEF Tables
    <3>4. row[i] = 0 \/ row[i] >= view[q]["row"][i]
      BY <1>3
    <3>5. ASSUME NEW t \in Tables PROVE view'[q][t][i] = 0 \/ view'[q][t][i] >= view[q]["row"][i]
      BY <1>3, <1>5, <3>3, <3>4
    <3>6. view'[q]["cases"][i] # view[q]["row"][i] => row[i] # view[q]["row"][i] \/ Stripped
      BY <1>3, <1>5, <3>1, <3>3
    <3> QED
      BY <1>3, <3>1, <3>2, <3>5, <3>6
  <2>5. CASE ~(q = r /\ i = j)
    <3>1. \A t \in Tables : view'[q][t][i] = view[q][t][i]
      BY <1>5, <2>1, <2>2, <2>5 DEF Tables
    <3> QED
      BY <1>3, <1>5, <2>3, <3>1
  <2> QED
    BY <2>4, <2>5
<1>8. CASE ReadFails(r)
  <2>1. CASE q = r
    <3>1. (\A t \in Tables : view'[q][t][i] = 0) /\ left'[q] = {}
      BY <1>5, <1>8, <2>1 DEF ReadFails, NoView, NoRevision
    <3> QED
      BY <1>5, <3>1
  <2>2. CASE q # r
    BY <1>3, <1>5, <1>8, <2>2 DEF ReadFails
  <2> QED
    BY <2>1, <2>2
<1> HIDE DEF Sound
<1>9. ASSUME NEW k \in {"detail", "full"}, NEW j \in Ids, SelectRows(r, k, {j})
      PROVE  Sound(view'[q], left'[q], i)
  BY <1>6, <1>9
<1>10. ASSUME NEW k \in {"list", "listFull"}, SelectRows(r, k, Ids)
       PROVE  Sound(view'[q], left'[q], i)
  BY <1>6, <1>10
<1>11. CASE SelectRows(r, "list", {j \in Ids : links[j] # 0})
  BY <1>6, <1>11
<1> QED
  BY <1>7, <1>8, <1>9, <1>10, <1>11 DEF Read

(* A reading request pairs a row only with tests and tags that are not older *)
(* than it, and with tests of another revision only when the problem has     *)
(* changed since or a reset is in the way.                                   *)
THEOREM ReadsStayOrdered == Spec => []ReadsFollowTheRow
<1>1. Init => ReadInv
  <2> SUFFICES ASSUME Init PROVE ReadInv
    OBVIOUS
  <2>1. \A r \in Readers, t \in Tables, i \in Ids : view[r][t][i] = 0
    BY DEF Init, NoView, NoRevision
  <2>2. "row" \in Tables /\ "cases" \in Tables
    BY DEF Tables
  <2>3. writes \in Nat /\ \A i \in Ids : row[i] \in Nat /\ row[i] <= writes
    BY Bounds DEF Init, Ids
  <2>4. \A r \in Readers : left[r] = {}
    BY DEF Init
  <2> QED
    BY <2>1, <2>2, <2>3, <2>4 DEF ReadInv, InOrder, ReadsFollowTheRow
<1>2. TypeOK /\ TypeOK' /\ WholeProblems /\ ReadInv /\ [Next]_vars => ReadInv'
  <2> SUFFICES ASSUME TypeOK, TypeOK', WholeProblems, ReadInv, [Next]_vars PROVE ReadInv'
    OBVIOUS
  <2>1. ASSUME NEW a \in Admins, Write(a) PROVE ReadInv'
    BY <2>1, WriteKeepsRead
  <2>2. ASSUME NEW r \in Readers, Read(r) PROVE ReadInv'
    BY <2>2, ReadKeepsRead
  <2>3. CASE UNCHANGED vars
    BY <2>3 DEF vars, ReadInv, InOrder, ReadsFollowTheRow, Stripped
  <2> QED
    BY <2>1, <2>2, <2>3 DEF Next
<1>3. ReadInv => ReadsFollowTheRow
  BY DEF ReadInv
<1> QED
  BY <1>1, <1>2, <1>3, TypeCorrect, ProblemsStayWhole, PTL DEF Spec

-----------------------------------------------------------------------------
(* That a reset nobody overlapped restores the seed file.                   *)

(* The seed problems up to the n-th are stored whole and no other is.       *)
SeedsUpTo(n) ==
    \A i \in Ids : IF i <= n THEN row[i] # 0 /\ cases[i] = row[i] /\ links[i] = row[i]
                             ELSE row[i] = 0

(* How far the bank is, given how far the reset is.                         *)
ResetSoFar(a) ==
    /\ pc[a] \in {"clearTags", "resetIds"} => SeedsUpTo(0)
    /\ pc[a] = "loading" => nextId = loaded[a] + 1 /\ SeedsUpTo(loaded[a])
    /\ pc[a] = "seeding" => /\ id[a] = loaded[a] + 1
                            /\ nextId = id[a] + 1
                            /\ SeedsUpTo(loaded[a])

(* A running request that none has overlapped runs alone.                   *)
Lone(a) == pc[a] # "idle" /\ a \notin overlapped

LoneSoFar ==
    /\ \A a \in Admins : pc[a] \notin {"loading", "seeding"} => loaded[a] = 0
    /\ \A a \in Admins : Lone(a) => /\ \A b \in Admins \ {a} : pc[b] = "idle"
                                    /\ ResetSoFar(a)

(* Who runs alone after a step is who took it, and ran alone before unless  *)
(* its request has just started.                                            *)
LEMMA LoneBefore ==
    ASSUME TypeOK, LoneSoFar, NEW a \in Admins, Write(a), NEW b \in Admins, Lone(b)'
    PROVE  /\ b = a
           /\ \A c \in Admins \ {a} : pc'[c] = "idle"
           /\ pc[a] # "idle" => ResetSoFar(a)
<1>0. \A c \in Admins \ {a} : pc'[c] = pc[c]
  BY OthersWait
<1>1. \/ Start
      \/ Continue /\ pc[a] # "idle"
  BY DEF Write, Insert, Fill, CheckExists, Delete, UpdateRow, Replace, ClearLinks,
     ClearCases, ClearProblems, ClearTags, ResetIds, LoadInsert, LoadFill, LoadDone, Fail
<1>2. pc'[b] # "idle" /\ b \notin overlapped'
  BY DEF Lone
<1>3. CASE Start
  <2>1. Busy = {}
    BY <1>2, <1>3 DEF Start, Busy
  <2> QED
    BY <1>0, <1>2, <2>1 DEF Busy
<1>4. CASE Continue /\ pc[a] # "idle"
  <2>1. b \notin overlapped
    BY <1>2, <1>4 DEF Continue, Busy
  <2>2. pc[b] # "idle"
    BY <1>0, <1>2, <1>4
  <2>3. \A c \in Admins \ {b} : pc[c] = "idle"
    BY <2>1, <2>2 DEF LoneSoFar, Lone
  <2>4. b = a
    BY <1>4, <2>3
  <2> QED
    BY <1>0, <2>1, <2>2, <2>3, <2>4 DEF LoneSoFar, Lone
<1> QED
  BY <1>1, <1>3, <1>4

(* A request that is not loading has nothing loaded.                        *)
LEMMA LoadedStep ==
    ASSUME TypeOK, LoneSoFar, NEW a \in Admins, Write(a)
    PROVE  \A b \in Admins : pc'[b] \notin {"loading", "seeding"} => loaded'[b] = 0
<1> USE DEF TypeOK, AdminType
<1>1. CASE Insert(a) \/ UpdateRow(a)
           \/ ClearLinks(a) \/ ClearCases(a) \/ ClearProblems(a) \/ ClearTags(a)
  <2>1. /\ loaded' = loaded /\ pc[a] \notin {"loading", "seeding"}
        /\ \A b \in Admins \ {a} : pc'[b] = pc[b]
    BY <1>1, OthersWait DEF Insert, UpdateRow, ClearLinks, ClearCases, ClearProblems,
       ClearTags, Goto
  <2> QED
    BY <2>1 DEF LoneSoFar
<1>2. CASE Fill(a) \/ Replace(a) \/ LoadDone(a) \/ Fail(a)
  <2>1. Answer(a)
    BY <1>2 DEF Fill, Replace, LoadDone, Fail
  <2> QED
    BY <2>1 DEF Answer, LoneSoFar
<1>3. CASE \E i \in Ids : CheckExists(a, i) \/ Delete(a, i)
  <2>1. /\ loaded' = loaded /\ pc[a] = "idle"
        /\ \A b \in Admins \ {a} : pc'[b] = pc[b]
    BY <1>3, OthersWait DEF CheckExists, Delete
  <2> QED
    BY <2>1 DEF LoneSoFar
<1>4. CASE ResetIds(a)
  BY <1>4 DEF ResetIds, Goto, LoneSoFar
<1>5. CASE LoadInsert(a)
  BY <1>5 DEF LoadInsert, TakeId, LoneSoFar
<1>6. CASE LoadFill(a)
  BY <1>6 DEF LoadFill, LoneSoFar
<1> QED
  BY <1>1, <1>2, <1>3, <1>4, <1>5, <1>6 DEF Write

(* A reset that runs alone goes on as the seed file says.                   *)
LEMMA ResetStep ==
    ASSUME TypeOK, LoneSoFar, NEW a \in Admins, Write(a),
           pc[a] # "idle" => ResetSoFar(a)
    PROVE  ResetSoFar(a)'
<1> USE DEF TypeOK, AdminType
<1>1. CASE \/ Insert(a) \/ UpdateRow(a) \/ ClearLinks(a) \/ ClearCases(a)
           \/ Fill(a) \/ Replace(a) \/ LoadDone(a) \/ Fail(a)
           \/ \E i \in Ids : CheckExists(a, i) \/ Delete(a, i)
  <2>1. pc'[a] \in {"idle", "inserted", "checked", "updated", "missed",
                    "clearCases", "clearProblems"}
    BY <1>1 DEF Insert, UpdateRow, ClearLinks, ClearCases, Fill, Replace, LoadDone, Fail,
       CheckExists, Delete, TakeId, Goto, Answer
  <2> QED
    BY <2>1 DEF ResetSoFar
<1>2. CASE ClearProblems(a)
  <2>1. pc'[a] = "clearTags" /\ \A i \in Ids : row'[i] = 0
    BY <1>2 DEF ClearProblems, Goto, NoRevision
  <2> QED
    BY <2>1 DEF ResetSoFar, SeedsUpTo, Ids
<1>3. CASE ClearTags(a)
  <2>1. pc[a] = "clearTags" /\ pc'[a] = "resetIds" /\ row' = row
    BY <1>3 DEF ClearTags, Goto
  <2> QED
    BY <2>1 DEF ResetSoFar, SeedsUpTo, Ids
<1>4. CASE ResetIds(a)
  <2>1. /\ pc[a] = "resetIds" /\ pc'[a] = "loading" /\ loaded' = loaded
        /\ UNCHANGED <<row, cases, links>>
    BY <1>4 DEF ResetIds, Goto, tables
  <2>2. SeedsUpTo(0)
    BY <2>1 DEF ResetSoFar
  <2>3. Stored = {}
    BY <2>2 DEF SeedsUpTo, Stored, Ids
  <2>4. nextId' = 1
    BY <1>4, <2>3, Bounds DEF ResetIds
  <2>5. loaded[a] = 0
    BY <2>1 DEF LoneSoFar
  <2> QED
    BY <2>1, <2>2, <2>4, <2>5 DEF ResetSoFar, SeedsUpTo
<1>5. CASE LoadInsert(a)
  <2>1. /\ pc[a] = "loading" /\ pc'[a] = "seeding" /\ loaded' = loaded
        /\ id'[a] = nextId /\ nextId' = nextId + 1
        /\ UNCHANGED <<row, cases, links>>
    BY <1>5 DEF LoadInsert, TakeId, tables
  <2> QED
    BY <2>1 DEF ResetSoFar, SeedsUpTo
<1>6. CASE LoadFill(a)
  <2>1. /\ pc[a] = "seeding" /\ pc'[a] = "loading" /\ loaded'[a] = loaded[a] + 1
        /\ nextId' = nextId /\ Commit(id[a])
    BY <1>6 DEF LoadFill
  <2>2. id[a] = loaded[a] + 1 /\ nextId = id[a] + 1 /\ SeedsUpTo(loaded[a])
    BY <2>1 DEF ResetSoFar
  <2>3. /\ loaded[a] \in Nat /\ id[a] \in Ids /\ writes + 1 # 0
        /\ row \in [Ids -> Nat] /\ cases \in [Ids -> Nat] /\ links \in [Ids -> Nat]
    BY Bounds DEF BankType
  <2>4. \A i \in Ids \ {id[a]} : row'[i] = row[i] /\ cases'[i] = cases[i] /\ links'[i] = links[i]
    BY <2>1, <2>3 DEF Commit
  <2>5. row'[id[a]] # 0 /\ cases'[id[a]] = row'[id[a]] /\ links'[id[a]] = row'[id[a]]
    BY <2>1, <2>3 DEF Commit
  <2>6. \A i \in Ids : i # id[a] => (i <= loaded[a] <=> i <= loaded[a] + 1)
    BY <2>2, <2>3 DEF Ids
  <2>7. SeedsUpTo(loaded[a])'
    <3> SUFFICES ASSUME NEW i \in Ids
                 PROVE  IF i <= loaded[a] + 1
                        THEN row'[i] # 0 /\ cases'[i] = row'[i] /\ links'[i] = row'[i]
                        ELSE row'[i] = 0
      BY <2>1 DEF SeedsUpTo
    <3>1. CASE i = id[a]
      BY <2>2, <2>3, <2>5, <3>1
    <3>2. CASE i # id[a]
      BY <2>2, <2>4, <2>6, <3>2 DEF SeedsUpTo
    <3> QED
      BY <3>1, <3>2
  <2> QED
    BY <2>1, <2>2, <2>7 DEF ResetSoFar
<1> QED
  BY <1>1, <1>2, <1>3, <1>4, <1>5, <1>6 DEF Write

(* A reset that no other request overlapped ends with the bank of the seed  *)
(* file, whatever requests and failures came before it (seed_loader.cpp).   *)
THEOREM LoneResetsRestore == Spec => []LoneResetRestoresSeed
<1>1. Init => LoneSoFar
  BY DEF Init, LoneSoFar, Lone
<1>2. TypeOK /\ LoneSoFar /\ [Next]_vars => LoneSoFar'
  <2> SUFFICES ASSUME TypeOK, LoneSoFar, [Next]_vars PROVE LoneSoFar'
    OBVIOUS
  <2>1. ASSUME NEW a \in Admins, Write(a) PROVE LoneSoFar'
    <3>1. \A b \in Admins : pc'[b] \notin {"loading", "seeding"} => loaded'[b] = 0
      BY <2>1, LoadedStep
    <3>2. ASSUME NEW b \in Admins, Lone(b)'
          PROVE  (\A c \in Admins \ {b} : pc'[c] = "idle") /\ ResetSoFar(b)'
      <4>1. /\ b = a
            /\ \A c \in Admins \ {a} : pc'[c] = "idle"
            /\ pc[a] # "idle" => ResetSoFar(a)
        BY <2>1, <3>2, LoneBefore
      <4> QED
        BY <2>1, <4>1, ResetStep
    <3> QED
      BY <3>1, <3>2 DEF LoneSoFar
  <2>2. ASSUME UNCHANGED <<tables, nextId, admin>> PROVE LoneSoFar'
    <3>1. UNCHANGED <<row, cases, links, nextId, pc, id, loaded, overlapped>>
      BY <2>2 DEF tables, admin
    <3>2. \A a \in Admins : (Lone(a)' <=> Lone(a)) /\ (ResetSoFar(a) => ResetSoFar(a)')
      BY <3>1 DEF Lone, ResetSoFar, SeedsUpTo
    <3> QED
      BY <3>1, <3>2 DEF LoneSoFar
  <2>3. ASSUME NEW r \in Readers, Read(r) PROVE LoneSoFar'
    BY <2>2, <2>3, ReadKeeps
  <2>4. CASE UNCHANGED vars
    BY <2>2, <2>4 DEF vars, tables, admin
  <2> QED
    BY <2>1, <2>3, <2>4 DEF Next
<1>3. TypeOK /\ LoneSoFar => LoneResetRestoresSeed
  <2> SUFFICES ASSUME TypeOK, LoneSoFar, NEW a \in Admins,
                      pc[a] = "loading", loaded[a] = Seeds, a \notin overlapped
               PROVE  nextId = Seeds + 1 /\ SeedsUpTo(Seeds)
    BY DEF LoneResetRestoresSeed, SeedsUpTo
  <2> QED
    BY DEF LoneSoFar, Lone, ResetSoFar
<1> QED
  BY <1>1, <1>2, <1>3, TypeCorrect, PTL DEF Spec
===============================================================================
