---------------------------- MODULE ProblemBank ----------------------------
(* The problem bank: the tables problems, testcases and problem_tags, the   *)
(* administration requests that write them (create, update, delete, reset)  *)
(* and the requests that read them in several SELECTs.  One step is one SQL  *)
(* statement, or the statements of a transaction whose effects nobody sees   *)
(* before its COMMIT.                                                        *)
(*                                                                           *)
(* Contents are abstracted to revision numbers: every committed create or    *)
(* update writes the row, the tests and the tag links of one revision, 0 is  *)
(* "no row", "no tests", "no links".  Responses are left to the comments.    *)
EXTENDS Naturals, Sequences, FiniteSets

CONSTANTS
    Admins,       \* threads that serve administration requests
    Readers,      \* threads that serve reading requests
    Seeds,        \* entries of seed/problems.json
    MaxId,        \* bound: ids AUTO_INCREMENT hands out
    MaxRequests   \* bound: administration requests ever started

ASSUME SeedsAssumption == Seeds \in Nat \ {0}
ASSUME MaxIdAssumption == MaxId \in Nat /\ MaxId >= Seeds
ASSUME MaxRequestsAssumption == MaxRequests \in Nat

Ids == 1..MaxId

VARIABLES
    row,         \* revision of the problems row of each id
    cases,       \* revision its testcases rows come from
    links,       \* revision its problem_tags rows come from
    nextId,      \* AUTO_INCREMENT of problems
    writes,      \* revisions committed so far
    pc,          \* next statement of each administration request
    id,          \* the id the request works on
    loaded,      \* seed entries the reset has loaded
    requests,    \* administration requests started
    view,        \* what each reader has read, 0 for an id it did not find
    left,        \* ids each reader has still child rows to read of
    kind,        \* the query function each reader runs
    step,        \* the child table it reads next of the first of them
    halfCleared, \* history: a reset stopped between its second and third DELETE
    overlapped   \* history: running requests another one has overlapped

tables  == <<row, cases, links>>
reading == <<view, left, kind, step>>
admin   == <<pc, id, loaded, requests, overlapped>>
vars == <<row, cases, links, nextId, writes, pc, id, loaded, requests,
          view, left, kind, step, halfCleared, overlapped>>

Kinds == {"detail", "full", "list", "listFull"}

(* The SELECTs on the child tables, in the order each query function runs    *)
(* them after the one on problems.                                           *)
Children(k) ==
    CASE k = "detail" -> <<"cases", "links">>
      [] k = "list"   -> <<"links">>
      [] OTHER        -> <<"links", "cases">>

Tables == {"row", "cases", "links"}
NoRevision == [i \in Ids |-> 0]
NoView == [t \in Tables |-> NoRevision]

Init ==
    /\ row = [i \in Ids |-> IF i <= Seeds THEN i ELSE 0]
    /\ cases = row
    /\ links = row
    /\ nextId = Seeds + 1
    /\ writes = Seeds
    /\ pc = [a \in Admins |-> "idle"]
    /\ id = [a \in Admins |-> 1]
    /\ loaded = [a \in Admins |-> 0]
    /\ requests = 0
    /\ view = [r \in Readers |-> NoView]
    /\ left = [r \in Readers |-> {}]
    /\ kind = [r \in Readers |-> "list"]
    /\ step = [r \in Readers |-> 1]
    /\ halfCleared = FALSE
    /\ overlapped = {}

-----------------------------------------------------------------------------
(* InnoDB's locks follow from where each transaction stands: an inserted or  *)
(* updated row is locked until the transaction ends, and an UPDATE that      *)
(* found no row keeps others from inserting it (the gap lock, narrowed to    *)
(* the id itself).                                                           *)
RowLocked(i) ==
    \E a \in Admins : id[a] = i /\ pc[a] \in {"inserted", "seeding", "updated"}

Stored == {i \in Ids : row[i] # 0}

GapLocked(i) == \E a \in Admins : id[a] = i /\ pc[a] = "missed"

NoRowLocked == \A i \in Ids : ~RowLocked(i)

(* ALTER TABLE waits for every transaction that has touched the table.       *)
NoTransactionOpen ==
    \A a \in Admins : pc[a] \notin {"inserted", "seeding", "updated", "missed"}

Goto(a, next) == pc' = [pc EXCEPT ![a] = next] /\ UNCHANGED <<id, loaded>>

(* The handler answers, its local variables go.                              *)
Answer(a) ==
    /\ pc' = [pc EXCEPT ![a] = "idle"]
    /\ id' = [id EXCEPT ![a] = 1]
    /\ loaded' = [loaded EXCEPT ![a] = 0]

Busy == {a \in Admins : pc[a] # "idle"}

(* A request starts: from now on it and the running ones overlap.            *)
Start ==
    /\ requests < MaxRequests
    /\ requests' = requests + 1
    /\ overlapped' = IF Busy = {} THEN {} ELSE Busy'

(* A running request goes on, or ends.                                       *)
Continue ==
    /\ requests' = requests
    /\ overlapped' = overlapped \cap Busy'

(* INSERT INTO problems: the row takes the next id at once and is seen by    *)
(* nobody before the COMMIT; a ROLLBACK does not give the id back.           *)
TakeId(a, next) ==
    /\ nextId <= MaxId
    /\ ~GapLocked(nextId)
    /\ pc' = [pc EXCEPT ![a] = next]
    /\ id' = [id EXCEPT ![a] = nextId]
    /\ nextId' = nextId + 1

(* COMMIT of a row with its tags and testcases.                              *)
Commit(i) ==
    /\ writes' = writes + 1
    /\ row'   = [row   EXCEPT ![i] = writes + 1]
    /\ cases' = [cases EXCEPT ![i] = writes + 1]
    /\ links' = [links EXCEPT ![i] = writes + 1]

-----------------------------------------------------------------------------
(* POST /api/admin/problems *)
Insert(a) ==
    /\ pc[a] = "idle"
    /\ TakeId(a, "inserted")
    /\ Start
    /\ UNCHANGED <<tables, writes, loaded, halfCleared, reading>>

(* The tags and testcases of the transaction, and its COMMIT: 201, or 500    *)
(* when the answer to the COMMIT is lost.                                    *)
Fill(a) ==
    /\ pc[a] = "inserted"
    /\ Commit(id[a])
    /\ Answer(a)
    /\ Continue
    /\ UNCHANGED <<nextId, halfCleared, reading>>

(* PUT /api/admin/problems/:id: the existence check, outside the             *)
(* transaction; 404 when there is no such row.                               *)
CheckExists(a, i) ==
    /\ pc[a] = "idle"
    /\ IF row[i] = 0
         THEN UNCHANGED <<pc, id>>
         ELSE /\ pc' = [pc EXCEPT ![a] = "checked"]
              /\ id' = [id EXCEPT ![a] = i]
    /\ Start
    /\ UNCHANGED <<tables, nextId, writes, loaded, halfCleared, reading>>

(* The UPDATE runs before START TRANSACTION and is committed on its own. *)
Mutant_UpdateOutsideTransaction(a) ==
    /\ pc[a] = "checked" /\ ~RowLocked(id[a])
    /\ writes' = writes + 1
    /\ row' = [row EXCEPT ![id[a]] = IF @ = 0 THEN 0 ELSE writes + 1]
    /\ Goto(a, IF row[id[a]] = 0 THEN "missed" ELSE "updated")
    /\ Continue
    /\ UNCHANGED <<cases, links, nextId, halfCleared, reading>>

(* The old tests are deleted before START TRANSACTION. *)
Mutant_DeleteOutsideTransaction(a) ==
    /\ pc[a] = "checked" /\ ~RowLocked(id[a])
    /\ cases' = [cases EXCEPT ![id[a]] = 0]
    /\ Goto(a, IF row[id[a]] = 0 THEN "missed" ELSE "updated")
    /\ Continue
    /\ UNCHANGED <<row, links, writes, nextId, halfCleared, reading>>

(* START TRANSACTION and UPDATE problems: waits for the lock of the row; a   *)
(* row that has gone meanwhile is no error, the UPDATE changes none.         *)
UpdateRow(a) ==
    /\ pc[a] = "checked"
    /\ ~RowLocked(id[a])
    /\ Goto(a, IF row[id[a]] = 0 THEN "missed" ELSE "updated")
    /\ Continue
    /\ UNCHANGED <<tables, nextId, writes, halfCleared, reading>>

(* The DELETEs and INSERTs on the child tables and the COMMIT: 204.  Only    *)
(* Fail follows an UPDATE that missed its row: testcases is never empty and  *)
(* its first INSERT breaks the foreign key.                                  *)
Replace(a) ==
    /\ pc[a] = "updated"
    /\ Commit(id[a])
    /\ Answer(a)
    /\ Continue
    /\ UNCHANGED <<nextId, halfCleared, reading>>

(* DELETE /api/admin/problems/:id: one statement outside a transaction, the  *)
(* child rows go with the row; 204, or 404 when there was none.              *)
Delete(a, i) ==
    /\ pc[a] = "idle"
    /\ ~RowLocked(i)
    /\ row'   = [row   EXCEPT ![i] = 0]
    /\ cases' = [cases EXCEPT ![i] = 0]
    /\ links' = [links EXCEPT ![i] = 0]
    /\ pc' = pc
    /\ Start
    /\ UNCHANGED <<nextId, writes, id, loaded, halfCleared, reading>>

-----------------------------------------------------------------------------
(* POST /api/admin/reset: clearProblemBank deletes table by table, each      *)
(* DELETE its own transaction, then resets the ids; loadProblemsFromJson     *)
(* reads the seed file only then and creates entry after entry.              *)
ClearLinks(a) ==
    /\ pc[a] = "idle"
    /\ links' = NoRevision
    /\ Goto(a, "clearCases")
    /\ Start
    /\ UNCHANGED <<row, cases, nextId, writes, halfCleared, reading>>

ClearCases(a) ==
    /\ pc[a] = "clearCases"
    /\ cases' = NoRevision
    /\ Goto(a, "clearProblems")
    /\ Continue
    /\ UNCHANGED <<row, links, nextId, writes, halfCleared, reading>>

(* Waits for every locked row; what was written to the child tables since    *)
(* they were cleared goes with the rows.                                     *)
ClearProblems(a) ==
    /\ pc[a] = "clearProblems"
    /\ NoRowLocked
    /\ row' = NoRevision
    /\ cases' = NoRevision
    /\ links' = NoRevision
    /\ halfCleared' = FALSE
    /\ Goto(a, "clearTags")
    /\ Continue
    /\ UNCHANGED <<nextId, writes, reading>>

(* The links of a problem created since go with the tags.                    *)
ClearTags(a) ==
    /\ pc[a] = "clearTags"
    /\ links' = NoRevision
    /\ Goto(a, "resetIds")
    /\ Continue
    /\ UNCHANGED <<row, cases, nextId, writes, halfCleared, reading>>

(* The ALTER TABLE statements are missing: DELETE keeps AUTO_INCREMENT. *)
Mutant_KeepIds(a) ==
    /\ pc[a] = "resetIds" /\ NoTransactionOpen
    /\ Goto(a, "loading")
    /\ Continue
    /\ UNCHANGED <<tables, nextId, writes, halfCleared, reading>>

(* AUTO_INCREMENT = 1 asks for 1 and gets the first id above the stored ones. *)
ResetIds(a) ==
    /\ pc[a] = "resetIds"
    /\ NoTransactionOpen
    /\ \E n \in 1..MaxId + 1 :
          /\ n - 1 \in {0} \cup Stored
          /\ \A i \in Stored : i < n
          /\ nextId' = n
    /\ Goto(a, "loading")
    /\ Continue
    /\ UNCHANGED <<tables, writes, halfCleared, reading>>

(* The loop runs once more than there are entries. *)
Mutant_LoadOneMore(a) ==
    /\ pc[a] = "loading" /\ loaded[a] <= Seeds
    /\ TakeId(a, "seeding")
    /\ Continue
    /\ UNCHANGED <<tables, writes, loaded, halfCleared, reading>>

LoadInsert(a) ==
    /\ pc[a] = "loading"
    /\ loaded[a] < Seeds
    /\ TakeId(a, "seeding")
    /\ Continue
    /\ UNCHANGED <<tables, writes, loaded, halfCleared, reading>>

LoadFill(a) ==
    /\ pc[a] = "seeding"
    /\ Commit(id[a])
    /\ loaded' = [loaded EXCEPT ![a] = @ + 1]
    /\ pc' = [pc EXCEPT ![a] = "loading"]
    /\ Continue
    /\ UNCHANGED <<nextId, id, halfCleared, reading>>

(* 200 *)
LoadDone(a) ==
    /\ pc[a] = "loading"
    /\ loaded[a] = Seeds
    /\ Answer(a)
    /\ Continue
    /\ UNCHANGED <<tables, nextId, writes, halfCleared, reading>>

(* Any statement may fail, opening the seed file and parsing an entry may,   *)
(* and a lock may be waited for too long: an open transaction is rolled      *)
(* back, what was committed before stays, and the answer is 500.             *)
Fail(a) ==
    /\ pc[a] # "idle"
    /\ halfCleared' = (halfCleared \/ pc[a] = "clearProblems")
    /\ Answer(a)
    /\ Continue
    /\ UNCHANGED <<tables, nextId, writes, reading>>

-----------------------------------------------------------------------------
(* The reading requests: GET of one problem (sample tests, then tags), of    *)
(* one with all its tests (administration, and every submission), of the     *)
(* list and of the full list.  Each SELECT sees the latest commits.          *)

(* The SELECT on problems.  A child table that is not read yet is taken to   *)
(* be of the row's revision.                                                 *)
SelectRows(r, k, S) ==
    /\ left[r] = {}
    /\ LET found == [i \in Ids |-> IF i \in S THEN row[i] ELSE 0]
       IN  /\ view' = [view EXCEPT ![r] = [t \in Tables |-> found]]
           /\ left' = [left EXCEPT ![r] = {i \in Ids : found[i] # 0}]
    /\ kind' = [kind EXCEPT ![r] = k]
    /\ step' = [step EXCEPT ![r] = 1]
    /\ UNCHANGED <<tables, nextId, writes, admin, halfCleared>>

(* The next SELECT on a child table, problem after problem in id order.      *)
SelectChild(r) ==
    /\ \E i \in left[r] :
          /\ \A j \in left[r] : i <= j
          /\ LET table == Children(kind[r])[step[r]]
             IN  view' = [view EXCEPT ![r][table][i] =
                              IF table = "cases" THEN cases[i] ELSE links[i]]
          /\ IF step[r] < Len(Children(kind[r]))
               THEN /\ step' = [step EXCEPT ![r] = @ + 1]
                    /\ left' = left
               ELSE /\ step' = [step EXCEPT ![r] = 1]
                    /\ left' = [left EXCEPT ![r] = @ \ {i}]
    /\ UNCHANGED <<tables, nextId, writes, admin, kind, halfCleared>>

(* A SELECT fails: 500, and nothing of what was read is answered.            *)
ReadFails(r) ==
    /\ left[r] # {}
    /\ view' = [view EXCEPT ![r] = NoView]
    /\ left' = [left EXCEPT ![r] = {}]
    /\ UNCHANGED <<tables, nextId, writes, admin, kind, step, halfCleared>>

Write(a) ==
    \/ Insert(a) \/ Fill(a)
    \/ \E i \in Ids : CheckExists(a, i) \/ Delete(a, i)
    \/ UpdateRow(a) \/ Replace(a)
    \/ ClearLinks(a) \/ ClearCases(a) \/ ClearProblems(a) \/ ClearTags(a)
    \/ ResetIds(a) \/ LoadInsert(a) \/ LoadFill(a) \/ LoadDone(a)
    \/ Fail(a)

Read(r) ==
    \/ \E k \in {"detail", "full"}, i \in Ids : SelectRows(r, k, {i})
    \/ \E k \in {"list", "listFull"} : SelectRows(r, k, Ids)
    \/ SelectRows(r, "list", {i \in Ids : links[i] # 0})
    \/ SelectChild(r)
    \/ ReadFails(r)

Next ==
    \/ \E a \in Admins : Write(a)
    \/ \E r \in Readers : Read(r)

Spec == Init /\ [][Next]_vars

-----------------------------------------------------------------------------
BankType ==
    /\ row \in [Ids -> Nat]
    /\ cases \in [Ids -> Nat]
    /\ links \in [Ids -> Nat]
    /\ nextId \in 1..MaxId + 1
    /\ writes \in Nat
    /\ halfCleared \in BOOLEAN

AdminType ==
    /\ pc \in [Admins -> {"idle", "inserted", "checked", "updated", "missed",
                          "clearCases", "clearProblems", "clearTags",
                          "resetIds", "loading", "seeding"}]
    /\ id \in [Admins -> Ids]
    /\ loaded \in [Admins -> 0..Seeds]
    /\ \A a \in Admins : pc[a] = "seeding" => loaded[a] < Seeds
    /\ requests \in 0..MaxRequests
    /\ overlapped \subseteq Admins

ReaderType ==
    /\ view \in [Readers -> [Tables -> [Ids -> Nat]]]
    /\ left \in [Readers -> SUBSET Ids]
    /\ kind \in [Readers -> Kinds]
    /\ step \in [Readers -> 1..2]
    /\ \A r \in Readers : step[r] <= Len(Children(kind[r]))

(* Every variable keeps its type; loaded never passes the seed file's end.   *)
TypeOK == BankType /\ AdminType /\ ReaderType

(* A reset has deleted the tests and not yet the problems.                   *)
Stripped == halfCleared \/ \E a \in Admins : pc[a] = "clearProblems"

(* However creates, updates, deletes and resets interleave and fail, the     *)
(* tests and the tags stored for a problem are those of the revision its row *)
(* holds, never of an older or a half-applied one, none outlive their row,   *)
(* and a problem is without tests (what a submission is refused with "problem *)
(* has no testcases" for) only while a reset stands between two DELETEs or   *)
(* after one that failed there.                                              *)
WholeProblems ==
    \A i \in Ids :
        /\ cases[i] \in {0, row[i]}
        /\ links[i] \in {0, row[i]}
        /\ row[i] # 0 /\ cases[i] = 0 => Stripped

(* The separate SELECTs of a reading request never pair a row with tests or  *)
(* tags older than it, and tests of another revision (or none) mean that the *)
(* problem has been changed since its row was read or that a reset is in the *)
(* way: a submission is otherwise judged on the tests of the limits it read. *)
ReadsFollowTheRow ==
    \A r \in Readers : \A i \in Ids :
        LET seen == view[r]["row"][i]
        IN  /\ \A t \in Tables : view[r][t][i] = 0 \/ view[r][t][i] >= seen
            /\ view[r]["cases"][i] # seen => row[i] # seen \/ Stripped

(* A reset no other administration request has overlapped answers 200 only   *)
(* with the bank of the seed file: the seed problems whole under the ids     *)
(* from 1 on (seed_loader.cpp: "the id must be back at 1"), no other problem *)
(* and the next id after them, whatever failed before it.                    *)
LoneResetRestoresSeed ==
    \A a \in Admins :
        pc[a] = "loading" /\ loaded[a] = Seeds /\ a \notin overlapped =>
            /\ nextId = Seeds + 1
            /\ \A i \in Ids : IF i <= Seeds THEN row[i] # 0 /\ cases[i] = row[i] /\ links[i] = row[i]
                                            ELSE row[i] = 0
=============================================================================
