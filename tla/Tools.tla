------------------------------- MODULE Tools -------------------------------
(* The maintenance tools: minioj-seed, with and without --reset            *)
(* (scripts/seed.cpp), minioj-reset-for-tests (reset_for_tests.cpp) and    *)
(* create_admin.py, with and without --keep-existing, each a process of    *)
(* its own beside the running backend, which registers users, logs them in *)
(* and creates problems.  A tool may fail or be killed between any two     *)
(* statements, and be run again.                                           *)
(*                                                                         *)
(* One step is one SQL statement, or one transaction.  The child tables of *)
(* the problems are ProblemBank's matter and left out here.                *)
EXTENDS Naturals, Sequences, FiniteSets

CONSTANTS Runs,    \* the runs of tools
          Names,   \* user names, among them "admin" and those of tests
          TestNames, \* the names that begin with webtest_
          Seeds,   \* how many problems the seed file has
          MaxId,   \* bound: ids of problems handed out
          MaxUid,  \* bound: ids of users handed out
          MaxOpening, \* bound: requests that are about to insert a session
          None     \* no user, no run

(* The passwords: those that minioj-seed makes up, that of the other tools, *)
(* and the one a user has chosen.                                          *)
Secrets == Runs \union {"admin123", "own"}

Rows == [id : Nat, secret : Secrets, role : {"admin", "user"}]

ASSUME ToolsAssumption == /\ "admin" \in Names \ TestNames /\ TestNames \subseteq Names
                          /\ Seeds \in Nat /\ MaxId \in Nat /\ MaxUid \in Nat
                          /\ None \notin Runs \union Rows

(* The statements of each tool, in the order of its main().                *)
Script ==
  [seed      |-> <<"load", "find", "insert">>,
   seedReset |-> <<"clear", "ids", "load", "find", "delete", "insert">>,
   tests     |-> <<"clear", "ids", "ids", "load", "find", "delete", "insert", "cleanup", "report">>,
   create    |-> <<"find", "replace", "show">>,
   keep      |-> <<"find", "update", "show">>]

VARIABLES bank,   \* the seed entry in each problem, 0 for none or another's
          stored, \* the ids of the problems
          nextId, \* AUTO_INCREMENT of problems
          users,  \* the row of each user name
          nextUid, \* AUTO_INCREMENT of users
          sessions, \* the sessions: whose, and the password that opened it
          opening, \* the sessions that requests are about to insert
          kind,   \* which tool each run is of
          pc,     \* the statement it is at, 0 before it starts
          loaded, \* the seed problems it has loaded
          found,  \* the id of the user it has found
          ended,  \* how it ended
          kept,   \* history: the users whose password was changed in place
          alone   \* history: the run since whose start nobody else has acted

problems == <<bank, stored, nextId>>
accounts == <<users, nextUid, sessions>>
local == <<loaded, found>>
vars == <<problems, accounts, opening, kind, pc, local, ended, kept, alone>>

Row(id, secret, role) == [id |-> id, secret |-> secret, role |-> role]

(* After schema.sql. *)
Init == /\ bank = [i \in 1 .. MaxId |-> 0]
        /\ stored = {}
        /\ nextId = 1
        /\ users = [n \in Names |-> None]
        /\ nextUid = 1
        /\ sessions = {}
        /\ opening = {}
        /\ kind \in [Runs -> DOMAIN Script]
        /\ pc = [r \in Runs |-> 0]
        /\ loaded = [r \in Runs |-> 0]
        /\ found = [r \in Runs |-> 0]
        /\ ended = [r \in Runs |-> "no"]
        /\ kept = {}
        /\ alone = None

-----------------------------------------------------------------------------
(* A run goes from statement to statement. *)

At(r, statement) == /\ ended[r] = "no"
                    /\ pc[r] > 0
                    /\ Script[kind[r]][pc[r]] = statement

(* One at a time keeps being alone. *)
Acts(r) == alone' = IF alone = r THEN r ELSE None

Ends(r, how) == ended' = [ended EXCEPT ![r] = how] /\ UNCHANGED pc

(* On to the next statement, or exit status 0 after the last. *)
Advance(r) == IF pc[r] = Len(Script[kind[r]])
              THEN Ends(r, "done")
              ELSE pc' = [pc EXCEPT ![r] = @ + 1] /\ UNCHANGED ended

Begin(r) == /\ pc[r] = 0
            /\ pc' = [pc EXCEPT ![r] = 1]
            /\ alone' = r
            /\ UNCHANGED <<problems, accounts, opening, kind, local, ended, kept>>

(* A statement fails, or the process is killed.  A failed INSERT of a      *)
(* problem is rolled back, and keeps its id.                               *)
Fail(r) == /\ pc[r] > 0 /\ ended[r] = "no"
           /\ Ends(r, "failed")
           /\ Acts(r)
           /\ nextId' \in {nextId} \union (IF At(r, "load") /\ nextId < MaxId THEN {nextId + 1} ELSE {})
           /\ UNCHANGED <<bank, stored, accounts, opening, kind, local, kept>>

(* clearProblemBank(): DELETE FROM problems, committed on its own.         *)
Clear(r) == /\ At(r, "clear")
            /\ bank' = [i \in 1 .. MaxId |-> 0]
            /\ stored' = {}
            /\ Advance(r) /\ Acts(r)
            /\ UNCHANGED <<nextId, accounts, opening, kind, local, kept>>

Mutant_KeepIds(r) == /\ At(r, "ids")
                     /\ Advance(r) /\ Acts(r)
                     /\ UNCHANGED <<problems, accounts, opening, kind, local, kept>>

(* ALTER TABLE ... AUTO_INCREMENT = 1 makes it one more than the greatest. *)
ResetIds(r) == /\ At(r, "ids")
               /\ \E n \in 1 .. MaxId + 1 : /\ \A i \in stored : i < n
                                            /\ n = 1 \/ n - 1 \in stored
                                            /\ nextId' = n
               /\ Advance(r) /\ Acts(r)
               /\ UNCHANGED <<bank, stored, accounts, opening, kind, local, kept>>

Mutant_LoadOneMore(r) ==
  /\ At(r, "load")
  /\ IF loaded[r] <= Seeds
     THEN /\ nextId <= MaxId
          /\ bank' = [bank EXCEPT ![nextId] = loaded[r] + 1]
          /\ stored' = stored \union {nextId}
          /\ nextId' = nextId + 1
          /\ loaded' = [loaded EXCEPT ![r] = @ + 1]
          /\ UNCHANGED <<pc, ended>>
     ELSE Advance(r) /\ UNCHANGED <<problems, loaded>>
  /\ Acts(r)
  /\ UNCHANGED <<accounts, opening, kind, found, kept>>

(* loadProblemsFromJson(): a transaction for each entry. *)
Load(r) ==
  /\ At(r, "load")
  /\ IF loaded[r] < Seeds
     THEN /\ nextId <= MaxId
          /\ bank' = [bank EXCEPT ![nextId] = loaded[r] + 1]
          /\ stored' = stored \union {nextId}
          /\ nextId' = nextId + 1
          /\ loaded' = [loaded EXCEPT ![r] = @ + 1]
          /\ UNCHANGED <<pc, ended>>
     ELSE Advance(r) /\ UNCHANGED <<problems, loaded>>
  /\ Acts(r)
  /\ UNCHANGED <<accounts, opening, kind, found, kept>>

(* The lookup of the administrator.  minioj-seed without --reset leaves an *)
(* account that it finds as it is.                                         *)
Find(r) ==
  /\ At(r, "find")
  /\ found' = [found EXCEPT ![r] = IF users["admin"] = None THEN 0 ELSE users["admin"].id]
  /\ IF kind[r] = "seed" /\ users["admin"] # None THEN Ends(r, "done") ELSE Advance(r)
  /\ Acts(r)
  /\ UNCHANGED <<problems, accounts, opening, kind, loaded, kept>>

-----------------------------------------------------------------------------
(* The users table; a row that goes takes its sessions with it. *)

Remove(names) ==
  /\ users' = [n \in Names |-> IF n \in names THEN None ELSE users[n]]
  /\ sessions' = {s \in sessions : \A n \in names : users[n] = None \/ users[n].id # s.id}

(* The password a run gives: minioj-seed a random one of its own.          *)
Secret(r) == IF kind[r] \in {"seed", "seedReset"} THEN r ELSE "admin123"

(* DELETE FROM users WHERE username = ..., if the lookup has found one.    *)
DeleteAdmin(r) ==
  /\ At(r, "delete")
  /\ IF found[r] # 0 THEN Remove({"admin"}) ELSE UNCHANGED <<users, sessions>>
  /\ Advance(r) /\ Acts(r)
  /\ UNCHANGED <<problems, nextUid, opening, kind, local, kept>>

Mutant_InsertReplaces(r) ==
  /\ At(r, "insert")
  /\ IF users["admin"] = None
     THEN /\ nextUid <= MaxUid
          /\ users' = [users EXCEPT !["admin"] = Row(nextUid, Secret(r), "admin")]
          /\ nextUid' = nextUid + 1
     ELSE /\ users' = [users EXCEPT !["admin"].secret = Secret(r), !["admin"].role = "admin"]
          /\ UNCHANGED nextUid
  /\ Advance(r) /\ Acts(r)
  /\ UNCHANGED <<problems, sessions, opening, kind, local, kept>>

(* createUser(): the name may have been taken since, then the run fails.   *)
InsertAdmin(r) ==
  /\ At(r, "insert")
  /\ IF users["admin"] = None
     THEN /\ nextUid <= MaxUid
          /\ users' = [users EXCEPT !["admin"] = Row(nextUid, Secret(r), "admin")]
          /\ nextUid' = nextUid + 1
          /\ Advance(r)
     ELSE Ends(r, "failed") /\ UNCHANGED <<users, nextUid>>
  /\ Acts(r)
  /\ UNCHANGED <<problems, sessions, opening, kind, local, kept>>

(* cleanupWebtestUsers() *)
Cleanup(r) == /\ At(r, "cleanup")
              /\ Remove(TestNames)
              /\ Advance(r) /\ Acts(r)
              /\ UNCHANGED <<problems, nextUid, opening, kind, local, kept>>

(* reportProblemBank() counts, and READY=true is printed.                  *)
Report(r) == /\ At(r, "report")
             /\ Advance(r) /\ Acts(r)
             /\ UNCHANGED <<problems, accounts, opening, kind, local, kept>>

(* create_admin.py: DELETE by the id it has found, and INSERT, in one      *)
(* transaction.  With nothing found it only inserts; a name that is taken  *)
(* makes it fail and roll back.                                            *)
Replace(r) ==
  /\ At(r, "replace") \/ (At(r, "update") /\ found[r] = 0)
  /\ IF users["admin"] = None \/ users["admin"].id = found[r]
     THEN /\ nextUid <= MaxUid
          /\ users' = [users EXCEPT !["admin"] = Row(nextUid, Secret(r), "admin")]
          /\ sessions' = {s \in sessions : s.id # found[r]}
          /\ nextUid' = nextUid + 1
          /\ found' = [found EXCEPT ![r] = nextUid]
          /\ Advance(r)
     ELSE Ends(r, "failed") /\ UNCHANGED <<users, sessions, nextUid, found>>
  /\ Acts(r)
  /\ UNCHANGED <<problems, opening, kind, loaded, kept>>

(* --keep-existing: UPDATE by the id, which may be gone.                   *)
Update(r) ==
  /\ At(r, "update") /\ found[r] # 0
  /\ IF users["admin"] # None /\ users["admin"].id = found[r]
     THEN /\ users' = [users EXCEPT !["admin"] = Row(found[r], Secret(r), "admin")]
          /\ kept' = kept \union {found[r]}
     ELSE UNCHANGED <<users, kept>>
  /\ Advance(r) /\ Acts(r)
  /\ UNCHANGED <<problems, nextUid, sessions, opening, kind, local>>

(* It reads its row again to print it, and fails without one.              *)
Show(r) ==
  /\ At(r, "show")
  /\ Ends(r, IF users["admin"] # None /\ users["admin"].id = found[r] THEN "done" ELSE "failed")
  /\ Acts(r)
  /\ UNCHANGED <<problems, accounts, opening, kind, local, kept>>

-----------------------------------------------------------------------------
(* The backend: a registration inserts the user, a login verifies the      *)
(* password; each inserts its session after that, which may fail, as it    *)
(* does by the foreign key when the user has gone; a new problem of an     *)
(* administrator.                                                          *)
Register(n) ==
  /\ users[n] = None
  /\ nextUid <= MaxUid /\ Cardinality(opening) < MaxOpening
  /\ users' = [users EXCEPT ![n] = Row(nextUid, "own", "user")]
  /\ opening' = opening \union {[id |-> nextUid, secret |-> "own"]}
  /\ nextUid' = nextUid + 1
  /\ alone' = None
  /\ UNCHANGED <<problems, sessions, kind, pc, local, ended, kept>>

Verify(n) ==
  /\ users[n] # None /\ Cardinality(opening) < MaxOpening
  /\ opening' = opening \union {[id |-> users[n].id, secret |-> users[n].secret]}
  /\ UNCHANGED <<problems, accounts, kind, pc, local, ended, kept, alone>>

CreateSession(s) ==
  /\ s \in opening
  /\ opening' = opening \ {s}
  /\ \/ /\ \E n \in Names : users[n] # None /\ users[n].id = s.id
        /\ sessions' = sessions \union {s}
     \/ UNCHANGED sessions
  /\ alone' = None
  /\ UNCHANGED <<problems, users, nextUid, kind, pc, local, ended, kept>>

CreateProblem ==
  /\ nextId <= MaxId
  /\ stored' = stored \union {nextId}
  /\ nextId' = nextId + 1
  /\ alone' = None
  /\ UNCHANGED <<bank, accounts, opening, kind, pc, local, ended, kept>>

-----------------------------------------------------------------------------
ToolStep(r) == \/ Begin(r) \/ Fail(r)
               \/ Clear(r) \/ ResetIds(r) \/ Load(r)
               \/ Find(r) \/ DeleteAdmin(r) \/ InsertAdmin(r) \/ Cleanup(r) \/ Report(r)
               \/ Replace(r) \/ Update(r) \/ Show(r)

Next == \/ \E r \in Runs : ToolStep(r)
        \/ \E n \in Names : Register(n) \/ Verify(n)
        \/ \E s \in opening : CreateSession(s)
        \/ CreateProblem

Spec == Init /\ [][Next]_vars

-----------------------------------------------------------------------------
(* What the tools must guarantee. *)

(* The type invariant: no run loads more than the seed file has, nor goes  *)
(* past the end of its script (seed_loader.cpp, reset_for_tests.cpp).      *)
TypeOK ==
  /\ bank \in [1 .. MaxId -> 0 .. Seeds]
  /\ stored \subseteq 1 .. MaxId
  /\ nextId \in 1 .. MaxId + 1
  /\ users \in [Names -> [id : 1 .. MaxUid, secret : Secrets, role : {"admin", "user"}]
                         \union {None}]
  /\ nextUid \in 1 .. MaxUid + 1
  /\ sessions \subseteq [id : 1 .. MaxUid, secret : Secrets]
  /\ opening \subseteq [id : 1 .. MaxUid, secret : Secrets]
  /\ kind \in [Runs -> DOMAIN Script]
  /\ pc \in [Runs -> Nat] /\ \A r \in Runs : pc[r] \in 0 .. Len(Script[kind[r]])
  /\ loaded \in [Runs -> 0 .. Seeds]
  /\ found \in [Runs -> 0 .. MaxUid]
  /\ ended \in [Runs -> {"no", "done", "failed"}]
  /\ kept \subseteq 1 .. MaxUid
  /\ alone \in Runs \union {None}

(* The bank holds the seed problems, from 1 on, and nothing else.          *)
BankIsSeed == /\ stored = 1 .. Seeds
              /\ \A i \in stored : bank[i] = i
              /\ nextId = Seeds + 1

AdminIs(secret) == /\ users["admin"] # None
                   /\ users["admin"].secret = secret
                   /\ users["admin"].role = "admin"

(* What each tool says it has done when it exits with 0.                   *)
Promised(r) ==
  CASE kind[r] = "tests"     -> /\ BankIsSeed
                                /\ AdminIs("admin123")
                                /\ \A n \in TestNames : users[n] = None
    [] kind[r] = "seedReset" -> BankIsSeed /\ AdminIs(r)
    [] kind[r] = "seed"      -> /\ \A e \in 1 .. Seeds : \E i \in stored : bank[i] = e
                                /\ IF found[r] = 0 THEN AdminIs(r) ELSE users["admin"] # None
    [] OTHER                 -> AdminIs("admin123")

(* DEPLOY.md: resets may be repeated and put things back in place.  A tool *)
(* that exits with 0, and beside which nobody wrote, has done what it      *)
(* says, wherever the runs before it failed or were killed.                *)
DoneMeansDone ==
  \A r \in Runs : ended[r] = "done" /\ alone = r => Promised(r)

(* A password that a tool has replaced opens nothing any more: each        *)
(* session is of a user who still has the password that opened it, also    *)
(* when the login, a registration of the name or another tool came         *)
(* between two statements.  Only --keep-existing lets sessions live on.    *)
SessionsFollowPassword ==
  \A s \in sessions : \E n \in Names :
    /\ users[n] # None
    /\ users[n].id = s.id
    /\ users[n].secret = s.secret \/ s.id \in kept
=============================================================================
