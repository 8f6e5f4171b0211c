---------------------------- MODULE ToolsProofs ----------------------------
(* Type correctness of the tools, that no session outlives the password     *)
(* that opened it, and that a tool left alone has done what it says.        *)
EXTENDS Tools, TLAPS

USE ToolsAssumption DEF Rows, Secrets

-----------------------------------------------------------------------------
(* Types.  The places of the runs move in the same few ways in every step. *)

PlacesOK == /\ kind \in [Runs -> DOMAIN Script]
            /\ pc \in [Runs -> Nat] /\ \A r \in Runs : pc[r] \in 0 .. Len(Script[kind[r]])
            /\ ended \in [Runs -> {"no", "done", "failed"}]
            /\ alone \in Runs \union {None}

BankOK == /\ bank \in [1 .. MaxId -> 0 .. Seeds]
          /\ stored \subseteq 1 .. MaxId
          /\ nextId \in 1 .. MaxId + 1
          /\ loaded \in [Runs -> 0 .. Seeds]

UsersOK ==
  /\ users \in [Names -> [id : 1 .. MaxUid, secret : Secrets, role : {"admin", "user"}]
                         \union {None}]
  /\ nextUid \in 1 .. MaxUid + 1
  /\ sessions \subseteq [id : 1 .. MaxUid, secret : Secrets]
  /\ opening \subseteq [id : 1 .. MaxUid, secret : Secrets]
  /\ found \in [Runs -> 0 .. MaxUid]
  /\ kept \subseteq 1 .. MaxUid

LEMMA TypeParts == TypeOK <=> PlacesOK /\ BankOK /\ UsersOK
  BY DEF TypeOK, PlacesOK, BankOK, UsersOK

LEMMA Scripts == \A k \in DOMAIN Script : Len(Script[k]) \in Nat \ {0}
  BY DEF Script

LEMMA Moves ==
  ASSUME PlacesOK, NEW r \in Runs, UNCHANGED kind, Acts(r),
         \/ Advance(r)
         \/ Ends(r, "done")
         \/ Ends(r, "failed")
         \/ UNCHANGED <<pc, ended>>
  PROVE  PlacesOK'
<1>1. CASE Advance(r)
  <2>1. CASE pc[r] = Len(Script[kind[r]])
    BY <1>1, <2>1 DEF PlacesOK, Advance, Ends, Acts
  <2>2. CASE pc[r] # Len(Script[kind[r]])
    <3>1. pc' = [pc EXCEPT ![r] = @ + 1] /\ UNCHANGED ended
      BY <1>1, <2>2 DEF Advance
    <3>2. pc[r] + 1 \in 0 .. Len(Script[kind[r]])
      BY <2>2, Scripts DEF PlacesOK
    <3> QED  BY <3>1, <3>2 DEF PlacesOK, Acts
  <2> QED  BY <2>1, <2>2
<1>2. CASE Ends(r, "done") \/ Ends(r, "failed")
  BY <1>2 DEF PlacesOK, Ends, Acts
<1>3. CASE UNCHANGED <<pc, ended>>
  BY <1>3 DEF PlacesOK, Acts
<1> QED  BY <1>1, <1>2, <1>3

(* A step of the backend leaves the runs where they are. *)
LEMMA Stays ==
  ASSUME PlacesOK, UNCHANGED <<kind, pc, ended>>, alone' \in {alone, None}
  PROVE  PlacesOK'
BY DEF PlacesOK

LEMMA PlacesInductive == ASSUME PlacesOK, [Next]_vars PROVE PlacesOK'
<1>1. ASSUME NEW r \in Runs, Begin(r) PROVE PlacesOK'
  BY <1>1, Scripts DEF PlacesOK, Begin
<1>2. ASSUME NEW r \in Runs, ToolStep(r), ~Begin(r) PROVE PlacesOK'
  <2>1. UNCHANGED kind /\ Acts(r)
    BY <1>2 DEF ToolStep, Fail, Clear, ResetIds, Load, Find, DeleteAdmin, InsertAdmin,
                Cleanup, Report, Replace, Update, Show
  <2>2. \/ Advance(r) \/ Ends(r, "done") \/ Ends(r, "failed")
        \/ UNCHANGED <<pc, ended>>
    BY <1>2 DEF ToolStep, Fail, Clear, ResetIds, Load, Find, DeleteAdmin, InsertAdmin,
                Cleanup, Report, Replace, Update, Show
  <2> QED  BY <2>1, <2>2, Moves
<1>3. ASSUME NEW n \in Names, Register(n) \/ Verify(n) PROVE PlacesOK'
  BY <1>3, Stays DEF Register, Verify
<1>4. CASE (\E s \in opening : CreateSession(s)) \/ CreateProblem
  BY <1>4, Stays DEF CreateSession, CreateProblem
<1>5. CASE UNCHANGED vars
  BY <1>5, Stays DEF vars
<1> QED  BY <1>1, <1>2, <1>3, <1>4, <1>5 DEF Next

LEMMA BankInductive == ASSUME PlacesOK, BankOK, [Next]_vars PROVE BankOK'
<1> USE DEF BankOK
<1>1. ASSUME NEW r \in Runs, ToolStep(r) PROVE BankOK'
  <2>1. CASE Fail(r)
    BY <2>1 DEF Fail, local
  <2>2. CASE Clear(r)
    BY <2>2 DEF Clear, local
  <2>3. CASE ResetIds(r)
    BY <2>3 DEF ResetIds, local
  <2>4. CASE Load(r)
    <3>1. CASE loaded[r] < Seeds
      <4>1. /\ nextId \in 1 .. MaxId
            /\ bank' = [bank EXCEPT ![nextId] = loaded[r] + 1]
            /\ stored' = stored \union {nextId}
            /\ nextId' = nextId + 1
            /\ loaded' = [loaded EXCEPT ![r] = @ + 1]
        BY <2>4, <3>1 DEF Load
      <4> QED  BY <3>1, <4>1
    <3>2. CASE ~(loaded[r] < Seeds)
      BY <2>4, <3>2 DEF Load, problems
    <3> QED  BY <3>1, <3>2
  <2>5. CASE \/ Begin(r) \/ Find(r) \/ DeleteAdmin(r) \/ InsertAdmin(r) \/ Cleanup(r)
             \/ Report(r) \/ Replace(r) \/ Update(r) \/ Show(r)
    BY <2>5 DEF Begin, Find, DeleteAdmin, InsertAdmin, Cleanup, Report, Replace, Update,
                Show, problems, local
  <2> QED  BY <1>1, <2>1, <2>2, <2>3, <2>4, <2>5 DEF ToolStep
<1>2. ASSUME NEW n \in Names, Register(n) \/ Verify(n) PROVE BankOK'
  BY <1>2 DEF Register, Verify, problems, local
<1>3. CASE \E s \in opening : CreateSession(s)
  BY <1>3 DEF CreateSession, problems, local
<1>4. CASE CreateProblem
  BY <1>4 DEF CreateProblem, local
<1>5. CASE UNCHANGED vars
  BY <1>5 DEF vars, problems, local
<1> QED  BY <1>1, <1>2, <1>3, <1>4, <1>5 DEF Next

-----------------------------------------------------------------------------
(* Whose session it is.  An id names one user and is not given again; a     *)
(* session, and one that is about to be inserted, carry the password of     *)
(* their user, unless that was changed in place.                            *)
IdsOK == /\ \A n \in Names : users[n] # None => users[n].id < nextUid
         /\ \A s \in opening : s.id < nextUid
         /\ \A m, n \in Names : users[m] # None /\ users[n] # None
                                /\ users[m].id = users[n].id => m = n

OpeningFollowsPassword ==
  \A s \in opening, n \in Names :
    users[n] # None /\ users[n].id = s.id => users[n].secret = s.secret \/ s.id \in kept

IInv == UsersOK /\ IdsOK /\ SessionsFollowPassword /\ OpeningFollowsPassword

(* A user's row, and those that no session is left of. *)
LEMMA RowIsNotNone ==
  ASSUME NEW id \in Nat, NEW s \in Secrets, NEW role \in {"admin", "user"}
  PROVE  /\ Row(id, s, role) \in [id : Nat, secret : Secrets, role : {"admin", "user"}]
         /\ Row(id, s, role) # None
         /\ Row(id, s, role).id = id /\ Row(id, s, role).secret = s
  BY DEF Row

LEMMA SecretType == \A r \in Runs : Secret(r) \in Secrets
  BY DEF Secret

LEMMA Removal ==
  ASSUME IInv, NEW names \in SUBSET Names, Remove(names), UNCHANGED <<nextUid, opening, kept>>,
         UNCHANGED found
  PROVE  IInv'
<1>1. /\ users' = [n \in Names |-> IF n \in names THEN None ELSE users[n]]
      /\ sessions' = {s \in sessions : \A n \in names : users[n] = None \/ users[n].id # s.id}
  BY DEF Remove
<1>2. UsersOK'
  BY <1>1 DEF IInv, UsersOK
<1>3. IdsOK'
  BY <1>1 DEF IInv, IdsOK
<1>4. SessionsFollowPassword'
  <2> SUFFICES ASSUME NEW s \in sessions'
               PROVE  \E n \in Names : users'[n] # None /\ users'[n].id = s.id
                                       /\ (users'[n].secret = s.secret \/ s.id \in kept')
    BY DEF SessionsFollowPassword
  <2>1. PICK n \in Names : users[n] # None /\ users[n].id = s.id
                           /\ (users[n].secret = s.secret \/ s.id \in kept)
    BY <1>1 DEF IInv, SessionsFollowPassword
  <2>2. n \notin names
    BY <1>1, <2>1
  <2> QED  BY <1>1, <2>1, <2>2
<1>5. OpeningFollowsPassword'
  BY <1>1 DEF IInv, OpeningFollowsPassword
<1> QED  BY <1>2, <1>3, <1>4, <1>5 DEF IInv

(* A row with a new id, under a name that is free, or that no session is of *)
(* any more.                                                                *)
LEMMA NewRow ==
  ASSUME IInv, NEW m \in Names, NEW s \in Secrets, NEW role \in {"admin", "user"},
         nextUid <= MaxUid,
         users' = [users EXCEPT ![m] = Row(nextUid, s, role)],
         nextUid' = nextUid + 1,
         sessions' \subseteq {u \in sessions : users[m] = None \/ users[m].id # u.id}
                             \union {[id |-> nextUid, secret |-> s]},
         opening' \subseteq opening \union {[id |-> nextUid, secret |-> s]}, UNCHANGED kept,
         found' \in [Runs -> 0 .. MaxUid]
  PROVE  IInv'
<1>1. /\ nextUid \in 1 .. MaxUid
      /\ Row(nextUid, s, role) \in [id : 1 .. MaxUid, secret : Secrets, role : {"admin", "user"}]
      /\ Row(nextUid, s, role) # None
      /\ Row(nextUid, s, role).id = nextUid /\ Row(nextUid, s, role).secret = s
  <2>1. nextUid \in 1 .. MaxUid
    BY DEF IInv, UsersOK
  <2> QED  BY <2>1, RowIsNotNone DEF Row
<1>2. users'[m] = Row(nextUid, s, role) /\ \A n \in Names \ {m} : users'[n] = users[n]
  BY DEF IInv, UsersOK
<1>3. UsersOK'
  BY <1>1 DEF IInv, UsersOK
<1>4. IdsOK'
  BY <1>1, <1>2 DEF IInv, UsersOK, IdsOK
<1>5. SessionsFollowPassword'
  <2> SUFFICES ASSUME NEW u \in sessions'
               PROVE  \E n \in Names : users'[n] # None /\ users'[n].id = u.id
                                       /\ (users'[n].secret = u.secret \/ u.id \in kept')
    BY DEF SessionsFollowPassword
  <2>1. CASE u = [id |-> nextUid, secret |-> s]
    BY <1>1, <1>2, <2>1
  <2>2. CASE u \in sessions /\ (users[m] = None \/ users[m].id # u.id)
    <3>1. PICK n \in Names : users[n] # None /\ users[n].id = u.id
                             /\ (users[n].secret = u.secret \/ u.id \in kept)
      BY <2>2 DEF IInv, SessionsFollowPassword
    <3> QED  BY <1>2, <2>2, <3>1
  <2> QED  BY <2>1, <2>2
<1>6. OpeningFollowsPassword'
  BY <1>1, <1>2 DEF IInv, UsersOK, IdsOK, OpeningFollowsPassword
<1> QED  BY <1>3, <1>4, <1>5, <1>6 DEF IInv

LEMMA Untouched ==
  ASSUME IInv, UNCHANGED <<users, nextUid, sessions, opening, kept>>,
         found' \in [Runs -> 0 .. MaxUid]
  PROVE  IInv'
BY DEF IInv, UsersOK, IdsOK, SessionsFollowPassword, OpeningFollowsPassword

LEMMA ToolKeeps == ASSUME IInv, NEW r \in Runs, ToolStep(r) PROVE IInv'
<1>0. found \in [Runs -> 0 .. MaxUid] /\ "admin" \in Names
  BY DEF IInv, UsersOK
<1>1. CASE Begin(r) \/ Fail(r) \/ Clear(r) \/ ResetIds(r) \/ Load(r) \/ Report(r) \/ Show(r)
  BY <1>0, <1>1, Untouched DEF Begin, Fail, Clear, ResetIds, Load, Report, Show, accounts, local
<1>2. CASE Find(r)
  <2>1. (IF users["admin"] = None THEN 0 ELSE users["admin"].id) \in 0 .. MaxUid
    BY <1>0 DEF IInv, UsersOK
  <2> QED  BY <1>0, <1>2, <2>1, Untouched DEF Find, accounts
<1>3. CASE DeleteAdmin(r)
  <2>1. CASE found[r] # 0
    BY <1>0, <1>3, <2>1, Removal DEF DeleteAdmin, local
  <2>2. CASE found[r] = 0
    BY <1>0, <1>3, <2>2, Untouched DEF DeleteAdmin, local
  <2> QED  BY <2>1, <2>2
<1>4. CASE Cleanup(r)
  BY <1>4, Removal DEF Cleanup, local
<1>5. CASE InsertAdmin(r)
  <2>1. CASE users["admin"] = None
    BY <1>0, <1>5, <2>1, NewRow, SecretType DEF InsertAdmin, local
  <2>2. CASE users["admin"] # None
    BY <1>0, <1>5, <2>2, Untouched DEF InsertAdmin, local
  <2> QED  BY <2>1, <2>2
<1>6. CASE Replace(r)
  <2>1. CASE users["admin"] = None \/ users["admin"].id = found[r]
    <3>1. /\ nextUid <= MaxUid
          /\ users' = [users EXCEPT !["admin"] = Row(nextUid, Secret(r), "admin")]
          /\ sessions' = {s \in sessions : s.id # found[r]}
          /\ nextUid' = nextUid + 1
          /\ found' = [found EXCEPT ![r] = nextUid]
          /\ UNCHANGED <<opening, kept>>
      BY <1>6, <2>1 DEF Replace
    <3>2. found' \in [Runs -> 0 .. MaxUid]
      BY <3>1 DEF IInv, UsersOK
    <3>3. sessions' \subseteq {u \in sessions : users["admin"] = None \/ users["admin"].id # u.id}
                              \union {[id |-> nextUid, secret |-> Secret(r)]}
      BY <2>1, <3>1
    <3> QED  BY <1>0, <3>1, <3>2, <3>3, NewRow, SecretType
  <2>2. CASE ~(users["admin"] = None \/ users["admin"].id = found[r])
    BY <1>0, <1>6, <2>2, Untouched DEF Replace
  <2> QED  BY <2>1, <2>2
<1>7. CASE Update(r)
  <2>1. CASE users["admin"] # None /\ users["admin"].id = found[r]
    <3>1. /\ users' = [users EXCEPT !["admin"] = Row(found[r], Secret(r), "admin")]
          /\ kept' = kept \union {found[r]}
          /\ UNCHANGED <<nextUid, sessions, opening, found>>
      BY <1>7, <2>1 DEF Update, local
    <3>2. found[r] \in 1 .. MaxUid /\ found[r] < nextUid
      BY <1>0, <2>1 DEF IInv, UsersOK, IdsOK
    <3>3. /\ Row(found[r], Secret(r), "admin")
               \in [id : 1 .. MaxUid, secret : Secrets, role : {"admin", "user"}]
          /\ Row(found[r], Secret(r), "admin") # None
          /\ Row(found[r], Secret(r), "admin").id = found[r]
      BY <3>2, SecretType, RowIsNotNone DEF Row
    <3>4. /\ users'["admin"] = Row(found[r], Secret(r), "admin")
          /\ \A n \in Names \ {"admin"} : users'[n] = users[n]
      BY <1>0, <3>1 DEF IInv, UsersOK
    <3>5. UsersOK'
      BY <3>1, <3>2, <3>3 DEF IInv, UsersOK
    <3>6. IdsOK'
      BY <1>0, <2>1, <3>1, <3>2, <3>3, <3>4 DEF IInv, IdsOK
    <3>7. SessionsFollowPassword'
      <4> SUFFICES ASSUME NEW u \in sessions'
                   PROVE  \E n \in Names : users'[n] # None /\ users'[n].id = u.id
                                           /\ (users'[n].secret = u.secret \/ u.id \in kept')
        BY DEF SessionsFollowPassword
      <4>1. PICK n \in Names : users[n] # None /\ users[n].id = u.id
                               /\ (users[n].secret = u.secret \/ u.id \in kept)
        BY <3>1 DEF IInv, SessionsFollowPassword
      <4> QED  BY <2>1, <3>1, <3>3, <3>4, <4>1
    <3>8. OpeningFollowsPassword'
      BY <2>1, <3>1, <3>3, <3>4 DEF IInv, OpeningFollowsPassword
    <3> QED  BY <3>5, <3>6, <3>7, <3>8 DEF IInv
  <2>2. CASE ~(users["admin"] # None /\ users["admin"].id = found[r])
    BY <1>0, <1>7, <2>2, Untouched DEF Update, local
  <2> QED  BY <2>1, <2>2
<1> QED  BY <1>1, <1>2, <1>3, <1>4, <1>5, <1>6, <1>7 DEF ToolStep

LEMMA SessionsInductive == ASSUME IInv, [Next]_vars PROVE IInv'
<1>0. found \in [Runs -> 0 .. MaxUid]
  BY DEF IInv, UsersOK
<1>1. ASSUME NEW n \in Names, Register(n) PROVE IInv'
  BY <1>0, <1>1, NewRow DEF Register, local
<1>2. ASSUME NEW n \in Names, Verify(n) PROVE IInv'
  <2>1. /\ users[n] # None
        /\ opening' = opening \union {[id |-> users[n].id, secret |-> users[n].secret]}
        /\ UNCHANGED <<users, nextUid, sessions, kept, found>>
    BY <1>2 DEF Verify, accounts, local
  <2>2. UsersOK'
    BY <2>1 DEF IInv, UsersOK
  <2>3. IdsOK'
    BY <2>1 DEF IInv, UsersOK, IdsOK
  <2>4. SessionsFollowPassword'
    BY <2>1 DEF IInv, SessionsFollowPassword
  <2>5. OpeningFollowsPassword'
    BY <2>1 DEF IInv, IdsOK, OpeningFollowsPassword
  <2> QED  BY <2>2, <2>3, <2>4, <2>5 DEF IInv
<1>3. ASSUME NEW s \in opening, CreateSession(s) PROVE IInv'
  <2>1. /\ opening' = opening \ {s}
        /\ UNCHANGED <<users, nextUid, kept, found>>
        /\ \/ UNCHANGED sessions
           \/ /\ sessions' = sessions \union {s}
              /\ \E n \in Names : users[n] # None /\ users[n].id = s.id
    BY <1>3 DEF CreateSession, local
  <2>2. UsersOK'
    BY <2>1 DEF IInv, UsersOK
  <2>3. IdsOK' /\ OpeningFollowsPassword'
    BY <2>1 DEF IInv, IdsOK, OpeningFollowsPassword
  <2>4. SessionsFollowPassword'
    BY <2>1 DEF IInv, SessionsFollowPassword, OpeningFollowsPassword
  <2> QED  BY <2>2, <2>3, <2>4 DEF IInv
<1>4. CASE CreateProblem
  BY <1>0, <1>4, Untouched DEF CreateProblem, accounts, local
<1>5. CASE UNCHANGED vars
  BY <1>0, <1>5, Untouched DEF vars, accounts, local
<1> QED  BY <1>1, <1>2, <1>3, <1>4, <1>5, ToolKeeps DEF Next

-----------------------------------------------------------------------------
LEMMA InitHolds == Init => PlacesOK /\ BankOK /\ IInv
<1> SUFFICES ASSUME Init PROVE PlacesOK /\ BankOK /\ IInv
  OBVIOUS
<1>1. PlacesOK
  BY Scripts DEF Init, PlacesOK
<1>2. BankOK
  BY DEF Init, BankOK
<1>3. IInv
  BY DEF Init, IInv, UsersOK, IdsOK, SessionsFollowPassword, OpeningFollowsPassword
<1> QED  BY <1>1, <1>2, <1>3

LEMMA Invariance == Spec => [](PlacesOK /\ BankOK /\ IInv)
<1>1. PlacesOK /\ BankOK /\ IInv /\ [Next]_vars => (PlacesOK /\ BankOK /\ IInv)'
  BY PlacesInductive, BankInductive, SessionsInductive
<1> QED  BY <1>1, InitHolds, PTL DEF Spec

(* The tools keep their types: no run loads more than the seed file has or  *)
(* leaves its script, and no id is given that the tables do not have.       *)
THEOREM TypeCorrect == Spec => []TypeOK
<1>1. PlacesOK /\ BankOK /\ IInv => TypeOK
  BY TypeParts DEF IInv
<1> QED  BY <1>1, Invariance, PTL

(* No session outlives the password that opened it, whichever tools run     *)
(* beside the backend and wherever they fail (seed.cpp, reset_for_tests.cpp, *)
(* create_admin.py, handlers_auth.cpp).                                     *)
THEOREM SessionsAlwaysFollowPassword == Spec => []SessionsFollowPassword
<1>1. IInv => SessionsFollowPassword
  BY DEF IInv
<1> QED  BY <1>1, Invariance, PTL

-----------------------------------------------------------------------------
(* That a tool beside which nobody wrote has done what it says.            *)

(* Ids in use are spent, an unused id holds no seed problem, and a run     *)
(* that has not begun has loaded nothing.                                  *)
IdsSpent == /\ \A i \in stored : i < nextId
            /\ \A i \in 1 .. MaxId : i \notin stored => bank[i] = 0
            /\ \A r \in Runs : pc[r] = 0 => loaded[r] = 0 /\ ended[r] = "no"

(* The bank holds the first problems of the seed file and nothing else ... *)
Prefix(n) == /\ stored = 1 .. n
             /\ \A i \in stored : bank[i] = i
             /\ nextId = n + 1

(* ... or holds them among others.                                         *)
Among(n) == \A e \in 1 .. n : \E i \in stored : bank[i] = e

(* Where the problems stand, given where the run stands in its script.     *)
BankSoFar(r) ==
  /\ kind[r] = "seed" =>
       Among(loaded[r]) /\ (pc[r] > 1 => loaded[r] = Seeds)
  /\ kind[r] = "seedReset" =>
       /\ pc[r] <= 2 => loaded[r] = 0
       /\ pc[r] = 2 => stored = {}
       /\ pc[r] > 2 => Prefix(loaded[r])
       /\ pc[r] > 3 => loaded[r] = Seeds
  /\ kind[r] = "tests" =>
       /\ pc[r] <= 3 => loaded[r] = 0
       /\ pc[r] \in {2, 3} => stored = {}
       /\ pc[r] > 3 => Prefix(loaded[r])
       /\ pc[r] > 4 => loaded[r] = Seeds

(* The lookup still tells what the table holds.                            *)
FoundIsAdmin(r) == /\ users["admin"] = None => found[r] = 0
                   /\ users["admin"] # None => found[r] = users["admin"].id

(* Where the administrator's account stands.                               *)
AdminSoFar(r) ==
  /\ kind[r] = "seed" =>
       /\ pc[r] = 3 => found[r] = 0
       /\ ended[r] = "done" => IF found[r] = 0 THEN pc[r] = 3 /\ AdminIs(r)
                                               ELSE pc[r] = 2 /\ users["admin"] # None
  /\ kind[r] = "seedReset" =>
       /\ pc[r] = 5 => FoundIsAdmin(r)
       /\ pc[r] = 6 /\ ended[r] = "no" => users["admin"] = None
       /\ ended[r] = "done" => pc[r] = 6 /\ AdminIs(r)
  /\ kind[r] = "tests" =>
       /\ pc[r] = 6 => FoundIsAdmin(r)
       /\ pc[r] = 7 => users["admin"] = None
       /\ pc[r] \in {8, 9} => AdminIs("admin123")
       /\ pc[r] = 9 => \A n \in TestNames : users[n] = None
       /\ ended[r] = "done" => pc[r] = 9
  /\ kind[r] \in {"create", "keep"} =>
       /\ pc[r] = 2 => FoundIsAdmin(r)
       /\ pc[r] = 3 => AdminIs("admin123")
       /\ ended[r] = "done" => pc[r] = 3

SoFar(r) == pc[r] > 0 /\ (ended[r] # "failed" => BankSoFar(r) /\ AdminSoFar(r))

AloneSoFar == \A r \in Runs : alone = r => SoFar(r)

LEMMA Lengths ==
  /\ DOMAIN Script = {"seed", "seedReset", "tests", "create", "keep"}
  /\ Len(Script["seed"]) = 3 /\ Len(Script["seedReset"]) = 6 /\ Len(Script["tests"]) = 9
  /\ Len(Script["create"]) = 3 /\ Len(Script["keep"]) = 3
  BY DEF Script

Stands(r, k, p) == kind[r] = k /\ pc[r] = p

(* Which statements of which tools each action stands for. *)
LEMMA Where ==
  ASSUME PlacesOK, NEW r \in Runs
  PROVE  /\ At(r, "clear") => Stands(r, "seedReset", 1) \/ Stands(r, "tests", 1)
         /\ At(r, "ids") => \/ Stands(r, "seedReset", 2)
                            \/ Stands(r, "tests", 2) \/ Stands(r, "tests", 3)
         /\ At(r, "load") => \/ Stands(r, "seed", 1)
                             \/ Stands(r, "seedReset", 3) \/ Stands(r, "tests", 4)
         /\ At(r, "find") => \/ Stands(r, "seed", 2)
                             \/ Stands(r, "seedReset", 4) \/ Stands(r, "tests", 5)
                             \/ Stands(r, "create", 1) \/ Stands(r, "keep", 1)
         /\ At(r, "delete") => Stands(r, "seedReset", 5) \/ Stands(r, "tests", 6)
         /\ At(r, "insert") => \/ Stands(r, "seed", 3)
                               \/ Stands(r, "seedReset", 6) \/ Stands(r, "tests", 7)
         /\ At(r, "cleanup") => Stands(r, "tests", 8)
         /\ At(r, "report") => Stands(r, "tests", 9)
         /\ At(r, "replace") => Stands(r, "create", 2)
         /\ At(r, "update") => Stands(r, "keep", 2)
         /\ At(r, "show") => Stands(r, "create", 3) \/ Stands(r, "keep", 3)
<1> USE DEF At, Stands
<1>1. /\ kind[r] \in DOMAIN Script
      /\ pc[r] \in Nat /\ pc[r] <= Len(Script[kind[r]])
  BY DEF PlacesOK
<1>2. CASE kind[r] = "seed"
  <2>1. Script["seed"] = <<"load", "find", "insert">>
    BY DEF Script
  <2>2. pc[r] \in {0, 1, 2, 3}
    BY <1>1, <1>2, Lengths
  <2> QED  BY <1>2, <2>1, <2>2
<1>3. CASE kind[r] = "seedReset"
  <2>1. Script["seedReset"] = <<"clear", "ids", "load", "find", "delete", "insert">>
    BY DEF Script
  <2>2. pc[r] \in {0, 1, 2, 3, 4, 5, 6}
    BY <1>1, <1>3, Lengths
  <2> QED  BY <1>3, <2>1, <2>2
<1>4. CASE kind[r] = "tests"
  <2>1. Script["tests"] = <<"clear", "ids", "ids", "load", "find", "delete", "insert",
                            "cleanup", "report">>
    BY DEF Script
  <2>2. pc[r] \in {0, 1, 2, 3, 4, 5, 6, 7, 8, 9}
    BY <1>1, <1>4, Lengths
  <2> QED  BY <1>4, <2>1, <2>2
<1>5. CASE kind[r] = "create"
  <2>1. Script["create"] = <<"find", "replace", "show">>
    BY DEF Script
  <2>2. pc[r] \in {0, 1, 2, 3}
    BY <1>1, <1>5, Lengths
  <2> QED  BY <1>5, <2>1, <2>2
<1>6. CASE kind[r] = "keep"
  <2>1. Script["keep"] = <<"find", "update", "show">>
    BY DEF Script
  <2>2. pc[r] \in {0, 1, 2, 3}
    BY <1>1, <1>6, Lengths
  <2> QED  BY <1>6, <2>1, <2>2
<1> QED  BY <1>1, <1>2, <1>3, <1>4, <1>5, <1>6, Lengths

(* Where more statements follow, and where none does. *)
LEMMA Lasts ==
  ASSUME PlacesOK, NEW r \in Runs
  PROVE  pc[r] = Len(Script[kind[r]]) <=> \/ Stands(r, "seed", 3) \/ Stands(r, "seedReset", 6)
                                          \/ Stands(r, "tests", 9) \/ Stands(r, "create", 3)
                                          \/ Stands(r, "keep", 3)
<1>1. CASE kind[r] = "seed"
  BY <1>1, Lengths DEF Stands
<1>2. CASE kind[r] = "seedReset"
  BY <1>2, Lengths DEF Stands
<1>3. CASE kind[r] = "tests"
  BY <1>3, Lengths DEF Stands
<1>4. CASE kind[r] = "create"
  BY <1>4, Lengths DEF Stands
<1>5. CASE kind[r] = "keep"
  BY <1>5, Lengths DEF Stands
<1>6. kind[r] \in DOMAIN Script
  BY DEF PlacesOK
<1> QED  BY <1>1, <1>2, <1>3, <1>4, <1>5, <1>6, Lengths

(* The next statement, or the end after the last. *)
LEMMA OnToNext ==
  ASSUME PlacesOK, NEW r \in Runs, pc[r] > 0, ended[r] = "no", Advance(r), UNCHANGED kind
  PROVE  /\ kind'[r] = kind[r] /\ kind[r] \in DOMAIN Script
         /\ pc[r] \in Nat \ {0} /\ pc'[r] \in Nat \ {0}
         /\ pc[r] # Len(Script[kind[r]]) => pc'[r] = pc[r] + 1 /\ ended'[r] = "no"
         /\ pc[r] = Len(Script[kind[r]]) => pc'[r] = pc[r] /\ ended'[r] = "done"
BY DEF PlacesOK, Advance, Ends

LEMMA IdsSpentStep == ASSUME PlacesOK, BankOK, IdsSpent, [Next]_vars PROVE IdsSpent'
<1> USE DEF IdsSpent, BankOK
<1>1. ASSUME NEW r \in Runs, ToolStep(r) PROVE IdsSpent'
  <2> DEFINE Begun == \A q \in Runs : pc'[q] = 0 => loaded'[q] = 0 /\ ended'[q] = "no"
  <2>0. Begun
    <3>1. CASE Begin(r)
      BY <3>1 DEF Begin, PlacesOK, local
    <3>2. CASE ~Begin(r)
      <4>1. /\ pc[r] > 0
            /\ \/ Advance(r) \/ Ends(r, "done") \/ Ends(r, "failed")
               \/ UNCHANGED <<pc, ended>>
            /\ \A q \in Runs \ {r} : loaded'[q] = loaded[q]
        BY <1>1, <3>2 DEF ToolStep, Fail, Clear, ResetIds, Load, Find, DeleteAdmin, InsertAdmin,
                  Cleanup, Report, Replace, Update, Show, At, local
      <4>2. pc'[r] # 0 /\ \A q \in Runs \ {r} : pc'[q] = pc[q] /\ ended'[q] = ended[q]
        BY <4>1 DEF PlacesOK, Advance, Ends
      <4> QED  BY <4>1, <4>2
    <3> QED  BY <3>1, <3>2
  <2>1. CASE Clear(r)
    BY <2>0, <2>1 DEF Clear
  <2>2. CASE ResetIds(r)
    BY <2>0, <2>2 DEF ResetIds
  <2>3. CASE Load(r)
    <3>1. CASE loaded[r] < Seeds
      <4>1. /\ nextId \in 1 .. MaxId
            /\ bank' = [bank EXCEPT ![nextId] = loaded[r] + 1]
            /\ stored' = stored \union {nextId}
            /\ nextId' = nextId + 1
        BY <2>3, <3>1 DEF Load
      <4> QED  BY <2>0, <4>1
    <3>2. CASE ~(loaded[r] < Seeds)
      BY <2>0, <2>3, <3>2 DEF Load, problems
    <3> QED  BY <3>1, <3>2
  <2>4. CASE Fail(r)
    BY <2>0, <2>4 DEF Fail
  <2>5. CASE \/ Begin(r) \/ Find(r) \/ DeleteAdmin(r) \/ InsertAdmin(r) \/ Cleanup(r)
             \/ Report(r) \/ Replace(r) \/ Update(r) \/ Show(r)
    BY <2>0, <2>5 DEF Begin, Find, DeleteAdmin, InsertAdmin, Cleanup, Report, Replace, Update,
                Show, problems
  <2> QED  BY <1>1, <2>1, <2>2, <2>3, <2>4, <2>5 DEF ToolStep
<1>2. ASSUME NEW n \in Names, Register(n) \/ Verify(n) PROVE IdsSpent'
  BY <1>2 DEF Register, Verify, problems, local
<1>3. CASE \E s \in opening : CreateSession(s)
  BY <1>3 DEF CreateSession, problems, local
<1>4. CASE CreateProblem
  BY <1>4 DEF CreateProblem, local
<1>5. CASE UNCHANGED vars
  BY <1>5 DEF vars, problems, local
<1> QED  BY <1>1, <1>2, <1>3, <1>4, <1>5 DEF Next

(* Once the seed file is loaded nothing but the place in the script moves. *)
Past(r) == /\ kind[r] = "seed" => pc[r] > 1
           /\ kind[r] = "seedReset" => pc[r] > 3
           /\ kind[r] = "tests" => pc[r] > 4

LEMMA BankStands ==
  ASSUME PlacesOK, NEW r \in Runs, BankSoFar(r), Past(r), pc'[r] \in Nat, pc'[r] >= pc[r],
         UNCHANGED <<bank, stored, nextId, loaded, kind>>
  PROVE  BankSoFar(r)'
<1>1. pc[r] \in Nat
  BY DEF PlacesOK
<1> QED  BY <1>1 DEF BankSoFar, Past, Prefix, Among

LEMMA BankClears ==
  ASSUME PlacesOK, BankOK, IdsSpent, NEW r \in Runs, BankSoFar(r), Clear(r)
  PROVE  BankSoFar(r)'
<1>1. Stands(r, "seedReset", 1) \/ Stands(r, "tests", 1)
  BY Where DEF Clear
<1>2. /\ kind'[r] = kind[r] /\ pc'[r] = pc[r] + 1 /\ loaded'[r] = loaded[r]
      /\ stored' = {} /\ nextId' = nextId
  <2>1. /\ pc[r] > 0 /\ ended[r] = "no" /\ Advance(r) /\ UNCHANGED <<kind, loaded, nextId>>
        /\ stored' = {}
    BY DEF Clear, At, local
  <2>2. pc[r] # Len(Script[kind[r]])
    BY <1>1, Lasts DEF Stands
  <2> QED  BY <2>1, <2>2, OnToNext
<1> QED  BY <1>1, <1>2 DEF Stands, BankSoFar

LEMMA BankRestarts ==
  ASSUME PlacesOK, BankOK, IdsSpent, NEW r \in Runs, BankSoFar(r), ResetIds(r)
  PROVE  BankSoFar(r)'
<1>1. Stands(r, "seedReset", 2) \/ Stands(r, "tests", 2) \/ Stands(r, "tests", 3)
  BY Where DEF ResetIds
<1>2. /\ kind'[r] = kind[r] /\ pc'[r] = pc[r] + 1 /\ loaded'[r] = loaded[r]
      /\ stored' = stored /\ bank' = bank
  <2>1. /\ pc[r] > 0 /\ ended[r] = "no" /\ Advance(r)
        /\ UNCHANGED <<kind, loaded, stored, bank>>
    BY DEF ResetIds, At, local
  <2>2. pc[r] # Len(Script[kind[r]])
    BY <1>1, Lasts DEF Stands
  <2> QED  BY <2>1, <2>2, OnToNext
<1>3. stored = {} /\ loaded[r] = 0
  BY <1>1 DEF Stands, BankSoFar
<1>4. nextId' = 1
  BY <1>3 DEF ResetIds
<1>5. Prefix(0)'
  BY <1>2, <1>3, <1>4 DEF Prefix
<1> QED  BY <1>1, <1>2, <1>3, <1>5 DEF Stands, BankSoFar

LEMMA BankLoads ==
  ASSUME PlacesOK, BankOK, IdsSpent, NEW r \in Runs, BankSoFar(r), Load(r)
  PROVE  BankSoFar(r)'
<1>1. Stands(r, "seed", 1) \/ Stands(r, "seedReset", 3) \/ Stands(r, "tests", 4)
  BY Where DEF Load
<1>2. CASE loaded[r] < Seeds
  <2>1. /\ nextId \in 1 .. MaxId
        /\ bank' = [bank EXCEPT ![nextId] = loaded[r] + 1]
        /\ stored' = stored \union {nextId}
        /\ nextId' = nextId + 1
        /\ loaded'[r] = loaded[r] + 1
        /\ kind'[r] = kind[r] /\ pc'[r] = pc[r]
    BY <1>2 DEF Load, BankOK
  <2>2. loaded[r] \in Nat /\ nextId \notin stored
    BY DEF BankOK, IdsSpent
  <2>3. CASE kind[r] = "seed"
    <3>1. Among(loaded[r])
      BY <2>3 DEF BankSoFar
    <3>2. \A i \in stored : bank'[i] = bank[i]
      BY <2>1, <2>2 DEF BankOK
    <3>3. bank'[nextId] = loaded[r] + 1
      BY <2>1 DEF BankOK
    <3>4. Among(loaded[r])'
      <4> SUFFICES ASSUME NEW e \in 1 .. loaded'[r] PROVE \E i \in stored' : bank'[i] = e
        BY <2>1 DEF Among
      <4>1. CASE e \in 1 .. loaded[r]
        BY <2>1, <3>1, <3>2, <4>1 DEF Among
      <4>2. CASE e = loaded[r] + 1
        BY <2>1, <3>3, <4>2
      <4> QED  BY <2>1, <2>2, <4>1, <4>2
    <3> QED  BY <1>1, <2>1, <2>3, <3>4 DEF Stands, BankSoFar, Among
  <2>4. CASE kind[r] # "seed"
    <3>1. Prefix(loaded[r])
      BY <1>1, <2>4 DEF Stands, BankSoFar
    <3>2. stored' = 1 .. loaded'[r] /\ nextId' = loaded'[r] + 1 /\ nextId = loaded[r] + 1
      BY <2>1, <2>2, <3>1 DEF Prefix
    <3>3. \A i \in stored' : bank'[i] = i
      BY <2>1, <2>2, <3>1, <3>2 DEF Prefix, BankOK
    <3> QED  BY <1>1, <2>1, <2>4, <3>2, <3>3 DEF Stands, BankSoFar, Prefix
  <2> QED  BY <2>3, <2>4
<1>3. CASE ~(loaded[r] < Seeds)
  <2>1. loaded[r] = Seeds
    <3>1. loaded[r] \in 0 .. Seeds
      BY DEF BankOK
    <3> QED  BY <1>3, <3>1
  <2>2. /\ pc[r] > 0 /\ ended[r] = "no" /\ Advance(r)
        /\ UNCHANGED <<bank, stored, nextId, loaded, kind>>
    BY <1>3 DEF Load, At, problems
  <2>3. pc'[r] = pc[r] + 1
    <3>1. pc[r] # Len(Script[kind[r]])
      BY <1>1, Lasts DEF Stands
    <3> QED  BY <2>2, <3>1, OnToNext
  <2> QED  BY <1>1, <2>1, <2>2, <2>3 DEF Stands, BankSoFar, Prefix, Among
<1> QED  BY <1>2, <1>3

(* A run's statements keep the bank as far as the run's place tells. *)
LEMMA BankGoesOn ==
  ASSUME PlacesOK, BankOK, IdsSpent, NEW r \in Runs, BankSoFar(r), ToolStep(r),
         ~Begin(r), ~Fail(r)
  PROVE  BankSoFar(r)'
<1>1. CASE Clear(r) \/ ResetIds(r) \/ Load(r)
  BY <1>1, BankClears, BankRestarts, BankLoads
<1>2. CASE \/ Find(r) \/ DeleteAdmin(r) \/ InsertAdmin(r) \/ Cleanup(r) \/ Report(r)
           \/ Replace(r) \/ Update(r) \/ Show(r)
  <2>1. \/ At(r, "find") \/ At(r, "delete") \/ At(r, "insert") \/ At(r, "cleanup")
        \/ At(r, "report") \/ At(r, "replace") \/ At(r, "update") \/ At(r, "show")
    BY <1>2 DEF Find, DeleteAdmin, InsertAdmin, Cleanup, Report, Replace, Update, Show
  <2>2. Past(r)
    BY <2>1, Where DEF Past, Stands
  <2>3. UNCHANGED <<bank, stored, nextId, loaded, kind>>
    BY <1>2 DEF Find, DeleteAdmin, InsertAdmin, Cleanup, Report, Replace, Update, Show,
                problems, local
  <2>4. Advance(r) \/ Ends(r, "done") \/ Ends(r, "failed")
    BY <1>2 DEF Find, DeleteAdmin, InsertAdmin, Cleanup, Report, Replace, Update, Show
  <2>5. pc'[r] \in Nat /\ pc'[r] >= pc[r]
    BY <2>4 DEF PlacesOK, Advance, Ends
  <2> QED  BY <2>2, <2>3, <2>5, BankStands
<1> QED  BY <1>1, <1>2 DEF ToolStep

LEMMA AdminWaits ==
  ASSUME PlacesOK, NEW r \in Runs, Clear(r) \/ ResetIds(r) \/ Load(r)
  PROVE  AdminSoFar(r)'
<1>1. \/ Stands(r, "seed", 1)
      \/ Stands(r, "seedReset", 1) \/ Stands(r, "seedReset", 2) \/ Stands(r, "seedReset", 3)
      \/ Stands(r, "tests", 1) \/ Stands(r, "tests", 2) \/ Stands(r, "tests", 3)
      \/ Stands(r, "tests", 4)
  BY Where DEF Clear, ResetIds, Load
<1>2. /\ pc[r] > 0 /\ ended[r] = "no" /\ UNCHANGED kind
      /\ Advance(r) \/ UNCHANGED <<pc, ended>>
  BY DEF Clear, ResetIds, Load, At
<1>3. pc[r] # Len(Script[kind[r]])
  BY <1>1, Lasts DEF Stands
<1>4. kind'[r] = kind[r] /\ ended'[r] = "no" /\ pc'[r] \in {pc[r], pc[r] + 1}
  BY <1>2, <1>3, OnToNext
<1> QED  BY <1>1, <1>4 DEF Stands, AdminSoFar

LEMMA AdminFound ==
  ASSUME PlacesOK, UsersOK, NEW r \in Runs, Find(r)
  PROVE  AdminSoFar(r)'
<1>1. \/ Stands(r, "seed", 2) \/ Stands(r, "seedReset", 4) \/ Stands(r, "tests", 5)
      \/ Stands(r, "create", 1) \/ Stands(r, "keep", 1)
  BY Where DEF Find
<1>2. /\ found'[r] = IF users["admin"] = None THEN 0 ELSE users["admin"].id
      /\ pc[r] > 0 /\ ended[r] = "no" /\ UNCHANGED <<kind, users>>
      /\ IF kind[r] = "seed" /\ users["admin"] # None THEN Ends(r, "done") ELSE Advance(r)
  BY DEF Find, At, UsersOK, accounts
<1>3. FoundIsAdmin(r)'
  BY <1>2 DEF FoundIsAdmin
<1>4. pc[r] # Len(Script[kind[r]])
  BY <1>1, Lasts DEF Stands
<1>5. CASE Advance(r)
  <2>1. kind'[r] = kind[r] /\ ended'[r] = "no" /\ pc'[r] = pc[r] + 1
    BY <1>2, <1>4, <1>5, OnToNext
  <2>2. kind[r] = "seed" => found'[r] = 0
    BY <1>2, <1>4, <1>5, <2>1 DEF Ends, PlacesOK
  <2> QED  BY <1>1, <1>3, <2>1, <2>2 DEF Stands, AdminSoFar
<1>6. CASE kind[r] = "seed" /\ users["admin"] # None /\ Ends(r, "done")
  <2>1. found'[r] # 0
    BY <1>2, <1>6 DEF UsersOK
  <2>2. pc'[r] = 2 /\ kind'[r] = "seed" /\ users'["admin"] # None
    BY <1>1, <1>2, <1>6 DEF Stands, Ends
  <2> QED  BY <2>1, <2>2 DEF AdminSoFar
<1> QED  BY <1>2, <1>5, <1>6

LEMMA AdminDeleted ==
  ASSUME PlacesOK, UsersOK, NEW r \in Runs, AdminSoFar(r), DeleteAdmin(r)
  PROVE  AdminSoFar(r)'
<1>1. Stands(r, "seedReset", 5) \/ Stands(r, "tests", 6)
  BY Where DEF DeleteAdmin
<1>2. /\ pc[r] > 0 /\ ended[r] = "no" /\ UNCHANGED <<kind, found>> /\ Advance(r)
      /\ found[r] # 0 => Remove({"admin"})
      /\ found[r] = 0 => UNCHANGED users
  BY DEF DeleteAdmin, At, local
<1>3. FoundIsAdmin(r)
  BY <1>1 DEF Stands, AdminSoFar
<1>4. users'["admin"] = None
  <2>1. CASE found[r] = 0
    <3>1. users["admin"] # None => users["admin"].id # 0
      BY DEF UsersOK
    <3> QED  BY <1>2, <1>3, <2>1, <3>1 DEF FoundIsAdmin
  <2>2. CASE found[r] # 0
    BY <1>2, <2>2 DEF Remove
  <2> QED  BY <2>1, <2>2
<1>5. pc[r] # Len(Script[kind[r]])
  BY <1>1, Lasts DEF Stands
<1>6. kind'[r] = kind[r] /\ ended'[r] = "no" /\ pc'[r] = pc[r] + 1
  BY <1>2, <1>5, OnToNext
<1> QED  BY <1>1, <1>4, <1>6 DEF Stands, AdminSoFar

(* A row of the administrator that has just been written. *)
LEMMA AdminWritten ==
  ASSUME UsersOK, NEW r \in Runs, NEW id \in Nat,
         users' = [users EXCEPT !["admin"] = Row(id, Secret(r), "admin")]
  PROVE  /\ users'["admin"] # None /\ users'["admin"].secret = Secret(r)
         /\ users'["admin"].role = "admin"
<1>1. users'["admin"] = Row(id, Secret(r), "admin")
  BY DEF UsersOK
<1> QED  BY <1>1, SecretType, RowIsNotNone DEF Row

LEMMA AdminInserted ==
  ASSUME PlacesOK, UsersOK, NEW r \in Runs, AdminSoFar(r), InsertAdmin(r), ended'[r] # "failed"
  PROVE  AdminSoFar(r)'
<1>1. Stands(r, "seed", 3) \/ Stands(r, "seedReset", 6) \/ Stands(r, "tests", 7)
  BY Where DEF InsertAdmin
<1>2. pc[r] > 0 /\ ended[r] = "no" /\ UNCHANGED <<kind, found>> /\ users["admin"] = None
      /\ users' = [users EXCEPT !["admin"] = Row(nextUid, Secret(r), "admin")]
      /\ Advance(r)
  BY DEF InsertAdmin, At, local, Ends, PlacesOK
<1>3. /\ users'["admin"] # None /\ users'["admin"].secret = Secret(r)
      /\ users'["admin"].role = "admin"
  <2>1. nextUid \in Nat
    BY DEF UsersOK
  <2> QED  BY <1>2, <2>1, AdminWritten
<1>4. CASE Stands(r, "tests", 7)
  <2>0. kind[r] = "tests" /\ pc[r] = 7
    BY <1>4 DEF Stands
  <2>1. pc[r] # Len(Script[kind[r]])
    BY <2>0, Lengths
  <2>2. kind'[r] = kind[r] /\ ended'[r] = "no" /\ pc'[r] = pc[r] + 1
    BY <1>2, <2>1, OnToNext
  <2> QED  BY <1>3, <2>0, <2>2 DEF AdminSoFar, AdminIs, Secret
<1>5. CASE Stands(r, "seed", 3) \/ Stands(r, "seedReset", 6)
  <2>1. pc[r] = Len(Script[kind[r]])
    BY <1>5, Lasts
  <2>2. kind'[r] = kind[r] /\ ended'[r] = "done" /\ pc'[r] = pc[r] /\ found'[r] = found[r]
    BY <1>2, <2>1, OnToNext
  <2>3. AdminIs(r)'
    BY <1>3, <1>5 DEF Stands, AdminIs, Secret
  <2> QED  BY <1>5, <2>2, <2>3 DEF Stands, AdminSoFar
<1> QED  BY <1>1, <1>4, <1>5

LEMMA AdminCleaned ==
  ASSUME PlacesOK, UsersOK, NEW r \in Runs, AdminSoFar(r), Cleanup(r)
  PROVE  AdminSoFar(r)'
<1>1. Stands(r, "tests", 8)
  BY Where DEF Cleanup
<1>2. /\ pc[r] > 0 /\ ended[r] = "no" /\ UNCHANGED kind /\ Advance(r)
      /\ users' = [n \in Names |-> IF n \in TestNames THEN None ELSE users[n]]
  BY DEF Cleanup, At, Remove
<1>3. AdminIs("admin123")
  BY <1>1 DEF Stands, AdminSoFar
<1>4. users'["admin"] = users["admin"] /\ \A n \in TestNames : users'[n] = None
  BY <1>2
<1>5. kind[r] = "tests" /\ pc[r] = 8
  BY <1>1 DEF Stands
<1>6. pc[r] # Len(Script[kind[r]])
  BY <1>5, Lengths
<1>7. kind'[r] = kind[r] /\ ended'[r] = "no" /\ pc'[r] = pc[r] + 1
  BY <1>2, <1>6, OnToNext
<1> QED  BY <1>3, <1>4, <1>5, <1>7 DEF AdminSoFar, AdminIs

LEMMA AdminReported ==
  ASSUME PlacesOK, NEW r \in Runs, AdminSoFar(r), Report(r)
  PROVE  AdminSoFar(r)'
<1>1. Stands(r, "tests", 9)
  BY Where DEF Report
<1>2. pc[r] > 0 /\ ended[r] = "no" /\ UNCHANGED <<kind, users>> /\ Advance(r)
  BY DEF Report, At, accounts
<1>3. pc[r] = Len(Script[kind[r]])
  BY <1>1, Lasts
<1>4. kind'[r] = "tests" /\ ended'[r] = "done" /\ pc'[r] = 9
  BY <1>1, <1>2, <1>3, OnToNext DEF Stands
<1> QED  BY <1>1, <1>2, <1>4 DEF Stands, AdminSoFar, AdminIs

LEMMA AdminReplaced ==
  ASSUME PlacesOK, UsersOK, NEW r \in Runs, AdminSoFar(r), Replace(r) \/ Update(r),
         ended'[r] # "failed"
  PROVE  AdminSoFar(r)'
<1>1. Stands(r, "create", 2) \/ Stands(r, "keep", 2)
  BY Where DEF Replace, Update
<1>2. FoundIsAdmin(r) /\ Secret(r) = "admin123"
  BY <1>1 DEF Stands, AdminSoFar, Secret
<1>3. /\ pc[r] > 0 /\ ended[r] = "no" /\ UNCHANGED kind /\ Advance(r)
      /\ \E id \in Nat : users' = [users EXCEPT !["admin"] = Row(id, Secret(r), "admin")]
  <2>1. CASE Replace(r)
    <3>1. nextUid \in Nat
      BY DEF UsersOK
    <3>2. ~Ends(r, "failed")
      BY DEF Ends, PlacesOK
    <3>3. /\ Advance(r)
          /\ users' = [users EXCEPT !["admin"] = Row(nextUid, Secret(r), "admin")]
      BY <2>1, <3>2 DEF Replace
    <3> QED  BY <2>1, <3>1, <3>3 DEF Replace, At
  <2>2. CASE Update(r)
    <3>1. users["admin"] # None /\ users["admin"].id = found[r]
      BY <1>2, <2>2 DEF FoundIsAdmin, Update
    <3>2. found[r] \in Nat
      BY DEF UsersOK
    <3> QED  BY <2>2, <3>1, <3>2 DEF Update, At
  <2> QED  BY <2>1, <2>2
<1>4. AdminIs("admin123")'
  BY <1>2, <1>3, AdminWritten DEF AdminIs
<1>5. pc[r] # Len(Script[kind[r]])
  BY <1>1, Lasts DEF Stands
<1>6. kind'[r] = kind[r] /\ ended'[r] = "no" /\ pc'[r] = 3
  BY <1>1, <1>3, <1>5, OnToNext DEF Stands
<1> QED  BY <1>1, <1>4, <1>6 DEF Stands, AdminSoFar

LEMMA AdminShown ==
  ASSUME PlacesOK, NEW r \in Runs, AdminSoFar(r), Show(r)
  PROVE  AdminSoFar(r)'
<1>1. Stands(r, "create", 3) \/ Stands(r, "keep", 3)
  BY Where DEF Show
<1>2. UNCHANGED <<kind, users, pc>>
  BY DEF Show, accounts, Ends
<1> QED  BY <1>1, <1>2 DEF Stands, AdminSoFar, AdminIs

(* A run's statements keep the administrator as far as its place tells.    *)
LEMMA AdminGoesOn ==
  ASSUME PlacesOK, UsersOK, NEW r \in Runs, AdminSoFar(r), ToolStep(r),
         ~Begin(r), ~Fail(r), ended'[r] # "failed"
  PROVE  AdminSoFar(r)'
BY AdminWaits, AdminFound, AdminDeleted, AdminInserted, AdminCleaned, AdminReported,
   AdminReplaced, AdminShown DEF ToolStep

-----------------------------------------------------------------------------
LEMMA AloneGoesOn ==
  ASSUME PlacesOK, BankOK, UsersOK, IdsSpent, AloneSoFar, NEW q \in Runs, ToolStep(q)
  PROVE  AloneSoFar'
<1>1. CASE Begin(q)
  <2>1. /\ alone' = q /\ pc'[q] = 1 /\ loaded'[q] = 0 /\ ended'[q] = "no"
    BY <1>1 DEF Begin, IdsSpent, PlacesOK, local
  <2>2. BankSoFar(q)'
    BY <2>1 DEF BankSoFar, Among
  <2>3. AdminSoFar(q)'
    BY <2>1 DEF AdminSoFar
  <2> QED  BY <2>1, <2>2, <2>3 DEF AloneSoFar, SoFar
<1>2. CASE ~Begin(q)
  <2>1. Acts(q) /\ pc[q] > 0 /\ ended[q] = "no"
    BY <1>2 DEF ToolStep, Fail, Clear, ResetIds, Load, Find, DeleteAdmin, InsertAdmin,
                Cleanup, Report, Replace, Update, Show, At
  <2>2. SUFFICES ASSUME alone' = q, alone = q PROVE SoFar(q)'
    BY <2>1 DEF Acts, AloneSoFar
  <2>3. SoFar(q) /\ BankSoFar(q) /\ AdminSoFar(q)
    BY <2>1, <2>2 DEF AloneSoFar, SoFar
  <2>4. pc'[q] > 0
    <3>1. \/ Advance(q) \/ Ends(q, "done") \/ Ends(q, "failed") \/ UNCHANGED pc
      BY <1>2 DEF ToolStep, Fail, Clear, ResetIds, Load, Find, DeleteAdmin, InsertAdmin,
                Cleanup, Report, Replace, Update, Show
    <3> QED  BY <2>1, <3>1 DEF Advance, Ends, PlacesOK
  <2>5. CASE Fail(q)
    <3>1. ended'[q] = "failed"
      BY <2>5 DEF Fail, Ends, PlacesOK
    <3> QED  BY <2>4, <3>1 DEF SoFar
  <2>6. CASE ~Fail(q)
    <3>1. BankSoFar(q)'
      BY <1>2, <2>3, <2>6, BankGoesOn
    <3>2. ended'[q] # "failed" => AdminSoFar(q)'
      BY <1>2, <2>3, <2>6, AdminGoesOn
    <3> QED  BY <2>4, <3>1, <3>2 DEF SoFar
  <2> QED  BY <2>5, <2>6
<1> QED  BY <1>1, <1>2

LEMMA AloneStep ==
  ASSUME PlacesOK, BankOK, UsersOK, IdsSpent, AloneSoFar, [Next]_vars
  PROVE  AloneSoFar'
<1>0. None \notin Runs
  OBVIOUS
<1>1. ASSUME NEW q \in Runs, ToolStep(q) PROVE AloneSoFar'
  BY <1>1, AloneGoesOn
<1>2. ASSUME NEW n \in Names, Register(n) PROVE AloneSoFar'
  BY <1>0, <1>2 DEF Register, AloneSoFar
<1>3. CASE (\E s \in opening : CreateSession(s)) \/ CreateProblem
  BY <1>0, <1>3 DEF CreateSession, CreateProblem, AloneSoFar
<1>4. CASE (\E n \in Names : Verify(n)) \/ UNCHANGED vars
  <2>1. UNCHANGED <<bank, stored, nextId, users, kind, pc, loaded, found, ended, alone>>
    BY <1>4 DEF Verify, vars, problems, accounts, local
  <2> SUFFICES ASSUME NEW r \in Runs, alone' = r PROVE SoFar(r)'
    BY DEF AloneSoFar
  <2>2. SoFar(r)
    BY <2>1 DEF AloneSoFar
  <2>3. BankSoFar(r) => BankSoFar(r)'
    BY <2>1 DEF BankSoFar, Prefix, Among
  <2>4. AdminSoFar(r) => AdminSoFar(r)'
    BY <2>1 DEF AdminSoFar, FoundIsAdmin, AdminIs
  <2> QED  BY <2>1, <2>2, <2>3, <2>4 DEF SoFar
<1> QED  BY <1>1, <1>2, <1>3, <1>4 DEF Next

LEMMA AloneIsDone == ASSUME PlacesOK, BankOK, AloneSoFar PROVE DoneMeansDone
<1> SUFFICES ASSUME NEW r \in Runs, ended[r] = "done", alone = r PROVE Promised(r)
  BY DEF DoneMeansDone
<1>1. BankSoFar(r) /\ AdminSoFar(r)
  BY DEF AloneSoFar, SoFar
<1>2. kind[r] \in {"seed", "seedReset", "tests", "create", "keep"}
  BY Lengths DEF PlacesOK
<1>3. CASE kind[r] = "seed"
  <2>1. IF found[r] = 0 THEN pc[r] = 3 /\ AdminIs(r) ELSE pc[r] = 2 /\ users["admin"] # None
    BY <1>1, <1>3 DEF AdminSoFar
  <2>2. Among(Seeds)
    BY <1>1, <1>3, <2>1 DEF BankSoFar
  <2> QED  BY <1>3, <2>1, <2>2 DEF Promised, Among
<1>4. CASE kind[r] = "seedReset"
  <2>1. pc[r] = 6 /\ AdminIs(r)
    BY <1>1, <1>4 DEF AdminSoFar
  <2>2. Prefix(Seeds)
    BY <1>1, <1>4, <2>1 DEF BankSoFar
  <2> QED  BY <1>4, <2>1, <2>2 DEF Promised, Prefix, BankIsSeed
<1>5. CASE kind[r] = "tests"
  <2>1. pc[r] = 9 /\ AdminIs("admin123") /\ \A n \in TestNames : users[n] = None
    BY <1>1, <1>5 DEF AdminSoFar
  <2>2. Prefix(Seeds)
    BY <1>1, <1>5, <2>1 DEF BankSoFar
  <2> QED  BY <1>5, <2>1, <2>2 DEF Promised, Prefix, BankIsSeed
<1>6. CASE kind[r] \in {"create", "keep"}
  <2>1. AdminIs("admin123")
    BY <1>1, <1>6 DEF AdminSoFar
  <2> QED  BY <1>6, <2>1 DEF Promised
<1> QED  BY <1>2, <1>3, <1>4, <1>5, <1>6

(* A tool that exits with 0, and beside which nobody wrote, has done what   *)
(* it says: a reset has put the bank and the administrator back, wherever   *)
(* the runs before it failed or were killed (seed.cpp, reset_for_tests.cpp, *)
(* create_admin.py).                                                        *)
THEOREM DoneIsDone == Spec => []DoneMeansDone
<1>1. Init => IdsSpent /\ AloneSoFar
  <2> SUFFICES ASSUME Init PROVE IdsSpent /\ AloneSoFar
    OBVIOUS
  <2>1. None \notin Runs
    OBVIOUS
  <2> QED  BY <2>1 DEF Init, IdsSpent, AloneSoFar
<1>2. /\ PlacesOK /\ BankOK /\ IInv
      /\ IdsSpent /\ AloneSoFar
      /\ [Next]_vars
      => (IdsSpent /\ AloneSoFar)'
  BY IdsSpentStep, AloneStep DEF IInv
<1>3. PlacesOK /\ BankOK /\ IInv /\ IdsSpent /\ AloneSoFar => DoneMeansDone
  BY AloneIsDone
<1> QED  BY <1>1, <1>2, <1>3, Invariance, PTL DEF Spec
===============================================================================
