------------------------------- MODULE Pages -------------------------------
(* The pages of the frontend (frontend/public/js), one in each tab of      *)
(* browsers that know nothing of each other: register.js, admin_edit.js    *)
(* for a new problem, problem_list.js, admin_list.js, problem_detail.js.   *)
(* A handler runs to its next await; the answers come in any order, or     *)
(* not at all, while the user types, selects and clicks what is enabled.   *)
(*                                                                         *)
(* The backend serves a request in one step, a reset in several between    *)
(* which others are served; it may answer 500 before it does anything,     *)
(* half way, or when all is done.  What a problem is made of is left out,  *)
(* but not which problem has which id: a problem is the number of its row  *)
(* since the database was made, and a reset lets the ids start again.      *)
EXTENDS Naturals, FiniteSets

CONSTANTS Tabs,
          Values,    \* what a form, or the filter of the list, may hold beside 0
          Seeds,     \* how many problems the seed file has
          MaxId,     \* bound: ids of problems
          MaxClicks, \* bound: pages opened, selections and clicks
          MaxResets, \* bound: restarts of the ids before the last reset begins
          None

Slots == 1 .. MaxClicks

Ids == 1 .. MaxId

Kinds == {"register", "new", "list", "admin", "problem"}

Ops == {"register", "new", "load", "reload", "submit", "delete", "reset"}

(* A state of the bank, with the number of restarts of the ids before.     *)
Snapshots == [bank : [Ids -> Nat], resets : Nat]

(* What a page shows of a state of the bank: what it asked for, and the     *)
(* problems whose row is greyed.                                           *)
Sights == [asked : Nat, busy : SUBSET Ids, bank : [Ids -> Nat], resets : Nat]

(* A request with its answer: at is what the backend found, meant the      *)
(* problem the page shows under the id that is sent, row whether the row   *)
(* that was clicked is still on the page.                                  *)
Requests == [tab : Tabs, op : Ops, arg : Nat, row : BOOLEAN,
             answer : {"none", "ok", "taken", "refused", "denied"},
             at : Snapshots \cup {None},
             meant : [problem : Nat, resets : Nat] \cup {None}]

ASSUME PagesAssumption == /\ Values \subseteq Nat \ {0}
                          /\ Seeds \in Nat /\ MaxId \in Nat /\ Seeds <= MaxId
                          /\ MaxClicks \in Nat /\ MaxResets \in Nat
                          /\ None \notin Tabs \cup Snapshots \cup Sights \cup Requests

VARIABLES kind,     \* the page in each tab
          state,    \* "opening", "open" or "left"
          button,   \* whether its button (submit, save, reset) is enabled
          form,     \* what is typed or selected, 0 for nothing valid, or no filter
          taken,    \* the name the registration page says is taken, or 0
          shown,    \* what the page shows of an answer, None for none
          flight,   \* the requests under way
          clicks,   \* how many pages were opened, selections and clicks made
          accounts, \* which tab has registered each name
          bank,     \* which problem has each id, 0 for none
          nextId,   \* AUTO_INCREMENT of problems
          born,     \* how many rows problems has ever had
          resets,   \* how often the ids were restarted
          progress, \* how far the reset a request asks for has come, see below
          made,     \* history: how many accounts or problems each page has made
          gone,     \* history: the problems each page was told it has deleted
          typed,    \* history: the tabs typed in while a request was under way
          misled,   \* history: the forms told that a request failed which was served
          crossed   \* history: the tabs that had two loads under way

page == <<button, form, taken, shown>>
backend == <<accounts, bank, nextId, born, resets, progress, made>>
history == <<gone, typed, misled, crossed>>
vars == <<kind, state, page, flight, clicks, backend, history>>

Forms == {"register", "new"}

Init == /\ kind \in [Tabs -> Kinds]
        /\ state = [t \in Tabs |-> IF kind[t] \in Forms THEN "open" ELSE "opening"]
        /\ button = [t \in Tabs |-> kind[t] = "admin"]
        /\ form = [t \in Tabs |-> 0]
        /\ taken = [t \in Tabs |-> 0]
        /\ shown = [t \in Tabs |-> None]
        /\ flight = [n \in Slots |-> None]
        /\ clicks = 0
        /\ accounts = [v \in Values |-> None]
        /\ bank = [i \in Ids |-> IF i <= Seeds THEN i ELSE 0]
        /\ nextId = Seeds + 1
        /\ born = Seeds
        /\ resets = 0
        /\ progress = [n \in Slots |-> 0]
        /\ made = [t \in Tabs |-> 0]
        /\ gone = [t \in Tabs |-> {}]
        /\ typed = {}
        /\ misled = {}
        /\ crossed = {}

-----------------------------------------------------------------------------
(* Requests. *)

UnderWay(t) == {n \in Slots : flight[n] # None /\ flight[n].tab = t}

Loads(t) == {n \in UnderWay(t) : flight[n].op \in {"load", "reload"}}

Request(t, op, arg) ==
  [tab |-> t, op |-> op, arg |-> arg, row |-> TRUE, answer |-> "none", at |-> None,
   meant |-> IF shown[t] = None \/ op \notin {"delete", "submit"}
             THEN None
             ELSE [problem |-> shown[t].bank[arg], resets |-> shown[t].resets]]

Click(t, op, arg) ==
  /\ clicks < MaxClicks
  /\ clicks' = clicks + 1
  /\ LET n == CHOOSE m \in Slots : flight[m] = None
     IN  flight' = [flight EXCEPT ![n] = Request(t, op, arg)]

Open(t) == state[t] = "open"

-----------------------------------------------------------------------------
(* What the user does. *)

(* load() of the pages that show something. *)
Start(t) ==
  /\ state[t] = "opening"
  /\ state' = [state EXCEPT ![t] = "open"]
  /\ \E i \in (IF kind[t] = "problem" THEN Ids ELSE {0}) : Click(t, "load", i)
  /\ UNCHANGED <<kind, page, backend, history>>

(* Each input event decides from the form alone whether the button is      *)
(* enabled; it takes the banner away.                                      *)
Type(t, v) ==
  /\ Open(t) /\ kind[t] \in Forms /\ v # form[t]
  /\ form' = [form EXCEPT ![t] = v]
  /\ button' = [button EXCEPT ![t] = v # 0]
  /\ taken' = [taken EXCEPT ![t] = 0]
  /\ typed' = IF UnderWay(t) = {} THEN typed ELSE typed \cup {t}
  /\ UNCHANGED <<kind, state, shown, flight, clicks, backend, gone, misled, crossed>>

(* Mutant: the button stays enabled while the form is sent. *)
Mutant_ButtonStaysEnabled(t) ==
  /\ Open(t) /\ button[t] /\ kind[t] \in Forms /\ form[t] # 0
  /\ Click(t, kind[t], form[t])
  /\ taken' = [taken EXCEPT ![t] = 0]
  /\ UNCHANGED <<kind, state, button, form, shown, backend, history>>

(* After a failure the button is enabled whatever the form holds, which is *)
(* validated again.                                                        *)
Submit(t) ==
  /\ Open(t) /\ button[t] /\ kind[t] \in Forms /\ form[t] # 0
  /\ Click(t, kind[t], form[t])
  /\ button' = [button EXCEPT ![t] = FALSE]
  /\ taken' = [taken EXCEPT ![t] = 0]
  /\ UNCHANGED <<kind, state, form, shown, backend, history>>

SubmitCode(t) ==
  /\ Open(t) /\ button[t] /\ kind[t] = "problem" /\ shown[t] # None
  /\ Click(t, "submit", shown[t].asked)
  /\ button' = [button EXCEPT ![t] = FALSE]
  /\ UNCHANGED <<kind, state, form, taken, shown, backend, history>>

(* Mutant: the query is built before the new value is taken. *)
Mutant_AsksForThePrevious(t, v) ==
  /\ Open(t) /\ kind[t] = "list" /\ v # form[t]
  /\ form' = [form EXCEPT ![t] = v]
  /\ shown' = [shown EXCEPT ![t] = None]
  /\ crossed' = IF Loads(t) = {} THEN crossed ELSE crossed \cup {t}
  /\ Click(t, "load", form[t])
  /\ UNCHANGED <<kind, state, button, taken, backend, gone, typed, misled>>

(* The list is emptied before the request is sent. *)
Select(t, v) ==
  /\ Open(t) /\ kind[t] = "list" /\ v # form[t]
  /\ form' = [form EXCEPT ![t] = v]
  /\ shown' = [shown EXCEPT ![t] = None]
  /\ crossed' = IF Loads(t) = {} THEN crossed ELSE crossed \cup {t}
  /\ Click(t, "load", v)
  /\ UNCHANGED <<kind, state, button, taken, backend, gone, typed, misled>>

Delete(t, i) ==
  /\ Open(t) /\ kind[t] = "admin"
  /\ shown[t] # None /\ shown[t].bank[i] # 0 /\ i \notin shown[t].busy
  /\ Click(t, "delete", i)
  /\ shown' = [shown EXCEPT ![t].busy = @ \cup {i}]
  /\ UNCHANGED <<kind, state, button, form, taken, backend, history>>

Reset(t) ==
  /\ Open(t) /\ kind[t] = "admin" /\ button[t]
  /\ Click(t, "reset", 0)
  /\ button' = [button EXCEPT ![t] = FALSE]
  /\ UNCHANGED <<kind, state, form, taken, shown, backend, history>>

-----------------------------------------------------------------------------
(* What the backend does. *)

Asked(n, op) == flight[n] # None /\ flight[n].op = op /\ flight[n].answer = "none"

Answer(n, a) == flight' = [flight EXCEPT ![n].answer = a]

AnswerAt(n, a) ==
  flight' = [flight EXCEPT ![n].answer = a, ![n].at = [bank |-> bank, resets |-> resets]]

UserSteps == <<kind, state, page, clicks, history>>

(* What has been done is answered as such, or with a 500: the next statement *)
(* of the handler fails, or the answer of the database to COMMIT is lost.   *)
Done(n) == \/ Answer(n, "ok") /\ UNCHANGED misled
           \/ Answer(n, "refused") /\ misled' = misled \cup {flight[n].tab}

Register(n) ==
  /\ Asked(n, "register")
  /\ LET t == flight[n].tab
         v == flight[n].arg
     IN  IF accounts[v] = None
         THEN /\ Done(n)
              /\ accounts' = [accounts EXCEPT ![v] = t]
              /\ made' = [made EXCEPT ![t] = @ + 1]
         ELSE /\ Answer(n, "taken")
              /\ UNCHANGED <<accounts, made, misled>>
  /\ UNCHANGED <<kind, state, page, clicks, gone, typed, crossed,
                 bank, nextId, born, resets, progress>>

(* Mutant: a problem takes the smallest free id. *)
Mutant_ReusesAnId ==
  /\ \E i \in Ids : /\ bank[i] = 0 /\ \A j \in 1 .. i - 1 : bank[j] # 0
                    /\ bank' = [bank EXCEPT ![i] = born + 1]
                    /\ nextId' = IF i = nextId THEN i + 1 ELSE nextId
  /\ born' = born + 1

NewRow == /\ nextId \in Ids
          /\ bank' = [bank EXCEPT ![nextId] = born + 1]
          /\ nextId' = nextId + 1
          /\ born' = born + 1

Create(n) ==
  /\ Asked(n, "new")
  /\ Done(n)
  /\ NewRow
  /\ made' = [made EXCEPT ![flight[n].tab] = @ + 1]
  /\ UNCHANGED <<kind, state, page, clicks, gone, typed, crossed, accounts, resets, progress>>

Read(n) ==
  /\ Asked(n, "load") \/ Asked(n, "reload") \/ Asked(n, "submit")
  /\ IF kind[flight[n].tab] = "problem" /\ bank[flight[n].arg] = 0
     THEN Answer(n, "refused")
     ELSE AnswerAt(n, "ok")
  /\ UNCHANGED <<UserSteps, backend>>

(* A deletion that is done but answered with a 500 is one the answer to     *)
(* which is lost.                                                          *)
Remove(n) ==
  /\ Asked(n, "delete")
  /\ LET i == flight[n].arg
     IN  /\ IF bank[i] = 0 THEN Answer(n, "refused") ELSE AnswerAt(n, "ok")
         /\ bank' = [bank EXCEPT ![i] = 0]
  /\ UNCHANGED <<UserSteps, accounts, nextId, born, resets, progress, made>>

(* A reset deletes the rows, lets the ids start above those in use, and    *)
(* makes the problems of the seed file one by one; the others are served   *)
(* meanwhile.  progress[n] is the number of these steps taken, 0 when none  *)
(* is or the request is answered.                                          *)
Resetting(n, i) ==
  /\ Asked(n, "reset") /\ progress[n] = i
  /\ progress' = [progress EXCEPT ![n] = i + 1]
  /\ UNCHANGED <<UserSteps, flight, accounts, made>>

ClearBank(n) ==
  /\ Resetting(n, 0) /\ resets < MaxResets
  /\ bank' = [i \in Ids |-> 0]
  /\ UNCHANGED <<nextId, born, resets>>

RestartIds(n) ==
  /\ Resetting(n, 1)
  /\ nextId' \in 1 .. MaxId + 1
  /\ \A i \in Ids : bank[i] # 0 => i < nextId'
  /\ nextId' > 1 => bank[nextId' - 1] # 0
  /\ resets' = resets + 1
  /\ UNCHANGED <<bank, born>>

LoadSeed(n) ==
  /\ \E k \in 1 .. Seeds : Resetting(n, k + 1)
  /\ NewRow
  /\ UNCHANGED resets

(* Mutant: the answer does not wait for the last problem. *)
Mutant_AnswersTooSoon(n) ==
  /\ Asked(n, "reset") /\ progress[n] >= 2
  /\ Answer(n, "ok")
  /\ UNCHANGED <<UserSteps, backend>>

Restore(n) ==
  /\ Asked(n, "reset") /\ progress[n] = Seeds + 2
  /\ Answer(n, "ok")
  /\ progress' = [progress EXCEPT ![n] = 0]
  /\ UNCHANGED <<UserSteps, accounts, bank, nextId, born, resets, made>>

(* A refusal (400, 404, 429, 500), or a request that never arrives; a reset *)
(* that fails leaves what it has done.  401 and 403 are told apart by two   *)
(* handlers.                                                               *)
Refuse(n) ==
  /\ flight[n] # None /\ flight[n].answer = "none"
  /\ \/ Answer(n, "refused")
     \/ (\/ flight[n].op = "new"
         \/ flight[n].op \in {"load", "reload"} /\ kind[flight[n].tab] = "admin")
        /\ Answer(n, "denied")
  /\ progress' = [progress EXCEPT ![n] = 0]
  /\ UNCHANGED <<UserSteps, accounts, bank, nextId, born, resets, made>>

(* The answer to a request that was served is lost: fetch fails. *)
Lose(n) ==
  /\ flight[n] # None /\ flight[n].answer \in {"ok", "taken"}
  /\ flight' = [flight EXCEPT ![n].answer = "refused", ![n].at = None]
  /\ misled' = IF flight[n].op \in Forms THEN misled \cup {flight[n].tab} ELSE misled
  /\ UNCHANGED <<kind, state, page, clicks, backend, gone, typed, crossed>>

-----------------------------------------------------------------------------
(* What a page does with an answer. *)

Answered(n, ops) ==
  flight[n] # None /\ flight[n].op \in ops /\ flight[n].answer # "none" /\ Open(flight[n].tab)

Ok(n) == flight[n].answer = "ok"

Forget(n) == flight' = [flight EXCEPT ![n] = None]

Leave(t) == state' = [state EXCEPT ![t] = "left"] /\ UNCHANGED page

(* A left page takes no notice of an answer. *)
Drop(n) ==
  /\ flight[n] # None /\ flight[n].answer # "none" /\ state[flight[n].tab] = "left"
  /\ Forget(n)
  /\ UNCHANGED <<kind, state, page, clicks, backend, history>>

(* register.js and admin_edit.js: a success leads to another page, a       *)
(* failure enables the button, even when another request is under way.     *)
FormAnswered(n) ==
  /\ Answered(n, Forms)
  /\ LET t == flight[n].tab
     IN  IF Ok(n) \/ (flight[n].op = "new" /\ flight[n].answer = "denied")
         THEN Leave(t)
         ELSE /\ button' = [button EXCEPT ![t] = TRUE]
              /\ taken' = [taken EXCEPT ![t] = IF flight[n].answer = "taken"
                                               THEN flight[n].arg ELSE 0]
              /\ UNCHANGED <<state, form, shown>>
  /\ Forget(n)
  /\ UNCHANGED <<kind, clicks, backend, history>>

CodeAnswered(n) ==
  /\ Answered(n, {"submit"})
  /\ button' = [button EXCEPT ![flight[n].tab] = TRUE]
  /\ Forget(n)
  /\ UNCHANGED <<kind, state, form, taken, shown, clicks, backend, history>>

(* Whatever is rendered takes the place of the rows clicked before. *)
Rendered(n, next) ==
  LET clicked == UnderWay(flight[n].tab) \ {n}
  IN  flight' = [m \in Slots |-> IF m = n THEN next
                                ELSE IF m \in clicked THEN [flight[m] EXCEPT !.row = FALSE]
                                ELSE flight[m]]

(* What is shown is what came last. *)
LoadAnswered(n) ==
  /\ Answered(n, {"load", "reload"})
  /\ LET t == flight[n].tab
     IN  IF kind[t] = "admin" /\ flight[n].answer = "denied"
         THEN Leave(t)
         ELSE /\ shown' = [shown EXCEPT ![t] =
                             IF Ok(n) THEN [asked |-> flight[n].arg, busy |-> {},
                                            bank |-> flight[n].at.bank,
                                            resets |-> flight[n].at.resets]
                             ELSE None]
              /\ button' = [button EXCEPT ![t] = \/ @
                                                 \/ (kind[t] = "problem" /\ Ok(n))
                                                 \/ flight[n].op = "reload"]
              /\ UNCHANGED <<state, form, taken>>
  /\ Rendered(n, None)
  /\ UNCHANGED <<kind, clicks, backend, history>>

(* loadProblems() empties the list and asks for it again. *)
LoadProblems(n, op) ==
  LET t == flight[n].tab
  IN  /\ shown' = [shown EXCEPT ![t] = None]
      /\ Rendered(n, Request(t, op, 0))
      /\ crossed' = IF Loads(t) = {} THEN crossed ELSE crossed \cup {t}

DeleteAnswered(n) ==
  /\ Answered(n, {"delete"})
  /\ LET t == flight[n].tab
         i == flight[n].arg
     IN  IF Ok(n)
         THEN /\ LoadProblems(n, "load")
              /\ gone' = [gone EXCEPT ![t] = @ \cup {flight[n].at.bank[i]}]
         ELSE /\ shown' = IF flight[n].row
                          THEN [shown EXCEPT ![t].busy = @ \ {i}]
                          ELSE shown
              /\ Forget(n)
              /\ UNCHANGED <<gone, crossed>>
  /\ UNCHANGED <<kind, state, button, form, taken, clicks, backend, typed, misled>>

(* The button waits for the list that follows a reset. *)
ResetAnswered(n) ==
  /\ Answered(n, {"reset"})
  /\ IF Ok(n)
     THEN LoadProblems(n, "reload") /\ UNCHANGED button
     ELSE /\ button' = [button EXCEPT ![flight[n].tab] = TRUE]
          /\ Forget(n)
          /\ UNCHANGED <<shown, crossed>>
  /\ UNCHANGED <<kind, state, form, taken, clicks, backend, gone, typed, misled>>

-----------------------------------------------------------------------------
UserStep(t) == \/ Start(t)
               \/ \E v \in Values \cup {0} : Type(t, v) \/ Select(t, v)
               \/ Submit(t) \/ SubmitCode(t)
               \/ \E i \in Ids : Delete(t, i)
               \/ Reset(t)

Serve(n) == \/ Register(n) \/ Create(n) \/ Read(n) \/ Remove(n) \/ Refuse(n)
            \/ ClearBank(n) \/ RestartIds(n) \/ LoadSeed(n) \/ Restore(n)

Receive(n) == \/ Drop(n) \/ FormAnswered(n) \/ CodeAnswered(n) \/ LoadAnswered(n)
              \/ DeleteAnswered(n) \/ ResetAnswered(n)

Next == \/ \E t \in Tabs : UserStep(t)
        \/ \E n \in Slots : Serve(n) \/ Lose(n) \/ Receive(n)

Spec == Init /\ [][Next]_vars

-----------------------------------------------------------------------------
(* Properties. *)

Banks == [Ids -> 0 .. born]

Views == [asked : Values \cup Ids \cup {0}, busy : SUBSET Ids, bank : Banks, resets : 0 .. resets]

(* The type invariant, with the bounds of the bank: a page shows, and the   *)
(* backend has answered, only problems that were once made, and the bank is *)
(* being reset only for a request that waits for its answer (admin_list.js, *)
(* problem_detail.js, handlers_admin.cpp 198-208).                          *)
TypeOK ==
  /\ \A t \in Tabs : /\ state[t] \in {"opening", "open", "left"}
                     /\ button[t] \in BOOLEAN
                     /\ {form[t], taken[t]} \subseteq Values \cup {0}
                     /\ shown[t] \in Views \cup {None}
                     /\ accounts \in [Values -> Tabs \cup {None}]
  /\ bank \in Banks /\ nextId \in 1 .. MaxId + 1
  /\ \A i \in Ids : i >= nextId => bank[i] = 0
  /\ \A n \in Slots : progress[n] \in 0 .. Seeds + 2 /\ (progress[n] # 0 => Asked(n, "reset"))
  /\ \A n \in Slots : flight[n] # None =>
       /\ flight[n] \in Requests
       /\ flight[n].at # None => flight[n].at \in [bank : Banks, resets : 0 .. resets]

(* A page whose user waits for the answer makes one account or one problem, *)
(* never says that the name it has just registered is taken, and never has  *)
(* two submissions judged at once (register.js 153 and 174, admin_edit.js   *)
(* 196 and 222, problem_detail.js 203).  It can only do so when it was told *)
(* that a request failed which was served: the answer was lost, or was the  *)
(* 500 of handlers_auth.cpp 113-115 after the account was made, or that of  *)
(* handlers_admin.cpp 136-138 after the COMMIT of the problem.              *)
OneEffect ==
  \A t \in Tabs \ (typed \cup misled) :
    /\ kind[t] \in Forms => made[t] <= 1
    /\ taken[t] # 0 => accounts[taken[t]] # t
    /\ kind[t] \in Forms \cup {"problem"} => Cardinality(UnderWay(t)) <= 1

(* Unless two loads of a page crossed, the list shows what is selected, and *)
(* the administrator's list no problem the page was told it has deleted     *)
(* (problem_list.js 93-107, admin_list.js 99-150).                          *)
ShownIsAsked ==
  \A t \in Tabs \ crossed : Open(t) /\ shown[t] # None =>
    /\ kind[t] = "list" => shown[t].asked = form[t]
    /\ kind[t] = "admin" => \A i \in Ids : shown[t].bank[i] \notin gone[t]

(* A deletion, or a submission, that reaches a problem reaches the one the  *)
(* page showed under that id, unless a reset has restarted the ids since,   *)
(* whether the reset then succeeded or not: no id is given again but by a   *)
(* restart (admin_list.js 138-144, problem_detail.js 219-223,               *)
(* seed_loader.cpp 48-59).                                                  *)
ActsOnShown ==
  \A n \in Slots :
    flight[n] # None /\ flight[n].op \in {"delete", "submit"} /\ flight[n].answer = "ok" =>
      \/ flight[n].at.bank[flight[n].arg] = flight[n].meant.problem
      \/ flight[n].at.resets # flight[n].meant.resets

=============================================================================
