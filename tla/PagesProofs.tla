----------------------------- MODULE PagesProofs -----------------------------
(* What the pages of the frontend promise, for any number of tabs, names,   *)
(* problems, clicks and resets.  None of the four promises is inductive:    *)
(* the invariant adds which requests a page makes (PagesOK), which resets   *)
(* are under way (ResetsOK), what was seen under an id since the ids were   *)
(* last restarted (BankOK), what a click is aimed at (AimsOK), that a       *)
(* disabled button stands for the one request under way (OneOK) and what    *)
(* the loads have found (ShownOK).                                          *)
EXTENDS Pages, FiniteSetTheorems, TLAPS

-----------------------------------------------------------------------------
(* The types, with those of the history variables.                          *)
Types ==
  /\ kind \in [Tabs -> Kinds]
  /\ state \in [Tabs -> {"opening", "open", "left"}]
  /\ button \in [Tabs -> BOOLEAN]
  /\ form \in [Tabs -> Values \cup {0}]
  /\ taken \in [Tabs -> Values \cup {0}]
  /\ shown \in [Tabs -> Views \cup {None}]
  /\ flight \in [Slots -> Requests \cup {None}]
  /\ clicks \in Nat
  /\ accounts \in [Values -> Tabs \cup {None}]
  /\ bank \in Banks
  /\ nextId \in 1 .. MaxId + 1
  /\ born \in Nat /\ resets \in Nat
  /\ progress \in [Slots -> 0 .. Seeds + 2]
  /\ made \in [Tabs -> Nat]
  /\ gone \in [Tabs -> SUBSET Nat]

(* There is a slot for another request as long as there are clicks.         *)
Used == {n \in Slots : flight[n] # None}

SlotsOK == Cardinality(Used) <= clicks

(* Which page makes which request, and with what.                           *)
Makes(k) == CASE k = "list"    -> {"load"}
              [] k = "admin"   -> {"load", "reload", "delete", "reset"}
              [] k = "problem" -> {"load", "submit"}
              [] OTHER         -> {k}

FitsPage(f) ==
  /\ f.op \in Makes(kind[f.tab])
  /\ state[f.tab] # "opening"
  /\ f.op \in Forms => f.arg \in Values
  /\ kind[f.tab] = "list" => f.arg \in Values \cup {0}
  /\ kind[f.tab] = "admin" => f.arg \in Ids \cup {0}
  /\ kind[f.tab] = "problem" => f.arg \in Ids
  /\ f.op = "delete" => f.arg \in Ids /\ (f.row => shown[f.tab] \in Views)
  /\ f.answer = "taken" => f.op = "register"

PagesOK ==
  /\ \A t \in Tabs : /\ kind[t] \in Forms => state[t] # "opening"
                     /\ state[t] = "opening" => shown[t] = None
                     /\ kind[t] = "problem" /\ shown[t] # None => shown[t].asked \in Ids
  /\ \A n \in Slots : flight[n] # None => FitsPage(flight[n])

(* A reset under way has a request that waits for it.                       *)
ResetsOK == \A n \in Slots : progress[n] # 0 => Asked(n, "reset")

(* The ids: one problem under each, none above the next, and what was seen  *)
(* under an id since they were last restarted is there still or gone.       *)
SameOrGone(i, p) == p # 0 => i < nextId /\ bank[i] \in {0, p}

Seen(s) == /\ \A i \in Ids : s.bank[i] \in 0 .. born
           /\ s.resets \in 0 .. resets
           /\ s.resets = resets => \A i \in Ids : SameOrGone(i, s.bank[i])

Lost(p) == p \in 1 .. born /\ \A i \in Ids : bank[i] # p

BankOK ==
  /\ \A i \in Ids : i >= nextId => bank[i] = 0
  /\ \A i, j \in Ids : bank[i] # 0 /\ bank[i] = bank[j] => i = j
  /\ \A t \in Tabs : shown[t] # None => Seen(shown[t])
  /\ \A n \in Slots : flight[n] # None /\ flight[n].at # None => Seen(flight[n].at)
  /\ \A t \in Tabs : \A p \in gone[t] : Lost(p)

(* A click on a problem means one, and finds it, or nothing, or a bank that *)
(* the ids of which were restarted since.                                   *)
Aims(f) ==
  /\ f.meant \in [problem : Nat \ {0}, resets : 0 .. resets]
  /\ f.meant.resets = resets => SameOrGone(f.arg, f.meant.problem)
  /\ f.answer = "ok" =>
       /\ f.at \in Snapshots
       /\ f.at.bank[f.arg] # 0
       /\ f.at.bank[f.arg] = f.meant.problem \/ f.at.resets # f.meant.resets
       /\ f.op = "delete" => Lost(f.at.bank[f.arg])

AimsOK ==
  /\ \A n \in Slots :
       flight[n] # None =>
         /\ flight[n].op \in {"delete", "submit"} => Aims(flight[n])
         /\ flight[n].op \in {"load", "reload"} /\ flight[n].answer = "ok" =>
              /\ flight[n].at \in Snapshots
              /\ kind[flight[n].tab] = "problem" => flight[n].at.bank[flight[n].arg] # 0
  /\ \A t \in Tabs : kind[t] = "problem" /\ shown[t] # None => shown[t].bank[shown[t].asked] # 0

(* One request at a time, while the button is disabled.                     *)
Single(t) == \A m, n \in UnderWay(t) : m = n

OneFor(t) ==
  /\ kind[t] \in Forms \cup {"problem"} =>
       Single(t) /\ (button[t] \/ state[t] = "opening" => UnderWay(t) = {})
  /\ kind[t] = "problem" => ~(button[t] /\ state[t] = "opening")
  /\ kind[t] \in Forms =>
       /\ made[t] <= 1
       /\ UnderWay(t) # {} => taken[t] = 0
       /\ made[t] = 1 => /\ \A n \in UnderWay(t) : flight[n].answer = "ok"
                         /\ state[t] = "left" \/ UnderWay(t) # {}
                         /\ taken[t] = 0

OneOK ==
  /\ \A v \in Values, t \in Tabs : accounts[v] = t => made[t] > 0
  /\ \A t \in Tabs : kind[t] \notin Forms => taken[t] = 0
  /\ \A t \in Tabs \ (typed \cup misled) : OneFor(t)

(* What the loads of a page have asked for and found.                       *)
ShownFor(t) ==
  /\ kind[t] = "list" => /\ state[t] = "opening" => form[t] = 0
                         /\ shown[t] # None => shown[t].asked = form[t]
                         /\ \A n \in UnderWay(t) : flight[n].arg = form[t]
  /\ kind[t] = "admin" =>
       /\ shown[t] # None => \A i \in Ids : shown[t].bank[i] \notin gone[t]
       /\ \A n \in Loads(t) : flight[n].answer = "ok" =>
            \A i \in Ids : flight[n].at.bank[i] \notin gone[t]

ShownOK == \A t \in Tabs \ crossed : ShownFor(t)

-----------------------------------------------------------------------------
(* How a step changes the requests under way.                               *)

LEMMA Constants ==
  /\ Values \subseteq Nat \ {0} /\ Seeds \in Nat /\ MaxId \in Nat /\ Seeds <= MaxId
  /\ MaxClicks \in Nat /\ MaxResets \in Nat /\ None \notin Tabs /\ None \notin Requests
  /\ None \notin Snapshots /\ None \notin Sights
  BY PagesAssumption

LEMMA NoView ==
  ASSUME Types
  PROVE  None \notin Views
<1>1. Values \cup Ids \cup {0} \subseteq Nat
  BY Constants DEF Ids
<1>2. Banks \subseteq [Ids -> Nat] /\ 0 .. resets \subseteq Nat
  BY DEF Types, Banks
<1>3. Views \subseteq Sights
  BY <1>1, <1>2 DEF Views, Sights
<1> QED  BY <1>3, Constants

(* The slots stay as they are, whatever is in them.                         *)
Slotted == flight' = [m \in Slots |-> flight'[m]]

(* A page asks: the request takes a free slot.                              *)
Asks(t, op, arg) ==
  Slotted /\ \E n \in Slots :
                   /\ flight[n] = None
                   /\ flight'[n] = Request(t, op, arg)
                   /\ \A m \in Slots \ {n} : flight'[m] = flight[m]

(* The backend answers a request, or its answer is lost.                    *)
Serves(n, answer, at) ==
  /\ flight[n] \in Requests
  /\ flight'[n] = [flight[n] EXCEPT !.answer = answer, !.at = at]
  /\ \A m \in Slots \ {n} : flight'[m] = flight[m]
  /\ Slotted

(* The page takes an answer, and may ask again; the other requests of the   *)
(* tab may see their rows go.                                               *)
Takes(n) ==
  /\ flight[n] \in Requests
  /\ flight'[n] = None
  /\ \A m \in Slots \ {n} : flight'[m] = flight[m]
  /\ Slotted

LEMMA UsedIsFinite == IsFiniteSet(Slots) /\ Cardinality(Slots) = MaxClicks
  BY Constants, FS_Interval DEF Slots

LEMMA FreeSlot ==
  ASSUME Types, SlotsOK, clicks < MaxClicks
  PROVE  \E n \in Slots : flight[n] = None
<1>1. SUFFICES ASSUME Used = Slots PROVE FALSE
  BY DEF Used
<1>2. Cardinality(Slots) = MaxClicks
  BY UsedIsFinite
<1> QED  BY <1>1, <1>2, Constants DEF SlotsOK, Types

LEMMA ClickAsks ==
  ASSUME Types, SlotsOK, NEW t, NEW op, NEW arg, Click(t, op, arg)
  PROVE  Asks(t, op, arg) /\ SlotsOK' /\ clicks' \in Nat
<1>1. /\ clicks < MaxClicks /\ clicks' = clicks + 1
      /\ flight' = [flight EXCEPT ![CHOOSE m \in Slots : flight[m] = None] = Request(t, op, arg)]
  BY DEF Click
<1>2. PICK n \in Slots : /\ flight[n] = None
                         /\ flight' = [flight EXCEPT ![n] = Request(t, op, arg)]
  BY <1>1, FreeSlot
<1>3. Asks(t, op, arg)
  BY <1>2 DEF Asks, Slotted, Types
<1>4. Used' \subseteq Used \cup {n}
  BY <1>2 DEF Used, Types
<1>5. IsFiniteSet(Used)
  BY UsedIsFinite, FS_Subset DEF Used
<1>6. n \notin Used
  BY <1>2 DEF Used
<1>7. Cardinality(Used \cup {n}) = Cardinality(Used) + 1 /\ IsFiniteSet(Used \cup {n})
  BY <1>5, <1>6, FS_AddElement
<1>8. Cardinality(Used') <= Cardinality(Used \cup {n}) /\ Cardinality(Used') \in Nat
  BY <1>4, <1>7, FS_Subset, FS_CardinalityType
<1>9. Cardinality(Used) \in Nat
  BY <1>5, FS_CardinalityType
<1>10. clicks \in Nat
  BY DEF Types
<1> QED  BY <1>1, <1>3, <1>7, <1>8, <1>9, <1>10 DEF SlotsOK

(* Who does not click takes no slot. *)
LEMMA SlotsKept ==
  ASSUME Types, SlotsOK, UNCHANGED clicks, \A n \in Slots : flight[n] = None => flight'[n] = None
  PROVE  SlotsOK'
<1>1. Used' \subseteq Used
  BY DEF Used
<1>2. IsFiniteSet(Used)
  BY UsedIsFinite, FS_Subset DEF Used
<1>3. /\ Cardinality(Used') <= Cardinality(Used)
      /\ Cardinality(Used') \in Nat /\ Cardinality(Used) \in Nat
  BY <1>1, <1>2, FS_Subset, FS_CardinalityType
<1> QED  BY <1>3 DEF SlotsOK, Types

(* A request that has just been made.                                       *)
Fresh(f, t, op, arg) ==
  /\ f \in Requests /\ f # None
  /\ f.tab = t /\ f.op = op /\ f.arg = arg /\ f.answer = "none" /\ f.at = None
  /\ op \in {"delete", "submit"} /\ shown[t] # None =>
       f.meant = [problem |-> shown[t].bank[arg], resets |-> shown[t].resets]

LEMMA NewRequest ==
  ASSUME Types, NEW t \in Tabs, NEW op \in Ops, NEW arg \in Nat,
         op \in {"delete", "submit"} => arg \in Ids
  PROVE  Fresh(Request(t, op, arg), t, op, arg)
<1>1. op \in {"delete", "submit"} /\ shown[t] # None =>
        shown[t].bank[arg] \in Nat /\ shown[t].resets \in Nat
  BY DEF Types, Views, Banks
<1>2. DEFINE f == Request(t, op, arg)
<1>3. /\ f.tab = t /\ f.op = op /\ f.arg = arg
      /\ f.answer = "none" /\ f.at = None
      /\ op \in {"delete", "submit"} /\ shown[t] # None =>
           f.meant = [problem |-> shown[t].bank[arg], resets |-> shown[t].resets]
  BY DEF Request
<1>4. f \in Requests
  BY <1>1 DEF Request, Requests
<1> QED  BY <1>3, <1>4, Constants DEF Fresh

LEMMA NewLoad ==
  ASSUME Types, NEW t \in Tabs, NEW op \in {"load", "reload"}
  PROVE  Fresh(Request(t, op, 0), t, op, 0)
BY NewRequest DEF Ops

LEMMA AnswerServes ==
  ASSUME Types, NEW n \in Slots, flight[n] # None, NEW a, Answer(n, a)
  PROVE  Serves(n, a, flight[n].at)
BY DEF Answer, Serves, Slotted, Types, Requests

LEMMA AnswerAtServes ==
  ASSUME Types, NEW n \in Slots, flight[n] # None, NEW a, AnswerAt(n, a)
  PROVE  Serves(n, a, [bank |-> bank, resets |-> resets])
BY DEF AnswerAt, Serves, Slotted, Types, Requests

(* What is served stays a request, with the same origin.                    *)
LEMMA ServedRequest ==
  ASSUME Types, NEW n \in Slots, NEW a \in {"none", "ok", "taken", "refused", "denied"},
         NEW at \in Snapshots \cup {None}, Serves(n, a, at)
  PROVE  /\ flight'[n] \in Requests /\ flight'[n] # None
         /\ flight'[n].answer = a /\ flight'[n].at = at
         /\ flight'[n].tab = flight[n].tab /\ flight'[n].op = flight[n].op
         /\ flight'[n].arg = flight[n].arg /\ flight'[n].row = flight[n].row
         /\ flight'[n].meant = flight[n].meant
<1>1. flight[n] \in Requests /\ flight'[n] = [flight[n] EXCEPT !.answer = a, !.at = at]
  BY DEF Serves
<1>2. flight'[n] \in Requests
  BY <1>1 DEF Requests
<1>3. /\ flight'[n].answer = a /\ flight'[n].at = at
      /\ flight'[n].tab = flight[n].tab /\ flight'[n].op = flight[n].op
      /\ flight'[n].arg = flight[n].arg /\ flight'[n].row = flight[n].row
      /\ flight'[n].meant = flight[n].meant
  BY <1>1 DEF Requests
<1> QED  BY <1>2, <1>3, Constants

LEMMA ForgetTakes ==
  ASSUME Types, NEW n \in Slots, flight[n] # None, Forget(n)
  PROVE  Takes(n)
BY DEF Forget, Takes, Slotted, Types

(* The rows that go with what is rendered.                                  *)
Unrows(n) ==
  \A m \in Slots \ {n} :
    IF flight[m] # None /\ flight[m].tab = flight[n].tab
    THEN /\ flight'[m] \in Requests /\ flight'[m] # None
         /\ flight'[m] = [flight[m] EXCEPT !.row = FALSE]
         /\ flight'[m].tab = flight[m].tab /\ flight'[m].op = flight[m].op
         /\ flight'[m].arg = flight[m].arg /\ flight'[m].answer = flight[m].answer
         /\ flight'[m].at = flight[m].at /\ flight'[m].meant = flight[m].meant
         /\ ~flight'[m].row
    ELSE flight'[m] = flight[m]

LEMMA RenderedUnrows ==
  ASSUME Types, NEW n \in Slots, flight[n] # None, NEW next, Rendered(n, next)
  PROVE  flight'[n] = next /\ Unrows(n) /\ Slotted
<1>1. flight'[n] = next
  BY DEF Rendered
<1>0. Slotted
  BY DEF Rendered, Slotted
<1>2. ASSUME NEW m \in Slots \ {n}, flight[m] # None, flight[m].tab = flight[n].tab
      PROVE  flight'[m] = [flight[m] EXCEPT !.row = FALSE] /\ flight[m] \in Requests
  BY <1>2 DEF Rendered, UnderWay, Types
<1>3. ASSUME NEW m \in Slots \ {n}, ~(flight[m] # None /\ flight[m].tab = flight[n].tab)
      PROVE  flight'[m] = flight[m]
  BY <1>3 DEF Rendered, UnderWay
<1>4. ASSUME NEW m \in Slots \ {n}, flight[m] # None, flight[m].tab = flight[n].tab
      PROVE  /\ flight'[m] \in Requests
             /\ flight'[m].tab = flight[m].tab /\ flight'[m].op = flight[m].op
             /\ flight'[m].arg = flight[m].arg /\ flight'[m].answer = flight[m].answer
             /\ flight'[m].at = flight[m].at /\ flight'[m].meant = flight[m].meant
             /\ ~flight'[m].row
  BY <1>2, <1>4 DEF Requests
<1> QED  BY <1>0, <1>1, <1>2, <1>3, <1>4, Constants DEF Unrows

(* What the clicks ask for.                                                 *)
LEMMA Clicks ==
  ASSUME Types, SlotsOK, PagesOK, NEW t \in Tabs
  PROVE  /\ Start(t) => \E i \in Nat : /\ Asks(t, "load", i)
                                       /\ IF kind[t] = "problem" THEN i \in Ids ELSE i = 0
         /\ Submit(t) => Asks(t, kind[t], form[t]) /\ kind[t] \in Ops /\ form[t] \in Values
         /\ SubmitCode(t) => Asks(t, "submit", shown[t].asked) /\ shown[t].asked \in Ids
         /\ \A v \in Values \cup {0} : Select(t, v) => Asks(t, "load", v)
         /\ \A i \in Ids : Delete(t, i) => Asks(t, "delete", i)
         /\ Reset(t) => Asks(t, "reset", 0)
<1>1. ASSUME Start(t)
      PROVE  \E i \in Nat : /\ Asks(t, "load", i)
                            /\ IF kind[t] = "problem" THEN i \in Ids ELSE i = 0
  <2>1. PICK i \in (IF kind[t] = "problem" THEN Ids ELSE {0}) : Click(t, "load", i)
    BY <1>1 DEF Start
  <2>2. i \in Nat /\ IF kind[t] = "problem" THEN i \in Ids ELSE i = 0
    BY DEF Ids
  <2> QED  BY <2>1, <2>2, ClickAsks
<1>2. ASSUME Submit(t)
      PROVE  Asks(t, kind[t], form[t]) /\ kind[t] \in Ops /\ form[t] \in Values
  <2>1. Click(t, kind[t], form[t]) /\ kind[t] \in Forms /\ form[t] # 0
    BY <1>2 DEF Submit
  <2>2. form[t] \in Values \cup {0}
    BY DEF Types
  <2> QED  BY <2>1, <2>2, ClickAsks DEF Forms, Ops
<1>3. ASSUME SubmitCode(t)
      PROVE  Asks(t, "submit", shown[t].asked) /\ shown[t].asked \in Ids
  BY <1>3, ClickAsks DEF SubmitCode, PagesOK
<1>4. ASSUME NEW v \in Values \cup {0}, Select(t, v) PROVE Asks(t, "load", v)
  BY <1>4, ClickAsks DEF Select
<1>5. ASSUME NEW i \in Ids, Delete(t, i) PROVE Asks(t, "delete", i)
  BY <1>5, ClickAsks DEF Delete
<1>6. ASSUME Reset(t) PROVE Asks(t, "reset", 0)
  BY <1>6, ClickAsks DEF Reset
<1> QED  BY <1>1, <1>2, <1>3, <1>4, <1>5, <1>6

(* A click: which tab asks for what.                                        *)
Clicked(t, op, arg) ==
  /\ Asks(t, op, arg)
  /\ op \in Ops /\ arg \in Nat
  /\ op \in {"delete", "submit"} => arg \in Ids

(* One slot of all has the new request.                                     *)
LEMMA ClickedSlot ==
  ASSUME Types, NEW t \in Tabs, NEW op, NEW arg, Clicked(t, op, arg)
  PROVE  \E n \in Slots : /\ flight[n] = None
                          /\ Fresh(flight'[n], t, op, arg)
                          /\ \A m \in Slots \ {n} : flight'[m] = flight[m]
<1>1. op \in Ops /\ arg \in Nat /\ (op \in {"delete", "submit"} => arg \in Ids)
  BY DEF Clicked
<1>2. Fresh(Request(t, op, arg), t, op, arg)
  BY <1>1, NewRequest
<1> QED  BY <1>2 DEF Clicked, Asks

(* What the user has clicked then.                                          *)
ClickIs(t, op, arg) ==
  \/ Start(t) /\ op = "load" /\ (kind[t] # "problem" => arg = 0)
  \/ arg \in Values \cup {0} /\ Select(t, arg) /\ op = "load"
  \/ Submit(t) /\ op = kind[t] /\ arg = form[t]
  \/ SubmitCode(t) /\ op = "submit" /\ arg = shown[t].asked
  \/ arg \in Ids /\ Delete(t, arg) /\ op = "delete"
  \/ Reset(t) /\ op = "reset"

LEMMA UserClicks ==
  ASSUME Types, SlotsOK, PagesOK, NEW t \in Tabs, UserStep(t)
  PROVE  \/ \E op, arg : Clicked(t, op, arg) /\ ClickIs(t, op, arg)
         \/ UNCHANGED flight /\ \E v \in Values \cup {0} : Type(t, v)
<1>0. Values \cup {0} \subseteq Nat /\ Ids \subseteq Nat
  BY Constants DEF Ids
<1>1. CASE Start(t)
  BY <1>1, Clicks DEF Clicked, Ops, ClickIs
<1>2. CASE Submit(t)
  <2>1. Asks(t, kind[t], form[t]) /\ kind[t] \in Ops /\ form[t] \in Values /\ kind[t] \in Forms
    BY <1>2, Clicks DEF Submit
  <2>2. Clicked(t, kind[t], form[t])
    BY <1>0, <2>1 DEF Clicked, Forms
  <2> QED  BY <1>2, <2>2 DEF ClickIs
<1>3. CASE SubmitCode(t)
  <2>1. Clicked(t, "submit", shown[t].asked)
    BY <1>0, <1>3, Clicks DEF Clicked, Ops
  <2> QED  BY <1>3, <2>1 DEF ClickIs
<1>4. ASSUME NEW v \in Values \cup {0}, Select(t, v)
      PROVE  Clicked(t, "load", v) /\ ClickIs(t, "load", v)
  BY <1>0, <1>4, Clicks DEF Clicked, Ops, ClickIs
<1>5. ASSUME NEW i \in Ids, Delete(t, i)
      PROVE  Clicked(t, "delete", i) /\ ClickIs(t, "delete", i)
  BY <1>0, <1>5, Clicks DEF Clicked, Ops, ClickIs
<1>6. CASE Reset(t)
  <2>1. Clicked(t, "reset", 0)
    BY <1>6, Clicks DEF Clicked, Ops
  <2> QED  BY <1>6, <2>1 DEF ClickIs
<1>7. ASSUME NEW v \in Values \cup {0}, Type(t, v) PROVE UNCHANGED flight
  BY <1>7 DEF Type
<1> QED  BY <1>1, <1>2, <1>3, <1>4, <1>5, <1>6, <1>7 DEF UserStep

(* What the backend finds.                                                  *)
Now == [bank |-> bank, resets |-> resets]

(* The steps of a reset before the last. *)
Reseeds(n) == ClearBank(n) \/ RestartIds(n) \/ LoadSeed(n)

LEMMA ReseedsIs ==
  ASSUME NEW n \in Slots, Reseeds(n)
  PROVE  /\ Asked(n, "reset") /\ UNCHANGED <<UserSteps, flight, accounts, made>>
         /\ \E i \in 0 .. Seeds + 1 : /\ progress[n] = i
                                     /\ progress' = [progress EXCEPT ![n] = i + 1]
<1>1. PICK i \in 0 .. Seeds + 1 : Resetting(n, i) \/ (i = 1 /\ RestartIds(n))
  <2>1. CASE ClearBank(n)
    <3>1. Resetting(n, 0) /\ 0 \in 0 .. Seeds + 1
      BY <2>1, Constants DEF ClearBank
    <3> QED  BY <3>1
  <2>2. CASE RestartIds(n)
    <3>1. 1 \in 0 .. Seeds + 1
      BY Constants
    <3> QED  BY <2>2, <3>1
  <2>3. CASE LoadSeed(n)
    <3>1. PICK k \in 1 .. Seeds : Resetting(n, k + 1)
      BY <2>3 DEF LoadSeed
    <3>2. k + 1 \in 0 .. Seeds + 1
      BY Constants
    <3> QED  BY <3>1, <3>2
  <2> QED  BY <2>1, <2>2, <2>3 DEF Reseeds
<1>2. Resetting(n, i)
  BY <1>1 DEF RestartIds
<1> QED  BY <1>2 DEF Resetting

(* What the backend's steps do to a request.                                *)
LEMMA Services ==
  ASSUME Types, NEW n \in Slots, Serve(n) \/ Lose(n)
  PROVE  /\ flight[n] # None /\ flight[n] \in Requests
         /\ \E a \in {"none", "ok", "taken", "refused", "denied"}, at \in Snapshots \cup {None} :
              /\ Serves(n, a, at)
              /\ a = "taken" => flight[n].op = "register"
              /\ at \in {None, Now, flight[n].at}
<1>1. flight[n] # None /\ flight[n] \in Requests
  BY ReseedsIs
  DEF Serve, Lose, Register, Create, Read, Remove, Restore, Refuse, Reseeds, Asked, Types
<1>2. flight[n].at \in Snapshots \cup {None} /\ Now \in Snapshots
  <2>1. bank \in [Ids -> Nat]
    BY DEF Types, Banks
  <2> QED  BY <1>1, <2>1 DEF Types, Requests, Snapshots, Now
<1>3. CASE Lose(n)
  <2>1. Serves(n, "refused", None)
    BY <1>1, <1>3 DEF Lose, Serves, Slotted, Types, Requests
  <2> QED  BY <1>1, <2>1
<1>5. CASE Reseeds(n)
  <2>1. UNCHANGED flight /\ flight[n].answer = "none"
    BY <1>5, ReseedsIs DEF Asked
  <2>2. flight[n] = [flight[n] EXCEPT !.answer = "none", !.at = flight[n].at]
    BY <1>1, <2>1 DEF Requests
  <2>3. Serves(n, "none", flight[n].at)
    BY <1>1, <2>1, <2>2 DEF Serves, Slotted, Types
  <2> QED  BY <1>1, <1>2, <2>3
<1>4. CASE Serve(n) /\ ~Reseeds(n)
  <2>1. \/ \E a \in {"ok", "taken", "refused", "denied"} :
             Answer(n, a) /\ (a = "taken" => flight[n].op = "register")
        \/ AnswerAt(n, "ok")
    BY <1>4 DEF Serve, Register, Create, Done, Read, Remove, Restore, Refuse, Reseeds, Asked
  <2>2. ASSUME NEW a \in {"ok", "taken", "refused", "denied"}, Answer(n, a)
        PROVE  Serves(n, a, flight[n].at)
    BY <1>1, <2>2, AnswerServes
  <2>3. ASSUME AnswerAt(n, "ok") PROVE Serves(n, "ok", Now)
    BY <1>1, <2>3, AnswerAtServes DEF Now
  <2> QED  BY <1>1, <1>2, <2>1, <2>2, <2>3
<1> QED  BY <1>1, <1>3, <1>4, <1>5

(* Where each page's answers come from.                                     *)
LEMMA Receipts ==
  ASSUME Types, NEW n \in Slots, Receive(n)
  PROVE  /\ flight[n] # None /\ flight[n] \in Requests /\ flight[n].tab \in Tabs
         /\ flight[n].answer # "none"
         /\ Drop(n) \/ FormAnswered(n) \/ CodeAnswered(n) => Takes(n)
         /\ LoadAnswered(n) => flight'[n] = None /\ Unrows(n) /\ Slotted
         /\ DeleteAnswered(n) \/ ResetAnswered(n) =>
              IF Ok(n) THEN /\ flight'[n] = Request(flight[n].tab,
                                 IF flight[n].op = "delete" THEN "load" ELSE "reload", 0)
                            /\ Unrows(n) /\ Slotted
                       ELSE Takes(n)
<1>1. /\ flight[n] # None /\ flight[n] \in Requests /\ flight[n].answer # "none"
  BY DEF Receive, Drop, FormAnswered, CodeAnswered, LoadAnswered, DeleteAnswered, ResetAnswered,
         Answered, Types
<1>2. flight[n].tab \in Tabs
  BY <1>1 DEF Requests
<1>3. Drop(n) \/ FormAnswered(n) \/ CodeAnswered(n) => Takes(n)
  BY <1>1, ForgetTakes DEF Drop, FormAnswered, CodeAnswered
<1>4. LoadAnswered(n) => flight'[n] = None /\ Unrows(n) /\ Slotted
  BY <1>1, RenderedUnrows DEF LoadAnswered
<1>5. DeleteAnswered(n) =>
        IF Ok(n) THEN flight'[n] = Request(flight[n].tab, "load", 0) /\ Unrows(n) /\ Slotted
                 ELSE Takes(n)
  BY <1>1, RenderedUnrows, ForgetTakes DEF DeleteAnswered, LoadProblems
<1>6. ResetAnswered(n) =>
        IF Ok(n) THEN flight'[n] = Request(flight[n].tab, "reload", 0) /\ Unrows(n) /\ Slotted
                 ELSE Takes(n)
  BY <1>1, RenderedUnrows, ForgetTakes DEF ResetAnswered, LoadProblems
<1>7. DeleteAnswered(n) => flight[n].op = "delete"
  BY DEF DeleteAnswered, Answered
<1>8. ResetAnswered(n) => flight[n].op = "reset"
  BY DEF ResetAnswered, Answered
<1> QED  BY <1>1, <1>2, <1>3, <1>4, <1>5, <1>6, <1>7, <1>8

-----------------------------------------------------------------------------
(* The types stay, and a slot for each click that is left.                  *)

LEMMA FlightTypes ==
  ASSUME Types, Slotted, \A n \in Slots : flight'[n] \in Requests \cup {None}
  PROVE  flight' \in [Slots -> Requests \cup {None}]
BY DEF Slotted

LEMMA UserTypes ==
  ASSUME Types, SlotsOK, PagesOK, NEW t \in Tabs, UserStep(t)
  PROVE  Types' /\ SlotsOK'
<1>1. flight' \in [Slots -> Requests \cup {None}]
  <2>1. ASSUME NEW op, NEW arg, Clicked(t, op, arg)
        PROVE  flight' \in [Slots -> Requests \cup {None}]
    <3>0. op \in Ops /\ arg \in Nat /\ (op \in {"delete", "submit"} => arg \in Ids)
      BY <2>1 DEF Clicked
    <3>1. Request(t, op, arg) \in Requests
      BY <3>0, NewRequest DEF Fresh
    <3> QED  BY <2>1, <3>1, FlightTypes DEF Clicked, Asks, Types
  <2> QED  BY <2>1, UserClicks DEF Types
<1>2. SlotsOK' /\ clicks' \in Nat
  <2>1. \/ \E op, arg : Click(t, op, arg)
        \/ UNCHANGED <<flight, clicks>>
    BY DEF UserStep, Start, Type, Submit, SubmitCode, Select, Delete, Reset
  <2>2. CASE \E op, arg : Click(t, op, arg)
    BY <2>2, ClickAsks
  <2>3. CASE UNCHANGED <<flight, clicks>>
    BY <2>3, SlotsKept DEF Types
  <2> QED  BY <2>1, <2>2, <2>3
<1>3. UNCHANGED <<kind, backend, gone>>
  BY DEF UserStep, Start, Type, Submit, SubmitCode, Select, Delete, Reset, history
<1>4. Views' = Views /\ Banks' = Banks
  BY <1>3 DEF Views, Banks, backend
<1>5. /\ state' \in [Tabs -> {"opening", "open", "left"}]
      /\ button' \in [Tabs -> BOOLEAN]
      /\ form' \in [Tabs -> Values \cup {0}]
      /\ taken' \in [Tabs -> Values \cup {0}]
      /\ shown' \in [Tabs -> Views \cup {None}]
  <2>1. CASE Start(t) \/ Submit(t) \/ SubmitCode(t) \/ Reset(t)
    BY <2>1 DEF Start, Submit, SubmitCode, Reset, Types, page
  <2>2. ASSUME NEW v \in Values \cup {0}, Type(t, v) \/ Select(t, v)
        PROVE  /\ state' \in [Tabs -> {"opening", "open", "left"}]
               /\ button' \in [Tabs -> BOOLEAN]
               /\ form' \in [Tabs -> Values \cup {0}]
               /\ taken' \in [Tabs -> Values \cup {0}]
               /\ shown' \in [Tabs -> Views \cup {None}]
    BY <2>2 DEF Type, Select, Types
  <2>3. ASSUME NEW i \in Ids, Delete(t, i)
        PROVE  /\ UNCHANGED <<state, button, form, taken>>
               /\ shown' \in [Tabs -> Views \cup {None}]
    <3>1. /\ shown[t] \in Views
          /\ shown' = [shown EXCEPT ![t] = [shown[t] EXCEPT !.busy = @ \cup {i}]]
          /\ UNCHANGED <<state, button, form, taken>>
      BY <2>3 DEF Delete, Types
    <3>2. [shown[t] EXCEPT !.busy = @ \cup {i}] \in Views
      BY <3>1 DEF Views
    <3> QED  BY <3>1, <3>2 DEF Types
  <2> QED  BY <2>1, <2>2, <2>3 DEF UserStep, Types
<1> QED  BY <1>1, <1>2, <1>3, <1>4, <1>5 DEF Types, backend

LEMMA BanksGrow ==
  ASSUME Types, born' \in Nat, born' >= born, resets' \in Nat, resets' >= resets
  PROVE  Banks \subseteq Banks' /\ Views \subseteq Views'
<1>1. Banks \subseteq Banks'
  BY DEF Types, Banks
<1>2. 0 .. resets \subseteq 0 .. resets'
  BY DEF Types
<1> QED  BY <1>1, <1>2 DEF Views

LEMMA ServeKeeps ==
  ASSUME NEW n \in Slots, Serve(n) \/ Lose(n)
  PROVE  UNCHANGED <<kind, state, button, form, taken, shown, clicks, gone, typed, crossed>>
BY ReseedsIs
DEF Serve, Lose, Register, Create, Read, Remove, Restore, Refuse, Reseeds, UserSteps, page, history

(* How far the resets come. *)
LEMMA ServeProgress ==
  ASSUME Types, ResetsOK, NEW n \in Slots, Serve(n) \/ Lose(n)
  PROVE  progress' \in [Slots -> 0 .. Seeds + 2] /\ ResetsOK'
<1>0. PICK a \in {"none", "ok", "taken", "refused", "denied"}, at \in Snapshots \cup {None} :
        Serves(n, a, at)
  BY Services
<1>1. \A m \in Slots \ {n} : flight'[m] = flight[m]
  BY <1>0 DEF Serves
<1>2. CASE Reseeds(n)
  <2>1. PICK i \in 0 .. Seeds + 1 : progress' = [progress EXCEPT ![n] = i + 1]
    BY <1>2, ReseedsIs
  <2>2. i + 1 \in 0 .. Seeds + 2
    BY Constants
  <2>3. Asked(n, "reset")' /\ UNCHANGED flight
    BY <1>2, ReseedsIs DEF Asked
  <2> QED  BY <2>1, <2>2, <2>3 DEF ResetsOK, Types, Asked
<1>3. CASE progress' = [progress EXCEPT ![n] = 0]
  <2>1. 0 \in 0 .. Seeds + 2
    BY Constants
  <2> QED  BY <1>1, <1>3, <2>1 DEF ResetsOK, Types, Asked
<1>4. CASE UNCHANGED progress /\ ~Asked(n, "reset")
  <2>1. progress'[n] = 0
    BY <1>4 DEF ResetsOK
  <2> QED  BY <1>1, <1>4, <2>1 DEF ResetsOK, Types, Asked
<1> QED
  BY <1>2, <1>3, <1>4
  DEF Serve, Lose, Register, Create, Read, Remove, Restore, Refuse, Reseeds, Asked, backend

LEMMA ServeTypes ==
  ASSUME Types, SlotsOK, ResetsOK, NEW n \in Slots, Serve(n) \/ Lose(n)
  PROVE  Types' /\ SlotsOK'
<1>1. PICK a \in {"none", "ok", "taken", "refused", "denied"}, at \in Snapshots \cup {None} :
        Serves(n, a, at)
  BY Services
<1>2. flight' \in [Slots -> Requests \cup {None}]
  <2>1. flight'[n] \in Requests
    BY <1>1, ServedRequest
  <2>2. Slotted /\ \A m \in Slots \ {n} : flight'[m] = flight[m]
    BY <1>1 DEF Serves
  <2> QED  BY <2>1, <2>2, FlightTypes DEF Types
<1>3. UNCHANGED <<kind, state, button, form, taken, shown, clicks, gone>>
  BY ServeKeeps
<1>4. SlotsOK'
  BY <1>1, <1>3, Services, SlotsKept DEF Serves
<1>5. /\ accounts' \in [Values -> Tabs \cup {None}]
      /\ made' \in [Tabs -> Nat]
  <2>1. flight[n].tab \in Tabs
    BY Services DEF Requests
  <2> QED
    BY <2>1, ReseedsIs
    DEF Serve, Lose, Register, Create, Read, Remove, Restore, Refuse, Reseeds, backend, Types
<1>6. /\ bank' \in Banks' /\ nextId' \in 1 .. MaxId + 1
      /\ born' \in Nat /\ born' >= born /\ resets' \in Nat /\ resets' >= resets
  <2>1. ASSUME NewRow, resets' = resets
        PROVE  /\ bank' \in Banks' /\ nextId' \in 1 .. MaxId + 1
               /\ born' \in Nat /\ born' >= born /\ resets' \in Nat /\ resets' >= resets
    <3>1. /\ nextId \in Ids /\ bank' = [bank EXCEPT ![nextId] = born + 1]
          /\ nextId' = nextId + 1 /\ born' = born + 1 /\ resets' = resets
      BY <2>1 DEF NewRow
    <3>2. nextId' \in 1 .. MaxId + 1 /\ born' \in Nat /\ born' >= born /\ resets' \in Nat
      BY <3>1, Constants DEF Types, Ids
    <3>3. \A i \in Ids : bank'[i] \in 0 .. born'
      BY <3>1 DEF Types, Banks
    <3>4. bank' \in [Ids -> 0 .. born']
      BY <3>1, <3>3 DEF Types, Banks
    <3> QED  BY <3>1, <3>2, <3>4 DEF Types, Banks
  <2>2. CASE ClearBank(n)
    <3>1. bank' = [i \in Ids |-> 0] /\ UNCHANGED <<nextId, born, resets>>
      BY <2>2 DEF ClearBank
    <3>2. bank' \in Banks'
      BY <3>1 DEF Types, Banks
    <3> QED  BY <3>1, <3>2 DEF Types
  <2>5. CASE RestartIds(n)
    <3>1. UNCHANGED <<bank, born>> /\ nextId' \in 1 .. MaxId + 1 /\ resets' = resets + 1
      BY <2>5 DEF RestartIds
    <3> QED  BY <3>1 DEF Types, Banks
  <2>6. CASE Restore(n)
    BY <2>6 DEF Restore, Types, Banks
  <2>3. CASE Remove(n)
    <3>1. /\ bank' = [bank EXCEPT ![flight[n].arg] = 0]
          /\ UNCHANGED <<nextId, born, resets>>
      BY <2>3 DEF Remove
    <3>2. bank \in [Ids -> 0 .. born] /\ born \in Nat
      BY DEF Types, Banks
    <3>3. 0 \in 0 .. born
      BY <3>2
    <3>4. bank' \in [Ids -> 0 .. born]
      BY <3>1, <3>2, <3>3
    <3> QED  BY <3>1, <3>2, <3>4 DEF Types, Banks
  <2>4. CASE Register(n) \/ Read(n) \/ Refuse(n) \/ Lose(n)
    BY <2>4 DEF Register, Read, Refuse, Lose, Types, Banks, backend
  <2> QED  BY <2>1, <2>2, <2>3, <2>4, <2>5, <2>6 DEF Serve, Create, LoadSeed
<1>7. shown' \in [Tabs -> Views' \cup {None}]
  BY <1>3, <1>6, BanksGrow DEF Types
<1> QED  BY <1>2, <1>3, <1>4, <1>5, <1>6, <1>7, ServeProgress DEF Types

LEMMA ReceiveTypes ==
  ASSUME Types, SlotsOK, PagesOK, BankOK, AimsOK, NEW n \in Slots, Receive(n)
  PROVE  Types' /\ SlotsOK'
<1>0. /\ flight[n] # None /\ flight[n] \in Requests /\ flight[n].tab \in Tabs
      /\ UNCHANGED <<kind, clicks, backend>>
  BY Receipts DEF Receive, Drop, FormAnswered, CodeAnswered, LoadAnswered, DeleteAnswered,
     ResetAnswered
<1>1. PICK t \in Tabs : t = flight[n].tab
  BY <1>0
<1>2. flight' \in [Slots -> Requests \cup {None}]
  <2>1. /\ Request(t, "load", 0) \in Requests
        /\ Request(t, "reload", 0) \in Requests
    BY <1>1, NewLoad DEF Fresh
  <2>2. CASE Takes(n)
    BY <2>2, FlightTypes DEF Takes, Types
  <2>3. CASE /\ flight'[n] \in {None, Request(t, "load", 0), Request(t, "reload", 0)}
             /\ Unrows(n) /\ Slotted
    BY <2>1, <2>3, FlightTypes DEF Unrows, Types
  <2> QED  BY <1>1, <2>2, <2>3, Receipts DEF Receive
<1>3. SlotsOK'
  <2>1. ASSUME NEW m \in Slots, flight[m] = None PROVE flight'[m] = None
    <3>1. CASE Takes(n)
      BY <1>0, <2>1, <3>1 DEF Takes
    <3>2. CASE Unrows(n)
      BY <1>0, <2>1, <3>2 DEF Unrows
    <3> QED  BY <3>1, <3>2, Receipts DEF Receive
  <2> QED  BY <1>0, <2>1, SlotsKept
<1>4. Views' = Views /\ Banks' = Banks
  BY <1>0 DEF Views, Banks, backend
<1>5. /\ state' \in [Tabs -> {"opening", "open", "left"}]
      /\ button' \in [Tabs -> BOOLEAN]
      /\ form' \in [Tabs -> Values \cup {0}]
      /\ taken' \in [Tabs -> Values \cup {0}]
  <2>1. CASE FormAnswered(n)
    <3>1. flight[n].op \in Forms
      BY <2>1 DEF FormAnswered, Answered
    <3>2. flight[n].arg \in Values
      BY <1>0, <3>1 DEF PagesOK, FitsPage
    <3> QED  BY <1>0, <2>1, <3>2 DEF FormAnswered, Leave, page, Types
  <2>2. CASE LoadAnswered(n)
    BY <1>0, <2>2 DEF LoadAnswered, Leave, page, Types
  <2>3. CASE Drop(n) \/ CodeAnswered(n) \/ DeleteAnswered(n) \/ ResetAnswered(n)
    BY <1>0, <2>3 DEF Drop, CodeAnswered, DeleteAnswered, ResetAnswered, page, Types
  <2> QED  BY <2>1, <2>2, <2>3 DEF Receive
<1>6. shown' \in [Tabs -> Views \cup {None}]
  <2>1. CASE LoadAnswered(n)
    <3>1. ASSUME Ok(n)
          PROVE  [asked |-> flight[n].arg, busy |-> {}, bank |-> flight[n].at.bank,
                  resets |-> flight[n].at.resets] \in Views
      <4>1. flight[n].op \in {"load", "reload"}
        BY <2>1 DEF LoadAnswered, Answered
      <4>2. flight[n].at \in Snapshots /\ (flight[n].at # None => Seen(flight[n].at))
        BY <1>0, <3>1, <4>1 DEF AimsOK, BankOK, Ok
      <4>3. flight[n].arg \in Values \cup Ids \cup {0}
        BY <1>0, <4>1 DEF PagesOK, FitsPage, Makes, Types, Kinds, Forms
      <4>4. flight[n].at.bank \in Banks /\ flight[n].at.resets \in 0 .. resets
        <5>1. Seen(flight[n].at)
          BY <4>2, Constants
        <5> QED  BY <4>2, <5>1 DEF Seen, Snapshots, Banks
      <4> QED  BY <4>3, <4>4 DEF Views
    <3> QED  BY <2>1, <3>1, <1>0 DEF LoadAnswered, Leave, page, Types
  <2>2. CASE DeleteAnswered(n)
    <3>1. CASE Ok(n)
      BY <1>0, <2>2, <3>1 DEF DeleteAnswered, LoadProblems, Types
    <3>2. CASE ~Ok(n) /\ flight[n].row
      <4>1. flight[n].op = "delete"
        BY <2>2 DEF DeleteAnswered, Answered
      <4>2. shown[t] \in Views
        BY <1>0, <1>1, <3>2, <4>1 DEF PagesOK, FitsPage, Types
      <4>3. shown' = [shown EXCEPT ![t] = [shown[t] EXCEPT !.busy = @ \ {flight[n].arg}]]
        BY <1>1, <2>2, <3>2 DEF DeleteAnswered
      <4>4. [shown[t] EXCEPT !.busy = @ \ {flight[n].arg}] \in Views
        BY <4>2 DEF Views
      <4> QED  BY <4>3, <4>4 DEF Types
    <3>3. CASE ~Ok(n) /\ ~flight[n].row
      BY <2>2, <3>3 DEF DeleteAnswered, Types
    <3> QED  BY <3>1, <3>2, <3>3
  <2>3. CASE ResetAnswered(n)
    BY <1>0, <2>3 DEF ResetAnswered, LoadProblems, Types
  <2>4. CASE Drop(n) \/ FormAnswered(n) \/ CodeAnswered(n)
    BY <2>4 DEF Drop, FormAnswered, CodeAnswered, Leave, page, Types
  <2> QED  BY <2>1, <2>2, <2>3, <2>4 DEF Receive
<1>7. gone' \in [Tabs -> SUBSET Nat]
  <2>1. CASE DeleteAnswered(n) /\ Ok(n)
    <3>1. flight[n].op = "delete"
      BY <2>1 DEF DeleteAnswered, Answered
    <3>2. flight[n].at \in Snapshots /\ flight[n].arg \in Ids
      BY <1>0, <2>1, <3>1 DEF AimsOK, Aims, PagesOK, FitsPage, Ok
    <3>3. flight[n].at.bank[flight[n].arg] \in Nat
      BY <3>2 DEF Snapshots
    <3> QED  BY <1>0, <2>1, <3>3 DEF DeleteAnswered, Types
  <2>2. CASE ~(DeleteAnswered(n) /\ Ok(n))
    BY <2>2 DEF Receive, Drop, FormAnswered, CodeAnswered, LoadAnswered, DeleteAnswered,
       ResetAnswered, history, Types
  <2> QED  BY <2>1, <2>2
<1> QED  BY <1>0, <1>2, <1>3, <1>4, <1>5, <1>6, <1>7 DEF Types, backend

-----------------------------------------------------------------------------
(* Every request stays one that its page makes. *)

LEMMA FitsKept ==
  ASSUME NEW m \in Slots, FitsPage(flight[m]), UNCHANGED kind,
         flight'[m].tab = flight[m].tab, flight'[m].op = flight[m].op,
         flight'[m].arg = flight[m].arg,
         state'[flight[m].tab] # "opening",
         flight'[m].answer = "taken" => flight[m].op = "register",
         flight[m].op = "delete" /\ flight'[m].row => shown'[flight[m].tab] \in Views'
  PROVE  FitsPage(flight[m])'
BY DEF FitsPage

(* What a click asks fits the page. *)
LEMMA ClickFits ==
  ASSUME Types, SlotsOK, PagesOK, NEW t \in Tabs, NEW op, NEW arg, Clicked(t, op, arg),
         UNCHANGED kind, state'[t] # "opening",
         op \in Makes(kind[t]), op \in Forms => arg \in Values,
         kind[t] = "list" => arg \in Values \cup {0},
         kind[t] = "admin" => arg \in Ids \cup {0},
         kind[t] = "problem" => arg \in Ids,
         op = "delete" => arg \in Ids /\ shown'[t] \in Views',
         \A u \in Tabs : state[u] # "opening" => state'[u] # "opening",
         \A u \in Tabs : shown[u] \in Views /\ kind[u] = "admin" => shown'[u] \in Views'
  PROVE  \A n \in Slots : flight'[n] # None => FitsPage(flight[n])'
<1>1. PICK n \in Slots : /\ flight[n] = None
                         /\ Fresh(flight'[n], t, op, arg)
                         /\ \A m \in Slots \ {n} : flight'[m] = flight[m]
  BY ClickedSlot
<1>2. FitsPage(flight[n])'
  BY <1>1 DEF Fresh, FitsPage
<1>3. ASSUME NEW m \in Slots \ {n}, flight'[m] # None PROVE FitsPage(flight[m])'
  <2>1. flight[m] # None /\ FitsPage(flight[m]) /\ flight'[m] = flight[m]
    BY <1>1, <1>3 DEF PagesOK
  <2>2. flight[m].tab \in Tabs
    BY <2>1 DEF Types, Requests
  <2>3. flight[m].op = "delete" => kind[flight[m].tab] = "admin"
    BY <2>1, <2>2 DEF FitsPage, Makes, Types, Kinds
  <2> QED  BY <2>1, <2>2, <2>3, FitsKept DEF FitsPage
<1> QED  BY <1>2, <1>3

LEMMA UserResets ==
  ASSUME Types, SlotsOK, PagesOK, ResetsOK, NEW t \in Tabs, UserStep(t)
  PROVE  ResetsOK'
<1>1. UNCHANGED progress
  BY DEF UserStep, Start, Type, Submit, SubmitCode, Select, Delete, Reset, backend
<1>2. \A n \in Slots : flight[n] # None => flight'[n] = flight[n]
  <2>1. CASE UNCHANGED flight
    BY <2>1
  <2>2. ASSUME NEW op, NEW arg, Clicked(t, op, arg)
        PROVE  \A n \in Slots : flight[n] # None => flight'[n] = flight[n]
    BY <2>2, ClickedSlot
  <2> QED  BY <2>1, <2>2, UserClicks
<1> QED  BY <1>1, <1>2 DEF ResetsOK, Asked

LEMMA UserPages ==
  ASSUME Types, SlotsOK, PagesOK, NEW t \in Tabs, UserStep(t)
  PROVE  PagesOK'
<1>a. UNCHANGED <<kind, backend>>
  BY DEF UserStep, Start, Type, Submit, SubmitCode, Select, Delete, Reset
<1>b. Views' = Views
  BY <1>a DEF Views, Banks, backend
<1>0. /\ UNCHANGED <<kind, backend>> /\ Views' = Views
      /\ Values \cup {0} \subseteq Nat /\ Ids \subseteq Nat
  BY <1>a, <1>b, Constants DEF Ids
<1> DEFINE TabsFit == \A u \in Tabs : /\ kind'[u] \in Forms => state'[u] # "opening"
                                      /\ state'[u] = "opening" => shown'[u] = None
                                      /\ kind'[u] = "problem" /\ shown'[u] # None =>
                                           shown'[u].asked \in Ids
           RequestsFit == \A n \in Slots : flight'[n] # None => FitsPage(flight[n])'
<1>1. CASE Start(t)
  <2>1. state' = [state EXCEPT ![t] = "open"] /\ UNCHANGED shown /\ state[t] = "opening"
    BY <1>1 DEF Start, page
  <2>2. TabsFit
    BY <1>0, <2>1 DEF PagesOK, Types
  <2>3. PICK i \in Nat : Asks(t, "load", i) /\ IF kind[t] = "problem" THEN i \in Ids ELSE i = 0
    BY <1>1, Clicks
  <2>4. Clicked(t, "load", i)
    BY <2>3 DEF Clicked, Ops
  <2>5. "load" \in Makes(kind[t]) /\ "load" \notin Forms
    BY <2>1 DEF PagesOK, Types, Kinds, Makes, Forms
  <2>6. state'[t] # "opening" /\ \A u \in Tabs : state[u] # "opening" => state'[u] # "opening"
    BY <2>1 DEF Types
  <2>7. RequestsFit
    BY <1>0, <2>1, <2>3, <2>4, <2>5, <2>6, ClickFits
  <2> QED  BY <2>2, <2>7 DEF PagesOK
<1>2. CASE Submit(t) \/ SubmitCode(t) \/ Reset(t)
  <2>1. UNCHANGED <<state, shown>> /\ state[t] = "open"
    BY <1>2 DEF Submit, SubmitCode, Reset, Open
  <2>2. TabsFit
    BY <1>0, <2>1 DEF PagesOK
  <2>3. CASE Submit(t)
    <3>1. /\ Asks(t, kind[t], form[t]) /\ kind[t] \in Ops /\ form[t] \in Values
          /\ kind[t] \in Forms
      BY <2>3, Clicks DEF Submit
    <3>2. Clicked(t, kind[t], form[t]) /\ kind[t] \in Makes(kind[t])
          /\ kind[t] \notin {"delete", "list", "admin", "problem"}
      BY <1>0, <3>1 DEF Clicked, Makes, Forms
    <3>3. RequestsFit
      BY <1>0, <2>1, <3>1, <3>2, ClickFits
    <3> QED  BY <2>2, <3>3 DEF PagesOK
  <2>4. CASE SubmitCode(t)
    <3>1. Asks(t, "submit", shown[t].asked) /\ shown[t].asked \in Ids /\ kind[t] = "problem"
      BY <2>4, Clicks DEF SubmitCode
    <3>2. /\ Clicked(t, "submit", shown[t].asked)
          /\ "submit" \in Makes(kind[t]) /\ "submit" \notin Forms
      BY <1>0, <3>1 DEF Clicked, Ops, Makes, Forms
    <3>3. RequestsFit
      BY <1>0, <2>1, <3>1, <3>2, ClickFits
    <3> QED  BY <2>2, <3>3 DEF PagesOK
  <2>5. CASE Reset(t)
    <3>1. Asks(t, "reset", 0) /\ kind[t] = "admin"
      BY <2>5, Clicks DEF Reset
    <3>2. Clicked(t, "reset", 0) /\ "reset" \in Makes(kind[t]) /\ "reset" \notin Forms
      BY <3>1 DEF Clicked, Ops, Makes, Forms
    <3>3. RequestsFit
      BY <1>0, <2>1, <3>1, <3>2, ClickFits
    <3> QED  BY <2>2, <3>3 DEF PagesOK
  <2> QED  BY <1>2, <2>3, <2>4, <2>5
<1>3. ASSUME NEW v \in Values \cup {0}, Select(t, v) PROVE PagesOK'
  <2>1. /\ UNCHANGED state /\ state[t] = "open" /\ kind[t] = "list"
        /\ shown' = [shown EXCEPT ![t] = None]
    BY <1>3 DEF Select, Open
  <2>2. TabsFit
    BY <1>0, <2>1 DEF PagesOK, Types
  <2>3. Clicked(t, "load", v) /\ "load" \in Makes(kind[t]) /\ "load" \notin Forms
    BY <1>0, <1>3, <2>1, Clicks DEF Clicked, Ops, Makes, Forms
  <2>4. \A u \in Tabs : shown[u] \in Views /\ kind[u] = "admin" => shown'[u] \in Views'
    BY <1>0, <2>1 DEF Types
  <2>5. RequestsFit
    BY <1>0, <2>1, <2>3, <2>4, ClickFits
  <2> QED  BY <2>2, <2>5 DEF PagesOK
<1>4. ASSUME NEW i \in Ids, Delete(t, i) PROVE PagesOK'
  <2>1. /\ UNCHANGED state /\ state[t] = "open" /\ kind[t] = "admin"
        /\ shown[t] \in Views
        /\ shown' = [shown EXCEPT ![t] = [shown[t] EXCEPT !.busy = @ \cup {i}]]
    BY <1>4 DEF Delete, Open, Types
  <2>2. [shown[t] EXCEPT !.busy = @ \cup {i}] \in Views
    BY <2>1 DEF Views
  <2>3. TabsFit
    BY <1>0, <2>1 DEF PagesOK, Types
  <2>4. Clicked(t, "delete", i) /\ "delete" \in Makes(kind[t]) /\ "delete" \notin Forms
    BY <1>0, <1>4, <2>1, Clicks DEF Clicked, Ops, Makes, Forms
  <2>5. \A u \in Tabs : shown[u] \in Views => shown'[u] \in Views'
    BY <1>0, <2>1, <2>2 DEF Types
  <2>6. RequestsFit
    BY <1>0, <2>1, <2>4, <2>5, ClickFits
  <2> QED  BY <2>3, <2>6 DEF PagesOK
<1>5. ASSUME NEW v \in Values \cup {0}, Type(t, v) PROVE PagesOK'
  <2>1. UNCHANGED <<state, shown, flight>>
    BY <1>5 DEF Type
  <2> QED  BY <1>0, <2>1 DEF PagesOK, FitsPage
<1> QED  BY <1>1, <1>2, <1>3, <1>4, <1>5 DEF UserStep

LEMMA ServeGrows ==
  ASSUME Types, NEW n \in Slots, Serve(n) \/ Lose(n)
  PROVE  /\ born' \in Nat /\ born' >= born /\ resets' \in Nat /\ resets' >= resets
         /\ Views \subseteq Views'
<1>1. born' \in Nat /\ born' >= born /\ resets' \in Nat /\ resets' >= resets
  BY Constants
  DEF Serve, Lose, Register, Create, Read, Remove, Restore, Refuse, ClearBank, RestartIds, LoadSeed,
      NewRow, backend, Types
<1> QED  BY <1>1, BanksGrow

LEMMA ServePages ==
  ASSUME Types, SlotsOK, PagesOK, NEW n \in Slots, Serve(n) \/ Lose(n)
  PROVE  PagesOK'
<1>1. PICK a \in {"none", "ok", "taken", "refused", "denied"}, at \in Snapshots \cup {None} :
        Serves(n, a, at) /\ (a = "taken" => flight[n].op = "register")
  BY Services
<1>2. UNCHANGED <<kind, state, shown>>
  BY ServeKeeps
<1>3. Views \subseteq Views'
  BY ServeGrows
<1>4. FitsPage(flight[n])'
  <2>1. flight[n] # None /\ FitsPage(flight[n])
    BY Services DEF PagesOK
  <2>2. /\ flight'[n].answer = a
        /\ flight'[n].tab = flight[n].tab /\ flight'[n].op = flight[n].op
        /\ flight'[n].arg = flight[n].arg /\ flight'[n].row = flight[n].row
    BY <1>1, ServedRequest
  <2> QED  BY <1>1, <1>2, <1>3, <2>1, <2>2 DEF FitsPage
<1>5. ASSUME NEW m \in Slots \ {n}, flight'[m] # None PROVE FitsPage(flight[m])'
  BY <1>1, <1>2, <1>3, <1>5 DEF PagesOK, FitsPage, Serves
<1> QED  BY <1>2, <1>4, <1>5 DEF PagesOK

(* What an answer leaves of the other requests.                             *)
LEMMA OthersLeft ==
  ASSUME Types, NEW n \in Slots, Receive(n), NEW m \in Slots \ {n}, flight'[m] # None
  PROVE  /\ flight[m] # None /\ flight'[m] \in Requests
         /\ flight'[m].tab = flight[m].tab /\ flight'[m].op = flight[m].op
         /\ flight'[m].arg = flight[m].arg /\ flight'[m].answer = flight[m].answer
         /\ flight'[m].at = flight[m].at /\ flight'[m].meant = flight[m].meant
         /\ flight'[m].row => flight[m].row
<1>1. CASE Takes(n)
  BY <1>1 DEF Takes, Types
<1>2. CASE Unrows(n)
  <2>1. CASE flight[m] # None /\ flight[m].tab = flight[n].tab
    <3>1. flight'[m] = [flight[m] EXCEPT !.row = FALSE] /\ ~flight'[m].row
      BY <1>2, <2>1 DEF Unrows
    <3> QED  BY <1>2, <2>1, <3>1 DEF Unrows
  <2>2. CASE ~(flight[m] # None /\ flight[m].tab = flight[n].tab)
    BY <1>2, <2>2 DEF Unrows, Types
  <2> QED  BY <2>1, <2>2
<1> QED  BY <1>1, <1>2, Receipts DEF Receive

(* A request that is in the slot still is a load.                           *)
LEMMA OwnSlot ==
  ASSUME Types, NEW n \in Slots, Receive(n), flight'[n] # None
  PROVE  /\ DeleteAnswered(n) \/ (ResetAnswered(n) /\ Ok(n))
         /\ Fresh(flight'[n], flight[n].tab,
                  IF flight[n].op = "delete" THEN "load" ELSE "reload", 0)
<1>1. ~Takes(n) /\ ~LoadAnswered(n)
  BY Receipts DEF Takes
<1>2. DeleteAnswered(n) \/ ResetAnswered(n)
  BY <1>1, Receipts DEF Receive
<1>3. /\ Ok(n)
      /\ flight'[n] = Request(flight[n].tab,
                              IF flight[n].op = "delete" THEN "load" ELSE "reload", 0)
  BY <1>1, <1>2, Receipts
<1>4. flight[n].tab \in Tabs
  BY Receipts
<1> QED  BY <1>2, <1>3, <1>4, NewLoad

LEMMA ReceiveKeeps ==
  ASSUME NEW n \in Slots, Receive(n)
  PROVE  UNCHANGED <<kind, form, clicks, backend, typed, misled>>
BY DEF Receive, Drop, FormAnswered, CodeAnswered, LoadAnswered, DeleteAnswered, ResetAnswered,
       Leave, page, history

LEMMA ReceiveResets ==
  ASSUME Types, ResetsOK, NEW n \in Slots, Receive(n)
  PROVE  ResetsOK'
<1>1. UNCHANGED progress
  BY ReceiveKeeps DEF backend
<1>2. progress[n] = 0
  BY Receipts DEF ResetsOK, Asked
<1>3. ASSUME NEW m \in Slots \ {n}, Asked(m, "reset") PROVE Asked(m, "reset")'
  <2>1. CASE flight'[m] = None
    <3>1. ~Takes(n) /\ ~Unrows(n)
      BY <1>3, <2>1, Constants DEF Takes, Unrows, Asked
    <3> QED  BY <3>1, Receipts DEF Receive
  <2>2. CASE flight'[m] # None
    BY <1>3, <2>2, OthersLeft DEF Asked
  <2> QED  BY <2>1, <2>2
<1> QED  BY <1>1, <1>2, <1>3 DEF ResetsOK

(* What an answer changes in the pages.                                     *)
LEMMA ReceiveOthers ==
  ASSUME Types, NEW n \in Slots, Receive(n), NEW u \in Tabs, u # flight[n].tab
  PROVE  /\ state'[u] = state[u] /\ button'[u] = button[u] /\ taken'[u] = taken[u]
         /\ shown'[u] = shown[u] /\ gone'[u] = gone[u]
         /\ u \in crossed' <=> u \in crossed
BY DEF Receive, Drop, FormAnswered, CodeAnswered, LoadAnswered, DeleteAnswered, ResetAnswered,
       LoadProblems, Leave, page, history, Types

LEMMA ReceivePages ==
  ASSUME Types, SlotsOK, PagesOK, Types', NEW n \in Slots, Receive(n)
  PROVE  PagesOK'
<1>0. PICK t \in Tabs : t = flight[n].tab
  BY Receipts
<1>1. /\ UNCHANGED <<kind, backend>> /\ flight[n] # None /\ FitsPage(flight[n])
  BY Receipts, ReceiveKeeps DEF PagesOK
<1>2. Views' = Views
  BY <1>1 DEF Views, Banks, backend
<1>3. \A u \in Tabs : state[u] # "opening" => state'[u] # "opening"
  <2>1. state[t] # "opening" => state'[t] # "opening"
    BY <1>0
    DEF Receive, Drop, FormAnswered, CodeAnswered, LoadAnswered, DeleteAnswered, ResetAnswered,
        Leave, Types
  <2> QED  BY <1>0, <2>1, ReceiveOthers
<1>4. \A u \in Tabs : state'[u] = "opening" => state[u] = "opening"
  <2>1. state[t] # "opening"
    BY <1>0, <1>1 DEF FitsPage
  <2> QED  BY <1>0, <1>3
<1>5. state'[t] # "opening"
  BY <1>0, <1>1, <1>3 DEF FitsPage
<1>6. ASSUME NEW u \in Tabs
      PROVE  /\ kind'[u] \in Forms => state'[u] # "opening"
             /\ state'[u] = "opening" => shown'[u] = None
             /\ kind'[u] = "problem" /\ shown'[u] # None => shown'[u].asked \in Ids
  <2>1. CASE u # t
    BY <1>0, <1>1, <2>1, ReceiveOthers DEF PagesOK
  <2>2. CASE u = t
    <3>1. ASSUME kind[t] = "problem", shown'[t] # None PROVE shown'[t].asked \in Ids
      <4>1. CASE LoadAnswered(n)
        BY <1>0, <1>1, <3>1, <4>1
        DEF LoadAnswered, Leave, page, PagesOK, FitsPage, Types
      <4>2. CASE ~LoadAnswered(n)
        <5>1. flight[n].op \notin {"delete", "reset"}
          BY <1>0, <1>1, <3>1 DEF FitsPage, Makes
        <5>2. UNCHANGED shown
          BY <4>2, <5>1
          DEF Receive, Drop, FormAnswered, CodeAnswered, DeleteAnswered, ResetAnswered, Answered,
              Leave, page
        <5> QED  BY <1>0, <3>1, <5>2 DEF PagesOK
      <4> QED  BY <4>1, <4>2
    <3> QED  BY <1>1, <1>5, <2>2, <3>1 DEF PagesOK
  <2> QED  BY <2>1, <2>2
<1>7. ASSUME flight'[n] # None PROVE FitsPage(flight[n])'
  <2>1. PICK op \in {"load", "reload"} : Fresh(flight'[n], t, op, 0)
    BY <1>0, <1>7, OwnSlot
  <2>2. kind[t] = "admin"
    BY <1>0, <1>1, <1>7, OwnSlot
    DEF DeleteAnswered, ResetAnswered, Answered, FitsPage, Makes, Types, Kinds
  <2> QED  BY <1>1, <1>5, <2>1, <2>2 DEF Fresh, FitsPage, Makes, Forms
<1>8. ASSUME NEW m \in Slots \ {n}, flight'[m] # None PROVE FitsPage(flight[m])'
  <2>1. /\ flight[m] # None /\ FitsPage(flight[m]) /\ flight[m].tab \in Tabs
        /\ flight'[m].tab = flight[m].tab /\ flight'[m].op = flight[m].op
        /\ flight'[m].arg = flight[m].arg /\ flight'[m].answer = flight[m].answer
        /\ flight'[m].row => flight[m].row
    BY <1>8, OthersLeft DEF PagesOK, Types, Requests
  <2>2. CASE flight[m].op = "delete" /\ flight'[m].row
    <3>1. shown'[flight[m].tab] \in Views
      <4>1. shown[flight[m].tab] \in Views
        BY <2>1, <2>2 DEF FitsPage
      <4>2. CASE flight[m].tab # t
        BY <1>0, <2>1, <4>1, <4>2, ReceiveOthers
      <4>3. CASE flight[m].tab = t
        <5>1. ~Unrows(n)
          BY <1>0, <2>1, <2>2, <4>3 DEF Unrows
        <5>2. ~LoadAnswered(n) /\ (DeleteAnswered(n) \/ ResetAnswered(n) => ~Ok(n))
          BY <5>1, Receipts
        <5>3. CASE DeleteAnswered(n) /\ flight[n].row
          <6>1. shown' = [shown EXCEPT ![t] = [shown[t] EXCEPT !.busy = @ \ {flight[n].arg}]]
            BY <1>0, <5>2, <5>3 DEF DeleteAnswered
          <6>2. [shown[t] EXCEPT !.busy = @ \ {flight[n].arg}] \in Views
            BY <4>1, <4>3 DEF Views
          <6> QED  BY <4>3, <6>1, <6>2 DEF Types
        <5>4. CASE ~(DeleteAnswered(n) /\ flight[n].row)
          <6>1. UNCHANGED shown
            BY <5>2, <5>4
            DEF Receive, Drop, FormAnswered, CodeAnswered, DeleteAnswered, ResetAnswered, Leave,
                page
          <6> QED  BY <4>1, <6>1
        <5> QED  BY <5>3, <5>4
      <4> QED  BY <4>2, <4>3
    <3> QED  BY <1>1, <1>2, <1>3, <2>1, <2>2, <3>1 DEF FitsPage
  <2>3. CASE ~(flight[m].op = "delete" /\ flight'[m].row)
    BY <1>1, <1>3, <2>1, <2>3 DEF FitsPage
  <2> QED  BY <2>2, <2>3
<1> QED  BY <1>6, <1>7, <1>8 DEF PagesOK

-----------------------------------------------------------------------------
(* The ids: what was seen under one stays, or goes.                         *)

LEMMA SeenNow ==
  ASSUME Types, BankOK
  PROVE  Seen(Now)
<1>1. \A i \in Ids : bank[i] \in 0 .. born
  BY DEF Types, Banks
<1>2. resets \in 0 .. resets
  BY DEF Types
<1>3. ASSUME NEW i \in Ids PROVE SameOrGone(i, bank[i])
  <2>1. i >= nextId => bank[i] = 0
    BY DEF BankOK
  <2> QED  BY <2>1 DEF SameOrGone, Types, Ids
<1> QED  BY <1>1, <1>2, <1>3 DEF Seen, Now

(* No step but a restart lets another problem have an id that was given.    *)
LEMMA ServeBank ==
  ASSUME Types, BankOK, NEW n \in Slots, Serve(n) \/ Lose(n)
  PROVE  /\ \A i \in Ids : bank'[i] \in {0, bank[i]} \/ bank'[i] > born
         /\ resets' = resets => /\ nextId' >= nextId
                                /\ \A i \in Ids : i < nextId => bank'[i] \in {0, bank[i]}
         /\ resets' \in {resets, resets + 1}
         /\ \A i \in Ids : i >= nextId' => bank'[i] = 0
         /\ \A i, j \in Ids : bank'[i] # 0 /\ bank'[i] = bank'[j] => i = j
<1>0. /\ bank \in [Ids -> 0 .. born] /\ born \in Nat /\ resets \in Nat /\ nextId \in Nat
      /\ Ids \subseteq Nat /\ \A i \in Ids : bank[i] \in 0 .. born
  <2>1. bank \in [Ids -> 0 .. born] /\ born \in Nat /\ resets \in Nat
    BY DEF Types, Banks
  <2>2. nextId \in Nat /\ Ids \subseteq Nat
    BY DEF Types, Ids
  <2> QED  BY <2>1, <2>2
<1>1. /\ \A i \in Ids : i >= nextId => bank[i] = 0
      /\ \A i, j \in Ids : bank[i] # 0 /\ bank[i] = bank[j] => i = j
  BY DEF BankOK
<1>2. CASE UNCHANGED <<bank, nextId, resets>>
  BY <1>0, <1>1, <1>2
<1>3. CASE NewRow /\ UNCHANGED resets
  <2>1. /\ nextId \in Ids /\ nextId' = nextId + 1 /\ UNCHANGED resets
        /\ bank'[nextId] = born + 1 /\ \A i \in Ids \ {nextId} : bank'[i] = bank[i]
    BY <1>0, <1>3 DEF NewRow
  <2>2. \A i \in Ids : i >= nextId' => i # nextId /\ bank[i] = 0
    BY <1>0, <1>1, <2>1
  <2>3. \A i, j \in Ids : bank'[i] # 0 /\ bank'[i] = bank'[j] => i = j
    <3>1. \A i \in Ids \ {nextId} : bank'[i] <= born
      BY <1>0, <2>1
    <3>2. ~(bank'[nextId] <= born)
      BY <1>0, <2>1
    <3> QED  BY <1>1, <2>1, <3>1, <3>2
  <2>4. \A i \in Ids : bank'[i] \in {0, bank[i]} \/ bank'[i] > born
    BY <1>0, <2>1
  <2>5. \A i \in Ids : i < nextId => bank'[i] = bank[i]
    BY <1>0, <2>1
  <2> QED  BY <1>0, <2>1, <2>2, <2>3, <2>4, <2>5
<1>4. CASE Remove(n)
  <2>1. \A i \in Ids : bank'[i] = IF i = flight[n].arg THEN 0 ELSE bank[i]
    BY <1>0, <1>4 DEF Remove
  <2>2. UNCHANGED <<nextId, resets>>
    BY <1>4 DEF Remove
  <2>3. /\ \A i \in Ids : bank'[i] \in {0, bank[i]}
        /\ \A i \in Ids : i >= nextId' => bank'[i] = 0
    BY <1>1, <2>1, <2>2
  <2>4. \A i, j \in Ids : bank'[i] # 0 /\ bank'[i] = bank'[j] => i = j
    BY <1>1, <2>1
  <2> QED  BY <1>0, <2>2, <2>3, <2>4
<1>5. CASE ClearBank(n)
  <2>1. (\A i \in Ids : bank'[i] = 0) /\ UNCHANGED <<nextId, resets>>
    BY <1>5 DEF ClearBank
  <2> QED  BY <1>0, <2>1
<1>6. CASE RestartIds(n)
  <2>1. /\ UNCHANGED bank /\ resets' = resets + 1 /\ nextId' \in Nat
        /\ \A i \in Ids : bank[i] # 0 => i < nextId'
    BY <1>6 DEF RestartIds
  <2> QED  BY <1>0, <1>1, <2>1
<1>7. CASE Register(n) \/ Read(n) \/ Restore(n) \/ Refuse(n) \/ Lose(n)
  BY <1>2, <1>7 DEF Register, Read, Restore, Refuse, Lose, backend
<1> QED  BY <1>3, <1>4, <1>5, <1>6, <1>7 DEF Serve, Create, LoadSeed

LEMMA SameKept ==
  ASSUME Types, BankOK, NEW n \in Slots, Serve(n) \/ Lose(n), resets' = resets,
         NEW i \in Ids, NEW p, SameOrGone(i, p)
  PROVE  SameOrGone(i, p)'
<1>1. nextId' >= nextId /\ (i < nextId => bank'[i] \in {0, bank[i]})
  BY ServeBank
<1>2. nextId \in Nat /\ nextId' \in Nat /\ i \in Nat
  <2>1. nextId' \in Nat
    BY Constants
    DEF Serve, Lose, Register, Create, Read, Remove, Restore, Refuse, ClearBank, RestartIds,
        LoadSeed, NewRow, backend, Types
  <2> QED  BY <2>1 DEF Types, Ids
<1> QED  BY <1>1, <1>2 DEF SameOrGone

LEMMA SeenKept ==
  ASSUME Types, BankOK, NEW n \in Slots, Serve(n) \/ Lose(n), NEW s, Seen(s)
  PROVE  Seen(s)'
<1>1. /\ born \in Nat /\ born' \in Nat /\ born' >= born
      /\ resets \in Nat /\ resets' \in {resets, resets + 1}
  BY ServeGrows, ServeBank DEF Types
<1>2. /\ \A i \in Ids : s.bank[i] \in 0 .. born
      /\ s.resets \in 0 .. resets
      /\ s.resets = resets => \A i \in Ids : SameOrGone(i, s.bank[i])
  BY DEF Seen
<1>3. (\A i \in Ids : s.bank[i] \in 0 .. born') /\ s.resets \in 0 .. resets'
  BY <1>1, <1>2
<1>4. ASSUME s.resets = resets', NEW i \in Ids PROVE SameOrGone(i, s.bank[i])'
  <2>1. resets' = resets
    BY <1>1, <1>2, <1>4
  <2> QED  BY <1>2, <1>4, <2>1, SameKept
<1> QED  BY <1>3, <1>4 DEF Seen

LEMMA LostKept ==
  ASSUME Types, BankOK, NEW n \in Slots, Serve(n) \/ Lose(n), NEW p, Lost(p)
  PROVE  Lost(p)'
<1>1. born \in Nat /\ born' \in Nat /\ born' >= born
  BY ServeGrows DEF Types
<1>2. p \in 1 .. born /\ \A i \in Ids : bank[i] # p
  BY DEF Lost
<1>3. \A i \in Ids : bank'[i] \in {0, bank[i]} \/ bank'[i] > born
  BY ServeBank
<1> QED  BY <1>1, <1>2, <1>3 DEF Lost

LEMMA ServeBankOK ==
  ASSUME Types, BankOK, NEW n \in Slots, Serve(n) \/ Lose(n)
  PROVE  BankOK'
<1>1. PICK a \in {"none", "ok", "taken", "refused", "denied"}, at \in Snapshots \cup {None} :
        Serves(n, a, at) /\ at \in {None, Now, flight[n].at}
  BY Services
<1>2. UNCHANGED <<shown, gone>>
  BY ServeKeeps
<1>3. ASSUME NEW t \in Tabs, shown'[t] # None PROVE Seen(shown[t])'
  <2>1. PICK s : s = shown[t]
    OBVIOUS
  <2>2. Seen(s)
    BY <1>2, <1>3, <2>1 DEF BankOK
  <2>3. Seen(s)'
    BY <2>2, SeenKept
  <2> QED  BY <1>2, <2>1, <2>3
<1>4. ASSUME NEW m \in Slots, flight'[m] # None, flight'[m].at # None PROVE Seen(flight[m].at)'
  <2>1. PICK s : s = flight'[m].at
    OBVIOUS
  <2>2. Seen(s)
    <3>1. CASE m = n
      <4>1. flight'[n].at = at
        BY <1>1, ServedRequest
      <4> QED  BY <1>1, <1>4, <2>1, <3>1, <4>1, SeenNow, Services DEF BankOK
    <3>2. CASE m # n
      BY <1>1, <1>4, <2>1, <3>2 DEF Serves, BankOK
    <3> QED  BY <3>1, <3>2
  <2>3. Seen(s)'
    BY <2>2, SeenKept
  <2> QED  BY <2>1, <2>3
<1>5. ASSUME NEW t \in Tabs, NEW p \in gone'[t] PROVE Lost(p)'
  BY <1>2, <1>5, LostKept DEF BankOK
<1> QED  BY <1>3, <1>4, <1>5, ServeBank DEF BankOK

(* The pages change nothing in the bank.                                    *)
LEMMA SeenStays ==
  ASSUME UNCHANGED backend, NEW s, Seen(s)
  PROVE  Seen(s)'
BY DEF Seen, SameOrGone, backend

LEMMA UserKeeps ==
  ASSUME NEW t \in Tabs, UserStep(t)
  PROVE  UNCHANGED <<kind, backend, gone, misled>>
BY DEF UserStep, Start, Type, Submit, SubmitCode, Select, Delete, Reset, history

(* What a page shows, it keeps showing, or nothing.                         *)
LEMMA UserShows ==
  ASSUME Types, NEW t \in Tabs, UserStep(t), NEW u \in Tabs, shown'[u] # None
  PROVE  /\ shown[u] # None
         /\ shown'[u].asked = shown[u].asked /\ shown'[u].bank = shown[u].bank
         /\ shown'[u].resets = shown[u].resets
<1>1. CASE UNCHANGED shown
  BY <1>1
<1>2. ASSUME NEW v \in Values \cup {0}, Select(t, v)
      PROVE  shown[u] # None /\ shown'[u] = shown[u]
  BY <1>2 DEF Select, Types
<1>3. ASSUME NEW i \in Ids, Delete(t, i)
      PROVE  /\ shown[u] # None
             /\ shown'[u].asked = shown[u].asked /\ shown'[u].bank = shown[u].bank
             /\ shown'[u].resets = shown[u].resets
  <2>1. shown' = [shown EXCEPT ![t] = [shown[t] EXCEPT !.busy = @ \cup {i}]] /\ shown[t] \in Views
    BY <1>3 DEF Delete, Types
  <2>2. CASE u # t
    BY <2>1, <2>2 DEF Types
  <2>3. CASE u = t
    BY <1>3, <2>1, <2>3 DEF Delete, Types, Views
  <2> QED  BY <2>2, <2>3
<1>4. \/ UNCHANGED shown \/ \E v \in Values \cup {0} : Select(t, v) \/ \E i \in Ids : Delete(t, i)
  BY DEF UserStep, Start, Type, Submit, SubmitCode, Reset, page
<1> QED  BY <1>1, <1>2, <1>3, <1>4

(* A request under way after a click is that click, or was there.           *)
LEMMA UserFlight ==
  ASSUME Types, SlotsOK, PagesOK, NEW t \in Tabs, UserStep(t), NEW m \in Slots, flight'[m] # None
  PROVE  \/ flight'[m] = flight[m]
         \/ \E op, arg : /\ flight[m] = None /\ Clicked(t, op, arg) /\ ClickIs(t, op, arg)
                         /\ Fresh(flight'[m], t, op, arg)
<1>1. CASE UNCHANGED flight
  BY <1>1
<1>2. ASSUME NEW op, NEW arg, Clicked(t, op, arg)
      PROVE  \/ flight'[m] = flight[m]
             \/ flight[m] = None /\ Fresh(flight'[m], t, op, arg)
  BY <1>2, ClickedSlot
<1> QED  BY <1>1, <1>2, UserClicks

LEMMA UserBankOK ==
  ASSUME Types, SlotsOK, PagesOK, BankOK, NEW t \in Tabs, UserStep(t)
  PROVE  BankOK'
<1>1. UNCHANGED <<backend, gone>>
  BY UserKeeps
<1>2. ASSUME NEW u \in Tabs, shown'[u] # None PROVE Seen(shown[u])'
  <2>1. PICK s : s = shown[u]
    OBVIOUS
  <2>2. Seen(s)
    BY <1>2, <2>1, UserShows DEF BankOK
  <2>3. Seen(s)'
    BY <1>1, <2>2, SeenStays
  <2> QED  BY <1>2, <2>1, <2>3, UserShows DEF Seen
<1>3. ASSUME NEW m \in Slots, flight'[m] # None, flight'[m].at # None PROVE Seen(flight[m].at)'
  <2>1. flight'[m] = flight[m]
    BY <1>3, UserFlight DEF Fresh
  <2>2. PICK s : s = flight[m].at
    OBVIOUS
  <2>3. Seen(s)
    BY <1>3, <2>1, <2>2 DEF BankOK
  <2>4. Seen(s)'
    BY <1>1, <2>3, SeenStays
  <2> QED  BY <2>1, <2>2, <2>4
<1>4. ASSUME NEW u \in Tabs, NEW p \in gone'[u] PROVE Lost(p)'
  BY <1>1, <1>4 DEF BankOK, Lost, backend
<1> QED  BY <1>1, <1>2, <1>3, <1>4 DEF BankOK, backend

LEMMA ReceiveBankOK ==
  ASSUME Types, PagesOK, BankOK, AimsOK, NEW n \in Slots, Receive(n)
  PROVE  BankOK'
<1>0. UNCHANGED backend
  BY ReceiveKeeps
<1>1. PICK t \in Tabs : t = flight[n].tab /\ flight[n] # None /\ FitsPage(flight[n])
  BY Receipts DEF PagesOK
<1>2. ASSUME NEW u \in Tabs, shown'[u] # None PROVE Seen(shown[u])'
  <2>1. \E s : /\ Seen(s)
               /\ shown'[u].bank = s.bank /\ shown'[u].resets = s.resets
    <3>1. CASE u # t
      BY <1>1, <1>2, <3>1, ReceiveOthers DEF BankOK
    <3>2. CASE u = t /\ LoadAnswered(n) /\ shown' # shown
      <4>1. Ok(n) /\ flight[n].op \in {"load", "reload"}
        BY <1>1, <1>2, <3>2 DEF LoadAnswered, Answered, Leave, page, Types
      <4>2. flight[n].at # None
        BY <1>1, <4>1, Constants DEF AimsOK, Ok
      <4>3. /\ shown'[t].bank = flight[n].at.bank /\ shown'[t].resets = flight[n].at.resets
        BY <1>1, <3>2, <4>1 DEF LoadAnswered, Leave, page, Types
      <4> QED  BY <1>1, <3>2, <4>2, <4>3 DEF BankOK
    <3>3. CASE u = t /\ ~(LoadAnswered(n) /\ shown' # shown)
      <4>1. shown[t] # None /\ shown'[t].bank = shown[t].bank /\ shown'[t].resets = shown[t].resets
        <5>1. CASE UNCHANGED shown
          BY <1>2, <3>3, <5>1
        <5>2. CASE DeleteAnswered(n) \/ ResetAnswered(n)
          <6>1. CASE Ok(n)
            BY <1>1, <1>2, <3>3, <5>2, <6>1
            DEF DeleteAnswered, ResetAnswered, LoadProblems, Types
          <6>2. CASE ~Ok(n) /\ DeleteAnswered(n) /\ flight[n].row
            <7>1. flight[n].op = "delete"
              BY <6>2 DEF DeleteAnswered, Answered
            <7>2. shown[t] \in Views
              BY <1>1, <6>2, <7>1 DEF FitsPage
            <7>3. shown' = [shown EXCEPT ![t] = [shown[t] EXCEPT !.busy = @ \ {flight[n].arg}]]
              BY <1>1, <6>2 DEF DeleteAnswered
            <7>4. shown'[t] = [shown[t] EXCEPT !.busy = @ \ {flight[n].arg}]
              BY <7>3 DEF Types
            <7>5. shown[t] # None
              BY <7>2, NoView
            <7> QED  BY <7>2, <7>4, <7>5 DEF Views
          <6>3. CASE ~Ok(n) /\ ~(DeleteAnswered(n) /\ flight[n].row)
            BY <5>1, <5>2, <6>3 DEF DeleteAnswered, ResetAnswered
          <6> QED  BY <6>1, <6>2, <6>3
        <5>3. CASE Drop(n) \/ FormAnswered(n) \/ CodeAnswered(n)
          BY <5>1, <5>3 DEF Drop, FormAnswered, CodeAnswered, Leave, page
        <5> QED  BY <3>3, <5>1, <5>2, <5>3 DEF Receive
      <4> QED  BY <3>3, <4>1 DEF BankOK
    <3> QED  BY <3>1, <3>2, <3>3
  <2>2. PICK s : /\ Seen(s)
                 /\ shown'[u].bank = s.bank /\ shown'[u].resets = s.resets
    BY <2>1
  <2>3. Seen(s)'
    BY <1>0, <2>2, SeenStays
  <2> QED  BY <2>2, <2>3 DEF Seen
<1>3. ASSUME NEW m \in Slots, flight'[m] # None, flight'[m].at # None PROVE Seen(flight[m].at)'
  <2>1. m # n
    BY <1>3, OwnSlot DEF Fresh
  <2>2. flight[m] # None /\ flight'[m].at = flight[m].at
    BY <1>3, <2>1, OthersLeft
  <2>3. PICK s : s = flight[m].at
    OBVIOUS
  <2>4. Seen(s)
    BY <1>3, <2>2, <2>3 DEF BankOK
  <2>5. Seen(s)'
    BY <1>0, <2>4, SeenStays
  <2> QED  BY <2>2, <2>3, <2>5
<1>4. ASSUME NEW u \in Tabs, NEW p \in gone'[u] PROVE Lost(p)'
  <2>1. Lost(p)
    <3>1. CASE p \in gone[u]
      BY <3>1 DEF BankOK
    <3>2. CASE p \notin gone[u]
      <4>1. /\ DeleteAnswered(n) /\ Ok(n)
            /\ gone' = [gone EXCEPT ![t] = @ \cup {flight[n].at.bank[flight[n].arg]}]
        BY <1>1, <1>4, <3>2
        DEF Receive, Drop, FormAnswered, CodeAnswered, LoadAnswered, DeleteAnswered,
            ResetAnswered, history, Types
      <4>2. p = flight[n].at.bank[flight[n].arg]
        BY <1>4, <3>2, <4>1 DEF Types
      <4>3. flight[n].op = "delete"
        BY <4>1 DEF DeleteAnswered, Answered
      <4> QED  BY <1>1, <4>1, <4>2, <4>3 DEF AimsOK, Aims, Ok
    <3> QED  BY <3>1, <3>2
  <2> QED  BY <1>0, <2>1 DEF Lost, backend
<1> QED  BY <1>0, <1>2, <1>3, <1>4 DEF BankOK, backend

-----------------------------------------------------------------------------
(* What a click on a problem hits.                                          *)

(* What the backend has found, when it does what a load or a click on a     *)
(* problem asks.                                                            *)
LEMMA OkFinds ==
  ASSUME Types, PagesOK, NEW n \in Slots, Serve(n) \/ Lose(n), flight'[n].answer = "ok",
         flight[n].op \in {"load", "reload", "submit", "delete"}
  PROVE  /\ flight'[n].at = Now
         /\ flight[n].op = "delete" => Remove(n) /\ bank[flight[n].arg] # 0
         /\ kind[flight[n].tab] = "problem" => bank[flight[n].arg] # 0 \/ flight[n].op = "delete"
         /\ UNCHANGED resets
<1>1. flight[n] # None
  BY Services
<1>2. /\ "refused" \in {"ok", "taken", "refused", "denied"} /\ Now \in Snapshots
      /\ flight[n].at \in Snapshots \cup {None}
  BY <1>1 DEF Types, Requests, Snapshots, Now, Banks
<1>3. ASSUME NEW a \in {"refused", "denied"}, Answer(n, a) PROVE FALSE
  <2>1. Serves(n, a, flight[n].at)
    BY <1>1, <1>3, AnswerServes
  <2>2. flight'[n].answer = a
    BY <1>2, <2>1, ServedRequest
  <2> QED  BY <2>2
<1>4. ASSUME AnswerAt(n, "ok") PROVE flight'[n].at = Now
  <2>1. Serves(n, "ok", Now)
    BY <1>1, <1>4, AnswerAtServes DEF Now
  <2> QED  BY <1>2, <2>1, ServedRequest
<1>5. CASE Read(n)
  <2>1. AnswerAt(n, "ok") /\ (kind[flight[n].tab] = "problem" => bank[flight[n].arg] # 0)
    BY <1>3, <1>5 DEF Read
  <2> QED  BY <1>4, <1>5, <2>1 DEF Read, Asked, backend
<1>6. CASE Remove(n)
  <2>1. AnswerAt(n, "ok") /\ bank[flight[n].arg] # 0
    BY <1>3, <1>6 DEF Remove
  <2> QED  BY <1>4, <1>6, <2>1 DEF Remove, Asked
<1>7. CASE Refuse(n)
  BY <1>3, <1>7 DEF Refuse
<1>8. CASE Lose(n)
  BY <1>1, <1>8 DEF Lose, Types, Requests
<1>9. ~Register(n) /\ ~Create(n) /\ ~Restore(n) /\ ~Reseeds(n)
  BY ReseedsIs DEF Register, Create, Restore, Asked
<1> QED  BY <1>5, <1>6, <1>7, <1>8, <1>9 DEF Serve, Reseeds

(* A click made, or another's, keeps its aim.                               *)
LEMMA AimsKept ==
  ASSUME Types, BankOK, NEW n \in Slots, Serve(n) \/ Lose(n),
         NEW f, Aims(f), f.op \in {"delete", "submit"}, f.arg \in Ids
  PROVE  Aims(f)'
<1>1. /\ resets \in Nat /\ resets' \in {resets, resets + 1}
  BY ServeBank DEF Types
<1>2. /\ f.meant \in [problem : Nat \ {0}, resets : 0 .. resets]
      /\ f.meant.resets = resets => SameOrGone(f.arg, f.meant.problem)
  BY DEF Aims
<1>3. f.meant \in [problem : Nat \ {0}, resets : 0 .. resets']
  BY <1>1, <1>2
<1>4. f.meant.resets = resets' => resets' = resets
  BY <1>1, <1>2
<1>5. f.meant.resets = resets' => SameOrGone(f.arg, f.meant.problem)'
  BY <1>2, <1>4, SameKept
<1>6. f.answer = "ok" /\ f.op = "delete" => Lost(f.at.bank[f.arg])'
  BY LostKept DEF Aims
<1> QED  BY <1>3, <1>5, <1>6 DEF Aims

(* What is served hits what it was aimed at.                                *)
LEMMA ServedAims ==
  ASSUME Types, PagesOK, BankOK, NEW n \in Slots, Serve(n) \/ Lose(n),
         flight[n].op \in {"delete", "submit"}, Aims(flight[n])
  PROVE  Aims(flight[n])'
<1>1. PICK a \in {"none", "ok", "taken", "refused", "denied"}, at \in Snapshots \cup {None} :
        Serves(n, a, at)
  BY Services
<1>2. /\ flight'[n].answer = a /\ flight'[n].at = at /\ flight'[n].op = flight[n].op
      /\ flight'[n].arg = flight[n].arg /\ flight'[n].meant = flight[n].meant
      /\ flight'[n].tab = flight[n].tab
  BY <1>1, ServedRequest
<1>3. /\ resets \in Nat /\ resets' \in {resets, resets + 1}
  BY ServeBank DEF Types
<1>4. PICK i, p, r : i = flight[n].arg /\ p = flight[n].meant.problem /\ r = flight[n].meant.resets
  OBVIOUS
<1>5. /\ flight[n].meant \in [problem : Nat \ {0}, resets : 0 .. resets]
      /\ p # 0 /\ r \in 0 .. resets
      /\ r = resets => SameOrGone(i, p)
  BY <1>4 DEF Aims
<1>6. i \in Ids
  <2>1. flight[n] # None /\ FitsPage(flight[n])
    BY Services DEF PagesOK
  <2>2. flight[n].tab \in Tabs
    BY Services DEF Requests
  <2> QED  BY <1>4, <2>1, <2>2 DEF FitsPage, Makes, Types, Kinds
<1>7. flight[n].meant \in [problem : Nat \ {0}, resets : 0 .. resets']
  BY <1>3, <1>5
<1>8. r = resets' => SameOrGone(i, p)'
  <2>1. r = resets' => resets' = resets
    BY <1>3, <1>5
  <2> QED  BY <1>5, <1>6, <2>1, SameKept
<1>9. ASSUME a = "ok"
      PROVE  /\ at \in Snapshots
             /\ at.bank[i] # 0
             /\ at.bank[i] = p \/ at.resets # r
             /\ flight[n].op = "delete" => Lost(at.bank[i])'
  <2>1. at = Now /\ UNCHANGED resets
    BY <1>2, <1>9, OkFinds
  <2>2. bank[i] # 0
    <3>1. CASE flight[n].op = "delete"
      BY <1>2, <1>4, <1>9, <3>1, OkFinds
    <3>2. CASE flight[n].op = "submit"
      <4>1. flight[n] # None /\ flight[n].tab \in Tabs
        BY Services DEF Requests
      <4>2. kind[flight[n].tab] = "problem"
        BY <3>2, <4>1 DEF PagesOK, FitsPage, Makes, Types, Kinds
      <4> QED  BY <1>2, <1>4, <1>9, <3>2, <4>2, OkFinds
    <3> QED  BY <3>1, <3>2
  <2>3. r = resets => bank[i] = p
    BY <1>5, <2>2 DEF SameOrGone
  <2>4. ASSUME flight[n].op = "delete" PROVE Lost(at.bank[i])'
    <3>1. PICK q : q = bank[i]
      OBVIOUS
    <3>2. Remove(n)
      BY <1>2, <1>9, <2>4, OkFinds
    <3>3. \A j \in Ids : bank'[j] # q
      BY <1>4, <1>6, <2>2, <3>1, <3>2 DEF Remove, BankOK, Types, Banks
    <3>4. q \in 1 .. born' /\ UNCHANGED born
      BY <1>6, <2>2, <3>1, <3>2 DEF Remove, Types, Banks
    <3>5. Lost(q)'
      BY <3>3, <3>4 DEF Lost
    <3>6. q = at.bank[i]
      BY <2>1, <3>1 DEF Now
    <3> QED  BY <3>5, <3>6
  <2>5. at \in Snapshots
    <3>1. bank \in [Ids -> Nat] /\ resets \in Nat
      BY DEF Types, Banks
    <3> QED  BY <2>1, <3>1 DEF Now, Snapshots
  <2> QED  BY <2>1, <2>2, <2>3, <2>4, <2>5 DEF Now
<1> QED  BY <1>2, <1>4, <1>7, <1>8, <1>9 DEF Aims

LEMMA ServeAimsOK ==
  ASSUME Types, PagesOK, BankOK, AimsOK, NEW n \in Slots, Serve(n) \/ Lose(n)
  PROVE  AimsOK'
<1>1. PICK a \in {"none", "ok", "taken", "refused", "denied"}, at \in Snapshots \cup {None} :
        Serves(n, a, at)
  BY Services
<1>2. /\ flight'[n].answer = a /\ flight'[n].at = at /\ flight'[n].op = flight[n].op
      /\ flight'[n].arg = flight[n].arg /\ flight'[n].tab = flight[n].tab
      /\ flight[n] # None
  BY <1>1, ServedRequest, Services
<1>3. UNCHANGED <<kind, shown>>
  BY ServeKeeps
<1>4. ASSUME flight[n].op \in {"delete", "submit"} PROVE Aims(flight[n])'
  BY <1>2, <1>4, ServedAims DEF AimsOK
<1>5. ASSUME flight[n].op \in {"load", "reload"}, a = "ok"
      PROVE  at \in Snapshots /\ (kind[flight[n].tab] = "problem" => at.bank[flight[n].arg] # 0)
  <2>1. at = Now /\ (kind[flight[n].tab] = "problem" => bank[flight[n].arg] # 0)
    BY <1>2, <1>5, OkFinds
  <2>2. bank \in [Ids -> Nat] /\ resets \in Nat
    BY DEF Types, Banks
  <2> QED  BY <2>1, <2>2 DEF Now, Snapshots
<1>6. ASSUME NEW m \in Slots \ {n}, flight'[m] # None, flight[m].op \in {"delete", "submit"}
      PROVE  Aims(flight[m])'
  <2>1. PICK f : f = flight[m]
    OBVIOUS
  <2>2. flight'[m] = f /\ f # None
    BY <1>1, <1>6, <2>1 DEF Serves
  <2>3. Aims(f) /\ f.op \in {"delete", "submit"}
    BY <1>6, <2>1, <2>2 DEF AimsOK
  <2>4. f.arg \in Ids
    <3>1. FitsPage(flight[m]) /\ flight[m].tab \in Tabs
      BY <2>1, <2>2 DEF PagesOK, Types, Requests
    <3> QED  BY <1>6, <2>1, <3>1 DEF FitsPage, Makes, Types, Kinds
  <2>5. Aims(f)'
    BY <2>3, <2>4, AimsKept
  <2> QED  BY <2>2, <2>5
<1>7. ASSUME NEW m \in Slots, flight'[m] # None
      PROVE  /\ flight'[m].op \in {"delete", "submit"} => Aims(flight[m])'
             /\ flight'[m].op \in {"load", "reload"} /\ flight'[m].answer = "ok" =>
                  /\ flight'[m].at \in Snapshots
                  /\ kind'[flight'[m].tab] = "problem" => flight'[m].at.bank[flight'[m].arg] # 0
  <2>1. CASE m = n
    BY <1>2, <1>3, <1>4, <1>5, <2>1
  <2>2. CASE m # n
    <3>1. flight'[m] = flight[m] /\ flight[m] # None
      BY <1>1, <1>7, <2>2 DEF Serves
    <3> QED  BY <1>3, <1>6, <1>7, <2>2, <3>1 DEF AimsOK
  <2> QED  BY <2>1, <2>2
<1> QED  BY <1>3, <1>7 DEF AimsOK

(* The pages change no aim.                                                 *)
LEMMA AimsStays ==
  ASSUME UNCHANGED backend, NEW f, NEW g, Aims(f), g.op = f.op, g.arg = f.arg,
         g.meant = f.meant, g.answer = f.answer, g.at = f.at
  PROVE  Aims(g)'
BY DEF Aims, Lost, SameOrGone, backend

(* A click is aimed at what is shown.                                       *)
LEMMA ClickAims ==
  ASSUME Types, PagesOK, BankOK, AimsOK, NEW t \in Tabs, UserStep(t),
         NEW op \in {"delete", "submit"}, NEW arg, Clicked(t, op, arg), ClickIs(t, op, arg),
         NEW f, Fresh(f, t, op, arg)
  PROVE  Aims(f)'
<1>0. shown[t] # None /\ shown[t].bank[arg] # 0
  <2>1. CASE SubmitCode(t) /\ arg = shown[t].asked
    BY <2>1 DEF SubmitCode, AimsOK
  <2>2. CASE Delete(t, arg)
    BY <2>2 DEF Delete
  <2> QED  BY <2>1, <2>2 DEF ClickIs, Submit, Forms
<1>1. Seen(shown[t]) /\ shown[t] \in Views /\ arg \in Ids
  BY <1>0 DEF BankOK, Types, Clicked
<1>2. f.meant = [problem |-> shown[t].bank[arg], resets |-> shown[t].resets]
  BY <1>0 DEF Fresh
<1>3. shown[t].bank[arg] \in Nat \ {0} /\ shown[t].resets \in 0 .. resets
  BY <1>0, <1>1 DEF Views, Banks
<1>4. f.meant.resets = resets => SameOrGone(arg, f.meant.problem)
  BY <1>1, <1>2 DEF Seen
<1>5. Aims(f)
  BY <1>2, <1>3, <1>4 DEF Aims, Fresh
<1> QED  BY <1>5, UserKeeps, AimsStays

LEMMA UserAimsOK ==
  ASSUME Types, SlotsOK, PagesOK, BankOK, AimsOK, NEW t \in Tabs, UserStep(t)
  PROVE  AimsOK'
<1>1. UNCHANGED <<kind, backend>>
  BY UserKeeps
<1>2. ASSUME NEW m \in Slots, flight'[m] # None
      PROVE  /\ flight'[m].op \in {"delete", "submit"} => Aims(flight[m])'
             /\ flight'[m].op \in {"load", "reload"} /\ flight'[m].answer = "ok" =>
                  /\ flight'[m].at \in Snapshots
                  /\ kind'[flight'[m].tab] = "problem" => flight'[m].at.bank[flight'[m].arg] # 0
  <2>0. PICK f : f = flight'[m]
    OBVIOUS
  <2>1. CASE flight'[m] = flight[m]
    <3>1. f.op \in {"delete", "submit"} => Aims(f)
      BY <1>2, <2>0, <2>1 DEF AimsOK
    <3>2. f.op \in {"delete", "submit"} => Aims(f)'
      BY <1>1, <3>1, AimsStays
    <3> QED  BY <1>1, <1>2, <2>0, <2>1, <3>2 DEF AimsOK
  <2>2. ASSUME NEW op, NEW arg, Clicked(t, op, arg), ClickIs(t, op, arg),
               Fresh(flight'[m], t, op, arg)
        PROVE  flight'[m].op \in {"delete", "submit"} => Aims(f)'
    <3>1. op = f.op /\ Fresh(f, t, op, arg)
      BY <2>0, <2>2 DEF Fresh
    <3> QED  BY <2>0, <2>2, <3>1, ClickAims
  <2> QED  BY <1>2, <2>0, <2>1, <2>2, UserFlight DEF Fresh
<1>3. ASSUME NEW u \in Tabs, kind'[u] = "problem", shown'[u] # None
      PROVE  shown'[u].bank[shown'[u].asked] # 0
  BY <1>1, <1>3, UserShows DEF AimsOK
<1> QED  BY <1>2, <1>3 DEF AimsOK

LEMMA ReceiveAimsOK ==
  ASSUME Types, PagesOK, BankOK, AimsOK, NEW n \in Slots, Receive(n)
  PROVE  AimsOK'
<1>1. UNCHANGED <<kind, backend>>
  BY ReceiveKeeps
<1>2. PICK t \in Tabs : t = flight[n].tab /\ flight[n] # None
  BY Receipts
<1>3. ASSUME NEW m \in Slots, flight'[m] # None
      PROVE  /\ flight'[m].op \in {"delete", "submit"} => Aims(flight[m])'
             /\ flight'[m].op \in {"load", "reload"} /\ flight'[m].answer = "ok" =>
                  /\ flight'[m].at \in Snapshots
                  /\ kind'[flight'[m].tab] = "problem" => flight'[m].at.bank[flight'[m].arg] # 0
  <2>1. CASE m = n
    <3>1. PICK op \in {"load", "reload"} : Fresh(flight'[n], t, op, 0)
      BY <1>2, <1>3, <2>1, OwnSlot
    <3> QED  BY <2>1, <3>1 DEF Fresh
  <2>2. CASE m # n
    <3>1. /\ flight[m] # None
          /\ flight'[m].tab = flight[m].tab /\ flight'[m].op = flight[m].op
          /\ flight'[m].arg = flight[m].arg /\ flight'[m].answer = flight[m].answer
          /\ flight'[m].at = flight[m].at /\ flight'[m].meant = flight[m].meant
      BY <1>3, <2>2, OthersLeft
    <3>2. PICK f, g : f = flight[m] /\ g = flight'[m]
      OBVIOUS
    <3>3. f.op \in {"delete", "submit"} => Aims(f)
      BY <3>1, <3>2 DEF AimsOK
    <3>4. f.op \in {"delete", "submit"} => Aims(g)'
      BY <1>1, <3>1, <3>2, <3>3, AimsStays
    <3> QED  BY <1>1, <3>1, <3>2, <3>4 DEF AimsOK
  <2> QED  BY <2>1, <2>2
<1>4. ASSUME NEW u \in Tabs, kind'[u] = "problem", shown'[u] # None
      PROVE  shown'[u].bank[shown'[u].asked] # 0
  <2>1. CASE u = t /\ LoadAnswered(n) /\ shown'[u] # shown[u]
    BY <1>1, <1>2, <1>4, <2>1 DEF LoadAnswered, Answered, Leave, page, Ok, AimsOK, Types
  <2>2. CASE shown'[u] = shown[u]
    BY <1>1, <1>4, <2>2 DEF AimsOK
  <2>3. CASE u # t
    BY <1>2, <2>2, <2>3, ReceiveOthers
  <2>4. CASE u = t /\ ~LoadAnswered(n)
    <3>1. FitsPage(flight[n]) /\ kind[t] = "problem"
      BY <1>1, <1>2, <1>4, <2>4 DEF PagesOK
    <3>2. flight[n].op \notin {"delete", "reset"}
      BY <1>2, <3>1 DEF FitsPage, Makes
    <3>3. UNCHANGED shown
      BY <2>4, <3>2
      DEF Receive, Drop, FormAnswered, CodeAnswered, DeleteAnswered, ResetAnswered, Answered,
          Leave, page
    <3> QED  BY <2>2, <3>3
  <2> QED  BY <2>1, <2>2, <2>3, <2>4
<1> QED  BY <1>3, <1>4 DEF AimsOK

-----------------------------------------------------------------------------
(* What is shown is what was asked for. *)

(* A tab in which nothing is clicked. *)
LEMMA OthersShow ==
  ASSUME NEW u \in Tabs, ShownFor(u), UNCHANGED kind,
         state'[u] = state[u], form'[u] = form[u], shown'[u] = shown[u], gone'[u] = gone[u],
         \A m \in Slots : flight'[m] # None /\ flight'[m].tab = u =>
           /\ flight[m] # None /\ flight[m].tab = u /\ flight'[m].op = flight[m].op
           /\ flight'[m].arg = flight[m].arg /\ flight'[m].answer = flight[m].answer
           /\ flight'[m].at = flight[m].at
  PROVE  ShownFor(u)'
BY DEF ShownFor, UnderWay, Loads

LEMMA UserShownOK ==
  ASSUME Types, SlotsOK, PagesOK, ShownOK, NEW t \in Tabs, UserStep(t)
  PROVE  ShownOK'
<1>0. UNCHANGED <<kind, backend, gone>> /\ crossed \subseteq crossed'
  BY UserKeeps DEF UserStep, Start, Type, Submit, SubmitCode, Select, Delete, Reset, history
<1>1. ASSUME NEW u \in Tabs \ crossed', u # t PROVE ShownFor(u)'
  <2>1. /\ state'[u] = state[u] /\ form'[u] = form[u] /\ shown'[u] = shown[u]
    BY <1>1
    DEF UserStep, Start, Type, Submit, SubmitCode, Select, Delete, Reset, page, Types
  <2>2. \A m \in Slots : flight'[m] # None /\ flight'[m].tab = u => flight'[m] = flight[m]
    BY <1>1, UserFlight DEF Fresh
  <2>3. ShownFor(u)
    BY <1>0, <1>1 DEF ShownOK
  <2> QED  BY <1>0, <2>1, <2>2, <2>3, OthersShow
<1>2. ASSUME t \notin crossed' PROVE ShownFor(t)'
  <2>0. ShownFor(t)
    BY <1>0, <1>2 DEF ShownOK
  <2>1. ASSUME kind[t] = "list"
        PROVE  /\ state'[t] = "opening" => form'[t] = 0
               /\ shown'[t] # None => shown'[t].asked = form'[t]
               /\ \A m \in Slots : flight'[m] # None /\ flight'[m].tab = t =>
                    flight'[m].arg = form'[t]
    <3>1. CASE Start(t)
      <4>1. /\ state'[t] = "open" /\ UNCHANGED <<form, shown>> /\ form[t] = 0
        BY <2>0, <2>1, <3>1 DEF Start, page, Types, ShownFor
      <4>2. ASSUME NEW m \in Slots, flight'[m] # None, flight'[m].tab = t
            PROVE  flight'[m].arg = form'[t]
        <5>1. CASE flight'[m] = flight[m]
          BY <2>0, <2>1, <4>1, <4>2, <5>1 DEF ShownFor, UnderWay
        <5>2. ASSUME NEW op, NEW arg, ClickIs(t, op, arg), Fresh(flight'[m], t, op, arg)
              PROVE  flight'[m].arg = 0
          BY <2>1, <3>1, <5>2
          DEF ClickIs, Fresh, Start, Select, Submit, SubmitCode, Delete, Reset, Open
        <5> QED  BY <4>1, <4>2, <5>1, <5>2, UserFlight
      <4> QED  BY <2>0, <2>1, <4>1, <4>2 DEF ShownFor
    <3>2. ASSUME NEW v \in Values \cup {0}, Select(t, v)
          PROVE  /\ state'[t] = "opening" => form'[t] = 0
                 /\ shown'[t] # None => shown'[t].asked = form'[t]
                 /\ \A m \in Slots : flight'[m] # None /\ flight'[m].tab = t =>
                      flight'[m].arg = form'[t]
      <4>1. /\ state'[t] # "opening" /\ form'[t] = v /\ shown'[t] = None
        BY <3>2 DEF Select, Open, Types
      <4>2. ASSUME NEW m \in Slots, flight[m] # None, flight[m].tab = t PROVE FALSE
        <5>1. Loads(t) = {}
          BY <1>2, <3>2 DEF Select
        <5>2. flight[m].op = "load"
          BY <2>1, <4>2 DEF PagesOK, FitsPage, Makes
        <5> QED  BY <4>2, <5>1, <5>2 DEF Loads, UnderWay
      <4>3. ASSUME NEW m \in Slots, flight'[m] # None, flight'[m].tab = t
            PROVE  flight'[m].arg = v
        <5>1. PICK n \in Slots : /\ flight[n] = None
                                 /\ Fresh(flight'[n], t, "load", v)
                                 /\ \A k \in Slots \ {n} : flight'[k] = flight[k]
          <6>1. Clicked(t, "load", v)
            <7>1. Asks(t, "load", v) /\ v \in Nat
              BY <3>2, Clicks, Constants
            <7> QED  BY <7>1 DEF Clicked, Ops
          <6> QED  BY <6>1, ClickedSlot
        <5> QED  BY <4>2, <4>3, <5>1 DEF Fresh
      <4> QED  BY <4>1, <4>3
    <3>3. CASE \/ \E v \in Values \cup {0} : Type(t, v)
               \/ Submit(t) \/ SubmitCode(t) \/ (\E i \in Ids : Delete(t, i)) \/ Reset(t)
      BY <2>1, <3>3 DEF Type, Submit, SubmitCode, Delete, Reset, Forms
    <3> QED  BY <3>1, <3>2, <3>3 DEF UserStep
  <2>2. ASSUME kind[t] = "admin"
        PROVE  /\ shown'[t] # None => \A i \in Ids : shown'[t].bank[i] \notin gone'[t]
               /\ \A m \in Slots :
                    flight'[m] # None /\ flight'[m].tab = t /\ flight'[m].op \in {"load", "reload"}
                    /\ flight'[m].answer = "ok" =>
                      \A i \in Ids : flight'[m].at.bank[i] \notin gone'[t]
    <3>1. shown'[t] # None => \A i \in Ids : shown'[t].bank[i] \notin gone'[t]
      BY <1>0, <2>0, <2>2, UserShows DEF ShownFor
    <3>2. \A m \in Slots : flight'[m] # None /\ flight'[m].answer = "ok" => flight'[m] = flight[m]
      BY UserFlight DEF Fresh
    <3> QED  BY <1>0, <2>0, <2>2, <3>1, <3>2 DEF ShownFor, Loads, UnderWay
  <2> QED  BY <1>0, <2>1, <2>2 DEF ShownFor, Loads, UnderWay
<1> QED  BY <1>1, <1>2 DEF ShownOK

LEMMA ServeShownOK ==
  ASSUME Types, PagesOK, BankOK, ShownOK, NEW n \in Slots, Serve(n) \/ Lose(n)
  PROVE  ShownOK'
<1>1. PICK a \in {"none", "ok", "taken", "refused", "denied"}, at \in Snapshots \cup {None} :
        Serves(n, a, at)
  BY Services
<1>2. /\ flight'[n].answer = a /\ flight'[n].at = at /\ flight'[n].op = flight[n].op
      /\ flight'[n].arg = flight[n].arg /\ flight'[n].tab = flight[n].tab
      /\ flight[n] # None
  BY <1>1, ServedRequest, Services
<1>3. UNCHANGED <<kind, state, form, shown, gone, crossed>>
  BY ServeKeeps
<1>4. \A m \in Slots \ {n} : flight'[m] = flight[m]
  BY <1>1 DEF Serves
<1>5. ASSUME NEW u \in Tabs \ crossed PROVE ShownFor(u)'
  <2>1. ShownFor(u)
    BY <1>5 DEF ShownOK
  <2>2. ASSUME NEW m \in Slots, flight'[m] # None, flight'[m].tab = u,
               flight'[m].op \in {"load", "reload"}, flight'[m].answer = "ok", kind[u] = "admin",
               NEW i \in Ids
        PROVE  flight'[m].at.bank[i] \notin gone[u]
    <3>1. CASE m = n
      <4>1. at.bank[i] = bank[i]
        BY <1>2, <2>2, <3>1, OkFinds DEF Now
      <4>2. bank[i] \notin gone[u]
        BY DEF BankOK, Lost
      <4> QED  BY <1>2, <3>1, <4>1, <4>2
    <3>2. CASE m # n
      BY <1>4, <2>1, <2>2, <3>2 DEF ShownFor, Loads, UnderWay
    <3> QED  BY <3>1, <3>2
  <2>3. \A m \in Slots : flight'[m] # None /\ flight'[m].tab = u =>
          flight[m] # None /\ flight[m].tab = u /\ flight'[m].arg = flight[m].arg
    BY <1>2, <1>4
  <2> QED  BY <1>3, <2>1, <2>2, <2>3 DEF ShownFor, Loads, UnderWay
<1> QED  BY <1>3, <1>5 DEF ShownOK

LEMMA ReceiveShownOK ==
  ASSUME Types, PagesOK, ShownOK, NEW n \in Slots, Receive(n)
  PROVE  ShownOK'
<1>0. UNCHANGED <<kind, form>> /\ crossed \subseteq crossed'
  BY ReceiveKeeps
  DEF Receive, Drop, FormAnswered, CodeAnswered, LoadAnswered, DeleteAnswered, ResetAnswered,
      LoadProblems, history
<1>1. PICK t \in Tabs : t = flight[n].tab /\ flight[n] # None /\ FitsPage(flight[n])
  BY Receipts DEF PagesOK
<1>2. \A m \in Slots \ {n} : flight'[m] # None =>
        /\ flight[m] # None
        /\ flight'[m].tab = flight[m].tab /\ flight'[m].op = flight[m].op
        /\ flight'[m].arg = flight[m].arg /\ flight'[m].answer = flight[m].answer
        /\ flight'[m].at = flight[m].at
  BY OthersLeft
<1>3. flight'[n] # None => /\ DeleteAnswered(n) \/ (ResetAnswered(n) /\ Ok(n))
                           /\ flight'[n].tab = t /\ flight'[n].answer = "none"
  BY <1>1, OwnSlot DEF Fresh
<1>4. ASSUME NEW u \in Tabs \ crossed', u # t PROVE ShownFor(u)'
  <2>1. ShownFor(u)
    BY <1>0, <1>4 DEF ShownOK
  <2> QED  BY <1>0, <1>1, <1>2, <1>3, <1>4, <2>1, ReceiveOthers, OthersShow
<1>5. ASSUME t \notin crossed' PROVE ShownFor(t)'
  <2>0. ShownFor(t)
    BY <1>0, <1>5 DEF ShownOK
  <2>1. ASSUME kind[t] = "list"
        PROVE  /\ state'[t] = "opening" => form'[t] = 0
               /\ shown'[t] # None => shown'[t].asked = form'[t]
               /\ \A m \in Slots : flight'[m] # None /\ flight'[m].tab = t =>
                    flight'[m].arg = form'[t]
    <3>1. flight[n].op = "load" /\ flight[n].arg = form[t]
      BY <1>1, <2>0, <2>1 DEF FitsPage, Makes, ShownFor, UnderWay
    <3>2. Drop(n) \/ LoadAnswered(n)
      BY <3>1
      DEF Receive, FormAnswered, CodeAnswered, DeleteAnswered, ResetAnswered, Answered, Forms
    <3>3. flight'[n] = None
      BY <1>3, <3>1 DEF DeleteAnswered, ResetAnswered, Answered
    <3>4. state'[t] = "opening" => state[t] = "opening"
      BY <1>1, <2>1, <3>2 DEF Drop, LoadAnswered
    <3>5. shown'[t] # None => shown'[t].asked = form[t]
      BY <1>1, <2>0, <2>1, <3>1, <3>2 DEF Drop, LoadAnswered, ShownFor, page, Types
    <3>6. \A m \in Slots : flight'[m] # None /\ flight'[m].tab = t => flight'[m].arg = form[t]
      BY <1>2, <2>0, <2>1, <3>3 DEF ShownFor, UnderWay
    <3> QED  BY <1>0, <2>0, <2>1, <3>4, <3>5, <3>6 DEF ShownFor
  <2>2. ASSUME kind[t] = "admin"
        PROVE  /\ shown'[t] # None => \A i \in Ids : shown'[t].bank[i] \notin gone'[t]
               /\ \A m \in Slots :
                    flight'[m] # None /\ flight'[m].tab = t /\ flight'[m].op \in {"load", "reload"}
                    /\ flight'[m].answer = "ok" =>
                      \A i \in Ids : flight'[m].at.bank[i] \notin gone'[t]
    <3>1. CASE DeleteAnswered(n) /\ Ok(n)
      <4>1. shown'[t] = None /\ Loads(t) = {}
        BY <1>1, <1>5, <3>1 DEF DeleteAnswered, LoadProblems, Types
      <4> QED  BY <1>2, <1>3, <4>1 DEF Loads, UnderWay
    <3>2. CASE ~(DeleteAnswered(n) /\ Ok(n))
      <4>1. UNCHANGED gone
        BY <3>2
        DEF Receive, Drop, FormAnswered, CodeAnswered, LoadAnswered, DeleteAnswered,
            ResetAnswered, history
      <4>2. shown'[t] # None => \A i \in Ids : shown'[t].bank[i] \notin gone[t]
        <5>1. CASE LoadAnswered(n)
          <6>1. Ok(n) => \A i \in Ids : flight[n].at.bank[i] \notin gone[t]
            BY <1>1, <2>0, <2>2, <5>1 DEF ShownFor, Loads, UnderWay, LoadAnswered, Answered, Ok
          <6> QED  BY <1>1, <2>0, <2>2, <5>1, <6>1 DEF LoadAnswered, Leave, page, ShownFor, Types
        <5>2. CASE DeleteAnswered(n)
          <6>1. CASE flight[n].row
            <7>1. flight[n].op = "delete"
              BY <5>2 DEF DeleteAnswered, Answered
            <7>2. shown[t] \in Views
              BY <1>1, <6>1, <7>1 DEF FitsPage
            <7>3. shown' = [shown EXCEPT ![t] = [shown[t] EXCEPT !.busy = @ \ {flight[n].arg}]]
              BY <1>1, <3>2, <5>2, <6>1 DEF DeleteAnswered
            <7>4. shown'[t] = [shown[t] EXCEPT !.busy = @ \ {flight[n].arg}]
              BY <7>3 DEF Types
            <7>5. shown'[t].bank = shown[t].bank /\ shown[t] # None
              BY <7>2, <7>4, NoView DEF Views
            <7> QED  BY <2>0, <2>2, <7>5 DEF ShownFor
          <6>2. CASE ~flight[n].row
            BY <2>0, <2>2, <3>2, <5>2, <6>2 DEF DeleteAnswered, ShownFor
          <6> QED  BY <6>1, <6>2
        <5>3. CASE ResetAnswered(n)
          BY <1>1, <2>0, <2>2, <5>3 DEF ResetAnswered, LoadProblems, ShownFor, Types
        <5>4. CASE Drop(n) \/ FormAnswered(n) \/ CodeAnswered(n)
          BY <2>0, <2>2, <5>4 DEF Drop, FormAnswered, CodeAnswered, Leave, page, ShownFor
        <5> QED  BY <5>1, <5>2, <5>3, <5>4 DEF Receive
      <4> QED  BY <1>2, <1>3, <2>0, <2>2, <4>1, <4>2 DEF ShownFor, Loads, UnderWay
    <3> QED  BY <3>1, <3>2
  <2> QED  BY <1>0, <2>1, <2>2 DEF ShownFor, Loads, UnderWay
<1> QED  BY <1>4, <1>5 DEF ShownOK

-----------------------------------------------------------------------------
(* One request at a time. *)

(* A tab of which nothing changes, but its answers. *)
LEMMA OthersOne ==
  ASSUME NEW u \in Tabs, OneFor(u), UNCHANGED kind,
         state'[u] = state[u], button'[u] = button[u], taken'[u] = taken[u], made'[u] = made[u],
         \A m \in Slots :
           IF flight[m] # None /\ flight[m].tab = u
           THEN /\ flight'[m] # None /\ flight'[m].tab = u
                /\ kind[u] \in Forms => flight'[m].answer = flight[m].answer
           ELSE ~(flight'[m] # None /\ flight'[m].tab = u)
  PROVE  OneFor(u)'
<1>1. UnderWay(u)' = UnderWay(u)
  BY DEF UnderWay
<1>2. kind[u] \in Forms => \A m \in UnderWay(u) : flight'[m].answer = flight[m].answer
  BY DEF UnderWay
<1> QED  BY <1>1, <1>2 DEF OneFor, Single

(* The clicks keep the other requests.                                      *)
LEMMA UserFlightKept ==
  ASSUME Types, SlotsOK, PagesOK, NEW t \in Tabs, UserStep(t), NEW m \in Slots, flight[m] # None
  PROVE  flight'[m] = flight[m]
<1>1. ASSUME NEW op, NEW arg, Clicked(t, op, arg) PROVE flight'[m] = flight[m]
  BY <1>1, ClickedSlot
<1> QED  BY <1>1, UserClicks

LEMMA UserOneOK ==
  ASSUME Types, SlotsOK, PagesOK, OneOK, NEW t \in Tabs, UserStep(t)
  PROVE  OneOK'
<1>0. UNCHANGED <<kind, backend, gone, misled>> /\ typed \subseteq typed'
  BY UserKeeps DEF UserStep, Start, Type, Submit, SubmitCode, Select, Delete, Reset, history
<1>1. UNCHANGED <<accounts, made>>
  BY <1>0 DEF backend
<1>2. ASSUME NEW u \in Tabs, kind'[u] \notin Forms PROVE taken'[u] = 0
  <2>1. taken[u] = 0
    BY <1>0, <1>2 DEF OneOK
  <2>2. taken'[u] \in {taken[u], 0}
    BY DEF UserStep, Start, Type, Submit, SubmitCode, Select, Delete, Reset, page, Types
  <2> QED  BY <2>1, <2>2
<1>3. ASSUME NEW u \in Tabs \ (typed' \cup misled'), u # t PROVE OneFor(u)'
  <2>1. state'[u] = state[u] /\ button'[u] = button[u] /\ taken'[u] = taken[u]
    BY <1>3 DEF UserStep, Start, Type, Submit, SubmitCode, Select, Delete, Reset, page, Types
  <2>2. OneFor(u)
    BY <1>0, <1>3 DEF OneOK
  <2>3. ASSUME NEW m \in Slots
        PROVE  IF flight[m] # None /\ flight[m].tab = u
               THEN /\ flight'[m] # None /\ flight'[m].tab = u
                    /\ kind[u] \in Forms => flight'[m].answer = flight[m].answer
               ELSE ~(flight'[m] # None /\ flight'[m].tab = u)
    <3>1. CASE flight[m] # None
      BY <3>1, UserFlightKept
    <3>2. CASE flight[m] = None
      <4>1. ASSUME flight'[m] # None PROVE flight'[m].tab = t
        BY <3>2, <4>1, UserFlight DEF Fresh
      <4> QED  BY <1>3, <3>2, <4>1
    <3> QED  BY <3>1, <3>2
  <2> QED  BY <1>0, <1>1, <2>1, <2>2, <2>3, OthersOne
<1>4. ASSUME t \notin typed' \cup misled' PROVE OneFor(t)'
  <2>0. OneFor(t)
    BY <1>0, <1>4 DEF OneOK
  <2>1. CASE kind[t] \notin Forms \cup {"problem"}
    BY <1>0, <2>1 DEF OneFor
  <2>2. ASSUME NEW v \in Values \cup {0}, Type(t, v) PROVE OneFor(t)'
    <3>1. UnderWay(t) = {} /\ UnderWay(t)' = {}
      BY <1>4, <2>2 DEF Type, UnderWay
    <3>2. /\ state'[t] = "open" /\ state[t] = "open" /\ kind[t] \in Forms /\ taken'[t] = 0
      BY <2>2 DEF Type, Open, Types
    <3>3. made[t] # 1 /\ made[t] <= 1
      BY <2>0, <3>1, <3>2 DEF OneFor
    <3> QED  BY <1>0, <1>1, <3>1, <3>2, <3>3 DEF OneFor, Single, Forms
  <2>3. ASSUME NEW op, NEW arg, Clicked(t, op, arg), UnderWay(t) = {}, ~button'[t],
               state'[t] = "open"
        PROVE  UnderWay(t)' # {} /\ Single(t)'
    <3>1. PICK n \in Slots : /\ flight[n] = None
                             /\ Fresh(flight'[n], t, op, arg)
                             /\ \A m \in Slots \ {n} : flight'[m] = flight[m]
      BY <2>3, ClickedSlot
    <3>2. n \in UnderWay(t)' /\ \A m \in UnderWay(t)' : m = n
      BY <2>3, <3>1 DEF UnderWay, Fresh
    <3> QED  BY <3>2 DEF Single
  <2>4. CASE Start(t) /\ kind[t] = "problem"
    <3>1. /\ state[t] = "opening" /\ state'[t] = "open" /\ UNCHANGED button
      BY <2>4 DEF Start, page, Types
    <3>2. UnderWay(t) = {} /\ ~button'[t]
      BY <2>0, <2>4, <3>1 DEF OneFor
    <3>3. PICK i : Clicked(t, "load", i)
      BY <2>4, Clicks DEF Clicked, Ops
    <3> QED  BY <1>0, <2>3, <2>4, <3>1, <3>2, <3>3 DEF OneFor, Forms
  <2>5. CASE Submit(t)
    <3>1. /\ state'[t] = "open" /\ state[t] = "open" /\ button[t] /\ ~button'[t]
          /\ kind[t] \in Forms /\ taken'[t] = 0
      BY <2>5 DEF Submit, Open, Types
    <3>2. UnderWay(t) = {} /\ made[t] # 1 /\ made[t] <= 1
      BY <2>0, <3>1 DEF OneFor
    <3>3. Clicked(t, kind[t], form[t])
      BY <2>5, <3>1, Clicks, Constants DEF Clicked, Forms
    <3> QED  BY <1>0, <1>1, <2>3, <3>1, <3>2, <3>3 DEF OneFor, Forms
  <2>6. CASE SubmitCode(t)
    <3>1. state'[t] = "open" /\ button[t] /\ ~button'[t] /\ kind[t] = "problem"
      BY <2>6 DEF SubmitCode, Open, Types
    <3>2. UnderWay(t) = {}
      BY <2>0, <3>1 DEF OneFor
    <3>3. Clicked(t, "submit", shown[t].asked)
      BY <2>6, Clicks DEF Clicked, Ops, Ids
    <3> QED  BY <1>0, <2>3, <3>1, <3>2, <3>3 DEF OneFor, Forms
  <2>7. kind[t] \in Forms \cup {"problem"} =>
          /\ ~Reset(t) /\ \A i \in Ids : ~Delete(t, i)
          /\ \A v \in Values \cup {0} : ~Select(t, v)
          /\ Start(t) => kind[t] = "problem"
    BY DEF Reset, Delete, Select, Start, Forms, PagesOK
  <2> QED  BY <2>1, <2>2, <2>4, <2>5, <2>6, <2>7 DEF UserStep
<1> QED  BY <1>0, <1>1, <1>2, <1>3, <1>4 DEF OneOK

LEMMA ServeOneOK ==
  ASSUME Types, PagesOK, OneOK, NEW n \in Slots, Serve(n) \/ Lose(n)
  PROVE  OneOK'
<1>1. PICK a \in {"none", "ok", "taken", "refused", "denied"}, at \in Snapshots \cup {None} :
        Serves(n, a, at)
  BY Services
<1>2. /\ flight'[n].answer = a /\ flight'[n].tab = flight[n].tab
      /\ flight[n] # None /\ flight'[n] # None
  BY <1>1, ServedRequest, Services
<1>3. UNCHANGED <<kind, state, button, taken, typed>> /\ misled \subseteq misled'
  BY ServeKeeps, ReseedsIs
  DEF Serve, Lose, Register, Create, Done, Read, Remove, Restore, Refuse, Reseeds, UserSteps,
      history
<1>4. \A m \in Slots \ {n} : flight'[m] = flight[m]
  BY <1>1 DEF Serves
<1>5. PICK t \in Tabs : t = flight[n].tab
  BY Services DEF Requests
<1>6. \/ UNCHANGED <<accounts, made>>
      \/ /\ Register(n) \/ Create(n)
         /\ a = "ok" \/ t \in misled'
         /\ made' = [made EXCEPT ![t] = @ + 1]
         /\ accounts' \in {accounts, [accounts EXCEPT ![flight[n].arg] = t]}
  <2>1. CASE Register(n) \/ Create(n)
    <3>1. ASSUME Answer(n, "ok") PROVE a = "ok"
      BY <1>2, <3>1 DEF Answer, Types, Requests
    <3> QED  BY <1>5, <2>1, <3>1 DEF Register, Create, Done
  <2>2. CASE Read(n) \/ Remove(n) \/ Restore(n) \/ Refuse(n) \/ Lose(n)
    BY <2>2 DEF Read, Remove, Restore, Refuse, Lose, backend
  <2>3. CASE Reseeds(n)
    BY <2>3, ReseedsIs
  <2> QED  BY <2>1, <2>2, <2>3 DEF Serve, Reseeds
<1>7. ASSUME NEW v \in Values, NEW u \in Tabs, accounts'[v] = u PROVE made'[u] > 0
  BY <1>6, <1>7 DEF OneOK, Types
<1>8. ASSUME NEW u \in Tabs \ (typed' \cup misled') PROVE OneFor(u)'
  <2>0. OneFor(u)
    BY <1>3, <1>8 DEF OneOK
  <2>1. UnderWay(u)' = UnderWay(u)
    BY <1>2, <1>4 DEF UnderWay
  <2>2. CASE u # t
    <3>1. made'[u] = made[u]
      BY <1>6, <2>2 DEF Types
    <3> QED  BY <1>2, <1>3, <1>4, <1>5, <2>0, <2>2, <3>1, OthersOne
  <2>3. CASE u = t
    <3>1. ASSUME kind[t] \in Forms PROVE n \in UnderWay(t) /\ flight[n].answer = "none"
      <4>1. flight[n].op \in Forms
        BY <1>2, <1>5, <3>1 DEF PagesOK, FitsPage, Makes, Forms
      <4>2. ~Lose(n)
        BY <1>5, <1>8, <2>3, <4>1 DEF Lose
      <4> QED
        BY <1>2, <1>5, <4>2, ReseedsIs
        DEF UnderWay, Serve, Register, Create, Read, Remove, Restore, Refuse, Reseeds, Asked
    <3>2. CASE kind[t] \in Forms
      <4>1. made[t] # 1 /\ made[t] <= 1 /\ taken[t] = 0 /\ Single(t)
        BY <2>0, <2>3, <3>1, <3>2 DEF OneFor
      <4>2. made'[t] <= 1 /\ (made'[t] = 1 => a = "ok")
        BY <1>6, <1>8, <2>3, <4>1 DEF Types
      <4>3. made'[t] = 1 => \A m \in UnderWay(t) : flight'[m].answer = "ok"
        BY <1>2, <3>1, <3>2, <4>1, <4>2 DEF Single
      <4> QED  BY <1>3, <2>0, <2>1, <2>3, <3>1, <3>2, <4>1, <4>2, <4>3 DEF OneFor, Single
    <3>3. CASE kind[t] \notin Forms
      BY <1>3, <2>0, <2>1, <2>3, <3>3 DEF OneFor, Single
    <3> QED  BY <3>2, <3>3
  <2> QED  BY <2>2, <2>3
<1>9. ASSUME NEW u \in Tabs, kind'[u] \notin Forms PROVE taken'[u] = 0
  BY <1>3, <1>9 DEF OneOK
<1> QED  BY <1>7, <1>8, <1>9 DEF OneOK

LEMMA ReceiveOneOK ==
  ASSUME Types, PagesOK, OneOK, NEW n \in Slots, Receive(n)
  PROVE  OneOK'
<1>0. UNCHANGED <<kind, backend, typed, misled>> /\ UNCHANGED <<accounts, made>>
  BY ReceiveKeeps DEF backend
<1>1. PICK t \in Tabs : t = flight[n].tab /\ flight[n] # None /\ FitsPage(flight[n])
  BY Receipts DEF PagesOK
<1>2. ASSUME NEW u \in Tabs, kind[u] \notin Forms PROVE taken'[u] = 0
  <2>1. taken[u] = 0
    BY <1>2 DEF OneOK
  <2>2. CASE u # t
    BY <1>1, <2>1, <2>2, ReceiveOthers
  <2>3. CASE u = t
    <3>1. flight[n].op \notin Forms
      BY <1>1, <1>2, <2>3 DEF FitsPage, Makes, Types, Kinds, Forms
    <3>2. UNCHANGED taken
      BY <3>1
      DEF Receive, Drop, FormAnswered, CodeAnswered, LoadAnswered, DeleteAnswered, ResetAnswered,
          Answered, Leave, page
    <3> QED  BY <2>1, <3>2
  <2> QED  BY <2>2, <2>3
<1>3. ASSUME NEW u \in Tabs \ (typed \cup misled), u # t PROVE OneFor(u)'
  <2>1. OneFor(u)
    BY <1>3 DEF OneOK
  <2>2. /\ state'[u] = state[u] /\ button'[u] = button[u] /\ taken'[u] = taken[u]
    BY <1>1, <1>3, ReceiveOthers
  <2>3. ASSUME NEW m \in Slots
        PROVE  IF flight[m] # None /\ flight[m].tab = u
               THEN /\ flight'[m] # None /\ flight'[m].tab = u
                    /\ kind[u] \in Forms => flight'[m].answer = flight[m].answer
               ELSE ~(flight'[m] # None /\ flight'[m].tab = u)
    <3>1. CASE m = n
      BY <1>1, <1>3, <3>1, OwnSlot DEF Fresh
    <3>2. CASE m # n
      <4>1. flight[m] # None /\ flight[m].tab = u => flight'[m] = flight[m]
        <5>1. CASE Takes(n)
          BY <3>2, <5>1 DEF Takes
        <5>2. CASE Unrows(n)
          BY <1>1, <1>3, <3>2, <5>2 DEF Unrows
        <5> QED  BY <5>1, <5>2, Receipts DEF Receive
      <4> QED  BY <3>2, <4>1, OthersLeft
    <3> QED  BY <3>1, <3>2
  <2> QED  BY <1>0, <2>1, <2>2, <2>3, OthersOne
<1>4. ASSUME t \notin typed \cup misled PROVE OneFor(t)'
  <2>0. OneFor(t) /\ n \in UnderWay(t)
    BY <1>1, <1>4 DEF OneOK, UnderWay
  <2>1. CASE kind[t] \in Forms \cup {"problem"}
    <3>1. flight'[n] = None
      <4>1. flight[n].op \notin {"delete", "reset"}
        BY <1>1, <2>1 DEF FitsPage, Makes, Forms
      <4> QED  BY <4>1, OwnSlot DEF DeleteAnswered, ResetAnswered, Answered
    <3>2. \A m \in UnderWay(t) : m = n
      BY <2>0, <2>1 DEF OneFor, Single
    <3>3. UnderWay(t)' = {}
      BY <1>1, <3>1, <3>2, OthersLeft DEF UnderWay
    <3>4. state'[t] # "opening"
      BY <1>1
      DEF Receive, Drop, FormAnswered, CodeAnswered, LoadAnswered, DeleteAnswered, ResetAnswered,
          Leave, FitsPage, Types
    <3>5. ASSUME kind[t] \in Forms
          PROVE  made[t] = 1 => state'[t] = "left" /\ taken'[t] = 0
      <4>1. made[t] = 1 => Ok(n) /\ taken[t] = 0
        BY <2>0, <3>5 DEF OneFor, Ok
      <4>2. Drop(n) \/ FormAnswered(n)
        <5>1. flight[n].op \in Forms
          BY <1>1, <3>5 DEF FitsPage, Makes, Forms
        <5> QED
          BY <5>1
          DEF Receive, CodeAnswered, LoadAnswered, DeleteAnswered, ResetAnswered, Answered, Forms
      <4> QED  BY <1>1, <4>1, <4>2 DEF Drop, FormAnswered, Leave, page, Types
    <3> QED  BY <1>0, <2>0, <3>3, <3>4, <3>5 DEF OneFor, Single
  <2>2. CASE kind[t] \notin Forms \cup {"problem"}
    BY <1>0, <2>2 DEF OneFor
  <2> QED  BY <2>1, <2>2
<1> QED  BY <1>0, <1>2, <1>3, <1>4 DEF OneOK

-----------------------------------------------------------------------------
(* The invariant, and what it says of the properties.                       *)

Inv == Types /\ SlotsOK /\ ResetsOK /\ PagesOK /\ BankOK /\ AimsOK /\ OneOK /\ ShownOK

LEMMA InitInv == Init => Inv
<1> SUFFICES ASSUME Init PROVE Inv
  OBVIOUS
<1>0. /\ Ids \subseteq Nat /\ Seeds \in Nat /\ MaxId \in Nat /\ Seeds <= MaxId
      /\ \A i \in Ids : i >= 1
  BY Constants DEF Ids
<1>10. ResetsOK
  BY DEF Init, ResetsOK
<1>1. Types
  <2>1. bank \in Banks
    <3>1. bank = [i \in Ids |-> IF i <= Seeds THEN i ELSE 0] /\ born = Seeds
      BY DEF Init
    <3>2. \A i \in Ids : (IF i <= Seeds THEN i ELSE 0) \in 0 .. born
      BY <1>0, <3>1
    <3> QED  BY <3>1, <3>2 DEF Banks
  <2>2. nextId \in 1 .. MaxId + 1 /\ born \in Nat /\ resets \in Nat /\ clicks \in Nat
    BY <1>0 DEF Init
  <2>3. /\ kind \in [Tabs -> Kinds]
        /\ state \in [Tabs -> {"opening", "open", "left"}]
        /\ button \in [Tabs -> BOOLEAN]
        /\ form \in [Tabs -> Values \cup {0}]
        /\ taken \in [Tabs -> Values \cup {0}]
        /\ shown \in [Tabs -> Views \cup {None}]
    BY DEF Init
  <2>4. /\ flight \in [Slots -> Requests \cup {None}]
        /\ accounts \in [Values -> Tabs \cup {None}]
        /\ made \in [Tabs -> Nat]
        /\ gone \in [Tabs -> SUBSET Nat]
        /\ progress \in [Slots -> 0 .. Seeds + 2]
    BY <1>0 DEF Init
  <2> QED  BY <2>1, <2>2, <2>3, <2>4 DEF Types
<1>2. \A n \in Slots : flight[n] = None
  BY DEF Init
<1>3. SlotsOK
  <2>1. Used = {}
    BY <1>2 DEF Used
  <2> QED  BY <2>1, FS_EmptySet DEF SlotsOK, Init
<1>4. \A t \in Tabs : UnderWay(t) = {} /\ shown[t] = None
  BY <1>2 DEF UnderWay, Init
<1>5. PagesOK
  BY <1>2, <1>4 DEF PagesOK, Init
<1>6. BankOK
  BY <1>0, <1>2, <1>4 DEF BankOK, Init
<1>7. AimsOK
  BY <1>2, <1>4 DEF AimsOK
<1>8. OneOK
  <2>1. ASSUME NEW t \in Tabs PROVE OneFor(t)
    <3>1. /\ button[t] <=> kind[t] = "admin"
          /\ made[t] = 0 /\ taken[t] = 0
      BY DEF Init
    <3>2. Single(t)
      BY <1>4 DEF Single
    <3> QED  BY <1>4, <3>1, <3>2 DEF OneFor
  <2>2. \A v \in Values, t \in Tabs : accounts[v] # t
    BY Constants DEF Init
  <2> QED  BY <2>1, <2>2 DEF OneOK, Init
<1>9. ShownOK
  BY <1>4 DEF ShownOK, ShownFor, Loads, Init
<1> QED  BY <1>1, <1>3, <1>5, <1>6, <1>7, <1>8, <1>9, <1>10 DEF Inv

LEMMA NextInv == Inv /\ [Next]_vars => Inv'
<1> SUFFICES ASSUME Inv, [Next]_vars PROVE Inv'
  OBVIOUS
<1>0. Types /\ SlotsOK /\ ResetsOK /\ PagesOK /\ BankOK /\ AimsOK /\ OneOK /\ ShownOK
  BY DEF Inv
<1>1. ASSUME NEW t \in Tabs, UserStep(t) PROVE Inv'
  BY <1>0, <1>1, UserTypes, UserResets, UserPages, UserBankOK, UserAimsOK, UserOneOK, UserShownOK
  DEF Inv
<1>2. ASSUME NEW n \in Slots, Serve(n) \/ Lose(n) PROVE Inv'
  BY <1>0, <1>2, ServeTypes, ServeProgress, ServePages, ServeBankOK, ServeAimsOK, ServeOneOK,
     ServeShownOK
  DEF Inv
<1>3. ASSUME NEW n \in Slots, Receive(n) PROVE Inv'
  <2>1. Types' /\ SlotsOK'
    BY <1>0, <1>3, ReceiveTypes
  <2> QED
    BY <1>0, <1>3, <2>1, ReceiveResets, ReceivePages, ReceiveBankOK, ReceiveAimsOK, ReceiveOneOK,
       ReceiveShownOK
    DEF Inv
<1>4. CASE UNCHANGED vars
  <2>1. UNCHANGED <<kind, state, button, form, taken, shown, flight, clicks>>
    BY <1>4 DEF vars, page
  <2>2. /\ UNCHANGED <<accounts, bank, nextId, born, resets, progress, made>>
        /\ UNCHANGED <<gone, typed, misled, crossed>>
    BY <1>4 DEF vars, backend, history
  <2>3. Types' /\ SlotsOK' /\ ResetsOK'
    BY <1>0, <2>1, <2>2 DEF Types, SlotsOK, ResetsOK, Asked, Used, Views, Banks
  <2>4. PagesOK'
    BY <1>0, <2>1, <2>2 DEF PagesOK, FitsPage, Views, Banks
  <2>5. BankOK' /\ AimsOK'
    BY <1>0, <2>1, <2>2 DEF BankOK, AimsOK, Aims, Seen, Lost, SameOrGone
  <2>6. OneOK' /\ ShownOK'
    BY <1>0, <2>1, <2>2 DEF OneOK, OneFor, Single, ShownOK, ShownFor, Loads, UnderWay
  <2> QED  BY <2>3, <2>4, <2>5, <2>6 DEF Inv
<1> QED  BY <1>1, <1>2, <1>3, <1>4 DEF Next

LEMMA Always == Spec => []Inv
BY InitInv, NextInv, PTL DEF Spec

LEMMA InvTypeOK == Inv => TypeOK
<1> SUFFICES ASSUME Types, ResetsOK, BankOK PROVE TypeOK
  BY DEF Inv
<1>1. ASSUME NEW t \in Tabs
      PROVE  /\ state[t] \in {"opening", "open", "left"}
             /\ button[t] \in BOOLEAN
             /\ {form[t], taken[t]} \subseteq Values \cup {0}
             /\ shown[t] \in Views \cup {None}
             /\ accounts \in [Values -> Tabs \cup {None}]
  BY DEF Types
<1>2. bank \in Banks /\ nextId \in 1 .. MaxId + 1 /\ \A i \in Ids : i >= nextId => bank[i] = 0
  BY DEF Types, BankOK
<1>3. ASSUME NEW n \in Slots, flight[n] # None
      PROVE  /\ flight[n] \in Requests
             /\ flight[n].at # None => flight[n].at \in [bank : Banks, resets : 0 .. resets]
  <2>1. flight[n] \in Requests
    BY <1>3 DEF Types
  <2>2. ASSUME flight[n].at # None
        PROVE  flight[n].at \in [bank : Banks, resets : 0 .. resets]
    <3>1. flight[n].at \in Snapshots
      BY <2>1, <2>2 DEF Requests
    <3>2. Seen(flight[n].at)
      BY <1>3, <2>2 DEF BankOK
    <3>3. flight[n].at.bank \in Banks /\ flight[n].at.resets \in 0 .. resets
      BY <3>1, <3>2 DEF Seen, Snapshots, Banks
    <3> QED  BY <3>1, <3>3 DEF Snapshots
  <2> QED  BY <2>1, <2>2
<1>4. ASSUME NEW n \in Slots
      PROVE  progress[n] \in 0 .. Seeds + 2 /\ (progress[n] # 0 => Asked(n, "reset"))
  BY DEF Types, ResetsOK
<1> QED  BY <1>1, <1>2, <1>3, <1>4 DEF TypeOK

LEMMA InvOneEffect == Inv => OneEffect
<1> SUFFICES ASSUME Types, OneOK, NEW t \in Tabs \ (typed \cup misled)
             PROVE  /\ kind[t] \in Forms => made[t] <= 1
                    /\ taken[t] # 0 => accounts[taken[t]] # t
                    /\ kind[t] \in Forms \cup {"problem"} => Cardinality(UnderWay(t)) <= 1
  BY DEF Inv, OneEffect
<1>1. OneFor(t)
  BY DEF OneOK
<1>2. kind[t] \in Forms => made[t] <= 1
  BY <1>1 DEF OneFor
<1>3. ASSUME taken[t] # 0, accounts[taken[t]] = t PROVE FALSE
  <2>1. taken[t] \in Values /\ made[t] \in Nat
    BY <1>3 DEF Types
  <2>2. made[t] > 0 /\ kind[t] \in Forms
    BY <1>3, <2>1 DEF OneOK
  <2>3. made[t] = 1
    BY <1>2, <2>1, <2>2
  <2> QED  BY <1>1, <1>3, <2>2, <2>3 DEF OneFor
<1>4. ASSUME kind[t] \in Forms \cup {"problem"} PROVE Cardinality(UnderWay(t)) <= 1
  <2>1. CASE UnderWay(t) = {}
    BY <2>1, FS_EmptySet
  <2>2. ASSUME NEW n \in UnderWay(t) PROVE Cardinality(UnderWay(t)) <= 1
    <3>1. UnderWay(t) = {n}
      BY <1>1, <1>4, <2>2 DEF OneFor, Single
    <3>2. Cardinality({n}) = 1
      BY FS_Singleton
    <3> QED  BY <3>1, <3>2
  <2> QED  BY <2>1, <2>2
<1> QED  BY <1>2, <1>3, <1>4

LEMMA InvShownIsAsked == Inv => ShownIsAsked
BY DEF Inv, ShownOK, ShownFor, ShownIsAsked

LEMMA InvActsOnShown == Inv => ActsOnShown
BY DEF Inv, AimsOK, Aims, ActsOnShown

-----------------------------------------------------------------------------
(* The pages keep to their types and the bank to its bounds: no page shows, *)
(* and no answer carries, a problem that was never made                     *)
(* (problem_list.js, admin_list.js, handlers_admin.cpp).                    *)
THEOREM TypeCorrect == Spec => []TypeOK
BY Always, InvTypeOK, PTL

(* A user who waits for the answer, and is told of no failure of a request  *)
(* that was served (by a lost answer, or by a 500 after the account or the  *)
(* problem was made), registers one account and creates one problem, is     *)
(* never told that the name just registered is taken, and has one           *)
(* submission judged at a time (register.js, admin_edit.js,                 *)
(* problem_detail.js, handlers_auth.cpp 101-115).                           *)
THEOREM EffectsAreOne == Spec => []OneEffect
BY Always, InvOneEffect, PTL

(* Unless two of its loads crossed, a list shows what is selected, and the  *)
(* administrator's none of the problems it was told are deleted             *)
(* (problem_list.js, admin_list.js).                                        *)
THEOREM ShownIsWhatWasAsked == Spec => []ShownIsAsked
BY Always, InvShownIsAsked, PTL

(* A deletion or a submission reaches the problem that was shown, or a bank *)
(* the ids of which a reset, whole or failed half way, has restarted since  *)
(* (admin_list.js, problem_detail.js, seed_loader.cpp 29-60).               *)
THEOREM ActionsHitWhatIsShown == Spec => []ActsOnShown
BY Always, InvActsOnShown, PTL
=============================================================================
