--------------------------- MODULE SessionsProofs ---------------------------
(* That a browser is recognised only as its own user, only while its session *)
(* lasts, and signed out only by itself, for every number of browsers,        *)
(* requests, names and sessions.                                              *)
EXTENDS Sessions, TLAPS

(* What is assumed of the constants.                                          *)
LEMMA Constants ==
    /\ BrowserOf \in [Requests -> Browsers]
    /\ AdminNames \subseteq Names
    /\ Nobody \notin Browsers /\ Nobody \notin Names
    /\ Ttl \in Nat /\ Ttl > 0 /\ MaxTime \in Nat /\ MaxSessions \in Nat
    /\ NoSession \notin Sids
BY BrowserOfAssumption, AdminNamesAssumption, NobodyAssumption,
   TtlAssumption, MaxTimeAssumption, MaxSessionsAssumption DEF NoSession, Sids

-----------------------------------------------------------------------------
(* Type correctness. *)

LEMMA InitType == Init => TypeOK
BY Constants DEF Init, TypeOK, TableType, CookieType, RequestType, Kinds

LEMMA OverType ==
    ASSUME RequestType, NEW r \in Requests, Over(r)
    PROVE  RequestType'
BY DEF RequestType, Over, Goto, Kinds

LEMMA SendType ==
    ASSUME TypeOK, NEW r \in Requests, NEW k \in Kinds, NEW n \in Names, Send(r, k, n)
    PROVE  TypeOK'
<1>1. Cookie(BrowserOf[r]) \in Sids \cup {NoSession}
  BY Constants DEF TypeOK, CookieType, Cookie
<1>2. Valid(Cookie(BrowserOf[r])) \in BOOLEAN
  BY DEF Valid
<1>3. RequestType'
  <2>1. pc' = [pc EXCEPT ![r] = "sent"] /\ kind' = [kind EXCEPT ![r] = k]
    BY DEF Send, Goto
  <2>2. who' \in [Requests -> Names \cup {Nobody}]
    BY DEF Send, TypeOK, RequestType
  <2>3. sid' \in [Requests -> Sids \cup {NoSession}]
    BY <1>1 DEF Send, TypeOK, RequestType
  <2>4. alive' \in [Requests -> BOOLEAN]
    <3>1. CASE k \in {"register", "login"}
      BY <3>1 DEF Send, TypeOK, RequestType
    <3>2. CASE k \notin {"register", "login"}
      <4> DEFINE v == Valid(Cookie(BrowserOf[r]))
      <4>1. alive' = [alive EXCEPT ![r] = v]
        BY <3>2 DEF Send
      <4> QED
        BY <4>1, <1>2 DEF TypeOK, RequestType
    <3> QED
      BY <3>1, <3>2
  <2>5. ASSUME NEW q \in Requests
        PROVE  /\ pc'[q] \in {"created", "verified"} => kind'[q] \in {"register", "login"}
               /\ kind'[q] \in {"register", "login"} \/ pc'[q] = "recognised" => who'[q] \in Names
    <3>1. CASE q = r
      BY <3>1, <2>1 DEF Send, TypeOK, RequestType
    <3>2. CASE q # r
      <4>1. pc'[q] = pc[q] /\ kind'[q] = kind[q] /\ who'[q] = who[q]
        BY <3>2, <2>1 DEF Send, TypeOK, RequestType
      <4> QED
        BY <4>1 DEF TypeOK, RequestType
    <3> QED
      BY <3>1, <3>2
  <2> QED
    BY <2>1, <2>2, <2>3, <2>4, <2>5 DEF TypeOK, RequestType
<1> QED
  BY <1>3 DEF Send, TypeOK, TableType, CookieType, tables, cookies

LEMMA CreateSessionType ==
    ASSUME TypeOK, NEW r \in Requests, CreateSession(r)
    PROVE  TypeOK'
<1>1. issued + 1 \in Sids /\ issued \in Nat /\ who[r] \in Names /\ clock + Ttl \in Nat
  BY Constants DEF CreateSession, TypeOK, TableType, CookieType, RequestType, Sids
<1>2. TableType'
  <2>1. rows' = rows \cup {issued + 1} /\ issued' = issued + 1 /\ account' = account
    BY DEF CreateSession
  <2>2. owner' = [owner EXCEPT ![issued + 1] = who[r]]
    BY DEF CreateSession
  <2>3. expires' = [expires EXCEPT ![issued + 1] = clock + Ttl]
    BY DEF CreateSession
  <2>4. issued' \in 0..MaxSessions
    BY <1>1, <2>1 DEF Sids
  <2>5. \A s \in rows' : s <= issued' /\ owner'[s] \in Names
    <3> SUFFICES ASSUME NEW s \in rows' PROVE s <= issued' /\ owner'[s] \in Names
      OBVIOUS
    <3>1. CASE s = issued + 1
      BY <3>1, <1>1, <2>1, <2>2 DEF TypeOK, TableType
    <3>2. CASE s # issued + 1
      <4>1. s \in rows /\ s \in Sids /\ s \in Nat
        BY <3>2, <2>1 DEF TypeOK, TableType, Sids
      <4>2. s <= issued /\ owner[s] \in Names /\ owner'[s] = owner[s]
        BY <4>1, <3>2, <2>2 DEF TypeOK, TableType
      <4> QED
        BY <4>1, <4>2, <1>1, <2>1
    <3> QED
      BY <3>1, <3>2
  <2> QED
    BY <1>1, <2>1, <2>2, <2>3, <2>4, <2>5 DEF TypeOK, TableType
<1>3. RequestType'
  <2>1. CASE Over(r)
    BY <2>1, OverType DEF TypeOK
  <2>2. CASE ~Over(r)
    BY <2>2, <1>1 DEF CreateSession, TypeOK, RequestType, Goto
  <2> QED
    BY <2>1, <2>2
<1> QED
  BY <1>2, <1>3 DEF CreateSession, TypeOK, CookieType, cookies

(* A request that is recognised is so as the user of its session.             *)
LEMMA RecogniseType ==
    ASSUME TypeOK, NEW r \in Requests, Recognise(r)
    PROVE  /\ sid[r] \in rows /\ sid[r] \in Sids
           /\ who' = [who EXCEPT ![r] = owner[sid[r]]]
           /\ owner[sid[r]] \in Names
BY DEF Recognise, Valid, TypeOK, TableType

LEMMA StepType ==
    ASSUME TypeOK, NEW r \in Requests, Step(r)
    PROVE  TypeOK'
<1>1. ASSUME NEW k \in Kinds, NEW n \in Names, Send(r, k, n) PROVE TypeOK'
  BY <1>1, SendType
<1>2. CASE Refuse(r)
  BY <1>2, OverType DEF Refuse, TypeOK, TableType, CookieType, tables, cookies
<1>3. CASE CreateUser(r)
  <2>1. RequestType'
    <3>1. CASE Over(r)
      BY <3>1, OverType DEF TypeOK
    <3>2. CASE ~Over(r)
      <4>1. who[r] \in Names
        BY <1>3 DEF CreateUser, TypeOK, RequestType
      <4> QED
        BY <3>2, <4>1, <1>3 DEF CreateUser, TypeOK, RequestType, Goto
    <3> QED
      BY <3>1, <3>2
  <2>2. account' \in [Names -> Browsers \cup {Nobody}]
    BY <1>3, Constants DEF CreateUser, TypeOK, TableType
  <2> QED
    BY <1>3, <2>1, <2>2 DEF CreateUser, TypeOK, TableType, CookieType, cookies
<1>4. CASE FindUser(r)
  <2>1. who[r] \in Names
    BY <1>4 DEF FindUser, TypeOK, RequestType
  <2> QED
    BY <1>4, <2>1 DEF FindUser, TypeOK, TableType, CookieType, RequestType, Goto, tables, cookies
<1>5. CASE CreateSession(r)
  BY <1>5, CreateSessionType
<1>6. CASE DeleteSession(r)
  BY <1>6 DEF DeleteSession, TypeOK, TableType, CookieType, RequestType, Goto, cookies
<1>7. CASE Me(r) \/ CheckAdminAuth(r)
  <2>1. Recognise(r) /\ Goto(r, "recognised") /\ UNCHANGED <<tables, clock, cookies, kind, sid, alive>>
    BY <1>7 DEF Me, CheckAdminAuth
  <2> QED
    BY <2>1, RecogniseType DEF TypeOK, TableType, CookieType, RequestType, Goto, tables, cookies
<1>8. CASE Serve(r)
  BY <1>8, OverType DEF Serve, TypeOK, TableType, CookieType, tables, cookies
<1>9. CASE Receive(r)
  <2>1. clock + Ttl \in Nat /\ BrowserOf[r] \in Browsers
    BY Constants DEF TypeOK, CookieType
  <2>2. CookieType'
    BY <1>9, <2>1, Constants DEF Receive, TypeOK, CookieType, RequestType
  <2> QED
    BY <1>9, <2>2, OverType DEF Receive, TypeOK, TableType, tables
<1>10. CASE Lose(r)
  BY <1>10, OverType DEF Lose, TypeOK, TableType, CookieType, tables, cookies
<1> QED
  BY <1>1, <1>2, <1>3, <1>4, <1>5, <1>6, <1>7, <1>8, <1>9, <1>10 DEF Step

LEMMA NextType == TypeOK /\ [Next]_vars => TypeOK'
<1> SUFFICES ASSUME TypeOK, [Next]_vars PROVE TypeOK'
  OBVIOUS
<1>1. CASE Tick
  BY <1>1, Constants DEF Tick, TypeOK, TableType, CookieType, RequestType, tables, cookies, request
<1>2. CASE UNCHANGED vars
  BY <1>2 DEF vars, TypeOK, TableType, CookieType, RequestType
<1> QED
  BY <1>1, <1>2, StepType DEF Next

(* Every variable keeps its type, and a stored session has a user.            *)
THEOREM TypeCorrect == Spec => []TypeOK
<1>1. Init => TypeOK
  BY InitType
<1>2. TypeOK /\ [Next]_vars => TypeOK'
  BY NextType
<1> QED
  BY <1>1, <1>2, PTL DEF Spec

-----------------------------------------------------------------------------
(* Whose session is whose.  A session belongs to the browser that knows its   *)
(* user's password: that is so of every stored session named by a cookie, in  *)
(* the jar or under way, and what is named has been issued, so that a new     *)
(* session is nobody else's.                                                  *)

KnownUsers == \A s \in rows : account[owner[s]] # Nobody

Own(b, s) == s <= issued /\ (s \in rows => account[owner[s]] = b)

OwnCookies ==
    /\ \A b \in Browsers : Own(b, jar[b])
    /\ \A r \in Requests : Own(BrowserOf[r], sid[r])

(* A session that is opened is that of the request's browser.                 *)
KnowsPassword ==
    \A r \in Requests : pc[r] \in {"created", "verified"} => account[who[r]] = BrowserOf[r]

(* A session that was over when the request was sent stays over.              *)
DeadStaysDead ==
    \A r \in Requests : kind[r] \in {"me", "admin"} /\ Valid(sid[r]) => alive[r]

IInv ==
    /\ TypeOK
    /\ KnownUsers
    /\ OwnCookies
    /\ KnowsPassword
    /\ DeadStaysDead
    /\ RecognisedAsOneself
    /\ NothingAfterTheEnd

LEMMA InitInv == Init => IInv
<1> SUFFICES ASSUME Init PROVE IInv
  OBVIOUS
<1>1. TypeOK
  BY InitType
<1>2. KnownUsers /\ DeadStaysDead
  BY DEF Init, KnownUsers, DeadStaysDead, Valid
<1>3. OwnCookies
  BY Constants DEF Init, OwnCookies, Own, NoSession
<1>4. KnowsPassword /\ RecognisedAsOneself /\ NothingAfterTheEnd
  BY DEF Init, KnowsPassword, RecognisedAsOneself, Knows, NothingAfterTheEnd
<1> QED
  BY <1>1, <1>2, <1>3, <1>4 DEF IInv

(* What a step that changes no table, cookie or clock must say of its request *)
(* for the invariant to go on.                                                *)
LEMMA OneRequest ==
    ASSUME IInv, TypeOK', NEW r \in Requests, UNCHANGED <<tables, clock, cookies>>,
           \A q \in Requests : q # r => /\ pc'[q] = pc[q] /\ kind'[q] = kind[q]
                                        /\ who'[q] = who[q] /\ sid'[q] = sid[q]
                                        /\ alive'[q] = alive[q],
           Own(BrowserOf[r], sid'[r]),
           pc'[r] \in {"created", "verified"} => account[who'[r]] = BrowserOf[r],
           kind'[r] \in {"me", "admin"} /\ Valid(sid'[r]) => alive'[r],
           pc'[r] = "recognised" => /\ account[who'[r]] = BrowserOf[r]
                                    /\ kind'[r] = "admin" => who'[r] \in AdminNames
                                    /\ alive'[r]
    PROVE  IInv'
<1>1. KnownUsers'
  BY DEF IInv, KnownUsers, tables
<1>2. OwnCookies'
  BY DEF IInv, OwnCookies, Own, tables, cookies
<1>3. KnowsPassword'
  BY DEF IInv, KnowsPassword, tables
<1>4. DeadStaysDead'
  BY DEF IInv, DeadStaysDead, Valid, tables
<1>5. RecognisedAsOneself' /\ NothingAfterTheEnd'
  BY DEF IInv, RecognisedAsOneself, Knows, NothingAfterTheEnd, tables
<1> QED
  BY <1>1, <1>2, <1>3, <1>4, <1>5 DEF IInv

LEMMA OthersKept ==
    ASSUME TypeOK, NEW r \in Requests, Step(r)
    PROVE  \A q \in Requests : q # r => /\ pc'[q] = pc[q] /\ kind'[q] = kind[q]
                                        /\ who'[q] = who[q] /\ sid'[q] = sid[q]
                                        /\ alive'[q] = alive[q]
<1>1. CASE Over(r)
  BY <1>1 DEF Over, Goto, TypeOK, RequestType
<1>2. CASE ~Over(r)
  <2>1. CASE \E k \in Kinds, n \in Names : Send(r, k, n)
    BY <2>1 DEF Send, Goto, TypeOK, RequestType
  <2>2. CASE CreateUser(r) \/ FindUser(r) \/ DeleteSession(r)
    BY <1>2, <2>2 DEF CreateUser, FindUser, DeleteSession, Goto, TypeOK, RequestType
  <2>3. CASE CreateSession(r)
    BY <1>2, <2>3 DEF CreateSession, Goto, TypeOK, RequestType
  <2>4. CASE Me(r) \/ CheckAdminAuth(r)
    BY <2>4 DEF Me, CheckAdminAuth, Recognise, Goto, TypeOK, RequestType
  <2> QED
    BY <1>2, <2>1, <2>2, <2>3, <2>4 DEF Step, Refuse, Serve, Receive, Lose
<1> QED
  BY <1>1, <1>2

LEMMA OverFacts ==
    ASSUME TypeOK, NEW r \in Requests, Over(r)
    PROVE  pc'[r] = "idle" /\ kind'[r] = "me" /\ sid'[r] = NoSession
BY DEF Over, Goto, TypeOK, RequestType

LEMMA NoSessionIsOwn ==
    ASSUME TypeOK, NEW b
    PROVE  Own(b, NoSession) /\ ~Valid(NoSession)
BY Constants DEF Own, Valid, NoSession, TypeOK, TableType

LEMMA StepInv ==
    ASSUME IInv, NEW r \in Requests, Step(r)
    PROVE  IInv'
<1>0. TypeOK /\ TypeOK'
  BY StepType DEF IInv
<1>k. \A q \in Requests : q # r => /\ pc'[q] = pc[q] /\ kind'[q] = kind[q]
                                   /\ who'[q] = who[q] /\ sid'[q] = sid[q]
                                   /\ alive'[q] = alive[q]
  BY <1>0, OthersKept
<1>o. ASSUME Over(r), UNCHANGED <<tables, clock, cookies>> PROVE IInv'
  BY <1>o, <1>0, <1>k, OverFacts, NoSessionIsOwn, OneRequest
<1>1. ASSUME NEW k \in Kinds, NEW n \in Names, Send(r, k, n) PROVE IInv'
  <2>1. pc'[r] = "sent" /\ kind'[r] = k /\ UNCHANGED <<tables, clock, cookies>>
    BY <1>0, <1>1 DEF Send, Goto, TypeOK, RequestType
  <2>2. CASE k \in {"register", "login"}
    <3>1. sid'[r] = sid[r] /\ kind'[r] \notin {"me", "admin"}
      BY <2>1, <2>2, <1>1 DEF Send
    <3> QED
      BY <3>1, <2>1, <1>0, <1>k, OneRequest DEF IInv, OwnCookies
  <2>3. CASE k \notin {"register", "login"}
    <3> DEFINE c == Cookie(BrowserOf[r])
    <3>1. sid'[r] = c
      BY <2>3, <1>0, <1>1 DEF Send, TypeOK, RequestType
    <3>2. alive'[r] = Valid(c)
      BY <2>3, <1>0, <1>1 DEF Send, TypeOK, RequestType
    <3>3. Own(BrowserOf[r], c)
      BY <1>0, NoSessionIsOwn, Constants DEF Cookie, IInv, OwnCookies
    <3> HIDE DEF c
    <3> QED
      BY <3>1, <3>2, <3>3, <2>1, <1>0, <1>k, OneRequest
  <2> QED
    BY <2>2, <2>3
<1>2. CASE Refuse(r) \/ Serve(r) \/ Lose(r)
  BY <1>2, <1>o DEF Refuse, Serve, Lose
<1>3. CASE CreateUser(r)
  <2>1. account[who[r]] = Nobody /\ who[r] \in Names
    BY <1>3, <1>0 DEF CreateUser, Taken, TypeOK, RequestType
  <2>2. \A n \in Names : n # who[r] => account'[n] = account[n]
    BY <1>3, <1>0 DEF CreateUser, TypeOK, TableType
  <2>3. account'[who[r]] = BrowserOf[r] /\ BrowserOf[r] \in Browsers
    BY <1>3, <1>0, <2>1, Constants DEF CreateUser, TypeOK, TableType
  <2>4. UNCHANGED <<rows, owner, expires, issued, clock, jar, until>>
    BY <1>3 DEF CreateUser, cookies
  <2>5. \A s \in rows : owner[s] \in Names /\ account'[owner[s]] = account[owner[s]]
    BY <1>0, <2>1, <2>2 DEF IInv, KnownUsers, TypeOK, TableType
  <2>6. \/ UNCHANGED <<kind, who, sid, alive>> /\ pc'[r] = "created"
        \/ pc'[r] = "idle" /\ kind'[r] = "me" /\ sid'[r] = NoSession
    BY <1>3, <1>0, OverFacts DEF CreateUser, Goto, TypeOK, RequestType
  <2>7. KnownUsers'
    BY <2>4, <2>5 DEF IInv, KnownUsers
  <2>8. OwnCookies'
    <3>1. \A b \in Browsers : Own(b, jar[b])'
      BY <2>4, <2>5 DEF IInv, OwnCookies, Own
    <3>2. ASSUME NEW q \in Requests PROVE Own(BrowserOf[q], sid[q])'
      <4>1. sid'[q] = sid[q] \/ sid'[q] = NoSession
        BY <1>k, <2>6
      <4>2. CASE sid'[q] = sid[q]
        BY <4>2, <2>4, <2>5 DEF IInv, OwnCookies, Own
      <4>3. CASE sid'[q] = NoSession
        BY <4>3, <2>4, <1>0, NoSessionIsOwn, Constants DEF Own, TypeOK, TableType, NoSession
      <4> QED
        BY <4>1, <4>2, <4>3
    <3> QED
      BY <3>1, <3>2 DEF OwnCookies
  <2>9. ASSUME NEW q \in Requests, q # r, account[who[q]] = BrowserOf[q], who[q] \in Names
        PROVE  account'[who'[q]] = BrowserOf[q]
    <3>1. who[q] # who[r]
      BY <2>1, <2>9, Constants
    <3> QED
      BY <3>1, <2>2, <2>9, <1>k
  <2>10. KnowsPassword'
    BY <2>3, <2>6, <2>9, <1>k, <1>0 DEF IInv, KnowsPassword, TypeOK, RequestType
  <2>11. DeadStaysDead'
    <3>1. kind[r] \notin {"me", "admin"}
      BY <1>3 DEF CreateUser
    <3> QED
      BY <3>1, <2>4, <2>6, <1>k, <1>0, NoSessionIsOwn DEF IInv, DeadStaysDead, Valid
  <2>12. RecognisedAsOneself' /\ NothingAfterTheEnd'
    BY <2>6, <2>9, <1>k, <1>0 DEF IInv, RecognisedAsOneself, Knows, NothingAfterTheEnd, TypeOK, RequestType
  <2> QED
    BY <2>7, <2>8, <2>10, <2>11, <2>12, <1>0 DEF IInv
<1>4. CASE FindUser(r)
  <2>1. pc'[r] = "verified" /\ kind'[r] = "login" /\ who'[r] = who[r] /\ sid'[r] = sid[r]
    BY <1>4, <1>0 DEF FindUser, Goto, TypeOK, RequestType
  <2>2. account[who[r]] = BrowserOf[r] /\ UNCHANGED <<tables, clock, cookies>>
    BY <1>4 DEF FindUser, Knows
  <2> QED
    BY <2>1, <2>2, <1>0, <1>k, OneRequest DEF IInv, OwnCookies
<1>5. CASE CreateSession(r)
  <2> DEFINE new == issued + 1
  <2>1. /\ new \in Sids /\ issued \in Nat /\ issued' = new /\ rows' = rows \cup {new}
        /\ UNCHANGED <<account, clock, jar, until>>
    BY <1>5, <1>0, Constants DEF CreateSession, TypeOK, TableType, Sids, cookies
  <2>2. /\ owner'[new] = who[r]
        /\ \A s \in Sids : s # new => owner'[s] = owner[s] /\ expires'[s] = expires[s]
    BY <1>5, <1>0, <2>1 DEF CreateSession, TypeOK, TableType
  <2>3. account[who[r]] = BrowserOf[r] /\ who[r] \in Names /\ BrowserOf[r] \in Browsers
    BY <1>5, <1>0, Constants DEF CreateSession, IInv, KnowsPassword, TypeOK, RequestType
  <2>4. \/ UNCHANGED <<kind, who, alive>> /\ sid'[r] = new /\ pc'[r] = "opened"
        \/ pc'[r] = "idle" /\ kind'[r] = "me" /\ sid'[r] = NoSession
    BY <1>5, <1>0, OverFacts DEF CreateSession, Goto, TypeOK, RequestType
  <2>5. kind[r] \in {"register", "login"}
    BY <1>5, <1>0 DEF CreateSession, TypeOK, RequestType
  <2>6. ASSUME NEW s \in Sids \cup {NoSession}, s <= issued
        PROVE  /\ s # new /\ s \in Nat
               /\ s \in rows' <=> s \in rows
               /\ s \in rows => s \in Sids
    BY <2>1, <2>6, <1>0 DEF Sids, NoSession, TypeOK, TableType
  <2> HIDE DEF new
  <2>7. ASSUME NEW b \in Browsers, NEW s \in Sids \cup {NoSession}, Own(b, s)
        PROVE  Own(b, s)' /\ (Valid(s)' => Valid(s))
    <3>1. s # new /\ s \in Nat /\ (s \in rows' <=> s \in rows) /\ (s \in rows => s \in Sids)
      BY <2>6, <2>7 DEF Own
    <3>2. s <= issued'
      BY <3>1, <2>1, <2>7 DEF Own, new
    <3>3. s \in rows => owner'[s] = owner[s] /\ expires'[s] = expires[s]
      BY <3>1, <2>2
    <3> QED
      BY <3>1, <3>2, <3>3, <2>1, <2>7 DEF Own, Valid
  <2>8. KnownUsers'
    <3> SUFFICES ASSUME NEW s \in rows' PROVE account'[owner'[s]] # Nobody
      BY DEF KnownUsers
    <3>1. CASE s = new
      BY <3>1, <2>1, <2>2, <2>3, Constants
    <3>2. CASE s # new
      <4>1. s \in rows /\ s \in Sids
        BY <3>2, <2>1, <1>0 DEF TypeOK, TableType
      <4> QED
        BY <4>1, <3>2, <2>1, <2>2 DEF IInv, KnownUsers
    <3> QED
      BY <3>1, <3>2
  <2>9. OwnCookies'
    <3>1. \A b \in Browsers : Own(b, jar[b])'
      <4> SUFFICES ASSUME NEW b \in Browsers PROVE Own(b, jar[b])'
        OBVIOUS
      <4>1. jar[b] \in Sids \cup {NoSession} /\ Own(b, jar[b]) /\ jar'[b] = jar[b]
        BY <1>0, <2>1 DEF IInv, OwnCookies, TypeOK, CookieType
      <4>2. (jar[b] <= issued)' /\ (jar[b] \in rows' => account'[owner'[jar[b]]] = b)
        BY <4>1, <2>7 DEF Own
      <4> QED
        BY <4>1, <4>2 DEF Own
    <3>2. ASSUME NEW q \in Requests PROVE Own(BrowserOf[q], sid[q])'
      <4>0. BrowserOf[q] \in Browsers
        BY Constants
      <4>1. CASE sid'[q] = sid[q]
        <5>1. sid[q] \in Sids \cup {NoSession} /\ Own(BrowserOf[q], sid[q])
          BY <1>0 DEF IInv, OwnCookies, TypeOK, RequestType
        <5>2. (sid[q] <= issued') /\ (sid[q] \in rows' => account'[owner'[sid[q]]] = BrowserOf[q])
          BY <4>0, <5>1, <2>7 DEF Own
        <5> QED
          BY <4>1, <5>2 DEF Own
      <4>2. CASE sid'[q] = new /\ q = r
        BY <4>2, <2>1, <2>2, <2>3 DEF Own, Sids
      <4>3. CASE sid'[q] = NoSession
        BY <4>3, <2>1, <1>0, Constants DEF Own, TypeOK, TableType, NoSession, Sids, new
      <4> QED
        BY <4>1, <4>2, <4>3, <2>4, <1>k
    <3> QED
      BY <3>1, <3>2 DEF OwnCookies
  <2>10. DeadStaysDead'
    <3> SUFFICES ASSUME NEW q \in Requests, kind'[q] \in {"me", "admin"}, Valid(sid[q])'
                 PROVE  alive'[q]
      BY DEF DeadStaysDead
    <3>1. CASE q = r
      <4>1. sid'[r] = NoSession
        BY <3>1, <2>4, <2>5
      <4>2. NoSession \notin rows'
        BY <1>0, Constants DEF TypeOK, TableType
      <4> QED
        BY <3>1, <4>1, <4>2 DEF Valid
    <3>2. CASE q # r
      <4>1. sid'[q] = sid[q] /\ kind'[q] = kind[q] /\ alive'[q] = alive[q]
        BY <3>2, <1>k
      <4>2. sid[q] \in Sids \cup {NoSession} /\ Own(BrowserOf[q], sid[q]) /\ BrowserOf[q] \in Browsers
        BY <1>0, Constants DEF IInv, OwnCookies, TypeOK, RequestType
      <4>3. sid[q] \in rows' /\ expires'[sid[q]] > clock'
        BY <4>1 DEF Valid
      <4>4. Valid(sid[q])
        BY <4>2, <4>3, <2>7 DEF Valid
      <4> QED
        BY <4>1, <4>4 DEF IInv, DeadStaysDead
    <3> QED
      BY <3>1, <3>2
  <2>11. KnowsPassword' /\ RecognisedAsOneself' /\ NothingAfterTheEnd'
    BY <2>1, <2>4, <1>k DEF IInv, KnowsPassword, RecognisedAsOneself, Knows, NothingAfterTheEnd
  <2> QED
    BY <2>8, <2>9, <2>10, <2>11, <1>0 DEF IInv
<1>6. CASE DeleteSession(r)
  <2>1. /\ UNCHANGED <<account, owner, expires, issued, clock, jar, until, kind, who, sid, alive>>
        /\ rows' \subseteq rows
    BY <1>6 DEF DeleteSession, cookies
  <2>2. pc'[r] = "cleared"
    BY <1>6, <1>0 DEF DeleteSession, Goto, TypeOK, RequestType
  <2>3. KnownUsers' /\ OwnCookies' /\ DeadStaysDead'
    BY <2>1 DEF IInv, KnownUsers, OwnCookies, Own, DeadStaysDead, Valid
  <2>4. KnowsPassword' /\ RecognisedAsOneself' /\ NothingAfterTheEnd'
    BY <2>1, <2>2, <1>k DEF IInv, KnowsPassword, RecognisedAsOneself, Knows, NothingAfterTheEnd
  <2> QED
    BY <2>3, <2>4, <1>0 DEF IInv
<1>7. CASE Me(r) \/ CheckAdminAuth(r)
  <2>1. Recognise(r) /\ UNCHANGED <<tables, clock, cookies, kind, sid, alive>>
    BY <1>7 DEF Me, CheckAdminAuth
  <2>2. /\ pc'[r] = "recognised" /\ kind[r] \in {"me", "admin"}
        /\ kind[r] = "admin" => who'[r] \in AdminNames
    BY <1>7, <1>0 DEF Me, CheckAdminAuth, Goto, TypeOK, RequestType
  <2>3. who'[r] = owner[sid[r]] /\ sid[r] \in rows
    BY <2>1, <1>0, RecogniseType DEF TypeOK, RequestType
  <2>4. account[who'[r]] = BrowserOf[r]
    BY <2>3 DEF IInv, OwnCookies, Own
  <2>5. alive[r]
    BY <2>1, <2>2 DEF IInv, DeadStaysDead, Recognise
  <2> QED
    BY <2>1, <2>2, <2>4, <2>5, <1>0, <1>k, OneRequest DEF IInv, OwnCookies
<1>9. CASE Receive(r)
  <2>1. UNCHANGED <<account, rows, owner, expires, issued, clock>>
    BY <1>9 DEF Receive, tables
  <2>2. pc'[r] = "idle" /\ kind'[r] = "me" /\ sid'[r] = NoSession
    BY <1>9, <1>0, OverFacts DEF Receive
  <2>3. OwnCookies'
    <3>1. ASSUME NEW b \in Browsers PROVE Own(b, jar[b])'
      <4>1. \/ jar'[b] = jar[b]
            \/ b = BrowserOf[r] /\ jar'[b] = sid[r]
            \/ jar'[b] = NoSession
        BY <1>9, <1>0 DEF Receive, TypeOK, CookieType
      <4>2. Own(b, jar[b]) /\ Own(BrowserOf[r], sid[r]) /\ Own(b, NoSession)
        BY <1>0, NoSessionIsOwn DEF IInv, OwnCookies
      <4> QED
        BY <4>1, <4>2, <2>1 DEF Own
    <3>2. ASSUME NEW q \in Requests PROVE Own(BrowserOf[q], sid[q])'
      <4>1. sid'[q] = sid[q] \/ sid'[q] = NoSession
        BY <2>2, <1>k
      <4>2. Own(BrowserOf[q], sid[q]) /\ Own(BrowserOf[q], NoSession)
        BY <1>0, NoSessionIsOwn DEF IInv, OwnCookies
      <4> QED
        BY <4>1, <4>2, <2>1 DEF Own
    <3> QED
      BY <3>1, <3>2 DEF OwnCookies
  <2>4. KnownUsers'
    BY <2>1 DEF IInv, KnownUsers
  <2>5. DeadStaysDead'
    BY <2>1, <2>2, <1>k, <1>0, NoSessionIsOwn DEF IInv, DeadStaysDead, Valid
  <2>6. KnowsPassword' /\ RecognisedAsOneself' /\ NothingAfterTheEnd'
    BY <2>1, <2>2, <1>k DEF IInv, KnowsPassword, RecognisedAsOneself, Knows, NothingAfterTheEnd
  <2> QED
    BY <2>3, <2>4, <2>5, <2>6, <1>0 DEF IInv
<1> QED
  BY <1>1, <1>2, <1>3, <1>4, <1>5, <1>6, <1>7, <1>9 DEF Step

LEMMA NextInv == IInv /\ [Next]_vars => IInv'
<1> SUFFICES ASSUME IInv, [Next]_vars PROVE IInv'
  OBVIOUS
<1>1. CASE Tick
  <2>1. TypeOK'
    BY NextType DEF IInv
  <2>2. /\ UNCHANGED <<account, rows, owner, expires, issued, jar, until, pc, kind, who, sid, alive>>
        /\ clock' = clock + 1
    BY <1>1 DEF Tick, tables, cookies, request
  <2>3. DeadStaysDead'
    <3>1. \A r \in Requests : Valid(sid[r])' => Valid(sid[r])
      BY <2>2 DEF IInv, TypeOK, TableType, CookieType, Valid
    <3> QED
      BY <2>2, <3>1 DEF IInv, DeadStaysDead
  <2>4. KnownUsers' /\ OwnCookies' /\ KnowsPassword'
    BY <2>2 DEF IInv, KnownUsers, OwnCookies, Own, KnowsPassword
  <2>5. RecognisedAsOneself' /\ NothingAfterTheEnd'
    BY <2>2 DEF IInv, RecognisedAsOneself, Knows, NothingAfterTheEnd
  <2> QED
    BY <2>1, <2>3, <2>4, <2>5 DEF IInv
<1>2. CASE UNCHANGED vars
  <2>1. TypeOK'
    BY <1>2, NextType DEF IInv
  <2>2. KnownUsers' /\ OwnCookies' /\ KnowsPassword' /\ DeadStaysDead'
    BY <1>2 DEF vars, IInv, KnownUsers, OwnCookies, Own, KnowsPassword, DeadStaysDead, Valid
  <2>3. RecognisedAsOneself' /\ NothingAfterTheEnd'
    BY <1>2 DEF vars, IInv, RecognisedAsOneself, Knows, NothingAfterTheEnd
  <2> QED
    BY <2>1, <2>2, <2>3 DEF IInv
<1> QED
  BY <1>1, <1>2, StepInv DEF Next

(* me and the admin gate recognise a browser only as its own user, and as     *)
(* administrator only when that user is one.                                  *)
THEOREM RecognisedIsOneself == Spec => []RecognisedAsOneself
<1>1. Init => IInv
  BY InitInv
<1>2. IInv /\ [Next]_vars => IInv'
  BY NextInv
<1>3. IInv => RecognisedAsOneself
  BY DEF IInv
<1> QED
  BY <1>1, <1>2, <1>3, PTL DEF Spec

(* A request sent after its session ended is never recognised.                *)
THEOREM EndIsTheEnd == Spec => []NothingAfterTheEnd
<1>1. Init => IInv
  BY InitInv
<1>2. IInv /\ [Next]_vars => IInv'
  BY NextInv
<1>3. IInv => NothingAfterTheEnd
  BY DEF IInv
<1> QED
  BY <1>1, <1>2, <1>3, PTL DEF Spec

(* Nobody but the browser itself deletes the session in its cookie.           *)
THEOREM OnlyOwnLogoutEndsIt == Spec => OnlyOwnLogoutEnds
<1> DEFINE Ends == \A b \in Browsers : jar[b] \in rows /\ jar[b] \notin rows' =>
                      \E r \in Requests :
                          BrowserOf[r] = b /\ kind[r] = "logout" /\ sid[r] = jar[b]
<1>1. Init => IInv
  BY InitInv
<1>2. IInv /\ [Next]_vars => IInv'
  BY NextInv
<1>3. IInv /\ [Next]_vars => [Ends]_vars
  <2> SUFFICES ASSUME IInv, Next, NEW b \in Browsers, jar[b] \in rows, jar[b] \notin rows'
               PROVE  \E r \in Requests :
                          BrowserOf[r] = b /\ kind[r] = "logout" /\ sid[r] = jar[b]
    OBVIOUS
  <2>1. PICK r \in Requests : DeleteSession(r)
    BY DEF Next, Tick, Step, Send, Refuse, CreateUser, FindUser, CreateSession, Me,
           CheckAdminAuth, Serve, Receive, Lose, tables
  <2>2. sid[r] = jar[b] /\ kind[r] = "logout"
    BY <2>1 DEF DeleteSession
  <2>3. account[owner[jar[b]]] = b /\ account[owner[jar[b]]] = BrowserOf[r]
    BY <2>2 DEF IInv, OwnCookies, Own
  <2> QED
    BY <2>2, <2>3
<1> QED
  BY <1>1, <1>2, <1>3, PTL DEF Spec, OnlyOwnLogoutEnds
=============================================================================
