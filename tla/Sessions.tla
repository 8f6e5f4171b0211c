------------------------------ MODULE Sessions ------------------------------
(* Accounts and sessions: the requests register, login, logout, me and those  *)
(* below /api/admin/, from the browser's cookie jar through the gates of the  *)
(* router to the tables users and sessions and back to the jar.  A step is    *)
(* one SQL statement with what follows it up to the next one, or the arrival  *)
(* of an answer.                                                              *)
(*                                                                            *)
(* A password is abstracted to the browser whose user chose it, an account to *)
(* that browser, a session id to a number: /dev/urandom never repeats one.    *)
EXTENDS Naturals

CONSTANTS
    Browsers,     \* cookie jars, each of one user
    Requests,     \* requests under way at a time
    BrowserOf,    \* the browser that sends each of them
    Names,        \* user names
    AdminNames,   \* those of the administrators, made before the start
    Nobody,       \* no browser, no name
    Ttl,          \* lifetime of a session and of its cookie
    MaxTime,      \* bound: the clock stops there
    MaxSessions   \* bound: session ids ever generated

ASSUME BrowserOfAssumption == BrowserOf \in [Requests -> Browsers]
ASSUME AdminNamesAssumption == AdminNames \subseteq Names
ASSUME NobodyAssumption == Nobody \notin Browsers /\ Nobody \notin Names
ASSUME TtlAssumption == Ttl \in Nat \ {0}
ASSUME MaxTimeAssumption == MaxTime \in Nat
ASSUME MaxSessionsAssumption == MaxSessions \in Nat

NoSession == 0
Sids == 1..MaxSessions
Kinds == {"register", "login", "logout", "me", "admin"}

VARIABLES
    account,  \* users: the browser whose password each name has
    rows,     \* sessions: the ids stored
    owner,    \* user_id of each session
    expires,  \* expires_at of each session
    issued,   \* session ids generated so far
    clock,    \* system_clock, UTC_TIMESTAMP() and the browsers' clocks
    jar,      \* the session id in each browser's cookie
    until,    \* when that cookie expires
    pc,       \* where each request is
    kind,     \* which request it is
    who,      \* the name in its body, or the user its session is found to be of
    sid,      \* the session id of its cookie, or the one opened for it
    alive     \* history: that session was valid when the request was sent

tables  == <<account, rows, owner, expires, issued>>
cookies == <<jar, until>>
request == <<pc, kind, who, sid, alive>>
vars == <<account, rows, owner, expires, issued, clock, jar, until,
          pc, kind, who, sid, alive>>

Init ==
    /\ account \in [Names -> Browsers \cup {Nobody}]
    /\ \A n \in Names : account[n] # Nobody <=> n \in AdminNames
    /\ rows = {}
    /\ owner = [s \in Sids |-> Nobody]
    /\ expires = [s \in Sids |-> 0]
    /\ issued = 0
    /\ clock = 0
    /\ jar = [b \in Browsers |-> NoSession]
    /\ until = [b \in Browsers |-> 0]
    /\ pc = [r \in Requests |-> "idle"]
    /\ kind = [r \in Requests |-> "me"]
    /\ who = [r \in Requests |-> Nobody]
    /\ sid = [r \in Requests |-> NoSession]
    /\ alive = [r \in Requests |-> FALSE]

Goto(r, next) == pc' = [pc EXCEPT ![r] = next]

(* The request is answered without Set-Cookie, or its connection breaks: what  *)
(* it kept is gone.                                                           *)
Over(r) ==
    /\ Goto(r, "idle")
    /\ kind' = [kind EXCEPT ![r] = "me"]
    /\ who' = [who EXCEPT ![r] = Nobody]
    /\ sid' = [sid EXCEPT ![r] = NoSession]
    /\ alive' = [alive EXCEPT ![r] = FALSE]

(* The session row that findUserByValidSessionId() selects.                   *)
Valid(s) == s \in rows /\ expires[s] > clock

(* The cookie a browser sends: none once its Max-Age is over.                 *)
Cookie(b) == IF clock < until[b] THEN jar[b] ELSE NoSession

(* The unique key of users: the INSERT of such a name fails.                  *)
Taken(n) == account[n] # Nobody

(* verifyPassword(): the hash stored for the name is of this user's password. *)
Knows(b, n) == account[n] = b

-----------------------------------------------------------------------------
(* A browser sends a request, with its cookie of that moment.                 *)
Send(r, k, n) ==
    /\ pc[r] = "idle"
    /\ Goto(r, "sent")
    /\ kind' = [kind EXCEPT ![r] = k]
    /\ IF k \in {"register", "login"}
         THEN /\ who' = [who EXCEPT ![r] = n]
              /\ UNCHANGED <<sid, alive>>
         ELSE /\ who' = who
              /\ sid' = [sid EXCEPT ![r] = Cookie(BrowserOf[r])]
              /\ alive' = [alive EXCEPT ![r] = Valid(Cookie(BrowserOf[r]))]
    /\ UNCHANGED <<tables, clock, cookies>>

(* An error ends the request: 429 and 403 of the gates; 400 for the body; 401 *)
(* without a valid session or for a wrong name or password; 403 for a user    *)
(* who is no administrator; 500 when hashing, a statement or the random       *)
(* source fails.                                                              *)
Refuse(r) ==
    /\ pc[r] \in {"sent", "created", "verified"}
    /\ Over(r)
    /\ UNCHANGED <<tables, clock, cookies>>

(* users has no unique key: the newest password of a name counts. *)
Mutant_CreateUserReplaces(r) ==
    /\ pc[r] = "sent" /\ kind[r] = "register"
    /\ account' = [account EXCEPT ![who[r]] = BrowserOf[r]]
    /\ Goto(r, "created")
    /\ UNCHANGED <<rows, owner, expires, issued, clock, cookies,
                   kind, who, sid, alive>>

(* POST /api/auth/register, INSERT INTO users: 409 for a name that is taken;  *)
(* 500 when the answer of the database is lost, with the user created.        *)
CreateUser(r) ==
    /\ pc[r] = "sent"
    /\ kind[r] = "register"
    /\ ~Taken(who[r])
    /\ account' = [account EXCEPT ![who[r]] = BrowserOf[r]]
    /\ \/ Goto(r, "created") /\ UNCHANGED <<kind, who, sid, alive>>
       \/ Over(r)
    /\ UNCHANGED <<rows, owner, expires, issued, clock, cookies>>

(* POST /api/auth/login: the user by name, and the password against its hash. *)
FindUser(r) ==
    /\ pc[r] = "sent"
    /\ kind[r] = "login"
    /\ Knows(BrowserOf[r], who[r])
    /\ Goto(r, "verified")
    /\ UNCHANGED <<tables, clock, cookies, kind, who, sid, alive>>

(* The random source yields the same id again. *)
Mutant_SameId(r) ==
    /\ pc[r] \in {"created", "verified"} /\ issued < MaxSessions
    /\ rows' = rows \cup {issued + 1}
    /\ owner' = [owner EXCEPT ![issued + 1] = who[r]]
    /\ expires' = [expires EXCEPT ![issued + 1] = clock + Ttl]
    /\ sid' = [sid EXCEPT ![r] = issued + 1]
    /\ Goto(r, "opened")
    /\ UNCHANGED <<account, issued, clock, cookies, kind, who, alive>>

(* The new session of a register or a login: 201 or 200 with its cookie; 500  *)
(* when the answer of the database is lost, with the row inserted.            *)
CreateSession(r) ==
    /\ pc[r] \in {"created", "verified"}
    /\ issued < MaxSessions
    /\ issued' = issued + 1
    /\ rows' = rows \cup {issued + 1}
    /\ owner' = [owner EXCEPT ![issued + 1] = who[r]]
    /\ expires' = [expires EXCEPT ![issued + 1] = clock + Ttl]
    /\ \/ /\ sid' = [sid EXCEPT ![r] = issued + 1]
          /\ Goto(r, "opened")
          /\ UNCHANGED <<kind, who, alive>>
       \/ Over(r)
    /\ UNCHANGED <<account, clock, cookies>>

(* DELETE FROM sessions WHERE user_id = ...: every session of the user. *)
Mutant_DeleteAllOfUser(r) ==
    /\ pc[r] = "sent" /\ kind[r] = "logout"
    /\ rows' = {s \in rows : ~ (sid[r] \in Sids /\ owner[s] = owner[sid[r]])}
    /\ Goto(r, "cleared")
    /\ UNCHANGED <<account, owner, expires, issued, clock, cookies,
                   kind, who, sid, alive>>

(* POST /api/auth/logout: deleteSession() throws nothing and its result is    *)
(* not looked at, so that the answer is 200 and clears the cookie whether the *)
(* row is gone or not.                                                        *)
DeleteSession(r) ==
    /\ pc[r] = "sent"
    /\ kind[r] = "logout"
    /\ \E done \in BOOLEAN : rows' = IF done THEN rows \ {sid[r]} ELSE rows
    /\ Goto(r, "cleared")
    /\ UNCHANGED <<account, owner, expires, issued, clock, cookies,
                   kind, who, sid, alive>>

(* The query forgets AND s.expires_at > UTC_TIMESTAMP(). *)
Mutant_ExpiryIgnored(r) ==
    /\ sid[r] \in rows
    /\ who' = [who EXCEPT ![r] = owner[sid[r]]]

(* SELECT the user of the session in the cookie.                              *)
Recognise(r) ==
    /\ Valid(sid[r])
    /\ who' = [who EXCEPT ![r] = owner[sid[r]]]

(* GET /api/auth/me: 200 with the user.                                       *)
Me(r) ==
    /\ pc[r] = "sent"
    /\ kind[r] = "me"
    /\ Recognise(r)
    /\ Goto(r, "recognised")
    /\ UNCHANGED <<tables, clock, cookies, kind, sid, alive>>

(* The third gate, for /api/admin/.                                           *)
CheckAdminAuth(r) ==
    /\ pc[r] = "sent"
    /\ kind[r] = "admin"
    /\ Recognise(r)
    /\ who'[r] \in AdminNames
    /\ Goto(r, "recognised")
    /\ UNCHANGED <<tables, clock, cookies, kind, sid, alive>>

(* The rest of the handler, which asks no more whose session it is.           *)
Serve(r) ==
    /\ pc[r] = "recognised"
    /\ Over(r)
    /\ UNCHANGED <<tables, clock, cookies>>

-----------------------------------------------------------------------------
(* Answers reach the browser in any order; a Set-Cookie takes effect as they  *)
(* do, with a Max-Age that counts from then.                                  *)
Receive(r) ==
    LET b == BrowserOf[r]
    IN  /\ \/ /\ pc[r] = "opened"
              /\ jar' = [jar EXCEPT ![b] = sid[r]]
              /\ until' = [until EXCEPT ![b] = clock + Ttl]
           \/ /\ pc[r] = "cleared"
              /\ jar' = [jar EXCEPT ![b] = NoSession]
              /\ until' = [until EXCEPT ![b] = 0]
        /\ Over(r)
        /\ UNCHANGED <<tables, clock>>

(* The connection breaks, or the page is left, before the answer is there.    *)
Lose(r) ==
    /\ pc[r] \in {"opened", "cleared"}
    /\ Over(r)
    /\ UNCHANGED <<tables, clock, cookies>>

Tick ==
    /\ clock < MaxTime
    /\ clock' = clock + 1
    /\ UNCHANGED <<tables, cookies, request>>

Step(r) ==
    \/ \E k \in Kinds, n \in Names : Send(r, k, n)
    \/ Refuse(r)
    \/ CreateUser(r) \/ FindUser(r) \/ CreateSession(r) \/ DeleteSession(r)
    \/ Me(r) \/ CheckAdminAuth(r) \/ Serve(r)
    \/ Receive(r) \/ Lose(r)

Next == Tick \/ \E r \in Requests : Step(r)

Spec == Init /\ [][Next]_vars

-----------------------------------------------------------------------------
TableType ==
    /\ account \in [Names -> Browsers \cup {Nobody}]
    /\ rows \subseteq Sids
    /\ owner \in [Sids -> Names \cup {Nobody}]
    /\ expires \in [Sids -> Nat]
    /\ issued \in 0..MaxSessions
    /\ \A s \in rows : s <= issued /\ owner[s] \in Names

CookieType ==
    /\ clock \in 0..MaxTime
    /\ jar \in [Browsers -> Sids \cup {NoSession}]
    /\ until \in [Browsers -> Nat]

RequestType ==
    /\ pc \in [Requests -> {"idle", "sent", "created", "verified", "recognised",
                            "opened", "cleared"}]
    /\ kind \in [Requests -> Kinds]
    /\ who \in [Requests -> Names \cup {Nobody}]
    /\ sid \in [Requests -> Sids \cup {NoSession}]
    /\ alive \in [Requests -> BOOLEAN]
    /\ \A r \in Requests :
          /\ pc[r] \in {"created", "verified"} => kind[r] \in {"register", "login"}
          /\ kind[r] \in {"register", "login"} \/ pc[r] = "recognised" => who[r] \in Names

(* Every variable keeps its type; a stored session is an issued one with a    *)
(* user, and a session is only opened for a known one.                        *)
TypeOK == TableType /\ CookieType /\ RequestType

(* However registrations of one name, logins, logouts and lost answers        *)
(* interleave, me and the admin gate recognise a browser only as a user whose *)
(* password its own user chose, and let it pass as administrator only then.   *)
RecognisedAsOneself ==
    \A r \in Requests : pc[r] = "recognised" =>
        /\ Knows(BrowserOf[r], who[r])
        /\ kind[r] = "admin" => who[r] \in AdminNames

(* A request sent after its session was ended, by a logout that deleted it or *)
(* by its time, is never recognised, in whatever order the logout, the clock  *)
(* and the request reach the database; one sent before may be.                *)
NothingAfterTheEnd ==
    \A r \in Requests : pc[r] = "recognised" => alive[r]

(* A session in a browser's cookie is deleted only by a logout of that        *)
(* browser: no other user and no other session of the same user ends it.      *)
OnlyOwnLogoutEnds ==
    [][\A b \in Browsers : jar[b] \in rows /\ jar[b] \notin rows' =>
          \E r \in Requests :
              BrowserOf[r] = b /\ kind[r] = "logout" /\ sid[r] = jar[b]]_vars

(* SPEC.md: logout "clears the minioj_sid cookie and deletes the session row  *)
(* of the database": when it answers 200 the row is gone.                     *)
LogoutEndsSession ==
    \A r \in Requests : pc[r] = "cleared" => sid[r] \notin rows
=============================================================================
