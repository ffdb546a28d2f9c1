------------------------------- MODULE Accounts -------------------------------
(***************************************************************************)
(* pkg/accounts: dashboard accounts, one-time tokens and sessions in       *)
(* Redis, behind the auth handlers of pkg/api.  A call is a sequence of    *)
(* Redis commands that interleaves with the commands of other calls, and   *)
(* may end after any of them (the process stops, the request is cancelled, *)
(* Redis or the mail server answers with an error).                        *)
(*                                                                         *)
(* All sessions have the same lifetime, so they expire in the order they   *)
(* were created in: a session is named by its place in that order, and the *)
(* clock is the last place that has expired.                               *)
(***************************************************************************)
EXTENDS Naturals, FiniteSets

CONSTANTS
    Emails,       \* normalised addresses
    Users,        \* account ids newID can return
    Passwords,    \* acceptable passwords (a hash stands for its password)
    Tokens,       \* one-time tokens newToken can return
    Requests,     \* HTTP requests served at the same time
    MaxSessions,  \* bound: sessions created
    MaxCalls,     \* bound: calls made in a behaviour
    None          \* an absent Redis key

Sessions == 1..MaxSessions

UserRecord == [email : Emails, pw : Passwords, verified : BOOLEAN]

TokenRecord == [purpose : {"verify", "reset"}, user : Users]

VARIABLES
    emailKey,     \* acct:email:<email>: the account that claimed it, or None
    userRec,      \* acct:user:<id>: the record, or None
    tokKey,       \* acct:tok:<purpose>:<token>: what the token stands for, or None
    sessKey,      \* acct:sess:<token>: the session's user, or None
    userSess,     \* acct:usess:<id>: the sessions listed for the user
    sessEnd,      \* when acct:usess:<id> expires: with the session created last
    clock,        \* the sessions up to this one have expired
    lastSess,     \* the last session created
    usedIds,      \* account ids and tokens ever returned by newID and newToken
    mailed,       \* tokens that have reached their mailbox
    calls,        \* calls[p]: the call request p is in, or None
    made,         \* calls made, for the bound
    (* history *)
    uses,         \* uses[k]: calls that were given token k's user
    proved,       \* accounts a verification has been stored for
    wanted,       \* wanted[u]: the password u's owner set last
    raced,        \* accounts written while another call held an older copy
    stranded,     \* accounts whose signup ended before the record was stored
    sessPw,       \* sessPw[s]: the password session s was opened with
    overlapped    \* sessions opened, or kept by a failure, around a reset

redisVars == <<emailKey, userRec, tokKey, sessKey, userSess, sessEnd>>
historyVars == <<uses, proved, wanted, raced, stranded, sessPw, overlapped>>
vars == <<redisVars, clock, lastSess, usedIds, mailed, calls, made, historyVars>>

\* A call: where it is (before the command it is named for), its account and
\* token or session, the password it carries, the record it read, the sessions
\* it listed.
Points == {"store", "issueVerify", "issueReset", "mail", "resendGet", "forgotGet", "verifyGet",
           "verifySet", "resetGet", "resetSet", "list", "drop", "loginGet", "open", "close"}

Call(at, u) ==
    [at |-> at, user |-> u, tok |-> None, pw |-> None, rec |-> None, ids |-> {}]

CallType ==
    [at : Points, user : Users \cup {None}, tok : Tokens \cup Sessions \cup {None},
     pw : Passwords \cup {None}, rec : UserRecord \cup {None}, ids : SUBSET Sessions]

\* An absent value is none of the values that are stored.
ASSUME NoneAssumption ==
    None \notin Users \cup UserRecord \cup TokenRecord \cup CallType
ASSUME BoundAssumption == MaxSessions \in Nat /\ MaxCalls \in Nat

\* Either nothing has happened yet, or one account exists.
Init ==
    /\ \/ /\ emailKey = [e \in Emails |-> None]
          /\ userRec = [u \in Users |-> None]
          /\ usedIds = {}
          /\ proved = {}
          /\ wanted = [u \in Users |-> None]
       \/ \E u \in Users, e \in Emails, w \in Passwords, v \in BOOLEAN :
          /\ emailKey = [x \in Emails |-> IF x = e THEN u ELSE None]
          /\ userRec = [x \in Users |->
                          IF x = u THEN [email |-> e, pw |-> w, verified |-> v] ELSE None]
          /\ usedIds = {u}
          /\ proved = IF v THEN {u} ELSE {}
          /\ wanted = [x \in Users |-> IF x = u THEN w ELSE None]
    /\ tokKey = [k \in Tokens |-> None]
    /\ sessKey = [s \in Sessions |-> None]
    /\ userSess = [u \in Users |-> {}]
    /\ sessEnd = [u \in Users |-> 0]
    /\ clock = 0
    /\ lastSess = 0
    /\ mailed = {}
    /\ calls = [p \in Requests |-> None]
    /\ made = 0
    /\ uses = [k \in Tokens |-> 0]
    /\ raced = {}
    /\ stranded = {}
    /\ sessPw = [s \in Sessions |-> None]
    /\ overlapped = {}

-----------------------------------------------------------------------------
At(p, point) == calls[p] # None /\ calls[p].at = point

Enter(p, c) ==
    /\ calls[p] = None
    /\ made < MaxCalls
    /\ made' = made + 1
    /\ calls' = [calls EXCEPT ![p] = c]

Step(p, c) == calls' = [calls EXCEPT ![p] = c] /\ UNCHANGED made

Goto(p, point) == Step(p, [calls[p] EXCEPT !.at = point])

Return(p) == Step(p, None)

\* Another call holds a copy of u's record it is going to write back.
Holding(p, u) ==
    \E q \in Requests \ {p} :
        calls[q] # None /\ calls[q].user = u /\ calls[q].at \in {"verifySet", "resetSet"}

\* A reset of u has stored the new password and not yet ended the sessions.
Resetting(u) ==
    \E q \in Requests : calls[q] # None /\ calls[q].user = u /\ calls[q].at \in {"list", "drop"}

OpenSessions(u) == {s \in Sessions : sessKey[s] = u}

-----------------------------------------------------------------------------
(* Signup: claim the email (SETNX), store the record, send a verification.  A *)
(* taken email is refused and nothing changes.                                *)

\* Faulty variant: the email is set whether it was claimed or not.
SignupOverwrites(p, e, w, u) ==
    /\ u \notin usedIds
    /\ emailKey' = [emailKey EXCEPT ![e] = u]
    /\ usedIds' = usedIds \cup {u}
    /\ Enter(p, [Call("store", u) EXCEPT
                   !.pw = w, !.rec = [email |-> e, pw |-> w, verified |-> FALSE]])
    /\ UNCHANGED <<userRec, tokKey, sessKey, userSess, sessEnd, clock, lastSess, mailed, historyVars>>

Signup(p, e, w, u) ==
    /\ u \notin usedIds
    /\ emailKey[e] = None
    /\ emailKey' = [emailKey EXCEPT ![e] = u]
    /\ usedIds' = usedIds \cup {u}
    /\ Enter(p, [Call("store", u) EXCEPT
                   !.pw = w, !.rec = [email |-> e, pw |-> w, verified |-> FALSE]])
    /\ UNCHANGED <<userRec, tokKey, sessKey, userSess, sessEnd, clock, lastSess, mailed, historyVars>>

StoreUser(p) ==
    LET u == calls[p].user IN
    /\ At(p, "store")
    /\ userRec' = [userRec EXCEPT ![u] = calls[p].rec]
    /\ wanted' = [wanted EXCEPT ![u] = calls[p].pw]
    /\ Step(p, Call("issueVerify", u))
    /\ UNCHANGED <<emailKey, tokKey, sessKey, userSess, sessEnd, clock, lastSess, usedIds, mailed,
                   uses, proved, raced, stranded, sessPw, overlapped>>

\* Issue: a fresh token, stored with its lifetime.
Issue(p, k, purpose) ==
    /\ k \notin usedIds
    /\ usedIds' = usedIds \cup {k}
    /\ tokKey' = [tokKey EXCEPT ![k] = [purpose |-> purpose, user |-> calls[p].user]]
    /\ Step(p, [Call("mail", calls[p].user) EXCEPT !.tok = k])
    /\ UNCHANGED <<emailKey, userRec, sessKey, userSess, sessEnd, clock, lastSess, mailed, historyVars>>

IssueVerify(p, k) == At(p, "issueVerify") /\ Issue(p, k, "verify")

IssueReset(p, k) == At(p, "issueReset") /\ Issue(p, k, "reset")

\* The mail arrives.  When it is not sent the call ends with an error: Abandon.
SendMail(p) ==
    /\ At(p, "mail")
    /\ mailed' = mailed \cup {calls[p].tok}
    /\ Return(p)
    /\ UNCHANGED <<redisVars, clock, lastSess, usedIds, historyVars>>

-----------------------------------------------------------------------------
(* ResendVerification, RequestReset and Login start with GetByEmail: the email *)
(* key, then the record it names.  An unknown email changes nothing.           *)

LookUp(p, e, c) ==
    /\ emailKey[e] # None
    /\ Enter(p, c)
    /\ UNCHANGED <<redisVars, clock, lastSess, usedIds, mailed, historyVars>>

ResendVerification(p, e) == LookUp(p, e, Call("resendGet", emailKey[e]))

ResendGet(p) ==
    LET r == userRec[calls[p].user] IN
    /\ At(p, "resendGet")
    /\ \/ r = None /\ Return(p)
       \/ r # None /\ r.verified /\ Return(p)
       \/ r # None /\ ~r.verified /\ Goto(p, "issueVerify")
    /\ UNCHANGED <<redisVars, clock, lastSess, usedIds, mailed, historyVars>>

RequestReset(p, e) == LookUp(p, e, Call("forgotGet", emailKey[e]))

ForgotGet(p) ==
    /\ At(p, "forgotGet")
    /\ IF userRec[calls[p].user] = None THEN Return(p) ELSE Goto(p, "issueReset")
    /\ UNCHANGED <<redisVars, clock, lastSess, usedIds, mailed, historyVars>>

Login(p, e, w) == LookUp(p, e, [Call("loginGet", emailKey[e]) EXCEPT !.pw = w])

\* The password and the verified flag of the record as it is read here decide.
LoginGet(p) ==
    LET r == userRec[calls[p].user] IN
    /\ At(p, "loginGet")
    /\ \/ r = None /\ Return(p)
       \/ r # None /\ (r.pw # calls[p].pw \/ ~r.verified) /\ Return(p)
       \/ r # None /\ r.pw = calls[p].pw /\ r.verified /\ Goto(p, "open")
    /\ UNCHANGED <<redisVars, clock, lastSess, usedIds, mailed, historyVars>>

\* Faulty variant: the set's expiry is set when it is created and not renewed.
OpenSessionKeepsExpiry(p) ==
    LET u == calls[p].user
        s == lastSess + 1 IN
    /\ At(p, "open")
    /\ s \in Sessions
    /\ lastSess' = s
    /\ sessKey' = [sessKey EXCEPT ![s] = u]
    /\ userSess' = [userSess EXCEPT ![u] = @ \cup {s}]
    /\ sessEnd' = IF userSess[u] = {} THEN [sessEnd EXCEPT ![u] = s] ELSE sessEnd
    /\ Return(p)
    /\ UNCHANGED <<emailKey, userRec, tokKey, clock, usedIds, mailed, historyVars>>

\* Create: the session, its place in the user's set and the set's expiry in one
\* pipeline.
OpenSession(p) ==
    LET u == calls[p].user
        s == lastSess + 1 IN
    /\ At(p, "open")
    /\ s \in Sessions
    /\ lastSess' = s
    /\ sessKey' = [sessKey EXCEPT ![s] = u]
    /\ userSess' = [userSess EXCEPT ![u] = @ \cup {s}]
    /\ sessEnd' = [sessEnd EXCEPT ![u] = s]
    /\ sessPw' = [sessPw EXCEPT ![s] = calls[p].pw]
    /\ overlapped' = IF Resetting(u) \/ userRec[u].pw # calls[p].pw
                     THEN overlapped \cup {s} ELSE overlapped
    /\ Return(p)
    /\ UNCHANGED <<emailKey, userRec, tokKey, clock, usedIds, mailed,
                   uses, proved, wanted, raced, stranded>>

\* Logout: Delete reads the session's user, then deletes both entries.
Logout(p, s) ==
    /\ s <= lastSess
    /\ Enter(p, [Call("close", sessKey[s]) EXCEPT !.tok = s])
    /\ UNCHANGED <<redisVars, clock, lastSess, usedIds, mailed, historyVars>>

CloseSession(p) ==
    LET s == calls[p].tok
        u == calls[p].user IN
    /\ At(p, "close")
    /\ sessKey' = [sessKey EXCEPT ![s] = None]
    /\ userSess' = IF u # None THEN [userSess EXCEPT ![u] = @ \ {s}] ELSE userSess
    /\ Return(p)
    /\ UNCHANGED <<emailKey, userRec, tokKey, sessEnd, clock, lastSess, usedIds, mailed, historyVars>>

-----------------------------------------------------------------------------
(* Verify and ResetPassword *)

\* Faulty variant: the token is read and left to expire.
ConsumeKeeps(p, k, purpose, c) ==
    /\ tokKey[k] # None
    /\ tokKey[k].purpose = purpose
    /\ uses' = [uses EXCEPT ![k] = @ + 1]
    /\ Enter(p, [c EXCEPT !.user = tokKey[k].user])
    /\ UNCHANGED <<redisVars, clock, lastSess, usedIds, mailed,
                   proved, wanted, raced, stranded, sessPw, overlapped>>

\* Consume (GETDEL): the token is read and gone in one command.  A token that is
\* spent, expired or of the other purpose is refused and nothing changes.
Consume(p, k, purpose, c) ==
    /\ tokKey[k] # None
    /\ tokKey[k].purpose = purpose
    /\ tokKey' = [tokKey EXCEPT ![k] = None]
    /\ uses' = [uses EXCEPT ![k] = @ + 1]
    /\ Enter(p, [c EXCEPT !.user = tokKey[k].user])
    /\ UNCHANGED <<emailKey, userRec, sessKey, userSess, sessEnd, clock, lastSess, usedIds, mailed,
                   proved, wanted, raced, stranded, sessPw, overlapped>>

\* The links in a mailbox can be opened in any order, and more than once.
Verify(p, k) == k \in mailed /\ Consume(p, k, "verify", Call("verifyGet", None))

ResetPassword(p, k, w) ==
    k \in mailed /\ Consume(p, k, "reset", [Call("resetGet", None) EXCEPT !.pw = w])

\* GetByID: the record as it will be written back, and at which point.
Load(p, next, changed) ==
    /\ IF userRec[calls[p].user] = None THEN Return(p)
       ELSE Step(p, [calls[p] EXCEPT !.at = next, !.rec = changed])
    /\ UNCHANGED <<redisVars, clock, lastSess, usedIds, mailed, historyVars>>

VerifyGet(p) ==
    /\ At(p, "verifyGet")
    /\ Load(p, "verifySet", [userRec[calls[p].user] EXCEPT !.verified = TRUE])

\* Faulty variant: the record is built anew and is not verified.
ResetGetUnverifies(p) ==
    /\ At(p, "resetGet")
    /\ Load(p, "resetSet", [userRec[calls[p].user] EXCEPT !.pw = calls[p].pw, !.verified = FALSE])

ResetGet(p) ==
    /\ At(p, "resetGet")
    /\ Load(p, "resetSet", [userRec[calls[p].user] EXCEPT !.pw = calls[p].pw])

\* Update: the whole record is written.
Update(p) ==
    LET u == calls[p].user IN
    /\ userRec' = [userRec EXCEPT ![u] = calls[p].rec]
    /\ raced' = IF Holding(p, u) THEN raced \cup {u} ELSE raced

VerifySet(p) ==
    /\ At(p, "verifySet")
    /\ Update(p)
    /\ proved' = proved \cup {calls[p].user}
    /\ Return(p)
    /\ UNCHANGED <<emailKey, tokKey, sessKey, userSess, sessEnd, clock, lastSess, usedIds, mailed,
                   uses, wanted, stranded, sessPw, overlapped>>

ResetSet(p) ==
    /\ At(p, "resetSet")
    /\ Update(p)
    /\ wanted' = [wanted EXCEPT ![calls[p].user] = calls[p].pw]
    /\ Goto(p, "list")
    /\ UNCHANGED <<emailKey, tokKey, sessKey, userSess, sessEnd, clock, lastSess, usedIds, mailed,
                   uses, proved, stranded, sessPw, overlapped>>

\* Faulty variant: the listed sessions stay, only the set goes.
DropSessionsSetOnly(p) ==
    /\ At(p, "drop")
    /\ userSess' = [userSess EXCEPT ![calls[p].user] = {}]
    /\ Return(p)
    /\ UNCHANGED <<emailKey, userRec, tokKey, sessKey, sessEnd, clock, lastSess, usedIds, mailed,
                   historyVars>>

\* DeleteAllForUser: SMEMBERS, then every listed session and the set.
ListSessions(p) ==
    /\ At(p, "list")
    /\ Step(p, [calls[p] EXCEPT !.at = "drop", !.ids = userSess[calls[p].user]])
    /\ UNCHANGED <<redisVars, clock, lastSess, usedIds, mailed, historyVars>>

DropSessions(p) ==
    /\ At(p, "drop")
    /\ sessKey' = [s \in Sessions |-> IF s \in calls[p].ids THEN None ELSE sessKey[s]]
    /\ userSess' = [userSess EXCEPT ![calls[p].user] = {}]
    /\ Return(p)
    /\ UNCHANGED <<emailKey, userRec, tokKey, sessEnd, clock, lastSess, usedIds, mailed, historyVars>>

-----------------------------------------------------------------------------
(* Time and failure *)

ExpireToken(k) ==
    /\ tokKey[k] # None
    /\ tokKey' = [tokKey EXCEPT ![k] = None]
    /\ UNCHANGED <<emailKey, userRec, sessKey, userSess, sessEnd, clock, lastSess, usedIds, mailed,
                   calls, made, historyVars>>

\* The oldest session's lifetime ends, and that of the sets last touched with it.
ExpireSession ==
    /\ clock < lastSess
    /\ clock' = clock + 1
    /\ sessKey' = [sessKey EXCEPT ![clock'] = None]
    /\ userSess' = [u \in Users |-> IF sessEnd[u] <= clock' THEN {} ELSE userSess[u]]
    /\ UNCHANGED <<emailKey, userRec, tokKey, sessEnd, lastSess, usedIds, mailed,
                   calls, made, historyVars>>

\* The call ends where it is.  What that leaves behind is remembered: an email
\* claimed without an account, sessions a reset has not ended.
Abandon(p) ==
    LET c == calls[p] IN
    /\ c # None
    /\ Return(p)
    /\ stranded' = IF c.at = "store" THEN stranded \cup {c.user} ELSE stranded
    /\ overlapped' = IF c.at \in {"list", "drop"} THEN overlapped \cup OpenSessions(c.user)
                     ELSE overlapped
    /\ UNCHANGED <<redisVars, clock, lastSess, usedIds, mailed, uses, proved, wanted, raced, sessPw>>

-----------------------------------------------------------------------------
Next ==
    \/ \E p \in Requests :
        \/ \E e \in Emails :
             \/ \E w \in Passwords : Login(p, e, w) \/ \E u \in Users : Signup(p, e, w, u)
             \/ ResendVerification(p, e)
             \/ RequestReset(p, e)
        \/ \E k \in Tokens :
             \/ IssueVerify(p, k) \/ IssueReset(p, k)
             \/ Verify(p, k)
             \/ \E w \in Passwords : ResetPassword(p, k, w)
        \/ \E s \in Sessions : Logout(p, s)
        \/ StoreUser(p) \/ SendMail(p)
        \/ ResendGet(p) \/ ForgotGet(p)
        \/ LoginGet(p) \/ OpenSession(p) \/ CloseSession(p)
        \/ VerifyGet(p) \/ VerifySet(p)
        \/ ResetGet(p) \/ ResetSet(p) \/ ListSessions(p) \/ DropSessions(p)
        \/ Abandon(p)
    \/ \E k \in Tokens : ExpireToken(k)
    \/ ExpireSession

Spec == Init /\ [][Next]_vars

-----------------------------------------------------------------------------
(* Properties *)

\* Every Redis key holds what accounts/redisstore.go writes there and every call is
\* at one of its commands.
TypeOK ==
    /\ emailKey \in [Emails -> Users \cup {None}]
    /\ userRec \in [Users -> UserRecord \cup {None}]
    /\ tokKey \in [Tokens -> TokenRecord \cup {None}]
    /\ sessKey \in [Sessions -> Users \cup {None}]
    /\ userSess \in [Users -> SUBSET Sessions]
    /\ sessEnd \in [Users -> 0..MaxSessions]
    /\ clock \in 0..MaxSessions
    /\ lastSess \in 0..MaxSessions
    /\ usedIds \subseteq Users \cup Tokens
    /\ mailed \subseteq Tokens
    /\ calls \in [Requests -> CallType \cup {None}]
    /\ made \in 0..MaxCalls
    /\ uses \in [Tokens -> Nat]
    /\ proved \subseteq Users
    /\ wanted \in [Users -> Passwords \cup {None}]
    /\ raced \subseteq Users
    /\ stranded \subseteq Users
    /\ sessPw \in [Sessions -> Passwords \cup {None}]
    /\ overlapped \subseteq Sessions

\* An email belongs to one account however signups race, and every claimed email
\* has its account once the signup is over, unless that was cut short between
\* CreateUser's two commands: then the email can neither be used nor claimed.
EmailHasItsAccount ==
    /\ \A u \in Users : userRec[u] # None => emailKey[userRec[u].email] = u
    /\ \A e \in Emails : emailKey[e] # None /\ userRec[emailKey[e]] = None =>
           \/ emailKey[e] \in stranded
           \/ \E p \in Requests : At(p, "store") /\ calls[p].user = emailKey[e]

\* A one-time token is acted on at most once, however often and by however many
\* requests its link is opened.
TokenUsedOnce == \A k \in Tokens : uses[k] <= 1

\* Verify and ResetPassword read, change and write back the whole record: neither a
\* verification nor a new password is lost, unless two of them of one account overlap.
UpdatesKept ==
    \A u \in Users \ raced :
        userRec[u] # None => userRec[u].pw = wanted[u] /\ (userRec[u].verified <=> u \in proved)

\* The user's session set, by which a reset finds the sessions, lists every session
\* that is open and does not expire before it, except one opened while a reset runs.
SessionsListed ==
    \A u \in Users : OpenSessions(u) \subseteq userSess[u] \cup overlapped

\* ResetPassword "revokes all of the user's existing sessions" (accounts/service.go:164):
\* once it is over, no session opened with another password is left, unless the login
\* overlapped the reset or the reset was cut short.
ResetEndsSessions ==
    \A u \in Users \ raced : \A s \in OpenSessions(u) \ overlapped :
        sessPw[s] = userRec[u].pw \/ Resetting(u)
=============================================================================
