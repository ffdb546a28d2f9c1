---------------------------- MODULE AccountsProofs ----------------------------
(***************************************************************************)
(* Proofs about Accounts, for any sets of emails, accounts, tokens and     *)
(* requests and any number of sessions.                                    *)
(***************************************************************************)
EXTENDS Accounts, TLAPS

\* A token that can still be consumed has not been, and one that was stored or
\* consumed is not drawn again.
TokenInv ==
    \A k \in Tokens : /\ uses[k] <= 1
                      /\ tokKey[k] # None => uses[k] = 0
                      /\ tokKey[k] # None \/ uses[k] # 0 => k \in usedIds

\* An account that has a record has an id that is not drawn again; without one it is
\* not verified.
AccountInv ==
    /\ \A u \in Users : IF userRec[u] # None THEN u \in usedIds ELSE u \notin proved
    /\ EmailHasItsAccount
    /\ UpdatesKept

\* An open session is one that has been created and has not expired, its user's set
\* does not expire before it, and its user has a record.
SessionInv ==
    /\ clock <= lastSess
    /\ \A s \in Sessions : sessKey[s] # None =>
        /\ clock < s /\ s <= lastSess
        /\ s <= sessEnd[sessKey[s]]
        /\ userRec[sessKey[s]] # None
    /\ SessionsListed
    /\ ResetEndsSessions

\* What call c holds of what it has read: a signup its email, and no record yet; an
\* update the record that is there, changed, unless another update came between; a
\* login a record; a reset every session it has to end.
CallOK(c) ==
    /\ c.at # "close" => c.user \in Users
    /\ c.at = "close" => c.tok \in Sessions
    /\ c.at = "mail" => c.tok \in Tokens
    /\ c.at \in {"store", "loginGet", "open", "resetGet", "resetSet"} => c.pw \in Passwords
    /\ c.at = "store" =>
        /\ c.rec \in UserRecord /\ c.rec.pw = c.pw /\ ~c.rec.verified
        /\ emailKey[c.rec.email] = c.user /\ userRec[c.user] = None /\ c.user \in usedIds
    /\ c.at \in {"verifySet", "resetSet"} =>
        /\ c.rec \in UserRecord /\ userRec[c.user] # None
        /\ c.rec.email = userRec[c.user].email
    /\ c.at = "verifySet" /\ c.user \notin raced => c.rec.pw = userRec[c.user].pw /\ c.rec.verified
    /\ c.at = "resetSet" => /\ c.rec.pw = c.pw
                            /\ c.user \notin raced => c.rec.verified = userRec[c.user].verified
    /\ c.at = "open" => userRec[c.user] # None
    /\ c.at = "drop" => OpenSessions(c.user) \subseteq c.ids \cup overlapped

CallsInv ==
    /\ \A p \in Requests : calls[p] # None => CallOK(calls[p])
    /\ \A p, q \in Requests : At(p, "store") /\ At(q, "store") /\ calls[p].user = calls[q].user => p = q

IInv == TypeOK /\ TokenInv /\ AccountInv /\ SessionInv /\ CallsInv

-----------------------------------------------------------------------------
\* What a call in progress holds.
LEMMA CallFields ==
    ASSUME TypeOK, NEW p \in Requests, calls[p] # None
    PROVE  /\ calls[p] \in CallType /\ calls[p].at \in Points
           /\ calls[p].user \in Users \cup {None} /\ calls[p].pw \in Passwords \cup {None}
           /\ calls[p].ids \in SUBSET Sessions
  BY DEF TypeOK, CallType

\* A step of request p leaves the calls of the others.
LEMMA StepCalls ==
    ASSUME TypeOK, NEW p \in Requests, NEW c \in CallType \cup {None},
           calls' = [calls EXCEPT ![p] = c]
    PROVE  /\ calls' \in [Requests -> CallType \cup {None}] /\ calls'[p] = c
           /\ \A q \in Requests : q # p => calls'[q] = calls[q]
  BY DEF TypeOK

LEMMA GotoCalls ==
    ASSUME TypeOK, NEW p \in Requests, calls[p] # None, NEW point \in Points, Goto(p, point)
    PROVE  /\ calls' \in [Requests -> CallType \cup {None}] /\ made' = made
           /\ \A q \in Requests : q # p => calls'[q] = calls[q]
           /\ calls'[p] # None
           /\ calls'[p].at = point /\ calls'[p].user = calls[p].user /\ calls'[p].tok = calls[p].tok
           /\ calls'[p].pw = calls[p].pw /\ calls'[p].rec = calls[p].rec /\ calls'[p].ids = calls[p].ids
<1> DEFINE c == [calls[p] EXCEPT !.at = point]
<1>1. calls[p] \in CallType
  BY CallFields
<1>2. /\ c \in CallType /\ c.at = point /\ c.user = calls[p].user /\ c.tok = calls[p].tok
      /\ c.pw = calls[p].pw /\ c.rec = calls[p].rec /\ c.ids = calls[p].ids
  BY <1>1 DEF CallType
<1>3. c # None
  BY <1>2, NoneAssumption
<1>4. calls' = [calls EXCEPT ![p] = c] /\ made' = made
  BY DEF Goto, Step
<1> QED
  BY <1>2, <1>3, <1>4, StepCalls

LEMMA ReturnCalls ==
    ASSUME TypeOK, NEW p \in Requests, Return(p)
    PROVE  /\ calls' \in [Requests -> CallType \cup {None}] /\ made' = made
           /\ \A q \in Requests : q # p => calls'[q] = calls[q]
           /\ calls'[p] = None
  BY DEF Return, Step, TypeOK

LEMMA EnterCalls ==
    ASSUME TypeOK, NEW p \in Requests, NEW c \in CallType, Enter(p, c)
    PROVE  /\ calls' \in [Requests -> CallType \cup {None}] /\ made' \in 0..MaxCalls
           /\ \A q \in Requests : q # p => calls'[q] = calls[q]
           /\ calls[p] = None /\ calls'[p] = c /\ c # None
  BY BoundAssumption, NoneAssumption DEF Enter, TypeOK

-----------------------------------------------------------------------------
LEMMA InitInv == Init => IInv
<1> SUFFICES ASSUME Init PROVE IInv
  OBVIOUS
<1>1. TypeOK
  BY BoundAssumption DEF Init, TypeOK, UserRecord
<1>2. TokenInv
  BY DEF Init, TokenInv
<1>3. AccountInv
  <2>1. CASE userRec = [u \in Users |-> None] /\ emailKey = [e \in Emails |-> None] /\ proved = {}
    BY <2>1 DEF AccountInv, EmailHasItsAccount, UpdatesKept
  <2>2. ASSUME NEW u \in Users, NEW e \in Emails, NEW w \in Passwords, NEW v \in BOOLEAN,
               emailKey = [x \in Emails |-> IF x = e THEN u ELSE None],
               userRec = [x \in Users |-> IF x = u THEN [email |-> e, pw |-> w, verified |-> v] ELSE None],
               usedIds = {u}, proved = (IF v THEN {u} ELSE {}),
               wanted = [x \in Users |-> IF x = u THEN w ELSE None]
        PROVE  AccountInv
    <3> DEFINE r == [email |-> e, pw |-> w, verified |-> v]
    <3>1. r \in UserRecord /\ r.email = e /\ r.pw = w /\ r.verified = v
      BY DEF UserRecord
    <3>2. r # None
      BY <3>1, NoneAssumption
    <3>3. \A x \in Users : IF x = u THEN userRec[x] = r ELSE userRec[x] = None
      BY <2>2
    <3>4. \A x \in Users : IF userRec[x] # None THEN x \in usedIds ELSE x \notin proved
      BY <2>2, <3>2, <3>3
    <3>5. EmailHasItsAccount
      BY <2>2, <3>1, <3>2, <3>3 DEF EmailHasItsAccount
    <3>6. UpdatesKept
      BY <2>2, <3>1, <3>2, <3>3 DEF UpdatesKept
    <3> QED
      BY <3>4, <3>5, <3>6 DEF AccountInv
  <2> QED
    BY <2>1, <2>2 DEF Init
<1>4. SessionInv
  BY NoneAssumption, BoundAssumption
     DEF Init, SessionInv, SessionsListed, ResetEndsSessions, OpenSessions, Sessions
<1>5. CallsInv
  BY DEF Init, CallsInv, At
<1> QED
  BY <1>1, <1>2, <1>3, <1>4, <1>5 DEF IInv

\* The variables of accounts and sessions, which many steps only read.
accountVars == <<emailKey, userRec, proved, wanted, raced, stranded>>
sessionVars == <<sessKey, userSess, sessEnd, clock, lastSess, sessPw, overlapped>>

\* A step that writes no account and no session: what the tokens and its own call
\* now hold is to be shown.
LEMMA QuietStep ==
    ASSUME IInv, NEW p \in Requests,
           UNCHANGED accountVars, UNCHANGED sessionVars,
           usedIds \subseteq usedIds', usedIds' \subseteq Users \cup Tokens,
           mailed' \subseteq Tokens, tokKey' \in [Tokens -> TokenRecord \cup {None}],
           uses' \in [Tokens -> Nat], TokenInv', made' \in 0..MaxCalls,
           calls' \in [Requests -> CallType \cup {None}],
           \A q \in Requests : q # p => calls'[q] = calls[q],
           ~At(p, "store"), ~At(p, "store")',
           At(p, "list") => At(p, "drop")' /\ calls'[p].user = calls[p].user,
           ~At(p, "drop"),
           calls'[p] # None => CallOK(calls[p])'
    PROVE  IInv'
<1> USE DEF IInv
<1>0. UNCHANGED <<emailKey, userRec, proved, wanted, raced, stranded,
                  sessKey, userSess, sessEnd, clock, lastSess, sessPw, overlapped>>
  BY DEF accountVars, sessionVars
<1>1. TypeOK'
  BY <1>0 DEF TypeOK
<1>2. AccountInv'
  <2>1. EmailHasItsAccount'
    BY <1>0 DEF AccountInv, EmailHasItsAccount, At
  <2>2. UpdatesKept'
    BY <1>0 DEF AccountInv, UpdatesKept
  <2> QED
    BY <1>0, <2>1, <2>2 DEF AccountInv
<1>3. SessionInv'
  <2>1. \A u \in Users : Resetting(u) => Resetting(u)'
    BY DEF Resetting, At
  <2>2. ResetEndsSessions'
    BY <1>0, <2>1 DEF SessionInv, ResetEndsSessions, OpenSessions
  <2>3. SessionsListed'
    BY <1>0 DEF SessionInv, SessionsListed, OpenSessions
  <2> QED
    BY <1>0, <2>2, <2>3 DEF SessionInv
<1>4. CallsInv'
  <2>1. ASSUME NEW q \in Requests, q # p, calls[q] # None
        PROVE  CallOK(calls[q])'
    <3>1. CallOK(calls[q]) /\ calls'[q] = calls[q]
      BY <2>1 DEF CallsInv
    <3> QED
      BY <1>0, <3>1 DEF CallOK, OpenSessions
  <2>2. \A q, r \in Requests : At(q, "store")' /\ At(r, "store")' /\ calls'[q].user = calls'[r].user => q = r
    BY DEF CallsInv, At
  <2> QED
    BY <2>1, <2>2 DEF CallsInv
<1> QED
  BY <1>1, <1>2, <1>3, <1>4

\* A call starts with a lookup, a consumed token or a logout.
LEMMA EnterStep ==
    ASSUME IInv, NEW p \in Requests, NEW c \in CallType, Enter(p, c),
           c.at \in {"resendGet", "forgotGet", "loginGet", "verifyGet", "resetGet", "close"},
           c.at # "close" => c.user \in Users,
           c.at = "close" => c.tok \in Sessions,
           c.at \in {"loginGet", "resetGet"} => c.pw \in Passwords,
           UNCHANGED accountVars, UNCHANGED sessionVars, UNCHANGED <<usedIds, mailed>>,
           tokKey' \in [Tokens -> TokenRecord \cup {None}], uses' \in [Tokens -> Nat], TokenInv'
    PROVE  IInv'
<1>1. /\ calls' \in [Requests -> CallType \cup {None}] /\ made' \in 0..MaxCalls
      /\ \A q \in Requests : q # p => calls'[q] = calls[q]
      /\ calls[p] = None /\ calls'[p] = c /\ c # None
  BY EnterCalls DEF IInv
<1>2. CallOK(calls[p])'
  BY <1>1 DEF CallOK
<1>3. ~At(p, "store") /\ ~At(p, "store")' /\ ~At(p, "list") /\ ~At(p, "drop")
  BY <1>1 DEF At
<1> QED
  BY <1>1, <1>2, <1>3, QuietStep DEF IInv, TypeOK

\* A call that has written nothing yet, and holds nothing a step relies on, ends.
LEMMA ReturnStep ==
    ASSUME IInv, NEW p \in Requests, calls[p] # None, calls[p].at \notin {"store", "list", "drop"}, Return(p),
           UNCHANGED accountVars, UNCHANGED sessionVars, UNCHANGED <<usedIds, tokKey, uses>>,
           mailed' \subseteq Tokens
    PROVE  IInv'
<1>1. /\ calls' \in [Requests -> CallType \cup {None}] /\ made' = made
      /\ \A q \in Requests : q # p => calls'[q] = calls[q]
      /\ calls'[p] = None
  BY ReturnCalls DEF IInv
<1>2. ~At(p, "store") /\ ~At(p, "store")' /\ ~At(p, "list") /\ ~At(p, "drop")
  BY <1>1 DEF At
<1>3. TokenInv'
  BY DEF IInv, TokenInv
<1> QED
  BY <1>1, <1>2, <1>3, QuietStep DEF IInv, TypeOK

\* A call goes on with what it has read.
LEMMA StepStep ==
    ASSUME IInv, NEW p \in Requests, calls[p] # None, NEW c \in CallType, Step(p, c),
           calls[p].at \notin {"store", "drop"}, c.at # "store",
           calls[p].at = "list" => c.at = "drop" /\ c.user = calls[p].user,
           CallOK(c),
           UNCHANGED accountVars, UNCHANGED sessionVars,
           usedIds \subseteq usedIds', usedIds' \subseteq Users \cup Tokens, UNCHANGED <<mailed, uses>>,
           tokKey' \in [Tokens -> TokenRecord \cup {None}], TokenInv'
    PROVE  IInv'
<1>1. calls' = [calls EXCEPT ![p] = c] /\ made' = made
  BY DEF Step
<1>2. /\ calls' \in [Requests -> CallType \cup {None}]
      /\ \A q \in Requests : q # p => calls'[q] = calls[q]
      /\ calls'[p] = c
  BY <1>1, StepCalls DEF IInv
<1>3. c # None
  BY NoneAssumption
<1>4. ~At(p, "store") /\ ~At(p, "store")' /\ ~At(p, "drop")
      /\ (At(p, "list") => At(p, "drop")' /\ calls'[p].user = calls[p].user)
  BY <1>2, <1>3 DEF At
<1>5. CallOK(calls[p])'
  BY <1>2 DEF CallOK, OpenSessions, accountVars, sessionVars
<1> QED
  BY <1>1, <1>2, <1>4, <1>5, QuietStep DEF IInv, TypeOK

LEMMA LookUpStep ==
    ASSUME IInv, NEW p \in Requests, NEW e \in Emails,
           \/ ResendVerification(p, e) \/ RequestReset(p, e)
           \/ \E w \in Passwords : Login(p, e, w)
    PROVE  IInv'
<1> USE DEF IInv
<1>0. UNCHANGED accountVars /\ UNCHANGED sessionVars /\ UNCHANGED <<usedIds, mailed, tokKey, uses>>
  BY DEF ResendVerification, RequestReset, Login, LookUp, redisVars, historyVars, accountVars, sessionVars
<1>1. TokenInv' /\ tokKey' \in [Tokens -> TokenRecord \cup {None}] /\ uses' \in [Tokens -> Nat]
  BY <1>0 DEF TokenInv, TypeOK
<1>2. emailKey[e] \in Users
  BY DEF ResendVerification, RequestReset, Login, LookUp, TypeOK
<1>3. ASSUME NEW point \in {"resendGet", "forgotGet"}, Enter(p, Call(point, emailKey[e]))
      PROVE  IInv'
  <2> DEFINE c == Call(point, emailKey[e])
  <2>1. c \in CallType /\ c.at = point /\ c.user = emailKey[e]
    BY <1>2 DEF Call, CallType, Points
  <2> QED
    BY <1>0, <1>1, <1>2, <1>3, <2>1, EnterStep
<1>4. ASSUME NEW w \in Passwords, Enter(p, [Call("loginGet", emailKey[e]) EXCEPT !.pw = w])
      PROVE  IInv'
  <2> DEFINE c == [Call("loginGet", emailKey[e]) EXCEPT !.pw = w]
  <2>1. c \in CallType /\ c.at = "loginGet" /\ c.user = emailKey[e] /\ c.pw = w
    BY <1>2 DEF Call, CallType, Points
  <2> QED
    BY <1>0, <1>1, <1>2, <1>4, <2>1, EnterStep
<1> QED
  BY <1>3, <1>4 DEF ResendVerification, RequestReset, Login, LookUp

\* The token is gone with its first use.
LEMMA ConsumeStep ==
    ASSUME IInv, NEW p \in Requests, NEW k \in Tokens, Verify(p, k) \/ \E w \in Passwords : ResetPassword(p, k, w)
    PROVE  IInv'
<1> USE DEF IInv
<1>0. /\ UNCHANGED accountVars /\ UNCHANGED sessionVars /\ UNCHANGED <<usedIds, mailed>>
      /\ tokKey[k] # None /\ tokKey' = [tokKey EXCEPT ![k] = None]
      /\ uses' = [uses EXCEPT ![k] = @ + 1]
  BY DEF Verify, ResetPassword, Consume, accountVars, sessionVars
<1>1. tokKey[k].user \in Users
  BY <1>0 DEF TypeOK, TokenRecord
<1>2. tokKey' \in [Tokens -> TokenRecord \cup {None}] /\ uses' \in [Tokens -> Nat]
  BY <1>0 DEF TypeOK
<1>3. TokenInv'
  BY <1>0 DEF TokenInv, TypeOK
<1>4. CASE Verify(p, k)
  <2> DEFINE c == [Call("verifyGet", None) EXCEPT !.user = tokKey[k].user]
  <2>1. c \in CallType /\ c.at = "verifyGet" /\ c.user = tokKey[k].user
    BY <1>1 DEF Call, CallType, Points
  <2>2. Enter(p, c)
    BY <1>4 DEF Verify, Consume
  <2> QED
    BY <1>0, <1>1, <1>2, <1>3, <2>1, <2>2, EnterStep
<1>5. ASSUME NEW w \in Passwords, ResetPassword(p, k, w)
      PROVE  IInv'
  <2> DEFINE c == [[Call("resetGet", None) EXCEPT !.pw = w] EXCEPT !.user = tokKey[k].user]
  <2>1. c \in CallType /\ c.at = "resetGet" /\ c.user = tokKey[k].user /\ c.pw = w
    BY <1>1 DEF Call, CallType, Points
  <2>2. Enter(p, c)
    BY <1>5 DEF ResetPassword, Consume
  <2> QED
    BY <1>0, <1>1, <1>2, <1>3, <2>1, <2>2, EnterStep
<1> QED
  BY <1>4, <1>5

LEMMA LogoutStep ==
    ASSUME IInv, NEW p \in Requests, NEW s \in Sessions, Logout(p, s)
    PROVE  IInv'
<1> USE DEF IInv
<1> DEFINE c == [Call("close", sessKey[s]) EXCEPT !.tok = s]
<1>0. UNCHANGED accountVars /\ UNCHANGED sessionVars /\ UNCHANGED <<usedIds, mailed, tokKey, uses>>
  BY DEF Logout, redisVars, historyVars, accountVars, sessionVars
<1>1. TokenInv' /\ tokKey' \in [Tokens -> TokenRecord \cup {None}] /\ uses' \in [Tokens -> Nat]
  BY <1>0 DEF TokenInv, TypeOK
<1>2. c \in CallType /\ c.at = "close" /\ c.tok = s
  BY DEF Call, CallType, Points, TypeOK
<1> QED
  BY <1>0, <1>1, <1>2, EnterStep DEF Logout

\* A token is drawn that was never drawn before.
LEMMA IssueStep ==
    ASSUME IInv, NEW p \in Requests, NEW k \in Tokens, IssueVerify(p, k) \/ IssueReset(p, k)
    PROVE  IInv'
<1> USE DEF IInv
<1> DEFINE u == calls[p].user
           c == [Call("mail", u) EXCEPT !.tok = k]
<1>0. PICK purpose \in {"verify", "reset"} : Issue(p, k, purpose)
  BY DEF IssueVerify, IssueReset
<1>1. calls[p] # None /\ calls[p].at \in {"issueVerify", "issueReset"} /\ u \in Users
  BY DEF IssueVerify, IssueReset, At, CallsInv, CallOK
<1>2. c \in CallType /\ c.at = "mail" /\ c.user = u /\ c.tok = k
  BY <1>1 DEF Call, CallType, Points
<1>3. /\ UNCHANGED accountVars /\ UNCHANGED sessionVars /\ UNCHANGED <<mailed, uses>>
      /\ k \notin usedIds /\ usedIds' = usedIds \cup {k}
      /\ tokKey' = [tokKey EXCEPT ![k] = [purpose |-> purpose, user |-> u]]
      /\ Step(p, c)
  BY <1>0 DEF Issue, historyVars, accountVars, sessionVars
<1>4. tokKey' \in [Tokens -> TokenRecord \cup {None}]
  BY <1>1, <1>3 DEF TypeOK, TokenRecord
<1>5. TokenInv'
  BY <1>3 DEF TokenInv, TypeOK
<1>6. CallOK(c)
  BY <1>1, <1>2 DEF CallOK
<1> QED
  BY <1>1, <1>2, <1>3, <1>4, <1>5, <1>6, StepStep DEF TypeOK

LEMMA GetStep ==
    ASSUME IInv, NEW p \in Requests, ResendGet(p) \/ ForgotGet(p) \/ LoginGet(p)
    PROVE  IInv'
<1> USE DEF IInv
<1>0. UNCHANGED accountVars /\ UNCHANGED sessionVars /\ UNCHANGED <<usedIds, mailed, tokKey, uses>>
  BY DEF ResendGet, ForgotGet, LoginGet, redisVars, historyVars, accountVars, sessionVars
<1>1. /\ TokenInv' /\ tokKey' \in [Tokens -> TokenRecord \cup {None}]
      /\ usedIds \subseteq usedIds' /\ usedIds' \subseteq Users \cup Tokens /\ mailed' \subseteq Tokens
  BY <1>0 DEF TokenInv, TypeOK
<1>2. /\ calls[p] # None /\ CallOK(calls[p]) /\ calls[p] \in CallType
      /\ calls[p].at \in {"resendGet", "forgotGet", "loginGet"} /\ calls[p].user \in Users
  BY CallFields DEF ResendGet, ForgotGet, LoginGet, At, CallsInv, CallOK
<1>3. CASE Return(p)
  BY <1>0, <1>1, <1>2, <1>3, ReturnStep
<1>4. ASSUME NEW point \in {"issueVerify", "issueReset", "open"}, Goto(p, point),
             point = "open" => calls[p].at = "loginGet" /\ userRec[calls[p].user] # None
      PROVE  IInv'
  <2> DEFINE c == [calls[p] EXCEPT !.at = point]
  <2>1. c \in CallType /\ c.at = point /\ c.user = calls[p].user /\ c.pw = calls[p].pw
    BY <1>2 DEF CallType, Points
  <2>2. CallOK(c)
    BY <1>2, <1>4, <2>1 DEF CallOK
  <2> QED
    BY <1>0, <1>1, <1>2, <1>4, <2>1, <2>2, StepStep DEF Goto
<1> QED
  BY <1>3, <1>4 DEF ResendGet, ForgotGet, LoginGet, At

\* A record is read to be changed and written back.
LEMMA LoadStep ==
    ASSUME IInv, NEW p \in Requests, VerifyGet(p) \/ ResetGet(p)
    PROVE  IInv'
<1> USE DEF IInv
<1> DEFINE u == calls[p].user
           r == userRec[u]
<1>0. UNCHANGED accountVars /\ UNCHANGED sessionVars /\ UNCHANGED <<usedIds, mailed, tokKey, uses>>
  BY DEF VerifyGet, ResetGet, Load, redisVars, historyVars, accountVars, sessionVars
<1>1. /\ TokenInv' /\ tokKey' \in [Tokens -> TokenRecord \cup {None}]
      /\ usedIds \subseteq usedIds' /\ usedIds' \subseteq Users \cup Tokens /\ mailed' \subseteq Tokens
  BY <1>0 DEF TokenInv, TypeOK
<1>2. /\ calls[p] # None /\ CallOK(calls[p]) /\ calls[p] \in CallType
      /\ calls[p].at \in {"verifyGet", "resetGet"} /\ u \in Users
  BY CallFields DEF VerifyGet, ResetGet, At, CallsInv, CallOK
<1>3. CASE r = None
  BY <1>0, <1>1, <1>2, <1>3, ReturnStep DEF VerifyGet, ResetGet, Load
<1>4. CASE r # None
  <2>1. r \in UserRecord
    BY <1>2, <1>4 DEF TypeOK
  <2>2. CASE VerifyGet(p)
    <3> DEFINE n == [r EXCEPT !.verified = TRUE]
               c == [calls[p] EXCEPT !.at = "verifySet", !.rec = n]
    <3>1. n \in UserRecord /\ n.verified = TRUE /\ n.pw = r.pw /\ n.email = r.email
      BY <2>1 DEF UserRecord
    <3>2. c \in CallType /\ c.at = "verifySet" /\ c.rec = n /\ c.user = u
      BY <1>2, <3>1 DEF CallType, Points
    <3>3. CallOK(c)
      BY <1>2, <1>4, <3>1, <3>2 DEF CallOK
    <3>4. Step(p, c)
      BY <1>4, <2>2 DEF VerifyGet, Load
    <3> QED
      BY <1>0, <1>1, <1>2, <3>2, <3>3, <3>4, StepStep
  <2>3. CASE ResetGet(p)
    <3> DEFINE n == [r EXCEPT !.pw = calls[p].pw]
               c == [calls[p] EXCEPT !.at = "resetSet", !.rec = n]
    <3>0. calls[p].pw \in Passwords
      BY <1>2, <2>3 DEF ResetGet, At, CallOK
    <3>1. n \in UserRecord /\ n.verified = r.verified /\ n.pw = calls[p].pw /\ n.email = r.email
      BY <2>1, <3>0 DEF UserRecord
    <3>2. c \in CallType /\ c.at = "resetSet" /\ c.rec = n /\ c.user = u /\ c.pw = calls[p].pw
      BY <1>2, <3>1 DEF CallType, Points
    <3>3. CallOK(c)
      BY <1>2, <1>4, <3>0, <3>1, <3>2 DEF CallOK
    <3>4. Step(p, c)
      BY <1>4, <2>3 DEF ResetGet, Load
    <3> QED
      BY <1>0, <1>1, <1>2, <3>2, <3>3, <3>4, StepStep
  <2> QED
    BY <2>2, <2>3
<1> QED
  BY <1>3, <1>4

\* SMEMBERS lists every session of the user but the overlapped ones.
LEMMA ListStep ==
    ASSUME IInv, NEW p \in Requests, ListSessions(p)
    PROVE  IInv'
<1> USE DEF IInv
<1> DEFINE u == calls[p].user
           c == [calls[p] EXCEPT !.at = "drop", !.ids = userSess[u]]
<1>0. UNCHANGED accountVars /\ UNCHANGED sessionVars /\ UNCHANGED <<usedIds, mailed, tokKey, uses>>
  BY DEF ListSessions, redisVars, historyVars, accountVars, sessionVars
<1>1. /\ TokenInv' /\ tokKey' \in [Tokens -> TokenRecord \cup {None}]
      /\ usedIds \subseteq usedIds' /\ usedIds' \subseteq Users \cup Tokens
  BY <1>0 DEF TokenInv, TypeOK
<1>2. calls[p] # None /\ calls[p] \in CallType /\ calls[p].at = "list" /\ u \in Users
  BY CallFields DEF ListSessions, At, CallsInv, CallOK
<1>3. c \in CallType /\ c.at = "drop" /\ c.user = u /\ c.ids = userSess[u]
  BY <1>2 DEF CallType, Points, TypeOK
<1>4. CallOK(c)
  BY <1>2, <1>3 DEF CallOK, SessionInv, SessionsListed
<1> QED
  BY <1>0, <1>1, <1>2, <1>3, <1>4, StepStep DEF ListSessions

LEMMA MailStep ==
    ASSUME IInv, NEW p \in Requests, SendMail(p)
    PROVE  IInv'
<1> USE DEF IInv
<1>1. UNCHANGED accountVars /\ UNCHANGED sessionVars /\ UNCHANGED <<usedIds, tokKey, uses>>
  BY DEF SendMail, redisVars, historyVars, accountVars, sessionVars
<1>2. calls[p] # None /\ calls[p].at = "mail" /\ mailed' \subseteq Tokens
  BY DEF SendMail, At, CallsInv, CallOK, TypeOK
<1> QED
  BY <1>1, <1>2, ReturnStep DEF SendMail

-----------------------------------------------------------------------------
(* The steps that write an account. *)

\* A step of an account leaves the sessions as they were, when every user with a
\* session keeps a record with the same password, or has a reset running.
LEMMA SessionsKept ==
    ASSUME IInv, UNCHANGED sessionVars,
           \A u \in Users : userRec[u] # None => userRec'[u] # None,
           raced \subseteq raced',
           \A u \in Users \ raced' : userRec[u] # None => userRec'[u].pw = userRec[u].pw \/ Resetting(u)',
           \A u \in Users : Resetting(u) => Resetting(u)'
    PROVE  SessionInv'
<1>0. UNCHANGED <<sessKey, userSess, sessEnd, clock, lastSess, sessPw, overlapped>>
  BY DEF sessionVars
<1>1. \A s \in Sessions : sessKey[s] # None => sessKey[s] \in Users /\ userRec[sessKey[s]] # None
  BY DEF IInv, SessionInv, TypeOK
<1>2. SessionsListed'
  BY <1>0 DEF IInv, SessionInv, SessionsListed, OpenSessions
<1>3. ResetEndsSessions'
  <2> SUFFICES ASSUME NEW u \in Users \ raced', NEW s \in OpenSessions(u) \ overlapped
               PROVE  sessPw[s] = userRec'[u].pw \/ Resetting(u)'
    BY <1>0 DEF ResetEndsSessions, OpenSessions
  <2>1. userRec[u] # None
    BY <1>1, NoneAssumption DEF OpenSessions
  <2>2. sessPw[s] = userRec[u].pw \/ Resetting(u)
    BY DEF IInv, SessionInv, ResetEndsSessions
  <2> QED
    BY <2>1, <2>2
<1> QED
  BY <1>0, <1>1, <1>2, <1>3 DEF IInv, SessionInv

\* The email is claimed by an id that was never used.
LEMMA SignupStep ==
    ASSUME IInv, NEW p \in Requests, NEW e \in Emails, NEW w \in Passwords, NEW u \in Users, Signup(p, e, w, u)
    PROVE  IInv'
<1> USE DEF IInv
<1> DEFINE r == [email |-> e, pw |-> w, verified |-> FALSE]
           c == [Call("store", u) EXCEPT !.pw = w, !.rec = r]
<1>1. r \in UserRecord /\ r.email = e /\ r.pw = w /\ r.verified = FALSE
  BY DEF UserRecord
<1>2. c \in CallType /\ c.at = "store" /\ c.user = u /\ c.pw = w /\ c.rec = r
  BY <1>1 DEF Call, CallType, Points
<1>3. /\ calls' \in [Requests -> CallType \cup {None}] /\ made' \in 0..MaxCalls
      /\ \A q \in Requests : q # p => calls'[q] = calls[q]
      /\ calls[p] = None /\ calls'[p] = c /\ c # None
  BY <1>2, EnterCalls DEF Signup
<1>4. /\ u \notin usedIds /\ emailKey[e] = None
      /\ emailKey' = [emailKey EXCEPT ![e] = u] /\ usedIds' = usedIds \cup {u}
      /\ UNCHANGED <<userRec, tokKey, mailed, uses, proved, wanted, raced, stranded>> /\ UNCHANGED sessionVars
  BY DEF Signup, historyVars, sessionVars
<1>5. emailKey'[e] = u /\ \A x \in Emails : x # e => emailKey'[x] = emailKey[x]
  BY <1>4 DEF TypeOK
<1>6. userRec[u] = None
  BY <1>4 DEF AccountInv
<1>7. TypeOK'
  BY <1>3, <1>4 DEF TypeOK, sessionVars
<1>8. TokenInv'
  BY <1>4 DEF TokenInv
<1>9. AccountInv'
  <2>1. \A v \in Users : userRec[v] # None => userRec[v].email # e /\ userRec[v].email \in Emails
    BY <1>4, NoneAssumption DEF AccountInv, EmailHasItsAccount, TypeOK, UserRecord
  <2>2. \A v \in Users : userRec'[v] # None => emailKey'[userRec'[v].email] = v
    BY <1>4, <1>5, <2>1 DEF AccountInv, EmailHasItsAccount
  <2>3. \A x \in Emails : emailKey'[x] # None /\ userRec'[emailKey'[x]] = None =>
           \/ emailKey'[x] \in stranded'
           \/ \E q \in Requests : At(q, "store")' /\ calls'[q].user = emailKey'[x]
    <3> SUFFICES ASSUME NEW x \in Emails, emailKey'[x] # None, userRec[emailKey'[x]] = None
                 PROVE  \/ emailKey'[x] \in stranded
                        \/ \E q \in Requests : At(q, "store")' /\ calls'[q].user = emailKey'[x]
      BY <1>4
    <3>1. CASE x = e
      BY <1>2, <1>3, <1>5, <3>1 DEF At
    <3>2. CASE x # e
      <4>1. emailKey'[x] = emailKey[x]
        BY <1>5, <3>2
      <4>2. CASE emailKey[x] \in stranded
        BY <4>1, <4>2
      <4>3. CASE \E q \in Requests : At(q, "store") /\ calls[q].user = emailKey[x]
        <5>1. PICK q \in Requests : At(q, "store") /\ calls[q].user = emailKey[x]
          BY <4>3
        <5>2. q # p
          BY <5>1, <1>3 DEF At
        <5> QED BY <5>1, <5>2, <4>1, <1>3 DEF At
      <4> QED
        BY <4>1, <4>2, <4>3 DEF AccountInv, EmailHasItsAccount
    <3> QED BY <3>1, <3>2
  <2>4. UpdatesKept'
    BY <1>4 DEF AccountInv, UpdatesKept
  <2> QED
    BY <1>4, <2>2, <2>3, <2>4 DEF AccountInv, EmailHasItsAccount
<1>10. SessionInv'
  <2>1. \A v \in Users : Resetting(v) => Resetting(v)'
    BY <1>3 DEF Resetting
  <2> QED
    BY <1>4, <2>1, SessionsKept
<1>11. CallsInv'
  <2>1. CallOK(calls[p])'
    BY <1>1, <1>2, <1>3, <1>4, <1>5, <1>6 DEF CallOK
  <2>2. ASSUME NEW q \in Requests, q # p, calls[q] # None
        PROVE  CallOK(calls[q])'
    <3>1. CallOK(calls[q]) /\ calls'[q] = calls[q]
      BY <1>3, <2>2 DEF CallsInv
    <3>2. calls[q].at = "store" => emailKey'[calls[q].rec.email] = emailKey[calls[q].rec.email]
      <4> SUFFICES ASSUME calls[q].at = "store"
                   PROVE  emailKey'[calls[q].rec.email] = emailKey[calls[q].rec.email]
        OBVIOUS
      <4>1. calls[q].rec.email \in Emails /\ emailKey[calls[q].rec.email] \in Users
        BY <3>1 DEF CallOK, UserRecord
      <4>2. calls[q].rec.email # e
        BY <1>4, <4>1, NoneAssumption
      <4> QED BY <1>5, <4>1, <4>2
    <3> QED
      BY <1>4, <3>1, <3>2 DEF CallOK, OpenSessions, sessionVars
  <2>3. \A q \in Requests : q # p /\ At(q, "store")' => calls'[q].user # u
    BY <1>3, <1>4 DEF CallsInv, CallOK, At
  <2>4. \A q, x \in Requests : At(q, "store")' /\ At(x, "store")' /\ calls'[q].user = calls'[x].user => q = x
    <3>1. \A q \in Requests : q # p /\ At(q, "store")' => At(q, "store") /\ calls'[q] = calls[q]
      BY <1>3 DEF At
    <3>2. calls'[p].user = u
      BY <1>2, <1>3
    <3> QED
      BY <2>3, <3>1, <3>2 DEF CallsInv
  <2> QED
    BY <1>3, <2>1, <2>2, <2>4 DEF CallsInv
<1> QED
  BY <1>7, <1>8, <1>9, <1>10, <1>11

\* The record that was settled on at the signup is stored, for the first time.
LEMMA StoreStep ==
    ASSUME IInv, NEW p \in Requests, StoreUser(p)
    PROVE  IInv'
<1> USE DEF IInv
<1> DEFINE u == calls[p].user
           r == calls[p].rec
           c == Call("issueVerify", u)
<1>1. /\ calls[p] # None /\ calls[p].at = "store" /\ CallOK(calls[p]) /\ u \in Users
      /\ calls[p].pw \in Passwords /\ r \in UserRecord /\ r.pw = calls[p].pw /\ ~r.verified
      /\ emailKey[r.email] = u /\ userRec[u] = None /\ u \in usedIds
  BY DEF StoreUser, At, CallsInv, CallOK
<1>2. r # None
  BY <1>1, NoneAssumption
<1>3. c \in CallType /\ c.at = "issueVerify" /\ c.user = u
  BY <1>1 DEF Call, CallType, Points
<1>4. /\ userRec' = [userRec EXCEPT ![u] = r] /\ wanted' = [wanted EXCEPT ![u] = calls[p].pw]
      /\ calls' = [calls EXCEPT ![p] = c] /\ made' = made
      /\ UNCHANGED <<emailKey, tokKey, usedIds, mailed, uses, proved, raced, stranded>> /\ UNCHANGED sessionVars
  BY DEF StoreUser, Step, sessionVars
<1>5. /\ calls' \in [Requests -> CallType \cup {None}]
      /\ \A q \in Requests : q # p => calls'[q] = calls[q]
      /\ calls'[p] = c
  BY <1>3, <1>4, StepCalls
<1>6. /\ userRec'[u] = r /\ wanted'[u] = calls[p].pw
      /\ \A v \in Users : v # u => userRec'[v] = userRec[v] /\ wanted'[v] = wanted[v]
  BY <1>1, <1>4 DEF TypeOK
<1>7. TypeOK'
  BY <1>1, <1>4, <1>5 DEF TypeOK, sessionVars
<1>8. TokenInv'
  BY <1>4 DEF TokenInv
<1>9. \A q \in Requests : q # p /\ At(q, "store") => calls[q].user # u
  BY <1>1 DEF CallsInv, At
<1>10. AccountInv'
  <2>1. \A v \in Users : IF userRec'[v] # None THEN v \in usedIds ELSE v \notin proved
    BY <1>1, <1>6 DEF AccountInv
  <2>2. \A v \in Users : userRec'[v] # None => emailKey[userRec'[v].email] = v
    BY <1>1, <1>6 DEF AccountInv, EmailHasItsAccount
  <2>3. ASSUME NEW x \in Emails, emailKey[x] # None, userRec'[emailKey[x]] = None
        PROVE  \/ emailKey[x] \in stranded
               \/ \E q \in Requests : At(q, "store")' /\ calls'[q].user = emailKey[x]
    <3>1. emailKey[x] # u /\ emailKey[x] \in Users
      BY <1>2, <1>6, <2>3 DEF TypeOK
    <3>2. userRec[emailKey[x]] = None
      BY <1>6, <2>3, <3>1
    <3>3. CASE \E q \in Requests : At(q, "store") /\ calls[q].user = emailKey[x]
      <4>1. PICK q \in Requests : At(q, "store") /\ calls[q].user = emailKey[x]
        BY <3>3
      <4> QED BY <1>5, <3>1, <4>1 DEF At
    <3> QED
      BY <2>3, <3>2, <3>3 DEF AccountInv, EmailHasItsAccount
  <2>4. UpdatesKept'
    <3>1. u \notin proved
      BY <1>1 DEF AccountInv
    <3> QED
      BY <1>1, <1>4, <1>6, <3>1 DEF AccountInv, UpdatesKept
  <2> QED
    BY <1>4, <2>1, <2>2, <2>3, <2>4 DEF AccountInv, EmailHasItsAccount
<1>11. SessionInv'
  <2>1. \A v \in Users : Resetting(v) => Resetting(v)'
    BY <1>1, <1>5 DEF Resetting
  <2>2. \A v \in Users : userRec[v] # None => userRec'[v] = userRec[v]
    BY <1>1, <1>6
  <2> QED
    BY <1>4, <2>1, <2>2, SessionsKept
<1>12. CallsInv'
  <2>1. CallOK(calls[p])'
    BY <1>1, <1>3, <1>5 DEF CallOK
  <2>2. ASSUME NEW q \in Requests, q # p, calls[q] # None
        PROVE  CallOK(calls[q])'
    <3>1. CallOK(calls[q]) /\ calls'[q] = calls[q]
      BY <1>5, <2>2 DEF CallsInv
    <3>2. calls[q].user \in Users => userRec'[calls[q].user] = userRec[calls[q].user] \/ calls[q].user = u
      BY <1>6
    <3>3. calls[q].at \in {"store", "verifySet", "resetSet", "open"} => calls[q].user # u
      BY <1>1, <1>9, <2>2, <3>1 DEF CallOK, At
    <3> QED
      BY <1>4, <3>1, <3>2, <3>3 DEF CallOK, OpenSessions, sessionVars
  <2>3. \A q, x \in Requests : At(q, "store")' /\ At(x, "store")' /\ calls'[q].user = calls'[x].user => q = x
    BY <1>3, <1>5 DEF CallsInv, At
  <2> QED
    BY <1>5, <2>1, <2>2, <2>3 DEF CallsInv
<1> QED
  BY <1>7, <1>8, <1>10, <1>11, <1>12

\* The record is written back: unless another update of the account came between,
\* it is the stored one, verified or with the new password.
LEMMA UpdateStep ==
    ASSUME IInv, NEW p \in Requests, VerifySet(p) \/ ResetSet(p)
    PROVE  IInv'
<1> USE DEF IInv
<1> DEFINE u == calls[p].user
           r == calls[p].rec
<1>1. /\ calls[p] # None /\ calls[p].at \in {"verifySet", "resetSet"} /\ CallOK(calls[p]) /\ u \in Users
      /\ r \in UserRecord /\ userRec[u] # None /\ r.email = userRec[u].email
  BY DEF VerifySet, ResetSet, At, CallsInv, CallOK
<1>2. r # None
  BY <1>1, NoneAssumption
<1>3. /\ userRec' = [userRec EXCEPT ![u] = r]
      /\ raced' = IF Holding(p, u) THEN raced \cup {u} ELSE raced
      /\ UNCHANGED <<emailKey, tokKey, usedIds, mailed, uses, stranded>> /\ UNCHANGED sessionVars
  BY DEF VerifySet, ResetSet, Update, sessionVars
<1>4. userRec'[u] = r /\ \A v \in Users : v # u => userRec'[v] = userRec[v]
  BY <1>1, <1>3 DEF TypeOK
<1>5. \/ /\ VerifySet(p) /\ calls[p].at = "verifySet"
         /\ wanted' = wanted /\ proved' = proved \cup {u}
         /\ u \notin raced => r.pw = userRec[u].pw /\ r.verified
      \/ /\ ResetSet(p) /\ calls[p].at = "resetSet" /\ calls[p].pw \in Passwords
         /\ wanted' = [wanted EXCEPT ![u] = calls[p].pw] /\ proved' = proved
         /\ r.pw = calls[p].pw /\ (u \notin raced => r.verified = userRec[u].verified)
  BY <1>1 DEF VerifySet, ResetSet, At, CallOK
<1>6. /\ calls' \in [Requests -> CallType \cup {None}] /\ made' = made
      /\ \A q \in Requests : q # p => calls'[q] = calls[q]
      /\ calls[p].at = "verifySet" => calls'[p] = None
      /\ calls[p].at = "resetSet" => calls'[p] # None /\ calls'[p].at = "list" /\ calls'[p].user = u
  <2>1. CASE VerifySet(p)
    BY <2>1, ReturnCalls DEF VerifySet, At
  <2>2. CASE ResetSet(p)
    <3>1. "list" \in Points
      BY DEF Points
    <3> QED BY <1>1, <2>2, <3>1, GotoCalls DEF ResetSet, At
  <2> QED BY <2>1, <2>2
<1>7. TypeOK'
  BY <1>1, <1>3, <1>5, <1>6 DEF TypeOK, sessionVars
<1>8. TokenInv'
  BY <1>3 DEF TokenInv
<1>9. AccountInv'
  <2>1. \A v \in Users : IF userRec'[v] # None THEN v \in usedIds ELSE v \notin proved'
    BY <1>1, <1>2, <1>4, <1>5 DEF AccountInv
  <2>2. \A v \in Users : userRec'[v] # None => emailKey[userRec'[v].email] = v
    BY <1>1, <1>4 DEF AccountInv, EmailHasItsAccount
  <2>3. ASSUME NEW x \in Emails, emailKey[x] # None, userRec'[emailKey[x]] = None
        PROVE  \/ emailKey[x] \in stranded
               \/ \E q \in Requests : At(q, "store")' /\ calls'[q].user = emailKey[x]
    <3>1. userRec[emailKey[x]] = None
      BY <1>2, <1>4, <2>3 DEF TypeOK
    <3>2. CASE \E q \in Requests : At(q, "store") /\ calls[q].user = emailKey[x]
      <4>1. PICK q \in Requests : At(q, "store") /\ calls[q].user = emailKey[x]
        BY <3>2
      <4> QED BY <1>1, <1>6, <4>1 DEF At
    <3> QED
      BY <2>3, <3>1, <3>2 DEF AccountInv, EmailHasItsAccount
  <2>4. UpdatesKept'
    <3> SUFFICES ASSUME NEW v \in Users \ raced', userRec'[v] # None
                 PROVE  userRec'[v].pw = wanted'[v] /\ (userRec'[v].verified <=> v \in proved')
      BY DEF UpdatesKept
    <3>1. v \notin raced
      BY <1>3
    <3>2. CASE v # u
      BY <1>1, <1>4, <1>5, <3>1, <3>2 DEF AccountInv, UpdatesKept, TypeOK
    <3>3. CASE v = u
      <4>1. userRec[u].pw = wanted[u] /\ (userRec[u].verified <=> u \in proved)
        BY <1>1, <3>1, <3>3 DEF AccountInv, UpdatesKept
      <4> QED
        BY <1>1, <1>4, <1>5, <3>1, <3>3, <4>1 DEF TypeOK
    <3> QED BY <3>2, <3>3
  <2> QED
    BY <1>3, <2>1, <2>2, <2>3, <2>4 DEF AccountInv, EmailHasItsAccount
<1>10. SessionInv'
  <2>1. \A v \in Users : Resetting(v) => Resetting(v)'
    BY <1>1, <1>6 DEF Resetting
  <2>2. \A v \in Users : userRec[v] # None => userRec'[v] # None
    BY <1>2, <1>4
  <2>3. ASSUME NEW v \in Users \ raced', userRec[v] # None
        PROVE  userRec'[v].pw = userRec[v].pw \/ Resetting(v)'
    <3>1. CASE v # u
      BY <1>4, <3>1
    <3>2. CASE v = u /\ calls[p].at = "verifySet"
      BY <1>3, <1>4, <1>5, <2>3, <3>2
    <3>3. CASE v = u /\ calls[p].at = "resetSet"
      BY <1>6, <3>3 DEF Resetting
    <3> QED BY <1>1, <3>1, <3>2, <3>3
  <2> QED
    BY <1>3, <2>1, <2>2, <2>3, SessionsKept
<1>11. CallsInv'
  <2>1. calls'[p] # None => CallOK(calls[p])'
    BY <1>1, <1>6 DEF CallOK
  <2>2. ASSUME NEW q \in Requests, q # p, calls[q] # None
        PROVE  CallOK(calls[q])'
    <3>1. CallOK(calls[q]) /\ calls'[q] = calls[q]
      BY <1>6, <2>2 DEF CallsInv
    <3>2. CASE calls[q].user # u
      <4>1. calls[q].user \in Users => userRec'[calls[q].user] = userRec[calls[q].user]
        BY <1>4, <3>2
      <4> QED
        BY <1>3, <3>1, <4>1 DEF CallOK, OpenSessions, sessionVars
    <3>3. CASE calls[q].user = u
      <4>1. calls[q].at # "store"
        BY <1>1, <3>1, <3>3 DEF CallOK
      <4>2. calls[q].at \in {"verifySet", "resetSet"} => u \in raced'
        BY <1>3, <2>2, <3>3 DEF Holding
      <4> QED
        BY <1>1, <1>2, <1>3, <1>4, <3>1, <3>3, <4>1, <4>2 DEF CallOK, OpenSessions, sessionVars
    <3> QED BY <3>2, <3>3
  <2>3. \A q, x \in Requests : At(q, "store")' /\ At(x, "store")' /\ calls'[q].user = calls'[x].user => q = x
    BY <1>1, <1>6 DEF CallsInv, At
  <2> QED
    BY <1>6, <2>1, <2>2, <2>3 DEF CallsInv
<1> QED
  BY <1>7, <1>8, <1>9, <1>10, <1>11

-----------------------------------------------------------------------------
(* The steps that write a session, time, and failure. *)

\* Accounts and tokens do not depend on the sessions, nor on calls past a signup.
LEMMA AccountsKept ==
    ASSUME IInv, UNCHANGED accountVars, UNCHANGED <<usedIds, tokKey, uses>>,
           \A q \in Requests : At(q, "store") => At(q, "store")' /\ calls'[q] = calls[q]
    PROVE  TokenInv' /\ AccountInv'
<1>0. UNCHANGED <<emailKey, userRec, proved, wanted, raced, stranded>>
  BY DEF accountVars
<1>1. TokenInv'
  BY DEF IInv, TokenInv
<1>2. EmailHasItsAccount'
  BY <1>0 DEF IInv, AccountInv, EmailHasItsAccount
<1>3. UpdatesKept'
  BY <1>0 DEF IInv, AccountInv, UpdatesKept
<1> QED
  BY <1>0, <1>1, <1>2, <1>3 DEF IInv, AccountInv

\* Ending sessions leaves every other call what it holds, and opening one while a
\* reset lists them counts it as overlapped.
LEMMA CallsKept ==
    ASSUME IInv, UNCHANGED accountVars, usedIds' = usedIds,
           NEW p \in Requests, \A q \in Requests : q # p => calls'[q] = calls[q],
           calls'[p] = None,
           \A q \in Requests : q # p /\ At(q, "drop") =>
               OpenSessions(calls[q].user)' \subseteq calls[q].ids \cup overlapped'
    PROVE  CallsInv'
<1>0. UNCHANGED <<emailKey, userRec, proved, wanted, raced, stranded>>
  BY DEF accountVars
<1>1. ASSUME NEW q \in Requests, q # p, calls[q] # None
      PROVE  CallOK(calls[q])'
  <2>1. CallOK(calls[q]) /\ calls'[q] = calls[q]
    BY <1>1 DEF IInv, CallsInv
  <2>2. calls[q].at = "drop" => OpenSessions(calls[q].user)' \subseteq calls'[q].ids \cup overlapped'
    BY <1>1, <2>1 DEF At, OpenSessions
  <2> QED
    BY <1>0, <2>1, <2>2 DEF CallOK, OpenSessions
<1> QED
  BY <1>1 DEF IInv, CallsInv, At

\* A session is opened with its place in the user's set.
LEMMA OpenStep ==
    ASSUME IInv, NEW p \in Requests, OpenSession(p)
    PROVE  IInv'
<1> USE DEF IInv
<1>1. PICK u \in Users, w \in Passwords :
        /\ u = calls[p].user /\ w = calls[p].pw
        /\ calls[p] # None /\ calls[p].at = "open" /\ userRec[u] # None
  BY DEF OpenSession, At, CallsInv, CallOK
<1>2. PICK s \in Sessions : s = lastSess + 1
  BY DEF OpenSession
<1>3. /\ lastSess' = s /\ sessKey' = [sessKey EXCEPT ![s] = u]
      /\ userSess' = [userSess EXCEPT ![u] = @ \cup {s}]
      /\ sessEnd' = [sessEnd EXCEPT ![u] = s]
      /\ sessPw' = [sessPw EXCEPT ![s] = w]
      /\ overlapped' = IF Resetting(u) \/ userRec[u].pw # w THEN overlapped \cup {s} ELSE overlapped
      /\ clock' = clock /\ mailed' = mailed
      /\ UNCHANGED accountVars /\ UNCHANGED <<usedIds, tokKey, uses>>
  BY <1>1, <1>2 DEF OpenSession, accountVars
<1>4. /\ calls' \in [Requests -> CallType \cup {None}] /\ made' = made
      /\ \A q \in Requests : q # p => calls'[q] = calls[q]
      /\ calls'[p] = None
  BY ReturnCalls DEF OpenSession
<1>5. /\ sessKey'[s] = u /\ sessPw'[s] = w /\ userSess'[u] = userSess[u] \cup {s} /\ sessEnd'[u] = s
      /\ \A x \in Sessions : x # s => sessKey'[x] = sessKey[x] /\ sessPw'[x] = sessPw[x]
      /\ \A v \in Users : v # u => userSess'[v] = userSess[v] /\ sessEnd'[v] = sessEnd[v]
  BY <1>3 DEF TypeOK
<1>6. s \in 0..MaxSessions /\ lastSess \in Nat /\ clock \in Nat /\ clock <= lastSess
  BY BoundAssumption DEF Sessions, TypeOK, SessionInv
<1>7. TypeOK'
  BY <1>3, <1>4, <1>6 DEF TypeOK, accountVars
<1>8. TokenInv' /\ AccountInv'
  <2>1. \A q \in Requests : At(q, "store") => At(q, "store")' /\ calls'[q] = calls[q]
    BY <1>1, <1>4 DEF At
  <2> QED BY <1>3, <2>1, AccountsKept
<1>9. \A v \in Users : /\ v # u => OpenSessions(v)' = OpenSessions(v)
                       /\ OpenSessions(v)' \subseteq OpenSessions(v) \cup {s}
  <2>1. sessKey[s] = None
    BY <1>2, <1>6 DEF SessionInv
  <2> QED BY <1>5, <2>1, NoneAssumption DEF OpenSessions
<1>10. \A v \in Users : Resetting(v)' <=> Resetting(v)
  BY <1>1, <1>4 DEF Resetting
<1>11. SessionInv'
  <2>1. ASSUME NEW x \in Sessions, sessKey'[x] # None
        PROVE  /\ clock' < x /\ x <= lastSess'
               /\ x <= sessEnd'[sessKey'[x]]
               /\ userRec'[sessKey'[x]] # None
    <3>1. CASE x = s
      BY <1>1, <1>2, <1>3, <1>5, <1>6, <3>1 DEF accountVars
    <3>2. CASE x # s
      <4>1. sessKey'[x] = sessKey[x] /\ sessKey[x] \in Users /\ x \in Nat
        BY <1>5, <2>1, <3>2 DEF TypeOK, Sessions
      <4>2. clock < x /\ x <= lastSess /\ x <= sessEnd[sessKey[x]] /\ userRec[sessKey[x]] # None
        BY <2>1, <4>1 DEF SessionInv
      <4>3. sessEnd[sessKey[x]] \in Nat
        BY <4>1 DEF TypeOK
      <4> QED
        BY <1>2, <1>3, <1>5, <1>6, <4>1, <4>2, <4>3 DEF accountVars
    <3> QED BY <3>1, <3>2
  <2>2. SessionsListed'
    BY <1>3, <1>5, <1>9 DEF SessionInv, SessionsListed
  <2>3. ASSUME NEW v \in Users \ raced, NEW x \in OpenSessions(v)' \ overlapped'
        PROVE  sessPw'[x] = userRec[v].pw \/ Resetting(v)'
    <3>1. CASE x = s
      <4>1. v = u
        BY <1>5, <3>1 DEF OpenSessions
      <4> QED BY <1>3, <1>5, <1>10, <2>3, <3>1, <4>1
    <3>2. CASE x # s
      <4>1. x \in OpenSessions(v) \ overlapped /\ x \in Sessions
        BY <1>3, <1>9, <2>3, <3>2 DEF OpenSessions
      <4> QED BY <1>5, <1>10, <3>2, <4>1 DEF SessionInv, ResetEndsSessions
    <3> QED BY <3>1, <3>2
  <2>4. ResetEndsSessions'
    BY <1>3, <2>3 DEF ResetEndsSessions, accountVars
  <2> QED
    BY <1>2, <1>3, <1>6, <2>1, <2>2, <2>4 DEF SessionInv
<1>12. CallsInv'
  <2>1. ASSUME NEW q \in Requests, q # p, At(q, "drop")
        PROVE  OpenSessions(calls[q].user)' \subseteq calls[q].ids \cup overlapped'
    <3>1. PICK v \in Users : v = calls[q].user
      BY <2>1 DEF CallsInv, CallOK, At
    <3>2. OpenSessions(v) \subseteq calls[q].ids \cup overlapped /\ calls'[q] = calls[q]
      BY <1>4, <2>1, <3>1 DEF CallsInv, CallOK, At
    <3>3. v = u => s \in overlapped'
      BY <1>3, <2>1, <3>1 DEF Resetting, At
    <3>4. OpenSessions(v)' \subseteq calls[q].ids \cup overlapped'
      BY <1>3, <1>9, <3>2, <3>3
    <3> QED BY <3>1, <3>2, <3>4
  <2> QED
    BY <1>3, <1>4, <2>1, CallsKept
<1> QED
  BY <1>7, <1>8, <1>11, <1>12

\* A step that only ends sessions: the user's set still lists those that are left, and
\* a reset that is over has left none.
LEMMA SessionsEnd ==
    ASSUME IInv, UNCHANGED accountVars, UNCHANGED <<sessEnd, lastSess, sessPw>>,
           \A s \in Sessions : sessKey'[s] # None => sessKey'[s] = sessKey[s] /\ clock' < s,
           clock' \in Nat, clock' <= lastSess,
           overlapped \subseteq overlapped',
           \A u \in Users : OpenSessions(u)' \subseteq userSess'[u] \cup overlapped',
           \A u \in Users : Resetting(u) => Resetting(u)' \/ OpenSessions(u)' \subseteq overlapped'
    PROVE  SessionInv'
<1>0. UNCHANGED <<userRec, raced>>
  BY DEF accountVars
<1>1. SessionsListed'
  BY DEF SessionsListed
<1>2. \A u \in Users : OpenSessions(u)' \subseteq OpenSessions(u)
  BY NoneAssumption DEF OpenSessions
<1>3. ResetEndsSessions'
  <2> SUFFICES ASSUME NEW u \in Users \ raced, NEW s \in OpenSessions(u)' \ overlapped'
               PROVE  sessPw[s] = userRec[u].pw \/ Resetting(u)'
    BY <1>0 DEF ResetEndsSessions
  <2>1. s \in OpenSessions(u) \ overlapped
    BY <1>2
  <2> QED
    BY <2>1 DEF IInv, SessionInv, ResetEndsSessions
<1>4. \A s \in Sessions : sessKey'[s] # None =>
        /\ clock' < s /\ s <= lastSess'
        /\ s <= sessEnd'[sessKey'[s]]
        /\ userRec'[sessKey'[s]] # None
  BY <1>0 DEF IInv, SessionInv
<1> QED
  BY <1>1, <1>3, <1>4 DEF SessionInv

\* One session ends, of a logout.
LEMMA CloseStep ==
    ASSUME IInv, NEW p \in Requests, CloseSession(p)
    PROVE  IInv'
<1> USE DEF IInv
<1>1. PICK s \in Sessions : s = calls[p].tok /\ calls[p] # None /\ calls[p].at = "close"
  BY DEF CloseSession, At, CallsInv, CallOK
<1>2. /\ sessKey' = [sessKey EXCEPT ![s] = None]
      /\ UNCHANGED accountVars /\ UNCHANGED <<usedIds, tokKey, uses, sessEnd, clock, lastSess, mailed, sessPw, overlapped>>
  BY <1>1 DEF CloseSession, historyVars, accountVars
<1>3. /\ userSess' \in [Users -> SUBSET Sessions]
      /\ \A v \in Users : userSess[v] \subseteq userSess'[v] \cup {s}
  <2>1. calls[p].user \in Users \cup {None}
    BY <1>1, CallFields
  <2> QED
    BY <1>1, <2>1 DEF CloseSession, TypeOK
<1>4. /\ calls' \in [Requests -> CallType \cup {None}] /\ made' = made
      /\ \A q \in Requests : q # p => calls'[q] = calls[q]
      /\ calls'[p] = None
  BY ReturnCalls DEF CloseSession
<1>5. TypeOK'
  BY <1>2, <1>3, <1>4 DEF TypeOK, accountVars
<1>6. TokenInv' /\ AccountInv'
  <2>1. \A q \in Requests : At(q, "store") => At(q, "store")' /\ calls'[q] = calls[q]
    BY <1>1, <1>4 DEF At
  <2> QED BY <1>2, <2>1, AccountsKept
<1>7. sessKey'[s] = None /\ \A x \in Sessions : x # s => sessKey'[x] = sessKey[x]
  BY <1>2 DEF TypeOK
<1>8. \A v \in Users : OpenSessions(v)' \subseteq OpenSessions(v) \ {s}
  BY <1>7, NoneAssumption DEF OpenSessions
<1>9. SessionInv'
  <2>1. \A v \in Users : OpenSessions(v)' \subseteq userSess'[v] \cup overlapped'
    BY <1>2, <1>3, <1>8 DEF SessionInv, SessionsListed
  <2>2. \A v \in Users : Resetting(v) => Resetting(v)'
    BY <1>1, <1>4 DEF Resetting
  <2>3. \A x \in Sessions : sessKey'[x] # None => sessKey'[x] = sessKey[x] /\ clock' < x
    BY <1>2, <1>7 DEF SessionInv
  <2>4. clock' \in Nat /\ clock' <= lastSess
    BY <1>2 DEF SessionInv, TypeOK
  <2> QED
    BY <1>2, <2>1, <2>2, <2>3, <2>4, SessionsEnd
<1>10. CallsInv'
  <2>1. ASSUME NEW q \in Requests, q # p, At(q, "drop")
        PROVE  OpenSessions(calls[q].user)' \subseteq calls[q].ids \cup overlapped'
    <3>1. PICK v \in Users : v = calls[q].user
      BY <2>1 DEF CallsInv, CallOK, At
    <3>2. OpenSessions(v) \subseteq calls[q].ids \cup overlapped /\ calls'[q] = calls[q]
      BY <1>4, <2>1, <3>1 DEF CallsInv, CallOK, At
    <3> QED BY <1>2, <1>8, <3>1, <3>2
  <2> QED
    BY <1>2, <1>4, <2>1, CallsKept
<1> QED
  BY <1>5, <1>6, <1>9, <1>10

\* The reset ends every session it listed: those it did not list are overlapped.
LEMMA DropStep ==
    ASSUME IInv, NEW p \in Requests, DropSessions(p)
    PROVE  IInv'
<1> USE DEF IInv
<1>1. PICK u \in Users : /\ u = calls[p].user /\ calls[p] # None /\ calls[p].at = "drop"
                         /\ OpenSessions(u) \subseteq calls[p].ids \cup overlapped
  BY DEF DropSessions, At, CallsInv, CallOK
<1>2. /\ sessKey' = [s \in Sessions |-> IF s \in calls[p].ids THEN None ELSE sessKey[s]]
      /\ userSess' = [userSess EXCEPT ![u] = {}]
      /\ UNCHANGED accountVars /\ UNCHANGED <<usedIds, tokKey, uses, sessEnd, clock, lastSess, mailed, sessPw, overlapped>>
  BY <1>1 DEF DropSessions, historyVars, accountVars
<1>3. /\ calls' \in [Requests -> CallType \cup {None}] /\ made' = made
      /\ \A q \in Requests : q # p => calls'[q] = calls[q]
      /\ calls'[p] = None
  BY ReturnCalls DEF DropSessions
<1>4. sessKey' \in [Sessions -> Users \cup {None}] /\ userSess' \in [Users -> SUBSET Sessions]
  BY <1>2 DEF TypeOK
<1>5. TypeOK'
  BY <1>2, <1>3, <1>4 DEF TypeOK, accountVars
<1>6. TokenInv' /\ AccountInv'
  <2>1. \A q \in Requests : At(q, "store") => At(q, "store")' /\ calls'[q] = calls[q]
    BY <1>1, <1>3 DEF At
  <2> QED BY <1>2, <2>1, AccountsKept
<1>7. \A v \in Users : OpenSessions(v)' \subseteq OpenSessions(v) \ calls[p].ids
  BY <1>2, NoneAssumption DEF OpenSessions
<1>8. OpenSessions(u)' \subseteq overlapped'
  BY <1>1, <1>2, <1>7
<1>9. SessionInv'
  <2>1. \A v \in Users : OpenSessions(v)' \subseteq userSess'[v] \cup overlapped'
    BY <1>2, <1>7, <1>8 DEF SessionInv, SessionsListed, TypeOK
  <2>2. \A v \in Users : v # u /\ Resetting(v) => Resetting(v)'
    BY <1>1, <1>3 DEF Resetting
  <2>3. \A x \in Sessions : sessKey'[x] # None => sessKey'[x] = sessKey[x] /\ clock' < x
    BY <1>2 DEF SessionInv
  <2>4. clock' \in Nat /\ clock' <= lastSess
    BY <1>2 DEF SessionInv, TypeOK
  <2> QED
    BY <1>2, <1>8, <2>1, <2>2, <2>3, <2>4, SessionsEnd
<1>10. CallsInv'
  <2>1. ASSUME NEW q \in Requests, q # p, At(q, "drop")
        PROVE  OpenSessions(calls[q].user)' \subseteq calls[q].ids \cup overlapped'
    <3>1. PICK v \in Users : v = calls[q].user
      BY <2>1 DEF CallsInv, CallOK, At
    <3>2. OpenSessions(v) \subseteq calls[q].ids \cup overlapped /\ calls'[q] = calls[q]
      BY <1>3, <2>1, <3>1 DEF CallsInv, CallOK, At
    <3> QED BY <1>2, <1>7, <3>1, <3>2
  <2> QED
    BY <1>2, <1>3, <2>1, CallsKept
<1> QED
  BY <1>5, <1>6, <1>9, <1>10

\* A call ends where it is: a signup may strand its email, a reset the sessions.
LEMMA AbandonStep ==
    ASSUME IInv, NEW p \in Requests, Abandon(p)
    PROVE  IInv'
<1> USE DEF IInv
<1> DEFINE c == calls[p]
<1>1. /\ c # None
      /\ stranded' = IF c.at = "store" THEN stranded \cup {c.user} ELSE stranded
      /\ overlapped' = IF c.at \in {"list", "drop"} THEN overlapped \cup OpenSessions(c.user) ELSE overlapped
      /\ UNCHANGED <<emailKey, userRec, tokKey, sessKey, userSess, sessEnd, clock, lastSess, usedIds, mailed,
                     uses, proved, wanted, raced, sessPw>>
  BY DEF Abandon, redisVars
<1>2. /\ calls' \in [Requests -> CallType \cup {None}] /\ made' = made
      /\ \A q \in Requests : q # p => calls'[q] = calls[q]
      /\ calls'[p] = None
  BY ReturnCalls DEF Abandon
<1>3. c.at # "close" => c.user \in Users
  BY <1>1 DEF CallsInv, CallOK
<1>4. TypeOK'
  BY <1>1, <1>2, <1>3 DEF TypeOK, OpenSessions
<1>5. TokenInv'
  BY <1>1 DEF TokenInv
<1>6. AccountInv'
  <2>1. ASSUME NEW x \in Emails, emailKey[x] # None, userRec[emailKey[x]] = None
        PROVE  \/ emailKey[x] \in stranded'
               \/ \E q \in Requests : At(q, "store")' /\ calls'[q].user = emailKey[x]
    <3>1. CASE \E q \in Requests : At(q, "store") /\ calls[q].user = emailKey[x]
      <4>1. PICK q \in Requests : At(q, "store") /\ calls[q].user = emailKey[x]
        BY <3>1
      <4>2. CASE q = p
        BY <1>1, <4>1, <4>2 DEF At
      <4>3. CASE q # p
        BY <1>2, <4>1, <4>3 DEF At
      <4> QED BY <4>2, <4>3
    <3>2. CASE emailKey[x] \in stranded
      BY <1>1, <3>2
    <3> QED
      BY <2>1, <3>1, <3>2 DEF AccountInv, EmailHasItsAccount
  <2>2. UpdatesKept'
    BY <1>1 DEF AccountInv, UpdatesKept
  <2> QED
    BY <1>1, <2>1, <2>2 DEF AccountInv, EmailHasItsAccount
<1>7. \A v : OpenSessions(v)' = OpenSessions(v)
  BY <1>1 DEF OpenSessions
<1>8. SessionInv'
  <2>1. SessionsListed'
    BY <1>1, <1>7 DEF SessionInv, SessionsListed
  <2>2. ASSUME NEW v \in Users \ raced, NEW x \in OpenSessions(v) \ overlapped'
        PROVE  sessPw[x] = userRec[v].pw \/ Resetting(v)'
    <3>1. x \notin overlapped
      BY <1>1, <2>2
    <3>2. CASE Resetting(v)
      <4>1. PICK q \in Requests : calls[q] # None /\ calls[q].user = v /\ calls[q].at \in {"list", "drop"}
        BY <3>2 DEF Resetting
      <4>2. q # p
        BY <1>1, <2>2, <4>1
      <4> QED BY <1>2, <4>1, <4>2 DEF Resetting
    <3> QED
      BY <2>2, <3>1, <3>2 DEF SessionInv, ResetEndsSessions
  <2>3. ResetEndsSessions'
    BY <1>1, <1>7, <2>2 DEF ResetEndsSessions
  <2> QED
    BY <1>1, <2>1, <2>3 DEF SessionInv
<1>9. CallsInv'
  <2>1. ASSUME NEW q \in Requests, q # p, calls[q] # None
        PROVE  CallOK(calls[q])'
    <3>1. CallOK(calls[q]) /\ calls'[q] = calls[q]
      BY <1>2, <2>1 DEF CallsInv
    <3> QED
      BY <1>1, <3>1 DEF CallOK, OpenSessions
  <2> QED
    BY <1>2, <2>1 DEF CallsInv, At
<1> QED
  BY <1>4, <1>5, <1>6, <1>8, <1>9

LEMMA ExpireTokenStep ==
    ASSUME IInv, NEW k \in Tokens, ExpireToken(k)
    PROVE  IInv'
<1> USE DEF IInv
<1>1. /\ tokKey' = [tokKey EXCEPT ![k] = None]
      /\ UNCHANGED <<emailKey, userRec, sessKey, userSess, sessEnd, clock, lastSess, usedIds, mailed,
                     calls, made, uses, proved, wanted, raced, stranded, sessPw, overlapped>>
  BY DEF ExpireToken, historyVars
<1>2. TypeOK'
  BY <1>1 DEF TypeOK
<1>3. TokenInv'
  BY <1>1 DEF TokenInv, TypeOK
<1>4. AccountInv'
  BY <1>1 DEF AccountInv, EmailHasItsAccount, UpdatesKept, At
<1>5. SessionInv'
  BY <1>1 DEF SessionInv, SessionsListed, ResetEndsSessions, OpenSessions, Resetting
<1>6. CallsInv'
  BY <1>1 DEF CallsInv, CallOK, OpenSessions, At
<1> QED
  BY <1>2, <1>3, <1>4, <1>5, <1>6

\* The oldest session expires; a set that expires with it lists none that is left.
LEMMA ExpireSessionStep ==
    ASSUME IInv, ExpireSession
    PROVE  IInv'
<1> USE DEF IInv
<1>1. /\ clock < lastSess /\ clock' = clock + 1
      /\ sessKey' = [sessKey EXCEPT ![clock'] = None]
      /\ userSess' = [u \in Users |-> IF sessEnd[u] <= clock' THEN {} ELSE userSess[u]]
      /\ UNCHANGED <<emailKey, userRec, tokKey, sessEnd, lastSess, usedIds, mailed,
                     calls, made, uses, proved, wanted, raced, stranded, sessPw, overlapped>>
  BY DEF ExpireSession, historyVars
<1>2. clock' \in Sessions /\ clock' \in 0..MaxSessions /\ clock \in Nat /\ lastSess \in Nat
  BY <1>1, BoundAssumption DEF TypeOK, Sessions
<1>3. sessKey'[clock'] = None /\ \A x \in Sessions : x # clock' => sessKey'[x] = sessKey[x]
  BY <1>1, <1>2 DEF TypeOK
<1>4. userSess' \in [Users -> SUBSET Sessions]
  BY <1>1 DEF TypeOK
<1>5. TypeOK'
  BY <1>1, <1>2, <1>4 DEF TypeOK
<1>6. TokenInv' /\ AccountInv'
  BY <1>1, AccountsKept DEF accountVars, At
<1>7. \A v \in Users : OpenSessions(v)' \subseteq OpenSessions(v)
  BY <1>3, NoneAssumption DEF OpenSessions
<1>8. SessionInv'
  <2>1. \A x \in Sessions : sessKey'[x] # None => sessKey'[x] = sessKey[x] /\ clock' < x
    BY <1>1, <1>2, <1>3 DEF SessionInv, Sessions
  <2>2. ASSUME NEW v \in Users
        PROVE  OpenSessions(v)' \subseteq userSess'[v] \cup overlapped'
    <3>1. CASE sessEnd[v] <= clock'
      <4>1. OpenSessions(v)' = {}
        <5> SUFFICES ASSUME NEW x \in Sessions, sessKey'[x] = v PROVE FALSE
          BY DEF OpenSessions
        <5>1. sessKey[x] = v /\ clock' < x /\ v # None
          BY <2>1, NoneAssumption
        <5>2. x <= sessEnd[v]
          BY <5>1 DEF SessionInv
        <5> QED
          BY <1>2, <3>1, <5>1, <5>2 DEF Sessions, TypeOK
      <4> QED BY <4>1
    <3>2. CASE ~(sessEnd[v] <= clock')
      BY <1>1, <1>7, <3>2 DEF SessionInv, SessionsListed
    <3> QED BY <3>1, <3>2
  <2>3. \A v \in Users : Resetting(v) => Resetting(v)'
    BY <1>1 DEF Resetting
  <2>4. clock' \in Nat /\ clock' <= lastSess
    BY <1>1, <1>2
  <2> QED
    BY <1>1, <2>1, <2>2, <2>3, <2>4, SessionsEnd DEF accountVars
<1>9. CallsInv'
  <2>1. ASSUME NEW q \in Requests, calls[q] # None
        PROVE  CallOK(calls[q])'
    <3>1. CallOK(calls[q]) /\ calls'[q] = calls[q]
      BY <1>1, <2>1 DEF CallsInv
    <3>2. OpenSessions(calls[q].user)' \subseteq OpenSessions(calls[q].user) \/ calls[q].user \notin Users
      BY <1>3, <3>1, NoneAssumption DEF OpenSessions
    <3> QED
      BY <1>1, <3>1, <3>2 DEF CallOK
  <2> QED
    BY <1>1, <2>1 DEF CallsInv, At
<1> QED
  BY <1>5, <1>6, <1>8, <1>9

LEMMA NextInv ==
    ASSUME IInv, [Next]_vars
    PROVE  IInv'
<1>1. CASE UNCHANGED vars
  BY <1>1 DEF vars, redisVars, historyVars, IInv, TypeOK, TokenInv, AccountInv, EmailHasItsAccount, UpdatesKept,
              SessionInv, SessionsListed, ResetEndsSessions, OpenSessions, Resetting, CallsInv, CallOK, At
<1>2. CASE Next
  BY <1>2, LookUpStep, ConsumeStep, LogoutStep, IssueStep, GetStep, LoadStep, ListStep, MailStep, SignupStep,
     StoreStep, UpdateStep, OpenStep, CloseStep, DropStep, AbandonStep, ExpireTokenStep, ExpireSessionStep
     DEF Next
<1> QED
  BY <1>1, <1>2

LEMMA Invariance == Spec => []IInv
  BY InitInv, NextInv, PTL DEF Spec

\* The keys of Redis and the calls in progress keep their types.
THEOREM TypeCorrect == Spec => []TypeOK
  BY Invariance, PTL DEF IInv

\* However signups race and wherever they stop, an email has one account, and a
\* claimed email its record unless a signup was cut short.
THEOREM EmailsHaveTheirAccounts == Spec => []EmailHasItsAccount
  BY Invariance, PTL DEF IInv, AccountInv

\* No verification or reset link works twice (Consume's GETDEL).
THEOREM TokensAreUsedOnce == Spec => []TokenUsedOnce
<1>1. IInv => TokenUsedOnce
  BY DEF IInv, TokenInv, TokenUsedOnce
<1> QED
  BY <1>1, Invariance, PTL

\* A verification or a new password is never lost to a whole-record write, unless two
\* of them of one account overlap.
THEOREM UpdatesAreKept == Spec => []UpdatesKept
  BY Invariance, PTL DEF IInv, AccountInv

\* A reset finds every open session in the user's set, except one opened meanwhile.
THEOREM OpenSessionsAreListed == Spec => []SessionsListed
  BY Invariance, PTL DEF IInv, SessionInv

\* After ResetPassword no session of an older password is left, unless its login
\* overlapped the reset or the reset was cut short.
THEOREM ResetEndsOldSessions == Spec => []ResetEndsSessions
  BY Invariance, PTL DEF IInv, SessionInv
=============================================================================
