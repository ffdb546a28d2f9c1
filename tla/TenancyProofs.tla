---------------------------- MODULE TenancyProofs ----------------------------
(***************************************************************************)
(* Proofs about Tenancy, for any sets of apps, keys, boards and requests:  *)
(* what the indexes, the deletion and AuthKey keep to, and that the calls  *)
(* of the Redis store implement the one-step calls of TenancyStore.        *)
(***************************************************************************)
EXTENDS Tenancy, TLAPS

\* What is filed under an app has an app that was created, and under a key one that
\* was issued; the two entries of a key come and go together.
FiledInv ==
    /\ \A a \in Apps : appRec[a] # None => a \in created
    /\ \A a \in Apps, b \in Boards : boardRec[a][b] # None => a \in created
    /\ \A k \in Keys : keyMeta[k] = keyApp[k]
    /\ \A k \in Keys : keyApp[k] # None =>
        /\ keyApp[k] \in created
        /\ issued[k] # None
        /\ k \in publishable <=> issued[k] = "publishable"
    /\ \A k \in publishable : issued[k] # None
    /\ raced \subseteq created

\* The indexes of app a agree with its records, and nothing is filed under it once
\* it has no record.
Clean(a) ==
    /\ a \in listed <=> appRec[a] # None
    /\ appKeys[a] = {k \in Keys : keyApp[k] = a}
    /\ boardSet[a] = {b \in Boards : boardRec[a][b] # None}
    /\ appRec[a] = None => /\ \A k \in Keys : keyApp[k] # a
                           /\ \A b \in Boards : boardRec[a][b] = None

CleanInv == \A a \in Apps \ (raced \cup spilled) : Clean(a)

\* What call c relies on of what it has read, for its app if nothing else wrote to
\* it meanwhile: a key or a board to be written has its app, and a deletion still
\* has every key left of the app ahead of it, and then every board.
AppOK(c) ==
    /\ c.at \in {"issue", "upsert"} => appRec[c.app] # None
    /\ c.at = "next" \/ c.del =>
        \A k \in Keys : keyApp[k] = c.app => k \in c.ids \/ (c.at # "next" /\ k = c.id)
    /\ c.at \in {"boards", "drop"} => \A k \in Keys : keyApp[k] # c.app
    /\ c.at = "drop" => boardSet[c.app] \subseteq c.ids

\* ... for the key it is about: the key was issued, is still the app's unless it was
\* revoked, and has the scope that was read.
KeyOK(c) ==
    /\ c.at \in {"meta", "hash", "revoke", "scope"} => c.id \in Keys
    /\ c.at \in {"next", "meta", "hash", "revoke"} => c.ids \subseteq Keys
    /\ c.at \in {"getIssue", "issue"} => c.scope \in Scopes
    /\ c.at \in {"hash", "revoke"} => issued[c.id] # None /\ keyApp[c.id] \in {c.app, None}
    /\ c.at = "revoke" /\ ~c.hash => keyApp[c.id] = None
    /\ c.at = "scope" => issued[c.id] # None
    /\ c.at \in {"authApp", "getBoard", "upsert"} /\ c.id # None =>
        issued[c.id] # None /\ (keyApp[c.id] # None => c.scope = issued[c.id])

\* ... and for the settings it will write: they change the record that is there.
SetOK(c) ==
    c.at = "set" => /\ c.val \in Store!AppRecord
                    /\ c.app \notin raced => /\ appRec[c.app] # None
                                             /\ c.val \in Store!Changes(appRec[c.app])

CallOK(c) ==
    /\ c.app \in created
    /\ c.del => c.at \in {"next", "meta", "hash", "revoke"}
    /\ KeyOK(c)
    /\ SetOK(c)
    /\ c.app \notin raced \cup spilled => AppOK(c)

CallsInv == \A p \in Requests : calls[p] # None => CallOK(calls[p])

IInv == TypeOK /\ FiledInv /\ CleanInv /\ CallsInv

-----------------------------------------------------------------------------
\* What a call in progress holds.
LEMMA CallFields ==
    ASSUME TypeOK, NEW p \in Requests, calls[p] # None
    PROVE  /\ calls[p] \in CallType /\ calls[p].at \in Points /\ calls[p].app \in Apps
           /\ calls[p].id \in Keys \cup {None} /\ calls[p].scope \in Scopes \cup {None}
           /\ calls[p].ids \in SUBSET (Keys \cup Boards)
           /\ calls[p].hash \in BOOLEAN /\ calls[p].del \in BOOLEAN
  BY DEF TypeOK, CallType

\* A step of request p leaves the calls of the others.
LEMMA StepCalls ==
    ASSUME TypeOK, NEW p \in Requests, NEW c \in CallType \cup {None},
           calls' = [calls EXCEPT ![p] = c]
    PROVE  /\ calls' \in [Requests -> CallType \cup {None}] /\ calls'[p] = c
           /\ \A q \in Requests : q # p => calls'[q] = calls[q]
  BY DEF TypeOK

LEMMA GotoCalls ==
    ASSUME TypeOK, NEW p \in Requests, calls[p] # None, NEW point \in Points, Goto(p, point)
    PROVE  /\ calls' \in [Requests -> CallType \cup {None}] /\ made' = made
           /\ \A q \in Requests : q # p => calls'[q] = calls[q]
           /\ calls'[p].at = point /\ calls'[p].app = calls[p].app /\ calls'[p].id = calls[p].id
           /\ calls'[p].scope = calls[p].scope /\ calls'[p].val = calls[p].val
           /\ calls'[p].ids = calls[p].ids /\ calls'[p].hash = calls[p].hash
           /\ calls'[p].del = calls[p].del
<1> DEFINE c == [calls[p] EXCEPT !.at = point]
<1>1. calls[p] \in CallType
  BY CallFields
<1>2. /\ c \in CallType /\ c.at = point /\ c.app = calls[p].app /\ c.id = calls[p].id
      /\ c.scope = calls[p].scope /\ c.val = calls[p].val
      /\ c.ids = calls[p].ids /\ c.hash = calls[p].hash /\ c.del = calls[p].del
  BY <1>1 DEF CallType
<1>3. calls' = [calls EXCEPT ![p] = c] /\ made' = made
  BY DEF Goto, Step
<1> QED
  BY <1>2, <1>3, StepCalls

LEMMA ReturnCalls ==
    ASSUME TypeOK, NEW p \in Requests, Return(p)
    PROVE  /\ calls' \in [Requests -> CallType \cup {None}] /\ made' = made
           /\ \A q \in Requests : q # p => calls'[q] = calls[q]
           /\ calls'[p] = None
  BY DEF Return, Step, TypeOK

LEMMA EnterCalls ==
    ASSUME TypeOK, NEW p \in Requests, NEW c \in CallType, Enter(p, c)
    PROVE  /\ calls' \in [Requests -> CallType \cup {None}] /\ made' \in 0..MaxCalls
           /\ \A q \in Requests : q # p => calls'[q] = calls[q]
           /\ calls'[p] = c
  BY BoundAssumption DEF Enter, TypeOK

\* A settings call makes an app record of an app record.
LEMMA ChangesType ==
    ASSUME NEW r \in Store!AppRecord
    PROVE  Store!Changes(r) \subseteq Store!AppRecord
<1>1. ASSUME NEW on \in BOOLEAN
      PROVE  Store!WithPlayerTokens(r, on) \in Store!AppRecord
  BY DEF Store!AppRecord, Store!WithPlayerTokens
<1>2. ASSUME NEW on \in BOOLEAN
      PROVE  Store!WithSigning(r, on) \in Store!AppRecord
  <2> DEFINE v == IF on /\ r.version < 1 THEN 1 ELSE r.version
  <2>1. r.version \in 0..MaxVersion /\ v \in 0..MaxVersion
    BY BoundAssumption DEF Store!AppRecord
  <2>2. Store!WithSigning(r, on) = [r EXCEPT !.signing = on, !.version = v]
    BY DEF Store!WithSigning, Store!AppRecord
  <2> QED
    BY <2>1, <2>2 DEF Store!AppRecord
<1>3. ASSUME r.version < MaxVersion
      PROVE  Store!WithNextVersion(r) \in Store!AppRecord
  BY <1>3, BoundAssumption DEF Store!AppRecord, Store!WithNextVersion
<1> QED
  BY <1>1, <1>2, <1>3 DEF Store!Changes

-----------------------------------------------------------------------------
LEMMA InitInv == Init => IInv
<1> SUFFICES ASSUME Init PROVE IInv
  OBVIOUS
<1>1. TypeOK
  BY BoundAssumption DEF Init, TypeOK
<1>2. FiledInv
  BY DEF Init, FiledInv
<1>3. CleanInv
  BY NoneAssumption DEF Init, CleanInv, Clean
<1>4. CallsInv
  BY DEF Init, CallsInv
<1> QED
  BY <1>1, <1>2, <1>3, <1>4 DEF IInv

\* A step that writes nothing: only what its own call now relies on is to be shown.
LEMMA ReadStep ==
    ASSUME IInv, NEW p \in Requests,
           UNCHANGED <<redisVars, created, issued, raced>>,
           spilled \subseteq spilled', spilled' \subseteq Apps, made' \in 0..MaxCalls,
           calls' \in [Requests -> CallType \cup {None}],
           \A q \in Requests : q # p => calls'[q] = calls[q],
           calls'[p] # None => CallOK(calls[p])'
    PROVE  IInv'
<1> USE DEF IInv
<1>0. UNCHANGED <<appRec, listed, keyApp, publishable, keyMeta, appKeys, boardRec, boardSet,
                  created, issued, raced>>
  BY DEF redisVars
<1>1. TypeOK'
  BY <1>0 DEF TypeOK
<1>2. FiledInv'
  BY <1>0 DEF FiledInv
<1>3. CleanInv'
  BY <1>0 DEF CleanInv, Clean
<1>4. CallsInv'
  <2> SUFFICES ASSUME NEW q \in Requests, q # p, calls[q] # None, calls'[q] = calls[q]
               PROVE  CallOK(calls[q])'
    BY DEF CallsInv
  <2>1. CallOK(calls[q])
    BY DEF CallsInv
  <2> QED
    BY <1>0, <2>1 DEF CallOK, KeyOK, SetOK, AppOK
<1> QED
  BY <1>1, <1>2, <1>3, <1>4

\* Every step that writes nothing: the handlers' checks, and the reads of a call.
ReadActions(p) ==
    \/ \E u \in Users, a \in Apps :
         \/ \E scope \in Scopes : handleIssueKey(p, u, a, scope)
         \/ \E k \in Keys : handleRevokeKey(p, u, a, k)
         \/ handleDeleteApp(p, u, a)
         \/ handleSettings(p, u, a)
         \/ SessionApp(p, u, a)
    \/ IssueKeyGet(p)
    \/ \E k \in Keys : AuthKeyApp(p, k)
    \/ RevokeKeyGetMeta(p) \/ RevokeKeyGetHash(p)
    \/ DeleteAppGet(p) \/ DeleteAppListKeys(p) \/ DeleteAppNextKey(p)
    \/ RevokeFailsInDelete(p)
    \/ DeleteAppListBoards(p)
    \/ mutateAppGet(p)
    \/ AuthKeyScope(p) \/ AuthKeyGetApp(p)
    \/ UpsertBoardGet(p)
    \/ Abandon(p)

\* A call is entered: nothing is known of its app but that it exists.
LEMMA EnterStep ==
    ASSUME IInv, NEW p \in Requests, NEW c \in CallType, Enter(p, c), c.app \in created, ~c.del,
           c.at \in {"getIssue", "meta", "get", "load", "scope", "getBoard"},
           c.at = "getIssue" => c.scope \in Scopes,
           c.at = "meta" => c.id \in Keys /\ c.ids = {},
           c.at = "scope" => c.id \in Keys /\ issued[c.id] # None,
           c.at = "getBoard" => c.id = None,
           UNCHANGED <<redisVars, created, issued, raced, spilled>>
    PROVE  IInv'
<1> USE DEF IInv
<1>1. /\ calls' \in [Requests -> CallType \cup {None}] /\ made' \in 0..MaxCalls
      /\ \A q \in Requests : q # p => calls'[q] = calls[q]
      /\ calls'[p] = c
  BY EnterCalls
<1>2. CallOK(calls[p])'
  BY <1>1 DEF CallOK, KeyOK, SetOK, AppOK, redisVars
<1> QED
  BY <1>1, <1>2, ReadStep DEF TypeOK

\* A call goes on to its next command, with nothing of it changed.
LEMMA GotoStep ==
    ASSUME IInv, NEW p \in Requests, calls[p] # None, NEW point \in Points, Goto(p, point),
           \/ /\ point \in {"keys", "issue", "getBoard", "upsert"}
              /\ ~calls[p].del
              /\ point \in {"issue", "upsert"} => appRec[calls[p].app] # None
              /\ point = "issue" => calls[p].at = "getIssue"
              /\ point = "upsert" => calls[p].at = "getBoard"
              /\ point = "getBoard" => calls[p].at = "authApp"
           \/ /\ point = "hash"
              /\ calls[p].at = "meta"
              /\ keyApp[calls[p].id] = calls[p].app
           \/ /\ point = "next"
              /\ calls[p].at \in {"meta", "hash", "revoke"}
              /\ calls[p].del
              /\ keyApp[calls[p].id] # calls[p].app \/ calls[p].app \in spilled',
           UNCHANGED <<redisVars, created, issued, raced>>,
           spilled \subseteq spilled', spilled' \subseteq Apps
    PROVE  IInv'
<1> USE DEF IInv
<1>0. CallOK(calls[p]) /\ calls[p].app \in Apps /\ calls[p].id \in Keys \cup {None}
  BY CallFields DEF CallsInv
<1>1. /\ calls' \in [Requests -> CallType \cup {None}] /\ made' = made
      /\ \A q \in Requests : q # p => calls'[q] = calls[q]
      /\ calls'[p].at = point /\ calls'[p].app = calls[p].app /\ calls'[p].id = calls[p].id
      /\ calls'[p].scope = calls[p].scope /\ calls'[p].val = calls[p].val
      /\ calls'[p].ids = calls[p].ids /\ calls'[p].hash = calls[p].hash
      /\ calls'[p].del = calls[p].del
  BY GotoCalls
<1>2. keyApp' = keyApp /\ appRec' = appRec /\ issued' = issued /\ created' = created /\ raced' = raced
  BY DEF redisVars
<1>3. point = "hash" => issued[calls[p].id] # None
  BY <1>0, NoneAssumption DEF FiledInv, CallOK, KeyOK
<1>4. KeyOK(calls[p])'
  BY <1>0, <1>1, <1>2, <1>3 DEF CallOK, KeyOK
<1>5. calls[p].app \notin raced' \cup spilled' => AppOK(calls[p])'
  BY <1>0, <1>1, <1>2 DEF CallOK, AppOK
<1>6. CallOK(calls[p])'
  BY <1>0, <1>1, <1>2, <1>4, <1>5 DEF CallOK, SetOK
<1> QED
  BY <1>1, <1>6, ReadStep DEF TypeOK

LEMMA ReturnStep ==
    ASSUME IInv, NEW p \in Requests, Return(p),
           UNCHANGED <<redisVars, created, issued, raced, spilled>>
    PROVE  IInv'
<1>1. /\ calls' \in [Requests -> CallType \cup {None}] /\ made' = made
      /\ \A q \in Requests : q # p => calls'[q] = calls[q]
      /\ calls'[p] = None
  BY ReturnCalls DEF IInv
<1> QED
  BY <1>1, ReadStep DEF IInv, TypeOK

LEMMA ReadsInv ==
    ASSUME IInv, NEW p \in Requests, ReadActions(p)
    PROVE  IInv'
<1> USE DEF IInv
<1>1. ASSUME NEW u \in Users, NEW a \in Apps, NEW scope \in Scopes, handleIssueKey(p, u, a, scope)
      PROVE  IInv'
  <2> DEFINE c == [Call("getIssue", a) EXCEPT !.scope = scope]
  <2>1. c \in CallType /\ c.at = "getIssue" /\ c.app = a /\ c.scope = scope /\ ~c.del
    BY DEF Call, CallType, Points
  <2>2. a \in created
    BY <1>1 DEF handleIssueKey, ownedApp, FiledInv
  <2> QED
    BY <1>1, <2>1, <2>2, EnterStep DEF handleIssueKey
<1>2. ASSUME NEW u \in Users, NEW a \in Apps, NEW k \in Keys, handleRevokeKey(p, u, a, k)
      PROVE  IInv'
  <2> DEFINE c == [Call("meta", a) EXCEPT !.id = k]
  <2>1. c \in CallType /\ c.at = "meta" /\ c.app = a /\ c.id = k /\ c.ids = {} /\ ~c.del
    BY DEF Call, CallType, Points
  <2>2. a \in created
    BY <1>2 DEF handleRevokeKey, ownedApp, FiledInv
  <2> QED
    BY <1>2, <2>1, <2>2, EnterStep DEF handleRevokeKey
<1>3. ASSUME NEW u \in Users, NEW a \in Apps, handleDeleteApp(p, u, a) \/ handleSettings(p, u, a)
      PROVE  IInv'
  <2>1. PICK point \in {"get", "load"} : Enter(p, Call(point, a))
    BY <1>3 DEF handleDeleteApp, handleSettings
  <2> DEFINE c == Call(point, a)
  <2>2. c \in CallType /\ c.at = point /\ c.app = a /\ ~c.del
    BY DEF Call, CallType, Points
  <2>3. a \in created
    BY <1>3 DEF handleDeleteApp, handleSettings, ownedApp, FiledInv
  <2> QED
    BY <1>3, <2>1, <2>2, <2>3, EnterStep DEF handleDeleteApp, handleSettings
<1>4. ASSUME NEW u \in Users, NEW a \in Apps, SessionApp(p, u, a)
      PROVE  IInv'
  <2> DEFINE c == [Call("getBoard", a) EXCEPT !.scope = "secret"]
  <2>1. c \in CallType /\ c.at = "getBoard" /\ c.app = a /\ c.id = None /\ ~c.del
    BY DEF Call, CallType, Points, Scopes, Store!Scopes
  <2>2. a \in created
    BY <1>4 DEF SessionApp, ownedApp, FiledInv
  <2> QED
    BY <1>4, <2>1, <2>2, EnterStep DEF SessionApp
<1>5. ASSUME NEW k \in Keys, AuthKeyApp(p, k)
      PROVE  IInv'
  <2> DEFINE a == keyApp[k]
             c == [Call("scope", a) EXCEPT !.id = k]
  <2>1. a \in Apps /\ a \in created /\ issued[k] # None
    BY <1>5 DEF AuthKeyApp, FiledInv, TypeOK
  <2>2. c \in CallType /\ c.at = "scope" /\ c.app = a /\ c.id = k /\ ~c.del
    BY <2>1 DEF Call, CallType, Points
  <2> QED
    BY <1>5, <2>1, <2>2, EnterStep DEF AuthKeyApp
<1>6. ASSUME IssueKeyGet(p) \/ DeleteAppGet(p) \/ UpsertBoardGet(p) \/ AuthKeyGetApp(p)
      PROVE  IInv'
  <2>1. /\ calls[p] # None /\ CallOK(calls[p])
        /\ calls[p].at \in {"getIssue", "get", "getBoard", "authApp"}
        /\ UNCHANGED <<redisVars, created, issued, raced, spilled>>
    BY <1>6 DEF IssueKeyGet, DeleteAppGet, UpsertBoardGet, AuthKeyGetApp, At, CallsInv
  <2>2. ~calls[p].del /\ spilled \subseteq spilled' /\ spilled' \subseteq Apps
    BY <2>1 DEF CallOK, TypeOK
  <2>3. CASE Return(p)
    BY <2>1, <2>3, ReturnStep
  <2>4. CASE IssueKeyGet(p) /\ ~Return(p)
    <3>1. Goto(p, "issue") /\ appRec[calls[p].app] # None /\ calls[p].at = "getIssue" /\ "issue" \in Points
      BY <2>4 DEF IssueKeyGet, At, Points
    <3> QED BY <2>1, <2>2, <3>1, GotoStep
  <2>5. CASE DeleteAppGet(p) /\ ~Return(p)
    <3>1. Goto(p, "keys") /\ "keys" \in Points
      BY <2>5 DEF DeleteAppGet, Points
    <3> QED BY <2>1, <2>2, <3>1, GotoStep
  <2>6. CASE UpsertBoardGet(p) /\ ~Return(p)
    <3>1. Goto(p, "upsert") /\ appRec[calls[p].app] # None /\ calls[p].at = "getBoard" /\ "upsert" \in Points
      BY <2>6 DEF UpsertBoardGet, At, Points
    <3> QED BY <2>1, <2>2, <3>1, GotoStep
  <2>7. CASE AuthKeyGetApp(p) /\ ~Return(p)
    <3>1. Goto(p, "getBoard") /\ calls[p].at = "authApp" /\ "getBoard" \in Points
      BY <2>7 DEF AuthKeyGetApp, At, Points
    <3> QED BY <2>1, <2>2, <3>1, GotoStep
  <2> QED BY <1>6, <2>3, <2>4, <2>5, <2>6, <2>7
<1>7. ASSUME RevokeKeyGetMeta(p)
      PROVE  IInv'
  <2>1. /\ calls[p] # None /\ CallOK(calls[p]) /\ calls[p].at = "meta" /\ calls[p].id \in Keys
        /\ UNCHANGED <<redisVars, created, issued, raced, spilled>>
        /\ spilled \subseteq spilled' /\ spilled' \subseteq Apps
    BY <1>7 DEF RevokeKeyGetMeta, At, CallsInv, CallOK, KeyOK, TypeOK
  <2>2. keyMeta[calls[p].id] = keyApp[calls[p].id] /\ "hash" \in Points /\ "next" \in Points
    BY <2>1 DEF FiledInv, Points
  <2>3. CASE keyApp[calls[p].id] = calls[p].app
    BY <1>7, <2>1, <2>2, <2>3, GotoStep DEF RevokeKeyGetMeta
  <2>4. CASE keyApp[calls[p].id] # calls[p].app /\ calls[p].del
    BY <1>7, <2>1, <2>2, <2>4, GotoStep DEF RevokeKeyGetMeta, RevokeReturns
  <2>5. CASE keyApp[calls[p].id] # calls[p].app /\ ~calls[p].del
    BY <1>7, <2>1, <2>2, <2>5, ReturnStep DEF RevokeKeyGetMeta, RevokeReturns
  <2> QED BY <2>3, <2>4, <2>5
<1>8. ASSUME RevokeFailsInDelete(p)
      PROVE  IInv'
  <2>1. calls[p] # None /\ calls[p].app \in Apps /\ "next" \in Points
    BY <1>8, CallFields DEF RevokeFailsInDelete, Points
  <2> QED
    BY <1>8, <2>1, GotoStep DEF RevokeFailsInDelete, TypeOK
<1>9. ASSUME Abandon(p)
      PROVE  IInv'
  BY <1>9, ReturnStep DEF Abandon
<1>10. ASSUME NEW c \in CallType, Step(p, c), calls[p] # None, calls[p].app = c.app,
              UNCHANGED <<redisVars, created, issued, raced, spilled>>,
              c.del => c.at \in {"next", "meta", "hash", "revoke"}, KeyOK(c), SetOK(c),
              c.app \notin raced \cup spilled => AppOK(c)
       PROVE  IInv'
  <2>1. /\ calls' \in [Requests -> CallType \cup {None}] /\ made' = made
        /\ \A q \in Requests : q # p => calls'[q] = calls[q]
        /\ calls'[p] = c
    BY <1>10, StepCalls DEF Step
  <2>2. CallOK(calls[p])
    BY <1>10 DEF CallsInv
  <2>3. CallOK(calls[p])'
    BY <1>10, <2>1, <2>2 DEF CallOK, KeyOK, SetOK, AppOK, redisVars
  <2> QED
    BY <1>10, <2>1, <2>3, ReadStep DEF TypeOK
<1>11. ASSUME RevokeKeyGetHash(p)
       PROVE  IInv'
  <2> DEFINE c == [calls[p] EXCEPT !.at = "revoke", !.hash = keyMeta[calls[p].id] # None]
  <2>1. calls[p] \in CallType /\ calls[p] # None /\ CallOK(calls[p]) /\ calls[p].at = "hash"
    BY <1>11, CallFields DEF RevokeKeyGetHash, At, CallsInv
  <2>2. /\ c \in CallType /\ c.at = "revoke" /\ c.hash = (keyMeta[calls[p].id] # None)
        /\ c.app = calls[p].app /\ c.id = calls[p].id /\ c.ids = calls[p].ids /\ c.del = calls[p].del
    BY <2>1 DEF CallType, Points
  <2>3. KeyOK(c)
    BY <2>1, <2>2 DEF CallOK, KeyOK, FiledInv
  <2>4. SetOK(c) /\ (c.app \notin raced \cup spilled => AppOK(c))
    BY <2>1, <2>2 DEF CallOK, SetOK, AppOK
  <2> QED
    BY <1>10, <1>11, <2>1, <2>2, <2>3, <2>4 DEF RevokeKeyGetHash
<1>12. ASSUME DeleteAppListKeys(p)
       PROVE  IInv'
  <2> DEFINE c == [calls[p] EXCEPT !.at = "next", !.ids = appKeys[calls[p].app]]
  <2>1. /\ calls[p] \in CallType /\ calls[p] # None /\ CallOK(calls[p]) /\ calls[p].at = "keys"
        /\ calls[p].app \in Apps
    BY <1>12, CallFields DEF DeleteAppListKeys, At, CallsInv
  <2>2. appKeys[calls[p].app] \in SUBSET Keys
    BY <2>1 DEF TypeOK
  <2>3. /\ c \in CallType /\ c.at = "next" /\ c.ids = appKeys[calls[p].app]
        /\ c.app = calls[p].app /\ c.id = calls[p].id /\ c.del = calls[p].del
    BY <2>1, <2>2 DEF CallType, Points
  <2>4. KeyOK(c) /\ SetOK(c)
    BY <2>2, <2>3 DEF KeyOK, SetOK
  <2>5. c.app \notin raced \cup spilled => AppOK(c)
    BY <2>1, <2>3 DEF CleanInv, Clean, AppOK
  <2> QED
    BY <1>10, <1>12, <2>1, <2>3, <2>4, <2>5 DEF DeleteAppListKeys
<1>13. ASSUME DeleteAppNextKey(p)
       PROVE  IInv'
  <2>1. /\ calls[p] \in CallType /\ calls[p] # None /\ CallOK(calls[p]) /\ calls[p].at = "next"
        /\ calls[p].app \in Apps /\ calls[p].ids \subseteq Keys
    BY <1>13, CallFields DEF DeleteAppNextKey, At, CallsInv, CallOK, KeyOK
  <2>2. ASSUME NEW k \in calls[p].ids,
               Step(p, [calls[p] EXCEPT !.at = "meta", !.id = k, !.ids = @ \ {k}, !.del = TRUE])
        PROVE  IInv'
    <3> DEFINE c == [calls[p] EXCEPT !.at = "meta", !.id = k, !.ids = @ \ {k}, !.del = TRUE]
    <3>1. /\ c \in CallType /\ c.at = "meta" /\ c.id = k /\ c.ids = calls[p].ids \ {k}
          /\ c.del = TRUE /\ c.app = calls[p].app
      BY <2>1 DEF CallType, Points
    <3>2. KeyOK(c) /\ SetOK(c)
      BY <2>1, <3>1 DEF KeyOK, SetOK
    <3>3. c.app \notin raced \cup spilled => AppOK(c)
      BY <2>1, <3>1 DEF CallOK, AppOK
    <3> QED
      BY <1>10, <1>13, <2>1, <2>2, <3>1, <3>2, <3>3 DEF DeleteAppNextKey
  <2>3. ASSUME calls[p].ids = {}, Step(p, Call("boards", calls[p].app))
        PROVE  IInv'
    <3> DEFINE c == Call("boards", calls[p].app)
    <3>1. c \in CallType /\ c.at = "boards" /\ c.app = calls[p].app /\ ~c.del
      BY <2>1 DEF Call, CallType, Points
    <3>2. KeyOK(c) /\ SetOK(c)
      BY <3>1 DEF KeyOK, SetOK
    <3>3. c.app \notin raced \cup spilled => AppOK(c)
      BY <2>1, <2>3, <3>1 DEF CallOK, AppOK
    <3> QED
      BY <1>10, <1>13, <2>1, <2>3, <3>1, <3>2, <3>3 DEF DeleteAppNextKey
  <2> QED
    BY <1>13, <2>2, <2>3 DEF DeleteAppNextKey
<1>14. ASSUME DeleteAppListBoards(p)
       PROVE  IInv'
  <2> DEFINE c == [calls[p] EXCEPT !.at = "drop", !.ids = boardSet[calls[p].app]]
  <2>1. /\ calls[p] \in CallType /\ calls[p] # None /\ CallOK(calls[p]) /\ calls[p].at = "boards"
        /\ calls[p].app \in Apps
    BY <1>14, CallFields DEF DeleteAppListBoards, At, CallsInv
  <2>2. boardSet[calls[p].app] \in SUBSET Boards
    BY <2>1 DEF TypeOK
  <2>3. /\ c \in CallType /\ c.at = "drop" /\ c.ids = boardSet[calls[p].app]
        /\ c.app = calls[p].app /\ c.del = calls[p].del
    BY <2>1, <2>2 DEF CallType, Points
  <2>4. KeyOK(c) /\ SetOK(c) /\ ~c.del
    BY <2>1, <2>3 DEF KeyOK, SetOK, CallOK
  <2>5. c.app \notin raced \cup spilled => AppOK(c)
    BY <2>1, <2>3, <2>4 DEF CallOK, AppOK
  <2> QED
    BY <1>10, <1>14, <2>1, <2>3, <2>4, <2>5 DEF DeleteAppListBoards
<1>15. ASSUME mutateAppGet(p)
       PROVE  IInv'
  <2> DEFINE a == calls[p].app
  <2>1. /\ calls[p] \in CallType /\ calls[p] # None /\ CallOK(calls[p]) /\ calls[p].at = "load" /\ a \in Apps
    BY <1>15, CallFields DEF mutateAppGet, At, CallsInv
  <2>2. ASSUME appRec[a] # None, NEW r \in Store!Changes(appRec[a]),
               Step(p, [calls[p] EXCEPT !.at = "set", !.val = r])
        PROVE  IInv'
    <3> DEFINE c == [calls[p] EXCEPT !.at = "set", !.val = r]
    <3>1. appRec[a] \in Store!AppRecord
      BY <2>1, <2>2 DEF TypeOK
    <3>2. r \in Store!AppRecord
      BY <2>2, <3>1, ChangesType
    <3>3. c \in CallType /\ c.at = "set" /\ c.val = r /\ c.app = a /\ c.del = calls[p].del
      BY <2>1, <3>2 DEF CallType, Points
    <3>4. ~c.del
      BY <2>1, <3>3 DEF CallOK
    <3>5. KeyOK(c) /\ SetOK(c) /\ AppOK(c)
      BY <2>2, <3>2, <3>3, <3>4 DEF KeyOK, SetOK, AppOK
    <3> QED
      BY <1>10, <1>15, <2>1, <2>2, <3>3, <3>4, <3>5 DEF mutateAppGet
  <2> QED
    BY <1>15, <2>2, ReturnStep DEF mutateAppGet
<1>16. ASSUME AuthKeyScope(p)
       PROVE  IInv'
  <2> DEFINE sc == IF calls[p].id \in publishable THEN "publishable" ELSE "secret"
             c == [calls[p] EXCEPT !.at = "authApp", !.scope = sc]
  <2>1. /\ calls[p] \in CallType /\ calls[p] # None /\ CallOK(calls[p]) /\ calls[p].at = "scope"
    BY <1>16, CallFields DEF AuthKeyScope, At, CallsInv
  <2>2. sc \in Scopes
    BY DEF Scopes, Store!Scopes
  <2>3. c \in CallType /\ c.at = "authApp" /\ c.scope = sc /\ c.app = calls[p].app /\ c.id = calls[p].id
        /\ c.del = calls[p].del
    BY <2>1, <2>2 DEF CallType, Points
  <2>4. calls[p].id \in Keys /\ issued[calls[p].id] # None /\ ~c.del
    BY <2>1, <2>3 DEF CallOK, KeyOK
  <2>5. keyApp[calls[p].id] # None => sc = issued[calls[p].id]
    BY <2>4 DEF FiledInv, TypeOK, Scopes, Store!Scopes
  <2>6. KeyOK(c) /\ SetOK(c) /\ AppOK(c)
    BY <2>3, <2>4, <2>5 DEF KeyOK, SetOK, AppOK
  <2> QED
    BY <1>10, <1>16, <2>1, <2>3, <2>4, <2>6 DEF AuthKeyScope
<1> QED
  BY <1>1, <1>2, <1>3, <1>4, <1>5, <1>6, <1>7, <1>8, <1>9, <1>11, <1>12, <1>13, <1>14, <1>15, <1>16
     DEF ReadActions

-----------------------------------------------------------------------------
(* The steps that write. *)

\* CreateApp's pipeline: the id is new, so nothing is filed under it and no call
\* is about it.
LEMMA CreateAppStep ==
    ASSUME IInv, NEW p \in Requests, NEW u \in Users, NEW a \in Apps, handleCreateApp(p, u, a)
    PROVE  IInv'
<1> USE DEF IInv
<1> DEFINE c == [Call("getIssue", a) EXCEPT !.scope = "secret"]
<1>1. c \in CallType /\ c.at = "getIssue" /\ c.app = a /\ c.scope \in Scopes /\ ~c.del
  BY DEF Call, CallType, Points, Scopes, Store!Scopes
<1>2. /\ calls' \in [Requests -> CallType \cup {None}] /\ made' \in 0..MaxCalls
      /\ \A q \in Requests : q # p => calls'[q] = calls[q]
      /\ calls'[p] = c
  BY <1>1, EnterCalls DEF handleCreateApp
<1>3. /\ a \notin created /\ created' = created \cup {a} /\ listed' = listed \cup {a}
      /\ appRec' = [appRec EXCEPT ![a] = Store!NewApp(u)]
      /\ UNCHANGED <<keyApp, publishable, keyMeta, appKeys, boardRec, boardSet, issued, raced, spilled>>
  BY DEF handleCreateApp
<1>4. Store!NewApp(u) \in Store!AppRecord /\ Store!NewApp(u) # None
  <2>1. Store!NewApp(u) \in Store!AppRecord
    BY BoundAssumption DEF Store!NewApp, Store!AppRecord
  <2> QED
    BY <2>1, NoneAssumption
<1>5. TypeOK'
  BY <1>2, <1>3, <1>4 DEF TypeOK
<1>6. FiledInv'
  BY <1>3 DEF FiledInv, TypeOK
<1>7. CleanInv'
  <2> SUFFICES ASSUME NEW e \in Apps \ (raced \cup spilled) PROVE Clean(e)'
    BY <1>3 DEF CleanInv
  <2>1. Clean(e)
    BY DEF CleanInv
  <2>2. e = a => appRec[e] = None /\ appRec'[e] # None
    BY <1>3, <1>4 DEF FiledInv, TypeOK
  <2>3. e # a => appRec'[e] = appRec[e]
    BY <1>3 DEF TypeOK
  <2> QED
    BY <1>3, <2>1, <2>2, <2>3 DEF Clean
<1>8. CallsInv'
  <2>1. CallOK(calls[p])'
    BY <1>1, <1>2, <1>3 DEF CallOK, KeyOK, SetOK, AppOK
  <2>2. ASSUME NEW q \in Requests, q # p, calls[q] # None
        PROVE  CallOK(calls[q])'
    <3>1. CallOK(calls[q]) /\ calls'[q] = calls[q] /\ calls[q].app \in Apps
      BY <1>2, <2>2, CallFields DEF CallsInv
    <3>2. appRec'[calls[q].app] = appRec[calls[q].app]
      BY <1>3, <3>1 DEF CallOK, TypeOK
    <3> QED
      BY <1>3, <3>1, <3>2 DEF CallOK, KeyOK, SetOK, AppOK
  <2> QED
    BY <1>2, <2>1, <2>2 DEF CallsInv
<1> QED
  BY <1>5, <1>6, <1>7, <1>8

\* A key is written: it has not been issued before, so no call is about it, and a
\* deletion that has listed the keys of its app spills.
LEMMA IssueStep ==
    ASSUME IInv, NEW p \in Requests, NEW k \in Keys, IssueKeyExec(p, k)
    PROVE  IInv'
<1> USE DEF IInv
<1> DEFINE a == calls[p].app
           sc == calls[p].scope
<1>1. /\ calls[p] # None /\ calls[p].at = "issue" /\ CallOK(calls[p])
      /\ a \in Apps /\ a \in created /\ sc \in Scopes /\ sc # None /\ a # None
      /\ a \notin raced \cup spilled => appRec[a] # None
  BY CallFields, NoneAssumption DEF IssueKeyExec, At, CallsInv, CallOK, KeyOK, AppOK
<1>2. /\ issued[k] = None /\ issued' = [issued EXCEPT ![k] = sc]
      /\ keyApp' = [keyApp EXCEPT ![k] = a]
      /\ publishable' = IF sc = "publishable" THEN publishable \cup {k} ELSE publishable
      /\ keyMeta' = [keyMeta EXCEPT ![k] = a]
      /\ appKeys' = [appKeys EXCEPT ![a] = @ \cup {k}]
      /\ spilled' = IF Deleting(a) THEN spilled \cup {a} ELSE spilled
      /\ UNCHANGED <<appRec, listed, boardRec, boardSet, created, raced>>
  BY DEF IssueKeyExec
<1>3. /\ calls' \in [Requests -> CallType \cup {None}] /\ made' = made
      /\ \A q \in Requests : q # p => calls'[q] = calls[q]
      /\ calls'[p] = None
  BY ReturnCalls DEF IssueKeyExec
<1>4. /\ keyApp[k] = None /\ k \notin publishable
      /\ keyApp'[k] = a /\ issued'[k] = sc /\ keyMeta'[k] = a
      /\ \A j \in Keys : j # k => keyApp'[j] = keyApp[j] /\ issued'[j] = issued[j] /\ keyMeta'[j] = keyMeta[j]
  BY <1>2 DEF FiledInv, TypeOK
<1>5. TypeOK'
  BY <1>1, <1>2, <1>3 DEF TypeOK
<1>6. FiledInv'
  BY <1>1, <1>2, <1>4 DEF FiledInv
<1>7. CleanInv'
  <2> SUFFICES ASSUME NEW e \in Apps \ (raced \cup spilled) PROVE Clean(e)'
    BY <1>2 DEF CleanInv
  <2>1. Clean(e)
    BY DEF CleanInv
  <2>2. CASE e = a
    <3>1. appKeys'[e] = appKeys[e] \cup {k} /\ appRec[e] # None
      BY <1>1, <1>2, <2>2 DEF TypeOK
    <3>2. appKeys'[e] = {j \in Keys : keyApp'[j] = e}
      BY <1>4, <2>1, <2>2, <3>1 DEF Clean
    <3> QED
      BY <1>2, <2>1, <3>1, <3>2 DEF Clean
  <2>3. CASE e # a
    <3>1. appKeys'[e] = appKeys[e]
      BY <1>2, <2>3 DEF TypeOK
    <3>2. \A j \in Keys : keyApp'[j] = e <=> keyApp[j] = e
      BY <1>4, <2>3, NoneAssumption
    <3>3. appKeys'[e] = {j \in Keys : keyApp'[j] = e}
      BY <2>1, <3>1, <3>2 DEF Clean
    <3> QED
      BY <1>2, <2>1, <3>2, <3>3 DEF Clean
  <2> QED
    BY <2>2, <2>3
<1>8. CallsInv'
  <2> SUFFICES ASSUME NEW q \in Requests, q # p, calls[q] # None, calls'[q] = calls[q]
               PROVE  CallOK(calls[q])'
    BY <1>3 DEF CallsInv
  <2> DEFINE c == calls[q]
  <2>1. CallOK(c) /\ c.id \in Keys \cup {None} /\ c.app \in Apps
    BY CallFields DEF CallsInv
  <2>2. issued[c.id] # None /\ c.id \in Keys => keyApp'[c.id] = keyApp[c.id] /\ issued'[c.id] = issued[c.id]
    BY <1>2, <1>4
  <2>3. KeyOK(calls[q])'
    BY <1>2, <2>1, <2>2 DEF CallOK, KeyOK
  <2>4. SetOK(calls[q])'
    BY <1>2, <2>1 DEF CallOK, SetOK
  <2>5. ASSUME c.app \notin raced \cup spilled'
        PROVE  AppOK(calls[q])'
    <3>1. AppOK(c)
      BY <1>2, <2>1, <2>5 DEF CallOK
    <3>2. CASE c.app # a
      <4>1. \A j \in Keys : keyApp'[j] = c.app => keyApp[j] = c.app
        BY <1>4, <3>2
      <4> QED BY <1>2, <3>1, <4>1 DEF AppOK
    <3>3. CASE c.app = a
      <4>1. c.at \notin {"keys", "next", "boards", "drop"} /\ ~c.del
        BY <1>2, <2>5, <3>3 DEF Deleting
      <4> QED BY <1>2, <3>1, <4>1 DEF AppOK
    <3> QED BY <3>2, <3>3
  <2> QED
    BY <1>2, <2>1, <2>3, <2>4, <2>5 DEF CallOK
<1> QED
  BY <1>5, <1>6, <1>7, <1>8

\* A key goes: its entries go together, whether or not the hash was found.
LEMMA RevokeStep ==
    ASSUME IInv, NEW p \in Requests, RevokeKeyExec(p)
    PROVE  IInv'
<1> USE DEF IInv
<1> DEFINE a == calls[p].app
           k == calls[p].id
<1>1. /\ calls[p] # None /\ calls[p].at = "revoke" /\ CallOK(calls[p])
      /\ a \in Apps /\ a \in created /\ k \in Keys /\ calls[p].hash \in BOOLEAN
      /\ keyApp[k] \in {a, None} /\ (~calls[p].hash => keyApp[k] = None) /\ a # None
  BY CallFields, NoneAssumption DEF RevokeKeyExec, At, CallsInv, CallOK, KeyOK
<1>2. /\ keyMeta' = [keyMeta EXCEPT ![k] = None]
      /\ appKeys' = [appKeys EXCEPT ![a] = @ \ {k}]
      /\ publishable' = IF calls[p].hash THEN publishable \ {k} ELSE publishable
      /\ UNCHANGED <<appRec, listed, boardRec, boardSet, created, issued, raced, spilled>>
  BY DEF RevokeKeyExec
<1>3. keyApp' = [keyApp EXCEPT ![k] = None]
  BY <1>1 DEF RevokeKeyExec, TypeOK
<1>4. /\ keyApp'[k] = None /\ keyMeta'[k] = None
      /\ \A j \in Keys : j # k => keyApp'[j] = keyApp[j] /\ keyMeta'[j] = keyMeta[j]
  BY <1>1, <1>2, <1>3 DEF TypeOK
<1>5. /\ calls' \in [Requests -> CallType \cup {None}] /\ made' = made
      /\ \A q \in Requests : q # p => calls'[q] = calls[q]
      /\ calls'[p] # None => /\ calls'[p].at = "next" /\ calls'[p].app = a /\ calls'[p].id = k
                             /\ calls'[p].ids = calls[p].ids /\ calls[p].del
  <2>1. "next" \in Points
    BY DEF Points
  <2> QED
    BY <1>1, <2>1, GotoCalls, ReturnCalls DEF RevokeKeyExec, RevokeReturns
<1>6. TypeOK'
  BY <1>1, <1>2, <1>3, <1>5 DEF TypeOK
<1>7. FiledInv'
  BY <1>1, <1>2, <1>4 DEF FiledInv
<1>8. CleanInv'
  <2> SUFFICES ASSUME NEW e \in Apps \ (raced \cup spilled) PROVE Clean(e)'
    BY <1>2 DEF CleanInv
  <2>1. Clean(e)
    BY DEF CleanInv
  <2>2. appKeys'[e] = {j \in Keys : keyApp'[j] = e}
    <3>1. appKeys'[e] = IF e = a THEN appKeys[e] \ {k} ELSE appKeys[e]
      BY <1>2 DEF TypeOK
    <3>2. \A j \in Keys : keyApp'[j] = e <=> keyApp[j] = e /\ j # k
      BY <1>4, NoneAssumption
    <3>3. e # a => keyApp[k] # e
      BY <1>1, NoneAssumption
    <3> QED
      BY <2>1, <3>1, <3>2, <3>3 DEF Clean
  <2>3. \A j \in Keys : keyApp[j] # e => keyApp'[j] # e
    BY <1>4, NoneAssumption
  <2> QED
    BY <1>2, <2>1, <2>2, <2>3 DEF Clean
<1>9. \A j \in Keys : keyApp'[j] # None => keyApp'[j] = keyApp[j] /\ j # k
  BY <1>4
<1>10. \A q \in Requests : q # p /\ calls[q] # None => CallOK(calls[q])'
  <2> SUFFICES ASSUME NEW q \in Requests, q # p, calls[q] # None, calls'[q] = calls[q]
               PROVE  CallOK(calls[q])'
    BY <1>5
  <2> DEFINE c == calls[q]
  <2>1. CallOK(c) /\ c.id \in Keys \cup {None} /\ c.app \in Apps
    BY CallFields DEF CallsInv
  <2>2. KeyOK(calls[q])'
    BY <1>2, <1>4, <1>9, <2>1 DEF CallOK, KeyOK
  <2>3. SetOK(calls[q])'
    BY <1>2, <2>1 DEF CallOK, SetOK
  <2>4. c.app \notin raced \cup spilled => AppOK(calls[q])'
    BY <1>2, <1>9, <2>1, NoneAssumption DEF CallOK, AppOK
  <2> QED
    BY <1>2, <2>1, <2>2, <2>3, <2>4 DEF CallOK
<1>11. calls'[p] # None => CallOK(calls[p])'
  <2> SUFFICES ASSUME calls'[p] # None PROVE CallOK(calls[p])'
    OBVIOUS
  <2>1. KeyOK(calls[p])' /\ SetOK(calls[p])'
    BY <1>1, <1>5 DEF CallOK, KeyOK, SetOK
  <2>2. a \notin raced \cup spilled => AppOK(calls[p])'
    BY <1>1, <1>5, <1>9, NoneAssumption DEF CallOK, AppOK
  <2> QED
    BY <1>1, <1>2, <1>5, <2>1, <2>2 DEF CallOK
<1>12. CallsInv'
  BY <1>5, <1>10, <1>11 DEF CallsInv
<1> QED
  BY <1>6, <1>7, <1>8, <1>12

\* The app goes, with the boards that were listed: unless the app spilled these are
\* all of them, and no key of it is left.
LEMMA DeleteStep ==
    ASSUME IInv, NEW p \in Requests, DeleteAppExec(p)
    PROVE  IInv'
<1> USE DEF IInv
<1> DEFINE a == calls[p].app
<1>1. /\ calls[p] # None /\ calls[p].at = "drop" /\ CallOK(calls[p]) /\ a \in Apps /\ a \in created
  BY CallFields DEF DeleteAppExec, At, CallsInv, CallOK
<1>2. /\ boardRec' = [boardRec EXCEPT ![a] = [b \in Boards |-> IF b \in calls[p].ids THEN None ELSE @[b]]]
      /\ boardSet' = [boardSet EXCEPT ![a] = {}]
      /\ appKeys' = [appKeys EXCEPT ![a] = {}]
      /\ appRec' = [appRec EXCEPT ![a] = None]
      /\ listed' = listed \ {a}
      /\ raced' = IF Holding(p, a) THEN raced \cup {a} ELSE raced
      /\ spilled' = IF Writing(a) THEN spilled \cup {a} ELSE spilled
      /\ UNCHANGED <<keyApp, publishable, keyMeta, created, issued>>
  BY DEF DeleteAppExec
<1>3. /\ calls' \in [Requests -> CallType \cup {None}] /\ made' = made
      /\ \A q \in Requests : q # p => calls'[q] = calls[q]
      /\ calls'[p] = None
  BY ReturnCalls DEF DeleteAppExec
<1>4. /\ boardRec'[a] = [b \in Boards |-> IF b \in calls[p].ids THEN None ELSE boardRec[a][b]]
      /\ boardSet'[a] = {} /\ appKeys'[a] = {} /\ appRec'[a] = None
      /\ \A e \in Apps : e # a => /\ boardRec'[e] = boardRec[e] /\ boardSet'[e] = boardSet[e]
                                  /\ appKeys'[e] = appKeys[e] /\ appRec'[e] = appRec[e]
  BY <1>1, <1>2 DEF TypeOK
<1>5. boardRec' \in [Apps -> [Boards -> Configs \cup {None}]]
  BY <1>1, <1>2 DEF TypeOK
<1>6. TypeOK'
  BY <1>1, <1>2, <1>3, <1>5 DEF TypeOK
<1>7. FiledInv'
  <2>1. \A e \in Apps, b \in Boards : boardRec'[e][b] # None => e \in created
    BY <1>1, <1>4 DEF FiledInv
  <2>2. \A e \in Apps : appRec'[e] # None => e \in created
    BY <1>1, <1>4 DEF FiledInv
  <2> QED
    BY <1>1, <1>2, <2>1, <2>2 DEF FiledInv
<1>8. CleanInv'
  <2> SUFFICES ASSUME NEW e \in Apps \ (raced \cup spilled), e \notin raced' \cup spilled' PROVE Clean(e)'
    BY <1>2 DEF CleanInv
  <2>1. Clean(e)
    BY DEF CleanInv
  <2>2. CASE e = a
    <3>1. (\A k \in Keys : keyApp[k] # a) /\ boardSet[a] \subseteq calls[p].ids
      BY <1>1, <2>2 DEF CallOK, AppOK
    <3>2. \A b \in Boards : boardRec'[a][b] = None
      BY <1>4, <2>1, <2>2, <3>1 DEF Clean
    <3>3. boardSet'[a] = {b \in Boards : boardRec'[a][b] # None} /\ appKeys'[a] = {k \in Keys : keyApp[k] = a}
      BY <1>4, <3>1, <3>2
    <3> QED
      BY <1>2, <1>4, <2>2, <3>1, <3>2, <3>3 DEF Clean
  <2>3. CASE e # a
    BY <1>2, <1>4, <2>1, <2>3 DEF Clean
  <2> QED
    BY <2>2, <2>3
<1>9. CallsInv'
  <2> SUFFICES ASSUME NEW q \in Requests, q # p, calls[q] # None, calls'[q] = calls[q]
               PROVE  CallOK(calls[q])'
    BY <1>3 DEF CallsInv
  <2> DEFINE c == calls[q]
  <2>1. CallOK(c) /\ c.app \in Apps
    BY CallFields DEF CallsInv
  <2>2. KeyOK(calls[q])'
    BY <1>2, <2>1 DEF CallOK, KeyOK
  <2>3. SetOK(calls[q])'
    <3>1. CASE c.app # a
      BY <1>2, <1>4, <2>1, <3>1 DEF CallOK, SetOK
    <3>2. CASE c.app = a
      <4>1. c.at = "set" => a \in raced'
        BY <1>2, <3>2 DEF Holding
      <4> QED BY <2>1, <3>2, <4>1 DEF CallOK, SetOK
    <3> QED BY <3>1, <3>2
  <2>4. ASSUME c.app \notin raced' \cup spilled'
        PROVE  AppOK(calls[q])'
    <3>1. AppOK(c)
      BY <1>2, <2>1, <2>4 DEF CallOK
    <3>2. CASE c.app # a
      BY <1>2, <1>4, <2>1, <3>1, <3>2 DEF AppOK
    <3>3. CASE c.app = a
      <4>1. c.at \notin {"issue", "upsert"}
        BY <1>2, <2>4, <3>3 DEF Writing
      <4> QED BY <1>2, <1>4, <3>1, <3>3, <4>1 DEF AppOK
    <3> QED BY <3>2, <3>3
  <2> QED
    BY <1>2, <2>1, <2>2, <2>3, <2>4 DEF CallOK
<1> QED
  BY <1>6, <1>7, <1>8, <1>9

\* The settings are written: every other settings call of the app has now raced.
LEMMA SetStep ==
    ASSUME IInv, NEW p \in Requests, mutateAppSet(p)
    PROVE  IInv'
<1> USE DEF IInv
<1> DEFINE a == calls[p].app
<1>1. /\ calls[p] # None /\ calls[p].at = "set" /\ CallOK(calls[p]) /\ a \in Apps /\ a \in created
      /\ calls[p].val \in Store!AppRecord /\ calls[p].val # None
      /\ a \notin raced => appRec[a] # None
  BY CallFields, NoneAssumption DEF mutateAppSet, At, CallsInv, CallOK, SetOK
<1>2. /\ appRec' = [appRec EXCEPT ![a] = calls[p].val]
      /\ raced' = IF Holding(p, a) THEN raced \cup {a} ELSE raced
      /\ UNCHANGED <<listed, keyApp, publishable, keyMeta, appKeys, boardRec, boardSet,
                     created, issued, spilled>>
  BY DEF mutateAppSet
<1>3. /\ calls' \in [Requests -> CallType \cup {None}] /\ made' = made
      /\ \A q \in Requests : q # p => calls'[q] = calls[q]
      /\ calls'[p] = None
  BY ReturnCalls DEF mutateAppSet
<1>4. appRec'[a] = calls[p].val /\ \A e \in Apps : e # a => appRec'[e] = appRec[e]
  BY <1>1, <1>2 DEF TypeOK
<1>5. TypeOK'
  BY <1>1, <1>2, <1>3 DEF TypeOK
<1>6. FiledInv'
  BY <1>1, <1>2, <1>4 DEF FiledInv
<1>7. CleanInv'
  <2>1. ASSUME NEW e \in Apps \ (raced \cup spilled)
        PROVE  Clean(e)'
    <3>1. Clean(e)
      BY DEF CleanInv
    <3>2. appRec'[e] = None <=> appRec[e] = None
      BY <1>1, <1>4, <2>1
    <3> QED BY <1>2, <3>1, <3>2 DEF Clean
  <2> QED
    BY <1>2, <2>1 DEF CleanInv
<1>8. CallsInv'
  <2> SUFFICES ASSUME NEW q \in Requests, q # p, calls[q] # None, calls'[q] = calls[q]
               PROVE  CallOK(calls[q])'
    BY <1>3 DEF CallsInv
  <2> DEFINE c == calls[q]
  <2>1. CallOK(c) /\ c.app \in Apps
    BY CallFields DEF CallsInv
  <2>2. KeyOK(calls[q])'
    BY <1>2, <2>1 DEF CallOK, KeyOK
  <2>3. SetOK(calls[q])'
    <3>1. CASE c.app # a
      BY <1>2, <1>4, <2>1, <3>1 DEF CallOK, SetOK
    <3>2. CASE c.app = a
      <4>1. c.at = "set" => a \in raced'
        BY <1>2, <3>2 DEF Holding
      <4> QED BY <2>1, <3>2, <4>1 DEF CallOK, SetOK
    <3> QED BY <3>1, <3>2
  <2>4. c.app \notin raced' \cup spilled' => AppOK(calls[q])'
    BY <1>1, <1>2, <1>4, <2>1 DEF CallOK, AppOK
  <2> QED
    BY <1>2, <2>1, <2>2, <2>3, <2>4 DEF CallOK
<1> QED
  BY <1>5, <1>6, <1>7, <1>8

\* A board is written: a deletion past its first read spills.
LEMMA UpsertStep ==
    ASSUME IInv, NEW p \in Requests, NEW b \in Boards, NEW cf \in Configs, UpsertBoardExec(p, b, cf)
    PROVE  IInv'
<1> USE DEF IInv
<1> DEFINE a == calls[p].app
<1>1. /\ calls[p] # None /\ calls[p].at = "upsert" /\ CallOK(calls[p]) /\ a \in Apps /\ a \in created
      /\ a \notin raced \cup spilled => appRec[a] # None
  BY CallFields DEF UpsertBoardExec, At, CallsInv, CallOK, AppOK
<1>2. /\ boardRec' = [boardRec EXCEPT ![a][b] = cf]
      /\ boardSet' = [boardSet EXCEPT ![a] = @ \cup {b}]
      /\ spilled' = IF Deleting(a) THEN spilled \cup {a} ELSE spilled
      /\ UNCHANGED <<appRec, listed, keyApp, publishable, keyMeta, appKeys, created, issued, raced>>
  BY DEF UpsertBoardExec
<1>3. /\ calls' \in [Requests -> CallType \cup {None}] /\ made' = made
      /\ \A q \in Requests : q # p => calls'[q] = calls[q]
      /\ calls'[p] = None
  BY ReturnCalls DEF UpsertBoardExec
<1>4. /\ boardSet'[a] = boardSet[a] \cup {b}
      /\ boardRec'[a][b] = cf /\ \A d \in Boards : d # b => boardRec'[a][d] = boardRec[a][d]
      /\ \A e \in Apps : e # a => boardRec'[e] = boardRec[e] /\ boardSet'[e] = boardSet[e]
  BY <1>1, <1>2 DEF TypeOK
<1>5. TypeOK'
  BY <1>1, <1>2, <1>3 DEF TypeOK
<1>6. FiledInv'
  <2>1. \A e \in Apps, d \in Boards : boardRec'[e][d] # None => e \in created
    BY <1>1, <1>4 DEF FiledInv
  <2> QED
    BY <1>2, <2>1 DEF FiledInv
<1>7. CleanInv'
  <2> SUFFICES ASSUME NEW e \in Apps \ (raced \cup spilled) PROVE Clean(e)'
    BY <1>2 DEF CleanInv
  <2>1. Clean(e)
    BY DEF CleanInv
  <2>2. CASE e = a
    <3>1. boardSet'[a] = {d \in Boards : boardRec'[a][d] # None}
      BY <1>4, <2>1, <2>2, NoneAssumption DEF Clean
    <3> QED
      BY <1>1, <1>2, <2>1, <2>2, <3>1 DEF Clean
  <2>3. CASE e # a
    BY <1>2, <1>4, <2>1, <2>3 DEF Clean
  <2> QED
    BY <2>2, <2>3
<1>8. CallsInv'
  <2> SUFFICES ASSUME NEW q \in Requests, q # p, calls[q] # None, calls'[q] = calls[q]
               PROVE  CallOK(calls[q])'
    BY <1>3 DEF CallsInv
  <2> DEFINE c == calls[q]
  <2>1. CallOK(c) /\ c.app \in Apps
    BY CallFields DEF CallsInv
  <2>2. KeyOK(calls[q])' /\ SetOK(calls[q])'
    BY <1>2, <2>1 DEF CallOK, KeyOK, SetOK
  <2>3. ASSUME c.app \notin raced \cup spilled'
        PROVE  AppOK(calls[q])'
    <3>1. AppOK(c)
      BY <1>2, <2>1, <2>3 DEF CallOK
    <3>2. CASE c.app # a
      BY <1>2, <1>4, <2>1, <3>1, <3>2 DEF AppOK
    <3>3. CASE c.app = a
      <4>1. c.at # "drop"
        BY <1>2, <2>3, <3>3 DEF Deleting
      <4> QED BY <1>2, <3>1, <4>1 DEF AppOK
    <3> QED BY <3>2, <3>3
  <2> QED
    BY <1>2, <2>1, <2>2, <2>3 DEF CallOK
<1> QED
  BY <1>5, <1>6, <1>7, <1>8

LEMMA NextInv ==
    ASSUME IInv, [Next]_vars
    PROVE  IInv'
<1>1. CASE UNCHANGED vars
  BY <1>1 DEF vars, redisVars, IInv, TypeOK, FiledInv, CleanInv, Clean, CallsInv, CallOK, KeyOK, SetOK, AppOK
<1>2. CASE Next
  <2>1. PICK p \in Requests :
          \/ ReadActions(p)
          \/ \E u \in Users, a \in Apps : handleCreateApp(p, u, a)
          \/ \E k \in Keys : IssueKeyExec(p, k)
          \/ RevokeKeyExec(p) \/ DeleteAppExec(p) \/ mutateAppSet(p)
          \/ \E b \in Boards, c \in Configs : UpsertBoardExec(p, b, c)
    BY <1>2, Zenon DEF Next, ReadActions
  <2> QED
    BY <2>1, ReadsInv, CreateAppStep, IssueStep, RevokeStep, DeleteStep, SetStep, UpsertStep
<1> QED
  BY <1>1, <1>2

LEMMA Invariance == Spec => []IInv
  BY InitInv, NextInv, PTL DEF Spec

\* The keys of Redis and the calls in progress keep their types.
THEOREM TypeCorrect == Spec => []TypeOK
  BY Invariance, PTL DEF IInv

\* After DeleteApp nothing is left filed under the app, but for the three ways in
\* which one of its commands can be overtaken or fail.
THEOREM DeletionIsComplete == Spec => []DeleteIsComplete
<1>1. IInv => DeleteIsComplete
  <2> SUFFICES ASSUME IInv, NEW a \in created \ (raced \cup spilled), appRec[a] = None
               PROVE  /\ \A k \in Keys : keyApp[k] # a /\ keyMeta[k] # a
                      /\ appKeys[a] = {}
                      /\ boardSet[a] = {}
                      /\ \A b \in Boards : boardRec[a][b] = None
    BY DEF DeleteIsComplete
  <2>1. Clean(a) /\ \A k \in Keys : keyMeta[k] = keyApp[k]
    BY DEF IInv, TypeOK, CleanInv, FiledInv
  <2> QED
    BY <2>1 DEF Clean
<1> QED
  BY <1>1, Invariance, PTL

\* ten:apps, ten:appkeys and ten:boards list exactly the records there are.
THEOREM IndexesAgreeWithRecords == Spec => []IndexesAgree
<1>1. IInv => IndexesAgree
  BY DEF IInv, TypeOK, CleanInv, Clean, IndexesAgree
<1> QED
  BY <1>1, Invariance, PTL

\* AuthKey answers with the scope the key was issued with.
THEOREM AuthKeyScopeIsIssued == Spec => []ScopeAsIssued
<1>1. IInv => ScopeAsIssued
  <2> SUFFICES ASSUME IInv, NEW p \in Requests, calls[p] # None,
                      calls[p].at \in {"authApp", "getBoard", "upsert"},
                      calls[p].id # None, calls[p].scope # issued[calls[p].id]
               PROVE  keyApp[calls[p].id] = None
    BY DEF ScopeAsIssued
  <2> QED
    BY DEF IInv, CallsInv, CallOK, KeyOK
<1> QED
  BY <1>1, Invariance, PTL

-----------------------------------------------------------------------------
(* The calls of the Redis store implement those of TenancyStore.            *)

\* The values the refinement mapping gives the variables of TenancyStore.
absApps == [a \in Apps |-> IF Live(a) THEN appRec[a] ELSE None]

absKey(k) == [app |-> keyApp[k], scope |-> IF k \in publishable THEN "publishable" ELSE "secret"]

absKeys ==
    [k \in Keys |-> IF keyApp[k] # None
                    THEN IF Live(keyApp[k]) THEN absKey(k) ELSE None
                    ELSE None]

absBoards == [a \in Apps |-> IF Live(a) THEN boardRec[a] ELSE [b \in Boards |-> None]]

\* An app has an abstract record exactly when it is live, and a key an abstract
\* entry exactly when its app is.
LEMMA AbsValues ==
    ASSUME TypeOK
    PROVE  /\ \A a \in Apps : absApps[a] # None <=> Live(a)
           /\ \A k \in Keys : keyApp[k] # None => absKey(k) # None
           /\ \A k \in Keys : absKeys[k] # None <=> keyApp[k] # None /\ Live(keyApp[k])
<1>1. \A a \in Apps : absApps[a] # None <=> Live(a)
  BY DEF absApps, Live
<1>2. ASSUME NEW k \in Keys, keyApp[k] # None
      PROVE  absKey(k) # None
  <2>1. absKey(k) \in [app : Apps, scope : Scopes]
    BY <1>2 DEF absKey, TypeOK, Scopes, Store!Scopes
  <2> QED
    BY <2>1, NoneAssumption
<1> QED
  BY <1>1, <1>2 DEF absKeys

\* A step that changes neither a live app, nor its keys and boards, stutters.
LEMMA Stutters ==
    ASSUME absApps' = absApps, absKeys' = absKeys, absBoards' = absBoards,
           created' = created, issued' = issued
    PROVE  UNCHANGED Store!storeVars
  BY DEF Store!storeVars, absApps, absKeys, absBoards, absKey

LEMMA ReadsStutter ==
    ASSUME UNCHANGED <<redisVars, created, issued, raced>>
    PROVE  UNCHANGED Store!storeVars
<1>1. UNCHANGED <<appRec, keyApp, publishable, boardRec, created, issued, raced>>
  BY DEF redisVars
<1>2. absApps' = absApps /\ absKeys' = absKeys /\ absBoards' = absBoards
  BY <1>1 DEF absApps, absKeys, absBoards, absKey, Live
<1> QED
  BY <1>1, <1>2, Stutters

\* An app that is deleted, or whose settings calls have raced, goes with its keys
\* and boards: DeleteApp if it was live.
LEMMA AbsGone ==
    ASSUME IInv, NEW a \in Apps, ~Live(a)', UNCHANGED <<keyApp, publishable, created, issued>>,
           \A e \in Apps : e # a => (Live(e)' <=> Live(e)) /\ appRec'[e] = appRec[e] /\ boardRec'[e] = boardRec[e]
    PROVE  Store!DeleteApp(a) \/ UNCHANGED Store!storeVars
<1> USE DEF IInv
<1>1. /\ absApps' = [e \in Apps |-> IF e = a THEN None ELSE absApps[e]]
      /\ absBoards' = [e \in Apps |-> IF e = a THEN [b \in Boards |-> None] ELSE absBoards[e]]
  BY DEF absApps, absBoards
<1>2. absKeys' = [k \in Keys |-> IF keyApp[k] # a THEN absKeys[k] ELSE None]
  BY DEF absKeys, absKey, TypeOK
<1>3. CASE Live(a)
  <2>1. \A k \in Keys : absKeys[k] # None => absKeys[k].app = keyApp[k]
    BY DEF absKeys, absKey
  <2>2. \A k \in Keys : keyApp[k] = a => absKeys[k] # None
    BY <1>3, NoneAssumption, AbsValues
  <2>3. absKeys' = [k \in Keys |-> IF absKeys[k] # None THEN IF absKeys[k].app = a THEN None ELSE absKeys[k] ELSE None]
    BY <1>2, <2>1, <2>2
  <2>4. absApps[a] # None /\ absApps' = [absApps EXCEPT ![a] = None]
    BY <1>1, <1>3, AbsValues DEF absApps
  <2>5. absBoards' = [absBoards EXCEPT ![a] = Store!NoBoards]
    BY <1>1 DEF absBoards, Store!NoBoards
  <2> QED
    BY <2>3, <2>4, <2>5 DEF Store!DeleteApp, absApps, absBoards, absKeys, absKey
<1>4. CASE ~Live(a)
  <2>1. absApps' = absApps /\ absBoards' = absBoards
    BY <1>1, <1>4 DEF absApps, absBoards
  <2>2. absKeys' = absKeys
    BY <1>2, <1>4, NoneAssumption DEF absKeys
  <2> QED
    BY <2>1, <2>2, Stutters
<1> QED
  BY <1>3, <1>4

LEMMA AbsCreateApp ==
    ASSUME IInv, NEW p \in Requests, NEW u \in Users, NEW a \in Apps, handleCreateApp(p, u, a)
    PROVE  Store!CreateApp(a, u)
<1> USE DEF IInv
<1>1. /\ a \notin created /\ created' = created \cup {a}
      /\ appRec' = [appRec EXCEPT ![a] = Store!NewApp(u)]
      /\ UNCHANGED <<keyApp, publishable, boardRec, issued, raced>>
  BY DEF handleCreateApp
<1>2. Store!NewApp(u) # None
  <2>1. Store!NewApp(u) \in Store!AppRecord
    BY BoundAssumption DEF Store!NewApp, Store!AppRecord
  <2> QED
    BY <2>1, NoneAssumption
<1>3. /\ a \notin raced /\ appRec[a] = None /\ boardRec[a] = [b \in Boards |-> None]
      /\ \A k \in Keys : keyApp[k] # None => keyApp[k] # a
  BY <1>1 DEF FiledInv, TypeOK
<1>4. /\ appRec'[a] = Store!NewApp(u) /\ Live(a)' /\ ~Live(a)
      /\ \A e \in Apps : e # a => (Live(e)' <=> Live(e)) /\ appRec'[e] = appRec[e]
  BY <1>1, <1>2, <1>3 DEF Live, TypeOK
<1>5. absApps' = [absApps EXCEPT ![a] = Store!NewApp(u)]
  BY <1>4 DEF absApps
<1>6. absBoards' = absBoards
  BY <1>1, <1>3, <1>4 DEF absBoards
<1>7. absKeys' = absKeys
  BY <1>1, <1>3, <1>4 DEF absKeys, absKey, TypeOK
<1> QED
  BY <1>1, <1>5, <1>6, <1>7 DEF Store!CreateApp, absApps, absKeys, absBoards, absKey

LEMMA AbsIssueKey ==
    ASSUME IInv, NEW p \in Requests, NEW k \in Keys, IssueKeyExec(p, k)
    PROVE  \E a \in Apps, scope \in Scopes : Store!IssueKey(a, k, scope)
<1> USE DEF IInv
<1>1. PICK a \in Apps, sc \in Scopes : a = calls[p].app /\ sc = calls[p].scope /\ a # None
  BY CallFields, NoneAssumption DEF IssueKeyExec, At, CallsInv, CallOK, KeyOK
<1>2. /\ issued[k] = None /\ issued' = [issued EXCEPT ![k] = sc]
      /\ keyApp' = [keyApp EXCEPT ![k] = a]
      /\ publishable' = IF sc = "publishable" THEN publishable \cup {k} ELSE publishable
      /\ UNCHANGED <<appRec, boardRec, created, raced>>
  BY <1>1 DEF IssueKeyExec
<1>3. keyApp[k] = None /\ k \notin publishable
  BY <1>2 DEF FiledInv
<1>4. /\ keyApp'[k] = a /\ absKey(k)' = [app |-> a, scope |-> sc]
      /\ \A j \in Keys : j # k => keyApp'[j] = keyApp[j] /\ (absKey(j)' = absKey(j))
  BY <1>1, <1>2, <1>3 DEF TypeOK, absKey, Scopes, Store!Scopes
<1>5. \A e : Live(e)' <=> Live(e)
  BY <1>2 DEF Live
<1>6. absApps' = absApps /\ absBoards' = absBoards
  BY <1>2, <1>5 DEF absApps, absBoards
<1>7. absKeys' = IF absApps[a] = None THEN absKeys
                 ELSE [absKeys EXCEPT ![k] = [app |-> a, scope |-> sc]]
  <2>1. absApps[a] = None <=> ~Live(a)
    BY <1>1, AbsValues
  <2>2. absKeys[k] = None
    BY <1>3 DEF absKeys
  <2>3. \A j \in Keys : j # k => absKeys'[j] = absKeys[j]
    BY <1>4, <1>5 DEF absKeys
  <2>4. absKeys'[k] = IF Live(a) THEN [app |-> a, scope |-> sc] ELSE None
    BY <1>1, <1>4, <1>5 DEF absKeys
  <2>5. absKeys = [j \in Keys |-> absKeys[j]] /\ absKeys' = [j \in Keys |-> absKeys'[j]]
    BY DEF absKeys
  <2> QED
    BY <2>1, <2>2, <2>3, <2>4, <2>5
<1>8. Store!IssueKey(a, k, sc)
  BY <1>2, <1>6, <1>7 DEF Store!IssueKey, absApps, absKeys, absBoards, absKey
<1> QED
  BY <1>1, <1>8

LEMMA AbsRevokeKey ==
    ASSUME IInv, NEW p \in Requests, RevokeKeyExec(p)
    PROVE  (\E a \in Apps, k \in Keys : Store!RevokeKey(a, k)) \/ UNCHANGED Store!storeVars
<1> USE DEF IInv
<1>1. PICK k \in Keys : k = calls[p].id /\ calls[p].hash \in BOOLEAN /\ (~calls[p].hash => keyApp[k] = None)
  BY CallFields DEF RevokeKeyExec, At, CallsInv, CallOK, KeyOK
<1>2. /\ keyApp' = IF calls[p].hash THEN [keyApp EXCEPT ![k] = None] ELSE keyApp
      /\ publishable' = IF calls[p].hash THEN publishable \ {k} ELSE publishable
      /\ UNCHANGED <<appRec, boardRec, created, issued, raced>>
  BY <1>1 DEF RevokeKeyExec
<1>3. \A e : Live(e)' <=> Live(e)
  BY <1>2 DEF Live
<1>4. absApps' = absApps /\ absBoards' = absBoards
  BY <1>2, <1>3 DEF absApps, absBoards
<1>5. keyApp'[k] = None /\ \A j \in Keys : j # k => keyApp'[j] = keyApp[j] /\ (absKey(j)' = absKey(j))
  BY <1>1, <1>2 DEF TypeOK, absKey
<1>6. absKeys' = [absKeys EXCEPT ![k] = None]
  BY <1>1, <1>3, <1>5 DEF absKeys
<1>7. CASE absKeys[k] # None
  <2>1. PICK a \in Apps : absKeys[k].app = a
    BY <1>1, <1>7 DEF absKeys, absKey, TypeOK
  <2>2. Store!RevokeKey(a, k)
    BY <1>2, <1>4, <1>6, <1>7, <2>1 DEF Store!RevokeKey, absApps, absKeys, absBoards, absKey
  <2> QED
    BY <1>1, <2>1, <2>2
<1>8. CASE absKeys[k] = None
  <2>1. absKeys' = absKeys
    BY <1>6, <1>8 DEF absKeys
  <2> QED
    BY <1>2, <1>4, <2>1, Stutters
<1> QED
  BY <1>7, <1>8

LEMMA AbsDeleteApp ==
    ASSUME IInv, NEW p \in Requests, DeleteAppExec(p)
    PROVE  (\E a \in Apps : Store!DeleteApp(a)) \/ UNCHANGED Store!storeVars
<1>1. PICK a \in Apps : a = calls[p].app
  BY CallFields DEF IInv, DeleteAppExec, At
<1>2. /\ boardRec' = [boardRec EXCEPT ![a] = [b \in Boards |-> IF b \in calls[p].ids THEN None ELSE @[b]]]
      /\ appRec' = [appRec EXCEPT ![a] = None]
      /\ raced' = IF Holding(p, a) THEN raced \cup {a} ELSE raced
      /\ UNCHANGED <<keyApp, publishable, created, issued>>
  BY <1>1 DEF DeleteAppExec
<1>3. ~Live(a)'
  BY <1>1, <1>2 DEF IInv, TypeOK, Live
<1>4. \A e \in Apps : e # a => (Live(e)' <=> Live(e)) /\ appRec'[e] = appRec[e] /\ boardRec'[e] = boardRec[e]
  BY <1>2 DEF IInv, TypeOK, Live
<1> QED
  BY <1>1, <1>2, <1>3, <1>4, AbsGone

\* Settings that are written over an unchanged record are a settings call; over a
\* changed one they take the app out of the comparison.
LEMMA AbsSettings ==
    ASSUME IInv, NEW p \in Requests, mutateAppSet(p)
    PROVE  (\E a \in Apps : Store!ChangeSettings(a) \/ Store!DeleteApp(a)) \/ UNCHANGED Store!storeVars
<1> USE DEF IInv
<1>1. PICK a \in Apps :
      /\ a = calls[p].app /\ calls[p].val \in Store!AppRecord /\ calls[p].val # None
      /\ a \notin raced => appRec[a] # None /\ calls[p].val \in Store!Changes(appRec[a])
  BY CallFields, NoneAssumption DEF mutateAppSet, At, CallsInv, CallOK, SetOK
<1>2. /\ appRec' = [appRec EXCEPT ![a] = calls[p].val]
      /\ raced' = IF Holding(p, a) THEN raced \cup {a} ELSE raced
      /\ UNCHANGED <<keyApp, publishable, boardRec, created, issued>>
  BY <1>1 DEF mutateAppSet
<1>3. \A e \in Apps : e # a => (Live(e)' <=> Live(e)) /\ appRec'[e] = appRec[e] /\ boardRec'[e] = boardRec[e]
  BY <1>2 DEF TypeOK, Live
<1>4. CASE a \in raced'
  <2>1. ~Live(a)'
    BY <1>4 DEF Live
  <2> QED
    BY <1>1, <1>2, <1>3, <2>1, AbsGone
<1>5. CASE a \notin raced'
  <2>1. a \notin raced /\ raced' = raced /\ Live(a) /\ Live(a)'
    BY <1>1, <1>2, <1>5 DEF Live, TypeOK
  <2>2. \A e \in Apps : Live(e)' <=> Live(e)
    BY <1>3, <2>1
  <2>3. absApps[a] = appRec[a] /\ absApps' = [absApps EXCEPT ![a] = calls[p].val]
    BY <1>1, <1>2, <2>1, <2>2 DEF absApps, TypeOK
  <2>4. absKeys' = absKeys /\ absBoards' = absBoards
    BY <1>2, <2>2 DEF absKeys, absKey, absBoards, TypeOK
  <2>5. Store!ChangeSettings(a)
    <3>1. absApps[a] # None /\ \E r \in Store!Changes(absApps[a]) : absApps' = [absApps EXCEPT ![a] = r]
      BY <1>1, <2>1, <2>3
    <3> QED
      BY <1>2, <2>4, <3>1 DEF Store!ChangeSettings, absApps, absKeys, absBoards, absKey
  <2> QED
    BY <1>1, <2>5
<1> QED
  BY <1>4, <1>5

LEMMA AbsUpsertBoard ==
    ASSUME IInv, NEW p \in Requests, NEW b \in Boards, NEW c \in Configs, UpsertBoardExec(p, b, c)
    PROVE  (\E a \in Apps : Store!UpsertBoard(a, b, c)) \/ UNCHANGED Store!storeVars
<1> USE DEF IInv
<1>1. PICK a \in Apps : a = calls[p].app
  BY CallFields DEF UpsertBoardExec, At
<1>2. boardRec' = [boardRec EXCEPT ![a][b] = c] /\ UNCHANGED <<appRec, keyApp, publishable, created, issued, raced>>
  BY <1>1 DEF UpsertBoardExec
<1>3. \A e : Live(e)' <=> Live(e)
  BY <1>2 DEF Live
<1>4. absApps' = absApps /\ absKeys' = absKeys
  BY <1>2, <1>3 DEF absApps, absKeys, absKey
<1>5. boardRec'[a] = [boardRec[a] EXCEPT ![b] = c] /\ \A e \in Apps : e # a => boardRec'[e] = boardRec[e]
  BY <1>1, <1>2 DEF TypeOK
<1>6. CASE Live(a)
  <2>1. absApps[a] # None
    BY <1>1, <1>6, AbsValues
  <2>2. absBoards' = [absBoards EXCEPT ![a][b] = c]
    BY <1>1, <1>3, <1>5, <1>6 DEF absBoards
  <2>3. Store!UpsertBoard(a, b, c)
    BY <1>2, <1>4, <2>1, <2>2 DEF Store!UpsertBoard, absApps, absKeys, absBoards, absKey
  <2> QED
    BY <1>1, <2>3
<1>7. CASE ~Live(a)
  <2>1. absBoards' = absBoards
    BY <1>3, <1>5, <1>7 DEF absBoards
  <2> QED
    BY <1>2, <1>4, <2>1, Stutters
<1> QED
  BY <1>6, <1>7

LEMMA AbsNext ==
    ASSUME IInv, [Next]_vars
    PROVE  [Store!StoreNext]_Store!storeVars
<1>1. CASE UNCHANGED vars
  <2>1. UNCHANGED <<redisVars, created, issued, raced>>
    BY <1>1 DEF vars
  <2> QED
    BY <2>1, ReadsStutter
<1>2. ASSUME NEW p \in Requests, ReadActions(p)
      PROVE  UNCHANGED Store!storeVars
  <2>1. UNCHANGED <<redisVars, created, issued, raced>>
    BY <1>2 DEF ReadActions, handleIssueKey, handleRevokeKey, handleDeleteApp, handleSettings, SessionApp,
                IssueKeyGet, AuthKeyApp, RevokeKeyGetMeta, RevokeKeyGetHash, DeleteAppGet,
                DeleteAppListKeys, DeleteAppNextKey, RevokeFailsInDelete, DeleteAppListBoards,
                mutateAppGet, AuthKeyScope, AuthKeyGetApp, UpsertBoardGet, Abandon
  <2> QED
    BY <2>1, ReadsStutter
<1>3. ASSUME NEW p \in Requests, NEW u \in Users, NEW a \in Apps, handleCreateApp(p, u, a)
      PROVE  Store!StoreNext
  BY <1>3, AbsCreateApp DEF Store!StoreNext
<1>4. ASSUME NEW p \in Requests, NEW k \in Keys, IssueKeyExec(p, k)
      PROVE  Store!StoreNext
  BY <1>4, AbsIssueKey DEF Store!StoreNext, Scopes
<1>5. ASSUME NEW p \in Requests, RevokeKeyExec(p)
      PROVE  [Store!StoreNext]_Store!storeVars
  BY <1>5, AbsRevokeKey DEF Store!StoreNext
<1>6. ASSUME NEW p \in Requests, DeleteAppExec(p)
      PROVE  [Store!StoreNext]_Store!storeVars
  BY <1>6, AbsDeleteApp DEF Store!StoreNext
<1>7. ASSUME NEW p \in Requests, mutateAppSet(p)
      PROVE  [Store!StoreNext]_Store!storeVars
  BY <1>7, AbsSettings DEF Store!StoreNext
<1>8. ASSUME NEW p \in Requests, NEW b \in Boards, NEW c \in Configs, UpsertBoardExec(p, b, c)
      PROVE  [Store!StoreNext]_Store!storeVars
  BY <1>8, AbsUpsertBoard DEF Store!StoreNext
<1>9. CASE Next
  <2>1. PICK p \in Requests :
          \/ ReadActions(p)
          \/ \E u \in Users, a \in Apps : handleCreateApp(p, u, a)
          \/ \E k \in Keys : IssueKeyExec(p, k)
          \/ RevokeKeyExec(p) \/ DeleteAppExec(p) \/ mutateAppSet(p)
          \/ \E b \in Boards, c \in Configs : UpsertBoardExec(p, b, c)
    BY <1>9, Zenon DEF Next, ReadActions
  <2> QED
    BY <2>1, <1>2, <1>3, <1>4, <1>5, <1>6, <1>7, <1>8
<1> QED
  BY <1>1, <1>9

\* The multi-command calls of redisstore.go, seen through GetApp, AuthKey and the
\* boards of a live app, implement the one-step calls of memstore.go.
THEOREM RedisStoreRefinesStore == Spec => RefinesStore
<1>1. Init => Store!StoreInit
  <2> SUFFICES ASSUME Init PROVE Store!StoreInit
    OBVIOUS
  <2>1. absApps = [a \in Apps |-> None] /\ absKeys = [k \in Keys |-> None]
        /\ absBoards = [a \in Apps |-> Store!NoBoards]
    BY DEF Init, absApps, absKeys, absBoards, Live, Store!NoBoards
  <2> QED
    BY <2>1 DEF Init, Store!StoreInit, absApps, absKeys, absKey, absBoards
<1> QED
  BY <1>1, AbsNext, Invariance, PTL DEF Spec, RefinesStore, Store!StoreSpec
=============================================================================
