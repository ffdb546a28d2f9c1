-------------------------------- MODULE Tenancy --------------------------------
(***************************************************************************)
(* tenancy/redisstore.go under the owner and board handlers of pkg/api:    *)
(* every call is a sequence of Redis commands, and the commands of calls   *)
(* served at the same time interleave.  A MULTI/EXEC pipeline is one step. *)
(* A call may end after any of its commands: the process stops, the        *)
(* request is cancelled, or Redis answers with an error.                   *)
(*                                                                         *)
(* ten:apps and ten:owner:<id> are written together and are one set here,  *)
(* listed; ten:keymeta and ten:keyhash are one function, keyMeta.          *)
(***************************************************************************)
EXTENDS Naturals, FiniteSets

CONSTANTS Apps, Users, Keys, Boards, Configs, MaxVersion, None,
    Requests,    \* HTTP requests served at the same time
    MaxCalls     \* bound: calls made in a behaviour

VARIABLES
    appRec,      \* ten:app:<id>: the app's record, or None
    listed,      \* ten:apps, and ten:owner:<owner> of each of its apps
    keyApp,      \* ten:key:<hash>: the app the key authenticates to, or None
    publishable, \* ten:keyscope:<hash>: the keys with a scope entry
    keyMeta,     \* ten:keymeta:<key> (and ten:keyhash:<key>): the key's app, or None
    appKeys,     \* ten:appkeys:<app>
    boardRec,    \* ten:board:<app>:<board>: the definition, or None
    boardSet,    \* ten:boards:<app>
    created,     \* app ids ever used
    issued,      \* the scope each key was issued with, or None
    calls,       \* calls[p]: the call request p is in, or None
    made,        \* calls made, for the bound
    raced,       \* history: apps written while a settings call held an older copy
    spilled      \* history: apps deleted around a key or a board still being written

redisVars == <<appRec, listed, keyApp, publishable, keyMeta, appKeys, boardRec, boardSet>>
vars == <<redisVars, created, issued, calls, made, raced, spilled>>

\* What the in-memory store keeps, read off the Redis keys the way callers read
\* them: GetApp for an app, AuthKey for a key, and boards only of an app that
\* authenticates.  An app whose settings calls raced is taken out of the
\* comparison from then on, as if it had been deleted.
Live(a) == appRec[a] # None /\ a \notin raced

Store == INSTANCE TenancyStore WITH
    apps   <- [a \in Apps |-> IF Live(a) THEN appRec[a] ELSE None],
    keys   <- [k \in Keys |->
                 IF keyApp[k] # None
                 THEN IF Live(keyApp[k])
                      THEN [app |-> keyApp[k],
                            scope |-> IF k \in publishable THEN "publishable" ELSE "secret"]
                      ELSE None
                 ELSE None],
    boards <- [a \in Apps |-> IF Live(a) THEN boardRec[a] ELSE [b \in Boards |-> None]]

Scopes == Store!Scopes

\* The points a call can be at, each before the command it is named for.
Points == {"getIssue", "issue", "meta", "hash", "revoke", "get", "keys",
           "next", "boards", "drop", "load", "set", "scope", "authApp", "getBoard", "upsert"}

\* A call: where it is, its app, the key or board it is about, the scope it asks
\* for or was authenticated with, the record it will write, the ids it listed,
\* whether it found the key's hash, and whether its RevokeKey is one of DeleteApp's.
Call(at, a) ==
    [at |-> at, app |-> a, id |-> None, scope |-> None, val |-> None, ids |-> {},
     hash |-> FALSE, del |-> FALSE]

CallType ==
    [at : Points, app : Apps, id : Keys \cup {None}, scope : Scopes \cup {None},
     val : Store!AppRecord \cup {None}, ids : SUBSET (Keys \cup Boards),
     hash : BOOLEAN, del : BOOLEAN]

\* An absent value is none of the values that are stored, and rotating the key of a
\* record without a version gives it version 2.
ASSUME NoneAssumption ==
    /\ None \notin Apps \cup Keys \cup Configs \cup Scopes
    /\ None \notin Store!AppRecord \cup CallType \cup [app : Apps, scope : Scopes]
ASSUME BoundAssumption == MaxVersion \in Nat /\ MaxVersion >= 2 /\ MaxCalls \in Nat

Init ==
    /\ appRec = [a \in Apps |-> None]
    /\ listed = {}
    /\ keyApp = [k \in Keys |-> None]
    /\ publishable = {}
    /\ keyMeta = [k \in Keys |-> None]
    /\ appKeys = [a \in Apps |-> {}]
    /\ boardRec = [a \in Apps |-> [b \in Boards |-> None]]
    /\ boardSet = [a \in Apps |-> {}]
    /\ created = {}
    /\ issued = [k \in Keys |-> None]
    /\ calls = [p \in Requests |-> None]
    /\ made = 0
    /\ raced = {}
    /\ spilled = {}

-----------------------------------------------------------------------------
At(p, point) == calls[p] # None /\ calls[p].at = point

Enter(p, c) ==
    /\ calls[p] = None
    /\ made < MaxCalls
    /\ made' = made + 1
    /\ calls' = [calls EXCEPT ![p] = c]

Step(p, c) == calls' = [calls EXCEPT ![p] = c] /\ UNCHANGED made

Goto(p, point) == Step(p, [calls[p] EXCEPT !.at = point])

Return(p) == Step(p, None)

\* ownedApp: the path's app, when the session's user owns it.
ownedApp(a, u) == appRec[a] # None /\ appRec[a].owner = u

\* A delete of app a past its GetApp, and a key or a board of app a past the
\* GetApp that precedes its writing.
Deleting(a) ==
    \E q \in Requests : /\ calls[q] # None
                        /\ calls[q].app = a
                        /\ calls[q].at \in {"keys", "next", "boards", "drop"} \/ calls[q].del

Writing(a) ==
    \E q \in Requests : calls[q] # None /\ calls[q].app = a /\ calls[q].at \in {"issue", "upsert"}

\* Another settings call of app a holds a copy of its record.
Holding(p, a) ==
    \E q \in Requests \ {p} : calls[q] # None /\ calls[q].app = a /\ calls[q].at = "set"

-----------------------------------------------------------------------------
(* CreateApp and IssueKey *)

\* The pipeline is CreateApp's first command; an IssueKey follows it.
handleCreateApp(p, u, a) ==
    /\ a \notin created
    /\ created' = created \cup {a}
    /\ appRec' = [appRec EXCEPT ![a] = Store!NewApp(u)]
    /\ listed' = listed \cup {a}
    /\ Enter(p, [Call("getIssue", a) EXCEPT !.scope = "secret"])
    /\ UNCHANGED <<keyApp, publishable, keyMeta, appKeys, boardRec, boardSet,
                   issued, raced, spilled>>

handleIssueKey(p, u, a, scope) ==
    /\ ownedApp(a, u)
    /\ Enter(p, [Call("getIssue", a) EXCEPT !.scope = scope])
    /\ UNCHANGED <<redisVars, created, issued, raced, spilled>>

\* IssueKey's GetApp.
IssueKeyGet(p) ==
    /\ At(p, "getIssue")
    /\ IF appRec[calls[p].app] = None THEN Return(p) ELSE Goto(p, "issue")
    /\ UNCHANGED <<redisVars, created, issued, raced, spilled>>

\* Faulty variant: no scope entry is written.
IssueKeyExecUnscoped(p, k) ==
    LET a == calls[p].app IN
    /\ At(p, "issue")
    /\ issued[k] = None
    /\ issued' = [issued EXCEPT ![k] = calls[p].scope]
    /\ keyApp' = [keyApp EXCEPT ![k] = a]
    /\ keyMeta' = [keyMeta EXCEPT ![k] = a]
    /\ appKeys' = [appKeys EXCEPT ![a] = @ \cup {k}]
    /\ Return(p)
    /\ UNCHANGED <<appRec, listed, publishable, boardRec, boardSet, created, raced, spilled>>

IssueKeyExec(p, k) ==
    LET a == calls[p].app IN
    /\ At(p, "issue")
    /\ issued[k] = None
    /\ issued' = [issued EXCEPT ![k] = calls[p].scope]
    /\ keyApp' = [keyApp EXCEPT ![k] = a]
    /\ publishable' = IF calls[p].scope = "publishable" THEN publishable \cup {k} ELSE publishable
    /\ keyMeta' = [keyMeta EXCEPT ![k] = a]
    /\ appKeys' = [appKeys EXCEPT ![a] = @ \cup {k}]
    /\ spilled' = IF Deleting(a) THEN spilled \cup {a} ELSE spilled
    /\ Return(p)
    /\ UNCHANGED <<appRec, listed, boardRec, boardSet, created, raced>>

-----------------------------------------------------------------------------
(* RevokeKey, called by its handler and once per key by DeleteApp *)

handleRevokeKey(p, u, a, k) ==
    /\ ownedApp(a, u)
    /\ Enter(p, [Call("meta", a) EXCEPT !.id = k])
    /\ UNCHANGED <<redisVars, created, issued, raced, spilled>>

\* RevokeKey returns, with or without an error, to its caller.
RevokeReturns(p) == IF calls[p].del THEN Goto(p, "next") ELSE Return(p)

RevokeKeyGetMeta(p) ==
    /\ At(p, "meta")
    /\ IF keyMeta[calls[p].id] = calls[p].app THEN Goto(p, "hash") ELSE RevokeReturns(p)
    /\ UNCHANGED <<redisVars, created, issued, raced, spilled>>

\* An absent hash is not an error: the entries filed under it are then not deleted.
RevokeKeyGetHash(p) ==
    /\ At(p, "hash")
    /\ Step(p, [calls[p] EXCEPT !.at = "revoke", !.hash = keyMeta[calls[p].id] # None])
    /\ UNCHANGED <<redisVars, created, issued, raced, spilled>>

\* Faulty variant: the metadata goes and the key itself stays.
RevokeKeyExecMetaOnly(p) ==
    LET k == calls[p].id IN
    /\ At(p, "revoke")
    /\ keyMeta' = [keyMeta EXCEPT ![k] = None]
    /\ appKeys' = [appKeys EXCEPT ![calls[p].app] = @ \ {k}]
    /\ RevokeReturns(p)
    /\ UNCHANGED <<appRec, listed, keyApp, publishable, boardRec, boardSet, created, issued,
                   raced, spilled>>

RevokeKeyExec(p) ==
    LET k == calls[p].id IN
    /\ At(p, "revoke")
    /\ keyApp' = IF calls[p].hash THEN [keyApp EXCEPT ![k] = None] ELSE keyApp
    /\ publishable' = IF calls[p].hash THEN publishable \ {k} ELSE publishable
    /\ keyMeta' = [keyMeta EXCEPT ![k] = None]
    /\ appKeys' = [appKeys EXCEPT ![calls[p].app] = @ \ {k}]
    /\ RevokeReturns(p)
    /\ UNCHANGED <<appRec, listed, boardRec, boardSet, created, issued, raced, spilled>>

-----------------------------------------------------------------------------
(* DeleteApp *)

handleDeleteApp(p, u, a) ==
    /\ ownedApp(a, u)
    /\ Enter(p, Call("get", a))
    /\ UNCHANGED <<redisVars, created, issued, raced, spilled>>

DeleteAppGet(p) ==
    /\ At(p, "get")
    /\ IF appRec[calls[p].app] = None THEN Return(p) ELSE Goto(p, "keys")
    /\ UNCHANGED <<redisVars, created, issued, raced, spilled>>

DeleteAppListKeys(p) ==
    /\ At(p, "keys")
    /\ Step(p, [calls[p] EXCEPT !.at = "next", !.ids = appKeys[calls[p].app]])
    /\ UNCHANGED <<redisVars, created, issued, raced, spilled>>

\* The loop over the listed keys; when it is done, the boards are listed.
DeleteAppNextKey(p) ==
    /\ At(p, "next")
    /\ \/ \E k \in calls[p].ids :
            Step(p, [calls[p] EXCEPT !.at = "meta", !.id = k, !.ids = @ \ {k}, !.del = TRUE])
       \/ /\ calls[p].ids = {}
          /\ Step(p, Call("boards", calls[p].app))
    /\ UNCHANGED <<redisVars, created, issued, raced, spilled>>

\* DeleteApp drops the error of a RevokeKey and goes on with the next key.
RevokeFailsInDelete(p) ==
    /\ calls[p] # None /\ calls[p].del /\ calls[p].at \in {"meta", "hash", "revoke"}
    /\ Goto(p, "next")
    /\ spilled' = spilled \cup {calls[p].app}
    /\ UNCHANGED <<redisVars, created, issued, raced>>

DeleteAppListBoards(p) ==
    /\ At(p, "boards")
    /\ Step(p, [calls[p] EXCEPT !.at = "drop", !.ids = boardSet[calls[p].app]])
    /\ UNCHANGED <<redisVars, created, issued, raced, spilled>>

\* Faulty variant: the app stays in ten:apps and in its owner's set.
DeleteAppExecStaysListed(p) ==
    LET a == calls[p].app IN
    /\ At(p, "drop")
    /\ boardRec' = [boardRec EXCEPT ![a] = [b \in Boards |-> None]]
    /\ boardSet' = [boardSet EXCEPT ![a] = {}]
    /\ appKeys' = [appKeys EXCEPT ![a] = {}]
    /\ appRec' = [appRec EXCEPT ![a] = None]
    /\ Return(p)
    /\ UNCHANGED <<listed, keyApp, publishable, keyMeta, created, issued, raced, spilled>>

DeleteAppExec(p) ==
    LET a == calls[p].app IN
    /\ At(p, "drop")
    /\ boardRec' = [boardRec EXCEPT ![a] = [b \in Boards |->
                      IF b \in calls[p].ids THEN None ELSE @[b]]]
    /\ boardSet' = [boardSet EXCEPT ![a] = {}]
    /\ appKeys' = [appKeys EXCEPT ![a] = {}]
    /\ appRec' = [appRec EXCEPT ![a] = None]
    /\ listed' = listed \ {a}
    /\ raced' = IF Holding(p, a) THEN raced \cup {a} ELSE raced
    /\ spilled' = IF Writing(a) THEN spilled \cup {a} ELSE spilled
    /\ Return(p)
    /\ UNCHANGED <<keyApp, publishable, keyMeta, created, issued>>

-----------------------------------------------------------------------------
(* mutateApp: handleSetSigning, handleRotateSigning, handleSetPlayerTokens *)

handleSettings(p, u, a) ==
    /\ ownedApp(a, u)
    /\ Enter(p, Call("load", a))
    /\ UNCHANGED <<redisVars, created, issued, raced, spilled>>

\* GetApp and the closure: the record that will be written is settled here.
mutateAppGet(p) ==
    LET a == calls[p].app IN
    /\ At(p, "load")
    /\ \/ appRec[a] = None /\ Return(p)
       \/ /\ appRec[a] # None
          /\ \E r \in Store!Changes(appRec[a]) :
               Step(p, [calls[p] EXCEPT !.at = "set", !.val = r])
    /\ UNCHANGED <<redisVars, created, issued, raced, spilled>>

\* SET, whatever the key holds by now.
mutateAppSet(p) ==
    LET a == calls[p].app IN
    /\ At(p, "set")
    /\ appRec' = [appRec EXCEPT ![a] = calls[p].val]
    /\ raced' = IF Holding(p, a) THEN raced \cup {a} ELSE raced
    /\ Return(p)
    /\ UNCHANGED <<listed, keyApp, publishable, keyMeta, appKeys, boardRec, boardSet,
                   created, issued, spilled>>

-----------------------------------------------------------------------------
(* requireApp and UpsertBoard *)

\* AuthKey's first read; the handlers behind it run with the app and scope it
\* settles on.
AuthKeyApp(p, k) ==
    /\ keyApp[k] # None
    /\ Enter(p, [Call("scope", keyApp[k]) EXCEPT !.id = k])
    /\ UNCHANGED <<redisVars, created, issued, raced, spilled>>

\* Faulty variant: the scope entry is not read.
AuthKeyScopeUnread(p) ==
    /\ At(p, "scope")
    /\ Step(p, [calls[p] EXCEPT !.at = "authApp", !.scope = "secret"])
    /\ UNCHANGED <<redisVars, created, issued, raced, spilled>>

\* No scope entry means a secret key.
AuthKeyScope(p) ==
    /\ At(p, "scope")
    /\ Step(p, [calls[p] EXCEPT !.at = "authApp",
                  !.scope = IF calls[p].id \in publishable THEN "publishable" ELSE "secret"])
    /\ UNCHANGED <<redisVars, created, issued, raced, spilled>>

\* AuthKey's GetApp, then secretOnly.
AuthKeyGetApp(p) ==
    /\ At(p, "authApp")
    /\ IF appRec[calls[p].app] # None /\ calls[p].scope = "secret"
       THEN Goto(p, "getBoard")
       ELSE Return(p)
    /\ UNCHANGED <<redisVars, created, issued, raced, spilled>>

\* A dashboard session with X-App-Id, checked like ownedApp; its scope is secret.
SessionApp(p, u, a) ==
    /\ ownedApp(a, u)
    /\ Enter(p, [Call("getBoard", a) EXCEPT !.scope = "secret"])
    /\ UNCHANGED <<redisVars, created, issued, raced, spilled>>

UpsertBoardGet(p) ==
    /\ At(p, "getBoard")
    /\ IF appRec[calls[p].app] = None THEN Return(p) ELSE Goto(p, "upsert")
    /\ UNCHANGED <<redisVars, created, issued, raced, spilled>>

UpsertBoardExec(p, b, c) ==
    LET a == calls[p].app IN
    /\ At(p, "upsert")
    /\ boardRec' = [boardRec EXCEPT ![a][b] = c]
    /\ boardSet' = [boardSet EXCEPT ![a] = @ \cup {b}]
    /\ spilled' = IF Deleting(a) THEN spilled \cup {a} ELSE spilled
    /\ Return(p)
    /\ UNCHANGED <<appRec, listed, keyApp, publishable, keyMeta, appKeys,
                   created, issued, raced>>

\* The request ends where it is: cancelled, refused by Redis, or its process gone.
Abandon(p) ==
    /\ calls[p] # None
    /\ Return(p)
    /\ UNCHANGED <<redisVars, created, issued, raced, spilled>>

-----------------------------------------------------------------------------
Next ==
    \E p \in Requests :
        \/ \E u \in Users, a \in Apps :
             \/ handleCreateApp(p, u, a)
             \/ \E scope \in Scopes : handleIssueKey(p, u, a, scope)
             \/ \E k \in Keys : handleRevokeKey(p, u, a, k)
             \/ handleDeleteApp(p, u, a)
             \/ handleSettings(p, u, a)
             \/ SessionApp(p, u, a)
        \/ IssueKeyGet(p)
        \/ \E k \in Keys : IssueKeyExec(p, k) \/ AuthKeyApp(p, k)
        \/ RevokeKeyGetMeta(p) \/ RevokeKeyGetHash(p) \/ RevokeKeyExec(p)
        \/ DeleteAppGet(p) \/ DeleteAppListKeys(p) \/ DeleteAppNextKey(p)
        \/ RevokeFailsInDelete(p)
        \/ DeleteAppListBoards(p) \/ DeleteAppExec(p)
        \/ mutateAppGet(p) \/ mutateAppSet(p)
        \/ AuthKeyScope(p) \/ AuthKeyGetApp(p)
        \/ UpsertBoardGet(p)
        \/ \E b \in Boards, c \in Configs : UpsertBoardExec(p, b, c)
        \/ Abandon(p)

Spec == Init /\ [][Next]_vars

-----------------------------------------------------------------------------
(* Properties *)

\* Every Redis key holds what redisstore.go writes there and every call is at one
\* of its commands.
TypeOK ==
    /\ appRec \in [Apps -> Store!AppRecord \cup {None}]
    /\ listed \subseteq Apps
    /\ keyApp \in [Keys -> Apps \cup {None}]
    /\ publishable \subseteq Keys
    /\ keyMeta \in [Keys -> Apps \cup {None}]
    /\ appKeys \in [Apps -> SUBSET Keys]
    /\ boardRec \in [Apps -> [Boards -> Configs \cup {None}]]
    /\ boardSet \in [Apps -> SUBSET Boards]
    /\ created \subseteq Apps
    /\ issued \in [Keys -> Scopes \cup {None}]
    /\ calls \in [Requests -> CallType \cup {None}]
    /\ made \in 0..MaxCalls
    /\ raced \subseteq Apps
    /\ spilled \subseteq Apps

\* Seen through GetApp, AuthKey and the boards of a live app, the multi-command
\* calls of the Redis store behave as the one-step calls of the in-memory store,
\* whatever calls interleave and wherever they stop: except on an app of which
\* two settings calls overlapped, or a settings call and the deletion.
RefinesStore == Store!StoreSpec

\* DeleteApp "removes an app and all of its keys and boards" (tenancy/store.go:104):
\* nothing filed under a deleted app is left in Redis, unless a key or a board of
\* it was being written meanwhile, a revocation failed, or settings calls raced.
DeleteIsComplete ==
    \A a \in created \ (raced \cup spilled) :
        appRec[a] = None =>
            /\ \A k \in Keys : keyApp[k] # a /\ keyMeta[k] # a
            /\ appKeys[a] = {}
            /\ boardSet[a] = {}
            /\ \A b \in Boards : boardRec[a][b] = None

\* The indexes agree with the records: ListApps and AllBoards find exactly the live
\* apps, ListKeys exactly the keys that authenticate to the app, ListBoards exactly
\* its boards (the same exceptions).
IndexesAgree ==
    \A a \in created \ (raced \cup spilled) :
        /\ a \in listed <=> appRec[a] # None
        /\ appKeys[a] = {k \in Keys : keyApp[k] = a}
        /\ boardSet[a] = {b \in Boards : boardRec[a][b] # None}

\* AuthKey answers with the scope the key was issued with, unless the key was
\* revoked between its reads: the scope entry goes with the key, and a missing
\* entry reads as secret.
ScopeAsIssued ==
    \A p \in Requests :
        (calls[p] # None /\ calls[p].at \in {"authApp", "getBoard", "upsert"}
            /\ calls[p].id # None /\ calls[p].scope # issued[calls[p].id])
        => keyApp[calls[p].id] = None
=============================================================================
