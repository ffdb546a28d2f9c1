------------------------------ MODULE TenancyStore ------------------------------
(***************************************************************************)
(* What tenancy.Store promises, as tenancy/memstore.go keeps the promise:  *)
(* apps, API keys and board definitions behind one mutex, every call one   *)
(* step.  The maps keyIndex, keyMeta, keyHash, keyScope and appKeys change *)
(* together under the lock and are one function here, keys.                *)
(***************************************************************************)
EXTENDS Naturals

CONSTANTS
    Apps,        \* app ids newID can return
    Users,       \* owners
    Keys,        \* keys newAPIKey can return (the plaintext, its hash and its id)
    Boards,      \* board ids of one app
    Configs,     \* board definitions
    MaxVersion,  \* bound: signing-key versions explored
    None         \* an absent map entry

Scopes == {"secret", "publishable"}

AppRecord == [owner : Users, signing : BOOLEAN, tokens : BOOLEAN, version : 0..MaxVersion]

VARIABLES
    apps,        \* apps[a]: the app's record, or None
    keys,        \* keys[k]: the app and scope k authenticates to, or None
    boards,      \* boards[a][b]: a board's definition, or None
    created,     \* ids ever given to an app: random ids do not come twice
    issued       \* issued[k]: the scope k was issued with, or None

storeVars == <<apps, keys, boards, created, issued>>

NoBoards == [b \in Boards |-> None]

NewApp(u) == [owner |-> u, signing |-> FALSE, tokens |-> FALSE, version |-> 1]

\* The closures SetRequirePlayerTokens, SetRequireSigning and RotateSigningKey
\* apply to an app's record.
WithPlayerTokens(r, on) == [r EXCEPT !.tokens = on]

WithSigning(r, on) ==
    [r EXCEPT !.signing = on, !.version = IF on /\ @ < 1 THEN 1 ELSE @]

WithNextVersion(r) == [r EXCEPT !.version = IF @ < 1 THEN 2 ELSE @ + 1]

\* The settings calls that can be made on a record, by what they make of it.
Changes(r) ==
    {WithPlayerTokens(r, on) : on \in BOOLEAN} \cup {WithSigning(r, on) : on \in BOOLEAN}
        \cup (IF r.version < MaxVersion THEN {WithNextVersion(r)} ELSE {})

-----------------------------------------------------------------------------
StoreInit ==
    /\ apps = [a \in Apps |-> None]
    /\ keys = [k \in Keys |-> None]
    /\ boards = [a \in Apps |-> NoBoards]
    /\ created = {}
    /\ issued = [k \in Keys |-> None]

\* The first critical section of CreateApp; the second is an IssueKey.
CreateApp(a, u) ==
    /\ a \notin created
    /\ created' = created \cup {a}
    /\ apps' = [apps EXCEPT ![a] = NewApp(u)]
    /\ UNCHANGED <<keys, boards, issued>>

\* The key is minted before the app is looked up: of an app that does not exist
\* it is spent and authenticates nobody.
IssueKey(a, k, scope) ==
    /\ issued[k] = None
    /\ issued' = [issued EXCEPT ![k] = scope]
    /\ keys' = IF apps[a] = None THEN keys
               ELSE [keys EXCEPT ![k] = [app |-> a, scope |-> scope]]
    /\ UNCHANGED <<apps, boards, created>>

RevokeKey(a, k) ==
    /\ keys[k] # None
    /\ keys[k].app = a
    /\ keys' = [keys EXCEPT ![k] = None]
    /\ UNCHANGED <<apps, boards, created, issued>>

DeleteApp(a) ==
    /\ apps[a] # None
    /\ apps' = [apps EXCEPT ![a] = None]
    /\ boards' = [boards EXCEPT ![a] = NoBoards]
    /\ keys' = [k \in Keys |->
                  IF keys[k] # None THEN IF keys[k].app = a THEN None ELSE keys[k] ELSE None]
    /\ UNCHANGED <<created, issued>>

\* SetRequirePlayerTokens, SetRequireSigning and RotateSigningKey.
ChangeSettings(a) ==
    /\ apps[a] # None
    /\ \E r \in Changes(apps[a]) : apps' = [apps EXCEPT ![a] = r]
    /\ UNCHANGED <<keys, boards, created, issued>>

UpsertBoard(a, b, c) ==
    /\ apps[a] # None
    /\ boards' = [boards EXCEPT ![a][b] = c]
    /\ UNCHANGED <<apps, keys, created, issued>>

StoreNext ==
    \E a \in Apps :
        \/ \E u \in Users : CreateApp(a, u)
        \/ \E k \in Keys : RevokeKey(a, k) \/ \E scope \in Scopes : IssueKey(a, k, scope)
        \/ DeleteApp(a)
        \/ ChangeSettings(a)
        \/ \E b \in Boards, c \in Configs : UpsertBoard(a, b, c)

StoreSpec == StoreInit /\ [][StoreNext]_storeVars
=============================================================================
