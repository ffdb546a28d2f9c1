-------------------------------- MODULE Players --------------------------------
(***************************************************************************)
(* Player tokens (pkg/players) under the handlers that register, rename,   *)
(* delete and write for a player: the first token a member is used with is *)
(* bound to it, later ones must be the same.  The binding is made by       *)
(* separate Redis commands around the registry's own, so requests          *)
(* interleave between them and may end after any of them.  A call of the   *)
(* registry is one step here; module Users has its commands.               *)
(***************************************************************************)
EXTENDS Naturals, FiniteSets

CONSTANTS
    Members,    \* member ids a request may name, registered or not
    Minted,     \* the plr_ ids, drawn at random by users.newID
    Nicks,      \* nicknames
    Tokens,     \* well-formed player tokens
    Requests,   \* HTTP requests served at the same time
    MaxCalls,   \* bound: requests made in a behaviour
    None

Ids == Members \cup Minted

CallType ==
    [op : {"claim", "mint", "rename", "write", "delete"}, at : {"bind", "incr", "compare", "act"},
     id : Ids \cup {None}, token : Tokens \cup {None}, nick : Nicks \cup {None}]

\* A minted id starts with plr_, the id of a member that can be claimed does not; no
\* request names a minted id before it is drawn, which is 96 random bits.
ASSUME IdAssumption     == Members \cap Minted = {} /\ None \notin Ids
ASSUME NoneAssumption   == None \notin Tokens /\ None \notin Nicks /\ None \notin CallType
ASSUME FiniteAssumption == IsFiniteSet(Ids) /\ IsFiniteSet(Requests) /\ MaxCalls \in Nat

VARIABLES
    registered, \* registered[i]: the nickname of player i, or None
    bound,      \* ply:tok:<app>:<member>: the token bound to the member, or None
    count,      \* ply:count:<app>
    require,    \* the app's RequirePlayerTokens
    calls,      \* calls[p]: the request p is serving, or None
    made,       \* requests made, for the bound
    (* history *)
    accepted,   \* accepted[i]: the tokens Authorize has let through for i
    uncounted,  \* bindings whose INCR failed or never ran
    creator,    \* creator[i]: the token minted player i was created with, or None
    drawn,      \* minted ids drawn so far
    early,      \* minted players another request bound before their creator's
    cut         \* minted players whose creation ended before their binding

historyVars == <<accepted, uncounted, creator, drawn, early, cut>>
vars == <<registered, bound, count, require, calls, made, historyVars>>

\* A request: what it does, before which command it is, the player, the token it
\* carries (None without one) and the nickname.
Call(op, at, i, t, n) == [op |-> op, at |-> at, id |-> i, token |-> t, nick |-> n]

Init ==
    /\ registered = [i \in Ids |-> None]
    /\ bound = [i \in Ids |-> None]
    /\ count = 0
    /\ require \in BOOLEAN
    /\ calls = [p \in Requests |-> None]
    /\ made = 0
    /\ accepted = [i \in Ids |-> {}]
    /\ uncounted = 0
    /\ creator = [i \in Ids |-> None]
    /\ drawn = {}
    /\ early = {}
    /\ cut = {}

-----------------------------------------------------------------------------
At(p, point) == calls[p] # None /\ calls[p].at = point

Doing(p, op) == At(p, "act") /\ calls[p].op = op

Enter(p, c) ==
    /\ calls[p] = None
    /\ made < MaxCalls
    /\ made' = made + 1
    /\ calls' = [calls EXCEPT ![p] = c]

Step(p, c) == calls' = [calls EXCEPT ![p] = c] /\ UNCHANGED made

Goto(p, point) == Step(p, [calls[p] EXCEPT !.at = point])

Return(p) == Step(p, None)

Taken(n) == \E i \in Ids : registered[i] = n

-----------------------------------------------------------------------------
(* The handlers.  authorizePlayer: a token that is sent is checked; without  *)
(* one a secret key passes, and a publishable key while tokens are optional. *)

MayOmitToken(secret) == secret \/ ~require

\* A request that names its player: to claim the id, rename or delete it, or write
\* for it (handleSubmit).
HandlePlayer(p, op, i, t, n, secret) ==
    /\ t # None \/ MayOmitToken(secret)
    /\ Enter(p, Call(op, IF t = None THEN "act" ELSE "bind", i, t, n))
    /\ UNCHANGED <<registered, bound, count, require, historyVars>>

\* handleCreateUser without a member: the player comes first, its token after.
HandleMint(p, t, n, secret) ==
    /\ t # None \/ MayOmitToken(secret)
    /\ Enter(p, Call("mint", "act", None, t, n))
    /\ UNCHANGED <<registered, bound, count, require, historyVars>>

\* users.Create of a named member: the id must not be a plr_ one (normalizeMemberID)
\* and be free, then the nickname.  The token is bound already, whatever it answers.
Claim(p) ==
    LET i == calls[p].id IN
    /\ Doing(p, "claim")
    /\ registered' = IF i \in Members /\ registered[i] = None /\ ~Taken(calls[p].nick)
                     THEN [registered EXCEPT ![i] = calls[p].nick] ELSE registered
    /\ Return(p)
    /\ UNCHANGED <<bound, count, require, historyVars>>

\* Faulty variant: the new player is answered before its token is bound.
MintUnbound(p, i) ==
    /\ Doing(p, "mint")
    /\ i \notin drawn
    /\ ~Taken(calls[p].nick)
    /\ registered' = [registered EXCEPT ![i] = calls[p].nick]
    /\ drawn' = drawn \cup {i}
    /\ creator' = [creator EXCEPT ![i] = calls[p].token]
    /\ Return(p)
    /\ UNCHANGED <<bound, count, require, accepted, uncounted, early, cut>>

\* users.Create of a minted id, and what handleCreateUser goes on with.
Mint(p, i) ==
    LET t == calls[p].token IN
    /\ Doing(p, "mint")
    /\ i \notin drawn
    /\ ~Taken(calls[p].nick)
    /\ registered' = [registered EXCEPT ![i] = calls[p].nick]
    /\ drawn' = drawn \cup {i}
    /\ creator' = [creator EXCEPT ![i] = t]
    /\ IF t = None THEN Return(p) ELSE Step(p, [calls[p] EXCEPT !.at = "bind", !.id = i])
    /\ UNCHANGED <<bound, count, require, accepted, uncounted, early, cut>>

MintRefused(p) ==
    /\ Doing(p, "mint")
    /\ Taken(calls[p].nick)
    /\ Return(p)
    /\ UNCHANGED <<registered, bound, count, require, historyVars>>

\* users.Rename: an unknown player or a taken nickname changes nothing.
Rename(p) ==
    LET i == calls[p].id
        n == calls[p].nick IN
    /\ Doing(p, "rename")
    /\ registered' = IF registered[i] # None /\ (registered[i] = n \/ ~Taken(n))
                     THEN [registered EXCEPT ![i] = n] ELSE registered
    /\ Return(p)
    /\ UNCHANGED <<bound, count, require, historyVars>>

\* The score goes on to the ingestor.
Write(p) ==
    /\ Doing(p, "write")
    /\ Return(p)
    /\ UNCHANGED <<registered, bound, count, require, historyVars>>

\* handleDeleteUser, after its removals: the player goes, the binding stays.
DeleteUser(p) ==
    /\ Doing(p, "delete")
    /\ registered' = [registered EXCEPT ![calls[p].id] = None]
    /\ Return(p)
    /\ UNCHANGED <<bound, count, require, historyVars>>

\* handleSetPlayerTokens.
SetRequire ==
    /\ require' = ~require
    /\ UNCHANGED <<registered, bound, count, calls, made, historyVars>>

-----------------------------------------------------------------------------
(* RedisStore.Authorize *)

\* Authorize returns nil: a minted player's creation is over, others go on.
Authorized(p) == IF calls[p].op = "mint" THEN Return(p) ELSE Goto(p, "act")

Accept(p) == accepted' = [accepted EXCEPT ![calls[p].id] = @ \cup {calls[p].token}]

\* Faulty variant: the binding is written without NX.
BindAlways(p) ==
    LET i == calls[p].id IN
    /\ At(p, "bind")
    /\ bound' = [bound EXCEPT ![i] = calls[p].token]
    /\ Accept(p)
    /\ IF bound[i] = None THEN Goto(p, "incr") ELSE Authorized(p)
    /\ UNCHANGED <<registered, count, require, uncounted, creator, drawn, early, cut>>

\* SETNX.
Bind(p) ==
    LET i == calls[p].id IN
    /\ At(p, "bind")
    /\ \/ /\ bound[i] = None
          /\ bound' = [bound EXCEPT ![i] = calls[p].token]
          /\ early' = IF i \in Minted /\ calls[p].op # "mint" /\ i \notin cut
                      THEN early \cup {i} ELSE early
          /\ Accept(p)
          /\ Goto(p, "incr")
       \/ bound[i] # None /\ Goto(p, "compare") /\ UNCHANGED <<bound, accepted, early>>
    /\ UNCHANGED <<registered, count, require, uncounted, creator, drawn, cut>>

\* Faulty variant: a binding found in place is counted again.
CompareCounts(p) ==
    /\ At(p, "compare")
    /\ IF bound[calls[p].id] = calls[p].token
       THEN Accept(p) /\ Goto(p, "incr")
       ELSE Return(p) /\ UNCHANGED accepted
    /\ UNCHANGED <<registered, bound, count, require, uncounted, creator, drawn, early, cut>>

\* GET and the comparison; ErrTokenMismatch ends the request.
Compare(p) ==
    /\ At(p, "compare")
    /\ IF bound[calls[p].id] = calls[p].token
       THEN Accept(p) /\ Authorized(p)
       ELSE Return(p) /\ UNCHANGED accepted
    /\ UNCHANGED <<registered, bound, count, require, uncounted, creator, drawn, early, cut>>

\* INCR; an error is dropped.
Count(p) ==
    /\ At(p, "incr")
    /\ \/ count' = count + 1 /\ UNCHANGED uncounted
       \/ uncounted' = uncounted + 1 /\ UNCHANGED count
    /\ Authorized(p)
    /\ UNCHANGED <<registered, bound, require, accepted, creator, drawn, early, cut>>

\* The request ends where it is: cancelled, refused by Redis, or its process gone.
Abandon(p) ==
    LET c == calls[p] IN
    /\ c # None
    /\ Return(p)
    /\ uncounted' = IF c.at = "incr" THEN uncounted + 1 ELSE uncounted
    /\ cut' = IF c.op = "mint" /\ c.at = "bind" THEN cut \cup {c.id} ELSE cut
    /\ UNCHANGED <<registered, bound, count, require, accepted, creator, drawn, early>>

-----------------------------------------------------------------------------
Next ==
    \/ \E p \in Requests :
        \/ \E t \in Tokens \cup {None}, n \in Nicks, secret \in BOOLEAN :
             \/ \E i \in Members \cup drawn, op \in {"claim", "rename"} :
                  HandlePlayer(p, op, i, t, n, secret)
             \/ HandleMint(p, t, n, secret)
        \/ \E t \in Tokens \cup {None}, i \in Members \cup drawn, secret \in BOOLEAN :
             \E op \in {"write", "delete"} : HandlePlayer(p, op, i, t, None, secret)
        \/ Claim(p) \/ MintRefused(p) \/ Rename(p) \/ Write(p) \/ DeleteUser(p)
        \/ \E i \in Minted : Mint(p, i)
        \/ Bind(p) \/ Compare(p) \/ Count(p)
        \/ Abandon(p)
    \/ SetRequire

Spec == Init /\ [][Next]_vars

-----------------------------------------------------------------------------
(* Properties *)

\* Every Redis key holds what the store writes there; a request is at one of its
\* commands, and only a mint is without its player.
TypeOK ==
    /\ registered \in [Ids -> Nicks \cup {None}]
    /\ bound \in [Ids -> Tokens \cup {None}]
    /\ count \in Nat
    /\ require \in BOOLEAN
    /\ calls \in [Requests -> CallType \cup {None}]
    /\ \A p \in Requests : calls[p] # None /\ calls[p].id = None => Doing(p, "mint")
    /\ made \in 0..MaxCalls
    /\ accepted \in [Ids -> SUBSET Tokens]
    /\ uncounted \in Nat
    /\ creator \in [Ids -> Tokens \cup {None}]
    /\ drawn \subseteq Minted /\ early \subseteq drawn /\ cut \subseteq drawn

\* Concurrent first uses produce exactly one binding (players/store.go:23): whatever
\* requests race, and across deletion and re-registration of the player, a member is
\* only ever written for with one token, the one that is bound.
OneTokenPerMember == \A i \in Ids : accepted[i] \subseteq {bound[i]}

\* The dashboard's counter is the number of bindings, less exactly those whose INCR
\* failed, was never reached, or is still to come: no retry counts one twice.
CountAccounts ==
    Cardinality({i \in Ids : bound[i] # None})
        = count + uncounted + Cardinality({p \in Requests : At(p, "incr")})

\* A player minted with a token is bound to that token when its creation is over,
\* unless that ended between the two steps or another request, which found the
\* player by its nickname, was first.
MintedIsCreators ==
    \A i \in drawn : creator[i] # None =>
        \/ bound[i] = creator[i]
        \/ i \in early \cup cut
        \/ \E p \in Requests : At(p, "bind") /\ calls[p].op = "mint" /\ calls[p].id = i
=============================================================================
