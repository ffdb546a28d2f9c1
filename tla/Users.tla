------------------------------- MODULE Users -------------------------------
(***************************************************************************)
(* The player registry of one app, pkg/users.RedisStore: the hash of       *)
(* claimed nicknames, the hash of display names and one record per player, *)
(* changed by three Lua scripts and read by separate commands.  Rename and *)
(* Delete read the record first and hand the script what they read; the    *)
(* script refuses a stale reading and the call starts over, a bounded      *)
(* number of times.                                                        *)
(***************************************************************************)
EXTENDS Naturals, FiniteSets

CONSTANTS
  Clients,        \* concurrent callers of the store
  ClaimedIds,     \* member ids a caller may name
  MintedIds,      \* the plr_ ids, drawn by newID and reserved for it
  Displays,       \* nicknames as entered
  Lowers,         \* lowercased nicknames
  Lower,          \* Displays -> Lowers, or Invalid
  Invalid,        \* what normalizeNickname refuses
  Mint,           \* a create request that names no member
  None,           \* an absent key or field
  MaxAttempts,    \* tries of Rename and Delete (32 in the code)
  MaxRequests,    \* bound: calls per client
  MaxLost         \* bound: replies lost after the script has run

Ids        == ClaimedIds \cup MintedIds
Valid      == {d \in Displays : Lower[d] # Invalid}
Names      == Valid \cup {None}
Owners     == Ids \cup {None}
User       == [nickname : Valid, created : Nat]
Records    == User \cup {None}

ASSUME NickAssumption  == Lower \in [Displays -> Lowers \cup {Invalid}] /\ Invalid \notin Lowers
ASSUME IdAssumption    == ClaimedIds \cap MintedIds = {} /\ Mint \notin Ids /\ None \notin Ids
ASSUME NoneAssumption  == None \notin Displays /\ None \notin User
ASSUME UserBounds      == MaxAttempts \in Nat \ {0} /\ MaxRequests \in Nat /\ MaxLost \in Nat

Requests ==
       [op : {"create"}, id : Ids \cup {Mint}, display : Displays]
  \cup [op : {"rename"}, id : Ids,             display : Displays]
  \cup [op : {"delete"}, id : Ids,             display : {None}]
  \cup [op : {"lookup"}, id : {Mint},          display : Displays]

Answers == {"none", "invalid", "created", "nickname_taken", "member_taken", "renamed",
            "deleted", "found", "not_found", "contention", "error"}

VARIABLES
  nick,      \* [Lowers -> Owners]: the nick hash
  names,     \* [Ids -> Names]: the names hash
  user,      \* [Ids -> Records]: the player records
  minted,    \* minted ids that have been registered
  created,   \* registrations so far: the clock behind CreatedAt
  pc,        \* what each client does next
  req,       \* the request of each client, None before the first
  snap,      \* the record its last read returned, or the id a lookup resolved
  stale,     \* scripts of this call refused as stale
  answer,    \* what the last call returned
  calls,     \* calls each client has made
  lost,      \* replies lost so far
  writes,    \* history: scripts that changed the registry
  begun,     \* history: writes when the call of a client began
  readAt,    \* history: writes when the call last read the record
  removed,   \* history: clients whose request has removed a player
  held       \* history: who held the nickname a client looks up, during its call

registry == <<nick, names, user, minted, created>>
vars == <<nick, names, user, minted, created, pc, req, snap, stale, answer, calls,
          lost, writes, begun, readAt, removed, held>>

Init ==
  /\ nick  = [l \in Lowers |-> None]
  /\ names = [i \in Ids |-> None]
  /\ user  = [i \in Ids |-> None]
  /\ minted = {} /\ created = 0
  /\ pc     = [c \in Clients |-> "idle"]
  /\ req    = [c \in Clients |-> None]
  /\ snap   = [c \in Clients |-> None]
  /\ stale  = [c \in Clients |-> 0]
  /\ answer = [c \in Clients |-> "none"]
  /\ calls  = [c \in Clients |-> 0]
  /\ lost = 0 /\ writes = 0
  /\ begun  = [c \in Clients |-> 0]
  /\ readAt = [c \in Clients |-> 0]
  /\ removed = {}
  /\ held = [c \in Clients |-> {}]

\* Faulty variant: any member id is accepted, the plr_ prefix too.
RefusedAnyMember(r) == r.op \in {"create", "rename", "lookup"} /\ Lower[r.display] = Invalid

\* normalizeNickname and normalizeMemberID: the calls refused before any command.
Refused(r) ==
  \/ r.op \in {"create", "rename", "lookup"} /\ Lower[r.display] = Invalid
  \/ r.op = "create" /\ r.id \in MintedIds

FirstStep(op) == IF op = "create" THEN "script" ELSE IF op = "lookup" THEN "resolve" ELSE "get"

\* A call starts: it is refused at once or goes to its first command.
Call(c, r) ==
  /\ calls[c] < MaxRequests
  /\ calls' = [calls EXCEPT ![c] = @ + 1]
  /\ req'   = [req EXCEPT ![c] = r]
  /\ stale' = [stale EXCEPT ![c] = 0]
  /\ begun' = [begun EXCEPT ![c] = writes]
  /\ snap'  = [snap EXCEPT ![c] = None]
  /\ IF Refused(r)
     THEN answer' = [answer EXCEPT ![c] = "invalid"] /\ UNCHANGED pc
     ELSE /\ answer' = [answer EXCEPT ![c] = "none"]
          /\ pc' = [pc EXCEPT ![c] = FirstStep(r.op)]
  /\ UNCHANGED <<registry, lost, writes, readAt>>

Begin(c) ==
  /\ pc[c] = "idle" /\ answer[c] # "error"
  /\ removed' = removed \ {c}
  /\ \E r \in Requests : Call(c, r)

\* The caller got an error and sends the same request again.
Replay(c) ==
  /\ pc[c] = "idle" /\ answer[c] = "error"
  /\ Call(c, req[c])
  /\ UNCHANGED removed

\* The call returns a, or its reply is lost on the way.
Return(c, a) ==
  /\ pc' = [pc EXCEPT ![c] = "idle"]
  /\ \/ answer' = [answer EXCEPT ![c] = a] /\ UNCHANGED lost
     \/ /\ lost < MaxLost /\ lost' = lost + 1
        /\ answer' = [answer EXCEPT ![c] = "error"]

\* A command fails without effect, or the context of the call has ended.
CommandFails(c) ==
  /\ pc[c] # "idle"
  /\ lost < MaxLost /\ lost' = lost + 1
  /\ pc'     = [pc EXCEPT ![c] = "idle"]
  /\ answer' = [answer EXCEPT ![c] = "error"]
  /\ UNCHANGED <<registry, req, snap, stale, calls, writes, begun, readAt, removed>>

----------------------------------------------------------------------------
(* Create.  One script: the id, then the nickname, then the three writes. *)

\* The id of a create request: the member it names, or one newID draws.
IsIdFor(i, r) == IF r.id = Mint THEN i \in MintedIds \ minted ELSE i = r.id

Create(c) ==
  /\ pc[c] = "script" /\ req[c].op = "create"
  /\ \E i \in Ids :
       /\ IsIdFor(i, req[c])
       /\ user[i] = None /\ nick[Lower[req[c].display]] = None
       /\ nick'  = [nick EXCEPT ![Lower[req[c].display]] = i]
       /\ names' = [names EXCEPT ![i] = req[c].display]
       /\ user'  = [user EXCEPT ![i] = [nickname |-> req[c].display, created |-> created + 1]]
       /\ minted' = IF i \in MintedIds THEN minted \cup {i} ELSE minted
  /\ created' = created + 1
  /\ writes'  = writes + 1
  /\ Return(c, "created")
  /\ UNCHANGED <<req, snap, stale, calls, begun, readAt, removed>>

\* ErrMemberTaken is looked at before ErrNicknameTaken.
CreateRefused(c) ==
  /\ pc[c] = "script" /\ req[c].op = "create"
  /\ \E i \in Ids :
       /\ IsIdFor(i, req[c])
       /\ \/ user[i] # None /\ Return(c, "member_taken")
          \/ /\ user[i] = None /\ nick[Lower[req[c].display]] # None
             /\ Return(c, "nickname_taken")
  /\ UNCHANGED <<registry, req, snap, stale, calls, writes, begun, readAt, removed>>

----------------------------------------------------------------------------
(* Rename and Delete: read the record, run the script with what was read. *)

\* Get: the record as it is now.
Get(c) ==
  /\ pc[c] = "get" /\ user[req[c].id] # None
  /\ snap'   = [snap EXCEPT ![c] = user[req[c].id]]
  /\ readAt' = [readAt EXCEPT ![c] = writes]
  /\ pc'     = [pc EXCEPT ![c] = "script"]
  /\ UNCHANGED <<registry, req, stale, answer, calls, lost, writes, begun, removed>>

\* ErrNotFound: Rename reports it, for Delete it is success.
GetNotFound(c) ==
  /\ pc[c] = "get" /\ user[req[c].id] = None
  /\ Return(c, IF req[c].op = "delete" THEN "deleted" ELSE "not_found")
  /\ UNCHANGED <<registry, req, snap, stale, calls, writes, begun, readAt, removed>>

\* Faulty variant: the rename script trusts the reading it is given.
OwnsUnchecked(c) == TRUE

\* HGET nick oldLower == id: the nickname that was read is still this player's.
Owns(c) == nick[Lower[snap[c].nickname]] = req[c].id

\* Faulty variant: the loop ends one attempt early.
AttemptsLeftOffByOne(n) == n + 1 < MaxAttempts

\* attempt < maxAttempts.
AttemptsLeft(n) == n < MaxAttempts

\* The script answered -1: read again, or give up with ErrRenameContention
\* or ErrDeleteContention.
Stale(c) ==
  /\ stale' = [stale EXCEPT ![c] = @ + 1]
  /\ IF AttemptsLeft(stale[c] + 1)
     THEN pc' = [pc EXCEPT ![c] = "get"] /\ UNCHANGED <<answer, lost>>
     ELSE Return(c, "contention")
  /\ UNCHANGED <<registry, req, snap, calls, writes, begun, readAt, removed>>

\* Faulty variant: the old nickname stays claimed.
ReclaimKeepsOld(id, old, new) == [nick EXCEPT ![new] = id]

\* The nick hash after a rename: the old claim is given up unless only the case changed.
Reclaim(id, old, new) ==
  [l \in Lowers |-> IF l = new THEN id ELSE IF l = old THEN None ELSE nick[l]]

Rename(c) ==
  LET id  == req[c].id
      old == Lower[snap[c].nickname]
      new == Lower[req[c].display] IN
  /\ pc[c] = "script" /\ req[c].op = "rename"
  /\ Owns(c)
  /\ new = old \/ nick[new] = None
  /\ nick'  = Reclaim(id, old, new)
  /\ names' = [names EXCEPT ![id] = req[c].display]
  /\ user'  = [user EXCEPT ![id] = [nickname |-> req[c].display, created |-> snap[c].created]]
  /\ writes' = writes + 1
  /\ Return(c, "renamed")
  /\ UNCHANGED <<minted, created, req, snap, stale, calls, begun, readAt, removed>>

RenameTaken(c) ==
  LET old == Lower[snap[c].nickname]
      new == Lower[req[c].display] IN
  /\ pc[c] = "script" /\ req[c].op = "rename"
  /\ Owns(c) /\ new # old /\ nick[new] # None
  /\ Return(c, "nickname_taken")
  /\ UNCHANGED <<registry, req, snap, stale, calls, writes, begun, readAt, removed>>

RenameStale(c) ==
  /\ pc[c] = "script" /\ req[c].op = "rename"
  /\ ~Owns(c)
  /\ Stale(c)

Delete(c) ==
  LET id == req[c].id IN
  /\ pc[c] = "script" /\ req[c].op = "delete"
  /\ user[id] # None /\ Owns(c)
  /\ nick'  = [nick EXCEPT ![Lower[snap[c].nickname]] = None]
  /\ names' = [names EXCEPT ![id] = None]
  /\ user'  = [user EXCEPT ![id] = None]
  /\ writes' = writes + 1
  /\ removed' = removed \cup {c}
  /\ Return(c, "deleted")
  /\ UNCHANGED <<minted, created, req, snap, stale, calls, begun, readAt>>

\* The player is gone already.
DeleteGone(c) ==
  /\ pc[c] = "script" /\ req[c].op = "delete"
  /\ user[req[c].id] = None
  /\ Return(c, "deleted")
  /\ UNCHANGED <<registry, req, snap, stale, calls, writes, begun, readAt, removed>>

DeleteStale(c) ==
  /\ pc[c] = "script" /\ req[c].op = "delete"
  /\ user[req[c].id] # None /\ ~Owns(c)
  /\ Stale(c)

----------------------------------------------------------------------------
(* GetByNickname: HGET of the nick hash, then GET of the record. *)

LookupResolve(c) ==
  LET id == nick[Lower[req[c].display]] IN
  /\ pc[c] = "resolve"
  /\ IF id = None
     THEN Return(c, "not_found") /\ UNCHANGED snap
     ELSE /\ snap' = [snap EXCEPT ![c] = id]
          /\ pc'   = [pc EXCEPT ![c] = "fetch"]
          /\ UNCHANGED <<answer, lost>>
  /\ UNCHANGED <<registry, req, stale, calls, writes, begun, readAt, removed>>

LookupFetch(c) ==
  /\ pc[c] = "fetch"
  /\ snap' = [snap EXCEPT ![c] = user[snap[c]]]
  /\ Return(c, IF user[snap[c]] = None THEN "not_found" ELSE "found")
  /\ UNCHANGED <<registry, req, stale, calls, writes, begun, readAt, removed>>

----------------------------------------------------------------------------
Step(c) ==
  \/ Begin(c) \/ Replay(c) \/ CommandFails(c)
  \/ Create(c) \/ CreateRefused(c)
  \/ Get(c) \/ GetNotFound(c)
  \/ Rename(c) \/ RenameTaken(c) \/ RenameStale(c)
  \/ Delete(c) \/ DeleteGone(c) \/ DeleteStale(c)
  \/ LookupResolve(c) \/ LookupFetch(c)

Looking(c) == pc[c] \in {"resolve", "fetch"}

\* The player that claims the nickname c looks up, and its record.
Holder(c) ==
  LET i == nick[Lower[req[c].display]] IN <<i, IF i = None THEN None ELSE user[i]>>

\* History: what each lookup could have found at every instant from its call to its answer.
Observe ==
  held' = [c \in Clients |-> IF Looking(c) THEN held[c] \cup {Holder(c)'}
                             ELSE IF Looking(c)' THEN {Holder(c)'}
                             ELSE IF calls'[c] # calls[c] THEN {} ELSE held[c]]

Next == (\E c \in Clients : Step(c)) /\ Observe

Spec == Init /\ [][Next]_vars

----------------------------------------------------------------------------
Steps == {"idle", "script", "get", "resolve", "fetch"}

StateType ==
  /\ nick  \in [Lowers -> Owners]
  /\ names \in [Ids -> Names]
  /\ user  \in [Ids -> Records]
  /\ minted \subseteq MintedIds
  /\ created \in Nat /\ lost \in Nat /\ writes \in Nat
  /\ pc     \in [Clients -> Steps]
  /\ req    \in [Clients -> Requests \cup {None}]
  /\ snap   \in [Clients -> Records \cup Ids]
  /\ stale  \in [Clients -> Nat]
  /\ answer \in [Clients -> Answers]
  /\ calls  \in [Clients -> Nat]
  /\ begun  \in [Clients -> Nat]
  /\ readAt \in [Clients -> Nat]
  /\ removed \subseteq Clients

\* The state has its shape; no refused nickname is ever stored.
TypeOK == StateType /\ held \in [Clients -> SUBSET (Owners \X Records)]

\* A player's record, display name and claimed nickname agree, whatever calls ran
\* together and wherever one of them stopped: no two players share a lowercased
\* nickname, no nickname is held by nobody, and the names hash has one field per
\* player, which is what Count relies on.
RegistryConsistent ==
  /\ \A i \in Ids :
       IF user[i] = None
       THEN names[i] = None
       ELSE names[i] = user[i].nickname /\ nick[Lower[user[i].nickname]] = i
  /\ \A l \in Lowers :
       nick[l] # None => user[nick[l]] # None /\ Lower[user[nick[l]].nickname] = l

\* GetByNickname reads twice, and a create, a rename or a delete may come between.  It
\* misses a player only if the nickname was free at some instant of the call, and what it
\* finds is the record of the nickname's holder at some instant of the call or, when that
\* player gave the nickname up between the reads, a record that shows another nickname.
LookupHeldDuringCall ==
  \A c \in Clients : pc[c] = "idle" /\ req[c] # None /\ req[c].op = "lookup" =>
    LET free == <<None, None>> \in held[c] IN
    /\ answer[c] = "not_found" => free
    /\ answer[c] = "found" =>
         \/ \E i \in Ids : <<i, snap[c]>> \in held[c]
         \/ free /\ Lower[snap[c].nickname] # Lower[req[c].display]

\* Rename and Delete give up only after MaxAttempts changes of the registry by
\* other calls while they ran: N-way contention costs at most N attempts.
ContentionIsReal ==
  \A c \in Clients : answer[c] = "contention" => writes - begun[c] >= MaxAttempts

\* c's step removes the player its request names.
Removes(c) ==
  /\ pc[c] = "script" /\ pc'[c] = "idle" /\ req[c].op = "delete"
  /\ user[req[c].id] # None /\ user'[req[c].id] = None

\* A delete request that removed a player with a minted id, and is sent again because
\* its reply was lost, removes nothing more, whatever was registered in between
\* (pkg/users/store.go:67-69; an id that a client claimed can be registered again).
ReplayedMintedDeleteIsHarmless ==
  [][\A c \in Clients : Removes(c) /\ req[c].id \in MintedIds => c \notin removed]_vars
=============================================================================
