---------------------------- MODULE UsersProofs ----------------------------
(***************************************************************************)
(* Proofs about Users, for any number of clients, ids and nicknames.  The  *)
(* registry's consistency is inductive with what each call carries between *)
(* its commands: a read record is a record, and it is the current one as   *)
(* long as no script has changed the registry since the read.              *)
(***************************************************************************)
EXTENDS Users, TLAPS

\* A call in progress has a request that was not refused, of the kind its step serves.
RequestInv ==
  \A c \in Clients :
    /\ pc[c] # "idle" \/ answer[c] = "error" \/ c \in removed => req[c] \in Requests
    /\ pc[c] # "idle" => ~Refused(req[c])
    /\ pc[c] = "get" => req[c].op \in {"rename", "delete"}
    /\ pc[c] = "script" => req[c].op \in {"create", "rename", "delete"}
    /\ pc[c] = "script" /\ req[c].op # "create" => snap[c] \in User
    /\ pc[c] = "resolve" => req[c].op = "lookup"
    /\ pc[c] = "fetch" => snap[c] \in Ids

\* Every refused script is paid for by a change of the registry since the call began;
\* a record read is current unless the registry has changed since.
ReadInv ==
  \A c \in Clients :
    /\ begun[c] <= writes
    /\ pc[c] = "get" => begun[c] + stale[c] <= writes
    /\ pc[c] = "script" /\ req[c].op # "create" =>
         /\ begun[c] + stale[c] <= readAt[c]
         /\ readAt[c] <= writes
         /\ readAt[c] = writes => user[req[c].id] = snap[c]

\* A minted id is registered once: a removed player with such an id stays removed.
MintedInv ==
  /\ \A i \in MintedIds : user[i] # None => i \in minted
  /\ \A c \in removed : req[c].id \in MintedIds => req[c].id \in minted /\ user[req[c].id] = None

IInv == StateType /\ RequestInv /\ RegistryConsistent /\ ReadInv /\ ContentionIsReal /\ MintedInv

----------------------------------------------------------------------------
\* What a request holds.
LEMMA RequestFields ==
  ASSUME NEW r \in Requests
  PROVE  /\ r.op \in {"create", "rename", "delete", "lookup"}
         /\ r.id \in Ids \cup {Mint}
         /\ r.op \in {"rename", "delete"} => r.id \in Ids
         /\ r.op \in {"create", "rename", "lookup"} => r.display \in Displays
         /\ ~Refused(r) /\ r.op # "delete" => r.display \in Valid /\ Lower[r.display] \in Lowers
         /\ ~Refused(r) /\ r.op = "create" => r.id \notin MintedIds
  BY NickAssumption DEF Requests, Refused, Valid

\* What a record holds, and that one can be told from an absent one.
LEMMA UserFields ==
  /\ \A u \in User : u.nickname \in Valid /\ u.created \in Nat /\ Lower[u.nickname] \in Lowers /\ u # None
  /\ \A d \in Valid, n \in Nat : [nickname |-> d, created |-> n] \in User
  BY NickAssumption, NoneAssumption DEF User, Valid

\* None is no id and no nickname.
LEMMA Distinct == None \notin Ids /\ None \notin Valid /\ Mint \notin Ids
  BY IdAssumption, NoneAssumption DEF Valid, Ids

\* A call that returns without touching the registry keeps the invariant.
LEMMA QuietReturn ==
  ASSUME IInv, NEW c \in Clients, pc[c] # "idle",
         NEW a \in Answers \ {"contention"},
         pc' = [pc EXCEPT ![c] = "idle"],
         answer' = [answer EXCEPT ![c] = a],
         lost' \in Nat,
         UNCHANGED <<registry, req, snap, stale, calls, writes, begun, readAt, removed>>
  PROVE  IInv'
<1> USE DEF IInv
<1>1. StateType'
  BY DEF StateType, registry, Steps
<1>2. RequestInv'
  BY DEF RequestInv, StateType, registry, Refused
<1>3. RegistryConsistent'
  BY DEF RegistryConsistent, registry
<1>4. ReadInv'
  BY DEF ReadInv, StateType, registry
<1>5. ContentionIsReal'
  BY DEF ContentionIsReal, StateType, registry
<1>6. MintedInv'
  BY DEF MintedInv, registry
<1> QED BY <1>1, <1>2, <1>3, <1>4, <1>5, <1>6

\* What Return does, whichever of its two ways it takes.
LEMMA Returned ==
  ASSUME StateType, NEW c \in Clients, NEW a \in Answers, Return(c, a)
  PROVE  /\ pc' = [pc EXCEPT ![c] = "idle"]
         /\ lost' \in Nat
         /\ \E b \in {a, "error"} : answer' = [answer EXCEPT ![c] = b]
  BY DEF Return, StateType

LEMMA InitInv == Init => IInv
<1> SUFFICES ASSUME Init PROVE IInv
  OBVIOUS
<1>1. StateType
  BY DEF Init, StateType, Owners, Names, Records, Steps, Answers
<1>2. RequestInv
  BY DEF Init, RequestInv
<1>3. RegistryConsistent
  BY DEF Init, RegistryConsistent
<1>4. ReadInv
  BY DEF Init, ReadInv
<1>5. ContentionIsReal /\ MintedInv
  BY DEF Init, ContentionIsReal, MintedInv, Ids
<1> QED
  BY <1>1, <1>2, <1>3, <1>4, <1>5 DEF IInv

LEMMA CallInv ==
  ASSUME IInv, NEW c \in Clients, pc[c] = "idle", NEW r \in Requests, Call(c, r),
         \/ removed' = removed \ {c}
         \/ removed' = removed /\ r = req[c]
  PROVE  IInv'
<1> USE DEF IInv
<1>0. FirstStep(r.op) \in Steps /\ FirstStep(r.op) # "idle" /\ FirstStep(r.op) # "fetch"
      /\ (FirstStep(r.op) = "get" => r.op \in {"rename", "delete"})
      /\ (FirstStep(r.op) = "script" => r.op = "create")
      /\ (FirstStep(r.op) = "resolve" => r.op = "lookup")
  BY RequestFields DEF FirstStep, Steps
<1>1. StateType'
  <2>1. pc' \in [Clients -> Steps]
    BY <1>0 DEF Call, StateType
  <2>2. answer' \in [Clients -> Answers]
    BY DEF Call, StateType, Answers
  <2> QED BY <2>1, <2>2 DEF Call, StateType, registry, Records
<1>2. RequestInv'
  <2> SUFFICES ASSUME NEW d \in Clients
               PROVE  RequestInv!(d)'
    BY DEF RequestInv
  <2>1. CASE d = c
    <3>1. CASE Refused(r)
      BY <2>1, <3>1 DEF Call, StateType, RequestInv, registry
    <3>2. CASE ~Refused(r)
      BY <2>1, <3>2, <1>0 DEF Call, StateType, RequestInv, registry, Refused
    <3> QED BY <3>1, <3>2
  <2>2. CASE d # c
    BY <2>2 DEF Call, StateType, RequestInv, registry, Refused
  <2> QED BY <2>1, <2>2
<1>3. RegistryConsistent'
  BY DEF Call, RegistryConsistent, registry
<1>4. ReadInv'
  BY <1>0 DEF Call, ReadInv, StateType, registry
<1>5. ContentionIsReal'
  BY DEF Call, ContentionIsReal, StateType, registry
<1>6. MintedInv'
  BY DEF Call, MintedInv, StateType, registry
<1> QED BY <1>1, <1>2, <1>3, <1>4, <1>5, <1>6
\* A create, a rename or a delete that changes the registry and returns: what is left
\* to show is what it does to the registry and to the minted ids.
LEMMA WriteReturn ==
  ASSUME IInv, NEW c \in Clients, pc[c] = "script",
         NEW a \in Answers \ {"contention"}, Return(c, a),
         writes' = writes + 1,
         removed' \in {removed, removed \cup {c}},
         nick' \in [Lowers -> Owners], names' \in [Ids -> Names], user' \in [Ids -> Records],
         minted' \subseteq MintedIds, created' \in Nat,
         UNCHANGED <<req, snap, stale, calls, begun, readAt>>
  PROVE  StateType' /\ RequestInv' /\ ReadInv' /\ ContentionIsReal'
<1> USE DEF IInv
<1>0. PICK b \in Answers \ {"contention"} :
        pc' = [pc EXCEPT ![c] = "idle"] /\ lost' \in Nat /\ answer' = [answer EXCEPT ![c] = b]
  BY Returned DEF Answers
<1>1. StateType'
  BY <1>0 DEF StateType, Steps
<1>2. RequestInv'
  BY <1>0 DEF RequestInv, StateType, Refused
<1>3. ReadInv'
  BY <1>0 DEF ReadInv, StateType
<1>4. ContentionIsReal'
  BY <1>0, UserBounds DEF ContentionIsReal, StateType
<1> QED BY <1>1, <1>2, <1>3, <1>4

LEMMA CreateInv ==
  ASSUME IInv, NEW c \in Clients, Create(c)
  PROVE  IInv'
<1> USE DEF IInv
<1> DEFINE d == req[c].display
           l == Lower[d]
<1>0. pc[c] = "script" /\ req[c].op = "create" /\ writes' = writes + 1 /\ created' = created + 1
      /\ Return(c, "created") /\ UNCHANGED <<req, snap, stale, calls, begun, readAt, removed>>
  BY DEF Create
<1>1. req[c] \in Requests /\ ~Refused(req[c])
  BY <1>0 DEF RequestInv
<1>2. d \in Valid /\ l \in Lowers /\ req[c].id \notin MintedIds
  BY <1>0, <1>1, RequestFields
<1>3. PICK i \in Ids :
        /\ IsIdFor(i, req[c])
        /\ user[i] = None /\ nick[l] = None
        /\ nick'  = [nick EXCEPT ![l] = i]
        /\ names' = [names EXCEPT ![i] = d]
        /\ user'  = [user EXCEPT ![i] = [nickname |-> d, created |-> created + 1]]
        /\ minted' = IF i \in MintedIds THEN minted \cup {i} ELSE minted
  BY DEF Create
<1> DEFINE u == [nickname |-> d, created |-> created + 1]
<1>4. u \in User /\ u.nickname = d /\ u # None
  BY <1>2, UserFields DEF StateType
<1> HIDE DEF u, d, l
<1>5. i \in MintedIds => i \notin minted
  BY <1>2, <1>3 DEF IsIdFor
<1>6. /\ nick' \in [Lowers -> Owners] /\ names' \in [Ids -> Names] /\ user' \in [Ids -> Records]
      /\ minted' \subseteq MintedIds /\ created' \in Nat
  BY <1>0, <1>2, <1>3, <1>4 DEF StateType, Owners, Names, Records, u, d, l
<1>7. StateType' /\ RequestInv' /\ ReadInv' /\ ContentionIsReal'
  BY <1>0, <1>6, WriteReturn DEF Answers
<1>8. RegistryConsistent'
  <2>1. nick' = [nick EXCEPT ![l] = i] /\ names' = [names EXCEPT ![i] = d] /\ user' = [user EXCEPT ![i] = u]
    BY <1>3 DEF u, d, l
  <2>2. l = Lower[d]
    BY DEF l
  <2>3. ASSUME NEW j \in Ids
        PROVE  IF user'[j] = None THEN names'[j] = None
               ELSE names'[j] = user'[j].nickname /\ nick'[Lower[user'[j].nickname]] = j
    <3>1. CASE j = i
      BY <2>1, <2>2, <3>1, <1>2, <1>4 DEF StateType, d, l
    <3>2. CASE j # i
      <4>1. user'[j] = user[j] /\ names'[j] = names[j]
        BY <2>1, <3>2 DEF StateType
      <4>2. CASE user[j] = None
        BY <4>1, <4>2 DEF RegistryConsistent
      <4>3. CASE user[j] # None
        <5>1. user[j] \in User /\ Lower[user[j].nickname] \in Lowers
          BY <4>3, UserFields DEF StateType, Records
        <5>2. nick[Lower[user[j].nickname]] = j /\ names[j] = user[j].nickname
          BY <4>3 DEF RegistryConsistent
        <5>3. Lower[user[j].nickname] # l
          BY <5>2, <1>3, Distinct DEF l, d
        <5> QED BY <4>1, <4>3, <5>1, <5>2, <5>3, <2>1 DEF StateType
      <4> QED BY <4>2, <4>3
    <3> QED BY <3>1, <3>2
  <2>4. ASSUME NEW m \in Lowers, nick'[m] # None
        PROVE  user'[nick'[m]] # None /\ Lower[user'[nick'[m]].nickname] = m
    <3>1. CASE m = l
      BY <2>1, <2>2, <3>1, <1>4 DEF StateType
    <3>2. CASE m # l
      <4>1. nick'[m] = nick[m] /\ nick[m] \in Ids
        BY <2>1, <3>2, <2>4 DEF StateType, Owners
      <4>2. nick[m] # i
        BY <4>1, <1>3, Distinct DEF RegistryConsistent
      <4>3. user'[nick[m]] = user[nick[m]]
        BY <4>1, <4>2, <2>1 DEF StateType
      <4> QED BY <4>1, <4>3, <2>4 DEF RegistryConsistent
    <3> QED BY <3>1, <3>2
  <2> QED BY <2>3, <2>4 DEF RegistryConsistent
<1>9. MintedInv'
  <2>1. \A j \in MintedIds : user'[j] # None => j \in minted'
    BY <1>3 DEF MintedInv, StateType, Ids
  <2>2. ASSUME NEW e \in removed', req'[e].id \in MintedIds
        PROVE  req'[e].id \in minted' /\ user'[req'[e].id] = None
    BY <1>0, <1>3, <1>5, <2>2 DEF MintedInv, StateType, Ids
  <2> QED BY <2>1, <2>2 DEF MintedInv
<1> QED BY <1>7, <1>8, <1>9
\* The script of a rename or a delete: the request, the record it was given and, when the
\* nickname of that record is this player's, the player's current record.
LEMMA ScriptFacts ==
  ASSUME IInv, NEW c \in Clients, pc[c] = "script", req[c].op \in {"rename", "delete"}
  PROVE  /\ req[c] \in Requests /\ ~Refused(req[c])
         /\ req[c].id \in Ids
         /\ snap[c] \in User /\ Lower[snap[c].nickname] \in Lowers
         /\ Owns(c) => /\ user[req[c].id] \in User
                       /\ user[req[c].id] # None
                       /\ Lower[user[req[c].id].nickname] = Lower[snap[c].nickname]
<1> USE DEF IInv
<1>1. req[c] \in Requests /\ ~Refused(req[c]) /\ snap[c] \in User
  BY DEF RequestInv
<1>2. req[c].id \in Ids /\ Lower[snap[c].nickname] \in Lowers
  BY <1>1, RequestFields, UserFields
<1>3. Owns(c) => user[req[c].id] # None /\ Lower[user[req[c].id].nickname] = Lower[snap[c].nickname]
  BY <1>2, Distinct DEF Owns, RegistryConsistent
<1>4. user[req[c].id] \in Records
  BY <1>2 DEF StateType
<1> QED BY <1>1, <1>2, <1>3, <1>4 DEF Records

LEMMA RenameInv ==
  ASSUME IInv, NEW c \in Clients, Rename(c)
  PROVE  IInv'
<1> USE DEF IInv
<1> DEFINE id  == req[c].id
           d   == req[c].display
           old == Lower[snap[c].nickname]
           new == Lower[d]
           u   == [nickname |-> d, created |-> snap[c].created]
<1>0. /\ pc[c] = "script" /\ req[c].op = "rename" /\ Owns(c) /\ writes' = writes + 1
      /\ Return(c, "renamed")
      /\ UNCHANGED <<minted, created, req, snap, stale, calls, begun, readAt, removed>>
  BY DEF Rename
<1>1. /\ new = old \/ nick[new] = None
      /\ nick'  = Reclaim(id, old, new)
      /\ names' = [names EXCEPT ![id] = d]
      /\ user'  = [user EXCEPT ![id] = u]
  BY DEF Rename
<1>2. /\ id \in Ids /\ d \in Valid /\ old \in Lowers /\ new \in Lowers
      /\ nick[old] = id
      /\ user[id] \in User /\ user[id] # None /\ Lower[user[id].nickname] = old
  BY <1>0, ScriptFacts, RequestFields DEF Owns
<1>3. u \in User /\ u.nickname = d /\ u # None
  BY <1>0, <1>2, ScriptFacts, UserFields
<1>4. new = Lower[d]
  OBVIOUS
<1> HIDE DEF u, d, old, new, id
<1>5. \A m \in Lowers : nick'[m] = IF m = new THEN id ELSE IF m = old THEN None ELSE nick[m]
  BY <1>1 DEF Reclaim
<1>6. nick' \in [Lowers -> Owners] /\ names' \in [Ids -> Names] /\ user' \in [Ids -> Records]
  BY <1>1, <1>2, <1>3 DEF StateType, Owners, Names, Records, Reclaim
<1>7. StateType' /\ RequestInv' /\ ReadInv' /\ ContentionIsReal'
  <2>1. minted' \subseteq MintedIds /\ created' \in Nat
    BY <1>0 DEF StateType
  <2> QED BY <2>1, <1>0, <1>6, WriteReturn DEF Answers
<1>8. RegistryConsistent'
  <2>3. ASSUME NEW j \in Ids
        PROVE  IF user'[j] = None THEN names'[j] = None
               ELSE names'[j] = user'[j].nickname /\ nick'[Lower[user'[j].nickname]] = j
    <3>1. CASE j = id
      <4>1. user'[j] = u /\ names'[j] = d
        BY <1>1, <1>2, <3>1 DEF StateType
      <4> QED BY <4>1, <1>2, <1>3, <1>4, <1>5, <3>1
    <3>2. CASE j # id
      <4>1. user'[j] = user[j] /\ names'[j] = names[j]
        BY <1>1, <3>2 DEF StateType
      <4>2. CASE user[j] = None
        BY <4>1, <4>2 DEF RegistryConsistent
      <4>3. CASE user[j] # None
        <5>1. user[j] \in User /\ Lower[user[j].nickname] \in Lowers
          BY <4>3, UserFields DEF StateType, Records
        <5>2. nick[Lower[user[j].nickname]] = j /\ names[j] = user[j].nickname
          BY <4>3 DEF RegistryConsistent
        <5>3. Lower[user[j].nickname] # new /\ Lower[user[j].nickname] # old
          BY <5>2, <3>2, <1>1, <1>2, Distinct
        <5> QED BY <4>1, <4>3, <5>1, <5>2, <5>3, <1>5
      <4> QED BY <4>2, <4>3
    <3> QED BY <3>1, <3>2
  <2>4. ASSUME NEW m \in Lowers, nick'[m] # None
        PROVE  user'[nick'[m]] # None /\ Lower[user'[nick'[m]].nickname] = m
    <3>0. user'[id] = u
      BY <1>1, <1>2 DEF StateType
    <3>1. CASE m = new
      <4>1. nick'[m] = id
        BY <3>1, <1>5
      <4> QED BY <3>0, <3>1, <4>1, <1>3, <1>4
    <3>2. CASE m # new
      <4>1. m # old /\ nick'[m] = nick[m] /\ nick[m] \in Ids
        BY <1>5, <3>2, <2>4 DEF StateType, Owners
      <4>2. user[nick[m]] # None /\ Lower[user[nick[m]].nickname] = m
        BY <4>1, <2>4 DEF RegistryConsistent
      <4>3. nick[m] # id
        BY <4>1, <4>2, <1>2
      <4>4. user'[nick[m]] = user[nick[m]]
        BY <4>1, <4>3, <1>1 DEF StateType
      <4> QED BY <4>1, <4>2, <4>4
    <3> QED BY <3>1, <3>2
  <2> QED BY <2>3, <2>4 DEF RegistryConsistent
<1>9. MintedInv'
  <2>1. \A j \in MintedIds : user'[j] # None => j \in minted'
    BY <1>0, <1>1, <1>2 DEF MintedInv, StateType, Ids
  <2>2. ASSUME NEW e \in removed', req'[e].id \in MintedIds
        PROVE  req'[e].id \in minted' /\ user'[req'[e].id] = None
    BY <1>0, <1>1, <1>2, <2>2 DEF MintedInv, StateType, Ids
  <2> QED BY <2>1, <2>2 DEF MintedInv
<1> QED BY <1>7, <1>8, <1>9

LEMMA DeleteInv ==
  ASSUME IInv, NEW c \in Clients, Delete(c)
  PROVE  IInv'
<1> USE DEF IInv
<1> DEFINE id  == req[c].id
           old == Lower[snap[c].nickname]
<1>0. /\ pc[c] = "script" /\ req[c].op = "delete" /\ Owns(c) /\ writes' = writes + 1
      /\ Return(c, "deleted") /\ removed' = removed \cup {c}
      /\ UNCHANGED <<minted, created, req, snap, stale, calls, begun, readAt>>
  BY DEF Delete
<1>1. /\ nick'  = [nick EXCEPT ![old] = None]
      /\ names' = [names EXCEPT ![id] = None]
      /\ user'  = [user EXCEPT ![id] = None]
  BY DEF Delete
<1>2. /\ id \in Ids /\ old \in Lowers /\ nick[old] = id
      /\ user[id] \in User /\ user[id] # None /\ Lower[user[id].nickname] = old
  BY <1>0, ScriptFacts DEF Owns
<1> HIDE DEF old, id
<1>3. nick' \in [Lowers -> Owners] /\ names' \in [Ids -> Names] /\ user' \in [Ids -> Records]
  BY <1>1, <1>2 DEF StateType, Owners, Names, Records
<1>4. StateType' /\ RequestInv' /\ ReadInv' /\ ContentionIsReal'
  <2>1. minted' \subseteq MintedIds /\ created' \in Nat
    BY <1>0 DEF StateType
  <2> QED BY <2>1, <1>0, <1>3, WriteReturn DEF Answers
<1>5. RegistryConsistent'
  <2>1. ASSUME NEW j \in Ids
        PROVE  IF user'[j] = None THEN names'[j] = None
               ELSE names'[j] = user'[j].nickname /\ nick'[Lower[user'[j].nickname]] = j
    <3>1. CASE j = id
      BY <1>1, <3>1 DEF StateType
    <3>2. CASE j # id
      <4>1. user'[j] = user[j] /\ names'[j] = names[j]
        BY <1>1, <3>2 DEF StateType
      <4>2. CASE user[j] = None
        BY <4>1, <4>2 DEF RegistryConsistent
      <4>3. CASE user[j] # None
        <5>1. user[j] \in User /\ Lower[user[j].nickname] \in Lowers
          BY <4>3, UserFields DEF StateType, Records
        <5>2. nick[Lower[user[j].nickname]] = j /\ names[j] = user[j].nickname
          BY <4>3 DEF RegistryConsistent
        <5>3. Lower[user[j].nickname] # old
          BY <5>2, <3>2, <1>2
        <5> QED BY <4>1, <4>3, <5>1, <5>2, <5>3, <1>1 DEF StateType
      <4> QED BY <4>2, <4>3
    <3> QED BY <3>1, <3>2
  <2>2. ASSUME NEW m \in Lowers, nick'[m] # None
        PROVE  user'[nick'[m]] # None /\ Lower[user'[nick'[m]].nickname] = m
    <3>1. m # old /\ nick'[m] = nick[m] /\ nick[m] \in Ids
      BY <1>1, <2>2 DEF StateType, Owners
    <3>2. user[nick[m]] # None /\ Lower[user[nick[m]].nickname] = m
      BY <3>1, <2>2 DEF RegistryConsistent
    <3>3. nick[m] # id
      BY <3>1, <3>2, <1>2
    <3>4. user'[nick[m]] = user[nick[m]]
      BY <3>1, <3>3, <1>1 DEF StateType
    <3> QED BY <3>1, <3>2, <3>4
  <2> QED BY <2>1, <2>2 DEF RegistryConsistent
<1>6. MintedInv'
  <2>1. \A j \in MintedIds : user'[j] # None => j \in minted'
    BY <1>0, <1>1 DEF MintedInv, StateType, Ids
  <2>2. ASSUME NEW e \in removed', req'[e].id \in MintedIds
        PROVE  req'[e].id \in minted' /\ user'[req'[e].id] = None
    <3>1. CASE e = c
      BY <1>0, <1>1, <1>2, <2>2, <3>1 DEF MintedInv, StateType, id
    <3>2. CASE e # c
      BY <1>0, <1>1, <2>2, <3>2 DEF MintedInv, StateType, Ids
    <3> QED BY <3>1, <3>2
  <2> QED BY <2>1, <2>2 DEF MintedInv
<1> QED BY <1>4, <1>5, <1>6
\* A script refused as stale: the registry has changed since the read.
LEMMA StaleInv ==
  ASSUME IInv, NEW c \in Clients, pc[c] = "script", req[c].op \in {"rename", "delete"},
         ~Owns(c), Stale(c)
  PROVE  IInv'
<1> USE DEF IInv
<1>0. /\ stale' = [stale EXCEPT ![c] = @ + 1]
      /\ UNCHANGED <<registry, req, snap, calls, writes, begun, readAt, removed>>
  BY DEF Stale
<1>1. begun[c] + stale[c] + 1 <= writes
  <2>1. begun[c] + stale[c] <= readAt[c] /\ readAt[c] <= writes
    BY DEF ReadInv
  <2>2. readAt[c] # writes
    <3> SUFFICES ASSUME readAt[c] = writes PROVE FALSE
      OBVIOUS
    <3>1. user[req[c].id] = snap[c]
      BY DEF ReadInv
    <3>2. snap[c] # None /\ req[c].id \in Ids
      BY ScriptFacts, UserFields
    <3> QED BY <3>1, <3>2 DEF RegistryConsistent, Owns
  <2> QED BY <2>1, <2>2 DEF StateType
<1>2. /\ pc' \in [Clients -> Steps]
      /\ pc'[c] \in {"get", "idle"}
      /\ answer' \in [Clients -> Answers]
      /\ lost' \in Nat
      /\ pc'[c] = "get" => answer' = answer
      /\ answer'[c] = "contention" => answer' = answer \/ writes - begun[c] >= MaxAttempts
      /\ \A d \in Clients \ {c} : pc'[d] = pc[d] /\ answer'[d] = answer[d]
  <2>1. CASE AttemptsLeft(stale[c] + 1)
    <3>1. pc' = [pc EXCEPT ![c] = "get"] /\ UNCHANGED <<answer, lost>>
      BY <2>1 DEF Stale
    <3> QED BY <3>1 DEF StateType, Steps
  <2>2. CASE ~AttemptsLeft(stale[c] + 1)
    <3>1. Return(c, "contention")
      BY <2>2 DEF Stale
    <3>2. PICK b \in {"contention", "error"} :
            pc' = [pc EXCEPT ![c] = "idle"] /\ lost' \in Nat /\ answer' = [answer EXCEPT ![c] = b]
      BY <3>1, Returned DEF Answers
    <3>3. writes - begun[c] >= MaxAttempts
      BY <2>2, <1>1, UserBounds DEF AttemptsLeft, StateType
    <3> QED BY <3>2, <3>3 DEF StateType, Steps, Answers
  <2> QED BY <2>1, <2>2
<1>3. StateType'
  <2>1. stale' \in [Clients -> Nat]
    BY <1>0 DEF StateType
  <2> QED BY <1>0, <1>2, <2>1 DEF StateType, registry
<1>4. RequestInv'
  <2> SUFFICES ASSUME NEW d \in Clients
               PROVE  RequestInv!(d)'
    BY DEF RequestInv
  <2>1. CASE d = c
    BY <2>1, <1>0, <1>2, ScriptFacts DEF RequestInv, registry, Refused
  <2>2. CASE d # c
    BY <2>2, <1>0, <1>2 DEF RequestInv, registry, Refused
  <2> QED BY <2>1, <2>2
<1>5. RegistryConsistent'
  BY <1>0 DEF RegistryConsistent, registry
<1>6. ReadInv'
  <2> SUFFICES ASSUME NEW d \in Clients
               PROVE  ReadInv!(d)'
    BY DEF ReadInv
  <2>1. CASE d = c
    BY <2>1, <1>0, <1>1, <1>2 DEF ReadInv, StateType, registry
  <2>2. CASE d # c
    BY <2>2, <1>0, <1>2 DEF ReadInv, StateType, registry
  <2> QED BY <2>1, <2>2
<1>7. ContentionIsReal'
  BY <1>0, <1>2 DEF ContentionIsReal, StateType, registry
<1>8. MintedInv'
  BY <1>0 DEF MintedInv, registry
<1> QED BY <1>3, <1>4, <1>5, <1>6, <1>7, <1>8

LEMMA GetInv ==
  ASSUME IInv, NEW c \in Clients, Get(c)
  PROVE  IInv'
<1> USE DEF IInv
<1>0. /\ pc[c] = "get" /\ user[req[c].id] # None
      /\ snap'   = [snap EXCEPT ![c] = user[req[c].id]]
      /\ readAt' = [readAt EXCEPT ![c] = writes]
      /\ pc'     = [pc EXCEPT ![c] = "script"]
      /\ UNCHANGED <<registry, req, stale, answer, calls, lost, writes, begun, removed>>
  BY DEF Get
<1>1. req[c] \in Requests /\ req[c].op \in {"rename", "delete"} /\ req[c].id \in Ids
  BY <1>0, RequestFields DEF RequestInv
<1>2. user[req[c].id] \in User
  BY <1>0, <1>1 DEF StateType, Records
<1>3. StateType'
  BY <1>0, <1>2 DEF StateType, registry, Steps, Records
<1>4. RequestInv'
  <2> SUFFICES ASSUME NEW d \in Clients
               PROVE  RequestInv!(d)'
    BY DEF RequestInv
  <2>1. CASE d = c
    BY <2>1, <1>0, <1>1, <1>2 DEF RequestInv, registry, Refused, StateType
  <2>2. CASE d # c
    BY <2>2, <1>0 DEF RequestInv, registry, Refused, StateType
  <2> QED BY <2>1, <2>2
<1>5. RegistryConsistent' /\ ContentionIsReal' /\ MintedInv'
  BY <1>0 DEF RegistryConsistent, ContentionIsReal, MintedInv, registry
<1>6. ReadInv'
  <2> SUFFICES ASSUME NEW d \in Clients
               PROVE  ReadInv!(d)'
    BY DEF ReadInv
  <2>1. CASE d = c
    BY <2>1, <1>0 DEF ReadInv, StateType, registry
  <2>2. CASE d # c
    BY <2>2, <1>0 DEF ReadInv, StateType, registry
  <2> QED BY <2>1, <2>2
<1> QED BY <1>3, <1>4, <1>5, <1>6

\* A lookup changes only what its own call carries.
LEMMA LookupInv ==
  ASSUME IInv, NEW c \in Clients, pc[c] \in {"resolve", "fetch"}, snap' \in [Clients -> Records \cup Ids],
         pc' \in [Clients -> Steps], answer' \in [Clients -> Answers], lost' \in Nat,
         pc'[c] = "idle" \/ (pc'[c] = "fetch" /\ snap'[c] \in Ids),
         answer'[c] # "contention" \/ answer' = answer,
         \A d \in Clients \ {c} : pc'[d] = pc[d] /\ answer'[d] = answer[d] /\ snap'[d] = snap[d],
         readAt' \in [Clients -> Nat], \A d \in Clients \ {c} : readAt'[d] = readAt[d],
         UNCHANGED <<registry, req, stale, calls, writes, begun, removed>>
  PROVE  IInv'
<1> USE DEF IInv
<1>1. StateType'
  BY DEF StateType, registry
<1>2. RequestInv'
  <2> SUFFICES ASSUME NEW d \in Clients
               PROVE  RequestInv!(d)'
    BY DEF RequestInv
  <2>1. CASE d = c
    BY <2>1 DEF RequestInv, registry, Refused, StateType
  <2>2. CASE d # c
    BY <2>2 DEF RequestInv, registry, Refused, StateType
  <2> QED BY <2>1, <2>2
<1>3. RegistryConsistent' /\ MintedInv'
  BY DEF RegistryConsistent, MintedInv, registry
<1>4. ContentionIsReal'
  BY DEF ContentionIsReal, registry
<1>5. ReadInv'
  <2> SUFFICES ASSUME NEW d \in Clients
               PROVE  ReadInv!(d)'
    BY DEF ReadInv
  <2>1. CASE d = c
    BY <2>1 DEF ReadInv, registry
  <2>2. CASE d # c
    BY <2>2 DEF ReadInv, registry
  <2> QED BY <2>1, <2>2
<1> QED BY <1>1, <1>2, <1>3, <1>4, <1>5

----------------------------------------------------------------------------
LEMMA StepInv ==
  ASSUME IInv, NEW c \in Clients, Step(c)
  PROVE  IInv'
<1> USE DEF IInv
<1>1. CASE Begin(c)
  BY <1>1, CallInv DEF Begin
<1>2. CASE Replay(c)
  <2>1. req[c] \in Requests
    BY <1>2 DEF Replay, RequestInv
  <2> QED BY <1>2, <2>1, CallInv DEF Replay
<1>3. CASE CommandFails(c)
  <2>1. lost' \in Nat
    BY <1>3 DEF CommandFails, StateType
  <2> QED BY <1>3, <2>1, QuietReturn DEF CommandFails, Answers
<1>4. CASE Create(c)
  BY <1>4, CreateInv
<1>5. CASE CreateRefused(c)
  <2>1. PICK a \in {"member_taken", "nickname_taken"} : Return(c, a)
    BY <1>5 DEF CreateRefused
  <2>2. PICK b \in {a, "error"} : answer' = [answer EXCEPT ![c] = b]
    BY <2>1, Returned DEF Answers
  <2>3. pc' = [pc EXCEPT ![c] = "idle"] /\ lost' \in Nat
    BY <2>1, Returned DEF Answers
  <2> QED BY <1>5, <2>2, <2>3, QuietReturn DEF CreateRefused, Answers
<1>6. CASE Get(c)
  BY <1>6, GetInv
<1>7. CASE GetNotFound(c)
  <2>1. PICK a \in {"deleted", "not_found"} : Return(c, a)
    BY <1>7 DEF GetNotFound
  <2>2. PICK b \in {a, "error"} : answer' = [answer EXCEPT ![c] = b]
    BY <2>1, Returned DEF Answers
  <2>3. pc' = [pc EXCEPT ![c] = "idle"] /\ lost' \in Nat
    BY <2>1, Returned DEF Answers
  <2> QED BY <1>7, <2>2, <2>3, QuietReturn DEF GetNotFound, Answers
<1>8. CASE Rename(c)
  BY <1>8, RenameInv
<1>9. CASE RenameTaken(c)
  <2>1. Return(c, "nickname_taken")
    BY <1>9 DEF RenameTaken
  <2>2. PICK b \in {"nickname_taken", "error"} : answer' = [answer EXCEPT ![c] = b]
    BY <2>1, Returned DEF Answers
  <2>3. pc' = [pc EXCEPT ![c] = "idle"] /\ lost' \in Nat
    BY <2>1, Returned DEF Answers
  <2> QED BY <1>9, <2>2, <2>3, QuietReturn DEF RenameTaken, Answers
<1>10. CASE RenameStale(c)
  BY <1>10, StaleInv DEF RenameStale
<1>11. CASE Delete(c)
  BY <1>11, DeleteInv
<1>12. CASE DeleteGone(c)
  <2>1. Return(c, "deleted")
    BY <1>12 DEF DeleteGone
  <2>2. PICK b \in {"deleted", "error"} : answer' = [answer EXCEPT ![c] = b]
    BY <2>1, Returned DEF Answers
  <2>3. pc' = [pc EXCEPT ![c] = "idle"] /\ lost' \in Nat
    BY <2>1, Returned DEF Answers
  <2> QED BY <1>12, <2>2, <2>3, QuietReturn DEF DeleteGone, Answers
<1>13. CASE DeleteStale(c)
  BY <1>13, StaleInv DEF DeleteStale
<1>14. CASE LookupResolve(c)
  <2>0. /\ pc[c] = "resolve"
        /\ UNCHANGED <<registry, req, stale, calls, writes, begun, readAt, removed>>
    BY <1>14 DEF LookupResolve
  <2>a. readAt' \in [Clients -> Nat] /\ \A d \in Clients \ {c} : readAt'[d] = readAt[d]
    BY <2>0 DEF StateType
  <2> DEFINE id == nick[Lower[req[c].display]]
  <2>1. id \in Owners
    BY <2>0, RequestFields DEF RequestInv, StateType
  <2>2. CASE id = None
    <3>1. Return(c, "not_found") /\ UNCHANGED snap
      BY <1>14, <2>2 DEF LookupResolve
    <3>2. PICK b \in {"not_found", "error"} : answer' = [answer EXCEPT ![c] = b]
      BY <3>1, Returned DEF Answers
    <3>3. pc' = [pc EXCEPT ![c] = "idle"] /\ lost' \in Nat
      BY <3>1, Returned DEF Answers
    <3> HIDE DEF id
    <3>4. /\ snap' \in [Clients -> Records \cup Ids] /\ pc' \in [Clients -> Steps]
          /\ answer' \in [Clients -> Answers]
          /\ pc'[c] = "idle" /\ answer'[c] # "contention"
      BY <3>1, <3>2, <3>3 DEF StateType, Steps, Answers
    <3>5. \A d \in Clients \ {c} : pc'[d] = pc[d] /\ answer'[d] = answer[d] /\ snap'[d] = snap[d]
      BY <3>1, <3>2, <3>3 DEF StateType
    <3> QED BY <2>0, <2>a, <3>3, <3>4, <3>5, LookupInv
  <2>3. CASE id # None
    <3>1. snap' = [snap EXCEPT ![c] = id] /\ pc' = [pc EXCEPT ![c] = "fetch"] /\ UNCHANGED <<answer, lost>>
      BY <1>14, <2>3 DEF LookupResolve
    <3>2. id \in Ids
      BY <2>1, <2>3 DEF Owners
    <3> HIDE DEF id
    <3>3. snap' \in [Clients -> Records \cup Ids] /\ pc' \in [Clients -> Steps] /\ pc'[c] = "fetch" /\ snap'[c] \in Ids
      BY <3>1, <3>2 DEF StateType, Steps
    <3>4. answer' \in [Clients -> Answers] /\ lost' \in Nat
      BY <3>1 DEF StateType
    <3>5. \A d \in Clients \ {c} : pc'[d] = pc[d] /\ answer'[d] = answer[d] /\ snap'[d] = snap[d]
      BY <3>1 DEF StateType
    <3> QED BY <2>0, <2>a, <3>1, <3>3, <3>4, <3>5, LookupInv
  <2> QED BY <2>2, <2>3
<1>15. CASE LookupFetch(c)
  <2>0. /\ pc[c] = "fetch" /\ snap' = [snap EXCEPT ![c] = user[snap[c]]]
        /\ UNCHANGED <<registry, req, stale, calls, writes, begun, readAt, removed>>
    BY <1>15 DEF LookupFetch
  <2>1. PICK a \in {"found", "not_found"} : Return(c, a)
    BY <1>15 DEF LookupFetch
  <2>2. PICK b \in {a, "error"} : answer' = [answer EXCEPT ![c] = b]
    BY <2>1, Returned DEF Answers
  <2>3. pc' = [pc EXCEPT ![c] = "idle"] /\ lost' \in Nat
    BY <2>1, Returned DEF Answers
  <2>4. user[snap[c]] \in Records
    BY <2>0 DEF RequestInv, StateType
  <2>5. snap' \in [Clients -> Records \cup Ids] /\ pc' \in [Clients -> Steps] /\ answer' \in [Clients -> Answers]
    BY <2>0, <2>2, <2>3, <2>4 DEF StateType, Steps, Answers
  <2>6. \A d \in Clients \ {c} : pc'[d] = pc[d] /\ answer'[d] = answer[d] /\ snap'[d] = snap[d]
    BY <2>0, <2>2, <2>3 DEF StateType
  <2>7. pc[c] \in {"resolve", "fetch"} /\ pc'[c] = "idle" /\ answer'[c] # "contention"
    BY <2>0, <2>2, <2>3 DEF StateType
  <2>8. /\ UNCHANGED <<registry, req, stale, calls, writes, begun, removed>> /\ lost' \in Nat
        /\ readAt' \in [Clients -> Nat] /\ \A d \in Clients \ {c} : readAt'[d] = readAt[d]
    BY <2>0, <2>3 DEF StateType
  <2> QED BY <2>5, <2>6, <2>7, <2>8, LookupInv
<1> QED
  BY <1>1, <1>2, <1>3, <1>4, <1>5, <1>6, <1>7, <1>8, <1>9, <1>10, <1>11, <1>12, <1>13, <1>14, <1>15
     DEF Step

LEMMA NextInv == IInv /\ [Next]_vars => IInv'
<1> SUFFICES ASSUME IInv, [Next]_vars PROVE IInv'
  OBVIOUS
<1>1. CASE Next
  BY <1>1, StepInv DEF Next
<1>2. CASE UNCHANGED vars
  BY <1>2 DEF vars, IInv, StateType, RequestInv, Refused, RegistryConsistent, ReadInv, ContentionIsReal, MintedInv
<1> QED BY <1>1, <1>2

THEOREM Invariance == Spec => []IInv
  BY InitInv, NextInv, PTL DEF Spec

\* Records, display names and nickname claims always agree, whatever runs together.
THEOREM RegistryIsConsistent == Spec => []RegistryConsistent
<1>1. IInv => RegistryConsistent
  BY DEF IInv
<1> QED BY <1>1, Invariance, PTL

\* ErrRenameContention and ErrDeleteContention mean MaxAttempts changes by others.
THEOREM ContentionIsCaused == Spec => []ContentionIsReal
<1>1. IInv => ContentionIsReal
  BY DEF IInv
<1> QED BY <1>1, Invariance, PTL

\* What a lookup carries between its reads: the holder of the nickname, unless the
\* nickname has been given up since; at every instant of the call its holder is recorded.
ResolvedInv ==
  \A c \in Clients :
    /\ pc[c] = "fetch" => req[c].op = "lookup"
    /\ Looking(c) => Holder(c) \in held[c]
    /\ pc[c] = "fetch" =>
         nick[Lower[req[c].display]] = snap[c] \/ <<None, None>> \in held[c]

LookupsInv == held \in [Clients -> SUBSET (Owners \X Records)] /\ ResolvedInv /\ LookupHeldDuringCall

\* What a lookup in progress asks for is a nickname, and what it records is a pair.
LEMMA HolderType ==
  ASSUME IInv, ResolvedInv, NEW c \in Clients, Looking(c)
  PROVE  /\ req[c] \in Requests /\ req[c].op = "lookup" /\ Lower[req[c].display] \in Lowers
         /\ Holder(c) \in Owners \X Records
<1>1. req[c] \in Requests /\ ~Refused(req[c]) /\ req[c].op = "lookup"
  BY DEF IInv, RequestInv, ResolvedInv, Looking
<1>2. Lower[req[c].display] \in Lowers
  BY <1>1, RequestFields
<1>3. Holder(c) \in Owners \X Records
  BY <1>2 DEF Holder, IInv, StateType, Owners, Records
<1> QED BY <1>1, <1>2, <1>3

\* A nickname that changes hands is free in between: the step that takes it from its
\* player leaves it unclaimed.
LEMMA ClaimGivenUp ==
  ASSUME IInv, NEW c \in Clients, Step(c), NEW l \in Lowers, nick[l] # None
  PROVE  nick'[l] = nick[l] \/ nick'[l] = None
<1> USE DEF IInv
<1>1. CASE Create(c)
  BY <1>1 DEF Create, StateType
<1>2. CASE Rename(c)
  BY <1>2 DEF Rename, Reclaim, Owns
<1>3. CASE Delete(c)
  BY <1>3 DEF Delete, StateType
<1>4. CASE ~(Create(c) \/ Rename(c) \/ Delete(c))
  BY <1>4 DEF Step, Begin, Replay, Call, CommandFails, CreateRefused, Get, GetNotFound,
              RenameTaken, RenameStale, Stale, DeleteGone, DeleteStale, LookupResolve,
              LookupFetch, registry
<1> QED BY <1>1, <1>2, <1>3, <1>4

\* A call that is not the step's own is where it was.
LEMMA OthersStay ==
  ASSUME IInv, NEW c \in Clients, Step(c), NEW d \in Clients, d # c
  PROVE  /\ pc'[d] = pc[d] /\ req'[d] = req[d] /\ snap'[d] = snap[d]
         /\ answer'[d] = answer[d] /\ calls'[d] = calls[d]
  BY DEF IInv, StateType, Step, Begin, Replay, Call, CommandFails, Create, CreateRefused,
         Get, GetNotFound, Rename, RenameTaken, RenameStale, Stale, Delete, DeleteGone,
         DeleteStale, LookupResolve, LookupFetch, Return

\* A lookup that is under way and is not answered by this step still carries what it did.
LEMMA LookupGoesOn ==
  ASSUME IInv, ResolvedInv, NEW c \in Clients, Step(c), NEW d \in Clients, pc[d] = "fetch",
         req'[d] = req[d], snap'[d] = snap[d],
         held'[d] = held[d] \cup {Holder(d)'}
  PROVE  nick'[Lower[req'[d].display]] = snap'[d] \/ <<None, None>> \in held'[d]
<1> DEFINE l == Lower[req[d].display]
<1>1. l \in Lowers /\ snap[d] \in Ids /\ snap[d] # None
  BY HolderType, Distinct DEF Looking, IInv, RequestInv
<1>2. nick[l] = snap[d] \/ <<None, None>> \in held[d]
  BY DEF ResolvedInv
<1>3. CASE nick[l] = snap[d]
  <2>1. nick'[l] = snap[d] \/ nick'[l] = None
    BY <1>1, <1>3, ClaimGivenUp
  <2>2. nick'[l] = None => Holder(d)' = <<None, None>>
    BY DEF Holder
  <2> QED BY <2>1, <2>2
<1> QED BY <1>2, <1>3

\* The answer of a lookup's second read is explained by what held the nickname.
LEMMA FetchAnswer ==
  ASSUME IInv, ResolvedInv, NEW c \in Clients, LookupFetch(c),
         held[c] \subseteq held'[c]
  PROVE  LookupHeldDuringCall!(c)'
<1> USE DEF IInv
<1> DEFINE l == Lower[req[c].display]
<1>1. /\ pc[c] = "fetch" /\ req' = req /\ snap' = [snap EXCEPT ![c] = user[snap[c]]]
  BY DEF LookupFetch
<1>2. /\ l \in Lowers /\ snap[c] \in Ids /\ snap[c] # None /\ Holder(c) \in held[c]
      /\ nick[l] = snap[c] \/ <<None, None>> \in held[c]
  BY <1>1, HolderType, Distinct DEF Looking, RequestInv, ResolvedInv
<1>3. answer'[c] \in {"error", IF user[snap[c]] = None THEN "not_found" ELSE "found"}
  BY DEF LookupFetch, Return, StateType
<1>4. snap'[c] = user[snap[c]] /\ req'[c] = req[c]
  BY <1>1 DEF StateType
<1>5. CASE nick[l] = snap[c]
  <2>1. user[snap[c]] # None
    BY <1>2, <1>5 DEF RegistryConsistent
  <2>2. Holder(c) = <<snap[c], snap'[c]>>
    BY <1>2, <1>4, <1>5 DEF Holder
  <2> HIDE DEF l
  <2> QED BY <1>2, <1>3, <2>1, <2>2
<1>6. CASE nick[l] # snap[c]
  <2>1. <<None, None>> \in held'[c]
    BY <1>2, <1>6
  <2>2. user[snap[c]] # None => Lower[snap'[c].nickname] # l
    BY <1>2, <1>4, <1>6 DEF RegistryConsistent
  <2> QED BY <1>3, <1>4, <2>1, <2>2
<1> QED BY <1>5, <1>6

\* A lookup reaches its second read from its first, or is waiting there.
LEMMA ReachesFetch ==
  ASSUME IInv, NEW c \in Clients, Step(c), NEW d \in Clients, pc'[d] = "fetch"
  PROVE  \/ pc[d] = "fetch" /\ req'[d] = req[d] /\ snap'[d] = snap[d]
         \/ d = c /\ LookupResolve(c)
<1>1. CASE d # c
  BY <1>1, OthersStay
<1>2. CASE d = c
  BY <1>2 DEF IInv, StateType, Step, Begin, Replay, Call, FirstStep, CommandFails, Create, CreateRefused,
         Get, GetNotFound, Rename, RenameTaken, RenameStale, Stale, Delete, DeleteGone,
         DeleteStale, LookupFetch, Return
<1> QED BY <1>1, <1>2

\* The first read: it resolves the nickname to its holder, or the nickname is free.
LEMMA ResolveAnswer ==
  ASSUME IInv, ResolvedInv, NEW c \in Clients, LookupResolve(c), held[c] \subseteq held'[c]
  PROVE  /\ req' = req /\ nick' = nick /\ req[c].op = "lookup"
         /\ pc'[c] = "fetch" => nick[Lower[req[c].display]] = snap'[c]
         /\ LookupHeldDuringCall!(c)'
<1> USE DEF IInv
<1> DEFINE l == Lower[req[c].display]
<1>1. /\ pc[c] = "resolve" /\ req' = req /\ nick' = nick
  BY DEF LookupResolve, registry
<1>2. req[c].op = "lookup" /\ Holder(c) \in held[c]
  BY <1>1 DEF RequestInv, ResolvedInv, Looking
<1>3. CASE nick[l] = None
  <2>1. pc'[c] = "idle" /\ answer'[c] \in {"error", "not_found"}
    BY <1>3 DEF LookupResolve, Return, StateType
  <2>2. Holder(c) = <<None, None>>
    BY <1>3 DEF Holder
  <2> QED BY <1>1, <1>2, <2>1, <2>2
<1>4. CASE nick[l] # None
  <2>1. pc'[c] = "fetch" /\ snap'[c] = nick[l]
    BY <1>4 DEF LookupResolve, StateType
  <2> QED BY <1>1, <1>2, <2>1
<1> QED BY <1>3, <1>4

\* No other step of a call answers a lookup.
LEMMA OtherAnswers ==
  ASSUME IInv, NEW c \in Clients, Step(c), ~LookupResolve(c), ~LookupFetch(c),
         pc'[c] = "idle", answer'[c] \in {"found", "not_found"}
  PROVE  req'[c].op # "lookup"
<1> USE DEF IInv
<1>1. CASE Begin(c) \/ Replay(c)
  BY <1>1 DEF Begin, Replay, Call, StateType
<1>2. CASE CommandFails(c)
  BY <1>2 DEF CommandFails, StateType
<1>3. CASE ~(Begin(c) \/ Replay(c) \/ CommandFails(c))
  <2>1. pc[c] \in {"script", "get"} /\ req' = req
    BY <1>3 DEF Step, Create, CreateRefused, Get, GetNotFound, Rename, RenameTaken, RenameStale,
                Stale, Delete, DeleteGone, DeleteStale
  <2> QED BY <2>1 DEF RequestInv
<1> QED BY <1>1, <1>2, <1>3

\* What a lookup records after a step is again a pair.
LEMMA HolderNext ==
  ASSUME IInv, IInv', ResolvedInv, NEW c \in Clients, Step(c), NEW d \in Clients,
         Looking(d) \/ Looking(d)', ResolvedInv'
  PROVE  Holder(d)' \in Owners \X Records
<1> USE DEF IInv
<1>1. Lower[req'[d].display] \in Lowers
  <2>1. CASE Looking(d) /\ req'[d] = req[d]
    BY <2>1, HolderType
  <2>2. CASE Looking(d)'
    <3>1. req'[d] \in Requests /\ ~Refused(req'[d]) /\ req'[d].op = "lookup"
      BY <2>2 DEF RequestInv, ResolvedInv, Looking
    <3> QED BY <3>1, RequestFields
  <2>3. CASE Looking(d) /\ d = c
    <3>1. CASE LookupResolve(c) \/ LookupFetch(c) \/ CommandFails(c)
      BY <2>1, <2>3, <3>1 DEF LookupResolve, LookupFetch, CommandFails
    <3> QED
      BY <2>3, <3>1 DEF Looking, Step, Begin, Replay, Create, CreateRefused, Get, GetNotFound,
             Rename, RenameTaken, RenameStale, Delete, DeleteGone, DeleteStale
  <2> QED BY <2>1, <2>2, <2>3, OthersStay
<1> QED BY <1>1 DEF Holder, StateType, Owners, Records

LEMMA LookupsStep ==
  ASSUME IInv, IInv', LookupsInv, NEW c \in Clients, Step(c), Observe
  PROVE  LookupsInv'
<1> DEFINE Pair == Owners \X Records
<1>0. ResolvedInv /\ LookupHeldDuringCall /\ held \in [Clients -> SUBSET Pair]
  BY DEF LookupsInv
<1>1. \A d \in Clients :
        /\ Looking(d) => held'[d] = held[d] \cup {Holder(d)'}
        /\ ~Looking(d) /\ Looking(d)' => held'[d] = {Holder(d)'}
        /\ ~Looking(d) /\ ~Looking(d)' /\ calls'[d] = calls[d] => held'[d] = held[d]
        /\ ~Looking(d) /\ ~Looking(d)' /\ calls'[d] # calls[d] => held'[d] = {}
  BY DEF Observe
<1>2. LookupResolve(c) \/ LookupFetch(c) => held[c] \subseteq held'[c]
  BY <1>1 DEF LookupResolve, LookupFetch, Looking
<1>3. ResolvedInv'
  <2> SUFFICES ASSUME NEW d \in Clients PROVE ResolvedInv!(d)'
    BY DEF ResolvedInv
  <2>1. Looking(d)' => Holder(d)' \in held'[d]
    BY <1>1
  <2>2. CASE pc'[d] = "fetch" /\ pc[d] = "fetch" /\ req'[d] = req[d] /\ snap'[d] = snap[d]
    <3>1. held'[d] = held[d] \cup {Holder(d)'}
      BY <1>1, <2>2 DEF Looking
    <3>2. nick'[Lower[req'[d].display]] = snap'[d] \/ <<None, None>> \in held'[d]
      BY <1>0, <2>2, <3>1, LookupGoesOn
    <3>3. req'[d].op = "lookup"
      BY <1>0, <2>2 DEF ResolvedInv
    <3> QED BY <2>1, <3>2, <3>3
  <2>3. CASE pc'[d] = "fetch" /\ d = c /\ LookupResolve(c)
    <3>1. /\ req' = req /\ nick' = nick /\ req[c].op = "lookup"
          /\ nick[Lower[req[c].display]] = snap'[c]
      BY <1>0, <1>2, <2>3, ResolveAnswer
    <3> QED BY <2>1, <2>3, <3>1
  <2>4. CASE pc'[d] # "fetch"
    BY <2>1, <2>4
  <2> QED BY <2>2, <2>3, <2>4, ReachesFetch
<1>4. held' \in [Clients -> SUBSET Pair]
  <2>1. \A d \in Clients : held'[d] \in SUBSET Pair
    BY <1>0, <1>1, <1>3, HolderNext
  <2> QED BY <2>1 DEF Observe
<1>5. LookupHeldDuringCall'
  <2> SUFFICES ASSUME NEW d \in Clients PROVE LookupHeldDuringCall!(d)'
    BY DEF LookupHeldDuringCall
  <2>1. CASE d # c
    <3>1. CASE pc'[d] = "idle"
      <4>1. /\ pc[d] = "idle" /\ req'[d] = req[d] /\ snap'[d] = snap[d]
            /\ answer'[d] = answer[d] /\ calls'[d] = calls[d]
        BY <2>1, <3>1, OthersStay
      <4>2. held'[d] = held[d]
        BY <1>1, <3>1, <4>1 DEF Looking
      <4> QED BY <1>0, <4>1, <4>2 DEF LookupHeldDuringCall
    <3> QED BY <3>1
  <2>2. CASE d = c /\ LookupResolve(c)
    BY <1>0, <1>2, <2>2, ResolveAnswer
  <2>3. CASE d = c /\ LookupFetch(c)
    BY <1>0, <1>2, <2>3, FetchAnswer
  <2>4. CASE d = c /\ ~LookupResolve(c) /\ ~LookupFetch(c)
    BY <2>4, OtherAnswers
  <2> QED BY <2>1, <2>2, <2>3, <2>4
<1> QED BY <1>3, <1>4, <1>5 DEF LookupsInv

\* Together with what lookups carry, the invariant holds in every reachable state.
THEOREM LookupsInvariance == Spec => []LookupsInv
<1>1. Init => LookupsInv
  BY DEF Init, LookupsInv, ResolvedInv, LookupHeldDuringCall, Looking
<1>2. IInv /\ IInv' /\ LookupsInv /\ [Next]_vars => LookupsInv'
  <2> SUFFICES ASSUME IInv, IInv', LookupsInv, [Next]_vars PROVE LookupsInv'
    OBVIOUS
  <2>1. CASE Next
    BY <2>1, LookupsStep DEF Next
  <2>2. CASE UNCHANGED vars
    BY <2>2 DEF vars, LookupsInv, ResolvedInv, LookupHeldDuringCall, Looking, Holder
  <2> QED BY <2>1, <2>2
<1> QED BY <1>1, <1>2, Invariance, PTL DEF Spec

\* The registry keeps its shape, and stores no nickname normalizeNickname refuses.
THEOREM RegistryTypes == Spec => []TypeOK
<1>1. IInv /\ LookupsInv => TypeOK
  BY DEF IInv, LookupsInv, TypeOK
<1> QED BY <1>1, Invariance, LookupsInvariance, PTL

\* What GetByNickname answers was so at some instant of the call, or the nickname
\* was given up between its two reads.
THEOREM LookupsHeldDuringCall == Spec => []LookupHeldDuringCall
<1>1. LookupsInv => LookupHeldDuringCall
  BY DEF LookupsInv
<1> QED BY <1>1, LookupsInvariance, PTL

\* A replayed delete of a minted id removes nothing more.
THEOREM MintedDeletesAreIdempotent == Spec => ReplayedMintedDeleteIsHarmless
<1>1. IInv /\ [Next]_vars
      => [\A c \in Clients : Removes(c) /\ req[c].id \in MintedIds => c \notin removed]_vars
  BY DEF IInv, MintedInv, Removes
<1> QED BY <1>1, Invariance, PTL DEF Spec, ReplayedMintedDeleteIsHarmless
=============================================================================
