---------------------------- MODULE PlayersProofs ----------------------------
(***************************************************************************)
(* Proofs about Players, for any sets of members, tokens and requests.     *)
(***************************************************************************)
EXTENDS Players, FiniteSetTheorems, TLAPS

\* A request inside Authorize carries a token and, a minted id once it is named,
\* has been drawn.
TokenInv ==
    \A p \in Requests : calls[p] # None =>
        /\ calls[p].at # "act" => calls[p].token \in Tokens /\ calls[p].id \in Ids
        /\ calls[p].op # "mint" => calls[p].id \in Ids
        /\ calls[p].id \in Minted => calls[p].id \in drawn

\* Request p is about to bind player i, which it has minted.
Binding(p, i) == At(p, "bind") /\ calls[p].op = "mint" /\ calls[p].id = i

\* A minted player is unbound until its creator or another request binds it, and no
\* two requests bind a player they have minted.
MintInv ==
    /\ \A i \in Minted : bound[i] # None => i \in drawn
    /\ \A p \in Requests, i \in Ids : Binding(p, i) =>
        /\ i \in drawn
        /\ i \notin cut
        /\ creator[i] = calls[p].token
        /\ bound[i] # None => i \in early
    /\ \A p, q \in Requests, i \in Ids : Binding(p, i) /\ Binding(q, i) => p = q

IInv == TypeOK /\ TokenInv /\ OneTokenPerMember /\ MintInv /\ MintedIsCreators

-----------------------------------------------------------------------------
\* What a request in progress holds.
LEMMA CallFields ==
    ASSUME TypeOK, NEW p \in Requests, calls[p] # None
    PROVE  /\ calls[p] \in CallType
           /\ calls[p].op \in {"claim", "mint", "rename", "write", "delete"}
           /\ calls[p].at \in {"bind", "incr", "compare", "act"}
           /\ calls[p].id \in Ids \cup {None}
           /\ calls[p].token \in Tokens \cup {None}
           /\ calls[p].nick \in Nicks \cup {None}
  BY DEF TypeOK, CallType

LEMMA InitInv == Init => IInv
<1> SUFFICES ASSUME Init PROVE IInv
  OBVIOUS
<1>1. TypeOK
  BY FiniteAssumption DEF Init, TypeOK
<1>2. TokenInv /\ OneTokenPerMember
  BY DEF Init, TokenInv, OneTokenPerMember
<1>3. MintInv /\ MintedIsCreators
  BY DEF Init, MintInv, MintedIsCreators, Binding, At, Ids
<1> QED
  BY <1>1, <1>2, <1>3 DEF IInv

\* A request enters: nothing but its call changes.
LEMMA EnterInv ==
    ASSUME IInv, NEW p \in Requests, NEW c \in CallType, Enter(p, c),
           c.at # "act" => c.token \in Tokens /\ c.id \in Ids,
           c.at = "act" \/ c.op # "mint",
           c.op # "mint" => c.id \in Ids,
           c.id \in Minted => c.id \in drawn,
           UNCHANGED <<registered, bound, count, require, historyVars>>
    PROVE  IInv'
<1> USE DEF IInv, historyVars
<1>0. c # None /\ calls' = [calls EXCEPT ![p] = c] /\ calls[p] = None
      /\ calls' \in [Requests -> CallType \cup {None}] /\ made' \in 0..MaxCalls
  BY NoneAssumption, FiniteAssumption DEF Enter, TypeOK
<1>1. TypeOK'
  BY <1>0, IdAssumption DEF TypeOK, Doing, At, CallType
<1>2. TokenInv'
  BY <1>0 DEF TokenInv, TypeOK
<1>3. OneTokenPerMember'
  BY DEF OneTokenPerMember
<1>4. MintInv'
  BY <1>0 DEF MintInv, Binding, At, TypeOK
<1>5. MintedIsCreators'
  BY <1>0 DEF MintedIsCreators, At, TypeOK
<1> QED
  BY <1>1, <1>2, <1>3, <1>4, <1>5

\* A request at its last command returns, having changed the registry at most.
LEMMA ReturnInv ==
    ASSUME IInv, NEW p \in Requests, At(p, "act"), Return(p),
           registered' \in [Ids -> Nicks \cup {None}],
           UNCHANGED <<bound, count, require, historyVars>>
    PROVE  IInv'
<1> USE DEF IInv, historyVars
<1>0. calls' = [calls EXCEPT ![p] = None] /\ made' = made
      /\ calls' \in [Requests -> CallType \cup {None}]
  BY DEF Return, Step, TypeOK
<1>1. TypeOK'
  BY <1>0 DEF TypeOK, Doing, At
<1>2. TokenInv'
  BY <1>0 DEF TokenInv, TypeOK
<1>3. OneTokenPerMember'
  BY DEF OneTokenPerMember
<1>4. MintInv'
  BY <1>0 DEF MintInv, Binding, At, TypeOK
<1>5. MintedIsCreators'
  BY <1>0 DEF MintedIsCreators, At, TypeOK
<1> QED
  BY <1>1, <1>2, <1>3, <1>4, <1>5

\* A new player: its creator is the only request that is about to bind it.
LEMMA MintStep ==
    ASSUME IInv, NEW p \in Requests, NEW i \in Minted, Mint(p, i)
    PROVE  IInv'
<1> USE DEF IInv
<1> DEFINE t == calls[p].token
           c == [calls[p] EXCEPT !.at = "bind", !.id = i]
<1>0. /\ calls[p] \in CallType /\ calls[p].op = "mint" /\ calls[p].at = "act"
      /\ calls[p] # None /\ i \in Ids /\ i \notin drawn /\ i # None
      /\ t \in Tokens \cup {None} /\ calls[p].nick \in Nicks \cup {None}
  BY CallFields, IdAssumption DEF Mint, Doing, At, Ids
<1>1. /\ c \in CallType /\ c # None /\ c.op = "mint" /\ c.at = "bind" /\ c.id = i /\ c.token = t
  BY <1>0, NoneAssumption DEF CallType
<1>2. calls' = [calls EXCEPT ![p] = IF t = None THEN None ELSE c] /\ made' = made
  BY DEF Mint, Return, Step
<1>3. /\ calls' \in [Requests -> CallType \cup {None}]
      /\ calls'[p] = IF t = None THEN None ELSE c
      /\ \A q \in Requests : q # p => calls'[q] = calls[q]
  BY <1>1, <1>2 DEF TypeOK
<1>4. /\ drawn' = drawn \cup {i} /\ creator' = [creator EXCEPT ![i] = t]
      /\ registered' = [registered EXCEPT ![i] = calls[p].nick]
      /\ UNCHANGED <<bound, count, require, accepted, uncounted, early, cut>>
  BY DEF Mint
<1>5. TypeOK'
  BY <1>0, <1>1, <1>2, <1>3, <1>4 DEF TypeOK, Doing, At
<1>6. TokenInv'
  BY <1>0, <1>1, <1>3, <1>4 DEF TokenInv
<1>7. OneTokenPerMember'
  BY <1>4 DEF OneTokenPerMember
<1>8. \A q \in Requests : Binding(q, i)' => q = p
  BY <1>0, <1>3 DEF MintInv, Binding, At
<1>9. MintInv'
  <2>1. bound[i] = None
    BY <1>0 DEF MintInv
  <2>2. i \notin cut
    BY <1>0 DEF TypeOK
  <2>3. \A q \in Requests, j \in Ids : Binding(q, j)' => Binding(q, j) \/ (q = p /\ j = i /\ t # None)
    BY <1>1, <1>3 DEF Binding, At
  <2>4. \A q \in Requests, j \in Ids : Binding(q, j) => q # p /\ j # i
    BY <1>0 DEF MintInv, Binding, At
  <2>5. creator'[i] = t /\ \A j \in Ids : j # i => creator'[j] = creator[j]
    BY <1>0, <1>4 DEF TypeOK
  <2>6. ASSUME NEW q \in Requests, NEW j \in Ids, Binding(q, j)'
        PROVE  j \in drawn' /\ j \notin cut' /\ creator'[j] = calls'[q].token /\ (bound'[j] # None => j \in early')
    <3>1. CASE q = p /\ j = i /\ t # None
      BY <3>1, <1>1, <1>3, <1>4, <2>1, <2>2, <2>5
    <3>2. CASE Binding(q, j)
      <4>1. q # p /\ j # i
        BY <3>2, <2>4
      <4> QED BY <4>1, <3>2, <1>3, <1>4, <2>5 DEF MintInv
    <3> QED BY <3>1, <3>2, <2>3, <2>6
  <2>7. \A j \in Minted : bound'[j] # None => j \in drawn'
    BY <1>4 DEF MintInv
  <2>8. \A q, r \in Requests, j \in Ids : Binding(q, j)' /\ Binding(r, j)' => q = r
    BY <2>3, <2>4 DEF MintInv
  <2> QED
    BY <2>6, <2>7, <2>8 DEF MintInv
<1>10. MintedIsCreators'
  <2> SUFFICES ASSUME NEW j \in drawn', creator'[j] # None
               PROVE  \/ bound'[j] = creator'[j]
                      \/ j \in early' \cup cut'
                      \/ \E q \in Requests : At(q, "bind")' /\ calls'[q].op = "mint" /\ calls'[q].id = j
    BY DEF MintedIsCreators
  <2>1. CASE j = i
    <3>1. t # None
      BY <2>1, <1>0, <1>4 DEF TypeOK
    <3> QED BY <3>1, <2>1, <1>1, <1>3 DEF At
  <2>2. CASE j # i
    <3>1. j \in drawn /\ creator'[j] = creator[j]
      BY <2>2, <1>4 DEF TypeOK, Ids
    <3> QED BY <3>1, <1>0, <1>3, <1>4 DEF MintedIsCreators, At
  <2> QED BY <2>1, <2>2
<1> QED
  BY <1>5, <1>6, <1>7, <1>9, <1>10

\* SETNX: the first token is bound and let through, a later one has to compare.
LEMMA BindStep ==
    ASSUME IInv, NEW p \in Requests, Bind(p)
    PROVE  IInv'
<1> USE DEF IInv
<1> DEFINE i == calls[p].id
           t == calls[p].token
<1>0. /\ calls[p] \in CallType /\ calls[p].at = "bind" /\ calls[p] # None
      /\ i \in Ids /\ t \in Tokens /\ i # None /\ t # None
      /\ i \in Minted => i \in drawn
  BY CallFields, IdAssumption, NoneAssumption DEF Bind, At, TokenInv
<1>1. UNCHANGED <<registered, count, require, uncounted, creator, drawn, cut>>
  BY DEF Bind
<1>2. CASE bound[i] = None
  <2> DEFINE c == [calls[p] EXCEPT !.at = "incr"]
  <2>1. c \in CallType /\ c # None /\ c.at = "incr" /\ c.id = i /\ c.token = t /\ c.op = calls[p].op
    BY <1>0, NoneAssumption DEF CallType
  <2>2. /\ bound' = [bound EXCEPT ![i] = t]
        /\ early' = IF i \in Minted /\ calls[p].op # "mint" /\ i \notin cut THEN early \cup {i} ELSE early
        /\ accepted' = [accepted EXCEPT ![i] = @ \cup {t}]
        /\ calls' = [calls EXCEPT ![p] = c] /\ made' = made
    BY <1>2 DEF Bind, Accept, Goto, Step
  <2>3. /\ calls' \in [Requests -> CallType \cup {None}] /\ calls'[p] = c
        /\ \A q \in Requests : q # p => calls'[q] = calls[q]
    BY <2>1, <2>2 DEF TypeOK
  <2>4. accepted[i] = {}
    BY <1>0, <1>2, NoneAssumption DEF OneTokenPerMember, TypeOK
  <2>5. TypeOK'
    BY <1>0, <1>1, <2>1, <2>2, <2>3 DEF TypeOK, Doing, At
  <2>6. TokenInv'
    BY <1>0, <1>1, <2>1, <2>3 DEF TokenInv
  <2>7. OneTokenPerMember'
    BY <1>0, <2>2, <2>4 DEF OneTokenPerMember, TypeOK
  <2>8. \A q \in Requests, j \in Ids : Binding(q, j)' => Binding(q, j) /\ q # p /\ calls'[q] = calls[q]
    BY <2>1, <2>3 DEF Binding, At
  <2>9. MintInv'
    <3>1. \A j \in Minted : bound'[j] # None => j \in drawn'
      BY <1>0, <1>1, <2>2 DEF MintInv, TypeOK, Ids
    <3>2. ASSUME NEW q \in Requests, NEW j \in Ids, Binding(q, j)'
          PROVE  j \in drawn' /\ j \notin cut' /\ creator'[j] = calls'[q].token /\ (bound'[j] # None => j \in early')
      <4>1. Binding(q, j) /\ q # p /\ calls'[q] = calls[q]
        BY <2>8, <3>2
      <4>2. j \in drawn /\ j \notin cut /\ creator[j] = calls[q].token /\ (bound[j] # None => j \in early)
        BY <4>1 DEF MintInv
      <4>3. CASE j = i
        <5>1. calls[p].op # "mint"
          BY <4>1, <4>3, <1>0 DEF MintInv, Binding, At
        <5>2. j \in early'
          BY <5>1, <4>2, <4>3, <2>2 DEF TypeOK
        <5> QED BY <5>2, <4>1, <4>2, <1>1
      <4>4. CASE j # i
        BY <4>4, <4>1, <4>2, <1>1, <2>2, <1>0 DEF TypeOK
      <4> QED BY <4>3, <4>4
    <3> QED
      BY <3>1, <3>2, <2>8 DEF MintInv
  <2>10. MintedIsCreators'
    <3> SUFFICES ASSUME NEW j \in drawn, creator[j] # None
                 PROVE  \/ bound'[j] = creator[j]
                        \/ j \in early' \cup cut
                        \/ \E q \in Requests : At(q, "bind")' /\ calls'[q].op = "mint" /\ calls'[q].id = j
      BY <1>1 DEF MintedIsCreators
    <3>1. CASE j = i
      <4>1. CASE calls[p].op = "mint"
        <5>1. creator[i] = t
          BY <4>1, <1>0 DEF MintInv, Binding, At
        <5> QED BY <5>1, <3>1, <2>2, <1>0 DEF TypeOK
      <4>2. CASE calls[p].op # "mint"
        BY <4>2, <3>1, <2>2 DEF TypeOK
      <4> QED BY <4>1, <4>2
    <3>2. CASE j # i
      BY <3>2, <1>0, <2>2, <2>3 DEF MintedIsCreators, At, TypeOK, Ids
    <3> QED BY <3>1, <3>2
  <2> QED
    BY <2>5, <2>6, <2>7, <2>9, <2>10
<1>3. CASE bound[i] # None
  <2> DEFINE c == [calls[p] EXCEPT !.at = "compare"]
  <2>1. c \in CallType /\ c # None /\ c.at = "compare" /\ c.id = i /\ c.token = t /\ c.op = calls[p].op
    BY <1>0, NoneAssumption DEF CallType
  <2>2. /\ UNCHANGED <<bound, accepted, early>>
        /\ calls' = [calls EXCEPT ![p] = c] /\ made' = made
    BY <1>3 DEF Bind, Goto, Step
  <2>3. /\ calls' \in [Requests -> CallType \cup {None}] /\ calls'[p] = c
        /\ \A q \in Requests : q # p => calls'[q] = calls[q]
    BY <2>1, <2>2 DEF TypeOK
  <2>5. TypeOK'
    BY <1>0, <1>1, <2>1, <2>2, <2>3 DEF TypeOK, Doing, At
  <2>6. TokenInv'
    BY <1>0, <1>1, <2>1, <2>3 DEF TokenInv
  <2>7. OneTokenPerMember'
    BY <2>2 DEF OneTokenPerMember
  <2>8. \A q \in Requests, j \in Ids : Binding(q, j)' => Binding(q, j) /\ q # p /\ calls'[q] = calls[q]
    BY <2>1, <2>3 DEF Binding, At
  <2>9. MintInv'
    BY <1>1, <2>2, <2>8 DEF MintInv
  <2>10. MintedIsCreators'
    <3>1. calls[p].op = "mint" => i \in early
      BY <1>0, <1>3 DEF MintInv, Binding, At
    <3> QED
      BY <3>1, <1>0, <1>1, <2>2, <2>3 DEF MintedIsCreators, At
  <2> QED
    BY <2>5, <2>6, <2>7, <2>9, <2>10
<1> QED BY <1>2, <1>3

\* Authorize ends, or its request does: no binding changes.
LEMMA DoneStep ==
    ASSUME IInv, NEW p \in Requests,
           calls[p] # None, calls[p].at \in {"incr", "compare"},
           Authorized(p) \/ Return(p),
           accepted' \in [Ids -> SUBSET Tokens], OneTokenPerMember',
           count' \in Nat, uncounted' \in Nat,
           UNCHANGED <<registered, bound, require, creator, drawn, early, cut>>
    PROVE  IInv'
<1> USE DEF IInv
<1> DEFINE c == [calls[p] EXCEPT !.at = "act"]
<1>0. calls[p] \in CallType /\ calls[p].id \in Ids /\ calls[p].id # None
  BY CallFields, IdAssumption DEF TokenInv
<1>1. c \in CallType /\ c # None /\ c.at = "act" /\ c.id = calls[p].id /\ c.token = calls[p].token
      /\ c.op = calls[p].op
  BY <1>0, NoneAssumption DEF CallType
<1>2. PICK d \in {None, c} : calls' = [calls EXCEPT ![p] = d] /\ made' = made
  BY DEF Authorized, Return, Goto, Step
<1>3. /\ calls' \in [Requests -> CallType \cup {None}] /\ calls'[p] = d
      /\ \A q \in Requests : q # p => calls'[q] = calls[q]
  BY <1>1, <1>2 DEF TypeOK
<1>4. TypeOK'
  BY <1>0, <1>1, <1>2, <1>3 DEF TypeOK, Doing, At
<1>5. TokenInv'
  BY <1>0, <1>1, <1>3 DEF TokenInv
<1>6. \A q \in Requests, j \in Ids : Binding(q, j)' => Binding(q, j) /\ calls'[q] = calls[q]
  BY <1>1, <1>3 DEF Binding, At
<1>7. MintInv'
  BY <1>6 DEF MintInv
<1>8. MintedIsCreators'
  BY <1>3 DEF MintedIsCreators, At
<1> QED
  BY <1>4, <1>5, <1>7, <1>8

\* A request that ends while it has a player to bind leaves the player cut.
LEMMA AbandonStep ==
    ASSUME IInv, NEW p \in Requests, Abandon(p)
    PROVE  IInv'
<1> USE DEF IInv
<1>0. /\ calls[p] \in CallType /\ calls[p] # None
      /\ calls[p].at = "bind" => calls[p].id \in Ids
  BY CallFields DEF Abandon, TokenInv
<1>1. /\ calls' = [calls EXCEPT ![p] = None] /\ made' = made
      /\ uncounted' \in Nat
      /\ cut' = IF calls[p].op = "mint" /\ calls[p].at = "bind" THEN cut \cup {calls[p].id} ELSE cut
      /\ UNCHANGED <<registered, bound, count, require, accepted, creator, drawn, early>>
  BY DEF Abandon, Return, Step, TypeOK
<1>2. /\ calls' \in [Requests -> CallType \cup {None}] /\ calls'[p] = None
      /\ \A q \in Requests : q # p => calls'[q] = calls[q]
  BY <1>1 DEF TypeOK
<1>3. calls[p].op = "mint" /\ calls[p].at = "bind" => Binding(p, calls[p].id) /\ calls[p].id \in drawn
  BY <1>0 DEF MintInv, Binding, At
<1>4. TypeOK'
  BY <1>1, <1>2, <1>3 DEF TypeOK, Doing, At
<1>5. TokenInv'
  BY <1>1, <1>2 DEF TokenInv
<1>6. OneTokenPerMember'
  BY <1>1 DEF OneTokenPerMember
<1>7. \A q \in Requests, j \in Ids : Binding(q, j)' => Binding(q, j) /\ q # p /\ calls'[q] = calls[q]
  BY <1>2 DEF Binding, At
<1>8. \A q \in Requests, j \in Ids : Binding(q, j)' => j \notin cut'
  BY <1>0, <1>1, <1>3, <1>7 DEF MintInv
<1>9. MintInv'
  BY <1>1, <1>7, <1>8 DEF MintInv
<1>10. MintedIsCreators'
  BY <1>0, <1>1, <1>2 DEF MintedIsCreators, At
<1> QED
  BY <1>4, <1>5, <1>6, <1>9, <1>10

LEMMA NextInv ==
    ASSUME IInv, [Next]_vars
    PROVE  IInv'
<1> USE DEF IInv
<1>1. ASSUME NEW p \in Requests, NEW t \in Tokens \cup {None}, NEW i \in Members \cup drawn,
             NEW n \in Nicks \cup {None}, NEW secret \in BOOLEAN,
             NEW op \in {"claim", "rename", "write", "delete"}, HandlePlayer(p, op, i, t, n, secret)
      PROVE  IInv'
  <2> DEFINE c == Call(op, IF t = None THEN "act" ELSE "bind", i, t, n)
  <2>1. i \in Ids /\ (i \in Minted => i \in drawn)
    BY IdAssumption DEF Ids, TypeOK
  <2>2. c \in CallType /\ c.id = i /\ c.token = t /\ c.op = op /\ (c.at = IF t = None THEN "act" ELSE "bind")
    BY <2>1 DEF Call, CallType
  <2> QED
    BY <1>1, <2>1, <2>2, EnterInv DEF HandlePlayer
<1>2. ASSUME NEW p \in Requests, NEW t \in Tokens \cup {None}, NEW n \in Nicks, NEW secret \in BOOLEAN,
             HandleMint(p, t, n, secret)
      PROVE  IInv'
  <2> DEFINE c == Call("mint", "act", None, t, n)
  <2>1. c \in CallType /\ c.id = None /\ c.op = "mint" /\ c.at = "act"
    BY DEF Call, CallType
  <2> QED
    BY <1>2, <2>1, EnterInv, IdAssumption DEF HandleMint, Ids
<1>3. ASSUME NEW p \in Requests, Claim(p) \/ MintRefused(p) \/ Rename(p) \/ Write(p) \/ DeleteUser(p)
      PROVE  IInv'
  <2>1. At(p, "act") /\ Return(p) /\ UNCHANGED <<bound, count, require, historyVars>>
    BY <1>3 DEF Claim, MintRefused, Rename, Write, DeleteUser, Doing, historyVars
  <2>2. calls[p].nick \in Nicks \cup {None}
    BY <2>1, CallFields DEF At
  <2>3. registered' \in [Ids -> Nicks \cup {None}]
    BY <1>3, <2>2 DEF Claim, MintRefused, Rename, Write, DeleteUser, TypeOK
  <2> QED
    BY <2>1, <2>3, ReturnInv
<1>4. ASSUME NEW p \in Requests, Compare(p)
      PROVE  IInv'
  <2>1. /\ calls[p] # None /\ calls[p].at = "compare" /\ calls[p].id \in Ids /\ calls[p].token \in Tokens
    BY <1>4 DEF Compare, At, TokenInv
  <2>2. accepted' \in [Ids -> SUBSET Tokens] /\ OneTokenPerMember'
    BY <1>4, <2>1 DEF Compare, Accept, OneTokenPerMember, TypeOK
  <2> QED
    BY <1>4, <2>1, <2>2, DoneStep DEF Compare, TypeOK
<1>5. ASSUME NEW p \in Requests, Count(p)
      PROVE  IInv'
  <2>1. /\ calls[p] # None /\ calls[p].at = "incr"
        /\ accepted' = accepted /\ bound' = bound
        /\ count' \in Nat /\ uncounted' \in Nat
    BY <1>5 DEF Count, At, TypeOK
  <2>2. accepted' \in [Ids -> SUBSET Tokens] /\ OneTokenPerMember'
    BY <2>1 DEF OneTokenPerMember, TypeOK
  <2> QED
    BY <1>5, <2>1, <2>2, DoneStep DEF Count
<1>6. CASE SetRequire
  BY <1>6 DEF SetRequire, historyVars, TypeOK, TokenInv, OneTokenPerMember, MintInv, MintedIsCreators,
              Binding, At, Doing
<1>7. CASE UNCHANGED vars
  BY <1>7 DEF vars, historyVars, TypeOK, TokenInv, OneTokenPerMember, MintInv, MintedIsCreators,
              Binding, At, Doing
<1> QED
  BY <1>1, <1>2, <1>3, <1>4, <1>5, <1>6, <1>7, MintStep, BindStep, AbandonStep DEF Next

LEMMA Invariance == Spec => []IInv
  BY InitInv, NextInv, PTL DEF Spec

\* The registry, the bindings and every request keep their types.
THEOREM TypeCorrect == Spec => []TypeOK
  BY Invariance, PTL DEF IInv

\* Whatever requests race, a member is only ever written for with one token, the one
\* that is bound to it (RedisStore.Authorize).
THEOREM MembersHaveOneToken == Spec => []OneTokenPerMember
  BY Invariance, PTL DEF IInv

\* A player minted with a token is its creator's once the creation is over, but for
\* the two ways in which handleCreateUser lets go of it.
THEOREM MintedPlayersAreTheirCreators == Spec => []MintedIsCreators
  BY Invariance, PTL DEF IInv

-----------------------------------------------------------------------------
(* The dashboard's counter: the two sets CountAccounts compares the sizes of. *)

Bindings == {i \in Ids : bound[i] # None}

Counting == {p \in Requests : At(p, "incr")}

\* The numbers of bindings and of requests before their INCR are finite.
LEMMA FiniteCounts ==
    /\ IsFiniteSet(Bindings) /\ Cardinality(Bindings) \in Nat
    /\ IsFiniteSet(Counting) /\ Cardinality(Counting) \in Nat
  BY FiniteAssumption, FS_Subset, FS_CardinalityType DEF Bindings, Counting

\* SETNX makes one binding and one request that has to count it.
LEMMA BindCounts ==
    ASSUME IInv, CountAccounts, NEW p \in Requests, Bind(p)
    PROVE  CountAccounts'
<1> DEFINE i == calls[p].id
<1> USE DEF IInv
<1>0. /\ calls[p] \in CallType /\ calls[p].at = "bind" /\ calls[p] # None
      /\ i \in Ids /\ calls[p].token \in Tokens /\ calls[p].token # None
      /\ count' = count /\ uncounted' = uncounted
  BY CallFields, NoneAssumption DEF Bind, At, TokenInv
<1>1. Cardinality(Bindings) = count + uncounted + Cardinality(Counting)
  BY DEF CountAccounts, Bindings, Counting
<1>2. CASE bound[i] = None
  <2> DEFINE c == [calls[p] EXCEPT !.at = "incr"]
  <2>1. c # None /\ c.at = "incr"
    BY <1>0, NoneAssumption DEF CallType
  <2>2. bound' = [bound EXCEPT ![i] = calls[p].token] /\ calls' = [calls EXCEPT ![p] = c]
    BY <1>2 DEF Bind, Goto, Step
  <2>3. Bindings' = Bindings \cup {i} /\ i \notin Bindings
    BY <1>0, <1>2, <2>2 DEF Bindings, TypeOK
  <2>4. Counting' = Counting \cup {p} /\ p \notin Counting
    BY <1>0, <2>1, <2>2 DEF Counting, At, TypeOK
  <2>5. Cardinality(Bindings') = Cardinality(Bindings) + 1
    BY <2>3, FiniteCounts, FS_AddElement
  <2>6. Cardinality(Counting') = Cardinality(Counting) + 1
    BY <2>4, FiniteCounts, FS_AddElement
  <2>7. Cardinality(Bindings') = count' + uncounted' + Cardinality(Counting')
    BY <1>0, <1>1, <2>5, <2>6, FiniteCounts DEF TypeOK
  <2> QED
    BY <2>7 DEF CountAccounts, Bindings, Counting
<1>3. CASE bound[i] # None
  <2> DEFINE c == [calls[p] EXCEPT !.at = "compare"]
  <2>1. c # None /\ c.at = "compare"
    BY <1>0, NoneAssumption DEF CallType
  <2>2. bound' = bound /\ calls' = [calls EXCEPT ![p] = c]
    BY <1>3 DEF Bind, Goto, Step
  <2>3. Counting' = Counting
    BY <1>0, <2>1, <2>2 DEF Counting, At, TypeOK
  <2> QED
    BY <1>0, <2>2, <2>3 DEF CountAccounts, Counting
<1> QED
  BY <1>2, <1>3

\* A request leaves Authorize before its INCR or after it: the binding it made is
\* then counted, or known not to be.
LEMMA LeaveCounts ==
    ASSUME IInv, CountAccounts, NEW p \in Requests, At(p, "incr"),
           Authorized(p) \/ Return(p), bound' = bound,
           \/ count' = count + 1 /\ uncounted' = uncounted
           \/ count' = count /\ uncounted' = uncounted + 1
    PROVE  CountAccounts'
<1> DEFINE c == [calls[p] EXCEPT !.at = "act"]
<1> USE DEF IInv
<1>0. calls[p] \in CallType
  BY CallFields DEF At
<1>1. c.at = "act"
  BY <1>0 DEF CallType
<1>2. PICK d \in {None, c} : calls' = [calls EXCEPT ![p] = d]
  BY DEF Authorized, Return, Goto, Step
<1>3. Counting' = Counting \ {p} /\ p \in Counting
  BY <1>1, <1>2 DEF Counting, At, TypeOK
<1>4. Cardinality(Counting') = Cardinality(Counting) - 1
  BY <1>3, FiniteCounts, FS_RemoveElement
<1>5. Cardinality(Bindings) = count + uncounted + Cardinality(Counting) /\ Bindings' = Bindings
  BY DEF CountAccounts, Bindings, Counting
<1>6. Cardinality(Bindings') = count' + uncounted' + Cardinality(Counting')
  BY <1>4, <1>5, FiniteCounts DEF TypeOK
<1> QED
  BY <1>6 DEF CountAccounts, Bindings, Counting

\* No other step makes a binding, counts one, or has one to count.
LEMMA QuietCounts ==
    ASSUME CountAccounts, UNCHANGED <<bound, count, uncounted>>,
           \A q \in Requests : At(q, "incr")' <=> At(q, "incr")
    PROVE  CountAccounts'
<1>1. Counting' = Counting
  BY DEF Counting
<1> QED
  BY <1>1 DEF CountAccounts, Counting

LEMMA NextCounts ==
    ASSUME IInv, CountAccounts, [Next]_vars
    PROVE  CountAccounts'
<1> USE DEF IInv
<1>1. ASSUME NEW p \in Requests, NEW c, c.at # "incr", Enter(p, c),
             UNCHANGED <<bound, count, uncounted>>
      PROVE  CountAccounts'
  BY <1>1, QuietCounts DEF Enter, At, TypeOK
<1>2. ASSUME NEW p \in Requests, NEW c \in CallType \cup {None}, ~At(p, "incr"), c = None \/ c.at # "incr",
             calls' = [calls EXCEPT ![p] = c], UNCHANGED <<bound, count, uncounted>>
      PROVE  CountAccounts'
  BY <1>2, QuietCounts DEF At, TypeOK
<1>3. ASSUME NEW p \in Requests, NEW t, NEW i, NEW n, NEW secret, NEW op, HandlePlayer(p, op, i, t, n, secret)
      PROVE  CountAccounts'
  <2> DEFINE c == Call(op, IF t = None THEN "act" ELSE "bind", i, t, n)
  <2>1. c.at # "incr"
    BY DEF Call
  <2> QED
    BY <1>1, <1>3, <2>1 DEF HandlePlayer, historyVars
<1>4. ASSUME NEW p \in Requests, NEW t, NEW n, NEW secret, HandleMint(p, t, n, secret)
      PROVE  CountAccounts'
  <2> DEFINE c == Call("mint", "act", None, t, n)
  <2>1. c.at # "incr"
    BY DEF Call
  <2> QED
    BY <1>1, <1>4, <2>1 DEF HandleMint, historyVars
<1>5. ASSUME NEW p \in Requests, Claim(p) \/ MintRefused(p) \/ Rename(p) \/ Write(p) \/ DeleteUser(p)
      PROVE  CountAccounts'
  BY <1>2, <1>5 DEF Claim, MintRefused, Rename, Write, DeleteUser, Doing, At, Return, Step, historyVars
<1>6. ASSUME NEW p \in Requests, NEW i \in Minted, Mint(p, i)
      PROVE  CountAccounts'
  <2> DEFINE c == [calls[p] EXCEPT !.at = "bind", !.id = i]
  <2>1. calls[p] \in CallType /\ ~At(p, "incr")
    BY <1>6, CallFields DEF Mint, Doing, At
  <2>2. c \in CallType /\ c.at = "bind"
    BY <2>1 DEF CallType, Ids
  <2>3. calls' = [calls EXCEPT ![p] = None] \/ calls' = [calls EXCEPT ![p] = c]
    BY <1>6 DEF Mint, Return, Step
  <2> QED
    BY <1>2, <1>6, <2>1, <2>2, <2>3 DEF Mint
<1>7. ASSUME NEW p \in Requests, Compare(p)
      PROVE  CountAccounts'
  <2> DEFINE c == [calls[p] EXCEPT !.at = "act"]
  <2>1. calls[p] \in CallType /\ ~At(p, "incr")
    BY <1>7, CallFields DEF Compare, At
  <2>2. c \in CallType /\ c.at = "act"
    BY <2>1 DEF CallType
  <2>3. calls' = [calls EXCEPT ![p] = None] \/ calls' = [calls EXCEPT ![p] = c]
    BY <1>7 DEF Compare, Authorized, Return, Goto, Step
  <2> QED
    BY <1>2, <1>7, <2>1, <2>2, <2>3 DEF Compare
<1>8. ASSUME NEW p \in Requests, Count(p)
      PROVE  CountAccounts'
  BY <1>8, LeaveCounts DEF Count
<1>9. ASSUME NEW p \in Requests, Abandon(p)
      PROVE  CountAccounts'
  <2>1. CASE At(p, "incr")
    BY <1>9, <2>1, LeaveCounts DEF Abandon, At
  <2>2. CASE ~At(p, "incr")
    BY <1>2, <1>9, <2>2 DEF Abandon, At, Return, Step
  <2> QED
    BY <2>1, <2>2
<1>10. CASE SetRequire \/ UNCHANGED vars
  BY <1>10, QuietCounts DEF SetRequire, historyVars, vars, At
<1> QED
  BY <1>3, <1>4, <1>5, <1>6, <1>7, <1>8, <1>9, <1>10, BindCounts DEF Next

\* The dashboard's counter misses exactly the bindings whose INCR failed, never ran
\* or is still to come; no retry of a request counts a binding twice.
THEOREM BindingsAreCounted == Spec => []CountAccounts
<1>1. Init => CountAccounts
  <2> SUFFICES ASSUME Init PROVE CountAccounts
    OBVIOUS
  <2>1. Bindings = {} /\ Counting = {}
    BY DEF Init, Bindings, Counting, At
  <2> QED
    BY <2>1, FS_EmptySet DEF Init, CountAccounts, Bindings, Counting
<1> QED
  BY <1>1, NextCounts, Invariance, PTL DEF Spec
=============================================================================
