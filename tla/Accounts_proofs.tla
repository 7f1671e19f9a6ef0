-------------------------- MODULE Accounts_proofs ---------------------------
(***************************************************************************)
(* Proofs about Sessions, for any requests, bounds and times, and about    *)
(* Users, for any people and any number of requests.  No definition of one *)
(* model is used for the other.                                            *)
(*                                                                         *)
(* Sessions: that a refresh token works for every request that carries it  *)
(* is not inductive.  A request carries what was the pair of the browser   *)
(* when it was sent; so one has to know that a pair of the browser that is *)
(* revoked is being rotated (JarRotates), by a request that is no younger  *)
(* than the revocation and has taken less than half of the grace (InTime). *)
(* That in turn needs what a request carries at each step, and that what   *)
(* it brings is new.                                                       *)
(*                                                                         *)
(* Users: that a super administrator remains is not inductive alone: one   *)
(* has to know what a request that has counted still knows when it writes  *)
(* - the role of its target, and that there is another super administrator *)
(* - which holds as long as no other request has read in between.          *)
(***************************************************************************)
EXTENDS Sessions, Users, FiniteSetTheorems, TLAPS

-----------------------------------------------------------------------------
(* The inductive invariant *)

\* Rows are created in the order of their pairs, and no pair is used before.
InOrder ==
    /\ \A p \in Pairs : session[p] = "absent" <=> p > issued
    /\ jar <= issued
    /\ \A r \in Requests : req[r].pair <= issued /\ req[r].brings <= issued

\* What a request carries at each step.
Carrying ==
    \A r \in Requests :
        /\ req[r].at \in {"idle", "login"} => req[r].pair = none
        /\ req[r].at \notin {"idle", "login", "answer"} => req[r].pair # none
        /\ req[r].at = "answer" <=> req[r].brings # none
        /\ req[r].at \in {"logout", "cleared"} => upset

\* A pair on its way to the browser is live, unless the password was changed,
\* and nobody has it yet.
BroughtIsNew ==
    \A r \in Requests : req[r].brings # none =>
        /\ ~upset => session[req[r].brings] = "live"
        /\ req[r].brings # jar
        /\ \A q \in Requests :
            /\ req[q].pair # req[r].brings
            /\ q # r => req[q].brings # req[r].brings

\* What a rotation or a logout replaces is revoked.
ReplacedIsRevoked ==
    \A r \in Requests :
        req[r].at \in {"revoked", "answer", "cleared"} /\ req[r].pair # none =>
            session[req[r].pair] = "revoked"

\* While the browser has a pair that is revoked, the request that revoked it is
\* on its way back, and no older than the revocation.
Rotates(r) ==
    /\ req[r].at \in {"revoked", "answer"} /\ req[r].pair = jar
    /\ revokedAge[jar] <= req[r].age

JarRotates ==
    ~upset /\ jar # none /\ session[jar] = "revoked" => \E r \in Requests : Rotates(r)

\* No request has taken half of the grace.
InTime == ~upset => \A r \in Requests : 2 * req[r].age < Grace

\* So what a request carries was not revoked long before it was sent.
CarriedWorks ==
    ~upset => \A r \in Requests : req[r].pair # none /\ session[req[r].pair] = "revoked" =>
        2 * revokedAge[req[r].pair] < Grace + 2 * req[r].age

\* Whoever has found the user active found that since it was sent, and the memo
\* knows it from one that had.
KnownActive ==
    /\ active => inactive = 0
    /\ \A r \in Requests :
        req[r].at \in {"owned", "revoked"} \/ (req[r].at = "looked" /\ req[r].seen) =>
            inactive <= req[r].age
    /\ \A p \in Pairs : cached[p] = "user" =>
        cachedAge[p] < CacheTTL /\ inactive <= cachedAge[p] + MaxTime

SessionsIInv ==
    /\ TypeOK /\ InOrder /\ Carrying /\ BroughtIsNew /\ ReplacedIsRevoked
    /\ JarRotates /\ InTime /\ CarriedWorks /\ KnownActive /\ SessionsHeld

-----------------------------------------------------------------------------
(* Types *)

ReqType == [at : Steps, pair : {none} \cup Pairs, brings : {none} \cup Pairs,
            seen : BOOLEAN, age : 0..(MaxTime + Grace)]

\* Pairs are numbers, and no pair is none.
LEMMA PairNumbers ==
  /\ none \notin Pairs /\ none \in Int /\ none = 0
  /\ \A p \in Pairs : p \in Int /\ p > 0 /\ p # none
  /\ \A n \in 0..MaxPairs : n < MaxPairs => n + 1 \in Pairs
  BY SessionsAssumption DEF none, Pairs

\* What the types say of each field of a request.
LEMMA Fields ==
  ASSUME TypeOK, NEW r \in Requests
  PROVE  /\ req[r].at \in Steps /\ req[r].seen \in BOOLEAN
         /\ req[r].pair \in {none} \cup Pairs /\ req[r].brings \in {none} \cup Pairs
         /\ req[r].pair # none => req[r].pair \in Pairs
         /\ req[r].brings # none => req[r].brings \in Pairs
         /\ req[r].pair \in Int /\ req[r].brings \in Int
         /\ req[r].age \in Nat /\ (req[r].at \notin Handling => req[r].age <= MaxTime)
<1>1. req[r] \in ReqType
  BY DEF TypeOK, ReqType
<1>2. /\ req[r].at \in Steps /\ req[r].seen \in BOOLEAN
      /\ req[r].pair \in {none} \cup Pairs /\ req[r].brings \in {none} \cup Pairs
      /\ req[r].age \in 0..(MaxTime + Grace)
  BY <1>1 DEF ReqType
<1>3. req[r].at \notin Handling => req[r].age <= MaxTime
  BY DEF TypeOK
<1>4. QED BY <1>2, <1>3, PairNumbers, SessionsAssumption

\* One request becomes another one.
LEMMA OneRequest ==
  ASSUME TypeOK, NEW r \in Requests, NEW q \in ReqType, req' = [req EXCEPT ![r] = q]
  PROVE  req' \in [Requests -> ReqType]
  BY DEF TypeOK, ReqType

\* A request goes to another step.
LEMMA GotoType ==
  ASSUME TypeOK, NEW r \in Requests, NEW at \in Steps, Goto(r, at)
  PROVE  req' \in [Requests -> ReqType]
<1> DEFINE q == [req[r] EXCEPT !.at = at]
<1>1. q \in ReqType
  BY DEF TypeOK, ReqType
<1>2. req' = [req EXCEPT ![r] = q]
  BY DEF Goto
<1>3. QED BY <1>1, <1>2, OneRequest

\* A request that is idle, and one that has just been made.
LEMMA IdleType ==
  ASSUME NEW at \in Steps, NEW p \in {none} \cup Pairs
  PROVE  /\ Idle \in ReqType /\ [Idle EXCEPT !.at = at] \in ReqType
         /\ [Idle EXCEPT !.at = at, !.pair = p] \in ReqType
<1>1. "idle" \in Steps /\ none \in {none} \cup Pairs /\ FALSE \in BOOLEAN /\ 0 \in 0..(MaxTime + Grace)
  BY SessionsAssumption DEF Steps
<1>2. Idle \in ReqType
  BY <1>1 DEF Idle, ReqType
<1>3. QED BY <1>2 DEF ReqType

\* Every action keeps the requests of their type.
LEMMA TypeOfRequests ==
  ASSUME TypeOK, NEW r \in Requests,
         \/ Send(r) \/ Hit(r) \/ Expired(r) \/ Lookup(r) \/ Looked(r)
         \/ Find(r) \/ Owner(r) \/ Revoke(r) \/ Create(r)
         \/ Login(r) \/ Logout(r) \/ Destroy(r) \/ Receive(r) \/ Lose(r)
  PROVE  req' \in [Requests -> ReqType]
<1>1. {"session", "looked", "refresh", "found", "owned", "revoked", "login", "logout", "answer", "cleared"} \subseteq Steps
  BY DEF Steps
<1>2. jar \in {none} \cup Pairs /\ none \in {none} \cup Pairs
  BY DEF TypeOK
<1>3. CASE Send(r) \/ Login(r) \/ Logout(r)
  <2>1. CASE Send(r)
    BY <2>1, <1>1, <1>2, IdleType, OneRequest DEF Send
  <2>2. CASE Login(r)
    BY <2>2, <1>1, <1>2, IdleType, OneRequest DEF Login
  <2>3. CASE Logout(r)
    BY <2>3, <1>1, <1>2, IdleType, OneRequest DEF Logout
  <2>4. QED BY <1>3, <2>1, <2>2, <2>3
<1>4. CASE req' = [req EXCEPT ![r] = Idle]
  BY <1>1, <1>2, <1>4, IdleType, OneRequest
<1>5. CASE \E at \in Steps : Goto(r, at)
  BY <1>5, GotoType
<1>6. CASE Lookup(r)
  <2> DEFINE q == [req[r] EXCEPT !.at = "looked", !.seen = active]
  <2>1. q \in ReqType
    BY <1>1 DEF TypeOK, ReqType
  <2>2. req' = [req EXCEPT ![r] = q]
    BY <1>6 DEF Lookup
  <2>3. QED BY <2>1, <2>2, OneRequest
<1>7. CASE Create(r)
  <2> DEFINE q == [req[r] EXCEPT !.at = "answer", !.brings = issued + 1]
  <2>1. issued + 1 \in Pairs
    BY <1>7, PairNumbers DEF Create, TypeOK
  <2>2. q \in ReqType
    BY <1>1, <2>1 DEF TypeOK, ReqType
  <2>3. req' = [req EXCEPT ![r] = q]
    BY <1>7 DEF Create
  <2>4. QED BY <2>2, <2>3, OneRequest
<1>8. Hit(r) \/ Looked(r) \/ Expired(r) \/ Find(r) \/ Owner(r) \/ Revoke(r) \/ Destroy(r) \/ Receive(r) \/ Lose(r)
        => req' = [req EXCEPT ![r] = Idle] \/ \E at \in Steps : Goto(r, at)
  <2>1. Hit(r) \/ Looked(r) \/ Expired(r) => req' = [req EXCEPT ![r] = Idle] \/ Goto(r, "refresh")
    BY DEF Hit, Looked, Expired, LetIn
  <2>2. Find(r) => req' = [req EXCEPT ![r] = Idle] \/ Goto(r, "found")
    BY DEF Find, Refuse
  <2>3. Owner(r) => req' = [req EXCEPT ![r] = Idle] \/ Goto(r, "owned")
    BY DEF Owner, Refuse
  <2>4. Revoke(r) => Goto(r, "revoked")
    BY DEF Revoke
  <2>5. Destroy(r) => Goto(r, "cleared")
    BY DEF Destroy
  <2>6. Receive(r) \/ Lose(r) => req' = [req EXCEPT ![r] = Idle]
    BY DEF Receive, Lose
  <2>7. QED BY <1>1, <2>1, <2>2, <2>3, <2>4, <2>5, <2>6
<1>9. QED BY <1>3, <1>4, <1>5, <1>6, <1>7, <1>8

\* Time keeps the types.
LEMMA TickType ==
  ASSUME TypeOK, Tick
  PROVE  TypeOK'
<1> USE SessionsAssumption
<1>1. \A r \in Requests : req'[r] \in ReqType
  <2> SUFFICES ASSUME NEW r \in Requests PROVE req'[r] \in ReqType
    OBVIOUS
  <2>1. req[r] \in ReqType
    BY DEF TypeOK, ReqType
  <2>2. CASE req[r].at = "idle"
    BY <2>1, <2>2 DEF Tick, Aged
  <2>3. CASE req[r].at # "idle"
    <3>1. req'[r] = req[r] \/ req'[r] = [req[r] EXCEPT !.age = req[r].age + 1]
      BY DEF Tick, Aged
    <3>2. req'[r] # req[r] => req[r].age + 1 \in 0..(MaxTime + Grace)
      <4>1. CASE req[r].at \in Handling
        BY <2>3, <4>1, Fields DEF Tick, Aged, Slow
      <4>2. CASE req[r].at \notin Handling
        BY <2>3, <4>2, Fields DEF Tick
      <4>3. QED BY <4>1, <4>2
    <3>3. QED BY <2>1, <3>1, <3>2 DEF ReqType
  <2>4. QED BY <2>2, <2>3
<1>2. req' \in [Requests -> ReqType]
  BY <1>1 DEF Tick
<1>3. revokedAge' \in [Pairs -> 0..Grace]
  <2>1. \A p \in Pairs : revokedAge[p] \in 0..Grace
    BY DEF TypeOK
  <2>2. QED BY <2>1 DEF Tick, Older
<1>4. cached' \in [Pairs -> {"none", "user", "null"}]
  <2>1. \A p \in Pairs : cached[p] \in {"none", "user", "null"}
    BY DEF TypeOK
  <2>2. QED BY <2>1 DEF Tick
<1>5. cachedAge' \in [Pairs -> 0..CacheTTL]
  <2>1. \A p \in Pairs : cachedAge[p] \in 0..CacheTTL
    BY DEF TypeOK
  <2>2. \A p \in Pairs : cached'[p] # "none" => cachedAge[p] + 1 < CacheTTL
    BY DEF Tick
  <2>3. QED BY <2>1, <2>2 DEF Tick
<1>6. inactive' \in 0..StaleLimit
  BY DEF Tick, Older, StaleLimit, TypeOK
<1>7. UNCHANGED <<active, issued, session, jar>>
  BY DEF Tick
<1>8. expired' \subseteq Pairs /\ loose' \subseteq Pairs /\ upset' \in BOOLEAN
  BY DEF Tick, TypeOK
<1>9. \A r \in Requests : req'[r].at \notin Handling => req'[r].age <= MaxTime
  <2> SUFFICES ASSUME NEW r \in Requests, req'[r].at \notin Handling
               PROVE  req'[r].age <= MaxTime
    OBVIOUS
  <2>1. req'[r].at = req[r].at
    BY DEF Tick, Aged, TypeOK
  <2>2. CASE req[r].at = "idle"
    BY <2>1, <2>2, Fields DEF Tick, Aged, Handling
  <2>3. CASE req[r].at # "idle"
    <3>1. req[r].age < MaxTime /\ req'[r] = [req[r] EXCEPT !.age = req[r].age + 1]
      BY <2>1, <2>3 DEF Tick, Aged
    <3>2. req'[r].age = req[r].age + 1
      BY <3>1 DEF TypeOK
    <3>3. QED BY <3>1, <3>2, Fields
  <2>4. QED BY <2>2, <2>3
<1>10. QED BY <1>2, <1>3, <1>4, <1>5, <1>6, <1>7, <1>8, <1>9 DEF TypeOK, ReqType

\* What a request does takes no time, and a handler that ends leaves it idle.
LEMMA AgeStays ==
  ASSUME TypeOK, NEW r \in Requests,
         \/ Send(r) \/ Hit(r) \/ Expired(r) \/ Lookup(r) \/ Looked(r)
         \/ Find(r) \/ Owner(r) \/ Revoke(r) \/ Create(r)
         \/ Login(r) \/ Logout(r) \/ Destroy(r) \/ Receive(r) \/ Lose(r)
  PROVE  /\ \A q \in Requests \ {r} : req'[q] = req[q]
         /\ req'[r].at \notin Handling => req'[r].age <= MaxTime
<1> USE SessionsAssumption, Fields
<1>1. Idle.age = 0 /\ Idle.at = "idle"
  BY DEF Idle
<1>2. CASE Send(r) \/ Login(r) \/ Logout(r)
  <2>1. CASE Login(r)
    <3>1. [Idle EXCEPT !.at = "login"].age = 0
      BY DEF Idle
    <3>2. QED BY <2>1, <3>1 DEF Login, TypeOK
  <2>2. CASE Send(r) \/ Logout(r)
    <3>1. PICK at \in Steps, p \in Pairs : req' = [req EXCEPT ![r] = [Idle EXCEPT !.at = at, !.pair = p]]
      BY <2>2 DEF Send, Logout, Steps, TypeOK
    <3>2. [Idle EXCEPT !.at = at, !.pair = p].age = 0
      BY DEF Idle
    <3>3. QED BY <3>1, <3>2 DEF TypeOK
  <2>3. QED BY <1>2, <2>1, <2>2
<1>3. CASE Receive(r) \/ Lose(r)
  BY <1>1, <1>3 DEF Receive, Lose, TypeOK
<1>4. CASE Create(r)
  BY <1>4 DEF Create, Handling, TypeOK
<1>5. CASE Destroy(r)
  BY <1>5 DEF Destroy, Goto, Handling, TypeOK
<1>6. CASE Hit(r) \/ Expired(r) \/ Lookup(r) \/ Looked(r) \/ Find(r) \/ Owner(r) \/ Revoke(r)
  <2>1. req[r].at \notin Handling
    BY <1>6 DEF Hit, Expired, Lookup, Looked, Find, Owner, Revoke, At, Handling
  <2>2. \/ req' = [req EXCEPT ![r] = Idle] \/ \E at \in Steps : req' = [req EXCEPT ![r].at = at]
        \/ req' = [req EXCEPT ![r].at = "looked", ![r].seen = active]
    BY <1>6 DEF Hit, Expired, Lookup, Looked, Find, Owner, Revoke, LetIn, Refuse, Goto, Steps
  <2>3. QED BY <1>1, <2>1, <2>2 DEF TypeOK
<1>7. QED BY <1>2, <1>3, <1>4, <1>5, <1>6

\* Every step keeps the types.
LEMMA SessionsTypeStep ==
  ASSUME TypeOK, [Next]_vars
  PROVE  TypeOK'
<1> USE SessionsAssumption DEF rows, memo, history
<1>1. CASE Tick
  BY <1>1, TickType
<1>2. CASE Deactivate \/ Reactivate \/ \E p \in Pairs : Expire(p)
  <2>1. req' = req
    BY <1>2 DEF Deactivate, Reactivate, Expire
  <2>2. CASE Deactivate
    BY <2>2, <2>1 DEF Deactivate, TypeOK
  <2>3. CASE Reactivate
    BY <2>3, <2>1 DEF Reactivate, TypeOK, StaleLimit
  <2>4. ASSUME NEW p \in Pairs, Expire(p) PROVE TypeOK'
    BY <2>4, <2>1 DEF Expire, TypeOK
  <2>5. QED BY <1>2, <2>2, <2>3, <2>4
<1>6. CASE ChangePassword
  <2>1. session' \in [Pairs -> {"absent", "live", "revoked"}] /\ revokedAge' \in [Pairs -> 0..Grace]
    BY <1>6 DEF ChangePassword, TypeOK
  <2>2. QED BY <1>6, <2>1 DEF ChangePassword, TypeOK
<1>3. ASSUME NEW r \in Requests,
             \/ Send(r) \/ Hit(r) \/ Expired(r) \/ Lookup(r) \/ Looked(r)
             \/ Find(r) \/ Owner(r) \/ Revoke(r) \/ Create(r)
             \/ Login(r) \/ Logout(r) \/ Destroy(r) \/ Receive(r) \/ Lose(r)
      PROVE  TypeOK'
  <2>1. req' \in [Requests -> ReqType]
    BY <1>3, TypeOfRequests
  <2>2. active' \in BOOLEAN /\ expired' \subseteq Pairs /\ inactive' \in 0..StaleLimit
    <3>1. active' = active /\ expired' = expired /\ inactive' = inactive
      BY <1>3 DEF Send, Hit, Expired, Lookup, Looked, Find, Owner, Revoke, Create, Login, Logout, Destroy, Receive, Lose
    <3>2. QED BY <3>1 DEF TypeOK
  <2>3. issued' \in 0..MaxPairs /\ session' \in [Pairs -> {"absent", "live", "revoked"}]
    <3>1. CASE Create(r)
      <4>1. issued < MaxPairs /\ issued' = issued + 1 /\ session' = [session EXCEPT ![issued + 1] = "live"]
        BY <3>1 DEF Create
      <4>2. issued' \in 0..MaxPairs
        BY <4>1 DEF TypeOK
      <4>3. session' \in [Pairs -> {"absent", "live", "revoked"}]
        BY <4>1 DEF TypeOK
      <4>4. QED BY <4>2, <4>3
    <3>2. CASE Revoke(r) \/ Destroy(r)
      <4>1. issued' = issued /\ session' = [session EXCEPT ![req[r].pair] = "revoked"]
        BY <3>2 DEF Revoke, Destroy
      <4>2. QED BY <4>1 DEF TypeOK
    <3>3. CASE UNCHANGED <<issued, session>>
      BY <3>3 DEF TypeOK
    <3>4. QED BY <1>3, <3>1, <3>2, <3>3 DEF Send, Hit, Expired, Lookup, Looked, Find, Owner, Login, Logout, Receive, Lose
  <2>4. revokedAge' \in [Pairs -> 0..Grace]
    <3>1. \A p \in Pairs : revokedAge'[p] = revokedAge[p] \/ revokedAge'[p] = 0
      <4>1. CASE Revoke(r)
        <5>1. revokedAge' = [revokedAge EXCEPT ![req[r].pair] = 0]
          BY <4>1 DEF Revoke
        <5>2. QED BY <5>1 DEF TypeOK
      <4>2. CASE Destroy(r)
        <5>1. revokedAge' = [revokedAge EXCEPT ![req[r].pair] = IF session[req[r].pair] = "live" THEN 0 ELSE @]
          BY <4>2 DEF Destroy
        <5>2. QED BY <5>1 DEF TypeOK
      <4>3. CASE UNCHANGED revokedAge
        BY <4>3
      <4>4. QED BY <1>3, <4>1, <4>2, <4>3 DEF Send, Hit, Expired, Lookup, Looked, Find, Owner, Create, Login, Logout, Receive, Lose
    <3>2. DOMAIN revokedAge' = Pairs /\ revokedAge' = [p \in Pairs |-> revokedAge'[p]]
      <4>1. revokedAge = [p \in Pairs |-> revokedAge[p]]
        BY DEF TypeOK
      <4>2. QED BY <1>3, <4>1 DEF Send, Hit, Expired, Lookup, Looked, Find, Owner, Revoke, Create, Login, Logout, Destroy, Receive, Lose
    <3>3. \A p \in Pairs : revokedAge'[p] \in 0..Grace
      BY <3>1 DEF TypeOK
    <3>4. QED BY <3>2, <3>3
  <2>5. cached' \in [Pairs -> {"none", "user", "null"}] /\ cachedAge' \in [Pairs -> 0..CacheTTL]
    <3>1. CASE Looked(r) \/ Destroy(r)
      <4>1. /\ \E v \in {"none", "user", "null"} : cached' = [cached EXCEPT ![req[r].pair] = v]
            /\ cachedAge' = [cachedAge EXCEPT ![req[r].pair] = 0]
        BY <3>1 DEF Looked, Destroy
      <4>2. cached' \in [Pairs -> {"none", "user", "null"}]
        BY <4>1 DEF TypeOK
      <4>3. cachedAge' \in [Pairs -> 0..CacheTTL]
        <5>1. 0 \in 0..CacheTTL /\ cachedAge \in [Pairs -> 0..CacheTTL]
          BY DEF TypeOK
        <5>2. QED BY <4>1, <5>1
      <4>4. QED BY <4>2, <4>3
    <3>2. CASE UNCHANGED <<cached, cachedAge>>
      BY <3>2 DEF TypeOK
    <3>3. QED BY <1>3, <3>1, <3>2 DEF Send, Hit, Expired, Lookup, Find, Owner, Revoke, Create, Login, Logout, Receive, Lose
  <2>6. jar' \in {none} \cup Pairs /\ upset' \in BOOLEAN /\ loose' \subseteq Pairs
    <3>1. jar' \in {jar, req[r].brings} /\ upset' \in {upset, TRUE}
          /\ loose' \subseteq loose \cup ({jar, req[r].brings} \ {none})
      BY <1>3 DEF Send, Hit, Expired, Lookup, Looked, Find, Owner, Revoke, Create, Login, Logout, Destroy, Receive, Lose
    <3>2. QED BY <3>1, Fields DEF TypeOK
  <2>7. \A q \in Requests : req'[q].at \notin Handling => req'[q].age <= MaxTime
    BY <1>3, AgeStays DEF TypeOK
  <2>8. QED BY <2>1, <2>2, <2>3, <2>4, <2>5, <2>6, <2>7 DEF TypeOK, ReqType
<1>4. CASE UNCHANGED vars
  BY <1>4 DEF vars, TypeOK
<1>5. QED BY <1>1, <1>2, <1>3, <1>4, <1>6 DEF Next

-----------------------------------------------------------------------------
(* What the steps do to the fields of the requests and to each row *)

\* The request r is at a step, with what it carries; the others stay.
Places(r, at, pair, brings, age) ==
    /\ \A q \in Requests \ {r} : req'[q] = req[q]
    /\ req'[r].at = at /\ req'[r].pair = pair /\ req'[r].brings = brings /\ req'[r].age = age

Ends(r) == Places(r, "idle", none, none, 0)
Moves(r, at) == Places(r, at, req[r].pair, req[r].brings, req[r].age)

\* The row of a pair is written, and no other one.
Writes(p, state) == \A q \in Pairs : session'[q] = IF q = p THEN state ELSE session[q]

SameRows == UNCHANGED <<issued, session, revokedAge>>

Ages ==
    /\ \A r \in Requests :
        /\ req'[r].at = req[r].at /\ req'[r].pair = req[r].pair /\ req'[r].brings = req[r].brings
        /\ ~upset' => /\ req'[r].age = IF req[r].at = "idle" THEN req[r].age ELSE req[r].age + 1
                      /\ 2 * req'[r].age < Grace
    /\ \A p \in Pairs : session[p] = "revoked" => revokedAge'[p] <= revokedAge[p] + 1
    /\ UNCHANGED <<issued, session, jar>>
    /\ upset => upset'
    /\ \A p \in Pairs : session[p] = "live" => (p \in loose' <=> p \in loose)

Stays == SameRows /\ UNCHANGED <<req, jar, upset, loose>>

\* From the lookup of the session to that of the owner of a refresh token
\* nothing is written but the memo.
Walks(r) ==
    /\ req[r].at \in {"session", "looked", "refresh", "found"}
    /\ Ends(r) \/ \E at \in {"looked", "refresh", "found", "owned"} : Moves(r, at)
    /\ SameRows /\ UNCHANGED <<jar, upset, loose>>

Sends(r) ==
    /\ jar # none /\ At(r, "idle") /\ Places(r, "session", jar, none, 0)
    /\ SameRows /\ UNCHANGED <<jar, upset, loose>>

Revokes(r) ==
    /\ At(r, "owned") /\ Moves(r, "revoked") /\ Writes(req[r].pair, "revoked")
    /\ \A p \in Pairs : revokedAge'[p] = IF p = req[r].pair THEN 0 ELSE revokedAge[p]
    /\ UNCHANGED <<issued, jar, upset, loose>>

Creates(r) ==
    /\ req[r].at \in {"revoked", "login"} /\ issued' = issued + 1 /\ issued + 1 \in Pairs
    /\ Places(r, "answer", req[r].pair, issued + 1, req[r].age)
    /\ Writes(issued + 1, "live")
    /\ UNCHANGED <<revokedAge, jar, upset, loose>>

LogsIn(r) ==
    /\ jar = none /\ At(r, "idle") /\ Places(r, "login", none, none, 0)
    /\ SameRows /\ UNCHANGED <<jar, upset, loose>>

LogsOut(r) ==
    /\ jar # none /\ At(r, "idle") /\ Places(r, "logout", jar, none, 0)
    /\ upset' /\ SameRows /\ UNCHANGED <<jar, loose>>

Destroys(r) ==
    /\ At(r, "logout") /\ Moves(r, "cleared") /\ Writes(req[r].pair, "revoked")
    /\ UNCHANGED <<issued, jar, upset, loose>>

Receives(r) ==
    /\ req[r].at \in {"answer", "cleared"} /\ Ends(r)
    /\ jar' = req[r].brings
    /\ loose \subseteq loose' /\ loose' \subseteq loose \cup {jar}
    /\ jar \in Pairs /\ jar # req[r].pair /\ session[jar] = "live" => jar \in loose'
    /\ SameRows /\ UNCHANGED upset

Loses(r) ==
    /\ Ends(r) /\ loose' = loose \cup ({req[r].brings} \ {none}) /\ upset'
    /\ SameRows /\ UNCHANGED jar

Locks ==
    /\ upset' /\ UNCHANGED <<req, issued, jar, loose>>
    /\ \A p \in Pairs : session'[p] = IF session[p] = "live" THEN "revoked" ELSE session[p]

Moved ==
    \/ Ages \/ Stays \/ Locks
    \/ \E r \in Requests :
        \/ Walks(r) \/ Sends(r) \/ Revokes(r) \/ Creates(r)
        \/ LogsIn(r) \/ LogsOut(r) \/ Destroys(r) \/ Receives(r) \/ Loses(r)

\* The request stays what it was in all it carries.
LEMMA GotoMoves ==
  ASSUME TypeOK, NEW r \in Requests, NEW at, Goto(r, at)
  PROVE  Moves(r, at)
  BY DEF TypeOK, Goto, Moves, Places

\* A request that is idle again carries nothing.
LEMMA IdleEnds ==
  ASSUME TypeOK, NEW r \in Requests, req' = [req EXCEPT ![r] = Idle]
  PROVE  Ends(r)
  BY DEF TypeOK, Idle, Ends, Places

\* Six of the actions walk.
LEMMA WalkSteps ==
  ASSUME TypeOK, NEW r \in Requests,
         Hit(r) \/ Expired(r) \/ Lookup(r) \/ Looked(r) \/ Find(r) \/ Owner(r)
  PROVE  Walks(r)
<1> USE GotoMoves, IdleEnds DEF At, LetIn, Refuse, history, rows, SameRows
<1>1. CASE Hit(r)
  <2>1. Ends(r) \/ Moves(r, "refresh")
    BY <1>1 DEF Hit
  <2>2. QED BY <1>1, <2>1 DEF Hit, Walks
<1>2. CASE Expired(r)
  <2>1. Moves(r, "refresh")
    BY <1>2 DEF Expired
  <2>2. QED BY <1>2, <2>1 DEF Expired, Walks
<1>3. CASE Lookup(r)
  <2>1. Moves(r, "looked")
    BY <1>3 DEF Lookup, Moves, Places, TypeOK
  <2>2. QED BY <1>3, <2>1 DEF Lookup, Walks
<1>4. CASE Looked(r)
  <2>1. Ends(r) \/ Moves(r, "refresh")
    BY <1>4 DEF Looked
  <2>2. QED BY <1>4, <2>1 DEF Looked, Walks
<1>5. CASE Find(r)
  <2>1. Ends(r) \/ Moves(r, "found")
    BY <1>5 DEF Find
  <2>2. QED BY <1>5, <2>1 DEF Find, Walks
<1>6. CASE Owner(r)
  <2>1. Ends(r) \/ Moves(r, "owned")
    BY <1>6 DEF Owner
  <2>2. QED BY <1>6, <2>1 DEF Owner, Walks
<1>7. QED BY <1>1, <1>2, <1>3, <1>4, <1>5, <1>6

\* The other actions of a request.
LEMMA OtherSteps ==
  ASSUME TypeOK, NEW r \in Requests
  PROVE  /\ Send(r) => Sends(r)
         /\ Revoke(r) => Revokes(r)
         /\ Create(r) => Creates(r)
         /\ Login(r) => LogsIn(r)
         /\ Logout(r) => LogsOut(r)
         /\ Destroy(r) => Destroys(r)
         /\ Receive(r) => Receives(r)
         /\ Lose(r) => Loses(r)
<1> USE DEF history, rows, SameRows
<1>1. ASSUME Send(r) PROVE Sends(r)
  <2>1. Places(r, "session", jar, none, 0)
    BY <1>1 DEF Send, Places, TypeOK, Idle
  <2>2. QED BY <1>1, <2>1 DEF Send, Sends
<1>2. ASSUME Revoke(r) PROVE Revokes(r)
  <2>1. Moves(r, "revoked")
    BY <1>2, GotoMoves DEF Revoke
  <2>2. Writes(req[r].pair, "revoked")
    <3>1. session' = [session EXCEPT ![req[r].pair] = "revoked"]
      BY <1>2 DEF Revoke
    <3>2. QED BY <3>1 DEF Writes, TypeOK
  <2>3. \A p \in Pairs : revokedAge'[p] = IF p = req[r].pair THEN 0 ELSE revokedAge[p]
    <3>1. revokedAge' = [revokedAge EXCEPT ![req[r].pair] = 0]
      BY <1>2 DEF Revoke
    <3>2. QED BY <3>1 DEF TypeOK
  <2>4. QED BY <1>2, <2>1, <2>2, <2>3 DEF Revoke, Revokes
<1>3. ASSUME Create(r) PROVE Creates(r)
  <2>1. Places(r, "answer", req[r].pair, issued + 1, req[r].age)
    BY <1>3 DEF Create, Places, TypeOK
  <2>2. Writes(issued + 1, "live")
    <3>1. session' = [session EXCEPT ![issued + 1] = "live"]
      BY <1>3 DEF Create
    <3>2. QED BY <3>1 DEF Writes, TypeOK
  <2>3. issued + 1 \in Pairs
    BY <1>3, PairNumbers DEF Create, TypeOK
  <2>4. QED BY <1>3, <2>1, <2>2, <2>3 DEF Create, Creates
<1>4. ASSUME Login(r) PROVE LogsIn(r)
  <2>1. Places(r, "login", none, none, 0)
    BY <1>4 DEF Login, Places, TypeOK, Idle
  <2>2. QED BY <1>4, <2>1 DEF Login, LogsIn
<1>5. ASSUME Logout(r) PROVE LogsOut(r)
  <2>1. Places(r, "logout", jar, none, 0)
    BY <1>5 DEF Logout, Places, TypeOK, Idle
  <2>2. QED BY <1>5, <2>1 DEF Logout, LogsOut
<1>6. ASSUME Destroy(r) PROVE Destroys(r)
  <2>1. Moves(r, "cleared")
    BY <1>6, GotoMoves DEF Destroy
  <2>2. Writes(req[r].pair, "revoked")
    <3>1. session' = [session EXCEPT ![req[r].pair] = "revoked"]
      BY <1>6 DEF Destroy
    <3>2. QED BY <3>1 DEF Writes, TypeOK
  <2>3. QED BY <1>6, <2>1, <2>2 DEF Destroy, Destroys
<1>7. ASSUME Receive(r) PROVE Receives(r)
  <2>1. Ends(r)
    BY <1>7, IdleEnds DEF Receive
  <2>2. /\ loose \subseteq loose' /\ loose' \subseteq loose \cup {jar}
        /\ jar \in Pairs /\ jar # req[r].pair /\ session[jar] = "live" => jar \in loose'
    BY <1>7, PairNumbers DEF Receive
  <2>3. QED BY <1>7, <2>1, <2>2 DEF Receive, Receives
<1>8. ASSUME Lose(r) PROVE Loses(r)
  <2>1. Ends(r)
    BY <1>8, IdleEnds DEF Lose
  <2>2. QED BY <1>8, <2>1 DEF Lose, Loses
<1>9. QED BY <1>1, <1>2, <1>3, <1>4, <1>5, <1>6, <1>7, <1>8

\* Time.
LEMMA TickAges ==
  ASSUME TypeOK, Tick
  PROVE  Ages
<1>1. \A r \in Requests :
        /\ req'[r].at = req[r].at /\ req'[r].pair = req[r].pair /\ req'[r].brings = req[r].brings
        /\ ~upset' => /\ req'[r].age = IF req[r].at = "idle" THEN req[r].age ELSE req[r].age + 1
                      /\ 2 * req'[r].age < Grace
  <2> SUFFICES ASSUME NEW r \in Requests
               PROVE  /\ req'[r].at = req[r].at /\ req'[r].pair = req[r].pair
                      /\ req'[r].brings = req[r].brings
                      /\ ~upset' =>
                            /\ req'[r].age = IF req[r].at = "idle" THEN req[r].age
                                             ELSE req[r].age + 1
                            /\ 2 * req'[r].age < Grace
    OBVIOUS
  <2>1. req'[r] = Aged(req[r])
    BY DEF Tick
  <2>2. /\ req'[r].at = req[r].at /\ req'[r].pair = req[r].pair /\ req'[r].brings = req[r].brings
        /\ req'[r].age \in {req[r].age, req[r].age + 1}
    BY <2>1 DEF Aged, TypeOK
  <2>3. ASSUME ~upset'
        PROVE  /\ req'[r].age = IF req[r].at = "idle" THEN req[r].age ELSE req[r].age + 1
               /\ 2 * req'[r].age < Grace
    <3>1. ~Slow(req'[r])
      BY <2>3 DEF Tick
    <3>2. 2 * req'[r].age < Grace
      BY <2>2, <3>1, Fields, SessionsAssumption DEF Slow
    <3>3. CASE req[r].at = "idle" \/ (req[r].at \in Handling /\ Slow(req[r]))
      BY <2>1, <3>1, <3>2, <3>3 DEF Aged
    <3>4. CASE ~(req[r].at = "idle" \/ (req[r].at \in Handling /\ Slow(req[r])))
      BY <2>1, <3>2, <3>4 DEF Aged, TypeOK
    <3>5. QED BY <3>3, <3>4
  <2>4. QED BY <2>2, <2>3
<1>2. \A p \in Pairs : session[p] = "revoked" => revokedAge'[p] <= revokedAge[p] + 1
  <2>1. \A p \in Pairs : revokedAge[p] \in 0..Grace
    BY DEF TypeOK
  <2>2. \A p \in Pairs : session[p] = "revoked" => revokedAge'[p] = Older(revokedAge[p], Grace)
    BY DEF Tick
  <2>3. QED BY <2>1, <2>2, SessionsAssumption DEF Older
<1>3. /\ UNCHANGED <<issued, session, jar>> /\ (upset => upset')
      /\ \A p \in Pairs : session[p] = "live" => (p \in loose' <=> p \in loose)
  BY DEF Tick
<1>4. QED BY <1>1, <1>2, <1>3 DEF Ages

\* Every step is one of them.
LEMMA StepMoves ==
  ASSUME TypeOK, [Next]_vars
  PROVE  Moved
<1>1. CASE Tick
  BY <1>1, TickAges DEF Moved
<1>2. CASE Deactivate \/ Reactivate \/ (\E p \in Pairs : Expire(p)) \/ UNCHANGED vars
  BY <1>2 DEF Deactivate, Reactivate, Expire, vars, rows, memo, history, Stays, SameRows, Moved
<1>5. CASE ChangePassword
  BY <1>5 DEF ChangePassword, Locks, Moved
<1>3. ASSUME NEW r \in Requests,
             \/ Send(r) \/ Hit(r) \/ Expired(r) \/ Lookup(r) \/ Looked(r)
             \/ Find(r) \/ Owner(r) \/ Revoke(r) \/ Create(r)
             \/ Login(r) \/ Logout(r) \/ Destroy(r) \/ Receive(r) \/ Lose(r)
      PROVE  Moved
  <2>1. \/ Walks(r) \/ Sends(r) \/ Revokes(r) \/ Creates(r)
        \/ LogsIn(r) \/ LogsOut(r) \/ Destroys(r) \/ Receives(r) \/ Loses(r)
    <3>1. CASE Hit(r) \/ Expired(r) \/ Lookup(r) \/ Looked(r) \/ Find(r) \/ Owner(r)
      BY <3>1, WalkSteps
    <3>2. CASE Send(r) \/ Revoke(r) \/ Create(r) \/ Login(r) \/ Logout(r) \/ Destroy(r) \/ Receive(r) \/ Lose(r)
      BY <3>2, OtherSteps
    <3>3. QED BY <1>3, <3>1, <3>2
  <2>2. QED BY <2>1 DEF Moved
<1>4. QED BY <1>1, <1>2, <1>3, <1>5 DEF Next

-----------------------------------------------------------------------------
(* Every step keeps each part of the invariant *)

\* Rows are created in order, and a request carries what was created.
LEMMA OrderStep ==
  ASSUME TypeOK, InOrder, Moved
  PROVE  InOrder'
<1> USE Fields, PairNumbers
<1>1. CASE Ages
  BY <1>1 DEF Ages, TypeOK, InOrder
<1>2. CASE Stays
  BY <1>2 DEF Stays, SameRows, TypeOK, InOrder
<1>3. ASSUME NEW r \in Requests, Walks(r) PROVE InOrder'
  BY <1>3 DEF Walks, SameRows, Ends, Moves, Places, TypeOK, InOrder
<1>4. ASSUME NEW r \in Requests, Sends(r) PROVE InOrder'
  BY <1>4 DEF Sends, SameRows, At, Places, TypeOK, InOrder
<1>5. ASSUME NEW r \in Requests, Revokes(r) PROVE InOrder'
  BY <1>5 DEF Revokes, At, Moves, Places, Writes, TypeOK, InOrder
<1>6. ASSUME NEW r \in Requests, Creates(r) PROVE InOrder'
  BY <1>6 DEF Creates, Places, Writes, TypeOK, InOrder
<1>7. ASSUME NEW r \in Requests, LogsIn(r) PROVE InOrder'
  BY <1>7 DEF LogsIn, SameRows, At, Places, TypeOK, InOrder
<1>8. ASSUME NEW r \in Requests, LogsOut(r) PROVE InOrder'
  BY <1>8 DEF LogsOut, SameRows, At, Places, TypeOK, InOrder
<1>9. ASSUME NEW r \in Requests, Destroys(r) PROVE InOrder'
  BY <1>9 DEF Destroys, At, Moves, Places, Writes, TypeOK, InOrder
<1>10. ASSUME NEW r \in Requests, Receives(r) PROVE InOrder'
  BY <1>10 DEF Receives, SameRows, Ends, Places, TypeOK, InOrder
<1>11. ASSUME NEW r \in Requests, Loses(r) PROVE InOrder'
  BY <1>11 DEF Loses, SameRows, Ends, Places, TypeOK, InOrder
<1>12. CASE Locks
  BY <1>12 DEF Locks, TypeOK, InOrder
<1>13. QED BY <1>1, <1>2, <1>3, <1>4, <1>5, <1>6, <1>7, <1>8, <1>9, <1>10, <1>11, <1>12 DEF Moved

\* What a request carries fits its step.
LEMMA CarryStep ==
  ASSUME TypeOK, InOrder, Carrying, Moved
  PROVE  Carrying'
<1> USE Fields, PairNumbers
<1>1. CASE Ages
  BY <1>1 DEF Ages, Carrying, TypeOK
<1>2. CASE Stays
  BY <1>2 DEF Stays, SameRows, Carrying, TypeOK
<1>3. ASSUME NEW r \in Requests, Walks(r) PROVE Carrying'
  BY <1>3 DEF Walks, SameRows, Ends, Moves, Places, Carrying, TypeOK
<1>4. ASSUME NEW r \in Requests, Sends(r) PROVE Carrying'
  BY <1>4 DEF Sends, SameRows, At, Places, Carrying, TypeOK
<1>5. ASSUME NEW r \in Requests, Revokes(r) PROVE Carrying'
  BY <1>5 DEF Revokes, At, Moves, Places, Writes, Carrying, TypeOK
<1>6. ASSUME NEW r \in Requests, Creates(r) PROVE Carrying'
  BY <1>6 DEF Creates, Places, Writes, Carrying, TypeOK
<1>7. ASSUME NEW r \in Requests, LogsIn(r) PROVE Carrying'
  BY <1>7 DEF LogsIn, SameRows, At, Places, Carrying, TypeOK
<1>8. ASSUME NEW r \in Requests, LogsOut(r) PROVE Carrying'
  BY <1>8 DEF LogsOut, SameRows, At, Places, Carrying, TypeOK
<1>9. ASSUME NEW r \in Requests, Destroys(r) PROVE Carrying'
  BY <1>9 DEF Destroys, At, Moves, Places, Writes, Carrying, TypeOK
<1>10. ASSUME NEW r \in Requests, Receives(r) PROVE Carrying'
  BY <1>10 DEF Receives, SameRows, Ends, Places, Carrying, TypeOK
<1>11. ASSUME NEW r \in Requests, Loses(r) PROVE Carrying'
  BY <1>11 DEF Loses, SameRows, Ends, Places, Carrying, TypeOK
<1>12. CASE Locks
  BY <1>12 DEF Locks, Carrying, TypeOK
<1>13. QED BY <1>1, <1>2, <1>3, <1>4, <1>5, <1>6, <1>7, <1>8, <1>9, <1>10, <1>11, <1>12 DEF Moved

\* What is brought is new: it was created after everything else, and nobody else
\* revokes it before it is received.
LEMMA BroughtStep ==
  ASSUME TypeOK, InOrder, Carrying, BroughtIsNew, Moved
  PROVE  BroughtIsNew'
<1> USE Fields, PairNumbers
<1>1. CASE Ages
  BY <1>1 DEF Ages, TypeOK, InOrder, Carrying, BroughtIsNew
<1>2. CASE Stays
  BY <1>2 DEF Stays, SameRows, TypeOK, InOrder, Carrying, BroughtIsNew
<1>3. ASSUME NEW r \in Requests, Walks(r) PROVE BroughtIsNew'
  BY <1>3 DEF Walks, SameRows, Ends, Moves, Places, TypeOK, InOrder, Carrying, BroughtIsNew
<1>4. ASSUME NEW r \in Requests, Sends(r) PROVE BroughtIsNew'
  BY <1>4 DEF Sends, SameRows, At, Places, TypeOK, InOrder, Carrying, BroughtIsNew
<1>5. ASSUME NEW r \in Requests, Revokes(r) PROVE BroughtIsNew'
  BY <1>5 DEF Revokes, At, Moves, Places, Writes, TypeOK, InOrder, Carrying, BroughtIsNew
<1>6. ASSUME NEW r \in Requests, Creates(r) PROVE BroughtIsNew'
  BY <1>6 DEF Creates, Places, Writes, TypeOK, InOrder, Carrying, BroughtIsNew
<1>7. ASSUME NEW r \in Requests, LogsIn(r) PROVE BroughtIsNew'
  BY <1>7 DEF LogsIn, SameRows, At, Places, TypeOK, InOrder, Carrying, BroughtIsNew
<1>8. ASSUME NEW r \in Requests, LogsOut(r) PROVE BroughtIsNew'
  BY <1>8 DEF LogsOut, SameRows, At, Places, TypeOK, InOrder, Carrying, BroughtIsNew
<1>9. ASSUME NEW r \in Requests, Destroys(r) PROVE BroughtIsNew'
  BY <1>9 DEF Destroys, At, Moves, Places, Writes, TypeOK, InOrder, Carrying, BroughtIsNew
<1>10. ASSUME NEW r \in Requests, Receives(r) PROVE BroughtIsNew'
  BY <1>10 DEF Receives, SameRows, Ends, Places, TypeOK, InOrder, Carrying, BroughtIsNew
<1>11. ASSUME NEW r \in Requests, Loses(r) PROVE BroughtIsNew'
  BY <1>11 DEF Loses, SameRows, Ends, Places, TypeOK, InOrder, Carrying, BroughtIsNew
<1>12. CASE Locks
  BY <1>12 DEF Locks, TypeOK, InOrder, Carrying, BroughtIsNew
<1>13. QED BY <1>1, <1>2, <1>3, <1>4, <1>5, <1>6, <1>7, <1>8, <1>9, <1>10, <1>11, <1>12 DEF Moved

\* A row that is revoked is never live again.
LEMMA ReplacedStep ==
  ASSUME TypeOK, InOrder, Carrying, ReplacedIsRevoked, Moved
  PROVE  ReplacedIsRevoked'
<1> USE Fields, PairNumbers
<1>1. CASE Ages
  BY <1>1 DEF Ages, TypeOK, InOrder, Carrying, ReplacedIsRevoked
<1>2. CASE Stays
  BY <1>2 DEF Stays, SameRows, TypeOK, InOrder, Carrying, ReplacedIsRevoked
<1>3. ASSUME NEW r \in Requests, Walks(r) PROVE ReplacedIsRevoked'
  BY <1>3 DEF Walks, SameRows, Ends, Moves, Places, TypeOK, InOrder, Carrying, ReplacedIsRevoked
<1>4. ASSUME NEW r \in Requests, Sends(r) PROVE ReplacedIsRevoked'
  BY <1>4 DEF Sends, SameRows, At, Places, TypeOK, InOrder, Carrying, ReplacedIsRevoked
<1>5. ASSUME NEW r \in Requests, Revokes(r) PROVE ReplacedIsRevoked'
  BY <1>5 DEF Revokes, At, Moves, Places, Writes, TypeOK, InOrder, Carrying, ReplacedIsRevoked
<1>6. ASSUME NEW r \in Requests, Creates(r) PROVE ReplacedIsRevoked'
  BY <1>6 DEF Creates, Places, Writes, TypeOK, InOrder, Carrying, ReplacedIsRevoked
<1>7. ASSUME NEW r \in Requests, LogsIn(r) PROVE ReplacedIsRevoked'
  BY <1>7 DEF LogsIn, SameRows, At, Places, TypeOK, InOrder, Carrying, ReplacedIsRevoked
<1>8. ASSUME NEW r \in Requests, LogsOut(r) PROVE ReplacedIsRevoked'
  BY <1>8 DEF LogsOut, SameRows, At, Places, TypeOK, InOrder, Carrying, ReplacedIsRevoked
<1>9. ASSUME NEW r \in Requests, Destroys(r) PROVE ReplacedIsRevoked'
  BY <1>9 DEF Destroys, At, Moves, Places, Writes, TypeOK, InOrder, Carrying, ReplacedIsRevoked
<1>10. ASSUME NEW r \in Requests, Receives(r) PROVE ReplacedIsRevoked'
  BY <1>10 DEF Receives, SameRows, Ends, Places, TypeOK, InOrder, Carrying, ReplacedIsRevoked
<1>11. ASSUME NEW r \in Requests, Loses(r) PROVE ReplacedIsRevoked'
  BY <1>11 DEF Loses, SameRows, Ends, Places, TypeOK, InOrder, Carrying, ReplacedIsRevoked
<1>12. CASE Locks
  BY <1>12 DEF Locks, TypeOK, InOrder, Carrying, ReplacedIsRevoked
<1>13. QED BY <1>1, <1>2, <1>3, <1>4, <1>5, <1>6, <1>7, <1>8, <1>9, <1>10, <1>11, <1>12 DEF Moved

\* The rotation of the pair of the browser is under way until it is received: the
\* request that revokes a row brings the new pair, and only a logout does not.
LEMMA JarStep ==
  ASSUME TypeOK, TypeOK', InOrder, Carrying, BroughtIsNew, JarRotates, Moved
  PROVE  JarRotates'
<1> USE Fields, PairNumbers
<1> SUFFICES ASSUME ~upset', jar' # none, session'[jar'] = "revoked"
             PROVE  \E r \in Requests : Rotates(r)'
  BY DEF JarRotates, Rotates
<1> jar \in {none} \cup Pairs /\ \A p \in Pairs : revokedAge[p] \in Nat /\ revokedAge'[p] \in Nat
  BY SessionsAssumption DEF TypeOK
<1>1. CASE Ages
  <2>1. PICK z \in Requests : Rotates(z)
    BY <1>1 DEF JarRotates, Ages
  <2>2. jar \in Pairs
    BY <1>1, <2>1 DEF Rotates, Ages
  <2>3. revokedAge'[jar] <= revokedAge[jar] + 1
    BY <1>1, <2>1, <2>2 DEF Rotates, Ages
  <2>4. Rotates(z)'
    BY <1>1, <2>1, <2>2, <2>3 DEF Rotates, Ages
  <2>5. QED BY <2>4
<1>2. CASE Stays
  <2>1. PICK z \in Requests : Rotates(z)
    BY <1>2 DEF JarRotates, Stays, SameRows
  <2>2. Rotates(z)'
    BY <1>2, <2>1 DEF Rotates, InOrder, Stays, SameRows
  <2>3. QED BY <2>2
<1>3. ASSUME NEW r \in Requests, Walks(r) PROVE \E z \in Requests : Rotates(z)'
  <2>1. PICK z \in Requests : Rotates(z)
    BY <1>3 DEF JarRotates, Walks, SameRows, Ends, Moves, Places
  <2>2. Rotates(z)'
    BY <1>3, <2>1 DEF Rotates, InOrder, Walks, SameRows, Ends, Moves, Places
  <2>3. QED BY <2>2
<1>4. ASSUME NEW r \in Requests, Sends(r) PROVE \E z \in Requests : Rotates(z)'
  <2>1. PICK z \in Requests : Rotates(z)
    BY <1>4 DEF JarRotates, Sends, SameRows, At, Places
  <2>2. Rotates(z)'
    BY <1>4, <2>1 DEF Rotates, InOrder, Sends, SameRows, At, Places
  <2>3. QED BY <2>2
<1>5. ASSUME NEW r \in Requests, Revokes(r) PROVE \E z \in Requests : Rotates(z)'
  <2>1. CASE req[r].pair = jar
    <3>1. Rotates(r)'
      BY <1>5, <2>1 DEF Rotates, Revokes, At, Moves, Places, Writes
    <3>2. QED BY <3>1
  <2>2. CASE req[r].pair # jar
    <3>1. PICK z \in Requests : Rotates(z)
      BY <1>5, <2>2 DEF JarRotates, Revokes, At, Moves, Places, Writes
    <3>2. Rotates(z)'
      BY <1>5, <2>2, <3>1 DEF Rotates, Revokes, At, Moves, Places, Writes
    <3>3. QED BY <3>2
  <2>3. QED BY <2>1, <2>2
<1>6. ASSUME NEW r \in Requests, Creates(r) PROVE \E z \in Requests : Rotates(z)'
  <2>1. PICK z \in Requests : Rotates(z)
    BY <1>6 DEF JarRotates, Creates, Places, Writes
  <2>2. Rotates(z)'
    BY <1>6, <2>1 DEF Rotates, InOrder, Creates, Places, Writes
  <2>3. QED BY <2>2
<1>7. ASSUME NEW r \in Requests, LogsIn(r) PROVE \E z \in Requests : Rotates(z)'
  <2>1. PICK z \in Requests : Rotates(z)
    BY <1>7 DEF JarRotates, LogsIn, SameRows, At, Places
  <2>2. Rotates(z)'
    BY <1>7, <2>1 DEF Rotates, InOrder, LogsIn, SameRows, At, Places
  <2>3. QED BY <2>2
<1>8. ASSUME NEW r \in Requests, LogsOut(r) PROVE \E z \in Requests : Rotates(z)'
  BY <1>8 DEF LogsOut
<1>9. ASSUME NEW r \in Requests, Destroys(r) PROVE \E z \in Requests : Rotates(z)'
  BY <1>9 DEF Destroys, At, Carrying
<1>10. ASSUME NEW r \in Requests, Receives(r) PROVE \E z \in Requests : Rotates(z)'
  BY <1>10 DEF Receives, SameRows, Ends, Places, BroughtIsNew
<1>11. ASSUME NEW r \in Requests, Loses(r) PROVE \E z \in Requests : Rotates(z)'
  BY <1>11 DEF Loses
<1>12. CASE Locks
  BY <1>12 DEF Locks
<1>13. QED BY <1>1, <1>2, <1>3, <1>4, <1>5, <1>6, <1>7, <1>8, <1>9, <1>10, <1>11, <1>12 DEF Moved

\* As long as nothing upsets it, time makes no request slow.
LEMMA InTimeStep ==
  ASSUME TypeOK, InTime, Moved
  PROVE  InTime'
<1> USE Fields, SessionsAssumption
<1>1. CASE Ages
  BY <1>1 DEF Ages, InTime
<1>2. CASE Stays \/ Locks
  BY <1>2 DEF Stays, Locks, InTime
<1>3. ASSUME NEW r \in Requests, ~upset',
             \/ Walks(r) \/ Sends(r) \/ Revokes(r) \/ Creates(r)
             \/ LogsIn(r) \/ LogsOut(r) \/ Destroys(r) \/ Receives(r) \/ Loses(r)
      PROVE  /\ ~upset /\ req'[r].age \in {0, req[r].age}
             /\ \A q \in Requests \ {r} : req'[q] = req[q]
  BY <1>3 DEF Walks, Sends, Revokes, Creates, LogsIn, LogsOut, Destroys, Receives, Loses,
              Ends, Moves, Places
<1>4. ASSUME NEW r \in Requests, ~upset',
             \/ Walks(r) \/ Sends(r) \/ Revokes(r) \/ Creates(r)
             \/ LogsIn(r) \/ LogsOut(r) \/ Destroys(r) \/ Receives(r) \/ Loses(r)
      PROVE  \A q \in Requests : 2 * req'[q].age < Grace
  <2>1. /\ ~upset /\ req'[r].age \in {0, req[r].age}
        /\ \A q \in Requests \ {r} : req'[q] = req[q]
    BY <1>3, <1>4
  <2>2. \A q \in Requests : 2 * req[q].age < Grace
    BY <2>1 DEF InTime
  <2>3. 2 * req'[r].age < Grace
    BY <2>1, <2>2
  <2>4. QED BY <2>1, <2>2, <2>3
<1>5. QED BY <1>1, <1>2, <1>4 DEF Moved, InTime

\* What a request carries was the pair of the browser when it was sent, so it is not
\* revoked for longer than the requests under way take.
LEMMA CarriedStep ==
  ASSUME TypeOK, TypeOK', InOrder, Carrying, JarRotates, InTime, CarriedWorks, Moved
  PROVE  CarriedWorks'
<1> USE Fields, PairNumbers
<1> SUFFICES ASSUME ~upset', NEW q \in Requests,
                    req'[q].pair # none, session'[req'[q].pair] = "revoked"
             PROVE  2 * revokedAge'[req'[q].pair] < Grace + 2 * req'[q].age
  BY DEF CarriedWorks
<1> \A p \in Pairs : revokedAge[p] \in Nat /\ revokedAge'[p] \in Nat
  BY SessionsAssumption DEF TypeOK
<1> Grace \in Nat \ {0} /\ \A z \in Requests : req'[z].age \in Nat
  <2>1. \A z \in Requests : req'[z].age \in 0..(MaxTime + Grace)
    BY DEF TypeOK
  <2>2. QED BY <2>1, SessionsAssumption
<1>1. CASE Ages
  <2>1. req[q].pair \in Pairs /\ session[req[q].pair] = "revoked" /\ req[q].at # "idle" /\ ~upset
    BY <1>1 DEF Ages, Carrying
  <2>2. revokedAge'[req[q].pair] <= revokedAge[req[q].pair] + 1
    BY <1>1, <2>1 DEF Ages
  <2>3. 2 * revokedAge[req[q].pair] < Grace + 2 * req[q].age
    BY <2>1 DEF CarriedWorks
  <2>4. QED BY <1>1, <2>1, <2>2, <2>3 DEF Ages
<1>2. CASE Stays
  BY <1>2 DEF Stays, SameRows, CarriedWorks
<1>3. ASSUME NEW r \in Requests, Walks(r) PROVE 2 * revokedAge'[req'[q].pair] < Grace + 2 * req'[q].age
  BY <1>3 DEF Walks, SameRows, Ends, Moves, Places, CarriedWorks
<1>4. ASSUME NEW r \in Requests, Sends(r) PROVE 2 * revokedAge'[req'[q].pair] < Grace + 2 * req'[q].age
  <2>1. CASE q = r
    <3>1. PICK z \in Requests : Rotates(z)
      BY <1>4, <2>1 DEF JarRotates, Sends, SameRows, At, Places
    <3>2. 2 * req[z].age < Grace /\ req'[q].age = 0 /\ req'[q].pair = jar /\ jar \in Pairs
      BY <1>4, <2>1 DEF Sends, InTime, Places, TypeOK
    <3>3. revokedAge'[jar] <= req[z].age
      BY <1>4, <3>1 DEF Rotates, Sends, SameRows
    <3>4. QED BY <3>2, <3>3
  <2>2. CASE q # r
    BY <1>4, <2>2 DEF CarriedWorks, Sends, SameRows, At, Places
  <2>3. QED BY <2>1, <2>2
<1>5. ASSUME NEW r \in Requests, Revokes(r) PROVE 2 * revokedAge'[req'[q].pair] < Grace + 2 * req'[q].age
  BY <1>5 DEF Revokes, At, Moves, Places, Writes, CarriedWorks
<1>6. ASSUME NEW r \in Requests, Creates(r) PROVE 2 * revokedAge'[req'[q].pair] < Grace + 2 * req'[q].age
  BY <1>6 DEF Creates, Places, Writes, CarriedWorks, InOrder
<1>7. ASSUME NEW r \in Requests, LogsIn(r) PROVE 2 * revokedAge'[req'[q].pair] < Grace + 2 * req'[q].age
  BY <1>7 DEF LogsIn, SameRows, At, Places, CarriedWorks
<1>8. ASSUME NEW r \in Requests, LogsOut(r) PROVE 2 * revokedAge'[req'[q].pair] < Grace + 2 * req'[q].age
  BY <1>8 DEF LogsOut
<1>9. ASSUME NEW r \in Requests, Destroys(r) PROVE 2 * revokedAge'[req'[q].pair] < Grace + 2 * req'[q].age
  BY <1>9 DEF Destroys, At, Carrying
<1>10. ASSUME NEW r \in Requests, Receives(r) PROVE 2 * revokedAge'[req'[q].pair] < Grace + 2 * req'[q].age
  BY <1>10 DEF Receives, SameRows, Ends, Places, CarriedWorks
<1>11. ASSUME NEW r \in Requests, Loses(r) PROVE 2 * revokedAge'[req'[q].pair] < Grace + 2 * req'[q].age
  BY <1>11 DEF Loses
<1>12. CASE Locks
  BY <1>12 DEF Locks
<1>13. QED BY <1>1, <1>2, <1>3, <1>4, <1>5, <1>6, <1>7, <1>8, <1>9, <1>10, <1>11, <1>12 DEF Moved

\* A row that is live stays in hands: the jar gives up a pair only for one that the
\* same request brings, after having it revoked, or the history notes it.
LEMMA HeldStep ==
  ASSUME TypeOK, InOrder, Carrying, ReplacedIsRevoked, SessionsHeld, Moved
  PROVE  SessionsHeld'
<1> USE Fields, PairNumbers
<1> SUFFICES ASSUME NEW p \in Pairs \ loose', session'[p] = "live"
             PROVE  p = jar' \/ \E r \in Requests : req'[r].brings = p
  BY DEF SessionsHeld
<1>1. CASE Ages
  BY <1>1 DEF Ages, SessionsHeld, Carrying, ReplacedIsRevoked
<1>2. CASE Stays
  BY <1>2 DEF Stays, SameRows, SessionsHeld, Carrying, ReplacedIsRevoked
<1>3. ASSUME NEW r \in Requests, Walks(r) PROVE p = jar' \/ \E z \in Requests : req'[z].brings = p
  BY <1>3 DEF Walks, SameRows, Ends, Moves, Places, SessionsHeld, Carrying, ReplacedIsRevoked
<1>4. ASSUME NEW r \in Requests, Sends(r) PROVE p = jar' \/ \E z \in Requests : req'[z].brings = p
  BY <1>4 DEF Sends, SameRows, At, Places, SessionsHeld, Carrying, ReplacedIsRevoked
<1>5. ASSUME NEW r \in Requests, Revokes(r) PROVE p = jar' \/ \E z \in Requests : req'[z].brings = p
  BY <1>5 DEF Revokes, At, Moves, Places, Writes, SessionsHeld, Carrying, ReplacedIsRevoked
<1>6. ASSUME NEW r \in Requests, Creates(r) PROVE p = jar' \/ \E z \in Requests : req'[z].brings = p
  BY <1>6 DEF Creates, Places, Writes, SessionsHeld, Carrying, ReplacedIsRevoked
<1>7. ASSUME NEW r \in Requests, LogsIn(r) PROVE p = jar' \/ \E z \in Requests : req'[z].brings = p
  BY <1>7 DEF LogsIn, SameRows, At, Places, SessionsHeld, Carrying, ReplacedIsRevoked
<1>8. ASSUME NEW r \in Requests, LogsOut(r) PROVE p = jar' \/ \E z \in Requests : req'[z].brings = p
  BY <1>8 DEF LogsOut, SameRows, At, Places, SessionsHeld, Carrying, ReplacedIsRevoked
<1>9. ASSUME NEW r \in Requests, Destroys(r) PROVE p = jar' \/ \E z \in Requests : req'[z].brings = p
  BY <1>9 DEF Destroys, At, Moves, Places, Writes, SessionsHeld, Carrying, ReplacedIsRevoked
<1>10. ASSUME NEW r \in Requests, Receives(r) PROVE p = jar' \/ \E z \in Requests : req'[z].brings = p
  BY <1>10 DEF Receives, SameRows, Ends, Places, SessionsHeld, Carrying, ReplacedIsRevoked
<1>11. ASSUME NEW r \in Requests, Loses(r) PROVE p = jar' \/ \E z \in Requests : req'[z].brings = p
  BY <1>11 DEF Loses, SameRows, Ends, Places, SessionsHeld, Carrying, ReplacedIsRevoked
<1>12. CASE Locks
  BY <1>12 DEF Locks
<1>13. QED BY <1>1, <1>2, <1>3, <1>4, <1>5, <1>6, <1>7, <1>8, <1>9, <1>10, <1>11, <1>12 DEF Moved

\* The user was active not before the request was sent that found that out, and
\* the memo is told by such a request.
LEMMA ActiveStep ==
  ASSUME TypeOK, TypeOK', KnownActive, [Next]_vars
  PROVE  KnownActive'
<1> USE SessionsAssumption DEF rows, memo, history
<1>1. inactive \in Nat /\ inactive' \in Nat /\ CacheTTL \in Nat \ {0} /\ MaxTime \in Nat
  BY DEF TypeOK, StaleLimit
<1>2. \A q \in Requests :
        /\ req[q].age \in Nat /\ req'[q].age \in Nat
        /\ req[q].at \notin Handling => req[q].age <= MaxTime
  <2>1. \A q \in Requests : req'[q] \in ReqType
    BY DEF TypeOK, ReqType
  <2>2. \A q \in Requests : req'[q].age \in Nat
    BY <2>1 DEF ReqType
  <2>3. QED BY <2>2, Fields
<1>3. \A p \in Pairs : cachedAge[p] \in Nat /\ cachedAge'[p] \in Nat
  BY DEF TypeOK
<1>4. (active => inactive = 0)'
  <2>1. CASE Tick
    BY <2>1 DEF Tick
  <2>2. CASE Deactivate \/ Reactivate
    BY <2>2 DEF Deactivate, Reactivate
  <2>3. CASE UNCHANGED <<active, inactive>>
    BY <2>3 DEF KnownActive
  <2>4. QED BY <2>1, <2>2, <2>3 DEF Next, vars, ChangePassword, Expire, Send, Hit, Expired, Lookup, Looked, Find, Owner, Revoke, Create, Login, Logout, Destroy, Receive, Lose
<1>5. inactive' = inactive \/ inactive' = 0 \/ Tick
  BY DEF Next, vars, Deactivate, Reactivate, ChangePassword, Expire, Send, Hit, Expired, Lookup, Looked, Find, Owner, Revoke, Create, Login, Logout, Destroy, Receive, Lose
<1>6. ASSUME Tick PROVE inactive' <= inactive + 1
  <2>1. StaleLimit \in Nat /\ inactive \in 0..StaleLimit
    BY DEF TypeOK, StaleLimit
  <2>2. inactive' = IF active THEN 0 ELSE Older(inactive, StaleLimit)
    BY <1>6 DEF Tick
  <2>3. QED BY <2>1, <2>2 DEF Older
<1>7. ASSUME NEW q \in Requests,
             (req[q].at \in {"owned", "revoked"} \/ (req[q].at = "looked" /\ req[q].seen))'
      PROVE  inactive' <= req'[q].age
  <2>1. CASE Tick
    <3>1. /\ req'[q].at = req[q].at /\ req'[q].seen = req[q].seen
          /\ req[q].at \notin {"idle"} \cup Handling => req'[q].age = req[q].age + 1
      BY <2>1 DEF Tick, Aged, TypeOK
    <3>2. inactive <= req[q].age
      BY <1>7, <3>1 DEF KnownActive
    <3>3. req[q].at \notin {"idle"} \cup Handling
      BY <1>7, <3>1 DEF Handling
    <3>4. QED BY <1>1, <1>2, <1>6, <2>1, <3>1, <3>2, <3>3
  <2>2. CASE req'[q] = req[q]
    <3>1. inactive <= req[q].age
      BY <1>7, <2>2 DEF KnownActive
    <3>2. QED BY <1>1, <1>2, <1>5, <2>1, <2>2, <3>1
  <2>3. CASE Owner(q)
    <3>1. inactive' = 0
      BY <2>3, <1>7, IdleEnds DEF Owner, Refuse, Ends, Places, KnownActive
    <3>2. QED BY <1>2, <3>1
  <2>4. CASE Revoke(q)
    <3>1. req'[q].age = req[q].age /\ req[q].at = "owned" /\ inactive' = inactive
      BY <2>4, OtherSteps DEF Revokes, Moves, Places, At, Revoke
    <3>2. QED BY <3>1 DEF KnownActive
  <2>5. CASE Lookup(q)
    <3>1. req'[q].seen = active /\ req'[q].at = "looked" /\ inactive' = inactive
      BY <2>5 DEF Lookup, TypeOK
    <3>2. inactive = 0
      BY <1>7, <3>1 DEF KnownActive
    <3>3. QED BY <1>2, <3>1, <3>2
  <2>6. CASE Hit(q) \/ Expired(q) \/ Looked(q) \/ Find(q)
    <3>1. req'[q].at \in {"idle", "refresh", "found"}
      BY <2>6, IdleEnds, GotoMoves DEF Hit, Expired, Looked, Find, LetIn, Refuse, Ends, Moves, Places
    <3>2. QED BY <1>7, <3>1
  <2>7. CASE Send(q) \/ Create(q) \/ Login(q) \/ Logout(q) \/ Destroy(q) \/ Receive(q) \/ Lose(q)
    <3>1. req'[q].at \in {"session", "answer", "login", "logout", "cleared", "idle"}
      BY <2>7, OtherSteps DEF Sends, Creates, LogsIn, LogsOut, Destroys, Receives, Loses, Ends, Moves, Places
    <3>2. QED BY <1>7, <3>1
  <2>8. ASSUME NEW r \in Requests, r # q,
               \/ Send(r) \/ Hit(r) \/ Expired(r) \/ Lookup(r) \/ Looked(r)
               \/ Find(r) \/ Owner(r) \/ Revoke(r) \/ Create(r)
               \/ Login(r) \/ Logout(r) \/ Destroy(r) \/ Receive(r) \/ Lose(r)
        PROVE  req'[q] = req[q]
    <3>1. CASE Hit(r) \/ Expired(r) \/ Lookup(r) \/ Looked(r) \/ Find(r) \/ Owner(r)
      BY <2>8, <3>1, WalkSteps DEF Walks, Ends, Moves, Places
    <3>2. CASE Send(r) \/ Revoke(r) \/ Create(r) \/ Login(r) \/ Logout(r) \/ Destroy(r) \/ Receive(r) \/ Lose(r)
      BY <2>8, <3>2, OtherSteps DEF Sends, Revokes, Creates, LogsIn, LogsOut, Destroys, Receives, Loses, Ends, Moves, Places
    <3>3. QED BY <2>8, <3>1, <3>2
  <2>9. CASE Deactivate \/ Reactivate \/ ChangePassword \/ (\E p \in Pairs : Expire(p)) \/ UNCHANGED vars
    BY <2>9, <2>2 DEF Deactivate, Reactivate, ChangePassword, Expire, vars
  <2>10. QED BY <2>1, <2>2, <2>3, <2>4, <2>5, <2>6, <2>7, <2>8, <2>9 DEF Next
<1>8. ASSUME NEW p \in Pairs, cached'[p] = "user"
      PROVE  cachedAge'[p] < CacheTTL /\ inactive' <= cachedAge'[p] + MaxTime
  <2>1. CASE Tick
    <3>1. cached[p] = "user" /\ cachedAge'[p] = cachedAge[p] + 1 /\ cachedAge[p] + 1 < CacheTTL
      BY <1>8, <2>1 DEF Tick
    <3>2. QED BY <1>1, <1>3, <1>6, <2>1, <3>1 DEF KnownActive
  <2>2. CASE cached'[p] = cached[p] /\ cachedAge'[p] = cachedAge[p]
    <3>1. cachedAge[p] < CacheTTL /\ inactive <= cachedAge[p] + MaxTime
      BY <1>8, <2>2 DEF KnownActive
    <3>2. QED BY <1>1, <1>3, <1>5, <2>1, <2>2, <3>1
  <2>3. ASSUME NEW r \in Requests, Looked(r), p = req[r].pair
        PROVE  cachedAge'[p] < CacheTTL /\ inactive' <= cachedAge'[p] + MaxTime
    <3>1. req[r].seen /\ req[r].at = "looked" /\ cachedAge'[p] = 0 /\ inactive' = inactive
      <4>1. cached' = [cached EXCEPT ![p] = IF req[r].seen THEN "user" ELSE "null"]
        BY <2>3 DEF Looked
      <4>2. cachedAge' = [cachedAge EXCEPT ![p] = 0]
        BY <2>3 DEF Looked
      <4>3. inactive' = inactive /\ req[r].at = "looked"
        BY <2>3 DEF Looked, At
      <4>4. QED BY <1>8, <4>1, <4>2, <4>3 DEF TypeOK
    <3>2. inactive <= req[r].age
      BY <3>1 DEF KnownActive
    <3>3. QED BY <1>1, <1>2, <3>1, <3>2 DEF Handling
  <2>4. ASSUME NEW r \in Requests, Destroy(r), p = req[r].pair
        PROVE  FALSE
    <3>1. cached' = [cached EXCEPT ![p] = "none"]
      BY <2>4 DEF Destroy
    <3>2. QED BY <1>8, <3>1 DEF TypeOK
  <2>5. ASSUME NEW r \in Requests, Looked(r) \/ Destroy(r), p # req[r].pair
        PROVE  cached'[p] = cached[p] /\ cachedAge'[p] = cachedAge[p]
    <3>1. /\ \E v : cached' = [cached EXCEPT ![req[r].pair] = v]
          /\ \E v : cachedAge' = [cachedAge EXCEPT ![req[r].pair] = v]
      BY <2>5 DEF Looked, Destroy
    <3>2. QED BY <2>5, <3>1 DEF TypeOK
  <2>6. CASE UNCHANGED <<cached, cachedAge>>
    BY <2>6, <2>2
  <2>7. QED BY <2>1, <2>2, <2>3, <2>4, <2>5, <2>6 DEF Next, vars, Deactivate, Reactivate, ChangePassword, Expire,
            Send, Hit, Expired, Lookup, Find, Owner, Revoke, Create, Login, Logout, Receive, Lose
<1>9. QED BY <1>4, <1>7, <1>8 DEF KnownActive

-----------------------------------------------------------------------------
(* The invariant *)

\* It holds before anybody has logged in.
LEMMA SessionsInitInvariant == Init => SessionsIInv
<1> SUFFICES ASSUME Init PROVE SessionsIInv
  OBVIOUS
<1> USE SessionsAssumption, PairNumbers DEF Init
<1>1. TypeOK
  <2>1. Idle \in ReqType
    BY IdleType DEF Steps
  <2>2. req \in [Requests -> ReqType]
    BY <2>1
  <2>3. 0 \in 0..MaxPairs /\ 0 \in 0..Grace /\ 0 \in 0..CacheTTL /\ 0 \in 0..StaleLimit
    BY DEF StaleLimit
  <2>4. /\ session \in [Pairs -> {"absent", "live", "revoked"}] /\ revokedAge \in [Pairs -> 0..Grace]
        /\ cached \in [Pairs -> {"none", "user", "null"}] /\ cachedAge \in [Pairs -> 0..CacheTTL]
    BY <2>3
  <2>5. /\ active \in BOOLEAN /\ issued \in 0..MaxPairs /\ expired \subseteq Pairs
        /\ jar \in {none} \cup Pairs /\ inactive \in 0..StaleLimit /\ upset \in BOOLEAN /\ loose \subseteq Pairs
    BY <2>3
  <2>6. \A r \in Requests : req[r].age <= MaxTime
    BY DEF Idle
  <2>7. QED BY <2>2, <2>4, <2>5, <2>6 DEF TypeOK, ReqType
<1>2. InOrder /\ Carrying /\ BroughtIsNew /\ ReplacedIsRevoked
  BY DEF InOrder, Carrying, BroughtIsNew, ReplacedIsRevoked, Idle
<1>3. JarRotates /\ InTime /\ CarriedWorks /\ KnownActive /\ SessionsHeld
  BY DEF JarRotates, InTime, CarriedWorks, KnownActive, SessionsHeld, Idle
<1>4. QED BY <1>1, <1>2, <1>3 DEF SessionsIInv

\* Every step keeps it.
LEMMA SessionsStepInvariant == SessionsIInv /\ [Next]_vars => SessionsIInv'
<1> SUFFICES ASSUME SessionsIInv, [Next]_vars PROVE SessionsIInv'
  OBVIOUS
<1> USE DEF SessionsIInv
<1>1. TypeOK' /\ Moved
  BY SessionsTypeStep, StepMoves
<1>2. InOrder' /\ Carrying' /\ BroughtIsNew' /\ ReplacedIsRevoked'
  BY <1>1, OrderStep, CarryStep, BroughtStep, ReplacedStep
<1>3. JarRotates' /\ InTime' /\ CarriedWorks' /\ KnownActive' /\ SessionsHeld'
  BY <1>1, JarStep, InTimeStep, CarriedStep, ActiveStep, HeldStep
<1>4. QED BY <1>1, <1>2, <1>3

\* The invariant holds in every reachable state.
THEOREM SessionsInvariance == Spec => []SessionsIInv
  BY SessionsInitInvariant, SessionsStepInvariant, PTL DEF Spec

\* Every variable keeps its type.
THEOREM SessionsTypeCorrect == Spec => []TypeOK
<1>1. SessionsIInv => TypeOK
  BY DEF SessionsIInv
<1>2. QED BY <1>1, SessionsInvariance, PTL

\* Parallel requests all get in: as long as each one takes less than half of the
\* grace, and nobody logs out, changes the password or loses a request, the refresh
\* token of each one still works (auth.ts:179-193).
THEOREM RefreshesWork == Spec => []ParallelRefreshWorks
<1>1. SessionsIInv => ParallelRefreshWorks
  <2> SUFFICES ASSUME SessionsIInv, ~upset, NEW r \in Requests, At(r, "refresh")
               PROVE  Works(req[r].pair)
    BY DEF ParallelRefreshWorks
  <2> DEFINE p == req[r].pair
  <2>1. p \in Pairs /\ p <= issued /\ req[r].age \in Nat /\ 2 * req[r].age < Grace
    BY Fields DEF SessionsIInv, Carrying, At, InOrder, InTime
  <2>2. session[p] \in {"live", "revoked"}
    <3>1. session[p] \in {"absent", "live", "revoked"} /\ session[p] # "absent"
      BY <2>1, PairNumbers DEF SessionsIInv, TypeOK, InOrder
    <3>2. QED BY <3>1
  <2>3. CASE session[p] = "revoked"
    <3>1. 2 * revokedAge[p] < Grace + 2 * req[r].age
      BY <2>1, <2>3, PairNumbers DEF SessionsIInv, CarriedWorks
    <3>2. revokedAge[p] \in Nat
      BY <2>1, SessionsAssumption DEF SessionsIInv, TypeOK
    <3>3. QED BY <2>1, <2>3, <3>1, <3>2, SessionsAssumption DEF Works
  <2>4. QED BY <2>2, <2>3 DEF Works
<1>2. QED BY <1>1, SessionsInvariance, PTL

\* Nobody lets a deactivated user in for longer than the life of the memo and the
\* time of one request (auth.ts:90-98, 116-131).
THEOREM DeactivationEnds == Spec => []DeactivationBites
<1>1. SessionsIInv => DeactivationBites
  <2> SUFFICES ASSUME SessionsIInv, NEW r \in Requests,
                      \/ At(r, "session") /\ cached[req[r].pair] = "user"
                      \/ At(r, "looked") /\ req[r].seen
                      \/ At(r, "revoked")
               PROVE  inactive < StaleLimit
    BY DEF DeactivationBites
  <2>1. inactive \in Nat /\ CacheTTL \in Nat \ {0} /\ MaxTime \in Nat
    BY SessionsAssumption DEF SessionsIInv, TypeOK, StaleLimit
  <2>2. CASE At(r, "session") /\ cached[req[r].pair] = "user"
    <3>1. req[r].pair \in Pairs
      BY <2>2, Fields DEF SessionsIInv, Carrying, At
    <3>2. cachedAge[req[r].pair] \in Nat
      BY <3>1, SessionsAssumption DEF SessionsIInv, TypeOK
    <3>3. QED BY <2>1, <2>2, <3>1, <3>2 DEF SessionsIInv, KnownActive, StaleLimit
  <2>3. CASE (At(r, "looked") /\ req[r].seen) \/ At(r, "revoked")
    <3>1. inactive <= req[r].age /\ req[r].age \in Nat /\ req[r].age <= MaxTime
      BY <2>3, Fields DEF SessionsIInv, KnownActive, At, Handling
    <3>2. QED BY <2>1, <3>1 DEF StaleLimit
  <2>4. QED BY <2>2, <2>3
<1>2. QED BY <1>1, SessionsInvariance, PTL

\* No rotation leaves a live row behind that no browser has (auth.ts:174-222).
THEOREM LiveSessionsHeld == Spec => []SessionsHeld
<1>1. SessionsIInv => SessionsHeld
  BY DEF SessionsIInv
<1>2. QED BY <1>1, SessionsInvariance, PTL

-----------------------------------------------------------------------------
(* Users: the inductive invariant *)

Busy(r) == change[r].at \in {"found", "counted"}

\* Requests take turns from their reads to their writes.
OneAtATime == \A r, q \in Changes : Busy(r) /\ Busy(q) => r = q

\* A request that has read its target knows the role of this moment, and what it
\* found to be no removal of a super administrator it does not count.
RoleKnown ==
    \A r \in Changes : Busy(r) =>
        /\ change[r].role = user[change[r].target].role
        /\ Stage(r, "found") => change[r].role = "SUPER_ADMIN" /\ Demotes(change[r])

\* A request that will take a super administrator away leaves another.
AnotherSuper ==
    \A r \in Changes :
        Stage(r, "counted") /\ change[r].role = "SUPER_ADMIN" /\ Demotes(change[r])
            => \E a \in Supers : a # change[r].target

InTurn == ~raced => OneAtATime /\ RoleKnown /\ AnotherSuper

UsersIInv == UsersTypeOK /\ InTurn /\ SuperAdminRemains

-----------------------------------------------------------------------------

\* Two super administrators are one and another.
LEMMA CountedTwo ==
    ASSUME UsersTypeOK, NEW t, ~(Cardinality(Supers) <= 1)
    PROVE  \E a \in Supers : a # t
<1> SUFFICES ASSUME \A a \in Supers : a = t PROVE FALSE
    OBVIOUS
<1>1. Supers = {} \/ Supers = {t}
    OBVIOUS
<1>2. Cardinality(Supers) \in {0, 1}
    BY <1>1, FS_EmptySet, FS_Singleton
<1>3. QED
    BY <1>2

\* Installation leaves an active super administrator.
LEMMA UsersInitInvariant == UsersInit => UsersIInv
<1> SUFFICES ASSUME UsersInit PROVE UsersIInv
    OBVIOUS
<1>1. raced \in BOOLEAN
    BY DEF UsersInit
<1>2. UsersTypeOK
    BY <1>1 DEF UsersInit, UsersTypeOK, Accounts
<1>3. InTurn
    BY DEF UsersInit, InTurn, OneAtATime, RoleKnown, AnotherSuper, Busy, Stage, NoChange
<1>4. SuperAdminRemains
    BY DEF UsersInit, SuperAdminRemains
<1>5. QED
    BY <1>2, <1>3, <1>4 DEF UsersIInv

\* Every step keeps the types.
LEMMA UsersTypeStep == UsersTypeOK /\ [UsersNext]_usersVars => UsersTypeOK'
<1> SUFFICES ASSUME UsersTypeOK, [UsersNext]_usersVars PROVE UsersTypeOK'
    OBVIOUS
<1> USE DEF UsersTypeOK
<1>1. ASSUME NEW r \in Changes, NEW actor \in People, NEW target \in People, NEW ask \in Asks,
             Begin(r, actor, target, ask)
      PROVE  UsersTypeOK'
  <2>1. [at |-> "begun", actor |-> actor, super |-> IsSuper(actor), target |-> target,
         ask |-> ask, role |-> "none"] \in Known
    BY DEF Known, IsSuper
  <2>2. QED
    BY <1>1, <2>1 DEF Begin
<1>2. ASSUME NEW r \in Changes, FindTarget(r) PROVE UsersTypeOK'
  <2>1. change[r] \in Known
    BY <1>2 DEF FindTarget, Stage, NoChange
  <2>2. user[change[r].target].role \in Roles \cup {"none"}
    BY <2>1 DEF Known, Accounts, Gone
  <2>3. change' \in [Changes -> {NoChange} \cup Known]
    BY <1>2, <2>1, <2>2 DEF FindTarget, Over, Known
  <2>4. raced' \in BOOLEAN
    BY <1>2, Zenon DEF FindTarget
  <2>5. QED
    BY <1>2, <2>3, <2>4 DEF FindTarget
<1>3. ASSUME NEW r \in Changes, Count(r) PROVE UsersTypeOK'
  <2>1. change[r] \in Known
    BY <1>3 DEF Count, Stage, NoChange
  <2>2. QED
    BY <1>3, <2>1 DEF Count, Over, Proceed, Known
<1>4. ASSUME NEW r \in Changes, Write(r) PROVE UsersTypeOK'
  <2>1. change[r] \in Known
    BY <1>4 DEF Write, Stage, NoChange
  <2>2. user[change[r].target] # Gone /\ change[r].ask.kind # "delete"
            => Updated(user[change[r].target], change[r].ask) \in Accounts
    <3> SUFFICES ASSUME user[change[r].target] # Gone, change[r].ask.kind # "delete"
                 PROVE  Updated(user[change[r].target], change[r].ask) \in Accounts
      OBVIOUS
    <3> DEFINE row == user[change[r].target]
               ask == change[r].ask
    <3>1. row \in [role : Roles, active : BOOLEAN] /\ ask \in Puts
      BY <2>1 DEF Known, Asks, Accounts
    <3>2. (IF ask.role = "same" THEN row.role ELSE ask.role) \in Roles
      BY <3>1 DEF Puts
    <3>3. (IF ask.active = "same" THEN row.active ELSE ask.active = "yes") \in BOOLEAN
      BY <3>1
    <3>4. QED
      BY <3>2, <3>3 DEF Updated, Accounts
  <2>3. user' \in [People -> Accounts]
    BY <1>4, <2>1, <2>2 DEF Write, Known, Accounts
  <2>4. QED
    BY <1>4, <2>3 DEF Write, Over
<1>5. CASE UNCHANGED usersVars
    BY <1>5 DEF usersVars
<1>6. QED
    BY <1>1, <1>2, <1>3, <1>4, <1>5 DEF UsersNext

\* Who has read what is still true, as long as requests take turns.
LEMMA TurnStep == UsersTypeOK /\ InTurn /\ [UsersNext]_usersVars => InTurn'
<1> SUFFICES ASSUME UsersTypeOK, InTurn, [UsersNext]_usersVars, ~raced' PROVE (OneAtATime /\ RoleKnown /\ AnotherSuper)'
    BY DEF InTurn
<1>0. ~raced
    BY DEF UsersNext, usersVars, Begin, FindTarget, Count, Write
<1>h. OneAtATime /\ RoleKnown /\ AnotherSuper
    BY <1>0 DEF InTurn
<1> USE DEF UsersTypeOK, OneAtATime, RoleKnown, AnotherSuper, Busy, Stage
<1>1. ASSUME NEW r \in Changes, NEW actor \in People, NEW target \in People, NEW ask \in Asks,
             Begin(r, actor, target, ask)
      PROVE  (OneAtATime /\ RoleKnown /\ AnotherSuper)'
  <2>1. Supers' = Supers
    BY <1>1 DEF Begin, Supers, IsSuper
  <2>2. change'[r].at = "begun" /\ \A q \in Changes \ {r} : change'[q] = change[q]
    BY <1>1 DEF Begin
  <2>3. QED
    BY <1>1, <1>h, <2>1, <2>2 DEF Begin, Demotes
<1>2. ASSUME NEW r \in Changes, FindTarget(r) PROVE (OneAtATime /\ RoleKnown /\ AnotherSuper)'
  <2>1. Supers' = Supers /\ \A q \in Changes : ~Busy(q)
    BY <1>2 DEF FindTarget, Supers, IsSuper
  <2>2. \A q \in Changes \ {r} : change'[q] = change[q]
    BY <1>2 DEF FindTarget, Over
  <2>3. Busy(r)' => /\ change'[r].role = user[change'[r].target].role
                    /\ change'[r].at = "found" <=> change'[r].role = "SUPER_ADMIN" /\ Demotes(change'[r])
    <3> DEFINE role == user[change[r].target].role
               at == IF role = "SUPER_ADMIN" /\ Demotes(change[r]) THEN "found" ELSE "counted"
    <3>1. CASE role = "none" \/ ~Allowed(change[r], role)
      BY <1>2, <3>1 DEF FindTarget, Over, NoChange
    <3>2. CASE ~(role = "none" \/ ~Allowed(change[r], role))
      <4>1. change'[r] = [change[r] EXCEPT !.role = role, !.at = at]
        BY <1>2, <3>2 DEF FindTarget
      <4>2. change[r] \in Known
        BY <1>2 DEF FindTarget, NoChange
      <4>3. /\ change'[r].role = role /\ change'[r].at = at
            /\ change'[r].target = change[r].target /\ change'[r].ask = change[r].ask
        BY <4>1, <4>2 DEF Known
      <4>4. QED
        BY <4>3 DEF Demotes
    <3>3. QED
      BY <3>1, <3>2
  <2>4. QED
    BY <1>2, <2>1, <2>2, <2>3 DEF FindTarget, Demotes
<1>3. ASSUME NEW r \in Changes, Count(r) PROVE (OneAtATime /\ RoleKnown /\ AnotherSuper)'
  <2>1. Supers' = Supers /\ UNCHANGED user
    BY <1>3 DEF Count, Supers, IsSuper
  <2>2. \A q \in Changes \ {r} : change'[q] = change[q] /\ ~Busy(q)
    BY <1>3, <1>h DEF Count, Over, Proceed
  <2>3. CASE Cardinality(Supers) <= 1
    BY <1>3, <2>1, <2>2, <2>3 DEF Count, Over, NoChange, Demotes
  <2>4. CASE ~(Cardinality(Supers) <= 1)
    <3>1. \E a \in Supers : a # change[r].target
      BY <2>4, CountedTwo
    <3>2. change'[r] = [change[r] EXCEPT !.at = "counted"]
      BY <1>3, <2>4 DEF Count, Proceed
    <3>3. change'[r].at = "counted" /\ change'[r].role = change[r].role /\ change'[r].target = change[r].target
          /\ change'[r].ask = change[r].ask
      BY <1>3, <3>2 DEF Count, NoChange, Known
    <3>4. QED
      BY <1>3, <1>h, <2>1, <2>2, <3>1, <3>3 DEF Count, Demotes
  <2>5. QED
    BY <2>3, <2>4
<1>4. ASSUME NEW r \in Changes, Write(r) PROVE (OneAtATime /\ RoleKnown /\ AnotherSuper)'
  <2>1. \A q \in Changes : ~Busy(q)'
    BY <1>4, <1>h DEF Write, Over, NoChange
  <2>2. QED
    BY <2>1
<1>5. CASE UNCHANGED usersVars
    BY <1>5, <1>h DEF usersVars, Demotes, Supers, IsSuper
<1>6. QED
    BY <1>1, <1>2, <1>3, <1>4, <1>5 DEF UsersNext

\* No write of a request in its turn takes the last super administrator away.
LEMMA SuperStep ==
    UsersTypeOK /\ InTurn /\ SuperAdminRemains /\ [UsersNext]_usersVars => SuperAdminRemains'
<1> SUFFICES ASSUME UsersTypeOK, InTurn, SuperAdminRemains, [UsersNext]_usersVars, ~raced' PROVE Supers' # {}
    BY DEF SuperAdminRemains
<1>0. ~raced
    BY DEF UsersNext, usersVars, Begin, FindTarget, Count, Write
<1>h. RoleKnown /\ AnotherSuper /\ Supers # {}
    BY <1>0 DEF InTurn, SuperAdminRemains
<1>1. CASE UNCHANGED user
    BY <1>1, <1>h DEF Supers, IsSuper
<1>2. ASSUME NEW r \in Changes, Write(r) PROVE Supers' # {}
  <2> DEFINE q == change[r]
  <2>1. q \in Known /\ q.target \in People
    BY <1>2 DEF Write, Stage, NoChange, UsersTypeOK, Known
  <2>2. \A a \in People \ {q.target} : user'[a] = user[a]
    BY <1>2, <2>1 DEF Write, UsersTypeOK
  <2>3. CASE \E a \in Supers : a # q.target
    BY <2>2, <2>3 DEF Supers, IsSuper
  <2>4. CASE ~ \E a \in Supers : a # q.target
    <3>1. IsSuper(q.target) /\ user[q.target] # Gone
      BY <1>h, <2>4 DEF Supers, IsSuper, Gone
    <3>2. ~Demotes(q)
      BY <1>2, <1>h, <2>4, <3>1 DEF Write, RoleKnown, AnotherSuper, Busy, Stage, IsSuper
    <3>3. user'[q.target] = Updated(user[q.target], q.ask)
      BY <1>2, <2>1, <3>1, <3>2 DEF Write, Demotes, UsersTypeOK
    <3>4. q.ask \in Puts
      BY <2>1, <3>2 DEF Known, Asks, Demotes
    <3>5. user'[q.target].role = "SUPER_ADMIN"
      BY <3>1, <3>2, <3>3, <3>4 DEF Updated, Demotes, IsSuper
    <3>6. user'[q.target].active
      <4>1. q.ask.active \in {"yes", "same"} /\ user[q.target].active
        BY <3>1, <3>2, <3>4 DEF Demotes, IsSuper, Puts
      <4>2. user'[q.target].active
                = IF q.ask.active = "same" THEN user[q.target].active ELSE q.ask.active = "yes"
        BY <3>3 DEF Updated
      <4>3. QED
        BY <4>1, <4>2
    <3>7. QED
      BY <2>1, <3>5, <3>6 DEF Supers, IsSuper
  <2>5. QED
    BY <2>3, <2>4
<1>3. QED
    BY <1>1, <1>2 DEF UsersNext, usersVars, Begin, FindTarget, Count

-----------------------------------------------------------------------------

\* Every step preserves the inductive invariant.
LEMMA UsersStepInvariant == UsersIInv /\ [UsersNext]_usersVars => UsersIInv'
BY UsersTypeStep, TurnStep, SuperStep DEF UsersIInv

\* The inductive invariant holds in every reachable state, whoever changes or
\* deletes whom (users/[id]/route.ts).
THEOREM UsersInvariance == UsersSpec => []UsersIInv
BY UsersInitInvariant, UsersStepInvariant, PTL DEF UsersSpec

\* Every reachable state of the users and the requests on them is of its type.
THEOREM UsersTypeCorrect == UsersSpec => []UsersTypeOK
BY UsersInvariance, PTL DEF UsersIInv

\* Among any number of administrators, requests that take turns leave an active
\* super administrator.
THEOREM SomebodyAdministers == UsersSpec => []SuperAdminRemains
BY UsersInvariance, PTL DEF UsersIInv
=============================================================================
