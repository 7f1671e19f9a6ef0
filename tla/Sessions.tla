------------------------------ MODULE Sessions ------------------------------
(***************************************************************************)
(* The session of one user in one browser (apps/web/src/lib/auth.ts and    *)
(* requireSession in lib/api.ts): parallel requests with the cookies of    *)
(* the jar, the memo of getSession(), the rotation of the refresh token    *)
(* with its grace, login, logout, a change of the password, and an         *)
(* administrator who deactivates the user.  Requests and responses are     *)
(* slow - a handler that awaits a deploy over SSH brings its cookies only  *)
(* when it ends -, lost, or cut short by an error.                         *)
(*                                                                         *)
(* One pair of an access token and a refresh token is a number.  Time      *)
(* passes in ticks.  Left out: the 30 days of a refresh token, roles, CSRF *)
(* and the size of the memo.                                               *)
(***************************************************************************)
EXTENDS Integers, FiniteSets

CONSTANTS
    Requests,       \* requests of the browser at once
    MaxPairs,       \* bound: pairs of tokens issued
    CacheTTL,       \* SESSION_CACHE_TTL
    Grace,          \* REFRESH_GRACE_MS
    MaxTime         \* ticks a request takes at most until it is let in or refused

ASSUME SessionsAssumption ==
    /\ MaxPairs \in Nat \ {0} /\ MaxTime \in Nat \ {0}
    /\ CacheTTL \in Nat \ {0}
    /\ Grace \in Nat \ {0}

none == 0
Pairs == 1..MaxPairs

\* How long after a deactivation a request may still be let in.
StaleLimit == CacheTTL + MaxTime

VARIABLES
    active,     \* user.active
    issued,     \* pairs issued
    session,    \* the row of each pair: absent, live or revoked
    revokedAge, \* ticks since revokedAt
    expired,    \* access tokens that have expired
    cached,     \* sessionCache: what is memoised for each access token
    cachedAge,  \* ticks since
    jar,        \* the pair in the browser's cookies
    req,        \* each request: where it is, the pair it carries, the pair it brings
    inactive,   \* history: ticks since the user was last active
    upset,      \* history: there has been a logout or a change of the password, or a
                \* request was lost, or took half of the grace
    loose       \* history: pairs that a lost request was to bring, and live ones the
                \* browser gave up for what it got with another one

rows == <<issued, session, revokedAge, expired>>
history == <<inactive, upset, loose>>
memo == <<cached, cachedAge>>
vars == <<active, rows, memo, jar, req, history>>

Steps == {"idle", "session", "looked", "refresh", "found", "owned", "revoked",
          "login", "logout", "answer", "cleared"}

\* The session is dealt with; the handler works, and the response is on its way.
Handling == {"answer", "cleared"}

TypeOK ==
    /\ active \in BOOLEAN /\ issued \in 0..MaxPairs
    /\ session \in [Pairs -> {"absent", "live", "revoked"}]
    /\ revokedAge \in [Pairs -> 0..Grace] /\ expired \subseteq Pairs
    /\ cached \in [Pairs -> {"none", "user", "null"}] /\ cachedAge \in [Pairs -> 0..CacheTTL]
    /\ jar \in {none} \cup Pairs
    /\ req \in [Requests -> [at : Steps, pair : {none} \cup Pairs, brings : {none} \cup Pairs,
                             seen : BOOLEAN, age : 0..(MaxTime + Grace)]]
    /\ \A r \in Requests : req[r].at \notin Handling => req[r].age <= MaxTime
    /\ inactive \in 0..StaleLimit
    /\ upset \in BOOLEAN /\ loose \subseteq Pairs

Idle == [at |-> "idle", pair |-> none, brings |-> none, seen |-> FALSE, age |-> 0]

Init ==
    /\ active = TRUE /\ issued = 0
    /\ session = [p \in Pairs |-> "absent"]
    /\ revokedAge = [p \in Pairs |-> 0] /\ expired = {}
    /\ cached = [p \in Pairs |-> "none"] /\ cachedAge = [p \in Pairs |-> 0]
    /\ jar = none /\ req = [r \in Requests |-> Idle]
    /\ inactive = 0 /\ upset = FALSE /\ loose = {}

-----------------------------------------------------------------------------
(* Time and the administrator *)

Older(n, limit) == IF n < limit THEN n + 1 ELSE limit

\* A request that has taken half of the grace.
Slow(q) == 2 * q.age >= Grace

\* A handler takes as long as it likes; its age counts until it is slow.
Aged(q) ==
    IF q.at = "idle" \/ (q.at \in Handling /\ Slow(q)) THEN q ELSE [q EXCEPT !.age = @ + 1]

\* The memo forgets an entry at the end of its life, whether anybody asks or not.
Tick ==
    /\ \A r \in Requests : req[r].at \notin {"idle"} \cup Handling => req[r].age < MaxTime
    /\ req' = [r \in Requests |-> Aged(req[r])]
    /\ revokedAge' = [p \in Pairs |->
                IF session[p] = "revoked" THEN Older(revokedAge[p], Grace) ELSE 0]
    /\ cached' = [p \in Pairs |-> IF cachedAge[p] + 1 < CacheTTL THEN cached[p] ELSE "none"]
    /\ cachedAge' = [p \in Pairs |-> IF cached'[p] = "none" THEN 0 ELSE cachedAge[p] + 1]
    /\ inactive' = IF active THEN 0 ELSE Older(inactive, StaleLimit)
    /\ upset' = (upset \/ \E r \in Requests : Slow(req'[r]))
    /\ UNCHANGED <<active, issued, session, expired, jar, loose>>

Deactivate ==
    /\ active /\ active' = FALSE
    /\ UNCHANGED <<rows, memo, jar, req, history>>

Reactivate ==
    /\ ~active /\ active' = TRUE /\ inactive' = 0
    /\ UNCHANGED <<rows, memo, jar, req, upset, loose>>

At(r, step) == req[r].at = step
Goto(r, step) == req' = [req EXCEPT ![r].at = step]

\* The request is over: let in, without new cookies, or refused.
LetIn(r) == req' = [req EXCEPT ![r] = Idle]
Refuse(r) == req' = [req EXCEPT ![r] = Idle]

-----------------------------------------------------------------------------
(* getSession() *)

Send(r) ==
    /\ At(r, "idle") /\ jar # none
    /\ req' = [req EXCEPT ![r] = [Idle EXCEPT !.at = "session", !.pair = jar]]
    /\ UNCHANGED <<active, rows, memo, jar, history>>

\* The memo answers, also for an access token that has expired since.
Hit(r) ==
    LET p == req[r].pair IN
    /\ At(r, "session") /\ cached[p] # "none"
    /\ IF cached[p] = "user" THEN LetIn(r) ELSE Goto(r, "refresh")
    /\ UNCHANGED <<active, rows, memo, jar, history>>

\* The access token of a pair expires, some time after it was signed.  Only who asks
\* for the session finds out.
Expire(p) ==
    /\ \E r \in Requests : At(r, "session") /\ req[r].pair = p
    /\ p \notin expired
    /\ expired' = expired \cup {p}
    /\ UNCHANGED <<active, issued, session, revokedAge, memo, jar, req, history>>

Expired(r) ==
    LET p == req[r].pair IN
    /\ At(r, "session") /\ cached[p] = "none" /\ p \in expired
    /\ Goto(r, "refresh")
    /\ UNCHANGED <<active, rows, memo, jar, history>>

\* The user is read, ...
Lookup(r) ==
    LET p == req[r].pair IN
    /\ At(r, "session") /\ cached[p] = "none" /\ p \notin expired
    /\ req' = [req EXCEPT ![r].at = "looked", ![r].seen = active]
    /\ UNCHANGED <<active, rows, memo, jar, history>>

\* ... and memoised when the answer arrives.
Looked(r) ==
    LET p == req[r].pair IN
    /\ At(r, "looked")
    /\ cached' = [cached EXCEPT ![p] = IF req[r].seen THEN "user" ELSE "null"]
    /\ cachedAge' = [cachedAge EXCEPT ![p] = 0]
    /\ IF req[r].seen THEN LetIn(r) ELSE Goto(r, "refresh")
    /\ UNCHANGED <<active, rows, jar, history>>

-----------------------------------------------------------------------------
(* refreshSession() *)

\* A rotation without grace.
MutWorks(p) == session[p] = "live"

\* The refresh token still works: not revoked, or not for long.
Works(p) == session[p] = "live" \/ (session[p] = "revoked" /\ revokedAge[p] < Grace)

Find(r) ==
    /\ At(r, "refresh")
    /\ IF Works(req[r].pair) THEN Goto(r, "found") ELSE Refuse(r)
    /\ UNCHANGED <<active, rows, memo, jar, history>>

\* A refresh that asks only for the session.
MutOwner(r) ==
    /\ At(r, "found")
    /\ Goto(r, "owned")
    /\ UNCHANGED <<active, rows, memo, jar, history>>

Owner(r) ==
    /\ At(r, "found")
    /\ IF active THEN Goto(r, "owned") ELSE Refuse(r)
    /\ UNCHANGED <<active, rows, memo, jar, history>>

\* A rotation that leaves the old row alone.
MutRevoke(r) ==
    /\ At(r, "owned")
    /\ Goto(r, "revoked")
    /\ UNCHANGED <<active, rows, memo, jar, history>>

\* Also a row that is revoked already is stamped again.
Revoke(r) ==
    LET p == req[r].pair IN
    /\ At(r, "owned")
    /\ session' = [session EXCEPT ![p] = "revoked"]
    /\ revokedAge' = [revokedAge EXCEPT ![p] = 0]
    /\ Goto(r, "revoked")
    /\ UNCHANGED <<active, issued, expired, memo, jar, history>>

\* createSession(): the row first, then the cookies of the response.
Create(r) ==
    LET new == issued + 1 IN
    /\ req[r].at \in {"revoked", "login"} /\ issued < MaxPairs
    /\ issued' = new
    /\ session' = [session EXCEPT ![new] = "live"]
    /\ req' = [req EXCEPT ![r].at = "answer", ![r].brings = new]
    /\ UNCHANGED <<active, revokedAge, expired, memo, jar, history>>

-----------------------------------------------------------------------------
(* Login, logout, and the browser *)

\* The form is there for a user without a session, and sent once.
Login(r) ==
    /\ At(r, "idle") /\ jar = none /\ active
    /\ \A q \in Requests : req[q].at \notin {"login", "answer"}
    /\ req' = [req EXCEPT ![r] = [Idle EXCEPT !.at = "login"]]
    /\ UNCHANGED <<active, rows, memo, jar, history>>

Logout(r) ==
    /\ At(r, "idle") /\ jar # none
    /\ req' = [req EXCEPT ![r] = [Idle EXCEPT !.at = "logout", !.pair = jar]]
    /\ upset' = TRUE
    /\ UNCHANGED <<active, rows, memo, jar, inactive, loose>>

\* destroySession() revokes the row, unless it is revoked, and clears the memo.
Destroy(r) ==
    LET p == req[r].pair IN
    /\ At(r, "logout")
    /\ session' = [session EXCEPT ![p] = "revoked"]
    /\ revokedAge' = [revokedAge EXCEPT ![p] = IF session[p] = "live" THEN 0 ELSE @]
    /\ cached' = [cached EXCEPT ![p] = "none"] /\ cachedAge' = [cachedAge EXCEPT ![p] = 0]
    /\ Goto(r, "cleared")
    /\ UNCHANGED <<active, issued, expired, jar, history>>

\* A change of the password, in this browser or another one, revokes every row
\* of the user.
ChangePassword ==
    /\ \E p \in Pairs : session[p] = "live"
    /\ session' = [p \in Pairs |-> IF session[p] = "live" THEN "revoked" ELSE session[p]]
    /\ revokedAge' = [p \in Pairs |-> IF session[p] = "live" THEN 0 ELSE revokedAge[p]]
    /\ upset' = TRUE
    /\ UNCHANGED <<active, issued, expired, memo, jar, req, inactive, loose>>

\* The browser stores the cookies of a response, whichever arrives last.
Receive(r) ==
    /\ req[r].at \in {"answer", "cleared"}
    /\ jar' = req[r].brings
    /\ loose' = loose \cup {p \in {jar} \ {none, req[r].pair} : session[p] = "live"}
    /\ req' = [req EXCEPT ![r] = Idle]
    /\ UNCHANGED <<active, rows, memo, inactive, upset>>

\* An error at an await, or a response that does not arrive.
Lose(r) ==
    /\ req[r].at # "idle"
    /\ loose' = loose \cup ({req[r].brings} \ {none}) /\ upset' = TRUE
    /\ req' = [req EXCEPT ![r] = Idle]
    /\ UNCHANGED <<active, rows, memo, jar, inactive>>

-----------------------------------------------------------------------------

Next ==
    \/ Tick \/ Deactivate \/ Reactivate \/ ChangePassword
    \/ \E p \in Pairs : Expire(p)
    \/ \E r \in Requests :
        \/ Send(r) \/ Hit(r) \/ Expired(r) \/ Lookup(r) \/ Looked(r)
        \/ Find(r) \/ Owner(r) \/ Revoke(r) \/ Create(r)
        \/ Login(r) \/ Logout(r) \/ Destroy(r) \/ Receive(r) \/ Lose(r)

Spec == Init /\ [][Next]_vars

-----------------------------------------------------------------------------
(* Correctness *)

\* Requests that arrive together after an expiry are all let in: the refresh
\* token of an active user works for every request that carries it, whichever of
\* them rotate it and in whichever order their cookies arrive, as long as every
\* request takes less than half of the grace, and unless there was a logout, a
\* change of the password or a lost request (auth.ts:179-193).
ParallelRefreshWorks ==
    ~upset => \A r \in Requests : At(r, "refresh") => Works(req[r].pair)

\* A deactivated user is let in no longer than the life of the memo and the
\* time of one request (auth.ts:90-98, 116-131).
DeactivationBites ==
    \A r \in Requests :
        \/ At(r, "session") /\ cached[req[r].pair] = "user"
        \/ At(r, "looked") /\ req[r].seen
        \/ At(r, "revoked")
        => inactive < StaleLimit

\* A row that is live is in the hands of the browser, or on its way there: the
\* rotation leaves none behind.  Left are lost responses, and cookies that the
\* response to another cookie replaced, as parallel refreshes and a logout in
\* the middle of one do (auth.ts:174-222).
SessionsHeld ==
    \A p \in Pairs \ loose :
        session[p] = "live" => p = jar \/ \E r \in Requests : req[r].brings = p
=============================================================================
