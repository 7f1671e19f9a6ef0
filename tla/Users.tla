------------------------------- MODULE Users -------------------------------
(***************************************************************************)
(* Changing and deleting users (apps/web/app/api/users/[id]/route.ts): the *)
(* last active super administrator must not go.  A request authenticates,  *)
(* reads its target, counts the super administrators and writes, with an   *)
(* await between any two of these.                                         *)
(*                                                                         *)
(* Left out: the fields that no check of a last super administrator reads, *)
(* the role USER, which may do nothing here and counts as little as ADMIN, *)
(* the password, whose change can be refused but removes nobody, and the   *)
(* memo of the session: an actor may act on a role it has just lost anyway,*)
(* as it does when another request comes between.                          *)
(*                                                                         *)
(* The names of what Sessions has as well differ from those there, so that *)
(* Accounts_proofs can extend both.                                        *)
(***************************************************************************)
EXTENDS Integers, FiniteSets

CONSTANTS
    People,     \* users
    Changes     \* requests at once

ASSUME UsersAssumption == People # {} /\ IsFiniteSet(People)

VARIABLES
    user,       \* the row of each user, or Gone
    change,     \* each request: where it is, who acts on whom, what it asks
    raced       \* history: a request was between its reads and its write when
                \* another one began to read

usersVars == <<user, change, raced>>

Roles == {"ADMIN", "SUPER_ADMIN"}
Gone == [role |-> "none", active |-> FALSE]
Accounts == [role : Roles, active : BOOLEAN] \cup {Gone}

\* PUT with a role, an active flag, or both ("same" leaves it out), or DELETE.
Puts == [kind : {"put"}, role : Roles \cup {"same"}, active : {"yes", "no", "same"}]
Asks == Puts \cup {[kind |-> "delete"]}

\* An administrator or super administrator who is active.
MayAct(a) == user[a] # Gone /\ user[a].active
IsSuper(a) == user[a].role = "SUPER_ADMIN" /\ user[a].active
Supers == {a \in People : IsSuper(a)}

\* What a request knows: whether its actor is super, the role its target had.
NoChange == [at |-> "idle"]
Known == [at : {"begun", "found", "counted"}, actor : People, super : BOOLEAN,
          target : People, ask : Asks, role : Roles \cup {"none"}]

UsersTypeOK ==
    /\ user \in [People -> Accounts]
    /\ change \in [Changes -> {NoChange} \cup Known]
    /\ raced \in BOOLEAN

\* Installation creates one super administrator, who may have created others.
UsersInit ==
    /\ user \in [People -> [role : Roles, active : {TRUE}]] /\ Supers # {}
    /\ change = [r \in Changes |-> NoChange]
    /\ raced = FALSE

-----------------------------------------------------------------------------

Stage(r, step) == change[r].at = step
Proceed(r, step) == change' = [change EXCEPT ![r].at = step]
Over(r) == change' = [change EXCEPT ![r] = NoChange]

\* requireSession(): deleting is for super administrators, and not of oneself.
Begin(r, actor, target, ask) ==
    /\ Stage(r, "idle") /\ MayAct(actor)
    /\ ask.kind = "delete" => IsSuper(actor) /\ target # actor
    /\ change' = [change EXCEPT ![r] = [at |-> "begun", actor |-> actor, super |-> IsSuper(actor),
                                        target |-> target, ask |-> ask, role |-> "none"]]
    /\ UNCHANGED <<user, raced>>

\* What only a super administrator may do to another account.
Allowed(q, role) ==
    q.ask.kind = "put" =>
        /\ q.ask.role = "SUPER_ADMIN" /\ role # "SUPER_ADMIN" => q.super
        /\ role = "SUPER_ADMIN" /\ q.target # q.actor
                /\ (q.ask.role # "same" \/ q.ask.active # "same") => q.super

\* A check that forgets deactivation.
MutDemotes(q) ==
    q.ask.kind = "delete" \/ q.ask.role \notin {"same", "SUPER_ADMIN"}

\* The request takes a super administrator out of the game.
Demotes(q) ==
    q.ask.kind = "delete" \/ q.ask.role \notin {"same", "SUPER_ADMIN"} \/ q.ask.active = "no"

\* The target is read; only a super administrator's removal needs the count.
FindTarget(r) ==
    LET q == change[r]
        role == user[q.target].role IN
    /\ Stage(r, "begun")
    /\ IF role = "none" \/ ~Allowed(q, role)
       THEN Over(r)
       ELSE change' = [change EXCEPT ![r].role = role,
                ![r].at = IF role = "SUPER_ADMIN" /\ Demotes(q) THEN "found" ELSE "counted"]
    /\ raced' = (raced \/ \E o \in Changes : change[o].at \in {"found", "counted"})
    /\ UNCHANGED user

Count(r) ==
    /\ Stage(r, "found")
    /\ IF Cardinality(Supers) <= 1 THEN Over(r) ELSE Proceed(r, "counted")
    /\ UNCHANGED <<user, raced>>

Updated(row, ask) ==
    [role |-> IF ask.role = "same" THEN row.role ELSE ask.role,
     active |-> IF ask.active = "same" THEN row.active ELSE ask.active = "yes"]

\* The write fails if the row is gone.
Write(r) ==
    LET q == change[r] IN
    /\ Stage(r, "counted")
    /\ user' = [user EXCEPT ![q.target] =
                    IF @ = Gone \/ q.ask.kind = "delete" THEN Gone ELSE Updated(@, q.ask)]
    /\ Over(r)
    /\ UNCHANGED raced

UsersNext ==
    \E r \in Changes :
        \/ \E actor, target \in People, ask \in Asks : Begin(r, actor, target, ask)
        \/ FindTarget(r) \/ Count(r) \/ Write(r)

UsersSpec == UsersInit /\ [][UsersNext]_usersVars

-----------------------------------------------------------------------------
(* Correctness *)

\* Somebody can always administer the panel: no sequence of changes, nor any
\* changes of both fields at once, by whoever may make them, removes the last
\* active super administrator, if the requests take turns from their reads to
\* their writes (users/[id]/route.ts:44-49, 73-77).
SuperAdminRemains == ~raced => Supers # {}

\* The same of requests that overlap: "Prevent deleting the last active super
\* admin (lockout)" (users/[id]/route.ts:73).  The code violates it: two requests
\* each count two.
NoLockout == Supers # {}
=============================================================================
