------------------------------ MODULE QueryCache ------------------------------
(***************************************************************************)
(* The TTL cache of expensive reads, apps/web/src/lib/query-cache.ts, as   *)
(* the API routes use it: readers call cached(key), which shares one       *)
(* computation per key, and writers change rows and then invalidate a      *)
(* namespace of keys, or everything (a backup restore).                    *)
(*                                                                         *)
(* A value is the version of the database it was computed from.  A         *)
(* computation is suspended before and after it reads the rows.  Which     *)
(* entry is evicted, the stalest, is left open: nothing depends on it.     *)
(***************************************************************************)
EXTENDS Integers, FiniteSets

CONSTANTS
    Keys,
    Namespaces,     \* the sets of keys that share a prefix
    Comps,          \* bound: computations running at the same time
    MaxEntries,     \* MAX_ENTRIES
    MaxVersion,     \* bound: writes to the database
    MaxGeneration,  \* bound: generations of a key
    None            \* no entry, or no computation

Versions == 0..MaxVersion

\* A computation on a key; got is None until it has read the rows.
Job == [key : Keys, gen : 0..MaxGeneration, got : Versions \cup {None}]

ASSUME CacheAssumption ==
    /\ Namespaces \subseteq SUBSET Keys
    /\ MaxEntries \in Nat \ {0} /\ MaxVersion \in Nat /\ MaxGeneration \in Nat
    /\ None \notin Comps \cup Nat \cup Job

VARIABLES
    version,    \* writes the database has seen
    store,      \* the value of each key's entry
    fresh,      \* keys whose entry is younger than its TTL
    inflight,   \* the computation new callers of a key join
    generation,
    comp,       \* each computation's key, generation and what it has read
    \* History:
    floor,      \* the version each key was last invalidated at
    blown       \* everything was cleared while a computation was running

vars == <<version, store, fresh, inflight, generation, comp, floor, blown>>

Running(i) == comp[i] # None

TypeOK ==
    /\ version \in Versions
    /\ store \in [Keys -> Versions \cup {None}]
    /\ fresh \in SUBSET Keys
    /\ inflight \in [Keys -> Comps \cup {None}]
    /\ generation \in [Keys -> 0..MaxGeneration]
    /\ comp \in [Comps -> Job \cup {None}]
    /\ floor \in [Keys -> Versions]
    /\ blown \in BOOLEAN

Init ==
    /\ version = 0
    /\ store = [k \in Keys |-> None] /\ fresh = {}
    /\ inflight = [k \in Keys |-> None]
    /\ generation = [k \in Keys |-> 0]
    /\ comp = [i \in Comps |-> None]
    /\ floor = [k \in Keys |-> 0]
    /\ blown = FALSE

-----------------------------------------------------------------------------

\* A route changes rows; it invalidates in a later step.
Write ==
    /\ version < MaxVersion
    /\ version' = version + 1
    /\ UNCHANGED <<store, fresh, inflight, generation, comp, floor, blown>>

\* The TTL of an entry passes; the entry stays until it is replaced.
Expire(k) ==
    /\ k \in fresh
    /\ fresh' = fresh \ {k}
    /\ UNCHANGED <<version, store, inflight, generation, comp, floor, blown>>

\* Starting over while a computation runs.
MutMiss(k) == k \notin fresh

\* cached() finds no fresh entry and no computation to join.
Miss(k) == k \notin fresh /\ inflight[k] = None

\* A computation that bumps the generation itself.
MutNewJob(k) == [key |-> k, gen |-> generation[k] + 1, got |-> None]

NewJob(k) == [key |-> k, gen |-> generation[k], got |-> None]

Begin(k, i) ==
    /\ Miss(k) /\ ~Running(i)
    /\ comp' = [comp EXCEPT ![i] = NewJob(k)]
    /\ inflight' = [inflight EXCEPT ![k] = i]
    /\ UNCHANGED <<version, store, fresh, generation, floor, blown>>

Query(i) ==
    /\ Running(i) /\ comp[i].got = None
    /\ comp' = [comp EXCEPT ![i].got = version]
    /\ UNCHANGED <<version, store, fresh, inflight, generation, floor, blown>>

\* A computation settles, and makes room for the next.
Settles(i) ==
    LET k == comp[i].key IN
    /\ comp' = [comp EXCEPT ![i] = None]
    /\ inflight' = [inflight EXCEPT ![k] = IF @ = i THEN None ELSE @]

\* A cache that forgets to make room.
MutStoreEntry(k, v) == store' = [store EXCEPT ![k] = v] /\ fresh' = fresh \cup {k}

Stored == {k \in Keys : store[k] # None}

\* storeEntry(): a new key evicts another one when the store is full.
StoreEntry(k, v) ==
    \/ /\ k \in Stored \/ Cardinality(Stored) < MaxEntries
       /\ store' = [store EXCEPT ![k] = v]
       /\ fresh' = fresh \cup {k}
    \/ /\ k \notin Stored /\ Cardinality(Stored) >= MaxEntries
       /\ \E old \in Stored :
            /\ store' = [store EXCEPT ![old] = None, ![k] = v]
            /\ fresh' = (fresh \ {old}) \cup {k}

\* A write-back that does not look at the generation.
MutCurrent(i) == TRUE

Current(i) == generation[comp[i].key] = comp[i].gen

\* fn() resolves: the value is stored unless the key was invalidated since.
Resolve(i) ==
    /\ Running(i) /\ comp[i].got # None
    /\ \/ Current(i) /\ StoreEntry(comp[i].key, comp[i].got)
       \/ ~Current(i) /\ UNCHANGED <<store, fresh>>
    /\ Settles(i)
    /\ UNCHANGED <<version, generation, floor, blown>>

\* fn() rejects: its callers get the error.
Reject(i) ==
    /\ Running(i)
    /\ Settles(i)
    /\ UNCHANGED <<version, store, fresh, generation, floor, blown>>

DropInflight(ns) == inflight' = [k \in Keys |-> IF k \in ns THEN None ELSE inflight[k]]

\* invalidateCache(prefix): only a computation in flight gets a new generation.
Invalidate(ns) ==
    /\ \A k \in ns : generation[k] < MaxGeneration
    /\ store' = [k \in Keys |-> IF k \in ns THEN None ELSE store[k]]
    /\ fresh' = fresh \ ns
    /\ generation' = [k \in Keys |-> IF k \in ns /\ inflight[k] # None
                                     THEN generation[k] + 1 ELSE generation[k]]
    /\ DropInflight(ns)
    /\ floor' = [k \in Keys |-> IF k \in ns THEN version ELSE floor[k]]
    /\ UNCHANGED <<version, comp, blown>>

\* invalidateCache(): the generations are forgotten with everything else.
InvalidateAll ==
    /\ store' = [k \in Keys |-> None] /\ fresh' = {}
    /\ inflight' = [k \in Keys |-> None]
    /\ generation' = [k \in Keys |-> 0]
    /\ floor' = [k \in Keys |-> version]
    /\ blown' = (blown \/ \E i \in Comps : Running(i))
    /\ UNCHANGED <<version, comp>>

Next ==
    \/ Write \/ InvalidateAll
    \/ \E k \in Keys : Expire(k) \/ \E i \in Comps : Begin(k, i)
    \/ \E i \in Comps : Query(i) \/ Resolve(i) \/ Reject(i)
    \/ \E ns \in Namespaces : Invalidate(ns)

Spec == Init /\ [][Next]_vars

-----------------------------------------------------------------------------
(* Properties *)

\* What a reader of k who calls now can be given: the entry, or the result of
\* the computation it joins, is no older than the last invalidation of k.
ReadsCurrent(k) ==
    /\ store[k] # None => store[k] >= floor[k]
    /\ \A i \in Comps : inflight[k] = i /\ comp[i].got # None => comp[i].got >= floor[k]

\* A reader that calls after a writer's invalidation sees the write: no entry
\* and no computation to join is older, however invalidations overlap reads
\* (query-cache.ts 62-74 and 100-110), as long as nothing is computed during a
\* full clear.
ReadersSeeWrites == ~blown => \A k \in Keys : ReadsCurrent(k)

\* "single-flight per key" (3): of the computations of a key exactly the one
\* that callers join may still store its value; a key never points at a
\* computation that has settled, which would leave its readers waiting.
SingleFlight ==
    ~blown => \A k \in Keys, i \in Comps :
        inflight[k] = i <=> Running(i) /\ comp[i].key = k /\ Current(i)

\* The store never outgrows MAX_ENTRIES (37-47).
StoreBounded == Cardinality(Stored) <= MaxEntries

\* "a resolving computation stores its value only if its generation is still
\* current (kills stale write-back)" (33-34).  Does not hold: a full clear puts
\* every generation back to 0, that of the computations then running.
StaleWriteBackKilled == \A k \in Keys : store[k] # None => store[k] >= floor[k]
=============================================================================
