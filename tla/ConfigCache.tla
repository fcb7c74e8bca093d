----------------------------- MODULE ConfigCache -----------------------------
(***************************************************************************)
(* The cache of the config table (worker/app/config.py).  PUT /config/{key}*)
(* writes the row and leaves the cache alone; every poll cycle empties the *)
(* cache ("pick up any tuning changes since last cycle"); `_load` looks,   *)
(* queries and stores with awaits in between, so that a row read before a  *)
(* cycle emptied the cache may be stored after it.                         *)
(*                                                                         *)
(* One key, whose value is the number of updates it has seen.  The readers *)
(* are the coroutines that call get_*_config; what they do in between is   *)
(* the matter of IngestCalls.                                              *)
(***************************************************************************)
EXTENDS Naturals

CONSTANTS
    Reader,
    Cycle,       \* the readers that are poll cycles
    Nothing,     \* no value
    MaxUpdates   \* bound on PUT /config/{key}

ASSUME CacheAssumption ==
    /\ Cycle \subseteq Reader
    /\ Nothing \notin Nat
    /\ MaxUpdates \in Nat

VARIABLES
    stored,   \* the row
    cache,    \* _cache[key]
    asking,   \* readers awaiting a connection or the row
    held,     \* the row a reader has been given and not yet stored
    got,      \* what a reader's last call returned
    since,    \* history: the row when a cycle last emptied the cache
    raced     \* history: cycles that emptied it while a reader held an older row

cacheVars == <<stored, cache, asking, held, got, since, raced>>

CacheInit ==
    /\ stored = 0 /\ cache = Nothing
    /\ asking = {}
    /\ held = [r \in Reader |-> Nothing]
    /\ got = [r \in Reader |-> Nothing]
    /\ since = [c \in Cycle |-> 0]
    /\ raced = {}

Loading(r) == r \in asking \/ held[r] # Nothing

-----------------------------------------------------------------------------
Put ==
    /\ stored < MaxUpdates
    /\ stored' = stored + 1
    /\ UNCHANGED <<cache, asking, held, got, since, raced>>

(* clear_config_cache, at the start of run_all_sources.                    *)
Clear(c) ==
    /\ cache' = Nothing
    /\ since' = [since EXCEPT ![c] = stored]
    /\ raced' = IF \E r \in Reader : held[r] \in 0..stored /\ held[r] # stored
                THEN raced \cup {c} ELSE raced \ {c}
    /\ UNCHANGED <<stored, asking, held, got>>

(* A hit returns without an await.                                         *)
Hit(r) ==
    /\ ~Loading(r) /\ cache # Nothing
    /\ got' = [got EXCEPT ![r] = cache]
    /\ UNCHANGED <<stored, cache, asking, held, since, raced>>

Miss(r) ==
    /\ ~Loading(r) /\ cache = Nothing
    /\ asking' = asking \cup {r}
    /\ UNCHANGED <<stored, cache, held, got, since, raced>>

Query(r) ==
    /\ r \in asking
    /\ asking' = asking \ {r}
    /\ held' = [held EXCEPT ![r] = stored]
    /\ UNCHANGED <<stored, cache, got, since, raced>>

Store(r) ==
    /\ held[r] # Nothing
    /\ cache' = held[r]
    /\ got' = [got EXCEPT ![r] = held[r]]
    /\ held' = [held EXCEPT ![r] = Nothing]
    /\ UNCHANGED <<stored, asking, since, raced>>

(* The worker is restarted: the cache goes with the process.               *)
Forget ==
    /\ cache' = Nothing
    /\ asking' = {}
    /\ held' = [r \in Reader |-> Nothing]
    /\ UNCHANGED <<stored, got, since, raced>>

-----------------------------------------------------------------------------
Version == Nat \cup {Nothing}

CacheTypeOK ==
    /\ stored \in Nat /\ cache \in Version
    /\ asking \subseteq Reader
    /\ held \in [Reader -> Version] /\ got \in [Reader -> Version]
    /\ since \in [Cycle -> Nat] /\ raced \subseteq Cycle
    /\ \A r \in Reader : held[r] # Nothing => held[r] <= stored
    /\ \A c \in Cycle : since[c] <= stored

(* Between two of its cycles a poll is never handed a row older than the   *)
(* one its cycle wanted to pick up, unless a reader was holding an older   *)
(* row at the very moment the cycle emptied the cache.                     *)
StaleOnlyAfterARace ==
    \A c \in Cycle : cache # Nothing /\ cache < since[c] => c \in raced
=============================================================================
