-------------------------- MODULE IngestCalls_proofs --------------------------
(***************************************************************************)
(* What TLAPS proves of IngestCalls and of the cache it reads through, for *)
(* any readers, cycles, number of updates, items and restarts.             *)
(*                                                                         *)
(* A row that a reader holds is as dangerous as one that is cached, so the *)
(* invariant of the cache speaks of both; that of the feed adds what is    *)
(* true while a fetch pauses and once it is over.                          *)
(***************************************************************************)
EXTENDS IngestCalls, TLAPS

Pc == {"idle", "request", "pause", "gave_up", "item", "article", "vector"} \cup ReadsConfig

(* The length of the backoff list, and what it holds.                      *)
LEMMA BackoffType ==
    /\ LastAttempt = 4
    /\ \A i \in 1..LastAttempt : BackoffSeconds[i] \in Nat
<1>1. LastAttempt = 4
  BY DEF LastAttempt, BackoffSeconds
<1>2. \A i \in 1..4 : i = 1 \/ i = 2 \/ i = 3 \/ i = 4
  OBVIOUS
<1>3. \A i \in 1..4 : BackoffSeconds[i] \in Nat
  BY <1>2 DEF BackoffSeconds
<1> QED
  BY <1>1, <1>3

-----------------------------------------------------------------------------
(* The cache.                                                              *)

(* A row on its way into the cache is older than a cycle's only if that    *)
(* cycle raced.                                                            *)
HeldOnlyAfterARace ==
    \A r \in Reader, c \in Cycle : held[r] # Nothing /\ held[r] < since[c] => c \in raced

CacheInv == CacheTypeOK /\ StaleOnlyAfterARace /\ HeldOnlyAfterARace

(* The steps of ConfigCache, as IngestCalls takes them.                    *)
CacheStep ==
    \/ Put \/ Forget \/ UNCHANGED cacheVars
    \/ \E c \in Cycle : Clear(c)
    \/ \E r \in Reader : Hit(r) \/ Miss(r) \/ Query(r) \/ Store(r)

(* Whatever a coroutine does is one step of the cache or none.             *)
LEMMA NextIsACacheStep == [Next]_vars => CacheStep
<1> SUFFICES ASSUME [Next]_vars PROVE CacheStep
  OBVIOUS
<1>1. ASSUME NEW c \in Cycle, FetchStep(c) PROVE CacheStep
  BY <1>1 DEF FetchStep, StartCycle, Served, Busy, Broken, Refused, Pause, GiveUp, CacheStep
<1>2. ASSUME NEW r \in Reader, ItemStep(r) PROVE CacheStep
  BY <1>2 DEF ItemStep, ReadFromCache, BeginQuery, EndQuery, FillCache, StartSweep, NextItem,
              Rescue, Embed, Finish, CacheStep
<1>3. CASE Put /\ UNCHANGED callVars
  BY <1>3 DEF CacheStep
<1>4. CASE Restart
  BY <1>4 DEF Restart, CacheStep
<1>5. CASE UNCHANGED vars
  BY <1>5 DEF vars, CacheStep
<1> QED
  BY <1>1, <1>2, <1>3, <1>4, <1>5 DEF Next

LEMMA CacheInitInv == Init => CacheInv
  BY CacheAssumption
  DEF Init, CacheInit, CacheInv, CacheTypeOK, Version, StaleOnlyAfterARace, HeldOnlyAfterARace

LEMMA CacheStepInv == CacheInv /\ CacheStep => CacheInv'
<1> SUFFICES ASSUME CacheInv, CacheStep PROVE CacheInv'
  OBVIOUS
<1> USE CacheAssumption DEF CacheInv, CacheTypeOK, Version
<1>1. CASE UNCHANGED cacheVars
  BY <1>1 DEF cacheVars, StaleOnlyAfterARace, HeldOnlyAfterARace
<1>2. CASE Put
  BY <1>2 DEF Put, StaleOnlyAfterARace, HeldOnlyAfterARace
<1>3. CASE Forget
  BY <1>3 DEF Forget, StaleOnlyAfterARace, HeldOnlyAfterARace
<1>4. ASSUME NEW c \in Cycle, Clear(c) PROVE CacheInv'
  <2>1. CacheTypeOK'
    BY <1>4 DEF Clear
  <2>2. StaleOnlyAfterARace'
    BY <1>4 DEF Clear, StaleOnlyAfterARace
  <2>3. ASSUME NEW r \in Reader, NEW d \in Cycle, held'[r] # Nothing, held'[r] < since'[d]
        PROVE  d \in raced'
    <3>1. CASE d = c
      <4>1. held[r] \in 0..stored /\ held[r] # stored
        BY <1>4, <2>3, <3>1 DEF Clear
      <4> QED
        BY <1>4, <3>1, <4>1 DEF Clear
    <3>2. CASE d # c
      BY <1>4, <2>3, <3>2 DEF Clear, HeldOnlyAfterARace
    <3> QED
      BY <3>1, <3>2
  <2> QED
    BY <2>1, <2>2, <2>3 DEF HeldOnlyAfterARace
<1>5. ASSUME NEW r \in Reader, Hit(r) PROVE CacheInv'
  BY <1>5 DEF Hit, StaleOnlyAfterARace, HeldOnlyAfterARace
<1>6. ASSUME NEW r \in Reader, Miss(r) PROVE CacheInv'
  BY <1>6 DEF Miss, StaleOnlyAfterARace, HeldOnlyAfterARace
<1>7. ASSUME NEW r \in Reader, Query(r) PROVE CacheInv'
  BY <1>7 DEF Query, StaleOnlyAfterARace, HeldOnlyAfterARace
<1>8. ASSUME NEW r \in Reader, Store(r) PROVE CacheInv'
  BY <1>8 DEF Store, StaleOnlyAfterARace, HeldOnlyAfterARace
<1> QED
  BY <1>1, <1>2, <1>3, <1>4, <1>5, <1>6, <1>7, <1>8 DEF CacheStep

(* A poll is handed a row older than its cycle's only after a race: what   *)
(* `_load` stores after its await is the one way in (config.py).           *)
THEOREM StaleRowsNeedARace == Spec => []StaleOnlyAfterARace
<1>1. CacheInv /\ [Next]_vars => CacheInv'
  BY NextIsACacheStep, CacheStepInv
<1>2. CacheInv => StaleOnlyAfterARace
  BY DEF CacheInv
<1> QED
  BY CacheInitInv, <1>1, <1>2, PTL DEF Spec

-----------------------------------------------------------------------------
(* The feed.                                                               *)

(* What FetchIsPatient needs of one cycle: a fetch that pauses has waited  *)
(* as asked and has an attempt left, one that is over left nothing behind. *)
PatientAt(c) ==
    /\ pc[c] = "pause" => attempt[c] < LastAttempt /\ slept[c] >= asked[c]
    /\ pc[c] \notin {"request", "pause", "gave_up"} => attempt[c] = 0
    /\ pc[c] = "request" /\ attempt[c] > 0 => slept[c] >= asked[c] + BackoffSeconds[attempt[c]]
    /\ pc[c] = "gave_up" => slept[c] = 0

FetchTypeOK ==
    /\ pc \in [Reader -> Pc]
    /\ attempt \in [Cycle -> 0..LastAttempt]
    /\ slept \in [Cycle -> Nat] /\ asked \in [Cycle -> Nat]

FetchInv == FetchTypeOK /\ \A c \in Cycle : PatientAt(c)

(* The state of a fetch is its own.                                        *)
LEMMA FetchStepInv ==
    ASSUME FetchInv, NEW c \in Cycle, FetchStep(c)
    PROVE  FetchInv'
<1> USE CallsAssumption, CacheAssumption, BackoffType
    DEF FetchInv, FetchTypeOK, Pc, PatientAt, Goto, fetchVars
<1>1. CASE StartCycle(c)
  BY <1>1 DEF StartCycle
<1>2. CASE Served(c)
  BY <1>2 DEF Served, FetchEnds, ReadsConfig
<1>3. CASE Busy(c)
  <2>1. PICK seconds \in RetryAfter :
           /\ asked' = [asked EXCEPT ![c] = seconds]
           /\ slept' = [slept EXCEPT ![c] = IF attempt[c] < LastAttempt THEN seconds ELSE 0]
    BY <1>3 DEF Busy
  <2>2. seconds \in Nat
    OBVIOUS
  <2>3. CASE attempt[c] < LastAttempt
    BY <1>3, <2>1, <2>2, <2>3 DEF Busy, Rejected
  <2>4. CASE ~(attempt[c] < LastAttempt)
    BY <1>3, <2>1, <2>2, <2>4 DEF Busy, Rejected
  <2> QED
    BY <2>3, <2>4
<1>4. CASE Broken(c)
  <2>1. CASE attempt[c] < LastAttempt
    BY <1>4, <2>1 DEF Broken, Rejected
  <2>2. CASE ~(attempt[c] < LastAttempt)
    BY <1>4, <2>2 DEF Broken, Rejected
  <2> QED
    BY <2>1, <2>2
<1>5. CASE Refused(c)
  BY <1>5 DEF Refused
<1>6. CASE Pause(c)
  <2>1. /\ attempt[c] + 1 \in 1..LastAttempt /\ slept[c] >= asked[c]
        /\ BackoffSeconds[attempt[c] + 1] \in Nat
    BY <1>6 DEF Pause
  <2>2. FetchTypeOK'
    BY <1>6, <2>1 DEF Pause
  <2>3. PatientAt(c)'
    BY <1>6, <2>1 DEF Pause
  <2>4. ASSUME NEW d \in Cycle, d # c PROVE PatientAt(d)'
    BY <1>6, <2>4 DEF Pause
  <2> QED
    BY <2>2, <2>3, <2>4
<1>7. CASE GiveUp(c)
  BY <1>7 DEF GiveUp, FetchEnds
<1> QED
  BY <1>1, <1>2, <1>3, <1>4, <1>5, <1>6, <1>7 DEF FetchStep

(* Beyond the feed a coroutine goes on without touching the fetch.         *)
LEMMA ItemStepInv ==
    ASSUME FetchInv, NEW r \in Reader, ItemStep(r)
    PROVE  FetchInv'
<1>1. UNCHANGED fetchVars
  BY DEF ItemStep, ReadFromCache, BeginQuery, EndQuery, FillCache, StartSweep, NextItem,
         Rescue, Embed, Finish, callVars, Configured
<1>2. /\ pc' = pc \/ \E label \in {"item", "article", "vector", "embed", "rescue", "cap", "idle"} :
                          pc' = [pc EXCEPT ![r] = label]
      /\ r \in Cycle => pc' = pc \/ pc[r] \notin {"idle", "request", "pause", "gave_up"}
  BY DEF ItemStep, ReadFromCache, BeginQuery, EndQuery, FillCache, StartSweep, NextItem,
         Rescue, Embed, Finish, callVars, Configured, Goto, ReadsConfig
<1>3. CASE pc' = pc
  BY <1>1, <1>3 DEF FetchInv, FetchTypeOK, PatientAt, fetchVars
<1>4. CASE pc' # pc
  <2>1. PICK label \in {"item", "article", "vector", "embed", "rescue", "cap", "idle"} :
           pc' = [pc EXCEPT ![r] = label]
    BY <1>2, <1>4
  <2>2. FetchTypeOK'
    BY <1>1, <2>1 DEF FetchInv, FetchTypeOK, Pc, ReadsConfig, fetchVars
  <2>3. ASSUME NEW c \in Cycle PROVE PatientAt(c)'
    BY <1>1, <1>2, <1>4, <2>1, CacheAssumption
    DEF FetchInv, FetchTypeOK, PatientAt, fetchVars
  <2> QED
    BY <2>2, <2>3 DEF FetchInv
<1> QED
  BY <1>3, <1>4

LEMMA FetchNextInv == FetchInv /\ [Next]_vars => FetchInv'
<1> SUFFICES ASSUME FetchInv, [Next]_vars PROVE FetchInv'
  OBVIOUS
<1>1. CASE Put /\ UNCHANGED callVars
  BY <1>1 DEF callVars, fetchVars, FetchInv, FetchTypeOK, PatientAt
<1>2. CASE Restart
  BY <1>2, CacheAssumption, BackoffType DEF Restart, FetchInv, FetchTypeOK, PatientAt, Pc
<1>3. CASE UNCHANGED vars
  BY <1>3 DEF vars, callVars, fetchVars, FetchInv, FetchTypeOK, PatientAt
<1> QED
  BY <1>1, <1>2, <1>3, FetchStepInv, ItemStepInv DEF Next

(* A feed is never asked again too early, and nobody sleeps before giving  *)
(* up (_fetch_with_backoff, sources/rss.py), for any set of Retry-After    *)
(* values and any number of sources polled at once.                        *)
THEOREM FeedsAreAskedPatiently == Spec => []FetchIsPatient
<1>1. Init => FetchInv
  BY CacheAssumption, BackoffType DEF Init, FetchInv, FetchTypeOK, PatientAt, Pc
<1>2. FetchInv => FetchIsPatient
  BY DEF FetchInv, PatientAt, FetchIsPatient
<1> QED
  BY <1>1, <1>2, FetchNextInv, PTL DEF Spec
=============================================================================
