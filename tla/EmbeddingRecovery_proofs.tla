----------------------- MODULE EmbeddingRecovery_proofs -----------------------
(***************************************************************************)
(* What TLAPS proves of EmbeddingRecovery, for any items, polls, workers   *)
(* and limits: an item that is given up was tried MaxRetries times and has *)
(* no vector, and the retries stay bounded.                                *)
(*                                                                         *)
(* The argument counts.  While a poll tries an item inline, each sweep it  *)
(* met has bumped the item's retry_count at most once, and the sweep that  *)
(* runs may still do so; those sweeps are fewer than MaxRetries.  So the   *)
(* vector the poll stores comes before the item can be given up, and from  *)
(* then on no sweep lists the item.                                        *)
(***************************************************************************)
EXTENDS EmbeddingRecovery, FiniteSetTheorems, TLAPS

(* The advisory lock.                                                      *)
LockInv ==
    /\ sweepPc \in [Sweeper -> {"idle", "list", "next", "store", "bump", "giveup"}]
    /\ \A w \in Sweeper : sweepPc[w] # "idle" => lock = w

(* What a sweep has in hand.                                               *)
SweepInv ==
    /\ candidates \in [Sweeper -> SUBSET stored] /\ current \in [Sweeper -> SUBSET stored]
    /\ \A w \in Sweeper :
          /\ sweepPc[w] \in {"idle", "list"} => candidates[w] = {}
          /\ sweepPc[w] \in {"idle", "list", "next"} => current[w] = {}
          /\ \A i, j \in current[w] : i = j
          /\ candidates[w] \cap current[w] = {}

RowInv ==
    /\ stored \subseteq Item /\ embedded \subseteq stored /\ noted \subseteq stored
    /\ retries \in [Item -> Nat] /\ givenUp \in [Item -> Nat] /\ deaths \in Nat
    /\ \A i \in Item \ stored : retries[i] = 0 /\ givenUp[i] = 0

PollInv ==
    /\ pollPc \in [Poller -> {"idle", "embed", "store", "note"}]
    /\ pollItem \in [Poller -> SUBSET stored] /\ met \in [Poller -> SUBSET Sweeper]
    /\ \A p \in Poller : pollPc[p] = "idle" => pollItem[p] = {}

(* Sweeper w may still add one to the item's retry_count in this sweep.    *)
MayBump(w, i) ==
    \/ sweepPc[w] = "list"
    \/ i \in candidates[w]
    \/ i \in current[w] /\ sweepPc[w] \in {"store", "bump"}

(* The sweeps a poll has met, counted.                                     *)
MetInv ==
    \A p \in Poller : \A i \in pollItem[p] :
        /\ retries[i] <= Cardinality(met[p])
        /\ \A w \in Sweeper :
              MayBump(w, i) => w \in met[p] /\ retries[i] + 1 <= Cardinality(met[p])

(* An item with a vector is not on its way to being given up.              *)
VectorInv ==
    \A i \in embedded :
        /\ givenUp[i] = 0
        /\ \A w \in Sweeper :
              /\ i \in candidates[w] \cup current[w] => retries[i] + 1 < MaxRetries
              /\ ~(sweepPc[w] = "giveup" /\ i \in current[w])

(* What giving up means.                                                   *)
GivenUpInv ==
    /\ \A i \in Item : givenUp[i] <= 1 /\ (givenUp[i] > 0 => retries[i] >= MaxRetries)
    /\ \A w \in Sweeper : \A i \in candidates[w] \cup current[w] : givenUp[i] = 0
    /\ \A w \in Sweeper : \A i \in current[w] : sweepPc[w] = "giveup" => retries[i] >= MaxRetries

(* One retry beyond the limit needs one more death.                        *)
BoundInv ==
    \A i \in Item :
        /\ retries[i] <= MaxRetries + deaths
        /\ \/ retries[i] < MaxRetries + deaths
           \/ givenUp[i] > 0
           \/ \E w \in Sweeper : sweepPc[w] = "giveup" /\ i \in current[w]

ShapeInv == LockInv /\ SweepInv /\ RowInv /\ PollInv
CountInv == MetInv /\ VectorInv /\ GivenUpInv /\ BoundInv
RecoveryInv == ShapeInv /\ CountInv /\ UnnotedGapMeansDeath

-----------------------------------------------------------------------------
(* Sets of sweepers are finite and smaller than MaxRetries.                *)
LEMMA MetCardinality ==
    ASSUME NEW M \in SUBSET Sweeper
    PROVE  /\ Cardinality(M) \in Nat /\ Cardinality(M) < MaxRetries
           /\ M # {} => Cardinality(M) >= 1
           /\ \A w \in Sweeper \ M : Cardinality(M \cup {w}) = Cardinality(M) + 1
<1>1. IsFiniteSet(M) /\ Cardinality(M) \in Nat /\ Cardinality(M) <= Cardinality(Sweeper)
  BY RecoveryAssumption, FS_Subset, FS_CardinalityType
<1>2. Cardinality(Sweeper) \in Nat
  BY RecoveryAssumption, FS_CardinalityType
<1>3. M # {} => Cardinality(M) >= 1
  BY <1>1, FS_EmptySet
<1>4. \A w \in Sweeper \ M : Cardinality(M \cup {w}) = Cardinality(M) + 1
  BY <1>1, FS_AddElement
<1> QED
  BY <1>1, <1>2, <1>3, <1>4, RecoveryAssumption

LEMMA InitInv == Init => RecoveryInv
  BY RecoveryAssumption
  DEF Init, RecoveryInv, ShapeInv, CountInv, LockInv, SweepInv, RowInv, PollInv, MetInv, MayBump,
      VectorInv, GivenUpInv, BoundInv, UnnotedGapMeansDeath, Nobody

-----------------------------------------------------------------------------
(* The poll.                                                               *)

LEMMA UpsertInv ==
    ASSUME RecoveryInv, NEW p \in Poller, NEW i \in Item, Upsert(p, i)
    PROVE  RecoveryInv'
<1> USE DEF RecoveryInv, ShapeInv, CountInv, Upsert, PollGoto, sweepVars
<1>1. LockInv' /\ SweepInv'
  BY DEF LockInv, SweepInv
<1>2. RowInv'
  BY DEF RowInv
<1>3. PollInv'
  BY DEF PollInv
<1>4. MetInv'
  <2>1. SUFFICES ASSUME NEW q \in Poller, NEW j \in pollItem'[q]
                 PROVE  /\ retries[j] <= Cardinality(met'[q])
                        /\ \A w \in Sweeper : MayBump(w, j) =>
                              w \in met'[q] /\ retries[j] + 1 <= Cardinality(met'[q])
    BY DEF MetInv, MayBump
  <2>2. CASE q = p
    <3>1. j = i /\ met'[q] = {w \in Sweeper : sweepPc[w] = "list"} /\ retries[j] = 0
      BY <2>2 DEF PollInv, RowInv
    <3>2. ASSUME NEW w \in Sweeper, MayBump(w, j) PROVE w \in met'[q]
      BY <3>1, <3>2 DEF MayBump, SweepInv
    <3> QED
      BY <3>1, <3>2, MetCardinality
  <2>3. CASE q # p
    BY <2>3 DEF MetInv, PollInv
  <2> QED
    BY <2>2, <2>3
<1>5. VectorInv' /\ GivenUpInv' /\ BoundInv'
  BY DEF VectorInv, GivenUpInv, BoundInv
<1>6. UnnotedGapMeansDeath'
  BY DEF UnnotedGapMeansDeath, PollInv
<1> QED
  BY <1>1, <1>2, <1>3, <1>4, <1>5, <1>6

(* The heart of the argument: an item whose inline attempt is under way    *)
(* has not been given up and will not be by the sweep that is running.     *)
LEMMA PolledItem ==
    ASSUME RecoveryInv, NEW p \in Poller, NEW i \in pollItem[p]
    PROVE  /\ i \in Item /\ givenUp[i] = 0
           /\ \A w \in Sweeper :
                 /\ i \in candidates[w] \cup current[w] => retries[i] + 1 < MaxRetries
                 /\ ~(sweepPc[w] = "giveup" /\ i \in current[w])
<1> USE DEF RecoveryInv, ShapeInv, CountInv
<1>1. i \in Item /\ retries[i] \in Nat /\ givenUp[i] \in Nat /\ met[p] \in SUBSET Sweeper
  BY DEF PollInv, RowInv
<1>2. /\ Cardinality(met[p]) \in Nat /\ Cardinality(met[p]) < MaxRetries
      /\ retries[i] <= Cardinality(met[p])
  BY <1>1, MetCardinality DEF MetInv
<1>3. retries[i] < MaxRetries /\ MaxRetries \in Nat
  BY <1>1, <1>2, RecoveryAssumption
<1>4. givenUp[i] = 0
  BY <1>1, <1>3 DEF GivenUpInv
<1>5. ASSUME NEW w \in Sweeper
      PROVE  ~(sweepPc[w] = "giveup" /\ i \in current[w])
  BY <1>1, <1>3 DEF GivenUpInv
<1>6. ASSUME NEW w \in Sweeper, i \in candidates[w] \cup current[w]
      PROVE  retries[i] + 1 < MaxRetries
  <2>1. MayBump(w, i)
    BY <1>5, <1>6 DEF MayBump, SweepInv, LockInv
  <2>2. retries[i] + 1 <= Cardinality(met[p])
    BY <2>1 DEF MetInv
  <2> QED
    BY <1>1, <1>2, <2>2, RecoveryAssumption
<1> QED
  BY <1>1, <1>4, <1>5, <1>6

LEMMA PollStepInv ==
    ASSUME RecoveryInv, NEW p \in Poller, PollStep(p) \/ PollDies(p)
    PROVE  RecoveryInv'
<1> USE DEF RecoveryInv, ShapeInv, CountInv
<1>1. /\ UNCHANGED <<sweepVars, stored, retries, givenUp>>
      /\ deaths' \in Nat /\ deaths' >= deaths
      /\ pollItem' = pollItem \/ pollItem' = [pollItem EXCEPT ![p] = {}]
      /\ met' = met \/ met' = [met EXCEPT ![p] = {}]
      /\ met' = met \/ pollItem' = [pollItem EXCEPT ![p] = {}]
      /\ embedded \subseteq embedded' /\ embedded' \subseteq embedded \cup pollItem[p]
      /\ noted \subseteq noted' /\ noted' \subseteq noted \cup pollItem[p]
  <2>1. CASE EmbedInline(p)
    BY <2>1 DEF EmbedInline, itemVars, RowInv
  <2>2. CASE StoreInline(p)
    BY <2>2 DEF StoreInline, PollDone, Nobody, RowInv
  <2>3. CASE StoreInlineFails(p)
    BY <2>3 DEF StoreInlineFails, RowInv
  <2>4. CASE NoteFailure(p)
    BY <2>4 DEF NoteFailure, PollDone, Nobody, RowInv
  <2>5. CASE PollDies(p)
    BY <2>5 DEF PollDies, PollDone, Nobody, itemVars, RowInv
  <2> QED
    BY <2>1, <2>2, <2>3, <2>4, <2>5 DEF PollStep
<1>2. pollItem[p] \in SUBSET stored /\ pollItem'[p] \subseteq pollItem[p]
  BY <1>1 DEF PollInv
<1>3. LockInv' /\ SweepInv'
  BY <1>1 DEF LockInv, SweepInv, sweepVars
<1>4. RowInv'
  BY <1>1, <1>2 DEF RowInv
<1>5. PollInv'
  <2>1. /\ pollPc' = [pollPc EXCEPT ![p] = "idle"] /\ pollItem' = [pollItem EXCEPT ![p] = {}]
        \/ \E label \in {"embed", "store", "note"} : pollPc' = [pollPc EXCEPT ![p] = label]
    BY DEF PollStep, EmbedInline, StoreInline, StoreInlineFails, NoteFailure, PollDies, PollDone,
           PollGoto, Nobody
  <2> QED
    BY <1>1, <2>1 DEF PollInv
<1>6. MetInv'
  BY <1>1 DEF MetInv, MayBump, PollInv, sweepVars
<1>7. VectorInv'
  BY <1>1, PolledItem DEF VectorInv, sweepVars
<1>8. GivenUpInv' /\ BoundInv'
  BY <1>1, RecoveryAssumption DEF GivenUpInv, BoundInv, sweepVars, RowInv
<1>9. UnnotedGapMeansDeath'
  <2>1. \/ pollItem[p] \subseteq pollItem'[p] \/ pollItem[p] \subseteq embedded' \cup noted'
        \/ deaths' > 0
    BY DEF PollStep, EmbedInline, StoreInline, StoreInlineFails, NoteFailure, PollDies, RowInv
  <2>2. \A q \in Poller : q # p => pollItem'[q] = pollItem[q]
    BY <1>1 DEF PollInv
  <2> QED
    BY <1>1, <2>1, <2>2 DEF UnnotedGapMeansDeath, RowInv
<1> QED
  BY <1>3, <1>4, <1>5, <1>6, <1>7, <1>8, <1>9

-----------------------------------------------------------------------------
(* The sweep.                                                              *)

(* A sweep that runs is the only one.                                      *)
LEMMA Alone ==
    ASSUME RecoveryInv, NEW w \in Sweeper, lock = w \/ sweepPc[w] # "idle"
    PROVE  \A v \in Sweeper : v # w => /\ sweepPc[v] = "idle"
                                       /\ candidates[v] = {} /\ current[v] = {}
  BY DEF RecoveryInv, ShapeInv, LockInv, SweepInv

LEMMA AcquireInv ==
    ASSUME RecoveryInv, NEW w \in Sweeper, Acquire(w)
    PROVE  RecoveryInv'
<1> USE DEF RecoveryInv, ShapeInv, CountInv, Acquire, BeginSweep, SweepGoto
<1>1. \A v \in Sweeper : sweepPc[v] = "idle" /\ candidates[v] = {} /\ current[v] = {}
  BY RecoveryAssumption DEF LockInv, SweepInv
<1>2. UNCHANGED <<itemVars, candidates, current, pollPc, pollItem, deaths>>
  OBVIOUS
<1>3. LockInv' /\ SweepInv' /\ RowInv'
  BY <1>1, <1>2, RecoveryAssumption DEF LockInv, SweepInv, RowInv, itemVars
<1>4. PollInv'
  BY <1>2 DEF PollInv, itemVars
<1>5. MetInv'
  <2>1. SUFFICES ASSUME NEW p \in Poller, NEW i \in pollItem[p]
                 PROVE  /\ retries[i] <= Cardinality(met'[p])
                        /\ \A v \in Sweeper : MayBump(v, i)' =>
                              v \in met'[p] /\ retries[i] + 1 <= Cardinality(met'[p])
    BY <1>2 DEF MetInv, itemVars
  <2>2. met'[p] = met[p] \cup {w} /\ w \notin met[p] /\ met[p] \in SUBSET Sweeper
    BY DEF PollInv, InFlight
  <2>3. Cardinality(met'[p]) = Cardinality(met[p]) + 1 /\ Cardinality(met[p]) \in Nat
    BY <2>2, MetCardinality
  <2>4. retries[i] <= Cardinality(met[p]) /\ retries[i] \in Nat
    BY DEF MetInv, RowInv, PollInv
  <2>5. ASSUME NEW v \in Sweeper, MayBump(v, i)' PROVE v = w
    BY <1>1, <1>2, <2>5 DEF MayBump, LockInv
  <2>6. /\ retries[i] <= Cardinality(met'[p])
        /\ retries[i] + 1 <= Cardinality(met'[p])
    BY <2>3, <2>4
  <2>7. w \in met'[p]
    BY <2>2
  <2> HIDE DEF RecoveryInv, ShapeInv, CountInv, Acquire, BeginSweep, SweepGoto
  <2> QED
    BY <2>5, <2>6, <2>7
<1>6. VectorInv' /\ GivenUpInv' /\ BoundInv'
  BY <1>1, <1>2 DEF VectorInv, GivenUpInv, BoundInv, itemVars
<1>7. UnnotedGapMeansDeath'
  BY <1>2 DEF UnnotedGapMeansDeath, itemVars
<1> QED
  BY <1>3, <1>4, <1>5, <1>6, <1>7

LEMMA ListInv ==
    ASSUME RecoveryInv, NEW w \in Sweeper, ListCandidates(w)
    PROVE  RecoveryInv'
<1> USE DEF RecoveryInv, ShapeInv, CountInv, ListCandidates, SweepGoto
<1>1. UNCHANGED <<itemVars, lock, current, pollVars, deaths>>
  OBVIOUS
<1>2. /\ sweepPc[w] = "list" /\ sweepPc' = [sweepPc EXCEPT ![w] = "next"]
      /\ candidates' = [candidates EXCEPT ![w] = {i \in stored \ (embedded \cup aged) : givenUp[i] = 0}]
  OBVIOUS
<1>3. LockInv' /\ SweepInv' /\ RowInv' /\ PollInv'
  BY <1>1, <1>2 DEF LockInv, SweepInv, RowInv, PollInv, itemVars, pollVars
<1>4. MetInv'
  <2>1. ASSUME NEW v \in Sweeper, NEW i, MayBump(v, i)' PROVE MayBump(v, i)
    BY <1>1, <1>2, <2>1 DEF MayBump, LockInv, SweepInv
  <2> QED
    BY <1>1, <2>1 DEF MetInv, itemVars, pollVars
<1>5. VectorInv' /\ GivenUpInv' /\ BoundInv'
  BY <1>1, <1>2 DEF VectorInv, GivenUpInv, BoundInv, itemVars, LockInv, SweepInv
<1>6. UnnotedGapMeansDeath'
  BY <1>1 DEF UnnotedGapMeansDeath, itemVars, pollVars
<1> QED
  BY <1>3, <1>4, <1>5, <1>6

LEMMA RetryInv ==
    ASSUME RecoveryInv, NEW w \in Sweeper, Retry(w) \/ RetrySkips(w)
    PROVE  RecoveryInv'
<1> USE DEF RecoveryInv, ShapeInv, CountInv
<1>1. UNCHANGED <<itemVars, lock, pollVars, deaths>> /\ sweepPc[w] = "next"
  BY DEF Retry, RetrySkips
<1>2. PICK i \in candidates[w] :
         /\ candidates' = [candidates EXCEPT ![w] = @ \ {i}]
         /\ \/ /\ current' = [current EXCEPT ![w] = {i}]
               /\ \E label \in {"store", "bump"} : sweepPc' = [sweepPc EXCEPT ![w] = label]
            \/ UNCHANGED <<current, sweepPc>>
  BY DEF Retry, RetrySkips, SweepGoto
<1>3. /\ current[w] = {} /\ i \in stored /\ candidates'[w] = candidates[w] \ {i}
      /\ current'[w] \subseteq {i} /\ sweepPc'[w] \in {"next", "store", "bump"}
      /\ current'[w] # {} => sweepPc'[w] \in {"store", "bump"}
      /\ sweepPc'[w] = "next" => current'[w] = {}
      /\ \A v \in Sweeper : v # w => /\ candidates'[v] = candidates[v] /\ current'[v] = current[v]
                                      /\ sweepPc'[v] = sweepPc[v]
  BY <1>1, <1>2 DEF SweepInv, LockInv
<1>4. LockInv' /\ RowInv' /\ PollInv'
  BY <1>1, <1>2, <1>3 DEF LockInv, RowInv, PollInv, itemVars, pollVars
<1>5. SweepInv'
  <2>1. candidates' \in [Sweeper -> SUBSET stored'] /\ current' \in [Sweeper -> SUBSET stored']
    BY <1>1, <1>2, <1>3 DEF SweepInv, itemVars
  <2> QED
    BY <1>3, <2>1 DEF SweepInv
<1>6. MetInv'
  <2>1. ASSUME NEW v \in Sweeper, NEW j, MayBump(v, j)' PROVE MayBump(v, j)
    BY <1>1, <1>3, <2>1 DEF MayBump
  <2> QED
    BY <1>1, <2>1 DEF MetInv, itemVars, pollVars
<1>7. VectorInv'
  BY <1>1, <1>3 DEF VectorInv, itemVars
<1>8. GivenUpInv'
  BY <1>1, <1>3 DEF GivenUpInv, itemVars
<1>9. BoundInv'
  <2>1. ASSUME NEW v \in Sweeper, NEW j, sweepPc[v] = "giveup", j \in current[v]
        PROVE  sweepPc'[v] = "giveup" /\ j \in current'[v]
    BY <1>1, <1>3, <2>1
  <2> QED
    BY <1>1, <2>1 DEF BoundInv, itemVars
<1>10. UnnotedGapMeansDeath'
  BY <1>1 DEF UnnotedGapMeansDeath, itemVars, pollVars
<1> QED
  BY <1>4, <1>5, <1>6, <1>7, <1>8, <1>9, <1>10

LEMMA StoreRetryInv ==
    ASSUME RecoveryInv, NEW w \in Sweeper, StoreRetry(w)
    PROVE  RecoveryInv'
<1> USE DEF RecoveryInv, ShapeInv, CountInv, StoreRetry, SweepGoto, Nobody
<1>1. /\ UNCHANGED <<stored, noted, retries, givenUp, lock, candidates, pollVars, deaths>>
      /\ sweepPc[w] = "store" /\ sweepPc' = [sweepPc EXCEPT ![w] = "next"]
      /\ embedded' = embedded \cup current[w] /\ current' = [current EXCEPT ![w] = {}]
  OBVIOUS
<1>2. LockInv' /\ SweepInv' /\ RowInv' /\ PollInv'
  BY <1>1 DEF LockInv, SweepInv, RowInv, PollInv, pollVars
<1>3. MetInv'
  <2>1. ASSUME NEW v \in Sweeper, NEW j, MayBump(v, j)' PROVE MayBump(v, j)
    BY <1>1, <2>1 DEF MayBump, LockInv, SweepInv
  <2> QED
    BY <1>1, <2>1 DEF MetInv, pollVars
<1>4. VectorInv'
  <2>1. ASSUME NEW i \in current[w]
        PROVE  /\ givenUp[i] = 0
               /\ \A v \in Sweeper : i \notin candidates'[v] \cup current'[v]
    BY <1>1, Alone DEF GivenUpInv, SweepInv
  <2> QED
    BY <1>1, <2>1 DEF VectorInv, LockInv, SweepInv
<1>5. GivenUpInv' /\ BoundInv'
  BY <1>1 DEF GivenUpInv, BoundInv, LockInv, SweepInv
<1>6. UnnotedGapMeansDeath'
  BY <1>1 DEF UnnotedGapMeansDeath, pollVars
<1> QED
  BY <1>2, <1>3, <1>4, <1>5, <1>6

LEMMA BumpInv ==
    ASSUME RecoveryInv, NEW w \in Sweeper, Bump(w)
    PROVE  RecoveryInv'
<1> USE DEF RecoveryInv, ShapeInv, CountInv
<1>1. /\ UNCHANGED <<stored, embedded, noted, givenUp, lock, candidates, pollVars, deaths>>
      /\ sweepPc[w] = "bump"
  BY DEF Bump, BumpTo
<1>2. PICK i \in current[w] :
         /\ retries' = [retries EXCEPT ![i] = @ + 1]
         /\ IF retries[i] + 1 >= MaxRetries
            THEN sweepPc' = [sweepPc EXCEPT ![w] = "giveup"] /\ UNCHANGED current
            ELSE /\ sweepPc' = [sweepPc EXCEPT ![w] = "next"]
                 /\ current' = [current EXCEPT ![w] = {}]
  BY DEF Bump, BumpTo, SweepGoto, Nobody
<1>3. /\ i \in Item /\ i \in stored /\ current[w] = {i} /\ i \notin candidates[w] /\ retries[i] \in Nat
      /\ retries' \in [Item -> Nat] /\ retries'[i] = retries[i] + 1
      /\ \A j \in Item : j # i => retries'[j] = retries[j]
  BY <1>1, <1>2 DEF SweepInv, RowInv
<1>4. /\ \A v \in Sweeper : v # w => /\ sweepPc'[v] = "idle" /\ sweepPc[v] = "idle"
                                      /\ candidates[v] = {} /\ current[v] = {} /\ current'[v] = {}
      /\ sweepPc'[w] \in {"giveup", "next"}
      /\ sweepPc'[w] = "giveup" => current'[w] = {i} /\ retries'[i] >= MaxRetries
      /\ sweepPc'[w] = "next" => current'[w] = {} /\ retries'[i] < MaxRetries
  <2>1. \A v \in Sweeper : v # w => /\ sweepPc[v] = "idle"
                                    /\ candidates[v] = {} /\ current[v] = {}
    BY <1>1, Alone
  <2>2. CASE retries[i] + 1 >= MaxRetries
    BY <1>2, <1>3, <2>1, <2>2 DEF SweepInv, LockInv
  <2>3. CASE ~(retries[i] + 1 >= MaxRetries)
    BY <1>2, <1>3, <2>1, <2>3, RecoveryAssumption DEF SweepInv, LockInv
  <2> QED
    BY <2>2, <2>3
<1>5. LockInv'
  BY <1>1, <1>2 DEF LockInv
<1>6. SweepInv'
  <2>1. current' \in [Sweeper -> SUBSET stored']
    BY <1>1, <1>2 DEF SweepInv
  <2> QED
    BY <1>1, <1>3, <1>4, <2>1 DEF SweepInv
<1>7. RowInv' /\ PollInv'
  BY <1>1, <1>3 DEF RowInv, PollInv, pollVars
<1>8. MetInv'
  <2>1. ASSUME NEW v \in Sweeper, NEW j, MayBump(v, j)' PROVE j # i /\ MayBump(v, j)
    BY <1>1, <1>3, <1>4, <2>1 DEF MayBump
  <2>2. MayBump(w, i)
    BY <1>1 DEF MayBump
  <2>3. ASSUME NEW p \in Poller, NEW j \in pollItem[p]
        PROVE  /\ retries'[j] <= Cardinality(met[p])
               /\ \A v \in Sweeper : MayBump(v, j)' =>
                     v \in met[p] /\ retries'[j] + 1 <= Cardinality(met[p])
    <3>1. j \in Item
      BY DEF PollInv, RowInv
    <3>2. CASE j = i
      BY <1>3, <2>1, <2>2, <3>2 DEF MetInv
    <3>3. CASE j # i
      BY <1>3, <2>1, <3>1, <3>3 DEF MetInv
    <3> QED
      BY <3>2, <3>3
  <2> QED
    BY <1>1, <2>3 DEF MetInv, pollVars
<1>9. VectorInv'
  <2>1. SUFFICES ASSUME NEW j \in embedded, NEW v \in Sweeper
                 PROVE  /\ j \in candidates[v] \cup current'[v] => retries'[j] + 1 < MaxRetries
                        /\ ~(sweepPc'[v] = "giveup" /\ j \in current'[v])
    BY <1>1 DEF VectorInv
  <2>2. j \in Item
    BY DEF RowInv
  <2>3. CASE j = i
    <3>1. retries[i] + 1 < MaxRetries
      BY <1>3, <2>3 DEF VectorInv
    <3>2. sweepPc'[w] = "next" /\ current'[w] = {}
      BY <1>3, <1>4, <3>1, RecoveryAssumption
    <3> QED
      BY <1>3, <1>4, <2>3, <3>2
  <2>4. CASE j # i
    BY <1>3, <1>4, <2>2, <2>4 DEF VectorInv
  <2> QED
    BY <2>3, <2>4
<1>10. GivenUpInv'
  <2>1. ASSUME NEW j \in Item PROVE givenUp[j] > 0 => retries'[j] >= MaxRetries
    BY <1>3, RecoveryAssumption DEF GivenUpInv, RowInv
  <2>2. \A v \in Sweeper : current'[v] \subseteq current[v]
    BY <1>3, <1>4
  <2>3. ASSUME NEW v \in Sweeper, NEW j \in current'[v], sweepPc'[v] = "giveup"
        PROVE  retries'[j] >= MaxRetries
    BY <1>4, <2>3
  <2> QED
    BY <1>1, <2>1, <2>2, <2>3 DEF GivenUpInv
<1>11. BoundInv'
  <2>1. SUFFICES ASSUME NEW j \in Item
                 PROVE  /\ retries'[j] <= MaxRetries + deaths
                        /\ \/ retries'[j] < MaxRetries + deaths
                           \/ givenUp[j] > 0
                           \/ \E v \in Sweeper : sweepPc'[v] = "giveup" /\ j \in current'[v]
    BY <1>1 DEF BoundInv
  <2>2. MaxRetries \in Nat /\ deaths \in Nat /\ retries[j] \in Nat /\ retries[i] \in Nat
    BY <1>3, RecoveryAssumption DEF RowInv
  <2>3. CASE j = i
    <3>1. givenUp[i] = 0
      BY DEF GivenUpInv
    <3>2. retries[i] < MaxRetries + deaths
      BY <1>1, <1>3, <1>4, <3>1 DEF BoundInv
    <3>3. retries'[i] <= MaxRetries + deaths
      BY <1>3, <2>2, <3>2
    <3>4. CASE sweepPc'[w] = "giveup"
      BY <1>4, <2>3, <3>3, <3>4
    <3>5. CASE sweepPc'[w] = "next"
      <4>1. retries'[i] < MaxRetries
        BY <1>4, <3>5
      <4> QED
        BY <1>3, <2>2, <2>3, <3>3, <4>1
    <3> QED
      BY <1>4, <3>4, <3>5
  <2>4. CASE j # i
    <3>1. ~\E v \in Sweeper : sweepPc[v] = "giveup" /\ j \in current[v]
      BY <1>1, <1>4
    <3> QED
      BY <1>3, <2>4, <3>1 DEF BoundInv
  <2> QED
    BY <2>3, <2>4
<1>12. UnnotedGapMeansDeath'
  BY <1>1 DEF UnnotedGapMeansDeath, pollVars
<1> QED
  BY <1>5, <1>6, <1>7, <1>8, <1>9, <1>10, <1>11, <1>12

LEMMA GiveUpInv ==
    ASSUME RecoveryInv, NEW w \in Sweeper, GiveUp(w)
    PROVE  RecoveryInv'
<1> USE DEF RecoveryInv, ShapeInv, CountInv
<1>1. /\ UNCHANGED <<stored, embedded, noted, retries, lock, candidates, pollVars, deaths>>
      /\ sweepPc[w] = "giveup" /\ sweepPc' = [sweepPc EXCEPT ![w] = "next"]
      /\ current' = [current EXCEPT ![w] = {}]
      /\ givenUp' = [i \in Item |-> IF i \in current[w] THEN givenUp[i] + 1 ELSE givenUp[i]]
  BY DEF GiveUp, SweepGoto, Nobody
<1>2. /\ \A i \in current[w] : i \in Item /\ i \in stored /\ givenUp[i] = 0 /\ givenUp'[i] = 1
      /\ \A i \in Item \ current[w] : givenUp'[i] = givenUp[i]
      /\ givenUp' \in [Item -> Nat]
  BY <1>1 DEF GivenUpInv, SweepInv, RowInv
<1>3. LockInv' /\ SweepInv' /\ RowInv' /\ PollInv'
  BY <1>1, <1>2 DEF LockInv, SweepInv, RowInv, PollInv, pollVars
<1>4. MetInv'
  <2>1. ASSUME NEW v \in Sweeper, NEW j, MayBump(v, j)' PROVE MayBump(v, j)
    BY <1>1, <2>1 DEF MayBump, LockInv, SweepInv
  <2> QED
    BY <1>1, <2>1 DEF MetInv, pollVars
<1>5. \A v \in Sweeper : /\ current'[v] \subseteq current[v]
                         /\ sweepPc'[v] = "giveup" => sweepPc[v] = "giveup" /\ v # w
  BY <1>1 DEF SweepInv, LockInv
<1>6. VectorInv'
  <2>1. \A i \in embedded : i \in Item /\ i \notin current[w]
    BY <1>1 DEF VectorInv, RowInv
  <2> QED
    BY <1>1, <1>2, <1>5, <2>1 DEF VectorInv
<1>7. GivenUpInv'
  <2>1. ASSUME NEW i \in Item PROVE givenUp'[i] <= 1 /\ (givenUp'[i] > 0 => retries[i] >= MaxRetries)
    BY <1>1, <1>2 DEF GivenUpInv
  <2>2. ASSUME NEW v \in Sweeper, NEW i \in candidates[v] \cup current'[v] PROVE givenUp'[i] = 0
    <3>1. i \in Item /\ i \in candidates[v] \cup current[v]
      BY <1>5 DEF SweepInv, RowInv
    <3>2. i \notin current[w]
      BY <1>1, Alone DEF SweepInv
    <3> QED
      BY <1>2, <3>1, <3>2 DEF GivenUpInv
  <2> QED
    BY <1>1, <1>5, <2>1, <2>2 DEF GivenUpInv
<1>8. BoundInv'
  <2>1. ASSUME NEW i \in Item
        PROVE  retries[i] < MaxRetries + deaths \/ givenUp'[i] > 0
    <3>1. CASE i \in current[w]
      BY <1>2, <3>1
    <3>2. CASE i \notin current[w]
      <4>1. ~\E v \in Sweeper : sweepPc[v] = "giveup" /\ i \in current[v]
        BY <1>1, <3>2, Alone
      <4> QED
        BY <1>2, <3>2, <4>1 DEF BoundInv
    <3> QED
      BY <3>1, <3>2
  <2> QED
    BY <1>1, <2>1 DEF BoundInv
<1>9. UnnotedGapMeansDeath'
  BY <1>1 DEF UnnotedGapMeansDeath, pollVars
<1> QED
  BY <1>3, <1>4, <1>6, <1>7, <1>8, <1>9

LEMMA SweepEndsInv ==
    ASSUME RecoveryInv, NEW w \in Sweeper, FinishSweep(w) \/ SweepDies(w)
    PROVE  RecoveryInv'
<1> USE DEF RecoveryInv, ShapeInv, CountInv
<1>1. /\ UNCHANGED <<itemVars, pollVars>>
      /\ sweepPc[w] # "idle" /\ sweepPc' = [sweepPc EXCEPT ![w] = "idle"]
      /\ candidates' = [candidates EXCEPT ![w] = {}] /\ current' = [current EXCEPT ![w] = {}]
      /\ deaths' \in Nat /\ deaths' >= deaths
      /\ sweepPc[w] = "giveup" => deaths' = deaths + 1
  BY DEF FinishSweep, SweepDies, SweepEnds, SweepGoto, Nobody, RowInv
<1>2. LockInv' /\ SweepInv' /\ RowInv' /\ PollInv'
  <2>1. \A v \in Sweeper : v # w => sweepPc[v] = "idle"
    BY <1>1, Alone
  <2> QED
    BY <1>1, <2>1 DEF LockInv, SweepInv, RowInv, PollInv, itemVars, pollVars
<1>3. MetInv'
  <2>1. ASSUME NEW v \in Sweeper, NEW j, MayBump(v, j)' PROVE MayBump(v, j)
    BY <1>1, <2>1 DEF MayBump, LockInv, SweepInv
  <2> QED
    BY <1>1, <2>1 DEF MetInv, itemVars, pollVars
<1>4. \A v \in Sweeper : /\ current'[v] \subseteq current[v] /\ candidates'[v] \subseteq candidates[v]
                         /\ sweepPc'[v] = "giveup" => sweepPc[v] = "giveup"
  BY <1>1 DEF SweepInv, LockInv
<1>5. VectorInv' /\ GivenUpInv'
  BY <1>1, <1>4 DEF VectorInv, GivenUpInv, itemVars
<1>6. BoundInv'
  <2>1. SUFFICES ASSUME NEW i \in Item
                 PROVE  /\ retries[i] <= MaxRetries + deaths'
                        /\ retries[i] < MaxRetries + deaths' \/ givenUp[i] > 0
    BY <1>1 DEF BoundInv, itemVars
  <2>2. /\ MaxRetries \in Nat /\ deaths \in Nat /\ retries[i] \in Nat
        /\ retries[i] <= MaxRetries + deaths
    BY RecoveryAssumption DEF RowInv, BoundInv
  <2>3. CASE \E v \in Sweeper : sweepPc[v] = "giveup" /\ i \in current[v]
    <3>1. sweepPc[w] = "giveup"
      BY <1>1, <2>3, Alone
    <3> QED
      BY <1>1, <2>2, <3>1
  <2>4. CASE ~\E v \in Sweeper : sweepPc[v] = "giveup" /\ i \in current[v]
    <3>1. retries[i] < MaxRetries + deaths \/ givenUp[i] > 0
      BY <2>4 DEF BoundInv
    <3> QED
      BY <1>1, <2>2, <3>1
  <2> QED
    BY <2>3, <2>4
<1>7. UnnotedGapMeansDeath'
  BY <1>1 DEF UnnotedGapMeansDeath, itemVars, pollVars, RowInv
<1> QED
  BY <1>2, <1>3, <1>5, <1>6, <1>7

LEMMA QuietInv ==
    ASSUME RecoveryInv, UNCHANGED vars \/ \E i \in Item : Age(i)
    PROVE  RecoveryInv'
<1>1. UNCHANGED <<stored, embedded, noted, retries, givenUp, pollVars, sweepVars, deaths>>
  BY DEF Age, vars, itemVars
<1> QED
  BY <1>1 DEF RecoveryInv, ShapeInv, CountInv, LockInv, SweepInv, RowInv, PollInv, MetInv, MayBump,
              VectorInv, GivenUpInv, BoundInv, UnnotedGapMeansDeath, pollVars, sweepVars

LEMMA Invariance == Spec => []RecoveryInv
<1>1. RecoveryInv /\ [Next]_vars => RecoveryInv'
  BY UpsertInv, PollStepInv, AcquireInv, ListInv, RetryInv, StoreRetryInv, BumpInv, GiveUpInv,
     SweepEndsInv, QuietInv
  DEF Next, SweepStep
<1> QED
  BY InitInv, <1>1, PTL DEF Spec

-----------------------------------------------------------------------------
(* An item is given up at most once, and retried beyond the limit only     *)
(* because a sweep died between bump_retry_count and append_warning.       *)
THEOREM RetryBound == Spec => []RetriesAreBounded
<1>1. RecoveryInv => RetriesAreBounded
  BY DEF RecoveryInv, CountInv, GivenUpInv, BoundInv, RetriesAreBounded
<1> QED
  BY Invariance, <1>1, PTL

(* What is marked permanently failed was tried MaxRetries times and has no *)
(* vector, as long as one inline attempt meets fewer than MaxRetries       *)
(* sweeps (run_for_source against embed_retry_sweep).                      *)
THEOREM GivingUpIsSafe == Spec => []GivenUpHasNoVector
<1>1. RecoveryInv => GivenUpHasNoVector
  BY DEF RecoveryInv, ShapeInv, CountInv, GivenUpInv, VectorInv, RowInv, GivenUpHasNoVector
<1> QED
  BY Invariance, <1>1, PTL

(* An item without vector, without warning and without a poll at work on   *)
(* it is the trace of a death: run_for_source notes every exception.       *)
THEOREM GapsAreNoted == Spec => []UnnotedGapMeansDeath
<1>1. RecoveryInv => UnnotedGapMeansDeath
  BY DEF RecoveryInv
<1> QED
  BY Invariance, <1>1, PTL
=============================================================================
