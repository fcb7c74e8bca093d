------------------------- MODULE EmbeddingRecovery --------------------------
(***************************************************************************)
(* How an item gets its embedding: inline in the poll that inserted it     *)
(* (worker/app/ingest.py, run_for_source) or later, in the retry sweep     *)
(* (worker/app/cluster.py, embed_retry_sweep), with the embedding service  *)
(* failing and processes dying between any two awaits.                     *)
(*                                                                         *)
(* Pollers are poll jobs and manual triggers; sweepers are the workers     *)
(* that run embed_retry, one at a time under its advisory lock.            *)
(***************************************************************************)
EXTENDS Naturals, FiniteSets

CONSTANTS
    Item,         \* items the feeds deliver
    Poller,       \* poll cycles that may run at the same time
    Sweeper,      \* workers that run the retry job
    NoSweeper,    \* the lock's holder when it is free
    MaxRetries,   \* embedding_max_retries
    MaxDeaths,    \* bound on deaths of polls and sweeps
    MaxSkips      \* bound on attempts that end in an unexpected exception

(* A sweep starts every 30 minutes per worker; an inline attempt is over   *)
(* after two requests of at most 7 s and a pause of 2 s.  So one attempt   *)
(* meets at most one sweep of each worker, and fewer than MaxRetries.      *)
ASSUME RecoveryAssumption ==
    /\ NoSweeper \notin Sweeper
    /\ MaxRetries \in Nat \ {0}
    /\ IsFiniteSet(Sweeper) /\ Cardinality(Sweeper) < MaxRetries
    /\ MaxDeaths \in Nat /\ MaxSkips \in Nat

VARIABLES
    stored,      \* items in the table
    embedded,    \* items with an embedding
    noted,       \* items with the warning embedding_failed
    retries,     \* retry_count
    givenUp,     \* how many times embedding_permanently_failed is among the warnings
    aged,        \* items older than max_story_age_hours
    pollPc, pollItem,
    met,         \* sweepers whose sweep may list the poller's item during its inline attempt
    lock,        \* holder of pg_advisory_lock(embed_retry)
    sweepPc,
    candidates,  \* candidates the sweep has still to try
    current,     \* candidate whose result is being recorded
    deaths, skips

itemVars == <<stored, embedded, noted, retries, givenUp, aged>>
pollVars == <<pollPc, pollItem, met>>
sweepVars == <<lock, sweepPc, candidates, current>>
vars == <<itemVars, pollVars, sweepVars, deaths, skips>>

Nobody == {}     \* pollItem and current hold a set of at most one item

Init ==
    /\ stored = {} /\ embedded = {} /\ noted = {} /\ aged = {}
    /\ retries = [i \in Item |-> 0]
    /\ givenUp = [i \in Item |-> 0]
    /\ pollPc = [p \in Poller |-> "idle"]
    /\ pollItem = [p \in Poller |-> Nobody]
    /\ met = [p \in Poller |-> {}]
    /\ lock = NoSweeper
    /\ sweepPc = [w \in Sweeper |-> "idle"]
    /\ candidates = [w \in Sweeper |-> {}]
    /\ current = [w \in Sweeper |-> Nobody]
    /\ deaths = 0 /\ skips = 0

-----------------------------------------------------------------------------
(* The poll.                                                               *)

PollGoto(p, label) == pollPc' = [pollPc EXCEPT ![p] = label]

PollDone(p) ==
    /\ PollGoto(p, "idle")
    /\ pollItem' = [pollItem EXCEPT ![p] = Nobody]
    /\ met' = [met EXCEPT ![p] = {}]

(* upsert_item inserted a new row; a known hash inserts nothing and the    *)
(* poll goes on to the next raw item.                                      *)
Upsert(p, i) ==
    /\ pollPc[p] = "idle"
    /\ i \notin stored
    /\ stored' = stored \cup {i}
    /\ pollItem' = [pollItem EXCEPT ![p] = {i}]
    /\ met' = [met EXCEPT ![p] = {w \in Sweeper : sweepPc[w] = "list"}]
    /\ PollGoto(p, "embed")
    /\ UNCHANGED <<embedded, noted, retries, givenUp, aged, sweepVars, deaths, skips>>

\* mutant: only EmbedError is handled, any other exception leaves no note
EmbedInlineCatchesOneKind(p) ==
    /\ pollPc[p] = "embed"
    /\ \/ \E label \in {"store", "note"} : PollGoto(p, label) /\ UNCHANGED <<pollItem, met>>
       \/ PollDone(p)
    /\ UNCHANGED <<itemVars, sweepVars, deaths, skips>>

(* embed() returned a vector, or raised EmbedError or anything else.       *)
EmbedInline(p) ==
    /\ pollPc[p] = "embed"
    /\ \E label \in {"store", "note"} : PollGoto(p, label)
    /\ UNCHANGED <<pollItem, met, itemVars, sweepVars, deaths, skips>>

(* set_embedding in the poll.                                              *)
StoreInline(p) ==
    /\ pollPc[p] = "store"
    /\ embedded' = embedded \cup pollItem[p]
    /\ PollDone(p)
    /\ UNCHANGED <<stored, noted, retries, givenUp, aged, sweepVars, deaths, skips>>

(* set_embedding raised inside the try; its row was written or not.        *)
StoreInlineFails(p) ==
    /\ pollPc[p] = "store"
    /\ embedded' \in {embedded, embedded \cup pollItem[p]}
    /\ PollGoto(p, "note")
    /\ UNCHANGED <<pollItem, met, stored, noted, retries, givenUp, aged, sweepVars, deaths, skips>>

(* append_warning(embedding_failed).                                       *)
NoteFailure(p) ==
    /\ pollPc[p] = "note"
    /\ noted' = noted \cup pollItem[p]
    /\ PollDone(p)
    /\ UNCHANGED <<stored, embedded, retries, givenUp, aged, sweepVars, deaths, skips>>

(* The process dies, or append_warning raises out of the poll.             *)
PollDies(p) ==
    /\ pollPc[p] # "idle"
    /\ deaths < MaxDeaths
    /\ deaths' = deaths + 1
    /\ PollDone(p)
    /\ UNCHANGED <<itemVars, sweepVars, skips>>

-----------------------------------------------------------------------------
(* The sweep.                                                              *)

SweepGoto(w, label) == sweepPc' = [sweepPc EXCEPT ![w] = label]

InFlight == {p \in Poller : pollPc[p] # "idle"}

BeginSweep(w) ==
    /\ sweepPc[w] = "idle"
    /\ \A p \in InFlight : w \notin met[p]
    /\ met' = [p \in Poller |-> IF p \in InFlight THEN met[p] \cup {w} ELSE met[p]]
    /\ lock' = w
    /\ SweepGoto(w, "list")
    /\ UNCHANGED <<pollPc, pollItem, candidates, current, itemVars, deaths, skips>>

\* mutant: the retry job runs without its advisory lock
AcquireUnlocked(w) == BeginSweep(w)

(* The interval fires and with_advisory_lock gets the lock.                *)
Acquire(w) ==
    /\ lock = NoSweeper
    /\ BeginSweep(w)

\* mutant: an item is a candidate only if the poll noted its failure
ListNotedCandidates(w) ==
    /\ sweepPc[w] = "list"
    /\ candidates' = [candidates EXCEPT ![w] =
          {i \in (stored \cap noted) \ (embedded \cup aged) : givenUp[i] = 0}]
    /\ SweepGoto(w, "next")
    /\ UNCHANGED <<lock, current, pollVars, itemVars, deaths, skips>>

(* items_needing_embedding: no vector, in the window, not given up.  The   *)
(* order of the rows (created_at) makes no difference here.                *)
ListCandidates(w) ==
    /\ sweepPc[w] = "list"
    /\ candidates' = [candidates EXCEPT ![w] =
          {i \in stored \ (embedded \cup aged) : givenUp[i] = 0}]
    /\ SweepGoto(w, "next")
    /\ UNCHANGED <<lock, current, pollVars, itemVars, deaths, skips>>

(* embed() returned a vector, or raised EmbedError.                        *)
Retry(w) ==
    /\ sweepPc[w] = "next"
    /\ \E i \in candidates[w] :
          /\ current' = [current EXCEPT ![w] = {i}]
          /\ candidates' = [candidates EXCEPT ![w] = @ \ {i}]
    /\ \E label \in {"store", "bump"} : SweepGoto(w, label)
    /\ UNCHANGED <<lock, pollVars, itemVars, deaths, skips>>

(* Anything else was raised: the item is left for the next sweep and its   *)
(* retry_count is not touched.                                             *)
RetrySkips(w) ==
    /\ sweepPc[w] = "next"
    /\ skips < MaxSkips
    /\ skips' = skips + 1
    /\ \E i \in candidates[w] : candidates' = [candidates EXCEPT ![w] = @ \ {i}]
    /\ UNCHANGED <<lock, sweepPc, current, pollVars, itemVars, deaths>>

(* set_embedding in the sweep; whether somebody else was faster is not     *)
(* looked at.                                                              *)
StoreRetry(w) ==
    /\ sweepPc[w] = "store"
    /\ embedded' = embedded \cup current[w]
    /\ current' = [current EXCEPT ![w] = Nobody]
    /\ SweepGoto(w, "next")
    /\ UNCHANGED <<lock, candidates, pollVars, stored, noted, retries, givenUp, aged, deaths, skips>>

BumpTo(w, limit) ==
    /\ sweepPc[w] = "bump"
    /\ \E i \in current[w] :
          /\ retries' = [retries EXCEPT ![i] = @ + 1]
          /\ IF retries[i] + 1 >= limit
             THEN SweepGoto(w, "giveup") /\ UNCHANGED current
             ELSE SweepGoto(w, "next") /\ current' = [current EXCEPT ![w] = Nobody]
    /\ UNCHANGED <<lock, candidates, pollVars, stored, embedded, noted, givenUp, aged, deaths, skips>>

\* mutant: the limit is compared before the count is bumped, one too early
BumpEarly(w) == BumpTo(w, MaxRetries - 1)

(* bump_retry_count, and the comparison of its result with max_retries.    *)
Bump(w) == BumpTo(w, MaxRetries)

(* append_warning(embedding_permanently_failed), a transaction of its own. *)
GiveUp(w) ==
    /\ sweepPc[w] = "giveup"
    /\ givenUp' = [i \in Item |-> IF i \in current[w] THEN givenUp[i] + 1 ELSE givenUp[i]]
    /\ current' = [current EXCEPT ![w] = Nobody]
    /\ SweepGoto(w, "next")
    /\ UNCHANGED <<lock, candidates, pollVars, stored, embedded, noted, retries, aged, deaths, skips>>

SweepEnds(w) ==
    /\ lock' = NoSweeper
    /\ SweepGoto(w, "idle")
    /\ candidates' = [candidates EXCEPT ![w] = {}]
    /\ current' = [current EXCEPT ![w] = Nobody]
    /\ UNCHANGED <<pollVars, itemVars, skips>>

FinishSweep(w) ==
    /\ sweepPc[w] = "next"
    /\ candidates[w] = {}
    /\ SweepEnds(w)
    /\ UNCHANGED deaths

(* The process dies, or a database call raises out of the sweep.           *)
SweepDies(w) ==
    /\ sweepPc[w] # "idle"
    /\ deaths < MaxDeaths
    /\ deaths' = deaths + 1
    /\ SweepEnds(w)

(* An item leaves the window.                                              *)
Age(i) ==
    /\ i \in stored \ aged
    /\ aged' = aged \cup {i}
    /\ UNCHANGED <<stored, embedded, noted, retries, givenUp, pollVars, sweepVars, deaths, skips>>

-----------------------------------------------------------------------------
PollStep(p) == EmbedInline(p) \/ StoreInline(p) \/ StoreInlineFails(p) \/ NoteFailure(p)

SweepStep(w) ==
    \/ Acquire(w) \/ ListCandidates(w) \/ Retry(w) \/ RetrySkips(w) \/ StoreRetry(w)
    \/ Bump(w) \/ GiveUp(w) \/ FinishSweep(w)

Next ==
    \/ \E p \in Poller : PollStep(p) \/ PollDies(p) \/ \E i \in Item : Upsert(p, i)
    \/ \E w \in Sweeper : SweepStep(w) \/ SweepDies(w)
    \/ \E i \in Item : Age(i)

Spec == Init /\ [][Next]_vars

(* Awaits return and the interval fires; polls begin, processes die and    *)
(* items age when they like.                                               *)
FairSpec ==
    /\ Spec
    /\ \A p \in Poller : WF_vars(PollStep(p))
    /\ \A w \in Sweeper : WF_vars(SweepStep(w))

-----------------------------------------------------------------------------
(* Every variable stays in its type; the retry counter stays bounded.      *)
TypeOK ==
    /\ stored \subseteq Item
    /\ embedded \subseteq stored /\ noted \subseteq stored /\ aged \subseteq stored
    /\ retries \in [Item -> 0..(MaxRetries + MaxDeaths)]
    /\ givenUp \in [Item -> Nat]
    /\ pollPc \in [Poller -> {"idle", "embed", "store", "note"}]
    /\ pollItem \in [Poller -> SUBSET stored]
    /\ met \in [Poller -> SUBSET Sweeper]
    /\ lock \in Sweeper \cup {NoSweeper}
    /\ sweepPc \in [Sweeper -> {"idle", "list", "next", "store", "bump", "giveup"}]
    /\ candidates \in [Sweeper -> SUBSET stored]
    /\ current \in [Sweeper -> SUBSET stored]
    /\ deaths \in 0..MaxDeaths /\ skips \in 0..MaxSkips

(* An item is given up at most once, and retried beyond the limit only     *)
(* because a sweep died between bump_retry_count and append_warning.       *)
RetriesAreBounded ==
    \A i \in Item : givenUp[i] <= 1 /\ retries[i] <= MaxRetries + deaths

(* What is marked permanently failed was tried MaxRetries times and really *)
(* has no embedding: a slow inline attempt never lands after the sweep has *)
(* given its item up.                                                      *)
GivenUpHasNoVector ==
    \A i \in Item : givenUp[i] > 0 => retries[i] >= MaxRetries /\ i \notin embedded

(* An item without vector, without warning and without a poll working on   *)
(* it is the trace of a death (run_for_source notes every exception).      *)
UnnotedGapMeansDeath ==
    \A i \in stored \ (embedded \cup noted) :
        deaths > 0 \/ \E p \in Poller : i \in pollItem[p]

(* Every inserted item gets its embedding or is marked permanently failed, *)
(* unless it ages out first, whoever died at whatever point.               *)
EveryItemResolves ==
    \A i \in Item : i \in stored ~> (i \in embedded \/ givenUp[i] > 0 \/ i \in aged)
=============================================================================
