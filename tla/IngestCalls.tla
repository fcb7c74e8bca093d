----------------------------- MODULE IngestCalls -----------------------------
(***************************************************************************)
(* The calls a poll makes and how it behaves when they fail: the feed with *)
(* its backoff (worker/app/sources/rss.py, _fetch_with_backoff), the       *)
(* rescue of a thin article and the embedding of an item (worker/app/      *)
(* embed.py), each under the configuration it reads through ConfigCache on *)
(* the way.  embed_retry_sweep reads and embeds likewise.                  *)
(*                                                                         *)
(* What is stored of an item is the matter of EmbeddingRecovery, a         *)
(* source's health that of SourceHealth.                                   *)
(***************************************************************************)
EXTENDS ConfigCache, Sequences

CONSTANTS
    RetryAfter,   \* seconds a server may ask for in a Retry-After header (0: none)
    MaxItems,     \* bound on the items of a feed, or of a sweep
    MaxRestarts   \* bound on restarts of the worker

ASSUME CallsAssumption ==
    /\ RetryAfter \subseteq Nat /\ 0 \in RetryAfter
    /\ MaxItems \in Nat /\ MaxRestarts \in Nat

BackoffSeconds == <<1, 2, 4, 8>>

VARIABLES
    pc,
    attempt,    \* of the feed, from 0
    slept,      \* seconds since the feed's last answer
    asked,      \* what that answer asked for
    todo,       \* items still to process
    tries,      \* requests made to the embedder for the current item
    restarts

fetchVars == <<attempt, slept, asked>>
callVars == <<pc, fetchVars, todo, tries, restarts>>
vars == <<cacheVars, callVars>>

Init ==
    /\ CacheInit
    /\ pc = [r \in Reader |-> "idle"]
    /\ attempt = [c \in Cycle |-> 0] /\ slept = [c \in Cycle |-> 0]
    /\ asked = [c \in Cycle |-> 0]
    /\ todo = [r \in Reader |-> 0]
    /\ tries = [r \in Reader |-> 0]
    /\ restarts = 0

Goto(r, label) == pc' = [pc EXCEPT ![r] = label]

-----------------------------------------------------------------------------
(* The feed.                                                               *)

\* mutant: the cycle keeps the cache
StartCycleKeepsTheCache(c) ==
    /\ pc[c] = "idle"
    /\ since' = [since EXCEPT ![c] = stored]
    /\ Goto(c, "request")
    /\ UNCHANGED <<stored, cache, asking, held, got, raced, fetchVars, todo, tries, restarts>>

(* run_all_sources empties the cache and begins to fetch a source.         *)
StartCycle(c) ==
    /\ pc[c] = "idle"
    /\ Clear(c)
    /\ Goto(c, "request")
    /\ UNCHANGED <<fetchVars, todo, tries, restarts>>

LastAttempt == Len(BackoffSeconds)

(* The fetch is over and its locals are gone.                              *)
FetchEnds(c) ==
    /\ attempt' = [attempt EXCEPT ![c] = 0]
    /\ slept' = [slept EXCEPT ![c] = 0]
    /\ asked' = [asked EXCEPT ![c] = 0]

(* 200, and a feed.                                                        *)
Served(c) ==
    /\ pc[c] = "request"
    /\ Goto(c, "cap")
    /\ FetchEnds(c)
    /\ UNCHANGED <<cacheVars, todo, tries, restarts>>

Rejected(c) == Goto(c, IF attempt[c] < LastAttempt THEN "pause" ELSE "gave_up")

\* mutant: the wait is not bound to there being another attempt
BusyAlwaysWaits(c) ==
    /\ pc[c] = "request"
    /\ \E seconds \in RetryAfter :
          /\ asked' = [asked EXCEPT ![c] = seconds]
          /\ slept' = [slept EXCEPT ![c] = seconds]
    /\ Rejected(c)
    /\ UNCHANGED <<cacheVars, attempt, todo, tries, restarts>>

(* 429 or 5xx: waits as asked, if it will try again.                       *)
Busy(c) ==
    /\ pc[c] = "request"
    /\ \E seconds \in RetryAfter :
          /\ asked' = [asked EXCEPT ![c] = seconds]
          /\ slept' = [slept EXCEPT ![c] = IF attempt[c] < LastAttempt THEN seconds ELSE 0]
    /\ Rejected(c)
    /\ UNCHANGED <<cacheVars, attempt, todo, tries, restarts>>

(* The connection fails or times out.                                      *)
Broken(c) ==
    /\ pc[c] = "request"
    /\ asked' = [asked EXCEPT ![c] = 0] /\ slept' = [slept EXCEPT ![c] = 0]
    /\ Rejected(c)
    /\ UNCHANGED <<cacheVars, attempt, todo, tries, restarts>>

(* Any other status, or 200 with something that is no feed.                *)
Refused(c) ==
    /\ pc[c] = "request"
    /\ slept' = [slept EXCEPT ![c] = 0]
    /\ Goto(c, "gave_up")
    /\ UNCHANGED <<cacheVars, attempt, asked, todo, tries, restarts>>

\* mutant: the loop does not count its attempts
PauseForEver(c) ==
    /\ pc[c] = "pause"
    /\ slept' = [slept EXCEPT ![c] = @ + BackoffSeconds[attempt[c] + 1]]
    /\ Goto(c, "request")
    /\ UNCHANGED <<cacheVars, attempt, asked, todo, tries, restarts>>

(* The backoff comes on top of what the server asked for.                  *)
Pause(c) ==
    /\ pc[c] = "pause"
    /\ slept' = [slept EXCEPT ![c] = @ + BackoffSeconds[attempt[c] + 1]]
    /\ attempt' = [attempt EXCEPT ![c] = @ + 1]
    /\ Goto(c, "request")
    /\ UNCHANGED <<cacheVars, asked, todo, tries, restarts>>

(* SourceError: recorded by run_for_source; the cycle is over.             *)
GiveUp(c) ==
    /\ pc[c] = "gave_up"
    /\ Goto(c, "idle")
    /\ FetchEnds(c)
    /\ UNCHANGED <<cacheVars, todo, tries, restarts>>

-----------------------------------------------------------------------------
(* Reading the configuration at three places: the cap on a cycle's items,  *)
(* the time box of a rescue, the timeout of the embedder.                  *)

ReadsConfig == {"cap", "rescue", "embed"}

Configured(r) ==
    IF pc[r] = "cap"
    THEN \E n \in 0..MaxItems :
            /\ todo' = [todo EXCEPT ![r] = n]
            /\ Goto(r, "item")
    ELSE /\ Goto(r, IF pc[r] = "rescue" THEN "article" ELSE "vector")
         /\ UNCHANGED todo

ReadFromCache(r) ==
    /\ pc[r] \in ReadsConfig
    /\ Hit(r) /\ Configured(r)
    /\ UNCHANGED <<fetchVars, tries, restarts>>

BeginQuery(r) ==
    /\ pc[r] \in ReadsConfig
    /\ Miss(r)
    /\ UNCHANGED callVars

EndQuery(r) ==
    /\ pc[r] \in ReadsConfig
    /\ Query(r)
    /\ UNCHANGED callVars

FillCache(r) ==
    /\ pc[r] \in ReadsConfig
    /\ Store(r) /\ Configured(r)
    /\ UNCHANGED <<fetchVars, tries, restarts>>

-----------------------------------------------------------------------------
(* The items.                                                              *)

(* embed_retry_sweep reads its limits and lists its candidates.            *)
StartSweep(r) ==
    /\ pc[r] = "idle" /\ r \notin Cycle
    /\ Goto(r, "cap")
    /\ UNCHANGED <<cacheVars, fetchVars, todo, tries, restarts>>

(* A thin article is rescued first; a duplicate is not embedded.           *)
NextItem(r) ==
    /\ pc[r] = "item" /\ todo[r] > 0
    /\ todo' = [todo EXCEPT ![r] = @ - 1]
    /\ \/ Goto(r, "embed")
       \/ r \in Cycle /\ Goto(r, "rescue")
       \/ r \in Cycle /\ Goto(r, "item")
    /\ UNCHANGED <<cacheVars, fetchVars, tries, restarts>>

(* Whatever the article's server does within the time box.                 *)
Rescue(r) ==
    /\ pc[r] = "article"
    /\ pc' \in {[pc EXCEPT ![r] = "embed"], [pc EXCEPT ![r] = "item"]}
    /\ UNCHANGED <<cacheVars, fetchVars, todo, tries, restarts>>

(* A vector, a 4xx or a vector of the wrong shape ends it; a 5xx or a      *)
(* timeout is tried once more.                                             *)
Embed(r) ==
    /\ pc[r] = "vector"
    /\ \/ Goto(r, "item") /\ tries' = [tries EXCEPT ![r] = 0]
       \/ tries[r] = 0 /\ tries' = [tries EXCEPT ![r] = 1] /\ UNCHANGED pc
    /\ UNCHANGED <<cacheVars, fetchVars, todo, restarts>>

Finish(r) ==
    /\ pc[r] = "item" /\ todo[r] = 0
    /\ Goto(r, "idle")
    /\ UNCHANGED <<cacheVars, fetchVars, todo, tries, restarts>>

Restart ==
    /\ restarts < MaxRestarts
    /\ restarts' = restarts + 1
    /\ Forget
    /\ pc' = [r \in Reader |-> "idle"]
    /\ attempt' = [c \in Cycle |-> 0] /\ slept' = [c \in Cycle |-> 0]
    /\ asked' = [c \in Cycle |-> 0]
    /\ todo' = [r \in Reader |-> 0] /\ tries' = [r \in Reader |-> 0]

-----------------------------------------------------------------------------
FetchStep(c) ==
    \/ StartCycle(c) \/ Served(c) \/ Busy(c) \/ Broken(c) \/ Refused(c) \/ Pause(c) \/ GiveUp(c)

ItemStep(r) ==
    \/ ReadFromCache(r) \/ BeginQuery(r) \/ EndQuery(r) \/ FillCache(r)
    \/ StartSweep(r) \/ NextItem(r) \/ Rescue(r) \/ Embed(r) \/ Finish(r)

Next ==
    \/ \E c \in Cycle : FetchStep(c)
    \/ \E r \in Reader : ItemStep(r)
    \/ Put /\ UNCHANGED callVars
    \/ Restart

Spec == Init /\ [][Next]_vars

(* Intervals fire for ever and every request returns or times out.         *)
FairSpec ==
    /\ Spec
    /\ \A c \in Cycle : WF_vars(FetchStep(c))
    /\ \A r \in Reader : WF_vars(ItemStep(r))

-----------------------------------------------------------------------------
(* Every variable stays in its type; nothing is held or asked for except   *)
(* where the configuration is read.                                        *)
TypeOK ==
    /\ CacheTypeOK
    /\ pc \in [Reader -> {"idle", "request", "pause", "gave_up", "item", "article", "vector"}
                            \cup ReadsConfig]
    /\ attempt \in [Cycle -> 0..LastAttempt]
    /\ slept \in [Cycle -> Nat] /\ asked \in [Cycle -> RetryAfter]
    /\ todo \in [Reader -> 0..MaxItems] /\ tries \in [Reader -> 0..1]
    /\ restarts \in 0..MaxRestarts
    /\ \A r \in Reader : Loading(r) => pc[r] \in ReadsConfig

(* A feed is never asked again before both the time it asked for and the   *)
(* backoff of that attempt have passed, and nobody sleeps before giving up.*)
FetchIsPatient ==
    \A c \in Cycle :
        /\ pc[c] = "request" /\ attempt[c] > 0 =>
              slept[c] >= asked[c] + BackoffSeconds[attempt[c]]
        /\ pc[c] = "gave_up" => slept[c] = 0

(* As long as feeds are served now and then, an update reaches every       *)
(* reader in the end, without a restart: from some time on all of them     *)
(* work with the last row, whatever stale rows were stored in between.     *)
UpdatesTakeEffect ==
    (\A c \in Cycle : []<>(pc[c] = "cap")) => \A r \in Reader : <>[](got[r] = stored)

(* Every cycle comes to an end, whatever the servers answer.               *)
EveryCycleEnds == \A r \in Reader : pc[r] # "idle" ~> pc[r] = "idle"
=============================================================================
