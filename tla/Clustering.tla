----------------------------- MODULE Clustering -----------------------------
(***************************************************************************)
(* The clustering job of worker/app/cluster.py, run by the scheduler under *)
(* the advisory lock of worker/app/scheduler.py against the tables items,  *)
(* stories and story_items of worker/app/db.py.                            *)
(*                                                                         *)
(* One action per await of the code: what a job reads in one step may be   *)
(* stale in the next.  Two workers stand for the old and the new replica   *)
(* of a rolling redeploy.                                                  *)
(***************************************************************************)
EXTENDS Naturals, Sequences, FiniteSets

CONSTANTS
    Item,        \* items the feeds can deliver; an item stands for its title too
    Topic,       \* headlines of manual stories
    Worker,      \* worker processes that share the database
    NoWorker,    \* the lock's holder when it is free
    Dist,        \* Dist[i][j]: cosine distance of the embeddings of i and j
    MaxDist,     \* 1 - similarity_threshold
    Overlap,     \* Overlap[i][h]: tokens the title i shares with the headline h
    MinTokens,   \* keyword_fallback_min_tokens
    MaxDeaths    \* bound on job deaths in a behaviour

Headline == Item \cup Topic

ASSUME ClusteringAssumption ==
    /\ NoWorker \notin Worker
    /\ Item \cap Topic = {}
    /\ Dist \in [Item -> [Item -> Nat]]
    /\ MaxDist \in Nat
    /\ Overlap \in [Item -> [Headline -> Nat]]
    /\ MinTokens \in Nat \ {0}
    /\ MaxDeaths \in Nat

VARIABLES
    born,        \* rows of items and stories in the order of their created_at
    horizon,     \* born[1..horizon] has left the window max_story_age_hours
    embedded,    \* items whose embedding column is not NULL
    links,       \* story_items: pairs <<story, item>>
    lock,        \* holder of pg_advisory_lock(cluster_new)
    pc,          \* where each worker's job is
    todo,        \* items of `unassigned` the job has still to place
    vecs,        \* those of `unassigned` that came with an embedding
    seen,        \* stories in the job's list of recent headlines
    target,      \* joined_story_id of the item being placed
    deaths       \* job deaths so far

vars == <<born, horizon, embedded, links, lock, pc, todo, vecs, seen, target, deaths>>
jobVars == <<todo, vecs, seen, target>>
tables == <<born, horizon, embedded, links>>

(* A story's id is its position in born, so newer stories have larger ids. *)
NoStory == 0
ItemRow(i) == [kind |-> "item", of |-> i]
StoryRow(h) == [kind |-> "story", of |-> h]
Birth == [kind : {"item"}, of : Item] \cup [kind : {"story"}, of : Headline]

Arrived == {i \in Item : \E n \in DOMAIN born : born[n] = ItemRow(i)}
Story == {n \in DOMAIN born : born[n].kind = "story"}
RecentItem == {i \in Item : \E n \in DOMAIN born : n > horizon /\ born[n] = ItemRow(i)}
RecentStory == {s \in Story : s > horizon}
Linked == {i \in Item : \E s \in Story : <<s, i>> \in links}

(* ORDER BY created_at: i was inserted before every other item of S. *)
Oldest(i, S) ==
    \E n \in DOMAIN born :
        /\ born[n] = ItemRow(i)
        /\ \A m \in 1..(n - 1) : \A j \in S : born[m] # ItemRow(j)

-----------------------------------------------------------------------------
(* Matching.                                                               *)

(* vector_search: items in a story, embedded, in the window, close enough. *)
Hits(i) ==
    {l \in links : /\ l[2] \in embedded \cap RecentItem
                   /\ Dist[i][l[2]] <= MaxDist}

(* neighbors[0].story_id; equal distances come in any order.               *)
ClosestStories(i) ==
    {l[1] : l \in {h \in Hits(i) : \A k \in Hits(i) : Dist[i][h[2]] <= Dist[i][k[2]]}}

\* mutant: the over-merge guard accepts one token less
KeywordMatchesOffByOne(i, stories) ==
    LET fits == {s \in stories : Overlap[i][born[s].of] + 1 >= MinTokens}
    IN  IF fits = {} THEN {NoStory} ELSE fits

(* _keyword_fallback_match, as the set of its one result: the largest      *)
(* overlap of at least MinTokens; the list is newest first and only a      *)
(* strictly larger overlap replaces the best so far.                       *)
KeywordMatches(i, stories) ==
    LET shared(s) == Overlap[i][born[s].of]
        fits == {s \in stories : shared(s) >= MinTokens}
    IN  IF fits = {} THEN {NoStory}
        ELSE {s \in fits :
                \A r \in fits : shared(r) < shared(s) \/ (shared(r) = shared(s) /\ r <= s)}

(* Where the job may decide to put i: the search sees the tables as they   *)
(* are, the fallback sees the headlines loaded at the start of the cycle.  *)
Targets(w, i) ==
    IF i \in vecs[w] /\ Hits(i) # {} THEN ClosestStories(i)
    ELSE KeywordMatches(i, seen[w])

-----------------------------------------------------------------------------
Init ==
    /\ born = <<>>
    /\ horizon = 0
    /\ embedded = {}
    /\ links = {}
    /\ lock = NoWorker
    /\ pc = [w \in Worker |-> "idle"]
    /\ todo = [w \in Worker |-> {}]
    /\ vecs = [w \in Worker |-> {}]
    /\ seen = [w \in Worker |-> {}]
    /\ target = [w \in Worker |-> NoStory]
    /\ deaths = 0

Goto(w, label) == pc' = [pc EXCEPT ![w] = label]

(* The loop goes on to the next row of `unassigned`.                       *)
RowDone(w, i) ==
    /\ todo' = [todo EXCEPT ![w] = @ \ {i}]
    /\ vecs' = [vecs EXCEPT ![w] = @ \ {i}]
    /\ target' = [target EXCEPT ![w] = NoStory]

(* The coroutine is gone and its locals with it.                           *)
JobEnds(w) ==
    /\ pc' = [pc EXCEPT ![w] = "idle"]
    /\ todo' = [todo EXCEPT ![w] = {}]
    /\ vecs' = [vecs EXCEPT ![w] = {}]
    /\ seen' = [seen EXCEPT ![w] = {}]
    /\ target' = [target EXCEPT ![w] = NoStory]

-----------------------------------------------------------------------------
(* The rest of the engine, as far as clustering sees it.                   *)

(* upsert_item: a new hash inserts a row, a known one changes nothing.     *)
Ingest(i) ==
    /\ i \notin Arrived
    /\ born' = Append(born, ItemRow(i))
    /\ UNCHANGED <<horizon, embedded, links, lock, pc, jobVars, deaths>>

\* mutant: a late embedding puts the item up for clustering again
StoreEmbeddingReclusters(i) ==
    /\ i \in Arrived \ embedded
    /\ embedded' = embedded \cup {i}
    /\ links' = {l \in links : l[2] # i}
    /\ UNCHANGED <<born, horizon, lock, pc, jobVars, deaths>>

(* set_embedding, inline in the poll or late in the retry sweep.           *)
StoreEmbedding(i) ==
    /\ i \in Arrived \ embedded
    /\ embedded' = embedded \cup {i}
    /\ UNCHANGED <<born, horizon, links, lock, pc, jobVars, deaths>>

(* create_manual_story: a story without items.                             *)
AddManualStory(h) ==
    /\ StoryRow(h) \notin {born[n] : n \in DOMAIN born}   \* bound: once per topic
    /\ born' = Append(born, StoryRow(h))
    /\ UNCHANGED <<horizon, embedded, links, lock, pc, jobVars, deaths>>

(* Time passes: the oldest row in the window leaves it.                    *)
Age ==
    /\ horizon < Len(born)
    /\ horizon' = horizon + 1
    /\ UNCHANGED <<born, embedded, links, lock, pc, jobVars, deaths>>

-----------------------------------------------------------------------------
(* The job.                                                                *)

\* mutant: the job runs without waiting for the lock
AcquireUnlocked(w) ==
    /\ pc[w] = "idle"
    /\ lock' = w
    /\ Goto(w, "list")
    /\ UNCHANGED <<tables, jobVars, deaths>>

(* with_advisory_lock got the lock; when another worker has it the firing  *)
(* is skipped, which changes none of these variables.                      *)
Acquire(w) ==
    /\ pc[w] = "idle"
    /\ lock = NoWorker
    /\ lock' = w
    /\ Goto(w, "list")
    /\ UNCHANGED <<tables, jobVars, deaths>>

(* items_without_story(within_hours).                                      *)
ListUnassigned(w) ==
    /\ pc[w] = "list"
    /\ todo' = [todo EXCEPT ![w] = RecentItem \ Linked]
    /\ vecs' = [vecs EXCEPT ![w] = (RecentItem \ Linked) \cap embedded]
    /\ Goto(w, "headlines")
    /\ UNCHANGED <<tables, lock, seen, target, deaths>>

(* _recent_story_headlines: once per cycle.                                *)
LoadHeadlines(w) ==
    /\ pc[w] = "headlines"
    /\ seen' = [seen EXCEPT ![w] = RecentStory]
    /\ Goto(w, "match")
    /\ UNCHANGED <<tables, lock, todo, vecs, target, deaths>>

(* The loop body up to the call of create_or_join_story.                   *)
Match(w) ==
    /\ pc[w] = "match"
    /\ \E i \in todo[w] :
          /\ Oldest(i, todo[w])
          /\ \E s \in Targets(w, i) : target' = [target EXCEPT ![w] = s]
    /\ Goto(w, "link")
    /\ UNCHANGED <<tables, lock, todo, vecs, seen, deaths>>

\* mutant: the story is committed and the link is lost
LinkLosesTheItem(w) ==
    /\ pc[w] = "link"
    /\ \E i \in todo[w] :
          /\ Oldest(i, todo[w])
          /\ IF target[w] = NoStory
             THEN born' = Append(born, StoryRow(i)) /\ UNCHANGED links
             ELSE links' = links \cup {<<target[w], i>>} /\ UNCHANGED born
          /\ RowDone(w, i)
    /\ Goto(w, "match")
    /\ UNCHANGED <<horizon, embedded, lock, seen, deaths>>

\* mutant: the link is committed and the story it names is rolled back
LinkLosesTheStory(w) ==
    /\ pc[w] = "link"
    /\ \E i \in todo[w] :
          /\ Oldest(i, todo[w])
          /\ links' = links \cup {<<IF target[w] = NoStory THEN Len(born) + 1 ELSE target[w], i>>}
          /\ RowDone(w, i)
    /\ Goto(w, "match")
    /\ UNCHANGED <<born, horizon, embedded, lock, seen, deaths>>

(* create_or_join_story: one transaction, so a crash leaves all or nothing *)
Link(w) ==
    /\ pc[w] = "link"
    /\ \E i \in todo[w] :
          /\ Oldest(i, todo[w])
          /\ IF target[w] = NoStory
             THEN /\ born' = Append(born, StoryRow(i))
                  /\ links' = links \cup {<<Len(born) + 1, i>>}
             ELSE /\ links' = links \cup {<<target[w], i>>}
                  /\ UNCHANGED born
          /\ RowDone(w, i)
    /\ Goto(w, "match")
    /\ UNCHANGED <<horizon, embedded, lock, seen, deaths>>

(* The loop is over; the finally clause releases the lock.                 *)
Finish(w) ==
    /\ pc[w] = "match"
    /\ todo[w] = {}
    /\ lock' = NoWorker
    /\ JobEnds(w)
    /\ UNCHANGED <<tables, deaths>>

\* mutant: the lock outlives the job that held it
DieHoldingTheLock(w) ==
    /\ pc[w] # "idle"
    /\ deaths < MaxDeaths
    /\ deaths' = deaths + 1
    /\ JobEnds(w)
    /\ UNCHANGED <<tables, lock>>

(* The job raises (finally releases the lock) or its process dies (closing *)
(* the session releases it); a transaction in flight leaves no trace.      *)
Die(w) ==
    /\ pc[w] # "idle"
    /\ deaths < MaxDeaths
    /\ deaths' = deaths + 1
    /\ lock' = NoWorker
    /\ JobEnds(w)
    /\ UNCHANGED tables

JobStep(w) ==
    \/ Acquire(w)
    \/ ListUnassigned(w)
    \/ LoadHeadlines(w)
    \/ Match(w)
    \/ Link(w)
    \/ Finish(w)

Next ==
    \/ \E i \in Item : Ingest(i) \/ StoreEmbedding(i)
    \/ \E h \in Topic : AddManualStory(h)
    \/ Age
    \/ \E w \in Worker : JobStep(w) \/ Die(w)

Spec == Init /\ [][Next]_vars

(* The interval trigger fires for ever and a job that runs goes on; feeds, *)
(* embeddings, the clock and failures owe nothing.                         *)
FairSpec == Spec /\ \A w \in Worker : WF_vars(JobStep(w))

-----------------------------------------------------------------------------
(* Every variable stays in its type; links name rows that exist (the       *)
(* foreign keys of story_items, written by create_or_join_story).          *)
TypeOK ==
    /\ born \in Seq(Birth)
    /\ horizon \in 0..Len(born)
    /\ embedded \in SUBSET Item
    /\ links \in SUBSET (Story \X Item)
    /\ lock \in Worker \cup {NoWorker}
    /\ pc \in [Worker -> {"idle", "list", "headlines", "match", "link"}]
    /\ todo \in [Worker -> SUBSET Item]
    /\ vecs \in [Worker -> SUBSET Item]
    /\ seen \in [Worker -> SUBSET Nat]
    /\ target \in [Worker -> Nat]
    /\ deaths \in 0..MaxDeaths

(* No item is ever in two stories.  The primary key of story_items allows  *)
(* it; what excludes it is that cluster_new_items never works twice on one *)
(* unassigned item, although it lists them long before it links them.      *)
OneStoryPerItem ==
    \A l, k \in links : l[2] = k[2] => l[1] = k[1]

(* A story that clustering opened holds the item it was opened for: a      *)
(* crash inside create_or_join_story leaves neither an empty story nor an  *)
(* item linked to nothing.                                                 *)
NoEmptyStory ==
    \A s \in Story : born[s].of \in Item => <<s, born[s].of>> \in links

(* The over-merge guard: an item is in a story because it founded it,      *)
(* because its title shares at least MinTokens tokens with the headline,   *)
(* or because its embedding is within the threshold of another member's -  *)
(* whatever the job read was stale by the time it linked.                  *)
JoinedForAReason ==
    \A l \in links :
        \/ born[l[1]].of = l[2]
        \/ Overlap[l[2]][born[l[1]].of] >= MinTokens
        \/ \E k \in links : /\ k[1] = l[1] /\ k[2] # l[2]
                            /\ {k[2], l[2]} \subseteq embedded
                            /\ Dist[l[2]][k[2]] <= MaxDist

(* Every item the feeds delivered ends up in a story unless the window     *)
(* closes on it first (an orphan of /stats), however jobs die.             *)
EveryItemSettles ==
    \A i \in Item : i \in Arrived ~> (i \in Linked \/ i \notin RecentItem)

(* What story_items says of an item, read as a function.                   *)
StoryOf ==
    [i \in Item |-> IF i \in Linked THEN CHOOSE s \in Story : <<s, i>> \in links ELSE NoStory]

(* Clustering implements StoryLinking: an item that is in a story stays in *)
(* that one story (the stability rule, cluster.py's docstring), a story    *)
(* appears together with its founder, and whatever the job read before.    *)
Linking == INSTANCE StoryLinking WITH
    arrived <- Arrived, opened <- Story, storyOf <- StoryOf

ImplementsStoryLinking == Linking!LinkSpec
=============================================================================
