# TLA+ models of fin-content-engine

The engine polls news sources, groups the items into stories, and turns stories
into narrated videos. This directory models the parts of it in which several
coroutines, replicas, files or rows have to agree, checks them with TLC on small
instances, and proves the central ones with TLAPS for every size. The repository
is the reference: each definition names, in `PROJECT.json` under `map`, the lines
it stands for. Lines quoted below as `x.py:n` are under `src/worker/app/`.

- `tlc -workers 2 -config X.cfg M` checks the run (module `M`, config `X.cfg`)
- `tlapm M_proofs.tla` checks the proofs of `M`

## 1. Inventory

| Component | State it keeps | Operations | Talks to | Model |
|---|---|---|---|---|
| Job scheduler (`scheduler.py`, `main.py`) | registered jobs, session advisory locks, the connection pool of `db.py` | `register_jobs`, `with_advisory_lock`, `db_ping`, the interval triggers | every job body, Postgres | `JobScheduling` |
| Source polling (`ingest.py`) | `sources.active`, `consecutive_failures` | `run_all_sources`, `run_for_source`, `trigger_source`, `update_source_health` | feeds, embedding client, audit log | `SourceHealth` |
| Feed and embedder calls (`sources/rss.py`, `embed.py`) | attempts and pauses of a call | `_fetch_with_backoff`, the rescue of a thin article, `embed` | servers, configuration | `IngestCalls` |
| Configuration (`config.py`, `routes.py`) | `config` rows and a cache of them | `_load`, `clear_config_cache`, `PUT /config/{key}` | every poll and sweep | `ConfigCache` |
| Embedding of items (`ingest.py`, `cluster.py`) | `items.embedding`, `retry_count`, `warnings` | inline attempt of a poll, `embed_retry_sweep` | embedding services | `EmbeddingRecovery` |
| Clustering (`cluster.py`, `db.py`) | `stories`, `story_items` | `cluster_new_items`, `create_or_join_story`, `create_manual_story` | items and their embeddings | `Clustering`, `StoryLinking` |
| Autopilot (`ideation.py`) | none of its own | picks the newest stories, makes a film of each | stories, generation | `Autopilot` |
| Script, narration, timeline (`youtube.py`, `storyboard.py`) | frames, clips, starts and lengths, `index.html` | `parse_storyboard`, `_generate_frame_audio`, `attach_audio`, `assign_timing`, `render_index_html` | models, voice service | `FilmTimeline`, `Storyboard` |
| Frames (`youtube.py`, `localllm.py`, `archetypes.py`) | frame files, the frames that failed | `_build_frames`, `plan_frame`, `render_archetype` | models | `FrameBackends`, `FrameBuilding` |
| 3D shots (`scene3d/`) | accepted shots, the reason of the last rejection | `build_3d_frames`, `verify_shot`, `frames_are_distinct` | models, browser | `ShotLoop` |
| The story's directory (`youtube.py`) | `videos/story-<id>/`, `drafts` | `generate_youtube_video`, its guards, the render, the draft | all of the above | `GenerationRun` |
| Job rows (`jobs.py`, `routes.py`) | `jobs.stage`, `error`, `draft_id` | `create_job`, `set_stage`, `fail_job`, `finish_job`, `get_job` | the GUI's polling | `GenerationRun`, `JobPolling` |
| GUI (`src/gui/`) | what it shows of a job | poll until done or error | job rows | `JobPolling` |
| Embedder, edge function, scripts | none | stateless handlers, one-shot drivers | - | not modelled |

What makes the system hard is the same everywhere: state is read at one `await`
and used after several more, by when a poll, a sweep, another replica or another
run has moved; there is no supervisor, so whatever a death leaves behind stays;
and a failure is often replaced by something that looks like success (silence
for speech, a placeholder for a frame, an empty list for an outage). The list of
such places, each with the properties that watch it, is `hazards` in
`PROJECT.json`.

What correctness means, per component:

- scheduler: one replica at a time runs a job's body; locks are given back
  whatever happens; a job that was registered runs.
- polling: a source is disabled at its third failure in a row and not before;
  a dead one is disabled in the end, if its polls get as far as counting.
- calls: a busy feed is not asked too early; a cycle ends whatever servers answer;
  an update of the configuration is picked up without a restart.
- embedding: every item gets a vector or is given up exactly once; what is given
  up has none.
- clustering: every item is in at most one story, for a reason, for ever; no
  story without its founder; every item is placed or leaves the window.
- autopilot: every picked story with a channel is tried, whatever became of the
  ones before it.
- frames and shots: what a backend reports is exactly what is not the real thing;
  no rejected shot stays on disk; consecutive shots differ; no better plan of the
  planner is passed over for a worse one.
- timeline: a frame is what was written under its heading; frames leave no gap
  and every voice fits in its frame; a silent line is counted.
- directory and rows: a film consists of its own run's files; the newest draft
  keeps its film until another run begins to render; the row, and the bar that
  polls it, tell what became of the run.

## 2. The modules

### StoryLinking, Clustering, MCClustering

`StoryLinking` is the promise of the docstring of `cluster.py` ("stability rule",
"orphan prevention"): items arrive, a story is opened by hand or founded by an
item, an unplaced item joins a story, and nothing is ever moved.

`Clustering` is the job. `born` is the log of item and story rows in the order of
their `created_at`; a story's id is its position in it, so "newest first" is
"largest first", and `horizon` is where the window `max_story_age_hours` begins.
`links` is `story_items`. One action per await: `Acquire` (the advisory lock),
`ListUnassigned`, `LoadHeadlines`, then per item `Match` (vector search on the
tables as they are, keyword fallback on the headlines loaded at the start) and
`Link` (`create_or_join_story`, one transaction); `Finish` and `Die` release the
lock. `Ingest`, `StoreEmbedding`, `AddManualStory` and `Age` run at any moment.
Cosine distances and shared title tokens are constants: tokenisation itself is
not modelled. `AddManualStory` happens once per topic, `Die` at most `MaxDeaths` times.

### EmbeddingRecovery

Pollers insert an item and try to embed it (`Upsert`, `EmbedInline`,
`StoreInline`, `NoteFailure`); sweepers, one at a time under the lock
`embed_retry`, list candidates and `Retry`, `Bump`, `GiveUp`. Either may die
between any two steps. `Bump` and `GiveUp` are two transactions in the code and
two actions here. One timing assumption, `RecoveryAssumption`, is taken from the
settings: an inline attempt is over after two requests of 7 s and a pause of 2 s,
a sweep starts every 30 minutes, so during one attempt each worker starts at most
one sweep (`met`). Without it an attempt could sleep through all the retries.
A sweep that meets an unexpected exception leaves the item untouched
(`RetrySkips`, at most `MaxSkips` times: a service that only ever raises
unexpected exceptions would keep an item pending until it ages out).

### SourceHealth

Loops work through the list of active sources they read when their cycle began;
manual polls take any source. Both run `run_for_source`: `Fetch`, `Work`,
`RecordFailure` / `RecordSuccess`, `Audit`. `Silent` sources (EDGAR) answer an
outage with an empty list, `Nse` sources do nothing while inactive (they are
seeded inactive, hence both initial values), and never anything if their row has
no real URL (`Placeholder`, `KnownSkip`): that is a skip and counts as neither
failure nor success. `Abort` is an exception other than `SourceError`, or a death;
nothing bounds it, since a source that raises one does so in every cycle and costs
the sources behind it their polls for ever (section 5, `loop_survives`).
`GoneIsDisabled` therefore says: a dead source is disabled in the end, unless
cycles go on being cut short like that; and it excludes `Silent` sources, which by
the code's own count never fail. Items themselves are not kept: the embedding of what
a poll stores is the matter of `EmbeddingRecovery`. `streak`, `disturbed` and
`late` are history variables that only properties read.

### JobScheduling

Each replica runs each job at most once at a time (`max_instances=1`). `Fire` and
`CallInThread` are the executor: what is registered is a coroutine function
(`db_health`) or a lambda (every other job), and `AwaitsResults` says whether the
executor awaits what a plain callable returns. `TakeOuter`, `TryLock`,
`TakeInner`, `EndQuery`, `EndAudit`, `Unlock` are `with_advisory_lock` around a
body of up to `MaxQueries` queries; `Timeout` is psycopg's `PoolTimeout`; `Die`
ends a replica's sessions and with them its locks.

APScheduler's `AsyncIOExecutor` does *not* await what a lambda returns (section
5, `jobs_run`). `Clustering`, `EmbeddingRecovery`, the loops of `SourceHealth`
and the run `job_scheduling` model the bodies as they behave when they are
awaited, which is what `register_jobs` intends, what tests and `smoke.py` do by
calling them, and, for polls, what `POST /ingest/trigger` does. The theorems about
`JobScheduling` hold for both values of `AwaitsResults`.

### GenerationRun

Runs of `generate_youtube_video` for one story share one directory. The model
keeps what a render reads: `index`, `voice` (a clip per position) and `frames` (a
page per position and title), each with the run that wrote it, and `video`, the
files the last render read, or `NoFilm`. Per run: `Script`, `Narrate` frame by frame in any
order, `Compile` (the silence guard, then pruning, timing and `index.html`
without an await), `BuildFrame` for the 2D backends or `WriteShot` /
`AcceptShot` / `GiveUpShot` for 3D, `FramesDone` (placeholder and verified-frame
guards), `Render`, `RecordDraft`, and the background task's `FinishJob` /
`FailJob`. `asyncio.gather` passes on the first exception and leaves the other
narration tasks running: `Stray`. `Fault` (bounded by `MaxFaults`) is an
exception, a lost update or, in `Die`, the death of the worker; `troubled`,
`cut`, `mixed` and `touched` are history.

The renderer is a process that a thread waits for. It writes `renders/video.mp4`
itself, over minutes, so `Overwrite` may put half a film or a whole one there at
any moment while its run waits (`Renderers`), before `Render` takes its success or
`StageFails` its failure; and it may outlive the worker (`Die` leaves it in
`orphans`, at work on the directory, until `EndOrphan`). As every draft of the
story names that one file, `DraftKeepsItsFilm` says how long it is to be trusted:
it is the newest draft's own film, whole, until another run begins to render
(`touched`), whatever else is refused, fails or dies. From then on it is a film of
a run that began, or of runs that overlapped, or a part of one. Nothing is
promised to a draft whose own run overlapped with another.

Left out: the thumbnail (kept when one exists) and `upload.txt`, which no
property reads; what happens inside one model call; a strayed 2D frame task,
which needs a disk error. Each `Overwrite` or `Render` reads its files at one
moment; an overlapping run that writes during a render is in `mixed` in any case.

The stray clips matter: when the runs they belong to are not counted among
`Others`, TLC finds a film of a run that started alone, with clips of the failed
run before it. `mixed` therefore calls such a run not alone, and
`FilmIsItsRunsOwn` promises nothing about it; nothing in the code keeps it alone.

### JobPolling

Extends `GenerationRun` with the progress bar of `FilmProgress.tsx`: the page
asks for the row of the job it watches (`Ask`), the worker reads it (`Serve`), the
answer arrives in any order (`Deliver`) or never (`Drop`), and the page may be
left and opened again (`Reload`). `Poll` is the set of requests that can be under
way at once: the interval of two seconds does not wait for an answer.

### ConfigCache, IngestCalls

`ConfigCache` is `_load` in its steps: look (`Hit`, `Miss`), wait for the row
(`Query`), store it (`Store`), while `Put` changes the row and a cycle's `Clear`
empties the cache. A value is the number of updates it has seen. `raced` is
history: a cycle that emptied the cache while some reader held an older row.

`IngestCalls` extends it with the calls of a poll cycle (`Cycle`) and of the
retry sweep: `StartCycle`, the feed's attempts (`Served`, `Busy`, `Broken`,
`Refused`, `Pause`, `GiveUp`), then per item the rescue of a thin article and the
embedder's request with its one retry, each of which first reads the
configuration. `slept` and `asked` are the seconds since the feed's last answer
and what that answer's Retry-After demanded. `Restart` loses the cache and every
call under way. A cycle polls one source here and the cache holds one key: both
sources and keys are independent of each other.

### Storyboard, FilmTimeline

`Storyboard` is the compiler. A line is what `parse_storyboard` tells apart (a
heading, a direction heading, a field of each kind, a `duration:` without a
number, prose), a value is the number of its line, a duration is in ticks of
0.1 ms; `ParsedAsWritten` compares what line-by-line reading built with a
definition over the whole text. `Measure` probes a clip or fails to, `Place` is
`assign_timing` and `Emit` `render_index_html`. `Rounded` is `round(x, 3)` up to
the direction of a tie, so nothing rests on floating point.

`FilmTimeline` puts the script call with its retries before it and the narration
beside it: one task per frame behind the gate `TTS_MAX_CONCURRENCY`, a voice
service that turns away what exceeds `TtsLimit`, pauses outside the gate, four
attempts, silence for a line that stays refused (counted) and for a frame without
a line (not counted). `Other` is another film that uses the same service. That
the gate does not exceed the limit (`FilmAssumption`) is what the comment on the
gate claims of the account; `NoLineLostToHaste` rests on it.

### ShotLoop, FrameBackends, FrameBuilding, Autopilot

`FrameBuilding` is the promise of `_build_frames`: each frame is settled once,
and the answer names exactly the frames that are not the real thing. `ShotLoop`
is `build_3d_frames`: a world, then per frame `AuthorShot` writes a candidate and
`VerifyShot` accepts or rejects it after looking at three probes, at most
`ShotRetries` times. A picture is what a perceptual hash tells apart; which pairs
are `Distinct` is a constant, since being alike is not transitive and an
unreadable hash is distinct from nothing. `FrameBackends` adds the backends
"local" (`Ask`, `AskAgain`, `Heuristic`; `Draw` may raise, since `_validate` does
not ask whether a template can draw what it accepts) and "gemini", and the
dispatch. `heard` is history: what the model answered for the frame drawn last.
`BestAnswerIsShown` compares it with what the frame shows.

`Autopilot` composes them with `autopilot_job`: `Fire` reads the newest stories
of the inbox, `Skip` passes over one without a channel, `Generate` makes a film
with all steps of the chosen backend, and any end of it leads to the next story.
What comes before and after the frames is a step each (`FailsEarly`, `Compiled`,
`FramesReturned`): those are the matter of `FilmTimeline` and `GenerationRun`.
Stories arrive and get channels at any time; `Die` is a restart.

## 3. Runs

| Run | Instance | States | Shows |
|---|---|---|---|
| `clustering` | 2 workers, 2 items, 1 manual headline, 2 deaths | 92,001 | `OneStoryPerItem`, `NoEmptyStory`, `JoinedForAReason`, `EveryItemSettles`, `ImplementsStoryLinking` |
| `embedding_recovery` | 1 poller, 2 sweepers, 2 items, limit 3, 1 death, 1 skip | 174,874 | `RetriesAreBounded`, `GivenUpHasNoVector`, `UnnotedGapMeansDeath`, `EveryItemResolves` |
| `source_health` | 1 loop, 2 manual polls one after the other, an NSE and a silent source, any number of aborts | 81,296 | `StalePollBounded`, `CleanStreakDisables`, `GoneIsDisabled` |
| `job_scheduling` | 2 mortal replicas, 2 locked jobs and the probe, pools of 2 and 3, 2 queries | 148,487 | `OneReplicaRunsAJob`, `NoLockLeaks`, `PoolNeverStuck`, `EveryFiringEnds` |
| `ingest_calls` | 1 poll cycle, 1 sweep, 2 updates, Retry-After of 0 or 3 s, 2 items, 1 restart | 89,974 | `StaleOnlyAfterARace`, `FetchIsPatient`, `UpdatesTakeEffect`, `EveryCycleEnds` |
| `film_timeline` | scripts of up to 4 lines, 2 pacings, 2 spoken lengths, gate and limit 1, 1 request of another film | 732,674 | `ParsedAsWritten`, `TimelineIsSeamless`, `VoicesFitTheirFrames`, `EnoughIsSpoken`, `NoLineLostToHaste`, `EveryFilmIsTimed` |
| `autopilot_films` | 2 stories, 2 firings, 3 backends, films of 2 or 3 frames, 5 pictures, 2 retries of a shot, 2 shapes | 107,061 | `ShotsDiffer`, `BestAnswerIsShown`, `EveryPickIsTried`, `ImplementsFrameBuilding`, `EveryFiringEnds` |
| `story_directory` | 2 runs, one in 3D, one with a row, 2 frames, 2 titles, 1 fault | 3,258,397 | `FilmIsItsRunsOwn`, `DraftKeepsItsFilm`, `RowTellsTheOutcome` |
| `job_rows` | 1 run with a row, 2 polls under way, 2 faults, 1 reload | 44,787 | `EndsOnTheOutcome`, `OutcomeIsShown` |

`clustering`, `job_scheduling`, `autopilot_films` and `story_directory` also check
`TypeOK`; those of the other modules hold under their runs' configurations too. In
`Autopilot` that is more than types: the next attempt at a shot is told a reason
exactly if the one before was a rejection of the same frame's shot.
Every property has a mutant of the code that breaks it under the same
configuration. Three more runs are disagreements of code and documentation
(section 5).

Why the bounds are enough.

- `MCClustering` is chosen so that one item can go three ways: `b` is close to `a`
  by embedding, shares one token with it (below the limit of two) and two with a
  manual headline; which way it goes depends on what the job saw. Two workers and
  two items are what a stale list and a double link need.
- `embedding_recovery`: three retries with two sweepers are the smallest numbers
  that satisfy the timing assumption; one death between `Bump` and `GiveUp` is what
  takes a counter over its limit.
- `source_health`: one loop and one trigger are what overlapping bookkeeping needs;
  two manual polls are one that overlaps and one that follows. An NSE source that is
  active fails and is disabled like a feed, and skips once it is not, so one of
  them stands for both kinds; a placeholder row does nothing else than such a skip
  and is part of `loop_survives`. The failure limit is the code's own three.
- `job_scheduling`: pools of two (everyone can hold one connection and wait for a
  second) and three (they cannot) are the two sides of `PoolNeverStuck`.
- `ingest_calls`: two readers are what the race on the cache needs, two updates
  what makes one row older than another that is itself old. The backoff list and
  its five attempts are the code's own; Retry-After of zero and three covers a
  server that says nothing and one that asks for more than the backoff.
- `film_timeline`: four lines are two frames with a field each, a field before any
  heading, a field twice in one block, and a direction between two frames. Pacing
  "unheard" takes the default profile. 0 is "0s", 5.555 s lies above every floor;
  a spoken length of 1.2345 s is a tie of `round` and its frame below every floor,
  9 s is above all. A service limit of one with another film's request is the smallest
  crowd.
- `autopilot_films`: five pictures make a pair that is distinct, two that are
  alike, and `blank`, an unreadable hash; three frames let one be given up between
  two that are shown. Two retries are a first rejection, a second and the last.
  Two shapes are all spent by the third frame, so that one repeats with the other
  left (asked again) and with none left (not). Two stories of which `MaxDrafts`
  takes both are enough for an exception in the middle of a firing.
- `story_directory`: two frames with guards at 50 % give every outcome of each
  guard, two titles give frames under other names, `Mute` makes the second frame's
  silence optional, and one fault at any step is what one run can leave for the
  next, a renderer that outlives the worker included. Titles are only compared, so
  `MCGenerationRun` declares them symmetric; no liveness is checked in this run.
- `job_rows`: two faults are what it takes to fail and then fail to report it; two
  polls are what it takes to be overtaken. Rows do not affect files, so the page
  watches a film of one frame.

Bounds on counters: `deaths`, `skips`, `triggers`, `faults`,
`restarts`, `reloads`, `firings`, `stored`, `others`. Deadlock checking is off
where a finished system has nothing left to do: `GenerationRun` and `JobPolling`
(all runs over), `FilmTimeline` (the film is timed), `Autopilot` (all firings
used up).

## 4. Fairness

Fairness is on the program's own steps: an awaited call returns or raises
(`embed`, feeds and the pool have timeouts; that queries, the renderer and
Gemini's thread return is assumed, they have none), a
coroutine that can go on is resumed by the event loop, and interval triggers fire
again (`Acquire`, `BeginCycle`, `StartCycle` and, in `FiringSpec`, `Fire`). It is
weak with one exception: in `PollSpec`, `Serve` and `Deliver` are strongly fair,
which says that not every poll is lost. The page asks again every two seconds,
so without it only a network that drops everything is gained. Feeds, manual polls,
updates, the clock, embeddings that arrive late, exceptions, restarts and deaths
are owed nothing. `GoneIsDisabled` does not assume that exceptions stop: that is a
disjunct of the property.

Contention for a lock needs no strong fairness in `Clustering` and
`EmbeddingRecovery`: whoever has the lock does the work. `EveryFiringEnds` of
`JobScheduling` rests on the pool's timeout (its mutant removes it); that of
`Autopilot` on nothing but the loop going on, since attempts are bounded.
`UpdatesTakeEffect` is conditional: as long as the poll's feed is served again
and again. A cycle whose feed never answers reads no configuration at all.
`EveryFilmIsTimed` has one fairness condition per narration task (a semaphore
wakes its waiters in turn) and none for any particular answer.

## 5. Where code and documentation differ

Each is a run that TLC ends with a counterexample; the quotations are in
`PROJECT.json`, `findings`.

- `jobs_run` - `register_jobs` checks that a job's function is `async def` and
  then registers a lambda for every locked job. The executor runs it in a thread
  and drops the coroutine it returns: intervals fire for ever and no body runs.
- `loop_survives` - an exception other than `SourceError` leaves `run_for_source`
  and ends the cycle with sources still to poll.
- `frame_always_shaped` - a plan whose slots `_validate` accepts makes its template
  raise, and the film is lost to one frame.

Met while modelling and plain to read, so that no run is spent on them:

- `db.py:199-201` says that the caller writes `ingest_unhealthy` when a source is
  disabled; nothing writes it.
- `youtube.py:589`: a frame without voiceover gets silence that the silence guard
  does not count, so a film without a word passes the guard that
  `EnoughIsSpoken` is about. The property therefore speaks of the lines there were
  to speak.
- `jobs.py:22-23` says that only 3D films report the stage `shots`; every run does
  (`youtube.py:194`).
- `storyboard.py:329` calls a frame without audio one whose voice failed or that is
  silent on purpose. Both get a silent clip that is measured; what reaches this
  branch is a clip that could not be probed.
- A declared `duration: 0s` is kept and a later `duration:` of the same frame
  ignored, although timing then treats the frame as having none.
- The script prompt asks for `Visual:` (`youtube.py:347`), the parser reads `scene:`.
- `author.py:150` tells the model that the world is already in the scene;
  `world.js` is written and no shot's page loads it.
- The autopilot's stories stay in the inbox: the newest N are taken again at every
  firing, those without a channel use up places, and older ones are never
  reached.
- `youtube.py:583` speaks of four parallel renders; `TTS_MAX_CONCURRENCY` is two.

## 6. Proofs

The theorems hold for every value of the constants that satisfies the named
ASSUMEs of the modules. TLC evaluates these on every run. Most only say what kind
of value a constant is: that `Title` is not empty, or that "no picture" and "no
plan" are no pictures and no answers (`FrameAssumption`). Three say more:
`RecoveryAssumption` (fewer sweepers than `MaxRetries`, see `EmbeddingRecovery`),
`FilmAssumption` (the gate does not exceed the service's limit, `youtube.py:529`;
a spoken clip has some length, as a request that brings no sound fails) and
`AutopilotAssumption` (a film has at least one frame, as `MIN_SCRIPT_FRAMES` is
positive). One theorem has a hypothesis of its own, `OneStalePoll`. Every
invariant and action property that a passing run checks is a theorem. None of
them is inductive; each module says what its invariant adds and why.

### Clustering_proofs

`OneStoryPerItem` is not inductive: a job links items that it listed long before.
The inductive invariant `IInv` adds why this is safe:

- `LockInv`: a worker inside its job holds the lock, so there is only one;
- `IdleInv`: an idle worker has nothing left to place;
- `TodoInv`: what a job has still to place has arrived and is in no story;
- `TargetInv`: headlines loaded and targets chosen are stories that exist;

and carries `TypeOK`, `OneStoryPerItem` and `NoEmptyStory` along. One lemma per
action, then `Inductive`. From it: `TypeCorrect`, `ItemsAreInOneStory`,
`StoriesHoldTheirFounder`.

`NothingIsOverMerged` has to carry a reason from the match to the link, across
whatever arrives, is embedded or is linked in between. `MergeInv` adds to
`IInv` that a worker compares vectors that are in the table (`VecsInv`) and that
the story it chose is one which the next item in turn has reason to join
(`ReasonOf`). Nothing that a reason rests on is ever taken back (`Grows`,
`ReasonStays`).

`Refinement` shows `Spec => ImplementsStoryLinking`:
with one story per item, `StoryOf` is a function that agrees with the table
(`StoryOfIsTheLink`), it changes only where a link is added
(`StoryOfAfterLink`), and every other step is invisible to `StoryLinking`.

### JobScheduling_proofs

`IInv` is `Types`, `HoldersHaveTheLock` (who is past `pg_try_advisory_lock` is
the lock's holder), `NoLockLeaks` (its converse), `QueriesLeft` and
`BareJobsProbe`. The proof is organised by what a step may do to a lock
(`LockStep`) and to a counter (`LeftStep`) rather than repeated for each action.
From it: `LocksExclude`, `LocksNeverLeak`, and with a counting argument over the
pool (`PoolStep`) `TypeCorrect`. `LargePoolsNeverStick`: an exhausted pool whose
borrowers all wait for a second connection has each lent to a different locked
job, so it has at most as many connections as there are locked jobs. The deployed
pool has `scheduler_max_workers + 2 = 6` connections and there are six locked
jobs: the bound is missed by one, and only the 30 s timeout then ends the wait.

### EmbeddingRecovery_proofs

`RecoveryInv` says of every item who may still be at work on it and what each of
them knows. `RetryBound` and `GapsAreNoted` follow from it directly.
`GivingUpIsSafe` needs a count: while a poll attempts an item, `retries` is at
most the number of sweeps the attempt has met, each sweeper counts once, and
there are fewer sweepers than the limit. So nobody gives up an item whose first
attempt may still succeed.

### SourceHealth_proofs

`DisabledAtTheThird` is the action property `CleanStreakDisables`. Between polls
the table's count is at most the streak of failed fetches; during one it depends
on where the poll stands (`CountIsEarned`): a failed fetch is counted later than
it happens, a good one resets later. That only one poll at a time can stand
anywhere is what `disturbed` is for (`Alone`).

`OneStalePoll` assumes that one poll loop runs at a time, as the code schedules
it; with several, each would have a stale list of its own. `StaleInv`: a source
that was polled late is disabled for good and on no list.

### GenerationRun_proofs

`RowsTellTheOutcome`: a run that is not over has neither "done" nor an error in
its row, and what it has recorded so far depends on its stage (`RowOf`).
`BarsEndOnTheOutcome` composes with the page: a settled row of an untroubled run
never changes (`SettledRowsStay`), and every answer under way that claims to be
settled agrees with it (`BarInv`), so whichever arrives first is right.
`DraftsKeepTheirFilm` rests on `ShareInv`: two runs at the directory at once,
renderers that outlived the worker included, are both in `mixed`; whoever renders
finds its own `index.html` or that of a run it was mixed with, and has begun to
since the newest draft; and who is about to record a draft has its own whole film,
unless it was mixed.

`RunTypes` is where the counters are: `silenced` and `placeholders` grow by one
at a frame that leaves `todo` or `shooting`, so that each, together with the
frames still open, stays within the script's length (`PlanInv`). That no two
files have one name is kept by writing (`OneClipToANumber`, `OnePageToAName`).

`FilmsAreTheirRunsOwn` follows a run that is not in `mixed` from its script to its
film (`OwnInv`). The frames that are done have one clip each, by that run, and
those which are silent without leave are at most `silenced` (`Narrated`); past the
guard and the pruning that holds of the whole directory (`Compiled`); the frames
done have pages of that run, none rejected, and what is not real among them is
counted (`Shot`), so that the last guard leaves enough (`Filmed`). `OneMoreFile`
does the counting once, for clips and for pages. Nobody else writes meanwhile,
clips of a failed run's tasks included, or the run would be in `mixed`
(`AloneAtWork`, from `ShareInv` and `StraysInv`).

### IngestCalls_proofs

`StaleRowsNeedARace`: a row that a reader holds is older than a cycle's only if it
was already held when that cycle emptied the cache (`HeldOnlyAfterARace`).
`FeedsAreAskedPatiently`: what has been slept is exactly what the last answer and
the attempt's place in the backoff list demand.

### FilmTimeline_proofs

`Seamless` and `VoicesFit` hold for every script and every clip length, not only
for the ties that the run tries: rounding moves a length by at most half a
millisecond and a lead-in is a whole number of them, which is less than the pause
after a voice. Lemmas state what `Rounded`, the pacing profiles and
`FrameDuration` return.

`NothingLostToHaste` and `FilmsSpeak` share `NarrationInv`. `GateInv` bounds the
requests under way by counting the tasks that speak; `TaskInv` says what each task
that is done has left behind, a spoken line or one it counted as silenced;
`CountedInv` says that no film is timed before its tasks are done and the guard
on their number has passed.

`ReadAsWritten` compares the parse, line by line, with a definition over the whole
text. `ReadingInv` adds what the parser has to remember of the text behind it: of
all lines that open a block, which was the last (`Last`). One lemma for each kind
of line says what it does to the headings and to the blocks (`HeadingRead`,
`DirectionRead`, `FieldRead`, `OutsideRead`). No induction over the text is
needed: the definition speaks of one line more at each step.

### Autopilot_proofs

`BackendsBuildFrames` is the refinement of `FrameBuilding` by all three backends.
`BuildInv` says that frames are settled in turn (or, with "gemini", that every
frame is pending or settled) and that `failed` are the settled frames that are
not real. `PicksAreTried`: what a firing wants is what it has called for together
with the picks left (`PicksInv`).

`AutopilotTypes` gathers these and the types of the build. `ShotsNeverRepeat`
speaks of every pair of frames while a build compares one with what it has
accepted so far: the frames between two neighbouring shots are not real
(`ShotsInv`). `BestPlansAreShown` needs to know that an answer waits for a second
one only because it does not fit what earlier frames show (`PlansInv`); `FirstIsBest`
and `SecondIsBest` compare the answers.

### What is only model-checked

Everything under fairness (`EveryItemSettles`, `EveryItemResolves`,
`GoneIsDisabled`, `EveryFiringEnds`, `UpdatesTakeEffect`, `EveryCycleEnds`,
`EveryFilmIsTimed`, `OutcomeIsShown`): liveness and ENABLED are out of the
prover's reach.

`TypeOK` of `EmbeddingRecovery`, `SourceHealth`, `IngestCalls` and `FilmTimeline`
documents the types; what the theorems need of it is part of their invariants.

## 7. Not modelled

- Stateless code: the embedding services, HTML templates, list endpoints, text
  functions (decoding, dates, URL canonicalisation, title tokens, channel
  validation) and command line drivers have no steps to interleave.
- The loss of a lock's connection while the replica that holds it lives on. The
  body continues on its own connections and nothing in the code notices or
  promises exclusion then.
- What the hazards of `PROJECT.json` with a note and no property name: a source
  polled twice at once counts twice, EDGAR's outages look like good polls, nobody
  settles the row of a run that died. The code makes no promise there that a
  property could hold it to.
- What a model writes, a browser paints and ffmpeg encodes: choices of a small set.
- The thumbnail and `upload.txt`, which no later step reads.
- Several poll schedules with different scopes at once: they take different sources
  and share only the cache, which `IngestCalls` gives two readers.
